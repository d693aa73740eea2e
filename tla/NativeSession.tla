---------------------------- MODULE NativeSession ----------------------------
(***************************************************************************)
(* The JNI session layer (native/src/lib.rs) over the tunnel pump, with    *)
(* the client handshake (native/src/handshake.rs) and the order in which   *)
(* the Kotlin side calls in (ConnectionOrchestrator, attemptConnect).      *)
(*                                                                         *)
(* One static SESSION is guarded by a mutex.  Every call holds it for one  *)
(* step, except the data-plane probe, which keeps it while it writes to    *)
(* and reads from the socket, and connect and complete, which do their     *)
(* network and crypto work outside it and come back.  Attempt threads run  *)
(* connect, complete, probe, start; the UI may run the probe on its own;   *)
(* a disconnect comes at any time.                                         *)
(*                                                                         *)
(* A handshake is named by the connection it was made on; so is its server *)
(* response.  Cryptography is reduced to which response fits which         *)
(* handshake and which sequence a record was sealed under.                 *)
(***************************************************************************)
EXTENDS TunnelPump

CONSTANTS Attempts,    \* threads running attemptConnect
          Probers,     \* threads running the UI's data-plane probe
          MaxProbes    \* bound: probes the UI starts

ASSUME SessionAssumption ==
    /\ Attempts \cap Probers = {} /\ None \notin Attempts \cup Probers
    /\ MaxProbes \in Nat
    /\ FirstSeq = 0   \* a fresh connection: both sides at their first record

VARIABLES lock,                  \* holder of the SESSION mutex across steps
          handshake, socket,     \* Session's handshake and socket
          next_out_seq, next_in_seq,
          vless_tunnel,          \* the VLESS_TUNNEL slot
          completed, record_keys,\* HandshakeState's flag and OnceLock
          pending,               \* the orchestrator's pendingServerResponseB64
          offered,               \* its handshakeCompleted: the UI offers a probe
          at, mine, resp,        \* threads: position, handshake, response
          dialled, probes,       \* connections made; probes the UI started
          proven                 \* history: handshakes whose confirmation opened

session == <<handshake, socket, next_out_seq, next_in_seq>>
shakes  == <<completed, record_keys, proven>>
callers == <<at, mine, resp, dialled, probes>>
kotlin  == <<pending, offered>>
svars   == <<vars, lock, session, vless_tunnel, shakes, kotlin, callers>>

Callers == Attempts \cup Probers
pump    == vars

SInit ==
    /\ Init
    /\ lock = None
    /\ handshake = None /\ socket = None
    /\ next_out_seq = 0 /\ next_in_seq = 0
    /\ vless_tunnel = None
    /\ completed = [c \in Conns |-> FALSE]
    /\ record_keys = [c \in Conns |-> FALSE]
    /\ pending = None /\ offered = FALSE
    /\ at = [j \in Callers |-> IF j \in Attempts THEN "connect" ELSE "idle"]
    /\ mine = [j \in Callers |-> None] /\ resp = [j \in Callers |-> None]
    /\ dialled = {} /\ probes = 0
    /\ proven = {}

At(j, l)     == at' = [at EXCEPT ![j] = l]
Unlocked     == lock = None
(* Where a failed call leaves its thread: the retry loop, or the UI. *)
Failed(j)    == At(j, IF j \in Attempts THEN "failed" ELSE "idle")

(* Mutation: the pump is left running. *)
TeardownKeepsPump ==
    /\ handshake' = None /\ socket' = None
    /\ next_out_seq' = 0 /\ next_in_seq' = 0
    /\ vless_tunnel' = None
    /\ UNCHANGED pump

(* teardown_session: stop the pump, drop keys and socket, clear the slot. *)
Teardown ==
    /\ Stop
    /\ handshake' = None /\ socket' = None
    /\ next_out_seq' = 0 /\ next_in_seq' = 0
    /\ vless_tunnel' = None

Disconnect ==
    /\ Unlocked
    /\ Teardown
    /\ pending' = None
    /\ UNCHANGED <<lock, shakes, callers, offered>>

-----------------------------------------------------------------------------
(* nativeConnectTunnel.  Dialling, the hello and the response need no      *)
(* lock; what they produced is stored afterwards, in two separate places.  *)

ConnectWire(a) ==
    /\ at[a] = "connect"
    /\ \E c \in Conns \ dialled :
          /\ dialled' = dialled \cup {c}
          /\ mine' = [mine EXCEPT ![a] = c]
    /\ At(a, "store")
    /\ UNCHANGED <<pump, lock, session, vless_tunnel, shakes, kotlin, resp,
                   probes>>

(* The orchestrator answers a failed connect with a full disconnect. *)
ConnectFails(a) ==
    /\ at[a] = "connect"
    /\ Unlocked
    /\ Teardown
    /\ pending' = None
    /\ Failed(a)
    /\ UNCHANGED <<lock, shakes, offered, mine, resp, dialled, probes>>

ConnectStore(a) ==
    /\ at[a] = "store"
    /\ Unlocked
    /\ handshake' = mine[a] /\ socket' = mine[a]
    /\ At(a, "slot")
    /\ UNCHANGED <<pump, lock, next_out_seq, next_in_seq, vless_tunnel, shakes,
                   kotlin, mine, resp, dialled, probes>>

ConnectSlot(a) ==
    /\ at[a] = "slot"
    /\ vless_tunnel' = mine[a]
    /\ At(a, "respond")
    /\ UNCHANGED <<pump, lock, session, shakes, kotlin, mine, resp, dialled,
                   probes>>

ConnectRespond(a) ==
    /\ at[a] = "respond"
    /\ pending' = mine[a]
    /\ mine' = [mine EXCEPT ![a] = None]
    /\ At(a, "complete")
    /\ UNCHANGED <<pump, lock, session, vless_tunnel, shakes, offered, resp,
                   dialled, probes>>

-----------------------------------------------------------------------------
(* nativeCompleteHandshake.  The response is whatever the orchestrator has *)
(* pending, the handshake whatever the session holds when it is cloned.    *)

CompleteClone(a) ==
    /\ at[a] = "complete"
    /\ pending # None => Unlocked
    /\ \/ /\ pending = None
          /\ Failed(a)
          /\ UNCHANGED <<kotlin, mine, resp>>
       \/ /\ pending # None /\ handshake = None
          /\ pending' = None /\ offered' = FALSE
          /\ Failed(a)
          /\ UNCHANGED <<mine, resp>>
       \/ /\ pending # None /\ handshake # None
          /\ mine' = [mine EXCEPT ![a] = handshake]
          /\ resp' = [resp EXCEPT ![a] = pending]
          /\ At(a, "claim")
          /\ UNCHANGED kotlin
    /\ UNCHANGED <<pump, lock, session, vless_tunnel, shakes, dialled, probes>>

(* complete() claims the flag first and verifies afterwards. *)
CompleteClaim(a) ==
    /\ at[a] = "claim"
    /\ \/ /\ completed[mine[a]]
          /\ At(a, "reject")
          /\ UNCHANGED completed
       \/ /\ ~completed[mine[a]]
          /\ completed' = [completed EXCEPT ![mine[a]] = TRUE]
          /\ At(a, "verify")
    /\ UNCHANGED <<pump, lock, session, vless_tunnel, record_keys, proven,
                   kotlin, mine, resp, dialled, probes>>

Reject(a) ==
    /\ completed' = [completed EXCEPT ![mine[a]] = FALSE]
    /\ At(a, "reject")

(* The certificate check passes only for a genuine response to this very   *)
(* handshake; a genuine one may still be a redirection or a middle-box.    *)
CompleteVerify(a) ==
    /\ at[a] = "verify"
    /\ \/ /\ resp[a] = mine[a]
          /\ At(a, "derive")
          /\ UNCHANGED completed
       \/ Reject(a)
    /\ UNCHANGED <<pump, lock, session, vless_tunnel, record_keys, proven,
                   kotlin, mine, resp, dialled, probes>>

CompleteDerive(a) ==
    /\ at[a] = "derive"
    /\ \/ /\ record_keys[mine[a]]
          /\ Reject(a)
          /\ UNCHANGED record_keys
       \/ /\ ~record_keys[mine[a]]
          /\ record_keys' = [record_keys EXCEPT ![mine[a]] = TRUE]
          /\ At(a, "confirm")
          /\ UNCHANGED completed
    /\ UNCHANGED <<pump, lock, session, vless_tunnel, proven, kotlin, mine,
                   resp, dialled, probes>>

(* Mutation: the sealed confirmation is not checked. *)
CompleteConfirmSkipped(a) ==
    /\ at[a] = "confirm"
    /\ pending' = None /\ offered' = TRUE
    /\ mine' = [mine EXCEPT ![a] = None] /\ resp' = [resp EXCEPT ![a] = None]
    /\ At(a, "probe")
    /\ UNCHANGED <<pump, lock, session, vless_tunnel, shakes, dialled, probes>>

(* The sealed confirmation opens, or the session is rejected after all. *)
CompleteConfirm(a) ==
    /\ at[a] = "confirm"
    /\ \/ /\ proven' = proven \cup {mine[a]}
          /\ pending' = None /\ offered' = TRUE
          /\ mine' = [mine EXCEPT ![a] = None]
          /\ resp' = [resp EXCEPT ![a] = None]
          /\ At(a, "probe")
          /\ UNCHANGED completed
       \/ Reject(a) /\ UNCHANGED <<proven, kotlin, mine, resp>>
    /\ UNCHANGED <<pump, lock, session, vless_tunnel, record_keys, dialled,
                   probes>>

(* A rejected response tears down whatever session is current by now. *)
CompleteReject(a) ==
    /\ at[a] = "reject"
    /\ Unlocked
    /\ Teardown
    /\ pending' = None /\ offered' = FALSE
    /\ mine' = [mine EXCEPT ![a] = None] /\ resp' = [resp EXCEPT ![a] = None]
    /\ Failed(a)
    /\ UNCHANGED <<lock, shakes, dialled, probes>>

-----------------------------------------------------------------------------
(* nativeProbeDataPlane.  The UI offers it while its snapshot says that a   *)
(* handshake completed, which a disconnect does not take back.  The probe  *)
(* then runs under the mutex from its checks to its answer.                *)

ProbeAsked(u) ==
    /\ u \in Probers /\ at[u] = "idle" /\ probes < MaxProbes
    /\ offered
    /\ probes' = probes + 1
    /\ At(u, "probe")
    /\ UNCHANGED <<pump, lock, session, vless_tunnel, shakes, kotlin, mine,
                   resp, dialled>>

(* Handshake, flag, socket and (in seal_record) the keys. *)
ProbeReady == /\ handshake # None /\ socket # None
              /\ completed[handshake] /\ record_keys[handshake]

ProbeBegin(j) ==
    /\ at[j] = "probe"
    /\ Unlocked
    /\ \/ /\ ProbeReady
          /\ lock' = j
          /\ At(j, "send")
       \/ /\ ~ProbeReady \/ CloneMayFail
          /\ Failed(j)
          /\ UNCHANGED lock
    /\ UNCHANGED <<pump, session, vless_tunnel, shakes, kotlin, mine, resp,
                   dialled, probes>>

(* Mutation: the sequence is not advanced after the probe was sent. *)
AfterProbeSendStays(n) == n

(* next_out_seq += 1, only once the frame was written. *)
AfterProbeSend(n) == n + 1

(* A probe record whose write fails never leaves and is not in the history. *)
ProbeSend(j) ==
    /\ at[j] = "send"
    /\ \/ /\ socket \notin shut \cup closed
          /\ Len(outbox[socket]) < SockCap
          /\ outbox' = [outbox EXCEPT ![socket] = Append(@, next_out_seq)]
          /\ sealed' = [sealed EXCEPT ![handshake] = Append(@, next_out_seq)]
          /\ next_out_seq' = AfterProbeSend(next_out_seq)
          /\ At(j, "echo")
          /\ UNCHANGED lock
       \/ /\ socket \in shut \cup closed
          /\ lock' = None
          /\ Failed(j)
          /\ UNCHANGED <<outbox, sealed, next_out_seq>>
    /\ UNCHANGED <<inner, seqs, stats, runs, conn, pc, seq, frame, shut, closed,
                   inbox, srv, noise, got, spoiled, rejected, handshake,
                   socket, next_in_seq, vless_tunnel, shakes, kotlin, mine,
                   resp, dialled, probes>>

(* The mirror's answer to record n is its record n.  Every probe has the   *)
(* same payload, so a late echo of an earlier probe passes as well; the    *)
(* echo of a packet, if a pump was started on this socket, does not.       *)
ProbeEcho(j) ==
    LET f == Head(inbox[socket])
    IN  /\ at[j] = "echo"
        /\ inbox[socket] # <<>>
        /\ inbox' = [inbox EXCEPT ![socket] = Tail(@)]
        /\ lock' = None
        /\ \/ /\ Authentic(f, next_in_seq)
              /\ next_in_seq' = next_in_seq + 1
              /\ At(j, IF j \in Attempts THEN "pump" ELSE "idle")
           \/ /\ ~Authentic(f, next_in_seq) \/ ~Unused(socket)
              /\ Failed(j)
              /\ UNCHANGED next_in_seq
        /\ UNCHANGED <<inner, seqs, stats, runs, conn, pc, seq, frame, shut,
                       closed, outbox, srv, noise, hist, handshake, socket,
                       next_out_seq, vless_tunnel, shakes, kotlin, mine, resp,
                       dialled, probes>>

(* Mutation: the socket has no read timeout. *)
ProbeReadFailsNoTimeout(j) ==
    /\ at[j] = "echo"
    /\ socket \in shut \cup closed
    /\ lock' = None
    /\ Failed(j)
    /\ UNCHANGED <<pump, session, vless_tunnel, shakes, kotlin, mine, resp,
                   dialled, probes>>

(* End of file, a reset or the 10 s read timeout. *)
ProbeReadFails(j) ==
    /\ at[j] = "echo"
    /\ inbox[socket] = <<>> \/ socket \in shut \cup closed
    /\ lock' = None
    /\ Failed(j)
    /\ UNCHANGED <<pump, session, vless_tunnel, shakes, kotlin, mine, resp,
                   dialled, probes>>

-----------------------------------------------------------------------------
(* nativeStartTunnelPump, after the service found its generation current.  *)
(* Every outcome ends the attempt; a clone of the session's own socket     *)
(* that fails costs nothing else.                                          *)

PumpReady == handshake # None /\ completed[handshake] /\ socket # None

StartPump(a) ==
    /\ at[a] = "pump"
    /\ Unlocked
    /\ \/ /\ PumpReady /\ ~running
          /\ \/ \E h \in HaltHandles(socket) :
                   Start(socket, h, next_out_seq, next_in_seq)
             \/ StartCloneFails(next_out_seq, next_in_seq)
       \/ /\ ~PumpReady \/ running \/ CloneMayFail
          /\ UNCHANGED pump
    /\ At(a, "done")
    /\ UNCHANGED <<lock, session, vless_tunnel, shakes, kotlin, mine, resp,
                   dialled, probes>>

(* The service's generation moved on: the attempt ends without a pump. *)
Superseded(a) ==
    /\ at[a] \in {"pump", "failed"}
    /\ At(a, "done")
    /\ UNCHANGED <<pump, lock, session, vless_tunnel, shakes, kotlin, mine,
                   resp, dialled, probes>>

(* beginRetry and the next attempt of the loop. *)
Retry(a) ==
    /\ at[a] = "failed"
    /\ dialled # Conns
    /\ pending' = None /\ offered' = FALSE
    /\ At(a, "connect")
    /\ UNCHANGED <<pump, lock, session, vless_tunnel, shakes, mine, resp,
                   dialled, probes>>

(* Another start of the service, which resets nothing of the last one. *)
Restart(a) ==
    /\ at[a] = "done"
    /\ dialled # Conns
    /\ At(a, "connect")
    /\ UNCHANGED <<pump, lock, session, vless_tunnel, shakes, kotlin, mine,
                   resp, dialled, probes>>

-----------------------------------------------------------------------------
Connect(a)  == \/ ConnectWire(a) \/ ConnectFails(a) \/ ConnectStore(a)
               \/ ConnectSlot(a) \/ ConnectRespond(a)
Complete(a) == \/ CompleteClone(a) \/ CompleteClaim(a) \/ CompleteVerify(a)
               \/ CompleteDerive(a) \/ CompleteConfirm(a) \/ CompleteReject(a)
Probe(j)    == ProbeBegin(j) \/ ProbeSend(j) \/ ProbeEcho(j) \/ ProbeReadFails(j)

(* Pump threads and peers of the connections that exist. *)
PumpStep ==
    /\ \/ \E t \in Threads : Step(t)
       \/ \E c \in dialled : ServerMirror(c) \/ PeerNoise(c) \/ PeerClose(c)
    /\ UNCHANGED <<lock, session, vless_tunnel, shakes, kotlin, callers>>

SNext ==
    \/ Disconnect \/ PumpStep
    \/ \E a \in Attempts : \/ Connect(a) \/ Complete(a) \/ StartPump(a)
                           \/ Superseded(a) \/ Retry(a) \/ Restart(a)
    \/ \E u \in Probers : ProbeAsked(u)
    \/ \E j \in Callers : Probe(j)

SSpec == SInit /\ [][SNext]_svars

(* Threads inside a call keep going; a probe's read is bounded by the      *)
(* socket timeout and the pump's threads are scheduled.                    *)
SFair == /\ \A j \in Callers : WF_svars(Probe(j))
         /\ \A t \in Threads :
               WF_svars(Step(t) /\ UNCHANGED <<lock, session, vless_tunnel,
                                               shakes, kotlin, callers>>)
SFairSpec == SSpec /\ SFair

-----------------------------------------------------------------------------
STypeOK ==
    /\ TypeOK
    /\ lock \in Callers \cup {None}
    /\ handshake \in Conns \cup {None} /\ socket \in Conns \cup {None}
    /\ next_out_seq \in Nat /\ next_in_seq \in Nat
    /\ vless_tunnel \in Conns \cup {None} /\ pending \in Conns \cup {None}
    /\ offered \in BOOLEAN
    /\ completed \in [Conns -> BOOLEAN] /\ record_keys \in [Conns -> BOOLEAN]
    /\ at \in [Callers -> {"idle", "connect", "store", "slot", "respond",
                           "complete", "claim", "verify", "derive", "confirm",
                           "reject", "probe", "send", "echo", "pump", "failed",
                           "done"}]
    /\ mine \in [Callers -> Conns \cup {None}]
    /\ resp \in [Callers -> Conns \cup {None}]
    /\ dialled \subseteq Conns /\ proven \subseteq Conns /\ probes \in Nat

(* CompletedIsProven: once nobody is inside complete() for a handshake,    *)
(* its completed flag means that a genuine response to it was verified to  *)
(* the last step and its keys are fixed, whatever responses were fed to it *)
(* from however many threads.                                              *)
CompletedIsProven ==
    \A c \in Conns :
        /\ completed[c]
        /\ \A a \in Attempts : mine[a] = c => at[a] \notin {"verify", "derive", "confirm"}
        => c \in proven /\ record_keys[c]

(* DataOnlyWhenProven: "Only after this returns Ok may the data-plane      *)
(* probe run": no record is sealed under a handshake whose confirmation    *)
(* has not been verified.                                                  *)
DataOnlyWhenProven == \A c \in Conns : sealed[c] # <<>> => c \in proven

(* PumpFollowsSession: while no session exists the pump has been told to   *)
(* stop: no teardown leaves a pump relaying behind it.                     *)
PumpFollowsSession == handshake = None /\ running => stop

(* RetryStartsClean: the first record of a fresh session is the one the    *)
(* server expects first; nothing of an earlier, failed attempt shows.      *)
RetryStartsClean ==
    handshake # None /\ sealed[handshake] = <<>> => next_out_seq = 0

(* LockReleased: a probe gives the SESSION mutex back, whatever the peer   *)
(* does, so a disconnect waiting for it gets its turn.                     *)
LockReleased == lock # None ~> lock = None
=============================================================================
