------------------------ MODULE NativeSessionProofs ------------------------
(***************************************************************************)
(* Proofs about NativeSession, for any number of attempts, UI probes, pump *)
(* runs and connections.  The pump's ownership invariant is taken over     *)
(* from TunnelPumpProofs; on top of it come the mutex and the positions of *)
(* the callers (CallInv), the claims on a handshake (ClaimInv) and, for an *)
(* attempt that is alone, the history of its connection (AloneInv).        *)
(***************************************************************************)
EXTENDS NativeSession, TunnelPumpProofs

(* The mutex is held exactly by a probe on the wire, which found a session *)
(* whose handshake and socket belong together; threads inside connect and  *)
(* complete have a handshake.                                              *)
CallInv ==
    /\ handshake = socket
    /\ \A j \in Callers : lock = j <=> at[j] \in {"send", "echo"}
    /\ lock # None => socket \in Conns
    /\ \A u \in Probers : at[u] \in {"idle", "probe", "send", "echo"}
    /\ \A a \in Attempts :
          at[a] \in {"store", "slot", "respond", "claim", "verify", "derive", "confirm", "reject"}
             => mine[a] \in Conns

(* A thread between its claim and the outcome owns the completed flag of   *)
(* its handshake, and nobody owns the flag of one that is proven.          *)
Claiming(a) == at[a] \in {"verify", "derive", "confirm"}

ClaimInv ==
    /\ \A a \in Attempts : Claiming(a) => completed[mine[a]] /\ mine[a] \notin proven
    /\ \A a, b \in Attempts : Claiming(a) /\ Claiming(b) /\ mine[a] = mine[b] => a = b
    /\ \A a \in Attempts : at[a] = "confirm" => record_keys[mine[a]]
    /\ \A c \in proven : completed[c] /\ record_keys[c]
    /\ CompletedIsProven

SInv == Owned /\ STypeOK /\ CallInv /\ ClaimInv /\ PumpFollowsSession

(* One attempt thread and no UI probe. *)
Alone == Probers = {} /\ \A a, b \in Attempts : a = b

(* Records exist only on proven connections. *)
ProvenInv ==
    /\ DataOnlyWhenProven
    /\ \A r \in Runs : conn[r] \in Conns => conn[r] \in proven
    /\ lock # None => handshake \in proven

(* From its storing until its first record a session is fresh, and from    *)
(* then until the pump takes it over all its records lie below the         *)
(* next_out_seq that the pump will be handed.                              *)
Fresh(c)   == sealed[c] = <<>> /\ Unused(c)
Handing(c) == Unused(c) /\ \A i \in 1..Len(sealed[c]) : sealed[c][i] < next_out_seq
Opening    == {"slot", "respond", "complete", "claim", "verify", "derive", "confirm",
               "reject", "probe", "send"}

FirstInv ==
    /\ handshake \in dialled \cup {None}
    /\ \A c \in Conns \ dialled : Fresh(c)
    /\ \A a \in Attempts :
          /\ at[a] = "store" => mine[a] \in dialled /\ Fresh(mine[a])
          /\ at[a] \in Opening /\ handshake # None => Fresh(handshake)
          /\ at[a] \in {"echo", "pump"} /\ handshake # None => Handing(handshake)

AloneInv == Alone => ProvenInv /\ SealedInv /\ FirstInv
-----------------------------------------------------------------------------
(* The pump under the session: its ownership invariant holds whoever       *)
(* drives it, because no call but the probe touches a connection directly. *)

(* A step that leaves the pump alone up to the wires and the history.      *)
LEMMA OwnedWires ==
    ASSUME Owned, TypeWires',
           UNCHANGED <<inner, seqs, stats, runs, conn, pc, seq, frame>>
    PROVE  Owned'
<1> USE DEF Owned
<1>1. TypeOK'
  BY DEF TypeOK, TypeInner, TypeThreads, inner, seqs
<1>2. HolderInv' /\ AliveInv' /\ ConnInv' /\ ShapeInv' /\ SeqInv'
  BY NoMove DEF inner
<1> QED BY <1>1, <1>2

LEMMA OwnedProbeSend == ASSUME Owned, STypeOK, NEW j, ProbeSend(j) PROVE Owned'
<1>t. TypeWires /\ next_out_seq \in Nat
  BY DEF Owned, TypeOK, STypeOK
<1>1. outbox' \in [Conns -> Seq(Nat)]
  <2>1. \A c \in Conns : Append(outbox[c], next_out_seq) \in Seq(Nat)
    BY <1>t DEF TypeWires
  <2>2. \/ outbox' = [c \in Conns |-> IF c = socket THEN Append(outbox[c], next_out_seq)
                                                 ELSE outbox[c]]
        \/ outbox' = outbox
    BY <1>t DEF ProbeSend, TypeWires
  <2> QED BY <2>1, <2>2, <1>t DEF TypeWires
<1>2. sealed' \in [Conns -> Seq(Nat)]
  <2>1. \A c \in Conns : Append(sealed[c], next_out_seq) \in Seq(Nat)
    BY <1>t DEF TypeWires
  <2>2. \/ sealed' = [c \in Conns |-> IF c = handshake THEN Append(sealed[c], next_out_seq)
                                                 ELSE sealed[c]]
        \/ sealed' = sealed
    BY <1>t DEF ProbeSend, TypeWires
  <2> QED BY <2>1, <2>2, <1>t DEF TypeWires
<1>3. TypeWires'
  BY <1>1, <1>2, <1>t DEF ProbeSend, TypeWires
<1> QED BY <1>3, OwnedWires DEF ProbeSend

LEMMA OwnedProbeEcho == ASSUME Owned, STypeOK, NEW j, ProbeEcho(j) PROVE Owned'
<1>t. TypeWires
  BY DEF Owned, TypeOK
<1>1. inbox' \in [Conns -> Seq(Frames)]
  <2>1. ASSUME NEW c \in Conns, inbox[c] # <<>> PROVE Tail(inbox[c]) \in Seq(Frames)
    BY <1>t, <2>1 DEF TypeWires
  <2>2. inbox' = [inbox EXCEPT ![socket] = Tail(@)] /\ inbox[socket] # <<>>
    BY DEF ProbeEcho
  <2> QED BY <2>1, <2>2, <1>t DEF TypeWires
<1>2. TypeWires'
  BY <1>1, <1>t DEF ProbeEcho, TypeWires, hist
<1> QED BY <1>2, OwnedWires DEF ProbeEcho

LEMMA OwnedStartPump == ASSUME Owned, STypeOK, NEW a, StartPump(a) PROVE Owned'
<1>1. CASE UNCHANGED pump
  BY <1>1, OwnedNext DEF pump
<1>2. CASE PumpReady /\ ~running /\ \E h \in HaltHandles(socket) :
              Start(socket, h, next_out_seq, next_in_seq)
  <2>1. socket \in Conns /\ next_out_seq \in Nat /\ next_in_seq \in Nat
    BY <1>2 DEF PumpReady, STypeOK
  <2> QED BY <1>2, <2>1, OwnedStart
<1>3. CASE StartCloneFails(next_out_seq, next_in_seq)
  BY <1>3, OwnedStartCloneFails DEF STypeOK
<1> QED BY <1>1, <1>2, <1>3 DEF StartPump

LEMMA OwnedPumpStep == ASSUME Owned, PumpStep, dialled \subseteq Conns PROVE Owned'
BY OwnedNext DEF PumpStep, Next, Peer

(* The calls that tear the session down, and those that leave the pump     *)
(* alone.                                                                  *)
TearsDown == \/ Disconnect
             \/ \E a \in Attempts : ConnectFails(a) \/ CompleteReject(a)

Idles == \/ \E a \in Attempts :
               \/ ConnectWire(a) \/ ConnectStore(a) \/ ConnectSlot(a) \/ ConnectRespond(a)
               \/ CompleteClone(a) \/ CompleteClaim(a) \/ CompleteVerify(a)
               \/ CompleteDerive(a) \/ CompleteConfirm(a)
               \/ Superseded(a) \/ Retry(a) \/ Restart(a)
         \/ \E u \in Probers : ProbeAsked(u)
         \/ \E j \in Callers : ProbeBegin(j) \/ ProbeReadFails(j)
         \/ UNCHANGED svars

LEMMA SKinds ==
    ASSUME [SNext]_svars
    PROVE  \/ TearsDown \/ Idles \/ PumpStep
           \/ \E a \in Attempts : StartPump(a)
           \/ \E j \in Callers : ProbeSend(j) \/ ProbeEcho(j)
BY DEF SNext, Connect, Complete, Probe, TearsDown, Idles

LEMMA IdlesKeeps == ASSUME Idles PROVE UNCHANGED pump
BY DEF Idles, ConnectWire, ConnectStore, ConnectSlot, ConnectRespond, CompleteClone,
   CompleteClaim, CompleteVerify, CompleteDerive, CompleteConfirm, Superseded, Retry, Restart,
   ProbeAsked, ProbeBegin, ProbeReadFails, svars, pump

LEMMA TearsDownStops == ASSUME TearsDown PROVE Teardown
BY DEF TearsDown, Disconnect, ConnectFails, CompleteReject

LEMMA SOwnedNext == ASSUME Owned, STypeOK, [SNext]_svars PROVE Owned'
<1>1. CASE TearsDown
  BY <1>1, TearsDownStops, OwnedStop DEF Teardown
<1>2. CASE Idles
  BY <1>2, IdlesKeeps, OwnedNext DEF pump
<1>3. CASE PumpStep
  BY <1>3, OwnedPumpStep DEF STypeOK
<1>4. CASE \E a \in Attempts : StartPump(a)
  BY <1>4, OwnedStartPump
<1>5. CASE \E j \in Callers : ProbeSend(j) \/ ProbeEcho(j)
  BY <1>5, OwnedProbeSend, OwnedProbeEcho
<1> QED BY <1>1, <1>2, <1>3, <1>4, <1>5, SKinds

(* Every call keeps the session's types. *)
LEMMA STypeNext == ASSUME SInv, Owned', [SNext]_svars PROVE STypeOK'
<1>t. TypeOK' /\ STypeOK
  BY DEF Owned, SInv
<1> USE <1>t DEF At, session, shakes, kotlin, STypeOK, Callers
<1>1. CASE Disconnect
  BY <1>1 DEF Disconnect, Teardown, callers
<1>2. CASE PumpStep
  BY <1>2 DEF PumpStep, callers
<1>3. CASE UNCHANGED svars
  BY <1>3 DEF svars, callers
<1>4. ASSUME NEW a \in Attempts, ConnectWire(a) PROVE STypeOK'
  BY <1>4 DEF ConnectWire
<1>5. ASSUME NEW a \in Attempts, ConnectFails(a) PROVE STypeOK'
  BY <1>5 DEF ConnectFails, Failed, Teardown
<1>6. ASSUME NEW a \in Attempts, ConnectStore(a) PROVE STypeOK'
  BY <1>6 DEF ConnectStore
<1>7. ASSUME NEW a \in Attempts, ConnectSlot(a) PROVE STypeOK'
  BY <1>7 DEF ConnectSlot
<1>8. ASSUME NEW a \in Attempts, ConnectRespond(a) PROVE STypeOK'
  BY <1>8 DEF ConnectRespond
<1>9. ASSUME NEW a \in Attempts, CompleteClone(a) PROVE STypeOK'
  <2> USE <1>9
  <2>1. CASE pending = None
    BY <2>1 DEF CompleteClone, Failed
  <2>2. CASE pending # None /\ handshake = None
    BY <2>2 DEF CompleteClone, Failed
  <2>3. CASE pending # None /\ handshake # None
    BY <2>3 DEF CompleteClone
  <2> QED BY <2>1, <2>2, <2>3
<1>10. ASSUME NEW a \in Attempts, CompleteClaim(a) PROVE STypeOK'
  BY <1>10, ZenonT(60) DEF CompleteClaim
<1>11. ASSUME NEW a \in Attempts, CompleteVerify(a) PROVE STypeOK'
  BY <1>11, ZenonT(60) DEF CompleteVerify, Reject
<1>12. ASSUME NEW a \in Attempts, CompleteDerive(a) PROVE STypeOK'
  BY <1>12, ZenonT(60) DEF CompleteDerive, Reject
<1>13. ASSUME NEW a \in Attempts, CompleteConfirm(a) PROVE STypeOK'
  <2> USE <1>13
  <2>1. mine[a] \in Conns
    BY DEF CompleteConfirm, SInv, CallInv
  <2>2. CASE at' = [at EXCEPT ![a] = "probe"]
    BY <2>1, <2>2 DEF CompleteConfirm, Reject
  <2>3. CASE Reject(a)
    BY <2>1, <2>3 DEF CompleteConfirm, Reject
  <2> QED BY <2>2, <2>3 DEF CompleteConfirm
<1>14. ASSUME NEW a \in Attempts, CompleteReject(a) PROVE STypeOK'
  BY <1>14 DEF CompleteReject, Failed, Teardown
<1>15. ASSUME NEW a \in Attempts, StartPump(a) PROVE STypeOK'
  BY <1>15 DEF StartPump
<1>16. ASSUME NEW a \in Attempts, Superseded(a) PROVE STypeOK'
  BY <1>16 DEF Superseded
<1>17. ASSUME NEW a \in Attempts, Retry(a) PROVE STypeOK'
  BY <1>17 DEF Retry
<1>18. ASSUME NEW a \in Attempts, Restart(a) PROVE STypeOK'
  BY <1>18 DEF Restart
<1>19. ASSUME NEW u \in Probers, ProbeAsked(u) PROVE STypeOK'
  BY <1>19 DEF ProbeAsked
<1>20. ASSUME NEW j \in Callers, ProbeBegin(j) PROVE STypeOK'
  BY <1>20 DEF ProbeBegin, Failed
<1>21. ASSUME NEW j \in Callers, ProbeSend(j) PROVE STypeOK'
  BY <1>21 DEF ProbeSend, Failed, AfterProbeSend
<1>22. ASSUME NEW j \in Callers, ProbeEcho(j) PROVE STypeOK'
  BY <1>22 DEF ProbeEcho, Failed
<1>23. ASSUME NEW j \in Callers, ProbeReadFails(j) PROVE STypeOK'
  BY <1>23 DEF ProbeReadFails, Failed
<1> QED BY <1>1, <1>2, <1>3, <1>4, <1>5, <1>6, <1>7, <1>8, <1>9, <1>10, <1>11, <1>12,
   <1>13, <1>14, <1>15, <1>16, <1>17, <1>18, <1>19, <1>20, <1>21, <1>22, <1>23
  DEF SNext, Connect, Complete, Probe

(* ... the mutex and the positions ... *)
LEMMA CallNext == ASSUME SInv, Owned', [SNext]_svars PROVE CallInv'
<1>t. STypeOK /\ CallInv
  BY DEF SInv
<1> USE <1>t, SessionAssumption DEF At, session, STypeOK, CallInv, Callers, Unlocked
<1>1. CASE Disconnect
  BY <1>1 DEF Disconnect, Teardown, callers
<1>2. CASE PumpStep
  BY <1>2 DEF PumpStep, callers
<1>3. CASE UNCHANGED svars
  BY <1>3 DEF svars, callers
<1>4. ASSUME NEW a \in Attempts, ConnectWire(a) PROVE CallInv'
  BY <1>4 DEF ConnectWire
<1>5. ASSUME NEW a \in Attempts, ConnectFails(a) PROVE CallInv'
  BY <1>5 DEF ConnectFails, Failed, Teardown
<1>6. ASSUME NEW a \in Attempts, ConnectStore(a) PROVE CallInv'
  BY <1>6 DEF ConnectStore
<1>7. ASSUME NEW a \in Attempts, ConnectSlot(a) PROVE CallInv'
  BY <1>7 DEF ConnectSlot
<1>8. ASSUME NEW a \in Attempts, ConnectRespond(a) PROVE CallInv'
  BY <1>8 DEF ConnectRespond
<1>9. ASSUME NEW a \in Attempts, CompleteClone(a) PROVE CallInv'
  BY <1>9 DEF CompleteClone, Failed
<1>10. ASSUME NEW a \in Attempts, CompleteClaim(a) PROVE CallInv'
  BY <1>10 DEF CompleteClaim
<1>11. ASSUME NEW a \in Attempts, CompleteVerify(a) PROVE CallInv'
  BY <1>11 DEF CompleteVerify, Reject
<1>12. ASSUME NEW a \in Attempts, CompleteDerive(a) PROVE CallInv'
  BY <1>12 DEF CompleteDerive, Reject
<1>13. ASSUME NEW a \in Attempts, CompleteConfirm(a) PROVE CallInv'
  BY <1>13 DEF CompleteConfirm, Reject
<1>14. ASSUME NEW a \in Attempts, CompleteReject(a) PROVE CallInv'
  BY <1>14 DEF CompleteReject, Failed, Teardown
<1>15. ASSUME NEW a \in Attempts, StartPump(a) PROVE CallInv'
  BY <1>15 DEF StartPump
<1>16. ASSUME NEW a \in Attempts, Superseded(a) PROVE CallInv'
  BY <1>16 DEF Superseded
<1>17. ASSUME NEW a \in Attempts, Retry(a) PROVE CallInv'
  BY <1>17 DEF Retry
<1>18. ASSUME NEW a \in Attempts, Restart(a) PROVE CallInv'
  BY <1>18 DEF Restart
<1>19. ASSUME NEW u \in Probers, ProbeAsked(u) PROVE CallInv'
  BY <1>19 DEF ProbeAsked
<1>20. ASSUME NEW j \in Callers, ProbeBegin(j) PROVE CallInv'
  <2> USE <1>20
  <2>1. lock = None /\ \A i \in Callers : at[i] \notin {"send", "echo"}
    BY DEF ProbeBegin
  <2>2. CASE ProbeReady /\ lock' = j /\ At(j, "send")
    <3>1. lock' \in Callers /\ lock' # None
      BY <2>2
    <3>2. \A i \in Callers : lock' = i <=> at'[i] \in {"send", "echo"}
      BY <2>1, <2>2 DEF At
    <3> QED BY <2>1, <2>2, <3>1, <3>2 DEF ProbeBegin, ProbeReady
  <2>3. CASE Failed(j) /\ UNCHANGED lock
    <3>1. \A i \in Callers : lock' = i <=> at'[i] \in {"send", "echo"}
      BY <2>1, <2>3 DEF At, Failed
    <3> QED BY <2>1, <2>3, <3>1 DEF ProbeBegin, Failed
  <2> QED BY <2>2, <2>3 DEF ProbeBegin
<1>21. ASSUME NEW j \in Callers, ProbeSend(j) PROVE CallInv'
  BY <1>21 DEF ProbeSend, Failed, AfterProbeSend
<1>22. ASSUME NEW j \in Callers, ProbeEcho(j) PROVE CallInv'
  BY <1>22 DEF ProbeEcho, Failed
<1>23. ASSUME NEW j \in Callers, ProbeReadFails(j) PROVE CallInv'
  BY <1>23 DEF ProbeReadFails, Failed
<1> QED BY <1>1, <1>2, <1>3, <1>4, <1>5, <1>6, <1>7, <1>8, <1>9, <1>10, <1>11, <1>12,
   <1>13, <1>14, <1>15, <1>16, <1>17, <1>18, <1>19, <1>20, <1>21, <1>22, <1>23
  DEF SNext, Connect, Complete, Probe

(* ... and the claims. *)
LEMMA ClaimNext == ASSUME SInv, Owned', [SNext]_svars PROVE ClaimInv'
<1>t. STypeOK /\ CallInv /\ ClaimInv
  BY DEF SInv
<1> USE <1>t, SessionAssumption DEF At, shakes, STypeOK, CallInv, ClaimInv, CompletedIsProven, Claiming, Callers
<1>1. CASE Disconnect
  BY <1>1 DEF Disconnect, Teardown, callers
<1>2. CASE PumpStep
  BY <1>2 DEF PumpStep, callers
<1>3. CASE UNCHANGED svars
  BY <1>3 DEF svars, callers
<1>4. ASSUME NEW a \in Attempts, ConnectWire(a) PROVE ClaimInv'
  BY <1>4 DEF ConnectWire
<1>5. ASSUME NEW a \in Attempts, ConnectFails(a) PROVE ClaimInv'
  BY <1>5 DEF ConnectFails, Failed, Teardown
<1>6. ASSUME NEW a \in Attempts, ConnectStore(a) PROVE ClaimInv'
  BY <1>6 DEF ConnectStore
<1>7. ASSUME NEW a \in Attempts, ConnectSlot(a) PROVE ClaimInv'
  BY <1>7 DEF ConnectSlot
<1>8. ASSUME NEW a \in Attempts, ConnectRespond(a) PROVE ClaimInv'
  BY <1>8 DEF ConnectRespond
<1>9. ASSUME NEW a \in Attempts, CompleteClone(a) PROVE ClaimInv'
  BY <1>9 DEF CompleteClone, Failed
<1>10. ASSUME NEW a \in Attempts, CompleteClaim(a) PROVE ClaimInv'
  BY <1>10 DEF CompleteClaim
<1>11. ASSUME NEW a \in Attempts, CompleteVerify(a) PROVE ClaimInv'
  BY <1>11 DEF CompleteVerify, Reject
<1>12. ASSUME NEW a \in Attempts, CompleteDerive(a) PROVE ClaimInv'
  BY <1>12 DEF CompleteDerive, Reject
<1>13. ASSUME NEW a \in Attempts, CompleteConfirm(a) PROVE ClaimInv'
  BY <1>13 DEF CompleteConfirm, Reject
<1>14. ASSUME NEW a \in Attempts, CompleteReject(a) PROVE ClaimInv'
  BY <1>14 DEF CompleteReject, Failed, Teardown
<1>15. ASSUME NEW a \in Attempts, StartPump(a) PROVE ClaimInv'
  BY <1>15 DEF StartPump
<1>16. ASSUME NEW a \in Attempts, Superseded(a) PROVE ClaimInv'
  BY <1>16 DEF Superseded
<1>17. ASSUME NEW a \in Attempts, Retry(a) PROVE ClaimInv'
  BY <1>17 DEF Retry
<1>18. ASSUME NEW a \in Attempts, Restart(a) PROVE ClaimInv'
  BY <1>18 DEF Restart
<1>19. ASSUME NEW u \in Probers, ProbeAsked(u) PROVE ClaimInv'
  BY <1>19 DEF ProbeAsked
<1>20. ASSUME NEW j \in Callers, ProbeBegin(j) PROVE ClaimInv'
  BY <1>20 DEF ProbeBegin, Failed
<1>21. ASSUME NEW j \in Callers, ProbeSend(j) PROVE ClaimInv'
  BY <1>21 DEF ProbeSend, Failed, AfterProbeSend
<1>22. ASSUME NEW j \in Callers, ProbeEcho(j) PROVE ClaimInv'
  BY <1>22 DEF ProbeEcho, Failed
<1>23. ASSUME NEW j \in Callers, ProbeReadFails(j) PROVE ClaimInv'
  BY <1>23 DEF ProbeReadFails, Failed
<1> QED BY <1>1, <1>2, <1>3, <1>4, <1>5, <1>6, <1>7, <1>8, <1>9, <1>10, <1>11, <1>12,
   <1>13, <1>14, <1>15, <1>16, <1>17, <1>18, <1>19, <1>20, <1>21, <1>22, <1>23
  DEF SNext, Connect, Complete, Probe

(* Threads and peers never set running, nor touch stop. *)
LEMMA PumpStepKeeps == ASSUME PumpStep PROVE stop' = stop /\ (running' => running)
<1>1. ASSUME NEW t \in Threads, Check(t) \/ Finish(t) \/ ClearRunning(t) \/ HaltLast(t)
      PROVE  stop' = stop /\ (running' => running)
  BY <1>1 DEF Check, Finish, ClearRunning, HaltLast, inner
<1>2. ASSUME NEW r, OutStep(r) PROVE stop' = stop /\ (running' => running)
  BY <1>2 DEF OutStep, OutPollTimeout, OutTunEnds, OutDropIpv6, OutRead, OutSeal,
     OutSealFails,
     OutWrite, OutWriteFails, inner
<1>3. ASSUME NEW r, InStep(r) PROVE stop' = stop /\ (running' => running)
  BY <1>3 DEF InStep, InRead, InReadEnds, InOpen, InOpenFails, InDeliver,
     InDeliverFails, inner
<1>4. ASSUME NEW c, ServerMirror(c) \/ PeerNoise(c) \/ PeerClose(c)
      PROVE  stop' = stop /\ (running' => running)
  BY <1>4 DEF ServerMirror, PeerNoise, PeerClose, inner
<1> QED BY <1>1, <1>2, <1>3, <1>4 DEF PumpStep, Step

(* Idle calls drop no session. *)
LEMMA IdlesKeepSession ==
    ASSUME STypeOK, CallInv, Idles
    PROVE  handshake' = None => handshake = None
<1>1. ASSUME NEW a \in Attempts, ConnectStore(a) PROVE handshake' # None
  BY <1>1, PumpAssumption DEF ConnectStore, CallInv
<1>2. Idles => UNCHANGED handshake \/ \E a \in Attempts : ConnectStore(a)
  BY DEF Idles, ConnectWire, ConnectSlot, ConnectRespond, CompleteClone, CompleteClaim,
     CompleteVerify, CompleteDerive, CompleteConfirm, Superseded, Retry, Restart, ProbeAsked,
     ProbeBegin, ProbeReadFails, svars, session
<1> QED BY <1>1, <1>2

LEMMA FollowsNext == ASSUME SInv, [SNext]_svars PROVE PumpFollowsSession'
<1> USE DEF SInv
<1>1. CASE TearsDown
  BY <1>1, TearsDownStops DEF Teardown, Stop, PumpFollowsSession
<1>2. CASE Idles
  BY <1>2, IdlesKeeps, IdlesKeepSession DEF pump, vars, inner, PumpFollowsSession
<1>3. CASE PumpStep
  BY <1>3, PumpStepKeeps DEF PumpStep, session, PumpFollowsSession
<1>4. ASSUME NEW a \in Attempts, StartPump(a) PROVE PumpFollowsSession'
  <2>1. CASE UNCHANGED pump
    BY <1>4, <2>1 DEF StartPump, pump, vars, inner, session, PumpFollowsSession
  <2>2. CASE PumpReady
    BY <1>4, <2>2 DEF StartPump, PumpReady, session, PumpFollowsSession
  <2> QED BY <1>4, <2>1, <2>2 DEF StartPump
<1>5. ASSUME NEW j \in Callers, ProbeSend(j) \/ ProbeEcho(j) PROVE PumpFollowsSession'
  BY <1>5 DEF ProbeSend, ProbeEcho, inner, PumpFollowsSession
<1> QED BY <1>1, <1>2, <1>3, <1>4, <1>5, SKinds

LEMMA SInvInit == SInit => SInv
<1> SUFFICES ASSUME SInit PROVE SInv
  OBVIOUS
<1>1. Owned
  BY OwnedInit DEF SInit
<1>2. STypeOK
  BY <1>1 DEF SInit, STypeOK, Owned, Callers
<1>3. CallInv
  BY SessionAssumption DEF SInit, CallInv, Callers
<1>4. ClaimInv
  BY DEF SInit, ClaimInv, CompletedIsProven, Claiming, Callers
<1>5. PumpFollowsSession
  BY DEF SInit, Init, PumpFollowsSession
<1> QED BY <1>1, <1>2, <1>3, <1>4, <1>5 DEF SInv

LEMMA SInvNext == SInv /\ [SNext]_svars => SInv'
<1> SUFFICES ASSUME SInv, [SNext]_svars PROVE SInv'
  OBVIOUS
<1>1. Owned'
  BY SOwnedNext DEF SInv
<1> QED BY <1>1, STypeNext, CallNext, ClaimNext, FollowsNext DEF SInv

LEMMA SInvAlways == SSpec => []SInv
BY SInvInit, SInvNext, PTL DEF SSpec

(* SessionTypeCorrect: the session, its callers and the pump under them    *)
(* keep their types whatever the Kotlin side calls, in whatever order and  *)
(* from however many threads.                                              *)
THEOREM SessionTypeCorrect == SSpec => []STypeOK
<1>1. SInv => STypeOK
  BY DEF SInv
<1> QED BY <1>1, SInvAlways, PTL

(* SessionOwnershipCorrect: the pump's OneOwner holds with the session on  *)
(* top of it, which starts the pump on any connection and with any         *)
(* sequences, also on one that already had a run.                          *)
THEOREM SessionOwnershipCorrect == SSpec => []OneOwner
<1>1. SInv => OneOwner
  BY DEF SInv, Owned, OneOwner, HolderInv, Holding
<1> QED BY <1>1, SInvAlways, PTL

(* CompletedCorrect: complete() claims the flag before it verifies, and    *)
(* still a flag that nobody is inside complete() for means a verified      *)
(* confirmation and fixed keys: the claim excludes a second verifier, the  *)
(* rollback is the claimer's own, and a proven handshake admits no claim.  *)
THEOREM CompletedCorrect == SSpec => []CompletedIsProven
<1>1. SInv => CompletedIsProven
  BY DEF SInv, ClaimInv
<1> QED BY <1>1, SInvAlways, PTL

(* FollowsCorrect: no teardown, from any thread and at any point of        *)
(* another one's connect, complete or start, leaves a pump relaying        *)
(* without a session and untold to stop.                                   *)
THEOREM FollowsCorrect == SSpec => []PumpFollowsSession
<1>1. SInv => PumpFollowsSession
  BY DEF SInv
<1> QED BY <1>1, SInvAlways, PTL

-----------------------------------------------------------------------------
(* One attempt at a time.  Its connection is fresh when it is stored, its  *)
(* handshake proven when the probe begins, and the pump is handed a        *)
(* sequence above the probe's; a teardown or a restart in between only     *)
(* takes the session away.                                                 *)

(* Calls that leave the wires alone, and the pump's own steps, start no    *)
(* run and seal nothing outside the runs' connections.                     *)
LEMMA Steady ==
    ASSUME SInv, SealedInv, TearsDown \/ Idles \/ PumpStep
    PROVE  /\ SealedInv' /\ conn' = conn
           /\ \A c \in Conns : Unused(c) => Unused(c)' /\ sealed'[c] = sealed[c]
<1>1. Owned
  BY DEF SInv
<1>2. Aside \/ \E r \in Runs : OutStep(r) \/ InStep(r)
  <2>1. CASE TearsDown
    BY <2>1, TearsDownStops DEF Teardown, Aside
  <2>2. CASE Idles
    BY <2>2, IdlesKeeps DEF pump, Aside
  <2>3. CASE PumpStep
    <3>1. dialled \subseteq Conns
      BY DEF SInv, STypeOK
    <3>2. Peer \/ \E t \in Threads : Step(t)
      BY <2>3, <3>1 DEF PumpStep, Peer
    <3> QED BY <3>2, Halves DEF Step, Aside, Shared
  <2> QED BY <2>1, <2>2, <2>3
<1>3. conn' = conn
  BY <1>1, <1>2, AsideMoves, OutMoves, InMoves
<1>4. \A c \in Conns : Unused(c) => Unused(c)'
  BY <1>3 DEF Unused
<1> QED BY <1>1, <1>2, <1>3, <1>4, SealedMove

(* ProvenInv and FirstInv across those steps. *)
LEMMA ProvenSteady ==
    ASSUME SInv, Alone, ProvenInv, SealedInv, TearsDown \/ Idles \/ PumpStep
    PROVE  ProvenInv'
<1>1. /\ conn' = conn
      /\ \A c \in Conns : Unused(c) => sealed'[c] = sealed[c]
  BY Steady
<1>2. proven \subseteq proven'
  <2>1. CASE PumpStep \/ Disconnect
    BY <2>1 DEF PumpStep, Disconnect, shakes
  <2>2. ASSUME NEW a \in Attempts, ConnectFails(a) \/ CompleteReject(a) PROVE proven \subseteq proven'
    BY <2>2 DEF ConnectFails, CompleteReject, shakes
  <2>3. CASE Idles
    BY <2>3 DEF Idles, ConnectWire, ConnectStore, ConnectSlot, ConnectRespond,
       CompleteClone,
       CompleteClaim, CompleteVerify, CompleteDerive, CompleteConfirm, Superseded, Retry,
       Restart, ProbeAsked, ProbeBegin, ProbeReadFails, svars, shakes
  <2> QED BY <2>1, <2>2, <2>3 DEF TearsDown
<1>3. DataOnlyWhenProven'
  <2> SUFFICES ASSUME NEW c \in Conns, sealed'[c] # <<>> PROVE c \in proven
    BY <1>2 DEF DataOnlyWhenProven
  <2>1. CASE Unused(c)
    BY <2>1, <1>1 DEF ProvenInv, DataOnlyWhenProven
  <2>2. CASE ~Unused(c)
    BY <2>2 DEF ProvenInv, Unused
  <2> QED BY <2>1, <2>2
<1>4. lock' # None => handshake' \in proven'
  <2>1. CASE UNCHANGED <<lock, handshake>>
    BY <2>1, <1>2 DEF ProvenInv
  <2>2. CASE lock' = None
    BY <2>2
  <2>3. ASSUME NEW j \in Callers, ProbeBegin(j), ProbeReady PROVE handshake' \in proven'
    <3>1. handshake \in Conns /\ completed[handshake]
      BY <2>3 DEF ProbeReady, SInv, STypeOK
    <3>2. \A a \in Attempts : at[a] = "probe"
      BY <2>3 DEF ProbeBegin, Alone, Callers
    <3>3. handshake \in proven
      BY <3>1, <3>2 DEF SInv, ClaimInv, CompletedIsProven
    <3> QED BY <3>3, <2>3, <1>2 DEF ProbeBegin, session
  <2>4. CASE TearsDown
    BY <2>2, <2>4 DEF TearsDown, Disconnect, ConnectFails, CompleteReject, Unlocked
  <2>5. CASE Idles
    BY <2>1, <2>2, <2>3, <2>5 DEF Idles, ConnectWire, ConnectStore, ConnectSlot,
       ConnectRespond,
       CompleteClone, CompleteClaim, CompleteVerify, CompleteDerive, CompleteConfirm, Superseded,
       Retry, Restart, ProbeAsked, ProbeBegin, ProbeReadFails, svars, session, Unlocked
  <2>6. CASE PumpStep
    BY <2>1, <2>6 DEF PumpStep, session
  <2> QED BY <2>4, <2>5, <2>6
<1> QED BY <1>1, <1>2, <1>3, <1>4 DEF ProvenInv

LEMMA FirstSteady ==
    ASSUME SInv, Alone, SealedInv, FirstInv, TearsDown \/ Idles \/ PumpStep
    PROVE  FirstInv'
<1>1. \A c \in Conns : Fresh(c) => Fresh(c)'
  BY Steady DEF Fresh
<1>2. next_out_seq' = next_out_seq => \A c \in Conns : Handing(c) => Handing(c)'
  BY Steady DEF Handing
<1>3. \A c \in Conns : Fresh(c) => Handing(c)
  BY DEF Fresh, Handing
<1>t. STypeOK /\ CallInv
  BY DEF SInv
<1> USE <1>1, <1>t, PumpAssumption, SessionAssumption DEF FirstInv, STypeOK, Callers
<1>s1. CASE Disconnect
  BY <1>s1, <1>2 DEF Disconnect, Teardown, callers
<1>s2. CASE PumpStep
  BY <1>s2, <1>2 DEF PumpStep, callers, session
<1>s3. CASE UNCHANGED svars
  BY <1>s3, <1>2 DEF svars, callers, session
<1>s4. ASSUME NEW a \in Attempts, ConnectWire(a) PROVE FirstInv'
  BY <1>s4, <1>2 DEF ConnectWire, At, session, Opening
<1>s5. ASSUME NEW a \in Attempts, ConnectFails(a) PROVE FirstInv'
  BY <1>s5, <1>2 DEF ConnectFails, At, Failed, Teardown, Opening
<1>s6. ASSUME NEW a \in Attempts, ConnectStore(a) PROVE FirstInv'
  BY <1>s6 DEF ConnectStore, At, Opening, Alone
<1>s7. ASSUME NEW a \in Attempts, ConnectSlot(a) PROVE FirstInv'
  BY <1>s7, <1>2 DEF ConnectSlot, At, session, Opening
<1>s8. ASSUME NEW a \in Attempts, ConnectRespond(a) PROVE FirstInv'
  BY <1>s8, <1>2 DEF ConnectRespond, At, session, Opening
<1>s9. ASSUME NEW a \in Attempts, CompleteClone(a) PROVE FirstInv'
  BY <1>s9, <1>2 DEF CompleteClone, At, Failed, session, Opening
<1>s10. ASSUME NEW a \in Attempts, CompleteClaim(a) PROVE FirstInv'
  BY <1>s10, <1>2 DEF CompleteClaim, At, session, Opening
<1>s11. ASSUME NEW a \in Attempts, CompleteVerify(a) PROVE FirstInv'
  BY <1>s11, <1>2 DEF CompleteVerify, At, Reject, session, Opening
<1>s12. ASSUME NEW a \in Attempts, CompleteDerive(a) PROVE FirstInv'
  BY <1>s12, <1>2 DEF CompleteDerive, At, Reject, session, Opening
<1>s13. ASSUME NEW a \in Attempts, CompleteConfirm(a) PROVE FirstInv'
  BY <1>s13, <1>2 DEF CompleteConfirm, At, Reject, session, Opening
<1>s14. ASSUME NEW a \in Attempts, CompleteReject(a) PROVE FirstInv'
  BY <1>s14, <1>2 DEF CompleteReject, At, Failed, Teardown, Opening
<1>s15. ASSUME NEW a \in Attempts, Superseded(a) PROVE FirstInv'
  BY <1>s15, <1>2 DEF Superseded, At, session, Opening
<1>s16. ASSUME NEW a \in Attempts, Retry(a) PROVE FirstInv'
  BY <1>s16, <1>2 DEF Retry, At, session, Opening
<1>s17. ASSUME NEW a \in Attempts, Restart(a) PROVE FirstInv'
  BY <1>s17, <1>2 DEF Restart, At, session, Opening
<1>s18. ASSUME NEW u \in Probers, ProbeAsked(u) PROVE FirstInv'
  BY <1>s18, <1>2 DEF ProbeAsked, At, session, Opening
<1>s19. ASSUME NEW j \in Callers, ProbeBegin(j) PROVE FirstInv'
  BY <1>s19, <1>2 DEF ProbeBegin, At, Failed, session, Opening
<1>s20. ASSUME NEW j \in Callers, ProbeReadFails(j) PROVE FirstInv'
  BY <1>s20, <1>2 DEF ProbeReadFails, At, Failed, session, Opening
<1> QED BY <1>s1, <1>s2, <1>s3, <1>s4, <1>s5, <1>s6, <1>s7, <1>s8, <1>s9, <1>s10,
   <1>s11, <1>s12, <1>s13, <1>s14, <1>s15, <1>s16, <1>s17, <1>s18, <1>s19, <1>s20
  DEF TearsDown, Idles

(* The probe's record goes out on a fresh connection that is proven. *)
LEMMA AloneProbeSend ==
    ASSUME SInv, Alone, ProvenInv, SealedInv, FirstInv, NEW j \in Callers, ProbeSend(j)
    PROVE  ProvenInv' /\ SealedInv' /\ FirstInv'
<1> DEFINE n == next_out_seq
<1>1. /\ j \in Attempts /\ at[j] = "send" /\ lock = j /\ \A a \in Attempts : a = j
      /\ handshake = socket /\ handshake \in Conns /\ handshake # None /\ n \in Nat
  BY SessionAssumption, PumpAssumption DEF SInv, CallInv, STypeOK, ProbeSend, Alone, Callers
<1>2. Fresh(handshake) /\ handshake \in proven
  BY <1>1, SessionAssumption DEF FirstInv, ProvenInv, Opening
<1>3. /\ UNCHANGED <<conn, pc, seq, seq_out, proven, dialled, mine, handshake>>
      /\ \A c : Unused(c)' <=> Unused(c)
  BY DEF ProbeSend, seqs, shakes, Unused
<1>4. \A l : At(j, l) => at'[j] = l
  BY DEF SInv, STypeOK, At
<1>5. CASE socket \notin shut \cup closed
  <2>1. sealed' = [sealed EXCEPT ![handshake] = Append(@, n)] /\ next_out_seq' = n + 1
    BY <1>5 DEF ProbeSend, AfterProbeSend
  <2>2. sealed \in [Conns -> Seq(Nat)]
    BY DEF SInv, Owned, TypeOK, TypeWires
  <2>3. /\ \A c \in Conns : c # handshake => sealed'[c] = sealed[c]
        /\ sealed'[handshake] = <<n>>
    BY <2>1, <2>2, <1>1, <1>2 DEF Fresh
  <2>4. At(j, "echo") /\ lock' = lock
    BY <1>5 DEF ProbeSend
  <2>5. ProvenInv'
    BY <1>1, <1>2, <1>3, <2>3, <2>4 DEF ProvenInv, DataOnlyWhenProven
  <2>6. SealedInv'
    <3>1. NonceUnique'
      <4> SUFFICES ASSUME NEW c \in Conns PROVE
            \A p, q \in 1..Len(sealed'[c]) : p < q => sealed'[c][p] < sealed'[c][q]
        BY DEF NonceUnique
      <4>1. CASE c = handshake
        BY <2>3, <4>1
      <4>2. CASE c # handshake
        BY <2>3, <4>2 DEF SealedInv, NonceUnique
      <4> QED BY <4>1, <4>2
    <3>2. \A r \in Runs : conn[r] # handshake
      BY <1>2 DEF Fresh, Unused
    <3>3. \A r \in Runs : pc[Out(r)] # "none" => sealed'[conn[r]] = sealed[conn[r]]
      BY <3>2, <2>3, Begun, Halves DEF SInv, Owned, ConnInv
    <3> QED BY <1>3, <3>1, <3>3 DEF SealedInv
  <2>7. FirstInv'
    <3>1. \A c \in Conns : c # handshake => (Fresh(c) => Fresh(c)')
      BY <1>3, <2>3 DEF Fresh
    <3>2. Handing(handshake)'
      BY <1>1, <1>2, <1>3, <2>1, <2>3 DEF Fresh, Handing
    <3>3. handshake \in dialled
      BY <1>1 DEF FirstInv
    <3>4. \A a \in Attempts : at'[a] = "echo"
      BY <1>1, <1>4, <2>4
    <3> QED BY <1>3, <3>1, <3>2, <3>3, <3>4 DEF FirstInv, Opening
  <2> QED BY <2>5, <2>6, <2>7
<1>6. CASE socket \in shut \cup closed
  <2>1. UNCHANGED <<sealed, next_out_seq>> /\ lock' = None
    BY <1>6 DEF ProbeSend
  <2>2. \A a \in Attempts : at'[a] = "failed"
    BY <1>1, <1>4, <1>6 DEF ProbeSend, Failed
  <2>3. ProvenInv' /\ SealedInv'
    BY <1>3, <2>1 DEF ProvenInv, DataOnlyWhenProven, SealedInv, NonceUnique
  <2>4. \A c \in Conns : Fresh(c) => Fresh(c)'
    BY <1>3, <2>1 DEF Fresh
  <2> QED BY <1>3, <2>2, <2>3, <2>4 DEF FirstInv, Opening
<1> QED BY <1>5, <1>6

LEMMA AloneProbeEcho ==
    ASSUME SInv, Alone, ProvenInv, SealedInv, FirstInv, NEW j \in Callers, ProbeEcho(j)
    PROVE  ProvenInv' /\ SealedInv' /\ FirstInv'
<1>1. j \in Attempts /\ at[j] = "echo" /\ \A a \in Attempts : a = j
  BY DEF ProbeEcho, Alone, Callers
<1>2. /\ UNCHANGED <<conn, pc, seq, seq_out, sealed, next_out_seq, proven, dialled, mine, handshake>>
      /\ lock' = None
  BY DEF ProbeEcho, seqs, shakes, hist
<1>3. /\ \A c \in Conns : Fresh(c) => Fresh(c)'
      /\ \A c : Handing(c) => Handing(c)'
  BY <1>2 DEF Fresh, Handing, Unused
<1>4. at'[j] \in {"pump", "failed"}
  BY <1>1 DEF ProbeEcho, Failed, At, SInv, STypeOK
<1>5. ProvenInv' /\ SealedInv'
  BY <1>2 DEF ProvenInv, DataOnlyWhenProven, SealedInv, NonceUnique
<1>6. FirstInv'
  BY <1>1, <1>2, <1>3, <1>4 DEF FirstInv, Opening
<1> QED BY <1>5, <1>6

(* The pump takes over a proven connection above the records it has. *)
LEMMA AloneStartPump ==
    ASSUME SInv, Alone, ProvenInv, SealedInv, FirstInv, NEW a \in Attempts, StartPump(a)
    PROVE  ProvenInv' /\ SealedInv' /\ FirstInv'
<1>1. at[a] = "pump" /\ \A b \in Attempts : b = a
  BY DEF StartPump, Alone
<1>2. /\ UNCHANGED <<lock, handshake, socket, next_out_seq, proven, dialled, mine>>
      /\ \A b \in Attempts : at'[b] = "done"
  BY <1>1 DEF StartPump, At, session, shakes, SInv, STypeOK, Callers
<1>3. UNCHANGED <<sealed, seq>>
  BY DEF StartPump, Start, StartCloneFails, hist, pump, vars
<1>4. ProvenInv' /\ (UNCHANGED conn => FirstInv')
  <2>1. UNCHANGED conn => \A c \in Conns : Fresh(c) => Fresh(c)'
    BY <1>3 DEF Fresh, Unused
  <2>2. UNCHANGED conn => FirstInv'
    BY <1>2, <2>1 DEF FirstInv, Opening
  <2>3. DataOnlyWhenProven' /\ (lock' # None => handshake' \in proven')
    BY <1>2, <1>3 DEF ProvenInv, DataOnlyWhenProven
  <2>4. \A r \in Runs : conn'[r] = conn[r] \/ conn'[r] \in proven
    <3>1. CASE UNCHANGED conn
      BY <3>1
    <3>2. CASE PumpReady /\ conn' = [conn EXCEPT ![runs + 1] = socket]
      <4>1. socket \in Conns /\ completed[socket]
        BY <3>2 DEF PumpReady, SInv, CallInv, STypeOK
      <4>2. socket \in proven
        BY <1>1, <4>1 DEF SInv, ClaimInv, CompletedIsProven
      <4> QED BY <3>2, <4>2 DEF SInv, Owned, TypeOK, TypeThreads
    <3> QED BY <3>1, <3>2 DEF StartPump, Start, StartCloneFails, pump, vars
  <2> QED BY <1>2, <2>2, <2>3, <2>4 DEF ProvenInv
<1>5. CASE UNCHANGED <<conn, pc, seq_out>>
  BY <1>3, <1>4, <1>5 DEF SealedInv, NonceUnique
<1>6. CASE StartCloneFails(next_out_seq, next_in_seq)
  <2>1. UNCHANGED <<conn, pc>> /\ \A r \in Runs : ~Live(Out(r))
    BY <1>6, Halves DEF StartCloneFails, SInv, Owned, HolderInv, Holding
  <2> QED BY <1>3, <1>4, <2>1 DEF SealedInv, NonceUnique, Live
<1>7. CASE PumpReady /\ \E h \in HaltHandles(socket) : Start(socket, h, next_out_seq, next_in_seq)
  <2>1. /\ socket = handshake /\ socket \in Conns /\ socket # None /\ Handing(socket)
        /\ socket \in dialled
    BY <1>1, <1>7 DEF PumpReady, SInv, CallInv, STypeOK, FirstInv
  <2>2. /\ seq_out' = next_out_seq /\ conn' = [conn EXCEPT ![runs + 1] = socket]
        /\ pc' = [t \in Threads |-> IF t[1] = runs + 1 THEN "check" ELSE pc[t]]
        /\ ~running
    BY <1>7 DEF Start
  <2>3. /\ \A r \in Runs : pc'[Out(r)] = IF r = runs + 1 THEN "check" ELSE pc[Out(r)]
        /\ \A r \in Runs : ~Live(Out(r))
    BY <2>2, Halves DEF SInv, Owned, HolderInv, Holding
  <2>4. \A r \in Runs : conn'[r] = IF r = runs + 1 THEN socket ELSE conn[r]
    BY <2>2 DEF SInv, Owned, TypeOK, TypeThreads
  <2>5. SealedInv'
    <3>1. NonceUnique'
      BY <1>3 DEF SealedInv, NonceUnique
    <3>2. \A r \in Runs : pc'[Out(r)] \in {"check", "wait", "seal", "write"} => r = runs + 1
      BY <2>3 DEF Live
    <3>3. \A i \in 1..Len(sealed[socket]) : sealed[socket][i] < seq_out'
      BY <2>1, <2>2 DEF Handing
    <3> QED BY <1>3, <2>3, <2>4, <3>1, <3>2, <3>3 DEF SealedInv
  <2>6. \A c \in Conns : c # socket /\ Fresh(c) => Fresh(c)'
    BY <1>3, <2>4 DEF Fresh, Unused
  <2>7. FirstInv'
    BY <1>2, <2>1, <2>6 DEF FirstInv, Opening
  <2> QED BY <1>4, <2>5, <2>7
<1> QED BY <1>5, <1>6, <1>7 DEF StartPump, pump, vars, seqs

LEMMA AloneInit == SInit => AloneInv
<1> SUFFICES ASSUME SInit PROVE ProvenInv /\ SealedInv /\ FirstInv
  BY DEF AloneInv
<1>1. SealedInv /\ \A c \in Conns : sealed[c] = <<>> /\ Unused(c)
  BY SealedInit, PumpAssumption DEF SInit, Init, Unused
<1>2. ProvenInv
  BY <1>1, PumpAssumption DEF SInit, Init, ProvenInv, DataOnlyWhenProven
<1>3. \A a \in Attempts : at[a] = "connect"
  BY DEF SInit, Callers
<1>4. FirstInv
  BY <1>1, <1>3 DEF SInit, FirstInv, Fresh, Opening
<1> QED BY <1>1, <1>2, <1>4

LEMMA AloneNext == SInv /\ AloneInv /\ [SNext]_svars => AloneInv'
<1> SUFFICES ASSUME SInv, Alone, ProvenInv, SealedInv, FirstInv, [SNext]_svars
             PROVE  ProvenInv' /\ SealedInv' /\ FirstInv'
  BY DEF AloneInv, Alone
<1>1. CASE TearsDown \/ Idles \/ PumpStep
  BY <1>1, Steady, ProvenSteady, FirstSteady
<1>2. CASE \E a \in Attempts : StartPump(a)
  BY <1>2, AloneStartPump
<1>3. CASE \E j \in Callers : ProbeSend(j) \/ ProbeEcho(j)
  BY <1>3, AloneProbeSend, AloneProbeEcho
<1> QED BY <1>1, <1>2, <1>3, SKinds

LEMMA AloneAlways == SSpec => []AloneInv
BY SInvAlways, AloneInit, AloneNext, PTL DEF SSpec

(* DataCorrect: with one attempt and no UI probe, no record is sealed      *)
(* under a handshake whose confirmation has not been verified, through any *)
(* number of retries, teardowns and restarts of the service.  A UI probe   *)
(* or a second attempt between the derivation of the keys and the          *)
(* confirmation does seal one: the premise is what the code leaves to its  *)
(* caller.                                                                 *)
THEOREM DataCorrect == SSpec => [](Alone => DataOnlyWhenProven)
<1>1. AloneInv => (Alone => DataOnlyWhenProven)
  BY DEF AloneInv, ProvenInv
<1> QED BY <1>1, AloneAlways, PTL

(* SessionNonceCorrect: under the same premise the probe's record and all  *)
(* those of the pump that takes over from it have increasing sequences,    *)
(* although the session's counter and the pump's are different variables   *)
(* and a retry inherits the counter of the attempt before.                 *)
THEOREM SessionNonceCorrect == SSpec => [](Alone => NonceUnique)
<1>1. AloneInv => (Alone => NonceUnique)
  BY DEF AloneInv, SealedInv
<1> QED BY <1>1, AloneAlways, PTL
=============================================================================
