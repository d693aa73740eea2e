----------------------------- MODULE TunnelPump -----------------------------
(***************************************************************************)
(* The tunnel pump (native/src/pump.rs): two threads, the outbound and the *)
(* inbound half of a run, share one TunnelInner (running, stop, alive, the *)
(* record sequences, the halt handle) and one connection.  A pump object   *)
(* outlives its runs: a later start reuses the same TunnelInner, possibly  *)
(* while the last thread of the earlier run is still on its way out.       *)
(*                                                                         *)
(* A connection is its two byte streams (as sequences of frames), whether  *)
(* our side shut it down and whether the peer closed it; the peer is the   *)
(* honest mirror of native/src/test_server.rs plus stray frames and a      *)
(* close at any time.  Payloads are abstracted to the sequence number the  *)
(* record is sealed under; the TUN is a source of packets and errors.      *)
(***************************************************************************)
EXTENDS Integers, Sequences

CONSTANTS Conns,         \* connections the session layer may hand to the pump
          None,          \* Rust's Option::None
          FirstSeq,      \* records each side sent before the pump (the probe)
          MaxRuns,       \* bound: successful starts
          MaxPackets,    \* bound: packets read from the TUN
          MaxNoise,      \* bound: stray frames of the peer
          SockCap,       \* frames a socket buffer holds before a write blocks
          BlockIpv6,     \* PumpConfig.block_ipv6
          CloneMayFail   \* whether try_clone can fail (no file descriptor left)

ASSUME PumpAssumption ==
    /\ None \notin Conns
    /\ FirstSeq \in Nat /\ MaxRuns \in Nat /\ MaxPackets \in Nat
    /\ MaxNoise \in Nat /\ SockCap \in Nat \ {0}
    /\ BlockIpv6 \in BOOLEAN /\ CloneMayFail \in BOOLEAN

VARIABLES running, stop, alive,   \* TunnelInner's atomics
          seq_out, seq_in,        \* TunnelInner's record sequences
          halt,                   \* the connection halt_socket would shut down
          stats,                  \* PumpStats, the packet counters
          runs, conn,             \* runs so far; the connection of each
          pc, seq, frame,         \* threads: position, local seq, frame in hand
          shut, closed,           \* connections shut by us, closed by the peer
          outbox, inbox,          \* frames in flight, per connection
          srv, noise,             \* the peer's counters; stray frames sent
          sealed, got,            \* history: seqs sealed, seqs delivered
          spoiled, rejected       \* history: inner failure seen; peer refused

inner  == <<running, stop, alive, halt>>
seqs   == <<seq_out, seq_in>>
wires  == <<shut, closed, outbox, inbox, srv, noise>>
hist   == <<sealed, got, spoiled, rejected>>
vars   == <<inner, seqs, stats, runs, conn, pc, seq, frame, wires, hist>>

Runs    == 1..MaxRuns
Threads == Runs \X {"out", "in"}
Out(r)  == <<r, "out">>   \* the two halves of run r
In(r)   == <<r, "in">>
Labels  == {"none", "check", "wait", "seal", "write", "open", "deliver",
            "finish", "clear", "halt", "done"}
Counters == {"packets_in", "packets_out", "delivered_packets", "seal_errors",
             "open_errors", "dropped_packets"}
Frames  == [kind : {"rec", "bad", "junk", "empty"}, seq : Nat]

(***************************************************************************)
(* A record is "rec" when its inner VLESS stream is sound and "bad" when   *)
(* it authenticates but VlessIn::unwrap refuses it.                        *)
(***************************************************************************)
Rec(k, n) == [kind |-> k, seq |-> n]
NoFrame == Rec("empty", 0)
Authentic(f, n) == f.kind \in {"rec", "bad"} /\ f.seq = n

(* Mutation: the nonce is not bound to the sequence. *)
OpensAtAnySeq(f, n) == f.kind = "rec"

(* open_record authenticates at the expected sequence, then unwrap. *)
Opens(f, n) == Authentic(f, n) /\ f.kind = "rec"

(* Mutations: a load where fetch_add is meant; an error path that forgets  *)
(* its fetch_sub, or does it twice.                                        *)
TakeSeqLoads(n)    == n
GiveBackForgets(n) == n
GiveBackTwice(n)   == n - 2

(* seq.fetch_add(1) before a record is sealed or opened, fetch_sub(1) on   *)
(* every path on which the record did not go through.                      *)
TakeSeq(n)  == n + 1
GiveBack(n) == n - 1

Init ==
    /\ running = FALSE /\ stop = FALSE /\ alive = 0 /\ halt = None
    /\ seq_out = 0 /\ seq_in = 0
    /\ stats = [k \in Counters |-> 0]
    /\ runs = 0
    /\ conn = [r \in Runs |-> None]
    /\ pc = [t \in Threads |-> "none"]
    /\ seq = [t \in Threads |-> 0]
    /\ frame = [t \in Threads |-> NoFrame]
    /\ shut = {} /\ closed = {}
    /\ outbox = [c \in Conns |-> <<>>] /\ inbox = [c \in Conns |-> <<>>]
    /\ srv = [c \in Conns |-> [in |-> FirstSeq, out |-> FirstSeq]]
    /\ noise = 0
    /\ sealed = [c \in Conns |-> <<>>] /\ got = [c \in Conns |-> <<>>]
    /\ spoiled = {} /\ rejected = {}

(* TunnelInner::bump on each of the counters ks. *)
Bump(ks) == stats' = [k \in Counters |-> IF k \in ks THEN stats[k] + 1 ELSE stats[k]]

Goto(t, l) == pc' = [pc EXCEPT ![t] = l]

(* Mutation: the handle is dropped without a shutdown. *)
HaltSocketDropsOnly ==
    /\ halt' = None
    /\ UNCHANGED shut

(* halt_socket: take the handle, if there is one, and shut it down. *)
HaltSocket ==
    /\ halt' = None
    /\ shut' = shut \cup ({halt} \ {None})

-----------------------------------------------------------------------------
(* The session layer's calls.  They run under the SESSION mutex, one at a  *)
(* time, so each is one step.                                              *)

Start(c, h, nextOut, nextIn) ==
    /\ ~running /\ runs < MaxRuns
    /\ running' = TRUE /\ stop' = FALSE /\ alive' = 2 /\ halt' = h
    /\ seq_out' = nextOut /\ seq_in' = nextIn
    /\ runs' = runs + 1
    /\ conn' = [conn EXCEPT ![runs + 1] = c]
    /\ pc' = [t \in Threads |-> IF t[1] = runs + 1 THEN "check" ELSE pc[t]]
    /\ UNCHANGED <<stats, seq, frame, wires, hist>>

(* The first try_clone fails: start returns Err with running already set. *)
StartCloneFails(nextOut, nextIn) ==
    /\ CloneMayFail /\ ~running
    /\ running' = TRUE /\ stop' = FALSE
    /\ seq_out' = nextOut /\ seq_in' = nextIn
    /\ UNCHANGED <<alive, halt, stats, runs, conn, pc, seq, frame, wires, hist>>

(* The halt handle is a second clone whose failure is ignored. *)
HaltHandles(c) == IF CloneMayFail THEN {c, None} ELSE {c}

Stop ==
    /\ stop' = TRUE
    /\ HaltSocket
    /\ UNCHANGED <<running, alive, seqs, stats, runs, conn, pc, seq, frame,
                   closed, outbox, inbox, srv, noise, hist>>

-----------------------------------------------------------------------------
(* Both halves: the stop flag is read at the top of every iteration, where *)
(* the locals of the one before are gone.                                  *)

Check(t) ==
    /\ pc[t] = "check"
    /\ Goto(t, IF stop THEN "finish" ELSE "wait")
    /\ seq' = [seq EXCEPT ![t] = 0] /\ frame' = [frame EXCEPT ![t] = NoFrame]
    /\ UNCHANGED <<inner, seqs, stats, runs, conn, wires, hist>>

(* Mutations: whichever half ends first counts as the last one; nobody does. *)
IsLastEarly == alive <= 2
IsLastNever == alive = 0

(* fetch_sub returned 1: this thread is the last one out. *)
IsLast == alive = 1

(* thread_finished: fetch_sub; the last thread clears running, then halts. *)
Finish(t) ==
    /\ pc[t] = "finish"
    /\ alive' = alive - 1
    /\ Goto(t, IF IsLast THEN "clear" ELSE "done")
    /\ UNCHANGED <<running, stop, halt, seqs, stats, runs, conn, seq, frame,
                   wires, hist>>

ClearRunning(t) ==
    /\ pc[t] = "clear"
    /\ running' = FALSE
    /\ Goto(t, "halt")
    /\ UNCHANGED <<stop, alive, halt, seqs, stats, runs, conn, seq, frame,
                   wires, hist>>

HaltLast(t) ==
    /\ pc[t] = "halt"
    /\ HaltSocket
    /\ Goto(t, "done")
    /\ UNCHANGED <<running, stop, alive, seqs, stats, runs, conn, seq, frame,
                   closed, outbox, inbox, srv, noise, hist>>

-----------------------------------------------------------------------------
(* The outbound half: TUN -> seal -> socket. *)

(* poll(2) reports nothing readable: a timeout, or an fd already closed. *)
OutPollTimeout(r) ==
    /\ pc[Out(r)] = "wait"
    /\ Goto(Out(r), "check")
    /\ UNCHANGED <<inner, seqs, stats, runs, conn, seq, frame, wires, hist>>

(* End of file or an error on the TUN: the half leaves without a halt. *)
OutTunEnds(r) ==
    /\ pc[Out(r)] = "wait"
    /\ Goto(Out(r), "finish")
    /\ UNCHANGED <<inner, seqs, stats, runs, conn, seq, frame, wires, hist>>

OutDropIpv6(r) ==
    /\ pc[Out(r)] = "wait"
    /\ BlockIpv6 /\ stats["packets_in"] < MaxPackets
    /\ Bump({"packets_in", "dropped_packets"})
    /\ Goto(Out(r), "check")
    /\ UNCHANGED <<inner, seqs, runs, conn, seq, frame, wires, hist>>

OutRead(r) ==
    /\ pc[Out(r)] = "wait"
    /\ stats["packets_in"] < MaxPackets
    /\ Bump({"packets_in"})
    /\ seq' = [seq EXCEPT ![Out(r)] = seq_out]
    /\ seq_out' = TakeSeq(seq_out)
    /\ Goto(Out(r), "seal")
    /\ UNCHANGED <<inner, seq_in, runs, conn, frame, wires, hist>>

OutSeal(r) ==
    /\ pc[Out(r)] = "seal"
    /\ sealed' = [sealed EXCEPT ![conn[r]] = Append(@, seq[Out(r)])]
    /\ Goto(Out(r), "write")
    /\ UNCHANGED <<inner, seqs, stats, runs, conn, seq, frame, wires,
                   got, spoiled, rejected>>

OutSealFails(r) ==
    /\ pc[Out(r)] = "seal"
    /\ seq_out' = GiveBack(seq_out)
    /\ Bump({"seal_errors"})
    /\ Goto(Out(r), "check")
    /\ UNCHANGED <<inner, seq_in, runs, conn, seq, frame, wires, hist>>

(* A write blocks while the socket buffer is full; one to a peer that has  *)
(* closed may still be accepted by the kernel, and goes nowhere.           *)
OutWrite(r) ==
    /\ pc[Out(r)] = "write"
    /\ conn[r] \notin shut
    /\ \/ /\ conn[r] \notin closed
          /\ Len(outbox[conn[r]]) < SockCap
          /\ outbox' = [outbox EXCEPT ![conn[r]] = Append(@, seq[Out(r)])]
       \/ conn[r] \in closed /\ UNCHANGED outbox
    /\ Bump({"packets_out"})
    /\ Goto(Out(r), "check")
    /\ UNCHANGED <<inner, seqs, runs, conn, seq, frame, shut, closed, inbox,
                   srv, noise, hist>>

(* Mutation: the loop goes on after a failed write. *)
OutWriteFailsGoesOn(r) ==
    /\ pc[Out(r)] = "write"
    /\ conn[r] \in shut \cup closed
    /\ seq_out' = GiveBack(seq_out)
    /\ HaltSocket
    /\ Goto(Out(r), "check")
    /\ UNCHANGED <<running, stop, alive, seq_in, stats, runs, conn, seq, frame,
                   closed, outbox, inbox, srv, noise, hist>>

OutWriteFails(r) ==
    /\ pc[Out(r)] = "write"
    /\ conn[r] \in shut \cup closed
    /\ seq_out' = GiveBack(seq_out)
    /\ HaltSocket
    /\ Goto(Out(r), "finish")
    /\ UNCHANGED <<running, stop, alive, seq_in, stats, runs, conn, seq, frame,
                   closed, outbox, inbox, srv, noise, hist>>

OutStep(r) ==
    \/ OutPollTimeout(r) \/ OutTunEnds(r) \/ OutDropIpv6(r) \/ OutRead(r)
    \/ OutSeal(r) \/ OutSealFails(r) \/ OutWrite(r) \/ OutWriteFails(r)

-----------------------------------------------------------------------------
(* The inbound half: socket -> open -> TUN. *)

InRead(r) ==
    LET c == conn[r]
        f == Head(inbox[c])
    IN  /\ pc[In(r)] = "wait"
        /\ inbox[c] # <<>>
        /\ inbox' = [inbox EXCEPT ![c] = Tail(@)]
        /\ \/ /\ f.kind = "empty"
              /\ Goto(In(r), "check")
              /\ UNCHANGED <<seq, seq_in, frame>>
           \/ /\ f.kind # "empty"
              /\ seq' = [seq EXCEPT ![In(r)] = seq_in]
              /\ seq_in' = TakeSeq(seq_in)
              /\ frame' = [frame EXCEPT ![In(r)] = f]
              /\ Goto(In(r), "open")
        /\ UNCHANGED <<inner, seq_out, stats, runs, conn, shut, closed, outbox,
                       srv, noise, hist>>

(* read_frame returns None or Err: end of file, a reset, a torn frame, or  *)
(* the socket's 10 s read timeout.  The half leaves without a halt.        *)
InReadEnds(r) ==
    /\ pc[In(r)] = "wait"
    /\ inbox[conn[r]] = <<>> \/ conn[r] \in shut \cup closed
    /\ Goto(In(r), "finish")
    /\ UNCHANGED <<inner, seqs, stats, runs, conn, seq, frame, wires, hist>>

InOpen(r) ==
    /\ pc[In(r)] = "open"
    /\ Opens(frame[In(r)], seq[In(r)])
    /\ Goto(In(r), "deliver")
    /\ UNCHANGED <<inner, seqs, stats, runs, conn, seq, frame, wires, hist>>

InOpenFails(r) ==
    /\ pc[In(r)] = "open"
    /\ ~Opens(frame[In(r)], seq[In(r)])
    /\ seq_in' = GiveBack(seq_in)
    /\ Bump({"open_errors"})
    /\ spoiled' = IF Authentic(frame[In(r)], seq[In(r)])
                  THEN spoiled \cup {conn[r]} ELSE spoiled
    /\ Goto(In(r), "check")
    /\ UNCHANGED <<inner, seq_out, runs, conn, seq, frame, wires, sealed, got,
                   rejected>>

InDeliver(r) ==
    /\ pc[In(r)] = "deliver"
    /\ got' = [got EXCEPT ![conn[r]] = Append(@, frame[In(r)].seq)]
    /\ Bump({"delivered_packets"})
    /\ Goto(In(r), "check")
    /\ UNCHANGED <<inner, seqs, runs, conn, seq, frame, wires, sealed, spoiled,
                   rejected>>

InDeliverFails(r) ==
    /\ pc[In(r)] = "deliver"
    /\ seq_in' = GiveBack(seq_in)
    /\ HaltSocket
    /\ Goto(In(r), "finish")
    /\ UNCHANGED <<running, stop, alive, seq_out, stats, runs, conn, seq, frame,
                   closed, outbox, inbox, srv, noise, hist>>

InStep(r) ==
    \/ InRead(r) \/ InReadEnds(r) \/ InOpen(r) \/ InOpenFails(r)
    \/ InDeliver(r) \/ InDeliverFails(r)

-----------------------------------------------------------------------------
(* The peer.  The honest server opens each record at its own next sequence *)
(* and mirrors it; a record that does not open ends the session.           *)

ServerMirror(c) ==
    /\ c \notin closed
    /\ outbox[c] # <<>> /\ Len(inbox[c]) < SockCap
    /\ outbox' = [outbox EXCEPT ![c] = Tail(@)]
    /\ \/ /\ Head(outbox[c]) = srv[c].in
          /\ srv' = [srv EXCEPT ![c] = [in |-> @.in + 1, out |-> @.out + 1]]
          /\ \E k \in {"rec", "bad"} :
                inbox' = [inbox EXCEPT ![c] = Append(@, Rec(k, srv[c].out))]
          /\ UNCHANGED <<closed, rejected>>
       \/ /\ Head(outbox[c]) # srv[c].in
          /\ closed' = closed \cup {c}
          /\ rejected' = rejected \cup {c}
          /\ UNCHANGED <<srv, inbox>>
    /\ UNCHANGED <<inner, seqs, stats, runs, conn, pc, seq, frame, shut, noise,
                   sealed, got, spoiled>>

PeerNoise(c) ==
    /\ c \notin closed
    /\ noise < MaxNoise /\ Len(inbox[c]) < SockCap
    /\ noise' = noise + 1
    /\ \E k \in {"junk", "empty"} :
          inbox' = [inbox EXCEPT ![c] = Append(@, Rec(k, 0))]
    /\ UNCHANGED <<inner, seqs, stats, runs, conn, pc, seq, frame, shut, closed,
                   outbox, srv, hist>>

PeerClose(c) ==
    /\ c \notin closed
    /\ closed' = closed \cup {c}
    /\ UNCHANGED <<inner, seqs, stats, runs, conn, pc, seq, frame, shut, outbox,
                   inbox, srv, noise, hist>>

-----------------------------------------------------------------------------
Step(t) ==
    \/ Check(t) \/ Finish(t) \/ ClearRunning(t) \/ HaltLast(t)
    \/ t[2] = "out" /\ OutStep(t[1])
    \/ t[2] = "in"  /\ InStep(t[1])

Peer == \E c \in Conns : ServerMirror(c) \/ PeerNoise(c) \/ PeerClose(c)

(* The session starts the pump at most once on a connection, handing in    *)
(* the sequences at which both sides stand.                                *)
Unused(c) == \A r \in Runs : conn[r] # c

StartRun ==
    \E c \in Conns :
        /\ Unused(c)
        /\ \/ \E h \in HaltHandles(c) : Start(c, h, srv[c].in, srv[c].out)
           \/ StartCloneFails(srv[c].in, srv[c].out)

Next == StartRun \/ Stop \/ Peer \/ \E t \in Threads : Step(t)

Spec == Init /\ [][Next]_vars

(* The OS schedules every thread; poll and the socket's read timeout bound *)
(* each wait, a write alone may block.  The peer owes nothing.             *)
FairSpec == Spec /\ \A t \in Threads : WF_vars(Step(t))

-----------------------------------------------------------------------------
TypeInner ==
    /\ running \in BOOLEAN /\ stop \in BOOLEAN
    /\ alive \in 0..2
    /\ halt \in Conns \cup {None}
    /\ seq_out \in Nat /\ seq_in \in Nat
    /\ stats \in [Counters -> Nat]

TypeThreads ==
    /\ runs \in 0..MaxRuns
    /\ conn \in [Runs -> Conns \cup {None}]
    /\ pc \in [Threads -> Labels]
    /\ seq \in [Threads -> Nat]
    /\ frame \in [Threads -> Frames]

TypeWires ==
    /\ shut \subseteq Conns /\ closed \subseteq Conns
    /\ outbox \in [Conns -> Seq(Nat)]
    /\ inbox \in [Conns -> Seq(Frames)]
    /\ srv \in [Conns -> [in : Nat, out : Nat]]
    /\ noise \in Nat
    /\ sealed \in [Conns -> Seq(Nat)] /\ got \in [Conns -> Seq(Nat)]
    /\ spoiled \subseteq Conns /\ rejected \subseteq Conns

(* TypeOK: the counters never leave their types: alive stays within the    *)
(* two halves and neither sequence wraps below zero, though threads of     *)
(* different runs count them down on error paths.                          *)
TypeOK == TypeInner /\ TypeThreads /\ TypeWires

(* A thread that still uses the shared counters, from its spawn to its     *)
(* fetch_sub of alive.                                                     *)
Live(t) == pc[t] \in {"check", "wait", "seal", "write", "open", "deliver",
                      "finish"}

(* OneOwner: whoever still runs a loop belongs to the latest run and finds *)
(* running set, so seq_out and seq_in have one writer each and start can   *)
(* never reset them under a thread (running.swap, alive and                *)
(* thread_finished together).                                              *)
OneOwner == \A t \in Threads : Live(t) => t[1] = runs /\ running

(* NonceUnique: on one connection records are sealed under strictly        *)
(* increasing sequences, so no nonce is used twice, whatever the error     *)
(* paths give back ("Strictly increasing; never reused within the          *)
(* session", on seq_out).                                                  *)
NonceUnique ==
    \A c \in Conns : \A i, j \in 1..Len(sealed[c]) :
        i < j => sealed[c][i] < sealed[c][j]

(* ServerAccepts: an honest server, which opens each record at its own     *)
(* next sequence, never meets one it must refuse: packets dropped, seal    *)
(* failures, stops and restarts leave no gap and no repeat on the wire.    *)
ServerAccepts == rejected = {}

(* The server's records among the frames s, and whether they are those     *)
(* numbered from n up to, and without, m, in this order.                   *)
Honest(f)  == f.kind \in {"rec", "bad"}
Pending(s) == {i \in 1..Len(s) : Honest(s[i])}
Arriving(s, n, m) ==
    /\ \A i, j \in Pending(s) : i < j => s[i].seq < s[j].seq
    /\ {s[i].seq : i \in Pending(s)} = n..(m - 1)

(* InStepInbound: while the inbound half waits and no inner failure has    *)
(* been met, the server's records on the wire are all those from the one   *)
(* seq_in expects to the last one sent, in order: a frame that does not    *)
(* open costs nothing but itself.                                          *)
InStepInbound ==
    \A r \in 1..runs :
        /\ pc[In(r)] \in {"check", "wait"}
        /\ conn[r] \notin spoiled
        => Arriving(inbox[conn[r]], seq_in, srv[conn[r]].out)

(* The server's records below m, the first it sends having number FirstSeq. *)
Records(m) == [i \in 1..(m - FirstSeq) |-> FirstSeq + i - 1]

Relay(c) == INSTANCE PacketPipe WITH sent <- Records(srv[c].out), got <- got[c]

(* RelayIsPipe: seen from outside, the way from the server to the TUN is a *)
(* pipe of packets on every connection: the records the server sealed,     *)
(* each once and in order, whatever frames, failures and runs lie between. *)
RelayIsPipe ==
    /\ \A c \in Conns : Relay(c)!Init
    /\ [][\A c \in Conns : Relay(c)!Next \/ UNCHANGED <<srv[c].out, got[c]>>]_vars

(* LossBounded: every packet read from the TUN is written, blackholed or   *)
(* counted as a seal error, except at most one per run, the one in hand    *)
(* when its connection failed.                                             *)
LossBounded ==
    stats["packets_in"] - stats["packets_out"] - stats["dropped_packets"]
        - stats["seal_errors"] \in 0..runs

(* StopStops: once stop() was called the pump ends, even against a peer    *)
(* that reads nothing ("pump must stop after stop()").                     *)
StopStops == stop ~> ~running

(* HalfDeathEndsRun: what pump.rs says of a half that dies: the socket is  *)
(* shut down so the other half exits too.                                  *)
HalfDeathEndsRun ==
    \A r \in Runs : (\E h \in {"out", "in"} : pc[<<r, h>>] = "done")
                       ~> (\A h \in {"out", "in"} : pc[<<r, h>>] = "done")

(* RunningHasThreads: what is_running says, that it is false once both     *)
(* halves have exited (or before start): however the halves end, the last  *)
(* of them clears it.  Checked and proved for clones that succeed: where   *)
(* try_clone fails inside start, the flag is set already and no thread is  *)
(* there to clear it.                                                      *)
RunningHasThreads ==
    running => \E t \in Threads : Live(t) \/ pc[t] = "clear"
=============================================================================
