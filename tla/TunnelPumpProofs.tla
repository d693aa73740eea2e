-------------------------- MODULE TunnelPumpProofs --------------------------
(***************************************************************************)
(* Proofs about TunnelPump, for every number of runs, packets, stray       *)
(* frames and connections.  The inductive invariant is built in two        *)
(* layers: Owned says which thread may touch the shared state; on top of   *)
(* it SealedInv, WireInv, InInv, ArriveInv and LossInv each describe one   *)
(* part of the traffic, and HeldInv says who will clear running.           *)
(***************************************************************************)
EXTENDS TunnelPump, TLAPS

(* A thread that start must not overlap: its loop runs, or it is the last  *)
(* one out and has not cleared running yet.                                *)
Holding(t) == Live(t) \/ pc[t] = "clear"

(* Threads that hold anything belong to the latest run and see running.    *)
HolderInv == \A t \in Threads : Holding(t) => t[1] = runs /\ running

(* No thread exists before its run, and each half keeps to its own labels. *)
ShapeInv == \A r \in Runs :
    /\ r > runs => pc[Out(r)] = "none" /\ pc[In(r)] = "none"
    /\ pc[Out(r)] \notin {"open", "deliver"}
    /\ pc[In(r)] \notin {"seal", "write"}

(* alive counts the live halves of the latest run; whoever is about to     *)
(* clear running is alone.                                                 *)
Unit(t) == IF Live(t) THEN 1 ELSE 0
AliveInv == \A r \in Runs : r = runs =>
    /\ alive = Unit(Out(r)) + Unit(In(r))
    /\ pc[Out(r)] = "clear" => pc[In(r)] # "clear" /\ alive = 0
    /\ pc[In(r)] = "clear" => alive = 0

(* A half between its fetch_add and the end of the record holds the number *)
(* just below the counter.                                                 *)
SeqInv == \A r \in Runs :
    /\ pc[Out(r)] \in {"seal", "write"} => seq_out = seq[Out(r)] + 1
    /\ pc[In(r)] \in {"open", "deliver"} => seq_in = seq[In(r)] + 1

(* The runs so far have a connection. *)
ConnInv == \A r \in Runs : conn[r] \in Conns <=> r <= runs

Owned == TypeOK /\ HolderInv /\ ShapeInv /\ AliveInv /\ SeqInv /\ ConnInv

(* Outbound: what was sealed lies below the next number the loop will use; *)
(* what is on the wire is what the server expects next, up to that number. *)
NextOut(r) == IF pc[Out(r)] \in {"seal", "write"} THEN seq[Out(r)] ELSE seq_out

SealedInv ==
    /\ NonceUnique
    /\ \A r \in Runs :
        /\ pc[Out(r)] \in {"check", "wait", "write"} =>
              \A i \in 1..Len(sealed[conn[r]]) : sealed[conn[r]][i] < seq_out
        /\ pc[Out(r)] = "seal" =>
              \A i \in 1..Len(sealed[conn[r]]) : sealed[conn[r]][i] < seq[Out(r)]

FreshInv == \A c \in Conns : Unused(c) => sealed[c] = <<>>

WireInv ==
    /\ rejected = {}
    /\ \A c \in Conns : Unused(c) => outbox[c] = <<>>
    /\ \A c \in Conns \ closed : \A i \in 1..Len(outbox[c]) :
          outbox[c][i] = srv[c].in + i - 1
    /\ \A r \in Runs :
          /\ pc[Out(r)] \in {"check", "wait", "seal", "write"}
          /\ conn[r] \notin closed
          => NextOut(r) = srv[conn[r]].in + Len(outbox[conn[r]])

(* Inbound: what was delivered is a gapless run from the first record, and *)
(* the loop expects the one after the last.                                *)
NextIn(r) == IF pc[In(r)] \in {"open", "deliver"} THEN seq[In(r)] ELSE seq_in

InOrder ==
    \A c \in Conns : \A i \in 1..Len(got[c]) : got[c][i] = FirstSeq + i - 1

InInv ==
    /\ InOrder
    /\ \A c \in Conns : Unused(c) =>
          got[c] = <<>> /\ outbox[c] = <<>> /\ srv[c].out = FirstSeq
    /\ \A r \in Runs :
          /\ pc[In(r)] \in {"check", "wait", "open", "deliver"} =>
                NextIn(r) = FirstSeq + Len(got[conn[r]])
          /\ pc[In(r)] = "deliver" => frame[In(r)].seq = seq[In(r)]

(* A run that still reads has lost no packet yet; one with a packet in     *)
(* hand has not accounted for it yet.                                      *)
Missing == stats["packets_in"] - stats["packets_out"]
             - stats["dropped_packets"] - stats["seal_errors"]

LossInv ==
    /\ Missing \in 0..runs
    /\ \A r \in Runs : /\ pc[Out(r)] \in {"check", "wait"} => Missing < runs
                       /\ pc[Out(r)] \in {"seal", "write"} => Missing > 0

-----------------------------------------------------------------------------
(* The halves of a run are threads, and there are no others. *)
LEMMA Halves ==
    /\ \A r \in Runs : /\ Out(r) \in Threads /\ Out(r)[1] = r /\ Out(r)[2] = "out"
                       /\ In(r) \in Threads /\ In(r)[1] = r /\ In(r)[2] = "in"
    /\ \A t \in Threads : /\ t[1] \in Runs
                          /\ \/ t[2] = "out" /\ t = Out(t[1])
                             \/ t[2] = "in" /\ t = In(t[1])
BY DEF Threads, Out, In

LEMMA RunNumbers == \A r \in Runs : r \in Nat /\ r >= 1 /\ r <= MaxRuns
BY PumpAssumption DEF PumpAssumption, Runs

(* The labels of a thread whose loop runs. *)
LiveLabels == {"check", "wait", "seal", "write", "open", "deliver", "finish"}

(* A live thread that moves to another live label, while the shared flags  *)
(* stay, keeps the ownership of the shared state as it was.                *)
LEMMA LiveMove ==
    ASSUME TypeOK, HolderInv, AliveInv, ConnInv,
           NEW t \in Threads, Live(t), NEW l \in LiveLabels, Goto(t, l),
           UNCHANGED <<running, alive, runs, conn>>
    PROVE  HolderInv' /\ AliveInv' /\ ConnInv'
<1>1. \A u \in Threads : u # t => pc'[u] = pc[u]
  BY DEF Goto, TypeOK, TypeThreads
<1>2. pc'[t] = l
  BY DEF Goto, TypeOK, TypeThreads
<1>3. \A u \in Threads : Live(u)' = Live(u) /\ Unit(u)' = Unit(u)
  BY <1>1, <1>2 DEF Live, LiveLabels, Unit
<1>4. \A u \in Threads : (pc[u] = "clear")' <=> pc[u] = "clear"
  BY <1>1, <1>2 DEF Live, LiveLabels
<1>5. HolderInv'
  BY <1>3, <1>4 DEF HolderInv, Holding
<1>6. AliveInv'
  BY <1>3, <1>4, Halves DEF AliveInv
<1>7. ConnInv'
  BY DEF ConnInv
<1> QED BY <1>5, <1>6, <1>7

(* A move that keeps to the labels of its half keeps ShapeInv. *)
LEMMA ShapeMove ==
    ASSUME TypeOK, ShapeInv, NEW t \in Threads, NEW l, Goto(t, l),
           t[1] <= runs, UNCHANGED runs,
           t[2] = "out" => l \notin {"open", "deliver"},
           t[2] = "in" => l \notin {"seal", "write"}
    PROVE  ShapeInv'
<1> SUFFICES ASSUME NEW r \in Runs
             PROVE  /\ r > runs => pc'[Out(r)] = "none" /\ pc'[In(r)] = "none"
                    /\ pc'[Out(r)] \notin {"open", "deliver"}
                    /\ pc'[In(r)] \notin {"seal", "write"}
  BY DEF ShapeInv
<1>1. \A u \in Threads : pc'[u] = IF u = t THEN l ELSE pc[u]
  BY DEF Goto, TypeOK, TypeThreads
<1>2. /\ pc'[Out(r)] = IF Out(r) = t THEN l ELSE pc[Out(r)]
      /\ pc'[In(r)] = IF In(r) = t THEN l ELSE pc[In(r)]
  BY <1>1, Halves
<1>3. runs \in Nat /\ r \in Nat
  BY RunNumbers, PumpAssumption DEF TypeOK, TypeThreads, PumpAssumption
<1> QED BY <1>2, <1>3, Halves DEF ShapeInv

(* A live thread belongs to the latest run, and is the only live one of    *)
(* its half.                                                               *)
LEMMA LiveIsLatest ==
    ASSUME TypeOK, HolderInv, NEW t \in Threads, Live(t)
    PROVE  /\ t[1] = runs /\ running
           /\ \A u \in Threads : Live(u) /\ u[2] = t[2] => u = t
BY Halves DEF HolderInv, Holding

(* halt_socket keeps the handle and the set of shut sockets in their types. *)
LEMMA HaltType ==
    ASSUME TypeOK, HaltSocket
    PROVE  halt' \in Conns \cup {None} /\ shut' \subseteq Conns
BY DEF HaltSocket, TypeOK, TypeInner, TypeWires

LEMMA BumpType ==
    ASSUME TypeOK, NEW ks, Bump(ks) PROVE stats' \in [Counters -> Nat]
BY DEF Bump, TypeOK, TypeInner

(* Nothing of the threads changes: Stop and the peer. *)
LEMMA NoMove ==
    ASSUME HolderInv, AliveInv, ConnInv, ShapeInv, SeqInv,
           UNCHANGED <<running, alive, runs, conn, pc, seq, seqs>>
    PROVE  HolderInv' /\ AliveInv' /\ ConnInv' /\ ShapeInv' /\ SeqInv'
BY DEF HolderInv, Holding, Live, AliveInv, Unit, ConnInv, ShapeInv, SeqInv, seqs

(* The initial states. *)
LEMMA OwnedInit == Init => Owned
<1> SUFFICES ASSUME Init PROVE Owned
  OBVIOUS
<1> USE PumpAssumption DEF PumpAssumption, Init
<1>1. TypeOK
  <2>1. TypeInner
    <3>1. running \in BOOLEAN /\ stop \in BOOLEAN
      OBVIOUS
    <3>2. /\ alive \in 0..2 /\ halt \in Conns \cup {None}
          /\ seq_out \in Nat /\ seq_in \in Nat
      OBVIOUS
    <3>3. stats \in [Counters -> Nat]
      OBVIOUS
    <3> QED BY <3>1, <3>2, <3>3 DEF TypeInner
  <2>2. TypeThreads
    BY DEF TypeThreads, Frames, Rec, NoFrame, Labels
  <2>3. TypeWires
    BY DEF TypeWires
  <2> QED BY <2>1, <2>2, <2>3 DEF TypeOK
<1>2. HolderInv
  BY DEF HolderInv, Holding, Live
<1>3. ShapeInv
  BY Halves DEF ShapeInv
<1>4. AliveInv
  BY RunNumbers DEF AliveInv
<1>5. SeqInv
  BY Halves DEF SeqInv
<1>6. ConnInv
  BY DEF ConnInv, Runs
<1> QED BY <1>1, <1>2, <1>3, <1>4, <1>5, <1>6 DEF Owned

-----------------------------------------------------------------------------
(* The session layer and the peer. *)
LEMMA OwnedStart ==
    ASSUME Owned, NEW c \in Conns, NEW h \in HaltHandles(c),
           NEW m \in Nat, NEW n \in Nat, Start(c, h, m, n)
    PROVE  Owned'
<1> USE PumpAssumption DEF Owned, Start, PumpAssumption
<1>0. /\ runs \in Nat /\ runs + 1 \in Runs /\ runs' = runs + 1
  BY DEF TypeOK, TypeThreads, Runs
<1>1. \A t \in Threads : ~Holding(t)
  BY DEF HolderInv
<1>2. \A t \in Threads : pc'[t] = IF t[1] = runs + 1 THEN "check" ELSE pc[t]
  OBVIOUS
<1>3. h \in Conns \cup {None}
  BY DEF HaltHandles
<1>4. TypeOK'
  <2>1. TypeInner'
    <3>1. running' \in BOOLEAN /\ stop' \in BOOLEAN
      OBVIOUS
    <3>2. UNCHANGED stats
      OBVIOUS
    <3> QED BY <1>3, <3>1, <3>2 DEF TypeOK, TypeInner
  <2>2. TypeThreads'
    BY <1>0 DEF TypeOK, TypeThreads, Labels, Runs
  <2>3. TypeWires'
    BY DEF TypeOK, TypeWires, wires, hist
  <2> QED BY <2>1, <2>2, <2>3 DEF TypeOK
<1>5. HolderInv'
  BY <1>0, <1>1, <1>2 DEF HolderInv, Holding, Live
<1>6. \A r \in Runs : /\ pc'[Out(r)] = IF r = runs + 1 THEN "check" ELSE pc[Out(r)]
                      /\ pc'[In(r)] = IF r = runs + 1 THEN "check" ELSE pc[In(r)]
  BY <1>2, Halves
<1>7. ShapeInv'
  BY <1>0, <1>6, RunNumbers DEF ShapeInv
<1>8. AliveInv'
  BY <1>0, <1>6, Halves DEF AliveInv, Unit, Live
<1>9. SeqInv'
  BY <1>1, <1>6, Halves DEF SeqInv, Holding, Live
<1>10. ConnInv'
  <2>1. \A r \in Runs : conn'[r] = IF r = runs + 1 THEN c ELSE conn[r]
    BY DEF TypeOK, TypeThreads
  <2> QED BY <1>0, <2>1, RunNumbers DEF ConnInv
<1> QED BY <1>4, <1>5, <1>7, <1>8, <1>9, <1>10

LEMMA OwnedStartCloneFails ==
    ASSUME Owned, NEW m \in Nat, NEW n \in Nat, StartCloneFails(m, n)
    PROVE  Owned'
<1> USE DEF Owned, StartCloneFails
<1>1. \A t \in Threads : ~Holding(t)
  BY DEF HolderInv
<1>2. TypeOK'
  <2>1. running' \in BOOLEAN /\ stop' \in BOOLEAN
    OBVIOUS
  <2>2. TypeInner'
    BY <2>1 DEF TypeOK, TypeInner, TypeWires
  <2>3. TypeThreads' /\ TypeWires'
    BY DEF TypeOK, TypeThreads, TypeWires, wires, hist
  <2> QED BY <2>2, <2>3 DEF TypeOK
<1>3. HolderInv' /\ ShapeInv' /\ AliveInv' /\ ConnInv'
  BY <1>1 DEF HolderInv, Holding, Live, ShapeInv, AliveInv, Unit, ConnInv
<1>4. SeqInv'
  BY <1>1, Halves DEF SeqInv, Holding, Live
<1> QED BY <1>2, <1>3, <1>4

LEMMA OwnedStop == ASSUME Owned, Stop PROVE Owned'
<1> USE DEF Owned, Stop
<1>1. TypeOK'
  <2>1. stop' \in BOOLEAN
    OBVIOUS
  <2>2. TypeInner'
    BY <2>1, HaltType DEF TypeOK, TypeInner, seqs
  <2>3. TypeThreads' /\ TypeWires'
    BY HaltType DEF TypeOK, TypeThreads, TypeWires, hist
  <2> QED BY <2>2, <2>3 DEF TypeOK
<1>2. HolderInv' /\ AliveInv' /\ ConnInv' /\ ShapeInv' /\ SeqInv'
  BY NoMove
<1> QED BY <1>1, <1>2

(* The peer touches the wires alone. *)
LEMMA OwnedPeer == ASSUME Owned, Peer PROVE Owned'
<1> USE DEF Owned
<1>1. PICK c \in Conns : ServerMirror(c) \/ PeerNoise(c) \/ PeerClose(c)
  BY DEF Peer
<1>2. UNCHANGED <<inner, seqs, stats, runs, conn, pc, seq, frame>>
  BY <1>1 DEF ServerMirror, PeerNoise, PeerClose
<1>3. TypeWires'
  <2> USE DEF TypeOK, TypeWires
  <2>1. CASE ServerMirror(c)
    <3>1. Head(outbox[c]) \in Nat /\ Tail(outbox[c]) \in Seq(Nat)
      BY <2>1 DEF ServerMirror
    <3>2. \A k \in {"rec", "bad"} : Rec(k, srv[c].out) \in Frames
      BY DEF Rec, Frames
    <3>3. outbox' \in [Conns -> Seq(Nat)]
      BY <2>1, <3>1 DEF ServerMirror
    <3>4. inbox' \in [Conns -> Seq(Frames)]
      <4>1. CASE UNCHANGED inbox
        BY <4>1
      <4>2. CASE \E k \in {"rec", "bad"} :
                    inbox' = [inbox EXCEPT ![c] = Append(@, Rec(k, srv[c].out))]
        BY <4>2, <3>2
      <4> QED BY <2>1, <4>1, <4>2 DEF ServerMirror
    <3>5. srv' \in [Conns -> [in : Nat, out : Nat]]
      <4>1. CASE UNCHANGED srv
        BY <4>1
      <4>2. CASE srv' = [srv EXCEPT ![c] = [in |-> @.in + 1, out |-> @.out + 1]]
        BY <4>2
      <4> QED BY <2>1, <4>1, <4>2 DEF ServerMirror
    <3> QED BY <2>1, <3>3, <3>4, <3>5 DEF ServerMirror
  <2>2. CASE PeerNoise(c)
    <3>1. \A k \in {"junk", "empty"} : Rec(k, 0) \in Frames
      BY DEF Rec, Frames
    <3> QED BY <2>2, <3>1 DEF PeerNoise, hist
  <2>3. CASE PeerClose(c)
    BY <2>3 DEF PeerClose, hist
  <2> QED BY <1>1, <2>1, <2>2, <2>3
<1>4. TypeInner' /\ TypeThreads'
  BY <1>2 DEF TypeOK, TypeInner, TypeThreads, inner, seqs
<1>5. HolderInv' /\ AliveInv' /\ ConnInv' /\ ShapeInv' /\ SeqInv'
  BY <1>2, NoMove DEF inner
<1> QED BY <1>3, <1>4, <1>5 DEF TypeOK

-----------------------------------------------------------------------------
(* The steps both halves share. *)

(* A run whose thread has left "none" has begun. *)
LEMMA Begun ==
    ASSUME TypeOK, ShapeInv, NEW t \in Threads, pc[t] # "none"
    PROVE  t[1] <= runs
BY Halves, RunNumbers, PumpAssumption
   DEF ShapeInv, TypeOK, TypeThreads, PumpAssumption

(* A step off the labels that hold a sequence number, which leaves the     *)
(* counters and the numbers of the other threads alone, keeps SeqInv.      *)
LEMMA SeqKept ==
    ASSUME TypeOK, SeqInv, NEW t \in Threads,
           NEW l \in {"check", "wait", "finish", "clear", "halt", "done"},
           Goto(t, l), UNCHANGED seqs,
           \A u \in Threads : u # t => seq'[u] = seq[u]
    PROVE  SeqInv'
<1>1. \A u \in Threads : pc'[u] = IF u = t THEN l ELSE pc[u]
  BY DEF Goto, TypeOK, TypeThreads
<1> QED BY <1>1, Halves DEF SeqInv, seqs

LEMMA OwnedCheck == ASSUME Owned, NEW t \in Threads, Check(t) PROVE Owned'
<1> USE DEF Owned
<1> DEFINE l == IF stop THEN "finish" ELSE "wait"
<1>1. Live(t) /\ Goto(t, l) /\ l \in {"finish", "wait"}
  BY DEF Check, Live
<1>2. HolderInv' /\ AliveInv' /\ ConnInv'
  BY <1>1, LiveMove DEF Check, LiveLabels, inner
<1>3. ShapeInv'
  BY <1>1, Begun, ShapeMove DEF Check
<1>4. SeqInv'
  <2>1. \A u \in Threads : u # t => seq'[u] = seq[u]
    BY DEF Check, TypeOK, TypeThreads
  <2> QED BY <1>1, <2>1, SeqKept DEF Check
<1>5. TypeThreads'
  BY <1>1 DEF Check, Goto, TypeOK, TypeThreads, Labels, Frames, NoFrame, Rec
<1>6. TypeInner' /\ TypeWires'
  BY DEF Check, TypeOK, TypeInner, TypeWires, inner, seqs, wires, hist
<1> QED BY <1>2, <1>3, <1>4, <1>5, <1>6 DEF TypeOK

(* thread_finished: only the last half finds alive = 1, so it alone goes   *)
(* on to clear running.                                                    *)
LEMMA OwnedFinish == ASSUME Owned, NEW t \in Threads, Finish(t) PROVE Owned'
<1> USE DEF Owned
<1> DEFINE l == IF IsLast THEN "clear" ELSE "done"
<1>1. Live(t) /\ Goto(t, l) /\ l \in {"clear", "done"}
  BY DEF Finish, Live
<1>2. \A u \in Threads : pc'[u] = IF u = t THEN l ELSE pc[u]
  BY <1>1 DEF Goto, TypeOK, TypeThreads
<1>3. t[1] = runs /\ running /\ runs \in Runs
  BY <1>1, LiveIsLatest, Halves
<1>4. PICK u \in Threads : /\ u # t
                          /\ {t, u} = {Out(runs), In(runs)}
                          /\ alive = 1 + Unit(u)
                          /\ pc[u] # "clear"
  <2>1. CASE t = Out(runs)
    <3>1. In(runs) \in Threads /\ In(runs) # t
      BY <1>3, <2>1, Halves
    <3>2. alive = Unit(t) + Unit(In(runs)) /\ (pc[In(runs)] = "clear" => alive = 0)
      BY <1>3, <2>1 DEF AliveInv
    <3>3. Unit(t) = 1 /\ Unit(In(runs)) \in {0, 1}
      BY <1>1 DEF Unit
    <3> QED BY <2>1, <3>1, <3>2, <3>3
  <2>2. CASE t = In(runs)
    <3>1. Out(runs) \in Threads /\ Out(runs) # t
      BY <1>3, <2>2, Halves
    <3>2. alive = Unit(Out(runs)) + Unit(t) /\ (pc[Out(runs)] = "clear" => alive = 0)
      BY <1>3, <2>2 DEF AliveInv
    <3>3. Unit(t) = 1 /\ Unit(Out(runs)) \in {0, 1}
      BY <1>1 DEF Unit
    <3> QED BY <2>2, <3>1, <3>2, <3>3
  <2> QED BY <1>3, <2>1, <2>2, Halves
<1>5. alive' = Unit(u) /\ Unit(u)' = Unit(u) /\ Unit(t)' = 0
  BY <1>1, <1>2, <1>4 DEF Finish, Unit, Live
<1>6. HolderInv'
  BY <1>2, <1>3 DEF HolderInv, Holding, Live, Finish
<1>7. AliveInv'
  <2>1. pc'[t] = "clear" => Unit(u) = 0
    BY <1>2, <1>4 DEF IsLast, Unit
  <2>2. pc'[u] # "clear"
    BY <1>2, <1>4
  <2>3. alive' = Unit(Out(runs))' + Unit(In(runs))'
    <3>1. UNCHANGED runs
      BY DEF Finish
    <3>2. \/ t = Out(runs) /\ u = In(runs)
          \/ t = In(runs) /\ u = Out(runs)
      BY <1>4
    <3>3. Unit(u) \in {0, 1}
      BY DEF Unit
    <3>4. alive' = Unit(t)' + Unit(u)'
      BY <1>5, <3>3
    <3>5. CASE t = Out(runs) /\ u = In(runs)
      BY <3>1, <3>4, <3>5 DEF Unit, Live
    <3>6. CASE t = In(runs) /\ u = Out(runs)
      BY <1>5, <3>1, <3>3, <3>6 DEF Unit, Live
    <3> QED BY <3>2, <3>5, <3>6
  <2>4. pc'[Out(runs)] = "clear" => pc'[In(runs)] # "clear" /\ alive' = 0
    BY <1>4, <1>5, <2>1, <2>2
  <2>5. pc'[In(runs)] = "clear" => alive' = 0
    BY <1>4, <1>5, <2>1, <2>2
  <2> QED BY <2>3, <2>4, <2>5 DEF AliveInv, Finish
<1>8. ConnInv'
  BY DEF Finish, ConnInv
<1>9. ShapeInv'
  BY <1>1, Begun, ShapeMove DEF Finish
<1>10. SeqInv'
  BY <1>1, SeqKept DEF Finish
<1>11. TypeThreads' /\ TypeWires'
  BY <1>1 DEF Finish, Goto, TypeOK, TypeThreads, Labels, TypeWires, wires, hist
<1>12. TypeInner'
  BY <1>5 DEF Finish, TypeOK, TypeInner, Unit, seqs
<1> QED BY <1>6, <1>7, <1>8, <1>9, <1>10, <1>11, <1>12 DEF TypeOK

LEMMA OwnedClearRunning ==
    ASSUME Owned, NEW t \in Threads, ClearRunning(t) PROVE Owned'
<1> USE DEF Owned
<1>1. \A u \in Threads : pc'[u] = IF u = t THEN "halt" ELSE pc[u]
  BY DEF ClearRunning, Goto, TypeOK, TypeThreads
<1>2. t[1] = runs /\ runs \in Runs /\ alive = 0
  BY Halves DEF ClearRunning, HolderInv, Holding, AliveInv
<1>3. \A u \in Threads : Holding(u) => u = t
  <2> SUFFICES ASSUME NEW u \in Threads, Holding(u) PROVE u = t
    OBVIOUS
  <2>1. u[1] = runs
    BY DEF HolderInv
  <2>2. ~Live(Out(runs)) /\ ~Live(In(runs))
    BY <1>2 DEF AliveInv, Unit
  <2>3. ~(pc[Out(runs)] = "clear" /\ pc[In(runs)] = "clear")
    BY <1>2 DEF AliveInv
  <2> QED BY <1>2, <2>1, <2>2, <2>3, Halves DEF ClearRunning, Holding
<1>4. \A u \in Threads : ~Holding(u)' /\ (Live(u)' <=> Live(u))
  BY <1>1, <1>3 DEF Holding, Live, ClearRunning
<1>5. HolderInv'
  BY <1>4 DEF HolderInv
<1>6. AliveInv'
  BY <1>2, <1>4, Halves DEF AliveInv, Unit, Holding, ClearRunning
<1>7. ConnInv'
  BY DEF ClearRunning, ConnInv
<1>8. ShapeInv'
  BY Begun, ShapeMove DEF ClearRunning
<1>9. SeqInv'
  BY SeqKept DEF ClearRunning
<1>10. TypeThreads' /\ TypeWires'
  BY DEF ClearRunning, Goto, TypeOK, TypeThreads, Labels, TypeWires, wires, hist
<1>11. TypeInner'
  <2>1. running' \in BOOLEAN
    BY DEF ClearRunning
  <2> QED BY <2>1 DEF ClearRunning, TypeOK, TypeInner, seqs
<1> QED BY <1>5, <1>6, <1>7, <1>8, <1>9, <1>10, <1>11 DEF TypeOK

LEMMA OwnedHaltLast ==
    ASSUME Owned, NEW t \in Threads, HaltLast(t) PROVE Owned'
<1> USE DEF Owned
<1>1. \A u \in Threads : pc'[u] = IF u = t THEN "done" ELSE pc[u]
  BY DEF HaltLast, Goto, TypeOK, TypeThreads
<1>2. \A u \in Threads : /\ Live(u)' <=> Live(u)
                         /\ pc'[u] = "clear" <=> pc[u] = "clear"
  BY <1>1 DEF Live, HaltLast
<1>3. HolderInv'
  BY <1>2 DEF HolderInv, Holding, HaltLast
<1>4. AliveInv'
  BY <1>2, Halves DEF AliveInv, Unit, HaltLast
<1>5. ConnInv'
  BY DEF HaltLast, ConnInv
<1>6. ShapeInv'
  BY Begun, ShapeMove DEF HaltLast
<1>7. SeqInv'
  BY SeqKept DEF HaltLast
<1>8. TypeThreads' /\ TypeWires'
  BY HaltType DEF HaltLast, Goto, TypeOK, TypeThreads, Labels, TypeWires, hist
<1>9. TypeInner'
  BY HaltType DEF HaltLast, TypeOK, TypeInner, seqs
<1> QED BY <1>3, <1>4, <1>5, <1>6, <1>7, <1>8, <1>9 DEF TypeOK

-----------------------------------------------------------------------------
(* The outbound half.  It is the only live outbound thread, so what it     *)
(* does to seq_out disturbs nobody else's number.                          *)
LEMMA SeqOut ==
    ASSUME TypeOK, HolderInv, SeqInv, NEW r \in Runs, Live(Out(r)),
           NEW l, Goto(Out(r), l), UNCHANGED seq_in,
           \A u \in Threads : u # Out(r) => seq'[u] = seq[u],
           l \in {"seal", "write"} => seq_out' = seq'[Out(r)] + 1
    PROVE  SeqInv'
<1>1. \A u \in Threads : pc'[u] = IF u = Out(r) THEN l ELSE pc[u]
  BY Halves DEF Goto, TypeOK, TypeThreads
<1>2. \A u \in Threads : Live(u) /\ u[2] = "out" => u = Out(r)
  BY Halves, LiveIsLatest
<1>3. \A q \in Runs : pc'[Out(q)] \in {"seal", "write"} => q = r
  BY <1>1, <1>2, Halves DEF Live
<1>4. \A q \in Runs : pc'[In(q)] = pc[In(q)] /\ seq'[In(q)] = seq[In(q)]
  BY <1>1, Halves
<1> QED BY <1>1, <1>3, <1>4, Halves DEF SeqInv

LEMMA OwnedOutStep == ASSUME Owned, NEW r \in Runs, OutStep(r) PROVE Owned'
<1> USE DEF Owned
<1>1. /\ Out(r) \in Threads /\ Out(r)[1] = r /\ Out(r)[2] = "out"
      /\ pc[Out(r)] \in {"wait", "seal", "write"}
  BY Halves DEF OutStep, OutPollTimeout, OutTunEnds, OutDropIpv6, OutRead, OutSeal,
                OutSealFails, OutWrite, OutWriteFails
<1>2. Live(Out(r))
  BY <1>1 DEF Live
<1>3. r <= runs /\ runs \in Nat /\ conn[r] \in Conns
  BY <1>1, Begun, PumpAssumption
  DEF TypeOK, TypeThreads, ConnInv, PumpAssumption
<1>4. PICK l \in {"check", "seal", "write", "finish"} :
         Goto(Out(r), l) /\ UNCHANGED <<running, stop, alive, runs, conn>>
  BY DEF OutStep, OutPollTimeout, OutTunEnds, OutDropIpv6, OutRead, OutSeal,
         OutSealFails, OutWrite, OutWriteFails, inner
<1>5. HolderInv' /\ AliveInv' /\ ConnInv'
  BY <1>1, <1>2, <1>4, LiveMove DEF LiveLabels
<1>6. ShapeInv'
  BY <1>1, <1>3, <1>4, ShapeMove
<1>7. pc' \in [Threads -> Labels]
  BY <1>4 DEF Goto, TypeOK, TypeThreads, Labels
<1>8. seq_out \in Nat /\ seq_in \in Nat /\ seq[Out(r)] \in Nat
  BY <1>1 DEF TypeOK, TypeInner, TypeThreads
<1>9. pc[Out(r)] \in {"seal", "write"} =>
         seq_out = seq[Out(r)] + 1 /\ GiveBack(seq_out) = seq[Out(r)]
  BY <1>8 DEF SeqInv, GiveBack
<1>10. SeqInv'
  <2>1. CASE OutPollTimeout(r) \/ OutTunEnds(r) \/ OutDropIpv6(r) \/ OutWrite(r)
    <3>1. \E k \in {"check", "finish"} : Goto(Out(r), k) /\ UNCHANGED <<seq, seqs>>
      BY <2>1 DEF OutPollTimeout, OutTunEnds, OutDropIpv6, OutWrite
    <3> QED BY <1>1, <3>1, SeqKept
  <2>2. CASE OutRead(r)
    <3>1. seq'[Out(r)] = seq_out /\ \A u \in Threads : u # Out(r) => seq'[u] = seq[u]
      BY <1>1, <2>2 DEF OutRead, TypeOK, TypeThreads
    <3> QED BY <1>2, <2>2, <3>1, SeqOut DEF OutRead, TakeSeq
  <2>3. CASE OutSeal(r)
    BY <1>2, <1>9, <2>3, SeqOut DEF OutSeal, seqs
  <2>4. CASE OutSealFails(r)
    BY <1>2, <2>4, SeqOut DEF OutSealFails
  <2>5. CASE OutWriteFails(r)
    BY <1>2, <2>5, SeqOut DEF OutWriteFails
  <2> QED BY <2>1, <2>2, <2>3, <2>4, <2>5 DEF OutStep
<1>11. TypeThreads'
  <2>1. seq' \in [Threads -> Nat] /\ UNCHANGED frame
    BY <1>8 DEF OutStep, OutPollTimeout, OutTunEnds, OutDropIpv6, OutRead, OutSeal,
       OutSealFails, OutWrite, OutWriteFails, TypeOK, TypeThreads
  <2> QED BY <1>4, <1>7, <2>1 DEF TypeOK, TypeThreads
<1>12. TypeInner'
  <2>1. seq_out' \in Nat /\ UNCHANGED seq_in
    BY <1>8, <1>9 DEF OutStep, OutPollTimeout, OutTunEnds, OutDropIpv6, OutRead,
       OutSeal, OutSealFails, OutWrite, OutWriteFails, TakeSeq, seqs
  <2>2. halt' \in Conns \cup {None}
    BY HaltType DEF OutStep, OutPollTimeout, OutTunEnds, OutDropIpv6, OutRead,
       OutSeal, OutSealFails, OutWrite, OutWriteFails, inner, TypeOK, TypeInner
  <2>3. stats' \in [Counters -> Nat]
    BY BumpType DEF OutStep, OutPollTimeout, OutTunEnds, OutDropIpv6, OutRead,
       OutSeal, OutSealFails, OutWrite, OutWriteFails, TypeOK, TypeInner
  <2> QED BY <1>4, <2>1, <2>2, <2>3 DEF TypeOK, TypeInner
<1>13. TypeWires'
  <2>1. shut' \subseteq Conns
    BY HaltType DEF OutStep, OutPollTimeout, OutTunEnds, OutDropIpv6, OutRead,
       OutSeal, OutSealFails, OutWrite, OutWriteFails, wires, TypeOK, TypeWires
  <2>2. outbox' \in [Conns -> Seq(Nat)] /\ sealed' \in [Conns -> Seq(Nat)]
    <3>1. CASE UNCHANGED <<outbox, sealed>>
      BY <3>1 DEF TypeOK, TypeWires
    <3>2. CASE /\ outbox' = [outbox EXCEPT ![conn[r]] = Append(@, seq[Out(r)])]
               /\ UNCHANGED sealed
      BY <1>3, <1>8, <3>2 DEF TypeOK, TypeWires
    <3>3. CASE /\ sealed' = [sealed EXCEPT ![conn[r]] = Append(@, seq[Out(r)])]
               /\ UNCHANGED outbox
      BY <1>3, <1>8, <3>3 DEF TypeOK, TypeWires
    <3> QED BY <3>1, <3>2, <3>3 DEF OutStep, OutPollTimeout, OutTunEnds, OutDropIpv6,
       OutRead, OutSeal, OutSealFails, OutWrite, OutWriteFails, wires, hist
  <2>3. UNCHANGED <<closed, inbox, srv, noise, got, spoiled, rejected>>
    BY DEF OutStep, OutPollTimeout, OutTunEnds, OutDropIpv6, OutRead,
       OutSeal, OutSealFails, OutWrite, OutWriteFails, wires, hist
  <2> QED BY <2>1, <2>2, <2>3 DEF TypeOK, TypeWires
<1> QED BY <1>5, <1>6, <1>10, <1>11, <1>12, <1>13 DEF TypeOK

-----------------------------------------------------------------------------
(* The inbound half, likewise. *)
LEMMA SeqIn ==
    ASSUME TypeOK, HolderInv, SeqInv, NEW r \in Runs, Live(In(r)),
           NEW l, Goto(In(r), l), UNCHANGED seq_out,
           \A u \in Threads : u # In(r) => seq'[u] = seq[u],
           l \in {"open", "deliver"} => seq_in' = seq'[In(r)] + 1
    PROVE  SeqInv'
<1>1. \A u \in Threads : pc'[u] = IF u = In(r) THEN l ELSE pc[u]
  BY Halves DEF Goto, TypeOK, TypeThreads
<1>2. \A u \in Threads : Live(u) /\ u[2] = "in" => u = In(r)
  BY Halves, LiveIsLatest
<1>3. \A q \in Runs : pc'[In(q)] \in {"open", "deliver"} => q = r
  BY <1>1, <1>2, Halves DEF Live
<1>4. \A q \in Runs : pc'[Out(q)] = pc[Out(q)] /\ seq'[Out(q)] = seq[Out(q)]
  BY <1>1, Halves
<1> QED BY <1>1, <1>3, <1>4, Halves DEF SeqInv

LEMMA OwnedInStep == ASSUME Owned, NEW r \in Runs, InStep(r) PROVE Owned'
<1> USE DEF Owned
<1>1. /\ In(r) \in Threads /\ In(r)[1] = r /\ In(r)[2] = "in"
      /\ pc[In(r)] \in {"wait", "open", "deliver"}
  BY Halves DEF InStep, InRead, InReadEnds, InOpen, InOpenFails,
       InDeliver, InDeliverFails
<1>2. Live(In(r))
  BY <1>1 DEF Live
<1>3. r <= runs /\ runs \in Nat /\ conn[r] \in Conns
  BY <1>1, Begun, PumpAssumption
  DEF TypeOK, TypeThreads, ConnInv, PumpAssumption
<1>4. PICK l \in {"check", "open", "deliver", "finish"} :
         Goto(In(r), l) /\ UNCHANGED <<running, stop, alive, runs, conn>>
  BY DEF InStep, InRead, InReadEnds, InOpen, InOpenFails,
       InDeliver, InDeliverFails, inner
<1>5. HolderInv' /\ AliveInv' /\ ConnInv'
  BY <1>1, <1>2, <1>4, LiveMove DEF LiveLabels
<1>6. ShapeInv'
  BY <1>1, <1>3, <1>4, ShapeMove
<1>7. pc' \in [Threads -> Labels]
  BY <1>4 DEF Goto, TypeOK, TypeThreads, Labels
<1>8. seq_out \in Nat /\ seq_in \in Nat /\ seq[In(r)] \in Nat
  BY <1>1 DEF TypeOK, TypeInner, TypeThreads
<1>9. pc[In(r)] \in {"open", "deliver"} =>
         seq_in = seq[In(r)] + 1 /\ GiveBack(seq_in) = seq[In(r)]
  BY <1>8 DEF SeqInv, GiveBack
<1>10. SeqInv'
  <2>1. CASE InReadEnds(r) \/ InDeliver(r) \/ (InRead(r) /\ UNCHANGED seq_in)
    <3>1. \E k \in {"check", "finish"} : Goto(In(r), k) /\ UNCHANGED <<seq, seqs>>
      BY <1>8, <2>1 DEF InRead, InReadEnds, InDeliver, TakeSeq, seqs
    <3> QED BY <1>1, <3>1, SeqKept
  <2>2. CASE InRead(r) /\ seq_in' # seq_in
    <3>1. Goto(In(r), "open") /\ seq_in' = seq_in + 1
      BY <2>2 DEF InRead, TakeSeq
    <3>2. seq'[In(r)] = seq_in
      BY <1>1, <2>2 DEF InRead, TypeOK, TypeThreads
    <3>3. \A u \in Threads : u # In(r) => seq'[u] = seq[u]
      BY <1>1, <2>2 DEF InRead, TypeOK, TypeThreads
    <3>4. seq_in' = seq'[In(r)] + 1
      BY <3>1, <3>2
    <3>5. UNCHANGED seq_out
      BY <2>2 DEF InRead
    <3> QED BY <1>2, <3>1, <3>3, <3>4, <3>5, SeqIn
  <2>3. CASE InOpen(r)
    BY <1>2, <1>9, <2>3, SeqIn DEF InOpen, seqs
  <2>4. CASE InOpenFails(r)
    BY <1>2, <2>4, SeqIn DEF InOpenFails
  <2>5. CASE InDeliverFails(r)
    BY <1>2, <2>5, SeqIn DEF InDeliverFails
  <2> QED BY <2>1, <2>2, <2>3, <2>4, <2>5 DEF InStep
<1>11. inbox[conn[r]] # <<>> =>
          /\ Head(inbox[conn[r]]) \in Frames
          /\ Tail(inbox[conn[r]]) \in Seq(Frames)
  BY <1>3 DEF TypeOK, TypeWires
<1>12. TypeThreads'
  <2>1. seq' \in [Threads -> Nat] /\ frame' \in [Threads -> Frames]
    <3>1. CASE UNCHANGED <<seq, frame>>
      BY <3>1 DEF TypeOK, TypeThreads
    <3>2. CASE /\ inbox[conn[r]] # <<>>
               /\ seq' = [seq EXCEPT ![In(r)] = seq_in]
               /\ frame' = [frame EXCEPT ![In(r)] = Head(inbox[conn[r]])]
      BY <1>8, <1>11, <3>2 DEF TypeOK, TypeThreads
    <3> QED BY <3>1, <3>2 DEF InStep, InRead, InReadEnds, InOpen, InOpenFails,
       InDeliver, InDeliverFails
  <2> QED BY <1>4, <1>7, <2>1 DEF TypeOK, TypeThreads
<1>13. TypeInner'
  <2>1. seq_in' \in Nat /\ UNCHANGED seq_out
    BY <1>8, <1>9 DEF InStep, InRead, InReadEnds, InOpen, InOpenFails,
       InDeliver, InDeliverFails, TakeSeq, seqs
  <2>2. halt' \in Conns \cup {None}
    BY HaltType DEF InStep, InRead, InReadEnds, InOpen, InOpenFails,
       InDeliver, InDeliverFails, inner, TypeOK, TypeInner
  <2>3. stats' \in [Counters -> Nat]
    BY BumpType DEF InStep, InRead, InReadEnds, InOpen, InOpenFails,
       InDeliver, InDeliverFails, TypeOK, TypeInner
  <2> QED BY <1>4, <2>1, <2>2, <2>3 DEF TypeOK, TypeInner
<1>14. TypeWires'
  <2>1. shut' \subseteq Conns
    BY HaltType DEF InStep, InRead, InReadEnds, InOpen, InOpenFails,
       InDeliver, InDeliverFails, wires, TypeOK, TypeWires
  <2>2. inbox' \in [Conns -> Seq(Frames)]
    <3>1. CASE UNCHANGED inbox
      BY <3>1 DEF TypeOK, TypeWires
    <3>2. CASE inbox[conn[r]] # <<>> /\ inbox' = [inbox EXCEPT ![conn[r]] = Tail(@)]
      BY <1>3, <1>11, <3>2 DEF TypeOK, TypeWires
    <3> QED BY <3>1, <3>2 DEF InStep, InRead, InReadEnds, InOpen, InOpenFails,
       InDeliver, InDeliverFails, wires
  <2>3. got' \in [Conns -> Seq(Nat)]
    <3>1. CASE UNCHANGED got
      BY <3>1 DEF TypeOK, TypeWires
    <3>2. CASE got' = [got EXCEPT ![conn[r]] = Append(@, frame[In(r)].seq)]
      <4>1. frame[In(r)].seq \in Nat
        BY <1>1 DEF TypeOK, TypeThreads, Frames
      <4> QED BY <1>3, <3>2, <4>1 DEF TypeOK, TypeWires
    <3> QED BY <3>1, <3>2 DEF InStep, InRead, InReadEnds, InOpen, InOpenFails,
       InDeliver, InDeliverFails, hist
  <2>4. spoiled' \subseteq Conns
    BY <1>3 DEF InStep, InRead, InReadEnds, InOpen, InOpenFails,
       InDeliver, InDeliverFails, hist, TypeOK, TypeWires
  <2>5. UNCHANGED <<closed, outbox, srv, noise, sealed, rejected>>
    BY DEF InStep, InRead, InReadEnds, InOpen, InOpenFails,
       InDeliver, InDeliverFails, wires, hist
  <2> QED BY <2>1, <2>2, <2>3, <2>4, <2>5 DEF TypeOK, TypeWires
<1> QED BY <1>5, <1>6, <1>10, <1>12, <1>13, <1>14 DEF TypeOK

-----------------------------------------------------------------------------
LEMMA OwnedNext == Owned /\ [Next]_vars => Owned'
<1> SUFFICES ASSUME Owned, [Next]_vars PROVE Owned'
  OBVIOUS
<1>1. CASE StartRun
  <2>1. \A c \in Conns : srv[c].in \in Nat /\ srv[c].out \in Nat
    BY DEF Owned, TypeOK, TypeWires
  <2> QED BY <1>1, <2>1, OwnedStart, OwnedStartCloneFails DEF StartRun
<1>2. CASE Stop
  BY <1>2, OwnedStop
<1>3. CASE Peer
  BY <1>3, OwnedPeer
<1>4. CASE \E t \in Threads : Step(t)
  <2>1. PICK t \in Threads : Step(t)
    BY <1>4
  <2>2. CASE Check(t) \/ Finish(t) \/ ClearRunning(t) \/ HaltLast(t)
    BY <2>2, OwnedCheck, OwnedFinish, OwnedClearRunning, OwnedHaltLast
  <2>3. CASE OutStep(t[1]) \/ InStep(t[1])
    BY <2>3, Halves, OwnedOutStep, OwnedInStep
  <2> QED BY <2>1, <2>2, <2>3 DEF Step
<1>5. CASE UNCHANGED vars
  <2> USE <1>5 DEF Owned, vars, inner, seqs, wires, hist
  <2>1. TypeOK'
    BY DEF TypeOK, TypeInner, TypeThreads, TypeWires
  <2>2. HolderInv' /\ AliveInv' /\ ConnInv' /\ ShapeInv' /\ SeqInv'
    BY NoMove
  <2> QED BY <2>1, <2>2
<1> QED BY <1>1, <1>2, <1>3, <1>4, <1>5 DEF Next

LEMMA OwnedAlways == Spec => []Owned
BY OwnedInit, OwnedNext, PTL DEF Spec

(* TypeCorrect: every variable keeps its type; in particular the fetch_sub *)
(* calls of the error paths and of thread_finished never take a counter    *)
(* below zero.                                                             *)
THEOREM TypeCorrect == Spec => []TypeOK
<1>1. Owned => TypeOK
  BY DEF Owned
<1> QED BY <1>1, OwnedAlways, PTL

(* OwnershipCorrect: however starts, stops, failures and slow exits        *)
(* interleave, a running half belongs to the latest run and running is     *)
(* set, so start never resets the counters under a thread.                 *)
THEOREM OwnershipCorrect == Spec => []OneOwner
<1>1. Owned => OneOwner
  BY DEF Owned, HolderInv, Holding, OneOwner
<1> QED BY <1>1, OwnedAlways, PTL

-----------------------------------------------------------------------------
(* What each kind of step leaves alone, seen from the traffic invariants. *)

(* Steps that move no packet: a teardown, the peer, the bookkeeping steps  *)
(* of a thread, a stutter.                                                 *)
Shared(t) == Check(t) \/ Finish(t) \/ ClearRunning(t) \/ HaltLast(t)
Aside == Stop \/ Peer \/ (\E t \in Threads : Shared(t)) \/ UNCHANGED vars

Gone == {"finish", "clear", "halt", "done"}

LEMMA Kinds ==
    ASSUME [Next]_vars
    PROVE  StartRun \/ Aside \/ \E r \in Runs : OutStep(r) \/ InStep(r)
<1>1. CASE \E t \in Threads : Step(t)
  BY <1>1, Halves DEF Step, Aside, Shared
<1> QED BY <1>1 DEF Next, Aside

LEMMA AsideMoves ==
    ASSUME Owned, Aside
    PROVE  /\ UNCHANGED <<seqs, stats, runs, conn, sealed, got>>
           /\ \A t \in Threads :
                 \/ pc'[t] = pc[t] /\ seq'[t] = seq[t] /\ frame'[t] = frame[t]
                 \/ pc[t] = "check" /\ pc'[t] = "wait"
                 \/ pc'[t] \in Gone
<1>1. CASE Stop \/ Peer \/ UNCHANGED vars
  BY <1>1 DEF Stop, Peer, ServerMirror, PeerNoise, PeerClose, vars, hist
<1>2. CASE \E t \in Threads : Shared(t)
  <2>1. PICK t \in Threads : Shared(t)
    BY <1>2
  <2>2. PICK l \in Gone \cup {"wait"} :
           Goto(t, l) /\ (l = "wait" => pc[t] = "check")
    BY <2>1 DEF Shared, Check, Finish, ClearRunning, HaltLast, Gone
  <2>3. \A u \in Threads : pc'[u] = IF u = t THEN l ELSE pc[u]
    BY <2>2 DEF Goto, Owned, TypeOK, TypeThreads
  <2>4. \A u \in Threads : u # t => seq'[u] = seq[u] /\ frame'[u] = frame[u]
    BY <2>1 DEF Shared, Check, Finish, ClearRunning, HaltLast, Owned, TypeOK,
                TypeThreads
  <2>5. UNCHANGED <<seqs, stats, runs, conn, sealed, got>>
    BY <2>1 DEF Shared, Check, Finish, ClearRunning, HaltLast, hist
  <2> QED BY <2>2, <2>3, <2>4, <2>5
<1> QED BY <1>1, <1>2 DEF Aside

LEMMA InMoves ==
    ASSUME Owned, NEW r \in Runs, InStep(r)
    PROVE  /\ UNCHANGED <<seq_out, runs, conn, sealed, outbox, srv, closed, rejected>>
           /\ \A q \in Runs : pc'[Out(q)] = pc[Out(q)] /\ seq'[Out(q)] = seq[Out(q)]
           /\ conn[r] \in Conns
           /\ \A q \in Runs : q # r => ~Live(In(q))'
<1> USE DEF Owned
<1>1. UNCHANGED <<seq_out, runs, conn, sealed, outbox, srv, closed, rejected>>
  BY DEF InStep, InRead, InReadEnds, InOpen, InOpenFails,
       InDeliver, InDeliverFails, seqs, wires, hist
<1>2. PICK l : Goto(In(r), l)
  BY DEF InStep, InRead, InReadEnds, InOpen, InOpenFails,
       InDeliver, InDeliverFails
<1>3. \A u \in Threads : u # In(r) => pc'[u] = pc[u] /\ seq'[u] = seq[u]
  BY <1>2 DEF InStep, InRead, InReadEnds, InOpen, InOpenFails,
       InDeliver, InDeliverFails, Goto, TypeOK, TypeThreads
<1>4. Live(In(r))
  BY DEF InStep, InRead, InReadEnds, InOpen, InOpenFails,
       InDeliver, InDeliverFails, Live
<1>5. \A q \in Runs : q # r => ~Live(In(q))
  BY <1>4, Halves DEF HolderInv, Holding
<1>6. \A q \in Runs : q # r => ~Live(In(q))'
  BY <1>3, <1>5, Halves DEF Live
<1>7. conn[r] \in Conns
  BY <1>4, Halves, Begun DEF ConnInv, Live
<1> QED BY <1>1, <1>3, <1>6, <1>7, Halves

LEMMA OutMoves ==
    ASSUME Owned, NEW r \in Runs, OutStep(r)
    PROVE  /\ UNCHANGED <<seq_in, runs, conn, got, srv, closed, rejected, frame>>
           /\ \A q \in Runs : pc'[In(q)] = pc[In(q)] /\ seq'[In(q)] = seq[In(q)]
           /\ conn[r] \in Conns
           /\ \A q \in Runs : q # r => ~Live(Out(q)) /\ ~Live(Out(q))'
<1> USE DEF Owned
<1>1. UNCHANGED <<seq_in, runs, conn, got, srv, closed, rejected, frame>>
  BY DEF OutStep, OutPollTimeout, OutTunEnds, OutDropIpv6, OutRead, OutSeal,
         OutSealFails, OutWrite, OutWriteFails, seqs, wires, hist
<1>2. PICK l : Goto(Out(r), l)
  BY DEF OutStep, OutPollTimeout, OutTunEnds, OutDropIpv6, OutRead, OutSeal,
         OutSealFails, OutWrite, OutWriteFails
<1>3. \A u \in Threads : u # Out(r) => pc'[u] = pc[u] /\ seq'[u] = seq[u]
  BY <1>2 DEF OutStep, OutPollTimeout, OutTunEnds, OutDropIpv6, OutRead, OutSeal,
         OutSealFails, OutWrite, OutWriteFails, Goto, TypeOK, TypeThreads
<1>4. Live(Out(r))
  BY DEF OutStep, OutPollTimeout, OutTunEnds, OutDropIpv6, OutRead, OutSeal,
         OutSealFails, OutWrite, OutWriteFails, Live
<1>5. \A q \in Runs : q # r => ~Live(Out(q))
  BY <1>4, Halves DEF HolderInv, Holding
<1>6. \A q \in Runs : q # r => ~Live(Out(q))'
  BY <1>3, <1>5, Halves DEF Live
<1>7. conn[r] \in Conns
  BY <1>4, Halves, Begun DEF ConnInv, Live
<1> QED BY <1>1, <1>3, <1>5, <1>6, <1>7, Halves

(* A start, successful or not, finds no thread live; a successful one      *)
(* gives the next run a connection that was not used before.               *)
LEMMA StartMoves ==
    ASSUME Owned, StartRun
    PROVE  /\ UNCHANGED <<stats, seq, frame, wires, hist>>
           /\ \A t \in Threads : ~Live(t)
           /\ \/ UNCHANGED <<runs, conn, pc>>
              \/ \E c \in Conns :
                    /\ Unused(c)
                    /\ seq_out' = srv[c].in /\ seq_in' = srv[c].out
                    /\ runs' = runs + 1 /\ runs + 1 \in Runs
                    /\ \A r \in Runs :
                         IF r = runs + 1
                         THEN /\ conn'[r] = c
                              /\ pc'[Out(r)] = "check" /\ pc'[In(r)] = "check"
                         ELSE /\ conn'[r] = conn[r]
                              /\ pc'[Out(r)] = pc[Out(r)] /\ pc'[In(r)] = pc[In(r)]
<1> USE DEF Owned
<1>1. ~running /\ UNCHANGED <<stats, seq, frame, wires, hist>>
  BY DEF StartRun, Start, StartCloneFails
<1>2. \A t \in Threads : ~Live(t)
  BY <1>1 DEF HolderInv, Holding
<1>3. PICK c \in Conns :
         /\ Unused(c)
         /\ \/ \E h \in HaltHandles(c) : Start(c, h, srv[c].in, srv[c].out)
            \/ StartCloneFails(srv[c].in, srv[c].out)
  BY DEF StartRun
<1>4. CASE \E h \in HaltHandles(c) : Start(c, h, srv[c].in, srv[c].out)
  <2>1. runs' = runs + 1 /\ runs + 1 \in Runs
    BY <1>4, PumpAssumption DEF Start, TypeOK, TypeThreads, Runs, PumpAssumption
  <2>2. \A r \in Runs : conn'[r] = IF r = runs + 1 THEN c ELSE conn[r]
    BY <1>4 DEF Start, TypeOK, TypeThreads
  <2>3. \A t \in Threads : pc'[t] = IF t[1] = runs + 1 THEN "check" ELSE pc[t]
    BY <1>4 DEF Start
  <2>4. seq_out' = srv[c].in /\ seq_in' = srv[c].out
    BY <1>4 DEF Start
  <2> QED BY <1>1, <1>2, <1>3, <2>1, <2>2, <2>3, <2>4, Halves
<1>5. CASE StartCloneFails(srv[c].in, srv[c].out)
  BY <1>1, <1>2, <1>5 DEF StartCloneFails
<1> QED BY <1>3, <1>4, <1>5

(* A connection unused after a start was unused before it. *)
LEMMA StartUnused ==
    ASSUME Owned, StartRun, NEW d \in Conns, Unused(d)' PROVE Unused(d)
<1> SUFFICES ASSUME NEW r \in Runs PROVE conn[r] # d
  BY DEF Unused
<1>1. CASE UNCHANGED conn
  BY <1>1 DEF Unused
<1>2. CASE \A q \in Runs : q # runs + 1 => conn'[q] = conn[q]
  <2>1. CASE r = runs + 1
    <3>1. r > runs /\ runs \in Nat
      BY <2>1, PumpAssumption DEF Owned, TypeOK, TypeThreads, PumpAssumption
    <3> QED BY <3>1, RunNumbers DEF Owned, ConnInv
  <2>2. CASE r # runs + 1
    BY <1>2, <2>2 DEF Unused
  <2> QED BY <2>1, <2>2
<1> QED BY <1>1, <1>2, StartMoves

-----------------------------------------------------------------------------
(* No nonce twice.  A number is sealed only above all earlier ones, and    *)
(* the one way to give back a number already sealed, a failed write, ends  *)
(* the outbound half.                                                      *)

(* Nothing sealed on run r's connection reaches n. *)
Below(r, n) == \A i \in 1..Len(sealed[conn[r]]) : sealed[conn[r]][i] < n

LEMMA Appended ==
    ASSUME NEW s \in Seq(Nat), NEW x \in Nat
    PROVE  /\ Len(s) \in Nat /\ Len(Append(s, x)) = Len(s) + 1
           /\ \A i \in 1..Len(s) : Append(s, x)[i] = s[i] /\ s[i] \in Nat
           /\ Append(s, x)[Len(s) + 1] = x
OBVIOUS

LEMMA SealedInit == Init => SealedInv /\ FreshInv
<1> SUFFICES ASSUME Init PROVE SealedInv /\ FreshInv
  OBVIOUS
<1>1. \A c \in Conns : sealed[c] = <<>>
  BY DEF Init
<1>2. NonceUnique
  BY <1>1 DEF NonceUnique
<1>3. \A r \in Runs : pc[Out(r)] = "none"
  BY Halves DEF Init
<1> QED BY <1>1, <1>2, <1>3 DEF SealedInv, FreshInv

(* Whoever drives the pump: a step that is no start keeps the sealed       *)
(* numbers in order, and seals only on a connection in use.                *)
LEMMA SealedMove ==
    ASSUME Owned, SealedInv, Aside \/ \E r \in Runs : OutStep(r) \/ InStep(r)
    PROVE  /\ SealedInv'
           /\ \A c \in Conns : Unused(c)' => Unused(c) /\ sealed'[c] = sealed[c]
<1>2. CASE Aside
  <2>1. UNCHANGED <<seq_out, conn, sealed>>
    BY <1>2, AsideMoves DEF seqs
  <2>2. \A r \in Runs : \/ pc'[Out(r)] = pc[Out(r)] /\ seq'[Out(r)] = seq[Out(r)]
                        \/ pc[Out(r)] = "check" /\ pc'[Out(r)] = "wait"
                        \/ pc'[Out(r)] \in Gone
    BY <1>2, AsideMoves, Halves
  <2> QED BY <2>1, <2>2 DEF SealedInv, NonceUnique, Unused, Gone
<1>3. ASSUME NEW r \in Runs, InStep(r)
      PROVE  SealedInv' /\ \A c \in Conns : Unused(c)' => Unused(c) /\ sealed'[c] = sealed[c]
  <2>1. UNCHANGED <<seq_out, conn, sealed>>
    BY <1>3, InMoves
  <2>2. \A q \in Runs : pc'[Out(q)] = pc[Out(q)] /\ seq'[Out(q)] = seq[Out(q)]
    BY <1>3, InMoves
  <2> QED BY <2>1, <2>2 DEF SealedInv, NonceUnique, Unused
<1>4. ASSUME NEW r \in Runs, OutStep(r)
      PROVE  SealedInv' /\ \A c \in Conns : Unused(c)' => Unused(c) /\ sealed'[c] = sealed[c]
  <2>1. /\ UNCHANGED conn /\ conn[r] \in Conns
        /\ \A q \in Runs : q # r => ~Live(Out(q))'
    BY <1>4, OutMoves
  <2>2. \A c \in Conns : Unused(c)' => Unused(c) /\ c # conn[r]
    BY <2>1 DEF Unused
  <2>3. \A q \in Runs : q # r =>
           pc'[Out(q)] \notin {"check", "wait", "seal", "write"}
    BY <2>1 DEF Live
  <2>4. seq_out \in Nat /\ seq[Out(r)] \in Nat
    BY Halves DEF Owned, TypeOK, TypeInner, TypeThreads
  <2>5. /\ pc[Out(r)] \in {"check", "wait", "write"} => Below(r, seq_out)
        /\ pc[Out(r)] = "seal" => Below(r, seq[Out(r)])
        /\ pc[Out(r)] \in {"seal", "write"} => seq_out = seq[Out(r)] + 1
    BY DEF SealedInv, Below, Owned, SeqInv
  <2>6. \A l : Goto(Out(r), l) => pc'[Out(r)] = l
    BY Halves DEF Goto, Owned, TypeOK, TypeThreads
  <2>7. CASE ~OutSeal(r)
    <3>1. UNCHANGED sealed
      BY <1>4, <2>7 DEF OutStep, OutPollTimeout, OutTunEnds, OutDropIpv6, OutRead,
         OutSealFails, OutWrite, OutWriteFails, hist
    <3>2. \/ pc'[Out(r)] = "check" /\ Below(r, seq_out')
          \/ pc'[Out(r)] = "seal" /\ Below(r, seq'[Out(r)])
          \/ pc'[Out(r)] = "finish"
      <4>1. CASE OutPollTimeout(r) \/ OutDropIpv6(r) \/ OutWrite(r)
        BY <2>5, <2>6, <4>1 DEF OutPollTimeout, OutDropIpv6, OutWrite, seqs
      <4>2. CASE OutTunEnds(r) \/ OutWriteFails(r)
        BY <2>6, <4>2 DEF OutTunEnds, OutWriteFails
      <4>3. CASE OutRead(r)
        <5>1. seq'[Out(r)] = seq_out
          BY <4>3, Halves DEF OutRead, Owned, TypeOK, TypeThreads
        <5> QED BY <2>5, <2>6, <4>3, <5>1 DEF OutRead
      <4>4. CASE OutSealFails(r)
        <5>1. seq_out' = seq[Out(r)]
          BY <2>4, <2>5, <4>4 DEF OutSealFails, GiveBack
        <5> QED BY <2>5, <2>6, <4>4, <5>1 DEF OutSealFails
      <4> QED BY <1>4, <2>7, <4>1, <4>2, <4>3, <4>4 DEF OutStep
    <3>3. NonceUnique'
      BY <3>1 DEF SealedInv, NonceUnique
    <3> QED BY <2>1, <2>2, <2>3, <3>1, <3>2, <3>3 DEF SealedInv, Below
  <2>8. CASE OutSeal(r)
    <3> DEFINE c == conn[r]
               n == Len(sealed[c])
    <3>1. /\ pc'[Out(r)] = "write" /\ seq_out' = seq[Out(r)] + 1
          /\ Below(r, seq[Out(r)])
      BY <2>5, <2>6, <2>8 DEF OutSeal, seqs
    <3>2. /\ \A d \in Conns : d # c => sealed'[d] = sealed[d]
          /\ sealed'[c] = Append(sealed[c], seq[Out(r)])
          /\ sealed[c] \in Seq(Nat)
      BY <2>1, <2>8 DEF OutSeal, Owned, TypeOK, TypeWires
    <3>3. /\ n \in Nat /\ Len(sealed'[c]) = n + 1
          /\ \A i \in 1..n : sealed'[c][i] = sealed[c][i] /\ sealed[c][i] \in Nat
          /\ sealed'[c][n + 1] = seq[Out(r)]
      BY <2>4, <3>2, Appended
    <3>4. \A i \in 1..n : sealed'[c][i] < seq[Out(r)]
      BY <3>1, <3>3 DEF Below
    <3>5. \A i, j \in 1..Len(sealed'[c]) : i < j => sealed'[c][i] < sealed'[c][j]
      <4> SUFFICES ASSUME NEW i \in 1..(n + 1), NEW j \in 1..(n + 1), i < j
                   PROVE  sealed'[c][i] < sealed'[c][j]
        BY <3>3
      <4>1. i \in 1..n
        BY <3>3
      <4>2. CASE j \in 1..n
        BY <2>1, <3>3, <4>1, <4>2 DEF SealedInv, NonceUnique
      <4>3. CASE j = n + 1
        BY <3>3, <3>4, <4>1, <4>3
      <4> QED BY <3>3, <4>2, <4>3
    <3>6. NonceUnique'
      BY <3>2, <3>5 DEF SealedInv, NonceUnique
    <3>7. \A d \in Conns : Unused(d)' => Unused(d) /\ sealed'[d] = sealed[d]
      BY <2>2, <3>2
    <3>8. \A i \in 1..Len(sealed'[c]) : sealed'[c][i] < seq_out'
      <4> SUFFICES ASSUME NEW i \in 1..(n + 1) PROVE sealed'[c][i] < seq_out'
        BY <3>3
      <4>1. CASE i \in 1..n
        BY <2>4, <3>1, <3>3, <3>4, <4>1
      <4>2. CASE i = n + 1
        BY <2>4, <3>1, <3>3, <4>2
      <4> QED BY <3>3, <4>1, <4>2
    <3> QED BY <2>1, <2>3, <3>1, <3>6, <3>7, <3>8 DEF SealedInv
  <2> QED BY <2>7, <2>8
<1> QED BY <1>2, <1>3, <1>4

LEMMA SealedNext ==
    Owned /\ SealedInv /\ FreshInv /\ [Next]_vars => SealedInv' /\ FreshInv'
<1> SUFFICES ASSUME Owned, SealedInv, FreshInv, [Next]_vars PROVE SealedInv' /\ FreshInv'
  OBVIOUS
<1>1. CASE StartRun
  <2>1. UNCHANGED <<sealed, seq>> /\ \A r \in Runs : ~Live(Out(r))
    BY <1>1, StartMoves, Halves DEF hist
  <2>2. CASE UNCHANGED <<runs, conn, pc>>
    BY <2>1, <2>2 DEF SealedInv, FreshInv, NonceUnique, Unused, Live
  <2>3. CASE \E c \in Conns :
               /\ Unused(c) /\ runs + 1 \in Runs
               /\ \A r \in Runs :
                    IF r = runs + 1 THEN conn'[r] = c /\ pc'[Out(r)] = "check"
                    ELSE conn'[r] = conn[r] /\ pc'[Out(r)] = pc[Out(r)]
    <3>1. PICK c \in Conns :
               /\ Unused(c) /\ runs + 1 \in Runs
               /\ \A r \in Runs :
                    IF r = runs + 1 THEN conn'[r] = c /\ pc'[Out(r)] = "check"
                    ELSE conn'[r] = conn[r] /\ pc'[Out(r)] = pc[Out(r)]
      BY <2>3
    <3>2. sealed[c] = <<>>
      BY <3>1 DEF FreshInv
    <3>3. NonceUnique'
      BY <2>1 DEF SealedInv, NonceUnique
    <3>4. \A d \in Conns : Unused(d)' => Unused(d)
      BY <1>1, StartUnused
    <3>5. \A r \in Runs : pc'[Out(r)] \in {"check", "wait", "seal", "write"} =>
                             sealed'[conn'[r]] = <<>>
      BY <2>1, <3>1, <3>2 DEF Live
    <3> QED BY <2>1, <3>3, <3>4, <3>5 DEF SealedInv, FreshInv
  <2> QED BY <1>1, <2>2, <2>3, StartMoves
<1>2. CASE Aside \/ \E r \in Runs : OutStep(r) \/ InStep(r)
  BY <1>2, SealedMove DEF FreshInv
<1> QED BY <1>1, <1>2, Kinds

(* NonceCorrect: no thread, error path or restart ever seals two records   *)
(* of one connection under the same sequence number.                       *)
THEOREM NonceCorrect == Spec => []NonceUnique
<1>1. Init => Owned /\ SealedInv /\ FreshInv
  BY OwnedInit, SealedInit
<1>2. Owned /\ SealedInv /\ FreshInv /\ [Next]_vars => Owned' /\ SealedInv' /\ FreshInv'
  BY OwnedNext, SealedNext
<1>3. SealedInv => NonceUnique
  BY DEF SealedInv
<1> QED BY <1>1, <1>2, <1>3, PTL DEF Spec

-----------------------------------------------------------------------------
(* The server accepts.  As long as the connection is open, the number the  *)
(* outbound half will use next is the one the server expects after what    *)
(* is still on the wire.                                                   *)

(* Whether run r's next number continues the wire. *)
Continues(r, n) == conn[r] \notin closed => n = srv[conn[r]].in + Len(outbox[conn[r]])

LEMMA WireInit == Init => WireInv
<1> SUFFICES ASSUME Init PROVE WireInv
  OBVIOUS
<1>1. rejected = {} /\ \A c \in Conns : outbox[c] = <<>>
  BY DEF Init
<1>2. \A r \in Runs : pc[Out(r)] = "none"
  BY Halves DEF Init
<1> QED BY <1>1, <1>2 DEF WireInv

LEMMA WirePeer == ASSUME Owned, WireInv, NEW c \in Conns, ServerMirror(c)
                  PROVE  WireInv'
<1> DEFINE b == outbox[c]
<1>1. /\ c \notin closed /\ b # <<>> /\ b \in Seq(Nat)
      /\ srv[c].in \in Nat
      /\ UNCHANGED <<conn, pc, seq, seq_out>>
  BY DEF ServerMirror, Owned, TypeOK, TypeWires, seqs
<1>2. Head(b) = srv[c].in
  <2>1. 1 \in 1..Len(b)
    BY <1>1
  <2> QED BY <1>1, <2>1 DEF WireInv
<1>3. /\ outbox' = [outbox EXCEPT ![c] = Tail(@)]
      /\ srv' = [srv EXCEPT ![c] = [in |-> @.in + 1, out |-> @.out + 1]]
      /\ UNCHANGED <<closed, rejected>>
  BY <1>2 DEF ServerMirror
<1>4. /\ \A d \in Conns : d # c => outbox'[d] = outbox[d] /\ srv'[d] = srv[d]
      /\ outbox'[c] = Tail(b) /\ srv'[c].in = srv[c].in + 1
  BY <1>3 DEF Owned, TypeOK, TypeWires
<1>5. /\ Len(b) \in Nat /\ Len(b) > 0 /\ Len(Tail(b)) = Len(b) - 1
      /\ \A i \in 1..Len(Tail(b)) : Tail(b)[i] = b[i + 1] /\ i + 1 \in 1..Len(b)
  BY <1>1
<1>6. \A i \in 1..Len(outbox'[c]) : outbox'[c][i] = srv'[c].in + i - 1
  <2> SUFFICES ASSUME NEW i \in 1..Len(Tail(b))
               PROVE  Tail(b)[i] = srv[c].in + 1 + i - 1
    BY <1>4
  <2>1. b[i + 1] = srv[c].in + (i + 1) - 1
    BY <1>1, <1>5 DEF WireInv
  <2> QED BY <1>1, <1>5, <2>1
<1>7. \A d \in Conns : Unused(d)' => outbox'[d] = <<>>
  BY <1>1, <1>4 DEF WireInv, Unused
<1>8. srv'[c].in + Len(outbox'[c]) = srv[c].in + Len(b)
  BY <1>1, <1>4, <1>5
<1>9. \A r \in Runs : pc[Out(r)] \in {"check", "wait", "seal", "write"} =>
                         conn[r] \in Conns
  BY Halves, Begun DEF Owned, ConnInv
<1>10. \A r \in Runs : NextOut(r)' = NextOut(r)
  BY <1>1 DEF NextOut
<1>11. \A r \in Runs :
          pc'[Out(r)] \in {"check", "wait", "seal", "write"} /\ conn'[r] \notin closed'
             => NextOut(r)' = srv'[conn'[r]].in + Len(outbox'[conn'[r]])
  BY <1>1, <1>3, <1>4, <1>8, <1>9, <1>10 DEF WireInv
<1> QED BY <1>3, <1>4, <1>6, <1>7, <1>11 DEF WireInv

LEMMA WireNext == Owned /\ Owned' /\ WireInv /\ [Next]_vars => WireInv'
<1> SUFFICES ASSUME Owned, Owned', WireInv, [Next]_vars PROVE WireInv'
  OBVIOUS
<1>1. CASE StartRun
  <2>1. /\ UNCHANGED <<outbox, srv, closed, rejected, seq>>
        /\ \A r \in Runs : ~Live(Out(r))
    BY <1>1, StartMoves, Halves DEF wires, hist
  <2>2. \A d \in Conns : Unused(d)' => outbox'[d] = <<>>
    BY <1>1, <2>1, StartUnused DEF WireInv
  <2>3. \A r \in Runs : pc'[Out(r)] \in {"check", "wait", "seal", "write"} =>
           /\ pc'[Out(r)] = "check" /\ conn'[r] \in Conns
           /\ Unused(conn'[r]) /\ seq_out' = srv[conn'[r]].in
    BY <1>1, <2>1, StartMoves DEF Live
  <2>4. \A r \in Runs : pc'[Out(r)] \in {"check", "wait", "seal", "write"} =>
           NextOut(r)' = srv'[conn'[r]].in + Len(outbox'[conn'[r]])
    <3> SUFFICES ASSUME NEW r \in Runs,
                        pc'[Out(r)] \in {"check", "wait", "seal", "write"}
                 PROVE  NextOut(r)' = srv'[conn'[r]].in + Len(outbox'[conn'[r]])
      OBVIOUS
    <3>1. NextOut(r)' = srv'[conn'[r]].in
      BY <2>1, <2>3 DEF NextOut
    <3>2. outbox'[conn'[r]] = <<>>
      BY <2>1, <2>3 DEF WireInv
    <3>3. srv'[conn'[r]].in \in Nat
      BY <2>1, <2>3 DEF Owned, TypeOK, TypeWires
    <3> QED BY <3>1, <3>2, <3>3
  <2> QED BY <2>1, <2>2, <2>4 DEF WireInv
<1>2. CASE Aside
  <2>1. CASE \E c \in Conns : ServerMirror(c)
    BY <2>1, WirePeer
  <2>2. CASE ~\E c \in Conns : ServerMirror(c)
    <3>1. UNCHANGED <<outbox, srv, rejected>> /\ closed \subseteq closed'
      BY <1>2, <2>2 DEF Aside, Stop, Peer, PeerNoise, PeerClose, Shared, Check,
         Finish, ClearRunning, HaltLast, vars, wires, hist
    <3>2. UNCHANGED <<seq_out, conn>>
      BY <1>2, AsideMoves DEF seqs
    <3>3. \A r \in Runs : \/ pc'[Out(r)] = pc[Out(r)] /\ seq'[Out(r)] = seq[Out(r)]
                          \/ pc[Out(r)] = "check" /\ pc'[Out(r)] = "wait"
                          \/ pc'[Out(r)] \in Gone
      BY <1>2, AsideMoves, Halves
    <3>4. \A r \in Runs : pc'[Out(r)] \in {"check", "wait", "seal", "write"} =>
             /\ pc[Out(r)] \in {"check", "wait", "seal", "write"}
             /\ NextOut(r)' = NextOut(r)
      BY <3>2, <3>3 DEF NextOut, Gone
    <3> QED BY <3>1, <3>2, <3>4 DEF WireInv, Unused
  <2> QED BY <2>1, <2>2
<1>3. ASSUME NEW r \in Runs, InStep(r) PROVE WireInv'
  <2>1. UNCHANGED <<seq_out, conn, outbox, srv, closed, rejected>>
    BY <1>3, InMoves
  <2>2. \A q \in Runs : pc'[Out(q)] = pc[Out(q)] /\ NextOut(q)' = NextOut(q)
    BY <1>3, <2>1, InMoves DEF NextOut
  <2> QED BY <2>1, <2>2 DEF WireInv, Unused
<1>4. ASSUME NEW r \in Runs, OutStep(r) PROVE WireInv'
  <2>1. /\ UNCHANGED <<conn, srv, closed, rejected>> /\ conn[r] \in Conns
        /\ \A q \in Runs : q # r => ~Live(Out(q))'
    BY <1>4, OutMoves
  <2>2. \A c \in Conns : Unused(c)' => Unused(c) /\ c # conn[r]
    BY <2>1 DEF Unused
  <2>3. \A q \in Runs : q # r =>
           pc'[Out(q)] \notin {"check", "wait", "seal", "write"}
    BY <2>1 DEF Live
  <2>4. /\ seq_out \in Nat /\ seq[Out(r)] \in Nat
        /\ pc[Out(r)] \in {"seal", "write"} => seq_out = seq[Out(r)] + 1
    BY Halves DEF Owned, TypeOK, TypeInner, TypeThreads, SeqInv
  <2>5. /\ pc[Out(r)] = "wait" => Continues(r, seq_out)
        /\ pc[Out(r)] \in {"seal", "write"} => Continues(r, seq[Out(r)])
    BY DEF WireInv, Continues, NextOut
  <2>6. \A l : Goto(Out(r), l) => pc'[Out(r)] = l
    BY Halves DEF Goto, Owned, TypeOK, TypeThreads
  <2>7. CASE UNCHANGED outbox
    <3>1. \/ pc'[Out(r)] = "check" /\ Continues(r, seq_out')
          \/ pc'[Out(r)] \in {"seal", "write"} /\ Continues(r, seq'[Out(r)])
          \/ pc'[Out(r)] = "finish"
      <4>1. CASE OutPollTimeout(r) \/ OutDropIpv6(r)
        BY <2>5, <2>6, <4>1 DEF OutPollTimeout, OutDropIpv6, seqs
      <4>2. CASE OutTunEnds(r) \/ OutWriteFails(r)
        BY <2>6, <4>2 DEF OutTunEnds, OutWriteFails
      <4>3. CASE OutRead(r)
        <5>1. seq'[Out(r)] = seq_out
          BY <4>3, Halves DEF OutRead, Owned, TypeOK, TypeThreads
        <5> QED BY <2>5, <2>6, <4>3, <5>1 DEF OutRead
      <4>4. CASE OutSeal(r)
        BY <2>5, <2>6, <4>4 DEF OutSeal
      <4>5. CASE OutSealFails(r)
        <5>1. seq_out' = seq[Out(r)]
          BY <2>4, <4>5 DEF OutSealFails, GiveBack
        <5> QED BY <2>5, <2>6, <4>5, <5>1 DEF OutSealFails
      <4>6. CASE OutWrite(r)
        <5>1. conn[r] \in closed
          <6>1. outbox[conn[r]] \in Seq(Nat)
            BY <2>1 DEF Owned, TypeOK, TypeWires
          <6>2. outbox'[conn[r]] # Append(outbox[conn[r]], seq[Out(r)])
            BY <2>4, <2>7, <6>1
          <6> QED BY <2>1, <4>6, <6>2 DEF OutWrite, Owned, TypeOK, TypeWires
        <5> QED BY <2>6, <4>6, <5>1 DEF OutWrite, Continues
      <4> QED BY <1>4, <4>1, <4>2, <4>3, <4>4, <4>5, <4>6 DEF OutStep
    <3>2. pc'[Out(r)] \in {"check", "wait", "seal", "write"} => Continues(r, NextOut(r)')
      BY <3>1 DEF NextOut
    <3> QED BY <2>1, <2>2, <2>3, <2>7, <3>2 DEF WireInv, Continues
  <2>8. CASE OutWrite(r) /\ outbox' # outbox
    <3> DEFINE c == conn[r]
               n == Len(outbox[c])
    <3>1. /\ c \notin closed /\ pc[Out(r)] = "write" /\ pc'[Out(r)] = "check"
          /\ outbox' = [outbox EXCEPT ![c] = Append(@, seq[Out(r)])]
          /\ UNCHANGED seq_out
      BY <2>6, <2>8 DEF OutWrite, seqs
    <3>2. seq[Out(r)] = srv[c].in + n /\ seq_out = seq[Out(r)] + 1
      BY <2>4, <2>5, <3>1 DEF Continues
    <3>3. /\ \A d \in Conns : d # c => outbox'[d] = outbox[d]
          /\ outbox'[c] = Append(outbox[c], seq[Out(r)])
          /\ outbox[c] \in Seq(Nat) /\ srv[c].in \in Nat
      BY <2>1, <3>1 DEF Owned, TypeOK, TypeWires
    <3>4. /\ n \in Nat /\ Len(outbox'[c]) = n + 1
          /\ \A i \in 1..n : outbox'[c][i] = outbox[c][i]
          /\ outbox'[c][n + 1] = seq[Out(r)]
      BY <2>4, <3>3
    <3>5. \A i \in 1..Len(outbox'[c]) : outbox'[c][i] = srv[c].in + i - 1
      <4> SUFFICES ASSUME NEW i \in 1..(n + 1) PROVE outbox'[c][i] = srv[c].in + i - 1
        BY <3>4
      <4>1. CASE i \in 1..n
        BY <2>1, <3>1, <3>4, <4>1 DEF WireInv
      <4>2. CASE i = n + 1
        BY <3>2, <3>3, <3>4, <4>2
      <4> QED BY <3>4, <4>1, <4>2
    <3>6. NextOut(r)' = srv[c].in + Len(outbox'[c])
      <4>1. NextOut(r)' = seq_out
        BY <3>1 DEF NextOut
      <4>2. Len(outbox'[c]) = n + 1 /\ n \in Nat /\ srv[c].in \in Nat
        BY <3>3, <3>4
      <4> QED BY <3>2, <4>1, <4>2
    <3>7. \A d \in Conns : Unused(d)' => outbox'[d] = <<>>
      BY <2>2, <3>3 DEF WireInv
    <3>8. \A d \in Conns \ closed' : \A i \in 1..Len(outbox'[d]) :
             outbox'[d][i] = srv'[d].in + i - 1
      <4> SUFFICES ASSUME NEW d \in Conns \ closed, NEW i \in 1..Len(outbox'[d])
                   PROVE  outbox'[d][i] = srv[d].in + i - 1
        BY <2>1
      <4>1. CASE d = c
        BY <3>5, <4>1
      <4>2. CASE d # c
        <5>1. outbox'[d] = outbox[d]
          BY <3>3, <4>2
        <5> QED BY <5>1 DEF WireInv
      <4> QED BY <4>1, <4>2
    <3>9. \A q \in Runs : pc'[Out(q)] \in {"check", "wait", "seal", "write"} =>
             NextOut(q)' = srv'[conn'[q]].in + Len(outbox'[conn'[q]])
      BY <2>1, <2>3, <3>6
    <3> QED BY <2>1, <3>7, <3>8, <3>9 DEF WireInv
  <2>9. outbox' # outbox => OutWrite(r)
    BY <1>4 DEF OutStep, OutPollTimeout, OutTunEnds, OutDropIpv6, OutRead, OutSeal,
       OutSealFails, OutWriteFails, wires
  <2> QED BY <2>7, <2>8, <2>9
<1> QED BY <1>1, <1>2, <1>3, <1>4, Kinds

(* ServerCorrect: the honest server, which opens each record at its own    *)
(* next sequence, never has to refuse one of this client.                  *)
THEOREM ServerCorrect == Spec => []ServerAccepts
<1>1. Init => Owned /\ WireInv
  BY OwnedInit, WireInit
<1>2. Owned /\ WireInv /\ [Next]_vars => Owned' /\ WireInv'
  BY OwnedNext, WireNext
<1>3. WireInv => ServerAccepts
  BY DEF WireInv, ServerAccepts
<1> QED BY <1>1, <1>2, <1>3, PTL DEF Spec

-----------------------------------------------------------------------------
(* In order.  Whatever fails to open gives its number back, so the inbound *)
(* half always expects the record after the last one it delivered.         *)

LEMMA InInit == Init => InInv
<1> SUFFICES ASSUME Init PROVE InInv
  OBVIOUS
<1>1. \A c \in Conns : got[c] = <<>> /\ outbox[c] = <<>> /\ srv[c].out = FirstSeq
  BY DEF Init
<1>2. InOrder
  BY <1>1 DEF InOrder
<1>3. \A r \in Runs : pc[In(r)] = "none"
  BY Halves DEF Init
<1> QED BY <1>1, <1>2, <1>3 DEF InInv

LEMMA InNext == Owned /\ Owned' /\ InInv /\ [Next]_vars => InInv'
<1> SUFFICES ASSUME Owned, Owned', InInv, [Next]_vars PROVE InInv'
  OBVIOUS
<1>0. FirstSeq \in Nat
  BY PumpAssumption DEF PumpAssumption
<1>1. CASE StartRun
  <2>1. /\ UNCHANGED <<got, outbox, srv, seq, frame>>
        /\ \A r \in Runs : ~Live(In(r))
    BY <1>1, StartMoves, Halves DEF wires, hist
  <2>2. \A d \in Conns : Unused(d)' =>
           got'[d] = <<>> /\ outbox'[d] = <<>> /\ srv'[d].out = FirstSeq
    BY <1>1, <2>1, StartUnused DEF InInv
  <2>3. \A r \in Runs : pc'[In(r)] \in {"check", "wait", "open", "deliver"} =>
           /\ pc'[In(r)] = "check" /\ conn'[r] \in Conns
           /\ Unused(conn'[r]) /\ seq_in' = srv[conn'[r]].out
    BY <1>1, <2>1, StartMoves DEF Live
  <2>4. \A r \in Runs : pc'[In(r)] \in {"check", "wait", "open", "deliver"} =>
           NextIn(r)' = FirstSeq + Len(got'[conn'[r]])
    <3> SUFFICES ASSUME NEW r \in Runs,
                        pc'[In(r)] \in {"check", "wait", "open", "deliver"}
                 PROVE  NextIn(r)' = FirstSeq + Len(got'[conn'[r]])
      OBVIOUS
    <3>1. NextIn(r)' = FirstSeq
      BY <2>3 DEF NextIn, InInv
    <3>2. got'[conn'[r]] = <<>>
      BY <2>1, <2>3 DEF InInv
    <3> QED BY <1>0, <3>1, <3>2
  <2>5. InOrder'
    BY <2>1 DEF InInv, InOrder
  <2> QED BY <2>2, <2>3, <2>4, <2>5 DEF InInv
<1>2. CASE Aside
  <2>1. UNCHANGED <<seq_in, conn, got>>
    BY <1>2, AsideMoves DEF seqs
  <2>2. \A r \in Runs :
           \/ pc'[In(r)] = pc[In(r)] /\ seq'[In(r)] = seq[In(r)]
              /\ frame'[In(r)] = frame[In(r)]
           \/ pc[In(r)] = "check" /\ pc'[In(r)] = "wait"
           \/ pc'[In(r)] \in Gone
    BY <1>2, AsideMoves, Halves
  <2>3. \A r \in Runs : pc'[In(r)] \in {"check", "wait", "open", "deliver"} =>
           /\ pc[In(r)] \in {"check", "wait", "open", "deliver"}
           /\ NextIn(r)' = NextIn(r)
    BY <2>1, <2>2 DEF NextIn, Gone
  <2>4. \A r \in Runs : pc'[In(r)] = "deliver" => frame'[In(r)].seq = seq'[In(r)]
    BY <2>2 DEF InInv, Gone
  <2>5. \A d \in Conns : Unused(d) => outbox'[d] = <<>> /\ srv'[d].out = FirstSeq
    <3>1. CASE \E c \in Conns : ServerMirror(c)
      <4>1. PICK c \in Conns : ServerMirror(c)
        BY <3>1
      <4>2. ~Unused(c)
        BY <4>1 DEF ServerMirror, InInv
      <4>3. \A d \in Conns : d # c => outbox'[d] = outbox[d] /\ srv'[d] = srv[d]
        BY <4>1 DEF ServerMirror, Owned, TypeOK, TypeWires
      <4> QED BY <4>2, <4>3 DEF InInv
    <3>2. CASE ~\E c \in Conns : ServerMirror(c)
      <4>1. UNCHANGED <<outbox, srv>>
        BY <1>2, <3>2 DEF Aside, Stop, Peer, PeerNoise, PeerClose, Shared, Check,
           Finish, ClearRunning, HaltLast, vars, wires
      <4> QED BY <4>1 DEF InInv
    <3> QED BY <3>1, <3>2
  <2>6. InOrder'
    BY <2>1 DEF InInv, InOrder
  <2> QED BY <2>1, <2>3, <2>4, <2>5, <2>6 DEF InInv, Unused
<1>3. ASSUME NEW r \in Runs, OutStep(r) PROVE InInv'
  <2>1. UNCHANGED <<seq_in, conn, got, srv, frame>> /\ conn[r] \in Conns
    BY <1>3, OutMoves
  <2>2. \A q \in Runs : /\ pc'[In(q)] = pc[In(q)] /\ seq'[In(q)] = seq[In(q)]
                        /\ NextIn(q)' = NextIn(q)
    BY <1>3, <2>1, OutMoves DEF NextIn
  <2>3. \A d \in Conns : Unused(d)' => Unused(d) /\ outbox'[d] = outbox[d]
    <3>1. \A d \in Conns : d # conn[r] => outbox'[d] = outbox[d]
      BY <1>3 DEF OutStep, OutPollTimeout, OutTunEnds, OutDropIpv6, OutRead, OutSeal,
         OutSealFails, OutWrite, OutWriteFails, wires, Owned, TypeOK, TypeWires
    <3> QED BY <2>1, <3>1 DEF Unused
  <2>4. InOrder'
    BY <2>1 DEF InInv, InOrder
  <2> QED BY <2>1, <2>2, <2>3, <2>4 DEF InInv
<1>4. ASSUME NEW r \in Runs, InStep(r) PROVE InInv'
  <2> DEFINE c == conn[r]
             n == Len(got[c])
  <2>1. /\ UNCHANGED <<conn, outbox, srv>> /\ c \in Conns
        /\ \A q \in Runs : q # r => ~Live(In(q))'
    BY <1>4, InMoves
  <2>2. \A d \in Conns : Unused(d)' => Unused(d) /\ d # c
    BY <2>1 DEF Unused
  <2>3. \A q \in Runs : q # r =>
           pc'[In(q)] \notin {"check", "wait", "open", "deliver"}
    BY <2>1 DEF Live
  <2>4. /\ seq_in \in Nat /\ seq[In(r)] \in Nat
        /\ pc[In(r)] \in {"open", "deliver"} => seq_in = seq[In(r)] + 1
    BY Halves DEF Owned, TypeOK, TypeInner, TypeThreads, SeqInv
  <2>5. /\ pc[In(r)] = "wait" => seq_in = FirstSeq + n
        /\ pc[In(r)] \in {"open", "deliver"} => seq[In(r)] = FirstSeq + n
        /\ pc[In(r)] = "deliver" => frame[In(r)].seq = seq[In(r)]
    BY DEF InInv, NextIn
  <2>6. \A l : Goto(In(r), l) => pc'[In(r)] = l
    BY Halves DEF Goto, Owned, TypeOK, TypeThreads
  <2>7. CASE ~InDeliver(r)
    <3>1. UNCHANGED got
      BY <1>4, <2>7 DEF InStep, InRead, InReadEnds, InOpen, InOpenFails,
         InDeliverFails, hist
    <3>2. \/ pc'[In(r)] = "check" /\ seq_in' = FirstSeq + n
          \/ pc'[In(r)] = "open" /\ seq'[In(r)] = FirstSeq + n
          \/ /\ pc'[In(r)] = "deliver" /\ seq'[In(r)] = FirstSeq + n
             /\ frame'[In(r)].seq = seq'[In(r)]
          \/ pc'[In(r)] = "finish"
      <4>1. CASE InRead(r)
        <5>1. CASE Goto(In(r), "check") /\ UNCHANGED seq_in
          BY <2>5, <2>6, <4>1, <5>1 DEF InRead
        <5>2. CASE Goto(In(r), "open") /\ seq' = [seq EXCEPT ![In(r)] = seq_in]
          <6>1. seq'[In(r)] = seq_in
            BY <5>2, Halves DEF Owned, TypeOK, TypeThreads
          <6> QED BY <2>5, <2>6, <4>1, <5>2, <6>1 DEF InRead
        <5> QED BY <4>1, <5>1, <5>2 DEF InRead
      <4>2. CASE InReadEnds(r) \/ InDeliverFails(r)
        BY <2>6, <4>2 DEF InReadEnds, InDeliverFails
      <4>3. CASE InOpen(r)
        BY <2>5, <2>6, <4>3 DEF InOpen, Opens, Authentic
      <4>4. CASE InOpenFails(r)
        <5>1. seq_in' = seq[In(r)]
          BY <2>4, <4>4 DEF InOpenFails, GiveBack
        <5> QED BY <2>5, <2>6, <4>4, <5>1 DEF InOpenFails
      <4> QED BY <1>4, <2>7, <4>1, <4>2, <4>3, <4>4 DEF InStep
    <3>3. /\ pc'[In(r)] \in {"check", "wait", "open", "deliver"} =>
                NextIn(r)' = FirstSeq + n
          /\ pc'[In(r)] = "deliver" => frame'[In(r)].seq = seq'[In(r)]
      BY <3>2 DEF NextIn
    <3>4. InOrder'
      BY <3>1 DEF InInv, InOrder
    <3> QED BY <2>1, <2>2, <2>3, <3>1, <3>3, <3>4 DEF InInv
  <2>8. CASE InDeliver(r)
    <3>1. /\ pc'[In(r)] = "check" /\ seq_in' = FirstSeq + n + 1
          /\ frame[In(r)].seq = FirstSeq + n
      BY <2>4, <2>5, <2>6, <2>8 DEF InDeliver, seqs
    <3>2. /\ \A d \in Conns : d # c => got'[d] = got[d]
          /\ got'[c] = Append(got[c], FirstSeq + n)
          /\ got[c] \in Seq(Nat)
      BY <2>1, <2>8, <3>1 DEF InDeliver, Owned, TypeOK, TypeWires
    <3>3. /\ n \in Nat /\ Len(got'[c]) = n + 1
          /\ \A i \in 1..n : got'[c][i] = got[c][i]
          /\ got'[c][n + 1] = FirstSeq + n
      BY <1>0, <3>2
    <3>4. \A i \in 1..Len(got'[c]) : got'[c][i] = FirstSeq + i - 1
      <4> SUFFICES ASSUME NEW i \in 1..(n + 1) PROVE got'[c][i] = FirstSeq + i - 1
        BY <3>3
      <4>1. CASE i \in 1..n
        BY <2>1, <3>3, <4>1 DEF InInv, InOrder
      <4>2. CASE i = n + 1
        BY <1>0, <3>3, <4>2
      <4> QED BY <3>3, <4>1, <4>2
    <3>5. InOrder'
      <4> SUFFICES ASSUME NEW d \in Conns, NEW i \in 1..Len(got'[d])
                   PROVE  got'[d][i] = FirstSeq + i - 1
        BY DEF InOrder
      <4>1. CASE d = c
        BY <3>4, <4>1
      <4>2. CASE d # c
        <5>1. got'[d] = got[d]
          BY <3>2, <4>2
        <5> QED BY <5>1 DEF InInv, InOrder
      <4> QED BY <4>1, <4>2
    <3>6. NextIn(r)' = FirstSeq + Len(got'[c])
      <4>1. NextIn(r)' = FirstSeq + n + 1
        BY <3>1 DEF NextIn
      <4> QED BY <1>0, <3>3, <4>1
    <3>7. \A d \in Conns : Unused(d)' =>
             got'[d] = <<>> /\ outbox'[d] = <<>> /\ srv'[d].out = FirstSeq
      BY <2>1, <2>2, <3>2 DEF InInv
    <3> QED BY <2>1, <2>3, <3>1, <3>5, <3>6, <3>7 DEF InInv
  <2> QED BY <2>7, <2>8
<1> QED BY <1>1, <1>2, <1>3, <1>4, Kinds

-----------------------------------------------------------------------------
(* Nothing of the server's is lost inbound.  First what a queue of frames  *)
(* keeps when one is appended or taken off.                                *)

Rising(s)       == \A i, j \in Pending(s) : i < j => s[i].seq < s[j].seq
Under(s, m)     == \A i \in Pending(s) : s[i].seq < m
Covers(s, n, m) == /\ n <= m
                   /\ \A i \in Pending(s) : n <= s[i].seq
                   /\ \A k \in n..(m - 1) : \E i \in Pending(s) : s[i].seq = k

LEMMA CoversArrive ==
    ASSUME NEW s \in Seq(Frames), NEW n \in Nat, NEW m \in Nat,
           Rising(s), Under(s, m), Covers(s, n, m)
    PROVE  Arriving(s, n, m)
<1>1. \A i \in Pending(s) : s[i].seq \in Nat
  <2>1. \A i \in Pending(s) : s[i] \in Frames
    BY DEF Pending
  <2> QED BY <2>1 DEF Frames
<1>2. \A i \in Pending(s) : s[i].seq \in n..(m - 1)
  BY <1>1 DEF Under, Covers
<1> QED BY <1>2 DEF Arriving, Rising, Covers

LEMMA AppendFrame ==
    ASSUME NEW s \in Seq(Frames), NEW f \in Frames
    PROVE  /\ Pending(Append(s, f)) = Pending(s) \cup (IF Honest(f) THEN {Len(s) + 1} ELSE {})
           /\ \A i \in Pending(s) : Append(s, f)[i] = s[i] /\ i \in 1..Len(s) /\ s[i].seq \in Nat
           /\ Append(s, f)[Len(s) + 1] = f /\ Len(s) \in Nat
<1>1. /\ Len(s) \in Nat /\ Len(Append(s, f)) = Len(s) + 1
      /\ \A i \in 1..Len(s) : Append(s, f)[i] = s[i] /\ s[i] \in Frames
      /\ Append(s, f)[Len(s) + 1] = f
  OBVIOUS
<1>2. \A i : i \in 1..(Len(s) + 1) <=> i \in 1..Len(s) \/ i = Len(s) + 1
  BY <1>1
<1>3. Pending(Append(s, f)) = Pending(s) \cup (IF Honest(f) THEN {Len(s) + 1} ELSE {})
  BY <1>1, <1>2 DEF Pending
<1>4. \A i \in Pending(s) : i \in 1..Len(s) /\ s[i].seq \in Nat
  BY <1>1 DEF Pending, Frames
<1> QED BY <1>1, <1>3, <1>4

(* The server's next record. *)
LEMMA AppendHonest ==
    ASSUME NEW s \in Seq(Frames), NEW f \in Frames, NEW m \in Nat, Honest(f), f.seq = m,
           Rising(s), Under(s, m)
    PROVE  /\ Rising(Append(s, f)) /\ Under(Append(s, f), m + 1)
           /\ \A n \in Nat : Covers(s, n, m) => Covers(Append(s, f), n, m + 1)
<1> DEFINE t == Append(s, f)
           l == Len(s) + 1
<1>1. /\ Pending(t) = Pending(s) \cup {l} /\ t[l].seq = m /\ l \in Nat
      /\ \A i \in Pending(s) : t[i] = s[i] /\ i < l /\ i \in Nat /\ s[i].seq \in Nat
  BY AppendFrame
<1> HIDE DEF t, l
<1>2. Rising(t)
  BY <1>1 DEF Rising, Under
<1>3. Under(t, m + 1)
  BY <1>1 DEF Under
<1>4. ASSUME NEW n \in Nat, Covers(s, n, m) PROVE Covers(t, n, m + 1)
  <2>1. n <= m + 1 /\ \A i \in Pending(t) : n <= t[i].seq
    BY <1>1, <1>4 DEF Covers
  <2>2. ASSUME NEW k \in n..(m + 1 - 1) PROVE \E i \in Pending(t) : t[i].seq = k
    <3>1. CASE k = m
      BY <1>1, <3>1
    <3>2. CASE k # m
      <4>1. k \in n..(m - 1)
        BY <3>2
      <4> QED BY <1>1, <1>4, <4>1 DEF Covers
    <3> QED BY <3>1, <3>2
  <2> QED BY <2>1, <2>2 DEF Covers
<1> QED BY <1>2, <1>3, <1>4 DEF t

(* A stray frame. *)
LEMMA AppendStray ==
    ASSUME NEW s \in Seq(Frames), NEW f \in Frames, NEW m \in Nat, ~Honest(f),
           Rising(s), Under(s, m)
    PROVE  /\ Rising(Append(s, f)) /\ Under(Append(s, f), m)
           /\ \A n \in Nat : Covers(s, n, m) => Covers(Append(s, f), n, m)
           /\ Pending(Append(s, f)) = Pending(s)
<1> DEFINE t == Append(s, f)
<1>1. /\ Pending(t) = Pending(s) \cup (IF Honest(f) THEN {Len(s) + 1} ELSE {})
      /\ \A i \in Pending(s) : t[i] = s[i]
  BY AppendFrame
<1> HIDE DEF t
<1>2. Pending(t) = Pending(s)
  BY <1>1
<1> QED BY <1>1, <1>2 DEF Rising, Under, Covers, t

LEMMA TailFrame ==
    ASSUME NEW s \in Seq(Frames), s # <<>>
    PROVE  /\ Head(s) = s[1] /\ Head(s) \in Frames /\ 1 \in 1..Len(s)
           /\ \A i \in Pending(Tail(s)) : i + 1 \in Pending(s) /\ Tail(s)[i] = s[i + 1] /\ i \in Nat
           /\ \A i \in Pending(s) : i # 1 => i - 1 \in Pending(Tail(s)) /\ s[i] = Tail(s)[i - 1]
           /\ \A i \in Pending(s) : i \in Nat /\ i >= 1 /\ s[i].seq \in Nat
<1>1. /\ Len(s) \in Nat /\ Len(s) # 0 /\ Len(Tail(s)) = Len(s) - 1
      /\ \A i \in 1..(Len(s) - 1) : Tail(s)[i] = s[i + 1]
      /\ \A i \in 1..Len(s) : s[i] \in Frames
      /\ Head(s) = s[1]
  OBVIOUS
<1>2. \A i \in Pending(Tail(s)) : i \in 1..(Len(s) - 1) /\ Honest(Tail(s)[i])
  BY <1>1 DEF Pending
<1>3. \A i \in Pending(Tail(s)) : i + 1 \in Pending(s) /\ Tail(s)[i] = s[i + 1] /\ i \in Nat
  BY <1>1, <1>2 DEF Pending
<1>4. ASSUME NEW i \in Pending(s), i # 1 PROVE i - 1 \in Pending(Tail(s)) /\ s[i] = Tail(s)[i - 1]
  <2>1. i \in 1..Len(s) /\ Honest(s[i])
    BY DEF Pending
  <2>2. i - 1 \in 1..(Len(s) - 1) /\ (i - 1) + 1 = i
    BY <1>1, <1>4, <2>1
  <2>3. Tail(s)[i - 1] = s[i]
    BY <1>1, <2>2
  <2> QED BY <1>1, <2>1, <2>2, <2>3 DEF Pending
<1>5. \A i \in Pending(s) : i \in Nat /\ i >= 1 /\ s[i].seq \in Nat
  BY <1>1 DEF Pending, Frames
<1>6. Head(s) \in Frames /\ 1 \in 1..Len(s)
  BY <1>1
<1> QED BY <1>1, <1>3, <1>4, <1>5, <1>6

(* Taking a frame off: a record of the server's in step is the expected    *)
(* one, anything else leaves the records as they were.                     *)
LEMMA TakeFrame ==
    ASSUME NEW s \in Seq(Frames), s # <<>>, NEW m \in Nat, Rising(s), Under(s, m)
    PROVE  /\ Rising(Tail(s)) /\ Under(Tail(s), m)
           /\ Honest(Head(s)) => Head(s).seq < m
           /\ \A n \in Nat : Covers(s, n, m) =>
                 IF Honest(Head(s)) THEN Head(s).seq = n /\ Covers(Tail(s), n + 1, m)
                                    ELSE Covers(Tail(s), n, m)
<1> DEFINE t == Tail(s)
           h == Head(s)
<1>1. /\ h = s[1] /\ (Honest(h) <=> 1 \in Pending(s))
      /\ \A i \in Pending(t) : i + 1 \in Pending(s) /\ t[i] = s[i + 1] /\ i \in Nat
      /\ \A i \in Pending(s) : i # 1 => i - 1 \in Pending(t) /\ s[i] = t[i - 1]
      /\ \A i \in Pending(s) : i \in Nat /\ i >= 1 /\ s[i].seq \in Nat
  BY TailFrame DEF Pending
<1>0. \A i \in Pending(t) : i >= 1
  BY TailFrame DEF Pending
<1> HIDE DEF t, h
<1>2. Rising(s) /\ Under(s, m)
  OBVIOUS
<1>3. Rising(t)
  <2> SUFFICES ASSUME NEW i \in Pending(t), NEW j \in Pending(t), i < j PROVE t[i].seq < t[j].seq
    BY DEF Rising
  <2>0. i \in Nat /\ j \in Nat
    BY <1>1
  <2>1. i + 1 \in Pending(s) /\ j + 1 \in Pending(s) /\ i + 1 < j + 1 /\ t[i] = s[i + 1] /\ t[j] = s[j + 1]
    BY <1>1, <2>0
  <2> QED BY <1>2, <2>1 DEF Rising
<1>4. Under(t, m)
  BY <1>1, <1>2 DEF Under
<1>5. Honest(h) => h.seq < m
  BY <1>1, <1>2 DEF Under
<1>6. ASSUME NEW n \in Nat, Covers(s, n, m), ~Honest(h) PROVE Covers(t, n, m)
  <2>1. \A i \in Pending(t) : n <= t[i].seq
    BY <1>1, <1>6 DEF Covers
  <2>2. ASSUME NEW k \in n..(m - 1) PROVE \E i \in Pending(t) : t[i].seq = k
    <3>1. PICK i \in Pending(s) : s[i].seq = k
      BY <1>6 DEF Covers
    <3> QED BY <1>1, <1>6, <3>1
  <2> QED BY <1>6, <2>1, <2>2 DEF Covers
<1>7. ASSUME NEW n \in Nat, Covers(s, n, m), Honest(h)
      PROVE  h.seq = n /\ Covers(t, n + 1, m)
  <2>1. 1 \in Pending(s) /\ h.seq \in Nat /\ n <= h.seq /\ h.seq < m /\ s[1].seq = h.seq
    BY <1>1, <1>5, <1>7 DEF Covers
  <2>2. \A i \in Pending(s) : i # 1 => h.seq < s[i].seq
    BY <1>1, <1>2, <2>1 DEF Rising
  <2>3. h.seq = n
    <3>1. n \in n..(m - 1)
      BY <2>1
    <3>2. PICK i \in Pending(s) : s[i].seq = n
      BY <1>7, <3>1 DEF Covers
    <3> QED BY <2>1, <2>2, <3>2
  <2>4. \A i \in Pending(t) : n + 1 <= t[i].seq
    <3> SUFFICES ASSUME NEW i \in Pending(t) PROVE n + 1 <= t[i].seq
      OBVIOUS
    <3>1. i + 1 \in Pending(s) /\ i + 1 # 1 /\ t[i] = s[i + 1] /\ s[i + 1].seq \in Nat
      BY <1>1, <1>0
    <3> QED BY <2>2, <2>3, <3>1
  <2>5. ASSUME NEW k \in (n + 1)..(m - 1) PROVE \E i \in Pending(t) : t[i].seq = k
    <3>1. PICK i \in Pending(s) : s[i].seq = k
      BY <1>7 DEF Covers
    <3>2. i # 1
      BY <2>1, <2>3, <3>1
    <3> QED BY <1>1, <3>1, <3>2
  <2> QED BY <2>1, <2>3, <2>4, <2>5 DEF Covers
<1> QED BY <1>3, <1>4, <1>5, <1>6, <1>7 DEF t, h

(* The server's records on the wire rise and have been sent; none is there *)
(* before the first run; a live inbound half that met no inner failure has *)
(* before it all those from the one it expects to the last one sent.       *)
Expected(r) == IF pc[In(r)] = "open" /\ ~Honest(frame[In(r)]) THEN seq[In(r)] ELSE seq_in
Busy(r)     == pc[In(r)] \in {"check", "wait", "open", "deliver"}
Ahead(r)    == Covers(inbox[conn[r]], Expected(r), srv[conn[r]].out)

ArriveInv ==
    /\ \A c \in Conns : Rising(inbox[c]) /\ Under(inbox[c], srv[c].out)
    /\ \A c \in Conns : FirstSeq <= srv[c].out
    /\ \A c \in Conns : Unused(c) => Pending(inbox[c]) = {}
    /\ \A r \in Runs :
          /\ pc[In(r)] = "deliver" => Honest(frame[In(r)])
          /\ pc[In(r)] \in {"open", "deliver"} /\ Honest(frame[In(r)]) =>
                frame[In(r)].seq < srv[conn[r]].out
          /\ pc[In(r)] = "open" /\ Honest(frame[In(r)]) /\ conn[r] \notin spoiled =>
                frame[In(r)].seq = seq[In(r)]
          /\ Busy(r) /\ conn[r] \notin spoiled => Ahead(r)

LEMMA ArriveInit == Init => ArriveInv
<1> SUFFICES ASSUME Init PROVE ArriveInv
  OBVIOUS
<1>1. \A c \in Conns : inbox[c] = <<>> /\ FirstSeq <= srv[c].out
  <2>1. FirstSeq \in Nat
    BY PumpAssumption
  <2>2. \A c \in Conns : inbox[c] = <<>> /\ srv[c].out = FirstSeq
    BY DEF Init
  <2>3. FirstSeq <= FirstSeq
    BY <2>1
  <2> QED BY <2>2, <2>3, Zenon
<1>2. Pending(<<>>) = {}
  BY DEF Pending
<1>3. \A r \in Runs : pc[In(r)] = "none"
  BY Halves DEF Init
<1> QED BY <1>1, <1>2, <1>3 DEF ArriveInv, Rising, Under, Busy

(* A step of the peer on connection c, seen from any connection. *)
LEMMA ArrivePeer ==
    ASSUME Owned, InInv, ArriveInv, NEW c \in Conns,
           ServerMirror(c) \/ PeerNoise(c) \/ PeerClose(c), NEW d \in Conns
    PROVE  /\ Rising(inbox'[d]) /\ Under(inbox'[d], srv'[d].out) /\ srv[d].out <= srv'[d].out
           /\ \A n \in Nat : Covers(inbox[d], n, srv[d].out) => Covers(inbox'[d], n, srv'[d].out)
           /\ Unused(d) => Pending(inbox'[d]) = {}
<1> DEFINE s == inbox[d]
           m == srv[d].out
<1>1. /\ s \in Seq(Frames) /\ m \in Nat /\ srv[d].in \in Nat
      /\ Rising(s) /\ Under(s, m)
      /\ Unused(d) => Pending(s) = {} /\ outbox[d] = <<>>
  BY DEF Owned, TypeOK, TypeWires, ArriveInv, InInv
<1>2. CASE inbox'[d] = s /\ srv'[d] = srv[d]
  BY <1>1, <1>2
<1>3. ASSUME NEW f \in Frames, inbox'[d] = Append(s, f), Honest(f), f.seq = m, srv'[d].out = m + 1,
             ~Unused(d)
      PROVE  /\ Rising(inbox'[d]) /\ Under(inbox'[d], srv'[d].out) /\ srv[d].out <= srv'[d].out
             /\ \A n \in Nat : Covers(s, n, m) => Covers(inbox'[d], n, srv'[d].out)
             /\ Unused(d) => Pending(inbox'[d]) = {}
  BY <1>1, <1>3, AppendHonest
<1>4. ASSUME NEW f \in Frames, inbox'[d] = Append(s, f), ~Honest(f), srv'[d] = srv[d]
      PROVE  /\ Rising(inbox'[d]) /\ Under(inbox'[d], srv'[d].out) /\ srv[d].out <= srv'[d].out
             /\ \A n \in Nat : Covers(s, n, m) => Covers(inbox'[d], n, srv'[d].out)
             /\ Unused(d) => Pending(inbox'[d]) = {}
  BY <1>1, <1>4, AppendStray
<1>t. inbox \in [Conns -> Seq(Frames)] /\ srv \in [Conns -> [in : Nat, out : Nat]]
  BY DEF Owned, TypeOK, TypeWires
<1>5. CASE d # c \/ PeerClose(c)
  BY <1>2, <1>5, <1>t DEF ServerMirror, PeerNoise, PeerClose
<1>6. CASE d = c /\ ServerMirror(c)
  <2>1. outbox[c] # <<>>
    BY <1>6 DEF ServerMirror
  <2>2. CASE UNCHANGED <<srv, inbox>>
    BY <1>2, <2>2
  <2>3. CASE \E k \in {"rec", "bad"} :
               /\ inbox' = [inbox EXCEPT ![c] = Append(@, Rec(k, srv[c].out))]
               /\ srv' = [srv EXCEPT ![c] = [in |-> @.in + 1, out |-> @.out + 1]]
    <3>1. PICK k \in {"rec", "bad"} :
               /\ inbox' = [inbox EXCEPT ![c] = Append(@, Rec(k, srv[c].out))]
               /\ srv' = [srv EXCEPT ![c] = [in |-> @.in + 1, out |-> @.out + 1]]
      BY <2>3
    <3> DEFINE f == Rec(k, m)
    <3>2. f \in Frames /\ Honest(f) /\ f.seq = m
      BY <1>1 DEF Rec, Frames, Honest
    <3>3. inbox'[d] = Append(s, f) /\ srv'[d].out = m + 1
      BY <1>6, <1>t, <3>1
    <3> HIDE DEF f
    <3> QED BY <1>1, <1>3, <1>6, <2>1, <3>2, <3>3
  <2> QED BY <1>6, <2>2, <2>3 DEF ServerMirror
<1>7. CASE d = c /\ PeerNoise(c)
  <2>1. PICK k \in {"junk", "empty"} : inbox' = [inbox EXCEPT ![c] = Append(@, Rec(k, 0))]
    BY <1>7 DEF PeerNoise
  <2> DEFINE f == Rec(k, 0)
  <2>2. f \in Frames /\ ~Honest(f)
    BY DEF Rec, Frames, Honest
  <2>3. inbox'[d] = Append(s, f) /\ srv'[d] = srv[d]
    BY <1>7, <1>t, <2>1 DEF PeerNoise
  <2> HIDE DEF f
  <2> QED BY <1>4, <2>2, <2>3
<1> QED BY <1>5, <1>6, <1>7

LEMMA ArriveNext == Owned /\ InInv /\ ArriveInv /\ [Next]_vars => ArriveInv'
<1> SUFFICES ASSUME Owned, InInv, ArriveInv, [Next]_vars PROVE ArriveInv'
  OBVIOUS
<1>t. /\ inbox \in [Conns -> Seq(Frames)] /\ srv \in [Conns -> [in : Nat, out : Nat]]
      /\ seq_in \in Nat /\ \A r \in Runs : seq[In(r)] \in Nat /\ frame[In(r)] \in Frames
      /\ \A c \in Conns : srv[c].out \in Nat
      /\ \A r \in Runs : Busy(r) => conn[r] \in Conns
  <2>1. \A r \in Runs : Busy(r) => conn[r] \in Conns
    BY Halves, Begun DEF Owned, ConnInv, Busy
  <2> QED BY <2>1, Halves DEF Owned, TypeOK, TypeInner, TypeThreads, TypeWires
<1>1. CASE StartRun
  <2>1. /\ UNCHANGED <<inbox, srv, seq, frame, spoiled>>
        /\ \A r \in Runs : ~Live(In(r))
    BY <1>1, StartMoves, Halves DEF wires, hist
  <2>2. \A r \in Runs : Busy(r)' =>
           /\ pc'[In(r)] = "check" /\ conn'[r] \in Conns
           /\ Unused(conn'[r]) /\ seq_in' = srv[conn'[r]].out
    BY <1>1, <2>1, StartMoves DEF Live, Busy
  <2>3. \A d \in Conns : Unused(d)' => Unused(d)
    BY <1>1, StartUnused
  <2>4. \A r \in Runs : Busy(r)' => Ahead(r)'
    <3> SUFFICES ASSUME NEW r \in Runs, Busy(r)' PROVE Ahead(r)'
      OBVIOUS
    <3>1. Pending(inbox[conn'[r]]) = {} /\ srv[conn'[r]].out \in Nat
      BY <1>t, <2>2 DEF ArriveInv
    <3>2. Expected(r)' = srv[conn'[r]].out
      BY <2>2 DEF Expected
    <3> QED BY <2>1, <3>1, <3>2 DEF Ahead, Covers
  <2> QED BY <2>1, <2>2, <2>3, <2>4 DEF ArriveInv, Busy
<1>2. CASE Aside
  <2>1. UNCHANGED <<seq_in, conn, spoiled>>
    <3>1. UNCHANGED spoiled
      BY <1>2 DEF Aside, Stop, Peer, ServerMirror, PeerNoise, PeerClose, Shared, Check,
         Finish, ClearRunning, HaltLast, vars, hist
    <3> QED BY <1>2, <3>1, AsideMoves DEF seqs
  <2>2. \A r \in Runs :
           \/ pc'[In(r)] = pc[In(r)] /\ seq'[In(r)] = seq[In(r)]
              /\ frame'[In(r)] = frame[In(r)]
           \/ pc[In(r)] = "check" /\ pc'[In(r)] = "wait"
           \/ pc'[In(r)] \in Gone
    BY <1>2, AsideMoves, Halves
  <2>3. ASSUME NEW d \in Conns
        PROVE  /\ Rising(inbox'[d]) /\ Under(inbox'[d], srv'[d].out) /\ srv[d].out <= srv'[d].out
               /\ \A n \in Nat : Covers(inbox[d], n, srv[d].out) => Covers(inbox'[d], n, srv'[d].out)
               /\ Unused(d) => Pending(inbox'[d]) = {}
    <3>1. CASE Peer
      BY <3>1, ArrivePeer DEF Peer
    <3>2. CASE UNCHANGED <<inbox, srv>>
      BY <1>t, <3>2 DEF ArriveInv
    <3> QED BY <1>2, <3>1, <3>2 DEF Aside, Stop, Shared, Check, Finish, ClearRunning, HaltLast,
         vars, wires
  <2>4. \A r \in Runs : Busy(r)' => Busy(r) /\ Expected(r)' = Expected(r)
    BY <2>1, <2>2 DEF Busy, Expected, Gone
  <2>5. \A r \in Runs : Busy(r)' /\ Ahead(r) => Ahead(r)'
    <3> SUFFICES ASSUME NEW r \in Runs, Busy(r)', Ahead(r) PROVE Ahead(r)'
      OBVIOUS
    <3>1. Expected(r) \in Nat /\ conn[r] \in Conns
      BY <1>t, <2>4 DEF Expected
    <3> QED BY <2>1, <2>3, <2>4, <3>1 DEF Ahead
  <2>6. ASSUME NEW r \in Runs, pc'[In(r)] \in {"open", "deliver"}
        PROVE  /\ pc'[In(r)] = pc[In(r)] /\ seq'[In(r)] = seq[In(r)] /\ frame'[In(r)] = frame[In(r)]
               /\ conn[r] \in Conns /\ frame[In(r)].seq \in Nat
    <3>1. pc'[In(r)] = pc[In(r)] /\ seq'[In(r)] = seq[In(r)] /\ frame'[In(r)] = frame[In(r)]
      BY <2>2, <2>6 DEF Gone
    <3>2. frame[In(r)].seq \in Nat
      BY <1>t DEF Frames
    <3> QED BY <1>t, <2>6, <3>1, <3>2 DEF Busy
  <2>7. \A c \in Conns : Unused(c)' <=> Unused(c)
    BY <2>1 DEF Unused
  <2>8. ASSUME NEW r \in Runs, pc'[In(r)] \in {"open", "deliver"}, Honest(frame'[In(r)])
        PROVE  frame'[In(r)].seq < srv'[conn'[r]].out
    <3>1. frame[In(r)].seq < srv[conn[r]].out /\ srv[conn[r]].out <= srv'[conn[r]].out
      BY <2>3, <2>6, <2>8 DEF ArriveInv
    <3>2. srv[conn[r]].out \in Nat /\ srv'[conn[r]].out \in Int
      BY <1>t, <2>6, <2>8, OwnedNext, SMTT(60) DEF Owned, TypeOK, TypeWires
    <3> QED BY <2>1, <2>6, <2>8, <3>1, <3>2
  <2>9. ASSUME NEW d \in Conns PROVE FirstSeq <= srv'[d].out
    <3>1. srv[d].out \in Nat /\ srv'[d].out \in Nat
      BY <1>t, OwnedNext DEF Owned, TypeOK, TypeWires
    <3> QED BY <2>3, <3>1, PumpAssumption DEF ArriveInv
  <2> QED BY <2>1, <2>3, <2>4, <2>5, <2>6, <2>7, <2>8, <2>9 DEF ArriveInv
<1>3. ASSUME NEW r \in Runs, OutStep(r) PROVE ArriveInv'
  <2>1. UNCHANGED <<seq_in, conn, srv, frame>>
    BY <1>3, OutMoves
  <2>2. UNCHANGED <<inbox, spoiled>>
    BY <1>3 DEF OutStep, OutPollTimeout, OutTunEnds, OutDropIpv6, OutRead, OutSeal,
         OutSealFails, OutWrite, OutWriteFails, wires, hist
  <2>3. \A q \in Runs : pc'[In(q)] = pc[In(q)] /\ seq'[In(q)] = seq[In(q)]
    BY <1>3, OutMoves
  <2> QED BY <2>1, <2>2, <2>3 DEF ArriveInv, Unused, Busy, Ahead, Expected
<1>4. ASSUME NEW r \in Runs, InStep(r) PROVE ArriveInv'
  <2> DEFINE c == conn[r]
             t == In(r)
  <2>1. /\ UNCHANGED <<conn, srv>> /\ c \in Conns
        /\ \A q \in Runs : q # r => ~Live(In(q))'
    BY <1>4, InMoves
  <2>2. \A d \in Conns : Unused(d)' => Unused(d) /\ d # c
    BY <2>1 DEF Unused
  <2>3. \A q \in Runs : Busy(q)' => q = r
    BY <2>1 DEF Live, Busy
  <2>4. \A l : Goto(t, l) => pc'[t] = l
    BY Halves DEF Goto, Owned, TypeOK, TypeThreads
  <2>5. pc[t] \in {"open", "deliver"} => seq_in = seq[t] + 1
    BY DEF Owned, SeqInv
  <2>6. spoiled \subseteq spoiled'
    BY <1>4 DEF InStep, InRead, InReadEnds, InOpen, InOpenFails, InDeliver, InDeliverFails, hist
  <2>7. Busy(r)
    BY <1>4 DEF InStep, InRead, InReadEnds, InOpen, InOpenFails, InDeliver, InDeliverFails, Busy
  <2>8. CASE UNCHANGED inbox /\ pc'[t] = "finish"
    BY <2>1, <2>2, <2>3, <2>8 DEF ArriveInv, Busy
  <2>9. CASE InRead(r)
    <3> DEFINE s == inbox[c]
               f == Head(s)
    <3>1. /\ s \in Seq(Frames) /\ s # <<>> /\ srv[c].out \in Nat
          /\ Rising(s) /\ Under(s, srv[c].out) /\ pc[t] = "wait"
      BY <1>t, <2>1, <2>9 DEF InRead, ArriveInv
    <3>2. /\ inbox'[c] = Tail(s) /\ \A d \in Conns : d # c => inbox'[d] = inbox[d]
          /\ UNCHANGED spoiled
      BY <1>t, <2>1, <2>9 DEF InRead, hist
    <3>3. /\ Rising(Tail(s)) /\ Under(Tail(s), srv[c].out) /\ f \in Frames
          /\ Honest(f) => f.seq < srv[c].out
          /\ Covers(s, seq_in, srv[c].out) =>
                IF Honest(f) THEN f.seq = seq_in /\ Covers(Tail(s), seq_in + 1, srv[c].out)
                             ELSE Covers(Tail(s), seq_in, srv[c].out)
      BY <1>t, <3>1, TakeFrame, TailFrame
    <3>4. c \notin spoiled => Covers(s, seq_in, srv[c].out)
      BY <2>7, <3>1 DEF ArriveInv, Ahead, Expected
    <3>5. \A d \in Conns : Rising(inbox'[d]) /\ Under(inbox'[d], srv'[d].out)
      BY <2>1, <3>2, <3>3 DEF ArriveInv
    <3>6. \A d \in Conns : Unused(d)' => Pending(inbox'[d]) = {}
      BY <2>2, <3>2 DEF ArriveInv
    <3>7. CASE f.kind = "empty"
      <4>1. pc'[t] = "check" /\ UNCHANGED seq_in
        BY <2>4, <2>9, <3>7 DEF InRead
      <4>2. ~Honest(f)
        BY <3>7 DEF Honest
      <4>3. c \notin spoiled => Ahead(r)'
        BY <2>1, <3>2, <3>3, <3>4, <4>1, <4>2 DEF Ahead, Expected
      <4> QED BY <2>1, <2>3, <3>2, <3>5, <3>6, <4>1, <4>3 DEF ArriveInv, Busy
    <3>8. CASE f.kind # "empty"
      <4>1. /\ pc'[t] = "open" /\ seq_in' = seq_in + 1
            /\ seq' = [seq EXCEPT ![t] = seq_in] /\ frame' = [frame EXCEPT ![t] = f]
        BY <2>4, <2>9, <3>8 DEF InRead, TakeSeq
      <4>2. seq'[t] = seq_in /\ frame'[t] = f
        BY <4>1, Halves DEF Owned, TypeOK, TypeThreads
      <4>3. c \notin spoiled => Ahead(r)' /\ (Honest(f) => f.seq = seq_in)
        BY <2>1, <3>2, <3>3, <3>4, <4>1, <4>2 DEF Ahead, Expected
      <4> QED BY <2>1, <2>3, <3>2, <3>3, <3>5, <3>6, <4>1, <4>2, <4>3 DEF ArriveInv, Busy
    <3> QED BY <3>7, <3>8
  <2>10. CASE InOpen(r)
    <3>1. UNCHANGED <<inbox, seq, seq_in, frame, spoiled>> /\ pc[t] = "open" /\ pc'[t] = "deliver"
      BY <2>4, <2>10 DEF InOpen, seqs, wires, hist
    <3>2. Honest(frame[t])
      BY <2>10 DEF InOpen, Opens, Authentic, Honest
    <3>3. c \notin spoiled => Ahead(r)'
      BY <2>1, <2>7, <3>1, <3>2 DEF ArriveInv, Ahead, Expected
    <3> QED BY <2>1, <2>2, <2>3, <3>1, <3>2, <3>3 DEF ArriveInv, Busy
  <2>11. CASE InOpenFails(r)
    <3>1. /\ UNCHANGED <<inbox, seq, frame>> /\ pc[t] = "open" /\ pc'[t] = "check"
          /\ seq_in' = seq[t]
      BY <1>t, <2>4, <2>5, <2>11 DEF InOpenFails, GiveBack, wires
    <3>2. c \notin spoiled' => ~Honest(frame[t])
      BY <2>1, <2>6, <2>11, <3>1 DEF InOpenFails, Authentic, Honest, ArriveInv
    <3>3. c \notin spoiled' => Ahead(r)'
      BY <2>1, <2>6, <2>7, <3>1, <3>2 DEF ArriveInv, Ahead, Expected
    <3> QED BY <2>1, <2>2, <2>3, <3>1, <3>3 DEF ArriveInv, Busy
  <2>12. CASE InDeliver(r)
    <3>1. UNCHANGED <<inbox, seq, seq_in, spoiled>> /\ pc[t] = "deliver" /\ pc'[t] = "check"
      BY <2>4, <2>12 DEF InDeliver, seqs, wires
    <3>2. c \notin spoiled => Ahead(r)'
      BY <2>1, <2>7, <3>1 DEF ArriveInv, Ahead, Expected
    <3> QED BY <2>1, <2>2, <2>3, <3>1, <3>2 DEF ArriveInv, Busy
  <2>13. CASE InReadEnds(r) \/ InDeliverFails(r)
    BY <2>4, <2>8, <2>13 DEF InReadEnds, InDeliverFails, wires
  <2> QED BY <1>4, <2>9, <2>10, <2>11, <2>12, <2>13 DEF InStep
<1> QED BY <1>1, <1>2, <1>3, <1>4, Kinds

LEMMA ArriveAlways == Spec => [](Owned /\ InInv /\ ArriveInv)
<1>1. Init => Owned /\ InInv /\ ArriveInv
  BY OwnedInit, InInit, ArriveInit
<1>2. Owned /\ InInv /\ ArriveInv /\ [Next]_vars => Owned' /\ InInv' /\ ArriveInv'
  BY OwnedNext, InNext, ArriveNext
<1> QED BY <1>1, <1>2, PTL DEF Spec

(* InStepCorrect: no stray frame, failed open or stop makes the inbound    *)
(* half miss a record of the server's: those on the wire are always all    *)
(* from the one it expects, in order, until an inner failure.              *)
THEOREM InStepCorrect == Spec => []InStepInbound
<1>1. Owned /\ ArriveInv => InStepInbound
  <2> SUFFICES ASSUME Owned, ArriveInv, NEW r \in 1..runs,
                      pc[In(r)] \in {"check", "wait"}, conn[r] \notin spoiled
               PROVE  Arriving(inbox[conn[r]], seq_in, srv[conn[r]].out)
    BY DEF InStepInbound
  <2>1. r \in Runs
    BY PumpAssumption DEF Owned, TypeOK, TypeThreads, Runs
  <2>2. conn[r] \in Conns
    BY <2>1, Halves, Begun DEF Owned, ConnInv
  <2>3. /\ inbox[conn[r]] \in Seq(Frames) /\ seq_in \in Nat /\ srv[conn[r]].out \in Nat
    BY <2>2 DEF Owned, TypeOK, TypeInner, TypeWires
  <2>4. Covers(inbox[conn[r]], seq_in, srv[conn[r]].out)
    BY <2>1 DEF ArriveInv, Ahead, Expected, Busy
  <2>5. Rising(inbox[conn[r]]) /\ Under(inbox[conn[r]], srv[conn[r]].out)
    BY <2>2 DEF ArriveInv
  <2> QED BY <2>3, <2>4, <2>5, CoversArrive
<1> QED BY <1>1, ArriveAlways, PTL

-----------------------------------------------------------------------------
(* The relay is a pipe.  A step of the server's lengthens what was sent, a *)
(* delivery takes out the next one, every other step stutters.             *)

LEMMA RecordsPrefix ==
    ASSUME NEW m \in Nat, NEW l \in Nat, FirstSeq <= l, l <= m
    PROVE  /\ Records(m) \in Seq(Nat) /\ Len(Records(m)) = m - FirstSeq
           /\ SubSeq(Records(m), 1, l - FirstSeq) = Records(l)
<1>0. FirstSeq \in Nat
  BY PumpAssumption
<1>1. m - FirstSeq \in Nat /\ l - FirstSeq \in Nat /\ l - FirstSeq <= m - FirstSeq
  BY <1>0
<1>2. Records(m) \in [1..(m - FirstSeq) -> Nat]
  BY <1>0 DEF Records
<1>3. Records(m) \in Seq(Nat) /\ Len(Records(m)) = m - FirstSeq
  BY <1>1, <1>2
<1>4. SubSeq(Records(m), 1, l - FirstSeq) = [i \in 1..(l - FirstSeq) |-> Records(m)[i]]
  BY <1>1, <1>3
<1>5. \A i \in 1..(l - FirstSeq) : Records(m)[i] = FirstSeq + i - 1
  BY <1>0, <1>1 DEF Records
<1> QED BY <1>3, <1>4, <1>5 DEF Records

(* What was delivered in order is the server's first records. *)
LEMMA InOrderRecords ==
    ASSUME NEW s \in Seq(Nat), \A i \in 1..Len(s) : s[i] = FirstSeq + i - 1
    PROVE  s = Records(FirstSeq + Len(s))
<1>1. FirstSeq \in Nat /\ Len(s) \in Nat /\ s = [i \in 1..Len(s) |-> s[i]]
  BY PumpAssumption
<1> DEFINE k == FirstSeq + Len(s)
<1>2. k - FirstSeq = Len(s)
  BY <1>1
<1> HIDE DEF k
<1>3. Records(k) = [i \in 1..Len(s) |-> FirstSeq + i - 1]
  BY <1>2 DEF Records
<1> QED BY <1>1, <1>3 DEF k

LEMMA RelayStep ==
    ASSUME Owned, InInv, ArriveInv, Owned', InInv', [Next]_vars, NEW c \in Conns
    PROVE  Relay(c)!Next \/ UNCHANGED <<srv[c].out, got[c]>>
<1> DEFINE m == srv[c].out
           n == Len(got[c])
<1>0. /\ FirstSeq \in Nat /\ m \in Nat /\ FirstSeq <= m /\ n \in Nat
      /\ got \in [Conns -> Seq(Nat)] /\ srv \in [Conns -> [in : Nat, out : Nat]]
  BY PumpAssumption DEF Owned, TypeOK, TypeWires, ArriveInv
<1>1. CASE ServerMirror(c) /\ srv' # srv
  <2>1. UNCHANGED got /\ srv'[c].out = m + 1
    BY <1>0, <1>1 DEF ServerMirror
  <2>2. /\ Len(Records(m)) = m - FirstSeq /\ Len(Records(m + 1)) = m + 1 - FirstSeq
        /\ SubSeq(Records(m + 1), 1, m - FirstSeq) = Records(m)
    <3>1. m + 1 \in Nat /\ FirstSeq <= m + 1 /\ m <= m + 1 /\ m <= m
      BY <1>0
    <3> HIDE DEF m
    <3> QED BY <1>0, <3>1, RecordsPrefix
  <2>3. Relay(c)!Send
    BY <1>0, <2>1, <2>2 DEF Relay!Send
  <2> QED BY <2>3 DEF Relay!Next
<1>2. ASSUME NEW r \in Runs, InDeliver(r), conn[r] = c PROVE Relay(c)!Next
  <2>1. UNCHANGED srv /\ got'[c] = Append(got[c], frame[In(r)].seq)
    BY <1>0, <1>2 DEF InDeliver, wires
  <2>2. frame[In(r)].seq = FirstSeq + n /\ frame[In(r)].seq < m
    BY <1>2 DEF InDeliver, InInv, NextIn, ArriveInv
  <2>3. Len(got'[c]) = n + 1
    BY <1>0, <2>1, <2>2
  <2>4. InOrder'
    BY DEF InInv
  <2>5. got'[c] = Records(FirstSeq + (n + 1))
    <3>1. got'[c] \in Seq(Nat)
      BY DEF Owned, TypeOK, TypeWires
    <3>2. \A i \in 1..Len(got'[c]) : got'[c][i] = FirstSeq + i - 1
      BY <2>4 DEF InOrder
    <3> QED BY <2>3, <3>1, <3>2, InOrderRecords
  <2>6. /\ FirstSeq + (n + 1) \in Nat /\ FirstSeq + (n + 1) <= m
        /\ FirstSeq <= FirstSeq + (n + 1) /\ FirstSeq + (n + 1) - FirstSeq = n + 1
    BY <1>0, <2>2
  <2>7. Len(Records(m)) = m - FirstSeq /\ SubSeq(Records(m), 1, n + 1) = Records(FirstSeq + (n + 1))
    <3> DEFINE l == FirstSeq + (n + 1)
    <3>1. l \in Nat /\ FirstSeq <= l /\ l <= m /\ l - FirstSeq = n + 1
      BY <1>0, <2>6
    <3> HIDE DEF l, m
    <3>2. Len(Records(m)) = m - FirstSeq /\ SubSeq(Records(m), 1, l - FirstSeq) = Records(l)
      BY <1>0, <3>1, RecordsPrefix
    <3> QED BY <3>1, <3>2 DEF l
  <2>8. n + 1 \in (Len(got[c]) + 1)..Len(Records(m))
    BY <1>0, <2>6, <2>7
  <2>9. Relay(c)!Deliver
    BY <2>1, <2>5, <2>7, <2>8 DEF Relay!Deliver
  <2> QED BY <2>9 DEF Relay!Next
<1>3. CASE StartRun
  BY <1>3, StartMoves DEF wires, hist
<1>4. CASE Aside
  <2>1. UNCHANGED got
    BY <1>4, AsideMoves
  <2>2. ASSUME NEW d \in Conns, ServerMirror(d), d # c PROVE srv'[c] = srv[c]
    BY <1>0, <2>2 DEF ServerMirror
  <2>3. UNCHANGED srv \/ \E d \in Conns : ServerMirror(d)
    BY <1>4 DEF Aside, Stop, Peer, PeerNoise, PeerClose, Shared, Check, Finish,
       ClearRunning, HaltLast, vars, wires
  <2> QED BY <1>1, <2>1, <2>2, <2>3
<1>5. ASSUME NEW r \in Runs, OutStep(r) PROVE UNCHANGED <<srv[c].out, got[c]>>
  BY <1>5, OutMoves
<1>6. ASSUME NEW r \in Runs, InStep(r) PROVE Relay(c)!Next \/ UNCHANGED <<srv[c].out, got[c]>>
  <2>1. UNCHANGED srv
    BY <1>6, InMoves
  <2>2. CASE InDeliver(r) /\ conn[r] # c
    BY <1>0, <2>1, <2>2 DEF InDeliver
  <2>3. CASE ~InDeliver(r)
    BY <1>6, <2>1, <2>3 DEF InStep, InRead, InReadEnds, InOpen, InOpenFails, InDeliverFails, hist
  <2> QED BY <1>2, <2>2, <2>3
<1> QED BY <1>3, <1>4, <1>5, <1>6, Kinds

(* RelayCorrect: with its two threads, its runs, stray frames and failures *)
(* on every path, the pump implements PacketPipe from the server to the    *)
(* TUN on each connection.                                                 *)
THEOREM RelayCorrect == Spec => RelayIsPipe
<1>1. Init => \A c \in Conns : Relay(c)!Init
  <2> SUFFICES ASSUME Init, NEW c \in Conns PROVE Relay(c)!Init
    OBVIOUS
  <2>1. srv[c].out = FirstSeq /\ got[c] = <<>>
    BY DEF Init
  <2>2. FirstSeq \in Nat
    BY PumpAssumption
  <2>3. Records(FirstSeq) = <<>>
    BY <2>2, RecordsPrefix
  <2> QED BY <2>1, <2>3 DEF Relay!Init
<1>2. /\ Owned /\ InInv /\ ArriveInv /\ Owned' /\ InInv' /\ ArriveInv' /\ [Next]_vars
      => [\A c \in Conns : Relay(c)!Next \/ UNCHANGED <<srv[c].out, got[c]>>]_vars
  BY RelayStep
<1> QED BY <1>1, <1>2, ArriveAlways, PTL DEF Spec, RelayIsPipe

-----------------------------------------------------------------------------
(* Bounded loss.  A packet is unaccounted for only in the hand of a live   *)
(* half, or as the last one of a run whose write failed.                   *)

LEMMA LossInit == Init => LossInv
<1> SUFFICES ASSUME Init PROVE LossInv
  OBVIOUS
<1>1. Missing = 0 /\ runs = 0
  BY DEF Init, Missing, Counters
<1>2. \A r \in Runs : pc[Out(r)] = "none"
  BY Halves DEF Init
<1> QED BY <1>1, <1>2 DEF LossInv

LEMMA LossNext == Owned /\ Owned' /\ LossInv /\ [Next]_vars => LossInv'
<1> SUFFICES ASSUME Owned, Owned', LossInv, [Next]_vars PROVE LossInv'
  OBVIOUS
<1>0. runs \in Nat /\ \A k \in Counters : stats[k] \in Nat
  BY PumpAssumption DEF Owned, TypeOK, TypeInner, TypeThreads, PumpAssumption
<1>1. CASE StartRun
  <2>1. Missing' = Missing /\ \A r \in Runs : ~Live(Out(r))
    BY <1>1, StartMoves, Halves DEF Missing
  <2>2. CASE UNCHANGED <<runs, conn, pc>>
    BY <2>1, <2>2 DEF LossInv
  <2>3. CASE /\ runs' = runs + 1
             /\ \A r \in Runs : \/ pc'[Out(r)] = "check"
                                \/ pc'[Out(r)] = pc[Out(r)]
    <3>1. Missing \in 0..runs
      BY DEF LossInv
    <3>2. \A r \in Runs : pc'[Out(r)] \notin {"seal", "write"}
      BY <2>1, <2>3 DEF Live
    <3> QED BY <1>0, <2>1, <2>3, <3>1, <3>2 DEF LossInv
  <2> QED BY <1>1, <2>2, <2>3, StartMoves
<1>2. CASE Aside
  <2>1. UNCHANGED runs /\ Missing' = Missing
    BY <1>2, AsideMoves DEF Missing
  <2>2. \A r \in Runs : \/ pc'[Out(r)] = pc[Out(r)]
                        \/ pc[Out(r)] = "check" /\ pc'[Out(r)] = "wait"
                        \/ pc'[Out(r)] \in Gone
    BY <1>2, AsideMoves, Halves
  <2> QED BY <2>1, <2>2 DEF LossInv, Gone
<1>3. ASSUME NEW r \in Runs, InStep(r) PROVE LossInv'
  <2>1. UNCHANGED runs /\ \A q \in Runs : pc'[Out(q)] = pc[Out(q)]
    BY <1>3, InMoves
  <2>2. Missing' = Missing
    BY <1>3 DEF InStep, InRead, InReadEnds, InOpen, InOpenFails,
       InDeliver, InDeliverFails, Bump, Counters, Missing
  <2> QED BY <2>1, <2>2 DEF LossInv
<1>4. ASSUME NEW r \in Runs, OutStep(r) PROVE LossInv'
  <2>1. UNCHANGED runs /\ \A q \in Runs : q # r => ~Live(Out(q))'
    BY <1>4, OutMoves
  <2>2. /\ Missing \in 0..runs
        /\ pc[Out(r)] = "wait" => Missing < runs
        /\ pc[Out(r)] \in {"seal", "write"} => Missing > 0
    BY DEF LossInv
  <2>3. \A l : Goto(Out(r), l) => pc'[Out(r)] = l
    BY Halves DEF Goto, Owned, TypeOK, TypeThreads
  <2>4. /\ Missing' \in 0..runs
        /\ pc'[Out(r)] \in {"check", "wait"} => Missing' < runs
        /\ pc'[Out(r)] \in {"seal", "write"} => Missing' > 0
    <3>1. CASE OutPollTimeout(r) \/ OutTunEnds(r)
      <4>1. Missing' = Missing /\ pc[Out(r)] = "wait" /\ pc'[Out(r)] \in {"check", "finish"}
        BY <2>3, <3>1 DEF OutPollTimeout, OutTunEnds, Missing
      <4> QED BY <2>2, <4>1
    <3>2. CASE OutDropIpv6(r)
      <4>1. Missing' = Missing
        BY <1>0, <3>2 DEF OutDropIpv6, Bump, Counters, Missing
      <4> QED BY <2>2, <2>3, <3>2, <4>1 DEF OutDropIpv6
    <3>3. CASE OutRead(r)
      <4>1. Missing' = Missing + 1
        BY <1>0, <3>3 DEF OutRead, Bump, Counters, Missing
      <4>2. pc[Out(r)] = "wait" /\ pc'[Out(r)] = "seal"
        BY <2>3, <3>3 DEF OutRead
      <4> QED BY <1>0, <2>2, <4>1, <4>2
    <3>4. CASE OutSeal(r)
      <4>1. Missing' = Missing /\ pc[Out(r)] = "seal" /\ pc'[Out(r)] = "write"
        BY <2>3, <3>4 DEF OutSeal, Missing
      <4> QED BY <2>2, <4>1
    <3>5. CASE OutSealFails(r) \/ OutWrite(r)
      <4>1. Missing' = Missing - 1
        <5>1. CASE Bump({"seal_errors"})
          BY <1>0, <5>1 DEF Bump, Counters, Missing
        <5>2. CASE Bump({"packets_out"})
          BY <1>0, <5>2 DEF Bump, Counters, Missing
        <5> QED BY <3>5, <5>1, <5>2 DEF OutSealFails, OutWrite
      <4>2. pc[Out(r)] \in {"seal", "write"} /\ pc'[Out(r)] = "check"
        BY <2>3, <3>5 DEF OutSealFails, OutWrite
      <4> QED BY <1>0, <2>2, <4>1, <4>2
    <3>6. CASE OutWriteFails(r)
      <4>1. Missing' = Missing /\ pc'[Out(r)] = "finish"
        BY <2>3, <3>6 DEF OutWriteFails, Missing
      <4> QED BY <2>2, <4>1
    <3> QED BY <1>4, <3>1, <3>2, <3>3, <3>4, <3>5, <3>6 DEF OutStep
  <2> QED BY <2>1, <2>4 DEF LossInv, Live
<1> QED BY <1>1, <1>2, <1>3, <1>4, Kinds

(* LossCorrect: over any number of runs, at most one packet per run is     *)
(* read from the TUN and neither sent, blackholed nor counted as an error. *)
THEOREM LossCorrect == Spec => []LossBounded
<1>1. Init => Owned /\ LossInv
  BY OwnedInit, LossInit
<1>2. Owned /\ LossInv /\ [Next]_vars => Owned' /\ LossInv'
  BY OwnedNext, LossNext
<1>3. LossInv => LossBounded
  BY DEF LossInv, LossBounded, Missing
<1> QED BY <1>1, <1>2, <1>3, PTL DEF Spec

-----------------------------------------------------------------------------
(* Who clears running.  Whenever it is set, a thread is left that will     *)
(* clear it: the half that leaves first leaves another behind, because     *)
(* alive counts both.                                                      *)
Holder == \E t \in Threads : Holding(t)

HeldInv == CloneMayFail = FALSE => (running => Holder)

(* A thread that holds and goes on holding after its move keeps Holder. *)
LEMMA HolderMove ==
    ASSUME TypeOK, Holder, NEW t \in Threads, NEW l, Goto(t, l),
           Holding(t) => l \in LiveLabels \cup {"clear"}
    PROVE  Holder'
<1>1. \A u \in Threads : pc'[u] = IF u = t THEN l ELSE pc[u]
  BY DEF Goto, TypeOK, TypeThreads
<1>2. PICK u \in Threads : Holding(u)
  BY DEF Holder
<1>3. Holding(u)'
  BY <1>1, <1>2 DEF Holding, Live, LiveLabels
<1> QED BY <1>3 DEF Holder

(* The half that is not the last one out leaves the other one live. *)
LEMMA HolderFinish ==
    ASSUME Owned, NEW t \in Threads, Finish(t)
    PROVE  Holder'
<1> USE DEF Owned
<1>1. Live(t) /\ t[1] = runs /\ runs \in Runs
  BY LiveIsLatest, Halves DEF Finish, Live
<1>2. \A u \in Threads :
        pc'[u] = IF u = t THEN (IF IsLast THEN "clear" ELSE "done") ELSE pc[u]
  BY DEF Finish, Goto, TypeOK, TypeThreads
<1>3. CASE IsLast
  BY <1>2, <1>3 DEF Holder, Holding
<1>4. CASE ~IsLast
  <2>1. alive = Unit(Out(runs)) + Unit(In(runs)) /\ alive # 1
    BY <1>1, <1>4 DEF AliveInv, IsLast
  <2>2. Live(Out(runs)) /\ Live(In(runs))
    <3>1. t = Out(runs) \/ t = In(runs)
      BY <1>1, Halves
    <3> QED BY <1>1, <2>1, <3>1 DEF Unit
  <2>3. PICK u \in {Out(runs), In(runs)} : u # t /\ u \in Threads
    BY <1>1, Halves
  <2>4. Live(u)'
    BY <1>2, <2>2, <2>3 DEF Live
  <2> QED BY <2>3, <2>4 DEF Holder, Holding
<1> QED BY <1>3, <1>4

LEMMA HolderNext ==
    ASSUME CloneMayFail = FALSE, Owned, [Next]_vars, running => Holder
    PROVE  running' => Holder'
<1> USE DEF Owned
<1>1. CASE StartRun
  <2>1. PICK c \in Conns : \E h \in HaltHandles(c) : Start(c, h, srv[c].in, srv[c].out)
    BY <1>1 DEF StartRun, StartCloneFails
  <2>2. runs + 1 \in Runs
    BY <2>1, PumpAssumption DEF Start, TypeOK, TypeThreads, Runs, PumpAssumption
  <2>3. pc'[Out(runs + 1)] = "check" /\ Out(runs + 1) \in Threads
    BY <2>1, <2>2, Halves DEF Start
  <2> QED BY <2>3 DEF Holder, Holding, Live
<1>2. CASE Stop \/ Peer \/ UNCHANGED vars
  <2>1. UNCHANGED <<running, pc>>
    BY <1>2 DEF Stop, Peer, ServerMirror, PeerNoise, PeerClose, inner, vars
  <2> QED BY <2>1 DEF Holder, Holding, Live
<1>3. ASSUME NEW t \in Threads, Finish(t) PROVE Holder'
  BY <1>3, HolderFinish
<1>4. ASSUME NEW t \in Threads, ClearRunning(t) PROVE running' = FALSE
  BY <1>4 DEF ClearRunning
<1>5. ASSUME NEW t \in Threads, Check(t) \/ HaltLast(t) PROVE running' => Holder'
  <2>1. UNCHANGED running
    BY <1>5 DEF Check, HaltLast, inner
  <2>2. PICK l : Goto(t, l) /\ (Holding(t) => l \in LiveLabels)
    BY <1>5 DEF Check, HaltLast, Holding, Live, LiveLabels
  <2> QED BY <2>1, <2>2, HolderMove
<1>6. ASSUME NEW r \in Runs, OutStep(r) PROVE running' => Holder'
  <2>1. UNCHANGED running
    BY <1>6 DEF OutStep, OutPollTimeout, OutTunEnds, OutDropIpv6, OutRead, OutSeal,
         OutSealFails, OutWrite, OutWriteFails, inner
  <2>2. PICK l \in LiveLabels : Goto(Out(r), l)
    BY <1>6 DEF OutStep, OutPollTimeout, OutTunEnds, OutDropIpv6, OutRead, OutSeal,
         OutSealFails, OutWrite, OutWriteFails, LiveLabels
  <2> QED BY <2>1, <2>2, HolderMove, Halves
<1>7. ASSUME NEW r \in Runs, InStep(r) PROVE running' => Holder'
  <2>1. UNCHANGED running
    BY <1>7 DEF InStep, InRead, InReadEnds, InOpen, InOpenFails,
         InDeliver, InDeliverFails, inner
  <2>2. PICK l \in LiveLabels : Goto(In(r), l)
    BY <1>7 DEF InStep, InRead, InReadEnds, InOpen, InOpenFails,
         InDeliver, InDeliverFails, LiveLabels
  <2> QED BY <2>1, <2>2, HolderMove, Halves
<1> QED BY <1>1, <1>2, <1>3, <1>4, <1>5, <1>6, <1>7, Kinds DEF Aside, Shared

LEMMA HeldNext ==
    ASSUME Owned, HeldInv, [Next]_vars
    PROVE  HeldInv'
<1>1. ASSUME CloneMayFail = FALSE, running' PROVE Holder'
  <2>1. running => Holder
    BY <1>1 DEF HeldInv
  <2> QED BY <1>1, <2>1, HolderNext
<1> QED BY <1>1 DEF HeldInv

(* RunningCorrect: as long as start's try_clone succeeds, running is never *)
(* left set without a thread that will clear it, over any number of runs   *)
(* and however their halves end: a later start is not refused for ever.    *)
THEOREM RunningCorrect == Spec => [](CloneMayFail = FALSE => RunningHasThreads)
<1>1. Init => Owned /\ HeldInv
  BY OwnedInit DEF Init, HeldInv
<1>2. Owned /\ HeldInv /\ [Next]_vars => Owned' /\ HeldInv'
  BY OwnedNext, HeldNext
<1>3. HeldInv => (CloneMayFail = FALSE => RunningHasThreads)
  BY DEF HeldInv, Holder, Holding, RunningHasThreads
<1> QED BY <1>1, <1>2, <1>3, PTL DEF Spec
=============================================================================
