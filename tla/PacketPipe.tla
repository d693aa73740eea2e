----------------------------- MODULE PacketPipe -----------------------------
(***************************************************************************)
(* What one direction of the tunnel promises, whatever framing lies in     *)
(* between: units go in at one end and come out at the other unchanged, in *)
(* order, none twice and none invented.  A broken connection may keep the  *)
(* last ones back for ever.                                                *)
(***************************************************************************)
EXTENDS Integers, Sequences

VARIABLES sent,   \* what the sender put in
          got     \* what the receiver took out

Init == sent = <<>> /\ got = <<>>

Send ==
    /\ Len(sent') > Len(sent)
    /\ SubSeq(sent', 1, Len(sent)) = sent
    /\ UNCHANGED got

Deliver ==
    /\ \E n \in (Len(got) + 1)..Len(sent) : got' = SubSeq(sent, 1, n)
    /\ UNCHANGED sent

Next == Send \/ Deliver

Spec == Init /\ [][Next]_<<sent, got>>
=============================================================================
