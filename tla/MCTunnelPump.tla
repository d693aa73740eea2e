---------------------------- MODULE MCTunnelPump ----------------------------
(* TunnelPump on small instances: two starts of one pump object. *)
EXTENDS TunnelPump, TLC

CONSTANTS c1, c2

MCConns == {c1, c2}
Symmetry == Permutations(Conns)
=============================================================================
