--------------------------- MODULE MCNativeSession ---------------------------
(* NativeSession on small instances: two connections, one or two attempt   *)
(* threads, with and without the UI's probe.                               *)
EXTENDS NativeSession, TLC

CONSTANTS c1, c2

MCConns == {c1, c2}
Symmetry == Permutations(Conns)
AttemptSymmetry == Permutations(Conns) \cup Permutations(Attempts)
=============================================================================
