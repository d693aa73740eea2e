------------------------- MODULE MCShadeVpnService -------------------------
(* ShadeVpnService on small numbers of commands; the retry budget is cut   *)
(* from five to one or two.                                                *)
EXTENDS ShadeVpnService
=============================================================================
