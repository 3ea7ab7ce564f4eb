----------------------------- MODULE MCMtServer -----------------------------
(* MtServer with two callers; the configurations give the other constants.   *)
EXTENDS MtServer

CONSTANTS c1, c2
TwoCalls == {c1, c2}
=============================================================================
