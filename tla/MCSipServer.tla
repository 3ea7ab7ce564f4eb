----------------------------- MODULE MCSipServer -----------------------------
(* SipServer with a few calls and slots; calls are interchangeable.          *)
EXTENDS SipServer, TLC

CONSTANTS c1, c2
TwoCalls == {c1, c2}
CallSymmetry == Permutations(TwoCalls)
=============================================================================
