---------------------------- MODULE MCRtspDialog ----------------------------
(* RtspDialog on small instances; the configurations give all constants.     *)
EXTENDS RtspDialog
=============================================================================
