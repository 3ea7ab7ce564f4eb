---------------------------- MODULE MCRtspServer ----------------------------
(* RtspServer on small instances; the configurations give all constants.     *)
EXTENDS RtspServer
=============================================================================
