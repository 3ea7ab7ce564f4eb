---------------------------- MODULE MCSocketFunc ----------------------------
(* SocketFunc on small instances; the configurations give all constants.     *)
EXTENDS SocketFunc
=============================================================================
