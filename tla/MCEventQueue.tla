---------------------------- MODULE MCEventQueue ----------------------------
(* EventQueue with short seconds: the configurations give the number of      *)
(* units in a second, and the server starts at one of these times of day.    *)
EXTENDS EventQueue

FullSecond == [sec |-> 0, usec |-> 0]
EndOfSecond == [sec |-> 0, usec |-> USEC - 2]
=============================================================================
