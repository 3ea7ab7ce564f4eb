-------------------------------- MODULE Timeval --------------------------------
(***************************************************************************)
(* The time arithmetic of server.c on struct timeval.  The two scales are  *)
(* parameters: USEC is 1000000 and CLOCK, the RTP clock, 90000 in the      *)
(* code; TLC uses smaller ones.                                            *)
(***************************************************************************)
EXTENDS Integers

CONSTANTS USEC, CLOCK

ASSUME ScaleAssumption == USEC \in Nat \ {0} /\ CLOCK \in Nat \ {0}

\* Any pair of fields, and the pairs gettimeofday returns.
Timevals == [sec : Int, usec : Int]
Normal(t) == t.usec \in 0 .. USEC - 1

\* The instant a timeval stands for, in microseconds.
Micros(t) == t.sec * USEC + t.usec

\* second - first, with at most one borrow.
calculate_delta(first, second) ==
  LET sec  == second.sec - first.sec
      usec == second.usec - first.usec
  IN  IF usec < 0 THEN [sec |-> sec - 1, usec |-> usec + USEC]
      ELSE [sec |-> sec, usec |-> usec]

\* Mutant: the microseconds are compared only.
timecmp_usec(first, second) == calculate_delta(first, second).usec

\* Positive if second is later, negative if first is, zero if neither.
timecmp(first, second) ==
  LET delta == calculate_delta(first, second)
  IN  IF delta.sec # 0 THEN delta.sec ELSE delta.usec

\* The stamp push_timeout gives an event due time_ms milliseconds from now:
\* the microseconds are added without a carry.
timeout_stamp(now, time_ms) ==
  [sec  |-> now.sec + time_ms \div 1000,
   usec |-> now.usec + ((time_ms % 1000) * USEC) \div 1000]

\* The stamp set_timeval gives a frame, with one carry.
set_timeval(base, timestamp) ==
  LET sec  == base.sec + timestamp \div CLOCK
      usec == base.usec + ((timestamp % CLOCK) * USEC) \div CLOCK
  IN  IF usec >= USEC THEN [sec |-> sec + 1, usec |-> usec - USEC]
      ELSE [sec |-> sec, usec |-> usec]

\* The stamp fill_queue gives ENDOFSTREAM, gap microseconds after the frame
\* it read last, without a carry.
eos_stamp(prev, gap) == [prev EXCEPT !.usec = @ + gap]
=============================================================================
