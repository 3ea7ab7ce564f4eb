-------------------------- MODULE MCStreamPipeline --------------------------
(* StreamPipeline on small instances: files as definitions, all else in the  *)
(* configurations.                                                           *)
EXTENDS StreamPipeline

\* A file whose stamps increase, long enough to fill the queue and refill it.
Increasing == <<0, 1, 3, 4, 5, 6>>
Short == <<0, 2, 3>>
\* A file whose container stores the last frame to be shown before another.
Interleaved == <<0, 4, 2>>
=============================================================================
