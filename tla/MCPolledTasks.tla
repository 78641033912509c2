--------------------------- MODULE MCPolledTasks ---------------------------
(***************************************************************************)
(* Instances of PolledTasks: a 5-bit timer, times of a few microseconds, up *)
(* to two pulses.                                                          *)
(***************************************************************************)
EXTENDS PolledTasks

\* Every combination of short offsets and phases, endless or counted.
MixedSettings ==
  {s \in [delay : {0, 1, 3}, on : {1, 2, 3}, period : {2, 3, 4}, count : {0, 1, 2}] :
     s.on < s.period}
=============================================================================
