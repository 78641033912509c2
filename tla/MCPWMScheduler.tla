--------------------------- MODULE MCPWMScheduler ---------------------------
(***************************************************************************)
(* Instances of PWMScheduler: pulse trains short against the timer's wrap,  *)
(* as the code's signed comparisons of times need.                         *)
(***************************************************************************)
EXTENDS PWMScheduler

Train(delay, on, period, count) ==
  [delay |-> delay, on |-> on, period |-> period, count |-> count]

\* Trains that start at once or later, that meet at common times, and that
\* end or go on for ever.
MixedTrains == {Train(0, 1, 3, 1), Train(1, 2, 3, 2), Train(2, 1, 2, 0)}

\* One pulse more than start() computes events for.
TwoPulses == {Train(0, 1, 2, 2)}

\* One pulse after an offset.
OnePulse == {Train(1, 1, 2, 1)}
=============================================================================
