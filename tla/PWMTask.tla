------------------------------ MODULE PWMTask ------------------------------
(***************************************************************************)
(* One PWM output: the arithmetic of firmware/src/pwm_task.cpp and          *)
(* firmware/inc/pwm_task.h as operators on a task record, with no state of  *)
(* its own.  PolledTasks and PWMScheduler are built from these operators.   *)
(*                                                                         *)
(* Every quantity of the class is a uint32_t, so sums are taken modulo      *)
(* UintRange (2^32 in the code) and two times are compared through the sign *)
(* of their 32-bit difference.  Fields the class only writes (loops_,       *)
(* invert_, pin_mask_ as a bit pattern) are left out: a task is named by    *)
(* its pin.                                                                *)
(***************************************************************************)
EXTENDS Integers

CONSTANT UintRange      \* number of values of a uint32_t: 2^32 in the code

ASSUME UintRangeAssumption == UintRange \in Nat \ {0, 1}

Uint == 0 .. UintRange - 1

\* The settings of a pulse train: phase offset, on time, period, pulse count
\* (0: pulse forever).
Settings == [delay : Uint, on : Uint, period : Uint, count : Uint]

Task == [delay : Uint, on : Uint, period : Uint, count : Uint,
         state : {"LOW", "HIGH", "DONE"}, cycles : Uint,
         start : Uint, next : Uint]

Plus(a, b) == (a + b) % UintRange

\* Mutant: an unsigned comparison.
AfterUnsigned(a, b) == a > b

\* int32_t(a - b) > 0: time a lies after time b, seen through the wrap.
After(a, b) == LET d == (a - b) % UintRange IN 0 < d /\ 2 * d < UintRange

\* time_to_update(): int32_t(time - next_update_time_us_) >= 0.
TimeToUpdate(t, time) == 2 * ((time - t.next) % UintRange) < UintRange

\* operator<(lhs, rhs): lhs must be updated strictly before rhs.
UpdatesBefore(lhs, rhs) == After(rhs.next, lhs.next)

StartingState(s) == IF s.delay = 0 THEN "HIGH" ELSE "LOW"

SetTimeStarted(t, time) ==
  [t EXCEPT !.start = time,
            !.next  = Plus(Plus(time, t.delay),
                           IF StartingState(t) = "HIGH" THEN t.on ELSE 0)]

Reset(t) ==
  SetTimeStarted([t EXCEPT !.cycles = 0, !.state = StartingState(t)], 0)

\* The constructor: the settings, then reset(true).
NewTask(s) ==
  Reset([delay |-> s.delay, on |-> s.on, period |-> s.period,
         count |-> s.count, state |-> "LOW", cycles |-> 0,
         start |-> 0, next |-> 0])

\* start(): reset, then measure all times from "time".
StartedAt(t, time) == SetTimeStarted(Reset(t), time)

\* Mutants: one pulse too many; the count is not tested.
ExhaustedLate(t) == t.cycles > t.count /\ t.count > 0
NeverExhausted(t) == FALSE

Exhausted(t) == t.cycles = t.count /\ t.count > 0

\* One forced step of the state machine, update(true, ...).
Update(t) ==
  IF Exhausted(t) \/ t.state = "DONE"
  THEN [t EXCEPT !.state = "DONE"]
  ELSE IF t.state = "HIGH"
       THEN [t EXCEPT !.state  = "LOW",
                      !.next   = Plus(@, t.on),
                      !.cycles = Plus(@, 1)]
       ELSE [t EXCEPT !.state = "HIGH",
                      !.next  = Plus(@, (t.period - t.on) % UintRange)]

RequiresFutureUpdate(t) == t.state # "DONE"
=============================================================================
