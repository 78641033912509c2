---------------------------- MODULE PolledTasks ----------------------------
(***************************************************************************)
(* What a set of PWM tasks promises on the port: every task updates itself  *)
(* and drives its own pin at exactly the time it asked for.  This is        *)
(* PWMTask used on its own, start() followed by update(false, false) polled *)
(* by an infinitely fast loop ("should be called in a loop", pwm_task.h:35).*)
(* PWMScheduler, which computes the same port states ahead of time and lets *)
(* an alarm interrupt apply them, is checked to implement this module.      *)
(***************************************************************************)
EXTENDS PWMTask, FiniteSets

CONSTANTS
  Pins,        \* the pins a task may drive
  TaskSettings, \* the settings the host may choose from
  Horizon      \* ticks a started schedule is followed for

ASSUME PinsAssumption     == IsFiniteSet(Pins)
ASSUME SettingsAssumption == TaskSettings \subseteq Settings
ASSUME HorizonAssumption  == Horizon \in 0 .. UintRange

VARIABLES
  now,         \* timer_hw->timerawl
  task,        \* the task of each pin that has one
  gpio,        \* the pins driven HIGH
  active       \* the tasks were started and not stopped since

vars == <<now, task, gpio, active>>

Init ==
  /\ now \in Uint
  /\ task = [p \in {} |-> 0]
  /\ gpio = {}
  /\ active = FALSE

\* The pins whose task must be updated at this very moment.
Due == {p \in DOMAIN task : /\ RequiresFutureUpdate(task[p])
                            /\ TimeToUpdate(task[p], now)}

\* PWMTask(...): the pin becomes an output, LOW.
Create(p, s) ==
  /\ ~active
  /\ p \notin DOMAIN task
  /\ task' = [q \in DOMAIN task \cup {p} |->
                IF q = p THEN NewTask(s) ELSE task[q]]
  /\ gpio' = gpio \ {p}
  /\ UNCHANGED <<now, active>>

\* start() of every task at the same time: starting levels reach the pins.
Start ==
  /\ ~active
  /\ active' = TRUE
  /\ task' = [p \in DOMAIN task |-> StartedAt(task[p], now)]
  /\ gpio' = {p \in DOMAIN task : StartingState(task[p]) = "HIGH"}
  /\ UNCHANGED now

\* update() of every task that is due; the others return early.
Poll ==
  /\ active
  /\ Due # {}
  /\ task' = [p \in DOMAIN task |->
                IF p \in Due THEN Update(task[p]) ELSE task[p]]
  /\ gpio' = (gpio \ Due) \cup {p \in Due : task'[p].state = "HIGH"}
  /\ UNCHANGED <<now, active>>

\* stop() and reset() of every task: outputs LOW, counters cleared.
Stop ==
  /\ active
  /\ active' = FALSE
  /\ task' = [p \in DOMAIN task |-> Reset(task[p])]
  /\ gpio' = {}
  /\ UNCHANGED now

\* ~PWMTask() of every task.
Destroy ==
  /\ task' = [p \in {} |-> 0]
  /\ gpio' = {}
  /\ active' = FALSE
  /\ UNCHANGED now

Elapsed(p) == (now - task[p].start) % UintRange

\* A microsecond passes; the polling loop leaves no due task behind.
Tick ==
  /\ active => /\ Due = {}
               /\ \A p \in DOMAIN task : Elapsed(p) < Horizon
  /\ now' = Plus(now, 1)
  /\ UNCHANGED <<task, gpio, active>>

Next ==
  \/ \E p \in Pins, s \in TaskSettings : Create(p, s)
  \/ Start
  \/ Poll
  \/ Stop
  \/ Destroy
  \/ Tick

Spec == Init /\ [][Next]_vars

\* The loop keeps polling and the timer keeps counting; the host may leave a
\* schedule running for ever, so Create, Start, Stop and Destroy are not fair.
FairSpec == Spec /\ WF_vars(Poll) /\ WF_vars(Tick)

TypeOK ==
  /\ now \in Uint
  /\ DOMAIN task \subseteq Pins
  /\ task \in [DOMAIN task -> Task]
  /\ gpio \subseteq DOMAIN task
  /\ active \in BOOLEAN
-----------------------------------------------------------------------------
(***************************************************************************)
(* Waveforms as functions of the time e since the start.                    *)
(***************************************************************************)

\* k-th pulse (from 0) of an endless or counted train.
Counted(s, k) == s.count = 0 \/ k < s.count

\* The waveform README.md:34-37 describes: LOW for offset, then every period
\* HIGH for the on time and LOW for the rest.
DocumentedHigh(s, e) ==
  /\ e >= s.delay
  /\ (e - s.delay) % s.period < s.on
  /\ Counted(s, (e - s.delay) \div s.period)

\* The waveform the state machine produces: after the phase that start()
\* sets up, LOW lasts the on time and HIGH lasts the off time.
ProducedHigh(s, e) ==
  LET off   == s.period - s.on
      first == IF s.delay = 0 THEN 2 * s.on ELSE s.delay
      k     == IF s.delay = 0 THEN 1 ELSE 0
  IN \/ s.delay = 0 /\ e < s.on
     \/ /\ e >= first
        /\ (e - first) % s.period < off
        /\ Counted(s, k + (e - first) \div s.period)

\* Whenever no update is due, each pin shows the level the closed form gives
\* for the time since start: pulse count, phase lengths and the 32-bit wrap
\* of the timer included (pwm_task.cpp:53-89, pwm_task.h:64-70).
WaveformInClosedForm ==
  active /\ Due = {} =>
    \A p \in DOMAIN task : (p \in gpio) = ProducedHigh(task[p], Elapsed(p))

\* Each pin shows the waveform that README.md:34-37 promises for its settings.
WaveformAsDocumented ==
  active /\ Due = {} =>
    \A p \in DOMAIN task : (p \in gpio) = DocumentedHigh(task[p], Elapsed(p))

\* A started schedule of counted pulse trains ends, with every pin LOW,
\* unless the host stops or destroys it first.
CountedTrainsEnd ==
  (active /\ \A p \in DOMAIN task : task[p].count > 0) ~>
    (gpio = {} /\ (active => \A p \in DOMAIN task : task[p].state = "DONE"))
=============================================================================
