# Verification of the CuTTLefish firmware

TLA+ models of the firmware under `src/firmware`, model-checked with TLC, and
theorems about them checked by TLAPS. The device drives eight TTL pins with
pulse trains, under the control of a host that writes Harp registers.

## 1. Inventory

| part | code | state it keeps | operations |
|---|---|---|---|
| PWM task | `pwm_task.{h,cpp}`, `pwm_settings.h` | settings, LOW/HIGH/DONE, pulses done, start and next update time (all `uint32_t` microseconds) | constructor, `start`, `update`, `stop`, `reset`, destructor, `operator<` |
| PWM scheduler | `pwm_scheduler.{h,cpp}` | tasks, priority queue, deque of port events, next port state, `alarm_queued_` | `schedule_pwm_task`, `start`, `update`, `stop`, `reset`, `finished`, `cancel_alarm` |
| alarm handler | `set_new_ttl_pin_state` | none of its own: it shares deque, next port state, flag and alarm register with the scheduler | apply, acknowledge, take the next event, re-arm |
| core1 loop | `core1_main.cpp` | `state` (RESET, READY, RUNNING), `schedule_failed`; `sync_schedule` works on the scheduler's tasks and priority queue | `run_task_loop`, `sync_schedule`, `handle_missed_deadline` |
| queues | `main.cpp`, `schedule_ctrl_queues.h` | commands (8), state changes (8), settings (32) | `queue_try_add`, `queue_try_remove` |
| PWM registers | `cuttlefish_app.cpp` on core0 | `pwm_state`, `pwm_ready`, `pwm_settings` | `write_pwm_state`, `write_any_pwm_settings`, `update_app_state`, `reset_app` |
| port registers, pins | `cuttlefish_app.cpp`, `pwm_task.cpp` | direction, level, buffer direction, inversion | port writes, direction side of settings writes, constructor, destructor and `stop` of tasks |
| edge capture | `handle_edge_event_callback`, `update_app_state` | enable masks, INTR and INTE of the GPIO bank, edge queue (32) | handler, enable writes, drain, `reset_app` |

How they interact. The host writes a register; core0 handles it to its end
before it takes the next message. Settings and commands go to core1 through two
queues; core1's state changes come back through a third, which has two readers:
the handler that waits up to a millisecond for the answer to its command, and
`update_app_state()`, which runs between messages. core1 turns tasks into *port
events* (pins, levels, time) ahead of time. The alarm interrupt applies one
event, takes the next from the deque and re-arms itself; when the deque is empty
it clears `alarm_queued_` and core1 must arm the next one.

What is hard, and what makes each part correct:

- *PWM task.* Times wrap every 71 minutes and are compared by the sign of a
  32-bit difference. Correct: each pin shows the waveform of its settings,
  the right number of pulses, and ends LOW.
- *Scheduler and handler.* They share four locations without a lock. Correct:
  `alarm_queued_` works as one; events are applied in order, once, at
  their time; the end is the end; missed deadlines are detected; after `stop()`
  nothing drives a pin.
- *core1, queues and registers.* Two state machines that must agree across
  queues, with a timeout, failures and resets. Correct: no command is lost,
  an answer belongs to its command, replies tell the truth, settings never
  arrive late or in the middle of a schedule, an end reaches the host.
- *sync_schedule.* It finds a task in a priority queue of references by popping
  and pushing back all others, and changes it in place. Correct: settings reach
  their task, the queue stays a heap, and events come out in order.
- *Edge capture.* Edges arrive while the handler runs, and between the steps of
  an enable write; the queue is finite. Correct: every edge the host asked for is
  reported once, in order, and none that it did not ask for.
- *Port pins.* Two cores and the alarm handler write the same registers by read
  and toggle. Correct: no put undoes another; pins, buffers and register agree;
  what nobody asked for is not driven.

`PROJECT.json` lists every component and, under `hazards`, each hazard at its
line with the properties that would catch it.

## 2. Modules

| module | models |
|---|---|
| `PWMTask` | one task as a record, and its methods as operators; no state |
| `PolledTasks` | abstract specification: tasks that update themselves and drive their pins at exactly their times |
| `PWMScheduler` | scheduler, core1 loop, alarm, handler; implements `PolledTasks` |
| `Control` | core0 handlers, core1 state machine, the queues between them |
| `SyncSchedule` | `sync_schedule()` and the priority queue as an array |
| `PortPins` | the pins between port registers, tasks and alarm handler |
| `EdgeCapture` | interrupt registers, edge handler, its queue, enable registers |
| `MC...` | the instances for TLC |
| `PWMTaskProofs`, `PolledTasksProofs` | lemmas on times and updates; the waveform of a task |
| `PWMSchedulerProofs`, `TimelineProofs` | theorems of `PWMScheduler`, for any regime and for cores that keep up |
| `ControlProofs`, `SyncScheduleProofs`, `PortPinsProofs`, `EdgeCaptureProofs` | theorems of the module in the name |

**PWMTask.** `UintRange` stands for 2^32. Sums are taken modulo it; `After`
and `TimeToUpdate` are the signed comparisons of the code. `loops_` is written
and never read, `invert_` only changes the pad, and both are left out.

**PolledTasks** is what the class comment of `update()` asks for: polled in a
loop, here infinitely fast. `WaveformInClosedForm` says, as a function of the
time since the start, which level each pin has.

**PWMScheduler** splits the code wherever one thread touches a location the other
uses: `update()` is `UpdateSkip` or `UpdateBatch`, `TestQueued`, `Emplace`,
`CheckDeadline`, `TestRearm`, `SetNextPort`, `SetAlarmQueued`, `ArmAlarm`; the
handler is `IsrApply` to `IsrPop`; `stop()` and `reset()` are `Disarm`,
`ClearAlarmQueued` and the rest. What lies between two shared accesses is one
step. The heap is a set of pins ordered by `UpdatesBefore`: ties may be broken
either way. The alarm compares for equality: it fires when the timer reaches
the time, and a write at that very moment may fire or may miss. `shown` is a
history variable, the tasks as the pins show them. Port events carry sets of
pins instead of bit masks.

In the firmware the scheduler is a global, constructed on core0, so the handler runs in
parallel with core1. `tests/schedule` uses it on one core, where the handler preempts the
loop: one of the interleavings. Insertion into the deque and removal from it are each taken as atomic;
the `++` and `--` of the size that the container of `etl` may share between the two cores is not modelled.

Two switches select the regime:

- `KeepsUp`: time passes only when neither thread has anything to do: the
  regime in which the code makes its timing promises. With `FALSE` a microsecond
  may pass between any two statements, and deadlines and alarms may be missed.
- `MayStop`: the host may send STOP while a schedule runs.

**Control** steps from one queue access to the next. The schedule is reduced to
idle, playing and ended. Three faults may occur, if `Faults` lists them: the
schedule misses a deadline in an `update()`, the host resets the app, an answer
that will come takes longer than the timeout. Without the last a timeout only
happens when no answer will come (`NoAnswerComes`: core1 took the command in a
state that ignores it). `faults` records which have happened, so that one run
tells for each property which faults it survives. `event` records that an EVENT of PwmState
was sent: `Announces` says on which of core1's reports `update_app_state()` sends one. `accepted`,
`reply`, `event` and `begun` are history variables too. Muting, message parsing and time stamps are left out. The
model starts after the boot, when `reset_app()` has returned and core1 has left RESET.

**SyncSchedule** is sequential: nothing in it is shared, so each call is a step.
Its subject is data: `heap` is the array of `pq_`, with the sifts of the library's
binary heap (external: `etl` is a submodule), and an entry whose task changes
keeps its place, as a reference does. `sync_schedule()` searches the task of a pin by popping
(`PopUntil`), and what it finds decides: the task in front is rewritten whichever it is (`RewriteTask`), or, with the
queue empty, a new one is made (`SchedulePwmTask`), which would be a pin's second if the search
had missed the first. `Start`, `ComputeBatch`
(the loop of `update()` that fills one event), `Stop` and `ResetSchedule`
are the scheduler's methods reduced to their effect on tasks, heap and port.
The loops (a sift, popping down to a task, pushing back, the rounds of `update()`) are recursive
functions over the array and a place in it, so that they can be proved about.
`moved` records the tasks that were rewritten to another first update time. `EarliestTogether` is what `PWMScheduler` assumes when it
takes `pq_` for a set, so the two modules divide the scheduler between them:
data here, concurrency there.

**PortPins** executes `gpio_put_masked()` and `gpio_set_dir_masked()` in the two
accesses of the SDK: read the register, then toggle the bits that are wrong.
`puts` holds the call each of core0, core1 and the alarm handler is in; the handler
interrupts core0 only. Each statement of the code that reaches a pin is an action
that begins a put, or changes a pad at once. `meant` and `asked` are
history: the levels last put, the outputs last asked for. When schedules play and with
which levels is left open, and the conversation of the cores is that of `Control`
without late answers. `cancel_alarm()` (`CancelAlarm`) neither waits for a handler
that runs nor takes back an interrupt that is latched: `late` holds the pins such an interrupt will still
drive, and `LatchedFires` lets it come at any later moment, more than once if it finds events that core1
has not cleared yet. Troubles play the part of `Faults`: `Troubles` lists those
that may occur, `troubles` those that did, and `Occur` adds to it where the code or
its surroundings make one.

**EdgeCapture** makes every access of the handler to INTR a step, so that pins may
change between its read and its clear, and lets the enable writes visit one pin per
step, with interrupts between. Only edges that some pin may have enabled are
kept: the filter removes the others from every event. `due` counts, per edge, what
the host asked for and was not told yet, `host` is the level a host derives from
the events it was sent. An edge is written off from `due` when a trouble that loses
edges has occurred, or while its interrupt is still disabled. `gpio_set_irq_enabled()`
acknowledges the edges it changes, as the SDK's does. Before the first `reset_app()`
there is no handler; each later one attaches it again.

## 3. Runs

| run | expected | shows |
|---|---|---|
| `polled` | pass | the closed form of the waveform for every mix of settings and start time, wrap included; counted trains end, LOW |
| `polled_duty` | violation | the waveform is not the documented one: on and off durations are exchanged from the second phase on |
| `keeps_up` | pass | two cores that keep up: lock discipline, order, no false end, no false alarm, the port follows `PolledTasks` exactly, and counted schedules end |
| `two_cores` | pass | two cores, delay and STOP at any statement: the lock, quiet stops and the pop hold as long as `cancel_alarm()` does not race the handler; a counted schedule ends, even with deadlines and alarms missed, unless it was raced or stranded |
| `stranded` | violation | an event queued while the handler gives up the alarm is armed by nobody, and its schedule never ends |
| `stop_race` | violation | an interrupt latched when `stop()` runs on the other core drives the stopped pins afterwards |
| `control` | pass | all conversations of the cores, with all faults at any point |
| `sync` | pass | tasks inserted, rewritten, run, stopped and reset in any order: the search finds its task, the heap stays one, events are in order |
| `sync_order` | violation | a rewritten offset makes the next schedule compute an event for a time that is past |
| `pins` | pass | puts of two cores and the handler in any order: levels, directions, buffers, polarity |
| `pins_dir` | violation | core0 and core1 toggle the same direction bit, and a task's pin ends as an input |
| `edges` | pass | edges, enable writes, resets and the handler in any order: nothing lost, doubled, reordered or invented |

Each violation is an entry of `findings` in `PROJECT.json`, which quotes the line
that says otherwise.

Most properties of `control`, `pins` and `edges` hold until a fault occurs that
breaks them, and each names those faults. In `Control`:

| property | survives |
|---|---|
| `TypeOK` (queue capacities included) | every fault |
| `NoMessageDropped`, `AnswersMatch`, `AcksAreHonestUnlessReset`, `IdleMeansStopped`, `EndIsReported`, `FailureIsCleared` | missed deadlines |
| `StartsSomething` | resets alone, or late answers alone |
| `RunsWhatWasAccepted`, `BusyMeansRunningOnceReady` | none |

`AnswersMatch` says what a host may conclude from an answer. That of a START is core1's report of this
START. That of a STOP may be the report that the schedule ended by itself: `write_pwm_state()` cannot tell
them apart. It is core1's last word all the same, and no second READY stays behind for the next command.
`EndIsReported` is about the EVENT of schedules that play to their end. A schedule that fails ends in RESET, for which
`update_app_state()` clears the register and sends no EVENT (`cuttlefish_app.cpp:288-292`), although its comment
speaks of schedules that are "finished" (`:286-287`) and `device.yml:61-62` of an event "when the pwm
schedule has finished": `FailureIsCleared` is all that holds.

In `PortPins` (two changes of a direction `overlap`; an alarm is cancelled while the handler runs, `caught`, or
after its interrupt is `latched`; the host makes a task's pin an input, `dir`, or
writes its level, `meddle`; it changes invert of a task, `flip`; the settings queue is
`full`; a schedule `failed`; `reset`):

| property | broken by exactly |
|---|---|
| `PutsTakeEffect`, `StoppedIsLow` | meddle, caught, latched, reset |
| `DirectionsAgree` | overlap, dir, failed, reset |
| `OutputsWereAskedFor` | full, failed |
| `PolarityAsSet` | flip, failed, reset |

In `EdgeCapture` (`fast`: an edge between the handler's read and its clear; `glitch`:
a pin changes twice before the handler reads; `flood`: the queue is full;
`stale`: an edge is enabled while older ones of its pin are held; `mute`; `reset`):

| property | broken by exactly |
|---|---|
| `EdgesAreKept` | fast, glitch, flood, mute |
| `NothingInvented` | stale |
| `HostKnowsLevels`, `HostLearnsLevels` | all but reset |

These limits are sharp: with any fault that a property exempts admitted, TLC finds the
property violated, and with the others it holds (in `Control`, for every combination
of faults; in the other two a history has one kind of trouble, any number of times).
That puts of levels never overlap on a pin is part of `PutsTakeEffect`, not assumed.
`sync` has two preconditions. `moved = {}` is what `sync_order` is about. `TwoPhases`:
two pins with an on duration of zero come due again at the time just computed, more often
than the loop of `update()` has rounds, and the same time is computed twice.

The same models show further ways in which the code falls short of its comments; none
has a run of its own, and each is reproduced by the change named:

- `KeepsUp = FALSE` in `keeps_up`, invariant
  `state = "RUNNING" /\ alarm # Unarmed /\ After(now, alarm) => failed`: a deadline that
  passes between its test and the write of the alarm register goes undetected, though
  the comment at `pwm_scheduler.cpp:146` says "detect if we have fallen behind".
- The same, invariant `pc1 \in {"setnext", "setflag", "arm"} => \A i \in DOMAIN queue : queue[i] # batch`: the
  handler clears `alarm_queued_` between the two tests of `update()`, and an event is both queued and armed.
- The same, invariant `FinishedMeansDone`: `finished()` looks at the event queue and the alarm only
  (`pwm_scheduler.h:63`). When the handler applies the last queued event before core1 computes the
  next, a schedule is "done executing" (`:59`) in the middle of its pulses, and `run_task_loop()` stops it.
- The same, invariant `state = "READY" /\ pc1 = "loop" => ~failed`: a deadline missed in the
  last `update()` before `stop()` leaves `schedule_failed` set, and the next schedule is
  reset at once.
- A train whose offset is more than half of `UintRange` violates `NoFalseAlarm`:
  the signed difference takes its first event for a past one, and the schedule fails.
- `state = "READY" => port = InitialPort(task)` in `sync`: a task rewritten to another starting level
  leaves the aggregated port state as it was, though "first GPIO state is pre-set" (`pwm_scheduler.cpp:75`).
- The fault "late" admitted in `AnswersMatch`: an answer after the timeout is taken
  for the next command's.
- The fault "failure" admitted in `StartsSomething`: a STOP that crosses a failure
  consumes the RESET report without clearing `pwm_ready`; the next START plays no task.
- `BusyMeansRunning` in `control`, `Faults = {}`: a START refused for want of settings leaves
  `pwm_state` set (`cuttlefish_app.cpp:155`), and settings are then refused as busy while
  core1 is not ("Error if core1 is busy", `:193`).
- `AcksAreHonest` in `control`, `Faults = {"reset"}`: `reset_app()` clears `pwm_state` while core1
  plays on; a STOP is then acknowledged as a repetition and the schedule plays on
  ("Write zero to stop the schedule", `device.yml:61-62`).
- `StoppedIsLow` in `pins` without its exemption of `meddle`: `port_dir` includes the PWM
  pins, so that a write of PinState drives them too; without that of `caught` or `latched`: the handler outlives
  `stop()`, the race of `stop_race` as the pins see it.
- `PolarityAsSet` in `pins` without its exemption of `flip`: a new invert setting of a task that
  exists is stored and never applied, though `update_waveform.py` tells hosts to rewrite settings;
  without that of `reset`, `reset_app()` reinitialises the pads of tasks that play on.
- `OutputsWereAskedFor` in `pins` without its exemption of `full`: a settings write refused by a
  full queue has made the pin an output already; without that of `failed`, the destructor leaves
  `port_dir`, buffer and inversion behind, and the next direction write drives the pin again.
- `EdgesAreKept` in `edges` without its exemption of `fast`: an edge between the handler's read
  and its clear is gone, though the comment at `cuttlefish_app.cpp:250` says "since we dealt
  with all pin changes"; without that of `flood`: events are dropped silently, though the comment
  at `:259` speaks of a warning.
- `pc0 # "panic"` in `edges`: each `reset_app()` attaches the handler again ("Detach any
  existing interrupt handlers", `:332`, only disables the interrupts). One interrupt then costs
  as many events as there are handlers, and the SDK panics when its slots are used up.
- `pc0 = "idle" => inte = enabled` in `edges`: `reset_app()` disables the interrupts and keeps the
  enable registers.

### Bounds

- `UintRange` is 8, 16 or 32. Durations are a few ticks, so that schedules
  cross the wrap (`PolledTasks` starts anywhere in the range; in `PWMScheduler`
  endless and repeated schedules get there), and all spans stay below half of the
  range, as the signed comparison needs.
- `NumTTLIOs` is 2 where the code has 8: the deque fills, empties and is refilled
  within one train, and a train of two pulses has more events than `start()`
  computes, which is when handler and core1 meet. `keeps_up` has two pins, with
  trains that meet and part, end and go on; `two_cores` has one pin and all interleavings. Its constraint
  `CancelSafe` cuts only behaviours of which its temporal properties say nothing. `stranded` has room for three
  events, so that nothing but the race can hold up its single pulse.
- `Horizon` bounds how long a polled schedule is followed: longer than every
  counted train and than several periods of an endless one. The tasks of
  `PolledTasks` do not interact, so one pin is enough there.
- The queues of `Control` hold two messages. `NoMessageDropped` shows that no
  more than two are ever needed without a reset or a late answer, so 8 is enough; after
  those they do fill, and messages are dropped. The settings queue fills too. One pin
  with two configurations has rewrites and overtaking; pins do not interact in `Control`.
- `sync` has three tasks: the least with which the heap has two branches and
  a task may be found behind two others. `NumTTLIOs` is 3, so that the loop of
  `update()` uses all its rounds. Schedules start just below the wrap.
- `pins` has two pins, one of them with tasks of either polarity, and a settings queue
  of one entry, which fills. `MaxTroubles` is 1: each history has one kind of trouble, any
  number of times.
- `edges` has a pin watched on both edges and one on rising edges only, a queue of one event,
  which overflows, and three slots for handlers: the first `reset_app()`, and two more.
  `MaxTroubles` is 1.

None of these bounds is in the theorems: they hold for all pins, capacities, batch sizes and
numbers of troubles, and for every timer that is wide enough for the trains where §4 says so.

### Fairness

Each loop runs for ever (`while (true)` in `main.cpp:66` and
`core1_main.cpp:151`), an enabled interrupt is taken, and the timer counts:
weak fairness of core1's steps, the handler's, core0's own steps and the tick.
In `EdgeCapture` the drain of an event is strongly fair: every `app.run()` of core0's loop
calls `update_app_state()`, so that a host that keeps writing enable registers delays
events and cannot starve them.
What the host does, and whether a schedule ends, is never assumed.

## 4. Proofs

Every invariant and every action property that a passing run checks is a theorem too (`AlarmExclusion` as
`ExclusionUnlessRaced`, on two cores that need not keep up), and so is
the refinement; TLC agreed first with each inductive invariant. Unless a hypothesis is named, a
theorem holds for all values of the constants that satisfy the modules' assumptions.

### The scheduler, in every regime (`PWMSchedulerProofs`)

- `TypeCorrect`: `Spec => []TypeOK`. Its content is the bound on the deque:
  `update()` looks for room long before it appends. The invariant `TypeInv` adds
  that there is room from the test to the append: only core1 appends, and the handler only removes.
- `Exclusion` (`ExclusionUnlessRaced`): if `cancel_alarm()` never meets a handler that runs or is about
  to (`CancelSafe`), then `alarm_queued_` is a lock between the two cores, however `update()` and the handler
  interleave. `AlarmExclusion` is not inductive: that core1 may write the alarm needs that the flag was seen
  clear, that only core1 sets it, and that while it is clear nothing can make
  the handler run. `LockInv` says so. `stop_race` shows that nothing in the firmware ensures the hypothesis;
  the theorem says that nothing else can break the lock: with a `cancel_alarm()` that waits for
  the handler and takes back its interrupt, the two cores would have it.
- `Pops`, `StoppedQuiet`: under the same hypothesis the handler pops the
  event it loaded (appending leaves the head in place), and a stopped schedule is quiet
  (`QuietInv` adds that every pin that is HIGH, or that a port state on its way would drive
  HIGH, has a task, so that `stop()` and `reset()`, which turn the tasks' pins LOW, leave none).

### A scheduler that keeps up (`TimelineProofs`)

Hypotheses: `KeepsUp`, `~MayStop` and `Short(M)`: no phase is longer than M, and
`2 * (NumTTLIOs + 2) * M <= UintRange`, room for all events that may lie ahead at once.
`keeps_up.cfg` satisfies it with M = 2; with eight pins and the timer of 2^32 microseconds
M is up to 214 seconds. The invariant `KeepUpInv` has three parts beside those above:

- `TurnInv`: whose turn it is. While core1 is between two tests of `alarm_queued_`, the
  handler has either more events to come for or has released the alarm for good.
- `HandInv`: the event in the deque, in the handler's hands, in the next port state and in the alarm
  register is the same one.
- `ChainInv`: there is a history of tasks that leads from `shown` to `task`, one entry per event
  armed, queued or being added, each event being the earliest step from its entry to the
  next. The handler takes the first link, `update()` adds one at the end, and because the chain
  is short no time in it is more than half of the range ahead.

From it follow `NoFalseAlarms`, `FinishedIsDone`, `EventsComeInOrder`, and
`PortIsPolled`: `PWMScheduler` implements `PolledTasks`. `IsrApply` maps to a poll,
`SchedulePwmTask`, `StartSchedule`, `StopTasks` and `Tick` to the steps of the same meaning, and every
other step to a stutter.

### The waveform (`PolledTasksProofs`)

`EveryWaveInClosedForm` states `WaveformInClosedForm` under `Fits`: offset and phases are at most
half of the range, and a schedule is followed for less than one turn of the timer (`polled.cfg`
satisfies it). `WaveInv` gives the begin and the end of a task's phase as natural
numbers since the start, of which `next` is the remainder. `PolledTypes`: types in every case.
`PWMTaskProofs` has `UpdatesBeforeAsymmetric`: the order of the heap is asymmetric for all times. It
is not transitive over spans beyond half the range, which is why schedules must be short against it.

Together with `PortIsPolled`: for short trains and cores that keep up, every pin shows the closed
form. The conjunction is not a theorem of its own, since the two modules bound the time differently.

### The conversation of the cores (`ControlProofs`)

`ControlTypes` holds with all faults. The others are about the faults of the table in §3, and
rest on one invariant:

- `CoreInv`: what core1's `state`, its intention `goal` and the schedule may be at each of its statements.
- `FailureInv`: a RESET of core1 comes from a missed deadline.
- `TalkInv`: without resets and late answers the two queues, both cores and the command
  last sent are in one of a few *phases* (`InPhase`: started, end reported, STOP sent, and so on). Each
  action leads from phase to phase; that no queue ever holds more than two messages is read
  off the list, and with it `NothingDropped`, `AnswersBelong`, `AcksHonest` and `IdleIsStopped`.
- `BusyInv`, `SettingsInv`, `FirstInv`: without failures no START is lost; the last queued settings of a pin
  are the accepted ones, or none is queued and its task has them (`PlaysWhatWasAccepted`); before the
  first task nothing asks for a start (`StartsWithTask`, with resets alone or late answers alone).

### The priority queue (`SyncScheduleProofs`)

- For all settings and times: `NoTaskLost` (a sift, popping and pushing back neither lose nor
  double a task) and `LastSettingsHold`, from `BaseInv`: the search ends at the pin's task, since the queue holds
  every task of a core1 in READY (`ReadyInv`), in whatever order; so the task rewritten is the pin's, and a new one is
  made only for a pin that has none.
- Under `Brief(M)` (no phase is longer than M, and `2 * M < UintRange`: any train with phases below half
  of the timer's range, M = 3 in `sync.cfg`): `QueueInOrder`, `DueTogether` and `EventsMoveOn`, from
  `OrderInv` and `AheadInv`. The signed order is not transitive, so the heap is compared by *rank*:
  the distance of a task's next update from a reference time no task precedes. A sift
  keeps the heap in order except at one hole (`HoleAt`, `NearlyUp`). The loop of `update()` has updated
  exactly its mask after each round (`Exact`); each round adds a pin, so that `NUM_TTL_IOS` rounds are enough.

`DueTogether` is the licence of `PWMScheduler` to take `pq_` for a set.

What loops compute needs induction over data. The library's induction theorems take an operator as
a parameter and cannot be used, so the proofs go through sets instead: the set of naturals at
which a statement fails has no least element (`LeastNat`, `NatInductionSet`, from the library's
well-foundedness of < on the naturals), and a loop's function exists by the same argument (`NatRecursion`,
`LoopExists`, `LoopInduction`).

### The pins (`PortPinsProofs`)

`PinTypes` holds in every case; the others exempt the troubles of the table in §3.

- `OutputsHoldWhatWasPut`: what a put of levels has read is still true of its own bits when it toggles them (`Stands`).
  This is not assumed of puts, it follows from the masks and the order of the code (`LevelInv`): core0 puts
  to pins that no task claims, core1 to pins of tasks, and the handler runs only while core1 has nothing to put. Directions
  have no such order (`pins_dir`): for them `PutInv` says, without overlaps, what `Stands` says of levels.
- `PinsFollowTheRegister`: pins, buffers and register differ at most in the pin whose task core1 is constructing
  (`Pending`) and in what core0 is about to put, which is the register itself.
- `NoStrayOutputs` (`AskedInv`), `PadsFollowSettings` (settings on their way to a task agree on its polarity,
  `Agree`) and `TasksRestLow` (which pins core1 has lowered at each of its statements, `Lowered`, from `LevelInv`).

### Edges (`EdgeCaptureProofs`)

- `CaptureTypes`, `EveryEdgeIsKept`, `NoEdgeIsInvented`: for any pins, capacities and number of
  attached handlers, and all troubles in any number. The two bounds on what is on its way are
  proved together (`CountInv`), by the count of events that hold an edge and what `Append`
  and `Tail` do to it. Neither is inductive alone: they need that only edges the host asked for
  are due (`OnlyAskedAreDue`), and that no edge interrupts before a handler is attached
  (`NoInterruptUnhandled`), for an acknowledgement in `reset_app()` would lose it.
- `HostFollowsPins`: the invariant `LevelInv` says that the events on their way *lead* from the level
  the host knows to the pin's: there is a chain of levels, one per queued event and one for
  the latch, each event holding exactly the edge between its neighbours. A pin change
  extends the last link, the handler makes the latch a queued event, or joins an empty one to it,
  and the drain moves the host along the first link. `RegistersInv` (between enable writes every
  edge that interrupts is enabled in the register) makes sure that a pin starts to be
  watched only at the step that hands its level to the host.

### Assumptions, and what is not proved

Assumed are the `ASSUME`s of the modules: `UintRange` at least 2; pins finite, no more
than the capacity of the deque, and natural numbers (above zero in `PortPins`); phases of at least one tick in
`PWMScheduler`; the control and answer queues of `Control` hold at least two messages (the code's hold
8); other capacities are above zero. Beyond these there are only the hypotheses named above.

Model-checked only:

- `CountedScheduleEnds`, `EndsUnlessStranded`, `CountedTrainsEnd`, `EndIsReported`, `FailureIsCleared`,
  `HostLearnsLevels`: liveness, and with it ENABLED, is out of the prover's reach.
- The five violations, and that the exemptions of §3 are sharp: these are counterexamples.

For a core1 that falls behind, or a STOP in the middle of a schedule, only the theorems of
`PWMSchedulerProofs` hold; `stop_race`, `stranded` and the list in §3 show what fails then.

## 5. Not modelled

The Harp core library and `etl`, submodules that are not in this repository (the priority
queue is modelled from its use and its documented contract, as external). Reads of registers,
time stamps, LEDs, UART and the clock synchroniser: no decision depends on them. Handlers
of the register table that `cuttlefish_app.h` declares are those of `cuttlefish_app.cpp`; the
table itself is data. The host interfaces under `src/software`, generated from `device.yml`, the
examples and the hardware design: data and scripts with no protocol of their own.

`Control` and `PortPins` are not composed with `PWMScheduler`: each takes of the schedule what
it needs (idle, playing, ended; any levels) as nondeterminism.

## 6. Plan

1. A schedule specification with idle, playing, ended and failed, implemented by
   `PWMScheduler` and used by `Control`.
2. Proofs: the timeline with a STOP in the middle of a schedule (`MayStop`), under `CancelSafe`;
   `PolledTasks` and `PortIsPolled` joined into one theorem about the pins of the firmware.
3. A theorem that ties `DueTogether` to `UpdateBatch` of `PWMScheduler` step by step, rather than by
   the correspondence of the two modules' text.
