---------------------------- MODULE PWMScheduler ----------------------------
(***************************************************************************)
(* The schedule of firmware/src/pwm_scheduler.cpp, the core1 loop of        *)
(* firmware/src/core1_main.cpp that drives it, the timer alarm and the      *)
(* interrupt handler set_new_ttl_pin_state().                              *)
(*                                                                         *)
(* Two threads share the event queue, the next port state, alarm_queued_    *)
(* and the alarm register, with no lock: core1, which computes port events  *)
(* ahead of time, and the handler, which applies them.  Each statement of   *)
(* either that touches a shared location is an action of its own.  The      *)
(* handler runs on the core that ran the PWMScheduler constructor, which    *)
(* enabled the interrupt: core0 in the firmware (the scheduler is a global, *)
(* core1_main.cpp:5), so that it runs in parallel with core1.  In           *)
(* tests/schedule it preempts the loop on the only core, which is one of    *)
(* these interleavings.                                                    *)
(*                                                                         *)
(* An insertion into the deque and a removal are each taken as atomic: the  *)
(* container is not part of the repository, and whether the size that both  *)
(* sides count up and down survives two cores is a question about it.       *)
(***************************************************************************)
EXTENDS PWMTask, Sequences, FiniteSets

CONSTANTS
  Pins,          \* pins that may get a task
  TaskSettings,  \* the settings the host may choose from
  NumTTLIOs,     \* NUM_TTL_IOS: event queue capacity, update() calls of start()
  KeepsUp,       \* time passes only while neither thread has anything left to do
  MayStop        \* the host may send STOP while the schedule runs

ASSUME PinsAssumption ==
  IsFiniteSet(Pins) /\ NumTTLIOs \in Nat \ {0} /\ Cardinality(Pins) <= NumTTLIOs
\* Both phases of a period last at least a microsecond.
ASSUME SettingsAssumption ==
  /\ TaskSettings \subseteq Settings
  /\ \A s \in TaskSettings : 0 < s.on /\ s.on < s.period
ASSUME RegimeAssumption ==
  KeepsUp \in BOOLEAN /\ MayStop \in BOOLEAN

VARIABLES
  \* core1 only
  state,         \* core1_state_t
  pc1,           \* where core1 is in run_task_loop() and what it calls
  goal,          \* next_state of the current iteration
  calls,         \* calls of update() left in this iteration
  batch,         \* the port event update() just computed
  failed,        \* schedule_failed
  task,          \* pwm_tasks_: the task of each pin that has one
  pq,            \* pq_: the pins whose task is in the priority queue
  \* shared with the handler
  queue,         \* port_event_queue_, oldest event first
  nextPort,      \* next_gpio_port_mask_ and next_gpio_port_state_
  alarmQueued,   \* alarm_queued_
  \* the handler
  isr,           \* where set_new_ttl_pin_state() is
  isrEvent,      \* next_port_event
  \* the hardware
  now,           \* timerawl
  alarm,         \* the armed alarm's time, or Unarmed
  irq,           \* the latched alarm interrupt
  gpio,          \* the pins driven HIGH
  \* history
  shown          \* each task as the port shows it: the updates already applied

core1Vars == <<state, pc1, goal, calls, batch, failed, task, pq>>
sharedVars == <<queue, nextPort, alarmQueued>>
isrVars == <<isr, isrEvent>>
timerVars == <<now, alarm, irq>>
portVars == <<gpio, shown>>
vars == <<core1Vars, sharedVars, isrVars, timerVars, portVars>>

Unarmed == -1
NoPort  == [mask |-> {}, state |-> {}]
NoEvent == [mask |-> {}, state |-> {}, time |-> 0]
NoTasks == [p \in {} |-> 0]

HighAtStart(ts) == {p \in DOMAIN ts : StartingState(ts[p]) = "HIGH"}
\* Mutant: stop() does not set the levels to start with.
InitialPortLow(ts) == [mask |-> DOMAIN ts, state |-> {}]

\* The port state that schedule_pwm_task() and stop() aggregate for start().
InitialPort(ts) == [mask |-> DOMAIN ts, state |-> HighAtStart(ts)]

ResetAll(ts) == [p \in DOMAIN ts |-> Reset(ts[p])]
Drive(port) == (gpio \ port.mask) \cup port.state

Init ==
  /\ state = "READY" /\ pc1 = "loop" /\ goal = "READY" /\ calls = 0
  /\ batch = NoEvent /\ failed = FALSE /\ task = NoTasks /\ pq = {}
  /\ queue = <<>> /\ nextPort = NoPort /\ alarmQueued = FALSE
  /\ isr = "idle" /\ isrEvent = NoEvent
  /\ now = 0 /\ alarm = Unarmed /\ irq = FALSE
  /\ gpio = {} /\ shown = NoTasks

At(label) == pc1 = label
-----------------------------------------------------------------------------
(***************************************************************************)
(* Writing the alarm register arms the alarm for the next time the timer    *)
(* equals it.  Whether it still fires when the timer shows that value       *)
(* already depends on when in the microsecond the write lands.              *)
(***************************************************************************)
WriteAlarm(time) ==
  \/ alarm' = time /\ UNCHANGED irq
  \/ time = now /\ alarm' = Unarmed /\ irq' = TRUE

\* Mutant: finished() looks at the queue only.
FinishedByQueue == queue = <<>>

Finished == queue = <<>> /\ ~alarmQueued

\* Mutant: one event too many.
QueueOverfull == Len(queue) > NumTTLIOs

QueueFull == Len(queue) = NumTTLIOs

\* schedule_pwm_task(): a new task for a pin that has none.
SchedulePwmTask(p, s) ==
  /\ At("loop") /\ state = "READY"
  /\ p \notin DOMAIN task
  /\ task' = [q \in DOMAIN task \cup {p} |->
                IF q = p THEN NewTask(s) ELSE task[q]]
  /\ shown' = task'
  /\ pq' = pq \cup {p}
  /\ nextPort' = [mask  |-> nextPort.mask \cup {p},
                  state |-> nextPort.state \cup HighAtStart([q \in {p} |-> s])]
  /\ gpio' = gpio \ {p}
  /\ UNCHANGED <<state, pc1, goal, calls, batch, failed, queue, alarmQueued,
                 isrVars, timerVars>>

\* start(): starting levels to the port, times set, then NUM_TTL_IOS updates.
StartSchedule ==
  /\ At("loop") /\ state = "READY"
  /\ gpio' = Drive(nextPort)
  /\ task' = [p \in DOMAIN task |-> StartedAt(task[p], now)]
  /\ shown' = task'
  /\ goal' = "RUNNING" /\ calls' = NumTTLIOs /\ pc1' = "update"
  /\ UNCHANGED <<state, batch, failed, pq, sharedVars, isrVars, timerVars>>

\* The top of run_task_loop() in RUNNING: the next state, then update().
RunLoop ==
  /\ At("loop") /\ state = "RUNNING"
  /\ \E stop \in {MayStop, FALSE} :
       goal' = IF failed THEN "RESET"
               ELSE IF Finished \/ stop THEN "READY" ELSE "RUNNING"
  /\ calls' = 1 /\ pc1' = "update"
  /\ UNCHANGED <<state, batch, failed, task, pq, sharedVars, isrVars,
                 timerVars, portVars>>

AfterUpdate ==
  /\ calls' = calls - 1
  /\ pc1' = IF calls = 1 THEN "exit" ELSE "update"

\* update() bails out early.
UpdateSkip ==
  /\ At("update") /\ (QueueFull \/ pq = {})
  /\ AfterUpdate
  /\ UNCHANGED <<state, goal, batch, failed, task, pq, sharedVars, isrVars,
                 timerVars, portVars>>

\* Mutant: the heap does not order the tasks.
AnyTask == pq

\* The tasks of the priority queue with the earliest update time.
Earliest ==
  {p \in pq : \A q \in pq : ~UpdatesBefore(task[q], task[p])}

\* update(): every task due at the earliest time makes its step, together.
UpdateBatch ==
  /\ At("update") /\ ~QueueFull /\ pq # {}
  /\ \E top \in Earliest :
       LET T   == task[top].next
           due == {p \in pq : task[p].next = T}
       IN /\ task' = [p \in DOMAIN task |->
                        IF p \in due THEN Update(task[p]) ELSE task[p]]
          /\ batch' = [mask  |-> due, time |-> T,
                       state |-> {p \in due : task'[p].state = "HIGH"}]
          /\ pq' = {p \in pq : p \in due => RequiresFutureUpdate(task'[p])}
  /\ pc1' = "queued"
  /\ UNCHANGED <<state, goal, calls, failed, sharedVars, isrVars, timerVars,
                 portVars>>

\* update(): queue the event if the handler is armed and will come for it.
TestQueued ==
  /\ At("queued")
  /\ pc1' = IF alarmQueued THEN "emplace" ELSE "deadline"
  /\ UNCHANGED <<state, goal, calls, batch, failed, task, pq, sharedVars,
                 isrVars, timerVars, portVars>>

Emplace ==
  /\ At("emplace")
  /\ queue' = Append(queue, batch)
  /\ pc1' = "deadline"
  /\ UNCHANGED <<state, goal, calls, batch, failed, task, pq, nextPort,
                 alarmQueued, isrVars, timerVars, portVars>>

\* handle_missed_deadline() when the event's time lies in the past.
CheckDeadline ==
  /\ At("deadline")
  /\ failed' = (failed \/ After(now, batch.time))
  /\ pc1' = "rearm"
  /\ UNCHANGED <<state, goal, calls, batch, task, pq, sharedVars, isrVars,
                 timerVars, portVars>>

\* The handler works off queued events and re-arms itself, or core1 must arm.
TestRearm ==
  /\ At("rearm")
  /\ IF alarmQueued
     THEN AfterUpdate /\ batch' = NoEvent
     ELSE pc1' = "setnext" /\ UNCHANGED <<calls, batch>>
  /\ UNCHANGED <<state, goal, failed, task, pq, sharedVars, isrVars,
                 timerVars, portVars>>

SetNextPort ==
  /\ At("setnext")
  /\ nextPort' = [mask |-> batch.mask, state |-> batch.state]
  /\ pc1' = "setflag"
  /\ UNCHANGED <<state, goal, calls, batch, failed, task, pq, queue,
                 alarmQueued, isrVars, timerVars, portVars>>

SetAlarmQueued ==
  /\ At("setflag")
  /\ alarmQueued' = TRUE
  /\ pc1' = "arm"
  /\ UNCHANGED <<state, goal, calls, batch, failed, task, pq, queue, nextPort,
                 isrVars, timerVars, portVars>>

ArmAlarm ==
  /\ At("arm")
  /\ WriteAlarm(batch.time)
  /\ AfterUpdate /\ batch' = NoEvent
  /\ UNCHANGED <<state, goal, failed, task, pq, sharedVars, isrVars, now,
                 portVars>>

\* Mutant: only a STOP of the host stops the schedule, not its own end.
LoopEndByStop ==
  /\ At("exit")
  /\ IF state = "RUNNING" /\ goal = "READY" /\ ~Finished
     THEN pc1' = "cancel" /\ UNCHANGED state
     ELSE pc1' = "loop" /\ state' = goal
  /\ UNCHANGED <<goal, calls, batch, failed, task, pq, sharedVars, isrVars,
                 timerVars, portVars>>

\* The end of run_task_loop(): stop() on the way from RUNNING to READY.
LoopEnd ==
  /\ At("exit")
  /\ IF state = "RUNNING" /\ goal = "READY"
     THEN pc1' = "cancel" /\ UNCHANGED state
     ELSE pc1' = "loop" /\ state' = goal
  /\ UNCHANGED <<goal, calls, batch, failed, task, pq, sharedVars, isrVars,
                 timerVars, portVars>>

\* run_task_loop() in RESET calls reset().
RunReset ==
  /\ At("loop") /\ state = "RESET"
  /\ failed' = FALSE /\ goal' = "READY" /\ pc1' = "cancel"
  /\ UNCHANGED <<state, calls, batch, task, pq, sharedVars, isrVars,
                 timerVars, portVars>>

\* cancel_alarm(), its two statements; disarming leaves a latched interrupt.
Disarm ==
  /\ At("cancel")
  /\ alarm' = Unarmed
  /\ pc1' = "unflag"
  /\ UNCHANGED <<state, goal, calls, batch, failed, task, pq, sharedVars,
                 isrVars, now, irq, portVars>>

ClearAlarmQueued ==
  /\ At("unflag")
  /\ alarmQueued' = FALSE
  /\ pc1' = "clear"
  /\ UNCHANGED <<state, goal, calls, batch, failed, task, pq, queue, nextPort,
                 isrVars, timerVars, portVars>>

\* The rest of stop(): outputs LOW, tasks as if inserted for the first time.
StopTasks ==
  /\ At("clear") /\ state = "RUNNING"
  /\ task' = ResetAll(task)
  /\ pq' = DOMAIN task
  /\ queue' = <<>>
  /\ nextPort' = InitialPort(task)
  /\ gpio' = gpio \ DOMAIN task
  /\ shown' = task'
  /\ state' = "READY" /\ pc1' = "loop"
  /\ UNCHANGED <<goal, calls, batch, failed, alarmQueued, isrVars, timerVars>>

\* The rest of reset(): the tasks are destroyed, their pins LOW.
ClearTasks ==
  /\ At("clear") /\ state = "RESET"
  /\ task' = NoTasks
  /\ pq' = {}
  /\ queue' = <<>>
  /\ nextPort' = NoPort
  /\ gpio' = gpio \ DOMAIN task
  /\ shown' = NoTasks
  /\ state' = "READY" /\ pc1' = "loop"
  /\ UNCHANGED <<goal, calls, batch, failed, alarmQueued, isrVars, timerVars>>
-----------------------------------------------------------------------------
(***************************************************************************)
(* set_new_ttl_pin_state().                                                 *)
(***************************************************************************)
IsrApply ==
  /\ irq /\ isr = "idle"
  /\ gpio' = Drive(nextPort)
  /\ shown' = [p \in DOMAIN shown |->
                 IF p \in nextPort.mask THEN Update(shown[p]) ELSE shown[p]]
  /\ isr' = "ack"
  /\ UNCHANGED <<core1Vars, sharedVars, isrEvent, timerVars>>

IsrAck ==
  /\ isr = "ack"
  /\ irq' = FALSE
  /\ isr' = "test"
  /\ UNCHANGED <<core1Vars, sharedVars, isrEvent, now, alarm, portVars>>

\* Mutant: the handler takes the newest event.
IsrTakesNewest ==
  /\ isr = "test"
  /\ IF queue = <<>>
     THEN isr' = "release" /\ UNCHANGED isrEvent
     ELSE isr' = "load" /\ isrEvent' = queue[Len(queue)]
  /\ UNCHANGED <<core1Vars, sharedVars, timerVars, portVars>>

IsrTestEmpty ==
  /\ isr = "test"
  /\ IF queue = <<>>
     THEN isr' = "release" /\ UNCHANGED isrEvent
     ELSE isr' = "load" /\ isrEvent' = Head(queue)
  /\ UNCHANGED <<core1Vars, sharedVars, timerVars, portVars>>

\* Mutant: alarm_queued_ stays set.
IsrKeepsFlag ==
  /\ isr = "release"
  /\ isr' = "idle"
  /\ UNCHANGED <<core1Vars, sharedVars, isrEvent, timerVars, portVars>>

\* Nothing queued: core1 must populate the next port state and re-arm.
IsrRelease ==
  /\ isr = "release"
  /\ alarmQueued' = FALSE
  /\ isr' = "idle"
  /\ UNCHANGED <<core1Vars, queue, nextPort, isrEvent, timerVars, portVars>>

IsrLoad ==
  /\ isr = "load"
  /\ nextPort' = [mask |-> isrEvent.mask, state |-> isrEvent.state]
  /\ isr' = "arm"
  /\ UNCHANGED <<core1Vars, queue, alarmQueued, isrEvent, timerVars, portVars>>

IsrArm ==
  /\ isr = "arm"
  /\ WriteAlarm(isrEvent.time)
  /\ isr' = "pop"
  /\ UNCHANGED <<core1Vars, sharedVars, isrEvent, now, portVars>>

\* Mutant: the handler gives up alarm_queued_ though it re-armed.
IsrPopReleases ==
  /\ isr = "pop"
  /\ queue' = IF queue = <<>> THEN <<>> ELSE Tail(queue)
  /\ alarmQueued' = FALSE
  /\ isrEvent' = NoEvent /\ isr' = "idle"
  /\ UNCHANGED <<core1Vars, nextPort, timerVars, portVars>>

\* pop_back(); popping a queue that stop() or reset() emptied is undefined,
\* the model leaves it empty (PopsWhatItRead says when that can happen).
IsrPop ==
  /\ isr = "pop"
  /\ queue' = IF queue = <<>> THEN <<>> ELSE Tail(queue)
  /\ isrEvent' = NoEvent /\ isr' = "idle"
  /\ UNCHANGED <<core1Vars, nextPort, alarmQueued, timerVars, portVars>>

Isr == \/ IsrApply \/ IsrAck \/ IsrTestEmpty \/ IsrRelease
       \/ IsrLoad \/ IsrArm \/ IsrPop
-----------------------------------------------------------------------------
\* Neither the handler nor core1 has anything to do at this time: core1 waits
\* for the host, or its loop spins over a full queue or finished tasks.
CaughtUp ==
  /\ ~irq /\ isr = "idle"
  /\ \/ state = "READY" /\ pc1 = "loop"
     \/ /\ goal = "RUNNING" /\ pc1 \in {"loop", "update", "exit"}
        /\ ~failed /\ ~Finished
        /\ QueueFull \/ pq = {}

\* A microsecond passes; an alarm set for the new time fires and disarms.
Tick ==
  /\ KeepsUp => CaughtUp
  /\ now' = Plus(now, 1)
  /\ IF alarm = now' THEN irq' = TRUE /\ alarm' = Unarmed
                     ELSE UNCHANGED <<irq, alarm>>
  /\ UNCHANGED <<core1Vars, sharedVars, isrVars, portVars>>

Update1 == \/ UpdateSkip \/ UpdateBatch \/ TestQueued \/ Emplace
           \/ CheckDeadline \/ TestRearm \/ SetNextPort \/ SetAlarmQueued
           \/ ArmAlarm

\* What core1 does without waiting for the host.
Core1Busy ==
  \/ RunLoop \/ Update1 \/ LoopEnd \/ RunReset
  \/ Disarm \/ ClearAlarmQueued \/ StopTasks \/ ClearTasks

Next ==
  \/ \E p \in Pins, s \in TaskSettings : SchedulePwmTask(p, s)
  \/ StartSchedule
  \/ Core1Busy
  \/ Isr
  \/ Tick

Spec == Init /\ [][Next]_vars

\* Both cores keep executing and the timer keeps counting; a start is the
\* host's choice and never owed.
FairSpec == Spec /\ WF_vars(Core1Busy) /\ WF_vars(Isr) /\ WF_vars(Tick)
-----------------------------------------------------------------------------
(***************************************************************************)
(* Properties.                                                             *)
(***************************************************************************)
PortEvent == [mask : SUBSET Pins, state : SUBSET Pins, time : Uint]

Core1TypeOK ==
  /\ state \in {"RESET", "READY", "RUNNING"} /\ goal \in {"RESET", "READY", "RUNNING"}
  /\ pc1 \in {"loop", "update", "queued", "emplace", "deadline", "rearm",
              "setnext", "setflag", "arm", "exit", "cancel", "unflag", "clear"}
  /\ calls \in 0 .. NumTTLIOs
  /\ batch \in PortEvent
  /\ failed \in BOOLEAN
  /\ DOMAIN task \subseteq Pins /\ task \in [DOMAIN task -> Task]
  /\ pq \subseteq DOMAIN task

SharedTypeOK ==
  /\ queue \in Seq(PortEvent) /\ Len(queue) <= NumTTLIOs
  /\ nextPort \in [mask : SUBSET Pins, state : SUBSET Pins]
  /\ alarmQueued \in BOOLEAN

HandlerTypeOK ==
  /\ isr \in {"idle", "ack", "test", "release", "load", "arm", "pop"}
  /\ isrEvent \in PortEvent

PortTypeOK ==
  /\ now \in Uint /\ alarm \in Uint \cup {Unarmed} /\ irq \in BOOLEAN
  /\ DOMAIN shown = DOMAIN task /\ shown \in [DOMAIN shown -> Task]
  /\ gpio \subseteq Pins

\* The types, the capacity of port_event_queue_ included: update() looks for
\* room (pwm_scheduler.cpp:107) long before it appends (:139).
TypeOK == Core1TypeOK /\ SharedTypeOK /\ HandlerTypeOK /\ PortTypeOK

\* The handler runs, or an alarm or a latched interrupt will make it run.
HandlerOwns == alarm # Unarmed \/ irq \/ isr # "idle"

\* alarm_queued_ works as a lock: while the handler runs or is about to, the
\* flag is set, and core1 writes the next port state and the alarm register
\* only while it is not (pwm_scheduler.cpp:158-165, 203-216).
AlarmExclusion ==
  /\ HandlerOwns => alarmQueued
  /\ pc1 \in {"setnext", "setflag", "arm"} => ~HandlerOwns

\* When cancel_alarm() clears alarm_queued_, disarming has really silenced the
\* handler: none runs and no interrupt was latched before (pwm_scheduler.cpp:188-192).
\* Nothing in the code makes it so: it is the hypothesis under which stop() and
\* reset() keep their promises, and cfg stop_race shows what happens without.
CancelSafe == pc1 = "unflag" => ~HandlerOwns

\* Once stop() or reset() returned, and until start(), nothing drives a pin:
\* every output is LOW and no alarm, interrupt or handler is on its way
\* (pwm_scheduler.h:41-54, pwm_task.h:50-54).
StoppedIsQuiet ==
  state = "READY" /\ pc1 = "loop" => gpio = {} /\ ~HandlerOwns

\* The event the handler pops is the one it loaded and armed: nobody emptied
\* or shifted the queue between back() and pop_back() (pwm_scheduler.cpp:210-216).
PopsWhatItRead ==
  isr \in {"load", "arm", "pop"} => queue # <<>> /\ Head(queue) = isrEvent

\* Two cores, any delay, STOP at any moment: the lock of alarm_queued_ holds
\* however update() and the handler interleave, unless cancel_alarm() takes it
\* from a handler on its way (pwm_scheduler.cpp:158-165, 203-216).
ExclusionUnlessRaced == []CancelSafe => []AlarmExclusion

\* Likewise for the quiet after stop() and reset(): an unsafe cancel_alarm() is
\* the only way in which a stopped output can be driven (pwm_scheduler.h:41-54).
QuietUnlessRaced == []CancelSafe => []StoppedIsQuiet

\* Likewise for the reference into the deque: core1 appends beside the handler,
\* and only an unsafe cancel_alarm() lets it clear (pwm_scheduler.cpp:39, 139, 172).
PopsUnlessRaced == []CancelSafe => []PopsWhatItRead

\* The port events computed and not yet applied, the next one first.
Pending ==
  (IF alarm # Unarmed /\ isr = "idle" THEN <<alarm>> ELSE <<>>)
  \o [i \in 1 .. Len(queue) |-> queue[i].time]
  \o (IF pc1 \in {"queued", "emplace", "setnext", "setflag", "arm"}
      THEN <<batch.time>> ELSE <<>>)

\* Port events are applied in time order and none twice: the armed one, the
\* queued ones, the one being added and those still to be computed have
\* strictly increasing times, through the timer's wrap.
EventsInOrder ==
  /\ \A i \in 1 .. Len(Pending) - 1 : After(Pending[i + 1], Pending[i])
  /\ Pending # <<>> =>
       \A p \in pq : After(task[p].next, Pending[Len(Pending)])

\* When core1 finds the schedule finished(), every task was played to its end
\* ("done executing the schedule and no longer needs to be updated",
\* pwm_scheduler.h:58-63).
FinishedMeansDone ==
  state = "RUNNING" /\ pc1 = "loop" /\ Finished =>
    \A p \in DOMAIN shown : shown[p].state = "DONE"

\* A schedule whose loop and handler keep up is never declared failed: the
\* deadline test takes no event of the future for one of the past
\* (pwm_scheduler.cpp:148-156).
NoFalseAlarm == KeepsUp => ~failed

\* start() was called, and neither stop() nor reset() since.
Active == state # "READY" \/ pc1 # "loop"

\* A started schedule of counted pulse trains ends by itself: core1 and the
\* handler never wait for each other, alarm_queued_ set and no alarm to come
\* (pwm_scheduler.cpp:158-165, 203-207).  True of cores that keep up; cfg
\* stranded shows a handler that is late between its two statements.
CountedScheduleEnds ==
  (Active /\ \A p \in DOMAIN task : task[p].count > 0) ~> ~Active

\* The handler gives up alarm_queued_ only while nothing is queued: core1 queued
\* no event since the handler looked (pwm_scheduler.cpp:138-139, 203-205).
HandedOver == isr = "release" => queue = <<>>

\* Missed deadlines, alarms a whole wrap late and events armed twice delay the
\* end of a counted schedule and no more: only an event queued in the middle of
\* the handler's hand-over, or an unsafe cancel_alarm(), can keep it from ending.
EndsUnlessStranded == [](CancelSafe /\ HandedOver) => CountedScheduleEnds

\* What the port shows is what the tasks would show had each been polled and
\* had it driven its pin at exactly its time: no port state is lost, late,
\* early, repeated or swapped.
Polled == INSTANCE PolledTasks
            WITH task <- shown, active <- Active, Horizon <- UintRange
PortFollowsTasks == Polled!Spec
=============================================================================
