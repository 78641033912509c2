------------------------ MODULE PWMSchedulerProofs ------------------------
(***************************************************************************)
(* Theorems about PWMScheduler, for every set of pins, every settings, every *)
(* capacity of the queue and every width of the timer.                     *)
(***************************************************************************)
EXTENDS PWMScheduler, PWMTaskProofs, SequenceTheorems

Labels == {"loop", "update", "queued", "emplace", "deadline", "rearm",
           "setnext", "setflag", "arm", "exit", "cancel", "unflag", "clear"}
-----------------------------------------------------------------------------
(***************************************************************************)
(* alarm_queued_ as a lock.  The strengthening says how the handler's       *)
(* position, the latched interrupt and the armed alarm go together, and     *)
(* where core1 is when the handler owns none of them.  It holds as long as  *)
(* cancel_alarm() is safe, the only step that takes the lock from the       *)
(* handler.                                                                *)
(***************************************************************************)
HandlerInv ==
  /\ isr \in {"idle", "ack", "test", "release", "load", "arm", "pop"}
  /\ alarm # Unarmed => ~irq /\ isr \in {"idle", "pop"}
  /\ irq => isr \in {"idle", "ack", "pop"}
  /\ isr = "ack" => irq

LockInv ==
  /\ pc1 \in Labels
  /\ now \in Uint
  /\ HandlerInv
  /\ HandlerOwns => alarmQueued
  /\ pc1 \in {"setnext", "setflag", "clear"} => ~alarmQueued
  /\ pc1 = "arm" => ~HandlerOwns /\ alarmQueued

LEMMA LockInit == Init => LockInv
BY UintRangeAssumption
   DEF Init, LockInv, HandlerInv, HandlerOwns, Labels, Unarmed, Uint

LEMMA LockImpliesExclusion == LockInv => AlarmExclusion
BY DEF LockInv, AlarmExclusion

\* What core1 does with the lock, one step per action that touches it.
LEMMA LockCore1 ==
  ASSUME LockInv, CancelSafe, Core1Busy
  PROVE  LockInv'
<1> USE DEF LockInv, CancelSafe, HandlerInv, HandlerOwns, Labels, At, isrVars,
            timerVars, sharedVars
<1>1. CASE RunLoop
  BY <1>1 DEF RunLoop
<1>2. CASE UpdateSkip
  BY <1>2 DEF UpdateSkip, AfterUpdate
<1>3. CASE UpdateBatch
  BY <1>3 DEF UpdateBatch
<1>4. CASE TestQueued
  BY <1>4 DEF TestQueued
<1>5. CASE Emplace
  BY <1>5 DEF Emplace
<1>6. CASE CheckDeadline
  BY <1>6 DEF CheckDeadline
<1>7. CASE TestRearm
  BY <1>7 DEF TestRearm, AfterUpdate
<1>8. CASE SetNextPort
  BY <1>8 DEF SetNextPort
<1>9. CASE SetAlarmQueued
  BY <1>9 DEF SetAlarmQueued
<1>10. CASE ArmAlarm
  BY <1>10 DEF ArmAlarm, AfterUpdate, WriteAlarm
<1>11. CASE LoopEnd
  BY <1>11 DEF LoopEnd
<1>12. CASE RunReset
  BY <1>12 DEF RunReset
<1>13. CASE Disarm
  BY <1>13 DEF Disarm
<1>14. CASE ClearAlarmQueued
  BY <1>14 DEF ClearAlarmQueued
<1>15. CASE StopTasks
  BY <1>15 DEF StopTasks
<1>16. CASE ClearTasks
  BY <1>16 DEF ClearTasks
<1> QED
  BY <1>1, <1>2, <1>3, <1>4, <1>5, <1>6, <1>7, <1>8, <1>9, <1>10, <1>11,
     <1>12, <1>13, <1>14, <1>15, <1>16 DEF Core1Busy, Update1

LEMMA LockIsr ==
  ASSUME LockInv, Isr
  PROVE  LockInv'
<1> USE DEF LockInv, HandlerInv, HandlerOwns, Labels, core1Vars, sharedVars,
            timerVars
<1>1. CASE IsrApply
  BY <1>1 DEF IsrApply
<1>2. CASE IsrAck
  BY <1>2 DEF IsrAck
<1>3. CASE IsrTestEmpty
  BY <1>3 DEF IsrTestEmpty
<1>4. CASE IsrRelease
  BY <1>4 DEF IsrRelease
<1>5. CASE IsrLoad
  BY <1>5 DEF IsrLoad
<1>6. CASE IsrArm
  BY <1>6 DEF IsrArm, WriteAlarm
<1>7. CASE IsrPop
  BY <1>7 DEF IsrPop
<1> QED
  BY <1>1, <1>2, <1>3, <1>4, <1>5, <1>6, <1>7 DEF Isr

\* Time alone never makes the handler own what it did not own before.
LEMMA TickFiresNothing ==
  ASSUME LockInv, Tick
  PROVE  now' \in Uint /\ now' # Unarmed
<1>1. now' \in Uint
  BY PlusType, UintRangeAssumption DEF Tick, LockInv, Uint
<1> QED
  BY <1>1, UintRangeAssumption DEF Uint, Unarmed

LEMMA LockTick ==
  ASSUME LockInv, Tick
  PROVE  LockInv'
BY TickFiresNothing DEF Tick, LockInv, HandlerInv, HandlerOwns, Labels,
                           core1Vars, sharedVars, isrVars

LEMMA LockStep ==
  ASSUME LockInv, CancelSafe, [Next]_vars
  PROVE  LockInv'
<1>1. CASE \E p \in Pins, s \in TaskSettings : SchedulePwmTask(p, s)
  BY <1>1 DEF SchedulePwmTask, LockInv, HandlerInv, HandlerOwns, Labels, isrVars,
              timerVars
<1>2. CASE StartSchedule
  BY <1>2 DEF StartSchedule, LockInv, HandlerInv, HandlerOwns, Labels,
              sharedVars, isrVars, timerVars
<1>3. CASE Core1Busy
  BY <1>3, LockCore1
<1>4. CASE Isr
  BY <1>4, LockIsr
<1>5. CASE Tick
  BY <1>5, LockTick
<1>6. CASE UNCHANGED vars
  BY <1>6 DEF vars, core1Vars, sharedVars, isrVars, timerVars, LockInv,
              HandlerInv, HandlerOwns, Labels
<1> QED
  BY <1>1, <1>2, <1>3, <1>4, <1>5, <1>6 DEF Next

\* As long as cancel_alarm() never meets a latched interrupt or a running
\* handler, alarm_queued_ keeps core1 off the next port state and the alarm
\* register while the handler owns them, however the two interleave and however
\* late they are (pwm_scheduler.cpp:158-165, 203-216).
THEOREM Exclusion == Spec => ExclusionUnlessRaced
<1>1. Init => LockInv
  BY LockInit
<1>2. LockInv /\ CancelSafe /\ [Next]_vars => LockInv'
  BY LockStep
<1>3. LockInv => AlarmExclusion
  BY LockImpliesExclusion
<1> QED
  BY <1>1, <1>2, <1>3, PTL DEF Spec, ExclusionUnlessRaced
-----------------------------------------------------------------------------
(***************************************************************************)
(* Types.  The queue stays within its capacity because core1, once it found *)
(* room, is the only one to add to it.                                     *)
(***************************************************************************)
RoomInv ==
  /\ pc1 \in {"queued", "emplace"} => Len(queue) < NumTTLIOs
  /\ pc1 \in {"update", "queued", "emplace", "deadline", "rearm", "setnext",
              "setflag", "arm"} => calls > 0

TypeInv == TypeOK /\ RoomInv

LEMMA NoEventType == NoEvent \in PortEvent
BY UintRangeAssumption DEF NoEvent, PortEvent, Uint

LEMMA NoTasksType ==
  /\ DOMAIN NoTasks = {}
  /\ NoTasks \in [DOMAIN NoTasks -> Task]
<1>1. DOMAIN NoTasks = {}
  BY DEF NoTasks
<1>2. NoTasks \in [{} -> Task]
  BY DEF NoTasks
<1> QED
  BY <1>1, <1>2

LEMMA TypeInit == Init => TypeInv
<1> SUFFICES ASSUME Init PROVE TypeInv
  OBVIOUS
<1>1. Core1TypeOK
  <2>1. 0 \in 0 .. NumTTLIOs
    BY PinsAssumption
  <2> QED
    BY <2>1, NoEventType, NoTasksType DEF Init, Core1TypeOK
<1>2. SharedTypeOK
  <2>1. queue \in Seq(PortEvent) /\ Len(queue) = 0
    <3>1. queue = <<>>
      BY DEF Init
    <3> QED
      BY <3>1, EmptySeq
  <2>2. nextPort \in [mask : SUBSET Pins, state : SUBSET Pins]
    BY DEF Init, NoPort
  <2>3. Len(queue) <= NumTTLIOs
    BY <2>1, PinsAssumption
  <2>4. alarmQueued \in BOOLEAN
    BY DEF Init
  <2> QED
    BY <2>1, <2>2, <2>3, <2>4 DEF SharedTypeOK
<1>3. HandlerTypeOK
  BY NoEventType DEF Init, HandlerTypeOK
<1>4. PortTypeOK
  <2>1. 0 \in Uint
    BY UintRangeAssumption DEF Uint
  <2>2. DOMAIN shown = DOMAIN task /\ shown \in [DOMAIN shown -> Task]
    BY NoTasksType DEF Init
  <2> QED
    BY <2>1, <2>2 DEF Init, PortTypeOK
<1>5. RoomInv
  BY DEF Init, RoomInv
<1> QED
  BY <1>1, <1>2, <1>3, <1>4, <1>5 DEF TypeInv, TypeOK

LEMMA WriteAlarmType ==
  ASSUME PortTypeOK, NEW time \in Uint, WriteAlarm(time)
  PROVE  alarm' \in Uint \cup {Unarmed} /\ irq' \in BOOLEAN
BY DEF PortTypeOK, WriteAlarm

\* The actions that create tasks or change what they are.
LEMMA TypeTasks ==
  ASSUME TypeInv,
         \/ \E p \in Pins, s \in TaskSettings : SchedulePwmTask(p, s)
         \/ StartSchedule \/ UpdateBatch \/ StopTasks \/ ClearTasks
  PROVE  TypeInv'
<1> USE DEF TypeInv, TypeOK, RoomInv, At
<1>1. CASE \E p \in Pins, s \in TaskSettings : SchedulePwmTask(p, s)
  <2> PICK p \in Pins, s \in TaskSettings : SchedulePwmTask(p, s)
    BY <1>1
  <2>1. NewTask(s) \in Task
    BY SettingsAssumption, NewTaskType
  <2>2. /\ DOMAIN task' = DOMAIN task \cup {p}
        /\ task' \in [DOMAIN task' -> Task]
    BY <2>1 DEF SchedulePwmTask, Core1TypeOK
  <2>3. HighAtStart([q \in {p} |-> s]) \subseteq {p}
    BY DEF HighAtStart
  <2>4. Core1TypeOK'
    BY <2>2 DEF SchedulePwmTask, Core1TypeOK
  <2>5. SharedTypeOK'
    BY <2>3 DEF SchedulePwmTask, SharedTypeOK
  <2>6. PortTypeOK'
    BY <2>2 DEF SchedulePwmTask, PortTypeOK, timerVars
  <2> QED
    BY <2>4, <2>5, <2>6 DEF SchedulePwmTask, HandlerTypeOK, isrVars
<1>2. CASE StartSchedule
  <2>1. /\ DOMAIN task' = DOMAIN task
        /\ task' \in [DOMAIN task' -> Task]
    BY <1>2, StartedAtType DEF StartSchedule, Core1TypeOK, PortTypeOK
  <2>2. Core1TypeOK'
    BY <1>2, <2>1, PinsAssumption DEF StartSchedule, Core1TypeOK
  <2>3. PortTypeOK'
    BY <1>2, <2>1 DEF StartSchedule, PortTypeOK, SharedTypeOK, Drive, timerVars
  <2> QED
    BY <1>2, <2>2, <2>3, PinsAssumption
       DEF StartSchedule, SharedTypeOK, HandlerTypeOK, sharedVars, isrVars
<1>3. CASE UpdateBatch
  <2> PICK top \in Earliest :
             LET T   == task[top].next
                 due == {p \in pq : task[p].next = T}
             IN /\ task' = [p \in DOMAIN task |->
                              IF p \in due THEN Update(task[p]) ELSE task[p]]
                /\ batch' = [mask  |-> due, time |-> T,
                             state |-> {p \in due : task'[p].state = "HIGH"}]
                /\ pq' = {p \in pq : p \in due => RequiresFutureUpdate(task'[p])}
    BY <1>3 DEF UpdateBatch
  <2>1. /\ DOMAIN task' = DOMAIN task
        /\ task' \in [DOMAIN task' -> Task]
    BY UpdateType DEF Core1TypeOK
  <2>2. batch' \in PortEvent
    <3>1. task[top] \in Task
      BY DEF Earliest, Core1TypeOK
    <3>2. task[top].next \in Uint
      BY <3>1 DEF Task
    <3> QED
      BY <3>2 DEF PortEvent, Core1TypeOK
  <2>3. Core1TypeOK'
    BY <1>3, <2>1, <2>2 DEF UpdateBatch, Core1TypeOK
  <2>4. PortTypeOK'
    BY <1>3, <2>1 DEF UpdateBatch, PortTypeOK, timerVars, portVars
  <2>5. RoomInv'
    <3>1. Len(queue) < NumTTLIOs
      BY <1>3, PinsAssumption DEF UpdateBatch, QueueFull, SharedTypeOK
    <3>2. calls > 0
      BY <1>3 DEF UpdateBatch
    <3> QED
      BY <1>3, <3>1, <3>2 DEF UpdateBatch, sharedVars
  <2> QED
    BY <1>3, <2>3, <2>4, <2>5
       DEF UpdateBatch, SharedTypeOK, HandlerTypeOK, sharedVars, isrVars
<1>4. CASE StopTasks
  <2>1. /\ DOMAIN task' = DOMAIN task
        /\ task' \in [DOMAIN task' -> Task]
    BY <1>4, ResetType DEF StopTasks, ResetAll, Core1TypeOK
  <2>2. Core1TypeOK'
    BY <1>4, <2>1 DEF StopTasks, Core1TypeOK
  <2>3. PortTypeOK'
    BY <1>4, <2>1 DEF StopTasks, PortTypeOK, timerVars
  <2>4. SharedTypeOK'
    BY <1>4, PinsAssumption
       DEF StopTasks, SharedTypeOK, InitialPort, HighAtStart, Core1TypeOK
  <2> QED
    BY <1>4, <2>2, <2>3, <2>4 DEF StopTasks, HandlerTypeOK, isrVars
<1>5. CASE ClearTasks
  <2>1. Core1TypeOK'
    BY <1>5, NoTasksType DEF ClearTasks, Core1TypeOK
  <2>2. PortTypeOK'
    BY <1>5, NoTasksType DEF ClearTasks, PortTypeOK, timerVars
  <2>3. SharedTypeOK'
    BY <1>5, PinsAssumption DEF ClearTasks, SharedTypeOK, NoPort
  <2> QED
    BY <1>5, <2>1, <2>2, <2>3 DEF ClearTasks, HandlerTypeOK, isrVars
<1> QED
  BY <1>1, <1>2, <1>3, <1>4, <1>5

\* The other actions of core1.
LEMMA TypeCore1 ==
  ASSUME TypeInv,
         \/ RunLoop \/ UpdateSkip \/ TestQueued \/ Emplace \/ CheckDeadline
         \/ TestRearm \/ SetNextPort \/ SetAlarmQueued \/ ArmAlarm
         \/ LoopEnd \/ RunReset \/ Disarm \/ ClearAlarmQueued
  PROVE  TypeInv'
<1> USE DEF TypeInv, TypeOK, RoomInv, Core1TypeOK, SharedTypeOK, HandlerTypeOK,
            PortTypeOK, At, sharedVars, isrVars, timerVars, portVars
<1>1. CASE RunLoop
  BY <1>1, PinsAssumption DEF RunLoop
<1>2. CASE UpdateSkip
  BY <1>2, PinsAssumption DEF UpdateSkip, AfterUpdate
<1>3. CASE TestQueued
  BY <1>3 DEF TestQueued
<1>4. CASE Emplace
  BY <1>4, PinsAssumption DEF Emplace
<1>5. CASE CheckDeadline
  BY <1>5 DEF CheckDeadline
<1>6. CASE TestRearm
  BY <1>6, NoEventType, PinsAssumption DEF TestRearm, AfterUpdate
<1>7. CASE SetNextPort
  BY <1>7 DEF SetNextPort, PortEvent
<1>8. CASE SetAlarmQueued
  BY <1>8 DEF SetAlarmQueued
<1>9. CASE ArmAlarm
  <2>1. batch.time \in Uint
    BY DEF PortEvent
  <2>2. alarm' \in Uint \cup {Unarmed} /\ irq' \in BOOLEAN
    BY <1>9, <2>1, WriteAlarmType DEF ArmAlarm
  <2> QED
    BY <1>9, <2>2, NoEventType, PinsAssumption DEF ArmAlarm, AfterUpdate
<1>10. CASE LoopEnd
  BY <1>10 DEF LoopEnd
<1>11. CASE RunReset
  BY <1>11 DEF RunReset
<1>12. CASE Disarm
  BY <1>12 DEF Disarm
<1>13. CASE ClearAlarmQueued
  BY <1>13 DEF ClearAlarmQueued
<1> QED
  BY <1>1, <1>2, <1>3, <1>4, <1>5, <1>6, <1>7, <1>8, <1>9, <1>10, <1>11,
     <1>12, <1>13

LEMMA TypeIsr ==
  ASSUME TypeInv, Isr
  PROVE  TypeInv'
<1> USE DEF TypeInv, TypeOK, RoomInv, Core1TypeOK, SharedTypeOK, HandlerTypeOK,
            PortTypeOK, core1Vars, sharedVars, timerVars, portVars
<1>1. CASE IsrApply
  <2>1. shown' \in [DOMAIN shown' -> Task] /\ DOMAIN shown' = DOMAIN shown
    BY <1>1, UpdateType DEF IsrApply
  <2>2. gpio' \subseteq Pins
    BY <1>1 DEF IsrApply, Drive
  <2> QED
    BY <1>1, <2>1, <2>2 DEF IsrApply
<1>2. CASE IsrAck
  BY <1>2 DEF IsrAck
<1>3. CASE IsrTestEmpty
  BY <1>3 DEF IsrTestEmpty
<1>4. CASE IsrRelease
  BY <1>4 DEF IsrRelease
<1>5. CASE IsrLoad
  BY <1>5 DEF IsrLoad, PortEvent
<1>6. CASE IsrArm
  <2>1. isrEvent.time \in Uint
    BY DEF PortEvent
  <2>2. alarm' \in Uint \cup {Unarmed} /\ irq' \in BOOLEAN
    BY <1>6, <2>1, WriteAlarmType DEF IsrArm
  <2> QED
    BY <1>6, <2>2 DEF IsrArm
<1>7. CASE IsrPop
  <2>1. queue' \in Seq(PortEvent) /\ Len(queue') <= Len(queue)
    BY <1>7 DEF IsrPop
  <2> QED
    BY <1>7, <2>1, NoEventType, PinsAssumption DEF IsrPop
<1> QED
  BY <1>1, <1>2, <1>3, <1>4, <1>5, <1>6, <1>7 DEF Isr

LEMMA TypeTick ==
  ASSUME TypeInv, Tick
  PROVE  TypeInv'
<1>1. now' \in Uint
  BY PlusType, UintRangeAssumption
     DEF Tick, TypeInv, TypeOK, PortTypeOK, Uint
<1>2. alarm' \in Uint \cup {Unarmed} /\ irq' \in BOOLEAN
  BY DEF Tick, TypeInv, TypeOK, PortTypeOK
<1>3. PortTypeOK'
  BY <1>1, <1>2 DEF Tick, TypeInv, TypeOK, PortTypeOK, portVars, core1Vars
<1> QED
  BY <1>3 DEF Tick, TypeInv, TypeOK, RoomInv, Core1TypeOK, SharedTypeOK,
              HandlerTypeOK, core1Vars, sharedVars, isrVars

LEMMA TypeStep ==
  ASSUME TypeInv, [Next]_vars
  PROVE  TypeInv'
<1>1. CASE UNCHANGED vars
  BY <1>1 DEF vars, core1Vars, sharedVars, isrVars, timerVars, portVars,
              TypeInv, TypeOK, RoomInv, Core1TypeOK, SharedTypeOK,
              HandlerTypeOK, PortTypeOK
<1> QED
  BY <1>1, TypeTasks, TypeCore1, TypeIsr, TypeTick DEF Next, Core1Busy, Update1

\* Every variable keeps its type and the event queue its capacity, whichever
\* way core1, the handler and the timer interleave (pwm_scheduler.cpp:107, 139).
THEOREM TypeCorrect == Spec => []TypeOK
<1>1. Init => TypeInv
  BY TypeInit
<1>2. TypeInv /\ [Next]_vars => TypeInv'
  BY TypeStep
<1>3. TypeInv => TypeOK
  BY DEF TypeInv
<1> QED
  BY <1>1, <1>2, <1>3, PTL DEF Spec
-----------------------------------------------------------------------------
(***************************************************************************)
(* The queue between back() and pop_back() of the handler: core1 may append *)
(* but, where cancel_alarm() is safe, not empty it.                        *)
(***************************************************************************)
LEMMA PopsStep ==
  ASSUME LockInv, TypeInv, PopsWhatItRead, [Next]_vars
  PROVE  PopsWhatItRead'
<1> USE DEF PopsWhatItRead, At, core1Vars, sharedVars, isrVars, timerVars,
            portVars
<1>1. CASE Isr
  BY <1>1 DEF Isr, IsrApply, IsrAck, IsrTestEmpty, IsrRelease, IsrLoad, IsrArm,
              IsrPop
<1>2. CASE Tick
  BY <1>2 DEF Tick
<1>3. CASE \E p \in Pins, s \in TaskSettings : SchedulePwmTask(p, s)
  BY <1>3 DEF SchedulePwmTask
<1>4. CASE StartSchedule
  BY <1>4 DEF StartSchedule
<1>5. CASE Emplace
  <2>1. queue \in Seq(PortEvent)
    BY DEF TypeInv, TypeOK, SharedTypeOK
  <2>2. queue # <<>> => queue' # <<>> /\ Head(queue') = Head(queue)
    BY <1>5, <2>1 DEF Emplace
  <2> QED
    BY <1>5, <2>2 DEF Emplace
<1>6. CASE Update1 /\ ~Emplace
  BY <1>6 DEF Update1, UpdateSkip, UpdateBatch, TestQueued, CheckDeadline,
              TestRearm, SetNextPort, SetAlarmQueued, ArmAlarm
<1>7. CASE RunLoop \/ LoopEnd \/ RunReset \/ Disarm \/ ClearAlarmQueued
  BY <1>7 DEF RunLoop, LoopEnd, RunReset, Disarm, ClearAlarmQueued
<1>8. CASE StopTasks \/ ClearTasks
  BY <1>8 DEF StopTasks, ClearTasks, LockInv, HandlerOwns
<1>9. CASE UNCHANGED vars
  BY <1>9 DEF vars
<1> QED
  BY <1>1, <1>2, <1>3, <1>4, <1>5, <1>6, <1>7, <1>8, <1>9 DEF Next, Core1Busy

\* Where cancel_alarm() is safe the handler pops the event it armed, though
\* update(), stop() and reset() work on the same queue (pwm_scheduler.cpp:139,
\* 172, 39, 210-216).
THEOREM Pops == Spec => PopsUnlessRaced
<1>1. Init => LockInv /\ TypeInv /\ PopsWhatItRead
  BY LockInit, TypeInit DEF Init, PopsWhatItRead
<1>2. LockInv /\ TypeInv /\ PopsWhatItRead /\ CancelSafe /\ [Next]_vars
        => LockInv' /\ TypeInv' /\ PopsWhatItRead'
  BY LockStep, TypeStep, PopsStep
<1> QED
  BY <1>1, <1>2, PTL DEF Spec, PopsUnlessRaced
-----------------------------------------------------------------------------
(***************************************************************************)
(* A stopped schedule is quiet.  A pin HIGH has a task, and so has every    *)
(* pin that the next port state or an event still in some hand              *)
(* would drive HIGH; stop() and reset(), which turn the tasks' pins LOW,    *)
(* therefore leave none HIGH, and LockInv keeps the handler from coming.    *)
(***************************************************************************)
Updating == {"update", "queued", "emplace", "deadline", "rearm", "setnext",
             "setflag", "arm", "exit"}

PinInv ==
  /\ gpio \subseteq DOMAIN task
  /\ nextPort.state \subseteq DOMAIN task
  /\ batch.state \subseteq DOMAIN task
  /\ isrEvent.state \subseteq DOMAIN task
  /\ \A i \in 1 .. Len(queue) : queue[i].state \subseteq DOMAIN task
  /\ pc1 \notin {"queued", "emplace", "deadline", "rearm", "setnext",
                 "setflag", "arm"} => batch = NoEvent
  /\ isr \in {"idle", "ack", "test", "release"} => isrEvent = NoEvent

StopInv ==
  /\ pc1 = "loop" /\ state = "READY" => gpio = {} /\ ~HandlerOwns
  /\ pc1 \in Updating => state = "RUNNING" \/ goal = "RUNNING"

QuietInv == TypeInv /\ LockInv /\ PinInv /\ StopInv

LEMMA StopStep ==
  ASSUME QuietInv, [Next]_vars
  PROVE  StopInv'
<1> USE DEF QuietInv, StopInv, Updating, HandlerOwns, At, core1Vars, sharedVars,
            isrVars, timerVars, portVars
<1>1. CASE Isr
  BY <1>1 DEF Isr, IsrApply, IsrAck, IsrTestEmpty, IsrRelease, IsrLoad, IsrArm,
              IsrPop
<1>2. CASE Tick
  BY <1>2, TickFiresNothing DEF Tick
<1>3. CASE \E p \in Pins, s \in TaskSettings : SchedulePwmTask(p, s)
  BY <1>3 DEF SchedulePwmTask
<1>4. CASE StartSchedule
  BY <1>4 DEF StartSchedule
<1>5. CASE Update1
  BY <1>5 DEF Update1, AfterUpdate, UpdateSkip, UpdateBatch, TestQueued, Emplace,
              CheckDeadline, TestRearm, SetNextPort, SetAlarmQueued, ArmAlarm
<1>6. CASE RunLoop \/ LoopEnd \/ RunReset \/ Disarm \/ ClearAlarmQueued
  BY <1>6 DEF RunLoop, LoopEnd, RunReset, Disarm, ClearAlarmQueued
<1>7. CASE StopTasks \/ ClearTasks
  <2>1. ~HandlerOwns /\ ~HandlerOwns'
    BY <1>7 DEF StopTasks, ClearTasks, LockInv
  <2>2. gpio' = {}
    BY <1>7 DEF StopTasks, ClearTasks, PinInv
  <2> QED
    BY <1>7, <2>1, <2>2 DEF StopTasks, ClearTasks
<1>8. CASE UNCHANGED vars
  BY <1>8 DEF vars
<1> QED
  BY <1>1, <1>2, <1>3, <1>4, <1>5, <1>6, <1>7, <1>8 DEF Next, Core1Busy

LEMMA PinCore1 ==
  ASSUME QuietInv,
         \/ \E p \in Pins, s \in TaskSettings : SchedulePwmTask(p, s)
         \/ StartSchedule \/ Core1Busy
  PROVE  PinInv'
<1> USE DEF QuietInv, PinInv, At
<1>t. /\ queue \in Seq(PortEvent) /\ pq \subseteq DOMAIN task
      /\ batch \in PortEvent /\ NoEvent.state = {} /\ NoPort.state = {}
  BY DEF TypeInv, TypeOK, Core1TypeOK, SharedTypeOK, NoEvent, NoPort
<1>1. CASE \E p \in Pins, s \in TaskSettings : SchedulePwmTask(p, s)
  <2> PICK p \in Pins, s \in TaskSettings : SchedulePwmTask(p, s)
    BY <1>1
  <2>1. DOMAIN task' = DOMAIN task \cup {p}
    BY DEF SchedulePwmTask
  <2>2. HighAtStart([q \in {p} |-> s]) \subseteq {p}
    BY DEF HighAtStart
  <2>3. nextPort'.state = nextPort.state \cup HighAtStart([q \in {p} |-> s])
    BY DEF SchedulePwmTask
  <2> QED
    BY <2>1, <2>2, <2>3 DEF SchedulePwmTask, isrVars
<1>2. CASE StartSchedule
  <2>1. DOMAIN task' = DOMAIN task
    BY <1>2 DEF StartSchedule
  <2>2. gpio' \subseteq DOMAIN task
    BY <1>2 DEF StartSchedule, Drive
  <2> QED
    BY <1>2, <2>1, <2>2 DEF StartSchedule, sharedVars, isrVars
<1>3. CASE UpdateBatch
  <2>1. DOMAIN task' = DOMAIN task
    BY <1>3 DEF UpdateBatch
  <2>2. batch'.state \subseteq DOMAIN task
    BY <1>3, <1>t DEF UpdateBatch
  <2> QED
    BY <1>3, <2>1, <2>2 DEF UpdateBatch, sharedVars, isrVars, portVars
<1>4. CASE Emplace
  <2>1. \A i \in 1 .. Len(queue') : queue'[i].state \subseteq DOMAIN task
    BY <1>4, <1>t DEF Emplace
  <2> QED
    BY <1>4, <2>1 DEF Emplace, isrVars, portVars
<1>5. CASE TestQueued \/ CheckDeadline \/ UpdateSkip
  BY <1>5 DEF TestQueued, CheckDeadline, UpdateSkip, AfterUpdate, sharedVars,
              isrVars, portVars
<1>6. CASE TestRearm \/ ArmAlarm
  BY <1>6, <1>t DEF TestRearm, ArmAlarm, AfterUpdate, sharedVars, isrVars, portVars
<1>7. CASE SetNextPort \/ SetAlarmQueued
  BY <1>7 DEF SetNextPort, SetAlarmQueued, isrVars, portVars
<1>8. CASE RunLoop \/ LoopEnd \/ RunReset \/ Disarm \/ ClearAlarmQueued
  BY <1>8 DEF RunLoop, LoopEnd, RunReset, Disarm, ClearAlarmQueued, sharedVars,
              isrVars, portVars
<1>9. CASE StopTasks
  <2>1. DOMAIN task' = DOMAIN task
    BY <1>9 DEF StopTasks, ResetAll
  <2>2. nextPort'.state \subseteq DOMAIN task
    BY <1>9 DEF StopTasks, InitialPort, HighAtStart
  <2>3. Len(queue') = 0
    BY <1>9 DEF StopTasks
  <2> QED
    BY <1>9, <2>1, <2>2, <2>3 DEF StopTasks, isrVars
<1>10. CASE ClearTasks
  <2>1. batch = NoEvent /\ isrEvent = NoEvent
    BY <1>10 DEF ClearTasks, LockInv, HandlerOwns
  <2>2. gpio' = {} /\ Len(queue') = 0
    BY <1>10 DEF ClearTasks
  <2> QED
    BY <1>10, <1>t, <2>1, <2>2 DEF ClearTasks, isrVars
<1> QED
  BY <1>1, <1>2, <1>3, <1>4, <1>5, <1>6, <1>7, <1>8, <1>9, <1>10
     DEF Core1Busy, Update1

LEMMA PinHandler ==
  ASSUME QuietInv, Isr \/ Tick \/ UNCHANGED vars
  PROVE  PinInv'
<1> USE DEF QuietInv, PinInv
<1>t. queue \in Seq(PortEvent) /\ NoEvent.state = {}
  BY DEF TypeInv, TypeOK, SharedTypeOK, NoEvent
<1>1. CASE IsrApply
  BY <1>1 DEF IsrApply, Drive, core1Vars, sharedVars
<1>2. CASE IsrTestEmpty
  <2>1. queue # <<>> => 1 \in 1 .. Len(queue) /\ Head(queue) = queue[1]
    BY <1>t
  <2> QED
    BY <1>2, <2>1 DEF IsrTestEmpty, core1Vars, sharedVars, portVars
<1>3. CASE IsrLoad
  BY <1>3 DEF IsrLoad, core1Vars, portVars
<1>4. CASE IsrPop
  <2>1. \A i \in 1 .. Len(queue') : queue'[i].state \subseteq DOMAIN task
    BY <1>4, <1>t DEF IsrPop
  <2> QED
    BY <1>4, <1>t, <2>1 DEF IsrPop, core1Vars, portVars
<1>5. CASE IsrAck \/ IsrRelease \/ IsrArm
  BY <1>5 DEF IsrAck, IsrRelease, IsrArm, core1Vars, sharedVars, portVars
<1>6. CASE Tick \/ UNCHANGED vars
  BY <1>6 DEF Tick, vars, core1Vars, sharedVars, isrVars, portVars
<1> QED
  BY <1>1, <1>2, <1>3, <1>4, <1>5, <1>6 DEF Isr

LEMMA QuietInit == Init => QuietInv
<1> SUFFICES ASSUME Init PROVE PinInv /\ StopInv
  BY TypeInit, LockInit DEF QuietInv
<1>1. PinInv
  BY DEF Init, PinInv, NoPort, NoEvent
<1> QED
  BY <1>1 DEF Init, StopInv, Updating, HandlerOwns

LEMMA QuietStep ==
  ASSUME QuietInv, CancelSafe, [Next]_vars
  PROVE  QuietInv'
<1>1. TypeInv' /\ LockInv'
  BY TypeStep, LockStep DEF QuietInv
<1>2. PinInv'
  BY PinCore1, PinHandler DEF Next
<1>3. StopInv'
  BY StopStep
<1> QED
  BY <1>1, <1>2, <1>3 DEF QuietInv

\* Where cancel_alarm() is safe, once stop() or reset() returned and until the
\* next start every pin is LOW and nothing is on its way to change that
\* (pwm_scheduler.h:41-54).
THEOREM StoppedQuiet == Spec => QuietUnlessRaced
<1>1. Init => QuietInv
  BY QuietInit
<1>2. QuietInv /\ CancelSafe /\ [Next]_vars => QuietInv'
  BY QuietStep
<1>3. QuietInv => StoppedIsQuiet
  BY DEF QuietInv, StopInv, StoppedIsQuiet
<1> QED
  BY <1>1, <1>2, <1>3, PTL DEF Spec, QuietUnlessRaced
=============================================================================
