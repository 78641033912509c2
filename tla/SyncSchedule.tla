---------------------------- MODULE SyncSchedule ----------------------------
(***************************************************************************)
(* How tasks get into the schedule and stay in order: sync_schedule() of    *)
(* firmware/src/core1_main.cpp, which inserts new tasks and rewrites        *)
(* existing ones, and the priority queue pq_ of firmware/src/               *)
(* pwm_scheduler.cpp as the array it is.  Nothing here is shared with       *)
(* another thread, so every call of the code is one step.                   *)
(*                                                                         *)
(* pq_ holds references: a task whose update time changes while it is in    *)
(* the queue keeps its place.  Module PWMScheduler takes pq_ for a set that *)
(* always yields its earliest tasks; EarliestTogether says when it may.     *)
(* Applying the events is that module's matter: here they are only computed.*)
(***************************************************************************)
EXTENDS PWMTask, SequencesExt

CONSTANTS
  Pins,          \* pins that may get a task
  TaskSettings,  \* the settings the host may choose from
  NumTTLIOs,     \* NUM_TTL_IOS: room for tasks, rounds of update()'s loop
  StartTimes     \* timer values at which schedules start

ASSUME PinsAssumption ==
  IsFiniteSet(Pins) /\ NumTTLIOs \in Nat \ {0} /\ Cardinality(Pins) <= NumTTLIOs
ASSUME SettingsAssumption == TaskSettings \subseteq Settings
ASSUME StartTimesAssumption == StartTimes \subseteq Uint

VARIABLES
  state,      \* core1_state_t, READY or RUNNING
  task,       \* the tasks by their pin
  vector,     \* pwm_tasks_: the pins in the order their tasks were created
  heap,       \* pq_: the array of a binary heap of pins
  port,       \* next_gpio_port_mask_ and _state_, as aggregated for start()
  batch,      \* the port event computed last
  \* history
  written,    \* the last settings sync_schedule() received for each pin
  moved       \* the tasks rewritten, since they were inserted, to other first
              \* update times

vars == <<state, task, vector, heap, port, batch, written, moved>>

NoPort  == [mask |-> {}, state |-> {}]
NoEvent == [mask |-> {}, state |-> {}, time |-> 0]
None    == [p \in {} |-> 0]
With(f, p, v) == [q \in DOMAIN f \cup {p} |-> IF q = p THEN v ELSE f[q]]
-----------------------------------------------------------------------------
(***************************************************************************)
(* etl::priority_queue with etl::greater: the task that must be updated     *)
(* first is in front.  ts gives the tasks that the pins of h refer to.      *)
(***************************************************************************)
Swap(h, i, j) == [h EXCEPT ![i] = h[j], ![j] = h[i]]

\* An array and a place in it, where an entry may be out of order.
Place == {a \in [heap : Seq(Pins), at : Nat \ {0}] : a.at <= Len(a.heap)}

MoveTo(a, j) == [heap |-> Swap(a.heap, a.at, j), at |-> j]

BeforeParent(ts, a) ==
  a.at > 1 /\ UpdatesBefore(ts[a.heap[a.at]], ts[a.heap[a.at \div 2]])

\* push_heap(): the entry at i moves up while it comes before its parent.
SiftUp(ts, h, i) ==
  LET up[a \in Place] ==
        IF BeforeParent(ts, a) THEN up[MoveTo(a, a.at \div 2)] ELSE a.heap
  IN up[[heap |-> h, at |-> i]]

EarlierChild(ts, a) ==
  IF 2 * a.at = Len(a.heap) \/ UpdatesBefore(ts[a.heap[2 * a.at]], ts[a.heap[2 * a.at + 1]])
  THEN 2 * a.at ELSE 2 * a.at + 1

\* adjust_heap(): the entry at i sinks to a leaf along the earlier children,
\* and moves up again from there.
SiftDown(ts, h, i) ==
  LET down[a \in Place] ==
        IF 2 * a.at <= Len(a.heap) THEN down[MoveTo(a, EarlierChild(ts, a))]
        ELSE SiftUp(ts, a.heap, a.at)
  IN down[[heap |-> h, at |-> i]]

\* Mutant: the queue is not kept in order.
PushBack(ts, h, p) == Append(h, p)

Push(ts, h, p) == SiftUp(ts, Append(h, p), Len(h) + 1)

\* Mutant: pop() removes the last entry.
PopBack(ts, h) == Front(h)

Pop(ts, h) ==
  IF Len(h) = 1 THEN <<>>
  ELSE SiftDown(ts, [Front(h) EXCEPT ![1] = Last(h)], 1)
-----------------------------------------------------------------------------
(***************************************************************************)
(* sync_schedule().                                                        *)
(***************************************************************************)
HighAtStart(ts) == {p \in DOMAIN ts : StartingState(ts[p]) = "HIGH"}

\* Mutant: the update time is rewritten as well.
RewriteWithTime(t, s) == SetTimeStarted(
  [t EXCEPT !.delay = s.delay, !.on = s.on, !.period = s.period,
            !.count = s.count], 0)

\* "Update existing task specs", and nothing else of the task.
Rewrite(t, s) ==
  [t EXCEPT !.delay = s.delay, !.on = s.on, !.period = s.period,
            !.count = s.count]

\* The tasks in front of p are popped and, the last one first, pushed back.
PopUntil(p) ==
  LET find[a \in [heap : Seq(Pins), tmp : Seq(Pins)]] ==
        IF a.heap = <<>> \/ Head(a.heap) = p THEN a
        ELSE find[[heap |-> Pop(task, a.heap), tmp |-> Append(a.tmp, Head(a.heap))]]
  IN find[[heap |-> heap, tmp |-> <<>>]]

\* The heap h and n of the pins in s, in their order.
PushFirst(ts, h, s, n) ==
  LET pushed[i \in 0 .. n] == IF i = 0 THEN h ELSE Push(ts, pushed[i - 1], s[i])
  IN pushed[n]

\* Mutant: one of the popped tasks is forgotten.
PushBackMost(ts, a) ==
  IF a.tmp = <<>> THEN a.heap
  ELSE PushFirst(ts, a.heap, Reverse(Tail(a.tmp)), Len(a.tmp) - 1)

PushBackAll(ts, a) == PushFirst(ts, a.heap, Reverse(a.tmp), Len(a.tmp))

\* The search ended at a task: this one is rewritten where it is.
RewriteTask(p, s) ==
  /\ state = "READY"
  /\ LET found == PopUntil(p)
         front == Head(found.heap)
     IN /\ found.heap # <<>>
        /\ task' = [task EXCEPT ![front] = Rewrite(@, s)]
        /\ heap' = PushBackAll(task', found)
        /\ moved' = IF NewTask(s).next # task[front].next
                    THEN moved \cup {front} ELSE moved \ {front}
  /\ written' = With(written, p, s)
  /\ UNCHANGED <<state, vector, port, batch>>

\* The search emptied the queue: schedule_pwm_task() adds a new task after all
\* are pushed back.  A pin that had one already would get a second, which takes
\* the first one's place in task, and be in vector twice.
SchedulePwmTask(p, s) ==
  /\ state = "READY"
  /\ LET found == PopUntil(p)
     IN /\ found.heap = <<>>
        /\ task' = With(task, p, NewTask(s))
        /\ heap' = Push(task', PushBackAll(task, found), p)
  /\ vector' = Append(vector, p)
  /\ port' = [mask  |-> port.mask \cup {p},
              state |-> port.state \cup HighAtStart([q \in {p} |-> s])]
  /\ written' = With(written, p, s)
  /\ UNCHANGED <<state, batch, moved>>
-----------------------------------------------------------------------------
(***************************************************************************)
(* The scheduler's calls around it.                                        *)
(***************************************************************************)
Init ==
  /\ state = "READY" /\ task = None /\ vector = <<>> /\ heap = <<>>
  /\ port = NoPort /\ batch = NoEvent /\ written = None /\ moved = {}

\* start() up to its updates: the tasks get their times, the queue is taken
\* to be sorted already.
Start(time) ==
  /\ state = "READY"
  /\ state' = "RUNNING"
  /\ task' = [p \in DOMAIN task |-> StartedAt(task[p], time)]
  /\ batch' = [NoEvent EXCEPT !.time = time]
  /\ UNCHANGED <<vector, heap, port, written, moved>>

\* One round of update()'s loop.
Round(a) ==
  LET p  == Head(a.heap)
      h  == Pop(a.task, a.heap)
      ts == [a.task EXCEPT ![p] = Update(@)]
  IN [task  |-> ts,
      heap  |-> IF RequiresFutureUpdate(ts[p]) THEN Push(ts, h, p) ELSE h,
      mask  |-> a.mask \cup {p},
      state |-> IF ts[p].state = "HIGH" THEN a.state \cup {p} ELSE a.state]

\* Mutant: one task per event.
OneAtATime(a, time) == FALSE

\* "Continue scheduling all PWM tasks that will fire simultaneously."
AlsoDue(a, time) == a.heap # <<>> /\ a.task[Head(a.heap)].next = time

\* All rounds of one call; the first takes the front task whatever its time.
Rounds(a, time) ==
  LET round[n \in 0 .. NumTTLIOs - 1] ==
        IF n = 0 THEN Round(a)
        ELSE IF AlsoDue(round[n - 1], time) THEN Round(round[n - 1]) ELSE round[n - 1]
  IN round[NumTTLIOs - 1]

\* update(): the front task, and those that are due with it, make a step.
ComputeBatch ==
  /\ state = "RUNNING" /\ heap # <<>>
  /\ LET time  == task[Head(heap)].next
         all  == Rounds([task |-> task, heap |-> heap, mask |-> {}, state |-> {}], time)
     IN /\ task' = all.task
        /\ heap' = all.heap
        /\ batch' = [mask |-> all.mask, state |-> all.state, time |-> time]
  /\ UNCHANGED <<state, vector, port, written, moved>>

\* stop() pushes all tasks "as if we were inserting them for the first time".
Reinserted(ts) == PushFirst(ts, <<>>, vector, Len(vector))

\* ... and aggregates their starting levels anew.
InitialPort(ts) == [mask |-> DOMAIN ts, state |-> HighAtStart(ts)]

\* stop() is called on the way to READY, whatever was left to do.
Stop ==
  /\ state = "RUNNING"
  /\ state' = "READY"
  /\ task' = [p \in DOMAIN task |-> Reset(task[p])]
  /\ heap' = Reinserted(task')
  /\ port' = InitialPort(task)
  /\ batch' = NoEvent /\ moved' = {}
  /\ UNCHANGED <<vector, written>>

\* A missed deadline: reset() in the next iteration, and READY again.
ResetSchedule ==
  /\ state = "RUNNING"
  /\ state' = "READY"
  /\ task' = None /\ vector' = <<>> /\ heap' = <<>> /\ port' = NoPort
  /\ batch' = NoEvent /\ written' = None /\ moved' = {}

Next ==
  \/ \E p \in Pins, s \in TaskSettings : RewriteTask(p, s) \/ SchedulePwmTask(p, s)
  \/ \E time \in StartTimes : Start(time)
  \/ ComputeBatch
  \/ Stop
  \/ ResetSchedule

Spec == Init /\ [][Next]_vars
-----------------------------------------------------------------------------
(***************************************************************************)
(* Properties.                                                             *)
(***************************************************************************)
\* The types, and that no task is in the queue twice or missing from it.
TypeOK ==
  /\ state \in {"READY", "RUNNING"}
  /\ DOMAIN task \subseteq Pins /\ task \in [DOMAIN task -> Task]
  /\ Len(vector) = Cardinality(DOMAIN task) /\ ToSet(vector) = DOMAIN task
  /\ IsInjective(heap)
  /\ ToSet(heap) = {p \in DOMAIN task : RequiresFutureUpdate(task[p])}
  /\ port \in [mask : SUBSET DOMAIN task, state : SUBSET DOMAIN task]
  /\ batch \in [mask : SUBSET DOMAIN task, state : SUBSET DOMAIN task, time : Uint]
  /\ written \in [DOMAIN task -> TaskSettings] /\ moved \subseteq DOMAIN task

Sorted(ts, h) ==
  \A i \in 2 .. Len(h) : ~UpdatesBefore(ts[h[i]], ts[h[i \div 2]])

\* The queue is a heap whenever core1 waits in READY, so that sync_schedule()
\* finds every task by popping ("the schedule is presorted", core1_main.cpp:38)
\* whatever it rewrote before; and it stays one while a schedule runs whose
\* first update times were not moved.
HeapOrdered == state = "READY" \/ moved = {} => Sorted(task, heap)

\* sync_schedule() finds the task of every pin that has one, however deep in the
\* queue it is and whether or not it was done when its schedule was stopped: no
\* pin gets a second task, and each has the settings its pin got last, no matter
\* what was searched, rewritten, played or stopped before (core1_main.cpp:42-67).
SettingsTakeEffect ==
  /\ IsInjective(vector)
  /\ \A p \in DOMAIN task :
       \A f \in {"delay", "on", "period", "count"} : task[p][f] = written[p][f]

\* Both phases of every period last at least a microsecond.
TwoPhases == \A p \in DOMAIN task : 0 < task[p].on /\ task[p].on < task[p].period

\* The tasks in the queue that no other comes before.
DueFirst ==
  {p \in ToSet(heap) : \A q \in ToSet(heap) : ~UpdatesBefore(task[q], task[p])}

\* One call of update() gives one event with exactly the tasks that are due
\* first, and all of them (pwm_scheduler.cpp:115-136): what PWMScheduler
\* assumes of pq_.
EarliestTogether ==
  [][ComputeBatch /\ moved = {} /\ TwoPhases =>
       batch'.mask = DueFirst /\ \A p \in DueFirst : task[p].next = batch'.time]_vars

\* Each event is later than the one before and than the start: an alarm set for
\* it fires (pwm_scheduler.cpp:214), not a whole turn of the timer later.
EventsAdvance ==
  [][ComputeBatch /\ moved = {} /\ TwoPhases => After(batch'.time, batch.time)]_vars

\* The same of every schedule whose settings were written at any time before
\* its start ("tasks are pre-sorted at this point", pwm_scheduler.cpp:87-88).
EventsAdvanceAlways ==
  [][ComputeBatch => After(batch'.time, batch.time)]_vars
=============================================================================
