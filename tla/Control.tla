------------------------------ MODULE Control ------------------------------
(***************************************************************************)
(* The two cores' conversation: the Harp register handlers that core0 runs  *)
(* (firmware/src/cuttlefish_app.cpp), the state machine that core1 runs     *)
(* (firmware/src/core1_main.cpp), and the three queues between them.        *)
(*                                                                         *)
(* A step is what one core does up to its next access to a queue, which is  *)
(* all the cores share.  The schedule itself is abstracted to when it ends  *)
(* and when it misses a deadline (module PWMScheduler shows how it plays).  *)
(* A reply is the one the handler decides on; muting the device, which only *)
(* keeps replies from being sent, is left out.                             *)
(***************************************************************************)
EXTENDS Naturals, Sequences, FiniteSets

CONSTANTS
  Pins,         \* pins with a pwm_settings register
  Configs,      \* the settings the host may write for a pin
  CtrlCap,      \* capacity of core1_ctrl_queue, 8 in the code
  AnswerCap,    \* capacity of core1_next_state_queue, 8 in the code
  SettingsCap,  \* capacity of pwm_settings_queue, 32 in the code
  Faults        \* the troubles that may occur, see FaultAssumption

ASSUME CapacityAssumption ==
  {CtrlCap, AnswerCap, SettingsCap} \subseteq Nat \ {0}
\* A command behind one that core1 did not wait for, an end behind its start.
ASSUME RoomAssumption == CtrlCap > 1 /\ AnswerCap > 1
\* The schedule misses a deadline; the host resets the device's app; an answer
\* that will come takes longer than INTERCORE_COM_TIMEOUT_US.
ASSUME FaultAssumption == Faults \subseteq {"failure", "reset", "late"}

VARIABLES
  \* core0
  pc0,          \* which handler core0 is in
  pwmState,     \* app_regs.pwm_state, as nonzero or zero
  pwmReady,     \* app_regs.pwm_ready, as a set of pins
  \* queues, oldest message first
  ctrl,         \* core1_ctrl_queue
  answers,      \* core1_next_state_queue, the states
  settings,     \* pwm_settings_queue
  \* core1
  pc1,          \* where core1 is in run_task_loop()
  state,        \* core1_state_t
  goal,         \* next_state
  task,         \* the settings of the pins that have a task
  sched,        \* the scheduler: idle, playing or played to its end
  failed,       \* schedule_failed
  \* history
  accepted,     \* the last settings of each pin that got a WRITE reply
  reply,        \* the last reply to a write of PwmState
  event,        \* an EVENT of PwmState was sent since the last START was
  begun,        \* a schedule started since the last START was sent
  faults        \* the faults that occurred so far

core0Vars == <<pc0, pwmState, pwmReady, accepted, reply, event>>
core1Vars == <<pc1, state, goal, task, sched, failed>>
vars == <<core0Vars, ctrl, answers, settings, core1Vars, begun, faults>>

None == [p \in {} |-> 0]
With(f, p, v) == [q \in DOMAIN f \cup {p} |-> IF q = p THEN v ELSE f[q]]
Occurs(fault) == fault \in Faults /\ faults' = faults \cup {fault}

\* Mutant: every command is a START.
CommandStart == "START"

Command == IF pwmState THEN "START" ELSE "STOP"

\* Mutant: a queue takes one message more than it has room for.
TryAddLate(queue, msg, cap) ==
  IF Len(queue) <= cap THEN Append(queue, msg) ELSE queue

\* queue_try_add(): the message is dropped if the queue is full.
TryAdd(queue, msg, cap) ==
  IF Len(queue) < cap THEN Append(queue, msg) ELSE queue

\* After the boot: long before the host can open the port, reset_app() has
\* returned on core0 and core1 has gone through RESET once.
Init ==
  /\ pc0 = "idle" /\ pwmState = FALSE /\ pwmReady = {}
  /\ ctrl = <<>> /\ answers = <<>> /\ settings = <<>>
  /\ pc1 = "top" /\ state = "READY" /\ goal = "READY"
  /\ task = None /\ sched = "idle" /\ failed = FALSE
  /\ accepted = None /\ reply = <<"NONE", "NONE">> /\ event = FALSE
  /\ begun = FALSE /\ faults = {}
-----------------------------------------------------------------------------
(***************************************************************************)
(* core0.                                                                  *)
(***************************************************************************)
\* write_pwm_state(), the writes answered at once.
RefuseStart ==
  /\ pc0 = "idle" /\ (pwmState \/ pwmReady = {})
  /\ pwmState' = TRUE
  /\ reply' = <<"START", "WRITE_ERROR">>
  /\ UNCHANGED <<pc0, pwmReady, accepted, event, ctrl, answers, settings, core1Vars, begun, faults>>

RepeatStop ==
  /\ pc0 = "idle" /\ ~pwmState
  /\ reply' = <<"STOP", "WRITE">>
  /\ UNCHANGED <<pc0, pwmState, pwmReady, accepted, event, ctrl, answers, settings,
                 core1Vars, begun, faults>>

RefuseStop ==
  /\ pc0 = "idle" /\ pwmState /\ pwmReady = {}
  /\ pwmState' = FALSE
  /\ reply' = <<"STOP", "WRITE_ERROR">>
  /\ UNCHANGED <<pc0, pwmReady, accepted, event, ctrl, answers, settings, core1Vars, begun, faults>>

\* write_pwm_state() passes the command on and waits for core1.
SendCommand ==
  /\ pc0 = "idle" /\ pwmReady # {}
  /\ pwmState' = ~pwmState
  /\ ctrl' = TryAdd(ctrl, Command', CtrlCap)
  /\ pc0' = "waiting"
  /\ reply' = <<"NONE", "NONE">>
  /\ begun' = (begun /\ ~pwmState')
  /\ event' = (event /\ ~pwmState')
  /\ UNCHANGED <<pwmReady, accepted, answers, settings, core1Vars, faults>>

\* The answer that makes the command a success.
Expected == IF pwmState THEN "RUNNING" ELSE "READY"

TakeAnswer ==
  /\ pc0 = "waiting" /\ answers # <<>>
  /\ answers' = Tail(answers)
  /\ reply' = <<Command, IF Head(answers) = Expected THEN "WRITE" ELSE "WRITE_ERROR">>
  /\ pc0' = "idle"
  /\ UNCHANGED <<pwmState, pwmReady, accepted, event, ctrl, settings, core1Vars, begun, faults>>

\* Mutant: the timeout is too short.
TooShort == TRUE

\* core1 took the command and did not act on it.
NoAnswerComes ==
  ctrl = <<>> /\ pc1 \in {"top", "sync"} /\ goal = state /\ state # "RESET"

TimeOut ==
  /\ pc0 = "waiting" /\ answers = <<>>
  /\ \/ NoAnswerComes /\ UNCHANGED faults
     \/ ~NoAnswerComes /\ Occurs("late")
  /\ reply' = <<Command, "WRITE_ERROR">>
  /\ pc0' = "idle"
  /\ UNCHANGED <<pwmState, pwmReady, accepted, event, ctrl, answers, settings,
                 core1Vars, begun>>

\* write_any_pwm_settings(); with pwm_state set it only replies an error.
WriteSettings(p, c) ==
  /\ pc0 = "idle" /\ ~pwmState
  /\ pwmReady' = pwmReady \cup {p}
  /\ settings' = TryAdd(settings, [pin |-> p, config |-> c], SettingsCap)
  /\ accepted' = IF settings' # settings THEN With(accepted, p, c) ELSE accepted
  /\ UNCHANGED <<pc0, pwmState, reply, event, ctrl, answers, core1Vars, begun, faults>>

\* Mutant: a failure is not taken for an end.
ClearsOnlyOnReady(answer) == answer = "READY"

\* Mutant: READY is not taken for an end.
ClearsOnlyOnReset(answer) == answer = "RESET"

\* The answers after which no schedule plays.
ClearsState(answer) == answer \in {"RESET", "READY"}

\* Mutant: the EVENT is sent in the other branch.
AnnouncesReset(answer) == answer = "RESET"

\* The answers on which the host gets an EVENT: a schedule that failed ends in
\* RESET, for which none is sent.
Announces(answer) == answer = "READY"

\* update_app_state(), its part about core1.
UpdateAppState ==
  /\ pc0 = "idle" /\ answers # <<>>
  /\ answers' = Tail(answers)
  /\ pwmState' = (pwmState /\ ~ClearsState(Head(answers)))
  /\ pwmReady' = IF Head(answers) = "RESET" THEN {} ELSE pwmReady
  /\ event' = (event \/ Announces(Head(answers)))
  /\ UNCHANGED <<pc0, accepted, reply, ctrl, settings, core1Vars, begun, faults>>

\* reset_app() empties the queues one after the other, then the registers.
ResetApp ==
  /\ pc0 = "idle" /\ Occurs("reset")
  /\ pc0' = "reset"
  /\ UNCHANGED <<pwmState, pwmReady, accepted, reply, event, ctrl, answers, settings,
                 core1Vars, begun>>

DrainAnswers ==
  /\ pc0 = "reset"
  /\ answers' = <<>> /\ pc0' = "drain_ctrl"
  /\ UNCHANGED <<pwmState, pwmReady, accepted, reply, event, ctrl, settings, core1Vars, begun, faults>>

DrainCtrl ==
  /\ pc0 = "drain_ctrl"
  /\ ctrl' = <<>> /\ pc0' = "drain_settings"
  /\ UNCHANGED <<pwmState, pwmReady, accepted, reply, event, answers, settings,
                 core1Vars, begun, faults>>

ResetRegisters ==
  /\ pc0 = "drain_settings"
  /\ settings' = <<>>
  /\ pwmState' = FALSE /\ pwmReady' = {} /\ accepted' = None
  /\ reply' = <<"NONE", "NONE">>
  /\ pc0' = "idle"
  /\ UNCHANGED <<event, ctrl, answers, core1Vars, begun, faults>>

\* What core0 does without being asked by the host.
Core0Loop ==
  \/ TakeAnswer \/ TimeOut \/ UpdateAppState
  \/ DrainAnswers \/ DrainCtrl \/ ResetRegisters

Core0 ==
  \/ RefuseStart \/ RepeatStop \/ RefuseStop \/ SendCommand
  \/ \E p \in Pins, c \in Configs : WriteSettings(p, c)
  \/ ResetApp
  \/ Core0Loop
-----------------------------------------------------------------------------
(***************************************************************************)
(* core1: run_task_loop(), which takes at most one control message at its   *)
(* top, whatever the state does with it.                                   *)
(***************************************************************************)
\* Mutant: core1 looks at a message and leaves it in the queue.
PeekCtrl == ctrl' = ctrl

TakeCtrl == ctrl' = IF ctrl = <<>> THEN <<>> ELSE Tail(ctrl)
Asked(command) == ctrl # <<>> /\ Head(ctrl) = command

Reset ==
  /\ pc1 = "top" /\ state = "RESET"
  /\ TakeCtrl
  /\ failed' = FALSE /\ task' = None /\ sched' = "idle"
  /\ state' = "READY" /\ goal' = "READY"
  /\ UNCHANGED <<core0Vars, answers, settings, pc1, begun, faults>>

Ready ==
  /\ pc1 = "top" /\ state = "READY"
  /\ TakeCtrl
  /\ goal' = IF Asked("START") THEN "RUNNING" ELSE "READY"
  /\ pc1' = "sync"
  /\ UNCHANGED <<core0Vars, answers, settings, state, task, sched, failed, begun, faults>>

\* sync_schedule() takes the queued settings one by one.
SyncOne ==
  /\ pc1 = "sync" /\ settings # <<>>
  /\ task' = With(task, Head(settings).pin, Head(settings).config)
  /\ settings' = Tail(settings)
  /\ UNCHANGED <<core0Vars, ctrl, answers, pc1, state, goal, sched, failed, begun, faults>>

\* Mutant: one message is taken per call, not all of them.
SyncEndEarly ==
  /\ pc1 = "sync"
  /\ pc1' = IF goal = "RUNNING" THEN "start" ELSE "top"
  /\ UNCHANGED <<core0Vars, ctrl, answers, settings, state, goal, task, sched,
                 failed, begun, faults>>

SyncEnd ==
  /\ pc1 = "sync" /\ settings = <<>>
  /\ pc1' = IF goal = "RUNNING" THEN "start" ELSE "top"
  /\ UNCHANGED <<core0Vars, ctrl, answers, settings, state, goal, task, sched,
                 failed, begun, faults>>

\* update() may find a deadline missed.
MayMissDeadline ==
  \/ UNCHANGED <<failed, faults>>
  \/ failed' = TRUE /\ Occurs("failure")

Start ==
  /\ pc1 = "start"
  /\ sched' = "playing" /\ begun' = TRUE
  /\ MayMissDeadline
  /\ pc1' = "report"
  /\ UNCHANGED <<core0Vars, ctrl, answers, settings, state, goal, task>>

\* Mutant: core1 leaves RUNNING without stop().
NoStop == sched' = sched

\* "Must call stop to re-setup all tasks."
StopWhenReady == sched' = IF goal' = "READY" THEN "idle" ELSE sched

\* RUNNING: the next state, update(), and stop() on the way to READY.
Running ==
  /\ pc1 = "top" /\ state = "RUNNING"
  /\ TakeCtrl
  /\ goal' = IF failed THEN "RESET"
             ELSE IF sched = "ended" \/ Asked("STOP") THEN "READY" ELSE "RUNNING"
  /\ MayMissDeadline
  /\ StopWhenReady
  /\ pc1' = IF goal' = "RUNNING" THEN "top" ELSE "report"
  /\ UNCHANGED <<core0Vars, answers, settings, state, task, begun>>

\* Tell core0 the next state, unless the queue is full, and enter it.
Report ==
  /\ pc1 = "report"
  /\ answers' = TryAdd(answers, goal, AnswerCap)
  /\ state' = goal
  /\ pc1' = "top"
  /\ UNCHANGED <<core0Vars, ctrl, settings, goal, task, sched, failed, begun, faults>>

\* The last port event was applied.
ScheduleEnds ==
  /\ state = "RUNNING" /\ pc1 = "top" /\ sched = "playing"
  /\ sched' = "ended"
  /\ UNCHANGED <<core0Vars, ctrl, answers, settings, pc1, state, goal, task,
                 failed, begun, faults>>

Core1 == Reset \/ Ready \/ SyncOne \/ SyncEnd \/ Start \/ Running \/ Report

Next == Core0 \/ Core1 \/ ScheduleEnds

Spec == Init /\ [][Next]_vars

\* Both cores loop for ever; what the host writes and whether a schedule
\* ends is up to the host.
FairSpec == Spec /\ WF_vars(Core0Loop) /\ WF_vars(Core1)
-----------------------------------------------------------------------------
(***************************************************************************)
(* Properties.                                                             *)
(***************************************************************************)
\* The types, and the capacities of the queues.
TypeOK ==
  /\ pc0 \in {"idle", "waiting", "reset", "drain_ctrl", "drain_settings"}
  /\ pwmState \in BOOLEAN /\ pwmReady \subseteq Pins
  /\ ctrl \in Seq({"START", "STOP"}) /\ Len(ctrl) <= CtrlCap
  /\ answers \in Seq({"RESET", "READY", "RUNNING"}) /\ Len(answers) <= AnswerCap
  /\ settings \in Seq([pin : Pins, config : Configs]) /\ Len(settings) <= SettingsCap
  /\ pc1 \in {"top", "sync", "start", "report"}
  /\ state \in {"RESET", "READY", "RUNNING"} /\ goal \in {"RESET", "READY", "RUNNING"}
  /\ \A f \in {task, accepted} :
       DOMAIN f \subseteq Pins /\ f \in [DOMAIN f -> Configs]
  /\ sched \in {"idle", "playing", "ended"} /\ failed \in BOOLEAN
  /\ reply \in {"NONE", "START", "STOP"} \X {"NONE", "WRITE", "WRITE_ERROR"}
  /\ event \in BOOLEAN /\ begun \in BOOLEAN /\ faults \subseteq Faults

\* What holds for a host that met none of these faults.
Without(troubles, holds) == faults \cap troubles = {} => holds

AnyFault == {"failure", "reset", "late"}

\* A schedule plays exactly the settings the host was told are written: a
\* START never overtakes them, though they travel in another queue, and none
\* reaches a schedule that plays (core1_main.cpp:33, 119-126;
\* cuttlefish_app.cpp:193-199, 213).
RunsWhatWasAccepted == Without(AnyFault, sched = "playing" => task = accepted)

\* queue_try_add() never fails for a command or an answer, whose senders
\* ignore the result (cuttlefish_app.cpp:163, core1_main.cpp:126, 137).
NoMessageDropped ==
  Without({"reset", "late"},
          /\ pc0 = "idle" => Len(ctrl) < CtrlCap
          /\ pc1 = "report" => Len(answers) < AnswerCap)

\* core1 has a START in hand or runs a schedule, and has yet to report an end.
Engaged == state = "RUNNING" \/ goal = "RUNNING"

\* The answer to a START is core1's report that it took this START: what was
\* said of earlier schedules has been read before the START goes out, or is
\* still behind it.  The answer to a STOP may be a report that the schedule
\* ended by itself (cuttlefish_app.cpp:163-184 takes whatever comes), but it is
\* the last there is: core1 is done with the schedule, and no second answer
\* stays for the next command.  With missed deadlines or without.
AnswersMatch ==
  Without({"reset", "late"},
    /\ pc0 = "idle" /\ ~pwmState => answers = <<>>
    /\ pc0 = "waiting" /\ answers # <<>> =>
         IF pwmState THEN Head(answers) = "RUNNING" /\ ctrl = <<>>
         ELSE Len(answers) = 1 /\ Head(answers) \in {"READY", "RESET"} /\ ~Engaged)

\* A successful START has started a schedule, after a successful STOP none
\* plays, or only up to the reset() that core1 is about to do ("Write zero to
\* stop the schedule", device.yml:61-62).
AcksAreHonest ==
  /\ reply = <<"START", "WRITE">> => begun
  /\ reply = <<"STOP", "WRITE">>  => sched # "playing" \/ state = "RESET"

\* The same, missed deadlines or not, until the host resets the app.
AcksAreHonestUnlessReset == Without({"reset", "late"}, AcksAreHonest)

\* No core is in the middle of something and no message is on its way.
Quiet ==
  pc0 = "idle" /\ pc1 = "top" /\ ctrl = <<>> /\ answers = <<>> /\ state # "RESET"

\* With no message on its way core1 plays no schedule that the PwmState
\* register denies: the host can still stop what plays (cuttlefish_app.cpp:148).
IdleMeansStopped ==
  Without({"reset", "late"}, Quiet /\ ~pwmState => state # "RUNNING")

\* With no message on its way, settings are refused as busy only while core1
\* is ("Error if core1 is busy", cuttlefish_app.cpp:193).
BusyMeansRunning == Quiet /\ pwmState => state = "RUNNING"

\* The same for a host that sent settings before it sent START.
BusyMeansRunningOnceReady ==
  Without(AnyFault, pwmReady # {} => BusyMeansRunning)

\* No schedule is started without a task ("Error if we have never specified
\* any PWM Settings", cuttlefish_app.cpp:154), also by a host that resets the
\* app at any moment or sends commands faster than core1 answers.
StartsSomething ==
  faults \in {{}, {"reset"}, {"late"}} => (sched = "playing" => task # None)

\* A schedule that plays to its end is announced by an EVENT, unless the host
\* stopped it meanwhile ("Receive an event with payload=0 when the pwm schedule
\* has finished", device.yml:61-62; cuttlefish_app.cpp:293-297), even if its last
\* update() misses a deadline, until an answer comes late or the host resets the app.
EndIsReported ==
  sched = "ended" /\ ~failed /\ state = "RUNNING" ~>
    event \/ reply[1] = "STOP" \/ faults \cap {"reset", "late"} # {}

\* A schedule that failed, for which no EVENT is sent (cuttlefish_app.cpp:288-292),
\* is at least cleared from PwmState, until an answer comes late or the host
\* resets the app.
FailureIsCleared ==
  failed /\ state = "RUNNING" ~> ~pwmState \/ faults \cap {"reset", "late"} # {}
=============================================================================
