--------------------------- MODULE ControlProofs ---------------------------
(***************************************************************************)
(* Theorems about Control, for any pins, settings and queue capacities.     *)
(***************************************************************************)
EXTENDS Control, SequenceTheorems, TLAPS

\* Where core1 is tells what it intends and how the schedule stands.
CoreInv ==
  /\ pc1 = "top" => goal = state
  /\ pc1 \in {"sync", "start"} => state = "READY" /\ goal \in {"READY", "RUNNING"}
  /\ pc1 = "start" => goal = "RUNNING"
  /\ pc1 = "report" => \/ state = "READY" /\ goal = "RUNNING" /\ sched # "idle"
                       \/ state = "RUNNING" /\ goal = "READY" /\ sched = "idle"
                       \/ state = "RUNNING" /\ goal = "RESET" /\ sched # "idle"
  /\ state = "READY" /\ pc1 # "report" => sched = "idle"
  /\ state = "RUNNING" /\ pc1 = "top" => sched # "idle"

\* A reset of core1 comes from a missed deadline.
FailureInv ==
  "failure" \notin faults =>
    /\ ~failed /\ goal # "RESET" /\ state # "RESET"
    /\ \A i \in 1 .. Len(answers) : answers[i] # "RESET"

\* The phases of the conversation of a host that neither resets the app nor
\* meets a late answer, by what is on its way between the cores.
Resting(command) == pc0 = "idle" /\ Command = command
Waiting(command) == pc0 = "waiting" /\ Command = command
Accepting == state = "READY" /\ goal = "RUNNING"
Silent == ctrl = <<>> /\ answers = <<>>

Started == Resting("START") /\ Silent /\ ~Accepting
EndReported ==
  /\ Resting("START") /\ ctrl = <<>> /\ ~Engaged
  /\ answers \in {<<"READY">>, <<"RESET">>}
Stopped ==
  Resting("STOP") /\ ctrl \in {<<>>, <<"STOP">>} /\ answers = <<>> /\ ~Engaged
StartSent ==
  /\ Waiting("START") /\ answers = <<>> /\ ~Engaged
  /\ ctrl \in {<<"START">>, <<"STOP", "START">>}
StartLost == Waiting("START") /\ Silent /\ ~Engaged
StartTaken == Waiting("START") /\ Silent /\ Accepting
StartReported ==
  /\ Waiting("START") /\ ctrl = <<>>
  /\ \/ answers = <<"RUNNING">> /\ state = "RUNNING"
     \/ answers \in {<<"RUNNING", "READY">>, <<"RUNNING", "RESET">>} /\ ~Engaged
StopSent == Waiting("STOP") /\ ctrl = <<"STOP">> /\ answers = <<>> /\ ~Accepting
StopTaken == Waiting("STOP") /\ Silent /\ goal # "RUNNING"
StopReported ==
  /\ Waiting("STOP") /\ ctrl \in {<<>>, <<"STOP">>} /\ ~Engaged
  /\ answers \in {<<"READY">>, <<"RESET">>}

InPhase ==
  \/ Started \/ EndReported \/ Stopped
  \/ StartSent \/ StartLost \/ StartTaken \/ StartReported
  \/ StopSent \/ StopTaken \/ StopReported

\* Something is on its way, or core1 has something to report.
InTalk == pc0 = "waiting" \/ ctrl # <<>> \/ answers # <<>> \/ Engaged

\* Nothing is sent for a host without settings, and core1 takes all settings
\* before it plays.
TalkInv ==
  Without({"reset", "late"},
    /\ InPhase
    /\ InTalk => pwmReady # {}
    /\ state = "RUNNING" \/ pc1 \in {"start", "report"} => settings = <<>>)

\* What the replies say.
AckInv ==
  Without({"reset", "late"},
    /\ reply = <<"START", "WRITE">> => begun
    /\ Waiting("START") /\ (answers # <<>> \/ pc1 = "report") => begun
    /\ reply = <<"STOP", "WRITE">> => Resting("STOP"))

\* Without failures no START is lost.
BusyInv ==
  Without(AnyFault,
    /\ Started /\ pwmReady # {} => state = "RUNNING"
    /\ ~StartLost)

\* The tasks, overwritten by the queued settings in their order, are what the
\* host was told.
NoneFrom(k, p) == \A j \in k .. Len(settings) : settings[j].pin # p
SettingsInv ==
  Without(AnyFault,
    /\ DOMAIN task \subseteq DOMAIN accepted
    /\ \A i \in 1 .. Len(settings) : settings[i].pin \in DOMAIN accepted
    /\ \A p \in DOMAIN accepted :
         \/ \E i \in 1 .. Len(settings) :
              settings[i] = [pin |-> p, config |-> accepted[p]] /\ NoneFrom(i + 1, p)
         \/ NoneFrom(1, p) /\ p \in DOMAIN task /\ task[p] = accepted[p])

\* Before the first task.
Asks == goal = "RUNNING" \/ \E i \in 1 .. Len(ctrl) : ctrl[i] = "START"
FirstInv ==
  faults \in {{}, {"reset"}, {"late"}} /\ task = None =>
    /\ state = "READY" /\ answers = <<>> /\ pc1 \in {"top", "sync"}
    /\ settings = <<>> => pwmReady = {} /\ ~Asks
    /\ "reset" \in faults /\ Asks => pc0 = "waiting"
    /\ "reset" \notin faults => pc0 \in {"idle", "waiting"}
-----------------------------------------------------------------------------
(***************************************************************************)
(* Queues of at most two messages, and settings overwritten.               *)
(***************************************************************************)
LEMMA AppendSecond == ASSUME NEW a, NEW b PROVE Append(<<a>>, b) = <<a, b>>
<1> DEFINE S == {a, b}
           s == Append(<<a>>, b)
           t == <<a, b>>
<1>1. <<a>> \in Seq(S) /\ Len(<<a>>) = 1 /\ t \in Seq(S) /\ Len(t) = 2 /\ t[1] = a /\ t[2] = b
  OBVIOUS
<1>2. s \in Seq(S) /\ Len(s) = 2 /\ s[1] = a /\ s[2] = b
  BY <1>1
<1> HIDE DEF s, t, S
<1>3. \A i \in 1 .. Len(s) : s[i] = t[i]
  BY <1>1, <1>2
<1> QED
  BY <1>1, <1>2, <1>3, SeqEqual DEF s, t

LEMMA TakeFirst ==
  ASSUME NEW a, NEW b
  PROVE  /\ Head(<<a>>) = a /\ Tail(<<a>>) = <<>> /\ <<a>> # <<>>
         /\ Head(<<a, b>>) = a /\ Tail(<<a, b>>) = <<b>> /\ <<a, b>> # <<>>
OBVIOUS

\* The messages' own sequences.
LEMMA Literals ==
  /\ \A a \in {"START", "STOP", "READY", "RESET", "RUNNING"} :
       Head(<<a>>) = a /\ Tail(<<a>>) = <<>> /\ <<a>> # <<>>
  /\ Tail(<<"RUNNING", "READY">>) = <<"READY">> /\ <<"RUNNING", "READY">> # <<>>
  /\ Tail(<<"RUNNING", "RESET">>) = <<"RESET">> /\ <<"RUNNING", "RESET">> # <<>>
  /\ Tail(<<"STOP", "START">>) = <<"START">> /\ <<"STOP", "START">> # <<>>
  /\ Head(<<"RUNNING", "READY">>) = "RUNNING" /\ Head(<<"RUNNING", "RESET">>) = "RUNNING"
  /\ Head(<<"STOP", "START">>) = "STOP"
BY TakeFirst

\* Where there is room for two, the first two messages find it.
LEMMA RoomForTwo ==
  ASSUME NEW a, NEW b, NEW cap \in Nat, cap > 1
  PROVE  TryAdd(<<>>, a, cap) = <<a>> /\ TryAdd(<<a>>, b, cap) = <<a, b>>
<1>1. Len(<<>>) = 0 /\ Len(<<a>>) = 1 /\ Append(<<>>, a) = <<a>>
  OBVIOUS
<1> QED
  BY <1>1, AppendSecond DEF TryAdd

LEMMA TryAddType ==
  ASSUME NEW S, NEW queue \in Seq(S), NEW msg \in S, NEW cap \in Nat, Len(queue) <= cap
  PROVE  /\ TryAdd(queue, msg, cap) \in Seq(S)
         /\ Len(TryAdd(queue, msg, cap)) <= cap
BY AppendProperties, LenProperties DEF TryAdd

LEMMA TailType ==
  ASSUME NEW S, NEW queue \in Seq(S), queue # <<>>
  PROVE  /\ Head(queue) \in S /\ Tail(queue) \in Seq(S)
         /\ Len(queue) \in Nat /\ Len(queue) >= 1 /\ Len(Tail(queue)) = Len(queue) - 1
         /\ \A i \in 1 .. Len(queue) - 1 : Tail(queue)[i] = queue[i + 1]
         /\ Head(queue) = queue[1]
BY HeadTailProperties, LenProperties

IsTable(f) == DOMAIN f \subseteq Pins /\ f \in [DOMAIN f -> Configs]

LEMMA WithType ==
  ASSUME NEW f, IsTable(f), NEW p \in Pins, NEW c \in Configs
  PROVE  /\ IsTable(With(f, p, c))
         /\ DOMAIN With(f, p, c) = DOMAIN f \cup {p}
         /\ With(f, p, c)[p] = c
         /\ \A q \in DOMAIN f \ {p} : With(f, p, c)[q] = f[q]
BY DEF With, IsTable

LEMMA NoneType == IsTable(None) /\ DOMAIN None = {}
BY DEF None, IsTable
-----------------------------------------------------------------------------
(***************************************************************************)
(* Types.                                                                  *)
(***************************************************************************)
Core0Types ==
  /\ pc0 \in {"idle", "waiting", "reset", "drain_ctrl", "drain_settings"}
  /\ pwmState \in BOOLEAN /\ pwmReady \subseteq Pins
  /\ IsTable(accepted)
  /\ reply \in {"NONE", "START", "STOP"} \X {"NONE", "WRITE", "WRITE_ERROR"}
  /\ event \in BOOLEAN

Messages == [pin : Pins, config : Configs]

QueueTypes ==
  /\ ctrl \in Seq({"START", "STOP"}) /\ Len(ctrl) <= CtrlCap
  /\ answers \in Seq({"RESET", "READY", "RUNNING"}) /\ Len(answers) <= AnswerCap
  /\ settings \in Seq(Messages) /\ Len(settings) <= SettingsCap

Core1Types ==
  /\ pc1 \in {"top", "sync", "start", "report"}
  /\ state \in {"RESET", "READY", "RUNNING"} /\ goal \in {"RESET", "READY", "RUNNING"}
  /\ IsTable(task)
  /\ sched \in {"idle", "playing", "ended"} /\ failed \in BOOLEAN

TypeInv == Core0Types /\ QueueTypes /\ Core1Types /\ begun \in BOOLEAN /\ faults \subseteq Faults

LEMMA TypeInvIsTypeOK == TypeInv <=> TypeOK
BY Zenon DEF TypeInv, Core0Types, QueueTypes, Core1Types, TypeOK, IsTable, Messages

LEMMA TypeInit == Init => TypeInv
<1> SUFFICES ASSUME Init PROVE TypeInv
  OBVIOUS
<1>1. Core0Types
  BY NoneType DEF Init, Core0Types
<1>2. QueueTypes
  BY CapacityAssumption DEF Init, QueueTypes
<1>3. Core1Types
  BY NoneType DEF Init, Core1Types
<1> QED
  BY <1>1, <1>2, <1>3 DEF Init, TypeInv

\* What a core leaves alone keeps its type.
LEMMA TypesKept ==
  ASSUME TypeInv
  PROVE  /\ UNCHANGED core0Vars => Core0Types'
         /\ UNCHANGED core1Vars => Core1Types'
         /\ UNCHANGED <<ctrl, answers, settings>> => QueueTypes'
BY DEF TypeInv, Core0Types, QueueTypes, Core1Types, core0Vars, core1Vars, IsTable

LEMMA TypeCore0 == TypeInv /\ Core0 => TypeInv'
<1> SUFFICES ASSUME TypeInv, Core0 PROVE TypeInv'
  OBVIOUS
<1>0. CtrlCap \in Nat /\ AnswerCap \in Nat /\ SettingsCap \in Nat
  BY CapacityAssumption
<1>a. UNCHANGED accepted => IsTable(accepted)'
  BY DEF TypeInv, Core0Types, IsTable
<1>1. CASE RefuseStart \/ RepeatStop \/ RefuseStop
  <2>1. Core0Types'
    <3>1. pwmState' \in BOOLEAN
      BY <1>1, Zenon DEF RefuseStart, RepeatStop, RefuseStop, TypeInv, Core0Types
    <3> QED
      BY <1>1, <1>a, <3>1 DEF RefuseStart, RepeatStop, RefuseStop, TypeInv, Core0Types
  <2> QED
    BY <1>1, <2>1, TypesKept DEF RefuseStart, RepeatStop, RefuseStop, TypeInv
<1>2. CASE SendCommand
  <2>1. ctrl' \in Seq({"START", "STOP"}) /\ Len(ctrl') <= CtrlCap
    BY <1>0, <1>2, TryAddType DEF SendCommand, Command, TypeInv, QueueTypes
  <2>2. Core0Types' /\ QueueTypes'
    BY <1>2, <1>a, <2>1 DEF SendCommand, TypeInv, Core0Types, QueueTypes
  <2> QED
    BY <1>2, <2>2, TypesKept DEF SendCommand, TypeInv
<1>3. CASE TakeAnswer \/ UpdateAppState
  <2>1. answers # <<>> /\ answers' = Tail(answers)
    BY <1>3 DEF TakeAnswer, UpdateAppState
  <2>2. answers' \in Seq({"RESET", "READY", "RUNNING"}) /\ Len(answers') <= AnswerCap
    BY <1>0, <2>1, TailType DEF TypeInv, QueueTypes
  <2>3. QueueTypes'
    BY <1>3, <2>2 DEF TakeAnswer, UpdateAppState, TypeInv, QueueTypes
  <2>4. pwmState' \in BOOLEAN
    BY <1>3, Zenon DEF TakeAnswer, UpdateAppState, TypeInv, Core0Types
  <2>b. event' \in BOOLEAN
    BY <1>3, Zenon DEF TakeAnswer, UpdateAppState, TypeInv, Core0Types
  <2>5. Core0Types'
    BY <1>3, <1>a, <2>4, <2>b DEF TakeAnswer, UpdateAppState, Command, TypeInv, Core0Types
  <2> QED
    BY <1>3, <2>3, <2>5, TypesKept DEF TakeAnswer, UpdateAppState, TypeInv
<1>4. CASE TimeOut
  <2>1. faults' \subseteq Faults
    BY <1>4 DEF TimeOut, Occurs, TypeInv
  <2>2. Core0Types'
    BY <1>4, <1>a DEF TimeOut, Command, TypeInv, Core0Types
  <2> QED
    BY <1>4, <2>1, <2>2, TypesKept DEF TimeOut, TypeInv
<1>5. ASSUME NEW p \in Pins, NEW c \in Configs, WriteSettings(p, c) PROVE TypeInv'
  <2>a. [pin |-> p, config |-> c] \in Messages
    BY DEF Messages
  <2>b. settings' = TryAdd(settings, [pin |-> p, config |-> c], SettingsCap)
    BY <1>5 DEF WriteSettings
  <2>1. settings' \in Seq(Messages) /\ Len(settings') <= SettingsCap
    BY <1>0, <2>a, <2>b, TryAddType DEF TypeInv, QueueTypes
  <2>2. IsTable(accepted)'
    BY <1>5, WithType, Zenon DEF WriteSettings, TypeInv, Core0Types, IsTable
  <2>3. Core0Types' /\ QueueTypes'
    BY <1>5, <2>1, <2>2 DEF WriteSettings, TypeInv, Core0Types, QueueTypes
  <2> QED
    BY <1>5, <2>3, TypesKept DEF WriteSettings, TypeInv
<1>6. CASE ResetApp
  <2>1. Core0Types'
    BY <1>6, <1>a DEF ResetApp, TypeInv, Core0Types
  <2> QED
    BY <1>6, <2>1, TypesKept DEF ResetApp, Occurs, TypeInv
<1>7. CASE DrainAnswers \/ DrainCtrl
  <2>1. Core0Types'
    BY <1>7, <1>a DEF DrainAnswers, DrainCtrl, TypeInv, Core0Types
  <2>2. QueueTypes'
    <3>1. <<>> \in Seq({"START", "STOP"}) /\ <<>> \in Seq({"RESET", "READY", "RUNNING"})
          /\ Len(<<>>) = 0
      OBVIOUS
    <3>2. CASE DrainAnswers
      BY <1>0, <3>1, <3>2 DEF DrainAnswers, TypeInv, QueueTypes
    <3>3. CASE DrainCtrl
      BY <1>0, <3>1, <3>3 DEF DrainCtrl, TypeInv, QueueTypes
    <3> QED
      BY <1>7, <3>2, <3>3
  <2> QED
    BY <1>7, <2>1, <2>2, TypesKept DEF DrainAnswers, DrainCtrl, TypeInv
<1>8. CASE ResetRegisters
  <2>1. IsTable(accepted)'
    BY <1>8, NoneType DEF ResetRegisters, IsTable
  <2>2. Core0Types'
    BY <1>8, <2>1 DEF ResetRegisters, TypeInv, Core0Types
  <2>3. QueueTypes'
    BY <1>0, <1>8 DEF ResetRegisters, TypeInv, QueueTypes
  <2> QED
    BY <1>8, <2>2, <2>3, TypesKept DEF ResetRegisters, TypeInv
<1> QED
  BY <1>1, <1>2, <1>3, <1>4, <1>5, <1>6, <1>7, <1>8, Zenon DEF Core0, Core0Loop

LEMMA TypeCore1 == TypeInv /\ (Core1 \/ ScheduleEnds) => TypeInv'
<1> SUFFICES ASSUME TypeInv, Core1 \/ ScheduleEnds PROVE TypeInv'
  OBVIOUS
<1>0. CtrlCap \in Nat /\ AnswerCap \in Nat /\ SettingsCap \in Nat
  BY CapacityAssumption
<1>1. TakeCtrl => ctrl' \in Seq({"START", "STOP"}) /\ Len(ctrl') <= CtrlCap
  BY <1>0, TailType DEF TakeCtrl, TypeInv, QueueTypes
<1>2. MayMissDeadline => failed' \in BOOLEAN /\ faults' \subseteq Faults
  BY DEF MayMissDeadline, Occurs, TypeInv, Core1Types
<1>a. UNCHANGED task => IsTable(task)'
  BY DEF TypeInv, Core1Types, IsTable
<1>3. CASE Reset
  <2>1. IsTable(task)'
    BY <1>3, NoneType DEF Reset, IsTable
  <2>2. Core1Types' /\ QueueTypes'
    BY <1>1, <1>3, <2>1 DEF Reset, TypeInv, QueueTypes, Core1Types
  <2> QED
    BY <1>3, <2>2, TypesKept DEF Reset, TypeInv
<1>4. CASE Ready
  <2>1. Core1Types' /\ QueueTypes'
    BY <1>1, <1>4, <1>a DEF Ready, TypeInv, QueueTypes, Core1Types
  <2> QED
    BY <1>4, <2>1, TypesKept DEF Ready, TypeInv
<1>5. CASE SyncOne
  <2>1. settings # <<>> /\ settings' = Tail(settings)
    BY <1>5 DEF SyncOne
  <2>a. settings' \in Seq(Messages) /\ Len(settings') <= SettingsCap
        /\ Head(settings) \in Messages
    BY <1>0, <2>1, TailType DEF TypeInv, QueueTypes
  <2>2. settings' \in Seq(Messages) /\ Len(settings') <= SettingsCap
        /\ Head(settings).pin \in Pins /\ Head(settings).config \in Configs
    BY <2>a DEF Messages
  <2>3. IsTable(task)'
    BY <1>5, <2>2, WithType, Zenon DEF SyncOne, TypeInv, Core1Types, IsTable
  <2>4. Core1Types' /\ QueueTypes'
    BY <1>5, <2>2, <2>3 DEF SyncOne, TypeInv, QueueTypes, Core1Types
  <2> QED
    BY <1>5, <2>4, TypesKept DEF SyncOne, TypeInv
<1>6. CASE SyncEnd
  <2>1. Core1Types'
    BY <1>6, <1>a DEF SyncEnd, TypeInv, Core1Types
  <2> QED
    BY <1>6, <2>1, TypesKept DEF SyncEnd, TypeInv
<1>7. CASE Start
  <2>1. Core1Types'
    BY <1>2, <1>7, <1>a DEF Start, TypeInv, Core1Types
  <2> QED
    BY <1>2, <1>7, <2>1, TypesKept DEF Start, TypeInv
<1>8. CASE Running
  <2>1. Core1Types' /\ QueueTypes'
    BY <1>1, <1>2, <1>8, <1>a DEF Running, StopWhenReady, TypeInv, QueueTypes, Core1Types
  <2> QED
    BY <1>2, <1>8, <2>1, TypesKept DEF Running, TypeInv
<1>9. CASE Report
  <2>1. answers' \in Seq({"RESET", "READY", "RUNNING"}) /\ Len(answers') <= AnswerCap
    BY <1>0, <1>9, TryAddType DEF Report, TypeInv, QueueTypes, Core1Types
  <2>2. Core1Types' /\ QueueTypes'
    BY <1>9, <1>a, <2>1 DEF Report, TypeInv, QueueTypes, Core1Types
  <2> QED
    BY <1>9, <2>2, TypesKept DEF Report, TypeInv
<1>10. CASE ScheduleEnds
  <2>1. Core1Types'
    BY <1>10, <1>a DEF ScheduleEnds, TypeInv, Core1Types
  <2> QED
    BY <1>10, <2>1, TypesKept DEF ScheduleEnds, TypeInv
<1> QED
  BY <1>3, <1>4, <1>5, <1>6, <1>7, <1>8, <1>9, <1>10, Zenon DEF Core1

LEMMA TypeStep == TypeInv /\ [Next]_vars => TypeInv'
<1> SUFFICES ASSUME TypeInv, [Next]_vars PROVE TypeInv'
  OBVIOUS
<1>1. CASE UNCHANGED vars
  BY <1>1 DEF vars, core0Vars, core1Vars, TypeInv, Core0Types, QueueTypes, Core1Types, IsTable
<1> QED
  BY <1>1, TypeCore0, TypeCore1, Zenon DEF Next

\* Every variable keeps its type and every queue its capacity, with all faults
\* (cuttlefish_app.cpp:134-327, core1_main.cpp:27-144).
THEOREM ControlTypes == Spec => []TypeOK
<1>1. TypeInv => TypeOK
  BY TypeInvIsTypeOK
<1> QED
  BY <1>1, TypeInit, TypeStep, PTL DEF Spec
-----------------------------------------------------------------------------
(***************************************************************************)
(* core1's own state, and where resets come from.                          *)
(***************************************************************************)
LEMMA FaultsStay == [Next]_vars => faults \subseteq faults'
BY DEF Next, vars, Core0, Core0Loop, Core1, RefuseStart, RepeatStop, RefuseStop, SendCommand,
       TakeAnswer, TimeOut, WriteSettings, UpdateAppState, ResetApp, DrainAnswers, DrainCtrl,
       ResetRegisters, Reset, Ready, SyncOne, SyncEnd, Start, Running, Report, ScheduleEnds,
       MayMissDeadline, Occurs

LEMMA Core0LeavesCore1 == Core0 => UNCHANGED core1Vars
BY DEF Core0, Core0Loop, RefuseStart, RepeatStop, RefuseStop, SendCommand, TakeAnswer, TimeOut,
       WriteSettings, UpdateAppState, ResetApp, DrainAnswers, DrainCtrl, ResetRegisters

LEMMA Core1LeavesCore0 == Core1 \/ ScheduleEnds => UNCHANGED core0Vars
BY DEF Core1, Reset, Ready, SyncOne, SyncEnd, Start, Running, Report, ScheduleEnds

LEMMA CoreInit == Init => CoreInv /\ FailureInv
BY DEF Init, CoreInv, FailureInv

LEMMA CoreStep == TypeInv /\ CoreInv /\ [Next]_vars => CoreInv'
<1> SUFFICES ASSUME TypeInv, CoreInv, [Next]_vars PROVE CoreInv'
  OBVIOUS
<1> USE DEF CoreInv
<1>1. CASE UNCHANGED core1Vars
  BY <1>1 DEF core1Vars
<1>2. CASE Reset
  BY <1>2 DEF Reset
<1>3. CASE Ready
  BY <1>3 DEF Ready
<1>4. CASE SyncOne \/ SyncEnd
  BY <1>4 DEF SyncOne, SyncEnd
<1>5. CASE Start
  BY <1>5 DEF Start
<1>6. CASE Running
  BY <1>6 DEF Running, StopWhenReady
<1>7. CASE Report
  BY <1>7 DEF Report
<1>8. CASE ScheduleEnds
  BY <1>8 DEF ScheduleEnds
<1> QED
  BY <1>1, <1>2, <1>3, <1>4, <1>5, <1>6, <1>7, <1>8, Core0LeavesCore1, Zenon
     DEF Next, Core1, vars

\* Without a failure core1 is not reset and reports no reset.
NoReset == \A i \in 1 .. Len(answers) : answers[i] # "RESET"

LEMMA FailureStep == TypeInv /\ CoreInv /\ FailureInv /\ [Next]_vars => FailureInv'
<1> SUFFICES ASSUME TypeInv, CoreInv, FailureInv, [Next]_vars, "failure" \notin faults'
             PROVE  ~failed' /\ goal' # "RESET" /\ state' # "RESET" /\ NoReset'
  BY DEF FailureInv, NoReset
<1>1. "failure" \notin faults /\ ~failed /\ goal # "RESET" /\ state # "RESET" /\ NoReset
  BY FaultsStay DEF FailureInv, NoReset
<1>2. answers \in Seq({"RESET", "READY", "RUNNING"}) /\ Len(answers) \in Nat
  BY LenProperties DEF TypeInv, QueueTypes
<1>3. ~failed' /\ goal' # "RESET" /\ state' # "RESET"
  <2>1. CASE UNCHANGED core1Vars
    BY <1>1, <2>1 DEF core1Vars
  <2>2. CASE Core1 \/ ScheduleEnds
    BY <1>1, <2>2 DEF Core1, Reset, Ready, SyncOne, SyncEnd, Start, Running, Report,
                      ScheduleEnds, MayMissDeadline, Occurs
  <2> QED
    BY <2>1, <2>2, Core0LeavesCore1, Zenon DEF Next, vars
<1>4. NoReset'
  <2>1. CASE answers' = answers
    BY <1>1, <2>1 DEF NoReset
  <2>2. CASE answers # <<>> /\ answers' = Tail(answers)
    BY <1>1, <1>2, <2>2, TailType DEF NoReset
  <2>3. CASE answers' = <<>>
    BY <2>3 DEF NoReset
  <2>4. CASE Report
    <3>1. CASE Len(answers) < AnswerCap
      <4>1. answers' = Append(answers, goal)
        BY <2>4, <3>1 DEF Report, TryAdd
      <4> QED
        BY <1>1, <1>2, <4>1, AppendProperties DEF NoReset, TypeInv, Core1Types
    <3> QED
      BY <2>1, <2>4, <3>1 DEF Report, TryAdd
  <2> QED
    BY <2>1, <2>2, <2>3, <2>4
       DEF Next, vars, Core0, Core0Loop, Core1, RefuseStart, RepeatStop, RefuseStop, SendCommand,
           TakeAnswer, TimeOut, WriteSettings, UpdateAppState, ResetApp, DrainAnswers, DrainCtrl,
           ResetRegisters, Reset, Ready, SyncOne, SyncEnd, Start, Running, ScheduleEnds
<1> QED
  BY <1>3, <1>4
-----------------------------------------------------------------------------
(***************************************************************************)
(* The phases of the conversation.                                         *)
(***************************************************************************)
LEMMA TalkInit == Init => TalkInv
<1> SUFFICES ASSUME Init PROVE InPhase /\ ~InTalk /\ settings = <<>>
  BY DEF TalkInv, Without
<1>1. Stopped
  BY DEF Init, Stopped, Resting, Command, Engaged
<1>2. ~InTalk /\ settings = <<>>
  BY DEF Init, InTalk, Engaged
<1> QED
  BY <1>1, <1>2 DEF InPhase

IdlePhase == Started \/ EndReported \/ Stopped
StartPhase == StartSent \/ StartLost \/ StartTaken \/ StartReported
StopPhase == StopSent \/ StopTaken \/ StopReported

LEMMA PhaseOf ==
  ASSUME InPhase
  PROVE  /\ pc0 = "idle" => IdlePhase
         /\ pc0 = "waiting" /\ pwmState => StartPhase
         /\ pc0 = "waiting" /\ ~pwmState => StopPhase
         /\ pc0 \in {"idle", "waiting"}
BY DEF InPhase, IdlePhase, StartPhase, StopPhase, Started, EndReported, Stopped, StartSent,
       StartLost, StartTaken, StartReported, StopSent, StopTaken, StopReported, Resting,
       Waiting, Command

\* The host's writes.
LEMMA PhaseHost ==
  ASSUME TypeInv, InPhase, InTalk => pwmReady # {},
         RefuseStart \/ RepeatStop \/ RefuseStop \/ SendCommand
           \/ \E p \in Pins, c \in Configs : WriteSettings(p, c)
  PROVE  InPhase'
<1>1. CASE SendCommand
  <2>1. CtrlCap \in Nat /\ CtrlCap > 1
    BY CapacityAssumption, RoomAssumption
  <2>2. IdlePhase /\ pc0 = "idle"
    BY <1>1, PhaseOf DEF SendCommand
  <2>3. /\ pc0' = "waiting" /\ pwmState' = ~pwmState
        /\ UNCHANGED <<answers, state, goal>>
        /\ ctrl' = TryAdd(ctrl, Command', CtrlCap)
    BY <1>1 DEF SendCommand, core1Vars
  <2>4. CASE Started
    <3>1. ctrl' = <<"STOP">>
      BY <2>1, <2>3, <2>4, RoomForTwo DEF Started, Silent, Resting, Command
    <3> QED
      BY <2>3, <2>4, <3>1 DEF InPhase, Started, StopSent, Silent, Resting, Waiting, Command,
                              Accepting
  <2>5. CASE EndReported
    <3>1. ctrl' = <<"STOP">>
      BY <2>1, <2>3, <2>5, RoomForTwo DEF EndReported, Resting, Command
    <3> QED
      BY <2>3, <2>5, <3>1 DEF InPhase, EndReported, StopReported, Resting, Waiting, Command,
                              Engaged
  <2>6. CASE Stopped
    <3>1. ctrl' \in {<<"START">>, <<"STOP", "START">>}
      BY <2>1, <2>3, <2>6, RoomForTwo DEF Stopped, Resting, Command
    <3> QED
      BY <2>3, <2>6, <3>1 DEF InPhase, Stopped, StartSent, Resting, Waiting, Command, Engaged
  <2> QED
    BY <2>2, <2>4, <2>5, <2>6 DEF IdlePhase
<1>2. CASE RefuseStart
  <2>1. IdlePhase /\ pc0 = "idle" /\ (pwmState \/ ctrl = <<>>)
    BY <1>2, PhaseOf DEF RefuseStart, InTalk
  <2>2. pwmState' = TRUE /\ UNCHANGED <<pc0, ctrl, answers, state, goal>>
    BY <1>2 DEF RefuseStart, core1Vars
  <2> QED
    BY <2>1, <2>2 DEF InPhase, IdlePhase, Started, EndReported, Stopped, Silent, Resting,
                      Command, Accepting, Engaged
<1>3. CASE RefuseStop
  <2>1. IdlePhase /\ pc0 = "idle" /\ pwmState /\ Silent /\ ~Engaged
    BY <1>3, PhaseOf DEF RefuseStop, InTalk, Silent
  <2>2. pwmState' = FALSE /\ UNCHANGED <<pc0, ctrl, answers, state, goal>>
    BY <1>3 DEF RefuseStop, core1Vars
  <2> QED
    BY <2>1, <2>2 DEF InPhase, Stopped, Silent, Resting, Command, Engaged
<1>4. CASE RepeatStop \/ \E p \in Pins, c \in Configs : WriteSettings(p, c)
  <2>1. UNCHANGED <<pc0, pwmState, ctrl, answers, state, goal>>
    BY <1>4 DEF RepeatStop, WriteSettings, core1Vars
  <2> QED
    BY <2>1 DEF InPhase, Started, EndReported, Stopped, StartSent, StartLost, StartTaken,
                StartReported, StopSent, StopTaken, StopReported, Silent, Resting, Waiting,
                Command, Accepting, Engaged
<1> QED
  BY <1>1, <1>2, <1>3, <1>4

\* core0 takes what core1 said, or gives up.
LEMMA PhaseAnswer ==
  ASSUME TypeInv, CoreInv, InPhase, TakeAnswer \/ UpdateAppState \/ (TimeOut /\ "late" \notin faults')
  PROVE  InPhase'
<1>1. CASE TakeAnswer
  <2>1. /\ pc0 = "waiting" /\ answers # <<>> /\ answers' = Tail(answers) /\ pc0' = "idle"
        /\ UNCHANGED <<pwmState, ctrl, state, goal>>
    BY <1>1 DEF TakeAnswer, core1Vars
  <2>2. CASE StartReported
    <3>a. /\ Tail(<<"RUNNING">>) = <<>> /\ Tail(<<"RUNNING", "READY">>) = <<"READY">>
          /\ Tail(<<"RUNNING", "RESET">>) = <<"RESET">>
      BY TakeFirst
    <3>b. <<"READY">> # <<>> /\ <<"RESET">> # <<>>
      OBVIOUS
    <3>1. answers' \in {<<>>, <<"READY">>, <<"RESET">>}
          /\ (answers' = <<>> => state = "RUNNING") /\ (answers' # <<>> => ~Engaged)
      BY <2>1, <2>2, <3>a, <3>b, Zenon DEF StartReported
    <3> QED
      BY <2>1, <2>2, <3>1 DEF InPhase, StartReported, Started, EndReported, Silent, Resting,
                              Waiting, Command, Accepting, Engaged
  <2>3. CASE StopReported
    <3>1. answers' = <<>>
      BY <2>1, <2>3 DEF StopReported
    <3> QED
      BY <2>1, <2>3, <3>1 DEF InPhase, StopReported, Stopped, Resting, Waiting, Command, Engaged
  <2> QED
    BY <2>1, <2>2, <2>3, PhaseOf DEF StartPhase, StopPhase, StartSent, StartLost, StartTaken,
                                     StopSent, StopTaken, Silent, Resting, Waiting, Command, TypeInv, Core0Types
<1>2. CASE UpdateAppState
  <2>1. /\ pc0 = "idle" /\ answers # <<>> /\ answers' = Tail(answers)
        /\ pwmState' = (pwmState /\ ~ClearsState(Head(answers)))
        /\ UNCHANGED <<pc0, ctrl, state, goal>>
    BY <1>2 DEF UpdateAppState, core1Vars
  <2>2. EndReported
    BY <2>1, PhaseOf DEF IdlePhase, Started, Stopped, Silent
  <2>3. answers' = <<>> /\ ~pwmState'
    BY <2>1, <2>2, TakeFirst DEF EndReported, ClearsState
  <2> QED
    BY <2>1, <2>2, <2>3 DEF InPhase, EndReported, Stopped, Resting, Command, Engaged
<1>3. CASE TimeOut /\ "late" \notin faults'
  <2>1. /\ pc0 = "waiting" /\ Silent /\ pc0' = "idle" /\ UNCHANGED <<pwmState, ctrl, answers, state, goal>>
        /\ goal = state
    BY <1>3 DEF TimeOut, NoAnswerComes, Occurs, core1Vars, Silent
  <2>2. CASE pwmState
    BY <2>1, <2>2 DEF InPhase, Started, Silent, Resting, Command, Accepting
  <2>3. CASE ~pwmState
    <3>1. StopTaken
      BY <2>1, <2>3, PhaseOf DEF StopPhase, StopSent, StopReported, Silent
    <3> QED
      BY <2>1, <2>3, <3>1 DEF InPhase, StopTaken, Stopped, Silent, Resting, Command, Engaged
  <2> QED
    BY <2>2, <2>3
<1> QED
  BY <1>1, <1>2, <1>3

\* The steps of core1.
LEMMA PhaseCore1 ==
  ASSUME TypeInv, CoreInv, InPhase, Core1 \/ ScheduleEnds
  PROVE  InPhase'
<1> DEFINE P == InPhase
<1>0. UNCHANGED <<pc0, pwmState>>
  BY Core1LeavesCore0 DEF core0Vars
<1>1. CASE SyncOne \/ SyncEnd \/ Start \/ ScheduleEnds
  <2>1. UNCHANGED <<pc0, pwmState, ctrl, answers, state, goal>>
    BY <1>1 DEF SyncOne, SyncEnd, Start, ScheduleEnds, core0Vars
  <2> QED
    BY <2>1 DEF InPhase, Started, EndReported, Stopped, StartSent, StartLost, StartTaken,
                StartReported, StopSent, StopTaken, StopReported, Silent, Resting, Waiting,
                Command, Accepting, Engaged
<1>2. CASE Reset \/ Ready \/ Running
  <2>1. /\ pc1 = "top" /\ goal = state /\ answers' = answers
        /\ ctrl' = IF ctrl = <<>> THEN <<>> ELSE Tail(ctrl)
    BY <1>2 DEF Reset, Ready, Running, TakeCtrl, CoreInv
  <2>2. ~Accepting
    BY <2>1 DEF Accepting
  <2>3. CASE state = "RUNNING"
    <3>1. Running /\ state' = state
      BY <1>2, <2>3 DEF Reset, Ready, Running
    <3>2. goal' \in {"RUNNING", "READY", "RESET"} /\ (Asked("STOP") => goal' # "RUNNING")
      BY <3>1 DEF Running
    <3>3. CASE Started \/ (StartReported /\ answers = <<"RUNNING">>)
      BY <1>0, <2>1, <2>3, <3>1, <3>2, <3>3
         DEF InPhase, Started, StartReported, Silent, Resting, Waiting, Command, Accepting
    <3>4. CASE StopSent
      <4>1. ctrl' = <<>> /\ goal' # "RUNNING"
        BY <2>1, <3>2, <3>4 DEF StopSent, Asked
      <4> QED
        BY <1>0, <2>1, <3>4, <4>1 DEF InPhase, StopSent, StopTaken, Silent, Waiting, Command
    <3>5. StopTaken => FALSE
      BY <2>1, <2>3 DEF StopTaken
    <3> QED
      BY <2>3, <3>3, <3>4, <3>5 DEF InPhase, EndReported, Stopped, StartSent, StartLost,
                                    StartTaken, StartReported, StopReported, Engaged, Accepting
  <2>4. CASE state # "RUNNING"
    <3>1. /\ Reset \/ Ready
          /\ state' # "RUNNING" /\ ~Engaged
          /\ goal' # "RUNNING" \/ (state' = "READY" /\ Asked("START"))
      BY <1>2, <2>1, <2>4 DEF Reset, Ready, Running, Engaged
    <3>2. CASE Asked("START")
      <4>1. ctrl = <<"START">> /\ StartSent
        BY <3>2 DEF InPhase, Started, EndReported, Stopped, StartSent, StartLost, StartTaken,
                    StartReported, StopSent, StopTaken, StopReported, Silent, Asked
      <4>2. ctrl' = <<>>
        BY <2>1, <4>1
      <4> QED
        BY <1>0, <2>1, <3>1, <4>1, <4>2
           DEF InPhase, StartSent, StartTaken, StartLost, Silent, Waiting, Command, Accepting,
               Engaged, Reset, Ready
    <3>3. CASE ~Asked("START")
      <4>1. ~Engaged' /\ ~Accepting'
        BY <3>1, <3>3 DEF Engaged, Accepting, Reset, Ready
      <4>2. ctrl \in {<<>>, <<"STOP">>} => ctrl' = <<>>
        <5>1. Tail(<<"STOP">>) = <<>>
          BY TakeFirst
        <5> QED
          BY <2>1, <5>1, Zenon
      <4>3. ctrl = <<"STOP", "START">> => ctrl' = <<"START">>
        BY <2>1, TakeFirst
      <4>4. ctrl # <<"START">>
        BY <3>3 DEF Asked
      <4> QED
        BY <1>0, <2>1, <2>2, <2>4, <3>1, <4>1, <4>2, <4>3, <4>4
           DEF InPhase, Started, EndReported, Stopped, StartSent, StartLost, StartTaken,
               StartReported, StopSent, StopTaken, StopReported, Silent, Resting, Waiting,
               Command, Engaged
    <3> QED
      BY <3>2, <3>3
  <2> QED
    BY <2>3, <2>4
<1>3. CASE Report
  <2>1. /\ answers' = TryAdd(answers, goal, AnswerCap) /\ state' = goal
        /\ UNCHANGED <<ctrl, goal>>
        /\ \/ Accepting
           \/ state = "RUNNING" /\ goal \in {"READY", "RESET"}
    BY <1>3 DEF Report, CoreInv, Accepting
  <2>2. AnswerCap \in Nat /\ AnswerCap > 1
    BY CapacityAssumption, RoomAssumption
  <2>3. CASE StartTaken
    <3>1. answers' = <<"RUNNING">> /\ state' = "RUNNING"
      BY <2>1, <2>2, <2>3, RoomForTwo DEF StartTaken, Silent, Accepting
    <3> QED
      BY <1>0, <2>1, <2>3, <3>1 DEF InPhase, StartTaken, StartReported, Silent, Waiting, Command
  <2>4. CASE (Started \/ StopSent \/ StopTaken) /\ goal \in {"READY", "RESET"}
    <3>1. answers' \in {<<"READY">>, <<"RESET">>}
      BY <2>1, <2>2, <2>4, RoomForTwo DEF Started, StopSent, StopTaken, Silent
    <3> QED
      BY <1>0, <2>1, <2>4, <3>1 DEF InPhase, Started, StopSent, StopTaken, EndReported,
                                    StopReported, Silent, Resting, Waiting, Command, Engaged
  <2>5. CASE StartReported /\ state = "RUNNING" /\ goal \in {"READY", "RESET"}
    <3>1. answers = <<"RUNNING">>
      BY <2>5 DEF StartReported, Engaged
    <3>2. answers' \in {<<"RUNNING", "READY">>, <<"RUNNING", "RESET">>}
      BY <2>1, <2>2, <2>5, <3>1, RoomForTwo
    <3> QED
      BY <1>0, <2>1, <2>5, <3>2 DEF InPhase, StartReported, Waiting, Command, Engaged
  <2> QED
    BY <2>1, <2>3, <2>4, <2>5 DEF InPhase, Started, EndReported, Stopped, StartSent, StartLost,
                                  StartReported, StopSent, StopTaken, StopReported, Accepting,
                                  Engaged
<1> QED
  BY <1>1, <1>2, <1>3 DEF Core1

\* A reset of the app is excluded, and with it its steps.
LEMMA NoResetStep ==
  ASSUME InPhase, Next, "reset" \notin faults'
  PROVE  \/ RefuseStart \/ RepeatStop \/ RefuseStop \/ SendCommand
              \/ \E p \in Pins, c \in Configs : WriteSettings(p, c)
         \/ TakeAnswer \/ UpdateAppState \/ TimeOut
         \/ Core1 \/ ScheduleEnds
BY PhaseOf DEF Next, Core0, Core0Loop, ResetApp, DrainAnswers, DrainCtrl, ResetRegisters, Occurs

LEMMA TalkStep == TypeInv /\ CoreInv /\ TalkInv /\ [Next]_vars => TalkInv'
<1> DEFINE Told == InTalk => pwmReady # {}
           Empty == state = "RUNNING" \/ pc1 \in {"start", "report"} => settings = <<>>
<1> SUFFICES ASSUME TypeInv, CoreInv, TalkInv, [Next]_vars,
                    faults' \cap {"reset", "late"} = {}
             PROVE  InPhase' /\ Told' /\ Empty'
  BY DEF TalkInv, Without
<1>1. InPhase /\ Told /\ Empty /\ faults' \cap {"reset", "late"} = {}
  BY FaultsStay DEF TalkInv, Without
<1>2. CASE UNCHANGED vars
  BY <1>1, <1>2 DEF vars, core0Vars, core1Vars, InPhase, InTalk, Started, EndReported, Stopped,
                    StartSent, StartLost, StartTaken, StartReported, StopSent, StopTaken,
                    StopReported, Silent, Resting, Waiting, Command, Accepting, Engaged
<1>3. CASE RefuseStart \/ RepeatStop \/ RefuseStop \/ SendCommand
             \/ \E p \in Pins, c \in Configs : WriteSettings(p, c)
  <2>1. InPhase'
    BY <1>1, <1>3, PhaseHost
  <2>2. Told'
    BY <1>1, <1>3 DEF RefuseStart, RepeatStop, RefuseStop, SendCommand, WriteSettings, core1Vars,
                      InTalk, Engaged
  <2>3. Empty'
    <3>1. ASSUME NEW p \in Pins, NEW c \in Configs, WriteSettings(p, c) PROVE Empty'
      <4>1. Stopped
        BY <1>1, <3>1, PhaseOf DEF WriteSettings, IdlePhase, Started, EndReported, Resting,
                                   Command
      <4> QED
        BY <3>1, <4>1 DEF Stopped, CoreInv, Engaged, WriteSettings, core1Vars
    <3> QED
      BY <1>1, <1>3, <3>1 DEF RefuseStart, RepeatStop, RefuseStop, SendCommand, core1Vars
  <2> QED
    BY <2>1, <2>2, <2>3
<1>4. CASE TakeAnswer \/ UpdateAppState \/ TimeOut
  <2>1. InPhase'
    BY <1>1, <1>4, PhaseAnswer
  <2>2. Told'
    <3>1. CASE TakeAnswer \/ TimeOut
      BY <1>1, <3>1 DEF TakeAnswer, TimeOut, InTalk
    <3>2. CASE UpdateAppState
      <4>1. EndReported
        BY <1>1, <3>2, PhaseOf DEF UpdateAppState, IdlePhase, Started, Stopped, Silent
      <4>2. answers' = <<>>
        BY <3>2, <4>1, TakeFirst DEF UpdateAppState, EndReported
      <4> QED
        BY <3>2, <4>1, <4>2 DEF UpdateAppState, EndReported, Resting, InTalk, Engaged, core1Vars
    <3> QED
      BY <1>4, <3>1, <3>2
  <2>3. Empty'
    BY <1>1, <1>4 DEF TakeAnswer, TimeOut, UpdateAppState, core1Vars
  <2> QED
    BY <2>1, <2>2, <2>3
<1>5. CASE Core1 \/ ScheduleEnds
  <2>1. InPhase'
    BY <1>1, <1>5, PhaseCore1
  <2>2. UNCHANGED <<pc0, pwmReady>>
    BY <1>5, Core1LeavesCore0 DEF core0Vars
  <2>3. InTalk' => InTalk
    BY <1>5, <2>2 DEF InTalk, Engaged, CoreInv, Core1, Reset, Ready, SyncOne, SyncEnd, Start,
                      Running, Report, ScheduleEnds, TakeCtrl, Asked
  <2>4. Empty'
    BY <1>1, <1>5 DEF CoreInv, Core1, Reset, Ready, SyncOne, SyncEnd, Start, Running, Report,
                      ScheduleEnds
  <2> QED
    BY <1>1, <2>1, <2>2, <2>3, <2>4
<1> QED
  BY <1>1, <1>2, <1>3, <1>4, <1>5, NoResetStep, Zenon
-----------------------------------------------------------------------------
(***************************************************************************)
(* What the replies say.                                                   *)
(***************************************************************************)
LEMMA AckStep ==
  TypeInv /\ CoreInv /\ TalkInv /\ AckInv /\ [Next]_vars => AckInv'
<1> DEFINE Begins == reply = <<"START", "WRITE">> => begun
           Begun == Waiting("START") /\ (answers # <<>> \/ pc1 = "report") => begun
           Stops == reply = <<"STOP", "WRITE">> => Resting("STOP")
<1> SUFFICES ASSUME TypeInv, CoreInv, TalkInv, AckInv, [Next]_vars,
                    faults' \cap {"reset", "late"} = {}
             PROVE  Begins' /\ Begun' /\ Stops'
  BY DEF AckInv, Without
<1>1. InPhase /\ Begins /\ Begun /\ Stops /\ "reset" \notin faults'
  BY FaultsStay DEF TalkInv, AckInv, Without
<1>2. CASE RefuseStart \/ RepeatStop \/ RefuseStop
  <2>1. pc0 = "idle" /\ pc0' = "idle" /\ reply'[1] \in {"START", "STOP"}
        /\ (reply'[2] = "WRITE" => reply' = <<"STOP", "WRITE">> /\ ~pwmState')
    BY <1>2 DEF RefuseStart, RepeatStop, RefuseStop
  <2> QED
    BY <2>1 DEF Resting, Waiting, Command
<1>6. CASE UNCHANGED vars \/ \E p \in Pins, c \in Configs : WriteSettings(p, c)
  <2>1. UNCHANGED <<pc0, pwmState, reply, begun, answers, pc1>>
    BY <1>6 DEF WriteSettings, vars, core0Vars, core1Vars
  <2> QED
    BY <1>1, <2>1, Zenon DEF Resting, Waiting, Command
<1>3. CASE SendCommand
  <2>1. Waiting("START")' => Stopped
    BY <1>1, <1>3, PhaseOf DEF SendCommand, Waiting, Command, IdlePhase, Started, EndReported,
                               Resting, TypeInv, Core0Types
  <2>2. Stopped => answers = <<>> /\ pc1 # "report"
    BY DEF Stopped, CoreInv, Engaged
  <2> QED
    BY <1>3, <2>1, <2>2 DEF SendCommand, core1Vars
<1>4. CASE TakeAnswer \/ TimeOut \/ UpdateAppState
  <2>1. pc0' = "idle" /\ begun' = begun /\ (pwmState' = pwmState \/ pwmState' = FALSE \/ pc0 = "idle")
    BY <1>4 DEF TakeAnswer, TimeOut, UpdateAppState
  <2>2. CASE TakeAnswer
    <3>1. reply'[1] = Command /\ answers # <<>> /\ pc0 = "waiting" /\ pwmState' = pwmState
      BY <2>2 DEF TakeAnswer
    <3>2. Command \in {"START", "STOP"} /\ (Command = "START" => Waiting("START"))
      BY <3>1 DEF Command, Waiting
    <3>3. Begins'
      BY <1>1, <2>1, <3>1, <3>2
    <3>4. Stops'
      BY <2>1, <3>1 DEF Resting, Command
    <3> QED
      BY <2>1, <3>3, <3>4 DEF Waiting
  <2>3. CASE TimeOut
    <3>1. reply'[2] = "WRITE_ERROR"
      BY <2>3 DEF TimeOut
    <3> QED
      BY <2>1, <3>1 DEF Waiting
  <2>4. CASE UpdateAppState
    <3>1. reply' = reply /\ (~pwmState => ~pwmState')
      BY <2>4 DEF UpdateAppState
    <3> QED
      BY <1>1, <2>1, <3>1 DEF Waiting, Resting, Command
  <2> QED
    BY <1>4, <2>2, <2>3, <2>4
<1>5. CASE Core1 \/ ScheduleEnds
  <2>1. UNCHANGED <<pc0, pwmState, reply>>
    BY <1>5, Core1LeavesCore0 DEF core0Vars
  <2>2. begun => begun'
    BY <1>5 DEF Core1, Reset, Ready, SyncOne, SyncEnd, Start, Running, Report, ScheduleEnds
  <2>3. Begun'
    <3>1. CASE Running
      <4>1. Waiting("START") => answers # <<>>
        BY <1>1, <3>1, PhaseOf DEF Running, StartPhase, StopPhase, StartSent, StartLost,
                                   StartTaken, StartReported, StopSent, StopTaken, StopReported,
                                   Engaged, Accepting, Waiting, Command, TypeInv, Core0Types
      <4> QED
        BY <1>1, <2>1, <2>2, <3>1, <4>1 DEF Running, Waiting, Command
    <3>2. CASE Start
      BY <3>2 DEF Start
    <3>3. CASE ~Running /\ ~Start
      BY <1>1, <1>5, <2>1, <2>2, <3>3 DEF Core1, Reset, Ready, SyncOne, SyncEnd, Report,
                                          ScheduleEnds, Waiting, Command
    <3> QED
      BY <3>1, <3>2, <3>3
  <2> QED
    BY <1>1, <2>1, <2>2, <2>3 DEF Resting, Command
<1> QED
  BY <1>1, <1>2, <1>3, <1>4, <1>5, <1>6, NoResetStep, Zenon

LEMMA BusyStep ==
  TypeInv /\ CoreInv /\ FailureInv /\ TalkInv /\ BusyInv /\ [Next]_vars => BusyInv'
<1> DEFINE Runs == Started /\ pwmReady # {} => state = "RUNNING"
<1> SUFFICES ASSUME TypeInv, CoreInv, FailureInv, TalkInv, BusyInv, [Next]_vars,
                    faults' \cap AnyFault = {}
             PROVE  Runs' /\ ~StartLost'
  BY DEF BusyInv, Without
<1>1. /\ InPhase
      /\ InTalk => pwmReady # {}
      /\ Runs /\ ~StartLost /\ state # "RESET"
      /\ "reset" \notin faults' /\ "late" \notin faults'
  BY FaultsStay DEF TalkInv, BusyInv, FailureInv, Without, AnyFault
<1>2. CASE UNCHANGED vars
  BY <1>1, <1>2 DEF vars, core0Vars, core1Vars, Started, StartLost, Resting, Waiting, Command,
                    Silent, Accepting, Engaged
<1>3. CASE RefuseStart \/ RepeatStop \/ RefuseStop
             \/ \E p \in Pins, c \in Configs : WriteSettings(p, c)
  <2>1. pc0 = "idle" /\ UNCHANGED <<pc0, ctrl, answers, state, goal>>
    BY <1>3 DEF RefuseStart, RepeatStop, RefuseStop, WriteSettings, core1Vars
  <2>2. CASE RefuseStart
    <3>1. (pwmState \/ pwmReady = {}) /\ pwmReady' = pwmReady
      BY <2>2 DEF RefuseStart
    <3> QED
      BY <1>1, <2>1, <3>1 DEF Started, StartLost, Resting, Waiting, Command, Silent, Accepting
  <2>3. CASE ~RefuseStart
    <3>1. ~pwmState'
      BY <1>3, <2>3, Zenon DEF RepeatStop, RefuseStop, WriteSettings
    <3> QED
      BY <2>1, <3>1 DEF Started, StartLost, Resting, Waiting, Command
  <2> QED
    BY <2>2, <2>3
<1>4. CASE SendCommand
  <2>1. pc0' = "waiting"
    BY <1>4 DEF SendCommand
  <2>2. StartLost' => ctrl' = <<>>
    BY DEF StartLost, Silent
  <2>3. ctrl' # <<>>
    <3>1. CtrlCap \in Nat /\ CtrlCap > 1
      BY CapacityAssumption, RoomAssumption
    <3>2. ctrl = <<>> \/ ctrl = <<"STOP">>
      BY <1>1, <1>4, PhaseOf DEF SendCommand, IdlePhase, Started, EndReported, Stopped, Silent
    <3> QED
      <4>1. ctrl' = <<Command'>> \/ ctrl' = <<"STOP", Command'>>
        BY <1>4, <3>1, <3>2, RoomForTwo DEF SendCommand
      <4> QED
        BY <4>1, TakeFirst
  <2> QED
    BY <2>1, <2>2, <2>3 DEF Started, Resting
<1>5. CASE TakeAnswer \/ TimeOut \/ UpdateAppState
  <2>1. pc0' = "idle" /\ ~StartLost' /\ UNCHANGED <<state, goal>>
    BY <1>5 DEF TakeAnswer, TimeOut, UpdateAppState, core1Vars, StartLost, Waiting
  <2>2. CASE TakeAnswer
    <3>1. pwmState => StartReported
      BY <1>1, <2>2, PhaseOf DEF TakeAnswer, StartPhase, StartSent, StartTaken, Silent
    <3>2. Tail(<<"RUNNING", "READY">>) # <<>> /\ Tail(<<"RUNNING", "RESET">>) # <<>>
      BY TakeFirst
    <3>3. StartReported /\ answers' = <<>> => state = "RUNNING"
      BY <2>2, <3>2, Zenon DEF TakeAnswer, StartReported
    <3> QED
      BY <2>1, <2>2, <3>1, <3>3 DEF TakeAnswer, Started, Resting, Command, Silent
  <2>3. CASE TimeOut
    <3>1. Silent /\ goal = state
      BY <1>1, <2>3 DEF TimeOut, NoAnswerComes, Occurs, Silent
    <3>2. ~pwmState
      BY <1>1, <2>3, <3>1, PhaseOf DEF TimeOut, StartPhase, StartSent, StartTaken,
                                       StartReported, Silent, Accepting
    <3> QED
      BY <2>1, <2>3, <3>2 DEF TimeOut, Started, Resting, Command
  <2>4. CASE UpdateAppState
    <3>1. EndReported
      BY <1>1, <2>4, PhaseOf DEF UpdateAppState, IdlePhase, Started, Stopped, Silent
    <3>2. ~pwmState'
      BY <2>4, <3>1, TakeFirst DEF UpdateAppState, EndReported, ClearsState
    <3> QED
      BY <2>1, <3>2 DEF Started, Resting, Command
  <2> QED
    BY <1>5, <2>2, <2>3, <2>4
<1>6. CASE Core1 \/ ScheduleEnds
  <2>1. UNCHANGED <<pc0, pwmState, pwmReady>>
    BY <1>6, Core1LeavesCore0 DEF core0Vars
  <2>2. CASE Report
    <3>1. answers' = TryAdd(answers, goal, AnswerCap) /\ AnswerCap \in Nat /\ AnswerCap > 1
      BY <2>2, CapacityAssumption, RoomAssumption DEF Report
    <3>2. answers' # <<>>
      BY <3>1, AppendProperties, LenProperties DEF TryAdd, TypeInv, QueueTypes, Core1Types
    <3> QED
      BY <3>2 DEF Started, StartLost, Silent
  <2>3. CASE Ready
    <3>1. /\ UNCHANGED <<answers, state>> /\ state = "READY" /\ goal = state
          /\ ctrl' = IF ctrl = <<>> THEN <<>> ELSE Tail(ctrl)
          /\ Asked("START") => goal' = "RUNNING"
      BY <2>3 DEF Ready, CoreInv, TakeCtrl
    <3>2. Started' => Started
      BY <1>1, <2>1, <3>1, PhaseOf DEF IdlePhase, Started, EndReported, Stopped, Resting,
                                       Command, Silent, Accepting
    <3>3. Waiting("START")' /\ answers' = <<>> => StartSent
      BY <1>1, <2>1, <3>1, PhaseOf DEF Waiting, Command, StartPhase, StartTaken, StartReported,
                                       Accepting, TypeInv, Core0Types
    <3>4. ctrl = <<"START">> => goal' = "RUNNING"
      BY <3>1, TakeFirst DEF Asked
    <3>5. ctrl = <<"STOP", "START">> => ctrl' # <<>>
      <4>1. Tail(<<"STOP", "START">>) # <<>> /\ <<"STOP", "START">> # <<>>
        BY TakeFirst
      <4> QED
        BY <3>1, <4>1, Zenon
    <3> QED
      BY <1>1, <2>1, <3>1, <3>2, <3>3, <3>4, <3>5 DEF StartSent, StartLost, Silent, Engaged
  <2>4. CASE Running
    <3>1. UNCHANGED <<answers, state>> /\ state = "RUNNING"
      BY <2>4 DEF Running
    <3> QED
      BY <3>1 DEF StartLost, Engaged
  <2>5. CASE ~Report /\ ~Ready /\ ~Running
    <3>1. UNCHANGED <<ctrl, answers, state, goal>>
      BY <1>1, <1>6, <2>5 DEF Core1, Reset, SyncOne, SyncEnd, Start, ScheduleEnds
    <3> QED
      BY <1>1, <2>1, <3>1 DEF Started, StartLost, Resting, Waiting, Command, Silent, Accepting,
                              Engaged
  <2> QED
    BY <2>2, <2>3, <2>4, <2>5
<1> QED
  BY <1>1, <1>2, <1>3, <1>4, <1>5, <1>6, NoResetStep, Zenon
-----------------------------------------------------------------------------
(***************************************************************************)
(* The settings that are played.                                           *)
(***************************************************************************)
\* What SettingsInv says of one pin.
Told(p) ==
  \/ \E i \in 1 .. Len(settings) :
       settings[i] = [pin |-> p, config |-> accepted[p]] /\ NoneFrom(i + 1, p)
  \/ NoneFrom(1, p) /\ p \in DOMAIN task /\ task[p] = accepted[p]

LEMMA SettingsWrite ==
  ASSUME TypeInv, NEW r \in Pins, NEW c \in Configs, WriteSettings(r, c),
         DOMAIN task \subseteq DOMAIN accepted,
         \A i \in 1 .. Len(settings) : settings[i].pin \in DOMAIN accepted,
         \A p \in DOMAIN accepted : Told(p)
  PROVE  /\ DOMAIN task' \subseteq DOMAIN accepted'
         /\ \A i \in 1 .. Len(settings') : settings'[i].pin \in DOMAIN accepted'
         /\ \A p \in DOMAIN accepted' : Told(p)'
<1> DEFINE m == [pin |-> r, config |-> c]
<1>1. /\ settings \in Seq(Messages) /\ Len(settings) \in Nat /\ task' = task
      /\ m \in Messages /\ m.pin = r /\ m.config = c
      /\ settings' = TryAdd(settings, m, SettingsCap)
      /\ accepted' = IF settings' # settings THEN With(accepted, r, c) ELSE accepted
  BY LenProperties DEF TypeInv, QueueTypes, WriteSettings, core1Vars, Messages
<1>2. CASE settings' = settings
  <2>1. UNCHANGED <<task, settings, accepted>>
    BY <1>1, <1>2
  <2> QED
    BY <2>1 DEF Told, NoneFrom
<1>3. CASE settings' # settings
  <2> DEFINE n == Len(settings)
  <2>1. /\ settings' = Append(settings, m) /\ Len(settings') = n + 1
        /\ settings'[n + 1] = m
        /\ \A i \in 1 .. n : settings'[i] = settings[i]
    BY <1>1, <1>3, AppendProperties DEF TryAdd
  <2>2. /\ DOMAIN accepted' = DOMAIN accepted \cup {r} /\ accepted'[r] = c
        /\ \A q \in DOMAIN accepted \ {r} : accepted'[q] = accepted[q]
    <3>1. IsTable(accepted) /\ accepted' = With(accepted, r, c)
      BY <1>1, <1>3 DEF TypeInv, Core0Types
    <3> QED
      <4>1. /\ DOMAIN With(accepted, r, c) = DOMAIN accepted \cup {r}
            /\ With(accepted, r, c)[r] = c
            /\ \A q \in DOMAIN accepted \ {r} : With(accepted, r, c)[q] = accepted[q]
        BY DEF With
      <4> QED
        BY <3>1, <4>1
  <2> HIDE DEF m
  <2>3. Told(r)'
    <3>1. PICK i \in 1 .. Len(settings') :
            i = n + 1 /\ settings'[i] = [pin |-> r, config |-> accepted'[r]]
      BY <1>1, <2>1, <2>2 DEF m
    <3>2. \A j \in i + 1 .. Len(settings') : settings'[j].pin # r
      BY <1>1, <2>1, <3>1
    <3> QED
      BY <3>1, <3>2 DEF Told, NoneFrom
  <2>4. ASSUME NEW p \in DOMAIN accepted \ {r} PROVE Told(p)'
    <3>1. ASSUME NEW k \in 1 .. n + 1, NoneFrom(k, p) PROVE NoneFrom(k, p)'
      BY <1>1, <2>1, <2>4, <3>1 DEF NoneFrom
    <3>2. CASE NoneFrom(1, p) /\ p \in DOMAIN task /\ task[p] = accepted[p]
      BY <1>1, <2>2, <3>1, <3>2 DEF Told
    <3>3. ASSUME NEW i \in 1 .. n, settings[i] = [pin |-> p, config |-> accepted[p]],
                 NoneFrom(i + 1, p)
          PROVE  Told(p)'
      BY <1>1, <2>1, <2>2, <3>1, <3>3 DEF Told
    <3> QED
      BY <3>2, <3>3 DEF Told
  <2> QED
    BY <1>1, <2>1, <2>2, <2>3, <2>4
<1> QED
  BY <1>2, <1>3

LEMMA SettingsTake ==
  ASSUME TypeInv, SyncOne,
         DOMAIN task \subseteq DOMAIN accepted,
         \A i \in 1 .. Len(settings) : settings[i].pin \in DOMAIN accepted,
         \A p \in DOMAIN accepted : Told(p)
  PROVE  /\ DOMAIN task' \subseteq DOMAIN accepted'
         /\ \A i \in 1 .. Len(settings') : settings'[i].pin \in DOMAIN accepted'
         /\ \A p \in DOMAIN accepted' : Told(p)'
<1> DEFINE h == settings[1]
           n == Len(settings)
<1>1. /\ settings # <<>> /\ settings' = Tail(settings) /\ accepted' = accepted
      /\ task' = With(task, Head(settings).pin, Head(settings).config)
  BY DEF SyncOne, core0Vars
<1>2. /\ n \in Nat /\ n >= 1 /\ Len(settings') = n - 1 /\ h \in Messages /\ Head(settings) = h
      /\ \A i \in 1 .. n - 1 : settings'[i] = settings[i + 1]
  BY <1>1, TailType DEF TypeInv, QueueTypes
<1>3. h.pin \in Pins /\ h.config \in Configs /\ h.pin \in DOMAIN accepted
  BY <1>2 DEF Messages
<1>4. /\ DOMAIN task' = DOMAIN task \cup {h.pin} /\ task'[h.pin] = h.config
      /\ \A q \in DOMAIN task \ {h.pin} : task'[q] = task[q]
  <2>1. IsTable(task) /\ task' = With(task, h.pin, h.config)
    BY <1>1, <1>2 DEF TypeInv, Core1Types
  <2> HIDE DEF h
  <2> QED
    <3>1. /\ DOMAIN With(task, h.pin, h.config) = DOMAIN task \cup {h.pin}
          /\ With(task, h.pin, h.config)[h.pin] = h.config
          /\ \A q \in DOMAIN task \ {h.pin} : With(task, h.pin, h.config)[q] = task[q]
      BY DEF With
    <3> QED
      BY <2>1, <3>1
<1>5. ASSUME NEW p \in DOMAIN accepted, NEW k \in 1 .. n, NoneFrom(k + 1, p)
      PROVE  NoneFrom(k, p)'
  BY <1>2, <1>5 DEF NoneFrom
<1>6. ASSUME NEW p \in DOMAIN accepted PROVE Told(p)'
  <2>1. ASSUME NEW i \in 1 .. n, settings[i] = [pin |-> p, config |-> accepted[p]],
               NoneFrom(i + 1, p)
        PROVE  Told(p)'
    <3>1. NoneFrom(i, p)'
      BY <1>5, <2>1
    <3>2. CASE i = 1
      <4>1. h.pin = p /\ h.config = accepted[p]
        BY <2>1, <3>2
      <4> QED
        BY <1>1, <1>4, <3>1, <3>2, <4>1 DEF Told
    <3>3. CASE i # 1
      <4>1. i - 1 \in 1 .. n - 1 /\ settings'[i - 1] = settings[i] /\ (i - 1) + 1 = i
        BY <1>2, <3>3
      <4> QED
        BY <1>1, <1>2, <2>1, <3>1, <4>1 DEF Told
    <3> QED
      BY <3>2, <3>3
  <2>2. CASE NoneFrom(1, p) /\ p \in DOMAIN task /\ task[p] = accepted[p]
    <3>1. h.pin # p
      BY <1>2, <2>2 DEF NoneFrom
    <3>2. NoneFrom(1, p)'
      BY <1>2, <2>2 DEF NoneFrom
    <3> QED
      BY <1>1, <1>4, <2>2, <3>1, <3>2 DEF Told
  <2> QED
    BY <2>1, <2>2, <1>6 DEF Told
<1> QED
  BY <1>1, <1>2, <1>3, <1>4, <1>6

LEMMA SettingsStep ==
  TypeInv /\ FailureInv /\ TalkInv /\ SettingsInv /\ [Next]_vars => SettingsInv'
<1> DEFINE Known == DOMAIN task \subseteq DOMAIN accepted
           Sent == \A i \in 1 .. Len(settings) : settings[i].pin \in DOMAIN accepted
           All == \A p \in DOMAIN accepted : Told(p)
<1> SUFFICES ASSUME TypeInv, FailureInv, TalkInv, SettingsInv, [Next]_vars,
                    faults' \cap AnyFault = {}
             PROVE  Known' /\ Sent' /\ All'
  BY Zenon DEF SettingsInv, Without, Told
<1>1. InPhase /\ state # "RESET" /\ "reset" \notin faults'
  BY FaultsStay DEF TalkInv, FailureInv, Without, AnyFault
<1>2. faults \cap AnyFault = {}
  BY FaultsStay
<1>3. Known /\ Sent /\ All
  BY <1>2, Zenon DEF SettingsInv, Without, Told
<1>4. ASSUME NEW p \in Pins, NEW c \in Configs, WriteSettings(p, c)
      PROVE  Known' /\ Sent' /\ All'
  BY <1>3, <1>4, SettingsWrite
<1>5. CASE SyncOne
  BY <1>3, <1>5, SettingsTake
<1>6. CASE UNCHANGED <<task, settings, accepted>>
  BY <1>3, <1>6 DEF Told, NoneFrom
<1>7. CASE UNCHANGED vars
  BY <1>6, <1>7 DEF vars, core0Vars, core1Vars
<1>8. CASE RefuseStart \/ RepeatStop \/ RefuseStop \/ SendCommand \/ TakeAnswer
             \/ UpdateAppState \/ TimeOut
  BY <1>6, <1>8 DEF RefuseStart, RepeatStop, RefuseStop, SendCommand, TakeAnswer,
                    UpdateAppState, TimeOut, core1Vars
<1>9. CASE (Core1 /\ ~SyncOne) \/ ScheduleEnds
  BY <1>1, <1>6, <1>9 DEF Core1, Reset, Ready, SyncEnd, Start, Running, Report, ScheduleEnds,
                          core0Vars
<1> QED
  BY <1>1, <1>4, <1>5, <1>7, <1>8, <1>9, NoResetStep, Zenon
-----------------------------------------------------------------------------
(***************************************************************************)
(* Before the first task.                                                  *)
(***************************************************************************)
LEMMA FirstStep ==
  TypeInv /\ CoreInv /\ FailureInv /\ TalkInv /\ FirstInv /\ [Next]_vars => FirstInv'
<1> DEFINE Single == faults \in {{}, {"reset"}, {"late"}}
           Waits == "reset" \in faults /\ Asks => pc0 = "waiting"
           Core0At == "reset" \notin faults => pc0 \in {"idle", "waiting"}
           Core1At == state = "READY" /\ answers = <<>> /\ pc1 \in {"top", "sync"}
           Nothing == settings = <<>> => pwmReady = {} /\ ~Asks
<1> SUFFICES ASSUME TypeInv, CoreInv, FailureInv, TalkInv, FirstInv, [Next]_vars,
                    Single', task' = None
             PROVE  Core1At' /\ Nothing' /\ Waits' /\ Core0At'
  BY DEF FirstInv
<1>1. Single /\ faults \subseteq faults' /\ state # "RESET"
  BY FaultsStay DEF FailureInv
<1>a. ~SyncOne
  <2>1. ASSUME SyncOne PROVE FALSE
    <3>1. Head(settings).pin \in DOMAIN task'
      BY <2>1 DEF SyncOne, With
    <3> QED
      BY <3>1, NoneType
  <2> QED
    BY <2>1
<1>2. task = None
  <2>2. task' = task
    BY <1>1, <1>a DEF Next, vars, Core0, Core0Loop, Core1, RefuseStart, RepeatStop, RefuseStop,
                      SendCommand, TakeAnswer, TimeOut, WriteSettings, UpdateAppState, ResetApp,
                      DrainAnswers, DrainCtrl, ResetRegisters, Reset, Ready, SyncEnd, Start,
                      Running, Report, ScheduleEnds, core1Vars
  <2> QED
    BY <2>2
<1>3. Core1At /\ Nothing /\ Waits /\ Core0At
  BY <1>1, <1>2 DEF FirstInv
<1>4. ctrl \in Seq({"START", "STOP"}) /\ Len(ctrl) \in Nat
  BY LenProperties DEF TypeInv, QueueTypes
<1>5. ASSUME UNCHANGED <<state, goal, ctrl, answers>>,
             RefuseStart \/ RepeatStop \/ RefuseStop \/ UNCHANGED vars \/ TimeOut \/ ResetApp
               \/ DrainAnswers \/ ResetRegisters \/ SyncEnd
               \/ (\E p \in Pins, c \in Configs : WriteSettings(p, c))
      PROVE  Core1At' /\ Nothing' /\ Waits' /\ Core0At'
  <2>1. Asks' = Asks /\ (UNCHANGED pc1 => Core1At')
    BY <1>3, <1>5 DEF Asks
  <2>2. CASE RefuseStart \/ RepeatStop \/ RefuseStop \/ UNCHANGED vars
    <3>1. UNCHANGED <<pc0, pwmReady, settings, faults, pc1>>
      BY <2>2 DEF RefuseStart, RepeatStop, RefuseStop, vars, core0Vars, core1Vars
    <3> QED
      BY <1>3, <2>1, <3>1
  <2>3. ASSUME NEW p \in Pins, NEW c \in Configs, WriteSettings(p, c)
        PROVE  Core1At' /\ Nothing' /\ Waits' /\ Core0At'
    <3>1. /\ pc0' = pc0 /\ faults' = faults /\ pc1' = pc1
          /\ settings' = TryAdd(settings, [pin |-> p, config |-> c], SettingsCap)
      BY <2>3 DEF WriteSettings, core1Vars
    <3>2. [pin |-> p, config |-> c] \in Messages /\ SettingsCap \in Nat \ {0}
          /\ settings \in Seq(Messages)
      BY CapacityAssumption DEF Messages, TypeInv, QueueTypes
    <3>3. settings' # <<>>
      BY <3>1, <3>2, AppendProperties, LenProperties DEF TryAdd
    <3> QED
      BY <1>3, <2>1, <3>1, <3>3
  <2>4. CASE TimeOut
    <3>1. /\ pc0' = "idle" /\ UNCHANGED <<pwmReady, settings, pc1>>
          /\ \/ NoAnswerComes /\ faults' = faults
             \/ faults' = faults \cup {"late"}
      BY <2>4 DEF TimeOut, Occurs, core1Vars
    <3>2. NoAnswerComes => ~Asks
      BY <1>3 DEF NoAnswerComes, Asks
    <3>3. faults' = faults \cup {"late"} => "reset" \notin faults'
      BY <1>1
    <3> QED
      BY <1>3, <2>1, <3>1, <3>2, <3>3
  <2>5. CASE ResetApp
    <3>1. /\ pc0 = "idle" /\ faults' = faults \cup {"reset"}
          /\ UNCHANGED <<pwmReady, settings, pc1>>
      BY <2>5 DEF ResetApp, Occurs, core1Vars
    <3>2. faults = {} => ~Asks
      <4>1. ASSUME faults = {} PROVE InPhase
        BY <4>1 DEF TalkInv, Without
      <4>2. InPhase => IdlePhase
        BY <3>1, PhaseOf
      <4>3. EndReported => FALSE
        BY <1>3, Literals DEF EndReported
      <4>4. Started \/ Stopped => goal # "RUNNING" /\ ctrl \in {<<>>, <<"STOP">>}
        BY <1>3 DEF Started, Stopped, Silent, Accepting, Engaged
      <4>5. ctrl \in {<<>>, <<"STOP">>} => ~\E i \in 1 .. Len(ctrl) : ctrl[i] = "START"
        OBVIOUS
      <4> QED
        BY <4>1, <4>2, <4>3, <4>4, <4>5 DEF IdlePhase, Asks
    <3>3. ~Asks
      BY <1>1, <1>3, <3>1, <3>2
    <3> QED
      BY <1>3, <2>1, <3>1, <3>3
  <2>6. CASE DrainAnswers \/ ResetRegisters
    <3>1. /\ pc0 \in {"reset", "drain_settings"} /\ faults' = faults /\ pc1' = pc1
          /\ \/ UNCHANGED <<pwmReady, settings>>
             \/ pwmReady' = {}
      BY <2>6 DEF DrainAnswers, ResetRegisters, core1Vars
    <3>2. ~Asks /\ "reset" \in faults
      BY <1>3, <3>1
    <3> QED
      BY <1>3, <2>1, <3>1, <3>2
  <2>7. CASE SyncEnd
    <3>1. /\ pc1' = IF goal = "RUNNING" THEN "start" ELSE "top"
          /\ settings = <<>> /\ UNCHANGED <<pc0, pwmReady, settings, faults>>
      BY <2>7 DEF SyncEnd, core0Vars
    <3>2. goal # "RUNNING"
      BY <1>3, <3>1 DEF Asks
    <3> QED
      BY <1>3, <1>5, <2>1, <3>1, <3>2
  <2> QED
    BY <1>5, <2>2, <2>3, <2>4, <2>5, <2>6, <2>7
<1>6. CASE SendCommand
  <2>1. /\ pc0 = "idle" /\ pwmReady # {} /\ pc0' = "waiting"
        /\ UNCHANGED <<pwmReady, settings, pc1, state, answers, faults>>
    BY <1>6 DEF SendCommand, core1Vars
  <2> QED
    BY <1>3, <2>1
<1>7. CASE DrainCtrl \/ Ready
  <2>1. /\ state' = state /\ answers' = answers /\ pc1' \in {"top", "sync"}
        /\ UNCHANGED <<pwmReady, settings, faults>>
    BY <1>3, <1>7 DEF DrainCtrl, Ready, core0Vars, core1Vars
  <2>2. pc0' = pc0 \/ (pc0 = "drain_ctrl" /\ "reset" \in faults)
    BY <1>3, <1>7 DEF DrainCtrl, Ready, core0Vars
  <2>3. Asks' => Asks
    <3>1. CASE DrainCtrl
      BY <3>1 DEF DrainCtrl, core1Vars, Asks
    <3>2. CASE Ready
      <4>1. /\ ctrl' = IF ctrl = <<>> THEN <<>> ELSE Tail(ctrl)
            /\ goal' = IF Asked("START") THEN "RUNNING" ELSE "READY"
        BY <3>2 DEF Ready, TakeCtrl
      <4>2. Asked("START") => Asks
        BY <1>4, TailType DEF Asked, Asks
      <4>3. ASSUME NEW i \in 1 .. Len(ctrl'), ctrl'[i] = "START" PROVE Asks
        <5>1. ctrl # <<>> /\ ctrl' = Tail(ctrl)
          BY <4>1, <4>3
        <5>2. ctrl[i + 1] = "START" /\ i + 1 \in 1 .. Len(ctrl)
          BY <1>4, <4>3, <5>1, TailType
        <5> QED
          BY <5>2 DEF Asks
      <4> QED
        BY <4>1, <4>2, <4>3 DEF Asks
    <3> QED
      BY <1>7, <3>1, <3>2
  <2> QED
    BY <1>3, <2>1, <2>2, <2>3
<1>8. ~Reset /\ ~Start /\ ~Running /\ ~Report /\ ~ScheduleEnds /\ ~TakeAnswer /\ ~UpdateAppState
  BY <1>1, <1>3 DEF Reset, Start, Running, Report, ScheduleEnds, TakeAnswer, UpdateAppState
<1>9. RefuseStart \/ RepeatStop \/ RefuseStop \/ UNCHANGED vars \/ TimeOut \/ ResetApp
        \/ DrainAnswers \/ ResetRegisters \/ SyncEnd
        \/ (\E p \in Pins, c \in Configs : WriteSettings(p, c))
      => UNCHANGED <<state, goal, ctrl, answers>>
  BY <1>3 DEF RefuseStart, RepeatStop, RefuseStop, vars, core1Vars, TimeOut, ResetApp,
              DrainAnswers, ResetRegisters, SyncEnd, WriteSettings
<1> QED
  BY <1>a, <1>5, <1>6, <1>7, <1>8, <1>9, Zenon DEF Next, Core0, Core0Loop, Core1
-----------------------------------------------------------------------------
(***************************************************************************)
(* The theorems.                                                           *)
(***************************************************************************)
Inv ==
  /\ TypeInv /\ CoreInv /\ FailureInv /\ TalkInv
  /\ AckInv /\ BusyInv /\ SettingsInv /\ FirstInv

LEMMA RestInit == Init => AckInv /\ BusyInv /\ SettingsInv /\ FirstInv
<1> SUFFICES ASSUME Init PROVE AckInv /\ BusyInv /\ SettingsInv /\ FirstInv
  OBVIOUS
<1>1. AckInv
  BY DEF Init, AckInv, Without, Waiting
<1>2. BusyInv
  BY DEF Init, BusyInv, Without, Started, StartLost, Resting, Waiting, Command
<1>3. SettingsInv
  BY NoneType DEF Init, SettingsInv, Without
<1>4. FirstInv
  BY DEF Init, FirstInv, Asks
<1> QED
  BY <1>1, <1>2, <1>3, <1>4

LEMMA SpecInv == Spec => []Inv
<1>1. Init => Inv
  BY TypeInit, CoreInit, TalkInit, RestInit DEF Inv
<1>2. Inv /\ [Next]_vars => Inv'
  BY TypeStep, CoreStep, FailureStep, TalkStep, AckStep, BusyStep, SettingsStep, FirstStep, Zenon
     DEF Inv
<1> QED
  BY <1>1, <1>2, PTL DEF Spec

\* With room for two in the control and the answer queue no command and no
\* answer is ever dropped, though both senders ignore what queue_try_add()
\* returns (cuttlefish_app.cpp:163, core1_main.cpp:126, 137).
THEOREM NothingDropped == Spec => []NoMessageDropped
<1>1. Inv => NoMessageDropped
  <2> SUFFICES ASSUME Inv, faults \cap {"reset", "late"} = {}
               PROVE  /\ pc0 = "idle" => Len(ctrl) < CtrlCap
                      /\ pc1 = "report" => Len(answers) < AnswerCap
    BY DEF NoMessageDropped, Without
  <2>1. InPhase
    BY DEF Inv, TalkInv, Without
  <2>2. /\ CtrlCap \in Nat /\ CtrlCap > 1 /\ AnswerCap \in Nat /\ AnswerCap > 1
        /\ Len(<<>>) = 0 /\ Len(<<"STOP">>) = 1 /\ Len(<<"RUNNING">>) = 1
    BY CapacityAssumption, RoomAssumption
  <2>3. pc0 = "idle" => ctrl \in {<<>>, <<"STOP">>}
    BY <2>1, PhaseOf DEF IdlePhase, Started, EndReported, Stopped, Silent
  <2>4. pc1 = "report" => answers \in {<<>>, <<"RUNNING">>}
    BY <2>1 DEF Inv, CoreInv, InPhase, Started, EndReported, Stopped, StartSent, StartLost,
                StartTaken, StartReported, StopSent, StopTaken, StopReported, Silent, Engaged
  <2>5. pc0 = "idle" => Len(ctrl) \in {0, 1}
    BY <2>2, <2>3, Zenon
  <2>6. pc1 = "report" => Len(answers) \in {0, 1}
    BY <2>2, <2>4, Zenon
  <2>7. 0 < CtrlCap /\ 1 < CtrlCap /\ 0 < AnswerCap /\ 1 < AnswerCap
    BY <2>2
  <2> QED
    BY <2>5, <2>6, <2>7
<1> QED
  BY <1>1, SpecInv, PTL

\* The answer to a START is core1's report that it took this START, never one
\* left over; the answer to a STOP, though it may be the end of the schedule by
\* itself, is core1's last word on it (cuttlefish_app.cpp:163-184).
THEOREM AnswersBelong == Spec => []AnswersMatch
<1>1. Inv => AnswersMatch
  <2> SUFFICES ASSUME Inv, faults \cap {"reset", "late"} = {}
               PROVE  /\ pc0 = "idle" /\ ~pwmState => answers = <<>>
                      /\ pc0 = "waiting" /\ answers # <<>> =>
                           IF pwmState THEN Head(answers) = "RUNNING" /\ ctrl = <<>>
                           ELSE /\ Len(answers) = 1 /\ Head(answers) \in {"READY", "RESET"}
                                /\ ~Engaged
    BY DEF AnswersMatch, Without
  <2>1. InPhase
    BY DEF Inv, TalkInv, Without
  <2>2. pc0 = "idle" /\ ~pwmState => answers = <<>>
    BY <2>1, PhaseOf DEF IdlePhase, Started, EndReported, Stopped, Resting, Command
  <2>3. ASSUME pc0 = "waiting", answers # <<>>, pwmState
        PROVE  Head(answers) = "RUNNING" /\ ctrl = <<>>
    <3>1. StartReported
      BY <2>1, <2>3, PhaseOf DEF StartPhase, StartSent, StartLost, StartTaken, Silent
    <3> QED
      BY <3>1, Literals DEF StartReported
  <2>4. ASSUME pc0 = "waiting", answers # <<>>, ~pwmState
        PROVE  Len(answers) = 1 /\ Head(answers) \in {"READY", "RESET"} /\ ~Engaged
    <3>1. StopReported
      BY <2>1, <2>4, PhaseOf DEF StopPhase, StopSent, StopTaken, Silent
    <3>2. Len(<<"READY">>) = 1 /\ Len(<<"RESET">>) = 1
      OBVIOUS
    <3> QED
      BY <3>1, <3>2, Literals, Zenon DEF StopReported
  <2> QED
    BY <2>2, <2>3, <2>4
<1> QED
  BY <1>1, SpecInv, PTL

\* When no schedule can play any more, sched shows it.
LEMMA NotPlaying == TypeInv /\ CoreInv /\ ~Engaged => sched # "playing" \/ state = "RESET"
BY DEF TypeInv, Core1Types, CoreInv, Engaged

\* A START that was acknowledged started a schedule, and after an acknowledged
\* STOP none plays, missed deadlines or not (cuttlefish_app.cpp:148-184,
\* core1_main.cpp:88-138).
THEOREM AcksHonest == Spec => []AcksAreHonestUnlessReset
<1>1. Inv => AcksAreHonestUnlessReset
  <2> SUFFICES ASSUME Inv, faults \cap {"reset", "late"} = {} PROVE AcksAreHonest
    BY DEF AcksAreHonestUnlessReset, Without
  <2>1. /\ InPhase
        /\ reply = <<"START", "WRITE">> => begun
        /\ reply = <<"STOP", "WRITE">> => Resting("STOP")
    BY DEF Inv, TalkInv, AckInv, Without
  <2>2. Resting("STOP") => ~Engaged
    BY <2>1, PhaseOf DEF IdlePhase, Started, EndReported, Stopped, Resting, Command
  <2> QED
    BY <2>1, <2>2, NotPlaying DEF Inv, AcksAreHonest
<1> QED
  BY <1>1, SpecInv, PTL

\* With no message on its way, core1 runs no schedule that PwmState denies
\* (cuttlefish_app.cpp:148, 289-305).
THEOREM IdleIsStopped == Spec => []IdleMeansStopped
<1>1. Inv => IdleMeansStopped
  <2> SUFFICES ASSUME Inv, faults \cap {"reset", "late"} = {}, Quiet, ~pwmState
               PROVE  state # "RUNNING"
    BY DEF IdleMeansStopped, Without
  <2>1. InPhase
    BY DEF Inv, TalkInv, Without
  <2> QED
    BY <2>1, PhaseOf DEF Quiet, IdlePhase, Started, EndReported, Stopped, Resting, Command, Engaged
<1> QED
  BY <1>1, SpecInv, PTL

\* With no message on its way, settings are refused as busy only while core1
\* runs a schedule (cuttlefish_app.cpp:193, 289-305).
THEOREM BusyIsRunning == Spec => []BusyMeansRunningOnceReady
<1>1. Inv => BusyMeansRunningOnceReady
  <2> SUFFICES ASSUME Inv, faults \cap AnyFault = {}, pwmReady # {}, Quiet, pwmState
               PROVE  state = "RUNNING"
    BY DEF BusyMeansRunningOnceReady, BusyMeansRunning, Without
  <2>1. InPhase /\ (Started /\ pwmReady # {} => state = "RUNNING")
    BY DEF Inv, TalkInv, BusyInv, Without, AnyFault
  <2>2. Started
    BY <2>1, PhaseOf, Literals DEF Quiet, IdlePhase, EndReported, Stopped, Resting, Command
  <2> QED
    BY <2>1, <2>2
<1> QED
  BY <1>1, SpecInv, PTL

\* A schedule plays exactly the settings whose writes were accepted, though
\* they travel in another queue than the START (core1_main.cpp:33, 119-126;
\* cuttlefish_app.cpp:193-213).
THEOREM PlaysWhatWasAccepted == Spec => []RunsWhatWasAccepted
<1>1. Inv => RunsWhatWasAccepted
  <2> SUFFICES ASSUME Inv, faults \cap AnyFault = {}, sched = "playing" PROVE task = accepted
    BY DEF RunsWhatWasAccepted, Without
  <2>1. state # "RESET"
    BY DEF Inv, FailureInv, AnyFault
  <2>2. state = "RUNNING" \/ pc1 = "report"
    BY <2>1 DEF Inv, TypeInv, Core1Types, CoreInv
  <2>3. settings = <<>>
    BY <2>2 DEF Inv, TalkInv, Without, AnyFault
  <2>4. /\ DOMAIN task \subseteq DOMAIN accepted
        /\ \A p \in DOMAIN accepted : p \in DOMAIN task /\ task[p] = accepted[p]
    BY <2>3 DEF Inv, SettingsInv, Without
  <2>5. task \in [DOMAIN task -> Configs] /\ accepted \in [DOMAIN accepted -> Configs]
    BY DEF Inv, TypeInv, Core0Types, Core1Types, IsTable
  <2>6. DOMAIN task = DOMAIN accepted
    BY <2>4
  <2> QED
    BY <2>4, <2>5, <2>6
<1> QED
  BY <1>1, SpecInv, PTL

\* No schedule starts without a task, also for a host that resets the app at
\* any moment, or whose commands overtake the answers (cuttlefish_app.cpp:154).
THEOREM StartsWithTask == Spec => []StartsSomething
<1>1. Inv => StartsSomething
  BY DEF Inv, FirstInv, CoreInv, StartsSomething
<1> QED
  BY <1>1, SpecInv, PTL
=============================================================================
