-------------------------- MODULE PortPinsProofs --------------------------
(***************************************************************************)
(* Theorems about PortPins, for any pins, settings and queue capacity.      *)
(***************************************************************************)
EXTENDS PortPins, SequenceTheorems, WellFoundedInduction, TLAPS

\* Where the cores are, what they hold there and which puts they execute.
PutShape(a) ==
  \/ puts[a] = NoPut
  \/ puts[a].reg = "out"
  \/ /\ puts[a].reg = "oe"
     /\ \/ a = "core0" /\ puts[a].mask = Pins
        \/ a = "core1" /\ pc1 = "low" /\ puts[a].mask = {new.pin} /\ puts[a].value = {new.pin}
        \/ a = "core1" /\ pc1 = "destroy"

WhereInv ==
  /\ IF pc0 = "queue" THEN armed0 \in HostSettings ELSE armed0 = NoSettings
  /\ IF pc1 \in {"invert", "low"}
     THEN new \in HostSettings /\ new.pin \notin DOMAIN task /\ state = "READY"
     ELSE new = NoSettings
  /\ pc1 \in {"stop", "destroy", "input"} => state = "RUNNING"
  /\ pc1 = "input" => todo # {}
  /\ pc1 \in {"destroy", "input"} => DOMAIN task \subseteq todo
  /\ pc1 \in {"stop", "destroy", "input"} => todo \subseteq DOMAIN task
  /\ "failed" \notin troubles => pc1 \notin {"destroy", "input"}
  /\ "reset" \notin troubles => pc0 # "registers"
  /\ pc1 = "low" => puts["core1"].reg # "out"
  /\ \A a \in Actor : PutShape(a)

\* Without overlaps the directions that were read still stand when they are
\* toggled, and no two puts of the same are between their two accesses.
Fresh(a) ==
  puts[a].read /\ puts[a].reg = "oe" =>
    \A p \in puts[a].mask : p \in puts[a].old <=> p \in oe
Apart(a, b) ==
  puts[a].read /\ puts[b].read /\ puts[a].reg = "oe" /\ puts[b].reg = "oe"
    => puts[a].mask \cap puts[b].mask = {}
PutInv ==
  Without({"overlap"},
    /\ \A a \in Actor : Fresh(a)
    /\ \A a, b \in Actor : a # b => Apart(a, b))

\* Levels need no such help: the host keeps off the pins of tasks, core1 to them,
\* and the handler runs when core1 has nothing to put.  So what was read still
\* stands, and the outputs are as they were last put.
LevelTroubles == {"meddle", "caught", "latched", "reset"}
Stands(a) ==
  puts[a].read /\ puts[a].reg = "out" =>
    \A p \in puts[a].mask : p \in puts[a].old <=> p \in out
LevelInv ==
  Without(LevelTroubles,
    /\ out = meant /\ late = {}
    /\ puts["core0"].reg = "out" => puts["core0"].mask \cap Claimed = {}
    /\ puts["core1"].reg = "out" => puts["core1"].mask \subseteq DOMAIN task
    /\ puts["alarm"] # NoPut =>
         /\ state = "RUNNING" /\ pc1 = "loop" /\ puts["core1"] = NoPut
         /\ puts["alarm"].mask \subseteq DOMAIN task
    /\ \A a \in Actor : Stands(a))

\* The pin whose direction core1 has yet to set, though it is promised.
Pending == IF pc1 = "invert" \/ (pc1 = "low" /\ puts["core1"] # NoPut) THEN {new.pin} ELSE {}
DirInv ==
  Without({"overlap", "dir", "failed", "reset"},
    /\ buffers = portDir /\ Claimed \subseteq portDir
    /\ IF puts["core0"].reg = "oe" THEN puts["core0"].value = portDir
       ELSE oe \ Pending = portDir \ Pending)

\* The directions that core0 puts were asked for, and what it read of other
\* pins than those of tasks stands.
AskedInv ==
  Without({"full", "failed"},
    /\ pc0 # "registers" => portDir \subseteq asked \cup Claimed
    /\ pc0 = "queue" => Len(settings) < SettingsCap
    /\ IF puts["core0"].reg = "oe"
       THEN /\ puts["core0"].value \subseteq asked \cup Claimed
            /\ puts["core0"].read =>
                 \A p \in Pins \ Claimed : p \in puts["core0"].old <=> p \in oe
       ELSE oe \subseteq asked \cup Claimed)

\* All settings on their way to a task agree on its polarity.
Agree == \A s, t \in Promised : s.pin = t.pin => s.invert = t.invert
PolarityInv ==
  Without({"flip", "failed", "reset"},
    /\ Agree
    /\ inverted = {p \in DOMAIN task : task[p]}
                    \cup (IF pc1 = "low" /\ new.invert THEN {new.pin} ELSE {}))

\* The pins that are LOW already, or will be after the put of core1.
Lowered ==
  IF state = "READY" THEN DOMAIN task \cup (IF pc1 = "loop" THEN {} ELSE {new.pin})
  ELSE IF pc1 = "stop" THEN DOMAIN task \ todo
  ELSE {}
LowInv ==
  Without(LevelTroubles,
    /\ puts["core1"].reg = "out" /\ ~(state = "RUNNING" /\ pc1 = "loop")
         => puts["core1"].value = {}
    /\ \A p \in Lowered \cap out : puts["core1"].reg = "out" /\ p \in puts["core1"].mask)
-----------------------------------------------------------------------------
(***************************************************************************)
(* Pins, puts and settings.                                                *)
(***************************************************************************)
LEMMA FirstOf == ASSUME NEW S, S \subseteq Pins, S # {} PROVE First(S) \in S
<1> DEFINE R == OpToRel(<, Nat)
<1>1. S \subseteq Nat
  BY PinsAssumption
<1>2. PICK p \in S : \A q \in S : <<q, p>> \notin R
  <2>1. IsWellFoundedOn(R, Nat)
    BY NatLessThanWellFounded
  <2> HIDE DEF R
  <2> QED
    BY <1>1, <2>1, WFMin
<1>3. \A q \in S : ~(q < p)
  BY <1>1, <1>2 DEF OpToRel
<1>4. \A q \in S : p <= q
  BY <1>1, <1>3
<1> QED
  BY <1>4 DEF First

LEMMA Pinned ==
  ASSUME NEW s \in HostSettings
  PROVE  /\ s.pin \in Pins /\ s.invert \in BOOLEAN /\ s # NoSettings
         /\ s = [pin |-> s.pin, invert |-> s.invert]
BY SettingsAssumption, PinsAssumption DEF NoSettings

Puts == [reg : {"none", "out", "oe"}, mask : SUBSET Pins, value : SUBSET Pins,
         old : SUBSET Pins, read : BOOLEAN]

LEMMA PuttingType ==
  ASSUME NEW f \in [Actor -> Puts], NEW a \in Actor, NEW reg \in {"out", "oe"},
         NEW mask \in SUBSET Pins, NEW value \in SUBSET Pins
  PROVE  [f EXCEPT ![a] = Putting(reg, mask, value)] \in [Actor -> Puts]
<1>1. Putting(reg, mask, value) \in Puts
  BY DEF Putting, Puts
<1> QED
  BY <1>1

LEMMA ReadPut ==
  ASSUME NEW f \in [Actor -> Puts], NEW a \in Actor, NEW S \in SUBSET Pins, NEW g,
         g = [f EXCEPT ![a].read = TRUE, ![a].old = S]
  PROVE  /\ g \in [Actor -> Puts]
         /\ g[a].reg = f[a].reg /\ g[a].mask = f[a].mask /\ g[a].value = f[a].value
         /\ g[a].read /\ g[a].old = S
         /\ \A b \in Actor \ {a} : g[b] = f[b]
<1>1. f[a] \in Puts
  OBVIOUS
<1>2. /\ g[a] = [reg |-> f[a].reg, mask |-> f[a].mask, value |-> f[a].value,
                 old |-> S, read |-> TRUE]
      /\ \A b \in Actor \ {a} : g[b] = f[b]
      /\ g = [f EXCEPT ![a] = g[a]]
  BY <1>1 DEF Puts
<1>3. g[a] \in Puts
  BY <1>1, <1>2 DEF Puts
<1>4. g \in [Actor -> Puts]
  BY <1>2, <1>3
<1> QED
  BY <1>2, <1>4

LEMMA NoPutType == NoPut \in Puts /\ NoPut.reg = "none" /\ ~NoPut.read /\ NoPut.mask = {}
BY DEF NoPut, Puts

LEMMA PuttingIs ==
  ASSUME NEW reg, NEW mask, NEW value, reg # "none"
  PROVE  /\ Putting(reg, mask, value) # NoPut
         /\ Putting(reg, mask, value).reg = reg
         /\ Putting(reg, mask, value).mask = mask
         /\ Putting(reg, mask, value).value = value
         /\ ~Putting(reg, mask, value).read
BY DEF Putting, NoPut

IsTasks(f) == DOMAIN f \subseteq Pins /\ f \in [DOMAIN f -> BOOLEAN]
-----------------------------------------------------------------------------
(***************************************************************************)
(* Types.                                                                  *)
(***************************************************************************)
ChipTypes ==
  /\ out \subseteq Pins /\ oe \subseteq Pins /\ inverted \subseteq Pins
  /\ buffers \subseteq Pins /\ late \subseteq Pins /\ meant \subseteq Pins /\ asked \subseteq Pins
PutTypes == puts \in [Actor -> Puts]
Core0Types ==
  /\ pc0 \in {"idle", "queue", "waiting", "registers"} /\ portDir \subseteq Pins
  /\ pwmState \in BOOLEAN /\ armed0 \in HostSettings \cup {NoSettings}
QueueTypes ==
  /\ settings \in Seq(HostSettings) /\ Len(settings) <= SettingsCap
  /\ ctrl \in {"none", "START", "STOP"} /\ ended \in BOOLEAN
Core1Types ==
  /\ pc1 \in {"loop", "invert", "low", "stop", "destroy", "input"}
  /\ state \in {"READY", "RUNNING"} /\ IsTasks(task)
  /\ new \in HostSettings \cup {NoSettings} /\ todo \subseteq Pins
TypeInv ==
  ChipTypes /\ PutTypes /\ Core0Types /\ QueueTypes /\ Core1Types /\ troubles \subseteq AllTroubles

LEMMA TypeInvIsTypeOK == TypeInv => TypeOK
<1> SUFFICES ASSUME TypeInv PROVE TypeOK
  OBVIOUS
<1>1. {out, oe, inverted, buffers, late, portDir, todo, meant, asked} \subseteq SUBSET Pins
  BY DEF TypeInv, ChipTypes, Core0Types, Core1Types
<1>2. {pwmState, ended} \subseteq BOOLEAN
  BY Zenon DEF TypeInv, Core0Types, QueueTypes
<1>3. {armed0, new} \subseteq HostSettings \cup {NoSettings}
  BY DEF TypeInv, Core0Types, Core1Types
<1> QED
  BY <1>1, <1>2, <1>3, Zenon
     DEF TypeInv, PutTypes, Puts, Core0Types, QueueTypes, Core1Types, IsTasks, TypeOK

LEMMA TypesKept ==
  ASSUME TypeInv
  PROVE  /\ UNCHANGED <<chipVars, meant, asked>> => ChipTypes'
         /\ UNCHANGED puts => PutTypes'
         /\ UNCHANGED core0Vars => Core0Types'
         /\ UNCHANGED queueVars => QueueTypes'
         /\ UNCHANGED core1Vars => Core1Types'
         /\ UNCHANGED task => IsTasks(task)'
BY DEF TypeInv, ChipTypes, PutTypes, Core0Types, QueueTypes, Core1Types, chipVars, core0Vars,
       queueVars, core1Vars, IsTasks

LEMMA OccurTypes ==
  ASSUME NEW some, Occur(some), TypeInv PROVE troubles' \subseteq AllTroubles
BY TroublesAssumption DEF Occur, TypeInv

LEMMA TypeInit == Init => TypeInv
<1> SUFFICES ASSUME Init PROVE TypeInv
  OBVIOUS
<1>1. ChipTypes
  BY DEF Init, ChipTypes
<1>2. PutTypes
  BY NoPutType DEF Init, PutTypes
<1>3. Core0Types
  BY DEF Init, Core0Types
<1>4. QueueTypes
  <2>1. <<>> \in Seq(HostSettings) /\ Len(<<>>) <= SettingsCap
    BY CapAssumption
  <2> QED
    BY <2>1, Zenon DEF Init, QueueTypes
<1>5. Core1Types
  BY DEF Init, Core1Types, IsTasks, None
<1> QED
  BY <1>1, <1>2, <1>3, <1>4, <1>5 DEF Init, TypeInv

\* What it means to start a put.
Starts(a, reg, mask, value) ==
  /\ puts' = [puts EXCEPT ![a] = Putting(reg, mask, value)]
  /\ reg \in {"out", "oe"} /\ mask \subseteq Pins /\ value \subseteq Pins

LEMMA StartedPut ==
  ASSUME TypeInv, NEW a \in Actor, NEW reg, NEW mask, NEW value, Starts(a, reg, mask, value)
  PROVE  /\ PutTypes'
         /\ puts'[a] = Putting(reg, mask, value)
         /\ puts'[a].reg = reg /\ puts'[a].mask = mask /\ puts'[a].value = value
         /\ puts'[a] # NoPut /\ ~puts'[a].read
         /\ \A b \in Actor \ {a} : puts'[b] = puts[b]
<1>1. puts \in [Actor -> Puts]
  BY DEF TypeInv, PutTypes
<1>2. puts' \in [Actor -> Puts]
  BY <1>1, PuttingType DEF Starts
<1>3. puts'[a] = Putting(reg, mask, value) /\ \A b \in Actor \ {a} : puts'[b] = puts[b]
  BY <1>1 DEF Starts
<1>4. reg # "none"
  BY DEF Starts
<1> QED
  BY <1>2, <1>3, <1>4, PuttingIs DEF PutTypes

\* Which step starts which put.
LEMMA HostStarts ==
  ASSUME TypeInv, NEW S \in SUBSET Pins
  PROVE  /\ WritePortDir(S) => Starts("core0", "oe", Pins, S)
         /\ WritePortState(S) => Starts("core0", "out", portDir, S)
         /\ WritePortSet(S) => Starts("core0", "out", S, S)
         /\ WritePortClear(S) => Starts("core0", "out", S, {})
BY DEF TypeInv, Core0Types, WritePortDir, WrittenDir, SetIoPortDir, SetDir, WritePortState,
       WritePortSet, WritePortClear, HostPut, Put, Starts

LEMMA SettingsStart ==
  ASSUME TypeInv, NEW s \in HostSettings, WritePwmSettings(s)
  PROVE  Starts("core0", "oe", Pins, portDir \cup {s.pin})
BY Pinned DEF TypeInv, Core0Types, WritePwmSettings, ArmedDir, SetIoPortDir, SetDir, Starts

LEMMA TaskStarts ==
  ASSUME TypeInv, WhereInv
  PROVE  /\ ConstructInvert => Starts("core1", "oe", {new.pin}, {new.pin}) /\ new.pin \in Pins
         /\ ConstructLow => Starts("core1", "out", {new.pin}, {}) /\ new.pin \in Pins
         /\ StopTask => Starts("core1", "out", {First(todo)}, {}) /\ First(todo) \in todo
         /\ DestroyLow => Starts("core1", "out", {First(todo)}, {})
         /\ DestroyDir => Starts("core1", "oe", {First(todo)}, {}) /\ First(todo) \in todo
         /\ \A high \in SUBSET Pins : Start(high) => Starts("core1", "out", DOMAIN task, high)
         /\ \A mask, high \in SUBSET Pins :
              (AlarmFires(mask, high) \/ LatchedFires(mask, high)) => Starts("alarm", "out", mask, high)
<1>1. pc1 \in {"invert", "low"} => new.pin \in Pins
  BY Pinned DEF WhereInv
<1>2. todo # {} => First(todo) \in todo /\ First(todo) \in Pins
  BY FirstOf DEF TypeInv, Core1Types
<1>3. ConstructInvert => Starts("core1", "oe", {new.pin}, {new.pin}) /\ new.pin \in Pins
  BY <1>1 DEF ConstructInvert, At1, SetDir, Starts
<1>4. ConstructLow => Starts("core1", "out", {new.pin}, {}) /\ new.pin \in Pins
  BY <1>1 DEF ConstructLow, At1, Put, Starts
<1>5. StopTask => Starts("core1", "out", {First(todo)}, {}) /\ First(todo) \in todo
  BY <1>2 DEF StopTask, StopLevel, Put, Starts
<1>6. DestroyLow => Starts("core1", "out", {First(todo)}, {})
  BY <1>2 DEF DestroyLow, Put, Starts
<1>7. DestroyDir => Starts("core1", "oe", {First(todo)}, {}) /\ First(todo) \in todo
  BY <1>2 DEF DestroyDir, At1, WhereInv, SetDir, Starts
<1>8. \A high \in SUBSET Pins : Start(high) => Starts("core1", "out", DOMAIN task, high)
  BY DEF Start, StartMask, Put, Starts, TypeInv, Core1Types, IsTasks
<1>9. \A mask, high \in SUBSET Pins :
        (AlarmFires(mask, high) \/ LatchedFires(mask, high)) => Starts("alarm", "out", mask, high)
  BY DEF AlarmFires, LatchedFires, Put, Starts
<1> QED
  BY <1>3, <1>4, <1>5, <1>6, <1>7, <1>8, <1>9

LEMMA TypeChip == TypeInv /\ WhereInv /\ Next => ChipTypes' /\ PutTypes' /\ troubles' \subseteq AllTroubles
<1> SUFFICES ASSUME TypeInv, WhereInv, Next
             PROVE  ChipTypes' /\ PutTypes' /\ troubles' \subseteq AllTroubles
  OBVIOUS
<1>0. troubles \subseteq AllTroubles
  BY DEF TypeInv
<1>1. ASSUME NEW a \in Actor, ReadRegister(a) PROVE ChipTypes' /\ PutTypes' /\ troubles' \subseteq AllTroubles
  <2>1. puts \in [Actor -> Puts] /\ out \in SUBSET Pins /\ oe \in SUBSET Pins
    BY DEF TypeInv, PutTypes, ChipTypes
  <2>3. PutTypes'
    BY <1>1, <2>1, ReadPut DEF ReadRegister, PutTypes
  <2> QED
    BY <1>1, <2>3, TypesKept, OccurTypes DEF ReadRegister
<1>2. ASSUME NEW a \in Actor, ToggleRegister(a) PROVE ChipTypes' /\ PutTypes' /\ troubles' \subseteq AllTroubles
  <2>1. PutTypes'
    BY <1>2, NoPutType DEF TypeInv, PutTypes, ToggleRegister
  <2>2. puts[a].mask \subseteq Pins /\ puts[a].value \subseteq Pins /\ puts[a].old \subseteq Pins
    BY DEF TypeInv, PutTypes, Puts
  <2>3. ChipTypes'
    BY <1>2, <2>2 DEF ToggleRegister, Toggled, SymDiff, TypeInv, ChipTypes
  <2> QED
    BY <1>0, <1>2, <2>1, <2>3 DEF ToggleRegister
<1>3. ASSUME NEW S \in SUBSET Pins,
             WritePortDir(S) \/ WritePortState(S) \/ WritePortSet(S) \/ WritePortClear(S)
      PROVE  ChipTypes' /\ PutTypes' /\ troubles' \subseteq AllTroubles
  <2>1. PutTypes'
    BY <1>3, HostStarts, StartedPut DEF Actor
  <2>2. ChipTypes'
    BY <1>3 DEF TypeInv, ChipTypes, WritePortDir, WrittenDir, SetIoPortDir, WritePortState,
                WritePortSet, WritePortClear, HostPut, chipVars
  <2> QED
    BY <1>3, <2>1, <2>2, OccurTypes DEF WritePortDir, WritePortState, WritePortSet,
                                        WritePortClear, HostPut
<1>4. ASSUME NEW s \in HostSettings, WritePwmSettings(s)
      PROVE  ChipTypes' /\ PutTypes' /\ troubles' \subseteq AllTroubles
  <2>1. PutTypes'
    BY <1>4, SettingsStart, StartedPut DEF Actor
  <2>2. ChipTypes'
    BY <1>4, Pinned DEF TypeInv, ChipTypes, Core0Types, WritePwmSettings, ArmedDir, SetIoPortDir
  <2> QED
    BY <1>4, <2>1, <2>2, OccurTypes DEF WritePwmSettings
<1>5. CASE QueueSettings
  <2>1. armed0.pin \in Pins
    BY <1>5, Pinned DEF QueueSettings, At0, WhereInv
  <2>2. ChipTypes'
    BY <1>5, <2>1 DEF TypeInv, ChipTypes, QueueSettings, historyVars
  <2> QED
    BY <1>0, <1>5, <2>2, TypesKept DEF QueueSettings, historyVars
<1>6. CASE ResetApp \/ ResetRegisters
  <2>1. PutTypes'
    <3>1. CASE ResetApp
      BY <3>1, PuttingType DEF ResetApp, TypeInv, PutTypes, Actor
    <3> QED
      BY <1>6, <3>1, TypesKept DEF ResetRegisters
  <2>2. ChipTypes'
    BY <1>6 DEF TypeInv, ChipTypes, ResetApp, ResetRegisters, GpioInit, historyVars
  <2> QED
    BY <1>0, <1>6, <2>1, <2>2, OccurTypes DEF ResetApp, ResetRegisters, historyVars
<1>7. CASE Construct
  <2>1. ChipTypes'
    BY <1>7 DEF TypeInv, ChipTypes, Construct, GpioInit
  <2> QED
    BY <1>7, <2>1, TypesKept, OccurTypes DEF Construct
<1>8. CASE ConstructInvert
  <2>1. PutTypes' /\ new.pin \in Pins
    BY <1>8, TaskStarts, StartedPut DEF Actor
  <2>2. ChipTypes'
    BY <1>8, <2>1 DEF TypeInv, ChipTypes, ConstructInvert, Polarity
  <2> QED
    BY <1>0, <1>8, <2>1, <2>2 DEF ConstructInvert
<1>9. CASE ConstructLow \/ StopTask \/ DestroyLow \/ DestroyDir
             \/ \E high \in SUBSET Pins : Start(high)
  <2>1. PutTypes'
    BY <1>9, TaskStarts, StartedPut DEF Actor
  <2>2. ChipTypes' /\ troubles' = troubles
    BY <1>9, TypesKept DEF ConstructLow, StopTask, DestroyLow, DestroyDir, Start
  <2> QED
    BY <1>0, <2>1, <2>2
<1>10. ASSUME NEW mask \in SUBSET Pins, NEW high \in SUBSET Pins, (AlarmFires(mask, high) \/ LatchedFires(mask, high))
       PROVE  ChipTypes' /\ PutTypes' /\ troubles' \subseteq AllTroubles
  <2>1. PutTypes'
    BY <1>10, TaskStarts, StartedPut DEF Actor
  <2> QED
    BY <1>10, <2>1, OccurTypes DEF AlarmFires, LatchedFires, chipVars, historyVars,
                                         TypeInv, ChipTypes
<1>11. CASE WritePwmState \/ TakeAnswer \/ UpdateAppState \/ RewriteTask \/ Ignore \/ Stop
              \/ Fail \/ Finish
  <2>1. UNCHANGED <<out, oe, inverted, buffers, puts, meant, asked>>
    BY <1>11 DEF WritePwmState, TakeAnswer, UpdateAppState, RewriteTask, Ignore, Stop, Fail,
                 Finish, chipVars, historyVars
  <2>2. troubles' = troubles \/ Stop \/ Fail
    BY <1>11 DEF WritePwmState, TakeAnswer, UpdateAppState, RewriteTask, Ignore, Finish,
                 historyVars
  <2>3. late' \subseteq late \cup DOMAIN task
    BY <1>11 DEF WritePwmState, TakeAnswer, UpdateAppState, RewriteTask, Ignore, Stop, Fail,
                 Finish, CancelAlarm, chipVars
  <2>4. ChipTypes' /\ PutTypes'
    BY <2>1, <2>3 DEF TypeInv, ChipTypes, PutTypes, Core1Types, IsTasks
  <2>5. troubles' \subseteq AllTroubles
    BY <1>0, <2>2, OccurTypes DEF Stop, Fail, CancelAlarm
  <2> QED
    BY <2>4, <2>5
<1> QED
  BY <1>1, <1>2, <1>3, <1>4, <1>5, <1>6, <1>7, <1>8, <1>9, <1>10, <1>11, Zenon DEF Next

\* Who moves core0, and who core1.
LEMMA Core0Moves ==
  Next => \/ UNCHANGED core0Vars
          \/ \E S \in SUBSET Pins : WritePortDir(S)
          \/ \E s \in HostSettings : WritePwmSettings(s)
          \/ QueueSettings \/ WritePwmState \/ TakeAnswer \/ UpdateAppState
          \/ ResetApp \/ ResetRegisters
BY Zenon DEF Next, ReadRegister, ToggleRegister, WritePortState, WritePortSet, WritePortClear,
       HostPut, RewriteTask, Construct, ConstructInvert, ConstructLow, Start, AlarmFires, LatchedFires,
       Ignore, Stop, StopTask, Fail, DestroyLow, DestroyDir, Finish

LEMMA Core1Moves ==
  Next => \/ UNCHANGED core1Vars \/ RewriteTask \/ Construct \/ ConstructLow \/ DestroyDir
          \/ ConstructInvert \/ Stop \/ StopTask \/ Fail \/ DestroyLow \/ Finish
          \/ \E high \in SUBSET Pins : Start(high)
BY Zenon DEF Next, ReadRegister, ToggleRegister, WritePortDir, WritePortState, WritePortSet,
       WritePortClear, HostPut, WritePwmSettings, QueueSettings, WritePwmState, TakeAnswer,
       UpdateAppState, ResetApp, ResetRegisters, AlarmFires, LatchedFires, Ignore

LEMMA TypeCore0 == TypeInv /\ Next => Core0Types'
<1> SUFFICES ASSUME TypeInv, Next PROVE Core0Types'
  OBVIOUS
<1>1. ASSUME NEW S \in SUBSET Pins, WritePortDir(S) PROVE Core0Types'
  BY <1>1 DEF TypeInv, Core0Types, WritePortDir, WrittenDir
<1>2. ASSUME NEW s \in HostSettings, WritePwmSettings(s) PROVE Core0Types'
  BY <1>2, Pinned DEF TypeInv, Core0Types, WritePwmSettings, ArmedDir
<1>3. CASE QueueSettings
  BY <1>3 DEF TypeInv, Core0Types, QueueSettings
<1>4. CASE WritePwmState
  <2>1. pwmState' \in BOOLEAN
    BY <1>4, Zenon DEF WritePwmState
  <2> QED
    BY <1>4, <2>1 DEF TypeInv, Core0Types, WritePwmState
<1>5. CASE TakeAnswer \/ UpdateAppState
  BY <1>5 DEF TypeInv, Core0Types, TakeAnswer, UpdateAppState
<1>6. CASE ResetApp \/ ResetRegisters
  BY <1>6 DEF TypeInv, Core0Types, ResetApp, ResetRegisters
<1>7. CASE UNCHANGED core0Vars
  BY <1>7, TypesKept
<1> QED
  BY <1>1, <1>2, <1>3, <1>4, <1>5, <1>6, <1>7, Core0Moves, Zenon

LEMMA HeadType ==
  ASSUME TypeInv, settings # <<>>
  PROVE  /\ Head(settings) \in HostSettings /\ Tail(settings) \in Seq(HostSettings)
         /\ Len(settings) \in Nat /\ Len(Tail(settings)) = Len(settings) - 1
         /\ 1 \in DOMAIN settings /\ Head(settings) = settings[1]
         /\ \A i \in DOMAIN settings \ {1} :
              i - 1 \in DOMAIN Tail(settings) /\ settings[i] = Tail(settings)[i - 1]
         /\ \A i \in DOMAIN Tail(settings) :
              i + 1 \in DOMAIN settings /\ Tail(settings)[i] = settings[i + 1]
<1>1. settings \in Seq(HostSettings)
  BY DEF TypeInv, QueueTypes
<1>2. /\ Head(settings) \in HostSettings /\ Tail(settings) \in Seq(HostSettings)
      /\ Len(settings) \in Nat /\ Len(settings) >= 1
      /\ Len(Tail(settings)) = Len(settings) - 1 /\ Head(settings) = settings[1]
      /\ \A i \in 1 .. Len(settings) - 1 : Tail(settings)[i] = settings[i + 1]
      /\ DOMAIN settings = 1 .. Len(settings) /\ DOMAIN Tail(settings) = 1 .. Len(settings) - 1
  BY <1>1, HeadTailProperties, LenProperties
<1> QED
  BY <1>2

LEMMA TypeQueue == TypeInv /\ WhereInv /\ Next => QueueTypes'
<1> SUFFICES ASSUME TypeInv, WhereInv, Next PROVE QueueTypes'
  OBVIOUS
<1>0. SettingsCap \in Nat
  BY CapAssumption
<1>1. CASE QueueSettings
  <2>1. armed0 \in HostSettings
    BY <1>1 DEF QueueSettings, At0, WhereInv
  <2>2. settings' \in Seq(HostSettings) /\ Len(settings') <= SettingsCap
    BY <1>0, <1>1, <2>1, AppendProperties, LenProperties
       DEF TypeInv, QueueTypes, QueueSettings, HasRoom
  <2> QED
    BY <1>1, <2>2 DEF TypeInv, QueueTypes, QueueSettings
<1>2. CASE ResetApp
  <2>1. <<>> \in Seq(HostSettings) /\ Len(<<>>) <= SettingsCap
    BY <1>0
  <2> QED
    BY <1>2, <2>1, Zenon DEF ResetApp, QueueTypes
<1>3. CASE RewriteTask \/ Construct
  <2>1. settings # <<>> /\ settings' = Tail(settings) /\ ctrl' = ctrl /\ ended' = ended
    BY <1>3 DEF RewriteTask, Construct
  <2> QED
    BY <1>0, <2>1, HeadType DEF TypeInv, QueueTypes
<1>4. CASE \/ WritePwmState \/ TakeAnswer \/ UpdateAppState \/ Ignore \/ Stop \/ Fail
           \/ \E high \in SUBSET Pins : Start(high)
  <2>1. settings' = settings /\ ctrl' \in {"none", "START", "STOP"}
    BY <1>4 DEF TypeInv, QueueTypes, WritePwmState, TakeAnswer, UpdateAppState, Ignore, Stop,
                Fail, Start
  <2>2. ended' \in BOOLEAN
    BY <1>4, Zenon DEF TypeInv, QueueTypes, WritePwmState, TakeAnswer, UpdateAppState, Ignore,
                Stop, Fail, Start
  <2> QED
    BY <2>1, <2>2 DEF TypeInv, QueueTypes
<1>5. CASE UNCHANGED queueVars
  BY <1>5, TypesKept
<1>6. \/ UNCHANGED queueVars \/ QueueSettings \/ ResetApp \/ RewriteTask \/ Construct
      \/ WritePwmState \/ TakeAnswer \/ UpdateAppState \/ Ignore \/ Stop \/ Fail
      \/ \E high \in SUBSET Pins : Start(high)
  BY Zenon DEF Next, ReadRegister, ToggleRegister, WritePortDir, WritePortState, WritePortSet,
         WritePortClear, HostPut, WritePwmSettings, ResetRegisters, ConstructInvert,
         ConstructLow, AlarmFires, LatchedFires, StopTask, DestroyLow, DestroyDir, Finish
<1> QED
  BY <1>1, <1>2, <1>3, <1>4, <1>5, <1>6, Zenon

LEMMA TypeCore1 == TypeInv /\ WhereInv /\ Next => Core1Types'
<1> SUFFICES ASSUME TypeInv, WhereInv, Next PROVE Core1Types'
  OBVIOUS
<1>0. IsTasks(task)
  BY DEF TypeInv, Core1Types
<1>1. CASE RewriteTask
  <2>1. Head(settings).invert \in BOOLEAN
    BY <1>1, HeadType, Pinned DEF RewriteTask
  <2>2. task' = [task EXCEPT ![Head(settings).pin] = Head(settings).invert]
    BY <1>1 DEF RewriteTask
  <2>3. IsTasks(task)'
    BY <1>0, <2>1, <2>2 DEF IsTasks
  <2> QED
    BY <1>1, <2>3 DEF TypeInv, Core1Types, RewriteTask
<1>2. CASE Construct
  <2>1. IsTasks(task)' /\ Head(settings) \in HostSettings
    BY <1>2, TypesKept, HeadType DEF Construct
  <2> QED
    BY <1>2, <2>1 DEF TypeInv, Core1Types, Construct
<1>3. CASE ConstructLow
  <2>1. new.pin \in Pins /\ new.invert \in BOOLEAN
    BY <1>3, Pinned DEF ConstructLow, At1, WhereInv
  <2>2. task' = With(task, new.pin, new.invert)
    BY <1>3 DEF ConstructLow
  <2>3. IsTasks(task)'
    BY <1>0, <2>1, <2>2 DEF IsTasks, With
  <2> QED
    BY <1>3, <2>3 DEF TypeInv, Core1Types, ConstructLow
<1>4. CASE DestroyDir
  <2>1. IsTasks(task)'
    BY <1>0, <1>4 DEF DestroyDir, IsTasks, Dropping
  <2> QED
    BY <1>4, <2>1 DEF TypeInv, Core1Types, DestroyDir
<1>5. CASE ConstructInvert \/ Stop \/ StopTask \/ Fail \/ DestroyLow \/ Finish
             \/ \E high \in SUBSET Pins : Start(high)
  <2>1. task' = task
    BY <1>5 DEF ConstructInvert, Stop, StopTask, Fail, DestroyLow, Finish, Start
  <2>2. IsTasks(task)' /\ DOMAIN task \subseteq Pins
    BY <1>0, <2>1, TypesKept DEF IsTasks
  <2> QED
    BY <1>5, <2>2 DEF TypeInv, Core1Types, ConstructInvert, Stop, StopTask, Fail, DestroyLow,
                      Finish, Start
<1>6. CASE UNCHANGED core1Vars
  BY <1>6, TypesKept
<1> QED
  BY <1>1, <1>2, <1>3, <1>4, <1>5, <1>6, Core1Moves, Zenon

LEMMA TypeStep == TypeInv /\ WhereInv /\ [Next]_vars => TypeInv'
<1> SUFFICES ASSUME TypeInv, WhereInv, [Next]_vars PROVE TypeInv'
  OBVIOUS
<1>1. CASE UNCHANGED vars
  BY <1>1, TypesKept DEF vars, TypeInv, historyVars
<1>2. CASE Next
  BY <1>2, TypeChip, TypeCore0, TypeQueue, TypeCore1 DEF TypeInv
<1> QED
  BY <1>1, <1>2
-----------------------------------------------------------------------------
(***************************************************************************)
(* Where the cores are.                                                    *)
(***************************************************************************)
LEMMA TroublesStay == [Next]_vars => troubles \subseteq troubles'
<1> SUFFICES ASSUME [Next]_vars PROVE troubles \subseteq troubles'
  OBVIOUS
<1>1. troubles' = troubles \/ \E some \in SUBSET AllTroubles : Occur(some) \/ troubles' = troubles \cup some
  BY DEF Next, vars, historyVars, ReadRegister, ToggleRegister, WritePortDir, WritePortState,
         WritePortSet, WritePortClear, HostPut, WritePwmSettings, QueueSettings, WritePwmState,
         TakeAnswer, UpdateAppState, ResetApp, ResetRegisters, RewriteTask, Construct,
         ConstructInvert, ConstructLow, Start, AlarmFires, LatchedFires, Ignore, Stop, StopTask, Fail,
         DestroyLow, DestroyDir, Finish, Occur, If, InitTroubles, CancelAlarm, AllTroubles
<1> QED
  BY <1>1 DEF Occur

\* The puts after a step.
LEMMA PutMoves ==
  ASSUME TypeInv, WhereInv, Next
  PROVE  \/ UNCHANGED puts
         \/ \E a \in Actor :
              /\ \/ ReadRegister(a) /\ puts'[a].reg = puts[a].reg
                      /\ puts'[a].mask = puts[a].mask /\ puts'[a].value = puts[a].value
                      /\ puts[a] # NoPut
                 \/ ToggleRegister(a) /\ puts'[a] = NoPut
              /\ UNCHANGED <<core0Vars, queueVars, core1Vars, asked>>
              /\ \A b \in Actor \ {a} : puts'[b] = puts[b]
         \/ \E S \in SUBSET Pins :
              \/ WritePortDir(S) /\ Starts("core0", "oe", Pins, S)
              \/ WritePortState(S) /\ Starts("core0", "out", portDir, S)
              \/ WritePortSet(S) /\ Starts("core0", "out", S, S)
              \/ WritePortClear(S) /\ Starts("core0", "out", S, {})
         \/ \E s \in HostSettings :
              WritePwmSettings(s) /\ Starts("core0", "oe", Pins, portDir \cup {s.pin})
         \/ ResetApp /\ Starts("core0", "oe", Pins, {})
         \/ ConstructInvert /\ Starts("core1", "oe", {new.pin}, {new.pin})
         \/ ConstructLow /\ Starts("core1", "out", {new.pin}, {})
         \/ StopTask /\ Starts("core1", "out", {First(todo)}, {})
         \/ DestroyLow /\ Starts("core1", "out", {First(todo)}, {})
         \/ DestroyDir /\ Starts("core1", "oe", {First(todo)}, {})
         \/ \E high \in SUBSET Pins : Start(high) /\ Starts("core1", "out", DOMAIN task, high)
         \/ \E mask, high \in SUBSET Pins :
              (AlarmFires(mask, high) \/ LatchedFires(mask, high)) /\ Starts("alarm", "out", mask, high)
<1>0. puts \in [Actor -> Puts]
  BY DEF TypeInv, PutTypes
<1>1. ASSUME NEW a \in Actor, ReadRegister(a)
      PROVE  /\ puts'[a].reg = puts[a].reg /\ puts'[a].mask = puts[a].mask
             /\ puts'[a].value = puts[a].value /\ puts[a] # NoPut
             /\ UNCHANGED <<core0Vars, queueVars, core1Vars, asked>>
             /\ \A b \in Actor \ {a} : puts'[b] = puts[b]
  <2>1. out \in SUBSET Pins /\ oe \in SUBSET Pins
    BY DEF TypeInv, ChipTypes
  <2> QED
    BY <1>0, <1>1, <2>1, ReadPut DEF ReadRegister, MayPut
<1>2. ASSUME NEW a \in Actor, ToggleRegister(a)
      PROVE  /\ puts'[a] = NoPut /\ UNCHANGED <<core0Vars, queueVars, core1Vars, asked>>
             /\ \A b \in Actor \ {a} : puts'[b] = puts[b]
  BY <1>0, <1>2 DEF ToggleRegister
<1>3. ResetApp => Starts("core0", "oe", Pins, {})
  BY DEF ResetApp, Starts
<1>4. \/ UNCHANGED puts
      \/ \E a \in Actor : ReadRegister(a) \/ ToggleRegister(a)
      \/ \E S \in SUBSET Pins :
           WritePortDir(S) \/ WritePortState(S) \/ WritePortSet(S) \/ WritePortClear(S)
      \/ \E s \in HostSettings : WritePwmSettings(s)
      \/ ResetApp \/ ConstructInvert \/ ConstructLow \/ StopTask \/ DestroyLow \/ DestroyDir
      \/ \E high \in SUBSET Pins : Start(high)
      \/ \E mask, high \in SUBSET Pins : (AlarmFires(mask, high) \/ LatchedFires(mask, high))
  BY Zenon DEF Next, QueueSettings, WritePwmState, TakeAnswer, UpdateAppState, ResetRegisters,
         RewriteTask, Construct, Ignore, Stop, Fail, Finish
<1>5. CASE \E a \in Actor : ReadRegister(a) \/ ToggleRegister(a)
  BY <1>1, <1>2, <1>5
<1>6. CASE \E S \in SUBSET Pins :
             WritePortDir(S) \/ WritePortState(S) \/ WritePortSet(S) \/ WritePortClear(S)
  BY <1>6, HostStarts
<1>7. CASE \E s \in HostSettings : WritePwmSettings(s)
  BY <1>7, SettingsStart
<1> QED
  BY <1>3, <1>4, <1>5, <1>6, <1>7, TaskStarts

LEMMA WhereInit == Init => WhereInv
BY NoPutType DEF Init, WhereInv, PutShape, Actor

LEMMA Core0Where ==
  ASSUME TypeInv, WhereInv, Next
  PROVE  /\ IF pc0' = "queue" THEN armed0' \in HostSettings ELSE armed0' = NoSettings
         /\ "reset" \notin troubles' => pc0' # "registers"
<1>1. troubles \subseteq troubles'
  BY TroublesStay
<1>2. CASE UNCHANGED core0Vars
  BY <1>1, <1>2 DEF WhereInv, core0Vars
<1>3. ASSUME NEW S \in SUBSET Pins, WritePortDir(S)
      PROVE  UNCHANGED <<pc0, armed0>> /\ pc0 # "queue" /\ pc0 # "registers"
  BY <1>3 DEF WritePortDir, At0
<1>4. ASSUME NEW s \in HostSettings, WritePwmSettings(s)
      PROVE  pc0' = "queue" /\ armed0' \in HostSettings
  BY <1>4 DEF WritePwmSettings
<1>5. QueueSettings => pc0' = "idle" /\ armed0' = NoSettings
  BY DEF QueueSettings
<1>6. WritePwmState \/ TakeAnswer \/ UpdateAppState \/ ResetRegisters
        => pc0 # "queue" /\ armed0' = armed0 /\ pc0' \in {"idle", "waiting"}
  BY DEF WritePwmState, TakeAnswer, UpdateAppState, ResetRegisters, At0
<1>7. ResetApp => pc0 # "queue" /\ armed0' = armed0 /\ pc0' = "registers" /\ "reset" \in troubles'
  BY DEF ResetApp, At0, Occur
<1> QED
  BY <1>2, <1>3, <1>4, <1>5, <1>6, <1>7, Core0Moves DEF WhereInv

LEMMA Core1Where ==
  ASSUME TypeInv, WhereInv, Next
  PROVE  /\ IF pc1' \in {"invert", "low"}
            THEN new' \in HostSettings /\ new'.pin \notin DOMAIN task' /\ state' = "READY"
            ELSE new' = NoSettings
         /\ pc1' \in {"stop", "destroy", "input"} => state' = "RUNNING"
         /\ pc1' = "input" => todo' # {}
         /\ pc1' \in {"destroy", "input"} => DOMAIN task' \subseteq todo'
         /\ pc1' \in {"stop", "destroy", "input"} => todo' \subseteq DOMAIN task'
         /\ "failed" \notin troubles' => pc1' \notin {"destroy", "input"}
<1> DEFINE Goal ==
      /\ IF pc1' \in {"invert", "low"}
         THEN new' \in HostSettings /\ new'.pin \notin DOMAIN task' /\ state' = "READY"
         ELSE new' = NoSettings
      /\ pc1' \in {"stop", "destroy", "input"} => state' = "RUNNING"
      /\ pc1' = "input" => todo' # {}
      /\ pc1' \in {"destroy", "input"} => DOMAIN task' \subseteq todo'
      /\ pc1' \in {"stop", "destroy", "input"} => todo' \subseteq DOMAIN task'
      /\ "failed" \notin troubles' => pc1' \notin {"destroy", "input"}
<1>1. troubles \subseteq troubles'
  BY TroublesStay
<1>2. CASE UNCHANGED core1Vars
  BY <1>1, <1>2 DEF WhereInv, core1Vars
<1>3. CASE RewriteTask
  BY <1>3 DEF WhereInv, RewriteTask, At1
<1>4. CASE Construct
  BY <1>4, HeadType DEF WhereInv, Construct, At1
<1>5. CASE ConstructInvert \/ ConstructLow
  BY <1>5 DEF WhereInv, ConstructInvert, ConstructLow, At1
<1>6. CASE Stop \/ Fail
  BY <1>6 DEF WhereInv, Stop, Fail, At1, CancelAlarm, Occur
<1>7. CASE StopTask \/ Finish
  BY <1>7 DEF WhereInv, StopTask, Finish, At1
<1>8. CASE DestroyLow \/ DestroyDir
  BY <1>1, <1>8 DEF WhereInv, DestroyLow, DestroyDir, At1, Dropping
<1>9. CASE \E high \in SUBSET Pins : Start(high)
  BY <1>9 DEF WhereInv, Start, At1
<1> QED
  BY <1>2, <1>3, <1>4, <1>5, <1>6, <1>7, <1>8, <1>9, Core1Moves, Zenon

LEMMA ShapeStep ==
  ASSUME TypeInv, WhereInv, Next
  PROVE  \A a \in Actor : PutShape(a)'
<1> SUFFICES ASSUME NEW b \in Actor PROVE PutShape(b)'
  OBVIOUS
<1>0. PutShape(b)
  BY DEF WhereInv
<1>1. CASE b # "core1"
  <2>1. puts'[b] = puts[b] => PutShape(b)'
    BY <1>0, <1>1 DEF PutShape
  <2>2. ASSUME NEW reg, NEW mask, NEW value, NEW a \in Actor, Starts(a, reg, mask, value), a # b
        PROVE  puts'[b] = puts[b]
    BY <2>2, StartedPut
  <2>3. ASSUME NEW mask, NEW value, Starts(b, "out", mask, value)
        PROVE  PutShape(b)'
    BY <2>3, StartedPut DEF PutShape
  <2>4. ASSUME NEW value, Starts("core0", "oe", Pins, value), b = "core0"
        PROVE  PutShape(b)'
    BY <2>4, StartedPut DEF PutShape
  <2>5. UNCHANGED puts => puts'[b] = puts[b]
    OBVIOUS
  <2>6. CASE \E a \in Actor :
              /\ \/ ReadRegister(a) /\ puts'[a].reg = puts[a].reg
                      /\ puts'[a].mask = puts[a].mask /\ puts'[a].value = puts[a].value
                      /\ puts[a] # NoPut
                 \/ ToggleRegister(a) /\ puts'[a] = NoPut
              /\ UNCHANGED <<core0Vars, queueVars, core1Vars, asked>>
              /\ \A c \in Actor \ {a} : puts'[c] = puts[c]
    BY <1>0, <1>1, <2>1, <2>6 DEF PutShape
  <2>7. b \in {"core0", "alarm"} /\ \A a \in {"core0", "core1", "alarm"} : a \in Actor
    BY <1>1 DEF Actor
  <2>8. ASSUME NEW mask, NEW value, NEW a \in {"core0", "core1", "alarm"},
               Starts(a, "out", mask, value)
        PROVE  PutShape(b)'
    BY <2>1, <2>2, <2>3, <2>7, <2>8
  <2>9. ASSUME NEW value, Starts("core0", "oe", Pins, value) PROVE PutShape(b)'
    BY <2>1, <2>2, <2>4, <2>7, <2>9
  <2>10. ASSUME NEW mask, NEW value, Starts("core1", "oe", mask, value) PROVE PutShape(b)'
    BY <1>1, <2>1, <2>2, <2>7, <2>10
  <2> QED
    BY <2>1, <2>5, <2>6, <2>8, <2>9, <2>10, PutMoves, Zenon
<1>2. CASE b = "core1"
  <2>1. CASE puts'[b] = puts[b] /\ puts[b].reg # "oe"
    BY <1>0, <1>2, <2>1 DEF PutShape
  <2>2. puts[b].reg = "oe" => puts[b] # NoPut /\ pc1 \in {"low", "destroy"}
    BY <1>0, <1>2, NoPutType DEF PutShape
  <2>3. CASE puts[b].reg = "oe" /\ puts'[b] = puts[b]
    <3>1. pc1' = pc1 /\ new' = new
      BY <1>2, <2>2, <2>3, Core1Moves
         DEF core1Vars, RewriteTask, Construct, ConstructLow, DestroyDir, ConstructInvert, Stop,
             StopTask, Fail, DestroyLow, Finish, Start, At1
    <3> QED
      BY <1>0, <1>2, <2>3, <3>1, NoPutType DEF PutShape
  <2>4. CASE \E a \in Actor :
              /\ \/ ReadRegister(a) /\ puts'[a].reg = puts[a].reg
                      /\ puts'[a].mask = puts[a].mask /\ puts'[a].value = puts[a].value
                      /\ puts[a] # NoPut
                 \/ ToggleRegister(a) /\ puts'[a] = NoPut
              /\ UNCHANGED <<core0Vars, queueVars, core1Vars, asked>>
              /\ \A c \in Actor \ {a} : puts'[c] = puts[c]
    BY <1>0, <1>2, <2>1, <2>3, <2>4 DEF PutShape, core1Vars
  <2>5. ASSUME NEW mask, NEW value, Starts("core1", "out", mask, value) PROVE PutShape(b)'
    BY <1>2, <2>5, StartedPut DEF PutShape
  <2>6. CASE ConstructInvert /\ Starts("core1", "oe", {new.pin}, {new.pin})
    BY <1>2, <2>6, StartedPut DEF PutShape, ConstructInvert
  <2>7. CASE DestroyDir /\ Starts("core1", "oe", {First(todo)}, {})
    BY <1>2, <2>7, StartedPut DEF PutShape, DestroyDir
  <2>8. ASSUME NEW reg, NEW mask, NEW value, NEW a \in {"core0", "alarm"}, Starts(a, reg, mask, value)
        PROVE  puts'[b] = puts[b]
    BY <1>2, <2>8, StartedPut DEF Actor
  <2>9. UNCHANGED puts => puts'[b] = puts[b]
    OBVIOUS
  <2> QED
    BY <2>1, <2>3, <2>4, <2>5, <2>6, <2>7, <2>8, <2>9, PutMoves, Zenon
<1> QED
  BY <1>1, <1>2

LEMMA LowPutStep ==
  ASSUME TypeInv, WhereInv, Next
  PROVE  pc1' = "low" => puts'["core1"].reg # "out"
<1> SUFFICES ASSUME pc1' = "low" PROVE puts'["core1"].reg # "out"
  OBVIOUS
<1>1. CASE ConstructInvert
  BY <1>1, TaskStarts, StartedPut DEF Actor
<1>2. CASE ~ConstructInvert
  <2>1. pc1 = "low" /\ ~ConstructLow
    BY <1>2, Core1Moves
       DEF core1Vars, RewriteTask, Construct, ConstructLow, DestroyDir, Stop, StopTask, Fail,
           DestroyLow, Finish, Start, At1
  <2>2. puts["core1"].reg # "out"
    BY <2>1 DEF WhereInv
  <2>3. ~StopTask /\ ~DestroyLow /\ ~DestroyDir
        /\ \A high \in SUBSET Pins : ~Start(high)
    BY <2>1 DEF StopTask, DestroyLow, DestroyDir, Start, At1
  <2>4. "core1" \in Actor /\ NoPut.reg # "out"
    BY NoPutType DEF Actor
  <2>5. ASSUME NEW reg, NEW mask, NEW value, NEW a \in {"core0", "alarm"}, Starts(a, reg, mask, value)
        PROVE  puts'["core1"] = puts["core1"]
    BY <2>5, StartedPut DEF Actor
  <2>6. CASE \E a \in Actor :
              /\ \/ ReadRegister(a) /\ puts'[a].reg = puts[a].reg
                      /\ puts'[a].mask = puts[a].mask /\ puts'[a].value = puts[a].value
                      /\ puts[a] # NoPut
                 \/ ToggleRegister(a) /\ puts'[a] = NoPut
              /\ UNCHANGED <<core0Vars, queueVars, core1Vars, asked>>
              /\ \A b \in Actor \ {a} : puts'[b] = puts[b]
    BY <2>2, <2>4, <2>6
  <2> QED
    BY <1>2, <2>1, <2>2, <2>3, <2>5, <2>6, PutMoves, Zenon
<1> QED
  BY <1>1, <1>2

LEMMA WhereStep == TypeInv /\ WhereInv /\ [Next]_vars => WhereInv'
<1> SUFFICES ASSUME TypeInv, WhereInv, [Next]_vars PROVE WhereInv'
  OBVIOUS
<1>1. CASE UNCHANGED vars
  BY <1>1 DEF vars, core0Vars, core1Vars, historyVars, WhereInv, PutShape
<1>2. CASE Next
  BY <1>2, Core0Where, Core1Where, ShapeStep, LowPutStep, Zenon DEF WhereInv
<1> QED
  BY <1>1, <1>2
-----------------------------------------------------------------------------
(***************************************************************************)
(* Puts of directions.                                                     *)
(***************************************************************************)
LEMMA ChipMoves ==
  Next => \/ UNCHANGED <<out, oe, meant>>
          \/ \E a \in Actor : ToggleRegister(a)
          \/ Construct \/ ResetApp
BY Zenon DEF Next, chipVars, historyVars, ReadRegister, WritePortDir, SetIoPortDir, WritePortState, WritePortSet,
       WritePortClear, HostPut, WritePwmSettings, QueueSettings, WritePwmState, TakeAnswer,
       UpdateAppState, ResetRegisters, RewriteTask, ConstructInvert, ConstructLow, Start,
       AlarmFires, LatchedFires, Ignore, Stop, StopTask, Fail, DestroyLow, DestroyDir, Finish

\* A put of directions that nobody else's access came in between does what it says.
LEMMA ToggleEffect ==
  ASSUME TypeInv, NEW a \in Actor, ToggleRegister(a), Fresh(a)
  PROVE  puts[a].reg = "oe" =>
           /\ oe' = (oe \ puts[a].mask) \cup (puts[a].value \cap puts[a].mask)
           /\ UNCHANGED <<out, meant>>
BY DEF ToggleRegister, Fresh, Toggled, SymDiff

\* And so does a put of levels.
LEMMA LevelEffect ==
  ASSUME TypeInv, NEW a \in Actor, ToggleRegister(a), Stands(a)
  PROVE  /\ puts[a].reg = "out" =>
              /\ out' = (out \ puts[a].mask) \cup (puts[a].value \cap puts[a].mask)
              /\ meant' = (meant \ puts[a].mask) \cup (puts[a].value \cap puts[a].mask)
         /\ puts[a].reg # "out" => UNCHANGED <<out, meant>>
BY DEF ToggleRegister, Stands, Toggled, SymDiff

\* Fresh or not, it changes no other pin.
LEMMA ToggleElse ==
  ASSUME NEW a \in Actor, ToggleRegister(a), NEW p, p \notin puts[a].mask
  PROVE  (p \in out' <=> p \in out) /\ (p \in oe' <=> p \in oe)
BY DEF ToggleRegister, Toggled, SymDiff

LEMMA PutStep == TypeInv /\ WhereInv /\ PutInv /\ [Next]_vars => PutInv'
<1> SUFFICES ASSUME TypeInv, WhereInv, PutInv, [Next]_vars, "overlap" \notin troubles'
             PROVE  /\ \A a \in Actor : Fresh(a)'
                    /\ \A a, b \in Actor : a # b => Apart(a, b)'
  BY DEF PutInv, Without
<1>1. /\ \A a \in Actor : Fresh(a)
      /\ \A a, b \in Actor : a # b => Apart(a, b)
  BY TroublesStay DEF PutInv, Without
<1>2. puts \in [Actor -> Puts] /\ \A a \in Actor : puts[a] \in Puts
  BY DEF TypeInv, PutTypes
<1>3. CASE UNCHANGED <<oe, puts>>
  BY <1>1, <1>3 DEF Fresh, Apart
<1>4. ASSUME UNCHANGED oe,
             NEW a \in Actor, ~puts'[a].read, \A b \in Actor \ {a} : puts'[b] = puts[b]
      PROVE  /\ \A b \in Actor : Fresh(b)'
             /\ \A b, c \in Actor : b # c => Apart(b, c)'
  <2>1. \A b \in Actor : ~puts'[b].read \/ puts'[b] = puts[b]
    BY <1>4
  <2> QED
    BY <1>1, <1>4, <2>1 DEF Fresh, Apart
<1>5. ASSUME NEW a \in Actor, ReadRegister(a)
      PROVE  /\ \A b \in Actor : Fresh(b)'
             /\ \A b, c \in Actor : b # c => Apart(b, c)'
  <2> DEFINE S == IF puts[a].reg = "out" THEN out ELSE oe
  <2>1. /\ puts'[a].reg = puts[a].reg /\ puts'[a].mask = puts[a].mask /\ puts'[a].old = S
        /\ \A b \in Actor \ {a} : puts'[b] = puts[b]
    <3>1. out \in SUBSET Pins /\ oe \in SUBSET Pins
      BY DEF TypeInv, ChipTypes
    <3> QED
      BY <1>2, <1>5, <3>1, ReadPut DEF ReadRegister
  <2>2. UNCHANGED oe /\ ~puts[a].read
    BY <1>5 DEF ReadRegister, chipVars
  <2>3. puts[a].reg = "oe" => ~UnderWay(puts[a].mask)
    BY <1>5 DEF ReadRegister, Occur, If
  <2>4. \A b \in Actor \ {a} : puts[b].read /\ puts[b].reg = "oe" /\ puts[a].reg = "oe"
          => puts[b].mask \cap puts[a].mask = {}
    BY <2>3 DEF UnderWay
  <2>5. \A b \in Actor : Fresh(b)'
    BY <1>1, <2>1, <2>2 DEF Fresh
  <2>6. \A b, c \in Actor : b # c => Apart(b, c)'
    BY <1>1, <2>1, <2>4 DEF Apart
  <2> QED
    BY <2>5, <2>6
<1>6. ASSUME NEW a \in Actor, ToggleRegister(a)
      PROVE  /\ \A b \in Actor : Fresh(b)'
             /\ \A b, c \in Actor : b # c => Apart(b, c)'
  <2>1. puts'[a] = NoPut /\ puts[a].read /\ \A b \in Actor \ {a} : puts'[b] = puts[b]
    BY <1>2, <1>6 DEF ToggleRegister
  <2>2. ASSUME NEW b \in Actor \ {a}, puts[b].read, puts[b].reg = "oe" PROVE Fresh(b)'
    <3>1. puts'[b] = puts[b] /\ Fresh(b) /\ Apart(a, b)
      BY <1>1, <2>1, <2>2
    <3>2. CASE puts[a].reg = "oe"
      <4>1. \A p \in puts[b].mask : p \notin puts[a].mask
        BY <2>1, <2>2, <3>1, <3>2 DEF Apart
      <4>2. \A p \in puts[b].mask : p \in oe' <=> p \in oe
        BY <1>6, <4>1, ToggleElse
      <4> QED
        BY <2>2, <3>1, <4>2 DEF Fresh
    <3>3. CASE puts[a].reg # "oe"
      <4>1. puts[a].reg = "out"
        BY <1>2, <1>6, <3>3, NoPutType DEF WhereInv, PutShape, ToggleRegister, MayPut
      <4>2. oe' = oe
        BY <1>6, <4>1 DEF ToggleRegister
      <4> QED
        BY <2>2, <3>1, <4>2 DEF Fresh
    <3> QED
      BY <3>2, <3>3
  <2>3. \A b \in Actor : Fresh(b)'
    BY <2>1, <2>2, NoPutType DEF Fresh
  <2>4. \A b, c \in Actor : b # c => Apart(b, c)'
    BY <1>1, <2>1, NoPutType DEF Apart
  <2> QED
    BY <2>3, <2>4
<1>7. ASSUME NEW S \in SUBSET Pins, GpioInit(S), ~UnderWay(S),
             \A b \in Actor : ~puts'[b].read \/ puts'[b] = puts[b]
      PROVE  /\ \A b \in Actor : Fresh(b)'
             /\ \A b, c \in Actor : b # c => Apart(b, c)'
  <2>1. \A b \in Actor : puts[b].read /\ puts[b].reg = "oe" => puts[b].mask \cap S = {}
    BY <1>7 DEF UnderWay
  <2>2. \A b \in Actor : Fresh(b)'
    BY <1>1, <1>7, <2>1 DEF Fresh, GpioInit
  <2> QED
    BY <1>1, <1>7, <2>2 DEF Apart
<1>8. CASE Construct
  <2>1. {Head(settings).pin} \in SUBSET Pins /\ puts' = puts
    BY <1>8, HeadType, Pinned DEF Construct
  <2>2. GpioInit({Head(settings).pin}) /\ ~UnderWay({Head(settings).pin})
    BY <1>8 DEF Construct, Occur, InitTroubles, If
  <2> QED
    BY <1>7, <2>1, <2>2, Zenon
<1>9. CASE ResetApp
  <2>a. Starts("core0", "oe", Pins, {})
    BY <1>9 DEF ResetApp, Starts
  <2>1. GpioInit(Pins) /\ ~UnderWay(Pins)
    BY <1>9 DEF ResetApp, Occur, InitTroubles, If
  <2>2. \A b \in Actor : ~puts'[b].read \/ puts'[b] = puts[b]
    BY <2>a, StartedPut DEF Actor
  <2> QED
    BY <1>7, <2>1, <2>2
<1>10. ASSUME NEW a \in Actor, NEW reg, NEW mask, NEW value, Starts(a, reg, mask, value),
              UNCHANGED oe
       PROVE  /\ \A b \in Actor : Fresh(b)'
              /\ \A b, c \in Actor : b # c => Apart(b, c)'
  BY <1>4, <1>10, StartedPut
<1>11. CASE UNCHANGED vars
  BY <1>3, <1>11 DEF vars, chipVars
<1>12. CASE Next /\ UNCHANGED <<out, oe, meant>> /\ ~ResetApp
               /\ ~\E a \in Actor : ReadRegister(a) \/ ToggleRegister(a)
  <2>1. {"core0", "core1", "alarm"} = Actor
    BY DEF Actor
  <2>2. \/ UNCHANGED puts
        \/ \E a \in Actor : \E reg, mask, value : Starts(a, reg, mask, value)
    BY <1>12, <2>1, PutMoves
  <2> QED
    BY <1>3, <1>10, <1>12, <2>2
<1> QED
  BY <1>5, <1>6, <1>8, <1>9, <1>11, <1>12, ChipMoves, Zenon
-----------------------------------------------------------------------------
(***************************************************************************)
(* The settings that are on their way, and the pins they claim.            *)
(***************************************************************************)
\* The members of Promised and of Claimed, before and after a step.
Owes(s) ==
  \/ \E p \in DOMAIN task : s = [pin |-> p, invert |-> task[p]]
  \/ \E i \in DOMAIN settings : s = settings[i]
  \/ s # NoSettings /\ (s = new \/ s = armed0)
Claims(p) ==
  \/ p \in DOMAIN task
  \/ \E i \in DOMAIN settings : p = settings[i].pin
  \/ new # NoSettings /\ p = new.pin
  \/ armed0 # NoSettings /\ p = armed0.pin

LEMMA PromisedIs ==
  \A s : (s \in Promised <=> Owes(s)) /\ ((s \in Promised)' <=> Owes(s)')
BY DEF Promised, Owes

LEMMA ClaimedIs ==
  \A p : (p \in Claimed <=> Claims(p)) /\ ((p \in Claimed)' <=> Claims(p)')
<1>1. \A p : p \in Claimed <=> Claims(p)
  <2> SUFFICES ASSUME NEW p PROVE (\E s \in Promised : s.pin = p) <=> Claims(p)
    BY DEF Claimed
  <2>1. ASSUME NEW s \in Promised, s.pin = p PROVE Claims(p)
    BY <2>1 DEF Promised, Claims
  <2>2. ASSUME Claims(p) PROVE \E s \in Promised : s.pin = p
    <3>1. p \in DOMAIN task =>
            [pin |-> p, invert |-> task[p]] \in Promised /\ [pin |-> p, invert |-> task[p]].pin = p
      BY DEF Promised
    <3> QED
      BY <2>2, <3>1 DEF Promised, Claims
  <2> QED
    BY <2>1, <2>2
<1>2. \A p : (p \in Claimed)' <=> Claims(p)'
  <2> SUFFICES ASSUME NEW p PROVE (\E s \in Promised' : s.pin = p) <=> Claims(p)'
    BY DEF Claimed
  <2>1. ASSUME NEW s \in Promised', s.pin = p PROVE Claims(p)'
    BY <2>1 DEF Promised, Claims
  <2>2. ASSUME Claims(p)' PROVE \E s \in Promised' : s.pin = p
    <3>1. p \in DOMAIN task' =>
            [pin |-> p, invert |-> task'[p]] \in Promised' /\ [pin |-> p, invert |-> task'[p]].pin = p
      BY DEF Promised
    <3> QED
      BY <2>2, <3>1 DEF Promised, Claims
  <2> QED
    BY <2>1, <2>2
<1> QED
  BY <1>1, <1>2

LEMMA PromisedMoves ==
  ASSUME TypeInv, WhereInv, Next
  PROVE  \/ Promised' \subseteq Promised
         \/ \E s \in HostSettings : WritePwmSettings(s) /\ Promised' \subseteq Promised \cup {s}
<1>1. CASE UNCHANGED <<task, settings, new, armed0>>
  <2>1. \A s : Owes(s)' <=> Owes(s)
    BY <1>1 DEF Owes
  <2> QED
    BY <2>1, PromisedIs
<1>2. ASSUME NEW s \in HostSettings, WritePwmSettings(s)
      PROVE  Promised' \subseteq Promised \cup {s}
  <2>1. UNCHANGED <<task, settings, new>> /\ armed0' = s
    BY <1>2 DEF WritePwmSettings, queueVars, core1Vars
  <2>2. \A t : Owes(t)' => Owes(t) \/ t = s
    BY <2>1 DEF Owes
  <2> QED
    BY <2>2, PromisedIs
<1>3. CASE QueueSettings
  <2>1. /\ armed0 \in HostSettings /\ UNCHANGED <<task, new>> /\ armed0' = NoSettings
        /\ settings' = IF HasRoom THEN Append(settings, armed0) ELSE settings
    BY <1>3 DEF QueueSettings, At0, WhereInv, core1Vars
  <2>2. \A i \in DOMAIN settings' : (i \in DOMAIN settings /\ settings'[i] = settings[i])
                                      \/ settings'[i] = armed0
    BY <2>1, AppendProperties, LenProperties DEF TypeInv, QueueTypes
  <2>3. armed0 # NoSettings
    BY <2>1, Pinned
  <2>4. \A t : Owes(t)' => Owes(t)
    BY <2>1, <2>2, <2>3 DEF Owes
  <2> QED
    BY <2>4, PromisedIs
<1>4. CASE ResetApp
  <2>1. UNCHANGED <<task, new, armed0>> /\ settings' = <<>>
    BY <1>4 DEF ResetApp, core1Vars
  <2>2. \A t : Owes(t)' => Owes(t)
    BY <2>1 DEF Owes
  <2> QED
    BY <2>2, PromisedIs
<1>5. CASE RewriteTask \/ Construct
  <2>1. /\ settings # <<>> /\ settings' = Tail(settings) /\ armed0' = armed0
        /\ \/ /\ task' = [task EXCEPT ![Head(settings).pin] = Head(settings).invert]
              /\ Head(settings).pin \in DOMAIN task /\ new' = new
           \/ task' = task /\ new' = Head(settings)
    BY <1>5 DEF RewriteTask, Construct, core0Vars
  <2>2. /\ Head(settings) = [pin |-> Head(settings).pin, invert |-> Head(settings).invert]
        /\ Head(settings) # NoSettings
    BY <2>1, HeadType, Pinned
  <2>3. Owes(Head(settings))
    BY <2>1, HeadType DEF Owes
  <2>4. \A i \in DOMAIN settings' : \E j \in DOMAIN settings : settings'[i] = settings[j]
    BY <2>1, HeadType
  <2>5. \A p \in DOMAIN task' : [pin |-> p, invert |-> task'[p]] = Head(settings)
          \/ (p \in DOMAIN task /\ task'[p] = task[p])
    <3> DEFINE h == Head(settings)
    <3>1. h = [pin |-> h.pin, invert |-> h.invert]
      BY <2>2
    <3> HIDE DEF h
    <3>2. task \in [DOMAIN task -> BOOLEAN]
      BY DEF TypeInv, Core1Types, IsTasks
    <3>3. CASE task' = [task EXCEPT ![h.pin] = h.invert] /\ h.pin \in DOMAIN task
      <4>1. DOMAIN task' = DOMAIN task
        BY <3>2, <3>3
      <4>2. \A p \in DOMAIN task : IF p = h.pin THEN task'[p] = h.invert ELSE task'[p] = task[p]
        BY <3>2, <3>3
      <4>3. \A p \in DOMAIN task : p = h.pin => [pin |-> p, invert |-> task'[p]] = h
        BY <3>1, <4>2
      <4>4. \A p \in DOMAIN task : p # h.pin => task'[p] = task[p]
        BY <4>2
      <4>5. \A p \in DOMAIN task : [pin |-> p, invert |-> task'[p]] = h \/ task'[p] = task[p]
        BY <4>3, <4>4, Zenon
      <4> QED
        BY <4>1, <4>5, Zenon DEF h
    <3>4. CASE task' = task
      BY <3>4
    <3> QED
      BY <2>1, <3>3, <3>4 DEF h
  <2>6. \A t : Owes(t)' => Owes(t)
    BY <2>1, <2>3, <2>4, <2>5 DEF Owes
  <2> QED
    BY <2>6, PromisedIs
<1>6. CASE ConstructLow
  <2>1. /\ UNCHANGED <<settings, armed0>> /\ new' = NoSettings
        /\ task' = With(task, new.pin, new.invert)
        /\ new = [pin |-> new.pin, invert |-> new.invert] /\ new # NoSettings
    BY <1>6, Pinned DEF ConstructLow, At1, WhereInv, core0Vars, queueVars
  <2>2. \A p \in DOMAIN task' : (p \in DOMAIN task /\ task'[p] = task[p])
                                 \/ [pin |-> p, invert |-> task'[p]] = new
    BY <2>1 DEF With
  <2>3. \A t : Owes(t)' => Owes(t)
    BY <2>1, <2>2 DEF Owes
  <2> QED
    BY <2>3, PromisedIs
<1>7. CASE DestroyDir
  <2>1. UNCHANGED <<settings, new, armed0>> /\ task' = Dropping(task, First(todo))
    BY <1>7 DEF DestroyDir, core0Vars, queueVars
  <2>2. \A p \in DOMAIN task' : p \in DOMAIN task /\ task'[p] = task[p]
    BY <2>1 DEF Dropping
  <2>3. \A t : Owes(t)' => Owes(t)
    BY <2>1, <2>2 DEF Owes
  <2> QED
    BY <2>3, PromisedIs
<1>8. \/ UNCHANGED <<task, settings, new, armed0>>
      \/ \E s \in HostSettings : WritePwmSettings(s)
      \/ QueueSettings \/ ResetApp \/ RewriteTask \/ Construct \/ ConstructLow \/ DestroyDir
  BY Zenon DEF Next, ReadRegister, ToggleRegister, WritePortDir, WritePortState, WritePortSet,
         WritePortClear, HostPut, WritePwmState, TakeAnswer, UpdateAppState, ResetRegisters,
         ConstructInvert, Start, AlarmFires, LatchedFires, Ignore, Stop, StopTask, Fail, DestroyLow, Finish,
         core0Vars, queueVars, core1Vars
<1> QED
  BY <1>1, <1>2, <1>3, <1>4, <1>5, <1>6, <1>7, <1>8, Zenon

\* No pin loses its claim, except by these steps.
LEMMA ClaimedKept ==
  ASSUME TypeInv, WhereInv, Next, ~ResetApp, ~DestroyDir, QueueSettings => HasRoom
  PROVE  Claimed \subseteq Claimed'
<1>1. CASE UNCHANGED <<task, settings, new, armed0>>
  <2>1. \A p : Claims(p) => Claims(p)'
    BY <1>1 DEF Claims
  <2> QED
    BY <2>1, ClaimedIs
<1>2. ASSUME NEW s \in HostSettings, WritePwmSettings(s) PROVE Claimed \subseteq Claimed'
  <2>1. UNCHANGED <<task, settings, new>> /\ armed0 = NoSettings
    BY <1>2 DEF WritePwmSettings, At0, WhereInv, queueVars, core1Vars
  <2>2. \A p : Claims(p) => Claims(p)'
    BY <2>1 DEF Claims
  <2> QED
    BY <2>2, ClaimedIs
<1>3. CASE QueueSettings
  <2>1. /\ armed0 \in HostSettings /\ UNCHANGED <<task, new>>
        /\ settings' = Append(settings, armed0)
    BY <1>3 DEF QueueSettings, At0, WhereInv, core1Vars
  <2>2. /\ \A i \in DOMAIN settings : i \in DOMAIN settings' /\ settings'[i] = settings[i]
        /\ \E i \in DOMAIN settings' : settings'[i] = armed0
    BY <2>1, AppendProperties, LenProperties DEF TypeInv, QueueTypes
  <2>3. \A p : Claims(p) => Claims(p)'
    BY <2>1, <2>2 DEF Claims
  <2> QED
    BY <2>3, ClaimedIs
<1>4. CASE RewriteTask \/ Construct
  <2>1. /\ settings # <<>> /\ settings' = Tail(settings) /\ armed0' = armed0
        /\ DOMAIN task' = DOMAIN task
        /\ \/ Head(settings).pin \in DOMAIN task /\ new' = new
           \/ new = NoSettings /\ new' = Head(settings)
    BY <1>4 DEF RewriteTask, Construct, core0Vars, TypeInv, Core1Types, IsTasks, WhereInv, At1
  <2>2. Head(settings) # NoSettings /\ Head(settings) = settings[1]
    BY <2>1, HeadType, Pinned
  <2>3. \A i \in DOMAIN settings : i = 1 \/ \E j \in DOMAIN settings' : settings'[j] = settings[i]
    BY <2>1, HeadType
  <2>4. \A p : Claims(p) => Claims(p)'
    BY <2>1, <2>2, <2>3 DEF Claims
  <2> QED
    BY <2>4, ClaimedIs
<1>5. CASE ConstructLow
  <2>1. /\ UNCHANGED <<settings, armed0>> /\ DOMAIN task' = DOMAIN task \cup {new.pin}
    BY <1>5 DEF ConstructLow, With, core0Vars, queueVars
  <2>2. \A p : Claims(p) => Claims(p)'
    BY <2>1 DEF Claims
  <2> QED
    BY <2>2, ClaimedIs
<1>6. \/ UNCHANGED <<task, settings, new, armed0>>
      \/ \E s \in HostSettings : WritePwmSettings(s)
      \/ QueueSettings \/ ResetApp \/ RewriteTask \/ Construct \/ ConstructLow \/ DestroyDir
  BY Zenon DEF Next, ReadRegister, ToggleRegister, WritePortDir, WritePortState, WritePortSet,
         WritePortClear, HostPut, WritePwmState, TakeAnswer, UpdateAppState, ResetRegisters,
         ConstructInvert, Start, AlarmFires, LatchedFires, Ignore, Stop, StopTask, Fail, DestroyLow, Finish,
         core0Vars, queueVars, core1Vars
<1> QED
  BY <1>1, <1>2, <1>3, <1>4, <1>5, <1>6

\* A pin gains a claim only when the host asks for it.
LEMMA ClaimedGains ==
  ASSUME TypeInv, WhereInv, Next
  PROVE  \/ Claimed' \subseteq Claimed
         \/ \E s \in HostSettings :
              WritePwmSettings(s) /\ Claimed' \subseteq Claimed \cup {s.pin}
BY PromisedMoves DEF Claimed
-----------------------------------------------------------------------------
(***************************************************************************)
(* Directions.                                                             *)
(***************************************************************************)
LEMMA PendingMoves ==
  ASSUME TypeInv, WhereInv, Next
  PROVE  \/ Pending' = Pending
         \/ Construct /\ Pending = {} /\ Pending' = {Head(settings).pin}
         \/ /\ ToggleRegister("core1") /\ pc1 = "low" /\ UNCHANGED <<pc1, new>>
            /\ Pending = {new.pin} /\ Pending' = {} /\ puts["core1"].reg = "oe"
<1>1. CASE Construct
  BY <1>1 DEF Construct, At1, Pending
<1>2. CASE ConstructInvert
  <2>1. puts'["core1"] # NoPut
    BY <1>2, TaskStarts, StartedPut DEF Actor
  <2> QED
    BY <1>2, <2>1 DEF ConstructInvert, At1, Pending
<1>3. CASE ConstructLow
  BY <1>3 DEF ConstructLow, At1, Pending
<1>4. CASE RewriteTask \/ Stop \/ StopTask \/ Fail \/ DestroyLow \/ DestroyDir \/ Finish
             \/ \E high \in SUBSET Pins : Start(high)
  BY <1>4 DEF RewriteTask, Stop, StopTask, Fail, DestroyLow, DestroyDir, Finish, Start, At1, Pending
<1>5. CASE UNCHANGED core1Vars
  <2>1. UNCHANGED <<pc1, new>>
    BY <1>5 DEF core1Vars
  <2>2. CASE ToggleRegister("core1")
    <3>1. puts["core1"] # NoPut /\ puts'["core1"] = NoPut
      BY <2>2 DEF ToggleRegister, MayPut, TypeInv, PutTypes, Actor
    <3>2. pc1 = "low" => puts["core1"].reg = "oe"
      BY <3>1 DEF WhereInv, PutShape, Actor
    <3> QED
      BY <2>1, <2>2, <3>1, <3>2 DEF Pending
  <2>3. CASE ~ToggleRegister("core1")
    <3>1. ASSUME NEW a \in Actor, ReadRegister(a) \/ ToggleRegister(a),
                 \A b \in Actor \ {a} : puts'[b] = puts[b]
          PROVE  puts'["core1"] = NoPut <=> puts["core1"] = NoPut
      <4>1. CASE a = "core1"
        <5>1. puts["core1"] # NoPut
          BY <2>3, <3>1, <4>1 DEF ReadRegister, MayPut
        <5>2. puts'["core1"].read
          BY <2>3, <3>1, <4>1 DEF ReadRegister, TypeInv, PutTypes, Puts, Actor
        <5> QED
          BY <5>1, <5>2, NoPutType
      <4> QED
        BY <3>1, <4>1 DEF Actor
    <3>2. ASSUME NEW a \in {"core0", "alarm"}, NEW reg, NEW mask, NEW value,
                 Starts(a, reg, mask, value)
          PROVE  puts'["core1"] = puts["core1"]
      BY <3>2, StartedPut DEF Actor
    <3>3. pc1 = "low" =>
            ~StopTask /\ ~DestroyLow /\ ~DestroyDir /\ ~ConstructInvert
            /\ \A high \in SUBSET Pins : ~Start(high)
      BY DEF StopTask, DestroyLow, DestroyDir, ConstructInvert, Start, At1
    <3>4. ConstructLow => pc1' # pc1
      BY DEF ConstructLow, At1
    <3>5. pc1 = "low" => (puts'["core1"] = NoPut <=> puts["core1"] = NoPut)
      BY <2>1, <3>1, <3>2, <3>3, <3>4, PutMoves, Zenon
    <3> QED
      BY <2>1, <3>5 DEF Pending
  <2> QED
    BY <2>2, <2>3
<1> QED
  BY <1>1, <1>2, <1>3, <1>4, <1>5, Core1Moves, Zenon

LEMMA BufferMoves ==
  Next => \/ UNCHANGED <<buffers, portDir>>
          \/ \E S \in SUBSET Pins : WritePortDir(S)
          \/ \E s \in HostSettings : WritePwmSettings(s)
          \/ QueueSettings \/ ResetApp \/ ResetRegisters
BY Zenon DEF Next, ReadRegister, ToggleRegister, WritePortState, WritePortSet, WritePortClear,
       HostPut, WritePwmState, TakeAnswer, UpdateAppState, RewriteTask, Construct,
       ConstructInvert, ConstructLow, Start, AlarmFires, LatchedFires, Ignore, Stop, StopTask, Fail,
       DestroyLow, DestroyDir, Finish, chipVars, core0Vars

DirTroubles == {"overlap", "dir", "failed", "reset"}

LEMMA BuffersKept ==
  ASSUME TypeInv, WhereInv, Next, buffers = portDir, Claimed \subseteq portDir,
         troubles' \cap DirTroubles = {}
  PROVE  buffers' = portDir' /\ Claimed' \subseteq portDir'
<1>1. CASE \E S \in SUBSET Pins : WritePortDir(S)
  <2>1. PICK S \in SUBSET Pins : WritePortDir(S)
    BY <1>1
  <2>2. Claimed \subseteq S
    BY <2>1 DEF WritePortDir, Occur, If, DirTroubles
  <2>3. Claimed' = Claimed
    BY <2>1 DEF WritePortDir, queueVars, core1Vars, Claimed, Promised
  <2> QED
    BY <2>1, <2>2, <2>3 DEF WritePortDir, WrittenDir, SetIoPortDir
<1>2. ASSUME NEW s \in HostSettings, WritePwmSettings(s) PROVE portDir' = portDir \cup {s.pin}
  BY <1>2 DEF WritePwmSettings, ArmedDir
<1>3. (\E s \in HostSettings : WritePwmSettings(s)) => buffers' = portDir'
  BY DEF WritePwmSettings, SetIoPortDir
<1>4. CASE QueueSettings
  <2>1. armed0.pin \in Claimed
    <3>1. armed0 \in HostSettings
      BY <1>4 DEF QueueSettings, At0, WhereInv
    <3> QED
      BY <3>1, Pinned DEF Claimed, Promised
  <2>2. portDir' = portDir /\ pc0 = "queue"
    BY <1>4 DEF QueueSettings, At0
  <2>3. buffers' = buffers \cup {armed0.pin} \/ buffers' = buffers
    BY <1>4 DEF QueueSettings
  <2>4. Claimed' \subseteq Claimed
    BY <2>2, ClaimedGains DEF WritePwmSettings, At0
  <2> QED
    BY <2>1, <2>2, <2>3, <2>4
<1>5. ~ResetApp /\ ~ResetRegisters
  <2>1. "reset" \notin troubles'
    BY DEF DirTroubles
  <2>2. "reset" \notin troubles
    BY <2>1, TroublesStay
  <2> QED
    BY <2>1, <2>2 DEF ResetApp, ResetRegisters, Occur, At0, WhereInv
<1>6. portDir \subseteq portDir' \/ \E S \in SUBSET Pins : WritePortDir(S)
  BY <1>2, <1>4, <1>5, BufferMoves DEF QueueSettings
<1>7. Claimed' \subseteq portDir' \/ \E S \in SUBSET Pins : WritePortDir(S)
  BY <1>2, <1>6, ClaimedGains
<1> QED
  BY <1>1, <1>3, <1>4, <1>5, <1>7, BufferMoves

LEMMA DirStep == TypeInv /\ WhereInv /\ PutInv /\ DirInv /\ [Next]_vars => DirInv'
<1> SUFFICES ASSUME TypeInv, WhereInv, PutInv, DirInv, [Next]_vars, troubles' \cap DirTroubles = {}
             PROVE  /\ buffers' = portDir' /\ Claimed' \subseteq portDir'
                    /\ IF puts'["core0"].reg = "oe" THEN puts'["core0"].value = portDir'
                       ELSE oe' \ Pending' = portDir' \ Pending'
  BY DEF DirInv, Without, DirTroubles
<1>1. /\ buffers = portDir /\ Claimed \subseteq portDir
      /\ IF puts["core0"].reg = "oe" THEN puts["core0"].value = portDir
         ELSE oe \ Pending = portDir \ Pending
      /\ \A a \in Actor : Fresh(a)
  BY TroublesStay DEF DirInv, PutInv, Without, DirTroubles
<1>2. CASE UNCHANGED vars
  BY <1>1, <1>2 DEF vars, chipVars, core0Vars, queueVars, core1Vars, Claimed, Promised, Pending
<1>3. CASE Next
  <2>1. buffers' = portDir' /\ Claimed' \subseteq portDir'
    BY <1>1, <1>3, BuffersKept
  <2>2. "reset" \notin troubles' /\ "failed" \notin troubles'
    BY DEF DirTroubles
  <2>3. ~ResetApp /\ ~ResetRegisters /\ ~DestroyDir /\ ~DestroyLow /\ pc1 # "destroy"
    BY <1>3, <2>2, TroublesStay
       DEF ResetApp, ResetRegisters, DestroyDir, DestroyLow, Occur, At0, At1, WhereInv
  <2> DEFINE Goal ==
        IF puts'["core0"].reg = "oe" THEN puts'["core0"].value = portDir'
        ELSE oe' \ Pending' = portDir' \ Pending'
  <2>4. \A a \in Actor : puts[a] \in Puts
    BY DEF TypeInv, PutTypes
  <2>5. oe \subseteq Pins /\ portDir \subseteq Pins
    BY DEF TypeInv, ChipTypes, Core0Types
  <2>6. ASSUME NEW a \in Actor, ToggleRegister(a) PROVE Goal
    <3>1. /\ UNCHANGED <<portDir, pc1, new>> /\ puts'[a] = NoPut
          /\ \A b \in Actor \ {a} : puts'[b] = puts[b]
      BY <2>6 DEF ToggleRegister, core0Vars, core1Vars, TypeInv, PutTypes
    <3>2. puts[a].reg = "out" => oe' = oe
      BY <2>6 DEF ToggleRegister
    <3>3. puts[a].reg # "out" =>
            oe' = (oe \ puts[a].mask) \cup (puts[a].value \cap puts[a].mask)
      BY <1>1, <2>6, ToggleEffect, NoPutType DEF WhereInv, PutShape, ToggleRegister, MayPut
    <3>4. PutShape(a) /\ puts[a] # NoPut
      BY <2>6 DEF WhereInv, ToggleRegister, MayPut
    <3>5. CASE a = "core0"
      <4>1. Pending' = Pending
        BY <3>1, <3>5 DEF Pending, Actor
      <4>2. puts[a].reg # "out" => puts[a].reg = "oe" /\ puts[a].mask = Pins
        BY <3>4, <3>5 DEF PutShape
      <4>3. puts[a].reg # "out" => oe' = portDir
        BY <1>1, <2>5, <3>3, <3>5, <4>2
      <4> QED
        BY <1>1, <3>1, <3>2, <3>5, <4>1, <4>3, NoPutType
    <3>6. CASE a # "core0"
      <4>1. puts'["core0"] = puts["core0"]
        BY <3>1, <3>6 DEF Actor
      <4>2. CASE puts[a].reg = "out"
        <5>1. Pending' = Pending
          BY <2>6, <3>1, <4>1, <4>2 DEF Pending, Actor, WhereInv
        <5> QED
          BY <1>1, <3>1, <3>2, <4>1, <4>2, <5>1
      <4>3. CASE puts[a].reg # "out"
        <5>1. /\ a = "core1" /\ pc1 = "low"
              /\ puts[a].mask = {new.pin} /\ puts[a].value = {new.pin}
          BY <2>3, <3>4, <3>6, <4>3 DEF PutShape
        <5>2. oe' = oe \cup {new.pin}
          BY <3>3, <4>3, <5>1
        <5>3. Pending = {new.pin} /\ Pending' = {}
          BY <3>1, <3>4, <5>1 DEF Pending
        <5>4. new \in HostSettings
          BY <5>1 DEF WhereInv
        <5>5. new.pin \in portDir
          BY <1>1, <5>4, Pinned DEF Claimed, Promised
        <5> QED
          BY <1>1, <3>1, <4>1, <5>2, <5>3, <5>5
      <4> QED
        BY <4>2, <4>3
    <3> QED
      BY <3>5, <3>6
  <2>7. ASSUME ~\E a \in Actor : ToggleRegister(a) PROVE Goal
    <3>1. CASE Construct
      <4>1. /\ oe' = oe \ {Head(settings).pin} /\ Pending = {} /\ Pending' = {Head(settings).pin}
            /\ UNCHANGED <<portDir, puts>>
        BY <3>1 DEF Construct, GpioInit, core0Vars, At1, Pending
      <4> QED
        BY <1>1, <4>1
    <3>2. CASE ~Construct
      <4>1. oe' = oe /\ Pending' = Pending
        BY <1>3, <2>3, <2>7, <3>2, ChipMoves, PendingMoves DEF Actor
      <4>2. CASE portDir' = portDir /\ puts'["core0"].reg = puts["core0"].reg
                   /\ puts'["core0"].value = puts["core0"].value
        BY <1>1, <4>1, <4>2
      <4>3. ASSUME NEW S \in SUBSET Pins, WritePortDir(S) PROVE Goal
        BY <4>3, HostStarts, StartedPut DEF Actor, WritePortDir, WrittenDir
      <4>4. ASSUME NEW s \in HostSettings, WritePwmSettings(s) PROVE Goal
        BY <4>4, SettingsStart, StartedPut DEF Actor, WritePwmSettings, ArmedDir
      <4>5. ASSUME NEW mask, NEW value, Starts("core0", "out", mask, value), portDir' = portDir,
                   puts["core0"] = NoPut
            PROVE  Goal
        BY <1>1, <4>1, <4>5, StartedPut, NoPutType DEF Actor
      <4>6. ASSUME NEW a \in {"core1", "alarm"}, NEW reg, NEW mask, NEW value,
                   Starts(a, reg, mask, value), portDir' = portDir
            PROVE  Goal
        <5>1. puts'["core0"] = puts["core0"]
          BY <4>6, StartedPut DEF Actor
        <5> QED
          BY <4>2, <4>6, <5>1
      <4>7. ASSUME NEW S \in SUBSET Pins
            PROVE  WritePortState(S) \/ WritePortSet(S) \/ WritePortClear(S)
                     => portDir' = portDir /\ puts["core0"] = NoPut
        BY DEF WritePortState, WritePortSet, WritePortClear, HostPut, At0, core0Vars
      <4>8. ASSUME NEW a \in Actor, ReadRegister(a)
            PROVE  Goal
        <5>1. \A b \in Actor : puts'[b].reg = puts[b].reg /\ puts'[b].value = puts[b].value
          <6>1. out \in SUBSET Pins /\ oe \in SUBSET Pins /\ puts \in [Actor -> Puts]
            BY DEF TypeInv, ChipTypes, PutTypes
          <6> QED
            BY <4>8, <6>1, ReadPut DEF ReadRegister
        <5> QED
          BY <4>2, <4>8, <5>1 DEF ReadRegister, core0Vars, Actor
      <4>9. UNCHANGED puts => portDir' = portDir
        <5>1. ASSUME UNCHANGED puts, NEW S \in SUBSET Pins, WritePortDir(S) PROVE FALSE
          BY <5>1, HostStarts, StartedPut DEF Actor, WritePortDir, At0
        <5>2. ASSUME UNCHANGED puts, NEW s \in HostSettings, WritePwmSettings(s) PROVE FALSE
          BY <5>2, SettingsStart, StartedPut DEF Actor, WritePwmSettings, At0
        <5> QED
          BY <1>3, <2>3, <5>1, <5>2, BufferMoves DEF QueueSettings
      <4>10. /\ ConstructInvert \/ ConstructLow \/ StopTask => portDir' = portDir
             /\ \A high \in SUBSET Pins : Start(high) => portDir' = portDir
             /\ \A mask, high \in SUBSET Pins : (AlarmFires(mask, high) \/ LatchedFires(mask, high)) => portDir' = portDir
        BY DEF ConstructInvert, ConstructLow, StopTask, Start, AlarmFires, LatchedFires, core0Vars
      <4>11. CASE UNCHANGED puts
        BY <4>2, <4>9, <4>11
      <4> HIDE DEF Goal
      <4> QED
        BY <1>3, <2>3, <2>7, <4>3, <4>4, <4>5, <4>6, <4>7, <4>8, <4>10, <4>11, PutMoves, Zenon
    <3> QED
      BY <3>1, <3>2
  <2> QED
    BY <2>1, <2>6, <2>7
<1> QED
  BY <1>2, <1>3
-----------------------------------------------------------------------------
(***************************************************************************)
(* Outputs that were asked for.                                            *)
(***************************************************************************)
LEMMA AskedMoves ==
  Next => \/ UNCHANGED asked
          \/ \E S \in SUBSET Pins : WritePortDir(S)
          \/ ResetApp
BY Zenon DEF Next, ReadRegister, ToggleRegister, WritePortState, WritePortSet, WritePortClear,
       HostPut, WritePwmSettings, QueueSettings, WritePwmState, TakeAnswer, UpdateAppState,
       ResetRegisters, RewriteTask, Construct, ConstructInvert, ConstructLow, Start,
       AlarmFires, LatchedFires, Ignore, Stop, StopTask, Fail, DestroyLow, DestroyDir, Finish, historyVars

LEMMA SettingsMove ==
  ASSUME TypeInv, Next
  PROVE  \/ UNCHANGED settings
         \/ settings # <<>> /\ settings' = Tail(settings)
         \/ QueueSettings \/ ResetApp
BY Zenon DEF Next, ReadRegister, ToggleRegister, WritePortDir, WritePortState, WritePortSet,
       WritePortClear, HostPut, WritePwmSettings, WritePwmState, TakeAnswer, UpdateAppState,
       ResetRegisters, RewriteTask, Construct, ConstructInvert, ConstructLow, Start,
       AlarmFires, LatchedFires, Ignore, Stop, StopTask, Fail, DestroyLow, DestroyDir, Finish, queueVars

AskedTroubles == {"full", "failed"}

\* There is room for the settings that are about to be queued.
LEMMA RoomKept ==
  ASSUME TypeInv, WhereInv, Next, pc0 = "queue" => Len(settings) < SettingsCap,
         troubles' \cap AskedTroubles = {}
  PROVE  pc0' = "queue" => Len(settings') < SettingsCap
<1> SUFFICES ASSUME pc0' = "queue" PROVE Len(settings') < SettingsCap
  OBVIOUS
<1>0. SettingsCap \in Nat /\ Len(settings) \in Nat /\ Len(settings) <= SettingsCap
  BY CapAssumption, LenProperties DEF TypeInv, QueueTypes
<1>1. ASSUME NEW s \in HostSettings, WritePwmSettings(s) PROVE Len(settings') < SettingsCap
  <2>1. settings' = settings /\ Len(settings) # SettingsCap
    BY <1>1 DEF WritePwmSettings, queueVars, Occur, If, AskedTroubles
  <2> QED
    BY <1>0, <2>1
<1>2. CASE UNCHANGED core0Vars
  <2>1. pc0 = "queue" /\ ~QueueSettings /\ ~ResetApp
    BY <1>2 DEF core0Vars, QueueSettings, ResetApp
  <2>2. settings # <<>> => Len(Tail(settings)) = Len(settings) - 1
    BY HeadType
  <2> QED
    BY <1>0, <2>1, <2>2, SettingsMove
<1>3. UNCHANGED core0Vars \/ \E s \in HostSettings : WritePwmSettings(s)
  <2>1. ASSUME NEW S \in SUBSET Pins, WritePortDir(S) PROVE FALSE
    BY <2>1 DEF WritePortDir, At0
  <2>2. ~QueueSettings /\ ~WritePwmState /\ ~TakeAnswer /\ ~ResetApp /\ ~ResetRegisters
    BY DEF QueueSettings, WritePwmState, TakeAnswer, ResetApp, ResetRegisters
  <2>3. ~UpdateAppState
    BY DEF UpdateAppState, At0
  <2> QED
    BY <2>1, <2>2, <2>3, Core0Moves
<1> QED
  BY <1>1, <1>2, <1>3

\* What app_regs.port_dir holds was asked for.
LEMMA PortDirKept ==
  ASSUME TypeInv, WhereInv, Next, ResetApp \/ Claimed \subseteq Claimed',
         pc0 # "registers" => portDir \subseteq asked \cup Claimed
  PROVE  pc0' # "registers" => portDir' \subseteq asked' \cup Claimed'
<1> SUFFICES ASSUME pc0' # "registers" PROVE portDir' \subseteq asked' \cup Claimed'
  OBVIOUS
<1>1. ASSUME NEW S \in SUBSET Pins, WritePortDir(S) PROVE portDir' \subseteq asked' \cup Claimed'
  BY <1>1 DEF WritePortDir, WrittenDir
<1>2. ~ResetApp
  BY DEF ResetApp
<1>3. ASSUME NEW s \in HostSettings, WritePwmSettings(s)
      PROVE  portDir' \subseteq asked' \cup Claimed'
  <2>1. portDir' = portDir \cup {s.pin} /\ asked' = asked /\ pc0 = "idle" /\ armed0' = s
    BY <1>3 DEF WritePwmSettings, ArmedDir, At0
  <2>2. s.pin \in Claimed'
    BY <2>1, Pinned DEF Claimed, Promised
  <2> QED
    BY <1>2, <2>1, <2>2
<1>4. CASE ResetRegisters
  BY <1>4 DEF ResetRegisters
<1>5. CASE UNCHANGED <<portDir, asked, pc0>>
  BY <1>2, <1>5
<1>6. CASE QueueSettings \/ WritePwmState \/ TakeAnswer \/ UpdateAppState
  <2>1. UNCHANGED <<portDir, asked>> /\ pc0 # "registers"
    BY <1>6 DEF QueueSettings, WritePwmState, TakeAnswer, UpdateAppState, At0, historyVars
  <2> QED
    BY <1>2, <2>1
<1> QED
  BY <1>1, <1>2, <1>3, <1>4, <1>5, <1>6, AskedMoves, Core0Moves DEF core0Vars

LEMMA AskedStep == TypeInv /\ WhereInv /\ AskedInv /\ [Next]_vars => AskedInv'
<1> SUFFICES ASSUME TypeInv, WhereInv, AskedInv, [Next]_vars, troubles' \cap AskedTroubles = {}
             PROVE  /\ pc0' # "registers" => portDir' \subseteq asked' \cup Claimed'
                    /\ pc0' = "queue" => Len(settings') < SettingsCap
                    /\ IF puts'["core0"].reg = "oe"
                       THEN /\ puts'["core0"].value \subseteq asked' \cup Claimed'
                            /\ puts'["core0"].read =>
                                 \A p \in Pins \ Claimed' : p \in puts'["core0"].old <=> p \in oe'
                       ELSE oe' \subseteq asked' \cup Claimed'
  BY DEF AskedInv, Without, AskedTroubles
<1>1. /\ pc0 # "registers" => portDir \subseteq asked \cup Claimed
      /\ pc0 = "queue" => Len(settings) < SettingsCap
      /\ IF puts["core0"].reg = "oe"
         THEN /\ puts["core0"].value \subseteq asked \cup Claimed
              /\ puts["core0"].read =>
                   \A p \in Pins \ Claimed : p \in puts["core0"].old <=> p \in oe
         ELSE oe \subseteq asked \cup Claimed
  BY TroublesStay DEF AskedInv, Without, AskedTroubles
<1>2. CASE UNCHANGED vars
  BY <1>1, <1>2
     DEF vars, chipVars, core0Vars, queueVars, core1Vars, historyVars, Claimed, Promised
<1>3. CASE Next
  <2>1. ~DestroyDir /\ ~DestroyLow /\ pc1 # "destroy"
    <3>1. "failed" \notin troubles
      BY TroublesStay DEF AskedTroubles
    <3> QED
      BY <3>1 DEF DestroyDir, DestroyLow, At1, WhereInv
  <2>2. ResetApp \/ Claimed \subseteq Claimed'
    <3>1. QueueSettings => HasRoom
      BY <1>1 DEF QueueSettings, At0, HasRoom
    <3> QED
      BY <1>3, <2>1, <3>1, ClaimedKept
  <2>3. pc0' # "registers" => portDir' \subseteq asked' \cup Claimed'
    BY <1>1, <1>3, <2>2, PortDirKept
  <2>4. pc0' = "queue" => Len(settings') < SettingsCap
    BY <1>1, <1>3, RoomKept
  <2> DEFINE Goal ==
        IF puts'["core0"].reg = "oe"
        THEN /\ puts'["core0"].value \subseteq asked' \cup Claimed'
             /\ puts'["core0"].read =>
                  \A p \in Pins \ Claimed' : p \in puts'["core0"].old <=> p \in oe'
        ELSE oe' \subseteq asked' \cup Claimed'
  <2>5. oe \subseteq Pins /\ portDir \subseteq Pins /\ puts \in [Actor -> Puts] /\ out \in SUBSET Pins
    BY DEF TypeInv, ChipTypes, Core0Types, PutTypes
  <2>6. ASSUME puts'["core0"] = puts["core0"], ~ResetApp, asked' = asked,
               \A p \in Pins \ Claimed : p \in oe' <=> p \in oe, oe' \subseteq Pins
        PROVE  Goal
    BY <1>1, <2>2, <2>6
  <2>7. oe' \subseteq Pins
    BY <1>3, TypeChip DEF ChipTypes
  <2>8. ASSUME NEW a \in Actor, ReadRegister(a) PROVE Goal
    <3>1. UNCHANGED <<oe, asked>> /\ ~puts[a].read /\ Claimed' = Claimed
      BY <2>8 DEF ReadRegister, chipVars, core0Vars, queueVars, core1Vars, Claimed, Promised
    <3>2. /\ puts'[a].reg = puts[a].reg /\ puts'[a].value = puts[a].value
          /\ puts'[a].old = IF puts[a].reg = "out" THEN out ELSE oe
          /\ \A b \in Actor \ {a} : puts'[b] = puts[b]
      BY <2>5, <2>8, ReadPut DEF ReadRegister
    <3>3. CASE a = "core0"
      BY <1>1, <3>1, <3>2, <3>3
    <3>4. CASE a # "core0"
      BY <1>1, <3>1, <3>2, <3>4 DEF Actor
    <3> QED
      BY <3>3, <3>4
  <2>9. ASSUME NEW a \in Actor, ToggleRegister(a) PROVE Goal
    <3>1. /\ puts'[a] = NoPut /\ \A b \in Actor \ {a} : puts'[b] = puts[b]
          /\ asked' = asked /\ Claimed' = Claimed /\ puts[a].read
      BY <2>5, <2>9 DEF ToggleRegister, core0Vars, queueVars, core1Vars, Claimed, Promised
    <3>2. PutShape(a) /\ puts[a] # NoPut
      BY <2>9 DEF WhereInv, ToggleRegister, MayPut
    <3>3. CASE puts[a].reg = "out"
      <4>1. oe' = oe
        BY <2>9, <3>3 DEF ToggleRegister
      <4> QED
        BY <1>1, <3>1, <3>3, <4>1, NoPutType DEF Actor
    <3>4. CASE puts[a].reg # "out" /\ a = "core0"
      <4>1. puts[a].reg = "oe" /\ puts[a].mask = Pins
        BY <3>2, <3>4 DEF PutShape
      <4>2. oe' = Toggled(oe, puts[a])
        BY <2>9, <4>1 DEF ToggleRegister
      <4>3. \A p \in Pins \ Claimed : p \in puts[a].old <=> p \in oe
        BY <1>1, <3>1, <3>4, <4>1
      <4>4. \A p \in Pins \ Claimed : p \in oe' => p \in puts[a].value
        BY <4>1, <4>2, <4>3 DEF Toggled, SymDiff
      <4>5. puts[a].value \subseteq asked \cup Claimed
        BY <1>1, <3>4, <4>1
      <4>6. oe' \subseteq asked' \cup Claimed'
        BY <2>7, <3>1, <4>4, <4>5
      <4> QED
        BY <3>1, <3>4, <4>6, NoPutType
    <3>5. CASE puts[a].reg # "out" /\ a # "core0"
      <4>1. a = "core1" /\ pc1 = "low" /\ puts[a].mask = {new.pin}
        BY <2>1, <3>2, <3>5 DEF PutShape
      <4>2. new.pin \in Claimed
        BY <4>1, Pinned DEF WhereInv, Claimed, Promised
      <4>3. \A p \in Pins \ Claimed : p \in oe' <=> p \in oe
        BY <2>9, <4>1, <4>2, ToggleElse
      <4>4. puts'["core0"] = puts["core0"]
        BY <3>1, <3>5 DEF Actor
      <4>5. ~ResetApp
        BY <2>9 DEF ResetApp, ToggleRegister, core0Vars, At0
      <4> QED
        BY <2>6, <2>7, <3>1, <4>3, <4>4, <4>5
    <3> QED
      BY <3>3, <3>4, <3>5
  <2>10. CASE \E a \in Actor : ReadRegister(a) \/ ToggleRegister(a)
    BY <2>3, <2>4, <2>8, <2>9, <2>10
  <2>11. ASSUME ~\E a \in Actor : ReadRegister(a) \/ ToggleRegister(a) PROVE Goal
    <3>1. CASE Construct
      <4>1. oe' = oe \ {Head(settings).pin} /\ UNCHANGED <<puts, asked>> /\ settings # <<>>
        BY <3>1 DEF Construct, GpioInit
      <4>2. Head(settings).pin \in Claimed
        BY <4>1, HeadType DEF Claimed, Promised
      <4>3. ~ResetApp
        BY <3>1 DEF Construct, ResetApp, At1, core0Vars, At0
      <4> QED
        BY <2>6, <2>7, <4>1, <4>2, <4>3
    <3>2. CASE ResetApp
      <4>1. Starts("core0", "oe", Pins, {})
        BY <3>2 DEF ResetApp, Starts
      <4> QED
        BY <4>1, StartedPut DEF Actor
    <3>3. CASE ~Construct /\ ~ResetApp
      <4>1. oe' = oe
        BY <1>3, <2>11, <3>3, ChipMoves
      <4>2. ASSUME puts'["core0"] = puts["core0"], asked' = asked PROVE Goal
        BY <2>6, <2>7, <3>3, <4>1, <4>2
      <4>3. ASSUME NEW S \in SUBSET Pins, WritePortDir(S) PROVE Goal
        BY <4>3, HostStarts, StartedPut DEF Actor, WritePortDir
      <4>4. ASSUME NEW s \in HostSettings, WritePwmSettings(s) PROVE Goal
        <5>1. portDir' = portDir \cup {s.pin} /\ pc0' = "queue"
          BY <4>4 DEF WritePwmSettings, ArmedDir
        <5>2. portDir' \subseteq asked' \cup Claimed'
          BY <2>3, <5>1
        <5> QED
          BY <4>4, <5>1, <5>2, SettingsStart, StartedPut DEF Actor
      <4>5. ASSUME NEW mask, NEW value, Starts("core0", "out", mask, value), asked' = asked,
                   puts["core0"] = NoPut
            PROVE  Goal
        <5>1. oe \subseteq asked \cup Claimed
          BY <1>1, <4>5, NoPutType
        <5> QED
          BY <2>2, <3>3, <4>1, <4>5, <5>1, StartedPut DEF Actor
      <4>6. ASSUME NEW a \in {"core1", "alarm"}, NEW reg, NEW mask, NEW value,
                   Starts(a, reg, mask, value), asked' = asked
            PROVE  Goal
        <5>1. puts'["core0"] = puts["core0"]
          BY <4>6, StartedPut DEF Actor
        <5> QED
          BY <4>2, <4>6, <5>1
      <4>7. ASSUME NEW S \in SUBSET Pins
            PROVE  WritePortState(S) \/ WritePortSet(S) \/ WritePortClear(S)
                     => asked' = asked /\ puts["core0"] = NoPut
        BY DEF WritePortState, WritePortSet, WritePortClear, HostPut, At0
      <4>8. /\ ConstructInvert \/ ConstructLow \/ StopTask => asked' = asked
            /\ \A high \in SUBSET Pins : Start(high) => asked' = asked
            /\ \A mask, high \in SUBSET Pins :
                 AlarmFires(mask, high) \/ LatchedFires(mask, high) => asked' = asked
        BY DEF ConstructInvert, ConstructLow, StopTask, Start, AlarmFires, LatchedFires,
               historyVars
      <4>9. CASE UNCHANGED puts
        <5>1. ASSUME NEW S \in SUBSET Pins, WritePortDir(S) PROVE FALSE
          BY <4>9, <5>1, HostStarts, StartedPut DEF Actor, WritePortDir, At0
        <5>2. asked' = asked
          BY <1>3, <3>3, <5>1, AskedMoves
        <5> QED
          BY <4>2, <4>9, <5>2
      <4> HIDE DEF Goal
      <4> QED
        BY <1>3, <2>1, <2>11, <3>3, <4>3, <4>4, <4>5, <4>6, <4>7, <4>8, <4>9, PutMoves, Zenon
    <3> QED
      BY <3>1, <3>2, <3>3
  <2> QED
    BY <2>3, <2>4, <2>10, <2>11
<1> QED
  BY <1>2, <1>3
-----------------------------------------------------------------------------
(***************************************************************************)
(* Polarity.                                                               *)
(***************************************************************************)
PolarityTroubles == {"flip", "failed", "reset"}

LEMMA PromisedTypes == TypeInv => Promised \subseteq [pin : Pins, invert : BOOLEAN]
<1> SUFFICES ASSUME TypeInv, NEW s \in Promised PROVE s \in [pin : Pins, invert : BOOLEAN]
  OBVIOUS
<1>1. ASSUME NEW p \in DOMAIN task, s = [pin |-> p, invert |-> task[p]]
      PROVE  s \in [pin : Pins, invert : BOOLEAN]
  <2>1. p \in Pins /\ task[p] \in BOOLEAN
    BY <1>1 DEF TypeInv, Core1Types, IsTasks
  <2> QED
    BY <1>1, <2>1
<1>2. \A i \in DOMAIN settings : settings[i] \in HostSettings
  BY DEF TypeInv, QueueTypes
<1>3. {new, armed0} \subseteq HostSettings \cup {NoSettings}
  BY DEF TypeInv, Core0Types, Core1Types
<1> QED
  BY <1>1, <1>2, <1>3, SettingsAssumption DEF Promised

LEMMA AgreeKept ==
  ASSUME TypeInv, WhereInv, Next, Agree, troubles' \cap PolarityTroubles = {}
  PROVE  Agree'
<1>1. CASE Promised' \subseteq Promised
  BY <1>1 DEF Agree
<1>2. ASSUME NEW s \in HostSettings, WritePwmSettings(s), Promised' \subseteq Promised \cup {s}
      PROVE  Agree'
  <2>1. [s EXCEPT !.invert = ~@] \notin Promised
    BY <1>2 DEF WritePwmSettings, Occur, If, PolarityTroubles
  <2>2. s \in [pin : Pins, invert : BOOLEAN]
    BY SettingsAssumption
  <2>3. [s EXCEPT !.invert = ~@] = [pin |-> s.pin, invert |-> ~s.invert]
    BY <2>2
  <2>4. ASSUME NEW t \in Promised, t.pin = s.pin, t.invert # s.invert PROVE FALSE
    <3>1. t \in [pin : Pins, invert : BOOLEAN]
      BY PromisedTypes
    <3>2. t = [pin |-> t.pin, invert |-> t.invert] /\ t.invert \in BOOLEAN /\ s.invert \in BOOLEAN
      BY <2>2, <3>1
    <3>3. t.invert = ~s.invert
      BY <2>4, <3>2
    <3> QED
      BY <2>1, <2>3, <2>4, <3>2, <3>3
  <2> QED
    BY <1>2, <2>4 DEF Agree
<1> QED
  BY <1>1, <1>2, PromisedMoves

LEMMA PolarityMoves ==
  ASSUME WhereInv, Next
  PROVE  \/ /\ UNCHANGED <<inverted, task>>
            /\ pc1' = "low" <=> pc1 = "low"
            /\ pc1 = "low" => new' = new
         \/ RewriteTask \/ Construct \/ ConstructInvert \/ ConstructLow \/ DestroyDir \/ ResetApp
<1>1. UNCHANGED inverted \/ Construct \/ ConstructInvert \/ ResetApp
  BY Zenon DEF Next, ReadRegister, ToggleRegister, WritePortDir, SetIoPortDir, WritePortState,
         WritePortSet, WritePortClear, HostPut, WritePwmSettings, QueueSettings, WritePwmState,
         TakeAnswer, UpdateAppState, ResetRegisters, RewriteTask, ConstructLow, Start,
         AlarmFires, LatchedFires, Ignore, Stop, StopTask, Fail, DestroyLow, DestroyDir, Finish, chipVars
<1>2. CASE UNCHANGED core1Vars
  BY <1>1, <1>2 DEF core1Vars
<1>3. CASE Stop \/ StopTask \/ Fail \/ DestroyLow \/ Finish \/ \E high \in SUBSET Pins : Start(high)
  <2>1. UNCHANGED task /\ pc1 # "low" /\ pc1' # "low"
    BY <1>3 DEF Stop, StopTask, Fail, DestroyLow, Finish, Start, At1
  <2> QED
    BY <1>1, <2>1
<1> QED
  BY <1>2, <1>3, Core1Moves, Zenon

LEMMA PolarityStep == TypeInv /\ WhereInv /\ PolarityInv /\ [Next]_vars => PolarityInv'
<1> DEFINE On == {p \in DOMAIN task : task[p]}
           Coming == IF pc1 = "low" /\ new.invert THEN {new.pin} ELSE {}
<1> SUFFICES ASSUME TypeInv, WhereInv, PolarityInv, [Next]_vars,
                    troubles' \cap PolarityTroubles = {}
             PROVE  Agree' /\ inverted' = On' \cup Coming'
  BY DEF PolarityInv, Without, PolarityTroubles
<1>1. Agree /\ inverted = On \cup Coming
  BY TroublesStay DEF PolarityInv, Without, PolarityTroubles
<1>2. CASE UNCHANGED vars
  BY <1>1, <1>2 DEF vars, chipVars, core0Vars, queueVars, core1Vars, Agree, Promised
<1>3. CASE Next
  <2>1. Agree'
    BY <1>1, <1>3, AgreeKept
  <2>2. ~DestroyDir /\ ~ResetApp
    <3>1. "failed" \notin troubles /\ "reset" \notin troubles'
      BY TroublesStay DEF PolarityTroubles
    <3> QED
      BY <3>1 DEF DestroyDir, ResetApp, Occur, At1, WhereInv
  <2>3. task \in [DOMAIN task -> BOOLEAN]
    BY DEF TypeInv, Core1Types, IsTasks
  <2>4. CASE /\ UNCHANGED <<inverted, task>>
             /\ pc1' = "low" <=> pc1 = "low"
             /\ pc1 = "low" => new' = new
    <3>1. On' = On /\ Coming' = Coming
      BY <2>4
    <3> QED
      BY <1>1, <2>1, <2>4, <3>1
  <2>5. CASE RewriteTask
    <3>1. /\ settings # <<>> /\ Head(settings).pin \in DOMAIN task /\ UNCHANGED <<inverted, pc1>>
          /\ task' = [task EXCEPT ![Head(settings).pin] = Head(settings).invert]
          /\ pc1 # "low"
      BY <2>5 DEF RewriteTask, At1, chipVars
    <3>2. Head(settings) \in Promised
      BY <3>1, HeadType DEF Promised
    <3>3. \A p \in DOMAIN task : [pin |-> p, invert |-> task[p]] \in Promised
      BY DEF Promised
    <3>4. task[Head(settings).pin] = Head(settings).invert
      BY <1>1, <3>1, <3>2, <3>3 DEF Agree
    <3>5. task' = task
      BY <2>3, <3>1, <3>4
    <3> QED
      BY <1>1, <2>1, <3>1, <3>5
  <2>6. CASE Construct
    <3>1. /\ Head(settings).pin \notin DOMAIN task /\ inverted' = inverted \ {Head(settings).pin}
          /\ task' = task /\ pc1 # "low" /\ pc1' # "low"
      BY <2>6 DEF Construct, GpioInit, At1
    <3> QED
      BY <1>1, <2>1, <3>1
  <2>7. CASE ConstructInvert
    <3>1. /\ inverted' = IF new.invert THEN inverted \cup {new.pin} ELSE inverted
          /\ UNCHANGED <<task, new>> /\ pc1 # "low" /\ pc1' = "low"
      BY <2>7 DEF ConstructInvert, Polarity, At1
    <3> QED
      BY <1>1, <2>1, <3>1
  <2>8. CASE ConstructLow
    <3>1. /\ task' = With(task, new.pin, new.invert) /\ inverted' = inverted
          /\ pc1 = "low" /\ pc1' # "low" /\ new.pin \notin DOMAIN task
      BY <2>8 DEF ConstructLow, At1, chipVars, WhereInv
    <3>2. /\ DOMAIN task' = DOMAIN task \cup {new.pin}
          /\ task'[new.pin] = new.invert
          /\ \A p \in DOMAIN task : task'[p] = task[p]
      BY <3>1 DEF With
    <3>3. On' = On \cup (IF new.invert THEN {new.pin} ELSE {})
      BY <3>1, <3>2
    <3> QED
      BY <1>1, <2>1, <3>1, <3>3
  <2> QED
    BY <1>3, <2>2, <2>4, <2>5, <2>6, <2>7, <2>8, PolarityMoves
<1> QED
  BY <1>2, <1>3
-----------------------------------------------------------------------------
(***************************************************************************)
(* Levels between schedules.                                               *)
(***************************************************************************)
\* The puts of each actor after a step.
SamePut(a) ==
  puts'[a].reg = puts[a].reg /\ puts'[a].mask = puts[a].mask /\ puts'[a].value = puts[a].value

LEMMA PutsOf ==
  ASSUME TypeInv, WhereInv, Next
  PROVE  /\ \/ SamePut("core0") \/ puts'["core0"].reg # "out"
            \/ \E mask, value : HostPut(mask, value) /\ puts'["core0"].mask = mask
         /\ \/ SamePut("core1")
            \/ ToggleRegister("core1") /\ puts'["core1"] = NoPut
            \/ ConstructInvert \/ DestroyDir \/ \E high \in SUBSET Pins : Start(high)
            \/ /\ ConstructLow \/ StopTask \/ DestroyLow
               /\ puts'["core1"].reg = "out" /\ puts'["core1"].value = {}
               /\ StopTask => puts'["core1"].mask = {First(todo)}
         /\ puts'["alarm"] # NoPut =>
              \/ SamePut("alarm") /\ puts["alarm"] # NoPut
              \/ \E mask, high \in SUBSET Pins :
                   /\ AlarmFires(mask, high) \/ LatchedFires(mask, high)
                   /\ puts'["alarm"].mask = mask
<1> DEFINE Goal ==
         /\ \/ SamePut("core0") \/ puts'["core0"].reg # "out"
            \/ \E mask, value : HostPut(mask, value) /\ puts'["core0"].mask = mask
         /\ \/ SamePut("core1")
            \/ ToggleRegister("core1") /\ puts'["core1"] = NoPut
            \/ ConstructInvert \/ DestroyDir \/ \E high \in SUBSET Pins : Start(high)
            \/ /\ ConstructLow \/ StopTask \/ DestroyLow
               /\ puts'["core1"].reg = "out" /\ puts'["core1"].value = {}
               /\ StopTask => puts'["core1"].mask = {First(todo)}
         /\ puts'["alarm"] # NoPut =>
              \/ SamePut("alarm") /\ puts["alarm"] # NoPut
              \/ \E mask, high \in SUBSET Pins :
                   /\ AlarmFires(mask, high) \/ LatchedFires(mask, high)
                   /\ puts'["alarm"].mask = mask
<1>0. /\ "core0" \in Actor /\ "core1" \in Actor /\ "alarm" \in Actor
      /\ "core0" # "core1" /\ "core0" # "alarm" /\ "core1" # "alarm"
      /\ NoPut.reg # "out"
  BY NoPutType DEF Actor
<1>1. UNCHANGED puts => Goal
  BY DEF SamePut
<1>2. ASSUME NEW a \in Actor,
             \/ ReadRegister(a) /\ puts'[a].reg = puts[a].reg
                  /\ puts'[a].mask = puts[a].mask /\ puts'[a].value = puts[a].value
                  /\ puts[a] # NoPut
             \/ ToggleRegister(a) /\ puts'[a] = NoPut,
             \A b \in Actor \ {a} : puts'[b] = puts[b]
      PROVE  Goal
  <2>1. \A b \in Actor : SamePut(b) \/ (b = a /\ ToggleRegister(b) /\ puts'[b] = NoPut)
    BY <1>2 DEF SamePut
  <2>2. puts'["alarm"] # NoPut => SamePut("alarm") /\ puts["alarm"] # NoPut
    BY <1>0, <1>2, <2>1
  <2> QED
    BY <1>0, <2>1, <2>2
<1>3. ASSUME NEW a \in Actor, NEW reg, NEW mask, NEW value, Starts(a, reg, mask, value)
      PROVE  /\ \A b \in Actor : b # a => SamePut(b) /\ puts'[b] = puts[b]
             /\ puts'[a].reg = reg /\ puts'[a].mask = mask /\ puts'[a].value = value
  BY <1>3, StartedPut DEF SamePut
<1>4. ASSUME NEW S \in SUBSET Pins,
             \/ WritePortDir(S) /\ Starts("core0", "oe", Pins, S)
             \/ WritePortState(S) /\ Starts("core0", "out", portDir, S)
             \/ WritePortSet(S) /\ Starts("core0", "out", S, S)
             \/ WritePortClear(S) /\ Starts("core0", "out", S, {})
      PROVE  Goal
  BY <1>0, <1>3, <1>4 DEF WritePortState, WritePortSet, WritePortClear
<1>5. ASSUME NEW mask, NEW value, Starts("core0", "oe", mask, value) PROVE Goal
  BY <1>0, <1>3, <1>5
<1>6. ASSUME NEW reg, NEW mask, NEW value, Starts("core1", reg, mask, value),
             ConstructInvert \/ DestroyDir \/ \E high \in SUBSET Pins : Start(high)
      PROVE  Goal
  BY <1>0, <1>3, <1>6
<1>7. ASSUME ConstructLow /\ Starts("core1", "out", {new.pin}, {}) PROVE Goal
  <2>1. ~StopTask
    BY <1>7 DEF ConstructLow, StopTask, At1
  <2> QED
    BY <1>0, <1>3, <1>7, <2>1
<1>8. ASSUME StopTask /\ Starts("core1", "out", {First(todo)}, {}) PROVE Goal
  BY <1>0, <1>3, <1>8
<1>9. ASSUME DestroyLow /\ Starts("core1", "out", {First(todo)}, {}) PROVE Goal
  <2>1. ~StopTask
    BY <1>9 DEF DestroyLow, StopTask, At1
  <2> QED
    BY <1>0, <1>3, <1>9, <2>1
<1>10. ASSUME NEW mask \in SUBSET Pins, NEW high \in SUBSET Pins, (AlarmFires(mask, high) \/ LatchedFires(mask, high)),
              Starts("alarm", "out", mask, high)
       PROVE  Goal
  BY <1>0, <1>3, <1>10
<1> SUFFICES Goal
  OBVIOUS
<1> HIDE DEF Goal
<1>a. CASE \E a \in Actor :
             /\ \/ ReadRegister(a) /\ puts'[a].reg = puts[a].reg
                     /\ puts'[a].mask = puts[a].mask /\ puts'[a].value = puts[a].value
                     /\ puts[a] # NoPut
                \/ ToggleRegister(a) /\ puts'[a] = NoPut
             /\ UNCHANGED <<core0Vars, queueVars, core1Vars, asked>>
             /\ \A b \in Actor \ {a} : puts'[b] = puts[b]
  BY <1>2, <1>a
<1>b. CASE \E S \in SUBSET Pins :
             \/ WritePortDir(S) /\ Starts("core0", "oe", Pins, S)
             \/ WritePortState(S) /\ Starts("core0", "out", portDir, S)
             \/ WritePortSet(S) /\ Starts("core0", "out", S, S)
             \/ WritePortClear(S) /\ Starts("core0", "out", S, {})
  BY <1>4, <1>b
<1>c. CASE \E mask, high \in SUBSET Pins :
             (AlarmFires(mask, high) \/ LatchedFires(mask, high)) /\ Starts("alarm", "out", mask, high)
  BY <1>10, <1>c
<1>d. CASE \E high \in SUBSET Pins : Start(high) /\ Starts("core1", "out", DOMAIN task, high)
  BY <1>6, <1>d
<1> QED
  BY <1>1, <1>a, <1>b, <1>c, <1>d, <1>5, <1>6, <1>7, <1>8, <1>9, PutMoves, Zenon


LEMMA Core1Waits == Next /\ puts["core1"] # NoPut => UNCHANGED core1Vars
BY Core1Moves
   DEF RewriteTask, Construct, ConstructLow, DestroyDir, ConstructInvert, Stop, StopTask, Fail,
       DestroyLow, Finish, Start, At1

\* No alarm is cancelled too late, so that none comes later.
LEMMA NoneLate ==
  ASSUME Next, late = {}, troubles' \cap LevelTroubles = {}
  PROVE  /\ late' = {} /\ \A mask, high : ~LatchedFires(mask, high)
         /\ Stop \/ Fail => puts["alarm"] = NoPut
<1>1. \A mask, high : ~LatchedFires(mask, high)
  BY DEF LatchedFires
<1>2. CASE Stop \/ Fail
  <2>1. PICK some : CancelAlarm(some)
    BY <1>2 DEF Stop, Fail
  <2>2. puts["alarm"] = NoPut
    BY <2>1 DEF CancelAlarm, Occur, LevelTroubles
  <2>3. late' = {}
    BY <2>1, <2>2 DEF CancelAlarm, Occur, If, LevelTroubles
  <2> QED
    BY <1>1, <2>2, <2>3
<1>3. CASE Finish
  <2>1. late' = {}
    BY <1>3 DEF Finish
  <2>2. ~Stop /\ ~Fail
    BY <1>3 DEF Finish, At1, Stop, Fail
  <2> QED
    BY <1>1, <2>1, <2>2
<1>4. CASE ~Stop /\ ~Fail /\ ~Finish
  <2>1. late' = late
    BY <1>1, <1>4, Zenon
       DEF Next, ReadRegister, ToggleRegister, WritePortDir, WritePortState, WritePortSet,
           WritePortClear, HostPut, WritePwmSettings, QueueSettings, WritePwmState, TakeAnswer,
           UpdateAppState, ResetApp, ResetRegisters, RewriteTask, Construct, ConstructInvert,
           ConstructLow, Start, AlarmFires, Ignore, StopTask, DestroyLow, DestroyDir, chipVars
  <2> QED
    BY <1>1, <1>4, <2>1
<1> QED
  BY <1>2, <1>3, <1>4

\* The host keeps off the pins of tasks.
LEMMA HostApart ==
  ASSUME TypeInv, WhereInv, Next, troubles' \cap LevelTroubles = {},
         puts["core0"].reg = "out" => puts["core0"].mask \cap Claimed = {}
  PROVE  puts'["core0"].reg = "out" => puts'["core0"].mask \cap Claimed' = {}
<1> SUFFICES ASSUME puts'["core0"].reg = "out" PROVE puts'["core0"].mask \cap Claimed' = {}
  OBVIOUS
<1>1. CASE \E mask, value : HostPut(mask, value) /\ puts'["core0"].mask = mask
  <2>1. PICK mask, value : HostPut(mask, value) /\ puts'["core0"].mask = mask
    BY <1>1
  <2>2. mask \cap Claimed = {}
    BY <2>1 DEF HostPut, Occur, If, LevelTroubles
  <2>3. Claimed' = Claimed
    BY <2>1 DEF HostPut, core0Vars, queueVars, core1Vars, Claimed, Promised
  <2> QED
    BY <2>1, <2>2, <2>3
<1>2. CASE SamePut("core0")
  <2>1. ASSUME NEW s \in HostSettings, WritePwmSettings(s) PROVE FALSE
    <3>1. Starts("core0", "oe", Pins, portDir \cup {s.pin}) /\ "core0" \in Actor
      BY <2>1, SettingsStart DEF Actor
    <3>2. puts'["core0"].reg = "oe"
      BY <3>1, StartedPut
    <3> QED
      BY <3>2
  <2> QED
    BY <1>2, <2>1, ClaimedGains DEF SamePut
<1> QED
  BY <1>1, <1>2, PutsOf

\* core1 puts the levels of its tasks only.
LEMMA Core1Apart ==
  ASSUME TypeInv, WhereInv, Next,
         puts["core1"].reg = "out" => puts["core1"].mask \subseteq DOMAIN task
  PROVE  puts'["core1"].reg = "out" => puts'["core1"].mask \subseteq DOMAIN task'
<1> SUFFICES ASSUME puts'["core1"].reg = "out" PROVE puts'["core1"].mask \subseteq DOMAIN task'
  OBVIOUS
<1>0. "core1" \in Actor /\ NoPut.reg # "out"
  BY NoPutType DEF Actor
<1>1. CASE SamePut("core1")
  BY <1>0, <1>1, Core1Waits DEF SamePut, core1Vars
<1>2. ~ConstructInvert /\ ~DestroyDir
  BY <1>0, TaskStarts, StartedPut
<1>3. CASE \E high \in SUBSET Pins : Start(high)
  <2>1. puts'["core1"].mask = DOMAIN task /\ task' = task
    BY <1>0, <1>3, TaskStarts, StartedPut DEF Start
  <2> QED
    BY <2>1
<1>4. CASE ConstructLow
  <2>1. puts'["core1"].mask = {new.pin} /\ DOMAIN task' = DOMAIN task \cup {new.pin}
    BY <1>0, <1>4, TaskStarts, StartedPut DEF ConstructLow, With
  <2> QED
    BY <2>1
<1>5. CASE StopTask \/ DestroyLow
  <2>1. /\ puts'["core1"].mask = {First(todo)} /\ task' = task /\ todo # {}
        /\ pc1 \in {"stop", "destroy"}
    BY <1>0, <1>5, TaskStarts, StartedPut DEF StopTask, DestroyLow, At1
  <2>2. First(todo) \in todo /\ todo \subseteq DOMAIN task
    BY <2>1, FirstOf DEF TypeInv, Core1Types, WhereInv
  <2> QED
    BY <2>1, <2>2
<1> QED
  BY <1>0, <1>1, <1>2, <1>3, <1>4, <1>5, PutsOf

\* The handler runs when a schedule does and core1 has nothing to put.
LEMMA AlarmApart ==
  ASSUME TypeInv, WhereInv, Next, troubles' \cap LevelTroubles = {}, late = {},
         puts["alarm"] # NoPut =>
           /\ state = "RUNNING" /\ pc1 = "loop" /\ puts["core1"] = NoPut
           /\ puts["alarm"].mask \subseteq DOMAIN task
  PROVE  puts'["alarm"] # NoPut =>
           /\ state' = "RUNNING" /\ pc1' = "loop" /\ puts'["core1"] = NoPut
           /\ puts'["alarm"].mask \subseteq DOMAIN task'
<1> SUFFICES ASSUME puts'["alarm"] # NoPut
             PROVE  /\ state' = "RUNNING" /\ pc1' = "loop" /\ puts'["core1"] = NoPut
                    /\ puts'["alarm"].mask \subseteq DOMAIN task'
  OBVIOUS
<1>0. "core1" \in Actor /\ "alarm" \in Actor
  BY DEF Actor
<1>1. ASSUME NEW mask, NEW high, AlarmFires(mask, high), puts'["alarm"].mask = mask
      PROVE  /\ state' = "RUNNING" /\ pc1' = "loop" /\ puts'["core1"] = NoPut
             /\ puts'["alarm"].mask \subseteq DOMAIN task'
  BY <1>0, <1>1 DEF AlarmFires, Put, core1Vars, TypeInv, PutTypes
<1>2. CASE SamePut("alarm") /\ puts["alarm"] # NoPut
  <2>1. /\ state = "RUNNING" /\ pc1 = "loop" /\ puts["core1"] = NoPut
        /\ puts'["alarm"].mask \subseteq DOMAIN task
    BY <1>2 DEF SamePut
  <2>2. ~Stop /\ ~Fail
    BY <1>2, NoneLate
  <2>3. /\ UNCHANGED core1Vars
        /\ ~ConstructInvert /\ ~DestroyDir /\ ~ConstructLow /\ ~StopTask /\ ~DestroyLow
        /\ \A high \in SUBSET Pins : ~Start(high)
    BY <2>1, <2>2, Core1Moves
       DEF RewriteTask, Construct, ConstructLow, DestroyDir, ConstructInvert, StopTask,
           DestroyLow, Finish, Start, At1
  <2>4. puts'["core1"] = puts["core1"]
    <3>1. ASSUME NEW a \in {"core0", "alarm"}, NEW reg, NEW mask, NEW value,
                 Starts(a, reg, mask, value)
          PROVE  puts'["core1"] = puts["core1"]
      BY <3>1, StartedPut DEF Actor
    <3>2. ASSUME NEW a \in Actor, ReadRegister(a) \/ ToggleRegister(a),
                 \A b \in Actor \ {a} : puts'[b] = puts[b]
          PROVE  puts'["core1"] = puts["core1"]
      BY <1>0, <2>1, <3>2 DEF ReadRegister, ToggleRegister, MayPut
    <3> QED
      BY <2>3, <3>1, <3>2, PutMoves, Zenon
  <2> QED
    BY <2>1, <2>3, <2>4 DEF core1Vars
<1> QED
  BY <1>1, <1>2, NoneLate, PutsOf

\* No two puts of levels concern the same pin.
LEMMA LevelsApart ==
  ASSUME TypeInv, WhereInv,
         puts["core0"].reg = "out" => puts["core0"].mask \cap Claimed = {},
         puts["core1"].reg = "out" => puts["core1"].mask \subseteq DOMAIN task,
         puts["alarm"] # NoPut =>
           puts["core1"] = NoPut /\ puts["alarm"].mask \subseteq DOMAIN task,
         NEW a \in Actor, NEW b \in Actor, a # b, puts[a].reg = "out", puts[b].reg = "out"
  PROVE  puts[a].mask \cap puts[b].mask = {}
<1>1. DOMAIN task \subseteq Claimed
  BY ClaimedIs DEF Claims
<1>2. NoPut.reg # "out"
  BY NoPutType
<1> QED
  BY <1>1, <1>2 DEF Actor

LEMMA LevelStep == TypeInv /\ WhereInv /\ LevelInv /\ [Next]_vars => LevelInv'
<1> SUFFICES ASSUME TypeInv, WhereInv, LevelInv, [Next]_vars, troubles' \cap LevelTroubles = {}
             PROVE  /\ out' = meant' /\ late' = {}
                    /\ puts'["core0"].reg = "out" => puts'["core0"].mask \cap Claimed' = {}
                    /\ puts'["core1"].reg = "out" => puts'["core1"].mask \subseteq DOMAIN task'
                    /\ puts'["alarm"] # NoPut =>
                         /\ state' = "RUNNING" /\ pc1' = "loop" /\ puts'["core1"] = NoPut
                         /\ puts'["alarm"].mask \subseteq DOMAIN task'
                    /\ \A a \in Actor : Stands(a)'
  BY DEF LevelInv, Without
<1>1. /\ out = meant /\ late = {}
      /\ puts["core0"].reg = "out" => puts["core0"].mask \cap Claimed = {}
      /\ puts["core1"].reg = "out" => puts["core1"].mask \subseteq DOMAIN task
      /\ puts["alarm"] # NoPut =>
           /\ state = "RUNNING" /\ pc1 = "loop" /\ puts["core1"] = NoPut
           /\ puts["alarm"].mask \subseteq DOMAIN task
      /\ \A a \in Actor : Stands(a)
  BY TroublesStay DEF LevelInv, Without
<1>2. puts \in [Actor -> Puts] /\ \A a \in Actor : puts[a] \in Puts
  BY DEF TypeInv, PutTypes
<1>3. CASE UNCHANGED vars
  BY <1>1, <1>3 DEF vars, chipVars, core0Vars, queueVars, core1Vars, historyVars, Claimed,
                    Promised, Stands
<1>4. CASE Next
  <2>1. /\ late' = {}
        /\ puts'["core0"].reg = "out" => puts'["core0"].mask \cap Claimed' = {}
        /\ puts'["core1"].reg = "out" => puts'["core1"].mask \subseteq DOMAIN task'
        /\ puts'["alarm"] # NoPut =>
             /\ state' = "RUNNING" /\ pc1' = "loop" /\ puts'["core1"] = NoPut
             /\ puts'["alarm"].mask \subseteq DOMAIN task'
    BY <1>1, <1>4, NoneLate, HostApart, Core1Apart, AlarmApart
  <2> SUFFICES out' = meant' /\ \A a \in Actor : Stands(a)'
    BY <2>1
  <2>2. CASE UNCHANGED <<out, meant, puts>>
    BY <1>1, <2>2 DEF Stands
  <2>3. ASSUME UNCHANGED <<out, meant>>, NEW a \in Actor, NEW reg, NEW mask, NEW value,
               Starts(a, reg, mask, value)
        PROVE  out' = meant' /\ \A b \in Actor : Stands(b)'
    <3>1. ~puts'[a].read /\ \A b \in Actor \ {a} : puts'[b] = puts[b]
      BY <2>3, StartedPut
    <3> QED
      BY <1>1, <2>3, <3>1 DEF Stands
  <2>4. ASSUME NEW a \in Actor, ReadRegister(a)
        PROVE  out' = meant' /\ \A b \in Actor : Stands(b)'
    <3>1. UNCHANGED <<out, meant>>
      BY <2>4 DEF ReadRegister, chipVars
    <3>2. /\ puts'[a].reg = puts[a].reg /\ puts'[a].mask = puts[a].mask
          /\ puts'[a].old = IF puts[a].reg = "out" THEN out ELSE oe
          /\ \A b \in Actor \ {a} : puts'[b] = puts[b]
      <4>1. out \in SUBSET Pins /\ oe \in SUBSET Pins
        BY DEF TypeInv, ChipTypes
      <4> QED
        BY <1>2, <2>4, <4>1, ReadPut DEF ReadRegister
    <3> QED
      BY <1>1, <3>1, <3>2 DEF Stands
  <2>5. ASSUME NEW a \in Actor, ToggleRegister(a)
        PROVE  out' = meant' /\ \A b \in Actor : Stands(b)'
    <3>1. puts'[a] = NoPut /\ puts[a].read /\ \A b \in Actor \ {a} : puts'[b] = puts[b]
      BY <1>2, <2>5 DEF ToggleRegister
    <3>2. out' = meant'
      BY <1>1, <2>5, LevelEffect
    <3>3. ASSUME NEW b \in Actor \ {a}, puts[b].read, puts[b].reg = "out" PROVE Stands(b)'
      <4>1. \A p \in puts[b].mask : p \in out' <=> p \in out
        <5>1. CASE puts[a].reg = "out"
          BY <1>1, <2>5, <3>3, <5>1, LevelsApart, ToggleElse
        <5>2. CASE puts[a].reg # "out"
          BY <2>5, <5>2 DEF ToggleRegister
        <5> QED
          BY <5>1, <5>2
      <4> QED
        BY <1>1, <3>1, <3>3, <4>1 DEF Stands
    <3>4. \A b \in Actor : Stands(b)'
      BY <3>1, <3>3, NoPutType DEF Stands
    <3> QED
      BY <3>2, <3>4
  <2>6. CASE Construct
    <3>1. /\ out' = out \ {Head(settings).pin} /\ meant' = meant \ {Head(settings).pin}
          /\ puts' = puts /\ puts["core1"] = NoPut /\ state = "READY"
          /\ settings # <<>>
      BY <2>6 DEF Construct, At1, GpioInit
    <3>2. Head(settings).pin \in Claimed
      BY <3>1, HeadType, ClaimedIs DEF Claims
    <3>3. \A b \in Actor : puts[b].reg = "out" => Head(settings).pin \notin puts[b].mask
      BY <1>1, <3>1, <3>2, NoPutType DEF Actor
    <3> QED
      BY <1>1, <3>1, <3>3 DEF Stands
  <2>7. ~ResetApp
    BY DEF ResetApp, Occur, LevelTroubles
  <2>8. {"core0", "core1", "alarm"} = Actor
    BY DEF Actor
  <2>9. \/ UNCHANGED puts \/ \E a \in Actor : ReadRegister(a) \/ ToggleRegister(a)
        \/ \E a \in Actor : \E reg, mask, value : Starts(a, reg, mask, value)
    BY <1>4, <2>8, PutMoves
  <2>10. \/ UNCHANGED <<out, meant>> \/ Construct \/ \E a \in Actor : ToggleRegister(a)
    BY <1>4, <2>7, ChipMoves
  <2> QED
    BY <2>2, <2>3, <2>4, <2>5, <2>6, <2>9, <2>10
<1> QED
  BY <1>3, <1>4

\* What core1 puts is LOW, but for the levels of a schedule.
LEMMA PutsLow ==
  ASSUME TypeInv, WhereInv, Next,
         puts["core1"].reg = "out" /\ ~(state = "RUNNING" /\ pc1 = "loop")
           => puts["core1"].value = {}
  PROVE  puts'["core1"].reg = "out" /\ ~(state' = "RUNNING" /\ pc1' = "loop")
           => puts'["core1"].value = {}
<1> SUFFICES ASSUME puts'["core1"].reg = "out", ~(state' = "RUNNING" /\ pc1' = "loop")
             PROVE  puts'["core1"].value = {}
  OBVIOUS
<1>0. "core1" \in Actor /\ NoPut.reg # "out"
  BY NoPutType DEF Actor
<1>1. CASE SamePut("core1")
  <2>1. puts["core1"] # NoPut
    BY <1>0, <1>1 DEF SamePut
  <2>2. ~Stop /\ ~Fail
    BY <2>1 DEF Stop, Fail, At1
  <2>3. ~RewriteTask /\ ~Construct /\ ~ConstructLow /\ ~DestroyDir /\ ~ConstructInvert
        /\ ~StopTask /\ ~DestroyLow /\ ~Finish /\ \A high \in SUBSET Pins : ~Start(high)
    BY <2>1 DEF RewriteTask, Construct, ConstructLow, DestroyDir, ConstructInvert, StopTask,
                DestroyLow, Finish, Start, At1
  <2>4. UNCHANGED <<state, pc1>>
    BY <2>2, <2>3, Core1Moves DEF core1Vars
  <2> QED
    BY <1>1, <2>4 DEF SamePut
<1>2. ~ConstructInvert /\ ~DestroyDir
  BY <1>0, TaskStarts, StartedPut
<1>3. \A high \in SUBSET Pins : ~Start(high)
  BY DEF Start, At1
<1> QED
  BY <1>0, <1>1, <1>2, <1>3, PutsOf

LEMMA LoweredClaimed == TypeInv /\ WhereInv => Lowered \subseteq Claimed
<1> SUFFICES ASSUME TypeInv, WhereInv, NEW p \in Lowered PROVE Claims(p)
  BY ClaimedIs
<1>1. p \in DOMAIN task \/ (state = "READY" /\ pc1 # "loop" /\ p = new.pin)
  BY DEF Lowered
<1>2. CASE state = "READY" /\ pc1 # "loop" /\ p = new.pin
  <2>1. new \in HostSettings
    BY <1>2 DEF WhereInv, TypeInv, Core1Types
  <2> QED
    BY <1>2, <2>1, Pinned DEF Claims
<1> QED
  BY <1>1, <1>2 DEF Claims

\* Which pins join those that are LOW.
LEMMA LoweredMoves ==
  ASSUME TypeInv, WhereInv, Next
  PROVE  \/ Lowered' \subseteq Lowered
         \/ Construct /\ Lowered' \subseteq Lowered \cup {Head(settings).pin}
         \/ StopTask /\ Lowered' \subseteq Lowered \cup {First(todo)}
<1>0. state \in {"READY", "RUNNING"}
  BY DEF TypeInv, Core1Types
<1>1. CASE UNCHANGED core1Vars
  BY <1>1 DEF core1Vars, Lowered
<1>2. CASE RewriteTask
  <2>1. DOMAIN task' = DOMAIN task /\ UNCHANGED <<state, pc1, new, todo>>
    BY <1>2 DEF RewriteTask, TypeInv, Core1Types, IsTasks
  <2> QED
    BY <2>1 DEF Lowered
<1>3. CASE Construct
  BY <1>3 DEF Construct, At1, Lowered
<1>4. CASE ConstructInvert
  BY <1>4 DEF ConstructInvert, At1, Lowered
<1>5. CASE ConstructLow
  <2>1. DOMAIN task' = DOMAIN task \cup {new.pin} /\ pc1 = "low" /\ pc1' = "loop"
        /\ state' = state /\ state = "READY"
    BY <1>5 DEF ConstructLow, With, At1, WhereInv
  <2> QED
    BY <2>1 DEF Lowered
<1>6. CASE \E high \in SUBSET Pins : Start(high)
  BY <1>6 DEF Start, At1, Lowered
<1>7. CASE Stop \/ Fail
  BY <1>7 DEF Stop, Fail, At1, Lowered
<1>8. CASE StopTask
  <2>1. state = "RUNNING"
    BY <1>8 DEF StopTask, At1, WhereInv
  <2> QED
    BY <1>8, <2>1 DEF StopTask, At1, Lowered
<1>9. CASE DestroyLow \/ DestroyDir
  <2>1. state' = "RUNNING" /\ pc1' # "stop"
    BY <1>9 DEF DestroyLow, DestroyDir, At1, WhereInv
  <2> QED
    BY <2>1 DEF Lowered
<1>10. CASE Finish
  <2>1. /\ pc1 \in {"stop", "destroy"} /\ todo = {} /\ state = "RUNNING" /\ task' = task
        /\ pc1 = "destroy" => DOMAIN task \subseteq todo
        /\ state' = "READY" /\ pc1' = "loop"
    BY <1>10 DEF Finish, At1, WhereInv
  <2> QED
    BY <2>1 DEF Lowered
<1> QED
  BY <1>1, <1>2, <1>3, <1>4, <1>5, <1>6, <1>7, <1>8, <1>9, <1>10, Core1Moves, Zenon

LEMMA LowStep == TypeInv /\ WhereInv /\ LevelInv /\ LowInv /\ [Next]_vars => LowInv'
<1> SUFFICES ASSUME TypeInv, WhereInv, LevelInv, LowInv, [Next]_vars,
                    troubles' \cap LevelTroubles = {}
             PROVE  /\ puts'["core1"].reg = "out" /\ ~(state' = "RUNNING" /\ pc1' = "loop")
                         => puts'["core1"].value = {}
                    /\ \A p \in Lowered' \cap out' :
                         puts'["core1"].reg = "out" /\ p \in puts'["core1"].mask
  BY DEF LowInv, Without
<1>1. /\ puts["core0"].reg = "out" => puts["core0"].mask \cap Claimed = {}
      /\ puts["alarm"] # NoPut => state = "RUNNING" /\ pc1 = "loop"
      /\ puts["core1"].reg = "out" /\ ~(state = "RUNNING" /\ pc1 = "loop")
           => puts["core1"].value = {}
      /\ \A p \in Lowered \cap out : puts["core1"].reg = "out" /\ p \in puts["core1"].mask
      /\ \A a \in Actor : Stands(a)
  BY TroublesStay DEF LowInv, LevelInv, Without
<1>2. CASE UNCHANGED vars
  BY <1>1, <1>2 DEF vars, chipVars, core0Vars, queueVars, core1Vars, Claimed, Promised, Lowered
<1>3. CASE Next
  <2>2. puts'["core1"].reg = "out" /\ ~(state' = "RUNNING" /\ pc1' = "loop")
          => puts'["core1"].value = {}
    BY <1>1, <1>3, PutsLow
  <2>3. NoPut.reg # "out" /\ {"core0", "core1", "alarm"} = Actor
    BY NoPutType DEF Actor
  <2> SUFFICES ASSUME NEW p \in Lowered' \cap out'
               PROVE  puts'["core1"].reg = "out" /\ p \in puts'["core1"].mask
    BY <2>2
  <2>4. ASSUME NEW a \in Actor, ToggleRegister(a)
        PROVE  puts'["core1"].reg = "out" /\ p \in puts'["core1"].mask
    <3>1. /\ Lowered' = Lowered /\ puts[a] # NoPut
          /\ \A b \in Actor \ {a} : puts'[b] = puts[b]
      BY <2>4 DEF ToggleRegister, MayPut, core1Vars, Lowered, TypeInv, PutTypes
    <3>2. puts[a].reg = "out" =>
            out' = (out \ puts[a].mask) \cup (puts[a].value \cap puts[a].mask)
      BY <1>1, <2>4, LevelEffect
    <3>3. puts[a].reg # "out" => out' = out
      BY <2>4 DEF ToggleRegister
    <3>4. ~(state = "RUNNING" /\ pc1 = "loop")
      BY <3>1 DEF Lowered
    <3>5. CASE a = "core1"
      <4>1. puts[a].reg = "out" => puts[a].value = {}
        BY <1>1, <3>4, <3>5
      <4>2. p \in out
        BY <3>2, <3>3, <4>1
      <4>3. puts[a].reg = "out" /\ p \in puts[a].mask
        BY <1>1, <3>1, <3>5, <4>2
      <4> QED
        BY <3>2, <4>1, <4>3
    <3>6. CASE a = "core0"
      <4>1. puts[a].reg = "out" => p \notin puts[a].mask
        BY <1>1, <3>1, <3>6, LoweredClaimed
      <4>2. p \in out
        BY <3>2, <3>3, <4>1
      <4> QED
        BY <1>1, <2>3, <3>1, <3>6, <4>2
    <3>7. CASE a = "alarm"
      BY <1>1, <3>1, <3>4, <3>7
    <3> QED
      BY <2>3, <3>5, <3>6, <3>7
  <2>5. CASE Construct
    <3>1. /\ puts["core1"] = NoPut /\ out' = out \ {Head(settings).pin}
          /\ ~StopTask
      BY <2>5 DEF Construct, At1, GpioInit, StopTask
    <3>2. Lowered' \subseteq Lowered \cup {Head(settings).pin}
      BY <1>3, <3>1, LoweredMoves
    <3> QED
      BY <1>1, <2>3, <3>1, <3>2
  <2>6. CASE ResetApp
    <3>1. out' = out \ Pins /\ out \subseteq Pins
      BY <2>6 DEF ResetApp, GpioInit, TypeInv, ChipTypes
    <3> QED
      BY <3>1
  <2>7. CASE ~Construct /\ ~ResetApp /\ ~\E a \in Actor : ToggleRegister(a)
    <3>1. out' = out
      BY <1>3, <2>7, ChipMoves
    <3>2. CASE StopTask
      <4>1. puts["core1"] = NoPut
        BY <3>2 DEF StopTask, At1
      <4>2. p = First(todo)
        BY <1>1, <1>3, <2>3, <2>7, <3>1, <4>1, LoweredMoves
      <4>3. Starts("core1", "out", {First(todo)}, {}) /\ "core1" \in Actor
        BY <2>3, <3>2, TaskStarts
      <4> QED
        BY <4>2, <4>3, StartedPut
    <3>3. CASE ~StopTask
      <4>1. p \in Lowered \cap out
        BY <1>3, <2>7, <3>1, <3>3, LoweredMoves
      <4>2. puts["core1"].reg = "out" /\ p \in puts["core1"].mask
        BY <1>1, <4>1
      <4>3. puts["core1"] # NoPut
        BY <2>3, <4>2
      <4>4. ~ConstructInvert /\ ~DestroyDir /\ ~ConstructLow /\ ~DestroyLow
            /\ \A high \in SUBSET Pins : ~Start(high)
        BY <4>3 DEF ConstructInvert, DestroyDir, ConstructLow, DestroyLow, Start, At1
      <4>5. SamePut("core1")
        BY <1>3, <2>3, <2>7, <3>3, <4>4, PutsOf
      <4> QED
        BY <4>2, <4>5 DEF SamePut
    <3> QED
      BY <3>2, <3>3
  <2> QED
    BY <2>4, <2>5, <2>6, <2>7
<1> QED
  BY <1>2, <1>3
-----------------------------------------------------------------------------
(***************************************************************************)
(* The invariant, and what it implies.                                     *)
(***************************************************************************)
Inv == TypeInv /\ WhereInv /\ PutInv /\ DirInv /\ AskedInv /\ PolarityInv /\ LevelInv
         /\ LowInv

LEMMA InvInit == Init => Inv
<1> SUFFICES ASSUME Init PROVE Inv
  OBVIOUS
<1>1. TypeInv /\ WhereInv
  BY TypeInit, WhereInit
<1>2. Promised = {} /\ Claimed = {}
  <2>1. \A s : ~Owes(s)
    BY DEF Init, Owes, None
  <2> QED
    BY <2>1, PromisedIs DEF Claimed
<1>3. \A a \in Actor : puts[a] = NoPut /\ puts[a].reg = "none" /\ ~puts[a].read
  BY NoPutType DEF Init
<1>4. {"core0", "core1", "alarm"} = Actor
  BY DEF Actor
<1>5. PutInv
  BY <1>3 DEF Init, PutInv, Without, Fresh, Apart
<1>10. LevelInv
  BY <1>2, <1>3, <1>4 DEF Init, LevelInv, Without, Stands
<1>6. DirInv
  BY <1>2, <1>3, <1>4 DEF Init, DirInv, Without, Pending
<1>7. AskedInv
  BY <1>2, <1>3, <1>4 DEF Init, AskedInv, Without
<1>8. PolarityInv
  BY <1>2 DEF Init, PolarityInv, Without, Agree, None
<1>9. LowInv
  BY <1>3, <1>4 DEF Init, LowInv, Without, Lowered
<1> QED
  BY <1>1, <1>5, <1>6, <1>7, <1>8, <1>9, <1>10 DEF Inv

LEMMA SpecInv == Spec => []Inv
<1>1. Inv /\ [Next]_vars => Inv'
  BY TypeStep, WhereStep, PutStep, DirStep, AskedStep, PolarityStep, LevelStep, LowStep DEF Inv
<1> QED
  BY <1>1, InvInit, PTL DEF Spec

LEMMA QuietIs ==
  ASSUME Quiet
  PROVE  /\ pc0 = "idle" /\ pc1 = "loop"
         /\ puts["core0"].reg = "none" /\ puts["core1"].reg = "none"
BY NoPutType DEF Quiet, Actor

\* The state of the chip, of both cores and of their queue has its type, and the
\* queue of settings never holds more than it has room for (cuttlefish_app.cpp:213).
THEOREM PinTypes == Spec => []TypeOK
<1>1. Inv => TypeOK
  BY TypeInvIsTypeOK DEF Inv
<1> QED
  BY <1>1, SpecInv, PTL

\* As long as the host does not write the levels of task pins, no alarm is cancelled
\* too late and reset_app() does not run, no put of levels comes between the read and
\* the toggle of another on the same pin, so that none is lost: the output register
\* holds what core0 (cuttlefish_app.cpp:76-100), core1 (pwm_task.cpp:21, 35,
\* pwm_task.h:54, pwm_scheduler.cpp:80) and the handler (pwm_scheduler.cpp:198) last
\* put on each pin.
THEOREM OutputsHoldWhatWasPut == Spec => []PutsTakeEffect
<1>1. Inv => PutsTakeEffect
  BY DEF Inv, LevelInv, LevelTroubles, PutsTakeEffect, Without
<1> QED
  BY <1>1, SpecInv, PTL

\* As long as the host leaves the directions of task pins alone and nothing fails or
\* is reset, pins, buffers and the register agree once core0 and core1 are done,
\* whatever task core1 constructs meanwhile (cuttlefish_app.cpp:46-57, pwm_task.cpp:20).
THEOREM PinsFollowTheRegister == Spec => []DirectionsAgree
<1>1. Inv => DirectionsAgree
  <2> SUFFICES ASSUME Inv, Quiet, troubles \cap {"overlap", "dir", "failed", "reset"} = {}
               PROVE  oe = portDir /\ buffers = portDir
    BY DEF DirectionsAgree, Without
  <2>1. puts["core0"].reg # "oe" /\ Pending = {}
    BY QuietIs DEF Pending
  <2> QED
    BY <2>1 DEF Inv, DirInv, Without
<1> QED
  BY <1>1, SpecInv, PTL

\* Unless the queue of settings was full or a deadline missed, every driven pin was
\* made an output by the host or has a task that exists or is on its way, resets and
\* overlapping puts included (cuttlefish_app.cpp:54-57, 206-218, 315-322).
THEOREM NoStrayOutputs == Spec => []OutputsWereAskedFor
<1>1. Inv => OutputsWereAskedFor
  <2> SUFFICES ASSUME Inv, Quiet, troubles \cap {"full", "failed"} = {}
               PROVE  oe \subseteq asked \cup Claimed
    BY DEF OutputsWereAskedFor, Without
  <2>1. puts["core0"].reg # "oe"
    BY QuietIs
  <2> QED
    BY <2>1 DEF Inv, AskedInv, Without
<1> QED
  BY <1>1, SpecInv, PTL

\* As long as the host keeps to one polarity per task and nothing fails or is reset,
\* exactly the pads of the inverted tasks are inverted (pwm_task.cpp:12-19,
\* core1_main.cpp:57).
THEOREM PadsFollowSettings == Spec => []PolarityAsSet
<1>1. Inv => PolarityAsSet
  <2> SUFFICES ASSUME Inv, Quiet, troubles \cap {"flip", "failed", "reset"} = {}
               PROVE  inverted = {p \in DOMAIN task : task[p]}
    BY DEF PolarityAsSet, Without
  <2>1. pc1 # "low"
    BY QuietIs
  <2> QED
    BY <2>1 DEF Inv, PolarityInv, Without
<1> QED
  BY <1>1, SpecInv, PTL

\* As long as the host keeps off the levels of task pins, no alarm is cancelled too
\* late and reset_app() does not run, the outputs of all tasks are LOW between
\* schedules, after a missed deadline, too (pwm_task.h:53-54, pwm_task.cpp:21, 35,
\* pwm_scheduler.cpp:168-186).
THEOREM TasksRestLow == Spec => []StoppedIsLow
<1>1. Inv => StoppedIsLow
  <2> SUFFICES ASSUME Inv, Quiet, state = "READY", troubles \cap LevelTroubles = {}
               PROVE  out \cap DOMAIN task = {}
    BY DEF StoppedIsLow, LevelTroubles, Without
  <2>1. puts["core1"].reg # "out" /\ Lowered = DOMAIN task
    BY QuietIs DEF Lowered
  <2> QED
    BY <2>1 DEF Inv, LowInv, Without
<1> QED
  BY <1>1, SpecInv, PTL
=============================================================================
