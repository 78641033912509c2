------------------------------ MODULE PortPins ------------------------------
(***************************************************************************)
(* The eight port pins between two cores: the port registers of             *)
(* firmware/src/cuttlefish_app.cpp on core0, the pins of the PWM tasks      *)
(* (pwm_task.cpp) on core1, and the alarm handler, which interrupts core0.  *)
(*                                                                         *)
(* gpio_put_masked() and gpio_set_dir_masked() of the Pico SDK read a       *)
(* register and then toggle the bits that are wrong: two accesses, between   *)
(* which others may come.  gpio_init() clears bits at once.                 *)
(* When a schedule runs, and with which levels, is left open; the cores'    *)
(* conversation is that of module Control, without late answers.            *)
(***************************************************************************)
EXTENDS Naturals, Sequences, FiniteSets

CONSTANTS
  Pins,         \* the port pins
  SettingsCap,  \* capacity of pwm_settings_queue, 32 in the code
  MaxTroubles,  \* bound: kinds of trouble in one history before they make another
  HostSettings, \* the settings the host may choose from
  Troubles      \* the troubles the surroundings may make

\* No pin is 0, which stands for none: PORT_BASE is 8 (config.h:6).
ASSUME PinsAssumption == Pins \subseteq Nat \ {0}
ASSUME SettingsAssumption == HostSettings \subseteq [pin : Pins, invert : BOOLEAN]
ASSUME CapAssumption == SettingsCap \in Nat \ {0} /\ MaxTroubles \in Nat
\* Two changes of a direction overlap; the host makes a pin that is used for PWM
\* an input, or writes its level; it changes the invert setting of a task; it
\* finds the settings queue full; a deadline is missed; reset_app() runs;
\* cancel_alarm() comes while the handler runs, or after its interrupt is latched.
AllTroubles ==
  {"overlap", "dir", "meddle", "flip", "full", "failed", "reset", "caught", "latched"}
ASSUME TroublesAssumption == Troubles \subseteq AllTroubles

VARIABLES
  \* the chip
  out,       \* pins whose output register bit is HIGH
  oe,        \* pins that are outputs
  inverted,  \* pins whose pad shows the inverse (OUTOVER)
  buffers,   \* pins whose external buffer drives outwards
  late,      \* pins of an interrupt that will come though its alarm is cancelled
  puts,      \* the put that core0, core1 and the alarm handler are executing
  \* core0
  pc0,       \* the register handler it is in
  portDir,   \* app_regs.port_dir
  pwmState,  \* app_regs.pwm_state
  armed0,    \* the settings it is about to queue
  \* queues
  settings,  \* pwm_settings_queue
  ctrl,      \* core1_ctrl_queue
  ended,     \* core1 reported an end that nobody asked for
  \* core1
  pc1,       \* the method it is in
  state,     \* core1_state_t
  task,      \* invert_ of the tasks by their pin
  new,       \* the settings of the task it constructs
  todo,      \* tasks it has yet to stop or destroy
  \* history
  meant,     \* the pins that were last put HIGH
  asked,     \* the pins that the host last asked to be outputs
  troubles   \* the troubles that occurred so far

chipVars == <<out, oe, inverted, buffers, late>>
core0Vars == <<pc0, portDir, pwmState, armed0>>
queueVars == <<settings, ctrl, ended>>
core1Vars == <<pc1, state, task, new, todo>>
historyVars == <<meant, asked, troubles>>
vars == <<chipVars, puts, core0Vars, queueVars, core1Vars, historyVars>>

Actor == {"core0", "core1", "alarm"}
NoPut == [reg |-> "none", mask |-> {}, value |-> {}, old |-> {}, read |-> FALSE]
NoSettings == [pin |-> 0, invert |-> FALSE]
None == [p \in {} |-> FALSE]
First(S) == CHOOSE p \in S : \A q \in S : p <= q
With(f, p, v) == [q \in DOMAIN f \cup {p} |-> IF q = p THEN v ELSE f[q]]
Dropping(f, p) == [q \in DOMAIN f \ {p} |-> f[q]]

\* The surroundings choose to make these troubles; none is always possible.
Occur(some) ==
  /\ troubles' = troubles \cup some
  /\ some # {} => some \subseteq Troubles /\ Cardinality(troubles') <= MaxTroubles
If(condition, trouble) == IF condition THEN {trouble} ELSE {}

\* The settings of the tasks that exist or are on their way, and their pins.
Promised ==
  {[pin |-> p, invert |-> task[p]] : p \in DOMAIN task}
    \cup {settings[i] : i \in DOMAIN settings} \cup ({new, armed0} \ {NoSettings})
Claimed == {s.pin : s \in Promised}

Init ==
  /\ out = {} /\ oe = {} /\ inverted = {} /\ buffers = {} /\ late = {}
  /\ puts = [a \in Actor |-> NoPut]
  /\ pc0 = "idle" /\ portDir = {} /\ pwmState = FALSE /\ armed0 = NoSettings
  /\ settings = <<>> /\ ctrl = "none" /\ ended = FALSE
  /\ pc1 = "loop" /\ state = "READY" /\ task = None /\ new = NoSettings /\ todo = {}
  /\ meant = {} /\ asked = {} /\ troubles = {}
-----------------------------------------------------------------------------
(***************************************************************************)
(* The SDK.                                                                *)
(***************************************************************************)
SymDiff(A, B) == (A \ B) \cup (B \ A)

Putting(reg, mask, value) ==
  [reg |-> reg, mask |-> mask, value |-> value, old |-> {}, read |-> FALSE]

\* a begins a put of output levels, or of directions.
Put(a, mask, value) == puts' = [puts EXCEPT ![a] = Putting("out", mask, value)]
SetDir(a, mask, value) == puts' = [puts EXCEPT ![a] = Putting("oe", mask, value)]

\* Only the alarm handler's interrupt stops core0 in the middle of a put.
MayPut(a) == puts[a] # NoPut /\ (a = "core0" => puts["alarm"] = NoPut)

\* Somebody has read the directions of pins of S and not yet toggled them.
UnderWay(S) ==
  \E a \in Actor : puts[a].read /\ puts[a].reg = "oe" /\ puts[a].mask \cap S # {}

ReadRegister(a) ==
  /\ MayPut(a) /\ ~puts[a].read
  /\ puts' = [puts EXCEPT ![a].read = TRUE,
                          ![a].old = IF puts[a].reg = "out" THEN out ELSE oe]
  /\ Occur(If(puts[a].reg = "oe" /\ UnderWay(puts[a].mask), "overlap"))
  /\ UNCHANGED <<chipVars, core0Vars, queueVars, core1Vars, meant, asked>>

\* Mutant: the register is written back as a whole.
WrittenBack(reg, put) == (put.old \ put.mask) \cup (put.value \cap put.mask)

\* ... = (register ^ value) & mask, to the register that toggles.
Toggled(reg, put) == SymDiff(reg, SymDiff(put.old, put.value) \cap put.mask)

ToggleRegister(a) ==
  /\ MayPut(a) /\ puts[a].read
  /\ IF puts[a].reg = "out"
     THEN /\ out' = Toggled(out, puts[a])
          /\ meant' = (meant \ puts[a].mask) \cup (puts[a].value \cap puts[a].mask)
          /\ UNCHANGED oe
     ELSE oe' = Toggled(oe, puts[a]) /\ UNCHANGED <<out, meant>>
  /\ puts' = [puts EXCEPT ![a] = NoPut]
  /\ UNCHANGED <<inverted, buffers, late, core0Vars, queueVars, core1Vars, asked, troubles>>

\* gpio_init_mask(): inputs, LOW, function SIO without overrides.
InitTroubles(S) == If(UnderWay(S), "overlap")
GpioInit(S) ==
  /\ oe' = oe \ S /\ out' = out \ S /\ inverted' = inverted \ S
-----------------------------------------------------------------------------
(***************************************************************************)
(* core0.                                                                  *)
(***************************************************************************)
At0(label) == puts["core0"] = NoPut /\ puts["alarm"] = NoPut /\ pc0 = label

\* Mutant: the buffers stay.
SetPinsOnly(dir) == buffers' = buffers /\ SetDir("core0", Pins, dir)

\* set_io_port_dir(): the buffers, which nobody else writes, and the pins.
SetIoPortDir(dir) == buffers' = dir /\ SetDir("core0", Pins, dir)

\* Mutant: outputs are added.
AddedDir(S) == portDir \cup S

WrittenDir(S) == S

WritePortDir(S) ==
  /\ At0("idle")
  /\ portDir' = WrittenDir(S) /\ asked' = S
  /\ SetIoPortDir(portDir')
  /\ Occur(If(~(Claimed \subseteq S), "dir"))
  /\ UNCHANGED <<out, oe, inverted, late, pc0, pwmState, armed0, queueVars, core1Vars, meant>>

HostPut(mask, value) ==
  /\ At0("idle")
  /\ Put("core0", mask, value)
  /\ Occur(If(mask \cap Claimed # {}, "meddle"))
  /\ UNCHANGED <<chipVars, core0Vars, queueVars, core1Vars, meant, asked>>

WritePortState(S) == HostPut(portDir, S)
WritePortSet(S) == HostPut(S, S)
WritePortClear(S) == HostPut(S, {})

ArmedDir(p) == portDir \cup {p}

\* write_any_pwm_settings() up to its put of the directions.
WritePwmSettings(s) ==
  /\ At0("idle") /\ ~pwmState
  /\ portDir' = ArmedDir(s.pin)
  /\ SetIoPortDir(portDir')
  /\ armed0' = s /\ pc0' = "queue"
  /\ Occur(If([s EXCEPT !.invert = ~@] \in Promised, "flip")
             \cup If(Len(settings) = SettingsCap, "full"))
  /\ UNCHANGED <<out, oe, inverted, late, pwmState, queueVars, core1Vars, meant, asked>>

\* Mutant: room is tested too late.
HasRoomLate == Len(settings) <= SettingsCap

HasRoom == Len(settings) < SettingsCap

QueueSettings ==
  /\ At0("queue")
  /\ IF HasRoom
     THEN settings' = Append(settings, armed0) /\ buffers' = buffers \cup {armed0.pin}
     ELSE UNCHANGED <<settings, buffers>>
  /\ pc0' = "idle" /\ armed0' = NoSettings
  /\ UNCHANGED <<out, oe, inverted, late, puts, portDir, pwmState, ctrl, ended,
                 core1Vars, historyVars>>

\* write_pwm_state(); the writes it refuses change no pin.
WritePwmState ==
  /\ At0("idle")
  /\ pwmState' = ~pwmState
  /\ ctrl' = IF pwmState' THEN "START" ELSE "STOP"
  /\ pc0' = "waiting"
  /\ UNCHANGED <<chipVars, puts, portDir, armed0, settings, ended, core1Vars, historyVars>>

\* core1 has acted on the command or ignored it.
TakeAnswer ==
  /\ At0("waiting") /\ ctrl = "none" /\ pc1 = "loop"
  /\ pc0' = "idle" /\ ended' = FALSE
  /\ UNCHANGED <<chipVars, puts, portDir, pwmState, armed0, settings, ctrl,
                 core1Vars, historyVars>>

UpdateAppState ==
  /\ At0("idle") /\ ended
  /\ ended' = FALSE /\ pwmState' = FALSE
  /\ UNCHANGED <<chipVars, puts, pc0, portDir, armed0, settings, ctrl, core1Vars, historyVars>>

\* reset_app() up to its put of the directions ...
ResetApp ==
  /\ At0("idle")
  /\ Occur({"reset"} \cup InitTroubles(Pins))
  /\ settings' = <<>> /\ ctrl' = "none" /\ ended' = FALSE /\ pwmState' = FALSE
  /\ GpioInit(Pins)
  /\ puts' = [puts EXCEPT !["core0"] = Putting("oe", Pins, {})]
  /\ meant' = {} /\ asked' = {}
  /\ pc0' = "registers"
  /\ UNCHANGED <<buffers, late, portDir, armed0, core1Vars>>

\* ... and after it.
ResetRegisters ==
  /\ At0("registers")
  /\ buffers' = {} /\ portDir' = {} /\ pc0' = "idle"
  /\ UNCHANGED <<out, oe, inverted, late, puts, pwmState, armed0, queueVars,
                 core1Vars, historyVars>>
-----------------------------------------------------------------------------
(***************************************************************************)
(* core1 and the alarm handler.                                            *)
(***************************************************************************)
At1(label) == puts["core1"] = NoPut /\ pc1 = label

\* sync_schedule() for a pin that has a task: invert is stored.
RewriteTask ==
  /\ At1("loop") /\ state = "READY" /\ settings # <<>>
  /\ LET s == Head(settings)
     IN /\ s.pin \in DOMAIN task
        /\ task' = [task EXCEPT ![s.pin] = s.invert]
  /\ settings' = Tail(settings)
  /\ UNCHANGED <<chipVars, puts, core0Vars, ctrl, ended, pc1, state, new, todo, historyVars>>

\* PWMTask::PWMTask().
Construct ==
  /\ At1("loop") /\ state = "READY" /\ settings # <<>>
  /\ LET s == Head(settings)
     IN /\ s.pin \notin DOMAIN task
        /\ GpioInit({s.pin})
        /\ meant' = meant \ {s.pin}
        /\ new' = s
        /\ Occur(InitTroubles({s.pin}))
  /\ settings' = Tail(settings)
  /\ pc1' = "invert"
  /\ UNCHANGED <<buffers, late, puts, core0Vars, ctrl, ended, state, task, todo, asked>>

\* Mutant: the polarity is never set.
NeverInverted(s) == inverted

Polarity(s) == IF s.invert THEN inverted \cup {s.pin} ELSE inverted

ConstructInvert ==
  /\ At1("invert")
  /\ inverted' = Polarity(new)
  /\ SetDir("core1", {new.pin}, {new.pin})
  /\ pc1' = "low"
  /\ UNCHANGED <<out, oe, buffers, late, core0Vars, queueVars, state, task, new, todo,
                 meant, asked, troubles>>

ConstructLow ==
  /\ At1("low")
  /\ Put("core1", {new.pin}, {})
  /\ task' = With(task, new.pin, new.invert)
  /\ new' = NoSettings
  /\ pc1' = "loop"
  /\ UNCHANGED <<chipVars, core0Vars, queueVars, state, todo, meant, asked, troubles>>

\* Mutant: the other pins are put LOW, too.
AllPins == Pins

StartMask == DOMAIN task

\* PWMScheduler::start(): all starting levels at once.
Start(high) ==
  /\ At1("loop") /\ state = "READY" /\ settings = <<>> /\ ctrl = "START"
  /\ high \subseteq DOMAIN task
  /\ Put("core1", StartMask, high)
  /\ ctrl' = "none" /\ state' = "RUNNING"
  /\ UNCHANGED <<chipVars, core0Vars, settings, ended, pc1, task, new, todo, meant, asked, troubles>>

\* run_task_loop() ignores a command that its state does not expect.
Ignore ==
  /\ At1("loop") /\ ctrl = IF state = "READY" THEN "STOP" ELSE "START"
  /\ ctrl' = "none"
  /\ UNCHANGED <<chipVars, puts, core0Vars, settings, ended, core1Vars, historyVars>>

\* set_new_ttl_pin_state() applies a port event of a schedule that runs ...
AlarmFires(mask, high) ==
  /\ state = "RUNNING" /\ pc1 = "loop"
  /\ puts["alarm"] = NoPut
  /\ puts["core1"] = NoPut
  /\ mask # {} /\ mask \subseteq DOMAIN task /\ high \subseteq mask
  /\ Put("alarm", mask, high)
  /\ UNCHANGED <<chipVars, core0Vars, queueVars, core1Vars, historyVars>>

\* core1 may not have cleared the port events yet: after cancel_alarm(), stop()
\* does so before it puts the tasks LOW and reset() after it destroyed them.
MayFindEvents ==
  \/ pc1 = "stop" /\ todo = DOMAIN task
  \/ pc1 \in {"destroy", "input"}

\* ... or of one that is over, wherever core1 is by now; it re-arms the alarm if
\* it finds another event.
LatchedFires(mask, high) ==
  /\ puts["alarm"] = NoPut
  /\ mask # {} /\ mask \subseteq late /\ high \subseteq mask
  /\ Put("alarm", mask, high)
  /\ late' \in IF MayFindEvents THEN {{}, late} ELSE {{}}
  /\ UNCHANGED <<out, oe, inverted, buffers, core0Vars, queueVars, core1Vars, historyVars>>

\* cancel_alarm() does not wait for the handler, which may re-arm the alarm, nor
\* does it take back an interrupt that the timer has latched.  The troubles of
\* the caller come on top.
CancelAlarm(some) ==
  \E S \in {{}, DOMAIN task} :
    /\ late' = late \cup S
    /\ Occur(some \cup IF puts["alarm"] # NoPut THEN {"caught"} ELSE If(S # {}, "latched"))

\* PWMScheduler::stop(), on a STOP or at the end.
Stop ==
  /\ At1("loop") /\ state = "RUNNING"
  /\ ended' = (ended \/ ctrl # "STOP")
  /\ ctrl' = IF ctrl = "STOP" THEN "none" ELSE ctrl
  /\ CancelAlarm({})
  /\ todo' = DOMAIN task /\ pc1' = "stop"
  /\ UNCHANGED <<out, oe, inverted, buffers, puts, core0Vars, settings, state, task, new, meant, asked>>

\* Mutant: an output keeps its level.
KeepsLevel(p) == out \cap {p}

StopLevel(p) == {}

StopTask ==
  /\ At1("stop") /\ todo # {}
  /\ Put("core1", {First(todo)}, StopLevel(First(todo)))
  /\ todo' = todo \ {First(todo)}
  /\ UNCHANGED <<chipVars, core0Vars, queueVars, pc1, state, task, new, meant, asked, troubles>>

\* A missed deadline leads to PWMScheduler::reset(), which destroys the tasks.
Fail ==
  /\ At1("loop") /\ state = "RUNNING"
  /\ CancelAlarm({"failed"})
  /\ ended' = TRUE /\ ctrl' = "none"
  /\ todo' = DOMAIN task /\ pc1' = "destroy"
  /\ UNCHANGED <<out, oe, inverted, buffers, puts, core0Vars, settings, state, task, new, meant, asked>>

\* PWMTask::~PWMTask().
DestroyLow ==
  /\ At1("destroy") /\ todo # {}
  /\ Put("core1", {First(todo)}, {})
  /\ pc1' = "input"
  /\ UNCHANGED <<chipVars, core0Vars, queueVars, state, task, new, todo, meant, asked, troubles>>

DestroyDir ==
  /\ At1("input")
  /\ SetDir("core1", {First(todo)}, {})
  /\ task' = Dropping(task, First(todo))
  /\ todo' = todo \ {First(todo)}
  /\ pc1' = "destroy"
  /\ UNCHANGED <<chipVars, core0Vars, queueVars, state, new, meant, asked, troubles>>

\* reset() leaves the handler an empty mask.
Finish ==
  /\ At1("stop") \/ At1("destroy")
  /\ todo = {}
  /\ state' = "READY" /\ pc1' = "loop"
  /\ late' = IF pc1 = "destroy" THEN {} ELSE late
  /\ UNCHANGED <<out, oe, inverted, buffers, puts, core0Vars, queueVars, task, new, todo, historyVars>>

Next ==
  \/ \E a \in Actor : ReadRegister(a) \/ ToggleRegister(a)
  \/ \E S \in SUBSET Pins :
       WritePortDir(S) \/ WritePortState(S) \/ WritePortSet(S) \/ WritePortClear(S)
  \/ \E s \in HostSettings : WritePwmSettings(s)
  \/ QueueSettings \/ WritePwmState \/ TakeAnswer \/ UpdateAppState
  \/ ResetApp \/ ResetRegisters
  \/ RewriteTask \/ Construct \/ ConstructInvert \/ ConstructLow
  \/ \E high \in SUBSET Pins : Start(high)
  \/ \E mask, high \in SUBSET Pins : AlarmFires(mask, high) \/ LatchedFires(mask, high)
  \/ Ignore \/ Stop \/ StopTask \/ Fail \/ DestroyLow \/ DestroyDir \/ Finish

Spec == Init /\ [][Next]_vars
-----------------------------------------------------------------------------
(***************************************************************************)
(* Properties.                                                             *)
(***************************************************************************)
TypeOK ==
  /\ {out, oe, inverted, buffers, late, portDir, todo, meant, asked} \subseteq SUBSET Pins
  /\ puts \in [Actor -> [reg : {"none", "out", "oe"}, mask : SUBSET Pins,
                         value : SUBSET Pins, old : SUBSET Pins, read : BOOLEAN]]
  /\ pc0 \in {"idle", "queue", "waiting", "registers"}
  /\ {pwmState, ended} \subseteq BOOLEAN
  /\ {armed0, new} \subseteq HostSettings \cup {NoSettings}
  /\ settings \in Seq(HostSettings) /\ Len(settings) <= SettingsCap
  /\ ctrl \in {"none", "START", "STOP"}
  /\ pc1 \in {"loop", "invert", "low", "stop", "destroy", "input"}
  /\ state \in {"READY", "RUNNING"}
  /\ DOMAIN task \subseteq Pins /\ task \in [DOMAIN task -> BOOLEAN]
  /\ troubles \subseteq AllTroubles

\* What holds until one of these troubles occurs.
Without(some, holds) == troubles \cap some = {} => holds

\* Nobody is in the middle of changing a pin.
Quiet == pc0 = "idle" /\ pc1 = "loop" /\ \A a \in Actor : puts[a] = NoPut

\* No two puts of levels spoil each other: the outputs have the level that was
\* last put to each of them.  Nothing orders the puts of core0's registers
\* (cuttlefish_app.cpp:76-100), of core1 (pwm_scheduler.cpp:80,180 and the tasks'
\* constructor and destructor) and of the handler (pwm_scheduler.cpp:198), and a
\* put that comes between the read and the toggle of another loses its effect:
\* the masks and core1's method must keep them apart.  Where the host, a
\* cancelled alarm or reset_app() break that is said by the troubles.
PutsTakeEffect ==
  Without({"meddle", "caught", "latched", "reset"}, Quiet => out = meant)

\* The pins of PWM tasks are outputs: set_io_port_dir() is to "omit setting
\* direction of pins used by existing PWM Tasks" (cuttlefish_app.cpp:49).
TaskPinsAreOutputs == Quiet => DOMAIN task \subseteq oe

\* Buffers, pins and register agree on the directions: "set both buffer ctrl
\* pins and corresponding IO pins to match" (cuttlefish_app.cpp:48).
DirectionsAgree ==
  Without({"overlap", "dir", "failed", "reset"},
    Quiet => oe = portDir /\ buffers = portDir)

\* A pin is only driven if the host made it an output or gave it to a task that
\* exists or is on its way (cuttlefish_app.cpp:206-218).
OutputsWereAskedFor ==
  Without({"full", "failed"},
    Quiet => oe \subseteq asked \cup Claimed)

\* Pads are inverted as the settings of their tasks say, and those of the host's
\* pins are not (pwm_task.cpp:12-19, core1_main.cpp:57; "whether the output is
\* inverted", device.yml:95-98).
PolarityAsSet ==
  Without({"flip", "failed", "reset"},
    Quiet => inverted = {p \in DOMAIN task : task[p]})

\* Between schedules the outputs of all tasks are LOW (pwm_task.h:53-54), unless
\* cancel_alarm() came too late or reset_app() toggled under core1's hands.
StoppedIsLow ==
  Without({"meddle", "caught", "latched", "reset"},
    Quiet /\ state = "READY" => out \cap DOMAIN task = {})
=============================================================================
