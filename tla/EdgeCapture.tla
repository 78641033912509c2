---------------------------- MODULE EdgeCapture ----------------------------
(***************************************************************************)
(* Input capture: the enable registers, the interrupt handler, its queue    *)
(* and the events sent to the host (firmware/src/cuttlefish_app.cpp), over  *)
(* the interrupt registers of the chip's GPIO bank.                         *)
(*                                                                         *)
(* Pins change on their own, at any moment.  Every edge is latched in INTR, *)
(* enabled or not; an enabled one interrupts core0 at once.  The handler    *)
(* reads all latched edges and later clears all of them; core0 sends what   *)
(* it finds in the queue.  Time stamps are left out.                        *)
(***************************************************************************)
EXTENDS Naturals, Sequences, FiniteSets

CONSTANTS
  Pins,        \* the pins
  QueueCap,    \* capacity of edge_event_queue, 32 in the code
  HandlerCap,  \* slots for shared handlers, PICO_MAX_SHARED_IRQ_HANDLERS
  RisePins, FallPins,  \* pins whose edges the host may ever enable
  MaxTroubles, \* bound: kinds of trouble in one history before they make another
  Troubles     \* the troubles the surroundings may make, see TroublesAssumption

ASSUME CapacityAssumption == {QueueCap, HandlerCap} \subseteq Nat \ {0}
ASSUME PinsAssumption == Pins \subseteq Nat /\ RisePins \cup FallPins \subseteq Pins
\* An edge comes between the handler's read and its clear; a pin changes twice
\* before the handler reads; the queue is full; an enable bit (of the register
\* or of INTE) is set while the system still holds edges of that pin; the device
\* is muted; reset_app() runs.
AllTroubles == {"fast", "glitch", "flood", "stale", "mute", "reset"}
ASSUME TroublesAssumption == Troubles \subseteq AllTroubles /\ MaxTroubles \in Nat

\* The edges that matter: the filter always removes the others from an event.
Edge == (RisePins \X {"rise"}) \cup (FallPins \X {"fall"})

VARIABLES
  \* the chip
  level,      \* the pins that are HIGH
  intr,       \* INTR: the latched edges
  inte,       \* INTE: the edges that interrupt core0
  handlers,   \* how often the handler is attached to IO_IRQ_BANK0
  \* handle_edge_event_callback()
  isr,        \* "idle", about to "push" and clear, or between two handlers
  left,       \* attached handlers that this interrupt has yet to call
  seen,       \* rise_pins and fall_pins of the event being made
  queue,      \* edge_event_queue, oldest event first
  \* core0
  pc0,        \* the register handler core0 is in
  todo,       \* the pins its loop has yet to visit
  enabled,    \* enable_rising_edge_events and enable_falling_edge_events
  \* history
  due,        \* how many edges that the host asked for it was not told yet
  host,       \* the pins that are HIGH as far as the host was told
  troubles    \* the troubles that occurred so far

chipVars == <<level, intr, inte, handlers>>
isrVars == <<isr, left, seen>>
core0Vars == <<pc0, todo, enabled>>
historyVars == <<due, host>>
vars == <<chipVars, isrVars, queue, core0Vars, historyVars, troubles>>

Rises(edges) == {p \in Pins : <<p, "rise">> \in edges}
Falls(edges) == {p \in Pins : <<p, "fall">> \in edges}
On(p) == {e \in Edge : e[1] = p}
\* A trouble befalls the code, or the surroundings choose to make it.
Befalls(trouble) == troubles' = troubles \cup {trouble}
Occurs(trouble) ==
  /\ trouble \in Troubles /\ Befalls(trouble)
  /\ Cardinality(troubles') <= MaxTroubles
OccursIf(condition, trouble) ==
  IF condition THEN Occurs(trouble) ELSE UNCHANGED troubles

\* A pin is watched if the host asked for both its edges and gets them.
Watched(p) ==
  p \in RisePins \cap FallPins /\ On(p) \subseteq enabled /\ On(p) \subseteq inte

\* Before reset_app() runs for the first time.
Init ==
  /\ level = {} /\ intr = {} /\ inte = {} /\ handlers = 0
  /\ isr = "idle" /\ left = 0 /\ seen = {} /\ queue = <<>>
  /\ pc0 = "drain" /\ todo = {} /\ enabled = {}
  /\ due = [e \in Edge |-> 0] /\ host = level /\ troubles = {}
-----------------------------------------------------------------------------
\* How many queued events hold e, and how many places hold it on its way to
\* the host.
Queued(e) == Cardinality({i \in DOMAIN queue : e \in queue[i]})
Copies(e) ==
  LET latched == IF isr = "push" THEN seen ELSE intr
  IN Queued(e) + (IF e \in latched THEN 1 ELSE 0)

\* Troubles that lose edges.
Losses == {"fast", "glitch", "flood", "mute"}

\* Edges are written off if such a trouble has occurred, or their interrupt is
\* not enabled yet.
WrittenOff(d) ==
  [e \in Edge |-> IF (troubles' \cap Losses # {} \/ e \notin inte) /\ Copies(e)' < d[e]
                  THEN Copies(e)' ELSE d[e]]
-----------------------------------------------------------------------------
(***************************************************************************)
(* The pins and the handler.                                                *)
(***************************************************************************)
\* Some pins change, simultaneously.
PinsChange(S) ==
  LET edges == Edge \cap {<<p, IF p \in level THEN "fall" ELSE "rise">> : p \in S}
  IN /\ level' = (level \ S) \cup (S \ level)
     /\ intr' = intr \cup edges
     /\ host' = {p \in Pins : IF p \in S /\ ~Watched(p) THEN p \in level' ELSE p \in host}
     /\ IF isr = "push" THEN Occurs("fast")
        ELSE OccursIf(\E p \in S : On(p) \cap intr \cap inte # {}, "glitch")
     /\ UNCHANGED <<inte, handlers, isrVars, queue, core0Vars>>
     /\ due' = WrittenOff([e \in Edge |->
                  IF e \in edges \cap enabled THEN due[e] + 1 ELSE due[e]])

\* An enabled edge is latched; no handler, no interrupt (irq_set_enabled()).
Interrupted == intr \cap inte # {} /\ handlers > 0

\* Mutants: only the highest pin is seen; both edges of a pin are taken for one.
ReadHighest(latched) == {e \in latched : \A f \in latched : f[1] <= e[1]}
ReadBoth(latched) == {e \in Edge : On(e[1]) \cap latched # {}}

\* "We can get away with doing a single register read."
Read(latched) == latched

\* The interrupt calls every attached handler in turn; each reads INTR.
HandlerRead ==
  /\ \/ isr = "idle" /\ Interrupted /\ left' = handlers
     \/ isr = "next" /\ left' = left
  /\ seen' = Read(intr)
  /\ isr' = "push"
  /\ UNCHANGED <<chipVars, queue, core0Vars, historyVars, troubles>>

\* Mutant: room is tested too late.
FullLate == Len(queue) > QueueCap

Full == Len(queue) = QueueCap

\* queue_try_add(), which drops the event if the queue is full; clear all bits;
\* return.
HandlerPush ==
  /\ isr = "push"
  /\ IF Full THEN Befalls("flood") /\ UNCHANGED queue
     ELSE queue' = Append(queue, seen) /\ UNCHANGED troubles
  /\ intr' = {}
  /\ left' = left - 1
  /\ isr' = IF left = 1 THEN "idle" ELSE "next"
  /\ seen' = {}
  /\ UNCHANGED <<level, inte, handlers, core0Vars, host>>
  /\ due' = WrittenOff(due)

Handler == HandlerRead \/ HandlerPush
-----------------------------------------------------------------------------
(***************************************************************************)
(* core0, which runs only while no interrupt is pending or served.          *)
(***************************************************************************)
At(label) == isr = "idle" /\ ~Interrupted /\ pc0 = label

Forget(edges) == [e \in Edge |-> IF e \in edges THEN 0 ELSE due[e]]

\* The edges that the system holds on to.
Held == intr \cup UNION {queue[i] : i \in DOMAIN queue}

\* write_enable_rising_edge_events() and write_enable_falling_edge_events():
\* the register, then the pins one by one.
WriteEnable(kind, pins) ==
  /\ At("idle")
  /\ enabled' = {e \in enabled : e[2] # kind} \cup (pins \X {kind})
  /\ due' = Forget(Edge \ enabled')
  /\ OccursIf(\E e \in enabled' \ enabled : On(e[1]) \cap Held # {}, "stale")
  /\ pc0' = kind /\ todo' = IF kind = "rise" THEN RisePins ELSE FallPins
  /\ UNCHANGED <<chipVars, isrVars, queue, host>>

\* gpio_set_irq_enabled() first acknowledges what it is about to change.
SetIrqEnabled(edges, on) ==
  /\ intr' = intr \ edges
  /\ inte' = IF on THEN inte \cup edges ELSE inte \ edges

\* The loops visit the pins in ascending order.
First == CHOOSE p \in todo : \A q \in todo : p <= q
Visited == todo' = todo \ {First}

EnablePin(kind) ==
  /\ At(kind)
  /\ LET p == First
         e == <<p, kind>>
     IN /\ SetIrqEnabled({e}, e \in enabled)
        /\ host' = IF Watched(p) THEN host
                   ELSE {q \in Pins : IF q = p THEN p \in level ELSE q \in host}
        /\ IF e \in enabled \ inte /\ \E f \in On(p) : Queued(f) > 0
           THEN Befalls("stale") ELSE UNCHANGED troubles
  /\ Visited
  /\ pc0' = IF todo' = {} THEN "idle" ELSE kind
  /\ UNCHANGED <<level, handlers, isrVars, queue, enabled>>
  /\ due' = WrittenOff(due)

\* Mutant: falling edges are filtered with the mask of the rising ones.
FilteredByRising(event) == {e \in event : <<e[1], "rise">> \in enabled}

\* "Filter for enabled pins."
Filtered(event) == event \cap enabled

\* One round of update_app_state()'s loop: RisingEdgeEvents is sent before
\* FallingEdgeEvents.
DrainEvent ==
  /\ At("idle") /\ queue # <<>>
  /\ queue' = Tail(queue)
  /\ LET edges == Filtered(Head(queue))
     IN /\ due' = [e \in Edge |-> IF e \in edges /\ due[e] > 0 THEN due[e] - 1 ELSE due[e]]
        /\ host' = (host \cup Rises(edges)) \ Falls(edges)
  /\ UNCHANGED <<chipVars, isrVars, core0Vars, troubles>>

\* The same while the device is muted: nothing is sent.
DrainMuted ==
  /\ At("idle") /\ queue # <<>>
  /\ Occurs("mute")
  /\ queue' = Tail(queue)
  /\ UNCHANGED <<chipVars, isrVars, core0Vars, host>>
  /\ due' = WrittenOff(due)

\* reset_app(), its part about edges: drain, disable pin by pin, attach.  The
\* enable registers keep their values.
ResetApp ==
  /\ At("idle") /\ Occurs("reset")
  /\ pc0' = "drain"
  /\ UNCHANGED <<chipVars, isrVars, queue, todo, enabled, historyVars>>

DrainQueue ==
  /\ At("drain")
  /\ queue' = <<>>
  /\ pc0' = "disable" /\ todo' = Pins
  /\ due' = Forget(Edge \ intr)
  /\ UNCHANGED <<chipVars, isrVars, enabled, host, troubles>>

DisablePin ==
  /\ At("disable")
  /\ SetIrqEnabled(On(First), FALSE)
  /\ Visited
  /\ pc0' = IF todo' = {} THEN "attach" ELSE "disable"
  /\ UNCHANGED <<level, handlers, isrVars, queue, enabled, host, troubles>>
  /\ due' = WrittenOff(due)

\* Mutant: the handler is not attached.
NotAttached == handlers

Attached == handlers + 1

\* irq_add_shared_handler() panics when its slots are used up.
AttachHandler ==
  /\ At("attach")
  /\ IF handlers < HandlerCap
     THEN handlers' = Attached /\ pc0' = "idle"
     ELSE pc0' = "panic" /\ UNCHANGED handlers
  /\ UNCHANGED <<level, intr, inte, isrVars, queue, todo, enabled, historyVars, troubles>>

\* What core0 does without being asked by the host.
Core0Loop ==
  \/ \E kind \in {"rise", "fall"} : EnablePin(kind)
  \/ DrainEvent \/ DrainMuted
  \/ DrainQueue \/ DisablePin \/ AttachHandler

Next ==
  \/ \E S \in SUBSET Pins \ {{}} : PinsChange(S)
  \/ Handler
  \/ \E pins \in SUBSET RisePins : WriteEnable("rise", pins)
  \/ \E pins \in SUBSET FallPins : WriteEnable("fall", pins)
  \/ ResetApp
  \/ Core0Loop

Spec == Init /\ [][Next]_vars

\* Interrupts are taken and leave core0 time to go on, and every round of its
\* loop calls update_app_state().
FairSpec ==
  /\ Spec
  /\ WF_vars(Handler) /\ WF_vars(Core0Loop)
  /\ SF_vars(DrainEvent \/ DrainMuted)
-----------------------------------------------------------------------------
(***************************************************************************)
(* Properties.                                                             *)
(***************************************************************************)
TypeOK ==
  /\ level \subseteq Pins /\ intr \subseteq Edge /\ inte \subseteq Edge
  /\ handlers \in 0 .. HandlerCap
  /\ isr \in {"idle", "push", "next"} /\ left \in 0 .. HandlerCap
  /\ seen \subseteq Edge
  /\ queue \in Seq(SUBSET Edge) /\ Len(queue) <= QueueCap
  /\ pc0 \in {"idle", "rise", "fall", "drain", "disable", "attach", "panic"}
  /\ todo \subseteq Pins /\ enabled \subseteq Edge
  /\ due \in [Edge -> Nat] /\ host \subseteq Pins
  /\ troubles \subseteq AllTroubles

\* What holds until one of these troubles occurs.
Without(some, holds) == troubles \cap some = {} => holds

\* Every edge the host asked for and was not told yet is on its way, through
\* latch, handler and queue, unless a pin changes twice before the handler
\* runs, or any pin between its read and its clear, or the queue overflows, or
\* the device is muted (cuttlefish_app.cpp:239-252, 261-264).
EdgesAreKept == Without(Losses, \A e \in inte : due[e] <= Copies(e))

\* No edge is reported twice, and none that came while its pin was disabled,
\* though INTR latches those too and the filter looks at the masks of the
\* moment it runs (cuttlefish_app.cpp:266-269).
NothingInvented ==
  [][Without({"stale"},
       DrainEvent => \A e \in Head(queue) \cap enabled : due[e] > 0)]_vars

\* None but a reset, from which the host starts anew.
Untroubled == troubles \subseteq {"reset"}

\* A host that follows the events of a pin, rising and falling, always ends up
\* with the pin's level: none is lost, doubled or out of order
\* (cuttlefish_app.cpp:261-280; "Input Capture", README.md:20-23).
HostKnowsLevels ==
  Untroubled /\ At("idle") /\ queue = <<>> =>
    \A p \in Pins : Watched(p) => (p \in host) = (p \in level)

\* When the pins come to rest, the host is told where.
HostLearnsLevels ==
  <>[][UNCHANGED level]_vars =>
    <>[](Untroubled => \A p \in Pins : Watched(p) => (p \in host) = (p \in level))
=============================================================================
