------------------------- MODULE EdgeCaptureProofs -------------------------
(***************************************************************************)
(* Theorems about EdgeCapture, for any pins, any capacity of the queue, any *)
(* number of handlers and all troubles in any number.                      *)
(***************************************************************************)
EXTENDS EdgeCapture, SequenceTheorems, FiniteSetTheorems, TLAPS

Events == Seq(SUBSET Edge)

\* How many events of q hold e.
Count(e, q) == Cardinality({i \in DOMAIN q : e \in q[i]})
-----------------------------------------------------------------------------
(***************************************************************************)
(* Counting in a queue.                                                    *)
(***************************************************************************)
LEMMA CountFinite ==
  ASSUME NEW q \in Events, NEW e
  PROVE  /\ IsFiniteSet({i \in DOMAIN q : e \in q[i]})
         /\ Count(e, q) \in Nat
<1>1. DOMAIN q = 1 .. Len(q) /\ Len(q) \in Nat
  BY LenProperties DEF Events
<1>2. IsFiniteSet(DOMAIN q)
  BY <1>1, FS_Interval
<1>3. {i \in DOMAIN q : e \in q[i]} \in SUBSET DOMAIN q
  OBVIOUS
<1>4. IsFiniteSet({i \in DOMAIN q : e \in q[i]})
  BY <1>2, <1>3, FS_Subset
<1> QED
  BY <1>4, FS_CardinalityType DEF Count

LEMMA CountNone ==
  ASSUME NEW q \in Events, NEW e, \A i \in DOMAIN q : e \notin q[i]
  PROVE  Count(e, q) = 0
<1>1. {i \in DOMAIN q : e \in q[i]} = {}
  OBVIOUS
<1> QED
  BY <1>1, FS_EmptySet DEF Count

LEMMA CountAppend ==
  ASSUME NEW q \in Events, NEW x \in SUBSET Edge, NEW e
  PROVE  Count(e, Append(q, x)) = Count(e, q) + (IF e \in x THEN 1 ELSE 0)
<1> DEFINE S == {i \in DOMAIN q : e \in q[i]}
           T == {i \in DOMAIN Append(q, x) : e \in Append(q, x)[i]}
           n == Len(q) + 1
<1>0. Count(e, q) = Cardinality(S) /\ Count(e, Append(q, x)) = Cardinality(T)
  BY Zenon DEF Count
<1>1. /\ Append(q, x) \in Seq(SUBSET Edge)
      /\ Len(Append(q, x)) = n
      /\ \A i \in 1 .. Len(q) : Append(q, x)[i] = q[i]
      /\ Append(q, x)[n] = x
  BY AppendProperties DEF Events
<1>2. /\ DOMAIN q = 1 .. Len(q) /\ Len(q) \in Nat
      /\ DOMAIN Append(q, x) = 1 .. n
  BY <1>1, LenProperties DEF Events
<1>3. IsFiniteSet(S) /\ Cardinality(S) \in Nat
  BY CountFinite DEF Count
<1>4. n \notin S
  BY <1>2
<1>5. CASE e \in x
  <2>1. T = S \cup {n}
    BY <1>1, <1>2, <1>5
  <2> QED
    <3>1. Cardinality(S \cup {n}) = Cardinality(S) + 1
      BY <1>3, <1>4, FS_AddElement
    <3> HIDE DEF S, T, n
    <3> QED
      BY <3>1, <2>1, <1>0, <1>5
<1>6. CASE e \notin x
  <2>1. T = S
    BY <1>1, <1>2, <1>6
  <2> QED
    <3> HIDE DEF S, T
    <3> QED
      BY <2>1, <1>0, <1>3, <1>6
<1> QED
  BY <1>5, <1>6

LEMMA CountTail ==
  ASSUME NEW q \in Events, q # <<>>, NEW e
  PROVE  /\ Head(q) \in SUBSET Edge /\ Tail(q) \in Events
         /\ Count(e, q) = Count(e, Tail(q)) + (IF e \in Head(q) THEN 1 ELSE 0)
<1> DEFINE S == {i \in DOMAIN q : e \in q[i]}
           T == {i \in DOMAIN Tail(q) : e \in Tail(q)[i]}
           f == [i \in T |-> i + 1]
<1>0. Count(e, q) = Cardinality(S) /\ Count(e, Tail(q)) = Cardinality(T)
  BY Zenon DEF Count
<1>1. /\ Head(q) \in SUBSET Edge /\ Tail(q) \in Seq(SUBSET Edge)
      /\ Len(Tail(q)) = Len(q) - 1
      /\ \A i \in 1 .. Len(Tail(q)) : Tail(q)[i] = q[i + 1]
  BY HeadTailProperties DEF Events
<1>2. /\ DOMAIN q = 1 .. Len(q) /\ Len(q) \in Nat
      /\ DOMAIN Tail(q) = 1 .. Len(q) - 1
      /\ Len(q) >= 1 /\ Head(q) = q[1]
  BY <1>1, LenProperties, EmptySeq DEF Events
<1>3. /\ IsFiniteSet(S) /\ Cardinality(S) \in Nat
      /\ IsFiniteSet(T) /\ Cardinality(T) \in Nat
  BY <1>1, CountFinite DEF Count, Events
<1>4. Cardinality(S \ {1}) = Cardinality(T)
  <2>1. f \in [T -> S \ {1}]
    BY <1>1, <1>2
  <2>2. f \in Injection(T, S \ {1})
    BY <2>1, <1>2 DEF Injection, IsInjective
  <2>3. \A j \in S \ {1} : \E i \in T : f[i] = j
    <3> TAKE j \in S \ {1}
    <3>1. j - 1 \in T /\ f[j - 1] = j
      BY <1>1, <1>2
    <3> QED
      BY <3>1
  <2>4. ExistsBijection(T, S \ {1})
    <3> HIDE DEF T, S, f
    <3> QED
      BY <2>1, <2>2, <2>3 DEF ExistsBijection, Bijection, Surjection
  <2> QED
    BY <2>4, <1>3, FS_Bijection
<1>5. 1 \in S <=> e \in Head(q)
  BY <1>2
<1>6. Cardinality(S \ {1}) = IF 1 \in S THEN Cardinality(S) - 1 ELSE Cardinality(S)
  BY <1>3, FS_RemoveElement
<1> HIDE DEF S, T
<1> QED
  BY <1>0, <1>1, <1>3, <1>4, <1>5, <1>6 DEF Events
-----------------------------------------------------------------------------
(***************************************************************************)
(* Types.  An interrupt that is being served has a handler left to call.    *)
(***************************************************************************)
TypeInv ==
  /\ TypeOK
  /\ isr # "idle" => left >= 1

\* Writing off lowers a count to the places that hold the edge, never below.
LEMMA WrittenOffType ==
  ASSUME queue' \in Events, NEW d \in [Edge -> Nat]
  PROVE  /\ WrittenOff(d) \in [Edge -> Nat]
         /\ \A e \in Edge :
              /\ Copies(e)' \in Nat
              /\ WrittenOff(d)[e] <= d[e]
              /\ troubles' \cap Losses # {} \/ e \notin inte =>
                   WrittenOff(d)[e] <= Copies(e)'
              /\ Copies(e)' <= d[e] => Copies(e)' <= WrittenOff(d)[e]
<1>1. ASSUME NEW e \in Edge PROVE Copies(e)' \in Nat
  <2>1. Queued(e)' \in Nat
    BY CountFinite DEF Queued, Count
  <2> QED
    BY <2>1 DEF Copies
<1>2. ASSUME NEW e \in Edge
      PROVE  WrittenOff(d)[e] = d[e] \/ WrittenOff(d)[e] = Copies(e)'
  BY DEF WrittenOff
<1>3. WrittenOff(d) \in [Edge -> Nat]
  BY <1>1 DEF WrittenOff
<1>4. ASSUME NEW e \in Edge
      PROVE  /\ WrittenOff(d)[e] <= d[e]
             /\ troubles' \cap Losses # {} \/ e \notin inte =>
                  WrittenOff(d)[e] <= Copies(e)'
             /\ Copies(e)' <= d[e] => Copies(e)' <= WrittenOff(d)[e]
  <2> DEFINE c == Copies(e)'
  <2>1. c \in Nat /\ d[e] \in Nat
    BY <1>1
  <2>2. WrittenOff(d)[e] =
          IF (troubles' \cap Losses # {} \/ e \notin inte) /\ c < d[e] THEN c ELSE d[e]
    BY DEF WrittenOff
  <2> HIDE DEF c
  <2>3. /\ WrittenOff(d)[e] <= d[e]
        /\ troubles' \cap Losses # {} \/ e \notin inte => WrittenOff(d)[e] <= c
        /\ c <= d[e] => c <= WrittenOff(d)[e]
    BY <2>1, <2>2
  <2> QED
    BY <2>3 DEF c
<1> QED
  BY <1>1, <1>3, <1>4

LEMMA TypeInit == Init => TypeInv
BY CapacityAssumption DEF Init, TypeInv, TypeOK

\* What the handler and the pins do.
LEMMA TypeHandler ==
  ASSUME TypeInv, Handler \/ \E S \in SUBSET Pins \ {{}} : PinsChange(S)
  PROVE  TypeInv'
<1> USE DEF TypeInv, TypeOK, isrVars, chipVars, historyVars, core0Vars
<1>0. queue \in Events /\ Len(queue) \in Nat
  BY LenProperties DEF Events
<1>1. ASSUME NEW S \in SUBSET Pins, PinsChange(S)
      PROVE  TypeInv'
  <2>1. troubles' \subseteq AllTroubles
    BY <1>1, TroublesAssumption DEF PinsChange, OccursIf, Occurs, Befalls
  <2>2. level' \subseteq Pins /\ intr' \subseteq Edge /\ host' \subseteq Pins
    BY <1>1 DEF PinsChange
  <2>3. due' \in [Edge -> Nat]
    <3> DEFINE edges == Edge \cap {<<p, IF p \in level THEN "fall" ELSE "rise">> : p \in S}
               d == [e \in Edge |-> IF e \in edges \cap enabled THEN due[e] + 1 ELSE due[e]]
    <3>1. d \in [Edge -> Nat]
      OBVIOUS
    <3>2. due' = WrittenOff(d)
      BY <1>1 DEF PinsChange
    <3>3. queue' \in Events
      BY <1>0, <1>1 DEF PinsChange
    <3> QED
      BY <3>1, <3>2, <3>3, WrittenOffType
  <2> QED
    BY <1>1, <2>1, <2>2, <2>3 DEF PinsChange
<1>2. CASE HandlerRead
  BY <1>2, CapacityAssumption DEF HandlerRead, Interrupted, Read
<1>3. CASE HandlerPush
  <2>1. troubles' \subseteq AllTroubles
    BY <1>3, Zenon DEF HandlerPush, AllTroubles, Befalls
  <2>2. queue' \in Events /\ Len(queue') <= QueueCap
    BY <1>0, <1>3, AppendProperties, CapacityAssumption DEF HandlerPush, Full, Events
  <2>3. due' \in [Edge -> Nat]
    BY <1>3, <2>2, WrittenOffType DEF HandlerPush
  <2>4. /\ left' \in 0 .. HandlerCap
        /\ isr' \in {"idle", "push", "next"} /\ (isr' # "idle" => left' >= 1)
    BY <1>3, CapacityAssumption DEF HandlerPush
  <2> QED
    BY <1>3, <2>1, <2>2, <2>3, <2>4 DEF HandlerPush, Events
<1> QED
  BY <1>1, <1>2, <1>3 DEF Handler

\* What core0 does, on its own or for the host.
LEMMA TypeCore0 ==
  ASSUME TypeInv,
         \/ \E pins \in SUBSET RisePins : WriteEnable("rise", pins)
         \/ \E pins \in SUBSET FallPins : WriteEnable("fall", pins)
         \/ ResetApp \/ Core0Loop
  PROVE  TypeInv'
<1> USE DEF TypeInv, TypeOK, isrVars, chipVars, historyVars, core0Vars
<1>0. /\ queue \in Events /\ due \in [Edge -> Nat]
      /\ queue # <<>> => /\ Head(queue) \in SUBSET Edge /\ Tail(queue) \in Events
                         /\ Len(Tail(queue)) <= QueueCap
  BY HeadTailProperties, LenProperties, CapacityAssumption DEF Events
<1>1. ASSUME NEW kind \in {"rise", "fall"}, NEW pins, WriteEnable(kind, pins),
             pins \subseteq IF kind = "rise" THEN RisePins ELSE FallPins
      PROVE  TypeInv'
  <2>1. troubles' \subseteq AllTroubles
    BY <1>1, TroublesAssumption DEF WriteEnable, OccursIf, Occurs, Befalls
  <2>2. enabled' \subseteq Edge
    BY <1>1 DEF WriteEnable, Edge
  <2>3. todo' \subseteq Pins /\ pc0' \in {"rise", "fall"}
    BY <1>1, PinsAssumption DEF WriteEnable
  <2>4. due' \in [Edge -> Nat]
    BY <1>0, <1>1 DEF WriteEnable, Forget
  <2> QED
    BY <1>1, <2>1, <2>2, <2>3, <2>4 DEF WriteEnable
<1>2. ASSUME NEW kind \in {"rise", "fall"}, EnablePin(kind)
      PROVE  TypeInv'
  <2>1. troubles' \subseteq AllTroubles
    BY <1>2, Zenon DEF EnablePin, AllTroubles, Befalls
  <2>2. intr' \subseteq Edge /\ inte' \subseteq Edge
    BY <1>2 DEF EnablePin, SetIrqEnabled
  <2>3. due' \in [Edge -> Nat]
    BY <1>0, <1>2, WrittenOffType DEF EnablePin
  <2>4. host' \subseteq Pins
    BY <1>2 DEF EnablePin
  <2> QED
    BY <1>2, <2>1, <2>2, <2>3, <2>4 DEF EnablePin, Visited
<1>3. CASE DrainEvent
  <2>1. due' \in [Edge -> Nat]
    BY <1>0, <1>3 DEF DrainEvent
  <2>2. host' \subseteq Pins
    BY <1>3 DEF DrainEvent, Rises
  <2> QED
    BY <1>0, <1>3, <2>1, <2>2 DEF DrainEvent, Events
<1>4. CASE DrainMuted
  <2>1. troubles' \subseteq AllTroubles
    BY <1>4, TroublesAssumption DEF DrainMuted, Occurs, Befalls
  <2>2. due' \in [Edge -> Nat]
    BY <1>0, <1>4, WrittenOffType DEF DrainMuted
  <2> QED
    BY <1>0, <1>4, <2>1, <2>2 DEF DrainMuted, Events
<1>5. CASE ResetApp
  <2>1. troubles' \subseteq AllTroubles
    BY <1>5, TroublesAssumption DEF ResetApp, Occurs, Befalls
  <2> QED
    BY <1>5, <2>1 DEF ResetApp
<1>6. CASE DrainQueue
  <2>1. due' \in [Edge -> Nat]
    BY <1>0, <1>6 DEF DrainQueue, Forget
  <2>2. queue' \in Events /\ Len(queue') <= QueueCap
    BY <1>6, EmptySeq, CapacityAssumption DEF DrainQueue, Events
  <2> QED
    BY <1>6, <2>1, <2>2 DEF DrainQueue, Events
<1>7. CASE DisablePin
  <2>1. intr' \subseteq Edge /\ inte' \subseteq Edge
    BY <1>7 DEF DisablePin, SetIrqEnabled
  <2>2. due' \in [Edge -> Nat]
    BY <1>0, <1>7, WrittenOffType DEF DisablePin
  <2> QED
    BY <1>7, <2>1, <2>2 DEF DisablePin, Visited
<1>8. CASE AttachHandler
  BY <1>8, CapacityAssumption DEF AttachHandler, Attached
<1> QED
  BY <1>1, <1>2, <1>3, <1>4, <1>5, <1>6, <1>7, <1>8, Zenon DEF Core0Loop

LEMMA TypeStep == TypeInv /\ [Next]_vars => TypeInv'
<1> SUFFICES ASSUME TypeInv, [Next]_vars PROVE TypeInv'
  OBVIOUS
<1>1. CASE Next
  BY <1>1, TypeHandler, TypeCore0, Zenon DEF Next
<1>2. CASE UNCHANGED vars
  BY <1>2 DEF vars, chipVars, isrVars, core0Vars, historyVars, TypeInv, TypeOK
<1> QED
  BY <1>1, <1>2

\* Every variable keeps its type: the queue never holds more than it may, an
\* interrupt never calls more handlers than are attached.
THEOREM CaptureTypes == Spec => []TypeOK
<1>1. Spec => []TypeInv
  BY TypeInit, TypeStep, PTL DEF Spec
<1>2. TypeInv => TypeOK
  BY DEF TypeInv
<1> QED
  BY <1>1, <1>2, PTL
-----------------------------------------------------------------------------
(***************************************************************************)
(* Edges on their way.  Both directions of the count need that only edges   *)
(* the host asked for are due, and that none interrupts before a handler is *)
(* attached: what acknowledges an edge that interrupts would lose it.       *)
(***************************************************************************)
OnlyAskedAreDue == \A e \in Edge \ enabled : due[e] = 0

NoInterruptUnhandled ==
  handlers = 0 => inte = {} /\ pc0 \in {"drain", "disable", "attach", "panic"}

\* No more edges are on their way than are due.
NoneTooMany == Without({"stale"}, \A e \in enabled : Copies(e) <= due[e])

CountInv ==
  /\ OnlyAskedAreDue /\ NoInterruptUnhandled
  /\ EdgesAreKept /\ NoneTooMany

LEMMA CountInit == Init => CountInv
<1> SUFFICES ASSUME Init PROVE CountInv
  OBVIOUS
<1>1. OnlyAskedAreDue /\ NoInterruptUnhandled
  BY DEF Init, OnlyAskedAreDue, NoInterruptUnhandled
<1>2. EdgesAreKept /\ NoneTooMany
  BY DEF Init, EdgesAreKept, NoneTooMany, Without
<1> QED
  BY <1>1, <1>2 DEF CountInv

LEMMA AskedStep ==
  ASSUME TypeInv, TypeInv', OnlyAskedAreDue, [Next]_vars
  PROVE  OnlyAskedAreDue'
<1> USE DEF OnlyAskedAreDue
<1>0. queue' \in Events /\ due \in [Edge -> Nat] /\ due' \in [Edge -> Nat]
  BY DEF TypeInv, TypeOK, Events
<1>a. ASSUME NEW d \in [Edge -> Nat], \A e \in Edge \ enabled : d[e] = 0,
             due' = WrittenOff(d), enabled' = enabled
      PROVE  OnlyAskedAreDue'
  BY <1>0, <1>a, WrittenOffType
<1>1. ASSUME NEW S, PinsChange(S) PROVE OnlyAskedAreDue'
  <2> DEFINE edges == Edge \cap {<<p, IF p \in level THEN "fall" ELSE "rise">> : p \in S}
             d == [e \in Edge |-> IF e \in edges \cap enabled THEN due[e] + 1 ELSE due[e]]
  <2>1. d \in [Edge -> Nat] /\ \A e \in Edge \ enabled : d[e] = 0
    BY <1>0
  <2>2. due' = WrittenOff(d) /\ enabled' = enabled
    BY <1>1 DEF PinsChange, core0Vars
  <2> QED
    BY <1>a, <2>1, <2>2
<1>2. CASE Handler
  BY <1>a, <1>0, <1>2 DEF Handler, HandlerRead, HandlerPush, core0Vars, historyVars
<1>3. ASSUME NEW kind, NEW pins, WriteEnable(kind, pins) PROVE OnlyAskedAreDue'
  BY <1>3 DEF WriteEnable, Forget
<1>4. ASSUME NEW kind, EnablePin(kind) PROVE OnlyAskedAreDue'
  BY <1>a, <1>0, <1>4 DEF EnablePin
<1>5. CASE DrainEvent
  BY <1>0, <1>5 DEF DrainEvent, core0Vars
<1>6. CASE DrainMuted
  BY <1>a, <1>0, <1>6 DEF DrainMuted, core0Vars
<1>7. CASE ResetApp \/ AttachHandler
  BY <1>7 DEF ResetApp, AttachHandler, historyVars
<1>8. CASE DrainQueue
  BY <1>0, <1>8 DEF DrainQueue, Forget
<1>9. CASE DisablePin
  BY <1>a, <1>0, <1>9 DEF DisablePin
<1>10. CASE UNCHANGED vars
  BY <1>10 DEF vars, core0Vars, historyVars
<1> QED
  BY <1>1, <1>2, <1>3, <1>4, <1>5, <1>6, <1>7, <1>8, <1>9, <1>10, Zenon
     DEF Next, Core0Loop

LEMMA HandledStep ==
  ASSUME TypeInv, NoInterruptUnhandled, [Next]_vars
  PROVE  NoInterruptUnhandled'
<1> USE DEF NoInterruptUnhandled, chipVars, core0Vars
<1>1. ASSUME NEW S, PinsChange(S) PROVE NoInterruptUnhandled'
  BY <1>1 DEF PinsChange
<1>2. CASE Handler
  BY <1>2 DEF Handler, HandlerRead, HandlerPush
<1>3. ASSUME NEW kind, NEW pins, WriteEnable(kind, pins) PROVE NoInterruptUnhandled'
  BY <1>3 DEF WriteEnable, At
<1>4. ASSUME NEW kind \in {"rise", "fall"}, EnablePin(kind) PROVE NoInterruptUnhandled'
  BY <1>4 DEF EnablePin, At
<1>5. CASE DrainEvent \/ DrainMuted
  BY <1>5 DEF DrainEvent, DrainMuted
<1>6. CASE ResetApp \/ DrainQueue
  BY <1>6 DEF ResetApp, DrainQueue
<1>7. CASE DisablePin
  BY <1>7 DEF DisablePin, SetIrqEnabled
<1>8. CASE AttachHandler
  BY <1>8, CapacityAssumption DEF AttachHandler, Attached, TypeInv, TypeOK
<1>9. CASE UNCHANGED vars
  BY <1>9 DEF vars
<1> QED
  BY <1>1, <1>2, <1>3, <1>4, <1>5, <1>6, <1>7, <1>8, <1>9, Zenon DEF Next, Core0Loop

\* The two bounds follow when an edge becomes due where it is latched, and is
\* no longer due where it leaves the queue; what is written off keeps both.
LEMMA BoundsByCounting ==
  ASSUME queue' \in Events, CountInv, NEW d \in [Edge -> Nat], due' = WrittenOff(d),
         troubles \subseteq troubles', enabled' = enabled,
         \A e \in enabled :
            Copies(e) <= due[e] => Copies(e)' <= d[e],
         \A e \in inte' :
            e \in inte /\ due[e] <= Copies(e) /\ troubles' \cap Losses = {} => d[e] <= Copies(e)',
         inte' \subseteq Edge, enabled \subseteq Edge
  PROVE  EdgesAreKept' /\ NoneTooMany'
<1> USE DEF CountInv, EdgesAreKept, NoneTooMany, Without
<1>1. ASSUME NEW e \in Edge
      PROVE  /\ Copies(e)' \in Nat /\ d[e] \in Nat /\ due'[e] \in Nat
             /\ due'[e] <= d[e]
             /\ e \notin inte => due'[e] <= Copies(e)'
             /\ Copies(e)' <= d[e] => Copies(e)' <= due'[e]
  BY WrittenOffType
<1>2. EdgesAreKept'
  <2> SUFFICES ASSUME troubles' \cap Losses = {}, NEW e \in inte'
               PROVE  due'[e] <= Copies(e)'
    OBVIOUS
  <2>1. CASE e \notin inte
    BY <1>1, <2>1
  <2>2. CASE e \in inte
    <3>1. due[e] <= Copies(e)
      BY <2>2
    <3>2. d[e] <= Copies(e)'
      BY <2>2, <3>1
    <3> QED
      BY <1>1, <3>2
  <2> QED
    BY <2>1, <2>2
<1>3. NoneTooMany'
  <2> SUFFICES ASSUME "stale" \notin troubles', NEW e \in enabled
               PROVE  Copies(e)' <= due'[e]
    OBVIOUS
  <2>1. Copies(e) <= due[e]
    OBVIOUS
  <2>2. Copies(e)' <= d[e]
    BY <2>1
  <2> QED
    BY <1>1, <2>2
<1> QED
  BY <1>2, <1>3

LEMMA CountPins ==
  ASSUME TypeInv, TypeInv', CountInv, NEW S, PinsChange(S)
  PROVE  EdgesAreKept' /\ NoneTooMany'
<1> DEFINE edges == Edge \cap {<<p, IF p \in level THEN "fall" ELSE "rise">> : p \in S}
           d == [e \in Edge |-> IF e \in edges \cap enabled THEN due[e] + 1 ELSE due[e]]
<1>1. /\ queue \in Events /\ queue' = queue /\ due \in [Edge -> Nat]
      /\ seen' = seen /\ isr' = isr /\ inte' = inte /\ enabled' = enabled
      /\ intr' = intr \cup edges /\ due' = WrittenOff(d)
      /\ inte \subseteq Edge /\ enabled \subseteq Edge
  BY DEF TypeInv, TypeOK, Events, PinsChange, isrVars, core0Vars
<1>2. troubles \subseteq troubles'
  BY DEF PinsChange, OccursIf, Occurs, Befalls
<1>3. d \in [Edge -> Nat]
  BY <1>1
<1>4. ASSUME NEW e \in Edge
      PROVE  /\ Count(e, queue) \in Nat
             /\ Copies(e) = Count(e, queue) + (IF e \in (IF isr = "push" THEN seen ELSE intr) THEN 1 ELSE 0)
             /\ Copies(e)' = Count(e, queue) + (IF e \in (IF isr = "push" THEN seen ELSE intr') THEN 1 ELSE 0)
  BY <1>1, CountFinite DEF Copies, Queued, Count
<1>5. ASSUME NEW e \in enabled, Copies(e) <= due[e]
      PROVE  Copies(e)' <= d[e]
  <2> HIDE DEF edges
  <2> QED
    BY <1>1, <1>4, <1>5
<1>6. ASSUME NEW e \in inte, due[e] <= Copies(e), troubles' \cap Losses = {}
      PROVE  d[e] <= Copies(e)'
  <2>1. isr # "push"
    BY <1>6 DEF PinsChange, Occurs, Befalls, Losses
  <2>2. \A p \in S : On(p) \cap intr \cap inte = {}
    BY <1>6, <2>1 DEF PinsChange, OccursIf, Occurs, Befalls, Losses
  <2>3. e \in edges => e \notin intr
    BY <1>1, <1>6, <2>2 DEF On
  <2> HIDE DEF edges
  <2> QED
    BY <1>1, <1>4, <1>6, <2>1, <2>3
<1> QED
  BY <1>1, <1>2, <1>3, <1>5, <1>6, BoundsByCounting

\* Copies, before and after a step.
LEMMA CopiesBySum ==
  ASSUME queue \in Events, queue' \in Events, NEW e
  PROVE  /\ Count(e, queue) \in Nat /\ Count(e, queue') \in Nat
         /\ Copies(e) = Count(e, queue) +
              (IF e \in (IF isr = "push" THEN seen ELSE intr) THEN 1 ELSE 0)
         /\ Copies(e)' = Count(e, queue') +
              (IF e \in (IF isr' = "push" THEN seen' ELSE intr') THEN 1 ELSE 0)
BY CountFinite DEF Copies, Queued, Count

LEMMA CountHandler ==
  ASSUME TypeInv, TypeInv', CountInv, Handler
  PROVE  EdgesAreKept' /\ NoneTooMany'
<1>0. /\ queue \in Events /\ queue' \in Events /\ due \in [Edge -> Nat]
      /\ inte \subseteq Edge /\ enabled \subseteq Edge /\ seen \in SUBSET Edge
  BY DEF TypeInv, TypeOK, Events
<1>1. CASE HandlerRead
  <2>1. /\ isr # "push" /\ isr' = "push" /\ seen' = intr /\ queue' = queue
        /\ UNCHANGED <<inte, enabled, due, troubles>>
    BY <1>1 DEF HandlerRead, Read, chipVars, core0Vars, historyVars
  <2>2. \A e \in Edge : Copies(e)' = Copies(e)
    BY <1>0, <2>1, CopiesBySum
  <2> QED
    BY <1>0, <2>1, <2>2 DEF CountInv, EdgesAreKept, NoneTooMany, Without
<1>2. CASE HandlerPush
  <2>1. /\ isr = "push" /\ isr' # "push" /\ intr' = {}
        /\ UNCHANGED <<inte, enabled>> /\ due' = WrittenOff(due)
        /\ troubles \subseteq troubles'
        /\ \/ "flood" \in troubles' /\ queue' = queue
           \/ queue' = Append(queue, seen)
    BY <1>2 DEF HandlerPush, Befalls, core0Vars
  <2>2. ASSUME NEW e \in Edge
        PROVE  /\ Copies(e)' \in Nat /\ Copies(e) \in Nat
               /\ Copies(e)' <= Copies(e)
               /\ troubles' \cap Losses = {} => Copies(e)' = Copies(e)
    <3>1. Copies(e) = Count(e, queue) + (IF e \in seen THEN 1 ELSE 0)
      BY <1>0, <2>1, CopiesBySum
    <3>2. Copies(e)' = Count(e, queue')
      BY <1>0, <2>1, CopiesBySum
    <3>3. Count(e, queue) \in Nat /\ Count(e, queue') \in Nat
      BY <1>0, CopiesBySum
    <3>4. CASE "flood" \in troubles' /\ queue' = queue
      BY <3>1, <3>2, <3>3, <3>4 DEF Losses
    <3>5. CASE queue' = Append(queue, seen)
      <4>1. Copies(e)' = Copies(e)
        BY <1>0, <3>1, <3>2, <3>5, CountAppend
      <4> QED
        BY <4>1, <3>2, <3>3
    <3> QED
      BY <2>1, <3>4, <3>5
  <2>3. \A e \in enabled : Copies(e) <= due[e] => Copies(e)' <= due[e]
    BY <1>0, <2>2
  <2>4. \A e \in inte : due[e] <= Copies(e) /\ troubles' \cap Losses = {} => due[e] <= Copies(e)'
    BY <1>0, <2>2
  <2> QED
    BY <1>0, <2>1, <2>3, <2>4, BoundsByCounting
<1> QED
  BY <1>1, <1>2 DEF Handler

LEMMA CountEnable ==
  ASSUME TypeInv, TypeInv', CountInv, NEW kind \in {"rise", "fall"},
         \/ EnablePin(kind)
         \/ \E pins : WriteEnable(kind, pins)
  PROVE  EdgesAreKept' /\ NoneTooMany'
<1>0. /\ queue \in Events /\ queue' \in Events /\ due \in [Edge -> Nat]
      /\ inte \subseteq Edge /\ enabled \subseteq Edge /\ enabled' \subseteq Edge
      /\ inte' \subseteq Edge
  BY DEF TypeInv, TypeOK, Events
<1>1. CASE EnablePin(kind)
  <2> DEFINE e0 == <<First, kind>>
  <2>1. /\ isr = "idle" /\ isr' = "idle" /\ queue' = queue /\ enabled' = enabled
        /\ due' = WrittenOff(due) /\ troubles \subseteq troubles'
        /\ intr' = intr \ {e0}
        /\ inte' = inte \cup {e0} \/ inte' = inte \ {e0}
    BY <1>1 DEF EnablePin, At, isrVars, Befalls, SetIrqEnabled
  <2>2. intr \cap inte = {}
    BY <1>1 DEF EnablePin, At, Interrupted, CountInv, NoInterruptUnhandled, TypeInv, TypeOK
  <2> HIDE DEF e0
  <2>3. ASSUME NEW e \in Edge
        PROVE  /\ Copies(e)' \in Nat /\ Copies(e) \in Nat
               /\ Copies(e)' <= Copies(e)
               /\ e \in inte => Copies(e)' = Copies(e)
    <3>1. Copies(e) = Count(e, queue) + (IF e \in intr THEN 1 ELSE 0)
      BY <1>0, <2>1, CopiesBySum
    <3>2. Copies(e)' = Count(e, queue) + (IF e \in intr \ {e0} THEN 1 ELSE 0)
      BY <1>0, <2>1, CopiesBySum
    <3>3. Count(e, queue) \in Nat
      BY <1>0, CopiesBySum
    <3> QED
      BY <3>1, <3>2, <3>3, <2>2
  <2>4. \A e \in enabled : Copies(e) <= due[e] => Copies(e)' <= due[e]
    BY <1>0, <2>3
  <2>5. \A e \in inte' : e \in inte /\ due[e] <= Copies(e) /\ troubles' \cap Losses = {}
                           => due[e] <= Copies(e)'
    BY <1>0, <2>3
  <2> QED
    BY <1>0, <2>1, <2>4, <2>5, BoundsByCounting
<1>2. ASSUME NEW pins, WriteEnable(kind, pins)
      PROVE  EdgesAreKept' /\ NoneTooMany'
  <2>1. /\ isr = "idle" /\ isr' = "idle" /\ queue' = queue
        /\ UNCHANGED <<intr, inte>> /\ due' = Forget(Edge \ enabled')
        /\ troubles \subseteq troubles'
    BY <1>2 DEF WriteEnable, At, isrVars, chipVars, OccursIf, Occurs, Befalls
  <2>2. ASSUME NEW e \in Edge
        PROVE  /\ Copies(e)' = Copies(e) /\ Copies(e) \in Nat
               /\ Copies(e) = Count(e, queue) + (IF e \in intr THEN 1 ELSE 0)
               /\ due'[e] = IF e \in enabled' THEN due[e] ELSE 0
    BY <1>0, <2>1, CopiesBySum DEF Forget
  <2>3. EdgesAreKept'
    <3> SUFFICES ASSUME troubles' \cap Losses = {}, NEW e \in inte
                 PROVE  due'[e] <= Copies(e)'
      BY <2>1 DEF EdgesAreKept, Without
    <3>1. due[e] <= Copies(e)
      BY <2>1 DEF CountInv, EdgesAreKept, Without
    <3> QED
      BY <1>0, <2>2, <3>1
  <2>4. NoneTooMany'
    <3> SUFFICES ASSUME "stale" \notin troubles', NEW e \in enabled'
                 PROVE  Copies(e)' <= due'[e]
      BY DEF NoneTooMany, Without
    <3>1. CASE e \in enabled
      <4>1. Copies(e) <= due[e]
        BY <2>1, <3>1 DEF CountInv, NoneTooMany, Without
      <4> QED
        BY <1>0, <2>2, <4>1
    <3>2. CASE e \notin enabled
      <4>1. On(e[1]) \cap Held = {}
        BY <1>2, <3>2 DEF WriteEnable, OccursIf, Occurs, Befalls
      <4>2. e \notin Held
        BY <1>0, <4>1 DEF On
      <4>3. Count(e, queue) = 0 /\ e \notin intr
        BY <1>0, <4>2, CountNone DEF Held
      <4>4. Copies(e)' = 0
        BY <1>0, <2>2, <4>3
      <4>5. due'[e] \in Nat
        BY <1>0, <2>2
      <4> QED
        BY <4>4, <4>5
    <3> QED
      BY <3>1, <3>2
  <2> QED
    BY <2>3, <2>4
<1> QED
  BY <1>1, <1>2

LEMMA CountDrain ==
  ASSUME TypeInv, TypeInv', CountInv, DrainEvent \/ DrainMuted \/ DrainQueue
  PROVE  EdgesAreKept' /\ NoneTooMany'
<1>0. /\ queue \in Events /\ queue' \in Events /\ due \in [Edge -> Nat]
      /\ inte \subseteq Edge /\ enabled \subseteq Edge
  BY DEF TypeInv, TypeOK, Events
<1>1. /\ isr = "idle" /\ isr' = "idle" /\ UNCHANGED <<intr, inte, enabled>>
      /\ troubles \subseteq troubles' /\ intr \cap inte = {}
  BY DEF DrainEvent, DrainMuted, DrainQueue, At, Interrupted, Occurs, Befalls,
         isrVars, chipVars, core0Vars, CountInv, NoInterruptUnhandled, TypeInv, TypeOK
<1>2. ASSUME NEW e \in Edge
      PROVE  /\ Copies(e) = Count(e, queue) + (IF e \in intr THEN 1 ELSE 0)
             /\ Copies(e)' = Count(e, queue') + (IF e \in intr THEN 1 ELSE 0)
             /\ Count(e, queue) \in Nat /\ Count(e, queue') \in Nat
             /\ Copies(e) \in Nat /\ Copies(e)' \in Nat
  BY <1>0, <1>1, CopiesBySum
<1>3. ASSUME NEW e \in Edge, queue # <<>>, queue' = Tail(queue)
      PROVE  Copies(e) = Copies(e)' + (IF e \in Head(queue) THEN 1 ELSE 0)
  BY <1>0, <1>2, <1>3, CountTail
<1>4. CASE DrainEvent
  <2>1. /\ queue # <<>> /\ queue' = Tail(queue) /\ UNCHANGED troubles
        /\ due' = [e \in Edge |-> IF e \in Head(queue) \cap enabled /\ due[e] > 0
                                  THEN due[e] - 1 ELSE due[e]]
    BY <1>4 DEF DrainEvent, Filtered
  <2>2. EdgesAreKept'
    <3> SUFFICES ASSUME troubles \cap Losses = {}, NEW e \in inte
                 PROVE  due'[e] <= Copies(e)'
      BY <1>1, <2>1 DEF EdgesAreKept, Without
    <3>1. due[e] <= Copies(e)
      BY DEF CountInv, EdgesAreKept, Without
    <3>2. e \notin enabled => due[e] = 0
      BY <1>0 DEF CountInv, OnlyAskedAreDue
    <3> QED
      BY <1>0, <1>2, <1>3, <2>1, <3>1, <3>2
  <2>3. NoneTooMany'
    <3> SUFFICES ASSUME "stale" \notin troubles, NEW e \in enabled
                 PROVE  Copies(e)' <= due'[e]
      BY <1>1, <2>1 DEF NoneTooMany, Without
    <3>1. Copies(e) <= due[e]
      BY DEF CountInv, NoneTooMany, Without
    <3> QED
      BY <1>0, <1>2, <1>3, <2>1, <3>1
  <2> QED
    BY <2>2, <2>3
<1>5. CASE DrainMuted
  <2>1. /\ queue # <<>> /\ queue' = Tail(queue) /\ due' = WrittenOff(due)
        /\ troubles' \cap Losses # {}
    BY <1>5 DEF DrainMuted, Occurs, Befalls, Losses
  <2>2. \A e \in enabled : Copies(e) <= due[e] => Copies(e)' <= due[e]
    BY <1>0, <1>2, <1>3, <2>1
  <2> QED
    BY <1>0, <1>1, <2>1, <2>2, BoundsByCounting
<1>6. CASE DrainQueue
  <2>1. /\ queue' = <<>> /\ UNCHANGED troubles
        /\ due' = [e \in Edge |-> IF e \in Edge \ intr THEN 0 ELSE due[e]]
    BY <1>6 DEF DrainQueue, Forget
  <2>2. ASSUME NEW e \in Edge PROVE Copies(e)' = IF e \in intr THEN 1 ELSE 0
    <3>1. Count(e, queue') = 0
      BY <1>0, <2>1, CountNone
    <3> QED
      BY <3>1, <1>2
  <2>3. EdgesAreKept'
    BY <1>0, <1>1, <2>1, <2>2 DEF EdgesAreKept, Without
  <2>4. NoneTooMany'
    <3> SUFFICES ASSUME "stale" \notin troubles, NEW e \in enabled
                 PROVE  Copies(e)' <= due'[e]
      BY <1>1, <2>1 DEF NoneTooMany, Without
    <3>1. Copies(e) <= due[e]
      BY DEF CountInv, NoneTooMany, Without
    <3> QED
      BY <1>0, <1>2, <2>1, <2>2, <3>1
  <2> QED
    BY <2>3, <2>4
<1> QED
  BY <1>4, <1>5, <1>6

LEMMA CountDisable ==
  ASSUME TypeInv, TypeInv', CountInv, DisablePin
  PROVE  EdgesAreKept' /\ NoneTooMany'
<1>0. /\ queue \in Events /\ queue' \in Events /\ due \in [Edge -> Nat]
      /\ inte \subseteq Edge /\ enabled \subseteq Edge /\ inte' \subseteq Edge
  BY DEF TypeInv, TypeOK, Events
<1>1. /\ isr = "idle" /\ isr' = "idle" /\ queue' = queue
      /\ UNCHANGED <<enabled, troubles>> /\ due' = WrittenOff(due)
      /\ intr' = intr \ On(First) /\ inte' = inte \ On(First)
  BY DEF DisablePin, At, isrVars, SetIrqEnabled
<1>2. ASSUME NEW e \in Edge
      PROVE  /\ Copies(e) \in Nat /\ Copies(e)' \in Nat
             /\ Copies(e)' <= Copies(e)
             /\ e \in inte' => Copies(e)' = Copies(e)
  <2>1. Copies(e) = Count(e, queue) + (IF e \in intr THEN 1 ELSE 0)
    BY <1>0, <1>1, CopiesBySum
  <2>2. Copies(e)' = Count(e, queue) + (IF e \in intr \ On(First) THEN 1 ELSE 0)
    BY <1>0, <1>1, CopiesBySum
  <2>3. Count(e, queue) \in Nat
    BY <1>0, CopiesBySum
  <2> QED
    BY <2>1, <2>2, <2>3, <1>1
<1>3. \A e \in enabled : Copies(e) <= due[e] => Copies(e)' <= due[e]
  BY <1>0, <1>2
<1>4. \A e \in inte' : e \in inte /\ due[e] <= Copies(e) /\ troubles' \cap Losses = {}
                         => due[e] <= Copies(e)'
  BY <1>0, <1>2
<1> QED
  BY <1>0, <1>1, <1>3, <1>4, BoundsByCounting

LEMMA CountStep == TypeInv /\ TypeInv' /\ CountInv /\ [Next]_vars => CountInv'
<1> SUFFICES ASSUME TypeInv, TypeInv', CountInv, [Next]_vars PROVE CountInv'
  OBVIOUS
<1>1. OnlyAskedAreDue' /\ NoInterruptUnhandled'
  BY AskedStep, HandledStep DEF CountInv
<1>2. CASE ResetApp \/ AttachHandler \/ UNCHANGED vars
  <2>1. /\ UNCHANGED <<queue, due, isr, seen, intr, inte, enabled>>
        /\ troubles \subseteq troubles'
    BY <1>2 DEF ResetApp, AttachHandler, Occurs, Befalls, vars, chipVars, isrVars,
                core0Vars, historyVars
  <2>2. \A e \in Edge : Copies(e)' = Copies(e)
    BY <2>1 DEF Copies, Queued
  <2>3. EdgesAreKept' /\ NoneTooMany'
    BY <2>1, <2>2 DEF CountInv, EdgesAreKept, NoneTooMany, Without, TypeInv, TypeOK
  <2> QED
    BY <1>1, <2>3 DEF CountInv
<1>3. CASE Next /\ ~ResetApp /\ ~AttachHandler
  <2>1. EdgesAreKept' /\ NoneTooMany'
    BY <1>3, CountPins, CountHandler, CountEnable, CountDrain, CountDisable, Zenon
       DEF Next, Core0Loop
  <2> QED
    BY <1>1, <2>1 DEF CountInv
<1> QED
  BY <1>2, <1>3

LEMMA CaptureInvariant == Spec => [](TypeInv /\ CountInv)
<1>1. Init => TypeInv /\ CountInv
  BY TypeInit, CountInit
<1>2. TypeInv /\ CountInv /\ [Next]_vars => (TypeInv /\ CountInv)'
  BY TypeStep, CountStep
<1> QED
  BY <1>1, <1>2, PTL DEF Spec

\* Until a trouble loses edges, every edge that is due is on its way: for any
\* pins, any capacity of the queue, any sequence of enables and resets.
THEOREM EveryEdgeIsKept == Spec => []EdgesAreKept
<1>1. TypeInv /\ CountInv => EdgesAreKept
  BY DEF CountInv
<1> QED
  BY <1>1, CaptureInvariant, PTL

\* Until an enable bit is set for an edge the system still holds, what the host
\* is sent was due.
THEOREM NoEdgeIsInvented == Spec => NothingInvented
<1> DEFINE Honest == Without({"stale"},
                       DrainEvent => \A e \in Head(queue) \cap enabled : due[e] > 0)
<1>1. TypeInv /\ CountInv => Honest
  <2> SUFFICES ASSUME TypeInv, CountInv, "stale" \notin troubles, DrainEvent,
                      NEW e \in Head(queue) \cap enabled
               PROVE  due[e] > 0
    BY DEF Without
  <2>0. /\ queue \in Events /\ queue' \in Events /\ queue # <<>> /\ isr # "push"
        /\ e \in Edge /\ due[e] \in Nat /\ Tail(queue) \in Events
    BY HeadTailProperties DEF TypeInv, TypeOK, Events, DrainEvent, At
  <2>1. Count(e, queue) >= 1
    <3>1. Count(e, queue) = Count(e, Tail(queue)) + 1
      BY <2>0, CountTail
    <3>2. Count(e, Tail(queue)) \in Nat
      BY <2>0, CountFinite
    <3> QED
      BY <3>1, <3>2
  <2>2. Copies(e) >= Count(e, queue)
    BY <2>0, CopiesBySum
  <2>3. Copies(e) <= due[e]
    BY DEF CountInv, NoneTooMany, Without
  <2> QED
    BY <2>0, <2>1, <2>2, <2>3, CopiesBySum
<1>2. Spec => [][Honest]_vars
  BY <1>1, CaptureInvariant, PTL
<1> QED
  BY <1>2 DEF NothingInvented
-----------------------------------------------------------------------------
(***************************************************************************)
(* What the host knows.  Between writes the interrupts are those of the     *)
(* registers or fewer, so that a pin comes to be watched only when its      *)
(* interrupts are enabled; from then on the events on their way lead, step  *)
(* by step, from the level the host knows to the pin's.                     *)
(***************************************************************************)
RegistersInv ==
  /\ pc0 \notin {"rise", "fall"} => inte \subseteq enabled
  /\ pc0 \in {"rise", "fall"} =>
       \A e \in inte \ enabled : e[2] = pc0 /\ e[1] \in todo
  /\ pc0 = "disable" => \A e \in inte : e[1] \in todo
  /\ pc0 = "attach" => inte = {}

LEMMA RegistersInit == Init => RegistersInv
BY DEF Init, RegistersInv

LEMMA RegistersStep ==
  ASSUME TypeInv, RegistersInv, [Next]_vars
  PROVE  RegistersInv'
<1> USE DEF RegistersInv, chipVars, core0Vars
<1>1. ASSUME NEW S, PinsChange(S) PROVE RegistersInv'
  BY <1>1 DEF PinsChange
<1>2. CASE Handler
  BY <1>2 DEF Handler, HandlerRead, HandlerPush
<1>3. ASSUME NEW kind \in {"rise", "fall"}, NEW pins, WriteEnable(kind, pins)
      PROVE  RegistersInv'
  <2>1. /\ inte \subseteq enabled /\ inte' = inte /\ inte \subseteq Edge
        /\ enabled' = {e \in enabled : e[2] # kind} \cup (pins \X {kind})
        /\ pc0' = kind /\ todo' = IF kind = "rise" THEN RisePins ELSE FallPins
    BY <1>3 DEF WriteEnable, At, TypeInv, TypeOK
  <2>2. \A e \in inte \ enabled' : e[2] = kind /\ e[1] \in todo'
    BY <2>1 DEF Edge
  <2> QED
    BY <2>1, <2>2
<1>4. ASSUME NEW kind \in {"rise", "fall"}, EnablePin(kind) PROVE RegistersInv'
  <2> DEFINE e0 == <<First, kind>>
  <2>1. /\ pc0 = kind /\ enabled' = enabled /\ todo' = todo \ {First}
        /\ inte' = IF e0 \in enabled THEN inte \cup {e0} ELSE inte \ {e0}
        /\ pc0' = IF todo' = {} THEN "idle" ELSE kind
        /\ inte \subseteq Edge
    BY <1>4 DEF EnablePin, At, SetIrqEnabled, Visited, TypeInv, TypeOK
  <2>2. \A e \in inte' \ enabled : e[2] = kind /\ e[1] \in todo'
    <3> TAKE e \in inte' \ enabled
    <3>1. e \in inte \ enabled /\ e # e0
      BY <2>1
    <3>2. e[2] = kind /\ e[1] \in todo /\ e = <<e[1], e[2]>>
      BY <2>1, <3>1 DEF Edge
    <3> QED
      BY <2>1, <3>1, <3>2
  <2> QED
    BY <2>1, <2>2
<1>5. CASE DrainEvent \/ DrainMuted
  BY <1>5 DEF DrainEvent, DrainMuted
<1>6. CASE ResetApp
  BY <1>6 DEF ResetApp, At
<1>7. CASE DrainQueue
  BY <1>7, PinsAssumption DEF DrainQueue, At, TypeInv, TypeOK, Edge
<1>8. CASE DisablePin
  <2>1. /\ pc0 = "disable" /\ enabled' = enabled /\ todo' = todo \ {First}
        /\ inte' = inte \ On(First)
        /\ pc0' = IF todo' = {} THEN "attach" ELSE "disable"
        /\ inte \subseteq Edge
    BY <1>8 DEF DisablePin, At, SetIrqEnabled, Visited, TypeInv, TypeOK
  <2>2. \A e \in inte' : e[1] \in todo'
    BY <2>1 DEF On
  <2> QED
    BY <2>1, <2>2
<1>9. CASE AttachHandler
  BY <1>9 DEF AttachHandler, At
<1>10. CASE UNCHANGED vars
  BY <1>10 DEF vars
<1> QED
  BY <1>1, <1>2, <1>3, <1>4, <1>5, <1>6, <1>7, <1>8, <1>9, <1>10, Zenon
     DEF Next, Core0Loop

\* An event leads pin p from one set of levels to another.
Leads(p, event, before, after) ==
  /\ <<p, "rise">> \in event <=> p \notin before /\ p \in after
  /\ <<p, "fall">> \in event <=> p \in before /\ p \notin after

Latched == IF isr = "push" THEN seen ELSE intr

\* The events on their way lead pin p through the levels of g.
LeadThrough(p, g) ==
  /\ p \in g[0] <=> p \in host
  /\ \A i \in 1 .. Len(queue) : Leads(p, queue[i], g[i - 1], g[i])
  /\ Leads(p, Latched, g[Len(queue)], level)

Levels(q) == [0 .. Len(q) -> SUBSET Pins]

PinInv(p) == Watched(p) => \E g \in Levels(queue) : LeadThrough(p, g)

Following == Untroubled /\ pc0 \in {"idle", "rise", "fall", "drain"}

LevelInv == Following => \A p \in Pins : PinInv(p)

LEMMA EdgesOfPin ==
  ASSUME NEW p, p \in RisePins \cap FallPins
  PROVE  On(p) = {<<p, "rise">>, <<p, "fall">>}
<1>1. <<p, "rise">> \in On(p) /\ <<p, "fall">> \in On(p)
  BY DEF On, Edge
<1>2. ASSUME NEW e \in On(p)
      PROVE  e = <<p, "rise">> \/ e = <<p, "fall">>
  BY DEF On, Edge
<1> QED
  BY <1>1, <1>2

LEMMA LevelInit == Init => LevelInv
<1> SUFFICES ASSUME Init, NEW p \in Pins, Watched(p) PROVE FALSE
  BY DEF LevelInv, PinInv
<1> QED
  BY EdgesOfPin DEF Init, Watched

LEMMA LevelImpliesKnown ==
  ASSUME TypeInv, NoInterruptUnhandled, LevelInv
  PROVE  HostKnowsLevels
<1> SUFFICES ASSUME Untroubled, At("idle"), queue = <<>>, NEW p \in Pins, Watched(p)
             PROVE  (p \in host) = (p \in level)
  BY DEF HostKnowsLevels
<1>1. Following
  BY DEF Following, At
<1>2. PICK g \in Levels(queue) : LeadThrough(p, g)
  BY <1>1, Zenon DEF LevelInv, PinInv
<1>3. intr \cap inte = {} /\ isr = "idle"
  BY DEF At, Interrupted, NoInterruptUnhandled, TypeInv, TypeOK
<1>4. <<p, "rise">> \notin intr /\ <<p, "fall">> \notin intr
  BY <1>3, EdgesOfPin DEF Watched
<1>5. Leads(p, intr, g[0], level)
  BY <1>2, <1>3 DEF LeadThrough, Latched
<1> QED
  BY <1>2, <1>4, <1>5 DEF Leads, LeadThrough

\* A step that touches nothing of a pin that it does not make watched.
LEMMA PinUndisturbed ==
  ASSUME NEW p, PinInv(p), Watched(p)' => Watched(p), queue' = queue,
         p \in host' <=> p \in host, p \in level' <=> p \in level,
         <<p, "rise">> \in Latched' <=> <<p, "rise">> \in Latched,
         <<p, "fall">> \in Latched' <=> <<p, "fall">> \in Latched
  PROVE  PinInv(p)'
<1> SUFFICES ASSUME Watched(p)' PROVE \E g \in Levels(queue)' : LeadThrough(p, g)'
  BY Zenon DEF PinInv
<1>1. PICK g \in Levels(queue) : LeadThrough(p, g)
  BY Zenon DEF PinInv
<1>2. LeadThrough(p, g)'
  BY <1>1 DEF LeadThrough, Leads
<1>3. g \in Levels(queue)'
  BY <1>1 DEF Levels
<1> QED
  BY <1>2, <1>3

LEMMA LevelPins ==
  ASSUME TypeInv, LevelInv, NEW S \in SUBSET Pins, PinsChange(S)
  PROVE  LevelInv'
<1> SUFFICES ASSUME Following', NEW p \in Pins PROVE PinInv(p)'
  BY Zenon DEF LevelInv
<1> DEFINE edges == Edge \cap {<<q, IF q \in level THEN "fall" ELSE "rise">> : q \in S}
<1>1. /\ queue' = queue /\ isr' = isr /\ seen' = seen /\ pc0' = pc0
      /\ intr' = intr \cup edges /\ level' = (level \ S) \cup (S \ level)
      /\ UNCHANGED <<inte, enabled>>
      /\ host' = {q \in Pins : IF q \in S /\ ~Watched(q) THEN q \in level' ELSE q \in host}
  BY DEF PinsChange, isrVars, core0Vars
<1>2. /\ isr # "push"
      /\ \A q \in S : On(q) \cap intr \cap inte = {}
      /\ UNCHANGED troubles
  BY DEF PinsChange, Following, Untroubled, OccursIf, Occurs, Befalls
<1>3. Following
  BY <1>1, <1>2 DEF Following, Untroubled
<1>4. PinInv(p)
  BY <1>3, Zenon DEF LevelInv
<1>5. Watched(p)' <=> Watched(p)
  BY <1>1 DEF Watched
<1>6. Latched = intr /\ Latched' = intr'
  BY <1>1, <1>2 DEF Latched
<1>7. CASE p \notin S
  <2>1. <<p, "rise">> \notin edges /\ <<p, "fall">> \notin edges
    BY <1>7
  <2> HIDE DEF edges
  <2>2. (p \in host' <=> p \in host) /\ (p \in level' <=> p \in level)
    BY <1>1, <1>7
  <2> QED
    BY <1>1, <1>4, <1>5, <1>6, <2>1, <2>2, PinUndisturbed
<1>8. CASE p \in S /\ Watched(p)
  <2>1. PICK g \in Levels(queue) : LeadThrough(p, g)
    BY <1>4, <1>8, Zenon DEF PinInv
  <2>2. /\ p \in RisePins \cap FallPins
        /\ <<p, "rise">> \notin intr /\ <<p, "fall">> \notin intr
    BY <1>2, <1>8, EdgesOfPin DEF Watched
  <2>3. p \in g[Len(queue)] <=> p \in level
    BY <1>6, <2>1, <2>2 DEF LeadThrough, Leads
  <2>4. /\ <<p, "rise">> \in edges <=> p \notin level
        /\ <<p, "fall">> \in edges <=> p \in level
    BY <1>8, <2>2 DEF Edge
  <2> HIDE DEF edges
  <2>5. Leads(p, intr', g[Len(queue)], level')
    BY <1>1, <1>8, <2>2, <2>3, <2>4 DEF Leads
  <2>6. p \in host' <=> p \in host
    BY <1>1, <1>8
  <2>7. LeadThrough(p, g)'
    BY <1>1, <1>6, <2>1, <2>5, <2>6 DEF LeadThrough, Leads
  <2>8. g \in Levels(queue)'
    BY <1>1, <2>1 DEF Levels
  <2> QED
    BY <2>7, <2>8 DEF PinInv
<1>9. CASE ~Watched(p)
  BY <1>5, <1>9 DEF PinInv
<1> QED
  BY <1>7, <1>8, <1>9

LEMMA LevelHandler ==
  ASSUME TypeInv, LevelInv, Handler
  PROVE  LevelInv'
<1> SUFFICES ASSUME Following', NEW p \in Pins PROVE PinInv(p)'
  BY Zenon DEF LevelInv
<1>1. /\ UNCHANGED <<level, inte, enabled, host, pc0>>
      /\ troubles \subseteq troubles'
  BY DEF Handler, HandlerRead, HandlerPush, Befalls, chipVars, core0Vars, historyVars
<1>2. Following /\ (Watched(p)' <=> Watched(p))
  BY <1>1 DEF Following, Untroubled, Watched
<1>3. PinInv(p)
  BY <1>2, Zenon DEF LevelInv
<1>4. CASE HandlerRead
  <2>1. Latched' = Latched /\ queue' = queue
    BY <1>4 DEF HandlerRead, Latched, Read
  <2> QED
    BY <1>1, <1>2, <1>3, <2>1, PinUndisturbed
<1>5. CASE HandlerPush /\ Watched(p)
  <2> DEFINE n == Len(queue)
  <2>1. PICK g \in Levels(queue) : LeadThrough(p, g)
    BY <1>3, <1>5, Zenon DEF PinInv
  <2>2. queue' = Append(queue, seen) /\ Latched = seen /\ Latched' = {}
    BY <1>5 DEF HandlerPush, Latched, Befalls, Following, Untroubled
  <2>3. /\ n \in Nat /\ Len(queue') = n + 1
        /\ \A i \in 1 .. n : queue'[i] = queue[i]
        /\ queue'[n + 1] = seen
    BY <2>2, LenProperties, AppendProperties DEF TypeInv, TypeOK
  <2>h. PICK h : h = [i \in 0 .. n + 1 |-> IF i = n + 1 THEN level ELSE g[i]]
    OBVIOUS
  <2>4. h[n + 1] = level /\ \A i \in 0 .. n : h[i] = g[i]
    BY <2>3, <2>h
  <2>5. h \in Levels(queue)'
    BY <2>1, <2>3, <2>h DEF Levels, TypeInv, TypeOK
  <2>6. /\ p \in g[0] <=> p \in host
        /\ \A i \in 1 .. n : Leads(p, queue[i], g[i - 1], g[i])
        /\ Leads(p, seen, g[n], level)
    BY <2>1, <2>2 DEF LeadThrough
  <2> HIDE DEF n
  <2>7. \A i \in 1 .. n + 1 : Leads(p, queue'[i], h[i - 1], h[i])
    <3> TAKE i \in 1 .. n + 1
    <3>1. CASE i = n + 1
      <4>1. i - 1 = n /\ n \in 0 .. n
        BY <2>3, <3>1
      <4> QED
        BY <2>3, <2>4, <2>6, <3>1, <4>1
    <3>2. CASE i # n + 1
      <4>1. i \in 1 .. n /\ i - 1 \in 0 .. n /\ i \in 0 .. n
        BY <2>3, <3>2
      <4> QED
        BY <2>3, <2>4, <2>6, <4>1
    <3> QED
      BY <3>1, <3>2
  <2>8. Leads(p, Latched', h[n + 1], level)
    BY <2>2, <2>4 DEF Leads
  <2>9. p \in h[0] <=> p \in host
    BY <2>3, <2>4, <2>6
  <2>10. LeadThrough(p, h)'
    BY <1>1, <2>3, <2>7, <2>8, <2>9 DEF LeadThrough, Leads
  <2> QED
    BY <2>5, <2>10 DEF PinInv
<1>6. CASE ~Watched(p)
  BY <1>2, <1>6 DEF PinInv
<1> QED
  BY <1>4, <1>5, <1>6 DEF Handler

LEMMA LevelWriteEnable ==
  ASSUME TypeInv, RegistersInv, LevelInv, NEW kind, NEW pins, WriteEnable(kind, pins)
  PROVE  LevelInv'
<1> SUFFICES ASSUME Following', NEW p \in Pins PROVE PinInv(p)'
  BY Zenon DEF LevelInv
<1>1. /\ UNCHANGED <<level, intr, inte, isr, seen, queue, host>>
      /\ troubles \subseteq troubles' /\ pc0 = "idle"
  BY DEF WriteEnable, At, OccursIf, Occurs, Befalls, chipVars, isrVars
<1>2. Following
  BY <1>1 DEF Following, Untroubled
<1>3. PinInv(p)
  BY <1>2, Zenon DEF LevelInv
<1>4. Watched(p)' => Watched(p)
  BY <1>1 DEF Watched, RegistersInv
<1>5. Latched' = Latched
  BY <1>1 DEF Latched
<1> QED
  BY <1>1, <1>3, <1>4, <1>5, PinUndisturbed

LEMMA LevelEnablePin ==
  ASSUME TypeInv, NoInterruptUnhandled, LevelInv,
         NEW kind \in {"rise", "fall"}, EnablePin(kind)
  PROVE  LevelInv'
<1> DEFINE q0 == First
           e0 == <<q0, kind>>
<1> SUFFICES ASSUME Following', NEW p \in Pins, Watched(p)' PROVE PinInv(p)'
  BY Zenon DEF LevelInv, PinInv
<1>1. /\ UNCHANGED <<level, isr, seen, queue, enabled>>
      /\ isr = "idle" /\ pc0 = kind /\ troubles \subseteq troubles'
      /\ intr' = intr \ {e0}
      /\ inte' = IF e0 \in enabled THEN inte \cup {e0} ELSE inte \ {e0}
      /\ host' = IF Watched(q0) THEN host
                 ELSE {q \in Pins : IF q = q0 THEN q0 \in level ELSE q \in host}
  BY DEF EnablePin, At, SetIrqEnabled, isrVars, Befalls
<1>2. e0 \in enabled \ inte => \A f \in On(q0) : ~(Queued(f) > 0)
  BY DEF EnablePin, Following, Untroubled, Befalls
<1> HIDE DEF q0, e0
<1>3. Following
  BY <1>1 DEF Following, Untroubled
<1>4. PinInv(p)
  BY <1>3, Zenon DEF LevelInv
<1>5. intr \cap inte = {}
  BY DEF EnablePin, At, Interrupted, NoInterruptUnhandled, TypeInv, TypeOK
<1>6. Latched = intr /\ Latched' = intr'
  BY <1>1 DEF Latched
<1>7. /\ p \in RisePins \cap FallPins
      /\ On(p) = {<<p, "rise">>, <<p, "fall">>}
      /\ On(p) \subseteq enabled /\ On(p) \subseteq inte'
  BY <1>1, EdgesOfPin DEF Watched
<1>8. CASE p # q0
  <2>1. e0 # <<p, "rise">> /\ e0 # <<p, "fall">>
    BY <1>8 DEF e0
  <2>2. Watched(p)
    BY <1>1, <1>7, <2>1 DEF Watched
  <2>3. p \in host' <=> p \in host
    BY <1>1, <1>8
  <2> QED
    BY <1>1, <1>4, <1>6, <2>1, <2>2, <2>3, PinUndisturbed
<1>9. CASE p = q0 /\ Watched(q0)
  <2>1. <<p, "rise">> \notin intr /\ <<p, "fall">> \notin intr
    BY <1>5, <1>7, <1>9 DEF Watched
  <2> QED
    BY <1>1, <1>4, <1>6, <1>9, <2>1, PinUndisturbed
<1>10. CASE p = q0 /\ ~Watched(q0)
  <2>1. e0 \in On(p)
    BY <1>7, <1>10 DEF e0
  <2>2. e0 \in enabled \ inte
    BY <1>1, <1>7, <1>10, <2>1 DEF Watched
  <2>3. <<p, "rise">> \notin intr' /\ <<p, "fall">> \notin intr'
    BY <1>1, <1>5, <1>7, <2>1
  <2>4. ASSUME NEW f \in On(p), NEW i \in 1 .. Len(queue)
        PROVE  f \notin queue[i]
    <3>1. /\ queue \in Events /\ ~(Queued(f) > 0)
          /\ DOMAIN queue = 1 .. Len(queue)
      BY <1>2, <1>10, <2>2, LenProperties DEF TypeInv, TypeOK, Events
    <3>2. Queued(f) = 0
      <4>1. Queued(f) \in Nat
        BY <3>1, CountFinite DEF Queued, Count
      <4> QED
        BY <3>1, <4>1
    <3>3. {j \in DOMAIN queue : f \in queue[j]} = {}
      BY <3>1, <3>2, CountFinite, FS_EmptySet DEF Queued
    <3> QED
      BY <3>1, <3>3
  <2>5. p \in host' <=> p \in level
    BY <1>1, <1>10
  <2>6. PICK g : g = [i \in 0 .. Len(queue) |-> level]
    OBVIOUS
  <2>7. /\ Len(queue) \in Nat
        /\ \A i \in 0 .. Len(queue) : g[i] = level
    BY <2>6, LenProperties DEF TypeInv, TypeOK
  <2>8. g \in Levels(queue)'
    BY <1>1, <2>6 DEF Levels, TypeInv, TypeOK
  <2>9. \A i \in 1 .. Len(queue) : Leads(p, queue[i], g[i - 1], g[i])
    <3> TAKE i \in 1 .. Len(queue)
    <3>1. i - 1 \in 0 .. Len(queue) /\ i \in 0 .. Len(queue)
      BY <2>7
    <3> QED
      BY <1>7, <2>4, <2>7, <3>1 DEF Leads
  <2>10. Leads(p, intr', g[Len(queue)], level) /\ (p \in g[0] <=> p \in host')
    BY <2>3, <2>5, <2>7 DEF Leads
  <2>11. LeadThrough(p, g)'
    BY <1>1, <1>6, <2>9, <2>10 DEF LeadThrough, Leads
  <2> QED
    BY <2>8, <2>11 DEF PinInv
<1> QED
  BY <1>8, <1>9, <1>10

LEMMA LevelDrain ==
  ASSUME TypeInv, LevelInv, DrainEvent
  PROVE  LevelInv'
<1> SUFFICES ASSUME Following', NEW p \in Pins, Watched(p)' PROVE PinInv(p)'
  BY Zenon DEF LevelInv, PinInv
<1>1. /\ UNCHANGED <<level, intr, inte, isr, seen, enabled, pc0, troubles>>
      /\ queue # <<>> /\ queue' = Tail(queue)
      /\ host' = (host \cup Rises(Head(queue) \cap enabled))
                   \ Falls(Head(queue) \cap enabled)
  BY DEF DrainEvent, Filtered, chipVars, isrVars, core0Vars
<1>2. Following /\ Watched(p)
  BY <1>1 DEF Following, Untroubled, Watched
<1>3. PICK g \in Levels(queue) : LeadThrough(p, g)
  BY <1>2, Zenon DEF LevelInv, PinInv
<1> DEFINE n == Len(queue) - 1
<1>4. /\ n \in Nat /\ Len(queue) = n + 1 /\ Len(queue') = n
      /\ \A i \in 1 .. n : queue'[i] = queue[i + 1]
      /\ Head(queue) = queue[1] /\ Head(queue) \in SUBSET Edge
  BY <1>1, EmptySeq, HeadTailProperties DEF TypeInv, TypeOK
<1> HIDE DEF n
<1>5. PICK h : h = [i \in 0 .. n |-> g[i + 1]]
  OBVIOUS
<1>6. \A i \in 0 .. n : h[i] = g[i + 1]
  BY <1>5
<1>7. h \in Levels(queue)'
  BY <1>3, <1>4, <1>5 DEF Levels
<1>8. /\ p \in g[0] <=> p \in host
      /\ \A i \in 1 .. n + 1 : Leads(p, queue[i], g[i - 1], g[i])
      /\ Leads(p, Latched, g[n + 1], level)
  BY <1>3, <1>4 DEF LeadThrough
<1>9. p \in h[0] <=> p \in host'
  <2>1. h[0] = g[1] /\ Leads(p, queue[1], g[0], g[1])
    <3>1. 0 \in 0 .. n /\ 1 \in 1 .. n + 1
      BY <1>4
    <3> QED
      BY <1>6, <1>8, <3>1
  <2>2. <<p, "rise">> \in enabled /\ <<p, "fall">> \in enabled
    BY <1>2, EdgesOfPin DEF Watched
  <2>3. /\ p \in Rises(Head(queue) \cap enabled) <=> <<p, "rise">> \in queue[1]
        /\ p \in Falls(Head(queue) \cap enabled) <=> <<p, "fall">> \in queue[1]
    BY <1>4, <2>2 DEF Rises, Falls
  <2> QED
    BY <1>1, <1>8, <2>1, <2>3 DEF Leads
<1>10. \A i \in 1 .. n : Leads(p, queue'[i], h[i - 1], h[i])
  <2> TAKE i \in 1 .. n
  <2>1. i \in 0 .. n /\ i - 1 \in 0 .. n /\ i + 1 \in 1 .. n + 1 /\ (i - 1) + 1 = i
        /\ (i + 1) - 1 = i
    BY <1>4
  <2>2. Leads(p, queue[i + 1], g[i], g[i + 1])
    BY <1>8, <2>1
  <2> QED
    BY <1>4, <1>6, <2>1, <2>2
<1>11. Leads(p, Latched', h[n], level)
  <2>1. n \in 0 .. n
    BY <1>4
  <2> QED
    BY <1>1, <1>6, <1>8, <2>1 DEF Leads, Latched
<1>12. LeadThrough(p, h)'
  BY <1>1, <1>4, <1>9, <1>10, <1>11 DEF LeadThrough, Leads
<1> QED
  BY <1>7, <1>12 DEF PinInv

LEMMA LevelStep ==
  ASSUME TypeInv, NoInterruptUnhandled, RegistersInv, RegistersInv', LevelInv, [Next]_vars
  PROVE  LevelInv'
<1>1. CASE DrainMuted \/ DrainQueue \/ DisablePin
  <2>1. ~Following'
    <3>1. CASE DrainMuted
      <4>1. "mute" \in troubles'
        BY <3>1 DEF DrainMuted, Occurs, Befalls
      <4> QED
        BY <4>1 DEF Following, Untroubled
    <3>2. CASE DrainQueue
      BY <3>2 DEF DrainQueue, Following
    <3>3. CASE DisablePin
      BY <3>3 DEF DisablePin, Following
    <3> QED
      BY <1>1, <3>1, <3>2, <3>3
  <2> QED
    BY <2>1 DEF LevelInv
<1>2. CASE ResetApp \/ UNCHANGED vars
  <2> SUFFICES ASSUME Following', NEW p \in Pins PROVE PinInv(p)'
    BY Zenon DEF LevelInv
  <2>1. /\ UNCHANGED <<level, intr, inte, isr, seen, queue, enabled, host>>
        /\ troubles \subseteq troubles' /\ (pc0 = "idle" \/ pc0' = pc0)
    BY <1>2 DEF ResetApp, At, Occurs, Befalls, vars, chipVars, isrVars, core0Vars, historyVars
  <2>2. Following
    BY <2>1 DEF Following, Untroubled
  <2>3. PinInv(p) /\ (Watched(p)' => Watched(p)) /\ Latched' = Latched
    BY <2>1, <2>2, Zenon DEF LevelInv, Watched, Latched
  <2> QED
    BY <2>1, <2>3, PinUndisturbed
<1>3. CASE AttachHandler
  <2> SUFFICES ASSUME NEW p \in Pins, Watched(p)' PROVE FALSE
    BY Zenon DEF LevelInv, PinInv
  <2>1. inte' = {}
    BY <1>3 DEF AttachHandler, At, RegistersInv
  <2> QED
    BY <2>1, EdgesOfPin DEF Watched
<1> QED
  BY <1>1, <1>2, <1>3, LevelPins, LevelHandler, LevelWriteEnable, LevelEnablePin,
     LevelDrain, Zenon DEF Next, Core0Loop

\* A host that follows the events of a pin knows its level whenever nothing is
\* on its way, through all interleavings of pins, interrupts, enable writes and
\* resets: events lose, double and swap none of the edges.
THEOREM HostFollowsPins == Spec => []HostKnowsLevels
<1> DEFINE Inv == TypeInv /\ CountInv /\ RegistersInv /\ LevelInv
<1>1. Init => Inv
  BY TypeInit, CountInit, RegistersInit, LevelInit
<1>2. Inv /\ [Next]_vars => Inv'
  <2> SUFFICES ASSUME Inv, [Next]_vars PROVE Inv'
    OBVIOUS
  <2>1. TypeInv' /\ RegistersInv'
    BY TypeStep, RegistersStep
  <2>2. CountInv'
    BY <2>1, CountStep
  <2>3. LevelInv'
    BY <2>1, LevelStep DEF CountInv
  <2> QED
    BY <2>1, <2>2, <2>3
<1>3. Inv => HostKnowsLevels
  BY LevelImpliesKnown DEF CountInv
<1> QED
  BY <1>1, <1>2, <1>3, PTL DEF Spec
=============================================================================
