--------------------------- MODULE PWMTaskProofs ---------------------------
(***************************************************************************)
(* Facts about the operators of PWMTask, for every width of the integers    *)
(* and all settings.                                                       *)
(***************************************************************************)
EXTENDS PWMTask, TLAPS

LEMMA ModRange ==
  ASSUME NEW a \in Int
  PROVE  a % UintRange \in Uint
BY UintRangeAssumption, SMT DEF Uint

LEMMA PlusType ==
  ASSUME NEW a \in Int, NEW b \in Int
  PROVE  Plus(a, b) \in Uint
BY ModRange DEF Plus

\* update() keeps the fields of a task in their types, whatever its state.
LEMMA UpdateType ==
  ASSUME NEW t \in Task
  PROVE  Update(t) \in Task
<1>1. /\ t.next \in Int /\ t.on \in Int /\ t.cycles \in Int
      /\ t.period \in Int /\ UintRange \in Int
  BY UintRangeAssumption DEF Task, Uint
<1>2. (t.period - t.on) % UintRange \in Int
  BY <1>1, ModRange DEF Uint
<1>3. /\ Plus(t.next, t.on) \in Uint
      /\ Plus(t.cycles, 1) \in Uint
      /\ Plus(t.next, (t.period - t.on) % UintRange) \in Uint
  BY <1>1, <1>2, PlusType
<1> QED
  BY <1>3 DEF Update, Task

LEMMA SetTimeStartedType ==
  ASSUME NEW t \in Task, NEW time \in Uint
  PROVE  SetTimeStarted(t, time) \in Task
<1>1. t.delay \in Int /\ t.on \in Int /\ time \in Int /\ 0 \in Int
  BY UintRangeAssumption DEF Task, Uint
<1>2. Plus(time, t.delay) \in Int
  <2>1. Plus(time, t.delay) \in Uint
    BY <1>1, PlusType
  <2> QED
    BY <2>1, UintRangeAssumption DEF Uint
<1>3. \A x \in Int : Plus(Plus(time, t.delay), x) \in Uint
  BY <1>2, PlusType
<1>4. (IF StartingState(t) = "HIGH" THEN t.on ELSE 0) \in Int
  BY <1>1
<1> QED
  BY <1>3, <1>4 DEF SetTimeStarted, Task

LEMMA ResetType ==
  ASSUME NEW t \in Task
  PROVE  Reset(t) \in Task
<1>1. 0 \in Uint
  BY UintRangeAssumption DEF Uint
<1>2. [t EXCEPT !.cycles = 0, !.state = StartingState(t)] \in Task
  BY <1>1 DEF Task, StartingState
<1> QED
  BY <1>1, <1>2, SetTimeStartedType DEF Reset

LEMMA StartedAtType ==
  ASSUME NEW t \in Task, NEW time \in Uint
  PROVE  StartedAt(t, time) \in Task
BY ResetType, SetTimeStartedType DEF StartedAt

LEMMA NewTaskType ==
  ASSUME NEW s \in Settings
  PROVE  NewTask(s) \in Task
<1>1. 0 \in Uint
  BY UintRangeAssumption DEF Uint
<1>2. [delay |-> s.delay, on |-> s.on, period |-> s.period,
       count |-> s.count, state |-> "LOW", cycles |-> 0,
       start |-> 0, next |-> 0] \in Task
  BY <1>1 DEF Task, Settings
<1> QED
  BY <1>2, ResetType DEF NewTask

\* Two update times are never each before the other: operator< orders any two
\* tasks one way at most, though the times wrap.
THEOREM UpdatesBeforeAsymmetric ==
  ASSUME NEW a \in Task, NEW b \in Task, UpdatesBefore(a, b)
  PROVE  ~UpdatesBefore(b, a)
<1> DEFINE d == (b.next - a.next) % UintRange
           e == (a.next - b.next) % UintRange
<1>1. a.next \in Uint /\ b.next \in Uint /\ UintRange \in Nat \ {0, 1}
  BY UintRangeAssumption DEF Task
<1>2. d = IF a.next <= b.next THEN b.next - a.next ELSE b.next - a.next + UintRange
  BY <1>1, SMT DEF Uint
<1>3. e = IF b.next <= a.next THEN a.next - b.next ELSE a.next - b.next + UintRange
  BY <1>1, SMT DEF Uint
<1>4. 0 < d /\ 2 * d < UintRange
  BY DEF UpdatesBefore, After
<1> QED
  BY <1>1, <1>2, <1>3, <1>4, SMT DEF UpdatesBefore, After, Uint
-----------------------------------------------------------------------------
(***************************************************************************)
(* Times as seen from a time n: how long until the timer shows them.        *)
(***************************************************************************)
Gap(t, n) == (t - n) % UintRange

LEMMA GapIs ==
  ASSUME NEW t \in Uint, NEW n \in Uint
  PROVE  /\ Gap(t, n) = IF t >= n THEN t - n ELSE t - n + UintRange
         /\ Gap(t, n) \in Nat /\ Gap(t, n) < UintRange
<1>1. t \in Int /\ n \in Int /\ UintRange \in Nat \ {0, 1}
      /\ 0 <= t /\ t < UintRange /\ 0 <= n /\ n < UintRange
  BY UintRangeAssumption DEF Uint
<1>2. (t - n) % UintRange = IF t >= n THEN t - n ELSE t - n + UintRange
  BY <1>1, SMT
<1> QED
  BY <1>1, <1>2 DEF Gap

LEMMA PlusIs ==
  ASSUME NEW t \in Uint, NEW d \in Nat, d < UintRange
  PROVE  /\ Plus(t, d) = IF t + d < UintRange THEN t + d ELSE t + d - UintRange
         /\ Plus(t, d) \in Uint
<1>1. t \in Int /\ UintRange \in Nat \ {0, 1} /\ 0 <= t /\ t < UintRange
  BY UintRangeAssumption DEF Uint
<1>2. (t + d) % UintRange = IF t + d < UintRange THEN t + d ELSE t + d - UintRange
  BY <1>1, SMT
<1> QED
  BY <1>1, <1>2 DEF Plus, Uint

LEMMA GapPlus ==
  ASSUME NEW t \in Uint, NEW n \in Uint, NEW d \in Nat, Gap(t, n) + d < UintRange
  PROVE  Gap(Plus(t, d), n) = Gap(t, n) + d /\ Plus(t, d) \in Uint
<1>1. UintRange \in Nat /\ 0 <= t /\ t < UintRange /\ 0 <= n /\ n < UintRange
      /\ t \in Int /\ n \in Int
  BY UintRangeAssumption DEF Uint
<1>2. d < UintRange
  BY <1>1, GapIs
<1>3. Plus(t, d) \in Uint
  BY <1>2, PlusIs
<1>4. Gap(Plus(t, d), n) = IF Plus(t, d) >= n THEN Plus(t, d) - n ELSE Plus(t, d) - n + UintRange
  BY <1>3, GapIs
<1>5. Gap(t, n) = IF t >= n THEN t - n ELSE t - n + UintRange
  BY GapIs
<1> QED
  BY <1>1, <1>2, <1>3, <1>4, <1>5, PlusIs

LEMMA GapTick ==
  ASSUME NEW t \in Uint, NEW n \in Uint, Gap(t, n) > 0
  PROVE  Gap(t, Plus(n, 1)) = Gap(t, n) - 1 /\ Plus(n, 1) \in Uint
<1>1. UintRange \in Nat \ {0, 1} /\ 0 <= t /\ t < UintRange /\ 0 <= n /\ n < UintRange
      /\ t \in Int /\ n \in Int
  BY UintRangeAssumption DEF Uint
<1>2. Plus(n, 1) \in Uint /\ Plus(n, 1) = IF n + 1 < UintRange THEN n + 1 ELSE n + 1 - UintRange
  BY <1>1, PlusIs
<1>3. Gap(t, Plus(n, 1))
        = IF t >= Plus(n, 1) THEN t - Plus(n, 1) ELSE t - Plus(n, 1) + UintRange
  BY <1>2, GapIs
<1>4. Gap(t, n) = IF t >= n THEN t - n ELSE t - n + UintRange
  BY GapIs
<1> QED
  BY <1>1, <1>2, <1>3, <1>4

LEMMA GapSame ==
  ASSUME NEW t \in Uint, NEW u \in Uint, NEW n \in Uint
  PROVE  (Gap(t, n) = Gap(u, n)) <=> t = u
<1>1. UintRange \in Nat /\ 0 <= t /\ t < UintRange /\ 0 <= u /\ u < UintRange
      /\ 0 <= n /\ n < UintRange /\ t \in Int /\ u \in Int /\ n \in Int
  BY UintRangeAssumption DEF Uint
<1>2. /\ Gap(t, n) = IF t >= n THEN t - n ELSE t - n + UintRange
      /\ Gap(u, n) = IF u >= n THEN u - n ELSE u - n + UintRange
  BY GapIs
<1> QED
  BY <1>1, <1>2

LEMMA GapNow == ASSUME NEW n \in Uint PROVE Gap(n, n) = 0
BY GapIs DEF Uint

\* The signed comparison of two times less than half the range apart.
LEMMA AfterIs ==
  ASSUME NEW t \in Uint, NEW u \in Uint, NEW n \in Uint,
         2 * Gap(t, n) <= UintRange, 2 * Gap(u, n) <= UintRange,
         2 * Gap(t, n) < UintRange \/ Gap(u, n) > 0
  PROVE  After(t, u) <=> Gap(t, n) > Gap(u, n)
<1>1. UintRange \in Nat /\ 0 <= t /\ t < UintRange /\ 0 <= u /\ u < UintRange
      /\ 0 <= n /\ n < UintRange /\ t \in Int /\ u \in Int /\ n \in Int
  BY UintRangeAssumption DEF Uint
<1>2. /\ Gap(t, n) = IF t >= n THEN t - n ELSE t - n + UintRange
      /\ Gap(u, n) = IF u >= n THEN u - n ELSE u - n + UintRange
      /\ Gap(t, u) = IF t >= u THEN t - u ELSE t - u + UintRange
  BY GapIs
<1>3. After(t, u) <=> 0 < Gap(t, u) /\ 2 * Gap(t, u) < UintRange
  BY DEF After, Gap
<1> QED
  BY <1>1, <1>2, <1>3

\* A time that has come is seen to have come, one less than half the range
\* ahead is not.
LEMMA TimeToUpdateIs ==
  ASSUME NEW t \in Task, NEW n \in Uint, 2 * Gap(t.next, n) <= UintRange
  PROVE  TimeToUpdate(t, n) <=> t.next = n
<1> DEFINE u == t.next
<1>0. u \in Uint
  BY DEF Task
<1> HIDE DEF u
<1>1. UintRange \in Nat \ {0, 1} /\ 0 <= u /\ u < UintRange /\ 0 <= n /\ n < UintRange
      /\ u \in Int /\ n \in Int
  BY <1>0, UintRangeAssumption DEF Uint
<1>2. /\ Gap(u, n) = IF u >= n THEN u - n ELSE u - n + UintRange
      /\ Gap(n, u) = IF n >= u THEN n - u ELSE n - u + UintRange
  BY <1>0, GapIs
<1>3. TimeToUpdate(t, n) <=> 2 * Gap(n, u) < UintRange
  BY DEF TimeToUpdate, Gap, u
<1>4. 2 * Gap(u, n) <= UintRange
  BY DEF u
<1>5. 2 * Gap(n, u) < UintRange <=> u = n
  BY <1>1, <1>2, <1>4
<1> QED
  BY <1>3, <1>5 DEF u
=============================================================================
