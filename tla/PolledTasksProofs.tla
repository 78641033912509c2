------------------------- MODULE PolledTasksProofs -------------------------
(***************************************************************************)
(* The waveform of every pin in closed form, for all settings whose phases  *)
(* are short against the timer, all pins and all start times, as long as    *)
(* the timer does not turn a whole round since the start.                   *)
(***************************************************************************)
EXTENDS PolledTasks, PWMTaskProofs

\* Both phases and the offset fit into half the range of the timer, and a
\* schedule is not followed for a whole turn of it.
Fits ==
  /\ \A s \in TaskSettings :
       /\ 0 < s.on /\ s.on < s.period
       /\ 2 * s.delay <= UintRange /\ 2 * s.on <= UintRange
       /\ 2 * (s.period - s.on) <= UintRange
  /\ Horizon < UintRange
-----------------------------------------------------------------------------
(***************************************************************************)
(* Arithmetic: division, and natural offsets as times of the timer.         *)
(***************************************************************************)
LEMMA Quotient ==
  ASSUME NEW d \in Nat \ {0}, NEW q \in Int, NEW r \in Nat, r < d
  PROVE  (q * d + r) \div d = q /\ (q * d + r) % d = r
<1> DEFINE x == q * d + r
           a == x \div d
           b == x % d
<1>1. q * d \in Int /\ x \in Int
  BY SMT
<1>2. a \in Int /\ b \in Int /\ 0 <= b /\ b < d /\ x = d * a + b
  BY <1>1, SMT
<1>3. d * q = q * d
  BY SMT
<1>4. d * (a - q) = r - b
  BY <1>1, <1>2, <1>3, SMT
<1>5. \A z \in Int : (z >= 1 => d * z >= d) /\ (z <= -1 => d * z <= -d)
  BY SMT
<1>6. a - q = 0
  <2>1. a - q \in Int /\ r - b < d /\ r - b > -d
    BY <1>2
  <2> HIDE DEF a, b, x
  <2> QED
    BY <2>1, <1>4, <1>5, <1>2
<1> QED
  BY <1>2, <1>3, <1>6, <1>4 DEF x

\* A quotient is at least what fits.
LEMMA QuotientAtLeast ==
  ASSUME NEW d \in Nat \ {0}, NEW q \in Nat, NEW x \in Nat, x >= q * d
  PROVE  x \div d >= q
<1> DEFINE a == x \div d
           b == x % d
<1>1. a \in Int /\ b \in Int /\ 0 <= b /\ b < d /\ x = d * a + b
  BY SMT
<1>2. \A z \in Int : z <= -1 => d * z <= -d
  BY SMT
<1>3. d * (a - q) = d * a - q * d
  BY <1>1, SMT
<1>4. d * (a - q) > -d
  <2>1. d * a \in Int /\ q * d \in Int
    BY <1>1, SMT
  <2> QED
    BY <1>1, <1>3, <2>1
<1>5. a - q \in Int
  BY <1>1
<1> HIDE DEF a, b
<1> QED
  BY <1>2, <1>4, <1>5, <1>1 DEF a

LEMMA ModShift ==
  ASSUME NEW d \in Nat \ {0}, NEW x \in Int, NEW q \in Int
  PROVE  (x + q * d) % d = x % d
<1> DEFINE a == x \div d
           b == x % d
<1>1. a \in Int /\ b \in Nat /\ b < d /\ x = a * d + b
  BY SMT
<1>2. ((a + q) * d + b) % d = b
  BY <1>1, Quotient
<1>3. x + q * d = (a + q) * d + b
  BY <1>1, SMT
<1> QED
  BY <1>2, <1>3

LEMMA ModPlus ==
  ASSUME NEW x \in Int, NEW y \in Int
  PROVE  Plus(x % UintRange, y) = (x + y) % UintRange
<1> DEFINE d == UintRange
           a == x \div d
           b == x % d
<1>1. d \in Nat \ {0}
  BY UintRangeAssumption
<1>2. a \in Int /\ b \in Int /\ x = a * d + b
  BY <1>1, SMT
<1>3. (b + y + a * d) % d = (b + y) % d
  <2>1. b + y \in Int
    BY <1>2
  <2> HIDE DEF a, b, d
  <2> QED
    BY <1>1, <1>2, <2>1, ModShift
<1>4. b + y + a * d = x + y
  <2>1. a * d \in Int
    BY <1>1, <1>2, SMT
  <2> QED
    BY <2>1, <1>2
<1> QED
  BY <1>3, <1>4 DEF Plus

LEMMA ModMinus ==
  ASSUME NEW x \in Int, NEW y \in Int
  PROVE  Gap(x % UintRange, y % UintRange) = (x - y) % UintRange
<1> DEFINE d == UintRange
           a == x \div d
           b == x % d
           f == y \div d
           g == y % d
<1>1. d \in Nat \ {0}
  BY UintRangeAssumption
<1>2. /\ a \in Int /\ b \in Int /\ x = a * d + b
      /\ f \in Int /\ g \in Int /\ y = f * d + g
  BY <1>1, SMT
<1>3. (b - g + (a - f) * d) % d = (b - g) % d
  <2>1. b - g \in Int /\ a - f \in Int
    BY <1>2
  <2> HIDE DEF a, b, d, f, g
  <2> QED
    BY <1>1, <1>2, <2>1, ModShift
<1>4. b - g + (a - f) * d = x - y
  BY <1>1, <1>2, SMT
<1> QED
  BY <1>3, <1>4 DEF Gap

LEMMA ModSmall ==
  ASSUME NEW x \in Uint
  PROVE  x % UintRange = x
BY UintRangeAssumption, SMT DEF Uint
-----------------------------------------------------------------------------
(***************************************************************************)
(* The phases of a train, as times since its start that never wrap.         *)
(***************************************************************************)
Trim(t) ==
  /\ 0 < t.on /\ t.on < t.period
  /\ 2 * t.delay <= UintRange /\ 2 * t.on <= UintRange
  /\ 2 * (t.period - t.on) <= UintRange

\* Pulses done when the regular part of the train begins, and when it does.
Once(t)  == IF t.delay = 0 THEN 1 ELSE 0
First(t) == IF t.delay = 0 THEN 2 * t.on ELSE t.delay

\* When the next regular pulse begins, or this one did.
Base(t) == First(t) + (t.cycles - Once(t)) * t.period

\* When the phase that the task is in began, and when it ends.
PhaseBegin(t) ==
  IF t.state = "HIGH"
  THEN IF t.cycles < Once(t) THEN 0 ELSE Base(t)
  ELSE IF t.cycles = 0 THEN 0 ELSE Base(t) - t.on
PhaseEnd(t) ==
  IF t.state = "HIGH"
  THEN IF t.cycles < Once(t) THEN t.on ELSE Base(t) + (t.period - t.on)
  ELSE Base(t)

\* A task e microseconds after its start.
TrainInv(t, e) ==
  /\ t.count > 0 => t.cycles <= t.count /\ (t.state = "HIGH" => t.cycles < t.count)
  /\ t.state = "LOW" => t.cycles >= Once(t)
  /\ t.state # "DONE" =>
       /\ PhaseBegin(t) <= e /\ e <= PhaseEnd(t)
       /\ t.next = (t.start + PhaseEnd(t)) % UintRange
  /\ t.state = "DONE" => t.count > 0 /\ t.cycles = t.count /\ Base(t) <= e

WaveInv ==
  /\ TypeOK
  /\ \A p \in DOMAIN task : Trim(task[p])
  /\ active =>
       /\ gpio = {p \in DOMAIN task : task[p].state = "HIGH"}
       /\ \A p \in DOMAIN task : Elapsed(p) <= Horizon /\ TrainInv(task[p], Elapsed(p))

LEMMA TaskIs ==
  ASSUME NEW t \in Task
  PROVE  /\ t.delay \in Nat /\ t.on \in Nat /\ t.period \in Nat /\ t.count \in Nat
         /\ t.cycles \in Nat /\ t.start \in Nat /\ t.next \in Nat
         /\ t.delay < UintRange /\ t.on < UintRange /\ t.period < UintRange
         /\ t.count < UintRange /\ t.cycles < UintRange
         /\ t.start < UintRange /\ t.next < UintRange
         /\ t.state \in {"LOW", "HIGH", "DONE"}
         /\ UintRange \in Nat \ {0, 1}
BY UintRangeAssumption DEF Task, Uint

LEMMA BaseIs ==
  ASSUME NEW t \in Task
  PROVE  Base(t) \in Int /\ Once(t) \in {0, 1} /\ First(t) \in Nat
         /\ PhaseBegin(t) \in Int /\ PhaseEnd(t) \in Int
         /\ (t.cycles - Once(t)) * t.period \in Int
<1>1. Once(t) \in {0, 1} /\ First(t) \in Nat
  BY TaskIs DEF Once, First
<1>2. (t.cycles - Once(t)) * t.period \in Int
  BY <1>1, TaskIs, SMT
<1>3. Base(t) \in Int
  BY <1>1, <1>2 DEF Base
<1> QED
  BY <1>1, <1>2, <1>3, TaskIs DEF PhaseBegin, PhaseEnd

\* No phase is longer than half the range of the timer, and the pulses done
\* are fewer than the times the timer can show.
LEMMA PhaseIsShort ==
  ASSUME NEW t \in Task, Trim(t), t.state # "DONE", NEW e \in Nat, TrainInv(t, e)
  PROVE  2 * (PhaseEnd(t) - PhaseBegin(t)) <= UintRange
<1>1. t.state = "LOW" /\ t.cycles = 0 => Base(t) = t.delay
  <2> SUFFICES ASSUME t.state = "LOW", t.cycles = 0 PROVE Base(t) = t.delay
    OBVIOUS
  <2>1. Once(t) = 0
    BY BaseIs DEF TrainInv
  <2>2. First(t) = t.delay
    BY <2>1 DEF First, Once
  <2>3. (t.cycles - Once(t)) * t.period = 0
    BY <2>1, TaskIs
  <2> QED
    BY <2>2, <2>3, TaskIs DEF Base
<1>2. t.state \in {"LOW", "HIGH"}
  BY TaskIs
<1> QED
  BY <1>1, <1>2, BaseIs, TaskIs DEF PhaseBegin, PhaseEnd, Trim

LEMMA StartedIs ==
  ASSUME NEW t \in Task, NEW n \in Uint
  PROVE  LET u == StartedAt(t, n)
         IN /\ u.delay = t.delay /\ u.on = t.on /\ u.period = t.period
            /\ u.count = t.count /\ u.cycles = 0 /\ u.start = n
            /\ u.state = IF t.delay = 0 THEN "HIGH" ELSE "LOW"
            /\ u.next = Plus(Plus(n, t.delay), IF t.delay = 0 THEN t.on ELSE 0)
BY DEF StartedAt, SetTimeStarted, Reset, StartingState, Task

LEMMA TrainStarts ==
  ASSUME NEW t \in Task, NEW n \in Uint, Trim(t)
  PROVE  TrainInv(StartedAt(t, n), 0)
<1> DEFINE u == StartedAt(t, n)
<1>0. u \in Task
  BY StartedAtType
<1>1. /\ u.delay = t.delay /\ u.on = t.on /\ u.period = t.period
      /\ u.count = t.count /\ u.cycles = 0 /\ u.start = n
      /\ u.state = IF t.delay = 0 THEN "HIGH" ELSE "LOW"
      /\ u.next = Plus(Plus(n, t.delay), IF t.delay = 0 THEN t.on ELSE 0)
  BY StartedIs
<1> SUFFICES TrainInv(u, 0)
  OBVIOUS
<1> HIDE DEF u
<1>2. Plus(n, t.delay) = (n + t.delay) % UintRange /\ n \in Int
  BY DEF Plus, Uint
<1>n. u.count \in Nat /\ t.on \in Nat /\ t.delay \in Nat
  BY <1>1, TaskIs
<1>3. CASE t.delay = 0
  <2>1. u.next = Plus((n + t.delay) % UintRange, t.on)
    BY <1>1, <1>2, <1>3
  <2>2. u.next = (n + t.on) % UintRange
    <3>1. n + t.delay \in Int /\ t.on \in Int /\ n + t.delay + t.on = n + t.on
      BY <1>2, <1>3, TaskIs
    <3> QED
      BY <2>1, <3>1, ModPlus
  <2>3. Once(u) = 1 /\ u.state = "HIGH"
    BY <1>1, <1>3 DEF Once
  <2>4. PhaseBegin(u) = 0 /\ PhaseEnd(u) = t.on
    BY <2>3, <1>1 DEF PhaseBegin, PhaseEnd
  <2> QED
    BY <1>1, <1>n, <2>2, <2>3, <2>4 DEF TrainInv
<1>4. CASE t.delay # 0
  <2>1. u.next = Plus((n + t.delay) % UintRange, 0)
    BY <1>1, <1>2, <1>4
  <2>2. u.next = (n + t.delay) % UintRange
    <3>1. Plus((n + t.delay) % UintRange, 0) = (n + t.delay + 0) % UintRange
      <4>1. n + t.delay \in Int
        BY <1>2, TaskIs
      <4> QED
        BY <4>1, ModPlus
    <3> QED
      BY <2>1, <3>1, <1>2, TaskIs
  <2>3. Once(u) = 0 /\ u.state = "LOW" /\ First(u) = t.delay
    BY <1>1, <1>4 DEF Once, First
  <2>4. (u.cycles - Once(u)) * u.period = 0
    BY <1>0, <1>1, <2>3, TaskIs
  <2>5. PhaseBegin(u) = 0 /\ PhaseEnd(u) = t.delay
    BY <2>3, <2>4, <1>1, TaskIs DEF PhaseBegin, PhaseEnd, Base
  <2> QED
    BY <1>1, <1>n, <2>2, <2>3, <2>5 DEF TrainInv
<1> QED
  BY <1>3, <1>4

\* Time passes within a phase.
LEMMA TrainTicks ==
  ASSUME NEW t \in Task, NEW e \in Nat, TrainInv(t, e),
         t.state # "DONE" => e < PhaseEnd(t)
  PROVE  TrainInv(t, e + 1)
BY BaseIs DEF TrainInv

\* The state machine moves at the end of a phase to the next one.
LEMMA TrainUpdates ==
  ASSUME NEW t \in Task, Trim(t), NEW e \in Nat, e < UintRange, TrainInv(t, e),
         t.state # "DONE", e = PhaseEnd(t)
  PROVE  TrainInv(Update(t), e)
<1> DEFINE u == Update(t)
<1>0. u \in Task
  BY UpdateType
<1>f. /\ u.delay = t.delay /\ u.on = t.on /\ u.period = t.period
      /\ u.count = t.count /\ u.start = t.start
      /\ Once(u) = Once(t) /\ First(u) = First(t)
  BY DEF Update, Task, Once, First
<1>t. t.next = (t.start + PhaseEnd(t)) % UintRange /\ PhaseEnd(t) \in Int /\ t.start \in Int
  BY BaseIs, TaskIs DEF TrainInv
<1>1. CASE Exhausted(t)
  <2>1. t.state = "LOW" /\ t.count > 0 /\ t.cycles = t.count
    BY <1>1, TaskIs DEF Exhausted, TrainInv
  <2>2. u.state = "DONE" /\ u.cycles = t.cycles
    BY <1>1 DEF Update, Task
  <2>3. Base(u) = e
    BY <1>f, <2>1, <2>2 DEF Base, PhaseEnd
  <2> QED
    BY <1>f, <2>1, <2>2, <2>3, TaskIs DEF TrainInv
<1>2. CASE ~Exhausted(t) /\ t.state = "LOW"
  <2>1. /\ u.state = "HIGH" /\ u.cycles = t.cycles
        /\ u.next = Plus(t.next, (t.period - t.on) % UintRange)
    BY <1>2 DEF Update, Task
  <2>2. t.cycles >= Once(t)
    BY <1>2 DEF TrainInv
  <2>3. Base(u) = e /\ Base(t) = e
    BY <1>f, <1>2, <2>1 DEF Base, PhaseEnd
  <2>4. PhaseBegin(u) = e /\ PhaseEnd(u) = e + (t.period - t.on)
    BY <1>f, <2>1, <2>2, <2>3, BaseIs, TaskIs DEF PhaseBegin, PhaseEnd
  <2>5. (t.period - t.on) % UintRange = t.period - t.on
    BY ModSmall, TaskIs DEF Trim, Uint
  <2>6. u.next = (t.start + e + (t.period - t.on)) % UintRange
    <3>1. t.period - t.on \in Int /\ t.start + e \in Int
      BY TaskIs
    <3> QED
      BY <2>1, <2>5, <1>t, <3>1, ModPlus
  <2>7. t.count > 0 => t.cycles < t.count
    BY <1>2, TaskIs DEF Exhausted, TrainInv
  <2> QED
    BY <1>f, <2>1, <2>4, <2>6, <2>7, TaskIs DEF TrainInv, Trim
<1>3. CASE ~Exhausted(t) /\ t.state = "HIGH" /\ t.cycles < Once(t)
  <2>1. t.cycles = 0 /\ Once(t) = 1 /\ t.delay = 0 /\ First(t) = 2 * t.on /\ e = t.on
    BY <1>3, BaseIs, TaskIs DEF Once, First, PhaseEnd
  <2>2. u.state = "LOW" /\ u.cycles = Plus(t.cycles, 1) /\ u.next = Plus(t.next, t.on)
    BY <1>3 DEF Update, Task
  <2>3. u.cycles = 1
    BY <2>1, <2>2, ModSmall, UintRangeAssumption DEF Plus, Uint
  <2>4. (u.cycles - Once(u)) * u.period = 0
    BY <1>f, <2>1, <2>3, TaskIs
  <2>5. PhaseBegin(u) = t.on /\ PhaseEnd(u) = 2 * t.on
    BY <1>f, <2>1, <2>2, <2>3, <2>4, TaskIs DEF PhaseBegin, PhaseEnd, Base
  <2>6. u.next = (t.start + 2 * t.on) % UintRange
    <3>1. t.start + t.on \in Int /\ t.on \in Int
      BY TaskIs
    <3>2. Plus((t.start + t.on) % UintRange, t.on) = (t.start + t.on + t.on) % UintRange
      BY <3>1, ModPlus
    <3>3. t.start + t.on + t.on = t.start + 2 * t.on
      BY TaskIs
    <3> QED
      BY <1>t, <2>1, <2>2, <3>2, <3>3
  <2>7. t.count > 0 => u.cycles <= t.count
    BY <1>3, <2>3, TaskIs DEF TrainInv
  <2> QED
    BY <1>f, <2>1, <2>2, <2>3, <2>5, <2>6, <2>7, TaskIs DEF TrainInv
<1>4. CASE ~Exhausted(t) /\ t.state = "HIGH" /\ t.cycles >= Once(t)
  <2>1. u.state = "LOW" /\ u.cycles = Plus(t.cycles, 1) /\ u.next = Plus(t.next, t.on)
    BY <1>4 DEF Update, Task
  <2>2. e = Base(t) + (t.period - t.on)
    BY <1>4, BaseIs, TaskIs DEF PhaseEnd
  <2>3. t.cycles + 1 < UintRange
    <3> DEFINE k == t.cycles - Once(t)
    <3>1. k \in Nat /\ t.period \in Nat /\ t.period >= 2 /\ Once(t) \in {0, 1}
      BY <1>4, BaseIs, TaskIs DEF Trim
    <3>2. k * t.period >= 2 * k
      BY <3>1, SMT
    <3>3. Base(t) = First(t) + k * t.period /\ k * t.period \in Nat
      BY <3>1, SMT DEF Base
    <3>4. First(t) >= Once(t) + 1 /\ First(t) \in Nat
      BY TaskIs DEF First, Once, Trim
    <3>5. 2 * k + Once(t) + 1 + 1 <= e
      <4>1. t.period - t.on >= 1
        BY TaskIs DEF Trim
      <4> HIDE DEF k
      <4> QED
        BY <3>1, <3>2, <3>3, <3>4, <4>1, <2>2, TaskIs
    <3> QED
      BY <3>1, <3>5, TaskIs
  <2>4. u.cycles = t.cycles + 1
    BY <2>1, <2>3, ModSmall, TaskIs DEF Plus, Uint
  <2>5. Base(u) = Base(t) + t.period
    <3>1. (t.cycles + 1 - Once(t)) * t.period = (t.cycles - Once(t)) * t.period + t.period
      BY BaseIs, TaskIs, SMT
    <3> QED
      BY <1>f, <2>4, <3>1, BaseIs, TaskIs DEF Base
  <2>6. PhaseBegin(u) = e /\ PhaseEnd(u) = e + t.on
    BY <1>f, <2>1, <2>2, <2>4, <2>5, BaseIs, TaskIs DEF PhaseBegin, PhaseEnd
  <2>7. u.next = (t.start + e + t.on) % UintRange
    <3>1. t.on \in Int /\ t.start + e \in Int
      BY TaskIs
    <3> QED
      BY <2>1, <1>t, <3>1, ModPlus
  <2>8. t.count > 0 => u.cycles <= t.count
    BY <1>4, <2>4, TaskIs DEF TrainInv
  <2> QED
    BY <1>f, <1>4, <2>1, <2>4, <2>6, <2>7, <2>8, BaseIs, TaskIs DEF TrainInv
<1> QED
  BY <1>1, <1>2, <1>3, <1>4, BaseIs, TaskIs DEF u

\* A task is due exactly at the end of its phase.
LEMMA DueAtPhaseEnd ==
  ASSUME NEW t \in Task, Trim(t), NEW n \in Uint, NEW e, e = (n - t.start) % UintRange,
         TrainInv(t, e), t.state # "DONE"
  PROVE  TimeToUpdate(t, n) <=> e = PhaseEnd(t)
<1> DEFINE E == PhaseEnd(t)
<1>1. t.start \in Uint /\ t.next \in Uint
  BY DEF Task
<1>2. e = (IF n >= t.start THEN n - t.start ELSE n - t.start + UintRange)
      /\ e \in Nat /\ e < UintRange
  BY <1>1, GapIs DEF Gap
<1>3. n = (t.start + e) % UintRange
  <2>1. Plus(t.start, e) = IF t.start + e < UintRange THEN t.start + e
                           ELSE t.start + e - UintRange
    BY <1>1, <1>2, PlusIs
  <2>2. n \in Int /\ 0 <= n /\ n < UintRange /\ UintRange \in Nat
    BY UintRangeAssumption DEF Uint
  <2>3. Plus(t.start, e) = n
    BY <1>2, <2>1, <2>2, TaskIs
  <2> QED
    BY <2>3 DEF Plus
<1>4. PhaseBegin(t) <= e /\ e <= E /\ t.next = (t.start + E) % UintRange
  BY DEF TrainInv
<1>5. 2 * (E - PhaseBegin(t)) <= UintRange
  BY <1>2, PhaseIsShort
<1>6. E \in Int /\ PhaseBegin(t) \in Int /\ t.start \in Int
  BY BaseIs, TaskIs
<1> HIDE DEF E
<1>7. Gap(t.next, n) = E - e
  <2>1. t.start + E \in Int /\ t.start + e \in Int
    BY <1>2, <1>6
  <2>2. Gap(t.next, n) = ((t.start + E) - (t.start + e)) % UintRange
    BY <1>3, <1>4, <2>1, ModMinus
  <2>3. (t.start + E) - (t.start + e) = E - e /\ E - e \in Uint
    BY <1>2, <1>4, <1>5, <1>6, TaskIs DEF Uint
  <2> QED
    BY <2>2, <2>3, ModSmall
<1>8. TimeToUpdate(t, n) <=> t.next = n
  <2>1. 2 * Gap(t.next, n) <= UintRange
    BY <1>2, <1>4, <1>5, <1>6, <1>7, TaskIs
  <2> QED
    BY <2>1, TimeToUpdateIs
<1>9. t.next = n <=> Gap(t.next, n) = 0
  BY <1>1, GapSame, GapNow
<1> QED
  BY <1>2, <1>6, <1>7, <1>8, <1>9 DEF E

\* Between updates the level is the one of the closed form.
LEMMA ShapeOfPhase ==
  ASSUME NEW t \in Task, Trim(t), NEW e \in Nat, TrainInv(t, e),
         t.state # "DONE" => e < PhaseEnd(t)
  PROVE  t.state = "HIGH" <=> ProducedHigh(t, e)
<1> DEFINE first == First(t)
           k == Once(t)
           off == t.period - t.on
           q == t.cycles - k
           x == e - first
           d == t.period
           later == x >= 0 /\ x % d < off /\ Counted(t, k + x \div d)
<1>1. ProducedHigh(t, e) <=> (t.delay = 0 /\ e < t.on) \/ later
  <2>1. e >= first <=> x >= 0
    BY BaseIs
  <2> QED
    BY <2>1 DEF ProducedHigh, First, Once
<1>2. /\ first \in Nat /\ k \in {0, 1} /\ q \in Int /\ d \in Nat \ {0} /\ t.on \in Nat
      /\ 0 < t.on /\ t.on < d /\ off = d - t.on /\ x \in Int /\ q * d \in Int
      /\ Base(t) = first + q * d /\ Base(t) \in Int /\ t.cycles \in Nat /\ t.count \in Nat
      /\ t.cycles = k + q /\ x = e - first
  BY BaseIs, TaskIs DEF Trim, Base
<1>3. (t.delay = 0 => k = 1 /\ first = 2 * t.on) /\ (t.delay # 0 => k = 0)
  BY DEF Once, First
<1> HIDE DEF first, k, off, q, x, d
<1>4. CASE t.state = "DONE"
  <2>1. t.count > 0 /\ t.cycles = t.count /\ Base(t) <= e
    BY <1>4 DEF TrainInv
  <2>2. q \in Nat /\ x >= q * d
    BY <1>2, <2>1
  <2>3. q * d >= 0
    BY <1>2, <2>2, SMT
  <2>4. x \in Nat
    BY <1>2, <2>2, <2>3
  <2>5. x \div d >= q /\ x \div d \in Int
    <3>1. x \div d >= q
      BY <1>2, <2>2, <2>4, QuotientAtLeast
    <3> QED
      BY <3>1, <2>4, <1>2, SMT
  <2>6. ~later
    BY <1>2, <2>1, <2>5 DEF Counted
  <2>7. ~(t.delay = 0 /\ e < t.on)
    BY <1>2, <1>3, <2>4
  <2> QED
    BY <1>1, <1>4, <2>6, <2>7
<1>5. CASE t.state = "HIGH" /\ t.cycles < k
  <2>1. t.delay = 0 /\ PhaseEnd(t) = t.on
    BY <1>2, <1>3, <1>5 DEF PhaseEnd, k
  <2> QED
    BY <1>1, <1>5, <2>1
<1>6. CASE t.state = "HIGH" /\ t.cycles >= k
  <2>1. Base(t) <= e /\ e < Base(t) + off
    <3>1. PhaseBegin(t) = Base(t) /\ PhaseEnd(t) = Base(t) + off
      BY <1>2, <1>6, BaseIs DEF PhaseBegin, PhaseEnd, k, off
    <3> QED
      BY <1>6, <3>1 DEF TrainInv
  <2> DEFINE r == e - Base(t)
  <2>2. r \in Nat /\ r < off /\ r < d /\ q \in Nat /\ x = q * d + r
    BY <1>2, <1>6, <2>1
  <2>3. (q * d + r) \div d = q /\ (q * d + r) % d = r
    <3> HIDE DEF r
    <3> QED
      BY <1>2, <2>2, Quotient
  <2>4. x >= 0
    <3>1. q * d >= 0
      BY <1>2, <2>2, SMT
    <3> QED
      BY <1>2, <2>2, <3>1
  <2>5. t.count > 0 => t.cycles < t.count
    BY <1>6 DEF TrainInv
  <2>6. later
    BY <1>2, <2>2, <2>3, <2>4, <2>5 DEF Counted
  <2> QED
    BY <1>1, <1>6, <2>6
<1>7. CASE t.state = "LOW"
  <2>1. t.cycles >= k /\ e < Base(t) /\ PhaseBegin(t) <= e
    BY <1>7 DEF TrainInv, k, PhaseEnd
  <2>2. t.cycles # 0 => Base(t) - t.on <= e
    BY <1>7, <2>1 DEF PhaseBegin
  <2>3. CASE q = 0
    <3>1. q * d = 0
      BY <1>2, <2>3, SMT
    <3>2. x < 0
      BY <1>2, <2>1, <3>1
    <3>3. ~(t.delay = 0 /\ e < t.on)
      BY <1>2, <1>3, <2>2, <2>3, <3>1
    <3> QED
      BY <1>1, <1>2, <1>7, <3>2, <3>3
  <2>4. CASE q # 0
    <3> DEFINE r == e - Base(t) + d
    <3>1. q - 1 \in Nat /\ t.cycles # 0
      BY <1>2, <2>1, <2>4
    <3>2. (q - 1) * d = q * d - d /\ (q - 1) * d \in Nat
      BY <1>2, <3>1, SMT
    <3>3. x = (q - 1) * d + r /\ r \in Nat /\ r < d /\ r >= off
      BY <1>2, <2>1, <2>2, <3>1, <3>2
    <3>4. x % d = r
      <4> DEFINE z == q - 1
      <4>1. z \in Int /\ x = z * d + r
        BY <3>1, <3>3
      <4>2. d \in Nat \ {0} /\ r \in Nat /\ r < d
        BY <1>2, <3>3
      <4> HIDE DEF r, z
      <4>3. (z * d + r) % d = r
        BY <4>1, <4>2, Quotient
      <4> QED
        BY <4>1, <4>3
    <3>5. ~later
      BY <1>2, <3>3, <3>4
    <3>6. ~(t.delay = 0 /\ e < t.on)
      BY <1>2, <1>3, <3>2, <3>3
    <3> QED
      BY <1>1, <1>7, <3>5, <3>6
  <2> QED
    BY <2>3, <2>4
<1> QED
  BY <1>2, <1>4, <1>5, <1>6, <1>7, TaskIs
-----------------------------------------------------------------------------
(***************************************************************************)
(* The types, and the phases as an inductive invariant.                    *)
(***************************************************************************)

\* A polled task keeps its types, through every wrap of the timer
\* (pwm_task.cpp:4-89).
THEOREM PolledTypes == Spec => []TypeOK
<1>1. Init => TypeOK
  BY DEF Init, TypeOK
<1>2. TypeOK /\ [Next]_vars => TypeOK'
  <2> SUFFICES ASSUME TypeOK, [Next]_vars PROVE TypeOK'
    OBVIOUS
  <2> USE DEF TypeOK
  <2>1. ASSUME NEW p \in Pins, NEW s \in TaskSettings, Create(p, s) PROVE TypeOK'
    <3>1. NewTask(s) \in Task
      BY NewTaskType, SettingsAssumption
    <3> QED
      BY <2>1, <3>1 DEF Create
  <2>2. CASE Start
    <3>1. \A p \in DOMAIN task : StartedAt(task[p], now) \in Task
      BY StartedAtType
    <3>2. task' \in [DOMAIN task -> Task] /\ DOMAIN task' = DOMAIN task
      BY <2>2, <3>1 DEF Start
    <3> QED
      BY <2>2, <3>2 DEF Start
  <2>3. CASE Poll
    <3>1. \A p \in DOMAIN task : Update(task[p]) \in Task
      BY UpdateType
    <3>2. task' \in [DOMAIN task -> Task] /\ DOMAIN task' = DOMAIN task
      BY <2>3, <3>1 DEF Poll
    <3>3. Due \subseteq DOMAIN task
      BY DEF Due
    <3> QED
      BY <2>3, <3>2, <3>3 DEF Poll
  <2>4. CASE Stop
    <3>1. \A p \in DOMAIN task : Reset(task[p]) \in Task
      BY ResetType
    <3>2. task' \in [DOMAIN task -> Task] /\ DOMAIN task' = DOMAIN task
      BY <2>4, <3>1 DEF Stop
    <3> QED
      BY <2>4, <3>2 DEF Stop
  <2>5. CASE Destroy
    BY <2>5 DEF Destroy
  <2>6. CASE Tick
    <3>1. Plus(now, 1) \in Uint
      BY PlusType DEF Uint
    <3> QED
      BY <2>6, <3>1 DEF Tick
  <2>7. CASE UNCHANGED vars
    BY <2>7 DEF vars
  <2> QED
    BY <2>1, <2>2, <2>3, <2>4, <2>5, <2>6, <2>7 DEF Next
<1> QED
  BY <1>1, <1>2, PTL DEF Spec

LEMMA TrimKept ==
  ASSUME NEW t \in Task, Trim(t), NEW n \in Uint
  PROVE  Trim(StartedAt(t, n)) /\ Trim(Update(t)) /\ Trim(Reset(t))
<1>1. Trim(StartedAt(t, n))
  BY StartedIs DEF Trim
<1>2. Trim(Update(t))
  BY DEF Trim, Update, Task
<1>3. Trim(Reset(t))
  BY DEF Trim, Reset, SetTimeStarted, Task
<1> QED
  BY <1>1, <1>2, <1>3

LEMMA TrimNew ==
  ASSUME Fits, NEW s \in TaskSettings
  PROVE  Trim(NewTask(s))
<1>1. /\ NewTask(s).delay = s.delay /\ NewTask(s).on = s.on
      /\ NewTask(s).period = s.period
  BY DEF NewTask, Reset, SetTimeStarted
<1> QED
  BY <1>1 DEF Trim, Fits

\* core1 polled at once: whoever is not due is within its phase.
LEMMA DueIs ==
  ASSUME WaveInv, active, NEW p \in DOMAIN task
  PROVE  /\ Elapsed(p) \in Nat /\ Elapsed(p) < UintRange
         /\ task[p] \in Task /\ Trim(task[p]) /\ TrainInv(task[p], Elapsed(p))
         /\ p \in Due => task[p].state # "DONE" /\ Elapsed(p) = PhaseEnd(task[p])
         /\ p \notin Due => (task[p].state # "DONE" => Elapsed(p) < PhaseEnd(task[p]))
<1> DEFINE t == task[p]
           e == Elapsed(p)
<1>1. t \in Task /\ now \in Uint /\ Trim(t) /\ TrainInv(t, e)
  BY DEF WaveInv, TypeOK
<1>2. e \in Nat /\ e < UintRange /\ e = (now - t.start) % UintRange
  <2>1. t.start \in Uint
    BY <1>1 DEF Task
  <2> QED
    BY <1>1, <2>1, GapIs DEF Gap, Elapsed
<1>3. p \in Due <=> t.state # "DONE" /\ TimeToUpdate(t, now)
  BY DEF Due, RequiresFutureUpdate
<1> HIDE DEF t, e
<1>4. t.state # "DONE" => (TimeToUpdate(t, now) <=> e = PhaseEnd(t))
  BY <1>1, <1>2, DueAtPhaseEnd
<1>5. t.state # "DONE" => e <= PhaseEnd(t) /\ PhaseEnd(t) \in Int
  BY <1>1, BaseIs DEF TrainInv
<1> QED
  BY <1>1, <1>2, <1>3, <1>4, <1>5 DEF t, e

LEMMA WaveInit == Init => WaveInv
BY DEF Init, WaveInv, TypeOK

\* What a step does to every task that was there.
LEMMA WaveStep ==
  ASSUME Fits, WaveInv, TypeOK', [Next]_vars
  PROVE  WaveInv'
<1>t. TypeOK /\ now \in Uint /\ \A p \in DOMAIN task : task[p] \in Task /\ Trim(task[p])
  BY DEF WaveInv, TypeOK
<1>h. Horizon \in Nat /\ UintRange \in Nat /\ Horizon < UintRange
  BY HorizonAssumption, UintRangeAssumption DEF Fits
<1>1. ASSUME NEW q \in Pins, NEW s \in TaskSettings, Create(q, s) PROVE WaveInv'
  <2>1. ~active' /\ DOMAIN task' = DOMAIN task \cup {q}
        /\ \A p \in DOMAIN task' : task'[p] = IF p = q THEN NewTask(s) ELSE task[p]
    BY <1>1 DEF Create
  <2> QED
    BY <1>t, <2>1, TrimNew DEF WaveInv
<1>2. CASE Start
  <2>1. /\ active' /\ now' = now /\ DOMAIN task' = DOMAIN task
        /\ gpio' = {p \in DOMAIN task : StartingState(task[p]) = "HIGH"}
        /\ \A p \in DOMAIN task' : task'[p] = StartedAt(task[p], now)
    BY <1>2 DEF Start
  <2>2. \A p \in DOMAIN task' : Trim(task'[p]) /\ TrainInv(task'[p], 0)
    BY <1>t, <2>1, TrimKept, TrainStarts
  <2>3. ASSUME NEW p \in DOMAIN task'
        PROVE  /\ Elapsed(p)' = 0
               /\ task'[p].state = "HIGH" <=> StartingState(task[p]) = "HIGH"
    <3>1. task'[p].start = now
          /\ task'[p].state = IF task[p].delay = 0 THEN "HIGH" ELSE "LOW"
      BY <1>t, <2>1, StartedIs
    <3>2. (now - now) % UintRange = 0
      BY <1>t, GapNow DEF Gap
    <3> QED
      BY <2>1, <3>1, <3>2 DEF Elapsed, StartingState
  <2>4. gpio' = {p \in DOMAIN task' : task'[p].state = "HIGH"}
    BY <2>1, <2>3
  <2> QED
    BY <1>h, <2>2, <2>3, <2>4 DEF WaveInv
<1>3. CASE Poll
  <2>1. /\ active /\ active' /\ now' = now /\ DOMAIN task' = DOMAIN task
        /\ gpio' = (gpio \ Due) \cup {p \in Due : task'[p].state = "HIGH"}
        /\ \A p \in DOMAIN task' : task'[p] = IF p \in Due THEN Update(task[p]) ELSE task[p]
    BY <1>3 DEF Poll
  <2>2. ASSUME NEW p \in DOMAIN task'
        PROVE  /\ Trim(task'[p]) /\ Elapsed(p)' = Elapsed(p)
               /\ TrainInv(task'[p], Elapsed(p))
    <3>1. task'[p].start = task[p].start
      BY <1>t, <2>1 DEF Update, Task
    <3>2. Elapsed(p)' = Elapsed(p)
      BY <2>1, <3>1 DEF Elapsed
    <3>3. CASE p \in Due
      BY <1>t, <2>1, <3>2, <3>3, DueIs, TrainUpdates, TrimKept
    <3>4. CASE p \notin Due
      BY <1>t, <2>1, <3>2, <3>4, DueIs
    <3> QED
      BY <3>3, <3>4
  <2>3. gpio = {p \in DOMAIN task : task[p].state = "HIGH"}
        /\ \A p \in DOMAIN task : Elapsed(p) <= Horizon
    BY <2>1 DEF WaveInv
  <2>4. gpio' = {p \in DOMAIN task' : task'[p].state = "HIGH"}
    BY <2>1, <2>3 DEF Due
  <2> QED
    BY <2>1, <2>2, <2>3, <2>4 DEF WaveInv
<1>4. CASE Stop
  <2>1. ~active' /\ DOMAIN task' = DOMAIN task
        /\ \A p \in DOMAIN task' : task'[p] = Reset(task[p])
    BY <1>4 DEF Stop
  <2> QED
    BY <1>t, <2>1, TrimKept DEF WaveInv
<1>5. CASE Destroy
  BY <1>5 DEF Destroy, WaveInv
<1>6. CASE Tick /\ active
  <2>1. /\ active' /\ now' = Plus(now, 1) /\ task' = task /\ gpio' = gpio /\ Due = {}
        /\ \A p \in DOMAIN task : Elapsed(p) < Horizon
    BY <1>6 DEF Tick
  <2>2. ASSUME NEW p \in DOMAIN task
        PROVE  /\ Elapsed(p)' = Elapsed(p) + 1 /\ Elapsed(p) + 1 <= Horizon
               /\ TrainInv(task'[p], Elapsed(p) + 1)
    <3>1. task[p].start \in Uint /\ Elapsed(p) = Gap(now, task[p].start)
      BY <1>t DEF Task, Elapsed, Gap
    <3>2. Elapsed(p) \in Nat /\ Elapsed(p) + 1 <= Horizon /\ Elapsed(p) + 1 < UintRange
      BY <1>h, <1>6, <2>1, DueIs
    <3>3. Gap(Plus(now, 1), task[p].start) = Gap(now, task[p].start) + 1
      BY <1>t, <3>1, <3>2, GapPlus
    <3>4. Elapsed(p)' = Elapsed(p) + 1
      BY <2>1, <3>1, <3>3 DEF Elapsed, Gap
    <3> QED
      BY <1>6, <2>1, <3>2, <3>4, DueIs, TrainTicks
  <2> QED
    BY <1>t, <1>6, <2>1, <2>2 DEF WaveInv
<1>7. CASE Tick /\ ~active
  BY <1>7 DEF Tick, WaveInv
<1>8. CASE UNCHANGED vars
  BY <1>8 DEF vars, WaveInv, Elapsed
<1> QED
  BY <1>1, <1>2, <1>3, <1>4, <1>5, <1>6, <1>7, <1>8 DEF Next

LEMMA WaveAlways == ASSUME Fits PROVE Spec => []WaveInv
<1>1. WaveInv /\ TypeOK' /\ [Next]_vars => WaveInv'
  BY WaveStep
<1> QED
  BY <1>1, WaveInit, PolledTypes, PTL DEF Spec

\* For any number of pins, any settings whose phases the signed comparison can
\* see, any start on the timer and any pulse count: between updates a pin shows
\* the level that the closed form gives for the time since the start. No
\* drift, no pulse lost or added at the wraps of next_update_time_us_ and of
\* the timer (pwm_task.cpp:53-89, pwm_task.h:64-70).
THEOREM EveryWaveInClosedForm == ASSUME Fits PROVE Spec => []WaveformInClosedForm
<1>1. WaveInv => WaveformInClosedForm
  <2> SUFFICES ASSUME WaveInv, active, Due = {}, NEW p \in DOMAIN task
               PROVE  (p \in gpio) = ProducedHigh(task[p], Elapsed(p))
    BY DEF WaveformInClosedForm
  <2>b. ProducedHigh(task[p], Elapsed(p)) \in BOOLEAN
    BY DEF ProducedHigh
  <2>1. task[p].state = "HIGH" <=> ProducedHigh(task[p], Elapsed(p))
    BY DueIs, ShapeOfPhase
  <2> QED
    BY <2>b, <2>1 DEF WaveInv
<1> QED
  BY <1>1, WaveAlways, PTL
=============================================================================
