-------------------------- MODULE TimelineProofs --------------------------
(***************************************************************************)
(* Theorems about a schedule that keeps up: loop and handler finish before  *)
(* the next microsecond, and nobody stops the schedule.  The port events    *)
(* that core1 has computed and the handler has yet to apply then lead from  *)
(* the tasks as the port shows them to the tasks as core1 knows them, in    *)
(* the order of their times.  All of it holds for every set of pins, every  *)
(* capacity of the queue and every width of the timer that is wide enough   *)
(* for the trains: its signed comparisons see half of its range.            *)
(***************************************************************************)
EXTENDS PWMSchedulerProofs

\* No phase of a train lasts longer than M, and the timer is wide enough for
\* the events that may be computed ahead.
ShortTrain(s, M) ==
  s.delay <= M /\ 0 < s.on /\ s.on <= M /\ s.on < s.period /\ s.period - s.on <= M
Short(M) ==
  /\ \A s \in TaskSettings : ShortTrain(s, M)
  /\ 2 * ((NumTTLIOs + 2) * M) <= UintRange
-----------------------------------------------------------------------------
(***************************************************************************)
(* Tasks with settings the host may choose, and how far ahead they look.    *)
(***************************************************************************)
SettingsOf(t) == [delay |-> t.delay, on |-> t.on, period |-> t.period, count |-> t.count]
Good(t) == t \in Task /\ SettingsOf(t) \in TaskSettings

LEMMA ShortIs ==
  ASSUME NEW M \in Nat, Short(M)
  PROVE  2 * M < UintRange /\ M < UintRange
<1> DEFINE W == (NumTTLIOs + 2) * M
<1>1. NumTTLIOs \in Nat /\ UintRange \in Nat \ {0, 1} /\ 2 * W <= UintRange
  BY PinsAssumption, UintRangeAssumption DEF Short
<1>2. W \in Nat /\ 2 * M <= W
  BY <1>1
<1> HIDE DEF W
<1> QED
  BY <1>1, <1>2

LEMMA GoodIsShort ==
  ASSUME NEW M \in Nat, Short(M), NEW t, Good(t)
  PROVE  /\ t \in Task
         /\ ShortTrain(t, M) /\ 2 * M < UintRange /\ M < UintRange
         /\ t.delay \in Uint /\ t.on \in Uint /\ t.period \in Uint /\ t.next \in Uint
<1>1. ShortTrain(SettingsOf(t), M)
  BY DEF Good, Short
<1>2. ShortTrain(t, M)
  BY <1>1 DEF ShortTrain, SettingsOf
<1>3. 2 * M < UintRange /\ M < UintRange
  BY ShortIs
<1> QED
  BY <1>2, <1>3 DEF Good, Task

LEMMA UpdateGood ==
  ASSUME NEW t, Good(t)
  PROVE  Good(Update(t))
<1>1. t \in Task
  BY DEF Good
<1>2. Update(t) \in Task
  BY <1>1, UpdateType
<1>3. SettingsOf(Update(t)) = SettingsOf(t)
  BY <1>1 DEF Update, SettingsOf, Task
<1> QED
  BY <1>2, <1>3 DEF Good

\* A step of a live task ends it or moves it to a later time, by a phase.
LEMMA UpdateNext ==
  ASSUME NEW M \in Nat, Short(M), NEW t, Good(t), NEW n \in Uint,
         Gap(t.next, n) + M < UintRange
  PROVE  /\ Good(Update(t))
         /\ Update(t).state # "DONE" => /\ Gap(t.next, n) < Gap(Update(t).next, n)
                                        /\ Gap(Update(t).next, n) <= Gap(t.next, n) + M
<1>0. /\ t \in Task /\ ShortTrain(t, M) /\ M < UintRange
      /\ t.delay \in Uint /\ t.on \in Uint /\ t.period \in Uint /\ t.next \in Uint
  BY GoodIsShort
<1>1. Good(Update(t))
  BY UpdateGood
<1>2. UintRange \in Nat /\ t.on \in Nat /\ t.period \in Nat /\ t.period < UintRange
      /\ 0 < t.on /\ t.on < t.period /\ t.on <= M /\ t.period - t.on <= M
  BY <1>0, UintRangeAssumption DEF ShortTrain, Uint
<1>3. (t.period - t.on) % UintRange = t.period - t.on
  BY <1>2, SMT
<1>4. \/ Update(t).state = "DONE"
      \/ Update(t).next = Plus(t.next, t.on)
      \/ Update(t).next = Plus(t.next, t.period - t.on)
  BY <1>0, <1>3 DEF Update, Task
<1>5. Gap(t.next, n) \in Nat
  BY <1>0, GapIs
<1>6. Gap(Plus(t.next, t.on), n) = Gap(t.next, n) + t.on
  BY <1>0, <1>2, <1>5, GapPlus
<1>7. t.period - t.on \in Nat
  BY <1>2
<1>8. Gap(Plus(t.next, t.period - t.on), n) = Gap(t.next, n) + (t.period - t.on)
  BY <1>0, <1>2, <1>5, <1>7, GapPlus
<1> QED
  BY <1>1, <1>2, <1>4, <1>5, <1>6, <1>8

\* A started task is live and its first step lies a phase ahead.
LEMMA StartNext ==
  ASSUME NEW M \in Nat, Short(M), NEW t, Good(t), NEW n \in Uint
  PROVE  /\ Good(StartedAt(t, n)) /\ StartedAt(t, n).state # "DONE"
         /\ 0 < Gap(StartedAt(t, n).next, n) /\ Gap(StartedAt(t, n).next, n) <= M
<1>0. /\ t \in Task /\ ShortTrain(t, M) /\ M < UintRange
      /\ t.delay \in Uint /\ t.on \in Uint /\ t.period \in Uint /\ t.next \in Uint
  BY GoodIsShort
<1> DEFINE s == StartedAt(t, n)
<1>1. Good(s)
  <2>1. s \in Task
    BY <1>0, StartedAtType
  <2>2. SettingsOf(s) = SettingsOf(t)
    BY <1>0 DEF StartedAt, SetTimeStarted, Reset, SettingsOf, Task
  <2> QED
    BY <2>1, <2>2 DEF Good
<1>2. s.state # "DONE"
  BY <1>0 DEF StartedAt, SetTimeStarted, Reset, StartingState, Task
<1>3. s.next = Plus(Plus(n, t.delay), IF t.delay = 0 THEN t.on ELSE 0)
  BY <1>0 DEF StartedAt, SetTimeStarted, Reset, StartingState, Task
<1>4. UintRange \in Nat /\ t.on \in Nat /\ t.delay \in Nat /\ 0 < t.on
      /\ t.on <= M /\ t.delay <= M
  BY <1>0, UintRangeAssumption DEF ShortTrain, Uint
<1>5. Gap(Plus(n, t.delay), n) = t.delay /\ Plus(n, t.delay) \in Uint
  BY <1>0, <1>4, GapNow, GapPlus
<1>6. Gap(s.next, n) = IF t.delay = 0 THEN t.on ELSE t.delay
  <2>1. CASE t.delay = 0
    BY <1>0, <1>3, <1>4, <1>5, <2>1, GapPlus
  <2>2. CASE t.delay # 0
    BY <1>0, <1>3, <1>4, <1>5, <2>2, GapPlus
  <2> QED
    BY <2>1, <2>2
<1> QED
  BY <1>1, <1>2, <1>4, <1>6

\* A task that was created or reset is live.
LEMMA ResetLive ==
  ASSUME NEW t, Good(t)
  PROVE  Good(Reset(t)) /\ Reset(t).state # "DONE" /\ Reset(t).delay = t.delay
<1>1. t \in Task
  BY DEF Good
<1>2. Reset(t) \in Task
  BY <1>1, ResetType
<1>3. SettingsOf(Reset(t)) = SettingsOf(t) /\ Reset(t).state # "DONE" /\ Reset(t).delay = t.delay
  BY <1>1 DEF Reset, SetTimeStarted, StartingState, SettingsOf, Task
<1> QED
  BY <1>2, <1>3 DEF Good

LEMMA NewLive ==
  ASSUME NEW s \in TaskSettings
  PROVE  Good(NewTask(s)) /\ NewTask(s).state # "DONE" /\ NewTask(s).delay = s.delay
<1>1. s \in Settings
  BY SettingsAssumption
<1>2. NewTask(s) \in Task
  BY <1>1, NewTaskType
<1>3. SettingsOf(NewTask(s)) = [delay |-> s.delay, on |-> s.on, period |-> s.period, count |-> s.count]
      /\ NewTask(s).state # "DONE" /\ NewTask(s).delay = s.delay
  BY <1>1 DEF NewTask, Reset, SetTimeStarted, StartingState, SettingsOf, Settings
<1>4. s = [delay |-> s.delay, on |-> s.on, period |-> s.period, count |-> s.count]
  BY <1>1 DEF Settings
<1> QED
  BY <1>2, <1>3, <1>4 DEF Good
-----------------------------------------------------------------------------
(***************************************************************************)
(* A timeline: events ev[1] .. ev[k] that lead from the tasks h[0] to the    *)
(* tasks h[k], each event the step of all tasks due at the next time.       *)
(***************************************************************************)
Live(f) == {p \in DOMAIN f : f[p].state # "DONE"}
AllGood(f) == \A p \in DOMAIN f : Good(f[p])

Follows(f, e, g, n, M) ==
  /\ e.mask = {p \in Live(f) : f[p].next = e.time} /\ e.mask # {}
  /\ g = [p \in DOMAIN f |-> IF p \in e.mask THEN Update(f[p]) ELSE f[p]]
  /\ e.state = {p \in e.mask : g[p].state = "HIGH"}
  /\ \A p \in Live(f) : Gap(e.time, n) <= Gap(f[p].next, n)
  /\ \A p \in Live(g) : /\ Gap(e.time, n) < Gap(g[p].next, n)
                        /\ Gap(g[p].next, n) <= Gap(e.time, n) + M

\* How far k phases reach.
Reach(k, M) == k * M

Leads(h, ev, k, n, M) ==
  /\ \A i \in 0 .. k : AllGood(h[i])
  /\ \A i \in 1 .. k : Follows(h[i - 1], ev[i], h[i], n, M)
  /\ \A i, j \in 1 .. k :
       i <= j => Gap(ev[j].time, n) <= Gap(ev[i].time, n) + Reach(j - i, M)
  /\ \A p \in Live(h[0]) : Gap(h[0][p].next, n) <= M

LEMMA ReachIs ==
  ASSUME NEW M \in Nat, Short(M), NEW k \in 0 .. NumTTLIOs + 1
  PROVE  /\ Reach(k, M) \in Nat /\ Reach(k + 1, M) = Reach(k, M) + M
         /\ 2 * Reach(k + 1, M) <= UintRange /\ Reach(0, M) = 0
<1>1. NumTTLIOs \in Nat /\ k \in Nat /\ UintRange \in Nat \ {0, 1}
  BY PinsAssumption, UintRangeAssumption
<1>2. Reach(k, M) \in Nat /\ Reach(k + 1, M) = Reach(k, M) + M /\ Reach(0, M) = 0
  BY <1>1 DEF Reach
<1>3. Reach(k + 1, M) <= (NumTTLIOs + 2) * M
  <2> DEFINE d == NumTTLIOs + 1 - k
  <2>1. d \in Nat /\ NumTTLIOs + 2 = (k + 1) + d
    BY <1>1
  <2>2. d * M \in Nat
    BY <2>1
  <2>3. ((k + 1) + d) * M = (k + 1) * M + d * M
    BY <1>1, <2>1
  <2> HIDE DEF d
  <2>4. (k + 1) * M \in Nat
    BY <1>1
  <2> QED
    BY <2>1, <2>2, <2>3, <2>4 DEF Reach
<1>4. 2 * ((NumTTLIOs + 2) * M) <= UintRange
  BY DEF Short
<1>5. (NumTTLIOs + 2) * M \in Nat
  BY <1>1
<1> DEFINE W == (NumTTLIOs + 2) * M
<1> HIDE DEF W
<1>6. W \in Nat /\ Reach(k + 1, M) <= W /\ 2 * W <= UintRange
  BY <1>3, <1>4, <1>5 DEF W
<1> QED
  BY <1>1, <1>2, <1>6

\* Every event lies within reach, and later than what lies before it.
LEMMA LeadsTimes ==
  ASSUME NEW M \in Nat, Short(M), NEW n \in Uint, NEW h, NEW ev,
         NEW k \in 0 .. NumTTLIOs + 1, Leads(h, ev, k, n, M), NEW i \in 1 .. k
  PROVE  /\ ev[i].time \in Uint
         /\ Gap(ev[i].time, n) <= Reach(i, M)
         /\ \E p \in Live(h[i - 1]) : ev[i].time = h[i - 1][p].next
         /\ i > 1 => Gap(ev[i - 1].time, n) < Gap(ev[i].time, n)
<1>0. NumTTLIOs \in Nat /\ k \in Nat /\ i \in Nat /\ i - 1 \in 0 .. k /\ 1 \in 1 .. k
      /\ i - 1 \in 0 .. NumTTLIOs + 1
  BY PinsAssumption
<1>1. \A j \in 1 .. k : \E p \in Live(h[j - 1]) : ev[j].time = h[j - 1][p].next
  <2> TAKE j \in 1 .. k
  <2>1. Follows(h[j - 1], ev[j], h[j], n, M)
    BY DEF Leads
  <2> QED
    BY <2>1 DEF Follows
<1>2. \A j \in 1 .. k : ev[j].time \in Uint
  <2> TAKE j \in 1 .. k
  <2>1. j - 1 \in 0 .. k
    BY <1>0
  <2>2. AllGood(h[j - 1])
    BY <2>1 DEF Leads
  <2> QED
    BY <1>1, <2>2 DEF AllGood, Live, Good, Task
<1>3. Gap(ev[1].time, n) <= M
  <2>1. \E p \in Live(h[0]) : ev[1].time = h[0][p].next
    <3>1. 1 - 1 = 0
      OBVIOUS
    <3> QED
      BY <1>0, <1>1, <3>1
  <2> QED
    BY <2>1 DEF Leads
<1>4. Gap(ev[i].time, n) <= Gap(ev[1].time, n) + Reach(i - 1, M)
  BY <1>0 DEF Leads
<1>5. Reach(i - 1, M) \in Nat /\ Reach(i, M) = Reach(i - 1, M) + M
  <2>1. (i - 1) + 1 = i
    BY <1>0
  <2> QED
    BY <1>0, <2>1, ReachIs
<1>6. Gap(ev[i].time, n) \in Nat /\ Gap(ev[1].time, n) \in Nat
  BY <1>0, <1>2, GapIs
<1>7. ASSUME i > 1 PROVE Gap(ev[i - 1].time, n) < Gap(ev[i].time, n)
  <2>1. i - 1 \in 1 .. k
    BY <1>0, <1>7
  <2>2. Follows(h[(i - 1) - 1], ev[i - 1], h[i - 1], n, M)
    BY <2>1 DEF Leads
  <2> QED
    BY <1>1, <2>2 DEF Follows
<1> QED
  BY <1>1, <1>2, <1>3, <1>4, <1>5, <1>6, <1>7

\* The steps still to be computed lie beyond the last event, within reach.
LEMMA LeadsBeyond ==
  ASSUME NEW M \in Nat, Short(M), NEW n \in Uint, NEW h, NEW ev,
         NEW k \in 0 .. NumTTLIOs + 1, Leads(h, ev, k, n, M), NEW p \in Live(h[k])
  PROVE  /\ h[k][p].next \in Uint
         /\ Gap(h[k][p].next, n) <= Reach(k + 1, M)
         /\ k > 0 => Gap(ev[k].time, n) < Gap(h[k][p].next, n)
         /\ k > 0 => Gap(h[k][p].next, n) <= Gap(ev[k].time, n) + M
<1>0. NumTTLIOs \in Nat /\ k \in Nat /\ k \in 0 .. k
  BY PinsAssumption
<1>1. h[k][p].next \in Uint
  BY <1>0 DEF Leads, AllGood, Live, Good, Task
<1>2. Gap(h[k][p].next, n) \in Nat
  BY <1>1, GapIs
<1>3. Reach(k, M) \in Nat /\ Reach(k + 1, M) = Reach(k, M) + M
  BY ReachIs
<1>4. CASE k = 0
  BY <1>1, <1>2, <1>3, <1>4 DEF Leads
<1>5. CASE k > 0
  <2>1. k \in 1 .. k
    BY <1>0, <1>5
  <2>2. Follows(h[k - 1], ev[k], h[k], n, M)
    BY <2>1 DEF Leads
  <2>3. /\ Gap(ev[k].time, n) < Gap(h[k][p].next, n)
        /\ Gap(h[k][p].next, n) <= Gap(ev[k].time, n) + M
    BY <2>2 DEF Follows
  <2>4. Gap(ev[k].time, n) <= Reach(k, M) /\ ev[k].time \in Uint
    BY <2>1, LeadsTimes
  <2>5. Gap(ev[k].time, n) \in Nat
    BY <2>4, GapIs
  <2> QED
    BY <1>1, <1>2, <1>3, <2>3, <2>4, <2>5
<1> QED
  BY <1>0, <1>4, <1>5

\* core1 computes the next event: the tasks with the earliest time step.
EarliestStep(f, e, g) ==
  /\ \E top \in Live(f) : /\ e.time = f[top].next
                          /\ \A p \in Live(f) : ~After(f[top].next, f[p].next)
  /\ e.mask = {p \in Live(f) : f[p].next = e.time}
  /\ g = [p \in DOMAIN f |-> IF p \in e.mask THEN Update(f[p]) ELSE f[p]]
  /\ e.state = {p \in e.mask : g[p].state = "HIGH"}
Longer(fv, ev, k, e) == (\A i \in 1 .. k : fv[i] = ev[i]) /\ fv[k + 1] = e
LeadsFrom(f, ev, k, g, n, M) ==
  \E h : h[0] = f /\ h[k] = g /\ Leads(h, ev, k, n, M)

LEMMA LeadsAppend ==
  ASSUME NEW M \in Nat, Short(M), NEW n \in Uint, NEW h, NEW ev,
         NEW k \in 0 .. NumTTLIOs, Leads(h, ev, k, n, M),
         \A p \in Live(h[k]) : Gap(h[k][p].next, n) > 0,
         NEW e, NEW g, EarliestStep(h[k], e, g), NEW fv, Longer(fv, ev, k, e)
  PROVE  LeadsFrom(h[0], fv, k + 1, g, n, M)
<1> DEFINE f == h[k]
           hh == [i \in 0 .. k + 1 |-> IF i = k + 1 THEN g ELSE h[i]]
<1> PICK top \in Live(f) : /\ e.time = f[top].next
                           /\ \A p \in Live(f) : ~After(f[top].next, f[p].next)
  BY DEF EarliestStep
<1>e. /\ e.mask = {p \in Live(f) : f[p].next = e.time}
      /\ g = [p \in DOMAIN f |-> IF p \in e.mask THEN Update(f[p]) ELSE f[p]]
      /\ e.state = {p \in e.mask : g[p].state = "HIGH"}
  BY DEF EarliestStep
<1>v. (\A i \in 1 .. k : fv[i] = ev[i]) /\ fv[k + 1] = e
  BY DEF Longer
<1>0. /\ NumTTLIOs \in Nat /\ k \in Nat /\ k \in 0 .. NumTTLIOs + 1
      /\ 0 \in 0 .. k /\ k \in 0 .. k /\ UintRange \in Nat \ {0, 1}
  BY PinsAssumption, UintRangeAssumption
<1>1. /\ Reach(k, M) \in Nat /\ Reach(k + 1, M) = Reach(k, M) + M
      /\ 2 * Reach(k + 1, M) <= UintRange /\ Reach(0, M) = 0
  BY <1>0, ReachIs
<1>2. \A p \in Live(f) : /\ f[p].next \in Uint /\ Gap(f[p].next, n) \in Nat
                         /\ Gap(f[p].next, n) <= Reach(k + 1, M)
                         /\ Gap(f[p].next, n) > 0
  BY <1>0, LeadsBeyond, GapIs
<1>3. \A p \in Live(f) : Gap(e.time, n) <= Gap(f[p].next, n)
  <2> TAKE p \in Live(f)
  <2>1. 2 * Gap(f[p].next, n) <= UintRange /\ 2 * Gap(f[top].next, n) <= UintRange
        /\ Gap(f[p].next, n) \in Nat /\ Gap(f[top].next, n) \in Nat
    BY <1>0, <1>1, <1>2
  <2>2. After(f[top].next, f[p].next) <=> Gap(f[top].next, n) > Gap(f[p].next, n)
    BY <1>2, <2>1, AfterIs
  <2>3. ~After(f[top].next, f[p].next) /\ e.time = f[top].next
    OBVIOUS
  <2> HIDE DEF f
  <2> QED
    BY <2>1, <2>2, <2>3
<1>4. \A p \in Live(f) : Gap(f[p].next, n) <= Gap(e.time, n) + M
  <2> TAKE p \in Live(f)
  <2>1. Gap(e.time, n) \in Nat /\ Gap(e.time, n) > 0 /\ Gap(f[p].next, n) \in Nat
    BY <1>2
  <2>2. CASE k = 0
    BY <2>1, <2>2, <1>2 DEF Leads
  <2>3. CASE k > 0
    <3>1. k \in 1 .. k
      BY <1>0, <2>3
    <3>2. Gap(ev[k].time, n) \in Nat
      BY <1>0, <3>1, LeadsTimes, GapIs
    <3>3. /\ Gap(ev[k].time, n) < Gap(f[top].next, n)
          /\ Gap(f[p].next, n) <= Gap(ev[k].time, n) + M
      BY <1>0, <2>3, LeadsBeyond
    <3> QED
      BY <2>1, <3>2, <3>3
  <2> QED
    BY <1>0, <2>2, <2>3
<1>5. AllGood(f)
  BY <1>0 DEF Leads
<1>6. \A p \in DOMAIN f : Gap(f[p].next, n) <= Reach(k + 1, M) /\ p \in Live(f) =>
         /\ Good(Update(f[p]))
         /\ Update(f[p]).state # "DONE" =>
              /\ Gap(f[p].next, n) < Gap(Update(f[p]).next, n)
              /\ Gap(Update(f[p]).next, n) <= Gap(f[p].next, n) + M
  <2> SUFFICES ASSUME NEW p \in DOMAIN f, p \in Live(f)
               PROVE  /\ Good(Update(f[p]))
                      /\ Update(f[p]).state # "DONE" =>
                           /\ Gap(f[p].next, n) < Gap(Update(f[p]).next, n)
                           /\ Gap(Update(f[p]).next, n) <= Gap(f[p].next, n) + M
    OBVIOUS
  <2>1. Good(f[p])
    BY <1>5 DEF AllGood
  <2>2. 2 * M < UintRange
    BY <2>1, GoodIsShort
  <2>3. Gap(f[p].next, n) + M < UintRange
    <3>2. Gap(f[p].next, n) \in Nat /\ Gap(f[p].next, n) <= Reach(k + 1, M)
      BY <1>2
    <3> DEFINE G == Gap(f[p].next, n)
    <3> DEFINE W == Reach(k + 1, M)
    <3>3. /\ G \in Nat /\ W \in Nat /\ UintRange \in Nat \ {0, 1}
          /\ G <= W /\ 2 * M < UintRange /\ 2 * W <= UintRange
      BY <1>0, <1>1, <2>2, <3>2
    <3> HIDE DEF G, W
    <3> QED
      BY <3>3 DEF G
  <2> QED
    BY <2>1, <2>3, UpdateNext
<1>7. AllGood(g) /\ DOMAIN g = DOMAIN f
  <2>1. DOMAIN g = DOMAIN f
    BY <1>e
  <2>2. ASSUME NEW p \in DOMAIN f PROVE Good(g[p])
    BY <1>e, <1>2, <1>5, <1>6, <2>2 DEF AllGood
  <2> QED
    BY <2>1, <2>2 DEF AllGood
<1>8. Follows(f, e, g, n, M)
  <2>1. e.mask # {} /\ top \in e.mask
    BY <1>e
  <2>2. ASSUME NEW p \in Live(g)
        PROVE  /\ Gap(e.time, n) < Gap(g[p].next, n)
               /\ Gap(g[p].next, n) <= Gap(e.time, n) + M
    <3>1. p \in DOMAIN f /\ g[p].state # "DONE"
      BY <1>7, <2>2 DEF Live
    <3>2. CASE p \in e.mask
      <4>1. p \in Live(f) /\ f[p].next = e.time /\ g[p] = Update(f[p])
        BY <1>e, <3>1, <3>2
      <4> QED
        BY <1>2, <1>6, <3>1, <4>1
    <3>3. CASE p \notin e.mask
      <4>1. g[p] = f[p]
        BY <1>e, <3>1, <3>3
      <4>2. p \in Live(f) /\ f[p].next # e.time
        BY <1>e, <3>1, <3>3, <4>1 DEF Live
      <4>3. f[p].next \in Uint /\ e.time \in Uint /\ Gap(f[p].next, n) \in Nat /\ Gap(e.time, n) \in Nat
        BY <1>2, <4>2
      <4>4. Gap(f[p].next, n) # Gap(e.time, n)
        BY <4>2, <4>3, GapSame
      <4>5. /\ Gap(e.time, n) <= Gap(f[p].next, n)
            /\ Gap(f[p].next, n) <= Gap(e.time, n) + M
        BY <1>3, <1>4, <4>2
      <4>6. /\ Gap(e.time, n) < Gap(f[p].next, n)
            /\ Gap(f[p].next, n) <= Gap(e.time, n) + M
        <5> HIDE DEF f
        <5> QED
          BY <4>3, <4>4, <4>5
      <4> QED
        BY <4>1, <4>6
    <3> QED
      BY <3>2, <3>3
  <2> QED
    BY <1>e, <1>3, <2>1, <2>2 DEF Follows
<1>f. hh[k] = f /\ hh[k + 1] = g /\ hh[0] = h[0] /\ \A i \in 0 .. k : hh[i] = h[i]
  BY <1>0
<1> HIDE DEF hh
<1>9. Leads(hh, fv, k + 1, n, M)
  <2> HIDE DEF f
  <2>1. \A i \in 0 .. k + 1 : AllGood(hh[i])
    <3> TAKE i \in 0 .. k + 1
    <3>1. CASE i = k + 1
      BY <1>7, <1>f, <3>1
    <3>2. CASE i # k + 1
      <4>1. i \in 0 .. k
        BY <1>0, <3>2
      <4> QED
        BY <1>f, <4>1 DEF Leads
    <3> QED
      BY <3>1, <3>2
  <2>2. \A i \in 1 .. k + 1 : Follows(hh[i - 1], fv[i], hh[i], n, M)
    <3> TAKE i \in 1 .. k + 1
    <3>1. CASE i = k + 1
      <4>1. i - 1 = k
        BY <1>0, <3>1
      <4> QED
        BY <1>v, <1>8, <1>f, <3>1, <4>1
    <3>2. CASE i # k + 1
      <4>1. i \in 1 .. k /\ i - 1 \in 0 .. k /\ i \in 0 .. k
        BY <1>0, <3>2
      <4> QED
        BY <1>v, <1>f, <4>1 DEF Leads
    <3> QED
      BY <3>1, <3>2
  <2>3. \A i, j \in 1 .. k + 1 :
          i <= j => Gap(fv[j].time, n) <= Gap(fv[i].time, n) + Reach(j - i, M)
    <3> TAKE i, j \in 1 .. k + 1
    <3>1. CASE j # k + 1
      <4> SUFFICES ASSUME i <= j
                   PROVE  Gap(fv[j].time, n) <= Gap(fv[i].time, n) + Reach(j - i, M)
        OBVIOUS
      <4>1. i \in 1 .. k /\ j \in 1 .. k
        BY <1>0, <3>1
      <4> QED
        BY <1>v, <4>1 DEF Leads
    <3>2. CASE j = k + 1 /\ i = k + 1
      <4>1. j - i = 0 /\ Gap(e.time, n) \in Nat
        BY <1>0, <1>2, <3>2 DEF f
      <4> QED
        BY <1>v, <1>1, <3>2, <4>1
    <3>3. CASE j = k + 1 /\ i # k + 1
      <4>1. i \in 1 .. k /\ k \in 1 .. k /\ i <= k /\ k > 0 /\ k - i \in 0 .. NumTTLIOs + 1
        BY <1>0, <3>3
      <4>2. Gap(ev[k].time, n) <= Gap(ev[i].time, n) + Reach(k - i, M)
        BY <4>1 DEF Leads
      <4>3. Gap(e.time, n) <= Gap(ev[k].time, n) + M
        BY <1>0, <4>1, LeadsBeyond DEF f
      <4>4. Gap(ev[k].time, n) \in Nat /\ Gap(ev[i].time, n) \in Nat /\ Gap(e.time, n) \in Nat
        BY <1>0, <1>2, <4>1, LeadsTimes, GapIs DEF f
      <4>5. Reach(k - i, M) \in Nat /\ Reach((k - i) + 1, M) = Reach(k - i, M) + M
        BY <4>1, ReachIs
      <4>6. (k - i) + 1 = j - i
        BY <1>0, <3>3
      <4> QED
        BY <1>v, <3>3, <4>1, <4>2, <4>3, <4>4, <4>5, <4>6
    <3> QED
      BY <3>1, <3>2, <3>3
  <2>4. \A p \in Live(hh[0]) : Gap(hh[0][p].next, n) <= M
    BY <1>f DEF Leads
  <2> QED
    BY <2>1, <2>2, <2>3, <2>4 DEF Leads
<1> QED
  BY <1>f, <1>9 DEF LeadsFrom

\* The handler applies the first event.
LEMMA LeadsDrop ==
  ASSUME NEW M \in Nat, Short(M), NEW n \in Uint, NEW h, NEW ev,
         NEW k \in 1 .. NumTTLIOs + 1, Leads(h, ev, k, n, M), ev[1].time = n,
         NEW hh, \A i \in 0 .. k - 1 : hh[i] = h[i + 1],
         NEW fv, \A i \in 1 .. k - 1 : fv[i] = ev[i + 1]
  PROVE  /\ Leads(hh, fv, k - 1, n, M)
         /\ \A p \in Live(hh[0]) : Gap(hh[0][p].next, n) > 0
<1>0. NumTTLIOs \in Nat /\ k \in Nat /\ 1 \in 1 .. k /\ 0 \in 0 .. k - 1 /\ 0 + 1 = 1 /\ 1 - 1 = 0
  BY PinsAssumption
<1>1. \A i \in 0 .. k - 1 : AllGood(hh[i])
  <2> TAKE i \in 0 .. k - 1
  <2>1. i + 1 \in 0 .. k
    BY <1>0
  <2> QED
    BY <2>1 DEF Leads
<1>2. \A i \in 1 .. k - 1 : Follows(hh[i - 1], fv[i], hh[i], n, M)
  <2> TAKE i \in 1 .. k - 1
  <2>1. i + 1 \in 1 .. k /\ (i + 1) - 1 = i /\ i - 1 \in 0 .. k - 1 /\ (i - 1) + 1 = i /\ i \in 0 .. k - 1
    BY <1>0
  <2>2. Follows(h[i], ev[i + 1], h[i + 1], n, M)
    BY <2>1 DEF Leads
  <2>3. hh[i - 1] = h[i] /\ hh[i] = h[i + 1]
    BY <2>1
  <2> QED
    BY <2>2, <2>3
<1>3. \A i, j \in 1 .. k - 1 :
        i <= j => Gap(fv[j].time, n) <= Gap(fv[i].time, n) + Reach(j - i, M)
  <2> TAKE i, j \in 1 .. k - 1
  <2>1. i + 1 \in 1 .. k /\ j + 1 \in 1 .. k /\ (j + 1) - (i + 1) = j - i
        /\ (i <= j => i + 1 <= j + 1)
    BY <1>0
  <2>2. i + 1 <= j + 1 => Gap(ev[j + 1].time, n) <= Gap(ev[i + 1].time, n) + Reach((j + 1) - (i + 1), M)
    BY <2>1 DEF Leads
  <2> QED
    BY <2>1, <2>2
<1>4. Follows(h[0], ev[1], h[1], n, M)
  <2>1. Follows(h[1 - 1], ev[1], h[1], n, M)
    BY <1>0 DEF Leads
  <2> QED
    BY <1>0, <2>1
<1>5. hh[0] = h[1]
  BY <1>0
<1>6. \A p \in Live(hh[0]) : 0 < Gap(hh[0][p].next, n) /\ Gap(hh[0][p].next, n) <= 0 + M
  <2>1. Gap(ev[1].time, n) = 0
    BY GapNow
  <2> QED
    BY <1>4, <1>5, <2>1 DEF Follows
<1>7. \A p \in Live(hh[0]) : Gap(hh[0][p].next, n) <= M
  BY <1>6
<1>8. \A p \in Live(hh[0]) : Gap(hh[0][p].next, n) > 0
  <2> TAKE p \in Live(hh[0])
  <2>1. hh[0][p].next \in Uint
    BY <1>0, <1>1 DEF AllGood, Live, Good, Task
  <2> QED
    BY <1>6, <2>1, GapIs
<1> QED
  BY <1>1, <1>2, <1>3, <1>7, <1>8 DEF Leads

\* A microsecond brings everything ahead nearer by one.
LEMMA LeadsTick ==
  ASSUME NEW M \in Nat, Short(M), NEW n \in Uint, NEW h, NEW ev,
         NEW k \in 0 .. NumTTLIOs + 1, Leads(h, ev, k, n, M),
         \A p \in Live(h[0]) : Gap(h[0][p].next, n) > 0
  PROVE  /\ Leads(h, ev, k, Plus(n, 1), M)
         /\ \A p \in Live(h[0]) : Gap(h[0][p].next, Plus(n, 1)) = Gap(h[0][p].next, n) - 1
         /\ k > 0 => Gap(ev[1].time, n) > 0
<1> DEFINE m == Plus(n, 1)
<1>0. NumTTLIOs \in Nat /\ k \in Nat /\ 0 \in 0 .. k
  BY PinsAssumption
<1>1. \A i \in 0 .. k : \A p \in DOMAIN h[i] : h[i][p].next \in Uint
  BY DEF Leads, AllGood, Good, Task
<1>2. \A i \in 1 .. k : Follows(h[i - 1], ev[i], h[i], n, M)
  BY DEF Leads
<1>3. \A i \in 0 .. k : \A p \in Live(h[i]) :
         Gap(h[i][p].next, n) \in Nat /\ Gap(h[i][p].next, n) > 0
  <2> TAKE i \in 0 .. k
  <2> TAKE p \in Live(h[i])
  <2>1. Gap(h[i][p].next, n) \in Nat
    BY <1>1, GapIs DEF Live
  <2>2. CASE i = 0
    BY <2>1, <2>2
  <2>3. CASE i # 0
    <3>1. i \in 1 .. k
      BY <1>0, <2>3
    <3>2. Gap(ev[i].time, n) < Gap(h[i][p].next, n)
      BY <1>2, <3>1 DEF Follows
    <3>3. ev[i].time \in Uint
      BY <3>1, LeadsTimes
    <3>4. Gap(ev[i].time, n) \in Nat
      BY <3>3, GapIs
    <3> QED
      BY <2>1, <3>2, <3>4
  <2> QED
    BY <2>2, <2>3
<1>4. \A i \in 0 .. k : \A p \in Live(h[i]) : Gap(h[i][p].next, m) = Gap(h[i][p].next, n) - 1
  BY <1>1, <1>3, GapTick DEF Live
<1>5. \A i \in 1 .. k : /\ Gap(ev[i].time, m) = Gap(ev[i].time, n) - 1
                        /\ Gap(ev[i].time, n) \in Nat /\ Gap(ev[i].time, n) > 0
  <2> TAKE i \in 1 .. k
  <2>1. i - 1 \in 0 .. k
    BY <1>0
  <2>2. PICK p \in Live(h[i - 1]) : ev[i].time = h[i - 1][p].next
    BY LeadsTimes
  <2> QED
    BY <1>3, <1>4, <2>1, <2>2
<1>6. \A i \in 1 .. k : Follows(h[i - 1], ev[i], h[i], m, M)
  <2> TAKE i \in 1 .. k
  <2>1. i - 1 \in 0 .. k /\ i \in 0 .. k
    BY <1>0
  <2>2. Follows(h[i - 1], ev[i], h[i], n, M)
    BY <1>2
  <2> DEFINE f == h[i - 1]
             g == h[i]
             e == ev[i]
  <2>3. \A p \in Live(f) : Gap(f[p].next, n) \in Nat /\ Gap(f[p].next, m) = Gap(f[p].next, n) - 1
    BY <1>3, <1>4, <2>1
  <2>4. \A p \in Live(g) : Gap(g[p].next, n) \in Nat /\ Gap(g[p].next, m) = Gap(g[p].next, n) - 1
    BY <1>3, <1>4, <2>1
  <2>5. Gap(e.time, n) \in Nat /\ Gap(e.time, m) = Gap(e.time, n) - 1
    BY <1>5
  <2>6. Follows(f, e, g, n, M)
    BY <2>2
  <2> HIDE DEF f, g, e, m
  <2>7. \A p \in Live(f) : Gap(e.time, m) <= Gap(f[p].next, m)
    BY <2>3, <2>5, <2>6 DEF Follows
  <2>8. \A p \in Live(g) : /\ Gap(e.time, m) < Gap(g[p].next, m)
                           /\ Gap(g[p].next, m) <= Gap(e.time, m) + M
    BY <2>4, <2>5, <2>6 DEF Follows
  <2>9. Follows(f, e, g, m, M)
    BY <2>6, <2>7, <2>8 DEF Follows
  <2> QED
    BY <2>9 DEF f, g, e
<1>7. \A i, j \in 1 .. k :
        i <= j => Gap(ev[j].time, m) <= Gap(ev[i].time, m) + Reach(j - i, M)
  <2> TAKE i, j \in 1 .. k
  <2> SUFFICES ASSUME i <= j
               PROVE  Gap(ev[j].time, m) <= Gap(ev[i].time, m) + Reach(j - i, M)
    OBVIOUS
  <2>1. j - i \in 0 .. NumTTLIOs + 1
    BY <1>0
  <2>2. Reach(j - i, M) \in Nat
    BY <2>1, ReachIs
  <2>3. Gap(ev[j].time, n) <= Gap(ev[i].time, n) + Reach(j - i, M)
    BY DEF Leads
  <2> HIDE DEF m
  <2> QED
    BY <1>5, <2>2, <2>3
<1>8. \A p \in Live(h[0]) : Gap(h[0][p].next, m) <= M
  <2> TAKE p \in Live(h[0])
  <2>1. Gap(h[0][p].next, n) \in Nat /\ Gap(h[0][p].next, m) = Gap(h[0][p].next, n) - 1
    BY <1>0, <1>3, <1>4
  <2>2. Gap(h[0][p].next, n) <= M
    BY DEF Leads
  <2> HIDE DEF m
  <2> QED
    BY <2>1, <2>2
<1>9. Leads(h, ev, k, m, M)
  BY <1>6, <1>7, <1>8 DEF Leads
<1> QED
  BY <1>0, <1>4, <1>5, <1>9

\* Only the events themselves matter.
LEMMA LeadsSame ==
  ASSUME NEW M, NEW n, NEW h, NEW ev, NEW k \in Nat, Leads(h, ev, k, n, M),
         NEW fv, \A i \in 1 .. k : fv[i] = ev[i]
  PROVE  Leads(h, fv, k, n, M)
BY DEF Leads
-----------------------------------------------------------------------------
(***************************************************************************)
(* Whose turn it is.  While the handler runs, or is about to, core1 only     *)
(* passes a full queue or finished tasks; while core1 computes, the handler *)
(* sleeps.                                                                  *)
(***************************************************************************)
HandlerRuns == irq \/ isr # "idle"
Stopping == {"cancel", "unflag", "clear"}
Computing == {"queued", "deadline", "rearm", "setnext", "setflag"}

HandlerTurn ==
  /\ HandlerRuns => /\ goal = "RUNNING" /\ pc1 \in {"loop", "update", "exit"}
                    /\ Active
                    /\ QueueFull \/ pq = {}
  /\ isr = "release" => queue = <<>>
  /\ isr \notin {"idle", "ack"} => ~irq

\* The flag is set exactly while events are on their way, and cleared before
\* the end only where core1 is about to arm the next one.
FlagTurn ==
  /\ alarmQueued => HandlerOwns \/ pc1 = "arm"
  /\ ~alarmQueued \/ pc1 = "arm" => queue = <<>>
  /\ pc1 = "emplace" => alarmQueued
  /\ Active /\ ~alarmQueued =>
       \/ pq = {} \/ pc1 \in Computing
       \/ state = "READY" /\ pc1 = "update" /\ calls = NumTTLIOs

\* The schedule is never reset, and stopped only when it has finished.
LoopTurn ==
  /\ ~failed /\ state # "RESET" /\ goal # "RESET"
  /\ state = "READY" /\ pc1 = "loop" => ~alarmQueued
  /\ state = "READY" /\ pc1 # "loop" => goal = "RUNNING" /\ pc1 \notin Stopping
  /\ state = "RUNNING" /\ goal = "READY" =>
       ~alarmQueued /\ pq = {} /\ pc1 \in {"update", "exit"} \cup Stopping
  /\ pc1 \in Stopping => goal = "READY"

TurnInv == HandlerTurn /\ FlagTurn /\ LoopTurn

\* The same event is in the queue, the handler's hands and the alarm.
Port(e) == [mask |-> e.mask, state |-> e.state]
HandInv ==
  /\ isr \in {"arm", "pop"} => nextPort = Port(isrEvent)
  /\ isr = "pop" => alarm = isrEvent.time
  /\ pc1 \in {"setflag", "arm"} => nextPort = Port(batch)
  /\ pc1 = "deadline" /\ alarmQueued => queue # <<>> /\ batch = queue[Len(queue)]

TaskInv ==
  /\ pq = Live(task) /\ AllGood(task) /\ AllGood(shown)
  /\ ~Active => shown = task /\ nextPort = InitialPort(task) /\ pq = DOMAIN task

\* The events computed and not applied: armed, queued, being added.
Armed == isr = "idle" /\ (irq \/ alarm # Unarmed)
ArmedEvent ==
  [mask |-> nextPort.mask, state |-> nextPort.state, time |-> IF irq THEN now ELSE alarm]
HasBatch ==
  \/ pc1 \in {"queued", "emplace", "setnext", "setflag", "arm"}
  \/ pc1 \in {"deadline", "rearm"} /\ ~alarmQueued
Offset == IF Armed THEN 1 ELSE 0
Count == Offset + Len(queue) + (IF HasBatch THEN 1 ELSE 0)
Event(i) ==
  IF i <= Offset THEN ArmedEvent
  ELSE IF i - Offset <= Len(queue) THEN queue[i - Offset] ELSE batch
Events == [i \in 1 .. Count |-> Event(i)]

\* They lead from what the port shows to what core1 has computed, and what
\* the port shows next lies ahead unless its interrupt is pending.
Ahead(f) == \A p \in Live(f) : Gap(f[p].next, now) > 0
Timeline(h, M) ==
  /\ h[0] = shown /\ h[Count] = task
  /\ Leads(h, Events, Count, now, M)
  /\ (irq /\ isr = "idle") \/ Ahead(shown)
ChainInv(M) == Active => \E h : Timeline(h, M)

KeepUpInv(M) ==
  QuietInv /\ PopsWhatItRead /\ TurnInv /\ HandInv /\ TaskInv /\ ChainInv(M)

\* What the timeline says to whoever looks at a time.
Punctual ==
  /\ pc1 = "deadline" => ~After(now, batch.time)
  /\ pc1 = "arm" => batch.time # now
  /\ isr = "arm" => isrEvent.time # now

LEMMA TurnCancels == ASSUME TurnInv, QuietInv PROVE CancelSafe
BY DEF TurnInv, LoopTurn, QuietInv, LockInv, TypeInv, TypeOK, Core1TypeOK,
       CancelSafe, HandlerOwns, Active, Stopping

LEMMA CountIs ==
  ASSUME QuietInv, TurnInv
  PROVE  /\ Len(queue) \in Nat /\ Offset \in 0 .. 1 /\ NumTTLIOs \in Nat
         /\ Count \in 0 .. NumTTLIOs + 1
         /\ ~QueueFull /\ pc1 = "update" => Count < NumTTLIOs + 1
<1>1. Len(queue) \in Nat /\ Len(queue) <= NumTTLIOs /\ NumTTLIOs \in Nat \ {0}
  BY PinsAssumption DEF QuietInv, TypeInv, TypeOK, SharedTypeOK
<1>2. Offset \in 0 .. 1
  BY DEF Offset
<1>3. ~HasBatch => Count <= NumTTLIOs + 1
  BY <1>1, <1>2 DEF Count
<1>4. HasBatch => Count <= NumTTLIOs + 1
  <2>1. CASE pc1 \in {"queued", "emplace"}
    BY <1>1, <1>2, <2>1 DEF Count, QuietInv, TypeInv, RoomInv
  <2>2. CASE HasBatch /\ pc1 \notin {"queued", "emplace"}
    <3>1. queue = <<>>
      BY <2>2 DEF TurnInv, FlagTurn, QuietInv, LockInv, HasBatch
    <3> QED
      BY <1>1, <1>2, <3>1 DEF Count
  <2> QED
    BY <2>1, <2>2
<1>5. ~QueueFull /\ pc1 = "update" => Count < NumTTLIOs + 1
  BY <1>1, <1>2 DEF Count, HasBatch, QueueFull
<1> QED
  BY <1>1, <1>2, <1>3, <1>4, <1>5 DEF Count

LEMMA TurnCore1 ==
  ASSUME QuietInv, TurnInv, Punctual, ~MayStop,
         \/ \E p \in Pins, s \in TaskSettings : SchedulePwmTask(p, s)
         \/ StartSchedule \/ Core1Busy
  PROVE  TurnInv'
<1> USE DEF TurnInv, HandlerTurn, FlagTurn, LoopTurn, HandlerRuns, HandlerOwns,
            Active, Stopping, Computing, At, isrVars, timerVars, sharedVars, portVars
<1>t. /\ state \in {"RESET", "READY", "RUNNING"} /\ goal \in {"RESET", "READY", "RUNNING"}
      /\ alarmQueued \in BOOLEAN /\ irq \in BOOLEAN /\ failed \in BOOLEAN
      /\ Len(queue) \in Nat /\ calls \in Nat /\ NumTTLIOs \in Nat \ {0}
      /\ pc1 \in Labels
      /\ isr \in {"idle", "ack", "test", "release", "load", "arm", "pop"}
  BY PinsAssumption
     DEF QuietInv, TypeInv, TypeOK, Core1TypeOK, SharedTypeOK, PortTypeOK,
         HandlerTypeOK, LockInv
<1>l. /\ HandlerOwns => alarmQueued
      /\ alarm # Unarmed => ~irq /\ isr \in {"idle", "pop"}
      /\ pc1 \in {"setnext", "setflag", "clear"} => ~alarmQueued
      /\ pc1 = "arm" => ~HandlerOwns /\ alarmQueued
      /\ pc1 = "loop" /\ state = "READY" => ~HandlerOwns
  BY DEF QuietInv, LockInv, HandlerInv, StopInv
<1>1. CASE \E p \in Pins, s \in TaskSettings : SchedulePwmTask(p, s)
  BY <1>1, <1>t, <1>l DEF SchedulePwmTask
<1>2. CASE StartSchedule
  BY <1>2, <1>t, <1>l DEF StartSchedule
<1>3. CASE RunLoop
  <2>1. goal' = IF Finished THEN "READY" ELSE "RUNNING"
    <3>1. MayStop = FALSE
      BY RegimeAssumption
    <3>2. PICK stop \in {MayStop, FALSE} :
            goal' = IF failed THEN "RESET" ELSE IF Finished \/ stop THEN "READY" ELSE "RUNNING"
      BY <1>3 DEF RunLoop
    <3>3. ~stop
      BY <3>1
    <3> QED
      BY <3>2, <3>3
  <2>2. HandlerRuns => ~Finished
    BY <1>t, <1>l DEF Finished
  <2>3. Finished => ~alarmQueued /\ pq = {}
    BY <1>3 DEF RunLoop, Finished
  <2> QED
    BY <1>3, <1>t, <1>l, <2>1, <2>2, <2>3 DEF RunLoop, QueueFull
<1>4. CASE UpdateSkip
  BY <1>4, <1>t, <1>l DEF UpdateSkip, AfterUpdate, QueueFull
<1>5. CASE UpdateBatch
  BY <1>5, <1>t, <1>l DEF UpdateBatch
<1>6. CASE TestQueued
  BY <1>6, <1>t, <1>l DEF TestQueued
<1>7. CASE Emplace
  BY <1>7, <1>t, <1>l DEF Emplace
<1>8. CASE CheckDeadline
  BY <1>8, <1>t, <1>l DEF CheckDeadline, Punctual
<1>9. CASE TestRearm
  BY <1>9, <1>t, <1>l DEF TestRearm, AfterUpdate
<1>10. CASE SetNextPort
  BY <1>10, <1>t, <1>l DEF SetNextPort
<1>11. CASE SetAlarmQueued
  BY <1>11, <1>t, <1>l DEF SetAlarmQueued
<1>12. CASE ArmAlarm
  <2>1. batch.time \in Uint
    BY DEF QuietInv, TypeInv, TypeOK, Core1TypeOK, PortEvent
  <2>2. batch.time # Unarmed
    BY <2>1, UintRangeAssumption DEF Uint, Unarmed
  <2>3. alarm' # Unarmed /\ irq' = irq
    BY <1>12, <2>2 DEF ArmAlarm, WriteAlarm, Punctual
  <2> QED
    BY <1>12, <1>t, <1>l, <2>3 DEF ArmAlarm, AfterUpdate
<1>13. CASE LoopEnd
  <2>1. CASE state = "RUNNING" /\ goal = "READY"
    BY <1>13, <1>t, <1>l, <2>1 DEF LoopEnd
  <2>2. CASE ~(state = "RUNNING" /\ goal = "READY")
    <3>1. goal = "RUNNING" /\ state' = "RUNNING" /\ pc1' = "loop"
      BY <1>13, <1>t, <2>2 DEF LoopEnd
    <3> QED
      BY <1>13, <1>t, <1>l, <3>1 DEF LoopEnd, QueueFull
  <2> QED
    BY <2>1, <2>2
<1>14. CASE RunReset
  BY <1>14, <1>t, <1>l DEF RunReset
<1>15. CASE Disarm
  BY <1>15, <1>t, <1>l DEF Disarm
<1>16. CASE ClearAlarmQueued
  BY <1>16, <1>t, <1>l DEF ClearAlarmQueued
<1>17. CASE StopTasks
  BY <1>17, <1>t, <1>l DEF StopTasks
<1>18. CASE ClearTasks
  BY <1>18, <1>t, <1>l DEF ClearTasks
<1> QED
  BY <1>1, <1>2, <1>3, <1>4, <1>5, <1>6, <1>7, <1>8, <1>9, <1>10, <1>11,
     <1>12, <1>13, <1>14, <1>15, <1>16, <1>17, <1>18 DEF Core1Busy, Update1

LEMMA TurnHandler ==
  ASSUME QuietInv, TurnInv, HandInv, Punctual, KeepsUp,
         Isr \/ Tick \/ UNCHANGED vars
  PROVE  TurnInv'
<1> USE DEF TurnInv, HandlerTurn, FlagTurn, LoopTurn, HandlerRuns, HandlerOwns,
            Active, Stopping, Computing, core1Vars, sharedVars, isrVars, timerVars
<1>t. /\ state \in {"RESET", "READY", "RUNNING"} /\ goal \in {"RESET", "READY", "RUNNING"}
      /\ alarmQueued \in BOOLEAN /\ irq \in BOOLEAN /\ failed \in BOOLEAN
      /\ queue \in Seq(PortEvent) /\ calls \in Nat /\ NumTTLIOs \in Nat \ {0}
      /\ pc1 \in Labels
      /\ isr \in {"idle", "ack", "test", "release", "load", "arm", "pop"}
  BY PinsAssumption
     DEF QuietInv, TypeInv, TypeOK, Core1TypeOK, SharedTypeOK, PortTypeOK,
         HandlerTypeOK, LockInv
<1>l. /\ HandlerOwns => alarmQueued
      /\ alarm # Unarmed => ~irq /\ isr \in {"idle", "pop"}
      /\ irq => isr \in {"idle", "ack", "pop"} 
      /\ isr = "ack" => irq
      /\ pc1 = "loop" /\ state = "READY" => ~HandlerOwns
  BY DEF QuietInv, LockInv, HandlerInv, StopInv
<1>1. CASE IsrApply
  BY <1>1, <1>t, <1>l DEF IsrApply, QueueFull
<1>2. CASE IsrAck
  BY <1>2, <1>t, <1>l DEF IsrAck, QueueFull
<1>3. CASE IsrTestEmpty
  BY <1>3, <1>t, <1>l DEF IsrTestEmpty, QueueFull
<1>4. CASE IsrRelease
  BY <1>4, <1>t, <1>l DEF IsrRelease, QueueFull
<1>5. CASE IsrLoad
  BY <1>5, <1>t, <1>l DEF IsrLoad, QueueFull
<1>6. CASE IsrArm
  BY <1>6, <1>t, <1>l DEF IsrArm, WriteAlarm, QueueFull, Punctual
<1>7. CASE IsrPop
  <2>1. isrEvent.time \in Uint
    BY DEF QuietInv, TypeInv, TypeOK, HandlerTypeOK, PortEvent
  <2>2. alarm # Unarmed
    BY <1>7, <2>1, UintRangeAssumption DEF IsrPop, HandInv, Uint, Unarmed
  <2> QED
    BY <1>7, <1>t, <1>l, <2>2 DEF IsrPop, QueueFull
<1>8. CASE Tick
  <2>1. now' # Unarmed
    BY <1>8, TickFiresNothing DEF QuietInv
  <2>2. CASE alarm = now'
    BY <1>8, <1>t, <1>l, <2>1, <2>2 DEF Tick, CaughtUp, QueueFull
  <2>3. CASE alarm # now'
    BY <1>8, <1>t, <1>l, <2>3 DEF Tick, CaughtUp, QueueFull
  <2> QED
    BY <2>2, <2>3
<1>9. CASE UNCHANGED vars
  BY <1>9, <1>t, <1>l DEF vars, QueueFull
<1> QED
  BY <1>1, <1>2, <1>3, <1>4, <1>5, <1>6, <1>7, <1>8, <1>9 DEF Isr

LEMMA HandStep ==
  ASSUME QuietInv, TurnInv, HandInv, Punctual, KeepsUp, [Next]_vars
  PROVE  HandInv'
<1> USE DEF HandInv, Port, At
<1>t. /\ queue \in Seq(PortEvent) /\ batch \in PortEvent
      /\ isr \in {"idle", "ack", "test", "release", "load", "arm", "pop"}
      /\ state \in {"RESET", "READY", "RUNNING"}
  BY DEF QuietInv, TypeInv, TypeOK, Core1TypeOK, SharedTypeOK, HandlerTypeOK
<1>l. /\ isr # "idle" => pc1 \in {"loop", "update", "exit"} /\ alarmQueued
                         /\ (pc1 = "loop" => state = "RUNNING")
      /\ pc1 = "cancel" => isr = "idle"
      /\ pc1 = "clear" => isr = "idle"
  BY <1>t DEF QuietInv, LockInv, TurnInv, HandlerTurn, LoopTurn, HandlerRuns, Active, HandlerOwns
<1>1. CASE \E p \in Pins, s \in TaskSettings : SchedulePwmTask(p, s)
  BY <1>1, <1>t, <1>l DEF SchedulePwmTask, isrVars, timerVars
<1>2. CASE StartSchedule \/ RunLoop \/ UpdateSkip \/ LoopEnd \/ RunReset
  BY <1>2, <1>t, <1>l
     DEF StartSchedule, RunLoop, UpdateSkip, LoopEnd, RunReset, AfterUpdate,
         sharedVars, isrVars, timerVars
<1>3. CASE UpdateBatch \/ TestQueued \/ CheckDeadline \/ TestRearm
  BY <1>3, <1>t, <1>l
     DEF UpdateBatch, TestQueued, CheckDeadline, TestRearm, AfterUpdate,
         sharedVars, isrVars, timerVars
<1>4. CASE Emplace
  <2>1. queue' = Append(queue, batch)
    BY <1>4 DEF Emplace
  <2>2. queue' # <<>> /\ queue'[Len(queue')] = batch
    BY <1>t, <2>1
  <2> QED
    BY <1>4, <1>l, <2>2 DEF Emplace, isrVars, timerVars
<1>5. CASE SetNextPort \/ SetAlarmQueued \/ ArmAlarm
  BY <1>5, <1>t, <1>l
     DEF SetNextPort, SetAlarmQueued, ArmAlarm, AfterUpdate, sharedVars, isrVars,
         timerVars
<1>6. CASE Disarm \/ ClearAlarmQueued
  BY <1>6, <1>t, <1>l
     DEF Disarm, ClearAlarmQueued, sharedVars, isrVars, timerVars
<1>7. CASE StopTasks \/ ClearTasks
  BY <1>7, <1>t, <1>l
     DEF StopTasks, ClearTasks, isrVars, timerVars
<1>8. CASE IsrApply \/ IsrAck \/ IsrTestEmpty \/ IsrRelease \/ IsrPop
  BY <1>8, <1>t, <1>l
     DEF IsrApply, IsrAck, IsrTestEmpty, IsrRelease, IsrPop,
         core1Vars, sharedVars, timerVars
<1>9. CASE IsrLoad
  BY <1>9, <1>t, <1>l DEF IsrLoad, core1Vars, timerVars
<1>10. CASE IsrArm
  BY <1>10, <1>t, <1>l DEF IsrArm, WriteAlarm, Punctual, core1Vars, sharedVars
<1>11. CASE Tick
  BY <1>11, <1>t, <1>l DEF Tick, CaughtUp, core1Vars, sharedVars, isrVars
<1>12. CASE UNCHANGED vars
  BY <1>12, <1>t, <1>l DEF vars, core1Vars, sharedVars, isrVars, timerVars
<1> QED
  BY <1>1, <1>2, <1>3, <1>4, <1>5, <1>6, <1>7, <1>8, <1>9, <1>10, <1>11, <1>12
     DEF Next, Core1Busy, Update1, Isr

LEMMA TaskStep ==
  ASSUME NEW M \in Nat, Short(M), QuietInv, TurnInv, TaskInv, [Next]_vars
  PROVE  TaskInv'
<1>t. /\ task \in [DOMAIN task -> Task] /\ now \in Uint /\ DOMAIN shown = DOMAIN task
      /\ state \in {"RESET", "READY", "RUNNING"} /\ pc1 \in Labels
      /\ nextPort \in [mask : SUBSET Pins, state : SUBSET Pins]
  BY DEF QuietInv, TypeInv, TypeOK, Core1TypeOK, SharedTypeOK, PortTypeOK, LockInv
<1>g. /\ pq = Live(task) /\ AllGood(task) /\ AllGood(shown)
      /\ ~Active => shown = task /\ nextPort = InitialPort(task) /\ pq = DOMAIN task
  BY DEF TaskInv
<1>l. /\ state # "RESET" /\ goal # "RESET" /\ (state = "READY" /\ pc1 # "loop" => goal = "RUNNING")
      /\ isr # "idle" => Active
      /\ irq => Active
  BY DEF TurnInv, LoopTurn, HandlerTurn, HandlerRuns
<1>a. Active <=> state # "READY" \/ pc1 # "loop"
  BY DEF Active
<1>1. CASE \E p \in Pins, s \in TaskSettings : SchedulePwmTask(p, s)
  <2> PICK p \in Pins, s \in TaskSettings : SchedulePwmTask(p, s)
    BY <1>1
  <2>1. ~Active
    BY DEF SchedulePwmTask, At, Active
  <2>2. Good(NewTask(s)) /\ NewTask(s).state # "DONE" /\ NewTask(s).delay = s.delay
    BY NewLive
  <2>3. /\ DOMAIN task' = DOMAIN task \cup {p}
        /\ \A q \in DOMAIN task' : task'[q] = IF q = p THEN NewTask(s) ELSE task[q]
        /\ p \notin DOMAIN task
        /\ shown' = task' /\ pq' = pq \cup {p}
        /\ nextPort' = [mask |-> nextPort.mask \cup {p},
                        state |-> nextPort.state \cup HighAtStart([q \in {p} |-> s])]
    BY DEF SchedulePwmTask
  <2>4. AllGood(task')
    BY <1>g, <2>2, <2>3 DEF AllGood
  <2>5. Live(task') = DOMAIN task' /\ pq' = DOMAIN task'
    BY <1>g, <2>1, <2>2, <2>3 DEF Live
  <2>6. nextPort' = InitialPort(task')
    <3>1. HighAtStart(task') = HighAtStart(task) \cup HighAtStart([q \in {p} |-> s])
      BY <2>2, <2>3 DEF HighAtStart, StartingState
    <3>2. nextPort.mask = DOMAIN task /\ nextPort.state = HighAtStart(task)
      BY <1>g, <2>1 DEF InitialPort
    <3> QED
      BY <2>3, <3>1, <3>2 DEF InitialPort
  <2> QED
    BY <2>3, <2>4, <2>5, <2>6 DEF TaskInv
<1>2. CASE StartSchedule
  <2>1. /\ DOMAIN task' = DOMAIN task /\ shown' = task' /\ pq' = pq
        /\ \A p \in DOMAIN task : task'[p] = StartedAt(task[p], now)
    BY <1>2 DEF StartSchedule
  <2>2. ~Active /\ Active'
    BY <1>2 DEF StartSchedule, At, Active
  <2>3. \A p \in DOMAIN task : Good(task'[p]) /\ task'[p].state # "DONE"
    BY <1>t, <1>g, <2>1, StartNext DEF AllGood
  <2>4. AllGood(task') /\ Live(task') = DOMAIN task
    BY <2>1, <2>3 DEF AllGood, Live
  <2> QED
    BY <1>g, <2>1, <2>2, <2>4 DEF TaskInv
<1>3. CASE UpdateBatch
  <2> PICK top \in Earliest :
             LET T   == task[top].next
                 due == {p \in pq : task[p].next = T}
             IN /\ task' = [p \in DOMAIN task |->
                              IF p \in due THEN Update(task[p]) ELSE task[p]]
                /\ batch' = [mask  |-> due, time |-> T,
                             state |-> {p \in due : task'[p].state = "HIGH"}]
                /\ pq' = {p \in pq : p \in due => RequiresFutureUpdate(task'[p])}
    BY <1>3 DEF UpdateBatch
  <2> DEFINE due == {p \in pq : task[p].next = task[top].next}
  <2>1. /\ DOMAIN task' = DOMAIN task
        /\ \A p \in DOMAIN task : task'[p] = IF p \in due THEN Update(task[p]) ELSE task[p]
        /\ pq' = {p \in pq : p \in due => RequiresFutureUpdate(task'[p])}
    OBVIOUS
  <2>2. due \subseteq pq
    OBVIOUS
  <2> HIDE DEF due
  <2>3. AllGood(task')
    BY <1>g, <2>1, UpdateGood DEF AllGood
  <2>4. pq' = Live(task')
    BY <1>g, <2>1, <2>2 DEF Live, RequiresFutureUpdate
  <2>5. Active' /\ shown' = shown
    BY <1>3 DEF UpdateBatch, portVars, Active
  <2> QED
    BY <1>g, <2>3, <2>4, <2>5 DEF TaskInv
<1>4. CASE StopTasks
  <2>1. /\ DOMAIN task' = DOMAIN task /\ shown' = task' /\ pq' = DOMAIN task
        /\ nextPort' = InitialPort(task)
        /\ \A p \in DOMAIN task : task'[p] = Reset(task[p])
    BY <1>4 DEF StopTasks, ResetAll
  <2>2. \A p \in DOMAIN task : Good(task'[p]) /\ task'[p].state # "DONE"
                               /\ task'[p].delay = task[p].delay
    BY <1>g, <2>1, ResetLive DEF AllGood
  <2>3. AllGood(task') /\ Live(task') = DOMAIN task
    BY <2>1, <2>2 DEF AllGood, Live
  <2>4. InitialPort(task') = InitialPort(task)
    BY <2>1, <2>2 DEF InitialPort, HighAtStart, StartingState
  <2> QED
    BY <2>1, <2>3, <2>4 DEF TaskInv
<1>5. CASE ClearTasks
  BY <1>5, <1>l DEF ClearTasks
<1>6. CASE IsrApply
  <2>1. /\ DOMAIN shown' = DOMAIN shown /\ task' = task /\ pq' = pq
        /\ \A p \in DOMAIN shown :
             shown'[p] = IF p \in nextPort.mask THEN Update(shown[p]) ELSE shown[p]
    BY <1>6 DEF IsrApply, core1Vars
  <2>2. AllGood(shown')
    BY <1>g, <2>1, UpdateGood DEF AllGood
  <2>3. Active'
    BY <1>6, <1>l DEF IsrApply, Active, core1Vars
  <2> QED
    BY <1>g, <2>1, <2>2, <2>3 DEF TaskInv
<1>7. ASSUME UNCHANGED <<task, shown, pq>>, Active \/ nextPort' = nextPort, ~Active' => ~Active
      PROVE  TaskInv'
  BY <1>7, <1>g DEF TaskInv, Live, AllGood, InitialPort, HighAtStart
<1>8. CASE RunLoop \/ UpdateSkip \/ TestQueued \/ Emplace \/ CheckDeadline \/ TestRearm
           \/ SetNextPort \/ SetAlarmQueued \/ ArmAlarm \/ RunReset \/ Disarm
           \/ ClearAlarmQueued
  <2>1. UNCHANGED <<task, shown, pq>>
    BY <1>8 DEF RunLoop, UpdateSkip, TestQueued, Emplace, CheckDeadline, TestRearm,
                SetNextPort, SetAlarmQueued, ArmAlarm, RunReset, Disarm,
                ClearAlarmQueued, portVars
  <2>2. Active /\ Active'
    BY <1>8, <1>l
       DEF RunLoop, UpdateSkip, TestQueued, Emplace, CheckDeadline, TestRearm,
           SetNextPort, SetAlarmQueued, ArmAlarm, RunReset, Disarm,
           ClearAlarmQueued, AfterUpdate, Active, At
  <2> QED
    BY <1>7, <2>1, <2>2
<1>9. CASE LoopEnd
  <2>1. Active /\ Active'
    BY <1>9, <1>l, <1>t DEF LoopEnd, Active, At
  <2> QED
    BY <1>7, <1>9, <2>1 DEF LoopEnd, portVars
<1>10. CASE Isr /\ ~IsrApply
  <2>1. UNCHANGED <<task, shown, pq, state, pc1>>
    BY <1>10 DEF Isr, IsrAck, IsrTestEmpty, IsrRelease, IsrLoad, IsrArm, IsrPop,
                 core1Vars, portVars
  <2>2. Active
    BY <1>10, <1>l DEF Isr, IsrAck, IsrTestEmpty, IsrRelease, IsrLoad, IsrArm, IsrPop
  <2> QED
    BY <1>7, <2>1, <2>2 DEF Active
<1>11. CASE Tick \/ UNCHANGED vars
  BY <1>7, <1>11 DEF Tick, vars, core1Vars, sharedVars, portVars, Active
<1> QED
  BY <1>1, <1>2, <1>3, <1>4, <1>5, <1>6, <1>8, <1>9, <1>10, <1>11
     DEF Next, Core1Busy, Update1
-----------------------------------------------------------------------------
(***************************************************************************)
(* The timeline, one action at a time: core1 adds an event at its end, the  *)
(* handler applies the one at its start, and everything else only hands an  *)
(* event on.                                                                *)
(***************************************************************************)
LEMMA PunctualNow ==
  ASSUME NEW M \in Nat, Short(M), KeepUpInv(M)
  PROVE  Punctual
<1> USE DEF KeepUpInv
<1>0. /\ Len(queue) \in Nat /\ NumTTLIOs \in Nat /\ Count \in 0 .. NumTTLIOs + 1
      /\ now \in Uint /\ UintRange \in Nat \ {0, 1} /\ queue \in Seq(PortEvent)
  BY CountIs, UintRangeAssumption DEF QuietInv, LockInv, TypeInv, TypeOK, SharedTypeOK
<1>1. ASSUME pc1 = "deadline" PROVE ~After(now, batch.time)
  <2>1. Active
    BY <1>1 DEF Active
  <2>2. PICK h : Timeline(h, M)
    BY <2>1 DEF ChainInv
  <2>3. Count \in 1 .. Count /\ Event(Count) = batch
    <3>1. CASE alarmQueued
      <4>1. queue # <<>> /\ batch = queue[Len(queue)] /\ ~HasBatch
        BY <1>1, <3>1 DEF HandInv, HasBatch
      <4>2. Len(queue) > 0
        BY <1>0, <4>1
      <4>3. Count = Offset + Len(queue) /\ Offset \in {0, 1}
        BY <1>0, <4>1 DEF Count, Offset
      <4>4. Count > Offset /\ Count - Offset = Len(queue)
        BY <1>0, <4>2, <4>3
      <4>5. ~(Count <= Offset) /\ Count - Offset <= Len(queue)
        BY <1>0, <4>3, <4>4
      <4>6. Event(Count) = queue[Len(queue)]
        BY <4>4, <4>5 DEF Event
      <4> QED
        BY <1>0, <4>1, <4>2, <4>3, <4>6
    <3>2. CASE ~alarmQueued
      <4>1. HasBatch
        BY <1>1, <3>2 DEF HasBatch
      <4>2. Count = Offset + Len(queue) + 1 /\ Offset \in {0, 1}
        BY <4>1 DEF Count, Offset
      <4>3. ~(Count <= Offset) /\ ~(Count - Offset <= Len(queue))
        BY <1>0, <4>2
      <4> QED
        BY <1>0, <4>2, <4>3 DEF Event
    <3> QED
      BY <3>1, <3>2
  <2>4. Events[Count] = batch
    BY <2>3 DEF Events
  <2>5. Leads(h, Events, Count, now, M)
    BY <2>2 DEF Timeline
  <2>6. batch.time \in Uint /\ Gap(batch.time, now) <= Reach(Count, M)
    BY <1>0, <2>3, <2>4, <2>5, LeadsTimes
  <2>7. Count - 1 \in 0 .. NumTTLIOs + 1 /\ (Count - 1) + 1 = Count
    BY <1>0, <2>3
  <2>8. 2 * Reach(Count, M) <= UintRange /\ Reach(Count, M) \in Nat
    BY <1>0, <2>7, ReachIs
  <2>9. Gap(now, now) = 0 /\ Gap(batch.time, now) \in Nat
    BY <1>0, <2>6, GapNow, GapIs
  <2>10. 2 * Gap(batch.time, now) <= UintRange
    BY <1>0, <2>6, <2>8, <2>9
  <2>11. 2 * Gap(now, now) <= UintRange /\ 2 * Gap(now, now) < UintRange
    BY <1>0, <2>9
  <2>12. After(now, batch.time) <=> Gap(now, now) > Gap(batch.time, now)
    BY <1>0, <2>6, <2>10, <2>11, AfterIs
  <2> QED
    BY <2>9, <2>12
<1>2. ASSUME ~(irq /\ isr = "idle"), Active, NEW e, Count > 0, Event(1) = e
      PROVE  e.time # now
  <2>1. PICK h : Timeline(h, M)
    BY <1>2 DEF ChainInv
  <2>2. Leads(h, Events, Count, now, M) /\ \A p \in Live(h[0]) : Gap(h[0][p].next, now) > 0
    BY <1>2, <2>1 DEF Timeline, Ahead
  <2>3. Gap(Events[1].time, now) > 0
    BY <1>0, <1>2, <2>2, LeadsTick
  <2>4. Events[1] = e
    BY <1>0, <1>2 DEF Events
  <2> QED
    BY <1>0, <2>3, <2>4, GapNow
<1>3. ASSUME pc1 = "arm" PROVE batch.time # now
  <2>1. Active /\ HasBatch
    BY <1>3 DEF Active, HasBatch
  <2>2. ~irq /\ isr = "idle" /\ alarm = Unarmed /\ queue = <<>>
    BY <1>3 DEF QuietInv, LockInv, HandlerOwns, TurnInv, FlagTurn
  <2>3. Len(queue) = 0 /\ Offset = 0
    BY <2>2 DEF Offset, Armed
  <2>4. Count = 1
    BY <2>1, <2>3 DEF Count
  <2>5. Event(1) = batch
    BY <2>3 DEF Event
  <2> QED
    BY <1>2, <2>1, <2>2, <2>4, <2>5
<1>4. ASSUME isr = "arm" PROVE isrEvent.time # now
  <2>1. Active /\ Offset = 0
    BY <1>4 DEF TurnInv, HandlerTurn, HandlerRuns, Offset, Armed
  <2>2. queue # <<>> /\ Head(queue) = isrEvent
    BY <1>4 DEF PopsWhatItRead
  <2>3. Len(queue) > 0 /\ queue[1] = isrEvent
    BY <1>0, <2>2
  <2>4. Count > 0
    BY <1>0, <2>1, <2>3 DEF Count
  <2>5. Event(1) = isrEvent
    BY <1>0, <2>1, <2>3 DEF Event
  <2> QED
    BY <1>2, <1>4, <2>1, <2>4, <2>5
<1> QED
  BY <1>1, <1>3, <1>4 DEF Punctual

\* Nothing that the timeline is made of changes.
EventsKept ==
  /\ Count' = Count
  /\ \A i \in 1 .. Count : Event(i)' = Event(i)

LEMMA ChainKept ==
  ASSUME NEW M, QuietInv, TurnInv, ChainInv(M), Active, EventsKept,
         UNCHANGED <<shown, task, now>>,
         irq /\ isr = "idle" => irq' /\ isr' = "idle"
  PROVE  ChainInv(M)'
<1>1. PICK h : Timeline(h, M)
  BY DEF ChainInv
<1>2. Count \in Nat /\ Count' = Count
  BY CountIs DEF EventsKept
<1>3. \A i \in 1 .. Count : Events'[i] = Events[i]
  BY <1>2 DEF Events, EventsKept
<1>4. Leads(h, Events, Count, now, M)
  BY <1>1 DEF Timeline
<1>5. Leads(h, Events', Count, now, M)
  BY <1>2, <1>3, <1>4, LeadsSame
<1>6. Timeline(h, M)'
  BY <1>1, <1>2, <1>5 DEF Timeline, Ahead
<1> QED
  BY <1>6 DEF ChainInv

\* core1 hands the event it computed to the queue or to the alarm.
LEMMA KeptByCore1 ==
  ASSUME QuietInv, TurnInv, HandInv, Punctual, Active, Core1Busy, ~UpdateBatch
  PROVE  StopTasks \/ EventsKept
<1> USE DEF HasBatch, At, Active
<1>t. /\ queue \in Seq(PortEvent) /\ batch \in PortEvent /\ Len(queue) \in Nat
      /\ Offset \in 0 .. 1 /\ Count \in Nat
      /\ isr \in {"idle", "ack", "test", "release", "load", "arm", "pop"}
      /\ state \in {"READY", "RUNNING"} /\ pc1 \in Labels
  BY CountIs DEF QuietInv, TypeInv, TypeOK, Core1TypeOK, SharedTypeOK, HandlerTypeOK,
         TurnInv, LoopTurn, LockInv
<1>l. ~alarmQueued => ~HandlerOwns
  BY DEF QuietInv, LockInv
<1>o. ~HandlerOwns => Offset = 0 /\ ~Armed
  BY DEF HandlerOwns, Offset, Armed
<1>1. CASE RunLoop \/ UpdateSkip \/ LoopEnd \/ ClearAlarmQueued
  <2>1. UNCHANGED <<queue, nextPort, alarm, irq, isr, now>> /\ ~HasBatch /\ ~HasBatch'
    BY <1>1 DEF RunLoop, UpdateSkip, LoopEnd, ClearAlarmQueued, AfterUpdate, sharedVars,
                timerVars, isrVars
  <2> QED
    BY <1>t, <2>1 DEF EventsKept, Count, Event, ArmedEvent, Offset, Armed
<1>2. CASE RunReset \/ ClearTasks
  BY <1>t, <1>2 DEF RunReset, ClearTasks
<1>3. CASE Disarm
  <2>1. ~HandlerOwns
    BY <1>3, <1>l, <1>t DEF Disarm, TurnInv, LoopTurn, Stopping
  <2>2. UNCHANGED <<queue, nextPort, alarm, irq, isr, now>> /\ ~HasBatch /\ ~HasBatch'
    BY <1>3, <2>1 DEF Disarm, sharedVars, timerVars, isrVars, HandlerOwns
  <2> QED
    BY <1>t, <2>2 DEF EventsKept, Count, Event, ArmedEvent, Offset, Armed
<1>4. CASE TestQueued \/ CheckDeadline \/ SetAlarmQueued \/ (TestRearm /\ ~alarmQueued)
  <2>1. UNCHANGED <<queue, nextPort, alarm, irq, isr, now, batch>> /\ HasBatch' = HasBatch
    BY <1>4 DEF TestQueued, CheckDeadline, SetAlarmQueued, TestRearm, sharedVars,
                timerVars, isrVars
  <2> QED
    BY <1>t, <2>1 DEF EventsKept, Count, Event, ArmedEvent, Offset, Armed
<1>5. CASE TestRearm /\ alarmQueued
  <2>1. UNCHANGED <<queue, nextPort, alarm, irq, isr, now>> /\ ~HasBatch /\ ~HasBatch'
    BY <1>5 DEF TestRearm, AfterUpdate, sharedVars, timerVars, isrVars
  <2> QED
    BY <1>t, <2>1 DEF EventsKept, Count, Event, ArmedEvent, Offset, Armed
<1>6. CASE SetNextPort
  <2>1. ~HandlerOwns
    BY <1>6, <1>l DEF SetNextPort, QuietInv, LockInv
  <2>2. UNCHANGED <<queue, alarm, irq, isr, now, batch>> /\ HasBatch /\ HasBatch'
    BY <1>6 DEF SetNextPort, timerVars, isrVars
  <2>3. Offset = 0 /\ Offset' = 0
    BY <2>1, <2>2 DEF HandlerOwns, Offset, Armed
  <2> QED
    BY <1>t, <2>2, <2>3 DEF EventsKept, Count, Event
<1>7. CASE Emplace
  <2>1. /\ UNCHANGED <<nextPort, alarm, irq, isr, now, alarmQueued>>
        /\ HasBatch /\ ~HasBatch' /\ queue' = Append(queue, batch)
    BY <1>7 DEF Emplace, TurnInv, FlagTurn, timerVars, isrVars
  <2>2. Len(queue') = Len(queue) + 1 /\ queue'[Len(queue) + 1] = batch
        /\ \A i \in 1 .. Len(queue) : queue'[i] = queue[i]
    BY <1>t, <2>1
  <2>3. Offset' = Offset /\ ArmedEvent' = ArmedEvent
    BY <2>1 DEF Offset, Armed, ArmedEvent
  <2>4. Count = Offset + Len(queue) + 1 /\ Count' = Count
    BY <1>t, <2>1, <2>2, <2>3 DEF Count
  <2>5. ASSUME NEW i \in 1 .. Count PROVE Event(i)' = Event(i)
    <3>1. CASE i <= Offset
      BY <2>3, <3>1 DEF Event
    <3>2. CASE i > Offset /\ i - Offset <= Len(queue)
      <4>1. i - Offset \in 1 .. Len(queue) /\ i - Offset <= Len(queue') /\ ~(i <= Offset)
        BY <1>t, <2>2, <3>2
      <4> QED
        BY <2>2, <2>3, <4>1 DEF Event
    <3>3. CASE i > Offset /\ ~(i - Offset <= Len(queue))
      <4>1. i - Offset = Len(queue) + 1 /\ i - Offset <= Len(queue') /\ ~(i <= Offset)
        BY <1>t, <2>2, <2>4, <3>3
      <4> QED
        BY <2>2, <2>3, <3>3, <4>1 DEF Event
    <3> QED
      BY <1>t, <3>1, <3>2, <3>3
  <2> QED
    BY <2>4, <2>5 DEF EventsKept
<1>8. CASE ArmAlarm
  <2>1. queue = <<>> /\ Len(queue) = 0 /\ ~HandlerOwns /\ nextPort = Port(batch)
        /\ HasBatch
    BY <1>8 DEF ArmAlarm, QuietInv, LockInv, TurnInv, FlagTurn, HandInv
  <2>2. batch.time \in Uint /\ batch.time # now /\ batch.time # Unarmed
    BY <1>8, <1>t, UintRangeAssumption DEF ArmAlarm, Punctual, PortEvent, Uint, Unarmed
  <2>3. alarm' = batch.time /\ irq' = irq /\ isr' = isr /\ now' = now /\ queue' = queue
        /\ nextPort' = nextPort /\ ~HasBatch'
    BY <1>8, <2>2 DEF ArmAlarm, WriteAlarm, AfterUpdate, sharedVars, isrVars
  <2>4. Offset = 0 /\ Offset' = 1
    BY <2>1, <2>2, <2>3 DEF HandlerOwns, Offset, Armed
  <2>5. Count = 1 /\ Count' = 1
    BY <2>1, <2>3, <2>4 DEF Count
  <2>6. Event(1) = batch
    BY <2>1, <2>4 DEF Event
  <2>7. Event(1)' = [mask |-> nextPort.mask, state |-> nextPort.state, time |-> batch.time]
    BY <2>1, <2>3, <2>4 DEF Event, ArmedEvent, HandlerOwns
  <2>8. Event(1)' = batch
    BY <1>t, <2>1, <2>7 DEF Port, PortEvent
  <2> QED
    BY <2>5, <2>6, <2>8 DEF EventsKept
<1> QED
  BY <1>1, <1>2, <1>3, <1>4, <1>5, <1>6, <1>7, <1>8 DEF Core1Busy, Update1

\* The handler takes the next event from the queue to the alarm.
LEMMA KeptByHandler ==
  ASSUME QuietInv, PopsWhatItRead, TurnInv, HandInv, Punctual, Isr, ~IsrApply
  PROVE  EventsKept
<1>t. /\ queue \in Seq(PortEvent) /\ isrEvent \in PortEvent /\ Len(queue) \in Nat
      /\ Offset \in 0 .. 1 /\ Count \in Nat
      /\ isr \in {"idle", "ack", "test", "release", "load", "arm", "pop"}
  BY CountIs DEF QuietInv, TypeInv, TypeOK, SharedTypeOK, HandlerTypeOK
<1>h. ~HasBatch
  BY DEF Isr, IsrApply, IsrAck, IsrTestEmpty, IsrRelease, IsrLoad, IsrArm, IsrPop,
         TurnInv, HandlerTurn, HandlerRuns, HasBatch
<1>c. UNCHANGED pc1 /\ ~HasBatch'
  BY DEF Isr, IsrApply, IsrAck, IsrTestEmpty, IsrRelease, IsrLoad, IsrArm, IsrPop,
         TurnInv, HandlerTurn, HandlerRuns, HasBatch, core1Vars
<1>1. CASE IsrAck \/ IsrTestEmpty \/ IsrLoad \/ IsrArm
  <2>1. queue' = queue /\ isr # "idle" /\ isr' # "idle"
    BY <1>1 DEF IsrAck, IsrTestEmpty, IsrLoad, IsrArm, sharedVars
  <2>2. Offset = 0 /\ Offset' = 0
    BY <2>1 DEF Offset, Armed
  <2> QED
    BY <1>t, <1>h, <1>c, <2>1, <2>2 DEF EventsKept, Count, Event
<1>2. CASE IsrRelease
  <2>1. queue = <<>> /\ queue' = queue /\ isr = "release" /\ isr' = "idle" /\ alarm = Unarmed
        /\ alarm' = alarm /\ ~irq /\ ~irq'
    BY <1>2 DEF IsrRelease, timerVars, TurnInv, HandlerTurn, QuietInv, LockInv, HandlerInv
  <2>2. Offset = 0 /\ Offset' = 0
    BY <2>1 DEF Offset, Armed
  <2> QED
    BY <1>t, <1>h, <1>c, <2>1, <2>2 DEF EventsKept, Count, Event
<1>3. CASE IsrPop
  <2>1. /\ isr = "pop" /\ isr' = "idle" /\ ~irq /\ ~irq' /\ alarm' = alarm
        /\ alarm = isrEvent.time /\ nextPort = Port(isrEvent) /\ nextPort' = nextPort
        /\ queue # <<>> /\ Head(queue) = isrEvent /\ queue' = Tail(queue)
    BY <1>3 DEF IsrPop, timerVars, TurnInv, HandlerTurn, HandInv, PopsWhatItRead
  <2>2. isrEvent.time # Unarmed
    BY <1>t, UintRangeAssumption DEF PortEvent, Uint, Unarmed
  <2>3. Offset = 0 /\ Offset' = 1
    BY <2>1, <2>2 DEF Offset, Armed
  <2>4. /\ Len(queue) > 0 /\ Len(queue') = Len(queue) - 1 /\ queue[1] = isrEvent
        /\ \A i \in 1 .. Len(queue) - 1 : queue'[i] = queue[i + 1]
    BY <1>t, <2>1
  <2>5. Count = Len(queue) /\ Count' = Count
    BY <1>t, <1>h, <1>c, <2>3, <2>4 DEF Count
  <2>6. ASSUME NEW i \in 1 .. Count PROVE Event(i)' = Event(i)
    <3>1. CASE i = 1
      <4>1. Event(1) = isrEvent
        BY <1>t, <2>3, <2>4 DEF Event
      <4>2. Event(1)' = [mask |-> nextPort.mask, state |-> nextPort.state, time |-> isrEvent.time]
        BY <2>1, <2>3 DEF Event, ArmedEvent
      <4>3. Event(1)' = isrEvent
        BY <1>t, <2>1, <4>2 DEF Port, PortEvent
      <4> QED
        BY <3>1, <4>1, <4>3
    <3>2. CASE i # 1
      <4>1. /\ ~(i <= 0) /\ ~(i <= 1) /\ i - 0 = i /\ i <= Len(queue) /\ i - 1 \in 1 .. Len(queue) - 1
            /\ i - 1 <= Len(queue') /\ (i - 1) + 1 = i
        BY <1>t, <2>4, <2>5, <3>2
      <4>2. Event(i) = queue[i]
        BY <2>3, <4>1 DEF Event
      <4>3. Event(i)' = queue'[i - 1]
        BY <2>3, <4>1 DEF Event
      <4> QED
        BY <2>4, <4>1, <4>2, <4>3
    <3> QED
      BY <3>1, <3>2
  <2> QED
    BY <2>5, <2>6 DEF EventsKept
<1> QED
  BY <1>1, <1>2, <1>3 DEF Isr

LEMMA ChainStart ==
  ASSUME NEW M \in Nat, Short(M), QuietInv, TurnInv, TaskInv, StartSchedule
  PROVE  ChainInv(M)'
<1>1. /\ pc1 = "loop" /\ state = "READY" /\ ~HandlerOwns /\ ~alarmQueued /\ queue = <<>>
      /\ AllGood(task) /\ now \in Uint
  BY DEF StartSchedule, At, QuietInv, StopInv, TurnInv, FlagTurn, LoopTurn, TaskInv, LockInv
<1>2. /\ DOMAIN task' = DOMAIN task /\ shown' = task' /\ now' = now
      /\ UNCHANGED <<queue, alarm, irq, isr>> /\ pc1' = "update"
      /\ \A p \in DOMAIN task : task'[p] = StartedAt(task[p], now)
  BY DEF StartSchedule, sharedVars, isrVars, timerVars
<1>3. \A p \in DOMAIN task' : /\ Good(task'[p])
                              /\ Gap(task'[p].next, now) > 0 /\ Gap(task'[p].next, now) <= M
  <2> TAKE p \in DOMAIN task'
  <2>1. Good(task[p]) /\ task'[p] = StartedAt(task[p], now)
    BY <1>1, <1>2 DEF AllGood
  <2>2. Good(StartedAt(task[p], now)) /\ 0 < Gap(StartedAt(task[p], now).next, now)
        /\ Gap(StartedAt(task[p], now).next, now) <= M
    BY <1>1, <2>1, StartNext
  <2>3. StartedAt(task[p], now).next \in Uint
    BY <2>2 DEF Good, Task
  <2>4. Gap(StartedAt(task[p], now).next, now) \in Nat
    BY <1>1, <2>3, GapIs
  <2> QED
    BY <2>1, <2>2, <2>4
<1>4. Offset' = 0 /\ ~HasBatch' /\ Len(queue') = 0
  BY <1>1, <1>2 DEF Offset, Armed, HasBatch, HandlerOwns
<1>5. Count' = 0
  BY <1>4 DEF Count
<1> DEFINE h == [i \in {0} |-> task']
<1>6. h[0] = task' /\ \A i \in 0 .. 0 : AllGood(h[i])
  BY <1>3 DEF AllGood
<1> HIDE DEF h
<1>7. Leads(h, Events', 0, now, M)
  BY <1>3, <1>6 DEF Leads, Live
<1>8. Ahead(shown)'
  BY <1>2, <1>3 DEF Ahead, Live
<1>9. h[0] = shown' /\ h[Count'] = task' /\ Leads(h, Events', Count', now', M)
  BY <1>2, <1>5, <1>6, <1>7
<1>10. \E k : k[0] = shown' /\ k[Count'] = task' /\ Leads(k, Events', Count', now', M)
  BY <1>9
<1> QED
  BY <1>8, <1>10 DEF ChainInv, Timeline

LEMMA ChainAppend ==
  ASSUME NEW M \in Nat, Short(M), KeepUpInv(M), UpdateBatch
  PROVE  ChainInv(M)'
<1> USE DEF KeepUpInv
<1>1. Active /\ ~QueueFull /\ pc1 = "update" /\ pq = Live(task)
  BY DEF UpdateBatch, At, Active, TaskInv
<1>2. PICK h : Timeline(h, M)
  BY <1>1 DEF ChainInv
<1>3. /\ Leads(h, Events, Count, now, M) /\ h[0] = shown /\ h[Count] = task
      /\ (irq /\ isr = "idle") \/ Ahead(shown)
  BY <1>2 DEF Timeline
<1>4. /\ Len(queue) \in Nat /\ Offset \in 0 .. 1 /\ Count \in 0 .. NumTTLIOs
      /\ NumTTLIOs \in Nat /\ now \in Uint /\ Count \in 0 .. NumTTLIOs + 1
      /\ queue \in Seq(PortEvent)
  BY <1>1, CountIs DEF QuietInv, TypeInv, TypeOK, PortTypeOK, SharedTypeOK
<1>5. PICK top \in Earliest :
             LET T   == task[top].next
                 due == {p \in pq : task[p].next = T}
             IN /\ task' = [p \in DOMAIN task |->
                              IF p \in due THEN Update(task[p]) ELSE task[p]]
                /\ batch' = [mask  |-> due, time |-> T,
                             state |-> {p \in due : task'[p].state = "HIGH"}]
                /\ pq' = {p \in pq : p \in due => RequiresFutureUpdate(task'[p])}
  BY DEF UpdateBatch
<1>6. /\ top \in Live(task)
      /\ \A p \in Live(task) : ~After(task[top].next, task[p].next)
  BY <1>1 DEF Earliest, UpdatesBefore
<1> PICK c \in 0 .. NumTTLIOs : Count = c
  BY <1>4
<1> DEFINE e == batch'
           g == task'
<1>7. /\ e.time = task[top].next
      /\ e.mask = {p \in Live(task) : task[p].next = e.time}
      /\ g = [p \in DOMAIN task |-> IF p \in e.mask THEN Update(task[p]) ELSE task[p]]
      /\ e.state = {p \in e.mask : g[p].state = "HIGH"}
  BY <1>1, <1>5
<1>8. /\ UNCHANGED <<queue, nextPort, alarm, irq, isr, now, shown>>
      /\ ~HasBatch /\ HasBatch'
  BY DEF UpdateBatch, At, HasBatch, sharedVars, isrVars, timerVars, portVars
<1>9. Offset' = Offset /\ ArmedEvent' = ArmedEvent
  BY <1>8 DEF Offset, Armed, ArmedEvent
<1>10. Count = Offset + Len(queue) /\ Count' = Count + 1
  BY <1>4, <1>8, <1>9 DEF Count
<1>11. /\ \A i \in 1 .. Count : Events'[i] = Events[i]
       /\ Events'[Count + 1] = e
  <2>1. ASSUME NEW i \in 1 .. Count PROVE Events'[i] = Events[i]
    <3>1. i \in 1 .. Count'
      BY <1>4, <1>10
    <3>2. i <= Offset \/ (~(i <= Offset) /\ i - Offset <= Len(queue))
      BY <1>4, <1>10
    <3>3. Event(i)' = Event(i)
      BY <1>8, <1>9, <3>2 DEF Event
    <3> QED
      BY <3>1, <3>3 DEF Events
  <2>2. c + 1 \in 1 .. Count' /\ ~(c + 1 <= Offset) /\ ~(c + 1 - Offset <= Len(queue))
    BY <1>4, <1>10
  <2>3. Event(c + 1)' = batch'
    <3> DEFINE i == c + 1
    <3>1. ~(i <= Offset') /\ ~(i - Offset' <= Len(queue'))
      BY <1>4, <1>8, <1>9, <2>2
    <3> HIDE DEF i
    <3>2. Event(i)' = batch'
      BY <3>1 DEF Event
    <3> QED
      BY <3>2 DEF i
  <2>4. Events'[c + 1] = batch'
    BY <2>2, <2>3 DEF Events
  <2> QED
    BY <2>1, <2>4
<1>12. \A p \in Live(task) : Gap(task[p].next, now) > 0
  <2> TAKE p \in Live(task)
  <2>1. /\ task[p].next \in Uint
        /\ Count > 0 => Gap(Events[Count].time, now) < Gap(task[p].next, now)
    BY <1>3, <1>4, LeadsBeyond
  <2>2. CASE Count > 0
    <3>1. Count \in 1 .. Count
      BY <1>4, <2>2
    <3>2. Events[Count].time \in Uint
      BY <1>3, <1>4, <3>1, LeadsTimes
    <3> QED
      BY <1>4, <2>1, <2>2, <3>2, GapIs
  <2>3. CASE Count = 0
    <3>1. Offset = 0
      BY <1>4, <1>10, <2>3
    <3>2. ~(irq /\ isr = "idle")
      BY <3>1 DEF Offset, Armed
    <3> QED
      BY <1>3, <2>3, <3>2 DEF Ahead
  <2> QED
    BY <1>4, <2>2, <2>3
<1>13. LeadsFrom(h[0], Events', c + 1, task', now, M)
  <2> HIDE DEF e, g
  <2>1. Leads(h, Events, c, now, M) /\ h[c] = task
    BY <1>3
  <2>2. \A p \in Live(h[c]) : Gap(h[c][p].next, now) > 0
    BY <1>12, <2>1
  <2>3. EarliestStep(h[c], e, g)
    BY <1>6, <1>7, <2>1 DEF EarliestStep
  <2>4. Longer(Events', Events, c, e)
    BY <1>11 DEF Longer
  <2>5. now \in Uint
    BY <1>4
  <2>6. LeadsFrom(h[0], Events', c + 1, g, now, M)
    BY <2>1, <2>2, <2>3, <2>4, <2>5, LeadsAppend
  <2> QED
    BY <2>6 DEF g
<1>14. h[0] = shown' /\ Count' = c + 1 /\ now' = now
  BY <1>3, <1>8, <1>10
<1>15. \E k : k[0] = shown' /\ k[Count'] = task' /\ Leads(k, Events', Count', now', M)
  BY <1>13, <1>14 DEF LeadsFrom
<1>16. (irq' /\ isr' = "idle") \/ Ahead(shown)'
  BY <1>3, <1>8 DEF Ahead
<1> QED
  BY <1>15, <1>16 DEF ChainInv, Timeline

\* What the handler applies: the steps of all tasks whose time has come.
LEMMA AppliesNow ==
  ASSUME NEW M \in Nat, Short(M), KeepUpInv(M), IsrApply, NEW h, Timeline(h, M)
  PROVE  /\ Count \in 1 .. NumTTLIOs + 1 /\ Events[1] = ArmedEvent
         /\ ArmedEvent.time = now /\ Offset = 1
         /\ Follows(shown, ArmedEvent, h[1], now, M)
         /\ shown' = h[1]
<1> USE DEF KeepUpInv
<1>1. irq /\ isr = "idle"
  BY DEF IsrApply
<1>2. Offset = 1
  BY <1>1 DEF Offset, Armed
<1>3. Len(queue) \in Nat /\ Count \in 0 .. NumTTLIOs + 1 /\ NumTTLIOs \in Nat
  BY CountIs
<1>4. Count \in 1 .. NumTTLIOs + 1 /\ 1 \in 1 .. Count
  BY <1>2, <1>3 DEF Count
<1>5. Events[1] = ArmedEvent
  BY <1>2, <1>4 DEF Events, Event
<1>6. Follows(h[1 - 1], Events[1], h[1], now, M)
  BY <1>4 DEF Timeline, Leads
<1>7. h[0] = shown /\ 1 - 1 = 0
  BY DEF Timeline
<1>8. Follows(shown, ArmedEvent, h[1], now, M)
  BY <1>5, <1>6, <1>7
<1>9. shown' = h[1]
  BY <1>8 DEF Follows, IsrApply, ArmedEvent
<1>10. ArmedEvent.time = now
  BY <1>1 DEF ArmedEvent
<1> QED
  BY <1>2, <1>4, <1>5, <1>8, <1>9, <1>10

LEMMA ChainApply ==
  ASSUME NEW M \in Nat, Short(M), KeepUpInv(M), IsrApply
  PROVE  ChainInv(M)'
<1> USE DEF KeepUpInv
<1>1. Active /\ pc1 \in {"loop", "update", "exit"}
  BY DEF IsrApply, TurnInv, HandlerTurn, HandlerRuns
<1>2. PICK h : Timeline(h, M)
  BY <1>1 DEF ChainInv
<1>3. /\ Count \in 1 .. NumTTLIOs + 1 /\ Events[1] = ArmedEvent /\ ArmedEvent.time = now
      /\ Offset = 1 /\ shown' = h[1]
  BY <1>2, AppliesNow
<1>4. h[Count] = task /\ Leads(h, Events, Count, now, M)
  BY <1>2 DEF Timeline
<1>5. /\ UNCHANGED <<pc1, task, queue, alarmQueued, batch, now>> /\ isr' = "ack"
      /\ ~HasBatch /\ ~HasBatch'
  BY <1>1 DEF IsrApply, core1Vars, sharedVars, timerVars, HasBatch
<1>6. Offset' = 0
  BY <1>5 DEF Offset, Armed
<1>7. Len(queue) \in Nat /\ NumTTLIOs \in Nat /\ now \in Uint
  BY CountIs DEF QuietInv, LockInv
<1>8. Count = Len(queue) + 1 /\ Count' = Len(queue)
  BY <1>3, <1>5, <1>6, <1>7 DEF Count
<1> PICK c \in 1 .. NumTTLIOs + 1 : Count = c
  BY <1>3
<1>9. \A i \in 1 .. c - 1 : Events'[i] = Events[i + 1]
  <2> TAKE i \in 1 .. c - 1
  <2>1. /\ i \in 1 .. Count' /\ i + 1 \in 1 .. Count
        /\ ~(i <= 0) /\ ~(i + 1 <= 1) /\ i - 0 = i /\ (i + 1) - 1 = i /\ i <= Len(queue)
    BY <1>3, <1>7, <1>8
  <2>2. Event(i)' = queue[i]
    BY <1>5, <1>6, <2>1 DEF Event
  <2>3. Event(i + 1) = queue[i]
    BY <1>3, <2>1 DEF Event
  <2> QED
    BY <2>1, <2>2, <2>3 DEF Events
<1> DEFINE hh == [i \in 0 .. c - 1 |-> h[i + 1]]
<1>10. /\ \A i \in 0 .. c - 1 : hh[i] = h[i + 1]
       /\ hh[0] = h[1] /\ hh[c - 1] = h[c]
  BY <1>3
<1> HIDE DEF hh
<1>11. Events[1].time = now
  BY <1>3
<1>12. /\ Leads(hh, Events', c - 1, now, M)
       /\ \A p \in Live(hh[0]) : Gap(hh[0][p].next, now) > 0
  BY <1>4, <1>7, <1>9, <1>10, <1>11, LeadsDrop
<1>13. Ahead(shown)'
  BY <1>3, <1>5, <1>10, <1>12 DEF Ahead
<1>14. hh[0] = shown' /\ hh[Count'] = task' /\ Leads(hh, Events', Count', now', M)
  <2>1. Count' = c - 1
    BY <1>7, <1>8
  <2> QED
    BY <1>3, <1>4, <1>5, <1>10, <1>12, <2>1
<1>15. \E k : k[0] = shown' /\ k[Count'] = task' /\ Leads(k, Events', Count', now', M)
  BY <1>14
<1> QED
  BY <1>13, <1>15 DEF ChainInv, Timeline

\* Time passes only while the handler is armed for what comes next.
LEMMA ChainTick ==
  ASSUME NEW M \in Nat, Short(M), KeepsUp, KeepUpInv(M), Tick
  PROVE  ChainInv(M)'
<1> USE DEF KeepUpInv
<1> SUFFICES ASSUME Active' PROVE \E h : Timeline(h, M)'
  BY DEF ChainInv
<1>1. Active
  BY DEF Active, Tick, core1Vars
<1>2. PICK h : Timeline(h, M)
  BY <1>1 DEF ChainInv
<1>3. /\ ~irq /\ isr = "idle" /\ goal = "RUNNING" /\ pc1 \in {"loop", "update", "exit"}
      /\ ~Finished /\ (QueueFull \/ pq = {})
  BY <1>1 DEF Tick, CaughtUp, Active
<1>4. alarmQueued
  BY <1>3 DEF Finished, TurnInv, FlagTurn
<1>5. alarm # Unarmed
  BY <1>3, <1>4 DEF TurnInv, FlagTurn, HandlerOwns
<1>6. /\ Leads(h, Events, Count, now, M) /\ h[0] = shown /\ h[Count] = task
      /\ \A p \in Live(h[0]) : Gap(h[0][p].next, now) > 0
  BY <1>2, <1>3 DEF Timeline, Ahead
<1>7. /\ Len(queue) \in Nat /\ NumTTLIOs \in Nat /\ now \in Uint /\ Count \in 0 .. NumTTLIOs + 1
      /\ UintRange \in Nat \ {0, 1}
  BY CountIs, UintRangeAssumption DEF QuietInv, LockInv
<1>8. Offset = 1 /\ Count > 0 /\ 1 \in 1 .. Count
  BY <1>3, <1>5, <1>7 DEF Offset, Armed, Count
<1>9. Events[1] = ArmedEvent /\ ArmedEvent.time = alarm
  BY <1>3, <1>8 DEF Events, Event, ArmedEvent
<1>10. /\ now' = Plus(now, 1) /\ now' \in Uint
       /\ IF alarm = now' THEN irq' = TRUE /\ alarm' = Unarmed ELSE UNCHANGED <<irq, alarm>>
       /\ UNCHANGED <<pc1, task, batch, queue, nextPort, alarmQueued, isr, shown>>
  BY TickFiresNothing DEF Tick, core1Vars, sharedVars, isrVars, portVars, QuietInv
<1>11. ~HasBatch /\ ~HasBatch' /\ Offset' = 1
  BY <1>3, <1>5, <1>10 DEF HasBatch, Offset, Armed
<1>12. Count' = Count
  BY <1>8, <1>10, <1>11 DEF Count
<1>13. ArmedEvent' = ArmedEvent
  BY <1>3, <1>10 DEF ArmedEvent
<1>14. \A i \in 1 .. Count : Events'[i] = Events[i]
  <2> TAKE i \in 1 .. Count
  <2>1. Event(i)' = Event(i)
    <3>1. i <= 1 \/ i - 1 <= Len(queue)
      BY <1>7, <1>8, <1>11 DEF Count
    <3> QED
      BY <1>8, <1>10, <1>11, <1>13, <3>1 DEF Event
  <2> QED
    BY <1>12, <2>1 DEF Events
<1>15. /\ Leads(h, Events, Count, now', M)
       /\ \A p \in Live(h[0]) : Gap(h[0][p].next, now') = Gap(h[0][p].next, now) - 1
       /\ Gap(Events[1].time, now) > 0
  <2>1. /\ Leads(h, Events, Count, Plus(now, 1), M)
        /\ \A p \in Live(h[0]) : Gap(h[0][p].next, Plus(now, 1)) = Gap(h[0][p].next, now) - 1
        /\ Count > 0 => Gap(Events[1].time, now) > 0
    BY <1>6, <1>7, LeadsTick
  <2> QED
    BY <1>8, <1>10, <2>1
<1>16. Leads(h, Events', Count, now', M)
  BY <1>7, <1>14, <1>15, LeadsSame
<1>17. (irq' /\ isr' = "idle") \/ Ahead(shown)'
  <2>1. CASE alarm = now'
    BY <1>3, <1>10, <2>1
  <2>2. CASE alarm # now'
    <3>1. \A p \in Live(shown) : Gap(shown[p].next, now') > 0
      <4> TAKE p \in Live(shown)
      <4>1. shown[p].next \in Uint
        BY DEF TaskInv, AllGood, Live, Good, Task
      <4>2. Gap(shown[p].next, now) \in Nat /\ Gap(shown[p].next, now) > 0
            /\ Gap(shown[p].next, now') = Gap(shown[p].next, now) - 1
        BY <1>6, <1>7, <1>15, <4>1, GapIs
      <4>3. alarm \in Uint
        BY <1>5 DEF QuietInv, TypeInv, TypeOK, PortTypeOK
      <4>4. Gap(alarm, now) > 0 /\ Gap(alarm, now) \in Nat
        BY <1>7, <1>9, <1>15, <4>3, GapIs
      <4>5. Gap(alarm, now') = Gap(alarm, now) - 1
        BY <1>7, <1>10, <4>3, <4>4, GapTick
      <4>6. Gap(alarm, now') # 0
        BY <1>10, <2>2, <4>3, GapNow, GapSame
      <4>7. Gap(alarm, now) <= Gap(shown[p].next, now)
        <5>1. Follows(h[1 - 1], Events[1], h[1], now, M) /\ 1 - 1 = 0
          BY <1>6, <1>8 DEF Leads
        <5>2. Follows(shown, ArmedEvent, h[1], now, M)
          BY <1>6, <1>9, <5>1
        <5> QED
          BY <1>9, <5>2 DEF Follows
      <4> QED
        BY <4>2, <4>4, <4>5, <4>6, <4>7
    <3> QED
      BY <1>10, <3>1 DEF Ahead
  <2> QED
    BY <2>1, <2>2
<1>18. Timeline(h, M)'
  BY <1>6, <1>10, <1>12, <1>16, <1>17 DEF Timeline
<1> QED
  BY <1>18
-----------------------------------------------------------------------------
(***************************************************************************)
(* The invariant, and what follows from it.                                 *)
(***************************************************************************)
LEMMA KeepUpInit ==
  ASSUME NEW M \in Nat, Init
  PROVE  KeepUpInv(M)
<1>1. QuietInv
  BY QuietInit
<1>2. ~Active /\ ~HandlerOwns /\ Len(queue) = 0
  BY DEF Init, Active, HandlerOwns
<1>3. TurnInv
  BY <1>2 DEF Init, TurnInv, HandlerTurn, FlagTurn, LoopTurn, HandlerRuns, Active
<1>4. TaskInv
  <2>1. DOMAIN NoTasks = {}
    BY NoTasksType
  <2> QED
    BY <2>1 DEF Init, TaskInv, Live, AllGood, InitialPort, HighAtStart, NoPort
<1>5. HandInv /\ PopsWhatItRead
  BY DEF Init, HandInv, PopsWhatItRead
<1>6. ChainInv(M)
  BY <1>2 DEF ChainInv
<1> QED
  BY <1>1, <1>3, <1>4, <1>5, <1>6 DEF KeepUpInv

LEMMA ChainStep ==
  ASSUME NEW M \in Nat, Short(M), KeepsUp, KeepUpInv(M), [Next]_vars
  PROVE  ChainInv(M)'
<1> USE DEF KeepUpInv
<1>0. Punctual
  BY PunctualNow
<1>1. ASSUME ~Active' PROVE ChainInv(M)'
  BY <1>1 DEF ChainInv
<1>2. CASE \E p \in Pins, s \in TaskSettings : SchedulePwmTask(p, s)
  BY <1>1, <1>2 DEF SchedulePwmTask, At, Active
<1>3. CASE StartSchedule
  BY <1>3, ChainStart
<1>4. CASE UpdateBatch
  BY <1>4, ChainAppend
<1>5. CASE StopTasks
  BY <1>1, <1>5 DEF StopTasks, Active
<1>6. CASE Core1Busy /\ ~UpdateBatch /\ ~StopTasks
  <2>1. Active
    BY <1>6
       DEF Core1Busy, Update1, RunLoop, UpdateSkip, TestQueued, Emplace, CheckDeadline,
           TestRearm, SetNextPort, SetAlarmQueued, ArmAlarm, LoopEnd, RunReset, Disarm,
           ClearAlarmQueued, ClearTasks, Active, At
  <2>2. EventsKept
    BY <1>0, <1>6, <2>1, KeptByCore1
  <2>3. CASE ArmAlarm
    <3>1. UNCHANGED <<shown, task, now>> /\ ~(irq /\ isr = "idle")
      BY <2>3 DEF ArmAlarm, At, portVars, QuietInv, LockInv, HandlerOwns
    <3> QED
      BY <2>1, <2>2, <3>1, ChainKept
  <2>4. CASE ~ArmAlarm
    <3>1. state # "RESET"
      BY DEF TurnInv, LoopTurn
    <3>2. UNCHANGED <<shown, task, now, irq, isr>>
      BY <1>6, <2>4, <3>1
         DEF Core1Busy, Update1, RunLoop, UpdateSkip, TestQueued, Emplace, CheckDeadline,
             TestRearm, SetNextPort, SetAlarmQueued, LoopEnd, RunReset, Disarm,
             ClearAlarmQueued, ClearTasks, portVars, timerVars, isrVars
    <3> QED
      BY <2>1, <2>2, <3>2, ChainKept
  <2> QED
    BY <2>3, <2>4
<1>7. CASE IsrApply
  BY <1>7, ChainApply
<1>8. CASE Isr /\ ~IsrApply
  <2>1. Active
    BY <1>8
       DEF Isr, IsrAck, IsrTestEmpty, IsrRelease, IsrLoad, IsrArm, IsrPop,
           TurnInv, HandlerTurn, HandlerRuns
  <2>2. EventsKept
    BY <1>0, <1>8, KeptByHandler
  <2>3. UNCHANGED <<shown, task, now>> /\ ~(irq /\ isr = "idle")
    BY <1>8
       DEF Isr, IsrAck, IsrTestEmpty, IsrRelease, IsrLoad, IsrArm, IsrPop,
           core1Vars, portVars, timerVars
  <2> QED
    BY <2>1, <2>2, <2>3, ChainKept
<1>9. CASE Tick
  BY <1>9, ChainTick
<1>10. CASE UNCHANGED vars
  <2>1. CASE Active
    <3>1. EventsKept
      BY <1>10 DEF vars, core1Vars, sharedVars, isrVars, timerVars, EventsKept, Count,
                   Event, ArmedEvent, Offset, Armed, HasBatch
    <3>2. UNCHANGED <<shown, task, now, irq, isr>>
      BY <1>10 DEF vars, core1Vars, isrVars, timerVars, portVars
    <3> QED
      BY <2>1, <3>1, <3>2, ChainKept
  <2>2. CASE ~Active
    BY <1>1, <1>10, <2>2 DEF vars, core1Vars, Active
  <2> QED
    BY <2>1, <2>2
<1> QED
  BY <1>2, <1>3, <1>4, <1>5, <1>6, <1>7, <1>8, <1>9, <1>10 DEF Next

LEMMA KeepUpStep ==
  ASSUME NEW M \in Nat, Short(M), KeepsUp, ~MayStop, KeepUpInv(M), [Next]_vars
  PROVE  KeepUpInv(M)'
<1>0. QuietInv /\ PopsWhatItRead /\ TurnInv /\ HandInv /\ TaskInv
  BY DEF KeepUpInv
<1>1. Punctual
  BY PunctualNow
<1>2. CancelSafe
  BY <1>0, TurnCancels
<1>3. QuietInv'
  BY <1>0, <1>2, QuietStep
<1>4. PopsWhatItRead'
  BY <1>0, PopsStep DEF QuietInv
<1>5. TurnInv'
  BY <1>0, <1>1, TurnCore1, TurnHandler DEF Next
<1>6. HandInv'
  BY <1>0, <1>1, HandStep
<1>7. TaskInv'
  BY <1>0, TaskStep
<1>8. ChainInv(M)'
  BY ChainStep
<1> QED
  BY <1>3, <1>4, <1>5, <1>6, <1>7, <1>8 DEF KeepUpInv

LEMMA KeepUpAlways ==
  ASSUME NEW M \in Nat, Short(M), KeepsUp, ~MayStop
  PROVE  Spec => []KeepUpInv(M)
<1>1. Init => KeepUpInv(M)
  BY KeepUpInit
<1>2. KeepUpInv(M) /\ [Next]_vars => KeepUpInv(M)'
  BY KeepUpStep
<1> QED
  BY <1>1, <1>2, PTL DEF Spec

\* A schedule that keeps up is never declared failed, for any number of pins
\* and any timer wide enough for the trains: the deadline test takes no event
\* of the future for one of the past (pwm_scheduler.cpp:148-156).
THEOREM NoFalseAlarms ==
  ASSUME NEW M \in Nat, Short(M), KeepsUp, ~MayStop
  PROVE  Spec => []NoFalseAlarm
<1>1. KeepUpInv(M) => NoFalseAlarm
  BY DEF KeepUpInv, TurnInv, LoopTurn, NoFalseAlarm
<1> QED
  BY <1>1, KeepUpAlways, PTL

\* With nothing on its way the port shows what core1 has computed.
LEMMA NothingPending ==
  ASSUME NEW M, KeepUpInv(M), Active, ~alarmQueued, pc1 \in {"loop"} \cup Stopping
  PROVE  shown = task
<1>1. QuietInv /\ TurnInv /\ ChainInv(M)
  BY DEF KeepUpInv
<1>2. queue = <<>> /\ ~HandlerOwns
  BY <1>1 DEF TurnInv, FlagTurn, QuietInv, LockInv
<1>3. Len(queue) = 0 /\ Offset = 0 /\ ~HasBatch
  BY <1>2 DEF Offset, Armed, HandlerOwns, HasBatch, Stopping
<1>4. Count = 0
  BY <1>3 DEF Count
<1>5. PICK h : Timeline(h, M)
  BY <1>1 DEF ChainInv
<1> QED
  BY <1>4, <1>5 DEF Timeline

\* core1 finds the schedule finished only when every task was played to its
\* end on the port (pwm_scheduler.h:58-63).
THEOREM FinishedIsDone ==
  ASSUME NEW M \in Nat, Short(M), KeepsUp, ~MayStop
  PROVE  Spec => []FinishedMeansDone
<1>1. KeepUpInv(M) => FinishedMeansDone
  <2> SUFFICES ASSUME KeepUpInv(M), state = "RUNNING", pc1 = "loop", Finished
               PROVE  \A p \in DOMAIN shown : shown[p].state = "DONE"
    BY DEF FinishedMeansDone
  <2>1. Active /\ ~alarmQueued
    BY DEF Active, Finished
  <2>2. pq = {}
    BY <2>1 DEF KeepUpInv, TurnInv, FlagTurn, Computing
  <2>3. shown = task
    BY <2>1, NothingPending
  <2>4. Live(shown) = {}
    BY <2>2, <2>3 DEF KeepUpInv, TaskInv
  <2> QED
    BY <2>4 DEF Live
<1> QED
  BY <1>1, KeepUpAlways, PTL

LEMMA LaterIsAfter ==
  ASSUME NEW M \in Nat, Short(M), NEW n \in Uint, NEW t \in Uint, NEW u \in Uint,
         Gap(u, n) < Gap(t, n), Gap(t, n) <= Gap(u, n) + M, 2 * Gap(t, n) <= UintRange
  PROVE  After(t, u)
<1>1. Gap(t, n) \in Nat /\ Gap(u, n) \in Nat /\ UintRange \in Nat \ {0, 1} /\ 2 * M < UintRange
  BY GapIs, ShortIs, UintRangeAssumption
<1>2. 2 * Gap(u, n) <= UintRange
  BY <1>1
<1>3. 2 * Gap(t, n) < UintRange \/ Gap(u, n) > 0
  BY <1>1
<1> QED
  BY <1>1, <1>2, <1>3, AfterIs

\* Pending, which leaves out an event whose interrupt is latched and one that
\* core1 checks against the deadline, is the timeline or its end.
LEMMA PendingIs ==
  ASSUME NEW M \in Nat, KeepUpInv(M)
  PROVE  /\ Pending # <<>> => Active
         /\ Len(Pending) \in Nat /\ (Pending # <<>> => Len(Pending) > 0)
         /\ \E o \in 0 .. 1 : \/ Pending = <<>>
                              \/ /\ Len(Pending) = Count - o
                                 /\ \A i \in 1 .. Len(Pending) : Pending[i] = Events[i + o].time
<1> DEFINE A == IF alarm # Unarmed /\ isr = "idle" THEN <<alarm>> ELSE <<>>
           B == [i \in 1 .. Len(queue) |-> queue[i].time]
           C == IF pc1 \in {"queued", "emplace", "setnext", "setflag", "arm"}
                THEN <<batch.time>> ELSE <<>>
           T == Uint \cup {Unarmed}
<1>t. /\ queue \in Seq(PortEvent) /\ Len(queue) \in Nat /\ batch \in PortEvent
      /\ alarm \in T /\ Offset \in 0 .. 1 /\ Count \in Nat
      /\ QuietInv /\ TurnInv /\ PopsWhatItRead
  BY CountIs DEF KeepUpInv, QuietInv, TypeInv, TypeOK, Core1TypeOK, SharedTypeOK, PortTypeOK
<1>s. ASSUME NEW x \in T PROVE <<x>> \in Seq(T) /\ Len(<<x>>) = 1 /\ <<x>>[1] = x
  OBVIOUS
<1>n. <<>> \in Seq(T) /\ Len(<<>>) = 0
  OBVIOUS
<1>a. /\ A \in Seq(T) /\ Len(A) \in 0 .. 1
      /\ alarm # Unarmed /\ isr = "idle" => Len(A) = 1 /\ A[1] = alarm
      /\ ~(alarm # Unarmed /\ isr = "idle") => Len(A) = 0
  <2>1. CASE alarm # Unarmed /\ isr = "idle"
    <3>1. A = <<alarm>>
      BY <2>1
    <3> HIDE DEF A, T
    <3> QED
      BY <1>s, <1>t, <2>1, <3>1
  <2>2. CASE ~(alarm # Unarmed /\ isr = "idle")
    <3>1. A = <<>>
      BY <2>2
    <3> HIDE DEF A, T
    <3> QED
      BY <1>n, <2>2, <3>1
  <2> QED
    BY <2>1, <2>2
<1>b. B \in Seq(T) /\ Len(B) = Len(queue) /\ \A i \in 1 .. Len(queue) : B[i] = queue[i].time
  <2>1. \A i \in 1 .. Len(queue) : queue[i].time \in T
    <3> TAKE i \in 1 .. Len(queue)
    <3>1. queue[i] \in PortEvent
      BY <1>t
    <3> QED
      BY <3>1 DEF PortEvent
  <2> QED
    BY <1>t, <2>1
<1>c. /\ C \in Seq(T) /\ Len(C) \in 0 .. 1
      /\ pc1 \in {"queued", "emplace", "setnext", "setflag", "arm"} =>
           Len(C) = 1 /\ C[1] = batch.time
      /\ pc1 \notin {"queued", "emplace", "setnext", "setflag", "arm"} => Len(C) = 0
  <2>0. batch.time \in T
    BY <1>t DEF PortEvent
  <2>1. CASE pc1 \in {"queued", "emplace", "setnext", "setflag", "arm"}
    <3>1. C = <<batch.time>>
      BY <2>1
    <3> HIDE DEF C, T
    <3> QED
      BY <1>s, <2>0, <2>1, <3>1
  <2>2. CASE pc1 \notin {"queued", "emplace", "setnext", "setflag", "arm"}
    <3>1. C = <<>>
      BY <2>2
    <3> HIDE DEF C, T
    <3> QED
      BY <1>n, <2>2, <3>1
  <2> QED
    BY <2>1, <2>2
<1> DEFINE X == A \o B
<1>p. Pending = X \o C
  BY DEF Pending
<1> HIDE DEF A, B, C, T
<1>1. /\ X \in Seq(T) /\ Len(X) = Len(A) + Len(B)
      /\ \A i \in 1 .. Len(A) + Len(B) :
           X[i] = IF i <= Len(A) THEN A[i] ELSE B[i - Len(A)]
  BY <1>a, <1>b, ConcatProperties
<1> HIDE DEF X
<1>2. /\ Pending \in Seq(T) /\ Len(Pending) = Len(A) + Len(B) + Len(C)
      /\ \A i \in 1 .. Len(A) + Len(B) + Len(C) :
           Pending[i] = IF i <= Len(A) + Len(B) THEN X[i]
                        ELSE C[i - (Len(A) + Len(B))]
  <2>0. X \in Seq(T) /\ C \in Seq(T)
    BY <1>c, <1>1
  <2>1. /\ X \o C \in Seq(T) /\ Len(X \o C) = Len(X) + Len(C)
        /\ \A i \in 1 .. Len(X) + Len(C) :
             (X \o C)[i] = IF i <= Len(X) THEN X[i] ELSE C[i - Len(X)]
    BY <2>0, ConcatProperties
  <2> QED
    BY <1>p, <1>1, <2>1
<1>3. Len(A) \in 0 .. 1 /\ Len(B) \in Nat /\ Len(C) \in 0 .. 1
  BY <1>t, <1>a, <1>b, <1>c
<1>4. Len(Pending) \in Nat /\ (Len(Pending) = 0 => Pending = <<>>)
  BY <1>2, <1>3
<1>5. ASSUME ~Active PROVE Pending = <<>>
  <2>1. pc1 = "loop" /\ ~HandlerOwns /\ queue = <<>>
    BY <1>5, <1>t DEF Active, QuietInv, StopInv, TurnInv, FlagTurn, LoopTurn
  <2>2. Len(A) = 0 /\ Len(B) = 0 /\ Len(C) = 0
    BY <1>a, <1>b, <1>c, <2>1 DEF HandlerOwns
  <2> QED
    BY <1>2, <1>4, <2>2
<1>6. CASE pc1 \in {"deadline", "rearm"} /\ ~alarmQueued
  <2>1. ~HandlerOwns /\ queue = <<>>
    BY <1>6, <1>t DEF QuietInv, LockInv, TurnInv, FlagTurn
  <2>2. Len(A) = 0 /\ Len(B) = 0 /\ Len(C) = 0
    BY <1>6, <1>a, <1>b, <1>c, <2>1 DEF HandlerOwns
  <2> QED
    BY <1>2, <1>4, <1>5, <2>2
<1>7. CASE ~(pc1 \in {"deadline", "rearm"} /\ ~alarmQueued)
  <2>1. Len(C) = IF HasBatch THEN 1 ELSE 0
    BY <1>7, <1>c DEF HasBatch
  <2>2. HasBatch => C[1] = batch.time
    BY <1>7, <1>c DEF HasBatch
  <2> DEFINE o == IF irq /\ isr = "idle" THEN 1 ELSE 0
  <2>3. o \in 0 .. 1 /\ Len(A) = Offset - o
    <3>1. alarm # Unarmed => ~irq
      BY <1>t DEF QuietInv, LockInv, HandlerInv
    <3>2. CASE irq /\ isr = "idle"
      <4>1. Offset = 1 /\ o = 1 /\ Len(A) = 0
        BY <1>a, <3>1, <3>2 DEF Offset, Armed
      <4> QED
        BY <4>1
    <3>3. CASE ~(irq /\ isr = "idle") /\ alarm # Unarmed /\ isr = "idle"
      <4>1. Offset = 1 /\ o = 0 /\ Len(A) = 1
        BY <1>a, <3>3 DEF Offset, Armed
      <4> QED
        BY <4>1
    <3>4. CASE ~(irq /\ isr = "idle") /\ ~(alarm # Unarmed /\ isr = "idle")
      <4>1. Offset = 0 /\ o = 0 /\ Len(A) = 0
        BY <1>a, <3>4 DEF Offset, Armed
      <4> HIDE DEF o
      <4> QED
        BY <4>1
    <3> QED
      BY <3>2, <3>3, <3>4
  <2>4. Len(A) = 1 => o = 0 /\ A[1] = alarm /\ ArmedEvent.time = alarm
    BY <1>a, <1>t DEF QuietInv, LockInv, HandlerInv, ArmedEvent
  <2> HIDE DEF o
  <2>5. Len(Pending) = Count - o
    BY <1>t, <1>b, <1>2, <2>1, <2>3 DEF Count
  <2>6. ASSUME NEW i \in 1 .. Len(Pending) PROVE Pending[i] = Events[i + o].time
    <3>1. /\ i + o \in 1 .. Count /\ i \in Nat /\ i >= 1 /\ i <= Len(A) + Len(B) + Len(C)
          /\ Len(A) + o = Offset /\ o \in 0 .. 1
      BY <1>t, <1>2, <1>3, <2>3, <2>5
    <3>2. Events[i + o] = Event(i + o)
      BY <3>1 DEF Events
    <3>3. CASE i <= Len(A)
      <4>1. i = 1 /\ Len(A) = 1
        <5> DEFINE a == Len(A)
        <5>1. a \in 0 .. 1 /\ i \in Nat /\ i >= 1 /\ i <= a
          BY <1>3, <3>1, <3>3
        <5> HIDE DEF a
        <5>2. i = 1 /\ a = 1
          BY <5>1
        <5> QED
          BY <5>2 DEF a
      <4>2. o = 0 /\ A[1] = alarm /\ ArmedEvent.time = alarm
        BY <2>4, <4>1
      <4>3. Event(i + o) = ArmedEvent
        BY <3>1, <4>1, <4>2 DEF Event
      <4>4. i <= Len(A) + Len(B) /\ i \in 1 .. Len(A) + Len(B) + Len(C) /\ i \in 1 .. Len(A) + Len(B)
        BY <1>3, <3>1, <3>3
      <4>5. Pending[i] = A[i]
        BY <1>1, <1>2, <3>3, <4>4
      <4> QED
        BY <3>2, <4>1, <4>2, <4>3, <4>5
    <3>4. CASE ~(i <= Len(A)) /\ i <= Len(A) + Len(B)
      <4>1. /\ i \in 1 .. Len(A) + Len(B) + Len(C) /\ i \in 1 .. Len(A) + Len(B)
            /\ i - Len(A) \in 1 .. Len(queue)
            /\ ~(i + o <= Offset) /\ (i + o) - Offset = i - Len(A) /\ i - Len(A) <= Len(queue)
        BY <1>b, <1>3, <3>1, <3>4
      <4>2. Pending[i] = queue[i - Len(A)].time
        BY <1>1, <1>2, <1>b, <3>4, <4>1
      <4>3. Event(i + o) = queue[i - Len(A)]
        BY <4>1 DEF Event
      <4> QED
        BY <3>2, <4>2, <4>3
    <3>5. CASE ~(i <= Len(A) + Len(B))
      <4>1. /\ i \in 1 .. Len(A) + Len(B) + Len(C) /\ Len(C) = 1
            /\ i - (Len(A) + Len(B)) = 1
            /\ ~(i + o <= Offset) /\ ~((i + o) - Offset <= Len(queue))
        <5> DEFINE a == Len(A)
                   b == Len(B)
                   c == Len(C)
        <5>1. /\ a \in 0 .. 1 /\ b \in Nat /\ c \in 0 .. 1 /\ i \in Nat /\ o \in 0 .. 1
              /\ i >= 1 /\ i <= a + b + c /\ ~(i <= a + b) /\ a + o = Offset
              /\ b = Len(queue) /\ Offset \in Nat
          BY <1>b, <1>t, <1>3, <3>1, <3>5
        <5> HIDE DEF a, b, c
        <5>2. c = 1 /\ i - (a + b) = 1 /\ ~(i + o <= Offset) /\ ~((i + o) - Offset <= b)
              /\ i \in 1 .. a + b + c
          BY <5>1
        <5> QED
          BY <5>1, <5>2 DEF a, b, c
      <4>2. HasBatch
        BY <2>1, <4>1
      <4>3. Pending[i] = batch.time
        BY <1>2, <2>2, <3>5, <4>1, <4>2
      <4>4. Event(i + o) = batch
        BY <4>1 DEF Event
      <4> QED
        BY <3>2, <4>3, <4>4
    <3> QED
      BY <3>3, <3>4, <3>5
  <2> QED
    BY <1>4, <1>5, <2>3, <2>5, <2>6
<1> QED
  BY <1>6, <1>7

\* Port events are applied in time order and none twice, through the timer's
\* wrap, whatever number of pins and events is on its way.
THEOREM EventsComeInOrder ==
  ASSUME NEW M \in Nat, Short(M), KeepsUp, ~MayStop
  PROVE  Spec => []EventsInOrder
<1>1. KeepUpInv(M) => EventsInOrder
  <2> SUFFICES ASSUME KeepUpInv(M) PROVE EventsInOrder
    OBVIOUS
  <2>t. /\ Count \in 0 .. NumTTLIOs + 1 /\ Count \in Nat /\ now \in Uint /\ NumTTLIOs \in Nat
        /\ UintRange \in Nat \ {0, 1} /\ pq = Live(task)
    BY CountIs, UintRangeAssumption, PinsAssumption DEF KeepUpInv, QuietInv, LockInv, TaskInv
  <2>1. PICK o \in 0 .. 1 : \/ Pending = <<>>
                            \/ /\ Len(Pending) = Count - o
                               /\ \A i \in 1 .. Len(Pending) : Pending[i] = Events[i + o].time
    BY PendingIs
  <2>2. CASE Pending = <<>>
    <3>1. Len(Pending) = 0
      BY <2>2
    <3>2. 1 .. Len(Pending) - 1 = {}
      BY <3>1
    <3> QED
      BY <2>2, <3>2 DEF EventsInOrder
  <2>3. CASE Pending # <<>>
    <3>1. PICK h : Timeline(h, M)
      BY <2>3, PendingIs DEF KeepUpInv, ChainInv
    <3>2. Leads(h, Events, Count, now, M) /\ h[Count] = task
      BY <3>1 DEF Timeline
    <3>3. PICK n \in Nat : n = Len(Pending) /\ n > 0 /\ Count = n + o
      <4>1. Len(Pending) = Count - o /\ Len(Pending) \in Nat /\ Len(Pending) > 0
        BY <2>1, <2>3, PendingIs
      <4> QED
        BY <2>t, <4>1
    <3>4. \A i \in 1 .. n : i + o \in 1 .. Count /\ Pending[i] = Events[i + o].time
      <4>1. \A i \in 1 .. n : i + o \in 1 .. Count
        BY <2>t, <3>3
      <4> QED
        BY <2>1, <2>3, <3>3, <4>1
    <3>5. \A i \in 1 .. Count : /\ Events[i].time \in Uint
                                /\ 2 * Gap(Events[i].time, now) <= UintRange
      <4> TAKE i \in 1 .. Count
      <4>1. Events[i].time \in Uint /\ Gap(Events[i].time, now) <= Reach(i, M)
        BY <2>t, <3>2, LeadsTimes
      <4>2. i - 1 \in 0 .. NumTTLIOs + 1 /\ (i - 1) + 1 = i
        BY <2>t
      <4>3. 2 * Reach(i, M) <= UintRange /\ Reach(i, M) \in Nat
        BY <4>2, ReachIs
      <4>4. Gap(Events[i].time, now) \in Nat
        BY <2>t, <4>1, GapIs
      <4> QED
        BY <2>t, <4>1, <4>3, <4>4
    <3>6. \A i \in 1 .. n - 1 : After(Pending[i + 1], Pending[i])
      <4> TAKE i \in 1 .. n - 1
      <4>1. /\ i \in 1 .. n /\ i + 1 \in 1 .. n
            /\ (i + 1) + o \in 1 .. Count /\ i + o \in 1 .. Count
        BY <2>t, <3>3
      <4>2. Pending[i + 1] = Events[(i + 1) + o].time /\ Pending[i] = Events[i + o].time
        BY <3>4, <4>1
      <4> PICK j \in 1 .. Count : j = i + o /\ j + 1 \in 1 .. Count /\ (i + 1) + o = j + 1
                                  /\ (j + 1) - j = 1 /\ j <= j + 1 /\ j + 1 > 1 /\ (j + 1) - 1 = j
        BY <2>t, <4>1
      <4>3. Gap(Events[j + 1].time, now) <= Gap(Events[j].time, now) + Reach((j + 1) - j, M)
        BY <3>2 DEF Leads
      <4>4. Gap(Events[j].time, now) < Gap(Events[j + 1].time, now)
        <5>1. Gap(Events[(j + 1) - 1].time, now) < Gap(Events[j + 1].time, now)
          BY <2>t, <3>2, LeadsTimes
        <5> QED
          BY <5>1
      <4>5. Reach((j + 1) - j, M) = M
        BY DEF Reach
      <4>6. After(Events[j + 1].time, Events[j].time)
        BY <2>t, <3>5, <4>3, <4>4, <4>5, LaterIsAfter
      <4> QED
        BY <4>2, <4>6
    <3>7. \A p \in pq : After(task[p].next, Pending[n])
      <4> TAKE p \in pq
      <4>1. p \in Live(h[Count]) /\ Count > 0
        BY <2>t, <3>2, <3>3
      <4>2. /\ task[p].next \in Uint /\ Gap(task[p].next, now) <= Reach(Count + 1, M)
            /\ Gap(Events[Count].time, now) < Gap(task[p].next, now)
            /\ Gap(task[p].next, now) <= Gap(Events[Count].time, now) + M
        BY <2>t, <3>2, <4>1, LeadsBeyond
      <4>3. 2 * Reach(Count + 1, M) <= UintRange /\ Reach(Count + 1, M) \in Nat
        <5>1. /\ 2 * Reach(Count + 1, M) <= UintRange
              /\ Reach(Count, M) \in Nat /\ Reach(Count + 1, M) = Reach(Count, M) + M
          BY <2>t, ReachIs
        <5> QED
          BY <5>1
      <4>4. Gap(task[p].next, now) \in Nat
        BY <2>t, <4>2, GapIs
      <4>5. 2 * Gap(task[p].next, now) <= UintRange
        BY <2>t, <4>2, <4>3, <4>4
      <4>6. Count \in 1 .. Count /\ n \in 1 .. n
        BY <2>t, <3>3
      <4>7. After(task[p].next, Events[Count].time)
        BY <2>t, <3>5, <4>2, <4>5, <4>6, LaterIsAfter
      <4> QED
        BY <3>3, <3>4, <4>6, <4>7
    <3> QED
      BY <3>3, <3>6, <3>7 DEF EventsInOrder
  <2> QED
    BY <2>2, <2>3
<1> QED
  BY <1>1, KeepUpAlways, PTL
-----------------------------------------------------------------------------
(***************************************************************************)
(* Refinement: what the port shows is what polled tasks would show.  Only   *)
(* the handler's first step moves the port of a started schedule, and it is *)
(* one Poll; all that core1 does ahead of time is invisible.                *)
(***************************************************************************)
LEMMA SameOperators ==
  /\ \A t : Polled!Update(t) = Update(t)
  /\ \A t : Polled!StartingState(t) = StartingState(t)
  /\ \A t : Polled!Reset(t) = Reset(t)
  /\ \A s : Polled!NewTask(s) = NewTask(s)
  /\ \A t, n : Polled!StartedAt(t, n) = StartedAt(t, n)
  /\ \A t, n : Polled!TimeToUpdate(t, n) = TimeToUpdate(t, n)
  /\ \A t : Polled!RequiresFutureUpdate(t) = RequiresFutureUpdate(t)
  /\ Polled!Uint = Uint
<1>1. \A a, b : Polled!Plus(a, b) = Plus(a, b)
  BY DEF Polled!Plus, Plus
<1>2. \A t : Polled!StartingState(t) = StartingState(t)
  BY DEF Polled!StartingState, StartingState
<1>3. \A t, n : Polled!SetTimeStarted(t, n) = SetTimeStarted(t, n)
  BY <1>1, <1>2 DEF Polled!SetTimeStarted, SetTimeStarted
<1>4. \A t : Polled!Reset(t) = Reset(t)
  BY <1>2, <1>3 DEF Polled!Reset, Reset
<1>5. \A s : Polled!NewTask(s) = NewTask(s)
  BY <1>4 DEF Polled!NewTask, NewTask
<1>6. \A t, n : Polled!StartedAt(t, n) = StartedAt(t, n)
  BY <1>3, <1>4 DEF Polled!StartedAt, StartedAt
<1>7. \A t : Polled!Update(t) = Update(t)
  <2>1. \A t : Polled!Exhausted(t) = Exhausted(t)
    BY DEF Polled!Exhausted, Exhausted
  <2> QED
    BY <1>1, <2>1 DEF Polled!Update, Update
<1>8. \A t, n : Polled!TimeToUpdate(t, n) = TimeToUpdate(t, n)
  BY DEF Polled!TimeToUpdate, TimeToUpdate
<1>9. \A t : Polled!RequiresFutureUpdate(t) = RequiresFutureUpdate(t)
  BY DEF Polled!RequiresFutureUpdate, RequiresFutureUpdate
<1>10. Polled!Uint = Uint
  BY DEF Polled!Uint, Uint
<1> QED
  BY <1>2, <1>4, <1>5, <1>6, <1>7, <1>8, <1>9, <1>10

\* The tasks due are those the next port event is for.
LEMMA DueIs ==
  ASSUME NEW M \in Nat, Short(M), KeepUpInv(M), Active
  PROVE  /\ Polled!Due = {p \in Live(shown) : shown[p].next = now}
         /\ ~irq /\ isr = "idle" => Polled!Due = {}
<1>1. PICK h : Timeline(h, M)
  BY DEF KeepUpInv, ChainInv
<1>2. /\ AllGood(shown) /\ now \in Uint /\ Count \in 0 .. NumTTLIOs + 1 /\ Count \in Nat
      /\ NumTTLIOs \in Nat /\ UintRange \in Nat \ {0, 1} /\ 2 * M < UintRange
  BY CountIs, ShortIs, UintRangeAssumption DEF KeepUpInv, TaskInv, QuietInv, LockInv
<1>3. \A p \in Live(shown) : TimeToUpdate(shown[p], now) <=> shown[p].next = now
  <2> TAKE p \in Live(shown)
  <2>1. Gap(shown[p].next, now) <= M
    BY <1>1 DEF Timeline, Leads
  <2>2. shown[p] \in Task /\ shown[p].next \in Uint
    BY <1>2 DEF AllGood, Live, Good, Task
  <2>3. 2 * Gap(shown[p].next, now) <= UintRange
    BY <1>2, <2>1, <2>2, GapIs
  <2> QED
    BY <1>2, <2>2, <2>3, TimeToUpdateIs
<1>4. Polled!Due = {p \in Live(shown) : shown[p].next = now}
  BY <1>3, SameOperators DEF Polled!Due, Live, RequiresFutureUpdate
<1>5. ASSUME ~irq PROVE Polled!Due = {}
  <2>1. \A p \in Live(shown) : Gap(shown[p].next, now) > 0
    BY <1>1, <1>5 DEF Timeline, Ahead
  <2> QED
    BY <1>2, <1>4, <2>1, GapNow
<1> QED
  BY <1>4, <1>5

LEMMA PolledInit == Init => Polled!Init
<1> SUFFICES ASSUME Init PROVE Polled!Init
  OBVIOUS
<1>1. now \in Uint
  BY UintRangeAssumption DEF Init, Uint
<1>2. Active = FALSE
  BY DEF Init, Active
<1>3. shown = [p \in {} |-> 0] /\ gpio = {}
  BY DEF Init, NoTasks
<1> QED
  BY <1>1, <1>2, <1>3, SameOperators DEF Polled!Init

LEMMA PolledCreate ==
  ASSUME NEW M, KeepUpInv(M), NEW p \in Pins, NEW s \in TaskSettings, SchedulePwmTask(p, s)
  PROVE  Polled!Create(p, s)
<1>1. ~Active /\ Active' = Active
  BY DEF SchedulePwmTask, At, Active
<1>2. shown = task
  BY <1>1 DEF KeepUpInv, TaskInv
<1>3. /\ p \notin DOMAIN shown /\ gpio' = gpio \ {p} /\ now' = now
      /\ shown' = [q \in DOMAIN shown \cup {p} |-> IF q = p THEN NewTask(s) ELSE shown[q]]
  BY <1>2 DEF SchedulePwmTask, timerVars
<1>4. Polled!NewTask(s) = NewTask(s)
  BY SameOperators
<1> QED
  BY <1>1, <1>3, <1>4 DEF Polled!Create

LEMMA PolledStart ==
  ASSUME NEW M, KeepUpInv(M), StartSchedule
  PROVE  Polled!Start
<1>1. ~Active /\ Active' = TRUE /\ now' = now
  BY DEF StartSchedule, At, Active, timerVars
<1>2. shown = task /\ nextPort = InitialPort(task) /\ gpio = {}
  BY <1>1 DEF KeepUpInv, TaskInv, QuietInv, StopInv, Active
<1>3. shown' = [p \in DOMAIN shown |-> Polled!StartedAt(shown[p], now)]
  BY <1>2, SameOperators DEF StartSchedule
<1>4. gpio' = {p \in DOMAIN shown : Polled!StartingState(shown[p]) = "HIGH"}
  BY <1>2, SameOperators DEF StartSchedule, Drive, InitialPort, HighAtStart
<1> QED
  BY <1>1, <1>3, <1>4 DEF Polled!Start

LEMMA PolledPoll ==
  ASSUME NEW M \in Nat, Short(M), KeepUpInv(M), IsrApply
  PROVE  Polled!Poll
<1>1. Active /\ Active' = Active /\ now' = now
  BY DEF IsrApply, KeepUpInv, TurnInv, HandlerTurn, HandlerRuns, Active, core1Vars, timerVars
<1>2. PICK h : Timeline(h, M)
  BY <1>1 DEF KeepUpInv, ChainInv
<1>3. Follows(shown, ArmedEvent, h[1], now, M) /\ shown' = h[1] /\ ArmedEvent.time = now
  BY <1>2, AppliesNow
<1>4. /\ nextPort.mask = {p \in Live(shown) : shown[p].next = now} /\ nextPort.mask # {}
      /\ nextPort.state = {p \in nextPort.mask : shown'[p].state = "HIGH"}
  BY <1>3 DEF Follows, ArmedEvent
<1>5. Polled!Due = nextPort.mask
  BY <1>1, <1>4, DueIs
<1>6. gpio' = (gpio \ Polled!Due) \cup {p \in Polled!Due : shown'[p].state = "HIGH"}
  BY <1>4, <1>5 DEF IsrApply, Drive
<1>7. shown' = [p \in DOMAIN shown |->
                  IF p \in Polled!Due THEN Polled!Update(shown[p]) ELSE shown[p]]
  BY <1>5, SameOperators DEF IsrApply
<1> QED
  BY <1>1, <1>4, <1>5, <1>6, <1>7 DEF Polled!Poll

LEMMA PolledTick ==
  ASSUME NEW M \in Nat, Short(M), KeepsUp, KeepUpInv(M), Tick
  PROVE  Polled!Tick
<1>1. Active' = Active /\ now' = Plus(now, 1) /\ UNCHANGED <<shown, gpio>>
  BY DEF Tick, Active, core1Vars, portVars
<1>2. ~irq /\ isr = "idle"
  BY DEF Tick, CaughtUp
<1>3. Active => Polled!Due = {}
  BY <1>2, DueIs
<1>4. \A p \in DOMAIN shown : Polled!Elapsed(p) < UintRange
  <2> TAKE p \in DOMAIN shown
  <2>1. now \in Int /\ shown[p].start \in Int /\ UintRange \in Nat \ {0, 1}
    BY UintRangeAssumption
       DEF KeepUpInv, TaskInv, AllGood, Good, Task, Uint, QuietInv, LockInv
  <2>2. (now - shown[p].start) % UintRange < UintRange
    BY <2>1, SMT
  <2> QED
    BY <2>2 DEF Polled!Elapsed
<1>5. Polled!Plus(now, 1) = Plus(now, 1)
  BY DEF Polled!Plus, Plus
<1> QED
  BY <1>1, <1>3, <1>4, <1>5 DEF Polled!Tick

LEMMA PolledStop ==
  ASSUME NEW M, KeepUpInv(M), StopTasks
  PROVE  Polled!Stop
<1>1. Active /\ Active' = FALSE /\ now' = now
  BY DEF StopTasks, At, Active, timerVars
<1>2. gpio' = {}
  BY DEF StopTasks, KeepUpInv, QuietInv, PinInv
<1>3. shown = task
  <2>1. ~alarmQueued /\ pc1 \in Stopping
    BY DEF StopTasks, At, KeepUpInv, QuietInv, LockInv, Stopping
  <2> QED
    BY <1>1, <2>1, NothingPending
<1>4. shown' = [p \in DOMAIN shown |-> Polled!Reset(shown[p])]
  BY <1>3, SameOperators DEF StopTasks, ResetAll
<1> QED
  BY <1>1, <1>2, <1>4 DEF Polled!Stop

LEMMA PolledStep ==
  ASSUME NEW M \in Nat, Short(M), KeepsUp, KeepUpInv(M), [Next]_vars
  PROVE  [Polled!Next]_(Polled!vars)
<1>1. CASE \E p \in Pins, s \in TaskSettings : SchedulePwmTask(p, s)
  BY <1>1, PolledCreate DEF Polled!Next
<1>2. CASE StartSchedule
  BY <1>2, PolledStart DEF Polled!Next
<1>3. CASE StopTasks
  BY <1>3, PolledStop DEF Polled!Next
<1>4. CASE IsrApply
  BY <1>4, PolledPoll DEF Polled!Next
<1>5. CASE Tick
  BY <1>5, PolledTick DEF Polled!Next
<1>6. ASSUME UNCHANGED <<now, shown, gpio>>, Active' = Active
      PROVE  [Polled!Next]_(Polled!vars)
  BY <1>6 DEF Polled!vars
<1>7. CASE Core1Busy /\ ~StopTasks
  <2>1. /\ state \in {"READY", "RUNNING"}
        /\ state = "READY" /\ pc1 # "loop" => goal = "RUNNING"
        /\ goal \in {"READY", "RUNNING"}
    BY DEF KeepUpInv, TurnInv, LoopTurn, QuietInv, TypeInv, TypeOK, Core1TypeOK
  <2>2. UNCHANGED <<now, shown, gpio>>
    BY <1>7, <2>1
       DEF Core1Busy, Update1, RunLoop, UpdateSkip, UpdateBatch, TestQueued, Emplace,
           CheckDeadline, TestRearm, SetNextPort, SetAlarmQueued, ArmAlarm, LoopEnd,
           RunReset, Disarm, ClearAlarmQueued, ClearTasks, portVars, timerVars
  <2>3. Active /\ Active'
    BY <1>7, <2>1
       DEF Core1Busy, Update1, RunLoop, UpdateSkip, UpdateBatch, TestQueued, Emplace,
           CheckDeadline, TestRearm, SetNextPort, SetAlarmQueued, ArmAlarm, LoopEnd,
           RunReset, Disarm, ClearAlarmQueued, ClearTasks, AfterUpdate, Active, At
  <2> QED
    BY <1>6, <2>2, <2>3
<1>8. CASE Isr /\ ~IsrApply
  BY <1>6, <1>8
     DEF Isr, IsrAck, IsrTestEmpty, IsrRelease, IsrLoad, IsrArm, IsrPop,
         core1Vars, timerVars, portVars, Active
<1>9. CASE UNCHANGED vars
  BY <1>6, <1>9 DEF vars, core1Vars, timerVars, portVars, Active
<1> QED
  BY <1>1, <1>2, <1>3, <1>4, <1>5, <1>7, <1>8, <1>9 DEF Next

\* A schedule that keeps up shows on the port exactly what tasks polled by an
\* infinitely fast loop would show: computing events ahead, queueing them and
\* letting an alarm apply them loses, delays, repeats and swaps none, however
\* core1 and the handler interleave (pwm_scheduler.cpp:84-168, 196-217).
THEOREM PortIsPolled ==
  ASSUME NEW M \in Nat, Short(M), KeepsUp, ~MayStop
  PROVE  Spec => PortFollowsTasks
<1>1. Init => Polled!Init
  BY PolledInit
<1>2. KeepUpInv(M) /\ [Next]_vars => [Polled!Next]_(Polled!vars)
  BY PolledStep
<1>3. Spec => []KeepUpInv(M)
  BY KeepUpAlways
<1> QED
  BY <1>1, <1>2, <1>3, PTL DEF Spec, PortFollowsTasks, Polled!Spec
=============================================================================
