------------------------ MODULE SyncScheduleProofs ------------------------
(***************************************************************************)
(* The priority queue of tasks, for every number of pins, every train that  *)
(* is short against the timer and every sequence of calls.  Its sifts are   *)
(* loops; what they return is found by induction over the place they have   *)
(* reached, stated with sets of naturals that have a least element.         *)
(***************************************************************************)
EXTENDS SyncSchedule, PWMTaskProofs, SequenceTheorems, FiniteSetTheorems
-----------------------------------------------------------------------------
(***************************************************************************)
(* Induction, and functions defined by recursion.                          *)
(***************************************************************************)
LEMMA LeastNat ==
  ASSUME NEW T \in SUBSET Nat, T # {}
  PROVE  \E x \in T : \A y \in T : x <= y
<1> DEFINE R == {ss \in Nat \X Nat : ss[1] < ss[2]}
<1>1. IsWellFoundedOn(R, Nat)
  BY NatLessThanWellFounded DEF OpToRel
<1>2. PICK x \in T : \A y \in T : ~(<<y, x>> \in R)
  <2> HIDE DEF R
  <2> QED
    BY <1>1, WFMin
<1>3. ASSUME NEW y \in T PROVE x <= y
  <2>1. x \in Nat /\ y \in Nat
    OBVIOUS
  <2>2. <<y, x>> \in R <=> y < x
    BY <2>1
  <2>3. ~(<<y, x>> \in R)
    BY <1>2
  <2> HIDE DEF R
  <2> QED
    BY <2>1, <2>2, <2>3
<1> QED
  BY <1>3

LEMMA NatInductionSet ==
  ASSUME NEW T, 0 \in T, \A n \in Nat : n \in T => n + 1 \in T
  PROVE  \A n \in Nat : n \in T
<1> SUFFICES ASSUME NEW n \in Nat, n \notin T PROVE FALSE
  OBVIOUS
<1>1. PICK x \in Nat \ T : \A y \in Nat \ T : x <= y
  <2>1. Nat \ T \in SUBSET Nat /\ Nat \ T # {}
    OBVIOUS
  <2> QED
    BY <2>1, LeastNat
<1>2. x # 0 /\ x - 1 \in Nat /\ x - 1 + 1 = x
  BY <1>1
<1>3. x - 1 \in T
  BY <1>1, <1>2
<1> QED
  BY <1>1, <1>2, <1>3

\* Primitive recursion: the step F[n] takes the value of n - 1 to that of n.
LEMMA NatRecursion ==
  ASSUME NEW S, NEW b \in S, NEW F \in [Nat -> [S -> S]]
  PROVE  \E f \in [Nat -> S] : f[0] = b /\ \A n \in Nat : f[n + 1] = F[n + 1][f[n]]
<1> DEFINE Runs(n, f) == /\ f[0] = b
                         /\ \A i \in Nat : i < n => f[i + 1] = F[i + 1][f[i]]
           T == {n \in Nat : \E f \in [Nat -> S] : Runs(n, f)}
<1>1. 0 \in T
  <2>1. [i \in Nat |-> b] \in [Nat -> S] /\ [i \in Nat |-> b][0] = b
    OBVIOUS
  <2>2. Runs(0, [i \in Nat |-> b])
    BY <2>1
  <2> HIDE DEF Runs
  <2> QED
    BY <2>1, <2>2
<1>2. \A n \in Nat : n \in T => n + 1 \in T
  <2> SUFFICES ASSUME NEW n \in Nat, n \in T PROVE n + 1 \in T
    OBVIOUS
  <2>1. PICK f \in [Nat -> S] : Runs(n, f)
    OBVIOUS
  <2> DEFINE g == [i \in Nat |-> IF i = n + 1 THEN F[n + 1][f[n]] ELSE f[i]]
  <2>2. g \in [Nat -> S]
    OBVIOUS
  <2>3. Runs(n + 1, g)
    <3>1. g[0] = b
      BY <2>1
    <3>2. ASSUME NEW i \in Nat, i < n + 1 PROVE g[i + 1] = F[i + 1][g[i]]
      <4>1. g[i] = f[i]
        BY <3>2
      <4>2. CASE i = n
        BY <4>1, <4>2
      <4>3. CASE i < n
        <5>1. g[i + 1] = f[i + 1]
          BY <4>3
        <5> QED
          BY <2>1, <4>1, <4>3, <5>1
      <4> QED
        BY <3>2, <4>2, <4>3
    <3> QED
      BY <3>1, <3>2
  <2> HIDE DEF Runs, g
  <2> QED
    BY <2>2, <2>3
<1>3. \A n \in Nat : n \in T
  <2> HIDE DEF T
  <2> QED
    BY <1>1, <1>2, NatInductionSet
<1> DEFINE G == [n \in Nat |-> CHOOSE f \in [Nat -> S] : Runs(n, f)]
<1>4. \A n \in Nat : G[n] \in [Nat -> S] /\ Runs(n, G[n])
  BY <1>3
<1> HIDE DEF G
<1> DEFINE h == [n \in Nat |-> G[n][n]]
<1>5. ASSUME NEW n \in Nat, NEW m \in Nat, n <= m PROVE G[n][n] = G[m][n]
  <2> DEFINE U == {i \in Nat : i <= n => G[n][i] = G[m][i]}
  <2>1. 0 \in U
    BY <1>4
  <2>2. \A i \in Nat : i \in U => i + 1 \in U
    BY <1>4, <1>5
  <2>3. n \in U
    <3> HIDE DEF U
    <3> QED
      BY <2>1, <2>2, NatInductionSet
  <2> QED
    BY <2>3
<1>6. h \in [Nat -> S] /\ h[0] = b
  BY <1>4
<1>7. ASSUME NEW n \in Nat PROVE h[n + 1] = F[n + 1][h[n]]
  BY <1>4, <1>5
<1> QED
  BY <1>6, <1>7

\* A loop that leaves S at D, and whose step H makes m smaller.
LoopsDown(S, D, H, m) ==
  \A x \in S : m[x] \in Nat /\ (x \notin D => H[x] \in S /\ m[H[x]] < m[x])

LEMMA LoopExists ==
  ASSUME NEW S, NEW D, NEW G, NEW H, NEW m, LoopsDown(S, D, H, m)
  PROVE  \E f : f = [x \in S |-> IF x \in D THEN G[x] ELSE f[H[x]]]
<1> USE DEF LoopsDown
<1> DEFINE Below(n) == {x \in S : m[x] < n}
           Is(n, f) == f = [x \in Below(n) |-> IF x \in D THEN G[x] ELSE f[H[x]]]
           T == {n \in Nat : \E f : Is(n, f)}
<1>1. 0 \in T
  <2>1. Is(0, [x \in {} |-> x])
    <3>1. Below(0) = {}
      OBVIOUS
    <3> QED
      BY <3>1
  <2> HIDE DEF Is
  <2> QED
    BY <2>1
<1>2. \A n \in Nat : n \in T => n + 1 \in T
  <2> SUFFICES ASSUME NEW n \in Nat, n \in T PROVE n + 1 \in T
    OBVIOUS
  <2>1. PICK f : Is(n, f)
    OBVIOUS
  <2> DEFINE g == [x \in Below(n + 1) |-> IF x \in D THEN G[x] ELSE f[H[x]]]
  <2>2. \A x \in Below(n) : g[x] = f[x]
    <3>1. Below(n) \subseteq Below(n + 1)
      OBVIOUS
    <3> QED
      BY <2>1, <3>1
  <2>3. \A x \in Below(n + 1) : x \notin D => H[x] \in Below(n)
    OBVIOUS
  <2>4. Is(n + 1, g)
    <3> HIDE DEF Below
    <3> QED
      BY <2>2, <2>3
  <2> HIDE DEF Is, g
  <2> QED
    BY <2>4
<1>3. \A n \in Nat : n \in T
  <2> HIDE DEF T
  <2> QED
    BY <1>1, <1>2, NatInductionSet
<1> DEFINE K == [n \in Nat |-> CHOOSE f : Is(n, f)]
<1>4. \A n \in Nat : Is(n, K[n])
  <2> HIDE DEF Is
  <2> QED
    BY <1>3
<1> HIDE DEF K
<1>5. ASSUME NEW k \in Nat PROVE \A n \in Nat : \A x \in Below(n) : m[x] < k => K[n][x] = K[m[x] + 1][x]
  <2> DEFINE U == {j \in Nat : \A n \in Nat : \A x \in Below(n) : m[x] < j => K[n][x] = K[m[x] + 1][x]}
  <2>1. 0 \in U
    OBVIOUS
  <2>2. ASSUME NEW j \in Nat, j \in U, NEW n \in Nat, NEW x \in Below(n), m[x] < j + 1
        PROVE  K[n][x] = K[m[x] + 1][x]
    <3>1. x \in Below(m[x] + 1) /\ m[x] + 1 \in Nat
      OBVIOUS
    <3>2. CASE x \in D
      BY <1>4, <3>1, <3>2
    <3>3. CASE x \notin D
      <4>1. H[x] \in S /\ m[H[x]] < m[x] /\ m[H[x]] \in Nat /\ m[x] \in Nat
        BY <3>3
      <4>2. H[x] \in Below(n) /\ H[x] \in Below(m[x] + 1) /\ m[H[x]] < j
        BY <2>2, <4>1
      <4>3. K[n][H[x]] = K[m[H[x]] + 1][H[x]] /\ K[m[x] + 1][H[x]] = K[m[H[x]] + 1][H[x]]
        BY <2>2, <3>1, <4>2
      <4>4. K[n][x] = K[n][H[x]] /\ K[m[x] + 1][x] = K[m[x] + 1][H[x]]
        <5>1. K[n] = [y \in Below(n) |-> IF y \in D THEN G[y] ELSE K[n][H[y]]]
          BY <1>4
        <5>2. K[m[x] + 1] = [y \in Below(m[x] + 1) |->
                               IF y \in D THEN G[y] ELSE K[m[x] + 1][H[y]]]
          BY <1>4, <3>1
        <5> HIDE DEF Below, Is
        <5>3. K[n][x] = K[n][H[x]]
          BY <5>1, <3>3
        <5>4. K[m[x] + 1][x] = K[m[x] + 1][H[x]]
          BY <5>2, <3>1, <3>3
        <5> QED
          BY <5>3, <5>4
      <4> QED
        BY <4>3, <4>4
    <3> QED
      BY <3>2, <3>3
  <2>3. \A j \in Nat : j \in U => j + 1 \in U
    BY <2>2
  <2>4. k \in U
    <3> HIDE DEF U
    <3> QED
      BY <2>1, <2>3, NatInductionSet
  <2> QED
    BY <2>4
<1> DEFINE h == [x \in S |-> K[m[x] + 1][x]]
<1>6. ASSUME NEW x \in S PROVE h[x] = IF x \in D THEN G[x] ELSE h[H[x]]
  <2>1. x \in Below(m[x] + 1) /\ m[x] + 1 \in Nat
    OBVIOUS
  <2>2. CASE x \in D
    BY <1>4, <2>1, <2>2
  <2>3. CASE x \notin D
    <3>1. H[x] \in S /\ H[x] \in Below(m[x] + 1) /\ m[H[x]] + 1 \in Nat
      BY <2>3
    <3>2. K[m[x] + 1][x] = K[m[x] + 1][H[x]]
      <4>1. K[m[x] + 1] = [y \in Below(m[x] + 1) |->
                               IF y \in D THEN G[y] ELSE K[m[x] + 1][H[y]]]
        BY <1>4, <2>1
      <4> HIDE DEF Below, Is
      <4> QED
        BY <4>1, <2>1, <2>3
    <3>3. K[m[x] + 1][H[x]] = K[m[H[x]] + 1][H[x]]
      BY <1>5, <2>1, <3>1
    <3> QED
      BY <2>3, <3>1, <3>2, <3>3
  <2> QED
    BY <2>2, <2>3
<1>7. h = [x \in S |-> IF x \in D THEN G[x] ELSE h[H[x]]]
  <2> HIDE DEF h
  <2> SUFFICES h = [x \in S |-> h[x]]
    BY <1>6
  <2> QED
    BY DEF h
<1> HIDE DEF h
<1> QED
  BY <1>7

\* What holds where the loop is left, and before a step if after it, holds.
LEMMA LoopInduction ==
  ASSUME NEW S, NEW D, NEW H, NEW m, LoopsDown(S, D, H, m),
         NEW P, \A x \in S : x \in D \/ H[x] \in P => x \in P
  PROVE  \A x \in S : x \in P
<1> USE DEF LoopsDown
<1> DEFINE T == {n \in Nat : \A x \in S : m[x] < n => x \in P}
<1>1. 0 \in T
  OBVIOUS
<1>2. \A n \in Nat : n \in T => n + 1 \in T
  <2> SUFFICES ASSUME NEW n \in Nat, n \in T, NEW x \in S, m[x] < n + 1 PROVE x \in P
    OBVIOUS
  <2>1. CASE x \in D
    BY <2>1
  <2>2. CASE x \notin D
    <3>1. H[x] \in S /\ m[H[x]] < n
      BY <2>2
    <3> QED
      BY <3>1
  <2> QED
    BY <2>1, <2>2
<1>3. \A n \in Nat : n \in T
  <2> HIDE DEF T
  <2> QED
    BY <1>1, <1>2, NatInductionSet
<1>4. ASSUME NEW x \in S PROVE x \in P
  <2>1. m[x] + 1 \in T /\ m[x] < m[x] + 1
    BY <1>3
  <2> QED
    BY <2>1
<1> QED
  BY <1>4
-----------------------------------------------------------------------------
(***************************************************************************)
(* The heap as an array of distinct pins, and its order by ranks.          *)
(***************************************************************************)

\* h holds each pin of Q once.
HeapOf(h, Q) ==
  /\ h \in Seq(Pins)
  /\ \A i, j \in 1 .. Len(h) : h[i] = h[j] => i = j
  /\ Q = {h[i] : i \in 1 .. Len(h)}

LEMMA HeapOfIs ==
  ASSUME NEW h \in Seq(Pins), NEW Q
  PROVE  HeapOf(h, Q) <=> IsInjective(h) /\ ToSet(h) = Q
<1>1. DOMAIN h = 1 .. Len(h)
  BY LenProperties
<1> QED
  BY <1>1 DEF HeapOf, IsInjective, ToSet

\* r ranks the tasks of Q by their update times.
Ranks(ts, Q, r) ==
  /\ \A p \in Q : r[p] \in Int
  /\ \A p, q \in Q : UpdatesBefore(ts[p], ts[q]) <=> r[p] < r[q]

Ordered(h, r) == \A i \in 2 .. Len(h) : r[h[i \div 2]] <= r[h[i]]

LEMMA Half ==
  ASSUME NEW i \in Nat, i >= 2
  PROVE  i \div 2 \in Nat /\ 1 <= i \div 2 /\ i \div 2 < i
         /\ 2 * (i \div 2) <= i /\ i <= 2 * (i \div 2) + 1
OBVIOUS

LEMMA HeapEntries ==
  ASSUME NEW h, NEW Q, HeapOf(h, Q)
  PROVE  /\ Len(h) \in Nat /\ h \in Seq(Pins) /\ DOMAIN h = 1 .. Len(h)
         /\ \A i \in 1 .. Len(h) : h[i] \in Q /\ h[i] \in Pins
         /\ Q \subseteq Pins
         /\ \A i \in 2 .. Len(h) : i \div 2 \in 1 .. Len(h)
<1>1. Len(h) \in Nat /\ DOMAIN h = 1 .. Len(h) /\ h \in Seq(Pins)
      /\ h \in [1 .. Len(h) -> Pins]
  BY LenProperties DEF HeapOf
<1>2. \A i \in 2 .. Len(h) : i \div 2 \in 1 .. Len(h)
  BY <1>1, Half
<1> QED
  BY <1>1, <1>2 DEF HeapOf

LEMMA SortedIsOrdered ==
  ASSUME NEW ts, NEW h, NEW Q, HeapOf(h, Q), NEW r, Ranks(ts, Q, r)
  PROVE  Sorted(ts, h) <=> Ordered(h, r)
<1>1. ASSUME NEW i \in 2 .. Len(h)
      PROVE  ~UpdatesBefore(ts[h[i]], ts[h[i \div 2]]) <=> r[h[i \div 2]] <= r[h[i]]
  <2>1. i \in 1 .. Len(h) /\ h[i] \in Q /\ h[i \div 2] \in Q
    BY HeapEntries
  <2> QED
    BY <2>1 DEF Ranks
<1> QED
  BY <1>1 DEF Sorted, Ordered

LEMMA SwapIs ==
  ASSUME NEW h \in Seq(Pins), NEW i \in 1 .. Len(h), NEW j \in 1 .. Len(h)
  PROVE  /\ Swap(h, i, j) \in Seq(Pins) /\ Len(Swap(h, i, j)) = Len(h)
         /\ \A k \in 1 .. Len(h) :
              Swap(h, i, j)[k] = IF k = i THEN h[j] ELSE IF k = j THEN h[i] ELSE h[k]
<1>1. h[i] \in Pins /\ h[j] \in Pins
  BY ElementOfSeq
<1> DEFINE g == [h EXCEPT ![i] = h[j]]
<1>2. g \in Seq(Pins) /\ Len(g) = Len(h)
      /\ \A k \in 1 .. Len(h) : g[k] = IF k = i THEN h[j] ELSE h[k]
  BY <1>1, ExceptSeq
<1>3. Swap(h, i, j) = [g EXCEPT ![j] = h[i]]
  BY DEF Swap
<1> HIDE DEF g
<1>4. /\ [g EXCEPT ![j] = h[i]] \in Seq(Pins) /\ Len([g EXCEPT ![j] = h[i]]) = Len(g)
      /\ \A k \in 1 .. Len(g) : [g EXCEPT ![j] = h[i]][k] = IF k = j THEN h[i] ELSE g[k]
  BY <1>1, <1>2, ExceptSeq
<1> QED
  BY <1>2, <1>3, <1>4

LEMMA SwapHeap ==
  ASSUME NEW h, NEW Q, HeapOf(h, Q), NEW i \in 1 .. Len(h), NEW j \in 1 .. Len(h)
  PROVE  HeapOf(Swap(h, i, j), Q) /\ Len(Swap(h, i, j)) = Len(h)
<1> DEFINE g == Swap(h, i, j)
<1>1. /\ h \in Seq(Pins) /\ g \in Seq(Pins) /\ Len(g) = Len(h)
      /\ \A k \in 1 .. Len(h) : g[k] = IF k = i THEN h[j] ELSE IF k = j THEN h[i] ELSE h[k]
  <2>1. h \in Seq(Pins)
    BY DEF HeapOf
  <2> QED
    BY <2>1, SwapIs
<1> HIDE DEF g
<1>2. \A k, l \in 1 .. Len(g) : g[k] = g[l] => k = l
  BY <1>1 DEF HeapOf
<1>3. {g[k] : k \in 1 .. Len(g)} = {h[k] : k \in 1 .. Len(h)}
  <2>1. \A k \in 1 .. Len(h) : \E l \in 1 .. Len(h) : g[l] = h[k]
    BY <1>1
  <2>2. \A k \in 1 .. Len(h) : \E l \in 1 .. Len(h) : g[k] = h[l]
    BY <1>1
  <2>3. Len(g) = Len(h)
    BY <1>1
  <2> DEFINE A == {g[k] : k \in 1 .. Len(g)}
             B == {h[k] : k \in 1 .. Len(h)}
  <2>4. \A x \in A : x \in B
    <3>1. ASSUME NEW k \in 1 .. Len(g) PROVE g[k] \in B
      <4>1. k \in 1 .. Len(h)
        BY <2>3
      <4>2. PICK l \in 1 .. Len(h) : g[k] = h[l]
        BY <2>2, <4>1
      <4> QED
        BY <4>2
    <3> HIDE DEF B
    <3> QED
      BY <3>1
  <2>5. \A x \in B : x \in A
    BY <2>1, <2>3
  <2> HIDE DEF A, B
  <2>6. A = B
    BY <2>4, <2>5
  <2> QED
    BY <2>6 DEF A, B
<1> QED
  BY <1>1, <1>2, <1>3 DEF HeapOf, g
-----------------------------------------------------------------------------
(***************************************************************************)
(* push_heap().                                                            *)
(***************************************************************************)

\* In order but for the entry at k, which may belong higher.
NearlyUp(h, r, k) ==
  /\ \A i \in 2 .. Len(h) : i # k => r[h[i \div 2]] <= r[h[i]]
  /\ \A i \in 2 .. Len(h) : i \div 2 = k /\ k > 1 => r[h[k \div 2]] <= r[h[i]]

LEMMA NearlyUpMoves ==
  ASSUME NEW h, NEW Q, HeapOf(h, Q), NEW r, \A p \in Q : r[p] \in Int,
         NEW k \in 2 .. Len(h), NearlyUp(h, r, k), r[h[k]] < r[h[k \div 2]]
  PROVE  NearlyUp(Swap(h, k, k \div 2), r, k \div 2)
<1> DEFINE j == k \div 2
           g == Swap(h, k, j)
<1>1. /\ Len(h) \in Nat /\ \A i \in 1 .. Len(h) : r[h[i]] \in Int
      /\ k \in 1 .. Len(h) /\ j \in 1 .. Len(h) /\ j < k /\ k \in Int /\ j \in Int
  <2>1. k \in 1 .. Len(h) /\ j \in 1 .. Len(h)
    BY HeapEntries
  <2> QED
    BY <2>1, HeapEntries, Half
<1>2. /\ Len(g) = Len(h)
      /\ \A i \in 1 .. Len(h) : g[i] = IF i = k THEN h[j] ELSE IF i = j THEN h[k] ELSE h[i]
  BY <1>1, SwapIs, HeapEntries
<1>3. r[h[k]] < r[h[j]]
  OBVIOUS
<1>4. \A i \in 2 .. Len(h) : i # k => r[h[i \div 2]] <= r[h[i]]
  BY DEF NearlyUp
<1>5. \A i \in 2 .. Len(h) : i \div 2 = k => r[h[j]] <= r[h[i]]
  BY DEF NearlyUp
<1>6. \A i \in 2 .. Len(h) : i \in 1 .. Len(h) /\ i \div 2 \in 1 .. Len(h) /\ i \div 2 < i
  BY HeapEntries, <1>1, Half
<1>7. k \div 2 = j
  OBVIOUS
<1> HIDE DEF g, j
<1>8. ASSUME NEW i \in 2 .. Len(h), i # j PROVE r[g[i \div 2]] <= r[g[i]]
  <2>1. CASE i = k
    BY <1>1, <1>2, <1>3, <1>7, <2>1
  <2>2. CASE i # k /\ i \div 2 = k
    BY <1>1, <1>2, <1>5, <1>6, <1>8, <2>2
  <2>3. CASE i # k /\ i \div 2 = j
    <3>1. g[j] = h[k] /\ g[i] = h[i] /\ r[h[j]] <= r[h[i]]
      BY <1>1, <1>2, <1>4, <1>6, <1>8, <2>3
    <3> QED
      BY <1>1, <1>3, <1>6, <2>3, <3>1
  <2>4. CASE i # k /\ i \div 2 # k /\ i \div 2 # j
    BY <1>2, <1>4, <1>6, <1>8, <2>4
  <2> QED
    BY <2>1, <2>2, <2>3, <2>4
<1>9. ASSUME NEW i \in 2 .. Len(h), i \div 2 = j, j > 1 PROVE r[g[j \div 2]] <= r[g[i]]
  <2>1. j \in 2 .. Len(h) /\ j # k
    BY <1>1, <1>9
  <2>2. j \div 2 \in 1 .. Len(h) /\ j \div 2 < j
    BY <1>6, <2>1
  <2>3. g[j \div 2] = h[j \div 2] /\ r[h[j \div 2]] <= r[h[j]]
    BY <1>1, <1>2, <1>4, <2>1, <2>2
  <2>4. CASE i = k
    BY <1>1, <1>2, <2>3, <2>4
  <2>5. CASE i # k
    <3>1. g[i] = h[i] /\ r[h[j]] <= r[h[i]]
      BY <1>1, <1>2, <1>4, <1>6, <1>9, <2>5
    <3> QED
      BY <1>1, <1>6, <2>2, <2>3, <3>1
  <2> QED
    BY <2>4, <2>5
<1> QED
  BY <1>2, <1>8, <1>9 DEF NearlyUp, g, j

\* What the loop owes for the array and place a.
Risen(ts, a, g) ==
  /\ g \in Seq(Pins) /\ Len(g) = Len(a.heap)
  /\ \A Q : HeapOf(a.heap, Q) =>
       /\ HeapOf(g, Q)
       /\ \A r : Ranks(ts, Q, r) /\ NearlyUp(a.heap, r, a.at) => Ordered(g, r)

LEMMA PlaceIs ==
  ASSUME NEW a \in Place
  PROVE  /\ a.heap \in Seq(Pins) /\ a.at \in 1 .. Len(a.heap) /\ Len(a.heap) \in Nat
         /\ a.at \in Nat
BY LenProperties DEF Place

LEMMA MoveToIs ==
  ASSUME NEW a \in Place, NEW j \in 1 .. Len(a.heap)
  PROVE  /\ MoveTo(a, j) \in Place
         /\ MoveTo(a, j).heap = Swap(a.heap, a.at, j) /\ MoveTo(a, j).at = j
<1>1. Swap(a.heap, a.at, j) \in Seq(Pins) /\ Len(Swap(a.heap, a.at, j)) = Len(a.heap)
  BY PlaceIs, SwapIs
<1>2. j \in Nat \ {0} /\ j <= Len(a.heap)
  BY PlaceIs
<1> QED
  BY <1>1, <1>2 DEF MoveTo, Place

LEMMA RiseStep ==
  ASSUME NEW ts, NEW a \in Place, BeforeParent(ts, a), NEW g,
         Risen(ts, MoveTo(a, a.at \div 2), g)
  PROVE  Risen(ts, a, g)
<1> DEFINE k == a.at
           h == a.heap
           b == MoveTo(a, k \div 2)
<1>1. k \in 2 .. Len(h) /\ k \in 1 .. Len(h) /\ k \div 2 \in 1 .. Len(h)
  <2>1. k \in Nat /\ k > 1 /\ k <= Len(h) /\ Len(h) \in Nat
    BY PlaceIs DEF BeforeParent
  <2> HIDE DEF k, h
  <2> QED
    BY <2>1, Half
<1>2. b.heap = Swap(h, k, k \div 2) /\ b.at = k \div 2
  BY <1>1, MoveToIs
<1>t. g \in Seq(Pins) /\ Len(g) = Len(h)
  BY <1>1, <1>2, SwapIs, PlaceIs DEF Risen
<1>3. SUFFICES ASSUME NEW Q, HeapOf(h, Q)
               PROVE  /\ HeapOf(g, Q)
                      /\ \A r : Ranks(ts, Q, r) /\ NearlyUp(h, r, k) => Ordered(g, r)
  BY <1>t DEF Risen
<1>4. HeapOf(b.heap, Q) /\ Len(b.heap) = Len(h)
  BY <1>1, <1>2, <1>3, SwapHeap
<1>5. ASSUME NEW r, Ranks(ts, Q, r), NearlyUp(h, r, k) PROVE NearlyUp(b.heap, r, b.at)
  <2>1. h[k] \in Q /\ h[k \div 2] \in Q
    BY <1>1, <1>3, HeapEntries
  <2>2. r[h[k]] < r[h[k \div 2]]
    BY <1>5, <2>1 DEF Ranks, BeforeParent
  <2>3. \A p \in Q : r[p] \in Int
    BY <1>5 DEF Ranks
  <2> HIDE DEF h, k, b
  <2> QED
    BY <1>1, <1>2, <1>3, <1>5, <2>2, <2>3, NearlyUpMoves
<1>6. Risen(ts, b, g)
  OBVIOUS
<1> HIDE DEF b, h, k
<1> QED
  BY <1>4, <1>5, <1>6 DEF Risen

LEMMA RiseDone ==
  ASSUME NEW ts, NEW a \in Place, ~BeforeParent(ts, a)
  PROVE  Risen(ts, a, a.heap)
<1> SUFFICES ASSUME NEW Q, HeapOf(a.heap, Q), NEW r, Ranks(ts, Q, r),
                    NearlyUp(a.heap, r, a.at), NEW i \in 2 .. Len(a.heap)
             PROVE  r[a.heap[i \div 2]] <= r[a.heap[i]]
  BY PlaceIs DEF Risen, Ordered
<1>1. CASE i = a.at
  <2>1. i > 1 /\ i \in 1 .. Len(a.heap) /\ i \div 2 \in 1 .. Len(a.heap)
    BY PlaceIs, HeapEntries
  <2>2. a.heap[i] \in Q /\ a.heap[i \div 2] \in Q
    BY <2>1, HeapEntries
  <2>3. ~UpdatesBefore(ts[a.heap[i]], ts[a.heap[i \div 2]])
    BY <1>1, <2>1 DEF BeforeParent
  <2> QED
    BY <2>2, <2>3 DEF Ranks
<1>2. CASE i # a.at
  BY <1>2 DEF NearlyUp
<1> QED
  BY <1>1, <1>2

LEMMA SiftUpIs ==
  ASSUME NEW ts, NEW a \in Place
  PROVE  Risen(ts, a, SiftUp(ts, a.heap, a.at))
<1> DEFINE D == {b \in Place : ~BeforeParent(ts, b)}
           G == [b \in Place |-> b.heap]
           H == [b \in Place |-> MoveTo(b, b.at \div 2)]
           m == [b \in Place |-> b.at]
           Up(f) == f = [b \in Place |-> IF BeforeParent(ts, b)
                                         THEN f[MoveTo(b, b.at \div 2)] ELSE b.heap]
<1>1. ASSUME NEW b \in Place, BeforeParent(ts, b)
      PROVE  MoveTo(b, b.at \div 2) \in Place /\ MoveTo(b, b.at \div 2).at < b.at
  <2>1. b.at \in Nat /\ b.at >= 2 /\ b.at <= Len(b.heap) /\ Len(b.heap) \in Nat
    BY <1>1, PlaceIs DEF BeforeParent
  <2>2. b.at \div 2 \in 1 .. Len(b.heap) /\ b.at \div 2 < b.at
    BY <2>1, Half
  <2> QED
    BY <2>2, MoveToIs
<1>2. LoopsDown(Place, D, H, m)
  <2> SUFFICES ASSUME NEW b \in Place
               PROVE  m[b] \in Nat /\ (b \notin D => H[b] \in Place /\ m[H[b]] < m[b])
    BY DEF LoopsDown
  <2>1. b.at \in Nat
    BY PlaceIs
  <2>2. CASE BeforeParent(ts, b)
    BY <1>1, <2>1, <2>2
  <2>3. CASE ~BeforeParent(ts, b)
    BY <2>1, <2>3
  <2> QED
    BY <2>2, <2>3
<1>3. \E f : f = [b \in Place |-> IF b \in D THEN G[b] ELSE f[H[b]]]
  <2> HIDE DEF D, G, H, m
  <2> QED
    BY <1>2, LoopExists
<1>4. PICK f : f = [b \in Place |-> IF b \in D THEN G[b] ELSE f[H[b]]]
  BY <1>3
<1>5. Up(f)
  BY <1>4
<1>6. PICK up : Up(up) /\ SiftUp(ts, a.heap, a.at) = up[[heap |-> a.heap, at |-> a.at]]
  <2> DEFINE up == CHOOSE u : Up(u)
  <2>1. Up(up)
    <3> HIDE DEF Up
    <3> QED
      BY <1>5
  <2>2. SiftUp(ts, a.heap, a.at) = up[[heap |-> a.heap, at |-> a.at]]
    BY DEF SiftUp
  <2> HIDE DEF Up, up
  <2> QED
    BY <2>1, <2>2
<1>7. \A b \in Place : up[b] = IF BeforeParent(ts, b) THEN up[MoveTo(b, b.at \div 2)] ELSE b.heap
  BY <1>6
<1> DEFINE P == {b \in Place : Risen(ts, b, up[b])}
<1>8. ASSUME NEW b \in Place, b \in D \/ H[b] \in P PROVE b \in P
  <2>1. CASE BeforeParent(ts, b)
    <3>1. Risen(ts, MoveTo(b, b.at \div 2), up[MoveTo(b, b.at \div 2)])
      BY <1>8, <2>1
    <3>2. Risen(ts, b, up[MoveTo(b, b.at \div 2)])
      BY <2>1, <3>1, RiseStep
    <3> QED
      BY <1>7, <2>1, <3>2
  <2>2. CASE ~BeforeParent(ts, b)
    BY <1>7, <2>2, RiseDone
  <2> QED
    BY <2>1, <2>2
<1>9. \A b \in Place : b \in P
  <2> HIDE DEF P, D, H, m
  <2> QED
    BY <1>2, <1>8, LoopInduction
<1>10. a = [heap |-> a.heap, at |-> a.at]
  BY DEF Place
<1> QED
  BY <1>6, <1>9, <1>10
-----------------------------------------------------------------------------
(***************************************************************************)
(* adjust_heap().                                                          *)
(***************************************************************************)

\* In order but for the entry at k, which may belong anywhere.
HoleAt(h, r, k) ==
  /\ \A i \in 2 .. Len(h) : i # k /\ i \div 2 # k => r[h[i \div 2]] <= r[h[i]]
  /\ \A i \in 2 .. Len(h) : i \div 2 = k /\ k > 1 => r[h[k \div 2]] <= r[h[i]]

LEMMA SwapEntries ==
  ASSUME NEW h, NEW Q, HeapOf(h, Q), NEW i \in 1 .. Len(h), NEW j \in 1 .. Len(h)
  PROVE  /\ Len(Swap(h, i, j)) = Len(h)
         /\ \A k \in 1 .. Len(h) :
              Swap(h, i, j)[k] = IF k = i THEN h[j] ELSE IF k = j THEN h[i] ELSE h[k]
<1>1. h \in Seq(Pins)
  BY HeapEntries
<1> QED
  BY <1>1, SwapIs

LEMMA HoleMoves ==
  ASSUME NEW h, NEW Q, HeapOf(h, Q), NEW r, \A p \in Q : r[p] \in Int,
         NEW k \in 1 .. Len(h), NEW c \in 1 .. Len(h), c \div 2 = k, HoleAt(h, r, k),
         \A i \in 2 .. Len(h) : i \div 2 = k => r[h[c]] <= r[h[i]]
  PROVE  HoleAt(Swap(h, k, c), r, c)
<1> DEFINE g == Swap(h, k, c)
<1>1. /\ Len(h) \in Nat /\ \A i \in 1 .. Len(h) : r[h[i]] \in Int
      /\ k \in Nat /\ c \in Nat /\ k >= 1 /\ c >= 2 /\ k < c
  <2>1. Len(h) \in Nat /\ k \in Nat /\ k >= 1 /\ c \in Nat
    BY HeapEntries
  <2>2. c >= 2
    BY <2>1
  <2> QED
    BY <2>1, <2>2, Half, HeapEntries
<1>2. /\ Len(g) = Len(h)
      /\ \A i \in 1 .. Len(h) : g[i] = IF i = k THEN h[c] ELSE IF i = c THEN h[k] ELSE h[i]
  BY SwapEntries
<1>3. \A i \in 2 .. Len(h) : i # k /\ i \div 2 # k => r[h[i \div 2]] <= r[h[i]]
  BY DEF HoleAt
<1>4. \A i \in 2 .. Len(h) : i \div 2 = k /\ k > 1 => r[h[k \div 2]] <= r[h[i]]
  BY DEF HoleAt
<1>5. \A i \in 2 .. Len(h) : i \in 1 .. Len(h) /\ i \div 2 \in 1 .. Len(h) /\ i \div 2 < i
  BY HeapEntries, <1>1, Half
<1> HIDE DEF g
<1>6. ASSUME NEW i \in 2 .. Len(h), i # c, i \div 2 # c PROVE r[g[i \div 2]] <= r[g[i]]
  <2>1. CASE i = k
    <3>1. g[i] = h[c] /\ g[i \div 2] = h[i \div 2]
      BY <1>1, <1>2, <1>5, <1>6, <2>1
    <3>2. c \in 2 .. Len(h) /\ k > 1
      BY <1>1, <2>1
    <3> QED
      BY <1>4, <2>1, <3>1, <3>2
  <2>2. CASE i # k /\ i \div 2 = k
    BY <1>1, <1>2, <1>5, <1>6, <2>2
  <2>3. CASE i # k /\ i \div 2 # k
    BY <1>2, <1>3, <1>5, <1>6, <2>3
  <2> QED
    BY <2>1, <2>2, <2>3
<1>7. ASSUME NEW i \in 2 .. Len(h), i \div 2 = c PROVE r[g[c \div 2]] <= r[g[i]]
  <2>1. g[k] = h[c] /\ g[i] = h[i]
    BY <1>1, <1>2, <1>5, <1>7
  <2>2. r[h[c]] <= r[h[i]]
    BY <1>1, <1>3, <1>5, <1>7
  <2> QED
    BY <2>1, <2>2
<1> QED
  BY <1>2, <1>6, <1>7 DEF HoleAt, g

Sunk(ts, a, g) ==
  /\ g \in Seq(Pins) /\ Len(g) = Len(a.heap)
  /\ \A Q : HeapOf(a.heap, Q) =>
       /\ HeapOf(g, Q)
       /\ \A r : Ranks(ts, Q, r) /\ HoleAt(a.heap, r, a.at) => Ordered(g, r)

LEMMA ChildIs ==
  ASSUME NEW ts, NEW a \in Place, 2 * a.at <= Len(a.heap)
  PROVE  LET c == EarlierChild(ts, a)
         IN c \in 1 .. Len(a.heap) /\ c \div 2 = a.at /\ c > a.at /\ c \in Nat
<1> DEFINE k == a.at
           n == Len(a.heap)
<1>1. k \in Nat /\ k >= 1 /\ n \in Nat /\ 2 * k <= n
  BY PlaceIs
<1>2. \/ EarlierChild(ts, a) = 2 * k
      \/ EarlierChild(ts, a) = 2 * k + 1 /\ 2 * k # n
  BY DEF EarlierChild
<1> HIDE DEF k, n
<1>3. EarlierChild(ts, a) \in 1 .. n /\ EarlierChild(ts, a) \div 2 = k /\ EarlierChild(ts, a) > k
      /\ EarlierChild(ts, a) \in Nat
  BY <1>1, <1>2
<1> QED
  BY <1>3 DEF k, n

LEMMA SinkStep ==
  ASSUME NEW ts, NEW a \in Place, 2 * a.at <= Len(a.heap), NEW g,
         Sunk(ts, MoveTo(a, EarlierChild(ts, a)), g)
  PROVE  Sunk(ts, a, g)
<1> DEFINE k == a.at
           h == a.heap
           c == EarlierChild(ts, a)
           b == MoveTo(a, c)
<1>1. /\ k \in 1 .. Len(h) /\ k \in Nat /\ Len(h) \in Nat /\ 2 * k <= Len(h)
      /\ c \in 1 .. Len(h) /\ c \div 2 = k
  BY PlaceIs, ChildIs
<1>2. b.heap = Swap(h, k, c) /\ b.at = c
  BY <1>1, MoveToIs
<1>t. g \in Seq(Pins) /\ Len(g) = Len(h)
  BY <1>1, <1>2, SwapIs, PlaceIs DEF Sunk
<1>3. SUFFICES ASSUME NEW Q, HeapOf(h, Q)
               PROVE  /\ HeapOf(g, Q)
                      /\ \A r : Ranks(ts, Q, r) /\ HoleAt(h, r, k) => Ordered(g, r)
  BY <1>t DEF Sunk
<1>4. HeapOf(b.heap, Q) /\ Len(b.heap) = Len(h)
  BY <1>1, <1>2, <1>3, SwapHeap
<1>5. ASSUME NEW r, Ranks(ts, Q, r), HoleAt(h, r, k) PROVE HoleAt(b.heap, r, b.at)
  <2>1. ASSUME NEW i \in 2 .. Len(h), i \div 2 = k PROVE r[h[c]] <= r[h[i]]
    <3>1. i = 2 * k \/ i = 2 * k + 1
      BY <1>1, <2>1, Half
    <3>2. 2 * k \in 1 .. Len(h) /\ i \in 1 .. Len(h)
      BY <1>1, <3>1
    <3>3. /\ h[2 * k] \in Q /\ h[i] \in Q
          /\ r[h[2 * k]] \in Int /\ r[h[i]] \in Int
      BY <1>3, <1>5, <3>2, HeapEntries DEF Ranks
    <3>4. CASE 2 * k = Len(h)
      <4>1. c = 2 * k /\ i = 2 * k
        BY <1>1, <3>1, <3>4 DEF EarlierChild
      <4> QED
        BY <3>3, <4>1
    <3>5. CASE 2 * k # Len(h)
      <4>1. 2 * k + 1 \in 1 .. Len(h)
        BY <1>1, <3>5
      <4>2. h[2 * k + 1] \in Q /\ r[h[2 * k + 1]] \in Int
        BY <1>3, <1>5, <4>1, HeapEntries DEF Ranks
      <4>3. c = IF UpdatesBefore(ts[h[2 * k]], ts[h[2 * k + 1]]) THEN 2 * k ELSE 2 * k + 1
        BY <3>5 DEF EarlierChild
      <4>4. UpdatesBefore(ts[h[2 * k]], ts[h[2 * k + 1]]) <=> r[h[2 * k]] < r[h[2 * k + 1]]
        BY <1>5, <3>3, <4>2 DEF Ranks
      <4> HIDE DEF c, k, h
      <4> QED
        BY <3>1, <3>3, <4>2, <4>3, <4>4
    <3> QED
      BY <3>4, <3>5
  <2>2. \A p \in Q : r[p] \in Int
    BY <1>5 DEF Ranks
  <2> HIDE DEF h, k, b, c
  <2> QED
    BY <1>1, <1>2, <1>3, <1>5, <2>1, <2>2, HoleMoves
<1>6. Sunk(ts, b, g)
  OBVIOUS
<1> HIDE DEF b, h, k, c
<1> QED
  BY <1>4, <1>5, <1>6 DEF Sunk

LEMMA SinkDone ==
  ASSUME NEW ts, NEW a \in Place, ~(2 * a.at <= Len(a.heap))
  PROVE  Sunk(ts, a, SiftUp(ts, a.heap, a.at))
<1>1. Risen(ts, a, SiftUp(ts, a.heap, a.at))
  BY SiftUpIs
<1>2. ASSUME NEW r, HoleAt(a.heap, r, a.at) PROVE NearlyUp(a.heap, r, a.at)
  <2>1. \A i \in 2 .. Len(a.heap) : i \div 2 # a.at
    BY PlaceIs, Half
  <2> QED
    BY <1>2, <2>1 DEF HoleAt, NearlyUp
<1> QED
  BY <1>1, <1>2 DEF Risen, Sunk

LEMMA SiftDownIs ==
  ASSUME NEW ts, NEW a \in Place
  PROVE  Sunk(ts, a, SiftDown(ts, a.heap, a.at))
<1> DEFINE Inner(b) == 2 * b.at <= Len(b.heap)
           Next1(b) == MoveTo(b, EarlierChild(ts, b))
           D == {b \in Place : ~Inner(b)}
           G == [b \in Place |-> SiftUp(ts, b.heap, b.at)]
           H == [b \in Place |-> Next1(b)]
           m == [b \in Place |-> Len(b.heap) - b.at]
           Down(f) == f = [b \in Place |-> IF 2 * b.at <= Len(b.heap)
                                           THEN f[MoveTo(b, EarlierChild(ts, b))]
                                           ELSE SiftUp(ts, b.heap, b.at)]
<1>1. ASSUME NEW b \in Place, Inner(b)
      PROVE  /\ Next1(b) \in Place /\ Len(Next1(b).heap) = Len(b.heap)
             /\ Next1(b).at > b.at /\ Next1(b).at \in Nat
  <2>1. EarlierChild(ts, b) \in 1 .. Len(b.heap) /\ EarlierChild(ts, b) > b.at
        /\ EarlierChild(ts, b) \in Nat
    BY <1>1, ChildIs
  <2> QED
    BY <2>1, MoveToIs, SwapIs, PlaceIs
<1>2. LoopsDown(Place, D, H, m)
  <2> SUFFICES ASSUME NEW b \in Place
               PROVE  m[b] \in Nat /\ (b \notin D => H[b] \in Place /\ m[H[b]] < m[b])
    BY DEF LoopsDown
  <2>1. b.at \in Nat /\ Len(b.heap) \in Nat /\ b.at <= Len(b.heap)
    BY PlaceIs
  <2>2. CASE Inner(b)
    <3>1. /\ Next1(b) \in Place /\ Len(Next1(b).heap) = Len(b.heap)
          /\ Next1(b).at > b.at /\ Next1(b).at \in Nat
      BY <1>1, <2>2
    <3>2. m[Next1(b)] = Len(Next1(b).heap) - Next1(b).at /\ H[b] = Next1(b)
      BY <3>1
    <3> HIDE DEF Next1, H
    <3> QED
      BY <2>1, <3>1, <3>2
  <2>3. CASE ~Inner(b)
    BY <2>1, <2>3
  <2> QED
    BY <2>2, <2>3
<1>3. \E f : f = [b \in Place |-> IF b \in D THEN G[b] ELSE f[H[b]]]
  <2> HIDE DEF D, G, H, m
  <2> QED
    BY <1>2, LoopExists
<1>4. PICK f : f = [b \in Place |-> IF b \in D THEN G[b] ELSE f[H[b]]]
  BY <1>3
<1>5. Down(f)
  BY <1>4
<1>6. PICK down : Down(down) /\ SiftDown(ts, a.heap, a.at) = down[[heap |-> a.heap, at |-> a.at]]
  <2> DEFINE down == CHOOSE u : Down(u)
  <2>1. Down(down)
    <3> HIDE DEF Down
    <3> QED
      BY <1>5
  <2>2. SiftDown(ts, a.heap, a.at) = down[[heap |-> a.heap, at |-> a.at]]
    BY DEF SiftDown
  <2> HIDE DEF Down, down
  <2> QED
    BY <2>1, <2>2
<1>7. \A b \in Place : down[b] = IF Inner(b) THEN down[Next1(b)] ELSE SiftUp(ts, b.heap, b.at)
  BY <1>6
<1> DEFINE P == {b \in Place : Sunk(ts, b, down[b])}
<1>8. ASSUME NEW b \in Place, b \in D \/ H[b] \in P PROVE b \in P
  <2>1. CASE Inner(b)
    <3>1. Sunk(ts, Next1(b), down[Next1(b)])
      BY <1>8, <2>1
    <3>2. Sunk(ts, b, down[Next1(b)])
      BY <2>1, <3>1, SinkStep
    <3> QED
      BY <1>7, <2>1, <3>2
  <2>2. CASE ~Inner(b)
    BY <1>7, <2>2, SinkDone
  <2> QED
    BY <2>1, <2>2
<1>9. \A b \in Place : b \in P
  <2> HIDE DEF P, D, H, m
  <2> QED
    BY <1>2, <1>8, LoopInduction
<1>10. a = [heap |-> a.heap, at |-> a.at]
  BY DEF Place
<1> QED
  BY <1>6, <1>9, <1>10
-----------------------------------------------------------------------------
(***************************************************************************)
(* push() and pop() of the priority queue.                                 *)
(***************************************************************************)
Rankable(ts, Q) == \E r : Ranks(ts, Q, r)

LEMMA AppendPlace ==
  ASSUME NEW h \in Seq(Pins), NEW p \in Pins
  PROVE  /\ [heap |-> Append(h, p), at |-> Len(h) + 1] \in Place
         /\ Append(h, p) \in Seq(Pins) /\ Len(Append(h, p)) = Len(h) + 1
         /\ \A i \in 1 .. Len(h) : Append(h, p)[i] = h[i]
         /\ Append(h, p)[Len(h) + 1] = p
<1>1. Len(h) \in Nat
  BY LenProperties
<1>2. Append(h, p) \in Seq(Pins) /\ Len(Append(h, p)) = Len(h) + 1
  BY <1>1
<1> QED
  BY <1>1, <1>2 DEF Place

LEMMA AppendHeap ==
  ASSUME NEW h, NEW Q, HeapOf(h, Q), NEW p \in Pins, p \notin Q
  PROVE  HeapOf(Append(h, p), Q \cup {p})
<1> DEFINE g == Append(h, p)
<1>1. /\ h \in Seq(Pins) /\ Len(h) \in Nat /\ \A i \in 1 .. Len(h) : h[i] \in Q
  BY HeapEntries
<1>2. /\ g \in Seq(Pins) /\ Len(g) = Len(h) + 1 /\ g[Len(h) + 1] = p
      /\ \A i \in 1 .. Len(h) : g[i] = h[i]
  BY <1>1, AppendPlace
<1> HIDE DEF g
<1>3. \A i, j \in 1 .. Len(g) : g[i] = g[j] => i = j
  BY <1>1, <1>2 DEF HeapOf
<1>4. Q \cup {p} = {g[i] : i \in 1 .. Len(g)}
  <2>1. ASSUME NEW q \in Q \cup {p} PROVE \E i \in 1 .. Len(g) : q = g[i]
    <3>1. CASE q = p
      BY <1>1, <1>2, <3>1
    <3>2. CASE q \in Q
      <4>1. PICK i \in 1 .. Len(h) : q = h[i]
        BY <3>2 DEF HeapOf
      <4> QED
        BY <1>1, <1>2, <4>1
    <3> QED
      BY <3>1, <3>2
  <2>2. ASSUME NEW i \in 1 .. Len(g) PROVE g[i] \in Q \cup {p}
    BY <1>1, <1>2
  <2> QED
    BY <2>1, <2>2
<1> QED
  BY <1>2, <1>3, <1>4 DEF HeapOf, g

LEMMA PushIs ==
  ASSUME NEW ts, NEW h, NEW Q, HeapOf(h, Q), NEW p \in Pins, p \notin Q
  PROVE  /\ HeapOf(Push(ts, h, p), Q \cup {p})
         /\ Rankable(ts, Q \cup {p}) /\ Sorted(ts, h) => Sorted(ts, Push(ts, h, p))
<1> DEFINE a == [heap |-> Append(h, p), at |-> Len(h) + 1]
           g == Push(ts, h, p)
<1>1. h \in Seq(Pins) /\ Len(h) \in Nat
  BY HeapEntries
<1>2. /\ a \in Place /\ Len(a.heap) = Len(h) + 1 /\ a.at = Len(h) + 1
      /\ a.heap = Append(h, p) /\ \A i \in 1 .. Len(h) : a.heap[i] = h[i]
  BY <1>1, AppendPlace
<1>3. g = SiftUp(ts, a.heap, a.at)
  BY DEF Push
<1> HIDE DEF g, a
<1>4. HeapOf(a.heap, Q \cup {p})
  BY <1>2, AppendHeap
<1>5. Risen(ts, a, g)
  BY <1>2, <1>3, SiftUpIs
<1>6. HeapOf(g, Q \cup {p})
  BY <1>4, <1>5 DEF Risen
<1>7. ASSUME NEW r, Ranks(ts, Q \cup {p}, r), Sorted(ts, h) PROVE Sorted(ts, g)
  <2>1. Ranks(ts, Q, r)
    BY <1>7 DEF Ranks
  <2>2. Ordered(h, r)
    BY <1>7, <2>1, SortedIsOrdered
  <2>3. NearlyUp(a.heap, r, a.at)
    <3>1. ASSUME NEW i \in 2 .. Len(a.heap) PROVE i \div 2 \in 1 .. Len(h) /\ i \in Nat /\ i \div 2 # a.at
      BY <1>1, <1>2, Half
    <3>2. ASSUME NEW i \in 2 .. Len(a.heap), i # a.at PROVE r[a.heap[i \div 2]] <= r[a.heap[i]]
      <4>1. i \in 2 .. Len(h) /\ i \in 1 .. Len(h)
        BY <1>1, <1>2, <3>2
      <4>2. a.heap[i] = h[i] /\ a.heap[i \div 2] = h[i \div 2]
        BY <1>2, <3>1, <4>1
      <4> QED
        BY <2>2, <4>1, <4>2 DEF Ordered
    <3> QED
      BY <3>1, <3>2 DEF NearlyUp
  <2>4. Ordered(g, r)
    BY <1>4, <1>5, <1>7, <2>3 DEF Risen
  <2> QED
    BY <1>6, <1>7, <2>4, SortedIsOrdered
<1> QED
  BY <1>6, <1>7 DEF Rankable, g

\* Whatever is pushed on whatever array, it stays an array of pins.
LEMMA PushType ==
  ASSUME NEW ts, NEW h \in Seq(Pins), NEW p \in Pins
  PROVE  Push(ts, h, p) \in Seq(Pins)
<1> DEFINE a == [heap |-> Append(h, p), at |-> Len(h) + 1]
<1>1. a \in Place /\ Push(ts, h, p) = SiftUp(ts, a.heap, a.at)
  BY AppendPlace DEF Push
<1> HIDE DEF a
<1> QED
  BY <1>1, SiftUpIs DEF Risen

\* The last entry in the place of the first.
Refilled(h) == [Front(h) EXCEPT ![1] = Last(h)]

LEMMA RefilledIs ==
  ASSUME NEW h \in Seq(Pins), Len(h) > 1
  PROVE  /\ [heap |-> Refilled(h), at |-> 1] \in Place
         /\ Refilled(h) \in Seq(Pins) /\ Len(Refilled(h)) = Len(h) - 1
         /\ \A i \in 1 .. Len(h) - 1 : Refilled(h)[i] = IF i = 1 THEN h[Len(h)] ELSE h[i]
<1>1. Len(h) \in Nat /\ \A i \in 1 .. Len(h) - 1 : h[i] \in Pins
  BY LenProperties, ElementOfSeq
<1> DEFINE f == Front(h)
<1>2. /\ f \in Seq(Pins) /\ Len(f) = Len(h) - 1
      /\ \A i \in 1 .. Len(h) - 1 : f[i] = h[i]
  <2>1. Len(h) - 1 \in Int /\ 1 \in Int
    BY <1>1
  <2>2. /\ SubSeq(h, 1, Len(h) - 1) \in Seq(Pins)
        /\ Len(SubSeq(h, 1, Len(h) - 1)) = IF 1 <= Len(h) - 1 THEN Len(h) - 1 - 1 + 1 ELSE 0
        /\ \A i \in 1 .. Len(h) - 1 - 1 + 1 : SubSeq(h, 1, Len(h) - 1)[i] = h[1 + i - 1]
    BY <1>1, <2>1, SubSeqProperties
  <2>3. Len(h) - 1 - 1 + 1 = Len(h) - 1 /\ \A i \in 1 .. Len(h) - 1 : 1 + i - 1 = i
    BY <1>1
  <2> QED
    BY <1>1, <2>2, <2>3 DEF Front
<1>3. Last(h) = h[Len(h)] /\ h[Len(h)] \in Pins
  BY <1>1, ElementOfSeq DEF Last
<1> HIDE DEF f
<1>4. 1 \in 1 .. Len(f)
  BY <1>1, <1>2
<1>5. /\ [f EXCEPT ![1] = Last(h)] \in Seq(Pins) /\ Len([f EXCEPT ![1] = Last(h)]) = Len(f)
      /\ \A i \in 1 .. Len(f) : [f EXCEPT ![1] = Last(h)][i] = IF i = 1 THEN Last(h) ELSE f[i]
  BY <1>2, <1>3, <1>4, ExceptSeq
<1>6. /\ Refilled(h) \in Seq(Pins) /\ Len(Refilled(h)) = Len(h) - 1
      /\ \A i \in 1 .. Len(h) - 1 : Refilled(h)[i] = IF i = 1 THEN h[Len(h)] ELSE h[i]
  BY <1>2, <1>3, <1>5 DEF Refilled, f
<1>7. [heap |-> Refilled(h), at |-> 1] \in Place
  BY <1>1, <1>6 DEF Place
<1> QED
  BY <1>6, <1>7

LEMMA PopType ==
  ASSUME NEW ts, NEW h \in Seq(Pins), h # <<>>
  PROVE  Pop(ts, h) \in Seq(Pins) /\ Len(Pop(ts, h)) = Len(h) - 1 /\ Len(h) \in Nat \ {0}
<1>1. Len(h) \in Nat \ {0}
  BY EmptySeq
<1>2. CASE Len(h) = 1
  BY <1>2 DEF Pop
<1>3. CASE Len(h) # 1
  <2> DEFINE a == [heap |-> Refilled(h), at |-> 1]
  <2>1. Len(h) > 1
    BY <1>1, <1>3
  <2>2. a \in Place /\ Len(a.heap) = Len(h) - 1
    BY <2>1, RefilledIs
  <2>3. Pop(ts, h) = SiftDown(ts, a.heap, a.at)
    BY <1>3 DEF Pop, Refilled
  <2> HIDE DEF a
  <2> QED
    BY <1>1, <2>2, <2>3, SiftDownIs DEF Sunk
<1> QED
  BY <1>1, <1>2, <1>3

LEMMA RefilledHeap ==
  ASSUME NEW h, NEW Q, HeapOf(h, Q), Len(h) > 1
  PROVE  HeapOf(Refilled(h), Q \ {h[1]})
<1> DEFINE g == Refilled(h)
<1>1. /\ h \in Seq(Pins) /\ Len(h) \in Nat
      /\ \A i, j \in 1 .. Len(h) : h[i] = h[j] => i = j
      /\ \A q : q \in Q <=> \E i \in 1 .. Len(h) : q = h[i]
  BY HeapEntries DEF HeapOf
<1>2. /\ g \in Seq(Pins) /\ Len(g) = Len(h) - 1
      /\ \A i \in 1 .. Len(h) - 1 : g[i] = IF i = 1 THEN h[Len(h)] ELSE h[i]
  BY <1>1, RefilledIs
<1> HIDE DEF g
<1>3. \A i, j \in 1 .. Len(g) : g[i] = g[j] => i = j
  BY <1>1, <1>2
<1>4. ASSUME NEW q \in Q, q # h[1] PROVE \E i \in 1 .. Len(g) : q = g[i]
  <2>1. PICK i \in 1 .. Len(h) : q = h[i]
    BY <1>1
  <2>2. CASE i = Len(h)
    BY <1>1, <1>2, <2>1, <2>2
  <2>3. CASE i # Len(h)
    BY <1>1, <1>2, <1>4, <2>1, <2>3
  <2> QED
    BY <2>2, <2>3
<1>5. ASSUME NEW i \in 1 .. Len(g) PROVE g[i] \in Q \ {h[1]}
  <2>1. i \in 1 .. Len(h) /\ i # Len(h) /\ 1 \in 1 .. Len(h) /\ Len(h) \in 1 .. Len(h)
    BY <1>1, <1>2
  <2>2. CASE i = 1
    <3>1. g[i] = h[Len(h)] /\ h[Len(h)] \in Q /\ h[Len(h)] # h[1]
      BY <1>1, <1>2, <2>1, <2>2
    <3> QED
      BY <3>1
  <2>3. CASE i # 1
    <3>1. g[i] = h[i] /\ h[i] \in Q /\ h[i] # h[1]
      BY <1>1, <1>2, <2>1, <2>3
    <3> QED
      BY <3>1
  <2> QED
    BY <2>2, <2>3
<1>6. Q \ {h[1]} = {g[i] : i \in 1 .. Len(g)}
  <2> DEFINE B == {g[i] : i \in 1 .. Len(g)}
  <2>1. \A q \in Q \ {h[1]} : q \in B
    BY <1>4
  <2>2. \A q \in B : q \in Q \ {h[1]}
    BY <1>5
  <2> HIDE DEF B
  <2>3. Q \ {h[1]} = B
    BY <2>1, <2>2
  <2> QED
    BY <2>3 DEF B
<1> QED
  BY <1>2, <1>3, <1>6 DEF HeapOf, g

LEMMA RefilledHole ==
  ASSUME NEW h, NEW Q, HeapOf(h, Q), Len(h) > 1, NEW r, Ordered(h, r)
  PROVE  HoleAt(Refilled(h), r, 1)
<1>1. h \in Seq(Pins) /\ Len(h) \in Nat
  BY HeapEntries
<1>2. /\ Len(Refilled(h)) = Len(h) - 1
      /\ \A i \in 1 .. Len(h) - 1 : Refilled(h)[i] = IF i = 1 THEN h[Len(h)] ELSE h[i]
  BY <1>1, RefilledIs
<1>3. ASSUME NEW i \in 2 .. Len(h) - 1, i \div 2 # 1
      PROVE  r[Refilled(h)[i \div 2]] <= r[Refilled(h)[i]]
  <2>1. /\ i \in 2 .. Len(h) /\ i \in 1 .. Len(h) - 1 /\ i # 1
        /\ i \div 2 \in 1 .. Len(h) - 1
    BY <1>1, <1>3, Half
  <2>2. Refilled(h)[i] = h[i] /\ Refilled(h)[i \div 2] = h[i \div 2]
    BY <1>2, <1>3, <2>1
  <2> QED
    BY <2>1, <2>2 DEF Ordered
<1> QED
  BY <1>2, <1>3 DEF HoleAt

\* Subsets of what can be ranked can be ranked.
LEMMA RankableSubset ==
  ASSUME NEW ts, NEW Q, NEW R, R \subseteq Q, Rankable(ts, Q)
  PROVE  Rankable(ts, R)
BY DEF Rankable, Ranks

LEMMA PopIs ==
  ASSUME NEW ts, NEW h, NEW Q, HeapOf(h, Q), h # <<>>
  PROVE  /\ Head(h) = h[1] /\ h[1] \in Q /\ Len(h) \in Nat \ {0}
         /\ HeapOf(Pop(ts, h), Q \ {h[1]})
         /\ Rankable(ts, Q) /\ Sorted(ts, h) => Sorted(ts, Pop(ts, h))
<1>1. h \in Seq(Pins) /\ Len(h) \in Nat \ {0}
  BY HeapEntries, EmptySeq
<1>2. Head(h) = h[1] /\ h[1] \in Q
  BY <1>1, HeapEntries
<1>3. CASE Len(h) = 1
  <2>1. Pop(ts, h) = <<>>
    BY <1>3 DEF Pop
  <2>2. \A q \in Q : q = h[1]
    <3>1. Q = {h[i] : i \in 1 .. Len(h)}
      BY DEF HeapOf
    <3>2. \A i \in 1 .. Len(h) : i = 1
      BY <1>3
    <3> QED
      BY <3>1, <3>2
  <2>3. HeapOf(<<>>, {})
    BY EmptySeq DEF HeapOf
  <2>4. Q \ {h[1]} = {}
    BY <2>2
  <2>5. Sorted(ts, <<>>)
    BY EmptySeq DEF Sorted
  <2> QED
    BY <1>1, <1>2, <2>1, <2>3, <2>4, <2>5
<1>4. CASE Len(h) # 1
  <2> DEFINE a == [heap |-> Refilled(h), at |-> 1]
             g == Pop(ts, h)
             R == Q \ {h[1]}
  <2>1. Len(h) > 1
    BY <1>1, <1>4
  <2>2. a \in Place /\ a.heap = Refilled(h) /\ a.at = 1
    BY <1>1, <2>1, RefilledIs
  <2>3. g = SiftDown(ts, a.heap, a.at)
    BY <1>4 DEF Pop, Refilled
  <2>4. HeapOf(a.heap, R)
    BY <2>1, <2>2, RefilledHeap
  <2> HIDE DEF a, g
  <2>5. Sunk(ts, a, g)
    BY <2>2, <2>3, SiftDownIs
  <2>6. HeapOf(g, R)
    BY <2>4, <2>5 DEF Sunk
  <2>7. ASSUME NEW r, Ranks(ts, Q, r), Sorted(ts, h) PROVE Sorted(ts, g)
    <3>1. Ordered(h, r)
      BY <2>7, SortedIsOrdered
    <3>2. HoleAt(a.heap, r, a.at)
      BY <2>1, <2>2, <3>1, RefilledHole
    <3>3. Ranks(ts, R, r)
      BY <2>7 DEF Ranks
    <3>4. Ordered(g, r)
      BY <2>4, <2>5, <3>2, <3>3 DEF Sunk
    <3> HIDE DEF R
    <3> QED
      BY <2>6, <3>3, <3>4, SortedIsOrdered
  <2> QED
    BY <1>1, <1>2, <2>6, <2>7 DEF Rankable, g
<1> QED
  BY <1>3, <1>4

\* The front of an ordered heap comes before all others.
LEMMA HeadIsFirst ==
  ASSUME NEW h, NEW Q, HeapOf(h, Q), NEW r, \A p \in Q : r[p] \in Int, Ordered(h, r),
         NEW p \in Q
  PROVE  r[h[1]] <= r[p]
<1> DEFINE B == {i \in 1 .. Len(h) : ~(r[h[1]] <= r[h[i]])}
<1>1. /\ Len(h) \in Nat /\ \A i \in 1 .. Len(h) : r[h[i]] \in Int
      /\ \A i \in 2 .. Len(h) : i \div 2 \in 1 .. Len(h)
  BY HeapEntries
<1>2. PICK k \in 1 .. Len(h) : p = h[k]
  BY DEF HeapOf
<1>3. ASSUME B # {} PROVE FALSE
  <2>1. B \in SUBSET Nat
    OBVIOUS
  <2>2. PICK i \in B : \A j \in B : i <= j
    <3> HIDE DEF B
    <3> QED
      BY <1>3, <2>1, LeastNat
  <2>3. i \in 1 .. Len(h) /\ 1 \in 1 .. Len(h) /\ r[h[1]] \in Int
    BY <1>1
  <2>4. CASE i = 1
    <3>1. r[h[1]] <= r[h[1]]
      BY <2>3
    <3> QED
      BY <2>4, <3>1
  <2>5. CASE i # 1
    <3>1. i \in 2 .. Len(h) /\ i \in Nat /\ i >= 2
      BY <1>1, <2>3, <2>5
    <3>2. i \div 2 \in 1 .. Len(h) /\ i \div 2 < i /\ i \div 2 \in Nat
      BY <1>1, <3>1, Half
    <3>3. i \div 2 \notin B
      BY <2>2, <3>1, <3>2
    <3>4. r[h[1]] <= r[h[i \div 2]] /\ r[h[i \div 2]] <= r[h[i]]
      BY <3>1, <3>2, <3>3 DEF Ordered
    <3>5. r[h[i]] \in Int /\ r[h[i \div 2]] \in Int
      BY <1>1, <2>3, <3>2
    <3>6. ~(r[h[1]] <= r[h[i]])
      BY <2>2
    <3> QED
      BY <2>3, <3>4, <3>5, <3>6
  <2> QED
    BY <2>4, <2>5
<1> QED
  BY <1>2, <1>3
-----------------------------------------------------------------------------
(***************************************************************************)
(* sync_schedule(): tasks are popped until one is found, and pushed back.  *)
(***************************************************************************)
Popped == [heap : Seq(Pins), tmp : Seq(Pins)]

\* The pins of Q are in the queue or in tmp, each in one of them.
Parted(a, Q) ==
  \E R \in SUBSET Q : HeapOf(a.heap, R) /\ HeapOf(a.tmp, Q \ R)

\* Nothing is in tmp twice or missing.
OneMore(a, ts) ==
  [heap |-> Pop(ts, a.heap), tmp |-> Append(a.tmp, Head(a.heap))]

LEMMA PoppedIs ==
  ASSUME NEW a \in Popped
  PROVE  /\ a.heap \in Seq(Pins) /\ a.tmp \in Seq(Pins)
         /\ Len(a.heap) \in Nat /\ Len(a.tmp) \in Nat
BY LenProperties DEF Popped

LEMMA OneMoreType ==
  ASSUME NEW ts, NEW a \in Popped, a.heap # <<>>
  PROVE  OneMore(a, ts) \in Popped /\ Len(OneMore(a, ts).heap) < Len(a.heap)
<1>1. Pop(ts, a.heap) \in Seq(Pins) /\ Len(Pop(ts, a.heap)) = Len(a.heap) - 1
      /\ Len(a.heap) \in Nat \ {0}
  BY PoppedIs, PopType
<1>2. Head(a.heap) \in Pins
  BY <1>1, PoppedIs, ElementOfSeq
<1>3. Append(a.tmp, Head(a.heap)) \in Seq(Pins)
  BY <1>2, PoppedIs, AppendPlace
<1> QED
  BY <1>1, <1>3 DEF OneMore, Popped

LEMMA OneMoreParted ==
  ASSUME NEW ts, NEW a \in Popped, a.heap # <<>>, NEW Q, Parted(a, Q)
  PROVE  /\ Parted(OneMore(a, ts), Q)
         /\ Rankable(ts, Q) /\ Sorted(ts, a.heap) => Sorted(ts, OneMore(a, ts).heap)
<1>1. PICK R \in SUBSET Q : HeapOf(a.heap, R) /\ HeapOf(a.tmp, Q \ R)
  BY DEF Parted
<1> DEFINE p == a.heap[1]
           g == Pop(ts, a.heap)
<1>2. Head(a.heap) = p /\ p \in R /\ HeapOf(g, R \ {p})
      /\ (Rankable(ts, R) /\ Sorted(ts, a.heap) => Sorted(ts, g))
  BY <1>1, PopIs
<1>3. p \in Pins
  BY <1>1, <1>2, HeapEntries
<1> HIDE DEF p, g
<1>4. HeapOf(Append(a.tmp, p), (Q \ R) \cup {p})
  BY <1>1, <1>2, <1>3, AppendHeap
<1>5. (Q \ R) \cup {p} = Q \ (R \ {p})
  BY <1>2
<1>6. OneMore(a, ts).heap = g /\ OneMore(a, ts).tmp = Append(a.tmp, p)
  BY <1>2 DEF OneMore, g
<1>7. Rankable(ts, Q) => Rankable(ts, R)
  BY RankableSubset
<1>8. Parted(OneMore(a, ts), Q)
  <2>1. HeapOf(OneMore(a, ts).tmp, Q \ (R \ {p}))
    BY <1>4, <1>5, <1>6
  <2>2. HeapOf(OneMore(a, ts).heap, R \ {p})
    BY <1>2, <1>6
  <2>3. R \ {p} \in SUBSET Q
    OBVIOUS
  <2> QED
    BY <2>1, <2>2, <2>3 DEF Parted
<1> QED
  BY <1>2, <1>6, <1>7, <1>8

LEMMA PopUntilIs ==
  ASSUME NEW p, NEW Q, HeapOf(heap, Q)
  PROVE  /\ Parted(PopUntil(p), Q) /\ PopUntil(p) \in Popped
         /\ Rankable(task, Q) /\ Sorted(task, heap) => Sorted(task, PopUntil(p).heap)
         /\ PopUntil(p).heap = <<>> \/ Head(PopUntil(p).heap) = p
         /\ \A i \in 1 .. Len(PopUntil(p).tmp) : PopUntil(p).tmp[i] # p
<1> DEFINE Found(a) == a.heap = <<>> \/ Head(a.heap) = p
           D == {a \in Popped : Found(a)}
           G == [a \in Popped |-> a]
           H == [a \in Popped |-> OneMore(a, task)]
           m == [a \in Popped |-> Len(a.heap)]
           Find(f) == f = [a \in [heap : Seq(Pins), tmp : Seq(Pins)] |->
                             IF a.heap = <<>> \/ Head(a.heap) = p THEN a
                             ELSE f[[heap |-> Pop(task, a.heap),
                                     tmp |-> Append(a.tmp, Head(a.heap))]]]
           Start1 == [heap |-> heap, tmp |-> <<>>]
<1>1. ASSUME NEW a \in Popped PROVE m[a] \in Nat
  BY PoppedIs
<1>2. LoopsDown(Popped, D, H, m)
  <2> SUFFICES ASSUME NEW a \in Popped
               PROVE  m[a] \in Nat /\ (a \notin D => H[a] \in Popped /\ m[H[a]] < m[a])
    BY DEF LoopsDown
  <2>1. CASE Found(a)
    BY <1>1, <2>1
  <2>2. CASE ~Found(a)
    <3>1. OneMore(a, task) \in Popped /\ Len(OneMore(a, task).heap) < Len(a.heap)
      BY <2>2, OneMoreType
    <3> QED
      BY <1>1, <3>1
  <2> QED
    BY <2>1, <2>2
<1>3. \E f : f = [a \in Popped |-> IF a \in D THEN G[a] ELSE f[H[a]]]
  <2> HIDE DEF D, G, H, m
  <2> QED
    BY <1>2, LoopExists
<1>4. PICK f : f = [a \in Popped |-> IF a \in D THEN G[a] ELSE f[H[a]]]
  BY <1>3
<1>5. Find(f)
  BY <1>4 DEF Popped, OneMore
<1>6. PICK find : Find(find) /\ PopUntil(p) = find[Start1]
  <2> DEFINE find == CHOOSE u : Find(u)
  <2>1. Find(find)
    <3> HIDE DEF Find
    <3> QED
      BY <1>5
  <2>2. PopUntil(p) = find[Start1]
    BY DEF PopUntil
  <2> HIDE DEF Find, find
  <2> QED
    BY <2>1, <2>2
<1>7. \A a \in Popped : find[a] = IF Found(a) THEN a ELSE find[OneMore(a, task)]
  BY <1>6 DEF Popped, OneMore
<1> DEFINE Kept(a) == /\ Parted(a, Q)
                      /\ Rankable(task, Q) /\ Sorted(task, heap) => Sorted(task, a.heap)
                      /\ \A i \in 1 .. Len(a.tmp) : a.tmp[i] # p
           P == {a \in Popped : /\ find[a] \in Popped /\ Found(find[a])
                                /\ Kept(a) => Kept(find[a])}
<1>8. ASSUME NEW a \in Popped, a \in D \/ H[a] \in P PROVE a \in P
  <2>1. CASE Found(a)
    BY <1>7, <2>1
  <2>2. CASE ~Found(a)
    <3>1. /\ find[OneMore(a, task)] \in Popped /\ Found(find[OneMore(a, task)])
          /\ Kept(OneMore(a, task)) => Kept(find[OneMore(a, task)])
      BY <1>8, <2>2
    <3>2. find[a] = find[OneMore(a, task)]
      BY <1>7, <2>2
    <3>3. Kept(a) => Kept(OneMore(a, task))
      <4>1. /\ a.tmp \in Seq(Pins) /\ Len(a.tmp) \in Nat /\ Head(a.heap) \in Pins
            /\ Head(a.heap) # p /\ OneMore(a, task).tmp = Append(a.tmp, Head(a.heap))
        BY <2>2, PoppedIs, ElementOfSeq DEF OneMore
      <4>2. (\A i \in 1 .. Len(a.tmp) : a.tmp[i] # p)
              => \A i \in 1 .. Len(OneMore(a, task).tmp) : OneMore(a, task).tmp[i] # p
        BY <4>1, AppendPlace
      <4> QED
        BY <2>2, <4>2, OneMoreParted
    <3> HIDE DEF Kept, Found
    <3> QED
      BY <3>1, <3>2, <3>3
  <2> QED
    BY <2>1, <2>2
<1>9. \A a \in Popped : a \in P
  <2> HIDE DEF P, D, H, m
  <2> QED
    BY <1>2, <1>8, LoopInduction
<1>10. Start1 \in Popped
  BY EmptySeq DEF Popped, HeapOf
<1>11. Kept(Start1)
  <2>1. HeapOf(<<>>, Q \ Q)
    BY EmptySeq DEF HeapOf
  <2>2. Start1.heap = heap /\ Start1.tmp = <<>>
    OBVIOUS
  <2>3. \A i \in 1 .. Len(<<>>) : <<>>[i] # p
    OBVIOUS
  <2> HIDE DEF Start1
  <2>4. Parted(Start1, Q)
    BY <2>1, <2>2 DEF Parted
  <2> QED
    BY <2>2, <2>3, <2>4
<1> HIDE DEF Start1
<1>12. PopUntil(p) \in Popped /\ Kept(PopUntil(p)) /\ Found(PopUntil(p))
  BY <1>6, <1>9, <1>10, <1>11
<1> QED
  BY <1>12

\* The search ends at p where p is in the queue, and else with an empty queue.
LEMMA SearchIs ==
  ASSUME NEW p, NEW Q, HeapOf(heap, Q)
  PROVE  /\ PopUntil(p).heap # <<>> <=> p \in Q
         /\ PopUntil(p).heap # <<>> => Head(PopUntil(p).heap) = p
<1> DEFINE a == PopUntil(p)
<1>1. /\ Parted(a, Q) /\ a \in Popped /\ (a.heap = <<>> \/ Head(a.heap) = p)
      /\ \A i \in 1 .. Len(a.tmp) : a.tmp[i] # p
  BY PopUntilIs
<1> HIDE DEF a
<1>2. PICK R \in SUBSET Q : HeapOf(a.heap, R) /\ HeapOf(a.tmp, Q \ R)
  BY <1>1 DEF Parted
<1>3. p \notin Q \ R
  BY <1>1, <1>2 DEF HeapOf
<1>4. CASE a.heap = <<>>
  <2>1. R = {}
    BY <1>2, <1>4 DEF HeapOf
  <2> QED
    BY <1>3, <1>4, <2>1 DEF a
<1>5. CASE a.heap # <<>>
  <2>1. Head(a.heap) = p /\ Head(a.heap) = a.heap[1] /\ 1 \in 1 .. Len(a.heap)
    BY <1>1, <1>5, PoppedIs, EmptySeq
  <2>2. p \in R
    BY <1>2, <2>1, HeapEntries
  <2> QED
    BY <1>5, <2>1, <2>2 DEF a
<1> QED
  BY <1>4, <1>5

\* What a definition by recursion over 0 .. n needs.
Recursion(f, b, n, F) == f = [i \in 0 .. n |-> IF i = 0 THEN b ELSE F[i][f[i - 1]]]

LEMMA FiniteRecursion ==
  ASSUME NEW S, NEW b \in S, NEW n \in Nat, NEW F \in [Nat -> [S -> S]]
  PROVE  \E f : Recursion(f, b, n, F)
<1>1. PICK g \in [Nat -> S] : g[0] = b /\ \A i \in Nat : g[i + 1] = F[i + 1][g[i]]
  BY NatRecursion
<1> DEFINE f == [i \in 0 .. n |-> g[i]]
<1>2. ASSUME NEW i \in 0 .. n PROVE f[i] = IF i = 0 THEN b ELSE F[i][f[i - 1]]
  <2>1. CASE i = 0
    BY <1>1, <2>1
  <2>2. CASE i # 0
    <3>1. i - 1 \in Nat /\ i - 1 \in 0 .. n /\ i - 1 + 1 = i
      BY <2>2
    <3>2. g[i - 1 + 1] = F[i - 1 + 1][g[i - 1]]
      BY <1>1, <3>1
    <3> QED
      BY <2>2, <3>1, <3>2
  <2> QED
    BY <2>1, <2>2
<1>3. f = [i \in 0 .. n |-> f[i]]
  OBVIOUS
<1> HIDE DEF f
<1>4. Recursion(f, b, n, F)
  BY <1>2, <1>3 DEF Recursion
<1> QED
  BY <1>4

\* The pins of the first n entries.
Firsts(s, n) == {s[i] : i \in 1 .. n}

LEMMA PushFirstIs ==
  ASSUME NEW ts, NEW h, NEW Q, HeapOf(h, Q), NEW s, NEW R, HeapOf(s, R), Q \cap R = {}
  PROVE  LET g == PushFirst(ts, h, s, Len(s))
         IN /\ HeapOf(g, Q \cup R)
            /\ Rankable(ts, Q \cup R) /\ Sorted(ts, h) => Sorted(ts, g)
<1> DEFINE n == Len(s)
           S == Seq(Pins)
           Step(i, g) == IF i \in 1 .. n THEN Push(ts, g, s[i]) ELSE g
           F == [i \in Nat |-> [g \in S |-> Step(i, g)]]
           Pushed(f) == f = [i \in 0 .. n |-> IF i = 0 THEN h ELSE Push(ts, f[i - 1], s[i])]
<1>1. /\ n \in Nat /\ s \in Seq(Pins) /\ h \in S
      /\ \A i \in 1 .. n : s[i] \in R /\ s[i] \in Pins
      /\ \A i, j \in 1 .. n : s[i] = s[j] => i = j
      /\ R = Firsts(s, n)
  BY HeapEntries DEF HeapOf, Firsts
<1> HIDE DEF n
<1>2. F \in [Nat -> [S -> S]]
  <2>1. ASSUME NEW i \in Nat, NEW g \in S PROVE Step(i, g) \in S
    BY <1>1, PushType
  <2> HIDE DEF S, Step
  <2> QED
    BY <2>1
<1>f. PICK f : Recursion(f, h, n, F)
  <2>1. n \in Nat /\ h \in S
    BY <1>1
  <2> HIDE DEF F, S
  <2> QED
    BY <1>2, <2>1, FiniteRecursion
<1>3. f = [i \in 0 .. n |-> IF i = 0 THEN h ELSE F[i][f[i - 1]]]
  BY <1>f DEF Recursion
<1> DEFINE T == {i \in Nat : i <= n => f[i] \in S}
<1>4. ASSUME NEW i \in 0 .. n PROVE f[i] \in S
  <2>1. 0 \in T
    BY <1>1, <1>3
  <2>2. ASSUME NEW j \in Nat, j \in T PROVE j + 1 \in T
    <3> SUFFICES ASSUME j + 1 <= n PROVE f[j + 1] \in S
      OBVIOUS
    <3>1. j \in 0 .. n /\ j + 1 \in 0 .. n /\ j + 1 # 0 /\ j + 1 - 1 = j /\ j + 1 \in Nat
      BY <1>1
    <3>2. f[j] \in S /\ f[j + 1] = F[j + 1][f[j]]
      BY <1>3, <2>2, <3>1
    <3> HIDE DEF F, S
    <3> QED
      BY <1>2, <3>1, <3>2
  <2>3. i \in T /\ i <= n
    <3> HIDE DEF T
    <3> QED
      BY <1>1, <2>1, <2>2, NatInductionSet
  <2> QED
    BY <2>3
<1>5. ASSUME NEW i \in 1 .. n PROVE f[i] = Push(ts, f[i - 1], s[i])
  <2>1. i \in 0 .. n /\ i # 0 /\ i - 1 \in 0 .. n /\ i \in Nat
    BY <1>1
  <2>2. f[i] = F[i][f[i - 1]] /\ f[i - 1] \in S
    BY <1>3, <1>4, <2>1
  <2> HIDE DEF S
  <2> QED
    BY <2>1, <2>2
<1>6. Pushed(f)
  <2>1. ASSUME NEW i \in 0 .. n PROVE f[i] = IF i = 0 THEN h ELSE Push(ts, f[i - 1], s[i])
    <3>1. CASE i = 0
      BY <1>3, <3>1
    <3>2. CASE i # 0
      <4>1. i \in 1 .. n
        BY <1>1, <3>2
      <4> QED
        BY <1>5, <3>2, <4>1
    <3> QED
      BY <3>1, <3>2
  <2>2. f = [i \in 0 .. n |-> f[i]]
    BY <1>3
  <2> HIDE DEF F
  <2> QED
    BY <2>1, <2>2
<1>7. PICK pushed : Pushed(pushed) /\ PushFirst(ts, h, s, n) = pushed[n]
  <2> DEFINE pushed == CHOOSE u : Pushed(u)
  <2>1. Pushed(pushed)
    <3> HIDE DEF Pushed
    <3> QED
      BY <1>6
  <2>2. PushFirst(ts, h, s, n) = pushed[n]
    BY DEF PushFirst
  <2> HIDE DEF Pushed, pushed
  <2> QED
    BY <2>1, <2>2
<1> DEFINE Good(i) == /\ HeapOf(pushed[i], Q \cup Firsts(s, i))
                      /\ Rankable(ts, Q \cup R) /\ Sorted(ts, h) => Sorted(ts, pushed[i])
           U == {i \in Nat : i <= n => Good(i)}
<1>8. 0 \in U
  <2>1. pushed[0] = h
    BY <1>1, <1>7
  <2>2. Q \cup Firsts(s, 0) = Q
    BY DEF Firsts
  <2> QED
    BY <2>1, <2>2
<1>9. ASSUME NEW j \in Nat, j \in U PROVE j + 1 \in U
  <2> SUFFICES ASSUME j + 1 <= n PROVE Good(j + 1)
    OBVIOUS
  <2> DEFINE p == s[j + 1]
             P == Q \cup Firsts(s, j)
  <2>1. j + 1 \in 0 .. n /\ j + 1 # 0 /\ j + 1 - 1 = j /\ j + 1 \in 1 .. n
    BY <1>1
  <2>2. pushed[j + 1] = Push(ts, pushed[j], p) /\ Good(j)
    BY <1>1, <1>7, <1>9, <2>1
  <2>3. p \in R /\ p \in Pins /\ p \notin Q
    BY <1>1, <2>1
  <2>4. ASSUME NEW i \in 1 .. j PROVE s[i] # p /\ s[i] \in R
    <3>1. i \in 1 .. n /\ i # j + 1
      BY <1>1
    <3> QED
      BY <1>1, <2>1, <3>1
  <2>5. p \notin P /\ P \cup {p} \subseteq Q \cup R
    BY <2>3, <2>4 DEF Firsts
  <2>6. P \cup {p} = Q \cup Firsts(s, j + 1)
    <3>1. \A i \in 1 .. j + 1 : i = j + 1 \/ i \in 1 .. j
      OBVIOUS
    <3>2. \A i \in 1 .. j : i \in 1 .. j + 1
      OBVIOUS
    <3>3. j + 1 \in 1 .. j + 1
      OBVIOUS
    <3>4. Firsts(s, j) \cup {p} = Firsts(s, j + 1)
      <4>1. \A x \in Firsts(s, j) \cup {p} : x \in Firsts(s, j + 1)
        BY <3>2, <3>3 DEF Firsts
      <4>2. \A x \in Firsts(s, j + 1) : x \in Firsts(s, j) \cup {p}
        BY <3>1 DEF Firsts
      <4> QED
        BY <4>1, <4>2
    <3> QED
      BY <3>4
  <2>7. HeapOf(pushed[j], P)
    BY <2>2
  <2> HIDE DEF p, P
  <2>8. /\ HeapOf(pushed[j + 1], P \cup {p})
        /\ Rankable(ts, P \cup {p}) /\ Sorted(ts, pushed[j]) => Sorted(ts, pushed[j + 1])
    <3>1. pushed[j + 1] = Push(ts, pushed[j], p)
      BY <2>2
    <3>2. p \in Pins /\ p \notin P
      BY <2>3, <2>5
    <3> DEFINE k == pushed[j]
    <3>3. HeapOf(k, P) /\ pushed[j + 1] = Push(ts, k, p)
      BY <2>7, <3>1
    <3> HIDE DEF k
    <3>4. /\ HeapOf(Push(ts, k, p), P \cup {p})
          /\ Rankable(ts, P \cup {p}) /\ Sorted(ts, k) => Sorted(ts, Push(ts, k, p))
      BY <3>2, <3>3, PushIs
    <3> QED
      BY <3>3, <3>4 DEF k
  <2>9. Rankable(ts, Q \cup R) => Rankable(ts, P \cup {p})
    BY <2>5, RankableSubset
  <2> QED
    BY <2>2, <2>6, <2>8, <2>9
<1>10. n \in U
  <2> HIDE DEF U
  <2> QED
    BY <1>1, <1>8, <1>9, NatInductionSet
<1>11. Good(n)
  BY <1>1, <1>10
<1> QED
  BY <1>1, <1>7, <1>11 DEF n

LEMMA ReverseHeap ==
  ASSUME NEW s, NEW R, HeapOf(s, R)
  PROVE  HeapOf(Reverse(s), R) /\ Len(Reverse(s)) = Len(s)
<1> DEFINE n == Len(s)
           v == Reverse(s)
<1>1. /\ n \in Nat /\ \A i \in 1 .. n : s[i] \in Pins
      /\ \A i, j \in 1 .. n : s[i] = s[j] => i = j
      /\ R = Firsts(s, n)
  BY HeapEntries DEF HeapOf, Firsts
<1>2. v = [i \in 1 .. n |-> s[(n - i) + 1]]
  BY DEF Reverse
<1> HIDE DEF n, v
<1>3. \A i \in 1 .. n : (n - i) + 1 \in 1 .. n /\ (n - ((n - i) + 1)) + 1 = i
  BY <1>1
<1>4. v \in Seq(Pins) /\ Len(v) = n
  <2>1. v \in [1 .. n -> Pins]
    BY <1>1, <1>2, <1>3
  <2> QED
    BY <1>1, <2>1, IsASeq, LenProperties
<1>5. \A i, j \in 1 .. n : v[i] = v[j] => i = j
  <2> SUFFICES ASSUME NEW i \in 1 .. n, NEW j \in 1 .. n, v[i] = v[j] PROVE i = j
    OBVIOUS
  <2>1. (n - i) + 1 = (n - j) + 1
    BY <1>1, <1>2, <1>3
  <2> QED
    BY <1>1, <2>1
<1>6. R = Firsts(v, n)
  <2>1. ASSUME NEW i \in 1 .. n PROVE s[i] \in Firsts(v, n)
    <3>1. v[(n - i) + 1] = s[i]
      BY <1>2, <1>3
    <3> QED
      BY <1>3, <3>1 DEF Firsts
  <2>2. ASSUME NEW i \in 1 .. n PROVE v[i] \in Firsts(s, n)
    BY <1>2, <1>3 DEF Firsts
  <2>3. \A x \in Firsts(s, n) : x \in Firsts(v, n)
    BY <2>1 DEF Firsts
  <2>4. \A x \in Firsts(v, n) : x \in Firsts(s, n)
    BY <2>2 DEF Firsts
  <2> QED
    BY <1>1, <2>3, <2>4
<1>7. HeapOf(v, R)
  BY <1>4, <1>5, <1>6 DEF HeapOf, Firsts
<1> QED
  BY <1>4, <1>7 DEF v, n

\* All tasks that were popped are back, and in order if their times are as
\* they were.
LEMMA PushBackAllIs ==
  ASSUME NEW p, NEW Q, HeapOf(heap, Q), NEW ts
  PROVE  LET g == PushBackAll(ts, PopUntil(p))
         IN /\ HeapOf(g, Q)
            /\ (/\ Rankable(task, Q) /\ Sorted(task, heap)
                /\ \A q \in Q : ts[q].next = task[q].next) => Sorted(ts, g)
<1> DEFINE a == PopUntil(p)
<1>1. /\ Parted(a, Q)
      /\ Rankable(task, Q) /\ Sorted(task, heap) => Sorted(task, a.heap)
  BY PopUntilIs
<1> HIDE DEF a
<1>2. PICK R \in SUBSET Q : HeapOf(a.heap, R) /\ HeapOf(a.tmp, Q \ R)
  BY <1>1 DEF Parted
<1>3. HeapOf(Reverse(a.tmp), Q \ R) /\ Len(Reverse(a.tmp)) = Len(a.tmp)
  BY <1>2, ReverseHeap
<1> DEFINE s == Reverse(a.tmp)
           W == Q \ R
           h == a.heap
           g == PushFirst(ts, h, s, Len(s))
<1>4. HeapOf(h, R) /\ HeapOf(s, W) /\ R \cap W = {} /\ R \cup W = Q
  BY <1>2, <1>3
<1>5. PushBackAll(ts, a) = g
  BY <1>3 DEF PushBackAll
<1> HIDE DEF s, W
<1>6. /\ HeapOf(g, R \cup W)
      /\ Rankable(ts, R \cup W) /\ Sorted(ts, h) => Sorted(ts, g)
  <2> HIDE DEF h
  <2> QED
    BY <1>4, PushFirstIs
<1>7. ASSUME Rankable(task, Q), Sorted(task, heap), \A q \in Q : ts[q].next = task[q].next
      PROVE  Rankable(ts, Q) /\ Sorted(ts, h)
  <2>1. \A q, u \in Q : UpdatesBefore(ts[q], ts[u]) <=> UpdatesBefore(task[q], task[u])
    BY <1>7 DEF UpdatesBefore
  <2>2. Rankable(ts, Q)
    BY <1>7, <2>1 DEF Rankable, Ranks
  <2>3. Sorted(task, h)
    BY <1>1, <1>7
  <2>4. \A i \in 2 .. Len(h) : h[i] \in Q /\ h[i \div 2] \in Q
    <3> HIDE DEF h
    <3>1. \A i \in 2 .. Len(h) : i \in 1 .. Len(h) /\ i \div 2 \in 1 .. Len(h)
      BY <1>4, HeapEntries
    <3>2. \A i \in 1 .. Len(h) : h[i] \in R
      BY <1>4, HeapEntries
    <3> QED
      BY <1>4, <3>1, <3>2
  <2>5. Sorted(ts, h)
    BY <2>1, <2>3, <2>4 DEF Sorted
  <2> QED
    BY <2>2, <2>5
<1> QED
  BY <1>4, <1>5, <1>6, <1>7 DEF a
-----------------------------------------------------------------------------
(***************************************************************************)
(* Tasks near each other in time can be ranked.                            *)
(***************************************************************************)

\* The update times of the tasks of Q are at most M after n.
Within(ts, Q, n, M) == \A q \in Q : ts[q].next \in Uint /\ Gap(ts[q].next, n) <= M

GapFrom(ts, Q, n) == [q \in Q |-> Gap(ts[q].next, n)]

LEMMA WithinRanks ==
  ASSUME NEW ts, NEW Q, NEW n \in Uint, NEW M \in Nat, 2 * M < UintRange,
         Within(ts, Q, n, M)
  PROVE  Ranks(ts, Q, GapFrom(ts, Q, n)) /\ Rankable(ts, Q)
<1> DEFINE r == GapFrom(ts, Q, n)
<1>1. \A q \in Q : r[q] = Gap(ts[q].next, n)
  BY DEF GapFrom
<1> HIDE DEF r
<1>2. \A q \in Q : r[q] \in Int
  BY <1>1, GapIs DEF Within
<1>3. ASSUME NEW p \in Q, NEW q \in Q
      PROVE  UpdatesBefore(ts[p], ts[q]) <=> r[p] < r[q]
  <2> DEFINE t == ts[q].next
             u == ts[p].next
  <2>1. t \in Uint /\ u \in Uint /\ Gap(t, n) <= M /\ Gap(u, n) <= M
    BY DEF Within
  <2>2. UpdatesBefore(ts[p], ts[q]) <=> After(t, u)
    BY DEF UpdatesBefore
  <2> HIDE DEF t, u
  <2>3. Gap(t, n) \in Nat /\ Gap(u, n) \in Nat /\ UintRange \in Nat
    BY <2>1, GapIs, UintRangeAssumption
  <2>4. 2 * Gap(t, n) < UintRange /\ 2 * Gap(u, n) <= UintRange /\ 2 * Gap(t, n) <= UintRange
    BY <2>1, <2>3
  <2>5. After(t, u) <=> Gap(t, n) > Gap(u, n)
    BY <2>1, <2>4, AfterIs
  <2>6. r[q] = Gap(t, n) /\ r[p] = Gap(u, n)
    BY <1>1 DEF t, u
  <2> QED
    BY <2>2, <2>3, <2>5, <2>6
<1> QED
  BY <1>2, <1>3 DEF Ranks, Rankable, r
-----------------------------------------------------------------------------
(***************************************************************************)
(* What the operations of a task do to its times and settings.             *)
(***************************************************************************)
SameSettings(t, s) ==
  t.delay = s.delay /\ t.on = s.on /\ t.period = s.period /\ t.count = s.count

\* The time of a task's first update, from its start.
FirstUpdate(s) == IF s.delay = 0 THEN s.on ELSE s.delay

LEMMA TimeStartedIs ==
  ASSUME NEW t \in Task, NEW time \in Uint
  PROVE  /\ SetTimeStarted(t, time).next \in Uint
         /\ Gap(SetTimeStarted(t, time).next, time) = FirstUpdate(t)
         /\ SameSettings(SetTimeStarted(t, time), t)
         /\ SetTimeStarted(t, time).state = t.state
<1> DEFINE d == t.delay
           e == IF StartingState(t) = "HIGH" THEN t.on ELSE 0
           u == Plus(time, d)
<1>1. d \in Nat /\ e \in Nat /\ d + e < UintRange /\ d < UintRange /\ d + e = FirstUpdate(t)
  BY UintRangeAssumption DEF Task, Uint, StartingState, FirstUpdate
<1>2. SetTimeStarted(t, time).next = Plus(u, e)
  BY DEF SetTimeStarted, Task
<1>3. SameSettings(SetTimeStarted(t, time), t) /\ SetTimeStarted(t, time).state = t.state
  BY DEF SetTimeStarted, Task, SameSettings
<1> HIDE DEF d, e
<1>4. Gap(time, time) = 0
  BY GapNow
<1>5. Gap(u, time) = d /\ u \in Uint
  BY <1>1, <1>4, GapPlus
<1> HIDE DEF u
<1>6. Gap(Plus(u, e), time) = d + e /\ Plus(u, e) \in Uint
  BY <1>1, <1>5, GapPlus
<1> QED
  BY <1>1, <1>2, <1>3, <1>6

LEMMA GapFromZero == ASSUME NEW t \in Uint PROVE Gap(t, 0) = t
<1>1. 0 \in Uint /\ t >= 0 /\ t \in Int
  BY UintRangeAssumption DEF Uint
<1> QED
  BY <1>1, GapIs

LEMMA ResetIs ==
  ASSUME NEW t \in Task
  PROVE  /\ Reset(t) \in Task /\ Reset(t).next = FirstUpdate(t)
         /\ SameSettings(Reset(t), t) /\ Reset(t).state \in {"LOW", "HIGH"}
<1> DEFINE u == [t EXCEPT !.cycles = 0, !.state = StartingState(t)]
<1>1. 0 \in Uint
  BY UintRangeAssumption DEF Uint
<1>2. u \in Task /\ SameSettings(u, t) /\ u.state \in {"LOW", "HIGH"}
  BY <1>1 DEF Task, StartingState, SameSettings
<1>3. Reset(t) = SetTimeStarted(u, 0)
  BY DEF Reset
<1>4. FirstUpdate(u) = FirstUpdate(t)
  BY <1>2 DEF FirstUpdate, SameSettings
<1> HIDE DEF u
<1>5. /\ Reset(t).next \in Uint /\ Gap(Reset(t).next, 0) = FirstUpdate(u)
      /\ SameSettings(Reset(t), u) /\ Reset(t).state = u.state
  BY <1>1, <1>2, <1>3, TimeStartedIs
<1>6. Reset(t).next = FirstUpdate(t)
  BY <1>4, <1>5, GapFromZero
<1> QED
  BY <1>2, <1>5, <1>6, ResetType DEF SameSettings

LEMMA NewTaskIs ==
  ASSUME NEW s \in Settings
  PROVE  /\ NewTask(s) \in Task /\ NewTask(s).next = FirstUpdate(s)
         /\ SameSettings(NewTask(s), s) /\ NewTask(s).state \in {"LOW", "HIGH"}
<1> DEFINE t == [delay |-> s.delay, on |-> s.on, period |-> s.period,
                 count |-> s.count, state |-> "LOW", cycles |-> 0,
                 start |-> 0, next |-> 0]
<1>1. 0 \in Uint
  BY UintRangeAssumption DEF Uint
<1>2. t \in Task /\ SameSettings(t, s) /\ FirstUpdate(t) = FirstUpdate(s)
  BY <1>1 DEF Task, Settings, SameSettings, FirstUpdate
<1>3. NewTask(s) = Reset(t)
  BY DEF NewTask
<1> HIDE DEF t
<1> QED
  BY <1>2, <1>3, ResetIs DEF SameSettings

LEMMA StartedAtIs ==
  ASSUME NEW t \in Task, NEW time \in Uint
  PROVE  /\ StartedAt(t, time) \in Task /\ StartedAt(t, time).next \in Uint
         /\ Gap(StartedAt(t, time).next, time) = FirstUpdate(t)
         /\ SameSettings(StartedAt(t, time), t)
         /\ StartedAt(t, time).state \in {"LOW", "HIGH"}
<1> DEFINE u == Reset(t)
<1>1. u \in Task /\ SameSettings(u, t) /\ u.state \in {"LOW", "HIGH"}
  BY ResetIs
<1>2. FirstUpdate(u) = FirstUpdate(t)
  BY <1>1 DEF FirstUpdate, SameSettings
<1>3. StartedAt(t, time) = SetTimeStarted(u, time)
  BY DEF StartedAt
<1> HIDE DEF u
<1> QED
  BY <1>1, <1>2, <1>3, TimeStartedIs, StartedAtType DEF SameSettings

LEMMA UpdateIs ==
  ASSUME NEW t \in Task, t.on <= t.period, NEW n \in Uint, t.next = n
  PROVE  /\ Update(t) \in Task /\ SameSettings(Update(t), t)
         /\ \/ Update(t).state = "DONE"
            \/ Gap(Update(t).next, n) = t.on
            \/ Gap(Update(t).next, n) = t.period - t.on
<1>1. Update(t) \in Task
  BY UpdateType
<1>2. SameSettings(Update(t), t)
  BY DEF Update, Task, SameSettings
<1>3. t.on \in Nat /\ t.period \in Nat /\ t.on < UintRange /\ t.period < UintRange
      /\ UintRange \in Nat \ {0, 1}
  BY UintRangeAssumption DEF Task, Uint
<1>4. Gap(n, n) = 0
  BY GapNow
<1>5. Gap(Plus(n, t.on), n) = t.on
  BY <1>3, <1>4, GapPlus
<1>6. (t.period - t.on) % UintRange = t.period - t.on
  <2> DEFINE x == t.period - t.on
  <2>1. x \in Nat /\ x < UintRange
    BY <1>3
  <2> HIDE DEF x
  <2>2. x % UintRange = x
    BY <1>3, <2>1
  <2> QED
    BY <2>2 DEF x
<1>7. Gap(Plus(n, t.period - t.on), n) = t.period - t.on
  <2> DEFINE x == t.period - t.on
  <2>1. x \in Nat /\ x < UintRange
    BY <1>3
  <2> HIDE DEF x
  <2>2. Gap(n, n) + x < UintRange
    BY <1>4, <2>1
  <2>3. Gap(Plus(n, x), n) = Gap(n, n) + x
    BY <2>1, <2>2, GapPlus
  <2>4. Gap(Plus(n, x), n) = x
    BY <1>4, <2>1, <2>3
  <2> QED
    BY <2>4 DEF x
<1>8. CASE Exhausted(t) \/ t.state = "DONE"
  <2>1. Update(t).state = "DONE"
    BY <1>8 DEF Update, Task
  <2> QED
    BY <1>1, <1>2, <2>1
<1>9. CASE ~(Exhausted(t) \/ t.state = "DONE") /\ t.state = "HIGH"
  <2>1. Update(t).next = Plus(t.next, t.on)
    BY <1>9 DEF Update, Task
  <2> QED
    BY <1>1, <1>2, <1>5, <2>1
<1>10. CASE ~(Exhausted(t) \/ t.state = "DONE") /\ t.state # "HIGH"
  <2>1. Update(t).next = Plus(t.next, (t.period - t.on) % UintRange)
    BY <1>10 DEF Update, Task
  <2>2. Update(t).next = Plus(n, t.period - t.on)
    BY <1>6, <2>1
  <2>3. Gap(Update(t).next, n) = t.period - t.on
    BY <1>7, <2>2
  <2> QED
    BY <1>1, <1>2, <2>3
<1> QED
  BY <1>8, <1>9, <1>10

LEMMA RewriteIs ==
  ASSUME NEW t \in Task, NEW s \in Settings
  PROVE  /\ Rewrite(t, s) \in Task /\ SameSettings(Rewrite(t, s), s)
         /\ Rewrite(t, s).next = t.next /\ Rewrite(t, s).state = t.state
BY DEF Rewrite, Task, Settings, SameSettings
-----------------------------------------------------------------------------
(***************************************************************************)
(* The inductive invariant.                                                *)
(***************************************************************************)
Active(ts) == {p \in DOMAIN ts : RequiresFutureUpdate(ts[p])}

TypeInv ==
  /\ state \in {"READY", "RUNNING"}
  /\ DOMAIN task \subseteq Pins /\ task \in [DOMAIN task -> Task]
  /\ HeapOf(vector, DOMAIN task) /\ Len(vector) = Cardinality(DOMAIN task)
  /\ HeapOf(heap, Active(task))
  /\ port \in [mask : SUBSET DOMAIN task, state : SUBSET DOMAIN task]
  /\ batch \in [mask : SUBSET DOMAIN task, state : SUBSET DOMAIN task, time : Uint]
  /\ written \in [DOMAIN task -> TaskSettings] /\ moved \subseteq DOMAIN task

SettingsInv == \A p \in DOMAIN task : SameSettings(task[p], written[p])

\* In READY no task is done, and all that were not moved wait as if new.
ReadyInv ==
  state = "READY" =>
    /\ Active(task) = DOMAIN task /\ port.mask = DOMAIN task
    /\ \A p \in DOMAIN task \ moved : task[p].next = FirstUpdate(task[p])

\* The queue is in order, and its times lie within M of the start or, while a
\* schedule runs whose tasks were not moved, of the last event.
OrderInv(M) ==
  /\ state = "READY" => Sorted(task, heap) /\ Within(task, DOMAIN task, 0, M)
  /\ state = "RUNNING" /\ moved = {} =>
       Sorted(task, heap) /\ Within(task, Active(task), batch.time, M)

\* Tasks whose settings have two phases all lie ahead of the last event.
AheadInv ==
  state = "RUNNING" /\ moved = {} /\ TwoPhases =>
    \A p \in Active(task) : Gap(task[p].next, batch.time) > 0

IInv(M) == TypeInv /\ SettingsInv /\ ReadyInv /\ OrderInv(M) /\ AheadInv
-----------------------------------------------------------------------------
(***************************************************************************)
(* The rounds of update().                                                 *)
(***************************************************************************)
RoundSet(D) ==
  {a \in [task : [D -> Task], heap : Seq(Pins), mask : SUBSET D, state : SUBSET D] :
     HeapOf(a.heap, Active(a.task))}

LEMMA RoundSetIs ==
  ASSUME NEW D, NEW a \in RoundSet(D)
  PROVE  /\ a.task \in [D -> Task] /\ DOMAIN a.task = D
         /\ a.heap \in Seq(Pins) /\ a.mask \in SUBSET D
         /\ a.state \in SUBSET D /\ HeapOf(a.heap, Active(a.task))
         /\ Active(a.task) \subseteq D
BY DEF RoundSet, Active

\* What one round does, whatever the order.
LEMMA RoundIs ==
  ASSUME NEW D \in SUBSET Pins, NEW a \in RoundSet(D), a.heap # <<>>
  PROVE  LET p == Head(a.heap)
             b == Round(a)
         IN /\ p \in Active(a.task) /\ p = a.heap[1]
            /\ b \in RoundSet(D)
            /\ b.task[p] = Update(a.task[p])
            /\ \A q \in D : q # p => b.task[q] = a.task[q]
            /\ b.mask = a.mask \cup {p}
            /\ b.heap = IF RequiresFutureUpdate(b.task[p])
                        THEN Push(b.task, Pop(a.task, a.heap), p) ELSE Pop(a.task, a.heap)
            /\ HeapOf(Pop(a.task, a.heap), Active(a.task) \ {p})
<1> DEFINE p == Head(a.heap)
           b == Round(a)
           Q == Active(a.task)
           h == Pop(a.task, a.heap)
           ts == [a.task EXCEPT ![p] = Update(a.task[p])]
<1>1. a.task \in [D -> Task] /\ HeapOf(a.heap, Q) /\ Q \subseteq D
      /\ a.mask \in SUBSET D /\ a.state \in SUBSET D
  BY RoundSetIs
<1>2. p = a.heap[1] /\ p \in Q /\ HeapOf(h, Q \ {p})
  BY <1>1, PopIs
<1>3. p \in D /\ p \in Pins
  BY <1>1, <1>2
<1>4. b = [task  |-> ts,
           heap  |-> IF RequiresFutureUpdate(ts[p]) THEN Push(ts, h, p) ELSE h,
           mask  |-> a.mask \cup {p},
           state |-> IF ts[p].state = "HIGH" THEN a.state \cup {p} ELSE a.state]
  BY DEF Round
<1>5. b.task = ts /\ b.heap = (IF RequiresFutureUpdate(ts[p]) THEN Push(ts, h, p) ELSE h)
      /\ b.mask = a.mask \cup {p}
  BY <1>4
<1>6. /\ ts \in [D -> Task] /\ DOMAIN ts = D
      /\ ts[p] = Update(a.task[p]) /\ \A q \in D : q # p => ts[q] = a.task[q]
  <2>1. Update(a.task[p]) \in Task
    BY <1>1, <1>3, UpdateType
  <2> HIDE DEF p
  <2> QED
    BY <1>1, <1>3, <2>1
<1>7. Active(ts) = IF RequiresFutureUpdate(ts[p]) THEN Q ELSE Q \ {p}
  <2> HIDE DEF p, ts
  <2>1. \A q : q \in Q <=> q \in D /\ RequiresFutureUpdate(a.task[q])
    BY <1>1 DEF Active
  <2>2. \A q : q \in Active(ts) <=> q \in D /\ RequiresFutureUpdate(ts[q])
    BY <1>6 DEF Active
  <2>3. \A q \in D : q # p => (RequiresFutureUpdate(ts[q]) <=> RequiresFutureUpdate(a.task[q]))
    BY <1>6
  <2> HIDE DEF Q
  <2>4. CASE RequiresFutureUpdate(ts[p])
    <3>1. \A q : q \in Active(ts) <=> q \in Q
      BY <1>2, <1>3, <2>1, <2>2, <2>3, <2>4
    <3> QED
      BY <2>4, <3>1
  <2>5. CASE ~RequiresFutureUpdate(ts[p])
    <3>1. \A q : q \in Active(ts) <=> q \in Q \ {p}
      BY <1>2, <1>3, <2>1, <2>2, <2>3, <2>5
    <3> QED
      BY <2>5, <3>1
  <2> QED
    BY <2>4, <2>5
<1> HIDE DEF p, ts, h, Q
<1>8. HeapOf(b.heap, Active(ts))
  <2>1. CASE RequiresFutureUpdate(ts[p])
    <3>1. HeapOf(Push(ts, h, p), (Q \ {p}) \cup {p})
      BY <1>2, <1>3, PushIs
    <3>2. (Q \ {p}) \cup {p} = Q
      BY <1>2
    <3> QED
      BY <1>5, <1>7, <2>1, <3>1, <3>2
  <2>2. CASE ~RequiresFutureUpdate(ts[p])
    BY <1>2, <1>5, <1>7, <2>2
  <2> QED
    BY <2>1, <2>2
<1>9. b \in RoundSet(D)
  <2>1. b.heap \in Seq(Pins)
    BY <1>8 DEF HeapOf
  <2>2. a.mask \cup {p} \in SUBSET D /\ a.state \cup {p} \in SUBSET D
    BY <1>1, <1>3
  <2>3. b \in [task : [D -> Task], heap : Seq(Pins), mask : SUBSET D, state : SUBSET D]
    <3> DEFINE g == IF RequiresFutureUpdate(ts[p]) THEN Push(ts, h, p) ELSE h
               z == IF ts[p].state = "HIGH" THEN a.state \cup {p} ELSE a.state
               w == a.mask \cup {p}
               A == Seq(Pins)
               B == [D -> Task]
    <3>1. g \in A /\ z \in SUBSET D /\ ts \in B /\ w \in SUBSET D
      BY <1>1, <1>5, <1>6, <2>1, <2>2
    <3>2. b = [task |-> ts, heap |-> g, mask |-> w, state |-> z]
      BY <1>4
    <3> HIDE DEF g, z, w, A, B, b
    <3>3. b \in [task : B, heap : A, mask : SUBSET D, state : SUBSET D]
      BY <3>1, <3>2
    <3> QED
      BY <3>3 DEF A, B
  <2>4. HeapOf(b.heap, Active(b.task))
    BY <1>5, <1>8
  <2> HIDE DEF b
  <2> QED
    BY <2>3, <2>4 DEF RoundSet
<1> HIDE DEF b
<1>10. /\ p \in Q /\ p = a.heap[1] /\ b \in RoundSet(D)
       /\ b.task[p] = Update(a.task[p])
       /\ \A q \in D : q # p => b.task[q] = a.task[q]
       /\ b.mask = a.mask \cup {p}
       /\ b.heap = IF RequiresFutureUpdate(b.task[p]) THEN Push(b.task, h, p) ELSE h
       /\ HeapOf(h, Q \ {p})
  BY <1>2, <1>5, <1>6, <1>9
<1> QED
  BY <1>10 DEF p, b, h, Q

\* What holds after the first round, and in each round if before it, holds
\* after all of them.
LEMMA RoundsInduction ==
  ASSUME NEW D \in SUBSET Pins, NEW a \in RoundSet(D), a.heap # <<>>, NEW time,
         NEW P \in [Nat -> SUBSET RoundSet(D)], Round(a) \in P[0],
         \A n \in Nat : \A b \in P[n] :
           /\ AlsoDue(b, time) => Round(b) \in P[n + 1]
           /\ ~AlsoDue(b, time) => b \in P[n + 1]
  PROVE  Rounds(a, time) \in P[NumTTLIOs - 1]
<1> DEFINE S == RoundSet(D)
           n == NumTTLIOs - 1
           First == Round(a)
           Step(b) == IF AlsoDue(b, time) THEN Round(b) ELSE b
           F == [i \in Nat |-> [b \in S |-> Step(b)]]
           Rnd(f) == f = [i \in 0 .. NumTTLIOs - 1 |->
                            IF i = 0 THEN Round(a)
                            ELSE IF AlsoDue(f[i - 1], time) THEN Round(f[i - 1]) ELSE f[i - 1]]
<1>1. n \in Nat
  BY PinsAssumption
<1>2. \A b \in S : Step(b) \in S
  BY RoundIs DEF AlsoDue
<1>3. F \in [Nat -> [S -> S]]
  <2> HIDE DEF S, Step
  <2> QED
    BY <1>2
<1>4. First \in S
  BY RoundIs
<1>5. PICK f : Recursion(f, First, n, F)
  <2> HIDE DEF F, S, n, First
  <2> QED
    BY <1>1, <1>3, <1>4, FiniteRecursion
<1>6. f = [i \in 0 .. n |-> IF i = 0 THEN First ELSE F[i][f[i - 1]]]
  BY <1>5 DEF Recursion
<1> HIDE DEF n, First, S
<1>7. ASSUME NEW i \in 0 .. n PROVE f[i] \in S
  <2> DEFINE T == {j \in Nat : j <= n => f[j] \in S}
  <2>1. 0 \in T
    BY <1>1, <1>4, <1>6
  <2>2. ASSUME NEW j \in Nat, j \in T PROVE j + 1 \in T
    <3> SUFFICES ASSUME j + 1 <= n PROVE f[j + 1] \in S
      OBVIOUS
    <3>1. j \in 0 .. n /\ j + 1 \in 0 .. n /\ j + 1 # 0 /\ j + 1 - 1 = j /\ j + 1 \in Nat
      BY <1>1
    <3>2. f[j] \in S /\ f[j + 1] = F[j + 1][f[j]]
      BY <1>6, <2>2, <3>1
    <3> HIDE DEF F
    <3> QED
      BY <1>3, <3>1, <3>2
  <2>3. i \in T /\ i <= n
    <3> HIDE DEF T
    <3> QED
      BY <1>1, <2>1, <2>2, NatInductionSet
  <2> QED
    BY <2>3
<1>8. ASSUME NEW i \in 0 .. n PROVE f[i] = IF i = 0 THEN First ELSE Step(f[i - 1])
  <2>1. CASE i = 0
    BY <1>6, <2>1
  <2>2. CASE i # 0
    <3>1. i - 1 \in 0 .. n /\ i \in Nat
      BY <1>1, <2>2
    <3>2. f[i] = F[i][f[i - 1]] /\ f[i - 1] \in S
      BY <1>6, <1>7, <2>2, <3>1
    <3>3. f[i] = Step(f[i - 1])
      <4> HIDE DEF Step
      <4> QED
        BY <3>1, <3>2
    <3> QED
      BY <2>2, <3>3
  <2> QED
    BY <2>1, <2>2
<1>9. Rnd(f)
  <2>1. f = [i \in 0 .. n |-> f[i]]
    BY <1>6
  <2> HIDE DEF F
  <2>2. f = [i \in 0 .. n |-> IF i = 0 THEN First ELSE Step(f[i - 1])]
    <3> HIDE DEF Step
    <3> QED
      BY <1>8, <2>1
  <2> QED
    BY <2>2 DEF n, First
<1>10. PICK round : Rnd(round) /\ Rounds(a, time) = round[n]
  <2> DEFINE round == CHOOSE u : Rnd(u)
  <2>1. Rnd(round)
    <3> HIDE DEF Rnd
    <3> QED
      BY <1>9
  <2>2. Rounds(a, time) = round[n]
    BY DEF Rounds, n
  <2> HIDE DEF Rnd, round
  <2> QED
    BY <2>1, <2>2
<1>11. /\ round[0] = First
       /\ \A i \in 0 .. n : i # 0 => round[i] = Step(round[i - 1])
  <2>1. round = [i \in 0 .. n |-> IF i = 0 THEN First ELSE Step(round[i - 1])]
    BY <1>10 DEF n, First
  <2> HIDE DEF Step
  <2> QED
    BY <1>1, <2>1
<1> DEFINE U == {i \in Nat : i <= n => round[i] \in P[i]}
<1>12. 0 \in U
  BY <1>11 DEF First
<1>13. ASSUME NEW j \in Nat, j \in U PROVE j + 1 \in U
  <2> SUFFICES ASSUME j + 1 <= n PROVE round[j + 1] \in P[j + 1]
    OBVIOUS
  <2>1. j + 1 \in 0 .. n /\ j + 1 # 0 /\ j + 1 - 1 = j /\ j <= n
    BY <1>1
  <2>2. round[j] \in P[j] /\ round[j + 1] = Step(round[j])
    BY <1>11, <1>13, <2>1
  <2> QED
    BY <2>2
<1>14. n \in U
  <2> HIDE DEF U
  <2> QED
    BY <1>1, <1>12, <1>13, NatInductionSet
<1> QED
  BY <1>1, <1>10, <1>14 DEF n

\* Phases of at most M microseconds.
ShortPhases(s, M) ==
  s.delay <= M /\ s.on <= M /\ s.on <= s.period /\ s.period - s.on <= M

Phased(t) == 0 < t.on /\ t.on < t.period

\* A round that takes a task at its time keeps the queue in order, and the
\* task is done or lies ahead.
LEMMA RoundOrder ==
  ASSUME NEW D \in SUBSET Pins, NEW a \in RoundSet(D), a.heap # <<>>,
         NEW M \in Nat, 2 * M < UintRange, \A q \in D : ShortPhases(a.task[q], M),
         NEW time \in Uint, a.task[Head(a.heap)].next = time,
         Sorted(a.task, a.heap), Within(a.task, Active(a.task), time, M)
  PROVE  LET p == Head(a.heap)
             b == Round(a)
         IN /\ Sorted(b.task, b.heap) /\ Within(b.task, Active(b.task), time, M)
            /\ SameSettings(b.task[p], a.task[p])
            /\ Phased(a.task[p]) =>
                 (p \in Active(b.task) => Gap(b.task[p].next, time) > 0)
<1> DEFINE p == Head(a.heap)
           b == Round(a)
           Q == Active(a.task)
           h == Pop(a.task, a.heap)
<1>1. /\ p \in Q /\ p = a.heap[1] /\ b \in RoundSet(D)
      /\ b.task[p] = Update(a.task[p])
      /\ \A q \in D : q # p => b.task[q] = a.task[q]
      /\ b.heap = IF RequiresFutureUpdate(b.task[p]) THEN Push(b.task, h, p) ELSE h
      /\ HeapOf(h, Q \ {p})
  BY RoundIs
<1>2. /\ a.task \in [D -> Task] /\ HeapOf(a.heap, Q) /\ Q \subseteq D
      /\ b.task \in [D -> Task] /\ DOMAIN b.task = D /\ DOMAIN a.task = D
      /\ HeapOf(b.heap, Active(b.task))
  BY <1>1, RoundSetIs
<1>3. p \in D /\ p \in Pins /\ a.task[p] \in Task /\ a.task[p].next = time
      /\ ShortPhases(a.task[p], M)
  BY <1>1, <1>2
<1> HIDE DEF p, b, h
<1>4. Rankable(a.task, Q)
  BY WithinRanks
<1>5. Sorted(a.task, h)
  BY <1>2, <1>4, PopIs DEF h
<1>6. /\ SameSettings(b.task[p], a.task[p])
      /\ \/ b.task[p].state = "DONE"
         \/ Gap(b.task[p].next, time) = a.task[p].on
         \/ Gap(b.task[p].next, time) = a.task[p].period - a.task[p].on
  BY <1>1, <1>3, UpdateIs DEF ShortPhases
<1>7. a.task[p].on \in Nat /\ a.task[p].period \in Nat
  BY <1>3, UintRangeAssumption DEF Task, Uint
<1>8. p \in Active(b.task) => Gap(b.task[p].next, time) <= M
  BY <1>3, <1>6, <1>7 DEF ShortPhases, Active, RequiresFutureUpdate
<1>9. Phased(a.task[p]) => (p \in Active(b.task) => Gap(b.task[p].next, time) > 0)
  BY <1>6, <1>7 DEF Phased, Active, RequiresFutureUpdate
<1>10. \A q \in D : b.task[q].next \in Uint
  BY <1>2 DEF Task
<1>11. ASSUME NEW q \in Active(b.task), q # p PROVE q \in Q /\ b.task[q] = a.task[q]
  BY <1>1, <1>2, <1>11 DEF Active
<1>12. Within(b.task, Active(b.task), time, M)
  <2>1. ASSUME NEW q \in Active(b.task)
        PROVE  b.task[q].next \in Uint /\ Gap(b.task[q].next, time) <= M
    <3>1. q \in D
      BY <1>2 DEF Active
    <3>2. CASE q = p
      BY <1>8, <1>10, <2>1, <3>1, <3>2
    <3>3. CASE q # p
      <4>1. q \in Q /\ b.task[q] = a.task[q]
        BY <1>11, <3>3
      <4>2. Gap(a.task[q].next, time) <= M
        BY <4>1 DEF Within
      <4> QED
        BY <1>10, <3>1, <4>1, <4>2
    <3> QED
      BY <3>2, <3>3
  <2> QED
    BY <2>1 DEF Within
<1>13. Sorted(b.task, h)
  <2>1. ASSUME NEW i \in 2 .. Len(h)
        PROVE  ~UpdatesBefore(b.task[h[i]], b.task[h[i \div 2]])
    <3>1. h[i] \in Q \ {p} /\ h[i \div 2] \in Q \ {p}
      <4>1. i \in 1 .. Len(h) /\ i \div 2 \in 1 .. Len(h)
        BY <1>1, HeapEntries
      <4> QED
        BY <1>1, <4>1, HeapEntries
    <3>2. b.task[h[i]] = a.task[h[i]] /\ b.task[h[i \div 2]] = a.task[h[i \div 2]]
      BY <1>1, <1>2, <3>1
    <3> QED
      BY <1>5, <3>2 DEF Sorted
  <2> QED
    BY <2>1 DEF Sorted
<1>14. Sorted(b.task, b.heap)
  <2>1. CASE RequiresFutureUpdate(b.task[p])
    <3>1. (Q \ {p}) \cup {p} \subseteq Active(b.task)
      <4>1. ASSUME NEW q \in Q \ {p} PROVE q \in Active(b.task)
        <5>1. q \in D /\ b.task[q] = a.task[q] /\ RequiresFutureUpdate(a.task[q])
          BY <1>1, <1>2 DEF Active
        <5> QED
          BY <1>2, <5>1 DEF Active
      <4>2. p \in Active(b.task)
        BY <1>2, <1>3, <2>1 DEF Active
      <4> QED
        BY <4>1, <4>2
    <3>2. Rankable(b.task, (Q \ {p}) \cup {p})
      <4>1. Rankable(b.task, Active(b.task))
        BY <1>12, WithinRanks
      <4> QED
        BY <3>1, <4>1, RankableSubset
    <3>3. p \notin Q \ {p}
      OBVIOUS
    <3> HIDE DEF Q
    <3>4. Sorted(b.task, Push(b.task, h, p))
      BY <1>1, <1>3, <1>13, <3>2, <3>3, PushIs
    <3> QED
      BY <1>1, <2>1, <3>4
  <2>2. CASE ~RequiresFutureUpdate(b.task[p])
    BY <1>1, <1>13, <2>2
  <2> QED
    BY <2>1, <2>2
<1> QED
  BY <1>6, <1>9, <1>12, <1>14 DEF p, b

\* When the front task is not due, none is.
LEMMA NoneDue ==
  ASSUME NEW D \in SUBSET Pins, NEW a \in RoundSet(D),
         NEW M \in Nat, 2 * M < UintRange, NEW time \in Uint, ~AlsoDue(a, time),
         Sorted(a.task, a.heap), Within(a.task, Active(a.task), time, M),
         NEW q \in Active(a.task)
  PROVE  a.task[q].next # time
<1> DEFINE Q == Active(a.task)
           r == GapFrom(a.task, Q, time)
           h == a.heap
<1>1. HeapOf(h, Q)
  BY RoundSetIs
<1>2. h # <<>>
  <2>1. PICK i \in 1 .. Len(h) : q = h[i]
    BY <1>1 DEF HeapOf
  <2> QED
    BY <2>1, EmptySeq
<1>3. Head(h) = h[1] /\ h[1] \in Q
  BY <1>1, <1>2, PopIs
<1>4. Ranks(a.task, Q, r)
  BY WithinRanks
<1>5. r[h[1]] = Gap(a.task[h[1]].next, time) /\ r[q] = Gap(a.task[q].next, time)
  BY <1>3 DEF GapFrom
<1>6. a.task[h[1]].next # time
  BY <1>2, <1>3 DEF AlsoDue
<1>7. a.task[h[1]].next \in Uint /\ a.task[q].next \in Uint
  BY <1>3 DEF Within
<1> HIDE DEF r, Q, h
<1>8. r[h[1]] <= r[q]
  <2>1. Ordered(h, r)
    BY <1>1, <1>4, SortedIsOrdered DEF h
  <2>2. q \in Q /\ \A u \in Q : r[u] \in Int
    BY <1>4 DEF Ranks, Q
  <2> QED
    BY <1>1, <2>1, <2>2, HeadIsFirst
<1>9. r[h[1]] # 0 /\ r[h[1]] \in Nat
  <2>1. Gap(time, time) = 0
    BY GapNow
  <2> QED
    BY <1>5, <1>6, <1>7, <2>1, GapSame, GapIs
<1>10. Gap(a.task[q].next, time) # 0
  BY <1>5, <1>8, <1>9
<1> QED
  BY <1>7, <1>10, GapNow

\* A call of update() keeps the settings of all tasks.
LEMMA RoundsKeep ==
  ASSUME NEW D \in SUBSET Pins, NEW a \in RoundSet(D), a.heap # <<>>, NEW time
  PROVE  LET b == Rounds(a, time)
         IN b \in RoundSet(D) /\ \A q \in D : SameSettings(b.task[q], a.task[q])
<1> DEFINE Kept(b) == \A q \in D : SameSettings(b.task[q], a.task[q])
           K == {b \in RoundSet(D) : Kept(b)}
           P == [n \in Nat |-> K]
<1>1. ASSUME NEW b \in RoundSet(D), b.heap # <<>>, Kept(b) PROVE Round(b) \in K
  <2> DEFINE p == Head(b.heap)
             c == Round(b)
  <2>1. /\ p \in Active(b.task) /\ c \in RoundSet(D)
        /\ c.task[p] = Update(b.task[p])
        /\ \A q \in D : q # p => c.task[q] = b.task[q]
    BY <1>1, RoundIs
  <2>2. p \in D /\ b.task[p] \in Task
    BY <1>1, <2>1, RoundSetIs
  <2> HIDE DEF p, c
  <2>3. SameSettings(c.task[p], b.task[p])
    BY <2>1, <2>2 DEF Update, Task, SameSettings
  <2>4. ASSUME NEW q \in D PROVE SameSettings(c.task[q], a.task[q])
    <3>1. SameSettings(b.task[q], a.task[q])
      BY <1>1
    <3>2. CASE q = p
      BY <2>3, <3>1, <3>2 DEF SameSettings
    <3>3. CASE q # p
      BY <2>1, <3>1, <3>3
    <3> QED
      BY <3>2, <3>3
  <2>5. c \in K
    BY <2>1, <2>4
  <2> HIDE DEF K
  <2> QED
    BY <2>5 DEF c
<1>2. Round(a) \in K
  <2>1. Kept(a)
    BY DEF SameSettings
  <2> HIDE DEF K, Kept
  <2> QED
    BY <1>1, <2>1
<1>3. \A b \in K : (AlsoDue(b, time) => Round(b) \in K) /\ (~AlsoDue(b, time) => b \in K)
  BY <1>1 DEF AlsoDue
<1>4. K \in SUBSET RoundSet(D)
  OBVIOUS
<1>5. Rounds(a, time) \in P[NumTTLIOs - 1]
  <2> HIDE DEF K
  <2>1. P \in [Nat -> SUBSET RoundSet(D)]
    BY <1>4
  <2>2. P[0] = K /\ \A n \in Nat : P[n] = K /\ P[n + 1] = K
    OBVIOUS
  <2> HIDE DEF P
  <2>3. Round(a) \in P[0]
    BY <1>2, <2>2
  <2>4. \A n \in Nat : \A b \in P[n] :
           /\ AlsoDue(b, time) => Round(b) \in P[n + 1]
           /\ ~AlsoDue(b, time) => b \in P[n + 1]
    BY <1>3, <2>2
  <2> QED
    BY <2>1, <2>3, <2>4, RoundsInduction
<1>6. NumTTLIOs - 1 \in Nat
  BY PinsAssumption
<1>7. Rounds(a, time) \in K
  <2> HIDE DEF K
  <2> QED
    BY <1>5, <1>6
<1> QED
  BY <1>7

\* A pin more in a finite set.
LEMMA OnePinMore ==
  ASSUME NEW S \in SUBSET Pins, NEW p \in Pins, p \notin S
  PROVE  Cardinality(S \cup {p}) = Cardinality(S) + 1 /\ Cardinality(S) \in Nat
<1>1. IsFiniteSet(S)
  BY PinsAssumption, FS_Subset
<1> QED
  BY <1>1, FS_AddElement, FS_CardinalityType

LEMMA AllPins ==
  ASSUME NEW S \in SUBSET Pins, Cardinality(S) >= NumTTLIOs
  PROVE  S = Pins
<1>1. IsFiniteSet(Pins) /\ Cardinality(S) <= Cardinality(Pins)
      /\ (Cardinality(S) = Cardinality(Pins) => S = Pins)
  BY PinsAssumption, FS_Subset
<1>2. Cardinality(S) \in Nat /\ Cardinality(Pins) \in Nat
  BY <1>1, FS_CardinalityType, FS_Subset
<1> QED
  BY <1>1, <1>2, PinsAssumption

\* The queue b of a call for time that began with the tasks ts, while it runs.
InTime(b, ts, time, M) ==
  /\ Sorted(b.task, b.heap) /\ Within(b.task, Active(b.task), time, M)
  /\ \A q \in DOMAIN ts : SameSettings(b.task[q], ts[q])

\* After n + 1 rounds: the tasks of mask were due and now lie ahead, the others
\* are as they were, and if any is due still, all rounds were used.
Exact(b, ts, time, n) ==
  /\ \A q \in DOMAIN ts \ b.mask : b.task[q] = ts[q]
  /\ \A q \in b.mask : /\ q \in Active(ts) /\ ts[q].next = time
                       /\ q \in Active(b.task) => Gap(b.task[q].next, time) > 0
  /\ \/ \A q \in Active(b.task) : b.task[q].next # time
     \/ n < Cardinality(b.mask)

AllPhased(ts) == \A q \in DOMAIN ts : Phased(ts[q])

\* A round that begins with fewer than n + 1 tasks in mask, or none due.
LEMMA RoundExact ==
  ASSUME NEW D \in SUBSET Pins, NEW ts \in [D -> Task], AllPhased(ts),
         NEW M \in Nat, 2 * M < UintRange, \A q \in D : ShortPhases(ts[q], M),
         NEW time \in Uint, NEW n \in Nat,
         NEW b \in RoundSet(D), b.heap # <<>>, b.task[Head(b.heap)].next = time,
         InTime(b, ts, time, M),
         \A q \in D \ b.mask : b.task[q] = ts[q],
         \A q \in b.mask : /\ q \in Active(ts) /\ ts[q].next = time
                           /\ q \in Active(b.task) => Gap(b.task[q].next, time) > 0,
         n <= Cardinality(b.mask)
  PROVE  Exact(Round(b), ts, time, n)
<1> DEFINE p == Head(b.heap)
           c == Round(b)
<1>1. /\ p \in Active(b.task) /\ c \in RoundSet(D) /\ c.mask = b.mask \cup {p}
      /\ c.task[p] = Update(b.task[p])
      /\ \A q \in D : q # p => c.task[q] = b.task[q]
  BY RoundIs
<1>2. /\ b.task \in [D -> Task] /\ DOMAIN b.task = D /\ DOMAIN ts = D /\ b.mask \in SUBSET D
      /\ c.task \in [D -> Task] /\ DOMAIN c.task = D
  BY <1>1, RoundSetIs
<1>3. p \in D /\ p \in Pins /\ b.task[p].next = time
  BY <1>1, <1>2 DEF Active
<1>4. \A q \in D : ShortPhases(b.task[q], M) /\ Phased(b.task[q])
  BY <1>2 DEF InTime, SameSettings, ShortPhases, Phased, AllPhased
<1>5. p \in Active(c.task) => Gap(c.task[p].next, time) > 0
  BY <1>3, <1>4, RoundOrder DEF InTime
<1> HIDE DEF p, c
<1>6. p \notin b.mask
  <2>1. Gap(time, time) = 0
    BY GapNow
  <2> QED
    BY <1>1, <1>3, <2>1
<1>7. p \in Active(ts) /\ ts[p].next = time
  <2>1. b.task[p] = ts[p]
    BY <1>3, <1>6
  <2> QED
    BY <1>1, <1>2, <1>3, <2>1 DEF Active
<1>8. ASSUME NEW q \in c.mask
      PROVE  /\ q \in Active(ts) /\ ts[q].next = time
             /\ q \in Active(c.task) => Gap(c.task[q].next, time) > 0
  <2>1. CASE q = p
    BY <1>5, <1>7, <2>1
  <2>2. CASE q # p
    <3>1. q \in b.mask /\ q \in D /\ c.task[q] = b.task[q]
      BY <1>1, <1>2, <1>8, <2>2
    <3>2. q \in Active(c.task) => q \in Active(b.task)
      BY <1>2, <3>1 DEF Active
    <3> QED
      BY <3>1, <3>2
  <2> QED
    BY <2>1, <2>2
<1>9. \A q \in DOMAIN ts \ c.mask : c.task[q] = ts[q]
  BY <1>1, <1>2
<1>10. n < Cardinality(c.mask)
  <2>1. b.mask \in SUBSET Pins
    BY <1>2
  <2>2. Cardinality(c.mask) = Cardinality(b.mask) + 1 /\ Cardinality(b.mask) \in Nat
    BY <1>1, <1>3, <1>6, <2>1, OnePinMore
  <2> QED
    BY <2>2
<1>11. Exact(c, ts, time, n)
  BY <1>8, <1>9, <1>10 DEF Exact
<1> QED
  BY <1>11 DEF c

\* A round keeps the queue of the call in order.
LEMMA RoundInTime ==
  ASSUME NEW D \in SUBSET Pins, NEW ts \in [D -> Task],
         NEW M \in Nat, 2 * M < UintRange, \A q \in D : ShortPhases(ts[q], M),
         NEW time \in Uint,
         NEW b \in RoundSet(D), b.heap # <<>>, b.task[Head(b.heap)].next = time,
         InTime(b, ts, time, M)
  PROVE  InTime(Round(b), ts, time, M)
<1> DEFINE p == Head(b.heap)
           c == Round(b)
<1>1. /\ p \in Active(b.task) /\ c \in RoundSet(D)
      /\ \A q \in D : q # p => c.task[q] = b.task[q]
  BY RoundIs
<1>2. \A q \in D : ShortPhases(b.task[q], M)
  BY DEF InTime, SameSettings, ShortPhases
<1>3. /\ Sorted(c.task, c.heap) /\ Within(c.task, Active(c.task), time, M)
      /\ SameSettings(c.task[p], b.task[p])
  BY <1>2, RoundOrder DEF InTime
<1> HIDE DEF p, c
<1>4. ASSUME NEW q \in D PROVE SameSettings(c.task[q], ts[q])
  <2>1. SameSettings(b.task[q], ts[q])
    BY DEF InTime
  <2>2. CASE q = p
    BY <1>3, <2>1, <2>2 DEF SameSettings
  <2>3. CASE q # p
    BY <1>1, <2>1, <2>3
  <2> QED
    BY <2>2, <2>3
<1>5. InTime(c, ts, time, M)
  BY <1>3, <1>4 DEF InTime
<1> QED
  BY <1>5 DEF c

\* The queue a call of update() begins with.
BegunWith(ts, h) == [task |-> ts, heap |-> h, mask |-> {}, state |-> {}]

\* b follows from ts by such a call.
Follows(b, D, ts, time, M) ==
  /\ b \in RoundSet(D) /\ InTime(b, ts, time, M)
  /\ AllPhased(ts) => /\ \A q \in Active(b.task) : Gap(b.task[q].next, time) > 0
                      /\ b.mask = {q \in Active(ts) : ts[q].next = time}

\* update() takes a queue in order to one in order; if the tasks have two
\* phases it updates those that were due, all of them and each once.
LEMMA RoundsInOrder ==
  ASSUME NEW D \in SUBSET Pins, NEW ts \in [D -> Task],
         NEW M \in Nat, 2 * M < UintRange, \A q \in D : ShortPhases(ts[q], M),
         NEW h, h # <<>>, HeapOf(h, Active(ts)), NEW time \in Uint, ts[Head(h)].next = time,
         Sorted(ts, h), Within(ts, Active(ts), time, M)
  PROVE  Follows(Rounds(BegunWith(ts, h), time), D, ts, time, M)
<1> DEFINE a == [task |-> ts, heap |-> h, mask |-> {}, state |-> {}]
           Good(b, n) == InTime(b, ts, time, M) /\ (AllPhased(ts) => Exact(b, ts, time, n))
           P == [n \in Nat |-> {b \in RoundSet(D) : Good(b, n)}]
<1>1. a.task = ts /\ a.heap = h /\ a.mask = {} /\ DOMAIN ts = D
  OBVIOUS
<1>2. a \in RoundSet(D)
  <2>1. h \in Seq(Pins)
    BY DEF HeapOf
  <2> DEFINE A == Seq(Pins)
             B == [D -> Task]
  <2>2. h \in A /\ ts \in B
    BY <2>1
  <2> HIDE DEF A, B
  <2>3. a \in [task : B, heap : A, mask : SUBSET D, state : SUBSET D]
    BY <2>2
  <2> QED
    BY <2>3 DEF RoundSet, A, B
<1> HIDE DEF a
<1>3. InTime(a, ts, time, M)
  <2>1. \A q \in D : SameSettings(ts[q], ts[q])
    BY DEF SameSettings
  <2> QED
    BY <1>1, <2>1 DEF InTime
<1>4. Cardinality({}) = 0
  BY FS_EmptySet
<1>5. Round(a) \in RoundSet(D) /\ Good(Round(a), 0)
  <2>1. Round(a) \in RoundSet(D)
    BY <1>1, <1>2, RoundIs
  <2>2. InTime(Round(a), ts, time, M)
    BY <1>1, <1>2, <1>3, RoundInTime
  <2>3. ASSUME AllPhased(ts) PROVE Exact(Round(a), ts, time, 0)
    <3>1. /\ \A q \in D \ a.mask : a.task[q] = ts[q]
          /\ \A q \in a.mask : /\ q \in Active(ts) /\ ts[q].next = time
                               /\ q \in Active(a.task) => Gap(a.task[q].next, time) > 0
          /\ 0 <= Cardinality(a.mask)
      BY <1>1, <1>4
    <3>2. a.heap # <<>> /\ a.task[Head(a.heap)].next = time
      BY <1>1
    <3> QED
      BY <1>2, <1>3, <2>3, <3>1, <3>2, RoundExact
  <2> QED
    BY <2>1, <2>2, <2>3
<1>6. ASSUME NEW n \in Nat, NEW b \in RoundSet(D), Good(b, n), AlsoDue(b, time)
      PROVE  Round(b) \in RoundSet(D) /\ Good(Round(b), n + 1)
  <2>1. b.heap # <<>> /\ b.task[Head(b.heap)].next = time
    BY <1>6 DEF AlsoDue
  <2>2. Round(b) \in RoundSet(D)
    BY <2>1, RoundIs
  <2>3. InTime(Round(b), ts, time, M)
    BY <1>6, <2>1, RoundInTime
  <2>4. ASSUME AllPhased(ts) PROVE Exact(Round(b), ts, time, n + 1)
    <3>1. Exact(b, ts, time, n)
      BY <1>6, <2>4
    <3>2. Head(b.heap) \in Active(b.task)
      BY <2>1, RoundIs
    <3>3. n < Cardinality(b.mask)
      BY <2>1, <3>1, <3>2 DEF Exact
    <3>4. Cardinality(b.mask) \in Nat
      <4>1. b.mask \in SUBSET Pins
        BY RoundSetIs
      <4> QED
        BY <4>1, PinsAssumption, FS_Subset, FS_CardinalityType
    <3>5. n + 1 <= Cardinality(b.mask) /\ n + 1 \in Nat
      BY <3>3, <3>4
    <3>6. /\ \A q \in D \ b.mask : b.task[q] = ts[q]
          /\ \A q \in b.mask : /\ q \in Active(ts) /\ ts[q].next = time
                               /\ q \in Active(b.task) => Gap(b.task[q].next, time) > 0
      BY <1>1, <3>1 DEF Exact
    <3>7. InTime(b, ts, time, M)
      BY <1>6
    <3> HIDE DEF Good
    <3> QED
      BY <2>1, <2>4, <3>5, <3>6, <3>7, RoundExact
  <2> QED
    BY <2>2, <2>3, <2>4
<1>7. ASSUME NEW n \in Nat, NEW b \in RoundSet(D), Good(b, n), ~AlsoDue(b, time)
      PROVE  Good(b, n + 1)
  <2>1. \A q \in Active(b.task) : b.task[q].next # time
    BY <1>7, NoneDue DEF InTime
  <2> QED
    BY <1>7, <2>1 DEF Exact
<1>8. Rounds(a, time) \in P[NumTTLIOs - 1]
  <2> HIDE DEF Good
  <2>1. P \in [Nat -> SUBSET RoundSet(D)]
    OBVIOUS
  <2>2. \A n \in Nat : \A b : b \in P[n] <=> b \in RoundSet(D) /\ Good(b, n)
    OBVIOUS
  <2> HIDE DEF P
  <2>3. Round(a) \in P[0]
    BY <1>5, <2>2
  <2>4. \A n \in Nat : \A b \in P[n] :
           /\ AlsoDue(b, time) => Round(b) \in P[n + 1]
           /\ ~AlsoDue(b, time) => b \in P[n + 1]
    <3> SUFFICES ASSUME NEW n \in Nat, NEW b \in P[n]
                 PROVE  /\ AlsoDue(b, time) => Round(b) \in P[n + 1]
                        /\ ~AlsoDue(b, time) => b \in P[n + 1]
      OBVIOUS
    <3>1. b \in RoundSet(D) /\ Good(b, n) /\ n + 1 \in Nat
      BY <2>2
    <3> QED
      BY <1>6, <1>7, <2>2, <3>1
  <2> QED
    BY <1>1, <1>2, <2>1, <2>3, <2>4, RoundsInduction
<1> DEFINE b == Rounds(a, time)
           m == NumTTLIOs - 1
<1>9. m \in Nat /\ b \in RoundSet(D) /\ Good(b, m)
  <2>1. m \in Nat
    BY PinsAssumption
  <2> HIDE DEF Good, b, m
  <2>2. b \in P[m]
    BY <1>8 DEF b, m
  <2> QED
    BY <2>1, <2>2
<1> HIDE DEF b
<1>10. ASSUME AllPhased(ts)
       PROVE  /\ \A q \in Active(b.task) : Gap(b.task[q].next, time) > 0
              /\ b.mask = {q \in Active(ts) : ts[q].next = time}
  <2>1. Exact(b, ts, time, m) /\ Within(b.task, Active(b.task), time, M)
    BY <1>9, <1>10 DEF InTime
  <2>2. b.task \in [D -> Task] /\ DOMAIN b.task = D /\ b.mask \in SUBSET D
        /\ Active(b.task) \subseteq D
    BY <1>9, RoundSetIs
  <2>3. \A q \in Active(b.task) : b.task[q].next # time
    <3>1. CASE m < Cardinality(b.mask)
      <4>1. b.mask \in SUBSET Pins
        BY <2>2
      <4>2. Cardinality(b.mask) \in Nat
        BY <4>1, PinsAssumption, FS_Subset, FS_CardinalityType
      <4>3. b.mask = Pins
        <5>1. Cardinality(b.mask) >= NumTTLIOs
          BY <3>1, <4>2, PinsAssumption
        <5> QED
          BY <4>1, <5>1, AllPins
      <4>4. Gap(time, time) = 0
        BY GapNow
      <4>5. ASSUME NEW q \in Active(b.task) PROVE b.task[q].next # time
        <5>1. q \in b.mask
          BY <2>2, <4>3
        <5>2. Gap(b.task[q].next, time) > 0
          BY <2>1, <5>1 DEF Exact
        <5> QED
          BY <4>4, <5>2
      <4> QED
        BY <4>5
    <3>2. CASE ~(m < Cardinality(b.mask))
      BY <2>1, <3>2 DEF Exact
    <3> QED
      BY <3>1, <3>2
  <2>4. ASSUME NEW q \in Active(b.task) PROVE Gap(b.task[q].next, time) > 0
    <3>1. b.task[q].next \in Uint /\ b.task[q].next # time
      BY <2>1, <2>3 DEF Within
    <3> DEFINE t == b.task[q].next
    <3>2. t \in Uint /\ t # time
      BY <3>1
    <3> HIDE DEF t
    <3>3. Gap(t, time) # 0 /\ Gap(t, time) \in Nat
      BY <3>2, GapSame, GapNow, GapIs
    <3>4. Gap(t, time) > 0
      BY <3>3
    <3> QED
      BY <3>4 DEF t
  <2>5. ASSUME NEW q \in Active(ts), ts[q].next = time PROVE q \in b.mask
    <3> SUFFICES ASSUME q \notin b.mask PROVE FALSE
      OBVIOUS
    <3>1. q \in D /\ RequiresFutureUpdate(ts[q])
      BY <1>1 DEF Active
    <3>2. b.task[q] = ts[q]
      BY <1>1, <2>1, <3>1 DEF Exact
    <3>3. q \in Active(b.task)
      BY <2>2, <3>1, <3>2 DEF Active
    <3> QED
      BY <2>3, <2>5, <3>2, <3>3
  <2>6. \A q \in b.mask : q \in Active(ts) /\ ts[q].next = time
    BY <2>1 DEF Exact
  <2> QED
    BY <2>4, <2>5, <2>6
<1>11. b = Rounds(BegunWith(ts, h), time)
  BY DEF a, b, BegunWith
<1>12. InTime(b, ts, time, M)
  BY <1>9
<1> HIDE DEF Good, m
<1>13. Follows(b, D, ts, time, M)
  BY <1>9, <1>10, <1>12 DEF Follows
<1> QED
  BY <1>11, <1>13

-----------------------------------------------------------------------------
(***************************************************************************)
(* Types, settings and what holds in READY: whatever the settings.         *)
(***************************************************************************)
BaseInv == TypeInv /\ SettingsInv /\ ReadyInv

LEMMA BaseInit == Init => BaseInv
<1> SUFFICES ASSUME Init PROVE BaseInv
  OBVIOUS
<1>1. task = None /\ written = None /\ DOMAIN None = {} /\ None \in [{} -> Task]
      /\ None \in [{} -> TaskSettings]
  BY DEF Init, None
<1>2. Active(task) = {} /\ DOMAIN task = {}
  BY <1>1 DEF Active
<1>3. HeapOf(<<>>, {}) /\ Len(<<>>) = 0 /\ Cardinality({}) = 0
  BY EmptySeq, FS_EmptySet DEF HeapOf
<1>4. /\ port.mask = {} /\ port \in [mask : SUBSET {}, state : SUBSET {}]
      /\ batch \in [mask : SUBSET {}, state : SUBSET {}, time : Uint]
  <2>1. 0 \in Uint
    BY UintRangeAssumption DEF Uint
  <2> QED
    BY <2>1 DEF Init, NoPort, NoEvent
<1>5. state = "READY" /\ vector = <<>> /\ heap = <<>> /\ moved = {}
  BY DEF Init
<1>6. TypeInv
  BY <1>1, <1>2, <1>3, <1>4, <1>5 DEF TypeInv
<1>7. SettingsInv /\ ReadyInv
  BY <1>2, <1>4 DEF SettingsInv, ReadyInv
<1> QED
  BY <1>6, <1>7 DEF BaseInv

LEMMA SettingsAreTyped == ASSUME NEW s \in TaskSettings PROVE s \in Settings
BY SettingsAssumption

\* What RewriteTask does to the tasks.
LEMMA RewriteTaskIs ==
  ASSUME BaseInv, NEW p \in Pins, NEW s \in TaskSettings, RewriteTask(p, s)
  PROVE  /\ state = "READY" /\ p \in DOMAIN task /\ s \in Settings
         /\ DOMAIN task' = DOMAIN task /\ task' \in [DOMAIN task -> Task]
         /\ task'[p] = Rewrite(task[p], s)
         /\ \A q \in DOMAIN task : q # p => task'[q] = task[q]
         /\ \A q \in DOMAIN task : task'[q].next = task[q].next /\ task'[q].state = task[q].state
         /\ Active(task') = Active(task)
         /\ heap' = PushBackAll(task', PopUntil(p))
         /\ moved' = IF NewTask(s).next # task[p].next THEN moved \cup {p} ELSE moved \ {p}
<1>0. /\ state = "READY" /\ PopUntil(p).heap # <<>> /\ task \in [DOMAIN task -> Task]
      /\ HeapOf(heap, Active(task)) /\ Active(task) = DOMAIN task
  BY DEF RewriteTask, BaseInv, TypeInv, ReadyInv
<1>a. p \in DOMAIN task /\ Head(PopUntil(p).heap) = p
  BY <1>0, SearchIs
<1>1. state = "READY" /\ p \in DOMAIN task /\ s \in Settings
      /\ task \in [DOMAIN task -> Task]
      /\ task' = [task EXCEPT ![p] = Rewrite(task[p], s)]
      /\ heap' = PushBackAll(task', PopUntil(p))
      /\ moved' = IF NewTask(s).next # task[p].next THEN moved \cup {p} ELSE moved \ {p}
  BY <1>0, <1>a, SettingsAreTyped DEF RewriteTask
<1>2. Rewrite(task[p], s) \in Task /\ Rewrite(task[p], s).next = task[p].next
      /\ Rewrite(task[p], s).state = task[p].state
  BY <1>1, RewriteIs
<1>3. /\ DOMAIN task' = DOMAIN task /\ task' \in [DOMAIN task -> Task]
      /\ task'[p] = Rewrite(task[p], s)
      /\ \A q \in DOMAIN task : q # p => task'[q] = task[q]
  BY <1>1, <1>2
<1>4. \A q \in DOMAIN task : task'[q].next = task[q].next /\ task'[q].state = task[q].state
  BY <1>2, <1>3
<1>5. Active(task') = Active(task)
  BY <1>3, <1>4 DEF Active, RequiresFutureUpdate
<1> QED
  BY <1>1, <1>3, <1>4, <1>5

LEMMA BaseRewrite ==
  ASSUME BaseInv, NEW p \in Pins, NEW s \in TaskSettings, RewriteTask(p, s)
  PROVE  BaseInv'
<1>1. /\ state = "READY" /\ p \in DOMAIN task /\ s \in Settings
      /\ DOMAIN task' = DOMAIN task /\ task' \in [DOMAIN task -> Task]
      /\ task'[p] = Rewrite(task[p], s)
      /\ \A q \in DOMAIN task : q # p => task'[q] = task[q]
      /\ \A q \in DOMAIN task : task'[q].next = task[q].next
      /\ Active(task') = Active(task)
      /\ heap' = PushBackAll(task', PopUntil(p))
  BY RewriteTaskIs
<1>2. /\ written' = With(written, p, s)
      /\ state' = state /\ vector' = vector /\ port' = port /\ batch' = batch
  BY DEF RewriteTask
<1>3. moved' = IF NewTask(s).next # task[p].next THEN moved \cup {p} ELSE moved \ {p}
  BY RewriteTaskIs
<1>4. TypeInv /\ SettingsInv /\ ReadyInv
  BY DEF BaseInv
<1>5. HeapOf(heap', Active(task'))
  <2>1. HeapOf(heap, Active(task))
    BY <1>4 DEF TypeInv
  <2>2. HeapOf(heap', Active(task))
    BY <1>1, <2>1, PushBackAllIs
  <2> QED
    BY <1>1, <2>2
<1>6. written' \in [DOMAIN task -> TaskSettings] /\ written'[p] = s
      /\ \A q \in DOMAIN task : q # p => written'[q] = written[q]
  <2>1. /\ DOMAIN written = DOMAIN task /\ DOMAIN task \cup {p} = DOMAIN task
        /\ \A q \in DOMAIN task : written[q] \in TaskSettings
    BY <1>1, <1>4 DEF TypeInv
  <2> QED
    BY <1>1, <1>2, <2>1 DEF With
<1>7. moved' \subseteq DOMAIN task
  BY <1>1, <1>3, <1>4 DEF TypeInv
<1>8. TypeInv'
  <2>1. /\ state \in {"READY", "RUNNING"} /\ DOMAIN task \subseteq Pins
        /\ HeapOf(vector, DOMAIN task) /\ Len(vector) = Cardinality(DOMAIN task)
        /\ port \in [mask : SUBSET DOMAIN task, state : SUBSET DOMAIN task]
        /\ batch \in [mask : SUBSET DOMAIN task, state : SUBSET DOMAIN task, time : Uint]
    BY <1>4 DEF TypeInv
  <2> QED
    BY <1>1, <1>2, <1>5, <1>6, <1>7, <2>1 DEF TypeInv
<1>9. SameSettings(task'[p], s)
  <2>1. task[p] \in Task
    BY <1>1, <1>4 DEF TypeInv
  <2> QED
    BY <1>1, <2>1, RewriteIs
<1>10. SettingsInv'
  <2>1. ASSUME NEW q \in DOMAIN task PROVE SameSettings(task'[q], written'[q])
    <3>1. CASE q = p
      BY <1>6, <1>9, <3>1
    <3>2. CASE q # p
      BY <1>1, <1>4, <1>6, <3>2 DEF SettingsInv
    <3> QED
      BY <3>1, <3>2
  <2> QED
    BY <1>1, <2>1 DEF SettingsInv
<1>11. ReadyInv'
  <2>1. Active(task) = DOMAIN task /\ port.mask = DOMAIN task
        /\ \A q \in DOMAIN task \ moved : task[q].next = FirstUpdate(task[q])
    BY <1>1, <1>4 DEF ReadyInv
  <2>2. ASSUME NEW q \in DOMAIN task \ moved'
        PROVE  task'[q].next = FirstUpdate(task'[q])
    <3>1. CASE q = p
      <4>1. NewTask(s).next = task[p].next
        BY <1>3, <2>2, <3>1
      <4>2. NewTask(s).next = FirstUpdate(s)
        BY <1>1, NewTaskIs
      <4>3. FirstUpdate(task'[p]) = FirstUpdate(s)
        BY <1>9 DEF FirstUpdate, SameSettings
      <4> QED
        BY <1>1, <3>1, <4>1, <4>2, <4>3
    <3>2. CASE q # p
      <4>1. q \in DOMAIN task \ moved /\ task'[q] = task[q]
        BY <1>1, <1>3, <2>2, <3>2
      <4> QED
        BY <2>1, <4>1
    <3> QED
      BY <3>1, <3>2
  <2> QED
    BY <1>1, <1>2, <2>1, <2>2 DEF ReadyInv
<1> QED
  BY <1>8, <1>10, <1>11 DEF BaseInv

\* What SchedulePwmTask does to the tasks.
LEMMA SchedulePwmTaskIs ==
  ASSUME BaseInv, NEW p \in Pins, NEW s \in TaskSettings, SchedulePwmTask(p, s)
  PROVE  /\ state = "READY" /\ p \notin DOMAIN task /\ s \in Settings
         /\ DOMAIN task' = DOMAIN task \cup {p}
         /\ task' \in [DOMAIN task \cup {p} -> Task]
         /\ task'[p] = NewTask(s)
         /\ \A q \in DOMAIN task : task'[q] = task[q]
         /\ Active(task) = DOMAIN task /\ Active(task') = DOMAIN task \cup {p}
         /\ heap' = Push(task', PushBackAll(task, PopUntil(p)), p)
<1>0. /\ state = "READY" /\ PopUntil(p).heap = <<>>
      /\ HeapOf(heap, Active(task)) /\ Active(task) = DOMAIN task
  BY DEF SchedulePwmTask, BaseInv, TypeInv, ReadyInv
<1>a. p \notin DOMAIN task
  BY <1>0, SearchIs
<1>1. /\ state = "READY" /\ p \notin DOMAIN task /\ s \in Settings
      /\ task \in [DOMAIN task -> Task] /\ Active(task) = DOMAIN task
      /\ task' = [q \in DOMAIN task \cup {p} |-> IF q = p THEN NewTask(s) ELSE task[q]]
      /\ heap' = Push(task', PushBackAll(task, PopUntil(p)), p)
  BY <1>0, <1>a, SettingsAreTyped DEF SchedulePwmTask, BaseInv, TypeInv, With
<1>2. NewTask(s) \in Task /\ NewTask(s).state \in {"LOW", "HIGH"}
  BY <1>1, NewTaskIs
<1> DEFINE n == NewTask(s)
<1> HIDE DEF n
<1>3. /\ DOMAIN task' = DOMAIN task \cup {p}
      /\ task'[p] = NewTask(s) /\ \A q \in DOMAIN task : task'[q] = task[q]
  BY <1>1
<1>4. task' \in [DOMAIN task \cup {p} -> Task]
  <2>1. \A q \in DOMAIN task \cup {p} : task'[q] \in Task
    BY <1>1, <1>2, <1>3
  <2> QED
    BY <1>1, <2>1
<1>5. Active(task') = DOMAIN task \cup {p}
  <2>1. \A q \in DOMAIN task : RequiresFutureUpdate(task'[q])
    BY <1>1, <1>3 DEF Active
  <2>2. RequiresFutureUpdate(task'[p])
    BY <1>2, <1>3 DEF RequiresFutureUpdate
  <2> QED
    BY <1>3, <2>1, <2>2 DEF Active
<1> QED
  BY <1>1, <1>3, <1>4, <1>5

LEMMA BaseSchedule ==
  ASSUME BaseInv, NEW p \in Pins, NEW s \in TaskSettings, SchedulePwmTask(p, s)
  PROVE  BaseInv'
<1> DEFINE D == DOMAIN task
           E == D \cup {p}
<1>1. /\ state = "READY" /\ p \notin D /\ s \in Settings
      /\ DOMAIN task' = E /\ task' \in [E -> Task]
      /\ task'[p] = NewTask(s)
      /\ \A q \in D : task'[q] = task[q]
      /\ Active(task) = D /\ Active(task') = E
      /\ heap' = Push(task', PushBackAll(task, PopUntil(p)), p)
  BY SchedulePwmTaskIs
<1>2. TypeInv /\ SettingsInv /\ ReadyInv
  BY DEF BaseInv
<1>3. /\ vector' = Append(vector, p)
      /\ port' = [mask  |-> port.mask \cup {p},
                  state |-> port.state \cup HighAtStart([q \in {p} |-> s])]
      /\ written' = With(written, p, s)
      /\ state' = state /\ batch' = batch /\ moved' = moved
  BY DEF SchedulePwmTask
<1>4. HeapOf(heap, D) /\ HeapOf(vector, D) /\ D \subseteq Pins /\ Len(vector) = Cardinality(D)
  BY <1>1, <1>2 DEF TypeInv
<1>5. HeapOf(heap', E)
  <2>1. HeapOf(PushBackAll(task, PopUntil(p)), D)
    BY <1>4, PushBackAllIs
  <2> DEFINE g == PushBackAll(task, PopUntil(p))
  <2>2. HeapOf(g, D) /\ heap' = Push(task', g, p)
    BY <1>1, <2>1
  <2>3. p \notin D
    BY <1>1
  <2> HIDE DEF g, D
  <2>4. HeapOf(Push(task', g, p), D \cup {p})
    BY <2>2, <2>3, PushIs
  <2> QED
    BY <2>2, <2>4
<1>6. HeapOf(vector', E) /\ Len(vector') = Cardinality(E)
  <2>1. HeapOf(Append(vector, p), D \cup {p})
    BY <1>1, <1>4, AppendHeap
  <2>2. Len(Append(vector, p)) = Len(vector) + 1
    BY <1>4, HeapEntries, AppendPlace
  <2>3. Cardinality(D \cup {p}) = Cardinality(D) + 1
    BY <1>1, <1>4, OnePinMore
  <2> QED
    BY <1>3, <1>4, <2>1, <2>2, <2>3
<1>7. /\ port'.mask = E
      /\ port' \in [mask : SUBSET E, state : SUBSET E]
  <2>1. port.mask = D /\ port.state \in SUBSET D
    BY <1>1, <1>2 DEF ReadyInv, TypeInv
  <2> DEFINE H == HighAtStart([u \in {p} |-> s])
  <2>3. H \subseteq {p}
    BY DEF HighAtStart
  <2> HIDE DEF H
  <2>4. port' = [mask |-> port.mask \cup {p}, state |-> port.state \cup H]
    BY <1>3 DEF H
  <2>5. port'.mask = E /\ port'.state = port.state \cup H
    BY <2>1, <2>4
  <2>6. port.state \cup H \in SUBSET E /\ port.mask \cup {p} \in SUBSET E
    BY <2>1, <2>3
  <2>7. port' \in [mask : SUBSET E, state : SUBSET E]
    <3> HIDE DEF E
    <3> QED
      BY <2>4, <2>6
  <2> QED
    BY <2>5, <2>7
<1>8. /\ written' \in [E -> TaskSettings] /\ written'[p] = s
      /\ \A q \in D : written'[q] = written[q]
  <2>1. written \in [D -> TaskSettings]
    BY <1>2 DEF TypeInv
  <2> QED
    BY <1>1, <1>3, <2>1 DEF With
<1>9. batch' \in [mask : SUBSET E, state : SUBSET E, time : Uint] /\ moved' \subseteq E
      /\ state' \in {"READY", "RUNNING"}
  <2>1. batch \in [mask : SUBSET D, state : SUBSET D, time : Uint] /\ moved \subseteq D
    BY <1>2 DEF TypeInv
  <2>2. SUBSET D \subseteq SUBSET E
    OBVIOUS
  <2>3. batch' \in [mask : SUBSET E, state : SUBSET E, time : Uint]
    <3> DEFINE X == SUBSET D
               Y == SUBSET E
    <3>1. batch \in [mask : X, state : X, time : Uint] /\ \A x \in X : x \in Y
      BY <2>1, <2>2
    <3> HIDE DEF X, Y
    <3>2. batch \in [mask : Y, state : Y, time : Uint]
      BY <3>1
    <3> QED
      BY <1>3, <3>2 DEF Y
  <2> QED
    BY <1>1, <1>3, <2>1, <2>3
<1>10. TypeInv'
  <2>1. E \subseteq Pins
    BY <1>4
  <2> HIDE DEF E
  <2> QED
    BY <1>1, <1>5, <1>6, <1>7, <1>8, <1>9, <2>1 DEF TypeInv
<1>11. SameSettings(task'[p], s) /\ task'[p].next = FirstUpdate(s)
  BY <1>1, NewTaskIs
<1>12. SettingsInv'
  <2>1. ASSUME NEW q \in E PROVE SameSettings(task'[q], written'[q])
    <3>1. CASE q = p
      BY <1>8, <1>11, <3>1
    <3>2. CASE q # p
      <4>1. q \in D
        BY <3>2
      <4> QED
        BY <1>1, <1>2, <1>8, <4>1 DEF SettingsInv
    <3> QED
      BY <3>1, <3>2
  <2> QED
    BY <1>1, <2>1 DEF SettingsInv
<1>13. ReadyInv'
  <2>1. \A q \in D \ moved : task[q].next = FirstUpdate(task[q])
    BY <1>1, <1>2 DEF ReadyInv
  <2>2. ASSUME NEW q \in E \ moved'
        PROVE  task'[q].next = FirstUpdate(task'[q])
    <3>1. CASE q = p
      <4>1. FirstUpdate(task'[p]) = FirstUpdate(s)
        BY <1>11 DEF FirstUpdate, SameSettings
      <4> QED
        BY <1>11, <3>1, <4>1
    <3>2. CASE q # p
      <4>1. q \in D \ moved /\ task'[q] = task[q]
        BY <1>1, <1>3, <2>2, <3>2
      <4> QED
        BY <2>1, <4>1
    <3> QED
      BY <3>1, <3>2
  <2> HIDE DEF E
  <2> QED
    BY <1>1, <1>7, <2>2 DEF ReadyInv
<1> QED
  BY <1>10, <1>12, <1>13 DEF BaseInv

LEMMA TypeFacts ==
  ASSUME TypeInv
  PROVE  /\ task \in [DOMAIN task -> Task] /\ DOMAIN task \subseteq Pins
         /\ \A q \in DOMAIN task : task[q] \in Task
         /\ HeapOf(heap, Active(task)) /\ Active(task) \subseteq DOMAIN task
         /\ HeapOf(vector, DOMAIN task) /\ batch.time \in Uint
         /\ Len(vector) = Cardinality(DOMAIN task)
BY DEF TypeInv, Active

\* Events of no pin but the time.
LEMMA NoPinsBatch ==
  ASSUME NEW D, NEW time \in Uint, NEW A \in SUBSET D, NEW B \in SUBSET D
  PROVE  /\ [mask |-> A, state |-> B, time |-> time]
              \in [mask : SUBSET D, state : SUBSET D, time : Uint]
         /\ [NoEvent EXCEPT !.time = time]
              \in [mask : SUBSET D, state : SUBSET D, time : Uint]
         /\ NoEvent \in [mask : SUBSET D, state : SUBSET D, time : Uint]
<1>1. 0 \in Uint
  BY UintRangeAssumption DEF Uint
<1> QED
  BY <1>1 DEF NoEvent

LEMMA StartIs ==
  ASSUME BaseInv, NEW time \in StartTimes, Start(time)
  PROVE  /\ state = "READY" /\ state' = "RUNNING" /\ time \in Uint
         /\ DOMAIN task' = DOMAIN task /\ task' \in [DOMAIN task -> Task]
         /\ \A q \in DOMAIN task :
              /\ task'[q].next \in Uint
              /\ Gap(task'[q].next, time) = FirstUpdate(task[q])
              /\ SameSettings(task'[q], task[q])
         /\ Active(task) = DOMAIN task /\ Active(task') = DOMAIN task
         /\ batch'.time = time
<1>1. /\ state = "READY" /\ state' = "RUNNING" /\ time \in Uint
      /\ task' = [p \in DOMAIN task |-> StartedAt(task[p], time)]
      /\ batch' = [NoEvent EXCEPT !.time = time]
  BY StartTimesAssumption DEF Start
<1>2. /\ \A q \in DOMAIN task : task[q] \in Task
      /\ Active(task) = DOMAIN task
  BY <1>1, TypeFacts DEF BaseInv, ReadyInv
<1>3. \A q \in DOMAIN task :
        /\ StartedAt(task[q], time) \in Task /\ StartedAt(task[q], time).next \in Uint
        /\ Gap(StartedAt(task[q], time).next, time) = FirstUpdate(task[q])
        /\ SameSettings(StartedAt(task[q], time), task[q])
        /\ StartedAt(task[q], time).state \in {"LOW", "HIGH"}
  BY <1>1, <1>2, StartedAtIs
<1>4. DOMAIN task' = DOMAIN task /\ \A q \in DOMAIN task : task'[q] = StartedAt(task[q], time)
  BY <1>1
<1>5. task' \in [DOMAIN task -> Task]
  BY <1>1, <1>3
<1>6. Active(task') = DOMAIN task
  BY <1>3, <1>4 DEF Active, RequiresFutureUpdate
<1>7. batch'.time = time
  BY <1>1 DEF NoEvent
<1> QED
  BY <1>1, <1>2, <1>3, <1>4, <1>5, <1>6, <1>7

LEMMA BaseStart ==
  ASSUME BaseInv, NEW time \in StartTimes, Start(time)
  PROVE  BaseInv'
<1>1. /\ state = "READY" /\ state' = "RUNNING" /\ time \in Uint
      /\ DOMAIN task' = DOMAIN task /\ task' \in [DOMAIN task -> Task]
      /\ \A q \in DOMAIN task : SameSettings(task'[q], task[q])
      /\ Active(task) = DOMAIN task /\ Active(task') = DOMAIN task
  BY StartIs
<1>2. /\ vector' = vector /\ heap' = heap /\ port' = port /\ written' = written
      /\ moved' = moved /\ batch' = [NoEvent EXCEPT !.time = time]
  BY DEF Start
<1>3. TypeInv /\ SettingsInv
  BY DEF BaseInv
<1>4. batch' \in [mask : SUBSET DOMAIN task, state : SUBSET DOMAIN task, time : Uint]
  BY <1>1, <1>2, NoPinsBatch
<1>5. TypeInv'
  BY <1>1, <1>2, <1>3, <1>4 DEF TypeInv
<1>6. SettingsInv'
  BY <1>1, <1>2, <1>3 DEF SettingsInv, SameSettings
<1>7. ReadyInv'
  BY <1>1 DEF ReadyInv
<1> QED
  BY <1>5, <1>6, <1>7 DEF BaseInv

Begun == BegunWith(task, heap)

LEMMA BegunIs ==
  ASSUME TypeInv
  PROVE  /\ Begun \in RoundSet(DOMAIN task) /\ DOMAIN task \in SUBSET Pins
         /\ Begun.heap = heap /\ Begun.task = task
<1>1. /\ task \in [DOMAIN task -> Task] /\ HeapOf(heap, Active(task))
      /\ DOMAIN task \subseteq Pins
  BY TypeFacts
<1> DEFINE A == Seq(Pins)
           D == DOMAIN task
           B == [D -> Task]
<1>2. heap \in A /\ task \in B
  BY <1>1 DEF HeapOf
<1>3. Begun.heap = heap /\ Begun.task = task
  BY DEF Begun, BegunWith
<1> HIDE DEF A, B, D
<1>4. Begun \in [task : B, heap : A, mask : SUBSET D, state : SUBSET D]
  BY <1>2 DEF Begun, BegunWith
<1>5. Begun \in RoundSet(DOMAIN task)
  BY <1>1, <1>3, <1>4 DEF RoundSet, A, B, D
<1> QED
  BY <1>1, <1>3, <1>5

LEMMA ComputeBatchIs ==
  ASSUME ComputeBatch
  PROVE  /\ state = "RUNNING" /\ heap # <<>>
         /\ LET time == task[Head(heap)].next
                b    == Rounds(Begun, time)
            IN /\ task' = b.task /\ heap' = b.heap
               /\ batch' = [mask |-> b.mask, state |-> b.state, time |-> time]
         /\ state' = state /\ vector' = vector /\ port' = port /\ written' = written
         /\ moved' = moved
BY DEF ComputeBatch, Begun, BegunWith

LEMMA BaseCompute ==
  ASSUME BaseInv, ComputeBatch
  PROVE  BaseInv'
<1> DEFINE time == task[Head(heap)].next
           b == Rounds(Begun, time)
           D == DOMAIN task
<1>1. /\ state = "RUNNING" /\ heap # <<>>
      /\ task' = b.task /\ heap' = b.heap
      /\ batch' = [mask |-> b.mask, state |-> b.state, time |-> time]
      /\ state' = state /\ vector' = vector /\ port' = port /\ written' = written
      /\ moved' = moved
  BY ComputeBatchIs
<1>2. TypeInv /\ SettingsInv
  BY DEF BaseInv
<1>3. /\ Begun \in RoundSet(D) /\ D \in SUBSET Pins
      /\ Begun.heap = heap /\ Begun.task = task
  BY <1>2, BegunIs
<1>4. b \in RoundSet(D) /\ \A q \in D : SameSettings(b.task[q], task[q])
  BY <1>1, <1>3, RoundsKeep
<1>5. time \in Uint
  <2>1. Head(heap) \in Active(task)
    BY <1>1, <1>2, TypeFacts, PopIs
  <2>2. task[Head(heap)] \in Task
    BY <1>2, <2>1, TypeFacts
  <2> QED
    BY <2>2 DEF Task
<1> HIDE DEF b, time
<1>6. /\ b.task \in [D -> Task] /\ DOMAIN b.task = D
      /\ b.mask \in SUBSET D /\ b.state \in SUBSET D
      /\ HeapOf(b.heap, Active(b.task))
  BY <1>4, RoundSetIs
<1>7. batch' \in [mask : SUBSET D, state : SUBSET D, time : Uint]
  BY <1>1, <1>5, <1>6, NoPinsBatch
<1>8. TypeInv'
  BY <1>1, <1>2, <1>6, <1>7 DEF TypeInv
<1>9. SettingsInv'
  BY <1>1, <1>2, <1>4, <1>6 DEF SettingsInv, SameSettings
<1>10. ReadyInv'
  BY <1>1 DEF ReadyInv
<1> QED
  BY <1>8, <1>9, <1>10 DEF BaseInv

LEMMA StopIs ==
  ASSUME BaseInv, Stop
  PROVE  /\ state = "RUNNING" /\ state' = "READY"
         /\ DOMAIN task' = DOMAIN task /\ task' \in [DOMAIN task -> Task]
         /\ \A q \in DOMAIN task : /\ task'[q].next = FirstUpdate(task[q])
                                   /\ SameSettings(task'[q], task[q])
         /\ Active(task') = DOMAIN task
         /\ heap' = PushFirst(task', <<>>, vector, Len(vector))
         /\ HeapOf(heap', DOMAIN task)
         /\ Rankable(task', DOMAIN task) => Sorted(task', heap')
<1>1. /\ state = "RUNNING" /\ state' = "READY"
      /\ task' = [p \in DOMAIN task |-> Reset(task[p])]
      /\ heap' = PushFirst(task', <<>>, vector, Len(vector))
  BY DEF Stop, Reinserted
<1>2. /\ \A q \in DOMAIN task : task[q] \in Task
      /\ HeapOf(vector, DOMAIN task)
  BY TypeFacts DEF BaseInv
<1>3. \A q \in DOMAIN task :
        /\ Reset(task[q]) \in Task /\ Reset(task[q]).next = FirstUpdate(task[q])
        /\ SameSettings(Reset(task[q]), task[q]) /\ Reset(task[q]).state \in {"LOW", "HIGH"}
  BY <1>2, ResetIs
<1>4. DOMAIN task' = DOMAIN task /\ \A q \in DOMAIN task : task'[q] = Reset(task[q])
  BY <1>1
<1>5. task' \in [DOMAIN task -> Task]
  BY <1>1, <1>3
<1>6. Active(task') = DOMAIN task
  BY <1>3, <1>4 DEF Active, RequiresFutureUpdate
<1>7. HeapOf(<<>>, {}) /\ Sorted(task', <<>>)
  BY EmptySeq DEF HeapOf, Sorted
<1> DEFINE D == DOMAIN task
<1>8. HeapOf(heap', D) /\ (Rankable(task', D) => Sorted(task', heap'))
  <2>1. HeapOf(vector, D) /\ {} \cap D = {} /\ {} \cup D = D
    BY <1>2
  <2> HIDE DEF D
  <2>2. /\ HeapOf(heap', {} \cup D)
        /\ Rankable(task', {} \cup D) /\ Sorted(task', <<>>) => Sorted(task', heap')
    BY <1>1, <1>7, <2>1, PushFirstIs
  <2> QED
    BY <1>7, <2>1, <2>2
<1> QED
  BY <1>1, <1>3, <1>4, <1>5, <1>6, <1>8

LEMMA BaseStop ==
  ASSUME BaseInv, Stop
  PROVE  BaseInv'
<1>1. /\ state' = "READY"
      /\ DOMAIN task' = DOMAIN task /\ task' \in [DOMAIN task -> Task]
      /\ \A q \in DOMAIN task : /\ task'[q].next = FirstUpdate(task[q])
                                /\ SameSettings(task'[q], task[q])
      /\ Active(task') = DOMAIN task
      /\ HeapOf(heap', DOMAIN task)
  BY StopIs
<1>2. /\ port' = InitialPort(task) /\ batch' = NoEvent /\ moved' = {}
      /\ vector' = vector /\ written' = written
  BY DEF Stop
<1>3. TypeInv /\ SettingsInv
  BY DEF BaseInv
<1> DEFINE D == DOMAIN task
<1>4. batch' \in [mask : SUBSET D, state : SUBSET D, time : Uint]
  <2>1. 0 \in Uint
    BY UintRangeAssumption DEF Uint
  <2> QED
    BY <1>2, <2>1, NoPinsBatch
<1>5. port'.mask = D /\ port' \in [mask : SUBSET D, state : SUBSET D]
  <2>1. HighAtStart(task) \in SUBSET D /\ D \in SUBSET D
    BY DEF HighAtStart
  <2> DEFINE H == HighAtStart(task)
  <2>2. port' = [mask |-> D, state |-> H]
    BY <1>2 DEF InitialPort
  <2> HIDE DEF H, D
  <2> QED
    BY <2>1, <2>2 DEF H
<1>6. TypeInv'
  BY <1>1, <1>2, <1>3, <1>4, <1>5 DEF TypeInv
<1>7. SettingsInv'
  BY <1>1, <1>2, <1>3 DEF SettingsInv, SameSettings
<1>8. ReadyInv'
  <2>1. ASSUME NEW q \in D
        PROVE  task'[q].next = FirstUpdate(task'[q])
    <3>1. SameSettings(task'[q], task[q]) /\ task'[q].next = FirstUpdate(task[q])
      BY <1>1
    <3> QED
      BY <3>1 DEF SameSettings, FirstUpdate
  <2> QED
    BY <1>1, <1>5, <2>1 DEF ReadyInv
<1> QED
  BY <1>6, <1>7, <1>8 DEF BaseInv

LEMMA BaseReset ==
  ASSUME ResetSchedule
  PROVE  BaseInv'
<1>1. /\ state' = "READY" /\ task' = None /\ vector' = <<>> /\ heap' = <<>>
      /\ port' = NoPort /\ batch' = NoEvent /\ written' = None /\ moved' = {}
  BY DEF ResetSchedule
<1>2. Init'
  BY <1>1 DEF Init
<1>3. Init' => BaseInv'
  BY BaseInit, PTL
<1> QED
  BY <1>2, <1>3

LEMMA BaseNext == BaseInv /\ [Next]_vars => BaseInv'
<1> SUFFICES ASSUME BaseInv, [Next]_vars PROVE BaseInv'
  OBVIOUS
<1>1. ASSUME NEW p \in Pins, NEW s \in TaskSettings, RewriteTask(p, s) PROVE BaseInv'
  BY <1>1, BaseRewrite
<1>2. ASSUME NEW p \in Pins, NEW s \in TaskSettings, SchedulePwmTask(p, s) PROVE BaseInv'
  BY <1>2, BaseSchedule
<1>3. ASSUME NEW time \in StartTimes, Start(time) PROVE BaseInv'
  BY <1>3, BaseStart
<1>4. CASE ComputeBatch
  BY <1>4, BaseCompute
<1>5. CASE Stop
  BY <1>5, BaseStop
<1>6. CASE ResetSchedule
  BY <1>6, BaseReset
<1>7. CASE UNCHANGED vars
  BY <1>7 DEF BaseInv, TypeInv, SettingsInv, ReadyInv, vars
<1> QED
  BY <1>1, <1>2, <1>3, <1>4, <1>5, <1>6, <1>7 DEF Next

LEMMA BaseAlways == Spec => []BaseInv
<1>1. Init => BaseInv
  BY BaseInit
<1>2. BaseInv /\ [Next]_vars => BaseInv'
  BY BaseNext
<1> QED
  BY <1>1, <1>2, PTL DEF Spec

\* The types, and that pushing, popping and sifting lose and double no task
\* (core1_main.cpp:42-66, pwm_scheduler.cpp:115-160): for any number of pins,
\* any settings and any times.
THEOREM NoTaskLost == Spec => []TypeOK
<1>1. BaseInv => TypeOK
  <2> SUFFICES ASSUME BaseInv PROVE TypeOK
    OBVIOUS
  <2>1. TypeInv
    BY DEF BaseInv
  <2>2. IsInjective(heap) /\ ToSet(heap) = Active(task)
    BY <2>1, TypeFacts, HeapEntries, HeapOfIs
  <2>3. ToSet(vector) = DOMAIN task
    BY <2>1, TypeFacts, HeapEntries, HeapOfIs
  <2> QED
    BY <2>1, <2>2, <2>3 DEF TypeInv, TypeOK, Active
<1> QED
  BY <1>1, BaseAlways, PTL

\* The search finds the task of every pin that has one, wherever in the queue
\* it is: no pin gets a second task, and each keeps the settings that its pin got
\* last, through starts, updates and stops (core1_main.cpp:42-67).
THEOREM LastSettingsHold == Spec => []SettingsTakeEffect
<1>1. BaseInv => SettingsTakeEffect
  <2> SUFFICES ASSUME BaseInv PROVE SettingsTakeEffect
    OBVIOUS
  <2>1. HeapOf(vector, DOMAIN task)
    BY DEF BaseInv, TypeInv
  <2>2. IsInjective(vector)
    BY <2>1, HeapEntries, HeapOfIs
  <2> QED
    BY <2>2 DEF BaseInv, SettingsInv, SettingsTakeEffect, SameSettings
<1> QED
  BY <1>1, BaseAlways, PTL
-----------------------------------------------------------------------------
(***************************************************************************)
(* The order of the queue, for phases that are short against the timer.    *)
(***************************************************************************)

\* Half the timer's range is more than M, which no phase exceeds.
Brief(M) ==
  /\ M \in Nat /\ 2 * M < UintRange
  /\ \A s \in TaskSettings : ShortPhases(s, M)

LEMMA TasksAreShort ==
  ASSUME NEW M, Brief(M), BaseInv
  PROVE  \A q \in DOMAIN task : /\ ShortPhases(task[q], M)
                                /\ FirstUpdate(task[q]) <= M
<1> SUFFICES ASSUME NEW q \in DOMAIN task
             PROVE  ShortPhases(task[q], M) /\ FirstUpdate(task[q]) <= M
  OBVIOUS
<1>1. SameSettings(task[q], written[q]) /\ written[q] \in TaskSettings
  BY DEF BaseInv, TypeInv, SettingsInv
<1>2. ShortPhases(written[q], M)
  BY <1>1 DEF Brief
<1> QED
  BY <1>1, <1>2 DEF SameSettings, ShortPhases, FirstUpdate

LEMMA ZeroIsATime == 0 \in Uint
BY UintRangeAssumption DEF Uint

LEMMA OrderInit == ASSUME NEW M, Init PROVE OrderInv(M) /\ AheadInv
<1>1. DOMAIN task = {}
  BY DEF Init, None
<1>2. Sorted(task, heap)
  BY EmptySeq DEF Init, Sorted
<1> QED
  BY <1>1, <1>2 DEF Init, OrderInv, AheadInv, Within

LEMMA OrderRewrite ==
  ASSUME NEW M, Brief(M), BaseInv, OrderInv(M),
         NEW p \in Pins, NEW s \in TaskSettings, RewriteTask(p, s)
  PROVE  (OrderInv(M) /\ AheadInv)'
<1>1. /\ state = "READY" /\ DOMAIN task' = DOMAIN task
      /\ task' \in [DOMAIN task -> Task]
      /\ \A q \in DOMAIN task : task'[q].next = task[q].next
      /\ heap' = PushBackAll(task', PopUntil(p))
  BY RewriteTaskIs
<1>2. state' = "READY"
  BY <1>1 DEF RewriteTask
<1>3. Sorted(task, heap) /\ Within(task, DOMAIN task, 0, M) /\ Active(task) = DOMAIN task
      /\ HeapOf(heap, Active(task))
  BY <1>1, TypeFacts DEF OrderInv, BaseInv, ReadyInv
<1>4. Rankable(task, DOMAIN task)
  BY <1>3, ZeroIsATime, WithinRanks DEF Brief
<1>5. Sorted(task', heap')
  BY <1>1, <1>3, <1>4, PushBackAllIs
<1>6. Within(task', DOMAIN task', 0, M)
  BY <1>1, <1>3 DEF Within
<1> QED
  BY <1>2, <1>5, <1>6 DEF OrderInv, AheadInv

LEMMA OrderSchedule ==
  ASSUME NEW M, Brief(M), BaseInv, OrderInv(M),
         NEW p \in Pins, NEW s \in TaskSettings, SchedulePwmTask(p, s)
  PROVE  (OrderInv(M) /\ AheadInv)'
<1> DEFINE D == DOMAIN task
           g == PushBackAll(task, PopUntil(p))
<1>1. /\ state = "READY" /\ p \notin D /\ s \in Settings
      /\ DOMAIN task' = D \cup {p} /\ task' \in [D \cup {p} -> Task]
      /\ task'[p] = NewTask(s)
      /\ \A q \in D : task'[q] = task[q]
      /\ Active(task) = D
      /\ heap' = Push(task', g, p)
  BY SchedulePwmTaskIs
<1>2. state' = "READY"
  BY <1>1 DEF SchedulePwmTask
<1>3. Sorted(task, heap) /\ Within(task, D, 0, M) /\ HeapOf(heap, D)
  BY <1>1, TypeFacts DEF OrderInv, BaseInv
<1>4. Rankable(task, D)
  BY <1>3, ZeroIsATime, WithinRanks DEF Brief
<1>5. Sorted(task, g) /\ HeapOf(g, D)
  BY <1>3, <1>4, PushBackAllIs
<1>6. Within(task', D \cup {p}, 0, M)
  <2>1. ASSUME NEW q \in D PROVE task'[q].next \in Uint /\ Gap(task'[q].next, 0) <= M
    BY <1>1, <1>3, <2>1 DEF Within
  <2>2. task'[p].next \in Uint /\ Gap(task'[p].next, 0) <= M
    <3>1. task'[p].next = FirstUpdate(s) /\ task'[p] \in Task
      BY <1>1, NewTaskIs
    <3>2. task'[p].next \in Uint
      BY <3>1 DEF Task
    <3>3. ShortPhases(s, M)
      BY DEF Brief
    <3>4. FirstUpdate(s) <= M
      BY <3>3 DEF ShortPhases, FirstUpdate
    <3> QED
      BY <3>1, <3>2, <3>4, GapFromZero
  <2> QED
    BY <2>1, <2>2 DEF Within
<1>7. Rankable(task', D \cup {p})
  <2> HIDE DEF D
  <2> QED
    BY <1>6, ZeroIsATime, WithinRanks DEF Brief
<1>8. Sorted(task', g)
  <2>1. ASSUME NEW i \in 2 .. Len(g) PROVE g[i] \in D /\ g[i \div 2] \in D
    <3> HIDE DEF g, D
    <3>1. i \in 1 .. Len(g) /\ i \div 2 \in 1 .. Len(g)
      BY <1>5, HeapEntries
    <3> QED
      BY <1>5, <3>1, HeapEntries
  <2> HIDE DEF g
  <2> QED
    BY <1>1, <1>5, <2>1 DEF Sorted
<1>9. Sorted(task', heap')
  <2> HIDE DEF g, D
  <2>1. Sorted(task', Push(task', g, p))
    BY <1>1, <1>5, <1>7, <1>8, PushIs
  <2> QED
    BY <1>1, <2>1
<1>10. Within(task', DOMAIN task', 0, M)
  BY <1>1, <1>6
<1> QED
  BY <1>2, <1>9, <1>10 DEF OrderInv, AheadInv

LEMMA OrderStart ==
  ASSUME NEW M, Brief(M), BaseInv, OrderInv(M), NEW time \in StartTimes, Start(time)
  PROVE  (OrderInv(M) /\ AheadInv)'
<1> DEFINE D == DOMAIN task
<1>1. /\ state = "READY" /\ state' = "RUNNING" /\ time \in Uint
      /\ DOMAIN task' = D
      /\ \A q \in D :
           /\ task'[q].next \in Uint
           /\ Gap(task'[q].next, time) = FirstUpdate(task[q])
           /\ SameSettings(task'[q], task[q])
      /\ Active(task) = D /\ Active(task') = D
      /\ batch'.time = time
  BY StartIs
<1>2. heap' = heap /\ moved' = moved
  BY DEF Start
<1>3. Sorted(task, heap) /\ Within(task, D, 0, M) /\ HeapOf(heap, D)
  BY <1>1, TypeFacts DEF OrderInv, BaseInv
<1>4. \A q \in D : FirstUpdate(task[q]) <= M
  BY TasksAreShort
<1>5. Within(task', D, time, M)
  BY <1>1, <1>4 DEF Within
<1>6. ASSUME moved = {} PROVE Sorted(task', heap)
  <2>1. \A q \in D : task[q].next = FirstUpdate(task[q])
    BY <1>1, <1>6 DEF BaseInv, ReadyInv
  <2>2. Ranks(task, D, GapFrom(task, D, 0)) /\ Ranks(task', D, GapFrom(task', D, time))
    <3> HIDE DEF D
    <3> QED
      BY <1>1, <1>3, <1>5, ZeroIsATime, WithinRanks DEF Brief
  <2>3. ASSUME NEW q \in D PROVE GapFrom(task, D, 0)[q] = GapFrom(task', D, time)[q]
    <3>1. GapFrom(task', D, time)[q] = FirstUpdate(task[q])
      BY <1>1 DEF GapFrom
    <3>2. GapFrom(task, D, 0)[q] = Gap(task[q].next, 0) /\ task[q].next \in Uint
      BY <1>3 DEF GapFrom, Within
    <3> QED
      BY <2>1, <3>1, <3>2, GapFromZero
  <2> DEFINE r == GapFrom(task, D, 0)
             u == GapFrom(task', D, time)
  <2> HIDE DEF r, u, D
  <2>4. Ordered(heap, r)
    BY <1>3, <2>2, SortedIsOrdered DEF r
  <2>5. Ordered(heap, u)
    <3>1. \A i \in 2 .. Len(heap) : heap[i] \in D /\ heap[i \div 2] \in D
      <4>1. \A i \in 2 .. Len(heap) : i \in 1 .. Len(heap) /\ i \div 2 \in 1 .. Len(heap)
        BY <1>3, HeapEntries
      <4>2. \A i \in 1 .. Len(heap) : heap[i] \in D
        BY <1>3, HeapEntries
      <4> QED
        BY <4>1, <4>2
    <3>2. \A q \in D : r[q] = u[q]
      BY <2>3 DEF r, u
    <3> QED
      BY <2>4, <3>1, <3>2 DEF Ordered
  <2> QED
    BY <1>3, <2>2, <2>5, SortedIsOrdered DEF u
<1>7. ASSUME TwoPhases' PROVE \A q \in D : Gap(task'[q].next, time) > 0
  <2>1. ASSUME NEW q \in D PROVE FirstUpdate(task[q]) > 0
    <3>1. 0 < task'[q].on /\ SameSettings(task'[q], task[q])
      BY <1>1, <1>7 DEF TwoPhases
    <3>2. 0 < task[q].on /\ task[q].delay \in Nat
      BY <3>1, TypeFacts, UintRangeAssumption DEF SameSettings, BaseInv, Task, Uint
    <3> QED
      BY <3>2 DEF FirstUpdate
  <2> QED
    BY <1>1, <2>1
<1>8. OrderInv(M)'
  BY <1>1, <1>2, <1>5, <1>6 DEF OrderInv
<1>9. AheadInv'
  BY <1>1, <1>7 DEF AheadInv
<1> QED
  BY <1>8, <1>9

LEMMA GapFromLater ==
  ASSUME NEW t \in Uint, NEW u \in Uint, NEW n \in Uint, Gap(u, n) <= Gap(t, n)
  PROVE  Gap(t, u) = Gap(t, n) - Gap(u, n)
<1>1. UintRange \in Nat /\ 0 <= t /\ t < UintRange /\ 0 <= u /\ u < UintRange
      /\ 0 <= n /\ n < UintRange /\ t \in Int /\ u \in Int /\ n \in Int
  BY UintRangeAssumption DEF Uint
<1>2. /\ Gap(t, n) = IF t >= n THEN t - n ELSE t - n + UintRange
      /\ Gap(u, n) = IF u >= n THEN u - n ELSE u - n + UintRange
      /\ Gap(t, u) = IF t >= u THEN t - u ELSE t - u + UintRange
  BY GapIs
<1> QED
  BY <1>1, <1>2

\* The front task of a queue in order comes first.
LEMMA FrontIsEarliest ==
  ASSUME NEW M, Brief(M), BaseInv, OrderInv(M), ComputeBatch, moved = {}
  PROVE  LET time == task[Head(heap)].next
         IN /\ time \in Uint /\ Head(heap) \in Active(task)
            /\ Sorted(task, heap) /\ Within(task, Active(task), batch.time, M)
            /\ \A q \in Active(task) : Gap(time, batch.time) <= Gap(task[q].next, batch.time)
            /\ Within(task, Active(task), time, M)
<1> DEFINE time == task[Head(heap)].next
           Q == Active(task)
           n == batch.time
           r == GapFrom(task, Q, n)
<1>1. /\ state = "RUNNING" /\ heap # <<>> /\ HeapOf(heap, Q) /\ n \in Uint
      /\ Sorted(task, heap) /\ Within(task, Q, n, M)
  BY ComputeBatchIs, TypeFacts DEF OrderInv, BaseInv
<1>2. Head(heap) = heap[1] /\ Head(heap) \in Q
  BY <1>1, PopIs
<1>3. time \in Uint
  BY <1>1, <1>2 DEF Within
<1>4. Ranks(task, Q, r)
  <2> HIDE DEF Q, n
  <2> QED
    BY <1>1, WithinRanks DEF Brief
<1>5. r[Head(heap)] = Gap(time, n) /\ \A q \in Q : r[q] = Gap(task[q].next, n)
  BY <1>2 DEF GapFrom
<1> HIDE DEF Q, r, n, time
<1>6. \A q \in Q : r[Head(heap)] <= r[q]
  <2>1. Ordered(heap, r)
    BY <1>1, <1>4, SortedIsOrdered
  <2>2. \A q \in Q : r[q] \in Int
    BY <1>4 DEF Ranks
  <2> QED
    BY <1>1, <1>2, <2>1, <2>2, HeadIsFirst
<1>7. \A q \in Q : Gap(time, n) <= Gap(task[q].next, n)
  BY <1>5, <1>6
<1>8. Within(task, Q, time, M)
  <2>1. ASSUME NEW q \in Q PROVE task[q].next \in Uint /\ Gap(task[q].next, time) <= M
    <3> DEFINE t == task[q].next
    <3>1. t \in Uint /\ Gap(t, n) <= M /\ Gap(time, n) <= Gap(t, n)
      BY <1>1, <1>7 DEF Within
    <3> HIDE DEF t
    <3>2. Gap(t, time) = Gap(t, n) - Gap(time, n) /\ Gap(time, n) \in Nat /\ Gap(t, n) \in Nat
      BY <1>1, <1>3, <3>1, GapFromLater, GapIs
    <3>3. M \in Nat
      BY DEF Brief
    <3>4. Gap(t, time) <= M
      BY <3>1, <3>2, <3>3
    <3> QED
      BY <3>1, <3>4 DEF t
  <2> QED
    BY <2>1 DEF Within
<1> QED
  BY <1>1, <1>2, <1>3, <1>7, <1>8 DEF time, Q, n

\* What a call of update() does to a queue in order.
LEMMA OrderedCompute ==
  ASSUME NEW M, Brief(M), BaseInv, OrderInv(M), ComputeBatch, moved = {}
  PROVE  LET time == task[Head(heap)].next
         IN /\ Sorted(task', heap') /\ Within(task', Active(task'), time, M)
            /\ \A q \in DOMAIN task : SameSettings(task'[q], task[q])
            /\ DOMAIN task' = DOMAIN task
            /\ batch'.time = time
            /\ TwoPhases => /\ \A q \in Active(task') : Gap(task'[q].next, time) > 0
                            /\ batch'.mask = {q \in Active(task) : task[q].next = time}
<1> DEFINE time == task[Head(heap)].next
           D == DOMAIN task
           b == Rounds(Begun, time)
<1>1. /\ heap # <<>> /\ task' = b.task /\ heap' = b.heap
      /\ batch' = [mask |-> b.mask, state |-> b.state, time |-> time]
  BY ComputeBatchIs
<1>2. /\ task \in [D -> Task] /\ D \in SUBSET Pins /\ HeapOf(heap, Active(task))
      /\ \A q \in D : ShortPhases(task[q], M)
  BY TypeFacts, TasksAreShort DEF BaseInv
<1>3. time \in Uint /\ Sorted(task, heap) /\ Within(task, Active(task), time, M)
  BY FrontIsEarliest
<1>5. M \in Nat /\ 2 * M < UintRange
  BY DEF Brief
<1>6. TwoPhases <=> AllPhased(task)
  BY DEF TwoPhases, AllPhased, Phased
<1>7. task[Head(heap)].next = time
  OBVIOUS
<1>8. /\ b \in RoundSet(D) /\ InTime(b, task, time, M)
      /\ AllPhased(task) => /\ \A q \in Active(b.task) : Gap(b.task[q].next, time) > 0
                            /\ b.mask = {q \in Active(task) : task[q].next = time}
  <2>1. Follows(Rounds(BegunWith(task, heap), time), D, task, time, M)
    <3> HIDE DEF time, D
    <3> QED
      BY <1>1, <1>2, <1>3, <1>5, <1>7, RoundsInOrder
  <2> HIDE DEF D, time
  <2> QED
    BY <2>1 DEF Follows, Begun
<1> HIDE DEF b, time
<1>9. DOMAIN task' = D
  BY <1>1, <1>8, RoundSetIs
<1>10. /\ Sorted(task', heap') /\ Within(task', Active(task'), time, M)
       /\ \A q \in D : SameSettings(task'[q], task[q])
  BY <1>1, <1>8 DEF InTime
<1>11. batch'.time = time /\ batch'.mask = b.mask
  BY <1>1
<1>12. TwoPhases => /\ \A q \in Active(task') : Gap(task'[q].next, time) > 0
                    /\ batch'.mask = {q \in Active(task) : task[q].next = time}
  BY <1>1, <1>6, <1>8, <1>11
<1> QED
  BY <1>9, <1>10, <1>11, <1>12 DEF time

LEMMA OrderCompute ==
  ASSUME NEW M, Brief(M), BaseInv, OrderInv(M), ComputeBatch
  PROVE  (OrderInv(M) /\ AheadInv)'
<1>1. state' = "RUNNING" /\ moved' = moved
  BY ComputeBatchIs
<1>2. CASE moved # {}
  BY <1>1, <1>2 DEF OrderInv, AheadInv
<1>3. CASE moved = {}
  <2> DEFINE time == task[Head(heap)].next
  <2>1. /\ Sorted(task', heap') /\ Within(task', Active(task'), time, M)
        /\ \A q \in DOMAIN task : SameSettings(task'[q], task[q])
        /\ DOMAIN task' = DOMAIN task
        /\ batch'.time = time
        /\ TwoPhases => \A q \in Active(task') : Gap(task'[q].next, time) > 0
    BY <1>3, OrderedCompute
  <2> HIDE DEF time
  <2>2. TwoPhases' => TwoPhases
    BY <2>1 DEF TwoPhases, SameSettings
  <2>3. OrderInv(M)'
    BY <1>1, <2>1 DEF OrderInv
  <2>4. AheadInv'
    BY <1>1, <2>1, <2>2 DEF AheadInv
  <2> QED
    BY <2>3, <2>4
<1> QED
  BY <1>2, <1>3

LEMMA OrderStop ==
  ASSUME NEW M, Brief(M), BaseInv, Stop
  PROVE  (OrderInv(M) /\ AheadInv)'
<1> DEFINE D == DOMAIN task
<1>1. /\ state' = "READY" /\ DOMAIN task' = D /\ task' \in [D -> Task]
      /\ \A q \in D : task'[q].next = FirstUpdate(task[q])
      /\ Rankable(task', D) => Sorted(task', heap')
  BY StopIs
<1>2. \A q \in D : FirstUpdate(task[q]) <= M
  BY TasksAreShort
<1>3. \A q \in D : task'[q].next \in Uint
  BY <1>1 DEF Task
<1>4. Within(task', D, 0, M)
  BY <1>1, <1>2, <1>3, GapFromZero DEF Within
<1>5. Rankable(task', D)
  <2> HIDE DEF D
  <2> QED
    BY <1>4, ZeroIsATime, WithinRanks DEF Brief
<1> QED
  BY <1>1, <1>4, <1>5 DEF OrderInv, AheadInv

LEMMA OrderReset ==
  ASSUME NEW M, ResetSchedule
  PROVE  (OrderInv(M) /\ AheadInv)'
<1>1. state' = "READY" /\ task' = None /\ heap' = <<>>
  BY DEF ResetSchedule
<1>2. DOMAIN task' = {}
  BY <1>1 DEF None
<1>3. Sorted(task', heap')
  BY <1>1, EmptySeq DEF Sorted
<1> QED
  BY <1>1, <1>2, <1>3 DEF OrderInv, AheadInv, Within

LEMMA OrderNext ==
  ASSUME NEW M, Brief(M)
  PROVE  BaseInv /\ OrderInv(M) /\ AheadInv /\ [Next]_vars => (OrderInv(M) /\ AheadInv)'
<1> SUFFICES ASSUME BaseInv, OrderInv(M), AheadInv, [Next]_vars
             PROVE  (OrderInv(M) /\ AheadInv)'
  OBVIOUS
<1>1. ASSUME NEW p \in Pins, NEW s \in TaskSettings, RewriteTask(p, s)
      PROVE  (OrderInv(M) /\ AheadInv)'
  BY <1>1, OrderRewrite
<1>2. ASSUME NEW p \in Pins, NEW s \in TaskSettings, SchedulePwmTask(p, s)
      PROVE  (OrderInv(M) /\ AheadInv)'
  BY <1>2, OrderSchedule
<1>3. ASSUME NEW time \in StartTimes, Start(time) PROVE (OrderInv(M) /\ AheadInv)'
  BY <1>3, OrderStart
<1>4. CASE ComputeBatch
  BY <1>4, OrderCompute
<1>5. CASE Stop
  BY <1>5, OrderStop
<1>6. CASE ResetSchedule
  BY <1>6, OrderReset
<1>7. CASE UNCHANGED vars
  BY <1>7 DEF OrderInv, AheadInv, TwoPhases, vars
<1> QED
  BY <1>1, <1>2, <1>3, <1>4, <1>5, <1>6, <1>7 DEF Next

LEMMA InOrderAlways ==
  ASSUME NEW CONSTANT M, Brief(M)
  PROVE  Spec => [](BaseInv /\ OrderInv(M) /\ AheadInv)
<1>1. Init => BaseInv /\ OrderInv(M) /\ AheadInv
  BY BaseInit, OrderInit
<1>2. (BaseInv /\ OrderInv(M) /\ AheadInv) /\ [Next]_vars
        => (BaseInv /\ OrderInv(M) /\ AheadInv)'
  BY BaseNext, OrderNext
<1> QED
  BY <1>1, <1>2, PTL DEF Spec

\* In READY the queue is a heap whatever was rewritten, and while a schedule
\* runs whose first times were not moved ("the schedule is presorted",
\* core1_main.cpp:38), for phases shorter than half the timer's range.
THEOREM QueueInOrder ==
  ASSUME NEW CONSTANT M, Brief(M)
  PROVE  Spec => []HeapOrdered
<1>1. BaseInv /\ OrderInv(M) => HeapOrdered
  BY DEF BaseInv, TypeInv, OrderInv, HeapOrdered
<1>2. Spec => [](BaseInv /\ OrderInv(M) /\ AheadInv)
  BY InOrderAlways
<1> QED
  BY <1>1, <1>2, PTL

\* A call of update() updates the tasks that are due first, all of them and each
\* once: what PWMScheduler takes pq_ for (pwm_scheduler.cpp:115-136).
THEOREM DueTogether ==
  ASSUME NEW CONSTANT M, Brief(M)
  PROVE  Spec => EarliestTogether
<1>1. ASSUME BaseInv, OrderInv(M), ComputeBatch, moved = {}, TwoPhases
      PROVE  batch'.mask = DueFirst /\ \A p \in DueFirst : task[p].next = batch'.time
  <2> DEFINE time == task[Head(heap)].next
             Q == Active(task)
             n == batch.time
  <2>1. /\ time \in Uint /\ Head(heap) \in Q /\ Within(task, Q, n, M)
        /\ \A q \in Q : Gap(time, n) <= Gap(task[q].next, n)
    BY <1>1, FrontIsEarliest
  <2>2. batch'.time = time /\ batch'.mask = {q \in Q : task[q].next = time}
    BY <1>1, OrderedCompute
  <2>3. ToSet(heap) = Q /\ n \in Uint
    <3>1. HeapOf(heap, Q) /\ n \in Uint
      BY <1>1, TypeFacts DEF BaseInv
    <3> HIDE DEF Q, n
    <3> QED
      BY <3>1, HeapEntries, HeapOfIs
  <2> DEFINE r == GapFrom(task, Q, n)
  <2>4. Ranks(task, Q, r)
    <3> HIDE DEF Q, n
    <3> QED
      BY <2>1, <2>3, WithinRanks DEF Brief
  <2>5. r[Head(heap)] = Gap(time, n) /\ \A q \in Q : r[q] = Gap(task[q].next, n)
    BY <2>1 DEF GapFrom
  <2> HIDE DEF r, Q, n, time
  <2>6. ASSUME NEW p \in Q
        PROVE  (\A q \in Q : ~UpdatesBefore(task[q], task[p])) <=> task[p].next = time
    <3>1. \A q \in Q : UpdatesBefore(task[q], task[p]) <=> r[q] < r[p]
      BY <2>4 DEF Ranks
    <3>2. \A q \in Q : r[q] \in Int /\ Gap(time, n) <= r[q]
      BY <2>1, <2>4, <2>5 DEF Ranks
    <3>3. r[p] = Gap(time, n) <=> task[p].next = time
      BY <2>1, <2>3, <2>5, GapSame DEF Within
    <3>4. (\A q \in Q : ~UpdatesBefore(task[q], task[p])) <=> r[p] = Gap(time, n)
      <4>1. r[Head(heap)] = Gap(time, n) /\ Head(heap) \in Q
        BY <2>1, <2>5
      <4> QED
        BY <3>1, <3>2, <4>1
    <3> QED
      BY <3>3, <3>4
  <2>7. DueFirst = {q \in Q : task[q].next = time}
    BY <2>3, <2>6 DEF DueFirst
  <2> QED
    BY <2>2, <2>7
<1> DEFINE Together ==
             ComputeBatch /\ moved = {} /\ TwoPhases =>
               batch'.mask = DueFirst /\ \A p \in DueFirst : task[p].next = batch'.time
<1>2. BaseInv /\ OrderInv(M) => Together
  BY <1>1
<1>3. Spec => [](BaseInv /\ OrderInv(M) /\ AheadInv)
  BY InOrderAlways
<1> HIDE DEF Together
<1>4. Spec => [][Together]_vars
  BY <1>2, <1>3, PTL
<1> QED
  BY <1>4 DEF EarliestTogether, Together

\* Each event is later than the one before and than the start, as operator> sees
\* times that wrap (pwm_scheduler.cpp:214), however the timer stands.
THEOREM EventsMoveOn ==
  ASSUME NEW CONSTANT M, Brief(M)
  PROVE  Spec => EventsAdvance
<1> DEFINE Later == ComputeBatch /\ moved = {} /\ TwoPhases => After(batch'.time, batch.time)
<1>1. BaseInv /\ OrderInv(M) /\ AheadInv => Later
  <2> SUFFICES ASSUME BaseInv, OrderInv(M), AheadInv, ComputeBatch, moved = {}, TwoPhases
               PROVE  After(batch'.time, batch.time)
    OBVIOUS
  <2> DEFINE t == task[Head(heap)].next
             n == batch.time
  <2>1. batch'.time = t
    BY OrderedCompute
  <2>2. t \in Uint /\ n \in Uint /\ Head(heap) \in Active(task)
    BY FrontIsEarliest, TypeFacts DEF BaseInv
  <2>3. Gap(t, n) <= M
    BY FrontIsEarliest DEF Within
  <2>4. Gap(t, n) > 0
    BY <2>2, ComputeBatchIs DEF AheadInv
  <2> HIDE DEF t, n
  <2>5. Gap(n, n) = 0 /\ Gap(t, n) \in Nat /\ UintRange \in Nat \ {0, 1} /\ M \in Nat
        /\ 2 * M < UintRange
    BY <2>2, GapNow, GapIs, UintRangeAssumption DEF Brief
  <2>6. 2 * Gap(t, n) < UintRange /\ 2 * Gap(t, n) <= UintRange /\ 2 * Gap(n, n) <= UintRange
    BY <2>3, <2>5
  <2>7. After(t, n) <=> Gap(t, n) > Gap(n, n)
    BY <2>2, <2>6, AfterIs
  <2> QED
    BY <2>1, <2>4, <2>5, <2>7 DEF n
<1>2. Spec => [](BaseInv /\ OrderInv(M) /\ AheadInv)
  BY InOrderAlways
<1> HIDE DEF Later
<1>3. Spec => [][Later]_vars
  BY <1>1, <1>2, PTL
<1> QED
  BY <1>3 DEF EventsAdvance, Later
=============================================================================
