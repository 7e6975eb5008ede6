---------------------------- MODULE Lists_proofs ----------------------------
(***************************************************************************)
(* What the loops of Lists return, for every list: by induction on the     *)
(* number of steps taken, in the form "what fails for some number fails    *)
(* for a least one", since the induction theorems of the library take an   *)
(* operator as parameter.                                                  *)
(***************************************************************************)
EXTENDS Lists, Functions, WellFoundedInduction, TLAPS

\* Induction: what fails for some number fails for a least one.
LEMMA LeastOf ==
    ASSUME NEW T, T \subseteq Nat, T # {}
    PROVE  \E m \in T : \A k \in T : m <= k
<1>1. PICK x \in T : \A y \in T : ~(<<y, x>> \in OpToRel(<, Nat))
  <2>1. \E x \in T : \A y \in T : ~(<<y, x>> \in OpToRel(<, Nat))
    BY NatLessThanWellFounded, WFMin, Zenon
  <2> QED BY <2>1
<1>2. \A y \in T : ~(y < x)
  BY <1>1 DEF OpToRel
<1> QED BY <1>2

\* A loop: from z on, the n-th step leads to step[n][value so far].
Runs(z, V, step, n, g) ==
    /\ g \in [0 .. n -> V] /\ g[0] = z
    /\ \A i \in 0 .. n : i # n => g[i + 1] = step[i + 1][g[i]]

LEMMA RunsExist ==
    ASSUME NEW V, NEW z \in V, NEW step \in [Nat -> [V -> V]], NEW n \in Nat
    PROVE  \E g : Runs(z, V, step, n, g)
<1> DEFINE T == {k \in Nat : ~ \E g : Runs(z, V, step, k, g)}
<1>1. T = {}
  <2> SUFFICES ASSUME T # {} PROVE FALSE
    OBVIOUS
  <2>1. PICK m \in T : \A k \in T : m <= k
    <3>1. T \subseteq Nat
      OBVIOUS
    <3> HIDE DEF T
    <3> QED BY <3>1, LeastOf
  <2>2. m # 0
    <3>1. Runs(z, V, step, 0, [i \in 0 .. 0 |-> z])
      BY DEF Runs
    <3> QED BY <3>1
  <2>3. m - 1 \in Nat /\ m - 1 \notin T
    <3> HIDE DEF Runs
    <3>1. m \in Nat /\ m - 1 \in Nat
      BY <2>1, <2>2
    <3> HIDE DEF T
    <3> QED BY <2>1, <3>1
  <2>4. PICK g : Runs(z, V, step, m - 1, g)
    BY <2>3
  <2> DEFINE h == [i \in 0 .. m |-> IF i = m THEN step[m][g[m - 1]] ELSE g[i]]
  <2>5. m - 1 \in 0 .. m - 1 /\ g[m - 1] \in V
    BY <2>3, <2>4 DEF Runs
  <2>6. step[m][g[m - 1]] \in V
    BY <2>5
  <2>7. h \in [0 .. m -> V] /\ h[0] = z
    BY <2>2, <2>3, <2>4, <2>6 DEF Runs
  <2>8. ASSUME NEW i \in 0 .. m, i # m
        PROVE  h[i + 1] = step[i + 1][h[i]]
    <3>1. CASE i + 1 = m
      <4>1. i = m - 1 /\ i + 1 \in 0 .. m
        BY <3>1, <2>8, <2>3
      <4>2. h[i] = g[m - 1] /\ h[i + 1] = step[m][g[m - 1]]
        BY <4>1, <3>1, <2>8
      <4> HIDE DEF h
      <4> QED BY <4>2, <3>1
    <3>2. CASE i + 1 # m
      <4>1. i \in 0 .. m - 1 /\ i # m - 1 /\ i + 1 \in 0 .. m
        BY <3>2, <2>8
      <4>2. g[i + 1] = step[i + 1][g[i]]
        BY <2>4, <4>1 DEF Runs
      <4> QED BY <4>1, <4>2, <3>2
    <3> QED BY <3>1, <3>2
  <2>9. Runs(z, V, step, m, h)
    BY <2>7, <2>8 DEF Runs
  <2> QED BY <2>9, <2>1
<1> QED BY <1>1

LEMMA RunsAgree ==
    ASSUME NEW V, NEW z \in V, NEW step \in [Nat -> [V -> V]],
           NEW m \in Nat, NEW k \in Nat, NEW g, NEW h,
           Runs(z, V, step, m, g), Runs(z, V, step, k, h), NEW n \in Nat, n <= m, n <= k
    PROVE  g[n] = h[n]
<1> DEFINE T == {i \in 0 .. n : g[i] # h[i]}
<1>1. T = {}
  <2> SUFFICES ASSUME T # {} PROVE FALSE
    OBVIOUS
  <2>1. PICK i \in T : \A j \in T : i <= j
    <3>1. T \subseteq Nat
      OBVIOUS
    <3> HIDE DEF T
    <3> QED BY <3>1, LeastOf
  <2>2. i # 0
    BY <2>1 DEF Runs
  <2>3. i - 1 \in 0 .. n /\ i - 1 \notin T
    BY <2>1, <2>2
  <2>4. /\ i - 1 \in 0 .. m /\ i - 1 # m /\ i - 1 \in 0 .. k /\ i - 1 # k
        /\ (i - 1) + 1 = i
    BY <2>1, <2>3
  <2>5. g[(i - 1) + 1] = step[(i - 1) + 1][g[i - 1]] /\ h[(i - 1) + 1] = step[(i - 1) + 1][h[i - 1]]
    BY <2>4 DEF Runs
  <2> QED
    BY <2>1, <2>3, <2>4, <2>5
<1> QED BY <1>1

\* The values of an endless loop.
Loops(z, V, step, f) ==
    f \in [Nat -> V] /\ f[0] = z /\ \A n \in Nat : f[n + 1] = step[n + 1][f[n]]

\* Every loop over the numbers is a function.
LEMMA LoopExists ==
    ASSUME NEW V, NEW z \in V, NEW step \in [Nat -> [V -> V]]
    PROVE  \E f : Loops(z, V, step, f)
<1> DEFINE G(n) == CHOOSE g : Runs(z, V, step, n, g)
           f == [n \in Nat |-> G(n)[n]]
<1>3. ASSUME NEW n \in Nat
      PROVE  Runs(z, V, step, n, G(n))
  <2>1. \E g : Runs(z, V, step, n, g)
    BY RunsExist
  <2> QED BY <2>1
<1> HIDE DEF G
<1>4. ASSUME NEW n \in Nat
      PROVE  G(n)[n] \in V /\ G(0)[0] = z /\ G(n + 1)[n + 1] = step[n + 1][G(n + 1)[n]]
  <2>1. Runs(z, V, step, n, G(n)) /\ Runs(z, V, step, 0, G(0)) /\ Runs(z, V, step, n + 1, G(n + 1))
    BY <1>3
  <2>2. n \in 0 .. n /\ n \in 0 .. n + 1 /\ n # n + 1
    OBVIOUS
  <2> QED
    BY <2>1, <2>2 DEF Runs
<1>5. ASSUME NEW n \in Nat
      PROVE  G(n + 1)[n] = G(n)[n]
  <2>1. Runs(z, V, step, n, G(n)) /\ Runs(z, V, step, n + 1, G(n + 1)) /\ n <= n /\ n <= n + 1 /\ n + 1 \in Nat
    BY <1>3
  <2> QED
    BY <2>1, RunsAgree
<1>6. f \in [Nat -> V] /\ f[0] = z
  BY <1>4
<1>7. \A n \in Nat : f[n + 1] = step[n + 1][f[n]]
  BY <1>4, <1>5
<1> QED
  <2> HIDE DEF f
  <2>1. Loops(z, V, step, f)
    BY <1>6, <1>7 DEF Loops
  <2> QED BY <2>1

\* And what takes its steps while it stays among the values is such a function.
LEMMA LoopTyped ==
    ASSUME NEW V, NEW g, g = [n \in Nat |-> g[n]], g[0] \in V,
           \A n \in Nat : g[n] \in V => g[n + 1] \in V
    PROVE  g \in [Nat -> V]
<1> DEFINE T == {n \in Nat : g[n] \notin V}
<1>1. T = {}
  <2> SUFFICES ASSUME T # {} PROVE FALSE
    OBVIOUS
  <2>1. PICK m \in T : \A k \in T : m <= k
    <3>1. T \subseteq Nat
      OBVIOUS
    <3> HIDE DEF T
    <3> QED BY <3>1, LeastOf
  <2>2. m - 1 \in Nat /\ m - 1 \notin T /\ (m - 1) + 1 = m
    BY <2>1
  <2> QED BY <2>1, <2>2
<1>2. \A n \in Nat : g[n] \in V
  BY <1>1
<1> QED BY <1>2

\* The loop of ElementsAt.
AtLoops(E, list, places, f) ==
    /\ f \in [Nat -> Seq(E)]
    /\ f[0] = <<>>
    /\ \A n \in Nat :
          f[n + 1] = IF n + 1 \in places THEN Append(f[n], list[n + 1]) ELSE f[n]

LEMMA ElementsAtLoop ==
    ASSUME NEW E, NEW list \in Seq(E), NEW places \in SUBSET DOMAIN list
    PROVE  \E f : AtLoops(E, list, places, f) /\ ElementsAt(list, places) = f[Len(list)]
<1>0. PICK V, z, step :
          /\ V = Seq(E) /\ z = <<>>
          /\ step = [n \in Nat |-> [v \in V |-> IF n \in places THEN Append(v, list[n]) ELSE v]]
  OBVIOUS
<1> DEFINE Def(f) == [n \in Nat |->
                        IF n = 0 THEN <<>>
                        ELSE IF n \in places THEN Append(f[n - 1], list[n]) ELSE f[n - 1]]
           g == CHOOSE x : x = Def(x)
<1>1. step \in [Nat -> [V -> V]] /\ z \in V
  BY <1>0
<1>2. PICK f : Loops(z, V, step, f)
  BY <1>1, LoopExists
<1>3. f = Def(f)
  <2>1. ASSUME NEW n \in Nat PROVE f[n] = Def(f)[n]
    <3>1. CASE n = 0
      BY <3>1, <1>0, <1>2 DEF Loops
    <3>2. CASE n # 0
      <4>1. n - 1 \in Nat /\ (n - 1) + 1 = n
        BY <3>2
      <4>2. f[n] = step[n][f[n - 1]] /\ f[n - 1] \in V
        BY <4>1, <1>2 DEF Loops
      <4> QED BY <1>0, <4>2, <3>2
    <3> QED BY <3>1, <3>2
  <2> QED BY <2>1, <1>2 DEF Loops
<1>4. g = Def(g)
  <2> HIDE DEF Def
  <2> QED BY <1>3
<1>5. ElementsAt(list, places) = g[Len(list)]
  BY DEF ElementsAt
<1> HIDE DEF g
<1>6. g[0] = <<>> /\ g = [n \in Nat |-> g[n]]
  BY <1>4
<1>7. ASSUME NEW n \in Nat
      PROVE  g[n + 1] = IF n + 1 \in places THEN Append(g[n], list[n + 1]) ELSE g[n]
  <2>1. g[n + 1] = Def(g)[n + 1]
    BY <1>4
  <2>2. n + 1 \in Nat /\ n + 1 # 0 /\ (n + 1) - 1 = n
    OBVIOUS
  <2> QED BY <2>1, <2>2
<1>8. g \in [Nat -> V]
  <2>1. ASSUME NEW n \in Nat, g[n] \in V PROVE g[n + 1] \in V
    <3>1. CASE n + 1 \in places
      <4>1. list[n + 1] \in E
        BY <3>1
      <4>2. Append(g[n], list[n + 1]) \in V
        BY <1>0, <2>1, <4>1
      <4> HIDE DEF Def
      <4> QED BY <1>7, <3>1, <4>2
    <3>2. CASE n + 1 \notin places
      BY <1>7, <2>1, <3>2
    <3> QED BY <3>1, <3>2
  <2>2. g[0] \in V
    BY <1>0, <1>6
  <2> QED BY <1>6, <2>1, <2>2, LoopTyped
<1> HIDE DEF Def
<1>9. AtLoops(E, list, places, g)
  BY <1>0, <1>6, <1>7, <1>8 DEF AtLoops
<1> QED BY <1>5, <1>9

\* Sequence r is what list has at the places I, p naming the place of each.
Picks(p, r, list, I) ==
    /\ p \in [1 .. Len(r) -> I]
    /\ \A i, j \in 1 .. Len(r) : i < j => p[i] < p[j]
    /\ \A i \in I : \E k \in 1 .. Len(r) : p[k] = i
    /\ \A k \in 1 .. Len(r) : r[k] = list[p[k]]

LEMMA PicksAppend ==
    ASSUME NEW E, NEW r \in Seq(E), NEW I \in SUBSET Nat, NEW n \in Nat, NEW list, NEW p,
           list[n] \in E, Picks(p, r, list, I), \A i \in I : i < n
    PROVE  \E q : Picks(q, Append(r, list[n]), list, I \cup {n})
<1> DEFINE a == Append(r, list[n])
           q == [k \in 1 .. Len(a) |-> IF k = Len(a) THEN n ELSE p[k]]
<1>1. /\ Len(r) \in Nat /\ Len(a) = Len(r) + 1
      /\ \A k \in 1 .. Len(r) : a[k] = r[k]
      /\ a[Len(a)] = list[n]
  OBVIOUS
<1> HIDE DEF a
<1>2. /\ 1 .. Len(a) = (1 .. Len(r)) \cup {Len(a)}
      /\ \A k \in 1 .. Len(r) : k # Len(a) /\ q[k] = p[k] /\ p[k] \in I /\ p[k] < n
      /\ q[Len(a)] = n
  <2>1. 1 .. Len(a) = (1 .. Len(r)) \cup {Len(a)} /\ \A k \in 1 .. Len(r) : k # Len(a)
    BY <1>1
  <2>2. \A k \in 1 .. Len(r) : p[k] \in I /\ p[k] < n
    BY DEF Picks
  <2> QED BY <2>1, <2>2
<1>3. q \in [1 .. Len(a) -> I \cup {n}]
  BY <1>2
<1>4. \A i, j \in 1 .. Len(a) : i < j => q[i] < q[j]
  <2> SUFFICES ASSUME NEW i \in 1 .. Len(a), NEW j \in 1 .. Len(a), i < j PROVE q[i] < q[j]
    OBVIOUS
  <2>1. i \in 1 .. Len(r)
    BY <1>1
  <2> HIDE DEF q
  <2>2. CASE j = Len(a)
    BY <1>2, <2>1, <2>2
  <2>3. CASE j \in 1 .. Len(r)
    BY <1>2, <2>1, <2>3 DEF Picks
  <2> QED BY <1>2, <2>2, <2>3
<1> HIDE DEF q
<1>5. \A i \in I \cup {n} : \E k \in 1 .. Len(a) : q[k] = i
  BY <1>2 DEF Picks
<1>6. \A k \in 1 .. Len(a) : a[k] = list[q[k]]
  BY <1>1, <1>2 DEF Picks
<1>7. Picks(q, a, list, I \cup {n})
  BY <1>3, <1>4, <1>5, <1>6 DEF Picks
<1> QED BY <1>7 DEF a

\* What a list has at some places: each once, in order, and nothing else.
LEMMA ElementsAtPicks ==
    ASSUME NEW E, NEW list \in Seq(E), NEW places \in SUBSET DOMAIN list
    PROVE  /\ ElementsAt(list, places) \in Seq(E)
           /\ \E p : Picks(p, ElementsAt(list, places), list, places)
<1>0. PICK f : AtLoops(E, list, places, f) /\ ElementsAt(list, places) = f[Len(list)]
  BY ElementsAtLoop
<1>1. /\ ElementsAt(list, places) = f[Len(list)] /\ f \in [Nat -> Seq(E)] /\ f[0] = <<>>
      /\ \A n \in Nat :
            f[n + 1] = IF n + 1 \in places THEN Append(f[n], list[n + 1]) ELSE f[n]
  BY <1>0 DEF AtLoops
<1> DEFINE First(n) == {i \in places : i <= n}
           T == {n \in Nat : n <= Len(list) /\ ~ \E p : Picks(p, f[n], list, First(n))}
<1>2. places \subseteq Nat \ {0} /\ Len(list) \in Nat /\ \A i \in places : list[i] \in E /\ i <= Len(list)
  OBVIOUS
<1>3. T = {}
  <2> SUFFICES ASSUME T # {} PROVE FALSE
    OBVIOUS
  <2>1. PICK m \in T : \A k \in T : m <= k
    <3>1. T \subseteq Nat
      OBVIOUS
    <3> HIDE DEF T
    <3> QED BY <3>1, LeastOf
  <2>2. m \in Nat /\ m <= Len(list) /\ ~ \E p : Picks(p, f[m], list, First(m))
    BY <2>1
  <2>3. CASE m = 0
    <3>1. First(m) = {} /\ f[m] = <<>>
      BY <1>1, <1>2, <2>3
    <3>2. Picks(<<>>, <<>>, list, {})
      BY DEF Picks
    <3> HIDE DEF First
    <3> QED BY <2>2, <3>1, <3>2
  <2>4. CASE m # 0
    <3>1. m - 1 \in Nat /\ (m - 1) + 1 = m /\ m - 1 <= Len(list)
      BY <1>2, <2>2, <2>4
    <3>2. PICK p : Picks(p, f[m - 1], list, First(m - 1))
      <4>1. m - 1 \notin T
        <5> HIDE DEF T
        <5> QED BY <2>1, <3>1
      <4> HIDE DEF First
      <4> QED BY <3>1, <4>1
    <3>3. f[m] = (IF m \in places THEN Append(f[m - 1], list[m]) ELSE f[m - 1]) /\ f[m - 1] \in Seq(E)
      BY <1>1, <3>1
    <3>6. \A i \in places : (i <= m <=> i <= m - 1 \/ i = m) /\ (i <= m - 1 => i < m) /\ m <= m
      BY <1>2, <2>2, <3>1
    <3>4. CASE m \in places
      <4>1. /\ First(m) = First(m - 1) \cup {m} /\ First(m - 1) \in SUBSET Nat
            /\ \A i \in First(m - 1) : i < m
        BY <1>2, <3>4, <3>6
      <4>2. list[m] \in E
        BY <1>2, <3>4
      <4> HIDE DEF First
      <4>3. \E q : Picks(q, Append(f[m - 1], list[m]), list, First(m - 1) \cup {m})
        BY <2>2, <3>2, <3>3, <4>1, <4>2, PicksAppend
      <4> QED BY <2>2, <3>3, <3>4, <4>1, <4>3
    <3>5. CASE m \notin places
      <4>1. First(m) = First(m - 1)
        BY <3>5, <3>6
      <4> HIDE DEF First
      <4> QED BY <2>2, <3>2, <3>3, <3>5, <4>1
    <3> QED BY <3>4, <3>5
  <2> QED BY <2>3, <2>4
<1>4. \E p : Picks(p, f[Len(list)], list, First(Len(list)))
  <2>1. Len(list) \notin T
    <3> HIDE DEF T
    <3> QED BY <1>3
  <2> HIDE DEF First
  <2> QED BY <1>2, <2>1
<1>5. First(Len(list)) = places
  BY <1>2
<1> HIDE DEF First
<1> QED BY <1>1, <1>2, <1>4, <1>5

\* What is kept of a list is all of it that is in the set, in order.
LEMMA KeptInKeeps ==
    ASSUME NEW E, NEW list \in Seq(E), NEW S
    PROVE  /\ KeptIn(list, S) \in Seq(E \cap S)
           /\ \E p : Picks(p, KeptIn(list, S), list, {i \in DOMAIN list : list[i] \in S})
<1> DEFINE places == {i \in DOMAIN list : list[i] \in S}
           r == ElementsAt(list, places)
<1>1. places \in SUBSET DOMAIN list
  OBVIOUS
<1>2. KeptIn(list, S) = r
  BY DEF KeptIn
<1> HIDE DEF places
<1>3. r \in Seq(E) /\ \E p : Picks(p, r, list, places)
  BY <1>1, ElementsAtPicks
<1>4. PICK p : Picks(p, r, list, places)
  BY <1>3
<1> HIDE DEF r
<1>5. ASSUME NEW k \in 1 .. Len(r)
      PROVE  r[k] \in E \cap S
  <2>1. p[k] \in places /\ r[k] = list[p[k]]
    BY <1>4 DEF Picks
  <2>2. p[k] \in DOMAIN list /\ list[p[k]] \in S
    BY <2>1 DEF places
  <2> QED BY <2>1, <2>2
<1>6. r \in Seq(E \cap S)
  BY <1>3, <1>5
<1> QED BY <1>2, <1>4, <1>6 DEF places

\* What is picked are the elements at the places.
LEMMA PicksRange ==
    ASSUME NEW E, NEW r \in Seq(E), NEW list, NEW I, NEW p, Picks(p, r, list, I)
    PROVE  \A x : x \in Range(r) <=> \E i \in I : x = list[i]
<1>1. \A k \in 1 .. Len(r) : p[k] \in I /\ r[k] = list[p[k]]
  BY DEF Picks
<1>2. \A i \in I : \E k \in 1 .. Len(r) : r[k] = list[i]
  BY <1>1 DEF Picks
<1>3. \A x : x \in Range(r) <=> \E k \in 1 .. Len(r) : x = r[k]
  BY DEF Range
<1> QED BY <1>1, <1>2, <1>3

\* What is kept, as a set.
LEMMA KeptRange ==
    ASSUME NEW E, NEW list \in Seq(E), NEW S
    PROVE  KeptIn(list, S) \in Seq(E) /\ Range(KeptIn(list, S)) = Range(list) \cap S
<1> DEFINE I == {i \in DOMAIN list : list[i] \in S}
           r == KeptIn(list, S)
<1>1. r \in Seq(E \cap S) /\ \E p : Picks(p, r, list, I)
  BY KeptInKeeps
<1> HIDE DEF r, I
<1>2. PICK p : Picks(p, r, list, I)
  BY <1>1
<1>3. r \in Seq(E)
  BY <1>1
<1>4. \A x : x \in Range(r) <=> \E i \in I : x = list[i]
  BY <1>2, <1>3, PicksRange
<1>5. \A x : x \in Range(list) <=> \E i \in DOMAIN list : x = list[i]
  BY DEF Range
<1>6. Range(r) = Range(list) \cap S
  BY <1>4, <1>5 DEF I
<1> QED BY <1>3, <1>6 DEF r

\* What is kept of a list at no more than one place.
LEMMA PicksShort ==
    ASSUME NEW E, NEW r \in Seq(E), NEW list, NEW I \in SUBSET Nat, NEW p, Picks(p, r, list, I),
           \A i, j \in I : i = j
    PROVE  IF I = {} THEN r = <<>> ELSE \E i \in I : r = <<list[i]>>
<1>1. Len(r) \in Nat /\ \A i, j \in 1 .. Len(r) : ~(i < j)
  <2>1. \A i \in 1 .. Len(r) : p[i] \in I
    BY DEF Picks
  <2>2. \A i \in I : ~(i < i)
    OBVIOUS
  <2>3. \A i, j \in 1 .. Len(r) : i < j => p[i] < p[j]
    BY DEF Picks
  <2>4. \A i, j \in 1 .. Len(r) : p[i] = p[j]
    BY <2>1
  <2>5. ASSUME NEW i \in 1 .. Len(r), NEW j \in 1 .. Len(r), i < j PROVE FALSE
    <3>1. p[i] < p[j] /\ p[i] = p[j] /\ p[i] \in I
      BY <2>1, <2>3, <2>4, <2>5
    <3> QED BY <2>2, <3>1
  <2>6. Len(r) \in Nat
    OBVIOUS
  <2> QED BY <2>5, <2>6
<1>2. Len(r) \in {0, 1}
  <2>1. Len(r) < 2
    <3> SUFFICES ASSUME Len(r) >= 2 PROVE FALSE
      BY <1>1
    <3>1. 1 \in 1 .. Len(r) /\ 2 \in 1 .. Len(r)
      BY <1>1
    <3> QED BY <1>1, <3>1
  <2>2. \A n \in Nat : n < 2 => n \in {0, 1}
    OBVIOUS
  <2> QED BY <1>1, <2>1, <2>2
<1>3. CASE Len(r) = 0
  <2>1. r = <<>> /\ 1 .. Len(r) = {}
    BY <1>3
  <2> QED BY <2>1 DEF Picks
<1>4. CASE Len(r) = 1
  <2>1. 1 \in 1 .. Len(r) /\ r = <<r[1]>>
    BY <1>4
  <2>2. p[1] \in I /\ r[1] = list[p[1]]
    BY <2>1 DEF Picks
  <2> QED BY <2>1, <2>2
<1> QED BY <1>2, <1>3, <1>4

LEMMA KeptShort ==
    ASSUME NEW E, NEW t \in Seq(E), NEW W,
           \A i, j \in DOMAIN t : t[i] \in W /\ t[j] \in W => i = j
    PROVE  \/ KeptIn(t, W) = <<>> /\ \A i \in DOMAIN t : t[i] \notin W
           \/ \E i \in DOMAIN t : t[i] \in W /\ KeptIn(t, W) = <<t[i]>>
<1> DEFINE I == {i \in DOMAIN t : t[i] \in W}
<1>1. /\ KeptIn(t, W) \in Seq(E \cap W)
      /\ \E p : Picks(p, KeptIn(t, W), t, {i \in DOMAIN t : t[i] \in W})
  BY KeptInKeeps
<1>2. PICK p : Picks(p, KeptIn(t, W), t, I)
  BY <1>1
<1>3. /\ I \in SUBSET Nat /\ \A i, j \in I : i = j
      /\ \A i \in I : i \in DOMAIN t /\ t[i] \in W
      /\ I = {} => \A i \in DOMAIN t : t[i] \notin W
  OBVIOUS
<1> HIDE DEF I
<1>4. IF I = {} THEN KeptIn(t, W) = <<>> ELSE \E i \in I : KeptIn(t, W) = <<t[i]>>
  BY <1>1, <1>2, <1>3, PicksShort
<1> QED BY <1>3, <1>4

\* Of a list the first of equal elements is kept, and nothing is lost.
LEMMA FirstsOnlyOnce ==
    ASSUME NEW E, NEW list \in Seq(E)
    PROVE  /\ FirstsOnly(list) \in Seq(E) /\ Range(FirstsOnly(list)) = Range(list)
           /\ \A i, j \in DOMAIN FirstsOnly(list) :
                 FirstsOnly(list)[i] = FirstsOnly(list)[j] => i = j
<1> DEFINE I == {i \in DOMAIN list : \A j \in 1 .. i - 1 : list[j] # list[i]}
           r == ElementsAt(list, I)
<1>1. I \in SUBSET DOMAIN list /\ FirstsOnly(list) = r
  BY DEF FirstsOnly
<1>2. \A i \in DOMAIN list : \E k \in I : list[k] = list[i]
  <2> SUFFICES ASSUME NEW i \in DOMAIN list PROVE \E k \in I : list[k] = list[i]
    OBVIOUS
  <2> DEFINE T == {j \in DOMAIN list : list[j] = list[i]}
  <2>1. T \subseteq Nat /\ T # {}
    OBVIOUS
  <2>2. PICK m \in T : \A k \in T : m <= k
    <3> HIDE DEF T
    <3> QED BY <2>1, LeastOf
  <2>3. \A j \in 1 .. m - 1 : j \in DOMAIN list /\ ~(m <= j)
    BY <2>2
  <2> QED BY <2>2, <2>3
<1>3. ASSUME NEW i \in I, NEW j \in I, i < j
      PROVE  list[i] # list[j]
  <2>1. i \in Nat /\ j \in Nat /\ 1 <= i /\ \A k \in 1 .. j - 1 : list[k] # list[j]
    OBVIOUS
  <2>2. i \in 1 .. j - 1
    BY <1>3, <2>1
  <2> QED BY <2>1, <2>2
<1>4. I \subseteq Nat
  OBVIOUS
<1> HIDE DEF I
<1>5. r \in Seq(E) /\ \E p : Picks(p, r, list, I)
  BY <1>1, ElementsAtPicks
<1> HIDE DEF r
<1>6. PICK p : Picks(p, r, list, I)
  BY <1>5
<1>7. Range(r) = Range(list)
  <2>1. \A x : x \in Range(r) <=> \E i \in I : x = list[i]
    BY <1>5, <1>6, PicksRange
  <2>2. \A x : x \in Range(list) <=> \E i \in DOMAIN list : x = list[i]
    BY DEF Range
  <2> QED BY <1>1, <1>2, <2>1, <2>2
<1>8. ASSUME NEW i \in DOMAIN r, NEW j \in DOMAIN r, r[i] = r[j]
      PROVE  i = j
  <2>1. /\ i \in 1 .. Len(r) /\ j \in 1 .. Len(r)
        /\ \A k, l \in 1 .. Len(r) : k < l => p[k] < p[l]
        /\ p[i] \in I /\ p[j] \in I /\ r[i] = list[p[i]] /\ r[j] = list[p[j]]
    BY <1>5, <1>6 DEF Picks
  <2>2. ~(p[i] < p[j]) /\ ~(p[j] < p[i])
    BY <1>3, <1>8, <2>1
  <2>3. i \in Nat /\ j \in Nat /\ (i < j \/ j < i \/ i = j)
    BY <1>5, <2>1
  <2> QED BY <2>1, <2>2, <2>3
<1> QED BY <1>1, <1>5, <1>7, <1>8

\* Induction over an interval.
LEMMA UpTo ==
    ASSUME NEW n \in Nat, NEW S, 0 \in S, \A i \in 0 .. n : i \in S /\ i # n => i + 1 \in S
    PROVE  \A i \in 0 .. n : i \in S
<1> DEFINE T == {i \in 0 .. n : i \notin S}
<1>1. T = {}
  <2> SUFFICES ASSUME T # {} PROVE FALSE
    OBVIOUS
  <2>1. PICK m \in T : \A k \in T : m <= k
    <3>1. T \subseteq Nat
      OBVIOUS
    <3> HIDE DEF T
    <3> QED BY <3>1, LeastOf
  <2>2. m - 1 \in 0 .. n /\ m - 1 # n /\ m - 1 \notin T /\ (m - 1) + 1 = m
    BY <2>1
  <2> QED BY <2>1, <2>2
<1> QED BY <1>1

\* A sum is among the numbers its terms are among.
LEMMA TotalAmong ==
    ASSUME NEW V, 0 \in V, \A a, b \in V : a + b \in V, NEW amounts \in Seq(V)
    PROVE  Total(amounts) \in V
<1> DEFINE Def(f) == [n \in 0 .. Len(amounts) |-> IF n = 0 THEN 0 ELSE f[n - 1] + amounts[n]]
           g == CHOOSE x : x = Def(x)
           step == [n \in Nat |-> [v \in V |-> IF n \in DOMAIN amounts THEN v + amounts[n] ELSE v]]
<1>1. Len(amounts) \in Nat /\ DOMAIN amounts = 1 .. Len(amounts) /\ step \in [Nat -> [V -> V]]
  OBVIOUS
<1>2. PICK f : Runs(0, V, step, Len(amounts), f)
  <2> HIDE DEF step
  <2> QED BY <1>1, RunsExist
<1>3. f = Def(f)
  <2>1. f \in [0 .. Len(amounts) -> V]
    BY <1>2 DEF Runs
  <2>2. ASSUME NEW n \in 0 .. Len(amounts) PROVE f[n] = Def(f)[n]
    <3>1. CASE n = 0
      BY <1>2, <3>1 DEF Runs
    <3>2. CASE n # 0
      <4>1. /\ n - 1 \in 0 .. Len(amounts) /\ n - 1 # Len(amounts) /\ (n - 1) + 1 = n
            /\ n \in DOMAIN amounts /\ n \in Nat
        BY <1>1, <3>2
      <4>2. f[(n - 1) + 1] = step[(n - 1) + 1][f[n - 1]]
        <5> HIDE DEF step
        <5> QED BY <1>2, <4>1 DEF Runs
      <4>3. f[n - 1] \in V
        BY <2>1, <4>1
      <4> QED BY <4>1, <4>2, <4>3, <3>2
    <3> QED BY <3>1, <3>2
  <2> QED BY <2>1, <2>2
<1>4. g = Def(g)
  <2> HIDE DEF Def
  <2> QED BY <1>3
<1>5. Total(amounts) = g[Len(amounts)]
  BY DEF Total
<1> HIDE DEF g
<1>6. \A i \in 0 .. Len(amounts) : i \in {n \in 0 .. Len(amounts) : g[n] \in V}
  <2> DEFINE S == {n \in 0 .. Len(amounts) : g[n] \in V}
  <2>1. 0 \in S
    BY <1>1, <1>4
  <2>2. ASSUME NEW i \in 0 .. Len(amounts), i \in S, i # Len(amounts) PROVE i + 1 \in S
    <3>0. \A k \in Nat : \A j \in 0 .. k :
             j # k => j + 1 \in 1 .. k /\ j + 1 \in 0 .. k /\ j + 1 # 0 /\ (j + 1) - 1 = j
      OBVIOUS
    <3>1. /\ i + 1 \in 0 .. Len(amounts) /\ i + 1 # 0 /\ (i + 1) - 1 = i
          /\ i + 1 \in DOMAIN amounts
      <4> HIDE DEF S
      <4> QED BY <1>1, <2>2, <3>0
    <3>2. g[i + 1] = g[i] + amounts[i + 1]
      BY <1>4, <3>1
    <3>3. g[i] \in V /\ amounts[i + 1] \in V
      BY <2>2, <3>1
    <3> QED BY <3>1, <3>2, <3>3
  <2> HIDE DEF S
  <2>3. \A i \in 0 .. Len(amounts) : i \in S
    BY <1>1, <2>1, <2>2, UpTo
  <2> QED BY <2>3 DEF S
<1> QED BY <1>1, <1>5, <1>6
=============================================================================
