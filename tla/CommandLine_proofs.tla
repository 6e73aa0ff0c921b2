---------------------------- MODULE CommandLine_proofs ----------------------------
(***************************************************************************)
(* Proofs about the command line, for texts of any length, any commands,   *)
(* files and lines of the history.                                         *)
(***************************************************************************)
EXTENDS CommandLine, FiniteSetTheorems, SequenceTheorems, TLAPS

-----------------------------------------------------------------------------
(* Numbers, and places in their order.                                     *)

\* Of some numbers up to a bound one is the least: of the sets of those up to each of them, one
\* is contained in the others.
LEMMA Least ==
  ASSUME NEW b \in Nat, NEW T \in SUBSET (0 .. b), T # {}
  PROVE  Min(T) \in T /\ \A y \in T : Min(T) <= y
<1>1. PICK W : W = {{y \in T : y <= x} : x \in T}
  OBVIOUS
<1>2. W \subseteq FiniteSubsetsOf(0 .. b) /\ W # {}
  <2>1. ASSUME NEW R \in SUBSET (0 .. b) PROVE IsFiniteSet(R)
    <3>1. IsFiniteSet(0 .. b)
      BY FS_Interval
    <3> QED
      BY <3>1, FS_Subset
  <2> QED
    BY <1>1, <2>1 DEF FiniteSubsetsOf
<1>3. PICK R \in W : \A V \in W : <<V, R>> \notin StrictSubsetOrdering(0 .. b)
  BY <1>2, FS_StrictSubsetOrderingWellFounded, WFMin
<1>4. PICK x \in T : R = {y \in T : y <= x}
  BY <1>1
<1>5. ASSUME NEW y \in T PROVE x <= y
  <2>1. SUFFICES ASSUME y < x PROVE FALSE
    OBVIOUS
  <2>2. PICK V : V = {z \in T : z <= y}
    OBVIOUS
  <2>3. V \in W /\ V \in SUBSET (0 .. b) /\ R \in SUBSET (0 .. b)
    BY <1>1, <2>2
  <2>4. V \subseteq R
    <3>1. \A z \in T : z \in Int
      OBVIOUS
    <3>2. \A z \in T : z <= y => z <= x
      BY <2>1, <3>1
    <3> QED
      BY <1>4, <2>2, <3>2
  <2>5. x \in R /\ x \notin V
    BY <1>4, <2>1, <2>2
  <2>6. <<V, R>> \in StrictSubsetOrdering(0 .. b)
    BY <2>3, <2>4, <2>5 DEF StrictSubsetOrdering
  <2> QED
    BY <1>3, <2>3, <2>6
<1> QED
  BY <1>5 DEF Min

\* And one is the greatest.
LEMMA Greatest ==
  ASSUME NEW b \in Nat, NEW T \in SUBSET (0 .. b), T # {}
  PROVE  Max(T) \in T /\ \A y \in T : y <= Max(T)
<1>1. PICK U : U = {b - x : x \in T}
  OBVIOUS
<1>2. U \in SUBSET (0 .. b) /\ U # {}
  <2>1. ASSUME NEW x \in T PROVE b - x \in 0 .. b
    OBVIOUS
  <2> QED
    BY <1>1, <2>1
<1>3. PICK u \in U : \A v \in U : u <= v
  BY <1>2, Least
<1>4. PICK x \in T : u = b - x
  BY <1>1
<1>5. ASSUME NEW y \in T PROVE y <= x
  <2>1. b - y \in U
    BY <1>1
  <2>2. b - x <= b - y
    BY <1>3, <1>4, <2>1
  <2> QED
    BY <2>2
<1> QED
  BY <1>5 DEF Max

\* Induction, for a set of numbers.
LEMMA Induct ==
  ASSUME NEW P, 0 \in P, \A n \in Nat : n \in P => n + 1 \in P
  PROVE  \A n \in Nat : n \in P
<1>1. SUFFICES ASSUME NEW b \in Nat, b \notin P PROVE FALSE
  OBVIOUS
<1>2. PICK T : T = {n \in 0 .. b : n \notin P}
  OBVIOUS
<1>3. T \in SUBSET (0 .. b) /\ T # {}
  BY <1>1, <1>2
<1>4. PICK m \in T : \A y \in T : m <= y
  BY <1>3, Least
<1>5. m \in Nat /\ m <= b /\ m # 0 /\ m \notin P
  BY <1>2, <1>4
<1>6. m - 1 \in Nat /\ m - 1 \in 0 .. b
  BY <1>5
<1>7. m - 1 \in P
  BY <1>2, <1>4, <1>6
<1>8. (m - 1) + 1 \in P
  BY <1>6, <1>7
<1> QED
  BY <1>5, <1>8

\* What goes on from each number to the next, and the values it goes through.
Ways(m, V) == [1 .. m -> [V -> V]]
Goings(start, m, go, V) ==
  {f \in [0 .. m -> V] : f[0] = start /\ \A n \in 1 .. m : f[n] = go[n][f[n - 1]]}

\* There is a value at each.
LEMMA Goes ==
  ASSUME NEW m \in Nat, NEW V, NEW start \in V, NEW go \in Ways(m, V)
  PROVE  Goings(start, m, go, V) # {}
<1> USE DEF Ways, Goings
<1> DEFINE Is(f, b) == f[0] = start /\ \A n \in 1 .. b : f[n] = go[n][f[n - 1]]
           P == {b \in Nat : b <= m => \E f \in [0 .. b -> V] : Is(f, b)}
<1>1. 0 \in P
  <2>1. [n \in 0 .. 0 |-> start] \in [0 .. 0 -> V]
    OBVIOUS
  <2>2. Is([n \in 0 .. 0 |-> start], 0)
    OBVIOUS
  <2> QED
    BY <2>1, <2>2
<1>2. ASSUME NEW b \in Nat, b \in P PROVE b + 1 \in P
  <2>1. SUFFICES ASSUME b + 1 <= m PROVE \E f \in [0 .. b + 1 -> V] : Is(f, b + 1)
    OBVIOUS
  <2>2. PICK g \in [0 .. b -> V] : Is(g, b)
    BY <1>2, <2>1
  <2>3. PICK f : f = [n \in 0 .. b + 1 |-> IF n = b + 1 THEN go[b + 1][g[b]] ELSE g[n]]
    OBVIOUS
  <2>4. g[b] \in V /\ go[b + 1][g[b]] \in V
    BY <2>1, <2>2
  <2>5. f \in [0 .. b + 1 -> V]
    BY <2>2, <2>3, <2>4
  <2>6. ASSUME NEW n \in 1 .. b + 1 PROVE f[n] = go[n][f[n - 1]]
    <3>1. CASE n = b + 1
      BY <2>3, <3>1
    <3>2. CASE n \in 1 .. b
      <4>1. f[n] = g[n] /\ f[n - 1] = g[n - 1]
        BY <2>3, <3>2
      <4> QED
        BY <2>2, <3>2, <4>1
    <3> QED
      BY <3>1, <3>2
  <2>7. f[0] = start
    BY <2>2, <2>3
  <2>8. Is(f, b + 1)
    BY <2>6, <2>7
  <2> QED
    BY <2>5, <2>8
<1> HIDE DEF P
<1>3. m \in P
  BY <1>1, <1>2, Induct
<1> QED
  BY <1>3 DEF P

\* Some places, in their order: from each to the next they grow, and all are there.
Increasing(f, n, places) ==
  /\ f \in [1 .. n -> places]
  /\ \A i, j \in 1 .. n : i < j => f[i] < f[j]
  /\ \A x \in places : \E i \in 1 .. n : f[i] = x

\* There is one order only.
LEMMA OrderIs ==
  ASSUME NEW places \in SUBSET Nat, NEW n \in Nat, NEW f, Increasing(f, n, places)
  PROVE  InOrder(places) = f /\ Cardinality(places) = n /\ IsFiniteSet(places)
<1> USE DEF Increasing
<1>0. \A i, j \in 1 .. n : f[i] = f[j] => i = j
  <2>1. \A i \in 1 .. n : f[i] \in Nat
    OBVIOUS
  <2>2. SUFFICES ASSUME NEW i \in 1 .. n, NEW j \in 1 .. n, f[i] = f[j], i # j PROVE FALSE
    OBVIOUS
  <2>3. i < j \/ j < i
    BY <2>2
  <2> QED
    BY <2>1, <2>2, <2>3
<1>1. ASSUME NEW k \in 0 .. n
      PROVE  Cardinality({f[i] : i \in 1 .. k}) = k /\ IsFiniteSet({f[i] : i \in 1 .. k})
  <2>1. PICK T : T = {f[i] : i \in 1 .. k}
    OBVIOUS
  <2>2. PICK g : g = [i \in 1 .. k |-> f[i]]
    OBVIOUS
  <2>3. g \in Bijection(1 .. k, T)
    BY <1>0, <2>1, <2>2 DEF Bijection, Injection, Surjection, IsInjective
  <2>4. IsFiniteSet(1 .. k) /\ Cardinality(1 .. k) = k
    BY FS_Interval
  <2> QED
    BY <2>1, <2>3, <2>4, FS_Bijection DEF ExistsBijection
<1>2. places = {f[i] : i \in 1 .. n}
  OBVIOUS
<1>3. Cardinality(places) = n /\ IsFiniteSet(places)
  <2>1. n \in 0 .. n
    OBVIOUS
  <2> QED
    BY <1>1, <1>2, <2>1
<1>4. ASSUME NEW k \in 1 .. n PROVE {j \in places : j <= f[k]} = {f[i] : i \in 1 .. k}
  <2>1. ASSUME NEW i \in 1 .. n PROVE f[i] \in Nat /\ (f[i] <= f[k] <=> i <= k)
    <3>1. f[i] \in Nat /\ f[k] \in Nat
      OBVIOUS
    <3>2. i < k => f[i] < f[k]
      OBVIOUS
    <3>3. k < i => f[k] < f[i]
      OBVIOUS
    <3>4. i = k \/ i < k \/ k < i
      OBVIOUS
    <3> QED
      BY <3>1, <3>2, <3>3, <3>4
  <2>2. ASSUME NEW x \in places, x <= f[k] PROVE x \in {f[i] : i \in 1 .. k}
    <3>1. PICK i \in 1 .. n : f[i] = x
      OBVIOUS
    <3>2. i \in 1 .. k
      BY <2>1, <2>2, <3>1
    <3> QED
      BY <3>1, <3>2
  <2>3. ASSUME NEW i \in 1 .. k PROVE f[i] \in places /\ f[i] <= f[k]
    <3>1. i \in 1 .. n /\ i <= k
      OBVIOUS
    <3> QED
      BY <2>1, <3>1
  <2> QED
    BY <2>2, <2>3
<1>5. ASSUME NEW k \in 1 .. n
      PROVE  f[k] = CHOOSE i \in places : Cardinality({j \in places : j <= i}) = k
  <2>1. f[k] \in places /\ Cardinality({j \in places : j <= f[k]}) = k
    <3>1. k \in 0 .. n
      OBVIOUS
    <3> QED
      BY <1>1, <1>4, <3>1
  <2>2. ASSUME NEW x \in places, Cardinality({j \in places : j <= x}) = k PROVE x = f[k]
    <3>1. PICK i \in 1 .. n : f[i] = x
      OBVIOUS
    <3>2. Cardinality({j \in places : j <= f[i]}) = i
      BY <1>1, <1>4
    <3> QED
      BY <2>2, <3>1, <3>2
  <2> QED
    BY <2>1, <2>2
<1> QED
  BY <1>3, <1>5 DEF InOrder

\* And there is one.
LEMMA Ordered ==
  ASSUME NEW b \in Nat, NEW places \in SUBSET (0 .. b)
  PROVE  /\ Increasing(InOrder(places), Cardinality(places), places)
         /\ Cardinality(places) \in Nat /\ IsFiniteSet(places)
<1> DEFINE P == {c \in Nat : \A T \in SUBSET (0 .. c) : \E n \in Nat : \E f : Increasing(f, n, T)}
<1>1. 0 \in P
  <2>1. ASSUME NEW T \in SUBSET (0 .. 0) PROVE \E n \in Nat : \E f : Increasing(f, n, T)
    <3>1. CASE T = {}
      <4>1. Increasing([i \in 1 .. 0 |-> 0], 0, T)
        BY <3>1 DEF Increasing
      <4> QED
        BY <4>1
    <3>2. CASE T = {0}
      <4>1. Increasing([i \in 1 .. 1 |-> 0], 1, T)
        <5>1. \A i, j \in 1 .. 1 : i = j
          OBVIOUS
        <5>2. [i \in 1 .. 1 |-> 0] \in [1 .. 1 -> T]
          BY <3>2
        <5>3. [i \in 1 .. 1 |-> 0][1] = 0 /\ 1 \in 1 .. 1
          OBVIOUS
        <5> QED
          BY <3>2, <5>1, <5>2, <5>3 DEF Increasing
      <4> QED
        BY <4>1
    <3>3. 0 .. 0 = {0}
      OBVIOUS
    <3> QED
      BY <3>1, <3>2, <3>3
  <2> QED
    BY <2>1
<1>2. ASSUME NEW c \in Nat, c \in P PROVE c + 1 \in P
  <2>1. SUFFICES ASSUME NEW T \in SUBSET (0 .. c + 1)
                 PROVE  \E n \in Nat : \E f : Increasing(f, n, T)
    OBVIOUS
  <2>2. PICK U : U = T \ {c + 1}
    OBVIOUS
  <2>3. U \in SUBSET (0 .. c)
    BY <2>2
  <2>9. PICK n \in Nat : \E f : Increasing(f, n, U)
    BY <1>2, <2>3
  <2>4. PICK f : Increasing(f, n, U)
    BY <2>9
  <2>5. CASE c + 1 \notin T
    BY <2>2, <2>4, <2>5
  <2>6. CASE c + 1 \in T
    <3>1. PICK g : g = [i \in 1 .. n + 1 |-> IF i = n + 1 THEN c + 1 ELSE f[i]]
      OBVIOUS
    <3>2. \A i \in 1 .. n : g[i] = f[i] /\ f[i] \in U /\ f[i] \in 0 .. c
      <4>1. \A i \in 1 .. n : i \in 1 .. n + 1 /\ i # n + 1
        OBVIOUS
      <4>2. \A i \in 1 .. n : f[i] \in U
        BY <2>4 DEF Increasing
      <4> QED
        BY <2>3, <3>1, <4>1, <4>2
    <3>3. g[n + 1] = c + 1
      BY <3>1
    <3>4. g \in [1 .. n + 1 -> T]
      <4>1. ASSUME NEW i \in 1 .. n + 1 PROVE g[i] \in T
        <5>1. i = n + 1 \/ i \in 1 .. n
          OBVIOUS
        <5> QED
          BY <2>2, <2>6, <3>2, <3>3, <5>1
      <4> QED
        BY <3>1, <4>1
    <3>5. ASSUME NEW i \in 1 .. n + 1, NEW j \in 1 .. n + 1, i < j PROVE g[i] < g[j]
      <4>1. i \in 1 .. n
        BY <3>5
      <4>2. CASE j = n + 1
        BY <3>2, <3>3, <4>1, <4>2
      <4>3. CASE j \in 1 .. n
        BY <2>4, <3>2, <3>5, <4>1, <4>3 DEF Increasing
      <4> QED
        BY <4>2, <4>3
    <3>6. ASSUME NEW x \in T PROVE \E i \in 1 .. n + 1 : g[i] = x
      <4>1. CASE x = c + 1
        BY <3>3, <4>1
      <4>2. CASE x \in U
        <5>1. PICK i \in 1 .. n : f[i] = x
          BY <2>4, <4>2 DEF Increasing
        <5> QED
          BY <3>2, <5>1
      <4> QED
        BY <2>2, <4>1, <4>2
    <3>7. Increasing(g, n + 1, T)
      BY <3>4, <3>5, <3>6 DEF Increasing
    <3> QED
      BY <3>7
  <2> QED
    BY <2>5, <2>6
<1> HIDE DEF P
<1>3. b \in P
  BY <1>1, <1>2, Induct
<1>4. PICK n \in Nat : \E f : Increasing(f, n, places)
  BY <1>3 DEF P
<1>5. places \in SUBSET Nat
  OBVIOUS
<1> QED
  BY <1>4, <1>5, OrderIs

\* The order of places is a sequence.
LEMMA OrderSeq ==
  ASSUME NEW n \in Nat, NEW places \in SUBSET Nat, NEW f, Increasing(f, n, places)
  PROVE  f \in Seq(Nat) /\ Len(f) = n /\ DOMAIN f = 1 .. n
<1>1. f \in [1 .. n -> Nat]
  BY DEF Increasing
<1> QED
  BY <1>1

\* Places behind others come behind them in the order.
LEMMA Joined ==
  ASSUME NEW b \in Nat, NEW A \in SUBSET (0 .. b), NEW B \in SUBSET (0 .. b),
         \A x \in A, y \in B : x < y
  PROVE  /\ InOrder(A \cup B) = InOrder(A) \o InOrder(B)
         /\ Cardinality(A \cup B) = Cardinality(A) + Cardinality(B)
<1>1. PICK f, g, m, n : /\ f = InOrder(A) /\ m = Cardinality(A)
                        /\ g = InOrder(B) /\ n = Cardinality(B)
  OBVIOUS
<1>2. m \in Nat /\ n \in Nat /\ Increasing(f, m, A) /\ Increasing(g, n, B)
  BY <1>1, Ordered
<1>3. f \in Seq(Nat) /\ g \in Seq(Nat) /\ Len(f) = m /\ Len(g) = n
  <2>1. A \in SUBSET Nat /\ B \in SUBSET Nat
    OBVIOUS
  <2> QED
    BY <1>2, <2>1, OrderSeq
<1>4. PICK h : h = f \o g
  OBVIOUS
<1>5. /\ h \in Seq(Nat) /\ Len(h) = m + n
      /\ \A i \in 1 .. m + n : h[i] = IF i <= m THEN f[i] ELSE g[i - m]
  BY <1>3, <1>4, ConcatProperties
<1>6. \A i \in 1 .. m : f[i] \in A
  BY <1>2 DEF Increasing
<1>7. \A i \in 1 .. n : g[i] \in B
  BY <1>2 DEF Increasing
<1>8. ASSUME NEW i \in 1 .. m + n
      PROVE  \/ i \in 1 .. m /\ h[i] = f[i]
             \/ i - m \in 1 .. n /\ i > m /\ h[i] = g[i - m]
  BY <1>2, <1>5
<1>9. h \in [1 .. m + n -> A \cup B]
  <2>1. DOMAIN h = 1 .. m + n
    BY <1>5
  <2>2. \A i \in 1 .. m + n : h[i] \in A \cup B
    BY <1>6, <1>7, <1>8
  <2>3. h = [i \in 1 .. m + n |-> h[i]]
    BY <1>5, <2>1
  <2> QED
    BY <2>2, <2>3
<1>10. ASSUME NEW i \in 1 .. m + n, NEW j \in 1 .. m + n, i < j PROVE h[i] < h[j]
  <2>1. CASE j \in 1 .. m
    <3>1. i \in 1 .. m
      BY <1>2, <1>10, <2>1
    <3> QED
      BY <1>2, <1>5, <1>10, <2>1, <3>1 DEF Increasing
  <2>2. CASE i > m
    <3>1. i - m \in 1 .. n /\ j - m \in 1 .. n /\ i - m < j - m /\ ~(i <= m) /\ ~(j <= m)
      BY <1>2, <1>10, <2>2
    <3>2. h[i] = g[i - m] /\ h[j] = g[j - m]
      BY <1>5, <3>1
    <3> QED
      BY <1>2, <3>1, <3>2 DEF Increasing
  <2>3. CASE i \in 1 .. m /\ j > m
    <3>1. h[i] \in A /\ h[j] \in B
      BY <1>2, <1>6, <1>7, <1>8, <2>3
    <3> QED
      BY <3>1
  <2> QED
    BY <1>2, <1>10, <2>1, <2>2, <2>3
<1>11. ASSUME NEW x \in A \cup B PROVE \E i \in 1 .. m + n : h[i] = x
  <2>1. CASE x \in A
    <3>1. PICK i \in 1 .. m : f[i] = x
      BY <1>2, <2>1 DEF Increasing
    <3>2. i \in 1 .. m + n /\ i <= m
      BY <1>2
    <3> QED
      BY <1>5, <3>1, <3>2
  <2>2. CASE x \in B
    <3>1. PICK i \in 1 .. n : g[i] = x
      BY <1>2, <2>2 DEF Increasing
    <3>2. i + m \in 1 .. m + n /\ ~(i + m <= m) /\ (i + m) - m = i
      BY <1>2
    <3>3. h[i + m] = x
      BY <1>5, <3>1, <3>2
    <3> QED
      BY <3>2, <3>3
  <2> QED
    BY <2>1, <2>2
<1>12. Increasing(h, m + n, A \cup B)
  BY <1>9, <1>10, <1>11 DEF Increasing
<1>13. A \cup B \in SUBSET Nat /\ m + n \in Nat
  BY <1>2
<1> QED
  BY <1>1, <1>4, <1>12, <1>13, OrderIs

\* Places that are moved keep their order.
LEMMA Moved ==
  ASSUME NEW b \in Nat, NEW A \in SUBSET (0 .. b), NEW k \in Nat
  PROVE  /\ \A i \in 1 .. Cardinality(A) : InOrder({x + k : x \in A})[i] = InOrder(A)[i] + k
         /\ Cardinality({x + k : x \in A}) = Cardinality(A)
<1>1. PICK f, m, B : f = InOrder(A) /\ m = Cardinality(A) /\ B = {x + k : x \in A}
  OBVIOUS
<1>2. m \in Nat /\ Increasing(f, m, A)
  BY <1>1, Ordered
<1>3. \A i \in 1 .. m : f[i] \in A /\ f[i] \in Nat
  <2>1. \A i \in 1 .. m : f[i] \in A
    BY <1>2 DEF Increasing
  <2>2. \A x \in A : x \in Nat
    OBVIOUS
  <2> QED
    BY <2>1, <2>2
<1>4. PICK h : h = [i \in 1 .. m |-> f[i] + k]
  OBVIOUS
<1>5. h \in [1 .. m -> B]
  BY <1>1, <1>3, <1>4
<1>6. ASSUME NEW i \in 1 .. m, NEW j \in 1 .. m, i < j PROVE h[i] < h[j]
  <2>1. f[i] < f[j]
    BY <1>2, <1>6 DEF Increasing
  <2> QED
    BY <1>3, <1>4, <2>1
<1>7. ASSUME NEW y \in B PROVE \E i \in 1 .. m : h[i] = y
  <2>1. PICK x \in A : y = x + k
    BY <1>1
  <2>2. PICK i \in 1 .. m : f[i] = x
    BY <1>2 DEF Increasing
  <2> QED
    BY <1>4, <2>1, <2>2
<1>8. Increasing(h, m, B)
  BY <1>5, <1>6, <1>7 DEF Increasing
<1>9. B \in SUBSET Nat
  BY <1>1
<1>10. InOrder(B) = h /\ Cardinality(B) = m
  BY <1>2, <1>8, <1>9, OrderIs
<1>11. \A i \in 1 .. m : InOrder(B)[i] = f[i] + k
  BY <1>4, <1>10
<1> QED
  BY <1>1, <1>10, <1>11

-----------------------------------------------------------------------------
(* Quotes and escapes, read from the left.                                 *)

Readers == [quote : Quotes \cup {None}, escaped : BOOLEAN]

\* One character leads from one such state to another.
LEMMA ScanType == \A st \in Readers, c \in Chars : Scan(st, c) \in Readers
  BY DEF Scan, Readers, Quotes, None

\* Texts behind each other, and texts that are the same.
LEMMA TextJoin ==
  \A s, t \in Texts :
    /\ s \o t \in Texts /\ Len(s \o t) = Len(s) + Len(t)
    /\ \A i \in 1 .. Len(s) + Len(t) : (s \o t)[i] = IF i <= Len(s) THEN s[i] ELSE t[i - Len(s)]
  BY DEF Texts

\* Texts with the same characters are the same.
LEMMA TextEqual ==
  \A s, t \in Texts : Len(s) = Len(t) /\ (\A i \in 1 .. Len(s) : s[i] = t[i]) => s = t
  BY SeqEqual DEF Texts

\* Short texts.
LEMMA TextShort ==
  /\ <<>> \in Texts /\ Len(<<>>) = 0
  /\ \A c \in Chars : <<c>> \in Texts /\ Len(<<c>>) = 1 /\ <<c>>[1] = c
  /\ \A b, c \in Chars :
       <<b, c>> \in Texts /\ Len(<<b, c>>) = 2 /\ <<b, c>>[1] = b /\ <<b, c>>[2] = c
<1>1. ASSUME NEW T PROVE <<>> \in Seq(T) /\ Len(<<>>) = 0
  OBVIOUS
<1>2. ASSUME NEW T, NEW c \in T PROVE <<c>> \in Seq(T) /\ Len(<<c>>) = 1 /\ <<c>>[1] = c
  OBVIOUS
<1>3. ASSUME NEW T, NEW b \in T, NEW c \in T
      PROVE  <<b, c>> \in Seq(T) /\ Len(<<b, c>>) = 2 /\ <<b, c>>[1] = b /\ <<b, c>>[2] = c
  OBVIOUS
<1>4. <<>> \in Texts /\ Len(<<>>) = 0
  BY <1>1 DEF Texts
<1>5. \A c \in Chars : <<c>> \in Texts /\ Len(<<c>>) = 1 /\ <<c>>[1] = c
  BY <1>2 DEF Texts
<1>6. \A b, c \in Chars :
        <<b, c>> \in Texts /\ Len(<<b, c>>) = 2 /\ <<b, c>>[1] = b /\ <<b, c>>[2] = c
  BY <1>3 DEF Texts
<1> QED
  BY <1>4, <1>5, <1>6

\* Two characters.
LEMMA TextPair == \A b, c \in Chars : <<b>> \o <<c>> = <<b, c>>
<1>1. ASSUME NEW T, NEW b \in T, NEW c \in T PROVE <<b>> \o <<c>> = <<b, c>>
  <2>1. <<b>> \in Seq(T) /\ <<c>> \in Seq(T) /\ <<b, c>> \in Seq(T)
    OBVIOUS
  <2>2. PICK x, y, z : x = <<b>> /\ y = <<c>> /\ z = <<b, c>>
    OBVIOUS
  <2>3. /\ x \in Seq(T) /\ Len(x) = 1 /\ x[1] = b /\ y \in Seq(T) /\ Len(y) = 1 /\ y[1] = c
        /\ z \in Seq(T) /\ Len(z) = 2 /\ z[1] = b /\ z[2] = c
    BY <2>1, <2>2
  <2>4. x \o y \in Seq(T) /\ Len(x \o y) = 2 /\ (x \o y)[1] = b /\ (x \o y)[2] = c
    <3>1. /\ x \o y \in Seq(T) /\ Len(x \o y) = Len(x) + Len(y)
          /\ \A i \in 1 .. Len(x) + Len(y) : (x \o y)[i] = IF i <= Len(x) THEN x[i] ELSE y[i - Len(x)]
      BY <2>3, ConcatProperties
    <3> HIDE <2>2
    <3> QED
      BY <2>3, <3>1
  <2>5. \A i \in 1 .. 2 : i = 1 \/ i = 2
    OBVIOUS
  <2>6. \A i \in 1 .. Len(x \o y) : (x \o y)[i] = z[i]
    BY <2>3, <2>4, <2>5
  <2>7. x \o y = z
    BY <2>3, <2>4, <2>6, SeqEqual
  <2> QED
    BY <2>2, <2>7
<1> QED
  BY <1>1

\* A sequence and one more.
LEMMA OneMoreOf ==
  ASSUME NEW T, NEW s \in Seq(T), NEW x \in T
  PROVE  /\ Append(s, x) \in Seq(T) /\ Len(Append(s, x)) = Len(s) + 1
         /\ \A i \in 1 .. Len(s) : Append(s, x)[i] = s[i]
         /\ Append(s, x)[Len(s) + 1] = x
  OBVIOUS

\* Parts of texts.
LEMMA TextPart ==
  ASSUME NEW s \in Texts, NEW a \in Nat \ {0}, NEW b \in Nat, a <= b + 1, b <= Len(s)
  PROVE  /\ SubSeq(s, a, b) \in Texts /\ Len(SubSeq(s, a, b)) = b + 1 - a
         /\ \A k \in 1 .. b + 1 - a : SubSeq(s, a, b)[k] = s[a + k - 1]
<1>1. \A i \in a .. b : s[i] \in Chars
  BY DEF Texts
<1> QED
  BY <1>1, SubSeqProperties DEF Texts

\* What is read so far depends on what was before and on the next character.
LEMMA Reading ==
  ASSUME NEW s \in Texts
  PROVE  /\ Before(s, 1) = Open
         /\ \A i \in 1 .. Len(s) : Before(s, i + 1) = Scan(Before(s, i), s[i])
         /\ \A i \in 1 .. Len(s) + 1 : Before(s, i) \in Readers
<1> DEFINE m == Len(s)
           Is(f) == f = [n \in 0 .. m |-> IF n = 0 THEN Open ELSE Scan(f[n - 1], s[n])]
<1>1. m \in Nat /\ \A n \in 1 .. m : s[n] \in Chars
  BY DEF Texts
<1>2. Open \in Readers
  BY DEF Open, Readers
<1> HIDE DEF m
<1>3. PICK go : go = [n \in 1 .. m |-> [st \in Readers |-> Scan(st, s[n])]]
  OBVIOUS
<1>4. go \in [1 .. m -> [Readers -> Readers]]
  BY <1>1, <1>3, ScanType
<1>17. go \in Ways(m, Readers)
  BY <1>4 DEF Ways
<1>18. Goings(Open, m, go, Readers) # {}
  BY <1>1, <1>2, <1>17, Goes
<1>5. PICK f \in [0 .. m -> Readers] :
        f[0] = Open /\ \A n \in 1 .. m : f[n] = go[n][f[n - 1]]
  BY <1>18 DEF Goings
<1>6. Is(f)
  <2>1. ASSUME NEW n \in 0 .. m PROVE f[n] = IF n = 0 THEN Open ELSE Scan(f[n - 1], s[n])
    <3>1. CASE n = 0
      BY <1>5, <3>1
    <3>2. CASE n # 0
      <4>1. n \in 1 .. m /\ n - 1 \in 0 .. m
        BY <1>1, <3>2
      <4>2. f[n - 1] \in Readers /\ f[n] = go[n][f[n - 1]]
        BY <1>5, <4>1
      <4> QED
        BY <1>3, <3>2, <4>1, <4>2
    <3> QED
      BY <3>1, <3>2
  <2> QED
    BY <1>5, <2>1
<1>7. PICK g : g = CHOOSE x : Is(x)
  OBVIOUS
<1>8. Is(g)
  BY <1>6, <1>7
<1>9. \A i : Before(s, i) = g[i - 1]
  BY <1>7 DEF Before, m
<1>10. g[0] = Open /\ \A n \in 1 .. m : g[n] = Scan(g[n - 1], s[n])
  BY <1>1, <1>8
<1> HIDE DEF Is
<1> DEFINE P == {n \in Nat : n <= m => g[n] \in Readers}
<1>11. 0 \in P
  BY <1>2, <1>10
<1>12. ASSUME NEW n \in Nat, n \in P PROVE n + 1 \in P
  <2>1. SUFFICES ASSUME n + 1 <= m PROVE g[n + 1] \in Readers
    OBVIOUS
  <2>2. n + 1 \in 1 .. m /\ (n + 1) - 1 = n /\ g[n] \in Readers
    BY <1>1, <1>12, <2>1
  <2>3. g[n + 1] = Scan(g[n], s[n + 1])
    BY <1>10, <2>2
  <2> QED
    BY <1>1, <2>2, <2>3, ScanType
<1> HIDE DEF P
<1>13. \A n \in Nat : n \in P
  BY <1>11, <1>12, Induct
<1>14. Before(s, 1) = Open
  BY <1>9, <1>10
<1>15. ASSUME NEW i \in 1 .. m PROVE Before(s, i + 1) = Scan(Before(s, i), s[i])
  <2>1. (i + 1) - 1 = i
    BY <1>1
  <2> QED
    BY <1>9, <1>10, <2>1
<1>16. ASSUME NEW i \in 1 .. m + 1 PROVE Before(s, i) \in Readers
  <2>1. i - 1 \in Nat /\ i - 1 <= m
    BY <1>1
  <2> QED
    BY <1>9, <1>13, <2>1 DEF P
<1> QED
  BY <1>14, <1>15, <1>16 DEF m

\* A stretch of t, up to b, that is in s too, k characters further on, and begins alike there.
Alike(s, t, k, a, b) ==
  /\ k \in Nat /\ a \in Nat \ {0} /\ b \in Nat
  /\ a <= b /\ b <= Len(t) + 1 /\ b + k <= Len(s) + 1
  /\ Before(s, a + k) = Before(t, a)
  /\ \A i \in a .. b - 1 : s[i + k] = t[i]
ReadAlike(s, t, k, a, b) ==
  /\ \A i \in a .. b : Before(s, i + k) = Before(t, i)
  /\ \A i \in a .. b - 1 : Mark(s, i + k) = Mark(t, i) /\ Plain(s, i + k) = Plain(t, i)

\* It is read alike.
LEMMA SameReading ==
  ASSUME NEW s \in Texts, NEW t \in Texts, NEW k, NEW a, NEW b, Alike(s, t, k, a, b)
  PROVE  ReadAlike(s, t, k, a, b)
<1> USE DEF Alike, ReadAlike
<1>1. Len(s) \in Nat /\ Len(t) \in Nat
  BY DEF Texts
<1> DEFINE P == {n \in Nat : a + n <= b => Before(s, a + n + k) = Before(t, a + n)}
<1>2. 0 \in P
  OBVIOUS
<1>3. ASSUME NEW n \in Nat, n \in P PROVE n + 1 \in P
  <2>1. SUFFICES ASSUME a + n + 1 <= b PROVE Before(s, a + n + 1 + k) = Before(t, a + n + 1)
    OBVIOUS
  <2>2. PICK i : i = a + n
    OBVIOUS
  <2>3. i \in 1 .. Len(t) /\ i + k \in 1 .. Len(s) /\ i \in a .. b - 1
    BY <1>1, <2>1, <2>2
  <2>4. Before(s, i + k) = Before(t, i)
    BY <1>3, <2>1, <2>2
  <2>5. Before(s, i + k + 1) = Before(t, i + 1)
    BY <2>3, <2>4, Reading
  <2>6. i + k + 1 = a + n + 1 + k /\ i + 1 = a + n + 1
    BY <2>2
  <2> QED
    BY <2>5, <2>6
<1> HIDE DEF P
<1>4. \A n \in Nat : n \in P
  BY <1>2, <1>3, Induct
<1>5. ASSUME NEW i \in a .. b PROVE Before(s, i + k) = Before(t, i)
  <2>1. i - a \in Nat /\ a + (i - a) = i /\ i <= b
    OBVIOUS
  <2> QED
    BY <1>4, <2>1 DEF P
<1>6. ASSUME NEW i \in a .. b - 1
      PROVE  Mark(s, i + k) = Mark(t, i) /\ Plain(s, i + k) = Plain(t, i)
  <2>1. Before(s, i + k) = Before(t, i) /\ s[i + k] = t[i]
    BY <1>5
  <2> QED
    BY <2>1 DEF Mark, Plain
<1> QED
  BY <1>5, <1>6

\* In particular the beginning of a text, and what follows a stretch that leaves nothing open.
LEMMA ReadOn ==
  ASSUME NEW s \in Texts, NEW t \in Texts
  PROVE  /\ s \o t \in Texts /\ Len(s \o t) = Len(s) + Len(t)
         /\ \A i \in 1 .. Len(s) : (s \o t)[i] = s[i]
         /\ \A i \in 1 .. Len(t) : (s \o t)[i + Len(s)] = t[i]
         /\ \A i \in 1 .. Len(s) + 1 : Before(s \o t, i) = Before(s, i)
         /\ \A i \in 1 .. Len(s) : Mark(s \o t, i) = Mark(s, i) /\ Plain(s \o t, i) = Plain(s, i)
         /\ Scanned(s) = Open =>
              /\ \A i \in 1 .. Len(t) + 1 : Before(s \o t, i + Len(s)) = Before(t, i)
              /\ \A i \in 1 .. Len(t) :
                   Mark(s \o t, i + Len(s)) = Mark(t, i) /\ Plain(s \o t, i + Len(s)) = Plain(t, i)
<1>1. PICK u, m, n : u = s \o t /\ m = Len(s) /\ n = Len(t)
  OBVIOUS
<1>2. u \in Texts /\ Len(u) = m + n /\ m \in Nat /\ n \in Nat
  BY <1>1 DEF Texts
<1>3. \A i \in 1 .. m : u[i] = s[i]
  BY <1>1 DEF Texts
<1>4. \A i \in 1 .. n : u[i + m] = t[i]
  BY <1>1 DEF Texts
<1>5. Before(u, 1) = Open /\ Before(s, 1) = Open /\ Before(t, 1) = Open
  BY <1>2, Reading
<1>6. /\ \A i \in 1 .. m + 1 : Before(u, i) = Before(s, i)
      /\ \A i \in 1 .. m : Mark(u, i) = Mark(s, i) /\ Plain(u, i) = Plain(s, i)
  <2>1. \A i \in 1 .. (m + 1) - 1 : u[i + 0] = s[i]
    BY <1>2, <1>3
  <2>2. Before(u, 1 + 0) = Before(s, 1)
    BY <1>5
  <2>3. Alike(u, s, 0, 1, m + 1)
    BY <1>1, <1>2, <2>1, <2>2 DEF Alike
  <2>5. ReadAlike(u, s, 0, 1, m + 1)
    BY <1>2, <2>3, SameReading
  <2>4. /\ \A i \in 1 .. m + 1 : Before(u, i + 0) = Before(s, i)
        /\ \A i \in 1 .. (m + 1) - 1 :
             Mark(u, i + 0) = Mark(s, i) /\ Plain(u, i + 0) = Plain(s, i)
    BY <2>5 DEF ReadAlike
  <2> QED
    BY <1>2, <2>4
<1>7. ASSUME Scanned(s) = Open
      PROVE  /\ \A i \in 1 .. n + 1 : Before(u, i + m) = Before(t, i)
             /\ \A i \in 1 .. n : Mark(u, i + m) = Mark(t, i) /\ Plain(u, i + m) = Plain(t, i)
  <2>1. Before(u, 1 + m) = Before(t, 1)
    <3>1. m + 1 \in 1 .. m + 1 /\ 1 + m = m + 1
      BY <1>2
    <3>2. Before(u, m + 1) = Before(s, m + 1)
      BY <1>6, <3>1
    <3> QED
      BY <1>1, <1>5, <1>7, <3>1, <3>2 DEF Scanned
  <2>2. \A i \in 1 .. (n + 1) - 1 : u[i + m] = t[i]
    BY <1>2, <1>4
  <2>3. Alike(u, t, m, 1, n + 1)
    BY <1>1, <1>2, <2>1, <2>2 DEF Alike
  <2>5. ReadAlike(u, t, m, 1, n + 1)
    BY <1>2, <2>3, SameReading
  <2>4. /\ \A i \in 1 .. n + 1 : Before(u, i + m) = Before(t, i)
        /\ \A i \in 1 .. (n + 1) - 1 :
             Mark(u, i + m) = Mark(t, i) /\ Plain(u, i + m) = Plain(t, i)
    BY <2>5 DEF ReadAlike
  <2> QED
    BY <1>2, <2>4
<1> QED
  BY <1>1, <1>2, <1>3, <1>4, <1>6, <1>7

-----------------------------------------------------------------------------
(* What characters say.                                                    *)

\* A stretch of a text, which may be empty.
Stretch(s, a, b) == a \in Nat \ {0} /\ b \in Nat /\ a <= b + 1 /\ b <= Len(s)
Kept(s, a, b) == {i \in a .. b : ~Mark(s, i)}

\* What is said is a text, of the characters that are no marks, in their order.
LEMMA SaidIs ==
  ASSUME NEW s \in Texts, NEW a, NEW b, Stretch(s, a, b)
  PROVE  /\ Cardinality(Kept(s, a, b)) \in Nat
         /\ Increasing(InOrder(Kept(s, a, b)), Cardinality(Kept(s, a, b)), Kept(s, a, b))
         /\ \A k \in 1 .. Cardinality(Kept(s, a, b)) :
              Said(s, a, b)[k] = s[InOrder(Kept(s, a, b))[k]]
         /\ Said(s, a, b) \in Texts /\ Len(Said(s, a, b)) = Cardinality(Kept(s, a, b))
<1>1. PICK f, m, T : T = Kept(s, a, b) /\ f = InOrder(T) /\ m = Cardinality(T)
  OBVIOUS
<1>2. T \in SUBSET (0 .. b) /\ b \in Nat
  BY <1>1 DEF Kept, Stretch
<1>3. m \in Nat /\ Increasing(f, m, T)
  BY <1>1, <1>2, Ordered
<1>4. f \in [1 .. m -> T]
  BY <1>3 DEF Increasing
<1>5. Said(s, a, b) = [k \in 1 .. m |-> s[f[k]]]
  <2>1. f = InOrder({i \in a .. b : ~Mark(s, i)})
    BY <1>1 DEF Kept
  <2>2. DOMAIN f = 1 .. m
    BY <1>4
  <2> QED
    BY <2>1, <2>2 DEF Said
<1>6. \A k \in 1 .. m : s[f[k]] \in Chars
  <2>1. \A i \in T : i \in 1 .. Len(s)
    BY <1>1 DEF Kept, Stretch, Texts
  <2> QED
    BY <1>4, <2>1 DEF Texts
<1>7. [k \in 1 .. m |-> s[f[k]]] \in Seq(Chars) /\ Len([k \in 1 .. m |-> s[f[k]]]) = m
  BY <1>3, <1>6
<1> QED
  BY <1>1, <1>3, <1>5, <1>7 DEF Texts

\* Two stretches, one behind the other, say what each says.
LEMMA SaidJoin ==
  ASSUME NEW s \in Texts, NEW a, NEW b, NEW c, NEW d, d = b + 1,
         Stretch(s, a, b), Stretch(s, d, c)
  PROVE  Said(s, a, c) = Said(s, a, b) \o Said(s, d, c)
<1>1. PICK A, B, C : A = Kept(s, a, b) /\ B = Kept(s, b + 1, c) /\ C = Kept(s, a, c)
  OBVIOUS
<1>2. a \in Nat \ {0} /\ b \in Nat /\ c \in Nat /\ a <= b + 1 /\ b <= c /\ c <= Len(s)
  BY DEF Stretch
<1>3. Stretch(s, a, c)
  BY <1>2 DEF Stretch
<1>4. C = A \cup B
  BY <1>1, <1>2 DEF Kept
<1>5. A \in SUBSET (0 .. c) /\ B \in SUBSET (0 .. c) /\ \A x \in A, y \in B : x < y
  BY <1>1, <1>2 DEF Kept
<1>6. InOrder(C) = InOrder(A) \o InOrder(B) /\ Cardinality(C) = Cardinality(A) + Cardinality(B)
  BY <1>2, <1>4, <1>5, Joined
<1>7. PICK f, g, h, m, n : /\ f = InOrder(A) /\ g = InOrder(B) /\ h = InOrder(C)
                           /\ m = Cardinality(A) /\ n = Cardinality(B)
  OBVIOUS
<1>8. /\ m \in Nat /\ Increasing(f, m, A) /\ (\A k \in 1 .. m : Said(s, a, b)[k] = s[f[k]])
      /\ Said(s, a, b) \in Texts /\ Len(Said(s, a, b)) = m
  BY <1>1, <1>7, SaidIs
<1>9. /\ n \in Nat /\ Increasing(g, n, B) /\ (\A k \in 1 .. n : Said(s, b + 1, c)[k] = s[g[k]])
      /\ Said(s, b + 1, c) \in Texts /\ Len(Said(s, b + 1, c)) = n
  BY <1>1, <1>7, SaidIs
<1>10. /\ \A k \in 1 .. m + n : Said(s, a, c)[k] = s[h[k]]
       /\ Said(s, a, c) \in Texts /\ Len(Said(s, a, c)) = m + n
  <2>1. PICK p : p = Cardinality(C)
    OBVIOUS
  <2>2. /\ \A k \in 1 .. p : Said(s, a, c)[k] = s[h[k]]
        /\ Said(s, a, c) \in Texts /\ Len(Said(s, a, c)) = p
    BY <1>1, <1>3, <1>7, <2>1, SaidIs
  <2>3. p = m + n
    BY <1>6, <1>7, <2>1
  <2> QED
    BY <2>2, <2>3
<1>11. \A k \in 1 .. m + n : h[k] = IF k <= m THEN f[k] ELSE g[k - m]
  <2>1. A \in SUBSET Nat /\ B \in SUBSET Nat
    BY <1>2, <1>5
  <2>2. f \in Seq(Nat) /\ g \in Seq(Nat) /\ Len(f) = m /\ Len(g) = n
    BY <1>8, <1>9, <2>1, OrderSeq
  <2>3. h = f \o g
    BY <1>6, <1>7
  <2> QED
    BY <2>2, <2>3, ConcatProperties
<1>12. PICK u, v, w : u = Said(s, a, b) /\ v = Said(s, b + 1, c) /\ w = Said(s, a, c)
  OBVIOUS
<1>13. u \o v \in Texts /\ Len(u \o v) = m + n
       /\ \A k \in 1 .. m + n : (u \o v)[k] = IF k <= m THEN u[k] ELSE v[k - m]
  BY <1>8, <1>9, <1>12, TextJoin
<1>14. ASSUME NEW k \in 1 .. m + n PROVE w[k] = (u \o v)[k]
  <2>1. w[k] = s[h[k]]
    BY <1>10, <1>12
  <2>2. CASE k <= m
    <3>1. k \in 1 .. m
      BY <1>8, <1>9, <2>2
    <3> QED
      BY <1>8, <1>11, <1>12, <1>13, <2>1, <2>2, <3>1
  <2>3. CASE ~(k <= m)
    <3>1. k - m \in 1 .. n
      BY <1>8, <1>9, <2>3
    <3> QED
      BY <1>9, <1>11, <1>12, <1>13, <2>1, <2>3, <3>1
  <2> QED
    BY <2>2, <2>3
<1> QED
  BY <1>10, <1>12, <1>13, <1>14, TextEqual

\* A stretch says the same elsewhere, where it is read alike.
LEMMA SaidAlike ==
  ASSUME NEW s \in Texts, NEW t \in Texts, NEW k, NEW a, NEW b,
         Alike(s, t, k, a, b + 1), Stretch(t, a, b)
  PROVE  Said(s, a + k, b + k) = Said(t, a, b)
<1>1. /\ k \in Nat /\ a \in Nat \ {0} /\ b \in Nat /\ a <= b + 1 /\ b <= Len(t) /\ b + k <= Len(s)
      /\ Len(s) \in Nat /\ Len(t) \in Nat
  BY DEF Alike, Stretch, Texts
<1>2. \A i \in a .. b : s[i + k] = t[i] /\ Mark(s, i + k) = Mark(t, i)
  <2>1. ReadAlike(s, t, k, a, b + 1)
    BY SameReading
  <2>2. (b + 1) - 1 = b
    BY <1>1
  <2> QED
    BY <2>1, <2>2 DEF ReadAlike, Alike
<1>3. PICK A, B : A = Kept(t, a, b) /\ B = Kept(s, a + k, b + k)
  OBVIOUS
<1>4. B = {x + k : x \in A}
  <2>1. ASSUME NEW y \in B PROVE y \in {x + k : x \in A}
    <3>1. y \in (a + k) .. (b + k) /\ ~Mark(s, y)
      BY <1>3 DEF Kept
    <3>2. y - k \in a .. b /\ (y - k) + k = y
      BY <1>1, <3>1
    <3>3. y - k \in A
      BY <1>2, <1>3, <3>1, <3>2 DEF Kept
    <3> QED
      BY <3>2, <3>3
  <2>2. ASSUME NEW x \in A PROVE x + k \in B
    <3>1. x \in a .. b /\ ~Mark(t, x)
      BY <1>3 DEF Kept
    <3>2. x + k \in (a + k) .. (b + k)
      BY <1>1, <3>1
    <3> QED
      BY <1>2, <1>3, <3>1, <3>2 DEF Kept
  <2> QED
    BY <2>1, <2>2
<1>5. A \in SUBSET (0 .. b)
  BY <1>1, <1>3 DEF Kept
<1>6. PICK f, m : f = InOrder(A) /\ m = Cardinality(A)
  OBVIOUS
<1>7. (\A i \in 1 .. m : InOrder(B)[i] = f[i] + k) /\ Cardinality(B) = m
  BY <1>1, <1>4, <1>5, <1>6, Moved
<1>8. /\ m \in Nat /\ Increasing(f, m, A) /\ \A i \in 1 .. m : Said(t, a, b)[i] = t[f[i]]
      /\ Said(t, a, b) \in Texts /\ Len(Said(t, a, b)) = m
  BY <1>3, <1>6, SaidIs
<1>9. Stretch(s, a + k, b + k)
  BY <1>1 DEF Stretch
<1>10. /\ \A i \in 1 .. m : Said(s, a + k, b + k)[i] = s[InOrder(B)[i]]
       /\ Said(s, a + k, b + k) \in Texts /\ Len(Said(s, a + k, b + k)) = m
  BY <1>3, <1>7, <1>9, SaidIs
<1>11. \A i \in 1 .. m : s[InOrder(B)[i]] = t[f[i]]
  <2>1. \A i \in 1 .. m : f[i] \in a .. b
    BY <1>3, <1>8 DEF Increasing, Kept
  <2> QED
    BY <1>2, <1>7, <2>1
<1> QED
  BY <1>8, <1>10, <1>11, TextEqual

\* Without quotes and escapes a stretch says its characters.
LEMMA SaidPlainly ==
  ASSUME NEW s \in Texts, NEW a, NEW b, Stretch(s, a, b), \A i \in a .. b : ~Mark(s, i)
  PROVE  Said(s, a, b) = SubSeq(s, a, b)
<1>1. a \in Nat \ {0} /\ b \in Nat /\ a <= b + 1 /\ b <= Len(s) /\ Len(s) \in Nat
  BY DEF Stretch, Texts
<1>2. Kept(s, a, b) = a .. b
  BY DEF Kept
<1>3. PICK n : n = b + 1 - a
  OBVIOUS
<1>4. n \in Nat
  BY <1>1, <1>3
<1>5. PICK f : f = [k \in 1 .. n |-> a + k - 1]
  OBVIOUS
<1>6. Increasing(f, n, a .. b)
  <2>1. f \in [1 .. n -> a .. b]
    BY <1>1, <1>3, <1>5
  <2>2. \A i, j \in 1 .. n : i < j => f[i] < f[j]
    BY <1>1, <1>4, <1>5
  <2>3. ASSUME NEW x \in a .. b PROVE \E i \in 1 .. n : f[i] = x
    <3>1. x + 1 - a \in 1 .. n /\ a + (x + 1 - a) - 1 = x
      BY <1>1, <1>3
    <3> QED
      BY <1>5, <3>1
  <2> QED
    BY <2>1, <2>2, <2>3 DEF Increasing
<1>7. InOrder(a .. b) = f /\ Cardinality(a .. b) = n
  <2>1. a .. b \in SUBSET Nat
    BY <1>1
  <2> QED
    BY <1>4, <1>6, <2>1, OrderIs
<1>8. /\ \A k \in 1 .. n : Said(s, a, b)[k] = s[f[k]]
      /\ Said(s, a, b) \in Texts /\ Len(Said(s, a, b)) = n
  BY <1>2, <1>7, SaidIs
<1>9. \A i \in a .. b : s[i] \in Chars
  BY <1>1 DEF Texts
<1>10. /\ SubSeq(s, a, b) \in Texts /\ Len(SubSeq(s, a, b)) = n
       /\ \A k \in 1 .. n : SubSeq(s, a, b)[k] = s[a + k - 1]
  BY <1>1, <1>3, <1>9, SubSeqProperties DEF Texts
<1> QED
  BY <1>5, <1>8, <1>10, TextEqual

\* One character more is said, unless it is a mark.
LEMMA SaidOne ==
  ASSUME NEW s \in Texts, NEW i \in 1 .. Len(s)
  PROVE  Said(s, i, i) = IF Mark(s, i) THEN <<>> ELSE <<s[i]>>
<1>1. Stretch(s, i, i)
  BY DEF Stretch, Texts
<1>2. CASE Mark(s, i)
  <2>1. Kept(s, i, i) = {}
    BY <1>2 DEF Kept
  <2>2. Cardinality(Kept(s, i, i)) = 0
    BY <2>1, FS_EmptySet
  <2>3. Said(s, i, i) \in Texts /\ Len(Said(s, i, i)) = 0
    BY <1>1, <2>2, SaidIs
  <2> QED
    BY <1>2, <2>3, EmptySeq DEF Texts
<1>3. CASE ~Mark(s, i)
  <2>1. \A j \in i .. i : j = i
    OBVIOUS
  <2>2. Said(s, i, i) = SubSeq(s, i, i)
    BY <1>1, <1>3, <2>1, SaidPlainly
  <2>3. SubSeq(s, i, i) = <<s[i]>>
    <3>1. i \in Nat \ {0} /\ i <= Len(s) /\ s[i] \in Chars
      BY DEF Texts
    <3>2. SubSeq(s, i, i) \in Texts /\ Len(SubSeq(s, i, i)) = 1 /\ SubSeq(s, i, i)[1] = s[i]
      BY <3>1, TextPart
    <3>3. <<s[i]>> \in Texts /\ Len(<<s[i]>>) = 1 /\ <<s[i]>>[1] = s[i]
      BY <3>1, TextShort
    <3>4. \A k \in 1 .. 1 : k = 1
      OBVIOUS
    <3> QED
      BY <3>2, <3>3, <3>4, TextEqual
  <2> QED
    BY <1>3, <2>2, <2>3
<1> QED
  BY <1>2, <1>3

-----------------------------------------------------------------------------
(* Writing.                                                                *)

\* The texts up to each of several, one behind the other.
Flat(parts, f) ==
  /\ f \in [0 .. Len(parts) -> Texts]
  /\ f[0] = <<>>
  /\ \A i \in 1 .. Len(parts) : f[i] = f[i - 1] \o parts[i]
  /\ FlattenSeq(parts) = f[Len(parts)]

\* Flattening is adding up from the left.
LEMMA Flattened ==
  ASSUME NEW parts \in Seq(Texts)
  PROVE  \E f : Flat(parts, f)
<1> DEFINE n == Len(parts)
           Is(f) == f = [i \in 1 .. n |-> IF i = 1 THEN parts[i] ELSE f[i - 1] \o parts[i]]
<1>1. n \in Nat /\ \A i \in 1 .. n : parts[i] \in Texts
  OBVIOUS
<1>2. <<>> \in Texts
  BY DEF Texts
<1>3. CASE n = 0
  <2>1. parts = <<>> /\ FlattenSeq(parts) = <<>>
    BY <1>3 DEF FlattenSeq
  <2>2. PICK f : f = [i \in 0 .. 0 |-> <<>>]
    OBVIOUS
  <2>3. Flat(parts, f)
    BY <1>2, <1>3, <2>1, <2>2 DEF Flat
  <2> QED
    BY <2>3
<1>4. CASE n # 0
  <2> HIDE DEF n
  <2>1. PICK go : go = [i \in 1 .. n |-> [t \in Texts |-> t \o parts[i]]]
    OBVIOUS
  <2>2. \A i \in 1 .. n : \A t \in Texts : t \o parts[i] \in Texts
    BY <1>1, TextJoin
  <2>3. go \in Ways(n, Texts)
    BY <1>1, <2>1, <2>2 DEF Ways
  <2>4. Goings(<<>>, n, go, Texts) # {}
    BY <1>1, <1>2, <2>3, Goes
  <2>5. PICK f \in [0 .. n -> Texts] : f[0] = <<>> /\ \A i \in 1 .. n : f[i] = go[i][f[i - 1]]
    BY <2>4 DEF Goings
  <2>6. \A i \in 1 .. n : i - 1 \in 0 .. n /\ f[i] = f[i - 1] \o parts[i]
    <3>1. \A i \in 1 .. n : i - 1 \in 0 .. n
      BY <1>1
    <3>2. \A i \in 1 .. n : f[i - 1] \in Texts
      BY <3>1
    <3> QED
      BY <2>1, <2>5, <3>1, <3>2
  <2>7. PICK g : g = [i \in 1 .. n |-> f[i]]
    OBVIOUS
  <2>8. Is(g)
    <3>1. ASSUME NEW i \in 1 .. n
          PROVE  g[i] = IF i = 1 THEN parts[i] ELSE g[i - 1] \o parts[i]
      <4>1. CASE i = 1
        <5>1. f[1] = <<>> \o parts[1] /\ parts[1] \in Texts
          <6>1. 1 \in 1 .. n /\ 1 - 1 = 0
            BY <4>1
          <6>2. f[1] = f[1 - 1] \o parts[1]
            BY <2>6, <6>1
          <6> QED
            BY <1>1, <2>5, <6>1, <6>2
        <5>2. <<>> \o parts[1] = parts[1]
          BY <5>1, ConcatEmptySeq DEF Texts
        <5> QED
          BY <2>7, <4>1, <5>1, <5>2
      <4>2. CASE i # 1
        <5>1. i - 1 \in 1 .. n
          BY <1>1, <4>2
        <5> QED
          BY <2>6, <2>7, <4>2, <5>1
      <4> QED
        BY <4>1, <4>2
    <3> QED
      BY <2>7, <3>1
  <2>9. PICK h : h = CHOOSE x : Is(x)
    OBVIOUS
  <2>10. Is(h)
    BY <2>8, <2>9
  <2>11. FlattenSeq(parts) = h[n]
    BY <1>4, <2>9 DEF FlattenSeq, n
  <2>12. \A i \in 1 .. n : h[i] = IF i = 1 THEN parts[i] ELSE h[i - 1] \o parts[i]
    BY <2>10
  <2> HIDE DEF Is
  <2> DEFINE P == {i \in Nat : i + 1 <= n => h[i + 1] = f[i + 1]}
  <2>13. 0 \in P
    <3>1. 1 \in 1 .. n
      BY <1>1, <1>4
    <3>2. f[1] = <<>> \o parts[1] /\ parts[1] \in Texts
      <4>1. f[1] = f[1 - 1] \o parts[1]
        BY <2>6, <3>1
      <4>2. 1 - 1 = 0
        OBVIOUS
      <4> QED
        BY <1>1, <2>5, <3>1, <4>1, <4>2
    <3>3. <<>> \o parts[1] = parts[1]
      BY <3>2, ConcatEmptySeq DEF Texts
    <3> QED
      BY <2>12, <3>1, <3>2, <3>3
  <2>14. ASSUME NEW i \in Nat, i \in P PROVE i + 1 \in P
    <3>1. SUFFICES ASSUME i + 2 <= n PROVE h[i + 2] = f[i + 2]
      OBVIOUS
    <3>2. h[i + 1] = f[i + 1]
      BY <1>1, <2>14, <3>1
    <3>3. i + 2 \in 1 .. n /\ i + 2 # 1 /\ (i + 2) - 1 = i + 1
      BY <1>1, <3>1
    <3>4. h[i + 2] = h[(i + 2) - 1] \o parts[i + 2]
      BY <2>12, <3>3
    <3>5. f[i + 2] = f[(i + 2) - 1] \o parts[i + 2]
      BY <2>6, <3>3
    <3> QED
      BY <3>2, <3>3, <3>4, <3>5
  <2> HIDE DEF P
  <2>15. \A i \in Nat : i \in P
    BY <2>13, <2>14, Induct
  <2>16. h[n] = f[n]
    <3>1. n - 1 \in Nat /\ (n - 1) + 1 = n
      BY <1>1, <1>4
    <3> QED
      BY <1>1, <2>15, <3>1 DEF P
  <2>17. Flat(parts, f)
    BY <2>5, <2>6, <2>11, <2>16 DEF Flat, n
  <2> QED
    BY <2>17
<1> QED
  BY <1>3, <1>4

\* With a piece more it is that piece behind the others.
LEMMA FlattenMore ==
  ASSUME NEW parts \in Seq(Texts), NEW t \in Texts
  PROVE  FlattenSeq(Append(parts, t)) = FlattenSeq(parts) \o t /\ FlattenSeq(parts) \in Texts
<1>1. PICK more, n : more = Append(parts, t) /\ n = Len(parts)
  OBVIOUS
<1>2. /\ more \in Seq(Texts) /\ Len(more) = n + 1 /\ n \in Nat
      /\ (\A i \in 1 .. n : more[i] = parts[i]) /\ more[n + 1] = t
  BY <1>1, AppendProperties
<1>3. PICK f : Flat(parts, f)
  BY Flattened
<1>4. PICK g : Flat(more, g)
  BY <1>2, Flattened
<1> DEFINE P == {i \in Nat : i <= n => f[i] = g[i]}
<1>5. 0 \in P
  BY <1>3, <1>4 DEF Flat
<1>6. ASSUME NEW i \in Nat, i \in P PROVE i + 1 \in P
  <2>1. SUFFICES ASSUME i + 1 <= n PROVE f[i + 1] = g[i + 1]
    OBVIOUS
  <2>2. f[i] = g[i] /\ i + 1 \in 1 .. n /\ i + 1 \in 1 .. n + 1 /\ (i + 1) - 1 = i
    BY <1>2, <1>6, <2>1
  <2>3. f[i + 1] = f[i] \o parts[i + 1]
    BY <1>1, <1>3, <2>2 DEF Flat
  <2>4. g[i + 1] = g[i] \o more[i + 1]
    BY <1>2, <1>4, <2>2 DEF Flat
  <2> QED
    BY <1>2, <2>2, <2>3, <2>4
<1> HIDE DEF P
<1>7. n \in P
  BY <1>2, <1>5, <1>6, Induct
<1>8. f[n] = g[n] /\ FlattenSeq(parts) = f[n] /\ f[n] \in Texts
  BY <1>1, <1>2, <1>3, <1>7 DEF P, Flat
<1>9. FlattenSeq(more) = g[n + 1] /\ g[n + 1] = g[n] \o t
  <2>1. n + 1 \in 1 .. n + 1 /\ (n + 1) - 1 = n
    BY <1>2
  <2>2. FlattenSeq(more) = g[n + 1] /\ g[n + 1] = g[(n + 1) - 1] \o more[n + 1]
    BY <1>2, <1>4, <2>1 DEF Flat
  <2> QED
    BY <1>2, <2>1, <2>2
<1> QED
  BY <1>1, <1>8, <1>9

\* A character as it is written in quotes.
Piece(c, q) == IF c \in {Backslash, q} THEN <<Backslash, c>> ELSE <<c>>

\* The escaped text of one character more.
LEMMA EscapedGoes ==
  ASSUME NEW s \in Texts, NEW q
  PROVE  /\ Escaped(<<>>, q) = <<>>
         /\ Escaped(s, q) \in Texts
         /\ \A c \in Chars : Escaped(Append(s, c), q) = Escaped(s, q) \o Piece(c, q)
<1>1. \A c \in Chars : Piece(c, q) \in Texts
  <2>1. ASSUME NEW c \in Chars PROVE Piece(c, q) \in Texts
    <3>1. Backslash \in Chars
      BY DEF Chars
    <3>2. <<c>> \in Texts /\ <<Backslash, c>> \in Texts
      BY <3>1, TextShort
    <3> QED
      BY <3>2 DEF Piece
  <2> QED
    BY <2>1
<1>2. ASSUME NEW t \in Texts
      PROVE  /\ [i \in DOMAIN t |-> Piece(t[i], q)] \in Seq(Texts)
             /\ Len([i \in DOMAIN t |-> Piece(t[i], q)]) = Len(t)
             /\ Escaped(t, q) = FlattenSeq([i \in DOMAIN t |-> Piece(t[i], q)])
  <2>1. DOMAIN t = 1 .. Len(t) /\ Len(t) \in Nat /\ \A i \in 1 .. Len(t) : t[i] \in Chars
    BY DEF Texts
  <2>2. \A i \in 1 .. Len(t) : Piece(t[i], q) \in Texts
    BY <1>1, <2>1
  <2>3. PICK f : f = [i \in 1 .. Len(t) |-> Piece(t[i], q)]
    OBVIOUS
  <2>4. f \in Seq(Texts) /\ Len(f) = Len(t)
    BY <2>1, <2>2, <2>3
  <2> QED
    BY <2>1, <2>3, <2>4 DEF Escaped, Piece
<1>3. Escaped(<<>>, q) = <<>>
  <2>1. PICK f : f = [i \in DOMAIN <<>> |-> Piece(<<>>[i], q)]
    OBVIOUS
  <2>2. f \in Seq(Texts) /\ Len(f) = 0 /\ Escaped(<<>>, q) = FlattenSeq(f)
    BY <1>2, <2>1, TextShort
  <2>3. f = <<>>
    BY <2>2
  <2> QED
    BY <2>2, <2>3 DEF FlattenSeq
<1>4. Escaped(s, q) \in Texts
  <2>1. PICK f : f = [i \in DOMAIN s |-> Piece(s[i], q)]
    OBVIOUS
  <2>2. f \in Seq(Texts) /\ Escaped(s, q) = FlattenSeq(f)
    BY <1>2, <2>1
  <2>3. <<>> \in Texts
    BY DEF Texts
  <2> QED
    BY <2>2, <2>3, FlattenMore
<1>5. ASSUME NEW c \in Chars
      PROVE  Escaped(Append(s, c), q) = Escaped(s, q) \o Piece(c, q)
  <2>1. PICK t : t = Append(s, c)
    OBVIOUS
  <2>2. /\ t \in Texts /\ Len(t) = Len(s) + 1 /\ Len(s) \in Nat
        /\ (\A i \in 1 .. Len(s) : t[i] = s[i]) /\ t[Len(s) + 1] = c
        /\ DOMAIN t = 1 .. Len(s) + 1 /\ DOMAIN s = 1 .. Len(s)
    BY <2>1, AppendProperties DEF Texts
  <2>3. PICK f : f = [i \in DOMAIN s |-> Piece(s[i], q)]
    OBVIOUS
  <2>4. PICK g : g = [i \in DOMAIN t |-> Piece(t[i], q)]
    OBVIOUS
  <2>5. f \in Seq(Texts) /\ Len(f) = Len(s) /\ Escaped(s, q) = FlattenSeq(f)
    BY <1>2, <2>3
  <2>6. g \in Seq(Texts) /\ Len(g) = Len(s) + 1 /\ Escaped(t, q) = FlattenSeq(g)
    BY <1>2, <2>2, <2>4
  <2>10. PICK p \in Texts : p = Piece(c, q)
    BY <1>1
  <2>11. PICK h : h = Append(f, p)
    OBVIOUS
  <2>7. /\ h \in Seq(Texts) /\ Len(h) = Len(s) + 1
        /\ (\A i \in 1 .. Len(s) : h[i] = f[i]) /\ h[Len(s) + 1] = p
    BY <2>5, <2>11, OneMoreOf
  <2>8. \A i \in 1 .. Len(s) + 1 : g[i] = h[i]
    <3>1. ASSUME NEW i \in 1 .. Len(s) + 1 PROVE g[i] = h[i]
      <4>3. i = Len(s) + 1 \/ i \in 1 .. Len(s)
        BY <2>2
      <4>1. CASE i = Len(s) + 1
        BY <2>2, <2>4, <2>7, <2>10, <4>1
      <4>2. CASE i \in 1 .. Len(s)
        BY <2>2, <2>3, <2>4, <2>7, <4>2
      <4> QED
        BY <4>1, <4>2, <4>3
    <3> QED
      BY <3>1
  <2>9. g = h
    BY <2>6, <2>7, <2>8, SeqEqual
  <2>12. FlattenSeq(h) = FlattenSeq(f) \o p
    BY <2>5, <2>11, FlattenMore
  <2> QED
    BY <2>1, <2>5, <2>6, <2>9, <2>10, <2>12
<1> QED
  BY <1>3, <1>4, <1>5

\* Behind a quote, before its end.
Inside(q) == [quote |-> q, escaped |-> FALSE]

\* One more character.
LEMMA ReadOne ==
  ASSUME NEW s \in Texts, NEW c \in Chars
  PROVE  /\ s \o <<c>> \in Texts /\ Len(s \o <<c>>) = Len(s) + 1
         /\ (s \o <<c>>)[Len(s) + 1] = c
         /\ \A i \in 1 .. Len(s) : (s \o <<c>>)[i] = s[i]
         /\ \A i \in 1 .. Len(s) + 1 : Before(s \o <<c>>, i) = Before(s, i)
         /\ Scanned(s \o <<c>>) = Scan(Scanned(s), c)
<1>1. PICK t, n : t = s \o <<c>> /\ n = Len(s)
  OBVIOUS
<1>2. <<c>> \in Texts /\ Len(<<c>>) = 1 /\ <<c>>[1] = c
  BY TextShort
<1>3. /\ t \in Texts /\ Len(t) = n + 1 /\ n \in Nat /\ t[n + 1] = c
      /\ \A i \in 1 .. n : t[i] = s[i]
  <2>1. n \in Nat
    BY <1>1 DEF Texts
  <2>2. n + 1 \in 1 .. n + 1 /\ (n + 1) - n = 1 /\ ~(n + 1 <= n)
    BY <2>1
  <2> QED
    BY <1>1, <1>2, <2>1, <2>2, TextJoin
<1>4. \A i \in 1 .. n + 1 : Before(t, i) = Before(s, i)
  BY <1>1, <1>2, ReadOn
<1>5. Scanned(t) = Scan(Scanned(s), c)
  <2>1. n + 1 \in 1 .. Len(t) /\ n + 1 \in 1 .. n + 1
    BY <1>3
  <2> QED
    BY <1>1, <1>3, <1>4, <2>1, Reading DEF Scanned
<1> QED
  BY <1>1, <1>3, <1>4, <1>5

\* And what it adds to what is said.
LEMMA SaidMore ==
  ASSUME NEW s \in Texts, NEW c \in Chars, NEW a, Stretch(s, a, Len(s))
  PROVE  /\ Mark(s \o <<c>>, Len(s) + 1) =>
              Said(s \o <<c>>, a, Len(s) + 1) = Said(s, a, Len(s))
         /\ ~Mark(s \o <<c>>, Len(s) + 1) =>
              Said(s \o <<c>>, a, Len(s) + 1) = Said(s, a, Len(s)) \o <<c>>
<1>1. PICK t, n : t = s \o <<c>> /\ n = Len(s)
  OBVIOUS
<1>2. /\ t \in Texts /\ Len(t) = n + 1 /\ t[n + 1] = c
      /\ (\A i \in 1 .. n : t[i] = s[i]) /\ \A i \in 1 .. n + 1 : Before(t, i) = Before(s, i)
  BY <1>1, ReadOne
<1>3. n \in Nat /\ a \in Nat \ {0} /\ a <= n + 1
  BY <1>1 DEF Stretch, Texts
<1>4. Stretch(t, a, n) /\ Stretch(t, n + 1, n + 1)
  BY <1>2, <1>3 DEF Stretch
<1>5. Said(t, a, n + 1) = Said(t, a, n) \o Said(t, n + 1, n + 1)
  BY <1>2, <1>4, SaidJoin
<1>6. Said(t, n + 1, n + 1) = IF Mark(t, n + 1) THEN <<>> ELSE <<c>>
  <2>1. n + 1 \in 1 .. Len(t)
    BY <1>2, <1>3
  <2> QED
    BY <1>2, <2>1, SaidOne
<1>7. Alike(t, s, 0, a, n + 1)
  BY <1>1, <1>2, <1>3 DEF Alike
<1>8. Said(t, a + 0, n + 0) = Said(s, a, n)
  <2>1. Stretch(s, a, n)
    BY <1>1
  <2>2. t \in Texts
    BY <1>2
  <2> QED
    BY <1>7, <2>1, <2>2, SaidAlike
<1>9. a + 0 = a /\ n + 0 = n
  BY <1>3
<1>10. Said(s, a, n) \in Texts
  BY <1>1, SaidIs
<1>11. Said(s, a, n) \o <<>> = Said(s, a, n)
  BY <1>10, ConcatEmptySeq DEF Texts
<1> QED
  BY <1>1, <1>5, <1>6, <1>8, <1>9, <1>11

\* Behind a backslash nothing means more than itself.
LEMMA ScanEscaped == \A q, c : Scan([quote |-> q, escaped |-> TRUE], c) = Inside(q)
  BY DEF Scan, Inside

\* In quotes, where a value has been written up to some character.
Writing(t, n, q, said) ==
  /\ t \in Texts /\ Len(t) >= n /\ Scanned(t) = Inside(q)
  /\ Said(t, n, Len(t)) = said
  /\ \A i \in n + 1 .. Len(t) : ~Plain(t, i)

\* It goes on with the next.
LEMMA WriteOne ==
  ASSUME NEW q \in Quotes, NEW t, NEW n \in Nat \ {0}, NEW said \in Texts, NEW c \in Chars,
         Writing(t, n, q, said)
  PROVE  Writing(t \o Piece(c, q), n, q, said \o <<c>>)
<1> USE DEF Writing
<1>1. t \in Texts /\ Len(t) \in Nat /\ Len(t) >= n /\ Stretch(t, n, Len(t))
  BY DEF Texts, Stretch
<1>2. q # None /\ q # Backslash
  BY DEF Quotes, None, Backslash
<1>3. Inside(q) # Open
  BY <1>2 DEF Inside, Open
<1>4. CASE c \notin {Backslash, q}
  <2>1. PICK u : u = t \o <<c>>
    OBVIOUS
  <2>2. /\ u \in Texts /\ Len(u) = Len(t) + 1 /\ u[Len(t) + 1] = c
        /\ Scanned(u) = Scan(Inside(q), c)
        /\ \A i \in 1 .. Len(t) + 1 : Before(u, i) = Before(t, i)
    BY <1>1, <2>1, ReadOne
  <2>9. ~Mark(u, Len(t) + 1) => Said(u, n, Len(t) + 1) = said \o <<c>>
    BY <1>1, <2>1, SaidMore
  <2>3. Before(u, Len(t) + 1) = Inside(q)
    BY <1>1, <2>2 DEF Scanned
  <2>4. Scan(Inside(q), c) = Inside(q)
    BY <1>2, <1>4 DEF Scan, Inside
  <2>5. ~Mark(u, Len(t) + 1)
    BY <1>2, <1>4, <2>2, <2>3 DEF Mark, Inside
  <2>6. ASSUME NEW i \in n + 1 .. Len(u) PROVE ~Plain(u, i)
    <3>1. i \in 1 .. Len(t) + 1 /\ Before(u, i) = Before(t, i)
      BY <1>1, <2>2
    <3>2. CASE i = Len(t) + 1
      BY <1>3, <2>3, <3>2 DEF Plain
    <3>3. CASE i \in n + 1 .. Len(t)
      BY <3>1, <3>3 DEF Plain
    <3> QED
      BY <1>1, <2>2, <3>2, <3>3
  <2>7. Len(u) >= n
    BY <1>1, <2>2
  <2>8. Piece(c, q) = <<c>>
    BY <1>4 DEF Piece
  <2> QED
    BY <2>1, <2>2, <2>4, <2>5, <2>6, <2>7, <2>8, <2>9
<1>5. CASE c \in {Backslash, q}
  <2>1. PICK u, v : u = t \o <<Backslash>> /\ v = u \o <<c>>
    OBVIOUS
  <2>2. Backslash \in Chars
    BY DEF Chars
  <2>3. /\ u \in Texts /\ Len(u) = Len(t) + 1 /\ u[Len(t) + 1] = Backslash
        /\ Scanned(u) = Scan(Inside(q), Backslash)
        /\ \A i \in 1 .. Len(t) + 1 : Before(u, i) = Before(t, i)
    BY <1>1, <2>1, <2>2, ReadOne
  <2>17. Mark(u, Len(t) + 1) => Said(u, n, Len(t) + 1) = said
    BY <1>1, <2>1, <2>2, SaidMore
  <2>4. Stretch(u, n, Len(u))
    BY <1>1, <2>3 DEF Stretch
  <2>5. /\ v \in Texts /\ Len(v) = Len(u) + 1 /\ v[Len(u) + 1] = c
        /\ Scanned(v) = Scan(Scanned(u), c)
        /\ \A i \in 1 .. Len(u) + 1 : Before(v, i) = Before(u, i)
    BY <2>1, <2>3, ReadOne
  <2>18. ~Mark(v, Len(u) + 1) => Said(v, n, Len(u) + 1) = Said(u, n, Len(u)) \o <<c>>
    BY <2>1, <2>3, <2>4, SaidMore
  <2>6. Before(u, Len(t) + 1) = Inside(q)
    BY <1>1, <2>3 DEF Scanned
  <2>7. Mark(u, Len(t) + 1)
    BY <2>3, <2>6 DEF Mark, Inside
  <2>8. Said(u, n, Len(u)) = said
    BY <2>3, <2>7, <2>17
  <2>9. Scanned(u) = [quote |-> q, escaped |-> TRUE]
    BY <2>3 DEF Scan, Inside
  <2>10. Before(v, Len(u) + 1) = [quote |-> q, escaped |-> TRUE]
    BY <1>1, <2>3, <2>5, <2>9 DEF Scanned
  <2>11. ~Mark(v, Len(u) + 1)
    BY <2>10 DEF Mark
  <2>12. Scanned(v) = Inside(q)
    BY <2>5, <2>9, ScanEscaped
  <2>13. ASSUME NEW i \in n + 1 .. Len(v) PROVE ~Plain(v, i)
    <3>1. Len(u) = Len(t) + 1 /\ Len(v) = Len(t) + 2 /\ Len(t) \in Nat /\ n \in Nat
      BY <1>1, <2>3, <2>5
    <3>2. CASE i = Len(t) + 2
      BY <2>10, <3>1, <3>2 DEF Plain, Open
    <3>3. CASE i = Len(t) + 1
      <4>1. i \in 1 .. Len(u) + 1 /\ i \in 1 .. Len(t) + 1
        BY <3>1, <3>3
      <4> QED
        BY <1>3, <2>5, <2>6, <3>3, <4>1 DEF Plain
    <3>4. CASE i \in n + 1 .. Len(t)
      <4>1. i \in 1 .. Len(u) + 1 /\ i \in 1 .. Len(t) + 1
        BY <3>1, <3>4
      <4>2. Before(v, i) = Before(t, i)
        BY <2>3, <2>5, <4>1
      <4> QED
        BY <3>4, <4>2 DEF Plain
    <3> QED
      BY <3>1, <3>2, <3>3, <3>4
  <2>14. Said(v, n, Len(v)) = said \o <<c>>
    BY <2>5, <2>8, <2>11, <2>18
  <2>15. v = t \o Piece(c, q)
    <3>1. <<c>> \in Texts /\ <<Backslash>> \in Texts /\ <<Backslash, c>> \in Texts
      BY <2>2, TextShort
    <3>2. <<Backslash>> \o <<c>> = <<Backslash, c>>
      BY <2>2, TextPair
    <3>3. v = t \o (<<Backslash>> \o <<c>>)
      BY <1>1, <2>1, <3>1, ConcatAssociative DEF Texts
    <3> QED
      BY <1>5, <3>2, <3>3 DEF Piece
  <2>16. Len(v) >= n
    BY <1>1, <2>3, <2>5
  <2> QED
    BY <2>5, <2>12, <2>13, <2>14, <2>15, <2>16
<1> QED
  BY <1>4, <1>5


\* Where there are no quotes and escapes nothing is open.
LEMMA PlainRead ==
  ASSUME NEW s \in Texts, NEW a, NEW b, Stretch(s, a, b), Before(s, a) = Open,
         \A i \in a .. b : s[i] \notin Quotes \cup {Backslash}
  PROVE  /\ \A i \in a .. b + 1 : Before(s, i) = Open
         /\ \A i \in a .. b : Plain(s, i) /\ ~Mark(s, i)
<1>1. a \in Nat \ {0} /\ b \in Nat /\ b <= Len(s) /\ Len(s) \in Nat
  BY DEF Stretch, Texts
<1> DEFINE P == {n \in Nat : a + n <= b + 1 => Before(s, a + n) = Open}
<1>2. 0 \in P
  BY <1>1
<1>3. ASSUME NEW n \in Nat, n \in P PROVE n + 1 \in P
  <2>1. SUFFICES ASSUME a + (n + 1) <= b + 1 PROVE Before(s, a + (n + 1)) = Open
    OBVIOUS
  <2>2. PICK i : i = a + n
    OBVIOUS
  <2>3. i \in 1 .. Len(s) /\ i \in a .. b /\ i + 1 = a + (n + 1)
    BY <1>1, <2>1, <2>2
  <2>4. Before(s, i) = Open
    BY <1>1, <1>3, <2>1, <2>2
  <2>5. Before(s, i + 1) = Scan(Open, s[i])
    BY <2>3, <2>4, Reading
  <2>6. s[i] # Backslash /\ s[i] \notin Quotes /\ s[i] \in Chars
    BY <2>3 DEF Texts
  <2>8. s[i] # None
    BY <2>6 DEF Chars, None, Blanks, Quotes, Backslash
  <2>7. Scan(Open, s[i]) = Open
    BY <2>6, <2>8 DEF Scan, Open
  <2> QED
    BY <2>3, <2>5, <2>7
<1> HIDE DEF P
<1>4. \A n \in Nat : n \in P
  BY <1>2, <1>3, Induct
<1>5. ASSUME NEW i \in a .. b + 1 PROVE Before(s, i) = Open
  <2>1. i - a \in Nat /\ a + (i - a) = i /\ i <= b + 1
    BY <1>1
  <2> QED
    BY <1>4, <2>1 DEF P
<1>6. ASSUME NEW i \in a .. b PROVE Plain(s, i) /\ ~Mark(s, i)
  <2>1. i \in a .. b + 1 /\ i \in 1 .. Len(s)
    BY <1>1
  <2>2. Before(s, i) = Open
    BY <1>5, <2>1
  <2>3. s[i] # Backslash /\ s[i] \notin Quotes /\ s[i] \in Chars
    BY <2>1 DEF Texts
  <2>4. s[i] # None
    BY <2>3 DEF Chars, None, Blanks, Quotes, Backslash
  <2> QED
    BY <2>2, <2>3, <2>4 DEF Plain, Mark, Open
<1> QED
  BY <1>5, <1>6

\* What String.trim leaves.
Trimmed(s, a, b) ==
  /\ a \in 1 .. Len(s) /\ b \in a .. Len(s) /\ s[a] \notin Blanks /\ s[b] \notin Blanks
  /\ \A i \in 1 .. Len(s) : i < a \/ i > b => s[i] \in Blanks
  /\ Trim(s) = SubSeq(s, a, b)

\* A trimmed text is empty, or goes from the first to the last character that is no blank.
LEMMA TrimIs ==
  ASSUME NEW s \in Texts
  PROVE  /\ Trim(s) \in Texts
         /\ \/ Trim(s) = <<>> /\ \A i \in 1 .. Len(s) : s[i] \in Blanks
            \/ Trim(s) # <<>> /\ \E a, b \in 1 .. Len(s) : Trimmed(s, a, b)
<1>1. Len(s) \in Nat /\ DOMAIN s = 1 .. Len(s)
  BY DEF Texts
<1>2. PICK at : at = {i \in DOMAIN s : s[i] \notin Blanks}
  OBVIOUS
<1>3. CASE at = {}
  BY <1>1, <1>2, <1>3, TextShort DEF Trim
<1>4. CASE at # {}
  <2>1. at \in SUBSET (0 .. Len(s))
    BY <1>1, <1>2
  <2>2. /\ Min(at) \in at /\ \A y \in at : Min(at) <= y
        /\ Max(at) \in at /\ \A y \in at : y <= Max(at)
    BY <1>1, <1>4, <2>1, Least, Greatest
  <2>3. PICK a, b : a = Min(at) /\ b = Max(at)
    OBVIOUS
  <2>4. a \in 1 .. Len(s) /\ b \in a .. Len(s) /\ s[a] \notin Blanks /\ s[b] \notin Blanks
    BY <1>1, <1>2, <2>2, <2>3
  <2>5. ASSUME NEW i \in 1 .. Len(s), i < a \/ i > b PROVE s[i] \in Blanks
    <3>1. i \notin at
      BY <1>1, <2>2, <2>3, <2>4, <2>5
    <3> QED
      BY <1>1, <1>2, <3>1
  <2>6. Trim(s) = SubSeq(s, a, b)
    BY <1>2, <1>4, <2>3 DEF Trim
  <2>7. Trim(s) \in Texts /\ Len(Trim(s)) = b + 1 - a
    BY <1>1, <2>4, <2>6, TextPart
  <2>8. Trim(s) # <<>>
    BY <1>1, <2>4, <2>7, TextShort
  <2>9. a \in 1 .. Len(s) /\ b \in 1 .. Len(s)
    BY <1>1, <2>4
  <2> QED
    BY <2>4, <2>5, <2>6, <2>7, <2>8, <2>9 DEF Trimmed
<1> QED
  BY <1>3, <1>4

\* A text that neither begins nor ends with a blank.
LEMMA TrimNothing ==
  ASSUME NEW s \in Texts, s # <<>>, s[1] \notin Blanks, s[Len(s)] \notin Blanks
  PROVE  Trim(s) = s
<1>1. Len(s) \in Nat \ {0}
  BY TextEqual, TextShort DEF Texts
<1>2. \E a, b \in 1 .. Len(s) : Trimmed(s, a, b)
  BY <1>1, TrimIs
<1>3. PICK a \in 1 .. Len(s), b \in 1 .. Len(s) : Trimmed(s, a, b)
  BY <1>2
<1>4. ~(1 < a) /\ ~(Len(s) > b)
  BY <1>1, <1>3 DEF Trimmed
<1>5. a = 1 /\ b = Len(s)
  BY <1>1, <1>4
<1>6. SubSeq(s, 1, Len(s)) = s
  BY SubSeqFull DEF Texts
<1> QED
  BY <1>3, <1>5, <1>6 DEF Trimmed

\* Where `&&` separates commands.
CutAt(s, i) == i \in 1 .. Len(s) - 1 /\ s[i] = "&" /\ s[i + 1] = "&" /\ Plain(s, i)

\* Of separators that overlap the first counts.
LEMMA CutsAre ==
  ASSUME NEW s \in Texts
  PROVE  /\ Cuts(s) \in SUBSET (1 .. Len(s))
         /\ \A i \in 1 .. Len(s) : i \in Cuts(s) <=> CutAt(s, i) /\ i - 1 \notin Cuts(s)
<1> DEFINE m == Len(s)
           B == {{}, {0}}
           Is(f) == f = [i \in 0 .. m |->
                          /\ i \in 1 .. m - 1 /\ s[i] = "&" /\ s[i + 1] = "&"
                          /\ Plain(s, i) /\ ~f[i - 1]]
<1>1. m \in Nat /\ DOMAIN s = 1 .. m
  BY DEF Texts
<1> HIDE DEF m
<1>2. PICK go : go = [n \in 1 .. m |-> [x \in B |-> IF CutAt(s, n) /\ x = {} THEN {0} ELSE {}]]
  OBVIOUS
<1>3. go \in Ways(m, B) /\ {} \in B
  BY <1>1, <1>2 DEF Ways
<1>4. Goings({}, m, go, B) # {}
  BY <1>1, <1>3, Goes
<1>5. PICK h \in [0 .. m -> B] : h[0] = {} /\ \A n \in 1 .. m : h[n] = go[n][h[n - 1]]
  BY <1>4 DEF Goings
<1>6. PICK f : f = [i \in 0 .. m |-> h[i] = {0}]
  OBVIOUS
<1>7. Is(f)
  <2>1. ASSUME NEW i \in 0 .. m
        PROVE  (h[i] = {0}) <=> (/\ i \in 1 .. m - 1 /\ s[i] = "&" /\ s[i + 1] = "&"
                                 /\ Plain(s, i) /\ ~f[i - 1])
    <3>1. CASE i = 0
      <4>1. ~(i \in 1 .. m - 1) /\ h[i] = {}
        BY <1>1, <1>5, <3>1
      <4> QED
        BY <4>1
    <3>2. CASE i \in 1 .. m
      <4>1. i - 1 \in 0 .. m /\ h[i - 1] \in B
        BY <1>1, <1>5, <3>2
      <4>2. h[i] = IF CutAt(s, i) /\ h[i - 1] = {} THEN {0} ELSE {}
        BY <1>2, <1>5, <3>2, <4>1
      <4>3. h[i - 1] = {} <=> ~(h[i - 1] = {0})
        BY <4>1
      <4>4. (h[i] = {0}) <=> CutAt(s, i) /\ ~(h[i - 1] = {0})
        BY <4>2, <4>3
      <4>5. f[i - 1] <=> (h[i - 1] = {0})
        BY <1>6, <4>1
      <4>6. CutAt(s, i) <=> i \in 1 .. m - 1 /\ s[i] = "&" /\ s[i + 1] = "&" /\ Plain(s, i)
        BY DEF CutAt, m
      <4> QED
        BY <4>4, <4>5, <4>6
    <3> QED
      BY <1>1, <3>1, <3>2
  <2>2. [i \in 0 .. m |-> h[i] = {0}] = [i \in 0 .. m |->
                          /\ i \in 1 .. m - 1 /\ s[i] = "&" /\ s[i + 1] = "&"
                          /\ Plain(s, i) /\ ~f[i - 1]]
    BY <2>1
  <2> QED
    BY <1>6, <2>2
<1>8. PICK g : g = CHOOSE x : Is(x)
  OBVIOUS
<1>9. Is(g)
  BY <1>7, <1>8
<1>10. Cuts(s) = {i \in 1 .. m : g[i]}
  BY <1>1, <1>8 DEF Cuts, m
<1>11. ASSUME NEW i \in 0 .. m PROVE g[i] <=> CutAt(s, i) /\ ~g[i - 1]
  BY <1>9 DEF CutAt, m
<1> HIDE DEF Is
<1>12. ~g[0]
  <2>1. 0 \in 0 .. m /\ ~CutAt(s, 0)
    BY <1>1 DEF CutAt
  <2> QED
    BY <1>11, <2>1
<1>13. ASSUME NEW i \in 1 .. m PROVE i \in Cuts(s) <=> CutAt(s, i) /\ i - 1 \notin Cuts(s)
  <2>1. i \in 0 .. m /\ (i - 1 = 0 \/ i - 1 \in 1 .. m)
    BY <1>1
  <2>2. i - 1 \in Cuts(s) <=> g[i - 1]
    <3>1. CASE i - 1 = 0
      BY <1>10, <1>12, <3>1
    <3>2. CASE i - 1 \in 1 .. m
      BY <1>10, <3>2
    <3> QED
      BY <2>1, <3>1, <3>2
  <2> QED
    BY <1>10, <1>11, <2>1, <2>2
<1>14. Cuts(s) \in SUBSET (1 .. m)
  BY <1>10
<1> QED
  BY <1>13, <1>14 DEF m

\* Texts and quotes, in short.
LEMMA TextIs ==
  \A s \in Texts : Len(s) \in Nat /\ DOMAIN s = 1 .. Len(s) /\ \A i \in 1 .. Len(s) : s[i] \in Chars
  BY DEF Texts

\* Texts, one behind the other, in either order of joining.
LEMMA TextsOn == \A s, t, u \in Texts : (s \o t) \o u = s \o (t \o u)
  BY ConcatAssociative DEF Texts

\* A quote is no other character that is spoken of.
LEMMA QuoteIs ==
  /\ \A q \in Quotes : q \in Chars /\ q # None /\ q # Backslash /\ q \notin Blanks
                       /\ q \notin {"&", "=", "!"}
  /\ Backslash \in Chars /\ Blanks \subseteq Chars /\ {"=", "&", "!", "c", "k", "t"} \subseteq Chars
  /\ \A c \in Chars : c # None
  BY DEF Chars, Quotes, Blanks, Backslash, None

\* From n on s is a value in quotes.
Wrapped(s, n, q, v) ==
  /\ s \in Texts /\ n \in 1 .. Len(s) /\ Plain(s, n) /\ Mark(s, n) /\ s[n] = q
  /\ Scanned(s) = Open /\ s[Len(s)] = q /\ Said(s, n, Len(s)) = v
  /\ \A i \in n + 1 .. Len(s) : ~Plain(s, i)

\* What is written in quotes says what it was.
LEMMA Inwards ==
  ASSUME NEW q \in Quotes, NEW pre \in Texts, Scanned(pre) = Open, NEW v \in Texts
  PROVE  Writing(pre \o <<q>> \o Escaped(v, q), Len(pre) + 1, q, v)
<1>1. Len(pre) \in Nat /\ q \in Chars /\ q # None /\ q # Backslash /\ <<q>> \in Texts
  BY TextIs, QuoteIs, TextShort
<1>2. PICK t, n : t = pre \o <<q>> /\ n = Len(pre) + 1
  OBVIOUS
<1>3. /\ t \in Texts /\ Len(t) = n /\ t[n] = q /\ n \in Nat \ {0}
      /\ Scanned(t) = Scan(Open, q) /\ \A i \in 1 .. n : Before(t, i) = Before(pre, i)
  BY <1>1, <1>2, ReadOne
<1>4. Scan(Open, q) = Inside(q)
  BY <1>1 DEF Scan, Open, Inside
<1>5. Before(t, n) = Open
  BY <1>2, <1>3 DEF Scanned
<1>6. Mark(t, n)
  BY <1>3, <1>5 DEF Mark, Open
<1>7. Said(t, n, n) = <<>>
  BY <1>3, <1>6, SaidOne
<1>8. Writing(t, n, q, <<>>)
  BY <1>3, <1>4, <1>7 DEF Writing
<1> DEFINE P == {m \in Nat : \A w \in Texts : Len(w) = m => Writing(t \o Escaped(w, q), n, q, w)}
<1>9. 0 \in P
  <2>1. ASSUME NEW w \in Texts, Len(w) = 0 PROVE Writing(t \o Escaped(w, q), n, q, w)
    <3>1. w = <<>>
      BY <2>1, TextShort, TextEqual
    <3>2. Escaped(w, q) = <<>>
      BY <2>1, <3>1, EscapedGoes
    <3>3. t \o <<>> = t
      BY <1>3, ConcatEmptySeq DEF Texts
    <3> QED
      BY <1>8, <3>1, <3>2, <3>3
  <2> QED
    BY <2>1
<1>10. ASSUME NEW m \in Nat, m \in P PROVE m + 1 \in P
  <2>1. SUFFICES ASSUME NEW w \in Texts, Len(w) = m + 1
                 PROVE  Writing(t \o Escaped(w, q), n, q, w)
    OBVIOUS
  <2>2. w # <<>>
    BY <2>1, TextShort
  <2>3. PICK u \in Seq(Chars) : \E e \in Chars : w = Append(u, e)
    BY <2>2, SequenceEmptyOrAppend DEF Texts
  <2>4. PICK e \in Chars : w = Append(u, e)
    BY <2>3
  <2>5. u \in Texts /\ Len(u) = m
    <3>1. Len(Append(u, e)) = Len(u) + 1 /\ Len(u) \in Nat
      BY AppendProperties
    <3> QED
      BY <2>1, <2>4, <3>1 DEF Texts
  <2>6. Writing(t \o Escaped(u, q), n, q, u)
    BY <1>10, <2>5
  <2>7. Writing((t \o Escaped(u, q)) \o Piece(e, q), n, q, u \o <<e>>)
    BY <1>3, <2>5, <2>6, WriteOne
  <2>8. Escaped(w, q) = Escaped(u, q) \o Piece(e, q) /\ Escaped(u, q) \in Texts
    BY <2>4, <2>5, EscapedGoes
  <2>9. Piece(e, q) \in Texts
    BY TextShort DEF Piece, Chars
  <2>10. (t \o Escaped(u, q)) \o Piece(e, q) = t \o Escaped(w, q)
    BY <1>3, <2>8, <2>9, TextsOn
  <2>11. u \o <<e>> = w
    BY <2>4, AppendIsConcat
  <2> QED
    BY <2>7, <2>10, <2>11
<1> HIDE DEF P
<1>11. \A m \in Nat : m \in P
  BY <1>9, <1>10, Induct
<1>12. Len(v) \in Nat /\ Len(v) \in P
  BY <1>11 DEF Texts
<1> QED
  BY <1>2, <1>12 DEF P

\* And with the quote that ends it.
WithQuotes(v, q) == <<q>> \o Escaped(v, q) \o <<q>>

\* A value in quotes behind a text is read as the value.
LEMMA Quoted ==
  ASSUME NEW q \in Quotes, NEW pre \in Texts, Scanned(pre) = Open, NEW v \in Texts
  PROVE  Wrapped(pre \o WithQuotes(v, q), Len(pre) + 1, q, v)
<1>1. Len(pre) \in Nat /\ q \in Chars /\ q # None /\ q # Backslash /\ <<q>> \in Texts
  BY TextIs, QuoteIs, TextShort
<1>2. PICK e : e = Escaped(v, q)
  OBVIOUS
<1>3. e \in Texts
  BY <1>2, EscapedGoes
<1>4. PICK r : r = pre \o <<q>>
  OBVIOUS
<1>5. PICK t : t = r \o e
  OBVIOUS
<1>6. PICK s : s = t \o <<q>>
  OBVIOUS
<1>7. PICK n : n = Len(pre) + 1
  OBVIOUS
<1>8. Writing(t, n, q, v)
  <2>1. Writing(pre \o <<q>> \o Escaped(v, q), Len(pre) + 1, q, v)
    BY Inwards
  <2> QED
    BY <1>2, <1>4, <1>5, <1>7, <2>1
<1>9. /\ t \in Texts /\ Len(t) \in Nat /\ Len(t) >= n /\ n \in Nat \ {0} /\ Scanned(t) = Inside(q)
      /\ Said(t, n, Len(t)) = v /\ \A i \in n + 1 .. Len(t) : ~Plain(t, i)
  BY <1>1, <1>7, <1>8, TextIs DEF Writing
<1>10. pre \o WithQuotes(v, q) = s
  <2>1. PICK x : x = <<q>>
    OBVIOUS
  <2>2. x \in Texts /\ x \o e \in Texts
    BY <1>1, <1>3, <2>1, TextJoin
  <2>3. pre \o ((x \o e) \o x) = (pre \o (x \o e)) \o x
    BY <2>2, TextsOn
  <2>4. pre \o (x \o e) = (pre \o x) \o e
    BY <1>3, <2>2, TextsOn
  <2> QED
    BY <1>2, <1>4, <1>5, <1>6, <2>1, <2>3, <2>4 DEF WithQuotes
<1>11. /\ r \in Texts /\ Len(r) = n /\ r[n] = q
       /\ \A i \in 1 .. n : Before(r, i) = Before(pre, i)
  <2>1. /\ pre \o <<q>> \in Texts /\ Len(pre \o <<q>>) = Len(pre) + 1
        /\ (pre \o <<q>>)[Len(pre) + 1] = q
        /\ \A i \in 1 .. Len(pre) + 1 : Before(pre \o <<q>>, i) = Before(pre, i)
    BY <1>1, ReadOne
  <2> QED
    BY <1>4, <1>7, <2>1
<1>12. /\ s \in Texts /\ Len(s) = Len(t) + 1 /\ s[Len(t) + 1] = q
       /\ Scanned(s) = Scan(Inside(q), q)
       /\ \A i \in 1 .. Len(t) : s[i] = t[i]
       /\ \A i \in 1 .. Len(t) + 1 : Before(s, i) = Before(t, i)
  <2>1. /\ t \o <<q>> \in Texts /\ Len(t \o <<q>>) = Len(t) + 1
        /\ (t \o <<q>>)[Len(t) + 1] = q /\ Scanned(t \o <<q>>) = Scan(Scanned(t), q)
        /\ \A i \in 1 .. Len(t) : (t \o <<q>>)[i] = t[i]
        /\ \A i \in 1 .. Len(t) + 1 : Before(t \o <<q>>, i) = Before(t, i)
    BY <1>1, <1>9, ReadOne
  <2> QED
    BY <1>6, <1>9, <2>1
<1>13. Scan(Inside(q), q) = Open
  BY <1>1 DEF Scan, Inside, Open
<1>14. Before(s, Len(t) + 1) = Inside(q)
  BY <1>9, <1>12 DEF Scanned
<1>15. Mark(s, Len(t) + 1)
  BY <1>12, <1>14 DEF Mark, Inside
<1>16. Said(s, n, Len(s)) = v
  <2>1. Stretch(t, n, Len(t))
    BY <1>9 DEF Stretch
  <2>2. Mark(s, Len(t) + 1) => Said(s, n, Len(t) + 1) = Said(t, n, Len(t))
    BY <1>1, <1>6, <1>9, <2>1, SaidMore
  <2> QED
    BY <1>9, <1>12, <1>15, <2>2
<1>17. Before(s, n) = Open /\ s[n] = q
  <2>1. /\ \A i \in 1 .. Len(r) : t[i] = r[i]
        /\ \A i \in 1 .. Len(r) + 1 : Before(t, i) = Before(r, i)
    BY <1>3, <1>5, <1>11, ReadOn
  <2>2. n \in 1 .. Len(r) /\ n \in 1 .. Len(r) + 1 /\ n \in 1 .. Len(t) /\ n \in 1 .. Len(t) + 1
    BY <1>9, <1>11
  <2>3. Before(r, n) = Open
    <3>1. n \in 1 .. n
      BY <1>9
    <3> QED
      BY <1>7, <1>11, <3>1 DEF Scanned
  <2> QED
    BY <1>11, <1>12, <2>1, <2>2, <2>3
<1>18. Plain(s, n) /\ Mark(s, n)
  BY <1>17 DEF Plain, Mark, Open
<1>19. Inside(q) # Open
  BY <1>1 DEF Inside, Open
<1>20. ASSUME NEW i \in n + 1 .. Len(s) PROVE ~Plain(s, i)
  <2>1. i = Len(t) + 1 \/ i \in n + 1 .. Len(t)
    BY <1>9, <1>12
  <2>2. CASE i = Len(t) + 1
    BY <1>14, <1>19, <2>2 DEF Plain
  <2>3. CASE i \in n + 1 .. Len(t)
    <3>1. i \in 1 .. Len(t) + 1 /\ ~Plain(t, i)
      BY <1>9, <2>3
    <3> QED
      BY <1>12, <3>1 DEF Plain
  <2> QED
    BY <2>1, <2>2, <2>3
<1>21. n \in 1 .. Len(s)
  BY <1>9, <1>12
<1>22. Wrapped(s, n, q, v)
  BY <1>12, <1>13, <1>16, <1>17, <1>18, <1>20, <1>21 DEF Wrapped
<1> QED
  BY <1>7, <1>10, <1>22

\* The value itself.
LEMMA QuotedText ==
  ASSUME NEW q \in Quotes, NEW v \in Texts
  PROVE  /\ WithQuotes(v, q) \in Texts /\ Len(WithQuotes(v, q)) \in Nat \ {0}
         /\ WithQuotes(v, q)[1] = q
<1>1. PICK e, x : e = Escaped(v, q) /\ x = <<q>>
  OBVIOUS
<1>2. e \in Texts /\ x \in Texts /\ Len(x) = 1 /\ x[1] = q
  BY <1>1, EscapedGoes, TextShort, QuoteIs
<1>3. PICK r : r = x \o e
  OBVIOUS
<1>4. r \in Texts /\ Len(r) \in Nat \ {0} /\ r[1] = q
  <2>1. /\ r \in Texts /\ Len(r) = Len(x) + Len(e)
        /\ \A i \in 1 .. Len(x) + Len(e) : r[i] = IF i <= Len(x) THEN x[i] ELSE e[i - Len(x)]
    BY <1>2, <1>3, TextJoin
  <2>2. Len(e) \in Nat
    BY <1>2, TextIs
  <2> QED
    BY <1>2, <2>1, <2>2
<1>5. PICK w : w = r \o x
  OBVIOUS
<1>6. /\ w \in Texts /\ Len(w) = Len(r) + Len(x)
      /\ \A i \in 1 .. Len(r) + Len(x) : w[i] = IF i <= Len(r) THEN r[i] ELSE x[i - Len(r)]
  BY <1>2, <1>4, <1>5, TextJoin
<1>7. w = WithQuotes(v, q)
  BY <1>1, <1>3, <1>5 DEF WithQuotes
<1>8. Len(w) \in Nat \ {0} /\ w[1] = q
  BY <1>2, <1>4, <1>6
<1> QED
  BY <1>6, <1>7, <1>8

-----------------------------------------------------------------------------
(* Tokens.                                                                 *)

\* The least of some places.
LEMMA MinIs ==
  ASSUME NEW b \in Nat, NEW T \in SUBSET (0 .. b), NEW x \in T, \A y \in T : x <= y
  PROVE  Min(T) = x
<1>1. \A y \in T : y \in Nat
  OBVIOUS
<1>2. Min(T) \in T /\ Min(T) <= x
  BY Least
<1>3. x <= Min(T)
  BY <1>2
<1>4. x \in Nat /\ Min(T) \in Nat
  BY <1>1, <1>2
<1> QED
  BY <1>2, <1>3, <1>4

\* A text starts with another if its characters do.
LEMMA StartsIs ==
  ASSUME NEW s \in Texts, NEW t \in Texts
  PROVE  Starts(s, t) <=> Len(t) <= Len(s) /\ \A i \in 1 .. Len(t) : s[i] = t[i]
<1>1. Len(s) \in Nat /\ Len(t) \in Nat
  BY TextIs
<1>2. SubSeq(t, 1, Len(t)) = t
  BY SubSeqFull DEF Texts
<1>3. ASSUME Len(t) <= Len(s)
      PROVE  SubSeq(s, 1, Len(t)) = t <=> \A i \in 1 .. Len(t) : s[i] = t[i]
  <2>1. PICK u, n : u = SubSeq(s, 1, Len(t)) /\ n = Len(t)
    OBVIOUS
  <2>2. u \in Texts /\ Len(u) = n + 1 - 1 /\ \A i \in 1 .. n + 1 - 1 : u[i] = s[1 + i - 1]
    <3>1. 1 \in Nat \ {0} /\ n \in Nat /\ 1 <= n + 1 /\ n <= Len(s)
      BY <1>1, <1>3, <2>1
    <3> QED
      BY <2>1, <3>1, TextPart
  <2>3. \A i \in 1 .. n : u[i] = s[i]
    BY <1>1, <2>1, <2>2
  <2>4. Len(u) = Len(t)
    BY <1>1, <2>1, <2>2
  <2> QED
    BY <2>1, <2>2, <2>3, <2>4, TextEqual
<1> QED
  BY <1>2, <1>3 DEF Starts, IsPrefix

\* The parts of Tokenize.
Eqs(s) == {i \in DOMAIN s : s[i] = "=" /\ Plain(s, i)}
Places(s) == Heads(s, Gaps(s) \cup Eqs(s)) \cup Eqs(s)
Token(s, i) ==
  IF i \in Eqs(s) THEN [type |-> "eq", value |-> <<"=">>, quoted |-> FALSE]
  ELSE [type |-> "word", value |-> Said(s, i, EndOf(s, Gaps(s) \cup Eqs(s), i)),
        quoted |-> \E j \in i .. EndOf(s, Gaps(s) \cup Eqs(s), i) : Mark(s, j) /\ s[j] \in Quotes]

\* The tokens are those that start at the places, in their order.
LEMMA TokensAre ==
  ASSUME NEW s \in Texts, Scanned(s) = Open
  PROVE  /\ Places(s) \in SUBSET (1 .. Len(s)) /\ Cardinality(Places(s)) \in Nat
         /\ Increasing(InOrder(Places(s)), Cardinality(Places(s)), Places(s))
         /\ Tokenize(s) = [k \in 1 .. Cardinality(Places(s)) |-> Token(s, InOrder(Places(s))[k])]
         /\ DOMAIN Tokenize(s) = 1 .. Cardinality(Places(s))
         /\ Len(Tokenize(s)) = Cardinality(Places(s))
<1>1. Len(s) \in Nat /\ DOMAIN s = 1 .. Len(s)
  BY TextIs
<1>2. Places(s) \in SUBSET (1 .. Len(s))
  BY <1>1 DEF Places, Heads, Eqs
<1>3. Places(s) \in SUBSET (0 .. Len(s))
  BY <1>1, <1>2
<1>4. PICK n, at : n = Cardinality(Places(s)) /\ at = InOrder(Places(s))
  OBVIOUS
<1>5. Increasing(at, n, Places(s)) /\ n \in Nat
  BY <1>1, <1>3, <1>4, Ordered
<1>6. DOMAIN at = 1 .. n
  BY <1>5 DEF Increasing
<1>7. Tokenize(s) = [k \in DOMAIN at |-> Token(s, at[k])]
  BY <1>4 DEF Tokenize, Token, Places, Eqs
<1>8. PICK f : f = [k \in 1 .. n |-> Token(s, at[k])]
  OBVIOUS
<1>9. DOMAIN f = 1 .. n /\ Len(f) = n
  <2>1. PICK V : V = {Token(s, at[k]) : k \in 1 .. n}
    OBVIOUS
  <2>2. f \in [1 .. n -> V]
    BY <1>8, <2>1
  <2>3. f \in Seq(V)
    BY <1>5, <2>2
  <2> QED
    BY <1>5, <2>2, <2>3
<1> QED
  BY <1>2, <1>4, <1>5, <1>6, <1>7, <1>8, <1>9

\* A value at the end of a line.
Ending(s, n, v) ==
  /\ s \in Texts /\ n \in 1 .. Len(s) /\ Scanned(s) = Open /\ Said(s, n, Len(s)) = v
  /\ \A i \in n .. Len(s) : Plain(s, i) => s[i] \notin Blanks \cup {"=", "&"}
  /\ s[Len(s)] \notin Blanks

Opening(s) == s[1] = "c" /\ s[2] = " " /\ s[3] = "k" /\ s[4] = "="

\* The tokens of a line with a command, a key, an equals sign and one value.
LEMMA EndingTokens ==
  ASSUME NEW s \in Texts, NEW v, Ending(s, 5, v), Opening(s)
  PROVE  /\ Len(Tokenize(s)) = 4
         /\ Tokenize(s)[1] = [type |-> "word", value |-> <<"c">>, quoted |-> FALSE]
         /\ Tokenize(s)[2] = [type |-> "word", value |-> <<"k">>, quoted |-> FALSE]
         /\ Tokenize(s)[3].type = "eq"
         /\ Tokenize(s)[4].type = "word" /\ Tokenize(s)[4].value = v
         /\ \A i \in 1 .. 4 : Plain(s, i)
<1>1. s \in Texts /\ Len(s) \in Nat /\ Len(s) >= 5 /\ DOMAIN s = 1 .. Len(s) /\ Scanned(s) = Open
  BY TextIs DEF Ending
<1>2. \A i \in 1 .. 4 : i = 1 \/ i = 2 \/ i = 3 \/ i = 4
  OBVIOUS
<1>3. \A i \in 1 .. 4 : s[i] \notin Quotes \cup {Backslash}
  BY <1>2 DEF Quotes, Backslash, Opening
<1>4. \A i \in 1 .. 4 : Plain(s, i) /\ ~Mark(s, i)
  <2>1. Stretch(s, 1, 4) /\ Before(s, 1) = Open
    BY <1>1, Reading DEF Stretch
  <2> QED
    BY <1>1, <1>3, <2>1, PlainRead
<1>5. Eqs(s) = {4}
  <2>1. \A i \in 1 .. 4 : s[i] = "=" <=> i = 4
    BY <1>2 DEF Opening
  <2>2. \A i \in 5 .. Len(s) : i \notin Eqs(s)
    BY DEF Ending, Eqs
  <2>3. \A i \in 1 .. Len(s) : i \in 1 .. 4 \/ i \in 5 .. Len(s)
    BY <1>1
  <2>4. \A i \in 1 .. Len(s) : i \in Eqs(s) <=> i = 4
    BY <1>1, <1>4, <2>1, <2>2, <2>3 DEF Eqs
  <2> QED
    BY <1>1, <2>4 DEF Eqs
<1>6. Gaps(s) = {2}
  <2>1. \A i \in 1 .. 4 : s[i] \in Blanks <=> i = 2
    BY <1>2 DEF Blanks, Opening
  <2>2. \A i \in 5 .. Len(s) : i \notin Gaps(s)
    BY DEF Ending, Gaps
  <2>3. \A i \in 1 .. Len(s) : i \in 1 .. 4 \/ i \in 5 .. Len(s)
    BY <1>1
  <2>4. \A i \in 1 .. Len(s) : i \in Gaps(s) <=> i = 2
    BY <1>1, <1>4, <2>1, <2>2, <2>3 DEF Gaps
  <2> QED
    BY <1>1, <2>4 DEF Gaps
<1>7. PICK cut : cut = Gaps(s) \cup Eqs(s)
  OBVIOUS
<1>8. cut = {2, 4}
  BY <1>5, <1>6, <1>7
<1>9. Places(s) = {1, 3, 4, 5}
  <2>1. Heads(s, cut) = {1, 3, 5}
    BY <1>1, <1>8 DEF Heads
  <2> QED
    BY <1>5, <1>7, <2>1 DEF Places
<1>10. PICK f : f = <<1, 3, 4, 5>>
  OBVIOUS
<1>11. Increasing(f, 4, Places(s))
  <2>1. f[1] = 1 /\ f[2] = 3 /\ f[3] = 4 /\ f[4] = 5 /\ DOMAIN f = 1 .. 4
    BY <1>10
  <2>2. f \in [1 .. 4 -> Places(s)]
    BY <1>9, <1>10
  <2>3. \A i, j \in 1 .. 4 : i < j => f[i] < f[j]
    BY <1>2, <2>1
  <2>4. \A x \in Places(s) : \E i \in 1 .. 4 : f[i] = x
    <3>1. 1 \in 1 .. 4 /\ 2 \in 1 .. 4 /\ 3 \in 1 .. 4 /\ 4 \in 1 .. 4
      OBVIOUS
    <3> QED
      BY <1>9, <2>1, <3>1
  <2> QED
    BY <2>2, <2>3, <2>4 DEF Increasing
<1>12. InOrder(Places(s)) = f /\ Cardinality(Places(s)) = 4
  <2>1. Places(s) \in SUBSET Nat
    BY <1>9
  <2> QED
    BY <1>11, <2>1, OrderIs
<1>13. EndOf(s, cut, 1) = 1 /\ EndOf(s, cut, 3) = 3 /\ EndOf(s, cut, 5) = Len(s)
  <2>1. {j \in cut : j > 1} = {2, 4} /\ {j \in cut : j > 3} = {4} /\ {j \in cut : j > 5} = {}
    BY <1>8
  <2>2. PICK m : m = Len(s) + 1
    OBVIOUS
  <2>3. m \in Nat /\ m > 5
    BY <1>1, <2>2
  <2>4. Min({2, 4} \cup {m}) = 2
    <3>1. {2, 4} \cup {m} \in SUBSET (0 .. m) /\ 2 \in {2, 4} \cup {m} /\ \A y \in {2, 4} \cup {m} : 2 <= y
      BY <2>3
    <3> QED
      BY <2>3, <3>1, MinIs
  <2>5. Min({4} \cup {m}) = 4
    <3>1. {4} \cup {m} \in SUBSET (0 .. m) /\ 4 \in {4} \cup {m} /\ \A y \in {4} \cup {m} : 4 <= y
      BY <2>3
    <3> QED
      BY <2>3, <3>1, MinIs
  <2>6. Min({} \cup {m}) = m
    <3>1. {} \cup {m} \in SUBSET (0 .. m) /\ m \in {} \cup {m} /\ \A y \in {} \cup {m} : m <= y
      BY <2>3
    <3> QED
      BY <2>3, <3>1, MinIs
  <2>7. EndOf(s, cut, 1) = 2 - 1 /\ EndOf(s, cut, 3) = 4 - 1 /\ EndOf(s, cut, 5) = m - 1
    BY <2>1, <2>2, <2>4, <2>5, <2>6 DEF EndOf
  <2> QED
    BY <1>1, <2>2, <2>7
<1>14. Said(s, 1, 1) = <<"c">> /\ Said(s, 3, 3) = <<"k">> /\ Said(s, 5, Len(s)) = v
  <2>1. 1 \in 1 .. Len(s) /\ 3 \in 1 .. Len(s) /\ ~Mark(s, 1) /\ ~Mark(s, 3)
    BY <1>1, <1>4
  <2> QED
    BY <1>1, <2>1, SaidOne DEF Ending, Opening
<1>15. /\ Token(s, 1) = [type |-> "word", value |-> <<"c">>, quoted |-> FALSE]
       /\ Token(s, 3) = [type |-> "word", value |-> <<"k">>, quoted |-> FALSE]
  <2>1. 1 \notin Eqs(s) /\ 3 \notin Eqs(s)
    BY <1>5
  <2>3. /\ (\E j \in 1 .. 1 : Mark(s, j) /\ s[j] \in Quotes) = FALSE
        /\ (\E j \in 3 .. 3 : Mark(s, j) /\ s[j] \in Quotes) = FALSE
    BY <1>4
  <2> QED
    BY <1>7, <1>13, <1>14, <2>1, <2>3 DEF Token
<1>16. Token(s, 4).type = "eq"
  BY <1>5 DEF Token
<1>17. Token(s, 5).type = "word" /\ Token(s, 5).value = v
  BY <1>5, <1>7, <1>13, <1>14 DEF Token
<1>18. PICK tokens : tokens = Tokenize(s)
  OBVIOUS
<1>19. tokens = [k \in 1 .. 4 |-> Token(s, f[k])] /\ Len(tokens) = 4
  BY <1>1, <1>12, <1>18, TokensAre
<1>20. /\ tokens[1] = Token(s, 1) /\ tokens[2] = Token(s, 3)
       /\ tokens[3] = Token(s, 4) /\ tokens[4] = Token(s, 5)
  BY <1>10, <1>19
<1> QED
  BY <1>4, <1>15, <1>16, <1>17, <1>18, <1>19, <1>20

\* Such a line is a command with one parameter.
One(v) == [command |-> <<"c">>, params |-> {<<<<"k">>, [text |-> v, boolean |-> FALSE]>>}]

\* And the command the parser takes it for.
LEMMA EndingParse ==
  ASSUME NEW s \in Texts, NEW v, Ending(s, 5, v), Opening(s), v # <<"t">>
  PROVE  Parse(s) = One(v)
<1>1. Len(s) \in Nat /\ Len(s) >= 5 /\ DOMAIN s = 1 .. Len(s)
  BY TextIs DEF Ending
<1>2. s # <<>> /\ s[1] # "!" /\ s[1] \notin Blanks /\ s[Len(s)] \notin Blanks
  <2>1. s # <<>>
    BY <1>1, TextShort
  <2>2. s[1] # "!" /\ s[1] \notin Blanks
    BY DEF Opening, Blanks
  <2> QED
    BY <2>1, <2>2 DEF Ending
<1>3. Trim(s) = s
  BY <1>2, TrimNothing
<1>4. ~Starts(s, <<"!", " ">>)
  <2>0. PICK x : x = <<"!", " ">>
    OBVIOUS
  <2>1. x \in Texts /\ Len(x) = 2 /\ x[1] = "!"
    <3>1. "!" \in Chars /\ " " \in Chars
      BY DEF Chars, Blanks
    <3> QED
      BY <2>0, <3>1, TextShort
  <2>2. 1 \in 1 .. Len(x)
    BY <2>1
  <2>3. ~Starts(s, x)
    BY <1>2, <2>1, <2>2, StartsIs
  <2> QED
    BY <2>0, <2>3
<1>5. PICK tokens : tokens = Tokenize(s)
  OBVIOUS
<1>6. /\ Len(tokens) = 4
      /\ tokens[1] = [type |-> "word", value |-> <<"c">>, quoted |-> FALSE]
      /\ tokens[2] = [type |-> "word", value |-> <<"k">>, quoted |-> FALSE]
      /\ tokens[3].type = "eq"
      /\ tokens[4].type = "word" /\ tokens[4].value = v
  BY <1>5, EndingTokens
<1>7. tokens # NoTokens
  <2>1. NoTokens[1].type = "error"
    BY DEF NoTokens
  <2> QED
    BY <1>6, <2>1
<1>8. IsCommand(<<"c">>) /\ IsKey(<<"k">>)
  <2>1. PICK x, y : x = <<"c">> /\ y = <<"k">>
    OBVIOUS
  <2>2. x # <<>> /\ y # <<>> /\ DOMAIN x = {1} /\ DOMAIN y = {1} /\ x[1] = "c" /\ y[1] = "k"
    BY <2>1
  <2>3. {i \in DOMAIN x : x[i] = "c"} = {1} /\ {i \in DOMAIN y : y[i] = "c"} = {}
    BY <2>2
  <2>4. Cardinality({1}) = 1 /\ Cardinality({}) = 0
    BY FS_Singleton, FS_EmptySet
  <2>5. Dots(x) = 1 /\ Dots(y) = 0
    BY <2>3, <2>4 DEF Dots
  <2>6. Letters(x) /\ Letters(y)
    BY <2>2 DEF Letters
  <2>7. IsCommand(x) /\ IsKey(y)
    BY <2>5, <2>6 DEF IsCommand, IsKey
  <2> QED
    BY <2>1, <2>7
<1>9. Coerce(tokens[4]) = [text |-> v, boolean |-> FALSE]
  BY <1>6 DEF Coerce
<1>10. (Len(tokens) - 1) \div 3 = 1
  BY <1>6
<1>11. /\ tokens[1].type = "word" /\ ~tokens[1].quoted /\ IsCommand(tokens[1].value)
       /\ Len(tokens) = 3 * 1 + 1
       /\ \A k \in 1 .. 1 :
            /\ tokens[3 * k - 1].type = "word" /\ ~tokens[3 * k - 1].quoted
            /\ IsKey(tokens[3 * k - 1].value)
            /\ tokens[3 * k].type = "eq" /\ tokens[3 * k + 1].type = "word"
            /\ \A j \in 1 .. k - 1 : tokens[3 * j - 1].value # tokens[3 * k - 1].value
  <2>1. tokens[1].type = "word" /\ ~tokens[1].quoted /\ IsCommand(tokens[1].value)
    BY <1>6, <1>8
  <2>2. ASSUME NEW k \in 1 .. 1
        PROVE /\ tokens[3 * k - 1].type = "word" /\ ~tokens[3 * k - 1].quoted
              /\ IsKey(tokens[3 * k - 1].value)
              /\ tokens[3 * k].type = "eq" /\ tokens[3 * k + 1].type = "word"
              /\ \A j \in 1 .. k - 1 : tokens[3 * j - 1].value # tokens[3 * k - 1].value
    <3>1. k = 1 /\ 3 * k - 1 = 2 /\ 3 * k = 3 /\ 3 * k + 1 = 4 /\ 1 .. k - 1 = {}
      OBVIOUS
    <3> QED
      BY <1>6, <1>8, <3>1
  <2> QED
    BY <1>6, <2>1, <2>2
<1>12. {<<tokens[3 * k - 1].value, Coerce(tokens[3 * k + 1])>> : k \in 1 .. 1}
         = {<<<<"k">>, [text |-> v, boolean |-> FALSE]>>}
  <2> DEFINE e(k) == <<tokens[3 * k - 1].value, Coerce(tokens[3 * k + 1])>>
  <2>1. 3 * 1 - 1 = 2 /\ 3 * 1 + 1 = 4
    OBVIOUS
  <2>2. e(1) = <<<<"k">>, [text |-> v, boolean |-> FALSE]>>
    BY <1>6, <1>9, <2>1
  <2> HIDE DEF e
  <2>3. {e(k) : k \in 1 .. 1} = {e(1)}
    OBVIOUS
  <2>4. {e(k) : k \in 1 .. 1} = {<<<<"k">>, [text |-> v, boolean |-> FALSE]>>}
    BY <2>2, <2>3
  <2> QED
    BY <2>4 DEF e
<1>14. Parse(s) = OfTokens(tokens)
  BY <1>2, <1>3, <1>4, <1>5, <1>7 DEF Parse
<1>13. Parse(s) = [command |-> tokens[1].value,
                   params |-> {<<tokens[3 * k - 1].value, Coerce(tokens[3 * k + 1])>> : k \in 1 .. 1}]
  BY <1>10, <1>11, <1>14 DEF OfTokens
<1> QED
  BY <1>6, <1>12, <1>13 DEF One

\* And the only one of its batch.
LEMMA EndingBatch ==
  ASSUME NEW s \in Texts, NEW v, Ending(s, 5, v), Opening(s)
  PROVE  SplitBatch(s) = <<s>>
<1>1. Len(s) \in Nat /\ Len(s) >= 5 /\ DOMAIN s = 1 .. Len(s)
  BY TextIs DEF Ending
<1>2. s # <<>> /\ s[1] # "!" /\ s[1] \notin Blanks /\ s[Len(s)] \notin Blanks
  <2>1. s # <<>>
    BY <1>1, TextShort
  <2>2. s[1] # "!" /\ s[1] \notin Blanks
    BY DEF Opening, Blanks
  <2> QED
    BY <2>1, <2>2 DEF Ending
<1>3. Trim(s) = s
  BY <1>2, TrimNothing
<1>4. ~Starts(s, <<"!">>)
  <2>1. <<"!">> \in Texts /\ Len(<<"!">>) = 1 /\ <<"!">>[1] = "!"
    BY TextShort, QuoteIs
  <2>2. 1 \in 1 .. Len(<<"!">>)
    BY <2>1
  <2> QED
    BY <1>2, <2>1, <2>2, StartsIs
<1>5. Cuts(s) = {}
  <2>1. ASSUME NEW i \in 1 .. Len(s), CutAt(s, i) PROVE FALSE
    <3>1. CASE i \in 5 .. Len(s)
      BY <2>1, <3>1 DEF Ending, CutAt
    <3>2. CASE i \in 1 .. 4
      <4>1. i = 1 \/ i = 2 \/ i = 3 \/ i = 4
        BY <3>2
      <4>2. s[i] = "&"
        BY <2>1 DEF CutAt
      <4> QED
        BY <4>1, <4>2 DEF Opening
    <3> QED
      BY <1>1, <3>1, <3>2
  <2> QED
    BY <2>1, CutsAre
<1>6. {1} \cup {i + 2 : i \in {}} = {1} /\ {i \in {} : i >= 1} \cup {Len(s) + 1} = {Len(s) + 1}
  OBVIOUS
<1>7. PICK f : f = <<1>>
  OBVIOUS
<1>8. InOrder({1}) = f
  <2>1. Increasing(f, 1, {1})
    BY <1>7 DEF Increasing
  <2>2. 1 \in Nat /\ {1} \in SUBSET Nat
    OBVIOUS
  <2> QED
    BY <2>1, <2>2, OrderIs
<1>9. DOMAIN f = 1 .. 1 /\ f[1] = 1
  BY <1>7
<1>10. Min({Len(s) + 1}) - 1 = Len(s)
  <2>1. PICK m : m = Len(s) + 1
    OBVIOUS
  <2>2. m \in Nat /\ m - 1 = Len(s)
    BY <1>1, <2>1
  <2>3. {m} \in SUBSET (0 .. m) /\ m \in {m} /\ \A y \in {m} : m <= y
    BY <2>2
  <2>4. Min({m}) = m
    BY <2>2, <2>3, MinIs
  <2> QED
    BY <2>1, <2>2, <2>4
<1>11. SubSeq(s, 1, Len(s)) = s
  BY SubSeqFull DEF Texts
<1>12. SplitBatch(s) = LET from == InOrder({1} \cup {i + 2 : i \in {}})
                           part(k) == Trim(SubSeq(s, from[k],
                                      Min({i \in {} : i >= from[k]} \cup {Len(s) + 1}) - 1))
                       IN IF \E k \in DOMAIN from : part(k) = <<>> THEN NoBatch
                          ELSE [k \in DOMAIN from |-> part(k)]
  BY <1>2, <1>3, <1>4, <1>5 DEF SplitBatch
<1> DEFINE part(k) == Trim(SubSeq(s, f[k], Min({i \in {} : i >= f[k]} \cup {Len(s) + 1}) - 1))
<1>13. part(1) = s
  <2>1. {i \in {} : i >= f[1]} \cup {Len(s) + 1} = {Len(s) + 1}
    OBVIOUS
  <2> QED
    BY <1>3, <1>9, <1>10, <1>11, <2>1
<1>14. SplitBatch(s) = IF \E k \in DOMAIN f : part(k) = <<>> THEN NoBatch
                       ELSE [k \in DOMAIN f |-> part(k)]
  BY <1>6, <1>8, <1>12
<1> HIDE DEF part
<1>15. \A k \in DOMAIN f : k = 1
  BY <1>9
<1>16. SplitBatch(s) = [k \in 1 .. 1 |-> part(k)]
  BY <1>2, <1>9, <1>13, <1>14, <1>15
<1>17. [k \in 1 .. 1 |-> part(k)] = <<s>>
  BY <1>13
<1> QED
  BY <1>16, <1>17

\* The beginning of a line with a value.
Lead == <<"c">> \o <<" ">> \o <<"k">> \o <<"=">>

\* The text before the value.
LEMMA LeadIs == Lead \in Texts /\ Len(Lead) = 4 /\ Opening(Lead) /\ Scanned(Lead) = Open
<1>1. {"c", " ", "k", "="} \subseteq Chars
  BY QuoteIs DEF Blanks
<1>2. PICK x : x = <<"c">>
  OBVIOUS
<1>3. x \in Texts /\ Len(x) = 1 /\ x[1] = "c"
  BY <1>1, <1>2, TextShort
<1>4. PICK y : y = x \o <<" ">>
  OBVIOUS
<1>5. y \in Texts /\ Len(y) = 2
  <2>1. y \in Texts /\ Len(y) = Len(x) + 1
    BY <1>1, <1>3, <1>4, ReadOne
  <2>2. Len(x) = 1
    BY <1>3
  <2> QED
    BY <2>1, <2>2
<1>11. y[1] = "c" /\ y[2] = " "
  <2>1. y[Len(x) + 1] = " " /\ \A i \in 1 .. Len(x) : y[i] = x[i]
    BY <1>1, <1>3, <1>4, ReadOne
  <2>2. Len(x) + 1 = 2 /\ 1 \in 1 .. Len(x)
    BY <1>3
  <2> QED
    BY <1>3, <2>1, <2>2
<1>6. PICK z : z = y \o <<"k">>
  OBVIOUS
<1>7. z \in Texts /\ Len(z) = 3
  <2>1. z \in Texts /\ Len(z) = Len(y) + 1
    BY <1>1, <1>5, <1>6, ReadOne
  <2> QED
    BY <1>5, <2>1
<1>12. z[1] = "c" /\ z[2] = " " /\ z[3] = "k"
  <2>1. z[Len(y) + 1] = "k" /\ \A i \in 1 .. Len(y) : z[i] = y[i]
    BY <1>1, <1>5, <1>6, ReadOne
  <2>2. Len(y) + 1 = 3 /\ 1 \in 1 .. Len(y) /\ 2 \in 1 .. Len(y)
    BY <1>5
  <2> QED
    BY <1>11, <2>1, <2>2
<1>8. PICK h : h = z \o <<"=">>
  OBVIOUS
<1>9. h \in Texts /\ Len(h) = 4 /\ Opening(h)
  <2>1. h \in Texts /\ Len(h) = Len(z) + 1 /\ h[Len(z) + 1] = "=" /\ \A i \in 1 .. Len(z) : h[i] = z[i]
    BY <1>1, <1>7, <1>8, ReadOne
  <2>2. Len(z) + 1 = 4 /\ 1 \in 1 .. Len(z) /\ 2 \in 1 .. Len(z) /\ 3 \in 1 .. Len(z)
    BY <1>7
  <2>3. Opening(h)
    BY <1>12, <2>1, <2>2 DEF Opening
  <2> QED
    BY <2>1, <2>2, <2>3
<1>10. Scanned(h) = Open
  <2>1. Stretch(h, 1, 4) /\ Before(h, 1) = Open
    BY <1>9, Reading DEF Stretch
  <2>2. ASSUME NEW i \in 1 .. 4 PROVE h[i] \notin Quotes \cup {Backslash}
    <3>1. i = 1 \/ i = 2 \/ i = 3 \/ i = 4
      OBVIOUS
    <3> QED
      BY <1>9, <3>1 DEF Opening, Quotes, Backslash
  <2>3. \A i \in 1 .. 4 + 1 : Before(h, i) = Open
    BY <1>9, <2>1, <2>2, PlainRead
  <2> QED
    BY <1>9, <2>3 DEF Scanned
<1> QED
  BY <1>2, <1>4, <1>6, <1>8, <1>9, <1>10 DEF Lead

\* A line that begins so.
LEMMA Led ==
  ASSUME NEW w \in Texts
  PROVE  /\ Lead \o w \in Texts /\ Len(Lead \o w) = 4 + Len(w) /\ Opening(Lead \o w)
         /\ \A i \in 1 .. Len(w) : (Lead \o w)[i + 4] = w[i]
         /\ Before(Lead \o w, 5) = Open
<1>1. PICK h : h = Lead
  OBVIOUS
<1>6. PICK s : s = h \o w
  OBVIOUS
<1>2. h \in Texts /\ Len(h) = 4 /\ Opening(h) /\ Scanned(h) = Open
  BY <1>1, LeadIs
<1>3. /\ s \in Texts /\ Len(s) = Len(h) + Len(w)
      /\ \A i \in 1 .. Len(h) : s[i] = h[i]
      /\ \A i \in 1 .. Len(w) : s[i + Len(h)] = w[i]
      /\ \A i \in 1 .. Len(h) + 1 : Before(s, i) = Before(h, i)
  <2>1. h \in Texts
    BY <1>2
  <2> QED
    BY <1>6, <2>1, ReadOn
<1>4. Opening(s)
  <2>1. 1 \in 1 .. 4 /\ 2 \in 1 .. 4 /\ 3 \in 1 .. 4 /\ 4 \in 1 .. 4
    OBVIOUS
  <2> QED
    BY <1>2, <1>3, <2>1 DEF Opening
<1>5. Before(s, 5) = Open
  BY <1>2, <1>3 DEF Scanned
<1> QED
  BY <1>1, <1>2, <1>3, <1>4, <1>5, <1>6

\* A value in quotes.
LEMMA EndingQuoted ==
  ASSUME NEW v \in Texts
  PROVE  Ending(Lead \o InQuotes(v), 5, v)
<1>1. PICK q : q = "\""
  OBVIOUS
<1>2. q \in Quotes
  BY <1>1 DEF Quotes
<1>3. InQuotes(v) = WithQuotes(v, q)
  BY <1>1 DEF InQuotes, WithQuotes
<1>4. PICK s : s = Lead \o InQuotes(v)
  OBVIOUS
<1>5. Wrapped(s, 5, q, v)
  <2>1. Wrapped(Lead \o WithQuotes(v, q), Len(Lead) + 1, q, v)
    BY <1>2, LeadIs, Quoted
  <2>2. Len(Lead) + 1 = 5
    BY LeadIs
  <2> QED
    BY <1>3, <1>4, <2>1, <2>2
<1>6. q \notin Blanks \cup {"=", "&"}
  BY <1>2, QuoteIs
<1>7. ASSUME NEW i \in 5 .. Len(s), Plain(s, i) PROVE s[i] \notin Blanks \cup {"=", "&"}
  <2>1. i = 5 \/ i \in 5 + 1 .. Len(s)
    OBVIOUS
  <2>2. s[i] = q
    BY <1>5, <1>7, <2>1 DEF Wrapped
  <2> QED
    BY <1>6, <2>2
<1> QED
  BY <1>4, <1>5, <1>6, <1>7 DEF Wrapped, Ending

\* A value without anything that would need them.
LEMMA EndingBare ==
  ASSUME NEW v \in Texts, v # <<>>, ~Holds(v, Blanks \cup Quotes \cup {Backslash, "&", "="})
  PROVE  Ending(Lead \o v, 5, v)
<1>1. PICK s, m : s = Lead \o v /\ m = Len(s)
  OBVIOUS
<1>2. s \in Texts /\ m = 4 + Len(v) /\ (\A i \in 1 .. Len(v) : s[i + 4] = v[i]) /\ Before(s, 5) = Open
  BY <1>1, Led
<1>3. Len(v) \in Nat \ {0}
  <2>1. Len(v) \in Nat
    BY TextIs
  <2>2. Len(v) # 0
    BY TextEqual, TextShort
  <2> QED
    BY <2>1, <2>2
<1>4. ASSUME NEW i \in 5 .. m PROVE s[i] \notin Blanks \cup Quotes \cup {Backslash, "&", "="}
  <2>1. i - 4 \in 1 .. Len(v) /\ (i - 4) + 4 = i
    BY <1>2, <1>3
  <2>2. s[i] = v[i - 4]
    BY <1>2, <2>1
  <2>3. i - 4 \in DOMAIN v
    BY <2>1, TextIs
  <2> QED
    BY <2>2, <2>3 DEF Holds
<1>5. Stretch(s, 5, m)
  BY <1>1, <1>2, <1>3 DEF Stretch
<1>6. (\A i \in 5 .. m + 1 : Before(s, i) = Open) /\ \A i \in 5 .. m : ~Mark(s, i)
  <2>1. \A i \in 5 .. m : s[i] \notin Quotes \cup {Backslash}
    BY <1>4
  <2> QED
    BY <1>2, <1>5, <2>1, PlainRead
<1>7. Scanned(s) = Open
  <2>1. m + 1 \in 5 .. m + 1
    BY <1>2, <1>3
  <2> QED
    BY <1>1, <1>6, <2>1 DEF Scanned
<1>8. Said(s, 5, m) = v
  <2>1. Said(s, 5, m) = SubSeq(s, 5, m)
    BY <1>2, <1>5, <1>6, SaidPlainly
  <2>2. PICK u : u = SubSeq(s, 5, m)
    OBVIOUS
  <2>3. u \in Texts /\ Len(u) = m + 1 - 5 /\ \A k \in 1 .. m + 1 - 5 : u[k] = s[5 + k - 1]
    <3>1. 5 \in Nat \ {0} /\ m \in Nat /\ 5 <= m + 1 /\ m <= Len(s)
      BY <1>1, <1>2, <1>3
    <3> QED
      BY <1>2, <2>2, <3>1, TextPart
  <2>4. Len(u) = Len(v)
    BY <1>2, <1>3, <2>3
  <2>5. ASSUME NEW k \in 1 .. Len(u) PROVE u[k] = v[k]
    <3>1. k \in 1 .. m + 1 - 5 /\ k \in 1 .. Len(v) /\ 5 + k - 1 = k + 4
      BY <1>2, <1>3, <2>3, <2>4
    <3> QED
      BY <1>2, <2>3, <3>1
  <2>6. u = v
    BY <2>3, <2>4, <2>5, TextEqual
  <2> QED
    BY <2>1, <2>2, <2>6
<1>9. 5 \in 1 .. m /\ s[m] \notin Blanks
  <2>1. m \in 5 .. m /\ 5 \in 1 .. m
    BY <1>2, <1>3
  <2> QED
    BY <1>4, <2>1
<1>10. \A i \in 5 .. m : s[i] \notin Blanks \cup {"=", "&"}
  BY <1>4
<1>11. Ending(s, 5, v)
  BY <1>1, <1>2, <1>7, <1>8, <1>9, <1>10 DEF Ending
<1> QED
  BY <1>1, <1>11

\* So what is written into a line, either way, is read back.
LEMMA Reread ==
  ASSUME NEW s, NEW v \in Texts, NEW w \in {v, InQuotes(v)}, s = Lead \o w,
         v \notin {<<>>, <<"t">>},
         w = InQuotes(v) \/ ~Holds(v, Blanks \cup Quotes \cup {Backslash, "&", "="})
  PROVE  Parse(s) = One(v) /\ SplitBatch(s) = <<s>>
<1>1. Ending(s, 5, v)
  BY EndingQuoted, EndingBare
<1>2. InQuotes(v) \in Texts
  <2>1. PICK q : q = "\""
    OBVIOUS
  <2>2. q \in Quotes /\ InQuotes(v) = WithQuotes(v, q)
    BY <2>1 DEF Quotes, InQuotes, WithQuotes
  <2> QED
    BY <2>2, QuotedText
<1>3. s \in Texts /\ Opening(s)
  BY <1>2, Led
<1>4. v # <<"t">>
  OBVIOUS
<1> QED
  BY <1>1, <1>3, <1>4, EndingParse, EndingBatch

\* So a value that is written is read back.
LEMMA Written == line \in Texts => WrittenReadsBack
<1>1. SUFFICES ASSUME NEW v, v = line, v \in Texts, v \notin {<<>>, <<"t">>},
                      NEW history, history = FormatHistoryCommand(<<"c">>, <<"k">>, v),
                      NEW edit, edit = EditorAliasCommand(<<"c">>, <<"k">>, v)
               PROVE  /\ Parse(history) = One(v) /\ SplitBatch(history) = <<history>>
                      /\ Holds(v, Blanks \cup Quotes \cup {Backslash}) \/ ~Holds(v, {"=", "&"})
                           => Parse(edit) = One(v) /\ SplitBatch(edit) = <<edit>>
  BY DEF WrittenReadsBack, One
<1>2. PICK x, y : x = QuoteHistoryValue(v) /\ y = QuoteParamValue(v)
  OBVIOUS
<1>3. history = Lead \o x /\ edit = Lead \o y
  BY <1>1, <1>2 DEF Lead, FormatHistoryCommand, EditorAliasCommand
<1>4. /\ x \in {v, InQuotes(v)}
      /\ x = InQuotes(v) \/ ~Holds(v, Blanks \cup Quotes \cup {Backslash, "&", "="})
  BY <1>2 DEF QuoteHistoryValue
<1>5. Parse(history) = One(v) /\ SplitBatch(history) = <<history>>
  BY <1>1, <1>3, <1>4, Reread
<1>6. ASSUME Holds(v, Blanks \cup Quotes \cup {Backslash}) \/ ~Holds(v, {"=", "&"})
      PROVE  Parse(edit) = One(v) /\ SplitBatch(edit) = <<edit>>
  <2>1. /\ y \in {v, InQuotes(v)}
        /\ y = InQuotes(v) \/ ~Holds(v, Blanks \cup Quotes \cup {Backslash, "&", "="})
    <3>1. CASE Holds(v, Blanks \cup Quotes \cup {Backslash})
      BY <1>2, <3>1 DEF QuoteParamValue
    <3>2. CASE ~Holds(v, Blanks \cup Quotes \cup {Backslash}) /\ ~Holds(v, {"=", "&"})
      <4>1. ~Holds(v, Blanks \cup Quotes \cup {Backslash, "&", "="})
        BY <3>2 DEF Holds
      <4> QED
        BY <1>2, <3>2, <4>1 DEF QuoteParamValue
    <3> QED
      BY <1>6, <3>1, <3>2
  <2> QED
    BY <1>1, <1>3, <2>1, Reread
<1> QED
  BY <1>5, <1>6

-----------------------------------------------------------------------------
(* The last command of a batch.                                            *)

\* The last of some places is the greatest.
LEMMA OrderLast ==
  ASSUME NEW f, NEW n \in Nat, NEW places \in SUBSET Nat, Increasing(f, n, places),
         NEW x \in places, \A y \in places : y <= x
  PROVE  n \in 1 .. n /\ f[n] = x
<1>1. PICK i \in 1 .. n : f[i] = x
  BY DEF Increasing
<1>2. n \in 1 .. n /\ f[n] \in places /\ f[n] \in Nat /\ x \in Nat
  <2>1. n \in 1 .. n
    BY <1>1
  <2>2. f[n] \in places
    BY <2>1 DEF Increasing
  <2> QED
    BY <2>1, <2>2
<1>3. SUFFICES ASSUME i # n PROVE FALSE
  BY <1>1, <1>2
<1>4. i < n
  BY <1>1, <1>3
<1>5. f[i] < f[n]
  BY <1>1, <1>2, <1>4 DEF Increasing
<1>6. f[n] <= x
  BY <1>2
<1> QED
  BY <1>1, <1>2, <1>5, <1>6

\* The greatest, as the code looks for it.
LEMMA GreatestIs ==
  ASSUME NEW b \in Nat, NEW T \in SUBSET (0 .. b), T # {}
  PROVE  /\ (CHOOSE i \in T : \A j \in T : j <= i) \in T
         /\ \A y \in T : y <= (CHOOSE i \in T : \A j \in T : j <= i)
<1>1. \E i \in T : \A j \in T : j <= i
  BY Greatest
<1> QED
  BY <1>1

\* The last command of the batch is the one behind the last separator.
LEMMA SegmentIs ==
  ASSUME NEW s \in Texts
  PROVE  /\ SegmentStart(s) \in 0 .. Len(s)
         /\ \/ SegmentStart(s) = 0 /\ (Starts(Trim(s), <<"!">>) \/ Cuts(s) = {})
            \/ /\ ~Starts(Trim(s), <<"!">>) /\ SegmentStart(s) - 1 \in Cuts(s)
               /\ \A j \in Cuts(s) : j <= SegmentStart(s) - 1
<1>1. Len(s) \in Nat
  BY TextIs
<1>2. Cuts(s) \in SUBSET (0 .. Len(s)) /\ \A i \in Cuts(s) : i \in 1 .. Len(s) - 1
  BY <1>1, CutsAre DEF CutAt
<1>3. CASE Starts(Trim(s), <<"!">>) \/ Cuts(s) = {}
  BY <1>1, <1>3 DEF SegmentStart
<1>4. CASE ~Starts(Trim(s), <<"!">>) /\ Cuts(s) # {}
  <2>1. PICK i : i = CHOOSE x \in Cuts(s) : \A j \in Cuts(s) : j <= x
    OBVIOUS
  <2>2. i \in Cuts(s) /\ \A j \in Cuts(s) : j <= i
    BY <1>1, <1>2, <1>4, <2>1, GreatestIs
  <2>3. SegmentStart(s) = i + 1
    BY <1>4, <2>1 DEF SegmentStart
  <2>4. i \in 1 .. Len(s) - 1 /\ (i + 1) - 1 = i /\ i + 1 \in 0 .. Len(s)
    BY <1>1, <1>2, <2>2
  <2> QED
    BY <1>4, <2>2, <2>3, <2>4
<1> QED
  BY <1>3, <1>4

\* What the completion takes for the last command is the last of the batch.
LEMMA LastOfBatch ==
  ASSUME NEW s \in Texts, SplitBatch(s) # NoBatch
  PROVE  Trim(From(s, SegmentStart(s))) = SplitBatch(s)[Len(SplitBatch(s))]
<1>1. Len(s) \in Nat /\ DOMAIN s = 1 .. Len(s)
  BY TextIs
<1>2. From(s, 0) = s
  <2>1. SubSeq(s, 1, Len(s)) = s
    BY SubSeqFull DEF Texts
  <2> QED
    BY <2>1 DEF From
<1>3. CASE Trim(s) = <<>> \/ Starts(Trim(s), <<"!">>)
  <2>1. SplitBatch(s) = <<Trim(s)>>
    BY <1>3 DEF SplitBatch
  <2>2. PICK x : x = Trim(s)
    OBVIOUS
  <2>3. Len(<<x>>) = 1 /\ <<x>>[1] = x
    OBVIOUS
  <2>4. SegmentStart(s) = 0
    <3>1. CASE Starts(Trim(s), <<"!">>)
      BY <3>1 DEF SegmentStart
    <3>2. CASE Trim(s) = <<>>
      <4>1. \A i \in 1 .. Len(s) : s[i] \in Blanks
        BY <3>2, TrimIs
      <4>2. \A i \in 1 .. Len(s) : s[i] # "&"
        BY <4>1 DEF Blanks
      <4>3. Cuts(s) = {}
        BY <1>1, <4>2, CutsAre DEF CutAt
      <4> QED
        BY <4>3 DEF SegmentStart
    <3> QED
      BY <1>3, <3>1, <3>2
  <2> QED
    BY <1>2, <2>1, <2>2, <2>3, <2>4
<1>4. CASE Trim(s) # <<>> /\ ~Starts(Trim(s), <<"!">>)
  <2>1. PICK cuts : cuts = Cuts(s)
    OBVIOUS
  <2>2. \A i \in cuts : i \in 1 .. Len(s) - 1
    BY <1>1, <2>1, CutsAre DEF CutAt
  <2>3. PICK places : places = {1} \cup {i + 2 : i \in cuts}
    OBVIOUS
  <2>4. places \in SUBSET (0 .. Len(s) + 1)
    BY <1>1, <2>2, <2>3
  <2>5. PICK f, n : f = InOrder(places) /\ n = Cardinality(places)
    OBVIOUS
  <2>6. Increasing(f, n, places) /\ n \in Nat
    <3>1. Len(s) + 1 \in Nat
      BY <1>1
    <3> QED
      BY <2>4, <2>5, <3>1, Ordered
  <2>7. DOMAIN f = 1 .. n
    BY <2>6 DEF Increasing
  <2> DEFINE part(k) == Trim(SubSeq(s, f[k], Min({i \in cuts : i >= f[k]} \cup {Len(s) + 1}) - 1))
  <2>8. SplitBatch(s) = IF \E k \in DOMAIN f : part(k) = <<>> THEN NoBatch
                        ELSE [k \in DOMAIN f |-> part(k)]
    BY <1>4, <2>1, <2>3, <2>5 DEF SplitBatch
  <2>9. PICK m : m = SegmentStart(s)
    OBVIOUS
  <2>10. m \in Nat /\ m + 1 \in places /\ (\A y \in places : y <= m + 1)
         /\ {i \in cuts : i >= m + 1} = {}
    <3>1. CASE cuts = {}
      <4>1. m = 0
        BY <2>1, <2>9, <3>1 DEF SegmentStart
      <4>2. places = {1}
        BY <2>3, <3>1
      <4> QED
        BY <3>1, <4>1, <4>2
    <3>2. CASE cuts # {}
      <4>1. m - 1 \in cuts /\ \A j \in cuts : j <= m - 1
        BY <1>4, <2>1, <2>9, <3>2, SegmentIs
      <4>2. m \in Nat
        BY <2>9, SegmentIs, <1>1
      <4>3. (m - 1) + 2 = m + 1 /\ 1 <= m + 1
        BY <4>2
      <4>4. m + 1 \in places
        BY <2>3, <4>1, <4>3
      <4>5. ASSUME NEW y \in places PROVE y <= m + 1
        <5>1. CASE y = 1
          BY <4>3, <5>1
        <5>2. CASE y \in {i + 2 : i \in cuts}
          <6>1. PICK i \in cuts : y = i + 2
            BY <5>2
          <6>2. i <= m - 1 /\ i \in Nat
            BY <1>1, <2>2, <4>1
          <6> QED
            BY <4>2, <6>1, <6>2
        <5> QED
          BY <2>3, <5>1, <5>2
      <4>6. \A i \in cuts : ~(i >= m + 1)
        <5>1. SUFFICES ASSUME NEW i \in cuts PROVE ~(i >= m + 1)
          OBVIOUS
        <5>2. i <= m - 1 /\ i \in Nat
          BY <1>1, <2>2, <4>1
        <5> QED
          BY <4>2, <5>2
      <4> QED
        BY <4>2, <4>4, <4>5, <4>6
    <3> QED
      BY <3>1, <3>2
  <2>11. n \in 1 .. n /\ f[n] = m + 1
    <3>1. places \in SUBSET Nat
      BY <1>1, <2>4
    <3> QED
      BY <2>6, <2>10, <3>1, OrderLast
  <2>12. part(n) = Trim(From(s, m))
    <3>1. {i \in cuts : i >= f[n]} \cup {Len(s) + 1} = {Len(s) + 1}
      BY <2>10, <2>11
    <3>2. Min({Len(s) + 1}) - 1 = Len(s)
      <4>1. PICK e : e = Len(s) + 1
        OBVIOUS
      <4>2. e \in Nat /\ e - 1 = Len(s)
        BY <1>1, <4>1
      <4>3. {e} \in SUBSET (0 .. e) /\ e \in {e} /\ \A y \in {e} : e <= y
        BY <4>2
      <4>4. Min({e}) = e
        BY <4>2, <4>3, MinIs
      <4> QED
        BY <4>1, <4>2, <4>4
    <3> QED
      BY <2>11, <3>1, <3>2 DEF From
  <2> HIDE DEF part
  <2>13. PICK g : g = [k \in DOMAIN f |-> part(k)]
    OBVIOUS
  <2>14. SplitBatch(s) = g
    BY <2>8, <2>13
  <2>15. Len(g) = n /\ g[n] = part(n)
    <3>1. PICK V : V = {part(k) : k \in 1 .. n}
      OBVIOUS
    <3>2. g \in [1 .. n -> V]
      BY <2>7, <2>13, <3>1
    <3>3. g \in Seq(V)
      BY <2>6, <3>2
    <3>4. Len(g) = n
      BY <2>6, <3>2, <3>3
    <3> QED
      BY <2>7, <2>11, <2>13, <3>4
  <2> QED
    BY <2>9, <2>12, <2>14, <2>15
<1> QED
  BY <1>3, <1>4

-----------------------------------------------------------------------------
(* A command with its parameters, as the parser and the page see it.       *)

\* Where a stretch ends: before the next cut, or with the text.
LEMMA EndIs ==
  ASSUME NEW s \in Texts, NEW cut \in SUBSET (1 .. Len(s)), NEW i \in 1 .. Len(s)
  PROVE  /\ EndOf(s, cut, i) \in i .. Len(s)
         /\ \A j \in i + 1 .. EndOf(s, cut, i) : j \notin cut
         /\ EndOf(s, cut, i) = Len(s) \/ EndOf(s, cut, i) + 1 \in cut
<1>1. Len(s) \in Nat
  BY TextIs
<1>2. PICK T, m : T = {j \in cut : j > i} \cup {Len(s) + 1} /\ m = Len(s) + 1
  OBVIOUS
<1>3. T \in SUBSET (0 .. m) /\ T # {} /\ m \in Nat /\ m \in T
  <2>1. m \in Nat /\ m \in T
    BY <1>1, <1>2
  <2>2. ASSUME NEW y \in T PROVE y \in 0 .. m
    <3>1. y = m \/ y \in 1 .. Len(s)
      BY <1>2
    <3> QED
      BY <1>1, <1>2, <2>1, <3>1
  <2> QED
    BY <2>1, <2>2
<1>4. PICK x : x = Min(T)
  OBVIOUS
<1>5. x \in T /\ \A y \in T : x <= y
  BY <1>3, <1>4, Least
<1>6. EndOf(s, cut, i) = x - 1
  BY <1>2, <1>4 DEF EndOf
<1>7. x \in i + 1 .. m /\ (x = m \/ x \in cut)
  BY <1>1, <1>2, <1>5
<1>8. ASSUME NEW j \in i + 1 .. x - 1, j \in cut PROVE FALSE
  <2>1. j \in T
    BY <1>2, <1>8
  <2>2. x <= j
    BY <1>5, <2>1
  <2> QED
    BY <1>1, <1>2, <1>7, <2>2
<1> QED
  BY <1>1, <1>2, <1>6, <1>7, <1>8

\* And nowhere else.
LEMMA EndOnly ==
  ASSUME NEW s \in Texts, NEW cut \in SUBSET (1 .. Len(s)), NEW i \in 1 .. Len(s),
         NEW e \in i .. Len(s), \A j \in i + 1 .. e : j \notin cut, e = Len(s) \/ e + 1 \in cut
  PROVE  EndOf(s, cut, i) = e
<1>1. PICK d : d = EndOf(s, cut, i)
  OBVIOUS
<1>2. d \in i .. Len(s) /\ (\A j \in i + 1 .. d : j \notin cut) /\ (d = Len(s) \/ d + 1 \in cut)
  BY <1>1, EndIs
<1>3. Len(s) \in Nat
  BY TextIs
<1>4. CASE d < e
  <2>1. d + 1 \in cut /\ d + 1 \in i + 1 .. e
    BY <1>2, <1>3, <1>4
  <2> QED
    BY <2>1
<1>5. CASE e < d
  <2>1. e + 1 \in cut /\ e + 1 \in i + 1 .. d
    BY <1>2, <1>3, <1>5
  <2> QED
    BY <1>2, <2>1
<1> QED
  BY <1>1, <1>2, <1>3, <1>4, <1>5

\* Where stretches start between places in cut, up to b.
Starting(b, cut) == {i \in (1 .. b) \ cut : i = 1 \/ i - 1 \in cut}

\* Before a place that is not cut a stretch starts, behind any that is.
LEMMA StartBefore ==
  ASSUME NEW b \in Nat, NEW cut \in SUBSET (1 .. b), NEW y \in (1 .. b) \ cut, NEW x \in cut, x < y
  PROVE  \E h \in Starting(b, cut) : x < h /\ h <= y
<1>1. PICK T : T = {j \in cut : j < y}
  OBVIOUS
<1>2. T \in SUBSET (0 .. b) /\ T # {}
  <2>1. \A j \in T : j \in 1 .. b
    BY <1>1
  <2>2. x \in T
    BY <1>1
  <2> QED
    BY <2>1, <2>2
<1>3. PICK g \in T : \A j \in T : j <= g
  BY <1>2, Greatest
<1>4. g \in cut /\ g \in 1 .. b /\ g < y /\ x <= g /\ x \in 1 .. b
  BY <1>1, <1>3
<1>5. g + 1 \notin cut
  <2>1. SUFFICES ASSUME g + 1 \in cut PROVE FALSE
    OBVIOUS
  <2>2. g + 1 < y
    BY <1>4, <2>1
  <2>3. g + 1 \in T
    BY <1>1, <2>1, <2>2
  <2> QED
    BY <1>3, <1>4, <2>3
<1>6. g + 1 \in 1 .. b /\ (g + 1) - 1 = g /\ x < g + 1 /\ g + 1 <= y
  BY <1>4
<1>7. g + 1 \in Starting(b, cut)
  BY <1>4, <1>5, <1>6 DEF Starting
<1> QED
  BY <1>6, <1>7

\* Between two places that follow each other in the order there is none, nor before the first
\* and behind the last.
LEMMA NoneBetween ==
  ASSUME NEW n \in Nat, NEW places \in SUBSET Nat, NEW f, Increasing(f, n, places),
         NEW x \in places, NEW m \in 0 .. n
  PROVE  /\ m = 0 /\ n > 0 => f[1] <= x
         /\ m = n /\ n > 0 => x <= f[n]
         /\ m > 0 /\ m < n => x <= f[m] \/ f[m + 1] <= x
<1>1. PICK i \in 1 .. n : f[i] = x
  BY DEF Increasing
<1>2. \A j \in 1 .. n : f[j] \in Nat
  BY DEF Increasing
<1>3. ASSUME NEW j \in 1 .. n, j <= i PROVE f[j] <= x
  <2>1. j < i => f[j] < f[i]
    BY DEF Increasing
  <2> QED
    BY <1>1, <1>2, <1>3, <2>1
<1>4. ASSUME NEW j \in 1 .. n, i <= j PROVE x <= f[j]
  <2>1. i < j => f[i] < f[j]
    BY DEF Increasing
  <2> QED
    BY <1>1, <1>2, <1>4, <2>1
<1>5. ASSUME n > 0 PROVE f[1] <= x /\ x <= f[n]
  <2>1. 1 \in 1 .. n /\ n \in 1 .. n /\ 1 <= i /\ i <= n
    BY <1>5
  <2> QED
    BY <1>3, <1>4, <2>1
<1>6. ASSUME m > 0, m < n PROVE x <= f[m] \/ f[m + 1] <= x
  <2>1. m \in 1 .. n /\ m + 1 \in 1 .. n /\ (i <= m \/ m + 1 <= i)
    BY <1>6
  <2> QED
    BY <1>3, <1>4, <2>1
<1> QED
  BY <1>5, <1>6

\* The places of a command's words and equals signs, no sign with a blank beside it.
Layout(b, E, G, f, c) ==
  /\ b \in Nat /\ c \in Nat /\ E \in SUBSET (1 .. b) /\ G \in SUBSET (1 .. b)
  /\ \A i \in E : i \notin G /\ i - 1 \notin G /\ i + 1 \notin G
  /\ Increasing(f, 3 * c + 1, Starting(b, E \cup G) \cup E)
  /\ f[1] \notin E
  /\ \A k \in 1 .. c : f[3 * k - 1] \notin E /\ f[3 * k] \in E /\ f[3 * k + 1] \notin E

\* The places of such a layout are in the line, in their order.
LEMMA LaidOut ==
  ASSUME NEW b, NEW E, NEW G, NEW f, NEW c, Layout(b, E, G, f, c)
  PROVE  /\ \A m \in 1 .. 3 * c + 1 : f[m] \in 1 .. b /\ f[m] \in Starting(b, E \cup G) \cup E
         /\ \A l, m \in 1 .. 3 * c + 1 : l < m => f[l] < f[m]
         /\ Starting(b, E \cup G) \cup E \in SUBSET Nat
         /\ E \cup G \in SUBSET (1 .. b) /\ 3 * c + 1 \in Nat /\ b \in Nat
<1> USE DEF Layout
<1>1. Starting(b, E \cup G) \cup E \in SUBSET (1 .. b)
  BY DEF Starting
<1>2. ASSUME NEW m \in 1 .. 3 * c + 1
      PROVE  f[m] \in 1 .. b /\ f[m] \in Starting(b, E \cup G) \cup E
  BY <1>1 DEF Increasing
<1>3. \A l, m \in 1 .. 3 * c + 1 : l < m => f[l] < f[m]
  BY DEF Increasing
<1>4. E \cup G \in SUBSET (1 .. b) /\ 3 * c + 1 \in Nat /\ b \in Nat
  OBVIOUS
<1>5. Starting(b, E \cup G) \cup E \in SUBSET Nat
  <2>1. PICK places : places = Starting(b, E \cup G) \cup E
    OBVIOUS
  <2>2. \A x \in places : x \in 1 .. b
    BY <1>1, <2>1
  <2>3. \A x \in places : x \in Nat
    BY <2>2
  <2> QED
    BY <2>1, <2>3
<1> HIDE DEF Layout
<1> QED
  BY <1>2, <1>3, <1>4, <1>5

\* The value follows its sign at once, and so does the sign its key.
LEMMA NoBreak ==
  ASSUME NEW b, NEW E, NEW G, NEW f, NEW c, Layout(b, E, G, f, c), NEW k \in 1 .. c
  PROVE  /\ f[3 * k + 1] = f[3 * k] + 1
         /\ \A j \in f[3 * k - 1] .. f[3 * k] - 1 : j \notin E \cup G
<1>1. PICK cut, places : cut = E \cup G /\ places = Starting(b, E \cup G) \cup E
  OBVIOUS
<1>2. PICK h, e, v : h = f[3 * k - 1] /\ e = f[3 * k] /\ v = f[3 * k + 1]
  OBVIOUS
<1>3. c \in Nat /\ k \in Nat /\ k >= 1 /\ k <= c
  BY DEF Layout
<1>4. /\ 3 * k - 1 \in 1 .. 3 * c + 1 /\ 3 * k \in 1 .. 3 * c + 1 /\ 3 * k + 1 \in 1 .. 3 * c + 1
      /\ 3 * k - 1 < 3 * k /\ 3 * k < 3 * k + 1
  BY <1>3
<1>5. h \in 1 .. b /\ e \in 1 .. b /\ v \in 1 .. b /\ h < e /\ e < v /\ b \in Nat
  BY <1>2, <1>4, LaidOut
<1>6. e \in E /\ h \notin E /\ v \notin E /\ e - 1 \notin G /\ e + 1 \notin G
  BY <1>2 DEF Layout
<1>7. cut \in SUBSET (1 .. b) /\ places \in SUBSET Nat /\ Increasing(f, 3 * c + 1, places)
  BY <1>1, LaidOut DEF Layout
<1>8. \A x \in places : (x <= h \/ e <= x) /\ (x <= e \/ v <= x)
  <2>1. SUFFICES ASSUME NEW x \in places PROVE (x <= h \/ e <= x) /\ (x <= e \/ v <= x)
    OBVIOUS
  <2>2. PICK n : n = 3 * c + 1
    OBVIOUS
  <2>3. n \in Nat /\ Increasing(f, n, places)
    BY <1>3, <1>7, <2>2
  <2>4. PICK m : m = 3 * k - 1
    OBVIOUS
  <2>5. m \in 0 .. n /\ m > 0 /\ m < n /\ m + 1 = 3 * k /\ m + 1 \in 0 .. n /\ m + 1 > 0 /\ m + 1 < n
        /\ (m + 1) + 1 = 3 * k + 1
    BY <1>3, <2>2, <2>4
  <2>6. x <= f[m] \/ f[m + 1] <= x
    BY <1>7, <2>3, <2>5, NoneBetween
  <2>7. x <= f[m + 1] \/ f[(m + 1) + 1] <= x
    BY <1>7, <2>3, <2>5, NoneBetween
  <2> QED
    BY <1>2, <2>4, <2>5, <2>6, <2>7
<1>9. v = e + 1
  <2>1. SUFFICES ASSUME e + 1 < v PROVE FALSE
    BY <1>5
  <2>2. e + 1 \in 1 .. b /\ (e + 1) - 1 = e
    BY <1>5, <2>1
  <2>3. e + 1 \in places
    BY <1>1, <1>6, <2>2 DEF Starting
  <2> QED
    BY <1>5, <1>8, <2>1, <2>3
<1>10. ASSUME NEW j \in h .. e - 1, j \in cut PROVE FALSE
  <2>1. j \notin E
    <3>1. CASE j = h
      BY <1>6, <3>1
    <3>2. CASE j # h /\ j \in E
      <4>1. j \in places /\ h < j /\ j < e
        BY <1>1, <1>5, <1>10, <3>2
      <4> QED
        BY <1>5, <1>8, <4>1
    <3> QED
      BY <3>1, <3>2
  <2>2. j \in G /\ j # e - 1 /\ j < e - 1 /\ j \in 1 .. b
    BY <1>1, <1>5, <1>6, <1>10, <2>1
  <2>3. CASE e - 1 \in E
    <3>1. e - 1 \in places /\ h < e - 1 /\ e - 1 < e
      BY <1>1, <1>5, <1>10, <2>2, <2>3
    <3> QED
      BY <1>5, <1>8, <3>1
  <2>4. CASE e - 1 \notin E
    <3>1. e - 1 \in (1 .. b) \ cut
      BY <1>1, <1>5, <1>6, <2>2, <2>4
    <3>2. PICK y \in Starting(b, cut) : j < y /\ y <= e - 1
      BY <1>5, <1>7, <1>10, <2>2, <3>1, StartBefore
    <3>3. y \in places /\ y \in 1 .. b
      BY <1>1, <3>2 DEF Starting
    <3>4. h < y /\ y < e
      BY <1>5, <1>10, <3>2, <3>3
    <3> QED
      BY <1>5, <1>8, <3>3, <3>4
  <2> QED
    BY <2>3, <2>4
<1> QED
  BY <1>1, <1>2, <1>9, <1>10

\* Behind the command and behind a value there is a blank before the next sign.
LEMMA BlankBetween ==
  ASSUME NEW b, NEW E, NEW G, NEW f, NEW c, Layout(b, E, G, f, c),
         NEW m \in 1 .. 3 * c + 1, m = 1 \/ \E k \in 1 .. c : m = 3 * k + 1,
         NEW z \in E, f[m] < z
  PROVE  f[m] \notin E \cup G /\ \E y \in G : f[m] < y /\ y < z
<1>1. PICK cut, places : cut = E \cup G /\ places = Starting(b, E \cup G) \cup E
  OBVIOUS
<1>2. PICK n, w : n = 3 * c + 1 /\ w = f[m]
  OBVIOUS
<1>3. c \in Nat /\ m \in Nat /\ n \in Nat /\ m \in 0 .. n /\ m > 0
  BY <1>2 DEF Layout
<1>4. Increasing(f, n, places) /\ places \in SUBSET Nat /\ z \in places /\ cut \in SUBSET (1 .. b)
  BY <1>1, <1>2, LaidOut DEF Layout
<1>5. m < n
  <2>1. SUFFICES ASSUME m = n PROVE FALSE
    BY <1>2, <1>3
  <2>2. z <= f[n]
    BY <1>3, <1>4, <2>1, NoneBetween
  <2>3. f[m] \in 1 .. b
    BY LaidOut
  <2>4. f[m] \in Nat /\ z \in Nat
    BY <1>4, <2>3
  <2> QED
    BY <2>1, <2>2, <2>4
<1>6. PICK h : h = f[m + 1]
  OBVIOUS
<1>7. w \in 1 .. b /\ h \in 1 .. b /\ w < h /\ w \in places /\ h \in places /\ b \in Nat
  <2>1. m \in 1 .. 3 * c + 1 /\ m + 1 \in 1 .. 3 * c + 1 /\ m < m + 1
    BY <1>2, <1>3, <1>5
  <2> QED
    BY <1>1, <1>2, <1>6, <2>1, LaidOut
<1>8. h <= z
  <2>1. z <= w \/ h <= z
    BY <1>2, <1>3, <1>4, <1>5, <1>6, NoneBetween
  <2> QED
    BY <1>2, <1>4, <1>7, <2>1
<1>9. h \notin E /\ w \notin E
  <2>1. CASE m = 1
    <3>1. 1 \in 1 .. c /\ m + 1 = 3 * 1 - 1
      BY <1>2, <1>3, <1>5, <2>1
    <3> QED
      BY <1>2, <1>6, <2>1, <3>1 DEF Layout
  <2>2. CASE \E k \in 1 .. c : m = 3 * k + 1
    <3>1. PICK k \in 1 .. c : m = 3 * k + 1
      BY <2>2
    <3>2. k + 1 \in 1 .. c /\ m + 1 = 3 * (k + 1) - 1
      BY <1>2, <1>3, <1>5, <3>1
    <3> QED
      BY <1>2, <1>6, <3>1, <3>2 DEF Layout
  <2> QED
    BY <2>1, <2>2
<1>10. h - 1 \in cut /\ w \notin cut
  <2>1. h \in Starting(b, cut) /\ w \in Starting(b, cut)
    BY <1>1, <1>7, <1>9
  <2>2. h # 1
    BY <1>7
  <2> QED
    BY <2>1, <2>2 DEF Starting
<1>11. h - 1 \notin E
  <2>1. SUFFICES ASSUME h - 1 \in E PROVE FALSE
    OBVIOUS
  <2>2. h - 1 \in places
    BY <1>1, <2>1
  <2>3. h - 1 <= w \/ h <= h - 1
    BY <1>2, <1>3, <1>4, <1>5, <1>6, <2>2, NoneBetween
  <2>4. h - 1 = w
    BY <1>7, <2>3
  <2> QED
    BY <1>9, <2>1, <2>4
<1>12. h - 1 \in G /\ w < h - 1 /\ h - 1 < z
  <2>1. h - 1 \in G
    BY <1>1, <1>10, <1>11
  <2>2. h - 1 # w
    BY <1>10
  <2>3. z \in Nat
    BY <1>4
  <2> QED
    BY <1>7, <1>8, <2>1, <2>2, <2>3
<1> QED
  BY <1>1, <1>2, <1>10, <1>12

\* So at blanks alone a stretch starts at the command and at each key.
LEMMA BlankStarts ==
  ASSUME NEW b, NEW E, NEW G, NEW f, NEW c, Layout(b, E, G, f, c)
  PROVE  Increasing([k \in 1 .. c + 1 |-> IF k = 1 THEN f[1] ELSE f[3 * k - 4]], c + 1,
                    Starting(b, G))
<1>1. PICK cut, places : cut = E \cup G /\ places = Starting(b, E \cup G) \cup E
  OBVIOUS
<1>2. PICK n, heads : n = 3 * c + 1 /\ heads = Starting(b, G)
  OBVIOUS
<1>3. c \in Nat /\ n \in Nat /\ b \in Nat
  BY <1>2 DEF Layout
<1>4. Increasing(f, n, places) /\ places \in SUBSET Nat /\ cut \in SUBSET (1 .. b)
  BY <1>1, <1>2, LaidOut DEF Layout
<1>5. \A m \in 1 .. n : f[m] \in 1 .. b /\ f[m] \in places
  BY <1>1, <1>2, LaidOut
<1>20. \A l, m \in 1 .. n : l < m => f[l] < f[m]
  BY <1>1, <1>2, LaidOut
<1>6. f[1] \in heads
  <2>1. 1 \in 1 .. n
    BY <1>2, <1>3
  <2>2. f[1] \in Starting(b, cut) /\ f[1] \in 1 .. b
    BY <1>1, <1>5, <2>1 DEF Layout
  <2>3. CASE f[1] = 1
    BY <1>1, <1>2, <2>2, <2>3 DEF Starting
  <2>4. CASE f[1] # 1
    <3>1. f[1] - 1 \in cut /\ f[1] \notin G
      BY <1>1, <2>2, <2>4 DEF Starting
    <3>2. f[1] - 1 \notin E
      <4>1. SUFFICES ASSUME f[1] - 1 \in places PROVE FALSE
        BY <1>1
      <4>2. 0 \in 0 .. n /\ n > 0
        BY <1>2, <1>3
      <4>3. f[1] <= f[1] - 1
        BY <1>3, <1>4, <4>1, <4>2, NoneBetween
      <4> QED
        BY <2>2, <4>3
    <3> QED
      BY <1>1, <1>2, <2>2, <3>1, <3>2 DEF Starting
  <2> QED
    BY <2>3, <2>4
<1>7. ASSUME NEW k \in 1 .. c PROVE f[3 * k - 1] \in heads
  <2>1. PICK m, h, w : m = 3 * k - 2 /\ h = f[3 * k - 1] /\ w = f[m]
    OBVIOUS
  <2>2. m \in 1 .. n /\ m + 1 \in 1 .. n /\ m \in 0 .. n /\ m > 0 /\ m < n /\ m + 1 = 3 * k - 1
    BY <1>2, <1>3, <2>1
  <2>3. h = f[m + 1] /\ h \in 1 .. b /\ w \in 1 .. b /\ w < h /\ h \in places
    BY <1>5, <1>20, <2>1, <2>2
  <2>4. h \notin E /\ w \notin E
    <3>1. h \notin E
      BY <2>1 DEF Layout
    <3>2. CASE k = 1
      <4>1. m = 1
        BY <2>1, <3>2
      <4> QED
        BY <2>1, <3>1, <4>1 DEF Layout
    <3>3. CASE k # 1
      <4>1. k - 1 \in 1 .. c /\ m = 3 * (k - 1) + 1
        BY <1>3, <2>1, <3>3
      <4> QED
        BY <2>1, <3>1, <4>1 DEF Layout
    <3> QED
      BY <3>2, <3>3
  <2>5. h \in Starting(b, cut) /\ h # 1
    BY <1>1, <1>3, <2>3, <2>4
  <2>6. h - 1 \in cut /\ h \notin G
    BY <1>1, <2>5 DEF Starting
  <2>7. h - 1 \notin E
    <3>1. SUFFICES ASSUME h - 1 \in E PROVE FALSE
      OBVIOUS
    <3>2. h - 1 \in places
      BY <1>1, <3>1
    <3>3. h - 1 <= w \/ h <= h - 1
      BY <1>3, <1>4, <2>1, <2>2, <2>3, <3>2, NoneBetween
    <3>4. h - 1 = w
      BY <1>3, <2>3, <3>3
    <3> QED
      BY <2>4, <3>1, <3>4
  <2>8. h \in heads
    BY <1>1, <1>2, <2>3, <2>6, <2>7 DEF Starting
  <2> QED
    BY <2>1, <2>8
<1>8. ASSUME NEW x \in heads, x # f[1] PROVE \E k \in 1 .. c : x = f[3 * k - 1]
  <2>1. x \in 1 .. b /\ x \notin G /\ (x = 1 \/ x - 1 \in G)
    BY <1>2 DEF Starting
  <2>2. x \notin E
    <3>1. SUFFICES ASSUME x \in E PROVE FALSE
      OBVIOUS
    <3>2. x = 1
      BY <2>1, <3>1 DEF Layout
    <3>3. x \in places /\ 0 \in 0 .. n /\ n > 0 /\ 1 \in 1 .. n
      BY <1>1, <1>2, <1>3, <3>1
    <3>4. f[1] <= x
      BY <1>3, <1>4, <3>3, NoneBetween
    <3>5. f[1] = x
      BY <1>3, <1>5, <3>2, <3>3, <3>4
    <3> QED
      BY <1>8, <3>5
  <2>3. x \in places
    BY <1>1, <2>1, <2>2 DEF Starting
  <2>4. PICK m \in 1 .. n : f[m] = x
    BY <1>4, <2>3 DEF Increasing
  <2>5. \/ m = 1
        \/ \E k \in 1 .. c : m = 3 * k - 1
        \/ \E k \in 1 .. c : m = 3 * k
        \/ \E k \in 1 .. c : m = 3 * k + 1
    <3>1. PICK k : k = (m + 1) \div 3
      OBVIOUS
    <3>2. k \in Nat /\ (m + 1 = 3 * k \/ m + 1 = 3 * k + 1 \/ m + 1 = 3 * k + 2)
      BY <1>3, <3>1
    <3>3. CASE k = 0
      BY <3>2, <3>3
    <3>4. CASE k # 0 /\ k <= c
      <4>1. k \in 1 .. c
        BY <1>3, <3>2, <3>4
      <4>2. m = 3 * k - 1 \/ m = 3 * k \/ m = 3 * k + 1
        BY <1>3, <3>2
      <4> QED
        BY <4>1, <4>2
    <3>5. CASE k > c
      BY <1>2, <1>3, <3>2, <3>5
    <3> QED
      BY <1>3, <3>2, <3>3, <3>4, <3>5
  <2>6. CASE m = 1
    BY <1>8, <2>4, <2>6
  <2>7. CASE \E k \in 1 .. c : m = 3 * k - 1
    BY <2>4, <2>7
  <2>8. CASE \E k \in 1 .. c : m = 3 * k
    BY <2>2, <2>4, <2>8 DEF Layout
  <2>9. CASE \E k \in 1 .. c : m = 3 * k + 1
    <3>1. PICK k \in 1 .. c : m = 3 * k + 1
      BY <2>9
    <3>5. f[3 * k + 1] = f[3 * k] + 1
      BY NoBreak
    <3>6. f[3 * k] \in E
      BY DEF Layout
    <3>2. x = f[3 * k] + 1 /\ f[3 * k] \in E
      BY <2>4, <3>1, <3>5, <3>6
    <3>3. f[3 * k] \in 1 .. b
      BY <3>2 DEF Layout
    <3>4. x - 1 = f[3 * k] /\ x # 1
      BY <1>3, <3>2, <3>3
    <3> QED
      BY <2>1, <3>2, <3>4 DEF Layout
  <2> QED
    BY <2>5, <2>6, <2>7, <2>8, <2>9
<1>9. PICK g : g = [k \in 1 .. c + 1 |-> IF k = 1 THEN f[1] ELSE f[3 * k - 4]]
  OBVIOUS
<1>10. ASSUME NEW k \in 1 .. c + 1
       PROVE  \/ k = 1 /\ g[k] = f[1]
              \/ k # 1 /\ k - 1 \in 1 .. c /\ 3 * (k - 1) - 1 = 3 * k - 4 /\ g[k] = f[3 * (k - 1) - 1]
  BY <1>3, <1>9
<1>11. g \in [1 .. c + 1 -> heads]
  <2>1. \A k \in 1 .. c + 1 : g[k] \in heads
    BY <1>6, <1>7, <1>10
  <2> QED
    BY <1>9, <2>1
<1>12. ASSUME NEW i \in 1 .. c + 1, NEW j \in 1 .. c + 1, i < j PROVE g[i] < g[j]
  <2>1. j # 1 /\ g[j] = f[3 * j - 4] /\ 3 * j - 4 \in 1 .. n /\ 1 < 3 * j - 4 /\ 1 \in 1 .. n
    BY <1>2, <1>3, <1>9, <1>12
  <2>2. CASE i = 1
    BY <1>20, <1>9, <2>1, <2>2
  <2>3. CASE i # 1
    <3>1. g[i] = f[3 * i - 4] /\ 3 * i - 4 \in 1 .. n /\ 3 * i - 4 < 3 * j - 4
      BY <1>2, <1>3, <1>9, <1>12, <2>3
    <3> QED
      BY <1>20, <2>1, <3>1
  <2> QED
    BY <2>2, <2>3
<1>13. ASSUME NEW x \in heads PROVE \E k \in 1 .. c + 1 : g[k] = x
  <2>1. CASE x = f[1]
    <3>1. 1 \in 1 .. c + 1 /\ g[1] = f[1]
      BY <1>3, <1>9
    <3> QED
      BY <2>1, <3>1
  <2>2. CASE x # f[1]
    <3>1. PICK k \in 1 .. c : x = f[3 * k - 1]
      BY <1>8, <2>2
    <3>2. k + 1 \in 1 .. c + 1 /\ k + 1 # 1 /\ 3 * (k + 1) - 4 = 3 * k - 1
      BY <1>3
    <3>3. g[k + 1] = f[3 * (k + 1) - 4]
      BY <1>9, <3>2
    <3> QED
      BY <3>1, <3>2, <3>3
  <2> QED
    BY <2>1, <2>2
<1>14. Increasing(g, c + 1, heads)
  BY <1>11, <1>12, <1>13 DEF Increasing
<1> QED
  BY <1>2, <1>9, <1>14

\* A parameter as the page takes it apart.
Apart(x, w, u) ==
  /\ FirstEq(x) = Len(w) + 1 /\ FirstEq(x) \in 2 .. Len(x) /\ x \in Texts
  /\ SubSeq(x, 1, FirstEq(x) - 1) = w /\ SubSeq(x, FirstEq(x) + 1, Len(x)) = u

\* A key and a value are taken apart again at the equals sign between them.
LEMMA Pair ==
  ASSUME NEW w \in Texts, NEW u \in Texts, Letters(w), NEW x, x = w \o (<<"=">> \o u)
  PROVE  Apart(x, w, u)
<1>1. PICK y : y = <<"=">> \o u
  OBVIOUS
<1>2. PICK m, n : m = Len(w) /\ n = Len(u)
  OBVIOUS
<1>3. m \in Nat /\ n \in Nat /\ m # 0
  <2>1. w # <<>>
    BY DEF Letters
  <2>2. m # 0
    BY <1>2, <2>1, TextEqual, TextShort
  <2> QED
    BY <1>2, <2>2, TextIs
<1>4. /\ y \in Texts /\ Len(y) = 1 + n /\ y[1] = "="
      /\ \A i \in 1 .. n : y[i + 1] = u[i]
  <2>1. PICK e : e = <<"=">>
    OBVIOUS
  <2>2. e \in Texts /\ Len(e) = 1 /\ e[1] = "="
    BY <2>1, QuoteIs, TextShort
  <2>3. /\ y \in Texts /\ Len(y) = Len(e) + Len(u)
        /\ \A i \in 1 .. Len(e) + Len(u) : y[i] = IF i <= Len(e) THEN e[i] ELSE u[i - Len(e)]
    BY <1>1, <2>1, <2>2, TextJoin
  <2>4. Len(e) + Len(u) = 1 + n
    BY <1>2, <2>2
  <2>5. \A i \in 1 .. 1 + n : y[i] = IF i <= 1 THEN e[i] ELSE u[i - 1]
    BY <2>2, <2>3, <2>4
  <2>6. \A i \in 1 .. n : i + 1 \in 1 .. 1 + n /\ ~(i + 1 <= 1) /\ (i + 1) - 1 = i
    BY <1>3
  <2>7. 1 \in 1 .. 1 + n
    BY <1>3
  <2>8. y[1] = "="
    BY <2>2, <2>5, <2>7
  <2> QED
    BY <2>3, <2>4, <2>5, <2>6, <2>8
<1>5. /\ x \in Texts /\ Len(x) = m + (1 + n)
      /\ \A i \in 1 .. m : x[i] = w[i]
      /\ \A i \in 1 .. 1 + n : x[i + m] = y[i]
  <2>1. /\ x \in Texts /\ Len(x) = Len(w) + Len(y)
        /\ \A i \in 1 .. Len(w) : x[i] = w[i]
        /\ \A i \in 1 .. Len(y) : x[i + Len(w)] = y[i]
    BY <1>1, <1>4, ReadOn
  <2> QED
    BY <1>2, <1>4, <2>1
<1>6. x[m + 1] = "=" /\ \A i \in 1 .. m : x[i] # "="
  <2>1. 1 \in 1 .. 1 + n /\ 1 + m = m + 1
    BY <1>3
  <2>2. x[m + 1] = "="
    BY <1>4, <1>5, <2>1
  <2>3. ASSUME NEW i \in 1 .. m PROVE w[i] # "="
    <3>1. i \in DOMAIN w
      BY <1>2, TextIs
    <3> QED
      BY <3>1 DEF Letters
  <2> QED
    BY <1>5, <2>2, <2>3
<1>7. PICK l : l = Len(x)
  OBVIOUS
<1>13. l \in Nat /\ l = m + 1 + n /\ DOMAIN x = 1 .. l
  BY <1>3, <1>5, <1>7, TextIs
<1>8. FirstEq(x) = m + 1
  <2>1. PICK T : T = {i \in DOMAIN x : x[i] = "="} \cup {l + 1}
    OBVIOUS
  <2>2. m + 1 \in T
    BY <1>3, <1>6, <1>13, <2>1
  <2>3. ASSUME NEW y1 \in T PROVE y1 \in 0 .. l + 1 /\ m + 1 <= y1
    <3>1. CASE y1 = l + 1
      BY <1>3, <1>13, <3>1
    <3>2. CASE y1 \in 1 .. l /\ x[y1] = "="
      <4>1. y1 \notin 1 .. m
        BY <1>6, <3>2
      <4> QED
        BY <1>3, <1>13, <3>2, <4>1
    <3> QED
      BY <1>13, <2>1, <3>1, <3>2
  <2>4. Min(T) = m + 1
    <3>1. T \in SUBSET (0 .. l + 1) /\ l + 1 \in Nat
      BY <1>13, <2>3
    <3> QED
      BY <2>2, <2>3, <3>1, MinIs
  <2> QED
    BY <1>7, <2>1, <2>4 DEF FirstEq
<1>9. FirstEq(x) - 1 = m /\ FirstEq(x) + 1 = m + 2 /\ FirstEq(x) \in 2 .. l
  BY <1>3, <1>8, <1>13
<1>10. SubSeq(x, 1, m) = w
  <2>1. PICK z : z = SubSeq(x, 1, m)
    OBVIOUS
  <2>2. z \in Texts /\ Len(z) = m + 1 - 1 /\ \A k \in 1 .. m + 1 - 1 : z[k] = x[1 + k - 1]
    <3>1. 1 \in Nat \ {0} /\ 1 <= m + 1 /\ m <= Len(x)
      BY <1>3, <1>7, <1>13
    <3> QED
      BY <1>3, <1>5, <2>1, <3>1, TextPart
  <2>3. Len(z) = Len(w) /\ \A k \in 1 .. Len(z) : 1 + k - 1 = k
    BY <1>2, <1>3, <2>2
  <2>4. \A k \in 1 .. Len(z) : z[k] = w[k]
    BY <1>2, <1>3, <1>5, <2>2, <2>3
  <2> QED
    BY <2>1, <2>2, <2>3, <2>4, TextEqual
<1>11. SubSeq(x, m + 2, l) = u
  <2>1. PICK z : z = SubSeq(x, m + 2, l)
    OBVIOUS
  <2>2. /\ z \in Texts /\ Len(z) = l + 1 - (m + 2)
        /\ \A k \in 1 .. l + 1 - (m + 2) : z[k] = x[m + 2 + k - 1]
    <3>1. m + 2 \in Nat \ {0} /\ m + 2 <= l + 1 /\ l <= Len(x)
      BY <1>3, <1>7, <1>13
    <3> QED
      BY <1>5, <1>13, <2>1, <3>1, TextPart
  <2>3. Len(z) = n
    BY <1>3, <1>13, <2>2
  <2>4. ASSUME NEW k \in 1 .. Len(z) PROVE z[k] = u[k]
    <3>1. k \in 1 .. l + 1 - (m + 2) /\ m + 2 + k - 1 = (k + 1) + m /\ k + 1 \in 1 .. 1 + n /\ k \in 1 .. n
      BY <1>3, <1>13, <2>3
    <3>2. z[k] = x[(k + 1) + m] /\ x[(k + 1) + m] = y[k + 1] /\ y[k + 1] = u[k]
      BY <1>4, <1>5, <2>2, <3>1
    <3> QED
      BY <3>2
  <2> QED
    BY <1>2, <2>1, <2>2, <2>3, <2>4, TextEqual
<1> QED
  BY <1>2, <1>5, <1>7, <1>8, <1>9, <1>10, <1>11 DEF Apart

\* A command with its parameters.
Command(tokens, c) ==
  /\ c \in Nat /\ Len(tokens) = 3 * c + 1
  /\ tokens[1].type = "word"
  /\ \A k \in 1 .. c :
       /\ tokens[3 * k - 1].type = "word" /\ IsKey(tokens[3 * k - 1].value)
       /\ tokens[3 * k].type = "eq" /\ tokens[3 * k + 1].type = "word"

\* Its places are laid out so.
LEMMA CommandLaid ==
  ASSUME NEW t \in Texts, Scanned(t) = Open, NEW c, Command(Tokenize(t), c),
         \A i \in Eqs(t) : i - 1 \notin Gaps(t) /\ i + 1 \notin Gaps(t)
  PROVE  /\ Layout(Len(t), Eqs(t), Gaps(t), InOrder(Places(t)), c)
         /\ \A m \in 1 .. 3 * c + 1 : Tokenize(t)[m] = Token(t, InOrder(Places(t))[m])
<1>1. Len(t) \in Nat /\ DOMAIN t = 1 .. Len(t)
  BY TextIs
<1>2. PICK f, n, b : f = InOrder(Places(t)) /\ n = 3 * c + 1 /\ b = Len(t)
  OBVIOUS
<1>3. c \in Nat /\ n \in Nat /\ b \in Nat
  BY <1>1, <1>2 DEF Command
<1>4. PICK E, G : E = Eqs(t) /\ G = Gaps(t)
  OBVIOUS
<1>5. E \in SUBSET (1 .. b) /\ G \in SUBSET (1 .. b) /\ \A i \in E : i \notin G
  BY <1>1, <1>2, <1>4 DEF Eqs, Gaps, Blanks
<1>6. Places(t) = Starting(b, E \cup G) \cup E
  <2>1. Heads(t, Gaps(t) \cup Eqs(t)) = Starting(b, E \cup G)
    BY <1>1, <1>2, <1>4 DEF Heads, Starting
  <2> QED
    BY <1>4, <2>1 DEF Places
<1>7. PICK tokens : tokens = Tokenize(t)
  OBVIOUS
<1>8. Increasing(f, n, Places(t)) /\ \A m \in 1 .. n : tokens[m] = Token(t, f[m])
  <2>1. Cardinality(Places(t)) = n
    BY <1>2, TokensAre DEF Command
  <2>2. Increasing(f, n, Places(t))
    BY <1>2, <2>1, TokensAre
  <2>3. tokens = [k \in 1 .. n |-> Token(t, f[k])]
    BY <1>2, <1>7, <2>1, TokensAre
  <2> QED
    BY <2>2, <2>3
<1>9. ASSUME NEW m \in 1 .. n
      PROVE  /\ tokens[m].type = "eq" => f[m] \in E
             /\ tokens[m].type = "word" => f[m] \notin E
  <2>1. tokens[m] = Token(t, f[m])
    BY <1>8
  <2>2. CASE f[m] \in Eqs(t)
    <3>1. Token(t, f[m]).type = "eq"
      BY <2>2 DEF Token
    <3> QED
      BY <1>4, <2>1, <2>2, <3>1
  <2>3. CASE f[m] \notin Eqs(t)
    <3>1. Token(t, f[m]).type = "word"
      BY <2>3 DEF Token
    <3> QED
      BY <1>4, <2>1, <2>3, <3>1
  <2> QED
    BY <2>2, <2>3
<1>10. f[1] \notin E
  <2>1. 1 \in 1 .. n
    BY <1>2, <1>3
  <2> QED
    BY <1>7, <1>9, <2>1 DEF Command
<1>11. ASSUME NEW k \in 1 .. c PROVE f[3 * k - 1] \notin E /\ f[3 * k] \in E /\ f[3 * k + 1] \notin E
  <2>1. 3 * k - 1 \in 1 .. n /\ 3 * k \in 1 .. n /\ 3 * k + 1 \in 1 .. n
    BY <1>2, <1>3
  <2>2. /\ tokens[3 * k - 1].type = "word"
        /\ tokens[3 * k].type = "eq" /\ tokens[3 * k + 1].type = "word"
    BY <1>7 DEF Command
  <2> QED
    BY <1>9, <2>1, <2>2
<1>12. Layout(b, E, G, f, c)
  <2>1. Increasing(f, 3 * c + 1, Starting(b, E \cup G) \cup E)
    BY <1>2, <1>6, <1>8
  <2>2. \A i \in E : i \notin G /\ i - 1 \notin G /\ i + 1 \notin G
    BY <1>4, <1>5
  <2> QED
    BY <1>3, <1>5, <1>10, <1>11, <2>1, <2>2 DEF Layout
<1> QED
  BY <1>2, <1>4, <1>7, <1>8, <1>12

\* The command, and values.
WordAt(f, c, w) == w = f[1] \/ \E k \in 1 .. c : w = f[3 * k + 1]

\* A stretch without equals signs and blanks, that a blank or the end of the text follows.
Bare(b, E, G, w, d) ==
  /\ w \in 1 .. b /\ d \in w .. b
  /\ \A j \in w .. d : j \notin E \cup G
  /\ (d = b \/ d + 1 \in G)

\* The words of a command and its values are, as the parser sees them.
LEMMA WordEnd ==
  ASSUME NEW t \in Texts, NEW E, NEW G, NEW f, NEW c, Layout(Len(t), E, G, f, c),
         NEW w, WordAt(f, c, w)
  PROVE  Bare(Len(t), E, G, w, EndOf(t, G \cup E, w))
<1>10. PICK d : d = EndOf(t, G \cup E, w)
  OBVIOUS
<1>0. PICK m : m \in 1 .. 3 * c + 1 /\ w = f[m] /\ (m = 1 \/ \E k \in 1 .. c : m = 3 * k + 1)
  <2>1. c \in Nat
    BY DEF Layout
  <2>2. 1 \in 1 .. 3 * c + 1 /\ \A k \in 1 .. c : 3 * k + 1 \in 1 .. 3 * c + 1
    BY <2>1
  <2> QED
    BY <2>2 DEF WordAt
<1>1. PICK cut : cut = G \cup E
  OBVIOUS
<1>2. w \in 1 .. Len(t) /\ cut \in SUBSET (1 .. Len(t)) /\ Len(t) \in Nat
  BY <1>0, <1>1, LaidOut
<1>3. d \in w .. Len(t) /\ (\A j \in w + 1 .. d : j \notin cut) /\ (d = Len(t) \/ d + 1 \in cut)
  BY <1>1, <1>2, <1>10, EndIs
<1>4. w \notin cut
  <2>1. CASE m = 1
    <3>1. w \in Starting(Len(t), E \cup G) \cup E /\ w \notin E
      BY <1>0, <1>1, <2>1, LaidOut DEF Layout
    <3> QED
      BY <1>1, <3>1 DEF Starting
  <2>2. CASE \E k \in 1 .. c : m = 3 * k + 1
    <3>1. w \in Starting(Len(t), E \cup G) \cup E
      BY <1>0, <1>1, LaidOut
    <3>2. w \notin E
      BY <1>0, <1>1, <2>2 DEF Layout
    <3> QED
      BY <1>1, <3>1, <3>2 DEF Starting
  <2> QED
    BY <1>0, <2>1, <2>2
<1>5. d + 1 \notin E
  <2>1. SUFFICES ASSUME d + 1 \in E PROVE FALSE
    OBVIOUS
  <2>2. w < d + 1
    BY <1>2, <1>3
  <2>3. PICK y \in G : w < y /\ y < d + 1
    BY <1>0, <2>1, <2>2, BlankBetween
  <2>4. y \in w + 1 .. d /\ y \in cut
    BY <1>1, <1>2, <1>3, <2>3
  <2> QED
    BY <1>3, <2>4
<1>6. \A j \in w .. d : j = w \/ j \in w + 1 .. d
  BY <1>2, <1>3
<1>7. \A j \in w .. d : j \notin E \cup G
  BY <1>1, <1>3, <1>4, <1>6
<1> QED
  BY <1>1, <1>2, <1>3, <1>5, <1>7, <1>10 DEF Bare

\* What the page takes for its tokens.
LEMMA PageTokens ==
  ASSUME NEW t \in Texts, Scanned(t) = Open, NEW c, Command(Tokenize(t), c),
         \A i \in Eqs(t) : i - 1 \notin Gaps(t) /\ i + 1 \notin Gaps(t)
  PROVE  /\ Len(TokenizeIdel(t)) = c + 1
         /\ TokenizeIdel(t)[1] = Tokenize(t)[1].value
         /\ \A k \in 1 .. c :
              /\ Tokenize(t)[3 * k - 1].value \in Texts /\ Tokenize(t)[3 * k + 1].value \in Texts
              /\ TokenizeIdel(t)[k + 1]
                   = Tokenize(t)[3 * k - 1].value \o (<<"=">> \o Tokenize(t)[3 * k + 1].value)
<1>1. PICK b, E, G, f : b = Len(t) /\ E = Eqs(t) /\ G = Gaps(t) /\ f = InOrder(Places(t))
  OBVIOUS
<1>2. PICK tokens : tokens = Tokenize(t)
  OBVIOUS
<1>3. Layout(b, E, G, f, c) /\ \A m \in 1 .. 3 * c + 1 : tokens[m] = Token(t, f[m])
  BY <1>1, <1>2, CommandLaid
<1>4. b \in Nat /\ c \in Nat /\ DOMAIN t = 1 .. b
  BY <1>1, TextIs DEF Command
<1>5. PICK g : g = [k \in 1 .. c + 1 |-> IF k = 1 THEN f[1] ELSE f[3 * k - 4]]
  OBVIOUS
<1>6. Increasing(g, c + 1, Starting(b, G))
  BY <1>3, <1>5, BlankStarts
<1>7. Heads(t, Gaps(t)) = Starting(b, G)
  BY <1>1, <1>4 DEF Heads, Starting
<1>8. InOrder(Heads(t, Gaps(t))) = g
  <2>1. \A x \in Starting(b, G) : x \in Nat
    BY <1>4 DEF Starting
  <2>2. c + 1 \in Nat
    BY <1>4
  <2> QED
    BY <1>6, <1>7, <2>1, <2>2, OrderIs
<1>9. PICK page : page = TokenizeIdel(t)
  OBVIOUS
<1>10. page = [k \in DOMAIN g |-> Said(t, g[k], EndOf(t, G, g[k]))] /\ DOMAIN g = 1 .. c + 1
  BY <1>1, <1>5, <1>8, <1>9 DEF TokenizeIdel
<1>11. Len(page) = c + 1
  <2>1. PICK V : V = {Said(t, g[k], EndOf(t, G, g[k])) : k \in 1 .. c + 1}
    OBVIOUS
  <2>2. page \in [1 .. c + 1 -> V]
    BY <1>10, <2>1
  <2>3. page \in Seq(V)
    BY <1>4, <2>2
  <2> QED
    BY <1>4, <2>2, <2>3
<1>12. G \in SUBSET (1 .. b) /\ E \in SUBSET (1 .. b) /\ G \cup E \in SUBSET (1 .. b)
  BY <1>3 DEF Layout
<1>13. page[1] = tokens[1].value
  <2>1. 1 \in 1 .. 3 * c + 1 /\ 1 \in DOMAIN g /\ g[1] = f[1]
    BY <1>4, <1>5, <1>10
  <2>2. PICK d : d = EndOf(t, G \cup E, f[1])
    OBVIOUS
  <2>3. /\ f[1] \in 1 .. b /\ d \in f[1] .. b /\ (\A j \in f[1] .. d : j \notin E \cup G)
        /\ d = b \/ d + 1 \in G
    <3>1. Layout(Len(t), E, G, f, c) /\ WordAt(f, c, f[1])
      BY <1>1, <1>3 DEF WordAt
    <3>2. PICK w : w = f[1]
      OBVIOUS
    <3>3. Layout(Len(t), E, G, f, c) /\ WordAt(f, c, w)
      BY <3>1, <3>2
    <3>4. Bare(Len(t), E, G, w, EndOf(t, G \cup E, w))
      BY <3>3, WordEnd
    <3>5. Bare(b, E, G, w, d)
      BY <1>1, <2>2, <3>2, <3>4
    <3> QED
      BY <3>2, <3>5 DEF Bare
  <2>4. \A j \in f[1] + 1 .. d : j \notin G
    BY <2>3
  <2>5. EndOf(t, G, f[1]) = d
    BY <1>1, <1>12, <2>3, <2>4, EndOnly
  <2>6. tokens[1] = Token(t, f[1]) /\ f[1] \notin E
    BY <1>3, <2>1 DEF Layout
  <2> QED
    BY <1>1, <1>10, <2>1, <2>2, <2>5, <2>6 DEF Token
<1>14. ASSUME NEW k \in 1 .. c
       PROVE  /\ tokens[3 * k - 1].value \in Texts /\ tokens[3 * k + 1].value \in Texts
              /\ page[k + 1] = tokens[3 * k - 1].value \o (<<"=">> \o tokens[3 * k + 1].value)
  <2>1. PICK h, e, v, z : /\ h = f[3 * k - 1] /\ e = f[3 * k] /\ v = f[3 * k + 1]
                          /\ z = EndOf(t, G \cup E, v)
    OBVIOUS
  <2>2. /\ 3 * k - 1 \in 1 .. 3 * c + 1 /\ 3 * k \in 1 .. 3 * c + 1 /\ 3 * k + 1 \in 1 .. 3 * c + 1
        /\ 3 * k - 1 < 3 * k
        /\ k + 1 \in DOMAIN g /\ k + 1 # 1 /\ 3 * (k + 1) - 4 = 3 * k - 1
    BY <1>4, <1>10
  <2>3. g[k + 1] = h
    BY <1>5, <1>10, <2>1, <2>2
  <2>4. h \in 1 .. b /\ e \in 1 .. b /\ h < e
    BY <1>3, <2>1, <2>2, LaidOut
  <2>5. v = e + 1 /\ \A j \in h .. e - 1 : j \notin E \cup G
    BY <1>3, <2>1, NoBreak
  <2>6. h \notin E /\ e \in E /\ v \notin E /\ e \notin G
    BY <1>3, <2>1 DEF Layout
  <2>7. v \in 1 .. b /\ z \in v .. b /\ (\A j \in v .. z : j \notin E \cup G) /\ (z = b \/ z + 1 \in G)
    <3>1. Layout(Len(t), E, G, f, c) /\ WordAt(f, c, v) /\ z = EndOf(t, G \cup E, v)
      BY <1>1, <1>3, <2>1 DEF WordAt
    <3>2. Bare(Len(t), E, G, v, EndOf(t, G \cup E, v))
      BY <3>1, WordEnd
    <3>3. Bare(b, E, G, v, z)
      BY <1>1, <3>1, <3>2
    <3> QED
      BY <3>3 DEF Bare
  <2>18. PICK y : y = e - 1
    OBVIOUS
  <2>19. y \in h .. b /\ y + 1 = e /\ \A j \in h .. y : j \notin E \cup G
    BY <1>4, <2>4, <2>5, <2>18
  <2>8. EndOf(t, G \cup E, h) = y
    <3>1. y + 1 \in G \cup E /\ \A j \in h + 1 .. y : j \notin G \cup E
      BY <2>4, <2>6, <2>19
    <3> QED
      BY <1>1, <1>12, <2>4, <2>19, <3>1, EndOnly
  <2>9. EndOf(t, G, h) = z
    <3>1. z \in h .. b
      BY <1>4, <2>4, <2>5, <2>7
    <3>2. ASSUME NEW j \in h + 1 .. z PROVE j \notin G
      <4>1. j \in h .. e - 1 \/ j = e \/ j \in v .. z
        BY <1>4, <2>4, <2>5, <2>7
      <4> QED
        BY <2>5, <2>6, <2>7, <4>1
    <3> QED
      BY <1>1, <1>12, <2>4, <2>7, <3>1, <3>2, EndOnly
  <2>10. tokens[3 * k - 1] = Token(t, h) /\ tokens[3 * k + 1] = Token(t, v)
    BY <1>3, <2>1, <2>2
  <2>11. /\ tokens[3 * k - 1].value = Said(t, h, y)
         /\ tokens[3 * k + 1].value = Said(t, v, z)
    BY <1>1, <2>1, <2>6, <2>8, <2>10 DEF Token
  <2>12. page[k + 1] = Said(t, h, z)
    BY <1>10, <2>2, <2>3, <2>9
  <2>13. /\ Stretch(t, h, y) /\ Stretch(t, e, z) /\ e = y + 1
         /\ Stretch(t, e, e) /\ Stretch(t, v, z) /\ v = e + 1
    BY <1>1, <1>4, <2>4, <2>5, <2>7, <2>19 DEF Stretch
  <2>14. Said(t, h, z) = Said(t, h, y) \o Said(t, e, z)
    BY <2>13, SaidJoin
  <2>15. Said(t, e, z) = Said(t, e, e) \o Said(t, v, z)
    <3>1. Stretch(t, e, e) /\ Stretch(t, v, z) /\ v = e + 1
      BY <2>13
    <3> QED
      BY <3>1, SaidJoin
  <2>16. Said(t, e, e) = <<"=">>
    <3>1. t[e] = "=" /\ Before(t, e) = Open
      BY <1>1, <2>6 DEF Eqs, Plain
    <3>2. ~Mark(t, e)
      BY <3>1 DEF Mark, Open, Backslash, None, Quotes
    <3> QED
      BY <1>1, <2>4, <3>1, <3>2, SaidOne
  <2>17. Said(t, h, y) \in Texts /\ Said(t, v, z) \in Texts
    BY <2>13, SaidIs
  <2> QED
    BY <2>11, <2>12, <2>14, <2>15, <2>16, <2>17
<1> QED
  BY <1>2, <1>9, <1>11, <1>13, <1>14

\* The tokens of a command are laid out as one.
LEMMA CommandOf ==
  ASSUME NEW tokens, Len(tokens) \in Nat, "command" \in DOMAIN OfTokens(tokens)
  PROVE  \E c \in Nat :
           /\ Command(tokens, c)
           /\ OfTokens(tokens).command = tokens[1].value
           /\ OfTokens(tokens).params =
                {<<tokens[3 * k - 1].value, Coerce(tokens[3 * k + 1])>> : k \in 1 .. c}
<1>1. PICK n, c : n = Len(tokens) /\ c = (Len(tokens) - 1) \div 3
  OBVIOUS
<1>2. PICK ast : ast = OfTokens(tokens)
  OBVIOUS
<1>3. \/ ast = NoCommand
      \/ /\ tokens[1].type = "word" /\ n = 3 * c + 1
         /\ \A k \in 1 .. c :
              /\ tokens[3 * k - 1].type = "word" /\ IsKey(tokens[3 * k - 1].value)
              /\ tokens[3 * k].type = "eq" /\ tokens[3 * k + 1].type = "word"
         /\ ast = [command |-> tokens[1].value,
                   params |-> {<<tokens[3 * k - 1].value, Coerce(tokens[3 * k + 1])>> :
                                 k \in 1 .. c}]
  BY <1>1, <1>2 DEF OfTokens
<1>4. ast # NoCommand
  BY <1>2 DEF NoCommand
<1>5. c \in Nat
  <2>1. n \in Nat /\ n = 3 * c + 1
    BY <1>1, <1>3, <1>4
  <2>2. c \in Int
    BY <1>1
  <2> QED
    BY <2>1, <2>2
<1>6. Command(tokens, c)
  BY <1>1, <1>3, <1>4, <1>5 DEF Command
<1>7. /\ ast.command = tokens[1].value
      /\ ast.params = {<<tokens[3 * k - 1].value, Coerce(tokens[3 * k + 1])>> : k \in 1 .. c}
  BY <1>3, <1>4
<1> QED
  BY <1>2, <1>5, <1>6, <1>7

\* What the parser takes for a command is one when its blanks are trimmed.
LEMMA ParsedIs ==
  ASSUME NEW s \in Texts, "command" \in DOMAIN Parse(s)
  PROVE  /\ Parse(s) = OfTokens(Tokenize(Trim(s)))
         /\ Trim(s) # <<>> /\ Scanned(Trim(s)) = Open
<1>1. PICK t : t = Trim(s)
  OBVIOUS
<1>2. \/ Parse(s) = NoCommand
      \/ \E native : Parse(s) = [native |-> native]
      \/ t # <<>> /\ Tokenize(t) # NoTokens /\ Parse(s) = OfTokens(Tokenize(t))
  BY <1>1 DEF Parse
<1>3. Parse(s) # NoCommand /\ \A native : Parse(s) # [native |-> native]
  BY DEF NoCommand
<1>4. Tokenize(t) # NoTokens => Scanned(t) = Open
  BY DEF Tokenize
<1> QED
  BY <1>1, <1>2, <1>3, <1>4

\* And equals signs have no blanks beside them then, when they had none.
LEMMA TrimmedSigns ==
  ASSUME NEW s \in Texts, Trim(s) # <<>>,
         \A i \in Eqs(s) : i - 1 \notin Gaps(s) /\ i + 1 \notin Gaps(s)
  PROVE  \A i \in Eqs(Trim(s)) : i - 1 \notin Gaps(Trim(s)) /\ i + 1 \notin Gaps(Trim(s))
<1>1. PICK a \in 1 .. Len(s), b \in 1 .. Len(s) : Trimmed(s, a, b)
  BY TrimIs
<1>2. PICK t, n, k : t = Trim(s) /\ n = Len(s) /\ k = a - 1
  OBVIOUS
<1>3. n \in Nat /\ a \in 1 .. n /\ b \in a .. n /\ k \in 0 .. n /\ DOMAIN s = 1 .. n
  BY <1>1, <1>2, TextIs DEF Trimmed
<1>4. /\ t \in Texts /\ Len(t) = b - k
      /\ \A i \in 1 .. b - k : t[i] = s[i + k]
  <2>1. a \in Nat \ {0} /\ b \in Nat /\ a <= b + 1 /\ b <= Len(s) /\ b + 1 - a = b - k
    BY <1>2, <1>3
  <2>2. t = SubSeq(s, a, b)
    BY <1>1, <1>2 DEF Trimmed
  <2>3. t \in Texts /\ Len(t) = b + 1 - a /\ \A i \in 1 .. b + 1 - a : t[i] = s[a + i - 1]
    BY <2>1, <2>2, TextPart
  <2>4. \A i \in 1 .. b - k : a + i - 1 = i + k
    BY <1>2, <1>3
  <2> QED
    BY <2>1, <2>3, <2>4
<1>5. Before(s, a) = Open
  <2>1. Stretch(s, 1, k) /\ k + 1 = a
    BY <1>2, <1>3 DEF Stretch
  <2>2. \A i \in 1 .. k : s[i] \notin Quotes \cup {Backslash}
    <3>1. \A i \in 1 .. k : i \in 1 .. Len(s) /\ i < a
      BY <1>2, <1>3
    <3>2. \A i \in 1 .. k : s[i] \in Blanks
      BY <1>1, <3>1 DEF Trimmed
    <3> QED
      BY <3>2 DEF Blanks, Quotes, Backslash
  <2>3. Before(s, 1) = Open
    BY Reading
  <2>4. a \in 1 .. k + 1
    BY <1>3, <2>1
  <2> QED
    BY <2>1, <2>2, <2>3, <2>4, PlainRead
<1>6. ReadAlike(s, t, k, 1, b - k + 1)
  <2>1. Before(t, 1) = Open /\ 1 + k = a
    BY <1>2, <1>3, <1>4, Reading
  <2>2. \A i \in 1 .. b - k + 1 - 1 : s[i + k] = t[i]
    BY <1>3, <1>4
  <2>3. /\ k \in Nat /\ 1 \in Nat \ {0} /\ b - k + 1 \in Nat
        /\ 1 <= b - k + 1 /\ b - k + 1 <= Len(t) + 1 /\ b - k + 1 + k <= Len(s) + 1
    BY <1>2, <1>3, <1>4
  <2>4. Alike(s, t, k, 1, b - k + 1)
    BY <1>5, <2>1, <2>2, <2>3 DEF Alike
  <2> QED
    BY <1>4, <2>4, SameReading
<1>7. ASSUME NEW i \in 1 .. b - k PROVE Plain(s, i + k) = Plain(t, i) /\ i + k \in 1 .. n
  BY <1>3, <1>6 DEF ReadAlike
<1>8. DOMAIN t = 1 .. b - k
  BY <1>4, TextIs
<1>9. ASSUME NEW i \in Gaps(t) PROVE i + k \in Gaps(s)
  <2>1. i \in 1 .. b - k /\ t[i] \in Blanks /\ Plain(t, i)
    BY <1>8 DEF Gaps
  <2>2. s[i + k] \in Blanks /\ Plain(s, i + k) /\ i + k \in 1 .. n
    BY <1>4, <1>7, <2>1
  <2> QED
    BY <1>3, <2>2 DEF Gaps
<1>10. ASSUME NEW i \in Eqs(t) PROVE i - 1 \notin Gaps(t) /\ i + 1 \notin Gaps(t)
  <2>1. i \in 1 .. b - k /\ t[i] = "=" /\ Plain(t, i)
    BY <1>8 DEF Eqs
  <2>2. s[i + k] = "=" /\ Plain(s, i + k) /\ i + k \in 1 .. n
    BY <1>4, <1>7, <2>1
  <2>3. i + k \in Eqs(s)
    BY <1>3, <2>2 DEF Eqs
  <2>4. (i + k) - 1 \notin Gaps(s) /\ (i + k) + 1 \notin Gaps(s)
    BY <2>3
  <2>5. (i - 1) + k = (i + k) - 1 /\ (i + 1) + k = (i + k) + 1
    BY <1>3, <2>1
  <2> QED
    BY <1>9, <2>4, <2>5
<1> QED
  BY <1>2, <1>10

\* So the web terminal reads the same command in it, with the same parameters.
LEMMA SameCommand ==
  ASSUME NEW s \in Texts, "command" \in DOMAIN Parse(s),
         \A i \in Eqs(s) : i - 1 \notin Gaps(s) /\ i + 1 \notin Gaps(s)
  PROVE  ParseIdelLine(s) =
           [command |-> Parse(s).command,
            params |-> {<<p[1], p[2].text>> : p \in Parse(s).params}, args |-> {}]
<1>1. PICK t : t = Trim(s)
  OBVIOUS
<1>2. t \in Texts /\ t # <<>> /\ Scanned(t) = Open
  BY <1>1, ParsedIs, TrimIs
<1>3. PICK tokens, ast : tokens = Tokenize(t) /\ ast = Parse(s)
  OBVIOUS
<1>4. ast = OfTokens(tokens) /\ "command" \in DOMAIN OfTokens(tokens)
  BY <1>1, <1>3, ParsedIs
<1>5. Len(tokens) \in Nat
  BY <1>2, <1>3, TokensAre
<1>6. PICK c \in Nat :
        /\ Command(tokens, c) /\ ast.command = tokens[1].value
        /\ ast.params = {<<tokens[3 * k - 1].value, Coerce(tokens[3 * k + 1])>> : k \in 1 .. c}
  BY <1>4, <1>5, CommandOf
<1>7. \A i \in Eqs(t) : i - 1 \notin Gaps(t) /\ i + 1 \notin Gaps(t)
  BY <1>1, <1>2, TrimmedSigns
<1>8. PICK page : page = TokenizeIdel(t)
  OBVIOUS
<1>9. PICK key, val : /\ key = [k \in 1 .. c |-> tokens[3 * k - 1].value]
                      /\ val = [k \in 1 .. c |-> tokens[3 * k + 1].value]
  OBVIOUS
<1>10. /\ Len(page) = c + 1 /\ page[1] = tokens[1].value
       /\ \A k \in 1 .. c :
            /\ key[k] \in Texts /\ val[k] \in Texts
            /\ page[k + 1] = key[k] \o (<<"=">> \o val[k])
  BY <1>2, <1>3, <1>6, <1>7, <1>8, <1>9, PageTokens
<1>11. ASSUME NEW k \in 1 .. c
       PROVE  /\ FirstEq(page[k + 1]) \in 2 .. Len(page[k + 1])
              /\ SubSeq(page[k + 1], 1, FirstEq(page[k + 1]) - 1) = key[k]
              /\ SubSeq(page[k + 1], FirstEq(page[k + 1]) + 1, Len(page[k + 1])) = val[k]
  <2>1. PICK w, u, x : w = key[k] /\ u = val[k] /\ x = page[k + 1]
    OBVIOUS
  <2>2. Letters(w)
    BY <1>6, <1>9, <2>1 DEF Command, IsKey
  <2>3. w \in Texts /\ u \in Texts /\ x = w \o (<<"=">> \o u)
    BY <1>10, <2>1
  <2>4. Apart(x, w, u)
    BY <2>2, <2>3, Pair
  <2> QED
    BY <2>1, <2>4 DEF Apart
<1>12. PICK given : given = {k \in 2 .. Len(page) : FirstEq(page[k]) \in 2 .. Len(page[k])}
  OBVIOUS
<1>13. given = 2 .. c + 1 /\ 2 .. Len(page) \ given = {}
  <2>1. ASSUME NEW k \in 2 .. c + 1 PROVE FirstEq(page[k]) \in 2 .. Len(page[k])
    <3>1. k - 1 \in 1 .. c /\ (k - 1) + 1 = k
      BY <1>6
    <3> QED
      BY <1>11, <3>1
  <2>2. 2 .. Len(page) = 2 .. c + 1
    BY <1>10
  <2> QED
    BY <1>12, <2>1, <2>2
<1>14. page # <<>>
  <2>1. Len(page) # 0 /\ Len(<<>>) = 0
    BY <1>6, <1>10, TextShort
  <2> QED
    BY <2>1
<1>19. PICK both : both = [k \in given |-> <<SubSeq(page[k], 1, FirstEq(page[k]) - 1),
                                          SubSeq(page[k], FirstEq(page[k]) + 1, Len(page[k]))>>]
  OBVIOUS
<1>15. PICK pairs : pairs = {both[k] : k \in given}
  OBVIOUS
<1>16. ParseIdelLine(s) = [command |-> page[1], params |-> pairs, args |-> {}]
  <2>1. ParseIdelLine(s) =
          [command |-> IF page = <<>> THEN <<>> ELSE page[1], params |-> pairs,
           args |-> {page[k] : k \in 2 .. Len(page) \ given}]
    BY <1>1, <1>8, <1>12, <1>15, <1>19 DEF ParseIdelLine
  <2>2. {page[k] : k \in 2 .. Len(page) \ given} = {}
    BY <1>13
  <2> QED
    BY <1>14, <2>1, <2>2
<1>17. pairs = {<<key[k], val[k]>> : k \in 1 .. c}
  <2>1. ASSUME NEW j \in 1 .. c PROVE j + 1 \in given /\ both[j + 1] = <<key[j], val[j]>>
    <3>1. PICK i : i = j + 1
      OBVIOUS
    <3>2. i \in given
      BY <1>6, <1>13, <3>1
    <3>3. SubSeq(page[i], 1, FirstEq(page[i]) - 1) = key[j]
      BY <1>11, <3>1
    <3>4. SubSeq(page[i], FirstEq(page[i]) + 1, Len(page[i])) = val[j]
      BY <1>11, <3>1
    <3>5. both[i] = <<key[j], val[j]>>
      BY <1>19, <3>2, <3>3, <3>4
    <3> QED
      BY <3>1, <3>2, <3>5
  <2>2. ASSUME NEW k \in given PROVE \E j \in 1 .. c : k = j + 1
    <3>1. k - 1 \in 1 .. c /\ k = (k - 1) + 1
      BY <1>6, <1>13
    <3> QED
      BY <3>1
  <2>3. PICK said : said = [j \in 1 .. c |-> <<key[j], val[j]>>]
    OBVIOUS
  <2>4. /\ \A j \in 1 .. c : said[j] = both[j + 1] /\ j + 1 \in given
        /\ \A k \in given : \E j \in 1 .. c : both[k] = said[j]
    BY <2>1, <2>2, <2>3
  <2>5. pairs = {said[j] : j \in 1 .. c}
    BY <1>15, <2>4
  <2> QED
    BY <2>3, <2>5
<1>18. {<<p[1], p[2].text>> : p \in ast.params} = {<<key[k], val[k]>> : k \in 1 .. c}
  <2>1. \A k \in 1 .. c : Coerce(tokens[3 * k + 1]).text = val[k] /\ tokens[3 * k - 1].value = key[k]
    BY <1>9 DEF Coerce
  <2>2. PICK asked : asked = [k \in 1 .. c |-> <<tokens[3 * k - 1].value, Coerce(tokens[3 * k + 1])>>]
    OBVIOUS
  <2>3. \A k \in 1 .. c : asked[k][1] = key[k] /\ asked[k][2].text = val[k]
    BY <2>1, <2>2
  <2>4. ast.params = {asked[k] : k \in 1 .. c}
    BY <1>6, <2>2
  <2> QED
    BY <2>3, <2>4
<1> QED
  BY <1>3, <1>6, <1>10, <1>16, <1>17, <1>18

\* What the readers make of a line agrees.
LEMMA Agreed == line \in Texts => ReadersAgree
<1> SUFFICES ASSUME line \in Texts PROVE ReadersAgree
  OBVIOUS
<1>1. SplitBatch(line) # NoBatch =>
        Trim(From(line, SegmentStart(line))) = SplitBatch(line)[Len(SplitBatch(line))]
  BY LastOfBatch
<1>2. "command" \in DOMAIN Parse(line)
      /\ (\A i \in Eqs(line) : i - 1 \notin Gaps(line) /\ i + 1 \notin Gaps(line))
      => ParseIdelLine(line) =
           [command |-> Parse(line).command,
            params |-> {<<p[1], p[2].text>> : p \in Parse(line).params}, args |-> {}]
  BY SameCommand
<1>3. Eqs(line) = {i \in DOMAIN line : line[i] = "=" /\ Plain(line, i)}
  BY DEF Eqs
<1> QED
  BY <1>1, <1>2, <1>3 DEF ReadersAgree

-----------------------------------------------------------------------------
(* What the completion offers, and where it goes.                          *)

\* The rest of a text, and its beginning.
LEMMA FromIs ==
  ASSUME NEW s \in Texts, NEW n \in 0 .. Len(s)
  PROVE  /\ From(s, n) \in Texts /\ Len(From(s, n)) = Len(s) - n
         /\ \A i \in 1 .. Len(s) - n : From(s, n)[i] = s[i + n]
<1>1. PICK b : b = Len(s)
  OBVIOUS
<1>2. b \in Nat /\ n \in 0 .. b /\ n + 1 \in Nat \ {0} /\ n + 1 <= b + 1 /\ b <= Len(s)
  BY <1>1, TextIs
<1>3. PICK x : x = SubSeq(s, n + 1, b)
  OBVIOUS
<1>4. x \in Texts /\ Len(x) = b + 1 - (n + 1) /\ \A i \in 1 .. b + 1 - (n + 1) : x[i] = s[n + 1 + i - 1]
  BY <1>2, <1>3, TextPart
<1>5. b + 1 - (n + 1) = b - n /\ \A i \in 1 .. b - n : n + 1 + i - 1 = i + n
  BY <1>2
<1>6. \A i \in 1 .. b - n : x[i] = s[i + n]
  BY <1>4, <1>5
<1> QED
  BY <1>1, <1>3, <1>4, <1>5, <1>6 DEF From

\* The beginning of one.
LEMMA ToIs ==
  ASSUME NEW s \in Texts, NEW n \in 0 .. Len(s)
  PROVE  /\ SubSeq(s, 1, n) \in Texts /\ Len(SubSeq(s, 1, n)) = n
         /\ \A i \in 1 .. n : SubSeq(s, 1, n)[i] = s[i]
<1>1. PICK b : b = Len(s)
  OBVIOUS
<1>2. b \in Nat /\ n \in Nat /\ 1 \in Nat \ {0} /\ 1 <= n + 1 /\ n <= Len(s)
  BY <1>1, TextIs
<1>3. PICK x : x = SubSeq(s, 1, n)
  OBVIOUS
<1>4. x \in Texts /\ Len(x) = n + 1 - 1 /\ \A i \in 1 .. n + 1 - 1 : x[i] = s[1 + i - 1]
  BY <1>2, <1>3, TextPart
<1>5. n + 1 - 1 = n /\ \A i \in 1 .. n : 1 + i - 1 = i
  BY <1>2
<1>6. \A i \in 1 .. n : x[i] = s[i]
  BY <1>4, <1>5
<1> QED
  BY <1>3, <1>4, <1>5, <1>6

\* Together they are the text.
LEMMA Halves ==
  ASSUME NEW s \in Texts, NEW n \in 0 .. Len(s)
  PROVE  s = SubSeq(s, 1, n) \o From(s, n)
<1>1. PICK x, y : x = SubSeq(s, 1, n) /\ y = From(s, n)
  OBVIOUS
<1>8. PICK z : z = x \o y
  OBVIOUS
<1>2. Len(s) \in Nat /\ n \in 0 .. Len(s)
  BY TextIs
<1>3. x \in Texts /\ Len(x) = n /\ \A i \in 1 .. n : x[i] = s[i]
  BY <1>1, ToIs
<1>4. y \in Texts /\ Len(y) = Len(s) - n /\ \A i \in 1 .. Len(s) - n : y[i] = s[i + n]
  BY <1>1, FromIs
<1>5. /\ z \in Texts /\ Len(z) = Len(x) + Len(y)
      /\ \A i \in 1 .. Len(x) : z[i] = x[i]
      /\ \A i \in 1 .. Len(y) : z[i + Len(x)] = y[i]
  BY <1>3, <1>4, <1>8, ReadOn
<1>6. Len(z) = Len(s)
  BY <1>2, <1>3, <1>4, <1>5
<1>7. ASSUME NEW i \in 1 .. Len(s) PROVE s[i] = z[i]
  <2>1. CASE i <= n
    <3>1. i \in 1 .. n
      BY <1>2, <2>1
    <3> QED
      BY <1>3, <1>5, <3>1
  <2>2. CASE i > n
    <3>1. PICK j : j = i - n
      OBVIOUS
    <3>2. j \in 1 .. Len(s) - n /\ j + n = i
      BY <1>2, <2>2, <3>1
    <3> QED
      BY <1>3, <1>4, <1>5, <3>2
  <2> QED
    BY <1>2, <2>1, <2>2
<1> QED
  BY <1>1, <1>5, <1>6, <1>7, <1>8, TextEqual

\* A text that starts with another goes on from it.
LEMMA StartsOn ==
  ASSUME NEW s \in Texts, NEW t \in Texts, Starts(s, t)
  PROVE  \E u \in Texts : s = t \o u
<1>1. PICK n : n = Len(t)
  OBVIOUS
<1>2. n \in 0 .. Len(s) /\ \A i \in 1 .. n : s[i] = t[i]
  BY <1>1, StartsIs, TextIs
<1>3. SubSeq(s, 1, n) = t
  <2>1. PICK x : x = SubSeq(s, 1, n)
    OBVIOUS
  <2>2. x \in Texts /\ Len(x) = n /\ \A i \in 1 .. n : x[i] = s[i]
    BY <1>2, <2>1, ToIs
  <2> QED
    BY <1>1, <1>2, <2>1, <2>2, TextEqual
<1>4. s = SubSeq(s, 1, n) \o From(s, n) /\ From(s, n) \in Texts
  BY <1>2, Halves, FromIs
<1> QED
  BY <1>3, <1>4

\* And one that goes on from another starts with it.
LEMMA OnStarts ==
  ASSUME NEW t \in Texts, NEW u \in Texts
  PROVE  Starts(t \o u, t) /\ t \o u \in Texts
<1>1. PICK s : s = t \o u
  OBVIOUS
<1>2. s \in Texts /\ Len(s) = Len(t) + Len(u) /\ \A i \in 1 .. Len(t) : s[i] = t[i]
  BY <1>1, ReadOn
<1>3. Len(t) \in Nat /\ Len(u) \in Nat
  BY TextIs
<1>4. Len(t) <= Len(s)
  BY <1>2, <1>3
<1> QED
  BY <1>1, <1>2, <1>4, StartsIs

\* The last blank between tokens.
LEMMA LastGapIs ==
  ASSUME NEW s \in Texts
  PROVE  /\ LastGap(s) \in 0 .. Len(s) /\ \A i \in Gaps(s) : i <= LastGap(s)
         /\ LastGap(s) = 0 \/ LastGap(s) \in Gaps(s)
         /\ Gaps(s) \in SUBSET (1 .. Len(s))
<1>1. Len(s) \in Nat /\ DOMAIN s = 1 .. Len(s)
  BY TextIs
<1>2. Gaps(s) \in SUBSET (1 .. Len(s)) /\ Gaps(s) \in SUBSET (0 .. Len(s))
  BY <1>1 DEF Gaps
<1>3. CASE Gaps(s) = {}
  BY <1>1, <1>2, <1>3 DEF LastGap
<1>4. CASE Gaps(s) # {}
  <2>1. PICK i : i = CHOOSE x \in Gaps(s) : \A j \in Gaps(s) : j <= x
    OBVIOUS
  <2>2. i \in Gaps(s) /\ \A j \in Gaps(s) : j <= i
    BY <1>1, <1>2, <1>4, <2>1, GreatestIs
  <2>3. LastGap(s) = i
    BY <1>4, <2>1 DEF LastGap
  <2> QED
    BY <1>2, <2>2, <2>3
<1> QED
  BY <1>3, <1>4

\* The first equals sign.
LEMMA FirstEqIs ==
  ASSUME NEW s \in Texts
  PROVE  /\ FirstEq(s) \in 1 .. Len(s) + 1
         /\ FirstEq(s) <= Len(s) => s[FirstEq(s)] = "="
<1>1. PICK b, T : b = Len(s) + 1 /\ T = {i \in DOMAIN s : s[i] = "="} \cup {Len(s) + 1}
  OBVIOUS
<1>2. Len(s) \in Nat /\ DOMAIN s = 1 .. Len(s) /\ b \in Nat
  BY <1>1, TextIs
<1>3. T \in SUBSET (0 .. b) /\ T # {} /\ \A y \in T : y \in 1 .. b /\ (y = b \/ s[y] = "=")
  <2>1. \A y \in T : y = b \/ (y \in 1 .. Len(s) /\ s[y] = "=")
    BY <1>1, <1>2
  <2>2. \A y \in T : y \in 1 .. b /\ y \in 0 .. b
    BY <1>1, <1>2, <2>1
  <2>3. b \in T
    BY <1>1
  <2> QED
    BY <2>1, <2>2, <2>3
<1>4. PICK x : x = Min(T)
  OBVIOUS
<1>5. x \in T
  BY <1>2, <1>3, <1>4, Least
<1>6. FirstEq(s) = x
  BY <1>1, <1>4 DEF FirstEq
<1>7. x \in 1 .. b /\ (x = b \/ s[x] = "=")
  BY <1>3, <1>5
<1>8. x <= Len(s) => x # b
  BY <1>1, <1>2
<1> QED
  BY <1>1, <1>6, <1>7, <1>8

\* A path with a quote or a backslash in it, as it is offered.
OddPath(v) ==
  \E d \in DOMAIN Tree : \E e \in Tree[d] : \E q \in Quotes \cup {None} :
    /\ Holds(d \o e.name, Quotes \cup {Backslash})
    /\ v = RewrapPath(d \o e.name \o (IF e.dir THEN <<"/">> ELSE <<>>), q, e.dir)

\* A text that a path is completed to, for one that is written: the entry goes on as that does,
\* without quotes and escapes or oddly named.
PathOffer(partial, v) ==
  \E q \in Quotes \cup {None}, dir \in BOOLEAN : \E written, full \in Texts :
    /\ partial = IF q = None THEN written ELSE <<q>> \o written
    /\ Starts(full, written) /\ (Holds(full, Quotes \cup {Backslash}) => OddPath(v))
    /\ v = RewrapPath(full, q, dir)

\* A text without some characters, joined with another without them.
LEMMA HoldsJoin ==
  ASSUME NEW s \in Texts, NEW t \in Texts, NEW chars, ~Holds(s, chars), ~Holds(t, chars)
  PROVE  ~Holds(s \o t, chars)
<1>1. PICK u : u = s \o t
  OBVIOUS
<1>2. u \in Texts /\ \A i \in 1 .. Len(s) + Len(t) : u[i] = IF i <= Len(s) THEN s[i] ELSE t[i - Len(s)]
  BY <1>1, TextJoin
<1>3. Len(u) = Len(s) + Len(t)
  BY <1>1, TextJoin
<1>4. /\ Len(s) \in Nat /\ Len(t) \in Nat
      /\ DOMAIN s = 1 .. Len(s) /\ DOMAIN t = 1 .. Len(t) /\ DOMAIN u = 1 .. Len(s) + Len(t)
  BY <1>2, <1>3, TextIs
<1>5. ASSUME NEW i \in DOMAIN u PROVE u[i] \notin chars
  <2>1. CASE i <= Len(s)
    <3>1. i \in DOMAIN s
      BY <1>4, <2>1
    <3>2. u[i] = s[i]
      BY <1>2, <1>4, <2>1
    <3> QED
      BY <3>1, <3>2 DEF Holds
  <2>2. CASE ~(i <= Len(s))
    <3>1. PICK j : j = i - Len(s)
      OBVIOUS
    <3>2. j \in DOMAIN t
      BY <1>4, <2>2, <3>1
    <3>3. u[i] = t[j]
      BY <1>2, <1>4, <2>2, <3>1
    <3> QED
      BY <3>2, <3>3 DEF Holds
  <2> QED
    BY <2>1, <2>2
<1> QED
  BY <1>1, <1>5 DEF Holds

\* The directory that is written.
LEMMA ParentIs ==
  ASSUME NEW s \in Texts
  PROVE  \E n \in 0 .. Len(s) : ParentText(s) = SubSeq(s, 1, n)
<1>1. Len(s) \in Nat /\ DOMAIN s = 1 .. Len(s)
  BY TextIs
<1>2. PICK seps : seps = {i \in DOMAIN s : s[i] \in {"/", Backslash}}
  OBVIOUS
<1>3. seps \in SUBSET (0 .. Len(s))
  BY <1>1, <1>2
<1>4. PICK n : n = IF seps = {} THEN 0 ELSE CHOOSE i \in seps : \A j \in seps : j <= i
  OBVIOUS
<1>5. n \in 0 .. Len(s)
  <2>1. CASE seps = {}
    BY <1>1, <1>4, <2>1
  <2>2. CASE seps # {}
    <3>1. (CHOOSE i \in seps : \A j \in seps : j <= i) \in seps
      BY <1>1, <1>3, <2>2, GreatestIs
    <3> QED
      BY <1>3, <1>4, <2>2, <3>1
  <2> QED
    BY <2>1, <2>2
<1>6. ParentText(s) = SubSeq(s, 1, n)
  BY <1>2, <1>4 DEF ParentText
<1> QED
  BY <1>5, <1>6

\* What CompletePath offers is so.
LEMMA PathIs ==
  ASSUME CommandLineAssumption, NEW partial \in Texts, NEW v \in CompletePath(partial)
  PROVE  PathOffer(partial, v)
<1>1. PICK q, w : /\ q = IF partial # <<>> /\ partial[1] \in Quotes THEN partial[1] ELSE None
                  /\ w = IF q = None THEN partial ELSE Tail(partial)
  OBVIOUS
<1>2. /\ w \in Texts /\ q \in Quotes \cup {None}
      /\ partial = IF q = None THEN w ELSE <<q>> \o w
  <2>1. CASE partial # <<>> /\ partial[1] \in Quotes
    <3>1. q = partial[1] /\ q # None /\ w = Tail(partial) /\ q \in Chars
      BY <1>1, <2>1, QuoteIs
    <3>2. Len(partial) \in Nat \ {0}
      <4>1. Len(partial) # 0
        BY <2>1, TextEqual, TextShort
      <4> QED
        BY <4>1, TextIs
    <3>3. 1 \in 0 .. Len(partial)
      BY <3>2
    <3>4. w = From(partial, 1)
      BY <3>1 DEF From
    <3>5. partial = SubSeq(partial, 1, 1) \o w /\ w \in Texts
      BY <3>3, <3>4, Halves, FromIs
    <3>6. SubSeq(partial, 1, 1) = <<q>>
      <4>1. PICK x : x = SubSeq(partial, 1, 1)
        OBVIOUS
      <4>2. x \in Texts /\ Len(x) = 1 /\ x[1] = partial[1]
        BY <3>3, <4>1, ToIs
      <4>3. PICK y : y = <<q>>
        OBVIOUS
      <4>4. y \in Texts /\ Len(y) = 1 /\ y[1] = q
        BY <3>1, <4>3, TextShort
      <4>5. \A i \in 1 .. 1 : x[i] = y[i]
        BY <3>1, <4>2, <4>4
      <4>6. x = y
        BY <4>2, <4>4, <4>5, TextEqual
      <4> QED
        BY <4>1, <4>3, <4>6
    <3> QED
      BY <2>1, <3>1, <3>5, <3>6
  <2>2. CASE ~(partial # <<>> /\ partial[1] \in Quotes)
    BY <1>1, <2>2
  <2> QED
    BY <2>1, <2>2
<1>3. PICK parent : parent = ParentText(w)
  OBVIOUS
<1>4. PICK entries : entries = IF parent \in DOMAIN Tree THEN Tree[parent] ELSE {}
  OBVIOUS
<1>5. PICK e \in entries :
        /\ Starts(e.name, From(w, Len(parent)))
        /\ v = RewrapPath(parent \o e.name \o (IF e.dir THEN <<"/">> ELSE <<>>), q, e.dir)
  BY <1>1, <1>3, <1>4 DEF CompletePath
<1>6. parent \in DOMAIN Tree /\ e \in Tree[parent]
  BY <1>4, <1>5
<1>7. e.name \in Texts /\ e.dir \in BOOLEAN
  BY <1>6 DEF CommandLineAssumption
<1>8. PICK n \in 0 .. Len(w) : parent = SubSeq(w, 1, n)
  BY <1>2, <1>3, ParentIs
<1>9. parent \in Texts /\ Len(parent) = n
  BY <1>2, <1>8, ToIs
<1>10. PICK rest : rest = From(w, n)
  OBVIOUS
<1>11. w = parent \o rest /\ rest \in Texts
  BY <1>2, <1>8, <1>10, Halves, FromIs
<1>12. PICK u \in Texts : e.name = rest \o u
  <2>1. Starts(e.name, rest)
    BY <1>5, <1>9, <1>10
  <2> QED
    BY <1>7, <1>11, <2>1, StartsOn
<1>13. PICK slash : slash = IF e.dir THEN <<"/">> ELSE <<>>
  OBVIOUS
<1>14. slash \in Texts /\ ~Holds(slash, Quotes \cup {Backslash})
  <2>1. CASE e.dir = TRUE
    <3>1. "/" \in Chars /\ "/" \notin Quotes \cup {Backslash}
      BY DEF Chars, Quotes, Backslash
    <3>2. <<"/">> \in Texts /\ Len(<<"/">>) = 1 /\ <<"/">>[1] = "/"
      BY <3>1, TextShort
    <3>3. PICK y : y = <<"/">>
      OBVIOUS
    <3>4. DOMAIN y = 1 .. 1
      BY <3>2, <3>3, TextIs
    <3>5. \A i \in DOMAIN y : y[i] = "/"
      BY <3>2, <3>3, <3>4
    <3>6. ~Holds(y, Quotes \cup {Backslash})
      BY <3>1, <3>5 DEF Holds
    <3> QED
      BY <1>13, <2>1, <3>2, <3>3, <3>6
  <2>2. CASE e.dir = FALSE
    <3>1. slash = <<>>
      BY <1>13, <2>2
    <3>2. DOMAIN slash = {}
      BY <3>1
    <3> QED
      BY <3>1, <3>2, TextShort DEF Holds
  <2> QED
    BY <1>7, <2>1, <2>2
<1>15. PICK full : full = (parent \o e.name) \o slash
  OBVIOUS
<1>16. full \in Texts /\ (Holds(full, Quotes \cup {Backslash}) => OddPath(v))
  <2>1. PICK x : x = parent \o e.name
    OBVIOUS
  <2>2. full = x \o slash /\ x \in Texts
    BY <1>7, <1>9, <1>15, <2>1, TextJoin
  <2>3. Holds(full, Quotes \cup {Backslash}) => Holds(x, Quotes \cup {Backslash})
    BY <1>14, <2>2, HoldsJoin
  <2>4. Holds(x, Quotes \cup {Backslash}) => OddPath(v)
    BY <1>2, <1>5, <1>6, <2>1 DEF OddPath
  <2> QED
    BY <1>14, <2>2, <2>3, <2>4, TextJoin
<1>17. Starts(full, w)
  <2>1. parent \o e.name = w \o u
    BY <1>9, <1>11, <1>12, TextsOn
  <2>2. PICK x : x = u \o slash
    OBVIOUS
  <2>3. full = w \o x /\ x \in Texts
    <3>1. full = (w \o u) \o slash
      BY <1>15, <2>1
    <3>2. (w \o u) \o slash = w \o (u \o slash)
      BY <1>2, <1>12, <1>14, TextsOn
    <3> QED
      BY <1>12, <1>14, <2>2, <3>1, <3>2, TextJoin
  <2>4. Starts(w \o x, w)
    BY <1>2, <2>3, OnStarts
  <2> QED
    BY <2>3, <2>4
<1>18. v = RewrapPath(full, q, e.dir)
  BY <1>5, <1>13, <1>15
<1> QED
  BY <1>2, <1>7, <1>16, <1>17, <1>18 DEF PathOffer

\* What a whole text says.
All(s) == Said(s, 1, Len(s))

\* A text without quotes and escapes says itself, also when it goes on.
LEMMA PlainSays ==
  ASSUME NEW s \in Texts, ~Holds(s, Quotes \cup {Backslash})
  PROVE  All(s) = s /\ Scanned(s) = Open
<1>1. PICK n : n = Len(s)
  OBVIOUS
<1>2. n \in Nat /\ DOMAIN s = 1 .. n
  BY <1>1, TextIs
<1>3. Stretch(s, 1, n)
  BY <1>1, <1>2 DEF Stretch
<1>4. \A i \in 1 .. n : s[i] \notin Quotes \cup {Backslash}
  BY <1>2 DEF Holds
<1>5. Before(s, 1) = Open
  BY Reading
<1>6. (\A i \in 1 .. n + 1 : Before(s, i) = Open) /\ \A i \in 1 .. n : ~Mark(s, i)
  BY <1>3, <1>4, <1>5, PlainRead
<1>7. Scanned(s) = Open
  <2>1. n + 1 \in 1 .. n + 1
    BY <1>2
  <2> QED
    BY <1>1, <1>6, <2>1 DEF Scanned
<1>8. Said(s, 1, n) = SubSeq(s, 1, n)
  BY <1>3, <1>6, SaidPlainly
<1>9. SubSeq(s, 1, n) = s
  BY <1>1, SubSeqFull DEF Texts
<1> QED
  BY <1>1, <1>7, <1>8, <1>9 DEF All

\* What a text says behind its beginning.
Rest(x, s) == Said(x, Len(s) + 1, Len(x))

\* What is said so far stays said.
LEMMA SaidOn ==
  ASSUME NEW s \in Texts, NEW t \in Texts
  PROVE  /\ All(s \o t) = All(s) \o Rest(s \o t, s)
         /\ Rest(s \o t, s) \in Texts /\ All(s) \in Texts
<1>12. PICK x : x = s \o t
  OBVIOUS
<1>1. PICK m, n : m = Len(s) /\ n = Len(x)
  OBVIOUS
<1>2. /\ x \in Texts /\ n = m + Len(t)
      /\ \A i \in 1 .. m : x[i] = s[i]
      /\ \A i \in 1 .. m + 1 : Before(x, i) = Before(s, i)
  BY <1>1, <1>12, ReadOn
<1>3. m \in Nat /\ Len(t) \in Nat /\ n \in Nat /\ m <= n
  BY <1>1, <1>2, TextIs
<1>13. PICK k, a, b : k = 0 /\ a = 1 /\ b = m + 1
  OBVIOUS
<1>4. Alike(x, s, k, a, b)
  <2>1. /\ k \in Nat /\ a \in Nat \ {0} /\ b \in Nat /\ a <= b /\ b <= Len(s) + 1
        /\ b + k <= Len(x) + 1 /\ a + k = a /\ a \in 1 .. m + 1
    BY <1>1, <1>3, <1>13
  <2>2. Before(x, a + k) = Before(s, a)
    BY <1>2, <2>1
  <2>3. \A i \in a .. b - 1 : i + k = i /\ i \in 1 .. m
    BY <1>3, <1>13
  <2>4. \A i \in a .. b - 1 : x[i + k] = s[i]
    BY <1>2, <2>3
  <2> QED
    BY <2>1, <2>2, <2>4 DEF Alike
<1>5. Stretch(s, 1, m)
  BY <1>1, <1>3 DEF Stretch
<1>6. Said(x, a + k, m + k) = Said(s, a, m)
  BY <1>2, <1>4, <1>5, <1>13, SaidAlike
<1>7. Said(x, 1, m) = Said(s, 1, m)
  <2>1. a + k = 1 /\ m + k = m /\ a = 1
    BY <1>3, <1>13
  <2> QED
    BY <1>6, <2>1
<1>8. PICK d : d = m + 1
  OBVIOUS
<1>9. Stretch(x, 1, m) /\ Stretch(x, d, n)
  BY <1>1, <1>3, <1>8 DEF Stretch
<1>10. Said(x, 1, n) = Said(x, 1, m) \o Said(x, d, n)
  BY <1>2, <1>8, <1>9, SaidJoin
<1>11. Said(x, d, n) \in Texts /\ Said(s, 1, m) \in Texts
  BY <1>2, <1>5, <1>9, SaidIs
<1> QED
  BY <1>1, <1>7, <1>8, <1>10, <1>11, <1>12 DEF All, Rest

\* So a text that goes on from another says what that says, and more.
LEMMA StartsSay ==
  ASSUME NEW s \in Texts, NEW t \in Texts, Starts(s, t)
  PROVE  Starts(All(s), All(t))
<1>1. PICK u \in Texts : s = t \o u
  BY StartsOn
<1>2. PICK v : v = Rest(s, t)
  OBVIOUS
<1>3. All(s) = All(t) \o v /\ v \in Texts /\ All(t) \in Texts
  BY <1>1, <1>2, SaidOn
<1>4. Starts(All(t) \o v, All(t))
  BY <1>3, OnStarts
<1> QED
  BY <1>3, <1>4

\* A value without quotes and escapes is written in quotes as it is.
LEMMA EscapedPlain ==
  ASSUME NEW q \in Quotes, NEW v \in Texts, ~Holds(v, Quotes \cup {Backslash})
  PROVE  Escaped(v, q) = v
<1> DEFINE P == {m \in Nat : \A w \in Texts :
                   Len(w) = m /\ (\A i \in 1 .. m : w[i] \notin Quotes \cup {Backslash})
                   => Escaped(w, q) = w}
<1>1. 0 \in P
  <2>1. ASSUME NEW w \in Texts, Len(w) = 0 PROVE Escaped(w, q) = w
    <3>1. w = <<>>
      BY <2>1, TextShort, TextEqual
    <3> QED
      BY <2>1, <3>1, EscapedGoes
  <2> QED
    BY <2>1
<1>2. ASSUME NEW m \in Nat, m \in P PROVE m + 1 \in P
  <2>1. SUFFICES ASSUME NEW w \in Texts, Len(w) = m + 1,
                        \A i \in 1 .. m + 1 : w[i] \notin Quotes \cup {Backslash}
                 PROVE  Escaped(w, q) = w
    OBVIOUS
  <2>2. w # <<>>
    BY <2>1, TextShort
  <2>3. PICK u \in Seq(Chars) : \E e \in Chars : w = Append(u, e)
    BY <2>2, SequenceEmptyOrAppend DEF Texts
  <2>4. PICK e \in Chars : w = Append(u, e)
    BY <2>3
  <2>5. u \in Texts /\ Len(u) = m
    <3>1. Len(Append(u, e)) = Len(u) + 1 /\ Len(u) \in Nat
      BY AppendProperties
    <3> QED
      BY <2>1, <2>4, <3>1 DEF Texts
  <2>6. w[m + 1] = e /\ \A i \in 1 .. m : w[i] = u[i]
    BY <2>4, <2>5, OneMoreOf DEF Texts
  <2>7. \A i \in 1 .. m : u[i] \notin Quotes \cup {Backslash}
    BY <2>1, <2>6
  <2>8. Escaped(u, q) = u
    BY <1>2, <2>5, <2>7
  <2>9. e \notin {Backslash, q}
    <3>1. m + 1 \in 1 .. m + 1
      BY <1>2
    <3> QED
      BY <2>1, <2>6, <3>1
  <2>10. Escaped(w, q) = u \o <<e>>
    <3>1. Escaped(Append(u, e), q) = Escaped(u, q) \o Piece(e, q)
      BY <2>5, EscapedGoes
    <3>2. Piece(e, q) = <<e>>
      BY <2>9 DEF Piece
    <3> QED
      BY <2>4, <2>8, <3>1, <3>2
  <2>11. u \o <<e>> = w
    BY <2>4, AppendIsConcat
  <2> QED
    BY <2>10, <2>11
<1> HIDE DEF P
<1>3. \A m \in Nat : m \in P
  BY <1>1, <1>2, Induct
<1>4. Len(v) \in Nat /\ Len(v) \in P /\ DOMAIN v = 1 .. Len(v)
  BY <1>3, TextIs
<1>5. \A i \in 1 .. Len(v) : v[i] \notin Quotes \cup {Backslash}
  BY <1>4 DEF Holds
<1> QED
  BY <1>4, <1>5 DEF P

\* A value in quotes, closed or open.
Quoting(w, q, v) == w \in {<<q>> \o Escaped(v, q), WithQuotes(v, q)}

\* A text without quotes and escapes, and what it says with a value behind it.
Unquoted(s) == s \in Texts /\ ~Holds(s, Quotes \cup {Backslash})
Says(pre, w, v) == w \in Texts /\ All(pre \o w) = pre \o v

\* Behind a plain text, a value in quotes, closed or open, says the value.
LEMMA QuotedSays ==
  ASSUME NEW q \in Quotes, NEW pre, Unquoted(pre), NEW v \in Texts, NEW w, Quoting(w, q, v)
  PROVE  Says(pre, w, v)
<1>1. pre \in Texts /\ Scanned(pre) = Open /\ All(pre) = pre
  BY PlainSays DEF Unquoted
<1>2. PICK t : t = pre \o w
  OBVIOUS
<1>3. PICK n : n = Len(pre) + 1
  OBVIOUS
<1>4. <<q>> \in Texts /\ Escaped(v, q) \in Texts
  BY QuoteIs, TextShort, EscapedGoes
<1>5. w \in Texts /\ Said(t, n, Len(t)) = v
  <2>1. CASE w = WithQuotes(v, q)
    <3>1. Wrapped(t, n, q, v)
      BY <1>1, <1>2, <1>3, <2>1, Quoted
    <3> QED
      BY <2>1, <3>1, QuotedText DEF Wrapped
  <2>2. CASE w = <<q>> \o Escaped(v, q)
    <3>1. t = (pre \o <<q>>) \o Escaped(v, q)
      BY <1>2, <1>4, <2>2, TextsOn
    <3>2. Writing((pre \o <<q>>) \o Escaped(v, q), n, q, v)
      BY <1>1, <1>3, Inwards
    <3>3. Writing(t, n, q, v)
      BY <3>1, <3>2
    <3>4. w \in Texts
      BY <1>4, <2>2, TextJoin
    <3> QED
      BY <3>3, <3>4 DEF Writing
  <2> QED
    BY <2>1, <2>2 DEF Quoting
<1>6. All(t) = All(pre) \o Said(t, n, Len(t))
  <2>1. All(pre \o w) = All(pre) \o Rest(pre \o w, pre)
    BY <1>1, <1>5, SaidOn
  <2>2. Rest(t, pre) = Said(t, n, Len(t))
    BY <1>3 DEF Rest
  <2> QED
    BY <1>2, <2>1, <2>2
<1> QED
  BY <1>1, <1>2, <1>5, <1>6 DEF Says

\* A path as it is offered is a text.
LEMMA PathText ==
  ASSUME NEW partial \in Texts, NEW v, PathOffer(partial, v)
  PROVE  v \in Texts
<1>1. PICK q \in Quotes \cup {None}, dir \in BOOLEAN : \E full \in Texts : v = RewrapPath(full, q, dir)
  BY DEF PathOffer
<1>2. PICK full \in Texts : v = RewrapPath(full, q, dir)
  BY <1>1
<1>3. PICK r : r = IF q = None THEN "\"" ELSE q
  OBVIOUS
<1>4. r \in Quotes
  BY <1>3 DEF Quotes
<1>5. PICK x, y : x = <<r>> \o Escaped(full, r) /\ y = IF dir THEN <<>> ELSE <<r>>
  OBVIOUS
<1>6. x \in Texts /\ y \in Texts
  BY <1>4, <1>5, QuoteIs, TextShort, EscapedGoes, TextJoin
<1>7. v = full \/ v = x \o y
  BY <1>2, <1>3, <1>5 DEF RewrapPath
<1> QED
  BY <1>6, <1>7, TextJoin

\* Unless it is oddly named, it goes on, behind its key, as what is written does.
LEMMA PathFits ==
  ASSUME NEW pre \in Texts, ~Holds(pre, Quotes \cup {Backslash}), NEW partial \in Texts, NEW v,
         PathOffer(partial, v), ~OddPath(v)
  PROVE  v \in Texts /\ Starts(All(pre \o v), All(pre \o partial))
<1>1. PICK q \in Quotes \cup {None}, dir \in BOOLEAN : \E written, full \in Texts :
        /\ partial = IF q = None THEN written ELSE <<q>> \o written
        /\ Starts(full, written) /\ ~Holds(full, Quotes \cup {Backslash})
        /\ v = RewrapPath(full, q, dir)
  BY DEF PathOffer
<1>2. PICK written \in Texts : \E full \in Texts :
        /\ partial = IF q = None THEN written ELSE <<q>> \o written
        /\ Starts(full, written) /\ ~Holds(full, Quotes \cup {Backslash})
        /\ v = RewrapPath(full, q, dir)
  BY <1>1
<1>3. PICK full \in Texts :
        /\ partial = IF q = None THEN written ELSE <<q>> \o written
        /\ Starts(full, written) /\ ~Holds(full, Quotes \cup {Backslash})
        /\ v = RewrapPath(full, q, dir)
  BY <1>2
<1>4. PICK u \in Texts : full = written \o u
  BY <1>3, StartsOn
<1>5. ~Holds(written, Quotes \cup {Backslash})
  <2>1. Len(full) = Len(written) + Len(u) /\ \A i \in 1 .. Len(written) : full[i] = written[i]
    BY <1>4, ReadOn
  <2>2. Len(written) \in Nat /\ Len(u) \in Nat /\ DOMAIN full = 1 .. Len(full)
        /\ DOMAIN written = 1 .. Len(written)
    BY TextIs
  <2>3. \A i \in DOMAIN written : i \in DOMAIN full /\ full[i] = written[i]
    BY <2>1, <2>2
  <2> QED
    BY <1>3, <2>3 DEF Holds
<1>6. PICK r : r = IF q = None THEN "\"" ELSE q
  OBVIOUS
<1>7. r \in Quotes
  BY <1>6 DEF Quotes
<1>8. PICK w : w = IF q = None /\ ~Holds(full, Blanks) THEN full
                   ELSE <<r>> \o Escaped(full, r) \o (IF dir THEN <<>> ELSE <<r>>)
  OBVIOUS
<1>9. v = w
  BY <1>3, <1>6, <1>8 DEF RewrapPath
<1>10. Starts(pre \o full, pre \o written) /\ pre \o written \in Texts /\ pre \o full \in Texts
  <2>1. pre \o full = (pre \o written) \o u
    <3>1. (pre \o written) \o u = pre \o (written \o u)
      BY TextsOn
    <3> QED
      BY <1>4, <3>1
  <2>2. pre \o written \in Texts /\ pre \o full \in Texts
    BY TextJoin
  <2>3. PICK x : x = pre \o written
    OBVIOUS
  <2>4. Starts(x \o u, x)
    BY <2>2, <2>3, OnStarts
  <2> QED
    BY <2>1, <2>2, <2>3, <2>4
<1>11. CASE q = None /\ ~Holds(full, Blanks)
  <2>1. v = full /\ partial = written
    BY <1>3, <1>8, <1>9, <1>11
  <2> QED
    BY <1>10, <2>1, StartsSay
<1>12. CASE ~(q = None /\ ~Holds(full, Blanks))
  <2>1. Quoting(w, r, full)
    <3>1. CASE dir = TRUE
      <4>1. PICK y : y = <<r>> \o Escaped(full, r)
        OBVIOUS
      <4>2. y \in Texts
        BY <1>7, <4>1, QuoteIs, TextShort, EscapedGoes, TextJoin
      <4>3. y \o <<>> = y
        BY <4>2, ConcatEmptySeq DEF Texts
      <4>4. w = y \o <<>>
        BY <1>8, <1>12, <3>1, <4>1
      <4> QED
        BY <4>1, <4>3, <4>4 DEF Quoting
    <3>2. CASE dir = FALSE
      <4>1. w = <<r>> \o Escaped(full, r) \o <<r>>
        BY <1>8, <1>12, <3>2
      <4> QED
        BY <4>1 DEF WithQuotes, Quoting
    <3> QED
      BY <3>1, <3>2
  <2>2. w \in Texts /\ All(pre \o w) = pre \o full
    <3>1. Unquoted(pre)
      BY DEF Unquoted
    <3> QED
      BY <1>7, <2>1, <3>1, QuotedSays DEF Says
  <2>3. All(pre \o partial) = pre \o written
    <3>1. CASE q = None
      <4>1. partial = written
        BY <1>3, <3>1
      <4>2. ~Holds(pre \o written, Quotes \cup {Backslash})
        BY <1>5, HoldsJoin
      <4> QED
        BY <1>10, <4>1, <4>2, PlainSays
    <3>2. CASE q # None
      <4>1. q \in Quotes /\ partial = <<q>> \o written
        BY <1>3, <3>2
      <4>2. Escaped(written, q) = written
        BY <1>5, <4>1, EscapedPlain
      <4>3. Quoting(partial, q, written)
        BY <4>1, <4>2 DEF Quoting
      <4> QED
        BY <4>1, <4>3, QuotedSays DEF Says, Unquoted
    <3> QED
      BY <3>1, <3>2
  <2> QED
    BY <1>9, <1>10, <2>2, <2>3
<1> QED
  BY <1>11, <1>12

\* What may be offered for a last token.
Offers(last, c) ==
  \/ c \in DOMAIN Known /\ Starts(c, last)
  \/ \E h \in DOMAIN Known : \E k \in DOMAIN Known[h] : c = k \o <<"=">> /\ Starts(k, last)
  \/ \E h \in DOMAIN Known : \E k \in DOMAIN Known[h] : \E written \in Texts : \E v :
       /\ last = (k \o <<"=">>) \o written /\ c = (k \o <<"=">>) \o v
       /\ (v \in CompletePath(written) \/ (v \in Known[h][k].values /\ Starts(v, written)))

\* A key with its equals sign.
LEMMA KeyIs ==
  ASSUME NEW k \in Texts, IsKey(k)
  PROVE  k \o <<"=">> \in Texts /\ ~Holds(k \o <<"=">>, Quotes \cup {Backslash})
<1>1. PICK e : e = <<"=">>
  OBVIOUS
<1>2. e \in Texts /\ Len(e) = 1 /\ e[1] = "="
  BY <1>1, QuoteIs, TextShort
<1>3. DOMAIN e = 1 .. 1
  BY <1>2, TextIs
<1>4. "=" \notin Quotes \cup {Backslash}
  BY DEF Quotes, Backslash
<1>5. ~Holds(e, Quotes \cup {Backslash})
  <2>1. \A i \in DOMAIN e : e[i] = "="
    BY <1>2, <1>3
  <2> QED
    BY <1>4, <2>1 DEF Holds
<1>6. ~Holds(k, Quotes \cup {Backslash})
  <2>1. \A i \in DOMAIN k : k[i] \in {"c", "k", "t"}
    BY DEF IsKey, Letters
  <2>2. \A c \in {"c", "k", "t"} : c \notin Quotes \cup {Backslash}
    BY DEF Quotes, Backslash
  <2> QED
    BY <2>1, <2>2 DEF Holds
<1> QED
  BY <1>1, <1>2, <1>5, <1>6, HoldsJoin, TextJoin

\* Behind its key an oddly named path is one still.
LEMMA OddBehind ==
  ASSUME NEW pre \in Texts, NEW v \in Texts, OddPath(v)
  PROVE  OddlyNamed(pre \o v)
<1>1. PICK x, n, y : x = pre \o v /\ n = Len(pre) /\ y = From(x, n)
  OBVIOUS
<1>2. /\ x \in Texts /\ Len(x) = n + Len(v) /\ n \in Nat /\ Len(v) \in Nat
      /\ \A i \in 1 .. Len(v) : x[i + n] = v[i]
  BY <1>1, ReadOn, TextIs
<1>3. n \in 0 .. Len(x)
  BY <1>2
<1>4. y \in Texts /\ Len(y) = Len(x) - n /\ \A i \in 1 .. Len(x) - n : y[i] = x[i + n]
  BY <1>1, <1>2, <1>3, FromIs
<1>5. Len(x) - n = Len(v)
  BY <1>2
<1>6. y = v
  BY <1>2, <1>4, <1>5, TextEqual
<1> QED
  BY <1>1, <1>3, <1>6 DEF OddPath, OddlyNamed

\* It goes on with what the token says.
LEMMA OfferFit ==
  ASSUME CommandLineAssumption, NEW last \in Texts, NEW c, Offers(last, c)
  PROVE  c \in Texts /\ (~OddlyNamed(c) => Starts(All(c), All(last)))
<1>1. CASE c \in DOMAIN Known /\ Starts(c, last)
  <2>1. c \in Texts
    BY <1>1 DEF CommandLineAssumption
  <2> QED
    BY <1>1, <2>1, StartsSay
<1>2. ASSUME NEW h \in DOMAIN Known, NEW k \in DOMAIN Known[h], c = k \o <<"=">>, Starts(k, last)
      PROVE  c \in Texts /\ Starts(All(c), All(last))
  <2>1. k \in Texts /\ IsKey(k)
    BY <1>2 DEF CommandLineAssumption
  <2>2. PICK u \in Texts : k = last \o u
    BY <1>2, <2>1, StartsOn
  <2>3. PICK e : e = <<"=">>
    OBVIOUS
  <2>4. e \in Texts
    BY <2>3, QuoteIs, TextShort
  <2>5. c = last \o (u \o e) /\ u \o e \in Texts
    <3>1. (last \o u) \o e = last \o (u \o e)
      BY <2>4, TextsOn
    <3> QED
      BY <1>2, <2>2, <2>3, <2>4, <3>1, TextJoin
  <2>6. c \in Texts /\ Starts(c, last)
    BY <2>5, OnStarts
  <2> QED
    BY <2>6, StartsSay
<1>3. ASSUME NEW h \in DOMAIN Known, NEW k \in DOMAIN Known[h], NEW written \in Texts, NEW v,
             last = (k \o <<"=">>) \o written, c = (k \o <<"=">>) \o v,
             v \in CompletePath(written) \/ (v \in Known[h][k].values /\ Starts(v, written))
      PROVE  c \in Texts /\ (~OddlyNamed(c) => Starts(All(c), All(last)))
  <2>1. k \in Texts /\ IsKey(k) /\ Known[h][k].values \subseteq Texts
    BY <1>3 DEF CommandLineAssumption
  <2>2. PICK pre : pre = k \o <<"=">>
    OBVIOUS
  <2>3. pre \in Texts /\ ~Holds(pre, Quotes \cup {Backslash})
    BY <2>1, <2>2, KeyIs
  <2>4. CASE v \in CompletePath(written)
    <3>1. PathOffer(written, v)
      BY <2>4, PathIs
    <3>2. v \in Texts /\ (OddPath(v) => OddlyNamed(pre \o v))
      BY <2>3, <3>1, PathText, OddBehind
    <3>3. ~OddPath(v) => Starts(All(pre \o v), All(pre \o written))
      BY <2>3, <3>1, PathFits
    <3> QED
      BY <1>3, <2>2, <2>3, <3>2, <3>3, TextJoin
  <2>5. CASE v \in Known[h][k].values /\ Starts(v, written)
    <3>1. v \in Texts
      BY <2>1, <2>5
    <3>2. PICK u \in Texts : v = written \o u
      BY <2>5, <3>1, StartsOn
    <3>3. pre \o v = (pre \o written) \o u
      BY <2>3, <3>2, TextsOn
    <3>4. last \o u = c
      BY <1>3, <2>2, <3>3
    <3>5. Starts(last \o u, last) /\ last \o u \in Texts
      BY OnStarts
    <3> QED
      BY <3>4, <3>5, StartsSay
  <2> QED
    BY <1>3, <2>4, <2>5
<1> QED
  BY <1>1, <1>2, <1>3 DEF Offers

\* A text that ends in a blank between tokens.
LEMMA GapEnds ==
  ASSUME NEW s \in Texts, Len(s) \in Gaps(s)
  PROVE  EndsWithSeparator(s)
<1>1. Len(s) \in 1 .. Len(s) /\ s[Len(s)] \in Blanks /\ Plain(s, Len(s)) /\ Len(s) \in Nat
  BY TextIs DEF Gaps
<1>2. s # <<>>
  BY <1>1, TextShort
<1>3. Before(s, Len(s) + 1) = Scan(Before(s, Len(s)), s[Len(s)])
  BY <1>1, Reading
<1>4. \A c \in Blanks : Scan(Open, c) = Open
  BY DEF Blanks, Scan, Open, Backslash, Quotes, None
<1>5. Scanned(s) = Open
  BY <1>1, <1>3, <1>4 DEF Plain, Scanned
<1> QED
  BY <1>1, <1>2, <1>5 DEF EndsWithSeparator

\* The last token, as LooseTokens has it, where none of the blanks between tokens ends the text.
LEMMA LastLoose ==
  ASSUME NEW s \in Texts, s # <<>>, Len(s) \notin Gaps(s)
  PROVE  \E t \in LooseTokens(s) : t.text = CurrentToken(s)
<1>1. PICK g, n : g = LastGap(s) /\ n = Len(s)
  OBVIOUS
<1>2. n \in Nat \ {0} /\ DOMAIN s = 1 .. n
  <2>1. n # 0
    BY <1>1, TextShort, TextEqual
  <2> QED
    BY <1>1, <2>1, TextIs
<1>3. g \in 0 .. n /\ (g = 0 \/ g \in Gaps(s)) /\ (\A i \in Gaps(s) : i <= g) /\ Gaps(s) \in SUBSET (1 .. n)
  BY <1>1, LastGapIs
<1>4. g # n
  BY <1>1, <1>2, <1>3
<1>5. PICK i : i = g + 1
  OBVIOUS
<1>6. i \in 1 .. n /\ i - 1 = g /\ i \notin Gaps(s) /\ (i = 1 \/ i - 1 \in Gaps(s))
  BY <1>2, <1>3, <1>4, <1>5
<1>7. EndOf(s, Gaps(s), i) = n
  <2>1. n \in i .. Len(s) /\ (\A j \in i + 1 .. n : j \notin Gaps(s)) /\ n = Len(s)
    BY <1>1, <1>2, <1>3, <1>5, <1>6
  <2> QED
    BY <1>1, <1>3, <1>6, <2>1, EndOnly
<1>8. CurrentToken(s) = SubSeq(s, i, n)
  BY <1>1, <1>5 DEF CurrentToken, From
<1>9. PICK t : t = [at |-> i, text |-> SubSeq(s, i, EndOf(s, Gaps(s), i))]
  OBVIOUS
<1>10. t \in LooseTokens(s)
  BY <1>2, <1>6, <1>9 DEF LooseTokens
<1>11. t.text = CurrentToken(s)
  BY <1>7, <1>8, <1>9
<1> QED
  BY <1>10, <1>11

\* What there is of the last token.
LastText(segment) == IF EndsWithSeparator(segment) THEN <<>> ELSE CurrentToken(segment)

\* Behind the last blank a text is a text.
LEMMA LastIs == ASSUME NEW s \in Texts PROVE LastText(s) \in Texts
<1>1. CurrentToken(s) \in Texts
  BY LastGapIs, FromIs DEF CurrentToken
<1> QED
  BY <1>1, TextShort DEF LastText

\* What is offered for a text is offered for the last token of its last command.
LEMMA OffersAre ==
  ASSUME CommandLineAssumption, NEW s \in Texts, NEW c \in Complete(s)
  PROVE  Offers(LastText(From(s, SegmentStart(s))), c) /\ ~Starts(Trim(From(s, SegmentStart(s))), <<"!">>)
<1> DEFINE segment == From(s, SegmentStart(s))
           tokens == LooseTokens(segment)
           head == (CHOOSE t \in tokens : \A u \in tokens : t.at <= u.at).text
           last == IF EndsWithSeparator(segment) THEN <<>> ELSE CurrentToken(segment)
           key == SubSeq(last, 1, FirstEq(last) - 1)
           value == SubSeq(last, FirstEq(last) + 1, Len(last))
           before(w) == SubSeq(w, 1, FirstEq(w) - 1)
           used == {before(t.text) : t \in {u \in tokens : \E v \in tokens : v.at < u.at}}
           kind == Known[head][key]
           names == {x \in DOMAIN Known : Starts(x, IF tokens = {} THEN <<>> ELSE head)}
           keys == {k \o <<"=">> : k \in {x \in DOMAIN Known[head] \ used : Starts(x, last)}}
           values == {key \o <<"=">> \o v : v \in IF kind.path THEN CompletePath(value)
                                                  ELSE {x \in kind.values : Starts(x, value)}}
<1>1. c \in IF Starts(Trim(segment), <<"!">>) THEN {}
            ELSE IF tokens = {} \/ (Cardinality(tokens) = 1 /\ ~EndsWithSeparator(segment))
              THEN names
            ELSE IF head \notin DOMAIN Known THEN {}
            ELSE IF FirstEq(last) > Len(last) THEN keys
            ELSE IF key \notin DOMAIN Known[head] THEN {}
            ELSE values
  BY DEF Complete
<1>2. segment \in Texts
  BY SegmentIs, FromIs
<1>3. last \in Texts /\ last = LastText(segment)
  BY <1>2, LastIs DEF LastText
<1> HIDE DEF segment, tokens, used
<1>4. ~Starts(Trim(segment), <<"!">>)
  BY <1>1
<1>5. ASSUME c \in names,
             tokens = {} \/ (Cardinality(tokens) = 1 /\ ~EndsWithSeparator(segment))
      PROVE  Offers(last, c)
  <2>1. CASE tokens = {}
    <3>1. segment = <<>> \/ Len(segment) \in Gaps(segment)
      BY <1>2, <2>1, LastLoose DEF tokens
    <3>2. CASE Len(segment) \in Gaps(segment)
      <4>1. last = <<>>
        BY <1>2, <3>2, GapEnds
      <4> QED
        BY <1>3, <1>5, <2>1, <4>1 DEF Offers
    <3>3. CASE segment = <<>>
      <4>1. PICK g : g = LastGap(segment)
        OBVIOUS
      <4>2. Len(segment) = 0 /\ g \in 0 .. Len(segment)
        BY <1>2, <3>3, <4>1, LastGapIs, TextShort
      <4>3. g = 0
        BY <4>2
      <4>4. CurrentToken(segment) = From(segment, g)
        BY <4>1 DEF CurrentToken
      <4>5. From(segment, g) \in Texts /\ Len(From(segment, g)) = Len(segment) - g
        BY <1>2, <4>2, FromIs
      <4>6. Len(From(segment, g)) = 0
        BY <4>2, <4>3, <4>5
      <4>7. CurrentToken(segment) = <<>>
        BY <4>4, <4>5, <4>6, TextShort, TextEqual
      <4>8. last = <<>>
        BY <4>7
      <4> QED
        BY <1>3, <1>5, <2>1, <4>8 DEF Offers
    <3> QED
      BY <3>1, <3>2, <3>3
  <2>2. CASE tokens # {} /\ Cardinality(tokens) = 1 /\ ~EndsWithSeparator(segment)
    <3>1. IsFiniteSet(tokens)
      <4>1. PICK at : at = {i \in DOMAIN segment \ Gaps(segment) : i = 1 \/ i - 1 \in Gaps(segment)}
        OBVIOUS
      <4>2. at \subseteq 1 .. Len(segment) /\ 1 \in Int /\ Len(segment) \in Int
        BY <1>2, <4>1, TextIs
      <4>3. IsFiniteSet(at)
        BY <4>2, FS_Interval, FS_Subset
      <4>4. PICK f : f = [i \in at |-> [at |-> i, text |-> SubSeq(segment, i, EndOf(segment, Gaps(segment), i))]]
        OBVIOUS
      <4>5. tokens = {f[i] : i \in at}
        BY <4>1, <4>4 DEF tokens, LooseTokens
      <4>6. f \in Surjection(at, tokens)
        BY <4>4, <4>5 DEF Surjection
      <4> QED
        BY <4>3, <4>6, FS_Surjection
    <3>2. PICK x : tokens = {x}
      BY <2>2, <3>1, FS_Singleton
    <3>3. head = x.text
      <4>1. x.at \in Int
        <5>1. x \in LooseTokens(segment)
          BY <3>2 DEF tokens
        <5>2. \A i \in DOMAIN segment : i \in Int
          BY <1>2, TextIs
        <5> QED
          BY <5>1, <5>2 DEF LooseTokens
      <4>2. PICK y : y = CHOOSE t \in tokens : \A u \in tokens : t.at <= u.at
        OBVIOUS
      <4>3. \E t \in tokens : \A u \in tokens : t.at <= u.at
        BY <3>2, <4>1
      <4>4. y \in tokens
        BY <4>2, <4>3
      <4>5. y = x
        BY <3>2, <4>4
      <4>6. head = y.text
        BY <4>2
      <4> QED
        BY <4>5, <4>6
    <3>4. segment # <<>>
      <4>1. CASE segment = <<>>
        <5>1. DOMAIN segment = {}
          BY <4>1
        <5>2. LooseTokens(segment) = {}
          BY <5>1 DEF LooseTokens
        <5> QED
          BY <2>2, <5>2 DEF tokens
      <4> QED
        BY <4>1
    <3>5. Len(segment) \notin Gaps(segment)
      BY <1>2, <2>2, GapEnds
    <3>6. \E t \in LooseTokens(segment) : t.text = CurrentToken(segment)
      BY <1>2, <3>4, <3>5, LastLoose
    <3>7. x.text = CurrentToken(segment)
      BY <3>2, <3>6 DEF tokens
    <3>8. last = head
      BY <2>2, <3>3, <3>7
    <3> QED
      BY <1>3, <1>5, <2>2, <3>8 DEF Offers
  <2> QED
    BY <1>5, <2>1, <2>2
<1>6. ASSUME head \in DOMAIN Known, c \in keys
      PROVE  Offers(last, c)
  <2>1. PICK k \in DOMAIN Known[head] : c = k \o <<"=">> /\ Starts(k, last)
    BY <1>6
  <2> HIDE DEF head, last
  <2> QED
    BY <1>3, <1>6, <2>1 DEF Offers
<1>7. ASSUME head \in DOMAIN Known, key \in DOMAIN Known[head], c \in values,
             ~(FirstEq(last) > Len(last))
      PROVE  Offers(last, c)
  <2> HIDE DEF head, last
  <2>1. PICK v : c = key \o <<"=">> \o v /\ (v \in CompletePath(value) \/ (v \in kind.values /\ Starts(v, value)))
    BY <1>7
  <2>2. PICK f : f = FirstEq(last)
    OBVIOUS
  <2>3. f \in 1 .. Len(last) /\ last[f] = "=" /\ Len(last) \in Nat
    <3>1. f \in 1 .. Len(last) + 1 /\ (f <= Len(last) => last[f] = "=") /\ Len(last) \in Nat
      BY <1>3, <2>2, FirstEqIs, TextIs
    <3> QED
      BY <1>7, <2>2, <3>1
  <2>4. PICK k, y, e : k = SubSeq(last, 1, f - 1) /\ y = From(last, f) /\ e = <<"=">>
    OBVIOUS
  <2>5. key = k /\ value = y
    BY <2>2, <2>4 DEF From
  <2>6. y \in Texts /\ f \in 0 .. Len(last) /\ last = SubSeq(last, 1, f) \o y
    <3>1. f \in 0 .. Len(last)
      BY <2>3
    <3> QED
      BY <1>3, <2>4, <3>1, FromIs, Halves
  <2>7. SubSeq(last, 1, f) = k \o e
    <3>1. PICK z, m : z = SubSeq(last, 1, f) /\ m = f - 1
      OBVIOUS
    <3>2. m \in 0 .. Len(last) /\ m + 1 = f /\ m \in Nat
      BY <2>3, <3>1
    <3>3. z \in Texts /\ Len(z) = f /\ \A i \in 1 .. f : z[i] = last[i]
      BY <1>3, <2>6, <3>1, ToIs
    <3>4. k \in Texts /\ Len(k) = m /\ \A i \in 1 .. m : k[i] = last[i]
      BY <1>3, <2>4, <3>1, <3>2, ToIs
    <3>5. PICK w : w = k \o e
      OBVIOUS
    <3>6. "=" \in Chars /\ w = k \o <<"=">>
      BY <2>4, <3>5, QuoteIs
    <3>7. w \in Texts /\ Len(w) = Len(k) + 1 /\ w[Len(k) + 1] = "=" /\ \A i \in 1 .. Len(k) : w[i] = k[i]
      BY <3>4, <3>6, ReadOne
    <3>8. Len(w) = f /\ w[f] = last[f]
      BY <2>3, <3>2, <3>4, <3>7
    <3>9. \A i \in 1 .. f : i = f \/ i \in 1 .. m
      BY <3>2
    <3>10. \A i \in 1 .. f : z[i] = w[i]
      BY <3>3, <3>4, <3>7, <3>8, <3>9
    <3>11. z = w
      BY <3>3, <3>7, <3>8, <3>10, TextEqual
    <3> QED
      BY <3>1, <3>5, <3>11
  <2>8. PICK h : h = head
    OBVIOUS
  <2>9. h \in DOMAIN Known /\ k \in DOMAIN Known[h] /\ kind = Known[h][k]
    BY <1>7, <2>5, <2>8
  <2>10. last = (k \o <<"=">>) \o y /\ c = (k \o <<"=">>) \o v
    BY <2>1, <2>4, <2>5, <2>6, <2>7
  <2>11. v \in CompletePath(y) \/ (v \in Known[h][k].values /\ Starts(v, y))
    BY <2>1, <2>5, <2>9
  <2>12. Offers(last, c)
    BY <2>6, <2>9, <2>10, <2>11 DEF Offers
  <2> QED
    BY <1>3, <2>12
<1>8. Offers(LastText(segment), c)
  <2> HIDE DEF head, last, key, names, keys, values
  <2> QED
    BY <1>1, <1>3, <1>5, <1>6, <1>7
<1> QED
  BY <1>4, <1>8 DEF segment

\* A text is completed to a text.
LEMMA CompletedIs ==
  ASSUME NEW s \in Texts, NEW c \in Texts
  PROVE  /\ TokenStart(s) \in 0 .. Len(s) /\ Suffix(s, c) \in {<<>>, <<" ">>}
         /\ Completed(s, c) \in Texts
<1>1. TokenStart(s) \in 0 .. Len(s)
  BY LastGapIs, TextIs DEF TokenStart
<1>2. Suffix(s, c) \in {<<>>, <<" ">>}
  BY DEF Suffix
<1>3. <<" ">> \in Texts /\ <<>> \in Texts
  BY TextShort DEF Chars, Blanks
<1>4. PICK x, w : x = SubSeq(s, 1, TokenStart(s)) /\ w = Suffix(s, c)
  OBVIOUS
<1>5. x \in Texts /\ w \in Texts
  BY <1>1, <1>2, <1>3, <1>4, ToIs
<1>6. (x \o c) \o w \in Texts
  BY <1>5, TextJoin
<1> QED
  BY <1>1, <1>2, <1>4, <1>6 DEF Completed

\* What is typed, sent and recalled are texts, and what is offered was found for one of them.
Typed ==
  /\ line \in Texts /\ timed \in Texts /\ sent \subseteq Texts
  /\ \A c \in offered : c.for \in Texts /\ c.text \in Complete(c.for)

\* So what is offered is a text that goes on as the last token does, unless it is oddly named.
LEMMA OfferedIs ==
  ASSUME CommandLineAssumption, Typed, NEW c \in offered
  PROVE  /\ c.text \in Texts
         /\ ~OddlyNamed(c.text) =>
              Starts(All(c.text), All(LastText(From(c.for, SegmentStart(c.for)))))
<1>1. PICK s, x : s = c.for /\ x = c.text
  OBVIOUS
<1>2. s \in Texts /\ x \in Complete(s)
  BY <1>1 DEF Typed
<1>3. PICK last : last = LastText(From(s, SegmentStart(s)))
  OBVIOUS
<1>4. last \in Texts
  BY <1>2, <1>3, SegmentIs, FromIs, LastIs
<1>5. Offers(last, x)
  BY <1>2, <1>3, OffersAre
<1>6. x \in Texts /\ (~OddlyNamed(x) => Starts(All(x), All(last)))
  BY <1>4, <1>5, OfferFit
<1> QED
  BY <1>1, <1>3, <1>6

\* At first nothing is typed.
LEMMA TypedFirst == Init => Typed
BY TextShort DEF Init, Typed

\* A keystroke leaves texts.
LEMMA TypedChanged ==
  ASSUME Typed, NEW to \in Texts, Changed(to)
  PROVE  Typed'
<1>1. line' = to /\ sent' = sent /\ timed' \in {timed, to} /\ offered' \in {{}, offered}
  BY DEF Changed
<1> QED
  BY <1>1 DEF Typed

\* And so does every step.
LEMMA TypedNext ==
  ASSUME CommandLineAssumption, Typed, Next
  PROVE  Typed'
<1>0. /\ line \in Texts /\ timed \in Texts /\ sent \subseteq Texts
      /\ \A c \in offered : c.for \in Texts /\ c.text \in Complete(c.for)
  BY DEF Typed
<1>1. CASE \E c \in Keys : Type(c)
  <2>1. PICK c \in Keys : Changed(Append(line, c))
    BY <1>1 DEF Type
  <2>2. Append(line, c) \in Texts
    <3>1. c \in Chars
      BY DEF CommandLineAssumption
    <3> QED
      BY <1>0, <3>1, OneMoreOf DEF Texts
  <2> QED
    BY <2>1, <2>2, TypedChanged
<1>2. CASE Erase
  <2>1. PICK n : n = Len(line) - 1
    OBVIOUS
  <2>2. line # <<>> /\ Changed(SubSeq(line, 1, n))
    BY <1>2, <2>1 DEF Erase
  <2>3. n \in 0 .. Len(line)
    <3>1. Len(line) # 0 /\ Len(line) \in Nat
      BY <1>0, <2>2, TextShort, TextEqual, TextIs
    <3> QED
      BY <2>1, <3>1
  <2>4. SubSeq(line, 1, n) \in Texts
    BY <1>0, <2>3, ToIs
  <2> QED
    BY <2>2, <2>4, TypedChanged
<1>3. CASE Send
  BY <1>0, <1>3, TextShort DEF Send, Typed
<1>4. CASE Leave
  BY <1>0, <1>4, TextShort DEF Leave, Typed
<1>5. CASE \E s \in sent : Answer(s)
  <2>1. PICK s \in sent : Answer(s)
    BY <1>5
  <2>2. /\ line' = line /\ timed' = timed /\ sent' \subseteq sent
        /\ offered' \in {{}, {[text |-> c, for |-> s] : c \in Complete(s)}}
    BY <2>1 DEF Answer
  <2>3. \A c \in offered' : c.for = s /\ c.text \in Complete(s)
    BY <2>2
  <2>4. s \in Texts
    BY <1>0
  <2> QED
    BY <1>0, <2>2, <2>3, <2>4 DEF Typed
<1>6. CASE \E c \in offered : Apply(c)
  <2>1. PICK c \in offered : Apply(c)
    BY <1>6
  <2>2. /\ line' = Completed(line, c.text) /\ offered' = {} /\ timed' = timed /\ sent' = sent
    BY <2>1 DEF Apply
  <2>3. Completed(line, c.text) \in Texts
    BY <1>0, OfferedIs, CompletedIs
  <2> QED
    BY <1>0, <2>2, <2>3 DEF Typed
<1>7. CASE \E s \in Past : Recall(s)
  <2>1. PICK s \in Past : Recall(s)
    BY <1>7
  <2>2. s \in Texts
    BY DEF CommandLineAssumption
  <2> QED
    BY <1>0, <2>1, <2>2 DEF Recall, Typed
<1> QED
  BY <1>1, <1>2, <1>3, <1>4, <1>5, <1>6, <1>7 DEF Next

\* So all there is are texts.
LEMMA TypedStays == CommandLineAssumption /\ Spec => []Typed
<1>1. CommandLineAssumption /\ Typed /\ [Next]_vars => Typed'
  <2>1. Typed /\ UNCHANGED vars => Typed'
    BY DEF Typed, vars
  <2> QED
    BY <2>1, TypedNext
<1>2. CASE CommandLineAssumption
  <2>1. Typed /\ [Next]_vars => Typed'
    BY <1>1, <1>2
  <2> QED
    BY <2>1, TypedFirst, PTL DEF Spec
<1>3. CASE ~CommandLineAssumption
  BY <1>3
<1> QED
  BY <1>2, <1>3

\* Whatever is typed, all readers of the line agree on it, and a value written into a line is
\* read back (parse, parseIdelLine and currentBatchSegment; quoteHistoryValue, quoteParamValue).
THEOREM LinesAgree ==
  ASSUME CommandLineAssumption
  PROVE  Spec => [](ReadersAgree /\ WrittenReadsBack)
<1>1. Typed => ReadersAgree /\ WrittenReadsBack
  BY Agreed, Written DEF Typed
<1>2. Spec => []Typed
  BY TypedStays
<1> QED
  BY <1>1, <1>2, PTL

-----------------------------------------------------------------------------
(* What is offered goes on as the text ended.                              *)

\* A text that ends s, from n on, and is read alike.
Later(s, t, n) ==
  /\ t \in Texts /\ n \in Nat /\ Len(s) = Len(t) + n
  /\ \A i \in 1 .. Len(t) :
       s[i + n] = t[i] /\ Mark(s, i + n) = Mark(t, i) /\ Plain(s, i + n) = Plain(t, i)
  /\ \A i \in 1 .. Len(t) + 1 : Before(s, i + n) = Before(t, i)

\* What follows where nothing is open is read so.
LEMMA LaterIs ==
  ASSUME NEW s \in Texts, NEW n \in 0 .. Len(s), Before(s, n + 1) = Open
  PROVE  Later(s, From(s, n), n)
<1>1. PICK x, t : x = SubSeq(s, 1, n) /\ t = From(s, n)
  OBVIOUS
<1>2. x \in Texts /\ Len(x) = n /\ t \in Texts /\ s = x \o t
  BY <1>1, ToIs, FromIs, Halves
<1>3. n \in Nat /\ n + 1 \in 1 .. n + 1
  BY TextIs
<1>4. /\ Len(x \o t) = Len(x) + Len(t)
      /\ \A i \in 1 .. Len(t) : (x \o t)[i + Len(x)] = t[i]
      /\ \A i \in 1 .. Len(x) + 1 : Before(x \o t, i) = Before(x, i)
      /\ Scanned(x) = Open =>
              /\ \A i \in 1 .. Len(t) + 1 : Before(x \o t, i + Len(x)) = Before(t, i)
              /\ \A i \in 1 .. Len(t) :
                   Mark(x \o t, i + Len(x)) = Mark(t, i) /\ Plain(x \o t, i + Len(x)) = Plain(t, i)
  BY <1>2, ReadOn
<1>5. Scanned(x) = Open
  BY <1>2, <1>3, <1>4 DEF Scanned
<1>6. Len(s) = Len(t) + n
  BY <1>2, <1>3, <1>4, TextIs
<1> QED
  BY <1>1, <1>2, <1>3, <1>4, <1>5, <1>6 DEF Later

\* Nothing is open behind a blank between tokens.
LEMMA OpenBehindGap ==
  ASSUME NEW s \in Texts, NEW i \in Gaps(s)
  PROVE  Before(s, i + 1) = Open
<1>1. i \in 1 .. Len(s) /\ s[i] \in Blanks /\ Plain(s, i)
  BY TextIs DEF Gaps
<1>2. Before(s, i + 1) = Scan(Before(s, i), s[i])
  BY <1>1, Reading
<1>3. \A c \in Blanks : Scan(Open, c) = Open
  BY DEF Blanks, Scan, Open, Backslash, Quotes, None
<1> QED
  BY <1>1, <1>2, <1>3 DEF Plain

\* Nor behind what separates commands.
LEMMA OpenBehindCut ==
  ASSUME NEW s \in Texts, NEW i, CutAt(s, i)
  PROVE  Before(s, i + 1) = Open /\ Before(s, i + 2) = Open
<1>1. i \in 1 .. Len(s) - 1 /\ s[i] = "&" /\ s[i + 1] = "&" /\ Plain(s, i) /\ Len(s) \in Nat
  BY TextIs DEF CutAt
<1>2. i \in 1 .. Len(s) /\ i + 1 \in 1 .. Len(s) /\ (i + 1) + 1 = i + 2
  BY <1>1
<1>3. Before(s, i + 1) = Scan(Before(s, i), s[i]) /\ Before(s, i + 2) = Scan(Before(s, i + 1), s[i + 1])
  BY <1>2, Reading
<1>4. Scan(Open, "&") = Open
  BY DEF Scan, Open, Backslash, Quotes, None
<1> QED
  BY <1>1, <1>3, <1>4 DEF Plain

\* The last blank is the last blank of what follows too, if it is in it.
LEMMA LaterGap ==
  ASSUME NEW s \in Texts, NEW t, NEW n, Later(s, t, n), LastGap(s) > n
  PROVE  From(t, LastGap(t)) = From(s, LastGap(s))
<1>1. PICK g, h, b : g = LastGap(s) /\ h = LastGap(t) /\ b = Len(t)
  OBVIOUS
<1>2. /\ t \in Texts /\ n \in Nat /\ b \in Nat /\ Len(s) = b + n
      /\ DOMAIN t = 1 .. b /\ DOMAIN s = 1 .. b + n
      /\ \A i \in 1 .. b : s[i + n] = t[i] /\ Plain(s, i + n) = Plain(t, i)
  BY <1>1, TextIs DEF Later
<1>3. g \in 0 .. b + n /\ g > n /\ g \in Gaps(s) /\ \A i \in Gaps(s) : i <= g
  <2>1. g \in 0 .. Len(s) /\ (\A i \in Gaps(s) : i <= g) /\ (g = 0 \/ g \in Gaps(s))
    BY <1>1, LastGapIs
  <2> QED
    BY <1>1, <1>2, <2>1
<1>4. h \in 0 .. b /\ (\A i \in Gaps(t) : i <= h) /\ (h = 0 \/ h \in Gaps(t))
  BY <1>1, <1>2, LastGapIs
<1>5. ASSUME NEW i \in 1 .. b PROVE i \in Gaps(t) <=> i + n \in Gaps(s)
  <2>1. i + n \in 1 .. b + n
    BY <1>2
  <2> QED
    BY <1>2, <2>1 DEF Gaps
<1>6. PICK k : k = g - n
  OBVIOUS
<1>7. k \in 1 .. b /\ k + n = g
  BY <1>2, <1>3, <1>6
<1>8. k <= h
  BY <1>3, <1>4, <1>5, <1>7
<1>9. h \in 1 .. b /\ h \in Gaps(t)
  BY <1>4, <1>7, <1>8
<1>10. h + n <= g
  BY <1>3, <1>5, <1>9
<1>11. h + n = g
  BY <1>2, <1>7, <1>8, <1>9, <1>10
<1>12. PICK x, y : x = From(t, h) /\ y = From(s, g)
  OBVIOUS
<1>13. x \in Texts /\ Len(x) = b - h /\ \A i \in 1 .. b - h : x[i] = t[i + h]
  BY <1>1, <1>2, <1>4, <1>12, FromIs
<1>14. y \in Texts /\ Len(y) = (b + n) - g /\ \A i \in 1 .. (b + n) - g : y[i] = s[i + g]
  <2>1. PICK d : d = Len(s)
    OBVIOUS
  <2>2. g \in 0 .. Len(s)
    BY <1>2, <1>3
  <2>3. y \in Texts /\ Len(y) = d - g /\ \A i \in 1 .. d - g : y[i] = s[i + g]
    BY <1>12, <2>1, <2>2, FromIs
  <2>5. d = b + n
    BY <1>2, <2>1
  <2>4. (b + n) - g = d - g
    BY <2>5
  <2> QED
    BY <2>3, <2>4
<1>15. (b + n) - g = b - h
  BY <1>2, <1>9, <1>11
<1>16. ASSUME NEW i \in 1 .. b - h PROVE x[i] = y[i]
  <2>1. PICK j : j = i + h
    OBVIOUS
  <2>2. j \in 1 .. b /\ j + n = i + g
    BY <1>2, <1>9, <1>11, <2>1
  <2>3. s[j + n] = t[j]
    BY <1>2, <2>2
  <2> QED
    BY <1>13, <1>14, <1>15, <2>1, <2>2, <2>3
<1>17. x = y
  BY <1>13, <1>14, <1>15, <1>16, TextEqual
<1> QED
  BY <1>1, <1>12, <1>17

\* And so is its end.
LEMMA LaterEnds ==
  ASSUME NEW s \in Texts, NEW t, NEW n, Later(s, t, n), t # <<>>
  PROVE  EndsWithSeparator(t) <=> EndsWithSeparator(s)
<1>1. PICK b : b = Len(t)
  OBVIOUS
<1>2. /\ t \in Texts /\ n \in Nat /\ Len(s) = b + n
      /\ \A i \in 1 .. b : s[i + n] = t[i]
      /\ \A i \in 1 .. b + 1 : Before(s, i + n) = Before(t, i)
  BY <1>1 DEF Later
<1>3. b \in Nat \ {0}
  <2>1. b # 0
    BY <1>1, <1>2, TextShort, TextEqual
  <2> QED
    BY <1>1, <1>2, <2>1, TextIs
<1>4. s # <<>>
  <2>1. Len(s) # 0
    BY <1>2, <1>3
  <2> QED
    BY <2>1, TextShort
<1>5. s[Len(s)] = t[b]
  <2>1. b \in 1 .. b
    BY <1>3
  <2> QED
    BY <1>2, <2>1
<1>6. Scanned(s) = Scanned(t)
  <2>1. b + 1 \in 1 .. b + 1 /\ (b + 1) + n = (b + n) + 1
    BY <1>2, <1>3
  <2>2. Before(s, (b + n) + 1) = Before(t, b + 1)
    BY <1>2, <2>1
  <2> QED
    BY <1>1, <1>2, <2>2 DEF Scanned
<1> QED
  BY <1>1, <1>4, <1>5, <1>6 DEF EndsWithSeparator

\* What separates commands in it does so in what follows, or what is before it does.
LEMMA LaterCut ==
  ASSUME NEW s \in Texts, NEW t, NEW n, Later(s, t, n), NEW i \in 1 .. Len(t), CutAt(s, i + n)
  PROVE  Cuts(t) # {}
<1>1. PICK b, T : b = Len(t) /\ T = {j \in 1 .. Len(t) : CutAt(t, j)}
  OBVIOUS
<1>2. /\ t \in Texts /\ b \in Nat /\ n \in Nat /\ Len(s) = b + n
      /\ \A j \in 1 .. b : s[j + n] = t[j] /\ Plain(s, j + n) = Plain(t, j)
  BY <1>1, TextIs DEF Later
<1>3. i \in T
  <2>1. i + n \in 1 .. (b + n) - 1 /\ s[i + n] = "&" /\ s[(i + n) + 1] = "&" /\ Plain(s, i + n)
    BY <1>2 DEF CutAt
  <2>2. i \in 1 .. b - 1 /\ i + 1 \in 1 .. b /\ (i + 1) + n = (i + n) + 1 /\ i \in 1 .. b
    BY <1>1, <1>2, <2>1
  <2>3. t[i] = "&" /\ t[i + 1] = "&" /\ Plain(t, i)
    BY <1>2, <2>1, <2>2
  <2>4. CutAt(t, i)
    BY <1>1, <2>2, <2>3 DEF CutAt
  <2> QED
    BY <1>1, <2>4
<1>4. T \in SUBSET (0 .. b) /\ T # {}
  BY <1>1, <1>2, <1>3
<1>5. PICK j : j = Min(T)
  OBVIOUS
<1>6. j \in T /\ \A y \in T : j <= y
  BY <1>2, <1>4, <1>5, Least
<1>7. j \in 1 .. b /\ CutAt(t, j)
  BY <1>1, <1>6
<1>8. j - 1 \notin Cuts(t)
  <2>1. SUFFICES ASSUME j - 1 \in Cuts(t) PROVE FALSE
    OBVIOUS
  <2>2. PICK k : k = j - 1
    OBVIOUS
  <2>3. k \in Cuts(t) /\ k \in 1 .. b
    BY <1>1, <1>2, <2>1, <2>2, CutsAre
  <2>4. CutAt(t, k)
    BY <1>1, <1>2, <2>3, CutsAre
  <2>5. k \in T
    BY <1>1, <2>3, <2>4
  <2> QED
    BY <1>6, <1>7, <2>2, <2>5
<1>9. j \in Cuts(t)
  BY <1>1, <1>2, <1>7, <1>8, CutsAre
<1> QED
  BY <1>9

\* So what the completion takes for the last token is what the page puts the completion for, if
\* the page does not misread the text.
LEMMA LastIsTyped ==
  ASSUME NEW s \in Texts, ~Misread(s), ~EndsWithSeparator(s)
  PROVE  LastText(From(s, SegmentStart(s))) = From(s, TokenStart(s))
<1>1. PICK g, m, n : g = LastGap(s) /\ m = SegmentStart(s) /\ n = Len(s)
  OBVIOUS
<1>2. TokenStart(s) = g /\ Cuts(From(s, g)) = {}
  BY <1>1 DEF TokenStart, Misread
<1>3. g \in 0 .. n /\ n \in Nat /\ m \in 0 .. n /\ (g = 0 \/ g \in Gaps(s))
  BY <1>1, LastGapIs, SegmentIs, TextIs
<1>4. CASE m = 0
  <2>1. From(s, 0) = s
    <3>1. SubSeq(s, 1, Len(s)) = s
      BY SubSeqFull DEF Texts
    <3>2. 0 + 1 = 1
      OBVIOUS
    <3> QED
      BY <3>1 DEF From
  <2>2. LastText(s) = From(s, g)
    BY <1>1 DEF LastText, CurrentToken
  <2> QED
    BY <1>1, <1>2, <1>4, <2>1, <2>2
<1>5. CASE m # 0
  <2>1. PICK i : i = m - 1
    OBVIOUS
  <2>2. i \in Cuts(s)
    BY <1>1, <1>5, <2>1, SegmentIs
  <2>3. i \in 1 .. n /\ CutAt(s, i)
    BY <1>1, <2>2, CutsAre
  <2>4. i \in 1 .. n - 1 /\ s[i] = "&" /\ s[i + 1] = "&" /\ i + 1 = m /\ i + 2 = m + 1
    BY <1>1, <1>3, <2>1, <2>3 DEF CutAt
  <2>5. g # i /\ g # m
    <3>1. g \in Gaps(s) => s[g] \in Blanks
      BY DEF Gaps
    <3>2. "&" \notin Blanks
      BY DEF Blanks
    <3> QED
      BY <1>3, <1>5, <2>4, <3>1, <3>2
  <2>6. ~(g < i)
    <3>1. SUFFICES ASSUME g < i PROVE FALSE
      OBVIOUS
    <3>2. Before(s, g + 1) = Open
      <4>1. CASE g = 0
        <5>1. g + 1 = 1
          BY <4>1
        <5> QED
          BY <5>1, Reading
      <4>2. CASE g \in Gaps(s)
        BY <4>2, OpenBehindGap
      <4> QED
        BY <1>3, <4>1, <4>2
    <3>3. PICK t : t = From(s, g)
      OBVIOUS
    <3>4. Later(s, t, g)
      BY <1>1, <1>3, <3>2, <3>3, LaterIs
    <3>5. Len(t) = n - g
      BY <1>1, <1>3, <3>3, FromIs
    <3>6. PICK j : j = i - g
      OBVIOUS
    <3>7. j \in 1 .. Len(t) /\ j + g = i
      BY <1>3, <2>4, <3>1, <3>5, <3>6
    <3>8. CutAt(s, j + g)
      BY <2>3, <3>7
    <3>9. Cuts(t) # {}
      BY <3>4, <3>7, <3>8, LaterCut
    <3> QED
      BY <1>2, <3>3, <3>9
  <2>7. g > m
    BY <1>3, <2>4, <2>5, <2>6
  <2>8. Before(s, m + 1) = Open
    BY <2>3, <2>4, OpenBehindCut
  <2>9. PICK t : t = From(s, m)
    OBVIOUS
  <2>10. Later(s, t, m)
    BY <1>1, <1>3, <2>8, <2>9, LaterIs
  <2>11. From(t, LastGap(t)) = From(s, g)
    BY <1>1, <2>7, <2>10, LaterGap
  <2>12. t # <<>>
    <3>1. Len(t) = n - m
      BY <1>1, <1>3, <2>9, FromIs
    <3>2. Len(t) # 0
      BY <1>3, <2>7, <3>1
    <3> QED
      BY <3>2, TextShort
  <2>13. ~EndsWithSeparator(t)
    BY <2>10, <2>12, LaterEnds
  <2>14. LastText(t) = From(s, g)
    BY <2>11, <2>13 DEF LastText, CurrentToken
  <2> QED
    BY <1>1, <1>2, <2>9, <2>14
<1> QED
  BY <1>4, <1>5

\* And what is offered for it goes on as it does.
LEMMA GoesOn ==
  ASSUME CommandLineAssumption, Typed, ~Misread(line), NEW c \in offered, c.for = line,
         ~OddlyNamed(c.text)
  PROVE  Starts(All(c.text), All(From(line, TokenStart(line))))
<1>1. PICK typing : typing = From(line, TokenStart(line))
  OBVIOUS
<1>2. c.text \in Texts /\ Starts(All(c.text), All(LastText(From(line, SegmentStart(line)))))
  BY OfferedIs
<1>3. line \in Texts
  BY DEF Typed
<1>4. CASE ~EndsWithSeparator(line)
  BY <1>1, <1>2, <1>3, <1>4, LastIsTyped
<1>5. CASE EndsWithSeparator(line)
  <2>1. PICK n : n = Len(line)
    OBVIOUS
  <2>2. n \in 0 .. n /\ TokenStart(line) = n
    BY <1>3, <1>5, <2>1, TextIs DEF TokenStart
  <2>3. typing = From(line, n)
    BY <1>1, <2>2
  <2>4. typing \in Texts /\ Len(typing) = n - n
    BY <1>3, <2>1, <2>2, <2>3, FromIs
  <2>5. Len(typing) = 0
    BY <2>2, <2>4
  <2>6. typing = <<>>
    BY <2>4, <2>5, TextShort, TextEqual
  <2>7. ~Holds(typing, Quotes \cup {Backslash})
    <3>1. DOMAIN typing = {}
      BY <2>6
    <3> QED
      BY <3>1 DEF Holds
  <2>8. All(typing) = typing
    BY <2>4, <2>7, PlainSays
  <2>9. PICK x : x = All(c.text)
    OBVIOUS
  <2>10. x \in Texts
    <3>1. Stretch(c.text, 1, Len(c.text))
      <4>1. PICK k : k = Len(c.text)
        OBVIOUS
      <4>2. k \in Nat
        BY <1>2, <4>1, TextIs
      <4>3. Stretch(c.text, 1, k)
        BY <4>1, <4>2 DEF Stretch
      <4> QED
        BY <4>1, <4>3
    <3> QED
      BY <1>2, <2>9, <3>1, SaidIs DEF All
  <2>11. Starts(x, typing)
    <3>1. Len(x) \in Nat
      BY <2>10, TextIs
    <3>2. \A i \in 1 .. Len(typing) : x[i] = typing[i]
      BY <2>5
    <3>3. Len(typing) <= Len(x)
      BY <2>5, <3>1
    <3> QED
      BY <2>4, <2>10, <3>2, <3>3, StartsIs
  <2> QED
    BY <1>1, <2>8, <2>9, <2>11
<1> QED
  BY <1>4, <1>5

-----------------------------------------------------------------------------
(* The tokens of a line that goes on behind a blank.                       *)

\* A function on 1 .. n is a sequence of length n.
LEMMA LenOf ==
  ASSUME NEW V, NEW n \in Nat, NEW f \in [1 .. n -> V]
  PROVE  f \in Seq(V) /\ Len(f) = n
OBVIOUS

\* Two sequences, one behind the other.
Joins(a, b, c, m, n) ==
  /\ a = [k \in 1 .. m |-> a[k]] /\ b = [k \in 1 .. n |-> b[k]] /\ c = [k \in 1 .. m + n |-> c[k]]
  /\ \A k \in 1 .. m : c[k] = a[k]
  /\ \A k \in 1 .. n : c[k + m] = b[k]

\* It is then the one behind the other.
LEMMA SeqJoin ==
  ASSUME NEW m \in Nat, NEW n \in Nat, NEW a, NEW b, NEW c, Joins(a, b, c, m, n)
  PROVE  c = a \o b
<1>1. PICK V : V = {a[k] : k \in 1 .. m} \cup {b[k] : k \in 1 .. n}
  OBVIOUS
<1>2. a \in [1 .. m -> V] /\ b \in [1 .. n -> V]
  <2>1. \A k \in 1 .. m : a[k] \in V
    BY <1>1
  <2>2. \A k \in 1 .. n : b[k] \in V
    BY <1>1
  <2>3. [k \in 1 .. m |-> a[k]] \in [1 .. m -> V] /\ [k \in 1 .. n |-> b[k]] \in [1 .. n -> V]
    BY <2>1, <2>2
  <2> QED
    BY <2>3 DEF Joins
<1>3. a \in Seq(V) /\ b \in Seq(V) /\ Len(a) = m /\ Len(b) = n
  <2>1. a \in Seq(V) /\ b \in Seq(V)
    BY <1>2, SeqDef
  <2>2. DOMAIN a = 1 .. m /\ DOMAIN b = 1 .. n
    BY <1>2
  <2>3. Len(a) = m
    BY <1>2, LenOf
  <2>4. Len(b) = n
    BY <1>2, LenOf
  <2> QED
    BY <2>1, <2>3, <2>4
<1>4. PICK d : d = a \o b
  OBVIOUS
<1>5. /\ d \in Seq(V) /\ Len(d) = m + n
      /\ \A i \in 1 .. m + n : d[i] = IF i <= m THEN a[i] ELSE b[i - m]
  <2>1. /\ a \o b \in Seq(V) /\ Len(a \o b) = Len(a) + Len(b)
        /\ \A i \in 1 .. Len(a) + Len(b) : (a \o b)[i] = IF i <= Len(a) THEN a[i] ELSE b[i - Len(a)]
    BY <1>3, ConcatProperties
  <2> QED
    BY <1>3, <1>4, <2>1
<1>6. ASSUME NEW i \in 1 .. m + n PROVE c[i] = d[i]
  <2>1. CASE i <= m
    <3>1. i \in 1 .. m
      BY <2>1
    <3>2. c[i] = a[i]
      BY <3>1 DEF Joins
    <3> QED
      BY <1>5, <2>1, <3>2
  <2>2. CASE ~(i <= m)
    <3>1. PICK k : k = i - m
      OBVIOUS
    <3>2. k \in 1 .. n /\ k + m = i
      BY <2>2, <3>1
    <3>3. c[k + m] = b[k]
      BY <3>2 DEF Joins
    <3>4. d[i] = b[k]
      BY <1>5, <2>2, <3>1
    <3> QED
      BY <3>2, <3>3, <3>4
  <2> QED
    BY <2>1, <2>2
<1>7. d \in [1 .. m + n -> V]
  BY <1>5
<1>8. d = [k \in 1 .. m + n |-> d[k]]
  BY <1>7
<1>9. c = d
  <2>1. c = [k \in 1 .. m + n |-> c[k]]
    BY DEF Joins
  <2> QED
    BY <1>6, <1>8, <2>1
<1> QED
  BY <1>4, <1>9

\* s is a part of u, from n on, and is read there as it is.
Part(u, s, n) ==
  /\ u \in Texts /\ s \in Texts /\ n \in Nat /\ Len(s) + n <= Len(u)
  /\ \A i \in 1 .. Len(s) :
       u[i + n] = s[i] /\ Mark(u, i + n) = Mark(s, i) /\ Plain(u, i + n) = Plain(s, i)
  /\ \A i \in 1 .. Len(s) + 1 : Before(u, i + n) = Before(s, i)

\* Where words end.
Cut(s) == Gaps(s) \cup Eqs(s)
\* Behind the part words end, if not before.
Right(u, s, n) == Len(s) + n = Len(u) \/ (Len(s) + n) + 1 \in Cut(u) \/ Len(s) \in Gaps(s)

\* They are places in the text.
LEMMA CutIs ==
  ASSUME NEW s \in Texts
  PROVE  /\ Cut(s) \in SUBSET (1 .. Len(s)) /\ Len(s) \in Nat
         /\ Gaps(s) \in SUBSET (1 .. Len(s)) /\ Eqs(s) \in SUBSET (1 .. Len(s))
         /\ Gaps(s) \subseteq Cut(s) /\ Eqs(s) \subseteq Cut(s)
BY TextIs DEF Cut, Gaps, Eqs

\* They are the same in the part.
LEMMA CutMoves ==
  ASSUME NEW u, NEW s, NEW n, Part(u, s, n), NEW i \in 1 .. Len(s)
  PROVE  /\ i \in Gaps(s) <=> i + n \in Gaps(u)
         /\ i \in Eqs(s) <=> i + n \in Eqs(u)
         /\ i \in Cut(s) <=> i + n \in Cut(u)
         /\ i + n \in 1 .. Len(u)
<1>1. /\ u \in Texts /\ s \in Texts /\ n \in Nat /\ Len(s) + n <= Len(u)
      /\ u[i + n] = s[i] /\ Plain(u, i + n) = Plain(s, i)
  BY DEF Part
<1>2. Len(s) \in Nat /\ Len(u) \in Nat /\ DOMAIN s = 1 .. Len(s) /\ DOMAIN u = 1 .. Len(u)
  BY <1>1, TextIs
<1>3. i + n \in 1 .. Len(u)
  BY <1>1, <1>2
<1>4. (i \in Gaps(s) <=> i + n \in Gaps(u)) /\ (i \in Eqs(s) <=> i + n \in Eqs(u))
  BY <1>1, <1>2, <1>3 DEF Gaps, Eqs
<1> QED
  BY <1>3, <1>4 DEF Cut

\* Tokens start in it where they do in the text, if a blank is before it.
LEMMA PlacesMove ==
  ASSUME NEW u, NEW s, NEW n, Part(u, s, n), NEW i \in 1 .. Len(s), n = 0 \/ n \in Gaps(u)
  PROVE  i \in Places(s) <=> i + n \in Places(u)
<1>1. u \in Texts /\ s \in Texts /\ n \in Nat /\ Len(s) \in Nat /\ i + n \in 1 .. Len(u)
  BY CutMoves, TextIs DEF Part
<1>2. /\ i \in Places(s) <=> i \in Eqs(s) \/ (i \notin Cut(s) /\ (i = 1 \/ i - 1 \in Cut(s)))
      /\ i + n \in Places(u) <=> i + n \in Eqs(u) \/ (i + n \notin Cut(u) /\ (i + n = 1 \/ (i + n) - 1 \in Cut(u)))
  <2>1. DOMAIN s = 1 .. Len(s) /\ DOMAIN u = 1 .. Len(u)
    BY <1>1, TextIs
  <2> QED
    BY <1>1, <2>1 DEF Places, Heads, Cut
<1>3. (i \in Eqs(s) <=> i + n \in Eqs(u)) /\ (i \in Cut(s) <=> i + n \in Cut(u))
  BY CutMoves
<1>4. (i = 1 \/ i - 1 \in Cut(s)) <=> (i + n = 1 \/ (i + n) - 1 \in Cut(u))
  <2>1. CASE i = 1
    <3>1. n # 0 => (i + n) - 1 = n /\ n \in Cut(u)
      BY <1>1, <2>1 DEF Cut
    <3>2. n = 0 => i + n = 1
      BY <2>1
    <3> QED
      BY <2>1, <3>1, <3>2
  <2>2. CASE i # 1
    <3>1. PICK j : j = i - 1
      OBVIOUS
    <3>2. j \in 1 .. Len(s) /\ j + n = (i + n) - 1 /\ i + n # 1
      BY <1>1, <2>2, <3>1
    <3>3. j \in Cut(s) <=> j + n \in Cut(u)
      BY <3>2, CutMoves
    <3> QED
      BY <2>2, <3>1, <3>2, <3>3
  <2> QED
    BY <2>1, <2>2
<1> QED
  BY <1>2, <1>3, <1>4

\* And are the same there, if none goes on behind it.
LEMMA TokenMoves ==
  ASSUME NEW u, NEW s, NEW n, Part(u, s, n), Right(u, s, n), NEW i \in Places(s)
  PROVE  Token(u, i + n) = Token(s, i)
<1>1. u \in Texts /\ s \in Texts /\ n \in Nat /\ Len(s) \in Nat /\ Len(u) \in Nat /\ Len(s) + n <= Len(u)
  BY TextIs DEF Part
<1>2. i \in 1 .. Len(s)
  BY <1>1, TextIs DEF Places, Heads, Eqs
<1>3. i + n \in 1 .. Len(u) /\ (i \in Eqs(s) <=> i + n \in Eqs(u))
  BY <1>2, CutMoves
<1>4. CASE i \in Eqs(s)
  BY <1>3, <1>4 DEF Token
<1>5. CASE i \notin Eqs(s)
  <2>1. i \notin Cut(s)
    BY <1>5 DEF Places, Heads, Cut
  <2>2. PICK e : e = EndOf(s, Cut(s), i)
    OBVIOUS
  <2>3. e \in i .. Len(s) /\ (\A j \in i + 1 .. e : j \notin Cut(s)) /\ (e = Len(s) \/ e + 1 \in Cut(s))
    BY <1>1, <1>2, <2>2, CutIs, EndIs
  <2>4. e \in 1 .. Len(s) /\ e + n \in i + n .. Len(u)
    BY <1>1, <1>2, <2>3
  <2>5. ASSUME NEW j \in (i + n) + 1 .. e + n PROVE j \notin Cut(u)
    <3>1. PICK k : k = j - n
      OBVIOUS
    <3>2. k \in i + 1 .. e /\ k \in 1 .. Len(s) /\ k + n = j
      BY <1>1, <1>2, <2>3, <3>1
    <3> QED
      BY <2>3, <3>2, CutMoves
  <2>6. e + n = Len(u) \/ (e + n) + 1 \in Cut(u)
    <3>1. CASE e + 1 \in Cut(s)
      <4>1. e + 1 \in 1 .. Len(s) /\ (e + 1) + n = (e + n) + 1
        BY <1>1, <2>4, <3>1, CutIs
      <4> QED
        BY <3>1, <4>1, CutMoves
    <3>2. CASE e = Len(s)
      <4>1. Len(s) \notin Gaps(s)
        <5>1. Len(s) = i \/ Len(s) \in i + 1 .. e
          BY <1>1, <1>2, <3>2
        <5>2. Len(s) \notin Cut(s)
          BY <2>1, <2>3, <5>1
        <5> QED
          BY <5>2 DEF Cut
      <4> QED
        BY <3>2, <4>1 DEF Right
    <3> QED
      BY <2>3, <3>1, <3>2
  <2>7. EndOf(u, Cut(u), i + n) = e + n
    <3>1. PICK x, y : x = i + n /\ y = e + n
      OBVIOUS
    <3>2. x \in 1 .. Len(u) /\ y \in x .. Len(u) /\ (\A j \in x + 1 .. y : j \notin Cut(u))
          /\ (y = Len(u) \/ y + 1 \in Cut(u))
      BY <1>3, <2>4, <2>5, <2>6, <3>1
    <3>3. EndOf(u, Cut(u), x) = y
      BY <1>1, <3>2, CutIs, EndOnly
    <3> QED
      BY <3>1, <3>3
  <2>8. Said(u, i + n, e + n) = Said(s, i, e)
    <3>1. PICK f : f = e + 1
      OBVIOUS
    <3>2. /\ n \in Nat /\ i \in Nat \ {0} /\ f \in Nat /\ i <= f /\ f <= Len(s) + 1
          /\ f + n <= Len(u) + 1 /\ i \in 1 .. Len(s) + 1
      BY <1>1, <1>2, <2>3, <3>1
    <3>3. Before(u, i + n) = Before(s, i)
      BY <3>2 DEF Part
    <3>4. \A j \in i .. f - 1 : j \in 1 .. Len(s)
      BY <1>1, <1>2, <2>3, <3>1
    <3>5. \A j \in i .. f - 1 : u[j + n] = s[j]
      BY <3>4 DEF Part
    <3>6. Alike(u, s, n, i, f)
      BY <3>2, <3>3, <3>5 DEF Alike
    <3>7. Alike(u, s, n, i, e + 1)
      BY <3>1, <3>6
    <3>8. Stretch(s, i, e)
      BY <1>1, <1>2, <2>3 DEF Stretch
    <3> QED
      BY <1>1, <3>7, <3>8, SaidAlike
  <2>9. (\E j \in i .. e : Mark(s, j) /\ s[j] \in Quotes)
        <=> (\E j \in i + n .. e + n : Mark(u, j) /\ u[j] \in Quotes)
    <3>1. ASSUME NEW j \in i .. e
          PROVE  /\ j + n \in i + n .. e + n
                 /\ u[j + n] = s[j] /\ Mark(u, j + n) = Mark(s, j)
      <4>1. j \in 1 .. Len(s) /\ j + n \in i + n .. e + n
        BY <1>1, <1>2, <2>3
      <4> QED
        BY <4>1 DEF Part
    <3>2. ASSUME NEW j \in i + n .. e + n PROVE \E k \in i .. e : j = k + n
      <4>1. j - n \in i .. e /\ (j - n) + n = j
        BY <1>1, <1>2, <2>3
      <4> QED
        BY <4>1
    <3> QED
      BY <3>1, <3>2
  <2>10. Token(s, i) = [type |-> "word", value |-> Said(s, i, e),
                        quoted |-> \E j \in i .. e : Mark(s, j) /\ s[j] \in Quotes]
    BY <1>5, <2>2 DEF Token, Cut
  <2>11. Token(u, i + n) = [type |-> "word", value |-> Said(u, i + n, e + n),
                            quoted |-> \E j \in i + n .. e + n : Mark(u, j) /\ u[j] \in Quotes]
    BY <1>3, <1>5, <2>7 DEF Token, Cut
  <2> QED
    BY <2>8, <2>9, <2>10, <2>11
<1> QED
  BY <1>4, <1>5

\* A blank or nothing before another text.
Closed(s) == s = <<>> \/ Len(s) \in Gaps(s)

\* Both are parts of what they make together.
LEMMA JoinParts ==
  ASSUME NEW s \in Texts, NEW t \in Texts, Scanned(s) = Open
  PROVE  /\ Part(s \o t, s, 0) /\ Part(s \o t, t, Len(s))
         /\ s \o t \in Texts /\ Len(s \o t) = Len(s) + Len(t) /\ Scanned(s \o t) = Scanned(t)
<1>1. PICK u, k, b : u = s \o t /\ k = Len(s) /\ b = Len(t)
  OBVIOUS
<1>2. /\ u \in Texts /\ Len(u) = k + b
      /\ \A i \in 1 .. k : u[i] = s[i]
      /\ \A i \in 1 .. b : u[i + k] = t[i]
      /\ \A i \in 1 .. k + 1 : Before(u, i) = Before(s, i)
      /\ \A i \in 1 .. k : Mark(u, i) = Mark(s, i) /\ Plain(u, i) = Plain(s, i)
      /\ \A i \in 1 .. b + 1 : Before(u, i + k) = Before(t, i)
      /\ \A i \in 1 .. b : Mark(u, i + k) = Mark(t, i) /\ Plain(u, i + k) = Plain(t, i)
  BY <1>1, ReadOn
<1>3. k \in Nat /\ b \in Nat
  BY <1>1, TextIs
<1>4. Part(u, t, k)
  <2>1. b + k <= k + b
    BY <1>3
  <2> QED
    BY <1>1, <1>2, <1>3, <2>1 DEF Part
<1>5. Part(u, s, 0)
  <2>1. PICK z : z = 0
    OBVIOUS
  <2>2. z \in Nat /\ k + z <= k + b /\ \A i \in 1 .. k + 1 : i + z = i
    BY <1>3, <2>1
  <2>3. \A i \in 1 .. k : i \in 1 .. k + 1
    BY <1>3
  <2>4. Part(u, s, z)
    BY <1>1, <1>2, <2>2, <2>3 DEF Part
  <2> QED
    BY <2>1, <2>4
<1>6. Scanned(u) = Scanned(t)
  <2>1. b + 1 \in 1 .. b + 1 /\ (b + 1) + k = (k + b) + 1
    BY <1>3
  <2>2. Before(u, (k + b) + 1) = Before(t, b + 1)
    BY <1>2, <2>1
  <2> QED
    BY <1>1, <1>2, <2>2 DEF Scanned
<1> QED
  BY <1>1, <1>2, <1>4, <1>5, <1>6

\* Nothing is open behind it.
LEMMA ClosedIs ==
  ASSUME NEW s \in Texts, Closed(s)
  PROVE  Scanned(s) = Open
<1>1. CASE Len(s) \in Gaps(s)
  BY <1>1, OpenBehindGap DEF Scanned
<1>2. CASE s = <<>>
  <2>1. Len(s) = 0 /\ 0 + 1 = 1
    BY <1>2, TextShort
  <2>2. Before(s, 1) = Open
    BY Reading
  <2> QED
    BY <2>1, <2>2 DEF Scanned
<1> QED
  BY <1>1, <1>2 DEF Closed

\* Behind a blank the tokens are those before it and those behind it.
LEMMA TokensJoin ==
  ASSUME NEW s \in Texts, Closed(s), NEW t \in Texts, Scanned(t) = Open
  PROVE  Tokenize(s \o t) = Tokenize(s) \o Tokenize(t) /\ Scanned(s \o t) = Open
<1>1. PICK u, k, b : u = s \o t /\ k = Len(s) /\ b = Len(t)
  OBVIOUS
<1>2. Scanned(s) = Open
  BY ClosedIs
<1>3. Part(u, s, 0) /\ Part(u, t, k) /\ u \in Texts /\ Len(u) = k + b /\ Scanned(u) = Open
  BY <1>1, <1>2, JoinParts
<1>4. k \in Nat /\ b \in Nat
  BY <1>1, TextIs
<1>5. k = 0 \/ k \in Gaps(s)
  BY <1>1, TextShort DEF Closed
<1>6. k = 0 \/ k \in Gaps(u)
  <2>1. k \in Gaps(s) => k \in 1 .. Len(s)
    BY CutIs
  <2>2. k \in 1 .. Len(s) => (k \in Gaps(s) <=> k + 0 \in Gaps(u))
    BY <1>3, CutMoves
  <2>3. k + 0 = k
    BY <1>4
  <2> QED
    BY <1>5, <2>1, <2>2, <2>3
<1>7. PICK A, B, C : A = Places(s) /\ B = Places(t) /\ C = {x + k : x \in Places(t)}
  OBVIOUS
<1>8. A \in SUBSET (1 .. k) /\ B \in SUBSET (1 .. b) /\ C \in SUBSET (k + 1 .. k + b)
  <2>1. A \in SUBSET (1 .. k) /\ B \in SUBSET (1 .. b)
    BY <1>1, <1>2, <1>7, TokensAre
  <2>2. \A x \in B : x + k \in k + 1 .. k + b
    BY <1>4, <2>1
  <2> QED
    BY <1>7, <2>1, <2>2
<1>9. Places(u) = A \cup C
  <2>1. Places(u) \in SUBSET (1 .. k + b)
    BY <1>3, TokensAre
  <2>2. ASSUME NEW i \in 1 .. k PROVE i \in A <=> i \in Places(u)
    <3>1. i + 0 = i /\ i \in 1 .. Len(s)
      BY <1>1
    <3>2. i \in Places(s) <=> i + 0 \in Places(u)
      BY <1>3, <3>1, PlacesMove
    <3> QED
      BY <1>7, <3>1, <3>2
  <2>3. ASSUME NEW i \in 1 .. b PROVE i \in B <=> i + k \in Places(u)
    BY <1>1, <1>3, <1>6, <1>7, PlacesMove
  <2>4. ASSUME NEW i \in 1 .. k + b, i \notin 1 .. k PROVE \E j \in 1 .. b : i = j + k
    <3>1. i - k \in 1 .. b /\ (i - k) + k = i
      BY <1>4, <2>4
    <3> QED
      BY <3>1
  <2>5. ASSUME NEW i \in Places(u) PROVE i \in A \cup C
    <3>1. CASE i \in 1 .. k
      BY <2>2, <3>1
    <3>2. CASE i \notin 1 .. k
      <4>1. PICK j \in 1 .. b : i = j + k
        BY <2>1, <2>4, <3>2
      <4>2. j \in B
        BY <2>3, <4>1
      <4> QED
        BY <1>7, <4>1, <4>2
    <3> QED
      BY <3>1, <3>2
  <2>6. ASSUME NEW i \in A \cup C PROVE i \in Places(u)
    <3>1. CASE i \in A
      BY <1>8, <2>2, <3>1
    <3>2. CASE i \in C
      <4>1. PICK j \in B : i = j + k
        BY <1>7, <3>2
      <4>2. j \in 1 .. b
        BY <1>8
      <4> QED
        BY <2>3, <4>1, <4>2
    <3> QED
      BY <3>1, <3>2
  <2> QED
    BY <2>5, <2>6
<1>10. PICK m, n, f, g, h : /\ m = Cardinality(A) /\ n = Cardinality(B)
                            /\ f = InOrder(A) /\ g = InOrder(B) /\ h = InOrder(A \cup C)
  OBVIOUS
<1>11. /\ m \in Nat /\ n \in Nat
       /\ Increasing(f, m, A) /\ Increasing(g, n, B)
       /\ Tokenize(s) = [i \in 1 .. m |-> Token(s, f[i])]
       /\ Tokenize(t) = [i \in 1 .. n |-> Token(t, g[i])]
  BY <1>2, <1>7, <1>10, TokensAre
<1>12. /\ Cardinality(C) = n
       /\ \A i \in 1 .. n : InOrder(C)[i] = g[i] + k
  <2>1. B \in SUBSET (0 .. b)
    BY <1>4, <1>8
  <2>2. /\ \A i \in 1 .. Cardinality(B) : InOrder({x + k : x \in B})[i] = InOrder(B)[i] + k
        /\ Cardinality({x + k : x \in B}) = Cardinality(B)
    BY <1>4, <2>1, Moved
  <2>3. C = {x + k : x \in B}
    BY <1>7
  <2> QED
    BY <1>10, <2>2, <2>3
<1>13. h = f \o InOrder(C) /\ Cardinality(A \cup C) = m + n
  <2>1. PICK l : l = k + b
    OBVIOUS
  <2>2. l \in Nat /\ A \in SUBSET (0 .. l) /\ C \in SUBSET (0 .. l) /\ \A x \in A, y \in C : x < y
    BY <1>4, <1>8, <2>1
  <2>3. InOrder(A \cup C) = InOrder(A) \o InOrder(C) /\ Cardinality(A \cup C) = Cardinality(A) + Cardinality(C)
    BY <2>2, Joined
  <2> QED
    BY <1>10, <1>12, <2>3
<1>14. /\ \A i \in 1 .. m : h[i] = f[i]
       /\ \A i \in 1 .. n : h[i + m] = g[i] + k
  <2>1. C \in SUBSET (0 .. k + b) /\ k + b \in Nat /\ A \in SUBSET Nat /\ C \in SUBSET Nat
    BY <1>4, <1>8
  <2>2. PICK o : o = InOrder(C)
    OBVIOUS
  <2>3. Increasing(o, n, C)
    BY <1>12, <2>1, <2>2, Ordered
  <2>4. f \in Seq(Nat) /\ Len(f) = m /\ o \in Seq(Nat) /\ Len(o) = n
    BY <1>11, <2>1, <2>3, OrderSeq
  <2>5. h = f \o o
    BY <1>13, <2>2
  <2>6. \A i \in 1 .. m + n : h[i] = IF i <= m THEN f[i] ELSE o[i - m]
    BY <2>4, <2>5, ConcatProperties
  <2>7. \A i \in 1 .. m : i \in 1 .. m + n /\ i <= m
    BY <1>11
  <2>8. \A i \in 1 .. n : i + m \in 1 .. m + n /\ ~(i + m <= m) /\ (i + m) - m = i
    BY <1>11
  <2>9. \A i \in 1 .. n : h[i + m] = o[i]
    BY <2>6, <2>8
  <2> QED
    BY <1>12, <2>2, <2>6, <2>7, <2>9
<1>15. Tokenize(u) = [i \in 1 .. m + n |-> Token(u, h[i])]
  <2>1. Tokenize(u) = [i \in 1 .. Cardinality(Places(u)) |-> Token(u, InOrder(Places(u))[i])]
    BY <1>3, TokensAre
  <2> QED
    BY <1>9, <1>10, <1>13, <2>1
<1>16. PICK x, y, z : x = Tokenize(s) /\ y = Tokenize(t) /\ z = Tokenize(u)
  OBVIOUS
<1>17. ASSUME NEW i \in 1 .. m PROVE z[i] = x[i]
  <2>1. i \in 1 .. m + n /\ f[i] \in A
    BY <1>11 DEF Increasing
  <2>5. f[i] \in 1 .. k
    BY <1>8, <2>1
  <2>2. f[i] + 0 = f[i] /\ k # 0
    <3>1. PICK o : o = f[i]
      OBVIOUS
    <3>2. o \in 1 .. k
      BY <2>5, <3>1
    <3>3. o + 0 = o /\ k # 0
      BY <1>4, <3>2
    <3> QED
      BY <3>1, <3>3
  <2>3. Right(u, s, 0)
    <3>2. k # 0
      BY <2>2
    <3> QED
      BY <1>1, <1>5, <3>2 DEF Right
  <2>4. Token(u, f[i] + 0) = Token(s, f[i])
    BY <1>3, <1>7, <2>1, <2>3, TokenMoves
  <2> QED
    BY <1>11, <1>14, <1>15, <1>16, <2>1, <2>2, <2>4
<1>18. ASSUME NEW i \in 1 .. n PROVE z[i + m] = y[i]
  <2>1. i + m \in 1 .. m + n
    BY <1>11
  <2>5. g[i] \in B
    BY <1>11 DEF Increasing
  <2>2. Right(u, t, k)
    <3>1. Len(t) + k = Len(u)
      BY <1>1, <1>3, <1>4
    <3> QED
      BY <3>1 DEF Right
  <2>3. Token(u, g[i] + k) = Token(t, g[i])
    BY <1>3, <1>7, <2>2, <2>5, TokenMoves
  <2>4. h[i + m] = g[i] + k
    BY <1>14
  <2> QED
    BY <1>11, <1>15, <1>16, <2>1, <2>3, <2>4
<1>19. /\ x = [i \in 1 .. m |-> x[i]] /\ y = [i \in 1 .. n |-> y[i]]
       /\ z = [i \in 1 .. m + n |-> z[i]]
  BY <1>11, <1>15, <1>16
<1>20. z = x \o y
  <2>1. Joins(x, y, z, m, n)
    BY <1>17, <1>18, <1>19 DEF Joins
  <2> QED
    BY <1>11, <2>1, SeqJoin
<1> QED
  BY <1>1, <1>3, <1>16, <1>20

\* A blank at the end adds no token.
LEMMA BlankBehind ==
  ASSUME NEW s \in Texts, Scanned(s) = Open
  PROVE  s \o <<" ">> \in Texts /\ Tokenize(s \o <<" ">>) = Tokenize(s)
<1>1. PICK u, k, t : u = s \o t /\ k = Len(s) /\ t = <<" ">>
  OBVIOUS
<1>2. " " \in Chars /\ " " \in Blanks /\ " " # "="
  BY DEF Chars, Blanks
<1>3. t \in Texts /\ Len(t) = 1 /\ t[1] = " "
  BY <1>1, <1>2, TextShort
<1>4. Part(u, s, 0) /\ u \in Texts /\ Len(u) = k + 1
  BY <1>1, <1>3, JoinParts
<1>5. k \in Nat /\ DOMAIN u = 1 .. Len(u)
  BY <1>1, <1>4, TextIs
<1>6. u[k + 1] = " " /\ Before(u, k + 1) = Open
  <2>1. u[k + 1] = t[1]
    <3>1. \A i \in 1 .. Len(t) : u[i + k] = t[i]
      BY <1>1, <1>3, ReadOn
    <3>2. 1 \in 1 .. 1 /\ 1 + k = k + 1
      BY <1>5
    <3> QED
      BY <1>3, <3>1, <3>2
  <2>2. k + 1 \in 1 .. k + 1
    BY <1>5
  <2>3. \A i \in 1 .. k + 1 : Before(u, i) = Before(s, i)
    BY <1>1, <1>3, ReadOn
  <2>4. Before(s, k + 1) = Open
    BY <1>1 DEF Scanned
  <2> QED
    BY <1>3, <2>1, <2>2, <2>3, <2>4
<1>7. k + 1 \in 1 .. Len(u)
  BY <1>4, <1>5
<1>8. k + 1 \in Gaps(u)
  BY <1>2, <1>5, <1>6, <1>7 DEF Gaps, Plain
<1>9. Scanned(u) = Open
  BY <1>4, <1>8, OpenBehindGap DEF Scanned
<1>10. Right(u, s, 0)
  <2>1. (k + 0) + 1 = k + 1
    BY <1>5
  <2> QED
    BY <1>1, <1>8, <2>1 DEF Right, Cut
<1>11. Places(u) \in SUBSET (1 .. k + 1) /\ Places(s) \in SUBSET (1 .. k)
  BY <1>1, <1>4, <1>9, TokensAre
<1>12. k + 1 \notin Places(u)
  <2>1. k + 1 \notin Eqs(u)
    BY <1>2, <1>6 DEF Eqs
  <2> QED
    BY <1>8, <2>1 DEF Places, Heads
<1>13. Places(u) = Places(s)
  <2>1. ASSUME NEW i \in 1 .. k PROVE i \in Places(s) <=> i \in Places(u)
    <3>0. i + 0 = i
      OBVIOUS
    <3>1. i \in 1 .. Len(s) /\ i + 0 = i
      BY <1>1, <3>0
    <3>2. i \in Places(s) <=> i + 0 \in Places(u)
      BY <1>4, <3>1, PlacesMove
    <3> QED
      BY <3>1, <3>2
  <2>2. \A i \in 1 .. k + 1 : i \in 1 .. k \/ i = k + 1
    BY <1>5
  <2> QED
    BY <1>11, <1>12, <2>1, <2>2
<1>14. ASSUME NEW i \in Places(s) PROVE Token(u, i) = Token(s, i)
  <2>1. i \in 1 .. k
    BY <1>11
  <2>2. i + 0 = i
    BY <2>1
  <2>3. Token(u, i + 0) = Token(s, i)
    BY <1>4, <1>10, TokenMoves
  <2> QED
    BY <2>2, <2>3
<1>15. PICK f, m : f = InOrder(Places(s)) /\ m = Cardinality(Places(s))
  OBVIOUS
<1>16. Increasing(f, m, Places(s)) /\ Tokenize(s) = [i \in 1 .. m |-> Token(s, f[i])]
  BY <1>15, TokensAre
<1>17. Tokenize(u) = [i \in 1 .. m |-> Token(u, f[i])]
  BY <1>4, <1>9, <1>13, <1>15, TokensAre
<1>18. \A i \in 1 .. m : f[i] \in Places(s)
  BY <1>16 DEF Increasing
<1>19. Tokenize(u) = Tokenize(s)
  BY <1>14, <1>16, <1>17, <1>18
<1> QED
  BY <1>1, <1>4, <1>19

\* The text before the last token ends with a blank between tokens, unless it is misread.
LEMMA KeptCloses ==
  ASSUME NEW s \in Texts, ~Misread(s)
  PROVE  SubSeq(s, 1, TokenStart(s)) \in Texts /\ Closed(SubSeq(s, 1, TokenStart(s)))
<1>1. PICK g, x : g = TokenStart(s) /\ x = SubSeq(s, 1, g)
  OBVIOUS
<1>2. g \in 0 .. Len(s) /\ Len(s) \in Nat
  <2>1. Len(s) \in Nat /\ LastGap(s) \in 0 .. Len(s)
    BY TextIs, LastGapIs
  <2> QED
    BY <1>1, <2>1 DEF TokenStart
<1>3. x \in Texts /\ Len(x) = g /\ \A i \in 1 .. g : x[i] = s[i]
  BY <1>1, <1>2, ToIs
<1>4. g = 0 \/ g \in Gaps(s)
  <2>1. CASE EndsWithSeparator(s)
    BY <1>1, <2>1 DEF TokenStart, Misread
  <2>2. CASE ~EndsWithSeparator(s)
    BY <1>1, <2>2, LastGapIs DEF TokenStart
  <2> QED
    BY <2>1, <2>2
<1>5. CASE g = 0
  <2>1. x = <<>>
    BY <1>3, <1>5, EmptySeq DEF Texts
  <2> QED
    BY <1>1, <1>3, <2>1 DEF Closed
<1>6. CASE g # 0
  <2>1. g \in Gaps(s)
    BY <1>4, <1>6
  <2>2. s[g] \in Blanks /\ Plain(s, g)
    BY <2>1 DEF Gaps
  <2>3. g \in 1 .. g /\ g \in 1 .. g + 1
    BY <1>2, <1>6
  <2>4. PICK y : y = From(s, g)
    OBVIOUS
  <2>5. s = x \o y /\ y \in Texts
    BY <1>1, <1>2, <2>4, Halves, FromIs
  <2>6. \A i \in 1 .. Len(x) + 1 : Before(x \o y, i) = Before(x, i)
    BY <1>3, <2>5, ReadOn
  <2>7. Before(s, g) = Before(x, g)
    BY <1>3, <2>3, <2>5, <2>6
  <2>8. x[g] \in Blanks /\ Plain(x, g)
    BY <1>3, <2>2, <2>3, <2>7 DEF Plain
  <2>9. g \in DOMAIN x
    BY <1>3, <2>3, TextIs
  <2> QED
    BY <1>1, <1>3, <2>8, <2>9 DEF Closed, Gaps
<1> QED
  BY <1>5, <1>6

\* A completion that is a whole token is one, behind those that were there.
LEMMA OneMore ==
  ASSUME NEW s \in Texts, ~Misread(s), NEW c \in Texts, Scanned(c) = Open
  PROVE  Tokenize(Completed(s, c)) = Tokenize(SubSeq(s, 1, TokenStart(s))) \o Tokenize(c)
<1>1. PICK x, w : x = SubSeq(s, 1, TokenStart(s)) /\ w = Suffix(s, c)
  OBVIOUS
<1>2. x \in Texts /\ Closed(x)
  BY <1>1, KeptCloses
<1>3. w \in {<<>>, <<" ">>}
  BY <1>1, CompletedIs
<1>4. Tokenize(x \o c) = Tokenize(x) \o Tokenize(c) /\ Scanned(x \o c) = Open /\ x \o c \in Texts
  BY <1>2, TokensJoin, TextJoin
<1>5. Completed(s, c) = (x \o c) \o w
  <2>1. w \in Texts
    BY <1>3, TextShort DEF Chars, Blanks
  <2>2. Completed(s, c) = (x \o c) \o w \/ Completed(s, c) = x \o (c \o w)
    BY <1>1 DEF Completed
  <2> QED
    BY <1>2, <2>1, <2>2, TextsOn
<1>6. CASE w = <<>>
  <2>1. (x \o c) \o <<>> = x \o c
    BY <1>4, ConcatEmptySeq DEF Texts
  <2> QED
    BY <1>1, <1>4, <1>5, <1>6, <2>1
<1>7. CASE w = <<" ">>
  BY <1>1, <1>4, <1>5, <1>7, BlankBehind
<1> QED
  BY <1>3, <1>6, <1>7

\* So a completion always fits, whatever is typed and whatever the commands, the directories and
\* the lines of the history are.
THEOREM CompletionsFit ==
  ASSUME CommandLineAssumption
  PROVE  Spec => []CompletionFits
<1>1. Typed => CompletionFits
  <2>1. SUFFICES ASSUME Typed, NEW c \in offered, ~Misread(line)
                 PROVE  /\ Scanned(c.text) = Open =>
                            Tokenize(Completed(line, c.text))
                            = Tokenize(SubSeq(line, 1, TokenStart(line))) \o Tokenize(c.text)
                        /\ c.for = line /\ ~OddlyNamed(c.text) =>
                             Starts(Said(c.text, 1, Len(c.text)),
                                    Said(From(line, TokenStart(line)), 1, Len(From(line, TokenStart(line)))))
    BY DEF CompletionFits
  <2>2. line \in Texts /\ c.text \in Texts
    BY <2>1, OfferedIs DEF Typed
  <2>3. Scanned(c.text) = Open => Tokenize(Completed(line, c.text))
                                  = Tokenize(SubSeq(line, 1, TokenStart(line))) \o Tokenize(c.text)
    BY <2>1, <2>2, OneMore
  <2>4. c.for = line /\ ~OddlyNamed(c.text) => Starts(All(c.text), All(From(line, TokenStart(line))))
    BY <2>1, GoesOn
  <2> QED
    BY <2>3, <2>4 DEF All
<1>2. Spec => []Typed
  BY TypedStays
<1> QED
  BY <1>1, <1>2, PTL

=============================================================================
