------------------------- MODULE StructureEditor_proofs -------------------------
(***************************************************************************)
(* Proofs about IDEL Structure documents of any length: what the editor's  *)
(* copy of the parser reads the package reads alike, and the canonical     *)
(* text of a document is read as that document.                            *)
(***************************************************************************)
EXTENDS StructureEditor, FiniteSetTheorems, SequenceTheorems, TLAPS

-----------------------------------------------------------------------------
(* Numbers and texts.                                                      *)

\* Of some numbers up to a bound one is the least: of the sets of those up to each of them, one
\* is contained in the others.
LEMMA Least ==
  ASSUME NEW b \in Nat, NEW T \in SUBSET (0 .. b), T # {}
  PROVE  Min(T) \in T /\ \A y \in T : Min(T) <= y
<1>1. PICK W : W = {{y \in T : y <= x} : x \in T}
  OBVIOUS
<1>2. W \subseteq FiniteSubsetsOf(0 .. b) /\ W # {}
  <2>1. ASSUME NEW R \in SUBSET (0 .. b) PROVE IsFiniteSet(R)
    <3>1. IsFiniteSet(0 .. b)
      BY FS_Interval
    <3> QED
      BY <3>1, FS_Subset
  <2> QED
    BY <1>1, <2>1 DEF FiniteSubsetsOf
<1>3. PICK R \in W : \A V \in W : <<V, R>> \notin StrictSubsetOrdering(0 .. b)
  BY <1>2, FS_StrictSubsetOrderingWellFounded, WFMin
<1>4. PICK x \in T : R = {y \in T : y <= x}
  BY <1>1
<1>5. ASSUME NEW y \in T PROVE x <= y
  <2>1. SUFFICES ASSUME y < x PROVE FALSE
    OBVIOUS
  <2>2. PICK V : V = {z \in T : z <= y}
    OBVIOUS
  <2>3. V \in W /\ V \in SUBSET (0 .. b) /\ R \in SUBSET (0 .. b)
    BY <1>1, <2>2
  <2>4. V \subseteq R
    <3>1. \A z \in T : z \in Int
      OBVIOUS
    <3>2. \A z \in T : z <= y => z <= x
      BY <2>1, <3>1
    <3> QED
      BY <1>4, <2>2, <3>2
  <2>5. x \in R /\ x \notin V
    BY <1>4, <2>1, <2>2
  <2>6. <<V, R>> \in StrictSubsetOrdering(0 .. b)
    BY <2>3, <2>4, <2>5 DEF StrictSubsetOrdering
  <2> QED
    BY <1>3, <2>3, <2>6
<1> QED
  BY <1>5 DEF Min

\* And one is the greatest.
LEMMA Greatest ==
  ASSUME NEW b \in Nat, NEW T \in SUBSET (0 .. b), T # {}
  PROVE  Max(T) \in T /\ \A y \in T : y <= Max(T)
<1>1. PICK U : U = {b - x : x \in T}
  OBVIOUS
<1>2. U \in SUBSET (0 .. b) /\ U # {}
  <2>1. ASSUME NEW x \in T PROVE b - x \in 0 .. b
    OBVIOUS
  <2> QED
    BY <1>1, <2>1
<1>3. PICK u \in U : \A v \in U : u <= v
  BY <1>2, Least
<1>4. PICK x \in T : u = b - x
  BY <1>1
<1>5. ASSUME NEW y \in T PROVE y <= x
  <2>1. b - y \in U
    BY <1>1
  <2>2. b - x <= b - y
    BY <1>3, <1>4, <2>1
  <2> QED
    BY <2>2
<1> QED
  BY <1>5 DEF Max

\* Induction, for a set of numbers.
LEMMA Induct ==
  ASSUME NEW P, 0 \in P, \A n \in Nat : n \in P => n + 1 \in P
  PROVE  \A n \in Nat : n \in P
<1>1. SUFFICES ASSUME NEW b \in Nat, b \notin P PROVE FALSE
  OBVIOUS
<1>2. PICK T : T = {n \in 0 .. b : n \notin P}
  OBVIOUS
<1>3. T \in SUBSET (0 .. b) /\ T # {}
  BY <1>1, <1>2
<1>4. PICK m \in T : \A y \in T : m <= y
  BY <1>3, Least
<1>5. m \in Nat /\ m <= b /\ m # 0 /\ m \notin P
  BY <1>2, <1>4
<1>6. m - 1 \in Nat /\ m - 1 \in 0 .. b
  BY <1>5
<1>7. m - 1 \in P
  BY <1>2, <1>4, <1>6
<1>8. (m - 1) + 1 \in P
  BY <1>6, <1>7
<1> QED
  BY <1>5, <1>8

\* Induction downward: what holds of a place when it holds of all behind it holds of all.
LEMMA Down ==
  ASSUME NEW n \in Nat, NEW P,
         \A i \in 1 .. n : (\A j \in i + 1 .. n : j \in P) => i \in P
  PROVE  \A i \in 1 .. n : i \in P
<1>1. SUFFICES ASSUME NEW x \in 1 .. n, x \notin P PROVE FALSE
  OBVIOUS
<1>2. PICK T : T = {i \in 0 .. n : i >= 1 /\ i \notin P}
  OBVIOUS
<1>3. T \in SUBSET (0 .. n) /\ T # {}
  BY <1>1, <1>2
<1>4. PICK m \in T : \A y \in T : y <= m
  BY <1>3, Greatest
<1>5. m \in 1 .. n /\ m \notin P
  BY <1>2, <1>4
<1>6. ASSUME NEW j \in m + 1 .. n PROVE j \in P
  <2>1. j \in 0 .. n /\ j >= 1 /\ ~(j <= m)
    BY <1>5
  <2> QED
    BY <1>2, <1>4, <2>1
<1> QED
  BY <1>5, <1>6

\* A text has its length and its characters.
LEMMA TextIs ==
  \A s \in Texts : Len(s) \in Nat /\ DOMAIN s = 1 .. Len(s) /\ \A i \in 1 .. Len(s) : s[i] \in Chars
  BY DEF Texts

\* Parts of texts.
LEMMA TextPart ==
  ASSUME NEW s \in Texts, NEW a \in Nat \ {0}, NEW b \in Nat, a <= b + 1, b <= Len(s)
  PROVE  /\ SubSeq(s, a, b) \in Texts /\ Len(SubSeq(s, a, b)) = b + 1 - a
         /\ \A k \in 1 .. b + 1 - a : SubSeq(s, a, b)[k] = s[a + k - 1]
<1>1. \A i \in a .. b : s[i] \in Chars
  BY DEF Texts
<1> QED
  BY <1>1 DEF Texts

\* Sequences, one behind the other.
LEMMA SeqOn ==
  ASSUME NEW T, NEW s \in Seq(T), NEW t \in Seq(T)
  PROVE  /\ s \o t \in Seq(T) /\ Len(s \o t) = Len(s) + Len(t)
         /\ \A i \in 1 .. Len(s) : (s \o t)[i] = s[i]
         /\ \A i \in 1 .. Len(t) : (s \o t)[i + Len(s)] = t[i]
<1>1. /\ s \o t \in Seq(T) /\ Len(s \o t) = Len(s) + Len(t)
      /\ \A i \in 1 .. Len(s) + Len(t) : (s \o t)[i] = IF i <= Len(s) THEN s[i] ELSE t[i - Len(s)]
  BY ConcatProperties
<1>2. Len(s) \in Nat /\ Len(t) \in Nat
  OBVIOUS
<1>3. PICK u, m, n : u = s \o t /\ m = Len(s) /\ n = Len(t)
  OBVIOUS
<1>4. \A i \in 1 .. m : u[i] = s[i]
  BY <1>1, <1>2, <1>3
<1>5. ASSUME NEW i \in 1 .. n PROVE u[i + m] = t[i]
  <2>1. i + m \in 1 .. m + n /\ ~(i + m <= m) /\ (i + m) - m = i
    BY <1>2, <1>3
  <2> QED
    BY <1>1, <1>3, <2>1
<1> QED
  BY <1>1, <1>3, <1>4, <1>5

\* Short ones.
LEMMA SeqShort ==
  ASSUME NEW T
  PROVE  /\ <<>> \in Seq(T) /\ Len(<<>>) = 0
         /\ \A c \in T : <<c>> \in Seq(T) /\ Len(<<c>>) = 1 /\ <<c>>[1] = c
         /\ \A s \in Seq(T) : Len(s) = 0 => s = <<>>
         /\ \A s \in Seq(T) : s \o <<>> = s /\ <<>> \o s = s
<1>1. \A s \in Seq(T) : s \o <<>> = s /\ <<>> \o s = s
  BY ConcatEmptySeq
<1>2. \A s \in Seq(T) : Len(s) = 0 => s = <<>>
  BY EmptySeq
<1>3. \A c \in T : <<c>> \in Seq(T) /\ Len(<<c>>) = 1 /\ <<c>>[1] = c
  OBVIOUS
<1>4. <<>> \in Seq(T) /\ Len(<<>>) = 0
  OBVIOUS
<1> QED
  BY <1>1, <1>2, <1>3, <1>4

\* The end of a stretch is the one place it can be.
Ends(s, i, places, j) ==
  j \in i .. Len(s) + 1 /\ i .. j - 1 \subseteq places /\ j \notin places
LEMMA EndOfIs ==
  ASSUME NEW s \in Texts, NEW i \in 1 .. Len(s) + 1, NEW places \in SUBSET (DOMAIN s)
  PROVE  /\ Ends(s, i, places, EndOf(s, i, places))
         /\ \A j : Ends(s, i, places, j) => EndOf(s, i, places) = j
<1>1. PICK n : n = Len(s)
  OBVIOUS
<1>2. n \in Nat /\ DOMAIN s = 1 .. n
  BY <1>1, TextIs
<1>3. PICK T : T = {j \in 0 .. n + 1 : i <= j /\ j \notin places}
  OBVIOUS
<1>4. n + 1 \in T /\ T \in SUBSET (0 .. n + 1) /\ n + 1 \in Nat
  BY <1>1, <1>2, <1>3
<1>5. PICK m \in T : \A y \in T : m <= y
  BY <1>4, Least
<1>6. m \in i .. n + 1 /\ m \notin places
  BY <1>1, <1>3, <1>5
<1>7. ASSUME NEW x \in i .. m - 1 PROVE x \in places
  <2>1. x \in 0 .. n + 1 /\ i <= x /\ ~(m <= x)
    BY <1>1, <1>2, <1>6
  <2> QED
    BY <1>3, <1>5, <2>1
<1>8. Ends(s, i, places, m)
  BY <1>1, <1>6, <1>7 DEF Ends
<1>9. ASSUME NEW j, NEW k, Ends(s, i, places, j), Ends(s, i, places, k) PROVE j = k
  <2>1. j \in Int /\ k \in Int /\ i \in Int
    BY <1>1, <1>2, <1>9 DEF Ends
  <2>2. ~(j < k)
    <3>1. SUFFICES ASSUME j < k PROVE FALSE
      OBVIOUS
    <3>2. j \in i .. k - 1
      BY <1>9, <2>1, <3>1 DEF Ends
    <3> QED
      BY <1>9, <3>2 DEF Ends
  <2>3. ~(k < j)
    <3>1. SUFFICES ASSUME k < j PROVE FALSE
      OBVIOUS
    <3>2. k \in i .. j - 1
      BY <1>9, <2>1, <3>1 DEF Ends
    <3> QED
      BY <1>9, <3>2 DEF Ends
  <2> QED
    BY <2>1, <2>2, <2>3
<1>10. EndOf(s, i, places) = CHOOSE j \in i .. Len(s) + 1 : Ends(s, i, places, j)
  BY DEF EndOf, Ends
<1>11. Ends(s, i, places, EndOf(s, i, places))
  BY <1>8, <1>10 DEF Ends
<1> QED
  BY <1>9, <1>11

-----------------------------------------------------------------------------
(* Strings.                                                                *)

\* What the package and its copy make of letters behind a backslash.
LEMMA EscapesAre ==
  /\ Quote # LineEnd /\ Backslash # LineEnd /\ Quote # Backslash
  /\ \A c \in DOMAIN BundledEscapes : c \in DOMAIN Escapes /\ BundledEscapes[c] = Escapes[c]
  /\ \A c \in DOMAIN Escapes : Escapes[c] \in Chars
<1>1. Quote # LineEnd /\ Backslash # LineEnd /\ Quote # Backslash
  BY DEF Quote, Backslash, LineEnd
<1>2. DOMAIN Escapes = {Quote, Backslash, "n", "f", "c"}
  BY DEF Escapes
<1>3. BundledEscapes = [c \in {Quote, Backslash, "n"} |-> Escapes[c]]
  BY DEF BundledEscapes
<1>4. ASSUME NEW c \in DOMAIN Escapes
      PROVE  Escapes[c] = IF c = "n" THEN LineEnd ELSE IF c = "f" THEN "FF" ELSE IF c = "c" THEN "US" ELSE c
  BY <1>2 DEF Escapes
<1>5. Quote \in Chars /\ Backslash \in Chars /\ LineEnd \in Chars
  BY DEF Chars, Quote, Backslash, LineEnd
<1>6. ASSUME NEW c \in DOMAIN Escapes PROVE Escapes[c] \in Chars
  BY <1>2, <1>4, <1>5 DEF Chars, Letters
<1> QED
  BY <1>1, <1>2, <1>3, <1>6

\* The escapes that are known.
EscapeSets == {Escapes, BundledEscapes}
LEMMA KnownIs == \A e \in EscapeSets : \A c \in DOMAIN e : e[c] \in Chars
BY EscapesAre DEF EscapeSets

\* The reader of strings.
Strings(read, s, e) == read = [i \in 1 .. Len(s) + 2 |-> StringAt(read, s, i, e)]

\* What it reads at a place hangs on what it reads behind it.
LEMMA StringHangs ==
  ASSUME NEW s \in Texts, NEW e, NEW i \in 1 .. Len(s) + 2, NEW f, NEW g,
         \A j \in i + 1 .. Len(s) + 2 : f[j] = g[j]
  PROVE  StringAt(f, s, i, e) = StringAt(g, s, i, e)
<1>1. CASE i > Len(s)
  BY <1>1 DEF StringAt
<1>2. CASE ~(i > Len(s))
  <2>1. i + 1 \in i + 1 .. Len(s) + 2 /\ i + 2 \in i + 1 .. Len(s) + 2
    BY <1>2, TextIs
  <2>2. f[i + 1] = g[i + 1] /\ f[i + 2] = g[i + 2]
    BY <2>1
  <2> QED
    BY <2>2 DEF StringAt
<1> QED
  BY <1>1, <1>2

\* There is one.
LEMMA StringsAre ==
  ASSUME NEW s \in Texts, NEW e
  PROVE  \E read : Strings(read, s, e) /\ \A i : String(s, i, e) = read[i]
<1>1. PICK n : n = Len(s) + 2
  OBVIOUS
<1>2. n \in Nat
  BY <1>1, TextIs
<1> DEFINE Good(f, b) == f = [i \in 1 .. n |-> f[i]] /\ \A i \in 1 .. n : i > n - b => f[i] = StringAt(f, s, i, e)
           P == {b \in Nat : b <= n => \E f : Good(f, b)}
<1>3. 0 \in P
  <2>1. Good([i \in 1 .. n |-> i], 0)
    BY <1>2
  <2> QED
    BY <2>1
<1>4. ASSUME NEW b \in Nat, b \in P PROVE b + 1 \in P
  <2>1. SUFFICES ASSUME b + 1 <= n PROVE \E f : Good(f, b + 1)
    OBVIOUS
  <2>2. PICK f : Good(f, b)
    BY <1>2, <1>4, <2>1
  <2>3. PICK m : m = n - b
    OBVIOUS
  <2>4. m \in 1 .. n
    BY <1>2, <2>1, <2>3
  <2>5. PICK g : g = [i \in 1 .. n |-> IF i = m THEN StringAt(f, s, m, e) ELSE f[i]]
    OBVIOUS
  <2>6. ASSUME NEW i \in 1 .. n, i >= m PROVE StringAt(g, s, i, e) = StringAt(f, s, i, e)
    <3>1. \A j \in i + 1 .. n : j \in 1 .. n /\ j # m
      BY <1>2, <2>4, <2>6
    <3>2. \A j \in i + 1 .. n : g[j] = f[j]
      BY <2>5, <3>1
    <3> QED
      BY <1>1, <3>2, StringHangs
  <2>7. ASSUME NEW i \in 1 .. n, i > n - (b + 1) PROVE g[i] = StringAt(g, s, i, e)
    <3>1. i >= m
      BY <1>2, <2>3, <2>7
    <3>2. CASE i = m
      BY <2>4, <2>5, <2>6, <3>1, <3>2
    <3>3. CASE i # m
      <4>1. i > n - b
        BY <1>2, <2>3, <3>1, <3>3
      <4>2. g[i] = f[i] /\ f[i] = StringAt(f, s, i, e)
        BY <2>2, <2>5, <3>3, <4>1
      <4> QED
        BY <2>6, <3>1, <4>2
    <3> QED
      BY <3>2, <3>3
  <2>8. Good(g, b + 1)
    BY <2>5, <2>7
  <2> QED
    BY <2>8
<1> HIDE DEF P
<1>5. n \in P
  BY <1>2, <1>3, <1>4, Induct
<1>6. PICK f : Good(f, n)
  BY <1>2, <1>5 DEF P
<1>7. \A i \in 1 .. n : f[i] = StringAt(f, s, i, e)
  <2>1. \A i \in 1 .. n : i > n - n
    BY <1>2
  <2> QED
    BY <1>6, <2>1
<1>8. f = [i \in 1 .. n |-> f[i]]
  BY <1>6
<1>9. Strings(f, s, e)
  BY <1>1, <1>7, <1>8 DEF Strings
<1>10. PICK read : read = CHOOSE r : Strings(r, s, e)
  OBVIOUS
<1>11. Strings(read, s, e)
  BY <1>9, <1>10
<1>12. ASSUME NEW i PROVE String(s, i, e) = read[i]
  BY <1>10 DEF String, Strings
<1> QED
  BY <1>11, <1>12

\* What is read of a string ends in the text.
ReadString(r, i, n) ==
  \/ r = Failed
  \/ r = [at |-> r.at, text |-> r.text] /\ r.at \in i + 1 .. n + 1 /\ r.text \in Texts
LEMMA StringStep ==
  ASSUME NEW s \in Texts, NEW e \in EscapeSets, NEW i \in 1 .. Len(s) + 2, NEW read,
         \A j \in i + 1 .. Len(s) + 2 : ReadString(read[j], j, Len(s))
  PROVE  ReadString(StringAt(read, s, i, e), i, Len(s))
<1>1. CASE i > Len(s)
  BY <1>1 DEF StringAt, ReadString
<1>2. CASE ~(i > Len(s))
  <2>1. PICK n, k, c, rest : /\ n = Len(s) /\ k = i + (IF s[i] = Backslash THEN 2 ELSE 1)
                             /\ c = (IF s[i] = Backslash THEN e[s[i + 1]] ELSE s[i]) /\ rest = read[k]
    OBVIOUS
  <2>2. n \in Nat /\ i \in 1 .. n /\ k \in i + 1 .. n + 2
    BY <1>2, <2>1, TextIs
  <2>3. ReadString(rest, k, n)
    BY <2>1, <2>2
  <2>4. \/ StringAt(read, s, i, e) = Failed
        \/ StringAt(read, s, i, e) = [at |-> i + 1, text |-> <<>>]
        \/ /\ StringAt(read, s, i, e) = [at |-> rest.at, text |-> <<c>> \o rest.text]
           /\ rest # Failed /\ (s[i] = Backslash => Is(s, i + 1, DOMAIN e))
    BY <2>1 DEF StringAt
  <2>5. CASE StringAt(read, s, i, e) = Failed
    BY <2>5 DEF ReadString
  <2>6. CASE StringAt(read, s, i, e) = [at |-> i + 1, text |-> <<>>]
    <3>1. <<>> \in Texts /\ i + 1 \in i + 1 .. n + 1
      BY <2>2, SeqShort DEF Texts
    <3> QED
      BY <2>1, <2>6, <3>1 DEF ReadString
  <2>7. CASE /\ StringAt(read, s, i, e) = [at |-> rest.at, text |-> <<c>> \o rest.text]
             /\ rest # Failed /\ (s[i] = Backslash => Is(s, i + 1, DOMAIN e))
    <3>1. rest.at \in k + 1 .. n + 1 /\ rest.text \in Texts
      BY <2>3, <2>7 DEF ReadString
    <3>2. c \in Chars
      <4>1. CASE s[i] = Backslash
        <5>1. s[i + 1] \in DOMAIN e
          BY <2>7, <4>1 DEF Is
        <5> QED
          BY <2>1, <4>1, <5>1, KnownIs
      <4>2. CASE s[i] # Backslash
        BY <2>1, <2>2, <4>2, TextIs
      <4> QED
        BY <4>1, <4>2
    <3>3. <<c>> \in Texts
      BY <3>2, SeqShort DEF Texts
    <3>4. <<c>> \o rest.text \in Texts
      BY <3>1, <3>3, SeqOn DEF Texts
    <3>5. rest.at \in i + 1 .. n + 1
      BY <2>2, <3>1
    <3> QED
      BY <2>1, <2>7, <3>4, <3>5 DEF ReadString
  <2> QED
    BY <2>4, <2>5, <2>6, <2>7
<1> QED
  BY <1>1, <1>2

LEMMA StringReads ==
  ASSUME NEW s \in Texts, NEW e \in EscapeSets, NEW read, Strings(read, s, e)
  PROVE  \A i \in 1 .. Len(s) + 2 : ReadString(read[i], i, Len(s))
<1>1. PICK n, P : n = Len(s) + 2 /\ P = {i \in 1 .. n : ReadString(read[i], i, Len(s))}
  OBVIOUS
<1>2. n \in Nat
  BY <1>1, TextIs
<1>3. ASSUME NEW i \in 1 .. n, \A j \in i + 1 .. n : j \in P PROVE i \in P
  <2>1. \A j \in i + 1 .. n : ReadString(read[j], j, Len(s))
    BY <1>1, <1>3
  <2>2. ReadString(StringAt(read, s, i, e), i, Len(s))
    BY <1>1, <2>1, StringStep
  <2>3. read[i] = StringAt(read, s, i, e)
    BY <1>1 DEF Strings
  <2> QED
    BY <1>1, <2>2, <2>3
<1>4. \A i \in 1 .. n : i \in P
  BY <1>2, <1>3, Down
<1> QED
  BY <1>1, <1>4

\* A string the copy reads the package reads alike: its escapes are among the package's.
LEMMA StringAlike ==
  ASSUME NEW s \in Texts, NEW i \in 1 .. Len(s) + 2, String(s, i, BundledEscapes) # Failed
  PROVE  String(s, i, Escapes) = String(s, i, BundledEscapes)
<1>1. PICK f : Strings(f, s, BundledEscapes) /\ \A j : String(s, j, BundledEscapes) = f[j]
  BY StringsAre
<1>2. PICK g : Strings(g, s, Escapes) /\ \A j : String(s, j, Escapes) = g[j]
  BY StringsAre
<1>3. PICK n, P : n = Len(s) + 2 /\ P = {j \in 1 .. n : f[j] # Failed => g[j] = f[j]}
  OBVIOUS
<1>4. n \in Nat
  BY <1>3, TextIs
<1>5. ASSUME NEW j \in 1 .. n, \A k \in j + 1 .. n : k \in P PROVE j \in P
  <2>1. f[j] = StringAt(f, s, j, BundledEscapes) /\ g[j] = StringAt(g, s, j, Escapes)
    BY <1>1, <1>2, <1>3 DEF Strings
  <2>2. CASE j > Len(s)
    BY <1>3, <2>1, <2>2 DEF StringAt
  <2>3. CASE ~(j > Len(s))
    <3>1. j + 1 \in j + 1 .. n /\ j + 2 \in j + 1 .. n
      BY <1>3, <1>4, <2>3
    <3>2. /\ f[j + 1] # Failed => g[j + 1] = f[j + 1]
          /\ f[j + 2] # Failed => g[j + 2] = f[j + 2]
      BY <1>3, <1>5, <3>1
    <3>3. Is(s, j + 1, DOMAIN BundledEscapes) =>
            Is(s, j + 1, DOMAIN Escapes) /\ BundledEscapes[s[j + 1]] = Escapes[s[j + 1]]
      BY EscapesAre DEF Is
    <3>4. CASE s[j] = Backslash
      <4>1. s[j] # LineEnd /\ s[j] # Quote
        BY <3>4, EscapesAre
      <4>2. f[j] # Failed => /\ Is(s, j + 1, DOMAIN BundledEscapes) /\ f[j + 2] # Failed
                             /\ f[j] = [at |-> f[j + 2].at,
                                        text |-> <<BundledEscapes[s[j + 1]]>> \o f[j + 2].text]
        BY <2>1, <3>4, <4>1 DEF StringAt
      <4>3. Is(s, j + 1, DOMAIN Escapes) /\ g[j + 2] # Failed =>
              g[j] = [at |-> g[j + 2].at, text |-> <<Escapes[s[j + 1]]>> \o g[j + 2].text]
        BY <2>1, <2>3, <3>4, <4>1 DEF StringAt
      <4> QED
        BY <1>3, <3>2, <3>3, <4>2, <4>3
    <3>5. CASE s[j] # Backslash
      BY <1>3, <2>1, <2>3, <3>2, <3>5 DEF StringAt
    <3> QED
      BY <3>4, <3>5
  <2> QED
    BY <2>2, <2>3
<1>6. \A j \in 1 .. n : j \in P
  BY <1>4, <1>5, Down
<1> QED
  BY <1>1, <1>2, <1>3, <1>6

\* Where a string ends, and what it says.
LEMMA StringIs ==
  ASSUME NEW s \in Texts, NEW e \in EscapeSets, NEW i \in 1 .. Len(s) + 2
  PROVE  ReadString(String(s, i, e), i, Len(s))
BY StringsAre, StringReads

-----------------------------------------------------------------------------
(* Tokens.                                                                 *)

TokenTypes == {"header", "string", "number", "ident", "eof"} \cup Marks

\* The text of a word; of a number; and a token.
MadeIdent(t) ==
  /\ t \in Texts /\ Len(t) > 0 /\ t[1] \in Letters
  /\ \A k \in 1 .. Len(t) : \/ t[k] \in Letters \cup Digits
                            \/ t[k] = "." /\ k < Len(t) /\ t[k + 1] \in Letters
MadeNumber(t) ==
  t \in Texts /\ Len(t) > 0 /\ IsNumber(t) /\ \A k \in 1 .. Len(t) : t[k] \in Digits \cup {"."}
Made(t) ==
  /\ t = Token(t.type, t.text) /\ t.type \in TokenTypes /\ t.text \in Texts
  /\ t.type = "ident" => MadeIdent(t.text)
  /\ t.type = "number" => MadeNumber(t.text)

\* What a stretch of characters is.
LEMMA StretchIs ==
  ASSUME NEW s \in Texts, NEW i \in 1 .. Len(s), NEW places \in SUBSET (DOMAIN s), i \in places,
         NEW j, Ends(s, i, places, j)
  PROVE  /\ j \in i + 1 .. Len(s) + 1 /\ SubSeq(s, i, j - 1) \in Texts
         /\ Len(SubSeq(s, i, j - 1)) = j - i /\ j - i > 0
         /\ \A k \in 1 .. j - i : SubSeq(s, i, j - 1)[k] = s[i + k - 1] /\ i + k - 1 \in places
<1>1. PICK n : n = Len(s)
  OBVIOUS
<1>2. n \in Nat /\ i \in 1 .. n /\ j \in i .. n + 1 /\ i .. j - 1 \subseteq places /\ j \notin places
  BY <1>1, TextIs DEF Ends
<1>3. j \in i + 1 .. n + 1
  BY <1>2
<1>4. PICK b : b = j - 1
  OBVIOUS
<1>5. b \in Nat /\ i \in Nat \ {0} /\ i <= b + 1 /\ b <= Len(s) /\ (b + 1) - i = j - i
  BY <1>1, <1>2, <1>3, <1>4
<1>6. /\ SubSeq(s, i, b) \in Texts /\ Len(SubSeq(s, i, b)) = b + 1 - i
      /\ \A k \in 1 .. b + 1 - i : SubSeq(s, i, b)[k] = s[i + k - 1]
  BY <1>5, TextPart
<1>7. \A k \in 1 .. j - i : i + k - 1 \in i .. j - 1
  BY <1>2
<1> QED
  BY <1>1, <1>2, <1>3, <1>4, <1>5, <1>6, <1>7

\* The end of a word, and its text.
IdentPlaces(s) ==
  Places(s, Letters \cup Digits) \cup {x \in Places(s, {"."}) : Is(s, x + 1, Letters)}
LEMMA IdentIs ==
  ASSUME NEW s \in Texts, NEW i \in 1 .. Len(s), s[i] \in Letters
  PROVE  LET j == EndOfIdent(s, i)
         IN j \in i + 1 .. Len(s) + 1 /\ MadeIdent(SubSeq(s, i, j - 1))
<1>1. PICK j, t, n : j = EndOfIdent(s, i) /\ t = SubSeq(s, i, j - 1) /\ n = Len(s)
  OBVIOUS
<1>2. n \in Nat /\ DOMAIN s = 1 .. n /\ i \in 1 .. n /\ i \in 1 .. Len(s) + 1
  BY <1>1, TextIs
<1>3. IdentPlaces(s) \in SUBSET (DOMAIN s) /\ i \in IdentPlaces(s)
  BY <1>2 DEF IdentPlaces, Places
<1>4. Ends(s, i, IdentPlaces(s), j)
  BY <1>1, <1>2, <1>3, EndOfIs DEF EndOfIdent, IdentPlaces
<1>5. /\ j \in i + 1 .. n + 1 /\ t \in Texts /\ Len(t) = j - i /\ j - i > 0
      /\ \A k \in 1 .. j - i : t[k] = s[i + k - 1] /\ i + k - 1 \in IdentPlaces(s)
  BY <1>1, <1>3, <1>4, StretchIs
<1>6. t[1] \in Letters
  <2>1. 1 \in 1 .. j - i /\ i + 1 - 1 = i
    BY <1>2, <1>5
  <2>2. t[1] = s[i + 1 - 1]
    BY <1>5, <2>1
  <2> QED
    BY <2>1, <2>2
<1>7. ASSUME NEW k \in 1 .. j - i
      PROVE  t[k] \in Letters \cup Digits \/ (t[k] = "." /\ k < j - i /\ t[k + 1] \in Letters)
  <2>1. PICK x : x = i + k - 1
    OBVIOUS
  <2>2. x \in Nat /\ x + 1 = i + (k + 1) - 1 /\ t[k] = s[x] /\ x \in IdentPlaces(s)
    BY <1>2, <1>5, <2>1
  <2>3. CASE s[x] \in Letters \cup Digits
    BY <2>2, <2>3
  <2>4. CASE s[x] = "." /\ Is(s, x + 1, Letters)
    <3>1. s[x + 1] \in Letters /\ x + 1 <= n /\ x + 1 \in 1 .. n
      BY <1>1, <2>2, <2>4 DEF Is
    <3>2. x + 1 \in IdentPlaces(s)
      BY <1>2, <3>1 DEF IdentPlaces, Places
    <3>3. x + 1 # j
      BY <1>4, <3>2 DEF Ends
    <3>4. k < j - i /\ k + 1 \in 1 .. j - i
      BY <1>2, <1>5, <2>1, <3>3
    <3>5. t[k + 1] = s[x + 1]
      <4>1. t[k + 1] = s[i + (k + 1) - 1]
        BY <1>5, <3>4
      <4> QED
        BY <2>2, <4>1
    <3> QED
      BY <2>2, <2>4, <3>1, <3>4, <3>5
  <2>5. s[x] \in Letters \cup Digits \/ (s[x] = "." /\ Is(s, x + 1, Letters))
    BY <2>2 DEF IdentPlaces, Places
  <2> QED
    BY <2>3, <2>4, <2>5
<1>8. MadeIdent(t)
  BY <1>5, <1>6, <1>7 DEF MadeIdent
<1> QED
  BY <1>1, <1>5, <1>8

\* What starts at a character.
StepIs(r, i, n) ==
  \/ r = Failed
  \/ /\ r = [at |-> r.at, tokens |-> r.tokens] /\ r.at \in i + 1 .. n + 1
     /\ \/ r.tokens = <<>>
        \/ \E t : Made(t) /\ t.type # "eof" /\ r.tokens = <<t>>

\* It is skipped, or it is one token.
LEMMA StepOf ==
  ASSUME NEW i, NEW n, NEW j \in i + 1 .. n + 1
  PROVE  /\ StepIs([at |-> j, tokens |-> <<>>], i, n)
         /\ \A t : Made(t) /\ t.type # "eof" => StepIs([at |-> j, tokens |-> <<t>>], i, n)
BY DEF StepIs

\* The token that starts at a character hangs on that character.
TokenOf(s, i, e, j, tokens) == TokenAt(s, i, e) = [at |-> j, tokens |-> tokens]
LEMMA TokenIs ==
  ASSUME NEW s, NEW i, NEW e
  PROVE  /\ s[i] \in {" ", LineEnd} => TokenOf(s, i, e, i + 1, <<>>)
         /\ s[i] = "#" => TokenOf(s, i, e, EndOf(s, i, {x \in DOMAIN s : s[x] # LineEnd}), <<>>)
         /\ s[i] = "@" =>
              IF Is(s, i + 1, Letters \cup Digits) THEN TokenAt(s, i, e) = Failed
              ELSE TokenOf(s, i, e, i + 1, <<Token("header", SubSeq(s, i, (i + 1) - 1))>>)
         /\ s[i] = Quote => LET str == String(s, i + 1, e)
                            IN IF str = Failed THEN TokenAt(s, i, e) = Failed
                               ELSE TokenOf(s, i, e, str.at, <<Token("string", str.text)>>)
         /\ s[i] \in Digits => LET j == EndOf(s, i, Places(s, Digits \cup {"."}))
                                   u == SubSeq(s, i, j - 1)
                               IN IF IsNumber(u) THEN TokenOf(s, i, e, j, <<Token("number", u)>>)
                                  ELSE TokenAt(s, i, e) = Failed
         /\ s[i] \in Letters => LET j == EndOfIdent(s, i)
                                IN TokenOf(s, i, e, j, <<Token("ident", SubSeq(s, i, j - 1))>>)
         /\ s[i] \in Marks => TokenOf(s, i, e, i + 1, <<Token(s[i], <<>>)>>)
         /\ s[i] \notin {" ", LineEnd, "#", "@", Quote} \cup Digits \cup Letters \cup Marks =>
              TokenAt(s, i, e) = Failed
<1>1. /\ s[i] \in {" ", LineEnd, "#", "@", Quote} => s[i] \notin Digits \cup Letters \cup Marks
      /\ s[i] = "#" => s[i] \notin {" ", LineEnd}
      /\ s[i] = "@" => s[i] \notin {" ", LineEnd, "#"}
      /\ s[i] = Quote => s[i] \notin {" ", LineEnd, "#", "@"}
  BY DEF Digits, Letters, Marks, LineEnd, Quote
<1>2. /\ s[i] \in Digits => s[i] \notin {" ", LineEnd, "#", "@", Quote} \cup Letters \cup Marks
      /\ s[i] \in Letters => s[i] \notin {" ", LineEnd, "#", "@", Quote} \cup Digits \cup Marks
      /\ s[i] \in Marks => s[i] \notin {" ", LineEnd, "#", "@", Quote} \cup Digits \cup Letters
  BY DEF Digits, Letters, Marks, LineEnd, Quote
<1>3. s[i] \in {" ", LineEnd} => TokenOf(s, i, e, i + 1, <<>>)
  BY <1>1 DEF TokenOf, TokenAt
<1>4. s[i] = "#" => TokenOf(s, i, e, EndOf(s, i, {x \in DOMAIN s : s[x] # LineEnd}), <<>>)
  BY <1>1 DEF TokenOf, TokenAt
<1>5. s[i] = "@" =>
        IF Is(s, i + 1, Letters \cup Digits) THEN TokenAt(s, i, e) = Failed
        ELSE TokenOf(s, i, e, i + 1, <<Token("header", SubSeq(s, i, (i + 1) - 1))>>)
  BY <1>1 DEF TokenOf, TokenAt
<1>6. s[i] = Quote => LET str == String(s, i + 1, e)
                      IN IF str = Failed THEN TokenAt(s, i, e) = Failed
                         ELSE TokenOf(s, i, e, str.at, <<Token("string", str.text)>>)
  BY <1>1 DEF TokenOf, TokenAt
<1>7. s[i] \in Digits => LET j == EndOf(s, i, Places(s, Digits \cup {"."}))
                             u == SubSeq(s, i, j - 1)
                         IN IF IsNumber(u) THEN TokenOf(s, i, e, j, <<Token("number", u)>>)
                            ELSE TokenAt(s, i, e) = Failed
  BY <1>2 DEF TokenOf, TokenAt
<1>8. s[i] \in Letters => LET j == EndOfIdent(s, i)
                          IN TokenOf(s, i, e, j, <<Token("ident", SubSeq(s, i, j - 1))>>)
  BY <1>2 DEF TokenOf, TokenAt
<1>9. s[i] \in Marks => TokenOf(s, i, e, i + 1, <<Token(s[i], <<>>)>>)
  BY <1>2 DEF TokenOf, TokenAt
<1>10. s[i] \notin {" ", LineEnd, "#", "@", Quote} \cup Digits \cup Letters \cup Marks =>
         TokenAt(s, i, e) = Failed
  BY DEF TokenAt
<1> QED
  BY <1>3, <1>4, <1>5, <1>6, <1>7, <1>8, <1>9, <1>10

LEMMA TokenAtIs ==
  ASSUME NEW s \in Texts, NEW e \in EscapeSets, NEW i \in 1 .. Len(s)
  PROVE  StepIs(TokenAt(s, i, e), i, Len(s))
<1>1. PICK n, r, str, j, k, h :
        /\ n = Len(s) /\ r = TokenAt(s, i, e) /\ str = String(s, i + 1, e)
        /\ j = EndOf(s, i, Places(s, Digits \cup {"."})) /\ k = EndOfIdent(s, i)
        /\ h = EndOf(s, i, {x \in DOMAIN s : s[x] # LineEnd})
  OBVIOUS
<1>2. /\ n \in Nat /\ DOMAIN s = 1 .. n /\ i \in 1 .. n /\ i \in 1 .. Len(s) + 1
      /\ i + 1 \in 1 .. Len(s) + 2 /\ i + 1 \in i + 1 .. n + 1
  BY <1>1, TextIs
<1>3. \/ r = Failed
      \/ r = [at |-> i + 1, tokens |-> <<>>]
      \/ s[i] = "#" /\ r = [at |-> h, tokens |-> <<>>]
      \/ r = [at |-> i + 1, tokens |-> <<Token("header", SubSeq(s, i, (i + 1) - 1))>>]
      \/ str # Failed /\ r = [at |-> str.at, tokens |-> <<Token("string", str.text)>>]
      \/ /\ s[i] \in Digits /\ IsNumber(SubSeq(s, i, j - 1))
         /\ r = [at |-> j, tokens |-> <<Token("number", SubSeq(s, i, j - 1))>>]
      \/ s[i] \in Letters /\ r = [at |-> k, tokens |-> <<Token("ident", SubSeq(s, i, k - 1))>>]
      \/ s[i] \in Marks /\ r = [at |-> i + 1, tokens |-> <<Token(s[i], <<>>)>>]
  <2>1. \/ s[i] \in {" ", LineEnd} \/ s[i] = "#" \/ s[i] = "@" \/ s[i] = Quote
        \/ s[i] \in Digits \/ s[i] \in Letters \/ s[i] \in Marks
        \/ s[i] \notin {" ", LineEnd, "#", "@", Quote} \cup Digits \cup Letters \cup Marks
    OBVIOUS
  <2>2. CASE s[i] \in {" ", LineEnd}
    <3>1. TokenOf(s, i, e, i + 1, <<>>)
      BY <2>2, TokenIs
    <3> QED
      BY <1>1, <3>1 DEF TokenOf
  <2>3. CASE s[i] = "#"
    <3>1. TokenOf(s, i, e, h, <<>>)
      BY <1>1, <2>3, TokenIs
    <3> QED
      BY <1>1, <2>3, <3>1 DEF TokenOf
  <2>4. CASE s[i] = "@"
    <3>1. \/ TokenAt(s, i, e) = Failed
          \/ TokenOf(s, i, e, i + 1, <<Token("header", SubSeq(s, i, (i + 1) - 1))>>)
      BY <2>4, TokenIs
    <3> QED
      BY <1>1, <3>1 DEF TokenOf
  <2>5. CASE s[i] = Quote
    <3>1. \/ TokenAt(s, i, e) = Failed
          \/ str # Failed /\ TokenOf(s, i, e, str.at, <<Token("string", str.text)>>)
      BY <1>1, <2>5, TokenIs
    <3> QED
      BY <1>1, <3>1 DEF TokenOf
  <2>6. CASE s[i] \in Digits
    <3>1. \/ TokenAt(s, i, e) = Failed
          \/ /\ IsNumber(SubSeq(s, i, j - 1))
             /\ TokenOf(s, i, e, j, <<Token("number", SubSeq(s, i, j - 1))>>)
      BY <1>1, <2>6, TokenIs
    <3> QED
      BY <1>1, <2>6, <3>1 DEF TokenOf
  <2>7. CASE s[i] \in Letters
    <3>1. TokenOf(s, i, e, k, <<Token("ident", SubSeq(s, i, k - 1))>>)
      BY <1>1, <2>7, TokenIs
    <3> QED
      BY <1>1, <2>7, <3>1 DEF TokenOf
  <2>8. CASE s[i] \in Marks
    <3>1. TokenOf(s, i, e, i + 1, <<Token(s[i], <<>>)>>)
      BY <2>8, TokenIs
    <3> QED
      BY <1>1, <2>8, <3>1 DEF TokenOf
  <2>9. CASE s[i] \notin {" ", LineEnd, "#", "@", Quote} \cup Digits \cup Letters \cup Marks
    BY <1>1, <2>9, TokenIs
  <2> QED
    BY <2>1, <2>2, <2>3, <2>4, <2>5, <2>6, <2>7, <2>8, <2>9
<1>4. CASE r = Failed
  BY <1>1, <1>4 DEF StepIs
<1>5. CASE r = [at |-> i + 1, tokens |-> <<>>]
  BY <1>1, <1>2, <1>5, StepOf
<1>6. CASE s[i] = "#" /\ r = [at |-> h, tokens |-> <<>>]
  <2>1. PICK places : places = {x \in DOMAIN s : s[x] # LineEnd}
    OBVIOUS
  <2>2. places \in SUBSET (DOMAIN s) /\ i \in places
    BY <1>2, <1>6, <2>1 DEF LineEnd
  <2>3. Ends(s, i, places, h)
    BY <1>1, <1>2, <2>1, <2>2, EndOfIs
  <2>4. h \in i + 1 .. n + 1
    BY <1>1, <2>2, <2>3, StretchIs
  <2> QED
    BY <1>1, <1>6, <2>4, StepOf
<1>7. CASE r = [at |-> i + 1, tokens |-> <<Token("header", SubSeq(s, i, (i + 1) - 1))>>]
  <2>1. PICK b : b = (i + 1) - 1
    OBVIOUS
  <2>2. b \in Nat /\ i \in Nat \ {0} /\ i <= b + 1 /\ b <= Len(s)
    BY <1>1, <1>2, <2>1
  <2>3. PICK t : t = Token("header", SubSeq(s, i, b))
    OBVIOUS
  <2>4. SubSeq(s, i, b) \in Texts
    BY <2>2, TextPart
  <2>5. Made(t) /\ t.type # "eof"
    BY <2>3, <2>4 DEF Made, Token, TokenTypes
  <2> QED
    BY <1>1, <1>2, <1>7, <2>1, <2>3, <2>5, StepOf
<1>8. CASE str # Failed /\ r = [at |-> str.at, tokens |-> <<Token("string", str.text)>>]
  <2>1. ReadString(str, i + 1, n)
    BY <1>1, <1>2, StringIs
  <2>2. str.at \in i + 1 .. n + 1 /\ str.text \in Texts
    BY <1>2, <1>8, <2>1 DEF ReadString
  <2>3. PICK t : t = Token("string", str.text)
    OBVIOUS
  <2>4. Made(t) /\ t.type # "eof"
    BY <2>2, <2>3 DEF Made, Token, TokenTypes
  <2> QED
    BY <1>1, <1>8, <2>2, <2>3, <2>4, StepOf
<1>9. CASE /\ s[i] \in Digits /\ IsNumber(SubSeq(s, i, j - 1))
           /\ r = [at |-> j, tokens |-> <<Token("number", SubSeq(s, i, j - 1))>>]
  <2>1. PICK places, u : places = Places(s, Digits \cup {"."}) /\ u = SubSeq(s, i, j - 1)
    OBVIOUS
  <2>2. /\ places \in SUBSET (DOMAIN s) /\ i \in places
        /\ \A x \in places : s[x] \in Digits \cup {"."}
    BY <1>2, <1>9, <2>1 DEF Places
  <2>3. Ends(s, i, places, j)
    BY <1>1, <1>2, <2>1, <2>2, EndOfIs
  <2>4. /\ j \in i + 1 .. n + 1 /\ u \in Texts /\ Len(u) = j - i /\ j - i > 0
        /\ \A x \in 1 .. j - i : u[x] = s[i + x - 1] /\ i + x - 1 \in places
    <3>1. i \in places
      BY <2>2
    <3>2. /\ j \in i + 1 .. Len(s) + 1 /\ SubSeq(s, i, j - 1) \in Texts
          /\ Len(SubSeq(s, i, j - 1)) = j - i /\ j - i > 0
          /\ \A x \in 1 .. j - i : SubSeq(s, i, j - 1)[x] = s[i + x - 1] /\ i + x - 1 \in places
      BY <2>2, <2>3, <3>1, StretchIs
    <3> QED
      BY <1>1, <2>1, <3>2
  <2>5. \A x \in 1 .. Len(u) : u[x] \in Digits \cup {"."}
    BY <2>2, <2>4
  <2>6. PICK t : t = Token("number", u)
    OBVIOUS
  <2>7. MadeNumber(u)
    BY <1>9, <2>1, <2>4, <2>5 DEF MadeNumber
  <2>8. Made(t) /\ t.type # "eof"
    BY <2>4, <2>6, <2>7 DEF Made, Token, TokenTypes
  <2> QED
    BY <1>1, <1>9, <2>1, <2>4, <2>6, <2>8, StepOf
<1>10. CASE s[i] \in Letters /\ r = [at |-> k, tokens |-> <<Token("ident", SubSeq(s, i, k - 1))>>]
  <2>1. PICK t, u : t = Token("ident", u) /\ u = SubSeq(s, i, k - 1)
    OBVIOUS
  <2>2. k \in i + 1 .. n + 1 /\ MadeIdent(u)
    BY <1>1, <1>2, <1>10, <2>1, IdentIs
  <2>3. Made(t) /\ t.type # "eof"
    BY <2>1, <2>2 DEF Made, MadeIdent, Token, TokenTypes
  <2> QED
    BY <1>1, <1>10, <2>1, <2>2, <2>3, StepOf
<1>11. CASE s[i] \in Marks /\ r = [at |-> i + 1, tokens |-> <<Token(s[i], <<>>)>>]
  <2>1. PICK t : t = Token(s[i], <<>>)
    OBVIOUS
  <2>2. <<>> \in Texts
    BY SeqShort DEF Texts
  <2>3. Made(t) /\ t.type # "eof"
    BY <1>11, <2>1, <2>2 DEF Made, Token, TokenTypes, Marks
  <2> QED
    BY <1>1, <1>2, <1>11, <2>1, <2>3, StepOf
<1> QED
  BY <1>3, <1>4, <1>5, <1>6, <1>7, <1>8, <1>9, <1>10, <1>11

\* The tokens from each character on.
Lexed(f, s, e) == f = [i \in 1 .. Len(s) + 1 |-> TokensAt(f, s, i, e)]

\* They hang on those behind.
LEMMA TokensHang ==
  ASSUME NEW s \in Texts, NEW e \in EscapeSets, NEW i \in 1 .. Len(s) + 1, NEW f, NEW g,
         \A j \in i + 1 .. Len(s) + 1 : f[j] = g[j]
  PROVE  TokensAt(f, s, i, e) = TokensAt(g, s, i, e)
<1>1. CASE i > Len(s)
  BY <1>1 DEF TokensAt
<1>2. CASE ~(i > Len(s))
  <2>1. PICK r : r = TokenAt(s, i, e)
    OBVIOUS
  <2>2. i \in 1 .. Len(s)
    BY <1>2, TextIs
  <2>3. StepIs(r, i, Len(s))
    BY <2>1, <2>2, TokenAtIs
  <2>4. r # Failed => f[r.at] = g[r.at]
    BY <2>3 DEF StepIs
  <2> QED
    BY <2>1, <2>4 DEF TokensAt
<1> QED
  BY <1>1, <1>2

\* There are such.
LEMMA TokensAre ==
  ASSUME NEW s \in Texts, NEW e \in EscapeSets
  PROVE  \E f : Lexed(f, s, e) /\ Tokenize(s, e) = f[1]
<1>1. PICK n : n = Len(s) + 1
  OBVIOUS
<1>2. n \in Nat
  BY <1>1, TextIs
<1> DEFINE Good(f, b) == f = [i \in 1 .. n |-> f[i]]
                         /\ \A i \in 1 .. n : i > n - b => f[i] = TokensAt(f, s, i, e)
           P == {b \in Nat : b <= n => \E f : Good(f, b)}
<1>3. 0 \in P
  <2>1. Good([i \in 1 .. n |-> i], 0)
    BY <1>2
  <2> QED
    BY <2>1
<1>4. ASSUME NEW b \in Nat, b \in P PROVE b + 1 \in P
  <2>1. SUFFICES ASSUME b + 1 <= n PROVE \E f : Good(f, b + 1)
    OBVIOUS
  <2>2. PICK f : Good(f, b)
    BY <1>2, <1>4, <2>1
  <2>3. PICK m : m = n - b
    OBVIOUS
  <2>4. m \in 1 .. n
    BY <1>2, <2>1, <2>3
  <2>5. PICK g : g = [i \in 1 .. n |-> IF i = m THEN TokensAt(f, s, m, e) ELSE f[i]]
    OBVIOUS
  <2>6. ASSUME NEW i \in 1 .. n, i >= m PROVE TokensAt(g, s, i, e) = TokensAt(f, s, i, e)
    <3>1. \A j \in i + 1 .. n : j \in 1 .. n /\ j # m
      BY <1>2, <2>4, <2>6
    <3>2. \A j \in i + 1 .. n : g[j] = f[j]
      BY <2>5, <3>1
    <3> QED
      BY <1>1, <3>2, TokensHang
  <2>7. ASSUME NEW i \in 1 .. n, i > n - (b + 1) PROVE g[i] = TokensAt(g, s, i, e)
    <3>1. i >= m
      BY <1>2, <2>3, <2>7
    <3>2. CASE i = m
      BY <2>4, <2>5, <2>6, <3>1, <3>2
    <3>3. CASE i # m
      <4>1. i > n - b
        BY <1>2, <2>3, <3>1, <3>3
      <4>2. g[i] = f[i] /\ f[i] = TokensAt(f, s, i, e)
        BY <2>2, <2>5, <3>3, <4>1
      <4> QED
        BY <2>6, <3>1, <4>2
    <3> QED
      BY <3>2, <3>3
  <2>8. Good(g, b + 1)
    BY <2>5, <2>7
  <2> QED
    BY <2>8
<1> HIDE DEF P
<1>5. n \in P
  BY <1>2, <1>3, <1>4, Induct
<1>6. PICK f : Good(f, n)
  BY <1>2, <1>5 DEF P
<1>7. \A i \in 1 .. n : f[i] = TokensAt(f, s, i, e)
  <2>1. \A i \in 1 .. n : i > n - n
    BY <1>2
  <2> QED
    BY <1>6, <2>1
<1>8. f = [i \in 1 .. n |-> f[i]]
  BY <1>6
<1>9. Lexed(f, s, e)
  BY <1>1, <1>7, <1>8 DEF Lexed
<1>10. PICK tokens : tokens = CHOOSE r : Lexed(r, s, e)
  OBVIOUS
<1>11. Lexed(tokens, s, e)
  BY <1>9, <1>10
<1>12. Tokenize(s, e) = tokens[1]
  BY <1>10 DEF Tokenize, Lexed
<1> QED
  BY <1>11, <1>12

\* Tokens up to the end of the file, which comes last and not before.
Tokens == [type : TokenTypes, text : Texts]
WellMade(ts) ==
  /\ ts \in Seq(Tokens) /\ Len(ts) > 0
  /\ \A k \in 1 .. Len(ts) : Made(ts[k]) /\ (ts[k].type = "eof" <=> k = Len(ts))

LEMMA MadeIs == \A t : Made(t) => t \in Tokens
<1>1. ASSUME NEW t, Made(t) PROVE t \in Tokens
  <2>1. t = [type |-> t.type, text |-> t.text] /\ t.type \in TokenTypes /\ t.text \in Texts
    BY <1>1 DEF Made, Token
  <2> QED
    BY <2>1 DEF Tokens
<1> QED
  BY <1>1

LEMMA EofIs == WellMade(<<Token("eof", <<>>)>>)
<1>1. PICK t, z : t = Token("eof", <<>>) /\ z = <<t>>
  OBVIOUS
<1>2. <<>> \in Texts
  BY SeqShort DEF Texts
<1>3. Made(t) /\ t.type = "eof"
  BY <1>1, <1>2 DEF Made, Token, TokenTypes
<1>4. z \in Seq(Tokens) /\ Len(z) = 1 /\ z[1] = t
  BY <1>1, <1>3, MadeIs, SeqShort
<1>5. \A k \in 1 .. 1 : k = 1
  OBVIOUS
<1>6. WellMade(z)
  BY <1>3, <1>4, <1>5 DEF WellMade
<1> QED
  BY <1>1, <1>6

\* With one token more in front.
LEMMA OneMore ==
  ASSUME NEW ts, WellMade(ts), NEW t, Made(t), t.type # "eof"
  PROVE  WellMade(<<t>> \o ts)
<1>1. PICK z, n, one : z = <<t>> \o ts /\ n = Len(ts) /\ one = <<t>>
  OBVIOUS
<1>2. t \in Tokens /\ ts \in Seq(Tokens) /\ n \in Nat /\ n > 0
  BY <1>1, MadeIs DEF WellMade
<1>3. one \in Seq(Tokens) /\ Len(one) = 1 /\ one[1] = t
  BY <1>1, <1>2, SeqShort
<1>4. /\ z \in Seq(Tokens) /\ Len(z) = 1 + n
      /\ \A i \in 1 .. 1 : z[i] = one[i]
      /\ \A i \in 1 .. n : z[i + 1] = ts[i]
  <2>1. /\ one \o ts \in Seq(Tokens) /\ Len(one \o ts) = Len(one) + Len(ts)
        /\ \A i \in 1 .. Len(one) : (one \o ts)[i] = one[i]
        /\ \A i \in 1 .. Len(ts) : (one \o ts)[i + Len(one)] = ts[i]
    <3>1. one \in Seq(Tokens) /\ ts \in Seq(Tokens)
      BY <1>2, <1>3
    <3> QED
      BY <3>1, SeqOn
  <2> QED
    BY <1>1, <1>3, <2>1
<1>5. ASSUME NEW k \in 1 .. 1 + n PROVE Made(z[k]) /\ (z[k].type = "eof" <=> k = 1 + n)
  <2>1. CASE k = 1
    BY <1>2, <1>3, <1>4, <2>1
  <2>2. CASE k # 1
    <3>1. k - 1 \in 1 .. n /\ (k - 1) + 1 = k
      BY <1>2, <2>2
    <3>2. z[k] = ts[k - 1]
      BY <1>4, <3>1
    <3>3. Made(ts[k - 1]) /\ (ts[k - 1].type = "eof" <=> k - 1 = n)
      BY <1>1, <3>1 DEF WellMade
    <3> QED
      BY <1>2, <3>1, <3>2, <3>3
  <2> QED
    BY <2>1, <2>2
<1>6. WellMade(z)
  BY <1>2, <1>4, <1>5 DEF WellMade
<1> QED
  BY <1>1, <1>6

\* The tokens of a text are well made.
LEMMA TokensMade ==
  ASSUME NEW s \in Texts, NEW e \in EscapeSets, NEW f, Lexed(f, s, e)
  PROVE  \A i \in 1 .. Len(s) + 1 : f[i] = <<>> \/ WellMade(f[i])
<1>1. PICK n, P : n = Len(s) + 1 /\ P = {i \in 1 .. n : f[i] = <<>> \/ WellMade(f[i])}
  OBVIOUS
<1>2. n \in Nat
  BY <1>1, TextIs
<1>3. ASSUME NEW i \in 1 .. n, \A j \in i + 1 .. n : j \in P PROVE i \in P
  <2>1. f[i] = TokensAt(f, s, i, e)
    BY <1>1 DEF Lexed
  <2>2. CASE i > Len(s)
    BY <1>1, <2>1, <2>2, EofIs DEF TokensAt
  <2>3. CASE ~(i > Len(s))
    <3>1. PICK r, others : r = TokenAt(s, i, e) /\ others = f[r.at]
      OBVIOUS
    <3>2. i \in 1 .. Len(s)
      BY <1>1, <2>3, TextIs
    <3>3. StepIs(r, i, Len(s))
      BY <3>1, <3>2, TokenAtIs
    <3>4. \/ f[i] = <<>>
          \/ r # Failed /\ others # <<>> /\ f[i] = r.tokens \o others
      BY <2>1, <2>3, <3>1 DEF TokensAt
    <3>5. CASE r # Failed /\ others # <<>> /\ f[i] = r.tokens \o others
      <4>1. WellMade(others)
        BY <1>1, <1>3, <3>1, <3>3, <3>5 DEF StepIs
      <4>2. CASE r.tokens = <<>>
        BY <1>1, <3>5, <4>1, <4>2, SeqShort DEF WellMade
      <4>3. CASE \E t : Made(t) /\ t.type # "eof" /\ r.tokens = <<t>>
        BY <1>1, <3>5, <4>1, <4>3, OneMore
      <4> QED
        BY <3>3, <3>5, <4>2, <4>3 DEF StepIs
    <3> QED
      BY <1>1, <3>4, <3>5
  <2> QED
    BY <2>2, <2>3
<1>4. \A i \in 1 .. n : i \in P
  BY <1>2, <1>3, Down
<1> QED
  BY <1>1, <1>4

\* What the copy reads as a token the package reads alike.
LEMMA TokenAlike ==
  ASSUME NEW s \in Texts, NEW i \in 1 .. Len(s), TokenAt(s, i, BundledEscapes) # Failed
  PROVE  TokenAt(s, i, Escapes) = TokenAt(s, i, BundledEscapes)
<1>1. CASE s[i] = Quote
  <2>1. i + 1 \in 1 .. Len(s) + 2
    BY TextIs
  <2>2. PICK a, b : a = String(s, i + 1, BundledEscapes) /\ b = String(s, i + 1, Escapes)
    OBVIOUS
  <2>3. a # Failed
    BY <1>1, <2>2, TokenIs
  <2>4. b = a
    BY <2>1, <2>2, <2>3, StringAlike
  <2>5. TokenOf(s, i, BundledEscapes, a.at, <<Token("string", a.text)>>)
    BY <1>1, <2>2, <2>3, TokenIs
  <2>6. TokenOf(s, i, Escapes, b.at, <<Token("string", b.text)>>)
    BY <1>1, <2>2, <2>3, <2>4, TokenIs
  <2> QED
    BY <2>4, <2>5, <2>6 DEF TokenOf
<1>2. CASE s[i] = "@"
  <2>1. s[i] \notin {" ", LineEnd, "#"}
    BY <1>2 DEF LineEnd
  <2> QED
    BY <1>2, <2>1 DEF TokenAt
<1>3. CASE s[i] \in {" ", LineEnd}
  BY <1>3, TokenIs DEF TokenOf
<1>4. CASE s[i] = "#"
  BY <1>4, TokenIs DEF TokenOf
<1>5. CASE s[i] \in Digits
  <2>1. PICK j, u : j = EndOf(s, i, Places(s, Digits \cup {"."})) /\ u = SubSeq(s, i, j - 1)
    OBVIOUS
  <2> QED
    BY <1>5, <2>1, TokenIs DEF TokenOf
<1>6. CASE s[i] \in Letters
  BY <1>6, TokenIs DEF TokenOf
<1>7. CASE s[i] \in Marks
  BY <1>7, TokenIs DEF TokenOf
<1>8. CASE s[i] \notin {" ", LineEnd, "#", "@", Quote} \cup Digits \cup Letters \cup Marks
  BY <1>8, TokenIs
<1> QED
  BY <1>1, <1>2, <1>3, <1>4, <1>5, <1>6, <1>7, <1>8

\* So a text that has tokens for the copy has the same for the package.
LEMMA TokensAlike ==
  ASSUME NEW s \in Texts, Tokenize(s, BundledEscapes) # <<>>
  PROVE  Tokenize(s, Escapes) = Tokenize(s, BundledEscapes)
<1>1. PICK f : Lexed(f, s, BundledEscapes) /\ Tokenize(s, BundledEscapes) = f[1]
  BY TokensAre DEF EscapeSets
<1>2. PICK g : Lexed(g, s, Escapes) /\ Tokenize(s, Escapes) = g[1]
  BY TokensAre DEF EscapeSets
<1>3. PICK n, P : n = Len(s) + 1 /\ P = {i \in 1 .. n : f[i] # <<>> => g[i] = f[i]}
  OBVIOUS
<1>4. n \in Nat /\ 1 \in 1 .. n
  BY <1>3, TextIs
<1>5. ASSUME NEW i \in 1 .. n, \A j \in i + 1 .. n : j \in P PROVE i \in P
  <2>1. f[i] = TokensAt(f, s, i, BundledEscapes) /\ g[i] = TokensAt(g, s, i, Escapes)
    BY <1>1, <1>2, <1>3 DEF Lexed
  <2>2. CASE i > Len(s)
    BY <1>3, <2>1, <2>2 DEF TokensAt
  <2>3. CASE ~(i > Len(s))
    <3>1. SUFFICES ASSUME f[i] # <<>> PROVE g[i] = f[i]
      BY <1>3
    <3>2. PICK r : r = TokenAt(s, i, BundledEscapes)
      OBVIOUS
    <3>3. i \in 1 .. Len(s)
      BY <1>3, <2>3, TextIs
    <3>4. r # Failed /\ f[r.at] # <<>> /\ f[i] = r.tokens \o f[r.at]
      BY <2>1, <2>3, <3>1, <3>2 DEF TokensAt
    <3>5. StepIs(r, i, Len(s))
      BY <3>2, <3>3, TokenAtIs DEF EscapeSets
    <3>6. g[r.at] = f[r.at]
      BY <1>3, <1>5, <3>4, <3>5 DEF StepIs
    <3>7. TokenAt(s, i, Escapes) = r
      BY <3>2, <3>3, <3>4, TokenAlike
    <3> QED
      BY <2>1, <2>3, <3>4, <3>6, <3>7 DEF TokensAt
  <2> QED
    BY <2>2, <2>3
<1>6. \A i \in 1 .. n : i \in P
  BY <1>4, <1>5, Down
<1> QED
  BY <1>1, <1>2, <1>3, <1>4, <1>6

\* What the copy reads without an error the package reads alike (structure.mjs, index.ts).
THEOREM CopyReadsAlike ==
  ASSUME NEW s \in Texts, Parse(s, BundledEscapes) # NoDocument
  PROVE  Parse(s, Escapes) = Parse(s, BundledEscapes)
<1>1. Len(<<>>) = 0
  OBVIOUS
<1>2. Document(<<>>) = NoDocument
  BY <1>1 DEF Document
<1>3. Tokenize(s, BundledEscapes) # <<>>
  BY <1>2 DEF Parse
<1> QED
  BY <1>3, TokensAlike DEF Parse

-----------------------------------------------------------------------------
(* What is read.                                                           *)

\* Values and entries.
Plain(kind, value) == [kind |-> kind, is |-> value]
ListOf(items) == [kind |-> "list", items |-> items]
CallOf(name, items, chain) == [kind |-> "call", name |-> name, items |-> items, chain |-> chain]
Segment(name, args) == [name |-> name, args |-> args]
ImportOf(value, name) == [kind |-> "use", value |-> value, name |-> name]
AssignOf(name, value) == [kind |-> "assignment", name |-> name, value |-> value]
BlockOf(name, label, entries) ==
  [kind |-> "block", name |-> name, label |-> label, entries |-> entries]
Labels(ts, i) == IF ts[i + 1].type = "string" THEN <<ts[i + 1].text>> ELSE <<>>

\* How a value starts says what it is.
True == <<"t">>
ValueGoes(read, ts, i) ==
  /\ ts[i].type = "string" =>
       Value(read, ts, i) = Thing(i + 1, Plain("string", ts[i].text), {})
  /\ ts[i].type = "number" =>
       Value(read, ts, i) = Thing(i + 1, Plain("number", NumberOf(ts[i].text)), {})
  /\ ts[i].type = "[" =>
       LET list == read[i + 1]["]"]
       IN Value(read, ts, i) = IF list = Failed THEN Failed
                               ELSE Thing(list.at, ListOf(list.items), list.parts)
  /\ ts[i].type = "ident" /\ ts[i].text = True =>
       Value(read, ts, i) = Thing(i + 1, Plain("boolean", ts[i].text), {})
  /\ ts[i].type = "ident" /\ ts[i].text # True /\ ts[i + 1].type # "(" =>
       Value(read, ts, i) = Thing(i + 1, Plain("token", ts[i].text), {})
  /\ ts[i].type = "ident" /\ ts[i].text # True /\ ts[i + 1].type = "(" =>
       LET args == read[i + 2][")"]
           chain == read[args.at]["chain"]
       IN Value(read, ts, i) = IF args = Failed \/ chain = Failed THEN Failed
                               ELSE Thing(chain.at, CallOf(ts[i].text, args.items, chain.items),
                                          args.parts \cup chain.parts)
  /\ ts[i].type \notin {"string", "number", "[", "ident"} => Value(read, ts, i) = Failed
LEMMA ValueIs == ASSUME NEW read, NEW ts, NEW i PROVE ValueGoes(read, ts, i)
<1> USE DEF Value, Plain, ListOf, CallOf, True
<1>1. ts[i].type = "string" => Value(read, ts, i) = Thing(i + 1, Plain("string", ts[i].text), {})
  OBVIOUS
<1>2. ts[i].type = "number" =>
        Value(read, ts, i) = Thing(i + 1, Plain("number", NumberOf(ts[i].text)), {})
  OBVIOUS
<1>3. ts[i].type = "[" =>
        LET list == read[i + 1]["]"]
        IN Value(read, ts, i) = IF list = Failed THEN Failed
                                ELSE Thing(list.at, ListOf(list.items), list.parts)
  OBVIOUS
<1>4. ts[i].type = "ident" /\ ts[i].text = True =>
        Value(read, ts, i) = Thing(i + 1, Plain("boolean", ts[i].text), {})
  OBVIOUS
<1>5. ts[i].type = "ident" /\ ts[i].text # True /\ ts[i + 1].type # "(" =>
        Value(read, ts, i) = Thing(i + 1, Plain("token", ts[i].text), {})
  OBVIOUS
<1>6. ts[i].type = "ident" /\ ts[i].text # True /\ ts[i + 1].type = "(" =>
        LET args == read[i + 2][")"]
            chain == read[args.at]["chain"]
        IN Value(read, ts, i) = IF args = Failed \/ chain = Failed THEN Failed
                                ELSE Thing(chain.at, CallOf(ts[i].text, args.items, chain.items),
                                           args.parts \cup chain.parts)
  OBVIOUS
<1>7. ts[i].type \notin {"string", "number", "[", "ident"} => Value(read, ts, i) = Failed
  OBVIOUS
<1> QED
  BY <1>1, <1>2, <1>3, <1>4, <1>5, <1>6, <1>7 DEF ValueGoes

\* How an entry goes on says what it is.
EntryGoes(read, ts, i) ==
  /\ ts[i].type # "ident" => Entry(read, ts, i) = Failed
  /\ ts[i].type = "ident" /\ ts[i].text = <<"u">> /\ ts[i + 1].type = "ident" =>
       LET src == Value(read, ts, i + 1)
       IN Entry(read, ts, i) =
            IF \/ src = Failed \/ ts[src.at] # Token("ident", <<"s">>)
               \/ ts[src.at + 1].type # "ident" THEN Failed
            ELSE Thing(src.at + 2, ImportOf(src.value, ts[src.at + 1].text),
                       src.parts)
  /\ ts[i].type = "ident" /\ ts[i + 1].type = "=" =>
       LET v == Value(read, ts, i + 2)
       IN Entry(read, ts, i) = IF v = Failed THEN Failed
                               ELSE Thing(v.at, AssignOf(ts[i].text, v.value), v.parts)
  /\ ts[i].type = "ident" /\ ts[i + 1].type # "="
     /\ ~(ts[i].text = <<"u">> /\ ts[i + 1].type = "ident") =>
       LET open == i + 1 + Len(Labels(ts, i))
           entries == read[open + 1]["}"]
       IN Entry(read, ts, i) =
            IF ts[open].type # "{" \/ entries = Failed THEN Failed
            ELSE Thing(entries.at, BlockOf(ts[i].text, Labels(ts, i), entries.items),
                       entries.parts)
LEMMA EntryIs == ASSUME NEW read, NEW ts, NEW i PROVE EntryGoes(read, ts, i)
<1> USE DEF Entry, ImportOf, AssignOf, BlockOf, Labels
<1>1. ts[i].type # "ident" => Entry(read, ts, i) = Failed
  OBVIOUS
<1>2. ts[i].type = "ident" /\ ts[i].text = <<"u">> /\ ts[i + 1].type = "ident" =>
        LET src == Value(read, ts, i + 1)
        IN Entry(read, ts, i) =
             IF \/ src = Failed \/ ts[src.at] # Token("ident", <<"s">>)
                \/ ts[src.at + 1].type # "ident" THEN Failed
             ELSE Thing(src.at + 2, ImportOf(src.value, ts[src.at + 1].text), src.parts)
  OBVIOUS
<1>3. ts[i].type = "ident" /\ ts[i + 1].type = "=" =>
        LET v == Value(read, ts, i + 2)
        IN Entry(read, ts, i) = IF v = Failed THEN Failed
                                ELSE Thing(v.at, AssignOf(ts[i].text, v.value), v.parts)
  OBVIOUS
<1>4. ts[i].type = "ident" /\ ts[i + 1].type # "="
      /\ ~(ts[i].text = <<"u">> /\ ts[i + 1].type = "ident") =>
        LET open == i + 1 + Len(Labels(ts, i))
            entries == read[open + 1]["}"]
        IN Entry(read, ts, i) =
             IF ts[open].type # "{" \/ entries = Failed THEN Failed
             ELSE Thing(entries.at, BlockOf(ts[i].text, Labels(ts, i), entries.items), entries.parts)
  OBVIOUS
<1> QED
  BY <1>1, <1>2, <1>3, <1>4 DEF EntryGoes

\* Where what is read ends: a value or an entry before the end of the file, and so what a rule
\* reads, but for the document itself.
ReadThing(r, i, n) ==
  \/ r = Failed
  \/ r = [at |-> r.at, value |-> r.value, parts |-> r.parts] /\ r.at \in i + 1 .. n
ReadItems(r, i, n, rule) ==
  \/ r = Failed
  \/ /\ r = [at |-> r.at, items |-> r.items, parts |-> r.parts]
     /\ r.at \in i .. n + 1 /\ (rule # "eof" => r.at <= n) /\ (rule # "chain" => r.at > i)
Ranged(row, j, n) == \A rule \in Rules : ReadItems(row[rule], j, n, rule)
LEMMA ThingIs ==
  ASSUME NEW i, NEW n, NEW at \in i + 1 .. n, NEW value, NEW parts
  PROVE  ReadThing(Thing(at, value, parts), i, n)
BY DEF Thing, ReadThing

\* Behind a token that is not the end of the file there is another.
LEMMA NextToken ==
  ASSUME NEW ts, WellMade(ts), NEW i \in 1 .. Len(ts), ts[i].type # "eof"
  PROVE  i + 1 \in 1 .. Len(ts) /\ Len(ts) \in Nat
<1>1. Len(ts) \in Nat /\ i # Len(ts)
  BY DEF WellMade
<1> QED
  BY <1>1

\* A value ends before the end of the file, and hangs on what is read behind its first token.
LEMMA ValueRange ==
  ASSUME NEW ts, WellMade(ts), NEW i \in 1 .. Len(ts), NEW f, NEW g,
         \A j \in i + 1 .. Len(ts) : f[j] = g[j] /\ Ranged(f[j], j, Len(ts))
  PROVE  Value(f, ts, i) = Value(g, ts, i) /\ ReadThing(Value(f, ts, i), i, Len(ts))
<1>1. PICK n : n = Len(ts)
  OBVIOUS
<1>2. n \in Nat /\ i \in 1 .. n
  BY <1>1 DEF WellMade
<1>0. ValueGoes(f, ts, i) /\ ValueGoes(g, ts, i)
  BY ValueIs
<1>3. CASE ts[i].type \notin {"string", "number", "[", "ident"}
  <2>1. Value(f, ts, i) = Failed /\ Value(g, ts, i) = Failed
    BY <1>0, <1>3 DEF ValueGoes
  <2> QED
    BY <2>1 DEF ReadThing
<1>4. CASE ts[i].type \in {"string", "number", "[", "ident"}
  <2>1. i + 1 \in 1 .. n /\ i + 1 \in i + 1 .. n
    <3>1. ts[i].type # "eof"
      BY <1>4
    <3> QED
      BY <1>1, <1>2, <3>1, NextToken
  <2>2. CASE ts[i].type = "string"
    <3>1. PICK v : v = Value(f, ts, i)
      OBVIOUS
    <3>2. Value(g, ts, i) = v /\ \E x : v = Thing(i + 1, x, {})
      BY <1>0, <2>2, <3>1 DEF ValueGoes
    <3>3. ReadThing(v, i, n)
      BY <2>1, <3>2, ThingIs
    <3> QED
      BY <1>1, <3>1, <3>2, <3>3
  <2>3. CASE ts[i].type = "number"
    <3>1. PICK v : v = Value(f, ts, i)
      OBVIOUS
    <3>2. Value(g, ts, i) = v /\ \E x : v = Thing(i + 1, x, {})
      BY <1>0, <2>3, <3>1 DEF ValueGoes
    <3>3. ReadThing(v, i, n)
      BY <2>1, <3>2, ThingIs
    <3> QED
      BY <1>1, <3>1, <3>2, <3>3
  <2>4. CASE ts[i].type = "["
    <3>1. PICK list : list = f[i + 1]["]"]
      OBVIOUS
    <3>2. list = g[i + 1]["]"] /\ ReadItems(list, i + 1, n, "]")
      BY <1>1, <2>1, <3>1 DEF Ranged, Rules
    <3>3. /\ Value(f, ts, i) = IF list = Failed THEN Failed ELSE Thing(list.at, ListOf(list.items), list.parts)
          /\ Value(g, ts, i) = IF list = Failed THEN Failed ELSE Thing(list.at, ListOf(list.items), list.parts)
      BY <1>0, <2>4, <3>1, <3>2 DEF ValueGoes
    <3>4. list # Failed => list.at \in i + 1 .. n
      BY <1>2, <3>2 DEF ReadItems
    <3> QED
      BY <1>1, <3>3, <3>4, ThingIs DEF ReadThing
  <2>5. CASE ts[i].type = "ident" /\ ts[i].text = True
    <3>1. PICK v : v = Value(f, ts, i)
      OBVIOUS
    <3>2. Value(g, ts, i) = v /\ \E x : v = Thing(i + 1, x, {})
      BY <1>0, <2>5, <3>1 DEF ValueGoes
    <3>3. ReadThing(v, i, n)
      BY <2>1, <3>2, ThingIs
    <3> QED
      BY <1>1, <3>1, <3>2, <3>3
  <2>6. CASE ts[i].type = "ident" /\ ts[i].text # True /\ ts[i + 1].type # "("
    <3>1. PICK v : v = Value(f, ts, i)
      OBVIOUS
    <3>2. Value(g, ts, i) = v /\ \E x : v = Thing(i + 1, x, {})
      BY <1>0, <2>6, <3>1 DEF ValueGoes
    <3>3. ReadThing(v, i, n)
      BY <2>1, <3>2, ThingIs
    <3> QED
      BY <1>1, <3>1, <3>2, <3>3
  <2>7. CASE ts[i].type = "ident" /\ ts[i].text # True /\ ts[i + 1].type = "("
    <3>1. i + 2 \in i + 1 .. n
      <4>1. ts[i + 1].type # "eof"
        BY <2>7
      <4>2. (i + 1) + 1 \in 1 .. n
        BY <1>1, <2>1, <4>1, NextToken
      <4> QED
        BY <1>2, <4>2
    <3>2. PICK args : args = f[i + 2][")"]
      OBVIOUS
    <3>3. args = g[i + 2][")"] /\ ReadItems(args, i + 2, n, ")")
      BY <1>1, <3>1, <3>2 DEF Ranged, Rules
    <3>4. PICK chain, other : chain = f[args.at]["chain"] /\ other = g[args.at]["chain"]
      OBVIOUS
    <3>5. args # Failed => /\ args.at \in i + 1 .. n /\ other = chain
                           /\ ReadItems(chain, args.at, n, "chain")
      <4>1. SUFFICES ASSUME args # Failed PROVE args.at \in i + 1 .. n /\ other = chain
                                                /\ ReadItems(chain, args.at, n, "chain")
        OBVIOUS
      <4>2. args.at \in i + 2 .. n + 1 /\ args.at <= n
        BY <3>3, <4>1 DEF ReadItems
      <4>3. args.at \in i + 1 .. n
        BY <1>2, <4>2
      <4>4. f[args.at] = g[args.at] /\ Ranged(f[args.at], args.at, n)
        BY <1>1, <4>3
      <4> QED
        BY <3>4, <4>3, <4>4 DEF Ranged, Rules
    <3>6. /\ Value(f, ts, i) = IF args = Failed \/ chain = Failed THEN Failed
                               ELSE Thing(chain.at, CallOf(ts[i].text, args.items, chain.items),
                                          args.parts \cup chain.parts)
          /\ Value(g, ts, i) = IF args = Failed \/ other = Failed THEN Failed
                               ELSE Thing(other.at, CallOf(ts[i].text, args.items, other.items),
                                          args.parts \cup other.parts)
      BY <1>0, <2>7, <3>2, <3>3, <3>4 DEF ValueGoes
    <3>7. args # Failed /\ chain # Failed => chain.at \in i + 1 .. n
      BY <1>2, <3>5 DEF ReadItems
    <3>8. CASE args = Failed \/ chain = Failed
      BY <3>5, <3>6, <3>8 DEF ReadThing
    <3>9. CASE ~(args = Failed \/ chain = Failed)
      <4>1. PICK v : v = Thing(chain.at, CallOf(ts[i].text, args.items, chain.items),
                               args.parts \cup chain.parts)
        OBVIOUS
      <4>2. Value(f, ts, i) = v /\ Value(g, ts, i) = v
        BY <3>5, <3>6, <3>9, <4>1
      <4>3. ReadThing(v, i, n)
        BY <3>7, <3>9, <4>1, ThingIs
      <4> QED
        BY <1>1, <4>2, <4>3
    <3> QED
      BY <3>8, <3>9
  <2> QED
    BY <1>4, <2>2, <2>3, <2>4, <2>5, <2>6, <2>7
<1> QED
  BY <1>3, <1>4

\* So does an entry.
LEMMA EntryRange ==
  ASSUME NEW ts, WellMade(ts), NEW i \in 1 .. Len(ts), NEW f, NEW g,
         \A j \in i + 1 .. Len(ts) : f[j] = g[j] /\ Ranged(f[j], j, Len(ts))
  PROVE  Entry(f, ts, i) = Entry(g, ts, i) /\ ReadThing(Entry(f, ts, i), i, Len(ts))
<1>1. PICK n : n = Len(ts)
  OBVIOUS
<1>2. n \in Nat /\ i \in 1 .. n
  BY <1>1 DEF WellMade
<1>3. EntryGoes(f, ts, i) /\ EntryGoes(g, ts, i)
  BY EntryIs
<1>4. CASE ts[i].type # "ident"
  <2>1. Entry(f, ts, i) = Failed /\ Entry(g, ts, i) = Failed
    BY <1>3, <1>4 DEF EntryGoes
  <2> QED
    BY <2>1 DEF ReadThing
<1>5. CASE ts[i].type = "ident"
  <2>1. i + 1 \in 1 .. n /\ i + 1 \in i + 1 .. n
    <3>1. ts[i].type # "eof"
      BY <1>5
    <3> QED
      BY <1>1, <1>2, <3>1, NextToken
  <2>2. ASSUME NEW k \in i + 1 .. n
        PROVE  Value(f, ts, k) = Value(g, ts, k) /\ ReadThing(Value(f, ts, k), k, n)
    <3>1. k \in 1 .. Len(ts)
      BY <1>1, <1>2
    <3>2. \A j \in k + 1 .. Len(ts) : j \in i + 1 .. Len(ts)
      BY <1>2
    <3>3. \A j \in k + 1 .. Len(ts) : f[j] = g[j] /\ Ranged(f[j], j, Len(ts))
      BY <3>2
    <3>4. Value(f, ts, k) = Value(g, ts, k) /\ ReadThing(Value(f, ts, k), k, Len(ts))
      BY <3>1, <3>3, ValueRange
    <3> QED
      BY <1>1, <3>4
  <2>3. CASE ts[i].text = <<"u">> /\ ts[i + 1].type = "ident"
    <3>1. PICK v : v = Value(f, ts, i + 1)
      OBVIOUS
    <3>2. v = Value(g, ts, i + 1) /\ ReadThing(v, i + 1, n)
      BY <2>1, <2>2, <3>1
    <3>3. PICK bad, r : /\ bad = (\/ v = Failed \/ ts[v.at] # Token("ident", <<"s">>)
                                  \/ ts[v.at + 1].type # "ident")
                        /\ r = Thing(v.at + 2, ImportOf(v.value, ts[v.at + 1].text), v.parts)
      OBVIOUS
    <3>4. Entry(f, ts, i) = (IF bad THEN Failed ELSE r) /\ Entry(g, ts, i) = (IF bad THEN Failed ELSE r)
      BY <1>3, <1>5, <2>3, <3>1, <3>2, <3>3 DEF EntryGoes
    <3>5. ~bad => ReadThing(r, i, n)
      <4>1. SUFFICES ASSUME ~bad PROVE ReadThing(r, i, n)
        OBVIOUS
      <4>2. v.at \in i + 2 .. n
        BY <1>2, <3>2, <3>3, <4>1 DEF ReadThing
      <4>3. ts[v.at].type = "ident" /\ ts[v.at + 1].type = "ident"
        BY <3>3, <4>1 DEF Token
      <4>4. v.at + 1 \in 1 .. Len(ts)
        <5>1. v.at \in 1 .. Len(ts) /\ ts[v.at].type # "eof"
          BY <1>1, <1>2, <4>2, <4>3
        <5> QED
          BY <5>1, NextToken
      <4>5. (v.at + 1) + 1 \in 1 .. Len(ts)
        <5>1. ts[v.at + 1].type # "eof"
          BY <4>3
        <5> QED
          BY <4>4, <5>1, NextToken
      <4>6. v.at + 2 \in i + 1 .. n
        BY <1>1, <1>2, <4>2, <4>5
      <4> QED
        BY <3>3, <4>6, ThingIs
    <3> QED
      BY <1>1, <3>4, <3>5 DEF ReadThing
  <2>4. CASE ts[i + 1].type = "="
    <3>1. i + 2 \in i + 1 .. n
      <4>1. ts[i + 1].type # "eof"
        BY <2>4
      <4>2. (i + 1) + 1 \in 1 .. n
        BY <1>1, <2>1, <4>1, NextToken
      <4> QED
        BY <1>2, <4>2
    <3>2. PICK v, r : v = Value(f, ts, i + 2) /\ r = Thing(v.at, AssignOf(ts[i].text, v.value), v.parts)
      OBVIOUS
    <3>3. v = Value(g, ts, i + 2) /\ ReadThing(v, i + 2, n)
      BY <2>2, <3>1, <3>2
    <3>4. /\ Entry(f, ts, i) = (IF v = Failed THEN Failed ELSE r)
          /\ Entry(g, ts, i) = (IF v = Failed THEN Failed ELSE r)
      BY <1>3, <1>5, <2>4, <3>2, <3>3 DEF EntryGoes
    <3>5. v # Failed => v.at \in i + 1 .. n
      BY <1>2, <3>3 DEF ReadThing
    <3>6. v # Failed => ReadThing(r, i, n)
      BY <3>2, <3>5, ThingIs
    <3> QED
      BY <1>1, <3>4, <3>6 DEF ReadThing
  <2>5. CASE ts[i + 1].type # "=" /\ ~(ts[i].text = <<"u">> /\ ts[i + 1].type = "ident")
    <3>1. PICK label, open : label = Labels(ts, i) /\ open = i + 1 + Len(label)
      OBVIOUS
    <3>2. open \in i + 1 .. n
      <4>1. CASE ts[i + 1].type = "string"
        <5>1. (i + 1) + 1 \in 1 .. n
          <6>1. ts[i + 1].type # "eof"
            BY <4>1
          <6> QED
            BY <1>1, <2>1, <6>1, NextToken
        <5>2. Len(label) = 1
          BY <3>1, <4>1 DEF Labels
        <5> QED
          BY <1>2, <3>1, <5>1, <5>2
      <4>2. CASE ts[i + 1].type # "string"
        <5>1. Len(label) = 0
          BY <3>1, <4>2 DEF Labels
        <5> QED
          BY <1>2, <2>1, <3>1, <5>1
      <4> QED
        BY <4>1, <4>2
    <3>3. PICK es, other, r : /\ es = f[open + 1]["}"] /\ other = g[open + 1]["}"]
                              /\ r = Thing(es.at, BlockOf(ts[i].text, label, es.items), es.parts)
      OBVIOUS
    <3>4. ts[open].type = "{" => /\ open + 1 \in i + 1 .. n /\ es = other
                                 /\ ReadItems(es, open + 1, n, "}")
      <4>1. SUFFICES ASSUME ts[open].type = "{"
                     PROVE  /\ open + 1 \in i + 1 .. n /\ es = other
                            /\ ReadItems(es, open + 1, n, "}")
        OBVIOUS
      <4>2. open \in 1 .. Len(ts) /\ ts[open].type # "eof"
        <5>1. open \in 1 .. n
          BY <1>2, <3>2
        <5>2. ts[open].type # "eof"
          BY <4>1
        <5> QED
          BY <1>1, <5>1, <5>2
      <4>3. open + 1 \in 1 .. n
        BY <1>1, <4>2, NextToken
      <4>4. open + 1 \in i + 1 .. n
        BY <1>2, <3>2, <4>3
      <4>5. f[open + 1] = g[open + 1] /\ Ranged(f[open + 1], open + 1, n)
        BY <1>1, <4>4
      <4> QED
        BY <3>3, <4>4, <4>5 DEF Ranged, Rules
    <3>5. /\ Entry(f, ts, i) = IF ts[open].type # "{" \/ es = Failed THEN Failed ELSE r
          /\ Entry(g, ts, i) =
               IF ts[open].type # "{" \/ other = Failed THEN Failed
               ELSE Thing(other.at, BlockOf(ts[i].text, label, other.items), other.parts)
      BY <1>3, <1>5, <2>5, <3>1, <3>3 DEF EntryGoes
    <3>6. ts[open].type = "{" /\ es # Failed => es.at \in i + 1 .. n
      <4>1. SUFFICES ASSUME ts[open].type = "{", es # Failed PROVE es.at \in i + 1 .. n
        OBVIOUS
      <4>2. es.at \in open + 1 .. n + 1 /\ es.at <= n
        BY <3>4, <4>1 DEF ReadItems
      <4> QED
        BY <1>2, <3>2, <4>2
    <3>7. ts[open].type = "{" /\ es # Failed => ReadThing(r, i, n)
      BY <3>3, <3>6, ThingIs
    <3>8. CASE ts[open].type # "{" \/ es = Failed
      BY <3>4, <3>5, <3>8 DEF ReadThing
    <3>9. CASE ~(ts[open].type # "{" \/ es = Failed)
      <4>1. Entry(f, ts, i) = r /\ Entry(g, ts, i) = r
        BY <3>3, <3>4, <3>5, <3>9
      <4> QED
        BY <1>1, <3>7, <3>9, <4>1
    <3> QED
      BY <3>8, <3>9
  <2> QED
    BY <2>3, <2>4, <2>5
<1> QED
  BY <1>4, <1>5

\* What the rules say of what is read at a place.
RowGoes(row, read, ts, i) ==
  /\ row["chain"] = Chain(read, ts, i)
  /\ \A close \in {")", "]"} : row[close] = Values(read, ts, i, close)
  /\ \A close \in {"}", "eof"} : row[close] = Entries(read, ts, i, close)
LEMMA RowIs == ASSUME NEW read, NEW ts, NEW i PROVE RowGoes(ReadAt(read, ts, i), read, ts, i)
<1>1. PICK row : row = ReadAt(read, ts, i)
  OBVIOUS
<1>2. row["chain"] = Chain(read, ts, i)
  BY <1>1 DEF ReadAt, Rules
<1>3. row[")"] = Values(read, ts, i, ")") /\ row["]"] = Values(read, ts, i, "]")
  BY <1>1 DEF ReadAt, Rules
<1>4. row["}"] = Entries(read, ts, i, "}") /\ row["eof"] = Entries(read, ts, i, "eof")
  BY <1>1 DEF ReadAt, Rules
<1> QED
  BY <1>1, <1>2, <1>3, <1>4 DEF RowGoes

\* What comes before others.
LEMMA BeforeIs ==
  ASSUME NEW i \in Nat, NEW n \in Nat, NEW k \in i + 1 .. n, NEW rest, NEW rule,
         ReadItems(rest, k, n, rule), rest # Failed, NEW item, NEW parts
  PROVE  ReadItems(Before(item, parts, rest), i, n, rule)
<1>1. rest.at \in k .. n + 1 /\ (rule # "eof" => rest.at <= n)
  BY DEF ReadItems
<1>2. rest.at \in i .. n + 1 /\ rest.at > i
  BY <1>1
<1> QED
  BY <1>1, <1>2 DEF Before, ReadItems
LEMMA NothingIs ==
  ASSUME NEW i \in Nat, NEW n \in Nat, NEW at \in i .. n + 1, NEW rule,
         rule # "eof" => at <= n, rule # "chain" => at > i
  PROVE  ReadItems(Nothing(at), i, n, rule)
BY DEF Nothing, ReadItems

\* Where the rules end, and what they hang on.
LEMMA ValuesRange ==
  ASSUME NEW ts, WellMade(ts), NEW i \in 1 .. Len(ts), NEW f, NEW g, NEW close \in {")", "]"},
         \A j \in i + 1 .. Len(ts) : f[j] = g[j] /\ Ranged(f[j], j, Len(ts))
  PROVE  /\ Values(f, ts, i, close) = Values(g, ts, i, close)
         /\ ReadItems(Values(f, ts, i, close), i, Len(ts), close)
<1>0. PICK v, k : v = Value(f, ts, i) /\ k = v.at + IF ts[v.at].type = "," THEN 1 ELSE 0
  OBVIOUS
<1>1. PICK n, rest, other : n = Len(ts) /\ rest = f[k][close] /\ other = g[k][close]
  OBVIOUS
<1>2. n \in Nat /\ i \in 1 .. n /\ i \in Nat
  BY <1>1 DEF WellMade
<1>10. close \in Rules /\ close # "eof" /\ close # "chain"
  BY DEF Rules
<1>3. v = Value(g, ts, i) /\ ReadThing(v, i, n)
  BY <1>0, <1>1, ValueRange
<1>4. /\ Values(f, ts, i, close) = IF ts[i].type = close THEN Nothing(i + 1)
                                   ELSE IF v = Failed \/ rest = Failed THEN Failed
                                   ELSE Before(v.value, v.parts, rest)
      /\ Values(g, ts, i, close) = IF ts[i].type = close THEN Nothing(i + 1)
                                   ELSE IF v = Failed \/ other = Failed THEN Failed
                                   ELSE Before(v.value, v.parts, other)
  BY <1>0, <1>1, <1>3 DEF Values
<1>5. CASE ts[i].type = close
  <2>1. i + 1 \in 1 .. Len(ts)
    <3>1. ts[i].type # "eof"
      BY <1>10, <1>5
    <3> QED
      BY <3>1, NextToken
  <2>2. i + 1 \in i .. n + 1 /\ i + 1 <= n /\ i + 1 > i
    BY <1>1, <1>2, <2>1
  <2>3. ReadItems(Nothing(i + 1), i, n, close)
    BY <1>2, <1>10, <2>2, NothingIs
  <2> QED
    BY <1>1, <1>4, <1>5, <2>3
<1>6. CASE ts[i].type # close /\ v = Failed
  BY <1>4, <1>6 DEF ReadItems
<1>7. CASE ts[i].type # close /\ v # Failed
  <2>1. v.at \in i + 1 .. n
    BY <1>3, <1>7 DEF ReadThing
  <2>2. k \in i + 1 .. n
    <3>1. CASE ts[v.at].type = ","
      <4>1. v.at \in 1 .. Len(ts)
        BY <1>1, <1>2, <2>1
      <4>2. ts[v.at].type # "eof"
        BY <3>1
      <4>3. v.at + 1 \in 1 .. n
        BY <1>1, <4>1, <4>2, NextToken
      <4>4. k = v.at + 1
        BY <1>0, <3>1
      <4> QED
        BY <1>2, <2>1, <4>3, <4>4
    <3>2. CASE ts[v.at].type # ","
      <4>1. k = v.at
        <5>1. k = v.at + 0
          BY <1>0, <3>2
        <5> QED
          BY <1>2, <2>1, <5>1
      <4> QED
        BY <2>1, <4>1
    <3> QED
      BY <3>1, <3>2
  <2>3. f[k] = g[k] /\ Ranged(f[k], k, n)
    BY <1>1, <2>2
  <2>4. rest = other /\ ReadItems(rest, k, n, close)
    BY <1>1, <1>10, <2>3 DEF Ranged
  <2>5. CASE rest = Failed
    BY <1>4, <1>7, <2>4, <2>5 DEF ReadItems
  <2>6. CASE rest # Failed
    <3>1. PICK r : r = Before(v.value, v.parts, rest)
      OBVIOUS
    <3>2. ReadItems(r, i, n, close)
      BY <1>2, <2>2, <2>4, <2>6, <3>1, BeforeIs
    <3>3. Values(f, ts, i, close) = r /\ Values(g, ts, i, close) = r
      BY <1>4, <1>7, <2>4, <2>6, <3>1
    <3> QED
      BY <1>1, <3>2, <3>3
  <2> QED
    BY <2>5, <2>6
<1> QED
  BY <1>5, <1>6, <1>7

Ending == {"}", "eof"}
LEMMA EntriesRange ==
  ASSUME NEW ts, WellMade(ts), NEW i \in 1 .. Len(ts), NEW f, NEW g, NEW close \in Ending,
         \A j \in i + 1 .. Len(ts) : f[j] = g[j] /\ Ranged(f[j], j, Len(ts))
  PROVE  /\ Entries(f, ts, i, close) = Entries(g, ts, i, close)
         /\ ReadItems(Entries(f, ts, i, close), i, Len(ts), close)
<1>0. PICK v : v = Entry(f, ts, i)
  OBVIOUS
<1>1. PICK n, rest, other : n = Len(ts) /\ rest = f[v.at][close] /\ other = g[v.at][close]
  OBVIOUS
<1>2. n \in Nat /\ i \in 1 .. n /\ i \in Nat
  BY <1>1 DEF WellMade
<1>10. close \in Rules /\ close # "chain"
  BY DEF Rules, Ending
<1>3. v = Entry(g, ts, i) /\ ReadThing(v, i, n)
  BY <1>0, <1>1, EntryRange
<1>4. /\ Entries(f, ts, i, close) = IF ts[i].type = close THEN Nothing(i + 1)
                                    ELSE IF v = Failed \/ rest = Failed THEN Failed
                                    ELSE Before(v.value, v.parts, rest)
      /\ Entries(g, ts, i, close) = IF ts[i].type = close THEN Nothing(i + 1)
                                    ELSE IF v = Failed \/ other = Failed THEN Failed
                                    ELSE Before(v.value, v.parts, other)
  BY <1>0, <1>1, <1>3 DEF Entries
<1>5. CASE ts[i].type = close
  <2>1. close # "eof" => i + 1 \in 1 .. Len(ts)
    BY <1>5, NextToken
  <2>2. i + 1 \in i .. n + 1 /\ (close # "eof" => i + 1 <= n) /\ i + 1 > i
    <3>1. i + 1 \in 1 .. Len(ts) => i + 1 <= n
      BY <1>1, <1>2
    <3>2. i + 1 \in i .. n + 1 /\ i + 1 > i
      BY <1>2
    <3> QED
      BY <2>1, <3>1, <3>2
  <2>3. ReadItems(Nothing(i + 1), i, n, close)
    BY <1>2, <1>10, <2>2, NothingIs
  <2> QED
    BY <1>1, <1>4, <1>5, <2>3
<1>6. CASE ts[i].type # close /\ v = Failed
  BY <1>4, <1>6 DEF ReadItems
<1>7. CASE ts[i].type # close /\ v # Failed
  <2>2. v.at \in i + 1 .. n
    BY <1>3, <1>7 DEF ReadThing
  <2>3. f[v.at] = g[v.at] /\ Ranged(f[v.at], v.at, n)
    BY <1>1, <2>2
  <2>4. rest = other /\ ReadItems(rest, v.at, n, close)
    BY <1>1, <1>10, <2>3 DEF Ranged
  <2>5. CASE rest = Failed
    BY <1>4, <1>7, <2>4, <2>5 DEF ReadItems
  <2>6. CASE rest # Failed
    <3>1. PICK r : r = Before(v.value, v.parts, rest)
      OBVIOUS
    <3>2. ReadItems(r, i, n, close)
      BY <1>2, <2>2, <2>4, <2>6, <3>1, BeforeIs
    <3>3. Entries(f, ts, i, close) = r /\ Entries(g, ts, i, close) = r
      BY <1>4, <1>7, <2>4, <2>6, <3>1
    <3> QED
      BY <1>1, <3>2, <3>3
  <2> QED
    BY <2>5, <2>6
<1> QED
  BY <1>5, <1>6, <1>7

LEMMA ChainRange ==
  ASSUME NEW ts, WellMade(ts), NEW i \in 1 .. Len(ts), NEW f, NEW g,
         \A j \in i + 1 .. Len(ts) : f[j] = g[j] /\ Ranged(f[j], j, Len(ts))
  PROVE  /\ Chain(f, ts, i) = Chain(g, ts, i)
         /\ ReadItems(Chain(f, ts, i), i, Len(ts), "chain")
<1>1. PICK n, args, brgs, rest, other, call, dall :
        /\ n = Len(ts) /\ args = f[i + 3][")"] /\ brgs = g[i + 3][")"]
        /\ rest = f[args.at]["chain"] /\ other = g[brgs.at]["chain"]
        /\ call = [name |-> ts[i + 1].text, args |-> args.items]
        /\ dall = [name |-> ts[i + 1].text, args |-> brgs.items]
  OBVIOUS
<1>2. n \in Nat /\ i \in 1 .. n /\ i \in Nat
  BY <1>1 DEF WellMade
<1>3. /\ Chain(f, ts, i) = IF ts[i].type # "." THEN Nothing(i)
                           ELSE IF \/ ts[i + 1].type # "ident" \/ ts[i + 2].type # "("
                                   \/ args = Failed \/ rest = Failed THEN Failed
                           ELSE Before(call, args.parts, rest)
      /\ Chain(g, ts, i) = IF ts[i].type # "." THEN Nothing(i)
                           ELSE IF \/ ts[i + 1].type # "ident" \/ ts[i + 2].type # "("
                                   \/ brgs = Failed \/ other = Failed THEN Failed
                           ELSE Before(dall, brgs.parts, other)
  BY <1>1 DEF Chain
<1>4. CASE ts[i].type # "."
  <2>1. i \in i .. n + 1 /\ i <= n
    BY <1>2
  <2>2. ReadItems(Nothing(i), i, n, "chain")
    BY <1>2, <2>1, NothingIs
  <2> QED
    BY <1>1, <1>3, <1>4, <2>2
<1>5. CASE ts[i].type = "." /\ (ts[i + 1].type # "ident" \/ ts[i + 2].type # "(")
  BY <1>3, <1>5 DEF ReadItems
<1>6. CASE ts[i].type = "." /\ ts[i + 1].type = "ident" /\ ts[i + 2].type = "("
  <2>1. ts[i].type # "eof" /\ ts[i + 1].type # "eof" /\ ts[i + 2].type # "eof"
    BY <1>6
  <2>2. i + 1 \in 1 .. Len(ts)
    BY <2>1, NextToken
  <2>3. (i + 1) + 1 \in 1 .. Len(ts)
    BY <2>1, <2>2, NextToken
  <2>4. i + 2 \in 1 .. Len(ts) /\ i + 2 = (i + 1) + 1
    BY <1>2, <2>3
  <2>5. (i + 2) + 1 \in 1 .. Len(ts)
    BY <2>1, <2>4, NextToken
  <2>6. i + 3 \in i + 1 .. n
    BY <1>1, <1>2, <2>5
  <2>7. f[i + 3] = g[i + 3] /\ Ranged(f[i + 3], i + 3, n)
    BY <1>1, <2>6
  <2>8. args = brgs /\ ReadItems(args, i + 3, n, ")") /\ call = dall
    BY <1>1, <2>7 DEF Ranged, Rules
  <2>9. CASE args = Failed
    BY <1>3, <1>6, <2>8, <2>9 DEF ReadItems
  <2>10. CASE args # Failed
    <3>1. args.at \in i + 3 .. n + 1 /\ args.at <= n
      BY <2>8, <2>10 DEF ReadItems
    <3>2. args.at \in i + 1 .. n
      BY <1>2, <3>1
    <3>3. f[args.at] = g[args.at] /\ Ranged(f[args.at], args.at, n)
      BY <1>1, <3>2
    <3>4. rest = other /\ ReadItems(rest, args.at, n, "chain")
      BY <1>1, <2>8, <3>3 DEF Ranged, Rules
    <3>5. CASE rest = Failed
      BY <1>3, <1>6, <2>8, <3>4, <3>5 DEF ReadItems
    <3>6. CASE rest # Failed
      <4>1. PICK r : r = Before(call, args.parts, rest)
        OBVIOUS
      <4>2. ReadItems(r, i, n, "chain")
        BY <1>2, <3>2, <3>4, <3>6, <4>1, BeforeIs
      <4>3. Chain(f, ts, i) = r /\ Chain(g, ts, i) = r
        BY <1>3, <1>6, <2>8, <2>10, <3>4, <3>6, <4>1
      <4> QED
        BY <1>1, <4>2, <4>3
    <3> QED
      BY <3>5, <3>6
  <2> QED
    BY <2>9, <2>10
<1> QED
  BY <1>4, <1>5, <1>6

\* What is read at a place is what the rules read there.
LEMMA RowsAlike ==
  ASSUME NEW ts, NEW i, NEW f, NEW g, Chain(f, ts, i) = Chain(g, ts, i),
         \A close \in {")", "]"} : Values(f, ts, i, close) = Values(g, ts, i, close),
         \A close \in {"}", "eof"} : Entries(f, ts, i, close) = Entries(g, ts, i, close)
  PROVE  ReadAt(f, ts, i) = ReadAt(g, ts, i)
<1>1. ASSUME NEW rule \in Rules
      PROVE  (IF rule = "chain" THEN Chain(f, ts, i)
              ELSE IF rule \in {")", "]"} THEN Values(f, ts, i, rule) ELSE Entries(f, ts, i, rule))
             = (IF rule = "chain" THEN Chain(g, ts, i)
                ELSE IF rule \in {")", "]"} THEN Values(g, ts, i, rule) ELSE Entries(g, ts, i, rule))
  BY DEF Rules
<1> QED
  BY <1>1, Zenon DEF ReadAt

\* What is read at a place hangs on what is read behind it.
LEMMA RowRange ==
  ASSUME NEW ts, WellMade(ts), NEW i \in 1 .. Len(ts), NEW f, NEW g,
         \A j \in i + 1 .. Len(ts) : f[j] = g[j] /\ Ranged(f[j], j, Len(ts))
  PROVE  ReadAt(f, ts, i) = ReadAt(g, ts, i) /\ Ranged(ReadAt(f, ts, i), i, Len(ts))
<1>1. PICK a, b, n : a = ReadAt(f, ts, i) /\ b = ReadAt(g, ts, i) /\ n = Len(ts)
  OBVIOUS
<1>2. RowGoes(a, f, ts, i) /\ RowGoes(b, g, ts, i)
  BY <1>1, RowIs
<1>3. a["chain"] = b["chain"] /\ ReadItems(a["chain"], i, n, "chain")
  BY <1>1, <1>2, ChainRange DEF RowGoes
<1>4. ASSUME NEW close \in {")", "]"} PROVE a[close] = b[close] /\ ReadItems(a[close], i, n, close)
  <2>1. /\ Values(f, ts, i, close) = Values(g, ts, i, close)
        /\ ReadItems(Values(f, ts, i, close), i, Len(ts), close)
    BY <1>4, ValuesRange
  <2>2. a[close] = Values(f, ts, i, close) /\ b[close] = Values(g, ts, i, close)
    BY <1>2, <1>4 DEF RowGoes
  <2> QED
    BY <1>1, <2>1, <2>2
<1>5. ASSUME NEW close \in Ending PROVE a[close] = b[close] /\ ReadItems(a[close], i, n, close)
  <2>1. /\ Entries(f, ts, i, close) = Entries(g, ts, i, close)
        /\ ReadItems(Entries(f, ts, i, close), i, Len(ts), close)
    BY <1>5, EntriesRange
  <2>2. a[close] = Entries(f, ts, i, close) /\ b[close] = Entries(g, ts, i, close)
    BY <1>2, <1>5 DEF RowGoes, Ending
  <2> QED
    BY <1>1, <2>1, <2>2
<1>6. ASSUME NEW rule \in Rules PROVE a[rule] = b[rule] /\ ReadItems(a[rule], i, n, rule)
  <2>1. rule = "chain" \/ rule \in {")", "]"} \/ rule \in Ending
    BY DEF Rules, Ending
  <2> QED
    BY <1>3, <1>4, <1>5, <2>1
<1>7. /\ Chain(f, ts, i) = Chain(g, ts, i)
      /\ \A close \in {")", "]"} : Values(f, ts, i, close) = Values(g, ts, i, close)
      /\ \A close \in {"}", "eof"} : Entries(f, ts, i, close) = Entries(g, ts, i, close)
  BY <1>2, <1>3, <1>4, <1>5 DEF RowGoes, Ending
<1>8. a = b
  BY <1>1, <1>7, RowsAlike
<1> QED
  BY <1>1, <1>6, <1>8 DEF Ranged


-----------------------------------------------------------------------------
(* What is read at all places.                                             *)

Reading(read, ts) ==
  /\ read = [i \in DOMAIN ts |-> ReadAt(read, ts, i)]
  /\ \A i \in 1 .. Len(ts) : Ranged(read[i], i, Len(ts)) /\ RowGoes(read[i], read, ts, i)

\* There is such a reading, place by place from behind.
LEMMA ReadsAre ==
  ASSUME NEW ts, WellMade(ts)
  PROVE  Reading(Reads(ts), ts)
<1>1. PICK n : n = Len(ts)
  OBVIOUS
<1>2. n \in Nat /\ DOMAIN ts = 1 .. n
  BY <1>1 DEF WellMade
<1> DEFINE Good(f, b) == f = [i \in 1 .. n |-> f[i]]
                         /\ \A i \in 1 .. n : i > n - b => f[i] = ReadAt(f, ts, i) /\ Ranged(f[i], i, n)
           P == {b \in Nat : b <= n => \E f : Good(f, b)}
<1>3. 0 \in P
  <2>1. Good([i \in 1 .. n |-> i], 0)
    BY <1>2
  <2> QED
    BY <2>1
<1>4. ASSUME NEW b \in Nat, b \in P PROVE b + 1 \in P
  <2>1. SUFFICES ASSUME b + 1 <= n PROVE \E f : Good(f, b + 1)
    OBVIOUS
  <2>2. PICK f : Good(f, b)
    BY <1>2, <1>4, <2>1
  <2>3. PICK m : m = n - b
    OBVIOUS
  <2>4. m \in 1 .. n
    BY <1>2, <2>1, <2>3
  <2>5. PICK g : g = [i \in 1 .. n |-> IF i = m THEN ReadAt(f, ts, m) ELSE f[i]]
    OBVIOUS
  <2>6. ASSUME NEW i \in 1 .. n, i >= m
        PROVE  ReadAt(f, ts, i) = ReadAt(g, ts, i) /\ Ranged(ReadAt(f, ts, i), i, n)
    <3>1. \A j \in i + 1 .. n : j \in 1 .. n /\ j # m /\ j > n - b
      BY <1>2, <2>3, <2>4, <2>6
    <3>2. \A j \in i + 1 .. n : f[j] = g[j] /\ Ranged(f[j], j, n)
      BY <2>2, <2>5, <3>1
    <3> QED
      BY <1>1, <3>2, RowRange
  <2>7. ASSUME NEW i \in 1 .. n, i > n - (b + 1) PROVE g[i] = ReadAt(g, ts, i) /\ Ranged(g[i], i, n)
    <3>1. i >= m
      BY <1>2, <2>3, <2>7
    <3>2. CASE i = m
      BY <2>4, <2>5, <2>6, <3>1, <3>2
    <3>3. CASE i # m
      <4>1. i > n - b
        BY <1>2, <2>3, <3>1, <3>3
      <4>2. g[i] = f[i] /\ f[i] = ReadAt(f, ts, i)
        BY <2>2, <2>5, <3>3, <4>1
      <4> QED
        BY <2>6, <3>1, <4>2
    <3> QED
      BY <3>2, <3>3
  <2>8. Good(g, b + 1)
    BY <2>5, <2>7
  <2> QED
    BY <2>8
<1> HIDE DEF P
<1>5. n \in P
  BY <1>2, <1>3, <1>4, Induct
<1>6. PICK f : Good(f, n)
  BY <1>2, <1>5 DEF P
<1>7. \A i \in 1 .. n : f[i] = ReadAt(f, ts, i)
  <2>1. \A i \in 1 .. n : i > n - n
    BY <1>2
  <2> QED
    BY <1>6, <2>1
<1>8. f = [i \in 1 .. n |-> f[i]]
  BY <1>6
<1>9. f = [i \in DOMAIN ts |-> ReadAt(f, ts, i)]
  BY <1>2, <1>7, <1>8
<1>10. PICK read : read = Reads(ts)
  OBVIOUS
<1>11. read = [i \in DOMAIN ts |-> ReadAt(read, ts, i)]
  BY <1>9, <1>10 DEF Reads
<1>12. PICK Q : Q = {i \in 1 .. n : Ranged(read[i], i, n)}
  OBVIOUS
<1>13. ASSUME NEW i \in 1 .. n, \A j \in i + 1 .. n : j \in Q PROVE i \in Q
  <2>1. \A j \in i + 1 .. n : read[j] = read[j] /\ Ranged(read[j], j, n)
    BY <1>12, <1>13
  <2>2. Ranged(ReadAt(read, ts, i), i, n)
    BY <1>1, <2>1, RowRange
  <2>3. read[i] = ReadAt(read, ts, i)
    BY <1>2, <1>11
  <2> QED
    BY <1>12, <2>2, <2>3
<1>14. \A i \in 1 .. n : i \in Q
  BY <1>2, <1>13, Down
<1>15. \A i \in 1 .. n : RowGoes(read[i], read, ts, i)
  BY <1>2, <1>11, RowIs
<1> QED
  BY <1>1, <1>10, <1>11, <1>12, <1>14, <1>15 DEF Reading

-----------------------------------------------------------------------------
(* Texts, one behind the other.                                            *)

\* The sums of several texts, from the first on.
Sums(parts, f) == f = [i \in 1 .. Len(parts) |-> IF i = 1 THEN parts[i] ELSE f[i - 1] \o parts[i]]
LEMMA SumsAre ==
  ASSUME NEW parts \in Seq(Texts), Len(parts) > 0
  PROVE  \E f : /\ Sums(parts, f) /\ FlattenSeq(parts) = f[Len(parts)]
                /\ \A i \in 1 .. Len(parts) : f[i] \in Texts
<1>1. PICK n : n = Len(parts)
  OBVIOUS
<1>2. n \in Nat /\ n > 0 /\ \A i \in 1 .. n : parts[i] \in Texts
  BY <1>1
<1> DEFINE Next1(f, i) == IF i = 1 THEN parts[i] ELSE f[i - 1] \o parts[i]
           Good(f, b) == f = [i \in 1 .. n |-> f[i]]
                         /\ \A i \in 1 .. n : i <= b => f[i] = Next1(f, i)
           P == {b \in Nat : b <= n => \E f : Good(f, b)}
<1>3. 0 \in P
  <2>1. PICK f : f = [i \in 1 .. n |-> i]
    OBVIOUS
  <2>2. f = [i \in 1 .. n |-> f[i]] /\ \A i \in 1 .. n : ~(i <= 0)
    BY <1>2, <2>1
  <2>3. Good(f, 0)
    BY <2>2
  <2> QED
    BY <2>3
<1>4. ASSUME NEW b \in Nat, b \in P PROVE b + 1 \in P
  <2>1. SUFFICES ASSUME b + 1 <= n PROVE \E f : Good(f, b + 1)
    OBVIOUS
  <2>2. PICK f : Good(f, b)
    BY <1>2, <1>4, <2>1
  <2>3. PICK g : g = [i \in 1 .. n |-> IF i = b + 1 THEN Next1(f, i) ELSE f[i]]
    OBVIOUS
  <2>4. ASSUME NEW i \in 1 .. n, i <= b + 1 PROVE g[i] = Next1(g, i)
    <3>1. i # 1 => i - 1 \in 1 .. n /\ i - 1 # b + 1
      BY <1>2, <2>4
    <3>2. i # 1 => g[i - 1] = f[i - 1]
      BY <2>3, <3>1
    <3>3. Next1(g, i) = Next1(f, i)
      BY <3>2
    <3>4. CASE i = b + 1
      BY <2>3, <3>3, <3>4
    <3>5. CASE i # b + 1
      <4>1. i <= b
        BY <2>4, <3>5
      <4>2. f[i] = Next1(f, i)
        BY <2>2, <4>1
      <4> QED
        BY <2>3, <3>3, <3>5, <4>2
    <3> QED
      BY <3>4, <3>5
  <2>5. Good(g, b + 1)
    BY <2>3, <2>4
  <2> QED
    BY <2>5
<1> HIDE DEF P
<1>5. n \in P
  BY <1>2, <1>3, <1>4, Induct
<1>6. PICK f : Good(f, n)
  BY <1>2, <1>5 DEF P
<1>7. Sums(parts, f)
  <2>1. \A i \in 1 .. n : i <= n
    BY <1>2
  <2>2. \A i \in 1 .. n : f[i] = Next1(f, i)
    BY <1>6, <2>1
  <2>3. f = [i \in 1 .. n |-> f[i]]
    BY <1>6
  <2>4. f = [i \in 1 .. n |-> IF i = 1 THEN parts[i] ELSE f[i - 1] \o parts[i]]
    BY <2>2, <2>3
  <2> QED
    BY <1>1, <2>4 DEF Sums
<1>8. PICK h : h = CHOOSE x : Sums(parts, x)
  OBVIOUS
<1>9. Sums(parts, h)
  BY <1>7, <1>8
<1>10. FlattenSeq(parts) = h[n]
  BY <1>1, <1>2, <1>8 DEF FlattenSeq, Sums
<1> DEFINE Q == {i \in Nat : i + 1 <= n => h[i + 1] \in Texts}
<1>11. 0 \in Q
  BY <1>1, <1>2, <1>9 DEF Sums
<1>12. ASSUME NEW i \in Nat, i \in Q PROVE i + 1 \in Q
  <2>1. SUFFICES ASSUME i + 2 <= n PROVE h[i + 2] \in Texts
    OBVIOUS
  <2>2. i + 2 \in 1 .. n /\ i + 2 # 1 /\ (i + 2) - 1 = i + 1
    BY <1>2, <2>1
  <2>3. h[i + 2] = h[(i + 2) - 1] \o parts[i + 2]
    BY <1>1, <1>9, <2>2 DEF Sums
  <2>4. h[i + 1] \in Texts
    BY <1>2, <1>12, <2>1
  <2> QED
    BY <1>2, <2>2, <2>3, <2>4, SeqOn DEF Texts
<1> HIDE DEF Q
<1>13. \A i \in Nat : i \in Q
  BY <1>11, <1>12, Induct
<1>14. ASSUME NEW i \in 1 .. n PROVE h[i] \in Texts
  <2>1. i - 1 \in Nat /\ (i - 1) + 1 = i
    OBVIOUS
  <2> QED
    BY <1>2, <1>13, <2>1 DEF Q
<1> QED
  BY <1>1, <1>9, <1>10, <1>14

LEMMA TextsOn ==
  /\ \A s, t \in Texts : s \o t \in Texts /\ Len(s \o t) = Len(s) + Len(t)
  /\ \A s, t, u \in Texts : (s \o t) \o u = s \o (t \o u)
  /\ <<>> \in Texts /\ \A s \in Texts : s \o <<>> = s /\ <<>> \o s = s
  /\ \A c \in Chars : <<c>> \in Texts
<1>1. \A s, t \in Texts : s \o t \in Texts /\ Len(s \o t) = Len(s) + Len(t)
  BY SeqOn DEF Texts
<1>2. \A s, t, u \in Texts : (s \o t) \o u = s \o (t \o u)
  BY ConcatAssociative DEF Texts
<1>3. <<>> \in Texts /\ \A s \in Texts : s \o <<>> = s /\ <<>> \o s = s
  BY SeqShort DEF Texts
<1>4. \A c \in Chars : <<c>> \in Texts
  BY SeqShort DEF Texts
<1> QED
  BY <1>1, <1>2, <1>3, <1>4

\* Several texts in a row are the first of them and the others.
LEMMA FlatHead ==
  ASSUME NEW parts \in Seq(Texts), NEW a \in Texts
  PROVE  /\ FlattenSeq(<<>>) = <<>> /\ FlattenSeq(parts) \in Texts
         /\ FlattenSeq(<<a>> \o parts) = a \o FlattenSeq(parts)
<1>1. PICK more, n : more = <<a>> \o parts /\ n = Len(parts)
  OBVIOUS
<1>2. /\ more \in Seq(Texts) /\ Len(more) = n + 1 /\ n \in Nat
      /\ more[1] = a /\ \A i \in 1 .. n : more[i + 1] = parts[i]
  <2>1. <<a>> \in Seq(Texts) /\ Len(<<a>>) = 1 /\ <<a>>[1] = a
    BY SeqShort
  <2>2. /\ <<a>> \o parts \in Seq(Texts) /\ Len(<<a>> \o parts) = Len(<<a>>) + Len(parts)
        /\ \A i \in 1 .. Len(<<a>>) : (<<a>> \o parts)[i] = <<a>>[i]
        /\ \A i \in 1 .. Len(parts) : (<<a>> \o parts)[i + Len(<<a>>)] = parts[i]
    BY <2>1, SeqOn
  <2>3. n \in Nat
    BY <1>1
  <2> QED
    BY <1>1, <2>1, <2>2, <2>3
<1>3. PICK g : /\ Sums(more, g) /\ FlattenSeq(more) = g[n + 1]
               /\ \A i \in 1 .. n + 1 : g[i] \in Texts
  BY <1>2, SumsAre
<1>4. \A i \in 1 .. n + 1 : g[i] = IF i = 1 THEN more[i] ELSE g[i - 1] \o more[i]
  BY <1>2, <1>3 DEF Sums
<1>5. FlattenSeq(<<>>) = <<>> /\ <<>> \in Texts
  <2>1. Len(<<>>) = 0
    OBVIOUS
  <2> QED
    BY <2>1, SeqShort DEF FlattenSeq, Texts
<1>6. g[1] = a
  BY <1>2, <1>4
<1>7. CASE n = 0
  <2>1. parts = <<>>
    BY <1>1, <1>7, SeqShort
  <2>2. FlattenSeq(more) = a
    BY <1>3, <1>6, <1>7
  <2>3. a \o <<>> = a
    BY SeqShort DEF Texts
  <2> QED
    BY <1>1, <1>5, <2>1, <2>2, <2>3
<1>8. CASE n # 0
  <2>1. PICK h : /\ Sums(parts, h) /\ FlattenSeq(parts) = h[n] /\ \A i \in 1 .. n : h[i] \in Texts
    BY <1>1, <1>2, <1>8, SumsAre
  <2>2. \A i \in 1 .. n : h[i] = IF i = 1 THEN parts[i] ELSE h[i - 1] \o parts[i]
    BY <1>1, <2>1 DEF Sums
  <2> DEFINE P == {i \in Nat : i + 1 <= n => g[i + 2] = a \o h[i + 1]}
  <2>3. 0 \in P
    <3>1. 1 \in 1 .. n /\ 2 \in 1 .. n + 1 /\ 2 # 1 /\ 2 - 1 = 1 /\ 1 + 1 = 2
      BY <1>2, <1>8
    <3>2. g[2] = g[1] \o more[2] /\ more[2] = parts[1] /\ h[1] = parts[1]
      BY <1>2, <1>4, <2>2, <3>1
    <3>3. 0 + 1 = 1 /\ 0 + 2 = 2 /\ g[2] = a \o h[1]
      BY <1>6, <3>2
    <3>4. g[0 + 2] = a \o h[0 + 1]
      BY <3>3
    <3> QED
      BY <3>4
  <2>4. ASSUME NEW i \in Nat, i \in P PROVE i + 1 \in P
    <3>1. SUFFICES ASSUME i + 2 <= n PROVE g[i + 3] = a \o h[i + 2]
      OBVIOUS
    <3>2. /\ i + 2 \in 1 .. n /\ i + 1 \in 1 .. n /\ i + 3 \in 1 .. n + 1 /\ i + 3 # 1 /\ i + 2 # 1
          /\ (i + 3) - 1 = i + 2 /\ (i + 2) - 1 = i + 1 /\ (i + 2) + 1 = i + 3
      BY <1>2, <3>1
    <3>3. g[i + 2] = a \o h[i + 1]
      BY <2>4, <3>2
    <3>4. g[i + 3] = g[(i + 3) - 1] \o more[i + 3]
      BY <1>4, <3>2
    <3>5. more[(i + 2) + 1] = parts[i + 2]
      BY <1>2, <3>2
    <3>6. h[i + 2] = h[(i + 2) - 1] \o parts[i + 2]
      BY <2>2, <3>2
    <3>7. parts[i + 2] \in Texts /\ h[i + 1] \in Texts
      BY <1>1, <2>1, <3>2
    <3>8. (a \o h[i + 1]) \o parts[i + 2] = a \o (h[i + 1] \o parts[i + 2])
      BY <3>7, TextsOn
    <3> QED
      BY <3>2, <3>3, <3>4, <3>5, <3>6, <3>8
  <2> HIDE DEF P
  <2>5. \A i \in Nat : i \in P
    BY <2>3, <2>4, Induct
  <2>6. g[n + 1] = a \o h[n]
    <3>1. n - 1 \in Nat /\ (n - 1) + 1 = n /\ (n - 1) + 2 = n + 1
      BY <1>2, <1>8
    <3>2. n - 1 \in P
      BY <2>5, <3>1
    <3>3. (n - 1) + 1 <= n => g[(n - 1) + 2] = a \o h[(n - 1) + 1]
      BY <3>2 DEF P
    <3> QED
      BY <1>2, <3>1, <3>3
  <2>7. h[n] \in Texts
    BY <1>2, <1>8, <2>1
  <2> QED
    BY <1>1, <1>3, <1>5, <2>1, <2>6, <2>7
<1> QED
  BY <1>2, <1>7, <1>8

-----------------------------------------------------------------------------
(* The shapes of what is read.                                             *)

\* What a rule reads, or a value, at a place behind another.
Has(read, ts, i, j, rule, r) == j \in i + 1 .. Len(ts) /\ r = read[j][rule] /\ r # Failed
Valued(read, ts, i, j, v) == j \in i + 1 .. Len(ts) /\ v = Value(read, ts, j) /\ v # Failed

CallShaped(read, ts, i, v) ==
  /\ ts[i].type = "ident" /\ ts[i].text # True
  /\ \E a, b : /\ Has(read, ts, i, i + 2, ")", a) /\ Has(read, ts, i, a.at, "chain", b)
               /\ v = Thing(b.at, CallOf(ts[i].text, a.items, b.items), a.parts \cup b.parts)
ListShaped(read, ts, i, v) ==
  /\ ts[i].type = "["
  /\ \E l : Has(read, ts, i, i + 1, "]", l) /\ v = Thing(l.at, ListOf(l.items), l.parts)
PlainShaped(ts, i, v) ==
  \/ ts[i].type = "string" /\ v = Thing(i + 1, Plain("string", ts[i].text), {})
  \/ ts[i].type = "number" /\ v = Thing(i + 1, Plain("number", NumberOf(ts[i].text)), {})
  \/ ts[i].type = "ident" /\ ts[i].text = True /\ v = Thing(i + 1, Plain("boolean", ts[i].text), {})
  \/ ts[i].type = "ident" /\ ts[i].text # True /\ v = Thing(i + 1, Plain("token", ts[i].text), {})

\* A place behind a token that is not the end of the file, and the one behind that.
LEMMA TwoOn ==
  ASSUME NEW ts, WellMade(ts), NEW i \in 1 .. Len(ts), ts[i].type # "eof"
  PROVE  /\ i + 1 \in i + 1 .. Len(ts)
         /\ ts[i + 1].type # "eof" => i + 2 \in i + 1 .. Len(ts)
<1>1. PICK n : n = Len(ts)
  OBVIOUS
<1>2. i + 1 \in 1 .. n /\ n \in Nat
  BY <1>1, NextToken
<1>3. ts[i + 1].type # "eof" => (i + 1) + 1 \in 1 .. n
  BY <1>1, <1>2, NextToken
<1> QED
  BY <1>1, <1>2, <1>3

LEMMA ValueShape ==
  ASSUME NEW ts, WellMade(ts), NEW read, Reading(read, ts), NEW i \in 1 .. Len(ts), NEW v,
         v = Value(read, ts, i), v # Failed
  PROVE  /\ PlainShaped(ts, i, v) \/ ListShaped(read, ts, i, v) \/ CallShaped(read, ts, i, v)
         /\ ReadThing(v, i, Len(ts)) /\ ts[i].type \in {"string", "number", "[", "ident"}
<1>1. ValueGoes(read, ts, i)
  BY ValueIs
<1>2. ASSUME NEW j \in 1 .. Len(ts) PROVE Ranged(read[j], j, Len(ts))
  BY DEF Reading
<1>3. \A j \in i + 1 .. Len(ts) : j \in 1 .. Len(ts)
  OBVIOUS
<1>4. ReadThing(v, i, Len(ts))
  <2>1. \A j \in i + 1 .. Len(ts) : read[j] = read[j] /\ Ranged(read[j], j, Len(ts))
    BY <1>2, <1>3
  <2> QED
    BY <2>1, ValueRange
<1>5. ts[i].type \in {"string", "number", "[", "ident"}
  BY <1>1 DEF ValueGoes
<1>6. CASE ts[i].type = "string"
  BY <1>1, <1>4, <1>5, <1>6 DEF ValueGoes, PlainShaped
<1>7. CASE ts[i].type = "number"
  BY <1>1, <1>4, <1>5, <1>7 DEF ValueGoes, PlainShaped
<1>8. CASE ts[i].type = "["
  <2>1. i + 1 \in i + 1 .. Len(ts)
    <3>1. ts[i].type # "eof"
      BY <1>8
    <3> QED
      BY <3>1, TwoOn
  <2>2. PICK l : l = read[i + 1]["]"]
    OBVIOUS
  <2>3. l # Failed /\ v = Thing(l.at, ListOf(l.items), l.parts)
    BY <1>1, <1>8, <2>2 DEF ValueGoes
  <2>4. Has(read, ts, i, i + 1, "]", l)
    BY <2>1, <2>2, <2>3 DEF Has
  <2>5. ListShaped(read, ts, i, v)
    BY <1>8, <2>3, <2>4 DEF ListShaped
  <2> QED
    BY <1>4, <1>5, <2>5
<1>9. CASE ts[i].type = "ident" /\ ts[i].text = True
  BY <1>1, <1>4, <1>5, <1>9 DEF ValueGoes, PlainShaped
<1>10. CASE ts[i].type = "ident" /\ ts[i].text # True /\ ts[i + 1].type # "("
  BY <1>1, <1>4, <1>5, <1>10 DEF ValueGoes, PlainShaped
<1>11. CASE ts[i].type = "ident" /\ ts[i].text # True /\ ts[i + 1].type = "("
  <2>1. i + 2 \in i + 1 .. Len(ts)
    <3>1. ts[i].type # "eof" /\ ts[i + 1].type # "eof"
      BY <1>11
    <3> QED
      BY <3>1, TwoOn
  <2>2. PICK a : a = read[i + 2][")"]
    OBVIOUS
  <2>3. PICK b : b = read[a.at]["chain"]
    OBVIOUS
  <2>4. /\ a # Failed /\ b # Failed
        /\ v = Thing(b.at, CallOf(ts[i].text, a.items, b.items), a.parts \cup b.parts)
    BY <1>1, <1>11, <2>2, <2>3 DEF ValueGoes
  <2>5. ReadItems(a, i + 2, Len(ts), ")")
    BY <1>2, <1>3, <2>1, <2>2 DEF Ranged, Rules
  <2>6. a.at \in i + 2 .. Len(ts) + 1 /\ a.at <= Len(ts)
    BY <2>4, <2>5 DEF ReadItems
  <2>7. a.at \in i + 1 .. Len(ts)
    BY <2>6
  <2>8. Has(read, ts, i, i + 2, ")", a) /\ Has(read, ts, i, a.at, "chain", b)
    BY <2>1, <2>2, <2>3, <2>4, <2>7 DEF Has
  <2>9. CallShaped(read, ts, i, v)
    BY <1>11, <2>4, <2>8 DEF CallShaped
  <2> QED
    BY <1>4, <1>5, <2>9
<1> QED
  BY <1>5, <1>6, <1>7, <1>8, <1>9, <1>10, <1>11

UseShaped(read, ts, i, e) ==
  /\ ts[i].text = <<"u">> /\ ts[i + 1].type = "ident" /\ i + 1 \in 1 .. Len(ts)
  /\ \E v : /\ Valued(read, ts, i, i + 1, v)
            /\ v.at + 1 \in 1 .. Len(ts) /\ ts[v.at + 1].type = "ident"
            /\ e = Thing(v.at + 2, ImportOf(v.value, ts[v.at + 1].text), v.parts)
AssignShaped(read, ts, i, e) ==
  \E v : Valued(read, ts, i, i + 2, v) /\ e = Thing(v.at, AssignOf(ts[i].text, v.value), v.parts)
BlockShaped(read, ts, i, e) ==
  /\ i + 1 \in 1 .. Len(ts)
  /\ \E j, es : /\ Has(read, ts, i, j, "}", es)
                /\ e = Thing(es.at, BlockOf(ts[i].text, Labels(ts, i), es.items), es.parts)

LEMMA EntryShape ==
  ASSUME NEW ts, WellMade(ts), NEW read, Reading(read, ts), NEW i \in 1 .. Len(ts), NEW e,
         e = Entry(read, ts, i), e # Failed
  PROVE  /\ UseShaped(read, ts, i, e) \/ AssignShaped(read, ts, i, e) \/ BlockShaped(read, ts, i, e)
         /\ ReadThing(e, i, Len(ts)) /\ ts[i].type = "ident"
<1>1. EntryGoes(read, ts, i)
  BY EntryIs
<1>2. ASSUME NEW j \in 1 .. Len(ts) PROVE Ranged(read[j], j, Len(ts))
  BY DEF Reading
<1>3. (\A j \in i + 1 .. Len(ts) : j \in 1 .. Len(ts)) /\ Len(ts) \in Nat
  BY DEF WellMade
<1>4. ReadThing(e, i, Len(ts))
  <2>1. \A j \in i + 1 .. Len(ts) : read[j] = read[j] /\ Ranged(read[j], j, Len(ts))
    BY <1>2, <1>3
  <2> QED
    BY <2>1, EntryRange
<1>5. ts[i].type = "ident"
  BY <1>1 DEF EntryGoes
<1>6. i + 1 \in i + 1 .. Len(ts)
  <2>1. ts[i].type # "eof"
    BY <1>5
  <2> QED
    BY <2>1, TwoOn
<1>7. ASSUME NEW j \in i + 1 .. Len(ts), NEW v, v = Value(read, ts, j), v # Failed
      PROVE  Valued(read, ts, i, j, v) /\ v.at \in 1 .. Len(ts)
  <2>1. j \in 1 .. Len(ts) /\ ReadThing(v, j, Len(ts))
    <3>1. j \in 1 .. Len(ts)
      BY <1>3
    <3> QED
      BY <1>7, <3>1, ValueShape
  <2>2. v.at \in j + 1 .. Len(ts)
    BY <1>7, <2>1 DEF ReadThing
  <2>3. v.at \in 1 .. Len(ts)
    BY <1>3, <2>1, <2>2
  <2> QED
    BY <1>7, <2>3 DEF Valued
<1>8. CASE ts[i].text = <<"u">> /\ ts[i + 1].type = "ident"
  <2>1. PICK v : v = Value(read, ts, i + 1)
    OBVIOUS
  <2>2. /\ v # Failed /\ ts[v.at] = Token("ident", <<"s">>) /\ ts[v.at + 1].type = "ident"
        /\ e = Thing(v.at + 2, ImportOf(v.value, ts[v.at + 1].text), v.parts)
    BY <1>1, <1>5, <1>8, <2>1 DEF EntryGoes
  <2>3. Valued(read, ts, i, i + 1, v) /\ v.at \in 1 .. Len(ts)
    BY <1>6, <1>7, <2>1, <2>2
  <2>4. v.at + 1 \in 1 .. Len(ts)
    <3>1. ts[v.at].type # "eof"
      BY <2>2 DEF Token
    <3> QED
      BY <2>3, <3>1, NextToken
  <2>5. UseShaped(read, ts, i, e)
    BY <1>3, <1>6, <1>8, <2>2, <2>3, <2>4 DEF UseShaped
  <2> QED
    BY <1>4, <1>5, <2>5
<1>9. CASE ts[i + 1].type = "="
  <2>1. i + 2 \in i + 1 .. Len(ts)
    <3>1. ts[i].type # "eof" /\ ts[i + 1].type # "eof"
      BY <1>5, <1>9
    <3> QED
      BY <3>1, TwoOn
  <2>2. PICK v : v = Value(read, ts, i + 2)
    OBVIOUS
  <2>3. v # Failed /\ e = Thing(v.at, AssignOf(ts[i].text, v.value), v.parts)
    BY <1>1, <1>5, <1>9, <2>2 DEF EntryGoes
  <2>4. Valued(read, ts, i, i + 2, v)
    BY <1>7, <2>1, <2>2, <2>3
  <2>5. AssignShaped(read, ts, i, e)
    BY <2>3, <2>4 DEF AssignShaped
  <2> QED
    BY <1>4, <1>5, <2>5
<1>10. CASE ts[i + 1].type # "=" /\ ~(ts[i].text = <<"u">> /\ ts[i + 1].type = "ident")
  <2>1. PICK label, open : label = Labels(ts, i) /\ open = i + 1 + Len(label)
    OBVIOUS
  <2>2. PICK es : es = read[open + 1]["}"]
    OBVIOUS
  <2>3. /\ ts[open].type = "{" /\ es # Failed
        /\ e = Thing(es.at, BlockOf(ts[i].text, Labels(ts, i), es.items), es.parts)
    BY <1>1, <1>5, <1>10, <2>1, <2>2 DEF EntryGoes
  <2>4. open \in i + 1 .. Len(ts)
    <3>1. CASE ts[i + 1].type = "string"
      <4>1. i + 2 \in i + 1 .. Len(ts)
        <5>1. ts[i].type # "eof" /\ ts[i + 1].type # "eof"
          BY <1>5, <3>1
        <5> QED
          BY <5>1, TwoOn
      <4>2. Len(label) = 1
        BY <2>1, <3>1 DEF Labels
      <4> QED
        BY <2>1, <4>1, <4>2
    <3>2. CASE ts[i + 1].type # "string"
      <4>1. Len(label) = 0
        BY <2>1, <3>2 DEF Labels
      <4> QED
        BY <1>6, <2>1, <4>1
    <3> QED
      BY <3>1, <3>2
  <2>5. open + 1 \in 1 .. Len(ts)
    <3>1. open \in 1 .. Len(ts)
      BY <1>3, <2>4
    <3>2. ts[open].type # "eof"
      BY <2>3
    <3> QED
      BY <3>1, <3>2, NextToken
  <2>6. open + 1 \in i + 1 .. Len(ts)
    BY <2>4, <2>5
  <2>7. Has(read, ts, i, open + 1, "}", es)
    BY <2>2, <2>3, <2>6 DEF Has
  <2>8. BlockShaped(read, ts, i, e)
    BY <1>3, <1>6, <2>3, <2>7 DEF BlockShaped
  <2> QED
    BY <1>4, <1>5, <2>8
<1> QED
  BY <1>8, <1>9, <1>10

\* What the rules read: nothing more, or something and what they read behind it.
ItemShaped(read, ts, i, close, r) ==
  \/ r = Nothing(i + 1)
  \/ \E k, v, rest : /\ v = Value(read, ts, i) /\ v # Failed /\ Has(read, ts, i, k, close, rest)
                     /\ r = Before(v.value, v.parts, rest)
LinkShaped(read, ts, i, r) ==
  \/ r = Nothing(i)
  \/ \E a, rest : /\ i + 1 \in 1 .. Len(ts) /\ ts[i + 1].type = "ident"
                  /\ Has(read, ts, i, i + 3, ")", a) /\ Has(read, ts, i, a.at, "chain", rest)
                  /\ r = Before(Segment(ts[i + 1].text, a.items), a.parts, rest)
EntriesShaped(read, ts, i, close, r) ==
  \/ r = Nothing(i + 1)
  \/ \E k, e, rest : /\ e = Entry(read, ts, i) /\ e # Failed /\ Has(read, ts, i, k, close, rest)
                     /\ r = Before(e.value, e.parts, rest)

LEMMA ItemShape ==
  ASSUME NEW ts, WellMade(ts), NEW read, Reading(read, ts), NEW i \in 1 .. Len(ts),
         NEW close \in {")", "]"}, read[i][close] # Failed
  PROVE  ItemShaped(read, ts, i, close, read[i][close])
<1>1. PICK v, k : v = Value(read, ts, i) /\ k = v.at + IF ts[v.at].type = "," THEN 1 ELSE 0
  OBVIOUS
<1>2. PICK rest, r : rest = read[k][close] /\ r = read[i][close]
  OBVIOUS
<1>3. r = Values(read, ts, i, close)
  BY <1>2 DEF Reading, RowGoes
<1>4. r = IF ts[i].type = close THEN Nothing(i + 1)
          ELSE IF v = Failed \/ rest = Failed THEN Failed
          ELSE Before(v.value, v.parts, rest)
  BY <1>1, <1>2, <1>3 DEF Values
<1>5. CASE ts[i].type = close
  BY <1>2, <1>4, <1>5 DEF ItemShaped
<1>6. CASE ts[i].type # close
  <2>1. v # Failed /\ rest # Failed /\ r = Before(v.value, v.parts, rest)
    BY <1>2, <1>4, <1>6
  <2>2. ReadThing(v, i, Len(ts))
    BY <1>1, <2>1, ValueShape
  <2>3. v.at \in i + 1 .. Len(ts) /\ Len(ts) \in Nat
    BY <2>1, <2>2 DEF ReadThing, WellMade
  <2>4. k \in i + 1 .. Len(ts)
    <3>1. CASE ts[v.at].type = ","
      <4>1. v.at \in 1 .. Len(ts)
        BY <2>3
      <4>2. ts[v.at].type # "eof"
        BY <3>1
      <4>3. v.at + 1 \in 1 .. Len(ts)
        BY <4>1, <4>2, NextToken
      <4>4. k = v.at + 1
        BY <1>1, <3>1
      <4> QED
        BY <2>3, <4>3, <4>4
    <3>2. CASE ts[v.at].type # ","
      <4>1. k = v.at + 0
        BY <1>1, <3>2
      <4> QED
        BY <2>3, <4>1
    <3> QED
      BY <3>1, <3>2
  <2>5. Has(read, ts, i, k, close, rest)
    BY <1>2, <2>1, <2>4 DEF Has
  <2> QED
    BY <1>1, <1>2, <2>1, <2>5 DEF ItemShaped
<1> QED
  BY <1>5, <1>6

LEMMA LinkShape ==
  ASSUME NEW ts, WellMade(ts), NEW read, Reading(read, ts), NEW i \in 1 .. Len(ts),
         read[i]["chain"] # Failed
  PROVE  LinkShaped(read, ts, i, read[i]["chain"])
<1>1. PICK a : a = read[i + 3][")"]
  OBVIOUS
<1>2. PICK rest, r : rest = read[a.at]["chain"] /\ r = read[i]["chain"]
  OBVIOUS
<1>3. r = Chain(read, ts, i)
  BY <1>2 DEF Reading, RowGoes
<1>4. r = IF ts[i].type # "." THEN Nothing(i)
          ELSE IF \/ ts[i + 1].type # "ident" \/ ts[i + 2].type # "("
                  \/ a = Failed \/ rest = Failed THEN Failed
          ELSE Before(Segment(ts[i + 1].text, a.items), a.parts, rest)
  BY <1>1, <1>2, <1>3 DEF Chain, Segment
<1>5. CASE ts[i].type # "."
  BY <1>2, <1>4, <1>5 DEF LinkShaped
<1>6. CASE ts[i].type = "."
  <2>1. /\ ts[i + 1].type = "ident" /\ ts[i + 2].type = "(" /\ a # Failed /\ rest # Failed
        /\ r = Before(Segment(ts[i + 1].text, a.items), a.parts, rest)
    BY <1>2, <1>4, <1>6
  <2>2. PICK n : n = Len(ts)
    OBVIOUS
  <2>3. i + 1 \in 1 .. n /\ i + 3 \in i + 1 .. n /\ n \in Nat
    <3>1. ts[i].type # "eof" /\ ts[i + 1].type # "eof" /\ ts[i + 2].type # "eof"
      BY <1>6, <2>1
    <3>2. i + 1 \in 1 .. Len(ts) /\ Len(ts) \in Nat
      BY <3>1, NextToken
    <3>3. i + 2 \in i + 1 .. Len(ts)
      BY <3>1, TwoOn
    <3>4. i + 2 \in 1 .. Len(ts)
      BY <3>2, <3>3
    <3>5. (i + 2) + 1 \in 1 .. Len(ts)
      BY <3>1, <3>4, NextToken
    <3> QED
      BY <2>2, <3>2, <3>5
  <2>4. Has(read, ts, i, i + 3, ")", a)
    BY <1>1, <2>1, <2>2, <2>3 DEF Has
  <2>5. ReadItems(a, i + 3, n, ")")
    <3>1. i + 3 \in 1 .. Len(ts)
      BY <2>2, <2>3
    <3>2. Ranged(read[i + 3], i + 3, Len(ts))
      BY <3>1 DEF Reading
    <3> QED
      BY <1>1, <2>2, <3>2 DEF Ranged, Rules
  <2>6. a.at \in i + 3 .. n + 1 /\ a.at <= n
    BY <2>1, <2>5 DEF ReadItems
  <2>7. a.at \in i + 1 .. n
    BY <2>3, <2>6
  <2>8. Has(read, ts, i, a.at, "chain", rest)
    BY <1>2, <2>1, <2>2, <2>7 DEF Has
  <2> QED
    BY <1>2, <2>1, <2>2, <2>3, <2>4, <2>8 DEF LinkShaped
<1> QED
  BY <1>5, <1>6

LEMMA EntriesShape ==
  ASSUME NEW ts, WellMade(ts), NEW read, Reading(read, ts), NEW i \in 1 .. Len(ts),
         NEW close \in Ending, read[i][close] # Failed
  PROVE  EntriesShaped(read, ts, i, close, read[i][close])
<1>1. PICK e : e = Entry(read, ts, i)
  OBVIOUS
<1>2. PICK rest, r : rest = read[e.at][close] /\ r = read[i][close]
  OBVIOUS
<1>3. r = Entries(read, ts, i, close)
  BY <1>2 DEF Reading, RowGoes, Ending
<1>4. r = IF ts[i].type = close THEN Nothing(i + 1)
          ELSE IF e = Failed \/ rest = Failed THEN Failed
          ELSE Before(e.value, e.parts, rest)
  BY <1>1, <1>2, <1>3 DEF Entries
<1>5. CASE ts[i].type = close
  BY <1>2, <1>4, <1>5 DEF EntriesShaped
<1>6. CASE ts[i].type # close
  <2>1. e # Failed /\ rest # Failed /\ r = Before(e.value, e.parts, rest)
    BY <1>2, <1>4, <1>6
  <2>2. ReadThing(e, i, Len(ts))
    BY <1>1, <2>1, EntryShape
  <2>3. e.at \in i + 1 .. Len(ts)
    BY <2>1, <2>2 DEF ReadThing
  <2>4. Has(read, ts, i, e.at, close, rest)
    BY <1>2, <2>1, <2>3 DEF Has
  <2> QED
    BY <1>1, <1>2, <2>1, <2>4 DEF EntriesShaped
<1> QED
  BY <1>5, <1>6

-----------------------------------------------------------------------------
(* Writing.                                                                *)

\* The texts of several things, and those of calls in a chain.
TextsOf(f, xs) == [i \in DOMAIN xs |-> f[xs[i]]]
LinkText(f, link) == <<".">> \o WriteCall(f, link.name, link.args)
LinksOf(f, xs) == [i \in DOMAIN xs |-> LinkText(f, xs[i])]

\* How things are written.
LEMMA WritePlain ==
  ASSUME NEW f, NEW s
  PROVE  /\ Write(f, Plain("string", s)) = QuoteString(s)
         /\ \A kind \in {"number", "boolean", "token"} : Write(f, Plain(kind, s)) = s
<1>1. PICK x : x = Plain("string", s)
  OBVIOUS
<1>2. x.kind = "string" /\ x.is = s
  BY <1>1 DEF Plain
<1>3. Write(f, x) = QuoteString(s)
  BY <1>2 DEF Write, WriteValue
<1>4. ASSUME NEW kind \in {"number", "boolean", "token"} PROVE Write(f, Plain(kind, s)) = s
  <2>1. PICK y : y = Plain(kind, s)
    OBVIOUS
  <2>2. y.kind = kind /\ y.is = s
    BY <2>1 DEF Plain
  <2>3. Write(f, y) = s
    BY <2>2 DEF Write, WriteValue
  <2> QED
    BY <2>1, <2>3
<1> QED
  BY <1>1, <1>3, <1>4

CallText(name, t) == name \o <<"(">> \o t \o <<")">>
ListText(t) == <<"[">> \o t \o <<"]">>
LEMMA WriteCallIs ==
  ASSUME NEW f, NEW name, NEW items
  PROVE  WriteCall(f, name, items) = CallText(name, Listed(TextsOf(f, items)))
BY DEF WriteCall, TextsOf, CallText
LEMMA WriteList ==
  ASSUME NEW f, NEW items
  PROVE  Write(f, ListOf(items)) = ListText(Listed(TextsOf(f, items)))
<1>1. PICK x : x = ListOf(items)
  OBVIOUS
<1>2. x.kind = "list" /\ x.items = items
  BY <1>1 DEF ListOf
<1>3. Write(f, x) = <<"[">> \o Listed(TextsOf(f, x.items)) \o <<"]">>
  BY <1>2 DEF Write, WriteValue, TextsOf
<1> QED
  BY <1>1, <1>2, <1>3 DEF ListText
LEMMA WriteCalls ==
  ASSUME NEW f, NEW name, NEW items, NEW chain
  PROVE  Write(f, CallOf(name, items, chain)) =
           WriteCall(f, name, items) \o FlattenSeq(LinksOf(f, chain))
<1>1. PICK y : y = CallOf(name, items, chain)
  OBVIOUS
<1>2. y.kind = "call" /\ y.name = name /\ y.items = items /\ y.chain = chain
  BY <1>1 DEF CallOf
<1>3. Write(f, y) = WriteCall(f, y.name, y.items) \o FlattenSeq(LinksOf(f, y.chain))
  BY <1>2 DEF Write, WriteValue, LinksOf, LinkText
<1> QED
  BY <1>1, <1>2, <1>3

UseText(t, name) == <<"u", " ">> \o t \o <<" ", "s", " ">> \o name \o <<LineEnd>>
AssignText(name, t) == name \o <<" ", "=", " ">> \o t \o <<LineEnd>>
BlockText(name, label, items, t) ==
  name \o (IF label = <<>> THEN <<>> ELSE <<" ">> \o QuoteString(label[1]))
  \o <<" ", "{">> \o (IF items = <<>> THEN <<>> ELSE <<LineEnd>>) \o t \o <<"}", LineEnd>>
LEMMA WriteUse ==
  ASSUME NEW f, NEW name, NEW value
  PROVE  Write(f, ImportOf(value, name)) = UseText(f[value], name)
<1>1. PICK x : x = ImportOf(value, name)
  OBVIOUS
<1>2. x.kind = "use" /\ x.value = value /\ x.name = name
  BY <1>1 DEF ImportOf
<1>3. Write(f, x) = UseText(f[value], name)
  BY <1>2 DEF Write, WriteEntry, UseText
<1> QED
  BY <1>1, <1>3
LEMMA WriteAssign ==
  ASSUME NEW f, NEW name, NEW value
  PROVE  Write(f, AssignOf(name, value)) = AssignText(name, f[value])
<1>1. PICK x : x = AssignOf(name, value)
  OBVIOUS
<1>2. x.kind = "assignment" /\ x.value = value /\ x.name = name
  BY <1>1 DEF AssignOf
<1>3. Write(f, x) = AssignText(name, f[value])
  BY <1>2 DEF Write, WriteEntry, AssignText
<1> QED
  BY <1>1, <1>3
LEMMA WriteBlock ==
  ASSUME NEW f, NEW name, NEW label, NEW items
  PROVE  Write(f, BlockOf(name, label, items)) =
           BlockText(name, label, items, FlattenSeq(TextsOf(f, items)))
<1>1. PICK z : z = BlockOf(name, label, items)
  OBVIOUS
<1>2. z.kind = "block" /\ z.name = name /\ z.label = label /\ z.entries = items
  BY <1>1 DEF BlockOf
<1>3. WriteEntries(f, z.entries) = FlattenSeq(TextsOf(f, z.entries))
  BY DEF WriteEntries, TextsOf
<1>4. Write(f, z) = BlockText(name, label, items, FlattenSeq(TextsOf(f, items)))
  BY <1>2, <1>3 DEF Write, WriteEntry, BlockText
<1> QED
  BY <1>1, <1>4

\* A text hangs on the texts of some things only; and of some things on those of these.
Agree(f, g, P) == \A x \in P : f[x] = g[x]
Local(x, P) == \A f, g : Agree(f, g, P) => Write(f, x) = Write(g, x)
Closed(P) == \A x \in P : Local(x, P)
Links(P) == {Segment(name, args) : name \in Texts, args \in Seq(P)}

LEMMA LocalOn ==
  ASSUME NEW P, NEW Q, P \subseteq Q
  PROVE  /\ \A x : Local(x, P) => Local(x, Q)
         /\ Seq(P) \subseteq Seq(Q) /\ Links(P) \subseteq Links(Q)
         /\ Seq(Links(P)) \subseteq Seq(Links(Q))
<1>1. \A f, g : Agree(f, g, Q) => Agree(f, g, P)
  BY DEF Agree
<1>2. \A x : Local(x, P) => Local(x, Q)
  BY <1>1 DEF Local
<1>3. \A s \in Seq(P) : s \in Seq(Q)
  BY SeqMonotonic
<1>4. Links(P) \subseteq Links(Q)
  BY <1>3 DEF Links
<1>5. \A s \in Seq(Links(P)) : s \in Seq(Links(Q))
  BY <1>4, SeqMonotonic
<1> QED
  BY <1>2, <1>3, <1>4, <1>5

LEMMA ClosedOn ==
  /\ Closed({})
  /\ \A P, Q : Closed(P) /\ Closed(Q) => Closed(P \cup Q)
  /\ \A P, x : Closed(P) /\ Local(x, P) => Closed({x} \cup P)
<1>1. Closed({})
  BY DEF Closed
<1>2. ASSUME NEW P, NEW Q, Closed(P), Closed(Q) PROVE Closed(P \cup Q)
  <2>1. \A x : (Local(x, P) => Local(x, P \cup Q)) /\ (Local(x, Q) => Local(x, P \cup Q))
    BY LocalOn
  <2> QED
    BY <1>2, <2>1 DEF Closed
<1>3. ASSUME NEW P, NEW x, Closed(P), Local(x, P) PROVE Closed({x} \cup P)
  <2>1. \A y : Local(y, P) => Local(y, {x} \cup P)
    BY LocalOn
  <2> QED
    BY <1>3, <2>1 DEF Closed
<1> QED
  BY <1>1, <1>2, <1>3

\* On whose texts the text of a thing hangs.
LEMMA LocalPlain ==
  ASSUME NEW kind \in {"string", "number", "boolean", "token"}, NEW s
  PROVE  Local(Plain(kind, s), {})
BY WritePlain DEF Local

LEMMA TextsAgree ==
  ASSUME NEW P, NEW f, NEW g, Agree(f, g, P), NEW xs \in Seq(P)
  PROVE  TextsOf(f, xs) = TextsOf(g, xs)
<1>1. \A i \in DOMAIN xs : f[xs[i]] = g[xs[i]]
  <2>1. \A i \in DOMAIN xs : xs[i] \in P
    OBVIOUS
  <2> QED
    BY <2>1 DEF Agree
<1> QED
  BY <1>1 DEF TextsOf

LEMMA LocalListed ==
  ASSUME NEW P, NEW items \in Seq(P), NEW chain \in Seq(Links(P)), NEW name, NEW label
  PROVE  /\ Local(ListOf(items), P) /\ Local(CallOf(name, items, chain), P)
         /\ Local(BlockOf(name, label, items), P)
<1>1. ASSUME NEW f, NEW g, Agree(f, g, P)
      PROVE  /\ Write(f, ListOf(items)) = Write(g, ListOf(items))
             /\ Write(f, CallOf(name, items, chain)) = Write(g, CallOf(name, items, chain))
             /\ Write(f, BlockOf(name, label, items)) = Write(g, BlockOf(name, label, items))
  <2>1. TextsOf(f, items) = TextsOf(g, items)
    BY <1>1, TextsAgree
  <2>2. ASSUME NEW i \in DOMAIN chain PROVE LinkText(f, chain[i]) = LinkText(g, chain[i])
    <3>1. chain[i] \in Links(P)
      OBVIOUS
    <3>2. PICK n \in Texts, args \in Seq(P) : chain[i] = Segment(n, args)
      BY <3>1 DEF Links
    <3>3. chain[i].args = args
      BY <3>2 DEF Segment
    <3>4. TextsOf(f, args) = TextsOf(g, args)
      BY <1>1, TextsAgree
    <3>5. PICK m : m = chain[i].name
      OBVIOUS
    <3>6. WriteCall(f, m, args) = WriteCall(g, m, args)
      BY <3>4, WriteCallIs
    <3> QED
      BY <3>3, <3>5, <3>6 DEF LinkText
  <2>3. LinksOf(f, chain) = LinksOf(g, chain)
    BY <2>2 DEF LinksOf
  <2>4. WriteCall(f, name, items) = WriteCall(g, name, items)
    BY <2>1, WriteCallIs
  <2>5. Write(f, ListOf(items)) = Write(g, ListOf(items))
    BY <2>1, WriteList
  <2>6. Write(f, CallOf(name, items, chain)) = Write(g, CallOf(name, items, chain))
    BY <2>3, <2>4, WriteCalls
  <2>7. Write(f, BlockOf(name, label, items)) = Write(g, BlockOf(name, label, items))
    BY <2>1, WriteBlock
  <2> QED
    BY <2>5, <2>6, <2>7
<1> QED
  BY <1>1 DEF Local

LEMMA LocalWith ==
  ASSUME NEW P, NEW value \in P, NEW name
  PROVE  Local(ImportOf(value, name), P) /\ Local(AssignOf(name, value), P)
<1>1. ASSUME NEW f, NEW g, Agree(f, g, P)
      PROVE  /\ Write(f, ImportOf(value, name)) = Write(g, ImportOf(value, name))
             /\ Write(f, AssignOf(name, value)) = Write(g, AssignOf(name, value))
  <2>1. f[value] = g[value]
    BY <1>1 DEF Agree
  <2> QED
    BY <2>1, WriteUse, WriteAssign
<1> QED
  BY <1>1 DEF Local

\* The things read at places.
Things(read, ts, i) ==
  {Value(read, ts, j).value : j \in {k \in i .. Len(ts) : Value(read, ts, k) # Failed}}
  \cup {Entry(read, ts, j).value : j \in {k \in i .. Len(ts) : Entry(read, ts, k) # Failed}}

LEMMA ThingsOn ==
  ASSUME NEW read, NEW ts, Len(ts) \in Nat, NEW i \in 1 .. Len(ts)
  PROVE  /\ \A j \in i .. Len(ts) : Things(read, ts, j) \subseteq Things(read, ts, i)
         /\ Things(read, ts, i + 1) \subseteq Things(read, ts, i)
         /\ Value(read, ts, i) # Failed => Value(read, ts, i).value \in Things(read, ts, i)
         /\ Entry(read, ts, i) # Failed => Entry(read, ts, i).value \in Things(read, ts, i)
         /\ \A x \in Things(read, ts, i) :
              \/ x \in Things(read, ts, i + 1)
              \/ Value(read, ts, i) # Failed /\ x = Value(read, ts, i).value
              \/ Entry(read, ts, i) # Failed /\ x = Entry(read, ts, i).value
<1>1. PICK n : n = Len(ts)
  OBVIOUS
<1>2. /\ \A j \in i .. n : \A k \in j .. n : k \in i .. n
      /\ \A k \in i + 1 .. n : k \in i .. n
      /\ \A k \in i .. n : k \in i + 1 .. n \/ k = i
      /\ i \in i .. n
  BY <1>1
<1>3. \A j \in i .. Len(ts) : Things(read, ts, j) \subseteq Things(read, ts, i)
  BY <1>1, <1>2 DEF Things
<1>4. Things(read, ts, i + 1) \subseteq Things(read, ts, i)
  BY <1>1, <1>2 DEF Things
<1>5. Value(read, ts, i) # Failed => Value(read, ts, i).value \in Things(read, ts, i)
  BY <1>1, <1>2 DEF Things
<1>6. Entry(read, ts, i) # Failed => Entry(read, ts, i).value \in Things(read, ts, i)
  BY <1>1, <1>2 DEF Things
<1>7. \A x \in Things(read, ts, i) :
        \/ x \in Things(read, ts, i + 1)
        \/ Value(read, ts, i) # Failed /\ x = Value(read, ts, i).value
        \/ Entry(read, ts, i) # Failed /\ x = Entry(read, ts, i).value
  BY <1>1, <1>2 DEF Things
<1> QED
  BY <1>3, <1>4, <1>5, <1>6, <1>7

\* What is read consists of things read, which consist of things among these.
Items == {")", "]"} \cup Ending
SoundThing(v, U) ==
  \/ v = Failed
  \/ \E inner \in SUBSET U : /\ v = Thing(v.at, v.value, inner)
                             /\ Closed(inner) /\ Local(v.value, inner)
SoundItems(r, U) ==
  r = Failed \/ (r.items \in Seq(r.parts) /\ Closed(r.parts) /\ r.parts \subseteq U)
SoundLinks(r, U) ==
  r = Failed \/ (r.items \in Seq(Links(r.parts)) /\ Closed(r.parts) /\ r.parts \subseteq U)
RowSound(row, U) ==
  (\A close \in Items : SoundItems(row[close], U)) /\ SoundLinks(row["chain"], U)
Behind(read, ts, i) == \A j \in i + 1 .. Len(ts) : RowSound(read[j], Things(read, ts, j))

LEMMA HasSound ==
  ASSUME NEW ts, Len(ts) \in Nat, NEW read, NEW i \in 1 .. Len(ts), Behind(read, ts, i),
         NEW j, NEW rule, NEW r, Has(read, ts, i, j, rule, r)
  PROVE  /\ rule \in Items =>
              /\ r.items \in Seq(r.parts) /\ Closed(r.parts)
              /\ r.parts \subseteq Things(read, ts, i + 1)
         /\ rule = "chain" =>
              /\ r.items \in Seq(Links(r.parts)) /\ Closed(r.parts)
              /\ r.parts \subseteq Things(read, ts, i + 1)
<1>1. j \in i + 1 .. Len(ts) /\ r = read[j][rule] /\ r # Failed
  BY DEF Has
<1>2. i + 1 \in 1 .. Len(ts)
  BY <1>1
<1>3. Things(read, ts, j) \subseteq Things(read, ts, i + 1)
  BY <1>1, <1>2, ThingsOn
<1>4. RowSound(read[j], Things(read, ts, j))
  BY <1>1 DEF Behind
<1> QED
  BY <1>1, <1>3, <1>4 DEF RowSound, SoundItems, SoundLinks

LEMMA ThingSound ==
  ASSUME NEW U, NEW inner \in SUBSET U, Closed(inner), NEW at, NEW value, Local(value, inner)
  PROVE  SoundThing(Thing(at, value, inner), U)
<1>1. PICK v : v = Thing(at, value, inner)
  OBVIOUS
<1>2. v.at = at /\ v.value = value
  BY <1>1 DEF Thing
<1> QED
  BY <1>1, <1>2 DEF SoundThing

LEMMA ValueSound ==
  ASSUME NEW ts, WellMade(ts), NEW read, Reading(read, ts), NEW i \in 1 .. Len(ts),
         Behind(read, ts, i)
  PROVE  SoundThing(Value(read, ts, i), Things(read, ts, i + 1))
<1>1. PICK v, U : v = Value(read, ts, i) /\ U = Things(read, ts, i + 1)
  OBVIOUS
<1>2. Len(ts) \in Nat
  BY DEF WellMade
<1>3. CASE v = Failed
  BY <1>1, <1>3 DEF SoundThing
<1>4. CASE v # Failed
  <2>1. PlainShaped(ts, i, v) \/ ListShaped(read, ts, i, v) \/ CallShaped(read, ts, i, v)
    BY <1>1, <1>4, ValueShape
  <2>2. CASE PlainShaped(ts, i, v)
    <3>1. PICK s : \E kind \in {"string", "number", "boolean", "token"} :
                     v = Thing(i + 1, Plain(kind, s), {})
      BY <2>2 DEF PlainShaped
    <3>2. PICK kind \in {"string", "number", "boolean", "token"} : v = Thing(i + 1, Plain(kind, s), {})
      BY <3>1
    <3>3. Closed({}) /\ Local(Plain(kind, s), {})
      BY ClosedOn, LocalPlain
    <3> QED
      BY <1>1, <3>2, <3>3, ThingSound
  <2>3. CASE ListShaped(read, ts, i, v)
    <3>1. PICK l : Has(read, ts, i, i + 1, "]", l) /\ v = Thing(l.at, ListOf(l.items), l.parts)
      BY <2>3 DEF ListShaped
    <3>2. l.items \in Seq(l.parts) /\ Closed(l.parts) /\ l.parts \subseteq U
      <4>1. "]" \in Items
        BY DEF Items
      <4> QED
        BY <1>1, <1>2, <3>1, <4>1, HasSound
    <3>3. Local(ListOf(l.items), l.parts)
      <4>1. <<>> \in Seq(Links(l.parts))
        OBVIOUS
      <4> QED
        BY <3>2, <4>1, LocalListed
    <3> QED
      BY <1>1, <3>1, <3>2, <3>3, ThingSound
  <2>4. CASE CallShaped(read, ts, i, v)
    <3>1. PICK a, b : /\ Has(read, ts, i, i + 2, ")", a) /\ Has(read, ts, i, a.at, "chain", b)
                      /\ v = Thing(b.at, CallOf(ts[i].text, a.items, b.items), a.parts \cup b.parts)
      BY <2>4 DEF CallShaped
    <3>2. a.items \in Seq(a.parts) /\ Closed(a.parts) /\ a.parts \subseteq U
      <4>1. ")" \in Items
        BY DEF Items
      <4> QED
        BY <1>1, <1>2, <3>1, <4>1, HasSound
    <3>3. b.items \in Seq(Links(b.parts)) /\ Closed(b.parts) /\ b.parts \subseteq U
      BY <1>1, <1>2, <3>1, HasSound
    <3>4. PICK P : P = a.parts \cup b.parts
      OBVIOUS
    <3>5. P \in SUBSET U /\ Closed(P)
      BY <3>2, <3>3, <3>4, ClosedOn
    <3>6. a.items \in Seq(P) /\ b.items \in Seq(Links(P))
      <4>1. a.parts \subseteq P /\ b.parts \subseteq P
        BY <3>4
      <4>2. Seq(a.parts) \subseteq Seq(P) /\ Seq(Links(b.parts)) \subseteq Seq(Links(P))
        BY <4>1, LocalOn
      <4> QED
        BY <3>2, <3>3, <4>2
    <3>7. Local(CallOf(ts[i].text, a.items, b.items), P)
      BY <3>6, LocalListed
    <3>8. SoundThing(Thing(b.at, CallOf(ts[i].text, a.items, b.items), P), U)
      BY <3>5, <3>7, ThingSound
    <3> QED
      BY <1>1, <3>1, <3>4, <3>8
  <2> QED
    BY <2>1, <2>2, <2>3, <2>4
<1> QED
  BY <1>3, <1>4

LEMMA EntrySound ==
  ASSUME NEW ts, WellMade(ts), NEW read, Reading(read, ts), NEW i \in 1 .. Len(ts),
         Behind(read, ts, i)
  PROVE  SoundThing(Entry(read, ts, i), Things(read, ts, i + 1))
<1>1. PICK e, U : e = Entry(read, ts, i) /\ U = Things(read, ts, i + 1)
  OBVIOUS
<1>2. Len(ts) \in Nat
  BY DEF WellMade
<1>3. ASSUME NEW j, NEW v, Valued(read, ts, i, j, v)
      PROVE  v.parts \in SUBSET U /\ Closed(v.parts) /\ v.value \in v.parts
  <2>1. j \in i + 1 .. Len(ts) /\ v = Value(read, ts, j) /\ v # Failed
    BY <1>3 DEF Valued
  <2>2. j \in 1 .. Len(ts) /\ i + 1 \in 1 .. Len(ts) /\ j + 1 \in Nat
    BY <1>2, <2>1
  <2>3. Behind(read, ts, j)
    <3>1. \A k \in j + 1 .. Len(ts) : k \in i + 1 .. Len(ts)
      BY <1>2, <2>1
    <3> QED
      BY <3>1 DEF Behind
  <2>4. SoundThing(v, Things(read, ts, j + 1))
    BY <2>1, <2>2, <2>3, ValueSound
  <2>5. PICK inner \in SUBSET Things(read, ts, j + 1) :
          v = Thing(v.at, v.value, inner) /\ Closed(inner) /\ Local(v.value, inner)
    BY <2>1, <2>4 DEF SoundThing
  <2>6. v.parts = {v.value} \cup inner
    BY <2>5 DEF Thing
  <2>7. Things(read, ts, j + 1) \subseteq Things(read, ts, j)
    BY <1>2, <2>2, ThingsOn
  <2>8. Things(read, ts, j) \subseteq U
    BY <1>1, <1>2, <2>1, <2>2, ThingsOn
  <2>9. v.value \in Things(read, ts, j)
    BY <1>2, <2>1, <2>2, ThingsOn
  <2>10. Closed({v.value} \cup inner)
    BY <2>5, ClosedOn
  <2> QED
    BY <2>5, <2>6, <2>7, <2>8, <2>9, <2>10
<1>4. CASE e = Failed
  BY <1>1, <1>4 DEF SoundThing
<1>5. CASE e # Failed
  <2>1. UseShaped(read, ts, i, e) \/ AssignShaped(read, ts, i, e) \/ BlockShaped(read, ts, i, e)
    BY <1>1, <1>5, EntryShape
  <2>2. CASE UseShaped(read, ts, i, e)
    <3>1. PICK v : /\ Valued(read, ts, i, i + 1, v)
                   /\ e = Thing(v.at + 2, ImportOf(v.value, ts[v.at + 1].text), v.parts)
      BY <2>2 DEF UseShaped
    <3>2. v.parts \in SUBSET U /\ Closed(v.parts) /\ v.value \in v.parts
      BY <1>3, <3>1
    <3>3. Local(ImportOf(v.value, ts[v.at + 1].text), v.parts)
      BY <3>2, LocalWith
    <3> QED
      BY <1>1, <3>1, <3>2, <3>3, ThingSound
  <2>3. CASE AssignShaped(read, ts, i, e)
    <3>1. PICK v : /\ Valued(read, ts, i, i + 2, v)
                   /\ e = Thing(v.at, AssignOf(ts[i].text, v.value), v.parts)
      BY <2>3 DEF AssignShaped
    <3>2. v.parts \in SUBSET U /\ Closed(v.parts) /\ v.value \in v.parts
      BY <1>3, <3>1
    <3>3. Local(AssignOf(ts[i].text, v.value), v.parts)
      BY <3>2, LocalWith
    <3> QED
      BY <1>1, <3>1, <3>2, <3>3, ThingSound
  <2>4. CASE BlockShaped(read, ts, i, e)
    <3>1. PICK j, es : /\ Has(read, ts, i, j, "}", es)
                       /\ e = Thing(es.at, BlockOf(ts[i].text, Labels(ts, i), es.items), es.parts)
      BY <2>4 DEF BlockShaped
    <3>2. es.items \in Seq(es.parts) /\ Closed(es.parts) /\ es.parts \in SUBSET U
      <4>1. "}" \in Items
        BY DEF Items, Ending
      <4> QED
        BY <1>1, <1>2, <3>1, <4>1, HasSound
    <3>3. Local(BlockOf(ts[i].text, Labels(ts, i), es.items), es.parts)
      <4>1. <<>> \in Seq(Links(es.parts))
        OBVIOUS
      <4> QED
        BY <3>2, <4>1, LocalListed
    <3> QED
      BY <1>1, <3>1, <3>2, <3>3, ThingSound
  <2> QED
    BY <2>1, <2>2, <2>3, <2>4
<1> QED
  BY <1>4, <1>5

LEMMA BeforeSound ==
  ASSUME NEW U, NEW P \in SUBSET U, Closed(P), NEW rest, rest.parts \in SUBSET U, Closed(rest.parts),
         NEW item
  PROVE  /\ item \in P /\ rest.items \in Seq(rest.parts) => SoundItems(Before(item, P, rest), U)
         /\ item \in Links(P) /\ rest.items \in Seq(Links(rest.parts)) =>
              SoundLinks(Before(item, P, rest), U)
<1>1. PICK Q, r : Q = P \cup rest.parts /\ r = Before(item, P, rest)
  OBVIOUS
<1>2. r.items = <<item>> \o rest.items /\ r.parts = Q
  BY <1>1 DEF Before
<1>3. Closed(Q) /\ Q \in SUBSET U
  BY <1>1, ClosedOn
<1>4. P \subseteq Q /\ rest.parts \subseteq Q
  BY <1>1
<1>5. /\ Seq(rest.parts) \subseteq Seq(Q) /\ Links(P) \subseteq Links(Q)
      /\ Seq(Links(rest.parts)) \subseteq Seq(Links(Q))
  BY <1>4, LocalOn
<1>6. ASSUME item \in P, rest.items \in Seq(rest.parts) PROVE SoundItems(r, U)
  <2>1. <<item>> \in Seq(Q) /\ rest.items \in Seq(Q)
    BY <1>4, <1>5, <1>6
  <2>2. <<item>> \o rest.items \in Seq(Q)
    BY <2>1, SeqOn
  <2> QED
    BY <1>2, <1>3, <2>2 DEF SoundItems
<1>7. ASSUME item \in Links(P), rest.items \in Seq(Links(rest.parts)) PROVE SoundLinks(r, U)
  <2>1. <<item>> \in Seq(Links(Q)) /\ rest.items \in Seq(Links(Q))
    BY <1>4, <1>5, <1>7
  <2>2. <<item>> \o rest.items \in Seq(Links(Q))
    BY <2>1, SeqOn
  <2> QED
    BY <1>2, <1>3, <2>2 DEF SoundLinks
<1> QED
  BY <1>1, <1>6, <1>7

LEMMA NothingSound ==
  ASSUME NEW U, NEW at
  PROVE  SoundItems(Nothing(at), U) /\ SoundLinks(Nothing(at), U)
<1>1. PICK r : r = Nothing(at)
  OBVIOUS
<1>2. r.items = <<>> /\ r.parts = {}
  BY <1>1 DEF Nothing
<1>3. Closed({}) /\ <<>> \in Seq({}) /\ <<>> \in Seq(Links({}))
  BY ClosedOn
<1> QED
  BY <1>1, <1>2, <1>3 DEF SoundItems, SoundLinks

LEMMA ThingParts ==
  ASSUME NEW ts, Len(ts) \in Nat, NEW read, NEW i \in 1 .. Len(ts), NEW v, v # Failed,
         SoundThing(v, Things(read, ts, i + 1)), v.value \in Things(read, ts, i)
  PROVE  v.parts \in SUBSET Things(read, ts, i) /\ Closed(v.parts) /\ v.value \in v.parts
<1>1. PICK inner \in SUBSET Things(read, ts, i + 1) :
        v = Thing(v.at, v.value, inner) /\ Closed(inner) /\ Local(v.value, inner)
  BY DEF SoundThing
<1>2. v.parts = {v.value} \cup inner
  BY <1>1 DEF Thing
<1>3. Closed({v.value} \cup inner)
  BY <1>1, ClosedOn
<1>4. Things(read, ts, i + 1) \subseteq Things(read, ts, i)
  BY ThingsOn
<1> QED
  BY <1>1, <1>2, <1>3, <1>4

LEMMA RowsSound ==
  ASSUME NEW ts, WellMade(ts), NEW read, Reading(read, ts), NEW i \in 1 .. Len(ts),
         Behind(read, ts, i)
  PROVE  RowSound(read[i], Things(read, ts, i))
<1>1. PICK U, W : U = Things(read, ts, i) /\ W = Things(read, ts, i + 1)
  OBVIOUS
<1>2. Len(ts) \in Nat /\ W \subseteq U
  <2>1. Len(ts) \in Nat
    BY DEF WellMade
  <2> QED
    BY <1>1, <2>1, ThingsOn
<1>3. ASSUME NEW close \in {")", "]"} PROVE SoundItems(read[i][close], U)
  <2>1. PICK r : r = read[i][close]
    OBVIOUS
  <2>2. CASE r = Failed
    BY <2>1, <2>2 DEF SoundItems
  <2>3. CASE r # Failed
    <3>1. ItemShaped(read, ts, i, close, r)
      BY <1>3, <2>1, <2>3, ItemShape
    <3>2. CASE r = Nothing(i + 1)
      BY <2>1, <3>2, NothingSound
    <3>3. ASSUME NEW k, NEW v, NEW rest, v = Value(read, ts, i), v # Failed,
                 Has(read, ts, i, k, close, rest), r = Before(v.value, v.parts, rest)
          PROVE  SoundItems(r, U)
      <4>1. SoundThing(v, W) /\ v.value \in U
        BY <1>1, <1>2, <3>3, ValueSound, ThingsOn
      <4>2. v.parts \in SUBSET U /\ Closed(v.parts) /\ v.value \in v.parts
        BY <1>1, <1>2, <3>3, <4>1, ThingParts
      <4>3. rest.items \in Seq(rest.parts) /\ Closed(rest.parts) /\ rest.parts \subseteq W
        <5>1. close \in Items
          BY <1>3 DEF Items
        <5> QED
          BY <1>1, <1>2, <3>3, <5>1, HasSound
      <4>4. rest.parts \in SUBSET U
        BY <1>2, <4>3
      <4> QED
        BY <3>3, <4>2, <4>3, <4>4, BeforeSound
    <3> QED
      BY <2>1, <3>1, <3>2, <3>3 DEF ItemShaped
  <2> QED
    BY <2>2, <2>3
<1>4. ASSUME NEW close \in Ending PROVE SoundItems(read[i][close], U)
  <2>1. PICK r : r = read[i][close]
    OBVIOUS
  <2>2. CASE r = Failed
    BY <2>1, <2>2 DEF SoundItems
  <2>3. CASE r # Failed
    <3>1. EntriesShaped(read, ts, i, close, r)
      BY <1>4, <2>1, <2>3, EntriesShape
    <3>2. CASE r = Nothing(i + 1)
      BY <2>1, <3>2, NothingSound
    <3>3. ASSUME NEW k, NEW e, NEW rest, e = Entry(read, ts, i), e # Failed,
                 Has(read, ts, i, k, close, rest), r = Before(e.value, e.parts, rest)
          PROVE  SoundItems(r, U)
      <4>1. SoundThing(e, W) /\ e.value \in U
        BY <1>1, <1>2, <3>3, EntrySound, ThingsOn
      <4>2. e.parts \in SUBSET U /\ Closed(e.parts) /\ e.value \in e.parts
        BY <1>1, <1>2, <3>3, <4>1, ThingParts
      <4>3. rest.items \in Seq(rest.parts) /\ Closed(rest.parts) /\ rest.parts \subseteq W
        <5>1. close \in Items
          BY <1>4 DEF Items
        <5> QED
          BY <1>1, <1>2, <3>3, <5>1, HasSound
      <4>4. rest.parts \in SUBSET U
        BY <1>2, <4>3
      <4> QED
        BY <3>3, <4>2, <4>3, <4>4, BeforeSound
    <3> QED
      BY <2>1, <3>1, <3>2, <3>3 DEF EntriesShaped
  <2> QED
    BY <2>2, <2>3
<1>5. SoundLinks(read[i]["chain"], U)
  <2>1. PICK r : r = read[i]["chain"]
    OBVIOUS
  <2>2. CASE r = Failed
    BY <2>1, <2>2 DEF SoundLinks
  <2>3. CASE r # Failed
    <3>1. LinkShaped(read, ts, i, r)
      BY <2>1, <2>3, LinkShape
    <3>2. CASE r = Nothing(i)
      BY <2>1, <3>2, NothingSound
    <3>3. ASSUME NEW a, NEW rest, i + 1 \in 1 .. Len(ts), ts[i + 1].type = "ident",
                 Has(read, ts, i, i + 3, ")", a), Has(read, ts, i, a.at, "chain", rest),
                 r = Before(Segment(ts[i + 1].text, a.items), a.parts, rest)
          PROVE  SoundLinks(r, U)
      <4>1. a.items \in Seq(a.parts) /\ Closed(a.parts) /\ a.parts \subseteq W
        <5>1. ")" \in Items
          BY DEF Items
        <5> QED
          BY <1>1, <1>2, <3>3, <5>1, HasSound
      <4>2. rest.items \in Seq(Links(rest.parts)) /\ Closed(rest.parts) /\ rest.parts \subseteq W
        BY <1>1, <1>2, <3>3, HasSound
      <4>3. Segment(ts[i + 1].text, a.items) \in Links(a.parts)
        <5>1. ts[i + 1].text \in Texts
          BY <3>3 DEF WellMade, Made
        <5> QED
          BY <4>1, <5>1 DEF Links
      <4>4. a.parts \in SUBSET U /\ rest.parts \in SUBSET U
        BY <1>2, <4>1, <4>2
      <4> QED
        BY <3>3, <4>1, <4>2, <4>3, <4>4, BeforeSound
    <3> QED
      BY <2>1, <3>1, <3>2, <3>3 DEF LinkShaped
  <2> QED
    BY <2>2, <2>3
<1> QED
  BY <1>1, <1>3, <1>4, <1>5 DEF RowSound, Items

\* So it is at every place.
LEMMA AllSound ==
  ASSUME NEW ts, WellMade(ts), NEW read, Reading(read, ts)
  PROVE  \A i \in 1 .. Len(ts) : RowSound(read[i], Things(read, ts, i)) /\ Behind(read, ts, i)
<1>1. PICK n, P : n = Len(ts) /\ P = {i \in 1 .. n : RowSound(read[i], Things(read, ts, i))}
  OBVIOUS
<1>2. n \in Nat
  BY <1>1 DEF WellMade
<1>3. ASSUME NEW i \in 1 .. n, \A j \in i + 1 .. n : j \in P PROVE i \in P
  <2>1. Behind(read, ts, i)
    BY <1>1, <1>3 DEF Behind
  <2> QED
    BY <1>1, <2>1, RowsSound
<1>4. \A i \in 1 .. n : i \in P
  BY <1>2, <1>3, Down
<1>5. \A i \in 1 .. n : \A j \in i + 1 .. n : j \in 1 .. n
  OBVIOUS
<1> QED
  BY <1>1, <1>4, <1>5 DEF Behind

\* Things read have texts: there is a function that gives each of them its own.
Solves(f, P) == f = [x \in P |-> Write(f, x)]
LEMMA TextsAre ==
  ASSUME NEW ts, WellMade(ts), NEW read, Reading(read, ts)
  PROVE  \A i \in 1 .. Len(ts) : \E f : Solves(f, Things(read, ts, i))
<1>1. PICK n, P : n = Len(ts) /\ P = {i \in 1 .. n : \E f : Solves(f, Things(read, ts, i))}
  OBVIOUS
<1>2. n \in Nat /\ Len(ts) \in Nat
  BY <1>1 DEF WellMade
<1>3. ASSUME NEW i \in 1 .. n, \A j \in i + 1 .. n : j \in P PROVE i \in P
  <2>1. PICK U, W : U = Things(read, ts, i) /\ W = Things(read, ts, i + 1)
    OBVIOUS
  <2>2. \E f : Solves(f, W)
    <3>1. CASE i + 1 \in i + 1 .. n
      BY <1>1, <1>3, <2>1, <3>1
    <3>2. CASE i + 1 \notin i + 1 .. n
      <4>1. \A k : k \notin i + 1 .. n
        BY <1>2, <3>2
      <4>2. W = {}
        BY <1>1, <2>1, <4>1 DEF Things
      <4>3. PICK f : f = [x \in {} |-> x]
        OBVIOUS
      <4>4. Solves(f, W)
        BY <4>2, <4>3 DEF Solves
      <4> QED
        BY <4>4
    <3> QED
      BY <3>1, <3>2
  <2>3. PICK f : Solves(f, W)
    BY <2>2
  <2>4. PICK g : g = [x \in U |-> Write(f, x)]
    OBVIOUS
  <2>5. W \subseteq U
    BY <1>1, <1>2, <2>1, ThingsOn
  <2>6. Agree(f, g, W)
    BY <2>3, <2>4, <2>5 DEF Solves, Agree
  <2>7. ASSUME NEW x \in U PROVE Local(x, W)
    <3>1. \/ x \in W
          \/ Value(read, ts, i) # Failed /\ x = Value(read, ts, i).value
          \/ Entry(read, ts, i) # Failed /\ x = Entry(read, ts, i).value
      BY <1>1, <1>2, <2>1, ThingsOn
    <3>2. Behind(read, ts, i)
      BY <1>1, AllSound
    <3>3. SoundThing(Value(read, ts, i), W) /\ SoundThing(Entry(read, ts, i), W)
      BY <1>1, <2>1, <3>2, ValueSound, EntrySound
    <3>4. CASE x \in W
      <4>1. PICK j \in i + 1 .. n : \/ Value(read, ts, j) # Failed /\ x = Value(read, ts, j).value
                                    \/ Entry(read, ts, j) # Failed /\ x = Entry(read, ts, j).value
        BY <1>1, <2>1, <3>4 DEF Things
      <4>2. j \in 1 .. n /\ i + 1 \in 1 .. n /\ j + 1 \in Nat
        BY <1>2, <4>1
      <4>3. Behind(read, ts, j)
        BY <1>1, <4>2, AllSound
      <4>4. /\ SoundThing(Value(read, ts, j), Things(read, ts, j + 1))
            /\ SoundThing(Entry(read, ts, j), Things(read, ts, j + 1))
        BY <1>1, <4>2, <4>3, ValueSound, EntrySound
      <4>5. Things(read, ts, j + 1) \subseteq W
        <5>1. Things(read, ts, j + 1) \subseteq Things(read, ts, j)
          BY <1>1, <1>2, <4>2, ThingsOn
        <5>2. Things(read, ts, j) \subseteq W
          BY <1>1, <1>2, <2>1, <4>1, <4>2, ThingsOn
        <5> QED
          BY <5>1, <5>2
      <4>6. PICK inner \in SUBSET Things(read, ts, j + 1) : Local(x, inner)
        BY <4>1, <4>4 DEF SoundThing
      <4> QED
        BY <4>5, <4>6, LocalOn
    <3>5. CASE x \notin W
      <4>1. PICK inner \in SUBSET W : Local(x, inner)
        BY <3>1, <3>3, <3>5 DEF SoundThing
      <4> QED
        BY <4>1, LocalOn
    <3> QED
      BY <3>4, <3>5
  <2>8. \A x \in U : Write(f, x) = Write(g, x)
    BY <2>6, <2>7 DEF Local
  <2>9. Solves(g, U)
    BY <2>4, <2>8 DEF Solves
  <2> QED
    BY <1>1, <2>1, <2>9
<1>4. \A i \in 1 .. n : i \in P
  BY <1>2, <1>3, Down
<1> QED
  BY <1>1, <1>4

\* And so have closed sets of them.
LEMMA PartsSolved ==
  ASSUME NEW U, NEW f, Solves(f, U), NEW P \in SUBSET U, Closed(P)
  PROVE  \E g : Solves(g, P)
<1>1. PICK g : g = [x \in P |-> f[x]]
  OBVIOUS
<1>2. Agree(f, g, P)
  BY <1>1 DEF Agree
<1>3. \A x \in P : Write(f, x) = Write(g, x)
  BY <1>2 DEF Closed, Local
<1>4. \A x \in P : f[x] = Write(f, x)
  BY DEF Solves
<1>5. Solves(g, P)
  BY <1>1, <1>3, <1>4 DEF Solves
<1> QED
  BY <1>5

-----------------------------------------------------------------------------
(* What texts spell.                                                       *)

\* A text stands at a place of another, and what follows there.
Stands(x, p, w) ==
  /\ p \in 1 .. Len(x) + 1 /\ p + Len(w) <= Len(x) + 1
  /\ \A k \in 1 .. Len(w) : x[p + k - 1] = w[k]
Followed(x, q, F) == q > Len(x) \/ x[q] \in F

\* Wherever a text stands, it is read as some tokens, if one of some characters follows it or
\* nothing does, and the rest has tokens.
SpellsAt(w, c, F, x, f, p) ==
  Lexed(f, x, Escapes) /\ Stands(x, p, w) /\ Followed(x, p + Len(w), F)
  /\ f[p + Len(w)] # <<>> => f[p] = c \o f[p + Len(w)]
Spells(w, c, F) ==
  /\ w \in Texts /\ c \in Seq(Tokens)
  /\ \A x \in Texts : \A f, p : SpellsAt(w, c, F, x, f, p)

LEMMA SpellsLess ==
  ASSUME NEW w, NEW c, NEW F, Spells(w, c, F), NEW G \in SUBSET F
  PROVE  Spells(w, c, G)
<1>1. \A x, q : Followed(x, q, G) => Followed(x, q, F)
  BY DEF Followed
<1> QED
  BY <1>1 DEF Spells, SpellsAt

\* What stands one behind the other.
LEMMA StandsOn ==
  ASSUME NEW x \in Texts, NEW p, NEW v \in Texts, NEW w \in Texts, Stands(x, p, v \o w)
  PROVE  /\ Stands(x, p, v) /\ Stands(x, p + Len(v), w)
         /\ p + Len(v \o w) = (p + Len(v)) + Len(w) /\ p + Len(v \o w) \in 1 .. Len(x) + 1
         /\ p \in 1 .. Len(x) + 1
<1>1. PICK u, m, k, n : u = v \o w /\ m = Len(v) /\ k = Len(w) /\ n = Len(x)
  OBVIOUS
<1>2. m \in Nat /\ k \in Nat /\ n \in Nat
  BY <1>1, TextIs
<1>3. /\ Len(u) = m + k /\ \A i \in 1 .. m : u[i] = v[i]
      /\ \A i \in 1 .. k : u[i + m] = w[i]
  BY <1>1, SeqOn DEF Texts
<1>4. /\ p \in 1 .. n + 1 /\ p + (m + k) <= n + 1
      /\ \A i \in 1 .. m + k : x[p + i - 1] = u[i]
  BY <1>1, <1>3 DEF Stands
<1>5. Stands(x, p, v)
  <2>1. \A i \in 1 .. m : i \in 1 .. m + k
    BY <1>2
  <2>2. \A i \in 1 .. m : x[p + i - 1] = v[i]
    BY <1>3, <1>4, <2>1
  <2>3. p + m <= n + 1
    BY <1>2, <1>4
  <2> QED
    BY <1>1, <1>4, <2>2, <2>3 DEF Stands
<1>6. Stands(x, p + m, w)
  <2>1. \A i \in 1 .. k : i + m \in 1 .. m + k /\ p + (i + m) - 1 = (p + m) + i - 1
    BY <1>2, <1>4
  <2>2. ASSUME NEW i \in 1 .. k PROVE x[(p + m) + i - 1] = w[i]
    <3>1. x[p + (i + m) - 1] = u[i + m]
      BY <1>4, <2>1
    <3> QED
      BY <1>3, <2>1, <3>1
  <2>3. p + m \in 1 .. n + 1 /\ (p + m) + k <= n + 1
    BY <1>2, <1>4
  <2> QED
    BY <1>1, <2>2, <2>3 DEF Stands
<1>7. p + Len(u) = (p + m) + k /\ p + Len(u) \in 1 .. n + 1
  BY <1>2, <1>3, <1>4
<1> QED
  BY <1>1, <1>4, <1>5, <1>6, <1>7

\* What two texts spell, one behind the other, if the second may follow the first.
LEMMA SpellsOn ==
  ASSUME NEW v, NEW w, NEW c, NEW d, NEW F, NEW G, Spells(v, c, F), Spells(w, d, G),
         IF w = <<>> THEN G \subseteq F ELSE w[1] \in F
  PROVE  Spells(v \o w, c \o d, G)
<1>1. v \in Texts /\ w \in Texts /\ c \in Seq(Tokens) /\ d \in Seq(Tokens)
  BY DEF Spells
<1>2. v \o w \in Texts /\ c \o d \in Seq(Tokens)
  BY <1>1, TextsOn, SeqOn
<1>3. ASSUME NEW x \in Texts, NEW f, NEW p, Lexed(f, x, Escapes), Stands(x, p, v \o w),
             Followed(x, p + Len(v \o w), G), f[p + Len(v \o w)] # <<>>
      PROVE  f[p] = (c \o d) \o f[p + Len(v \o w)]
  <2>1. PICK q, r : q = p + Len(v) /\ r = p + Len(v \o w)
    OBVIOUS
  <2>2. Stands(x, p, v) /\ Stands(x, q, w) /\ r = q + Len(w) /\ r \in 1 .. Len(x) + 1
    BY <1>1, <1>3, <2>1, StandsOn
  <2>3. f[q] = d \o f[r]
    <3>1. Followed(x, q + Len(w), G) /\ f[q + Len(w)] # <<>>
      BY <1>3, <2>1, <2>2
    <3>2. SpellsAt(w, d, G, x, f, q)
      BY DEF Spells
    <3>3. f[q] = d \o f[q + Len(w)]
      BY <1>3, <2>2, <3>1, <3>2 DEF SpellsAt
    <3> QED
      BY <2>2, <3>3
  <2>4. WellMade(f[r])
    BY <1>3, <2>1, <2>2, TokensMade DEF EscapeSets
  <2>5. f[r] \in Seq(Tokens) /\ Len(f[r]) > 0
    BY <2>4 DEF WellMade
  <2>6. f[q] # <<>>
    <3>1. Len(d \o f[r]) = Len(d) + Len(f[r]) /\ Len(d) \in Nat /\ Len(f[r]) \in Nat
      BY <1>1, <2>5, SeqOn
    <3>2. Len(d \o f[r]) # 0
      BY <2>5, <3>1
    <3>3. Len(<<>>) = 0
      OBVIOUS
    <3> QED
      BY <2>3, <3>2, <3>3
  <2>7. Followed(x, q, F)
    <3>1. CASE w = <<>>
      <4>1. Len(w) = 0 /\ q \in Int
        <5>1. Len(w) = 0
          BY <3>1
        <5>2. q \in Int
          BY <2>2 DEF Stands
        <5> QED
          BY <5>1, <5>2
      <4>2. q = r
        BY <2>2, <4>1
      <4> QED
        BY <1>3, <2>1, <3>1, <4>2 DEF Followed
    <3>2. CASE w # <<>>
      <4>1. 1 \in 1 .. Len(w) /\ q \in Int
        <5>1. Len(w) \in Nat \ {0}
          BY <1>1, <3>2, EmptySeq DEF Texts
        <5>2. q \in Int
          BY <2>2 DEF Stands
        <5> QED
          BY <5>1, <5>2
      <4>2. x[q + 1 - 1] = w[1]
        BY <2>2, <4>1 DEF Stands
      <4>3. q + 1 - 1 = q
        BY <4>1
      <4> QED
        BY <3>2, <4>2, <4>3 DEF Followed
    <3> QED
      BY <3>1, <3>2
  <2>8. f[p] = c \o f[q]
    <3>1. SpellsAt(v, c, F, x, f, p)
      BY DEF Spells
    <3> QED
      BY <1>3, <2>1, <2>2, <2>6, <2>7, <3>1 DEF SpellsAt
  <2>9. (c \o d) \o f[r] = c \o (d \o f[r])
    <3>1. PICK t : t = f[r]
      OBVIOUS
    <3>2. t \in Seq(Tokens)
      BY <2>5, <3>1
    <3>3. (c \o d) \o t = c \o (d \o t)
      BY <1>1, <3>2, ConcatAssociative
    <3> QED
      BY <3>1, <3>3
  <2> QED
    BY <2>1, <2>3, <2>8, <2>9
<1>4. \A x \in Texts : \A f, p : SpellsAt(v \o w, c \o d, G, x, f, p)
  BY <1>3 DEF SpellsAt
<1>5. PICK u, e : u = v \o w /\ e = c \o d
  OBVIOUS
<1>6. Spells(u, e, G)
  BY <1>2, <1>4, <1>5 DEF Spells
<1> QED
  BY <1>5, <1>6

\* Most often any character may follow the first.
LEMMA SpellsThen ==
  ASSUME NEW v, NEW w, NEW c, NEW d, NEW G \in SUBSET Chars, Spells(v, c, Chars), Spells(w, d, G)
  PROVE  Spells(v \o w, c \o d, G)
<1>1. w # <<>> => w[1] \in Chars
  <2>1. SUFFICES ASSUME w # <<>> PROVE w[1] \in Chars
    OBVIOUS
  <2>2. w \in Texts
    BY DEF Spells
  <2>3. Len(w) \in Nat \ {0}
    BY <2>1, <2>2, EmptySeq DEF Texts
  <2> QED
    BY <2>2, <2>3 DEF Texts
<1> QED
  BY <1>1, SpellsOn

LEMMA SpellsNothing == Spells(<<>>, <<>>, Chars)
<1>1. <<>> \in Texts /\ <<>> \in Seq(Tokens) /\ Len(<<>>) = 0
  BY TextsOn
<1>2. ASSUME NEW x \in Texts, NEW f, NEW p, Lexed(f, x, Escapes), Stands(x, p, <<>>),
             f[p + Len(<<>>)] # <<>>
      PROVE  f[p] = <<>> \o f[p + Len(<<>>)]
  <2>1. p \in 1 .. Len(x) + 1 /\ p + Len(<<>>) = p
    BY <1>1, <1>2 DEF Stands
  <2>2. f[p] \in Seq(Tokens)
    BY <1>2, <2>1, TokensMade DEF EscapeSets, WellMade
  <2> QED
    BY <2>1, <2>2, SeqShort
<1>3. \A x \in Texts : \A f, p : SpellsAt(<<>>, <<>>, Chars, x, f, p)
  BY <1>2 DEF SpellsAt
<1> QED
  BY <1>1, <1>3 DEF Spells

\* What starts at the first character of a text, and ends with it.
Read(w, c, F) ==
  \A x \in Texts : \A p : Stands(x, p, w) /\ Followed(x, p + Len(w), F) =>
    TokenOf(x, p, Escapes, p + Len(w), c)
LEMMA SpellsRead ==
  ASSUME NEW w \in Texts, NEW c \in Seq(Tokens), NEW F, Len(w) > 0, Read(w, c, F)
  PROVE  Spells(w, c, F)
<1>1. ASSUME NEW x \in Texts, NEW f, NEW p, Lexed(f, x, Escapes), Stands(x, p, w),
             Followed(x, p + Len(w), F), f[p + Len(w)] # <<>>
      PROVE  f[p] = c \o f[p + Len(w)]
  <2>1. PICK q : q = p + Len(w)
    OBVIOUS
  <2>2. TokenAt(x, p, Escapes) = [at |-> q, tokens |-> c]
    BY <1>1, <2>1 DEF Read, TokenOf
  <2>3. p \in 1 .. Len(x) + 1 /\ p <= Len(x) /\ Len(x) \in Nat
    <3>1. p \in 1 .. Len(x) + 1 /\ p + Len(w) <= Len(x) + 1
      BY <1>1 DEF Stands
    <3>2. Len(x) \in Nat /\ Len(w) \in Nat
      BY TextIs
    <3> QED
      BY <3>1, <3>2
  <2>4. f[p] = TokensAt(f, x, p, Escapes)
    BY <1>1, <2>3 DEF Lexed
  <2>5. PICK here : here = TokenAt(x, p, Escapes)
    OBVIOUS
  <2>6. here.at = q /\ here.tokens = c /\ here # Failed
    <3>1. DOMAIN here = {"at", "tokens"}
      BY <2>2, <2>5
    <3>2. DOMAIN Failed = {"at"}
      BY DEF Failed
    <3> QED
      BY <2>2, <2>5, <3>1, <3>2
  <2>7. ~(p > Len(x))
    BY <2>3
  <2>8. f[p] = here.tokens \o f[here.at]
    BY <1>1, <2>1, <2>4, <2>5, <2>6, <2>7 DEF TokensAt
  <2> QED
    BY <2>1, <2>6, <2>8
<1>2. \A x \in Texts : \A f, p : SpellsAt(w, c, F, x, f, p)
  BY <1>1 DEF SpellsAt
<1> QED
  BY <1>2 DEF Spells

\* The text that stands at a place.
LEMMA SubIs ==
  ASSUME NEW x \in Texts, NEW p, NEW w \in Texts, Stands(x, p, w), Len(w) > 0
  PROVE  /\ SubSeq(x, p, (p + Len(w)) - 1) = w /\ x[p] = w[1]
         /\ p \in 1 .. Len(x) /\ p + Len(w) \in p + 1 .. Len(x) + 1
<1>1. PICK n, m, b : n = Len(x) /\ m = Len(w) /\ b = (p + m) - 1
  OBVIOUS
<1>2. n \in Nat /\ m \in Nat /\ m > 0
  BY <1>1, TextIs
<1>3. /\ p \in 1 .. n + 1 /\ p + m <= n + 1
      /\ \A k \in 1 .. m : x[p + k - 1] = w[k]
  BY <1>1 DEF Stands
<1>4. /\ p \in 1 .. n /\ p + m \in p + 1 .. n + 1 /\ b \in Nat /\ p \in Nat \ {0} /\ p <= b + 1
      /\ b <= n /\ (b + 1) - p = m
  BY <1>1, <1>2, <1>3
<1>5. PICK u : u = SubSeq(x, p, b)
  OBVIOUS
<1>6. u \in Texts /\ Len(u) = b + 1 - p /\ \A k \in 1 .. b + 1 - p : u[k] = x[p + k - 1]
  BY <1>1, <1>4, <1>5, TextPart
<1>7. Len(u) = m /\ \A k \in 1 .. m : u[k] = w[k]
  BY <1>3, <1>4, <1>6
<1>8. u = w
  BY <1>1, <1>6, <1>7, SeqEqual DEF Texts
<1>9. x[p] = w[1]
  <2>1. 1 \in 1 .. m /\ p + 1 - 1 = p
    BY <1>2, <1>4
  <2>2. x[p + 1 - 1] = w[1]
    BY <1>3, <2>1
  <2> QED
    BY <2>1, <2>2
<1> QED
  BY <1>1, <1>4, <1>5, <1>8, <1>9

\* One character.
LEMMA StandsOne ==
  ASSUME NEW x \in Texts, NEW p, NEW c \in Chars, Stands(x, p, <<c>>)
  PROVE  /\ p \in 1 .. Len(x) /\ x[p] = c /\ p + Len(<<c>>) = p + 1
         /\ SubSeq(x, p, (p + 1) - 1) = <<c>>
<1>1. <<c>> \in Texts /\ Len(<<c>>) = 1 /\ <<c>>[1] = c
  BY TextsOn
<1>2. PICK w : w = <<c>>
  OBVIOUS
<1>3. w \in Texts /\ Len(w) = 1 /\ w[1] = c /\ Stands(x, p, w)
  BY <1>1, <1>2
<1>4. SubSeq(x, p, (p + Len(w)) - 1) = w /\ x[p] = w[1] /\ p \in 1 .. Len(x)
  <2>1. Len(w) > 0
    BY <1>3
  <2> QED
    BY <1>3, <2>1, SubIs
<1> QED
  BY <1>2, <1>3, <1>4

LEMMA OneOn == \A c \in Chars : <<c>> \in Texts /\ Len(<<c>>) > 0
<1>1. SUFFICES ASSUME NEW c \in Chars PROVE <<c>> \in Texts /\ Len(<<c>>) > 0
  OBVIOUS
<1>2. <<c>> \in Texts /\ Len(<<c>>) = 1
  BY TextsOn
<1> QED
  BY <1>2

\* The tokens spelled.
LEMMA TokenMade ==
  /\ \A t : Made(t) => <<t>> \in Seq(Tokens)
  /\ \A m \in Marks : Made(Token(m, <<>>))
  /\ \A w : MadeIdent(w) => Made(Token("ident", w))
  /\ \A w : MadeNumber(w) => Made(Token("number", w))
  /\ \A w \in Texts : Made(Token("string", w)) /\ Made(Token("header", w))
<1>1. \A t : Made(t) => <<t>> \in Seq(Tokens)
  BY MadeIs, SeqShort
<1>2. ASSUME NEW m \in Marks PROVE Made(Token(m, <<>>))
  <2>1. <<>> \in Texts
    BY TextsOn
  <2>2. PICK t : t = Token(m, <<>>)
    OBVIOUS
  <2>3. Made(t)
    BY <2>1, <2>2 DEF Made, Token, TokenTypes, Marks
  <2> QED
    BY <2>2, <2>3
<1>3. \A w : MadeIdent(w) => Made(Token("ident", w))
  BY DEF Made, MadeIdent, Token, TokenTypes
<1>4. \A w : MadeNumber(w) => Made(Token("number", w))
  BY DEF Made, MadeNumber, Token, TokenTypes
<1>5. \A w \in Texts : Made(Token("string", w)) /\ Made(Token("header", w))
  BY DEF Made, Token, TokenTypes
<1> QED
  BY <1>1, <1>2, <1>3, <1>4, <1>5

\* A mark, and what is skipped.
LEMMA SpellsMark ==
  ASSUME NEW m \in Marks
  PROVE  Spells(<<m>>, <<Token(m, <<>>)>>, Chars)
<1>1. m \in Chars
  BY DEF Chars
<1>2. PICK w, c : w = <<m>> /\ c = <<Token(m, <<>>)>>
  OBVIOUS
<1>3. w \in Texts /\ Len(w) > 0 /\ c \in Seq(Tokens)
  <2>1. w \in Texts /\ c \in Seq(Tokens)
    BY <1>1, <1>2, TextsOn, TokenMade
  <2>2. Len(w) = 1
    BY <1>2
  <2> QED
    BY <2>1, <2>2
<1>4. ASSUME NEW x \in Texts, NEW p, Stands(x, p, w) PROVE TokenOf(x, p, Escapes, p + Len(w), c)
  <2>1. x[p] = m /\ p + Len(w) = p + 1
    BY <1>1, <1>2, <1>4, StandsOne
  <2>2. TokenOf(x, p, Escapes, p + 1, <<Token(x[p], <<>>)>>)
    BY <2>1, TokenIs
  <2> QED
    BY <1>2, <2>1, <2>2
<1>5. Read(w, c, Chars)
  BY <1>4 DEF Read
<1>6. Spells(w, c, Chars)
  BY <1>3, <1>5, SpellsRead
<1> QED
  BY <1>2, <1>6

LEMMA SpellsSpace ==
  ASSUME NEW m \in {" ", LineEnd}
  PROVE  Spells(<<m>>, <<>>, Chars)
<1>1. m \in Chars
  BY DEF Chars
<1>2. PICK w : w = <<m>>
  OBVIOUS
<1>3. w \in Texts /\ Len(w) > 0 /\ <<>> \in Seq(Tokens)
  <2>1. w \in Texts /\ Len(w) > 0
    BY <1>1, <1>2, OneOn
  <2>2. <<>> \in Seq(Tokens)
    BY SeqShort
  <2> QED
    BY <2>1, <2>2
<1>4. ASSUME NEW x \in Texts, NEW p, Stands(x, p, w) PROVE TokenOf(x, p, Escapes, p + Len(w), <<>>)
  <2>1. x[p] = m /\ p + Len(w) = p + 1
    BY <1>1, <1>2, <1>4, StandsOne
  <2>2. TokenOf(x, p, Escapes, p + 1, <<>>)
    BY <2>1, TokenIs
  <2> QED
    BY <2>1, <2>2
<1>5. Read(w, <<>>, Chars)
  BY <1>4 DEF Read
<1>6. Spells(w, <<>>, Chars)
  BY <1>3, <1>5, SpellsRead
<1> QED
  BY <1>2, <1>6

LEMMA SpellsHeader == Spells(<<"@">>, <<Token("header", <<"@">>)>>, {" "})
<1>1. "@" \in Chars
  BY DEF Chars
<1>2. PICK w, c : w = <<"@">> /\ c = <<Token("header", w)>>
  OBVIOUS
<1>3. w \in Texts /\ Len(w) > 0 /\ c \in Seq(Tokens)
  <2>1. w \in Texts
    BY <1>1, <1>2, TextsOn
  <2>2. Len(w) = 1
    BY <1>2
  <2>3. c \in Seq(Tokens)
    BY <1>2, <2>1, TokenMade
  <2> QED
    BY <2>1, <2>2, <2>3
<1>4. ASSUME NEW x \in Texts, NEW p, Stands(x, p, w), Followed(x, p + Len(w), {" "})
      PROVE  TokenOf(x, p, Escapes, p + Len(w), c)
  <2>1. x[p] = "@" /\ p + Len(w) = p + 1 /\ SubSeq(x, p, (p + 1) - 1) = w
    BY <1>1, <1>2, <1>4, StandsOne
  <2>2. ~Is(x, p + 1, Letters \cup Digits)
    <3>1. " " \notin Letters \cup Digits
      BY DEF Letters, Digits
    <3>2. p + 1 > Len(x) => ~(p + 1 <= Len(x))
      <4>1. p \in 1 .. Len(x) /\ Len(x) \in Nat
        BY <1>1, <1>2, <1>4, StandsOne, TextIs
      <4> QED
        BY <4>1
    <3> QED
      BY <1>4, <2>1, <3>1, <3>2 DEF Followed, Is
  <2>3. TokenOf(x, p, Escapes, p + 1, <<Token("header", SubSeq(x, p, (p + 1) - 1))>>)
    BY <2>1, <2>2, TokenIs
  <2> QED
    BY <1>2, <2>1, <2>3
<1>5. Read(w, c, {" "})
  BY <1>4 DEF Read
<1>6. Spells(w, c, {" "})
  BY <1>3, <1>5, SpellsRead
<1> QED
  BY <1>2, <1>6

\* A word or a number, if what follows is none of it.
Stops == Chars \ (Letters \cup Digits \cup {"."})
LEMMA SpellsIdent ==
  ASSUME NEW w, MadeIdent(w)
  PROVE  Spells(w, <<Token("ident", w)>>, Stops)
<1>1. w \in Texts /\ Len(w) > 0 /\ <<Token("ident", w)>> \in Seq(Tokens) /\ w[1] \in Letters
  BY TokenMade DEF MadeIdent
<1>2. ASSUME NEW x \in Texts, NEW p, Stands(x, p, w), Followed(x, p + Len(w), Stops)
      PROVE  TokenOf(x, p, Escapes, p + Len(w), <<Token("ident", w)>>)
  <2>1. PICK n, m, q, places : n = Len(x) /\ m = Len(w) /\ q = p + m /\ places = IdentPlaces(x)
    OBVIOUS
  <2>2. n \in Nat /\ m \in Nat /\ m > 0 /\ DOMAIN x = 1 .. n
    BY <1>1, <2>1, TextIs
  <2>3. /\ SubSeq(x, p, q - 1) = w /\ x[p] = w[1] /\ p \in 1 .. n /\ q \in p + 1 .. n + 1
    BY <1>1, <1>2, <2>1, SubIs
  <2>4. \A k \in 1 .. m : x[p + k - 1] = w[k]
    BY <1>2, <2>1 DEF Stands
  <2>5. ASSUME NEW y \in p .. q - 1 PROVE y \in places
    <3>1. PICK k : k = y + 1 - p
      OBVIOUS
    <3>2. k \in 1 .. m /\ p + k - 1 = y /\ y \in 1 .. n
      BY <2>1, <2>2, <2>3, <3>1
    <3>3. x[y] = w[k]
      BY <2>4, <3>2
    <3>4. w[k] \in Letters \cup Digits \/ (w[k] = "." /\ k < m /\ w[k + 1] \in Letters)
      BY <2>1, <3>2 DEF MadeIdent
    <3>5. CASE w[k] \in Letters \cup Digits
      BY <2>1, <2>2, <3>2, <3>3, <3>5 DEF IdentPlaces, Places
    <3>6. CASE w[k] = "." /\ k < m /\ w[k + 1] \in Letters
      <4>1. k + 1 \in 1 .. m /\ p + (k + 1) - 1 = y + 1 /\ y + 1 <= n
        BY <2>1, <2>2, <2>3, <3>2, <3>6
      <4>2. x[y + 1] = w[k + 1]
        <5>1. x[p + (k + 1) - 1] = w[k + 1]
          BY <2>4, <4>1
        <5> QED
          BY <4>1, <5>1
      <4>3. Is(x, y + 1, Letters)
        BY <2>1, <3>6, <4>1, <4>2 DEF Is
      <4>4. y \in Places(x, {"."})
        BY <2>2, <3>2, <3>3, <3>6 DEF Places
      <4> QED
        BY <2>1, <4>3, <4>4 DEF IdentPlaces
    <3> QED
      BY <3>4, <3>5, <3>6
  <2>6. q \notin places
    <3>1. CASE q > n
      <4>1. q \notin DOMAIN x
        BY <2>2, <2>3, <3>1
      <4> QED
        BY <2>1, <4>1 DEF IdentPlaces, Places
    <3>2. CASE ~(q > n)
      <4>1. x[q] \in Stops
        BY <1>2, <2>1, <3>2 DEF Followed
      <4>2. x[q] \notin Letters \cup Digits /\ x[q] \notin {"."}
        BY <4>1 DEF Stops
      <4> QED
        BY <2>1, <4>2 DEF IdentPlaces, Places
    <3> QED
      BY <3>1, <3>2
  <2>7. places \in SUBSET (DOMAIN x) /\ p \in 1 .. Len(x) + 1
    BY <2>1, <2>2, <2>3 DEF IdentPlaces, Places
  <2>8. Ends(x, p, places, q)
    <3>1. q \in p .. n + 1
      BY <2>2, <2>3
    <3> QED
      BY <2>1, <2>5, <2>6, <3>1 DEF Ends
  <2>9. EndOf(x, p, places) = q
    BY <2>7, <2>8, EndOfIs
  <2>10. EndOfIdent(x, p) = q
    BY <2>1, <2>9 DEF EndOfIdent, IdentPlaces
  <2>11. TokenOf(x, p, Escapes, q, <<Token("ident", SubSeq(x, p, q - 1))>>)
    <3>1. x[p] \in Letters
      BY <1>1, <2>3
    <3> QED
      BY <2>10, <3>1, TokenIs
  <2> QED
    BY <2>1, <2>3, <2>11
<1>3. Read(w, <<Token("ident", w)>>, Stops)
  BY <1>2 DEF Read
<1> QED
  BY <1>1, <1>3, SpellsRead

LEMMA SpellsNumber ==
  ASSUME NEW w, MadeNumber(w)
  PROVE  Spells(w, <<Token("number", w)>>, Stops)
<1>1. w \in Texts /\ Len(w) > 0 /\ <<Token("number", w)>> \in Seq(Tokens) /\ IsNumber(w)
  BY TokenMade DEF MadeNumber
<1>2. ASSUME NEW x \in Texts, NEW p, Stands(x, p, w), Followed(x, p + Len(w), Stops)
      PROVE  TokenOf(x, p, Escapes, p + Len(w), <<Token("number", w)>>)
  <2>1. PICK n, m, q, places : n = Len(x) /\ m = Len(w) /\ q = p + m /\ places = Places(x, Digits \cup {"."})
    OBVIOUS
  <2>2. n \in Nat /\ m \in Nat /\ m > 0 /\ DOMAIN x = 1 .. n
    BY <1>1, <2>1, TextIs
  <2>3. /\ SubSeq(x, p, q - 1) = w /\ x[p] = w[1] /\ p \in 1 .. n /\ q \in p + 1 .. n + 1
    BY <1>1, <1>2, <2>1, SubIs
  <2>4. \A k \in 1 .. m : x[p + k - 1] = w[k]
    BY <1>2, <2>1 DEF Stands
  <2>5. ASSUME NEW y \in p .. q - 1 PROVE y \in places
    <3>1. PICK k : k = y + 1 - p
      OBVIOUS
    <3>2. k \in 1 .. m /\ p + k - 1 = y /\ y \in 1 .. n
      BY <2>1, <2>2, <2>3, <3>1
    <3>3. x[y] = w[k]
      BY <2>4, <3>2
    <3>4. w[k] \in Digits \cup {"."}
      BY <2>1, <3>2 DEF MadeNumber
    <3> QED
      BY <2>1, <2>2, <3>2, <3>3, <3>4 DEF Places
  <2>6. q \notin places
    <3>1. CASE q > n
      <4>1. q \notin DOMAIN x
        BY <2>2, <2>3, <3>1
      <4> QED
        BY <2>1, <4>1 DEF Places
    <3>2. CASE ~(q > n)
      <4>1. x[q] \in Stops
        BY <1>2, <2>1, <3>2 DEF Followed
      <4>2. x[q] \notin Digits \cup {"."}
        BY <4>1 DEF Stops
      <4> QED
        BY <2>1, <4>2 DEF Places
    <3> QED
      BY <3>1, <3>2
  <2>7. places \in SUBSET (DOMAIN x) /\ p \in 1 .. Len(x) + 1
    BY <2>1, <2>2, <2>3 DEF Places
  <2>8. Ends(x, p, places, q)
    <3>1. q \in p .. n + 1
      BY <2>2, <2>3
    <3> QED
      BY <2>1, <2>5, <2>6, <3>1 DEF Ends
  <2>9. EndOf(x, p, places) = q
    BY <2>7, <2>8, EndOfIs
  <2>10. x[p] \in Digits
    <3>1. 1 \in 1 .. m
      BY <2>2
    <3>2. w[1] \in Digits \cup {"."} /\ w[1] # "."
      BY <1>1, <2>1, <3>1 DEF MadeNumber, IsNumber
    <3> QED
      BY <2>3, <3>2
  <2>11. TokenOf(x, p, Escapes, q, <<Token("number", SubSeq(x, p, q - 1))>>)
    <3>1. IsNumber(SubSeq(x, p, q - 1))
      BY <1>1, <2>3
    <3> QED
      BY <2>1, <2>9, <2>10, <3>1, TokenIs
  <2> QED
    BY <2>1, <2>3, <2>11
<1>3. Read(w, <<Token("number", w)>>, Stops)
  BY <1>2 DEF Read
<1> QED
  BY <1>1, <1>3, SpellsRead

-----------------------------------------------------------------------------
(* Strings that are written are read.                                      *)

\* A sequence, and one with one more in front.
LEMMA HeadOn ==
  ASSUME NEW T, NEW a \in T, NEW s \in Seq(T)
  PROVE  /\ <<a>> \o s \in Seq(T) /\ Len(<<a>> \o s) = Len(s) + 1 /\ (<<a>> \o s)[1] = a
         /\ \A i \in 1 .. Len(s) : (<<a>> \o s)[i + 1] = s[i]
<1>1. PICK one : one = <<a>>
  OBVIOUS
<1>2. one \in Seq(T) /\ Len(one) = 1 /\ one[1] = a
  BY <1>1, SeqShort
<1>3. /\ one \o s \in Seq(T) /\ Len(one \o s) = Len(one) + Len(s)
      /\ \A i \in 1 .. Len(one) : (one \o s)[i] = one[i]
      /\ \A i \in 1 .. Len(s) : (one \o s)[i + Len(one)] = s[i]
  BY <1>2, SeqOn
<1>4. Len(s) \in Nat /\ 1 \in 1 .. 1
  OBVIOUS
<1> QED
  BY <1>1, <1>2, <1>3, <1>4

HasHead(T, s) == \E a \in T : \E u \in Seq(T) : s = <<a>> \o u /\ Len(s) = Len(u) + 1
LEMMA HeadOf ==
  ASSUME NEW T, NEW s \in Seq(T), Len(s) > 0
  PROVE  HasHead(T, s)
<1>1. PICK n, a, u : n = Len(s) /\ a = s[1] /\ u = [i \in 1 .. n - 1 |-> s[i + 1]]
  OBVIOUS
<1>2. n \in Nat /\ n > 0 /\ n - 1 \in Nat /\ \A i \in 1 .. n : s[i] \in T
  BY <1>1
<1>3. a \in T
  BY <1>1, <1>2
<1>4. u \in Seq(T) /\ Len(u) = n - 1
  <2>1. ASSUME NEW i \in 1 .. n - 1 PROVE s[i + 1] \in T
    BY <1>2
  <2>2. u \in [1 .. n - 1 -> T]
    BY <1>1, <2>1
  <2> QED
    BY <1>2, <2>2
<1>5. PICK z : z = <<a>> \o u
  OBVIOUS
<1>6. /\ z \in Seq(T) /\ Len(z) = Len(u) + 1 /\ z[1] = a
      /\ \A i \in 1 .. Len(u) : z[i + 1] = u[i]
  BY <1>3, <1>4, <1>5, HeadOn
<1>7. ASSUME NEW i \in 1 .. n PROVE s[i] = z[i]
  <2>1. CASE i = 1
    BY <1>1, <1>6, <2>1
  <2>2. CASE i # 1
    <3>1. i - 1 \in 1 .. n - 1 /\ (i - 1) + 1 = i
      BY <1>2, <2>2
    <3>2. z[(i - 1) + 1] = u[i - 1]
      BY <1>4, <1>6, <3>1
    <3>3. u[i - 1] = s[(i - 1) + 1]
      BY <1>1, <3>1
    <3> QED
      BY <3>1, <3>2, <3>3
  <2> QED
    BY <2>1, <2>2
<1>8. Len(z) = n /\ Len(s) = n
  BY <1>1, <1>2, <1>4, <1>6
<1>9. s = z
  BY <1>6, <1>7, <1>8, SeqEqual
<1> QED
  BY <1>3, <1>4, <1>5, <1>6, <1>9 DEF HasHead

\* How a character is written.
WrittenAs(w, c) ==
  \/ w = <<c>> /\ c \notin {Quote, Backslash, LineEnd}
  \/ \E e \in DOMAIN Escapes : w = <<Backslash>> \o <<e>> /\ e \in Chars /\ Escapes[e] = c
LEMMA WrittenIs ==
  ASSUME NEW c \in Chars
  PROVE  Written(c) \in Texts /\ WrittenAs(Written(c), c)
<1>1. DOMAIN Escapes = {Quote, Backslash, "n", "f", "c"}
  BY DEF Escapes
<1>2. Escapes[Quote] = Quote /\ Escapes[Backslash] = Backslash /\ Escapes["n"] = LineEnd
  BY DEF Escapes, Quote, Backslash
<1>3. \A e \in DOMAIN Escapes : e \in Chars
  BY <1>1 DEF Chars, Letters, Quote, Backslash
<1>4. CASE \E e \in DOMAIN Escapes : Escapes[e] = c
  <2>1. PICK e : e = CHOOSE d \in DOMAIN Escapes : Escapes[d] = c
    OBVIOUS
  <2>2. e \in DOMAIN Escapes /\ Escapes[e] = c
    BY <1>4, <2>1
  <2>3. Written(c) = <<Backslash, e>>
    BY <1>4, <2>1 DEF Written
  <2>4. <<Backslash, e>> = <<Backslash>> \o <<e>>
    OBVIOUS
  <2>5. Backslash \in Chars /\ e \in Chars
    BY <1>3, <2>2 DEF Chars
  <2>6. <<Backslash>> \o <<e>> \in Texts
    BY <2>5, TextsOn
  <2> QED
    BY <2>2, <2>3, <2>4, <2>5, <2>6 DEF WrittenAs
<1>5. CASE ~\E e \in DOMAIN Escapes : Escapes[e] = c
  <2>1. Written(c) = <<c>>
    BY <1>5 DEF Written
  <2>2. c \notin {Quote, Backslash, LineEnd}
    BY <1>1, <1>2, <1>5
  <2>3. <<c>> \in Texts
    BY TextsOn
  <2> QED
    BY <2>1, <2>2, <2>3 DEF WrittenAs
<1> QED
  BY <1>4, <1>5

\* And a text.
Bodies(v) == [i \in DOMAIN v |-> Written(v[i])]
Body(v) == FlattenSeq(Bodies(v))
LEMMA BodyIs ==
  ASSUME NEW v \in Texts, NEW c \in Chars
  PROVE  Body(v) \in Texts /\ Body(<<>>) = <<>> /\ Body(<<c>> \o v) = Written(c) \o Body(v)
<1>1. PICK n, b, z, a : n = Len(v) /\ b = Bodies(v) /\ z = <<c>> \o v /\ a = Written(c)
  OBVIOUS
<1>2. n \in Nat /\ DOMAIN v = 1 .. n /\ v \in Seq(Chars)
  BY <1>1, TextIs DEF Texts
<1>3. b \in Seq(Texts) /\ Len(b) = n /\ \A i \in 1 .. n : b[i] = Written(v[i])
  <2>1. ASSUME NEW i \in 1 .. n PROVE Written(v[i]) \in Texts
    BY <1>2, WrittenIs
  <2>2. b \in [1 .. n -> Texts]
    BY <1>1, <1>2, <2>1 DEF Bodies
  <2> QED
    BY <1>1, <1>2, <2>2 DEF Bodies
<1>4. z \in Seq(Chars) /\ Len(z) = n + 1 /\ z[1] = c /\ \A i \in 1 .. n : z[i + 1] = v[i]
  BY <1>1, <1>2, HeadOn
<1>5. a \in Texts
  BY <1>1, WrittenIs
<1>6. PICK y : y = <<a>> \o b
  OBVIOUS
<1>7. y \in Seq(Texts) /\ Len(y) = n + 1 /\ y[1] = a /\ \A i \in 1 .. n : y[i + 1] = b[i]
  BY <1>3, <1>5, <1>6, HeadOn
<1>8. PICK d : d = Bodies(z)
  OBVIOUS
<1>9. d \in Seq(Texts) /\ Len(d) = n + 1 /\ \A i \in 1 .. n + 1 : d[i] = Written(z[i])
  <2>1. DOMAIN z = 1 .. n + 1 /\ n + 1 \in Nat
    BY <1>2, <1>4
  <2>2. ASSUME NEW i \in 1 .. n + 1 PROVE Written(z[i]) \in Texts
    BY <1>4, <2>1, WrittenIs
  <2>3. d \in [1 .. n + 1 -> Texts]
    BY <1>8, <2>1, <2>2 DEF Bodies
  <2> QED
    BY <1>8, <2>1, <2>3 DEF Bodies
<1>10. ASSUME NEW i \in 1 .. n + 1 PROVE d[i] = y[i]
  <2>1. CASE i = 1
    BY <1>1, <1>4, <1>7, <1>9, <2>1
  <2>2. CASE i # 1
    <3>1. i - 1 \in 1 .. n /\ (i - 1) + 1 = i
      BY <1>2, <2>2
    <3>2. z[(i - 1) + 1] = v[i - 1] /\ y[(i - 1) + 1] = b[i - 1] /\ b[i - 1] = Written(v[i - 1])
      BY <1>3, <1>4, <1>7, <3>1
    <3> QED
      BY <1>9, <3>1, <3>2
  <2> QED
    BY <2>1, <2>2
<1>11. d = y
  BY <1>7, <1>9, <1>10, SeqEqual
<1>12. FlattenSeq(y) = a \o FlattenSeq(b) /\ FlattenSeq(b) \in Texts /\ FlattenSeq(<<>>) = <<>>
  BY <1>3, <1>5, <1>6, FlatHead
<1>13. Bodies(<<>>) = <<>>
  BY DEF Bodies
<1> QED
  BY <1>1, <1>8, <1>11, <1>12, <1>13 DEF Body

\* What a reader of strings makes of it.
StringRead(r, x, v, p) ==
  Stands(x, p, Body(v) \o <<Quote>>) => r[p] = [at |-> p + Len(Body(v)) + 1, text |-> v]
LEMMA StringReadOne ==
  ASSUME NEW x \in Texts, NEW r, Strings(r, x, Escapes), NEW c \in Chars, NEW u \in Texts,
         \A p : StringRead(r, x, u, p), NEW p
  PROVE  StringRead(r, x, <<c>> \o u, p)
<1>1. PICK w, b, v, e : w = Written(c) /\ b = Body(u) /\ v = <<c>> \o u /\ e = <<Quote>>
  OBVIOUS
<1>2. w \in Texts /\ b \in Texts /\ v \in Texts /\ e \in Texts /\ Body(v) = w \o b
  <2>1. Quote \in Chars
    BY DEF Chars
  <2>2. <<c>> \in Texts
    BY TextsOn
  <2> QED
    BY <1>1, <2>1, <2>2, WrittenIs, BodyIs, TextsOn
<1>3. SUFFICES ASSUME Stands(x, p, Body(v) \o e)
               PROVE  r[p] = [at |-> p + Len(Body(v)) + 1, text |-> v]
  BY <1>1 DEF StringRead
<1>4. (w \o b) \o e = w \o (b \o e) /\ b \o e \in Texts /\ Len(w \o b) = Len(w) + Len(b)
  BY <1>2, TextsOn
<1>5. /\ Stands(x, p, w) /\ Stands(x, p + Len(w), b \o e)
      /\ p + Len(w \o (b \o e)) = (p + Len(w)) + Len(b \o e) /\ p + Len(w \o (b \o e)) \in 1 .. Len(x) + 1
      /\ p \in 1 .. Len(x) + 1
  <2>1. Stands(x, p, w \o (b \o e))
    BY <1>2, <1>3, <1>4
  <2> QED
    BY <1>2, <1>4, <2>1, StandsOn
<1>6. PICK n, k, m, q : n = Len(x) /\ k = Len(w) /\ m = Len(b) /\ q = p + k
  OBVIOUS
<1>7. n \in Nat /\ k \in Nat /\ m \in Nat /\ p \in 1 .. n + 1 /\ p + (k + m) + 1 = q + m + 1
  BY <1>2, <1>5, <1>6, TextIs
<1>8. r[q] = [at |-> q + m + 1, text |-> u]
  <2>1. StringRead(r, x, u, q)
    OBVIOUS
  <2> QED
    BY <1>1, <1>5, <1>6, <2>1 DEF StringRead
<1>9. r[p] = StringAt(r, x, p, Escapes)
  <2>1. p \in 1 .. Len(x) + 2
    BY <1>6, <1>7
  <2> QED
    BY <2>1 DEF Strings
<1>10. PICK rest : rest = r[q]
  OBVIOUS
<1>11. rest # Failed /\ rest.at = q + m + 1 /\ rest.text = u
  <2>1. DOMAIN rest = {"at", "text"}
    BY <1>8, <1>10
  <2>2. DOMAIN Failed = {"at"}
    BY DEF Failed
  <2> QED
    BY <1>8, <1>10, <2>1, <2>2
<1>12. p + Len(Body(v)) + 1 = q + m + 1
  BY <1>2, <1>4, <1>6, <1>7
<1>13. SUFFICES r[p] = [at |-> rest.at, text |-> v]
  BY <1>11, <1>12
<1>14. WrittenAs(w, c)
  BY <1>1, WrittenIs
<1>15. CASE w = <<c>> /\ c \notin {Quote, Backslash, LineEnd}
  <2>1. x[p] = c /\ p \in 1 .. n
    <3>1. Stands(x, p, <<c>>)
      BY <1>5, <1>15
    <3> QED
      BY <1>6, <3>1, StandsOne
  <2>2. Len(w) = 1
    BY <1>15
  <2>3. q = p + 1 /\ ~(p > n)
    BY <1>6, <1>7, <2>1, <2>2
  <2>4. StringAt(r, x, p, Escapes) = [at |-> rest.at, text |-> <<c>> \o rest.text]
    BY <1>6, <1>10, <1>11, <1>15, <2>1, <2>3 DEF StringAt
  <2> QED
    BY <1>1, <1>9, <1>11, <2>4
<1>16. CASE \E e0 \in DOMAIN Escapes : w = <<Backslash>> \o <<e0>> /\ e0 \in Chars /\ Escapes[e0] = c
  <2>1. PICK d \in DOMAIN Escapes : w = <<Backslash>> \o <<d>> /\ d \in Chars /\ Escapes[d] = c
    BY <1>16
  <2>2. PICK back, one : back = <<Backslash>> /\ one = <<d>>
    OBVIOUS
  <2>3. back \in Texts /\ one \in Texts /\ Backslash \in Chars /\ Len(back) = 1 /\ Len(one) = 1
    <3>1. Backslash \in Chars
      BY DEF Chars
    <3>2. back \in Texts /\ one \in Texts
      BY <2>1, <2>2, <3>1, TextsOn
    <3>3. Len(back) = 1 /\ Len(one) = 1
      BY <2>2
    <3> QED
      BY <3>1, <3>2, <3>3
  <2>4. w = back \o one /\ Len(back \o one) = Len(back) + Len(one)
    BY <2>1, <2>2, <2>3, TextsOn
  <2>5. Stands(x, p, back) /\ Stands(x, p + Len(back), one)
    <3>1. Stands(x, p, back \o one)
      BY <1>5, <2>4
    <3> QED
      BY <2>3, <3>1, StandsOn
  <2>6. x[p] = Backslash /\ p \in 1 .. n
    BY <1>6, <2>2, <2>3, <2>5, StandsOne
  <2>7. x[p + 1] = d /\ p + 1 \in 1 .. n
    BY <1>6, <2>1, <2>2, <2>3, <2>5, StandsOne
  <2>8. q = p + 2 /\ ~(p > n) /\ p + 1 <= n
    <3>1. k = 2
      BY <1>6, <2>3, <2>4
    <3> QED
      BY <1>6, <1>7, <2>6, <2>7, <3>1
  <2>9. Is(x, p + 1, DOMAIN Escapes)
    BY <1>6, <2>7, <2>8 DEF Is
  <2>10. x[p] # LineEnd /\ x[p] # Quote
    BY <2>6, EscapesAre
  <2>11. StringAt(r, x, p, Escapes) = [at |-> rest.at, text |-> <<Escapes[x[p + 1]]>> \o rest.text]
    BY <1>6, <1>10, <1>11, <2>6, <2>8, <2>9, <2>10 DEF StringAt
  <2> QED
    BY <1>1, <1>9, <1>11, <2>1, <2>7, <2>11
<1> QED
  BY <1>14, <1>15, <1>16 DEF WrittenAs

LEMMA StringsRead ==
  ASSUME NEW x \in Texts, NEW r, Strings(r, x, Escapes)
  PROVE  \A v \in Texts : \A p : StringRead(r, x, v, p)
<1> DEFINE P == {n \in Nat : \A v \in Texts : Len(v) = n => \A p : StringRead(r, x, v, p)}
<1>1. 0 \in P
  <2>1. SUFFICES ASSUME NEW v \in Texts, Len(v) = 0, NEW p PROVE StringRead(r, x, v, p)
    OBVIOUS
  <2>2. v = <<>>
    BY <2>1, SeqShort DEF Texts
  <2>3. Body(v) = <<>> /\ Quote \in Chars
    <3>1. Quote \in Chars
      BY DEF Chars
    <3> QED
      BY <2>2, <3>1, BodyIs
  <2>4. <<>> \o <<Quote>> = <<Quote>> /\ Len(<<>>) = 0
    <3>1. <<Quote>> \in Texts
      BY <2>3, TextsOn
    <3> QED
      BY <3>1, TextsOn
  <2>5. SUFFICES ASSUME Stands(x, p, <<Quote>>) PROVE r[p] = [at |-> p + 0 + 1, text |-> <<>>]
    BY <2>2, <2>3, <2>4 DEF StringRead
  <2>6. p \in 1 .. Len(x) /\ x[p] = Quote
    BY <2>3, <2>5, StandsOne
  <2>7. p + 0 + 1 = p + 1 /\ ~(p > Len(x)) /\ p \in 1 .. Len(x) + 2
    <3>1. Len(x) \in Nat
      BY TextIs
    <3> QED
      BY <2>6, <3>1
  <2>8. r[p] = StringAt(r, x, p, Escapes)
    BY <2>7 DEF Strings
  <2>9. x[p] # LineEnd
    BY <2>6, EscapesAre
  <2> QED
    BY <2>6, <2>7, <2>8, <2>9 DEF StringAt
<1>2. ASSUME NEW n \in Nat, n \in P PROVE n + 1 \in P
  <2>1. SUFFICES ASSUME NEW v \in Texts, Len(v) = n + 1, NEW p PROVE StringRead(r, x, v, p)
    OBVIOUS
  <2>2. Len(v) > 0 /\ v \in Seq(Chars)
    BY <2>1 DEF Texts
  <2>3. PICK c \in Chars : \E u \in Seq(Chars) : v = <<c>> \o u /\ Len(v) = Len(u) + 1
    <3>1. HasHead(Chars, v)
      BY <2>2, HeadOf
    <3> QED
      BY <3>1 DEF HasHead
  <2>4. PICK u \in Seq(Chars) : v = <<c>> \o u /\ Len(v) = Len(u) + 1
    BY <2>3
  <2>5. u \in Texts /\ Len(u) = n
    BY <2>1, <2>4 DEF Texts
  <2>6. \A q : StringRead(r, x, u, q)
    BY <1>2, <2>5
  <2>7. StringRead(r, x, <<c>> \o u, p)
    BY <2>5, <2>6, StringReadOne
  <2> QED
    BY <2>4, <2>7
<1> HIDE DEF P
<1>3. \A n \in Nat : n \in P
  BY <1>1, <1>2, Induct
<1>4. ASSUME NEW v \in Texts, NEW p PROVE StringRead(r, x, v, p)
  <2>1. Len(v) \in P
    BY <1>3, TextIs
  <2> QED
    BY <2>1 DEF P
<1> QED
  BY <1>4

\* A string is read as what it says.
LEMMA SpellsString ==
  ASSUME NEW v \in Texts
  PROVE  Spells(QuoteString(v), <<Token("string", v)>>, Chars) /\ QuoteString(v)[1] = Quote
<1>1. PICK w, b, e : w = QuoteString(v) /\ b = Body(v) /\ e = <<Quote>>
  OBVIOUS
<1>2. e \in Texts /\ b \in Texts /\ Quote \in Chars /\ b \o e \in Texts
  <2>1. Quote \in Chars
    BY DEF Chars
  <2>2. e \in Texts /\ b \in Texts
    BY <1>1, <2>1, BodyIs, TextsOn
  <2> QED
    BY <2>1, <2>2, TextsOn
<1>3. Len(e) = 1 /\ e[1] = Quote
  BY <1>1
<1>4. w = e \o (b \o e)
  <2>1. w = e \o b \o e
    BY <1>1 DEF QuoteString, Body, Bodies
  <2>2. (e \o b) \o e = e \o (b \o e)
    BY <1>2, TextsOn
  <2> QED
    BY <2>1, <2>2
<1>5. w \in Texts /\ Len(w) = 1 + (Len(b) + 1) /\ Len(b) \in Nat /\ Len(b \o e) = Len(b) + 1
  <2>1. Len(b \o e) = Len(b) + Len(e) /\ Len(e \o (b \o e)) = Len(e) + Len(b \o e)
    BY <1>2, TextsOn
  <2>2. w \in Texts
    BY <1>2, <1>4, TextsOn
  <2> QED
    BY <1>2, <1>3, <1>4, <2>1, <2>2, TextIs
<1>6. ASSUME NEW x \in Texts, NEW p, Stands(x, p, w)
      PROVE  TokenOf(x, p, Escapes, p + Len(w), <<Token("string", v)>>)
  <2>1. Stands(x, p, e) /\ Stands(x, p + Len(e), b \o e) /\ p \in 1 .. Len(x) + 1
    <3>1. Stands(x, p, e \o (b \o e))
      BY <1>4, <1>6
    <3> QED
      BY <1>2, <3>1, StandsOn
  <2>2. x[p] = Quote /\ p \in 1 .. Len(x)
    BY <1>1, <1>2, <2>1, StandsOne
  <2>3. PICK r : Strings(r, x, Escapes) /\ \A i : String(x, i, Escapes) = r[i]
    BY StringsAre
  <2>4. PICK q : q = p + 1
    OBVIOUS
  <2>5. r[q] = [at |-> q + Len(b) + 1, text |-> v]
    <3>1. StringRead(r, x, v, q)
      BY <2>3, StringsRead
    <3>2. Stands(x, q, b \o e)
      BY <1>3, <2>1, <2>4
    <3> QED
      BY <1>1, <3>1, <3>2 DEF StringRead
  <2>6. PICK str : str = String(x, p + 1, Escapes)
    OBVIOUS
  <2>7. str = [at |-> q + Len(b) + 1, text |-> v]
    BY <2>3, <2>4, <2>5, <2>6
  <2>8. str # Failed /\ str.at = q + Len(b) + 1 /\ str.text = v
    <3>1. DOMAIN str = {"at", "text"}
      BY <2>7
    <3>2. DOMAIN Failed = {"at"}
      BY DEF Failed
    <3> QED
      BY <2>7, <3>1, <3>2
  <2>9. TokenOf(x, p, Escapes, str.at, <<Token("string", str.text)>>)
    BY <2>2, <2>6, <2>8, TokenIs
  <2>10. str.at = p + Len(w)
    <3>1. Len(x) \in Nat
      BY TextIs
    <3> QED
      BY <1>5, <2>2, <2>4, <2>8, <3>1
  <2> QED
    BY <2>8, <2>9, <2>10
<1>7. Read(w, <<Token("string", v)>>, Chars)
  BY <1>6 DEF Read
<1>8. <<Token("string", v)>> \in Seq(Tokens) /\ Len(w) > 0
  BY <1>5, TokenMade
<1>9. Spells(w, <<Token("string", v)>>, Chars)
  BY <1>5, <1>7, <1>8, SpellsRead
<1>10. w[1] = Quote
  <2>1. /\ \A i \in 1 .. Len(e) : (e \o (b \o e))[i] = e[i]
    BY <1>2, SeqOn DEF Texts
  <2> QED
    BY <1>3, <1>4, <2>1
<1> QED
  BY <1>1, <1>9, <1>10

-----------------------------------------------------------------------------
(* Numbers.                                                                *)

\* Where the digits of a number are that are written: from the first to the last that is no zero,
\* and the units in any case.
Dot(t, i) == t[i] = "."
One(t, i) == t[i] # "0" /\ t[i] # "."
Units(t, u) ==
  /\ u \in 1 .. Len(t) /\ \A i \in 1 .. Len(t) : Dot(t, i) => i >= u + 1
  /\ u = Len(t) \/ Dot(t, u + 1)
Ones(t, u, a, b) ==
  /\ a \in 1 .. u /\ b \in u .. Len(t)
  /\ a = u \/ One(t, a)
  /\ b = u \/ One(t, b)
  /\ \A i \in 1 .. Len(t) : One(t, i) => a <= i /\ i <= b

LEMMA UnitsAre ==
  ASSUME NEW t \in Texts, Len(t) > 0, ~Dot(t, 1)
  PROVE  /\ Units(t, Min(Places(t, {"."}) \cup {Len(t) + 1}) - 1)
         /\ \A u : Units(t, u) => u = Min(Places(t, {"."}) \cup {Len(t) + 1}) - 1
<1>1. PICK n, T, m : n = Len(t) /\ T = Places(t, {"."}) \cup {Len(t) + 1} /\ m = Min(T)
  OBVIOUS
<1>2. n \in Nat /\ n > 0 /\ DOMAIN t = 1 .. n
  BY <1>1, TextIs
<1>3. \A i : i \in T <=> (i \in 1 .. n /\ Dot(t, i)) \/ i = n + 1
  BY <1>1, <1>2 DEF Places, Dot
<1>4. T \in SUBSET (0 .. n + 1) /\ T # {} /\ n + 1 \in Nat
  BY <1>2, <1>3
<1>5. m \in T /\ \A y \in T : m <= y
  BY <1>1, <1>4, Least
<1>6. Units(t, m - 1)
  <2>1. m \in 2 .. n + 1
    <3>1. m # 1
      BY <1>2, <1>3, <1>5
    <3>2. m \in 1 .. n + 1
      BY <1>2, <1>3, <1>5
    <3> QED
      BY <1>2, <3>1, <3>2
  <2>2. m - 1 \in 1 .. n /\ (m - 1) + 1 = m
    BY <1>2, <2>1
  <2>3. \A i \in 1 .. n : Dot(t, i) => i >= m
    BY <1>2, <1>3, <1>4, <1>5
  <2>4. m - 1 = n \/ Dot(t, m)
    BY <1>2, <1>3, <1>5
  <2> QED
    BY <1>1, <2>2, <2>3, <2>4 DEF Units
<1>7. ASSUME NEW u, Units(t, u) PROVE u = m - 1
  <2>1. u \in 1 .. n /\ u + 1 \in T
    <3>1. u \in 1 .. n /\ (u = n \/ Dot(t, u + 1))
      BY <1>1, <1>7 DEF Units
    <3>2. u = n => u + 1 \in T
      BY <1>3
    <3>3. u # n => u + 1 \in 1 .. n
      BY <1>2, <3>1
    <3> QED
      BY <1>3, <3>1, <3>2, <3>3
  <2>2. m <= u + 1
    BY <1>5, <2>1
  <2>3. m >= u + 1
    <3>1. CASE m = n + 1
      BY <1>2, <2>1, <3>1
    <3>2. CASE m \in 1 .. n /\ Dot(t, m)
      BY <1>1, <1>7, <3>2 DEF Units
    <3> QED
      BY <1>3, <1>5, <3>1, <3>2
  <2> QED
    BY <1>4, <1>5, <2>1, <2>2, <2>3
<1> QED
  BY <1>1, <1>6, <1>7

LEMMA OnesAre ==
  ASSUME NEW t \in Texts, NEW u, Units(t, u)
  PROVE  LET T == {i \in DOMAIN t : t[i] # "0" /\ t[i] # "."} \cup {u}
         IN Ones(t, u, Min(T), Max(T)) /\ \A a, b : Ones(t, u, a, b) => a = Min(T) /\ b = Max(T)
<1>1. PICK n, T, x, y : /\ n = Len(t) /\ T = {i \in DOMAIN t : t[i] # "0" /\ t[i] # "."} \cup {u}
                        /\ x = Min(T) /\ y = Max(T)
  OBVIOUS
<1>2. n \in Nat /\ DOMAIN t = 1 .. n /\ u \in 1 .. n
  BY <1>1, TextIs DEF Units
<1>3. \A i : i \in T <=> (i \in 1 .. n /\ One(t, i)) \/ i = u
  BY <1>1, <1>2 DEF One
<1>4. T \in SUBSET (0 .. n) /\ T # {}
  BY <1>2, <1>3
<1>5. x \in T /\ y \in T /\ \A i \in T : x <= i /\ i <= y
  BY <1>1, <1>2, <1>4, Least, Greatest
<1>6. Ones(t, u, x, y)
  <2>1. x \in 1 .. n /\ y \in 1 .. n
    BY <1>2, <1>3, <1>5
  <2>2. x <= u /\ u <= y
    BY <1>3, <1>5
  <2>3. x \in 1 .. u /\ y \in u .. n
    BY <1>2, <2>1, <2>2
  <2>4. (x = u \/ One(t, x)) /\ (y = u \/ One(t, y))
    BY <1>3, <1>5
  <2>5. \A i \in 1 .. n : One(t, i) => x <= i /\ i <= y
    BY <1>3, <1>5
  <2> QED
    BY <1>1, <2>3, <2>4, <2>5 DEF Ones
<1>7. ASSUME NEW a, NEW b, Ones(t, u, a, b) PROVE a = x /\ b = y
  <2>1. a \in 1 .. u /\ b \in u .. n
    BY <1>1, <1>7 DEF Ones
  <2>2. a \in T /\ b \in T
    <3>1. a \in 1 .. n /\ b \in 1 .. n
      BY <1>2, <2>1
    <3> QED
      BY <1>3, <1>7, <3>1 DEF Ones
  <2>3. x <= a /\ b <= y
    BY <1>5, <2>2
  <2>4. ASSUME NEW i \in T PROVE a <= i /\ i <= b
    <3>1. CASE i = u
      BY <1>2, <2>1, <3>1
    <3>2. CASE i \in 1 .. n /\ One(t, i)
      BY <1>1, <1>7, <3>2 DEF Ones
    <3> QED
      BY <1>3, <3>1, <3>2
  <2>5. a <= x /\ y <= b
    BY <1>5, <2>4
  <2>6. x \in Int /\ y \in Int
    BY <1>4, <1>5
  <2> QED
    BY <1>2, <2>1, <2>3, <2>5, <2>6
<1> QED
  BY <1>1, <1>6, <1>7

\* More than one dot or not.
LEMMA DotsAre ==
  ASSUME NEW t \in Texts
  PROVE  Dots(t) <= 1 <=> \A i, j \in 1 .. Len(t) : Dot(t, i) /\ Dot(t, j) => i = j
<1>1. PICK n, T : n = Len(t) /\ T = Places(t, {"."})
  OBVIOUS
<1>2. n \in Nat /\ DOMAIN t = 1 .. n
  BY <1>1, TextIs
<1>3. \A i : i \in T <=> i \in 1 .. n /\ Dot(t, i)
  BY <1>1, <1>2 DEF Places, Dot
<1>4. IsFiniteSet(T) /\ Cardinality(T) \in Nat
  <2>1. T \in SUBSET (1 .. n) /\ IsFiniteSet(1 .. n)
    BY <1>2, <1>3, FS_Interval
  <2>2. IsFiniteSet(T)
    BY <2>1, FS_Subset
  <2> QED
    BY <2>2, FS_CardinalityType
<1>5. ASSUME Cardinality(T) <= 1, NEW i \in T, NEW j \in T PROVE i = j
  <2>1. SUFFICES ASSUME i # j PROVE FALSE
    OBVIOUS
  <2>2. PICK S : S = T \ {i}
    OBVIOUS
  <2>3. IsFiniteSet(S) /\ Cardinality(S) = Cardinality(T) - 1
    BY <1>4, <2>2, FS_RemoveElement
  <2>4. Cardinality(S) = 0
    <3>1. Cardinality(S) \in Nat
      BY <2>3, FS_CardinalityType
    <3> QED
      BY <1>4, <1>5, <2>3, <3>1
  <2>5. S = {}
    BY <2>3, <2>4, FS_EmptySet
  <2> QED
    BY <2>1, <2>2, <2>5
<1>6. ASSUME \A i, j \in T : i = j PROVE Cardinality(T) <= 1
  <2>1. CASE T = {}
    BY <2>1, FS_EmptySet
  <2>2. CASE T # {}
    <3>1. PICK i : T = {i}
      BY <1>6, <2>2
    <3> QED
      BY <3>1, FS_Singleton
  <2> QED
    BY <2>1, <2>2
<1>7. Dots(t) = Cardinality(T)
  BY <1>1 DEF Dots
<1> QED
  BY <1>1, <1>3, <1>5, <1>6, <1>7

\* A number as it is written in decimals.
LEMMA NumberIs ==
  ASSUME NEW t, MadeNumber(t), InDecimals(t)
  PROVE  /\ \E u : Units(t, u) /\ \E a, b : Ones(t, u, a, b)
         /\ \A u, a, b : Units(t, u) /\ Ones(t, u, a, b) => NumberOf(t) = SubSeq(t, a, b)
<1>1. t \in Texts /\ Len(t) > 0 /\ ~Dot(t, 1)
  BY DEF MadeNumber, IsNumber, Dot
<1>2. PICK v : v = Min(Places(t, {"."}) \cup {Len(t) + 1}) - 1
  OBVIOUS
<1>3. Units(t, v) /\ \A u : Units(t, u) => u = v
  BY <1>1, <1>2, UnitsAre
<1>4. PICK T, x, y : T = {i \in DOMAIN t : t[i] # "0" /\ t[i] # "."} \cup {v} /\ x = Min(T) /\ y = Max(T)
  OBVIOUS
<1>5. Ones(t, v, x, y) /\ \A a, b : Ones(t, v, a, b) => a = x /\ b = y
  BY <1>1, <1>3, <1>4, OnesAre
<1>6. NumberOf(t) = SubSeq(t, x, y)
  <2>1. T = Ciphers(t) \cup {Unit(t)}
    BY <1>2, <1>4 DEF Ciphers, Unit
  <2> QED
    BY <1>4, <2>1 DEF NumberOf
<1> QED
  BY <1>3, <1>5, <1>6

\* It is a number, and written as it is.
LEMMA NumberAgain ==
  ASSUME NEW t, MadeNumber(t), InDecimals(t)
  PROVE  /\ MadeNumber(NumberOf(t)) /\ InDecimals(NumberOf(t))
         /\ NumberOf(NumberOf(t)) = NumberOf(t)
<1>1. PICK u, a, b : Units(t, u) /\ Ones(t, u, a, b)
  BY NumberIs
<1>2. PICK w, n, m : w = NumberOf(t) /\ n = Len(t) /\ m = b + 1 - a
  OBVIOUS
<1>3. t \in Texts /\ n \in Nat /\ u \in 1 .. n /\ a \in 1 .. u /\ b \in u .. n
  BY <1>1, <1>2, TextIs DEF MadeNumber, Units, Ones
<1>4. m \in Nat \ {0} /\ a \in Nat \ {0} /\ b \in Nat /\ a <= b + 1 /\ b <= n
  BY <1>2, <1>3
<1>5. w = SubSeq(t, a, b)
  BY <1>1, <1>2, NumberIs
<1>6. w \in Texts /\ Len(w) = m /\ \A k \in 1 .. m : w[k] = t[a + k - 1]
  BY <1>2, <1>3, <1>4, <1>5, TextPart
<1>7. \A k \in 1 .. m : a + k - 1 \in 1 .. n
  BY <1>2, <1>3
<1>8. \A k \in 1 .. m : (Dot(w, k) <=> Dot(t, a + k - 1)) /\ (One(w, k) <=> One(t, a + k - 1))
  BY <1>6 DEF Dot, One
<1>9. ~Dot(t, a) /\ ~Dot(t, b)
  <2>1. ~Dot(t, u)
    <3>1. u \in 1 .. Len(t) /\ ~(u >= u + 1)
      BY <1>2, <1>3
    <3> QED
      BY <1>1, <3>1 DEF Units
  <2>2. \A i : One(t, i) => ~Dot(t, i)
    BY DEF One, Dot
  <2> QED
    BY <1>1, <2>1, <2>2 DEF Ones
<1>10. MadeNumber(w)
  <2>1. \A k \in 1 .. m : w[k] \in Digits \cup {"."}
    BY <1>2, <1>6, <1>7 DEF MadeNumber
  <2>2. ~Dot(w, 1) /\ ~Dot(w, m)
    <3>1. 1 \in 1 .. m /\ m \in 1 .. m /\ a + 1 - 1 = a /\ a + m - 1 = b
      BY <1>2, <1>3, <1>4
    <3>2. (Dot(w, 1) <=> Dot(t, a + 1 - 1)) /\ (Dot(w, m) <=> Dot(t, a + m - 1))
      BY <1>8, <3>1
    <3> QED
      BY <1>9, <3>1, <3>2
  <2>3. ASSUME NEW i \in 1 .. m - 1 PROVE ~(Dot(w, i) /\ Dot(w, i + 1))
    <3>1. /\ i \in 1 .. m /\ i + 1 \in 1 .. m /\ a + i - 1 \in 1 .. n - 1
          /\ a + (i + 1) - 1 = (a + i - 1) + 1
      BY <1>2, <1>3, <1>4
    <3>2. ~(Dot(t, a + i - 1) /\ Dot(t, (a + i - 1) + 1))
      BY <1>2, <3>1 DEF MadeNumber, IsNumber, Dot
    <3>3. (Dot(w, i) <=> Dot(t, a + i - 1)) /\ (Dot(w, i + 1) <=> Dot(t, a + (i + 1) - 1))
      BY <1>8, <3>1
    <3> QED
      BY <3>1, <3>2, <3>3
  <2>4. IsNumber(w)
    BY <1>6, <2>2, <2>3 DEF IsNumber, Dot
  <2>5. Len(w) > 0
    BY <1>4, <1>6
  <2> QED
    BY <1>6, <2>1, <2>4, <2>5 DEF MadeNumber
<1>11. Dots(t) <= 1 /\ Dots(w) <= 1
  <2>0. Dots(t) <= 1
    BY DEF InDecimals
  <2>1. ASSUME NEW i \in 1 .. m, NEW j \in 1 .. m, Dot(w, i), Dot(w, j) PROVE i = j
    <3>1. a + i - 1 \in 1 .. n /\ a + j - 1 \in 1 .. n
      BY <1>7
    <3>2. Dot(t, a + i - 1) /\ Dot(t, a + j - 1)
      BY <1>8, <2>1
    <3>3. a + i - 1 = a + j - 1
      BY <1>2, <1>3, <2>0, <3>1, <3>2, DotsAre
    <3> QED
      BY <1>4, <3>3
  <2> QED
    BY <1>6, <2>0, <2>1, DotsAre
<1>12. PICK v : v = u + 1 - a
  OBVIOUS
<1>13. v \in 1 .. m /\ a + v - 1 = u /\ a + (v + 1) - 1 = u + 1
  BY <1>2, <1>3, <1>12
<1>14. Units(w, v)
  <2>1. ASSUME NEW i \in 1 .. m, Dot(w, i) PROVE i >= v + 1
    <3>1. a + i - 1 \in 1 .. n /\ Dot(t, a + i - 1)
      BY <1>7, <1>8, <2>1
    <3>2. a + i - 1 >= u + 1
      BY <1>1, <1>2, <3>1 DEF Units
    <3> QED
      BY <1>3, <1>12, <3>2
  <2>2. v = m \/ Dot(w, v + 1)
    <3>1. SUFFICES ASSUME v # m PROVE Dot(w, v + 1)
      OBVIOUS
    <3>2. v + 1 \in 1 .. m /\ u # n
      BY <1>2, <1>3, <1>13, <3>1
    <3>3. Dot(t, u + 1)
      BY <1>1, <1>2, <3>2 DEF Units
    <3>4. Dot(w, v + 1) <=> Dot(t, a + (v + 1) - 1)
      BY <1>8, <3>2
    <3> QED
      BY <1>13, <3>3, <3>4
  <2> QED
    BY <1>6, <1>13, <2>1, <2>2 DEF Units
<1>15. Ones(w, v, 1, m)
  <2>1. 1 \in 1 .. v /\ m \in v .. m /\ 1 \in 1 .. m /\ m \in 1 .. m
        /\ a + 1 - 1 = a /\ a + m - 1 = b
    BY <1>2, <1>3, <1>13
  <2>2. 1 = v \/ One(w, 1)
    <3>1. a = u \/ One(t, a)
      BY <1>1 DEF Ones
    <3>2. a = u => 1 = v
      BY <1>3, <1>12
    <3>3. One(w, 1) <=> One(t, a + 1 - 1)
      BY <1>8, <2>1
    <3> QED
      BY <2>1, <3>1, <3>2, <3>3
  <2>3. m = v \/ One(w, m)
    <3>1. b = u \/ One(t, b)
      BY <1>1 DEF Ones
    <3>2. b = u => m = v
      BY <1>2, <1>3, <1>12
    <3>3. One(w, m) <=> One(t, a + m - 1)
      BY <1>8, <2>1
    <3> QED
      BY <2>1, <3>1, <3>2, <3>3
  <2>4. \A i \in 1 .. m : 1 <= i /\ i <= m
    BY <1>4
  <2> QED
    BY <1>6, <2>1, <2>2, <2>3, <2>4 DEF Ones
<1>16. InDecimals(w)
  <2>1. Unit(t) = u /\ Unit(w) = v
    <3>1. Len(t) > 0 /\ ~Dot(t, 1) /\ Len(w) > 0 /\ ~Dot(w, 1)
      BY <1>10 DEF MadeNumber, IsNumber, Dot
    <3> QED
      BY <1>1, <1>3, <1>6, <1>14, <3>1, UnitsAre DEF Unit
  <2>2. /\ \A i : i \in Ciphers(t) <=> i \in 1 .. n /\ One(t, i)
        /\ \A k : k \in Ciphers(w) <=> k \in 1 .. m /\ One(w, k)
    BY <1>2, <1>3, <1>6, TextIs DEF Ciphers, One
  <2>3. ASSUME NEW k \in Ciphers(w) PROVE k >= v - 20 /\ Ciphers(t) # {}
    <3>1. k \in 1 .. m /\ a + k - 1 \in Ciphers(t)
      BY <1>7, <1>8, <2>2, <2>3
    <3>2. a + k - 1 >= u - 20
      BY <2>1, <3>1 DEF InDecimals
    <3> QED
      BY <1>3, <1>12, <3>1, <3>2
  <2>4. ASSUME NEW i \in Ciphers(t), i <= u + 7
        PROVE  i + 1 - a \in Ciphers(w) /\ i + 1 - a <= v + 7
    <3>1. i \in 1 .. n /\ One(t, i) /\ a <= i /\ i <= b
      BY <1>1, <1>2, <2>2, <2>4 DEF Ones
    <3>2. i + 1 - a \in 1 .. m /\ a + (i + 1 - a) - 1 = i
      BY <1>2, <1>3, <3>1
    <3>3. One(w, i + 1 - a)
      BY <1>8, <3>1, <3>2
    <3> QED
      BY <1>3, <1>12, <2>2, <2>4, <3>1, <3>2, <3>3
  <2>5. Ciphers(w) # {} => \E k \in Ciphers(w) : k <= v + 7
    <3>1. SUFFICES ASSUME Ciphers(w) # {} PROVE \E k \in Ciphers(w) : k <= v + 7
      OBVIOUS
    <3>2. Ciphers(t) # {}
      BY <2>3, <3>1
    <3>3. PICK i \in Ciphers(t) : i <= u + 7
      BY <2>1, <3>2 DEF InDecimals
    <3> QED
      BY <2>4, <3>3
  <2> QED
    BY <1>11, <2>1, <2>3, <2>5 DEF InDecimals
<1>17. NumberOf(w) = SubSeq(w, 1, m)
  BY <1>10, <1>14, <1>15, <1>16, NumberIs
<1>18. SubSeq(w, 1, m) = w
  <2>1. PICK z : z = SubSeq(w, 1, m)
    OBVIOUS
  <2>2. z \in Texts /\ Len(z) = m + 1 - 1 /\ \A k \in 1 .. m + 1 - 1 : z[k] = w[1 + k - 1]
    <3>1. 1 \in Nat \ {0} /\ m \in Nat /\ 1 <= m + 1 /\ m <= Len(w)
      BY <1>4, <1>6
    <3> QED
      BY <1>6, <2>1, <3>1, TextPart
  <2>3. Len(z) = m /\ \A k \in 1 .. m : z[k] = w[k]
    BY <1>4, <2>2
  <2>4. z = w
    BY <1>6, <2>2, <2>3, SeqEqual DEF Texts
  <2> QED
    BY <2>1, <2>4
<1> QED
  BY <1>2, <1>10, <1>16, <1>17, <1>18

-----------------------------------------------------------------------------
(* What tokens are read as.                                                *)

\* Tokens that stand at a place, with more behind them.
At(z, k, c) ==
  /\ k \in 1 .. Len(z) /\ k + Len(c) \in k .. Len(z)
  /\ \A i \in 1 .. Len(c) : z[k + i - 1] = c[i]
LEMMA AtOn ==
  ASSUME NEW z, WellMade(z), NEW k, NEW c \in Seq(Tokens), NEW d \in Seq(Tokens), At(z, k, c \o d)
  PROVE  /\ At(z, k, c) /\ At(z, k + Len(c), d) /\ k + Len(c \o d) = (k + Len(c)) + Len(d)
         /\ c \o d \in Seq(Tokens)
<1>1. PICK u, m, l, n : u = c \o d /\ m = Len(c) /\ l = Len(d) /\ n = Len(z)
  OBVIOUS
<1>2. m \in Nat /\ l \in Nat /\ n \in Nat
  BY <1>1 DEF WellMade
<1>3. /\ u \in Seq(Tokens) /\ Len(u) = m + l /\ \A i \in 1 .. m : u[i] = c[i]
      /\ \A i \in 1 .. l : u[i + m] = d[i]
  BY <1>1, SeqOn
<1>4. /\ k \in 1 .. n /\ k + (m + l) \in k .. n
      /\ \A i \in 1 .. m + l : z[k + i - 1] = u[i]
  BY <1>1, <1>3 DEF At
<1>5. At(z, k, c)
  <2>1. \A i \in 1 .. m : i \in 1 .. m + l
    BY <1>2
  <2>2. \A i \in 1 .. m : z[k + i - 1] = c[i]
    BY <1>3, <1>4, <2>1
  <2>3. k + m \in k .. n
    BY <1>2, <1>4
  <2> QED
    BY <1>1, <1>4, <2>2, <2>3 DEF At
<1>6. At(z, k + m, d)
  <2>1. \A i \in 1 .. l : i + m \in 1 .. m + l /\ k + (i + m) - 1 = (k + m) + i - 1
    BY <1>2, <1>4
  <2>2. ASSUME NEW i \in 1 .. l PROVE z[(k + m) + i - 1] = d[i]
    <3>1. z[k + (i + m) - 1] = u[i + m]
      BY <1>4, <2>1
    <3> QED
      BY <1>3, <2>1, <3>1
  <2>3. k + m \in 1 .. n /\ (k + m) + l \in k + m .. n
    BY <1>2, <1>4
  <2> QED
    BY <1>1, <2>2, <2>3 DEF At
<1>7. k + Len(u) = (k + m) + l
  BY <1>2, <1>3, <1>4
<1> QED
  BY <1>1, <1>3, <1>5, <1>6, <1>7

LEMMA AtFirst ==
  ASSUME NEW z, WellMade(z), NEW k, NEW c \in Seq(Tokens), At(z, k, c)
  PROVE  /\ k \in 1 .. Len(z) /\ k + Len(c) \in 1 .. Len(z)
         /\ Len(c) > 0 => z[k] = c[1]
<1>1. PICK m, n : m = Len(c) /\ n = Len(z)
  OBVIOUS
<1>2. m \in Nat /\ n \in Nat /\ k \in 1 .. n /\ k + m \in k .. n
  BY <1>1 DEF At, WellMade
<1>3. k + m \in 1 .. n
  BY <1>2
<1>4. ASSUME m > 0 PROVE z[k] = c[1]
  <2>1. 1 \in 1 .. m /\ k + 1 - 1 = k
    BY <1>2, <1>4
  <2>2. z[k + 1 - 1] = c[1]
    BY <1>1, <2>1 DEF At
  <2> QED
    BY <2>1, <2>2
<1> QED
  BY <1>1, <1>2, <1>3, <1>4

\* With one token in front.
LEMMA AtHead ==
  ASSUME NEW z, WellMade(z), NEW k, NEW t \in Tokens, NEW c \in Seq(Tokens), At(z, k, <<t>> \o c)
  PROVE  /\ k \in 1 .. Len(z) /\ z[k] = t /\ At(z, k + 1, c) /\ k + 1 \in 1 .. Len(z)
         /\ k + Len(<<t>> \o c) = (k + 1) + Len(c) /\ k + Len(<<t>> \o c) \in 1 .. Len(z)
<1>1. PICK one : one = <<t>>
  OBVIOUS
<1>2. one \in Seq(Tokens) /\ Len(one) = 1 /\ one[1] = t
  BY <1>1, SeqShort
<1>3. /\ At(z, k, one) /\ At(z, k + Len(one), c) /\ k + Len(one \o c) = (k + Len(one)) + Len(c)
      /\ one \o c \in Seq(Tokens)
  <2>1. At(z, k, one \o c)
    BY <1>1
  <2> QED
    BY <1>2, <2>1, AtOn
<1>4. k \in 1 .. Len(z) /\ k + Len(one) \in 1 .. Len(z)
  BY <1>2, <1>3, AtFirst
<1>5. z[k] = one[1]
  <2>1. Len(one) > 0
    BY <1>2
  <2> QED
    BY <1>2, <1>3, <2>1, AtFirst
<1>6. k + Len(one \o c) \in 1 .. Len(z)
  <2>1. At(z, k, one \o c)
    BY <1>1
  <2> QED
    BY <1>3, <2>1, AtFirst
<1> QED
  BY <1>1, <1>2, <1>3, <1>4, <1>5, <1>6

\* A last one.
LEMMA AtOne ==
  ASSUME NEW z, WellMade(z), NEW k, NEW t \in Tokens, At(z, k, <<t>>)
  PROVE  /\ k \in 1 .. Len(z) /\ z[k] = t /\ k + 1 \in 1 .. Len(z) /\ k + Len(<<t>>) = k + 1
<1>1. PICK one : one = <<t>>
  OBVIOUS
<1>2. one \in Seq(Tokens) /\ Len(one) = 1 /\ one[1] = t
  BY <1>1, SeqShort
<1>3. Len(one) > 0
  BY <1>2
<1>4. k \in 1 .. Len(z) /\ k + Len(one) \in 1 .. Len(z) /\ z[k] = one[1]
  <2>1. At(z, k, one)
    BY <1>1
  <2> QED
    BY <1>2, <1>3, <2>1, AtFirst
<1> QED
  BY <1>1, <1>2, <1>4

\* No value goes on with such a token.
Free(t) == t.type # "(" /\ t.type # "."
Parsed(read, z) == WellMade(z) /\ Reading(read, z)

\* Wherever tokens stand, a value is read, or an entry, or what a rule reads; items with the
\* closing mark, and entries up to it.
ValueReadsAt(c, x, ps, read, z, k) ==
  At(z, k, c) /\ Free(z[k + Len(c)])
  => Value(read, z, k) = [at |-> k + Len(c), value |-> x, parts |-> ps]
ValueReads(c, x, ps) ==
  c \in Seq(Tokens) /\ Len(c) > 0
  /\ \A read, z : Parsed(read, z) => \A k : ValueReadsAt(c, x, ps, read, z, k)
EntryReadsAt(c, x, ps, read, z, k) ==
  At(z, k, c) /\ Free(z[k + Len(c)])
  => Entry(read, z, k) = [at |-> k + Len(c), value |-> x, parts |-> ps]
EntryReads(c, x, ps) ==
  c \in Seq(Tokens) /\ Len(c) > 0
  /\ \A read, z : Parsed(read, z) => \A k : EntryReadsAt(c, x, ps, read, z, k)
ItemsReadAt(c, rule, xs, ps, read, z, k) ==
  At(z, k, c) => read[k][rule] = [at |-> k + Len(c), items |-> xs, parts |-> ps]
ItemsRead(c, rule, xs, ps) ==
  c \in Seq(Tokens) /\ \A read, z : Parsed(read, z) => \A k : ItemsReadAt(c, rule, xs, ps, read, z, k)
ChainReadsAt(c, xs, ps, read, z, k) ==
  At(z, k, c) /\ Free(z[k + Len(c)])
  => read[k]["chain"] = [at |-> k + Len(c), items |-> xs, parts |-> ps]
ChainReads(c, xs, ps) ==
  c \in Seq(Tokens) /\ \A read, z : Parsed(read, z) => \A k : ChainReadsAt(c, xs, ps, read, z, k)
EntriesReadAt(c, close, xs, ps, read, z, k) ==
  At(z, k, c) /\ z[k + Len(c)].type = close
  => read[k][close] = [at |-> k + Len(c) + 1, items |-> xs, parts |-> ps]
EntriesRead(c, close, xs, ps) ==
  c \in Seq(Tokens)
  /\ \A read, z : Parsed(read, z) => \A k : EntriesReadAt(c, close, xs, ps, read, z, k)

\* What is read is no failure.
LEMMA NotFailed ==
  /\ \A a, i, p : LET r == [at |-> a, items |-> i, parts |-> p]
                  IN r # Failed /\ r.at = a /\ r.items = i /\ r.parts = p
  /\ \A a, v, p : LET r == [at |-> a, value |-> v, parts |-> p]
                  IN r # Failed /\ r.at = a /\ r.value = v /\ r.parts = p
<1>1. ASSUME NEW a, NEW i, NEW p, NEW r, r = [at |-> a, items |-> i, parts |-> p]
      PROVE  r # Failed /\ r.at = a /\ r.items = i /\ r.parts = p
  <2>1. DOMAIN r = {"at", "items", "parts"}
    BY <1>1
  <2>2. DOMAIN Failed = {"at"}
    BY DEF Failed
  <2> QED
    BY <1>1, <2>1, <2>2
<1>2. ASSUME NEW a, NEW v, NEW p, NEW r, r = [at |-> a, value |-> v, parts |-> p]
      PROVE  r # Failed /\ r.at = a /\ r.value = v /\ r.parts = p
  <2>1. DOMAIN r = {"at", "value", "parts"}
    BY <1>2
  <2>2. DOMAIN Failed = {"at"}
    BY DEF Failed
  <2> QED
    BY <1>2, <2>1, <2>2
<1> QED
  BY <1>1, <1>2

\* Values.
LEMMA PlainReads ==
  ASSUME NEW t, Made(t), NEW kind, NEW is,
         \/ t.type = "string" /\ kind = "string" /\ is = t.text
         \/ t.type = "number" /\ kind = "number" /\ is = NumberOf(t.text)
         \/ t.type = "ident" /\ t.text = True /\ kind = "boolean" /\ is = t.text
         \/ t.type = "ident" /\ t.text # True /\ kind = "token" /\ is = t.text
  PROVE  ValueReads(<<t>>, Plain(kind, is), {Plain(kind, is)})
<1>1. PICK c, x : c = <<t>> /\ x = Plain(kind, is)
  OBVIOUS
<1>2. t \in Tokens
  BY MadeIs
<1>3. c \in Seq(Tokens) /\ Len(c) > 0
  <2>1. c \in Seq(Tokens) /\ Len(c) = 1
    BY <1>1, <1>2, SeqShort
  <2> QED
    BY <2>1
<1>4. ASSUME NEW read, NEW z, Parsed(read, z), NEW k, At(z, k, c), Free(z[k + Len(c)])
      PROVE  Value(read, z, k) = [at |-> k + Len(c), value |-> x, parts |-> {x}]
  <2>1. z[k] = t /\ k + Len(c) = k + 1
    BY <1>1, <1>2, <1>4, AtOne DEF Parsed
  <2>2. z[k + 1].type # "("
    BY <1>4, <2>1 DEF Free
  <2>3. ValueGoes(read, z, k)
    BY ValueIs
  <2>4. Value(read, z, k) = Thing(k + 1, x, {})
    BY <1>1, <2>1, <2>2, <2>3 DEF ValueGoes
  <2> QED
    BY <2>1, <2>4 DEF Thing
<1>5. ValueReads(c, x, {x})
  BY <1>3, <1>4 DEF ValueReads, ValueReadsAt
<1> QED
  BY <1>1, <1>5

LEMMA ListReads ==
  ASSUME NEW c, NEW xs, NEW ps, ItemsRead(c, "]", xs, ps), NEW b \in Tokens, b.type = "["
  PROVE  ValueReads(<<b>> \o c, ListOf(xs), {ListOf(xs)} \cup ps)
<1>1. PICK d, x : d = <<b>> \o c /\ x = ListOf(xs)
  OBVIOUS
<1>2. c \in Seq(Tokens)
  BY DEF ItemsRead
<1>3. d \in Seq(Tokens) /\ Len(d) > 0
  <2>1. d \in Seq(Tokens) /\ Len(d) = Len(c) + 1 /\ Len(c) \in Nat
    BY <1>1, <1>2, HeadOn
  <2> QED
    BY <2>1
<1>4. ASSUME NEW read, NEW z, Parsed(read, z), NEW k, At(z, k, d)
      PROVE  Value(read, z, k) = [at |-> k + Len(d), value |-> x, parts |-> {x} \cup ps]
  <2>1. z[k] = b /\ At(z, k + 1, c) /\ k + Len(d) = (k + 1) + Len(c)
    BY <1>1, <1>2, <1>4, AtHead DEF Parsed
  <2>2. PICK l : l = read[k + 1]["]"]
    OBVIOUS
  <2>3. l = [at |-> (k + 1) + Len(c), items |-> xs, parts |-> ps]
    <3>1. ItemsReadAt(c, "]", xs, ps, read, z, k + 1)
      BY <1>4 DEF ItemsRead
    <3> QED
      BY <2>1, <2>2, <3>1 DEF ItemsReadAt
  <2>4. l # Failed /\ l.at = (k + 1) + Len(c) /\ l.items = xs /\ l.parts = ps
    BY <2>3, NotFailed
  <2>5. ValueGoes(read, z, k)
    BY ValueIs
  <2>6. Value(read, z, k) = Thing(l.at, ListOf(l.items), l.parts)
    BY <2>1, <2>2, <2>4, <2>5 DEF ValueGoes
  <2> QED
    BY <1>1, <2>1, <2>4, <2>6 DEF Thing
<1>5. ValueReads(d, x, {x} \cup ps)
  BY <1>3, <1>4 DEF ValueReads, ValueReadsAt
<1> QED
  BY <1>1, <1>5

LEMMA CallReads ==
  ASSUME NEW c, NEW xs, NEW ps, ItemsRead(c, ")", xs, ps),
         NEW d, NEW ys, NEW qs, ChainReads(d, ys, qs),
         NEW t \in Tokens, t.type = "ident", t.text # True, NEW b \in Tokens, b.type = "("
  PROVE  ValueReads(<<t>> \o (<<b>> \o (c \o d)), CallOf(t.text, xs, ys),
                    {CallOf(t.text, xs, ys)} \cup (ps \cup qs))
<1>1. PICK v, u, w, x : v = c \o d /\ u = <<b>> \o v /\ w = <<t>> \o u /\ x = CallOf(t.text, xs, ys)
  OBVIOUS
<1>2. c \in Seq(Tokens) /\ d \in Seq(Tokens)
  BY DEF ItemsRead, ChainReads
<1>3. v \in Seq(Tokens) /\ u \in Seq(Tokens) /\ w \in Seq(Tokens) /\ Len(w) > 0
  <2>1. v \in Seq(Tokens)
    BY <1>1, <1>2, SeqOn
  <2>2. u \in Seq(Tokens)
    BY <1>1, <2>1, HeadOn
  <2>3. w \in Seq(Tokens) /\ Len(w) = Len(u) + 1 /\ Len(u) \in Nat
    BY <1>1, <2>2, HeadOn
  <2> QED
    BY <2>1, <2>2, <2>3
<1>4. ASSUME NEW read, NEW z, Parsed(read, z), NEW k, At(z, k, w), Free(z[k + Len(w)])
      PROVE  Value(read, z, k) = [at |-> k + Len(w), value |-> x, parts |-> {x} \cup (ps \cup qs)]
  <2>1. z[k] = t /\ At(z, k + 1, u) /\ k + Len(w) = (k + 1) + Len(u) /\ k \in 1 .. Len(z)
    <3>1. At(z, k, <<t>> \o u) /\ WellMade(z)
      BY <1>1, <1>4 DEF Parsed
    <3>2. /\ k \in 1 .. Len(z) /\ z[k] = t /\ At(z, k + 1, u) /\ k + 1 \in 1 .. Len(z)
          /\ k + Len(<<t>> \o u) = (k + 1) + Len(u) /\ k + Len(<<t>> \o u) \in 1 .. Len(z)
      BY <1>3, <3>1, AtHead
    <3> QED
      BY <1>1, <3>2
  <2>2. z[k + 1] = b /\ At(z, (k + 1) + 1, v) /\ (k + 1) + Len(u) = ((k + 1) + 1) + Len(v)
    <3>1. PICK h : h = k + 1
      OBVIOUS
    <3>2. At(z, h, <<b>> \o v) /\ WellMade(z)
      BY <1>1, <1>4, <2>1, <3>1 DEF Parsed
    <3>3. /\ h \in 1 .. Len(z) /\ z[h] = b /\ At(z, h + 1, v) /\ h + 1 \in 1 .. Len(z)
          /\ h + Len(<<b>> \o v) = (h + 1) + Len(v) /\ h + Len(<<b>> \o v) \in 1 .. Len(z)
      BY <1>3, <3>2, AtHead
    <3> QED
      BY <1>1, <3>1, <3>3
  <2>3. (k + 1) + 1 = k + 2
    BY <2>1
  <2>4. PICK j : j = (k + 2) + Len(c)
    OBVIOUS
  <2>5. At(z, k + 2, c) /\ At(z, j, d) /\ (k + 2) + Len(v) = j + Len(d)
    BY <1>1, <1>2, <1>4, <2>2, <2>3, <2>4, AtOn DEF Parsed
  <2>6. k + Len(w) = j + Len(d)
    BY <2>1, <2>2, <2>3, <2>5
  <2>7. PICK a : a = read[k + 2][")"]
    OBVIOUS
  <2>8. a = [at |-> j, items |-> xs, parts |-> ps]
    <3>1. ItemsReadAt(c, ")", xs, ps, read, z, k + 2)
      BY <1>4 DEF ItemsRead
    <3> QED
      BY <2>4, <2>5, <2>7, <3>1 DEF ItemsReadAt
  <2>9. a # Failed /\ a.at = j /\ a.items = xs /\ a.parts = ps
    BY <2>8, NotFailed
  <2>10. PICK h : h = read[a.at]["chain"]
    OBVIOUS
  <2>11. h = [at |-> j + Len(d), items |-> ys, parts |-> qs]
    <3>1. ChainReadsAt(d, ys, qs, read, z, j)
      BY <1>4 DEF ChainReads
    <3> QED
      BY <1>4, <2>5, <2>6, <2>9, <2>10, <3>1 DEF ChainReadsAt
  <2>12. h # Failed /\ h.at = j + Len(d) /\ h.items = ys /\ h.parts = qs
    BY <2>11, NotFailed
  <2>13. ValueGoes(read, z, k)
    BY ValueIs
  <2>14. Value(read, z, k) = Thing(h.at, CallOf(t.text, a.items, h.items), a.parts \cup h.parts)
    BY <2>1, <2>2, <2>7, <2>9, <2>10, <2>12, <2>13 DEF ValueGoes
  <2> QED
    BY <1>1, <2>6, <2>9, <2>12, <2>14 DEF Thing
<1>5. ValueReads(w, x, {x} \cup (ps \cup qs))
  BY <1>3, <1>4 DEF ValueReads, ValueReadsAt
<1> QED
  BY <1>1, <1>5

\* What follows from where tokens stand.
HeadAt(z, k, t, c) ==
  /\ k \in 1 .. Len(z) /\ z[k] = t /\ At(z, k + 1, c) /\ k + 1 \in 1 .. Len(z)
  /\ k + Len(<<t>> \o c) = (k + 1) + Len(c) /\ k + Len(<<t>> \o c) \in 1 .. Len(z)
LEMMA HeadAtIs ==
  ASSUME NEW z, WellMade(z), NEW k, NEW t \in Tokens, NEW c \in Seq(Tokens), At(z, k, <<t>> \o c)
  PROVE  HeadAt(z, k, t, c)
BY AtHead DEF HeadAt
OnAt(z, k, c, d) ==
  /\ At(z, k, c) /\ At(z, k + Len(c), d) /\ k + Len(c \o d) = (k + Len(c)) + Len(d)
  /\ k \in 1 .. Len(z) /\ k + Len(c) \in 1 .. Len(z)
  /\ Len(c) > 0 => z[k] = c[1]
  /\ Len(d) > 0 => z[k + Len(c)] = d[1]
LEMMA OnAtIs ==
  ASSUME NEW z, WellMade(z), NEW k, NEW c \in Seq(Tokens), NEW d \in Seq(Tokens), At(z, k, c \o d)
  PROVE  OnAt(z, k, c, d)
<1>1. At(z, k, c) /\ At(z, k + Len(c), d) /\ k + Len(c \o d) = (k + Len(c)) + Len(d)
  BY AtOn
<1>2. /\ k \in 1 .. Len(z) /\ k + Len(c) \in 1 .. Len(z)
      /\ Len(c) > 0 => z[k] = c[1]
  BY <1>1, AtFirst
<1>3. PICK j : j = k + Len(c)
  OBVIOUS
<1>4. At(z, j, d)
  BY <1>1, <1>3
<1>5. /\ j \in 1 .. Len(z) /\ j + Len(d) \in 1 .. Len(z)
      /\ Len(d) > 0 => z[j] = d[1]
  BY <1>4, AtFirst
<1> QED
  BY <1>1, <1>2, <1>3, <1>5 DEF OnAt

\* Items: none, a last one, and one before others.
LEMMA ItemsNone ==
  ASSUME NEW rule \in {")", "]"}, NEW b \in Tokens, b.type = rule
  PROVE  ItemsRead(<<b>>, rule, <<>>, {})
<1>1. PICK c : c = <<b>>
  OBVIOUS
<1>2. c \in Seq(Tokens)
  BY <1>1, SeqShort
<1>3. ASSUME NEW read, NEW z, Parsed(read, z), NEW k, At(z, k, c)
      PROVE  read[k][rule] = [at |-> k + Len(c), items |-> <<>>, parts |-> {}]
  <2>1. z[k] = b /\ k + Len(c) = k + 1 /\ k \in 1 .. Len(z)
    BY <1>1, <1>3, AtOne DEF Parsed
  <2>2. read[k][rule] = Values(read, z, k, rule)
    BY <1>3, <2>1 DEF Parsed, Reading, RowGoes
  <2>3. Values(read, z, k, rule) = Nothing(k + 1)
    BY <2>1 DEF Values
  <2> QED
    BY <2>1, <2>2, <2>3 DEF Nothing
<1>4. ItemsRead(c, rule, <<>>, {})
  BY <1>2, <1>3 DEF ItemsRead, ItemsReadAt
<1> QED
  BY <1>1, <1>4

LEMMA ItemsLast ==
  ASSUME NEW rule \in {")", "]"}, NEW b \in Tokens, b.type = rule,
         NEW c, NEW x, NEW ps, ValueReads(c, x, ps), c[1].type # rule
  PROVE  ItemsRead(c \o <<b>>, rule, <<x>> \o <<>>, ps \cup {})
<1>1. PICK d, w : d = <<b>> /\ w = c \o d
  OBVIOUS
<1>2. c \in Seq(Tokens) /\ Len(c) > 0 /\ d \in Seq(Tokens) /\ ItemsRead(d, rule, <<>>, {})
  BY <1>1, SeqShort, ItemsNone DEF ValueReads
<1>3. w \in Seq(Tokens)
  BY <1>1, <1>2, SeqOn
<1>4. ASSUME NEW read, NEW z, Parsed(read, z), NEW k, At(z, k, w)
      PROVE  read[k][rule] = [at |-> k + Len(w), items |-> <<x>> \o <<>>, parts |-> ps \cup {}]
  <2>1. OnAt(z, k, c, d)
    BY <1>1, <1>2, <1>4, OnAtIs DEF Parsed
  <2>2. PICK m, j : m = Len(c) /\ j = k + m
    OBVIOUS
  <2>3. /\ k \in 1 .. Len(z) /\ At(z, k, c) /\ At(z, j, d) /\ k + Len(w) = j + Len(d) /\ z[k] = c[1]
    BY <1>1, <1>2, <2>1, <2>2 DEF OnAt
  <2>4. z[j] = b /\ j \in 1 .. Len(z)
    BY <1>1, <1>4, <2>3, AtOne DEF Parsed
  <2>5. Free(z[j]) /\ z[j].type # ","
    BY <2>4 DEF Free
  <2>6. PICK v : v = Value(read, z, k)
    OBVIOUS
  <2>7. v = [at |-> j, value |-> x, parts |-> ps]
    <3>1. ValueReadsAt(c, x, ps, read, z, k)
      BY <1>4 DEF ValueReads
    <3> QED
      BY <2>2, <2>3, <2>5, <2>6, <3>1 DEF ValueReadsAt
  <2>8. v # Failed /\ v.at = j /\ v.value = x /\ v.parts = ps
    BY <2>7, NotFailed
  <2>9. PICK rest : rest = read[j][rule]
    OBVIOUS
  <2>10. rest = [at |-> j + Len(d), items |-> <<>>, parts |-> {}]
    <3>1. ItemsReadAt(d, rule, <<>>, {}, read, z, j)
      BY <1>2, <1>4 DEF ItemsRead
    <3> QED
      BY <2>3, <2>9, <3>1 DEF ItemsReadAt
  <2>11. rest # Failed /\ rest.at = j + Len(d) /\ rest.items = <<>> /\ rest.parts = {}
    BY <2>10, NotFailed
  <2>12. read[k][rule] = Values(read, z, k, rule)
    BY <1>4, <2>3 DEF Parsed, Reading, RowGoes
  <2>13. j = v.at + (IF z[v.at].type = "," THEN 1 ELSE 0)
    <3>1. (IF z[v.at].type = "," THEN 1 ELSE 0) = 0
      BY <2>5, <2>8
    <3>2. v.at + 0 = j
      BY <2>4, <2>8
    <3> QED
      BY <3>1, <3>2
  <2>14. Values(read, z, k, rule) = Before(v.value, v.parts, rest)
    <3>1. z[k].type # rule
      BY <2>3
    <3> QED
      BY <2>6, <2>8, <2>9, <2>11, <2>13, <3>1 DEF Values
  <2> QED
    BY <2>3, <2>8, <2>11, <2>12, <2>14 DEF Before
<1>5. ItemsRead(w, rule, <<x>> \o <<>>, ps \cup {})
  BY <1>3, <1>4 DEF ItemsRead, ItemsReadAt
<1> QED
  BY <1>1, <1>5

LEMMA ItemsMore ==
  ASSUME NEW rule \in {")", "]"}, NEW b \in Tokens, b.type = ",",
         NEW c, NEW x, NEW ps, ValueReads(c, x, ps), c[1].type # rule,
         NEW d, NEW xs, NEW qs, ItemsRead(d, rule, xs, qs)
  PROVE  ItemsRead(c \o (<<b>> \o d), rule, <<x>> \o xs, ps \cup qs)
<1>1. PICK u, w : u = <<b>> \o d /\ w = c \o u
  OBVIOUS
<1>2. c \in Seq(Tokens) /\ Len(c) > 0 /\ d \in Seq(Tokens)
  BY DEF ValueReads, ItemsRead
<1>3. u \in Seq(Tokens) /\ w \in Seq(Tokens)
  <2>1. u \in Seq(Tokens)
    BY <1>1, <1>2, HeadOn
  <2> QED
    BY <1>1, <1>2, <2>1, SeqOn
<1>4. ASSUME NEW read, NEW z, Parsed(read, z), NEW k, At(z, k, w)
      PROVE  read[k][rule] = [at |-> k + Len(w), items |-> <<x>> \o xs, parts |-> ps \cup qs]
  <2>1. OnAt(z, k, c, u)
    BY <1>1, <1>2, <1>3, <1>4, OnAtIs DEF Parsed
  <2>2. PICK m, j, i : m = Len(c) /\ j = k + m /\ i = j + 1
    OBVIOUS
  <2>3. /\ k \in 1 .. Len(z) /\ At(z, k, c) /\ At(z, j, u) /\ k + Len(w) = j + Len(u) /\ z[k] = c[1]
    BY <1>1, <1>2, <2>1, <2>2 DEF OnAt
  <2>4. HeadAt(z, j, b, d)
    BY <1>1, <1>2, <1>4, <2>3, HeadAtIs DEF Parsed
  <2>5. z[j] = b /\ At(z, i, d) /\ j + Len(u) = i + Len(d) /\ j \in 1 .. Len(z)
    BY <1>1, <2>2, <2>4 DEF HeadAt
  <2>6. Free(z[j]) /\ z[j].type = ","
    BY <2>5 DEF Free
  <2>7. PICK v : v = Value(read, z, k)
    OBVIOUS
  <2>8. v = [at |-> j, value |-> x, parts |-> ps]
    <3>1. ValueReadsAt(c, x, ps, read, z, k)
      BY <1>4 DEF ValueReads
    <3> QED
      BY <2>2, <2>3, <2>6, <2>7, <3>1 DEF ValueReadsAt
  <2>9. v # Failed /\ v.at = j /\ v.value = x /\ v.parts = ps
    BY <2>8, NotFailed
  <2>10. PICK rest : rest = read[i][rule]
    OBVIOUS
  <2>11. rest = [at |-> i + Len(d), items |-> xs, parts |-> qs]
    <3>1. ItemsReadAt(d, rule, xs, qs, read, z, i)
      BY <1>4 DEF ItemsRead
    <3> QED
      BY <2>5, <2>10, <3>1 DEF ItemsReadAt
  <2>12. rest # Failed /\ rest.at = i + Len(d) /\ rest.items = xs /\ rest.parts = qs
    BY <2>11, NotFailed
  <2>13. read[k][rule] = Values(read, z, k, rule)
    BY <1>4, <2>3 DEF Parsed, Reading, RowGoes
  <2>14. i = v.at + (IF z[v.at].type = "," THEN 1 ELSE 0)
    <3>1. (IF z[v.at].type = "," THEN 1 ELSE 0) = 1
      BY <2>6, <2>9
    <3> QED
      BY <2>2, <2>9, <3>1
  <2>15. Values(read, z, k, rule) = Before(v.value, v.parts, rest)
    <3>1. z[k].type # rule
      BY <2>3
    <3> QED
      BY <2>7, <2>9, <2>10, <2>12, <2>14, <3>1 DEF Values
  <2> QED
    BY <2>3, <2>5, <2>9, <2>12, <2>13, <2>15 DEF Before
<1>5. ItemsRead(w, rule, <<x>> \o xs, ps \cup qs)
  BY <1>3, <1>4 DEF ItemsRead, ItemsReadAt
<1> QED
  BY <1>1, <1>5

\* The calls chained: none, and one before others.
LEMMA ChainNone == ChainReads(<<>>, <<>>, {})
<1>1. PICK c : c = <<>>
  OBVIOUS
<1>2. c \in Seq(Tokens) /\ Len(c) = 0
  BY <1>1, SeqShort
<1>3. ASSUME NEW read, NEW z, Parsed(read, z), NEW k, At(z, k, c), Free(z[k + Len(c)])
      PROVE  read[k]["chain"] = [at |-> k + Len(c), items |-> <<>>, parts |-> {}]
  <2>1. k \in 1 .. Len(z)
    BY <1>3 DEF At
  <2>2. k + Len(c) = k
    BY <1>2, <2>1
  <2>3. read[k]["chain"] = Chain(read, z, k)
    BY <1>3, <2>1 DEF Parsed, Reading, RowGoes
  <2>4. Chain(read, z, k) = Nothing(k)
    BY <1>3, <2>2 DEF Chain, Free
  <2> QED
    BY <2>2, <2>3, <2>4 DEF Nothing
<1>4. ChainReads(c, <<>>, {})
  BY <1>2, <1>3 DEF ChainReads, ChainReadsAt
<1> QED
  BY <1>1, <1>4

LEMMA ChainBefore ==
  ASSUME NEW read, NEW z, NEW k, z[k].type = ".", z[k + 1].type = "ident", z[k + 2].type = "(",
         NEW a, a = read[k + 3][")"], a # Failed, NEW rest, rest = read[a.at]["chain"], rest # Failed
  PROVE  Chain(read, z, k) = Before(Segment(z[k + 1].text, a.items), a.parts, rest)
BY DEF Chain, Segment

LEMMA ChainMore ==
  ASSUME NEW b \in Tokens, b.type = ".", NEW t \in Tokens, t.type = "ident",
         NEW e \in Tokens, e.type = "(",
         NEW c, NEW xs, NEW ps, ItemsRead(c, ")", xs, ps), NEW d, NEW ys, NEW qs, ChainReads(d, ys, qs)
  PROVE  ChainReads(<<b>> \o (<<t>> \o (<<e>> \o (c \o d))), <<Segment(t.text, xs)>> \o ys, ps \cup qs)
<1>1. PICK u1, u2, u3, w : u1 = c \o d /\ u2 = <<e>> \o u1 /\ u3 = <<t>> \o u2 /\ w = <<b>> \o u3
  OBVIOUS
<1>2. c \in Seq(Tokens) /\ d \in Seq(Tokens)
  BY DEF ItemsRead, ChainReads
<1>3. u1 \in Seq(Tokens) /\ u2 \in Seq(Tokens) /\ u3 \in Seq(Tokens) /\ w \in Seq(Tokens)
  <2>1. u1 \in Seq(Tokens)
    BY <1>1, <1>2, SeqOn
  <2>2. u2 \in Seq(Tokens)
    BY <1>1, <2>1, HeadOn
  <2>3. u3 \in Seq(Tokens)
    BY <1>1, <2>2, HeadOn
  <2>4. w \in Seq(Tokens)
    BY <1>1, <2>3, HeadOn
  <2> QED
    BY <2>1, <2>2, <2>3, <2>4
<1>4. ASSUME NEW read, NEW z, Parsed(read, z), NEW k, At(z, k, w), Free(z[k + Len(w)])
      PROVE  read[k]["chain"] =
               [at |-> k + Len(w), items |-> <<Segment(t.text, xs)>> \o ys, parts |-> ps \cup qs]
  <2>1. PICK k1, k2, k3, j : k1 = k + 1 /\ k2 = k1 + 1 /\ k3 = k2 + 1 /\ j = k3 + Len(c)
    OBVIOUS
  <2>2. HeadAt(z, k, b, u3)
    BY <1>1, <1>3, <1>4, HeadAtIs DEF Parsed
  <2>3. z[k] = b /\ At(z, k1, u3) /\ k + Len(w) = k1 + Len(u3) /\ k \in 1 .. Len(z)
    BY <1>1, <2>1, <2>2 DEF HeadAt
  <2>4. HeadAt(z, k1, t, u2)
    BY <1>1, <1>3, <1>4, <2>3, HeadAtIs DEF Parsed
  <2>5. z[k1] = t /\ At(z, k2, u2) /\ k1 + Len(u3) = k2 + Len(u2)
    BY <1>1, <2>1, <2>4 DEF HeadAt
  <2>6. HeadAt(z, k2, e, u1)
    BY <1>1, <1>3, <1>4, <2>5, HeadAtIs DEF Parsed
  <2>7. z[k2] = e /\ At(z, k3, u1) /\ k2 + Len(u2) = k3 + Len(u1)
    BY <1>1, <2>1, <2>6 DEF HeadAt
  <2>8. OnAt(z, k3, c, d)
    BY <1>1, <1>2, <1>4, <2>7, OnAtIs DEF Parsed
  <2>9. At(z, k3, c) /\ At(z, j, d) /\ k3 + Len(u1) = j + Len(d)
    BY <1>1, <2>1, <2>8 DEF OnAt
  <2>10. k + Len(w) = j + Len(d) /\ k2 = k + 2 /\ k3 = k + 3
    BY <2>1, <2>3, <2>5, <2>7, <2>9
  <2>11. PICK a : a = read[k3][")"]
    OBVIOUS
  <2>12. a = [at |-> j, items |-> xs, parts |-> ps]
    <3>1. ItemsReadAt(c, ")", xs, ps, read, z, k3)
      BY <1>4 DEF ItemsRead
    <3> QED
      BY <2>1, <2>9, <2>11, <3>1 DEF ItemsReadAt
  <2>13. a # Failed /\ a.at = j /\ a.items = xs /\ a.parts = ps
    BY <2>12, NotFailed
  <2>14. PICK rest : rest = read[j]["chain"]
    OBVIOUS
  <2>15. rest = [at |-> j + Len(d), items |-> ys, parts |-> qs]
    <3>1. ChainReadsAt(d, ys, qs, read, z, j)
      BY <1>4 DEF ChainReads
    <3> QED
      BY <1>4, <2>9, <2>10, <2>14, <3>1 DEF ChainReadsAt
  <2>16. rest # Failed /\ rest.at = j + Len(d) /\ rest.items = ys /\ rest.parts = qs
    BY <2>15, NotFailed
  <2>17. read[k]["chain"] = Chain(read, z, k)
    BY <1>4, <2>3 DEF Parsed, Reading, RowGoes
  <2>18. Chain(read, z, k) = Before(Segment(z[k + 1].text, a.items), a.parts, rest)
    <3>1. z[k].type = "." /\ z[k + 1].type = "ident" /\ z[k + 2].type = "("
      BY <2>1, <2>3, <2>5, <2>7, <2>10
    <3>2. a = read[k + 3][")"] /\ rest = read[a.at]["chain"]
      BY <2>10, <2>11, <2>13, <2>14
    <3> QED
      BY <2>13, <2>16, <3>1, <3>2, ChainBefore
  <2>19. z[k + 1] = t
    BY <2>1, <2>5
  <2> QED
    BY <2>10, <2>13, <2>16, <2>17, <2>18, <2>19 DEF Before
<1>5. ChainReads(w, <<Segment(t.text, xs)>> \o ys, ps \cup qs)
  BY <1>3, <1>4 DEF ChainReads, ChainReadsAt
<1> QED
  BY <1>1, <1>5

\* Tokens behind another are some.
LEMMA SomeTokens ==
  ASSUME NEW t \in Tokens, NEW c \in Seq(Tokens)
  PROVE  <<t>> \o c \in Seq(Tokens) /\ Len(<<t>> \o c) > 0
<1>1. PICK w : w = <<t>> \o c
  OBVIOUS
<1>2. w \in Seq(Tokens) /\ Len(w) = Len(c) + 1 /\ Len(c) \in Nat
  BY <1>1, HeadOn
<1>3. Len(w) > 0
  BY <1>2
<1> QED
  BY <1>1, <1>2, <1>3

\* Entries: an import, an assignment and a block.
LEMMA UseReads ==
  ASSUME NEW t \in Tokens, t.type = "ident", t.text = <<"u">>,
         NEW c, NEW x, NEW ps, ValueReads(c, x, ps), c[1].type = "ident",
         NEW s, s = Token("ident", <<"s">>), s \in Tokens, NEW n \in Tokens, n.type = "ident"
  PROVE  EntryReads(<<t>> \o (c \o (<<s>> \o <<n>>)), ImportOf(x, n.text), {ImportOf(x, n.text)} \cup ps)
<1>1. PICK u1, u2, u3, w, y : /\ u1 = <<n>> /\ u2 = <<s>> \o u1 /\ u3 = c \o u2 /\ w = <<t>> \o u3
                              /\ y = ImportOf(x, n.text)
  OBVIOUS
<1>2. c \in Seq(Tokens) /\ Len(c) > 0
  BY DEF ValueReads
<1>3. u1 \in Seq(Tokens) /\ u2 \in Seq(Tokens) /\ u3 \in Seq(Tokens) /\ w \in Seq(Tokens) /\ Len(w) > 0
  <2>1. u1 \in Seq(Tokens)
    BY <1>1, SeqShort
  <2>2. u2 \in Seq(Tokens)
    BY <1>1, <2>1, HeadOn
  <2>3. u3 \in Seq(Tokens)
    BY <1>1, <1>2, <2>2, SeqOn
  <2>4. w \in Seq(Tokens) /\ Len(w) = Len(u3) + 1 /\ Len(u3) \in Nat
    BY <1>1, <2>3, HeadOn
  <2> QED
    BY <2>1, <2>2, <2>3, <2>4
<1>4. ASSUME NEW read, NEW z, Parsed(read, z), NEW k, At(z, k, w)
      PROVE  Entry(read, z, k) = [at |-> k + Len(w), value |-> y, parts |-> {y} \cup ps]
  <2>1. PICK k1, j, i : k1 = k + 1 /\ j = k1 + Len(c) /\ i = j + 1
    OBVIOUS
  <2>2. HeadAt(z, k, t, u3)
    BY <1>1, <1>3, <1>4, HeadAtIs DEF Parsed
  <2>3. z[k] = t /\ At(z, k1, u3) /\ k + Len(w) = k1 + Len(u3) /\ k \in 1 .. Len(z)
    BY <1>1, <2>1, <2>2 DEF HeadAt
  <2>4. OnAt(z, k1, c, u2)
    BY <1>1, <1>2, <1>3, <1>4, <2>3, OnAtIs DEF Parsed
  <2>5. z[k1] = c[1] /\ At(z, k1, c) /\ At(z, j, u2) /\ k1 + Len(u3) = j + Len(u2)
    BY <1>1, <1>2, <2>1, <2>4 DEF OnAt
  <2>6. HeadAt(z, j, s, u1)
    BY <1>1, <1>3, <1>4, <2>5, HeadAtIs DEF Parsed
  <2>7. z[j] = s /\ At(z, i, u1) /\ j + Len(u2) = i + Len(u1) /\ j \in 1 .. Len(z)
    BY <1>1, <2>1, <2>6 DEF HeadAt
  <2>8. z[i] = n /\ i + Len(u1) = i + 1
    BY <1>1, <1>4, <2>7, AtOne DEF Parsed
  <2>9. k + Len(w) = j + 2
    BY <2>1, <2>3, <2>5, <2>7, <2>8
  <2>10. PICK v : v = Value(read, z, k1)
    OBVIOUS
  <2>11. v = [at |-> j, value |-> x, parts |-> ps]
    <3>1. ValueReadsAt(c, x, ps, read, z, k1)
      BY <1>4 DEF ValueReads
    <3>2. Free(z[j])
      BY <2>7 DEF Free, Token
    <3> QED
      BY <2>1, <2>5, <2>10, <3>1, <3>2 DEF ValueReadsAt
  <2>12. v # Failed /\ v.at = j /\ v.value = x /\ v.parts = ps
    BY <2>11, NotFailed
  <2>13. EntryGoes(read, z, k)
    BY EntryIs
  <2>14. Entry(read, z, k) = Thing(v.at + 2, ImportOf(v.value, z[v.at + 1].text), v.parts)
    <3>1. z[k].type = "ident" /\ z[k].text = <<"u">> /\ z[k + 1].type = "ident"
      BY <2>1, <2>3, <2>5
    <3>2. v = Value(read, z, k + 1) /\ z[v.at] = Token("ident", <<"s">>) /\ z[v.at + 1].type = "ident"
      BY <2>1, <2>7, <2>8, <2>10, <2>12
    <3> QED
      BY <2>12, <2>13, <3>1, <3>2 DEF EntryGoes
  <2>15. z[v.at + 1] = n
    BY <2>1, <2>8, <2>12
  <2> QED
    BY <1>1, <2>9, <2>12, <2>14, <2>15 DEF Thing
<1>5. EntryReads(w, y, {y} \cup ps)
  BY <1>3, <1>4 DEF EntryReads, EntryReadsAt
<1> QED
  BY <1>1, <1>5

LEMMA AssignReads ==
  ASSUME NEW t \in Tokens, t.type = "ident", NEW b \in Tokens, b.type = "=",
         NEW c, NEW x, NEW ps, ValueReads(c, x, ps)
  PROVE  EntryReads(<<t>> \o (<<b>> \o c), AssignOf(t.text, x), {AssignOf(t.text, x)} \cup ps)
<1>1. PICK u, w, y : u = <<b>> \o c /\ w = <<t>> \o u /\ y = AssignOf(t.text, x)
  OBVIOUS
<1>2. c \in Seq(Tokens)
  BY DEF ValueReads
<1>3. u \in Seq(Tokens) /\ w \in Seq(Tokens) /\ Len(w) > 0
  <2>1. u \in Seq(Tokens)
    BY <1>1, <1>2, HeadOn
  <2>2. w \in Seq(Tokens) /\ Len(w) = Len(u) + 1 /\ Len(u) \in Nat
    BY <1>1, <2>1, HeadOn
  <2> QED
    BY <2>1, <2>2
<1>4. ASSUME NEW read, NEW z, Parsed(read, z), NEW k, At(z, k, w), Free(z[k + Len(w)])
      PROVE  Entry(read, z, k) = [at |-> k + Len(w), value |-> y, parts |-> {y} \cup ps]
  <2>1. PICK k1, k2 : k1 = k + 1 /\ k2 = k1 + 1
    OBVIOUS
  <2>2. HeadAt(z, k, t, u)
    BY <1>1, <1>3, <1>4, HeadAtIs DEF Parsed
  <2>3. z[k] = t /\ At(z, k1, u) /\ k + Len(w) = k1 + Len(u) /\ k \in 1 .. Len(z)
    BY <1>1, <2>1, <2>2 DEF HeadAt
  <2>4. HeadAt(z, k1, b, c)
    BY <1>1, <1>2, <1>4, <2>3, HeadAtIs DEF Parsed
  <2>5. z[k1] = b /\ At(z, k2, c) /\ k1 + Len(u) = k2 + Len(c)
    BY <1>1, <2>1, <2>4 DEF HeadAt
  <2>6. PICK v : v = Value(read, z, k2)
    OBVIOUS
  <2>7. v = [at |-> k2 + Len(c), value |-> x, parts |-> ps]
    <3>1. ValueReadsAt(c, x, ps, read, z, k2)
      BY <1>4 DEF ValueReads
    <3>2. Free(z[k2 + Len(c)])
      BY <1>4, <2>3, <2>5
    <3> QED
      BY <2>5, <2>6, <3>1, <3>2 DEF ValueReadsAt
  <2>8. v # Failed /\ v.at = k2 + Len(c) /\ v.value = x /\ v.parts = ps
    BY <2>7, NotFailed
  <2>9. EntryGoes(read, z, k)
    BY EntryIs
  <2>10. Entry(read, z, k) = Thing(v.at, AssignOf(z[k].text, v.value), v.parts)
    <3>1. z[k].type = "ident" /\ z[k + 1].type = "="
      BY <2>1, <2>3, <2>5
    <3>2. v = Value(read, z, k + 2)
      <4>1. k2 = k + 2
        BY <2>1, <2>3
      <4> QED
        BY <2>6, <4>1
    <3> QED
      BY <2>8, <2>9, <3>1, <3>2 DEF EntryGoes
  <2> QED
    BY <1>1, <2>3, <2>5, <2>8, <2>10 DEF Thing
<1>5. EntryReads(w, y, {y} \cup ps)
  BY <1>3, <1>4 DEF EntryReads, EntryReadsAt
<1> QED
  BY <1>1, <1>5

LEMMA NoneMore == \A n : \A k \in 1 .. n : k + 1 + 0 = k + 1
  OBVIOUS

\* A block, and one with a label.
LEMMA BlockReads ==
  ASSUME NEW t \in Tokens, t.type = "ident", NEW b \in Tokens, b.type = "{",
         NEW e \in Tokens, e.type = "}",
         NEW c, NEW xs, NEW ps, EntriesRead(c, "}", xs, ps)
  PROVE  EntryReads(<<t>> \o (<<b>> \o (c \o <<e>>)), BlockOf(t.text, <<>>, xs),
                    {BlockOf(t.text, <<>>, xs)} \cup ps)
<1>1. PICK u1, u2, u3, w, y : /\ u1 = <<e>> /\ u2 = c \o u1 /\ u3 = <<b>> \o u2 /\ w = <<t>> \o u3
                              /\ y = BlockOf(t.text, <<>>, xs)
  OBVIOUS
<1>2. c \in Seq(Tokens)
  BY DEF EntriesRead
<1>3. u1 \in Seq(Tokens) /\ u2 \in Seq(Tokens) /\ u3 \in Seq(Tokens) /\ w \in Seq(Tokens) /\ Len(w) > 0
  <2>1. u1 \in Seq(Tokens)
    BY <1>1, SeqShort
  <2>2. u2 \in Seq(Tokens)
    BY <1>1, <1>2, <2>1, SeqOn
  <2>3. u3 \in Seq(Tokens)
    BY <1>1, <2>2, HeadOn
  <2>4. w \in Seq(Tokens) /\ Len(w) > 0
    BY <1>1, <2>3, SomeTokens
  <2> QED
    BY <2>1, <2>2, <2>3, <2>4
<1>4. ASSUME NEW read, NEW z, Parsed(read, z), NEW k, At(z, k, w)
      PROVE  Entry(read, z, k) = [at |-> k + Len(w), value |-> y, parts |-> {y} \cup ps]
  <2>1. PICK k1, k2, j : k1 = k + 1 /\ k2 = k1 + 1 /\ j = k2 + Len(c)
    OBVIOUS
  <2>2. HeadAt(z, k, t, u3)
    BY <1>1, <1>3, <1>4, HeadAtIs DEF Parsed
  <2>3. z[k] = t /\ At(z, k1, u3) /\ k + Len(w) = k1 + Len(u3) /\ k \in 1 .. Len(z)
    BY <1>1, <2>1, <2>2 DEF HeadAt
  <2>4. HeadAt(z, k1, b, u2)
    BY <1>1, <1>3, <1>4, <2>3, HeadAtIs DEF Parsed
  <2>5. z[k1] = b /\ At(z, k2, u2) /\ k1 + Len(u3) = k2 + Len(u2)
    BY <1>1, <2>1, <2>4 DEF HeadAt
  <2>6. OnAt(z, k2, c, u1)
    BY <1>1, <1>2, <1>3, <1>4, <2>5, OnAtIs DEF Parsed
  <2>7. At(z, k2, c) /\ At(z, j, u1) /\ k2 + Len(u2) = j + Len(u1)
    BY <1>1, <2>1, <2>6 DEF OnAt
  <2>8. z[j] = e /\ j + Len(u1) = j + 1
    BY <1>1, <1>4, <2>7, AtOne DEF Parsed
  <2>9. k + Len(w) = j + 1
    BY <2>3, <2>5, <2>7, <2>8
  <2>10. PICK es : es = read[k2]["}"]
    OBVIOUS
  <2>11. es = [at |-> j + 1, items |-> xs, parts |-> ps]
    <3>1. EntriesReadAt(c, "}", xs, ps, read, z, k2)
      BY <1>4 DEF EntriesRead
    <3> QED
      BY <2>1, <2>7, <2>8, <2>10, <3>1 DEF EntriesReadAt
  <2>12. es # Failed /\ es.at = j + 1 /\ es.items = xs /\ es.parts = ps
    BY <2>11, NotFailed
  <2>13. EntryGoes(read, z, k)
    BY EntryIs
  <2>14. z[k + 1].type = "{" /\ Labels(z, k) = <<>> /\ k + 1 + Len(Labels(z, k)) = k1
    <3>1. z[k + 1].type = "{"
      BY <2>1, <2>5
    <3>2. Labels(z, k) = <<>>
      BY <3>1 DEF Labels
    <3>3. PICK l : l = <<>>
      OBVIOUS
    <3>4. Len(l) = 0
      BY <3>3
    <3> QED
      BY <2>1, <2>3, <3>1, <3>2, <3>3, <3>4, NoneMore
  <2>15. Entry(read, z, k) = Thing(es.at, BlockOf(z[k].text, Labels(z, k), es.items), es.parts)
    <3>1. z[k].type = "ident" /\ z[k + 1].type # "="
          /\ ~(z[k].text = <<"u">> /\ z[k + 1].type = "ident")
      BY <2>3, <2>14
    <3>2. PICK open : open = k + 1 + Len(Labels(z, k))
      OBVIOUS
    <3>3. z[open].type = "{" /\ es = read[open + 1]["}"]
      BY <2>1, <2>10, <2>14, <3>2
    <3> QED
      BY <2>12, <2>13, <3>1, <3>2, <3>3 DEF EntryGoes
  <2> QED
    BY <1>1, <2>3, <2>9, <2>12, <2>14, <2>15 DEF Thing
<1>5. EntryReads(w, y, {y} \cup ps)
  BY <1>3, <1>4 DEF EntryReads, EntryReadsAt
<1> QED
  BY <1>1, <1>5

LEMMA LabelReads ==
  ASSUME NEW t \in Tokens, t.type = "ident", NEW s \in Tokens, s.type = "string",
         NEW b \in Tokens, b.type = "{", NEW e \in Tokens, e.type = "}",
         NEW c, NEW xs, NEW ps, EntriesRead(c, "}", xs, ps)
  PROVE  EntryReads(<<t>> \o (<<s>> \o (<<b>> \o (c \o <<e>>))), BlockOf(t.text, <<s.text>>, xs),
                    {BlockOf(t.text, <<s.text>>, xs)} \cup ps)
<1>1. PICK u1, u2, u3, u4, w, y :
        /\ u1 = <<e>> /\ u2 = c \o u1 /\ u3 = <<b>> \o u2 /\ u4 = <<s>> \o u3 /\ w = <<t>> \o u4
        /\ y = BlockOf(t.text, <<s.text>>, xs)
  OBVIOUS
<1>2. c \in Seq(Tokens)
  BY DEF EntriesRead
<1>3. /\ u1 \in Seq(Tokens) /\ u2 \in Seq(Tokens) /\ u3 \in Seq(Tokens) /\ u4 \in Seq(Tokens)
      /\ w \in Seq(Tokens) /\ Len(w) > 0
  <2>1. u1 \in Seq(Tokens)
    BY <1>1, SeqShort
  <2>2. u2 \in Seq(Tokens)
    BY <1>1, <1>2, <2>1, SeqOn
  <2>3. u3 \in Seq(Tokens)
    BY <1>1, <2>2, HeadOn
  <2>4. u4 \in Seq(Tokens)
    BY <1>1, <2>3, HeadOn
  <2>5. w \in Seq(Tokens) /\ Len(w) > 0
    BY <1>1, <2>4, SomeTokens
  <2> QED
    BY <2>1, <2>2, <2>3, <2>4, <2>5
<1>4. ASSUME NEW read, NEW z, Parsed(read, z), NEW k, At(z, k, w)
      PROVE  Entry(read, z, k) = [at |-> k + Len(w), value |-> y, parts |-> {y} \cup ps]
  <2>1. PICK k1, k2, k3, j : k1 = k + 1 /\ k2 = k1 + 1 /\ k3 = k2 + 1 /\ j = k3 + Len(c)
    OBVIOUS
  <2>2. HeadAt(z, k, t, u4)
    BY <1>1, <1>3, <1>4, HeadAtIs DEF Parsed
  <2>3. z[k] = t /\ At(z, k1, u4) /\ k + Len(w) = k1 + Len(u4) /\ k \in 1 .. Len(z)
    BY <1>1, <2>1, <2>2 DEF HeadAt
  <2>4. HeadAt(z, k1, s, u3)
    BY <1>1, <1>3, <1>4, <2>3, HeadAtIs DEF Parsed
  <2>5. z[k1] = s /\ At(z, k2, u3) /\ k1 + Len(u4) = k2 + Len(u3)
    BY <1>1, <2>1, <2>4 DEF HeadAt
  <2>6. HeadAt(z, k2, b, u2)
    BY <1>1, <1>3, <1>4, <2>5, HeadAtIs DEF Parsed
  <2>7. z[k2] = b /\ At(z, k3, u2) /\ k2 + Len(u3) = k3 + Len(u2)
    BY <1>1, <2>1, <2>6 DEF HeadAt
  <2>8. OnAt(z, k3, c, u1)
    BY <1>1, <1>2, <1>3, <1>4, <2>7, OnAtIs DEF Parsed
  <2>9. At(z, k3, c) /\ At(z, j, u1) /\ k3 + Len(u2) = j + Len(u1)
    BY <1>1, <2>1, <2>8 DEF OnAt
  <2>10. z[j] = e /\ j + Len(u1) = j + 1
    BY <1>1, <1>4, <2>9, AtOne DEF Parsed
  <2>11. k + Len(w) = j + 1
    BY <2>3, <2>5, <2>7, <2>9, <2>10
  <2>12. PICK es : es = read[k3]["}"]
    OBVIOUS
  <2>13. es = [at |-> j + 1, items |-> xs, parts |-> ps]
    <3>1. EntriesReadAt(c, "}", xs, ps, read, z, k3)
      BY <1>4 DEF EntriesRead
    <3> QED
      BY <2>1, <2>9, <2>10, <2>12, <3>1 DEF EntriesReadAt
  <2>14. es # Failed /\ es.at = j + 1 /\ es.items = xs /\ es.parts = ps
    BY <2>13, NotFailed
  <2>15. EntryGoes(read, z, k)
    BY EntryIs
  <2>16. z[k + 1].type = "string" /\ Labels(z, k) = <<s.text>> /\ k + 1 + Len(Labels(z, k)) = k2
    <3>1. z[k + 1] = s
      BY <2>1, <2>5
    <3>2. Labels(z, k) = <<s.text>>
      BY <3>1 DEF Labels
    <3>3. PICK l : l = <<s.text>>
      OBVIOUS
    <3>4. Len(l) = 1
      BY <3>3
    <3>5. k + 1 + Len(l) = k2
      BY <2>1, <2>3, <3>4
    <3> QED
      BY <3>1, <3>2, <3>3, <3>5
  <2>17. Entry(read, z, k) = Thing(es.at, BlockOf(z[k].text, Labels(z, k), es.items), es.parts)
    <3>1. z[k].type = "ident" /\ z[k + 1].type # "="
          /\ ~(z[k].text = <<"u">> /\ z[k + 1].type = "ident")
      BY <2>3, <2>16
    <3>2. PICK open : open = k + 1 + Len(Labels(z, k))
      OBVIOUS
    <3>3. z[open].type = "{" /\ es = read[open + 1]["}"]
      BY <2>1, <2>7, <2>12, <2>16, <3>2
    <3> QED
      BY <2>14, <2>15, <3>1, <3>2, <3>3 DEF EntryGoes
  <2> QED
    BY <1>1, <2>3, <2>11, <2>14, <2>16, <2>17 DEF Thing
<1>5. EntryReads(w, y, {y} \cup ps)
  BY <1>3, <1>4 DEF EntryReads, EntryReadsAt
<1> QED
  BY <1>1, <1>5

\* Several entries: none, and one before others.
LEMMA EntriesNone ==
  ASSUME NEW close \in Ending
  PROVE  EntriesRead(<<>>, close, <<>>, {})
<1>1. PICK c : c = <<>>
  OBVIOUS
<1>2. c \in Seq(Tokens) /\ Len(c) = 0
  BY <1>1, SeqShort
<1>3. ASSUME NEW read, NEW z, Parsed(read, z), NEW k, At(z, k, c), z[k + Len(c)].type = close
      PROVE  read[k][close] = [at |-> k + Len(c) + 1, items |-> <<>>, parts |-> {}]
  <2>1. k \in 1 .. Len(z)
    BY <1>3 DEF At
  <2>2. k + Len(c) = k
    BY <1>2, <2>1
  <2>3. read[k][close] = Entries(read, z, k, close)
    BY <1>3, <2>1 DEF Parsed, Reading, RowGoes, Ending
  <2>4. z[k].type = close
    BY <1>3, <2>2
  <2>5. Entries(read, z, k, close) = Nothing(k + 1)
    BY <2>4 DEF Entries
  <2> QED
    BY <2>2, <2>3, <2>5 DEF Nothing
<1>4. EntriesRead(c, close, <<>>, {})
  BY <1>2, <1>3 DEF EntriesRead, EntriesReadAt
<1> QED
  BY <1>1, <1>4

LEMMA EntriesMore ==
  ASSUME NEW close \in Ending, NEW c, NEW x, NEW ps, EntryReads(c, x, ps), c[1].type = "ident",
         NEW d, NEW xs, NEW qs, EntriesRead(d, close, xs, qs), Len(d) > 0 => d[1].type = "ident"
  PROVE  EntriesRead(c \o d, close, <<x>> \o xs, ps \cup qs)
<1>1. PICK w : w = c \o d
  OBVIOUS
<1>2. c \in Seq(Tokens) /\ d \in Seq(Tokens) /\ Len(c) > 0
  BY DEF EntryReads, EntriesRead
<1>3. w \in Seq(Tokens)
  BY <1>1, <1>2, SeqOn
<1>4. close # "ident" /\ \A t : t.type = close => Free(t)
  BY DEF Ending, Free
<1>5. ASSUME NEW read, NEW z, Parsed(read, z), NEW k, At(z, k, w), z[k + Len(w)].type = close
      PROVE  read[k][close] = [at |-> k + Len(w) + 1, items |-> <<x>> \o xs, parts |-> ps \cup qs]
  <2>1. OnAt(z, k, c, d)
    BY <1>1, <1>2, <1>5, OnAtIs DEF Parsed
  <2>2. PICK j : j = k + Len(c)
    OBVIOUS
  <2>3. /\ k \in 1 .. Len(z) /\ z[k] = c[1] /\ At(z, k, c) /\ At(z, j, d) /\ k + Len(w) = j + Len(d)
        /\ j \in 1 .. Len(z)
        /\ Len(d) > 0 => z[j] = d[1]
    BY <1>1, <1>2, <2>1, <2>2 DEF OnAt
  <2>4. Free(z[j])
    <3>1. CASE Len(d) > 0
      BY <2>3, <3>1 DEF Free
    <3>2. CASE ~(Len(d) > 0)
      <4>1. Len(d) = 0
        BY <1>2, <3>2
      <4>2. k + Len(w) = j
        BY <2>3, <4>1
      <4> QED
        BY <1>4, <1>5, <4>2
    <3> QED
      BY <3>1, <3>2
  <2>5. PICK e : e = Entry(read, z, k)
    OBVIOUS
  <2>6. e = [at |-> j, value |-> x, parts |-> ps]
    <3>1. EntryReadsAt(c, x, ps, read, z, k)
      BY <1>5 DEF EntryReads
    <3> QED
      BY <2>2, <2>3, <2>4, <2>5, <3>1 DEF EntryReadsAt
  <2>7. e # Failed /\ e.at = j /\ e.value = x /\ e.parts = ps
    BY <2>6, NotFailed
  <2>8. PICK rest : rest = read[j][close]
    OBVIOUS
  <2>9. rest = [at |-> j + Len(d) + 1, items |-> xs, parts |-> qs]
    <3>1. EntriesReadAt(d, close, xs, qs, read, z, j)
      BY <1>5 DEF EntriesRead
    <3> QED
      BY <1>5, <2>3, <2>8, <3>1 DEF EntriesReadAt
  <2>10. rest # Failed /\ rest.at = j + Len(d) + 1 /\ rest.items = xs /\ rest.parts = qs
    BY <2>9, NotFailed
  <2>11. read[k][close] = Entries(read, z, k, close)
    BY <1>5, <2>3 DEF Parsed, Reading, RowGoes, Ending
  <2>12. z[k].type # close
    BY <1>4, <2>3
  <2>13. Entries(read, z, k, close) = Before(e.value, e.parts, rest)
    BY <2>5, <2>7, <2>8, <2>10, <2>12 DEF Entries
  <2> QED
    BY <2>3, <2>7, <2>10, <2>11, <2>13 DEF Before
<1>6. EntriesRead(w, close, <<x>> \o xs, ps \cup qs)
  BY <1>3, <1>5 DEF EntriesRead, EntriesReadAt
<1> QED
  BY <1>1, <1>6

-----------------------------------------------------------------------------
(* Texts of several things.                                                *)

\* Those of one thing and of others.
LEMMA TextsMore ==
  ASSUME NEW T, NEW f, NEW a \in T, NEW s \in Seq(T), f[a] \in Texts, TextsOf(f, s) \in Seq(Texts)
  PROVE  /\ TextsOf(f, <<a>> \o s) = <<f[a]>> \o TextsOf(f, s)
         /\ TextsOf(f, <<a>> \o s) \in Seq(Texts) /\ <<a>> \o s \in Seq(T)
<1>1. PICK n, b, z, y, d : /\ n = Len(s) /\ b = TextsOf(f, s) /\ z = <<a>> \o s
                           /\ y = <<f[a]>> \o b /\ d = TextsOf(f, z)
  OBVIOUS
<1>2. n \in Nat /\ DOMAIN s = 1 .. n
  BY <1>1
<1>3. b \in Seq(Texts) /\ Len(b) = n /\ \A i \in 1 .. n : b[i] = f[s[i]]
  <2>1. DOMAIN b = 1 .. n
    BY <1>1, <1>2 DEF TextsOf
  <2>2. Len(b) = n
    BY <1>1, <1>2, <2>1
  <2> QED
    BY <1>1, <1>2, <2>2 DEF TextsOf
<1>4. z \in Seq(T) /\ Len(z) = n + 1 /\ z[1] = a /\ \A i \in 1 .. n : z[i + 1] = s[i]
  BY <1>1, HeadOn
<1>5. y \in Seq(Texts) /\ Len(y) = n + 1 /\ y[1] = f[a] /\ \A i \in 1 .. n : y[i + 1] = b[i]
  BY <1>1, <1>3, HeadOn
<1>6. DOMAIN z = 1 .. n + 1 /\ n + 1 \in Nat
  BY <1>2, <1>4
<1>7. ASSUME NEW i \in 1 .. n + 1 PROVE d[i] = y[i] /\ y[i] \in Texts
  <2>1. d[i] = f[z[i]] /\ y[i] \in Texts
    <3>1. i \in DOMAIN z /\ i \in 1 .. Len(y)
      BY <1>5, <1>6
    <3>2. d[i] = f[z[i]]
      BY <1>1, <3>1 DEF TextsOf
    <3>3. y[i] \in Texts
      BY <1>5, <3>1
    <3> QED
      BY <3>2, <3>3
  <2>2. CASE i = 1
    BY <1>4, <1>5, <2>1, <2>2
  <2>3. CASE i # 1
    <3>1. i - 1 \in 1 .. n /\ (i - 1) + 1 = i
      BY <1>2, <2>3
    <3>2. z[(i - 1) + 1] = s[i - 1] /\ y[(i - 1) + 1] = b[i - 1] /\ b[i - 1] = f[s[i - 1]]
      BY <1>3, <1>4, <1>5, <3>1
    <3> QED
      BY <2>1, <3>1, <3>2
  <2> QED
    BY <2>2, <2>3
<1>8. d = y
  <2>1. d = [i \in 1 .. n + 1 |-> d[i]]
    BY <1>1, <1>6 DEF TextsOf
  <2>2. d \in [1 .. n + 1 -> Texts]
    BY <1>7, <2>1
  <2>3. d \in Seq(Texts) /\ Len(d) = n + 1
    BY <1>6, <2>1, <2>2
  <2> QED
    BY <1>5, <1>7, <2>3, SeqEqual
<1> QED
  BY <1>1, <1>4, <1>5, <1>8

\* Those of the calls in a chain.
LEMMA LinksMore ==
  ASSUME NEW T, NEW f, NEW a \in T, NEW s \in Seq(T), LinkText(f, a) \in Texts,
         LinksOf(f, s) \in Seq(Texts)
  PROVE  /\ LinksOf(f, <<a>> \o s) = <<LinkText(f, a)>> \o LinksOf(f, s)
         /\ LinksOf(f, <<a>> \o s) \in Seq(Texts) /\ <<a>> \o s \in Seq(T)
<1>1. PICK g : g = [x \in T |-> LinkText(f, x)]
  OBVIOUS
<1>2. ASSUME NEW u \in Seq(T) PROVE TextsOf(g, u) = LinksOf(f, u)
  <2>1. \A i \in DOMAIN u : u[i] \in T
    BY <1>2
  <2> QED
    BY <1>1, <2>1 DEF TextsOf, LinksOf
<1>3. g[a] = LinkText(f, a) /\ TextsOf(g, s) = LinksOf(f, s)
  BY <1>1, <1>2
<1>4. /\ TextsOf(g, <<a>> \o s) = <<g[a]>> \o TextsOf(g, s)
      /\ TextsOf(g, <<a>> \o s) \in Seq(Texts) /\ <<a>> \o s \in Seq(T)
  <2>1. g[a] \in Texts /\ TextsOf(g, s) \in Seq(Texts)
    BY <1>3
  <2> QED
    BY <2>1, TextsMore
<1>5. TextsOf(g, <<a>> \o s) = LinksOf(f, <<a>> \o s)
  BY <1>2, <1>4
<1> QED
  BY <1>3, <1>4, <1>5

LEMMA TextsNone == \A f : TextsOf(f, <<>>) = <<>> /\ LinksOf(f, <<>>) = <<>> /\ <<>> \in Seq(Texts)
  BY DEF TextsOf, LinksOf

\* Texts with commas between them: the first, and the others with a comma in front of each.
Comma == <<",", " ">>
CommasIn(s) == [i \in DOMAIN s |-> Comma \o s[i]]
LEMMA TwoAre ==
  ASSUME NEW T, NEW a \in T, NEW b \in T
  PROVE  <<a, b>> = <<a>> \o <<b>>
<1>1. PICK s, t, u, v : s = <<a>> /\ t = <<b>> /\ u = <<a, b>> /\ v = s \o t
  OBVIOUS
<1>2. s \in Seq(T) /\ t \in Seq(T) /\ Len(s) = 1 /\ Len(t) = 1 /\ s[1] = a /\ t[1] = b
  BY <1>1
<1>3. u \in Seq(T) /\ Len(u) = 2 /\ u[1] = a /\ u[2] = b
  BY <1>1
<1>4. v \in Seq(T) /\ Len(v) = 2 /\ v[1] = a /\ v[2] = b
  <2>1. v \in Seq(T) /\ Len(v) = Len(s) + Len(t)
    BY <1>1, <1>2, SeqOn
  <2>2. v[1] = s[1] /\ v[1 + Len(s)] = t[1]
    BY <1>1, <1>2, SeqOn
  <2> QED
    BY <1>2, <2>1, <2>2
<1>5. ASSUME NEW i \in 1 .. 2 PROVE u[i] = v[i]
  <2>1. i = 1 \/ i = 2
    OBVIOUS
  <2> QED
    BY <1>3, <1>4, <2>1
<1>6. u = v
  BY <1>3, <1>4, <1>5, SeqEqual
<1> QED
  BY <1>1, <1>6
LEMMA CommaIs == Comma \in Texts /\ Comma = <<",">> \o <<" ">>
<1>1. "," \in Chars /\ " " \in Chars
  BY DEF Chars, Marks
<1>2. Comma = <<",">> \o <<" ">>
  BY <1>1, TwoAre DEF Comma
<1>3. <<",">> \in Texts /\ <<" ">> \in Texts
  BY <1>1, TextsOn
<1> QED
  BY <1>2, <1>3, TextsOn

LEMMA ListedHead ==
  ASSUME NEW b \in Texts, NEW s \in Seq(Texts), FlattenSeq(CommasIn(s)) \in Texts, CommasIn(s) \in Seq(Texts)
  PROVE  Listed(<<b>> \o s) = b \o FlattenSeq(CommasIn(s))
<1>1. PICK n, c, z, y : n = Len(s) /\ c = CommasIn(s) /\ z = <<b>> \o s /\ y = <<b>> \o c
  OBVIOUS
<1>2. n \in Nat /\ DOMAIN s = 1 .. n /\ c \in Seq(Texts)
  BY <1>1
<1>3. Len(c) = n /\ \A i \in 1 .. n : c[i] = Comma \o s[i]
  <2>1. DOMAIN c = 1 .. n
    BY <1>1, <1>2 DEF CommasIn
  <2> QED
    BY <1>1, <1>2, <2>1 DEF CommasIn
<1>4. z \in Seq(Texts) /\ Len(z) = n + 1 /\ z[1] = b /\ \A i \in 1 .. n : z[i + 1] = s[i]
  BY <1>1, HeadOn
<1>5. y \in Seq(Texts) /\ Len(y) = n + 1 /\ y[1] = b /\ \A i \in 1 .. n : y[i + 1] = c[i]
  BY <1>1, <1>2, <1>3, HeadOn
<1>6. DOMAIN z = 1 .. n + 1 /\ n + 1 \in Nat
  BY <1>2, <1>4
<1>7. PICK d : d = [i \in DOMAIN z |-> (IF i = 1 THEN <<>> ELSE Comma) \o z[i]]
  OBVIOUS
<1>8. ASSUME NEW i \in 1 .. n + 1 PROVE d[i] = y[i] /\ y[i] \in Texts
  <2>1. y[i] \in Texts /\ d[i] = (IF i = 1 THEN <<>> ELSE Comma) \o z[i]
    BY <1>5, <1>6, <1>7
  <2>2. CASE i = 1
    <3>1. d[i] = <<>> \o b
      BY <1>4, <2>1, <2>2
    <3> QED
      BY <1>5, <2>1, <2>2, <3>1, TextsOn
  <2>3. CASE i # 1
    <3>1. i - 1 \in 1 .. n /\ (i - 1) + 1 = i
      BY <1>2, <2>3
    <3>2. z[(i - 1) + 1] = s[i - 1] /\ y[(i - 1) + 1] = c[i - 1] /\ c[i - 1] = Comma \o s[i - 1]
      BY <1>3, <1>4, <1>5, <3>1
    <3> QED
      BY <2>1, <2>3, <3>1, <3>2
  <2> QED
    BY <2>2, <2>3
<1>9. d = y
  <2>1. d = [i \in 1 .. n + 1 |-> d[i]]
    BY <1>6, <1>7
  <2>2. d \in [1 .. n + 1 -> Texts]
    BY <1>8, <2>1
  <2>3. d \in Seq(Texts) /\ Len(d) = n + 1
    BY <1>6, <2>1, <2>2
  <2> QED
    BY <1>5, <1>8, <2>3, SeqEqual
<1>10. Listed(z) = FlattenSeq(d)
  BY <1>7 DEF Listed, Comma
<1> QED
  BY <1>1, <1>2, <1>9, <1>10, FlatHead

LEMMA CommasAre ==
  ASSUME NEW s \in Seq(Texts)
  PROVE  CommasIn(s) \in Seq(Texts) /\ FlattenSeq(CommasIn(s)) \in Texts
<1>1. PICK n : n = Len(s)
  OBVIOUS
<1>2. n \in Nat /\ DOMAIN s = 1 .. n /\ \A i \in 1 .. n : s[i] \in Texts
  BY <1>1
<1>3. \A i \in 1 .. n : Comma \o s[i] \in Texts
  BY <1>2, CommaIs, TextsOn
<1>4. CommasIn(s) \in [1 .. n -> Texts]
  BY <1>2, <1>3 DEF CommasIn
<1>5. CommasIn(s) \in Seq(Texts)
  BY <1>2, <1>4
<1>6. <<>> \in Texts
  BY TextsOn
<1> QED
  BY <1>5, <1>6, FlatHead

LEMMA ListedMore ==
  ASSUME NEW b \in Texts, NEW s \in Seq(Texts)
  PROVE  /\ Len(s) = 0 => Listed(<<b>> \o s) = b
         /\ Len(s) > 0 => Listed(<<b>> \o s) = b \o (Comma \o Listed(s))
         /\ Listed(<<b>> \o s) \in Texts /\ Listed(<<>>) = <<>>
<1>1. PICK c, r : c = CommasIn(s) /\ r = FlattenSeq(c)
  OBVIOUS
<1>2. c \in Seq(Texts) /\ r \in Texts
  BY <1>1, CommasAre
<1>3. Listed(<<b>> \o s) = b \o r
  BY <1>1, <1>2, ListedHead
<1>4. b \o r \in Texts
  BY <1>2, TextsOn
<1>5. ASSUME Len(s) = 0 PROVE b \o r = b
  <2>1. s = <<>>
    BY <1>5, EmptySeq
  <2>2. c = <<>>
    BY <1>1, <2>1 DEF CommasIn
  <2>3. r = <<>>
    BY <1>1, <1>4, <2>2, FlatHead, TextsOn
  <2> QED
    BY <2>3, TextsOn
<1>6. ASSUME Len(s) > 0 PROVE r = Comma \o Listed(s)
  <2>1. PICK e \in Texts, u \in Seq(Texts) : s = <<e>> \o u
    BY <1>6, HeadOf DEF HasHead
  <2>2. PICK g : g = [x \in Texts |-> Comma \o x]
    OBVIOUS
  <2>3. ASSUME NEW w \in Seq(Texts) PROVE TextsOf(g, w) = CommasIn(w)
    <3>1. \A i \in DOMAIN w : w[i] \in Texts
      BY <2>3
    <3> QED
      BY <2>2, <3>1 DEF TextsOf, CommasIn
  <2>4. PICK m, q : m = CommasIn(u) /\ q = FlattenSeq(m)
    OBVIOUS
  <2>5. m \in Seq(Texts) /\ q \in Texts
    BY <2>4, CommasAre
  <2>6. g[e] = Comma \o e /\ Comma \o e \in Texts /\ TextsOf(g, u) = m
    BY <2>2, <2>3, <2>4, CommaIs, TextsOn
  <2>7. TextsOf(g, <<e>> \o u) = <<g[e]>> \o TextsOf(g, u)
    <3>1. g[e] \in Texts /\ TextsOf(g, u) \in Seq(Texts)
      BY <2>5, <2>6
    <3>2. /\ TextsOf(g, <<e>> \o u) = <<g[e]>> \o TextsOf(g, u)
          /\ TextsOf(g, <<e>> \o u) \in Seq(Texts) /\ <<e>> \o u \in Seq(Texts)
      BY <3>1, TextsMore
    <3> QED
      BY <3>2
  <2>8. c = <<Comma \o e>> \o m
    BY <1>1, <2>1, <2>3, <2>6, <2>7
  <2>9. r = (Comma \o e) \o q
    BY <1>1, <2>4, <2>5, <2>6, <2>8, FlatHead
  <2>10. Listed(s) = e \o q
    BY <2>1, <2>4, <2>5, ListedHead
  <2>11. (Comma \o e) \o q = Comma \o (e \o q)
    BY <2>5, CommaIs, TextsOn
  <2> QED
    BY <2>9, <2>10, <2>11
<1>7. Listed(<<>>) = <<>>
  <2>1. PICK d : d = [i \in DOMAIN <<>> |-> (IF i = 1 THEN <<>> ELSE <<",", " ">>) \o <<>>[i]]
    OBVIOUS
  <2>2. d = <<>> /\ <<>> \in Seq(Texts) /\ <<>> \in Texts
    BY <2>1, TextsOn
  <2> QED
    BY <2>1, <2>2, FlatHead DEF Listed
<1> QED
  BY <1>3, <1>4, <1>5, <1>6, <1>7

-----------------------------------------------------------------------------
(* What is read is written as something that is read alike.                *)

\* Numbers are written in decimals, from a token on; and things have their texts.
Fit(ts, i) == \A j \in i .. Len(ts) : ts[j].type = "number" => InDecimals(ts[j].text)
Solved(f, P) == \A x \in P : f[x] = Write(f, x)

\* The text of a value spells tokens that are read as it, the first like its own; so for an entry,
\* and for what the rules read.
ValueFine(v, type, f) ==
  \E c : Spells(f[v.value], c, Stops) /\ ValueReads(c, v.value, v.parts) /\ c[1].type = type
EntryFine(e, f) ==
  \E c : Spells(f[e.value], c, Chars) /\ EntryReads(c, e.value, e.parts) /\ c[1].type = "ident"
ItemsFine(r, rule, f, P) ==
  /\ r.items \in Seq(P) /\ TextsOf(f, r.items) \in Seq(Texts)
  /\ Len(r.items) = 0 => r.parts = {}
  /\ \E c : /\ Spells(Listed(TextsOf(f, r.items)) \o <<rule>>, c, Chars)
            /\ ItemsRead(c, rule, r.items, r.parts)
ChainFine(r, f, P) ==
  /\ r.items \in Seq(Links(P)) /\ LinksOf(f, r.items) \in Seq(Texts)
  /\ \E c : Spells(FlattenSeq(LinksOf(f, r.items)), c, Chars) /\ ChainReads(c, r.items, r.parts)
EntriesFine(r, close, f, P) ==
  /\ r.items \in Seq(P) /\ TextsOf(f, r.items) \in Seq(Texts)
  /\ \E c : /\ Spells(FlattenSeq(TextsOf(f, r.items)), c, Chars)
            /\ EntriesRead(c, close, r.items, r.parts)
            /\ Len(c) > 0 => c[1].type = "ident"
RowFine(row, f, P) ==
  /\ \A rule \in {")", "]"} :
       row[rule] # Failed /\ row[rule].parts \subseteq P => ItemsFine(row[rule], rule, f, P)
  /\ \A close \in Ending :
       row[close] # Failed /\ row[close].parts \subseteq P => EntriesFine(row[close], close, f, P)
  /\ row["chain"] # Failed /\ row["chain"].parts \subseteq P => ChainFine(row["chain"], f, P)
FineBehind(read, ts, i, f, P) == \A j \in i + 1 .. Len(ts) : RowFine(read[j], f, P)

LEMMA HasFine ==
  ASSUME NEW read, NEW ts, NEW i, NEW f, NEW P, FineBehind(read, ts, i, f, P),
         NEW j, NEW rule, NEW r, Has(read, ts, i, j, rule, r), r.parts \subseteq P
  PROVE  /\ rule \in {")", "]"} => ItemsFine(r, rule, f, P)
         /\ rule \in Ending => EntriesFine(r, rule, f, P)
         /\ rule = "chain" => ChainFine(r, f, P)
<1>1. RowFine(read[j], f, P) /\ r = read[j][rule] /\ r # Failed
  BY DEF FineBehind, Has
<1> QED
  BY <1>1 DEF RowFine

LEMMA ListedText == ASSUME NEW s \in Seq(Texts) PROVE Listed(s) \in Texts
<1>1. CASE Len(s) = 0
  <2>1. s = <<>>
    BY <1>1, EmptySeq
  <2>2. <<>> \in Texts /\ <<>> \in Seq(Texts)
    BY TextsOn
  <2> QED
    BY <2>1, <2>2, ListedMore
<1>2. CASE Len(s) # 0
  <2>1. Len(s) > 0
    BY <1>2
  <2>2. PICK e \in Texts, u \in Seq(Texts) : s = <<e>> \o u
    BY <2>1, HeadOf DEF HasHead
  <2> QED
    BY <2>2, ListedMore
<1> QED
  BY <1>1, <1>2

\* A mark behind a text that it may follow, and in front of one.
LEMMA SpellsEnd ==
  ASSUME NEW w, NEW c, NEW F, Spells(w, c, F), NEW m \in Marks, m \in F
  PROVE  /\ Spells(w \o <<m>>, c \o <<Token(m, <<>>)>>, Chars)
         /\ <<Token(m, <<>>)>> \in Seq(Tokens) /\ Token(m, <<>>) \in Tokens
<1>1. PICK e, d : e = <<m>> /\ d = <<Token(m, <<>>)>>
  OBVIOUS
<1>2. Spells(e, d, Chars)
  BY <1>1, SpellsMark
<1>3. IF e = <<>> THEN Chars \subseteq F ELSE e[1] \in F
  BY <1>1
<1>4. Spells(w \o e, c \o d, Chars)
  BY <1>2, <1>3, SpellsOn
<1>5. d \in Seq(Tokens) /\ Token(m, <<>>) \in Tokens
  <2>1. Made(Token(m, <<>>))
    BY TokenMade
  <2> QED
    BY <1>1, <2>1, TokenMade, MadeIs
<1> QED
  BY <1>1, <1>4, <1>5
LEMMA SpellsStart ==
  ASSUME NEW w, NEW c, NEW G \in SUBSET Chars, Spells(w, c, G), NEW m \in Marks
  PROVE  /\ Spells(<<m>> \o w, <<Token(m, <<>>)>> \o c, G) /\ Token(m, <<>>) \in Tokens
         /\ Token(m, <<>>).type = m
<1>1. Spells(<<m>>, <<Token(m, <<>>)>>, Chars)
  BY SpellsMark
<1>2. Spells(<<m>> \o w, <<Token(m, <<>>)>> \o c, G)
  BY <1>1, SpellsThen
<1>3. Token(m, <<>>) \in Tokens
  <2>1. Made(Token(m, <<>>))
    BY TokenMade
  <2> QED
    BY <2>1, MadeIs
<1> QED
  BY <1>2, <1>3 DEF Token

\* Values: one token,
LEMMA PlainFits ==
  ASSUME NEW f, NEW P, Solved(f, P), NEW x, NEW at, NEW v, v = Thing(at, x, {}), v.parts \subseteq P,
         NEW t \in Tokens, Spells(Write(f, x), <<t>>, Stops), ValueReads(<<t>>, x, {x})
  PROVE  ValueFine(v, t.type, f)
<1>1. v.value = x /\ v.parts = {x}
  BY DEF Thing
<1>2. f[x] = Write(f, x)
  BY <1>1 DEF Solved
<1>3. PICK c : c = <<t>>
  OBVIOUS
<1>4. c[1].type = t.type
  BY <1>3
<1>5. Spells(f[v.value], c, Stops) /\ ValueReads(c, v.value, v.parts)
  BY <1>1, <1>2, <1>3
<1> QED
  BY <1>4, <1>5 DEF ValueFine

LEMMA StopsAre == Stops \in SUBSET Chars
  BY DEF Stops

LEMMA TokenHas ==
  \A type, text : Token(type, text).type = type /\ Token(type, text).text = text
  BY DEF Token

LEMMA PlainFine ==
  ASSUME NEW ts, WellMade(ts), NEW i \in 1 .. Len(ts), Fit(ts, i), NEW f, NEW P, Solved(f, P),
         NEW v, PlainShaped(ts, i, v), v.parts \subseteq P
  PROVE  ValueFine(v, ts[i].type, f)
<1>1. PICK t, s, type : t = ts[i] /\ s = t.text /\ type = t.type
  OBVIOUS
<1>2. Made(t) /\ t \in Tokens /\ t = Token(type, s) /\ s \in Texts
  <2>1. Made(t)
    BY <1>1 DEF WellMade
  <2> QED
    BY <1>1, <2>1, MadeIs DEF Made
<1>3. CASE type = "string" /\ v = Thing(i + 1, Plain("string", s), {})
  <2>1. Write(f, Plain("string", s)) = QuoteString(s)
    BY WritePlain
  <2>2. Spells(QuoteString(s), <<t>>, Stops)
    BY <1>2, <1>3, SpellsString, SpellsLess, StopsAre
  <2>3. ValueReads(<<t>>, Plain("string", s), {Plain("string", s)})
    BY <1>1, <1>2, <1>3, PlainReads
  <2> QED
    BY <1>1, <1>2, <1>3, <2>1, <2>2, <2>3, PlainFits
<1>4. CASE type = "number" /\ v = Thing(i + 1, Plain("number", NumberOf(s)), {})
  <2>1. PICK w, u : w = NumberOf(s) /\ u = Token("number", w)
    OBVIOUS
  <2>2. MadeNumber(s) /\ InDecimals(s)
    <3>1. i \in i .. Len(ts)
      BY DEF WellMade
    <3>2. MadeNumber(s)
      BY <1>1, <1>2, <1>4 DEF Made
    <3> QED
      BY <1>1, <1>4, <3>1, <3>2 DEF Fit
  <2>3. MadeNumber(w) /\ NumberOf(w) = w
    BY <2>1, <2>2, NumberAgain
  <2>4. Made(u) /\ u \in Tokens /\ u.type = "number" /\ u.text = w
    BY <2>1, <2>3, TokenMade, MadeIs, TokenHas
  <2>5. Write(f, Plain("number", w)) = w
    BY WritePlain
  <2>6. Spells(w, <<u>>, Stops)
    BY <2>1, <2>3, SpellsNumber
  <2>7. ValueReads(<<u>>, Plain("number", w), {Plain("number", w)})
    BY <2>3, <2>4, PlainReads
  <2>8. ValueFine(v, u.type, f)
    BY <1>4, <2>1, <2>4, <2>5, <2>6, <2>7, PlainFits
  <2> QED
    BY <1>1, <1>4, <2>4, <2>8
<1>5. ASSUME NEW kind \in {"boolean", "token"}, type = "ident", kind = "boolean" <=> s = True,
             v = Thing(i + 1, Plain(kind, s), {})
      PROVE  ValueFine(v, type, f)
  <2>1. Write(f, Plain(kind, s)) = s
    BY WritePlain
  <2>2. MadeIdent(s)
    BY <1>1, <1>2, <1>5 DEF Made
  <2>3. Spells(s, <<t>>, Stops)
    BY <1>2, <1>5, <2>2, SpellsIdent
  <2>4. ValueReads(<<t>>, Plain(kind, s), {Plain(kind, s)})
    BY <1>1, <1>2, <1>5, PlainReads
  <2>5. PICK x, at : x = Plain(kind, s) /\ at = i + 1
    OBVIOUS
  <2>6. /\ v = Thing(at, x, {}) /\ Spells(Write(f, x), <<t>>, Stops)
        /\ ValueReads(<<t>>, x, {x}) /\ t \in Tokens
    BY <1>2, <1>5, <2>1, <2>3, <2>4, <2>5
  <2>7. ValueFine(v, t.type, f)
    BY <2>6, PlainFits
  <2> QED
    BY <1>1, <2>7
<1>6. CASE type = "ident" /\ s = True /\ v = Thing(i + 1, Plain("boolean", s), {})
  BY <1>1, <1>5, <1>6
<1>7. CASE type = "ident" /\ s # True /\ v = Thing(i + 1, Plain("token", s), {})
  BY <1>1, <1>5, <1>7
<1> QED
  BY <1>1, <1>3, <1>4, <1>6, <1>7 DEF PlainShaped

\* a list,
LEMMA ListFine ==
  ASSUME NEW ts, NEW read, NEW i, NEW f, NEW P, Solved(f, P), FineBehind(read, ts, i, f, P),
         NEW v, ListShaped(read, ts, i, v), v.parts \subseteq P
  PROVE  ValueFine(v, ts[i].type, f)
<1>1. PICK l : Has(read, ts, i, i + 1, "]", l) /\ v = Thing(l.at, ListOf(l.items), l.parts)
  BY DEF ListShaped
<1>2. PICK x : x = ListOf(l.items)
  OBVIOUS
<1>3. v.value = x /\ v.parts = {x} \cup l.parts
  BY <1>1, <1>2 DEF Thing
<1>4. l.parts \subseteq P /\ f[x] = Write(f, x)
  BY <1>3 DEF Solved
<1>5. ItemsFine(l, "]", f, P)
  BY <1>1, <1>4, HasFine
<1>6. PICK t, e : t = Listed(TextsOf(f, l.items)) /\ e = <<"]">>
  OBVIOUS
<1>7. t \in Texts /\ e \in Texts /\ <<"[">> \in Texts
  <2>1. "]" \in Chars /\ "[" \in Chars
    BY DEF Chars, Marks
  <2> QED
    BY <1>5, <1>6, <2>1, ListedText, TextsOn DEF ItemsFine
<1>8. PICK c : Spells(t \o e, c, Chars) /\ ItemsRead(c, "]", l.items, l.parts)
  BY <1>5, <1>6 DEF ItemsFine
<1>9. f[x] = <<"[">> \o (t \o e)
  <2>1. f[x] = <<"[">> \o t \o e
    BY <1>2, <1>4, <1>6, WriteList DEF ListText
  <2> QED
    BY <1>7, <2>1, TextsOn
<1>10. PICK b : b = Token("[", <<>>)
  OBVIOUS
<1>11. Spells(f[x], <<b>> \o c, Stops) /\ b \in Tokens /\ b.type = "["
  <2>1. Spells(t \o e, c, Stops)
    BY <1>8, SpellsLess, StopsAre
  <2>2. "[" \in Marks
    BY DEF Marks
  <2> QED
    BY <1>9, <1>10, <2>1, <2>2, SpellsStart, StopsAre
<1>12. ValueReads(<<b>> \o c, x, {x} \cup l.parts)
  BY <1>2, <1>8, <1>11, ListReads
<1>13. (<<b>> \o c)[1] = b
  <2>1. c \in Seq(Tokens)
    BY <1>8 DEF Spells
  <2> QED
    BY <1>11, <2>1, HeadOn
<1>14. ts[i].type = "["
  BY DEF ListShaped
<1> QED
  BY <1>3, <1>11, <1>12, <1>13, <1>14 DEF ValueFine

\* Texts one behind the other, in another order of putting them together.
Joins(x, y, z) == (x \o y) \o z = x \o (y \o z)
LEMMA ThreeOn == \A x, y, z \in Texts : Joins(x, y, z)
  BY TextsOn DEF Joins

\* The text of a call.
LEMMA CallTextIs ==
  ASSUME NEW name \in Texts, NEW t \in Texts, NEW u \in Texts
  PROVE  /\ CallText(name, t) \in Texts
         /\ CallText(name, t) \o u = name \o (<<"(">> \o ((t \o <<")">>) \o u))
<1>1. PICK a, b : a = <<"(">> /\ b = <<")">>
  OBVIOUS
<1>2. a \in Texts /\ b \in Texts
  <2>1. "(" \in Chars /\ ")" \in Chars
    BY DEF Chars, Marks
  <2> QED
    BY <1>1, <2>1, TextsOn
<1>3. CallText(name, t) = ((name \o a) \o t) \o b
  BY <1>1 DEF CallText
<1>4. ((name \o a) \o t) \o b \in Texts
  BY <1>2, TextsOn
<1>5. name \o a \in Texts /\ (name \o a) \o t \in Texts /\ t \o b \in Texts /\ (t \o b) \o u \in Texts
  BY <1>2, TextsOn
<1>6. (((name \o a) \o t) \o b) \o u = ((name \o a) \o t) \o (b \o u)
  <2>1. Joins((name \o a) \o t, b, u)
    BY <1>2, <1>5, ThreeOn
  <2> QED
    BY <2>1 DEF Joins
<1>7. ((name \o a) \o t) \o (b \o u) = (name \o a) \o (t \o (b \o u))
  <2>1. b \o u \in Texts
    BY <1>2, TextsOn
  <2> QED
    BY <1>5, <2>1, TextsOn
<1>8. t \o (b \o u) = (t \o b) \o u
  BY <1>2, TextsOn
<1>9. (name \o a) \o ((t \o b) \o u) = name \o (a \o ((t \o b) \o u))
  <2>1. PICK q : q = (t \o b) \o u
    OBVIOUS
  <2>2. q \in Texts
    BY <1>5, <2>1
  <2>3. (name \o a) \o q = name \o (a \o q)
    BY <1>2, <2>2, TextsOn
  <2> QED
    BY <2>1, <2>3
<1> QED
  BY <1>1, <1>3, <1>4, <1>6, <1>7, <1>8, <1>9

\* A text that has a first character.
LEMMA FirstOf ==
  ASSUME NEW c \in Chars, NEW w \in Texts
  PROVE  <<c>> \o w # <<>> /\ (<<c>> \o w)[1] = c /\ <<c>> \o w \in Texts
<1>1. PICK u : u = <<c>> \o w
  OBVIOUS
<1>2. u \in Seq(Chars) /\ Len(u) = Len(w) + 1 /\ u[1] = c /\ Len(w) \in Nat
  BY <1>1, HeadOn DEF Texts
<1>3. Len(u) # 0
  BY <1>2
<1>4. u # <<>>
  BY <1>3
<1> QED
  BY <1>1, <1>2, <1>4 DEF Texts

LEMMA SpellsCall ==
  ASSUME NEW name, MadeIdent(name), NEW u \in Texts, NEW c, Spells(u \o <<")">>, c, Chars),
         NEW k, NEW d, Spells(k, d, Chars)
  PROVE  /\ Spells(CallText(name, u) \o k,
                   <<Token("ident", name)>> \o (<<Token("(", <<>>)>> \o (c \o d)), Chars)
         /\ Token("(", <<>>) \in Tokens /\ Token("(", <<>>).type = "("
<1>1. PICK e, v : e = <<")">> /\ v = (u \o e) \o k
  OBVIOUS
<1>2. Spells(v, c \o d, Chars) /\ v \in Texts
  <2>1. Spells(u \o e, c, Chars)
    BY <1>1
  <2> QED
    BY <1>1, <2>1, SpellsThen DEF Spells
<1>3. PICK w, b, z : w = <<"(">> \o v /\ b = Token("(", <<>>) /\ z = <<b>> \o (c \o d)
  OBVIOUS
<1>4. Spells(w, z, Chars) /\ b \in Tokens /\ b.type = "("
  <2>1. "(" \in Marks
    BY DEF Marks
  <2> QED
    BY <1>2, <1>3, <2>1, SpellsStart
<1>5. w # <<>> /\ w[1] = "("
  <2>1. "(" \in Chars
    BY DEF Chars, Marks
  <2> QED
    BY <1>2, <1>3, <2>1, FirstOf
<1>6. "(" \in Stops
  BY DEF Stops, Chars, Marks, Letters, Digits
<1>7. Spells(name \o w, <<Token("ident", name)>> \o z, Chars)
  BY <1>4, <1>5, <1>6, SpellsIdent, SpellsOn
<1>8. CallText(name, u) \o k = name \o w
  <2>1. name \in Texts /\ k \in Texts
    BY DEF MadeIdent, Spells
  <2>2. /\ CallText(name, u) \in Texts
        /\ CallText(name, u) \o k = name \o (<<"(">> \o ((u \o <<")">>) \o k))
    BY <2>1, CallTextIs
  <2> QED
    BY <1>1, <1>3, <2>2
<1> QED
  BY <1>3, <1>4, <1>7, <1>8

LEMMA CallFine ==
  ASSUME NEW ts, WellMade(ts), NEW read, NEW i \in 1 .. Len(ts), NEW f, NEW P, Solved(f, P),
         FineBehind(read, ts, i, f, P), NEW v, CallShaped(read, ts, i, v), v.parts \subseteq P
  PROVE  ValueFine(v, ts[i].type, f)
<1>1. PICK t, name : t = ts[i] /\ name = t.text
  OBVIOUS
<1>2. /\ Made(t) /\ t \in Tokens /\ t.type = "ident" /\ name # True /\ t = Token("ident", name)
      /\ name \in Texts /\ MadeIdent(name)
  <2>1. Made(t) /\ t.type = "ident" /\ name # True
    BY <1>1 DEF WellMade, CallShaped
  <2> QED
    BY <1>1, <2>1, MadeIs DEF Made
<1>3. PICK a, h : /\ Has(read, ts, i, i + 2, ")", a) /\ Has(read, ts, i, a.at, "chain", h)
                  /\ v = Thing(h.at, CallOf(name, a.items, h.items), a.parts \cup h.parts)
  BY <1>1 DEF CallShaped
<1>4. PICK x : x = CallOf(name, a.items, h.items)
  OBVIOUS
<1>5. v.value = x /\ v.parts = {x} \cup (a.parts \cup h.parts)
  BY <1>3, <1>4 DEF Thing
<1>6. a.parts \subseteq P /\ h.parts \subseteq P /\ f[x] = Write(f, x)
  BY <1>5 DEF Solved
<1>7. ItemsFine(a, ")", f, P) /\ ChainFine(h, f, P)
  BY <1>3, <1>6, HasFine
<1>8. PICK u, e, k : u = Listed(TextsOf(f, a.items)) /\ e = <<")">> /\ k = FlattenSeq(LinksOf(f, h.items))
  OBVIOUS
<1>9. PICK c : Spells(u \o e, c, Chars) /\ ItemsRead(c, ")", a.items, a.parts)
  BY <1>7, <1>8 DEF ItemsFine
<1>10. PICK d : Spells(k, d, Chars) /\ ChainReads(d, h.items, h.parts)
  BY <1>7, <1>8 DEF ChainFine
<1>11. u \in Texts /\ k \in Texts
  <2>1. u \in Texts
    BY <1>7, <1>8, ListedText DEF ItemsFine
  <2> QED
    BY <1>10, <2>1 DEF Spells
<1>12. PICK b, z : b = Token("(", <<>>) /\ z = <<b>> \o (c \o d)
  OBVIOUS
<1>13. Spells(f[x], <<t>> \o z, Stops) /\ b \in Tokens /\ b.type = "("
  <2>1. f[x] = WriteCall(f, name, a.items) \o k
    <3>1. Write(f, CallOf(name, a.items, h.items)) =
            WriteCall(f, name, a.items) \o FlattenSeq(LinksOf(f, h.items))
      BY WriteCalls
    <3> QED
      BY <1>4, <1>6, <1>8, <3>1
  <2>2. WriteCall(f, name, a.items) = CallText(name, u)
    BY <1>8, WriteCallIs
  <2>3. Spells(u \o <<")">>, c, Chars)
    BY <1>8, <1>9
  <2>4. /\ Spells(CallText(name, u) \o k,
                  <<Token("ident", name)>> \o (<<Token("(", <<>>)>> \o (c \o d)), Chars)
        /\ Token("(", <<>>) \in Tokens /\ Token("(", <<>>).type = "("
    BY <1>2, <1>10, <1>11, <2>3, SpellsCall
  <2>5. Spells(f[x], <<t>> \o z, Chars)
    BY <1>2, <1>12, <2>1, <2>2, <2>4
  <2> QED
    BY <1>12, <2>4, <2>5, SpellsLess, StopsAre
<1>14. ValueReads(<<t>> \o z, x, {x} \cup (a.parts \cup h.parts))
  BY <1>1, <1>2, <1>4, <1>9, <1>10, <1>12, <1>13, CallReads
<1>15. (<<t>> \o z)[1] = t
  <2>1. c \in Seq(Tokens) /\ d \in Seq(Tokens)
    BY <1>9, <1>10 DEF Spells
  <2>2. z \in Seq(Tokens)
    BY <1>12, <1>13, <2>1, SeqOn, HeadOn
  <2> QED
    BY <1>2, <2>2, HeadOn
<1>16. Spells(f[v.value], <<t>> \o z, Stops) /\ ValueReads(<<t>> \o z, v.value, v.parts)
  BY <1>5, <1>13, <1>14
<1> QED
  BY <1>1, <1>2, <1>15, <1>16 DEF ValueFine

\* So it is with every value.
LEMMA ValuesFine ==
  ASSUME NEW ts, WellMade(ts), NEW read, Reading(read, ts), NEW i \in 1 .. Len(ts), Fit(ts, i),
         NEW f, NEW P, Solved(f, P), FineBehind(read, ts, i, f, P), NEW v, v = Value(read, ts, i),
         v # Failed, v.parts \subseteq P
  PROVE  ValueFine(v, ts[i].type, f) /\ ts[i].type \in {"string", "number", "[", "ident"}
<1>1. /\ PlainShaped(ts, i, v) \/ ListShaped(read, ts, i, v) \/ CallShaped(read, ts, i, v)
      /\ ReadThing(v, i, Len(ts)) /\ ts[i].type \in {"string", "number", "[", "ident"}
  BY ValueShape
<1>2. CASE PlainShaped(ts, i, v)
  BY <1>1, <1>2, PlainFine
<1>3. CASE ListShaped(read, ts, i, v)
  BY <1>1, <1>3, ListFine
<1>4. CASE CallShaped(read, ts, i, v)
  BY <1>1, <1>4, CallFine
<1> QED
  BY <1>1, <1>2, <1>3, <1>4

\* A comma and what follows it.
LEMMA SpellsComma ==
  ASSUME NEW w, NEW d, Spells(w, d, Chars)
  PROVE  /\ Spells(Comma \o w, <<Token(",", <<>>)>> \o d, Chars)
         /\ Token(",", <<>>) \in Tokens /\ Token(",", <<>>).type = ","
<1>1. "," \in Marks /\ "," \in Chars /\ " " \in Chars /\ w \in Texts
  BY DEF Marks, Chars, Spells
<1>2. PICK a, b : a = <<",">> /\ b = <<" ">>
  OBVIOUS
<1>3. a \in Texts /\ b \in Texts /\ Comma = a \o b
  BY <1>1, <1>2, CommaIs, TextsOn
<1>4. Spells(b \o w, <<>> \o d, Chars)
  <2>1. Spells(b, <<>>, Chars)
    BY <1>2, SpellsSpace
  <2> QED
    BY <2>1, SpellsThen
<1>5. <<>> \o d = d
  BY SeqShort DEF Spells
<1>6. /\ Spells(a \o (b \o w), <<Token(",", <<>>)>> \o d, Chars)
      /\ Token(",", <<>>) \in Tokens /\ Token(",", <<>>).type = ","
  BY <1>1, <1>2, <1>4, <1>5, SpellsStart
<1>7. Comma \o w = a \o (b \o w)
  BY <1>1, <1>3, TextsOn
<1> QED
  BY <1>6, <1>7
LEMMA CommaFirst ==
  ASSUME NEW w \in Texts
  PROVE  Comma \o w # <<>> /\ (Comma \o w)[1] \in Stops
<1>1. "," \in Chars /\ "," \in Stops /\ " " \in Chars
  BY DEF Chars, Marks, Stops, Letters, Digits
<1>2. PICK a, b : a = <<",">> /\ b = <<" ">>
  OBVIOUS
<1>3. a \in Texts /\ b \in Texts /\ Comma = a \o b /\ b \o w \in Texts
  BY <1>1, <1>2, CommaIs, TextsOn
<1>4. Comma \o w = a \o (b \o w)
  BY <1>3, TextsOn
<1> QED
  BY <1>1, <1>2, <1>3, <1>4, FirstOf

\* Items: none,
LEMMA NothingFine ==
  ASSUME NEW f, NEW P, NEW at
  PROVE  /\ \A rule \in {")", "]"} : ItemsFine(Nothing(at), rule, f, P)
         /\ ChainFine(Nothing(at), f, P)
         /\ \A close \in Ending : EntriesFine(Nothing(at), close, f, P)
<1>1. PICK r : r = Nothing(at)
  OBVIOUS
<1>2. r.items = <<>> /\ r.parts = {}
  BY <1>1 DEF Nothing
<1>3. /\ <<>> \in Seq(P) /\ <<>> \in Seq(Links(P)) /\ <<>> \in Seq(Texts) /\ <<>> \in Texts
      /\ <<>> \in Seq(Tokens) /\ Len(<<>>) = 0
  BY SeqShort, TextsOn
<1>4. TextsOf(f, <<>>) = <<>> /\ LinksOf(f, <<>>) = <<>> /\ FlattenSeq(<<>>) = <<>> /\ Listed(<<>>) = <<>>
  BY <1>3, TextsNone, FlatHead, ListedMore
<1>5. ASSUME NEW rule \in {")", "]"} PROVE ItemsFine(r, rule, f, P)
  <2>1. PICK b : b = Token(rule, <<>>)
    OBVIOUS
  <2>2. rule \in Marks /\ rule \in Chars
    BY DEF Marks, Chars
  <2>3. b \in Tokens /\ b.type = rule
    <3>1. Made(b)
      BY <2>1, <2>2, TokenMade
    <3> QED
      BY <2>1, <3>1, MadeIs, TokenHas
  <2>4. <<>> \o <<rule>> = <<rule>>
    <3>1. <<rule>> \in Texts
      BY <2>2, TextsOn
    <3> QED
      BY <3>1, TextsOn
  <2>5. Spells(<<>> \o <<rule>>, <<b>>, Chars)
    BY <2>1, <2>2, <2>4, SpellsMark
  <2>6. ItemsRead(<<b>>, rule, <<>>, {})
    BY <2>3, ItemsNone
  <2> QED
    BY <1>2, <1>3, <1>4, <2>5, <2>6 DEF ItemsFine
<1>6. ChainFine(r, f, P)
  BY <1>2, <1>3, <1>4, SpellsNothing, ChainNone DEF ChainFine
<1>7. ASSUME NEW close \in Ending PROVE EntriesFine(r, close, f, P)
  <2>1. PICK c : c = <<>>
    OBVIOUS
  <2>2. Spells(FlattenSeq(TextsOf(f, r.items)), c, Chars) /\ EntriesRead(c, close, r.items, r.parts)
    BY <1>2, <1>4, <2>1, SpellsNothing, EntriesNone
  <2>3. ~(Len(c) > 0)
    BY <1>3, <2>1
  <2> QED
    BY <1>2, <1>3, <1>4, <2>2, <2>3 DEF EntriesFine
<1> QED
  BY <1>1, <1>5, <1>6, <1>7

\* or a value before others.
LEMMA ItemFine ==
  ASSUME NEW f, NEW P, NEW rule \in {")", "]"},
         NEW v, NEW type \in {"string", "number", "[", "ident"}, ValueFine(v, type, f), v.value \in P,
         NEW rest, ItemsFine(rest, rule, f, P)
  PROVE  ItemsFine(Before(v.value, v.parts, rest), rule, f, P)
<1>1. PICK r, x, xs : r = Before(v.value, v.parts, rest) /\ x = v.value /\ xs = rest.items
  OBVIOUS
<1>2. r.items = <<x>> \o xs /\ r.parts = v.parts \cup rest.parts
  BY <1>1 DEF Before
<1>3. PICK c : Spells(f[x], c, Stops) /\ ValueReads(c, x, v.parts) /\ c[1].type = type
  BY <1>1 DEF ValueFine
<1>4. xs \in Seq(P) /\ TextsOf(f, xs) \in Seq(Texts) /\ x \in P
  BY <1>1 DEF ItemsFine
<1>5. PICK t, s, e : t = f[x] /\ s = TextsOf(f, xs) /\ e = <<rule>>
  OBVIOUS
<1>6. t \in Texts /\ s \in Seq(Texts) /\ Len(s) = Len(xs) /\ Len(s) \in Nat
  <2>1. t \in Texts
    BY <1>3, <1>5 DEF Spells
  <2>2. Len(xs) \in Nat /\ DOMAIN s = 1 .. Len(xs)
    BY <1>4, <1>5 DEF TextsOf
  <2>3. Len(s) = Len(xs)
    BY <2>2
  <2> QED
    BY <1>4, <1>5, <2>1, <2>2, <2>3
<1>7. /\ TextsOf(f, <<x>> \o xs) = <<t>> \o s /\ <<t>> \o s \in Seq(Texts)
      /\ <<x>> \o xs \in Seq(P)
  <2>1. f[x] \in Texts
    BY <1>5, <1>6
  <2>2. /\ TextsOf(f, <<x>> \o xs) = <<f[x]>> \o TextsOf(f, xs)
        /\ TextsOf(f, <<x>> \o xs) \in Seq(Texts) /\ <<x>> \o xs \in Seq(P)
    BY <1>4, <2>1, TextsMore
  <2> QED
    BY <1>5, <2>2
<1>8. rule \in Marks /\ rule \in Stops /\ rule \in Chars /\ type # rule
  BY DEF Marks, Stops, Chars, Letters, Digits
<1>9. e \in Texts
  BY <1>5, <1>8, TextsOn
<1>10. Len(r.items) # 0
  <2>1. PICK y : y = <<x>> \o xs
    OBVIOUS
  <2>2. Len(y) = Len(xs) + 1 /\ Len(xs) \in Nat
    BY <1>4, <2>1, HeadOn
  <2>3. Len(y) # 0
    BY <2>2
  <2> QED
    BY <1>2, <2>1, <2>3
<1>11. CASE Len(s) = 0
  <2>1. Listed(<<t>> \o s) = t
    BY <1>6, <1>11, ListedMore
  <2>2. xs = <<>> /\ rest.parts = {}
    <3>1. Len(xs) = 0
      BY <1>6, <1>11
    <3> QED
      BY <1>1, <1>4, <3>1, EmptySeq DEF ItemsFine
  <2>3. PICK b : b = Token(rule, <<>>)
    OBVIOUS
  <2>4. Spells(t \o e, c \o <<b>>, Chars) /\ b \in Tokens /\ b.type = rule
    BY <1>3, <1>5, <1>8, <2>3, SpellsEnd, TokenHas
  <2>5. ItemsRead(c \o <<b>>, rule, <<x>> \o <<>>, v.parts \cup {})
    BY <1>3, <1>8, <2>4, ItemsLast
  <2>6. ItemsRead(c \o <<b>>, rule, r.items, r.parts)
    BY <1>2, <2>2, <2>5
  <2>7. Spells(Listed(TextsOf(f, r.items)) \o <<rule>>, c \o <<b>>, Chars)
    BY <1>2, <1>5, <1>7, <2>1, <2>4
  <2>8. ItemsFine(r, rule, f, P)
    BY <1>2, <1>7, <1>10, <2>6, <2>7 DEF ItemsFine
  <2> QED
    BY <1>1, <2>8
<1>12. CASE Len(s) # 0
  <2>1. Len(s) > 0
    BY <1>6, <1>12
  <2>2. PICK l : l = Listed(s)
    OBVIOUS
  <2>3. Listed(<<t>> \o s) = t \o (Comma \o l) /\ l \in Texts
    BY <1>6, <2>1, <2>2, ListedMore, ListedText
  <2>4. PICK d : Spells(l \o e, d, Chars) /\ ItemsRead(d, rule, xs, rest.parts)
    BY <1>1, <1>5, <2>2 DEF ItemsFine
  <2>5. (t \o (Comma \o l)) \o e = t \o (Comma \o (l \o e)) /\ Comma \o (l \o e) \in Texts
    <3>1. Comma \in Texts /\ Comma \o l \in Texts /\ l \o e \in Texts
      BY <1>9, <2>3, CommaIs, TextsOn
    <3>2. (t \o (Comma \o l)) \o e = t \o ((Comma \o l) \o e)
      BY <1>6, <1>9, <3>1, TextsOn
    <3>3. (Comma \o l) \o e = Comma \o (l \o e)
      BY <1>9, <2>3, <3>1, TextsOn
    <3> QED
      BY <3>1, <3>2, <3>3, TextsOn
  <2>6. PICK b : b = Token(",", <<>>)
    OBVIOUS
  <2>7. Spells(Comma \o (l \o e), <<b>> \o d, Chars) /\ b \in Tokens /\ b.type = ","
    BY <2>4, <2>6, SpellsComma
  <2>8. Spells(t \o (Comma \o (l \o e)), c \o (<<b>> \o d), Chars)
    <3>1. PICK w : w = Comma \o (l \o e)
      OBVIOUS
    <3>2. w # <<>> /\ w[1] \in Stops
      BY <2>3, <2>4, <3>1, CommaFirst DEF Spells
    <3>3. Spells(w, <<b>> \o d, Chars)
      BY <2>7, <3>1
    <3>4. Spells(t \o w, c \o (<<b>> \o d), Chars)
      BY <1>3, <1>5, <3>2, <3>3, SpellsOn
    <3> QED
      BY <3>1, <3>4
  <2>9. ItemsRead(c \o (<<b>> \o d), rule, <<x>> \o xs, v.parts \cup rest.parts)
    BY <1>3, <1>8, <2>4, <2>7, ItemsMore
  <2>10. Spells(Listed(TextsOf(f, r.items)) \o <<rule>>, c \o (<<b>> \o d), Chars)
    BY <1>2, <1>5, <1>7, <2>3, <2>5, <2>8
  <2>11. ItemsRead(c \o (<<b>> \o d), rule, r.items, r.parts)
    BY <1>2, <2>9
  <2>12. ItemsFine(r, rule, f, P)
    BY <1>2, <1>7, <1>10, <2>10, <2>11 DEF ItemsFine
  <2> QED
    BY <1>1, <2>12
<1> QED
  BY <1>11, <1>12

\* A call in a chain before others.
LEMMA LinkFine ==
  ASSUME NEW f, NEW P, NEW t, Made(t), t.type = "ident", NEW a, ItemsFine(a, ")", f, P),
         NEW rest, ChainFine(rest, f, P)
  PROVE  ChainFine(Before(Segment(t.text, a.items), a.parts, rest), f, P)
<1>1. PICK r, x, xs, name : /\ name = t.text /\ x = Segment(name, a.items) /\ xs = rest.items
                            /\ r = Before(x, a.parts, rest)
  OBVIOUS
<1>2. r.items = <<x>> \o xs /\ r.parts = a.parts \cup rest.parts
  BY <1>1 DEF Before
<1>3. t \in Tokens /\ t = Token("ident", name) /\ MadeIdent(name) /\ name \in Texts
  BY <1>1, MadeIs DEF Made
<1>4. x \in Links(P) /\ x.name = name /\ x.args = a.items
  BY <1>1, <1>3 DEF ItemsFine, Links, Segment
<1>5. PICK u, e, k : u = Listed(TextsOf(f, a.items)) /\ e = <<")">> /\ k = FlattenSeq(LinksOf(f, xs))
  OBVIOUS
<1>6. PICK c : Spells(u \o e, c, Chars) /\ ItemsRead(c, ")", a.items, a.parts)
  BY <1>5 DEF ItemsFine
<1>7. PICK d : Spells(k, d, Chars) /\ ChainReads(d, xs, rest.parts)
  BY <1>1, <1>5 DEF ChainFine
<1>8. u \in Texts /\ k \in Texts
  <2>1. u \in Texts
    BY <1>5, ListedText DEF ItemsFine
  <2> QED
    BY <1>7, <2>1 DEF Spells
<1>9. PICK b, w, z : /\ b = Token("(", <<>>) /\ w = CallText(name, u)
                     /\ z = <<t>> \o (<<b>> \o (c \o d))
  OBVIOUS
<1>10. Spells(w \o k, z, Chars) /\ b \in Tokens /\ b.type = "(" /\ w \in Texts
  <2>1. Spells(u \o <<")">>, c, Chars)
    BY <1>5, <1>6
  <2>2. /\ Spells(CallText(name, u) \o k,
                  <<Token("ident", name)>> \o (<<Token("(", <<>>)>> \o (c \o d)), Chars)
        /\ Token("(", <<>>) \in Tokens /\ Token("(", <<>>).type = "("
    BY <1>3, <1>7, <1>8, <2>1, SpellsCall
  <2>3. /\ CallText(name, u) \in Texts
        /\ CallText(name, u) \o k = name \o (<<"(">> \o ((u \o <<")">>) \o k))
    BY <1>3, <1>8, CallTextIs
  <2> QED
    BY <1>3, <1>9, <2>2, <2>3
<1>11. PICK dot, p : dot = Token(".", <<>>) /\ p = <<".">>
  OBVIOUS
<1>12. Spells(p \o (w \o k), <<dot>> \o z, Chars) /\ dot \in Tokens /\ dot.type = "." /\ p \in Texts
  <2>1. "." \in Marks /\ "." \in Chars
    BY DEF Marks, Chars
  <2>2. p \in Texts
    BY <1>11, <2>1, TextsOn
  <2> QED
    BY <1>10, <1>11, <2>1, <2>2, SpellsStart
<1>13. LinkText(f, x) = p \o w /\ p \o w \in Texts /\ (p \o w) \o k = p \o (w \o k)
  <2>1. WriteCall(f, name, a.items) = w
    BY <1>5, <1>9, WriteCallIs
  <2>2. LinkText(f, x) = p \o w
    BY <1>4, <1>11, <2>1 DEF LinkText
  <2> QED
    BY <1>8, <1>10, <1>12, <2>2, TextsOn
<1>14. /\ LinksOf(f, <<x>> \o xs) = <<p \o w>> \o LinksOf(f, xs)
       /\ LinksOf(f, <<x>> \o xs) \in Seq(Texts) /\ <<x>> \o xs \in Seq(Links(P))
  <2>1. LinkText(f, x) \in Texts /\ LinksOf(f, xs) \in Seq(Texts) /\ xs \in Seq(Links(P))
    BY <1>1, <1>13 DEF ChainFine
  <2>2. /\ LinksOf(f, <<x>> \o xs) = <<LinkText(f, x)>> \o LinksOf(f, xs)
        /\ LinksOf(f, <<x>> \o xs) \in Seq(Texts) /\ <<x>> \o xs \in Seq(Links(P))
    BY <1>4, <2>1, LinksMore
  <2> QED
    BY <1>13, <2>2
<1>15. FlattenSeq(LinksOf(f, <<x>> \o xs)) = p \o (w \o k)
  <2>1. LinksOf(f, xs) \in Seq(Texts)
    BY <1>1 DEF ChainFine
  <2> QED
    BY <1>5, <1>13, <1>14, <2>1, FlatHead
<1>16. ChainReads(<<dot>> \o z, <<x>> \o xs, a.parts \cup rest.parts)
  BY <1>1, <1>3, <1>6, <1>7, <1>9, <1>10, <1>12, ChainMore
<1>17. /\ Spells(FlattenSeq(LinksOf(f, r.items)), <<dot>> \o z, Chars)
       /\ ChainReads(<<dot>> \o z, r.items, r.parts)
  BY <1>2, <1>12, <1>15, <1>16
<1>18. ChainFine(r, f, P)
  BY <1>2, <1>14, <1>17 DEF ChainFine
<1> QED
  BY <1>1, <1>18

\* A space or a line's end between two texts, and behind one.
LEMMA SpellsGap ==
  ASSUME NEW v, NEW c, Spells(v, c, Stops), NEW m \in {" ", LineEnd}, NEW w, NEW d, NEW G \in SUBSET Chars,
         Spells(w, d, G)
  PROVE  Spells(v \o (<<m>> \o w), c \o d, G)
<1>1. m \in Chars /\ m \in Stops
  BY DEF Chars, Marks, Stops, Letters, Digits, LineEnd
<1>2. PICK u : u = <<m>> \o w
  OBVIOUS
<1>3. Spells(u, d, G)
  <2>1. Spells(<<m>>, <<>>, Chars)
    BY SpellsSpace
  <2>2. Spells(<<m>> \o w, <<>> \o d, G)
    BY <2>1, SpellsThen
  <2>3. <<>> \o d = d
    BY SeqShort DEF Spells
  <2> QED
    BY <1>2, <2>2, <2>3
<1>4. u # <<>> /\ u[1] = m
  <2>1. w \in Texts
    BY DEF Spells
  <2> QED
    BY <1>1, <1>2, <2>1, FirstOf
<1>5. Spells(v \o u, c \o d, G)
  BY <1>1, <1>3, <1>4, SpellsOn
<1> QED
  BY <1>2, <1>5
LEMMA SpellsLine ==
  ASSUME NEW v, NEW c, Spells(v, c, Stops)
  PROVE  Spells(v \o <<LineEnd>>, c, Chars)
<1>1. Spells(v \o (<<LineEnd>> \o <<>>), c \o <<>>, Chars)
  BY SpellsNothing, SpellsGap
<1>2. c \o <<>> = c /\ <<LineEnd>> \o <<>> = <<LineEnd>>
  <2>1. LineEnd \in Chars
    BY DEF Chars
  <2>2. <<LineEnd>> \in Texts
    BY <2>1, TextsOn
  <2> QED
    BY <2>2, SeqShort, TextsOn DEF Spells
<1> QED
  BY <1>1, <1>2

\* A sequence of three, and texts with a mark between two others.
LEMMA ThreeAre ==
  ASSUME NEW T, NEW a \in T, NEW b \in T, NEW c \in T
  PROVE  <<a, b, c>> = <<a, b>> \o <<c>>
<1>1. PICK x, y, o, z : x = <<a, b, c>> /\ y = <<a, b>> /\ o = <<c>> /\ z = y \o o
  OBVIOUS
<1>2. x \in Seq(T) /\ Len(x) = 3 /\ x[1] = a /\ x[2] = b /\ x[3] = c
  BY <1>1
<1>3. y \in Seq(T) /\ Len(y) = 2 /\ y[1] = a /\ y[2] = b
  BY <1>1
<1>4. o \in Seq(T) /\ Len(o) = 1 /\ o[1] = c
  BY <1>1
<1>5. z \in Seq(T) /\ Len(z) = 3 /\ z[1] = a /\ z[2] = b /\ z[3] = c
  <2>1. /\ z \in Seq(T) /\ Len(z) = Len(y) + Len(o)
        /\ \A i \in 1 .. Len(y) : z[i] = y[i]
        /\ \A i \in 1 .. Len(o) : z[i + Len(y)] = o[i]
    BY <1>1, <1>3, <1>4, SeqOn
  <2>2. 1 \in 1 .. 2 /\ 2 \in 1 .. 2 /\ 1 \in 1 .. 1 /\ 1 + 2 = 3 /\ 2 + 1 = 3
    OBVIOUS
  <2> QED
    BY <1>3, <1>4, <2>1, <2>2
<1>6. ASSUME NEW i \in 1 .. 3 PROVE x[i] = z[i]
  <2>1. i = 1 \/ i = 2 \/ i = 3
    OBVIOUS
  <2> QED
    BY <1>2, <1>5, <2>1
<1>7. x = z
  BY <1>2, <1>5, <1>6, SeqEqual
<1> QED
  BY <1>1, <1>7
LEMMA MarkedOn ==
  ASSUME NEW sp \in Chars, NEW m \in Chars, NEW w \in Texts
  PROVE  /\ <<sp, m, sp>> \o w = <<sp>> \o (<<m>> \o (<<sp>> \o w))
         /\ <<m, sp>> \o w = <<m>> \o (<<sp>> \o w)
         /\ <<sp, m>> \o w = <<sp>> \o (<<m>> \o w)
         /\ <<sp, m, sp>> \in Texts /\ <<m, sp>> \in Texts /\ <<sp, m>> \in Texts
         /\ <<sp>> \in Texts /\ <<m>> \in Texts /\ <<sp>> \o w \in Texts
<1>3. PICK a, b, ab, ba, aba : a = <<sp>> /\ b = <<m>> /\ ab = <<sp, m>> /\ ba = <<m, sp>> /\ aba = <<sp, m, sp>>
  OBVIOUS
<1>4. a \in Texts /\ b \in Texts /\ ab = a \o b /\ ba = b \o a
  <2>1. ab = a \o b
    BY <1>3, TwoAre
  <2>2. ba = b \o a
    BY <1>3, TwoAre
  <2> QED
    BY <1>3, <2>1, <2>2, TextsOn
<1>5. ab \in Texts /\ ba \in Texts /\ a \o w \in Texts
  BY <1>4, TextsOn
<1>6. aba = ab \o a
  BY <1>3, ThreeAre
<1>7. aba \in Texts
  BY <1>4, <1>5, <1>6, TextsOn
<1>8. PICK aw : aw = a \o w
  OBVIOUS
<1>9. Joins(ab, a, w) /\ Joins(a, b, aw) /\ Joins(b, a, w) /\ Joins(a, b, w)
  BY <1>4, <1>5, <1>8, ThreeOn
<1>10. aba \o w = a \o (b \o aw) /\ ba \o w = b \o aw /\ ab \o w = a \o (b \o w)
  BY <1>4, <1>6, <1>8, <1>9 DEF Joins
<1> QED
  BY <1>3, <1>4, <1>5, <1>7, <1>8, <1>10
LEMMA SpacedOn ==
  ASSUME NEW m \in Chars, NEW w \in Texts
  PROVE  /\ <<" ", m, " ">> \o w = <<" ">> \o (<<m>> \o (<<" ">> \o w))
         /\ <<m, " ">> \o w = <<m>> \o (<<" ">> \o w)
         /\ <<" ", m>> \o w = <<" ">> \o (<<m>> \o w)
         /\ <<" ", m, " ">> \in Texts /\ <<m, " ">> \in Texts /\ <<" ", m>> \in Texts
         /\ <<" ">> \in Texts /\ <<m>> \in Texts /\ <<" ">> \o w \in Texts
<1>1. " " \in Chars
  BY DEF Chars
<1> QED
  BY <1>1, MarkedOn

\* Four and five texts on one another.
FourJoined(a, b, c, d) == ((a \o b) \o c) \o d = a \o (b \o (c \o d))
FiveJoined(a, b, c, d, e) == (((a \o b) \o c) \o d) \o e = a \o (b \o (c \o (d \o e)))
LEMMA FiveAre ==
  \A a, b, c, d, e \in Texts : FourJoined(a, b, c, d) /\ FiveJoined(a, b, c, d, e)
<1> TAKE a, b, c, d, e \in Texts
<1>1. PICK p, q, r, s, t : p = a \o b /\ q = p \o c /\ r = d \o e /\ s = c \o r /\ t = c \o d
  OBVIOUS
<1>2. p \in Texts /\ q \in Texts /\ r \in Texts /\ s \in Texts /\ t \in Texts
  BY <1>1, TextsOn
<1>3. Joins(q, d, e) /\ Joins(p, c, r) /\ Joins(a, b, s) /\ Joins(p, c, d) /\ Joins(a, b, t)
  BY <1>2, ThreeOn
<1> QED
  BY <1>1, <1>3 DEF Joins, FourJoined, FiveJoined

LEMMA LineEndText == LineEnd \in Chars /\ <<LineEnd>> \in Texts
<1>1. LineEnd \in Chars
  BY DEF Chars
<1> QED
  BY <1>1, TextsOn

\* The texts of an import, of an assignment and of a block.
LEMMA UseTextIs ==
  ASSUME NEW t \in Texts, NEW name \in Texts
  PROVE  UseText(t, name) =
           <<"u">> \o (<<" ">> \o (t \o (<<" ">> \o (<<"s">> \o (<<" ">> \o (name \o <<LineEnd>>))))))
<1>1. "u" \in Chars /\ "s" \in Chars
  BY DEF Chars, Letters
<1>2. PICK a, b, l : a = <<"u", " ">> /\ b = <<" ", "s", " ">> /\ l = <<LineEnd>>
  OBVIOUS
<1>3. <<>> \in Texts
  BY TextsOn
<1>4. a \in Texts /\ b \in Texts /\ l \in Texts
  BY <1>1, <1>2, <1>3, SpacedOn, LineEndText
<1>5. UseText(t, name) = (((a \o t) \o b) \o name) \o l
  BY <1>2 DEF UseText
<1>6. PICK w, y : w = name \o l /\ y = t \o (b \o w)
  OBVIOUS
<1>7. w \in Texts /\ y \in Texts
  BY <1>4, <1>6, TextsOn
<1>8. UseText(t, name) = a \o y
  <2>1. FiveJoined(a, t, b, name, l)
    BY <1>4, FiveAre
  <2> QED
    BY <1>5, <1>6, <2>1 DEF FiveJoined
<1>9. a \o y = <<"u">> \o (<<" ">> \o y)
  BY <1>1, <1>2, <1>7, SpacedOn
<1>10. b \o w = <<" ">> \o (<<"s">> \o (<<" ">> \o w))
  BY <1>1, <1>2, <1>7, SpacedOn
<1> QED
  BY <1>2, <1>6, <1>8, <1>9, <1>10

LEMMA AssignTextIs ==
  ASSUME NEW t \in Texts, NEW name \in Texts
  PROVE  AssignText(name, t) = name \o (<<" ">> \o (<<"=">> \o (<<" ">> \o (t \o <<LineEnd>>))))
<1>1. "=" \in Chars
  BY DEF Chars, Marks
<1>2. PICK b, l : b = <<" ", "=", " ">> /\ l = <<LineEnd>>
  OBVIOUS
<1>3. <<>> \in Texts
  BY TextsOn
<1>4. b \in Texts /\ l \in Texts
  BY <1>1, <1>2, <1>3, SpacedOn, LineEndText
<1>5. AssignText(name, t) = ((name \o b) \o t) \o l
  BY <1>2 DEF AssignText
<1>6. PICK w : w = t \o l
  OBVIOUS
<1>7. w \in Texts
  BY <1>4, <1>6, TextsOn
<1>8. AssignText(name, t) = name \o (b \o w)
  <2>1. FourJoined(name, b, t, l)
    BY <1>4, FiveAre
  <2> QED
    BY <1>5, <1>6, <2>1 DEF FourJoined
<1>9. b \o w = <<" ">> \o (<<"=">> \o (<<" ">> \o w))
  BY <1>1, <1>2, <1>7, SpacedOn
<1> QED
  BY <1>2, <1>6, <1>8, <1>9

Opened(items, t) ==
  <<"{">> \o ((IF items = <<>> THEN <<>> ELSE <<LineEnd>>) \o (t \o (<<"}">> \o <<LineEnd>>)))
BlockSaid(name, s, items, t) ==
  /\ BlockText(name, <<>>, items, t) = name \o (<<" ">> \o Opened(items, t))
  /\ BlockText(name, <<s>>, items, t) =
       name \o (<<" ">> \o (QuoteString(s) \o (<<" ">> \o Opened(items, t))))
LEMMA BlockTextIs ==
  ASSUME NEW t \in Texts, NEW name \in Texts, NEW s \in Texts, NEW items
  PROVE  BlockSaid(name, s, items, t)
<1>1. "{" \in Chars /\ "}" \in Chars
  BY DEF Chars, Marks
<1>2. PICK b, z, nl, q, sp : /\ b = <<" ", "{">> /\ z = <<"}", LineEnd>> /\ q = QuoteString(s)
                             /\ nl = (IF items = <<>> THEN <<>> ELSE <<LineEnd>>) /\ sp = <<" ">>
  OBVIOUS
<1>3. <<>> \in Texts
  BY TextsOn
<1>4. z = <<"}">> \o <<LineEnd>>
  BY <1>1, <1>2, LineEndText, TwoAre
<1>5. b \in Texts /\ z \in Texts /\ nl \in Texts /\ sp \in Texts /\ q \in Texts
  <2>1. b \in Texts /\ sp \in Texts /\ <<"}">> \in Texts
    BY <1>1, <1>2, <1>3, SpacedOn
  <2>2. z \in Texts
    BY <1>4, <2>1, LineEndText, TextsOn
  <2>3. nl \in Texts
    BY <1>2, <1>3, LineEndText
  <2>4. q \in Texts
    BY <1>2, SpellsString DEF Spells
  <2> QED
    BY <2>1, <2>2, <2>3, <2>4
<1>6. PICK w, o : w = nl \o (t \o z) /\ o = Opened(items, t)
  OBVIOUS
<1>7. w \in Texts
  <2>1. t \o z \in Texts
    BY <1>5, TextsOn
  <2> QED
    BY <1>5, <1>6, <2>1, TextsOn
<1>8. b \o w = sp \o o /\ sp \o o \in Texts
  <2>1. b \o w = sp \o (<<"{">> \o w)
    BY <1>1, <1>2, <1>7, SpacedOn
  <2>2. o = <<"{">> \o w
    BY <1>2, <1>4, <1>6 DEF Opened
  <2>3. b \o w \in Texts
    BY <1>5, <1>7, TextsOn
  <2> QED
    BY <2>1, <2>2, <2>3
<1>9. ASSUME NEW n \in Texts PROVE (((n \o b) \o nl) \o t) \o z = n \o (sp \o o)
  <2>1. FiveJoined(n, b, nl, t, z)
    BY <1>5, FiveAre
  <2> QED
    BY <1>6, <1>8, <2>1 DEF FiveJoined
<1>10. BlockText(name, <<>>, items, t) = name \o (sp \o o)
  <2>1. BlockText(name, <<>>, items, t) = ((((name \o <<>>) \o b) \o nl) \o t) \o z
    BY <1>2 DEF BlockText
  <2>2. name \o <<>> = name
    BY TextsOn
  <2> QED
    BY <1>9, <2>1, <2>2
<1>11. BlockText(name, <<s>>, items, t) = name \o (sp \o (q \o (sp \o o)))
  <2>1. PICK v, n : v = sp \o q /\ n = name \o v
    OBVIOUS
  <2>2. v \in Texts /\ n \in Texts
    BY <1>5, <2>1, TextsOn
  <2>3. <<s>> # <<>> /\ <<s>>[1] = s
    OBVIOUS
  <2>4. BlockText(name, <<s>>, items, t) = (((n \o b) \o nl) \o t) \o z
    BY <1>2, <2>1, <2>3 DEF BlockText
  <2>5. PICK y : y = sp \o o
    OBVIOUS
  <2>6. BlockText(name, <<s>>, items, t) = n \o y
    BY <1>9, <2>2, <2>4, <2>5
  <2>7. Joins(name, v, y) /\ Joins(sp, q, y)
    BY <1>5, <1>8, <2>2, <2>5, ThreeOn
  <2> QED
    BY <2>1, <2>5, <2>6, <2>7 DEF Joins
<1> QED
  BY <1>2, <1>6, <1>10, <1>11 DEF BlockSaid

\* What is so behind a token is so behind a later one.
LEMMA FineOn ==
  ASSUME NEW ts, Len(ts) \in Nat, NEW read, NEW i \in 1 .. Len(ts), Fit(ts, i),
         NEW f, NEW P, FineBehind(read, ts, i, f, P), NEW j \in i + 1 .. Len(ts)
  PROVE  j \in 1 .. Len(ts) /\ Fit(ts, j) /\ FineBehind(read, ts, j, f, P)
<1>1. PICK n : n = Len(ts) /\ n \in Nat
  OBVIOUS
<1>2. j \in 1 .. n /\ j .. n \subseteq i .. n /\ j + 1 .. n \subseteq i + 1 .. n
  BY <1>1
<1> QED
  BY <1>1, <1>2 DEF Fit, FineBehind

\* A value behind, and a word.
LEMMA ValuedFine ==
  ASSUME NEW ts, WellMade(ts), NEW read, Reading(read, ts), NEW i \in 1 .. Len(ts), Fit(ts, i),
         NEW f, NEW P, Solved(f, P), FineBehind(read, ts, i, f, P),
         NEW j, NEW v, Valued(read, ts, i, j, v), v.parts \subseteq P
  PROVE  ValueFine(v, ts[j].type, f)
<1>1. j \in i + 1 .. Len(ts) /\ v = Value(read, ts, j) /\ v # Failed
  BY DEF Valued
<1>2. Len(ts) \in Nat
  BY DEF WellMade
<1>3. j \in 1 .. Len(ts) /\ Fit(ts, j) /\ FineBehind(read, ts, j, f, P)
  BY <1>1, <1>2, FineOn
<1> QED
  BY <1>1, <1>3, ValuesFine

LEMMA SpellsWord ==
  ASSUME NEW t, Made(t), t.type = "ident"
  PROVE  Spells(t.text, <<t>>, Stops) /\ t \in Tokens /\ t.text \in Texts
<1>1. MadeIdent(t.text) /\ t = Token("ident", t.text) /\ t.text \in Texts
  BY DEF Made
<1> QED
  BY <1>1, SpellsIdent, MadeIs

LEMMA AsIs ==
  LET s == Token("ident", <<"s">>)
  IN Made(s) /\ s.type = "ident" /\ s.text = <<"s">> /\ s \in Tokens
<1>1. "s" \in Letters /\ "s" \in Chars
  BY DEF Letters, Chars
<1>2. PICK w : w = <<"s">>
  OBVIOUS
<1>3. w \in Texts /\ Len(w) = 1 /\ w[1] = "s"
  BY <1>1, <1>2, TextsOn
<1>4. \A k \in 1 .. Len(w) : w[k] \in Letters
  <2>1. ASSUME NEW k \in 1 .. Len(w) PROVE w[k] \in Letters
    <3>1. k = 1
      BY <1>3
    <3> QED
      BY <1>1, <1>3, <3>1
  <2> QED
    BY <2>1
<1>5. Len(w) > 0
  BY <1>3
<1>6. MadeIdent(w)
  BY <1>1, <1>3, <1>4, <1>5 DEF MadeIdent
<1>7. Made(Token("ident", w))
  BY <1>6, TokenMade
<1> QED
  BY <1>2, <1>7, MadeIs DEF Token

\* The text of an import.
LEMMA SpellsUse ==
  ASSUME NEW t, Made(t), t.type = "ident", t.text = <<"u">>, NEW n, Made(n), n.type = "ident",
         NEW u, NEW c, Spells(u, c, Stops)
  PROVE  Spells(UseText(u, n.text),
                <<t>> \o (c \o (<<Token("ident", <<"s">>)>> \o <<n>>)), Chars)
<1>1. PICK s, name, w1 : s = Token("ident", <<"s">>) /\ name = n.text /\ w1 = name \o <<LineEnd>>
  OBVIOUS
<1>2. Spells(name, <<n>>, Stops) /\ name \in Texts /\ Spells(<<"u">>, <<t>>, Stops)
  <2>1. Spells(n.text, <<n>>, Stops) /\ n.text \in Texts
    BY SpellsWord
  <2>2. Spells(t.text, <<t>>, Stops)
    BY SpellsWord
  <2> QED
    BY <1>1, <2>1, <2>2
<1>3. Spells(<<"s">>, <<s>>, Stops)
  <2>1. Made(s) /\ s.type = "ident" /\ s.text = <<"s">>
    BY <1>1, AsIs
  <2>2. Spells(s.text, <<s>>, Stops)
    BY <2>1, SpellsWord
  <2> QED
    BY <2>1, <2>2
<1>4. u \in Texts
  BY DEF Spells
<1>5. Spells(w1, <<n>>, Chars)
  BY <1>1, <1>2, SpellsLine
<1>6. PICK w2 : w2 = <<"s">> \o (<<" ">> \o w1)
  OBVIOUS
<1>7. Spells(w2, <<s>> \o <<n>>, Chars)
  BY <1>3, <1>5, <1>6, SpellsGap
<1>8. PICK w3 : w3 = u \o (<<" ">> \o w2)
  OBVIOUS
<1>9. Spells(w3, c \o (<<s>> \o <<n>>), Chars)
  BY <1>7, <1>8, SpellsGap
<1>10. Spells(<<"u">> \o (<<" ">> \o w3), <<t>> \o (c \o (<<s>> \o <<n>>)), Chars)
  BY <1>2, <1>9, SpellsGap
<1>11. UseText(u, name) = <<"u">> \o (<<" ">> \o w3)
  BY <1>1, <1>2, <1>4, <1>6, <1>8, UseTextIs
<1> QED
  BY <1>1, <1>10, <1>11

LEMMA UseFine ==
  ASSUME NEW ts, WellMade(ts), NEW read, Reading(read, ts), NEW i \in 1 .. Len(ts), Fit(ts, i),
         NEW f, NEW P, Solved(f, P), FineBehind(read, ts, i, f, P),
         NEW e, UseShaped(read, ts, i, e), e.parts \subseteq P, ts[i].type = "ident"
  PROVE  EntryFine(e, f)
<1>1. PICK t : t = ts[i] /\ Made(t) /\ t.type = "ident" /\ t.text = <<"u">>
  BY DEF UseShaped, WellMade
<1>2. PICK v : /\ Valued(read, ts, i, i + 1, v) /\ v.at + 1 \in 1 .. Len(ts)
               /\ ts[v.at + 1].type = "ident"
               /\ e = Thing(v.at + 2, ImportOf(v.value, ts[v.at + 1].text), v.parts)
  BY DEF UseShaped
<1>3. PICK n, x : n = ts[v.at + 1] /\ x = ImportOf(v.value, n.text)
  OBVIOUS
<1>4. Made(n) /\ n.type = "ident"
  BY <1>2, <1>3 DEF WellMade
<1>5. e.value = x /\ e.parts = {x} \cup v.parts
  BY <1>2, <1>3 DEF Thing
<1>6. v.parts \subseteq P /\ f[x] = Write(f, x)
  BY <1>5 DEF Solved
<1>7. ValueFine(v, "ident", f)
  <2>1. ts[i + 1].type = "ident"
    BY DEF UseShaped
  <2>2. ValueFine(v, ts[i + 1].type, f)
    BY <1>2, <1>6, ValuedFine
  <2> QED
    BY <2>1, <2>2
<1>8. PICK u, y : u = f[v.value] /\ y = v.value
  OBVIOUS
<1>9. PICK c : Spells(u, c, Stops) /\ ValueReads(c, y, v.parts) /\ c[1].type = "ident"
  BY <1>7, <1>8 DEF ValueFine
<1>10. PICK s, d : s = Token("ident", <<"s">>) /\ d = c \o (<<s>> \o <<n>>)
  OBVIOUS
<1>11. s \in Tokens /\ t \in Tokens /\ n \in Tokens
  BY <1>1, <1>4, <1>10, AsIs, MadeIs
<1>12. Spells(f[x], <<t>> \o d, Chars)
  <2>1. f[x] = UseText(u, n.text)
    BY <1>3, <1>6, <1>8, WriteUse
  <2>2. Spells(UseText(u, n.text),
               <<t>> \o (c \o (<<Token("ident", <<"s">>)>> \o <<n>>)), Chars)
    BY <1>1, <1>4, <1>9, SpellsUse
  <2> QED
    BY <1>10, <2>1, <2>2
<1>13. EntryReads(<<t>> \o d, x, {x} \cup v.parts)
  <2>1. EntryReads(<<t>> \o (c \o (<<s>> \o <<n>>)), ImportOf(y, n.text),
                   {ImportOf(y, n.text)} \cup v.parts)
    BY <1>1, <1>4, <1>9, <1>10, <1>11, UseReads
  <2> QED
    BY <1>3, <1>8, <1>10, <2>1
<1>14. (<<t>> \o d)[1] = t
  <2>1. c \in Seq(Tokens)
    BY <1>9 DEF Spells
  <2>2. d \in Seq(Tokens)
    BY <1>10, <1>11, <2>1, SeqOn, HeadOn
  <2> QED
    BY <1>11, <2>2, HeadOn
<1>15. Spells(f[e.value], <<t>> \o d, Chars) /\ EntryReads(<<t>> \o d, e.value, e.parts)
  BY <1>5, <1>12, <1>13
<1> QED
  BY <1>1, <1>14, <1>15 DEF EntryFine

\* An assignment.
LEMMA AssignFine ==
  ASSUME NEW ts, WellMade(ts), NEW read, Reading(read, ts), NEW i \in 1 .. Len(ts), Fit(ts, i),
         NEW f, NEW P, Solved(f, P), FineBehind(read, ts, i, f, P),
         NEW e, AssignShaped(read, ts, i, e), e.parts \subseteq P, ts[i].type = "ident"
  PROVE  EntryFine(e, f)
<1>1. PICK t, name : t = ts[i] /\ Made(t) /\ t.type = "ident" /\ name = t.text
  BY DEF WellMade
<1>2. PICK v : Valued(read, ts, i, i + 2, v) /\ e = Thing(v.at, AssignOf(name, v.value), v.parts)
  BY <1>1 DEF AssignShaped
<1>3. PICK y, x : y = v.value /\ x = AssignOf(name, y)
  OBVIOUS
<1>4. e.value = x /\ e.parts = {x} \cup v.parts
  BY <1>2, <1>3 DEF Thing
<1>5. v.parts \subseteq P /\ f[x] = Write(f, x)
  BY <1>4 DEF Solved
<1>6. ValueFine(v, ts[i + 2].type, f)
  BY <1>2, <1>5, ValuedFine
<1>7. PICK u : u = f[y]
  OBVIOUS
<1>8. PICK c : Spells(u, c, Stops) /\ ValueReads(c, y, v.parts)
  BY <1>3, <1>6, <1>7 DEF ValueFine
<1>9. PICK b, d : b = Token("=", <<>>) /\ d = <<b>> \o c
  OBVIOUS
<1>10. Spells(name, <<t>>, Stops) /\ t \in Tokens /\ name \in Texts /\ u \in Texts
  <2>1. Spells(t.text, <<t>>, Stops) /\ t \in Tokens /\ t.text \in Texts
    BY <1>1, SpellsWord
  <2> QED
    BY <1>1, <1>8, <2>1 DEF Spells
<1>11. PICK w1 : w1 = u \o <<LineEnd>>
  OBVIOUS
<1>12. Spells(w1, c, Chars)
  BY <1>8, <1>11, SpellsLine
<1>13. "=" \in Marks /\ Chars \in SUBSET Chars
  BY DEF Marks
<1>14. Spells(<<"=">>, <<b>>, Chars) /\ b \in Tokens /\ b.type = "="
  <2>1. Spells(<<"=">>, <<b>>, Chars)
    BY <1>9, <1>13, SpellsMark
  <2>2. Made(b)
    BY <1>9, <1>13, TokenMade
  <2> QED
    BY <1>9, <2>1, <2>2, MadeIs, TokenHas
<1>15. PICK w2 : w2 = <<"=">> \o (<<" ">> \o w1)
  OBVIOUS
<1>16. Spells(w2, d, Chars)
  <2>1. Stops \in SUBSET Chars
    BY StopsAre
  <2>2. Spells(<<"=">>, <<b>>, Stops)
    BY <1>14, <2>1, SpellsLess
  <2> QED
    BY <1>9, <1>12, <1>15, <2>2, SpellsGap
<1>17. Spells(name \o (<<" ">> \o w2), <<t>> \o d, Chars)
  BY <1>10, <1>16, SpellsGap
<1>18. f[x] = name \o (<<" ">> \o w2)
  <2>1. f[x] = AssignText(name, u)
    BY <1>3, <1>5, <1>7, WriteAssign
  <2>2. AssignText(name, u) = name \o (<<" ">> \o (<<"=">> \o (<<" ">> \o (u \o <<LineEnd>>))))
    BY <1>10, AssignTextIs
  <2> QED
    BY <1>11, <1>15, <2>1, <2>2
<1>19. EntryReads(<<t>> \o d, x, {x} \cup v.parts)
  <2>1. EntryReads(<<t>> \o (<<b>> \o c), AssignOf(t.text, y), {AssignOf(t.text, y)} \cup v.parts)
    BY <1>1, <1>8, <1>10, <1>14, AssignReads
  <2> QED
    BY <1>1, <1>3, <1>9, <2>1
<1>20. (<<t>> \o d)[1] = t
  <2>1. c \in Seq(Tokens)
    BY <1>8 DEF Spells
  <2>2. d \in Seq(Tokens)
    BY <1>9, <1>14, <2>1, HeadOn
  <2> QED
    BY <1>10, <2>2, HeadOn
<1>21. Spells(f[e.value], <<t>> \o d, Chars) /\ EntryReads(<<t>> \o d, e.value, e.parts)
  BY <1>4, <1>17, <1>18, <1>19
<1> QED
  BY <1>1, <1>20, <1>21 DEF EntryFine

\* A block.
LEMMA SpellsOpened ==
  ASSUME NEW items, NEW u, NEW c, Spells(u, c, Chars)
  PROVE  Spells(Opened(items, u), <<Token("{", <<>>)>> \o (c \o <<Token("}", <<>>)>>), Chars)
<1>1. PICK d : d = <<Token("}", <<>>)>>
  OBVIOUS
<1>2. "{" \in Marks /\ "}" \in Marks
  BY DEF Marks
<1>3. Spells(<<"}">>, d, Chars) /\ d \in Seq(Tokens)
  <2>1. Spells(<<"}">>, d, Chars)
    BY <1>1, <1>2, SpellsMark
  <2> QED
    BY <2>1 DEF Spells
<1>4. Spells(<<LineEnd>>, <<>>, Chars)
  BY SpellsSpace
<1>5. PICK z : z = <<"}">> \o <<LineEnd>>
  OBVIOUS
<1>6. Spells(z, d, Chars)
  <2>1. Spells(z, d \o <<>>, Chars)
    BY <1>3, <1>4, <1>5, SpellsThen
  <2>2. d \o <<>> = d
    BY <1>3, ConcatEmptySeq
  <2> QED
    BY <2>1, <2>2
<1>7. PICK w, k : w = u \o z /\ k = c \o d
  OBVIOUS
<1>8. Spells(w, k, Chars)
  BY <1>6, <1>7, SpellsThen
<1>9. PICK nl : nl = (IF items = <<>> THEN <<>> ELSE <<LineEnd>>)
  OBVIOUS
<1>10. Spells(nl, <<>>, Chars)
  BY <1>4, <1>9, SpellsNothing
<1>11. Spells(nl \o w, k, Chars)
  <2>1. Spells(nl \o w, <<>> \o k, Chars)
    BY <1>8, <1>10, SpellsThen
  <2>2. k \in Seq(Tokens)
    BY <1>8 DEF Spells
  <2>3. <<>> \o k = k
    BY <2>2, ConcatEmptySeq
  <2> QED
    BY <2>1, <2>3
<1>12. Spells(<<"{">> \o (nl \o w), <<Token("{", <<>>)>> \o k, Chars)
  <2>1. Spells(<<"{">>, <<Token("{", <<>>)>>, Chars)
    BY <1>2, SpellsMark
  <2> QED
    BY <1>11, <2>1, SpellsThen
<1>13. Opened(items, u) = <<"{">> \o (nl \o w)
  BY <1>5, <1>7, <1>9 DEF Opened
<1> QED
  BY <1>1, <1>7, <1>12, <1>13

LEMMA SpellsBlock ==
  ASSUME NEW t, Made(t), t.type = "ident", NEW items, NEW u, NEW c, Spells(u, c, Chars),
         NEW s \in Texts
  PROVE  LET k == <<Token("{", <<>>)>> \o (c \o <<Token("}", <<>>)>>)
         IN /\ Spells(BlockText(t.text, <<>>, items, u), <<t>> \o k, Chars)
            /\ Spells(BlockText(t.text, <<s>>, items, u), <<t>> \o (<<Token("string", s)>> \o k), Chars)
            /\ k \in Seq(Tokens)
<1>1. PICK k, o, name, l : /\ k = <<Token("{", <<>>)>> \o (c \o <<Token("}", <<>>)>>)
                           /\ o = Opened(items, u) /\ name = t.text /\ l = <<Token("string", s)>>
  OBVIOUS
<1>2. Spells(o, k, Chars) /\ k \in Seq(Tokens)
  <2>1. Spells(o, k, Chars)
    BY <1>1, SpellsOpened
  <2> QED
    BY <2>1 DEF Spells
<1>3. Spells(name, <<t>>, Stops) /\ name \in Texts /\ u \in Texts
  <2>1. Spells(t.text, <<t>>, Stops) /\ t.text \in Texts
    BY SpellsWord
  <2> QED
    BY <1>1, <2>1 DEF Spells
<1>4. Spells(name \o (<<" ">> \o o), <<t>> \o k, Chars)
  BY <1>2, <1>3, SpellsGap
<1>5. PICK q : q = QuoteString(s)
  OBVIOUS
<1>6. Spells(q, l, Stops)
  <2>1. Spells(QuoteString(s), <<Token("string", s)>>, Chars)
    BY SpellsString
  <2>2. Stops \in SUBSET Chars
    BY StopsAre
  <2> QED
    BY <1>1, <1>5, <2>1, <2>2, SpellsLess
<1>7. PICK w : w = q \o (<<" ">> \o o)
  OBVIOUS
<1>8. Spells(w, l \o k, Chars)
  BY <1>2, <1>6, <1>7, SpellsGap
<1>9. Spells(name \o (<<" ">> \o w), <<t>> \o (l \o k), Chars)
  BY <1>3, <1>8, SpellsGap
<1>10. /\ BlockText(name, <<>>, items, u) = name \o (<<" ">> \o o)
       /\ BlockText(name, <<s>>, items, u) = name \o (<<" ">> \o w)
  <2>1. BlockSaid(name, s, items, u)
    BY <1>3, BlockTextIs
  <2> QED
    BY <1>1, <1>5, <1>7, <2>1 DEF BlockSaid
<1> QED
  BY <1>1, <1>2, <1>4, <1>9, <1>10

\* The marks of a block.
LEMMA Braces ==
  /\ Token("{", <<>>) \in Tokens /\ Token("{", <<>>).type = "{"
  /\ Token("}", <<>>) \in Tokens /\ Token("}", <<>>).type = "}"
<1>1. "{" \in Marks /\ "}" \in Marks
  BY DEF Marks
<1>2. Made(Token("{", <<>>)) /\ Made(Token("}", <<>>))
  BY <1>1, TokenMade
<1> QED
  BY <1>2, MadeIs, TokenHas

LEMMA BlockFine ==
  ASSUME NEW ts, WellMade(ts), NEW read, NEW i \in 1 .. Len(ts),
         NEW f, NEW P, Solved(f, P), FineBehind(read, ts, i, f, P),
         NEW e, BlockShaped(read, ts, i, e), e.parts \subseteq P, ts[i].type = "ident"
  PROVE  EntryFine(e, f)
<1>1. PICK t, name : t = ts[i] /\ Made(t) /\ t.type = "ident" /\ name = t.text
  BY DEF WellMade
<1>2. PICK j, es : /\ Has(read, ts, i, j, "}", es)
                   /\ e = Thing(es.at, BlockOf(name, Labels(ts, i), es.items), es.parts)
  BY <1>1 DEF BlockShaped
<1>3. PICK label, xs, x : label = Labels(ts, i) /\ xs = es.items /\ x = BlockOf(name, label, xs)
  OBVIOUS
<1>4. e.value = x /\ e.parts = {x} \cup es.parts
  BY <1>2, <1>3 DEF Thing
<1>5. es.parts \subseteq P /\ f[x] = Write(f, x)
  BY <1>4 DEF Solved
<1>6. EntriesFine(es, "}", f, P)
  <2>1. "}" \in Ending
    BY DEF Ending
  <2> QED
    BY <1>2, <1>5, <2>1, HasFine
<1>7. PICK u : u = FlattenSeq(TextsOf(f, xs))
  OBVIOUS
<1>8. PICK c : Spells(u, c, Chars) /\ EntriesRead(c, "}", xs, es.parts)
  BY <1>3, <1>6, <1>7 DEF EntriesFine
<1>9. f[x] = BlockText(name, label, xs, u)
  BY <1>3, <1>5, <1>7, WriteBlock
<1>10. PICK b, g, k : b = Token("{", <<>>) /\ g = Token("}", <<>>) /\ k = <<b>> \o (c \o <<g>>)
  OBVIOUS
<1>11. t \in Tokens /\ b \in Tokens /\ b.type = "{" /\ g \in Tokens /\ g.type = "}"
  BY <1>1, <1>10, Braces, MadeIs
<1>12. ASSUME NEW d \in Seq(Tokens), Spells(f[x], <<t>> \o d, Chars),
              EntryReads(<<t>> \o d, x, {x} \cup es.parts)
       PROVE  EntryFine(e, f)
  <2>1. (<<t>> \o d)[1] = t
    BY <1>11, HeadOn
  <2>2. Spells(f[e.value], <<t>> \o d, Chars) /\ EntryReads(<<t>> \o d, e.value, e.parts)
    BY <1>4, <1>12
  <2> QED
    BY <1>1, <2>1, <2>2 DEF EntryFine
<1>13. CASE label = <<>>
  <2>1. Spells(BlockText(name, <<>>, xs, u), <<t>> \o k, Chars) /\ k \in Seq(Tokens)
    <3>1. <<>> \in Texts
      BY TextsOn
    <3>2. LET m == <<Token("{", <<>>)>> \o (c \o <<Token("}", <<>>)>>)
          IN /\ Spells(BlockText(t.text, <<>>, xs, u), <<t>> \o m, Chars)
             /\ Spells(BlockText(t.text, <<<<>>>>, xs, u), <<t>> \o (<<Token("string", <<>>)>> \o m), Chars)
             /\ m \in Seq(Tokens)
      BY <1>1, <1>8, <3>1, SpellsBlock
    <3> QED
      BY <1>1, <1>10, <3>2
  <2>2. EntryReads(<<t>> \o k, x, {x} \cup es.parts)
    <3>1. EntryReads(<<t>> \o (<<b>> \o (c \o <<g>>)), BlockOf(t.text, <<>>, xs),
                     {BlockOf(t.text, <<>>, xs)} \cup es.parts)
      BY <1>1, <1>8, <1>11, BlockReads
    <3> QED
      BY <1>1, <1>3, <1>10, <1>13, <3>1
  <2>3. Spells(f[x], <<t>> \o k, Chars)
    BY <1>9, <1>13, <2>1
  <2> QED
    BY <1>12, <2>1, <2>2, <2>3
<1>14. CASE label # <<>>
  <2>1. PICK n : n = ts[i + 1]
    OBVIOUS
  <2>2. n.type = "string" /\ label = <<n.text>>
    BY <1>3, <1>14, <2>1 DEF Labels
  <2>3. Made(n) /\ n \in Tokens /\ n.text \in Texts /\ n = Token("string", n.text)
    <3>1. i + 1 \in 1 .. Len(ts)
      BY DEF BlockShaped
    <3>2. Made(n)
      BY <2>1, <3>1 DEF WellMade
    <3> QED
      BY <2>2, <3>2, MadeIs DEF Made
  <2>4. Spells(BlockText(name, <<n.text>>, xs, u), <<t>> \o (<<n>> \o k), Chars) /\ k \in Seq(Tokens)
    <3>1. PICK s : s = n.text
      OBVIOUS
    <3>2. LET m == <<Token("{", <<>>)>> \o (c \o <<Token("}", <<>>)>>)
          IN /\ Spells(BlockText(t.text, <<>>, xs, u), <<t>> \o m, Chars)
             /\ Spells(BlockText(t.text, <<s>>, xs, u), <<t>> \o (<<Token("string", s)>> \o m), Chars)
             /\ m \in Seq(Tokens)
      BY <1>1, <1>8, <2>3, <3>1, SpellsBlock
    <3> QED
      BY <1>1, <1>10, <2>3, <3>1, <3>2
  <2>5. EntryReads(<<t>> \o (<<n>> \o k), x, {x} \cup es.parts)
    <3>1. EntryReads(<<t>> \o (<<n>> \o (<<b>> \o (c \o <<g>>))), BlockOf(t.text, <<n.text>>, xs),
                     {BlockOf(t.text, <<n.text>>, xs)} \cup es.parts)
      BY <1>1, <1>8, <1>11, <2>2, <2>3, LabelReads
    <3> QED
      BY <1>1, <1>3, <1>10, <2>2, <3>1
  <2>6. Spells(f[x], <<t>> \o (<<n>> \o k), Chars)
    BY <1>9, <2>2, <2>4
  <2>7. <<n>> \o k \in Seq(Tokens)
    BY <2>3, <2>4, HeadOn
  <2> QED
    BY <1>12, <2>5, <2>6, <2>7
<1> QED
  BY <1>13, <1>14

\* So it is with every entry.
LEMMA EntrysFine ==
  ASSUME NEW ts, WellMade(ts), NEW read, Reading(read, ts), NEW i \in 1 .. Len(ts), Fit(ts, i),
         NEW f, NEW P, Solved(f, P), FineBehind(read, ts, i, f, P), NEW e, e = Entry(read, ts, i),
         e # Failed, e.parts \subseteq P
  PROVE  EntryFine(e, f)
<1>1. /\ UseShaped(read, ts, i, e) \/ AssignShaped(read, ts, i, e) \/ BlockShaped(read, ts, i, e)
      /\ ts[i].type = "ident"
  BY EntryShape
<1>2. CASE UseShaped(read, ts, i, e)
  BY <1>1, <1>2, UseFine
<1>3. CASE AssignShaped(read, ts, i, e)
  BY <1>1, <1>3, AssignFine
<1>4. CASE BlockShaped(read, ts, i, e)
  BY <1>1, <1>4, BlockFine
<1> QED
  BY <1>1, <1>2, <1>3, <1>4

\* An entry and those behind it.
LEMMA EntryFineOn ==
  ASSUME NEW f, NEW P, NEW close \in Ending, NEW e, EntryFine(e, f), e.value \in P,
         NEW rest, EntriesFine(rest, close, f, P)
  PROVE  EntriesFine(Before(e.value, e.parts, rest), close, f, P)
<1>1. PICK r, x, xs : r = Before(e.value, e.parts, rest) /\ x = e.value /\ xs = rest.items
  OBVIOUS
<1>2. r.items = <<x>> \o xs /\ r.parts = e.parts \cup rest.parts
  BY <1>1 DEF Before
<1>3. PICK c : Spells(f[x], c, Chars) /\ EntryReads(c, x, e.parts) /\ c[1].type = "ident"
  BY <1>1 DEF EntryFine
<1>4. xs \in Seq(P) /\ TextsOf(f, xs) \in Seq(Texts) /\ x \in P
  BY <1>1 DEF EntriesFine
<1>5. PICK t, s : t = f[x] /\ s = TextsOf(f, xs)
  OBVIOUS
<1>6. t \in Texts /\ s \in Seq(Texts)
  BY <1>3, <1>4, <1>5 DEF Spells
<1>7. PICK d : /\ Spells(FlattenSeq(s), d, Chars) /\ EntriesRead(d, close, xs, rest.parts)
               /\ Len(d) > 0 => d[1].type = "ident"
  BY <1>1, <1>5 DEF EntriesFine
<1>8. TextsOf(f, <<x>> \o xs) = <<t>> \o s /\ TextsOf(f, <<x>> \o xs) \in Seq(Texts) /\ <<x>> \o xs \in Seq(P)
  <2>1. f[x] \in Texts
    BY <1>5, <1>6
  <2>2. /\ TextsOf(f, <<x>> \o xs) = <<f[x]>> \o TextsOf(f, xs)
        /\ TextsOf(f, <<x>> \o xs) \in Seq(Texts) /\ <<x>> \o xs \in Seq(P)
    BY <1>4, <2>1, TextsMore
  <2> QED
    BY <1>5, <2>2
<1>9. Spells(FlattenSeq(<<t>> \o s), c \o d, Chars)
  <2>1. FlattenSeq(<<t>> \o s) = t \o FlattenSeq(s)
    BY <1>6, FlatHead
  <2>2. PICK w : w = FlattenSeq(s)
    OBVIOUS
  <2>3. Spells(t \o w, c \o d, Chars)
    BY <1>3, <1>5, <1>7, <2>2, SpellsThen
  <2> QED
    BY <2>1, <2>2, <2>3
<1>10. EntriesRead(c \o d, close, <<x>> \o xs, e.parts \cup rest.parts)
  BY <1>3, <1>7, EntriesMore
<1>11. (c \o d)[1] = c[1]
  <2>1. c \in Seq(Tokens) /\ d \in Seq(Tokens) /\ Len(c) > 0
    BY <1>3, <1>7 DEF Spells, EntryReads
  <2>2. 1 \in 1 .. Len(c)
    BY <2>1
  <2> QED
    BY <2>1, <2>2, SeqOn
<1>12. /\ Spells(FlattenSeq(TextsOf(f, r.items)), c \o d, Chars)
       /\ EntriesRead(c \o d, close, r.items, r.parts)
  BY <1>2, <1>8, <1>9, <1>10
<1>13. EntriesFine(r, close, f, P)
  BY <1>2, <1>3, <1>8, <1>11, <1>12 DEF EntriesFine
<1> QED
  BY <1>1, <1>13

\* What is read is among its own parts.
LEMMA ThingHolds ==
  ASSUME NEW ts, WellMade(ts), NEW read, Reading(read, ts), NEW i \in 1 .. Len(ts)
  PROVE  /\ \A v : v = Value(read, ts, i) /\ v # Failed => v.value \in v.parts
         /\ \A e : e = Entry(read, ts, i) /\ e # Failed => e.value \in e.parts
<1>1. Behind(read, ts, i)
  BY AllSound
<1>2. ASSUME NEW U, NEW v, SoundThing(v, U), v # Failed PROVE v.value \in v.parts
  BY <1>2 DEF SoundThing, Thing
<1>3. SoundThing(Value(read, ts, i), Things(read, ts, i + 1))
  BY <1>1, ValueSound
<1>4. SoundThing(Entry(read, ts, i), Things(read, ts, i + 1))
  BY <1>1, EntrySound
<1> QED
  BY <1>2, <1>3, <1>4

LEMMA BeforeParts ==
  ASSUME NEW item, NEW parts, NEW rest, NEW P, Before(item, parts, rest).parts \subseteq P
  PROVE  parts \subseteq P /\ rest.parts \subseteq P
<1>1. Before(item, parts, rest).parts = parts \cup rest.parts
  BY DEF Before
<1> QED
  BY <1>1

\* What a token's rules read is fine, if what those behind it read is.
LEMMA RowsFine ==
  ASSUME NEW ts, WellMade(ts), NEW read, Reading(read, ts), NEW i \in 1 .. Len(ts), Fit(ts, i),
         NEW f, NEW P, Solved(f, P), FineBehind(read, ts, i, f, P)
  PROVE  RowFine(read[i], f, P)
<1>1. ASSUME NEW rule \in {")", "]"}, read[i][rule] # Failed, read[i][rule].parts \subseteq P
      PROVE  ItemsFine(read[i][rule], rule, f, P)
  <2>1. PICK r : r = read[i][rule]
    OBVIOUS
  <2>2. ItemShaped(read, ts, i, rule, r)
    BY <1>1, <2>1, ItemShape
  <2>3. CASE r = Nothing(i + 1)
    BY <2>1, <2>3, NothingFine
  <2>4. CASE r # Nothing(i + 1)
    <3>1. PICK k, v, rest : /\ v = Value(read, ts, i) /\ v # Failed /\ Has(read, ts, i, k, rule, rest)
                            /\ r = Before(v.value, v.parts, rest)
      BY <2>2, <2>4 DEF ItemShaped
    <3>2. v.parts \subseteq P /\ rest.parts \subseteq P
      BY <1>1, <2>1, <3>1, BeforeParts
    <3>3. v.value \in P
      BY <3>1, <3>2, ThingHolds
    <3>4. ItemsFine(rest, rule, f, P)
      BY <1>1, <3>1, <3>2, HasFine
    <3>5. ValueFine(v, ts[i].type, f) /\ ts[i].type \in {"string", "number", "[", "ident"}
      BY <3>1, <3>2, ValuesFine
    <3>6. ItemsFine(Before(v.value, v.parts, rest), rule, f, P)
      BY <3>3, <3>4, <3>5, ItemFine
    <3> QED
      BY <2>1, <3>1, <3>6
  <2> QED
    BY <2>3, <2>4
<1>2. ASSUME read[i]["chain"] # Failed, read[i]["chain"].parts \subseteq P
      PROVE  ChainFine(read[i]["chain"], f, P)
  <2>1. PICK r : r = read[i]["chain"]
    OBVIOUS
  <2>2. LinkShaped(read, ts, i, r)
    BY <1>2, <2>1, LinkShape
  <2>3. CASE r = Nothing(i)
    BY <2>1, <2>3, NothingFine
  <2>4. CASE r # Nothing(i)
    <3>1. PICK a, rest : /\ i + 1 \in 1 .. Len(ts) /\ ts[i + 1].type = "ident"
                         /\ Has(read, ts, i, i + 3, ")", a) /\ Has(read, ts, i, a.at, "chain", rest)
                         /\ r = Before(Segment(ts[i + 1].text, a.items), a.parts, rest)
      BY <2>2, <2>4 DEF LinkShaped
    <3>2. a.parts \subseteq P /\ rest.parts \subseteq P
      BY <1>2, <2>1, <3>1, BeforeParts
    <3>3. ItemsFine(a, ")", f, P) /\ ChainFine(rest, f, P)
      BY <3>1, <3>2, HasFine
    <3>4. PICK t : t = ts[i + 1] /\ Made(t) /\ t.type = "ident"
      BY <3>1 DEF WellMade
    <3>5. ChainFine(Before(Segment(t.text, a.items), a.parts, rest), f, P)
      BY <3>3, <3>4, LinkFine
    <3> QED
      BY <2>1, <3>1, <3>4, <3>5
  <2> QED
    BY <2>3, <2>4
<1>3. ASSUME NEW close \in Ending, read[i][close] # Failed, read[i][close].parts \subseteq P
      PROVE  EntriesFine(read[i][close], close, f, P)
  <2>1. PICK r : r = read[i][close]
    OBVIOUS
  <2>2. EntriesShaped(read, ts, i, close, r)
    BY <1>3, <2>1, EntriesShape
  <2>3. CASE r = Nothing(i + 1)
    BY <2>1, <2>3, NothingFine
  <2>4. CASE r # Nothing(i + 1)
    <3>1. PICK k, e, rest : /\ e = Entry(read, ts, i) /\ e # Failed /\ Has(read, ts, i, k, close, rest)
                            /\ r = Before(e.value, e.parts, rest)
      BY <2>2, <2>4 DEF EntriesShaped
    <3>2. e.parts \subseteq P /\ rest.parts \subseteq P
      BY <1>3, <2>1, <3>1, BeforeParts
    <3>3. e.value \in P
      BY <3>1, <3>2, ThingHolds
    <3>4. EntriesFine(rest, close, f, P)
      BY <1>3, <3>1, <3>2, HasFine
    <3>5. EntryFine(e, f)
      BY <3>1, <3>2, EntrysFine
    <3>6. EntriesFine(Before(e.value, e.parts, rest), close, f, P)
      BY <1>3, <3>3, <3>4, <3>5, EntryFineOn
    <3> QED
      BY <2>1, <3>1, <3>6
  <2> QED
    BY <2>3, <2>4
<1> QED
  BY <1>1, <1>2, <1>3 DEF RowFine

\* So it is from a token on, when the numbers from there on are written in decimals.
LEMMA AllFine ==
  ASSUME NEW ts, WellMade(ts), NEW read, Reading(read, ts), NEW a \in 1 .. Len(ts), Fit(ts, a),
         NEW f, NEW P, Solved(f, P)
  PROVE  RowFine(read[a], f, P)
<1>1. PICK n, S : n = Len(ts) /\ S = {i \in 1 .. n : i < a \/ RowFine(read[i], f, P)}
  OBVIOUS
<1>2. n \in Nat
  BY <1>1 DEF WellMade
<1>3. ASSUME NEW i \in 1 .. n, \A j \in i + 1 .. n : j \in S PROVE i \in S
  <2>1. CASE i < a
    BY <1>1, <1>3, <2>1
  <2>2. CASE ~(i < a)
    <3>1. i .. n \subseteq a .. n /\ \A j \in i + 1 .. n : ~(j < a)
      BY <1>1, <1>2, <2>2
    <3>2. Fit(ts, i)
      BY <1>1, <3>1 DEF Fit
    <3>3. FineBehind(read, ts, i, f, P)
      BY <1>1, <1>3, <3>1 DEF FineBehind
    <3>4. RowFine(read[i], f, P)
      BY <1>1, <3>2, <3>3, RowsFine
    <3> QED
      BY <1>1, <3>4
  <2> QED
    BY <2>1, <2>2
<1>4. 1 .. n \subseteq S
  BY <1>1, <1>2, <1>3, Down
<1>5. ~(a < a)
  BY <1>2, <1>1
<1> QED
  BY <1>1, <1>4, <1>5

-----------------------------------------------------------------------------
(* A document's canonical text is read as that document.                   *)

\* The text spells the header, the version and the entries.
DocumentText(version, w) == <<"@", " ">> \o version \o <<LineEnd, LineEnd>> \o w
LEMMA DocumentTextIs ==
  ASSUME NEW v \in Texts, NEW w \in Texts
  PROVE  /\ DocumentText(v, w) = <<"@">> \o (<<" ">> \o (v \o (<<LineEnd>> \o (<<LineEnd>> \o w))))
         /\ <<"@">> \o (<<" ">> \o (v \o (<<LineEnd>> \o (<<LineEnd>> \o w)))) \in Texts
<1>1. "@" \in Chars /\ " " \in Chars /\ LineEnd \in Chars
  BY DEF Chars
<1>2. PICK a, l, x, y : a = <<"@", " ">> /\ l = <<LineEnd, LineEnd>> /\ x = l \o w /\ y = v \o x
  OBVIOUS
<1>3. a \in Texts
  <2>1. PICK m, n : m = "@" /\ n = " "
    OBVIOUS
  <2>2. <<m, n>> \in Texts
    BY <1>1, <2>1, MarkedOn
  <2> QED
    BY <1>2, <2>1, <2>2
<1>4. l \in Texts /\ x = <<LineEnd>> \o (<<LineEnd>> \o w)
  BY <1>1, <1>2, MarkedOn
<1>5. x \in Texts /\ y \in Texts
  <2>1. l \o w \in Texts
    BY <1>4, TextsOn
  <2>2. x \in Texts
    BY <1>2, <2>1
  <2>3. v \o x \in Texts
    BY <2>2, TextsOn
  <2> QED
    BY <1>2, <2>2, <2>3
<1>6. DocumentText(v, w) = a \o y
  <2>1. FourJoined(a, v, l, w)
    BY <1>3, <1>4, FiveAre
  <2> QED
    BY <1>2, <2>1 DEF FourJoined, DocumentText
<1>7. a \o y = <<"@">> \o (<<" ">> \o y) /\ a \o y \in Texts
  <2>1. PICK m, n : m = "@" /\ n = " "
    OBVIOUS
  <2>2. <<m, n>> \o y = <<m>> \o (<<n>> \o y)
    BY <1>1, <1>5, <2>1, MarkedOn
  <2>3. a \o y \in Texts
    BY <1>3, <1>5, TextsOn
  <2> QED
    BY <1>2, <2>1, <2>2, <2>3
<1> QED
  BY <1>2, <1>4, <1>6, <1>7

LEMMA SpellsDocument ==
  ASSUME NEW v, Made(v), v.type = "number", NEW w, NEW c, Spells(w, c, Chars)
  PROVE  Spells(DocumentText(v.text, w), <<Token("header", <<"@">>)>> \o (<<v>> \o c), Chars)
<1>1. PICK name, h : name = v.text /\ h = <<Token("header", <<"@">>)>>
  OBVIOUS
<1>2. Spells(name, <<v>>, Stops) /\ name \in Texts /\ w \in Texts /\ v \in Tokens
  <2>1. MadeNumber(v.text) /\ v = Token("number", v.text)
    BY DEF Made
  <2>2. Spells(v.text, <<Token("number", v.text)>>, Stops)
    BY <2>1, SpellsNumber
  <2>3. v.text \in Texts
    BY DEF Made
  <2> QED
    BY <1>1, <2>1, <2>2, <2>3, MadeIs DEF Spells
<1>3. PICK w1 : w1 = <<LineEnd>> \o w
  OBVIOUS
<1>4. c \in Seq(Tokens)
  BY DEF Spells
<1>5. Spells(w1, c, Chars)
  <2>1. Spells(<<LineEnd>>, <<>>, Chars)
    BY SpellsSpace
  <2>2. Spells(w1, <<>> \o c, Chars)
    BY <1>3, <2>1, SpellsThen
  <2> QED
    BY <1>4, <2>2, ConcatEmptySeq
<1>6. PICK w2, d : w2 = name \o (<<LineEnd>> \o w1) /\ d = <<v>> \o c
  OBVIOUS
<1>7. Spells(w2, d, Chars)
  BY <1>2, <1>5, <1>6, SpellsGap
<1>8. w2 \in Texts /\ d \in Seq(Tokens)
  BY <1>7 DEF Spells
<1>9. PICK w3 : w3 = <<" ">> \o w2
  OBVIOUS
<1>10. Spells(w3, d, Chars)
  <2>1. Spells(<<" ">>, <<>>, Chars)
    BY SpellsSpace
  <2>2. Spells(w3, <<>> \o d, Chars)
    BY <1>7, <1>9, <2>1, SpellsThen
  <2> QED
    BY <1>8, <2>2, ConcatEmptySeq
<1>11. w3 # <<>> /\ w3[1] \in {" "}
  <2>1. " " \in Chars
    BY DEF Chars
  <2> QED
    BY <1>8, <1>9, <2>1, FirstOf
<1>12. Spells(<<"@">> \o w3, h \o d, Chars)
  <2>1. Spells(<<"@">>, h, {" "})
    BY <1>1, SpellsHeader
  <2> QED
    BY <1>10, <1>11, <2>1, SpellsOn
<1>13. DocumentText(name, w) = <<"@">> \o w3
  BY <1>2, <1>3, <1>6, <1>9, DocumentTextIs
<1> QED
  BY <1>1, <1>6, <1>12, <1>13

\* A text that spells tokens has these, and the end of the file.
Eof == Token("eof", <<>>)
LEMMA TokenizedAs ==
  ASSUME NEW k, NEW c, Spells(k, c, Chars)
  PROVE  Tokenize(k, Escapes) = c \o <<Eof>> /\ WellMade(Tokenize(k, Escapes))
<1>1. k \in Texts /\ c \in Seq(Tokens) /\ Escapes \in EscapeSets
  BY DEF Spells, EscapeSets
<1>2. PICK f : Lexed(f, k, Escapes) /\ Tokenize(k, Escapes) = f[1]
  BY <1>1, TokensAre
<1>3. PICK n, m : n = Len(k) /\ m = n + 1
  OBVIOUS
<1>4. n \in Nat /\ m = 1 + n /\ m \in 1 .. n + 1 /\ m > n /\ 1 \in 1 .. n + 1
  BY <1>1, <1>3, TextIs
<1>5. f[m] = <<Eof>>
  <2>1. f[m] = TokensAt(f, k, m, Escapes)
    BY <1>2, <1>3, <1>4 DEF Lexed
  <2>2. m > Len(k)
    BY <1>3, <1>4
  <2> QED
    BY <2>1, <2>2 DEF TokensAt, Eof
<1>6. Eof \in Tokens /\ Len(<<Eof>>) = 1 /\ <<Eof>> # <<>>
  <2>1. WellMade(<<Eof>>)
    BY EofIs DEF Eof
  <2>2. PICK o : o = <<Eof>>
    OBVIOUS
  <2>3. Len(o) = 1 /\ o[1] = Eof /\ 1 \in 1 .. Len(o)
    BY <2>2
  <2>4. Made(o[1])
    BY <2>1, <2>2, <2>3 DEF WellMade
  <2>5. o # <<>>
    BY <2>3
  <2> QED
    BY <2>2, <2>3, <2>4, <2>5, MadeIs
<1>7. SpellsAt(k, c, Chars, k, f, 1)
  BY <1>1 DEF Spells
<1>8. Stands(k, 1, k) /\ 1 + Len(k) = m
  <2>1. \A i \in 1 .. n : k[1 + i - 1] = k[i]
    <3>1. \A i \in 1 .. n : 1 + i - 1 = i
      BY <1>4
    <3> QED
      BY <3>1
  <2>2. 1 \in 1 .. n + 1 /\ 1 + n <= n + 1
    BY <1>4
  <2> QED
    BY <1>3, <1>4, <2>1, <2>2 DEF Stands
<1>9. Followed(k, m, Chars)
  BY <1>3, <1>4 DEF Followed
<1>10. f[1] = c \o f[m]
  <2>1. f[m] # <<>>
    BY <1>5, <1>6
  <2> QED
    BY <1>2, <1>7, <1>8, <1>9, <2>1 DEF SpellsAt
<1>11. f[1] # <<>>
  <2>1. PICK o, z : o = <<Eof>> /\ z = c \o o
    OBVIOUS
  <2>2. o \in Seq(Tokens) /\ Len(o) = 1
    BY <1>6, <2>1
  <2>3. Len(z) = Len(c) + 1 /\ Len(c) \in Nat
    BY <1>1, <2>1, <2>2, SeqOn
  <2>4. Len(z) # 0
    BY <2>3
  <2>5. z # <<>>
    BY <2>4
  <2> QED
    BY <1>5, <1>10, <2>1, <2>5
<1>12. WellMade(f[1])
  BY <1>1, <1>2, <1>3, <1>4, <1>11, TokensMade
<1> QED
  BY <1>2, <1>5, <1>10, <1>12

\* Such tokens are a document.
Heads(z, h, v, c) == z = (<<h>> \o (<<v>> \o c)) \o <<Eof>>
LEMMA DocumentReads ==
  ASSUME NEW z, WellMade(z), NEW h \in Tokens, h.type = "header", NEW v \in Tokens, v.type = "number",
         NEW c, NEW xs, NEW ps, EntriesRead(c, "eof", xs, ps),
         Heads(z, h, v, c)
  PROVE  Document(z) = [version |-> v.text, entries |-> xs, parts |-> ps]
<1>1. c \in Seq(Tokens)
  BY DEF EntriesRead
<1>2. PICK d, g : d = <<v>> \o c /\ g = <<h>> \o d
  OBVIOUS
<1>3. d \in Seq(Tokens) /\ g \in Seq(Tokens)
  BY <1>1, <1>2, HeadOn
<1>4. Eof \in Tokens
  <2>1. PICK o : o = <<Eof>>
    OBVIOUS
  <2>2. WellMade(o)
    BY <2>1, EofIs DEF Eof
  <2>3. Len(o) = 1 /\ o[1] = Eof /\ 1 \in 1 .. Len(o)
    BY <2>1
  <2> QED
    BY <2>2, <2>3, MadeIs DEF WellMade
<1>5. PICK n, m : n = Len(z) /\ m = Len(g)
  OBVIOUS
<1>6. n = m + 1 /\ m \in Nat /\ \A i \in 1 .. m : z[i] = g[i]
  <2>1. PICK o : o = <<Eof>>
    OBVIOUS
  <2>2. o \in Seq(Tokens) /\ Len(o) = 1
    BY <1>4, <2>1
  <2>3. z = g \o o
    BY <1>2, <2>1 DEF Heads
  <2>4. /\ Len(g \o o) = Len(g) + Len(o) /\ \A i \in 1 .. Len(g) : (g \o o)[i] = g[i]
    BY <1>3, <2>2, SeqOn
  <2>5. Len(g) \in Nat
    BY <1>3
  <2> QED
    BY <1>5, <2>2, <2>3, <2>4, <2>5
<1>7. At(z, 1, g)
  <2>1. 1 \in 1 .. n /\ 1 + m \in 1 .. n /\ \A i \in 1 .. m : 1 + i - 1 = i
    BY <1>6
  <2>2. \A i \in 1 .. m : z[1 + i - 1] = g[i]
    BY <1>6, <2>1
  <2> QED
    BY <1>5, <2>1, <2>2 DEF At
<1>8. HeadAt(z, 1, h, d)
  BY <1>2, <1>3, <1>7, HeadAtIs
<1>9. z[1] = h /\ At(z, 2, d) /\ 1 + m = 2 + Len(d)
  <2>1. /\ z[1] = h /\ At(z, 1 + 1, d) /\ 1 + Len(g) = (1 + 1) + Len(d)
    BY <1>2, <1>8 DEF HeadAt
  <2>2. 1 + 1 = 2
    OBVIOUS
  <2> QED
    BY <1>5, <2>1, <2>2
<1>10. HeadAt(z, 2, v, c)
  BY <1>1, <1>2, <1>9, HeadAtIs
<1>11. z[2] = v /\ At(z, 3, c) /\ 2 + Len(d) = 3 + Len(c) /\ 3 \in 1 .. n
  <2>1. z[2] = v /\ At(z, 2 + 1, c) /\ 2 + 1 \in 1 .. n /\ 2 + Len(d) = (2 + 1) + Len(c)
    BY <1>2, <1>5, <1>10 DEF HeadAt
  <2>2. 2 + 1 = 3
    OBVIOUS
  <2> QED
    BY <2>1, <2>2
<1>12. 3 + Len(c) = n /\ ~(n < 3)
  BY <1>6, <1>9, <1>11
<1>13. z[n].type = "eof"
  <2>1. n \in 1 .. n
    BY <1>6
  <2> QED
    BY <1>5, <2>1 DEF WellMade
<1>14. PICK read : read = Reads(z)
  OBVIOUS
<1>15. Parsed(read, z)
  BY <1>14, ReadsAre DEF Parsed
<1>16. PICK r : r = read[3]["eof"]
  OBVIOUS
<1>17. r = [at |-> n + 1, items |-> xs, parts |-> ps]
  <2>1. EntriesReadAt(c, "eof", xs, ps, read, z, 3)
    BY <1>15 DEF EntriesRead
  <2> QED
    BY <1>11, <1>12, <1>13, <1>16, <2>1 DEF EntriesReadAt
<1>18. r # Failed /\ r.items = xs /\ r.parts = ps
  BY <1>17, NotFailed
<1>19. ~(Len(z) < 3) /\ z[1].type = "header" /\ z[2].type = "number" /\ z[2].text = v.text
  BY <1>5, <1>9, <1>11, <1>12
<1> QED
  BY <1>14, <1>16, <1>18, <1>19 DEF Document

\* What is read of a document whose numbers are written in decimals is read of its canonical
\* text (parseStructure, canonicalize).
THEOREM CanonicalReads ==
  ASSUME NEW s \in Texts, NEW d, d = Parse(s, Escapes), d # NoDocument, Fit(Tokenize(s, Escapes), 3)
  PROVE  Parse(Canonicalize(d), Escapes) = d
<1>1. PICK ts, read, r, P : /\ ts = Tokenize(s, Escapes) /\ read = Reads(ts) /\ r = read[3]["eof"]
                            /\ P = r.parts
  OBVIOUS
<1>2. /\ ~(Len(ts) < 3) /\ ts[1].type = "header" /\ ts[2].type = "number" /\ r # Failed
      /\ d = [version |-> ts[2].text, entries |-> r.items, parts |-> P]
  <2>1. d = Document(ts)
    BY <1>1 DEF Parse
  <2> QED
    BY <1>1, <2>1 DEF Document
<1>3. WellMade(ts)
  <2>1. Escapes \in EscapeSets
    BY DEF EscapeSets
  <2>2. PICK f : Lexed(f, s, Escapes) /\ ts = f[1]
    BY <1>1, <2>1, TokensAre
  <2>3. 1 \in 1 .. Len(s) + 1
    <3>1. Len(s) \in Nat
      BY TextIs
    <3> QED
      BY <3>1
  <2>4. ts = <<>> \/ WellMade(ts)
    BY <2>1, <2>2, <2>3, TokensMade
  <2>5. Len(<<>>) < 3
    <3>1. PICK o : o = <<>>
      OBVIOUS
    <3>2. Len(o) = 0
      BY <3>1
    <3> QED
      BY <3>1, <3>2
  <2> QED
    BY <1>2, <2>4, <2>5
<1>4. Reading(read, ts)
  BY <1>1, <1>3, ReadsAre
<1>5. 3 \in 1 .. Len(ts) /\ 2 \in 1 .. Len(ts)
  <2>1. Len(ts) \in Nat
    BY <1>3 DEF WellMade
  <2> QED
    BY <1>2, <2>1
<1>6. r.items \in Seq(P) /\ Closed(P) /\ P \in SUBSET Things(read, ts, 3)
  <2>1. RowSound(read[3], Things(read, ts, 3))
    BY <1>3, <1>4, <1>5, AllSound
  <2>2. "eof" \in Items
    BY DEF Items, Ending
  <2>3. SoundItems(r, Things(read, ts, 3))
    BY <1>1, <2>1, <2>2 DEF RowSound
  <2> QED
    BY <1>1, <1>2, <2>3 DEF SoundItems
<1>7. PICK text : text = CHOOSE f : Solves(f, P)
  OBVIOUS
<1>8. Solves(text, P)
  <2>1. PICK f : Solves(f, Things(read, ts, 3))
    BY <1>3, <1>4, <1>5, TextsAre
  <2>2. \E g : Solves(g, P)
    BY <1>6, <2>1, PartsSolved
  <2> QED
    BY <1>7, <2>2
<1>9. Solved(text, P)
  BY <1>8 DEF Solves, Solved
<1>10. PICK w : w = FlattenSeq(TextsOf(text, r.items))
  OBVIOUS
<1>11. PICK c : Spells(w, c, Chars) /\ EntriesRead(c, "eof", r.items, P)
  <2>1. Fit(ts, 3)
    BY <1>1
  <2>2. RowFine(read[3], text, P)
    BY <1>3, <1>4, <1>5, <1>9, <2>1, AllFine
  <2>3. "eof" \in Ending /\ r.parts \subseteq P
    BY <1>1 DEF Ending
  <2>4. EntriesFine(r, "eof", text, P)
    BY <1>1, <1>2, <2>2, <2>3 DEF RowFine
  <2> QED
    BY <1>1, <1>10, <2>4 DEF EntriesFine
<1>12. PICK v, h : v = ts[2] /\ h = Token("header", <<"@">>)
  OBVIOUS
<1>13. Made(v) /\ v.type = "number" /\ v \in Tokens /\ h \in Tokens /\ h.type = "header"
  <2>1. Made(v)
    BY <1>3, <1>5, <1>12 DEF WellMade
  <2>2. Made(h)
    <3>1. "@" \in Chars
      BY DEF Chars
    <3>2. <<"@">> \in Texts
      BY <3>1, TextsOn
    <3> QED
      BY <1>12, <3>2, TokenMade
  <2> QED
    BY <1>2, <1>12, <2>1, <2>2, MadeIs, TokenHas
<1>14. Canonicalize(d) = DocumentText(v.text, w)
  <2>1. d.version = v.text /\ d.entries = r.items /\ d.parts = P
    BY <1>2, <1>12
  <2>2. PICK xs : xs = r.items
    OBVIOUS
  <2>3. Canonicalize(d) = <<"@", " ">> \o v.text \o <<LineEnd, LineEnd>> \o WriteEntries(text, xs)
    BY <1>7, <2>1, <2>2 DEF Canonicalize, Solves
  <2>4. WriteEntries(text, xs) = w
    BY <1>10, <2>2 DEF WriteEntries, TextsOf
  <2> QED
    BY <2>3, <2>4 DEF DocumentText
<1>15. PICK k : k = Canonicalize(d)
  OBVIOUS
<1>16. Spells(k, <<h>> \o (<<v>> \o c), Chars)
  BY <1>11, <1>12, <1>13, <1>14, <1>15, SpellsDocument
<1>17. PICK z : z = Tokenize(k, Escapes)
  OBVIOUS
<1>18. z = (<<h>> \o (<<v>> \o c)) \o <<Eof>> /\ WellMade(z)
  BY <1>16, <1>17, TokenizedAs
<1>19. Document(z) = [version |-> v.text, entries |-> r.items, parts |-> P]
  <2>1. PICK xs : xs = r.items
    OBVIOUS
  <2>2. EntriesRead(c, "eof", xs, P)
    BY <1>11, <2>1
  <2>3. Document(z) = [version |-> v.text, entries |-> xs, parts |-> P]
    <3>1. Heads(z, h, v, c) /\ WellMade(z)
      BY <1>18 DEF Heads
    <3> QED
      BY <1>13, <2>2, <3>1, DocumentReads
  <2> QED
    BY <2>1, <2>3
<1> QED
  BY <1>2, <1>12, <1>15, <1>17, <1>19 DEF Parse

-----------------------------------------------------------------------------
(* The editor.                                                             *)

\* The text stays one of these characters, whatever is inserted and deleted.
IsText == source \in Texts
LEMMA SourceStays ==
  ASSUME StructureAssumption
  PROVE  Spec => []IsText
<1>1. Init => IsText
  BY DEF StructureAssumption, Init, IsText
<1>2. ASSUME IsText, [Next]_vars PROVE IsText'
  <2> USE <1>2 DEF IsText
  <2>1. CASE UNCHANGED vars
    BY <1>2, <2>1 DEF vars
  <2>2. CASE Open \/ Close \/ Refresh \/ Loaded
    BY <1>2, <2>2 DEF Open, Close, Refresh, Loaded
  <2>3. ASSUME NEW i \in 0 .. Len(source), NEW p \in Inserted, Insert(i, p) PROVE source' \in Texts
    <3>1. PICK a, b, n : /\ a = SubSeq(source, 1, i) /\ n = Len(source)
                         /\ b = SubSeq(source, i + 1, n)
      OBVIOUS
    <3>2. p \in Texts
      BY DEF StructureAssumption
    <3>3. a \in Texts /\ b \in Texts
      BY <1>2, <3>1 DEF Texts
    <3>4. (a \o p) \o b \in Texts
      BY <3>2, <3>3, TextsOn
    <3>5. source' = a \o p \o b
      BY <2>3, <3>1 DEF Insert, Change
    <3> QED
      BY <3>4, <3>5
  <2>4. ASSUME NEW i \in DOMAIN source, Delete(i) PROVE source' \in Texts
    <3>1. PICK a, b, n : /\ a = SubSeq(source, 1, i - 1) /\ n = Len(source)
                         /\ b = SubSeq(source, i + 1, n)
      OBVIOUS
    <3>2. i \in 1 .. n /\ n \in Nat
      BY <1>2, <2>4, <3>1 DEF Texts
    <3>3. a \in Texts /\ b \in Texts
      BY <1>2, <3>1, <3>2 DEF Texts
    <3>4. a \o b \in Texts
      BY <3>3, TextsOn
    <3>5. source' = a \o b
      BY <2>4, <3>1 DEF Delete, Change
    <3> QED
      BY <3>4, <3>5
  <2> QED
    BY <1>2, <2>1, <2>2, <2>3, <2>4 DEF Next
<1> QED
  BY <1>1, <1>2, PTL DEF Spec

\* However a document of any text is opened, changed, closed and opened again while refreshes
\* wait for their timer or for the parser: once none does, an open document shows the
\* diagnostics of the text it has, not those of an earlier one (refreshDiagnostics,
\* loadStructure).
THEOREM DiagnosticsFollow == Spec => []SquigglesOfText
<1>1. Init => SquigglesOfText
  BY DEF Init, SquigglesOfText
<1>2. ASSUME SquigglesOfText, [Next]_vars PROVE SquigglesOfText'
  <2> USE <1>2 DEF SquigglesOfText
  <2>1. CASE UNCHANGED vars
    <3>1. UNCHANGED <<source, shown, due, awaiting, parser, squiggles>>
      BY <2>1 DEF vars
    <3> QED
      BY <3>1
  <2>2. CASE Open
    BY <2>2 DEF Open
  <2>3. CASE Close
    BY <2>3 DEF Close
  <2>4. CASE Refresh
    BY <2>4 DEF Refresh
  <2>5. CASE Loaded
    BY <2>5 DEF Loaded
  <2>6. CASE \E t : Change(t)
    BY <2>6 DEF Change
  <2> QED
    BY <1>2, <2>1, <2>2, <2>3, <2>4, <2>5, <2>6 DEF Next, Insert, Delete
<1> QED
  BY <1>1, <1>2, PTL DEF Spec

\* Whatever is typed into a document: the diagnostics are those of its text, what the editor's
\* copy of the parser reads the package reads alike, and the canonical text of what the package
\* reads is read as that again (structure.mjs; tokenize, parseStructure, canonicalize).
THEOREM DocumentsRead ==
  ASSUME StructureAssumption
  PROVE  Spec => [](DiagnosticsTrue /\ CanonicalKeepsMeaning)
<1>1. ASSUME IsText PROVE CanonicalKeepsMeaning
  <2>0. source \in Texts
    BY <1>1 DEF IsText
  <2>1. PICK ts : ts = Tokenize(source, Escapes)
    OBVIOUS
  <2>2. PICK d : d = Parse(source, Escapes)
    OBVIOUS
  <2>3. ASSUME \A t \in {ts[k].text : k \in {j \in 3 .. Len(ts) : ts[j].type = "number"}} : InDecimals(t),
               d # NoDocument
        PROVE  Parse(Canonicalize(d), Escapes) = d
    <3>1. Fit(ts, 3)
      BY <2>3 DEF Fit
    <3>2. Fit(Tokenize(source, Escapes), 3)
      BY <2>1, <3>1
    <3> QED
      BY <2>0, <2>2, <2>3, <3>2, CanonicalReads
  <2> QED
    BY <2>1, <2>2, <2>3 DEF CanonicalKeepsMeaning
<1>2. ASSUME IsText, SquigglesOfText PROVE DiagnosticsTrue
  BY <1>2, CopyReadsAlike DEF DiagnosticsTrue, IsText
<1> QED
  BY <1>1, <1>2, SourceStays, DiagnosticsFollow, PTL
=============================================================================
