----------------------------- MODULE ShellProofs -----------------------------
(***************************************************************************)
(* Proofs about Shell for lines of any length and any characters: the      *)
(* words a handler gets, the command that is run, and what fgets leaves in *)
(* the buffer.  What the two recursive functions compute is shown by way   *)
(* of the largest, or the smallest, argument for which it would be wrong.  *)
(***************************************************************************)
EXTENDS Shell, FiniteSetTheorems, WellFoundedInduction, TLAPS

-----------------------------------------------------------------------------
(* Natural numbers.                                                        *)

LEMMA LeastNumber ==
    ASSUME NEW T \in SUBSET Nat, T # {}
    PROVE  \E x \in T : \A y \in T : x <= y
<1> DEFINE R == OpToRel(<, Nat)
<1>1. IsWellFoundedOn(R, Nat)
  BY NatLessThanWellFounded
<1>2. \A x, y \in Nat : y < x => <<y, x>> \in R
  BY DEF OpToRel
<1> HIDE DEF R
<1>3. T \subseteq Nat
  OBVIOUS
<1>4. PICK x \in T : \A y \in T : ~(<<y, x>> \in R)
  BY <1>1, <1>3, WFMin, Zenon
<1>5. \A y \in T : ~(y < x)
  <2> SUFFICES ASSUME NEW y \in T, y < x PROVE FALSE
    OBVIOUS
  <2>1. x \in Nat /\ y \in Nat
    BY <1>3
  <2>2. QED
    BY <1>2, <1>4, <2>1
<1>6. \A y \in T : x <= y
  BY <1>5
<1>7. QED
  BY <1>6

LEMMA LargestNumber ==
    ASSUME NEW n \in Nat, NEW T \in SUBSET (1 .. n), T # {}
    PROVE  \E x \in T : \A y \in T : y <= x
<1> DEFINE U == {m \in Nat : n - m \in T}
<1>1. PICK y \in T : TRUE
  OBVIOUS
<1>2. n - y \in Nat /\ n - (n - y) = y
  BY <1>1
<1>3. U # {} /\ U \in SUBSET Nat
  BY <1>1, <1>2
<1>4. PICK u \in U : \A v \in U : u <= v
  <2> HIDE DEF U
  <2> QED
    BY <1>3, LeastNumber
<1>5. n - u \in T /\ u \in Nat
  BY <1>4
<1>6. \A z \in T : z <= n - u
  <2> SUFFICES ASSUME NEW z \in T PROVE z <= n - u
    OBVIOUS
  <2>1. n - z \in Nat /\ n - (n - z) = z /\ z \in Nat
    OBVIOUS
  <2>2. n - z \in U
    BY <2>1
  <2>3. u <= n - z
    BY <1>4, <2>2
  <2>4. QED
    BY <1>5, <2>1, <2>3
<1>7. QED
  BY <1>5, <1>6

-----------------------------------------------------------------------------
(* The places where words begin and end.                                   *)

\* q is the first place from p on that has no space, or has one, or else the
\* place behind the line.
FirstLetterIs(s, p, q) ==
    /\ q \in p .. Len(s) + 1
    /\ \A k \in p .. q - 1 : isspace(s[k])
    /\ q <= Len(s) => ~isspace(s[q])

FirstSpaceIs(s, p, q) ==
    /\ q \in p .. Len(s) + 1
    /\ \A k \in p .. q - 1 : ~isspace(s[k])
    /\ q <= Len(s) => isspace(s[q])

LEMMA FirstLetter ==
    ASSUME NEW S, NEW s \in Seq(S), NEW p \in 1 .. Len(s) + 1
    PROVE  FirstLetterIs(s, p, FirstFrom(s, p, FALSE))
<1> DEFINE hits == {k \in p .. Len(s) : isspace(s[k]) = FALSE}
<1>1. \A k \in p .. Len(s) : k \notin hits => isspace(s[k])
  BY DEF isspace
<1>2. \A k \in hits : k \in p .. Len(s) /\ ~isspace(s[k])
  OBVIOUS
<1>3. CASE hits = {}
  <2>1. FirstFrom(s, p, FALSE) = Len(s) + 1
    BY <1>3 DEF FirstFrom
  <2> HIDE DEF hits
  <2>2. FirstLetterIs(s, p, Len(s) + 1)
    BY <1>1, <1>3 DEF FirstLetterIs
  <2>3. QED
    BY <2>1, <2>2, Zenon
<1>4. CASE hits # {}
  <2> DEFINE q == CHOOSE x \in hits : \A y \in hits : x <= y
  <2>1. FirstFrom(s, p, FALSE) = q
    BY <1>4 DEF FirstFrom
  <2>2. hits \in SUBSET Nat
    BY <1>2
  <2> HIDE DEF hits
  <2>3. q \in hits /\ \A y \in hits : q <= y
    BY <1>4, <2>2, LeastNumber
  <2> HIDE DEF q
  <2>4. q \in p .. Len(s) /\ ~isspace(s[q])
    BY <1>2, <2>3
  <2>5. \A k \in p .. q - 1 : isspace(s[k])
    BY <1>1, <2>3, <2>4
  <2>6. FirstLetterIs(s, p, q)
    BY <2>4, <2>5 DEF FirstLetterIs
  <2>7. QED
    BY <2>1, <2>6, Zenon
<1>5. QED
  BY <1>3, <1>4

LEMMA FirstSpace ==
    ASSUME NEW S, NEW s \in Seq(S), NEW p \in 1 .. Len(s) + 1
    PROVE  FirstSpaceIs(s, p, FirstFrom(s, p, TRUE))
<1> DEFINE hits == {k \in p .. Len(s) : isspace(s[k]) = TRUE}
<1>1. \A k \in p .. Len(s) : k \notin hits => ~isspace(s[k])
  BY DEF isspace
<1>2. \A k \in hits : k \in p .. Len(s) /\ isspace(s[k])
  OBVIOUS
<1>3. CASE hits = {}
  <2>1. FirstFrom(s, p, TRUE) = Len(s) + 1
    BY <1>3 DEF FirstFrom
  <2> HIDE DEF hits
  <2>2. FirstSpaceIs(s, p, Len(s) + 1)
    BY <1>1, <1>3 DEF FirstSpaceIs
  <2>3. QED
    BY <2>1, <2>2, Zenon
<1>4. CASE hits # {}
  <2> DEFINE q == CHOOSE x \in hits : \A y \in hits : x <= y
  <2>1. FirstFrom(s, p, TRUE) = q
    BY <1>4 DEF FirstFrom
  <2>2. hits \in SUBSET Nat
    BY <1>2
  <2> HIDE DEF hits
  <2>3. q \in hits /\ \A y \in hits : q <= y
    BY <1>4, <2>2, LeastNumber
  <2> HIDE DEF q
  <2>4. q \in p .. Len(s) /\ isspace(s[q])
    BY <1>2, <2>3
  <2>5. \A k \in p .. q - 1 : ~isspace(s[k])
    BY <1>1, <2>3, <2>4
  <2>6. FirstSpaceIs(s, p, q)
    BY <2>4, <2>5 DEF FirstSpaceIs
  <2>7. QED
    BY <2>1, <2>6, Zenon
<1>5. QED
  BY <1>3, <1>4

WordStart(s, p) == FirstFrom(s, p, FALSE)
WordEnd(s, p) == FirstFrom(s, WordStart(s, p), TRUE)

\* The next word from p on is at i .. j - 1, or there is none and i is behind
\* the line.
PlacesAre(s, p, i, j) ==
    /\ FirstLetterIs(s, p, i)
    /\ i <= Len(s) => FirstSpaceIs(s, i, j) /\ j \in i + 1 .. Len(s) + 1

LEMMA Places ==
    ASSUME NEW S, NEW s \in Seq(S), NEW p \in 1 .. Len(s) + 1
    PROVE  PlacesAre(s, p, WordStart(s, p), WordEnd(s, p))
<1> DEFINE i == WordStart(s, p)
           j == WordEnd(s, p)
<1>1. FirstLetterIs(s, p, i)
  BY FirstLetter DEF WordStart
<1>2. i \in 1 .. Len(s) + 1
  <2> HIDE DEF i
  <2> QED
    BY <1>1 DEF FirstLetterIs
<1>3. FirstSpaceIs(s, i, j)
  <2>1. FirstSpaceIs(s, i, FirstFrom(s, i, TRUE))
    <3> HIDE DEF i
    <3> QED
      BY <1>2, FirstSpace
  <2>2. QED
    BY <2>1, Zenon DEF WordEnd
<1> HIDE DEF i, j
<1>4. i <= Len(s) => j \in i + 1 .. Len(s) + 1
  BY <1>1, <1>2, <1>3 DEF FirstLetterIs, FirstSpaceIs
<1>5. PlacesAre(s, p, i, j)
  BY <1>1, <1>3, <1>4 DEF PlacesAre
<1>6. QED
  BY <1>5 DEF i, j

-----------------------------------------------------------------------------
(* The function Split is defined by.                                       *)

\* The words from p on, if f has the words from further places on.
WordsFrom(s, f, p) ==
    IF WordStart(s, p) > Len(s) THEN <<>>
    ELSE <<SubSeq(s, WordStart(s, p), WordEnd(s, p) - 1)>>
           \o (IF WordEnd(s, p) > Len(s) THEN <<>> ELSE f[WordEnd(s, p) + 1])

Splits(s, f) == f = [p \in 1 .. Len(s) + 1 |-> WordsFrom(s, f, p)]

LEMMA SplitUnfold ==
    ASSUME NEW s
    PROVE  Split(s) = (CHOOSE f : Splits(s, f))[1]
BY DEF Split, Splits, WordsFrom, WordStart, WordEnd

\* Only the words from later places on matter.
LEMMA WordsFromLocal ==
    ASSUME NEW S, NEW s \in Seq(S), NEW p \in 1 .. Len(s) + 1, NEW f, NEW g,
           \A q \in p + 1 .. Len(s) + 1 : f[q] = g[q]
    PROVE  WordsFrom(s, f, p) = WordsFrom(s, g, p)
<1> DEFINE i == WordStart(s, p)
           j == WordEnd(s, p)
<1>1. PlacesAre(s, p, i, j)
  BY Places
<1> HIDE DEF i, j
<1>2. i <= Len(s) /\ ~(j > Len(s)) => f[j + 1] = g[j + 1]
  <2> SUFFICES ASSUME i <= Len(s), ~(j > Len(s)) PROVE f[j + 1] = g[j + 1]
    OBVIOUS
  <2>1. i \in p .. Len(s) + 1 /\ j \in i + 1 .. Len(s) + 1
    BY <1>1 DEF PlacesAre, FirstLetterIs
  <2>2. j + 1 \in p + 1 .. Len(s) + 1
    BY <2>1
  <2>3. QED
    BY <2>2
<1>3. i > Len(s) \/ i <= Len(s)
  BY <1>1 DEF PlacesAre, FirstLetterIs
<1>4. QED
  BY <1>2, <1>3, Zenon DEF WordsFrom, i, j

LEMMA SplitsExists ==
    ASSUME NEW S, NEW s \in Seq(S)
    PROVE  \E f : Splits(s, f)
<1> DEFINE N == Len(s) + 1
           Some(p) == \E f : f = [q \in p .. N |-> WordsFrom(s, f, q)]
           T == {p \in 1 .. N : ~Some(p)}
<1>1. N \in Nat /\ N >= 1
  OBVIOUS
<1>2. Some(N)
  <2> DEFINE f == [q \in N .. N |-> <<>>]
  <2>1. \A q \in N .. N : WordsFrom(s, f, q) = <<>>
    <3> SUFFICES ASSUME NEW q \in N .. N PROVE WordsFrom(s, f, q) = <<>>
      OBVIOUS
    <3>1. q \in 1 .. Len(s) + 1 /\ q = Len(s) + 1
      OBVIOUS
    <3>2. WordStart(s, q) > Len(s)
      <4>1. PlacesAre(s, q, WordStart(s, q), WordEnd(s, q))
        BY <3>1, Places
      <4>2. QED
        BY <3>1, <4>1 DEF PlacesAre, FirstLetterIs
    <3>3. QED
      BY <3>2 DEF WordsFrom
  <2>2. f = [q \in N .. N |-> WordsFrom(s, f, q)]
    <3> HIDE DEF N
    <3> QED
      BY <2>1, Zenon
  <2>3. QED
    BY <2>2
<1>3. ASSUME NEW p \in 1 .. N, p < N, Some(p + 1) PROVE Some(p)
  <2>1. PICK f : f = [q \in p + 1 .. N |-> WordsFrom(s, f, q)]
    BY <1>3
  <2> DEFINE g == [q \in p .. N |-> IF q = p THEN WordsFrom(s, f, p) ELSE f[q]]
  <2>2. \A q \in p + 1 .. N : f[q] = g[q] /\ q \in p .. N
    BY <1>1
  <2>3. \A q \in p + 1 .. N : f[q] = WordsFrom(s, f, q)
    BY <2>1
  <2>4. g[p] = WordsFrom(s, f, p)
    BY <1>1
  <2> DEFINE dom == p .. N
  <2>5. g = [q \in dom |-> g[q]]
    OBVIOUS
  <2>6. \A q \in dom : q = p \/ q \in p + 1 .. N
    BY <1>1
  <2> HIDE DEF g
  <2>7. \A q \in dom : WordsFrom(s, f, q) = WordsFrom(s, g, q)
    <3> SUFFICES ASSUME NEW q \in dom PROVE WordsFrom(s, f, q) = WordsFrom(s, g, q)
      OBVIOUS
    <3>1. q \in 1 .. Len(s) + 1
      BY <1>1
    <3>2. \A r \in q + 1 .. Len(s) + 1 : f[r] = g[r]
      BY <1>1, <2>2
    <3>3. QED
      BY <3>1, <3>2, WordsFromLocal
  <2>8. \A q \in dom : g[q] = WordsFrom(s, g, q)
    BY <2>2, <2>3, <2>4, <2>6, <2>7
  <2>9. g = [q \in dom |-> WordsFrom(s, g, q)]
    <3> HIDE DEF dom
    <3> QED
      BY <2>5, <2>8, Zenon
  <2>10. QED
    BY <2>9
<1> HIDE DEF Some
<1>4. T = {}
  <2> SUFFICES ASSUME T # {} PROVE FALSE
    OBVIOUS
  <2>1. PICK x \in T : \A y \in T : y <= x
    <3>1. T \in SUBSET (1 .. N)
      OBVIOUS
    <3> HIDE DEF T, N
    <3> QED
      BY <1>1, <3>1, LargestNumber
  <2>2. x \in 1 .. N /\ ~Some(x)
    OBVIOUS
  <2>3. x < N
    BY <1>1, <1>2, <2>2
  <2>4. x + 1 \in 1 .. N /\ ~(x + 1 <= x)
    BY <1>1, <2>2, <2>3
  <2>5. Some(x + 1)
    BY <2>1, <2>4
  <2>6. QED
    BY <1>3, <2>2, <2>3, <2>5
<1>5. Some(1)
  BY <1>1, <1>4
<1>6. QED
  BY <1>5 DEF Some, Splits

LEMMA SplitIs ==
    ASSUME NEW S, NEW s \in Seq(S)
    PROVE  \E f : /\ \A p \in 1 .. Len(s) + 1 : f[p] = WordsFrom(s, f, p)
                  /\ Split(s) = f[1]
<1> DEFINE f == CHOOSE g : Splits(s, g)
<1>1. Splits(s, f)
  BY SplitsExists
<1>2. Split(s) = f[1]
  BY SplitUnfold
<1> HIDE DEF f
<1>3. \A p \in 1 .. Len(s) + 1 : f[p] = WordsFrom(s, f, p)
  BY <1>1 DEF Splits
<1>4. QED
  BY <1>2, <1>3

-----------------------------------------------------------------------------
(* The words of a line.                                                    *)

\* The words from p on; p is the beginning of the line or behind a space.
Later(s, p) == {w \in Words(s) : w[1] >= p}
Behind(s, p) == p = 1 \/ (p > 1 /\ isspace(s[p - 1]))
UpTo(s, p, w) == {v \in Later(s, p) : v[1] <= w[1]}

\* a .. b is a longest stretch of s without a space.
Stretch(s, a, b) ==
    /\ a \in 1 .. Len(s) /\ b \in 1 .. Len(s) /\ a <= b
    /\ \A k \in a .. b : ~isspace(s[k])
    /\ a > 1 => isspace(s[a - 1])
    /\ b < Len(s) => isspace(s[b + 1])

LEMMA WordsAreStretches ==
    ASSUME NEW s, NEW w \in Words(s)
    PROVE  w = <<w[1], w[2]>> /\ Stretch(s, w[1], w[2])
BY DEF Words, Stretch

LEMMA StretchesAreWords ==
    ASSUME NEW s, NEW a, NEW b, Stretch(s, a, b)
    PROVE  <<a, b>> \in Words(s)
BY DEF Words, Stretch

LEMMA WordsFinite ==
    ASSUME NEW S, NEW s \in Seq(S), NEW T \in SUBSET Words(s)
    PROVE  IsFiniteSet(T) /\ Cardinality(T) \in Nat
<1> DEFINE D == 1 .. Len(s)
<1>1. IsFiniteSet(D)
  BY FS_Interval
<1>2. IsFiniteSet(D \X D)
  <2> HIDE DEF D
  <2> QED
    BY <1>1, FS_Product
<1>3. T \subseteq D \X D
  BY DEF Words
<1>4. IsFiniteSet(T)
  <2> HIDE DEF D
  <2> QED
    BY <1>2, <1>3, FS_Subset
<1>5. QED
  BY <1>4, FS_CardinalityType

LEMMA NoWordLater ==
    ASSUME NEW S, NEW s \in Seq(S), NEW p \in 1 .. Len(s) + 1, NEW i,
           FirstLetterIs(s, p, i), i > Len(s)
    PROVE  Later(s, p) = {}
<1> SUFFICES ASSUME NEW w \in Later(s, p) PROVE FALSE
  OBVIOUS
<1>1. w \in Words(s) /\ w[1] >= p
  BY DEF Later
<1>2. Stretch(s, w[1], w[2])
  BY <1>1, WordsAreStretches
<1>3. w[1] \in p .. i - 1 /\ ~isspace(s[w[1]])
  BY <1>1, <1>2 DEF Stretch, FirstLetterIs
<1>4. QED
  BY <1>3 DEF FirstLetterIs

\* The word at i .. j - 1 is the first one from p on.
LEMMA NextIsWord ==
    ASSUME NEW S, NEW s \in Seq(S), NEW p \in 1 .. Len(s) + 1, Behind(s, p),
           NEW i, NEW j, PlacesAre(s, p, i, j), i <= Len(s)
    PROVE  /\ <<i, j - 1>> \in Later(s, p)
           /\ \A w \in Later(s, p) : w = <<i, j - 1>> \/ w[1] >= j + 1
<1>1. /\ i \in p .. Len(s) /\ j \in i + 1 .. Len(s) + 1
      /\ \A k \in p .. i - 1 : isspace(s[k])
      /\ ~isspace(s[i])
      /\ \A k \in i .. j - 1 : ~isspace(s[k])
      /\ j <= Len(s) => isspace(s[j])
  BY DEF PlacesAre, FirstLetterIs, FirstSpaceIs
<1>2. Stretch(s, i, j - 1)
  <2>1. i > 1 => isspace(s[i - 1])
    <3>1. CASE i = p
      BY <3>1 DEF Behind
    <3>2. CASE i > p
      <4>1. i - 1 \in p .. i - 1
        BY <1>1, <3>2
      <4>2. QED
        BY <1>1, <4>1
    <3>3. QED
      BY <1>1, <3>1, <3>2
  <2>2. j - 1 < Len(s) => isspace(s[(j - 1) + 1])
    <3>1. (j - 1) + 1 = j
      BY <1>1
    <3>2. QED
      BY <1>1, <3>1
  <2>3. QED
    BY <1>1, <2>1, <2>2 DEF Stretch
<1>3. <<i, j - 1>> \in Later(s, p)
  <2>1. <<i, j - 1>> \in Words(s)
    BY <1>2, StretchesAreWords
  <2>2. QED
    BY <1>1, <2>1 DEF Later
<1>4. ASSUME NEW w \in Later(s, p) PROVE w = <<i, j - 1>> \/ w[1] >= j + 1
  <2> DEFINE a == w[1]
             b == w[2]
  <2>1. w \in Words(s) /\ a >= p
    BY DEF Later
  <2>2. w = <<a, b>> /\ Stretch(s, a, b)
    BY <2>1, WordsAreStretches
  <2> HIDE DEF a, b
  <2>3. /\ a \in 1 .. Len(s) /\ b \in 1 .. Len(s) /\ a <= b
        /\ \A k \in a .. b : ~isspace(s[k])
        /\ a > 1 => isspace(s[a - 1])
        /\ b < Len(s) => isspace(s[b + 1])
    BY <2>2 DEF Stretch
  <2>4. a >= i
    <3> SUFFICES ASSUME a < i PROVE FALSE
      BY <1>1, <2>3
    <3>1. a \in p .. i - 1 /\ a \in a .. b
      BY <1>1, <2>1, <2>3
    <3>2. QED
      BY <1>1, <2>3, <3>1
  <2>5. CASE a = i
    <3>1. b <= j - 1
      <4> SUFFICES ASSUME b >= j PROVE FALSE
        BY <1>1, <2>3
      <4>1. j \in a .. b /\ j <= Len(s)
        BY <1>1, <2>3, <2>5
      <4>2. QED
        BY <1>1, <2>3, <4>1
    <3>2. b >= j - 1
      <4> SUFFICES ASSUME b < j - 1 PROVE FALSE
        BY <1>1, <2>3
      <4>1. b + 1 \in i .. j - 1 /\ b < Len(s)
        BY <1>1, <2>3, <2>5
      <4>2. QED
        BY <1>1, <2>3, <4>1
    <3>3. b = j - 1
      BY <1>1, <2>3, <3>1, <3>2
    <3>4. QED
      BY <2>2, <2>5, <3>3
  <2>6. CASE a > i
    <3>1. isspace(s[a - 1]) /\ a - 1 >= i
      BY <1>1, <2>3, <2>6
    <3>2. ~(a - 1 <= j - 1)
      <4> SUFFICES ASSUME a - 1 <= j - 1 PROVE FALSE
        OBVIOUS
      <4>1. a - 1 \in i .. j - 1
        BY <1>1, <2>3, <3>1
      <4>2. QED
        BY <1>1, <3>1, <4>1
    <3>3. a >= j + 1
      BY <1>1, <2>3, <3>2
    <3>4. QED
      BY <3>3 DEF a
  <2>7. QED
    BY <1>1, <2>3, <2>4, <2>5, <2>6
<1>5. QED
  BY <1>3, <1>4

\* The words from p on are the next one and those behind the space after it.
NextAndLater(s, p, i, j) ==
    /\ j > Len(s) => Later(s, p) = {<<i, j - 1>>}
    /\ j <= Len(s) =>
          /\ Later(s, p) = Later(s, j + 1) \cup {<<i, j - 1>>}
          /\ <<i, j - 1>> \notin Later(s, j + 1)
          /\ Behind(s, j + 1)

LEMMA LaterIs ==
    ASSUME NEW S, NEW s \in Seq(S), NEW p \in 1 .. Len(s) + 1, Behind(s, p),
           NEW i, NEW j, PlacesAre(s, p, i, j), i <= Len(s)
    PROVE  NextAndLater(s, p, i, j)
<1>1. /\ i \in p .. Len(s) /\ j \in i + 1 .. Len(s) + 1
      /\ j <= Len(s) => isspace(s[j])
  BY DEF PlacesAre, FirstLetterIs, FirstSpaceIs
<1>2. /\ <<i, j - 1>> \in Later(s, p)
      /\ \A w \in Later(s, p) : w = <<i, j - 1>> \/ w[1] >= j + 1
  BY NextIsWord
<1>3. \A w \in Later(s, p) : w \in Words(s) /\ w[1] \in 1 .. Len(s)
  BY WordsAreStretches DEF Later, Stretch
<1>4. j > Len(s) => Later(s, p) = {<<i, j - 1>>}
  <2> SUFFICES ASSUME j > Len(s), NEW w \in Later(s, p) PROVE w = <<i, j - 1>>
    BY <1>2
  <2>1. ~(w[1] >= j + 1)
    BY <1>1, <1>3
  <2>2. QED
    BY <1>2, <2>1
<1>5. \A w : w \in Later(s, j + 1) => w \in Later(s, p)
  <2> SUFFICES ASSUME NEW w \in Later(s, j + 1) PROVE w \in Later(s, p)
    OBVIOUS
  <2>1. w \in Words(s) /\ w[1] >= j + 1
    BY DEF Later
  <2>2. w[1] \in 1 .. Len(s)
    BY <2>1, WordsAreStretches DEF Stretch
  <2>3. w[1] >= p
    BY <1>1, <2>1, <2>2
  <2>4. QED
    BY <2>1, <2>3 DEF Later
<1>6. Later(s, p) = Later(s, j + 1) \cup {<<i, j - 1>>}
  <2>1. \A w \in Later(s, p) : w = <<i, j - 1>> \/ w \in Later(s, j + 1)
    BY <1>2, <1>3 DEF Later
  <2>2. QED
    BY <1>2, <1>5, <2>1, Zenon
<1>7. <<i, j - 1>> \notin Later(s, j + 1)
  <2>1. <<i, j - 1>>[1] = i /\ ~(i >= j + 1)
    BY <1>1
  <2>2. QED
    BY <2>1 DEF Later
<1>8. j <= Len(s) => Behind(s, j + 1)
  <2>1. j + 1 > 1 /\ (j + 1) - 1 = j
    BY <1>1
  <2>2. QED
    BY <1>1, <2>1 DEF Behind
<1>9. QED
  BY <1>4, <1>6, <1>7, <1>8 DEF NextAndLater

\* ws are the words from p on, in order; there are at most as many as have
\* room with a space between each two and, if the line ends in one, behind.
AreWords(S, s, p, ws) ==
    /\ ws \in Seq(Seq(S))
    /\ 2 * Len(ws) <= (Len(s) - p) + 2
    /\ Len(ws) = Cardinality(Later(s, p))
    /\ \A w \in Later(s, p) :
          ws[Cardinality(UpTo(s, p, w))] = SubSeq(s, w[1], w[2])

LEMMA NoWords ==
    ASSUME NEW S, NEW s \in Seq(S), NEW p \in 1 .. Len(s) + 1, NEW i,
           FirstLetterIs(s, p, i), i > Len(s)
    PROVE  AreWords(S, s, p, <<>>)
<1>1. Later(s, p) = {}
  BY NoWordLater
<1>2. Cardinality({}) = 0
  BY FS_EmptySet
<1>3. Len(<<>>) = 0 /\ <<>> \in Seq(Seq(S))
  OBVIOUS
<1>4. 2 * 0 <= (Len(s) - p) + 2
  OBVIOUS
<1>5. QED
  BY <1>1, <1>2, <1>3, <1>4 DEF AreWords

LEMMA LastWord ==
    ASSUME NEW S, NEW s \in Seq(S), NEW p \in 1 .. Len(s) + 1, Behind(s, p),
           NEW i, NEW j, PlacesAre(s, p, i, j), i <= Len(s), j > Len(s)
    PROVE  AreWords(S, s, p, <<SubSeq(s, i, j - 1)>>)
<1> DEFINE x == <<i, j - 1>>
           d == SubSeq(s, i, j - 1)
<1>1. /\ i \in p .. Len(s) /\ j = Len(s) + 1
      /\ \A k \in i .. j - 1 : ~isspace(s[k])
  BY DEF PlacesAre, FirstLetterIs, FirstSpaceIs
<1>2. Later(s, p) = {x}
  <2>1. NextAndLater(s, p, i, j)
    BY LaterIs
  <2>2. QED
    BY <2>1 DEF NextAndLater
<1>3. UpTo(s, p, x) = {x}
  <2>1. x[1] <= x[1]
    BY <1>1
  <2> HIDE DEF x
  <2>2. QED
    BY <1>2, <2>1 DEF UpTo
<1>4. Cardinality({x}) = 1
  <2> HIDE DEF x
  <2> QED
    BY FS_Singleton
<1>5. d \in Seq(S)
  BY <1>1
<1>6. x[1] = i /\ x[2] = j - 1
  OBVIOUS
<1>7. 2 * 1 <= (Len(s) - p) + 2
  BY <1>1
<1>8. \A w \in {x} : <<d>>[Cardinality(UpTo(s, p, w))] = SubSeq(s, w[1], w[2])
  <2>1. SubSeq(s, x[1], x[2]) = d
    BY <1>6
  <2> HIDE DEF x, d
  <2>2. <<d>>[1] = d
    OBVIOUS
  <2>3. QED
    BY <1>3, <1>4, <2>1, <2>2
<1> HIDE DEF x, d
<1>9. <<d>> \in Seq(Seq(S)) /\ Len(<<d>>) = 1
  BY <1>5
<1> DEFINE ws == <<d>>
<1>10. AreWords(S, s, p, ws)
  <2>1. ws \in Seq(Seq(S)) /\ Len(ws) = 1
    BY <1>9
  <2>2. \A w \in {x} : ws[Cardinality(UpTo(s, p, w))] = SubSeq(s, w[1], w[2])
    BY <1>8
  <2> HIDE DEF ws
  <2>3. 2 * Len(ws) <= (Len(s) - p) + 2
    BY <1>7, <2>1
  <2>4. Len(ws) = Cardinality(Later(s, p))
    BY <1>2, <1>4, <2>1
  <2>5. QED
    BY <1>2, <2>1, <2>2, <2>3, <2>4, Zenon DEF AreWords
<1>11. QED
  BY <1>10 DEF ws, d

LEMMA OneMoreWord ==
    ASSUME NEW S, NEW s \in Seq(S), NEW p \in 1 .. Len(s) + 1, Behind(s, p),
           NEW i, NEW j, PlacesAre(s, p, i, j), i <= Len(s), j <= Len(s),
           NEW rest, AreWords(S, s, j + 1, rest)
    PROVE  AreWords(S, s, p, <<SubSeq(s, i, j - 1)>> \o rest)
<1> DEFINE x == <<i, j - 1>>
           d == SubSeq(s, i, j - 1)
           ws == <<d>> \o rest
           L == Later(s, j + 1)
<1>1. i \in p .. Len(s) /\ j \in i + 1 .. Len(s)
  BY DEF PlacesAre, FirstLetterIs
<1>2. Later(s, p) = L \cup {x} /\ x \notin L
  <2>1. NextAndLater(s, p, i, j)
    BY LaterIs
  <2>2. QED
    BY <2>1 DEF NextAndLater
<1>3. /\ rest \in Seq(Seq(S))
      /\ 2 * Len(rest) <= (Len(s) - (j + 1)) + 2
      /\ Len(rest) = Cardinality(L)
      /\ \A w \in L : rest[Cardinality(UpTo(s, j + 1, w))] = SubSeq(s, w[1], w[2])
  BY DEF AreWords
<1>4. d \in Seq(S)
  BY <1>1
<1>5. x[1] = i /\ x[2] = j - 1
  OBVIOUS
<1>6. \A w \in L : w \in Words(s) /\ w[1] \in 1 .. Len(s) /\ w[1] >= j + 1
  BY WordsAreStretches DEF Later, Stretch
<1>7. L \in SUBSET Words(s)
  BY <1>6
<1>8. SubSeq(s, x[1], x[2]) = d
  BY <1>5
<1> HIDE DEF d, x, L
<1>9. /\ ws \in Seq(Seq(S)) /\ Len(ws) = Len(rest) + 1 /\ ws[1] = d
      /\ \A k \in 1 .. Len(rest) : ws[k + 1] = rest[k]
  BY <1>3, <1>4
<1> HIDE DEF ws
<1>10. IsFiniteSet(L) /\ Cardinality(L) \in Nat
  BY <1>7, WordsFinite
<1>11. Len(ws) = Cardinality(Later(s, p))
  <2>1. Cardinality(L \cup {x}) = Cardinality(L) + 1
    BY <1>2, <1>10, FS_AddElement
  <2>2. QED
    BY <1>2, <1>3, <1>9, <2>1
<1>12. 2 * Len(ws) <= (Len(s) - p) + 2
  BY <1>1, <1>3, <1>9
<1>13. ws[Cardinality(UpTo(s, p, x))] = SubSeq(s, x[1], x[2])
  <2>1. UpTo(s, p, x) = {x}
    <3>1. \A w \in L : ~(w[1] <= x[1])
      BY <1>1, <1>5, <1>6
    <3>2. x[1] <= x[1]
      BY <1>1, <1>5
    <3>3. QED
      BY <1>2, <3>1, <3>2 DEF UpTo
  <2>2. Cardinality({x}) = 1
    BY FS_Singleton
  <2>3. QED
    BY <1>8, <1>9, <2>1, <2>2
<1>14. ASSUME NEW w \in L
       PROVE  ws[Cardinality(UpTo(s, p, w))] = SubSeq(s, w[1], w[2])
  <2> DEFINE U == UpTo(s, j + 1, w)
  <2>1. U = {v \in L : v[1] <= w[1]}
    BY DEF UpTo, L
  <2>2. UpTo(s, p, w) = {v \in Later(s, p) : v[1] <= w[1]}
    BY DEF UpTo
  <2> HIDE DEF U
  <2>3. x[1] <= w[1]
    BY <1>1, <1>5, <1>6
  <2>4. UpTo(s, p, w) = U \cup {x} /\ x \notin U
    BY <1>2, <2>1, <2>2, <2>3
  <2>5. U \subseteq L /\ w \in U
    <3>1. w[1] <= w[1]
      BY <1>6
    <3>2. QED
      BY <2>1, <3>1
  <2>6. IsFiniteSet(U) /\ Cardinality(U) \in Nat /\ Cardinality(U) <= Cardinality(L)
    BY <1>10, <2>5, FS_Subset, FS_CardinalityType
  <2>7. Cardinality(U) # 0
    BY <2>5, <2>6, FS_EmptySet
  <2>8. Cardinality(U \cup {x}) = Cardinality(U) + 1
    BY <2>4, <2>6, FS_AddElement
  <2>9. Cardinality(U) \in 1 .. Len(rest)
    BY <1>3, <1>10, <2>6, <2>7
  <2>10. ws[Cardinality(U) + 1] = rest[Cardinality(U)]
    BY <1>9, <2>9
  <2>11. rest[Cardinality(U)] = SubSeq(s, w[1], w[2])
    BY <1>3 DEF U
  <2>12. QED
    BY <2>4, <2>8, <2>10, <2>11
<1>15. \A w \in Later(s, p) :
          ws[Cardinality(UpTo(s, p, w))] = SubSeq(s, w[1], w[2])
  BY <1>2, <1>13, <1>14
<1>16. AreWords(S, s, p, ws)
  BY <1>9, <1>11, <1>12, <1>15, Zenon DEF AreWords
<1>17. QED
  BY <1>16 DEF ws, d

\* What the loop of parse_cmd stores in argv are the words of the line.
LEMMA SplitGivesWords ==
    ASSUME NEW S, NEW s \in Seq(S)
    PROVE  AreWords(S, s, 1, Split(s))
<1> DEFINE N == Len(s) + 1
<1>1. PICK f : /\ \A p \in 1 .. N : f[p] = WordsFrom(s, f, p)
               /\ Split(s) = f[1]
  BY SplitIs
<1> DEFINE T == {p \in 1 .. N : Behind(s, p) /\ ~AreWords(S, s, p, f[p])}
<1>2. ASSUME NEW p \in 1 .. N, Behind(s, p), \A q \in T : q <= p
      PROVE  AreWords(S, s, p, f[p])
  <2> DEFINE i == WordStart(s, p)
             j == WordEnd(s, p)
  <2>1. PlacesAre(s, p, i, j)
    BY Places
  <2>2. f[p] = IF i > Len(s) THEN <<>>
               ELSE <<SubSeq(s, i, j - 1)>> \o (IF j > Len(s) THEN <<>> ELSE f[j + 1])
    BY <1>1, Zenon DEF WordsFrom
  <2> HIDE DEF i, j
  <2>3. i \in p .. N /\ (i <= Len(s) => j \in i + 1 .. N)
    BY <2>1 DEF PlacesAre, FirstLetterIs
  <2>4. CASE i > Len(s)
    <3>1. f[p] = <<>>
      BY <2>2, <2>4
    <3>2. FirstLetterIs(s, p, i)
      BY <2>1 DEF PlacesAre
    <3>3. AreWords(S, s, p, <<>>)
      BY <2>4, <3>2, NoWords
    <3>4. QED
      BY <3>1, <3>3
  <2>5. CASE i <= Len(s) /\ j > Len(s)
    <3>1. SubSeq(s, i, j - 1) \in Seq(S) /\ ~(i > Len(s))
      BY <2>3, <2>5
    <3>2. f[p] = <<SubSeq(s, i, j - 1)>> \o <<>>
      BY <2>2, <2>5, <3>1
    <3>3. f[p] = <<SubSeq(s, i, j - 1)>>
      BY <3>1, <3>2
    <3>4. AreWords(S, s, p, <<SubSeq(s, i, j - 1)>>)
      BY <1>2, <2>1, <2>5, LastWord
    <3>5. QED
      BY <3>3, <3>4
  <2>6. CASE i <= Len(s) /\ j <= Len(s)
    <3>1. ~(i > Len(s)) /\ ~(j > Len(s)) /\ j + 1 \in 1 .. N /\ ~(j + 1 <= p)
      BY <2>3, <2>6
    <3>2. f[p] = <<SubSeq(s, i, j - 1)>> \o f[j + 1]
      BY <2>2, <3>1
    <3>3. NextAndLater(s, p, i, j)
      BY <1>2, <2>1, <2>6, LaterIs
    <3>4. AreWords(S, s, j + 1, f[j + 1])
      BY <1>2, <2>6, <3>1, <3>3 DEF NextAndLater
    <3>5. AreWords(S, s, p, <<SubSeq(s, i, j - 1)>> \o f[j + 1])
      BY <1>2, <2>1, <2>6, <3>4, OneMoreWord
    <3>6. QED
      BY <3>2, <3>5
  <2>7. QED
    BY <2>3, <2>4, <2>5, <2>6
<1>3. T = {}
  <2> SUFFICES ASSUME T # {} PROVE FALSE
    OBVIOUS
  <2>1. N \in Nat /\ T \in SUBSET (1 .. N)
    OBVIOUS
  <2>2. PICK x \in T : \A y \in T : y <= x
    <3> HIDE DEF T, N
    <3> QED
      BY <2>1, LargestNumber
  <2>3. x \in 1 .. N /\ Behind(s, x) /\ ~AreWords(S, s, x, f[x])
    BY <2>2
  <2>4. QED
    BY <1>2, <2>2, <2>3
<1>4. 1 \in 1 .. N /\ Behind(s, 1)
  BY DEF Behind
<1>5. QED
  BY <1>1, <1>3, <1>4

-----------------------------------------------------------------------------
(* The function find_command is defined by.                                *)

NCmds == Len(cmd_tab)

LEMMA TableLength == NCmds = 11 /\ DOMAIN cmd_tab = 1 .. NCmds
BY DEF NCmds, cmd_tab

Turn(name, f, i) == IF i = 0 THEN NoMatch ELSE Match(f[i - 1], i, name)

Matches(name, f, n) == f = [i \in 0 .. n |-> Turn(name, f, i)]

\* What find_command makes of the state after the last turn.
Verdict(s) ==
    IF s.exact # 0 THEN [cmd |-> s.exact, said |-> "nothing"]
    ELSE CASE s.num = 0 -> [cmd |-> 0, said |-> "Invalid"]
           [] s.num = 1 -> [cmd |-> s.best, said |-> "nothing"]
           [] OTHER     -> [cmd |-> 0, said |-> "Ambiguous"]

LEMMA FindUnfold ==
    ASSUME NEW name
    PROVE  find_command(name) = Verdict((CHOOSE f : Matches(name, f, NCmds))[NCmds])
BY DEF find_command, Verdict, Matches, Turn, NCmds

LEMMA MatchesExists ==
    ASSUME NEW name
    PROVE  \A n \in Nat : \E f : Matches(name, f, n)
<1> DEFINE Some(n) == \E f : Matches(name, f, n)
           T == {n \in Nat : ~Some(n)}
<1>1. Some(0)
  <2> DEFINE f == [i \in 0 .. 0 |-> NoMatch]
  <2>1. \A i \in 0 .. 0 : Turn(name, f, i) = NoMatch
    BY DEF Turn
  <2>2. f = [i \in 0 .. 0 |-> Turn(name, f, i)]
    BY <2>1
  <2>3. QED
    BY <2>2 DEF Matches
<1>2. ASSUME NEW n \in Nat, Some(n) PROVE Some(n + 1)
  <2>1. PICK f : Matches(name, f, n)
    BY <1>2
  <2> DEFINE g == [i \in 0 .. n + 1 |->
                     IF i = n + 1 THEN Turn(name, f, n + 1) ELSE f[i]]
             dom == 0 .. n + 1
  <2>2. \A i \in 0 .. n : f[i] = Turn(name, f, i)
    BY <2>1 DEF Matches
  <2>3. \A i \in 0 .. n : g[i] = f[i]
    OBVIOUS
  <2>4. g[n + 1] = Turn(name, f, n + 1)
    OBVIOUS
  <2>5. g = [i \in dom |-> g[i]]
    OBVIOUS
  <2> HIDE DEF g
  <2>6. \A i \in dom : Turn(name, f, i) = Turn(name, g, i)
    <3> SUFFICES ASSUME NEW i \in dom PROVE Turn(name, f, i) = Turn(name, g, i)
      OBVIOUS
    <3>1. i # 0 => f[i - 1] = g[i - 1]
      BY <2>3
    <3>2. QED
      BY <3>1, Zenon DEF Turn
  <2>7. \A i \in dom : i \in 0 .. n \/ i = n + 1
    OBVIOUS
  <2>8. \A i \in dom : g[i] = Turn(name, g, i)
    BY <2>2, <2>3, <2>4, <2>6, <2>7
  <2>9. g = [i \in dom |-> Turn(name, g, i)]
    <3> HIDE DEF dom
    <3> QED
      BY <2>5, <2>8, Zenon
  <2>10. QED
    BY <2>9 DEF Matches
<1> HIDE DEF Some
<1>3. T = {}
  <2> SUFFICES ASSUME T # {} PROVE FALSE
    OBVIOUS
  <2>1. T \in SUBSET Nat
    OBVIOUS
  <2>2. PICK x \in T : \A y \in T : x <= y
    <3> HIDE DEF T
    <3> QED
      BY <2>1, LeastNumber
  <2>3. x \in Nat /\ ~Some(x) /\ x # 0
    BY <1>1
  <2>4. x - 1 \in Nat /\ ~(x <= x - 1) /\ (x - 1) + 1 = x
    BY <2>3
  <2>5. Some(x - 1)
    BY <2>2, <2>4
  <2>6. Some((x - 1) + 1)
    BY <1>2, <2>4, <2>5
  <2>7. QED
    BY <2>3, <2>4, <2>6
<1>4. \A n \in Nat : Some(n)
  BY <1>3
<1>5. QED
  BY <1>4 DEF Some

-----------------------------------------------------------------------------
(* The command that is meant.                                              *)

\* The commands among the first i that the word is, or is only a part of.
NamedTo(name, i) == {j \in 1 .. i : cmd_tab[j].name = name}
PartTo(name, i) ==
    {j \in 1 .. i : cmd_tab[j].name # name /\ IsPrefix(name, cmd_tab[j].name)}

\* The variables of find_command after i turns.
MatchInv(s, name, i) ==
    /\ s \in [exact : 0 .. i, num : Nat, best : 0 .. i]
    /\ s.exact # 0 => s.exact \in NamedTo(name, i)
    /\ s.exact = 0 => NamedTo(name, i) = {}
    /\ s.num = 0 => PartTo(name, i) = {} /\ s.best = 0
    /\ s.num # 0 => s.best \in PartTo(name, i)
    /\ s.num = 1 => PartTo(name, i) = {s.best}
    /\ s.num > 1 => \E j, k \in PartTo(name, i) : j # k

LEMMA NoMatchInv ==
    ASSUME NEW name
    PROVE  MatchInv(NoMatch, name, 0)
BY DEF MatchInv, NoMatch, NamedTo, PartTo

LEMMA MatchStep ==
    ASSUME NEW name, NEW i \in Nat, NEW s, MatchInv(s, name, i)
    PROVE  MatchInv(Match(s, i + 1, name), name, i + 1)
<1> DEFINE t == Match(s, i + 1, name)
           N == NamedTo(name, i)
           P == PartTo(name, i)
<1>1. /\ s \in [exact : 0 .. i, num : Nat, best : 0 .. i]
      /\ s.exact # 0 => s.exact \in N
      /\ s.exact = 0 => N = {}
      /\ s.num = 0 => P = {} /\ s.best = 0
      /\ s.num # 0 => s.best \in P
      /\ s.num = 1 => P = {s.best}
      /\ s.num > 1 => \E j, k \in P : j # k
  BY DEF MatchInv
<1>2. N \subseteq 1 .. i /\ P \subseteq 1 .. i
  BY DEF NamedTo, PartTo
<1>3. CASE cmd_tab[i + 1].name = name
  <2>1. t = [s EXCEPT !.exact = i + 1]
    BY <1>3 DEF Match
  <2>2. NamedTo(name, i + 1) = N \cup {i + 1}
    BY <1>3 DEF NamedTo
  <2>3. PartTo(name, i + 1) = P
    BY <1>3 DEF PartTo
  <2> HIDE DEF t, N, P
  <2>4. /\ t \in [exact : 0 .. i + 1, num : Nat, best : 0 .. i + 1]
        /\ t.exact = i + 1 /\ t.num = s.num /\ t.best = s.best
    BY <1>1, <2>1
  <2>5. MatchInv(t, name, i + 1)
    BY <1>1, <2>2, <2>3, <2>4 DEF MatchInv
  <2>6. QED
    BY <2>5 DEF t
<1>4. CASE cmd_tab[i + 1].name # name /\ IsPrefix(name, cmd_tab[i + 1].name)
  <2>1. t = [s EXCEPT !.num = @ + 1, !.best = IF @ = 0 THEN i + 1 ELSE @]
    BY <1>4, Zenon DEF Match
  <2>2. NamedTo(name, i + 1) = N
    BY <1>4 DEF NamedTo
  <2>3. PartTo(name, i + 1) = P \cup {i + 1}
    BY <1>4 DEF PartTo
  <2> HIDE DEF t, N, P
  <2>4. /\ t \in [exact : 0 .. i + 1, num : Nat, best : 0 .. i + 1]
        /\ t.exact = s.exact /\ t.num = s.num + 1
        /\ t.best = IF s.best = 0 THEN i + 1 ELSE s.best
    <3> DEFINE b == IF s.best = 0 THEN i + 1 ELSE s.best
    <3>1. b \in 0 .. i + 1 /\ s.num + 1 \in Nat
      BY <1>1
    <3>2. s \in [exact : 0 .. i + 1, num : Nat, best : 0 .. i + 1]
      BY <1>1
    <3>3. t = [s EXCEPT !.num = s.num + 1, !.best = b]
      BY <2>1
    <3> HIDE DEF b
    <3>4. /\ t \in [exact : 0 .. i + 1, num : Nat, best : 0 .. i + 1]
          /\ t.exact = s.exact /\ t.num = s.num + 1 /\ t.best = b
      BY <3>1, <3>2, <3>3
    <3>5. QED
      BY <3>4 DEF b
  <2>5. i + 1 \notin P /\ 0 \notin P
    BY <1>2
  <2>6. s.num = 0 \/ s.num > 0
    BY <1>1
  <2>7. CASE s.num = 0
    <3>1. t.best = i + 1 /\ t.num = 1 /\ PartTo(name, i + 1) = {i + 1}
      BY <1>1, <2>3, <2>4, <2>7
    <3>2. QED
      BY <1>1, <2>2, <2>4, <3>1 DEF MatchInv, t
  <2>8. CASE s.num > 0
    <3>1. s.best \in P /\ t.best = s.best /\ t.num > 1 /\ s.best # i + 1
      BY <1>1, <2>4, <2>5, <2>8
    <3>2. \E j, k \in PartTo(name, i + 1) : j # k
      BY <2>3, <3>1
    <3>3. t.best \in PartTo(name, i + 1)
      BY <2>3, <3>1
    <3>4. MatchInv(t, name, i + 1)
      BY <1>1, <2>2, <2>4, <3>1, <3>2, <3>3 DEF MatchInv
    <3>5. QED
      BY <3>4 DEF t
  <2>9. QED
    BY <2>6, <2>7, <2>8
<1>5. CASE cmd_tab[i + 1].name # name /\ ~IsPrefix(name, cmd_tab[i + 1].name)
  <2>1. t = s
    BY <1>5, Zenon DEF Match
  <2>2. NamedTo(name, i + 1) = N
    BY <1>5 DEF NamedTo
  <2>3. PartTo(name, i + 1) = P
    BY <1>5 DEF PartTo
  <2> HIDE DEF t, N, P
  <2>4. s \in [exact : 0 .. i + 1, num : Nat, best : 0 .. i + 1]
    BY <1>1
  <2>5. MatchInv(s, name, i + 1)
    BY <1>1, <2>2, <2>3, <2>4 DEF MatchInv
  <2>6. QED
    BY <2>1, <2>5 DEF t
<1>6. QED
  BY <1>3, <1>4, <1>5

\* The answer of find_command to a word, as CommandMeant has it.
Meant(name, f) ==
    /\ f.cmd \in 0 .. NCmds
    /\ f.cmd # 0 => \/ f.cmd \in Named(name)
                    \/ Named(name) = {} /\ Abbreviated(name) = {f.cmd}
    /\ f.cmd = 0 => \/ f.said = "Invalid" /\ Abbreviated(name) = {}
                    \/ /\ f.said = "Ambiguous" /\ Named(name) = {}
                       /\ Cardinality(Abbreviated(name)) > 1

LEMMA FindMeant ==
    ASSUME NEW S, NEW name \in Seq(S)
    PROVE  Meant(name, find_command(name))
<1> DEFINE f == CHOOSE g : Matches(name, g, NCmds)
           s == f[NCmds]
<1>1. NCmds \in Nat /\ DOMAIN cmd_tab = 1 .. NCmds
  BY TableLength
<1>2. Matches(name, f, NCmds)
  BY <1>1, MatchesExists
<1>3. find_command(name) = Verdict(s)
  BY FindUnfold
<1> HIDE DEF f
<1>4. \A i \in 0 .. NCmds : f[i] = Turn(name, f, i)
  BY <1>2 DEF Matches
<1> DEFINE T == {i \in 0 .. NCmds : ~MatchInv(f[i], name, i)}
<1>5. T = {}
  <2> SUFFICES ASSUME T # {} PROVE FALSE
    OBVIOUS
  <2>1. T \in SUBSET Nat
    BY <1>1
  <2>2. PICK x \in T : \A y \in T : x <= y
    <3> HIDE DEF T
    <3> QED
      BY <2>1, LeastNumber
  <2>3. x \in 0 .. NCmds /\ ~MatchInv(f[x], name, x)
    BY <2>2
  <2>4. x # 0
    <3>1. f[0] = NoMatch
      BY <1>1, <1>4 DEF Turn
    <3>2. QED
      BY <2>3, <3>1, NoMatchInv
  <2>5. x - 1 \in 0 .. NCmds /\ ~(x <= x - 1) /\ (x - 1) + 1 = x /\ x - 1 \in Nat
    BY <1>1, <2>3, <2>4
  <2>6. MatchInv(f[x - 1], name, x - 1)
    BY <2>2, <2>5
  <2>7. MatchInv(Match(f[x - 1], (x - 1) + 1, name), name, (x - 1) + 1)
    BY <2>5, <2>6, MatchStep
  <2>8. f[x] = Match(f[x - 1], x, name)
    BY <1>4, <2>3, <2>4 DEF Turn
  <2>9. QED
    BY <2>3, <2>5, <2>7, <2>8
<1>6. MatchInv(s, name, NCmds)
  BY <1>1, <1>5
<1> HIDE DEF s
<1> DEFINE N == Named(name)
           A == Abbreviated(name)
           P == PartTo(name, NCmds)
<1>7. N = NamedTo(name, NCmds)
  BY <1>1 DEF Named, NamedTo
<1>8. A = N \cup P
  <2>1. \A j \in 1 .. NCmds : cmd_tab[j].name = name => IsPrefix(name, cmd_tab[j].name)
    <3>1. IsPrefix(name, name)
      BY DEF IsPrefix
    <3>2. QED
      BY <3>1
  <2>2. QED
    BY <1>1, <2>1 DEF Named, Abbreviated, PartTo
<1>9. /\ s \in [exact : 0 .. NCmds, num : Nat, best : 0 .. NCmds]
      /\ s.exact # 0 => s.exact \in N
      /\ s.exact = 0 => N = {}
      /\ s.num = 0 => P = {} /\ s.best = 0
      /\ s.num # 0 => s.best \in P
      /\ s.num = 1 => P = {s.best}
      /\ s.num > 1 => \E j, k \in P : j # k
  BY <1>6, <1>7 DEF MatchInv
<1>10. A \subseteq 1 .. NCmds
  BY <1>1 DEF Abbreviated
<1> HIDE DEF N, A, P
<1>11. CASE s.exact # 0
  <2>1. Verdict(s).cmd = s.exact
    BY <1>11 DEF Verdict
  <2>2. Meant(name, Verdict(s))
    BY <1>9, <1>11, <2>1 DEF Meant, N
  <2>3. QED
    BY <1>3, <2>2
<1>12. CASE s.exact = 0 /\ s.num = 0
  <2>1. Verdict(s) = [cmd |-> 0, said |-> "Invalid"]
    BY <1>12 DEF Verdict
  <2>2. A = {}
    BY <1>8, <1>9, <1>12
  <2>3. Meant(name, Verdict(s))
    BY <1>1, <2>1, <2>2 DEF Meant, A
  <2>4. QED
    BY <1>3, <2>3
<1>13. CASE s.exact = 0 /\ s.num = 1
  <2>1. Verdict(s) = [cmd |-> s.best, said |-> "nothing"]
    BY <1>13 DEF Verdict
  <2>2. N = {} /\ A = {s.best}
    BY <1>8, <1>9, <1>13
  <2>3. s.best \in 1 .. NCmds
    BY <1>10, <2>2
  <2>4. Meant(name, Verdict(s))
    BY <1>1, <2>1, <2>2, <2>3 DEF Meant, A, N
  <2>5. QED
    BY <1>3, <2>4
<1>14. CASE s.exact = 0 /\ s.num > 1
  <2>1. Verdict(s) = [cmd |-> 0, said |-> "Ambiguous"]
    BY <1>9, <1>14 DEF Verdict
  <2>2. N = {} /\ \E j, k \in A : j # k
    BY <1>8, <1>9, <1>14
  <2>3. PICK j \in A, k \in A : j # k
    BY <2>2
  <2>4. IsFiniteSet(A)
    <3> DEFINE D == 1 .. NCmds
    <3>1. IsFiniteSet(D)
      BY <1>1, FS_Interval
    <3> HIDE DEF D
    <3>2. A \subseteq D
      BY <1>10 DEF D
    <3>3. QED
      BY <3>1, <3>2, FS_Subset
  <2> DEFINE Two == {j} \cup {k}
  <2>5. Cardinality(Two) = 2
    <3>1. IsFiniteSet({j}) /\ Cardinality({j}) = 1 /\ k \notin {j}
      BY <2>3, FS_Singleton
    <3>2. Cardinality({j} \cup {k}) = Cardinality({j}) + 1
      BY <3>1, FS_AddElement
    <3>3. QED
      BY <3>1, <3>2
  <2>6. Cardinality(Two) <= Cardinality(A) /\ Cardinality(A) \in Nat
    <3>1. Two \subseteq A
      BY <2>3
    <3> HIDE DEF Two
    <3>2. QED
      BY <2>4, <3>1, FS_Subset, FS_CardinalityType
  <2> HIDE DEF Two
  <2>7. Cardinality(A) > 1
    BY <2>5, <2>6
  <2>8. Meant(name, Verdict(s))
    BY <1>1, <2>1, <2>2, <2>7 DEF Meant, A, N
  <2>9. QED
    BY <1>3, <2>8
<1>15. s.num \in Nat
  BY <1>9
<1>16. QED
  BY <1>11, <1>12, <1>13, <1>14, <1>15

-----------------------------------------------------------------------------
(* The inductive invariant.                                                *)

InLines == UNION {Char(l) : l \in Lines}
Letter == InLines \cup {NewLine}
Text == Seq(Letter)

VarsOK ==
    /\ opts \in [d : 0 .. 2, h : 0 .. 2, c : BOOLEAN]
    /\ stdin \in Text /\ line \in Text /\ typed \in Text /\ argv \in Seq(Text)

\* Where the program is and what it has.
PlaceInv ==
    /\ pc \in {"getopt", "create"} => icb = "none"
    /\ pc = "create" => ~Usage(opts)
    /\ pc \in {"fgets", "parse", "handler", "destroy"} => icb = "connected"

\* What was typed is a line, with or without the newline at its end.
TypedInv == typed = <<>> \/ \E l \in Lines : typed = l \/ typed = Append(l, NewLine)

\* The input is a rest of it; one that has room in the buffer is taken all
\* at once.
RestInv ==
    /\ Len(stdin) <= Len(typed)
    /\ stdin = SubSeq(typed, (Len(typed) - Len(stdin)) + 1, Len(typed))
    /\ Len(typed) < LineSize => stdin = <<>> \/ stdin = typed

\* What parse_cmd is given, and what it leaves for the handler.
LineInv ==
    pc = "parse" /\ ~opts.c =>
        LET taken == Len(typed) - Len(stdin)
        IN  /\ line = SubSeq(typed, taken - Len(line) + 1, taken)
            /\ stdin = SubSeq(typed, taken + 1, Len(typed))
            /\ Len(typed) < LineSize => line = typed

HandlerInv ==
    pc = "handler" =>
        argv = Split(line) /\ argv # <<>> /\ cmd # 0 /\ Len(argv) = cmd_tab[cmd].nargs

ShellInv ==
    /\ TypeOK /\ VarsOK /\ PlaceInv /\ TypedInv /\ RestInv /\ LineInv
    /\ HandlerInv /\ CommandMeant

-----------------------------------------------------------------------------
(* Lines.                                                                  *)

LEMMA LinesAreText ==
    ASSUME NEW l \in Lines
    PROVE  l \in Text /\ \A k \in 1 .. Len(l) : l[k] # NewLine
<1>1. l \in Seq(Char(l)) /\ NewLine \notin Char(l)
  BY LineAssumption
<1>2. Char(l) \subseteq Letter
  BY DEF Letter, InLines
<1>3. \A k \in 1 .. Len(l) : l[k] \in Char(l)
  BY <1>1
<1>4. l \in Text
  BY <1>1, <1>2 DEF Text
<1>5. QED
  BY <1>1, <1>3, <1>4

LEMMA TypedAreText ==
    ASSUME NEW l \in Lines
    PROVE  LET t == Append(l, NewLine)
           IN  /\ t \in Text /\ Len(t) = Len(l) + 1
               /\ \A k \in 1 .. Len(t) - 1 : t[k] # NewLine
<1> DEFINE t == Append(l, NewLine)
<1>1. l \in Text /\ \A k \in 1 .. Len(l) : l[k] # NewLine
  BY LinesAreText
<1>2. NewLine \in Letter
  BY DEF Letter
<1>3. l \in Seq(Letter)
  BY <1>1 DEF Text
<1>4. /\ t \in Seq(Letter) /\ Len(t) = Len(l) + 1 /\ t[Len(l) + 1] = NewLine
      /\ \A k \in 1 .. Len(l) : t[k] = l[k]
  BY <1>2, <1>3
<1> HIDE DEF t
<1>5. Len(l) \in Nat
  BY <1>3
<1>6. \A k \in 1 .. Len(t) - 1 : t[k] # NewLine
  BY <1>1, <1>4, <1>5
<1>7. QED
  BY <1>4, <1>6 DEF t, Text

LEMMA EmptyText == <<>> \in Text
BY DEF Text

\* A newline can only be the last of what was typed.
LEMMA TypedFacts ==
    ASSUME TypedInv
    PROVE  /\ typed \in Text
           /\ \A k \in 1 .. Len(typed) - 1 : typed[k] # NewLine
<1>1. CASE typed = <<>>
  <2>1. Len(typed) = 0
    BY <1>1
  <2>2. QED
    BY <1>1, <2>1, EmptyText
<1>2. ASSUME NEW l \in Lines, typed = l
      PROVE  /\ typed \in Text
             /\ \A k \in 1 .. Len(typed) - 1 : typed[k] # NewLine
  <2>1. l \in Text /\ \A k \in 1 .. Len(l) : l[k] # NewLine
    BY LinesAreText
  <2>2. Len(l) \in Nat
    BY <2>1 DEF Text
  <2>3. QED
    BY <1>2, <2>1, <2>2
<1>3. ASSUME NEW l \in Lines, typed = Append(l, NewLine)
      PROVE  /\ typed \in Text
             /\ \A k \in 1 .. Len(typed) - 1 : typed[k] # NewLine
  BY <1>3, TypedAreText
<1>4. QED
  BY <1>1, <1>2, <1>3 DEF TypedInv

LEMMA PartText ==
    ASSUME NEW s \in Text, NEW k \in Nat, NEW n \in Nat, k + n <= Len(s)
    PROVE  SubSeq(s, k + 1, k + n) \in Text /\ Len(SubSeq(s, k + 1, k + n)) = n
<1>1. s \in Seq(Letter) /\ Len(s) \in Nat
  BY DEF Text
<1>2. QED
  BY <1>1 DEF Text

LEMMA SameMembers ==
    ASSUME NEW S, NEW a \in Seq(S), NEW b \in Seq(S), Len(a) = Len(b),
           \A m \in 1 .. Len(a) : a[m] = b[m]
    PROVE  a = b
OBVIOUS

\* u is what s has from p + 1 to q.
PartIs(S, s, u, p, q) ==
    /\ u \in Seq(S) /\ Len(u) = q - p
    /\ \A m \in 1 .. q - p : u[m] = s[p + m]

LEMMA Part ==
    ASSUME NEW S, NEW s \in Seq(S), NEW p \in Nat, NEW q \in Nat,
           p <= q, q <= Len(s)
    PROVE  PartIs(S, s, SubSeq(s, p + 1, q), p, q)
BY DEF PartIs

\* The beginning and the end of a rest.
LEMMA RestParts ==
    ASSUME NEW S, NEW s \in Seq(S), NEW k \in 0 .. Len(s),
           NEW r, r = SubSeq(s, k + 1, Len(s)), NEW n \in 0 .. Len(s) - k
    PROVE  /\ SubSeq(r, 1, n) = SubSeq(s, k + 1, k + n)
           /\ SubSeq(r, n + 1, Len(r)) = SubSeq(s, (k + n) + 1, Len(s))
           /\ Len(SubSeq(s, (k + n) + 1, Len(s))) = Len(s) - (k + n)
<1> DEFINE a == SubSeq(r, 1, n)
           b == SubSeq(s, k + 1, k + n)
           c == SubSeq(r, n + 1, Len(r))
           d == SubSeq(s, (k + n) + 1, Len(s))
           z == Len(s)
<1>0. z \in Nat /\ k \in Nat /\ n \in Nat /\ k + n \in Nat /\ k <= z /\ k + n <= z
  OBVIOUS
<1> HIDE DEF z
<1>1. r \in Seq(S) /\ Len(r) = z - k /\ \A m \in 1 .. z - k : r[m] = s[k + m]
  <2>1. PartIs(S, s, SubSeq(s, k + 1, z), k, z)
    BY <1>0, Part DEF z
  <2>2. QED
    BY <2>1 DEF PartIs, z
<1>2. a \in Seq(S) /\ Len(a) = n /\ \A m \in 1 .. n : a[m] = r[m]
  <2>1. n <= Len(r)
    BY <1>0, <1>1
  <2>2. QED
    BY <1>0, <1>1, <2>1
<1>3. b \in Seq(S) /\ Len(b) = n /\ \A m \in 1 .. n : b[m] = s[k + m]
  <2>1. PartIs(S, s, b, k, k + n)
    BY <1>0, Part DEF z
  <2>2. (k + n) - k = n
    BY <1>0
  <2> HIDE DEF b
  <2>3. QED
    BY <2>1, <2>2 DEF PartIs
<1>4. /\ c \in Seq(S) /\ Len(c) = (z - k) - n
      /\ \A m \in 1 .. (z - k) - n : c[m] = r[n + m]
  <2>1. Len(r) \in Nat /\ n <= Len(r)
    BY <1>0, <1>1
  <2>2. PartIs(S, r, c, n, Len(r))
    <3>1. r \in Seq(S) /\ n \in Nat /\ Len(r) <= Len(r)
      BY <1>0, <1>1, <2>1
    <3>2. QED
      BY <2>1, <3>1, Part
  <2> HIDE DEF c
  <2>3. QED
    BY <1>1, <2>2 DEF PartIs
<1>5. /\ d \in Seq(S) /\ Len(d) = (z - k) - n
      /\ \A m \in 1 .. (z - k) - n : d[m] = s[(k + n) + m]
  <2>1. PartIs(S, s, d, k + n, z)
    BY <1>0, Part DEF z
  <2>2. z - (k + n) = (z - k) - n
    BY <1>0
  <2> HIDE DEF d
  <2>3. QED
    BY <2>1, <2>2 DEF PartIs
<1> HIDE DEF a, b, c, d
<1>6. a = b
  <2>1. \A m \in 1 .. n : m \in 1 .. z - k
    BY <1>0
  <2>2. \A m \in 1 .. n : a[m] = b[m]
    BY <1>1, <1>2, <1>3, <2>1
  <2>3. QED
    BY <1>2, <1>3, <2>2, SameMembers
<1>7. c = d
  <2>1. \A m \in 1 .. (z - k) - n : c[m] = d[m]
    <3> SUFFICES ASSUME NEW m \in 1 .. (z - k) - n PROVE c[m] = d[m]
      OBVIOUS
    <3>1. n + m \in 1 .. z - k /\ k + (n + m) = (k + n) + m
      BY <1>0
    <3>2. c[m] = r[n + m]
      BY <1>4
    <3>3. r[n + m] = s[k + (n + m)]
      BY <1>1, <3>1
    <3>4. d[m] = s[(k + n) + m]
      BY <1>5
    <3>5. QED
      BY <3>1, <3>2, <3>3, <3>4
  <2>2. c \in Seq(S) /\ d \in Seq(S) /\ Len(c) = Len(d)
    BY <1>4, <1>5
  <2>3. \A m \in 1 .. Len(c) : c[m] = d[m]
    BY <1>4, <2>1
  <2>4. QED
    BY <2>2, <2>3, SameMembers
<1>8. Len(d) = z - (k + n)
  <2>1. Len(d) = (z - k) - n
    BY <1>5
  <2>2. (z - k) - n = z - (k + n)
    BY <1>0
  <2>3. QED
    BY <2>1, <2>2
<1>9. QED
  BY <1>6, <1>7, <1>8, Zenon DEF a, b, c, d, z

\* fgets takes some characters, all there are or as many as have room.
ChunkIs(n) ==
    /\ n \in 1 .. Len(stdin) /\ n <= Room /\ (n = Len(stdin) \/ n = Room)
    /\ Chunk = SubSeq(stdin, 1, n)

LEMMA ChunkFacts ==
    ASSUME stdin \in Text, stdin # <<>>,
           \A k \in 1 .. Len(stdin) - 1 : stdin[k] # NewLine
    PROVE  \E n \in 1 .. Len(stdin) : ChunkIs(n)
<1> DEFINE Stops(i) == /\ \A j \in 1 .. i - 1 : stdin[j] # NewLine
                       /\ i \in {Len(stdin), Room} \/ (i > 0 /\ stdin[i] = NewLine)
                       /\ i <= Room
           n == CHOOSE i \in 0 .. Len(stdin) : Stops(i)
           least == IF Len(stdin) <= Room THEN Len(stdin) ELSE Room
<1>1. stdin \in Seq(Letter) /\ Len(stdin) \in Nat /\ Len(stdin) >= 1
  BY DEF Text
<1>2. Room \in Nat /\ Room >= 1
  BY LineAssumption DEF Room
<1>3. least \in 0 .. Len(stdin) /\ Stops(least)
  BY <1>1, <1>2
<1>4. n \in 0 .. Len(stdin) /\ Stops(n)
  <2> HIDE DEF Stops
  <2> QED
    BY <1>3
<1>5. Chunk = SubSeq(stdin, 1, n)
  BY DEF Chunk
<1> HIDE DEF n
<1>6. /\ n <= Room
      /\ n = Len(stdin) \/ n = Room \/ (n > 0 /\ stdin[n] = NewLine)
  BY <1>4
<1>7. ASSUME n > 0, stdin[n] = NewLine PROVE n = Len(stdin)
  <2>1. ~(n \in 1 .. Len(stdin) - 1)
    BY <1>7
  <2>2. QED
    BY <1>1, <1>4, <1>7, <2>1
<1>8. n = Len(stdin) \/ n = Room
  BY <1>6, <1>7
<1>9. n \in 1 .. Len(stdin)
  BY <1>1, <1>2, <1>4, <1>8
<1>10. ChunkIs(n)
  BY <1>5, <1>6, <1>8, <1>9 DEF ChunkIs
<1>11. QED
  BY <1>9, <1>10

-----------------------------------------------------------------------------
(* The steps.                                                              *)

LEMMA InitInv == Init => ShellInv
<1> SUFFICES ASSUME Init PROVE ShellInv
  OBVIOUS
<1>1. <<>> \in Text /\ <<>> \in Seq(Text) /\ Len(<<>>) = 0
  BY EmptyText
<1>2. LineSize \in Nat /\ LineSize > 1 /\ MaxLines \in Nat
  BY LineAssumption
<1>3. NCmds \in Nat
  BY TableLength
<1>4. TypeOK
  <2>1. Len(line) < LineSize /\ 2 * Len(argv) <= LineSize
    BY <1>1, <1>2 DEF Init
  <2>2. cmd \in 0 .. Len(cmd_tab)
    BY <1>3 DEF Init, NCmds
  <2>3. lines \in 0 .. MaxLines
    BY <1>2 DEF Init
  <2>4. eof \in BOOLEAN /\ broken \in BOOLEAN
    BY DEF Init
  <2>5. QED
    BY <2>1, <2>2, <2>3, <2>4 DEF TypeOK, Init
<1>5. VarsOK
  BY <1>1 DEF VarsOK, Init, NoOpts
<1>6. RestInv
  <2>1. SubSeq(<<>>, 1, 0) = <<>>
    OBVIOUS
  <2>2. QED
    BY <1>1, <2>1 DEF RestInv, Init
<1>7. QED
  BY <1>4, <1>5, <1>6 DEF ShellInv, PlaceInv, TypedInv, LineInv, HandlerInv, CommandMeant, Init

\* What was said about no command is not changed by the step.
LEMMA SameAnswer ==
    ASSUME CommandMeant, UNCHANGED <<argv, cmd, said>>
    PROVE  CommandMeant'
BY Zenon DEF CommandMeant

LEMMA OneWay ==
    ASSUME opts \in [d : 0 .. 2, h : 0 .. 2, c : BOOLEAN], ~Usage(opts)
    PROVE  (opts.d > 0) # (opts.h > 0)
BY DEF Usage

LEMMA GetoptInv ==
    ASSUME ShellInv, Getopt
    PROVE  ShellInv'
<1>1. PICK d \in 0 .. 2, h \in 0 .. 2, c \in BOOLEAN, bad \in BOOLEAN :
        /\ opts' = [d |-> d, h |-> h, c |-> c]
        /\ pc' = IF bad \/ Usage(opts') THEN "exit" ELSE "create"
        /\ line' \in IF c /\ pc' = "create" THEN Lines ELSE {<<>>}
  BY DEF Getopt
<1>2. /\ pc = "getopt" /\ icb = "none" /\ icb' = "none"
      /\ UNCHANGED <<stdin, eof, broken, argv, cmd, said, typed, lines>>
  BY DEF Getopt, ShellInv, PlaceInv
<1>3. pc' = "exit" \/ (pc' = "create" /\ ~Usage(opts'))
  <2>1. CASE bad \/ Usage(opts')
    BY <1>1, <2>1, Zenon
  <2>2. CASE ~(bad \/ Usage(opts'))
    BY <1>1, <2>2, Zenon
  <2>3. QED
    BY <2>1, <2>2, Zenon
<1>4. line' \in Lines \/ line' = <<>>
  BY <1>1, Zenon
<1>5. pc' = "exit" => line' = <<>>
  <2> SUFFICES ASSUME pc' = "exit" PROVE line' = <<>>
    OBVIOUS
  <2>1. ~(c /\ pc' = "create")
    OBVIOUS
  <2>2. line' \in {<<>>}
    BY <1>1, <2>1, Zenon
  <2>3. QED
    BY <2>2
<1>6. line' \in Text
  BY <1>4, LinesAreText, EmptyText
<1>7. opts' \in [d : 0 .. 2, h : 0 .. 2, c : BOOLEAN]
  BY <1>1, Zenon
<1>8. TypeOK'
  <2>1. Len(line') < LineSize \/ pc' = "create"
    <3>1. Len(<<>>) = 0 /\ 0 < LineSize
      BY LineAssumption
    <3>2. QED
      BY <1>3, <1>5, <3>1
  <2>2. /\ 2 * Len(argv') <= LineSize /\ cmd' \in 0 .. Len(cmd_tab)
        /\ said' \in {"nothing", "Invalid", "Ambiguous", "Incorrect number",
                      "succeeded", "error"}
        /\ eof' \in BOOLEAN /\ broken' \in BOOLEAN /\ lines' \in 0 .. MaxLines
    BY <1>2, Zenon DEF ShellInv, TypeOK
  <2>3. /\ pc' \in {"getopt", "create", "fgets", "parse", "handler", "destroy", "exit"}
        /\ icb' \in {"none", "connected", "destroyed"} /\ icb' # "connected"
    BY <1>2, <1>3
  <2>4. QED
    BY <1>2, <2>1, <2>2, <2>3, Zenon DEF TypeOK
<1>9. VarsOK'
  BY <1>2, <1>6, <1>7, Zenon DEF ShellInv, VarsOK
<1>10. PlaceInv'
  BY <1>2, <1>3 DEF PlaceInv
<1>11. TypedInv' /\ RestInv'
  BY <1>2, Zenon DEF ShellInv, TypedInv, RestInv
<1>12. LineInv' /\ HandlerInv'
  BY <1>3 DEF LineInv, HandlerInv
<1>13. CommandMeant'
  BY <1>2, SameAnswer DEF ShellInv
<1>14. QED
  BY <1>8, <1>9, <1>10, <1>11, <1>12, <1>13 DEF ShellInv

LEMMA CreateInv ==
    ASSUME ShellInv, Create
    PROVE  ShellInv'
<1>1. /\ pc = "create" /\ icb = "none" /\ ~Usage(opts)
      /\ UNCHANGED <<opts, stdin, eof, broken, argv, cmd, said, typed, lines>>
  BY DEF Create, ShellInv, PlaceInv
<1>2. \/ icb' = "connected" /\ ((pc' = "parse" /\ opts.c) \/ (pc' = "fgets" /\ ~opts.c))
      \/ pc' = "exit" /\ icb' = "none"
  <2>1. \/ icb' = "connected" /\ pc' = (IF opts.c THEN "parse" ELSE "fgets")
        \/ pc' = "exit" /\ icb' = icb
    BY DEF Create
  <2>2. CASE opts.c
    <3>1. (IF opts.c THEN "parse" ELSE "fgets") = "parse"
      BY <2>2
    <3>2. (icb' = "connected" /\ pc' = "parse") \/ (pc' = "exit" /\ icb' = icb)
      BY <2>1, <3>1, Zenon
    <3>3. QED
      BY <1>1, <2>2, <3>2
  <2>3. CASE ~opts.c
    BY <1>1, <2>1, <2>3, Zenon
  <2>4. QED
    BY <2>2, <2>3, Zenon
<1> DEFINE n == IF Len(line) < LineSize THEN Len(line) ELSE LineSize - 1
<1>3. line' = SubSeq(line, 1, n)
  BY DEF Create
<1>4. line \in Text /\ Len(line) \in Nat
  BY DEF ShellInv, VarsOK, Text
<1>5. LineSize \in Nat /\ LineSize > 1
  BY LineAssumption
<1>6. n \in Nat /\ n <= Len(line) /\ n < LineSize /\ 0 + n = n /\ 0 + 1 = 1
  BY <1>4, <1>5
<1> HIDE DEF n
<1>7. line' \in Text /\ Len(line') < LineSize
  <2>1. /\ SubSeq(line, 0 + 1, 0 + n) \in Text /\ Len(SubSeq(line, 0 + 1, 0 + n)) = n
    <3>1. 0 \in Nat /\ 0 + n <= Len(line)
      BY <1>6
    <3>2. QED
      BY <1>4, <1>6, <3>1, PartText
  <2>2. QED
    BY <1>3, <1>6, <2>1
<1>8. (opts.d > 0) # (opts.h > 0)
  BY <1>1, OneWay DEF ShellInv, VarsOK
<1>9. TypeOK'
  <2>1. /\ 2 * Len(argv') <= LineSize /\ cmd' \in 0 .. Len(cmd_tab)
        /\ said' \in {"nothing", "Invalid", "Ambiguous", "Incorrect number",
                      "succeeded", "error"}
        /\ eof' \in BOOLEAN /\ broken' \in BOOLEAN /\ lines' \in 0 .. MaxLines
    BY <1>1, Zenon DEF ShellInv, TypeOK
  <2>2. /\ pc' \in {"getopt", "create", "fgets", "parse", "handler", "destroy", "exit"}
        /\ icb' \in {"none", "connected", "destroyed"}
        /\ pc' = "exit" => icb' # "connected"
    BY <1>2
  <2>3. QED
    BY <1>1, <1>7, <1>8, <2>1, <2>2, Zenon DEF TypeOK
<1>10. VarsOK'
  BY <1>1, <1>7, Zenon DEF ShellInv, VarsOK
<1>11. PlaceInv'
  BY <1>2 DEF PlaceInv
<1>12. TypedInv' /\ RestInv'
  BY <1>1, Zenon DEF ShellInv, TypedInv, RestInv
<1>13. LineInv' /\ HandlerInv'
  BY <1>1, <1>2 DEF LineInv, HandlerInv
<1>14. CommandMeant'
  BY <1>1, SameAnswer DEF ShellInv
<1>15. QED
  BY <1>9, <1>10, <1>11, <1>12, <1>13, <1>14 DEF ShellInv

LEMMA FgetsInv ==
    ASSUME ShellInv, Fgets
    PROVE  ShellInv'
<1>1. /\ pc = "fgets" /\ stdin # <<>> /\ icb = "connected"
      /\ UNCHANGED <<opts, icb, eof, broken, argv, cmd, said, typed, lines>>
  BY DEF Fgets, ShellInv, PlaceInv
<1>2. pc' = "fgets" \/ pc' = "parse"
  BY Zenon DEF Fgets
<1> DEFINE k == Len(typed) - Len(stdin)
<1>3. /\ typed \in Text
      /\ \A m \in 1 .. Len(typed) - 1 : typed[m] # NewLine
  BY TypedFacts DEF ShellInv
<1>4. /\ typed \in Seq(Letter) /\ Len(typed) \in Nat
      /\ stdin \in Text /\ stdin \in Seq(Letter) /\ Len(stdin) \in Nat
  BY <1>3 DEF ShellInv, VarsOK, Text
<1>5. Len(stdin) <= Len(typed) /\ stdin = SubSeq(typed, k + 1, Len(typed))
  BY DEF ShellInv, RestInv
<1>6. Len(typed) < LineSize => stdin = typed
  BY <1>1 DEF ShellInv, RestInv
<1>7. k \in 0 .. Len(typed) /\ k \in Nat /\ Len(typed) - k = Len(stdin)
  BY <1>4, <1>5
<1> HIDE DEF k
<1>8. \A m \in 1 .. Len(stdin) - 1 : stdin[m] # NewLine
  <2> SUFFICES ASSUME NEW m \in 1 .. Len(stdin) - 1 PROVE stdin[m] # NewLine
    OBVIOUS
  <2>1. k + m \in 1 .. Len(typed) - 1
    BY <1>4, <1>7
  <2>2. stdin[m] = typed[k + m]
    BY <1>4, <1>5, <1>7
  <2>3. QED
    BY <1>3, <2>1, <2>2
<1>9. PICK n \in 1 .. Len(stdin) : ChunkIs(n)
  BY <1>1, <1>4, <1>8, ChunkFacts
<1>10. /\ n <= Room /\ (n = Len(stdin) \/ n = Room)
       /\ Chunk = SubSeq(stdin, 1, n)
  BY <1>9 DEF ChunkIs
<1>11. Room \in Nat /\ Room = LineSize - 1 /\ LineSize \in Nat /\ LineSize > 1
  BY LineAssumption DEF Room
<1>12. /\ n \in Nat /\ n \in 0 .. Len(typed) - k /\ k + n <= Len(typed) /\ n < LineSize
  BY <1>4, <1>7, <1>10, <1>11
<1> DEFINE c == SubSeq(typed, k + 1, k + n)
           r == SubSeq(typed, (k + n) + 1, Len(typed))
<1>13. /\ SubSeq(stdin, 1, n) = c
       /\ SubSeq(stdin, n + 1, Len(stdin)) = r
       /\ Len(r) = Len(typed) - (k + n)
  BY <1>4, <1>5, <1>7, <1>12, RestParts
<1>14. c \in Text /\ Len(c) = n
  BY <1>3, <1>7, <1>12, PartText
<1>15. line' = c /\ stdin' = r
  <2>1. Chunk = c /\ Len(Chunk) = n
    BY <1>10, <1>13, <1>14
  <2> HIDE DEF c, r
  <2>2. line' = Chunk /\ stdin' = SubSeq(stdin, Len(Chunk) + 1, Len(stdin))
    BY DEF Fgets
  <2>3. QED
    BY <1>13, <2>1, <2>2
<1>16. r \in Text
  BY <1>4, <1>7, <1>12 DEF Text
<1>17. /\ Len(typed) - Len(r) = k + n /\ (k + n) - Len(c) + 1 = k + 1
       /\ Len(r) <= Len(typed)
  <2> HIDE DEF c, r
  <2> QED
    BY <1>4, <1>7, <1>12, <1>13, <1>14
<1>18. Len(typed) < LineSize => c = typed /\ r = <<>>
  <2> SUFFICES ASSUME Len(typed) < LineSize PROVE c = typed /\ r = <<>>
    OBVIOUS
  <2>1. Len(stdin) = Len(typed)
    BY <1>6
  <2>2. k = 0 /\ n = Len(typed)
    BY <1>4, <1>7, <1>10, <1>11, <1>12, <2>1
  <2>3. k + 1 = 1 /\ k + n = Len(typed)
    BY <1>4, <2>2
  <2>4. c = SubSeq(typed, 1, Len(typed))
    BY <2>3
  <2>5. Len(r) = 0
    BY <1>4, <1>13, <2>3
  <2>6. SubSeq(typed, 1, Len(typed)) = typed
    BY <1>4
  <2>7. r \in Seq(Letter)
    BY <1>16 DEF Text
  <2>8. r = <<>>
    <3> HIDE DEF r
    <3> QED
      BY <2>5, <2>7
  <2>9. QED
    BY <2>4, <2>6, <2>8, Zenon
<1>19. TypeOK'
  <2>1. /\ 2 * Len(argv') <= LineSize /\ cmd' \in 0 .. Len(cmd_tab)
        /\ said' \in {"nothing", "Invalid", "Ambiguous", "Incorrect number",
                      "succeeded", "error"}
        /\ eof' \in BOOLEAN /\ broken' \in BOOLEAN /\ lines' \in 0 .. MaxLines
        /\ icb' \in {"none", "connected", "destroyed"}
        /\ icb' # "none" => (opts'.d > 0) # (opts'.h > 0)
    BY <1>1, Zenon DEF ShellInv, TypeOK
  <2>2. /\ pc' \in {"getopt", "create", "fgets", "parse", "handler", "destroy", "exit"}
        /\ pc' # "exit"
    BY <1>2
  <2>3. Len(line') < LineSize
    BY <1>12, <1>14, <1>15
  <2>4. QED
    BY <2>1, <2>2, <2>3, Zenon DEF TypeOK
<1> HIDE DEF c, r
<1>20. VarsOK'
  BY <1>1, <1>14, <1>15, <1>16, Zenon DEF ShellInv, VarsOK
<1>21. PlaceInv'
  BY <1>1, <1>2 DEF PlaceInv
<1>22. TypedInv'
  BY <1>1, Zenon DEF ShellInv, TypedInv
<1>23. typed' = typed /\ r = SubSeq(typed, (k + n) + 1, Len(typed))
  BY <1>1 DEF r
<1>24. c = SubSeq(typed, k + 1, k + n)
  BY DEF c
<1>25. RestInv'
  BY <1>15, <1>17, <1>18, <1>23, Zenon DEF RestInv
<1>26. LineInv'
  BY <1>15, <1>17, <1>18, <1>23, <1>24, Zenon DEF LineInv
<1>27. HandlerInv'
  BY <1>2 DEF HandlerInv
<1>28. CommandMeant'
  BY <1>1, SameAnswer DEF ShellInv
<1>29. QED
  BY <1>19, <1>20, <1>21, <1>22, <1>25, <1>26, <1>27, <1>28 DEF ShellInv

\* Between two words there is a space.
LEMMA SplitText ==
    ASSUME NEW s \in Text
    PROVE  /\ Split(s) \in Seq(Text) /\ Len(Split(s)) \in Nat
           /\ 2 * Len(Split(s)) <= Len(s) + 1
<1> DEFINE a == Split(s)
<1>1. s \in Seq(Letter) /\ Len(s) \in Nat
  BY DEF Text
<1>2. AreWords(Letter, s, 1, a)
  BY <1>1, SplitGivesWords
<1> HIDE DEF a
<1>3. a \in Seq(Seq(Letter)) /\ Len(a) \in Nat /\ 2 * Len(a) <= (Len(s) - 1) + 2
  BY <1>2 DEF AreWords
<1>4. 2 * Len(a) <= Len(s) + 1
  BY <1>1, <1>3
<1>5. QED
  BY <1>3, <1>4 DEF a, Text

LEMMA ParseInv ==
    ASSUME ShellInv, Parse
    PROVE  ShellInv'
<1>1. /\ pc = "parse" /\ icb = "connected" /\ argv' = Split(line)
      /\ UNCHANGED <<opts, icb, stdin, eof, broken, line, typed, lines>>
  BY DEF Parse, ShellInv, PlaceInv
<1>2. argv' \in Seq(Text) /\ 2 * Len(argv') <= LineSize
  <2>1. line \in Text /\ Len(line) < LineSize
    BY <1>1 DEF ShellInv, VarsOK, TypeOK
  <2>2. argv' \in Seq(Text) /\ Len(argv') \in Nat /\ 2 * Len(argv') <= Len(line) + 1
    BY <1>1, <2>1, SplitText
  <2>3. LineSize \in Nat /\ Len(line) \in Nat
    BY <2>1, LineAssumption DEF Text
  <2>4. QED
    BY <2>1, <2>2, <2>3
<1>3. Next_line \in {"destroy", "fgets"}
  BY DEF Next_line
<1> DEFINE f == find_command(argv'[1])
           Answers == {"nothing", "Invalid", "Ambiguous", "Incorrect number",
                       "succeeded", "error"}
<1>4. NCmds \in Nat /\ NCmds = Len(cmd_tab)
  BY TableLength DEF NCmds
<1>5. /\ pc' \in {"destroy", "fgets", "handler"} /\ cmd' \in 0 .. NCmds
      /\ said' \in Answers /\ CommandMeant'
      /\ pc' = "handler" =>
            argv' # <<>> /\ cmd' # 0 /\ Len(argv') = cmd_tab[cmd'].nargs
  <2>1. CASE argv' = <<>>
    <3>1. pc' = Next_line /\ cmd' = 0 /\ said' = "nothing"
      BY <2>1 DEF Parse
    <3>2. CommandMeant'
      BY <2>1 DEF CommandMeant
    <3>3. QED
      BY <1>3, <1>4, <3>1, <3>2
  <2>2. CASE argv' # <<>>
    <3>1. argv'[1] \in Seq(Letter)
      BY <1>2, <2>2 DEF Text
    <3>2. Meant(argv'[1], f)
      BY <3>1, FindMeant
    <3>3. /\ cmd' = f.cmd
          /\ IF f.cmd # 0 /\ cmd_tab[f.cmd].nargs = Len(argv')
             THEN pc' = "handler" /\ said' = "nothing"
             ELSE /\ pc' = Next_line
                  /\ said' = IF f.cmd = 0 THEN f.said ELSE "Incorrect number"
      BY <2>2 DEF Parse
    <3> HIDE DEF f
    <3>4. /\ f.cmd \in 0 .. NCmds
          /\ f.cmd # 0 => \/ f.cmd \in Named(argv'[1])
                          \/ /\ Named(argv'[1]) = {}
                             /\ Abbreviated(argv'[1]) = {f.cmd}
          /\ f.cmd = 0 => \/ f.said = "Invalid" /\ Abbreviated(argv'[1]) = {}
                          \/ /\ f.said = "Ambiguous" /\ Named(argv'[1]) = {}
                             /\ Cardinality(Abbreviated(argv'[1])) > 1
      BY <3>2 DEF Meant
    <3>5. /\ f.cmd = 0 => said' = f.said
          /\ f.cmd # 0 => said' = "nothing" \/ said' = "Incorrect number"
      BY <3>3, Zenon
    <3>6. /\ pc' \in {"destroy", "fgets", "handler"}
          /\ pc' = "handler" => cmd' # 0 /\ Len(argv') = cmd_tab[cmd'].nargs
      BY <1>3, <3>3
    <3>7. said' \in Answers
      BY <3>4, <3>5
    <3>8. CommandMeant'
      <4> DEFINE N == Named(argv'[1])
                 A == Abbreviated(argv'[1])
      <4>1. /\ cmd' # 0 => cmd' \in N \/ (N = {} /\ A = {cmd'})
            /\ said' = "Invalid" => A = {}
            /\ said' = "Ambiguous" => N = {} /\ Cardinality(A) > 1
            /\ cmd' = 0 => said' \in {"Invalid", "Ambiguous"}
        <5>1. cmd' = f.cmd
          BY <3>3
        <5> HIDE DEF N, A
        <5>2. CASE f.cmd # 0
          BY <3>4, <3>5, <5>1, <5>2 DEF N, A
        <5>3. CASE f.cmd = 0
          BY <3>4, <3>5, <5>1, <5>3 DEF N, A
        <5>4. QED
          BY <5>2, <5>3
      <4>2. QED
        BY <4>1, Zenon DEF CommandMeant
    <3>9. QED
      BY <2>2, <3>3, <3>4, <3>6, <3>7, <3>8
  <2>3. QED
    BY <2>1, <2>2
<1>6. TypeOK'
  <2>1. /\ eof' \in BOOLEAN /\ broken' \in BOOLEAN /\ lines' \in 0 .. MaxLines
        /\ icb' \in {"none", "connected", "destroyed"}
        /\ icb' # "none" => (opts'.d > 0) # (opts'.h > 0)
    BY <1>1, Zenon DEF ShellInv, TypeOK
  <2>2. /\ pc' \in {"getopt", "create", "fgets", "parse", "handler", "destroy", "exit"}
        /\ pc' # "exit"
    BY <1>5
  <2>3. Len(line') < LineSize
    BY <1>1 DEF ShellInv, TypeOK
  <2>4. cmd' \in 0 .. Len(cmd_tab)
    BY <1>4, <1>5
  <2>5. QED
    BY <1>2, <1>5, <2>1, <2>2, <2>3, <2>4, Zenon DEF TypeOK
<1>7. VarsOK'
  BY <1>1, <1>2, Zenon DEF ShellInv, VarsOK
<1>8. PlaceInv'
  BY <1>1, <1>5 DEF PlaceInv
<1>9. TypedInv' /\ RestInv'
  BY <1>1, Zenon DEF ShellInv, TypedInv, RestInv
<1>10. LineInv'
  BY <1>5 DEF LineInv
<1>11. HandlerInv'
  BY <1>1, <1>5, Zenon DEF HandlerInv
<1>12. QED
  BY <1>5, <1>6, <1>7, <1>8, <1>9, <1>10, <1>11 DEF ShellInv

\* A step that leaves the line, the input and the options alone and is no
\* call of a handler.
Quietly ==
    /\ UNCHANGED <<opts, line, stdin, typed, argv, lines, broken, cmd>>
    /\ eof' \in BOOLEAN
    /\ pc' \in {"fgets", "destroy", "exit"}
    /\ pc' \in {"fgets", "destroy"} => icb' = "connected"
    /\ pc' = "exit" => icb' = "destroyed"

LEMMA QuietlyInv ==
    ASSUME ShellInv, Quietly, icb = "connected", pc # "create",
           said' \in {"nothing", "Invalid", "Ambiguous", "Incorrect number",
                      "succeeded", "error"},
           CommandMeant'
    PROVE  ShellInv'
<1>1. TypeOK'
  <2>1. /\ Len(line') < LineSize /\ 2 * Len(argv') <= LineSize
        /\ cmd' \in 0 .. Len(cmd_tab)
        /\ broken' \in BOOLEAN /\ lines' \in 0 .. MaxLines
        /\ (opts'.d > 0) # (opts'.h > 0)
    BY Zenon DEF ShellInv, TypeOK, Quietly
  <2>2. /\ pc' \in {"getopt", "create", "fgets", "parse", "handler", "destroy", "exit"}
        /\ icb' \in {"none", "connected", "destroyed"}
        /\ pc' = "exit" => icb' # "connected"
    BY DEF Quietly
  <2>3. eof' \in BOOLEAN
    BY DEF Quietly
  <2>4. QED
    BY <2>1, <2>2, <2>3, Zenon DEF TypeOK
<1>2. VarsOK' /\ TypedInv' /\ RestInv'
  BY Zenon DEF ShellInv, VarsOK, TypedInv, RestInv, Quietly
<1>3. PlaceInv' /\ LineInv' /\ HandlerInv'
  BY DEF PlaceInv, LineInv, HandlerInv, Quietly
<1>4. QED
  BY <1>1, <1>2, <1>3 DEF ShellInv

LEMMA HandlerStepInv ==
    ASSUME ShellInv, Handler
    PROVE  ShellInv'
<1>1. /\ pc = "handler" /\ icb = "connected" /\ cmd # 0
      /\ UNCHANGED <<opts, icb, stdin, eof, broken, line, argv, cmd, typed, lines>>
      /\ pc' = Next_line
  BY DEF Handler, ShellInv, PlaceInv, HandlerInv
<1>2. said' = "succeeded" \/ said' = "error"
  BY DEF Handler
<1>3. Next_line \in {"destroy", "fgets"}
  BY DEF Next_line
<1>4. eof' \in BOOLEAN
  BY <1>1, Zenon DEF ShellInv, TypeOK
<1>5. Quietly
  BY <1>1, <1>3, <1>4 DEF Quietly
<1>6. CommandMeant'
  <2> DEFINE N == Named(argv[1])
             A == Abbreviated(argv[1])
  <2>1. argv # <<>> => cmd \in N \/ (N = {} /\ A = {cmd})
    BY <1>1 DEF ShellInv, CommandMeant
  <2> HIDE DEF N, A
  <2>2. /\ said' # "Invalid" /\ said' # "Ambiguous"
    BY <1>2
  <2>3. QED
    BY <1>1, <2>1, <2>2, Zenon DEF CommandMeant, N, A
<1>7. QED
  BY <1>1, <1>2, <1>5, <1>6, QuietlyInv

\* The other steps of the program, and those of the user that type nothing.
LEMMA OtherInv ==
    ASSUME ShellInv, FgetsEof \/ Quit \/ Destroy \/ CloseStdin
    PROVE  ShellInv'
<1>1. icb = "connected" /\ pc # "create" /\ UNCHANGED <<argv, cmd, said>>
  BY DEF ShellInv, PlaceInv, FgetsEof, Quit, Destroy, CloseStdin
<1>2. UNCHANGED <<opts, line, stdin, typed, lines, broken>>
  BY DEF FgetsEof, Quit, Destroy, CloseStdin
<1>3. eof' = eof \/ eof' = TRUE
  BY Zenon DEF FgetsEof, Quit, Destroy, CloseStdin
<1>4. eof' \in BOOLEAN
  BY <1>3, Zenon DEF ShellInv, TypeOK
<1>5. /\ pc' \in {"fgets", "destroy", "exit"}
      /\ pc' \in {"fgets", "destroy"} => icb' = "connected"
      /\ pc' = "exit" => icb' = "destroyed"
  BY <1>1 DEF FgetsEof, Quit, Destroy, CloseStdin
<1>6. Quietly
  BY <1>1, <1>2, <1>4, <1>5, Zenon DEF Quietly
<1>7. CommandMeant'
  BY <1>1, SameAnswer DEF ShellInv
<1>8. said' \in {"nothing", "Invalid", "Ambiguous", "Incorrect number",
                 "succeeded", "error"}
  BY <1>1, Zenon DEF ShellInv, TypeOK
<1>9. QED
  BY <1>1, <1>6, <1>7, <1>8, QuietlyInv

LEMMA BreakInv ==
    ASSUME ShellInv, BreakStdin
    PROVE  ShellInv'
<1>1. /\ pc' = pc /\ broken' = TRUE
      /\ UNCHANGED <<opts, icb, stdin, eof, line, argv, cmd, said, typed, lines>>
  BY DEF BreakStdin
<1>2. TypeOK'
  BY <1>1, Zenon DEF ShellInv, TypeOK
<1>3. VarsOK' /\ PlaceInv' /\ TypedInv' /\ RestInv'
  BY <1>1, Zenon DEF ShellInv, VarsOK, PlaceInv, TypedInv, RestInv
<1>4. LineInv' /\ HandlerInv'
  BY <1>1, Zenon DEF ShellInv, LineInv, HandlerInv
<1>5. CommandMeant'
  BY <1>1, SameAnswer DEF ShellInv
<1>6. QED
  BY <1>2, <1>3, <1>4, <1>5 DEF ShellInv

LEMMA TypeInv ==
    ASSUME ShellInv, Type
    PROVE  ShellInv'
<1>1. /\ pc = "fgets" /\ pc' = "fgets" /\ icb = "connected" /\ lines < MaxLines
      /\ lines' = lines + 1
      /\ line' = <<>> /\ argv' = <<>> /\ cmd' = 0 /\ said' = "nothing"
      /\ UNCHANGED <<opts, icb, broken>>
  BY DEF Type, ShellInv, PlaceInv
<1>2. PICK l \in Lines, last \in BOOLEAN :
        /\ stdin' = IF last THEN l ELSE Append(l, NewLine)
        /\ eof' = last /\ typed' = stdin'
  BY DEF Type
<1>3. stdin' = l \/ stdin' = Append(l, NewLine)
  BY <1>2, Zenon
<1>4. stdin' \in Text
  BY <1>3, LinesAreText, TypedAreText
<1>5. TypedInv'
  BY <1>2, <1>3, Zenon DEF TypedInv
<1>6. RestInv'
  <2>1. typed' = stdin'
    BY <1>2
  <2>2. stdin' \in Seq(Letter) /\ Len(stdin') \in Nat
    BY <1>4 DEF Text
  <2>3. (Len(stdin') - Len(stdin')) + 1 = 1
    BY <2>2
  <2>4. SubSeq(stdin', 1, Len(stdin')) = stdin'
    BY <2>2
  <2>5. Len(stdin') <= Len(stdin')
    BY <2>2
  <2>6. QED
    BY <2>1, <2>3, <2>4, <2>5, Zenon DEF RestInv
<1>7. VarsOK'
  <2>1. line' \in Text /\ argv' \in Seq(Text)
    BY <1>1, EmptyText
  <2>2. opts' \in [d : 0 .. 2, h : 0 .. 2, c : BOOLEAN]
    BY <1>1, Zenon DEF ShellInv, VarsOK
  <2>3. typed' \in Text
    BY <1>2, <1>4
  <2>4. QED
    BY <1>4, <2>1, <2>2, <2>3 DEF VarsOK
<1>8. TypeOK'
  <2>1. Len(line') < LineSize /\ 2 * Len(argv') <= LineSize
    <3>1. Len(<<>>) = 0 /\ 0 < LineSize /\ 2 * 0 <= LineSize
      BY LineAssumption
    <3>2. QED
      BY <1>1, <3>1
  <2>2. cmd' \in 0 .. Len(cmd_tab)
    BY <1>1, TableLength DEF NCmds
  <2>3. lines' \in 0 .. MaxLines
    <3>1. lines \in 0 .. MaxLines /\ MaxLines \in Nat
      BY LineAssumption DEF ShellInv, TypeOK
    <3>2. QED
      BY <1>1, <3>1
  <2>4. eof' \in BOOLEAN
    BY <1>2, Zenon
  <2>5. /\ broken' \in BOOLEAN /\ icb' \in {"none", "connected", "destroyed"}
        /\ icb' # "none" => (opts'.d > 0) # (opts'.h > 0)
    BY <1>1, Zenon DEF ShellInv, TypeOK
  <2>6. /\ pc' \in {"getopt", "create", "fgets", "parse", "handler", "destroy", "exit"}
        /\ pc' # "exit"
        /\ said' \in {"nothing", "Invalid", "Ambiguous", "Incorrect number",
                      "succeeded", "error"}
    BY <1>1
  <2>7. QED
    BY <2>1, <2>2, <2>3, <2>4, <2>5, <2>6, Zenon DEF TypeOK
<1>9. PlaceInv' /\ LineInv' /\ HandlerInv' /\ CommandMeant'
  BY <1>1 DEF PlaceInv, LineInv, HandlerInv, CommandMeant
<1>10. QED
  BY <1>5, <1>6, <1>7, <1>8, <1>9 DEF ShellInv

LEMMA StutterInv ==
    ASSUME ShellInv, UNCHANGED vars
    PROVE  ShellInv'
<1>1. UNCHANGED <<pc, opts, icb, stdin, eof, broken, line, argv, cmd, said, typed, lines>>
  BY DEF vars
<1>2. TypeOK'
  BY <1>1, Zenon DEF ShellInv, TypeOK
<1>3. VarsOK' /\ PlaceInv' /\ TypedInv' /\ RestInv'
  BY <1>1, Zenon DEF ShellInv, VarsOK, PlaceInv, TypedInv, RestInv
<1>4. LineInv' /\ HandlerInv'
  BY <1>1, Zenon DEF ShellInv, LineInv, HandlerInv
<1>5. CommandMeant'
  BY <1>1, SameAnswer DEF ShellInv
<1>6. QED
  BY <1>2, <1>3, <1>4, <1>5 DEF ShellInv

LEMMA StepInv ==
    ASSUME ShellInv, [Next]_vars
    PROVE  ShellInv'
<1>1. CASE Getopt
  BY <1>1, GetoptInv
<1>2. CASE Create
  BY <1>2, CreateInv
<1>3. CASE Fgets
  BY <1>3, FgetsInv
<1>4. CASE Parse
  BY <1>4, ParseInv
<1>5. CASE Handler
  BY <1>5, HandlerStepInv
<1>6. CASE FgetsEof \/ Quit \/ Destroy \/ CloseStdin
  BY <1>6, OtherInv
<1>7. CASE Type
  BY <1>7, TypeInv
<1>8. CASE BreakStdin
  BY <1>8, BreakInv
<1>9. CASE UNCHANGED vars
  BY <1>9, StutterInv
<1>10. QED
  BY <1>1, <1>2, <1>3, <1>4, <1>5, <1>6, <1>7, <1>8, <1>9, Zenon DEF Next, Program

\* The words of the line, from the first place on, are all of its words.
LEMMA WordsGiven ==
    ASSUME ShellInv
    PROVE  HandlerGetsWords
<1>1. ASSUME pc = "handler"
      PROVE  /\ Len(argv) = cmd_tab[cmd].nargs
             /\ Len(argv) = Cardinality(Words(line))
             /\ \A w \in Words(line) :
                   argv[Cardinality({v \in Words(line) : v[1] <= w[1]})]
                     = SubSeq(line, w[1], w[2])
  <2>1. argv = Split(line) /\ Len(argv) = cmd_tab[cmd].nargs
    BY <1>1 DEF ShellInv, HandlerInv
  <2>2. line \in Seq(Letter)
    BY DEF ShellInv, VarsOK, Text
  <2>3. AreWords(Letter, line, 1, argv)
    BY <2>1, <2>2, SplitGivesWords
  <2>4. Later(line, 1) = Words(line)
    <3>1. \A w \in Words(line) : w[1] >= 1
      BY <2>2, WordsAreStretches DEF Stretch
    <3>2. QED
      BY <3>1, Zenon DEF Later
  <2>5. \A w : UpTo(line, 1, w) = {v \in Words(line) : v[1] <= w[1]}
    BY <2>4, Zenon DEF UpTo
  <2>6. /\ Len(argv) = Cardinality(Words(line))
        /\ \A w \in Words(line) :
              argv[Cardinality(UpTo(line, 1, w))] = SubSeq(line, w[1], w[2])
    BY <2>3, <2>4, Zenon DEF AreWords
  <2>7. QED
    BY <2>1, <2>5, <2>6, Zenon
<1>2. LineInv
  BY DEF ShellInv
<1>3. QED
  BY <1>1, <1>2, Zenon DEF HandlerGetsWords, LineInv

\* The inductive invariant holds of every step of the program and its user.
THEOREM ShellInvariant == Spec => []ShellInv
<1>1. Init => ShellInv
  BY InitInv
<1>2. ShellInv /\ [Next]_vars => ShellInv'
  BY StepInv
<1>3. QED
  BY <1>1, <1>2, PTL DEF Spec

\* The program has a connection only if it was told one way to make it, does
\* not exit without having destroyed it, keeps what fgets and strncpy store
\* within the line's buffer, and finds in it at most half as many words.
THEOREM TypeCorrect == Spec => []TypeOK
<1>1. ShellInv => TypeOK
  BY DEF ShellInv
<1>2. QED
  BY <1>1, ShellInvariant, PTL

\* parse_cmd hands the handler the words of the line, all of them and in
\* order, and fgets loses no character of what was typed and reads none twice.
THEOREM HandlerGetsWordsAlways == Spec => []HandlerGetsWords
<1>1. ShellInv => HandlerGetsWords
  BY WordsGiven
<1>2. QED
  BY <1>1, ShellInvariant, PTL

\* find_command's loop over the table runs the command named in full, or else
\* the only one the word is the beginning of, and refuses only what is
\* unknown or ambiguous.
THEOREM CommandMeantAlways == Spec => []CommandMeant
<1>1. ShellInv => CommandMeant
  BY DEF ShellInv
<1>2. QED
  BY <1>1, ShellInvariant, PTL
=============================================================================
