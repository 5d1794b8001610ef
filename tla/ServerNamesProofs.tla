-------------------------- MODULE ServerNamesProofs --------------------------
(***************************************************************************)
(* Proofs about ServerNames for any number of listings, names and entries  *)
(* in a buffer, with any changes between two steps of a scan: the counting *)
(* argument behind an offset that is counted anew in every request.        *)
(***************************************************************************)
EXTENDS ServerNames, FiniteSetTheorems, WellFoundedInduction, TLAPS

-----------------------------------------------------------------------------
(* The inductive invariant.                                                *)

Upto(S, n) == {k \in S : k <= n}
Below(S, n) == {k \in S : k < n}
Above(S, n) == {k \in S : k > n}

\* Members of S that are not after all that is in the sequence s.
Passed(S, s) == {k \in S : \E j \in 1 .. Len(s) : k <= s[j]}

\* Members of S that a scan at the cursor c with the buffer b will come to:
\* those in the buffer, and those the kernel will return after it.
Coming(S, c, b) == {k \in S : k > c /\ (k \in b \/ \A m \in b : m < k)}

Increasing(s) == \A j, k \in 1 .. Len(s) : j < k => s[j] < s[k]

\* Before a listing starts nothing is listed.
IdleInv(l) == pc[l] = "idle" => out[l] = <<>> /\ i[l] = 0

\* The buffer is ahead of the cursor.
BufferInv(l) == pc[l] = "scan" => \A b \in buffer[l] : b > cursor[l]

\* What has stayed is there, and is all that is there if nothing changed.
StayedInv(l) ==
    /\ stayed[l] \subseteq Present
    /\ pc[l] # "idle" /\ changed[l] = {} => stayed[l] = Present

\* While names are only removed: no more than i entries are left of those up
\* to the last one listed, and those the scan has still to pass are among the
\* entries it will skip; so the entry it takes comes after all that are listed.
RemovalInv(l) ==
    "created" \notin changed[l] =>
    /\ Increasing(out[l])
    /\ Cardinality(Passed(Present, out[l])) <= i[l]
    /\ pc[l] = "scan" =>
          /\ Above(Present, cursor[l]) \subseteq Coming(Present, cursor[l], buffer[l])
          /\ Cardinality(Upto(Present, cursor[l])) <= doffset[l]
          /\ entries[l] = <<>> =>
                /\ doffset[l] <= i[l]
                /\ doffset[l] + Cardinality(Above(Passed(Present, out[l]), cursor[l]))
                        <= i[l]
    /\ pc[l] \in {"scan", "return"} /\ entries[l] # <<>> =>
          /\ \A j \in 1 .. Len(out[l]) : out[l][j] < entries[l][1]
          /\ Cardinality(Upto(Present, entries[l][1])) <= i[l] + 1

\* While names are only added: before an entry that is not listed yet there
\* are at least i, and the scan will come to it with at least i counted; so
\* it ends without an entry only when there is none that is not listed.
Waiting(l) == stayed[l] \ Listed(l)

CreationInv(l) ==
    "removed" \notin changed[l] =>
    /\ Listed(l) \subseteq Present
    /\ \A s \in Waiting(l) : i[l] <= Cardinality(Below(Present, s))
    /\ pc[l] = "scan" =>
          /\ buffer[l] \subseteq Present \cup Dots
          /\ doffset[l] <= Cardinality(Upto(Present, cursor[l]))
          /\ entries[l] = <<>> => \A s \in Waiting(l) :
                LET coming == Coming(Present, cursor[l], buffer[l])
                IN  s \in coming /\ i[l] <= doffset[l] + Cardinality(Below(coming, s))
    /\ pc[l] \in {"scan", "return"} /\ entries[l] # <<>> =>
          /\ entries[l][1] \in Present
          /\ \A s \in Waiting(l) :
                s = entries[l][1] \/ i[l] + 1 <= Cardinality(Below(Present, s))
    /\ (pc[l] = "return" /\ entries[l] = <<>>) \/ pc[l] = "done" =>
          failed[l] \/ Waiting(l) = {}

ListInv(l) ==
    IdleInv(l) /\ BufferInv(l) /\ StayedInv(l) /\ RemovalInv(l) /\ CreationInv(l)

NamesInv == TypeOK /\ \A l \in Lister : ListInv(l)

-----------------------------------------------------------------------------
(* The sizes of sets of names.                                             *)

\* Sets of names are finite, and a part of one has no more members.
LEMMA CardPart ==
    ASSUME NEW T \in SUBSET Name, NEW S \in SUBSET T
    PROVE  /\ IsFiniteSet(S) /\ Cardinality(S) \in Nat /\ Cardinality(T) \in Nat
           /\ Cardinality(S) <= Cardinality(T)
<1>1. IsFiniteSet(Name)
  BY EntryAssumption
<1>2. IsFiniteSet(T)
  BY <1>1, FS_Subset
<1>3. IsFiniteSet(S) /\ Cardinality(S) <= Cardinality(T)
  BY <1>2, FS_Subset
<1>4. QED
  BY <1>2, <1>3, FS_CardinalityType

LEMMA CardAdded ==
    ASSUME NEW S \in SUBSET Name, NEW n \in Name, n \notin S
    PROVE  Cardinality(S \cup {n}) = Cardinality(S) + 1
<1>1. IsFiniteSet(S)
  BY CardPart
<1>2. QED
  BY <1>1, FS_AddElement

LEMMA CardZero ==
    ASSUME NEW S \in SUBSET Name, Cardinality(S) <= 0
    PROVE  S = {}
<1>1. IsFiniteSet(S) /\ Cardinality(S) \in Nat
  BY CardPart
<1>2. Cardinality(S) = 0
  BY <1>1
<1>3. QED
  BY <1>1, <1>2, FS_EmptySet

LEMMA LeastEntry ==
    ASSUME NEW T \in SUBSET Nat, T # {}
    PROVE  \E x \in T : \A y \in T : x <= y
<1> DEFINE R == OpToRel(<, Nat)
<1>1. IsWellFoundedOn(R, Nat)
  BY NatLessThanWellFounded
<1>2. \A x, y \in Nat : y < x => <<y, x>> \in R
  BY DEF OpToRel
<1> HIDE DEF R
<1>3. T \subseteq Nat
  OBVIOUS
<1>4. PICK x \in T : \A y \in T : ~(<<y, x>> \in R)
  BY <1>1, <1>3, WFMin, Zenon
<1>5. \A y \in T : ~(y < x)
  <2> SUFFICES ASSUME NEW y \in T, y < x PROVE FALSE
    OBVIOUS
  <2>1. x \in Nat /\ y \in Nat
    BY <1>3
  <2>2. QED
    BY <1>2, <1>4, <2>1
<1>6. \A y \in T : x <= y
  BY <1>3, <1>5
<1>7. QED
  BY <1>6

-----------------------------------------------------------------------------
(* A scan.                                                                 *)

\* The first entries of what is left come before the others, and there are
\* none only if there is nothing left.
LEMMA FirstEntries ==
    ASSUME NEW rest \in SUBSET Entry
    PROVE  LET first == {n \in rest : Cardinality(Below(rest, n)) < Batch}
           IN  /\ \A k \in rest \ first : \A m \in first : m < k
               /\ first = {} => rest = {}
<1> DEFINE first == {n \in rest : Cardinality(Below(rest, n)) < Batch}
<1>1. Entry \subseteq Nat /\ IsFiniteSet(Entry)
  <2>1. Entry \subseteq Nat
    BY EntryAssumption DEF Entry
  <2>2. IsFiniteSet(Entry)
    BY EntryAssumption, FS_Union DEF Entry
  <2>3. QED
    BY <2>1, <2>2
<1>2. rest \subseteq Nat /\ IsFiniteSet(rest)
  BY <1>1, FS_Subset
<1>3. Batch \in Nat /\ Batch > 0
  BY BatchAssumption
<1>4. ASSUME NEW k \in rest \ first, NEW m \in first
      PROVE  m < k
  <2>1. m \in rest /\ m \in Nat /\ k \in Nat
    BY <1>2
  <2>2. SUFFICES ASSUME k <= m PROVE FALSE
    BY <2>1
  <2>3. Below(rest, k) \subseteq Below(rest, m) /\ Below(rest, m) \subseteq rest
    <3>1. \A x \in Nat : x < k => x < m
      BY <2>1, <2>2
    <3>2. QED
      BY <1>2, <3>1 DEF Below
  <2>4. IsFiniteSet(Below(rest, m)) /\ IsFiniteSet(Below(rest, k))
    BY <1>2, <2>3, FS_Subset
  <2>5. /\ Cardinality(Below(rest, k)) <= Cardinality(Below(rest, m))
        /\ Cardinality(Below(rest, k)) \in Nat /\ Cardinality(Below(rest, m)) \in Nat
    BY <2>3, <2>4, FS_Subset, FS_CardinalityType
  <2>6. Cardinality(Below(rest, m)) < Batch /\ ~(Cardinality(Below(rest, k)) < Batch)
    OBVIOUS
  <2>7. QED
    BY <1>3, <2>5, <2>6
<1>5. ASSUME rest # {}
      PROVE  first # {}
  <2>1. PICK x \in rest : \A y \in rest : x <= y
    BY <1>2, <1>5, LeastEntry
  <2>2. \A y \in rest : ~(y < x)
    BY <1>2, <2>1
  <2>3. Below(rest, x) = {}
    BY <2>2 DEF Below
  <2>4. Cardinality(Below(rest, x)) = 0
    BY <2>3, FS_EmptySet
  <2>5. QED
    BY <1>3, <2>4
<1>6. QED
  BY <1>4, <1>5

\* The scan goes on by the least entry of its buffer: it leaves out none.
GoesOn(P, c, B, n) ==
    /\ n \in Nat /\ n > c
    /\ Coming(P, n, B \ {n}) = Coming(P, c, B) \ {n}
    /\ \A k \in Coming(P, c, B) : n <= k
    /\ n \in P => n \in Coming(P, c, B)
    /\ Upto(P, c) \subseteq Upto(P, n) \ {n}
    /\ \A b \in B \ {n} : b > n
    /\ Above(P, c) \subseteq Coming(P, c, B) =>
          /\ Above(P, n) \subseteq Coming(P, n, B \ {n})
          /\ Upto(P, n) \subseteq Upto(P, c) \cup {n}

LEMMA NextEntry ==
    ASSUME NEW P \in SUBSET Name, NEW c \in Int, NEW B \in SUBSET Entry,
           \A b \in B : b > c,
           NEW n \in B, \A m \in B : n <= m
    PROVE  GoesOn(P, c, B, n)
<1>1. B \subseteq Nat /\ P \subseteq Nat
  BY EntryAssumption DEF Entry
<1>2. n \in Nat /\ n > c
  BY <1>1
<1>3. \A b \in B \ {n} : b > n
  BY <1>1
<1>4. \A k \in Coming(P, c, B) : n <= k
  BY <1>1 DEF Coming
<1>5. ASSUME NEW k \in P
      PROVE  /\ k \in Coming(P, n, B \ {n}) <=> k \in Coming(P, c, B) /\ k # n
             /\ k <= c => k <= n /\ k # n
             /\ k > n => k > c
             /\ ~(k <= n) <=> k > n
             /\ ~(k <= c) <=> k > c
             /\ n <= k /\ k <= n => k = n
  <2>1. k \in Nat
    BY <1>1
  <2>2. CASE k \in B
    BY <1>1, <1>2, <1>3, <2>1, <2>2 DEF Coming
  <2>3. CASE k \notin B
    <3>1. (\A m \in B \ {n} : m < k) /\ k > n <=> (\A m \in B : m < k)
      BY <1>1, <1>2, <2>1
    <3>2. QED
      BY <1>2, <2>1, <2>3, <3>1 DEF Coming
  <2>4. QED
    BY <2>2, <2>3
<1>6. Coming(P, n, B \ {n}) = Coming(P, c, B) \ {n}
  <2>1. Coming(P, n, B \ {n}) \subseteq P /\ Coming(P, c, B) \subseteq P
    BY DEF Coming
  <2>2. QED
    BY <1>5, <2>1
<1>7. n \in P => n \in Coming(P, c, B)
  BY <1>2 DEF Coming
<1>8. Upto(P, c) \subseteq Upto(P, n) \ {n}
  BY <1>5 DEF Upto
<1>9. ASSUME Above(P, c) \subseteq Coming(P, c, B)
      PROVE  /\ Above(P, n) \subseteq Coming(P, n, B \ {n})
             /\ Upto(P, n) \subseteq Upto(P, c) \cup {n}
  <2>1. \A k \in P : k > c => n <= k
    BY <1>4, <1>9 DEF Above
  <2>2. Upto(P, n) \subseteq Upto(P, c) \cup {n}
    BY <1>5, <2>1 DEF Upto
  <2>3. ASSUME NEW k \in P, k > n
        PROVE  k \in Coming(P, n, B \ {n})
    <3>1. k \in Coming(P, c, B)
      BY <1>5, <1>9, <2>3 DEF Above
    <3>2. k # n
      BY <1>2, <2>3
    <3>3. QED
      BY <1>5, <3>1, <3>2
  <2>4. QED
    BY <2>1, <2>2, <2>3 DEF Above
<1>10. QED
  BY <1>2, <1>3, <1>4, <1>6, <1>7, <1>8, <1>9 DEF GoesOn

\* An empty buffer, or one that the kernel has just filled, hides nothing
\* that comes after the cursor.
LEMMA FreshBuffer ==
    ASSUME NEW P \in SUBSET Name, NEW c, NEW B,
           \A k \in P : k > c => k \in B \/ \A m \in B : m < k
    PROVE  Coming(P, c, B) = Above(P, c)
BY DEF Coming, Above

-----------------------------------------------------------------------------
(* Types, and the steps of the others.                                     *)

LEMMA PresentNames == Present \in SUBSET Name /\ Present \subseteq Nat
BY EntryAssumption DEF Present

\* A change adds names or removes names, and says which.
LEMMA ChangeEffect ==
    ASSUME TypeOK, Change
    PROVE  \E kinds \in SUBSET {"created", "removed"} :
              /\ Watch(kinds) /\ dir' \in [Name -> Type \cup {None}]
              /\ kinds # {}
              /\ "created" \notin kinds => Present' \subseteq Present
              /\ "removed" \notin kinds => Present \subseteq Present'
<1> USE NoneAssumption
<1>1. dir \in [Name -> Type \cup {None}]
  BY DEF TypeOK
<1>2. ASSUME NEW n \in Name, Create(n) \/ Symlink(n) \/ Mkdir(n)
      PROVE  /\ Watch({"created"}) /\ dir' \in [Name -> Type \cup {None}]
             /\ Present \subseteq Present'
  BY <1>1, <1>2 DEF Create, Symlink, Mkdir, Present, Type
<1>3. ASSUME NEW n \in Name, Rmdir(n) \/ Unlink(n)
      PROVE  /\ Watch({"removed"}) /\ dir' \in [Name -> Type \cup {None}]
             /\ Present' \subseteq Present
  BY <1>1, <1>3 DEF Rmdir, Unlink, Present, Type
<1>4. ASSUME NEW m \in Name, NEW n \in Name, Rename(m, n)
      PROVE  \/ /\ Watch({"removed"}) /\ dir' \in [Name -> Type \cup {None}]
                /\ Present' \subseteq Present
             \/ /\ Watch({"removed"} \cup {"created"})
                /\ dir' \in [Name -> Type \cup {None}]
  <2>1. dir' \in [Name -> Type \cup {None}]
    BY <1>1, <1>4 DEF Rename
  <2>2. CASE dir[n] = None
    BY <1>4, <2>1, <2>2 DEF Rename
  <2>3. CASE dir[n] # None
    <3>1. {"removed"} \cup (IF dir[n] = None THEN {"created"} ELSE {}) = {"removed"}
      BY <2>3
    <3>2. Watch({"removed"})
      BY <1>4, <3>1 DEF Rename
    <3>3. Present' \subseteq Present
      BY <1>1, <1>4, <2>3 DEF Rename, Present
    <3>4. QED
      BY <2>1, <3>2, <3>3
  <2>4. QED
    BY <2>2, <2>3
<1>5. CASE \E n \in Name : Create(n) \/ Symlink(n) \/ Mkdir(n)
  <2>1. "created" \in {"created"} /\ "removed" \notin {"created"}
    OBVIOUS
  <2>2. QED
    BY <1>2, <1>5, <2>1
<1>6. CASE \E n \in Name : Rmdir(n) \/ Unlink(n)
  <2>1. "removed" \in {"removed"}
    OBVIOUS
  <2>2. QED
    BY <1>3, <1>6, <2>1
<1>7. CASE \E m, n \in Name : Rename(m, n)
  <2>1. PICK m \in Name, n \in Name : Rename(m, n)
    BY <1>7
  <2>2. CASE Watch({"removed"}) /\ Present' \subseteq Present
    BY <1>4, <2>1, <2>2
  <2>3. CASE Watch({"removed"} \cup {"created"})
    <3>1. {"removed"} \cup {"created"} = {"created", "removed"}
      OBVIOUS
    <3>2. QED
      BY <1>4, <2>1, <2>3, <3>1
  <2>4. QED
    BY <1>4, <2>1, <2>2, <2>3
<1>8. QED
  BY <1>5, <1>6, <1>7 DEF Change

LEMMA TypeStep ==
    ASSUME TypeOK, [Next]_vars
    PROVE  TypeOK'
<1> USE EntryAssumption, NoneAssumption
<1>1. CASE UNCHANGED vars
  BY <1>1 DEF vars, listing, TypeOK
<1>2. CASE Change
  <2>1. PICK kinds \in SUBSET {"created", "removed"} :
            Watch(kinds) /\ dir' \in [Name -> Type \cup {None}]
    BY <1>2, ChangeEffect
  <2>2. stayed' \in [Lister -> SUBSET Name]
    BY <2>1 DEF Watch, TypeOK
  <2>3. changed' \in [Lister -> SUBSET {"created", "removed"}]
    BY <2>1 DEF Watch, TypeOK
  <2>4. QED
    BY <2>1, <2>2, <2>3 DEF Watch, listing, TypeOK
<1>3. ASSUME NEW l \in Lister, Start(l)
      PROVE  TypeOK'
  <2>1. Present \in SUBSET Name
    BY PresentNames
  <2>2. QED
    BY <1>3, <2>1 DEF Start, TypeOK
<1>4. ASSUME NEW l \in Lister, Opendir(l)
      PROVE  TypeOK'
  <2>1. <<>> \in Seq(Name) /\ Len(<<>>) <= Count
    BY DEF Count
  <2>2. entries' \in [Lister -> Seq(Name)] /\ \A m \in Lister : Len(entries'[m]) <= Count
    BY <1>4, <2>1 DEF Opendir, TypeOK
  <2>3. QED
    BY <1>4, <2>2 DEF Opendir, TypeOK
<1>5. ASSUME NEW l \in Lister, Refill(l)
      PROVE  TypeOK'
  <2>1. Getdents(l) \in SUBSET Entry
    BY PresentNames DEF Getdents, Entry
  <2>2. QED
    BY <1>5, <2>1 DEF Refill, TypeOK
<1>6. ASSUME NEW l \in Lister, Readdir(l)
      PROVE  TypeOK'
  <2>1. PICK n \in buffer[l] :
          /\ cursor' = [cursor EXCEPT ![l] = n]
          /\ buffer' = [buffer EXCEPT ![l] = @ \ {n}]
          /\ IF n \notin Present
             THEN UNCHANGED <<doffset, entries>>
             ELSE /\ doffset' = [doffset EXCEPT ![l] = @ + 1]
                  /\ entries' = IF Skipped(l) THEN entries
                                ELSE [entries EXCEPT ![l] = Append(@, n)]
    BY <1>6 DEF Readdir
  <2>2. n \in Entry
    BY <2>1 DEF TypeOK
  <2>3. cursor' \in [Lister -> Entry \cup {-1}] /\ buffer' \in [Lister -> SUBSET Entry]
    BY <2>1, <2>2 DEF TypeOK
  <2>4. doffset' \in [Lister -> Nat]
    <3>1. doffset' = doffset \/ doffset' = [doffset EXCEPT ![l] = @ + 1]
      BY <2>1
    <3>2. QED
      BY <3>1 DEF TypeOK
  <2>5. entries' \in [Lister -> Seq(Name)] /\ \A m \in Lister : Len(entries'[m]) <= Count
    <3>1. CASE UNCHANGED entries
      BY <3>1 DEF TypeOK
    <3>2. CASE n \in Present /\ entries' = [entries EXCEPT ![l] = Append(@, n)]
      <4>1. entries[l] \in Seq(Name) /\ n \in Name /\ Len(entries[l]) < Count
        BY <1>6, <3>2, PresentNames DEF Readdir, Wanted, TypeOK
      <4>2. Append(entries[l], n) \in Seq(Name) /\ Len(Append(entries[l], n)) <= Count
        BY <4>1 DEF Count
      <4>3. QED
        BY <3>2, <4>2 DEF TypeOK
    <3>3. QED
      BY <2>1, <3>1, <3>2
  <2>6. QED
    BY <1>6, <2>3, <2>4, <2>5 DEF Readdir, TypeOK
<1>7. ASSUME NEW l \in Lister, Closedir(l)
      PROVE  TypeOK'
  BY <1>7 DEF Closedir, TypeOK
<1>8. ASSUME NEW l \in Lister, Ls(l) \/ Icbinnfs_readdir(l)
      PROVE  TypeOK'
  <2>1. failed' \in [Lister -> BOOLEAN]
    BY <1>8 DEF Ls, Icbinnfs_readdir, TypeOK
  <2>2. CASE More(l)
    <3>1. out' \in [Lister -> Seq(Name)]
      BY <2>2 DEF More, TypeOK
    <3>2. QED
      BY <1>8, <2>1, <2>2, <3>1 DEF Ls, Icbinnfs_readdir, More, Advance, TypeOK
  <2>3. CASE Stop(l)
    BY <1>8, <2>1, <2>3 DEF Ls, Icbinnfs_readdir, Stop, TypeOK
  <2>4. QED
    BY <1>8, <2>2, <2>3 DEF Ls, Icbinnfs_readdir
<1>9. QED
  BY <1>1, <1>2, <1>3, <1>4, <1>5, <1>6, <1>7, <1>8 DEF Next, Listing

LEMMA TypeInit == Init => TypeOK
BY EntryAssumption, NoneAssumption DEF Init, TypeOK, Program, Count

\* Every variable of the listings and the directory keeps its type.
THEOREM TypeCorrect == Spec => []TypeOK
BY TypeInit, TypeStep, PTL DEF Spec

\* A step of another listing leaves this one alone.
LEMMA OtherListing ==
    ASSUME NEW l \in Lister, ListInv(l), dir' = dir,
           pc'[l] = pc[l], i'[l] = i[l], cursor'[l] = cursor[l],
           buffer'[l] = buffer[l], doffset'[l] = doffset[l],
           entries'[l] = entries[l], out'[l] = out[l], failed'[l] = failed[l],
           stayed'[l] = stayed[l], changed'[l] = changed[l]
    PROVE  ListInv(l)'
<1>1. Present' = Present
  BY DEF Present
<1>2. Waiting(l)' = Waiting(l) /\ Listed(l)' = Listed(l)
  BY DEF Waiting, Listed
<1>3. QED
  BY <1>1, <1>2
     DEF ListInv, IdleInv, BufferInv, StayedInv, RemovalInv, CreationInv

-----------------------------------------------------------------------------
(* Changes of the directory.                                               *)

\* The parts of a larger set are larger.
LEMMA PartsGrow ==
    ASSUME NEW Q \in SUBSET Name, NEW P \in SUBSET Q
    PROVE  /\ \A s : Cardinality(Passed(P, s)) <= Cardinality(Passed(Q, s))
           /\ \A s, c : Cardinality(Above(Passed(P, s), c))
                           <= Cardinality(Above(Passed(Q, s), c))
           /\ \A n : Cardinality(Upto(P, n)) <= Cardinality(Upto(Q, n))
           /\ \A n : Cardinality(Below(P, n)) <= Cardinality(Below(Q, n))
           /\ \A c, b : Coming(P, c, b) \subseteq Coming(Q, c, b)
           /\ \A c, b, n : Cardinality(Below(Coming(P, c, b), n))
                              <= Cardinality(Below(Coming(Q, c, b), n))
           /\ \A c, b : Above(Q, c) \subseteq Coming(Q, c, b) =>
                           Above(P, c) \subseteq Coming(P, c, b)
<1>1. \A s : Passed(P, s) \in SUBSET Passed(Q, s) /\ Passed(Q, s) \in SUBSET Name
  BY DEF Passed
<1>2. \A s, c : /\ Above(Passed(P, s), c) \in SUBSET Above(Passed(Q, s), c)
                /\ Above(Passed(Q, s), c) \in SUBSET Name
  BY DEF Passed, Above
<1>3. \A n : Upto(P, n) \in SUBSET Upto(Q, n) /\ Upto(Q, n) \in SUBSET Name
  BY DEF Upto
<1>4. \A n : Below(P, n) \in SUBSET Below(Q, n) /\ Below(Q, n) \in SUBSET Name
  BY DEF Below
<1>5. \A c, b : Coming(P, c, b) \subseteq Coming(Q, c, b)
  BY DEF Coming
<1>6. \A c, b, n : /\ Below(Coming(P, c, b), n) \in SUBSET Below(Coming(Q, c, b), n)
                   /\ Below(Coming(Q, c, b), n) \in SUBSET Name
  BY DEF Coming, Below
<1>7. \A c, b : Above(Q, c) \subseteq Coming(Q, c, b) => Above(P, c) \subseteq Coming(P, c, b)
  BY DEF Above, Coming
<1>8. \A T \in SUBSET Name : \A S \in SUBSET T : Cardinality(S) <= Cardinality(T)
  BY CardPart
<1>9. QED
  BY <1>1, <1>2, <1>3, <1>4, <1>5, <1>6, <1>7, <1>8

LEMMA Sizes ==
    ASSUME NEW P \in SUBSET Name
    PROVE  /\ \A s : Cardinality(Passed(P, s)) \in Nat
           /\ \A s, c : Cardinality(Above(Passed(P, s), c)) \in Nat
           /\ \A n : Cardinality(Upto(P, n)) \in Nat
           /\ \A n : Cardinality(Below(P, n)) \in Nat
           /\ \A c, b, n : Cardinality(Below(Coming(P, c, b), n)) \in Nat
<1>1. \A T \in SUBSET Name : Cardinality(T) \in Nat
  BY CardPart
<1>2. /\ \A s : Passed(P, s) \in SUBSET Name
      /\ \A s, c : Above(Passed(P, s), c) \in SUBSET Name
      /\ \A n : Upto(P, n) \in SUBSET Name
      /\ \A n : Below(P, n) \in SUBSET Name
      /\ \A c, b, n : Below(Coming(P, c, b), n) \in SUBSET Name
  BY DEF Passed, Above, Upto, Below, Coming
<1>3. QED
  BY <1>1, <1>2

LEMMA ChangeKeeps ==
    ASSUME TypeOK, NEW kinds \in SUBSET {"created", "removed"}, Watch(kinds),
           kinds # {},
           "created" \notin kinds => Present' \subseteq Present,
           "removed" \notin kinds => Present \subseteq Present',
           NEW l \in Lister, ListInv(l)
    PROVE  ListInv(l)'
<1>1. /\ pc' = pc /\ i' = i /\ cursor' = cursor /\ buffer' = buffer
      /\ doffset' = doffset /\ entries' = entries /\ out' = out /\ failed' = failed
  BY DEF Watch, listing
<1>2. /\ stayed'[l] = stayed[l] \cap Present'
      /\ changed'[l] = changed[l] \cup kinds
  BY DEF Watch, Present, TypeOK
<1>3. Present \in SUBSET Name /\ Present' \in SUBSET Name
  BY DEF Present
<1>4. i[l] \in Nat /\ doffset[l] \in Nat
  BY DEF TypeOK
<1>5. IdleInv(l)' /\ BufferInv(l)'
  BY <1>1 DEF ListInv, IdleInv, BufferInv
<1>6. StayedInv(l)'
  BY <1>1, <1>2 DEF ListInv, StayedInv
<1>7. ASSUME "created" \notin changed'[l]
      PROVE  RemovalInv(l)'
  <2> DEFINE P == Present
             Q == Present'
             s == out[l]
             c == cursor[l]
             b == buffer[l]
  <2>1. RemovalInv(l) /\ "created" \notin changed[l] /\ Q \in SUBSET P
    BY <1>2, <1>7 DEF ListInv
  <2>2. /\ Cardinality(Passed(Q, s)) <= Cardinality(Passed(P, s))
        /\ Cardinality(Above(Passed(Q, s), c)) <= Cardinality(Above(Passed(P, s), c))
        /\ Cardinality(Upto(Q, c)) <= Cardinality(Upto(P, c))
        /\ Cardinality(Upto(Q, entries[l][1])) <= Cardinality(Upto(P, entries[l][1]))
        /\ Above(P, c) \subseteq Coming(P, c, b) => Above(Q, c) \subseteq Coming(Q, c, b)
    BY <1>3, <2>1, PartsGrow
  <2>3. /\ Cardinality(Passed(Q, s)) \in Nat /\ Cardinality(Passed(P, s)) \in Nat
        /\ Cardinality(Above(Passed(Q, s), c)) \in Nat
        /\ Cardinality(Above(Passed(P, s), c)) \in Nat
        /\ Cardinality(Upto(Q, c)) \in Nat /\ Cardinality(Upto(P, c)) \in Nat
        /\ Cardinality(Upto(Q, entries[l][1])) \in Nat
        /\ Cardinality(Upto(P, entries[l][1])) \in Nat
    BY <1>3, Sizes
  <2>4. QED
    BY <1>1, <1>4, <2>1, <2>2, <2>3 DEF RemovalInv
<1>8. ASSUME "removed" \notin changed'[l]
      PROVE  CreationInv(l)'
  <2> DEFINE P == Present
             Q == Present'
             c == cursor[l]
             b == buffer[l]
  <2>1. CreationInv(l) /\ "removed" \notin changed[l] /\ P \in SUBSET Q
    BY <1>2, <1>8 DEF ListInv
  <2>2. /\ \A n : Cardinality(Upto(P, n)) <= Cardinality(Upto(Q, n))
        /\ \A n : Cardinality(Below(P, n)) <= Cardinality(Below(Q, n))
        /\ Coming(P, c, b) \subseteq Coming(Q, c, b)
        /\ \A n : Cardinality(Below(Coming(P, c, b), n))
                              <= Cardinality(Below(Coming(Q, c, b), n))
    BY <1>3, <2>1, PartsGrow
  <2>3. /\ \A n : Cardinality(Upto(P, n)) \in Nat /\ Cardinality(Upto(Q, n)) \in Nat
        /\ \A n : Cardinality(Below(P, n)) \in Nat /\ Cardinality(Below(Q, n)) \in Nat
        /\ \A n : /\ Cardinality(Below(Coming(P, c, b), n)) \in Nat
                  /\ Cardinality(Below(Coming(Q, c, b), n)) \in Nat
    BY <1>3, Sizes
  <2>4. Listed(l)' = Listed(l) /\ stayed'[l] = stayed[l]
    BY <1>1, <1>2, <2>1 DEF Listed, ListInv, StayedInv
  <2>5. Waiting(l)' = Waiting(l)
    BY <2>4 DEF Waiting
  <2>6. QED
    BY <1>1, <1>4, <2>1, <2>2, <2>3, <2>4, <2>5 DEF CreationInv
<1>9. RemovalInv(l)' /\ CreationInv(l)'
  BY <1>7, <1>8 DEF RemovalInv, CreationInv
<1>10. QED
  BY <1>5, <1>6, <1>9 DEF ListInv

-----------------------------------------------------------------------------
(* The steps of a listing.                                                 *)

LEMMA ListerFacts ==
    ASSUME TypeOK, NEW l \in Lister
    PROVE  /\ Present \in SUBSET Name /\ Present \subseteq Nat
           /\ i[l] \in Nat /\ doffset[l] \in Nat /\ cursor[l] \in Int
           /\ buffer[l] \in SUBSET Entry /\ out[l] \in Seq(Name)
           /\ entries[l] \in Seq(Name)
           /\ \/ entries[l] = <<>>
              \/ Len(entries[l]) = 1 /\ entries[l][1] \in Name
<1>1. -1 \in Int
  OBVIOUS
<1>2. Entry \subseteq Int
  BY EntryAssumption DEF Entry
<1>3. cursor[l] \in Int
  BY <1>1, <1>2 DEF TypeOK
<1>4. entries[l] \in Seq(Name) /\ Len(entries[l]) <= 1
  BY DEF TypeOK, Count
<1>5. entries[l] = <<>> \/ (Len(entries[l]) = 1 /\ entries[l][1] \in Name)
  <2> DEFINE e == entries[l]
  <2> HIDE DEF e
  <2>1. e \in Seq(Name) /\ Len(e) \in Nat /\ Len(e) <= 1
    BY <1>4 DEF e
  <2>2. CASE Len(e) = 0
    BY <2>1, <2>2 DEF e
  <2>3. CASE Len(e) = 1
    BY <2>1, <2>3 DEF e
  <2>4. \A x \in Nat : x <= 1 => x = 0 \/ x = 1
    OBVIOUS
  <2>5. QED
    BY <2>1, <2>2, <2>3, <2>4, Zenon
<1>6. QED
  BY <1>3, <1>4, <1>5, PresentNames DEF TypeOK

\* Before anything is read everything is to come.
LEMMA ScanFromStart ==
    ASSUME NEW P \in SUBSET Name
    PROVE  /\ Coming(P, -1, {}) = P /\ Above(P, -1) = P
           /\ Cardinality(Upto(P, -1)) = 0
           /\ \A s : Above(Passed(P, s), -1) = Passed(P, s)
<1>1. \A k \in Nat : k > -1 /\ ~(k <= -1)
  OBVIOUS
<1>2. \A k \in P : k > -1 /\ ~(k <= -1)
  BY <1>1, EntryAssumption
<1>3. Coming(P, -1, {}) = P /\ Above(P, -1) = P
  BY <1>2 DEF Coming, Above
<1>4. Upto(P, -1) = {}
  BY <1>2 DEF Upto
<1>5. \A s : Above(Passed(P, s), -1) = Passed(P, s)
  BY <1>2 DEF Above, Passed
<1>6. QED
  BY <1>3, <1>4, <1>5, FS_EmptySet

LEMMA UptoNext ==
    ASSUME NEW P \in SUBSET Name, NEW c, NEW n \in P,
           Upto(P, c) \subseteq Upto(P, n) \ {n}
    PROVE  /\ Cardinality(Upto(P, c)) \in Nat /\ Cardinality(Upto(P, n)) \in Nat
           /\ Cardinality(Upto(P, c)) + 1 <= Cardinality(Upto(P, n))
           /\ Upto(P, n) \subseteq Upto(P, c) \cup {n} =>
                 Cardinality(Upto(P, n)) <= Cardinality(Upto(P, c)) + 1
<1> DEFINE U == Upto(P, c)
           V == Upto(P, n)
<1>1. U \in SUBSET Name /\ V \in SUBSET Name /\ n \in Name /\ n \notin U /\ n \in V
  <2>1. n \notin U
    OBVIOUS
  <2>2. n \in Nat /\ n <= n
    BY EntryAssumption
  <2>3. U \in SUBSET Name /\ V \in SUBSET Name /\ n \in V
    BY <2>2 DEF Upto
  <2>4. QED
    BY <2>1, <2>3
<1>2. U \cup {n} \in SUBSET V /\ V \in SUBSET Name /\ U \cup {n} \in SUBSET Name
  BY <1>1
<1> HIDE DEF U, V
<1>3. Cardinality(U \cup {n}) = Cardinality(U) + 1
  BY <1>1, CardAdded
<1>4. /\ Cardinality(U \cup {n}) <= Cardinality(V)
      /\ Cardinality(V) \in Nat
  BY <1>2, CardPart
<1>5. Cardinality(U) \in Nat
  BY <1>1, CardPart
<1>6. V \subseteq U \cup {n} => Cardinality(V) <= Cardinality(U \cup {n})
  BY <1>2, CardPart
<1>7. QED
  BY <1>3, <1>4, <1>5, <1>6 DEF U, V

\* What has been listed and is still to be passed, when the scan goes on to n.
LEMMA PassedNext ==
    ASSUME NEW P \in SUBSET Name, NEW s \in Seq(Name), NEW c \in Int, NEW n \in P, n > c
    PROVE  /\ Cardinality(Above(Passed(P, s), n)) \in Nat
           /\ Cardinality(Above(Passed(P, s), c)) \in Nat
           /\ Cardinality(Above(Passed(P, s), n)) <= Cardinality(Above(Passed(P, s), c))
           /\ n \in Passed(P, s) =>
                 Cardinality(Above(Passed(P, s), n)) + 1
                    <= Cardinality(Above(Passed(P, s), c))
           /\ n \notin Passed(P, s) =>
                 /\ Cardinality(Above(Passed(P, s), n)) = 0
                 /\ \A j \in 1 .. Len(s) : s[j] < n
           /\ n \in Passed(P, s) => n \in Above(Passed(P, s), c)
<1> DEFINE A == Above(Passed(P, s), n)
           C == Above(Passed(P, s), c)
<1>1. Name \subseteq Nat /\ P \subseteq Nat /\ n \in Nat /\ n \in Name
  BY EntryAssumption
<1>2. \A k \in Nat : (k > n => k > c) /\ ~(n > n)
  BY <1>1
<1>3. A \in SUBSET C /\ C \in SUBSET Name /\ n \notin A
  BY <1>1, <1>2 DEF Above, Passed
<1>4. n \in Passed(P, s) => n \in C
  BY DEF Above
<1>5. ASSUME n \notin Passed(P, s)
      PROVE  A = {} /\ \A j \in 1 .. Len(s) : s[j] < n
  <2>1. \A j \in 1 .. Len(s) : ~(n <= s[j]) /\ s[j] \in Nat
    <3>1. \A j \in 1 .. Len(s) : s[j] \in Name
      OBVIOUS
    <3>2. QED
      BY <1>1, <1>5, <3>1 DEF Passed
  <2>2. \A j \in 1 .. Len(s) : s[j] < n
    BY <1>1, <2>1
  <2>3. ASSUME NEW k \in A PROVE FALSE
    <3>1. k \in Nat /\ k > n
      BY <1>1, <2>3 DEF Above, Passed
    <3>2. PICK j \in 1 .. Len(s) : k <= s[j]
      BY <2>3 DEF Above, Passed
    <3>3. s[j] < n /\ s[j] \in Nat
      BY <2>1, <2>2
    <3>4. QED
      BY <1>1, <3>1, <3>2, <3>3
  <2>4. QED
    BY <2>2, <2>3
<1> HIDE DEF A, C
<1>6. Cardinality(A) \in Nat /\ Cardinality(C) \in Nat /\ Cardinality(A) <= Cardinality(C)
  BY <1>3, CardPart
<1>7. ASSUME n \in C PROVE Cardinality(A) + 1 <= Cardinality(C)
  <2>1. A \in SUBSET Name /\ A \cup {n} \in SUBSET C
    BY <1>3, <1>7
  <2>2. Cardinality(A \cup {n}) = Cardinality(A) + 1
    BY <1>1, <1>3, <2>1, CardAdded
  <2>3. Cardinality(A \cup {n}) <= Cardinality(C)
    BY <1>3, <2>1, CardPart
  <2>4. QED
    BY <2>2, <2>3
<1>8. A = {} => Cardinality(A) = 0
  BY FS_EmptySet
<1>9. QED
  BY <1>4, <1>5, <1>6, <1>7, <1>8 DEF A, C

\* The names before s, when the least is left out.
LEMMA BelowNext ==
    ASSUME NEW C \in SUBSET Name, NEW n \in C, \A k \in C : n <= k
    PROVE  /\ Cardinality(Below(C, n)) = 0
           /\ \A s : /\ Cardinality(Below(C, s)) \in Nat
                     /\ Cardinality(Below(C \ {n}, s)) \in Nat
                     /\ Cardinality(Below(C, s)) <= Cardinality(Below(C \ {n}, s)) + 1
<1>1. C \subseteq Nat /\ n \in Name
  BY EntryAssumption
<1>2. \A k \in C : ~(k < n)
  BY <1>1
<1>3. Below(C, n) = {}
  BY <1>2 DEF Below
<1>4. ASSUME NEW s
      PROVE  /\ Cardinality(Below(C, s)) \in Nat
             /\ Cardinality(Below(C \ {n}, s)) \in Nat
             /\ Cardinality(Below(C, s)) <= Cardinality(Below(C \ {n}, s)) + 1
  <2> DEFINE A == Below(C \ {n}, s)
             B == Below(C, s)
  <2>1. /\ A \in SUBSET Name /\ n \notin A /\ A \cup {n} \in SUBSET Name
        /\ B \in SUBSET (A \cup {n})
    BY <1>1 DEF Below
  <2> HIDE DEF A, B
  <2>2. Cardinality(A \cup {n}) = Cardinality(A) + 1
    BY <1>1, <2>1, CardAdded
  <2>3. Cardinality(B) <= Cardinality(A \cup {n}) /\ Cardinality(B) \in Nat
    BY <2>1, CardPart
  <2>4. Cardinality(A) \in Nat
    BY <2>1, CardPart
  <2>5. QED
    BY <2>2, <2>3, <2>4 DEF A, B
<1>5. QED
  BY <1>3, <1>4, FS_EmptySet

\* The names up to the cursor and the one that is taken come before s.
LEMMA BelowTaken ==
    ASSUME NEW P \in SUBSET Name, NEW c \in Int, NEW n \in P, n > c, NEW s \in P, n < s
    PROVE  /\ Cardinality(Upto(P, c)) \in Nat /\ Cardinality(Below(P, s)) \in Nat
           /\ Cardinality(Upto(P, c)) + 1 <= Cardinality(Below(P, s))
<1> DEFINE U == Upto(P, c)
           B == Below(P, s)
<1>1. P \subseteq Nat /\ n \in Nat /\ s \in Nat /\ n \in Name
  BY EntryAssumption
<1>2. \A k \in Nat : (k <= c => k < s) /\ ~(n <= c)
  BY <1>1
<1>3. /\ U \in SUBSET Name /\ B \in SUBSET Name /\ n \notin U
      /\ U \cup {n} \in SUBSET B
  BY <1>1, <1>2 DEF Upto, Below
<1> HIDE DEF U, B
<1>4. Cardinality(U \cup {n}) = Cardinality(U) + 1
  BY <1>1, <1>3, CardAdded
<1>5. Cardinality(U \cup {n}) <= Cardinality(B) /\ Cardinality(B) \in Nat
  BY <1>3, CardPart
<1>6. Cardinality(U) \in Nat
  BY <1>3, CardPart
<1>7. QED
  BY <1>4, <1>5, <1>6 DEF U, B

LEMMA StartStep ==
    ASSUME TypeOK, NEW l \in Lister, ListInv(l), Start(l)
    PROVE  ListInv(l)'
<1>1. /\ pc[l] = "idle" /\ pc'[l] = "call" /\ stayed'[l] = Present
      /\ changed'[l] = {} /\ i' = i /\ out' = out /\ Present' = Present
  BY DEF Start, TypeOK, Present
<1>2. out[l] = <<>> /\ i[l] = 0
  BY <1>1 DEF ListInv, IdleInv
<1>3. Listed(l)' = {}
  BY <1>1, <1>2 DEF Listed
<1>4. Passed(Present, <<>>) = {}
  BY DEF Passed
<1>5. Cardinality(Passed(Present, <<>>)) = 0
  BY <1>4, FS_EmptySet
<1>6. \A s : 0 <= Cardinality(Below(Present, s))
  BY Sizes, PresentNames
<1>7. RemovalInv(l)'
  BY <1>1, <1>2, <1>5 DEF RemovalInv, Increasing
<1>8. CreationInv(l)'
  BY <1>1, <1>2, <1>3, <1>6 DEF CreationInv
<1>9. QED
  BY <1>1, <1>7, <1>8 DEF ListInv, IdleInv, BufferInv, StayedInv

LEMMA OpendirStep ==
    ASSUME TypeOK, NEW l \in Lister, ListInv(l), Opendir(l)
    PROVE  ListInv(l)'
<1> DEFINE P == Present
<1>1. /\ pc'[l] = "scan" \/ (pc'[l] = "return" /\ failed'[l])
      /\ cursor'[l] = -1 /\ buffer'[l] = {} /\ doffset'[l] = 0 /\ entries'[l] = <<>>
      /\ i'[l] = i[l] /\ out'[l] = out[l] /\ stayed'[l] = stayed[l]
      /\ changed'[l] = changed[l] /\ Present' = P /\ pc[l] = "call"
  BY DEF Opendir, TypeOK, Present
<1>2. P \in SUBSET Name /\ i[l] \in Nat
  BY ListerFacts
<1>3. /\ Coming(P, -1, {}) = P /\ Above(P, -1) = P
      /\ Cardinality(Upto(P, -1)) = 0
      /\ Above(Passed(P, out[l]), -1) = Passed(P, out[l])
  BY <1>2, ScanFromStart
<1>4. Cardinality(Passed(P, out[l])) \in Nat /\ \A s : Cardinality(Below(P, s)) \in Nat
  BY <1>2, Sizes
<1>5. Listed(l)' = Listed(l) /\ Waiting(l)' = Waiting(l)
  BY <1>1 DEF Listed, Waiting
<1> HIDE DEF P
<1>6. RemovalInv(l)'
  <2> SUFFICES ASSUME "created" \notin changed[l] PROVE RemovalInv(l)'
    BY <1>1 DEF RemovalInv
  <2>1. Increasing(out[l]) /\ Cardinality(Passed(P, out[l])) <= i[l]
    BY DEF ListInv, RemovalInv, P
  <2>2. /\ Above(P, -1) \subseteq Coming(P, -1, {})
        /\ Cardinality(Upto(P, -1)) <= 0 /\ 0 <= i[l]
        /\ 0 + Cardinality(Above(Passed(P, out[l]), -1)) <= i[l]
    BY <1>2, <1>3, <1>4, <2>1
  <2>3. QED
    BY <1>1, <2>1, <2>2 DEF RemovalInv
<1>7. CreationInv(l)'
  <2> SUFFICES ASSUME "removed" \notin changed[l] PROVE CreationInv(l)'
    BY <1>1 DEF CreationInv
  <2>1. /\ Listed(l) \subseteq P /\ Waiting(l) \subseteq P
        /\ \A s \in Waiting(l) : i[l] <= Cardinality(Below(P, s))
    BY DEF ListInv, CreationInv, StayedInv, Waiting, P
  <2>2. \A s \in Waiting(l) :
          s \in Coming(P, -1, {}) /\ i[l] <= 0 + Cardinality(Below(Coming(P, -1, {}), s))
    BY <1>3, <1>4, <2>1
  <2>3. {} \subseteq P \cup Dots /\ 0 <= Cardinality(Upto(P, -1))
    BY <1>3
  <2>4. QED
    BY <1>1, <1>5, <2>1, <2>2, <2>3 DEF CreationInv
<1>8. QED
  BY <1>1, <1>6, <1>7 DEF ListInv, IdleInv, BufferInv, StayedInv, P

\* Nothing is skipped when the buffer is filled.
LEMMA RefillStep ==
    ASSUME TypeOK, NEW l \in Lister, ListInv(l), Refill(l)
    PROVE  ListInv(l)'
<1> DEFINE P == Present
           c == cursor[l]
           G == Getdents(l)
           rest == {n \in Present \cup Dots : n > cursor[l]}
<1>1. /\ pc[l] = "scan" /\ pc' = pc /\ buffer[l] = {} /\ buffer'[l] = G
      /\ cursor' = cursor /\ doffset' = doffset /\ entries' = entries
      /\ i' = i /\ out' = out /\ stayed' = stayed /\ failed' = failed
      /\ changed' = changed /\ Present' = P
  BY DEF Refill, TypeOK, Present
<1>2. P \in SUBSET Name /\ c \in Int
  BY ListerFacts
<1>3. rest \in SUBSET Entry
  BY <1>2 DEF Entry
<1>4. G = {n \in rest : Cardinality(Below(rest, n)) < Batch}
  BY DEF Getdents, Below
<1>5. \A k \in rest \ G : \A m \in G : m < k
  BY <1>3, <1>4, FirstEntries
<1>6. G \subseteq P \cup Dots /\ \A b \in G : b > c
  BY <1>4
<1>7. Coming(P, c, G) = Above(P, c) /\ Coming(P, c, {}) = Above(P, c)
  <2>1. \A k \in P : k > c => k \in G \/ \A m \in G : m < k
    BY <1>5
  <2>2. \A k \in P : k > c => k \in {} \/ \A m \in {} : m < k
    OBVIOUS
  <2> HIDE DEF P, c, G
  <2>3. QED
    BY <1>2, <2>1, <2>2, FreshBuffer
<1>8. Listed(l)' = Listed(l) /\ Waiting(l)' = Waiting(l)
  BY <1>1 DEF Listed, Waiting
<1>9. BufferInv(l)' /\ IdleInv(l)' /\ StayedInv(l)'
  BY <1>1, <1>6 DEF ListInv, BufferInv, IdleInv, StayedInv
<1>10. RemovalInv(l)'
  BY <1>1, <1>7 DEF ListInv, RemovalInv
<1>11. CreationInv(l)'
  BY <1>1, <1>6, <1>7, <1>8 DEF ListInv, CreationInv
<1>12. QED
  BY <1>9, <1>10, <1>11 DEF ListInv

\* readdir has come to its end only when nothing is left to come.
LEMMA ClosedirStep ==
    ASSUME TypeOK, NEW l \in Lister, ListInv(l), Closedir(l)
    PROVE  ListInv(l)'
<1> DEFINE P == Present
           c == cursor[l]
           rest == {n \in Present \cup Dots : n > cursor[l]}
<1>1. /\ pc[l] = "scan" /\ pc'[l] = "return" /\ buffer' = buffer
      /\ cursor' = cursor /\ doffset' = doffset /\ entries' = entries
      /\ i' = i /\ out' = out /\ stayed' = stayed /\ failed' = failed
      /\ changed' = changed /\ Present' = P
  BY DEF Closedir, TypeOK, Present
<1>2. P \in SUBSET Name /\ c \in Int
  BY ListerFacts
<1>3. entries[l] = <<>> => Coming(P, c, buffer[l]) = {}
  <2> SUFFICES ASSUME entries[l] = <<>> PROVE Coming(P, c, buffer[l]) = {}
    OBVIOUS
  <2>1. Wanted(l)
    BY DEF Wanted, Count
  <2>2. buffer[l] = {} /\ Getdents(l) = {}
    BY <2>1 DEF Closedir
  <2>3. rest \in SUBSET Entry
    BY <1>2 DEF Entry
  <2>4. {n \in rest : Cardinality(Below(rest, n)) < Batch} = {}
    BY <2>2 DEF Getdents, Below
  <2>5. rest = {}
    BY <2>3, <2>4, FirstEntries
  <2>6. QED
    BY <2>5 DEF Coming
<1>4. Listed(l)' = Listed(l) /\ Waiting(l)' = Waiting(l)
  BY <1>1 DEF Listed, Waiting
<1>5. BufferInv(l)' /\ IdleInv(l)' /\ StayedInv(l)'
  BY <1>1 DEF ListInv, BufferInv, IdleInv, StayedInv
<1>6. RemovalInv(l)'
  BY <1>1 DEF ListInv, RemovalInv
<1>7. CreationInv(l)'
  BY <1>1, <1>3, <1>4 DEF ListInv, CreationInv
<1>8. QED
  BY <1>5, <1>6, <1>7 DEF ListInv

\* One round of the loop: the entry n is not there any more, is skipped, or
\* is the one asked for.
LEMMA ReaddirStep ==
    ASSUME TypeOK, NEW l \in Lister, ListInv(l), Readdir(l)
    PROVE  ListInv(l)'
<1> DEFINE P == Present
           c == cursor[l]
           B == buffer[l]
           d == doffset[l]
           s == out[l]
<1>1. PICK n \in B :
        /\ \A m \in B : n <= m
        /\ cursor'[l] = n /\ buffer'[l] = B \ {n}
        /\ \/ n \notin P /\ doffset'[l] = d /\ entries'[l] = entries[l]
           \/ /\ n \in P /\ doffset'[l] = d + 1
              /\ \/ d < i[l] /\ entries'[l] = entries[l]
                 \/ ~(d < i[l]) /\ entries'[l] = Append(entries[l], n)
  BY DEF Readdir, Skipped, TypeOK
<1>2. /\ pc[l] = "scan" /\ pc' = pc /\ i' = i /\ out' = out /\ stayed' = stayed
      /\ failed' = failed /\ changed' = changed /\ Present' = P
  BY DEF Readdir, Present
<1>3. /\ P \in SUBSET Name /\ P \subseteq Nat /\ c \in Int /\ B \in SUBSET Entry
      /\ i[l] \in Nat /\ d \in Nat /\ s \in Seq(Name)
  BY ListerFacts
<1>4. entries[l] = <<>>
  <2>1. Len(entries[l]) < 1 /\ ~(1 < 1)
    BY DEF Readdir, Wanted, Count
  <2>2. QED
    BY <2>1, ListerFacts
<1>5. \A b \in B : b > c
  BY <1>2 DEF ListInv, BufferInv
<1>6. Listed(l)' = Listed(l) /\ Waiting(l)' = Waiting(l) /\ Waiting(l) \subseteq P
  BY <1>2 DEF Listed, Waiting, ListInv, StayedInv
<1> HIDE DEF P, c, B, d, s
<1>7. /\ n \in Nat /\ n > c
      /\ Coming(P, n, B \ {n}) = Coming(P, c, B) \ {n}
      /\ \A k \in Coming(P, c, B) : n <= k
      /\ n \in P => n \in Coming(P, c, B)
      /\ Upto(P, c) \subseteq Upto(P, n) \ {n}
      /\ \A b \in B \ {n} : b > n
      /\ Above(P, c) \subseteq Coming(P, c, B) =>
            /\ Above(P, n) \subseteq Coming(P, n, B \ {n})
            /\ Upto(P, n) \subseteq Upto(P, c) \cup {n}
  <2>1. n \in B /\ \A m \in B : n <= m
    BY <1>1
  <2>2. GoesOn(P, c, B, n)
    BY <1>3, <1>5, <2>1, NextEntry
  <2>3. QED
    BY <2>2, Zenon DEF GoesOn
<1>8. entries'[l] = <<>> \/ entries'[l] = <<n>>
  BY <1>1, <1>4
<1>9. IdleInv(l)' /\ BufferInv(l)' /\ StayedInv(l)'
  BY <1>1, <1>2, <1>7 DEF ListInv, IdleInv, BufferInv, StayedInv, B, P
<1>10. ASSUME "created" \notin changed[l]
       PROVE  RemovalInv(l)'
  <2> DEFINE A == Above(Passed(P, s), c)
             An == Above(Passed(P, s), n)
             u == Cardinality(Upto(P, c))
             un == Cardinality(Upto(P, n))
  <2>1. /\ Increasing(s) /\ Cardinality(Passed(P, s)) <= i[l]
        /\ Above(P, c) \subseteq Coming(P, c, B)
        /\ u <= d /\ d <= i[l] /\ d + Cardinality(A) <= i[l]
    BY <1>2, <1>4, <1>10 DEF ListInv, RemovalInv, P, c, B, d, s
  <2>2. Above(P, n) \subseteq Coming(P, n, B \ {n}) /\ Upto(P, n) \subseteq Upto(P, c) \cup {n}
    BY <1>7, <2>1
  <2>3. u \in Nat /\ un \in Nat /\ Cardinality(A) \in Nat /\ Cardinality(An) \in Nat
    BY <1>3, Sizes
  <2>4. CASE n \notin P
    <3>1. Upto(P, n) \in SUBSET Upto(P, c) /\ Upto(P, c) \in SUBSET Name
      BY <1>3, <2>2, <2>4 DEF Upto
    <3>2. un <= u
      BY <3>1, CardPart
    <3>3. An \in SUBSET A /\ A \in SUBSET Name
      <4>1. \A k \in P : k > n => k > c
        BY <1>3, <1>7
      <4>2. QED
        BY <1>3, <4>1 DEF Above, Passed
    <3>4. Cardinality(An) <= Cardinality(A)
      BY <3>3, CardPart
    <3> HIDE DEF A, An, u, un
    <3>5. un <= d /\ d + Cardinality(An) <= i[l]
      BY <1>3, <2>1, <2>3, <3>2, <3>4
    <3>6. doffset'[l] = d /\ entries'[l] = <<>>
      BY <1>1, <1>4, <2>4
    <3>7. QED
      BY <1>1, <1>2, <2>1, <2>2, <3>5, <3>6 DEF RemovalInv, P, s, An, un, B
  <2>5. CASE n \in P
    <3>1. /\ Cardinality(An) <= Cardinality(A)
          /\ n \in Passed(P, s) => Cardinality(An) + 1 <= Cardinality(A)
          /\ n \notin Passed(P, s) =>
                Cardinality(An) = 0 /\ \A j \in 1 .. Len(s) : s[j] < n
      BY <1>3, <1>7, <2>5, PassedNext
    <3>2. un <= u + 1
      BY <1>3, <1>7, <2>2, <2>5, UptoNext
    <3> HIDE DEF A, An, u, un
    <3>3. un <= d + 1
      BY <1>3, <2>1, <2>3, <3>2
    <3>4. CASE d < i[l] /\ entries'[l] = entries[l]
      <4>1. (d + 1) + Cardinality(An) <= i[l]
        <5>1. CASE n \in Passed(P, s)
          BY <1>3, <2>1, <2>3, <3>1, <5>1
        <5>2. CASE n \notin Passed(P, s)
          <6>1. Cardinality(An) = 0
            BY <3>1, <5>2
          <6>2. QED
            BY <1>3, <3>4, <6>1
        <5>3. QED
          BY <5>1, <5>2
      <4>2. d + 1 <= i[l]
        BY <1>3, <3>4
      <4>3. doffset'[l] = d + 1 /\ entries'[l] = <<>>
        BY <1>1, <1>4, <2>5, <3>4
      <4>4. QED
        BY <1>1, <1>2, <2>1, <2>2, <3>3, <4>1, <4>2, <4>3 DEF RemovalInv, P, s, An, un, B
    <3>5. CASE ~(d < i[l]) /\ entries'[l] = Append(entries[l], n)
      <4>1. entries'[l] = <<n>> /\ doffset'[l] = d + 1
        BY <1>1, <1>4, <2>5, <3>5
      <4>2. d = i[l] /\ Cardinality(A) <= 0
        BY <1>3, <2>1, <2>3, <3>5
      <4>3. n \notin Passed(P, s)
        BY <2>3, <3>1, <4>2
      <4>4. \A j \in 1 .. Len(s) : s[j] < n
        BY <3>1, <4>3
      <4>5. un <= i[l] + 1
        BY <3>3, <4>2
      <4>6. entries'[l][1] = n /\ entries'[l] # <<>>
        BY <4>1
      <4>7. QED
        BY <1>1, <1>2, <2>1, <2>2, <3>3, <4>1, <4>4, <4>5, <4>6
           DEF RemovalInv, P, s, un, B
    <3>6. QED
      BY <1>1, <2>5, <3>4, <3>5
  <2>6. QED
    BY <2>4, <2>5
<1>11. ASSUME "removed" \notin changed[l]
       PROVE  CreationInv(l)'
  <2> DEFINE C == Coming(P, c, B)
             Cn == Coming(P, n, B \ {n})
             u == Cardinality(Upto(P, c))
             un == Cardinality(Upto(P, n))
  <2>1. /\ Listed(l) \subseteq P
        /\ \A x \in Waiting(l) : i[l] <= Cardinality(Below(P, x))
        /\ B \subseteq P \cup Dots /\ d <= u
        /\ \A x \in Waiting(l) : x \in C /\ i[l] <= d + Cardinality(Below(C, x))
    BY <1>2, <1>4, <1>11 DEF ListInv, CreationInv, P, c, B, d
  <2>2. B \ {n} \subseteq P \cup Dots
    BY <2>1
  <2>3. u \in Nat /\ un \in Nat
    BY <1>3, Sizes
  <2>4. Cn = C \ {n} /\ C \in SUBSET Name
    BY <1>3, <1>7 DEF Coming
  <2>5. CASE n \notin P
    <3>1. C \ {n} = C
      BY <2>5 DEF Coming
    <3>2. Upto(P, c) \in SUBSET Upto(P, n) /\ Upto(P, n) \in SUBSET Name
      BY <1>3, <1>7 DEF Upto
    <3>3. u <= un
      BY <3>2, CardPart
    <3> HIDE DEF C, Cn, u, un
    <3>4. d <= un
      BY <1>3, <2>1, <2>3, <3>3
    <3>5. doffset'[l] = d /\ entries'[l] = <<>>
      BY <1>1, <1>4, <2>5
    <3>6. \A x \in Waiting(l) : x \in Cn /\ i[l] <= d + Cardinality(Below(Cn, x))
      BY <2>1, <2>4, <3>1
    <3>7. QED
      BY <1>1, <1>2, <1>6, <2>1, <2>2, <3>4, <3>5, <3>6 DEF CreationInv, P, B, Cn, un
  <2>6. CASE n \in P
    <3>1. n \in C /\ \A k \in C : n <= k
      BY <1>7, <2>6
    <3>2. u + 1 <= un
      BY <1>3, <1>7, <2>6, UptoNext
    <3> HIDE DEF C, Cn, u, un
    <3>3. d + 1 <= un
      BY <1>3, <2>1, <2>3, <3>2
    <3>4. CASE d < i[l] /\ entries'[l] = entries[l]
      <4>1. /\ Cardinality(Below(C, n)) = 0
            /\ \A x : /\ Cardinality(Below(C, x)) \in Nat
                      /\ Cardinality(Below(C \ {n}, x)) \in Nat
                      /\ Cardinality(Below(C, x)) <= Cardinality(Below(C \ {n}, x)) + 1
        BY <2>4, <3>1, BelowNext
      <4>2. ASSUME NEW x \in Waiting(l)
            PROVE  x \in Cn /\ i[l] <= (d + 1) + Cardinality(Below(Cn, x))
        <5>1. x \in C /\ i[l] <= d + Cardinality(Below(C, x))
          BY <2>1
        <5>2. x # n
          <6>1. SUFFICES ASSUME x = n PROVE FALSE
            OBVIOUS
          <6>2. i[l] <= d + 0
            BY <4>1, <5>1, <6>1
          <6>3. QED
            BY <1>3, <3>4, <6>2
        <5>3. /\ Cardinality(Below(C, x)) \in Nat
              /\ Cardinality(Below(Cn, x)) \in Nat
              /\ Cardinality(Below(C, x)) <= Cardinality(Below(Cn, x)) + 1
          BY <2>4, <4>1
        <5>4. QED
          BY <1>3, <2>4, <5>1, <5>2, <5>3
      <4>3. doffset'[l] = d + 1 /\ entries'[l] = <<>>
        BY <1>1, <1>4, <2>6, <3>4
      <4>4. QED
        BY <1>1, <1>2, <1>6, <2>1, <2>2, <3>3, <4>2, <4>3 DEF CreationInv, P, B, Cn, un
    <3>5. CASE ~(d < i[l]) /\ entries'[l] = Append(entries[l], n)
      <4>1. entries'[l] = <<n>> /\ doffset'[l] = d + 1
        BY <1>1, <1>4, <2>6, <3>5
      <4>2. entries'[l][1] = n /\ entries'[l] # <<>>
        BY <4>1
      <4>3. ASSUME NEW x \in Waiting(l), x # n
            PROVE  i[l] + 1 <= Cardinality(Below(P, x))
        <5>1. x \in P /\ x \in Nat /\ n <= x
          BY <1>3, <1>6, <2>1, <3>1
        <5>2. n < x
          BY <1>7, <4>3, <5>1
        <5>3. Cardinality(Below(P, x)) \in Nat /\ u + 1 <= Cardinality(Below(P, x))
          BY <1>3, <1>7, <2>6, <5>1, <5>2, BelowTaken DEF u
        <5>4. QED
          BY <1>3, <2>1, <2>3, <3>5, <5>3
      <4>4. QED
        BY <1>1, <1>2, <1>6, <2>1, <2>2, <2>6, <3>3, <4>1, <4>2, <4>3
           DEF CreationInv, P, B, un
    <3>6. QED
      BY <1>1, <2>6, <3>4, <3>5
  <2>7. QED
    BY <2>5, <2>6
<1>12. RemovalInv(l)' /\ CreationInv(l)'
  BY <1>2, <1>10, <1>11 DEF RemovalInv, CreationInv
<1>13. QED
  BY <1>9, <1>12 DEF ListInv

\* The entry of the reply is added to what is listed.
LEMMA MoreStep ==
    ASSUME TypeOK, NEW l \in Lister, ListInv(l), pc[l] = "return", Readent(l), More(l),
           dir' = dir, stayed' = stayed, changed' = changed
    PROVE  ListInv(l)'
<1> DEFINE P == Present
           s == out[l]
           t == out'[l]
           e == entries[l][1]
<1>1. P \in SUBSET Name /\ P \subseteq Nat /\ i[l] \in Nat /\ s \in Seq(Name)
  BY ListerFacts
<1>2. e \in Name /\ e \in Nat /\ entries[l] # <<>> /\ entries[l] = <<e>>
  <2>1. entries[l] \in Seq(Name) /\ Len(entries[l]) = 1
    BY ListerFacts DEF Readent
  <2>2. e \in Name /\ entries[l] # <<>> /\ entries[l] = <<e>>
    BY <2>1
  <2>3. QED
    BY <2>2, EntryAssumption
<1>3. /\ pc'[l] = "call" /\ i'[l] = i[l] + 1 /\ t = s \o <<e>> /\ Present' = P
      /\ stayed'[l] = stayed[l] /\ changed'[l] = changed[l]
  BY <1>2 DEF More, Advance, TypeOK, Present
<1> HIDE DEF e, s, P
<1>4. /\ Len(t) = Len(s) + 1 /\ t[Len(s) + 1] = e /\ \A j \in 1 .. Len(s) : t[j] = s[j]
      /\ Len(s) \in Nat
  BY <1>1, <1>2, <1>3
<1> HIDE DEF t
<1>5. 1 .. Len(t) = (1 .. Len(s)) \cup {Len(s) + 1}
  BY <1>4
<1>6. \A j \in 1 .. Len(s) : s[j] \in Nat
  <2>1. \A j \in 1 .. Len(s) : s[j] \in Name
    BY <1>1
  <2>2. QED
    BY <2>1, EntryAssumption
<1>7. IdleInv(l)' /\ BufferInv(l)' /\ StayedInv(l)'
  BY <1>3 DEF ListInv, IdleInv, BufferInv, StayedInv, P
<1>8. ASSUME "created" \notin changed[l]
      PROVE  RemovalInv(l)'
  <2>1. /\ Increasing(s) /\ \A j \in 1 .. Len(s) : s[j] < e
        /\ Cardinality(Upto(P, e)) <= i[l] + 1
    BY <1>2, <1>8 DEF ListInv, RemovalInv, s, e, P
  <2>2. Increasing(t)
    <3> SUFFICES ASSUME NEW j \in 1 .. Len(t), NEW k \in 1 .. Len(t), j < k
                 PROVE  t[j] < t[k]
      BY DEF Increasing
    <3>1. j \in 1 .. Len(s) /\ (k \in 1 .. Len(s) \/ k = Len(s) + 1)
      BY <1>4
    <3>2. CASE k \in 1 .. Len(s)
      BY <1>4, <2>1, <3>1, <3>2 DEF Increasing
    <3>3. CASE k = Len(s) + 1
      BY <1>4, <2>1, <3>1, <3>3
    <3>4. QED
      BY <3>1, <3>2, <3>3
  <2>3. Passed(P, t) \in SUBSET Upto(P, e) /\ Upto(P, e) \in SUBSET Name
    <3>1. ASSUME NEW k \in P, NEW j \in 1 .. Len(t), k <= t[j]
          PROVE  k <= e
      <4>1. k \in Nat
        BY <1>1
      <4>2. CASE j \in 1 .. Len(s)
        <5>1. t[j] = s[j] /\ s[j] < e /\ s[j] \in Nat
          BY <1>4, <1>6, <2>1, <4>2
        <5>2. QED
          BY <1>2, <3>1, <4>1, <5>1
      <4>3. CASE j = Len(s) + 1
        BY <1>4, <3>1, <4>3
      <4>4. QED
        BY <1>5, <4>2, <4>3
    <3>2. QED
      BY <1>1, <3>1 DEF Passed, Upto
  <2>4. /\ Cardinality(Passed(P, t)) <= Cardinality(Upto(P, e))
        /\ Cardinality(Passed(P, t)) \in Nat /\ Cardinality(Upto(P, e)) \in Nat
    BY <2>3, CardPart
  <2>5. Cardinality(Passed(P, t)) <= i[l] + 1
    BY <1>1, <2>1, <2>4
  <2>6. QED
    BY <1>3, <2>2, <2>5 DEF RemovalInv, t
<1>9. ASSUME "removed" \notin changed[l]
      PROVE  CreationInv(l)'
  <2>1. /\ Listed(l) \subseteq P /\ e \in P
        /\ \A x \in Waiting(l) : x = e \/ i[l] + 1 <= Cardinality(Below(P, x))
    BY <1>2, <1>9 DEF ListInv, CreationInv, e, P
  <2>2. Listed(l)' = Listed(l) \cup {e}
    <3>1. Listed(l) = {s[k] : k \in 1 .. Len(s)} /\ Listed(l)' = {t[k] : k \in 1 .. Len(t)}
      BY DEF Listed, s, t
    <3>2. {t[k] : k \in 1 .. Len(t)} = {s[k] : k \in 1 .. Len(s)} \cup {e}
      BY <1>4, <1>5
    <3>3. QED
      BY <3>1, <3>2
  <2>3. Waiting(l)' = Waiting(l) \ {e}
    BY <1>3, <2>2 DEF Waiting
  <2>4. QED
    BY <1>3, <2>1, <2>2, <2>3 DEF CreationInv
<1>10. RemovalInv(l)' /\ CreationInv(l)'
  BY <1>3, <1>8, <1>9 DEF RemovalInv, CreationInv
<1>11. QED
  BY <1>7, <1>10 DEF ListInv

\* Without an entry the listing is over.
LEMMA StopStep ==
    ASSUME TypeOK, NEW l \in Lister, ListInv(l), pc[l] = "return", Stop(l),
           dir' = dir, stayed' = stayed, changed' = changed,
           failed'[l] \/ (~Readent(l) /\ failed'[l] = failed[l])
    PROVE  ListInv(l)'
<1>1. /\ pc'[l] = "done" /\ i' = i /\ out' = out /\ Present' = Present
      /\ stayed'[l] = stayed[l] /\ changed'[l] = changed[l]
  BY DEF Stop, TypeOK, Present
<1>2. Listed(l)' = Listed(l) /\ Waiting(l)' = Waiting(l)
  BY <1>1 DEF Listed, Waiting
<1>3. ~Readent(l) => entries[l] = <<>>
  BY ListerFacts DEF Readent
<1>4. IdleInv(l)' /\ BufferInv(l)' /\ StayedInv(l)'
  BY <1>1 DEF ListInv, IdleInv, BufferInv, StayedInv
<1>5. RemovalInv(l)'
  BY <1>1 DEF ListInv, RemovalInv
<1>6. CreationInv(l)'
  BY <1>1, <1>2, <1>3 DEF ListInv, CreationInv
<1>7. QED
  BY <1>4, <1>5, <1>6 DEF ListInv

LEMMA ListStep ==
    ASSUME TypeOK, NEW l \in Lister, ListInv(l), Start(l) \/ Listing(l)
    PROVE  ListInv(l)'
<1>1. CASE Start(l)
  BY <1>1, StartStep
<1>2. CASE Opendir(l)
  BY <1>2, OpendirStep
<1>3. CASE Refill(l)
  BY <1>3, RefillStep
<1>4. CASE Readdir(l)
  BY <1>4, ReaddirStep
<1>5. CASE Closedir(l)
  BY <1>5, ClosedirStep
<1>6. CASE Ls(l) \/ Icbinnfs_readdir(l)
  <2>1. pc[l] = "return" /\ dir' = dir /\ stayed' = stayed /\ changed' = changed
    BY <1>6 DEF Ls, Icbinnfs_readdir
  <2>2. CASE Readent(l) /\ More(l)
    BY <2>1, <2>2, MoreStep
  <2>3. CASE ~(Readent(l) /\ More(l))
    <3>1. Stop(l) /\ (failed'[l] \/ (~Readent(l) /\ failed'[l] = failed[l]))
      BY <1>6, <2>3 DEF Ls, Icbinnfs_readdir, TypeOK
    <3>2. QED
      BY <2>1, <3>1, StopStep
  <2>4. QED
    BY <2>2, <2>3
<1>7. QED
  BY <1>1, <1>2, <1>3, <1>4, <1>5, <1>6 DEF Listing

-----------------------------------------------------------------------------
(* The theorems.                                                           *)

LEMMA NamesInit == Init => NamesInv
<1> SUFFICES ASSUME Init PROVE NamesInv
  OBVIOUS
<1>1. TypeOK
  BY TypeInit
<1>2. ASSUME NEW l \in Lister
      PROVE  ListInv(l)
  <2>1. /\ pc[l] = "idle" /\ out[l] = <<>> /\ i[l] = 0 /\ stayed[l] = {}
    BY DEF Init
  <2>2. Cardinality(Passed(Present, <<>>)) = 0
    <3>1. Passed(Present, <<>>) = {}
      BY DEF Passed
    <3>2. QED
      BY <3>1, FS_EmptySet
  <2>3. Listed(l) = {} /\ Waiting(l) = {}
    BY <2>1 DEF Listed, Waiting
  <2>4. RemovalInv(l)
    BY <2>1, <2>2 DEF RemovalInv, Increasing
  <2>5. CreationInv(l)
    BY <2>1, <2>3 DEF CreationInv
  <2>6. QED
    BY <2>1, <2>4, <2>5 DEF ListInv, IdleInv, BufferInv, StayedInv
<1>3. QED
  BY <1>1, <1>2 DEF NamesInv

LEMMA NamesStep ==
    ASSUME NamesInv, [Next]_vars
    PROVE  NamesInv'
<1>1. TypeOK /\ TypeOK' /\ \A l \in Lister : ListInv(l)
  BY TypeStep DEF NamesInv
<1>2. ASSUME NEW l \in Lister
      PROVE  ListInv(l)'
  <2>1. CASE UNCHANGED vars
    BY <1>1, <2>1, OtherListing DEF vars, listing
  <2>2. CASE Change
    <3>1. PICK kinds \in SUBSET {"created", "removed"} :
            /\ Watch(kinds) /\ kinds # {}
            /\ "created" \notin kinds => Present' \subseteq Present
            /\ "removed" \notin kinds => Present \subseteq Present'
      BY <1>1, <2>2, ChangeEffect
    <3>2. QED
      BY <1>1, <3>1, ChangeKeeps
  <2>3. ASSUME NEW m \in Lister, Start(m) \/ Listing(m)
        PROVE  ListInv(l)'
    <3>1. CASE m = l
      BY <1>1, <2>3, <3>1, ListStep
    <3>2. CASE m # l
      <4>1. /\ dir' = dir /\ pc'[l] = pc[l] /\ i'[l] = i[l] /\ cursor'[l] = cursor[l]
            /\ buffer'[l] = buffer[l] /\ doffset'[l] = doffset[l]
            /\ entries'[l] = entries[l] /\ out'[l] = out[l] /\ failed'[l] = failed[l]
            /\ stayed'[l] = stayed[l] /\ changed'[l] = changed[l]
        <5>1. CASE Start(m)
          BY <1>1, <3>2, <5>1 DEF Start, TypeOK
        <5>2. CASE Opendir(m)
          BY <1>1, <3>2, <5>2 DEF Opendir, TypeOK
        <5>3. CASE Refill(m)
          BY <1>1, <3>2, <5>3 DEF Refill, TypeOK
        <5>4. CASE Readdir(m)
          BY <1>1, <3>2, <5>4 DEF Readdir, TypeOK
        <5>5. CASE Closedir(m)
          BY <1>1, <3>2, <5>5 DEF Closedir, TypeOK
        <5>6. CASE Ls(m)
          BY <1>1, <3>2, <5>6 DEF Ls, More, Stop, TypeOK
        <5>7. CASE Icbinnfs_readdir(m)
          BY <1>1, <3>2, <5>7 DEF Icbinnfs_readdir, More, Stop, TypeOK
        <5>8. QED
          BY <2>3, <5>1, <5>2, <5>3, <5>4, <5>5, <5>6, <5>7 DEF Listing
      <4>2. QED
        BY <1>1, <4>1, OtherListing
    <3>3. QED
      BY <3>1, <3>2
  <2>4. QED
    BY <2>1, <2>2, <2>3 DEF Next
<1>3. QED
  BY <1>1, <1>2 DEF NamesInv

\* The scans, the offsets and what is listed keep in step with a directory
\* that changes under them.
THEOREM NamesInvariant == Spec => []NamesInv
BY NamesInit, NamesStep, PTL DEF Spec

\* While names are only removed no listing shows an entry twice.
THEOREM RemovalsRepeatNothingAlways == Spec => []RemovalsRepeatNothing
<1>1. NamesInv => RemovalsRepeatNothing
  <2> SUFFICES ASSUME NamesInv, NEW l \in Lister, "created" \notin changed[l],
                      NEW j \in 1 .. Len(out[l]), NEW k \in 1 .. Len(out[l]),
                      out[l][j] = out[l][k]
               PROVE  j = k
    BY DEF RemovalsRepeatNothing
  <2>1. Increasing(out[l]) /\ out[l] \in Seq(Name)
    BY ListerFacts DEF NamesInv, ListInv, RemovalInv
  <2>2. out[l][j] \in Nat /\ j \in Int /\ k \in Int
    BY <2>1, EntryAssumption
  <2>3. ~(out[l][j] < out[l][j])
    BY <2>2
  <2>4. ~(j < k) /\ ~(k < j)
    BY <2>1, <2>3, Zenon DEF Increasing
  <2>5. QED
    BY <2>2, <2>4
<1>2. QED
  BY <1>1, NamesInvariant, PTL

\* While names are only added no listing that ends without a failure misses
\* an entry that was there all the time.
THEOREM CreationsHideNothingAlways == Spec => []CreationsHideNothing
<1>1. NamesInv => CreationsHideNothing
  BY DEF NamesInv, ListInv, CreationInv, CreationsHideNothing, Waiting
<1>2. QED
  BY <1>1, NamesInvariant, PTL

\* A listing of a directory nobody changes is exact.
THEOREM QuietListingExactAlways == Spec => []QuietListingExact
<1>1. NamesInv => QuietListingExact
  <2> SUFFICES ASSUME NamesInv, NEW l \in Lister,
                      pc[l] = "done", ~failed[l], changed[l] = {}
               PROVE  Listed(l) = Present /\ Increasing(out[l])
    BY DEF QuietListingExact, Increasing
  <2>1. stayed[l] = Present
    BY DEF NamesInv, ListInv, StayedInv
  <2>2. Listed(l) \subseteq Present /\ Waiting(l) = {}
    BY DEF NamesInv, ListInv, CreationInv
  <2>3. Increasing(out[l])
    BY DEF NamesInv, ListInv, RemovalInv
  <2>4. QED
    BY <2>1, <2>2, <2>3 DEF Waiting
<1>2. QED
  BY <1>1, NamesInvariant, PTL
=============================================================================
