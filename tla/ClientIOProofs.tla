--------------------------- MODULE ClientIOProofs ---------------------------
(***************************************************************************)
(* Proofs about ClientIO for any number of clients, files and data of any  *)
(* length and requests of any size.                                        *)
(***************************************************************************)
EXTENDS ClientIO, ServerFilesProofs, SequenceTheorems, TLAPS

-----------------------------------------------------------------------------
(* The inductive invariant.                                                *)

Fault == {"error", "lost", "short"}

Args ==
    [op : {"none", "pread", "pwrite", "rand"}, src : Device \cup {"file", "other"},
     offset : Nat, count : Nat, data : Seq(Data)]

CallTables ==
    /\ pc \in [Conn -> {"idle", "loop", "done"}]
    /\ args \in [Conn -> Args]
    /\ count \in [Conn -> Nat] /\ offset \in [Conn -> Nat] /\ ret \in [Conn -> Nat]
    /\ result \in [Conn -> Int] /\ buf \in [Conn -> Seq(Unit)]
    /\ before \in [Conn -> Seq(Unit)] /\ disturbed \in [Conn -> BOOLEAN]
    /\ faults \in [Conn -> SUBSET Fault]

\* As long as its process runs the client's descriptor is open on the file.
FdInv(c) == up[c] => fdtable[c][TheFd] = [ino |-> File, read |-> TRUE, write |-> TRUE]

\* Before the call nothing has been done.
IdleInv(c) ==
    pc[c] = "idle" =>
        /\ ret[c] = 0 /\ result[c] = 0 /\ buf[c] = <<>> /\ faults[c] = {}
        /\ args[c] = NoArgs

ArgsInv(c) == args[c].op = "pwrite" => Len(args[c].data) = args[c].count

\* Between two requests of a call: ret is what has been done, offset where to
\* go on, and nothing has failed yet; what was read is in the buffer, what
\* was to be written is in the file.
LoopInv(c) ==
    pc[c] = "loop" =>
        /\ ret[c] + count[c] = args[c].count
        /\ offset[c] = args[c].offset + ret[c]
        /\ result[c] = 0
        /\ args[c].op = "pread" /\ ~disturbed[c] =>
              /\ buf[c] = Slice(content[File], args[c].offset, ret[c])
              /\ Len(buf[c]) = ret[c]
        /\ args[c].op = "pwrite" /\ ~disturbed[c] /\ "short" \notin faults[c] =>
              content[File] = Overwrite(before[c], args[c].offset,
                                        SubSeq(args[c].data, 1, ret[c]))

\* What a call that is over has done: the properties, for one client.
ReadDone(c) ==
    Done(c, "pread") /\ ~disturbed[c] =>
        /\ buf[c] = Slice(content[File], args[c].offset, Reported(c))
        /\ Len(buf[c]) = Reported(c)
        /\ result[c] = 0 =>
             args[c].count = 0 \/ args[c].offset >= Len(content[File])

WriteDone(c) ==
    Done(c, "pwrite") /\ ~disturbed[c] /\ "short" \notin faults[c] =>
        \E extra \in 0 .. (IF "lost" \in faults[c] THEN MaxData ELSE 0) :
            content[File] = Overwrite(before[c], args[c].offset,
                SubSeq(args[c].data, 1,
                    IF Reported(c) + extra > Len(args[c].data)
                    THEN Len(args[c].data) ELSE Reported(c) + extra))

ShortDone(c) ==
    pc[c] = "done" /\ result[c] # args[c].count =>
        \/ faults[c] # {}
        \/ /\ args[c].op = "pread"
           /\ \/ disturbed[c]
              \/ args[c].offset + args[c].count > Len(content[File])

ClientInv(c) ==
    /\ FdInv(c) /\ IdleInv(c) /\ ArgsInv(c) /\ LoopInv(c)
    /\ result[c] \in -1 .. args[c].count
    /\ ReadDone(c) /\ WriteDone(c) /\ ShortDone(c)

IOInv == TypeOK /\ CallTables /\ \A c \in Conn : ClientInv(c)

-----------------------------------------------------------------------------
(* The parts of a read and of a write.                                     *)

\* What has been read and the part that follows it.
LEMMA ReadPart ==
    ASSUME NEW s \in Seq(Unit), NEW a \in Nat, NEW r \in Nat, NEW n \in Nat,
           Len(Slice(s, a, r)) = r
    PROVE  /\ Slice(s, a, r) \o Slice(s, a + r, n)
                = Slice(s, a, r + Len(Slice(s, a + r, n)))
           /\ Len(Slice(s, a, r) \o Slice(s, a + r, n))
                = r + Len(Slice(s, a + r, n))
<1> DEFINE p == Slice(s, a, r)
<1> DEFINE d == Slice(s, a + r, n)
<1>1. /\ p \in Seq(Unit) /\ Len(p) = r
      /\ r = IF a >= Len(s) THEN 0 ELSE IF a + r > Len(s) THEN Len(s) - a ELSE r
      /\ \A k \in 1 .. Len(p) : p[k] = s[a + k]
  BY SliceElements
<1>2. /\ d \in Seq(Unit)
      /\ Len(d) = IF a + r >= Len(s) THEN 0
                  ELSE IF a + r + n > Len(s) THEN Len(s) - (a + r) ELSE n
      /\ \A k \in 1 .. Len(d) : d[k] = s[a + r + k]
  <2>1. a + r \in Nat
    OBVIOUS
  <2>2. QED
    BY <2>1, SliceElements
<1> HIDE DEF p, d
<1>3. Len(d) \in Nat /\ r + Len(d) \in Nat
  BY <1>2
<1> DEFINE u == Slice(s, a, r + Len(d))
<1>4. /\ u \in Seq(Unit)
      /\ Len(u) = IF a >= Len(s) THEN 0
                  ELSE IF a + (r + Len(d)) > Len(s) THEN Len(s) - a ELSE r + Len(d)
      /\ \A k \in 1 .. Len(u) : u[k] = s[a + k]
  BY <1>3, SliceElements
<1> HIDE DEF u
<1>5. Len(u) = r + Len(d)
  BY <1>1, <1>2, <1>3, <1>4
<1>6. /\ p \o d \in Seq(Unit) /\ Len(p \o d) = r + Len(d)
      /\ \A k \in 1 .. r + Len(d) : (p \o d)[k] = IF k <= r THEN p[k] ELSE d[k - r]
  <2>1. /\ p \o d \in Seq(Unit) /\ Len(p \o d) = Len(p) + Len(d)
        /\ \A k \in 1 .. Len(p) + Len(d) :
              (p \o d)[k] = IF k <= Len(p) THEN p[k] ELSE d[k - Len(p)]
    <3>1. p \in Seq(Unit) /\ d \in Seq(Unit)
      BY <1>1, <1>2
    <3>2. QED
      BY <3>1, ConcatProperties, Zenon
  <2>2. QED
    BY <1>1, <2>1
<1>7. \A k \in 1 .. r + Len(d) : (p \o d)[k] = u[k]
  <2> SUFFICES ASSUME NEW k \in 1 .. r + Len(d) PROVE (p \o d)[k] = u[k]
    OBVIOUS
  <2>1. u[k] = s[a + k]
    BY <1>4, <1>5
  <2>2. CASE k <= r
    BY <1>1, <1>6, <2>1, <2>2
  <2>3. CASE k > r
    <3>1. k - r \in 1 .. Len(d) /\ a + r + (k - r) = a + k
      BY <1>3, <2>3
    <3>2. d[k - r] = s[a + r + (k - r)]
      BY <1>2, <3>1
    <3>3. QED
      BY <1>6, <2>1, <2>3, <3>1, <3>2
  <2>4. k <= r \/ k > r
    BY <1>3
  <2>5. QED
    BY <2>2, <2>3, <2>4, Zenon
<1>8. p \o d = u
  BY <1>4, <1>5, <1>6, <1>7, SeqEqual
<1>9. QED
  BY <1>6, <1>8 DEF p, d, u

\* A part that is shorter than it should be ends where the file does.
LEMMA ShortPart ==
    ASSUME NEW s \in Seq(Unit), NEW a \in Nat, NEW r \in Nat, NEW n \in Nat
    PROVE  /\ Len(Slice(s, a + r, n)) < n => a + r + n > Len(s)
           /\ Len(Slice(s, a + r, n)) = 0 /\ n > 0 => a + r >= Len(s)
<1>1. a + r \in Nat /\ Len(s) \in Nat
  OBVIOUS
<1>2. Len(Slice(s, a + r, n)) =
         IF a + r >= Len(s) THEN 0
         ELSE IF a + r + n > Len(s) THEN Len(s) - (a + r) ELSE n
  BY <1>1, SliceElements
<1>3. QED
  BY <1>1, <1>2

\* Two writes, the second where the first ends, are one.
LEMMA WriteOn ==
    ASSUME NEW s \in Seq(Unit), NEW o \in Nat, NEW p \in Seq(Unit), NEW q \in Seq(Unit)
    PROVE  Overwrite(Overwrite(s, o, p), o + Len(p), q) = Overwrite(s, o, p \o q)
<1>1. CASE p = <<>>
  <2>1. Overwrite(s, o, p) = s /\ o + Len(p) = o /\ p \o q = q
    BY <1>1 DEF Overwrite
  <2>2. QED
    BY <2>1
<1>2. CASE q = <<>>
  <2>1. p \o q = p
    BY <1>2
  <2>2. QED
    BY <1>2, <2>1 DEF Overwrite
<1>3. CASE p # <<>> /\ q # <<>>
  <2> DEFINE t == Overwrite(s, o, p)
  <2> DEFINE v == Overwrite(t, o + Len(p), q)
  <2> DEFINE w == Overwrite(s, o, p \o q)
  <2>1. /\ p \o q \in Seq(Unit) /\ p \o q # <<>> /\ Len(p \o q) = Len(p) + Len(q)
        /\ \A k \in 1 .. Len(p) + Len(q) :
              (p \o q)[k] = IF k <= Len(p) THEN p[k] ELSE q[k - Len(p)]
        /\ Len(p) \in Nat /\ Len(p) > 0 /\ Len(q) \in Nat /\ Len(q) > 0
        /\ o + Len(p) \in Nat
    BY <1>3
  <2>2. /\ t \in Seq(Unit)
        /\ Len(t) = IF Len(s) > o + Len(p) THEN Len(s) ELSE o + Len(p)
        /\ \A k \in 1 .. Len(t) :
              t[k] = IF k > o /\ k <= o + Len(p) THEN p[k - o]
                     ELSE IF k <= Len(s) THEN s[k] ELSE Zero
    BY <1>3, OverwriteElements
  <2> HIDE DEF t
  <2>3. /\ v \in Seq(Unit)
        /\ Len(v) = IF Len(t) > o + Len(p) + Len(q) THEN Len(t)
                    ELSE o + Len(p) + Len(q)
        /\ \A k \in 1 .. Len(v) :
              v[k] = IF k > o + Len(p) /\ k <= o + Len(p) + Len(q)
                     THEN q[k - (o + Len(p))]
                     ELSE IF k <= Len(t) THEN t[k] ELSE Zero
    BY <1>3, <2>1, <2>2, OverwriteElements
  <2> HIDE DEF v
  <2>4. /\ w \in Seq(Unit)
        /\ Len(w) = IF Len(s) > o + Len(p \o q) THEN Len(s) ELSE o + Len(p \o q)
        /\ \A k \in 1 .. Len(w) :
              w[k] = IF k > o /\ k <= o + Len(p \o q) THEN (p \o q)[k - o]
                     ELSE IF k <= Len(s) THEN s[k] ELSE Zero
    BY <2>1, OverwriteElements
  <2> HIDE DEF w
  <2>5. Len(v) = Len(w) /\ Len(w) >= o + Len(p) + Len(q) /\ Len(t) <= Len(w)
        /\ Len(t) >= o + Len(p) /\ Len(s) <= Len(t)
    BY <2>1, <2>2, <2>3, <2>4
  <2>6. \A k \in 1 .. Len(w) : v[k] = w[k]
    <3> SUFFICES ASSUME NEW k \in 1 .. Len(w) PROVE v[k] = w[k]
      OBVIOUS
    <3>1. CASE k <= o
      BY <2>1, <2>2, <2>3, <2>4, <2>5, <3>1
    <3>2. CASE k > o /\ k <= o + Len(p)
      <4>1. k \in 1 .. Len(t) /\ k - o \in 1 .. Len(p) + Len(q) /\ k - o <= Len(p)
        BY <2>1, <2>5, <3>2
      <4>2. t[k] = p[k - o]
        BY <2>2, <3>2, <4>1
      <4>3. v[k] = t[k]
        <5>1. ~(k > o + Len(p)) /\ k <= Len(t) /\ k \in 1 .. Len(v)
          BY <2>1, <2>2, <2>5, <3>2, <4>1
        <5>2. QED
          BY <2>3, <5>1
      <4>4. w[k] = (p \o q)[k - o]
        <5>1. k > o /\ k <= o + Len(p \o q)
          BY <2>1, <3>2
        <5>2. QED
          BY <2>4, <5>1
      <4>5. QED
        BY <2>1, <4>1, <4>2, <4>3, <4>4
    <3>3. CASE k > o + Len(p) /\ k <= o + Len(p) + Len(q)
      <4>1. /\ k - o \in 1 .. Len(p) + Len(q) /\ ~(k - o <= Len(p))
            /\ k - o - Len(p) = k - (o + Len(p))
        BY <2>1, <3>3
      <4>2. v[k] = q[k - (o + Len(p))]
        BY <2>1, <2>3, <2>5, <3>3
      <4>3. w[k] = (p \o q)[k - o]
        <5>1. k > o /\ k <= o + Len(p \o q)
          BY <2>1, <3>3
        <5>2. QED
          BY <2>4, <5>1
      <4>4. QED
        BY <2>1, <4>1, <4>2, <4>3
    <3>4. CASE k > o + Len(p) + Len(q)
      BY <2>1, <2>2, <2>3, <2>4, <2>5, <3>4
    <3>5. QED
      BY <2>1, <3>1, <3>2, <3>3, <3>4
  <2>7. v = w
    BY <2>3, <2>4, <2>5, <2>6, SeqEqual
  <2>8. QED
    BY <2>7 DEF v, w, t
<1>4. QED
  BY <1>1, <1>2, <1>3

\* The data from the first unit on, in parts.
LEMMA DataPart ==
    ASSUME NEW d \in Seq(Unit), NEW r \in Nat, NEW m \in Nat, r + m <= Len(d),
           NEW n \in 0 .. m
    PROVE  /\ SubSeq(d, 1, r) \in Seq(Unit) /\ Len(SubSeq(d, 1, r)) = r
           /\ SubSeq(d, r + 1, r + m) \in Seq(Unit)
           /\ Len(SubSeq(d, r + 1, r + m)) = m
           /\ SubSeq(SubSeq(d, r + 1, r + m), 1, n) \in Seq(Unit)
           /\ SubSeq(d, 1, r) \o SubSeq(SubSeq(d, r + 1, r + m), 1, n)
                = SubSeq(d, 1, r + n)
<1> DEFINE p == SubSeq(d, r + 1, r + m)
<1>1. /\ SubSeq(d, 1, r) \in Seq(Unit) /\ Len(SubSeq(d, 1, r)) = r
  OBVIOUS
<1>2. /\ p \in Seq(Unit) /\ Len(p) = m /\ \A k \in 1 .. m : p[k] = d[r + k]
  BY SubSeqPart, Zenon
<1>3. SubSeq(p, 1, n) = SubSeq(d, r + 1, r + n)
  <2>1. /\ SubSeq(d, r + 1, r + n) \in Seq(Unit) /\ Len(SubSeq(d, r + 1, r + n)) = n
        /\ \A k \in 1 .. n : SubSeq(d, r + 1, r + n)[k] = d[r + k]
    <3>1. n \in Nat /\ r + n <= Len(d)
      OBVIOUS
    <3>2. QED
      BY <3>1, SubSeqPart, Zenon
  <2> HIDE DEF p
  <2>2. /\ SubSeq(p, 1, n) \in Seq(Unit) /\ Len(SubSeq(p, 1, n)) = n
        /\ \A k \in 1 .. n : SubSeq(p, 1, n)[k] = d[r + k]
    <3>1. n \in 0 .. Len(p) /\ \A k \in 1 .. n : k \in 1 .. m
      BY <1>2
    <3>2. QED
      BY <1>2, <3>1, SubSeqPrefix, Zenon
  <2>3. QED
    BY <2>1, <2>2, SeqEqual
<1>4. SubSeq(d, r + 1, r + n) \in Seq(Unit)
  OBVIOUS
<1>5. 1 \in 1 .. Len(d) + 1 /\ r \in 1 - 1 .. Len(d) /\ r + n \in r .. Len(d)
  OBVIOUS
<1>6. SubSeq(d, 1, r) \o SubSeq(d, r + 1, r + n) = SubSeq(d, 1, r + n)
  BY <1>5, ConcatAdjacentSubSeq, Zenon
<1>7. QED
  BY <1>1, <1>2, <1>3, <1>4, <1>6

\* Writing the first n units of a part of m after the first r units of d were
\* written is writing the first r + n.
Continues(s, o, d, r, m, n) ==
    Overwrite(Overwrite(s, o, SubSeq(d, 1, r)), o + r,
              SubSeq(SubSeq(d, r + 1, r + m), 1, n))
      = Overwrite(s, o, SubSeq(d, 1, r + n))

LEMMA PartWritten ==
    ASSUME NEW s \in Seq(Unit), NEW o \in Nat, NEW d \in Seq(Unit),
           NEW r \in Nat, NEW m \in Nat, NEW n \in 0 .. m, r + m <= Len(d)
    PROVE  Continues(s, o, d, r, m, n)
<1> DEFINE p == SubSeq(d, 1, r)
<1> DEFINE q == SubSeq(SubSeq(d, r + 1, r + m), 1, n)
<1>1. p \in Seq(Unit) /\ Len(p) = r /\ q \in Seq(Unit) /\ p \o q = SubSeq(d, 1, r + n)
  BY DataPart
<1> HIDE DEF p, q
<1>2. Overwrite(Overwrite(s, o, p), o + Len(p), q) = Overwrite(s, o, p \o q)
  <2>1. p \in Seq(Unit) /\ q \in Seq(Unit)
    BY <1>1, Zenon
  <2>2. QED
    BY <2>1, WriteOn
<1>3. QED
  BY <1>1, <1>2, Zenon DEF p, q, Continues

\* A part of which reading back gives all of it has been stored as a whole.
LEMMA WholePart ==
    ASSUME NEW s \in Seq(Unit), NEW o \in Nat, NEW d \in Seq(Unit),
           NEW n \in 1 .. Len(d),
           Slice(Overwrite(s, o, SubSeq(d, 1, n)), o, Len(d)) = d
    PROVE  Overwrite(s, o, SubSeq(d, 1, n)) = Overwrite(s, o, d)
<1> DEFINE q == SubSeq(d, 1, n)
<1> DEFINE t == Overwrite(s, o, q)
<1> DEFINE w == Overwrite(s, o, d)
<1>1. Slice(t, o, Len(d)) = d
  OBVIOUS
<1>2. /\ q \in Seq(Unit) /\ Len(q) = n /\ q # <<>> /\ d # <<>>
      /\ \A k \in 1 .. n : q[k] = d[k]
      /\ Len(d) \in Nat /\ n \in Nat /\ n >= 1 /\ n <= Len(d)
  OBVIOUS
<1> HIDE DEF q
<1>3. /\ t \in Seq(Unit)
      /\ Len(t) = IF Len(s) > o + Len(q) THEN Len(s) ELSE o + Len(q)
      /\ \A k \in 1 .. Len(t) :
            t[k] = IF k > o /\ k <= o + Len(q) THEN q[k - o]
                   ELSE IF k <= Len(s) THEN s[k] ELSE Zero
  BY <1>2, OverwriteElements
<1>4. /\ w \in Seq(Unit)
      /\ Len(w) = IF Len(s) > o + Len(d) THEN Len(s) ELSE o + Len(d)
      /\ \A k \in 1 .. Len(w) :
            w[k] = IF k > o /\ k <= o + Len(d) THEN d[k - o]
                   ELSE IF k <= Len(s) THEN s[k] ELSE Zero
  BY <1>2, OverwriteElements
<1> HIDE DEF t, w
<1>5. /\ Len(d) =
             IF o >= Len(t) THEN 0
                  ELSE IF o + Len(d) > Len(t) THEN Len(t) - o ELSE Len(d)
      /\ \A k \in 1 .. Len(d) : d[k] = t[o + k]
  <2>1. t \in Seq(Unit) /\ Len(d) \in Nat
    BY <1>2, <1>3
  <2>2. Len(Slice(t, o, Len(d))) =
              IF o >= Len(t) THEN 0
              ELSE IF o + Len(d) > Len(t) THEN Len(t) - o ELSE Len(d)
    BY <2>1, SliceElements
  <2>3. \A k \in 1 .. Len(Slice(t, o, Len(d))) : Slice(t, o, Len(d))[k] = t[o + k]
    BY <2>1, SliceElements
  <2>4. QED
    BY <1>1, <2>2, <2>3, Zenon
<1>6. o + Len(d) <= Len(t) /\ Len(t) = Len(w)
  <2>1. Len(t) \in Nat /\ Len(s) \in Nat /\ Len(d) > 0
    BY <1>2, <1>3
  <2>2. o + Len(d) <= Len(t)
    BY <1>2, <1>5, <2>1
  <2>3. /\ Len(t) = IF Len(s) > o + n THEN Len(s) ELSE o + n
        /\ Len(w) = IF Len(s) > o + Len(d) THEN Len(s) ELSE o + Len(d)
        /\ Len(d) \in Nat /\ n \in Nat /\ n <= Len(d)
    BY <1>2, <1>3, <1>4, Zenon
  <2>4. QED
    BY <2>1, <2>2, <2>3
<1>7. \A k \in 1 .. Len(w) : t[k] = w[k]
  <2> SUFFICES ASSUME NEW k \in 1 .. Len(w) PROVE t[k] = w[k]
    OBVIOUS
  <2>1. CASE k > o /\ k <= o + Len(d)
    <3>1. k - o \in 1 .. Len(d) /\ o + (k - o) = k
      BY <1>2, <2>1
    <3>2. d[k - o] = t[o + (k - o)]
      BY <1>5, <3>1
    <3>3. QED
      BY <1>4, <2>1, <3>1, <3>2
  <2>2. CASE ~(k > o /\ k <= o + Len(d))
    BY <1>2, <1>3, <1>4, <1>6, <2>2
  <2>3. QED
    BY <2>1, <2>2
<1>8. t = w
  BY <1>3, <1>4, <1>6, <1>7, SeqEqual
<1>9. QED
  BY <1>8 DEF t, w, q

-----------------------------------------------------------------------------
(* What a step of one client leaves of the others.                         *)

\* Nothing of the call of d changes; that the file does is noted.
Unmoved(d) ==
    /\ pc'[d] = pc[d] /\ args'[d] = args[d] /\ count'[d] = count[d]
    /\ offset'[d] = offset[d] /\ buf'[d] = buf[d] /\ ret'[d] = ret[d]
    /\ result'[d] = result[d] /\ before'[d] = before[d] /\ faults'[d] = faults[d]
    /\ up'[d] = up[d] /\ fdtable'[d] = fdtable[d]
    /\ ~disturbed'[d] =>
          /\ ~disturbed[d]
          /\ pc[d] # "idle" => content'[File] = content[File]

LEMMA Bystander ==
    ASSUME NEW d \in Conn, ClientInv(d), Unmoved(d)
    PROVE  ClientInv(d)'
<1>1. FdInv(d)' /\ IdleInv(d)' /\ ArgsInv(d)' /\ (result[d] \in -1 .. args[d].count)'
  BY DEF ClientInv, FdInv, IdleInv, ArgsInv, Unmoved
<1>2. LoopInv(d)'
  BY DEF ClientInv, LoopInv, Unmoved
<1>3. ReadDone(d)'
  BY DEF ClientInv, ReadDone, Done, Reported, Unmoved
<1>4. WriteDone(d)'
  BY DEF ClientInv, WriteDone, Done, Reported, Unmoved
<1>5. ShortDone(d)'
  BY DEF ClientInv, ShortDone, Unmoved
<1>6. QED
  BY <1>1, <1>2, <1>3, <1>4, <1>5 DEF ClientInv

\* A step of c: its own call is as it should be, the others' are theirs.
StepOf(c) ==
    /\ TypeOK' /\ CallTables' /\ ClientInv(c)'
    /\ \A d \in Conn \ {c} : Unmoved(d)

LEMMA StepKeeps ==
    ASSUME IOInv, NEW c \in Conn, StepOf(c)
    PROVE  IOInv'
<1>1. ASSUME NEW d \in Conn PROVE ClientInv(d)'
  <2>1. CASE d = c
    BY <2>1 DEF StepOf
  <2>2. CASE d # c
    BY <2>2, Bystander DEF StepOf, IOInv
  <2>3. QED
    BY <2>1, <2>2
<1>2. QED
  BY <1>1 DEF IOInv, StepOf

LEMMA Facts ==
    ASSUME IOInv, NEW c \in Conn
    PROVE  /\ TypeOK /\ CallTables /\ ClientInv(c)
           /\ File \in Inode /\ TheFd \in FileFd /\ TheFd \in Fd
           /\ content[File] \in Seq(Unit) /\ Len(content[File]) \in Nat
           /\ count[c] \in Nat /\ offset[c] \in Nat /\ ret[c] \in Nat
           /\ result[c] \in Int /\ buf[c] \in Seq(Unit) /\ before[c] \in Seq(Unit)
           /\ args[c] \in Args /\ args[c].data \in Seq(Unit)
           /\ args[c].offset \in Nat /\ args[c].count \in Nat
           /\ to_read(c) \in Nat /\ to_read(c) <= count[c] /\ to_read(c) <= MaxData
           /\ MaxData \in Nat
<1>1. TypeOK /\ CallTables /\ ClientInv(c)
  BY DEF IOInv
<1>2. File \in Inode /\ TheFd \in FileFd /\ TheFd \in Fd /\ MaxData \in Nat
  BY IOAssumption, SizeAssumption DEF FileFd
<1>3. content[File] \in Seq(Unit) /\ Len(content[File]) \in Nat
  BY <1>1, <1>2 DEF TypeOK
<1>4. /\ count[c] \in Nat /\ offset[c] \in Nat /\ ret[c] \in Nat
      /\ result[c] \in Int /\ buf[c] \in Seq(Unit) /\ before[c] \in Seq(Unit)
      /\ args[c] \in Args
  BY <1>1 DEF CallTables
<1>5. args[c].data \in Seq(Unit) /\ args[c].offset \in Nat /\ args[c].count \in Nat
  BY <1>4 DEF Args, Unit
<1>6. to_read(c) \in Nat /\ to_read(c) <= count[c] /\ to_read(c) <= MaxData
  BY <1>2, <1>4 DEF to_read
<1>7. QED
  BY <1>1, <1>2, <1>3, <1>4, <1>5, <1>6

\* Watch notes what changes, and nothing of the client whose request it is.
LEMMA Watched ==
    ASSUME IOInv, NEW c \in Conn, Watch(c)
    PROVE  /\ disturbed' \in [Conn -> BOOLEAN] /\ disturbed'[c] = disturbed[c]
           /\ \A d \in Conn \ {c} : ~disturbed'[d] =>
                 /\ ~disturbed[d]
                 /\ pc[d] # "idle" => content'[File] = content[File]
<1>1. disturbed \in [Conn -> BOOLEAN]
  BY DEF IOInv, CallTables
<1>2. QED
  BY <1>1, Zenon DEF Watch

LEMMA InRange ==
    ASSUME NEW x \in Int, NEW n \in Nat, x <= n, x >= 0 - 1
    PROVE  x \in -1 .. n
OBVIOUS

LEMMA MinusOne == -1 \in Int /\ -1 = 0 - 1
OBVIOUS

\* What a call makes of the result of a request.
LEMMA Accounted ==
    ASSUME IOInv, NEW c \in Conn, pc[c] = "loop", NEW semi \in Int, Account(c, semi)
    PROVE  /\ UNCHANGED <<args, before>>
           /\ pc' \in [Conn -> {"idle", "loop", "done"}]
           /\ count' \in [Conn -> Nat] /\ offset' \in [Conn -> Nat]
           /\ ret' \in [Conn -> Nat] /\ result' \in [Conn -> Int]
           /\ \A d \in Conn \ {c} :
                 /\ pc'[d] = pc[d] /\ count'[d] = count[d] /\ offset'[d] = offset[d]
                 /\ ret'[d] = ret[d] /\ result'[d] = result[d]
           /\ ret'[c] = IF semi > 0 THEN ret[c] + semi ELSE ret[c]
           /\ \/ /\ semi # to_read(c) /\ pc'[c] = "done"
                 /\ result'[c] = IF ret'[c] # 0 THEN ret'[c] ELSE semi
              \/ /\ semi = to_read(c) /\ pc'[c] = "loop"
                 /\ count'[c] = count[c] - to_read(c)
                 /\ offset'[c] = offset[c] + to_read(c)
                 /\ result'[c] = result[c]
<1>1. /\ CallTables /\ ret[c] \in Nat /\ count[c] \in Nat /\ offset[c] \in Nat
      /\ to_read(c) \in Nat /\ to_read(c) <= count[c]
  BY Facts
<1>2. /\ ret' = [ret EXCEPT ![c] = IF semi > 0 THEN ret[c] + semi ELSE ret[c]]
      /\ UNCHANGED <<args, before>>
  BY DEF Account
<1>3. /\ ret' \in [Conn -> Nat]
      /\ ret'[c] = IF semi > 0 THEN ret[c] + semi ELSE ret[c]
      /\ \A d \in Conn \ {c} : ret'[d] = ret[d]
  BY <1>1, <1>2 DEF CallTables
<1>4. CASE semi # to_read(c)
  <2>1. /\ pc' = [pc EXCEPT ![c] = "done"]
        /\ result' = [result EXCEPT ![c] = IF ret'[c] # 0 THEN ret'[c] ELSE semi]
        /\ UNCHANGED <<count, offset>>
    BY <1>4 DEF Account, Ended, Returned
  <2>2. (IF ret'[c] # 0 THEN ret'[c] ELSE semi) \in Int
    BY <1>3
  <2>3. QED
    BY <1>1, <1>2, <1>3, <1>4, <2>1, <2>2 DEF CallTables
<1>5. CASE semi = to_read(c)
  <2>1. /\ count' = [count EXCEPT ![c] = count[c] - to_read(c)]
        /\ offset' = [offset EXCEPT ![c] = offset[c] + to_read(c)]
        /\ UNCHANGED <<pc, result>>
    BY <1>5 DEF Account, Ended
  <2>2. count[c] - to_read(c) \in Nat /\ offset[c] + to_read(c) \in Nat
    BY <1>1
  <2>3. QED
    BY <1>1, <1>2, <1>3, <1>5, <2>1, <2>2 DEF CallTables
<1>6. QED
  BY <1>4, <1>5

-----------------------------------------------------------------------------
(* A request that fails, and one that is answered.                         *)

\* The tables of the processes of the other clients are theirs.
Apart(c) == \A d \in Conn \ {c} : up'[d] = up[d] /\ fdtable'[d] = fdtable[d]

LEMMA OthersUnmoved ==
    ASSUME IOInv, NEW c \in Conn, pc[c] = "loop", NEW semi \in Int,
           Account(c, semi), Watch(c), Apart(c),
           buf' \in [Conn -> Seq(Unit)], faults' \in [Conn -> SUBSET Fault],
           \A d \in Conn \ {c} : buf'[d] = buf[d] /\ faults'[d] = faults[d]
    PROVE  CallTables' /\ \A d \in Conn \ {c} : Unmoved(d)
<1>1. /\ disturbed' \in [Conn -> BOOLEAN]
      /\ \A d \in Conn \ {c} : ~disturbed'[d] =>
            /\ ~disturbed[d]
            /\ pc[d] # "idle" => content'[File] = content[File]
  BY Watched
<1>2. /\ UNCHANGED <<args, before>>
      /\ pc' \in [Conn -> {"idle", "loop", "done"}]
      /\ count' \in [Conn -> Nat] /\ offset' \in [Conn -> Nat]
      /\ ret' \in [Conn -> Nat] /\ result' \in [Conn -> Int]
      /\ \A d \in Conn \ {c} :
            /\ pc'[d] = pc[d] /\ count'[d] = count[d] /\ offset'[d] = offset[d]
            /\ ret'[d] = ret[d] /\ result'[d] = result[d]
  BY Accounted
<1>3. CallTables
  BY DEF IOInv
<1>4. CallTables'
  BY <1>1, <1>2, <1>3 DEF CallTables
<1>5. \A d \in Conn \ {c} : Unmoved(d)
  BY <1>1, <1>2 DEF Unmoved, Apart
<1>6. QED
  BY <1>4, <1>5

\* A request of c stored the first n units of its part.
Stored(c, n) ==
    content'[File] = Overwrite(content[File], offset[c], SubSeq(Part(c), 1, n))

\* What a pwrite has stored after a request: what it had, and n units more.
LEMMA StoredOn ==
    ASSUME IOInv, NEW c \in Conn, pc[c] = "loop", args[c].op = "pwrite",
           ~disturbed[c], "short" \notin faults[c],
           NEW n \in 0 .. to_read(c), Stored(c, n)
    PROVE  /\ ret[c] + n <= Len(args[c].data)
           /\ content'[File] = Overwrite(before[c], args[c].offset,
                                         SubSeq(args[c].data, 1, ret[c] + n))
<1> DEFINE d == args[c].data
<1> DEFINE r == ret[c]
<1> DEFINE m == to_read(c)
<1>1. /\ ClientInv(c) /\ d \in Seq(Unit) /\ r \in Nat /\ m \in Nat
      /\ count[c] \in Nat /\ m <= count[c] /\ before[c] \in Seq(Unit)
      /\ args[c].offset \in Nat
  BY Facts
<1>2. /\ r + count[c] = Len(d) /\ offset[c] = args[c].offset + r
      /\ content[File] = Overwrite(before[c], args[c].offset, SubSeq(d, 1, r))
  BY <1>1 DEF ClientInv, LoopInv, ArgsInv
<1>3. Len(d) - count[c] = r /\ r + m <= Len(d) /\ r + n <= Len(d)
  BY <1>1, <1>2
<1>4. Part(c) = SubSeq(d, r + 1, r + m)
  BY <1>3, Zenon DEF Part
<1>5. content'[File] = Overwrite(content[File], args[c].offset + r,
                                 SubSeq(SubSeq(d, r + 1, r + m), 1, n))
  BY <1>2, <1>4, Zenon DEF Stored
<1> HIDE DEF d, r, m
<1>6. /\ d \in Seq(Unit) /\ r \in Nat /\ m \in Nat /\ r + m <= Len(d) /\ n \in 0 .. m
  BY <1>1, <1>3 DEF m
<1>7. Continues(before[c], args[c].offset, d, r, m, n)
  BY <1>1, <1>6, PartWritten, Zenon
<1>8. content'[File] = Overwrite(before[c], args[c].offset, SubSeq(d, 1, r + n))
  BY <1>2, <1>5, <1>7, Zenon DEF Continues
<1>9. QED
  BY <1>3, <1>8 DEF d, r

\* The request failed, or its reply did not come: the call is over, and tells
\* of what it did before.
LEMMA FailedStep ==
    ASSUME IOInv, NEW c \in Conn, pc[c] = "loop", Failed(c), Watch(c),
           TypeOK', FdInv(c)', Apart(c),
           reply'.status = "ERROR" => reply'.errno # "EINVAL",
           \/ content'[File] = content[File]
           \/ /\ args[c].op = "pwrite" /\ reply'.status # "ERROR"
              /\ \E n \in 0 .. to_read(c) : Stored(c, n)
    PROVE  StepOf(c)
<1>1. /\ TypeOK /\ CallTables /\ ClientInv(c)
      /\ content[File] \in Seq(Unit) /\ ret[c] \in Nat /\ count[c] \in Nat
      /\ args[c].offset \in Nat /\ args[c].count \in Nat /\ to_read(c) \in Nat
      /\ to_read(c) <= MaxData /\ MaxData \in Nat
  BY Facts
<1>2. \E f \in {"error", "lost"} :
         /\ faults' = [faults EXCEPT ![c] = faults[c] \cup {f}]
         /\ reply'.status # "ERROR" => f = "lost"
  <2>1. CASE reply'.status = "ERROR"
    <3>1. faults' = [faults EXCEPT ![c] = faults[c] \cup {"error"}]
      BY <2>1 DEF Failed
    <3>2. QED
      BY <2>1, <3>1, Zenon
  <2>2. CASE reply'.status # "ERROR"
    <3>1. faults' = [faults EXCEPT ![c] = faults[c] \cup {"lost"}]
      BY <2>2 DEF Failed
    <3>2. QED
      BY <3>1, Zenon
  <2>3. QED
    BY <2>1, <2>2
<1>3. Account(c, -1) /\ UNCHANGED buf
  BY DEF Failed
<1>4. PICK semi \in Int : semi = -1 /\ semi = 0 - 1 /\ Account(c, semi)
  BY <1>3, MinusOne, Zenon
<1>5. /\ faults' \in [Conn -> SUBSET Fault] /\ buf' \in [Conn -> Seq(Unit)]
      /\ \A d \in Conn \ {c} : buf'[d] = buf[d] /\ faults'[d] = faults[d]
      /\ faults'[c] # {} /\ ("short" \in faults[c] => "short" \in faults'[c])
      /\ reply'.status # "ERROR" => "lost" \in faults'[c]
  BY <1>1, <1>2, <1>3 DEF CallTables, Fault
<1>6. CallTables' /\ \A d \in Conn \ {c} : Unmoved(d)
  BY <1>4, <1>5, OthersUnmoved
<1>7. /\ args'[c] = args[c] /\ before'[c] = before[c] /\ pc'[c] = "done"
      /\ ret'[c] = ret[c] /\ result'[c] = IF ret[c] # 0 THEN ret[c] ELSE semi
  BY <1>1, <1>4, Accounted
<1>8. /\ ret[c] + count[c] = args[c].count /\ ArgsInv(c)
      /\ args[c].op = "pread" /\ ~disturbed[c] =>
            /\ buf[c] = Slice(content[File], args[c].offset, ret[c])
            /\ Len(buf[c]) = ret[c]
      /\ args[c].op = "pwrite" /\ ~disturbed[c] /\ "short" \notin faults[c] =>
            content[File] = Overwrite(before[c], args[c].offset,
                                      SubSeq(args[c].data, 1, ret[c]))
  BY <1>1 DEF ClientInv, LoopInv
<1>9. /\ (result[c] > 0 \/ ret[c] = 0)' /\ (result[c] # 0)'
      /\ Reported(c)' = ret[c] /\ (result[c] \in -1 .. args[c].count)'
  <2>1. result'[c] \in Int /\ result'[c] <= args[c].count /\ result'[c] >= 0 - 1
    BY <1>1, <1>4, <1>7, <1>8
  <2>2. result'[c] \in -1 .. args[c].count
    BY <1>1, <2>1, InRange, Zenon
  <2>3. /\ result'[c] > 0 \/ ret'[c] = 0
        /\ result'[c] # 0
        /\ (IF result'[c] > 0 THEN result'[c] ELSE 0) = ret[c]
    BY <1>1, <1>4, <1>7
  <2>4. QED
    BY <1>7, <2>2, <2>3 DEF Reported
<1>10. disturbed'[c] = disturbed[c]
  BY Watched
<1>11. IdleInv(c)' /\ ArgsInv(c)' /\ LoopInv(c)' /\ ShortDone(c)'
  BY <1>5, <1>7, <1>8 DEF IdleInv, ArgsInv, LoopInv, ShortDone
<1>12. ReadDone(c)'
  <2> SUFFICES ASSUME Done(c, "pread")', ~disturbed'[c]
               PROVE  /\ buf'[c] = Slice(content'[File], args'[c].offset, Reported(c)')
                      /\ Len(buf'[c]) = Reported(c)'
    BY <1>9 DEF ReadDone
  <2>1. args[c].op = "pread" /\ ~disturbed[c]
    BY <1>7, <1>10 DEF Done
  <2>2. content'[File] = content[File] /\ buf'[c] = buf[c]
    BY <1>3, <2>1
  <2>3. QED
    BY <1>7, <1>8, <1>9, <2>1, <2>2
<1>13. WriteDone(c)'
  <2> SUFFICES ASSUME Done(c, "pwrite")', ~disturbed'[c], "short" \notin faults'[c]
               PROVE  \E extra \in 0 .. (IF "lost" \in faults'[c] THEN MaxData ELSE 0) :
                         content'[File] = Overwrite(before[c], args[c].offset,
                            SubSeq(args[c].data, 1,
                               IF ret[c] + extra > Len(args[c].data)
                               THEN Len(args[c].data) ELSE ret[c] + extra))
    BY <1>7, <1>9 DEF WriteDone
  <2>1. args[c].op = "pwrite" /\ ~disturbed[c] /\ "short" \notin faults[c]
    BY <1>5, <1>7, <1>10 DEF Done
  <2>2. Len(args[c].data) = args[c].count /\ Len(args[c].data) \in Nat
    BY <1>1, <1>8, <2>1 DEF ArgsInv
  <2>3. CASE content'[File] = content[File]
    <3>1. content'[File] = Overwrite(before[c], args[c].offset,
                                     SubSeq(args[c].data, 1, ret[c]))
      BY <1>8, <2>1, <2>3
    <3>2. /\ ~(ret[c] + 0 > Len(args[c].data)) /\ ret[c] + 0 = ret[c]
          /\ 0 \in 0 .. (IF "lost" \in faults'[c] THEN MaxData ELSE 0)
      BY <1>1, <1>8, <2>2
    <3>3. QED
      BY <3>1, <3>2
  <2>4. CASE reply'.status # "ERROR" /\ \E n \in 0 .. to_read(c) : Stored(c, n)
    <3>1. PICK n \in 0 .. to_read(c) : Stored(c, n)
      BY <2>4
    <3>2. /\ ret[c] + n <= Len(args[c].data)
          /\ content'[File] = Overwrite(before[c], args[c].offset,
                                        SubSeq(args[c].data, 1, ret[c] + n))
      BY <2>1, <3>1, StoredOn
    <3>3. /\ n \in 0 .. (IF "lost" \in faults'[c] THEN MaxData ELSE 0)
          /\ ~(ret[c] + n > Len(args[c].data))
      BY <1>1, <1>5, <2>2, <2>4, <3>2
    <3>4. QED
      BY <3>2, <3>3
  <2>5. QED
    BY <2>3, <2>4
<1>14. QED
  BY <1>6, <1>9, <1>11, <1>12, <1>13 DEF StepOf, ClientInv

\* The reply has data: it follows what is in the buffer, and if it is less
\* than was asked for the call is over.
LEMMA ReceivedStep ==
    ASSUME IOInv, NEW c \in Conn, pc[c] = "loop", args[c].op \in {"pread", "rand"},
           Received(c), Watch(c), TypeOK', FdInv(c)', Apart(c),
           content'[File] = content[File], Len(reply'.data) <= to_read(c),
           args[c].op = "pread" =>
               reply'.data = Slice(content[File], offset[c], to_read(c))
    PROVE  StepOf(c)
<1> DEFINE d == reply'.data
<1> DEFINE n == Len(d)
<1> DEFINE s == content[File]
<1> DEFINE a == args[c].offset
<1>1. /\ TypeOK /\ CallTables /\ ClientInv(c) /\ s \in Seq(Unit) /\ Len(s) \in Nat
      /\ ret[c] \in Nat /\ count[c] \in Nat /\ offset[c] \in Nat /\ buf[c] \in Seq(Unit)
      /\ a \in Nat /\ args[c].count \in Nat
      /\ to_read(c) \in Nat /\ to_read(c) <= count[c]
  BY Facts
<1>2. d \in Seq(Unit) /\ n \in Nat /\ n \in Int /\ n <= to_read(c)
  BY DEF TypeOK
<1>3. /\ buf' = [buf EXCEPT ![c] = buf[c] \o d] /\ Account(c, n)
      /\ faults' = [faults EXCEPT ![c] =
           IF args[c].op = "rand" /\ n < to_read(c)
           THEN faults[c] \cup {"short"} ELSE faults[c]]
  BY DEF Received
<1> HIDE DEF d
<1>4. /\ buf' \in [Conn -> Seq(Unit)] /\ faults' \in [Conn -> SUBSET Fault]
      /\ \A e \in Conn \ {c} : buf'[e] = buf[e] /\ faults'[e] = faults[e]
      /\ buf'[c] = buf[c] \o d
      /\ args[c].op = "rand" /\ n < to_read(c) => faults'[c] # {}
  <2>1. buf[c] \o d \in Seq(Unit)
    BY <1>1, <1>2
  <2>2. QED
    BY <1>1, <1>3, <2>1 DEF CallTables, Fault
<1> HIDE DEF n
<1>5. CallTables' /\ \A e \in Conn \ {c} : Unmoved(e)
  BY <1>2, <1>3, <1>4, OthersUnmoved
<1>6. /\ args'[c] = args[c]
      /\ ret'[c] = IF n > 0 THEN ret[c] + n ELSE ret[c]
      /\ \/ /\ n # to_read(c) /\ pc'[c] = "done"
            /\ result'[c] = IF ret'[c] # 0 THEN ret'[c] ELSE n
         \/ /\ n = to_read(c) /\ pc'[c] = "loop"
            /\ count'[c] = count[c] - to_read(c)
            /\ offset'[c] = offset[c] + to_read(c)
            /\ result'[c] = result[c]
  BY <1>1, <1>2, <1>3, Accounted
<1>7. ret'[c] = ret[c] + n
  BY <1>1, <1>2, <1>6
<1>8. /\ ret[c] + count[c] = args[c].count /\ offset[c] = a + ret[c] /\ result[c] = 0
      /\ args[c].op = "pread" /\ ~disturbed[c] =>
            buf[c] = Slice(s, a, ret[c]) /\ Len(buf[c]) = ret[c]
      /\ args[c].op = "pread" => d = Slice(s, a + ret[c], to_read(c))
  BY <1>1 DEF ClientInv, LoopInv, d
<1>9. disturbed'[c] = disturbed[c]
  BY Watched
<1> DEFINE r == ret[c]
<1> DEFINE m == to_read(c)
<1> HIDE DEF s, a, r, m
<1>10. args[c].op = "pread" /\ ~disturbed[c] =>
          buf'[c] = Slice(s, a, ret[c] + n) /\ Len(buf'[c]) = ret[c] + n
  <2> SUFFICES ASSUME args[c].op = "pread", ~disturbed[c]
               PROVE  buf'[c] = Slice(s, a, r + n) /\ Len(buf'[c]) = r + n
    BY DEF r
  <2>1. d = Slice(s, a + r, m) /\ s \in Seq(Unit) /\ a \in Nat /\ r \in Nat /\ m \in Nat
    BY <1>1, <1>8 DEF r, m
  <2>2. buf[c] = Slice(s, a, r) /\ Len(Slice(s, a, r)) = r
    BY <1>8 DEF r
  <2>3. /\ Slice(s, a, r) \o Slice(s, a + r, m) = Slice(s, a, r + Len(Slice(s, a + r, m)))
        /\ Len(Slice(s, a, r) \o Slice(s, a + r, m)) = r + Len(Slice(s, a + r, m))
    BY <2>1, <2>2, ReadPart
  <2>4. n = Len(Slice(s, a + r, m)) /\ buf'[c] = Slice(s, a, r) \o Slice(s, a + r, m)
    BY <1>4, <2>1, <2>2 DEF n
  <2>5. QED
    BY <2>3, <2>4
<1>11. args[c].op = "pread" =>
          /\ n < to_read(c) => a + ret[c] + to_read(c) > Len(s)
          /\ n = 0 /\ to_read(c) > 0 => a + ret[c] >= Len(s)
  <2> SUFFICES ASSUME args[c].op = "pread"
               PROVE  /\ n < m => a + r + m > Len(s)
                      /\ n = 0 /\ m > 0 => a + r >= Len(s)
    BY DEF r, m
  <2>1. d = Slice(s, a + r, m) /\ s \in Seq(Unit) /\ a \in Nat /\ r \in Nat /\ m \in Nat
    BY <1>1, <1>8 DEF r, m
  <2>2. QED
    BY <2>1, ShortPart, Zenon DEF n
<1>12. IdleInv(c)' /\ ArgsInv(c)' /\ WriteDone(c)'
  BY <1>1, <1>6 DEF ClientInv, IdleInv, ArgsInv, WriteDone, Done
<1>13. CASE n = to_read(c)
  <2>1. /\ pc'[c] = "loop" /\ count'[c] = count[c] - to_read(c)
        /\ offset'[c] = offset[c] + to_read(c) /\ result'[c] = result[c]
    BY <1>6, <1>13
  <2>2. /\ ret'[c] + count'[c] = args'[c].count
        /\ offset'[c] = args'[c].offset + ret'[c] /\ result'[c] = 0
    <3>1. /\ (ret[c] + to_read(c)) + (count[c] - to_read(c)) = ret[c] + count[c]
          /\ (a + ret[c]) + to_read(c) = a + (ret[c] + to_read(c))
      <4>1. ret[c] \in Nat /\ count[c] \in Nat /\ to_read(c) \in Nat /\ a \in Nat
        BY <1>1 DEF a
      <4>2. QED
        BY <4>1
    <3>2. QED
      BY <1>6, <1>7, <1>8, <1>13, <2>1, <3>1, Zenon DEF a
  <2>3. LoopInv(c)'
    BY <1>6, <1>7, <1>9, <1>10, <2>2 DEF LoopInv, s, a
  <2>4. ReadDone(c)' /\ ShortDone(c)'
    BY <2>1 DEF ReadDone, ShortDone, Done
  <2>5. result'[c] \in -1 .. args'[c].count
    BY <1>1, <1>6, <2>2, InRange
  <2>6. QED
    BY <1>5, <1>12, <2>3, <2>4, <2>5 DEF StepOf, ClientInv
<1>14. CASE n # to_read(c)
  <2>1. pc'[c] = "done" /\ result'[c] = ret[c] + n /\ n < to_read(c)
    BY <1>1, <1>2, <1>6, <1>7, <1>14
  <2>2. LoopInv(c)'
    BY <2>1 DEF LoopInv
  <2>3. result'[c] \in -1 .. args'[c].count
    BY <1>1, <1>2, <1>6, <1>8, <2>1, InRange
  <2>4. Reported(c)' = ret[c] + n
    BY <1>1, <1>2, <2>1 DEF Reported
  <2>5. result'[c] = 0 /\ args[c].op = "pread" => a >= Len(s)
    BY <1>1, <1>2, <1>11, <2>1
  <2>6. ReadDone(c)'
    BY <1>6, <1>9, <1>10, <2>4, <2>5 DEF ReadDone, Done, s, a
  <2>7. args[c].op = "pread" => a + args[c].count > Len(s)
    <3>1. args[c].op = "pread" => a + ret[c] + to_read(c) > Len(s)
      BY <1>11, <2>1
    <3>2. /\ ret[c] + to_read(c) <= args[c].count
          /\ a \in Nat /\ ret[c] \in Nat /\ to_read(c) \in Nat /\ Len(s) \in Nat
          /\ args[c].count \in Nat
      BY <1>1, <1>8
    <3>3. QED
      BY <3>1, <3>2
  <2>8. ShortDone(c)'
    <3>1. CASE args[c].op = "rand"
      BY <1>4, <2>1, <3>1 DEF ShortDone
    <3>2. CASE args[c].op = "pread"
      <4>1. args'[c].op = "pread" /\ args'[c].offset + args'[c].count > Len(content'[File])
        BY <1>6, <2>7, <3>2 DEF s, a
      <4>2. QED
        BY <4>1 DEF ShortDone
    <3>3. QED
      BY <3>1, <3>2
  <2>9. QED
    BY <1>5, <1>12, <2>2, <2>3, <2>6, <2>8 DEF StepOf, ClientInv
<1>15. QED
  BY <1>13, <1>14

\* The part of a request is as long as it should be, so it is not refused.
LEMMA PartType ==
    ASSUME IOInv, NEW c \in Conn, pc[c] = "loop", args[c].op = "pwrite"
    PROVE  Part(c) \in Seq(Unit) /\ Len(Part(c)) = to_read(c)
<1> DEFINE d == args[c].data
<1> DEFINE r == ret[c]
<1> DEFINE m == to_read(c)
<1>1. /\ ClientInv(c) /\ d \in Seq(Unit) /\ r \in Nat /\ count[c] \in Nat
      /\ args[c].count \in Nat /\ m \in Nat /\ m <= count[c]
  BY Facts
<1>2. r + count[c] = Len(d)
  BY <1>1 DEF ClientInv, LoopInv, ArgsInv
<1>3. Len(d) - count[c] = r /\ r + m <= Len(d)
  BY <1>1, <1>2
<1>4. Part(c) = SubSeq(d, r + 1, r + m)
  BY <1>3, Zenon DEF Part
<1> HIDE DEF d, r, m
<1>5. SubSeq(d, r + 1, r + m) \in Seq(Unit) /\ Len(SubSeq(d, r + 1, r + m)) = m
  BY <1>1, <1>3
<1>6. QED
  BY <1>4, <1>5 DEF m

\* An OK to a write: all of the part, or that it is short is noted.
LEMMA WrittenStep ==
    ASSUME IOInv, NEW c \in Conn, pc[c] = "loop", args[c].op = "pwrite",
           Account(c, to_read(c)), UNCHANGED buf, Watch(c),
           TypeOK', FdInv(c)', Apart(c),
           faults' = [faults EXCEPT ![c] =
               IF Slice(content'[File], offset[c], to_read(c)) # Part(c)
               THEN faults[c] \cup {"short"} ELSE faults[c]],
           NEW n \in 0 .. to_read(c), to_read(c) # 0 => n > 0, Stored(c, n)
    PROVE  StepOf(c)
<1> DEFINE m == to_read(c)
<1>1. /\ TypeOK /\ CallTables /\ ClientInv(c) /\ content[File] \in Seq(Unit)
      /\ ret[c] \in Nat /\ count[c] \in Nat /\ offset[c] \in Nat
      /\ args[c].data \in Seq(Unit) /\ args[c].count \in Nat
      /\ m \in Nat /\ m \in Int /\ m <= count[c]
  BY Facts
<1>2. /\ buf' \in [Conn -> Seq(Unit)] /\ faults' \in [Conn -> SUBSET Fault]
      /\ \A d \in Conn \ {c} : buf'[d] = buf[d] /\ faults'[d] = faults[d]
      /\ "short" \notin faults'[c] =>
            /\ "short" \notin faults[c]
            /\ Slice(content'[File], offset[c], m) = Part(c)
  BY <1>1 DEF CallTables, Fault
<1>3. CallTables' /\ \A d \in Conn \ {c} : Unmoved(d)
  BY <1>1, <1>2, OthersUnmoved
<1>4. /\ args'[c] = args[c] /\ before'[c] = before[c]
      /\ ret'[c] = IF m > 0 THEN ret[c] + m ELSE ret[c]
      /\ pc'[c] = "loop" /\ count'[c] = count[c] - m
      /\ offset'[c] = offset[c] + m /\ result'[c] = result[c]
  BY <1>1, Accounted
<1>5. /\ ret[c] + count[c] = args[c].count /\ offset[c] = args[c].offset + ret[c]
      /\ result[c] = 0 /\ Len(args[c].data) = args[c].count
  BY <1>1 DEF ClientInv, LoopInv, ArgsInv
<1>6. ret'[c] = ret[c] + m
  BY <1>1, <1>4
<1>7. /\ ret'[c] + count'[c] = args'[c].count
      /\ offset'[c] = args'[c].offset + ret'[c] /\ result'[c] = 0
  <2>1. args[c].offset \in Nat
    BY Facts
  <2>2. /\ (ret[c] + m) + (count[c] - m) = ret[c] + count[c]
        /\ (args[c].offset + ret[c]) + m = args[c].offset + (ret[c] + m)
    <3>1. ret[c] \in Nat /\ count[c] \in Nat /\ m \in Nat
      BY <1>1
    <3> HIDE DEF m
    <3>2. QED
      BY <2>1, <3>1
  <2>3. QED
    BY <1>4, <1>5, <1>6, <2>2, Zenon
<1>8. Part(c) \in Seq(Unit) /\ Len(Part(c)) = m
  BY PartType
<1>9. disturbed'[c] = disturbed[c]
  BY Watched
<1>10. ASSUME "short" \notin faults'[c]
       PROVE  Stored(c, m)
  <2> DEFINE p == Part(c)
  <2> DEFINE s == content[File]
  <2>1. /\ content'[File] = Overwrite(s, offset[c], SubSeq(p, 1, n))
        /\ Slice(content'[File], offset[c], m) = p
    BY <1>2, <1>10 DEF Stored
  <2> HIDE DEF p, s
  <2>2. p \in Seq(Unit) /\ s \in Seq(Unit) /\ Len(p) = m
    BY <1>1, <1>8 DEF p, s
  <2>3. SubSeq(p, 1, m) = p
    BY <2>2
  <2>4. CASE m = 0
    <3>1. n = m
      BY <2>4
    <3>2. QED
      BY <2>1, <3>1 DEF Stored, p, s
  <2>5. CASE m # 0
    <3>1. n \in 1 .. Len(p)
      BY <1>1, <2>2, <2>5
    <3>2. Slice(Overwrite(s, offset[c], SubSeq(p, 1, n)), offset[c], Len(p)) = p
      BY <2>1, <2>2, Zenon
    <3>3. Overwrite(s, offset[c], SubSeq(p, 1, n)) = Overwrite(s, offset[c], p)
      BY <1>1, <2>2, <3>1, <3>2, WholePart
    <3>4. QED
      BY <2>1, <2>3, <3>3, Zenon DEF Stored, p, s
  <2>6. QED
    BY <2>4, <2>5
<1>11. LoopInv(c)'
  <2>1. ASSUME ~disturbed'[c], "short" \notin faults'[c]
        PROVE  content'[File] = Overwrite(before'[c], args'[c].offset,
                                          SubSeq(args'[c].data, 1, ret'[c]))
    <3>1. m \in 0 .. m /\ Stored(c, m) /\ ~disturbed[c] /\ "short" \notin faults[c]
      BY <1>1, <1>2, <1>9, <1>10, <2>1
    <3>2. content'[File] = Overwrite(before[c], args[c].offset,
                                     SubSeq(args[c].data, 1, ret[c] + m))
      BY <3>1, StoredOn
    <3>3. QED
      BY <1>4, <1>6, <3>2
  <2>2. QED
    BY <1>4, <1>7, <2>1 DEF LoopInv
<1>12. result'[c] \in -1 .. args'[c].count
  BY <1>1, <1>4, <1>7, InRange
<1>13. IdleInv(c)' /\ ArgsInv(c)' /\ ReadDone(c)' /\ WriteDone(c)' /\ ShortDone(c)'
  BY <1>4, <1>5 DEF IdleInv, ArgsInv, ReadDone, WriteDone, ShortDone, Done
<1>14. QED
  BY <1>3, <1>11, <1>12, <1>13 DEF StepOf, ClientInv

-----------------------------------------------------------------------------
(* The steps of a call.                                                    *)

\* The requests do not touch the processes' tables.
LEMMA SameTables ==
    ASSUME IOInv, NEW c \in Conn, UNCHANGED <<up, fdtable>>
    PROVE  FdInv(c)' /\ Apart(c)
<1>1. FdInv(c)
  BY Facts DEF ClientInv
<1>2. QED
  BY <1>1 DEF FdInv, Apart

LEMMA PreadRequestStep ==
    ASSUME IOInv, NEW c \in Conn, PreadRequest(c)
    PROVE  StepOf(c)
<1>1. /\ pc[c] = "loop" /\ args[c].op = "pread" /\ Watch(c)
      /\ Pread(c, TheFd, offset[c], to_read(c))
      /\ Received(c) \/ Failed(c)
  BY DEF PreadRequest
<1>2. /\ TypeOK /\ ClientInv(c) /\ TheFd \in FileFd /\ TheFd \in Fd
      /\ offset[c] \in Nat /\ to_read(c) \in Nat /\ to_read(c) <= MaxData
      /\ MaxData \in Nat /\ content[File] \in Seq(Unit)
  BY Facts
<1>3. fdtable[c][TheFd] = [ino |-> File, read |-> TRUE, write |-> TRUE]
  BY <1>1, <1>2 DEF Pread, ClientInv, FdInv
<1>4. TypeOK' /\ UNCHANGED <<content, fdtable>>
  BY <1>1, <1>2, PreadEffect
<1>5. /\ UNCHANGED up
      /\ reply'.status = "ERROR" => reply'.errno # "EINVAL"
  BY <1>1, <1>2 DEF Pread, Error, Answer, FileFd
<1>6. reply'.status = "OK" => reply'.data = Slice(content[File], offset[c], to_read(c))
  BY <1>1, <1>2, <1>3, PreadResult
<1>7. FdInv(c)' /\ Apart(c)
  BY <1>4, <1>5, SameTables
<1>8. CASE Received(c)
  <2>1. reply'.data = Slice(content[File], offset[c], to_read(c))
    BY <1>6, <1>8 DEF Received
  <2>2. Len(reply'.data) <= to_read(c)
    BY <1>2, <2>1, SliceType
  <2>3. QED
    BY <1>1, <1>4, <1>7, <1>8, <2>1, <2>2, ReceivedStep
<1>9. CASE Failed(c)
  BY <1>1, <1>4, <1>5, <1>7, <1>9, FailedStep
<1>10. QED
  BY <1>1, <1>8, <1>9

LEMMA RandEffect ==
    ASSUME TypeOK, NEW c \in Conn, NEW src, NEW n \in Nat, n <= MaxData,
           MaxData \in Nat, Rand(c, src, n)
    PROVE  /\ TypeOK' /\ UNCHANGED <<up, content, fdtable>>
           /\ reply'.status = "ERROR" => reply'.errno # "EINVAL"
           /\ reply'.status = "OK" => Len(reply'.data) <= n
<1>1. CASE \E e \in {"ENOENT", "EAGAIN"} : Error(c, e)
  <2>1. PICK e \in {"ENOENT", "EAGAIN"} : Error(c, e)
    BY <1>1
  <2>2. e \in Errno \ {"NONE"} /\ e # "EINVAL"
    BY DEF Errno
  <2>3. QED
    BY <2>1, <2>2, Refused
<1>2. ASSUME NEW k \in 1 .. n,
             reply' = Answer(c, "OK", "NONE", 0, [j \in 1 .. k |-> Zero]),
             UNCHANGED <<up, inode, content, fdtable, locked, told>>
      PROVE  /\ TypeOK' /\ UNCHANGED <<up, content, fdtable>>
             /\ reply'.status = "ERROR" => reply'.errno # "EINVAL"
             /\ reply'.status = "OK" => Len(reply'.data) <= n
  <2> DEFINE z == [j \in 1 .. k |-> Zero]
  <2>1. z \in Seq(Unit) /\ Len(z) = k
    BY DEF Unit
  <2> HIDE DEF z
  <2>2. reply' = [conn |-> c, status |-> "OK", errno |-> "NONE", val |-> 0, data |-> z]
    BY <1>2 DEF Answer, z
  <2>3. reply' \in [conn : Conn \cup {None}, status : {"OK", "ERROR", "NONE"},
                    errno : Errno, val : Nat, data : Seq(Unit)]
    BY <2>1, <2>2 DEF Errno
  <2>4. TypeOK'
    BY <1>2, <2>3 DEF TypeOK
  <2>5. QED
    BY <1>2, <2>1, <2>2, <2>4
<1>3. ~(n > MaxData)
  OBVIOUS
<1>4. \/ Error(c, "ENOENT") \/ Error(c, "EAGAIN")
      \/ /\ \E k \in 1 .. n :
               reply' = Answer(c, "OK", "NONE", 0, [j \in 1 .. k |-> Zero])
         /\ UNCHANGED <<up, inode, content, fdtable, locked, told>>
  BY <1>3, Zenon DEF Rand
<1>5. CASE Error(c, "ENOENT") \/ Error(c, "EAGAIN")
  BY <1>1, <1>5, Zenon
<1>6. CASE /\ \E k \in 1 .. n :
                 reply' = Answer(c, "OK", "NONE", 0, [j \in 1 .. k |-> Zero])
           /\ UNCHANGED <<up, inode, content, fdtable, locked, told>>
  BY <1>2, <1>6, Zenon
<1>7. QED
  BY <1>4, <1>5, <1>6

LEMMA RandRequestStep ==
    ASSUME IOInv, NEW c \in Conn, RandRequest(c)
    PROVE  StepOf(c)
<1>1. /\ pc[c] = "loop" /\ args[c].op = "rand" /\ Watch(c)
      /\ Rand(c, args[c].src, to_read(c))
      /\ Received(c) \/ Failed(c)
  BY DEF RandRequest
<1>2. /\ TypeOK /\ to_read(c) \in Nat /\ to_read(c) <= MaxData /\ MaxData \in Nat
  BY Facts
<1>3. /\ TypeOK' /\ UNCHANGED <<up, content, fdtable>>
      /\ reply'.status = "ERROR" => reply'.errno # "EINVAL"
      /\ reply'.status = "OK" => Len(reply'.data) <= to_read(c)
  BY <1>1, <1>2, RandEffect
<1>4. FdInv(c)' /\ Apart(c)
  BY <1>3, SameTables
<1>5. CASE Received(c)
  <2>1. Len(reply'.data) <= to_read(c)
    BY <1>3, <1>5 DEF Received
  <2>2. QED
    BY <1>1, <1>3, <1>4, <1>5, <2>1, ReceivedStep
<1>6. CASE Failed(c)
  BY <1>1, <1>3, <1>4, <1>6, FailedStep
<1>7. QED
  BY <1>1, <1>5, <1>6

LEMMA PwriteRequestStep ==
    ASSUME IOInv, NEW c \in Conn, PwriteRequest(c)
    PROVE  StepOf(c)
<1>1. /\ pc[c] = "loop" /\ args[c].op = "pwrite" /\ Watch(c)
      /\ Pwrite(c, TheFd, offset[c], Part(c))
      /\ \/ /\ reply'.status = "OK"
            /\ faults' = [faults EXCEPT ![c] =
                 IF Slice(content'[File], offset[c], to_read(c)) # Part(c)
                 THEN faults[c] \cup {"short"} ELSE faults[c]]
            /\ Account(c, to_read(c)) /\ UNCHANGED buf
         \/ Failed(c)
  BY DEF PwriteRequest
<1>2. /\ TypeOK /\ ClientInv(c) /\ TheFd \in FileFd /\ TheFd \in Fd /\ File \in Inode
      /\ offset[c] \in Nat /\ to_read(c) \in Nat /\ to_read(c) <= MaxData
      /\ MaxData \in Nat /\ content[File] \in Seq(Unit)
  BY Facts
<1>3. Part(c) \in Seq(Unit) /\ Len(Part(c)) = to_read(c)
  BY <1>1, PartType
<1>4. fdtable[c][TheFd].ino = File
  BY <1>1, <1>2 DEF Pwrite, ClientInv, FdInv
<1>5. TypeOK' /\ UNCHANGED fdtable
  BY <1>1, <1>2, <1>3, PwriteEffect
<1>6. UNCHANGED up
  BY <1>1, <1>2 DEF Pwrite, Error, FileFd
<1>7. reply'.status = "ERROR" => reply'.errno # "EINVAL"
  <2>1. ~(Len(Part(c)) > MaxData)
    BY <1>2, <1>3
  <2>2. QED
    BY <1>1, <1>2, <2>1 DEF Pwrite, Error, OK, Answer, FileFd
<1>8. FdInv(c)' /\ Apart(c)
  BY <1>5, <1>6, SameTables
<1>9. \/ reply'.status = "ERROR" /\ UNCHANGED content
      \/ /\ reply'.status = "OK"
         /\ \E n \in 0 .. to_read(c) : (to_read(c) # 0 => n > 0) /\ Stored(c, n)
  <2>1. CASE reply'.status = "ERROR"
    BY <1>1, <1>2, <2>1, PwriteResult
  <2>2. CASE reply'.status # "ERROR"
    <3>1. /\ reply'.status = "OK"
          /\ \E n \in 0 .. Len(Part(c)) :
                /\ Part(c) # <<>> => n > 0
                /\ content' = [content EXCEPT ![fdtable[c][TheFd].ino] =
                                 Overwrite(@, offset[c], SubSeq(Part(c), 1, n))]
      BY <1>1, <1>2, <2>2, PwriteResult
    <3>2. PICK n \in 0 .. Len(Part(c)) :
                /\ Part(c) # <<>> => n > 0
                /\ content' = [content EXCEPT ![fdtable[c][TheFd].ino] =
                                 Overwrite(@, offset[c], SubSeq(Part(c), 1, n))]
      BY <3>1
    <3>3. content' = [content EXCEPT ![File] =
                        Overwrite(content[File], offset[c], SubSeq(Part(c), 1, n))]
      BY <1>4, <3>2
    <3>4. Stored(c, n)
      BY <1>2, <3>3 DEF TypeOK, Stored
    <3>5. n \in 0 .. to_read(c) /\ (to_read(c) # 0 => n > 0)
      BY <1>3, <3>2
    <3>6. QED
      BY <3>1, <3>4, <3>5
  <2>3. QED
    BY <2>1, <2>2
<1>10. CASE /\ reply'.status = "OK"
            /\ faults' = [faults EXCEPT ![c] =
                 IF Slice(content'[File], offset[c], to_read(c)) # Part(c)
                 THEN faults[c] \cup {"short"} ELSE faults[c]]
            /\ Account(c, to_read(c)) /\ UNCHANGED buf
  <2>1. PICK n \in 0 .. to_read(c) : (to_read(c) # 0 => n > 0) /\ Stored(c, n)
    BY <1>9, <1>10
  <2>2. QED
    BY <1>1, <1>5, <1>8, <1>10, <2>1, WrittenStep
<1>11. CASE Failed(c)
  <2>1. \/ content'[File] = content[File]
        \/ /\ args[c].op = "pwrite" /\ reply'.status # "ERROR"
           /\ \E n \in 0 .. to_read(c) : Stored(c, n)
    BY <1>1, <1>9
  <2>2. QED
    BY <1>1, <1>5, <1>7, <1>8, <1>11, <2>1, FailedStep
<1>12. QED
  BY <1>1, <1>10, <1>11

\* When the connection is lost, so is the descriptor.
LEMMA LoseStep ==
    ASSUME IOInv, NEW c \in Conn, Lose(c)
    PROVE  StepOf(c)
<1>1. pc[c] = "loop" /\ Exit(c) /\ Failed(c) /\ Watch(c)
  BY DEF Lose
<1>2. TypeOK
  BY Facts
<1>3. TypeOK'
  BY <1>1, <1>2, ConnectionStep
<1>4. content'[File] = content[File] /\ reply'.status # "ERROR"
  BY <1>1 DEF Exit, NoReply, Answer
<1>5. ~up'[c] /\ Apart(c)
  BY <1>1, <1>2 DEF Exit, TypeOK, Apart
<1>6. FdInv(c)'
  BY <1>5 DEF FdInv
<1>7. QED
  BY <1>1, <1>3, <1>4, <1>5, <1>6, FailedStep

LEMMA FinishStep ==
    ASSUME IOInv, NEW c \in Conn, Finish(c)
    PROVE  StepOf(c)
<1>1. /\ pc[c] = "loop" /\ count[c] = 0
      /\ pc' = [pc EXCEPT ![c] = "done"]
      /\ result' = [result EXCEPT ![c] = ret[c]]
      /\ UNCHANGED <<vars, args, count, offset, buf, ret, before, disturbed, faults>>
  BY DEF Finish
<1>2. /\ TypeOK /\ CallTables /\ ClientInv(c) /\ ret[c] \in Nat /\ args[c].count \in Nat
      /\ MaxData \in Nat
  BY Facts
<1>3. UNCHANGED <<up, content, fdtable>> /\ TypeOK'
  BY <1>1, <1>2 DEF vars, TypeOK
<1>4. CallTables'
  BY <1>1, <1>2 DEF CallTables
<1>5. \A d \in Conn \ {c} : Unmoved(d)
  BY <1>1, <1>2, <1>3 DEF Unmoved, CallTables
<1>6. pc'[c] = "done" /\ result'[c] = ret[c] /\ ret[c] = args[c].count
  BY <1>1, <1>2 DEF CallTables, ClientInv, LoopInv
<1>7. Reported(c)' = ret[c]
  BY <1>2, <1>6 DEF Reported
<1>8. result'[c] \in -1 .. args'[c].count
  BY <1>1, <1>2, <1>6, InRange
<1>9. FdInv(c)' /\ IdleInv(c)' /\ ArgsInv(c)' /\ LoopInv(c)' /\ ShortDone(c)'
  BY <1>1, <1>2, <1>3, <1>6 DEF ClientInv, FdInv, IdleInv, ArgsInv, LoopInv, ShortDone
<1>10. ReadDone(c)'
  BY <1>1, <1>2, <1>3, <1>6, <1>7 DEF ClientInv, LoopInv, ReadDone, Done
<1>11. WriteDone(c)'
  <2> SUFFICES ASSUME Done(c, "pwrite")', ~disturbed'[c], "short" \notin faults'[c]
               PROVE  \E extra \in 0 .. (IF "lost" \in faults'[c] THEN MaxData ELSE 0) :
                         content'[File] = Overwrite(before'[c], args'[c].offset,
                            SubSeq(args'[c].data, 1,
                               IF ret[c] + extra > Len(args'[c].data)
                               THEN Len(args'[c].data) ELSE ret[c] + extra))
    BY <1>7 DEF WriteDone
  <2>1. content'[File] = Overwrite(before'[c], args'[c].offset,
                                   SubSeq(args'[c].data, 1, ret[c]))
    BY <1>1, <1>2, <1>3 DEF ClientInv, LoopInv, Done
  <2>2. Len(args'[c].data) = args[c].count
    BY <1>1, <1>2 DEF ClientInv, ArgsInv, Done
  <2>3. /\ ret[c] + 0 = ret[c] /\ ~(ret[c] + 0 > Len(args'[c].data))
        /\ 0 \in 0 .. (IF "lost" \in faults'[c] THEN MaxData ELSE 0)
    BY <1>2, <1>6, <2>2
  <2>4. QED
    BY <2>1, <2>3
<1>12. QED
  BY <1>3, <1>4, <1>5, <1>8, <1>9, <1>10, <1>11 DEF StepOf, ClientInv

LEMMA CallStep ==
    ASSUME IOInv, NEW c \in Conn, NEW a \in Args,
           a.op = "pwrite" => Len(a.data) = a.count, Call(c, a)
    PROVE  StepOf(c)
<1>1. /\ pc[c] = "idle" /\ pc' = [pc EXCEPT ![c] = "loop"]
      /\ args' = [args EXCEPT ![c] = a] /\ count' = [count EXCEPT ![c] = a.count]
      /\ offset' = [offset EXCEPT ![c] = a.offset]
      /\ before' = [before EXCEPT ![c] = content[File]]
      /\ UNCHANGED <<vars, buf, ret, result, disturbed, faults>>
  BY DEF Call
<1>2. TypeOK /\ CallTables /\ ClientInv(c) /\ content[File] \in Seq(Unit)
  BY Facts
<1>3. UNCHANGED <<up, content, fdtable>> /\ TypeOK'
  BY <1>1, <1>2 DEF vars, TypeOK
<1>4. a.count \in Nat /\ a.offset \in Nat /\ a.data \in Seq(Unit)
  BY DEF Args, Unit
<1>5. CallTables'
  BY <1>1, <1>2, <1>4 DEF CallTables
<1>6. \A d \in Conn \ {c} : Unmoved(d)
  BY <1>1, <1>2, <1>3 DEF Unmoved, CallTables
<1>7. /\ pc'[c] = "loop" /\ args'[c] = a /\ count'[c] = a.count
      /\ offset'[c] = a.offset /\ before'[c] = content[File]
      /\ ret'[c] = 0 /\ result'[c] = 0 /\ buf'[c] = <<>>
  BY <1>1, <1>2 DEF CallTables, ClientInv, IdleInv
<1>8. SubSeq(a.data, 1, 0) = <<>>
  BY <1>4
<1>9. Overwrite(content[File], a.offset, SubSeq(a.data, 1, 0)) = content[File]
  BY <1>8 DEF Overwrite
<1>10. Slice(content[File], a.offset, 0) = <<>>
  <2> DEFINE e == Slice(content[File], a.offset, 0)
  <2>1. e \in Seq(Unit) /\ Len(e) <= 0
    BY <1>2, <1>4, SliceType
  <2>2. QED
    BY <2>1
<1>11. ret'[c] + count'[c] = args'[c].count /\ offset'[c] = args'[c].offset + ret'[c]
  BY <1>4, <1>7
<1>12. LoopInv(c)'
  BY <1>3, <1>7, <1>9, <1>10, <1>11 DEF LoopInv
<1>13. FdInv(c)' /\ IdleInv(c)' /\ ArgsInv(c)'
  BY <1>2, <1>3, <1>7 DEF ClientInv, FdInv, IdleInv, ArgsInv
<1>14. ReadDone(c)' /\ WriteDone(c)' /\ ShortDone(c)'
  BY <1>7 DEF ReadDone, WriteDone, ShortDone, Done
<1>15. result'[c] \in -1 .. args'[c].count
  BY <1>4, <1>7, InRange
<1>16. QED
  BY <1>3, <1>5, <1>6, <1>12, <1>13, <1>14, <1>15 DEF StepOf, ClientInv

-----------------------------------------------------------------------------
(* The invariant is inductive.                                             *)

LEMMA NoArgsType == NoArgs \in Args
BY DEF NoArgs, Args

LEMMA IOInvInit == IOInit => IOInv
<1> SUFFICES ASSUME IOInit PROVE IOInv
  OBVIOUS
<1>1. /\ Target \in Name /\ File \in Inode /\ TheFd \in FileFd /\ TheFd \in Fd
      /\ Contents \subseteq Seq(Unit)
  BY IOAssumption DEF FileFd
<1>2. OpenAs(File, {"RDWR", "CREAT"}) = [ino |-> File, read |-> TRUE, write |-> TRUE]
  BY DEF OpenAs
<1>3. TypeOK
  <2>1. up \in [Conn -> BOOLEAN]
    BY Zenon DEF IOInit
  <2>2. inode \in [Name -> Inode \cup {None}]
    BY <1>1 DEF IOInit
  <2>3. content \in [Inode -> Seq(Unit)]
    <3>1. PICK s \in Contents : content = [j \in Inode |-> IF j = File THEN s ELSE <<>>]
      BY DEF IOInit
    <3>2. s \in Seq(Unit) /\ <<>> \in Seq(Unit)
      BY <1>1
    <3>3. QED
      BY <3>1, <3>2
  <2>4. fdtable \in [Conn -> [Fd -> OpenFile \cup {Closed}]]
    <3>1. OpenAs(File, {"RDWR", "CREAT"}) \in OpenFile
      BY <1>1, OpenAsType
    <3>2. QED
      BY <3>1 DEF IOInit
  <2>5. locked \in [Conn -> [Inode -> LockType]] /\ told \in [Conn -> [Fd -> LockType]]
    BY DEF IOInit, LockType
  <2>6. reply \in [conn : Conn \cup {None}, status : {"OK", "ERROR", "NONE"},
                   errno : Errno, val : Nat, data : Seq(Unit)]
    BY DEF IOInit, NoReply, Answer, Errno
  <2>7. QED
    BY <2>1, <2>2, <2>3, <2>4, <2>5, <2>6 DEF TypeOK
<1>4. NoArgs \in Args
  BY NoArgsType
<1>5. CallTables
  <2>1. disturbed \in [Conn -> BOOLEAN]
    BY Zenon DEF IOInit
  <2>2. QED
    BY <1>4, <2>1 DEF IOInit, CallTables, Fault
<1>6. ASSUME NEW c \in Conn
      PROVE  ClientInv(c)
  <2>1. /\ pc[c] = "idle" /\ args[c] = NoArgs /\ ret[c] = 0 /\ result[c] = 0
        /\ buf[c] = <<>> /\ faults[c] = {}
    BY DEF IOInit
  <2>2. FdInv(c)
    BY <1>1, <1>2 DEF IOInit, FdInv
  <2>3. result[c] \in -1 .. args[c].count
    BY <2>1, InRange DEF NoArgs
  <2>4. QED
    BY <2>1, <2>2, <2>3 DEF ClientInv, IdleInv, ArgsInv, LoopInv, ReadDone, WriteDone,
       ShortDone, Done, NoArgs
<1>7. QED
  BY <1>3, <1>5, <1>6 DEF IOInv

LEMMA IOInvStep == IOInv /\ [IONext]_ioVars => IOInv'
<1> SUFFICES ASSUME IOInv, [IONext]_ioVars PROVE IOInv'
  OBVIOUS
<1>1. ASSUME NEW c \in Conn, StartPread(c) PROVE StepOf(c)
  <2>1. PICK o \in Offsets, n \in Counts :
           Call(c, [NoArgs EXCEPT !.op = "pread", !.offset = o, !.count = n])
    BY <1>1 DEF StartPread
  <2> DEFINE a == [NoArgs EXCEPT !.op = "pread", !.offset = o, !.count = n]
  <2>2. o \in Nat /\ n \in Nat
    BY IOAssumption
  <2>3. a \in Args /\ a.op # "pwrite"
    <3>1. a \in Args /\ a.op = "pread"
      BY <2>2, NoArgsType DEF Args
    <3>2. QED
      BY <3>1
  <2> HIDE DEF a
  <2>4. Call(c, a)
    BY <2>1 DEF a
  <2>5. QED
    BY <2>3, <2>4, CallStep
<1>2. ASSUME NEW c \in Conn, StartPwrite(c) PROVE StepOf(c)
  <2>1. PICK o \in Offsets, d \in Payload :
           Call(c, [NoArgs EXCEPT !.op = "pwrite", !.offset = o,
                                  !.count = Len(d), !.data = d])
    BY <1>2 DEF StartPwrite
  <2> DEFINE a == [NoArgs EXCEPT !.op = "pwrite", !.offset = o,
                                 !.count = Len(d), !.data = d]
  <2>2. o \in Nat /\ d \in Seq(Data) /\ Len(d) \in Nat
    BY IOAssumption
  <2>3. a \in Args /\ Len(a.data) = a.count
    BY <2>2 DEF NoArgs, Args
  <2> HIDE DEF a
  <2>4. Call(c, a)
    BY <2>1 DEF a
  <2>5. QED
    BY <2>3, <2>4, CallStep
<1>3. ASSUME NEW c \in Conn, StartRand(c) PROVE StepOf(c)
  <2>1. PICK s \in Device \cup {"other"}, n \in Counts :
           Call(c, [NoArgs EXCEPT !.op = "rand", !.src = s, !.count = n])
    BY <1>3 DEF StartRand
  <2> DEFINE a == [NoArgs EXCEPT !.op = "rand", !.src = s, !.count = n]
  <2>2. n \in Nat
    BY IOAssumption
  <2>3. a \in Args /\ a.op # "pwrite"
    <3>1. a \in Args /\ a.op = "rand"
      BY <2>2, NoArgsType DEF Args
    <3>2. QED
      BY <3>1
  <2> HIDE DEF a
  <2>4. Call(c, a)
    BY <2>1 DEF a
  <2>5. QED
    BY <2>3, <2>4, CallStep
<1>4. CASE IONext
  <2>1. PICK c \in Conn : StartPread(c) \/ StartPwrite(c) \/ StartRand(c) \/ Running(c)
    BY <1>4 DEF IONext
  <2>2. Running(c) => StepOf(c)
    BY PreadRequestStep, PwriteRequestStep, RandRequestStep, LoseStep, FinishStep
      DEF Running
  <2>3. StepOf(c)
    BY <1>1, <1>2, <1>3, <2>1, <2>2
  <2>4. QED
    BY <2>3, StepKeeps
<1>5. CASE UNCHANGED ioVars
  <2>1. TypeOK' /\ CallTables'
    BY <1>5 DEF ioVars, vars, callVars, IOInv, TypeOK, CallTables
  <2>2. \A d \in Conn : Unmoved(d)
    BY <1>5 DEF ioVars, vars, callVars, Unmoved
  <2>3. \A d \in Conn : ClientInv(d)'
    BY <2>2, Bystander DEF IOInv
  <2>4. QED
    BY <2>1, <2>3 DEF IOInv
<1>6. QED
  BY <1>4, <1>5

LEMMA IOInvAlways == IOSpec => []IOInv
<1>1. QED
  BY IOInvInit, IOInvStep, PTL DEF IOSpec

-----------------------------------------------------------------------------
(* The theorems.                                                           *)

\* The variables of icbinn_pread, icbinn_pwrite and icbinn_rand keep their
\* types; what is left and what has been done make up what was asked for.
THEOREM IOTypeCorrect == IOSpec => []IOTypeOK
<1>1. IOInv => IOTypeOK
  BY DEF IOInv, CallTables, ClientInv, LoopInv, IOTypeOK, Fault
<1>2. QED
  BY <1>1, IOInvAlways, PTL

\* What icbinn_pread returns is the length of what it has read of a file that
\* nobody changes, whatever the sizes of the file, the call and a request,
\* and whichever request fails.
THEOREM ReadReportedAlways == IOSpec => []ReadReported
<1>1. IOInv => ReadReported
  BY DEF IOInv, ClientInv, ReadDone, ReadReported
<1>2. QED
  BY <1>1, IOInvAlways, PTL

\* What icbinn_pwrite returns is what it has stored, but for the one request
\* whose reply was lost.
THEOREM WriteReportedAlways == IOSpec => []WriteReported
<1>1. IOInv => WriteReported
  BY DEF IOInv, ClientInv, WriteDone, WriteReported
<1>2. QED
  BY <1>1, IOInvAlways, PTL

\* No call falls short but for a fault or the end of the file; in particular
\* no request of the library is refused as too large.
THEOREM ShortForAReasonAlways == IOSpec => []ShortForAReason
<1>1. IOInv => ShortForAReason
  BY DEF IOInv, ClientInv, ShortDone, ShortForAReason
<1>2. QED
  BY <1>1, IOInvAlways, PTL
=============================================================================
