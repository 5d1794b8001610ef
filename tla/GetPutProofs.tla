---------------------------- MODULE GetPutProofs ----------------------------
(***************************************************************************)
(* Proofs about GetPut for any number of clients, commands and descriptors *)
(* and files of any length.                                                *)
(***************************************************************************)
EXTENDS GetPut, ServerFilesProofs, SequenceTheorems, TLAPS

-----------------------------------------------------------------------------
(* The inductive invariant.                                                *)

\* A command has its remote file open, and beside it only what calls without
\* an answer have left is open.
FdInv(c) ==
    /\ pc[c] \in Copying =>
          /\ ifd[c] \in FileFd /\ ifd[c] \notin lost[c] /\ Remote(c) \in Inode
          /\ \A f \in Fd : f # ifd[c] => (fdtable[c][f].ino # None <=> f \in lost[c])
    /\ pc[c] \notin Copying =>
          \A f \in Fd : fdtable[c][f].ino # None <=> f \in lost[c]

\* Of a file that nobody else changes get has the first off units.
GetInv(c) ==
    /\ pc[c] = "get_open" => file[c] = <<>> /\ off[c] = 0
    /\ pc[c] \in {"get_lock", "get_local", "get_copy"} /\ ~disturbed[c] =>
          /\ off[c] <= Len(content[Remote(c)])
          /\ file[c] = SubSeq(content[Remote(c)], 1, off[c])
    /\ pc[c] = "get_close" /\ outcome[c] = "ok" /\ ~disturbed[c] =>
          file[c] = content[Remote(c)]

\* Into a file that nobody else changes put has written the first off units,
\* if the host has written all it was given.
PutInv(c) ==
    /\ pc[c] = "put_open" => off[c] = 0
    /\ pc[c] \in {"put_lock", "put_copy"} =>
          /\ off[c] <= Len(file[c])
          /\ ~disturbed[c] /\ ~short[c] =>
                content[Remote(c)] = SubSeq(file[c], 1, off[c])
    /\ pc[c] = "put_close" /\ outcome[c] = "ok" /\ ~disturbed[c] /\ ~short[c] =>
          file[c] = content[Remote(c)]

ClientInv(c) == FdInv(c) /\ GetInv(c) /\ PutInv(c)

Bounded == \A i \in Inode : Len(content[i]) <= MaxSize

GPInv ==
    /\ TypeOK /\ GPTypeOK /\ Bounded
    /\ \A c \in Conn : ClientInv(c)

-----------------------------------------------------------------------------
(* The parts of a file.                                                    *)

\* get: what was read so far and the part that follows it, and the end.
LEMMA GetPart ==
    ASSUME NEW s \in Seq(Unit), NEW o \in Nat, o <= Len(s)
    PROVE  /\ o + Len(Slice(s, o, MaxData)) <= Len(s)
           /\ SubSeq(s, 1, o) \o Slice(s, o, MaxData)
                = SubSeq(s, 1, o + Len(Slice(s, o, MaxData)))
           /\ Slice(s, o, MaxData) = <<>> => SubSeq(s, 1, o) = s
<1> DEFINE d == Slice(s, o, MaxData)
<1>1. MaxData \in Nat /\ MaxData > 0
  BY SizeAssumption, GetPutAssumption
<1>2. /\ d \in Seq(Unit)
      /\ Len(d) = IF o >= Len(s) THEN 0 ELSE IF o + MaxData > Len(s) THEN Len(s) - o
                                             ELSE MaxData
      /\ \A k \in 1 .. Len(d) : d[k] = s[o + k]
  BY <1>1, SliceElements
<1> HIDE DEF d
<1>3. Len(d) \in Nat /\ o + Len(d) <= Len(s) /\ (Len(d) = 0 => o = Len(s))
  BY <1>1, <1>2
<1>4. /\ SubSeq(s, 1, o) \in Seq(Unit) /\ Len(SubSeq(s, 1, o)) = o
      /\ \A k \in 1 .. o : SubSeq(s, 1, o)[k] = s[k]
  OBVIOUS
<1>5. SubSeq(s, 1, o) \o d = SubSeq(s, 1, o + Len(d))
  <2>1. d = SubSeq(s, o + 1, o + Len(d))
    <3>1. d = SubSeq(s, o + 1, IF o + MaxData > Len(s) THEN Len(s) ELSE o + MaxData)
      BY DEF d, Slice
    <3>2. CASE o = Len(s)
      BY <1>1, <1>2, <3>1, <3>2
    <3>3. CASE o < Len(s)
      BY <1>1, <1>2, <3>1, <3>3
    <3>4. QED
      BY <3>2, <3>3
  <2>2. 1 \in 1 .. Len(s) + 1 /\ o \in 1 - 1 .. Len(s) /\ o + Len(d) \in o .. Len(s)
    BY <1>3
  <2>3. SubSeq(s, 1, o) \o SubSeq(s, o + 1, o + Len(d)) = SubSeq(s, 1, o + Len(d))
    BY <2>2, ConcatAdjacentSubSeq, Zenon
  <2>4. QED
    BY <2>1, <2>3
<1>6. Len(d) = 0 => SubSeq(s, 1, o) = s
  BY <1>3, <1>4, SeqEqual
<1>7. QED
  BY <1>3, <1>5, <1>6 DEF d

\* put: a part that was stored as a whole continues what was stored so far.
LEMMA PutPart ==
    ASSUME NEW s \in Seq(Unit), NEW o \in Nat, o <= Len(s),
           NEW n \in 1 .. Len(Slice(s, o, MaxData)),
           Slice(Overwrite(SubSeq(s, 1, o), o,
                           SubSeq(Slice(s, o, MaxData), 1, n)),
                 o, Len(Slice(s, o, MaxData)))
             = Slice(s, o, MaxData)
    PROVE  Overwrite(SubSeq(s, 1, o), o, SubSeq(Slice(s, o, MaxData), 1, n))
             = SubSeq(s, 1, o + Len(Slice(s, o, MaxData)))
<1> DEFINE d == Slice(s, o, MaxData)
<1> DEFINE p == SubSeq(s, 1, o)
<1> DEFINE q == SubSeq(d, 1, n)
<1> DEFINE t == Overwrite(p, o, q)
<1>1. MaxData \in Nat /\ MaxData > 0
  BY SizeAssumption, GetPutAssumption
<1>2. /\ d \in Seq(Unit)
      /\ \A k \in 1 .. Len(d) : d[k] = s[o + k]
      /\ Len(d) = IF o >= Len(s) THEN 0 ELSE IF o + MaxData > Len(s) THEN Len(s) - o
                                             ELSE MaxData
  BY <1>1, SliceElements
<1>3. Slice(t, o, Len(d)) = d /\ n \in 1 .. Len(d)
  OBVIOUS
<1> HIDE DEF d
<1>4. Len(d) \in Nat /\ n \in Nat /\ n >= 1 /\ n <= Len(d) /\ o + Len(d) <= Len(s)
  BY <1>1, <1>2, <1>3
<1>5. /\ q \in Seq(Unit) /\ Len(q) = n /\ q # <<>>
      /\ \A k \in 1 .. n : q[k] = s[o + k]
  <2>1. n \in 0 .. Len(d) /\ \A k \in 1 .. n : k \in 1 .. Len(d)
    BY <1>4
  <2>2. q \in Seq(Unit) /\ Len(q) = n /\ \A k \in 1 .. n : q[k] = d[k]
    BY <1>2, <2>1, SubSeqPrefix, Zenon
  <2> HIDE DEF q
  <2>3. q # <<>>
    BY <1>4, <2>2
  <2>4. QED
    BY <1>2, <2>1, <2>2, <2>3, Zenon
<1>6. /\ p \in Seq(Unit) /\ Len(p) = o
      /\ \A k \in 1 .. o : p[k] = s[k]
  OBVIOUS
<1> HIDE DEF p, q
<1>7. /\ t \in Seq(Unit)
      /\ Len(t) = IF Len(p) > o + Len(q) THEN Len(p) ELSE o + Len(q)
      /\ \A k \in 1 .. Len(t) :
            t[k] = IF k > o /\ k <= o + Len(q) THEN q[k - o]
                   ELSE IF k <= Len(p) THEN p[k] ELSE Zero
  BY <1>5, <1>6, OverwriteElements
<1> HIDE DEF t
<1>8. Len(t) = o + n
  BY <1>4, <1>5, <1>6, <1>7
<1>9. n = Len(d)
  <2>1. Len(Slice(t, o, Len(d))) =
          IF o >= Len(t) THEN 0 ELSE IF o + Len(d) > Len(t) THEN Len(t) - o ELSE Len(d)
    BY <1>4, <1>7, SliceElements, Zenon
  <2>2. QED
    BY <1>3, <1>4, <1>8, <2>1
<1>10. \A k \in 1 .. o + n : t[k] = s[k]
  <2> SUFFICES ASSUME NEW k \in 1 .. o + n PROVE t[k] = s[k]
    OBVIOUS
  <2>1. CASE k > o
    <3>1. k - o \in 1 .. n /\ o + (k - o) = k
      BY <1>4, <2>1
    <3>2. t[k] = q[k - o] /\ q[k - o] = s[o + (k - o)]
      BY <1>4, <1>5, <1>7, <1>8, <2>1, <3>1
    <3>3. QED
      BY <3>1, <3>2
  <2>2. CASE k <= o
    BY <1>4, <1>6, <1>7, <1>8, <2>2
  <2>3. QED
    BY <1>4, <2>1, <2>2
<1>11. /\ SubSeq(s, 1, o + n) \in Seq(Unit)
       /\ Len(SubSeq(s, 1, o + n)) = o + n
       /\ \A k \in 1 .. o + n : SubSeq(s, 1, o + n)[k] = s[k]
  BY <1>4, <1>9
<1>12. t = SubSeq(s, 1, o + n)
  BY <1>7, <1>8, <1>10, <1>11, SeqEqual
<1>13. QED
  BY <1>9, <1>12 DEF t, p, q, d

-----------------------------------------------------------------------------
(* What a step of one client leaves of the others.                         *)

\* Nothing of the command d runs changes; that its remote file does is noted.
Unmoved(d) ==
    /\ pc'[d] = pc[d] /\ ifd'[d] = ifd[d] /\ off'[d] = off[d]
    /\ file'[d] = file[d] /\ outcome'[d] = outcome[d] /\ short'[d] = short[d]
    /\ fdtable'[d] = fdtable[d] /\ lost'[d] = lost[d]
    /\ ~disturbed'[d] =>
          /\ ~disturbed[d]
          /\ pc[d] \in Copying => content'[Remote(d)] = content[Remote(d)]

LEMMA Bystander ==
    ASSUME NEW d \in Conn, ClientInv(d), Unmoved(d)
    PROVE  ClientInv(d)'
<1>1. FdInv(d)'
  BY DEF ClientInv, FdInv, Unmoved, Remote
<1>2. GetInv(d)'
  BY DEF ClientInv, GetInv, Unmoved, Remote, Copying
<1>3. PutInv(d)'
  BY DEF ClientInv, PutInv, Unmoved, Remote, Copying
<1>4. QED
  BY <1>1, <1>2, <1>3 DEF ClientInv

\* A step of c: its own command is as it should be, the others' are theirs.
StepOf(c) ==
    /\ TypeOK' /\ GPTypeOK' /\ Bounded' /\ ClientInv(c)'
    /\ \A d \in Conn \ {c} : Unmoved(d)

LEMMA StepKeeps ==
    ASSUME GPInv, NEW c \in Conn, StepOf(c)
    PROVE  GPInv'
<1>1. ASSUME NEW d \in Conn PROVE ClientInv(d)'
  <2>1. CASE d = c
    BY <2>1 DEF StepOf
  <2>2. CASE d # c
    BY <2>2, Bystander DEF StepOf, GPInv
  <2>3. QED
    BY <2>1, <2>2
<1>2. QED
  BY <1>1 DEF GPInv, StepOf

LEMMA Facts ==
    ASSUME GPInv, NEW c \in Conn
    PROVE  /\ TypeOK /\ GPTypeOK /\ Bounded /\ ClientInv(c)
           /\ off[c] \in Nat /\ off[c] \in 0 .. MaxSize
           /\ file[c] \in Seq(Unit) /\ MaxData \in Nat /\ MaxSize \in Nat
           /\ 0 \in Fd /\ 0 \in 0 .. MaxSize
<1>1. TypeOK /\ GPTypeOK /\ Bounded /\ ClientInv(c)
  BY DEF GPInv
<1>2. MaxData \in Nat /\ MaxSize \in Nat /\ 0 \in Fd
  BY SizeAssumption, GetPutAssumption DEF Fd
<1>3. QED
  BY <1>1, <1>2 DEF GPTypeOK

\* Watch notes what changes, and nothing of the client whose request it is.
LEMMA Watched ==
    ASSUME GPInv, NEW c \in Conn, Watch(c)
    PROVE  /\ disturbed' \in [Conn -> BOOLEAN] /\ disturbed'[c] = disturbed[c]
           /\ \A d \in Conn \ {c} : ~disturbed'[d] =>
                 /\ ~disturbed[d]
                 /\ pc[d] \in Copying => content'[Remote(d)] = content[Remote(d)]
<1>1. disturbed \in [Conn -> BOOLEAN]
  BY DEF GPInv, GPTypeOK
<1>2. QED
  BY <1>1, Zenon DEF Watch

-----------------------------------------------------------------------------
(* The steps of a command.                                                 *)

LEMMA BeginStep ==
    ASSUME GPInv, NEW c \in Conn, NEW label \in {"idle", "put_open", "get_open"},
           NEW contents \in Seq(Unit), label = "get_open" => contents = <<>>,
           NEW result \in {"ok", "failed"}, Begin(c, label, contents, result)
    PROVE  StepOf(c)
<1>1. /\ pc[c] = "idle" /\ UNCHANGED <<vars, lost>>
      /\ pc' = [pc EXCEPT ![c] = label] /\ outcome' = [outcome EXCEPT ![c] = result]
      /\ off' = [off EXCEPT ![c] = 0] /\ ifd' = [ifd EXCEPT ![c] = 0]
      /\ file' = [file EXCEPT ![c] = contents]
      /\ disturbed' = [disturbed EXCEPT ![c] = FALSE]
      /\ short' = [short EXCEPT ![c] = FALSE]
      /\ cmds' = [cmds EXCEPT ![c] = cmds[c] + 1] /\ cmds[c] < MaxCmds
  BY DEF Begin, Return, Goto
<1>2. GPTypeOK /\ TypeOK /\ Bounded /\ ClientInv(c) /\ 0 \in Fd /\ 0 \in 0 .. MaxSize
  BY Facts
<1>3. UNCHANGED <<content, fdtable>> /\ TypeOK' /\ Bounded'
  BY <1>1, <1>2 DEF vars, TypeOK, Bounded
<1>4. GPTypeOK'
  <2>1. cmds' \in [Conn -> 0 .. MaxCmds]
    BY <1>1, <1>2, GetPutAssumption DEF GPTypeOK
  <2>2. QED
    BY <1>1, <1>2, <2>1 DEF GPTypeOK
<1>5. \A d \in Conn \ {c} : Unmoved(d)
  BY <1>1, <1>2, <1>3 DEF Unmoved, GPTypeOK
<1>6. pc'[c] = label /\ file'[c] = contents /\ off'[c] = 0
  BY <1>1, <1>2 DEF GPTypeOK
<1>7. FdInv(c)'
  BY <1>1, <1>2, <1>3, <1>6 DEF ClientInv, FdInv, Copying
<1>8. GetInv(c)' /\ PutInv(c)'
  BY <1>6 DEF GetInv, PutInv
<1>9. QED
  BY <1>3, <1>4, <1>5, <1>7, <1>8 DEF StepOf, ClientInv

\* What open does to the tables: c has the file open, or nothing.
LEMMA Opened ==
    ASSUME GPInv, NEW c \in Conn, pc[c] \notin Copying, NEW m,
           NEW label \in Copying, OpenRemote(c, m, label)
    PROVE  /\ TypeOK' /\ GPTypeOK' /\ Bounded' /\ FdInv(c)'
           /\ \A d \in Conn \ {c} : Unmoved(d)
           /\ off'[c] = off[c] /\ file'[c] = file[c]
           /\ \/ pc'[c] = "idle"
              \/ /\ pc'[c] = label /\ Remote(c)' \in Inode
                 /\ "TRUNC" \in m => content'[Remote(c)'] = <<>>
<1>1. Target \in Name
  BY GetPutAssumption
<1>2. /\ TypeOK /\ GPTypeOK /\ Bounded /\ ClientInv(c) /\ 0 \in Fd
      /\ MaxSize \in Nat
  BY Facts
<1>3. /\ Open(c, Target, m) /\ Watch(c)
      /\ ifd' = [ifd EXCEPT ![c] = reply'.val]
      /\ UNCHANGED <<off, file, cmds, short, lost>>
      /\ IF reply'.status = "OK" THEN pc' = [pc EXCEPT ![c] = label] /\ UNCHANGED outcome
         ELSE /\ pc' = [pc EXCEPT ![c] = "idle"]
              /\ outcome' = [outcome EXCEPT ![c] = "failed"]
  BY DEF OpenRemote, Ok, Goto, Return
<1>4. /\ TypeOK' /\ Replied(c)
      /\ reply'.status = "ERROR" => UNCHANGED <<inode, content, fdtable>>
      /\ reply'.status = "OK" =>
            /\ reply'.val \in FileFd /\ fdtable[c][reply'.val].ino = None
            /\ inode'[Target] \in Inode
            /\ fdtable' = [fdtable EXCEPT ![c][reply'.val] = OpenAs(inode'[Target], m)]
            /\ "TRUNC" \in m => Len(content'[inode'[Target]]) = 0
  BY <1>1, <1>2, <1>3, OpenResult
<1>5. Bounded'
  <2>1. \A i \in Inode : content'[i] = content[i] \/ content'[i] = <<>>
    BY <1>1, <1>2, <1>3, OpenContents
  <2>2. QED
    BY <1>2, <2>1 DEF Bounded
<1>6. \A d \in Conn \ {c} : fdtable'[d] = fdtable[d]
  BY <1>2, <1>4 DEF Replied, TypeOK
<1>7. /\ disturbed' \in [Conn -> BOOLEAN] /\ disturbed'[c] = disturbed[c]
      /\ \A d \in Conn \ {c} : ~disturbed'[d] =>
            /\ ~disturbed[d]
            /\ pc[d] \in Copying => content'[Remote(d)] = content[Remote(d)]
  BY <1>3, Watched
<1>8. \A d \in Conn \ {c} : Unmoved(d)
  BY <1>2, <1>3, <1>6, <1>7 DEF Unmoved, GPTypeOK
<1>9. CASE reply'.status = "OK"
  <2>1. /\ pc' = [pc EXCEPT ![c] = label] /\ UNCHANGED outcome
    BY <1>3, <1>9
  <2>2. reply'.val \in FileFd /\ reply'.val \in Fd
    BY <1>4, <1>9 DEF FileFd
  <2>3. GPTypeOK'
    BY <1>2, <1>3, <1>7, <2>1, <2>2 DEF GPTypeOK
  <2>4. pc'[c] = label /\ ifd'[c] = reply'.val
    BY <1>2, <1>3, <2>1 DEF GPTypeOK
  <2>5. /\ fdtable'[c][reply'.val] = OpenAs(inode'[Target], m)
        /\ \A f \in Fd : f # reply'.val => fdtable'[c][f] = fdtable[c][f]
    BY <1>2, <1>4, <1>9, <2>2 DEF TypeOK
  <2>6. Remote(c)' = inode'[Target] /\ inode'[Target] \in Inode
    BY <1>4, <1>9, <2>4, <2>5 DEF Remote, OpenAs
  <2>7. FdInv(c)'
    <3>1. \A f \in Fd : fdtable[c][f].ino # None <=> f \in lost[c]
      BY <1>2 DEF ClientInv, FdInv
    <3>2. fdtable[c][reply'.val].ino = None /\ UNCHANGED lost
      BY <1>3, <1>4, <1>9
    <3>3. ifd'[c] \notin lost'[c]
      BY <2>2, <2>4, <3>1, <3>2
    <3>4. \A f \in Fd : f # ifd'[c] => (fdtable'[c][f].ino # None <=> f \in lost'[c])
      BY <2>4, <2>5, <3>1, <3>2
    <3>5. QED
      BY <2>2, <2>4, <2>6, <3>3, <3>4 DEF FdInv
  <2>8. "TRUNC" \in m => content'[Remote(c)'] = <<>>
    <3>1. content'[inode'[Target]] \in Seq(Unit)
      BY <1>4, <2>6 DEF TypeOK
    <3>2. QED
      BY <1>4, <1>9, <2>6, <3>1
  <2>9. QED
    BY <1>3, <1>4, <1>5, <1>8, <2>3, <2>4, <2>6, <2>7, <2>8
<1>10. CASE reply'.status # "OK"
  <2>1. /\ pc' = [pc EXCEPT ![c] = "idle"]
        /\ outcome' = [outcome EXCEPT ![c] = "failed"]
        /\ UNCHANGED fdtable
    BY <1>3, <1>4, <1>10 DEF Replied
  <2>2. reply'.val \in Fd
    BY <1>2, <1>3, <1>10 DEF Open, Error, OK, Answer, Install
  <2>3. GPTypeOK'
    BY <1>2, <1>3, <1>7, <2>1, <2>2 DEF GPTypeOK
  <2>4. pc'[c] = "idle"
    BY <1>2, <2>1 DEF GPTypeOK
  <2>5. FdInv(c)'
    BY <1>2, <1>3, <2>1, <2>4 DEF ClientInv, FdInv, Copying
  <2>6. QED
    BY <1>3, <1>4, <1>5, <1>8, <2>3, <2>4, <2>5
<1>11. QED
  BY <1>9, <1>10

LEMMA PutOpenStep ==
    ASSUME GPInv, NEW c \in Conn, PutOpen(c)
    PROVE  StepOf(c)
<1> DEFINE m == {"WRONLY", "CREAT", "TRUNC"}
<1>1. /\ pc[c] = "put_open" /\ OpenRemote(c, m, "put_lock") /\ "TRUNC" \in m
      /\ pc[c] \notin Copying /\ "put_lock" \in Copying
  BY DEF PutOpen, Copying
<1> HIDE DEF m
<1>2. /\ TypeOK' /\ GPTypeOK' /\ Bounded' /\ FdInv(c)'
      /\ \A d \in Conn \ {c} : Unmoved(d)
      /\ off'[c] = off[c] /\ file'[c] = file[c]
      /\ \/ pc'[c] = "idle"
         \/ pc'[c] = "put_lock" /\ content'[Remote(c)'] = <<>>
  BY <1>1, Opened
<1>3. off[c] = 0 /\ file[c] \in Seq(Unit)
  BY <1>1, Facts DEF ClientInv, PutInv
<1>4. SubSeq(file[c], 1, 0) = <<>> /\ 0 <= Len(file[c])
  BY <1>3
<1>5. GetInv(c)' /\ PutInv(c)'
  BY <1>2, <1>3, <1>4 DEF GetInv, PutInv, Remote
<1>6. QED
  BY <1>2, <1>5 DEF StepOf, ClientInv

LEMMA GetOpenStep ==
    ASSUME GPInv, NEW c \in Conn, GetOpen(c)
    PROVE  StepOf(c)
<1>1. /\ pc[c] = "get_open" /\ OpenRemote(c, {}, "get_lock")
      /\ pc[c] \notin Copying /\ "get_lock" \in Copying
  BY DEF GetOpen, Copying
<1>2. /\ TypeOK' /\ GPTypeOK' /\ Bounded' /\ FdInv(c)'
      /\ \A d \in Conn \ {c} : Unmoved(d)
      /\ off'[c] = off[c] /\ file'[c] = file[c]
      /\ \/ pc'[c] = "idle"
         \/ pc'[c] = "get_lock" /\ Remote(c)' \in Inode
  BY <1>1, Opened
<1>3. off[c] = 0 /\ file[c] = <<>>
  BY <1>1, Facts DEF ClientInv, GetInv
<1>4. \A i \in Inode : SubSeq(content'[i], 1, 0) = <<>> /\ 0 <= Len(content'[i])
  BY <1>2 DEF TypeOK
<1>5. GetInv(c)' /\ PutInv(c)'
  BY <1>2, <1>3, <1>4 DEF GetInv, PutInv, Remote
<1>6. QED
  BY <1>2, <1>5 DEF StepOf, ClientInv

\* A step that touches no file: only the place in the command and what it
\* will return change.
LEMMA MoveStep ==
    ASSUME GPInv, NEW c \in Conn, NEW label \in Copying, pc[c] \in Copying,
           pc' = [pc EXCEPT ![c] = label],
           \/ UNCHANGED outcome
           \/ /\ outcome' = [outcome EXCEPT ![c] = "failed"]
              /\ label \in {"put_close", "get_close"},
           TypeOK', UNCHANGED <<content, fdtable, ifd, off, file, cmds, short, lost>>,
           disturbed' \in [Conn -> BOOLEAN], disturbed'[c] = disturbed[c],
           \A d \in Conn \ {c} : ~disturbed'[d] => ~disturbed[d],
           label \in {"get_local", "get_copy"} => pc[c] \in {"get_lock", "get_local"},
           label = "put_copy" => pc[c] = "put_lock",
           label = "get_close" => outcome'[c] = "failed",
           label = "put_close" => outcome'[c] = "failed"
                                  \/ (pc[c] = "put_copy" /\ off[c] >= Len(file[c])),
           label \notin {"get_lock", "put_lock"}
    PROVE  StepOf(c)
<1>1. /\ TypeOK /\ GPTypeOK /\ Bounded /\ ClientInv(c)
      /\ off[c] \in Nat /\ file[c] \in Seq(Unit)
  BY Facts
<1>2. GPTypeOK' /\ Bounded'
  BY <1>1 DEF GPTypeOK, Bounded
<1>3. \A d \in Conn \ {c} : Unmoved(d)
  BY <1>1 DEF Unmoved, GPTypeOK
<1>4. pc'[c] = label /\ Remote(c)' = Remote(c)
  BY <1>1 DEF GPTypeOK, Remote
<1>5. FdInv(c)'
  BY <1>1, <1>4 DEF ClientInv, FdInv
<1>6. GetInv(c)'
  BY <1>1, <1>4 DEF ClientInv, GetInv, Copying
<1>7. PutInv(c)'
  <2>1. CASE label = "put_close" /\ outcome'[c] # "failed"
    <3>1. pc[c] = "put_copy" /\ off[c] = Len(file[c])
      BY <1>1, <2>1 DEF ClientInv, PutInv
    <3>2. SubSeq(file[c], 1, off[c]) = file[c]
      BY <1>1, <3>1
    <3>3. QED
      BY <1>1, <1>4, <2>1, <3>1, <3>2 DEF ClientInv, PutInv
  <2>2. CASE ~(label = "put_close" /\ outcome'[c] # "failed")
    BY <1>1, <1>4, <2>2 DEF ClientInv, PutInv, Copying
  <2>3. QED
    BY <2>1, <2>2
<1>8. QED
  BY <1>2, <1>3, <1>5, <1>6, <1>7 DEF StepOf, ClientInv

\* A lock is asked for by a number that is not that of the remote file; the
\* descriptors and the contents do not depend on what comes of it.
LEMMA LockRemoteStep ==
    ASSUME GPInv, NEW c \in Conn, NEW f, NEW t,
           NEW label, NEW giveup, LockRemote(c, f, t, label, giveup),
           \/ /\ pc[c] = "put_lock" /\ label = "put_copy" /\ giveup = "put_close"
           \/ /\ pc[c] = "get_lock" /\ label = "get_local" /\ giveup = "get_close"
    PROVE  StepOf(c)
<1>1. /\ Lock(c, f, t) /\ Watch(c) /\ UNCHANGED <<ifd, off, file, cmds, short, lost>>
      /\ IF reply'.status = "OK" THEN pc' = [pc EXCEPT ![c] = label] /\ UNCHANGED outcome
         ELSE /\ pc' = [pc EXCEPT ![c] = giveup]
              /\ outcome' = [outcome EXCEPT ![c] = "failed"]
  BY DEF LockRemote, Ok, Goto, Return
<1>2. TypeOK' /\ UNCHANGED <<content, fdtable>>
  BY <1>1, LockStep, LockResult DEF GPInv
<1>3. /\ disturbed' \in [Conn -> BOOLEAN] /\ disturbed'[c] = disturbed[c]
      /\ \A d \in Conn \ {c} : ~disturbed'[d] => ~disturbed[d]
  BY <1>1, Watched
<1>4. CASE reply'.status = "OK"
  <2>1. pc' = [pc EXCEPT ![c] = label] /\ UNCHANGED outcome
    BY <1>1, <1>4
  <2>2. /\ label \in Copying /\ pc[c] \in Copying
        /\ label \in {"get_local", "get_copy"} => pc[c] \in {"get_lock", "get_local"}
        /\ label = "put_copy" => pc[c] = "put_lock"
        /\ ~(label = "get_close") /\ ~(label = "put_close")
        /\ label \notin {"get_lock", "put_lock"}
    BY DEF Copying
  <2>3. QED
    BY <1>1, <1>2, <1>3, <2>1, <2>2, MoveStep
<1>5. CASE reply'.status # "OK"
  <2>1. /\ pc' = [pc EXCEPT ![c] = giveup]
        /\ outcome' = [outcome EXCEPT ![c] = "failed"]
    BY <1>1, <1>5
  <2>2. outcome'[c] = "failed"
    BY <2>1 DEF GPInv, GPTypeOK
  <2>3. /\ giveup \in Copying /\ pc[c] \in Copying
        /\ giveup \in {"put_close", "get_close"}
        /\ ~(giveup \in {"get_local", "get_copy"}) /\ ~(giveup = "put_copy")
        /\ giveup \notin {"get_lock", "put_lock"}
    BY DEF Copying
  <2>4. QED
    BY <1>1, <1>2, <1>3, <2>1, <2>2, <2>3, MoveStep
<1>6. QED
  BY <1>4, <1>5

LEMMA PutEofStep ==
    ASSUME GPInv, NEW c \in Conn, PutEof(c)
    PROVE  StepOf(c)
<1>1. /\ pc[c] = "put_copy" /\ pc' = [pc EXCEPT ![c] = "put_close"]
      /\ UNCHANGED <<vars, ifd, off, file, cmds, disturbed, short, lost>>
      /\ \/ off[c] >= Len(file[c]) /\ UNCHANGED outcome
         \/ outcome' = [outcome EXCEPT ![c] = "failed"]
  BY DEF PutEof, Goto, Return
<1>2. /\ TypeOK' /\ UNCHANGED <<content, fdtable>>
      /\ disturbed' \in [Conn -> BOOLEAN] /\ disturbed'[c] = disturbed[c]
      /\ \A d \in Conn \ {c} : ~disturbed'[d] => ~disturbed[d]
  BY <1>1 DEF GPInv, GPTypeOK, TypeOK, vars
<1>3. outcome'[c] = "failed" \/ off[c] >= Len(file[c])
  BY <1>1 DEF GPInv, GPTypeOK
<1>4. /\ "put_close" \in Copying /\ pc[c] \in Copying
      /\ "put_close" \in {"put_close", "get_close"}
      /\ ~("put_close" \in {"get_local", "get_copy"}) /\ ~("put_close" = "put_copy")
      /\ ~("put_close" = "get_close") /\ "put_close" \notin {"get_lock", "put_lock"}
  BY <1>1 DEF Copying
<1>5. QED
  BY <1>1, <1>2, <1>3, <1>4, MoveStep

LEMMA GetLocalStep ==
    ASSUME GPInv, NEW c \in Conn, GetLocal(c)
    PROVE  StepOf(c)
<1>1. /\ pc[c] = "get_local"
      /\ UNCHANGED <<vars, ifd, off, file, cmds, disturbed, short, lost>>
      /\ \/ pc' = [pc EXCEPT ![c] = "get_copy"] /\ UNCHANGED outcome
         \/ /\ pc' = [pc EXCEPT ![c] = "get_close"]
            /\ outcome' = [outcome EXCEPT ![c] = "failed"]
  BY DEF GetLocal, Goto, Return
<1>2. /\ TypeOK' /\ UNCHANGED <<content, fdtable>>
      /\ disturbed' \in [Conn -> BOOLEAN] /\ disturbed'[c] = disturbed[c]
      /\ \A d \in Conn \ {c} : ~disturbed'[d] => ~disturbed[d]
  BY <1>1 DEF GPInv, GPTypeOK, TypeOK, vars
<1>3. CASE pc' = [pc EXCEPT ![c] = "get_copy"] /\ UNCHANGED outcome
  <2>1. /\ "get_copy" \in Copying /\ pc[c] \in Copying
        /\ pc[c] \in {"get_lock", "get_local"} /\ ~("get_copy" = "put_copy")
        /\ ~("get_copy" = "get_close") /\ ~("get_copy" = "put_close")
        /\ "get_copy" \notin {"get_lock", "put_lock"}
    BY <1>1 DEF Copying
  <2>2. QED
    BY <1>1, <1>2, <1>3, <2>1, MoveStep
<1>4. CASE /\ pc' = [pc EXCEPT ![c] = "get_close"]
           /\ outcome' = [outcome EXCEPT ![c] = "failed"]
  <2>1. /\ "get_close" \in Copying /\ pc[c] \in Copying
        /\ "get_close" \in {"put_close", "get_close"}
        /\ ~("get_close" \in {"get_local", "get_copy"}) /\ ~("get_close" = "put_copy")
        /\ ~("get_close" = "put_close") /\ "get_close" \notin {"get_lock", "put_lock"}
    BY <1>1 DEF Copying
  <2>2. outcome'[c] = "failed"
    BY <1>4 DEF GPInv, GPTypeOK
  <2>3. QED
    BY <1>1, <1>2, <1>4, <2>1, <2>2, MoveStep
<1>5. QED
  BY <1>1, <1>3, <1>4

\* The request that stores the next part.
LEMMA PutCopyStep ==
    ASSUME GPInv, NEW c \in Conn, PutCopy(c)
    PROVE  StepOf(c)
<1> DEFINE d == Slice(file[c], off[c], MaxData)
<1>1. /\ pc[c] = "put_copy" /\ off[c] < Len(file[c]) /\ Watch(c)
      /\ Pwrite(c, ifd[c], off[c], d)
      /\ UNCHANGED <<ifd, file, cmds, lost>>
      /\ IF reply'.status = "OK"
         THEN /\ off' = [off EXCEPT ![c] = off[c] + Len(d)]
              /\ short' = [short EXCEPT ![c] =
                   short[c] \/ Slice(content'[Remote(c)], off[c], Len(d)) # d]
              /\ UNCHANGED <<pc, outcome>>
         ELSE /\ pc' = [pc EXCEPT ![c] = "put_close"]
              /\ outcome' = [outcome EXCEPT ![c] = "failed"]
              /\ UNCHANGED <<off, short>>
  BY DEF PutCopy, IcbinnPwrite, PutData, PutOffset, PutAdvance, Ok, Goto, Return
<1>2. /\ TypeOK /\ GPTypeOK /\ Bounded /\ ClientInv(c)
      /\ off[c] \in Nat /\ off[c] \in 0 .. MaxSize /\ file[c] \in Seq(Unit)
      /\ MaxData \in Nat /\ MaxSize \in Nat
  BY Facts
<1>3. MaxData > 0
  BY GetPutAssumption
<1>4. d \in Seq(Unit) /\ Len(d) \in Nat /\ Len(d) > 0 /\ off[c] + Len(d) <= Len(file[c])
  <2>1. /\ d \in Seq(Unit)
        /\ Len(d) = IF off[c] >= Len(file[c]) THEN 0
                    ELSE IF off[c] + MaxData > Len(file[c]) THEN Len(file[c]) - off[c]
                    ELSE MaxData
    BY <1>2, SliceElements
  <2>2. QED
    BY <1>1, <1>2, <1>3, <2>1
<1>5. ifd[c] \in FileFd /\ Remote(c) \in Inode
  BY <1>1, <1>2 DEF ClientInv, FdInv, Copying
<1> HIDE DEF d
<1>6. TypeOK' /\ UNCHANGED fdtable
  BY <1>1, <1>2, <1>4, <1>5, PwriteEffect
<1>7. /\ disturbed' \in [Conn -> BOOLEAN] /\ disturbed'[c] = disturbed[c]
      /\ \A e \in Conn \ {c} : ~disturbed'[e] =>
            /\ ~disturbed[e]
            /\ pc[e] \in Copying => content'[Remote(e)] = content[Remote(e)]
  BY <1>1, Watched
<1>8. CASE reply'.status = "OK"
  <2>1. /\ off' = [off EXCEPT ![c] = off[c] + Len(d)]
        /\ short' = [short EXCEPT ![c] =
              short[c] \/ Slice(content'[Remote(c)], off[c], Len(d)) # d]
        /\ UNCHANGED <<pc, outcome>>
    BY <1>1, <1>8
  <2>2. PICK n \in 0 .. Len(d) :
           /\ n > 0 /\ off[c] + Len(d) <= MaxSize
           /\ content' = [content EXCEPT ![Remote(c)] =
                            Overwrite(content[Remote(c)], off[c], SubSeq(d, 1, n))]
    <3>1. /\ off[c] + Len(d) <= MaxSize
          /\ \E n \in 0 .. Len(d) :
                /\ d # <<>> => n > 0
                /\ content' = [content EXCEPT ![fdtable[c][ifd[c]].ino] =
                                 Overwrite(@, off[c], SubSeq(d, 1, n))]
      BY <1>1, <1>5, <1>8, PwriteResult
    <3>2. d # <<>>
      BY <1>4
    <3>3. QED
      BY <3>1, <3>2 DEF Remote
  <2> DEFINE t == Overwrite(content[Remote(c)], off[c], SubSeq(d, 1, n))
  <2>3. content[Remote(c)] \in Seq(Unit) /\ Len(content[Remote(c)]) <= MaxSize
    BY <1>2, <1>5 DEF TypeOK, Bounded
  <2>4. /\ SubSeq(d, 1, n) \in Seq(Unit) /\ Len(SubSeq(d, 1, n)) = n
        /\ SubSeq(d, 1, n) # <<>>
    BY <1>4, <2>2
  <2>5. Len(t) = IF Len(content[Remote(c)]) > off[c] + Len(SubSeq(d, 1, n))
                 THEN Len(content[Remote(c)]) ELSE off[c] + Len(SubSeq(d, 1, n))
    BY <1>2, <2>3, <2>4, OverwriteElements
  <2> HIDE DEF t
  <2>6. Len(t) <= MaxSize
    BY <1>2, <1>4, <2>2, <2>3, <2>4, <2>5
  <2>7. /\ content'[Remote(c)] = t
        /\ \A i \in Inode : i # Remote(c) => content'[i] = content[i]
    BY <1>2, <1>5, <2>2 DEF TypeOK, t
  <2>8. Bounded'
    BY <1>2, <2>6, <2>7 DEF Bounded
  <2>9. /\ off'[c] = off[c] + Len(d)
        /\ short'[c] = (short[c] \/ Slice(content'[Remote(c)], off[c], Len(d)) # d)
        /\ short' \in [Conn -> BOOLEAN]
    BY <1>2, <2>1 DEF GPTypeOK
  <2>10. off' \in [Conn -> 0 .. MaxSize]
    BY <1>2, <1>4, <2>1, <2>2 DEF GPTypeOK
  <2>11. GPTypeOK'
    BY <1>1, <1>2, <1>7, <2>1, <2>9, <2>10 DEF GPTypeOK
  <2>12. \A e \in Conn \ {c} : Unmoved(e)
    BY <1>1, <1>2, <1>6, <1>7, <2>1 DEF Unmoved, GPTypeOK
  <2>13. pc'[c] = "put_copy" /\ Remote(c)' = Remote(c) /\ file'[c] = file[c]
    BY <1>1, <1>6, <2>1 DEF Remote
  <2>14. FdInv(c)'
    BY <1>1, <1>2, <1>6, <2>1 DEF ClientInv, FdInv, Remote
  <2>15. GetInv(c)'
    BY <2>13 DEF GetInv
  <2>16. ASSUME ~disturbed'[c], ~short'[c]
         PROVE  content'[Remote(c)'] = SubSeq(file'[c], 1, off'[c])
    <3>1. content[Remote(c)] = SubSeq(file[c], 1, off[c])
      BY <1>1, <1>2, <1>7, <2>9, <2>16 DEF ClientInv, PutInv
    <3>2. Slice(t, off[c], Len(d)) = d
      BY <2>7, <2>9, <2>16
    <3>3. /\ n \in 1 .. Len(Slice(file[c], off[c], MaxData))
          /\ off[c] <= Len(file[c])
      BY <1>1, <1>2, <1>4, <2>2 DEF d
    <3>4. Slice(Overwrite(SubSeq(file[c], 1, off[c]), off[c],
                          SubSeq(Slice(file[c], off[c], MaxData), 1, n)),
                off[c], Len(Slice(file[c], off[c], MaxData)))
            = Slice(file[c], off[c], MaxData)
      BY <3>1, <3>2 DEF t, d
    <3>5. Overwrite(SubSeq(file[c], 1, off[c]), off[c],
                    SubSeq(Slice(file[c], off[c], MaxData), 1, n))
            = SubSeq(file[c], 1, off[c] + Len(Slice(file[c], off[c], MaxData)))
      BY <1>2, <3>3, <3>4, PutPart, Zenon
    <3>6. t = SubSeq(file[c], 1, off[c] + Len(d))
      BY <3>1, <3>5 DEF t, d
    <3>7. QED
      BY <2>7, <2>9, <2>13, <3>6
  <2>17. off'[c] <= Len(file'[c])
    BY <1>4, <2>9, <2>13
  <2>18. PutInv(c)'
    BY <2>13, <2>16, <2>17 DEF PutInv
  <2>19. QED
    BY <1>6, <2>8, <2>11, <2>12, <2>14, <2>15, <2>18 DEF StepOf, ClientInv
<1>9. CASE reply'.status # "OK"
  <2>1. UNCHANGED content
    BY <1>1, <1>5, <1>9, PwriteResult
  <2>2. /\ pc' = [pc EXCEPT ![c] = "put_close"]
        /\ outcome' = [outcome EXCEPT ![c] = "failed"]
        /\ UNCHANGED <<off, short>>
    BY <1>1, <1>9
  <2>3. outcome'[c] = "failed"
    BY <1>2, <2>2 DEF GPTypeOK
  <2>4. /\ "put_close" \in Copying /\ pc[c] \in Copying
        /\ "put_close" \in {"put_close", "get_close"}
        /\ ~("put_close" \in {"get_local", "get_copy"}) /\ ~("put_close" = "put_copy")
        /\ ~("put_close" = "get_close") /\ "put_close" \notin {"get_lock", "put_lock"}
    BY <1>1 DEF Copying
  <2>5. QED
    BY <1>1, <1>6, <1>7, <2>1, <2>2, <2>3, <2>4, MoveStep
<1>10. QED
  BY <1>8, <1>9

\* The request that fetches the next part, or finds the end.
LEMMA GetCopyStep ==
    ASSUME GPInv, NEW c \in Conn, GetCopy(c)
    PROVE  StepOf(c)
<1> DEFINE d == reply'.data
<1>1. /\ pc[c] = "get_copy" /\ Watch(c)
      /\ Pread(c, ifd[c], off[c], MaxData)
      /\ UNCHANGED <<ifd, cmds, short, lost>>
      /\ \/ /\ reply'.status = "OK" /\ d # <<>>
            /\ file' = [file EXCEPT ![c] = file[c] \o d]
            /\ off' = [off EXCEPT ![c] = off[c] + Len(d)]
            /\ UNCHANGED <<pc, outcome>>
         \/ /\ reply'.status = "OK" /\ d = <<>>
            /\ pc' = [pc EXCEPT ![c] = "get_close"]
            /\ UNCHANGED <<file, off, outcome>>
         \/ /\ pc' = [pc EXCEPT ![c] = "get_close"]
            /\ outcome' = [outcome EXCEPT ![c] = "failed"]
            /\ UNCHANGED <<file, off>>
  BY DEF GetCopy, IcbinnPread, GetMore, Ok, Goto, Return
<1>2. /\ TypeOK /\ GPTypeOK /\ Bounded /\ ClientInv(c)
      /\ off[c] \in Nat /\ off[c] \in 0 .. MaxSize /\ file[c] \in Seq(Unit)
      /\ MaxData \in Nat /\ MaxSize \in Nat
  BY Facts
<1>3. ifd[c] \in FileFd /\ Remote(c) \in Inode
  BY <1>1, <1>2 DEF ClientInv, FdInv, Copying
<1>4. TypeOK' /\ UNCHANGED <<content, fdtable>>
  BY <1>1, <1>2, <1>3, PreadEffect
<1>5. reply'.status = "OK" => d = Slice(content[Remote(c)], off[c], MaxData)
  BY <1>1, <1>3, PreadResult DEF Remote
<1>6. /\ disturbed' \in [Conn -> BOOLEAN] /\ disturbed'[c] = disturbed[c]
      /\ \A e \in Conn \ {c} : ~disturbed'[e] =>
            /\ ~disturbed[e]
            /\ pc[e] \in Copying => content'[Remote(e)] = content[Remote(e)]
  BY <1>1, Watched
<1>7. /\ content[Remote(c)] \in Seq(Unit) /\ Len(content[Remote(c)]) <= MaxSize
      /\ Len(content[Remote(c)]) \in Nat
  BY <1>2, <1>3 DEF TypeOK, Bounded
<1>8. reply'.status = "OK" =>
         /\ d \in Seq(Unit) /\ Len(d) \in Nat
         /\ d # <<>> => off[c] + Len(d) <= Len(content[Remote(c)])
  <2> SUFFICES ASSUME reply'.status = "OK"
               PROVE  /\ d \in Seq(Unit) /\ Len(d) \in Nat
                      /\ d # <<>> => off[c] + Len(d) <= Len(content[Remote(c)])
    OBVIOUS
  <2> HIDE DEF d
  <2>1. /\ d \in Seq(Unit)
        /\ Len(d) = IF off[c] >= Len(content[Remote(c)]) THEN 0
                    ELSE IF off[c] + MaxData > Len(content[Remote(c)])
                    THEN Len(content[Remote(c)]) - off[c] ELSE MaxData
    <3> DEFINE s == content[Remote(c)]
    <3> DEFINE o == off[c]
    <3>1. d = Slice(s, o, MaxData)
      BY <1>5
    <3>2. s \in Seq(Unit) /\ o \in Nat /\ MaxData \in Nat
      BY <1>2, <1>7
    <3> HIDE DEF s, o
    <3>3. /\ d \in Seq(Unit)
          /\ Len(d) = IF o >= Len(s) THEN 0
                      ELSE IF o + MaxData > Len(s) THEN Len(s) - o ELSE MaxData
      BY <3>1, <3>2, SliceElements
    <3>4. QED
      BY <3>3 DEF s, o
  <2>2. d # <<>> => Len(d) # 0
    BY <2>1
  <2>3. QED
    BY <1>2, <1>7, <2>1, <2>2
<1>9. reply'.status = "OK" /\ ~disturbed[c] =>
         /\ file[c] \o d = SubSeq(content[Remote(c)], 1, off[c] + Len(d))
         /\ off[c] + Len(d) <= Len(content[Remote(c)])
         /\ d = <<>> => file[c] = content[Remote(c)]
  <2> SUFFICES ASSUME reply'.status = "OK", ~disturbed[c]
               PROVE  /\ file[c] \o d = SubSeq(content[Remote(c)], 1, off[c] + Len(d))
                      /\ off[c] + Len(d) <= Len(content[Remote(c)])
                      /\ d = <<>> => file[c] = content[Remote(c)]
    OBVIOUS
  <2>1. /\ off[c] <= Len(content[Remote(c)])
        /\ file[c] = SubSeq(content[Remote(c)], 1, off[c])
    BY <1>1, <1>2 DEF ClientInv, GetInv
  <2> HIDE DEF d
  <2>2. QED
    BY <1>2, <1>5, <1>7, <2>1, GetPart
<1> HIDE DEF d
<1>10. Bounded'
  BY <1>2, <1>4 DEF Bounded
<1>11. CASE /\ reply'.status = "OK" /\ d # <<>>
            /\ file' = [file EXCEPT ![c] = file[c] \o d]
            /\ off' = [off EXCEPT ![c] = off[c] + Len(d)]
            /\ UNCHANGED <<pc, outcome>>
  <2>1. file[c] \o d \in Seq(Unit) /\ off[c] + Len(d) \in 0 .. MaxSize
    BY <1>2, <1>7, <1>8, <1>11
  <2>2. GPTypeOK'
    BY <1>1, <1>2, <1>6, <1>11, <2>1 DEF GPTypeOK
  <2>3. \A e \in Conn \ {c} : Unmoved(e)
    BY <1>1, <1>2, <1>4, <1>6, <1>11 DEF Unmoved, GPTypeOK
  <2>4. /\ pc'[c] = "get_copy" /\ Remote(c)' = Remote(c)
        /\ file'[c] = file[c] \o d /\ off'[c] = off[c] + Len(d)
    BY <1>1, <1>2, <1>4, <1>11 DEF Remote, GPTypeOK
  <2>5. FdInv(c)'
    BY <1>1, <1>2, <1>4, <1>11 DEF ClientInv, FdInv, Remote
  <2>6. GetInv(c)' /\ PutInv(c)'
    BY <1>4, <1>6, <1>9, <1>11, <2>4 DEF GetInv, PutInv
  <2>7. QED
    BY <1>4, <1>10, <2>2, <2>3, <2>5, <2>6 DEF StepOf, ClientInv
<1>12. CASE /\ reply'.status = "OK" /\ d = <<>>
            /\ pc' = [pc EXCEPT ![c] = "get_close"]
            /\ UNCHANGED <<file, off, outcome>>
  <2>1. GPTypeOK'
    BY <1>1, <1>2, <1>6, <1>12 DEF GPTypeOK, Copying
  <2>2. \A e \in Conn \ {c} : Unmoved(e)
    BY <1>1, <1>2, <1>4, <1>6, <1>12 DEF Unmoved, GPTypeOK
  <2>3. pc'[c] = "get_close" /\ Remote(c)' = Remote(c)
    BY <1>1, <1>2, <1>4, <1>12 DEF Remote, GPTypeOK
  <2>4. FdInv(c)'
    BY <1>1, <1>2, <1>4, <2>3 DEF ClientInv, FdInv, Remote, Copying
  <2>5. GetInv(c)' /\ PutInv(c)'
    BY <1>4, <1>6, <1>9, <1>12, <2>3 DEF GetInv, PutInv
  <2>6. QED
    BY <1>4, <1>10, <2>1, <2>2, <2>4, <2>5 DEF StepOf, ClientInv
<1>13. CASE /\ pc' = [pc EXCEPT ![c] = "get_close"]
            /\ outcome' = [outcome EXCEPT ![c] = "failed"]
            /\ UNCHANGED <<file, off>>
  <2>1. outcome'[c] = "failed"
    BY <1>2, <1>13 DEF GPTypeOK
  <2>2. /\ "get_close" \in Copying /\ pc[c] \in Copying
        /\ "get_close" \in {"put_close", "get_close"}
        /\ ~("get_close" \in {"get_local", "get_copy"}) /\ ~("get_close" = "put_copy")
        /\ ~("get_close" = "put_close") /\ "get_close" \notin {"get_lock", "put_lock"}
    BY <1>1 DEF Copying
  <2>3. QED
    BY <1>1, <1>4, <1>6, <1>13, <2>1, <2>2, MoveStep
<1>14. QED
  BY <1>1, <1>11, <1>12, <1>13

LEMMA CloseRemoteStep ==
    ASSUME GPInv, NEW c \in Conn, CloseRemote(c)
    PROVE  StepOf(c)
<1>1. /\ pc[c] \in {"put_close", "get_close"} /\ Close(c, ifd[c]) /\ Watch(c)
      /\ pc' = [pc EXCEPT ![c] = "idle"]
      /\ UNCHANGED <<ifd, off, file, outcome, cmds, short, lost>>
  BY DEF CloseRemote, Goto
<1>2. TypeOK /\ GPTypeOK /\ Bounded /\ ClientInv(c)
  BY Facts
<1>3. /\ ifd[c] \in FileFd /\ ifd[c] \notin lost[c]
      /\ \A f \in Fd : f # ifd[c] => (fdtable[c][f].ino # None <=> f \in lost[c])
  BY <1>1, <1>2 DEF ClientInv, FdInv, Copying
<1>4. /\ TypeOK' /\ UNCHANGED content /\ fdtable'[c][ifd[c]].ino = None
      /\ \A f \in Fd : f # ifd[c] => fdtable'[c][f] = fdtable[c][f]
      /\ \A d \in Conn : d # c => fdtable'[d] = fdtable[d]
  BY <1>1, <1>2, <1>3, CloseResult
<1>5. /\ disturbed' \in [Conn -> BOOLEAN]
      /\ \A d \in Conn \ {c} : ~disturbed'[d] => ~disturbed[d]
  BY <1>1, Watched
<1>6. GPTypeOK' /\ Bounded'
  BY <1>1, <1>2, <1>4, <1>5 DEF GPTypeOK, Bounded
<1>7. \A d \in Conn \ {c} : Unmoved(d)
  BY <1>1, <1>2, <1>4, <1>5 DEF Unmoved, GPTypeOK
<1>8. pc'[c] = "idle"
  BY <1>1, <1>2 DEF GPTypeOK
<1>9. ClientInv(c)'
  BY <1>1, <1>3, <1>4, <1>8 DEF ClientInv, FdInv, GetInv, PutInv, Copying
<1>10. QED
  BY <1>4, <1>6, <1>7, <1>9 DEF StepOf

-----------------------------------------------------------------------------
(* Calls without an answer.                                                *)

\* A part that is stored, as a whole or not, leaves the file within bounds.
LEMMA PwriteBounded ==
    ASSUME GPInv, NEW c \in Conn, ifd[c] \in FileFd, Remote(c) \in Inode,
           NEW d \in Seq(Unit), Pwrite(c, ifd[c], off[c], d)
    PROVE  Bounded'
<1>1. /\ TypeOK /\ Bounded /\ off[c] \in Nat /\ MaxSize \in Nat
  BY Facts
<1>2. CASE reply'.status # "OK"
  <2>1. UNCHANGED content
    BY <1>2, PwriteResult
  <2>2. QED
    BY <1>1, <2>1 DEF Bounded
<1>3. CASE reply'.status = "OK"
  <2>1. PICK n \in 0 .. Len(d) :
           /\ off[c] + Len(d) <= MaxSize
           /\ content' = [content EXCEPT ![Remote(c)] =
                            Overwrite(content[Remote(c)], off[c], SubSeq(d, 1, n))]
    BY <1>3, PwriteResult DEF Remote
  <2> DEFINE q == SubSeq(d, 1, n)
  <2> DEFINE t == Overwrite(content[Remote(c)], off[c], q)
  <2>2. content[Remote(c)] \in Seq(Unit) /\ Len(content[Remote(c)]) <= MaxSize
    BY <1>1 DEF TypeOK, Bounded
  <2>3. q \in Seq(Unit) /\ Len(q) = n
    BY SubSeqPrefix, Zenon
  <2> HIDE DEF q
  <2>4. Len(t) \in Nat /\ Len(t) <= MaxSize
    <3>1. CASE q = <<>>
      <4>1. t = content[Remote(c)]
        BY <3>1 DEF Overwrite
      <4>2. QED
        BY <2>2, <4>1
    <3>2. CASE q # <<>>
      <4>1. Len(t) = IF Len(content[Remote(c)]) > off[c] + Len(q)
                     THEN Len(content[Remote(c)]) ELSE off[c] + Len(q)
        BY <1>1, <2>2, <2>3, <3>2, OverwriteElements
      <4>2. QED
        BY <1>1, <2>1, <2>2, <2>3, <4>1
    <3>3. QED
      BY <3>1, <3>2
  <2> HIDE DEF t
  <2>5. \A i \in Inode : content'[i] = content[i] \/ content'[i] = t
    BY <1>1, <2>1 DEF TypeOK, t, q
  <2>6. QED
    BY <1>1, <2>4, <2>5 DEF Bounded
<1>4. QED
  BY <1>2, <1>3

\* The command goes on to close the remote file, having failed.
LEMMA GiveUpStep ==
    ASSUME GPInv, NEW c \in Conn, pc[c] \in Copying, Watch(c),
           NEW label \in {"put_close", "get_close"}, Return(c, label, "failed"),
           TypeOK', Bounded', UNCHANGED <<fdtable, lost, ifd, off, file, cmds, short>>
    PROVE  StepOf(c)
<1>1. TypeOK /\ GPTypeOK /\ ClientInv(c)
  BY Facts
<1>2. /\ pc' = [pc EXCEPT ![c] = label]
      /\ outcome' = [outcome EXCEPT ![c] = "failed"]
  BY DEF Return, Goto
<1>3. /\ disturbed' \in [Conn -> BOOLEAN]
      /\ \A d \in Conn \ {c} : ~disturbed'[d] =>
            /\ ~disturbed[d]
            /\ pc[d] \in Copying => content'[Remote(d)] = content[Remote(d)]
  BY Watched
<1>4. label \in Copying
  BY DEF Copying
<1>5. GPTypeOK'
  BY <1>1, <1>2, <1>3, <1>4 DEF GPTypeOK
<1>6. \A d \in Conn \ {c} : Unmoved(d)
  BY <1>1, <1>2, <1>3 DEF Unmoved, GPTypeOK
<1>7. pc'[c] = label /\ outcome'[c] = "failed" /\ Remote(c)' = Remote(c)
  BY <1>1, <1>2 DEF GPTypeOK, Remote
<1>8. FdInv(c)'
  BY <1>1, <1>4, <1>7 DEF ClientInv, FdInv
<1>9. GetInv(c)' /\ PutInv(c)'
  BY <1>7 DEF GetInv, PutInv
<1>10. QED
  BY <1>5, <1>6, <1>8, <1>9 DEF StepOf, ClientInv

\* The command ends; its table is accounted for.
LEMMA EndStep ==
    ASSUME GPInv, NEW c \in Conn, Watch(c), TypeOK', Bounded',
           pc' = [pc EXCEPT ![c] = "idle"],
           outcome' \in [Conn -> {"ok", "failed"}],
           \A d \in Conn \ {c} : outcome'[d] = outcome[d],
           \A d \in Conn \ {c} : fdtable'[d] = fdtable[d],
           NEW S \in SUBSET Fd, lost' = [lost EXCEPT ![c] = S],
           \A f \in Fd : fdtable'[c][f].ino # None <=> f \in S,
           UNCHANGED <<ifd, off, file, cmds, short>>
    PROVE  StepOf(c)
<1>1. GPTypeOK
  BY Facts
<1>2. /\ disturbed' \in [Conn -> BOOLEAN]
      /\ \A d \in Conn \ {c} : ~disturbed'[d] =>
            /\ ~disturbed[d]
            /\ pc[d] \in Copying => content'[Remote(d)] = content[Remote(d)]
  BY Watched
<1>3. GPTypeOK'
  BY <1>1, <1>2 DEF GPTypeOK
<1>4. \A d \in Conn \ {c} : Unmoved(d)
  BY <1>1, <1>2 DEF Unmoved, GPTypeOK
<1>5. pc'[c] = "idle" /\ lost'[c] = S
  BY <1>1 DEF GPTypeOK
<1>6. ClientInv(c)'
  BY <1>5 DEF ClientInv, FdInv, GetInv, PutInv, Copying
<1>7. QED
  BY <1>3, <1>4, <1>6 DEF StepOf

\* An open without an answer: the descriptor it may have got is lost.
LEMMA OpenUnanswered ==
    ASSUME GPInv, NEW c \in Conn, pc[c] \in {"put_open", "get_open"},
           (\E m : Open(c, Target, m)) \/ UNCHANGED vars,
           Return(c, "idle", "failed"), Watch(c),
           lost' = [lost EXCEPT ![c] = @ \cup (OpenFds(c)' \ OpenFds(c))],
           UNCHANGED <<ifd, off, file, cmds, short>>
    PROVE  StepOf(c)
<1>1. TypeOK /\ GPTypeOK /\ Bounded /\ ClientInv(c)
  BY Facts
<1>2. /\ lost[c] \subseteq Fd
      /\ \A f \in Fd : fdtable[c][f].ino # None <=> f \in lost[c]
  BY <1>1 DEF ClientInv, FdInv, Copying, GPTypeOK
<1>3. /\ TypeOK' /\ Bounded'
      /\ \A d \in Conn \ {c} : fdtable'[d] = fdtable[d]
      /\ \A f \in Fd : fdtable[c][f].ino # None => fdtable'[c][f] = fdtable[c][f]
  <2>1. CASE UNCHANGED vars
    BY <1>1, <2>1 DEF vars, TypeOK, Bounded
  <2>2. ASSUME NEW m, Open(c, Target, m)
        PROVE  /\ TypeOK' /\ Bounded'
               /\ \A d \in Conn \ {c} : fdtable'[d] = fdtable[d]
               /\ \A f \in Fd : fdtable[c][f].ino # None =>
                                   fdtable'[c][f] = fdtable[c][f]
    <3>1. Target \in Name
      BY GetPutAssumption
    <3>2. /\ TypeOK' /\ Replied(c)
          /\ reply'.status = "ERROR" => UNCHANGED fdtable
          /\ reply'.status = "OK" =>
                /\ reply'.val \in FileFd /\ fdtable[c][reply'.val].ino = None
                /\ fdtable' = [fdtable EXCEPT ![c][reply'.val] =
                                 OpenAs(inode'[Target], m)]
      BY <1>1, <2>2, <3>1, OpenResult
    <3>3. \A i \in Inode : content'[i] = content[i] \/ content'[i] = <<>>
      BY <1>1, <2>2, <3>1, OpenContents
    <3>4. Bounded'
      BY <1>1, <3>3, SizeAssumption DEF Bounded
    <3>5. reply'.status = "OK" \/ reply'.status = "ERROR"
      BY <3>2 DEF Replied
    <3>6. CASE reply'.status = "ERROR"
      BY <3>2, <3>4, <3>6
    <3>7. CASE reply'.status = "OK"
      BY <1>1, <3>2, <3>4, <3>7 DEF TypeOK
    <3>8. QED
      BY <3>5, <3>6, <3>7
  <2>3. QED
    BY <2>1, <2>2
<1> DEFINE S == lost[c] \cup (OpenFds(c)' \ OpenFds(c))
<1>4. S \in SUBSET Fd /\ lost' = [lost EXCEPT ![c] = S]
  BY <1>2 DEF OpenFds
<1>5. \A f \in Fd : fdtable'[c][f].ino # None <=> f \in S
  BY <1>2, <1>3 DEF OpenFds, IsOpen
<1> HIDE DEF S
<1>6. /\ pc' = [pc EXCEPT ![c] = "idle"]
      /\ outcome' \in [Conn -> {"ok", "failed"}]
      /\ \A d \in Conn \ {c} : outcome'[d] = outcome[d]
  BY <1>1 DEF Return, Goto, GPTypeOK
<1>7. QED
  BY <1>3, <1>4, <1>5, <1>6, EndStep

\* A close without an answer: the descriptor is lost, unless it is closed.
LEMMA CloseUnanswered ==
    ASSUME GPInv, NEW c \in Conn, pc[c] \in {"put_close", "get_close"},
           Close(c, ifd[c]) \/ UNCHANGED vars,
           Goto(c, "idle"), UNCHANGED outcome, Watch(c),
           lost' = [lost EXCEPT ![c] = @ \cup ({ifd[c]} \cap OpenFds(c)')],
           UNCHANGED <<ifd, off, file, cmds, short>>
    PROVE  StepOf(c)
<1>1. TypeOK /\ GPTypeOK /\ Bounded /\ ClientInv(c)
  BY Facts
<1>2. /\ ifd[c] \in FileFd /\ lost[c] \subseteq Fd /\ ifd[c] \notin lost[c]
      /\ \A f \in Fd : f # ifd[c] => (fdtable[c][f].ino # None <=> f \in lost[c])
  BY <1>1 DEF ClientInv, FdInv, Copying, GPTypeOK
<1>3. /\ TypeOK' /\ UNCHANGED content
      /\ \A d \in Conn \ {c} : fdtable'[d] = fdtable[d]
      /\ \A f \in Fd : f # ifd[c] => fdtable'[c][f] = fdtable[c][f]
  <2>1. CASE UNCHANGED vars
    BY <1>1, <2>1 DEF vars, TypeOK
  <2>2. CASE Close(c, ifd[c])
    BY <1>1, <1>2, <2>2, CloseResult
  <2>3. QED
    BY <2>1, <2>2
<1> DEFINE S == lost[c] \cup ({ifd[c]} \cap OpenFds(c)')
<1>4. S \in SUBSET Fd /\ lost' = [lost EXCEPT ![c] = S]
  BY <1>2 DEF OpenFds
<1>5. \A f \in Fd : fdtable'[c][f].ino # None <=> f \in S
  BY <1>2, <1>3 DEF OpenFds, IsOpen
<1> HIDE DEF S
<1>6. /\ pc' = [pc EXCEPT ![c] = "idle"] /\ Bounded'
      /\ outcome' \in [Conn -> {"ok", "failed"}]
      /\ \A d \in Conn \ {c} : outcome'[d] = outcome[d]
  BY <1>1, <1>3 DEF Goto, GPTypeOK, Bounded
<1>7. QED
  BY <1>3, <1>4, <1>5, <1>6, EndStep

LEMMA UnansweredStep ==
    ASSUME GPInv, NEW c \in Conn, Unanswered(c)
    PROVE  StepOf(c)
<1>1. /\ Request(c) \/ UNCHANGED vars
      /\ Watch(c) /\ UNCHANGED <<ifd, off, file, cmds, short>>
      /\ \/ /\ pc[c] \in {"put_open", "get_open"} /\ Return(c, "idle", "failed")
            /\ lost' = [lost EXCEPT ![c] = @ \cup (OpenFds(c)' \ OpenFds(c))]
         \/ /\ pc[c] \in {"put_lock", "put_copy"}
            /\ Return(c, "put_close", "failed") /\ UNCHANGED lost
         \/ /\ pc[c] \in {"get_lock", "get_copy"}
            /\ Return(c, "get_close", "failed") /\ UNCHANGED lost
         \/ /\ pc[c] \in {"put_close", "get_close"}
            /\ Goto(c, "idle") /\ UNCHANGED outcome
            /\ lost' = [lost EXCEPT ![c] = @ \cup ({ifd[c]} \cap OpenFds(c)')]
  BY DEF Unanswered
<1>2. /\ TypeOK /\ GPTypeOK /\ Bounded /\ ClientInv(c)
      /\ off[c] \in Nat /\ file[c] \in Seq(Unit) /\ MaxData \in Nat
  BY Facts
<1>3. CASE pc[c] \in {"put_open", "get_open"}
  <2>1. (\E m : Open(c, Target, m)) \/ UNCHANGED vars
    BY <1>1, <1>3 DEF Request
  <2>2. QED
    BY <1>1, <1>3, <2>1, OpenUnanswered
<1>4. CASE pc[c] \in {"put_close", "get_close"}
  <2>1. Close(c, ifd[c]) \/ UNCHANGED vars
    BY <1>1, <1>4 DEF Request
  <2>2. QED
    BY <1>1, <1>4, <2>1, CloseUnanswered
<1>5. CASE pc[c] \in {"put_lock", "get_lock", "put_copy", "get_copy"}
  <2>1. /\ pc[c] \in Copying /\ UNCHANGED lost
        /\ \E label \in {"put_close", "get_close"} : Return(c, label, "failed")
    BY <1>1, <1>5 DEF Copying
  <2>2. ifd[c] \in FileFd /\ Remote(c) \in Inode
    BY <1>2, <2>1 DEF ClientInv, FdInv
  <2>3. TypeOK' /\ Bounded' /\ UNCHANGED fdtable
    <3>1. CASE UNCHANGED vars
      BY <1>2, <3>1 DEF vars, TypeOK, Bounded
    <3>2. ASSUME NEW f, NEW t, Lock(c, f, t)
          PROVE  TypeOK' /\ Bounded' /\ UNCHANGED fdtable
      <4>1. TypeOK' /\ UNCHANGED <<content, fdtable>>
        BY <1>2, <3>2, LockStep, LockResult
      <4>2. QED
        BY <1>2, <4>1 DEF Bounded
    <3>3. CASE Pwrite(c, ifd[c], off[c], Slice(file[c], off[c], MaxData))
      <4>1. Slice(file[c], off[c], MaxData) \in Seq(Unit)
        BY <1>2, SliceElements
      <4>2. QED
        BY <1>2, <2>2, <3>3, <4>1, PwriteEffect, PwriteBounded
    <3>4. CASE Pread(c, ifd[c], off[c], MaxData)
      <4>1. TypeOK' /\ UNCHANGED <<content, fdtable>>
        BY <1>2, <2>2, <3>4, PreadEffect
      <4>2. QED
        BY <1>2, <4>1 DEF Bounded
    <3>5. \/ UNCHANGED vars \/ \E f, t : Lock(c, f, t)
          \/ Pwrite(c, ifd[c], off[c], Slice(file[c], off[c], MaxData))
          \/ Pread(c, ifd[c], off[c], MaxData)
      BY <1>1, <1>5 DEF Request, IcbinnPwrite, IcbinnPread, PutData, PutOffset
    <3>6. QED
      BY <3>1, <3>2, <3>3, <3>4, <3>5
  <2>4. QED
    BY <1>1, <2>1, <2>3, GiveUpStep
<1>6. QED
  BY <1>1, <1>3, <1>4, <1>5

\* When the connection is lost, so are the process and its descriptors.
LEMMA SessionStep ==
    ASSUME GPInv, NEW c \in Conn, Session(c)
    PROVE  StepOf(c)
<1>1. TypeOK /\ GPTypeOK /\ Bounded /\ ClientInv(c)
  BY Facts
<1>2. CASE Connect(c) /\ UNCHANGED <<cmdVars, disturbed, short, lost>>
  <2>1. TypeOK' /\ UNCHANGED <<content, fdtable>>
    BY <1>1, <1>2, ConnectionStep DEF Connect
  <2>2. GPTypeOK' /\ Bounded'
    BY <1>1, <1>2, <2>1 DEF GPTypeOK, Bounded, cmdVars
  <2>3. \A d \in Conn : Unmoved(d)
    BY <1>2, <2>1 DEF Unmoved, cmdVars
  <2>4. ClientInv(c)'
    BY <1>1, <2>3, Bystander
  <2>5. QED
    BY <2>1, <2>2, <2>3, <2>4 DEF StepOf
<1>3. CASE /\ Exit(c)
           /\ IF pc[c] = "idle" THEN UNCHANGED <<pc, outcome>>
                                ELSE Return(c, "idle", "failed")
           /\ cmds' = [cmds EXCEPT ![c] = MaxCmds]
           /\ lost' = [lost EXCEPT ![c] = {}]
           /\ UNCHANGED <<ifd, off, file, disturbed, short>>
  <2>1. TypeOK'
    BY <1>1, <1>3, ConnectionStep
  <2>2. /\ UNCHANGED content /\ fdtable'[c] = [f \in Fd |-> Closed]
        /\ \A d \in Conn \ {c} : fdtable'[d] = fdtable[d]
    BY <1>1, <1>3 DEF Exit, TypeOK
  <2>3. /\ pc'[c] = "idle" /\ pc' \in [Conn -> {"idle", "put_open", "get_open"} \cup Copying]
        /\ outcome' \in [Conn -> {"ok", "failed"}]
        /\ \A d \in Conn \ {c} : pc'[d] = pc[d] /\ outcome'[d] = outcome[d]
    BY <1>1, <1>3 DEF GPTypeOK, Return, Goto
  <2>4. cmds' \in [Conn -> 0 .. MaxCmds]
    BY <1>1, <1>3, GetPutAssumption DEF GPTypeOK
  <2>5. GPTypeOK' /\ Bounded'
    BY <1>1, <1>3, <2>2, <2>3, <2>4 DEF GPTypeOK, Bounded
  <2>6. \A d \in Conn \ {c} : Unmoved(d)
    BY <1>1, <1>3, <2>2, <2>3 DEF Unmoved, GPTypeOK
  <2>7. \A f \in Fd : fdtable'[c][f].ino = None /\ f \notin lost'[c]
    BY <1>1, <1>3, <2>2 DEF Closed, GPTypeOK
  <2>8. ClientInv(c)'
    BY <2>3, <2>7 DEF ClientInv, FdInv, GetInv, PutInv, Copying
  <2>9. QED
    BY <2>1, <2>5, <2>6, <2>8 DEF StepOf
<1>4. QED
  BY <1>2, <1>3 DEF Session

-----------------------------------------------------------------------------
(* The invariant is inductive.                                             *)

LEMMA GPInvInit == GPInit => GPInv
<1> SUFFICES ASSUME GPInit PROVE GPInv
  OBVIOUS
<1>1. TypeOK /\ Init
  BY TypeInit DEF GPInit
<1>2. 0 \in Fd /\ 0 \in 0 .. MaxSize /\ 0 \in 0 .. MaxCmds
  BY SizeAssumption, GetPutAssumption DEF Fd
<1>3. GPTypeOK
  BY <1>2 DEF GPInit, GPTypeOK
<1>4. Bounded
  BY <1>1, SizeAssumption DEF Init, Bounded
<1>5. \A c \in Conn : /\ pc[c] = "idle"
                     /\ \A f \in Fd : fdtable[c][f].ino = None /\ f \notin lost[c]
  BY <1>1 DEF GPInit, Init, Closed
<1>6. \A c \in Conn : ClientInv(c)
  BY <1>5 DEF ClientInv, FdInv, GetInv, PutInv, Copying
<1>7. QED
  BY <1>1, <1>3, <1>4, <1>6 DEF GPInv

LEMMA CommandStep ==
    ASSUME GPInv, NEW c \in Conn, Command(c)
    PROVE  StepOf(c)
<1>1. CASE PutLock(c)
  <2>1. pc[c] = "put_lock" /\ LockRemote(c, LocalFd, "WRLCK", "put_copy", "put_close")
    BY <1>1 DEF PutLock
  <2>2. QED
    BY <2>1, LockRemoteStep
<1>2. CASE GetLock(c)
  <2>1. PICK f \in 0 .. NFd : LockRemote(c, f, "RDLCK", "get_local", "get_close")
    BY <1>2 DEF GetLock
  <2>2. pc[c] = "get_lock"
    BY <1>2 DEF GetLock
  <2>3. QED
    BY <2>1, <2>2, LockRemoteStep
<1>3. QED
  BY <1>1, <1>2, PutOpenStep, PutCopyStep, PutEofStep, GetOpenStep, GetLocalStep,
     GetCopyStep, CloseRemoteStep, UnansweredStep
    DEF Command

LEMMA GPInvStep == GPInv /\ [GPNext]_allVars => GPInv'
<1> SUFFICES ASSUME GPInv, [GPNext]_allVars PROVE GPInv'
  OBVIOUS
<1>1. ASSUME NEW c \in Conn, StartPut(c) PROVE StepOf(c)
  <2>1. /\ "put_open" \in {"idle", "put_open", "get_open"} /\ ~("put_open" = "get_open")
        /\ "idle" \in {"idle", "put_open", "get_open"}
        /\ "ok" \in {"ok", "failed"} /\ "failed" \in {"ok", "failed"}
        /\ <<>> \in Seq(Unit)
    OBVIOUS
  <2>2. CASE Begin(c, "idle", <<>>, "failed")
    BY <2>1, <2>2, BeginStep, Zenon
  <2>3. ASSUME NEW s \in Source, Begin(c, "put_open", s, "ok") PROVE StepOf(c)
    <3>1. s \in Seq(Data)
      BY GetPutAssumption
    <3>2. s \in Seq(Unit)
      BY <3>1 DEF Unit
    <3>3. QED
      BY <2>1, <2>3, <3>2, BeginStep, Zenon
  <2>4. QED
    BY <1>1, <2>2, <2>3 DEF StartPut
<1>2. ASSUME NEW c \in Conn, StartGet(c) PROVE StepOf(c)
  <2>1. Begin(c, "get_open", <<>>, "ok") /\ <<>> \in Seq(Unit)
    BY <1>2 DEF StartGet
  <2>2. "get_open" \in {"idle", "put_open", "get_open"} /\ "ok" \in {"ok", "failed"}
    OBVIOUS
  <2>3. QED
    BY <2>1, <2>2, BeginStep, Zenon
<1>3. CASE GPNext
  <2>1. PICK c \in Conn : Session(c) \/ StartPut(c) \/ StartGet(c) \/ Command(c)
    BY <1>3 DEF GPNext
  <2>2. StepOf(c)
    BY <1>1, <1>2, <2>1, SessionStep, CommandStep
  <2>3. QED
    BY <2>2, StepKeeps
<1>4. CASE UNCHANGED allVars
  <2>1. TypeOK' /\ GPTypeOK' /\ Bounded'
    BY <1>4 DEF allVars, vars, cmdVars, GPInv, TypeOK, GPTypeOK, Bounded
  <2>2. \A d \in Conn : Unmoved(d)
    BY <1>4 DEF allVars, vars, cmdVars, Unmoved
  <2>3. \A d \in Conn : ClientInv(d)'
    BY <2>2, Bystander DEF GPInv
  <2>4. QED
    BY <2>1, <2>3 DEF GPInv
<1>5. QED
  BY <1>3, <1>4

LEMMA GPInvAlways == GPSpec => []GPInv
<1>1. QED
  BY GPInvInit, GPInvStep, PTL DEF GPSpec

-----------------------------------------------------------------------------
(* The theorems.                                                           *)

\* The clients' variables keep their types; in particular no offset of get or
\* put passes the end of the largest file.
THEOREM GPTypeCorrect == GPSpec => []GPTypeOK
<1>1. GPInv => GPTypeOK
  BY DEF GPInv
<1>2. QED
  BY <1>1, GPInvAlways, PTL

\* What get and put leave open in the server's table is exactly what an open
\* or a close without an answer has left there, whatever else fails on the
\* way, for any number of clients and commands.
THEOREM DescriptorsReturnedAlways == GPSpec => []DescriptorsReturned
<1>1. ASSUME GPInv PROVE DescriptorsReturned
  <2> SUFFICES ASSUME NEW c \in Conn, pc[c] = "idle" PROVE OpenFds(c) = lost[c]
    BY DEF DescriptorsReturned
  <2>1. /\ \A f \in Fd : fdtable[c][f].ino # None <=> f \in lost[c]
        /\ lost[c] \subseteq Fd
    BY <1>1 DEF GPInv, ClientInv, FdInv, Copying, GPTypeOK
  <2>2. QED
    BY <2>1 DEF OpenFds, IsOpen
<1>2. QED
  BY <1>1, GPInvAlways, PTL

\* A get that succeeds and that nobody disturbs has copied the file, whatever
\* its length and the size of a request.
THEOREM QuietGetExactAlways == GPSpec => []QuietGetExact
<1>1. GPInv => QuietGetExact
  BY DEF GPInv, ClientInv, GetInv, QuietGetExact
<1>2. QED
  BY <1>1, GPInvAlways, PTL

\* A put that succeeds, that nobody disturbs and of which the host wrote all
\* it was given has stored the file.
THEOREM QuietPutExactAlways == GPSpec => []QuietPutExact
<1>1. GPInv => QuietPutExact
  BY DEF GPInv, ClientInv, PutInv, QuietPutExact
<1>2. QED
  BY <1>1, GPInvAlways, PTL
=============================================================================
