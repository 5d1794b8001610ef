------------------------- MODULE ServerFilesProofs -------------------------
(***************************************************************************)
(* Proofs about ServerFiles for any number of connections, names, inodes   *)
(* and descriptors and any bounds.                                         *)
(***************************************************************************)
EXTENDS ServerFiles, TLAPS

-----------------------------------------------------------------------------
(* The operators on contents.                                              *)

\* Writing at an offset, with a hole if need be, gives contents again.
LEMMA OverwriteType ==
    ASSUME NEW s \in Seq(Unit), NEW o \in Nat, NEW d \in Seq(Unit)
    PROVE  Overwrite(s, o, d) \in Seq(Unit)
<1> DEFINE n == IF Len(s) > o + Len(d) THEN Len(s) ELSE o + Len(d)
<1>1. n \in Nat
  OBVIOUS
<1>2. \A k \in 1 .. n : (k > o /\ k <= o + Len(d)) => d[k - o] \in Unit
  OBVIOUS
<1>3. \A k \in 1 .. n : k <= Len(s) => s[k] \in Unit
  OBVIOUS
<1>4. Zero \in Unit
  BY DEF Unit
<1>5. QED
  BY <1>1, <1>2, <1>3, <1>4 DEF Overwrite

\* Cutting or extending gives contents of the length asked for.
LEMMA ResizeType ==
    ASSUME NEW s \in Seq(Unit), NEW n \in Nat
    PROVE  Resize(s, n) \in Seq(Unit) /\ Len(Resize(s, n)) = n
<1>1. Zero \in Unit
  BY DEF Unit
<1>2. QED
  BY <1>1 DEF Resize

\* A read returns data of the file, at most as much as was asked for.
LEMMA SliceType ==
    ASSUME NEW s \in Seq(Unit), NEW o \in Nat, NEW n \in Nat
    PROVE  Slice(s, o, n) \in Seq(Unit) /\ Len(Slice(s, o, n)) <= n
<1> DEFINE e == IF o + n > Len(s) THEN Len(s) ELSE o + n
<1>1. e \in Nat /\ e <= Len(s)
  OBVIOUS
<1>2. SubSeq(s, o + 1, e) \in Seq(Unit)
  BY <1>1
<1>3. Len(SubSeq(s, o + 1, e)) <= n
  BY <1>1
<1>4. QED
  BY <1>2, <1>3 DEF Slice

\* fallocate gives contents again, of the length asked for at least if it is to
\* extend the file, and not shorter unless it is to collapse a range.
LEMMA FallocatedType ==
    ASSUME NEW s \in Seq(Unit), NEW m \in FallocMode, NEW o \in Nat, NEW n \in Nat,
           m = "COLLAPSE_RANGE" => o + n < Len(s)
    PROVE  /\ Fallocated(s, m, o, n) \in Seq(Unit)
           /\ m = "ALLOC" => Len(Fallocated(s, m, o, n)) >= o + n
           /\ m # "COLLAPSE_RANGE" => Len(Fallocated(s, m, o, n)) >= Len(s)
<1>1. Zero \in Unit /\ Len(s) \in Nat /\ (\A k \in 1 .. Len(s) : s[k] \in Unit)
  BY DEF Unit
<1>2. CASE m = "ALLOC"
  <2>1. /\ Resize(s, o + n) \in Seq(Unit) /\ Len(Resize(s, o + n)) = o + n
    BY ResizeType
  <2>2. Fallocated(s, m, o, n) = IF Len(s) >= o + n THEN s ELSE Resize(s, o + n)
    BY <1>2, Zenon DEF Fallocated
  <2>3. QED
    BY <1>1, <1>2, <2>1, <2>2
<1>3. CASE m = "KEEP_SIZE"
  BY <1>1, <1>3 DEF Fallocated
<1>4. CASE m = "PUNCH_HOLE"
  <2> DEFINE r == [k \in 1 .. Len(s) |-> IF k > o /\ k <= o + n THEN Zero ELSE s[k]]
  <2>1. r \in Seq(Unit) /\ Len(r) = Len(s)
    BY <1>1
  <2>2. Fallocated(s, m, o, n) = r
    BY <1>4 DEF Fallocated
  <2> HIDE DEF r
  <2>3. QED
    BY <1>1, <1>4, <2>1, <2>2
<1>5. CASE m = "COLLAPSE_RANGE"
  <2> DEFINE r == [k \in 1 .. Len(s) - n |-> IF k <= o THEN s[k] ELSE s[k + n]]
  <2>1. Len(s) - n \in Nat
    BY <1>1, <1>5
  <2>2. \A k \in 1 .. Len(s) - n : (IF k <= o THEN s[k] ELSE s[k + n]) \in Unit
    BY <1>1, <1>5
  <2>3. r \in Seq(Unit)
    BY <2>1, <2>2
  <2>4. Fallocated(s, m, o, n) = r
    BY <1>5 DEF Fallocated
  <2> HIDE DEF r
  <2>5. QED
    BY <1>5, <2>3, <2>4
<1>6. QED
  BY <1>2, <1>3, <1>4, <1>5 DEF FallocMode

\* What a client sends is data.
LEMMA BytesType ==
    ASSUME NEW n \in Nat, NEW d \in Bytes(n)
    PROVE  d \in Seq(Unit) /\ \A k \in 0 .. Len(d) : SubSeq(d, 1, k) \in Seq(Unit)
<1>1. PICK m \in 0 .. n : d \in [1 .. m -> Data]
  BY DEF Bytes
<1>2. d \in Seq(Unit) /\ Len(d) = m
  BY <1>1 DEF Unit
<1>3. QED
  BY <1>2

-----------------------------------------------------------------------------
(* Type correctness.                                                       *)

\* An error reply is a reply and changes nothing else.
LEMMA ErrorType ==
    ASSUME TypeOK, NEW c \in Conn, NEW e \in Errno, Error(c, e)
    PROVE  TypeOK'
BY DEF TypeOK, Error, Answer

\* A plain success is a reply.
LEMMA OKType ==
    ASSUME NEW c \in Conn, NEW v \in Nat, OK(c, v)
    PROVE  reply' \in [conn : Conn \cup {None}, status : {"OK", "ERROR", "NONE"},
                       errno : Errno, val : Nat, data : Seq(Unit)]
BY DEF OK, Answer, Errno

\* A descriptor that open installs is one of a file.
LEMMA OpenAsType ==
    ASSUME NEW i \in Inode, NEW m
    PROVE  OpenAs(i, m) \in OpenFile
BY DEF OpenAs, OpenFile

\* A descriptor that is open refers to an inode.
LEMMA OpenInode ==
    ASSUME TypeOK, NEW c \in Conn, NEW f \in Fd, IsOpen(c, f)
    PROVE  fdtable[c][f].ino \in Inode
<1>1. fdtable[c][f] \in OpenFile \cup {Closed}
  BY DEF TypeOK
<1>2. fdtable[c][f].ino # None
  BY DEF IsOpen
<1>3. QED
  BY <1>1, <1>2 DEF OpenFile, Closed

\* A request on one of the server's own descriptors concerns no file.
LEMMA OwnStep ==
    ASSUME TypeOK, NEW c \in Conn, OnOwn(c)
    PROVE  TypeOK' /\ UNCHANGED <<up, inode, content, fdtable, locked, told>>
<1>1. CASE \E e \in Errno : Error(c, e)
  BY <1>1, ErrorType DEF Error
<1>2. CASE OK(c, 0) /\ UNCHANGED <<up, inode, content, fdtable, locked, told>>
  BY <1>2, OKType DEF TypeOK
<1>3. QED
  BY <1>1, <1>2 DEF OnOwn, Errno

\* open keeps the types.
LEMMA OpenStep ==
    ASSUME TypeOK, NEW c \in Conn, NEW n \in Name \cup {LongName}, NEW m,
           Open(c, n, m)
    PROVE  TypeOK'
<1>1. ASSUME NEW i \in Inode, Install(c, i, m)
      PROVE  /\ fdtable' \in [Conn -> [Fd -> OpenFile \cup {Closed}]]
             /\ reply' \in [conn : Conn \cup {None},
                            status : {"OK", "ERROR", "NONE"},
                            errno : Errno, val : Nat, data : Seq(Unit)]
  <2>1. PICK f \in FreeFds(c) :
           /\ fdtable' = [fdtable EXCEPT ![c][f] = OpenAs(i, m)]
           /\ OK(c, f)
    BY <1>1 DEF Install
  <2>2. f \in Fd /\ f \in Nat
    BY <2>1, SizeAssumption DEF FreeFds, Fd
  <2>3. fdtable' \in [Conn -> [Fd -> OpenFile \cup {Closed}]]
    BY <2>1, <2>2, OpenAsType DEF TypeOK
  <2>4. QED
    BY <2>1, <2>2, <2>3, OKType
<1>2. CASE \E e \in Errno : Error(c, e)
  BY <1>2, ErrorType
<1>3. CASE /\ n \in Name /\ inode[n] = None
           /\ \E i \in FreeInodes :
                 /\ inode' = [inode EXCEPT ![n] = i]
                 /\ content' = [content EXCEPT ![i] = <<>>]
                 /\ Install(c, i, m)
           /\ UNCHANGED <<up, locked, told>>
  <2>1. PICK i \in Inode :
           /\ inode' = [inode EXCEPT ![n] = i]
           /\ content' = [content EXCEPT ![i] = <<>>]
           /\ Install(c, i, m)
    BY <1>3 DEF FreeInodes
  <2>2. QED
    BY <1>1, <1>3, <2>1 DEF TypeOK
<1>4. CASE /\ n \in Name /\ inode[n] # None
           /\ Install(c, inode[n], m)
           /\ content' = IF Truncates(m)
                         THEN [content EXCEPT ![inode[n]] = <<>>]
                         ELSE content
           /\ UNCHANGED <<up, inode, locked, told>>
  <2>1. inode[n] \in Inode
    BY <1>4 DEF TypeOK
  <2>2. QED
    BY <1>1, <1>4, <2>1 DEF TypeOK
<1>5. QED
  BY <1>2, <1>3, <1>4 DEF Open, Errno

\* So does a lock request, whatever its type and descriptor.
LEMMA LockStep ==
    ASSUME TypeOK, NEW c \in Conn, NEW f, NEW t, Lock(c, f, t)
    PROVE  TypeOK'
<1>1. CASE \E e \in Errno : Error(c, e)
  BY <1>1, ErrorType
<1>2. CASE OK(c, 0) /\ UNCHANGED <<up, inode, content, fdtable, locked, told>>
  BY <1>2, OKType DEF TypeOK
<1>3. CASE /\ t \in LockType /\ IsOpen(c, f)
           /\ locked' = [locked EXCEPT ![c][fdtable[c][f].ino] = t]
           /\ told' = [told EXCEPT ![c][f] = t]
           /\ OK(c, 0)
           /\ UNCHANGED <<up, inode, content, fdtable>>
  BY <1>3, OKType, OpenInode DEF TypeOK
<1>4. QED
  BY <1>1, <1>2, <1>3 DEF Lock, OnOwn, Errno

\* Reads change no file and return data.
LEMMA ReadStep ==
    ASSUME TypeOK, NEW c \in Conn, ReadCalls(c)
    PROVE  TypeOK'
<1>1. CASE \E e \in Errno : Error(c, e)
  BY <1>1, ErrorType
<1>2. ASSUME NEW f \in Fd, NEW o \in 0 .. MaxSize, NEW n \in 0 .. MaxData + 1,
             Pread(c, f, o, n), ~\E e \in Errno : Error(c, e)
      PROVE  TypeOK'
  <2>o. CASE OnOwn(c)
    BY <2>o, OwnStep
  <2>d. CASE /\ \E d \in Bytes(n) : reply' = Answer(c, "OK", "NONE", 0, d)
             /\ UNCHANGED <<up, inode, content, fdtable, locked, told>>
    <3>1. PICK d \in Bytes(n) : reply' = Answer(c, "OK", "NONE", 0, d)
      BY <2>d
    <3>2. d \in Seq(Unit)
      BY BytesType, SizeAssumption
    <3>3. QED
      BY <2>d, <3>1, <3>2 DEF TypeOK, Answer, Errno
  <2>s. SUFFICES ASSUME /\ IsOpen(c, f)
                        /\ reply' = Answer(c, "OK", "NONE", 0,
                                      Slice(content[fdtable[c][f].ino], o, n))
                        /\ UNCHANGED <<up, inode, content, fdtable, locked, told>>
                 PROVE  TypeOK'
    BY <1>2, <2>o, <2>d DEF Pread, Errno
  <2>1. IsOpen(c, f) /\ f \in Fd
    BY <2>s
  <2>2. Slice(content[fdtable[c][f].ino], o, n) \in Seq(Unit)
    <3>1. content[fdtable[c][f].ino] \in Seq(Unit)
      BY <2>1, OpenInode DEF TypeOK
    <3>2. o \in Nat /\ n \in Nat
      BY SizeAssumption
    <3>3. QED
      BY <3>1, <3>2, SliceType, Zenon
  <2>4. QED
    BY <2>s, <2>2 DEF TypeOK, Answer, Errno
<1>3. ASSUME NEW f \in Fd, Fsync(c, f), ~\E e \in Errno : Error(c, e)
      PROVE  TypeOK'
  BY <1>3, OKType, OwnStep DEF Fsync, Errno, TypeOK
<1>4. ASSUME NEW n \in Name \cup {LongName}, Stat(c, n),
             ~\E e \in Errno : Error(c, e)
      PROVE  TypeOK'
  <2>1. /\ inode[n] \in Inode /\ OK(c, Len(content[inode[n]]))
        /\ UNCHANGED <<up, inode, content, fdtable, locked, told>>
    BY <1>4 DEF Stat, Errno, TypeOK
  <2>2. Len(content[inode[n]]) \in Nat
    BY <2>1 DEF TypeOK
  <2>3. QED
    BY <2>1, <2>2, OKType DEF TypeOK
<1>5. QED
  BY <1>1, <1>2, <1>3, <1>4 DEF ReadCalls

\* A write, a truncation or an allocation replaces the contents of the one
\* file its descriptor is open on.
LEMMA WriteEffect ==
    ASSUME TypeOK, NEW c \in Conn, NEW f \in Fd, WriteCalls(c, f)
    PROVE  \/ \E e \in Errno : Error(c, e)
           \/ f \in Own /\ OnOwn(c)
           \/ /\ IsOpen(c, f) /\ OK(c, 0)
              /\ \E s \in Seq(Unit) :
                    content' = [content EXCEPT ![fdtable[c][f].ino] = s]
              /\ UNCHANGED <<up, inode, fdtable, locked, told>>
<1> DEFINE i == fdtable[c][f].ino
<1> DEFINE Goal ==
        /\ IsOpen(c, f) /\ OK(c, 0)
        /\ \E s \in Seq(Unit) : content' = [content EXCEPT ![i] = s]
        /\ UNCHANGED <<up, inode, fdtable, locked, told>>
<1> SUFFICES ASSUME ~\E e \in Errno : Error(c, e), ~(f \in Own /\ OnOwn(c))
             PROVE  Goal
  OBVIOUS
<1>1. f \in Fd /\ (IsOpen(c, f) => content[i] \in Seq(Unit))
  BY OpenInode DEF TypeOK
<1>2. ASSUME NEW o \in 0 .. MaxSize - 1, NEW d \in Bytes(MaxData + 1),
             Pwrite(c, f, o, d)
      PROVE  Goal
  <2>1. PICK n \in 0 .. Len(d) :
           /\ IsOpen(c, f) /\ OK(c, 0)
           /\ content' = [content EXCEPT ![i] =
                            Overwrite(@, o, SubSeq(d, 1, n))]
           /\ UNCHANGED <<up, inode, fdtable, locked, told>>
    BY <1>2 DEF Pwrite, Errno
  <2>2. SubSeq(d, 1, n) \in Seq(Unit)
    BY BytesType, SizeAssumption
  <2>3. Overwrite(content[i], o, SubSeq(d, 1, n)) \in Seq(Unit)
    <3>1. o \in Nat /\ content[i] \in Seq(Unit)
      BY <1>1, <2>1, SizeAssumption
    <3>2. QED
      BY <2>2, <3>1, OverwriteType, Zenon
  <2>4. content' = [content EXCEPT ![i] =
                      Overwrite(content[i], o, SubSeq(d, 1, n))]
    BY <2>1
  <2>5. QED
    BY <2>1, <2>3, <2>4
<1>3. ASSUME NEW n \in 0 .. MaxSize, Ftruncate(c, f, n)
      PROVE  Goal
  <2>1. /\ IsOpen(c, f) /\ OK(c, 0)
        /\ content' = [content EXCEPT ![i] = Resize(content[i], n)]
        /\ UNCHANGED <<up, inode, fdtable, locked, told>>
    BY <1>3 DEF Ftruncate, Errno
  <2>2. Resize(content[i], n) \in Seq(Unit)
    BY <1>1, <2>1, ResizeType, SizeAssumption
  <2>3. QED
    BY <2>1, <2>2
<1>4. ASSUME NEW m \in FallocMode, NEW o \in 0 .. MaxSize, NEW n \in 0 .. MaxSize,
             Fallocate(c, f, m, o, n)
      PROVE  Goal
  <2> DEFINE s == Fallocated(content[i], m, o, n)
  <2>1. /\ IsOpen(c, f) /\ OK(c, 0)
        /\ m = "COLLAPSE_RANGE" => o + n < Len(content[i])
        /\ content' = [content EXCEPT ![i] = s]
        /\ UNCHANGED <<up, inode, fdtable, locked, told>>
    BY <1>4 DEF Fallocate, Errno
  <2>2. s \in Seq(Unit)
    <3>1. o \in Nat /\ n \in Nat /\ content[i] \in Seq(Unit)
      BY <1>1, <2>1, SizeAssumption
    <3>2. QED
      BY <2>1, <3>1, FallocatedType, Zenon
  <2> HIDE DEF s
  <2>3. QED
    BY <2>1, <2>2
<1>5. QED
  BY <1>2, <1>3, <1>4 DEF WriteCalls

LEMMA WriteStep ==
    ASSUME TypeOK, NEW c \in Conn, NEW f \in Fd, WriteCalls(c, f)
    PROVE  TypeOK'
<1>1. CASE (\E e \in Errno : Error(c, e)) \/ OnOwn(c)
  BY <1>1, ErrorType, OwnStep
<1>2. CASE ~((\E e \in Errno : Error(c, e)) \/ OnOwn(c))
  <2>1. /\ OK(c, 0)
        /\ \E s \in Seq(Unit) :
              content' = [content EXCEPT ![fdtable[c][f].ino] = s]
        /\ UNCHANGED <<up, inode, fdtable, locked, told>>
    BY <1>2, WriteEffect
  <2>2. content' \in [Inode -> Seq(Unit)]
    BY <2>1 DEF TypeOK
  <2>3. QED
    BY <2>1, <2>2, OKType DEF TypeOK
<1>3. QED
  BY <1>1, <1>2

\* Unlinking and renaming only change names.
LEMMA NameEffect ==
    ASSUME TypeOK, NEW c \in Conn, NameCalls(c)
    PROVE  \/ \E e \in Errno : Error(c, e)
           \/ /\ OK(c, 0)
              /\ inode' \in [Name -> Inode \cup {None}]
              /\ UNCHANGED <<up, content, fdtable, locked, told>>
BY DEF TypeOK, NameCalls, Unlink, Rename, Errno

LEMMA NameStep ==
    ASSUME TypeOK, NEW c \in Conn, NameCalls(c)
    PROVE  TypeOK'
BY NameEffect, ErrorType, OKType DEF TypeOK

\* Opening and ending a connection.
LEMMA ConnectionStep ==
    ASSUME TypeOK, NEW c \in Conn, Connect(c) \/ Exit(c)
    PROVE  TypeOK'
<1>1. NoReply \in [conn : Conn \cup {None}, status : {"OK", "ERROR", "NONE"},
                   errno : Errno, val : Nat, data : Seq(Unit)]
  BY DEF NoReply, Answer, Errno
<1>2. CASE Connect(c)
  <2>1. up' \in [Conn -> BOOLEAN]
    BY <1>2, Zenon DEF Connect, TypeOK
  <2>2. QED
    BY <1>1, <1>2, <2>1 DEF Connect, TypeOK
<1>3. CASE Exit(c)
  <2>1. up' \in [Conn -> BOOLEAN]
    BY <1>3, Zenon DEF Exit, TypeOK
  <2>2. QED
    BY <1>1, <1>3, <2>1 DEF Exit, TypeOK, LockType
<1>4. QED
  BY <1>2, <1>3

\* Closing a descriptor, which may be the connection's.
LEMMA CloseStep ==
    ASSUME TypeOK, NEW c \in Conn, NEW f \in Fd, Close(c, f)
    PROVE  TypeOK'
<1>1. CASE \E e \in Errno : Error(c, e)
  BY <1>1, ErrorType
<1>2. CASE OnOwn(c) \/ Exit(c)
  BY <1>2, OwnStep, ConnectionStep
<1>3. CASE /\ IsOpen(c, f)
           /\ fdtable' = [fdtable EXCEPT ![c][f] = Closed]
           /\ locked' = [locked EXCEPT ![c][fdtable[c][f].ino] = "UNLCK"]
           /\ told' = [told EXCEPT ![c][f] = "UNLCK"]
           /\ OK(c, 0) \/ reply' = Answer(c, "ERROR", "EIO", 0, <<>>)
           /\ UNCHANGED <<up, inode, content>>
  <2>1. reply' \in [conn : Conn \cup {None}, status : {"OK", "ERROR", "NONE"},
                    errno : Errno, val : Nat, data : Seq(Unit)]
    <3>1. CASE OK(c, 0)
      BY <3>1, OKType
    <3>2. CASE reply' = Answer(c, "ERROR", "EIO", 0, <<>>)
      BY <3>2 DEF Answer, Errno
    <3>3. QED
      BY <1>3, <3>1, <3>2
  <2>2. QED
    BY <1>3, <2>1 DEF TypeOK, LockType
<1>4. QED
  BY <1>1, <1>2, <1>3 DEF Close, Errno

\* No call and no change of connections breaks the types.
LEMMA TypeStep == TypeOK /\ [Next]_vars => TypeOK'
<1> SUFFICES ASSUME TypeOK, [Next]_vars PROVE TypeOK'
  OBVIOUS
<1>1. CASE UNCHANGED vars
  BY <1>1 DEF vars, TypeOK
<1>2. ASSUME NEW c \in Conn,
             \/ OpenCalls(c) \/ LockCalls(c) \/ ReadCalls(c)
             \/ \E f \in Fd : WriteCalls(c, f)
             \/ NameCalls(c) \/ CloseCalls(c)
             \/ Connect(c) \/ Exit(c)
      PROVE  TypeOK'
  BY <1>2, OpenStep, LockStep, ReadStep, WriteStep, NameStep, CloseStep,
     ConnectionStep DEF OpenCalls, LockCalls, CloseCalls
<1>3. QED
  BY <1>1, <1>2 DEF Next

LEMMA TypeInit == Init => TypeOK
BY DEF Init, TypeOK, LockType, NoReply, Answer, Errno

\* The server's variables keep their types, whatever its clients ask for.
THEOREM TypeCorrect == Spec => []TypeOK
BY TypeInit, TypeStep, PTL DEF Spec

-----------------------------------------------------------------------------
(* What the calls do to descriptors and locks.                             *)

Tables == <<up, fdtable, locked, told>>

\* Open makes f, until then closed, a descriptor of the file i.
Opens(c, f, i) ==
    /\ up[c] /\ f \in FileFd /\ fdtable[c][f].ino = None
    /\ \E r \in OpenFile :
          r.ino = i /\ fdtable' = [fdtable EXCEPT ![c][f] = r]
    /\ UNCHANGED <<up, locked, told>>

\* Lock gives the process a lock of type t on the file that f is open on.
Locks(c, f, t) ==
    /\ up[c] /\ f \in Fd /\ IsOpen(c, f)
    /\ ~Conflict(c, fdtable[c][f].ino, t)
    /\ locked' = [locked EXCEPT ![c][fdtable[c][f].ino] = t]
    /\ told' = [told EXCEPT ![c][f] = t]
    /\ reply'.conn = c
    /\ UNCHANGED <<up, fdtable, content>>

\* Close gives up the descriptor and the process's lock on its file.
Closes(c, f) ==
    /\ f \in Fd /\ IsOpen(c, f)
    /\ fdtable' = [fdtable EXCEPT ![c][f] = Closed]
    /\ locked' = [locked EXCEPT ![c][fdtable[c][f].ino] = "UNLCK"]
    /\ told' = [told EXCEPT ![c][f] = "UNLCK"]
    /\ reply'.conn = c
    /\ UNCHANGED <<up, content>>

\* The file that is opened had the name before, or is new and so not open.
LEMMA OpenEffect ==
    ASSUME TypeOK, NEW c \in Conn, NEW n \in Name \cup {LongName}, NEW m \in Modes,
           Open(c, n, m)
    PROVE  \/ UNCHANGED <<Tables, content>>
           \/ /\ n \in Name /\ inode[n] = None
              /\ \E f \in FileFd, i \in FreeInodes :
                    /\ Opens(c, f, i)
                    /\ content' = [content EXCEPT ![i] = <<>>]
           \/ /\ n \in Name /\ inode[n] \in Inode
              /\ \E f \in FileFd : Opens(c, f, inode[n])
              /\ ~Truncates(m) => UNCHANGED content
<1>1. ASSUME NEW i \in Inode, Install(c, i, m), UNCHANGED <<up, locked, told>>
      PROVE  \E f \in FileFd : Opens(c, f, i)
  <2>1. PICK f \in FreeFds(c) : fdtable' = [fdtable EXCEPT ![c][f] = OpenAs(i, m)]
    BY <1>1 DEF Install
  <2>2. OpenAs(i, m) \in OpenFile /\ OpenAs(i, m).ino = i
    BY OpenAsType DEF OpenAs
  <2>3. f \in FileFd /\ fdtable[c][f].ino = None /\ up[c]
    BY <2>1 DEF FreeFds, FileFd, Open
  <2>4. QED
    BY <1>1, <2>1, <2>2, <2>3 DEF Opens
<1>2. CASE \E e \in Errno : Error(c, e)
  BY <1>2 DEF Error, Tables
<1>3. CASE /\ n \in Name /\ inode[n] = None
           /\ \E i \in FreeInodes :
                 /\ content' = [content EXCEPT ![i] = <<>>]
                 /\ Install(c, i, m)
           /\ UNCHANGED <<up, locked, told>>
  BY <1>1, <1>3 DEF FreeInodes
<1>4. CASE /\ n \in Name /\ inode[n] # None
           /\ Install(c, inode[n], m)
           /\ content' = IF Truncates(m)
                         THEN [content EXCEPT ![inode[n]] = <<>>]
                         ELSE content
           /\ UNCHANGED <<up, inode, locked, told>>
  <2>1. inode[n] \in Inode
    BY <1>4 DEF TypeOK
  <2>2. QED
    BY <1>1, <1>4, <2>1
<1>5. QED
  BY <1>2, <1>3, <1>4 DEF Open, Errno

LEMMA LockEffect ==
    ASSUME TypeOK, NEW c \in Conn, LockCalls(c)
    PROVE  \/ UNCHANGED <<Tables, content>>
           \/ \E f \in Fd, t \in LockType : Locks(c, f, t)
<1>1. PICK f \in Fd, t \in LockType \cup {"OTHER"} : Lock(c, f, t)
  BY DEF LockCalls
<1>2. CASE \E e \in Errno : Error(c, e)
  BY <1>2 DEF Error, Tables
<1>3. CASE OnOwn(c)
  BY <1>3, OwnStep DEF Tables
<1>4. CASE ~((\E e \in Errno : Error(c, e)) \/ OnOwn(c))
  BY <1>1, <1>4 DEF Lock, Locks, Errno, OK, Answer
<1>5. QED
  BY <1>2, <1>3, <1>4

LEMMA CloseEffect ==
    ASSUME TypeOK, NEW c \in Conn, CloseCalls(c)
    PROVE  UNCHANGED <<Tables, content>> \/ Exit(c) \/ \E f \in Fd : Closes(c, f)
<1>1. PICK f \in Fd : Close(c, f)
  BY DEF CloseCalls
<1>2. CASE OnOwn(c)
  BY <1>2, OwnStep DEF Tables
<1>3. CASE Error(c, "EBADF")
  BY <1>3 DEF Error, Tables
<1>4. CASE ~OnOwn(c) /\ ~Error(c, "EBADF")
  BY <1>1, <1>4 DEF Close, Closes, OK, Answer
<1>5. QED
  BY <1>2, <1>3, <1>4

LEMMA QuietEffect ==
    ASSUME TypeOK, NEW c \in Conn
    PROVE  /\ ReadCalls(c) \/ NameCalls(c) => UNCHANGED <<Tables, content>>
           /\ \A f \in Fd : WriteCalls(c, f) => UNCHANGED Tables
<1>1. ReadCalls(c) => UNCHANGED <<Tables, content>>
  BY OwnStep DEF ReadCalls, Pread, Fsync, Stat, Error, Tables
<1>2. NameCalls(c) => UNCHANGED <<Tables, content>>
  BY NameEffect DEF Error, Tables
<1>3. ASSUME NEW f \in Fd, WriteCalls(c, f) PROVE UNCHANGED Tables
  BY <1>3, WriteEffect, OwnStep DEF Error, Tables
<1>4. QED
  BY <1>1, <1>2, <1>3

-----------------------------------------------------------------------------
(* A lock is lost only by its owner's own doing.                           *)

\* No file is open under the number of one of the server's own descriptors,
\* and a client has been told of locks only by way of open descriptors.
OpenInv ==
    \A c \in Conn, f \in Fd :
        /\ fdtable[c][f].ino # None => f \notin Own
        /\ told[c][f] # "UNLCK" => fdtable[c][f].ino # None

LossInv == TypeOK /\ OpenInv

\* What is asked of each step for one client and one of its descriptors.
LossOwn(c, f) ==
    /\ told'[c][f] # "UNLCK"
    /\ locked'[c][fdtable'[c][f].ino] # told'[c][f]
    => \/ /\ told[c][f] = told'[c][f]
          /\ locked[c][fdtable[c][f].ino] # told[c][f]
       \/ /\ reply'.conn = c
          /\ \E g \in FileFd \ {f} : fdtable[c][g].ino = fdtable[c][f].ino

Loss == OpenInv' /\ \A c \in Conn, f \in FileFd : LossOwn(c, f)

LEMMA LossStep == LossInv /\ [Next]_vars => TypeOK' /\ Loss
<1> SUFFICES ASSUME LossInv, [Next]_vars PROVE TypeOK' /\ Loss
  OBVIOUS
<1>1. TypeOK'
  BY TypeStep DEF LossInv
<1> USE DEF LossInv, TypeOK, OpenInv, FileFd
<1>2. CASE UNCHANGED Tables
  BY <1>1, <1>2 DEF Tables, Loss, LossOwn
<1>3. ASSUME NEW c \in Conn, NEW f \in FileFd, NEW i \in Inode, Opens(c, f, i)
      PROVE  Loss
  <2>1. OpenInv'
    BY <1>3, NoneAssumption DEF Opens
  <2>2. ASSUME NEW d \in Conn, NEW g \in FileFd PROVE LossOwn(d, g)
    BY <1>3 DEF Opens, LossOwn
  <2>3. QED
    BY <2>1, <2>2 DEF Loss
<1>4. ASSUME NEW c \in Conn, NEW f \in Fd, NEW t \in LockType, Locks(c, f, t)
      PROVE  Loss
  <2>1. OpenInv'
    BY <1>4 DEF Locks, IsOpen
  <2>2. ASSUME NEW d \in Conn, NEW g \in FileFd PROVE LossOwn(d, g)
    BY <1>4, OpenInode DEF Locks, IsOpen, LossOwn
  <2>3. QED
    BY <2>1, <2>2 DEF Loss
<1>5. ASSUME NEW c \in Conn, NEW f \in Fd, Closes(c, f)
      PROVE  Loss
  <2>1. OpenInv'
    BY <1>5 DEF Closes, IsOpen, Closed
  <2>2. ASSUME NEW d \in Conn, NEW g \in FileFd PROVE LossOwn(d, g)
    BY <1>5, OpenInode DEF Closes, IsOpen, LossOwn
  <2>3. QED
    BY <2>1, <2>2 DEF Loss
<1>6. ASSUME NEW c \in Conn, Connect(c) PROVE Loss
  BY <1>6 DEF Connect, Loss, LossOwn
<1>7. ASSUME NEW c \in Conn, Exit(c) PROVE Loss
  BY <1>7 DEF Exit, Closed, Loss, LossOwn
<1>8. ASSUME NEW c \in Conn, NEW n \in Name \cup {LongName}, NEW m \in Modes,
             Open(c, n, m)
      PROVE  Loss
  <2>1. UNCHANGED Tables \/ \E f \in FileFd, i \in Inode : Opens(c, f, i)
    BY <1>8, OpenEffect DEF FreeInodes
  <2>2. QED
    BY <1>2, <1>3, <2>1
<1>9. ASSUME NEW c \in Conn, LockCalls(c) PROVE Loss
  BY <1>2, <1>4, <1>9, LockEffect
<1>10. ASSUME NEW c \in Conn, CloseCalls(c) PROVE Loss
  BY <1>2, <1>5, <1>7, <1>10, CloseEffect
<1>11. ASSUME NEW c \in Conn,
              ReadCalls(c) \/ NameCalls(c) \/ \E f \in Fd : WriteCalls(c, f)
       PROVE  Loss
  BY <1>2, <1>11, QuietEffect
<1>12. CASE UNCHANGED vars
  BY <1>2, <1>12 DEF vars, Tables
<1>13. QED
  BY <1>1, <1>6, <1>7, <1>8, <1>9, <1>10, <1>11, <1>12 DEF Next, OpenCalls

LEMMA LossInit == Init => LossInv
BY TypeInit DEF Init, LossInv, OpenInv, Closed

\* Whatever the clients do, a lock that one of them has been told of goes
\* unannounced only by its own request on a second descriptor of the file.
THEOREM LockLossOwnAlways == Spec => LockLossOwn
<1>1. LossInv /\ [Next]_vars => LossInv'
  BY LossStep DEF LossInv, Loss
<1>2. LossInv /\ [Next]_vars => \A c \in Conn, f \in FileFd : LossOwn(c, f)
  BY LossStep DEF Loss
<1>3. QED
  BY <1>1, <1>2, LossInit, PTL DEF Spec, LockLossOwn, LossOwn

-----------------------------------------------------------------------------
(* Clients that lock.                                                      *)

\* A connection has at most one descriptor on a file, ...
OneInv ==
    \A c \in Conn, f, g \in Fd :
        fdtable[c][f].ino # None /\ fdtable[c][f].ino = fdtable[c][g].ino
            => f = g

\* ... so that what it was told about the descriptor is what its process has
\* (close and unlock concern the process), ...
ToldInv ==
    \A c \in Conn, f \in Fd :
        told[c][f] # "UNLCK" =>
            /\ fdtable[c][f].ino # None
            /\ locked[c][fdtable[c][f].ino] = told[c][f]

\* ... and processes' locks do not conflict.
CompatibleInv ==
    \A c, d \in Conn, i \in Inode :
        c # d /\ locked[c][i] = "WRLCK" => locked[d][i] = "UNLCK"

LockInv == TypeOK /\ OneInv /\ ToldInv /\ CompatibleInv

\* Locking clients are clients.
LEMMA LockingIsNext == LockingNext => Next
BY DEF LockingNext, Next, OpenCalls, FileFd

LEMMA LockInvInit == Init => LockInv
BY TypeInit DEF Init, LockInv, OneInv, ToldInv, CompatibleInv, Closed

LEMMA LockInvStep == LockInv /\ [LockingNext]_vars => LockInv'
<1> SUFFICES ASSUME LockInv, [LockingNext]_vars PROVE LockInv'
  OBVIOUS
<1>1. TypeOK'
  BY LockingIsNext, TypeStep DEF LockInv
<1> DEFINE Rest == OneInv /\ ToldInv /\ CompatibleInv
<1> USE DEF LockInv, TypeOK, FileFd
<1>2. CASE UNCHANGED Tables
  BY <1>1, <1>2 DEF Tables, OneInv, ToldInv, CompatibleInv
<1>3. ASSUME NEW c \in Conn, NEW f \in FileFd, NEW i \in Inode, Opens(c, f, i),
             \A g \in Fd : fdtable[c][g].ino # i
      PROVE  Rest'
  <2>1. OneInv'
    BY <1>3 DEF Opens, OneInv
  <2>2. ToldInv'
    BY <1>3 DEF Opens, ToldInv
  <2>3. CompatibleInv'
    BY <1>3 DEF Opens, CompatibleInv
  <2>4. QED
    BY <2>1, <2>2, <2>3
<1>4. ASSUME NEW c \in Conn, NEW f \in Fd, NEW t \in LockType, Locks(c, f, t)
      PROVE  Rest'
  <2>1. fdtable[c][f].ino \in Inode
    BY <1>4, OpenInode DEF Locks
  <2>2. OneInv'
    BY <1>4 DEF Locks, OneInv
  <2>3. ToldInv'
    BY <1>4, <2>1 DEF Locks, IsOpen, OneInv, ToldInv
  <2>4. CompatibleInv'
    BY <1>4, <2>1 DEF Locks, Conflict, CompatibleInv, LockType
  <2>5. QED
    BY <2>2, <2>3, <2>4
<1>5. ASSUME NEW c \in Conn, NEW f \in Fd, Closes(c, f)
      PROVE  Rest'
  <2>1. fdtable[c][f].ino \in Inode
    BY <1>5, OpenInode DEF Closes
  <2>2. OneInv'
    BY <1>5 DEF Closes, OneInv, Closed
  <2>3. ToldInv'
    BY <1>5, <2>1 DEF Closes, Closed, IsOpen, OneInv, ToldInv
  <2>4. CompatibleInv'
    BY <1>5, <2>1 DEF Closes, CompatibleInv
  <2>5. QED
    BY <2>2, <2>3, <2>4
<1>6. ASSUME NEW c \in Conn, Connect(c) PROVE Rest'
  BY <1>6 DEF Connect, OneInv, ToldInv, CompatibleInv
<1>7. ASSUME NEW c \in Conn, Exit(c) PROVE Rest'
  BY <1>7 DEF Exit, Closed, OneInv, ToldInv, CompatibleInv
<1>8. ASSUME NEW c \in Conn, NEW n \in Name \cup {LongName}, NEW m \in Modes,
             OneDescriptor(c, n), Open(c, n, m)
      PROVE  LockInv'
  <2>1. CASE UNCHANGED Tables
    BY <1>2, <2>1
  <2>2. ASSUME NEW f \in FileFd, NEW i \in FreeInodes, Opens(c, f, i)
        PROVE  LockInv'
    BY <1>1, <1>3, <2>2 DEF FreeInodes
  <2>3. ASSUME n \in Name, inode[n] \in Inode,
               NEW f \in FileFd, Opens(c, f, inode[n])
        PROVE  LockInv'
    <3>1. \A g \in Fd : fdtable[c][g].ino # inode[n]
      BY <1>8, <2>3, NoneAssumption DEF OneDescriptor, IsOpen
    <3>2. QED
      BY <1>1, <1>3, <2>3, <3>1
  <2>4. QED
    BY <1>8, <2>1, <2>2, <2>3, OpenEffect
<1>9. ASSUME NEW c \in Conn, LockCalls(c) PROVE LockInv'
  BY <1>1, <1>2, <1>4, <1>9, LockEffect
<1>10. ASSUME NEW c \in Conn, CloseCalls(c) PROVE LockInv'
  BY <1>1, <1>2, <1>5, <1>7, <1>10, CloseEffect
<1>11. ASSUME NEW c \in Conn,
              ReadCalls(c) \/ NameCalls(c) \/ \E f \in FileFd : WriteCalls(c, f)
       PROVE  LockInv'
  BY <1>2, <1>11, QuietEffect
<1>12. CASE UNCHANGED vars
  BY <1>2, <1>12 DEF vars, Tables
<1>13. QED
  BY <1>1, <1>6, <1>7, <1>8, <1>9, <1>10, <1>11, <1>12 DEF LockingNext

LEMMA LockInvExclusion == LockInv => LockExclusion
<1> SUFFICES ASSUME LockInv,
                    NEW c \in Conn, NEW d \in Conn,
                    NEW f \in FileFd, NEW g \in FileFd,
                    c # d, told[c][f] # "UNLCK", told[d][g] # "UNLCK",
                    fdtable[c][f].ino = fdtable[d][g].ino
             PROVE  told[c][f] = "RDLCK" /\ told[d][g] = "RDLCK"
  BY DEF LockExclusion
<1>1. f \in Fd /\ g \in Fd
  BY DEF FileFd
<1>2. fdtable[c][f].ino \in Inode
  BY <1>1, OpenInode DEF LockInv, ToldInv, IsOpen
<1>3. QED
  BY <1>1, <1>2 DEF LockInv, TypeOK, ToldInv, CompatibleInv, LockType

\* Locking clients exclude each other, for any number of them.
THEOREM LockExclusionAlways == LockingSpec => []LockExclusion
BY LockInvInit, LockInvStep, LockInvExclusion, PTL DEF LockingSpec

\* A step that changes the contents of a file some client was told it has
\* locked is a write of that client under its write lock.
LEMMA StableStep ==
    ASSUME LockInv, LockingNext, NEW c \in Conn, NEW f \in FileFd,
           told[c][f] # "UNLCK",
           content'[fdtable[c][f].ino] # content[fdtable[c][f].ino]
    PROVE  reply'.conn = c /\ told[c][f] = "WRLCK"
<1> DEFINE i == fdtable[c][f].ino
<1>1. TypeOK /\ f \in Fd /\ i \in Inode
  BY OpenInode DEF LockInv, ToldInv, IsOpen, FileFd
<1>2. ASSUME NEW d \in Conn, NEW n \in Name \cup {LongName}, NEW m \in Modes,
             "TRUNC" \notin m, Open(d, n, m)
      PROVE  FALSE
  <2>1. ~Truncates(m)
    BY <1>2 DEF Truncates
  <2>2. PICK j \in FreeInodes : content' = [content EXCEPT ![j] = <<>>]
    BY <1>1, <1>2, <2>1, OpenEffect
  <2>3. j # i
    BY <1>1, <2>2 DEF FreeInodes
  <2>4. QED
    BY <1>1, <2>2, <2>3 DEF TypeOK
<1>3. ASSUME NEW d \in Conn, NEW g \in FileFd,
             told[d][g] = "WRLCK", WriteCalls(d, g)
      PROVE  reply'.conn = c /\ told[c][f] = "WRLCK"
  <2>1. /\ OK(d, 0)
        /\ \E s \in Seq(Unit) :
              content' = [content EXCEPT ![fdtable[d][g].ino] = s]
    BY <1>1, <1>3, WriteEffect DEF Error, FileFd
  <2>2. fdtable[d][g].ino = i
    BY <1>1, <2>1 DEF TypeOK
  <2>3. d = c
    BY <1>3, <2>2, LockInvExclusion DEF LockExclusion
  <2>4. g = f
    BY <1>1, <2>2, <2>3, NoneAssumption DEF LockInv, OneInv, FileFd
  <2>5. QED
    BY <1>3, <2>1, <2>3, <2>4 DEF OK, Answer
<1>4. ASSUME NEW d \in Conn,
             \/ LockCalls(d) \/ ReadCalls(d) \/ NameCalls(d) \/ CloseCalls(d)
             \/ Connect(d) \/ Exit(d)
      PROVE  FALSE
  <2>1. UNCHANGED content
    BY <1>1, <1>4, LockEffect, QuietEffect, CloseEffect
       DEF Locks, Closes, Connect, Exit
  <2>2. QED
    BY <2>1
<1>5. QED
  BY <1>2, <1>3, <1>4 DEF LockingNext

\* What a locking client has locked changes only by its own hand.
THEOREM LockedContentStableAlways == LockingSpec => LockedContentStable
<1> DEFINE Stable ==
      \A c \in Conn, f \in FileFd :
          /\ told[c][f] # "UNLCK"
          /\ content'[fdtable[c][f].ino] # content[fdtable[c][f].ino]
          => reply'.conn = c /\ told[c][f] = "WRLCK"
<1>1. LockInv /\ [LockingNext]_vars => [Stable]_vars
  BY StableStep
<1>2. QED
  BY <1>1, LockInvInit, LockInvStep, PTL DEF LockingSpec, LockedContentStable

-----------------------------------------------------------------------------
(* What the server's handlers do, one by one.                              *)

\* A handler's reply: a success without an errno, or an error with one.
Replied(c) ==
    /\ reply'.conn = c
    /\ \/ reply'.status = "OK" /\ reply'.errno = "NONE"
       \/ reply'.status = "ERROR" /\ reply'.errno \in Errno \ {"NONE"}

LEMMA Refused ==
    ASSUME TypeOK, NEW c \in Conn, NEW e \in Errno \ {"NONE"}, Error(c, e)
    PROVE  /\ TypeOK' /\ Replied(c) /\ reply'.status = "ERROR" /\ reply'.errno = e
           /\ UNCHANGED <<up, inode, content, fdtable, locked, told>>
<1>1. TypeOK'
  BY ErrorType
<1>2. QED
  BY <1>1 DEF Error, Answer, Replied

LEMMA Granted ==
    ASSUME NEW c \in Conn, NEW v \in Nat, OK(c, v)
    PROVE  Replied(c) /\ reply'.status = "OK" /\ reply'.val = v
BY DEF OK, Answer, Replied

LEMMA PreadEffect ==
    ASSUME TypeOK, NEW c \in Conn, NEW f \in FileFd, NEW o \in Nat, NEW n \in Nat,
           Pread(c, f, o, n)
    PROVE  TypeOK' /\ Replied(c) /\ UNCHANGED <<inode, content, fdtable>>
           /\ Len(reply'.data) \in Nat
<1>1. CASE \E e \in Errno \ {"NONE"} : Error(c, e)
  <2>1. TypeOK' /\ Replied(c) /\ UNCHANGED <<inode, content, fdtable>>
    BY <1>1, Refused
  <2>2. Len(reply'.data) \in Nat
    BY <1>1 DEF Error, Answer
  <2>3. QED
    BY <2>1, <2>2
<1>2. CASE /\ IsOpen(c, f)
           /\ reply' = Answer(c, "OK", "NONE", 0,
                              Slice(content[fdtable[c][f].ino], o, n))
           /\ UNCHANGED <<up, inode, content, fdtable, locked, told>>
  <2>1. content[fdtable[c][f].ino] \in Seq(Unit)
    BY <1>2, OpenInode DEF TypeOK, IsOpen
  <2>2. Slice(content[fdtable[c][f].ino], o, n) \in Seq(Unit)
    BY <2>1, SliceType, Zenon
  <2>3. QED
    BY <1>2, <2>2 DEF TypeOK, Answer, Replied, Errno
<1>3. QED
  BY <1>1, <1>2 DEF Pread, Errno, FileFd

LEMMA FsyncEffect ==
    ASSUME TypeOK, NEW c \in Conn, NEW f \in FileFd, Fsync(c, f)
    PROVE  TypeOK' /\ Replied(c) /\ UNCHANGED <<inode, content, fdtable>>
<1>1. CASE \E e \in Errno \ {"NONE"} : Error(c, e)
  BY <1>1, Refused
<1>2. CASE OK(c, 0) /\ UNCHANGED <<up, inode, content, fdtable, locked, told>>
  BY <1>2, Granted, OKType DEF TypeOK
<1>3. QED
  BY <1>1, <1>2 DEF Fsync, Errno, FileFd

LEMMA OverwriteLength ==
    ASSUME NEW s \in Seq(Unit), NEW o \in Nat, NEW d \in Seq(Unit)
    PROVE  Len(Overwrite(s, o, d)) >= Len(s)
<1> DEFINE n == IF Len(s) > o + Len(d) THEN Len(s) ELSE o + Len(d)
<1>1. n \in Nat /\ n >= Len(s)
  OBVIOUS
<1>2. CASE d = <<>>
  BY <1>2 DEF Overwrite
<1>3. CASE d # <<>>
  <2>1. Overwrite(s, o, d) = [k \in 1 .. n |-> IF k > o /\ k <= o + Len(d) THEN d[k - o]
                               ELSE IF k <= Len(s) THEN s[k] ELSE Zero]
    BY <1>3 DEF Overwrite
  <2>2. Overwrite(s, o, d) \in Seq(Unit) /\ DOMAIN Overwrite(s, o, d) = 1 .. n
    BY <2>1, OverwriteType
  <2>3. Len(Overwrite(s, o, d)) = n
    BY <1>1, <2>2
  <2>4. QED
    BY <1>1, <2>3
<1>4. QED
  BY <1>2, <1>3

\* The contents of the file that f is open on are replaced by s.
LEMMA Replaced ==
    ASSUME TypeOK, NEW c \in Conn, NEW f \in FileFd, IsOpen(c, f),
           NEW s \in Seq(Unit), OK(c, 0),
           content' = [content EXCEPT ![fdtable[c][f].ino] = s],
           UNCHANGED <<up, inode, fdtable, locked, told>>
    PROVE  /\ TypeOK' /\ Replied(c) /\ reply'.status = "OK"
           /\ UNCHANGED <<inode, fdtable>>
           /\ fdtable[c][f].ino \in Inode
           /\ content'[fdtable[c][f].ino] = s
           /\ \A i \in Inode : i # fdtable[c][f].ino => content'[i] = content[i]
<1>1. fdtable[c][f].ino \in Inode
  BY OpenInode DEF IsOpen
<1>2. /\ content' \in [Inode -> Seq(Unit)]
      /\ content'[fdtable[c][f].ino] = s
      /\ \A i \in Inode : i # fdtable[c][f].ino => content'[i] = content[i]
  BY <1>1 DEF TypeOK
<1>3. TypeOK'
  BY <1>2, OKType DEF TypeOK
<1>4. QED
  BY <1>1, <1>2, <1>3, Granted

LEMMA PwriteEffect ==
    ASSUME TypeOK, NEW c \in Conn, NEW f \in FileFd, NEW o \in Nat,
           NEW d \in Seq(Unit), Pwrite(c, f, o, d)
    PROVE  /\ TypeOK' /\ Replied(c) /\ UNCHANGED <<inode, fdtable>>
           /\ \A i \in Inode : Len(content'[i]) >= Len(content[i])
<1>0. \A i \in Inode : Len(content[i]) \in Nat
  BY DEF TypeOK
<1>1. CASE \E e \in Errno \ {"NONE"} : Error(c, e)
  BY <1>0, <1>1, Refused
<1>2. ASSUME NEW n \in 0 .. Len(d), IsOpen(c, f), OK(c, 0),
             content' = [content EXCEPT ![fdtable[c][f].ino] =
                           Overwrite(@, o, SubSeq(d, 1, n))],
             UNCHANGED <<up, inode, fdtable, locked, told>>
      PROVE  /\ TypeOK' /\ Replied(c) /\ UNCHANGED <<inode, fdtable>>
             /\ \A i \in Inode : Len(content'[i]) >= Len(content[i])
  <2> DEFINE s == Overwrite(content[fdtable[c][f].ino], o, SubSeq(d, 1, n))
  <2>1. content[fdtable[c][f].ino] \in Seq(Unit) /\ SubSeq(d, 1, n) \in Seq(Unit)
    BY <1>2, OpenInode DEF TypeOK, IsOpen
  <2>2. s \in Seq(Unit) /\ Len(s) >= Len(content[fdtable[c][f].ino])
    BY <2>1, OverwriteType, OverwriteLength, Zenon
  <2>3. content' = [content EXCEPT ![fdtable[c][f].ino] = s]
    BY <1>2
  <2> HIDE DEF s
  <2>4. /\ TypeOK' /\ Replied(c) /\ UNCHANGED <<inode, fdtable>>
        /\ content'[fdtable[c][f].ino] = s
        /\ \A i \in Inode : i # fdtable[c][f].ino => content'[i] = content[i]
    BY <1>2, <2>2, <2>3, Replaced
  <2>5. QED
    BY <1>0, <2>2, <2>4
<1>3. QED
  BY <1>1, <1>2 DEF Pwrite, Errno, FileFd

LEMMA FtruncateEffect ==
    ASSUME TypeOK, NEW c \in Conn, NEW f \in FileFd, NEW n \in Nat,
           Ftruncate(c, f, n)
    PROVE  /\ TypeOK' /\ Replied(c) /\ UNCHANGED <<inode, fdtable>>
           /\ reply'.status = "OK" => Len(content'[fdtable[c][f].ino]) = n
<1>1. CASE \E e \in Errno \ {"NONE"} : Error(c, e)
  BY <1>1, Refused
<1>2. CASE /\ IsOpen(c, f) /\ OK(c, 0)
           /\ content' = [content EXCEPT ![fdtable[c][f].ino] = Resize(@, n)]
           /\ UNCHANGED <<up, inode, fdtable, locked, told>>
  <2> DEFINE s == Resize(content[fdtable[c][f].ino], n)
  <2>1. content[fdtable[c][f].ino] \in Seq(Unit)
    BY <1>2, OpenInode DEF TypeOK, IsOpen
  <2>2. s \in Seq(Unit) /\ Len(s) = n
    BY <2>1, ResizeType, Zenon
  <2>3. content' = [content EXCEPT ![fdtable[c][f].ino] = s]
    BY <1>2
  <2> HIDE DEF s
  <2>4. QED
    BY <1>2, <2>2, <2>3, Replaced
<1>3. QED
  BY <1>1, <1>2 DEF Ftruncate, Errno, FileFd

LEMMA FallocateEffect ==
    ASSUME TypeOK, NEW c \in Conn, NEW f \in FileFd, NEW m \in FallocMode,
           NEW o \in Nat, NEW n \in Nat, Fallocate(c, f, m, o, n)
    PROVE  /\ TypeOK' /\ Replied(c) /\ UNCHANGED <<inode, fdtable>>
           /\ m # "COLLAPSE_RANGE" =>
                 \A i \in Inode : Len(content'[i]) >= Len(content[i])
           /\ reply'.status = "OK" =>
                 /\ Len(content'[fdtable[c][f].ino]) \in Nat
                 /\ m = "ALLOC" => Len(content'[fdtable[c][f].ino]) >= o + n
<1>0. \A i \in Inode : Len(content[i]) \in Nat
  BY DEF TypeOK
<1>1. CASE \E e \in Errno \ {"NONE"} : Error(c, e)
  BY <1>0, <1>1, Refused
<1>2. CASE /\ IsOpen(c, f) /\ OK(c, 0)
           /\ m = "COLLAPSE_RANGE" => o + n < Len(content[fdtable[c][f].ino])
           /\ content' = [content EXCEPT ![fdtable[c][f].ino] =
                            Fallocated(@, m, o, n)]
           /\ UNCHANGED <<up, inode, fdtable, locked, told>>
  <2> DEFINE b == content[fdtable[c][f].ino]
  <2> DEFINE s == Fallocated(b, m, o, n)
  <2>1. b \in Seq(Unit)
    BY <1>2, OpenInode DEF TypeOK, IsOpen
  <2>2. /\ s \in Seq(Unit) /\ (m = "ALLOC" => Len(s) >= o + n)
        /\ m # "COLLAPSE_RANGE" => Len(s) >= Len(b)
    BY <1>2, <2>1, FallocatedType, Zenon
  <2>3. content' = [content EXCEPT ![fdtable[c][f].ino] = s]
    BY <1>2
  <2> HIDE DEF s
  <2>4. /\ TypeOK' /\ Replied(c) /\ UNCHANGED <<inode, fdtable>>
        /\ content'[fdtable[c][f].ino] = s
        /\ \A i \in Inode : i # fdtable[c][f].ino => content'[i] = content[i]
    BY <1>2, <2>2, <2>3, Replaced, ZenonT(60)
  <2>5. QED
    BY <1>0, <2>2, <2>4
<1>3. QED
  BY <1>1, <1>2 DEF Fallocate, Errno, FileFd

\* A file that is opened by way of a name has that name afterwards; only
\* O_TRUNC cuts a file that was there.
LEMMA OpenResult ==
    ASSUME TypeOK, NEW c \in Conn, NEW n \in Name, NEW m, Open(c, n, m)
    PROVE  /\ TypeOK' /\ Replied(c)
           /\ reply'.status = "ERROR" => UNCHANGED <<inode, content, fdtable>>
           /\ reply'.status = "OK" =>
                 /\ reply'.val \in FileFd /\ fdtable[c][reply'.val].ino = None
                 /\ inode'[n] \in Inode
                 /\ fdtable' = [fdtable EXCEPT ![c][reply'.val] = OpenAs(inode'[n], m)]
                 /\ "CREAT" \notin m => UNCHANGED inode
                 /\ "TRUNC" \in m => Len(content'[inode'[n]]) = 0
           /\ "TRUNC" \notin m \/ inode[n] = None =>
                 \A i \in Inode \ FreeInodes : content'[i] = content[i]
<1>1. TypeOK'
  BY OpenStep
<1>2. CASE \E e \in Errno \ {"NONE"} : Error(c, e)
  BY <1>1, <1>2, Refused
<1>3. ASSUME NEW i \in Inode, Install(c, i, m)
      PROVE  /\ Replied(c) /\ reply'.status = "OK" /\ reply'.val \in FileFd
             /\ fdtable[c][reply'.val].ino = None
             /\ fdtable' = [fdtable EXCEPT ![c][reply'.val] = OpenAs(i, m)]
  <2>1. PICK f \in FreeFds(c) :
           fdtable' = [fdtable EXCEPT ![c][f] = OpenAs(i, m)] /\ OK(c, f)
    BY <1>3 DEF Install
  <2>2. f \in FileFd /\ f \in Nat /\ fdtable[c][f].ino = None
    BY <2>1, SizeAssumption DEF FreeFds, FileFd, Fd
  <2>3. Replied(c) /\ reply'.status = "OK" /\ reply'.val = f
    BY <2>1, <2>2, Granted
  <2>4. QED
    BY <2>1, <2>2, <2>3
<1>4. ASSUME NEW i \in FreeInodes, inode[n] = None, "CREAT" \in m,
             inode' = [inode EXCEPT ![n] = i],
             content' = [content EXCEPT ![i] = <<>>],
             Install(c, i, m)
      PROVE  /\ inode'[n] = i /\ i \in Inode /\ Len(content'[i]) = 0
             /\ \A j \in Inode \ FreeInodes : content'[j] = content[j]
  BY <1>4 DEF FreeInodes, TypeOK
<1>5. ASSUME inode[n] \in Inode, UNCHANGED inode,
             content' = IF Truncates(m) THEN [content EXCEPT ![inode[n]] = <<>>]
                        ELSE content
      PROVE  /\ "TRUNC" \in m => Len(content'[inode'[n]]) = 0
             /\ "TRUNC" \notin m => content' = content
  BY <1>5 DEF Truncates, TypeOK
<1>6. CASE \E i \in FreeInodes :
              /\ inode[n] = None /\ "CREAT" \in m
              /\ inode' = [inode EXCEPT ![n] = i]
              /\ content' = [content EXCEPT ![i] = <<>>]
              /\ Install(c, i, m)
  <2>1. PICK i \in FreeInodes :
              /\ inode[n] = None /\ "CREAT" \in m
              /\ inode' = [inode EXCEPT ![n] = i]
              /\ content' = [content EXCEPT ![i] = <<>>]
              /\ Install(c, i, m)
    BY <1>6
  <2>2. /\ inode'[n] = i /\ i \in Inode /\ Len(content'[i]) = 0
        /\ \A j \in Inode \ FreeInodes : content'[j] = content[j]
    BY <1>4, <2>1
  <2>3. QED
    BY <1>1, <1>3, <2>1, <2>2
<1>7. CASE /\ inode[n] # None /\ Install(c, inode[n], m)
           /\ content' = IF Truncates(m) THEN [content EXCEPT ![inode[n]] = <<>>]
                         ELSE content
           /\ UNCHANGED <<up, inode, locked, told>>
  <2>1. inode[n] \in Inode /\ inode' = inode
    BY <1>7 DEF TypeOK
  <2>2. /\ "TRUNC" \in m => Len(content'[inode'[n]]) = 0
        /\ "TRUNC" \notin m => content' = content
    BY <1>5, <1>7, <2>1
  <2>3. QED
    BY <1>1, <1>3, <1>7, <2>1, <2>2
<1>8. QED
  BY <1>2, <1>6, <1>7, NameAssumption DEF Open, Errno

LEMMA CloseResult ==
    ASSUME TypeOK, NEW c \in Conn, NEW f \in FileFd, Close(c, f)
    PROVE  /\ TypeOK' /\ Replied(c) /\ UNCHANGED <<inode, content>>
           /\ fdtable'[c][f].ino = None
           /\ \A g \in Fd : g # f => fdtable'[c][g] = fdtable[c][g]
           /\ \A d \in Conn : d # c => fdtable'[d] = fdtable[d]
<1>1. TypeOK'
  BY CloseStep DEF FileFd
<1>2. CASE ~IsOpen(c, f) /\ Error(c, "EBADF")
  <2>1. Replied(c) /\ UNCHANGED <<inode, content, fdtable>>
    BY <1>2, Refused DEF Errno
  <2>2. QED
    BY <1>1, <1>2, <2>1 DEF IsOpen, FileFd
<1>3. CASE /\ fdtable' = [fdtable EXCEPT ![c][f] = Closed]
           /\ OK(c, 0) \/ reply' = Answer(c, "ERROR", "EIO", 0, <<>>)
           /\ UNCHANGED <<up, inode, content>>
  <2>1. Replied(c)
    BY <1>3, Granted DEF Answer, Replied, Errno
  <2>2. /\ fdtable'[c][f] = Closed
        /\ \A g \in Fd : g # f => fdtable'[c][g] = fdtable[c][g]
        /\ \A d \in Conn : d # c => fdtable'[d] = fdtable[d]
    BY <1>3 DEF TypeOK, FileFd
  <2>3. QED
    BY <1>1, <1>3, <2>1, <2>2 DEF Closed
<1>4. QED
  BY <1>2, <1>3 DEF Close, FileFd

LEMMA UnlinkEffect ==
    ASSUME TypeOK, NEW c \in Conn, NEW n \in Name, Unlink(c, n)
    PROVE  /\ TypeOK' /\ Replied(c) /\ UNCHANGED <<content, fdtable>>
           /\ reply'.status = "OK" => inode'[n] = None
<1>1. CASE \E e \in Errno \ {"NONE"} : Error(c, e)
  BY <1>1, Refused
<1>2. CASE /\ inode' = [inode EXCEPT ![n] = None] /\ OK(c, 0)
           /\ UNCHANGED <<up, content, fdtable, locked, told>>
  BY <1>2, Granted, OKType DEF TypeOK
<1>3. QED
  BY <1>1, <1>2 DEF Unlink, Errno

LEMMA RenameEffect ==
    ASSUME TypeOK, NEW c \in Conn, NEW m \in Name, NEW n \in Name, Rename(c, m, n)
    PROVE  /\ TypeOK' /\ Replied(c) /\ UNCHANGED <<content, fdtable>>
           /\ reply'.status = "OK" => inode'[n] # None
<1>1. CASE \E e \in Errno \ {"NONE"} : Error(c, e)
  BY <1>1, Refused
<1>2. CASE /\ inode[m] # None /\ OK(c, 0)
           /\ inode' = IF m = n THEN inode
                       ELSE [inode EXCEPT ![n] = inode[m], ![m] = None]
           /\ UNCHANGED <<up, content, fdtable, locked, told>>
  <2>1. inode' \in [Name -> Inode \cup {None}] /\ inode'[n] = inode[m]
    BY <1>2 DEF TypeOK
  <2>2. QED
    BY <1>2, <2>1, Granted, OKType DEF TypeOK
<1>3. QED
  BY <1>1, <1>2 DEF Rename, Errno

LEMMA StatEffect ==
    ASSUME TypeOK, NEW c \in Conn, NEW n \in Name, Stat(c, n)
    PROVE  /\ TypeOK' /\ Replied(c) /\ UNCHANGED <<inode, content, fdtable>>
           /\ reply'.status = "ERROR" => inode[n] = None
<1>1. CASE inode[n] = None /\ Error(c, "ENOENT")
  BY <1>1, Refused DEF Errno
<1>2. CASE /\ inode[n] # None /\ OK(c, Len(content[inode[n]]))
           /\ UNCHANGED <<up, inode, content, fdtable, locked, told>>
  <2>1. Len(content[inode[n]]) \in Nat
    BY <1>2 DEF TypeOK
  <2>2. QED
    BY <1>2, <2>1, Granted, OKType DEF TypeOK
<1>3. QED
  BY <1>1, <1>2, NameAssumption DEF Stat

-----------------------------------------------------------------------------
(* The operators on contents, unit by unit.                                *)

\* A part from the beginning.
LEMMA SubSeqPrefix ==
    ASSUME NEW S, NEW s \in Seq(S), NEW k \in 0 .. Len(s)
    PROVE  /\ SubSeq(s, 1, k) \in Seq(S) /\ Len(SubSeq(s, 1, k)) = k
           /\ \A i \in 1 .. k : SubSeq(s, 1, k)[i] = s[i]
OBVIOUS

\* A part from anywhere.
LEMMA SubSeqPart ==
    ASSUME NEW S, NEW s \in Seq(S), NEW r \in Nat, NEW m \in Nat, r + m <= Len(s)
    PROVE  /\ SubSeq(s, r + 1, r + m) \in Seq(S) /\ Len(SubSeq(s, r + 1, r + m)) = m
           /\ \A k \in 1 .. m : SubSeq(s, r + 1, r + m)[k] = s[r + k]
OBVIOUS

\* What a read returns, unit by unit.
LEMMA SliceElements ==
    ASSUME NEW s \in Seq(Unit), NEW o \in Nat, NEW n \in Nat
    PROVE  /\ Slice(s, o, n) \in Seq(Unit)
           /\ Len(Slice(s, o, n)) =
                IF o >= Len(s) THEN 0 ELSE IF o + n > Len(s) THEN Len(s) - o ELSE n
           /\ \A k \in 1 .. Len(Slice(s, o, n)) : Slice(s, o, n)[k] = s[o + k]
<1> DEFINE e == IF o + n > Len(s) THEN Len(s) ELSE o + n
<1>1. e \in Nat /\ e <= Len(s)
  OBVIOUS
<1>2. Slice(s, o, n) = SubSeq(s, o + 1, e)
  BY DEF Slice
<1> HIDE DEF e
<1>3. /\ SubSeq(s, o + 1, e) \in Seq(Unit)
      /\ Len(SubSeq(s, o + 1, e)) = IF o + 1 <= e THEN e - o ELSE 0
      /\ \A k \in 1 .. Len(SubSeq(s, o + 1, e)) : SubSeq(s, o + 1, e)[k] = s[o + k]
  BY <1>1
<1>4. QED
  BY <1>1, <1>2, <1>3 DEF e

\* What a write leaves, unit by unit.
LEMMA OverwriteElements ==
    ASSUME NEW s \in Seq(Unit), NEW o \in Nat, NEW d \in Seq(Unit), d # <<>>
    PROVE  /\ Overwrite(s, o, d) \in Seq(Unit)
           /\ Len(Overwrite(s, o, d)) =
                IF Len(s) > o + Len(d) THEN Len(s) ELSE o + Len(d)
           /\ \A k \in 1 .. Len(Overwrite(s, o, d)) :
                 Overwrite(s, o, d)[k] =
                    IF k > o /\ k <= o + Len(d) THEN d[k - o]
                    ELSE IF k <= Len(s) THEN s[k] ELSE Zero
<1> DEFINE n == IF Len(s) > o + Len(d) THEN Len(s) ELSE o + Len(d)
<1>1. n \in Nat
  OBVIOUS
<1>2. Overwrite(s, o, d) = [k \in 1 .. n |-> IF k > o /\ k <= o + Len(d) THEN d[k - o]
                             ELSE IF k <= Len(s) THEN s[k] ELSE Zero]
  BY DEF Overwrite
<1>3. Overwrite(s, o, d) \in Seq(Unit) /\ DOMAIN Overwrite(s, o, d) = 1 .. n
  BY <1>2, OverwriteType
<1>4. Len(Overwrite(s, o, d)) = n
  BY <1>1, <1>3
<1>5. QED
  BY <1>2, <1>3, <1>4

\* A write by an open descriptor: all, or a part that is not empty, or
\* nothing and an error.
LEMMA PwriteResult ==
    ASSUME NEW c \in Conn, NEW f \in FileFd, NEW o, NEW d, Pwrite(c, f, o, d)
    PROVE  \/ /\ \E e \in Errno \ {"NONE"} : Error(c, e)
              /\ reply'.status = "ERROR" /\ UNCHANGED <<inode, content, fdtable>>
           \/ /\ reply'.status = "OK" /\ OK(c, 0) /\ IsOpen(c, f)
              /\ Len(d) <= MaxData /\ o + Len(d) <= MaxSize
              /\ \E n \in 0 .. Len(d) :
                    /\ d # <<>> => n > 0
                    /\ content' = [content EXCEPT ![fdtable[c][f].ino] =
                                     Overwrite(@, o, SubSeq(d, 1, n))]
              /\ UNCHANGED <<up, inode, fdtable, locked, told>>
BY DEF Pwrite, Error, OK, Answer, Errno, FileFd

\* A read of a descriptor: a part of the file, or an error.
LEMMA PreadResult ==
    ASSUME NEW c \in Conn, NEW f \in FileFd, NEW o, NEW n, Pread(c, f, o, n)
    PROVE  /\ UNCHANGED <<inode, content, fdtable>>
           /\ \/ reply'.status = "ERROR"
              \/ /\ reply'.status = "OK" /\ IsOpen(c, f)
                 /\ reply'.data = Slice(content[fdtable[c][f].ino], o, n)
BY DEF Pread, Error, Answer, FileFd

LEMMA LockResult ==
    ASSUME NEW c, NEW f, NEW t, Lock(c, f, t)
    PROVE  UNCHANGED <<up, inode, content, fdtable>>
BY DEF Lock, OnOwn, Error

\* open empties a file or leaves it alone.
LEMMA OpenContents ==
    ASSUME TypeOK, NEW c \in Conn, NEW n \in Name, NEW m, Open(c, n, m)
    PROVE  \A i \in Inode : content'[i] = content[i] \/ content'[i] = <<>>
<1>1. CASE UNCHANGED content
  BY <1>1
<1>2. CASE \E i \in Inode : content' = [content EXCEPT ![i] = <<>>]
  BY <1>2 DEF TypeOK
<1>3. QED
  BY <1>1, <1>2 DEF Open, Error, FreeInodes, TypeOK
=============================================================================
