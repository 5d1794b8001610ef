---------------------------- MODULE FuseFsProofs ----------------------------
(***************************************************************************)
(* Proofs about FuseFs for any number of connections, open files, names,   *)
(* descriptors and requests.                                               *)
(***************************************************************************)
EXTENDS FuseFs, ServerFilesProofs, TLAPS

-----------------------------------------------------------------------------
(* The inductive invariant.                                                *)

HandleRecord == [fh : FileFd, flags : Flags, created : BOOLEAN, ino : Inode]

NodeRecord == [type : {"none", "DIRECTORY", "LINK", "UNKNOWN"}, len : Nat]

FsTypeOK ==
    /\ node \in [Node -> NodeRecord]
    /\ handle \in [Handle -> HandleRecord \cup {Free}]
    /\ pc \in {"idle", "reply", "create", "ftruncate", "close"}
    /\ rv \in Int /\ meant \in Nat
    /\ lost \subseteq FileFd

\* Descriptors that nobody knows of stay open: none of them is handed out
\* again.
LostOpen == \A f \in lost : fdtable[M][f].ino # None

\* Between its requests truncate has a descriptor that is nobody else's; if
\* no other connection acts, it is open on the file that has the name, and
\* once that has been cut it stays so.
TruncateInv ==
    /\ pc \in {"ftruncate", "close"} =>
          /\ asked.op = "truncate" /\ asked.arg \in 0 .. MaxSize
          /\ asked.name \in Name
          /\ fd \in FileFd /\ fdtable[M][fd].ino # None
          /\ fd \notin lost /\ \A h \in OpenHandle : handle[h].fh # fd
          /\ quiet => inode[asked.name] = fdtable[M][fd].ino
    /\ pc = "close" =>
          /\ rv = 0 - meant
          /\ quiet /\ rv = 0 => Len(content[inode[asked.name]]) = asked.arg

\* A lookup that is answered by ENOENT has not found the name, and it is
\* still missing when the create follows, unless another connection acted.
LookupInv ==
    /\ pc = "reply" /\ asked.op = "getattr" /\ asked.name \in Name
          /\ ret = -Code["ENOENT"] => inode[asked.name] = None
    /\ pc = "create" =>
          asked.name \in Name /\ (quiet => inode[asked.name] = None)

FdPart == HandlesValid /\ DescriptorsAccounted /\ LostOpen /\ TruncateInv

FuseInv ==
    /\ TypeOK /\ FsTypeOK /\ FdPart /\ LookupInv
    /\ ErrnoTold

-----------------------------------------------------------------------------
(* The numbers of the errors, and the other connections.                   *)

LEMMA CodeFacts ==
    /\ Code["NONE"] = 0 /\ Code["EPERM"] = 1 /\ Code["ENOENT"] = 2
    /\ Code["ERANGE"] = 34 /\ Code["ENOATTR"] = 61
    /\ \A e \in Errno \ {"NONE"} : Code[e] \in Nat /\ Code[e] > 1
    /\ \A e \in Errno : Code[e] = 2 => e = "ENOENT"
BY DEF Code, Errno

\* What another connection does is no reply to the mount and touches none
\* of its descriptors.
LEMMA OtherEffect ==
    ASSUME TypeOK, NEW c \in Conn \ {M}, OtherCalls(c)
    PROVE  TypeOK' /\ reply'.conn # M /\ fdtable'[M] = fdtable[M]
<1>1. M \in Conn /\ c \in Conn /\ c # M
  BY FuseAssumption
<1>2. CASE \E n \in Name : Open(c, n, {"CREAT", "WRONLY"})
  <2>1. PICK n \in Name : Open(c, n, {"CREAT", "WRONLY"})
    BY <1>2
  <2>2. /\ TypeOK' /\ Replied(c)
        /\ reply'.status = "ERROR" => UNCHANGED <<inode, content, fdtable>>
        /\ reply'.status = "OK" =>
              fdtable' = [fdtable EXCEPT ![c][reply'.val] =
                            OpenAs(inode'[n], {"CREAT", "WRONLY"})]
    BY <1>1, <2>1, OpenResult
  <2>3. QED
    BY <1>1, <2>2 DEF Replied, TypeOK
<1>3. CASE \E f \in FileFd, d \in Data : Pwrite(c, f, 0, <<d>>)
  <2>1. PICK f \in FileFd, d \in Data : Pwrite(c, f, 0, <<d>>)
    BY <1>3
  <2>2. <<d>> \in Seq(Unit) /\ 0 \in Nat
    BY DEF Unit
  <2>3. TypeOK' /\ Replied(c) /\ UNCHANGED fdtable
    BY <1>1, <2>1, <2>2, PwriteEffect
  <2>4. QED
    BY <1>1, <2>3 DEF Replied
<1>4. CASE \E f \in FileFd : Close(c, f)
  BY <1>1, <1>4, CloseResult DEF Replied
<1>5. CASE NameCalls(c)
  <2>1. TypeOK'
    BY <1>1, <1>5, NameStep
  <2>2. reply'.conn = c /\ UNCHANGED fdtable
    BY <1>5 DEF NameCalls, Unlink, Rename, Error, OK, Answer
  <2>3. QED
    BY <1>1, <2>1, <2>2
<1>6. QED
  BY <1>2, <1>3, <1>4, <1>5 DEF OtherCalls

-----------------------------------------------------------------------------
(* What the requests on a file do, exactly.                                *)

LEMMA FtruncateExact ==
    ASSUME NEW c \in Conn, NEW f \in FileFd, NEW n, Ftruncate(c, f, n),
           reply'.status = "OK"
    PROVE  content' = [content EXCEPT ![fdtable[c][f].ino] = Resize(@, n)]
BY DEF Ftruncate, Error, Answer, FileFd

LEMMA FallocateExact ==
    ASSUME NEW c \in Conn, NEW f \in FileFd, NEW m, NEW o, NEW n,
           Fallocate(c, f, m, o, n), reply'.status = "OK"
    PROVE  content' = [content EXCEPT ![fdtable[c][f].ino] = Fallocated(@, m, o, n)]
BY DEF Fallocate, Error, Answer, FileFd

LEMMA FsyncExact ==
    ASSUME NEW c \in Conn, NEW f \in FileFd, Fsync(c, f), reply'.status = "OK"
    PROVE  reply' = Answer(c, "OK", "NONE", 0, <<>>)
BY DEF Fsync, Error, OK, Answer, FileFd

LEMMA UnlinkExact ==
    ASSUME NEW c, NEW n \in Name, Unlink(c, n), reply'.status = "OK"
    PROVE  inode[n] # None
BY NameAssumption DEF Unlink, Error, Answer

LEMMA RenameExact ==
    ASSUME TypeOK, NEW c, NEW m \in Name, NEW n \in Name, Rename(c, m, n),
           reply'.status = "OK"
    PROVE  /\ inode[m] # None /\ inode'[n] = inode[m]
           /\ m # n => inode'[m] = None
<1>1. /\ inode[m] # None
      /\ inode' = IF m = n THEN inode
                  ELSE [inode EXCEPT ![n] = inode[m], ![m] = None]
  BY NameAssumption DEF Rename, Error, Answer
<1>2. inode \in [Name -> Inode \cup {None}]
  BY DEF TypeOK
<1>3. QED
  BY <1>1, <1>2

LEMMA StatExact ==
    ASSUME NEW c, NEW n \in Name, Stat(c, n), reply'.status = "OK"
    PROVE  inode[n] # None
BY NameAssumption DEF Stat, Error, Answer

-----------------------------------------------------------------------------
(* What callbacks have in common.                                          *)

\* What a step may cut: ShortenedOnlyIfAsked, of one step.
CutOnlyIfAsked ==
    \A i \in Inode \ FreeInodes :
        Len(content'[i]) < Len(content[i]) /\ reply'.conn = M =>
            \/ asked'.op \in {"truncate", "ftruncate"}
            \/ asked'.op = "create" /\ ~quiet

\* What the application is told: AcknowledgedEffect, of one step.
Acknowledged ==
    pc # "reply" /\ pc' = "reply" /\ Told' = 0 =>
        FileDone(asked') /\ NameDone(asked') /\ NodeDone(asked')

FileOps == {"read", "write", "ftruncate", "fallocate", "fsync", "release"}
NameOps == {"open", "create", "truncate", "rename", "utimens"}
NodeOps == {"mkdir", "rmdir", "symlink", "statfs", "readlink"}
BothOps == {"getattr", "unlink"}

\* A call is on an open file, on the name of a file, or on a node.
LEMMA FileAcknowledged ==
    ASSUME asked'.op \in FileOps, Told' = 0 => FileDone(asked')
    PROVE  Acknowledged
<1>1. NameDone(asked') /\ NodeDone(asked')
  BY DEF NameDone, NodeDone, FileOps
<1>2. QED
  BY <1>1 DEF Acknowledged

LEMMA NameAcknowledged ==
    ASSUME asked'.op \in NameOps \cup BothOps, asked'.name \notin Node,
           Told' = 0 => NameDone(asked')
    PROVE  Acknowledged
<1>1. FileDone(asked') /\ NodeDone(asked')
  BY DEF FileDone, NodeDone, NameOps, BothOps
<1>2. QED
  BY <1>1 DEF Acknowledged

LEMMA NodeAcknowledged ==
    ASSUME asked'.op \in NodeOps \cup BothOps, asked'.name \notin Name,
           Told' = 0 => NodeDone(asked')
    PROVE  Acknowledged
<1>1. FileDone(asked') /\ NameDone(asked')
  BY DEF FileDone, NameDone, NodeOps, BothOps
<1>2. QED
  BY <1>1 DEF Acknowledged

LEMMA NotEnded ==
    ASSUME pc' # "reply" \/ pc = "reply"
    PROVE  Acknowledged
BY DEF Acknowledged

\* Contents that only grow are not cut.
LEMMA Grown ==
    ASSUME TypeOK, TypeOK', \A i \in Inode \ FreeInodes : Len(content'[i]) >= Len(content[i])
    PROVE  CutOnlyIfAsked
<1>1. \A i \in Inode : Len(content[i]) \in Nat /\ Len(content'[i]) \in Nat
  BY DEF TypeOK
<1>2. QED
  BY <1>1 DEF CutOnlyIfAsked

LEMMA Untouched ==
    ASSUME TypeOK, UNCHANGED content
    PROVE  CutOnlyIfAsked
<1>1. \A i \in Inode : Len(content[i]) \in Nat
  BY DEF TypeOK
<1>2. QED
  BY <1>1 DEF CutOnlyIfAsked

\* A callback that opens and closes nothing.
LEMMA PlainCore ==
    ASSUME FuseInv, NEW a, Callback(a), UNCHANGED <<handle, lost>>,
           fdtable'[M] = fdtable[M], TypeOK', node' \in [Node -> NodeRecord],
           meant' \in Nat
    PROVE  FsTypeOK' /\ FdPart' /\ (a.op # "getattr" => LookupInv')
<1>1. pc' = "reply" /\ asked' = a /\ UNCHANGED <<fd, rv>>
  BY DEF Callback, Called
<1>2. FsTypeOK'
  BY <1>1 DEF FuseInv, FsTypeOK
<1>3. HandlesValid' /\ LostOpen'
  BY DEF FuseInv, FdPart, HandlesValid, LostOpen, OpenHandle
<1>4. DescriptorsAccounted'
  BY DEF FuseInv, FdPart, DescriptorsAccounted, OpenHandle, IsOpen, Callback, Called
<1>5. TruncateInv' /\ (a.op # "getattr" => LookupInv')
  BY <1>1 DEF TruncateInv, LookupInv
<1>6. QED
  BY <1>2, <1>3, <1>4, <1>5 DEF FdPart

\* What the application is told of what a callback returns.
LEMMA ToldFacts ==
    ASSUME ret' \in Int
    PROVE  /\ ret' <= 0 => Told' = 0 - ret'
           /\ ret' > 0 /\ asked'.op \in {"read", "write"} => Told' = 0
           /\ ret' > 0 /\ asked'.op \notin {"read", "write"} => Told' = 34
<1>1. Code["ERANGE"] = 34
  BY CodeFacts
<1>2. ret' <= 0 => Told' = -ret'
  BY Zenon DEF Told
<1>3. ~(ret' <= 0) /\ asked'.op \in {"read", "write"} => Told' = 0
  BY Zenon DEF Told
<1>4. ~(ret' <= 0) /\ asked'.op \notin {"read", "write"} => Told' = 34
  BY <1>1, Zenon DEF Told
<1>5. QED
  <2>1. ret' <= 0 => Told' = 0 - ret'
    BY <1>2
  <2>2. QED
    BY <1>3, <1>4, <2>1

LEMMA ToldErrno ==
    ASSUME NEW m \in Nat, ret' = 0 - m
    PROVE  Told' = m
BY ToldFacts

\* The errno of the request comes out as the errno the application is told,
\* and no error as success.
LEMMA Tells ==
    ASSUME NEW got \in BOOLEAN, Means(got), got => Replied(M), NEW v \in Nat,
           ret' = IF got /\ reply'.status = "OK" THEN v ELSE Result(got),
           v = 0 \/ asked'.op \in {"read", "write"},
           asked'.op \notin {"fallocate", "getattr"}
    PROVE  /\ meant' \in Nat /\ ErrnoTold'
           /\ Told' = 0 => got /\ reply'.status = "OK"
<1>1. CASE got /\ reply'.status = "OK"
  <2>1. meant' = 0 /\ ret' = v
    BY <1>1, CodeFacts DEF Means, Replied
  <2>2. Told' = 0
    BY <2>1, ToldFacts
  <2>3. QED
    BY <1>1, <2>1, <2>2 DEF ErrnoTold
<1>2. CASE got /\ reply'.status # "OK"
  <2>1. /\ meant' = Code[reply'.errno] /\ ret' = -Code[reply'.errno]
        /\ reply'.errno \in Errno \ {"NONE"}
    BY <1>2 DEF Means, Replied, Result
  <2>2. meant' \in Nat /\ meant' > 1 /\ ret' = 0 - meant'
    BY <2>1, CodeFacts
  <2>3. Told' = meant'
    BY <2>2, ToldErrno, Zenon
  <2>4. QED
    BY <2>2, <2>3 DEF ErrnoTold
<1>3. CASE ~got
  <2>1. meant' = 1 /\ ret' = -1
    BY <1>3, CodeFacts DEF Means, Result
  <2>2. Told' = 1
    BY <2>1, ToldFacts
  <2>3. QED
    BY <2>1, <2>2 DEF ErrnoTold
<1>4. QED
  BY <1>1, <1>2, <1>3

LEMMA TellsResult ==
    ASSUME NEW got \in BOOLEAN, Means(got), got => Replied(M), ret' = Result(got),
           asked'.op \notin {"fallocate", "getattr"}
    PROVE  /\ meant' \in Nat /\ ErrnoTold'
           /\ Told' = 0 => got /\ reply'.status = "OK"
<1>1. ret' = IF got /\ reply'.status = "OK" THEN 0 ELSE Result(got)
  BY CodeFacts DEF Replied, Result
<1>2. QED
  BY <1>1, Tells

\* The kernel's open files are records with the descriptors of files.
LEMMA HandleFds ==
    ASSUME FuseInv, NEW h \in OpenHandle
    PROVE  /\ h \in Handle /\ handle[h] \in HandleRecord /\ handle[h].fh \in FileFd
           /\ handle[h].ino \in Inode /\ fdtable[M][handle[h].fh].ino = handle[h].ino
           /\ M \in Conn
<1>1. h \in Handle /\ handle[h] \in HandleRecord
  BY DEF OpenHandle, FuseInv, FsTypeOK
<1>2. fdtable[M][handle[h].fh].ino = handle[h].ino
  BY DEF FuseInv, FdPart, HandlesValid
<1>3. QED
  BY <1>1, <1>2, FuseAssumption DEF HandleRecord

-----------------------------------------------------------------------------
(* The callbacks on open files.                                            *)

LEMMA ReadCallback ==
    ASSUME FuseInv, NEW h \in OpenHandle, icbinnfs_read(h, 0, MaxData)
    PROVE  FuseInv' /\ CutOnlyIfAsked /\ Acknowledged
<1> DEFINE a == Ask("read", None, h, [offset |-> 0, count |-> MaxData])
<1>1. PICK got \in BOOLEAN :
         /\ Request(Pread(M, handle[h].fh, 0, MaxData), got)
         /\ ret' = IF got /\ reply'.status = "OK" THEN Len(reply'.data)
                   ELSE Result(got)
  BY DEF icbinnfs_read
<1>2. /\ Callback(a) /\ UNCHANGED handle /\ asked' = a /\ pc' = "reply"
      /\ a.op = "read" /\ a.h = h /\ a.arg.offset = 0 /\ a.arg.count = MaxData
  BY DEF icbinnfs_read, Plain, Callback, Called, Ask
<1>3. /\ TypeOK /\ handle[h].fh \in FileFd /\ M \in Conn /\ MaxData \in Nat /\ 0 \in Nat
      /\ fdtable[M][handle[h].fh].ino = handle[h].ino
  BY HandleFds, SizeAssumption DEF FuseInv
<1>4. UNCHANGED <<node, lost>> /\ Means(got)
  BY <1>1 DEF Request
<1>5. /\ TypeOK' /\ UNCHANGED <<inode, content, fdtable>>
      /\ got => Replied(M) /\ Len(reply'.data) \in Nat
      /\ got /\ reply'.status = "OK" =>
            reply'.data = Slice(content[handle[h].ino], 0, MaxData)
  <2>1. CASE Pread(M, handle[h].fh, 0, MaxData)
    BY <1>3, <2>1, PreadEffect, PreadResult
  <2>2. CASE ~got /\ UNCHANGED vars
    BY <1>3, <2>2 DEF vars, TypeOK
  <2>3. QED
    BY <1>1, <2>1, <2>2 DEF Request
<1> HIDE DEF a
<1>6. /\ meant' \in Nat /\ ErrnoTold'
      /\ Told' = 0 => got /\ reply'.status = "OK"
  <2>1. CASE got
    BY <1>1, <1>2, <1>4, <1>5, <2>1, Tells
  <2>2. CASE ~got
    BY <1>1, <1>2, <1>4, <1>5, <2>2, TellsResult
  <2>3. QED
    BY <2>1, <2>2
<1>7. FsTypeOK' /\ FdPart' /\ LookupInv'
  BY <1>2, <1>4, <1>5, <1>6, PlainCore DEF FuseInv, FsTypeOK
<1>8. Acknowledged
  <2>1. Told' = 0 => FileDone(asked')
    BY <1>1, <1>2, <1>5, <1>6 DEF FileDone
  <2>2. QED
    BY <1>2, <2>1, FileAcknowledged DEF FileOps
<1>9. CutOnlyIfAsked
  BY <1>3, <1>5, Untouched
<1>10. QED
  BY <1>5, <1>6, <1>7, <1>8, <1>9 DEF FuseInv

LEMMA WriteCallback ==
    ASSUME FuseInv, NEW h \in OpenHandle, NEW d \in Bytes(MaxData) \ {<<>>},
           icbinnfs_write(h, 0, d)
    PROVE  FuseInv' /\ CutOnlyIfAsked /\ Acknowledged
<1> DEFINE a == Ask("write", None, h, [offset |-> 0, data |-> d])
<1>1. PICK got \in BOOLEAN :
         /\ Request(Pwrite(M, handle[h].fh, 0, d), got)
         /\ ret' = IF got /\ reply'.status = "OK" THEN Len(d) ELSE Result(got)
  BY DEF icbinnfs_write
<1>2. /\ Callback(a) /\ UNCHANGED handle /\ asked' = a /\ pc' = "reply"
      /\ a.op = "write" /\ a.h = h /\ a.arg.offset = 0 /\ a.arg.data = d
  BY DEF icbinnfs_write, Plain, Callback, Called, Ask
<1>3. /\ TypeOK /\ handle[h].fh \in FileFd /\ M \in Conn /\ 0 \in Nat
      /\ fdtable[M][handle[h].fh].ino = handle[h].ino
  BY HandleFds DEF FuseInv
<1>4. d \in Seq(Unit) /\ Len(d) \in Nat /\ d # <<>>
  BY BytesType, SizeAssumption
<1>5. UNCHANGED <<node, lost>> /\ Means(got)
  BY <1>1 DEF Request
<1> DEFINE Stored ==
      \E k \in 1 .. Len(d) :
          content' = [content EXCEPT ![handle[h].ino] =
                        Overwrite(@, 0, SubSeq(d, 1, k))]
<1>6. /\ TypeOK' /\ UNCHANGED <<inode, fdtable>>
      /\ got => Replied(M)
      /\ \A i \in Inode : Len(content'[i]) >= Len(content[i])
      /\ got /\ reply'.status = "OK" => Stored
  <2>1. CASE Pwrite(M, handle[h].fh, 0, d)
    <3>1. reply'.status = "OK" => Stored
      <4> SUFFICES ASSUME reply'.status = "OK" PROVE Stored
        OBVIOUS
      <4>1. PICK n \in 0 .. Len(d) :
               /\ d # <<>> => n > 0
               /\ content' = [content EXCEPT ![fdtable[M][handle[h].fh].ino] =
                                Overwrite(@, 0, SubSeq(d, 1, n))]
        BY <1>3, <2>1, PwriteResult
      <4>2. n \in 1 .. Len(d)
        BY <1>4, <4>1
      <4>3. QED
        BY <1>3, <4>1, <4>2
    <3>2. /\ TypeOK' /\ UNCHANGED <<inode, fdtable>> /\ Replied(M)
          /\ \A i \in Inode : Len(content'[i]) >= Len(content[i])
      BY <1>3, <1>4, <2>1, PwriteEffect
    <3>3. QED
      BY <3>1, <3>2
  <2>2. CASE ~got /\ UNCHANGED vars
    BY <1>3, <2>2 DEF vars, TypeOK
  <2>3. QED
    BY <1>1, <2>1, <2>2 DEF Request
<1> HIDE DEF a, Stored
<1>7. /\ meant' \in Nat /\ ErrnoTold'
      /\ Told' = 0 => got /\ reply'.status = "OK"
  BY <1>1, <1>2, <1>4, <1>5, <1>6, Tells
<1>8. FsTypeOK' /\ FdPart' /\ LookupInv'
  BY <1>2, <1>5, <1>6, <1>7, PlainCore DEF FuseInv, FsTypeOK
<1>9. Acknowledged
  <2>1. Told' = 0 => FileDone(asked')
    BY <1>1, <1>2, <1>6, <1>7 DEF FileDone, Stored
  <2>2. QED
    BY <1>2, <2>1, FileAcknowledged DEF FileOps
<1>10. CutOnlyIfAsked
  BY <1>3, <1>6, Grown
<1>11. QED
  BY <1>6, <1>7, <1>8, <1>9, <1>10 DEF FuseInv

LEMMA FtruncateCallback ==
    ASSUME FuseInv, NEW h \in OpenHandle, NEW n \in 0 .. MaxSize,
           icbinnfs_ftruncate(h, n)
    PROVE  FuseInv' /\ CutOnlyIfAsked /\ Acknowledged
<1> DEFINE a == Ask("ftruncate", None, h, n)
<1>1. PICK got \in BOOLEAN :
         Request(Ftruncate(M, handle[h].fh, n), got) /\ ret' = Result(got)
  BY DEF icbinnfs_ftruncate, icbinn_ftruncate
<1>2. /\ Callback(a) /\ UNCHANGED handle /\ asked' = a /\ pc' = "reply"
      /\ a.op = "ftruncate" /\ a.h = h /\ a.arg = n
  BY DEF icbinnfs_ftruncate, Plain, Callback, Called, Ask
<1>3. /\ TypeOK /\ handle[h].fh \in FileFd /\ M \in Conn /\ n \in Nat
      /\ fdtable[M][handle[h].fh].ino = handle[h].ino
  BY HandleFds DEF FuseInv
<1>4. UNCHANGED <<node, lost>> /\ Means(got)
  BY <1>1 DEF Request
<1>5. /\ TypeOK' /\ UNCHANGED <<inode, fdtable>>
      /\ got => Replied(M)
      /\ got /\ reply'.status = "OK" =>
            content' = [content EXCEPT ![handle[h].ino] = Resize(@, n)]
  <2>1. CASE Ftruncate(M, handle[h].fh, n)
    BY <1>3, <2>1, FtruncateEffect, FtruncateExact
  <2>2. CASE ~got /\ UNCHANGED vars
    BY <1>3, <2>2 DEF vars, TypeOK
  <2>3. QED
    BY <1>1, <2>1, <2>2 DEF Request
<1> HIDE DEF a
<1>6. /\ meant' \in Nat /\ ErrnoTold'
      /\ Told' = 0 => got /\ reply'.status = "OK"
  BY <1>1, <1>2, <1>4, <1>5, TellsResult
<1>7. FsTypeOK' /\ FdPart' /\ LookupInv'
  BY <1>2, <1>4, <1>5, <1>6, PlainCore DEF FuseInv, FsTypeOK
<1>8. Acknowledged
  <2>1. Told' = 0 => FileDone(asked')
    BY <1>2, <1>5, <1>6 DEF FileDone
  <2>2. QED
    BY <1>2, <2>1, FileAcknowledged DEF FileOps
<1>9. CutOnlyIfAsked
  BY <1>2 DEF CutOnlyIfAsked
<1>10. QED
  BY <1>5, <1>6, <1>7, <1>8, <1>9 DEF FuseInv

\* fallocate's errno comes out positive: libfuse makes ERANGE of it.
LEMMA FallocateCallback ==
    ASSUME FuseInv, NEW h \in OpenHandle, NEW m \in KernelModes, NEW n \in 0 .. MaxSize,
           icbinnfs_fallocate(h, m, 0, n)
    PROVE  FuseInv' /\ CutOnlyIfAsked /\ Acknowledged
<1> DEFINE a == Ask("fallocate", None, h, [mode |-> m, offset |-> 0, length |-> n])
<1>1. PICK got \in BOOLEAN :
         /\ Request(Fallocate(M, handle[h].fh, m, 0, n), got)
         /\ ret' = IF got THEN Code[reply'.errno] ELSE -1
  BY DEF icbinnfs_fallocate, icbinn_fallocate, fallocate_result
<1>2. /\ Callback(a) /\ UNCHANGED handle /\ asked' = a /\ pc' = "reply"
      /\ a.op = "fallocate" /\ a.h = h
      /\ a.arg.mode = m /\ a.arg.offset = 0 /\ a.arg.length = n
  BY DEF icbinnfs_fallocate, Plain, Callback, Called, Ask
<1>3. /\ TypeOK /\ handle[h].fh \in FileFd /\ M \in Conn /\ n \in Nat /\ 0 \in Nat
      /\ fdtable[M][handle[h].fh].ino = handle[h].ino
      /\ m \in FallocMode /\ m # "COLLAPSE_RANGE"
  BY HandleFds DEF FuseInv, KernelModes, FallocMode
<1>4. UNCHANGED <<node, lost>> /\ Means(got)
  BY <1>1 DEF Request
<1>5. /\ TypeOK' /\ UNCHANGED <<inode, fdtable>>
      /\ got => Replied(M)
      /\ \A i \in Inode : Len(content'[i]) >= Len(content[i])
      /\ got /\ reply'.status = "OK" =>
            content' = [content EXCEPT ![handle[h].ino] = Fallocated(@, m, 0, n)]
  <2>1. CASE Fallocate(M, handle[h].fh, m, 0, n)
    <3>1. /\ TypeOK' /\ UNCHANGED <<inode, fdtable>> /\ Replied(M)
          /\ \A i \in Inode : Len(content'[i]) >= Len(content[i])
      BY <1>3, <2>1, FallocateEffect
    <3>2. reply'.status = "OK" =>
             content' = [content EXCEPT ![handle[h].ino] = Fallocated(@, m, 0, n)]
      BY <1>3, <2>1, FallocateExact
    <3>3. QED
      BY <3>1, <3>2
  <2>2. CASE ~got /\ UNCHANGED vars
    BY <1>3, <2>2 DEF vars, TypeOK
  <2>3. QED
    BY <1>1, <2>1, <2>2 DEF Request
<1> HIDE DEF a
<1>6. /\ meant' \in Nat /\ ErrnoTold'
      /\ Told' = 0 => got /\ reply'.status = "OK"
  <2>1. CASE got /\ reply'.status = "OK"
    <3>1. meant' = 0 /\ ret' = 0
      BY <1>1, <1>4, <1>5, <2>1, CodeFacts DEF Means, Replied
    <3>2. Told' = 0
      BY <3>1, ToldFacts
    <3>3. QED
      BY <1>2, <2>1, <3>1, <3>2, CodeFacts DEF ErrnoTold
  <2>2. CASE got /\ reply'.status # "OK"
    <3>1. meant' \in Nat /\ meant' > 1 /\ ret' = meant'
      BY <1>1, <1>4, <1>5, <2>2, CodeFacts DEF Means, Replied
    <3>2. Told' = 34
      BY <1>2, <3>1, ToldFacts
    <3>3. QED
      BY <1>2, <3>1, <3>2, CodeFacts DEF ErrnoTold
  <2>3. CASE ~got
    <3>1. meant' = 1 /\ ret' = -1
      BY <1>1, <1>4, <2>3, CodeFacts DEF Means
    <3>2. Told' = 1
      BY <3>1, ToldFacts
    <3>3. QED
      BY <1>2, <3>1, <3>2, CodeFacts DEF ErrnoTold
  <2>4. QED
    BY <2>1, <2>2, <2>3
<1>7. FsTypeOK' /\ FdPart' /\ LookupInv'
  BY <1>2, <1>4, <1>5, <1>6, PlainCore DEF FuseInv, FsTypeOK
<1>8. Acknowledged
  <2>1. Told' = 0 => FileDone(asked')
    BY <1>2, <1>5, <1>6 DEF FileDone
  <2>2. QED
    BY <1>2, <2>1, FileAcknowledged DEF FileOps
<1>9. CutOnlyIfAsked
  BY <1>3, <1>5, Grown
<1>10. QED
  BY <1>5, <1>6, <1>7, <1>8, <1>9 DEF FuseInv

LEMMA FsyncCallback ==
    ASSUME FuseInv, NEW h \in OpenHandle, icbinnfs_fsync(h)
    PROVE  FuseInv' /\ CutOnlyIfAsked /\ Acknowledged
<1> DEFINE a == Ask("fsync", None, h, 0)
<1>1. PICK got \in BOOLEAN :
         Request(Fsync(M, handle[h].fh), got) /\ ret' = Result(got)
  BY DEF icbinnfs_fsync, icbinn_fsync
<1>2. /\ Callback(a) /\ UNCHANGED handle /\ asked' = a /\ pc' = "reply"
      /\ a.op = "fsync" /\ a.h = h
  BY DEF icbinnfs_fsync, Plain, Callback, Called, Ask
<1>3. /\ TypeOK /\ M \in Conn /\ handle[h].fh \in FileFd
      /\ fdtable[M][handle[h].fh].ino = handle[h].ino
  BY HandleFds DEF FuseInv
<1>4. UNCHANGED <<node, lost>> /\ Means(got)
  BY <1>1 DEF Request
<1>5. /\ TypeOK' /\ UNCHANGED <<inode, content, fdtable>>
      /\ got => Replied(M)
      /\ got /\ reply'.status = "OK" => reply' = Answer(M, "OK", "NONE", 0, <<>>)
  <2>1. CASE Fsync(M, handle[h].fh)
    BY <1>3, <2>1, FsyncEffect, FsyncExact
  <2>2. CASE ~got /\ UNCHANGED vars
    BY <1>3, <2>2 DEF vars, TypeOK
  <2>3. QED
    BY <1>1, <2>1, <2>2 DEF Request
<1> HIDE DEF a
<1>6. /\ meant' \in Nat /\ ErrnoTold'
      /\ Told' = 0 => got /\ reply'.status = "OK"
  BY <1>1, <1>2, <1>4, <1>5, TellsResult
<1>7. FsTypeOK' /\ FdPart' /\ LookupInv'
  BY <1>2, <1>4, <1>5, <1>6, PlainCore DEF FuseInv, FsTypeOK
<1>8. Acknowledged
  <2>1. Told' = 0 => FileDone(asked')
    BY <1>2, <1>3, <1>5, <1>6 DEF FileDone
  <2>2. QED
    BY <1>2, <2>1, FileAcknowledged DEF FileOps
<1>9. CutOnlyIfAsked
  BY <1>3, <1>5, Untouched
<1>10. QED
  BY <1>5, <1>6, <1>7, <1>8, <1>9 DEF FuseInv

-----------------------------------------------------------------------------
(* Descriptors that come and go.                                           *)

\* No handler of the mount changes and no descriptor comes or goes.
LEMMA FdsKept ==
    ASSUME FuseInv, UNCHANGED <<handle, lost>>, fdtable'[M] = fdtable[M],
           pc \notin {"ftruncate", "close"}
    PROVE  HandlesValid' /\ DescriptorsAccounted' /\ LostOpen'
<1>1. HandlesValid' /\ LostOpen'
  BY DEF FuseInv, FdPart, HandlesValid, LostOpen, OpenHandle
<1>2. DescriptorsAccounted'
  BY DEF FuseInv, FdPart, DescriptorsAccounted, OpenHandle, IsOpen
<1>3. QED
  BY <1>1, <1>2

\* The descriptor f, closed until now, is opened as e says, and nothing else
\* happens to the mount's descriptors.
Installed(f, e) ==
    /\ f \in FileFd /\ fdtable[M][f].ino = None
    /\ fdtable'[M][f] = e /\ e.ino \in Inode
    /\ \A g \in Fd : g # f => fdtable'[M][g] = fdtable[M][g]

\* A descriptor that is closed belongs to nobody.
LEMMA NewIsUnused ==
    ASSUME FuseInv, NEW f \in FileFd, fdtable[M][f].ino = None
    PROVE  f \notin lost /\ \A h \in OpenHandle : handle[h].fh # f
<1>1. f \notin lost
  BY DEF FuseInv, FdPart, LostOpen
<1>2. \A h \in OpenHandle : handle[h].fh # f
  BY HandleFds, NoneAssumption
<1>3. QED
  BY <1>1, <1>2

\* It becomes one of the kernel's open files ...
LEMMA FdsGiven ==
    ASSUME FuseInv, NEW f, NEW e, Installed(f, e),
           NEW h \in Handle, handle[h] = Free, NEW r \in HandleRecord,
           handle' = [handle EXCEPT ![h] = r], r.fh = f, r.ino = e.ino,
           e.read = ("WRONLY" \notin r.flags /\ ~r.created),
           e.write = ({"WRONLY", "RDWR"} \cap r.flags # {} \/ r.created),
           UNCHANGED lost, pc \notin {"ftruncate", "close"}
    PROVE  HandlesValid' /\ DescriptorsAccounted' /\ LostOpen'
<1>1. f \in FileFd /\ f \in Fd /\ f \notin lost /\ \A g \in OpenHandle : handle[g].fh # f
  BY NewIsUnused DEF Installed, FileFd
<1>2. /\ handle'[h] = r /\ \A g \in Handle : g # h => handle'[g] = handle[g]
      /\ r # Free
  BY NoneAssumption DEF FuseInv, FsTypeOK, HandleRecord, Free
<1>3. OpenHandle' = OpenHandle \cup {h} /\ h \notin OpenHandle
  BY <1>2 DEF OpenHandle
<1>4. ASSUME NEW g \in OpenHandle
      PROVE  /\ handle'[g] = handle[g] /\ handle[g].fh \in Fd
             /\ fdtable'[M][handle[g].fh] = fdtable[M][handle[g].fh]
  BY <1>1, <1>2, <1>3, HandleFds DEF Installed, FileFd
<1>5. HandlesValid'
  <2>1. ASSUME NEW g \in OpenHandle'
        PROVE  LET d == fdtable'[M][handle'[g].fh]
               IN  /\ handle'[g].fh \in FileFd /\ d.ino = handle'[g].ino
                   /\ d.read = ("WRONLY" \notin handle'[g].flags /\ ~handle'[g].created)
                   /\ d.write = ({"WRONLY", "RDWR"} \cap handle'[g].flags # {}
                                    \/ handle'[g].created)
                   /\ \A k \in OpenHandle' \ {g} : handle'[k].fh # handle'[g].fh
                   /\ handle'[g].fh \notin lost'
    <3>1. CASE g = h
      BY <1>1, <1>2, <1>3, <1>4, <3>1 DEF Installed
    <3>2. CASE g \in OpenHandle
      <4>1. \A k \in OpenHandle' \ {g} : handle'[k].fh # handle'[g].fh
        BY <1>1, <1>2, <1>3, <1>4, <3>2 DEF FuseInv, FdPart, HandlesValid
      <4>2. QED
        BY <1>4, <3>2, <4>1 DEF FuseInv, FdPart, HandlesValid
    <3>3. QED
      BY <1>3, <3>1, <3>2
  <2>2. QED
    BY <2>1 DEF HandlesValid
<1>6. DescriptorsAccounted'
  <2>1. ASSUME NEW g \in FileFd, fdtable'[M][g].ino # None
        PROVE  (\E k \in OpenHandle' : handle'[k].fh = g) \/ g \in lost'
    <3>1. CASE g = f
      BY <1>2, <1>3, <3>1
    <3>2. CASE g # f
      <4>1. IsOpen(M, g)
        BY <2>1, <3>2 DEF Installed, IsOpen, FileFd
      <4>2. QED
        BY <1>3, <1>4, <4>1 DEF FuseInv, FdPart, DescriptorsAccounted
    <3>3. QED
      BY <3>1, <3>2
  <2>2. QED
    BY <2>1 DEF DescriptorsAccounted, IsOpen
<1>7. LostOpen'
  BY <1>1 DEF FuseInv, FdPart, LostOpen, Installed, FsTypeOK, FileFd
<1>8. QED
  BY <1>5, <1>6, <1>7

\* ... or truncate's ...
LEMMA FdsBorrowed ==
    ASSUME FuseInv, NEW f, NEW e, Installed(f, e), UNCHANGED <<handle, lost>>,
           pc \notin {"ftruncate", "close"}, pc' = "ftruncate", fd' = f
    PROVE  /\ HandlesValid' /\ DescriptorsAccounted' /\ LostOpen'
           /\ fd' \in FileFd /\ fdtable'[M][fd'].ino # None
           /\ fd' \notin lost /\ \A h \in OpenHandle : handle[h].fh # fd'
<1>1. f \in FileFd /\ f \notin lost /\ \A g \in OpenHandle : handle[g].fh # f
  BY NewIsUnused DEF Installed
<1>2. OpenHandle' = OpenHandle
  BY DEF OpenHandle
<1>3. \A g \in OpenHandle : /\ handle[g].fh \in Fd
                            /\ fdtable'[M][handle[g].fh] = fdtable[M][handle[g].fh]
  BY <1>1, HandleFds DEF Installed, FileFd
<1>4. HandlesValid'
  BY <1>2, <1>3 DEF FuseInv, FdPart, HandlesValid
<1>5. DescriptorsAccounted'
  BY <1>2 DEF FuseInv, FdPart, DescriptorsAccounted, IsOpen, Installed, FileFd
<1>6. LostOpen'
  BY <1>1 DEF FuseInv, FdPart, LostOpen, Installed, FsTypeOK, FileFd
<1>7. fdtable'[M][f].ino # None
  BY NoneAssumption DEF Installed
<1>8. QED
  BY <1>1, <1>4, <1>5, <1>6, <1>7

\* ... or nobody knows of it.
LEMMA FdsLeaked ==
    ASSUME FuseInv, NEW f, NEW e, Installed(f, e), UNCHANGED handle,
           lost' = lost \cup {f}, pc \notin {"ftruncate", "close"}
    PROVE  HandlesValid' /\ DescriptorsAccounted' /\ LostOpen'
<1>1. f \in FileFd /\ f \notin lost /\ \A g \in OpenHandle : handle[g].fh # f
  BY NewIsUnused DEF Installed
<1>2. OpenHandle' = OpenHandle
  BY DEF OpenHandle
<1>3. \A g \in OpenHandle : /\ handle[g].fh \in Fd
                            /\ fdtable'[M][handle[g].fh] = fdtable[M][handle[g].fh]
  BY <1>1, HandleFds DEF Installed, FileFd
<1>4. HandlesValid'
  BY <1>1, <1>2, <1>3 DEF FuseInv, FdPart, HandlesValid
<1>5. DescriptorsAccounted'
  BY <1>2 DEF FuseInv, FdPart, DescriptorsAccounted, IsOpen, Installed, FileFd
<1>6. LostOpen'
  BY <1>1, NoneAssumption DEF FuseInv, FdPart, LostOpen, Installed, FsTypeOK, FileFd
<1>7. QED
  BY <1>4, <1>5, <1>6

\* A request that failed or got no answer comes out negative.
LEMMA ResultNegative ==
    ASSUME NEW got \in BOOLEAN, got => Replied(M), ~(got /\ reply'.status = "OK")
    PROVE  Result(got) \in Int /\ Result(got) < 0
<1>1. CASE got
  <2>1. Result(got) = -Code[reply'.errno] /\ reply'.errno \in Errno \ {"NONE"}
    BY <1>1 DEF Result, Replied
  <2>2. QED
    BY <2>1, CodeFacts
<1>2. CASE ~got
  BY <1>2 DEF Result
<1>3. QED
  BY <1>1, <1>2

\* The file n is opened as m says, and n names it.
OpenedAs(n, m) ==
    /\ inode'[n] \in Inode
    /\ "CREAT" \notin m => UNCHANGED inode
    /\ "TRUNC" \in m => Len(content'[inode'[n]]) = 0
    /\ Installed(reply'.val, OpenAs(inode'[n], m))

\* icbinn_open: nothing was opened, or a descriptor that the call returns,
\* or one that got lost with the answer.
LEMMA IcbinnOpen ==
    ASSUME FuseInv, NEW n \in Name, NEW m, NEW got \in BOOLEAN, icbinn_open(n, m, got)
    PROVE  /\ TypeOK' /\ UNCHANGED node /\ Means(got) /\ (got => Replied(M))
           /\ \/ /\ ~(got /\ reply'.status = "OK")
                 /\ open_result(got) = Result(got)
                 /\ UNCHANGED <<fdtable, lost>>
              \/ /\ ~(got /\ reply'.status = "OK")
                 /\ open_result(got) = Result(got)
                 /\ OpenedAs(n, m) /\ lost' = lost \cup {reply'.val}
              \/ /\ got /\ reply'.status = "OK" /\ open_result(got) = reply'.val
                 /\ OpenedAs(n, m) /\ UNCHANGED lost
           /\ "TRUNC" \notin m \/ inode[n] = None =>
                 \A i \in Inode \ FreeInodes : content'[i] = content[i]
<1>1. TypeOK /\ M \in Conn /\ UNCHANGED node /\ Means(got)
  BY FuseAssumption DEF FuseInv, icbinn_open
<1>2. CASE ~got /\ UNCHANGED <<vars, lost>>
  <2>1. TypeOK' /\ UNCHANGED <<fdtable, content, lost>>
    BY <1>1, <1>2 DEF TypeOK, vars
  <2>2. QED
    BY <1>1, <1>2, <2>1 DEF open_result
<1>3. CASE /\ Open(M, n, m)
           /\ lost' = IF ~got /\ reply'.status = "OK" THEN lost \cup {reply'.val}
                      ELSE lost
  <2>1. /\ TypeOK' /\ Replied(M)
        /\ reply'.status = "ERROR" => UNCHANGED <<inode, content, fdtable>>
        /\ reply'.status = "OK" =>
              /\ reply'.val \in FileFd /\ fdtable[M][reply'.val].ino = None
              /\ inode'[n] \in Inode
              /\ fdtable' = [fdtable EXCEPT ![M][reply'.val] = OpenAs(inode'[n], m)]
              /\ "CREAT" \notin m => UNCHANGED inode
              /\ "TRUNC" \in m => Len(content'[inode'[n]]) = 0
        /\ "TRUNC" \notin m \/ inode[n] = None =>
              \A i \in Inode \ FreeInodes : content'[i] = content[i]
    BY <1>1, <1>3, OpenResult
  <2>2. CASE reply'.status = "ERROR"
    BY <1>1, <1>3, <2>1, <2>2 DEF open_result
  <2>3. CASE reply'.status = "OK"
    <3>1. OpenedAs(n, m)
      <4>1. OpenAs(inode'[n], m).ino = inode'[n]
        BY DEF OpenAs
      <4>2. /\ fdtable'[M][reply'.val] = OpenAs(inode'[n], m)
            /\ \A g \in Fd : g # reply'.val => fdtable'[M][g] = fdtable[M][g]
        BY <1>1, <2>1, <2>3 DEF TypeOK, FileFd
      <4>3. QED
        BY <2>1, <2>3, <4>1, <4>2 DEF OpenedAs, Installed
    <3>2. QED
      BY <1>1, <1>3, <2>1, <2>3, <3>1 DEF open_result
  <2>4. QED
    BY <2>1, <2>2, <2>3 DEF Replied
<1>4. QED
  BY <1>2, <1>3 DEF icbinn_open

\* icbinn_close: the descriptor is closed, or left open and nobody's.
LEMMA IcbinnClose ==
    ASSUME FuseInv, NEW f \in FileFd, fdtable[M][f].ino # None,
           NEW got \in BOOLEAN, icbinn_close(f, got)
    PROVE  /\ TypeOK' /\ UNCHANGED <<node, inode, content>> /\ (got => Replied(M))
           /\ \A g \in Fd : g # f => fdtable'[M][g] = fdtable[M][g]
           /\ \/ fdtable'[M][f].ino = None /\ UNCHANGED lost
              \/ ~got /\ fdtable'[M][f].ino # None /\ lost' = lost \cup {f}
<1>1. TypeOK /\ M \in Conn /\ UNCHANGED node
  BY FuseAssumption DEF FuseInv, icbinn_close
<1>2. CASE ~got /\ UNCHANGED vars /\ lost' = lost \cup {f}
  BY <1>1, <1>2 DEF vars, TypeOK
<1>3. CASE Close(M, f) /\ UNCHANGED lost
  BY <1>1, <1>3, CloseResult
<1>4. QED
  BY <1>2, <1>3 DEF icbinn_close

\* The last three lines of IcbinnClose.
GivenUp(f) ==
    /\ \A g \in Fd : g # f => fdtable'[M][g] = fdtable[M][g]
    /\ \/ fdtable'[M][f].ino = None /\ UNCHANGED lost
       \/ fdtable'[M][f].ino # None /\ lost' = lost \cup {f}

LEMMA ReleaseCallback ==
    ASSUME FuseInv, NEW h \in OpenHandle, icbinnfs_release(h)
    PROVE  FuseInv' /\ CutOnlyIfAsked /\ Acknowledged
<1> DEFINE a == Ask("release", None, h, 0)
<1> DEFINE f == handle[h].fh
<1>1. PICK got \in BOOLEAN :
         icbinn_close(f, got) /\ Means(got) /\ ret' = Result(got)
  BY DEF icbinnfs_release
<1>2. /\ pc = "idle" /\ pc' = "reply" /\ asked' = a /\ a.op = "release" /\ a.h = h
      /\ handle' = [handle EXCEPT ![h] = Free] /\ UNCHANGED <<fd, rv>>
  BY DEF icbinnfs_release, Callback, Called, Ask
<1>3. TypeOK /\ f \in FileFd /\ f \in Fd /\ fdtable[M][f].ino # None /\ h \in Handle
  BY HandleFds, NoneAssumption DEF FuseInv, FileFd
<1>4. /\ TypeOK' /\ UNCHANGED <<node, inode, content>> /\ (got => Replied(M))
      /\ GivenUp(f) /\ (got => fdtable'[M][f].ino = None)
  BY <1>1, <1>3, IcbinnClose DEF GivenUp
<1> HIDE DEF a
<1>5. /\ meant' \in Nat /\ ErrnoTold'
      /\ Told' = 0 => got /\ reply'.status = "OK"
  BY <1>1, <1>2, <1>4, TellsResult
<1>6. /\ OpenHandle' = OpenHandle \ {h}
      /\ \A g \in OpenHandle' : handle'[g] = handle[g]
  <2>1. handle'[h] = Free /\ \A g \in Handle : g # h => handle'[g] = handle[g]
    BY <1>2, <1>3 DEF FuseInv, FsTypeOK
  <2>2. QED
    BY <2>1 DEF OpenHandle
<1>7. FsTypeOK'
  BY <1>2, <1>3, <1>4, <1>5 DEF FuseInv, FsTypeOK, GivenUp
<1>8. HandlesValid'
  <2>1. ASSUME NEW g \in OpenHandle \ {h}
        PROVE  /\ fdtable'[M][handle[g].fh] = fdtable[M][handle[g].fh]
               /\ handle[g].fh # f /\ handle[g].fh \notin lost'
    <3>1. handle[g].fh \in Fd /\ handle[g].fh # f /\ handle[g].fh \notin lost
      BY DEF FuseInv, FdPart, HandlesValid, FileFd
    <3>2. QED
      BY <1>4, <3>1 DEF GivenUp
  <2>2. QED
    BY <1>6, <2>1 DEF FuseInv, FdPart, HandlesValid
<1>9. DescriptorsAccounted'
  <2>1. ASSUME NEW g \in FileFd, fdtable'[M][g].ino # None
        PROVE  (\E k \in OpenHandle' : handle'[k].fh = g) \/ g \in lost'
    <3>1. CASE g = f
      BY <1>4, <2>1, <3>1 DEF GivenUp
    <3>2. CASE g # f
      <4>1. IsOpen(M, g)
        BY <1>4, <2>1, <3>2 DEF GivenUp, IsOpen, FileFd
      <4>2. (\E k \in OpenHandle : handle[k].fh = g) \/ g \in lost
        BY <1>2, <4>1 DEF FuseInv, FdPart, DescriptorsAccounted
      <4>3. QED
        BY <1>4, <1>6, <3>2, <4>2 DEF GivenUp
    <3>3. QED
      BY <3>1, <3>2
  <2>2. QED
    BY <2>1 DEF DescriptorsAccounted, IsOpen
<1>10. LostOpen'
  <2>1. f \notin lost /\ lost \subseteq Fd
    BY DEF FuseInv, FdPart, HandlesValid, FsTypeOK, FileFd
  <2>2. QED
    BY <1>3, <1>4, <2>1 DEF GivenUp, FuseInv, FdPart, LostOpen
<1>11. TruncateInv' /\ LookupInv' /\ Acknowledged
  <2>1. TruncateInv' /\ LookupInv'
    BY <1>2 DEF TruncateInv, LookupInv
  <2>2. Told' = 0 => FileDone(asked')
    BY <1>2, <1>4, <1>5 DEF FileDone
  <2>3. Acknowledged
    BY <1>2, <2>2, FileAcknowledged DEF FileOps
  <2>4. QED
    BY <2>1, <2>3
<1>12. CutOnlyIfAsked
  BY <1>3, <1>4, Untouched
<1>13. QED
  BY <1>4, <1>5, <1>7, <1>8, <1>9, <1>10, <1>11, <1>12 DEF FuseInv, FdPart

-----------------------------------------------------------------------------
(* The callbacks that open.                                                *)

\* A descriptor opened as m says has the rights of an open file with these
\* flags.
Rights(m, flags, created) ==
    \A i : /\ OpenAs(i, m).ino = i
           /\ OpenAs(i, m).read = ("WRONLY" \notin flags /\ ~created)
           /\ OpenAs(i, m).write = ({"WRONLY", "RDWR"} \cap flags # {} \/ created)

OpenReturns(got) == ret' = IF open_result(got) >= 0 THEN 0 ELSE open_result(got)

\* Keep after icbinn_open, for the callbacks open and create.
LEMMA OpenCallback ==
    ASSUME FuseInv, NEW h \in Handle, handle[h] = Free, NEW n \in Name, NEW m,
           NEW flags \in Flags, NEW created \in BOOLEAN, NEW got \in BOOLEAN,
           icbinn_open(n, m, got),
           Keep(h, n, open_result(got), flags, created),
           OpenReturns(got), Rights(m, flags, created),
           pc \in {"idle", "create"}, pc' = "reply", UNCHANGED <<fd, rv>>,
           asked'.op \in {"open", "create"}
    PROVE  /\ TypeOK' /\ FsTypeOK' /\ FdPart' /\ ErrnoTold' /\ LookupInv'
           /\ Told' = 0 =>
                 /\ inode'[n] = handle'[h].ino /\ inode'[n] # None
                 /\ "CREAT" \notin m => UNCHANGED inode
                 /\ "TRUNC" \in m => Len(content'[inode'[n]]) = 0
<1>1. /\ TypeOK' /\ UNCHANGED node /\ Means(got) /\ (got => Replied(M))
      /\ \/ /\ ~(got /\ reply'.status = "OK")
            /\ open_result(got) = Result(got)
            /\ UNCHANGED <<fdtable, lost>>
         \/ /\ ~(got /\ reply'.status = "OK")
            /\ open_result(got) = Result(got)
            /\ OpenedAs(n, m) /\ lost' = lost \cup {reply'.val}
         \/ /\ got /\ reply'.status = "OK" /\ open_result(got) = reply'.val
            /\ OpenedAs(n, m) /\ UNCHANGED lost
  BY IcbinnOpen
<1>2. TruncateInv' /\ LookupInv'
  BY DEF TruncateInv, LookupInv
<1>3. CASE got /\ reply'.status = "OK"
  <2>1. open_result(got) = reply'.val /\ OpenedAs(n, m) /\ UNCHANGED lost
    BY <1>1, <1>3
  <2>2. Installed(reply'.val, OpenAs(inode'[n], m)) /\ inode'[n] \in Inode
    BY <2>1 DEF OpenedAs
  <2>3. reply'.val \in FileFd /\ reply'.val \in Nat /\ ~(reply'.val < 0)
    <3>1. reply'.val \in FileFd
      BY <2>2 DEF Installed
    <3>2. QED
      BY <3>1, SizeAssumption DEF FileFd, Fd
  <2> DEFINE r == [fh |-> reply'.val, flags |-> flags, created |-> created,
                   ino |-> inode'[n]]
  <2>4. handle' = [handle EXCEPT ![h] = r] /\ r \in HandleRecord
    BY <2>1, <2>2, <2>3 DEF Keep, HandleRecord
  <2>5. /\ r.fh = reply'.val /\ r.ino = inode'[n]
        /\ r.flags = flags /\ r.created = created
    OBVIOUS
  <2> HIDE DEF r
  <2>6. HandlesValid' /\ DescriptorsAccounted' /\ LostOpen'
    <3> DEFINE e == OpenAs(inode'[n], m)
    <3>1. /\ r.ino = e.ino
          /\ e.read = ("WRONLY" \notin r.flags /\ ~r.created)
          /\ e.write = ({"WRONLY", "RDWR"} \cap r.flags # {} \/ r.created)
      BY <2>5 DEF Rights
    <3>2. Installed(reply'.val, e)
      BY <2>2
    <3>3. pc \notin {"ftruncate", "close"}
      OBVIOUS
    <3> HIDE DEF e
    <3>4. QED
      BY <2>1, <2>4, <2>5, <3>1, <3>2, <3>3, FdsGiven, Zenon
  <2>7. ret' = 0 /\ meant' = 0
    <3>1. meant' = 0
      BY <1>1, <1>3, CodeFacts DEF Means, Replied
    <3>2. reply'.val >= 0
      BY <2>3
    <3>3. ret' = 0
      BY <2>1, <3>2, Zenon DEF OpenReturns
    <3>4. QED
      BY <3>1, <3>3
  <2>8. meant' \in Nat /\ ErrnoTold'
    <3>1. Told' = 0
      BY <2>7, ToldFacts
    <3>2. QED
      BY <2>7, <3>1 DEF ErrnoTold
  <2>9. FsTypeOK'
    BY <1>1, <2>1, <2>4, <2>8 DEF FuseInv, FsTypeOK
  <2>10. handle'[h] = r
    BY <2>4 DEF FuseInv, FsTypeOK
  <2>11. /\ inode'[n] = handle'[h].ino /\ inode'[n] # None
         /\ "CREAT" \notin m => UNCHANGED inode
         /\ "TRUNC" \in m => Len(content'[inode'[n]]) = 0
    BY <2>1, <2>5, <2>10, NoneAssumption DEF OpenedAs
  <2>12. QED
    BY <1>1, <1>2, <2>6, <2>8, <2>9, <2>11 DEF FdPart
<1>4. CASE ~(got /\ reply'.status = "OK")
  <2>1. Result(got) \in Int /\ Result(got) < 0
    BY <1>1, <1>4, ResultNegative
  <2>2. open_result(got) = Result(got)
    BY <1>1, <1>4
  <2>3. ret' = Result(got) /\ UNCHANGED handle
    BY <2>1, <2>2 DEF Keep, OpenReturns
  <2>4. /\ meant' \in Nat /\ ErrnoTold'
        /\ Told' = 0 => got /\ reply'.status = "OK"
    BY <1>1, <2>3, TellsResult
  <2>5. CASE UNCHANGED <<fdtable, lost>>
    <3>1. HandlesValid' /\ DescriptorsAccounted' /\ LostOpen'
      BY <2>3, <2>5, FdsKept
    <3>2. FsTypeOK'
      BY <1>1, <2>3, <2>4, <2>5 DEF FuseInv, FsTypeOK
    <3>3. QED
      BY <1>1, <1>2, <1>4, <2>4, <3>1, <3>2 DEF FdPart
  <2>6. CASE OpenedAs(n, m) /\ lost' = lost \cup {reply'.val}
    <3>1. Installed(reply'.val, OpenAs(inode'[n], m))
      BY <2>6 DEF OpenedAs
    <3>2. HandlesValid' /\ DescriptorsAccounted' /\ LostOpen'
      BY <2>3, <2>6, <3>1, FdsLeaked
    <3>3. FsTypeOK'
      BY <1>1, <2>3, <2>4, <2>6, <3>1 DEF FuseInv, FsTypeOK, Installed
    <3>4. QED
      BY <1>1, <1>2, <1>4, <2>4, <3>2, <3>3 DEF FdPart
  <2>7. QED
    BY <1>1, <1>4, <2>5, <2>6
<1>5. QED
  BY <1>3, <1>4

LEMMA OpenFileCallback ==
    ASSUME FuseInv, NEW h \in Handle, NEW n \in Name, NEW flags \in Flags,
           icbinnfs_open(h, n, flags)
    PROVE  FuseInv' /\ CutOnlyIfAsked /\ Acknowledged
<1> DEFINE m == translate_open_flags(flags)
<1>1. "TRUNC" \notin m /\ "CREAT" \notin m /\ Rights(m, flags, FALSE)
  BY DEF Flags, translate_open_flags, OpenAs, Rights
<1> HIDE DEF m
<1>2. PICK got \in BOOLEAN :
         /\ icbinn_open(n, m, got)
         /\ Keep(h, n, open_result(got), flags, FALSE)
         /\ OpenReturns(got)
  BY DEF icbinnfs_open, OpenReturns, m
<1>3. /\ handle[h] = Free /\ pc = "idle" /\ pc' = "reply" /\ UNCHANGED <<fd, rv>>
      /\ asked'.op = "open" /\ asked'.name = n /\ asked'.h = h
  BY DEF icbinnfs_open, Callback, Called, Ask
<1>4. /\ TypeOK' /\ FsTypeOK' /\ FdPart' /\ ErrnoTold' /\ LookupInv'
      /\ Told' = 0 => /\ inode'[n] = handle'[h].ino /\ inode'[n] # None
                      /\ "CREAT" \notin m => UNCHANGED inode
  <2>1. FALSE \in BOOLEAN /\ pc \in {"idle", "create"} /\ asked'.op \in {"open", "create"}
    BY <1>3
  <2>2. QED
    BY <1>1, <1>2, <1>3, <2>1, OpenCallback, Zenon
<1>5. Acknowledged
  <2>1. Told' = 0 => NameDone(asked')
    BY <1>1, <1>3, <1>4 DEF NameDone
  <2>2. asked'.name \notin Node
    BY <1>3, FuseAssumption
  <2>3. QED
    BY <1>3, <2>1, <2>2, NameAcknowledged DEF NameOps
<1>6. CutOnlyIfAsked
  <2>1. \A i \in Inode \ FreeInodes : content'[i] = content[i]
    BY <1>1, <1>2, IcbinnOpen
  <2>2. \A i \in Inode : Len(content[i]) \in Nat
    BY DEF FuseInv, TypeOK
  <2>3. QED
    BY <2>1, <2>2 DEF CutOnlyIfAsked
<1>7. QED
  BY <1>4, <1>5, <1>6 DEF FuseInv

\* create truncates what it finds, and finds something only if another
\* connection put it there since the lookup.
LEMMA CreateCallback ==
    ASSUME FuseInv, NEW h \in Handle, NEW flags \in Flags, icbinnfs_create(h, flags)
    PROVE  FuseInv' /\ CutOnlyIfAsked /\ Acknowledged
<1> DEFINE m == {"CREAT", "TRUNC", "WRONLY"}
<1> DEFINE n == asked.name
<1>1. "TRUNC" \in m /\ Rights(m, flags, TRUE)
  BY DEF OpenAs, Rights
<1> HIDE DEF m, n
<1>2. PICK got \in BOOLEAN :
         /\ icbinn_open(n, m, got)
         /\ Keep(h, n, open_result(got), flags, TRUE)
         /\ OpenReturns(got)
  BY DEF icbinnfs_create, OpenReturns, m, n
<1>3. /\ handle[h] = Free /\ pc = "create" /\ pc' = "reply" /\ UNCHANGED <<fd, rv>>
      /\ asked'.op = "create" /\ asked'.name = n /\ asked'.h = h
  BY DEF icbinnfs_create, Ask, n
<1>4. n \in Name /\ (quiet => inode[n] = None)
  BY <1>3 DEF FuseInv, LookupInv, n
<1>5. /\ TypeOK' /\ FsTypeOK' /\ FdPart' /\ ErrnoTold' /\ LookupInv'
      /\ Told' = 0 => /\ inode'[n] = handle'[h].ino
                      /\ "TRUNC" \in m => Len(content'[inode'[n]]) = 0
  <2>1. TRUE \in BOOLEAN /\ pc \in {"idle", "create"} /\ asked'.op \in {"open", "create"}
    BY <1>3
  <2>2. QED
    BY <1>1, <1>2, <1>3, <1>4, <2>1, OpenCallback, Zenon
<1>6. Acknowledged
  <2>1. Told' = 0 => NameDone(asked')
    BY <1>1, <1>3, <1>5 DEF NameDone
  <2>2. asked'.name \notin Node
    BY <1>3, <1>4, FuseAssumption
  <2>3. QED
    BY <1>3, <2>1, <2>2, NameAcknowledged DEF NameOps
<1>7. CutOnlyIfAsked
  <2>1. quiet => \A i \in Inode \ FreeInodes : content'[i] = content[i]
    BY <1>2, <1>4, IcbinnOpen
  <2>2. \A i \in Inode : Len(content[i]) \in Nat
    BY DEF FuseInv, TypeOK
  <2>3. QED
    BY <1>3, <2>1, <2>2 DEF CutOnlyIfAsked
<1>8. QED
  BY <1>5, <1>6, <1>7 DEF FuseInv

-----------------------------------------------------------------------------
(* The callback that takes three requests.                                 *)

\* What a wrapper returns is the errno of its request, negated; no errno
\* means that the request was answered by a success.
LEMMA ResultMeans ==
    ASSUME NEW got \in BOOLEAN, Means(got), got => Replied(M)
    PROVE  /\ meant' \in Nat /\ Result(got) = 0 - meant'
           /\ meant' = 0 => got /\ reply'.status = "OK"
           /\ meant' = 2 => got /\ reply'.status = "ERROR" /\ reply'.errno = "ENOENT"
<1>1. CASE got /\ reply'.status = "OK"
  <2>1. /\ meant' = Code[reply'.errno] /\ Result(got) = -Code[reply'.errno]
        /\ reply'.errno = "NONE"
    BY <1>1 DEF Means, Replied, Result
  <2>2. Code[reply'.errno] \in Nat /\ ~(Code[reply'.errno] = 2)
    BY <2>1, CodeFacts
  <2>3. Result(got) = 0 - Code[reply'.errno]
    BY <2>1, <2>2
  <2>4. QED
    BY <1>1, <2>1, <2>2, <2>3, Zenon
<1>2. CASE got /\ reply'.status # "OK"
  <2>1. /\ meant' = Code[reply'.errno] /\ Result(got) = -Code[reply'.errno]
        /\ reply'.errno \in Errno \ {"NONE"} /\ reply'.status = "ERROR"
    BY <1>2 DEF Means, Replied, Result
  <2>2. meant' \in Nat /\ meant' > 1 /\ Result(got) = 0 - meant'
    BY <2>1, CodeFacts
  <2>3. meant' = 2 => reply'.errno = "ENOENT"
    <3>1. \A e \in Errno : Code[e] = 2 => e = "ENOENT"
      BY CodeFacts
    <3>2. QED
      BY <2>1, <3>1, Zenon
  <2>4. ~(meant' = 0)
    BY <2>2
  <2>5. QED
    BY <1>2, <2>1, <2>2, <2>3, <2>4, Zenon
<1>3. CASE ~got
  <2>1. meant' = 1 /\ Result(got) = -1
    BY <1>3, CodeFacts DEF Means, Result
  <2>2. QED
    BY <2>1
<1>4. QED
  BY <1>1, <1>2, <1>3

LEMMA Negated ==
    ASSUME NEW x, NEW y \in Nat, x = 0 - y
    PROVE  x \in Int /\ (x = 0 => y = 0)
OBVIOUS

LEMMA NegatedIs ==
    ASSUME NEW x, NEW y \in Nat, x = 0 - y, NEW k \in Nat, x = 0 - k
    PROVE  y = k
OBVIOUS

LEMMA TruncateOpenStep ==
    ASSUME FuseInv, NEW n \in Name, NEW length \in 0 .. MaxSize,
           TruncateOpen(n, length)
    PROVE  FuseInv' /\ CutOnlyIfAsked /\ Acknowledged
<1> DEFINE m == {"WRONLY"}
<1>1. PICK got \in BOOLEAN :
         /\ icbinn_open(n, m, got)
         /\ IF open_result(got) < 0
            THEN pc' = "reply" /\ ret' = open_result(got) /\ UNCHANGED fd
            ELSE pc' = "ftruncate" /\ fd' = open_result(got) /\ UNCHANGED ret
  BY DEF TruncateOpen
<1>2. /\ pc = "idle" /\ UNCHANGED <<handle, rv>>
      /\ asked'.op = "truncate" /\ asked'.name = n /\ asked'.arg = length
  BY DEF TruncateOpen, Called, Ask
<1>3. "CREAT" \notin m /\ \A i : OpenAs(i, m).ino = i
  BY DEF OpenAs
<1> HIDE DEF m
<1>4. /\ TypeOK' /\ UNCHANGED node /\ Means(got) /\ (got => Replied(M))
      /\ \/ /\ ~(got /\ reply'.status = "OK")
            /\ open_result(got) = Result(got)
            /\ UNCHANGED <<fdtable, lost>>
         \/ /\ ~(got /\ reply'.status = "OK")
            /\ open_result(got) = Result(got)
            /\ OpenedAs(n, m) /\ lost' = lost \cup {reply'.val}
         \/ /\ got /\ reply'.status = "OK" /\ open_result(got) = reply'.val
            /\ OpenedAs(n, m) /\ UNCHANGED lost
  BY <1>1, IcbinnOpen
<1>5. CutOnlyIfAsked
  BY <1>2 DEF CutOnlyIfAsked
<1>6. CASE got /\ reply'.status = "OK"
  <2>1. open_result(got) = reply'.val /\ OpenedAs(n, m) /\ UNCHANGED lost
    BY <1>4, <1>6
  <2>2. Installed(reply'.val, OpenAs(inode'[n], m)) /\ inode'[n] \in Inode
    BY <2>1 DEF OpenedAs
  <2>3. reply'.val \in FileFd /\ reply'.val \in Nat /\ ~(reply'.val < 0)
    <3>1. reply'.val \in FileFd
      BY <2>2 DEF Installed
    <3>2. QED
      BY <3>1, SizeAssumption DEF FileFd, Fd
  <2>4. pc' = "ftruncate" /\ fd' = reply'.val /\ UNCHANGED ret
    BY <1>1, <2>1, <2>3, Zenon
  <2>5. /\ HandlesValid' /\ DescriptorsAccounted' /\ LostOpen'
        /\ fd' \in FileFd /\ fdtable'[M][fd'].ino # None
        /\ fd' \notin lost /\ \A h \in OpenHandle : handle[h].fh # fd'
    <3>1. pc \notin {"ftruncate", "close"}
      BY <1>2
    <3>2. QED
      BY <1>2, <2>1, <2>2, <2>4, <3>1, FdsBorrowed, Zenon
  <2>6. fdtable'[M][fd'].ino = inode'[n]
    BY <1>3, <2>2, <2>4 DEF Installed
  <2>7. TruncateInv'
    BY <1>2, <2>1, <2>4, <2>5, <2>6 DEF TruncateInv, OpenHandle
  <2>8. meant' \in Nat
    BY <1>4, ResultMeans
  <2>9. FsTypeOK'
    BY <1>2, <1>4, <2>1, <2>4, <2>8 DEF FuseInv, FsTypeOK
  <2>10. LookupInv' /\ ErrnoTold' /\ Acknowledged
    BY <2>4 DEF LookupInv, ErrnoTold, Acknowledged
  <2>11. QED
    BY <1>4, <1>5, <2>5, <2>7, <2>9, <2>10 DEF FuseInv, FdPart
<1>7. CASE ~(got /\ reply'.status = "OK")
  <2>1. Result(got) \in Int /\ Result(got) < 0
    BY <1>4, <1>7, ResultNegative
  <2>2. open_result(got) = Result(got)
    BY <1>4, <1>7
  <2>3. pc' = "reply" /\ ret' = Result(got) /\ UNCHANGED fd
    BY <1>1, <2>1, <2>2, Zenon
  <2>4. /\ meant' \in Nat /\ ErrnoTold'
        /\ Told' = 0 => got /\ reply'.status = "OK"
    BY <1>2, <1>4, <2>3, TellsResult
  <2>5. LookupInv' /\ TruncateInv' /\ Acknowledged
    BY <1>2, <1>7, <2>3, <2>4 DEF LookupInv, TruncateInv, Acknowledged
  <2>6. CASE UNCHANGED <<fdtable, lost>>
    <3>1. HandlesValid' /\ DescriptorsAccounted' /\ LostOpen'
      BY <1>2, <2>6, FdsKept
    <3>2. FsTypeOK'
      BY <1>2, <1>4, <2>3, <2>4, <2>6 DEF FuseInv, FsTypeOK
    <3>3. QED
      BY <1>4, <1>5, <2>4, <2>5, <3>1, <3>2 DEF FuseInv, FdPart
  <2>7. CASE OpenedAs(n, m) /\ lost' = lost \cup {reply'.val}
    <3>1. Installed(reply'.val, OpenAs(inode'[n], m))
      BY <2>7 DEF OpenedAs
    <3>2. HandlesValid' /\ DescriptorsAccounted' /\ LostOpen'
      BY <1>2, <2>7, <3>1, FdsLeaked
    <3>3. FsTypeOK'
      BY <1>2, <1>4, <2>3, <2>4, <2>7, <3>1 DEF FuseInv, FsTypeOK, Installed
    <3>4. QED
      BY <1>4, <1>5, <2>4, <2>5, <3>2, <3>3 DEF FuseInv, FdPart
  <2>8. QED
    BY <1>4, <1>7, <2>6, <2>7
<1>8. QED
  BY <1>6, <1>7

LEMMA TruncateFtruncateStep ==
    ASSUME FuseInv, TruncateFtruncate
    PROVE  FuseInv' /\ CutOnlyIfAsked /\ Acknowledged
<1>1. PICK got \in BOOLEAN :
         Request(Ftruncate(M, fd, asked.arg), got) /\ rv' = Result(got)
  BY DEF TruncateFtruncate, icbinn_ftruncate
<1>2. pc = "ftruncate" /\ pc' = "close" /\ UNCHANGED <<handle, fd, asked, ret, quiet>>
  BY DEF TruncateFtruncate
<1>3. /\ TypeOK /\ M \in Conn /\ fd \in FileFd /\ asked.arg \in Nat
      /\ asked.op = "truncate" /\ asked.arg \in 0 .. MaxSize /\ asked.name \in Name
      /\ quiet => inode[asked.name] = fdtable[M][fd].ino
  BY <1>2, FuseAssumption DEF FuseInv, FdPart, TruncateInv
<1>4. UNCHANGED <<node, lost>> /\ Means(got)
  BY <1>1 DEF Request
<1>5. /\ TypeOK' /\ UNCHANGED <<inode, fdtable>>
      /\ got => Replied(M)
      /\ got /\ reply'.status = "OK" => Len(content'[fdtable[M][fd].ino]) = asked.arg
  <2>1. CASE Ftruncate(M, fd, asked.arg)
    BY <1>3, <2>1, FtruncateEffect
  <2>2. CASE ~got /\ UNCHANGED vars
    BY <1>3, <2>2 DEF vars, TypeOK
  <2>3. QED
    BY <1>1, <2>1, <2>2 DEF Request
<1>6. /\ meant' \in Nat /\ rv' = 0 - meant' /\ rv' \in Int
      /\ rv' = 0 => got /\ reply'.status = "OK"
  <2>1. /\ meant' \in Nat /\ rv' = 0 - meant'
        /\ meant' = 0 => got /\ reply'.status = "OK"
    BY <1>1, <1>4, <1>5, ResultMeans
  <2>2. rv' \in Int /\ (rv' = 0 => meant' = 0)
    BY <2>1, Negated, Zenon
  <2>3. QED
    BY <2>1, <2>2, Zenon
<1>7. FsTypeOK'
  BY <1>2, <1>4, <1>6 DEF FuseInv, FsTypeOK
<1>8. HandlesValid' /\ LostOpen'
  BY <1>2, <1>4, <1>5 DEF FuseInv, FdPart, HandlesValid, LostOpen, OpenHandle
<1>9. DescriptorsAccounted'
  BY <1>2, <1>4, <1>5 DEF FuseInv, FdPart, DescriptorsAccounted, OpenHandle, IsOpen
<1>10. TruncateInv'
  BY <1>2, <1>3, <1>4, <1>5, <1>6 DEF FuseInv, FdPart, TruncateInv, OpenHandle
<1>11. LookupInv' /\ ErrnoTold' /\ Acknowledged
  BY <1>2 DEF LookupInv, ErrnoTold, Acknowledged
<1>12. CutOnlyIfAsked
  BY <1>2, <1>3 DEF CutOnlyIfAsked
<1>13. QED
  BY <1>5, <1>7, <1>8, <1>9, <1>10, <1>11, <1>12 DEF FuseInv, FdPart

\* truncate gives its descriptor back, or leaves it to nobody.
LEMMA TruncateCloseStep ==
    ASSUME FuseInv, TruncateClose
    PROVE  FuseInv' /\ CutOnlyIfAsked /\ Acknowledged
<1>1. PICK got \in BOOLEAN : icbinn_close(fd, got)
  BY DEF TruncateClose
<1>2. /\ pc = "close" /\ pc' = "reply" /\ rv' = 0 /\ ret' = rv
      /\ UNCHANGED <<handle, asked, meant, quiet>>
  BY DEF TruncateClose
<1>3. /\ TypeOK /\ fd \in FileFd /\ fd \in Fd /\ fdtable[M][fd].ino # None
      /\ fd \notin lost /\ \A h \in OpenHandle : handle[h].fh # fd
      /\ asked.op = "truncate" /\ asked.name \in Name /\ rv = 0 - meant /\ meant \in Nat
      /\ quiet => inode[asked.name] = fdtable[M][fd].ino
      /\ quiet /\ rv = 0 => Len(content[inode[asked.name]]) = asked.arg
  BY <1>2 DEF FuseInv, FdPart, TruncateInv, FsTypeOK, FileFd
<1>4. TypeOK' /\ UNCHANGED <<node, inode, content>> /\ GivenUp(fd)
  BY <1>1, <1>3, IcbinnClose DEF GivenUp
<1>5. OpenHandle' = OpenHandle
  BY <1>2 DEF OpenHandle
<1>6. FsTypeOK'
  BY <1>2, <1>3, <1>4 DEF FuseInv, FsTypeOK, GivenUp
<1>7. HandlesValid'
  <2>1. ASSUME NEW g \in OpenHandle
        PROVE  /\ fdtable'[M][handle[g].fh] = fdtable[M][handle[g].fh]
               /\ handle[g].fh \notin lost'
    <3>1. handle[g].fh \in Fd /\ handle[g].fh # fd /\ handle[g].fh \notin lost
      BY <1>3 DEF FuseInv, FdPart, HandlesValid, FileFd
    <3>2. QED
      BY <1>4, <3>1 DEF GivenUp
  <2>2. QED
    BY <1>2, <1>5, <2>1 DEF FuseInv, FdPart, HandlesValid
<1>8. DescriptorsAccounted'
  <2>1. ASSUME NEW g \in FileFd, fdtable'[M][g].ino # None
        PROVE  (\E k \in OpenHandle' : handle'[k].fh = g) \/ g \in lost'
    <3>1. CASE g = fd
      BY <1>4, <2>1, <3>1 DEF GivenUp
    <3>2. CASE g # fd
      <4>1. IsOpen(M, g)
        BY <1>4, <2>1, <3>2 DEF GivenUp, IsOpen, FileFd
      <4>2. (\E k \in OpenHandle : handle[k].fh = g) \/ g \in lost
        BY <3>2, <4>1 DEF FuseInv, FdPart, DescriptorsAccounted
      <4>3. QED
        BY <1>2, <1>4, <1>5, <4>2 DEF GivenUp
    <3>3. QED
      BY <3>1, <3>2
  <2>2. QED
    BY <2>1 DEF DescriptorsAccounted, IsOpen
<1>9. LostOpen'
  <2>1. lost \subseteq Fd
    BY DEF FuseInv, FsTypeOK, FileFd
  <2>2. QED
    BY <1>3, <1>4, <2>1 DEF GivenUp, FuseInv, FdPart, LostOpen
<1>10. Told' = meant
  BY <1>2, <1>3, ToldErrno, Zenon
<1>11. ErrnoTold'
  BY <1>2, <1>3, <1>10 DEF ErrnoTold
<1>12. Acknowledged
  <2>1. Told' = 0 => rv = 0
    BY <1>3, <1>10
  <2>2. Told' = 0 => NameDone(asked')
    BY <1>2, <1>3, <1>4, <2>1 DEF NameDone
  <2>3. asked'.name \notin Node
    BY <1>2, <1>3, FuseAssumption
  <2>4. QED
    BY <1>2, <1>3, <2>2, <2>3, NameAcknowledged DEF NameOps
<1>13. TruncateInv' /\ LookupInv'
  BY <1>2, <1>3 DEF TruncateInv, LookupInv
<1>14. CutOnlyIfAsked
  BY <1>3, <1>4, Untouched
<1>15. QED
  BY <1>4, <1>6, <1>7, <1>8, <1>9, <1>11, <1>12, <1>13, <1>14 DEF FuseInv, FdPart

-----------------------------------------------------------------------------
(* The callbacks on names.                                                 *)

\* A name of a file is not a name of a directory or a link.
LEMMA GetattrName ==
    ASSUME FuseInv, NEW n \in Name, icbinnfs_getattr(n)
    PROVE  FuseInv' /\ CutOnlyIfAsked /\ Acknowledged
<1> DEFINE a == Ask("getattr", n, None, 0)
<1>1. n \notin Node /\ M \in Conn /\ TypeOK
  BY FuseAssumption DEF FuseInv
<1>2. PICK got \in BOOLEAN : Request(Stat(M, n), got) /\ ret' = Result(got)
  BY <1>1, Zenon DEF icbinnfs_getattr, icbinn_stat
<1>3. /\ Callback(a) /\ UNCHANGED handle /\ asked' = a /\ pc' = "reply"
      /\ a.op = "getattr" /\ a.name = n
  BY DEF icbinnfs_getattr, Plain, Callback, Called, Ask
<1>4. UNCHANGED <<node, lost>> /\ Means(got)
  BY <1>2 DEF Request
<1>5. /\ TypeOK' /\ UNCHANGED <<inode, content, fdtable>> /\ (got => Replied(M))
      /\ got /\ reply'.status = "ERROR" => inode[n] = None
      /\ got /\ reply'.status = "OK" => inode[n] # None
  <2>1. CASE Stat(M, n)
    BY <1>1, <2>1, StatEffect, StatExact
  <2>2. CASE ~got /\ UNCHANGED vars
    BY <1>1, <2>2 DEF vars, TypeOK
  <2>3. QED
    BY <1>2, <2>1, <2>2 DEF Request
<1> HIDE DEF a
<1>6. /\ meant' \in Nat /\ ret' = 0 - meant'
      /\ meant' = 2 => got /\ reply'.status = "ERROR"
      /\ meant' = 0 => got /\ reply'.status = "OK"
  BY <1>2, <1>4, <1>5, ResultMeans, Zenon
<1>7. Told' = meant'
  BY <1>6, ToldErrno, Zenon
<1>8. ErrnoTold'
  BY <1>1, <1>3, <1>7 DEF ErrnoTold
<1>9. FsTypeOK' /\ FdPart'
  BY <1>3, <1>4, <1>5, <1>6, PlainCore DEF FuseInv, FsTypeOK
<1>10. LookupInv'
  <2>1. ret' = -Code["ENOENT"] => ret' = 0 - 2
    BY CodeFacts
  <2>2. ret' = 0 - 2 => meant' = 2
    BY <1>6, NegatedIs, 2 \in Nat, Zenon
  <2>3. ret' = -Code["ENOENT"] => inode'[n] = None
    BY <1>5, <1>6, <2>1, <2>2, Zenon
  <2>4. QED
    BY <1>3, <2>3, Zenon DEF LookupInv
<1>11. Acknowledged
  <2>1. Told' = 0 => NameDone(asked')
    BY <1>3, <1>5, <1>6, <1>7 DEF NameDone
  <2>2. QED
    BY <1>1, <1>3, <2>1, NameAcknowledged DEF BothOps
<1>12. CutOnlyIfAsked
  BY <1>1, <1>5, Untouched
<1>13. QED
  BY <1>5, <1>8, <1>9, <1>10, <1>11, <1>12 DEF FuseInv

LEMMA UnlinkName ==
    ASSUME FuseInv, NEW n \in Name, icbinnfs_unlink(n)
    PROVE  FuseInv' /\ CutOnlyIfAsked /\ Acknowledged
<1> DEFINE a == Ask("unlink", n, None, 0)
<1>1. n \notin Node /\ M \in Conn /\ TypeOK
  BY FuseAssumption DEF FuseInv
<1>2. PICK got \in BOOLEAN : Request(Unlink(M, n), got) /\ ret' = Result(got)
  BY <1>1, Zenon DEF icbinnfs_unlink, icbinn_unlink
<1>3. /\ Callback(a) /\ UNCHANGED handle /\ asked' = a /\ pc' = "reply"
      /\ a.op = "unlink" /\ a.name = n
  BY DEF icbinnfs_unlink, Plain, Callback, Called, Ask
<1>4. UNCHANGED <<node, lost>> /\ Means(got)
  BY <1>2 DEF Request
<1>5. /\ TypeOK' /\ UNCHANGED <<content, fdtable>> /\ (got => Replied(M))
      /\ got /\ reply'.status = "OK" => inode'[n] = None /\ inode[n] # None
  <2>1. CASE Unlink(M, n)
    BY <1>1, <2>1, UnlinkEffect, UnlinkExact
  <2>2. CASE ~got /\ UNCHANGED vars
    BY <1>1, <2>2 DEF vars, TypeOK
  <2>3. QED
    BY <1>2, <2>1, <2>2 DEF Request
<1> HIDE DEF a
<1>6. /\ meant' \in Nat /\ ErrnoTold'
      /\ Told' = 0 => got /\ reply'.status = "OK"
  BY <1>2, <1>3, <1>4, <1>5, TellsResult
<1>7. FsTypeOK' /\ FdPart' /\ LookupInv'
  BY <1>3, <1>4, <1>5, <1>6, PlainCore DEF FuseInv, FsTypeOK
<1>8. Acknowledged
  <2>1. Told' = 0 => NameDone(asked')
    BY <1>3, <1>5, <1>6 DEF NameDone
  <2>2. QED
    BY <1>1, <1>3, <2>1, NameAcknowledged DEF BothOps
<1>9. CutOnlyIfAsked
  BY <1>1, <1>5, Untouched
<1>10. QED
  BY <1>5, <1>6, <1>7, <1>8, <1>9 DEF FuseInv

LEMMA RenameCallback ==
    ASSUME FuseInv, NEW m \in Name, NEW n \in Name, icbinnfs_rename(m, n)
    PROVE  FuseInv' /\ CutOnlyIfAsked /\ Acknowledged
<1> DEFINE a == Ask("rename", m, n, 0)
<1>1. M \in Conn /\ TypeOK /\ m \notin Node
  BY FuseAssumption DEF FuseInv
<1>2. PICK got \in BOOLEAN : Request(Rename(M, m, n), got) /\ ret' = Result(got)
  BY DEF icbinnfs_rename, icbinn_rename
<1>3. /\ Callback(a) /\ UNCHANGED handle /\ asked' = a /\ pc' = "reply"
      /\ a.op = "rename" /\ a.name = m /\ a.h = n
  BY DEF icbinnfs_rename, Plain, Callback, Called, Ask
<1>4. UNCHANGED <<node, lost>> /\ Means(got)
  BY <1>2 DEF Request
<1>5. /\ TypeOK' /\ UNCHANGED <<content, fdtable>> /\ (got => Replied(M))
      /\ got /\ reply'.status = "OK" =>
            /\ inode[m] # None /\ inode'[n] = inode[m]
            /\ m # n => inode'[m] = None
  <2>1. CASE Rename(M, m, n)
    BY <1>1, <2>1, RenameEffect, RenameExact
  <2>2. CASE ~got /\ UNCHANGED vars
    BY <1>1, <2>2 DEF vars, TypeOK
  <2>3. QED
    BY <1>2, <2>1, <2>2 DEF Request
<1> HIDE DEF a
<1>6. /\ meant' \in Nat /\ ErrnoTold'
      /\ Told' = 0 => got /\ reply'.status = "OK"
  BY <1>2, <1>3, <1>4, <1>5, TellsResult
<1>7. FsTypeOK' /\ FdPart' /\ LookupInv'
  BY <1>3, <1>4, <1>5, <1>6, PlainCore DEF FuseInv, FsTypeOK
<1>8. Acknowledged
  <2>1. Told' = 0 => NameDone(asked')
    BY <1>3, <1>5, <1>6 DEF NameDone
  <2>2. QED
    BY <1>1, <1>3, <2>1, NameAcknowledged DEF NameOps
<1>9. CutOnlyIfAsked
  BY <1>1, <1>5, Untouched
<1>10. QED
  BY <1>5, <1>6, <1>7, <1>8, <1>9 DEF FuseInv

LEMMA UtimensCallback ==
    ASSUME FuseInv, NEW n \in Name, icbinnfs_utimens(n)
    PROVE  FuseInv' /\ CutOnlyIfAsked /\ Acknowledged
<1> DEFINE a == Ask("utimens", n, None, 0)
<1>1. /\ Callback(a) /\ UNCHANGED handle /\ asked' = a /\ pc' = "reply"
      /\ a.op = "utimens" /\ a.name = n /\ ret' = 0 /\ meant' = 0
      /\ UNCHANGED <<vars, node, lost>>
  BY DEF icbinnfs_utimens, Plain, Callback, Called, Ask
<1>2. TypeOK /\ TypeOK' /\ UNCHANGED <<inode, content, fdtable>>
  BY <1>1 DEF FuseInv, TypeOK, vars
<1> HIDE DEF a
<1>3. FsTypeOK' /\ FdPart' /\ LookupInv'
  BY <1>1, <1>2, PlainCore DEF FuseInv, FsTypeOK
<1>4. Told' = 0
  BY <1>1, ToldFacts
<1>5. ErrnoTold' /\ Acknowledged
  <2>1. ErrnoTold'
    BY <1>1, <1>4 DEF ErrnoTold
  <2>2. NameDone(asked') /\ asked'.name \notin Node
    BY <1>1, <1>2, FuseAssumption DEF NameDone
  <2>3. Acknowledged
    BY <1>1, <2>2, NameAcknowledged DEF NameOps
  <2>4. QED
    BY <2>1, <2>3
<1>6. CutOnlyIfAsked
  BY <1>2, Untouched
<1>7. QED
  BY <1>2, <1>3, <1>5, <1>6 DEF FuseInv

LEMMA GetxattrCallback ==
    ASSUME FuseInv, NEW n \in Name, icbinnfs_getxattr(n)
    PROVE  FuseInv' /\ CutOnlyIfAsked /\ Acknowledged
<1> DEFINE a == Ask("getxattr", n, None, 0)
<1>1. /\ Callback(a) /\ UNCHANGED handle /\ asked' = a /\ pc' = "reply"
      /\ a.op = "getxattr" /\ UNCHANGED <<vars, node, lost>>
  BY DEF icbinnfs_getxattr, Plain, Callback, Called, Ask
<1>2. TypeOK /\ TypeOK' /\ UNCHANGED <<content, fdtable>>
  BY <1>1 DEF FuseInv, TypeOK, vars
<1> HIDE DEF a
<1>3. meant' = 61 /\ meant' \in Nat
  BY CodeFacts DEF icbinnfs_getxattr
<1>4. FsTypeOK' /\ FdPart' /\ LookupInv'
  BY <1>1, <1>2, <1>3, PlainCore DEF FuseInv, FsTypeOK
<1>5. Told' = 61
  <2>1. ret' = -61
    BY CodeFacts DEF icbinnfs_getxattr
  <2>2. QED
    BY <2>1, ToldFacts
<1>6. ErrnoTold' /\ Acknowledged
  BY <1>1, <1>3, <1>5 DEF ErrnoTold, Acknowledged
<1>7. CutOnlyIfAsked
  BY <1>2, Untouched
<1>8. QED
  BY <1>2, <1>4, <1>6, <1>7 DEF FuseInv

-----------------------------------------------------------------------------
(* The callbacks on directories and links.                                 *)

\* A request about a directory or a link: one of S becomes new and the
\* answer carries v, or there is an error, or it was not carried out.
NodeOutcome(n, S, new, v, e, got) ==
    \/ /\ node[n] \in S /\ node' = [node EXCEPT ![n] = new] /\ OK(M, v)
       /\ UNCHANGED <<up, inode, content, fdtable, locked, told>>
    \/ UNCHANGED node /\ (Error(M, e) \/ Error(M, "ENOENT"))
    \/ ~got /\ UNCHANGED <<vars, node>>

\* It leaves the files alone.
LEMMA NodeEffect ==
    ASSUME FuseInv, NEW n \in Node, NEW S \in SUBSET NodeRecord,
           NEW new \in NodeRecord, NEW v \in Nat,
           NEW e \in Errno \ {"NONE"}, NEW got \in BOOLEAN,
           NodeOutcome(n, S, new, v, e, got)
    PROVE  /\ TypeOK' /\ UNCHANGED <<inode, content, fdtable>>
           /\ node' \in [Node -> NodeRecord] /\ (got => Replied(M))
           /\ got /\ reply'.status = "OK" =>
                 node[n] \in S /\ reply'.val = v /\ node'[n] = new
           /\ new = node[n] => node'[n] = node[n]
<1>1. TypeOK /\ node \in [Node -> NodeRecord] /\ M \in Conn
  BY FuseAssumption DEF FuseInv, FsTypeOK
<1>2. CASE /\ node[n] \in S /\ node' = [node EXCEPT ![n] = new] /\ OK(M, v)
           /\ UNCHANGED <<up, inode, content, fdtable, locked, told>>
  <2>1. Replied(M) /\ reply'.val = v
    BY <1>1, <1>2, Granted
  <2>2. TypeOK'
    BY <1>1, <1>2, OKType DEF TypeOK
  <2>3. QED
    BY <1>1, <1>2, <2>1, <2>2
<1>3. CASE UNCHANGED node /\ (Error(M, e) \/ Error(M, "ENOENT"))
  <2>1. /\ TypeOK' /\ Replied(M) /\ reply'.status = "ERROR"
        /\ UNCHANGED <<inode, content, fdtable>>
    <3>1. "ENOENT" \in Errno \ {"NONE"}
      BY DEF Errno
    <3>2. QED
      BY <1>1, <1>3, <3>1, Refused
  <2>2. QED
    BY <1>1, <1>3, <2>1
<1>4. CASE ~got /\ UNCHANGED <<vars, node>>
  BY <1>1, <1>4 DEF vars, TypeOK
<1>5. QED
  BY <1>2, <1>3, <1>4 DEF NodeOutcome

LEMMA NodeFacts ==
    ASSUME FuseInv, NEW n \in Node
    PROVE  /\ node[n] \in NodeRecord /\ node[n].len \in Nat
           /\ Gone \in NodeRecord /\ Directory \in NodeRecord
           /\ \A k \in Nat : Link(k) \in NodeRecord
           /\ \A e \in Errno \ {"NONE"} : Missing(n, e) \in Errno \ {"NONE"}
           /\ n \notin Name /\ 0 \in Nat
<1>1. node[n] \in NodeRecord
  BY DEF FuseInv, FsTypeOK
<1>2. /\ Gone \in NodeRecord /\ Directory \in NodeRecord
      /\ \A k \in Nat : Link(k) \in NodeRecord
  BY DEF NodeRecord, Gone, Directory, Link
<1>3. \A e \in Errno \ {"NONE"} : Missing(n, e) \in Errno \ {"NONE"}
  BY DEF Missing, Errno
<1>4. QED
  BY <1>1, <1>2, <1>3, FuseAssumption DEF NodeRecord

\* A callback that makes one such request and returns its result.
LEMMA NodeCallback ==
    ASSUME FuseInv, NEW n \in Node, NEW S \in SUBSET NodeRecord,
           NEW new \in NodeRecord, NEW v \in Nat,
           NEW e \in Errno \ {"NONE"}, NEW got \in BOOLEAN,
           NodeOutcome(n, S, new, v, e, got), Means(got), UNCHANGED lost,
           NEW a, Plain(a), ret' = Result(got), a.name = n,
           a.op \in {"mkdir", "rmdir", "unlink", "statfs", "symlink"},
           node[n] \in S /\ node'[n] = new => NodeDone(a)
    PROVE  FuseInv' /\ CutOnlyIfAsked /\ Acknowledged
<1>1. /\ TypeOK' /\ UNCHANGED <<inode, content, fdtable>>
      /\ node' \in [Node -> NodeRecord] /\ (got => Replied(M))
      /\ got /\ reply'.status = "OK" => node[n] \in S /\ node'[n] = new
  BY NodeEffect
<1>2. /\ Callback(a) /\ UNCHANGED handle /\ asked' = a /\ pc' = "reply"
  BY DEF Plain, Callback, Called
<1>3. a.op \notin {"fallocate", "getattr"} /\ a.op # "getattr" /\ n \notin Name
  BY NodeFacts
<1>4. /\ meant' \in Nat /\ ErrnoTold'
      /\ Told' = 0 => got /\ reply'.status = "OK"
  <2>1. asked'.op \notin {"fallocate", "getattr"}
    BY <1>2, <1>3
  <2>2. QED
    BY <1>1, <2>1, TellsResult, Zenon
<1>5. FsTypeOK' /\ FdPart' /\ LookupInv'
  BY <1>1, <1>2, <1>3, <1>4, PlainCore
<1>6. Acknowledged
  <2>1. asked'.op \in NodeOps \cup BothOps /\ asked'.name \notin Name
    BY <1>2, <1>3 DEF NodeOps, BothOps
  <2>2. Told' = 0 => NodeDone(asked')
    BY <1>1, <1>2, <1>4
  <2>3. QED
    BY <2>1, <2>2, NodeAcknowledged
<1>7. CutOnlyIfAsked
  BY <1>1, Untouched DEF FuseInv
<1>8. QED
  BY <1>1, <1>4, <1>5, <1>6, <1>7 DEF FuseInv

LEMMA MkdirCallback ==
    ASSUME FuseInv, NEW n \in Node, icbinnfs_mkdir(n)
    PROVE  FuseInv' /\ CutOnlyIfAsked /\ Acknowledged
<1> DEFINE S == {Gone}
<1>1. PICK got \in BOOLEAN : icbinn_mkdir(n, got) /\ ret' = Result(got)
  BY DEF icbinnfs_mkdir
<1>2. Means(got) /\ UNCHANGED lost
  BY <1>1 DEF icbinn_mkdir, NodeRequest
<1>3. NodeOutcome(n, S, Directory, 0, "EEXIST", got)
  <2>1. node \in [Node -> NodeRecord]
    BY DEF FuseInv, FsTypeOK
  <2>2. QED
    BY <1>1, <2>1 DEF icbinn_mkdir, NodeRequest, Mkdir, NodeCall, NodeOutcome, OK, Error
<1>4. /\ S \in SUBSET NodeRecord
      /\ Directory \in NodeRecord /\ "EEXIST" \in Errno \ {"NONE"} /\ 0 \in Nat
  BY NodeFacts DEF Errno
<1> DEFINE a == Ask("mkdir", n, None, 0)
<1>5. /\ Plain(a) /\ a.name = n
      /\ (node[n] \in S /\ node'[n] = Directory => NodeDone(a))
      /\ a.op \in {"mkdir", "rmdir", "unlink", "statfs", "symlink"}
  BY DEF icbinnfs_mkdir, Ask, NodeDone
<1> HIDE DEF a, S
<1>6. QED
  BY <1>1, <1>2, <1>3, <1>4, <1>5, NodeCallback

LEMMA RmdirCallback ==
    ASSUME FuseInv, NEW n \in Node, icbinnfs_rmdir(n)
    PROVE  FuseInv' /\ CutOnlyIfAsked /\ Acknowledged
<1> DEFINE S == {Directory}
<1>1. PICK got \in BOOLEAN : icbinn_rmdir(n, got) /\ ret' = Result(got)
  BY DEF icbinnfs_rmdir
<1>2. Means(got) /\ UNCHANGED lost
  BY <1>1 DEF icbinn_rmdir, NodeRequest
<1>3. NodeOutcome(n, S, Gone, 0, Missing(n, "ENOTDIR"), got)
  <2>1. node \in [Node -> NodeRecord]
    BY DEF FuseInv, FsTypeOK
  <2>2. QED
    BY <1>1, <2>1
      DEF icbinn_rmdir, NodeRequest, Rmdir, NodeCall, NodeOutcome, OK, Error
<1>4. /\ S \in SUBSET NodeRecord
      /\ Gone \in NodeRecord /\ Missing(n, "ENOTDIR") \in Errno \ {"NONE"} /\ 0 \in Nat
  BY NodeFacts DEF Errno
<1> DEFINE a == Ask("rmdir", n, None, 0)
<1>5. /\ Plain(a) /\ a.name = n
      /\ (node[n] \in S /\ node'[n] = Gone => NodeDone(a))
      /\ a.op \in {"mkdir", "rmdir", "unlink", "statfs", "symlink"}
  BY DEF icbinnfs_rmdir, Ask, NodeDone
<1> HIDE DEF a, S
<1>6. QED
  BY <1>1, <1>2, <1>3, <1>4, <1>5, NodeCallback

LEMMA StatfsCallback ==
    ASSUME FuseInv, NEW n \in Node, icbinnfs_statfs(n)
    PROVE  FuseInv' /\ CutOnlyIfAsked /\ Acknowledged
<1> DEFINE S == NodeRecord \ {Gone}
<1>1. PICK got \in BOOLEAN : icbinn_statfs(n, got) /\ ret' = Result(got)
  BY DEF icbinnfs_statfs
<1>2. Means(got) /\ UNCHANGED lost
  BY <1>1 DEF icbinn_statfs, NodeRequest
<1>3. NodeOutcome(n, S, node[n], 0, "ENOENT", got)
  <2>1. node \in [Node -> NodeRecord]
    BY DEF FuseInv, FsTypeOK
  <2>2. QED
    BY <1>1, <2>1
      DEF icbinn_statfs, NodeRequest, Statfs, NodeCall, NodeOutcome, OK, Error
<1>4. /\ S \in SUBSET NodeRecord
      /\ node[n] \in NodeRecord /\ "ENOENT" \in Errno \ {"NONE"} /\ 0 \in Nat
  BY NodeFacts DEF Errno
<1> DEFINE a == Ask("statfs", n, None, 0)
<1>5. /\ Plain(a) /\ a.name = n
      /\ (node[n] \in S /\ node'[n] = node[n] => NodeDone(a))
      /\ a.op \in {"mkdir", "rmdir", "unlink", "statfs", "symlink"}
  BY DEF icbinnfs_statfs, Ask, NodeDone
<1> HIDE DEF a, S
<1>6. QED
  BY <1>1, <1>2, <1>3, <1>4, <1>5, NodeCallback

LEMMA UnlinkNodeCallback ==
    ASSUME FuseInv, NEW n \in Node, icbinnfs_unlink(n)
    PROVE  FuseInv' /\ CutOnlyIfAsked /\ Acknowledged
<1> DEFINE S == NodeRecord \ {Gone, Directory}
<1>1. PICK got \in BOOLEAN : NodeRequest(UnlinkNode(n), got) /\ ret' = Result(got)
  BY DEF icbinnfs_unlink, icbinn_unlink
<1>2. Means(got) /\ UNCHANGED lost
  BY <1>1 DEF NodeRequest
<1>3. NodeOutcome(n, S, Gone, 0, Missing(n, "EISDIR"), got)
  <2>1. node \in [Node -> NodeRecord]
    BY DEF FuseInv, FsTypeOK
  <2>2. QED
    BY <1>1, <2>1
      DEF NodeRequest, UnlinkNode, NodeCall, NodeOutcome, OK, Error
<1>4. /\ S \in SUBSET NodeRecord
      /\ Gone \in NodeRecord /\ Missing(n, "EISDIR") \in Errno \ {"NONE"} /\ 0 \in Nat
  BY NodeFacts DEF Errno
<1> DEFINE a == Ask("unlink", n, None, 0)
<1>5. /\ Plain(a) /\ a.name = n
      /\ (node[n] \in S /\ node'[n] = Gone => NodeDone(a))
      /\ a.op \in {"mkdir", "rmdir", "unlink", "statfs", "symlink"}
  BY NodeFacts DEF icbinnfs_unlink, Ask, NodeDone
<1> HIDE DEF a, S
<1>6. QED
  BY <1>1, <1>2, <1>3, <1>4, <1>5, NodeCallback

LEMMA SymlinkCallback ==
    ASSUME FuseInv, NEW n \in Node, NEW len \in LinkLens, icbinnfs_symlink(n, len)
    PROVE  FuseInv' /\ CutOnlyIfAsked /\ Acknowledged
<1> DEFINE S == {Gone}
<1>1. PICK got \in BOOLEAN : icbinn_symlink(n, len, got) /\ ret' = Result(got)
  BY DEF icbinnfs_symlink
<1>2. Means(got) /\ UNCHANGED lost
  BY <1>1 DEF icbinn_symlink, NodeRequest
<1>3. NodeOutcome(n, S, Link(len), 0,
                  IF len < MAXPATHLEN THEN "EEXIST" ELSE "ENOENT", got)
  <2>1. node \in [Node -> NodeRecord]
    BY DEF FuseInv, FsTypeOK
  <2>2. QED
    BY <1>1, <2>1
      DEF icbinn_symlink, NodeRequest, Symlink, NodeCall, NodeOutcome, OK, Error
<1>4. /\ S \in SUBSET NodeRecord
      /\ Link(len) \in NodeRecord /\ 0 \in Nat
      /\ (IF len < MAXPATHLEN THEN "EEXIST" ELSE "ENOENT") \in Errno \ {"NONE"}
  BY NodeFacts, FuseAssumption DEF Errno
<1> DEFINE a == Ask("symlink", n, None, len)
<1>5. /\ Plain(a) /\ a.name = n
      /\ (node[n] \in S /\ node'[n] = Link(len) => NodeDone(a))
      /\ a.op \in {"mkdir", "rmdir", "unlink", "statfs", "symlink"}
  BY DEF icbinnfs_symlink, Ask, NodeDone
<1> HIDE DEF a, S
<1>6. QED
  BY <1>1, <1>2, <1>3, <1>4, <1>5, NodeCallback

\* What is neither a file nor a directory nor a link is shown as missing.
LEMMA GetattrNode ==
    ASSUME FuseInv, NEW n \in Node, icbinnfs_getattr(n)
    PROVE  FuseInv' /\ CutOnlyIfAsked /\ Acknowledged
<1> DEFINE S == NodeRecord \ {Gone}
<1> DEFINE a == Ask("getattr", n, None, 0)
<1>1. PICK got \in BOOLEAN :
         /\ NodeRequest(StatNode(n), got)
         /\ ret' = IF Result(got) = 0 /\ n \in Node /\ node[n] = Special
                   THEN -Code["ENOENT"] ELSE Result(got)
  BY Zenon DEF icbinnfs_getattr, icbinn_stat
<1>2. Means(got) /\ UNCHANGED lost
  BY <1>1 DEF NodeRequest
<1>3. NodeOutcome(n, S, node[n], node[n].len, "ENOENT", got)
  <2>1. node \in [Node -> NodeRecord]
    BY DEF FuseInv, FsTypeOK
  <2>2. QED
    BY <1>1, <2>1 DEF NodeRequest, StatNode, NodeCall, NodeOutcome, OK, Error
<1>4. /\ S \in SUBSET NodeRecord
      /\ node[n] \in NodeRecord /\ node[n].len \in Nat /\ n \notin Name
      /\ "ENOENT" \in Errno \ {"NONE"}
  BY NodeFacts DEF Errno
<1> HIDE DEF S
<1>5. /\ TypeOK' /\ UNCHANGED <<inode, content, fdtable>>
      /\ node' \in [Node -> NodeRecord] /\ (got => Replied(M))
      /\ node'[n] = node[n]
      /\ got /\ reply'.status = "OK" => node[n] \in S
  BY <1>3, <1>4, NodeEffect
<1>6. /\ Callback(a) /\ UNCHANGED handle /\ asked' = a /\ pc' = "reply"
      /\ a.op = "getattr" /\ a.name = n
  BY DEF icbinnfs_getattr, Plain, Callback, Called, Ask
<1> HIDE DEF a
<1>7. /\ meant' \in Nat /\ Result(got) = 0 - meant'
      /\ meant' = 0 => got /\ reply'.status = "OK"
  BY <1>2, <1>5, ResultMeans, Zenon
<1>8. Result(got) = 0 <=> meant' = 0
  <2>1. Result(got) = 0 => meant' = 0
    BY <1>7, Negated, Zenon
  <2>2. meant' = 0 => Result(got) = 0
    BY <1>7
  <2>3. QED
    BY <2>1, <2>2
<1>9. ErrnoTold'
  <2>1. CASE meant' = 0 /\ node[n] = Special
    <3>1. ret' = -Code["ENOENT"]
      BY <1>1, <1>8, <2>1, Zenon
    <3>2. ret' = 0 - 2
      BY <3>1, CodeFacts
    <3>3. Told' = 2
      BY <3>2, ToldErrno, 2 \in Nat, Zenon
    <3>4. Code["ENOENT"] = 2
      BY CodeFacts
    <3>5. QED
      BY <1>5, <1>6, <2>1, <3>3, <3>4 DEF ErrnoTold
  <2>2. CASE ~(meant' = 0 /\ node[n] = Special)
    <3>1. ret' = 0 - meant'
      BY <1>1, <1>7, <1>8, <2>2, Zenon
    <3>2. Told' = meant'
      BY <1>7, <3>1, ToldErrno, Zenon
    <3>3. QED
      BY <1>5, <1>6, <2>2, <3>2 DEF ErrnoTold
  <2>3. QED
    BY <2>1, <2>2
<1>10. FsTypeOK' /\ FdPart'
  BY <1>2, <1>5, <1>6, <1>7, PlainCore
<1>11. LookupInv' /\ Acknowledged
  <2>1. LookupInv'
    BY <1>4, <1>6 DEF LookupInv
  <2>2. Told' = 0 => meant' = 0 /\ node[n] # Special
    <3>1. Code["ERANGE"] = 34 /\ Code["ENOENT"] = 2 /\ a.op # "fallocate"
      BY <1>6, CodeFacts
    <3>2. QED
      BY <1>5, <1>6, <1>9, <3>1 DEF ErrnoTold
  <2>3. Told' = 0 => NodeDone(asked')
    BY <1>5, <1>6, <1>7, <2>2 DEF NodeDone, S
  <2>4. Acknowledged
    BY <1>4, <1>6, <2>3, NodeAcknowledged DEF BothOps
  <2>5. QED
    BY <2>1, <2>4
<1>12. CutOnlyIfAsked
  BY <1>5, Untouched DEF FuseInv
<1>13. QED
  BY <1>5, <1>9, <1>10, <1>11, <1>12 DEF FuseInv

\* The target is shown in full if it leaves room for the terminator, and cut
\* by one otherwise.
LEMMA ReadlinkCallback ==
    ASSUME FuseInv, NEW n \in Node, icbinnfs_readlink(n)
    PROVE  FuseInv' /\ CutOnlyIfAsked /\ Acknowledged
<1> DEFINE S == {r \in NodeRecord : r.type = "LINK"}
<1> DEFINE a == Ask("readlink", n, None, 0)
<1> DEFINE v == IF node[n].len < MAX_SYMLINK_SIZE THEN node[n].len
                ELSE MAX_SYMLINK_SIZE
<1> DEFINE e == IF MAX_SYMLINK_SIZE <= MaxData THEN Missing(n, "EINVAL") ELSE "EINVAL"
<1> DEFINE bytes(got) == readlink_result(MAX_SYMLINK_SIZE, got)
<1>1. PICK got \in BOOLEAN :
         /\ icbinn_readlink(n, MAX_SYMLINK_SIZE, got)
         /\ IF bytes(got) >= 0 THEN ret' = 0 /\ shown' = Terminated(bytes(got))
            ELSE ret' = bytes(got) /\ UNCHANGED shown
  BY DEF icbinnfs_readlink
<1>2. Means(got) /\ UNCHANGED lost
  BY <1>1 DEF icbinn_readlink, NodeRequest
<1>3. NodeOutcome(n, S, node[n], v, e, got)
  <2>1. node \in [Node -> NodeRecord]
    BY DEF FuseInv, FsTypeOK
  <2>2. QED
    BY <1>1, <2>1
      DEF icbinn_readlink, NodeRequest, Readlink, NodeCall, NodeOutcome, OK, Error
<1>4. /\ S \in SUBSET NodeRecord
      /\ node[n] \in NodeRecord /\ node[n].len \in Nat
      /\ e \in Errno \ {"NONE"} /\ n \notin Name
      /\ MAX_SYMLINK_SIZE \in Nat /\ MAX_SYMLINK_SIZE >= 1
  BY NodeFacts, FuseAssumption DEF Errno
<1>5. v \in Nat /\ v <= MAX_SYMLINK_SIZE
  BY <1>4
<1>6. /\ Callback(a) /\ UNCHANGED handle /\ asked' = a /\ pc' = "reply"
      /\ a.op = "readlink" /\ a.name = n
  BY DEF icbinnfs_readlink, Callback, Called, Ask
<1>7. Terminated(v) = IF node[n].len < MAX_SYMLINK_SIZE THEN node[n].len
                      ELSE MAX_SYMLINK_SIZE - 1
  BY <1>4 DEF Terminated
<1> HIDE DEF a, v, e, S
<1>8. /\ TypeOK' /\ UNCHANGED <<inode, content, fdtable>>
      /\ node' \in [Node -> NodeRecord] /\ (got => Replied(M))
      /\ got /\ reply'.status = "OK" => reply'.val = v /\ node[n] \in S
      /\ node'[n] = node[n]
  <2>1. v \in Nat /\ node[n] \in NodeRecord /\ S \in SUBSET NodeRecord
    BY <1>4, <1>5
  <2>2. e \in Errno \ {"NONE"}
    BY <1>4
  <2> DEFINE new == node[n]
  <2>3. NodeOutcome(n, S, new, v, e, got) /\ new \in NodeRecord
    BY <1>3, <2>1
  <2> HIDE DEF new
  <2>4. /\ TypeOK' /\ UNCHANGED <<inode, content, fdtable>>
        /\ node' \in [Node -> NodeRecord] /\ (got => Replied(M))
        /\ got /\ reply'.status = "OK" => reply'.val = v /\ node[n] \in S
        /\ new = node[n] => node'[n] = node[n]
    BY <2>1, <2>2, <2>3, NodeEffect
  <2>5. QED
    BY <2>4 DEF new
<1>9. /\ got /\ reply'.status = "OK" => ret' = 0 /\ shown' = Terminated(v)
      /\ ~(got /\ reply'.status = "OK") => ret' = Result(got)
  <2>1. CASE got /\ reply'.status = "OK"
    <3>1. reply'.val = v /\ ~(v > MAX_SYMLINK_SIZE) /\ v >= 0
      BY <1>4, <1>5, <1>8, <2>1
    <3>2. bytes(got) = v
      BY <2>1, <3>1, Zenon DEF readlink_result
    <3>3. QED
      BY <1>1, <2>1, <3>1, <3>2, Zenon
  <2>2. CASE ~(got /\ reply'.status = "OK")
    <3>1. Result(got) \in Int /\ Result(got) < 0
      BY <1>8, <2>2, ResultNegative
    <3>2. bytes(got) = Result(got)
      BY <2>2, Zenon DEF readlink_result
    <3>3. ~(Result(got) >= 0)
      BY <3>1
    <3>4. QED
      BY <1>1, <2>2, <3>2, <3>3, Zenon
  <2>3. QED
    BY <2>1, <2>2
<1>10. /\ meant' \in Nat /\ ErrnoTold'
       /\ Told' = 0 => got /\ reply'.status = "OK"
  <2>1. ret' = IF got /\ reply'.status = "OK" THEN 0 ELSE Result(got)
    BY <1>9
  <2>2. asked'.op \notin {"fallocate", "getattr"} /\ 0 \in Nat
    BY <1>6
  <2>3. QED
    BY <1>2, <1>8, <2>1, <2>2, Tells
<1>11. FsTypeOK' /\ FdPart' /\ LookupInv'
  BY <1>2, <1>6, <1>8, <1>10, PlainCore
<1>12. Acknowledged
  <2>1. Told' = 0 => NodeDone(asked')
    BY <1>6, <1>7, <1>8, <1>9, <1>10 DEF NodeDone, S
  <2>2. QED
    BY <1>4, <1>6, <2>1, NodeAcknowledged DEF NodeOps
<1>13. CutOnlyIfAsked
  BY <1>8, Untouched DEF FuseInv
<1>14. QED
  BY <1>8, <1>10, <1>11, <1>12, <1>13 DEF FuseInv

-----------------------------------------------------------------------------
(* The answer to the kernel, and the other connections.                    *)

LEMMA ReplyStep ==
    ASSUME FuseInv, Reply
    PROVE  FuseInv' /\ CutOnlyIfAsked /\ Acknowledged
<1>1. /\ pc = "reply" /\ ret' = 0 /\ meant' = 0 /\ reply' = NoReply
      /\ UNCHANGED <<up, inode, content, fdtable, locked, told,
                     node, handle, fd, rv, lost, quiet>>
  BY DEF Reply
<1>2. \/ pc' = "idle" /\ asked' = Nothing
      \/ /\ asked.op = "getattr" /\ asked.name \in Name
         /\ ret = -Code["ENOENT"]
         /\ pc' = "create" /\ UNCHANGED asked
  BY DEF Reply
<1>3. TypeOK'
  BY <1>1 DEF FuseInv, TypeOK, NoReply, Answer, Errno
<1>4. FsTypeOK'
  BY <1>1, <1>2 DEF FuseInv, FsTypeOK
<1>5. HandlesValid' /\ DescriptorsAccounted' /\ LostOpen'
  BY <1>1, FdsKept
<1>6. TruncateInv' /\ ErrnoTold' /\ Acknowledged
  BY <1>1, <1>2 DEF TruncateInv, ErrnoTold, Acknowledged
<1>7. LookupInv'
  <2>1. CASE pc' = "idle"
    BY <2>1 DEF LookupInv
  <2>2. CASE /\ asked.op = "getattr" /\ asked.name \in Name
             /\ ret = -Code["ENOENT"]
             /\ pc' = "create" /\ UNCHANGED asked
    <3>1. inode[asked.name] = None
      BY <1>1, <2>2, Zenon DEF FuseInv, LookupInv
    <3>2. asked'.name \in Name /\ inode'[asked'.name] = None /\ pc' = "create"
      BY <1>1, <2>2, <3>1
    <3>3. QED
      BY <3>2 DEF LookupInv
  <2>3. QED
    BY <1>2, <2>1, <2>2
<1>8. CutOnlyIfAsked
  BY <1>1, Untouched DEF FuseInv
<1>9. QED
  BY <1>3, <1>4, <1>5, <1>6, <1>7, <1>8 DEF FuseInv, FdPart

LEMMA OtherStep ==
    ASSUME FuseInv, NEW c \in Conn \ {M}, OtherCalls(c)
    PROVE  FuseInv' /\ CutOnlyIfAsked /\ Acknowledged
<1>1. TypeOK' /\ reply'.conn # M /\ fdtable'[M] = fdtable[M]
  BY OtherEffect DEF FuseInv
<1>2. /\ pc # "reply" /\ quiet' = FALSE
      /\ UNCHANGED <<node, handle, pc, fd, rv, asked, ret, meant, lost>>
  BY DEF OtherCalls
<1>3. FsTypeOK'
  BY <1>2 DEF FuseInv, FsTypeOK
<1>4. HandlesValid' /\ LostOpen'
  BY <1>1, <1>2 DEF FuseInv, FdPart, HandlesValid, LostOpen, OpenHandle
<1>5. DescriptorsAccounted'
  BY <1>1, <1>2 DEF FuseInv, FdPart, DescriptorsAccounted, OpenHandle, IsOpen
<1>6. TruncateInv'
  BY <1>1, <1>2 DEF FuseInv, FdPart, TruncateInv, OpenHandle
<1>7. LookupInv' /\ ErrnoTold' /\ Acknowledged
  BY <1>2 DEF FuseInv, LookupInv, ErrnoTold, Acknowledged
<1>8. CutOnlyIfAsked
  BY <1>1 DEF CutOnlyIfAsked
<1>9. QED
  BY <1>1, <1>3, <1>4, <1>5, <1>6, <1>7, <1>8 DEF FuseInv, FdPart

-----------------------------------------------------------------------------
(* The invariant is inductive.                                             *)

LEMMA FuseInvInit == FuseInit => FuseInv
<1> SUFFICES ASSUME FuseInit PROVE FuseInv
  OBVIOUS
<1>1. M \in Conn
  BY FuseAssumption
<1>2. content \in [Inode -> Seq(Unit)]
  <2>1. \A d \in Data : <<d>> \in Seq(Unit)
    BY DEF Unit
  <2>2. content \in [Inode -> {<<>>} \cup {<<d>> : d \in Data}]
    BY DEF FuseInit
  <2>3. ({<<>>} \cup {<<d>> : d \in Data}) \subseteq Seq(Unit)
    <3>1. <<>> \in Seq(Unit)
      OBVIOUS
    <3>2. QED
      BY <2>1, <3>1, Zenon
  <2>4. \A i \in Inode : content[i] \in Seq(Unit)
    BY <2>2, <2>3
  <2>5. QED
    BY <2>2, <2>4
<1>3. TypeOK
  BY <1>2 DEF FuseInit, TypeOK, Closed, LockType, NoReply, Answer, Errno
<1>4. FsTypeOK
  BY DEF FuseInit, FsTypeOK, NodeRecord, Gone, Special
<1>5. OpenHandle = {}
  BY DEF FuseInit, OpenHandle
<1>6. \A f \in Fd : fdtable[M][f].ino = None
  BY <1>1 DEF FuseInit, Closed
<1>7. pc = "idle" /\ lost = {}
  BY DEF FuseInit
<1>8. FdPart
  BY <1>5, <1>6, <1>7
    DEF FdPart, HandlesValid, DescriptorsAccounted, LostOpen, TruncateInv, IsOpen
<1>9. LookupInv /\ ErrnoTold
  BY <1>7 DEF LookupInv, ErrnoTold
<1>10. QED
  BY <1>3, <1>4, <1>8, <1>9 DEF FuseInv

LEMMA FuseStep ==
    ASSUME FuseInv, FuseNext
    PROVE  FuseInv' /\ CutOnlyIfAsked /\ Acknowledged
<1>1. ASSUME NEW h \in OpenHandle, HandleCalls(h)
      PROVE  FuseInv' /\ CutOnlyIfAsked /\ Acknowledged
  <2>1. CASE icbinnfs_read(h, 0, MaxData)
    BY <2>1, ReadCallback
  <2>2. CASE \E d \in Bytes(MaxData) \ {<<>>} : icbinnfs_write(h, 0, d)
    BY <2>2, WriteCallback
  <2>3. CASE \E n \in 0 .. MaxSize : icbinnfs_ftruncate(h, n)
    BY <2>3, FtruncateCallback
  <2>4. CASE \E m \in KernelModes, n \in 0 .. MaxSize : icbinnfs_fallocate(h, m, 0, n)
    BY <2>4, FallocateCallback
  <2>5. CASE icbinnfs_fsync(h)
    BY <2>5, FsyncCallback
  <2>6. CASE icbinnfs_release(h)
    BY <2>6, ReleaseCallback
  <2>7. QED
    BY <1>1, <2>1, <2>2, <2>3, <2>4, <2>5, <2>6 DEF HandleCalls
<1>2. ASSUME NEW n \in Name, PathCalls(n)
      PROVE  FuseInv' /\ CutOnlyIfAsked /\ Acknowledged
  <2>1. CASE icbinnfs_getattr(n)
    BY <2>1, GetattrName
  <2>2. CASE \E h \in Handle, flags \in Flags : icbinnfs_open(h, n, flags)
    BY <2>2, OpenFileCallback
  <2>3. CASE \E length \in 0 .. MaxSize : TruncateOpen(n, length)
    BY <2>3, TruncateOpenStep
  <2>4. CASE icbinnfs_unlink(n)
    BY <2>4, UnlinkName
  <2>5. CASE \E m \in Name : icbinnfs_rename(n, m)
    BY <2>5, RenameCallback
  <2>6. CASE icbinnfs_utimens(n)
    BY <2>6, UtimensCallback
  <2>7. CASE icbinnfs_getxattr(n)
    BY <2>7, GetxattrCallback
  <2>8. QED
    BY <1>2, <2>1, <2>2, <2>3, <2>4, <2>5, <2>6, <2>7 DEF PathCalls
<1>3. ASSUME NEW n \in Node, NodeCalls(n)
      PROVE  FuseInv' /\ CutOnlyIfAsked /\ Acknowledged
  <2>1. CASE icbinnfs_mkdir(n)
    BY <2>1, MkdirCallback
  <2>2. CASE icbinnfs_rmdir(n)
    BY <2>2, RmdirCallback
  <2>3. CASE icbinnfs_unlink(n)
    BY <2>3, UnlinkNodeCallback
  <2>4. CASE \E len \in LinkLens : icbinnfs_symlink(n, len)
    BY <2>4, SymlinkCallback
  <2>5. CASE icbinnfs_getattr(n)
    BY <2>5, GetattrNode
  <2>6. CASE icbinnfs_readlink(n)
    BY <2>6, ReadlinkCallback
  <2>7. CASE icbinnfs_statfs(n)
    BY <2>7, StatfsCallback
  <2>8. QED
    BY <1>3, <2>1, <2>2, <2>3, <2>4, <2>5, <2>6, <2>7 DEF NodeCalls
<1>4. CASE \E h \in Handle, flags \in Flags : icbinnfs_create(h, flags)
  BY <1>4, CreateCallback
<1>5. CASE TruncateFtruncate
  BY <1>5, TruncateFtruncateStep
<1>6. CASE TruncateClose
  BY <1>6, TruncateCloseStep
<1>7. CASE Reply
  BY <1>7, ReplyStep
<1>8. CASE \E c \in Conn \ {M} : OtherCalls(c)
  BY <1>8, OtherStep
<1>9. QED
  BY <1>1, <1>2, <1>3, <1>4, <1>5, <1>6, <1>7, <1>8 DEF FuseNext

LEMMA FuseInvStep == FuseInv /\ [FuseNext]_fuseVars => FuseInv'
<1> SUFFICES ASSUME FuseInv, [FuseNext]_fuseVars PROVE FuseInv'
  OBVIOUS
<1>1. CASE FuseNext
  BY <1>1, FuseStep
<1>2. CASE UNCHANGED fuseVars
  <2>1. TypeOK' /\ FsTypeOK'
    BY <1>2 DEF FuseInv, fuseVars, vars, fsVars, TypeOK, FsTypeOK
  <2>2. FdPart'
    BY <1>2
      DEF FuseInv, fuseVars, vars, fsVars, FdPart, HandlesValid,
          DescriptorsAccounted, LostOpen, TruncateInv, OpenHandle, IsOpen
  <2>3. LookupInv'
    BY <1>2 DEF FuseInv, fuseVars, vars, fsVars, LookupInv
  <2>4. ErrnoTold'
    BY <1>2, Zenon DEF FuseInv, fuseVars, vars, fsVars, ErrnoTold, Told
  <2>5. QED
    BY <2>1, <2>2, <2>3, <2>4 DEF FuseInv
<1>3. QED
  BY <1>1, <1>2

LEMMA FuseInvAlways == FuseSpec => []FuseInv
<1>1. QED
  BY FuseInvInit, FuseInvStep, PTL DEF FuseSpec

-----------------------------------------------------------------------------
(* The theorems.                                                           *)

\* fi->fh of each open file is a descriptor of its own, open on the file and
\* with the rights it was opened with (icbinnfs_open, icbinnfs_create), for
\* any number of connections, open files and descriptors.
THEOREM HandlesValidAlways == FuseSpec => []HandlesValid
<1>1. FuseInv => HandlesValid
  BY DEF FuseInv, FdPart
<1>2. QED
  BY <1>1, FuseInvAlways, PTL

\* No descriptor of the mount is left open but by a call without an answer:
\* icbinnfs_release and icbinnfs_truncate close what was opened.
THEOREM DescriptorsAccountedAlways == FuseSpec => []DescriptorsAccounted
<1>1. FuseInv => DescriptorsAccounted
  BY DEF FuseInv, FdPart
<1>2. QED
  BY <1>1, FuseInvAlways, PTL

\* The errno of the request is the errno the application is told, but for
\* fallocate's sign and getattr of a special file.
THEOREM ErrnoToldAlways == FuseSpec => []ErrnoTold
<1>1. FuseInv => ErrnoTold
  BY DEF FuseInv
<1>2. QED
  BY <1>1, FuseInvAlways, PTL

\* When the application is told of success, the host has done to the file,
\* the name or the node meant what was asked, with the three exceptions the
\* property states: of a write a first part may be stored, utimens does
\* nothing, and a long link is shown cut.
THEOREM AcknowledgedEffectAlways == FuseSpec => AcknowledgedEffect
<1>1. FuseInv /\ [FuseNext]_fuseVars => [Acknowledged]_fuseVars
  BY FuseStep
<1>2. FuseSpec => [][Acknowledged]_fuseVars
  BY <1>1, FuseInvAlways, PTL DEF FuseSpec
<1>3. QED
  BY <1>2 DEF AcknowledgedEffect, Acknowledged

\* The mount cuts a file only if asked to, or in a create that finds what
\* another connection put there since the lookup.
THEOREM ShortenedOnlyIfAskedAlways == FuseSpec => ShortenedOnlyIfAsked
<1>1. FuseInv /\ [FuseNext]_fuseVars => [CutOnlyIfAsked]_fuseVars
  BY FuseStep
<1>2. FuseSpec => [][CutOnlyIfAsked]_fuseVars
  BY <1>1, FuseInvAlways, PTL DEF FuseSpec
<1>3. QED
  BY <1>2 DEF ShortenedOnlyIfAsked, CutOnlyIfAsked
=============================================================================
