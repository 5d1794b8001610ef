----------------------------- MODULE ServerFiles -----------------------------
(***************************************************************************)
(* The procedures of libicbinn/server/server.c that work on open files,    *)
(* run by several connections (one server process each, see SvcMain) that  *)
(* share one directory of the host.                                        *)
(*                                                                         *)
(* A handler runs to its end before its process reads the next request, so *)
(* it is one step; the handlers of different processes interleave.  The    *)
(* host's files, descriptors and POSIX record locks are the kernel's and   *)
(* are modelled from the calls the handlers make.  Contents are sequences  *)
(* of units of data, Zero being what a hole reads as.                      *)
(***************************************************************************)
EXTENDS Integers, Sequences, FiniteSets

CONSTANTS
    Conn,       \* connections
    Name,       \* names in the shared directory
    LongName,   \* a name of ICBINN_PROT_MAXPATHLEN characters
    Inode,      \* the host file system's inodes
    Data,       \* units of data
    Zero,       \* the unit a hole reads as
    MaxData,    \* ICBINN_PROT_MAXDATA, in units
    MaxSize,    \* bound: the largest file, in units
    NFd,        \* RLIMIT_NOFILE
    Own,        \* descriptors a server process has for itself: its
                \* connection, /dev/random, /dev/urandom, the log
    Modes,      \* the values of mode the clients use, as sets of flags
    None

Fd == 0 .. NFd - 1
Unit == Data \cup {Zero}

ASSUME SizeAssumption == MaxData \in Nat /\ MaxSize \in Nat /\ NFd \in Nat
ASSUME OwnAssumption == Own \subseteq Fd
ASSUME NameAssumption == LongName \notin Name
ASSUME NoneAssumption == None \notin Inode

VARIABLES
    up,       \* connections whose server process is running
    inode,    \* the inode a name refers to, or None
    content,  \* the contents of each inode
    fdtable,  \* the descriptors of each process that are open on files
    locked,   \* the record lock each process has on each inode
    told,     \* history: the lock each client was last told it has by way
              \* of each descriptor
    reply     \* the last reply sent, and to whom

fileVars == <<inode, content>>
vars == <<up, inode, content, fdtable, locked, told, reply>>

OpenFile == [ino : Inode, read : BOOLEAN, write : BOOLEAN]
Closed == [ino |-> None, read |-> FALSE, write |-> FALSE]
LockType == {"RDLCK", "WRLCK", "UNLCK"}
Errno == {"NONE", "EINVAL", "ENOENT", "EMFILE", "ENOSPC", "EBADF", "EAGAIN",
          "EEXIST", "ENOTDIR", "EISDIR", "EIO"}

\* What is sent: the fields the status and the procedure do not use are blank.
Answer(c, status, errno, val, data) ==
    [conn |-> c, status |-> status, errno |-> errno, val |-> val, data |-> data]

NoReply == Answer(None, "NONE", "NONE", 0, <<>>)

Init ==
    /\ up = [c \in Conn |-> FALSE]
    /\ inode = [n \in Name |-> None]
    /\ content = [i \in Inode |-> <<>>]
    /\ fdtable = [c \in Conn |-> [f \in Fd |-> Closed]]
    /\ locked = [c \in Conn |-> [i \in Inode |-> "UNLCK"]]
    /\ told = [c \in Conn |-> [f \in Fd |-> "UNLCK"]]
    /\ reply = NoReply

-----------------------------------------------------------------------------
(* The kernel, as far as the handlers use it.                              *)

IsOpen(c, f) == f \in Fd /\ fdtable[c][f].ino # None

FreeFds(c) == {f \in Fd \ Own : fdtable[c][f].ino = None}

\* An inode is given out again once no name and no descriptor refers to it.
FreeInodes ==
    {i \in Inode : /\ \A n \in Name : inode[n] # i
                   /\ \A c \in Conn, f \in Fd : fdtable[c][f].ino # i}

\* Two processes' locks on a whole file conflict unless both are read locks.
Conflict(c, i, type) ==
    \E d \in Conn \ {c} :
        \/ type = "RDLCK" /\ locked[d][i] = "WRLCK"
        \/ type = "WRLCK" /\ locked[d][i] # "UNLCK"

\* The contents s with data d at offset o.
Overwrite(s, o, d) ==
    IF d = <<>> THEN s
    ELSE [k \in 1 .. (IF Len(s) > o + Len(d) THEN Len(s) ELSE o + Len(d)) |->
            IF k > o /\ k <= o + Len(d) THEN d[k - o]
            ELSE IF k <= Len(s) THEN s[k] ELSE Zero]

\* The contents s cut or extended to n units.
Resize(s, n) == [k \in 1 .. n |-> IF k <= Len(s) THEN s[k] ELSE Zero]

\* What fallocate makes of the contents s: mode 0 extends the file, KEEP_SIZE
\* only reserves the space, PUNCH_HOLE and COLLAPSE_RANGE take data away.
FallocMode == {"ALLOC", "KEEP_SIZE", "PUNCH_HOLE", "COLLAPSE_RANGE"}

Fallocated(s, mode, o, n) ==
    CASE mode = "ALLOC" -> IF Len(s) >= o + n THEN s ELSE Resize(s, o + n)
      [] mode = "PUNCH_HOLE" ->
            [k \in 1 .. Len(s) |-> IF k > o /\ k <= o + n THEN Zero ELSE s[k]]
      [] mode = "COLLAPSE_RANGE" ->
            [k \in 1 .. Len(s) - n |-> IF k <= o THEN s[k] ELSE s[k + n]]
      [] OTHER -> s

\* At most n units of s from offset o.
Slice(s, o, n) == SubSeq(s, o + 1, IF o + n > Len(s) THEN Len(s) ELSE o + n)

-----------------------------------------------------------------------------
(* Replies.  The static result of a handler has its status reset before    *)
(* anything else, so an early return is an error reply.                    *)

OK(c, val) == reply' = Answer(c, "OK", "NONE", val, <<>>)

Error(c, errno) ==
    /\ reply' = Answer(c, "ERROR", errno, 0, <<>>)
    /\ UNCHANGED <<up, inode, content, fdtable, locked, told>>

\* Nothing checks the descriptor of a request.  A number that means one of
\* the server's own, its socket, a device or the log, is used as it is: the
\* kernel does something to that, or refuses, and no file is concerned.
OnOwn(c) ==
    \/ OK(c, 0) /\ UNCHANGED <<up, inode, content, fdtable, locked, told>>
    \/ Error(c, "EBADF") \/ Error(c, "EINVAL")

\* The process exits, for whatever reason: the kernel closes its files.
Exit(c) ==
    /\ up[c]
    /\ up' = [up EXCEPT ![c] = FALSE]
    /\ fdtable' = [fdtable EXCEPT ![c] = [f \in Fd |-> Closed]]
    /\ locked' = [locked EXCEPT ![c] = [i \in Inode |-> "UNLCK"]]
    /\ told' = [told EXCEPT ![c] = [f \in Fd |-> "UNLCK"]]
    /\ reply' = NoReply
    /\ UNCHANGED <<inode, content>>

Bytes(n) == UNION {[1 .. k -> Data] : k \in 0 .. n}

-----------------------------------------------------------------------------
(* The handlers, icbinn_prot_*_1_svc.                                      *)

\* The flags of open: bits of mode other than these four are dropped.
OpenAs(i, mode) ==
    [ino |-> i,
     read |-> "WRONLY" \notin mode,
     write |-> ("WRONLY" \in mode) # ("RDWR" \in mode)]

\* Mutant: the test for O_TRUNC looks at the wrong bit.
TruncatesIfCreat(mode) == "CREAT" \in mode

Truncates(mode) == "TRUNC" \in mode

\* open gives the lowest free number to the file.
Install(c, i, mode) ==
    \E f \in FreeFds(c) :
        /\ \A g \in FreeFds(c) : f <= g
        /\ fdtable' = [fdtable EXCEPT ![c][f] = OpenAs(i, mode)]
        /\ OK(c, f)

Open(c, n, mode) ==
    /\ up[c]
    /\ \/ /\ n = LongName
          /\ Error(c, "ENOENT")
       \/ /\ n \in Name /\ FreeFds(c) = {}
          /\ Error(c, "EMFILE")
       \/ /\ n \in Name /\ inode[n] = None /\ "CREAT" \notin mode
          /\ FreeFds(c) # {}
          /\ Error(c, "ENOENT")
       \/ /\ n \in Name /\ inode[n] = None /\ "CREAT" \in mode
          /\ FreeFds(c) # {} /\ FreeInodes = {}
          /\ Error(c, "ENOSPC")
       \/ /\ n \in Name /\ inode[n] = None /\ "CREAT" \in mode
          /\ \E i \in FreeInodes :
                /\ inode' = [inode EXCEPT ![n] = i]
                /\ content' = [content EXCEPT ![i] = <<>>]
                /\ Install(c, i, mode)
          /\ UNCHANGED <<up, locked, told>>
       \/ /\ n \in Name /\ inode[n] # None
          /\ Install(c, inode[n], mode)
          /\ content' = IF Truncates(mode)
                        THEN [content EXCEPT ![inode[n]] = <<>>]
                        ELSE content
          /\ UNCHANGED <<up, inode, locked, told>>

\* What fcntl says to F_SETLK on a descriptor open on a file.
MayLock(c, f, type) ==
    /\ type = "RDLCK" => fdtable[c][f].read
    /\ type = "WRLCK" => fdtable[c][f].write

\* Mutant: no break after the case of a write lock, so that it unlocks.
LockFallsThrough(c, f, type) ==
    /\ up[c]
    /\ \/ /\ type \notin LockType
          /\ Error(c, "EINVAL")
       \/ /\ type \in LockType /\ f \notin Own
          /\ ~(IsOpen(c, f) /\ MayLock(c, f, type))
          /\ Error(c, "EBADF")
       \/ /\ type \in LockType /\ IsOpen(c, f) /\ MayLock(c, f, type)
          /\ Conflict(c, fdtable[c][f].ino, type)
          /\ Error(c, "EAGAIN")
       \/ /\ type \in LockType /\ IsOpen(c, f) /\ MayLock(c, f, type)
          /\ ~Conflict(c, fdtable[c][f].ino, type)
          /\ locked' = [locked EXCEPT ![c][fdtable[c][f].ino] =
                            IF type = "WRLCK" THEN "UNLCK" ELSE type]
          /\ told' = [told EXCEPT ![c][f] = type]
          /\ OK(c, 0)
          /\ UNCHANGED <<up, inode, content, fdtable>>
       \/ type \in LockType /\ f \in Own /\ OnOwn(c)

\* Mutant: the type is not checked.
LockAnyType(c, f, type) ==
    /\ up[c] /\ f \notin Own
    /\ IF IsOpen(c, f) /\ MayLock(c, f, type)
          /\ ~Conflict(c, fdtable[c][f].ino, type)
       THEN /\ locked' = [locked EXCEPT ![c][fdtable[c][f].ino] = type]
            /\ told' = [told EXCEPT ![c][f] = type]
            /\ OK(c, 0)
            /\ UNCHANGED <<up, inode, content, fdtable>>
       ELSE Error(c, "EBADF")

Lock(c, f, type) ==
    /\ up[c]
    /\ \/ /\ type \notin LockType
          /\ Error(c, "EINVAL")
       \/ /\ type \in LockType /\ f \notin Own
          /\ ~(IsOpen(c, f) /\ MayLock(c, f, type))
          /\ Error(c, "EBADF")
       \/ /\ type \in LockType /\ IsOpen(c, f) /\ MayLock(c, f, type)
          /\ Conflict(c, fdtable[c][f].ino, type)
          /\ Error(c, "EAGAIN")
       \/ /\ type \in LockType /\ IsOpen(c, f) /\ MayLock(c, f, type)
          /\ ~Conflict(c, fdtable[c][f].ino, type)
          /\ locked' = [locked EXCEPT ![c][fdtable[c][f].ino] = type]
          /\ told' = [told EXCEPT ![c][f] = type]
          /\ OK(c, 0)
          /\ UNCHANGED <<up, inode, content, fdtable>>
       \/ type \in LockType /\ f \in Own /\ OnOwn(c)

\* pread reads into readbuf and the reply has as much of it as was read.
Pread(c, f, offset, count) ==
    /\ up[c]
    /\ \/ count > MaxData /\ Error(c, "EINVAL")
       \/ /\ count <= MaxData /\ f \notin Own
          /\ ~(IsOpen(c, f) /\ fdtable[c][f].read)
          /\ Error(c, "EBADF")
       \/ /\ count <= MaxData /\ f \in Own
          /\ \/ OnOwn(c)
             \/ /\ \E d \in Bytes(count) :
                      reply' = Answer(c, "OK", "NONE", 0, d)
                /\ UNCHANGED <<up, inode, content, fdtable, locked, told>>
       \/ /\ count <= MaxData
          /\ IsOpen(c, f) /\ fdtable[c][f].read
          /\ Error(c, "EIO")
       \/ /\ count <= MaxData
          /\ IsOpen(c, f) /\ fdtable[c][f].read
          /\ reply' = Answer(c, "OK", "NONE", 0,
                             Slice(content[fdtable[c][f].ino], offset, count))
          /\ UNCHANGED <<up, inode, content, fdtable, locked, told>>

\* The host may write all, or fail with no effect, or, when it runs out of
\* space half way, write a part; only a failure is told apart by the reply.
Pwrite(c, f, offset, data) ==
    /\ up[c]
    /\ \/ Len(data) > MaxData /\ Error(c, "EINVAL")
       \/ Len(data) <= MaxData /\ f \in Own /\ OnOwn(c)
       \/ /\ Len(data) <= MaxData /\ f \notin Own
          /\ ~(IsOpen(c, f) /\ fdtable[c][f].write)
          /\ Error(c, "EBADF")
       \/ /\ Len(data) <= MaxData /\ data # <<>>
          /\ IsOpen(c, f) /\ fdtable[c][f].write
          /\ Error(c, "ENOSPC")
       \/ /\ Len(data) <= MaxData /\ offset + Len(data) <= MaxSize
          /\ IsOpen(c, f) /\ fdtable[c][f].write
          /\ \E n \in 0 .. Len(data) :
                /\ data # <<>> => n > 0
                /\ content' = [content EXCEPT ![fdtable[c][f].ino] =
                                 Overwrite(@, offset, SubSeq(data, 1, n))]
          /\ OK(c, 0)
          /\ UNCHANGED <<up, inode, fdtable, locked, told>>

Ftruncate(c, f, length) ==
    /\ up[c]
    /\ \/ f \in Own /\ OnOwn(c)
       \/ /\ f \notin Own /\ ~(IsOpen(c, f) /\ fdtable[c][f].write)
          /\ Error(c, "EBADF")
       \/ /\ IsOpen(c, f) /\ fdtable[c][f].write
          /\ Error(c, "EIO")
       \/ /\ IsOpen(c, f) /\ fdtable[c][f].write /\ length <= MaxSize
          /\ content' = [content EXCEPT ![fdtable[c][f].ino] =
                           Resize(@, length)]
          /\ OK(c, 0)
          /\ UNCHANGED <<up, inode, fdtable, locked, told>>

\* mode is passed on; a file system need not support it.
Fallocate(c, f, mode, offset, length) ==
    /\ up[c]
    /\ \/ f \in Own /\ OnOwn(c)
       \/ f \notin Own /\ length = 0 /\ Error(c, "EINVAL")
       \/ /\ f \notin Own /\ length # 0
          /\ ~(IsOpen(c, f) /\ fdtable[c][f].write)
          /\ Error(c, "EBADF")
       \/ /\ length # 0
          /\ IsOpen(c, f) /\ fdtable[c][f].write
          /\ Error(c, "ENOSPC") \/ Error(c, "EINVAL")
       \/ /\ length # 0 /\ offset + length <= MaxSize
          /\ IsOpen(c, f) /\ fdtable[c][f].write
          /\ mode = "COLLAPSE_RANGE" =>
                offset + length < Len(content[fdtable[c][f].ino])
          /\ content' = [content EXCEPT ![fdtable[c][f].ino] =
                           Fallocated(@, mode, offset, length)]
          /\ OK(c, 0)
          /\ UNCHANGED <<up, inode, fdtable, locked, told>>

Fsync(c, f) ==
    /\ up[c]
    /\ \/ f \in Own /\ OnOwn(c)
       \/ f \notin Own /\ ~IsOpen(c, f) /\ Error(c, "EBADF")
       \/ IsOpen(c, f) /\ Error(c, "EIO")
       \/ /\ IsOpen(c, f) /\ OK(c, 0)
          /\ UNCHANGED <<up, inode, content, fdtable, locked, told>>

\* Closing any descriptor of a file gives up the process's locks on it, also
\* when close reports an error.  Without its socket the process ends; its
\* other own descriptors it does not need again (their numbers stay taken
\* here).
Close(c, f) ==
    /\ up[c]
    /\ \/ f \in Own /\ (OnOwn(c) \/ Exit(c))
       \/ f \notin Own /\ ~IsOpen(c, f) /\ Error(c, "EBADF")
       \/ /\ IsOpen(c, f)
          /\ fdtable' = [fdtable EXCEPT ![c][f] = Closed]
          /\ locked' = [locked EXCEPT ![c][fdtable[c][f].ino] = "UNLCK"]
          /\ told' = [told EXCEPT ![c][f] = "UNLCK"]
          /\ \/ OK(c, 0)
             \/ reply' = Answer(c, "ERROR", "EIO", 0, <<>>)
          /\ UNCHANGED <<up, inode, content>>

Unlink(c, n) ==
    /\ up[c]
    /\ \/ n = LongName /\ Error(c, "ENOENT")
       \/ n \in Name /\ inode[n] = None /\ Error(c, "ENOENT")
       \/ /\ n \in Name /\ inode[n] # None
          /\ inode' = [inode EXCEPT ![n] = None]
          /\ OK(c, 0)
          /\ UNCHANGED <<up, content, fdtable, locked, told>>

Rename(c, from, to) ==
    /\ up[c]
    /\ \/ LongName \in {from, to} /\ Error(c, "ENOENT")
       \/ /\ {from, to} \subseteq Name /\ inode[from] = None
          /\ Error(c, "ENOENT")
       \/ /\ {from, to} \subseteq Name /\ inode[from] # None
          /\ inode' = IF from = to THEN inode
                      ELSE [inode EXCEPT ![to] = inode[from], ![from] = None]
          /\ OK(c, 0)
          /\ UNCHANGED <<up, content, fdtable, locked, told>>

\* lstat: the type and the size.
Stat(c, n) ==
    /\ up[c]
    /\ \/ n = LongName /\ Error(c, "ENOENT")
       \/ n \in Name /\ inode[n] = None /\ Error(c, "ENOENT")
       \/ /\ n \in Name /\ inode[n] # None
          /\ OK(c, Len(content[inode[n]]))
          /\ UNCHANGED <<up, inode, content, fdtable, locked, told>>

-----------------------------------------------------------------------------
(* Connections come and go: see SvcMain.                                   *)

Connect(c) ==
    /\ ~up[c]
    /\ up' = [up EXCEPT ![c] = TRUE]
    /\ reply' = NoReply
    /\ UNCHANGED <<inode, content, fdtable, locked, told>>

-----------------------------------------------------------------------------
(* Clients.  A client may pass any number for a descriptor.                *)

FileFd == Fd \ Own

OpenCalls(c) == \E n \in Name \cup {LongName}, m \in Modes : Open(c, n, m)

LockCalls(c) == \E f \in Fd, t \in LockType \cup {"OTHER"} : Lock(c, f, t)

ReadCalls(c) ==
    \/ \E f \in Fd, o \in 0 .. MaxSize, n \in 0 .. MaxData + 1 :
          Pread(c, f, o, n)
    \/ \E f \in Fd : Fsync(c, f)
    \/ \E n \in Name \cup {LongName} : Stat(c, n)

\* The calls that change the contents of the file that f is open on.
WriteCalls(c, f) ==
    \/ \E o \in 0 .. MaxSize - 1, d \in Bytes(MaxData + 1) : Pwrite(c, f, o, d)
    \/ \E n \in 0 .. MaxSize : Ftruncate(c, f, n)
    \/ \E m \in FallocMode, o \in 0 .. MaxSize, n \in 0 .. MaxSize :
          Fallocate(c, f, m, o, n)

NameCalls(c) ==
    \/ \E n \in Name \cup {LongName} : Unlink(c, n)
    \/ \E m, n \in Name \cup {LongName} : Rename(c, m, n)

CloseCalls(c) == \E f \in Fd : Close(c, f)

Next ==
    \E c \in Conn :
        \/ OpenCalls(c) \/ LockCalls(c) \/ ReadCalls(c)
        \/ \E f \in Fd : WriteCalls(c, f)
        \/ NameCalls(c) \/ CloseCalls(c)
        \/ Connect(c) \/ Exit(c)

Spec == Init /\ [][Next]_vars

(***************************************************************************)
(* Clients that use locks to share files: such a client has one descriptor *)
(* at a time on a file, never truncates by opening, and changes a file     *)
(* only while it has been told that it has the write lock.                 *)
(***************************************************************************)
OneDescriptor(c, n) ==
    n \in Name => \A f \in Fd : IsOpen(c, f) => fdtable[c][f].ino # inode[n]

LockingNext ==
    \E c \in Conn :
        \/ \E n \in Name \cup {LongName}, m \in Modes :
              OneDescriptor(c, n) /\ "TRUNC" \notin m /\ Open(c, n, m)
        \/ LockCalls(c) \/ ReadCalls(c)
        \/ \E f \in FileFd : told[c][f] = "WRLCK" /\ WriteCalls(c, f)
        \/ NameCalls(c) \/ CloseCalls(c)
        \/ Connect(c) \/ Exit(c)

LockingSpec == Init /\ [][LockingNext]_vars

-----------------------------------------------------------------------------
(* Properties.                                                             *)

\* Every variable stays within the values the handlers can give it.
TypeOK ==
    /\ up \in [Conn -> BOOLEAN]
    /\ inode \in [Name -> Inode \cup {None}]
    /\ content \in [Inode -> Seq(Unit)]
    /\ fdtable \in [Conn -> [Fd -> OpenFile \cup {Closed}]]
    /\ locked \in [Conn -> [Inode -> LockType]]
    /\ told \in [Conn -> [Fd -> LockType]]
    /\ reply \in [conn : Conn \cup {None}, status : {"OK", "ERROR", "NONE"},
                  errno : Errno, val : Nat, data : Seq(Unit)]

\* A client that has been told it has a lock has that lock until it is told
\* otherwise, unless it has a second descriptor on the file: then one of its
\* own requests, and nobody else's, may take the lock away unannounced.
LockLossOwn ==
    [][\A c \in Conn, f \in FileFd :
          /\ told'[c][f] # "UNLCK"
          /\ locked'[c][fdtable'[c][f].ino] # told'[c][f]
          => \/ /\ told[c][f] = told'[c][f]
                /\ locked[c][fdtable[c][f].ino] # told[c][f]
             \/ /\ reply'.conn = c
                /\ \E g \in FileFd \ {f} :
                      fdtable[c][g].ino = fdtable[c][f].ino]_vars

\* Two locking clients are never both told that they have a lock on the same
\* file unless both are read locks, although the server keeps no lock table
\* and the kernel's locks belong to processes, not descriptors.
LockExclusion ==
    \A c, d \in Conn, f, g \in FileFd :
        /\ c # d
        /\ told[c][f] # "UNLCK" /\ told[d][g] # "UNLCK"
        /\ fdtable[c][f].ino = fdtable[d][g].ino
        => told[c][f] = "RDLCK" /\ told[d][g] = "RDLCK"

\* What a locking client has been told it locked stays as it is until the
\* client itself changes it: reads in several calls see one version, even if
\* the file is unlinked, replaced or renamed meanwhile.
LockedContentStable ==
    [][\A c \in Conn, f \in FileFd :
          /\ told[c][f] # "UNLCK"
          /\ content'[fdtable[c][f].ino] # content[fdtable[c][f].ino]
          => reply'.conn = c /\ told[c][f] = "WRLCK"]_vars
=============================================================================
