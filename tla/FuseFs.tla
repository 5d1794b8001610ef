------------------------------- MODULE FuseFs -------------------------------
(***************************************************************************)
(* The callbacks of icbinn-fuse/src/icbinn-fs.c, with the calls of the     *)
(* client library they make, over the server's handlers of ServerFiles.    *)
(* The mount is one connection, M; other connections change the directory  *)
(* between its requests.  FUSE calls back from one thread (-s), so that a  *)
(* callback ends before the next one begins; only icbinnfs_truncate takes  *)
(* several requests.                                                       *)
(*                                                                         *)
(* Results are numbers, as in the code: 0 or a count, a negative errno, or *)
(* -1, which reads as -EPERM, when a call got no answer.  read and write   *)
(* of more than one request are in ClientIO, readdir in ServerNames; flock *)
(* is compiled out (FUSE_USE_VERSION is 26).                               *)
(***************************************************************************)
EXTENDS ServerFiles

CONSTANTS
    M,                 \* the connection of the mount
    Handle,            \* the kernel's open files on it
    Node,              \* names of directories and symbolic links; LongName
                       \* may be one
    LinkLens,          \* the lengths of the links' targets
    MAXPATHLEN,        \* ICBINN_PROT_MAXPATHLEN
    MAX_SYMLINK_SIZE,
    MaxRequests        \* bound: the requests of all connections, where one
                       \* that got no answer counts twice

ASSUME FuseAssumption ==
    /\ M \in Conn /\ Name \cap Node = {} /\ MAX_SYMLINK_SIZE \in Nat \ {0}
    /\ LinkLens \subseteq Nat /\ MAXPATHLEN \in Nat /\ MaxRequests \in Nat

VARIABLES
    node,      \* what each of the names Node is
    handle,    \* fi->fh of each open file, how it was opened, and on what
    pc,        \* where the callback is
    fd,        \* the descriptor of icbinnfs_truncate
    rv,        \* and its rv
    asked,     \* the call the kernel made
    ret,       \* what the callback returned for it
    shown,     \* the length of the target icbinnfs_readlink shows
    meant,     \* history: the errno of the request that matters, or 0
    lost,      \* history: descriptors left open by calls without an answer
    quiet,     \* history: no other connection acted since the last callback
    requests   \* the requests so far

fsVars == <<node, handle, pc, fd, rv, asked, ret, shown, meant, lost, quiet,
            requests>>
fuseVars == <<vars, fsVars>>

Free == [fh |-> 0, flags |-> {}, created |-> FALSE, ino |-> None]

Gone == [type |-> "none", len |-> 0]
Directory == [type |-> "DIRECTORY", len |-> 0]
Link(n) == [type |-> "LINK", len |-> n]
Special == [type |-> "UNKNOWN", len |-> 0]     \* a fifo, a socket, a device

Ask(op, name, h, arg) == [op |-> op, name |-> name, h |-> h, arg |-> arg]
Nothing == Ask("none", None, None, 0)

\* The numbers Linux gives the errors.
Code ==
    [NONE |-> 0, EPERM |-> 1, ENOENT |-> 2, EIO |-> 5, EBADF |-> 9, EAGAIN |-> 11,
     EEXIST |-> 17, EINVAL |-> 22, EMFILE |-> 24, ENOSPC |-> 28,
     ENOTDIR |-> 20, EISDIR |-> 21, ERANGE |-> 34, ENOATTR |-> 61]

\* The errno the application is told: of a positive number that is not the
\* count of a read or a write libfuse makes ERANGE.
Told == IF ret <= 0 THEN -ret
        ELSE IF asked.op \in {"read", "write"} THEN 0 ELSE Code["ERANGE"]

FuseInit ==
    /\ up = [c \in Conn |-> TRUE]
    /\ inode \in {g \in [Name -> Inode \cup {None}] :
                    \A m, n \in Name : m # n /\ g[m] = g[n] => g[m] = None}
    /\ fdtable = [c \in Conn |-> [f \in Fd |-> Closed]]
    /\ content \in {g \in [Inode -> {<<>>} \cup {<<d>> : d \in Data}] :
                      \A i \in Inode : i \in FreeInodes <=> g[i] = <<>>}
    /\ locked = [c \in Conn |-> [i \in Inode |-> "UNLCK"]]
    /\ told = [c \in Conn |-> [f \in Fd |-> "UNLCK"]]
    /\ reply = NoReply
    /\ node \in [Node -> {Gone, Special}]
    /\ LongName \in Node => node[LongName] = Gone
    /\ handle = [h \in Handle |-> Free]
    /\ pc = "idle" /\ fd = 0 /\ rv = 0
    /\ asked = Nothing /\ ret = 0 /\ shown = 0 /\ meant = 0
    /\ lost = {} /\ quiet = TRUE /\ requests = 0

-----------------------------------------------------------------------------
(* Directories and symbolic links on the server's side.                    *)

\* A name that is too long is refused first, then the host may refuse.
NodeCall(n, ok, new, val, errno) ==
    LET good == ok /\ n # LongName
    IN  /\ up[M]
        /\ node' = [node EXCEPT ![n] = IF good THEN new ELSE @]
        /\ reply' = IF good THEN Answer(M, "OK", "NONE", val, <<>>)
                    ELSE Answer(M, "ERROR",
                                IF n = LongName THEN "ENOENT" ELSE errno, 0, <<>>)
        /\ UNCHANGED <<up, inode, content, fdtable, locked, told>>

Missing(n, errno) == IF node[n] = Gone THEN "ENOENT" ELSE errno

Mkdir(n) == NodeCall(n, node[n] = Gone, Directory, 0, "EEXIST")
Rmdir(n) == NodeCall(n, node[n] = Directory, Gone, 0, Missing(n, "ENOTDIR"))
Symlink(n, len) ==
    NodeCall(n, len < MAXPATHLEN /\ node[n] = Gone, Link(len), 0,
             IF len < MAXPATHLEN THEN "EEXIST" ELSE "ENOENT")
UnlinkNode(n) ==
    NodeCall(n, node[n] \notin {Gone, Directory}, Gone, 0, Missing(n, "EISDIR"))
Statfs(n) == NodeCall(n, node[n] # Gone, node[n], 0, "ENOENT")
StatNode(n) == NodeCall(n, node[n] # Gone, node[n], node[n].len, "ENOENT")

\* readlink gives at most what fits the caller's buffer, and no terminator.
Readlink(n, bufsz) ==
    NodeCall(n, bufsz <= MaxData /\ node[n].type = "LINK", node[n],
             IF node[n].len < bufsz THEN node[n].len ELSE bufsz,
             IF bufsz <= MaxData THEN Missing(n, "EINVAL") ELSE "EINVAL")

-----------------------------------------------------------------------------
(* The client library.  A request is answered (got), or carried out with   *)
(* its reply late or lost, or not carried out at all.  One that was given  *)
(* up and is carried out later is so before the mount's next one, which    *)
(* comes down the same connection: to the mount it is as if at once.       *)

Counted(k) == requests + k <= MaxRequests /\ requests' = requests + k
Sent(got) == Counted(IF got THEN 1 ELSE 2)

Means(got) == meant' = IF got THEN Code[reply'.errno] ELSE Code["EPERM"]

Request(A, got) ==
    /\ A \/ (~got /\ UNCHANGED vars)
    /\ Sent(got) /\ Means(got)
    /\ UNCHANGED <<node, lost>>

NodeRequest(A, got) ==
    /\ A \/ (~got /\ UNCHANGED <<vars, node>>)
    /\ Sent(got) /\ Means(got)
    /\ UNCHANGED lost

\* Mutant: the errno keeps its sign.
ResultPositive(got) == IF got THEN Code[reply'.errno] ELSE -1

\* The end of every wrapper but fallocate's: the errno is returned negative.
Result(got) == IF got THEN -Code[reply'.errno] ELSE -1

icbinn_ftruncate(f, n, got) == Request(Ftruncate(M, f, n), got)
icbinn_fsync(f, got) == Request(Fsync(M, f), got)
icbinn_unlink(n, got) ==
    IF n \in Node THEN NodeRequest(UnlinkNode(n), got)
    ELSE Request(Unlink(M, n), got)
icbinn_rename(from, to, got) == Request(Rename(M, from, to), got)
icbinn_stat(n, got) ==
    IF n \in Node THEN NodeRequest(StatNode(n), got)
    ELSE Request(Stat(M, n), got)
icbinn_mkdir(n, got) == NodeRequest(Mkdir(n), got)
icbinn_rmdir(n, got) == NodeRequest(Rmdir(n), got)
icbinn_symlink(n, len, got) == NodeRequest(Symlink(n, len), got)
icbinn_statfs(n, got) == NodeRequest(Statfs(n), got)
icbinn_readlink(n, bufsz, got) == NodeRequest(Readlink(n, bufsz), got)

readlink_result(bufsz, got) ==
    IF ~got \/ reply'.status # "OK" THEN Result(got)
    ELSE IF reply'.val > bufsz THEN -1 ELSE reply'.val

icbinn_fallocate(f, mode, o, n, got) ==
    Request(Fallocate(M, f, mode, o, n), got)

fallocate_result(got) == IF got THEN Code[reply'.errno] ELSE -1

\* An open without an answer may leave a descriptor nobody knows of.
icbinn_open(n, mode, got) ==
    /\ \/ /\ Open(M, n, mode)
          /\ lost' = IF ~got /\ reply'.status = "OK" THEN lost \cup {reply'.val}
                     ELSE lost
       \/ ~got /\ UNCHANGED <<vars, lost>>
    /\ Sent(got) /\ Means(got)
    /\ UNCHANGED node

open_result(got) ==
    IF got /\ reply'.status = "OK" THEN reply'.val ELSE Result(got)

icbinn_close(f, got) ==
    /\ \/ Close(M, f) /\ UNCHANGED lost
       \/ ~got /\ UNCHANGED vars /\ lost' = lost \cup {f}
    /\ Sent(got)
    /\ UNCHANGED node

-----------------------------------------------------------------------------
(* The callbacks.                                                          *)

\* Mutant: O_TRUNC is taken from the bit of O_WRONLY.
translate_open_flagsTruncates(flags) ==
    (flags \cap {"CREAT", "TRUNC", "WRONLY", "RDWR"})
      \cup (IF "WRONLY" \in flags THEN {"TRUNC"} ELSE {})

translate_open_flags(flags) == flags \cap {"CREAT", "TRUNC", "WRONLY", "RDWR"}

Called(a) ==
    /\ pc = "idle"
    /\ asked' = a /\ quiet' = TRUE

\* A callback of one request, or of none.
Callback(a) ==
    /\ Called(a)
    /\ pc' = "reply"
    /\ UNCHANGED <<fd, rv>>

Plain(a) == Callback(a) /\ UNCHANGED <<handle, shown>>

\* What is neither a file nor a directory nor a link is shown as missing.
icbinnfs_getattr(n) ==
    /\ Plain(Ask("getattr", n, None, 0))
    /\ \E got \in BOOLEAN :
          /\ icbinn_stat(n, got)
          /\ ret' = IF Result(got) = 0 /\ n \in Node /\ node[n] = Special
                    THEN -Code["ENOENT"] ELSE Result(got)

\* Mutant: fi->fh is set before the descriptor is looked at.
KeepAnyFd(h, n, f, flags, created) ==
    handle' = [handle EXCEPT ![h] =
        [fh |-> f, flags |-> flags, created |-> created, ino |-> inode'[n]]]

\* fi->fh is what icbinn_open returned, if that is a descriptor.
Keep(h, n, f, flags, created) ==
    handle' = IF f < 0 THEN handle
              ELSE [handle EXCEPT ![h] =
                      [fh |-> f, flags |-> flags, created |-> created,
                       ino |-> inode'[n]]]

icbinnfs_open(h, n, flags) ==
    /\ Callback(Ask("open", n, h, 0)) /\ handle[h] = Free
    /\ \E got \in BOOLEAN :
          /\ icbinn_open(n, translate_open_flags(flags), got)
          /\ Keep(h, n, open_result(got), flags, FALSE)
          /\ ret' = IF open_result(got) >= 0 THEN 0 ELSE open_result(got)
    /\ UNCHANGED shown

\* The flags the application gave are not looked at.
icbinnfs_create(h, flags) ==
    /\ pc = "create" /\ handle[h] = Free
    /\ \E got \in BOOLEAN :
          /\ icbinn_open(asked.name, {"CREAT", "TRUNC", "WRONLY"}, got)
          /\ Keep(h, asked.name, open_result(got), flags, TRUE)
          /\ ret' = IF open_result(got) >= 0 THEN 0 ELSE open_result(got)
    /\ pc' = "reply"
    /\ asked' = Ask("create", asked.name, h, 0) /\ quiet' = TRUE
    /\ UNCHANGED <<fd, rv, shown>>

icbinnfs_read(h, o, n) ==
    /\ Plain(Ask("read", None, h, [offset |-> o, count |-> n]))
    /\ \E got \in BOOLEAN :
          /\ Request(Pread(M, handle[h].fh, o, n), got)
          /\ ret' = IF got /\ reply'.status = "OK" THEN Len(reply'.data)
                    ELSE Result(got)

icbinnfs_write(h, o, d) ==
    /\ Plain(Ask("write", None, h, [offset |-> o, data |-> d]))
    /\ \E got \in BOOLEAN :
          /\ Request(Pwrite(M, handle[h].fh, o, d), got)
          /\ ret' = IF got /\ reply'.status = "OK" THEN Len(d)
                    ELSE Result(got)

icbinnfs_ftruncate(h, n) ==
    /\ Plain(Ask("ftruncate", None, h, n))
    /\ \E got \in BOOLEAN :
          icbinn_ftruncate(handle[h].fh, n, got) /\ ret' = Result(got)

icbinnfs_fallocate(h, mode, o, n) ==
    /\ Plain(Ask("fallocate", None, h,
                 [mode |-> mode, offset |-> o, length |-> n]))
    /\ \E got \in BOOLEAN :
          /\ icbinn_fallocate(handle[h].fh, mode, o, n, got)
          /\ ret' = fallocate_result(got)

icbinnfs_fsync(h) ==
    /\ Plain(Ask("fsync", None, h, 0))
    /\ \E got \in BOOLEAN : icbinn_fsync(handle[h].fh, got) /\ ret' = Result(got)

\* The kernel drops the open file whatever release returns.
icbinnfs_release(h) ==
    /\ Callback(Ask("release", None, h, 0))
    /\ \E got \in BOOLEAN :
          icbinn_close(handle[h].fh, got) /\ Means(got) /\ ret' = Result(got)
    /\ handle' = [handle EXCEPT ![h] = Free]
    /\ UNCHANGED shown

\* icbinnfs_truncate: open, ...
TruncateOpen(n, length) ==
    /\ Called(Ask("truncate", n, None, length))
    /\ \E got \in BOOLEAN :
          /\ icbinn_open(n, {"WRONLY"}, got)
          /\ IF open_result(got) < 0
             THEN pc' = "reply" /\ ret' = open_result(got) /\ UNCHANGED fd
             ELSE pc' = "ftruncate" /\ fd' = open_result(got) /\ UNCHANGED ret
    /\ UNCHANGED <<handle, rv, shown>>

\* Mutant: a failed ftruncate returns at once.
TruncateFtruncateReturns ==
    /\ pc = "ftruncate"
    /\ \E got \in BOOLEAN :
          /\ icbinn_ftruncate(fd, asked.arg, got)
          /\ rv' = Result(got)
          /\ IF rv' = 0 THEN pc' = "close" /\ UNCHANGED ret
             ELSE pc' = "reply" /\ ret' = rv'
    /\ UNCHANGED <<handle, fd, asked, shown, quiet>>

\* ... ftruncate, ...
TruncateFtruncate ==
    /\ pc = "ftruncate"
    /\ \E got \in BOOLEAN :
          icbinn_ftruncate(fd, asked.arg, got) /\ rv' = Result(got)
    /\ pc' = "close"
    /\ UNCHANGED <<handle, fd, asked, ret, shown, quiet>>

\* Mutant: the result of the close is returned.
TruncateCloseReturns ==
    /\ pc = "close"
    /\ \E got \in BOOLEAN : icbinn_close(fd, got) /\ ret' = Result(got)
    /\ pc' = "reply" /\ fd' = 0 /\ rv' = 0
    /\ UNCHANGED <<handle, asked, shown, meant, quiet>>

\* ... and close, whose result is not looked at.
TruncateClose ==
    /\ pc = "close"
    /\ \E got \in BOOLEAN : icbinn_close(fd, got)
    /\ ret' = rv
    /\ pc' = "reply" /\ fd' = 0 /\ rv' = 0
    /\ UNCHANGED <<handle, asked, shown, meant, quiet>>

icbinnfs_unlink(n) ==
    /\ Plain(Ask("unlink", n, None, 0))
    /\ \E got \in BOOLEAN :
          icbinn_unlink(n, got) /\ ret' = Result(got)

icbinnfs_rename(old, new) ==
    /\ Plain(Ask("rename", old, new, 0))
    /\ \E got \in BOOLEAN : icbinn_rename(old, new, got) /\ ret' = Result(got)

icbinnfs_mkdir(n) ==
    /\ Plain(Ask("mkdir", n, None, 0))
    /\ \E got \in BOOLEAN : icbinn_mkdir(n, got) /\ ret' = Result(got)

icbinnfs_rmdir(n) ==
    /\ Plain(Ask("rmdir", n, None, 0))
    /\ \E got \in BOOLEAN : icbinn_rmdir(n, got) /\ ret' = Result(got)

icbinnfs_symlink(n, len) ==
    /\ Plain(Ask("symlink", n, None, len))
    /\ \E got \in BOOLEAN : icbinn_symlink(n, len, got) /\ ret' = Result(got)

icbinnfs_statfs(n) ==
    /\ Plain(Ask("statfs", n, None, 0))
    /\ \E got \in BOOLEAN : icbinn_statfs(n, got) /\ ret' = Result(got)

\* _buf[rv] = 0, in the last place when there is no room behind the target.
Terminated(bytes) ==
    IF bytes < MAX_SYMLINK_SIZE THEN bytes ELSE MAX_SYMLINK_SIZE - 1

icbinnfs_readlink(n) ==
    /\ Callback(Ask("readlink", n, None, 0))
    /\ \E got \in BOOLEAN :
          /\ icbinn_readlink(n, MAX_SYMLINK_SIZE, got)
          /\ LET bytes == readlink_result(MAX_SYMLINK_SIZE, got)
             IN  IF bytes >= 0 THEN ret' = 0 /\ shown' = Terminated(bytes)
                 ELSE ret' = bytes /\ UNCHANGED shown
    /\ UNCHANGED handle

\* Not supported by the server: these send nothing.
icbinnfs_utimens(n) ==
    /\ Plain(Ask("utimens", n, None, 0)) /\ ret' = 0 /\ meant' = 0
    /\ UNCHANGED <<vars, node, lost, requests>>

icbinnfs_getxattr(n) ==
    /\ Plain(Ask("getxattr", n, None, 0))
    /\ ret' = -Code["ENOATTR"] /\ meant' = Code["ENOATTR"]
    /\ UNCHANGED <<vars, node, lost, requests>>

\* libfuse answers the kernel and waits for the next call.  When an
\* application creates a file, the kernel looks the name up first.
Reply ==
    /\ pc = "reply"
    /\ \/ pc' = "idle" /\ asked' = Nothing
       \/ /\ asked.op = "getattr" /\ asked.name \in Name
          /\ ret = -Code["ENOENT"]
          /\ pc' = "create" /\ UNCHANGED asked
    /\ ret' = 0 /\ meant' = 0 /\ shown' = 0
    /\ reply' = NoReply
    /\ UNCHANGED <<up, inode, content, fdtable, locked, told,
                   node, handle, fd, rv, lost, quiet, requests>>

-----------------------------------------------------------------------------
(* What the applications may do by way of the kernel, and the others.      *)

Flags == {{}, {"WRONLY"}, {"RDWR", "APPEND"}}

\* The modes of fallocate the kernel lets a FUSE file system see.
KernelModes == {"ALLOC", "KEEP_SIZE", "PUNCH_HOLE"}

OpenHandle == {h \in Handle : handle[h] # Free}

HandleCalls(h) ==
    \/ icbinnfs_read(h, 0, MaxData)
    \/ \E d \in Bytes(MaxData) \ {<<>>} : icbinnfs_write(h, 0, d)
    \/ \E n \in 0 .. MaxSize : icbinnfs_ftruncate(h, n)
    \/ \E m \in KernelModes, n \in 0 .. MaxSize : icbinnfs_fallocate(h, m, 0, n)
    \/ icbinnfs_fsync(h)
    \/ icbinnfs_release(h)

PathCalls(n) ==
    \/ icbinnfs_getattr(n)
    \/ \E h \in Handle, flags \in Flags : icbinnfs_open(h, n, flags)
    \/ \E length \in 0 .. MaxSize : TruncateOpen(n, length)
    \/ icbinnfs_unlink(n)
    \/ \E m \in Name : icbinnfs_rename(n, m)
    \/ icbinnfs_utimens(n)
    \/ icbinnfs_getxattr(n)

NodeCalls(n) ==
    \/ icbinnfs_mkdir(n) \/ icbinnfs_rmdir(n) \/ icbinnfs_unlink(n)
    \/ \E len \in LinkLens : icbinnfs_symlink(n, len)
    \/ icbinnfs_getattr(n) \/ icbinnfs_readlink(n) \/ icbinnfs_statfs(n)

\* Requests of other connections that change something.
OtherCalls(c) ==
    /\ \/ \E n \in Name : Open(c, n, {"CREAT", "WRONLY"})
       \/ \E f \in FileFd : (\E d \in Data : Pwrite(c, f, 0, <<d>>)) \/ Close(c, f)
       \/ NameCalls(c)
    /\ <<inode, content, fdtable>>' # <<inode, content, fdtable>>
    /\ pc # "reply" /\ quiet' = FALSE
    /\ Counted(1)
    /\ UNCHANGED <<node, handle, pc, fd, rv, asked, ret, shown, meant, lost>>

FuseNext ==
    \/ \E h \in OpenHandle : HandleCalls(h)
    \/ \E n \in Name : PathCalls(n)
    \/ \E n \in Node : NodeCalls(n)
    \/ \E h \in Handle, flags \in Flags : icbinnfs_create(h, flags)
    \/ TruncateFtruncate \/ TruncateClose \/ Reply
    \/ \E c \in Conn \ {M} : OtherCalls(c)

FuseSpec == FuseInit /\ [][FuseNext]_fuseVars

-----------------------------------------------------------------------------
(* Properties.                                                             *)

\* As long as the connection lasts, every open file of the mount has a
\* descriptor of its own in the server's process, on the file it was opened
\* on and with the rights it was opened with, whatever others do to the names
\* and however often truncate opens and closes a descriptor beside it; fi->fh
\* is never an error taken for a descriptor.  A file that was opened by
\* creating it can only be written.
HandlesValid ==
    \A h \in OpenHandle :
        LET d == fdtable[M][handle[h].fh]
        IN  /\ handle[h].fh \in FileFd /\ d.ino = handle[h].ino
            /\ d.read = ("WRONLY" \notin handle[h].flags /\ ~handle[h].created)
            /\ d.write = ({"WRONLY", "RDWR"} \cap handle[h].flags # {}
                            \/ handle[h].created)
            /\ \A g \in OpenHandle \ {h} : handle[g].fh # handle[h].fh
            /\ handle[h].fh \notin lost

\* Every descriptor open for the mount belongs to an open file or to a
\* truncate that is not over, or was left by a call that got no answer.
DescriptorsAccounted ==
    \A f \in FileFd : IsOpen(M, f) =>
        \/ \E h \in OpenHandle : handle[h].fh = f
        \/ pc \in {"ftruncate", "close"} /\ f = fd
        \/ f \in lost

\* The application is told the errno of the request its call came down to,
\* and EPERM if that got no answer, with two exceptions: fallocate passes
\* its errno on with the wrong sign, and the application is told ERANGE
\* whatever it was; and a special file is there but shown as missing.
ErrnoTold ==
    pc = "reply" =>
        Told = IF asked.op = "fallocate" /\ meant > Code["EPERM"]
               THEN Code["ERANGE"]
               ELSE IF asked.op = "getattr" /\ asked.name \in Node
                         /\ meant = 0 /\ node[asked.name] = Special
               THEN Code["ENOENT"]
               ELSE meant

\* What a call on an open file has done when the application is told that it
\* succeeded.  Of a write no more than a first part need be stored: the
\* server does not say how much was, and the whole count is returned.
FileDone(a) ==
    LET f == handle[a.h].fh
        i == handle[a.h].ino
    IN  /\ a.op = "read" =>
             /\ reply'.data = Slice(content[i], a.arg.offset, a.arg.count)
             /\ ret' = Len(reply'.data)
        /\ a.op = "write" =>
             /\ ret' = Len(a.arg.data)
             /\ \E k \in 1 .. Len(a.arg.data) :
                   content' = [content EXCEPT ![i] =
                       Overwrite(@, a.arg.offset, SubSeq(a.arg.data, 1, k))]
        /\ a.op = "ftruncate" =>
             content' = [content EXCEPT ![i] = Resize(@, a.arg)]
        /\ a.op = "fallocate" =>
             content' = [content EXCEPT ![i] =
                 Fallocated(@, a.arg.mode, a.arg.offset, a.arg.length)]
        /\ a.op = "fsync" =>
             /\ reply' = Answer(M, "OK", "NONE", 0, <<>>)
             /\ fdtable[M][f].ino = i /\ UNCHANGED <<fdtable, content>>
        /\ a.op = "release" => fdtable'[M][f].ino = None

\* What a call on the name of a file has done.  utimens has done nothing.
NameDone(a) ==
    LET n == a.name
    IN  /\ a.op = "getattr" /\ n \in Name => inode[n] # None
        /\ a.op = "open" => inode[n] # None /\ handle'[a.h].ino = inode[n]
        /\ a.op = "create" =>
             handle'[a.h].ino = inode'[n] /\ Len(content'[inode'[n]]) = 0
        /\ a.op = "truncate" /\ quiet' =>
             inode'[n] # None /\ Len(content'[inode'[n]]) = a.arg
        /\ a.op = "rename" =>
             /\ inode[n] # None /\ inode'[a.h] = inode[n]
             /\ n # a.h => inode'[n] = None
        /\ a.op = "unlink" /\ n \in Name => inode[n] # None /\ inode'[n] = None
        /\ a.op = "utimens" => UNCHANGED <<inode, content, node>>

\* What a call on a directory or a link has done.  readlink shows the target
\* without its end if there is no room for the terminator.
NodeDone(a) ==
    LET n == a.name
    IN  /\ a.op = "getattr" /\ n \in Node => node[n] \notin {Gone, Special}
        /\ a.op = "mkdir" => node[n] = Gone /\ node'[n] = Directory
        /\ a.op = "rmdir" => node[n] = Directory /\ node'[n] = Gone
        /\ a.op = "symlink" => node[n] = Gone /\ node'[n] = Link(a.arg)
        /\ a.op = "unlink" /\ n \in Node =>
             node[n] \notin {Gone, Directory} /\ node'[n] = Gone
        /\ a.op = "statfs" => node[n] # Gone
        /\ a.op = "readlink" =>
             /\ node[n].type = "LINK"
             /\ shown' = IF node[n].len < MAX_SYMLINK_SIZE THEN node[n].len
                         ELSE MAX_SYMLINK_SIZE - 1

\* When a callback ends and the application is told of success, the host has
\* done what was asked to the file, the name or the node meant, by the time
\* it is told; for truncate by path, if no other connection acted between
\* its requests.  Three successes are weaker than the application expects
\* and are stated as they are: a short write is told as a whole one, utimens
\* does nothing, and a long link is shown cut.
AcknowledgedEffect ==
    [][pc # "reply" /\ pc' = "reply" /\ Told' = 0 =>
          FileDone(asked') /\ NameDone(asked') /\ NodeDone(asked')]_fuseVars

\* A file that has a name or is open loses contents by a request of the
\* mount only when an application asked to truncate it, or when another
\* connection acted between the lookup that did not find the name and the
\* create that follows, which truncates what it finds.
ShortenedOnlyIfAsked ==
    [][\A i \in Inode \ FreeInodes :
          Len(content'[i]) < Len(content[i]) /\ reply'.conn = M =>
              \/ asked'.op \in {"truncate", "ftruncate"}
              \/ asked'.op = "create" /\ ~quiet]_fuseVars
=============================================================================
