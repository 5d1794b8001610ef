# A verification of icbinn

icbinn gives the guests of a XenClient host access to directories of the
control domain: a daemon on the host forks a process for each connection,
confines it to the directory configured for the guest, and answers file
operations sent by ONC RPC.  A client library, a command line client, a FUSE
file system and a Python binding use it.  This directory holds TLA+ models of
its core, the TLC configurations that check them and proofs for TLAPS.

Paths below are relative to `src/`.

## Inventory

| component | state | operations | interacts with |
|---|---|---|---|
| daemon, `libicbinn/server/svc_main.c` | parent: listening sockets, accepted descriptor and its index; child: the connection, `icbinn_path`, root directory, libtirpc's `svc_fdset` | accept, fork, close; look up the directory, mkdir, chdir, chroot, register, request loop with a time-out | clients by sockets, children by fork, xenmgr by D-Bus, the host's directories |
| directory lookup, `server/dbusrpc.c` | none (one buffer) | `get_icbinn_path` | called by each child |
| file procedures, `server/server.c` | the process's descriptor table, static results, the host's files and POSIX locks | open, lock, pread, pwrite, ftruncate, fallocate, fsync, close, unlink, rename, stat, statfs | processes share directories and so files and locks |
| name procedures, `server/server.c` | the host's directories | readdir, mkdir, rmdir, symlink, readlink, rename, unlink | as above |
| random numbers, `server/server.c` | two device descriptors | `init_rand`, rand | opened before chroot, used after |
| client library, `libicbinn/src` | one RPC handle, the stubs' static results | one function per procedure; loops over `ICBINN_MAXDATA` in pread, pwrite, rand | libtirpc; calls block up to its time-out |
| commands get and put, `libicbinn/client` | local and remote descriptor, offset | open, lock, copy, close | client library |
| command ls, FUSE readdir | offset `i` | one `icbinn_readent` per entry | client library |
| shell of the client, `client/client.c` | options, line buffer, `argv`, the connection | read a line, split it, find the command, run it; quit | the commands |
| FUSE file system, `icbinn-fuse` | one shared `ICBINN`, `fi->fh` of each open file | a callback per operation, truncate of three requests | client library; libfuse and the kernel |
| protocol, `rpc/icbinn_prot.x` | - | 20-odd procedures | rpcgen |
| pyicbinn, libicbinn_resolved, test, build | - | - | generated or no logic |

What is hard in it, and what makes each part correct:

* **Concurrency and failure in the daemon.**  Several connections are between
  accept and the request loop at the same time, each step of a child may fail,
  the parent may die at fork, a client may go away at any point.  Correct
  means: a child that serves is confined to *its* client's directory; sockets
  and connections are open only where they have to be, so that an end is seen
  as an end; nobody waits for ever.
* **Sharing of files between processes.**  The server keeps no lock table: it
  relies on POSIX locks, which belong to a process and an inode while the
  client thinks in descriptors and names.  Correct means: locks exclude, and
  are lost only by what the client itself does.
* **Commands of many requests.**  get, put and ls are sequences of requests
  with other clients' requests in between and failures at every one.  Correct
  means: what a command reports as done is done, and it leaves nothing open.
* **Limits**: requests of `ICBINN_MAXDATA`, path buffers, descriptors, the
  ends of files and directories.
* **Time-outs** of calls whose effect still happens: the request stays on the
  connection, and its reply arrives during another call.  Correct means: a
  reply is never taken for another call's, nothing is carried out twice, a
  descriptor in use is never hit by an old close.
* **One connection for many applications.**  The mount turns the calls of all
  of them into requests of one process of the server.  Correct means: every
  open file keeps a descriptor of its own, an application is told what
  happened, and no file is shortened that nobody asked to shorten.
* **Text** typed by a user: the loops that cut a line and find the command
  agree with what the line means, at every boundary of the buffers.

The hazards, each at its line, are listed in `PROJECT.json`.

## Modules

| module | models | kind |
|---|---|---|
| `SvcMain` | `svc_main.c`, `get_icbinn_path` | parent, children, kernel's sockets, clients |
| `SvcMainProofs` | | theorems about `SvcMain` |
| `ServerFiles` | file procedures of `server.c` on several connections | handlers over files, descriptors and locks |
| `ServerFilesProofs` | | theorems about `ServerFiles` |
| `ServerNames` | name procedures, readdir, `readdir.c`, `ls.c`, `icbinnfs_readdir` | a listing among changes |
| `ServerNamesProofs` | | theorems about `ServerNames` |
| `ClientIO` | `pread.c`, `pwrite.c`, `rand.c`, `icbinn_prot_rand_1_svc` | calls of several requests, composed with `ServerFiles` |
| `ClientIOProofs` | | theorems about `ClientIO` |
| `GetPut` | `get.c`, `put.c` and the library calls they make | composed with `ServerFiles`: the commands' steps contain the handlers |
| `GetPutProofs` | | theorems about `GetPut` |
| `CallOnce` | | abstract: calls carried out at most once and in order |
| `RpcClient` | `src/client.c`, stubs, `open.c`, `pread.c`, `close.c`, the request loop | calls as messages, composed with `ServerFiles`; refines `CallOnce` |
| `RpcClientProofs` | | theorems about `RpcClient` |
| `FuseFs` | `icbinn-fs.c`, the library's wrappers, statfs and readlink of `server.c` | callbacks composed with `ServerFiles` |
| `FuseFsProofs` | | theorems about `FuseFs` |
| `Shell` | `client/client.c` | options, input loop, parser |
| `ShellProofs` | | theorems about `Shell` |
| `MC...` | small instances | constants, symmetry and views |

### SvcMain

A member of `Client` is one connection attempt; the child forked for it has
the same name.  `held[p]` is the set of sockets process `p` has open: the
listening sockets are numbers (the indices of `sockfds`), the connections are
clients.  fork copies `held`, close removes from it, exit empties it, and
whether a client sees the end of its connection (`Connected`) is computed from
it.  That is where mistakes with inherited descriptors would show.

One action is one step of the code between two points where another process
can run: `MainSelect`, `MainAccept` (one round of the loop over the ready
sockets, the failed accept included), `MainFork` or `MainForkFails`,
`MainClose` for the parent; `ChildStart`, `InitRand`, `Lookup`, `Stat`,
`Mkdir`, `Chdir`, `Chroot`, `Register` and the three places of the request
loop for a child.  Every `fatal` is `Exit`.  `MainAccept` takes any queued
connection of the socket: the order of the kernel's queue is not used by the
code.  A request and its reply are one step of the child here; what the
handlers do is the subject of `ServerFiles`.

External: the sockets are TCP without keep-alive (the code sets none).  A
client may close, be aborted before accept, or vanish without a packet; a
reply that is not acknowledged in the end fails the connection.  xenmgr may
fail to answer.  Directories are not removed while a child starts.

### ServerFiles

Each handler makes one system call that has an effect, so it is one action;
those of different connections interleave.  `fdtable` is each process's
descriptor table, `locked` the kernel's record locks by process and inode,
`told` (history) what a client was last told it has by way of a descriptor:
the two differ exactly as POSIX says, and `LockExclusion` relates them.  Names
refer to inodes, so rename and unlink under an open file are real.  Handlers
take any descriptor number, as the code does.  The connection, the devices and
the log have numbers too (`Own`); a call on one of those succeeds or fails
without touching a file (`OnOwn`), and closing the connection's may end the
process.  The host may fail any call on a valid descriptor with EIO, pwrite
may write a part, and fallocate passes on every mode: `ALLOC` extends,
`KEEP_SIZE` changes nothing, `PUNCH_HOLE` and `COLLAPSE_RANGE` take data away
(`Fallocated`).

Two specifications: `Spec` with clients that do anything, and `LockingSpec`
with clients that follow the discipline under which POSIX locks protect (one
descriptor per file in a process, no truncation by open, changes only when
told of the write lock).  Without it `LockExclusion` is false, by POSIX.

### ServerNames

One directory, a lister, and other clients' calls that add, remove and rename
names at any time.  The readdir handler is split at its system calls: opendir,
the C library's reads of `Batch` entries, lstat of each entry.  `cursor` and
`buffer` are the open directory stream, `doffset` and `entries` the handler's
variables, `i` the client's.  Procedures other than readdir that fail change
nothing and are left out as steps.  A type is one of the four that
`set_icbinn_prot_type` tells apart, `UNKNOWN` for what is neither file, nor
directory nor link; such names are there from the start or by rename.  The two clients differ in what FUSE may
refuse.

### ClientIO

Extends `ServerFiles`.  A client has the file open and makes one call: pread,
pwrite or rand of more than a request can carry.  `count`, `offset`, `ret` are
the loop's variables, `Account` is its body after the worker returned, and
`Ended` and `Returned` are its early return.  The three loops are the same
text, so the actions differ only in the handler they call.  A request may be
refused, be carried out with its reply lost, or not arrive (`Lose`).

### GetPut

Extends `ServerFiles`; a step of a command is the handler it calls and what
the command does with the reply.  A call may get no answer in time with its
request carried out or not (`Unanswered`: the stub returns NULL and the call
-1 while the connection lives on), the connection may be lost at any time, and
local files may fail, put's at its very start.  `lost` (history) are the
descriptors that an open or a close without an answer left at the server.  `PutLock` passes the number of the local file and
`GetLock` any number (an unassigned variable), as the code does.  `disturbed`
and `short` are history variables that say when exactness cannot be expected.

### CallOnce and RpcClient

`RpcClient` extends `ServerFiles` with one connection `C`.  A call is four
things that can be far apart: the stub clears its static `result` and sends
the request (`Begin`), the server carries it out (`Serve`: the handler of
`ServerFiles` at the head of `toServer`, its reply appended to `toClient`),
the stub reads a reply (`Receive`: one with another xid is thrown away), the
wrapper looks into the static result (`Return`).  `GiveUp` is libtirpc's
time-out: the call returns, request and reply stay on their way.  open, pread
and close stand for all procedures: one that gives out a descriptor, one that
returns what is behind it, one that takes it back.  A descriptor passed to
close is not used again (both programs do so).  The threads of one program are
the members of `Thread`; `SingleThreaded` is the `-s` that `icbinn-fs` passes
to FUSE, and its mutant shows what the comment there says, that "icbinn access
is not safe otherwise".

`Destroy` closes the socket.  Replies the program never read turn the close
into a reset, so that any of the last requests may be lost.  `Break` is a
killed server process or a lost connection at any moment.

`CallOnce` is what a program may rely on: calls are made one at a time, each
is carried out at most once and never after a later one, it returns the answer
it got or a failure, and it returns.  The refinement keeps `carried` and
`outcome`, which are history variables of `RpcClient`, and hides the rest.

### FuseFs

Extends `ServerFiles`; the mount is the connection `M`, the others change
names and files between its requests.  Each callback is one action with its
library call and the server's handler in it, since FUSE is single-threaded and
a callback of one request has no point where its own state could change in
between; `icbinnfs_truncate` is three (`TruncateOpen`, `TruncateFtruncate`,
`TruncateClose`).  `handle[h].fh` is `fi->fh`, kept by the kernel.  Results are
the numbers of the code (0, counts, descriptors, negative errno), so that a
sign lost on the way shows; `Told` is what libfuse makes of them.  A request
may get no answer, carried out or not (`got` is FALSE); one carried out late
is carried out before the mount's next request, which comes down the same
connection, so that nobody can tell it from one carried out at once.  `lost` remembers the
descriptors such calls leave.  `Reply` clears what was compared and lets the
next callback begin; after a lookup that found nothing it may be followed by
`icbinnfs_create` without another lookup, which is how the kernel creates, and
where another client comes in between.

Names are of two sorts: `Name` for files, with inodes as in `ServerFiles`, and
`Node` for names that are directories, links or special files.  Links are
modelled by the length of their target, the only thing the code's buffers
tell apart.  The server's own refusals come first: a path (`LongName`) or a
link target of `MAXPATHLEN` is ENOENT, a readlink buffer beyond `MaxData` is
EINVAL.

### Shell

The program's variables (`opts`, `line`, `argv`, `cmd`) and the user's
(`stdin`, `eof`, `broken`).  Here lines are sequences of characters, because
prefixes, spaces and sizes are what the code is about.  `Split`, `Match` and
`find_command` follow the loops of the code; `Words`, `Named` and
`Abbreviated` say what a line means without loops, and the properties compare
the two.  A handler returns 0 or an error.  What is typed is text, without
NULs, so that fgets never leaves an empty line.  `argv` has room for the words
of any line; the code's has 32 entries (see below).

## Runs

| run | checks | bounds |
|---|---|---|
| `svc_main` | 4 invariants, `MkdirRaceHarmless`, 2 liveness properties | 2 clients, 3 sockets, backlog 0, 3 directories |
| `svc_vanished` | violation of `VanishedClientReaped` | the same |
| `server_files` | `TypeOK`, `LockLossOwn` of `Spec` | 2 connections, 1 name, 2 inodes, 1 descriptor of its own and 2 for files each, files of 0 or 1 unit |
| `locking` | `LockExclusion`, `LockedContentStable` of `LockingSpec` | the same, 2 names, data and holes told apart |
| `server_names` | 4 invariants, `ListingEnds` | 1 listing, 3 names, 2 dot entries, buffer of 2 |
| `client_io` | 4 invariants, `CallsReturn` | 2 clients, one call each of up to 4 units in requests of 2, files of 0, 3 and 4 units |
| `get_put` | 4 invariants, `CommandsReturn` | 2 clients, 2 commands each, requests of 2 units, local files of 0 and 3 units, 2 file descriptors at the server, so that after one time-out a command still runs and after two open fails |
| `rpc_client` | 3 invariants, the refinement of `CallOnce`, `Released` | 5 calls on 2 files, 2 descriptors, 2 threads |
| `fuse_fs` | 3 invariants, `AcknowledgedEffect`, `ShortenedOnlyIfAsked` | 5 requests of a mount and another connection, 2 files of up to 2 units, 2 open files, 2 descriptors, writes of 1 or 2 units (so that one can be short), a node and a name that is too long, link targets of 1, 2 and 3 characters with a buffer of 2 and a `MAXPATHLEN` of 3 |
| `shell` | 3 invariants, `SessionEnds` | 2 lines or a `-c` command; every beginning of every command, alone, longer by a letter and with up to 2 arguments; buffer of 11 characters |
| `get_put_lock`, `get_put_short` | violations of `CopyUnderLock`, `PutComplete` | the same |

Why the bounds are enough for the questions asked: two children suffice for
every race over one directory and for one inheriting the other's descriptors,
and three sockets for the fields of a path that are usable, empty and missing.
A conflict of locks takes two processes; a name that moves to another file
takes two names and two inodes; a lock lost by closing another descriptor
takes two.  Three names leave one before and one after the entry that changes,
and a buffer of two makes a scan refill in the middle.  A file of three units
in requests of two has a full part, a short part and an end.
Five calls are an open, its close given up, an open that is given the number
again, a read through it, and one more; five requests a lookup, another
client's creation, a create and two uses, or a whole truncate with an open
file beside it.  A call without an answer counts twice in `fuse_fs`, so at
most two are lost.  Eleven characters hold most commands with an argument and
cut the longer ones.

`ServerFiles.cfg`, `Locking.cfg` and `FuseFs.cfg` use symmetry (what is
permuted is interchangeable, and no liveness is checked).  Views leave out what
no later step reads: the first two `reply` (TLC evaluates an action property on
every step, with the reply in it), `FuseFs.cfg` the arguments and the reply of a
callback that has ended, `GetPut.cfg` the reply, `told`, and the variables of a
command that is over, which the next one sets again.  Deadlock is not checked: when all clients
are gone, done or out of calls the system rests.

**Fairness.**  `SvcMain`: weak fairness of each process (the operating system
schedules it, select's time-out expires), strong fairness of a successful
accept (shortages pass), weak fairness of the kernel's failing an
unacknowledged reply.  Clients promise nothing.  `GetPut` and `ServerNames`:
weak fairness of a command once started, that is, the client runs and the
server answers or the time-out of the call (25 s in rpcgen's stubs) expires.  `ClientIO`: weak fairness of the steps
in which the server answers; giving up for lack of an answer is possible but
not relied on.  `RpcClient`: weak fairness of a waiting stub (its time-out
expires), of the wrapper behind it and of a running server process that has
been sent something or an end; none of the program's own calls, so that
nothing relies on a program's closing what it opened.  `Shell`: weak fairness
of the program, none of the user; handlers return, which the other modules
check.  `FuseFs` has only safety properties.

### What the passing runs say that a reader might not expect

* `LeakExplained`, `Released`: an open that timed out leaves a descriptor in
  the server's process that only the end of the connection gives back.
* `HeldIsOpen`: a close that timed out and is carried out late is harmless,
  because the connection keeps the order: the number cannot have been given
  out again before.
* `ErrnoTold` states two exceptions the code has: `icbinn_fallocate` returns
  its errno positive, and the application is told ERANGE; a file that is
  neither regular nor directory nor link is listed but shown as missing.
* `AcknowledgedEffect` states three successes that are weaker than the
  application expects: a write of which the host stored a part returns the
  whole count, utimens returns 0 and does nothing, and readlink of a target
  that does not fit succeeds with the target cut short.
* `DescriptorsReturned`: get and put close the remote file on every path, but
  an open that timed out, or a close that timed out and was not carried out,
  costs the session a descriptor each time: the commands return -1 and nobody
  knows the number.
* `LockLossOwn`: a client that opens a locked file a second time and closes
  that descriptor has lost its lock without being told; nothing another client
  sends can do this.
* `ShortenedOnlyIfAsked`, `HandlesValid`: create ignores the application's
  flags.  Without O_EXCL it empties what another client created since the
  lookup, and what it opens can only be written.

### What the violations show

* `svc_vanished`: `check_client_alive` writes no bytes to the connection.  On
  TCP that sends nothing and succeeds, so a client whose machine is lost while
  idle keeps its process, with its locks, although the code's message for this
  case is "client does not seem alive, exiting".
* `get_put_lock`: put and get pass `fd` where `ifd` is meant; with a number
  that means one of the server's own descriptors the lock succeeds, and the
  copy proceeds without it.
* `get_put_short`: the server answers OK to a short write and the library
  turns this into the full count; put's comparison cannot see it.

## Proofs

For every number of clients, sockets, names, inodes, descriptors and every
size.  The assumptions are the named `ASSUME`s of the modules, which TLC
evaluates in the runs.

| module | theorems |
|---|---|
| `SvcMainProofs` | `TypeCorrect`, `RightRootAlways`, `NoForeignConnectionAlways`, `ListenersReleasedAlways`, `MkdirRaceHarmlessAlways` |
| `ServerFilesProofs` | `TypeCorrect`, `LockLossOwnAlways` for `Spec`; `LockExclusionAlways`, `LockedContentStableAlways` for `LockingSpec` |
| `ServerNamesProofs` | `TypeCorrect`, `RemovalsRepeatNothingAlways`, `CreationsHideNothingAlways`, `QuietListingExactAlways` |
| `ClientIOProofs` | `IOTypeCorrect`, `ReadReportedAlways`, `WriteReportedAlways`, `ShortForAReasonAlways` |
| `GetPutProofs` | `GPTypeCorrect`, `DescriptorsReturnedAlways`, `QuietGetExactAlways`, `QuietPutExactAlways` |
| `RpcClientProofs` | `RpcTypeCorrect`, `HeldIsOpenAlways`, `LeakExplainedAlways`, `RefinesCallOnceSafety` |
| `FuseFsProofs` | `HandlesValidAlways`, `DescriptorsAccountedAlways`, `ErrnoToldAlways`, `AcknowledgedEffectAlways`, `ShortenedOnlyIfAskedAlways` |
| `ShellProofs` | `TypeCorrect`, `HandlerGetsWordsAlways`, `CommandMeantAlways` |

What the assumptions say that is not plain typing: a request carries at least
one byte and a process has at least one descriptor beyond its own (`GetPut`); a
path that names something is not an object of the remote tree (`FuseFs`); the
names a directory can hold are finitely many, because their length is bounded
by `ICBINN_PROT_MAXPATHLEN` (`ServerNames`); there are inodes and data enough
for every name to have a file of its own that can be told from the others, and
a reply is not the "nothing yet" value (`RpcClient`); what is typed holds no
newline but at its end (`Shell`).

`SvcMain`'s inductive invariant `IInv` adds to the properties what they rest
on.  `MadeInv`: a connection that is queued, held or served has been made, so
its `port` does not change any more.  `ParentInv`: between accept and close
`socket_index` is the port of `svfd`, which has no child yet when it is about
to be forked; at any other time the parent holds listening sockets only (this
is why fork copies no foreign connection).  `ChildInv`: the child's index is
its client's port, and its path and root are what the lookup gives for it.
`DirInv`: past chdir the directory exists.  The action property needs the last
two: a child in chdir with a creatable path finds it there.

`ServerFiles`: `LossInv` adds `OpenInv` to the types (only a running process
has open files, and only on numbers that are not its own): with it each handler
changes the locks and what was told by way of one descriptor only, and
`LockLossOwn` is a statement about one step.  `LockInv` adds `OneInv` (a
locking client has one descriptor per inode), `ToldInv` (what it was told by
way of a descriptor is what the kernel holds for the inode: this is where the
discipline is used, since the close of a second descriptor would break it) and
`CompatibleInv` (the kernel's locks of two processes are compatible).
Exclusion among what is told then follows from exclusion in the kernel, and
the action property from both: a change is by a client that was told of the
write lock.

The modules composed with `ServerFiles` take its handlers from lemmas of
`ServerFilesProofs` that say what a handler leaves alone and what it may change
(one process's descriptors and locks, one file's content), so that their own
proofs are about their own steps.

`ServerNames`: `NamesInv` is about each listing by itself.  `BufferInv`: what
the handler has read ahead comes, in the order of the directory, after the
entry its scan is at.  The position `i` the client asks
to go on from is a count, and the properties depend on what that count means
once the directory has changed.  `RemovalInv`: as long as names were only
removed, what was listed is increasing and at most `i` of the entries left are
up to the last listed one, so skipping `i` never returns to one of them.
`CreationInv` is the converse: as long as names were only added, at least `i`
entries are before each unlisted name that stayed, so skipping `i` never passes
it.  The first says that a listing has no duplicates, the second that it misses
nothing, and with no change at all both apply and the listing is exact.

`ClientIO`: `IOInv` says where a client is within a call of several requests
(`LoopInv`: the count so far is within what was asked, the offset of the next
request is the first one plus that count, and the part of the file or buffer
before it is done) and what holds when the call is over (`ReadDone`,
`WriteDone`, `ShortDone`).

`GetPut`: `GPInv` ties the state of a command to the descriptors it holds
(`FdInv`: the remote one is open from open's answer up to close's, on every
error path; what else is open is `lost`) and, while nobody else has touched the
file, to the copied part (`GetInv`, `PutInv`: what is written is what was read,
up to the offset).

`RpcClient`: the properties rest on an order among messages.  `ThreadInv`: one
thread at most is in a call, and it is the last one made.  `QueueInv`: requests
on their way are in the order of their calls, and neither they nor a later call
have been carried out.  `AnswerInv`: a reply, on its way, in the static result
or as what a call returned, is what the server answered to that very call.
`FdInv`: what is held is open on its file, a close on its way is of a
descriptor nobody uses, and what an unfinished open was given is nobody else's.
A descriptor that is open and not held then comes from an open that was given
up or is not over, or is about to be closed.  The refinement of `CallOnce` uses
the same invariant: `Init` implies `Once!Init`, and each action is a step of
`Once` or a stutter under the mapping.

`FuseFs`: `FuseInv` accounts for the descriptors of the mount (each is the
handle of an open file, the one truncate has between its requests, or left open
by a call without an answer) and says what a callback that makes
several requests knows between them, as long as no other connection acts:
`TruncateInv` for open, ftruncate, close; `LookupInv` for the create that
follows a lookup.  `AcknowledgedEffect` is then proved call by call: for each
handler a lemma (`FtruncateExact`, `RenameExact` and the like) says exactly what
it has done when it answers OK, and the callbacks are told of success only then.

`Shell`: `Split` and `find_command` are recursive functions, and what they
compute is shown by way of a counterexample that is the largest (the place in
the line) or the smallest (the entry of the table).  That the function exists
is shown in the same way, from the places behind or the entries before.
`AreWords` is what holds of the words found from a place on: they are the
line's words from there, each at its rank, and there are no more of them than
have room with a space after each but the last.  The bound on `argv` in
`TypeOK` is this one for a line that fills the buffer; it is derived and not
assumed.  `MatchInv` is what the
counters of `find_command` mean after some entries.  `ShellInv` then says that
the input is a rest of the line that was typed (`RestInv`) and, at the place
between fgets and parse_cmd, where the buffer lies in it (`LineInv`).

Only model-checked: liveness (`EveryRequestResolved`, `GoneClientReaped`,
`ListingEnds`, `CallsReturn`, `CommandsReturn`, `Released`, `SessionEnds`) and
the fairness part of the refinement of `CallOnce`.  Liveness under fairness is
out of the prover's reach.  Every invariant and every action property of a
passing run is stated by a theorem.

## Not modelled

* Options and the creation of the listening sockets in the daemon; builds
  without fork or without D-Bus; the commas of `icbinn-path` (the fields are
  given as a sequence).
* V4V as a transport: the sockets are TCP's; `icbinn_clnt_create_v4v` takes
  the same steps as its TCP twin.
* flock of the mount: `FUSE_USE_VERSION` is 26 and the callback is compiled
  out.
* The end of the shell's `argv`: `parse_cmd` does not count, and a line of 1023
  characters can have 512 words where the array has 32 entries.  What the code
  does beyond them is undefined; the model's `argv` has room for all.
* NULs in what is typed, for which `client.c:270` passes over a line.
* A select that fails, in the parent or in a child (`svc_main.c:83` and `:169`):
  it is called again, which is a stutter.
* Names of `ICBINN_PROT_MAXNAMELEN`, which readdir passes over: that is 1024,
  and the host's names have at most 255 bytes.
* The modes `ZERO_RANGE` and `INSERT_RANGE` of fallocate, which came to Linux
  after this code, and errors of the host other than the ones named (they have
  the same effect as EIO).
* null, which has no argument, effect or answer; what the commands of the
  shell print.
* The Python binding (generated), libicbinn_resolved (empty), the mount script,
  logging and the build.

`PROJECT.json` says why for each component.

## Plan

1. (done) `SvcMain` and its proofs; `ServerFiles` and its proofs; `GetPut`;
   `ServerNames`; `ClientIO`.
2. (done) `RpcClient` and `CallOnce`; `FuseFs`; `Shell`.
3. (done) Proofs about `RpcClient` with the safety part of its refinement of
   `CallOnce`, `FuseFs`, `ServerNames`, `GetPut`, `ClientIO` and `Shell`.
4. Abstract specifications of the other components worth refining, proved step
   by step like that of `CallOnce`: what a listing promises, and what one call
   of `icbinn_pread` or `icbinn_pwrite` promises.
