------------------------------- MODULE GetPut -------------------------------
(***************************************************************************)
(* The get and put commands of the command line client (client/get.c and   *)
(* client/put.c), run by several clients against the procedures of         *)
(* ServerFiles.  A client waits for each reply, so a call of the library   *)
(* (src/open.c, lock.c, pread.c, pwrite.c, close.c) that takes one request *)
(* is one step: the handler's and what the command makes of its reply.  A  *)
(* call whose time-out passes returns -1 while the connection stays: its   *)
(* request is carried out all the same, or is not.                         *)
(* The buffers hold ICBINN_MAXDATA, so every pread and pwrite is one       *)
(* request.                                                                *)
(***************************************************************************)
EXTENDS ServerFiles

CONSTANTS
    Target,     \* the remote file
    Source,     \* the contents the local files to put can have
    LocalFd,    \* the number open gives the local file in the client
    MaxCmds     \* bound: commands a client runs in one session

ASSUME GetPutAssumption ==
    /\ Target \in Name /\ LocalFd \in Nat /\ MaxCmds \in Nat
    /\ Source \subseteq Seq(Data)
    /\ MaxData > 0 /\ NFd > 0

VARIABLES
    pc,         \* where the client is in its command
    ifd,        \* the remote descriptor
    off,        \* o, the offset reached
    file,       \* the local file: read by put, written by get
    outcome,    \* what the command returns: "ok" for 0, "failed" for -1
    cmds,       \* commands begun
    disturbed,  \* history: another client changed the open remote file
    short,      \* history: the host wrote a part of what it was given
    lost        \* history: descriptors that were left open by an open or a
                \* close that got no answer

cmdVars == <<pc, ifd, off, file, outcome, cmds>>
allVars == <<vars, cmdVars, disturbed, short, lost>>

GPInit ==
    /\ Init
    /\ pc = [c \in Conn |-> "idle"]
    /\ ifd = [c \in Conn |-> 0]
    /\ off = [c \in Conn |-> 0]
    /\ file = [c \in Conn |-> <<>>]
    /\ outcome = [c \in Conn |-> "ok"]
    /\ cmds = [c \in Conn |-> 0]
    /\ disturbed = [c \in Conn |-> FALSE]
    /\ short = [c \in Conn |-> FALSE]
    /\ lost = [c \in Conn |-> {}]

Copying == {"put_lock", "put_copy", "put_close",
            "get_lock", "get_local", "get_copy", "get_close"}

Remote(c) == fdtable[c][ifd[c]].ino

OpenFds(c) == {f \in Fd : IsOpen(c, f)}

Ok == reply'.status = "OK"

\* What a request of c means to the commands of the others.
Watch(c) ==
    disturbed' = [d \in Conn |->
        \/ disturbed[d]
        \/ /\ d # c /\ pc[d] \in Copying
           /\ content'[Remote(d)] # content[Remote(d)]]

Goto(c, label) == pc' = [pc EXCEPT ![c] = label]

Return(c, label, result) ==
    /\ Goto(c, label)
    /\ outcome' = [outcome EXCEPT ![c] = result]

\* Both commands start by opening what they copy from; put its local file.
Begin(c, label, contents, result) ==
    /\ pc[c] = "idle" /\ up[c] /\ cmds[c] < MaxCmds
    /\ Return(c, label, result)
    /\ cmds' = [cmds EXCEPT ![c] = @ + 1]
    /\ off' = [off EXCEPT ![c] = 0]
    /\ ifd' = [ifd EXCEPT ![c] = 0]
    /\ file' = [file EXCEPT ![c] = contents]
    /\ disturbed' = [disturbed EXCEPT ![c] = FALSE]
    /\ short' = [short EXCEPT ![c] = FALSE]
    /\ UNCHANGED <<vars, lost>>

StartPut(c) ==
    \/ \E s \in Source : Begin(c, "put_open", s, "ok")
    \/ Begin(c, "idle", <<>>, "failed")

StartGet(c) == Begin(c, "get_open", <<>>, "ok")

\* icbinn_open: a failure ends the command.
OpenRemote(c, mode, label) ==
    /\ Open(c, Target, mode)
    /\ IF Ok THEN Goto(c, label) /\ UNCHANGED outcome
             ELSE Return(c, "idle", "failed")
    /\ ifd' = [ifd EXCEPT ![c] = reply'.val]
    /\ Watch(c)
    /\ UNCHANGED <<off, file, cmds, short, lost>>

PutOpen(c) ==
    /\ pc[c] = "put_open"
    /\ OpenRemote(c, {"WRONLY", "CREAT", "TRUNC"}, "put_lock")

GetOpen(c) ==
    /\ pc[c] = "get_open"
    /\ OpenRemote(c, {}, "get_lock")

\* icbinn_lock: a failure closes the remote file and ends the command.
LockRemote(c, fd, type, label, giveup) ==
    /\ Lock(c, fd, type)
    /\ IF Ok THEN Goto(c, label) /\ UNCHANGED outcome
             ELSE Return(c, giveup, "failed")
    /\ Watch(c)
    /\ UNCHANGED <<ifd, off, file, cmds, short, lost>>

\* put passes the number of its local descriptor.
PutLock(c) ==
    /\ pc[c] = "put_lock"
    /\ LockRemote(c, LocalFd, "WRLCK", "put_copy", "put_close")

\* get passes a variable that has not been assigned yet.
GetLock(c) ==
    /\ pc[c] = "get_lock"
    /\ \E fd \in 0 .. NFd : LockRemote(c, fd, "RDLCK", "get_local", "get_close")

\* What read puts into buf, and where icbinn_pwrite is told to store it.
PutData(c) == Slice(file[c], off[c], MaxData)

\* Mutant: every part is written to the start of the file.
PutOffsetZero(c) == 0

PutOffset(c) == off[c]

\* Mutant: the offset advances by the size of the buffer.
PutAdvanceBuffer(c) == MaxData

PutAdvance(c) == Len(PutData(c))

\* icbinn_pwrite of no more than the request can carry is one request.
IcbinnPwrite(c, fd, data, offset) == Pwrite(c, fd, offset, data)

\* The next part of the local file goes to the server.
PutCopy(c) ==
    /\ pc[c] = "put_copy" /\ off[c] < Len(file[c])
    /\ IcbinnPwrite(c, ifd[c], PutData(c), PutOffset(c))
    /\ IF Ok
       THEN /\ off' = [off EXCEPT ![c] = @ + PutAdvance(c)]
            /\ short' = [short EXCEPT ![c] =
                 @ \/ Slice(content'[Remote(c)], PutOffset(c), Len(PutData(c)))
                        # PutData(c)]
            /\ UNCHANGED <<pc, outcome>>
       ELSE /\ Return(c, "put_close", "failed")
            /\ UNCHANGED <<off, short>>
    /\ Watch(c)
    /\ UNCHANGED <<ifd, file, cmds, lost>>

\* read of the local file returned 0, or failed.
PutEof(c) ==
    /\ pc[c] = "put_copy"
    /\ \/ off[c] >= Len(file[c]) /\ Goto(c, "put_close") /\ UNCHANGED outcome
       \/ Return(c, "put_close", "failed")
    /\ UNCHANGED <<vars, ifd, off, file, cmds, disturbed, short, lost>>

\* get opens its local file after the lock.
GetLocal(c) ==
    /\ pc[c] = "get_local"
    /\ \/ Goto(c, "get_copy") /\ UNCHANGED outcome
       \/ Return(c, "get_close", "failed")
    /\ UNCHANGED <<vars, ifd, off, file, cmds, disturbed, short, lost>>

\* Mutant: the end of the file does not end the loop.
GetMoreAlways(data) == TRUE

\* Mutant: a part that does not fill the buffer is taken for the end.
GetMoreFull(data) == Len(data) = MaxData

\* The loop goes on: icbinn_pread returned more than 0.
GetMore(data) == data # <<>>

\* icbinn_pread of no more than the reply can carry is one request.
IcbinnPread(c, fd, count, offset) == Pread(c, fd, offset, count)

\* The next part of the remote file is written to the local one, which may
\* fail; an empty part is the end of the file.
GetCopy(c) ==
    /\ pc[c] = "get_copy"
    /\ IcbinnPread(c, ifd[c], MaxData, off[c])
    /\ \/ /\ Ok /\ GetMore(reply'.data)
          /\ file' = [file EXCEPT ![c] = @ \o reply'.data]
          /\ off' = [off EXCEPT ![c] = @ + Len(reply'.data)]
          /\ UNCHANGED <<pc, outcome>>
       \/ /\ Ok /\ ~GetMore(reply'.data)
          /\ Goto(c, "get_close")
          /\ UNCHANGED <<file, off, outcome>>
       \/ /\ ~Ok \/ GetMore(reply'.data)
          /\ Return(c, "get_close", "failed")
          /\ UNCHANGED <<file, off>>
    /\ Watch(c)
    /\ UNCHANGED <<ifd, cmds, short, lost>>

\* Mutant: the command returns without icbinn_close after a failure.
CloseRemoteOnSuccess(c) ==
    /\ pc[c] \in {"put_close", "get_close"}
    /\ IF outcome[c] = "ok" THEN Close(c, ifd[c]) ELSE UNCHANGED vars
    /\ Goto(c, "idle")
    /\ Watch(c)
    /\ UNCHANGED <<ifd, off, file, outcome, cmds, short, lost>>

\* icbinn_close ends the command on every path; its result is not used.
CloseRemote(c) ==
    /\ pc[c] \in {"put_close", "get_close"}
    /\ Close(c, ifd[c])
    /\ Goto(c, "idle")
    /\ Watch(c)
    /\ UNCHANGED <<ifd, off, file, outcome, cmds, short, lost>>

(***************************************************************************)
(* A call that gets no answer in time.  The stub returns NULL and the call *)
(* -1.  The process takes the requests of a connection in order, so one    *)
(* that it carries out late it carries out before any other of the client: *)
(* nobody can tell that from giving up later.                              *)
(***************************************************************************)

\* The request of the call that the command is at.
Request(c) ==
    \/ pc[c] = "put_open" /\ Open(c, Target, {"WRONLY", "CREAT", "TRUNC"})
    \/ pc[c] = "get_open" /\ Open(c, Target, {})
    \/ pc[c] = "put_lock" /\ Lock(c, LocalFd, "WRLCK")
    \/ pc[c] = "get_lock" /\ \E fd \in 0 .. NFd : Lock(c, fd, "RDLCK")
    \/ /\ pc[c] = "put_copy" /\ off[c] < Len(file[c])
       /\ IcbinnPwrite(c, ifd[c], PutData(c), PutOffset(c))
    \/ pc[c] = "get_copy" /\ IcbinnPread(c, ifd[c], MaxData, off[c])
    \/ pc[c] \in {"put_close", "get_close"} /\ Close(c, ifd[c])

Unanswered(c) ==
    /\ up[c]
    /\ Request(c) \/ UNCHANGED vars
    /\ \/ /\ pc[c] \in {"put_open", "get_open"}
          /\ Return(c, "idle", "failed")
          /\ lost' = [lost EXCEPT ![c] = @ \cup (OpenFds(c)' \ OpenFds(c))]
       \/ /\ pc[c] \in {"put_lock", "put_copy"}
          /\ Return(c, "put_close", "failed")
          /\ UNCHANGED lost
       \/ /\ pc[c] \in {"get_lock", "get_copy"}
          /\ Return(c, "get_close", "failed")
          /\ UNCHANGED lost
       \/ /\ pc[c] \in {"put_close", "get_close"}
          /\ Goto(c, "idle") /\ UNCHANGED outcome
          /\ lost' = [lost EXCEPT ![c] = @ \cup ({ifd[c]} \cap OpenFds(c)')]
    /\ Watch(c)
    /\ UNCHANGED <<ifd, off, file, cmds, short>>

\* The session's connection is made, and may be lost: then the call under way
\* and those that follow return -1, and the command fails.
Session(c) ==
    \/ Connect(c) /\ cmds[c] = 0 /\ UNCHANGED <<cmdVars, disturbed, short, lost>>
    \/ /\ Exit(c)
       /\ IF pc[c] = "idle" THEN UNCHANGED <<pc, outcome>>
                            ELSE Return(c, "idle", "failed")
       /\ cmds' = [cmds EXCEPT ![c] = MaxCmds]
       /\ lost' = [lost EXCEPT ![c] = {}]
       /\ UNCHANGED <<ifd, off, file, disturbed, short>>

Command(c) ==
    \/ PutOpen(c) \/ PutLock(c) \/ PutCopy(c) \/ PutEof(c)
    \/ GetOpen(c) \/ GetLock(c) \/ GetLocal(c) \/ GetCopy(c)
    \/ CloseRemote(c) \/ Unanswered(c)

GPNext ==
    \E c \in Conn :
        Session(c) \/ StartPut(c) \/ StartGet(c) \/ Command(c)

GPSpec == GPInit /\ [][GPNext]_allVars

\* A command once started runs on, and a call returns within its time-out.
GPFairSpec == GPSpec /\ \A c \in Conn : WF_allVars(Command(c))

-----------------------------------------------------------------------------
(* Properties.                                                             *)

\* The clients' variables keep within the values the commands can give them.
GPTypeOK ==
    /\ pc \in [Conn -> {"idle", "put_open", "get_open"} \cup Copying]
    /\ ifd \in [Conn -> Fd]
    /\ off \in [Conn -> 0 .. MaxSize]
    /\ file \in [Conn -> Seq(Unit)]
    /\ outcome \in [Conn -> {"ok", "failed"}]
    /\ cmds \in [Conn -> 0 .. MaxCmds]
    /\ disturbed \in [Conn -> BOOLEAN] /\ short \in [Conn -> BOOLEAN]
    /\ lost \in [Conn -> SUBSET Fd]

\* A command on any of its paths leaves no descriptor open in the server's
\* table but the one of an open, or of a close that was not carried out, to
\* which there was no answer.  Those stay open as long as the connection: each
\* such time-out costs the session a descriptor.
DescriptorsReturned ==
    \A c \in Conn : pc[c] = "idle" => OpenFds(c) = lost[c]

\* A get that succeeds while nobody else changes the file has copied exactly
\* the file, whatever its length.
QuietGetExact ==
    \A c \in Conn :
        pc[c] = "get_close" /\ outcome[c] = "ok" /\ ~disturbed[c]
            => file[c] = content[Remote(c)]

\* A put that succeeds while nobody else changes the file, on a host that
\* writes all it is given, has stored exactly the local file.
QuietPutExact ==
    \A c \in Conn :
        pc[c] = "put_close" /\ outcome[c] = "ok" /\ ~disturbed[c] /\ ~short[c]
            => file[c] = content[Remote(c)]

\* Every command returns.
CommandsReturn == \A c \in Conn : pc[c] # "idle" ~> pc[c] = "idle"

\* A put that was not told it "failed to get icbinn write lock" copies under
\* the write lock, and a get under a read lock.
CopyUnderLock ==
    \A c \in Conn :
        /\ pc[c] = "put_copy" => locked[c][Remote(c)] = "WRLCK"
        /\ pc[c] = "get_copy" => locked[c][Remote(c)] = "RDLCK"

\* A put that succeeds has stored the file: short writes are noticed by the
\* comparison of icbinn_pwrite's result.
PutComplete ==
    \A c \in Conn :
        pc[c] = "put_close" /\ outcome[c] = "ok" /\ ~disturbed[c]
            => file[c] = content[Remote(c)]
=============================================================================
