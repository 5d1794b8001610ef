------------------------------ MODULE ClientIO ------------------------------
(***************************************************************************)
(* The calls of the client library that may take several requests:         *)
(* icbinn_pread, icbinn_pwrite and icbinn_rand (src/pread.c, pwrite.c,     *)
(* rand.c), by clients that have one file open, against the handlers of    *)
(* ServerFiles.  A call is a loop over requests of ICBINN_MAXDATA; between *)
(* two of them other clients' requests are answered, and each may fail, or *)
(* be carried out with its reply lost (libtirpc's time-out).               *)
(***************************************************************************)
EXTENDS ServerFiles

CONSTANTS
    Target, File,   \* the name of the file and its inode
    TheFd,          \* the descriptor each client has on it
    Contents,       \* what it may contain when the calls start
    Payload,        \* the data the clients may write
    Offsets,        \* the offsets they use
    Counts          \* how much they ask for

ASSUME IOAssumption ==
    /\ Target \in Name /\ File \in Inode /\ TheFd \in FileFd
    /\ Contents \subseteq Seq(Unit) /\ Payload \subseteq Seq(Data)
    /\ Offsets \subseteq Nat /\ Counts \subseteq Nat

VARIABLES
    pc,         \* where the client's call is
    args,       \* the arguments of the call
    count,      \* what is left to do
    offset,     \* where
    buf,        \* what has been read
    ret,        \* the sum of what the requests did
    result,     \* what the call returned; -1 stands for every failure
    before,     \* history: the file when the call started
    disturbed,  \* history: another client changed it since
    faults      \* history: what went wrong

callVars == <<pc, args, count, offset, buf, ret, result>>
ioVars == <<vars, callVars, before, disturbed, faults>>

Device == {"RANDOM", "URANDOM"}

NoArgs ==
    [op |-> "none", src |-> "file", offset |-> 0, count |-> 0, data |-> <<>>]

IOInit ==
    /\ up = [c \in Conn |-> TRUE]
    /\ inode = [n \in Name |-> IF n = Target THEN File ELSE None]
    /\ \E s \in Contents :
          content = [j \in Inode |-> IF j = File THEN s ELSE <<>>]
    /\ fdtable = [c \in Conn |-> [f \in Fd |->
          IF f = TheFd THEN OpenAs(File, {"RDWR", "CREAT"}) ELSE Closed]]
    /\ locked = [c \in Conn |-> [j \in Inode |-> "UNLCK"]]
    /\ told = [c \in Conn |-> [f \in Fd |-> "UNLCK"]]
    /\ reply = NoReply
    /\ pc = [c \in Conn |-> "idle"]
    /\ args = [c \in Conn |-> NoArgs]
    /\ count = [c \in Conn |-> 0] /\ offset = [c \in Conn |-> 0]
    /\ buf = [c \in Conn |-> <<>>]
    /\ ret = [c \in Conn |-> 0] /\ result = [c \in Conn |-> 0]
    /\ before = [c \in Conn |-> <<>>]
    /\ disturbed = [c \in Conn |-> FALSE]
    /\ faults = [c \in Conn |-> {}]

-----------------------------------------------------------------------------
(* icbinn_prot_rand_1_svc.  A device may give less than it is asked for;   *)
(* what it gives is not looked at, so every unit is the same here.  Its    *)
(* error replies carry no code: those below only tell the causes apart.    *)

Rand(c, src, n) ==
    /\ up[c]
    /\ \/ n > MaxData /\ Error(c, "EINVAL")
       \/ n <= MaxData /\ src \notin Device /\ Error(c, "ENOENT")
       \/ n <= MaxData /\ src \in Device /\ Error(c, "EAGAIN")
       \/ /\ n <= MaxData /\ src \in Device
          /\ \E k \in 1 .. n :
                reply' = Answer(c, "OK", "NONE", 0, [j \in 1 .. k |-> Zero])
          /\ UNCHANGED <<up, inode, content, fdtable, locked, told>>

-----------------------------------------------------------------------------
(* The calls.                                                              *)

Call(c, a) ==
    /\ pc[c] = "idle"
    /\ pc' = [pc EXCEPT ![c] = "loop"]
    /\ args' = [args EXCEPT ![c] = a]
    /\ count' = [count EXCEPT ![c] = a.count]
    /\ offset' = [offset EXCEPT ![c] = a.offset]
    /\ before' = [before EXCEPT ![c] = content[File]]
    /\ UNCHANGED <<vars, buf, ret, result, disturbed, faults>>

StartPread(c) ==
    \E o \in Offsets, n \in Counts :
        Call(c, [NoArgs EXCEPT !.op = "pread", !.offset = o, !.count = n])

StartPwrite(c) ==
    \E o \in Offsets, d \in Payload :
        Call(c, [NoArgs EXCEPT !.op = "pwrite", !.offset = o,
                               !.count = Len(d), !.data = d])

StartRand(c) ==
    \E s \in Device \cup {"other"}, n \in Counts :
        Call(c, [NoArgs EXCEPT !.op = "rand", !.src = s, !.count = n])

\* Mutant: requests are not limited to what one can carry.
to_readAll(c) == count[c]

to_read(c) == IF count[c] > MaxData THEN MaxData ELSE count[c]

\* Mutant: the part that is sent always starts at the buffer's first byte.
PartFirst(c) == SubSeq(args[c].data, 1, to_read(c))

\* The part of the caller's data that the next request has.
Part(c) ==
    LET done == Len(args[c].data) - count[c]
    IN  SubSeq(args[c].data, done + 1, done + to_read(c))

Watch(c) ==
    disturbed' = [d \in Conn |->
        \/ disturbed[d]
        \/ d # c /\ pc[d] # "idle" /\ content'[File] # content[File]]

\* Mutant: a call that fails on the way returns the failure.
ReturnedLast(total, semi_ret) == semi_ret

\* return ret ? ret : semi_ret
Returned(total, semi_ret) == IF total # 0 THEN total ELSE semi_ret

\* Mutant: a part that is shorter than asked for does not end the loop.
EndedOnFailure(c, semi_ret) == semi_ret <= 0

\* The test that ends the loop early: semi_ret != to_read.
Ended(c, semi_ret) == semi_ret # to_read(c)

\* Mutant: the loop goes on until it has all, also at the end of the file.
AccountWaits(c, semi_ret) ==
    /\ ret' = [ret EXCEPT ![c] = IF semi_ret > 0 THEN @ + semi_ret ELSE @]
    /\ IF semi_ret < 0
       THEN /\ pc' = [pc EXCEPT ![c] = "done"]
            /\ result' = [result EXCEPT ![c] = Returned(ret'[c], semi_ret)]
            /\ UNCHANGED <<count, offset>>
       ELSE /\ count' = [count EXCEPT ![c] = @ - semi_ret]
            /\ offset' = [offset EXCEPT ![c] = @ + semi_ret]
            /\ UNCHANGED <<pc, result>>
    /\ UNCHANGED <<args, before>>

\* What a call makes of the result of one request.
Account(c, semi_ret) ==
    /\ ret' = [ret EXCEPT ![c] = IF semi_ret > 0 THEN @ + semi_ret ELSE @]
    /\ IF Ended(c, semi_ret)
       THEN /\ pc' = [pc EXCEPT ![c] = "done"]
            /\ result' = [result EXCEPT ![c] = Returned(ret'[c], semi_ret)]
            /\ UNCHANGED <<count, offset>>
       ELSE /\ count' = [count EXCEPT ![c] = @ - to_read(c)]
            /\ offset' = [offset EXCEPT ![c] = @ + to_read(c)]
            /\ UNCHANGED <<pc, result>>
    /\ UNCHANGED <<args, before>>

\* The request fails at the server, or nothing comes back, with or without
\* the request having been carried out: the worker returns less than 0.
Failed(c) ==
    /\ \/ /\ reply'.status = "ERROR"
          /\ faults' = [faults EXCEPT ![c] =
               IF reply'.errno = "EINVAL" THEN @ ELSE @ \cup {"error"}]
       \/ /\ reply'.status # "ERROR"
          /\ faults' = [faults EXCEPT ![c] = @ \cup {"lost"}]
    /\ Account(c, -1)
    /\ UNCHANGED buf

\* The worker copies the data of the reply into the caller's buffer.
Received(c) ==
    /\ reply'.status = "OK"
    /\ buf' = [buf EXCEPT ![c] = @ \o reply'.data]
    /\ faults' = [faults EXCEPT ![c] =
         IF args[c].op = "rand" /\ Len(reply'.data) < to_read(c)
         THEN @ \cup {"short"} ELSE @]
    /\ Account(c, Len(reply'.data))

PreadRequest(c) ==
    /\ pc[c] = "loop" /\ count[c] # 0 /\ args[c].op = "pread"
    /\ Pread(c, TheFd, offset[c], to_read(c))
    /\ Received(c) \/ Failed(c)
    /\ Watch(c)

RandRequest(c) ==
    /\ pc[c] = "loop" /\ count[c] # 0 /\ args[c].op = "rand"
    /\ Rand(c, args[c].src, to_read(c))
    /\ Received(c) \/ Failed(c)
    /\ Watch(c)

\* An OK is taken to mean all of the part.
PwriteRequest(c) ==
    /\ pc[c] = "loop" /\ count[c] # 0 /\ args[c].op = "pwrite"
    /\ Pwrite(c, TheFd, offset[c], Part(c))
    /\ \/ /\ reply'.status = "OK"
          /\ faults' = [faults EXCEPT ![c] =
               IF Slice(content'[File], offset[c], to_read(c)) # Part(c)
               THEN @ \cup {"short"} ELSE @]
          /\ Account(c, to_read(c))
          /\ UNCHANGED buf
       \/ Failed(c)
    /\ Watch(c)

\* The connection ends before the request is read; so it does for what
\* comes after.
Lose(c) ==
    /\ pc[c] = "loop" /\ count[c] # 0
    /\ Exit(c)
    /\ Failed(c)
    /\ Watch(c)

\* The loop's test fails: all is done.
Finish(c) ==
    /\ pc[c] = "loop" /\ count[c] = 0
    /\ pc' = [pc EXCEPT ![c] = "done"]
    /\ result' = [result EXCEPT ![c] = ret[c]]
    /\ UNCHANGED <<vars, args, count, offset, buf, ret, before, disturbed, faults>>

Running(c) ==
    PreadRequest(c) \/ PwriteRequest(c) \/ RandRequest(c) \/ Lose(c) \/ Finish(c)

IONext ==
    \E c \in Conn :
        StartPread(c) \/ StartPwrite(c) \/ StartRand(c) \/ Running(c)

IOSpec == IOInit /\ [][IONext]_ioVars

\* A call once made runs on, and the server answers it; that a call is given
\* up for lack of an answer may happen but is not counted on.
Answered(c) == Running(c) /\ "lost" \notin faults'[c]

IOFairSpec == IOSpec /\ \A c \in Conn : WF_ioVars(Answered(c))

-----------------------------------------------------------------------------
(* Properties.                                                             *)

Done(c, op) == pc[c] = "done" /\ args[c].op = op
Reported(c) == IF result[c] > 0 THEN result[c] ELSE 0

\* The calls' variables stay within the values the code can give them: in
\* particular what is left and what has been done make up what was asked for.
IOTypeOK ==
    /\ pc \in [Conn -> {"idle", "loop", "done"}]
    /\ \A c \in Conn :
        /\ count[c] \in Nat /\ offset[c] \in Nat /\ ret[c] \in Nat
        /\ result[c] \in -1 .. args[c].count
        /\ buf[c] \in Seq(Unit)
        /\ faults[c] \subseteq {"error", "lost", "short"}
        /\ pc[c] = "loop" => ret[c] + count[c] = args[c].count

\* icbinn_pread of a file nobody changes returns the length of what it put
\* into the buffer, which is the file's content from the offset on, even when
\* a request on the way failed; and 0 only at the end of the file.
ReadReported ==
    \A c \in Conn :
        Done(c, "pread") /\ ~disturbed[c] =>
            /\ buf[c] = Slice(content[File], args[c].offset, Reported(c))
            /\ Len(buf[c]) = Reported(c)
            /\ result[c] = 0 =>
                 args[c].count = 0 \/ args[c].offset >= Len(content[File])

\* icbinn_pwrite to a file nobody else changes has stored exactly what it
\* returns, all of it in place; when a reply was lost perhaps one request's
\* worth more, and when the host wrote a part perhaps less.  A failure that
\* was answered therefore means that nothing was stored; one without an answer
\* may have stored its request.
WriteReported ==
    \A c \in Conn :
        Done(c, "pwrite") /\ ~disturbed[c] /\ "short" \notin faults[c] =>
            \E extra \in 0 .. (IF "lost" \in faults[c] THEN MaxData ELSE 0) :
                content[File] = Overwrite(before[c], args[c].offset,
                    SubSeq(args[c].data, 1,
                        IF Reported(c) + extra > Len(args[c].data)
                        THEN Len(args[c].data) ELSE Reported(c) + extra))

\* A call falls short of what was asked for only for a reason: something went
\* wrong, or the file ends.  No request of the library is refused as too
\* large.
ShortForAReason ==
    \A c \in Conn :
        pc[c] = "done" /\ result[c] # args[c].count =>
            \/ faults[c] # {}
            \/ /\ args[c].op = "pread"
               /\ \/ disturbed[c]
                  \/ args[c].offset + args[c].count > Len(content[File])

\* Every call returns.
CallsReturn == \A c \in Conn : pc[c] = "loop" ~> pc[c] = "done"
=============================================================================
