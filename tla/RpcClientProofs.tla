--------------------------- MODULE RpcClientProofs ---------------------------
(***************************************************************************)
(* Proofs about RpcClient for any number of threads, calls, files and      *)
(* descriptors: the descriptors of a program mean the files it opened, a   *)
(* leak has one of the causes known, and the calls are carried out at most *)
(* once and in order (the safety part of CallOnce).                        *)
(***************************************************************************)
EXTENDS RpcClient, ServerFilesProofs, TLAPS

-----------------------------------------------------------------------------
(* The inductive invariant.                                                *)

\* The last call made.
Last == Len(call)

\* At most one thread is in a call, the last one made; that call has not
\* returned, and all the others have.
ThreadInv ==
    /\ \A t \in Thread :
          \/ pc[t] = "idle"
          \/ mine[t] = Last /\ Last > 0 /\ outcome[Last] = None
    /\ \A t, u \in Thread : pc[t] = "idle" \/ pc[u] = "idle" \/ t = u
    /\ \A x \in 1 .. Last :
          outcome[x] = None => x = Last /\ \E t \in Thread : pc[t] # "idle"

\* A request on its way is one of the calls made, and neither it nor any
\* call made after it has been carried out; requests are in the order of
\* their calls.
QueueInv ==
    /\ \A i \in 1 .. Len(toServer) :
          /\ toServer[i].xid \in 1 .. Last
          /\ toServer[i].call = call[toServer[i].xid]
          /\ \A y \in toServer[i].xid .. Last : carried[y] = None
    /\ \A i, j \in 1 .. Len(toServer) :
          i < j => toServer[i].xid < toServer[j].xid

\* A reply is what the server answered when it carried the call out, on its
\* way, in the static result while a thread looks at it, and as what a call
\* returned.
AnswerInv ==
    /\ \A i \in 1 .. Len(toClient) :
          /\ toClient[i].xid \in 1 .. Last
          /\ toClient[i].res = carried[toClient[i].xid]
    /\ \A t \in Thread : pc[t] = "returned" =>
          carried[Last] # None /\ result[call[Last].proc] = carried[Last]
    /\ \A x \in 1 .. Last :
          /\ outcome[x] \in {None, Null, carried[x]}
          /\ call[x].proc = "open" /\ carried[x] # None /\ carried[x].status = "OK"
                => carried[x].val \in FileFd

\* Nothing has happened before the program connects, and every file stays
\* the one unit of data it was.
ServerInv ==
    /\ icb = "none" => /\ ~up[C] /\ held = {}
                       /\ toServer = <<>> /\ call = <<>>
    /\ inode \in [Name -> Inode]
    /\ \A i \in Inode : Len(content[i]) = 1

\* The descriptor f is open for reading on the file n.
OpenOn(f, n) == fdtable[C][f].ino = inode[n] /\ fdtable[C][f].read

\* f is not among the descriptors the program holds or has asked to close.
Unused(f) ==
    /\ \A h \in held : h.fd # f
    /\ \A i \in 1 .. Len(toServer) :
          toServer[i].call.proc = "close" => toServer[i].call.fd # f

\* What is held is open on its file; a close on its way is of a descriptor
\* that is open, that the program does not hold and that no other close on
\* its way is of; and what an open that is not over was given is open on the
\* file asked for and nobody else's.
FdInv ==
    up[C] =>
    /\ \A h \in held : OpenOn(h.fd, h.name)
    /\ \A g, h \in held : g # h => g.fd # h.fd
    /\ \A i \in 1 .. Len(toServer) : toServer[i].call.proc = "close" =>
          /\ IsOpen(C, toServer[i].call.fd)
          /\ \A h \in held : h.fd # toServer[i].call.fd
          /\ \A j \in 1 .. Len(toServer) :
                j # i /\ toServer[j].call.proc = "close" =>
                    toServer[j].call.fd # toServer[i].call.fd
    /\ \A x \in 1 .. Last :
          /\ call[x].proc = "open" /\ outcome[x] = None
          /\ carried[x] # None /\ carried[x].status = "OK"
          => OpenOn(carried[x].val, call[x].name) /\ Unused(carried[x].val)

\* A read that is not over is of a descriptor the program holds; one that
\* was carried out and not given up has the data of its file.
ReadInv ==
    \A x \in 1 .. Last : call[x].proc = "pread" =>
        /\ outcome[x] = None => [fd |-> call[x].fd, name |-> call[x].name] \in held
        /\ outcome[x] # Null /\ carried[x] # None =>
              FileRead(carried[x], inode[call[x].name])

RpcInv ==
    /\ TypeOK /\ RpcTypeOK
    /\ ThreadInv /\ QueueInv /\ AnswerInv /\ ServerInv
    /\ FdInv /\ ReadInv /\ LeakExplained

-----------------------------------------------------------------------------
(* Sequences by their members.                                             *)

\* The sequence u is s with e after its last member.
Extended(s, u, e) ==
    /\ Len(u) = Len(s) + 1 /\ u[Len(s) + 1] = e
    /\ \A i \in 1 .. Len(s) : u[i] = s[i]

LEMMA AppendExtends ==
    ASSUME NEW S, NEW s \in Seq(S), NEW e \in S
    PROVE  Append(s, e) \in Seq(S) /\ Extended(s, Append(s, e), e)
BY DEF Extended

\* The sequence u is s without its first member.
Shifted(s, u) ==
    /\ Len(s) = Len(u) + 1
    /\ \A i \in 1 .. Len(u) : u[i] = s[i + 1]

LEMMA TailShifts ==
    ASSUME NEW S, NEW s \in Seq(S), s # <<>>
    PROVE  Tail(s) \in Seq(S) /\ Shifted(s, Tail(s)) /\ Head(s) = s[1] /\ s[1] \in S
BY DEF Shifted

\* A member is replaced.
LEMMA ExceptMember ==
    ASSUME NEW S, NEW s \in Seq(S), NEW x \in 1 .. Len(s), NEW e \in S
    PROVE  /\ [s EXCEPT ![x] = e] \in Seq(S)
           /\ Len([s EXCEPT ![x] = e]) = Len(s)
           /\ [s EXCEPT ![x] = e][x] = e
           /\ \A y \in 1 .. Len(s) : y # x => [s EXCEPT ![x] = e][y] = s[y]
OBVIOUS

-----------------------------------------------------------------------------
(* The server's part.                                                      *)

\* A read of one unit of a file of one unit gives the contents.
LEMMA SliceAll ==
    ASSUME NEW s \in Seq(Unit), Len(s) = 1
    PROVE  Slice(s, 0, 1) = s
BY DEF Slice

LEMMA ReplyTypes ==
    /\ Cleared \in RpcReply /\ Null \notin RpcReply
    /\ None # Null /\ None \notin RpcReply /\ C \in Conn
<1>1. Cleared \in RpcReply /\ Null \notin RpcReply
  BY DEF Cleared, Null, RpcReply, Answer, Errno
<1>2. QED
  BY <1>1, RpcNoneAssumption, RpcAssumption

\* Open gives the lowest free descriptor, open for reading on the file, or
\* an error.
LEMMA OpenServed ==
    ASSUME TypeOK, inode \in [Name -> Inode], NEW n \in Name, Open(C, n, {"RDWR"})
    PROVE  /\ TypeOK' /\ reply' \in RpcReply /\ UNCHANGED <<up, inode, content>>
           /\ \/ reply'.status = "ERROR" /\ UNCHANGED fdtable
              \/ LET f == reply'.val
                 IN  /\ reply'.status = "OK"
                     /\ f \in FileFd /\ fdtable[C][f].ino = None
                     /\ fdtable'[C][f].ino = inode[n] /\ fdtable'[C][f].read
                     /\ \A g \in Fd : g # f => fdtable'[C][g] = fdtable[C][g]
<1>1. TypeOK'
  BY OpenStep, ReplyTypes
<1>2. inode[n] # None /\ inode[n] \in Inode /\ n # LongName
  BY NoneAssumption, NameAssumption
<1>3. CASE \E e \in Errno : Error(C, e)
  BY <1>1, <1>3 DEF Error, Answer, RpcReply
<1>4. CASE ~\E e \in Errno : Error(C, e)
  <2>1. /\ Install(C, inode[n], {"RDWR"})
        /\ content' = IF Truncates({"RDWR"})
                      THEN [content EXCEPT ![inode[n]] = <<>>] ELSE content
        /\ UNCHANGED <<up, inode, locked, told>>
    BY <1>2, <1>4 DEF Open, Errno
  <2>2. UNCHANGED content
    BY <2>1 DEF Truncates
  <2>3. PICK f \in FreeFds(C) :
           /\ fdtable' = [fdtable EXCEPT ![C][f] = OpenAs(inode[n], {"RDWR"})]
           /\ OK(C, f)
    BY <2>1 DEF Install
  <2>4. f \in FileFd /\ f \in Fd /\ f \in Nat /\ fdtable[C][f].ino = None
    BY <2>3, SizeAssumption DEF FreeFds, FileFd, Fd
  <2>5. reply' \in RpcReply /\ reply'.val = f /\ reply'.status = "OK"
    BY <2>3, <2>4 DEF OK, Answer, RpcReply, Errno
  <2>6. /\ fdtable'[C][f] = OpenAs(inode[n], {"RDWR"})
        /\ \A g \in Fd : g # f => fdtable'[C][g] = fdtable[C][g]
    BY <2>3, <2>4, ReplyTypes DEF TypeOK
  <2>7. OpenAs(inode[n], {"RDWR"}).ino = inode[n] /\ OpenAs(inode[n], {"RDWR"}).read
    BY DEF OpenAs
  <2>8. QED
    BY <1>1, <2>1, <2>2, <2>4, <2>5, <2>6, <2>7
<1>5. QED
  BY <1>3, <1>4

\* Pread changes nothing and answers with the contents.
LEMMA PreadServed ==
    ASSUME TypeOK, NEW f \in FileFd, Pread(C, f, 0, 1),
           \A i \in Inode : Len(content[i]) = 1
    PROVE  /\ TypeOK' /\ reply' \in RpcReply
           /\ UNCHANGED <<up, inode, content, fdtable>>
           /\ IsOpen(C, f) /\ fdtable[C][f].read =>
                 FileRead(reply', fdtable[C][f].ino)
<1>0. f \in Fd
  BY DEF FileFd
<1>1. CASE \E e \in Errno : Error(C, e)
  <2>1. TypeOK'
    BY <1>1, ErrorType, ReplyTypes
  <2>2. IsOpen(C, f) /\ fdtable[C][f].read => reply'.errno = "EIO"
    BY <1>1, RpcAssumption, SizeAssumption DEF Pread, Error, Answer, FileFd
  <2>3. QED
    BY <1>1, <2>1, <2>2 DEF Error, Answer, RpcReply, FileRead
<1>2. CASE ~\E e \in Errno : Error(C, e)
  <2>1. /\ IsOpen(C, f)
        /\ reply' = Answer(C, "OK", "NONE", 0, Slice(content[fdtable[C][f].ino], 0, 1))
        /\ UNCHANGED <<up, inode, content, fdtable, locked, told>>
    BY <1>2 DEF Pread, Errno, FileFd
  <2>2. fdtable[C][f].ino \in Inode
    BY <1>0, <2>1, OpenInode, ReplyTypes
  <2>3. Slice(content[fdtable[C][f].ino], 0, 1) = content[fdtable[C][f].ino]
    BY <2>2, SliceAll DEF TypeOK
  <2>4. content[fdtable[C][f].ino] \in Seq(Unit)
    BY <2>2 DEF TypeOK
  <2>5. reply' \in RpcReply /\ TypeOK'
    BY <2>1, <2>3, <2>4, ReplyTypes DEF Answer, RpcReply, Errno, TypeOK
  <2>6. QED
    BY <2>1, <2>3, <2>5 DEF Answer, FileRead
<1>3. QED
  BY <1>1, <1>2

\* Close closes what is open.
LEMMA CloseServed ==
    ASSUME TypeOK, NEW f \in FileFd, Close(C, f)
    PROVE  /\ TypeOK' /\ reply' \in RpcReply /\ UNCHANGED <<up, inode, content>>
           /\ fdtable'[C][f].ino = None
           /\ \A g \in Fd : g # f => fdtable'[C][g] = fdtable[C][g]
<1>1. TypeOK' /\ f \in Fd
  BY CloseStep, ReplyTypes DEF FileFd
<1>2. CASE ~IsOpen(C, f) /\ Error(C, "EBADF")
  BY <1>1, <1>2 DEF Error, Answer, RpcReply, Errno, IsOpen
<1>3. CASE /\ fdtable' = [fdtable EXCEPT ![C][f] = Closed]
           /\ OK(C, 0) \/ reply' = Answer(C, "ERROR", "EIO", 0, <<>>)
           /\ UNCHANGED <<up, inode, content>>
  <2>1. reply' \in RpcReply
    <3>1. CASE OK(C, 0)
      BY <3>1 DEF OK, Answer, RpcReply, Errno
    <3>2. CASE reply' = Answer(C, "ERROR", "EIO", 0, <<>>)
      BY <3>2 DEF Answer, RpcReply, Errno
    <3>3. QED
      BY <1>3, <3>1, <3>2
  <2>2. /\ fdtable'[C][f] = Closed
        /\ \A g \in Fd : g # f => fdtable'[C][g] = fdtable[C][g]
    BY <1>1, <1>3, ReplyTypes DEF TypeOK
  <2>3. QED
    BY <1>1, <1>3, <2>1, <2>2 DEF Closed
<1>4. QED
  BY <1>2, <1>3 DEF Close, FileFd

-----------------------------------------------------------------------------
(* The invariant holds at the start and every action keeps it.             *)

LEMMA RpcInitInv == RpcInit => RpcInv
<1> SUFFICES ASSUME RpcInit PROVE RpcInv
  OBVIOUS
<1>1. inode \in [Name -> Inode]
  BY RpcAssumption DEF RpcInit, Distinct, Injections
<1>2. content \in [Inode -> {<<d>> : d \in Data}]
  BY RpcAssumption DEF RpcInit, Distinct, Injections
<1>3. \A i \in Inode : content[i] \in Seq(Unit) /\ Len(content[i]) = 1
  <2>1. \A d \in Data : <<d>> \in Seq(Unit) /\ Len(<<d>>) = 1
    BY DEF Unit
  <2>2. QED
    BY <1>2, <2>1
<1>4. TypeOK
  <2>1. content \in [Inode -> Seq(Unit)]
    BY <1>2, <1>3
  <2>2. QED
    BY <1>1, <2>1 DEF TypeOK, RpcInit, LockType, NoReply, Answer, Errno
<1>5. RpcTypeOK
  <2>1. \A S : <<>> \in Seq(S) /\ Len(<<>>) = 0
    OBVIOUS
  <2>2. result \in [Proc -> RpcReply]
    BY ReplyTypes DEF RpcInit
  <2>3. mine \in [Thread -> 0 .. MaxCalls]
    BY RpcAssumption DEF RpcInit
  <2>4. QED
    BY <2>1, <2>2, <2>3 DEF RpcTypeOK, RpcInit
<1>6. ~up[C]
  BY ReplyTypes DEF RpcInit
<1>7. Len(call) = 0 /\ Len(toServer) = 0 /\ Len(toClient) = 0
  BY DEF RpcInit
<1>8. ThreadInv /\ QueueInv /\ AnswerInv
  BY <1>7 DEF RpcInit, ThreadInv, QueueInv, AnswerInv, Last
<1>9. ServerInv /\ FdInv /\ ReadInv
  BY <1>1, <1>3, <1>6, <1>7 DEF RpcInit, ServerInv, FdInv, ReadInv, FileRead, Last
<1>10. LeakExplained
  BY ReplyTypes DEF RpcInit, LeakExplained, IsOpen, Closed
<1>11. QED
  BY <1>4, <1>5, <1>8, <1>9, <1>10 DEF RpcInv

\* What the parts of the invariant about calls, threads and answers say
\* does not depend on the connection.
LEMMA CallsUnchanged ==
    ASSUME RpcInv,
           UNCHANGED <<pc, mine, result, held, call, outcome, carried, toClient>>
    PROVE  ThreadInv' /\ AnswerInv'
<1>1. ThreadInv'
  BY DEF RpcInv, ThreadInv, Last
<1>2. AnswerInv'
  BY DEF RpcInv, AnswerInv, Last
<1>3. QED
  BY <1>1, <1>2

LEMMA CreateStep ==
    ASSUME RpcInv, Create
    PROVE  RpcInv'
<1>1. UNCHANGED <<pc, mine, result, held, call, outcome, carried, toClient, toServer>>
  BY DEF Create, clientVars
<1>2. ThreadInv' /\ AnswerInv' /\ QueueInv'
  BY <1>1, CallsUnchanged DEF RpcInv, QueueInv, Last
<1>3. RpcTypeOK'
  BY <1>1 DEF RpcInv, RpcTypeOK, Create
<1>4. held = {} /\ Len(call) = 0 /\ Len(toServer) = 0 /\ icb' # "none"
  BY DEF RpcInv, ServerInv, Create
<1>5. TypeOK' /\ UNCHANGED <<inode, content, fdtable>>
  <2>1. CASE UNCHANGED vars
    BY <2>1 DEF vars, RpcInv, TypeOK
  <2>2. CASE Connect(C)
    BY <2>2, ConnectionStep, ReplyTypes DEF RpcInv, Connect
  <2>3. QED
    BY <2>1, <2>2 DEF Create
<1>6. ServerInv' /\ FdInv' /\ ReadInv'
  BY <1>1, <1>4, <1>5 DEF RpcInv, ServerInv, FdInv, ReadInv, FileRead, Last
<1>7. LeakExplained'
  BY <1>1, <1>5 DEF RpcInv, LeakExplained, IsOpen
<1>8. QED
  BY <1>2, <1>3, <1>5, <1>6, <1>7 DEF RpcInv

\* Requests may get lost, from the end.
LEMMA DestroyStep ==
    ASSUME RpcInv, Destroy
    PROVE  RpcInv'
<1>1. UNCHANGED <<vars, pc, mine, result, held, call, outcome, carried, toClient>>
  BY DEF Destroy, clientVars
<1>2. toServer \in Seq([xid : 1 .. MaxCalls, call : CallRecord])
  BY DEF RpcInv, RpcTypeOK
<1>3. PICK k \in 0 .. Len(toServer) : toServer' = SubSeq(toServer, 1, k)
  BY DEF Destroy
<1>4. /\ toServer' \in Seq([xid : 1 .. MaxCalls, call : CallRecord])
      /\ Len(toServer') = k /\ k \in Nat /\ k <= Len(toServer)
      /\ \A i \in 1 .. k : toServer'[i] = toServer[i] /\ i \in 1 .. Len(toServer)
  <2>1. /\ SubSeq(toServer, 1, k) \in Seq([xid : 1 .. MaxCalls, call : CallRecord])
        /\ Len(SubSeq(toServer, 1, k)) = k
        /\ \A i \in 1 .. k : SubSeq(toServer, 1, k)[i] = toServer[i]
    BY <1>2, SubSeqPrefix, Zenon
  <2>2. Len(toServer) \in Nat
    BY <1>2
  <2>3. QED
    BY <1>3, <2>1, <2>2
<1>5. TypeOK' /\ RpcTypeOK'
  BY <1>1, <1>4 DEF RpcInv, TypeOK, RpcTypeOK, Destroy, vars
<1>6. ThreadInv' /\ AnswerInv'
  BY <1>1, CallsUnchanged
<1>7. QueueInv'
  BY <1>1, <1>4 DEF RpcInv, QueueInv, Last
<1>8. ServerInv' /\ ReadInv' /\ LeakExplained'
  <2>1. UNCHANGED vars
    BY DEF Destroy
  <2>2. ServerInv' /\ ReadInv'
    BY <1>1, <2>1 DEF RpcInv, ServerInv, ReadInv, FileRead, Last, Destroy, vars
  <2>3. LeakExplained'
    BY <1>1, <2>1 DEF RpcInv, LeakExplained, IsOpen, vars
  <2>4. QED
    BY <2>2, <2>3
<1>9. FdInv'
  <2> SUFFICES ASSUME up[C] PROVE FdInv'
    BY <1>1 DEF FdInv, vars
  <2>1. FdInv /\ Len(toServer') = k
    BY <1>4 DEF RpcInv
  <2>2. /\ \A h \in held : OpenOn(h.fd, h.name)'
        /\ \A g, h \in held : g # h => g.fd # h.fd
    BY <1>1, <2>1 DEF FdInv, OpenOn, vars
  <2>3. \A i \in 1 .. k : toServer'[i].call.proc = "close" =>
          /\ IsOpen(C, toServer'[i].call.fd)
          /\ \A h \in held : h.fd # toServer'[i].call.fd
          /\ \A j \in 1 .. k :
                j # i /\ toServer'[j].call.proc = "close" =>
                    toServer'[j].call.fd # toServer'[i].call.fd
    BY <1>4, <2>1 DEF FdInv
  <2>4. \A f : Unused(f) => Unused(f)'
    BY <1>1, <1>4 DEF Unused
  <2>5. \A x \in 1 .. Last :
          /\ call[x].proc = "open" /\ outcome[x] = None
          /\ carried[x] # None /\ carried[x].status = "OK"
          => OpenOn(carried[x].val, call[x].name)' /\ Unused(carried[x].val)'
    BY <1>1, <2>1, <2>4 DEF FdInv, OpenOn, vars
  <2>6. QED
    BY <1>1, <2>1, <2>2, <2>3, <2>5 DEF FdInv, IsOpen, Last, vars
<1>10. QED
  BY <1>5, <1>6, <1>7, <1>8, <1>9 DEF RpcInv

\* The connection is lost and the server's process is gone.
LEMMA GoneStep ==
    ASSUME RpcInv, Gone
    PROVE  RpcInv'
<1>1. UNCHANGED <<icb, sockfd, pc, mine, result, held, call, outcome, carried, toClient>>
  BY DEF Gone, clientVars
<1>2. toServer' = <<>> /\ Len(toServer') = 0
  BY DEF Gone
<1>3. TypeOK' /\ RpcTypeOK'
  BY <1>1, <1>2, ConnectionStep, ReplyTypes DEF RpcInv, RpcTypeOK, Gone
<1>4. ThreadInv' /\ AnswerInv' /\ QueueInv'
  BY <1>1, <1>2, CallsUnchanged DEF QueueInv
<1>5. up[C] /\ ~up'[C] /\ UNCHANGED <<inode, content>>
  BY ReplyTypes DEF Gone, Exit, RpcInv, TypeOK
<1>6. ServerInv' /\ ReadInv' /\ FdInv'
  BY <1>1, <1>2, <1>5 DEF RpcInv, ServerInv, ReadInv, FileRead, FdInv, Last
<1>7. \A f \in Fd : fdtable'[C][f].ino = None
  BY ReplyTypes DEF Gone, Exit, RpcInv, TypeOK, Closed
<1>8. LeakExplained'
  BY <1>7 DEF LeakExplained, IsOpen
<1>9. QED
  BY <1>3, <1>4, <1>6, <1>8 DEF RpcInv

\* A call is made.  The program reads and closes what it holds.
LEMMA BeginStep ==
    ASSUME RpcInv, NEW t \in Thread, NEW k \in CallRecord, Begin(t, k),
           \/ k.proc = "open" /\ held' = held
           \/ /\ k.proc = "pread" /\ held' = held
              /\ [fd |-> k.fd, name |-> k.name] \in held
           \/ /\ k.proc = "close"
              /\ \E h \in held : h.fd = k.fd /\ held' = held \ {h}
    PROVE  RpcInv'
<1> DEFINE n == Len(call)
<1> DEFINE Request == [xid : 1 .. MaxCalls, call : CallRecord]
<1>1. /\ n \in Nat /\ n + 1 \in 1 .. MaxCalls
      /\ Len(carried) = n /\ Len(outcome) = n
      /\ \A u \in Thread : pc[u] = "idle"
      /\ call \in Seq(CallRecord) /\ carried \in Seq(RpcReply \cup {None})
      /\ outcome \in Seq(RpcReply \cup {Null, None}) /\ toServer \in Seq(Request)
      /\ Len(toServer) \in Nat
  BY RpcAssumption DEF RpcInv, RpcTypeOK, Begin, SingleThreaded
<1>2. UNCHANGED <<vars, icb, sockfd, toClient>> /\ icb = "connected"
  BY DEF Begin
<1>3. call' \in Seq(CallRecord) /\ Extended(call, call', k)
  <2>1. call' = Append(call, k)
    BY DEF Begin
  <2>2. QED
    BY <1>1, <2>1, AppendExtends, Zenon
<1>4. carried' \in Seq(RpcReply \cup {None}) /\ Extended(carried, carried', None)
  <2>1. carried' = Append(carried, None) /\ None \in RpcReply \cup {None}
    BY DEF Begin
  <2>2. QED
    BY <1>1, <2>1, AppendExtends, Zenon
<1>5. /\ outcome' \in Seq(RpcReply \cup {Null, None})
      /\ Extended(outcome, outcome', None)
  <2>1. outcome' = Append(outcome, None) /\ None \in RpcReply \cup {Null, None}
    BY DEF Begin
  <2>2. QED
    BY <1>1, <2>1, AppendExtends, Zenon
<1>6. /\ toServer' \in Seq(Request)
      /\ \/ toServer' = toServer
         \/ Extended(toServer, toServer', [xid |-> n + 1, call |-> k])
      /\ up[C] => Extended(toServer, toServer', [xid |-> n + 1, call |-> k])
  <2>1. [xid |-> n + 1, call |-> k] \in Request
    BY <1>1
  <2>2. /\ Append(toServer, [xid |-> n + 1, call |-> k]) \in Seq(Request)
        /\ Extended(toServer, Append(toServer, [xid |-> n + 1, call |-> k]),
                    [xid |-> n + 1, call |-> k])
    BY <1>1, <2>1, AppendExtends, Zenon
  <2>3. toServer' = IF up[C] THEN Append(toServer, [xid |-> n + 1, call |-> k])
                    ELSE toServer
    BY DEF Begin
  <2>4. QED
    BY <1>1, <2>2, <2>3
<1>7. /\ Last = n /\ Last' = n + 1
      /\ call'[n + 1] = k /\ carried'[n + 1] = None /\ outcome'[n + 1] = None
      /\ \A x \in 1 .. n : /\ call'[x] = call[x] /\ carried'[x] = carried[x]
                           /\ outcome'[x] = outcome[x]
      /\ \A x \in 1 .. n + 1 : x \in 1 .. n \/ x = n + 1
      /\ \A x \in 1 .. n : x \in 1 .. n + 1
  BY <1>1, <1>3, <1>4, <1>5 DEF Extended, Last
<1>8. /\ mine' = [mine EXCEPT ![t] = n + 1] /\ pc' = [pc EXCEPT ![t] = "waiting"]
      /\ result' = [result EXCEPT ![k.proc] = Cleared]
  BY DEF Begin
<1>9. held' \subseteq held
  OBVIOUS
<1>10. TypeOK'
  BY <1>2 DEF RpcInv, TypeOK, vars
<1>11. RpcTypeOK'
  <2>1. mine' \in [Thread -> 0 .. MaxCalls]
    BY <1>1, <1>8 DEF RpcInv, RpcTypeOK
  <2>2. pc' \in [Thread -> {"idle", "waiting", "returned"}]
    BY <1>8 DEF RpcInv, RpcTypeOK
  <2>3. result' \in [Proc -> RpcReply]
    BY <1>8, ReplyTypes DEF RpcInv, RpcTypeOK
  <2>4. Len(carried') = Len(call') /\ Len(outcome') = Len(call')
    BY <1>1, <1>3, <1>4, <1>5 DEF Extended
  <2>5. held' \subseteq [fd : FileFd, name : Name]
    BY <1>9 DEF RpcInv, RpcTypeOK
  <2>6. QED
    BY <1>2, <1>3, <1>4, <1>5, <1>6, <2>1, <2>2, <2>3, <2>4, <2>5
       DEF RpcInv, RpcTypeOK
<1> HIDE DEF n, Request
<1>12. \A x \in 1 .. n : outcome[x] # None
  BY <1>1, <1>7 DEF RpcInv, ThreadInv
<1>13. ThreadInv'
  <2>1. /\ pc'[t] = "waiting" /\ mine'[t] = n + 1
        /\ \A u \in Thread : u # t => pc'[u] = "idle"
    BY <1>1, <1>8 DEF RpcInv, RpcTypeOK
  <2>2. QED
    BY <1>1, <1>7, <1>12, <2>1 DEF ThreadInv
<1>14. QueueInv'
  <2>1. ASSUME NEW i \in 1 .. Len(toServer)
        PROVE  /\ toServer[i].xid \in 1 .. n
               /\ toServer[i].call = call'[toServer[i].xid]
               /\ \A y \in toServer[i].xid .. n + 1 : carried'[y] = None
    <3>1. /\ toServer[i].xid \in 1 .. n
          /\ toServer[i].call = call[toServer[i].xid]
          /\ \A y \in toServer[i].xid .. n : carried[y] = None
      BY <1>7 DEF RpcInv, QueueInv
    <3>2. QED
      BY <1>1, <1>7, <3>1
  <2>2. \A i, j \in 1 .. Len(toServer) : i < j => toServer[i].xid < toServer[j].xid
    BY DEF RpcInv, QueueInv
  <2>3. CASE toServer' = toServer
    BY <1>1, <1>7, <2>1, <2>2, <2>3 DEF QueueInv
  <2>4. CASE Extended(toServer, toServer', [xid |-> n + 1, call |-> k])
    <3>1. /\ Len(toServer') = Len(toServer) + 1
          /\ toServer'[Len(toServer) + 1].xid = n + 1
          /\ toServer'[Len(toServer) + 1].call = k
          /\ \A i \in 1 .. Len(toServer) : toServer'[i] = toServer[i]
      BY <2>4 DEF Extended
    <3>2. ASSUME NEW i \in 1 .. Len(toServer')
          PROVE  /\ toServer'[i].xid \in 1 .. n + 1
                 /\ toServer'[i].call = call'[toServer'[i].xid]
                 /\ \A y \in toServer'[i].xid .. n + 1 : carried'[y] = None
      <4>1. CASE i \in 1 .. Len(toServer)
        BY <1>1, <2>1, <3>1, <4>1
      <4>2. CASE i = Len(toServer) + 1
        BY <1>1, <1>7, <3>1, <4>2
      <4>3. QED
        BY <1>1, <3>1, <4>1, <4>2
    <3>3. ASSUME NEW i \in 1 .. Len(toServer'), NEW j \in 1 .. Len(toServer'), i < j
          PROVE  toServer'[i].xid < toServer'[j].xid
      <4>1. i \in 1 .. Len(toServer)
        BY <1>1, <3>1, <3>3
      <4>2. CASE j \in 1 .. Len(toServer)
        BY <2>2, <3>1, <3>3, <4>1, <4>2
      <4>3. CASE j = Len(toServer) + 1
        <5>1. toServer[i].xid \in 1 .. n
          BY <2>1, <4>1
        <5>2. toServer'[i].xid = toServer[i].xid /\ toServer'[j].xid = n + 1
          BY <3>1, <4>1, <4>3
        <5>3. QED
          BY <1>1, <5>1, <5>2
      <4>4. QED
        BY <1>1, <3>1, <4>2, <4>3
    <3>4. QED
      BY <1>7, <3>2, <3>3 DEF QueueInv
  <2>5. QED
    BY <1>6, <2>3, <2>4
<1>15. AnswerInv'
  <2>1. \A u \in Thread : pc'[u] # "returned"
    BY <1>1, <1>8 DEF RpcInv, RpcTypeOK
  <2>2. \A i \in 1 .. Len(toClient) :
           toClient[i].xid \in 1 .. n /\ toClient[i].res = carried[toClient[i].xid]
    BY <1>7 DEF RpcInv, AnswerInv
  <2>3. \A x \in 1 .. n :
          /\ outcome[x] \in {None, Null, carried[x]}
          /\ call[x].proc = "open" /\ carried[x] # None /\ carried[x].status = "OK"
                => carried[x].val \in FileFd
    BY <1>7 DEF RpcInv, AnswerInv
  <2>4. QED
    BY <1>2, <1>7, <2>1, <2>2, <2>3 DEF AnswerInv
<1>16. ServerInv'
  BY <1>2 DEF RpcInv, ServerInv, vars
<1>17. FdInv'
  <2>1. SUFFICES ASSUME up[C] PROVE FdInv'
    BY <1>2 DEF FdInv, vars
  <2>2. /\ Len(toServer') = Len(toServer) + 1
        /\ toServer'[Len(toServer) + 1].call = k
        /\ \A i \in 1 .. Len(toServer) : toServer'[i] = toServer[i]
        /\ \A i \in 1 .. Len(toServer') :
              i \in 1 .. Len(toServer) \/ i = Len(toServer) + 1
    BY <1>1, <1>6, <2>1 DEF Extended
  <2>3. \A h \in held : OpenOn(h.fd, h.name) /\ IsOpen(C, h.fd)
    BY <2>1, NoneAssumption
       DEF RpcInv, RpcTypeOK, FdInv, OpenOn, IsOpen, FileFd, ServerInv
  <2>4. \A g, h \in held : g # h => g.fd # h.fd
    BY <2>1 DEF RpcInv, FdInv
  <2>5. \A i \in 1 .. Len(toServer) : toServer[i].call.proc = "close" =>
           /\ IsOpen(C, toServer[i].call.fd)
           /\ \A h \in held : h.fd # toServer[i].call.fd
           /\ \A j \in 1 .. Len(toServer) :
                 j # i /\ toServer[j].call.proc = "close" =>
                     toServer[j].call.fd # toServer[i].call.fd
    BY <2>1 DEF RpcInv, FdInv
  <2>6. k.proc = "close" =>
           /\ IsOpen(C, k.fd) /\ \E h \in held : h.fd = k.fd
           /\ \A h \in held' : h.fd # k.fd
    BY <2>3, <2>4
  <2>7. ASSUME NEW i \in 1 .. Len(toServer'), toServer'[i].call.proc = "close"
        PROVE  /\ IsOpen(C, toServer'[i].call.fd)
               /\ \A h \in held' : h.fd # toServer'[i].call.fd
               /\ \A j \in 1 .. Len(toServer') :
                     j # i /\ toServer'[j].call.proc = "close" =>
                         toServer'[j].call.fd # toServer'[i].call.fd
    <3>1. CASE i \in 1 .. Len(toServer)
      BY <1>9, <2>2, <2>5, <2>6, <2>7, <3>1
    <3>2. CASE i = Len(toServer) + 1
      BY <2>2, <2>5, <2>6, <2>7, <3>2
    <3>3. QED
      BY <2>2, <3>1, <3>2
  <2>8. \A x \in 1 .. n + 1 : call'[x].proc = "open" /\ outcome'[x] = None =>
           carried'[x] = None
    BY <1>7, <1>12
  <2>9. UNCHANGED <<fdtable, inode, up>>
    BY <1>2 DEF vars
  <2>10. QED
    BY <1>7, <1>9, <2>3, <2>4, <2>7, <2>8, <2>9 DEF FdInv, OpenOn, IsOpen
<1>18. ReadInv'
  <2>1. ASSUME NEW x \in 1 .. n + 1, call'[x].proc = "pread"
        PROVE  /\ outcome'[x] = None =>
                     [fd |-> call'[x].fd, name |-> call'[x].name] \in held'
               /\ outcome'[x] # Null /\ carried'[x] # None =>
                     FileRead(carried'[x], inode[call'[x].name])
    <3>1. CASE x = n + 1
      BY <1>7, <2>1, <3>1
    <3>2. CASE x \in 1 .. n
      BY <1>7, <1>12, <2>1, <3>2 DEF RpcInv, ReadInv, FileRead
    <3>3. QED
      BY <1>7, <3>1, <3>2
  <2>2. QED
    BY <1>2, <1>7, <2>1 DEF ReadInv, FileRead, vars
<1>19. LeakExplained'
  <2>1. DOMAIN call = 1 .. n /\ DOMAIN call' = 1 .. n + 1
    BY <1>1, <1>3, <1>7 DEF Last, n
  <2>2. \A f : IsOpen(C, f)' <=> IsOpen(C, f)
    BY <1>2 DEF vars, IsOpen
  <2>3. SUFFICES ASSUME NEW f \in FileFd, IsOpen(C, f)
                 PROVE  \/ \E h \in held' : h.fd = f
                        \/ \E x \in 1 .. n + 1 :
                              /\ call'[x].proc = "open" /\ outcome'[x] \in {None, Null}
                              /\ carried'[x] # None
                              /\ carried'[x].status = "OK" /\ carried'[x].val = f
                        \/ \E x \in 1 .. n + 1 :
                              /\ call'[x].proc = "close" /\ call'[x].fd = f
                              /\ carried'[x] = None
    BY <2>1, <2>2 DEF LeakExplained
  <2>4. CASE \E h \in held : h.fd = f
    <3>1. n + 1 \in 1 .. n + 1
      BY <1>1
    <3>2. QED
      BY <1>7, <2>4, <3>1
  <2>5. CASE \E x \in 1 .. n :
                /\ call[x].proc = "open" /\ outcome[x] \in {None, Null}
                /\ carried[x] # None
                /\ carried[x].status = "OK" /\ carried[x].val = f
    BY <1>7, <2>5
  <2>6. CASE \E x \in 1 .. n :
                call[x].proc = "close" /\ call[x].fd = f /\ carried[x] = None
    BY <1>7, <2>6
  <2>7. QED
    BY <2>1, <2>3, <2>4, <2>5, <2>6 DEF RpcInv, LeakExplained
<1>20. QED
  BY <1>10, <1>11, <1>13, <1>14, <1>15, <1>16, <1>17, <1>18, <1>19 DEF RpcInv

LEMMA CallStep ==
    ASSUME RpcInv, NEW t \in Thread, CallOpen(t) \/ CallPread(t) \/ CallClose(t)
    PROVE  RpcInv'
<1>1. /\ held \subseteq [fd : FileFd, name : Name]
      /\ 0 \in Fd /\ \A f \in FileFd : f \in Fd
  BY RpcAssumption, SizeAssumption DEF RpcInv, RpcTypeOK, FileFd, Fd
<1>2. CASE CallOpen(t)
  <2>1. PICK n \in Name : Begin(t, [proc |-> "open", name |-> n, fd |-> 0])
    BY <1>2 DEF CallOpen
  <2>2. [proc |-> "open", name |-> n, fd |-> 0] \in CallRecord /\ held' = held
    BY <1>1, <1>2 DEF CallRecord, Proc, CallOpen
  <2>3. QED
    BY <2>1, <2>2, BeginStep
<1>3. CASE CallPread(t)
  <2>1. PICK h \in held : Begin(t, [proc |-> "pread", name |-> h.name, fd |-> h.fd])
    BY <1>3 DEF CallPread
  <2>2. /\ [proc |-> "pread", name |-> h.name, fd |-> h.fd] \in CallRecord
        /\ held' = held /\ [fd |-> h.fd, name |-> h.name] \in held
    BY <1>1, <1>3 DEF CallRecord, Proc, CallPread
  <2>3. QED
    BY <2>1, <2>2, BeginStep
<1>4. CASE CallClose(t)
  <2>1. PICK h \in held :
           /\ Begin(t, [proc |-> "close", name |-> h.name, fd |-> h.fd])
           /\ held' = held \ {h}
    BY <1>4 DEF CallClose
  <2>2. [proc |-> "close", name |-> h.name, fd |-> h.fd] \in CallRecord
    BY <1>1 DEF CallRecord, Proc
  <2>3. QED
    BY <2>1, <2>2, BeginStep
<1>5. QED
  BY <1>2, <1>3, <1>4

\* A reply is read: the one to the thread's call, or one to throw away.
LEMMA ReceiveStep ==
    ASSUME RpcInv, NEW t \in Thread, Receive(t)
    PROVE  RpcInv'
<1> DEFINE Response == [xid : 1 .. MaxCalls, res : RpcReply]
<1>1. UNCHANGED <<vars, icb, sockfd, toServer, carried, mine, held, call, outcome>>
  BY DEF Receive
<1>2. toClient \in Seq(Response) /\ toClient # <<>> /\ toClient' = Tail(toClient)
  BY DEF RpcInv, RpcTypeOK, Receive
<1>3. /\ toClient' \in Seq(Response) /\ Shifted(toClient, toClient')
      /\ Head(toClient) = toClient[1] /\ toClient[1] \in Response
  BY <1>2, TailShifts, Zenon
<1>4. Len(toClient) \in Nat /\ Len(toClient') \in Nat
  BY <1>2, <1>3
<1>5. /\ Last \in Nat /\ Last > 0 /\ mine[t] = Last
      /\ \A u \in Thread : u # t => pc[u] = "idle"
      /\ call[Last].proc \in Proc
  <2>1. /\ Last \in Nat /\ Last > 0 /\ mine[t] = Last
        /\ \A u \in Thread : u # t => pc[u] = "idle"
        /\ call[Last] \in CallRecord
    BY DEF RpcInv, ThreadInv, RpcTypeOK, Receive, Last
  <2>2. QED
    BY <2>1 DEF CallRecord
<1>6. \/ UNCHANGED <<pc, result>>
      \/ /\ pc' = [pc EXCEPT ![t] = "returned"]
         /\ toClient[1].xid = Last
         /\ result' = [result EXCEPT ![call[Last].proc] = toClient[1].res]
  BY <1>3, <1>5 DEF Receive, Matches
<1>7. TypeOK'
  BY <1>1 DEF RpcInv, TypeOK, vars
<1>8. RpcTypeOK'
  <2>1. pc' \in [Thread -> {"idle", "waiting", "returned"}]
    BY <1>6 DEF RpcInv, RpcTypeOK
  <2>2. result' \in [Proc -> RpcReply]
    BY <1>3, <1>5, <1>6 DEF RpcInv, RpcTypeOK
  <2>3. QED
    BY <1>1, <1>3, <2>1, <2>2 DEF RpcInv, RpcTypeOK
<1>9. ThreadInv'
  <2>1. \A u \in Thread : pc'[u] = "idle" <=> pc[u] = "idle"
    BY <1>6 DEF Receive, RpcInv, RpcTypeOK
  <2>2. QED
    BY <1>1, <2>1 DEF RpcInv, ThreadInv, Last
<1>10. AnswerInv'
  <2>1. \A i \in 1 .. Len(toClient) :
           toClient[i].xid \in 1 .. Last /\ toClient[i].res = carried[toClient[i].xid]
    BY DEF RpcInv, AnswerInv
  <2>2. \A i \in 1 .. Len(toClient') :
           toClient'[i].xid \in 1 .. Last /\ toClient'[i].res = carried[toClient'[i].xid]
    BY <1>3, <1>4, <2>1 DEF Shifted
  <2>3. ASSUME NEW u \in Thread, pc'[u] = "returned"
        PROVE  carried[Last] # None /\ result'[call[Last].proc] = carried[Last]
    <3>1. CASE UNCHANGED <<pc, result>>
      BY <2>3, <3>1 DEF RpcInv, AnswerInv
    <3>2. CASE /\ pc' = [pc EXCEPT ![t] = "returned"]
               /\ toClient[1].xid = Last
               /\ result' = [result EXCEPT ![call[Last].proc] = toClient[1].res]
      <4>1. toClient[1].res = carried[Last] /\ toClient[1].res \in RpcReply
        BY <1>3, <1>4, <2>1, <3>2 DEF Shifted
      <4>2. result'[call[Last].proc] = carried[Last]
        BY <1>5, <3>2, <4>1 DEF RpcInv, RpcTypeOK
      <4>3. QED
        BY <4>1, <4>2, ReplyTypes
    <3>3. QED
      BY <1>6, <3>1, <3>2
  <2>4. QED
    BY <1>1, <2>2, <2>3 DEF RpcInv, AnswerInv, Last
<1>11. QueueInv' /\ ServerInv'
  BY <1>1 DEF RpcInv, QueueInv, ServerInv, Last, vars
<1>12. FdInv'
  BY <1>1 DEF RpcInv, FdInv, OpenOn, IsOpen, Unused, Last, vars
<1>13. ReadInv' /\ LeakExplained'
  BY <1>1 DEF RpcInv, ReadInv, FileRead, LeakExplained, IsOpen, Last, vars
<1>14. QED
  BY <1>7, <1>8, <1>9, <1>10, <1>11, <1>12, <1>13 DEF RpcInv

\* A call returns, with a failure or with what it was answered.
LEMMA LeaveStep ==
    ASSUME RpcInv, NEW t \in Thread, pc[t] # "idle",
           NEW r \in {Null, carried[Last]}, r # None, Leave(t, r),
           held' = IF call[Last].proc = "open" /\ r.status = "OK"
                   THEN held \cup {[fd |-> r.val, name |-> call[Last].name]}
                   ELSE held
    PROVE  RpcInv'
<1>1. UNCHANGED <<vars, icb, sockfd, toServer, toClient, carried, result, call>>
  BY DEF Leave
<1>2. /\ Last \in Nat /\ Last > 0 /\ mine[t] = Last /\ outcome[Last] = None
      /\ Last \in 1 .. Last /\ Len(outcome) = Last /\ Len(carried) = Last
      /\ \A u \in Thread : u # t => pc[u] = "idle"
      /\ call[Last] \in CallRecord
      /\ outcome \in Seq(RpcReply \cup {Null, None})
      /\ carried[Last] \in RpcReply \cup {None}
      /\ r \in RpcReply \cup {Null, None}
  BY DEF RpcInv, ThreadInv, RpcTypeOK, Last
<1>3. outcome' = [outcome EXCEPT ![Last] = r]
  BY <1>2 DEF Leave
<1>4. /\ outcome' \in Seq(RpcReply \cup {Null, None}) /\ Len(outcome') = Last
      /\ outcome'[Last] = r
      /\ \A x \in 1 .. Last : x # Last => outcome'[x] = outcome[x]
  BY <1>2, <1>3, ExceptMember
<1>5. \A u \in Thread : pc'[u] = "idle"
  BY <1>2 DEF Leave, RpcInv, RpcTypeOK
<1>6. \A x \in 1 .. Last : outcome'[x] # None
  BY <1>4 DEF RpcInv, ThreadInv
<1>7. \/ held' = held
      \/ /\ call[Last].proc = "open" /\ r # Null
         /\ carried[Last] # None /\ carried[Last].status = "OK"
         /\ carried[Last].val \in FileFd
         /\ held' = held \cup {[fd |-> carried[Last].val, name |-> call[Last].name]}
  <2>1. Null.status # "OK"
    BY DEF Null, Answer
  <2>2. CASE call[Last].proc = "open" /\ r.status = "OK"
    BY <1>2, <2>1, <2>2 DEF RpcInv, AnswerInv
  <2>3. QED
    BY <2>2
<1>8. TypeOK'
  BY <1>1 DEF RpcInv, TypeOK, vars
<1>9. RpcTypeOK'
  <2>1. pc' \in [Thread -> {"idle", "waiting", "returned"}]
    BY DEF RpcInv, RpcTypeOK, Leave
  <2>2. mine' \in [Thread -> 0 .. MaxCalls]
    BY RpcAssumption DEF RpcInv, RpcTypeOK, Leave
  <2>3. held' \subseteq [fd : FileFd, name : Name]
    BY <1>2, <1>7 DEF RpcInv, RpcTypeOK, CallRecord
  <2>4. QED
    BY <1>1, <1>4, <2>1, <2>2, <2>3 DEF RpcInv, RpcTypeOK, Last
<1>10. ThreadInv'
  BY <1>1, <1>5, <1>6 DEF ThreadInv, Last
<1>11. QueueInv' /\ ServerInv'
  <2>1. icb # "none"
    BY <1>2 DEF RpcInv, ServerInv, Last
  <2>2. QED
    BY <1>1, <2>1 DEF RpcInv, QueueInv, ServerInv, Last, vars
<1>12. AnswerInv'
  BY <1>1, <1>4, <1>5 DEF RpcInv, AnswerInv, Last
<1>13. FdInv'
  <2>1. SUFFICES ASSUME up[C] PROVE FdInv'
    BY <1>1 DEF FdInv, vars
  <2>2. CASE held' = held
    BY <1>1, <1>6, <2>1, <2>2 DEF RpcInv, FdInv, OpenOn, IsOpen, Last, vars
  <2>3. CASE /\ call[Last].proc = "open"
             /\ carried[Last] # None /\ carried[Last].status = "OK"
             /\ held' = held \cup {[fd |-> carried[Last].val, name |-> call[Last].name]}
    <3>1. OpenOn(carried[Last].val, call[Last].name) /\ Unused(carried[Last].val)
      BY <1>2, <2>1, <2>3 DEF RpcInv, FdInv
    <3>2. \A h \in held' : OpenOn(h.fd, h.name)
      BY <2>1, <2>3, <3>1 DEF RpcInv, FdInv
    <3>3. \A g, h \in held' : g # h => g.fd # h.fd
      BY <2>1, <2>3, <3>1 DEF RpcInv, FdInv, Unused
    <3>4. \A i \in 1 .. Len(toServer) : toServer[i].call.proc = "close" =>
             /\ IsOpen(C, toServer[i].call.fd)
             /\ \A h \in held' : h.fd # toServer[i].call.fd
             /\ \A j \in 1 .. Len(toServer) :
                   j # i /\ toServer[j].call.proc = "close" =>
                       toServer[j].call.fd # toServer[i].call.fd
      BY <2>1, <2>3, <3>1 DEF RpcInv, FdInv, Unused
    <3>5. QED
      BY <1>1, <1>6, <3>2, <3>3, <3>4 DEF FdInv, OpenOn, IsOpen, Last, vars
  <2>4. QED
    BY <1>7, <2>2, <2>3
<1>14. ReadInv'
  <2>1. ASSUME NEW x \in 1 .. Last, call[x].proc = "pread", outcome'[x] # Null
        PROVE  outcome[x] # Null
    BY <1>2, <1>4, <2>1, ReplyTypes
  <2>2. QED
    BY <1>1, <1>6, <2>1 DEF RpcInv, ReadInv, FileRead, Last, vars
<1>15. LeakExplained'
  <2>1. DOMAIN call = 1 .. Last
    BY DEF RpcInv, RpcTypeOK, Last
  <2>2. SUFFICES ASSUME NEW f \in FileFd, IsOpen(C, f)
                 PROVE  \/ \E h \in held' : h.fd = f
                        \/ \E x \in 1 .. Last :
                              /\ call[x].proc = "open" /\ outcome'[x] \in {None, Null}
                              /\ carried[x] # None
                              /\ carried[x].status = "OK" /\ carried[x].val = f
                        \/ \E x \in 1 .. Last :
                              /\ call[x].proc = "close" /\ call[x].fd = f
                              /\ carried[x] = None
    BY <1>1, <2>1 DEF LeakExplained, IsOpen, vars
  <2>3. CASE \E h \in held : h.fd = f
    BY <1>7, <2>3
  <2>4. CASE \E x \in 1 .. Last :
                /\ call[x].proc = "open" /\ outcome[x] \in {None, Null}
                /\ carried[x] # None
                /\ carried[x].status = "OK" /\ carried[x].val = f
    <3>1. PICK x \in 1 .. Last :
                /\ call[x].proc = "open" /\ outcome[x] \in {None, Null}
                /\ carried[x] # None
                /\ carried[x].status = "OK" /\ carried[x].val = f
      BY <2>4
    <3>2. CASE x # Last
      BY <1>4, <3>1, <3>2
    <3>3. CASE x = Last /\ r = Null
      BY <1>4, <3>1, <3>3
    <3>4. CASE x = Last /\ r = carried[Last]
      <4>1. [fd |-> r.val, name |-> call[Last].name] \in held' /\ r.val = f
        BY <3>1, <3>4
      <4>2. QED
        BY <4>1
    <3>5. QED
      BY <3>2, <3>3, <3>4
  <2>5. QED
    BY <2>1, <2>2, <2>3, <2>4 DEF RpcInv, LeakExplained
<1>16. QED
  BY <1>8, <1>9, <1>10, <1>11, <1>12, <1>13, <1>14, <1>15 DEF RpcInv

LEMMA GiveUpStep ==
    ASSUME RpcInv, NEW t \in Thread, GiveUp(t)
    PROVE  RpcInv'
<1>1. pc[t] # "idle" /\ Leave(t, Null) /\ held' = held
  BY DEF GiveUp
<1>2. Null # None /\ Null.status # "OK"
  BY ReplyTypes DEF Null, Answer
<1>3. QED
  BY <1>1, <1>2, LeaveStep

LEMMA ReturnStep ==
    ASSUME RpcInv, NEW t \in Thread, Return(t)
    PROVE  RpcInv'
<1>1. /\ pc[t] = "returned" /\ mine[t] = Last
      /\ carried[Last] # None /\ result[call[Last].proc] = carried[Last]
  BY DEF Return, RpcInv, ThreadInv, AnswerInv
<1>2. /\ Leave(t, carried[Last])
      /\ held' = IF call[Last].proc = "open" /\ carried[Last].status = "OK"
                 THEN held \cup {[fd |-> carried[Last].val, name |-> call[Last].name]}
                 ELSE held
  BY <1>1 DEF Return, GivesFd
<1>3. QED
  BY <1>1, <1>2, LeaveStep

\* What carrying a request out does to the descriptors, by its procedure.
ServedFds(q) ==
    \/ q.proc # "close" /\ reply'.status = "ERROR" /\ UNCHANGED fdtable
    \/ LET f == reply'.val
       IN  /\ q.proc = "open" /\ reply'.status = "OK"
           /\ f \in FileFd /\ fdtable[C][f].ino = None
           /\ fdtable'[C][f].ino = inode[q.name] /\ fdtable'[C][f].read
           /\ \A g \in Fd : g # f => fdtable'[C][g] = fdtable[C][g]
    \/ q.proc = "pread" /\ UNCHANGED fdtable
    \/ /\ q.proc = "close" /\ fdtable'[C][q.fd].ino = None
       /\ \A g \in Fd : g # q.fd => fdtable'[C][g] = fdtable[C][g]

LEMMA ServeEffect ==
    ASSUME RpcInv, Serve
    PROVE  LET q == toServer[1].call
           IN  /\ q \in CallRecord
               /\ TypeOK' /\ reply' \in RpcReply /\ UNCHANGED <<up, inode, content>>
               /\ ServedFds(q)
               /\ q.proc = "pread" /\ IsOpen(C, q.fd) /\ fdtable[C][q.fd].read =>
                    FileRead(reply', fdtable[C][q.fd].ino)
<1> DEFINE q == toServer[1].call
<1>1. /\ toServer[1] \in [xid : 1 .. MaxCalls, call : CallRecord]
      /\ Head(toServer) = toServer[1]
  <2>1. /\ toServer \in Seq([xid : 1 .. MaxCalls, call : CallRecord])
        /\ toServer # <<>>
    BY DEF RpcInv, RpcTypeOK, Serve
  <2>2. QED
    BY <2>1, TailShifts, Zenon
<1>2. /\ q \in CallRecord /\ q.name \in Name /\ q.fd \in Fd
      /\ q.proc # "open" => q.fd \in FileFd
  BY <1>1 DEF CallRecord
<1>3. \/ q.proc = "open" /\ Open(C, q.name, {"RDWR"})
      \/ q.proc = "pread" /\ Pread(C, q.fd, 0, 1)
      \/ q.proc = "close" /\ Close(C, q.fd)
  BY <1>1 DEF Serve
<1> HIDE DEF q
<1>4. TypeOK /\ inode \in [Name -> Inode] /\ \A i \in Inode : Len(content[i]) = 1
  BY DEF RpcInv, ServerInv
<1>5. CASE q.proc = "open" /\ Open(C, q.name, {"RDWR"})
  <2>1. /\ TypeOK' /\ reply' \in RpcReply /\ UNCHANGED <<up, inode, content>>
        /\ \/ reply'.status = "ERROR" /\ UNCHANGED fdtable
           \/ LET f == reply'.val
              IN  /\ reply'.status = "OK"
                  /\ f \in FileFd /\ fdtable[C][f].ino = None
                  /\ fdtable'[C][f].ino = inode[q.name] /\ fdtable'[C][f].read
                  /\ \A g \in Fd : g # f => fdtable'[C][g] = fdtable[C][g]
    BY <1>2, <1>4, <1>5, OpenServed
  <2>2. QED
    BY <1>2, <1>5, <2>1 DEF ServedFds, q
<1>6. CASE q.proc = "pread" /\ Pread(C, q.fd, 0, 1)
  BY <1>2, <1>4, <1>6, PreadServed DEF ServedFds, q
<1>7. CASE q.proc = "close" /\ Close(C, q.fd)
  BY <1>2, <1>4, <1>7, CloseServed DEF ServedFds, q
<1>8. QED
  BY <1>3, <1>5, <1>6, <1>7

\* The first request is carried out and answered.
LEMMA ServeStep ==
    ASSUME RpcInv, Serve
    PROVE  RpcInv'
<1> DEFINE Request == [xid : 1 .. MaxCalls, call : CallRecord]
<1> DEFINE Response == [xid : 1 .. MaxCalls, res : RpcReply]
<1> DEFINE x == toServer[1].xid
<1> DEFINE q == toServer[1].call
<1>1. /\ toServer \in Seq(Request) /\ toServer # <<>> /\ toServer' = Tail(toServer)
      /\ toClient \in Seq(Response)
      /\ UNCHANGED <<icb, sockfd, pc, mine, result, held, call, outcome>>
      /\ up[C]
  BY DEF RpcInv, RpcTypeOK, Serve, clientVars
<1>2. /\ toServer' \in Seq(Request) /\ Shifted(toServer, toServer')
      /\ Head(toServer) = toServer[1] /\ toServer[1] \in Request
  BY <1>1, TailShifts, Zenon
<1>3. Len(toServer) \in Nat /\ Len(toServer') \in Nat /\ 1 \in 1 .. Len(toServer)
  BY <1>1, <1>2 DEF Shifted
<1>4. /\ q \in CallRecord /\ TypeOK' /\ reply' \in RpcReply
      /\ UNCHANGED <<up, inode, content>> /\ ServedFds(q)
      /\ q.proc = "pread" /\ IsOpen(C, q.fd) /\ fdtable[C][q.fd].read =>
            FileRead(reply', fdtable[C][q.fd].ino)
  BY ServeEffect
<1>5. /\ Last \in Nat /\ Last' = Last /\ x \in 1 .. Last /\ q = call[x]
      /\ \A y \in x .. Last : carried[y] = None
      /\ Len(carried) = Last /\ carried \in Seq(RpcReply \cup {None})
      /\ carried[x] = None
  <2>1. x \in 1 .. Last /\ q = call[x] /\ \A y \in x .. Last : carried[y] = None
    BY <1>3 DEF RpcInv, QueueInv
  <2>2. Last \in Nat /\ Len(carried) = Last /\ carried \in Seq(RpcReply \cup {None})
    BY DEF RpcInv, RpcTypeOK, Last
  <2>3. Last' = Last
    BY <1>1 DEF Last
  <2>4. QED
    BY <2>1, <2>2, <2>3
<1>6. /\ carried' \in Seq(RpcReply \cup {None}) /\ Len(carried') = Last
      /\ carried'[x] = reply' /\ carried'[x] # None
      /\ \A y \in 1 .. Last : y # x => carried'[y] = carried[y]
  <2>1. carried' = [carried EXCEPT ![x] = reply']
    BY <1>2 DEF Serve
  <2>2. reply' \in RpcReply \cup {None} /\ reply' # None
    BY <1>4, ReplyTypes
  <2>3. QED
    BY <1>5, <2>1, <2>2, ExceptMember
<1>7. /\ toClient' \in Seq(Response)
      /\ Extended(toClient, toClient', [xid |-> x, res |-> reply'])
  <2>1. toClient' = Append(toClient, [xid |-> x, res |-> reply'])
    BY <1>2 DEF Serve
  <2>2. [xid |-> x, res |-> reply'] \in Response
    BY <1>2, <1>4
  <2>3. QED
    BY <1>1, <2>1, <2>2, AppendExtends, Zenon
<1>8. RpcTypeOK'
  BY <1>1, <1>2, <1>6, <1>7 DEF RpcInv, RpcTypeOK, Last
<1>9. \A i \in 1 .. Len(toServer') :
         toServer'[i] = toServer[i + 1] /\ i + 1 \in 1 .. Len(toServer) /\ i + 1 # 1
  BY <1>2, <1>3 DEF Shifted
<1>10. outcome[x] \in {None, Null}
  BY <1>5 DEF RpcInv, AnswerInv
<1> HIDE DEF Request, Response, x, q
<1>11. ThreadInv'
  BY <1>1, <1>5 DEF RpcInv, ThreadInv
<1>12. QueueInv'
  <2>1. ASSUME NEW i \in 1 .. Len(toServer')
        PROVE  /\ toServer'[i].xid \in 1 .. Last
               /\ toServer'[i].call = call[toServer'[i].xid]
               /\ \A y \in toServer'[i].xid .. Last : carried'[y] = None
    <3>1. /\ toServer'[i].xid \in 1 .. Last
          /\ toServer'[i].call = call[toServer'[i].xid]
          /\ \A y \in toServer'[i].xid .. Last : carried[y] = None
      BY <1>9 DEF RpcInv, QueueInv
    <3>2. x < toServer'[i].xid
      BY <1>3, <1>9 DEF RpcInv, QueueInv, x
    <3>3. QED
      BY <1>5, <1>6, <3>1, <3>2
  <2>2. ASSUME NEW i \in 1 .. Len(toServer'), NEW j \in 1 .. Len(toServer'), i < j
        PROVE  toServer'[i].xid < toServer'[j].xid
    <3>1. i + 1 < j + 1
      BY <1>3, <2>2
    <3>2. QED
      BY <1>9, <3>1 DEF RpcInv, QueueInv
  <2>3. QED
    BY <1>1, <1>5, <2>1, <2>2 DEF QueueInv
<1>13. AnswerInv'
  <2>1. ASSUME NEW i \in 1 .. Len(toClient')
        PROVE  /\ toClient'[i].xid \in 1 .. Last
               /\ toClient'[i].res = carried'[toClient'[i].xid]
    <3>1. Len(toClient) \in Nat /\ Len(toClient') = Len(toClient) + 1
      BY <1>1, <1>7 DEF Extended
    <3>2. CASE i = Len(toClient) + 1
      BY <1>5, <1>6, <1>7, <3>2 DEF Extended
    <3>3. CASE i \in 1 .. Len(toClient)
      <4>1. toClient'[i] = toClient[i]
        BY <1>7, <3>3 DEF Extended
      <4>2. /\ toClient[i].xid \in 1 .. Last
            /\ toClient[i].res = carried[toClient[i].xid]
        BY <3>3 DEF RpcInv, AnswerInv
      <4>3. toClient[i].res \in RpcReply
        <5>1. toClient[i] \in Response
          BY <1>1, <3>3
        <5>2. QED
          BY <5>1 DEF Response
      <4>4. toClient[i].xid # x
        BY <1>5, <4>2, <4>3, ReplyTypes
      <4>5. QED
        BY <1>6, <4>1, <4>2, <4>4
    <3>4. QED
      BY <3>1, <3>2, <3>3
  <2>2. \A t \in Thread : pc[t] # "returned"
    <3>1. carried[Last] = None
      BY <1>5
    <3>2. QED
      BY <3>1 DEF RpcInv, AnswerInv
  <2>3. ASSUME NEW y \in 1 .. Last
        PROVE  /\ outcome[y] \in {None, Null, carried'[y]}
               /\ call[y].proc = "open" /\ carried'[y] # None
                     /\ carried'[y].status = "OK" => carried'[y].val \in FileFd
    <3>1. CASE y = x
      BY <1>4, <1>5, <1>6, <1>10, <3>1 DEF ServedFds
    <3>2. CASE y # x
      BY <1>6, <3>2 DEF RpcInv, AnswerInv
    <3>3. QED
      BY <3>1, <3>2
  <2>4. QED
    BY <1>1, <1>5, <2>1, <2>2, <2>3 DEF AnswerInv
<1>14. ServerInv'
  BY <1>1, <1>4, <1>5 DEF RpcInv, ServerInv, Last
<1>15. FdInv'
  <2>1. /\ \A h \in held : OpenOn(h.fd, h.name) /\ h.fd \in Fd /\ h.name \in Name
        /\ \A g, h \in held : g # h => g.fd # h.fd
        /\ \A i \in 1 .. Len(toServer) : toServer[i].call.proc = "close" =>
              /\ IsOpen(C, toServer[i].call.fd)
              /\ \A h \in held : h.fd # toServer[i].call.fd
              /\ \A j \in 1 .. Len(toServer) :
                    j # i /\ toServer[j].call.proc = "close" =>
                        toServer[j].call.fd # toServer[i].call.fd
    BY <1>1 DEF RpcInv, FdInv, RpcTypeOK, FileFd
  <2>2. \A h \in held : fdtable[C][h.fd].ino # None
    BY <2>1, NoneAssumption DEF OpenOn, RpcInv, ServerInv
  \* What the program holds or has asked to close stays as it is, except
  \* what this request closes.
  <2>3. ASSUME NEW f \in Fd, fdtable[C][f].ino # None,
               q.proc = "close" => f # q.fd
        PROVE  fdtable'[C][f] = fdtable[C][f]
    BY <1>4, <2>3 DEF ServedFds
  <2>4. q.proc = "close" =>
           /\ \A h \in held : h.fd # q.fd
           /\ \A i \in 1 .. Len(toServer') :
                 toServer'[i].call.proc = "close" => toServer'[i].call.fd # q.fd
    BY <1>3, <1>9, <2>1 DEF q
  <2>5. \A h \in held : OpenOn(h.fd, h.name)'
    BY <1>1, <1>4, <2>1, <2>2, <2>3, <2>4 DEF OpenOn
  <2>6. ASSUME NEW i \in 1 .. Len(toServer'), toServer'[i].call.proc = "close"
        PROVE  /\ IsOpen(C, toServer[i].call.fd)'
               /\ fdtable[C][toServer'[i].call.fd].ino # None
               /\ \A h \in held : h.fd # toServer'[i].call.fd
               /\ \A j \in 1 .. Len(toServer') :
                     j # i /\ toServer'[j].call.proc = "close" =>
                         toServer'[j].call.fd # toServer'[i].call.fd
    <3>1. /\ IsOpen(C, toServer'[i].call.fd)
          /\ \A h \in held : h.fd # toServer'[i].call.fd
      BY <1>9, <2>1, <2>6
    <3>2. ASSUME NEW j \in 1 .. Len(toServer'), j # i,
                 toServer'[j].call.proc = "close"
          PROVE  toServer'[j].call.fd # toServer'[i].call.fd
      <4>1. i + 1 # j + 1
        BY <1>3, <3>2
      <4>2. QED
        BY <1>9, <2>1, <2>6, <3>2, <4>1
    <3>3. IsOpen(C, toServer[i].call.fd)'
      BY <2>3, <2>4, <2>6, <3>1 DEF IsOpen
    <3>4. QED
      BY <3>1, <3>2, <3>3 DEF IsOpen
  <2>7. ASSUME NEW y \in 1 .. Last, call[y].proc = "open", outcome[y] = None,
               carried'[y] # None, carried'[y].status = "OK"
        PROVE  OpenOn(carried[y].val, call[y].name)' /\ Unused(carried[y].val)'
    <3>1. y = x
      <4>1. y = Last
        BY <2>7 DEF RpcInv, ThreadInv
      <4>2. QED
        BY <1>5, <1>6, <2>7, <4>1
    <3>2. LET f == reply'.val
          IN  /\ f \in FileFd /\ fdtable[C][f].ino = None
              /\ fdtable'[C][f].ino = inode[q.name] /\ fdtable'[C][f].read
      BY <1>4, <1>5, <1>6, <2>7, <3>1 DEF ServedFds
    <3>3. OpenOn(carried[y].val, call[y].name)'
      BY <1>1, <1>4, <1>5, <1>6, <3>1, <3>2 DEF OpenOn
    <3>4. Unused(carried[y].val)'
      BY <1>1, <1>6, <2>2, <2>6, <3>1, <3>2 DEF Unused
    <3>5. QED
      BY <3>3, <3>4
  <2>8. QED
    BY <1>1, <1>5, <2>1, <2>5, <2>6, <2>7 DEF FdInv
<1>16. ReadInv'
  <2>1. ASSUME NEW y \in 1 .. Last, call[y].proc = "pread"
        PROVE  /\ outcome[y] = None => [fd |-> call[y].fd, name |-> call[y].name] \in held
               /\ outcome[y] # Null /\ carried'[y] # None =>
                    FileRead(carried'[y], inode[call[y].name])
    <3>1. outcome[y] = None => [fd |-> call[y].fd, name |-> call[y].name] \in held
      BY <2>1 DEF RpcInv, ReadInv, FileRead
    <3>2. CASE y # x
      BY <1>6, <2>1, <3>2 DEF RpcInv, ReadInv, FileRead
    <3>3. CASE y = x /\ outcome[y] = Null
      BY <3>1, <3>3
    <3>4. CASE y = x /\ outcome[y] = None
      <4>1. OpenOn(q.fd, q.name)
        BY <1>1, <1>5, <3>1, <3>4 DEF RpcInv, FdInv
      <4>2. q.fd \in Fd /\ q.name \in Name
        BY <1>4 DEF CallRecord
      <4>3. IsOpen(C, q.fd) /\ fdtable[C][q.fd].read /\ fdtable[C][q.fd].ino = inode[q.name]
        BY <4>1, <4>2, NoneAssumption DEF OpenOn, IsOpen, RpcInv, ServerInv
      <4>4. QED
        BY <1>4, <1>5, <1>6, <2>1, <3>1, <3>4, <4>3 DEF FileRead
    <3>5. QED
      BY <1>10, <3>2, <3>3, <3>4
  <2>2. QED
    BY <1>1, <1>4, <1>5, <2>1 DEF ReadInv, FileRead
<1>17. LeakExplained'
  <2>1. DOMAIN call = 1 .. Last
    BY DEF RpcInv, RpcTypeOK, Last
  <2>2. SUFFICES ASSUME NEW f \in FileFd, IsOpen(C, f)'
                 PROVE  \/ \E h \in held : h.fd = f
                        \/ \E y \in 1 .. Last :
                              /\ call[y].proc = "open" /\ outcome[y] \in {None, Null}
                              /\ carried'[y] # None
                              /\ carried'[y].status = "OK" /\ carried'[y].val = f
                        \/ \E y \in 1 .. Last :
                              /\ call[y].proc = "close" /\ call[y].fd = f
                              /\ carried'[y] = None
    BY <1>1, <2>1 DEF LeakExplained
  <2>3. CASE ~IsOpen(C, f)
    <3>1. q.proc = "open" /\ reply'.status = "OK" /\ reply'.val = f
      BY <1>4, <2>2, <2>3 DEF ServedFds, IsOpen, CallRecord
    <3>2. QED
      BY <1>5, <1>6, <1>10, <3>1
  <2>4. CASE IsOpen(C, f)
    <3>1. CASE \E h \in held : h.fd = f
      BY <3>1
    <3>2. CASE \E y \in 1 .. Last :
                  /\ call[y].proc = "open" /\ outcome[y] \in {None, Null}
                  /\ carried[y] # None
                  /\ carried[y].status = "OK" /\ carried[y].val = f
      BY <1>5, <1>6, <3>2
    <3>3. CASE \E y \in 1 .. Last :
                  call[y].proc = "close" /\ call[y].fd = f /\ carried[y] = None
      <4>1. PICK y \in 1 .. Last :
                  call[y].proc = "close" /\ call[y].fd = f /\ carried[y] = None
        BY <3>3
      <4>2. y # x
        BY <1>4, <1>5, <2>2, <4>1 DEF ServedFds, IsOpen
      <4>3. QED
        BY <1>6, <4>1, <4>2
    <3>4. QED
      BY <2>1, <2>4, <3>1, <3>2, <3>3 DEF RpcInv, LeakExplained
  <2>5. QED
    BY <2>3, <2>4
<1>18. QED
  BY <1>4, <1>8, <1>11, <1>12, <1>13, <1>14, <1>15, <1>16, <1>17 DEF RpcInv

LEMMA RpcStep == RpcInv /\ [RpcNext]_rpcVars => RpcInv'
<1> SUFFICES ASSUME RpcInv, [RpcNext]_rpcVars PROVE RpcInv'
  OBVIOUS
<1>1. CASE UNCHANGED rpcVars
  <2>1. /\ UNCHANGED vars
        /\ UNCHANGED <<icb, sockfd, toServer, toClient, carried, pc, mine, result,
                       held, call, outcome>>
    BY <1>1 DEF rpcVars, clientVars
  <2>2. TypeOK' /\ RpcTypeOK'
    BY <2>1 DEF RpcInv, TypeOK, RpcTypeOK, vars
  <2>3. ThreadInv' /\ AnswerInv'
    BY <2>1, CallsUnchanged
  <2>4. QueueInv' /\ ServerInv' /\ ReadInv' /\ LeakExplained'
    BY <2>1 DEF RpcInv, QueueInv, ServerInv, ReadInv, FileRead, LeakExplained, IsOpen, Last, vars
  <2>5. FdInv'
    BY <2>1 DEF RpcInv, FdInv, OpenOn, IsOpen, Unused, Last, vars
  <2>6. QED
    BY <2>2, <2>3, <2>4, <2>5 DEF RpcInv
<1>2. CASE Create
  BY <1>2, CreateStep
<1>3. CASE Destroy
  BY <1>3, DestroyStep
<1>4. CASE \E t \in Thread :
              \/ CallOpen(t) \/ CallPread(t) \/ CallClose(t)
              \/ Receive(t) \/ GiveUp(t) \/ Return(t)
  BY <1>4, CallStep, ReceiveStep, GiveUpStep, ReturnStep
<1>5. CASE Serve
  BY <1>5, ServeStep
<1>6. CASE ServeEof \/ Break
  BY <1>6, GoneStep DEF ServeEof, Break
<1>7. QED
  BY <1>1, <1>2, <1>3, <1>4, <1>5, <1>6 DEF RpcNext

LEMMA RpcInvAlways == RpcSpec => []RpcInv
BY RpcInitInv, RpcStep, PTL DEF RpcSpec

-----------------------------------------------------------------------------
(* The theorems.                                                           *)

\* The library's and the server's variables keep their types, for any
\* number of calls given up, answered late or lost; in particular no program
\* is given a descriptor number that is one of the server's own.
THEOREM RpcTypeCorrect == RpcSpec => []RpcTypeOK
<1>1. RpcInv => RpcTypeOK
  BY DEF RpcInv
<1>2. QED
  BY <1>1, RpcInvAlways, PTL

LEMMA InvHeldIsOpen == RpcInv => HeldIsOpen
<1> SUFFICES ASSUME RpcInv PROVE HeldIsOpen
  OBVIOUS
<1>1. ASSUME up[C], NEW g \in held, NEW h \in held
      PROVE  fdtable[C][h.fd].ino = inode[h.name] /\ (g # h => g.fd # h.fd)
  BY <1>1 DEF RpcInv, FdInv, OpenOn
<1>2. ASSUME NEW x \in DOMAIN call, call[x].proc = "pread",
             outcome[x] \notin {None, Null}
      PROVE  FileRead(outcome[x], inode[call[x].name])
  <2>1. x \in 1 .. Last
    BY DEF RpcInv, RpcTypeOK, Last
  <2>2. outcome[x] = carried[x]
    BY <1>2, <2>1 DEF RpcInv, AnswerInv
  <2>3. QED
    BY <1>2, <2>1, <2>2 DEF RpcInv, ReadInv, FileRead
<1>3. QED
  BY <1>1, <1>2 DEF HeldIsOpen

\* What a program holds is open in the server's process on the file it asked
\* for, whatever calls were given up and carried out late; what a read of
\* it returns is that file's data.
THEOREM HeldIsOpenAlways == RpcSpec => []HeldIsOpen
BY InvHeldIsOpen, RpcInvAlways, PTL

\* A descriptor that is open in the server's process and not held comes from
\* an open given up or not over, or is about to be closed.
THEOREM LeakExplainedAlways == RpcSpec => []LeakExplained
<1>1. RpcInv => LeakExplained
  BY DEF RpcInv
<1>2. QED
  BY <1>1, RpcInvAlways, PTL

-----------------------------------------------------------------------------
(* The calls of the library implement CallOnce.                            *)

\* Making a call issues one.
LEMMA BeginIssues ==
    ASSUME RpcInv, NEW t \in Thread, NEW k, Begin(t, k)
    PROVE  Once!Issue
<1>1. Len(outcome) = Last /\ Last \in Nat
  BY DEF RpcInv, RpcTypeOK, Last
<1>2. \A x \in 1 .. Last : outcome[x] # None
  BY DEF RpcInv, ThreadInv, Begin, SingleThreaded
<1>3. Last + 1 <= MaxCalls /\ MaxCalls \in Nat
  BY RpcAssumption DEF Begin, Last
<1>4. carried' = Append(carried, None) /\ outcome' = Append(outcome, None)
  BY DEF Begin
<1>5. QED
  BY <1>1, <1>2, <1>3, <1>4 DEF Once!Issue, Once!issued

\* Serving a request carries its call out, not before and not after any
\* call made later.
LEMMA ServeCarriesOut ==
    ASSUME RpcInv, Serve
    PROVE  \E x \in 1 .. Len(outcome) : Once!CarryOut(x)
<1> DEFINE x == toServer[1].xid
<1>1. /\ toServer \in Seq([xid : 1 .. MaxCalls, call : CallRecord])
      /\ toServer # <<>>
  BY DEF RpcInv, RpcTypeOK, Serve
<1>2. Head(toServer) = toServer[1] /\ 1 \in 1 .. Len(toServer)
  BY <1>1
<1>3. x \in 1 .. Last /\ \A y \in x .. Last : carried[y] = None
  BY <1>2 DEF RpcInv, QueueInv
<1>4. /\ Len(outcome) = Last /\ Len(carried) = Last /\ Last \in Nat
      /\ carried \in Seq(RpcReply \cup {None})
  BY DEF RpcInv, RpcTypeOK, Last
<1>5. carried' = [carried EXCEPT ![x] = reply'] /\ UNCHANGED outcome
  BY <1>2 DEF Serve, clientVars
<1>6. reply' \in RpcReply
  BY ServeEffect
<1>7. carried'[x] = reply'
  BY <1>3, <1>4, <1>5
<1>8. Once!CarryOut(x)
  BY <1>3, <1>4, <1>5, <1>6, <1>7 DEF Once!CarryOut, Once!issued
<1>9. QED
  BY <1>3, <1>4, <1>8

\* A call that returns, by a failure or by an answer, is finished.
LEMMA LeaveFinishes ==
    ASSUME RpcInv, NEW t \in Thread, pc[t] # "idle",
           NEW r \in {Null, carried[Last]}, r # None, Leave(t, r)
    PROVE  \E x \in 1 .. Len(outcome) : Once!Finish(x)
<1>1. /\ Last \in Nat /\ Last > 0 /\ mine[t] = Last /\ outcome[Last] = None
      /\ Len(outcome) = Last /\ Last \in 1 .. Last
  BY DEF RpcInv, ThreadInv, RpcTypeOK, Last
<1>2. outcome' = [outcome EXCEPT ![Last] = r] /\ UNCHANGED carried
  BY <1>1 DEF Leave
<1>3. Once!Finish(Last)
  BY <1>1, <1>2 DEF Once!Finish
<1>4. QED
  BY <1>1, <1>3

LEMMA RefinesStep == RpcInv /\ [RpcNext]_rpcVars => [Once!Next]_(Once!vars)
<1> SUFFICES ASSUME RpcInv, [RpcNext]_rpcVars
             PROVE  Once!Next \/ UNCHANGED <<carried, outcome>>
  BY DEF Once!vars
<1>1. CASE UNCHANGED rpcVars
  BY <1>1 DEF rpcVars, clientVars
<1>2. CASE Create \/ Destroy \/ ServeEof \/ Break
  BY <1>2 DEF Create, Destroy, ServeEof, Break, Gone, clientVars
<1>3. ASSUME NEW t \in Thread, CallOpen(t) \/ CallPread(t) \/ CallClose(t)
      PROVE  Once!Next
  <2>1. \E k : Begin(t, k)
    BY <1>3 DEF CallOpen, CallPread, CallClose
  <2>2. QED
    BY <2>1, BeginIssues DEF Once!Next
<1>4. ASSUME NEW t \in Thread, Receive(t)
      PROVE  UNCHANGED <<carried, outcome>>
  BY <1>4 DEF Receive
<1>5. ASSUME NEW t \in Thread, GiveUp(t)
      PROVE  Once!Next
  <2>1. pc[t] # "idle" /\ Leave(t, Null) /\ Null # None
    BY <1>5, ReplyTypes DEF GiveUp
  <2>2. QED
    BY <2>1, LeaveFinishes DEF Once!Next, Once!issued
<1>6. ASSUME NEW t \in Thread, Return(t)
      PROVE  Once!Next
  <2>1. /\ pc[t] = "returned" /\ mine[t] = Last
        /\ carried[Last] # None /\ result[call[Last].proc] = carried[Last]
    BY <1>6 DEF Return, RpcInv, ThreadInv, AnswerInv
  <2>2. Leave(t, carried[Last])
    BY <1>6, <2>1 DEF Return
  <2>3. QED
    BY <2>1, <2>2, LeaveFinishes DEF Once!Next, Once!issued
<1>7. CASE Serve
  BY <1>7, ServeCarriesOut DEF Once!Next, Once!issued
<1>8. QED
  BY <1>1, <1>2, <1>3, <1>4, <1>5, <1>6, <1>7 DEF RpcNext

\* The library's calls, with their time-outs, late replies and lost
\* connections, are calls carried out at most once and in order, and each
\* returns what it was answered or a failure (the safety part of CallOnce).
THEOREM RefinesCallOnceSafety == RpcSpec => Once!Safety
<1>1. RpcInit => Once!Init
  BY DEF RpcInit, Once!Init
<1>2. QED
  BY <1>1, RefinesStep, RpcInvAlways, PTL DEF RpcSpec, Once!Safety
=============================================================================
