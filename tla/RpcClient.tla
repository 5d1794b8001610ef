------------------------------ MODULE RpcClient ------------------------------
(***************************************************************************)
(* Calls of the client library as messages: icbinn_clnt_create_tcp, _v4v   *)
(* and icbinn_clnt_destroy (src/client.c), the stubs rpcgen makes of       *)
(* rpc/icbinn_prot.x, with their static results and their time-out, and    *)
(* the wrappers open.c, close.c and pread.c, used by the threads of one    *)
(* program on one connection to a server process of ServerFiles.           *)
(*                                                                         *)
(* A call that times out returns, and its request and its reply stay where *)
(* they are: the server may carry it out later and answer a call that is   *)
(* over.  The connection keeps the order of requests and of replies; it    *)
(* may be lost at any moment, and nothing opens it again.                  *)
(***************************************************************************)
EXTENDS ServerFiles

CONSTANTS
    C,          \* the connection
    Thread,     \* the threads of the program
    MaxCalls    \* bound: the calls the program makes

\* The ways to give the members of S different members of T.
Injections(S, T) ==
    {g \in [S -> T] : \A m, n \in S : m # n => g[m] # g[n]}

ASSUME RpcAssumption ==
    /\ Conn = {C} /\ MaxCalls \in Nat /\ NFd > 0 /\ MaxData > 0
    /\ Injections(Name, Inode) # {}
    /\ Injections(Inode, {<<d>> : d \in Data}) # {}

VARIABLES
    icb,        \* the program's ICBINN
    sockfd,     \* whether the program has a socket open for it
    pc,         \* where each thread is in its call
    mine,       \* the xid of each thread's call, or 0
    toServer,   \* requests on their way, in order
    toClient,   \* replies on their way, in order
    result,     \* the static result of each procedure's stub
    held,       \* the descriptors the program was given and has not closed
    call,       \* history: the calls made, by xid
    carried,    \* history: what the server answered to each, or None
    outcome     \* history: what each returned, or None

clientVars == <<pc, mine, result, held, call, outcome>>
rpcVars == <<vars, icb, sockfd, toServer, toClient, carried, clientVars>>

Proc == {"open", "pread", "close"}
CallRecord ==
    {k \in [proc : Proc, name : Name, fd : Fd] : k.proc # "open" => k.fd \in FileFd}

\* memset (&clnt_res, 0, sizeof (clnt_res)): status 0 is ICBINN_PROT_OK.
Cleared == Answer(C, "OK", "NONE", 0, <<>>)

\* A stub that returns NULL.
Null == Answer(C, "NULL", "NONE", 0, <<>>)

Distinct(S, T) == CHOOSE g \in Injections(S, T) : TRUE

\* Files that differ, so that it shows which one was read.
RpcInit ==
    /\ up = [c \in Conn |-> FALSE]
    /\ inode = Distinct(Name, Inode)
    /\ content = Distinct(Inode, {<<d>> : d \in Data})
    /\ fdtable = [c \in Conn |-> [f \in Fd |-> Closed]]
    /\ locked = [c \in Conn |-> [i \in Inode |-> "UNLCK"]]
    /\ told = [c \in Conn |-> [f \in Fd |-> "UNLCK"]]
    /\ reply = NoReply
    /\ icb = "none" /\ sockfd = FALSE
    /\ pc = [t \in Thread |-> "idle"] /\ mine = [t \in Thread |-> 0]
    /\ toServer = <<>> /\ toClient = <<>>
    /\ result = [p \in Proc |-> Cleared]
    /\ held = {}
    /\ call = <<>> /\ carried = <<>> /\ outcome = <<>>

-----------------------------------------------------------------------------
(* The connection.                                                         *)

\* Over TCP or V4V, by the same steps.  Every way to fail returns NULL, and
\* the programs then give up; a socket whose connect failed is not closed.
Create ==
    /\ icb = "none"
    /\ \/ icb' = "connected" /\ sockfd' = TRUE /\ Connect(C)
       \/ icb' = "failed" /\ sockfd' \in BOOLEAN /\ UNCHANGED vars
    /\ UNCHANGED <<toServer, toClient, carried, clientVars>>

\* Mutant: clnt_control (CLSET_FD_CLOSE) is forgotten, and clnt_destroy does
\* not close a socket it was given.
DestroyKeepsFd ==
    /\ icb = "connected"
    /\ \A t \in Thread : pc[t] = "idle"
    /\ icb' = "destroyed"
    /\ UNCHANGED <<vars, sockfd, toServer, toClient, carried, clientVars>>

\* Replies that nobody read turn the close into a reset, and then requests
\* that the server has not read yet may be lost.
Destroy ==
    /\ icb = "connected"
    /\ \A t \in Thread : pc[t] = "idle"
    /\ icb' = "destroyed" /\ sockfd' = FALSE
    /\ \E k \in 0 .. Len(toServer) : toServer' = SubSeq(toServer, 1, k)
    /\ UNCHANGED <<vars, toClient, carried, clientVars>>

-----------------------------------------------------------------------------
(* A call: the stub clears its static result, sends the request and waits; *)
(* libtirpc has one call at a time on a connection.                        *)

\* Mutant: the mount runs without -s.
MultiThreaded == \A u \in Thread : pc[u] # "waiting"

\* The programs have one thread, and icbinn-fs tells FUSE so with -s.
SingleThreaded == \A u \in Thread : pc[u] = "idle"

Begin(t, k) ==
    LET x == Len(call) + 1
    IN  /\ icb = "connected" /\ pc[t] = "idle" /\ SingleThreaded
        /\ x <= MaxCalls
        /\ pc' = [pc EXCEPT ![t] = "waiting"]
        /\ mine' = [mine EXCEPT ![t] = x]
        /\ result' = [result EXCEPT ![k.proc] = Cleared]
        /\ toServer' = IF up[C] THEN Append(toServer, [xid |-> x, call |-> k])
                       ELSE toServer
        /\ call' = Append(call, k)
        /\ carried' = Append(carried, None)
        /\ outcome' = Append(outcome, None)
        /\ UNCHANGED <<vars, icb, sockfd, toClient>>

CallOpen(t) ==
    /\ \E n \in Name : Begin(t, [proc |-> "open", name |-> n, fd |-> 0])
    /\ UNCHANGED held

CallPread(t) ==
    /\ \E h \in held : Begin(t, [proc |-> "pread", name |-> h.name, fd |-> h.fd])
    /\ UNCHANGED held

\* Whatever it returns, the descriptor is not used again.
CallClose(t) ==
    \E h \in held :
        /\ Begin(t, [proc |-> "close", name |-> h.name, fd |-> h.fd])
        /\ held' = held \ {h}

Matches(t, x) == x = mine[t]

\* A reply to another call, one that has been given up, is thrown away.
Receive(t) ==
    /\ pc[t] = "waiting" /\ toClient # <<>>
    /\ toClient' = Tail(toClient)
    /\ LET r == Head(toClient)
       IN  IF Matches(t, r.xid)
           THEN /\ pc' = [pc EXCEPT ![t] = "returned"]
                /\ result' = [result EXCEPT ![call[mine[t]].proc] = r.res]
           ELSE UNCHANGED <<pc, result>>
    /\ UNCHANGED <<vars, icb, sockfd, toServer, carried, mine, held, call, outcome>>

Leave(t, r) ==
    /\ pc' = [pc EXCEPT ![t] = "idle"]
    /\ outcome' = [outcome EXCEPT ![mine[t]] = r]
    /\ mine' = [mine EXCEPT ![t] = 0]
    /\ UNCHANGED <<vars, icb, sockfd, toServer, toClient, carried, result, call>>

\* The time-out, or the connection is lost: the stub returns NULL and the
\* wrapper -1.
GiveUp(t) ==
    /\ pc[t] = "waiting"
    /\ Leave(t, Null)
    /\ UNCHANGED held

\* Mutant: the lowest descriptor is taken for a failure.
GivesFdAboveLowest(r) == r.status = "OK" /\ \E f \in FileFd : f < r.val

GivesFd(r) == r.status = "OK"

\* The wrapper looks into the static result the stub returned a pointer to.
Return(t) ==
    LET k == call[mine[t]]
        r == result[k.proc]
    IN  /\ pc[t] = "returned"
        /\ Leave(t, r)
        /\ held' = IF k.proc = "open" /\ GivesFd(r)
                   THEN held \cup {[fd |-> r.val, name |-> k.name]} ELSE held

-----------------------------------------------------------------------------
(* The server's process, one request at a time.                            *)

Serve ==
    /\ up[C] /\ toServer # <<>>
    /\ LET q == Head(toServer).call
       IN  \/ q.proc = "open" /\ Open(C, q.name, {"RDWR"})
           \/ q.proc = "pread" /\ Pread(C, q.fd, 0, 1)
           \/ q.proc = "close" /\ Close(C, q.fd)
    /\ toServer' = Tail(toServer)
    /\ toClient' = Append(toClient, [xid |-> Head(toServer).xid, res |-> reply'])
    /\ carried' = [carried EXCEPT ![Head(toServer).xid] = reply']
    /\ UNCHANGED <<icb, sockfd, clientVars>>

Gone ==
    /\ Exit(C)
    /\ toServer' = <<>>
    /\ UNCHANGED <<icb, sockfd, toClient, carried, clientVars>>

\* The client closed the connection and all it sent before has been read.
ServeEof == ~sockfd /\ toServer = <<>> /\ Gone

\* The process is killed or the connection breaks.
Break == Gone

-----------------------------------------------------------------------------
RpcNext ==
    \/ Create \/ Destroy
    \/ \E t \in Thread :
          \/ CallOpen(t) \/ CallPread(t) \/ CallClose(t)
          \/ Receive(t) \/ GiveUp(t) \/ Return(t)
    \/ Serve \/ ServeEof \/ Break

\* The stub's time-out and the wrapper always come to their end, and a
\* running server process reads what it is sent; the program need not call.
RpcSpec ==
    /\ RpcInit /\ [][RpcNext]_rpcVars
    /\ \A t \in Thread :
          WF_rpcVars(Receive(t) \/ GiveUp(t)) /\ WF_rpcVars(Return(t))
    /\ WF_rpcVars(Serve) /\ WF_rpcVars(ServeEof)

-----------------------------------------------------------------------------
(* Properties.                                                             *)

RpcReply == [conn : {C}, status : {"OK", "ERROR"}, errno : Errno,
             val : Nat, data : Seq(Unit)]

ASSUME RpcNoneAssumption == None \notin RpcReply \cup {Null}

\* Every variable stays within the values the library and the server can
\* give it; in particular a program never holds a descriptor number that is
\* one of the server's own.
RpcTypeOK ==
    /\ icb \in {"none", "connected", "failed", "destroyed"}
    /\ sockfd \in BOOLEAN
    /\ pc \in [Thread -> {"idle", "waiting", "returned"}]
    /\ mine \in [Thread -> 0 .. MaxCalls]
    /\ toServer \in Seq([xid : 1 .. MaxCalls, call : CallRecord])
    /\ toClient \in Seq([xid : 1 .. MaxCalls, res : RpcReply])
    /\ result \in [Proc -> RpcReply]
    /\ held \subseteq [fd : FileFd, name : Name]
    /\ call \in Seq(CallRecord)
    /\ carried \in Seq(RpcReply \cup {None})
    /\ outcome \in Seq(RpcReply \cup {Null, None})
    /\ Len(carried) = Len(call) /\ Len(outcome) = Len(call)

\* The calls of the library, with time-outs, late replies, requests carried
\* out after their call returned, lost connections and static results, are
\* calls carried out at most once and in order (CallOnce).
Once == INSTANCE CallOnce WITH
    Calls <- MaxCalls, Replies <- RpcReply, Failure <- Null

RefinesCallOnce == Once!Spec

\* What a read of the file i can be answered.
FileRead(r, i) ==
    r.errno = "EIO" \/ (r.status = "OK" /\ r.data = content[i])

\* As long as the connection lasts, every descriptor a program holds is open
\* in the server's process on the file it asked for, and no two are the
\* same: a close that was given up and is carried out late never hits a
\* descriptor handed out since.  A read that is answered returns the data of
\* the file the program opened, whatever was given up and answered late; only
\* the host's own I/O error stops it, never a descriptor that is not open.
HeldIsOpen ==
    /\ up[C] => \A g, h \in held :
        /\ fdtable[C][h.fd].ino = inode[h.name]
        /\ g # h => g.fd # h.fd
    /\ \A x \in DOMAIN call :
        call[x].proc = "pread" /\ outcome[x] \notin {None, Null} =>
            FileRead(outcome[x], inode[call[x].name])

\* A descriptor that is open in the server's process and that the program
\* does not hold comes from an open that was given up or is not over, or is
\* about to be closed: nothing else leaks.
LeakExplained ==
    \A f \in FileFd : IsOpen(C, f) =>
        \/ \E h \in held : h.fd = f
        \/ \E x \in DOMAIN call :
              /\ call[x].proc = "open" /\ outcome[x] \in {None, Null}
              /\ carried[x] # None
              /\ carried[x].status = "OK" /\ carried[x].val = f
        \/ \E x \in DOMAIN call :
              call[x].proc = "close" /\ call[x].fd = f /\ carried[x] = None

\* Once the program has destroyed its ICBINN the server gives back what was
\* open for it, the descriptors leaked by lost replies included.
Released == icb = "destroyed" ~> \A f \in Fd : ~IsOpen(C, f)
=============================================================================
