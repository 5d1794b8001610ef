------------------------------ MODULE SvcMain ------------------------------
(***************************************************************************)
(* The icbinn daemon's process structure, libicbinn/server/svc_main.c: a   *)
(* parent that accepts connections on several listening sockets and forks, *)
(* and one child per connection that finds out which directory its client  *)
(* is given (dbusrpc.c), confines itself to it and then answers requests   *)
(* until the connection is gone.                                           *)
(*                                                                         *)
(* A member of Client is one connection attempt; several may come from the *)
(* same address.  The child that serves c is named c as well, so Proc is   *)
(* Client plus Main.  The kernel (sockets, descriptors, directories) and   *)
(* libtirpc are modelled from how the code uses them.                      *)
(***************************************************************************)
EXTENDS Integers, FiniteSets, Sequences

CONSTANTS
    Client,      \* connection attempts, and the children that serve them
    Main,        \* the listening parent process
    NPort,       \* num_icbinn_sockets
    Backlog,     \* the second argument of listen (5 in the code)
    Addr,        \* Addr[c]: the IPv4 address c connects from, host order
    IcbinnPath,  \* domid -> the comma separated fields of its icbinn-path
    Dir,         \* the paths that are usable fields
    Empty,       \* a field with no characters
    TooLong,     \* a field of ICBINN_PROT_MAXPATHLEN characters or more
    InitDirs,    \* directories that exist when the daemon starts
    Creatable,   \* paths that mkdir can create (their parent exists)
    None

Port == 0 .. NPort - 1
Proc == Client \cup {Main}

ASSUME NPortAssumption == NPort \in 1 .. 16      \* MAX_ICBINN_SOCKETS
ASSUME BacklogAssumption == Backlog \in Nat
ASSUME ProcAssumption == Main \notin Client /\ Client \cap Port = {}
ASSUME AddrAssumption == Addr \in [Client -> Nat]
ASSUME DirAssumption ==
    /\ None \notin Client \cup Dir
    /\ Empty \notin Dir /\ TooLong \notin Dir
    /\ InitDirs \subseteq Dir /\ Creatable \subseteq Dir
ASSUME PathAssumption ==
    \A d \in DOMAIN IcbinnPath :
        IcbinnPath[d] \in Seq(Dir \cup {Empty, TooLong})

VARIABLES
    peer,          \* the client's end of the connection
    port,          \* the index of the listening socket c connected to
    request,       \* "sent": unread request; "unacked": reply nobody acks
    queue,         \* accept queue of each listening socket
    held,          \* descriptors each process has open
    dirs,          \* directories that exist on the host
    mainpc,        \* where the parent is
    ready,         \* read_set of svc_accept_one_connexion
    svfd,          \* the parent's svfd
    socket_index,  \* the parent's socket_index
    pc,            \* where the child of c is
    index,         \* the child's copy of socket_index
    path,          \* the child's icbinn_path
    root,          \* the child's root directory once chroot succeeded
    fdset          \* whether svfd is a member of libtirpc's svc_fdset

peerVars  == <<peer, port, request>>
mainVars  == <<mainpc, ready, svfd, socket_index>>
childVars == <<pc, index, path, root, fdset>>
vars == <<peerVars, queue, held, dirs, mainVars, childVars>>

Init ==
    /\ peer = [c \in Client |-> "idle"]
    /\ port = [c \in Client |-> 0]
    /\ request = [c \in Client |-> "none"]
    /\ queue = [q \in Port |-> {}]
    /\ held = [p \in Proc |-> IF p = Main THEN Port ELSE {}]
    /\ dirs = InitDirs
    /\ mainpc = "select" /\ ready = {} /\ svfd = None /\ socket_index = 0
    /\ pc = [c \in Client |-> "none"]
    /\ index = [c \in Client |-> 0]
    /\ path = [c \in Client |-> None]
    /\ root = [c \in Client |-> None]
    /\ fdset = [c \in Client |-> FALSE]

-----------------------------------------------------------------------------
(* The network and the clients' end of it.                                 *)

\* A listening socket lives as long as any process has it open.
Listening(q) == \E p \in Proc : q \in held[p]

\* The server's end of c's connection exists: queued on a live listening
\* socket, or open in some process.  When it ends the client sees EOF.
Connected(c) ==
    \/ c \in queue[port[c]] /\ Listening(port[c])
    \/ \E p \in Proc : c \in held[p]

Connect(c, q) ==
    /\ peer[c] = "idle"
    /\ Listening(q)
    /\ Cardinality(queue[q]) <= Backlog
    /\ peer' = [peer EXCEPT ![c] = "open"]
    /\ port' = [port EXCEPT ![c] = q]
    /\ queue' = [queue EXCEPT ![q] = @ \cup {c}]
    /\ UNCHANGED <<request, held, dirs, mainVars, childVars>>

\* The next call of the client library; it waits for the reply.
Send(c) ==
    /\ peer[c] = "open" /\ request[c] = "none" /\ Connected(c)
    /\ request' = [request EXCEPT ![c] = "sent"]
    /\ UNCHANGED <<peer, port, queue, held, dirs, mainVars, childVars>>

\* The client closes, or its process ends: its kernel says so to ours.
Close(c) ==
    /\ peer[c] = "open"
    /\ peer' = [peer EXCEPT ![c] = "closed"]
    /\ UNCHANGED <<port, request, queue, held, dirs, mainVars, childVars>>

\* The same before the connection was accepted, and the kernel forgets it:
\* a socket that select reported need not be there for accept.
Abort(c) ==
    /\ peer[c] = "open" /\ c \in queue[port[c]]
    /\ peer' = [peer EXCEPT ![c] = "closed"]
    /\ queue' = [queue EXCEPT ![port[c]] = @ \ {c}]
    /\ UNCHANGED <<port, request, held, dirs, mainVars, childVars>>

\* The client's machine or the link to it is lost: no packet comes again.
Vanish(c) ==
    /\ peer[c] = "open"
    /\ peer' = [peer EXCEPT ![c] = "vanished"]
    /\ UNCHANGED <<port, request, queue, held, dirs, mainVars, childVars>>

\* Our kernel gives up retransmitting a reply and fails the connection.
ConnError(c) ==
    /\ peer[c] = "vanished" /\ request[c] = "unacked"
    /\ peer' = [peer EXCEPT ![c] = "reset"]
    /\ UNCHANGED <<port, request, queue, held, dirs, mainVars, childVars>>

-----------------------------------------------------------------------------
(* The parent.                                                             *)

\* select blocks until some listening socket has a connection to accept; one
\* that fails is only called again, which is no step.
MainSelect ==
    /\ mainpc = "select"
    /\ ready' = {q \in Port : queue[q] # {}}
    /\ ready' # {}
    /\ mainpc' = "accept"
    /\ UNCHANGED <<svfd, socket_index, peerVars, queue, held, dirs, childVars>>

\* Mutant: *socket_index is not assigned.
MainAcceptForgetsIndex ==
    /\ mainpc = "accept"
    /\ \E q \in ready :
        /\ \A r \in ready : q <= r
        /\ \/ \E c \in queue[q] :
                /\ queue' = [queue EXCEPT ![q] = @ \ {c}]
                /\ held' = [held EXCEPT ![Main] = @ \cup {c}]
                /\ svfd' = c
                /\ mainpc' = "fork"
                /\ ready' = {}
           \/ /\ ready' = ready \ {q}
              /\ mainpc' = IF ready' = {} THEN "select" ELSE "accept"
              /\ UNCHANGED <<queue, held, svfd>>
    /\ UNCHANGED <<socket_index, peerVars, dirs, childVars>>

\* One round of the loop over the ready sockets, lowest index first: the
\* first accept that succeeds ends it; one that fails (the connection is gone,
\* or the kernel is out of something) moves on, and when no ready socket is
\* left the parent selects again.
MainAccept ==
    /\ mainpc = "accept"
    /\ \E q \in ready :
        /\ \A r \in ready : q <= r
        /\ \/ \E c \in queue[q] :
                /\ queue' = [queue EXCEPT ![q] = @ \ {c}]
                /\ held' = [held EXCEPT ![Main] = @ \cup {c}]
                /\ svfd' = c
                /\ socket_index' = q
                /\ mainpc' = "fork"
                /\ ready' = {}
           \/ /\ ready' = ready \ {q}
              /\ mainpc' = IF ready' = {} THEN "select" ELSE "accept"
              /\ UNCHANGED <<queue, held, svfd, socket_index>>
    /\ UNCHANGED <<peerVars, dirs, childVars>>

\* The child starts with a copy of every descriptor of the parent.
MainFork ==
    /\ mainpc = "fork"
    /\ held' = [held EXCEPT ![svfd] = held[Main]]
    /\ pc' = [pc EXCEPT ![svfd] = "forked"]
    /\ index' = [index EXCEPT ![svfd] = socket_index]
    /\ mainpc' = "close"
    /\ UNCHANGED <<ready, svfd, socket_index, peerVars, queue, dirs,
                   path, root, fdset>>

\* A fork that fails is fatal to the parent.
MainForkFails ==
    /\ mainpc = "fork"
    /\ held' = [held EXCEPT ![Main] = {}]
    /\ mainpc' = "exited" /\ svfd' = None
    /\ UNCHANGED <<ready, socket_index, peerVars, queue, dirs, childVars>>

\* Mutant: the parent keeps the connection open.
MainCloseLeaks ==
    /\ mainpc = "close"
    /\ svfd' = None
    /\ socket_index' = 0
    /\ mainpc' = "select"
    /\ UNCHANGED <<held, ready, peerVars, queue, dirs, childVars>>

MainClose ==
    /\ mainpc = "close"
    /\ held' = [held EXCEPT ![Main] = @ \ {svfd}]
    /\ svfd' = None
    /\ socket_index' = 0
    /\ mainpc' = "select"
    /\ UNCHANGED <<ready, peerVars, queue, dirs, childVars>>

-----------------------------------------------------------------------------
(* A child.                                                                *)

\* Move child c from one place to the next.
Goto(c, from, to) == pc[c] = from /\ pc' = [pc EXCEPT ![c] = to]

\* fatal: the process ends and the kernel closes what it had open.
Exit(c) ==
    /\ pc' = [pc EXCEPT ![c] = "exited"]
    /\ held' = [held EXCEPT ![c] = {}]

\* Mutant: the child keeps the listening sockets.
ChildStartKeepsListeners(c) ==
    /\ Goto(c, "forked", "rand")
    /\ UNCHANGED <<held, peerVars, queue, dirs, mainVars,
                   index, path, root, fdset>>

\* The child gives up the listening sockets it inherited.
ChildStart(c) ==
    /\ Goto(c, "forked", "rand")
    /\ held' = [held EXCEPT ![c] = @ \ Port]
    /\ UNCHANGED <<peerVars, queue, dirs, mainVars, index, path, root, fdset>>

\* /dev/urandom is opened before the child is confined.
InitRand(c) ==
    /\ pc[c] = "rand"
    /\ \/ Goto(c, "rand", "lookup") /\ UNCHANGED held
       \/ Exit(c)
    /\ UNCHANGED <<peerVars, queue, dirs, mainVars, index, path, root, fdset>>

cl_domid(c) == Addr[c] % 65536

\* Mutant: an empty field is not refused.
GetIcbinnPathTakesEmpty(domid, path_index) ==
    IF /\ domid \in DOMAIN IcbinnPath
       /\ path_index < Len(IcbinnPath[domid])
       /\ IcbinnPath[domid][path_index + 1] # TooLong
    THEN IcbinnPath[domid][path_index + 1]
    ELSE None

\* The path_index-th field of the domain's icbinn-path, None when xenmgr
\* does not know the domain or the field is missing, empty or too long.
GetIcbinnPath(domid, path_index) ==
    IF /\ domid \in DOMAIN IcbinnPath
       /\ path_index < Len(IcbinnPath[domid])
       /\ IcbinnPath[domid][path_index + 1] \in Dir
    THEN IcbinnPath[domid][path_index + 1]
    ELSE None

\* xenmgr, or the bus on the way to it, may also fail to answer.
Lookup(c) ==
    /\ pc[c] = "lookup"
    /\ \/ /\ path' = [path EXCEPT ![c] = GetIcbinnPath(cl_domid(c), index[c])]
          /\ path'[c] # None
          /\ Goto(c, "lookup", "stat")
          /\ UNCHANGED held
       \/ Exit(c) /\ UNCHANGED path
    /\ UNCHANGED <<peerVars, queue, dirs, mainVars, index, root, fdset>>

Stat(c) ==
    /\ Goto(c, "stat", IF path[c] \in dirs THEN "chdir" ELSE "mkdir")
    /\ UNCHANGED <<peerVars, queue, held, dirs, mainVars,
                   index, path, root, fdset>>

\* Mutant: a mkdir that fails, because another child was faster, is fatal.
MkdirFatal(c) ==
    /\ pc[c] = "mkdir"
    /\ IF path[c] \in Creatable \ dirs
       THEN /\ Goto(c, "mkdir", "chdir") /\ UNCHANGED held
            /\ dirs' = dirs \cup {path[c]}
       ELSE Exit(c) /\ UNCHANGED dirs
    /\ UNCHANGED <<peerVars, queue, mainVars, index, path, root, fdset>>

\* mkdir's result is not looked at: another child may have been faster.
Mkdir(c) ==
    /\ Goto(c, "mkdir", "chdir")
    /\ dirs' = dirs \cup ({path[c]} \cap Creatable)
    /\ UNCHANGED <<peerVars, queue, held, mainVars, index, path, root, fdset>>

Chdir(c) ==
    /\ pc[c] = "chdir"
    /\ IF path[c] \in dirs
       THEN Goto(c, "chdir", "chroot") /\ UNCHANGED held
       ELSE Exit(c)
    /\ UNCHANGED <<peerVars, queue, dirs, mainVars, index, path, root, fdset>>

Chroot(c) ==
    /\ pc[c] = "chroot"
    /\ \/ /\ Goto(c, "chroot", "register")
          /\ root' = [root EXCEPT ![c] = path[c]]
          /\ UNCHANGED held
       \/ Exit(c) /\ UNCHANGED root
    /\ UNCHANGED <<peerVars, queue, dirs, mainVars, index, path, fdset>>

\* svc_fd_create and svc_register.
Register(c) ==
    /\ pc[c] = "register"
    /\ \/ /\ Goto(c, "register", "top")
          /\ fdset' = [fdset EXCEPT ![c] = TRUE]
          /\ UNCHANGED held
       \/ Exit(c) /\ UNCHANGED fdset
    /\ UNCHANGED <<peerVars, queue, dirs, mainVars, index, path, root>>

\* check_client_alive returns: svfd is open, and a write of no bytes does
\* not fail, which it does only once the kernel has failed the connection.
ClientAlive(c) == c \in held[c] /\ peer[c] # "reset"

\* The top of svc_input_loop: what libtirpc has closed is noticed here.
LoopTop(c) ==
    /\ pc[c] = "top"
    /\ IF fdset[c] \/ ClientAlive(c)
       THEN Goto(c, "top", "select") /\ UNCHANGED held
       ELSE Exit(c)
    /\ UNCHANGED <<peerVars, queue, dirs, mainVars, index, path, root, fdset>>

\* There is end of file or an error to read, and nothing before it.
AtEof(c) ==
    \/ peer[c] = "reset"
    \/ peer[c] = "closed" /\ request[c] # "sent"

\* svc_getreqset reads a request and sends the reply.
GetReq(c) ==
    /\ Goto(c, "select", "top")
    /\ fdset[c] /\ request[c] = "sent" /\ peer[c] # "reset"
    /\ request' = [request EXCEPT ![c] =
                     IF peer[c] = "vanished" THEN "unacked" ELSE "none"]
    /\ UNCHANGED <<peer, port, queue, held, dirs, mainVars,
                   index, path, root, fdset>>

\* svc_getreqset cannot read: libtirpc closes svfd and forgets it.
GetEof(c) ==
    /\ Goto(c, "select", "top")
    /\ fdset[c] /\ AtEof(c)
    /\ held' = [held EXCEPT ![c] = @ \ {c}]
    /\ fdset' = [fdset EXCEPT ![c] = FALSE]
    /\ UNCHANGED <<peerVars, queue, dirs, mainVars, index, path, root>>

\* ICBINN_TIMEOUT_SECS pass with nothing to read.  A select that fails is no
\* step here either.
SelectTimeout(c) ==
    /\ Goto(c, "select", "timeout")
    /\ ~(fdset[c] /\ (AtEof(c) \/ request[c] = "sent"))
    /\ UNCHANGED <<peerVars, queue, held, dirs, mainVars,
                   index, path, root, fdset>>

CheckClientAlive(c) ==
    /\ pc[c] = "timeout"
    /\ IF ClientAlive(c)
       THEN Goto(c, "timeout", "top") /\ UNCHANGED held
       ELSE Exit(c)
    /\ UNCHANGED <<peerVars, queue, dirs, mainVars, index, path, root, fdset>>

-----------------------------------------------------------------------------
Environment(c) ==
    \/ \E q \in Port : Connect(c, q)
    \/ Send(c) \/ Close(c) \/ Abort(c) \/ Vanish(c)

Parent ==
    MainSelect \/ MainAccept \/ MainFork \/ MainForkFails \/ MainClose

Child(c) ==
    \/ ChildStart(c) \/ InitRand(c) \/ Lookup(c) \/ Stat(c) \/ Mkdir(c)
    \/ Chdir(c) \/ Chroot(c) \/ Register(c)
    \/ LoopTop(c) \/ GetReq(c) \/ GetEof(c)
    \/ SelectTimeout(c) \/ CheckClientAlive(c)

Next ==
    \/ Parent
    \/ \E c \in Client : Environment(c) \/ ConnError(c) \/ Child(c)

Spec == Init /\ [][Next]_vars

\* Every process that can run is scheduled, select's timeout expires, accept
\* does not fail for ever with connections there to accept, and the kernel
\* does give up on a reply.  Clients promise nothing.
Fairness ==
    /\ WF_vars(Parent)
    /\ SF_vars(MainAccept /\ mainpc' = "fork")
    /\ \A c \in Client : WF_vars(Child(c)) /\ WF_vars(ConnError(c))

FairSpec == Spec /\ Fairness

-----------------------------------------------------------------------------
(* Properties.                                                             *)

Settling == {"forked", "rand", "lookup", "stat", "mkdir", "chdir", "chroot",
             "register"}
Serving == {"top", "select", "timeout"}

\* Every variable stays within the values the code can give it.
TypeOK ==
    /\ peer \in [Client -> {"idle", "open", "closed", "vanished", "reset"}]
    /\ port \in [Client -> Port]
    /\ request \in [Client -> {"none", "sent", "unacked"}]
    /\ queue \in [Port -> SUBSET Client]
    /\ held \in [Proc -> SUBSET (Port \cup Client)]
    /\ dirs \in SUBSET Dir
    /\ mainpc \in {"select", "accept", "fork", "close", "exited"}
    /\ ready \in SUBSET Port
    /\ svfd \in Client \cup {None}
    /\ socket_index \in Port
    /\ pc \in [Client -> {"none", "exited"} \cup Settling \cup Serving]
    /\ index \in [Client -> Port]
    /\ path \in [Client -> Dir \cup {None}]
    /\ root \in [Client -> Dir \cup {None}]
    /\ fdset \in [Client -> BOOLEAN]

\* A child that answers requests is confined to the directory that its
\* client's own domain configures for the listening socket the client itself
\* connected to, whatever other connections were accepted around it: the
\* accepted index travels from svc_accept_one_connexion through fork to
\* get_icbinn_path without being mixed up with another socket's.
RightRoot ==
    \A c \in Client :
        pc[c] \in Serving =>
            /\ root[c] \in dirs
            /\ root[c] = GetIcbinnPath(cl_domid(c), port[c])

\* A connection is open only in its own child and, between accept and close,
\* in the parent: no child inherits the connection of an earlier client, so
\* the exit of one child is enough to end its client's connection.
NoForeignConnection ==
    \A p \in Proc, c \in Client :
        c \in held[p] => p = c \/ (p = Main /\ svfd = c)

\* A child that got past its start has no listening socket open, so the
\* sockets go away with the parent and nobody queues on them in vain.
ListenersReleased ==
    \A c \in Client : held[c] \cap Port # {} => pc[c] = "forked"

\* Two children of one domain that find the directory missing at the same
\* time both get in: a child that found its path gives up before chroot only
\* if that path could not be created.
MkdirRaceHarmless ==
    [][\A c \in Client :
          pc[c] \in {"stat", "mkdir", "chdir"} /\ pc'[c] = "exited"
              => path[c] \notin Creatable \cup InitDirs]_vars

\* No client that stays waits for ever for an answer: its request is
\* answered or its connection ends, whichever process fails and whatever it
\* still had open.
EveryRequestResolved ==
    \A c \in Client :
        request[c] = "sent" ~>
            (request[c] # "sent" \/ ~Connected(c) \/ peer[c] # "open")

\* A connection whose client went away in a way the kernel notices (a close
\* or a failed reply) is given up by the server, and its child ends.
GoneClientReaped ==
    \A c \in Client :
        peer[c] \in {"closed", "reset"} ~>
            (~Connected(c) /\ pc[c] \in {"none", "exited"})

\* A connection whose client vanished is given up too: check_client_alive
\* says "client does not seem alive, exiting".
VanishedClientReaped ==
    \A c \in Client : peer[c] = "vanished" ~> ~Connected(c)
=============================================================================
