--------------------------- MODULE SvcMainProofs ---------------------------
(***************************************************************************)
(* What the runs of SvcMain show for two connections, proved for any       *)
(* number of connections, listening sockets, domains and directories.      *)
(***************************************************************************)
EXTENDS SvcMain, TLAPS

-----------------------------------------------------------------------------
(* The inductive invariant.                                                *)

Located == {"stat", "mkdir", "chdir", "chroot", "register"} \cup Serving
Entered == {"chroot", "register"} \cup Serving
Confined == {"register"} \cup Serving

\* A connection in a queue, in the parent's hands or served by a child has
\* been made, so its port does not change any more, and it is queued on it.
MadeInv ==
    /\ \A q \in Port : \A c \in queue[q] : peer[c] # "idle" /\ port[c] = q
    /\ svfd # None => peer[svfd] # "idle"
    /\ \A c \in Client : pc[c] # "none" => peer[c] # "idle"

\* svfd and socket_index belong together between accept and close.
ParentInv ==
    /\ (svfd # None) <=> (mainpc \in {"fork", "close"})
    /\ mainpc \in {"fork", "close"} => socket_index = port[svfd]

\* What a child knows at each place.
ChildInv ==
    \A c \in Client :
        /\ pc[c] # "none" => index[c] = port[c]
        /\ pc[c] \in Located =>
             path[c] = GetIcbinnPath(cl_domid(c), port[c])
        /\ pc[c] \in Entered => path[c] \in dirs
        /\ pc[c] \in Confined => root[c] = path[c]

\* Directories are only ever added, and mkdir has done what it can.
DirInv ==
    /\ InitDirs \subseteq dirs
    /\ \A c \in Client :
          pc[c] = "chdir" /\ path[c] \in Creatable => path[c] \in dirs

IInv ==
    /\ TypeOK /\ MadeInv /\ ParentInv /\ ChildInv /\ DirInv
    /\ NoForeignConnection /\ ListenersReleased

-----------------------------------------------------------------------------
(* Facts about the operators.                                              *)

\* get_icbinn_path delivers a usable path or fails.
LEMMA GetIcbinnPathType ==
    ASSUME NEW d, NEW i
    PROVE  GetIcbinnPath(d, i) \in Dir \cup {None}
BY DEF GetIcbinnPath

\* No process that can close or inherit a descriptor confuses the three kinds
\* of names.
LEMMA NamesDistinct ==
    /\ Main \in Proc /\ Client \subseteq Proc
    /\ \A c \in Client : c # Main /\ c # None /\ c \notin Port
BY ProcAssumption, DirAssumption DEF Proc

\* The sockets have at least one index.
LEMMA ZeroPort == 0 \in Port
BY NPortAssumption DEF Port

-----------------------------------------------------------------------------
(* Each part of the invariant is preserved by every step.                  *)

LEMMA TypeInit == Init => TypeOK
BY ZeroPort, DirAssumption DEF Init, TypeOK, Proc

\* Whatever a process or a client does next, the types stay.
LEMMA TypeStep == TypeOK /\ [Next]_vars => TypeOK'
<1> SUFFICES ASSUME TypeOK, [Next]_vars PROVE TypeOK'
  OBVIOUS
<1> USE NamesDistinct, ZeroPort, DirAssumption
<1> USE DEF TypeOK, Settling, Serving, Goto, Exit, peerVars, mainVars, childVars
<1>1. CASE UNCHANGED vars
  BY <1>1 DEF vars
<1>2. CASE Parent
  <2>1. CASE MainSelect
    BY <2>1 DEF MainSelect
  <2>2. CASE MainAccept
    BY <2>2 DEF MainAccept
  <2>3. CASE MainFork
    BY <2>3 DEF MainFork
  <2>4. CASE MainForkFails
    BY <2>4 DEF MainForkFails
  <2>5. CASE MainClose
    BY <2>5 DEF MainClose
  <2>6. QED
    BY <1>2, <2>1, <2>2, <2>3, <2>4, <2>5 DEF Parent
<1>3. ASSUME NEW c \in Client, Environment(c) \/ ConnError(c)
      PROVE  TypeOK'
  <2>1. ASSUME NEW q \in Port, Connect(c, q) PROVE TypeOK'
    BY <2>1 DEF Connect
  <2>2. CASE Send(c)
    BY <2>2 DEF Send
  <2>3. CASE Close(c)
    BY <2>3 DEF Close
  <2>4. CASE Abort(c)
    BY <2>4 DEF Abort
  <2>5. CASE Vanish(c)
    BY <2>5 DEF Vanish
  <2>6. CASE ConnError(c)
    BY <2>6 DEF ConnError
  <2>7. QED
    BY <1>3, <2>1, <2>2, <2>3, <2>4, <2>5, <2>6 DEF Environment
<1>4. ASSUME NEW c \in Client, Child(c)
      PROVE  TypeOK'
  <2>1. CASE ChildStart(c)
    BY <2>1 DEF ChildStart
  <2>2. CASE InitRand(c)
    <3>1. pc' \in [Client -> {"none", "exited"} \cup Settling \cup Serving]
      BY <2>2 DEF InitRand
    <3>2. held' \in [Proc -> SUBSET (Port \cup Client)]
      BY <2>2 DEF InitRand
    <3>3. QED
      BY <2>2, <3>1, <3>2 DEF InitRand
  <2>3. CASE Lookup(c)
    BY <2>3, GetIcbinnPathType DEF Lookup
  <2>4. CASE Stat(c)
    BY <2>4 DEF Stat
  <2>5. CASE Mkdir(c)
    BY <2>5 DEF Mkdir
  <2>6. CASE Chdir(c)
    <3>1. pc' \in [Client -> {"none", "exited"} \cup Settling \cup Serving]
      BY <2>6 DEF Chdir
    <3>2. held' \in [Proc -> SUBSET (Port \cup Client)]
      BY <2>6 DEF Chdir
    <3>3. QED
      BY <2>6, <3>1, <3>2 DEF Chdir
  <2>7. CASE Chroot(c)
    <3>1. pc' \in [Client -> {"none", "exited"} \cup Settling \cup Serving]
      BY <2>7 DEF Chroot
    <3>2. held' \in [Proc -> SUBSET (Port \cup Client)]
      BY <2>7 DEF Chroot
    <3>3. QED
      BY <2>7, <3>1, <3>2 DEF Chroot
  <2>8. CASE Register(c)
    <3>1. fdset' \in [Client -> BOOLEAN]
      BY <2>8, Zenon DEF Register
    <3>2. pc' \in [Client -> {"none", "exited"} \cup Settling \cup Serving]
      BY <2>8 DEF Register
    <3>3. held' \in [Proc -> SUBSET (Port \cup Client)]
      BY <2>8 DEF Register
    <3>4. QED
      BY <2>8, <3>1, <3>2, <3>3 DEF Register
  <2>9. CASE LoopTop(c)
    <3>1. pc' \in [Client -> {"none", "exited"} \cup Settling \cup Serving]
      BY <2>9 DEF LoopTop
    <3>2. held' \in [Proc -> SUBSET (Port \cup Client)]
      BY <2>9 DEF LoopTop
    <3>3. QED
      BY <2>9, <3>1, <3>2 DEF LoopTop
  <2>10. CASE GetReq(c)
    BY <2>10 DEF GetReq
  <2>11. CASE GetEof(c)
    BY <2>11 DEF GetEof
  <2>12. CASE SelectTimeout(c)
    BY <2>12 DEF SelectTimeout
  <2>13. CASE CheckClientAlive(c)
    <3>1. pc' \in [Client -> {"none", "exited"} \cup Settling \cup Serving]
      BY <2>13 DEF CheckClientAlive
    <3>2. held' \in [Proc -> SUBSET (Port \cup Client)]
      BY <2>13 DEF CheckClientAlive
    <3>3. QED
      BY <2>13, <3>1, <3>2 DEF CheckClientAlive
  <2>14. QED
    BY <1>4, <2>1, <2>2, <2>3, <2>4, <2>5, <2>6, <2>7, <2>8, <2>9, <2>10,
       <2>11, <2>12, <2>13 DEF Child
<1>5. QED
  BY <1>1, <1>2, <1>3, <1>4 DEF Next

-----------------------------------------------------------------------------
(* What a step of the environment or of a child leaves alone.              *)

\* Clients touch no process, and a connection once made keeps its port.
LEMMA EnvironmentFrame ==
    ASSUME TypeOK, NEW c \in Client, Environment(c) \/ ConnError(c)
    PROVE  /\ UNCHANGED <<held, dirs, mainVars, childVars>>
           /\ \A d \in Client :
                peer[d] # "idle" => peer'[d] # "idle" /\ port'[d] = port[d]
<1> USE DEF TypeOK
<1>1. ASSUME NEW q \in Port, Connect(c, q)
      PROVE  /\ UNCHANGED <<held, dirs, mainVars, childVars>>
             /\ \A d \in Client :
                  peer[d] # "idle" => peer'[d] # "idle" /\ port'[d] = port[d]
  BY <1>1 DEF Connect
<1>2. CASE Send(c)
  BY <1>2 DEF Send
<1>3. CASE Close(c)
  BY <1>3 DEF Close
<1>4. CASE Abort(c)
  BY <1>4 DEF Abort
<1>5. CASE Vanish(c)
  BY <1>5 DEF Vanish
<1>6. CASE ConnError(c)
  BY <1>6 DEF ConnError
<1>7. QED
  BY <1>1, <1>2, <1>3, <1>4, <1>5, <1>6 DEF Environment

\* A child has been forked and not yet exited when it runs, gains no
\* descriptor, removes no directory and touches no other process.
ChildFrame(c) ==
    /\ UNCHANGED <<peer, port, queue, mainVars, index>>
    /\ pc[c] \notin {"none", "exited"} /\ pc'[c] # "none"
    /\ held'[c] \subseteq held[c] /\ held'[Main] = held[Main]
    /\ dirs \subseteq dirs'
    /\ \A d \in Client \ {c} :
         /\ pc'[d] = pc[d] /\ path'[d] = path[d] /\ root'[d] = root[d]
         /\ held'[d] = held[d]

LEMMA ChildStepFrame ==
    ASSUME TypeOK, NEW c \in Client, Child(c)
    PROVE  ChildFrame(c)
<1> USE NamesDistinct
<1> USE DEF ChildFrame, TypeOK, Goto, Exit, peerVars, mainVars
<1>1. CASE ChildStart(c)
  BY <1>1 DEF ChildStart
<1>2. CASE InitRand(c)
  BY <1>2 DEF InitRand
<1>3. CASE Lookup(c)
  BY <1>3 DEF Lookup
<1>4. CASE Stat(c)
  BY <1>4 DEF Stat
<1>5. CASE Mkdir(c)
  BY <1>5 DEF Mkdir
<1>6. CASE Chdir(c)
  BY <1>6 DEF Chdir
<1>7. CASE Chroot(c)
  BY <1>7 DEF Chroot
<1>8. CASE Register(c)
  BY <1>8 DEF Register
<1>9. CASE LoopTop(c)
  BY <1>9 DEF LoopTop
<1>10. CASE GetReq(c)
  BY <1>10 DEF GetReq
<1>11. CASE GetEof(c)
  BY <1>11 DEF GetEof
<1>12. CASE SelectTimeout(c)
  BY <1>12 DEF SelectTimeout
<1>13. CASE CheckClientAlive(c)
  BY <1>13 DEF CheckClientAlive
<1>14. QED
  BY <1>1, <1>2, <1>3, <1>4, <1>5, <1>6, <1>7, <1>8, <1>9, <1>10, <1>11,
     <1>12, <1>13, Child(c) DEF Child

-----------------------------------------------------------------------------
(* The rest of the invariant.                                              *)

\* Connections keep the port they were made on.
LEMMA MadeStep == IInv /\ [Next]_vars => MadeInv'
<1> SUFFICES ASSUME IInv, [Next]_vars PROVE MadeInv'
  OBVIOUS
<1> USE NamesDistinct DEF IInv, TypeOK, MadeInv, ParentInv
<1>1. CASE UNCHANGED vars
  BY <1>1 DEF vars, peerVars, mainVars, childVars
<1>2. CASE Parent
  <2>1. CASE MainSelect
    BY <2>1 DEF MainSelect, peerVars, childVars
  <2>2. CASE MainAccept
    BY <2>2 DEF MainAccept, peerVars, childVars
  <2>3. CASE MainFork
    BY <2>3 DEF MainFork, peerVars
  <2>4. CASE MainForkFails
    BY <2>4 DEF MainForkFails, peerVars, childVars
  <2>5. CASE MainClose
    BY <2>5 DEF MainClose, peerVars, childVars
  <2>6. QED
    BY <1>2, <2>1, <2>2, <2>3, <2>4, <2>5 DEF Parent
<1>3. ASSUME NEW c \in Client, Environment(c) \/ ConnError(c)
      PROVE  MadeInv'
  <2>1. /\ UNCHANGED <<svfd, pc>>
        /\ \A d \in Client :
             peer[d] # "idle" => peer'[d] # "idle" /\ port'[d] = port[d]
    BY <1>3, EnvironmentFrame DEF mainVars, childVars
  <2>2. \A q \in Port : \A d \in queue'[q] : peer'[d] # "idle" /\ port'[d] = q
    <3>1. ASSUME NEW q \in Port, Connect(c, q)
          PROVE  \A r \in Port : \A d \in queue'[r] :
                    peer'[d] # "idle" /\ port'[d] = r
      BY <3>1 DEF Connect
    <3>2. CASE Abort(c)
      BY <3>2 DEF Abort
    <3>3. CASE Send(c) \/ Close(c) \/ Vanish(c) \/ ConnError(c)
      BY <3>3 DEF Send, Close, Vanish, ConnError
    <3>4. QED
      BY <1>3, <3>1, <3>2, <3>3 DEF Environment
  <2>3. QED
    BY <2>1, <2>2
<1>4. ASSUME NEW c \in Client, Child(c)
      PROVE  MadeInv'
  BY <1>4, ChildStepFrame DEF ChildFrame, mainVars
<1>5. QED
  BY <1>1, <1>2, <1>3, <1>4 DEF Next

\* svfd, socket_index and the port of the accepted client agree.
LEMMA ParentStep == IInv /\ [Next]_vars => ParentInv'
<1> SUFFICES ASSUME IInv, [Next]_vars PROVE ParentInv'
  OBVIOUS
<1> USE NamesDistinct DEF IInv, TypeOK, MadeInv, ParentInv
<1>1. CASE UNCHANGED vars
  BY <1>1 DEF vars, peerVars, mainVars
<1>2. CASE Parent
  BY <1>2 DEF Parent, MainSelect, MainAccept, MainFork, MainForkFails,
              MainClose, peerVars
<1>3. ASSUME NEW c \in Client, Environment(c) \/ ConnError(c)
      PROVE  ParentInv'
  BY <1>3, EnvironmentFrame DEF mainVars
<1>4. ASSUME NEW c \in Client, Child(c)
      PROVE  ParentInv'
  BY <1>4, ChildStepFrame DEF ChildFrame, mainVars
<1>5. QED
  BY <1>1, <1>2, <1>3, <1>4 DEF Next

\* What a child knows: its index, the path it looked up, the directory it is
\* in and its root.  Only the step that takes it to a place can establish
\* what holds there; the steps of others only add directories.
LEMMA ChildStep == IInv /\ [Next]_vars => ChildInv'
<1> SUFFICES ASSUME IInv, [Next]_vars PROVE ChildInv'
  OBVIOUS
<1> USE NamesDistinct DEF IInv, TypeOK, Located, Entered, Confined, Serving
<1>1. CASE UNCHANGED vars
  BY <1>1 DEF vars, peerVars, childVars, ChildInv
<1>2. CASE Parent
  <2>1. CASE MainFork
    BY <2>1 DEF MainFork, ParentInv, ChildInv, peerVars
  <2>2. CASE MainSelect \/ MainAccept \/ MainForkFails \/ MainClose
    BY <2>2 DEF MainSelect, MainAccept, MainForkFails, MainClose, ChildInv,
                peerVars, childVars
  <2>3. QED
    BY <1>2, <2>1, <2>2 DEF Parent
<1>3. ASSUME NEW c \in Client, Environment(c) \/ ConnError(c)
      PROVE  ChildInv'
  <2>1. \A d \in Client : pc[d] # "none" => port'[d] = port[d]
    BY <1>3, EnvironmentFrame DEF MadeInv
  <2>2. UNCHANGED <<dirs, pc, index, path, root>>
    BY <1>3, EnvironmentFrame DEF childVars
  <2>3. QED
    BY <2>1, <2>2 DEF ChildInv
<1>4. ASSUME NEW c \in Client, Child(c)
      PROVE  ChildInv'
  <2> DEFINE P(d) ==
        /\ pc[d] # "none" => index[d] = port[d]
        /\ pc[d] \in Located => path[d] = GetIcbinnPath(cl_domid(d), port[d])
        /\ pc[d] \in Entered => path[d] \in dirs
        /\ pc[d] \in Confined => root[d] = path[d]
  <2>1. ChildFrame(c)
    BY <1>4, ChildStepFrame
  <2>2. ASSUME NEW d \in Client \ {c} PROVE P(d)'
    BY <2>1, <2>2 DEF ChildFrame, ChildInv
  <2>3. P(c)'
    <3> USE DEF ChildInv, Goto, Exit
    <3>1. UNCHANGED <<port, index>> /\ dirs \subseteq dirs'
      BY <2>1 DEF ChildFrame
    <3>2. CASE Lookup(c)
      BY <2>1, <3>1, <3>2 DEF Lookup, ChildFrame
    <3>3. CASE Chroot(c)
      BY <3>1, <3>3 DEF Chroot
    <3>4. CASE Chdir(c) \/ Stat(c) \/ Mkdir(c)
      BY <3>1, <3>4 DEF Chdir, Stat, Mkdir
    <3>5. CASE ChildStart(c) \/ InitRand(c)
      BY <3>1, <3>5 DEF ChildStart, InitRand
    <3>6. CASE Register(c)
      BY <3>1, <3>6 DEF Register
    <3>7. CASE LoopTop(c) \/ SelectTimeout(c) \/ CheckClientAlive(c)
      BY <3>1, <3>7 DEF LoopTop, SelectTimeout, CheckClientAlive
    <3>8. CASE GetReq(c) \/ GetEof(c)
      BY <3>1, <3>8 DEF GetReq, GetEof
    <3>9. QED
      BY <1>4, <3>2, <3>3, <3>4, <3>5, <3>6, <3>7, <3>8 DEF Child
  <2>4. QED
    BY <2>2, <2>3 DEF ChildInv
<1>5. QED
  BY <1>1, <1>2, <1>3, <1>4 DEF Next

\* mkdir leaves the directory there whenever it can be.
LEMMA DirStep == IInv /\ [Next]_vars => DirInv'
<1> SUFFICES ASSUME IInv, [Next]_vars PROVE DirInv'
  OBVIOUS
<1> USE NamesDistinct DEF IInv, TypeOK
<1>1. CASE UNCHANGED vars
  BY <1>1 DEF vars, childVars, DirInv
<1>2. CASE Parent
  BY <1>2 DEF Parent, MainSelect, MainAccept, MainFork, MainForkFails,
              MainClose, childVars, DirInv
<1>3. ASSUME NEW c \in Client, Environment(c) \/ ConnError(c)
      PROVE  DirInv'
  BY <1>3, EnvironmentFrame DEF childVars, DirInv
<1>4. ASSUME NEW c \in Client, Child(c)
      PROVE  DirInv'
  <2>1. ChildFrame(c)
    BY <1>4, ChildStepFrame
  <2>2. pc'[c] = "chdir" /\ path'[c] \in Creatable => path'[c] \in dirs'
    <3> USE DEF Goto, Exit
    <3>1. CASE Stat(c) \/ Mkdir(c)
      BY <3>1 DEF Stat, Mkdir
    <3>2. CASE ~(Stat(c) \/ Mkdir(c))
      BY <1>4, <3>2 DEF Child, ChildStart, InitRand, Lookup, Chdir, Chroot,
           Register, LoopTop, GetReq, GetEof, SelectTimeout, CheckClientAlive
    <3>3. QED
      BY <3>1, <3>2
  <2>3. QED
    BY <2>1, <2>2 DEF ChildFrame, DirInv
<1>5. QED
  BY <1>1, <1>2, <1>3, <1>4 DEF Next

\* Descriptors are passed on by fork alone, when the parent has only the
\* accepted connection and the listening sockets open.
LEMMA DescriptorStep ==
    IInv /\ [Next]_vars => NoForeignConnection' /\ ListenersReleased'
<1> SUFFICES ASSUME IInv, [Next]_vars
             PROVE  NoForeignConnection' /\ ListenersReleased'
  OBVIOUS
<1> USE NamesDistinct
<1> USE DEF IInv, TypeOK, ParentInv, NoForeignConnection, ListenersReleased, Proc
<1>1. CASE UNCHANGED vars
  BY <1>1 DEF vars, mainVars, childVars
<1>2. CASE Parent
  <2>1. CASE MainSelect
    BY <2>1 DEF MainSelect, childVars
  <2>2. CASE MainAccept
    BY <2>2 DEF MainAccept, childVars
  <2>3. CASE MainFork
    BY <2>3 DEF MainFork
  <2>4. CASE MainForkFails
    BY <2>4 DEF MainForkFails, childVars
  <2>5. CASE MainClose
    BY <2>5 DEF MainClose, childVars
  <2>6. QED
    BY <1>2, <2>1, <2>2, <2>3, <2>4, <2>5 DEF Parent
<1>3. ASSUME NEW c \in Client, Environment(c) \/ ConnError(c)
      PROVE  NoForeignConnection' /\ ListenersReleased'
  BY <1>3, EnvironmentFrame DEF mainVars, childVars
<1>4. ASSUME NEW c \in Client, Child(c)
      PROVE  NoForeignConnection' /\ ListenersReleased'
  <2>1. ChildFrame(c)
    BY <1>4, ChildStepFrame
  <2>2. NoForeignConnection'
    BY <2>1 DEF ChildFrame, mainVars
  <2>3. held'[c] \cap Port # {} => pc'[c] = "forked"
    <3>1. CASE ChildStart(c)
      BY <3>1 DEF ChildStart
    <3>2. CASE ~ChildStart(c)
      <4>1. pc[c] # "forked"
        BY <1>4, <3>2 DEF Child, InitRand, Lookup, Stat, Mkdir, Chdir, Chroot,
             Register, LoopTop, GetReq, GetEof, SelectTimeout,
             CheckClientAlive, Goto
      <4>2. QED
        BY <2>1, <4>1 DEF ChildFrame
    <3>3. QED
      BY <3>1, <3>2
  <2>4. QED
    BY <2>1, <2>2, <2>3 DEF ChildFrame
<1>5. QED
  BY <1>1, <1>2, <1>3, <1>4 DEF Next

-----------------------------------------------------------------------------
(* The theorems.                                                           *)

\* The invariant holds of every state the daemon reaches.
THEOREM Invariant == Spec => []IInv
<1>1. Init => IInv
  <2> SUFFICES ASSUME Init PROVE IInv
    OBVIOUS
  <2> USE NamesDistinct DEF Init
  <2>1. TypeOK
    BY TypeInit
  <2>2. MadeInv /\ ParentInv
    BY DEF MadeInv, ParentInv
  <2>3. ChildInv /\ DirInv
    BY DEF ChildInv, DirInv, Located, Entered, Confined, Serving
  <2>4. NoForeignConnection /\ ListenersReleased
    BY DEF NoForeignConnection, ListenersReleased, Proc
  <2>5. QED
    BY <2>1, <2>2, <2>3, <2>4 DEF IInv
<1>2. IInv /\ [Next]_vars => IInv'
  BY TypeStep, MadeStep, ParentStep, ChildStep, DirStep, DescriptorStep
     DEF IInv
<1>3. QED
  BY <1>1, <1>2, PTL DEF Spec

\* Every variable keeps its type, for any number of connections and sockets.
THEOREM TypeCorrect == Spec => []TypeOK
<1>1. IInv => TypeOK
  BY DEF IInv
<1>2. QED
  BY <1>1, Invariant, PTL

\* Every child that serves requests is confined to the directory configured
\* for its own client's domain and socket.
THEOREM RightRootAlways == Spec => []RightRoot
<1>1. IInv => RightRoot
  BY DEF IInv, ChildInv, RightRoot, Located, Entered, Confined, Serving
<1>2. QED
  BY <1>1, Invariant, PTL

\* No process ever has another client's connection open.
THEOREM NoForeignConnectionAlways == Spec => []NoForeignConnection
<1>1. IInv => NoForeignConnection
  BY DEF IInv
<1>2. QED
  BY <1>1, Invariant, PTL

\* Children past their first step have no listening socket open.
THEOREM ListenersReleasedAlways == Spec => []ListenersReleased
<1>1. IInv => ListenersReleased
  BY DEF IInv
<1>2. QED
  BY <1>1, Invariant, PTL

\* The race between two children's stat and mkdir never costs one its client.
THEOREM MkdirRaceHarmlessAlways == Spec => MkdirRaceHarmless
<1> DEFINE Harmless ==
      \A c \in Client :
          pc[c] \in {"stat", "mkdir", "chdir"} /\ pc'[c] = "exited"
              => path[c] \notin Creatable \cup InitDirs
<1>1. IInv /\ [Next]_vars => [Harmless]_vars
  <2> SUFFICES ASSUME IInv, Next PROVE Harmless
    OBVIOUS
  <2> SUFFICES ASSUME NEW c \in Client,
                      pc[c] \in {"stat", "mkdir", "chdir"}, pc'[c] = "exited"
               PROVE  path[c] \notin Creatable \cup InitDirs
    OBVIOUS
  <2>1. Child(c)
    <3> USE DEF IInv, TypeOK
    <3>1. CASE Parent
      BY <3>1 DEF Parent, MainSelect, MainAccept, MainFork, MainForkFails,
                  MainClose, childVars
    <3>2. ASSUME NEW d \in Client, Environment(d) \/ ConnError(d) PROVE FALSE
      BY <3>2, EnvironmentFrame DEF childVars
    <3>3. ASSUME NEW d \in Client, Child(d) PROVE d = c
      BY <3>3, ChildStepFrame DEF ChildFrame
    <3>4. QED
      BY <3>1, <3>2, <3>3 DEF Next
  <2>2. Chdir(c) /\ path[c] \notin dirs
    BY <2>1 DEF IInv, TypeOK, Child, ChildStart, InitRand, Lookup, Stat, Mkdir,
         Chdir, Chroot, Register, LoopTop, GetReq, GetEof, SelectTimeout,
         CheckClientAlive, Goto
  <2>3. QED
    BY <2>2 DEF Chdir, Goto, IInv, DirInv
<1>2. QED
  BY <1>1, Invariant, PTL DEF Spec, MkdirRaceHarmless
=============================================================================
