----------------------------- MODULE EngineProofs -----------------------------
(***************************************************************************)
(* What the parts of the engine promise for any number of threads: the     *)
(* accept path of Server (any workers, sessions, socket handles, clients), *)
(* the asynchronous logger (any callers and ring size), its files (any     *)
(* limit) and, with CommonProofs and LockFreeProofs, all parts together.   *)
(* ServerInv says who holds a session object at each moment, LogInv who    *)
(* holds a slot.                                                           *)
(***************************************************************************)
EXTENDS Engine, CommonProofs, Integers, SequenceTheorems, FiniteSetTheorems, NaturalsInduction,
        WellFoundedInduction, TLAPS

-----------------------------------------------------------------------------
(***************************************************************************)
(* Server.                                                                 *)
(***************************************************************************)

(* The main thread is not a worker; INVALID_SOCKET is no handle, nullptr   *)
(* no session, and a quit packet no session.                               *)
ServerConstants ==
    /\ Main \notin Workers /\ IsFiniteSet(Workers)
    /\ Invalid \notin Sockets /\ Invalid \notin Sessions /\ Quit \notin Sessions

Phases == {"none", "made", "pending", "aborted", "queued", "handled", "connected"}
Places == {"idle", "socket", "prepare", "create", "accept", "drop", "undo", "stopThreads", "closeListen",
           "forget", "join", "closed", "context", "release", "exited"}

FlagTypes ==
    /\ running \in BOOLEAN /\ gameThreads \in BOOLEAN /\ broken \in BOOLEAN /\ shutdown \in BOOLEAN

ServerTypes ==
    /\ listenSocket \in Sockets \union {Invalid} /\ open \subseteq Sockets /\ listening \subseteq open
    /\ phase \in [Sessions -> Phases]
    /\ sock \in [Sessions -> Sockets \union {Invalid}]
    /\ port \in Seq(Sessions \union {Quit})
    /\ good \subseteq Sessions /\ cur \in [Threads -> Sessions \union {Invalid}]
    /\ post \in [Threads -> Sessions \union {Invalid}]
    /\ pc \in [Threads -> Places]

(* A session between CreateAcceptSocket and AcceptEx is that of one        *)
(* PostAcceptEx.                                                           *)
PostedInv ==
    /\ \A t \in Threads : pc[t] \in {"accept", "drop"} => post[t] \in Sessions /\ phase[post[t]] = "made"
    /\ \A t, u \in Threads :
          pc[t] \in {"accept", "drop"} /\ pc[u] \in {"accept", "drop"} /\ post[t] = post[u] => t = u

(* A completed session is in the port once, and then with one worker.      *)
PortInv ==
    \A i, j \in DOMAIN port :
        port[i] \in Sessions => phase[port[i]] = "queued" /\ (port[i] = port[j] => i = j)

HandledInv ==
    /\ \A w \in Workers : cur[w] \in Sessions => phase[cur[w]] \in {"handled", "connected"}
    /\ \A w \in Workers :
          pc[w] \in {"context", "create", "accept", "drop", "release"} => cur[w] \in Sessions
    /\ \A w \in Workers : pc[w] = "context" => phase[cur[w]] = "handled"
    /\ \A w, v \in Workers : cur[w] \in Sessions /\ cur[w] = cur[v] => w = v

(* When the server counts as running, and whose the listen socket is.      *)
MainInv ==
    /\ running => pc[Main] \in {"idle", "create", "accept", "drop", "undo"}
    /\ pc[Main] \in {"create", "accept", "drop", "undo"} => running
    /\ \A w \in Workers : pc[w] \in {"idle", "exited", "context", "create", "accept", "drop", "release"}

SocketInv ==
    /\ \A s \in Sessions : phase[s] = "none" => sock[s] = Invalid
    /\ open \subseteq {sock[s] : s \in Sessions} \union
          (IF running \/ pc[Main] \notin {"idle", "socket", "forget", "join", "closed"}
           THEN {listenSocket} ELSE {})

(* The accept chain: an accept not yet taken up, or a worker that will     *)
(* post the next one.                                                      *)
ChainInv ==
    running /\ pc[Main] = "idle" /\ ~broken =>
        \/ \E s \in Sessions : phase[s] \in {"made", "pending", "aborted", "queued"}
        \/ \E w \in Workers : pc[w] \in {"context", "create"}

ServerInv ==
    FlagTypes /\ ServerTypes /\ PostedInv /\ PortInv /\ HandledInv /\ MainInv /\ SocketInv /\ ChainInv

(* What Close does, without saying which pending accepts it aborts.        *)
Closed(hs, gone) ==
    /\ open' = open \ (hs \union {sock[s] : s \in gone})
    /\ listening' \subseteq open'
    /\ phase' \in [Sessions -> Phases] /\ sock' \in [Sessions -> Sockets \union {Invalid}]
    /\ \A s \in gone : phase'[s] = "none" /\ sock'[s] = Invalid
    /\ \A s \in Sessions \ gone :
          /\ sock'[s] = sock[s]
          /\ phase'[s] = phase[s] \/ (phase[s] = "pending" /\ phase'[s] = "aborted")

(* Closing handles leaves the others open, and of the sessions that stay   *)
(* it only aborts pending accepts (closesocket, ~Session).                 *)
LEMMA CloseEffect ==
    ASSUME ServerTypes, NEW hs, NEW gone, gone \subseteq Sessions, Close(hs, gone)
    PROVE  Closed(hs, gone)
BY DEF ServerTypes, Phases, Close, Closed

(* The state before StartServer satisfies the invariant.                   *)
LEMMA ServerInit ==
    ASSUME ServerConstants, Init
    PROVE  ServerInv
<1>0. FlagTypes
    BY Zenon DEF Init, FlagTypes
<1>1. ServerTypes
    BY DEF Init, ServerTypes, Phases, Places, Threads
<1>2. PostedInv /\ PortInv /\ HandledInv
    BY DEF Init, PostedInv, PortInv, HandledInv, ServerConstants, Threads
<1>3. MainInv /\ SocketInv /\ ChainInv
    BY DEF Init, MainInv, SocketInv, ChainInv, Threads
<1>4. QED  BY <1>0, <1>1, <1>2, <1>3 DEF ServerInv

(* StartServer begins while the server is stopped; nobody holds more. *)
LEMMA StartServerKeeps ==
    ASSUME ServerConstants, ServerInv, StartServer
    PROVE  ServerInv'
<1> USE DEF ServerConstants, ServerInv, Threads
<1>1. FlagTypes'
    BY Zenon DEF StartServer, kernel, queue, FlagTypes
<1>2. ServerTypes'
    BY DEF StartServer, Goto, kernel, queue, ServerTypes, Phases, Places
<1>3. PostedInv'
    BY DEF StartServer, Goto, kernel, queue, PostedInv, ServerTypes
<1>4. PortInv'
    BY DEF StartServer, Goto, kernel, queue, PortInv, ServerTypes
<1>5. HandledInv'
    BY DEF StartServer, Goto, kernel, queue, HandledInv, ServerTypes
<1>6. MainInv'
    BY DEF StartServer, Goto, kernel, queue, MainInv, ServerTypes
<1>7. SocketInv'
    BY DEF StartServer, Goto, kernel, queue, SocketInv, ServerTypes, MainInv, Phases
<1>8. ChainInv'
    BY DEF StartServer, Goto, kernel, queue, ChainInv, ServerTypes, MainInv
<1>9. QED  BY <1>1, <1>2, <1>3, <1>4, <1>5, <1>6, <1>7, <1>8

(* After running.exchange(false) no accept is promised any more. *)
LEMMA StopServerKeeps ==
    ASSUME ServerConstants, ServerInv, StopServer
    PROVE  ServerInv'
<1> USE DEF ServerConstants, ServerInv, Threads
<1>1. FlagTypes'
    BY Zenon DEF StopServer, kernel, queue, FlagTypes
<1>2. ServerTypes'
    BY DEF StopServer, Goto, kernel, queue, ServerTypes, Phases, Places
<1>3. PostedInv'
    BY DEF StopServer, Goto, kernel, queue, PostedInv, ServerTypes
<1>4. PortInv'
    BY DEF StopServer, Goto, kernel, queue, PortInv, ServerTypes
<1>5. HandledInv'
    BY DEF StopServer, Goto, kernel, queue, HandledInv, ServerTypes
<1>6. MainInv'
    BY DEF StopServer, Goto, kernel, queue, MainInv, ServerTypes
<1>7. SocketInv'
    BY DEF StopServer, Goto, kernel, queue, SocketInv, ServerTypes, MainInv, Phases
<1>8. ChainInv'
    BY DEF StopServer, Goto, kernel, queue, ChainInv, ServerTypes, MainInv
<1>9. QED  BY <1>1, <1>2, <1>3, <1>4, <1>5, <1>6, <1>7, <1>8

(* The quit packets are no sessions; those queued before stay in order. *)
LEMMA ShutdownKeeps ==
    ASSUME ServerConstants, ServerInv, Shutdown
    PROVE  ServerInv'
<1> USE DEF ServerConstants, ServerInv, Threads
<1>1. /\ port' \in Seq(Sessions \union {Quit})
      /\ \A i \in DOMAIN port' : (i \in DOMAIN port /\ port'[i] = port[i]) \/ port'[i] = Quit
  <2>1. PICK n \in Nat : n = Cardinality(Workers)
      BY FS_CardinalityType
  <2>2. PICK quits : quits = [i \in 1..n |-> Quit]
      OBVIOUS
  <2>3. quits \in Seq({Quit}) /\ Len(quits) = n /\ port' = port \o quits
      BY <2>1, <2>2 DEF Shutdown
  <2>4. port \in Seq(Sessions \union {Quit}) /\ quits \in Seq(Sessions \union {Quit})
      BY <2>2 DEF ServerTypes
  <2>5. port' \in Seq(Sessions \union {Quit})
      BY <2>3, <2>4
  <2>6. \A i \in DOMAIN port' : (i \in DOMAIN port /\ port'[i] = port[i]) \/ port'[i] = Quit
      BY <2>2, <2>3, <2>4
  <2>7. QED  BY <2>5, <2>6
<1>2. FlagTypes'
    BY Zenon DEF Shutdown, kernel, FlagTypes
<1>3. ServerTypes'
    BY <1>1 DEF Shutdown, Goto, kernel, ServerTypes, Phases, Places
<1>4. PostedInv'
    BY <1>1 DEF Shutdown, Goto, kernel, PostedInv, ServerTypes
<1>5. PortInv'
  <2>1. phase' = phase
      BY DEF Shutdown, kernel
  <2>2. QED  BY <1>1, <2>1 DEF PortInv
<1>6. HandledInv'
    BY <1>1 DEF Shutdown, Goto, kernel, HandledInv, ServerTypes
<1>7. MainInv'
    BY <1>1 DEF Shutdown, Goto, kernel, MainInv, ServerTypes
<1>8. SocketInv'
    BY <1>1 DEF Shutdown, Goto, kernel, SocketInv, ServerTypes, MainInv, Phases
<1>9. ChainInv'
    BY <1>1 DEF Shutdown, Goto, kernel, ChainInv, ServerTypes, MainInv
<1>10. QED  BY <1>2, <1>3, <1>4, <1>5, <1>6, <1>7, <1>8, <1>9

(* The new handle is the listen socket; no other one was open. *)
LEMMA CreateListenSocketKeeps ==
    ASSUME ServerConstants, ServerInv, CreateListenSocket
    PROVE  ServerInv'
<1> USE DEF ServerConstants, ServerInv, Threads
<1>1. FlagTypes'
    BY Zenon DEF CreateListenSocket, queue, FlagTypes
<1>2. ServerTypes'
    BY DEF CreateListenSocket, Goto, queue, ServerTypes, Phases, Places
<1>3. PostedInv'
    BY DEF CreateListenSocket, Goto, queue, PostedInv, ServerTypes
<1>4. PortInv'
    BY DEF CreateListenSocket, Goto, queue, PortInv, ServerTypes
<1>5. HandledInv'
    BY DEF CreateListenSocket, Goto, queue, HandledInv, ServerTypes
<1>6. MainInv'
    BY DEF CreateListenSocket, Goto, queue, MainInv, ServerTypes
<1>7. SocketInv'
    BY DEF CreateListenSocket, Goto, queue, SocketInv, ServerTypes, MainInv, Phases
<1>8. ChainInv'
    BY DEF CreateListenSocket, Goto, queue, ChainInv, ServerTypes, MainInv
<1>9. QED  BY <1>1, <1>2, <1>3, <1>4, <1>5, <1>6, <1>7, <1>8

(* Without a socket StartServer leaves nothing behind. *)
LEMMA CreateListenSocketFailsKeeps ==
    ASSUME ServerConstants, ServerInv, CreateListenSocketFails
    PROVE  ServerInv'
<1> USE DEF ServerConstants, ServerInv, Threads
<1>1. FlagTypes'
    BY Zenon DEF CreateListenSocketFails, kernel, queue, FlagTypes
<1>2. ServerTypes'
    BY DEF CreateListenSocketFails, Goto, kernel, queue, ServerTypes, Phases, Places
<1>3. PostedInv'
    BY DEF CreateListenSocketFails, Goto, kernel, queue, PostedInv, ServerTypes
<1>4. PortInv'
    BY DEF CreateListenSocketFails, Goto, kernel, queue, PortInv, ServerTypes
<1>5. HandledInv'
    BY DEF CreateListenSocketFails, Goto, kernel, queue, HandledInv, ServerTypes
<1>6. MainInv'
    BY DEF CreateListenSocketFails, Goto, kernel, queue, MainInv, ServerTypes
<1>7. SocketInv'
    BY DEF CreateListenSocketFails, Goto, kernel, queue, SocketInv, ServerTypes, MainInv, Phases
<1>8. ChainInv'
    BY DEF CreateListenSocketFails, Goto, kernel, queue, ChainInv, ServerTypes, MainInv
<1>9. QED  BY <1>1, <1>2, <1>3, <1>4, <1>5, <1>6, <1>7, <1>8

(* From here on the server counts as running and Main posts an accept. *)
LEMMA ListenKeeps ==
    ASSUME ServerConstants, ServerInv, Listen
    PROVE  ServerInv'
<1> USE DEF ServerConstants, ServerInv, Threads
<1>1. FlagTypes'
    BY Zenon DEF Listen, queue, FlagTypes
<1>2. ServerTypes'
    BY DEF Listen, Goto, queue, ServerTypes, Phases, Places
<1>3. PostedInv'
    BY DEF Listen, Goto, queue, PostedInv, ServerTypes
<1>4. PortInv'
    BY DEF Listen, Goto, queue, PortInv, ServerTypes
<1>5. HandledInv'
    BY DEF Listen, Goto, queue, HandledInv, ServerTypes
<1>6. MainInv'
    BY DEF Listen, Goto, queue, MainInv, ServerTypes
<1>7. SocketInv'
    BY DEF Listen, Goto, queue, SocketInv, ServerTypes, MainInv, Phases
<1>8. ChainInv'
    BY DEF Listen, Goto, queue, ChainInv, ServerTypes, MainInv
<1>9. QED  BY <1>1, <1>2, <1>3, <1>4, <1>5, <1>6, <1>7, <1>8

(* bind or listen fails: the listen socket is closed again. *)
LEMMA ListenFailsKeeps ==
    ASSUME ServerConstants, ServerInv, ListenFails
    PROVE  ServerInv'
<1> USE DEF ServerConstants, ServerInv, Threads
<1>1. Closed({listenSocket}, {})
    BY CloseEffect DEF ListenFails
<1>2. FlagTypes'
    BY Zenon DEF ListenFails, queue, FlagTypes
<1>3. ServerTypes'
    BY <1>1 DEF ListenFails, Goto, queue, Closed, ServerTypes, Phases, Places
<1>4. PostedInv'
    BY <1>1 DEF ListenFails, Goto, queue, Closed, PostedInv, ServerTypes
<1>5. PortInv'
    BY <1>1 DEF ListenFails, Goto, queue, Closed, PortInv, ServerTypes
<1>6. HandledInv'
    BY <1>1 DEF ListenFails, Goto, queue, Closed, HandledInv, ServerTypes
<1>7. MainInv'
    BY <1>1 DEF ListenFails, Goto, queue, Closed, MainInv, ServerTypes
<1>8. SocketInv'
    BY <1>1 DEF ListenFails, Goto, queue, Closed, SocketInv, ServerTypes, MainInv, Phases
<1>9. ChainInv'
    BY <1>1 DEF ListenFails, Goto, queue, Closed, ChainInv, ServerTypes, MainInv
<1>10. QED  BY <1>2, <1>3, <1>4, <1>5, <1>6, <1>7, <1>8, <1>9

(* The first accept could not be posted: the listen socket is closed. *)
LEMMA StartFailsKeeps ==
    ASSUME ServerConstants, ServerInv, StartFails
    PROVE  ServerInv'
<1> USE DEF ServerConstants, ServerInv, Threads
<1>1. Closed({listenSocket}, {})
    BY CloseEffect DEF StartFails
<1>2. FlagTypes'
    BY Zenon DEF StartFails, queue, FlagTypes
<1>3. ServerTypes'
    BY <1>1 DEF StartFails, Goto, queue, Closed, ServerTypes, Phases, Places
<1>4. PostedInv'
    BY <1>1 DEF StartFails, Goto, queue, Closed, PostedInv, ServerTypes
<1>5. PortInv'
    BY <1>1 DEF StartFails, Goto, queue, Closed, PortInv, ServerTypes
<1>6. HandledInv'
    BY <1>1 DEF StartFails, Goto, queue, Closed, HandledInv, ServerTypes
<1>7. MainInv'
    BY <1>1 DEF StartFails, Goto, queue, Closed, MainInv, ServerTypes
<1>8. SocketInv'
    BY <1>1 DEF StartFails, Goto, queue, Closed, SocketInv, ServerTypes, MainInv, Phases
<1>9. ChainInv'
    BY <1>1 DEF StartFails, Goto, queue, Closed, ChainInv, ServerTypes, MainInv
<1>10. QED  BY <1>2, <1>3, <1>4, <1>5, <1>6, <1>7, <1>8, <1>9

(* Stopping the game threads touches no socket. *)
LEMMA StopGameThreadsKeeps ==
    ASSUME ServerConstants, ServerInv, StopGameThreads
    PROVE  ServerInv'
<1> USE DEF ServerConstants, ServerInv, Threads
<1>1. FlagTypes'
    BY Zenon DEF StopGameThreads, kernel, queue, FlagTypes
<1>2. ServerTypes'
    BY DEF StopGameThreads, Goto, kernel, queue, ServerTypes, Phases, Places
<1>3. PostedInv'
    BY DEF StopGameThreads, Goto, kernel, queue, PostedInv, ServerTypes
<1>4. PortInv'
    BY DEF StopGameThreads, Goto, kernel, queue, PortInv, ServerTypes
<1>5. HandledInv'
    BY DEF StopGameThreads, Goto, kernel, queue, HandledInv, ServerTypes
<1>6. MainInv'
    BY DEF StopGameThreads, Goto, kernel, queue, MainInv, ServerTypes
<1>7. SocketInv'
    BY DEF StopGameThreads, Goto, kernel, queue, SocketInv, ServerTypes, MainInv, Phases
<1>8. ChainInv'
    BY DEF StopGameThreads, Goto, kernel, queue, ChainInv, ServerTypes, MainInv
<1>9. QED  BY <1>1, <1>2, <1>3, <1>4, <1>5, <1>6, <1>7, <1>8

(* closesocket aborts the pending accepts; their sessions stay. *)
LEMMA CloseListenSocketKeeps ==
    ASSUME ServerConstants, ServerInv, CloseListenSocket
    PROVE  ServerInv'
<1> USE DEF ServerConstants, ServerInv, Threads
<1>1. Closed({listenSocket}, {})
    BY CloseEffect DEF CloseListenSocket
<1>2. FlagTypes'
    BY Zenon DEF CloseListenSocket, server, queue, FlagTypes
<1>3. ServerTypes'
    BY <1>1 DEF CloseListenSocket, Goto, server, queue, Closed, ServerTypes, Phases, Places
<1>4. PostedInv'
    BY <1>1 DEF CloseListenSocket, Goto, server, queue, Closed, PostedInv, ServerTypes
<1>5. PortInv'
    BY <1>1 DEF CloseListenSocket, Goto, server, queue, Closed, PortInv, ServerTypes
<1>6. HandledInv'
    BY <1>1 DEF CloseListenSocket, Goto, server, queue, Closed, HandledInv, ServerTypes
<1>7. MainInv'
    BY <1>1 DEF CloseListenSocket, Goto, server, queue, Closed, MainInv, ServerTypes
<1>8. SocketInv'
    BY <1>1 DEF CloseListenSocket, Goto, server, queue, Closed, SocketInv, ServerTypes, MainInv, Phases
<1>9. ChainInv'
    BY <1>1 DEF CloseListenSocket, Goto, server, queue, Closed, ChainInv, ServerTypes, MainInv
<1>10. QED  BY <1>2, <1>3, <1>4, <1>5, <1>6, <1>7, <1>8, <1>9

(* The handle forgotten here is closed, or belongs to a session by now. *)
LEMMA ForgetListenSocketKeeps ==
    ASSUME ServerConstants, ServerInv, ForgetListenSocket
    PROVE  ServerInv'
<1> USE DEF ServerConstants, ServerInv, Threads
<1>1. FlagTypes'
    BY Zenon DEF ForgetListenSocket, kernel, queue, FlagTypes
<1>2. ServerTypes'
    BY DEF ForgetListenSocket, Goto, kernel, queue, ServerTypes, Phases, Places
<1>3. PostedInv'
    BY DEF ForgetListenSocket, Goto, kernel, queue, PostedInv, ServerTypes
<1>4. PortInv'
    BY DEF ForgetListenSocket, Goto, kernel, queue, PortInv, ServerTypes
<1>5. HandledInv'
    BY DEF ForgetListenSocket, Goto, kernel, queue, HandledInv, ServerTypes
<1>6. MainInv'
    BY DEF ForgetListenSocket, Goto, kernel, queue, MainInv, ServerTypes
<1>7. SocketInv'
    BY DEF ForgetListenSocket, Goto, kernel, queue, SocketInv, ServerTypes, MainInv, Phases
<1>8. ChainInv'
    BY DEF ForgetListenSocket, Goto, kernel, queue, ChainInv, ServerTypes, MainInv
<1>9. QED  BY <1>1, <1>2, <1>3, <1>4, <1>5, <1>6, <1>7, <1>8

(* Joining the workers touches no session. *)
LEMMA JoinWorkersKeeps ==
    ASSUME ServerConstants, ServerInv, JoinWorkers
    PROVE  ServerInv'
<1> USE DEF ServerConstants, ServerInv, Threads
<1>1. FlagTypes'
    BY Zenon DEF JoinWorkers, server, kernel, queue, FlagTypes
<1>2. ServerTypes'
    BY DEF JoinWorkers, Goto, server, kernel, queue, ServerTypes, Phases, Places
<1>3. PostedInv'
    BY DEF JoinWorkers, Goto, server, kernel, queue, PostedInv, ServerTypes
<1>4. PortInv'
    BY DEF JoinWorkers, Goto, server, kernel, queue, PortInv, ServerTypes
<1>5. HandledInv'
    BY DEF JoinWorkers, Goto, server, kernel, queue, HandledInv, ServerTypes
<1>6. MainInv'
    BY DEF JoinWorkers, Goto, server, kernel, queue, MainInv, ServerTypes
<1>7. SocketInv'
    BY DEF JoinWorkers, Goto, server, kernel, queue, SocketInv, ServerTypes, MainInv, Phases
<1>8. ChainInv'
    BY DEF JoinWorkers, Goto, server, kernel, queue, ChainInv, ServerTypes, MainInv
<1>9. QED  BY <1>1, <1>2, <1>3, <1>4, <1>5, <1>6, <1>7, <1>8

(* PostAcceptEx takes an unused session: nobody else holds it. *)
LEMMA CreateAcceptSocketKeeps ==
    ASSUME ServerConstants, ServerInv, NEW t \in Threads, CreateAcceptSocket(t)
    PROVE  ServerInv'
<1> USE DEF ServerConstants, ServerInv, Threads
<1>1. FlagTypes'
    BY Zenon DEF CreateAcceptSocket, server, queue, FlagTypes
<1>2. ServerTypes'
    BY DEF CreateAcceptSocket, Goto, FreshSession, server, queue, ServerTypes, Phases, Places
<1>3. PostedInv'
    BY DEF CreateAcceptSocket, Goto, FreshSession, server, queue, PostedInv, ServerTypes
<1>4. PortInv'
    BY DEF CreateAcceptSocket, Goto, FreshSession, server, queue, PortInv, ServerTypes
<1>5. HandledInv'
    BY DEF CreateAcceptSocket, Goto, FreshSession, server, queue, HandledInv, ServerTypes
<1>6. MainInv'
    BY DEF CreateAcceptSocket, Goto, FreshSession, server, queue, MainInv, ServerTypes
<1>7. SocketInv'
    BY DEF CreateAcceptSocket, Goto, FreshSession, server, queue, SocketInv, ServerTypes, Phases
<1>8. ChainInv'
    BY DEF CreateAcceptSocket, Goto, FreshSession, server, queue, ChainInv, ServerTypes
<1>9. QED  BY <1>1, <1>2, <1>3, <1>4, <1>5, <1>6, <1>7, <1>8

(* No socket for the next accept: the chain ends, and broken says so. *)
LEMMA CreateAcceptSocketFailsKeeps ==
    ASSUME ServerConstants, ServerInv, NEW t \in Threads, CreateAcceptSocketFails(t)
    PROVE  ServerInv'
<1> USE DEF ServerConstants, ServerInv, Threads
<1>1. FlagTypes'
    BY Zenon DEF CreateAcceptSocketFails, AfterFailure, kernel, queue, FlagTypes
<1>2. ServerTypes'
    BY DEF CreateAcceptSocketFails, Goto, AfterFailure, kernel, queue, ServerTypes, Phases, Places
<1>3. PostedInv'
    BY DEF CreateAcceptSocketFails, Goto, AfterFailure, kernel, queue, PostedInv, ServerTypes
<1>4. PortInv'
    BY DEF CreateAcceptSocketFails, Goto, AfterFailure, kernel, queue, PortInv, ServerTypes
<1>5. HandledInv'
    BY DEF CreateAcceptSocketFails, Goto, AfterFailure, kernel, queue, HandledInv, ServerTypes
<1>6. MainInv'
    BY DEF CreateAcceptSocketFails, Goto, AfterFailure, kernel, queue, MainInv, ServerTypes
<1>7. SocketInv'
    BY DEF CreateAcceptSocketFails, Goto, AfterFailure, kernel, queue, SocketInv, ServerTypes, Phases
<1>8. ChainInv'
    BY DEF CreateAcceptSocketFails, Goto, AfterFailure, kernel, queue, ChainInv, ServerTypes
<1>9. QED  BY <1>1, <1>2, <1>3, <1>4, <1>5, <1>6, <1>7, <1>8

(* The session of this PostAcceptEx, and no other, becomes pending. *)
LEMMA AcceptExKeeps ==
    ASSUME ServerConstants, ServerInv, NEW t \in Threads, AcceptEx(t)
    PROVE  ServerInv'
<1> USE DEF ServerConstants, ServerInv, Threads
<1>1. FlagTypes'
    BY Zenon DEF AcceptEx, server, queue, FlagTypes
<1>2. ServerTypes'
    BY DEF AcceptEx, Goto, server, queue, ServerTypes, Phases, Places, PostedInv
<1>3. PostedInv'
    BY DEF AcceptEx, Goto, server, queue, PostedInv, ServerTypes, Phases
<1>4. PortInv'
    BY DEF AcceptEx, Goto, server, queue, PortInv, ServerTypes, PostedInv, Phases
<1>5. HandledInv'
    BY DEF AcceptEx, Goto, server, queue, HandledInv, ServerTypes, PostedInv, Phases
<1>6. MainInv'
    BY DEF AcceptEx, Goto, server, queue, MainInv, ServerTypes, PostedInv, Phases
<1>7. SocketInv'
    BY DEF AcceptEx, Goto, server, queue, SocketInv, ServerTypes, PostedInv, Phases, MainInv
<1>8. ChainInv'
    BY DEF AcceptEx, Goto, server, queue, ChainInv, ServerTypes, PostedInv, Phases
<1>9. QED  BY <1>1, <1>2, <1>3, <1>4, <1>5, <1>6, <1>7, <1>8

(* The session's handle is closed; the session is dropped next. *)
LEMMA AcceptExFailsKeeps ==
    ASSUME ServerConstants, ServerInv, NEW t \in Threads, AcceptExFails(t)
    PROVE  ServerInv'
<1> USE DEF ServerConstants, ServerInv, Threads
<1>1. Closed({sock[post[t]]}, {})
    BY CloseEffect DEF AcceptExFails
<1>2. FlagTypes'
    BY Zenon DEF AcceptExFails, server, queue, FlagTypes
<1>3. ServerTypes'
    BY <1>1 DEF AcceptExFails, Goto, server, queue, Closed, ServerTypes, Phases, Places
<1>4. PostedInv'
    BY <1>1 DEF AcceptExFails, Goto, server, queue, Closed, PostedInv, ServerTypes
<1>5. PortInv'
    BY <1>1 DEF AcceptExFails, Goto, server, queue, Closed, PortInv, ServerTypes
<1>6. HandledInv'
    BY <1>1 DEF AcceptExFails, Goto, server, queue, Closed, HandledInv, ServerTypes
<1>7. MainInv'
    BY <1>1 DEF AcceptExFails, Goto, server, queue, Closed, MainInv, ServerTypes
<1>8. SocketInv'
    BY <1>1 DEF AcceptExFails, Goto, server, queue, Closed, SocketInv, ServerTypes, Phases
<1>9. ChainInv'
    BY <1>1 DEF AcceptExFails, Goto, server, queue, Closed, ChainInv, ServerTypes
<1>10. QED  BY <1>2, <1>3, <1>4, <1>5, <1>6, <1>7, <1>8, <1>9

(* The session of this PostAcceptEx, and no other, is destroyed. *)
LEMMA DropPostedKeeps ==
    ASSUME ServerConstants, ServerInv, NEW t \in Threads, DropPosted(t)
    PROVE  ServerInv'
<1> USE DEF ServerConstants, ServerInv, Threads
<1>1. Closed({}, {post[t]})
    BY CloseEffect DEF DropPosted, PostedInv
<1>2. FlagTypes'
    BY Zenon DEF DropPosted, AfterFailure, queue, FlagTypes
<1>3. ServerTypes'
    BY <1>1 DEF DropPosted, Goto, AfterFailure, queue, Closed, ServerTypes, Phases, Places, PostedInv
<1>4. PostedInv'
    BY <1>1 DEF DropPosted, Goto, AfterFailure, queue, Closed, PostedInv, ServerTypes, Phases
<1>5. PortInv'
    BY <1>1 DEF DropPosted, Goto, AfterFailure, queue, Closed, PortInv, ServerTypes, PostedInv, Phases
<1>6. HandledInv'
    BY <1>1 DEF DropPosted, Goto, AfterFailure, queue, Closed, HandledInv, ServerTypes, PostedInv, Phases
<1>7. MainInv'
    BY <1>1 DEF DropPosted, Goto, AfterFailure, queue, Closed, MainInv, ServerTypes, PostedInv, Phases
<1>8. SocketInv'
    BY <1>1 DEF DropPosted, Goto, AfterFailure, queue, Closed, SocketInv, ServerTypes, PostedInv, Phases
<1>9. ChainInv'
    BY <1>1 DEF DropPosted, Goto, AfterFailure, queue, Closed, ChainInv, ServerTypes, PostedInv, Phases
<1>10. QED  BY <1>2, <1>3, <1>4, <1>5, <1>6, <1>7, <1>8, <1>9

(* A quit packet goes back to the end of the port. *)
LEMMA WorkerQuitsKeeps ==
    ASSUME ServerConstants, ServerInv, NEW w \in Workers, WorkerQuits(w)
    PROVE  ServerInv'
<1> USE DEF ServerConstants, ServerInv, Threads
<1>1. FlagTypes'
    BY Zenon DEF WorkerQuits, server, kernel, FlagTypes
<1>2. ServerTypes'
    BY DEF WorkerQuits, Goto, server, kernel, ServerTypes, Phases, Places
<1>3. PostedInv'
    BY DEF WorkerQuits, Goto, server, kernel, PostedInv, ServerTypes
<1>4. PortInv'
    BY DEF WorkerQuits, Goto, server, kernel, PortInv, ServerTypes
<1>5. HandledInv'
    BY DEF WorkerQuits, Goto, server, kernel, HandledInv, ServerTypes
<1>6. MainInv'
    BY DEF WorkerQuits, Goto, server, kernel, MainInv, ServerTypes
<1>7. SocketInv'
    BY DEF WorkerQuits, Goto, server, kernel, SocketInv, ServerTypes, Phases
<1>8. ChainInv'
    BY DEF WorkerQuits, Goto, server, kernel, ChainInv, ServerTypes
<1>9. QED  BY <1>1, <1>2, <1>3, <1>4, <1>5, <1>6, <1>7, <1>8

(* The session at the head of the port was there once: one worker has it. *)
LEMMA WorkerTakesKeeps ==
    ASSUME ServerConstants, ServerInv, NEW w \in Workers, WorkerTakes(w)
    PROVE  ServerInv'
<1> USE DEF ServerConstants, ServerInv, Threads
<1>1. FlagTypes'
    BY Zenon DEF WorkerTakes, server, FlagTypes
<1>2. ServerTypes'
    BY DEF WorkerTakes, Goto, server, ServerTypes, Phases, Places, PortInv
<1>3. PostedInv'
    BY DEF WorkerTakes, Goto, server, PostedInv, ServerTypes, PortInv
<1>4. PortInv'
    BY DEF WorkerTakes, Goto, server, PortInv, ServerTypes
<1>5. HandledInv'
    BY DEF WorkerTakes, Goto, server, HandledInv, ServerTypes, PortInv
<1>6. MainInv'
    BY DEF WorkerTakes, Goto, server, MainInv, ServerTypes, PortInv
<1>7. SocketInv'
    BY DEF WorkerTakes, Goto, server, SocketInv, ServerTypes, PortInv, Phases
<1>8. ChainInv'
    BY DEF WorkerTakes, Goto, server, ChainInv, ServerTypes, PortInv
<1>9. QED  BY <1>1, <1>2, <1>3, <1>4, <1>5, <1>6, <1>7, <1>8

(* A connected session stays with its worker until the next accept is out. *)
LEMMA ConnectedKeeps ==
    ASSUME ServerConstants, ServerInv, NEW w \in Workers, Connected(w)
    PROVE  ServerInv'
<1> USE DEF ServerConstants, ServerInv, Threads
<1>1. FlagTypes'
    BY Zenon DEF Connected, server, FlagTypes
<1>2. ServerTypes'
    BY DEF Connected, Goto, server, ServerTypes, Phases, Places, HandledInv
<1>3. PostedInv'
    BY DEF Connected, Goto, server, PostedInv, ServerTypes, HandledInv
<1>4. PortInv'
    BY DEF Connected, Goto, server, PortInv, ServerTypes, HandledInv
<1>5. HandledInv'
    BY DEF Connected, Goto, server, HandledInv, ServerTypes
<1>6. MainInv'
    BY DEF Connected, Goto, server, MainInv, ServerTypes, HandledInv
<1>7. SocketInv'
    BY DEF Connected, Goto, server, SocketInv, ServerTypes, HandledInv, Phases
<1>8. ChainInv'
    BY DEF Connected, Goto, server, ChainInv, ServerTypes, HandledInv
<1>9. QED  BY <1>1, <1>2, <1>3, <1>4, <1>5, <1>6, <1>7, <1>8

(* A failed handshake closes the socket and posts the next accept. *)
LEMMA HandshakeFailsKeeps ==
    ASSUME ServerConstants, ServerInv, NEW w \in Workers, HandshakeFails(w)
    PROVE  ServerInv'
<1> USE DEF ServerConstants, ServerInv, Threads
<1>1. Closed({sock[cur[w]]}, {})
    BY CloseEffect DEF HandshakeFails
<1>2. FlagTypes'
    BY Zenon DEF HandshakeFails, server, FlagTypes
<1>3. ServerTypes'
    BY <1>1 DEF HandshakeFails, Goto, server, Closed, ServerTypes, Phases, Places
<1>4. PostedInv'
    BY <1>1 DEF HandshakeFails, Goto, server, Closed, PostedInv, ServerTypes
<1>5. PortInv'
    BY <1>1 DEF HandshakeFails, Goto, server, Closed, PortInv, ServerTypes
<1>6. HandledInv'
    BY <1>1 DEF HandshakeFails, Goto, server, Closed, HandledInv, ServerTypes
<1>7. MainInv'
    BY <1>1 DEF HandshakeFails, Goto, server, Closed, MainInv, ServerTypes
<1>8. SocketInv'
    BY <1>1 DEF HandshakeFails, Goto, server, Closed, SocketInv, ServerTypes, Phases
<1>9. ChainInv'
    BY <1>1 DEF HandshakeFails, Goto, server, Closed, ChainInv, ServerTypes
<1>10. QED  BY <1>2, <1>3, <1>4, <1>5, <1>6, <1>7, <1>8, <1>9

(* Only the session of this worker is destroyed, if it did not connect. *)
LEMMA ReleaseOverlappedKeeps ==
    ASSUME ServerConstants, ServerInv, NEW w \in Workers, ReleaseOverlapped(w)
    PROVE  ServerInv'
<1> USE DEF ServerConstants, ServerInv, Threads
<1>1. Closed({}, (IF phase[cur[w]] = "handled" THEN {cur[w]} ELSE {}))
    BY CloseEffect DEF ReleaseOverlapped, HandledInv
<1>2. FlagTypes'
    BY Zenon DEF ReleaseOverlapped, server, queue, FlagTypes
<1>3. ServerTypes'
    BY <1>1 DEF ReleaseOverlapped, Goto, server, queue, Closed, ServerTypes, Phases, Places, HandledInv
<1>4. PostedInv'
    BY <1>1 DEF ReleaseOverlapped, Goto, server, queue, Closed, PostedInv, ServerTypes, HandledInv
<1>5. PortInv'
    BY <1>1 DEF ReleaseOverlapped, Goto, server, queue, Closed, PortInv, ServerTypes, HandledInv
<1>6. HandledInv'
    BY <1>1 DEF ReleaseOverlapped, Goto, server, queue, Closed, HandledInv, ServerTypes
<1>7. MainInv'
    BY <1>1 DEF ReleaseOverlapped, Goto, server, queue, Closed, MainInv, ServerTypes, HandledInv
<1>8. SocketInv'
    BY <1>1 DEF ReleaseOverlapped, Goto, server, queue, Closed, SocketInv, ServerTypes, HandledInv, Phases
<1>9. ChainInv'
    BY <1>1 DEF ReleaseOverlapped, Goto, server, queue, Closed, ChainInv, ServerTypes, HandledInv
<1>10. QED  BY <1>2, <1>3, <1>4, <1>5, <1>6, <1>7, <1>8, <1>9

(* The kernel queues a pending session once. *)
LEMMA ClientConnectsKeeps ==
    ASSUME ServerConstants, ServerInv, NEW s \in Sessions, ClientConnects(s)
    PROVE  ServerInv'
<1> USE DEF ServerConstants, ServerInv, Threads
<1>1. FlagTypes'
    BY Zenon DEF ClientConnects, server, threads, FlagTypes
<1>2. ServerTypes'
    BY DEF ClientConnects, server, threads, ServerTypes, Phases, Places
<1>3. PostedInv'
    BY DEF ClientConnects, server, threads, PostedInv, ServerTypes
<1>4. PortInv'
    BY DEF ClientConnects, server, threads, PortInv, ServerTypes
<1>5. HandledInv'
    BY DEF ClientConnects, server, threads, HandledInv, ServerTypes
<1>6. MainInv'
    BY DEF ClientConnects, server, threads, MainInv, ServerTypes
<1>7. SocketInv'
    BY DEF ClientConnects, server, threads, SocketInv, ServerTypes, Phases
<1>8. ChainInv'
    BY DEF ClientConnects, server, threads, ChainInv, ServerTypes
<1>9. QED  BY <1>1, <1>2, <1>3, <1>4, <1>5, <1>6, <1>7, <1>8

(* The kernel queues an aborted session once. *)
LEMMA AcceptAbortsKeeps ==
    ASSUME ServerConstants, ServerInv, NEW s \in Sessions, AcceptAborts(s)
    PROVE  ServerInv'
<1> USE DEF ServerConstants, ServerInv, Threads
<1>1. FlagTypes'
    BY Zenon DEF AcceptAborts, server, threads, FlagTypes
<1>2. ServerTypes'
    BY DEF AcceptAborts, server, threads, ServerTypes, Phases, Places
<1>3. PostedInv'
    BY DEF AcceptAborts, server, threads, PostedInv, ServerTypes
<1>4. PortInv'
    BY DEF AcceptAborts, server, threads, PortInv, ServerTypes
<1>5. HandledInv'
    BY DEF AcceptAborts, server, threads, HandledInv, ServerTypes
<1>6. MainInv'
    BY DEF AcceptAborts, server, threads, MainInv, ServerTypes
<1>7. SocketInv'
    BY DEF AcceptAborts, server, threads, SocketInv, ServerTypes, Phases
<1>8. ChainInv'
    BY DEF AcceptAborts, server, threads, ChainInv, ServerTypes
<1>9. QED  BY <1>1, <1>2, <1>3, <1>4, <1>5, <1>6, <1>7, <1>8

(* A session that ends is with no worker and in no queue. *)
LEMMA SessionEndsKeeps ==
    ASSUME ServerConstants, ServerInv, NEW s \in Sessions, SessionEnds(s)
    PROVE  ServerInv'
<1> USE DEF ServerConstants, ServerInv, Threads
<1>1. Closed({}, {s})
    BY CloseEffect DEF SessionEnds
<1>2. FlagTypes'
    BY Zenon DEF SessionEnds, server, queue, threads, FlagTypes
<1>3. ServerTypes'
    BY <1>1 DEF SessionEnds, server, queue, threads, Closed, ServerTypes, Phases, Places
<1>4. PostedInv'
    BY <1>1 DEF SessionEnds, server, queue, threads, Closed, PostedInv, ServerTypes
<1>5. PortInv'
    BY <1>1 DEF SessionEnds, server, queue, threads, Closed, PortInv, ServerTypes
<1>6. HandledInv'
    BY <1>1 DEF SessionEnds, server, queue, threads, Closed, HandledInv, ServerTypes
<1>7. MainInv'
    BY <1>1 DEF SessionEnds, server, queue, threads, Closed, MainInv, ServerTypes
<1>8. SocketInv'
    BY <1>1 DEF SessionEnds, server, queue, threads, Closed, SocketInv, ServerTypes, Phases
<1>9. ChainInv'
    BY <1>1 DEF SessionEnds, server, queue, threads, Closed, ChainInv, ServerTypes
<1>10. QED  BY <1>2, <1>3, <1>4, <1>5, <1>6, <1>7, <1>8, <1>9

(* Every step of every thread and of the kernel keeps the invariant.       *)
LEMMA ServerPreserves ==
    ASSUME ServerConstants, ServerInv, [Next]_vars
    PROVE  ServerInv'
<1>1. CASE UNCHANGED vars
  <2> USE <1>1 DEF vars, server, kernel, queue, threads
  <2>1. FlagTypes' /\ ServerTypes'
      BY DEF ServerInv, FlagTypes, ServerTypes, Threads
  <2>2. PostedInv' /\ PortInv' /\ HandledInv'
      BY DEF ServerInv, PostedInv, PortInv, HandledInv, Threads
  <2>3. MainInv' /\ SocketInv' /\ ChainInv'
      BY DEF ServerInv, MainInv, SocketInv, ChainInv
  <2>4. QED  BY <2>1, <2>2, <2>3 DEF ServerInv
<1>2. ASSUME NEW t \in Threads, PostStep(t) PROVE ServerInv'
    BY <1>2, CreateAcceptSocketKeeps, CreateAcceptSocketFailsKeeps, AcceptExKeeps,
       AcceptExFailsKeeps, DropPostedKeeps
    DEF PostStep
<1>3. ASSUME NEW w \in Workers, WorkerStep(w) PROVE ServerInv'
    BY <1>3, WorkerQuitsKeeps, WorkerTakesKeeps, ConnectedKeeps,
       HandshakeFailsKeeps, ReleaseOverlappedKeeps
    DEF WorkerStep
<1>4. ASSUME NEW s \in Sessions, ClientConnects(s) \/ AcceptAborts(s) \/ SessionEnds(s)
      PROVE  ServerInv'
    BY <1>4, ClientConnectsKeeps, AcceptAbortsKeeps, SessionEndsKeeps
<1>5. CASE StartServer \/ StopServer \/ Shutdown \/ MainStep
    BY <1>5, StartServerKeeps, StopServerKeeps, ShutdownKeeps,
       CreateListenSocketKeeps, CreateListenSocketFailsKeeps, ListenKeeps,
       ListenFailsKeeps, StartFailsKeeps, StopGameThreadsKeeps,
       CloseListenSocketKeeps, ForgetListenSocketKeeps, JoinWorkersKeeps
    DEF MainStep
<1>6. QED  BY <1>1, <1>2, <1>3, <1>4, <1>5 DEF Next

LEMMA ServerTyped == ServerInv => TypeOK
<1> SUFFICES ASSUME ServerInv PROVE TypeOK
    OBVIOUS
<1>1. {running, gameThreads, broken, shutdown} \subseteq BOOLEAN
    BY Zenon DEF ServerInv, FlagTypes
<1>2. QED  BY <1>1 DEF ServerInv, ServerTypes, Phases, TypeOK

(* The values of Server's members and of its threads' locals have their    *)
(* types at all times (Server.h, IOCPManager.h).                           *)
THEOREM ServerTypesOK ==
    ASSUME ServerConstants
    PROVE  Spec => []TypeOK
<1>1. Init => ServerInv
    BY ServerInit
<1>2. ServerInv /\ [Next]_vars => ServerInv'
    BY ServerPreserves
<1>3. ServerInv => TypeOK
    BY ServerTyped
<1>4. QED  BY <1>1, <1>2, <1>3, PTL DEF Spec

LEMMA ServerSeen == ServerInv => ServerAccepts
<1>1. ServerInv => AcceptChainAlive
    BY DEF ServerInv, ChainInv, HandledInv, AcceptChainAlive, Accepting
<1>2. ServerInv => SocketsAccounted
    BY DEF ServerInv, SocketInv, SocketsAccounted
<1>3. QED  BY <1>1, <1>2 DEF ServerAccepts

(* A running server whose AcceptEx calls could all be posted has one on    *)
(* its way or a worker about to post one, whatever handshakes fail and     *)
(* however often it is stopped and started (HandleAcceptComplete); and no  *)
(* socket handle is lost: an open one is the listen socket of a server     *)
(* that runs or is about to, or a session will close it (StartServer's     *)
(* ladder of failures, PostAcceptEx, ~Session).                            *)
THEOREM ServerKeepsAccepting ==
    ASSUME ServerConstants
    PROVE  Spec => []ServerAccepts
<1>1. Init => ServerInv
    BY ServerInit
<1>2. ServerInv /\ [Next]_vars => ServerInv'
    BY ServerPreserves
<1>3. ServerInv => ServerAccepts
    BY ServerSeen
<1>4. QED  BY <1>1, <1>2, <1>3, PTL DEF Spec

-----------------------------------------------------------------------------
(***************************************************************************)
(* Logger.                                                                 *)
(***************************************************************************)

(* The slot of the ring that an index stands for.                          *)
Cell(k) == k % Slots

Texts == Nat \union {NoMsg}

LogTypes ==
    /\ writeIndex \in Nat /\ readIndex \in Nat /\ done \in Nat /\ logCalls \in Nat
    /\ text \in [Log!Ring -> Texts] /\ valid \in [Log!Ring -> BOOLEAN]
    /\ logPc \in [Callers -> {"idle", "loadWrite", "loadRead", "cas", "fill", "publish"}]
    /\ slot \in [Callers -> Nat] /\ msg \in [Callers -> Texts]
    /\ lpc \in {"check", "poll", "clear", "advance", "exited"}
    /\ accepted \in Seq(Texts) /\ written \in Seq(Texts)

(* The ring never holds more than Slots - 1 messages: a caller about to    *)
(* claim an index that is still the next one has seen room for it.         *)
RoomInv ==
    /\ readIndex <= writeIndex /\ writeIndex + 1 <= readIndex + Slots
    /\ Len(accepted) = writeIndex
    /\ \A t \in Callers :
          /\ logPc[t] \in {"loadRead", "cas"} => slot[t] <= writeIndex
          /\ logPc[t] = "cas" /\ slot[t] = writeIndex => slot[t] + 2 <= readIndex + Slots

Filling(t) == logPc[t] \in {"fill", "publish"}

(* A caller fills a slot that is its own, not yet read and not yet valid.  *)
FillInv ==
    /\ \A t \in Callers : Filling(t) =>
          /\ readIndex <= slot[t] /\ slot[t] < writeIndex
          /\ accepted[slot[t] + 1] = msg[t]
          /\ ~valid[Cell(slot[t])]
          /\ logPc[t] = "publish" => text[Cell(slot[t])] = msg[t]
    /\ \A t, u \in Callers : Filling(t) /\ Filling(u) /\ slot[t] = slot[u] => t = u

(* A valid slot holds an accepted message that is not yet read.            *)
ValidInv ==
    \A i \in Log!Ring : valid[i] =>
        \E k \in Nat : /\ readIndex <= k /\ k < writeIndex /\ Cell(k) = i
                       /\ text[i] = accepted[k + 1]

(* The logger thread is alone with the slot it reads, and the file is open *)
(* while it runs.                                                          *)
ThreadInv ==
    /\ lpc # "exited" => fileOpen = TRUE
    /\ lpc = "clear" => valid[Cell(readIndex)]
    /\ lpc = "advance" => /\ readIndex < writeIndex /\ ~valid[Cell(readIndex)]
                          /\ \A t \in Callers : Filling(t) => slot[t] # readIndex

(* How many messages the file has, and that they are the first accepted.   *)
InFile == IF lpc \in {"clear", "advance"} THEN readIndex + 1 ELSE readIndex

WrittenInv ==
    /\ InFile <= writeIndex /\ Len(written) = InFile
    /\ \A i \in 1..InFile : written[i] = accepted[i]

LogInv == LogTypes /\ RoomInv /\ FillInv /\ ValidInv /\ ThreadInv /\ WrittenInv

(* Facts about division that the provers need one by one.                  *)
LEMMA DivMod ==
    ASSUME NEW n \in Nat \ {0}, NEW a \in Nat
    PROVE  (a \div n) \in Nat /\ (a % n) \in 0..(n - 1) /\ a = n * (a \div n) + (a % n)
OBVIOUS

LEMMA MultStep ==
    ASSUME NEW n \in Nat \ {0}, NEW p \in Nat, NEW q \in Nat, p < q
    PROVE  n * q >= n * p + n
OBVIOUS

(* A number has one quotient and one remainder.                            *)
LEMMA DivUnique ==
    ASSUME NEW n \in Nat \ {0}, NEW p \in Nat, NEW q \in Nat, NEW r \in 0..(n - 1), NEW s \in 0..(n - 1),
           n * p + r = n * q + s
    PROVE  p = q /\ r = s
<1>1. PICK x \in Nat, y \in Nat : x = n * p /\ y = n * q
    OBVIOUS
<1>2. CASE p < q
  <2>1. y >= x + n
      BY <1>1, <1>2, MultStep
  <2>2. QED  BY <1>1, <2>1
<1>3. CASE q < p
  <2>1. x >= y + n
      BY <1>1, <1>3, MultStep
  <2>2. QED  BY <1>1, <2>1
<1>4. QED  BY <1>1, <1>2, <1>3

(* An index has a slot.                                                    *)
LEMMA CellRange ==
    ASSUME Slots \in Nat \ {0}, NEW k \in Nat
    PROVE  Cell(k) \in Log!Ring
BY DivMod DEF Cell, Log!Ring

(* Of Slots consecutive indices no two share a slot.                       *)
LEMMA CellUnique ==
    ASSUME Slots \in Nat \ {0}, NEW a \in Nat, NEW b \in Nat, Cell(a) = Cell(b), a <= b, b < a + Slots
    PROVE  a = b
<1>1. PICK p \in Nat, q \in Nat, r \in 0..(Slots - 1) :
          r = a % Slots /\ r = b % Slots /\ a = Slots * p + r /\ b = Slots * q + r
    BY DivMod DEF Cell
<1>2. PICK x \in Nat, y \in Nat : x = Slots * p /\ y = Slots * q
    OBVIOUS
<1>3. CASE p < q
  <2>1. y >= x + Slots
      BY <1>2, <1>3, MultStep
  <2>2. QED  BY <1>1, <1>2, <2>1
<1>4. CASE q < p
  <2>1. x >= y + Slots
      BY <1>2, <1>4, MultStep
  <2>2. QED  BY <1>1, <1>2, <2>1
<1>5. QED  BY <1>1, <1>2, <1>3, <1>4

(* Slots further on, the same slot comes again.                            *)
LEMMA CellAgain ==
    ASSUME Slots \in Nat \ {0}, NEW a \in Nat
    PROVE  Cell(a + Slots) = Cell(a)
<1>1. PICK p \in Nat, r \in 0..(Slots - 1) : r = a % Slots /\ a = Slots * p + r
    BY DivMod
<1>2. PICK b \in Nat : b = a + Slots
    OBVIOUS
<1>3. PICK q \in Nat, s \in 0..(Slots - 1) : s = b % Slots /\ b = Slots * q + s
    BY DivMod
<1>4. Slots * (p + 1) = Slots * p + Slots
    OBVIOUS
<1>5. Slots * (p + 1) + r = Slots * q + s
  <2>1. PICK x \in Nat, y \in Nat : x = Slots * p /\ y = Slots * q
      OBVIOUS
  <2>2. QED  BY <1>1, <1>2, <1>3, <1>4, <2>1
<1>6. r = s
    BY <1>5, DivUnique
<1>7. QED  BY <1>1, <1>2, <1>3, <1>6 DEF Cell

(* The state Initialize leaves satisfies the invariant.                    *)
LEMMA LogInit ==
    ASSUME Slots \in Nat \ {0}, Log!Init
    PROVE  LogInv
<1>1. LogTypes
  <2>1. valid \in [Log!Ring -> BOOLEAN]
      BY Zenon DEF Log!Init
  <2>2. QED  BY <2>1 DEF Log!Init, LogTypes, Texts
<1>2. RoomInv /\ FillInv
    BY DEF Log!Init, RoomInv, FillInv, Filling
<1>3. ValidInv /\ ThreadInv /\ WrittenInv
    BY DEF Log!Init, ValidInv, ThreadInv, WrittenInv, InFile, Filling
<1>4. QED  BY <1>1, <1>2, <1>3 DEF LogInv

(* A call of Log has no slot yet. *)
LEMMA LogLogKeeps ==
    ASSUME Slots \in Nat \ {0}, LogInv, NEW t \in Callers, Log!Log(t)
    PROVE  LogInv'
<1> USE DEF LogInv
<1>1. LogTypes'
    BY DEF Log!Log, Log!ringVars, Log!threadVars, Log!stopVars, LogTypes, Texts
<1>2. RoomInv'
    BY DEF Log!Log, Log!ringVars, Log!threadVars, Log!stopVars, LogTypes, RoomInv
<1>3. FillInv'
    BY DEF Log!Log, Log!ringVars, Log!threadVars, Log!stopVars, LogTypes, FillInv, Filling
<1>4. ValidInv'
    BY DEF Log!Log, Log!ringVars, Log!threadVars, Log!stopVars, LogTypes, ValidInv
<1>5. ThreadInv'
    BY DEF Log!Log, Log!ringVars, Log!threadVars, Log!stopVars, LogTypes, ThreadInv, Filling
<1>6. WrittenInv'
    BY DEF Log!Log, Log!ringVars, Log!threadVars, Log!stopVars, LogTypes, WrittenInv, InFile
<1>7. QED  BY <1>1, <1>2, <1>3, <1>4, <1>5, <1>6

(* A fresh writeIndex is no larger than writeIndex. *)
LEMMA LogLoadWriteKeeps ==
    ASSUME Slots \in Nat \ {0}, LogInv, NEW t \in Callers, Log!LoadWrite(t)
    PROVE  LogInv'
<1> USE DEF LogInv
<1>1. LogTypes'
    BY DEF Log!LoadWrite, Log!ringVars, Log!threadVars, Log!stopVars, LogTypes, Texts
<1>2. RoomInv'
    BY DEF Log!LoadWrite, Log!ringVars, Log!threadVars, Log!stopVars, LogTypes, RoomInv
<1>3. FillInv'
    BY DEF Log!LoadWrite, Log!ringVars, Log!threadVars, Log!stopVars, LogTypes, FillInv, Filling
<1>4. ValidInv'
    BY DEF Log!LoadWrite, Log!ringVars, Log!threadVars, Log!stopVars, LogTypes, ValidInv
<1>5. ThreadInv'
    BY DEF Log!LoadWrite, Log!ringVars, Log!threadVars, Log!stopVars, LogTypes, ThreadInv, Filling
<1>6. WrittenInv'
    BY DEF Log!LoadWrite, Log!ringVars, Log!threadVars, Log!stopVars, LogTypes, WrittenInv, InFile
<1>7. QED  BY <1>1, <1>2, <1>3, <1>4, <1>5, <1>6

(* Room seen with the two indices read one after the other is room: the ring
   is full exactly when writeIndex + 1 is Slots ahead of readIndex. *)
LEMMA LogLoadReadKeeps ==
    ASSUME Slots \in Nat \ {0}, LogInv, NEW t \in Callers, Log!LoadRead(t)
    PROVE  LogInv'
<1> USE DEF LogInv
<1>1. LogTypes'
    BY DEF Log!LoadRead, Log!ringVars, Log!threadVars, Log!stopVars, LogTypes, Texts
<1>2. RoomInv'
  <2>1. ASSUME logPc'[t] = "cas", slot[t] = writeIndex PROVE slot[t] + 2 <= readIndex + Slots
    <3>1. Cell(slot[t] + 1) # Cell(readIndex)
        BY <2>1 DEF Log!LoadRead, Log!Full, LogTypes, Cell
    <3>2. CASE slot[t] + 1 = readIndex + Slots
        BY <3>1, <3>2, CellAgain DEF LogTypes
    <3>3. QED  BY <2>1, <3>2 DEF LogTypes, RoomInv
  <2>2. UNCHANGED <<writeIndex, readIndex, slot, accepted>>
        /\ logPc' = [logPc EXCEPT ![t] = logPc'[t]] /\ logPc[t] = "loadRead"
      BY DEF Log!LoadRead, Log!ringVars, LogTypes
  <2>3. QED  BY <2>1, <2>2 DEF LogTypes, RoomInv
<1>3. FillInv'
    BY DEF Log!LoadRead, Log!ringVars, Log!threadVars, Log!stopVars, LogTypes, FillInv, Filling
<1>4. ValidInv'
    BY DEF Log!LoadRead, Log!ringVars, Log!threadVars, Log!stopVars, LogTypes, ValidInv
<1>5. ThreadInv'
    BY DEF Log!LoadRead, Log!ringVars, Log!threadVars, Log!stopVars, LogTypes, ThreadInv, Filling
<1>6. WrittenInv'
    BY DEF Log!LoadRead, Log!ringVars, Log!threadVars, Log!stopVars, LogTypes, WrittenInv, InFile
<1>7. QED  BY <1>1, <1>2, <1>3, <1>4, <1>5, <1>6

(* The slot claimed is in nobody's hands and not valid. *)
LEMMA LogClaimKeeps ==
    ASSUME Slots \in Nat \ {0}, LogInv, NEW t \in Callers, Log!Claim(t)
    PROVE  LogInv'
<1> USE DEF LogInv
<1>0. /\ logPc[t] = "cas"
      /\ UNCHANGED <<readIndex, text, valid, slot, msg, logCalls, lpc, done, written, fileOpen>>
    BY DEF Log!Claim, Log!threadVars, Log!stopVars
<1>1. CASE /\ logPc' = [logPc EXCEPT ![t] = "loadWrite"]
           /\ UNCHANGED <<writeIndex, accepted>>
  <2> USE <1>0, <1>1
  <2>1. LogTypes' /\ RoomInv' /\ FillInv'
      BY DEF LogTypes, RoomInv, FillInv, Filling
  <2>2. ValidInv' /\ ThreadInv' /\ WrittenInv'
      BY DEF LogTypes, ValidInv, ThreadInv, WrittenInv, InFile, Filling
  <2>3. QED  BY <2>1, <2>2
<1>2. CASE /\ writeIndex = slot[t] /\ writeIndex' = writeIndex + 1
           /\ accepted' = Append(accepted, msg[t])
           /\ logPc' = [logPc EXCEPT ![t] = "fill"]
  <2> USE <1>0
  <2>1. /\ accepted' \in Seq(Texts) /\ Len(accepted') = writeIndex + 1
        /\ accepted'[writeIndex + 1] = msg[t]
        /\ \A i \in 1..writeIndex : accepted'[i] = accepted[i]
      BY <1>2 DEF LogTypes, RoomInv
  <2>2. LogTypes'
      BY <1>2, <2>1 DEF LogTypes
  <2>3. RoomInv'
      BY <1>2, <2>1 DEF LogTypes, RoomInv
  <2>4. ~valid[Cell(writeIndex)]
    <3>1. SUFFICES ASSUME valid[Cell(writeIndex)] PROVE FALSE
        OBVIOUS
    <3>2. Cell(writeIndex) \in Log!Ring
        BY CellRange DEF LogTypes
    <3>3. PICK k \in Nat : readIndex <= k /\ k < writeIndex /\ Cell(k) = Cell(writeIndex)
        BY <3>1, <3>2 DEF ValidInv
    <3>4. writeIndex < k + Slots
        BY <3>3 DEF LogTypes, RoomInv
    <3>5. k = writeIndex
        BY <3>3, <3>4, CellUnique DEF LogTypes
    <3>6. QED  BY <3>3, <3>5 DEF LogTypes
  <2>5. FillInv'
      BY <1>2, <2>1, <2>4 DEF LogTypes, RoomInv, FillInv, Filling
  <2>6. ValidInv'
    <3>1. SUFFICES ASSUME NEW i \in Log!Ring, valid[i]
                   PROVE  \E k \in Nat : /\ readIndex <= k /\ k < writeIndex' /\ Cell(k) = i
                                        /\ text[i] = accepted'[k + 1]
        BY DEF ValidInv
    <3>2. PICK k \in Nat : /\ readIndex <= k /\ k < writeIndex /\ Cell(k) = i
                           /\ text[i] = accepted[k + 1]
        BY <3>1 DEF ValidInv
    <3>3. k < writeIndex' /\ k + 1 \in 1..writeIndex
        BY <1>2, <3>2 DEF LogTypes
    <3>4. accepted'[k + 1] = accepted[k + 1]
        BY <2>1, <3>3
    <3>5. QED  BY <3>2, <3>3, <3>4
  <2>7. ThreadInv'
      BY <1>2 DEF LogTypes, RoomInv, ThreadInv, Filling
  <2>8. WrittenInv'
      BY <1>2, <2>1 DEF LogTypes, WrittenInv, InFile
  <2>9. QED  BY <2>2, <2>3, <2>5, <2>6, <2>7, <2>8
<1>3. QED  BY <1>1, <1>2 DEF Log!Claim

(* Filling a slot that is not valid disturbs nobody else's. *)
LEMMA LogFillKeeps ==
    ASSUME Slots \in Nat \ {0}, LogInv, NEW t \in Callers, Log!Fill(t)
    PROVE  LogInv'
<1> USE DEF LogInv
<1>1. /\ logPc[t] = "fill" /\ logPc' = [logPc EXCEPT ![t] = "publish"]
      /\ text' = [text EXCEPT ![Cell(slot[t])] = msg[t]]
      /\ UNCHANGED <<writeIndex, readIndex, valid, slot, msg, logCalls, accepted, lpc, done, written, fileOpen>>
    BY DEF Log!Fill, Log!threadVars, Log!stopVars, Cell
<1>2. Cell(slot[t]) \in Log!Ring /\ ~valid[Cell(slot[t])]
    BY <1>1, CellRange DEF LogTypes, FillInv, Filling
<1>3. \A u \in Callers : u # t /\ Filling(u) => Cell(slot[u]) # Cell(slot[t])
  <2>1. SUFFICES ASSUME NEW u \in Callers, u # t, Filling(u), Cell(slot[u]) = Cell(slot[t]) PROVE FALSE
      OBVIOUS
  <2>2. PICK a \in Nat, b \in Nat : a = slot[t] /\ b = slot[u]
      BY DEF LogTypes
  <2>3. /\ readIndex <= a /\ a < writeIndex /\ readIndex <= b /\ b < writeIndex
        /\ a # b
      BY <1>1, <2>1, <2>2 DEF FillInv, Filling
  <2>4. b < a + Slots /\ a < b + Slots
      BY <2>3 DEF LogTypes, RoomInv
  <2>5. a = b
    <3>1. CASE a <= b
        BY <2>1, <2>2, <2>4, <3>1, CellUnique
    <3>2. CASE b <= a
        BY <2>1, <2>2, <2>4, <3>2, CellUnique
    <3>3. QED  BY <3>1, <3>2
  <2>6. QED  BY <2>3, <2>5
<1>4. LogTypes' /\ RoomInv'
    BY <1>1, <1>2 DEF LogTypes, RoomInv
<1>5. FillInv'
  <2>1. \A u \in Callers : Filling(u)' => Filling(u)
      BY <1>1 DEF LogTypes, Filling
  <2>2. \A u \in Callers : logPc'[u] = "publish" => text'[Cell(slot[u])] = msg[u]
    <3>1. SUFFICES ASSUME NEW u \in Callers, logPc'[u] = "publish" PROVE text'[Cell(slot[u])] = msg[u]
        OBVIOUS
    <3>2. Cell(slot[u]) \in Log!Ring
        BY CellRange DEF LogTypes
    <3>3. CASE u = t
        BY <1>1, <1>2, <3>3 DEF LogTypes
    <3>4. CASE u # t
        BY <1>1, <1>3, <3>1, <3>2, <3>4 DEF LogTypes, FillInv, Filling
    <3>5. QED  BY <3>3, <3>4
  <2>3. QED  BY <1>1, <2>1, <2>2 DEF FillInv
<1>6. ValidInv'
    BY <1>1, <1>2 DEF LogTypes, ValidInv
<1>7. ThreadInv' /\ WrittenInv'
    BY <1>1 DEF LogTypes, ThreadInv, WrittenInv, InFile, Filling
<1>8. QED  BY <1>4, <1>5, <1>6, <1>7

(* The message is whole when its slot becomes valid. *)
LEMMA LogPublishKeeps ==
    ASSUME Slots \in Nat \ {0}, LogInv, NEW t \in Callers, Log!Publish(t)
    PROVE  LogInv'
<1> USE DEF LogInv
<1>1. /\ logPc[t] = "publish" /\ logPc' = [logPc EXCEPT ![t] = "idle"]
      /\ valid' = [valid EXCEPT ![Cell(slot[t])] = TRUE]
      /\ slot' = [slot EXCEPT ![t] = 0] /\ msg' = [msg EXCEPT ![t] = NoMsg]
      /\ UNCHANGED <<writeIndex, readIndex, text, logCalls, accepted, lpc, done, written, fileOpen>>
    BY DEF Log!Publish, Log!threadVars, Log!stopVars, Cell
<1>2. /\ Cell(slot[t]) \in Log!Ring /\ slot[t] \in Nat
      /\ readIndex <= slot[t] /\ slot[t] < writeIndex
      /\ text[Cell(slot[t])] = accepted[slot[t] + 1]
    BY <1>1, CellRange DEF LogTypes, FillInv, Filling
<1>3. \A u \in Callers : u # t /\ Filling(u) => Cell(slot[u]) # Cell(slot[t])
  <2>1. SUFFICES ASSUME NEW u \in Callers, u # t, Filling(u), Cell(slot[u]) = Cell(slot[t]) PROVE FALSE
      OBVIOUS
  <2>2. PICK a \in Nat, b \in Nat : a = slot[t] /\ b = slot[u]
      BY DEF LogTypes
  <2>3. /\ readIndex <= a /\ a < writeIndex /\ readIndex <= b /\ b < writeIndex
        /\ a # b
      BY <1>1, <2>1, <2>2 DEF FillInv, Filling
  <2>4. b < a + Slots /\ a < b + Slots
      BY <2>3 DEF LogTypes, RoomInv
  <2>5. a = b
    <3>1. CASE a <= b
        BY <2>1, <2>2, <2>4, <3>1, CellUnique
    <3>2. CASE b <= a
        BY <2>1, <2>2, <2>4, <3>2, CellUnique
    <3>3. QED  BY <3>1, <3>2
  <2>6. QED  BY <2>3, <2>5
<1>4. \A u \in Callers : Filling(u)' => u # t /\ Filling(u) /\ slot'[u] = slot[u] /\ msg'[u] = msg[u]
    BY <1>1 DEF LogTypes, Filling
<1>5. LogTypes'
  <2>1. valid' \in [Log!Ring -> BOOLEAN]
      BY <1>1, <1>2 DEF LogTypes
  <2>2. QED  BY <1>1, <2>1 DEF LogTypes, Texts
<1>6. RoomInv'
    BY <1>1 DEF LogTypes, RoomInv
<1>7. FillInv'
  <2>1. \A u \in Callers : Filling(u)' => ~valid'[Cell(slot'[u])]
    <3>1. SUFFICES ASSUME NEW u \in Callers, Filling(u)' PROVE ~valid'[Cell(slot'[u])]
        OBVIOUS
    <3>2. /\ Cell(slot[u]) \in Log!Ring /\ Cell(slot[u]) # Cell(slot[t])
          /\ ~valid[Cell(slot[u])] /\ slot'[u] = slot[u]
        BY <1>3, <1>4, <3>1, CellRange DEF LogTypes, FillInv
    <3>3. QED  BY <1>1, <3>2 DEF LogTypes
  <2>2. \A u \in Callers : Filling(u)' =>
          /\ readIndex <= slot'[u] /\ slot'[u] < writeIndex /\ accepted[slot'[u] + 1] = msg'[u]
          /\ logPc'[u] = "publish" => text[Cell(slot'[u])] = msg'[u]
      BY <1>1, <1>4 DEF LogTypes, FillInv
  <2>3. \A u, v \in Callers : Filling(u)' /\ Filling(v)' /\ slot'[u] = slot'[v] => u = v
      BY <1>4 DEF FillInv
  <2>4. QED  BY <1>1, <2>1, <2>2, <2>3 DEF FillInv
<1>8. ValidInv'
  <2>1. SUFFICES ASSUME NEW i \in Log!Ring, valid'[i]
                 PROVE  \E k \in Nat : /\ readIndex <= k /\ k < writeIndex /\ Cell(k) = i
                                      /\ text[i] = accepted[k + 1]
      BY <1>1 DEF ValidInv
  <2>2. CASE i = Cell(slot[t])
      BY <1>2, <2>2
  <2>3. CASE i # Cell(slot[t])
      BY <1>1, <2>1, <2>3 DEF LogTypes, ValidInv
  <2>4. QED  BY <2>2, <2>3
<1>9. ThreadInv'
  <2>1. Cell(readIndex) \in Log!Ring
      BY CellRange DEF LogTypes
  <2>2. ASSUME lpc = "advance" PROVE Cell(readIndex) # Cell(slot[t])
    <3>1. readIndex < slot[t] /\ slot[t] < readIndex + Slots
        BY <1>1, <1>2, <2>2 DEF LogTypes, RoomInv, ThreadInv, Filling
    <3>2. QED  BY <3>1, CellUnique DEF LogTypes
  <2>3. lpc = "clear" => valid'[Cell(readIndex)]
      BY <1>1, <1>2, <2>1 DEF LogTypes, ThreadInv
  <2>4. lpc = "advance" => ~valid'[Cell(readIndex)]
      BY <1>1, <1>2, <2>1, <2>2 DEF LogTypes, ThreadInv
  <2>5. QED  BY <1>1, <1>4, <2>3, <2>4 DEF ThreadInv
<1>10. WrittenInv'
    BY <1>1 DEF WrittenInv, InFile
<1>11. QED  BY <1>5, <1>6, <1>7, <1>8, <1>9, <1>10

(* The thread stops between two messages only. *)
LEMMA LogCheckStopKeeps ==
    ASSUME Slots \in Nat \ {0}, LogInv, Log!CheckStop
    PROVE  LogInv'
<1> USE DEF LogInv
<1>1. LogTypes'
    BY DEF Log!CheckStop, Log!ringVars, Log!callerVars, Log!stopVars, LogTypes, Texts
<1>2. RoomInv'
    BY DEF Log!CheckStop, Log!ringVars, Log!callerVars, Log!stopVars, LogTypes, RoomInv
<1>3. FillInv'
    BY DEF Log!CheckStop, Log!ringVars, Log!callerVars, Log!stopVars, LogTypes, FillInv, Filling
<1>4. ValidInv'
    BY DEF Log!CheckStop, Log!ringVars, Log!callerVars, Log!stopVars, LogTypes, ValidInv
<1>5. ThreadInv'
    BY DEF Log!CheckStop, Log!ringVars, Log!callerVars, Log!stopVars, LogTypes, ThreadInv, Filling
<1>6. WrittenInv'
    BY DEF Log!CheckStop, Log!ringVars, Log!callerVars, Log!stopVars, LogTypes, WrittenInv, InFile
<1>7. QED  BY <1>1, <1>2, <1>3, <1>4, <1>5, <1>6

(* The slot at readIndex is valid: it holds the next accepted message. *)
LEMMA LogProcessKeeps ==
    ASSUME Slots \in Nat \ {0}, LogInv, Log!Process
    PROVE  LogInv'
<1> USE DEF LogInv
<1>1. /\ lpc = "poll" /\ valid[Cell(readIndex)] /\ lpc' = "clear"
      /\ written' = IF fileOpen THEN Append(written, text[Cell(readIndex)]) ELSE written
      /\ UNCHANGED <<writeIndex, readIndex, text, valid, logPc, slot, msg, logCalls, accepted, done, fileOpen>>
    BY DEF Log!Process, Log!ringVars, Log!callerVars, Log!stopVars, Cell
<1>2. readIndex < writeIndex /\ text[Cell(readIndex)] = accepted[readIndex + 1]
  <2>1. Cell(readIndex) \in Log!Ring
      BY CellRange DEF LogTypes
  <2>2. PICK k \in Nat : /\ readIndex <= k /\ k < writeIndex /\ Cell(k) = Cell(readIndex)
                         /\ text[Cell(readIndex)] = accepted[k + 1]
      BY <1>1, <2>1 DEF ValidInv
  <2>3. k < readIndex + Slots
      BY <2>2 DEF LogTypes, RoomInv
  <2>4. readIndex = k
      BY <2>2, <2>3, CellUnique DEF LogTypes
  <2>5. QED  BY <2>2, <2>4
<1>3. /\ written' = Append(written, accepted[readIndex + 1])
      /\ accepted[readIndex + 1] \in Texts
    BY <1>1, <1>2 DEF LogTypes, RoomInv, ThreadInv
<1>4. LogTypes'
    BY <1>1, <1>3 DEF LogTypes
<1>5. RoomInv' /\ FillInv'
    BY <1>1 DEF RoomInv, FillInv, Filling
<1>6. ValidInv'
    BY <1>1 DEF ValidInv
<1>7. ThreadInv'
    BY <1>1 DEF ThreadInv
<1>8. WrittenInv'
    BY <1>1, <1>2, <1>3 DEF LogTypes, WrittenInv, InFile
<1>9. QED  BY <1>4, <1>5, <1>6, <1>7, <1>8

(* The slot at readIndex is not valid yet: nothing changes. *)
LEMMA LogSleepKeeps ==
    ASSUME Slots \in Nat \ {0}, LogInv, Log!Sleep
    PROVE  LogInv'
<1> USE DEF LogInv
<1>1. LogTypes'
    BY DEF Log!Sleep, Log!ringVars, Log!callerVars, Log!stopVars, LogTypes, Texts
<1>2. RoomInv'
    BY DEF Log!Sleep, Log!ringVars, Log!callerVars, Log!stopVars, LogTypes, RoomInv
<1>3. FillInv'
    BY DEF Log!Sleep, Log!ringVars, Log!callerVars, Log!stopVars, LogTypes, FillInv, Filling
<1>4. ValidInv'
    BY DEF Log!Sleep, Log!ringVars, Log!callerVars, Log!stopVars, LogTypes, ValidInv
<1>5. ThreadInv'
    BY DEF Log!Sleep, Log!ringVars, Log!callerVars, Log!stopVars, LogTypes, ThreadInv, Filling
<1>6. WrittenInv'
    BY DEF Log!Sleep, Log!ringVars, Log!callerVars, Log!stopVars, LogTypes, WrittenInv, InFile
<1>7. QED  BY <1>1, <1>2, <1>3, <1>4, <1>5, <1>6

(* No caller fills the slot that is cleared. *)
LEMMA LogClearKeeps ==
    ASSUME Slots \in Nat \ {0}, LogInv, Log!Clear
    PROVE  LogInv'
<1> USE DEF LogInv
<1>1. /\ lpc = "clear" /\ lpc' = "advance"
      /\ valid' = [valid EXCEPT ![Cell(readIndex)] = FALSE]
      /\ UNCHANGED <<writeIndex, readIndex, text, logPc, slot, msg, logCalls, accepted, done, written, fileOpen>>
    BY DEF Log!Clear, Log!callerVars, Log!stopVars, Cell
<1>2. Cell(readIndex) \in Log!Ring /\ valid[Cell(readIndex)]
    BY <1>1, CellRange DEF LogTypes, ThreadInv
<1>3. \A t \in Callers : Filling(t) => slot[t] # readIndex /\ Cell(slot[t]) \in Log!Ring
    BY <1>2, CellRange DEF LogTypes, FillInv
<1>4. LogTypes' /\ RoomInv'
    BY <1>1, <1>2 DEF LogTypes, RoomInv
<1>5. FillInv'
    BY <1>1, <1>2, <1>3 DEF LogTypes, FillInv, Filling
<1>6. ValidInv'
    BY <1>1, <1>2 DEF LogTypes, ValidInv
<1>7. ThreadInv'
  <2>1. ~valid'[Cell(readIndex)]
      BY <1>1, <1>2 DEF LogTypes
  <2>2. readIndex < writeIndex
      BY <1>1 DEF LogTypes, WrittenInv, InFile
  <2>3. QED  BY <1>1, <1>3, <2>1, <2>2 DEF ThreadInv, Filling
<1>8. WrittenInv'
    BY <1>1 DEF WrittenInv, InFile
<1>9. QED  BY <1>4, <1>5, <1>6, <1>7, <1>8

(* The slot that is freed is neither valid nor being filled. *)
LEMMA LogAdvanceKeeps ==
    ASSUME Slots \in Nat \ {0}, LogInv, Log!Advance
    PROVE  LogInv'
<1> USE DEF LogInv
<1>1. /\ lpc = "advance" /\ lpc' \in {"poll", "check"}
      /\ readIndex' = readIndex + 1 /\ done' = done + 1
      /\ UNCHANGED <<writeIndex, text, valid, logPc, slot, msg, logCalls, accepted, written, fileOpen>>
    BY DEF Log!Advance, Log!callerVars, Log!stopVars
<1>2. /\ readIndex < writeIndex /\ ~valid[Cell(readIndex)]
      /\ \A t \in Callers : Filling(t) => slot[t] # readIndex
    BY <1>1 DEF ThreadInv
<1>3. LogTypes' /\ RoomInv'
    BY <1>1, <1>2 DEF LogTypes, RoomInv
<1>4. FillInv'
    BY <1>1, <1>2 DEF LogTypes, FillInv, Filling
<1>5. ValidInv'
    BY <1>1, <1>2 DEF LogTypes, ValidInv
<1>6. ThreadInv' /\ WrittenInv'
    BY <1>1 DEF LogTypes, ThreadInv, WrittenInv, InFile
<1>7. QED  BY <1>3, <1>4, <1>5, <1>6

(* Shutdown stops no caller. *)
LEMMA LogShutdownKeeps ==
    ASSUME Slots \in Nat \ {0}, LogInv, Log!Shutdown
    PROVE  LogInv'
<1> USE DEF LogInv
<1>1. LogTypes'
    BY DEF Log!Shutdown, Log!ringVars, Log!callerVars, Log!threadVars, LogTypes, Texts
<1>2. RoomInv'
    BY DEF Log!Shutdown, Log!ringVars, Log!callerVars, Log!threadVars, LogTypes, RoomInv
<1>3. FillInv'
    BY DEF Log!Shutdown, Log!ringVars, Log!callerVars, Log!threadVars, LogTypes, FillInv, Filling
<1>4. ValidInv'
    BY DEF Log!Shutdown, Log!ringVars, Log!callerVars, Log!threadVars, LogTypes, ValidInv
<1>5. ThreadInv'
    BY DEF Log!Shutdown, Log!ringVars, Log!callerVars, Log!threadVars, LogTypes, ThreadInv, Filling
<1>6. WrittenInv'
    BY DEF Log!Shutdown, Log!ringVars, Log!callerVars, Log!threadVars, LogTypes, WrittenInv, InFile
<1>7. QED  BY <1>1, <1>2, <1>3, <1>4, <1>5, <1>6

(* The file is closed when the thread is gone. *)
LEMMA LogCloseFileKeeps ==
    ASSUME Slots \in Nat \ {0}, LogInv, Log!CloseFile
    PROVE  LogInv'
<1> USE DEF LogInv
<1>1. LogTypes'
    BY DEF Log!CloseFile, Log!ringVars, Log!callerVars, Log!threadVars, LogTypes, Texts
<1>2. RoomInv'
    BY DEF Log!CloseFile, Log!ringVars, Log!callerVars, Log!threadVars, LogTypes, RoomInv
<1>3. FillInv'
    BY DEF Log!CloseFile, Log!ringVars, Log!callerVars, Log!threadVars, LogTypes, FillInv, Filling
<1>4. ValidInv'
    BY DEF Log!CloseFile, Log!ringVars, Log!callerVars, Log!threadVars, LogTypes, ValidInv
<1>5. ThreadInv'
    BY DEF Log!CloseFile, Log!ringVars, Log!callerVars, Log!threadVars, LogTypes, ThreadInv, Filling
<1>6. WrittenInv'
    BY DEF Log!CloseFile, Log!ringVars, Log!callerVars, Log!threadVars, LogTypes, WrittenInv, InFile
<1>7. QED  BY <1>1, <1>2, <1>3, <1>4, <1>5, <1>6

(* Every step of the callers, the logger thread and Shutdown keeps it.     *)
LEMMA LogPreserves ==
    ASSUME Slots \in Nat \ {0}, LogInv, [Log!Next]_Log!vars
    PROVE  LogInv'
<1>1. CASE UNCHANGED Log!vars
  <2> USE <1>1 DEF Log!vars
  <2>1. LogTypes' /\ RoomInv' /\ FillInv'
      BY DEF LogInv, LogTypes, RoomInv, FillInv, Filling
  <2>2. ValidInv' /\ ThreadInv' /\ WrittenInv'
      BY DEF LogInv, ValidInv, ThreadInv, WrittenInv, InFile, Filling
  <2>3. QED  BY <2>1, <2>2 DEF LogInv
<1>2. ASSUME NEW t \in Callers, Log!Log(t) \/ Log!CallerStep(t) PROVE LogInv'
    BY <1>2, LogLogKeeps, LogLoadWriteKeeps, LogLoadReadKeeps, LogClaimKeeps, LogFillKeeps,
       LogPublishKeeps
    DEF Log!CallerStep
<1>3. CASE Log!ThreadStep \/ Log!Shutdown \/ Log!CloseFile
    BY <1>3, LogCheckStopKeeps, LogProcessKeeps, LogSleepKeeps, LogClearKeeps, LogAdvanceKeeps,
       LogShutdownKeeps, LogCloseFileKeeps
    DEF Log!ThreadStep
<1>4. QED  BY <1>1, <1>2, <1>3 DEF Log!Next

LEMMA LogSeen == LogInv => Log!FileHasAcceptedInOrder
<1> SUFFICES ASSUME LogInv PROVE Log!FileHasAcceptedInOrder
    OBVIOUS
<1> USE DEF LogInv
<1>1. PICK n \in Nat : n = InFile
    BY DEF LogTypes, InFile
<1>2. n <= Len(accepted) /\ Len(written) = n /\ \A i \in 1..n : written[i] = accepted[i]
    BY <1>1 DEF RoomInv, WrittenInv
<1>3. accepted \in Seq(Texts) /\ written \in Seq(Texts)
    BY DEF LogTypes
<1>4. written = SubSeq(accepted, 1, n)
    BY <1>2, <1>3
<1>5. QED  BY <1>1, <1>4 DEF InFile, RoomInv, WrittenInv, Log!FileHasAcceptedInOrder

(* The file holds the accepted messages, each once, whole and in the order *)
(* their slots were claimed, for any number of callers and any ring size   *)
(* (LogAsync, LoggerThreadFunc).                                           *)
THEOREM LogFileInOrder ==
    ASSUME Slots \in Nat \ {0}
    PROVE  Log!Spec => []Log!FileHasAcceptedInOrder
<1>1. Log!Init => LogInv
    BY LogInit
<1>2. LogInv /\ [Log!Next]_Log!vars => LogInv'
    BY LogPreserves
<1>3. LogInv => Log!FileHasAcceptedInOrder
    BY LogSeen
<1>4. QED  BY <1>1, <1>2, <1>3, PTL DEF Log!Spec

(* What the bounds of the model leave room for: an accepted message is one *)
(* call of Log, and the callers that may still claim a slot are others.    *)
LogConstants ==
    /\ IsFiniteSet(Callers)
    /\ Slots \in Nat \ {0} /\ Batch \in Nat \ {0} /\ MaxMessages \in Nat

Claiming == {t \in Callers : logPc[t] \in {"loadWrite", "loadRead", "cas"}}
Messages == (1..MaxMessages) \union {NoMsg}

BoundTypes ==
    /\ logCalls \in 0..MaxMessages /\ done \in 0..Batch
    /\ lpc \in {"poll", "clear", "advance"} => done < Batch
    /\ msg \in [Callers -> Messages] /\ text \in [Log!Ring -> Messages]
    /\ shouldStop \in BOOLEAN /\ fileOpen \in BOOLEAN /\ stopPc \in {"idle", "join", "returned"}

CallsInv == writeIndex + Cardinality(Claiming) <= logCalls

BoundInv == LogInv /\ BoundTypes /\ CallsInv

LEMMA BoundInit ==
    ASSUME LogConstants, Log!Init
    PROVE  BoundInv
<1>1. LogInv
    BY LogInit DEF LogConstants
<1>2. BoundTypes
  <2>1. shouldStop \in BOOLEAN /\ fileOpen \in BOOLEAN /\ stopPc \in {"idle", "join", "returned"}
      BY Zenon DEF Log!Init
  <2>2. QED  BY <2>1 DEF Log!Init, BoundTypes, LogConstants, Messages
<1>3. Claiming = {}
    BY DEF Log!Init, Claiming
<1>4. CallsInv
    BY <1>3, FS_EmptySet DEF Log!Init, CallsInv
<1>5. QED  BY <1>1, <1>2, <1>4 DEF BoundInv

LEMMA BoundTypesKept ==
    ASSUME LogConstants, LogTypes, BoundTypes, [Log!Next]_Log!vars
    PROVE  BoundTypes'
<1> USE DEF LogConstants, LogTypes, BoundTypes, Log!ringVars, Log!callerVars, Log!threadVars, Log!stopVars
<1>1. CASE UNCHANGED Log!vars
    BY <1>1 DEF Log!vars
<1>2. ASSUME NEW t \in Callers, Log!Log(t) PROVE BoundTypes'
  <2>1. logCalls + 1 \in 1..MaxMessages
      BY <1>2 DEF Log!Log
  <2>2. msg' \in [Callers -> Messages]
      BY <1>2, <2>1 DEF Log!Log, Messages
  <2>3. QED  BY <1>2, <2>1, <2>2 DEF Log!Log
<1>3. ASSUME NEW t \in Callers, Log!CallerStep(t) PROVE BoundTypes'
  <2>1. text' \in [Log!Ring -> Messages] /\ msg' \in [Callers -> Messages]
      BY <1>3 DEF Log!CallerStep, Log!LoadWrite, Log!LoadRead, Log!Claim, Log!Fill, Log!Publish, Messages
  <2>2. /\ logCalls' = logCalls /\ done' = done /\ lpc' = lpc
        /\ shouldStop' = shouldStop /\ fileOpen' = fileOpen /\ stopPc' = stopPc
      BY <1>3 DEF Log!CallerStep, Log!LoadWrite, Log!LoadRead, Log!Claim, Log!Fill, Log!Publish
  <2>3. QED  BY <2>1, <2>2
<1>4. CASE Log!ThreadStep
  <2>1. /\ logCalls' = logCalls /\ msg' = msg /\ text' = text
        /\ shouldStop' = shouldStop /\ fileOpen' = fileOpen /\ stopPc' = stopPc
      BY <1>4 DEF Log!ThreadStep, Log!CheckStop, Log!Process, Log!Sleep, Log!Clear, Log!Advance
  <2>2. done' \in 0..Batch /\ (lpc' \in {"poll", "clear", "advance"} => done' < Batch)
      BY <1>4 DEF Log!ThreadStep, Log!CheckStop, Log!Process, Log!Sleep, Log!Clear, Log!Advance
  <2>3. QED  BY <2>1, <2>2
<1>5. CASE Log!Shutdown \/ Log!CloseFile
  <2>1. /\ logCalls' = logCalls /\ msg' = msg /\ text' = text /\ done' = done /\ lpc' = lpc
      BY <1>5 DEF Log!Shutdown, Log!CloseFile
  <2>2. shouldStop' \in BOOLEAN /\ fileOpen' \in BOOLEAN /\ stopPc' \in {"idle", "join", "returned"}
      BY <1>5, Zenon DEF Log!Shutdown, Log!CloseFile
  <2>3. QED  BY <2>1, <2>2
<1>6. QED  BY <1>1, <1>2, <1>3, <1>4, <1>5 DEF Log!Next

LEMMA CallsKept ==
    ASSUME LogConstants, LogTypes, BoundTypes, CallsInv, [Log!Next]_Log!vars
    PROVE  CallsInv'
<1>1. /\ IsFiniteSet(Claiming) /\ Cardinality(Claiming) \in Nat
      /\ writeIndex \in Nat /\ logCalls \in Nat
  <2>1. Claiming \subseteq Callers
      BY DEF Claiming
  <2>2. QED  BY <2>1, FS_Subset, FS_CardinalityType DEF LogConstants, LogTypes
<1>2. ASSUME Claiming' = Claiming, writeIndex' = writeIndex, logCalls' = logCalls
      PROVE  CallsInv'
    BY <1>2 DEF CallsInv
<1>3. ASSUME NEW t \in Claiming, Claiming' = Claiming \ {t}, logCalls' = logCalls,
             writeIndex' \in {writeIndex, writeIndex + 1}
      PROVE  CallsInv'
  <2>1. Cardinality(Claiming') = Cardinality(Claiming) - 1 /\ Cardinality(Claiming) \in Nat \ {0}
      BY <1>1, <1>3, CardinalityMinus
  <2>2. QED  BY <1>1, <1>3, <2>1 DEF CallsInv
<1>4. ASSUME NEW t \in Callers, Log!Log(t) PROVE CallsInv'
  <2>1. Claiming' = Claiming \union {t} /\ t \notin Claiming /\ writeIndex' = writeIndex /\ logCalls' = logCalls + 1
      BY <1>4 DEF Claiming, Log!Log, Log!ringVars, LogTypes
  <2>2. Cardinality(Claiming') = Cardinality(Claiming) + 1
      BY <1>1, <2>1, CardinalityPlus
  <2>3. QED  BY <1>1, <2>1, <2>2 DEF CallsInv
<1>5. ASSUME NEW t \in Callers, Log!LoadWrite(t) \/ Log!Fill(t) \/ Log!Publish(t) PROVE CallsInv'
  <2>1. Claiming' = Claiming /\ writeIndex' = writeIndex /\ logCalls' = logCalls
      BY <1>5 DEF Claiming, Log!LoadWrite, Log!Fill, Log!Publish, Log!ringVars, LogTypes
  <2>2. QED  BY <1>2, <2>1
<1>6. ASSUME NEW t \in Callers, Log!LoadRead(t) PROVE CallsInv'
  <2>1. writeIndex' = writeIndex /\ logCalls' = logCalls /\ t \in Claiming
      BY <1>6 DEF Claiming, Log!LoadRead, Log!ringVars
  <2>2. Claiming' = Claiming \/ Claiming' = Claiming \ {t}
    <3>1. CASE Log!Full(slot[t], readIndex)
      <4>1. logPc' = [logPc EXCEPT ![t] = "idle"]
          BY <1>6, <3>1 DEF Log!LoadRead
      <4>2. Claiming' = Claiming \ {t}
          BY <4>1 DEF Claiming, LogTypes
      <4>3. QED  BY <4>2
    <3>2. CASE ~Log!Full(slot[t], readIndex)
      <4>1. logPc' = [logPc EXCEPT ![t] = "cas"]
          BY <1>6, <3>2 DEF Log!LoadRead
      <4>2. Claiming' = Claiming
          BY <2>1, <4>1 DEF Claiming, LogTypes
      <4>3. QED  BY <4>2
    <3>3. QED  BY <3>1, <3>2
  <2>3. QED  BY <1>2, <1>3, <2>1, <2>2
<1>7. ASSUME NEW t \in Callers, Log!Claim(t) PROVE CallsInv'
  <2>1. logCalls' = logCalls /\ t \in Claiming
      BY <1>7 DEF Claiming, Log!Claim
  <2>2. CASE writeIndex' = writeIndex + 1 /\ logPc' = [logPc EXCEPT ![t] = "fill"]
    <3>1. Claiming' = Claiming \ {t}
        BY <2>2 DEF Claiming, LogTypes
    <3>2. QED  BY <1>3, <2>1, <2>2, <3>1
  <2>3. CASE writeIndex' = writeIndex /\ logPc' = [logPc EXCEPT ![t] = "loadWrite"]
    <3>1. Claiming' = Claiming
        BY <2>1, <2>3 DEF Claiming, LogTypes
    <3>2. QED  BY <1>2, <2>1, <2>3, <3>1
  <2>4. QED  BY <1>7, <2>2, <2>3 DEF Log!Claim
<1>8. CASE Log!ThreadStep \/ Log!Shutdown \/ Log!CloseFile \/ UNCHANGED Log!vars
  <2>1. logPc' = logPc /\ writeIndex' = writeIndex /\ logCalls' = logCalls
      BY <1>8 DEF Log!ThreadStep, Log!CheckStop, Log!Process, Log!Sleep, Log!Clear, Log!Advance,
         Log!Shutdown, Log!CloseFile, Log!vars, Log!ringVars, Log!callerVars
  <2>2. Claiming' = Claiming
      BY <2>1 DEF Claiming
  <2>3. QED  BY <1>2, <2>1, <2>2
<1>9. QED  BY <1>4, <1>5, <1>6, <1>7, <1>8 DEF Log!Next, Log!CallerStep

LEMMA BoundPreserves ==
    ASSUME LogConstants, BoundInv, [Log!Next]_Log!vars
    PROVE  BoundInv'
<1>1. LogInv'
    BY LogPreserves DEF BoundInv, LogConstants
<1>2. LogTypes
    BY DEF BoundInv, LogInv
<1>3. QED  BY <1>1, <1>2, BoundTypesKept, CallsKept DEF BoundInv

LEMMA BoundSeen ==
    ASSUME LogConstants, BoundInv
    PROVE  Log!TypeOK /\ Log!FileHasAcceptedInOrder
<1>1. Log!FileHasAcceptedInOrder
    BY LogSeen DEF BoundInv
<1>2. Cardinality(Claiming) \in Nat
  <2>1. Claiming \subseteq Callers
      BY DEF Claiming
  <2>2. QED  BY <2>1, FS_Subset, FS_CardinalityType DEF LogConstants
<1>3. writeIndex \in 0..MaxMessages /\ readIndex \in 0..writeIndex
    BY <1>2 DEF BoundInv, BoundTypes, CallsInv, LogInv, LogTypes, RoomInv, LogConstants
<1>4. QED
    BY <1>1, <1>3 DEF BoundInv, BoundTypes, LogInv, LogTypes, Log!TypeOK, Messages

-----------------------------------------------------------------------------
(***************************************************************************)
(* Sums over a finite set, as FoldSet computes them: the elements are      *)
(* taken away one by one, in an order CHOOSE picks.                        *)
(***************************************************************************)
Pick(s) == CHOOSE x \in s : TRUE
IsSums(h, g, S) == h = [s \in SUBSET S |-> IF s = {} THEN 0 ELSE h[s \ {Pick(s)}] + g[Pick(s)]]
Sums(g, S) == CHOOSE h : h = [s \in SUBSET S |-> IF s = {} THEN 0 ELSE h[s \ {Pick(s)}] + g[Pick(s)]]
Small(S, n) == {s \in SUBSET S : Cardinality(s) <= n}

LEMMA LeastNatural ==
    ASSUME NEW D, D \subseteq Nat, D # {}
    PROVE  \E n \in D : \A m \in D : n <= m
<1>1. PICK R : R = OpToRel(<, Nat)
  OBVIOUS
<1>2. IsWellFoundedOn(R, Nat)
  BY <1>1, NatLessThanWellFounded
<1>3. PICK x \in D : \A y \in D : ~(<<y, x>> \in R)
  BY <1>2, WFMin
<1>4. \A y \in D : (<<y, x>> \in R) <=> y < x
  BY <1>1 DEF OpToRel
<1>5. \A y \in D : ~(y < x)
  BY <1>3, <1>4
<1>6. \A y \in D : x <= y
  BY <1>5
<1>7. QED
  BY <1>6

LEMMA PickOne ==
    ASSUME NEW s, s # {}, IsFiniteSet(s)
    PROVE  /\ Pick(s) \in s /\ IsFiniteSet(s \ {Pick(s)}) /\ Cardinality(s) \in Nat
           /\ Cardinality(s \ {Pick(s)}) = Cardinality(s) - 1
           /\ Cardinality(s \ {Pick(s)}) \in Nat
<1>1. Pick(s) \in s
  BY DEF Pick
<1>2. QED
  BY <1>1, FS_RemoveElement, FS_CardinalityType

(* The function iter of MapThenFoldSet exists: built up from the sums of   *)
(* the smaller sets.                                                       *)
LEMMA SumsExist ==
    ASSUME NEW S, IsFiniteSet(S), NEW g
    PROVE  IsSums(Sums(g, S), g, S)
<1> DEFINE Sum(h, n) ==
        h = [s \in Small(S, n) |-> IF s = {} THEN 0 ELSE h[s \ {Pick(s)}] + g[Pick(s)]]
<1> DEFINE D == {n \in Nat : ~\E h : Sum(h, n)}
<1>2. D = {}
  <2>1. SUFFICES ASSUME D # {} PROVE FALSE
    OBVIOUS
  <2>2. D \subseteq Nat
    OBVIOUS
  <2>3. PICK n \in D : \A m \in D : n <= m
    BY <2>1, <2>2, LeastNatural, Zenon
  <2>4. n \in Nat /\ ~\E h : Sum(h, n)
    OBVIOUS
  <2>5. ASSUME NEW s \in Small(S, n), s # {}
        PROVE  Pick(s) \in s /\ n # 0 /\ s \ {Pick(s)} \in Small(S, n - 1)
    <3>1. s \in SUBSET S /\ Cardinality(s) <= n /\ IsFiniteSet(s)
      BY FS_Subset DEF Small
    <3>2. /\ Pick(s) \in s /\ Cardinality(s) \in Nat
          /\ Cardinality(s \ {Pick(s)}) = Cardinality(s) - 1 /\ Cardinality(s \ {Pick(s)}) \in Nat
      BY <2>5, <3>1, PickOne
    <3>3. n # 0 /\ Cardinality(s \ {Pick(s)}) <= n - 1
      BY <2>4, <3>1, <3>2
    <3>4. QED
      BY <3>1, <3>2, <3>3 DEF Small
  <2>6. PICK h : n # 0 => Sum(h, n - 1)
    <3>1. CASE n = 0
      BY <3>1
    <3>2. CASE n # 0
      <4>1. n - 1 \in Nat /\ ~(n <= n - 1)
        BY <2>4, <3>2
      <4>2. n - 1 \notin D
        BY <2>3, <4>1
      <4>3. QED
        BY <4>1, <4>2
    <3>3. QED
      BY <3>1, <3>2
  <2>7. PICK k : k = [s \in Small(S, n) |-> IF s = {} THEN 0 ELSE h[s \ {Pick(s)}] + g[Pick(s)]]
    OBVIOUS
  <2>8. ASSUME NEW s \in Small(S, n), s # {}
        PROVE  k[s \ {Pick(s)}] = h[s \ {Pick(s)}]
    <3>1. n # 0 /\ s \ {Pick(s)} \in Small(S, n - 1)
      BY <2>5, <2>8
    <3>2. PICK t : t = s \ {Pick(s)}
      OBVIOUS
    <3>3. t \in Small(S, n)
      <4>1. t \in SUBSET S /\ Cardinality(t) <= n - 1
        BY <3>1, <3>2 DEF Small
      <4>2. Cardinality(t) \in Nat
        BY <4>1, FS_Subset, FS_CardinalityType
      <4>3. Cardinality(t) <= n
        BY <2>4, <4>1, <4>2
      <4>4. QED
        BY <4>1, <4>3 DEF Small
    <3>4. h[t] = IF t = {} THEN 0 ELSE h[t \ {Pick(t)}] + g[Pick(t)]
      BY <2>6, <3>1, <3>2, Zenon
    <3>5. k[t] = IF t = {} THEN 0 ELSE h[t \ {Pick(t)}] + g[Pick(t)]
      BY <2>7, <3>3, Zenon
    <3>6. QED
      BY <3>2, <3>4, <3>5
  <2>9. Sum(k, n)
    BY <2>7, <2>8
  <2>10. QED
    BY <2>4, <2>9
<1>3. PICK N : N = Cardinality(S)
  OBVIOUS
<1>4. N \in Nat
  BY <1>3, FS_CardinalityType
<1>5. Small(S, N) = SUBSET S
  BY <1>3, FS_Subset DEF Small
<1>6. PICK h : Sum(h, N)
  BY <1>2, <1>4
<1>7. \E f : IsSums(f, g, S)
  BY <1>5, <1>6 DEF IsSums
<1>8. QED
  BY <1>7 DEF IsSums, Sums


LEMMA SumsStep ==
    ASSUME NEW S, NEW g, NEW h, IsSums(h, g, S), NEW s \in SUBSET S
    PROVE  h[s] = IF s = {} THEN 0 ELSE h[s \ {Pick(s)}] + g[Pick(s)]
  BY Zenon DEF IsSums

(* Sums of the same elements agree, whatever larger sets they are part of. *)
LEMMA SumsSame ==
    ASSUME NEW S, NEW T, NEW f, NEW g, NEW h, NEW k, IsSums(h, f, S), IsSums(k, g, T),
           NEW U \in SUBSET S, U \subseteq T, IsFiniteSet(U), \A x \in U : f[x] = g[x]
    PROVE  h[U] = k[U]
<1> DEFINE Bad == {s \in SUBSET U : h[s] # k[s]}
<1> DEFINE D == {Cardinality(s) : s \in Bad}
<1>1. ASSUME Bad # {} PROVE FALSE
  <2>1. \A s \in SUBSET U : IsFiniteSet(s) /\ Cardinality(s) \in Nat
    BY FS_Subset, FS_CardinalityType
  <2>2. D \subseteq Nat /\ D # {}
    BY <1>1, <2>1
  <2>3. PICK n \in D : \A m \in D : n <= m
    BY <2>2, LeastNatural, Zenon
  <2>4. PICK s \in Bad : n = Cardinality(s)
    BY <2>3
  <2>5. s \in SUBSET U /\ h[s] # k[s] /\ IsFiniteSet(s) /\ s \in SUBSET S /\ s \in SUBSET T
    BY <2>1, <2>4
  <2>6. h[s] = IF s = {} THEN 0 ELSE h[s \ {Pick(s)}] + f[Pick(s)]
    BY <2>5, SumsStep
  <2>7. k[s] = IF s = {} THEN 0 ELSE k[s \ {Pick(s)}] + g[Pick(s)]
    BY <2>5, SumsStep
  <2>8. s # {}
    BY <2>5, <2>6, <2>7
  <2>9. PICK t : t = s \ {Pick(s)}
    OBVIOUS
  <2>10. Pick(s) \in s /\ Cardinality(t) = Cardinality(s) - 1 /\ Cardinality(t) \in Nat /\ Cardinality(s) \in Nat
    BY <2>5, <2>8, <2>9, PickOne
  <2>11. t \in SUBSET U
    BY <2>5, <2>9
  <2>12. t \notin Bad
    <3>1. ~(n <= Cardinality(t))
      BY <2>4, <2>10
    <3>2. t \in Bad => Cardinality(t) \in D
      OBVIOUS
    <3>3. QED
      BY <2>3, <3>1, <3>2
  <2>13. h[t] = k[t]
    BY <2>11, <2>12
  <2>14. f[Pick(s)] = g[Pick(s)]
    BY <2>5, <2>10
  <2>15. QED
    BY <2>5, <2>6, <2>7, <2>8, <2>9, <2>13, <2>14, Zenon
<1>2. QED
  BY <1>1

LEMMA SumsNatural ==
    ASSUME NEW S, NEW g, NEW h, IsSums(h, g, S), IsFiniteSet(S), \A x \in S : g[x] \in Nat
    PROVE  \A s \in SUBSET S : h[s] \in Nat
<1> DEFINE Bad == {s \in SUBSET S : h[s] \notin Nat}
<1> DEFINE D == {Cardinality(s) : s \in Bad}
<1>1. ASSUME Bad # {} PROVE FALSE
  <2>1. \A s \in SUBSET S : IsFiniteSet(s) /\ Cardinality(s) \in Nat
    BY FS_Subset, FS_CardinalityType
  <2>2. D \subseteq Nat /\ D # {}
    BY <1>1, <2>1
  <2>3. PICK n \in D : \A m \in D : n <= m
    BY <2>2, LeastNatural, Zenon
  <2>4. PICK s \in Bad : n = Cardinality(s)
    BY <2>3
  <2>5. s \in SUBSET S /\ h[s] \notin Nat /\ IsFiniteSet(s)
    BY <2>1, <2>4
  <2>6. h[s] = IF s = {} THEN 0 ELSE h[s \ {Pick(s)}] + g[Pick(s)]
    BY <2>5, SumsStep
  <2>7. s # {}
    BY <2>5, <2>6
  <2>8. PICK t : t = s \ {Pick(s)}
    OBVIOUS
  <2>9. Pick(s) \in s /\ Cardinality(t) = Cardinality(s) - 1 /\ Cardinality(t) \in Nat /\ Cardinality(s) \in Nat
    BY <2>5, <2>7, <2>8, PickOne
  <2>10. t \in SUBSET S
    BY <2>5, <2>8
  <2>11. t \notin Bad
    <3>1. ~(n <= Cardinality(t))
      BY <2>4, <2>9
    <3>2. t \in Bad => Cardinality(t) \in D
      OBVIOUS
    <3>3. QED
      BY <2>3, <3>1, <3>2
  <2>12. h[t] \in Nat
    BY <2>10, <2>11
  <2>13. g[Pick(s)] \in Nat
    BY <2>5, <2>9
  <2>14. h[s] = h[t] + g[Pick(s)]
    BY <2>6, <2>7, <2>8, Zenon
  <2>15. QED
    BY <2>5, <2>12, <2>13, <2>14
<1>2. QED
  BY <1>1

(* The order does not matter: any element may be taken away first. *)
AnyOrder(h, g, S) == \A s \in SUBSET S : \A x \in s : h[s] = h[s \ {x}] + g[x]

LEMMA SumsWithout ==
    ASSUME NEW S, NEW g, NEW h, IsSums(h, g, S), IsFiniteSet(S), \A z \in S : g[z] \in Nat
    PROVE  AnyOrder(h, g, S)
<1> DEFINE Bad == {s \in SUBSET S : \E x \in s : h[s] # h[s \ {x}] + g[x]}
<1> DEFINE D == {Cardinality(s) : s \in Bad}
<1>1. ASSUME Bad # {} PROVE FALSE
  <2>1. \A s \in SUBSET S : IsFiniteSet(s) /\ Cardinality(s) \in Nat
    BY FS_Subset, FS_CardinalityType
  <2>2. D \subseteq Nat /\ D # {}
    BY <1>1, <2>1
  <2>3. PICK n \in D : \A m \in D : n <= m
    BY <2>2, LeastNatural, Zenon
  <2>4. PICK s \in Bad : n = Cardinality(s)
    BY <2>3
  <2>5. PICK x \in s : h[s] # h[s \ {x}] + g[x]
    BY <2>4
  <2>6. s \in SUBSET S /\ IsFiniteSet(s) /\ s # {}
    BY <2>1, <2>4, <2>5
  <2>7. PICK p : p = Pick(s)
    OBVIOUS
  <2>8. h[s] = h[s \ {p}] + g[p]
    <3>1. h[s] = IF s = {} THEN 0 ELSE h[s \ {Pick(s)}] + g[Pick(s)]
      BY <2>6, SumsStep
    <3>2. QED
      BY <2>6, <2>7, <3>1, Zenon
  <2>9. p # x /\ p \in s
    BY <2>5, <2>6, <2>7, <2>8, PickOne
  <2>10. ASSUME NEW y \in s PROVE \A z \in s \ {y} : h[s \ {y}] = h[(s \ {y}) \ {z}] + g[z]
    <3>1. PICK t : t = s \ {y}
      OBVIOUS
    <3>2. Cardinality(t) = Cardinality(s) - 1
      BY <2>6, <2>10, <3>1, FS_RemoveElement
    <3>3. ~(n <= Cardinality(t))
      BY <2>1, <2>4, <2>6, <3>2
    <3>4. t \in Bad => Cardinality(t) \in D
      OBVIOUS
    <3>5. t \notin Bad
      BY <2>3, <3>3, <3>4
    <3>6. t \in SUBSET S
      BY <2>6, <3>1
    <3>7. \A z \in t : h[t] = h[t \ {z}] + g[z]
      BY <3>5, <3>6
    <3>8. QED
      BY <3>1, <3>7, Zenon
  <2>11. h[s \ {p}] = h[(s \ {p}) \ {x}] + g[x]
    BY <2>9, <2>10
  <2>12. h[s \ {x}] = h[(s \ {x}) \ {p}] + g[p]
    BY <2>9, <2>10
  <2>13. (s \ {x}) \ {p} = (s \ {p}) \ {x}
    OBVIOUS
  <2>14. PICK a, b, c : a = h[(s \ {p}) \ {x}] /\ b = g[x] /\ c = g[p]
    OBVIOUS
  <2>15. a \in Nat /\ b \in Nat /\ c \in Nat
    <3>1. (s \ {p}) \ {x} \in SUBSET S /\ x \in S /\ p \in S
      BY <2>6, <2>9
    <3>2. h[(s \ {p}) \ {x}] \in Nat
      BY <3>1, SumsNatural, Zenon
    <3>3. QED
      BY <2>14, <3>1, <3>2
  <2>16. h[s \ {p}] = a + b /\ h[s \ {x}] = a + c
    BY <2>11, <2>12, <2>13, <2>14, Zenon
  <2>17. h[s] = (a + b) + c /\ h[s] # (a + c) + b
    BY <2>5, <2>8, <2>14, <2>16, Zenon
  <2>18. QED
    BY <2>15, <2>17
<1>2. QED
  BY <1>1 DEF AnyOrder


-----------------------------------------------------------------------------
(***************************************************************************)
(* The files.                                                              *)
(***************************************************************************)
FileConstants ==
    /\ MaxFileSize \in Nat \ {0} /\ MaxTime \in Nat /\ MaxTotal \in Nat
    /\ Lengths \subseteq 0..MaxFileSize

Total(g) == File!FoldSet(LAMBDA f, n : n + g[f], 0, DOMAIN g)
Sized(g) == IsFiniteSet(DOMAIN g) /\ \A f \in DOMAIN g : g[f] \in Nat

LEMMA TotalIsSums == \A g : Total(g) = Sums(g, DOMAIN g)[DOMAIN g]
  BY DEF Total, File!FoldSet, File!MapThenFoldSet, Sums, Pick

(* One file more or longer: the total of the others stays. *)
LEMMA TotalChanges ==
    ASSUME NEW g, NEW k, NEW x, Sized(g), Sized(k), DOMAIN k = DOMAIN g \union {x},
           \A f \in DOMAIN g : f # x => k[f] = g[f]
    PROVE  Total(k) = Total(g) - (IF x \in DOMAIN g THEN g[x] ELSE 0) + k[x]
<1>1. PICK S : S = DOMAIN g
  OBVIOUS
<1>2. PICK T : T = DOMAIN k
  OBVIOUS
<1>3. PICK h : h = Sums(g, S)
  OBVIOUS
<1>4. PICK j : j = Sums(k, T)
  OBVIOUS
<1>5. IsFiniteSet(S) /\ IsFiniteSet(T) /\ (\A f \in S : g[f] \in Nat) /\ (\A f \in T : k[f] \in Nat)
  BY <1>1, <1>2 DEF Sized
<1>6. IsSums(h, g, S) /\ IsSums(j, k, T)
  BY <1>3, <1>4, <1>5, SumsExist
<1>7. Total(g) = h[S] /\ Total(k) = j[T]
  BY <1>1, <1>2, <1>3, <1>4, TotalIsSums, Zenon
<1>8. PICK U : U = S \ {x}
  OBVIOUS
<1>9. U = T \ {x} /\ U \in SUBSET S /\ U \in SUBSET T /\ x \in T
  BY <1>1, <1>2, <1>8
<1>10. IsFiniteSet(U) /\ \A f \in U : g[f] = k[f]
  BY <1>1, <1>5, <1>8, <1>9, FS_Subset
<1>11. h[U] = j[U]
  BY <1>6, <1>9, <1>10, SumsSame
<1>12. AnyOrder(j, k, T)
  <2>1. IsSums(j, k, T)
    BY <1>6
  <2>2. \A z \in T : k[z] \in Nat
    BY <1>5
  <2>3. QED
    BY <1>5, <2>1, <2>2, SumsWithout
<1>13. j[T] = j[U] + k[x]
  BY <1>9, <1>12 DEF AnyOrder
<1>14. AnyOrder(h, g, S)
  <2>1. IsSums(h, g, S)
    BY <1>6
  <2>2. \A z \in S : g[z] \in Nat
    BY <1>5
  <2>3. QED
    BY <1>5, <2>1, <2>2, SumsWithout
<1>15. x \in S => h[S] = h[U] + g[x]
  BY <1>8, <1>14 DEF AnyOrder
<1>16. \A s \in SUBSET S : h[s] \in Nat
  BY <1>5, <1>6, SumsNatural
<1>17. h[U] \in Nat
  BY <1>9, <1>16
<1>18. k[x] \in Nat /\ (x \in S => g[x] \in Nat)
  BY <1>5, <1>9
<1>19. x \notin S => U = S
  BY <1>8
<1>20. CASE x \in S
  <2>1. PICK a, b, c : a = h[U] /\ b = g[x] /\ c = k[x]
    OBVIOUS
  <2>2. a \in Nat /\ b \in Nat /\ c \in Nat /\ Total(k) = a + c /\ Total(g) = a + b
    BY <1>7, <1>11, <1>13, <1>15, <1>17, <1>18, <1>20, <2>1, Zenon
  <2>3. a + c = (a + b) - b + c
    BY <2>2
  <2>4. QED
    BY <1>1, <1>20, <2>1, <2>2, <2>3, Zenon
<1>21. CASE x \notin S
  <2>1. PICK a, c : a = h[U] /\ c = k[x]
    OBVIOUS
  <2>2. a \in Nat /\ c \in Nat /\ Total(k) = a + c /\ Total(g) = a
    BY <1>7, <1>11, <1>13, <1>17, <1>18, <1>19, <1>21, <2>1, Zenon
  <2>3. a + c = a - 0 + c
    BY <2>2
  <2>4. QED
    BY <1>1, <1>21, <2>1, <2>2, <2>3, Zenon
<1>22. QED
  BY <1>20, <1>21


(* Between two files there is a free number; of one number more than there *)
(* are files one is free.                                                  *)
LEMMA NumberIsFree ==
    ASSUME IsFiniteSet(DOMAIN size)
    PROVE  /\ File!Opened \in {File!Name(seq) : seq \in Nat}
           /\ File!RoomyOrNew(File!Opened)
<1>1. PICK F : F = DOMAIN size
  OBVIOUS
<1>2. PICK n : n = Cardinality(F)
  OBVIOUS
<1>3. n \in Nat /\ IsFiniteSet(F)
  BY <1>1, <1>2, FS_CardinalityType
<1>4. PICK N : N = 2..(n + 2)
  OBVIOUS
<1>5. IsFiniteSet(N) /\ Cardinality(N) = n + 1
  BY <1>3, <1>4, FS_Interval
<1>6. \E seq \in N : File!Name(seq) \notin F
  <2>1. SUFFICES ASSUME \A seq \in N : File!Name(seq) \in F PROVE FALSE
    OBVIOUS
  <2>2. PICK m : m = [seq \in N |-> File!Name(seq)]
    OBVIOUS
  <2>3. m \in [N -> F]
    BY <2>1, <2>2
  <2>4. Cardinality(F) < Cardinality(N)
    BY <1>2, <1>3, <1>5
  <2>5. PICK x, y \in N : x # y /\ m[x] = m[y]
    BY <1>3, <1>5, <2>3, <2>4, FS_PigeonHole
  <2>6. <<now, x>> = <<now, y>>
    BY <2>2, <2>5 DEF File!Name
  <2>7. QED
    BY <2>5, <2>6
<1>7. PICK D : D = {seq \in N : File!RoomyOrNew(File!Name(seq))}
  OBVIOUS
<1>8. D # {} /\ D \subseteq Nat
  BY <1>1, <1>3, <1>4, <1>6, <1>7 DEF File!RoomyOrNew, File!Exists
<1>9. PICK s \in D : \A y \in D : s <= y
  BY <1>8, LeastNatural
<1>10. PICK r : r = File!Min(D)
  OBVIOUS
<1>11. r \in D
  BY <1>9, <1>10 DEF File!Min
<1>12. File!Cardinality(DOMAIN size) = n
  BY <1>1, <1>2, Zenon DEF File!Cardinality, Cardinality
<1>13. File!Opened = IF File!Roomy(File!Name(0)) THEN File!Name(0) ELSE File!Name(r)
  BY <1>4, <1>7, <1>10, <1>12, Zenon DEF File!Opened
<1>14. CASE File!Roomy(File!Name(0))
  BY <1>13, <1>14 DEF File!RoomyOrNew
<1>15. CASE ~File!Roomy(File!Name(0))
  <2>1. r \in Nat /\ File!RoomyOrNew(File!Name(r))
    BY <1>7, <1>8, <1>11
  <2>2. QED
    BY <1>13, <1>15, <2>1
<1>16. QED
  BY <1>14, <1>15

FileTypes ==
    /\ now \in 0..MaxTime /\ total \in 0..MaxTotal /\ currentFileSize \in Nat
    /\ logFile \in DOMAIN size \union {File!NoFile}
    /\ Sized(size)

(* The open file is at most one limit larger than the process thinks. *)
OpenInv == logFile # File!NoFile => size[logFile] < currentFileSize + MaxFileSize

BytesInv == total = Total(size) /\ \A f \in DOMAIN size : size[f] < 2 * MaxFileSize

FileInv == FileTypes /\ OpenInv /\ BytesInv

LEMMA FileInit ==
    ASSUME FileConstants
    PROVE  File!Init => FileInv
<1> SUFFICES ASSUME File!Init PROVE FileInv
  OBVIOUS
<1>1. size = <<>> /\ DOMAIN size = {}
  BY DEF File!Init
<1>2. Sized(size)
  BY <1>1, FS_EmptySet DEF Sized
<1>3. Sums(size, {})[{}] = 0
  <2>1. IsSums(Sums(size, {}), size, {})
    BY FS_EmptySet, SumsExist
  <2>2. QED
    BY <2>1, SumsStep
<1>4. Total(size) = 0
  BY <1>1, <1>3, TotalIsSums, Zenon
<1>5. QED
  BY <1>1, <1>2, <1>4 DEF File!Init, FileInv, FileTypes, OpenInv, BytesInv, FileConstants

(* Opening a file changes no size and adds at most an empty file. *)
LEMMA OpenKeeps ==
    ASSUME FileConstants, FileInv, NEW o, o = File!Opened, NEW g, g = File!WithOpened
    PROVE  /\ o \in DOMAIN g /\ Sized(g) /\ Total(g) = Total(size)
           /\ DOMAIN g = DOMAIN size \union {o} /\ g[o] < MaxFileSize
           /\ \A f \in DOMAIN size : g[f] = size[f]
           /\ File!SizeAfterOpen \in Nat
<1>1. IsFiniteSet(DOMAIN size) /\ \A f \in DOMAIN size : size[f] \in Nat
  BY DEF FileInv, FileTypes, Sized
<1>2. File!RoomyOrNew(o)
  BY <1>1, NumberIsFree
<1>3. o \in DOMAIN size => size[o] < MaxFileSize
  BY <1>2 DEF File!RoomyOrNew, File!Roomy, File!Exists
<1>4. g = [f \in DOMAIN size \union {o} |-> IF f = o /\ ~File!Roomy(f) THEN 0 ELSE size[f]]
  BY DEF File!WithOpened
<1>5. DOMAIN g = DOMAIN size \union {o}
  BY <1>4
<1>6. ASSUME NEW f \in DOMAIN size PROVE g[f] = size[f]
  BY <1>3, <1>4 DEF File!Roomy, File!Exists
<1>7. o \notin DOMAIN size => g[o] = 0
  BY <1>4 DEF File!Roomy, File!Exists
<1>8. Sized(g)
  BY <1>1, <1>5, <1>6, <1>7, FS_AddElement DEF Sized
<1>9. Sized(size)
  BY DEF FileInv, FileTypes
<1>10. Total(g) = Total(size) - (IF o \in DOMAIN size THEN size[o] ELSE 0) + g[o]
  BY <1>5, <1>6, <1>8, <1>9, TotalChanges
<1>11. Total(size) \in Nat
  BY DEF FileInv, FileTypes, BytesInv
<1>12. Total(g) = Total(size)
  <2>1. CASE o \in DOMAIN size
    <3>1. PICK a, b : a = Total(size) /\ b = size[o]
      OBVIOUS
    <3>2. a \in Nat /\ b \in Nat /\ Total(g) = a - b + b
      BY <1>1, <1>6, <1>10, <1>11, <2>1, <3>1
    <3>3. QED
      BY <3>1, <3>2
  <2>2. CASE o \notin DOMAIN size
    BY <1>7, <1>10, <1>11, <2>2
  <2>3. QED
    BY <2>1, <2>2
<1>13. g[o] < MaxFileSize
  BY <1>3, <1>6, <1>7 DEF FileConstants
<1>14. File!SizeAfterOpen \in Nat
  BY <1>1 DEF File!SizeAfterOpen, File!Roomy, File!Exists, FileInv, FileTypes
<1>15. QED
  BY <1>5, <1>6, <1>8, <1>12, <1>13, <1>14


LEMMA FileInitialize ==
    ASSUME FileConstants, FileInv, File!Initialize
    PROVE  FileInv'
<1>1. PICK o : o = File!Opened
  OBVIOUS
<1>2. PICK g : g = File!WithOpened
  OBVIOUS
<1>3. /\ o \in DOMAIN g /\ Sized(g) /\ Total(g) = Total(size)
      /\ DOMAIN g = DOMAIN size \union {o} /\ g[o] < MaxFileSize
      /\ \A f \in DOMAIN size : g[f] = size[f]
      /\ File!SizeAfterOpen \in Nat
  BY <1>1, <1>2, OpenKeeps
<1>4. size' = g /\ logFile' = o /\ currentFileSize' = File!SizeAfterOpen /\ now' = now /\ total' = total
  BY <1>1, <1>2 DEF File!Initialize
<1>5. FileTypes'
  BY <1>3, <1>4 DEF FileInv, FileTypes
<1>6. g[o] \in Nat
  BY <1>3 DEF Sized
<1>7. OpenInv'
  BY <1>3, <1>4, <1>6 DEF OpenInv, FileConstants
<1>8. \A f \in DOMAIN g : g[f] < 2 * MaxFileSize
  BY <1>3, <1>6 DEF FileInv, BytesInv, FileConstants
<1>9. BytesInv'
  BY <1>3, <1>4, <1>8 DEF FileInv, BytesInv
<1>10. QED
  BY <1>5, <1>7, <1>9 DEF FileInv

(* A message is added to a file as it is after the opening, if any. *)
Limited(g) == \A f \in DOMAIN g : g[f] < 2 * MaxFileSize
Grown(k, g, o, len, c) ==
    /\ Sized(k) /\ DOMAIN k = DOMAIN g /\ Total(k) = Total(g) + len
    /\ k[o] < c + len + MaxFileSize /\ c + len \in Nat
    /\ \A f \in DOMAIN k : k[f] < 2 * MaxFileSize

LEMMA MessageAdded ==
    ASSUME FileConstants, NEW g, Sized(g), NEW o \in DOMAIN g, NEW len \in Lengths, NEW c \in Nat,
           g[o] < c + MaxFileSize, c + len <= MaxFileSize \/ g[o] < MaxFileSize, Limited(g)
    PROVE  Grown([g EXCEPT ![o] = @ + len], g, o, len, c)
<1> DEFINE k == [g EXCEPT ![o] = @ + len]
<1>1. IsFiniteSet(DOMAIN g) /\ \A f \in DOMAIN g : g[f] \in Nat
  BY DEF Sized
<1>2. len \in Nat /\ len <= MaxFileSize /\ MaxFileSize \in Nat
  BY DEF FileConstants
<1>3. DOMAIN k = DOMAIN g /\ k[o] = g[o] + len /\ \A f \in DOMAIN g : f # o => k[f] = g[f]
  OBVIOUS
<1> HIDE DEF k
<1>4. Sized(k)
  BY <1>1, <1>2, <1>3 DEF Sized
<1>5. DOMAIN k = DOMAIN g \union {o}
  BY <1>3
<1>6. Total(k) = Total(g) - (IF o \in DOMAIN g THEN g[o] ELSE 0) + k[o]
  BY <1>3, <1>4, <1>5, TotalChanges
<1>7. Total(g) \in Nat
  <2>1. IsSums(Sums(g, DOMAIN g), g, DOMAIN g)
    BY <1>1, SumsExist
  <2>2. \A s \in SUBSET DOMAIN g : Sums(g, DOMAIN g)[s] \in Nat
    BY <1>1, <2>1, SumsNatural
  <2>3. QED
    BY <2>2, TotalIsSums, Zenon
<1>8. PICK a, b : a = Total(g) /\ b = g[o]
  OBVIOUS
<1>9. a \in Nat /\ b \in Nat /\ Total(k) = a - b + (b + len)
  BY <1>1, <1>3, <1>6, <1>7, <1>8
<1>10. Total(k) = Total(g) + len
  BY <1>2, <1>8, <1>9
<1>11. k[o] < c + len + MaxFileSize /\ c + len \in Nat
  BY <1>1, <1>2, <1>3
<1>12. k[o] < 2 * MaxFileSize
  BY <1>1, <1>2, <1>3
<1>13. \A f \in DOMAIN k : k[f] < 2 * MaxFileSize
  BY <1>3, <1>12 DEF Limited
<1>14. Grown(k, g, o, len, c)
  BY <1>3, <1>4, <1>10, <1>11, <1>13 DEF Grown
<1>15. QED
  BY <1>14 DEF k

LEMMA FileWriteToFile ==
    ASSUME FileConstants, FileInv, NEW len \in Lengths, File!WriteToFile(len)
    PROVE  FileInv'
<1>1. /\ logFile # File!NoFile /\ logFile \in DOMAIN size /\ total + len <= MaxTotal
      /\ total' = total + len /\ now' = now
  BY DEF File!WriteToFile, FileInv, FileTypes
<1>2. len \in Nat /\ total \in Nat /\ MaxTotal \in Nat
  BY DEF FileConstants, FileInv, FileTypes
<1>3. total + len \in 0..MaxTotal
  BY <1>1, <1>2
<1>4. Sized(size) /\ currentFileSize \in Nat /\ \A f \in DOMAIN size : size[f] < 2 * MaxFileSize
  BY DEF FileInv, FileTypes, BytesInv
<1>5. CASE /\ currentFileSize + len <= MaxFileSize
           /\ size' = [size EXCEPT ![logFile] = @ + len]
           /\ currentFileSize' = currentFileSize + len
           /\ logFile' = logFile
  <2>1. PICK k, o, c : k = [size EXCEPT ![logFile] = @ + len] /\ o = logFile /\ c = currentFileSize
    OBVIOUS
  <2>2. size[o] < c + MaxFileSize /\ c + len <= MaxFileSize
    BY <1>1, <1>5, <2>1 DEF FileInv, OpenInv
  <2>3. k = [size EXCEPT ![o] = @ + len] /\ o \in DOMAIN size /\ c \in Nat
    BY <1>1, <1>4, <2>1
  <2>4. /\ Sized(k) /\ DOMAIN k = DOMAIN size /\ Total(k) = Total(size) + len
        /\ k[o] < c + len + MaxFileSize /\ c + len \in Nat
        /\ \A f \in DOMAIN k : k[f] < 2 * MaxFileSize
    <3>1. Limited(size)
      BY <1>4 DEF Limited
    <3>2. Grown([size EXCEPT ![o] = @ + len], size, o, len, c)
      BY <1>4, <2>2, <2>3, <3>1, MessageAdded
    <3>3. QED
      BY <2>3, <3>2, Zenon DEF Grown
  <2>5. size' = k /\ logFile' = o /\ currentFileSize' = c + len
    BY <1>5, <2>1
  <2>6. FileTypes'
    BY <1>1, <1>3, <2>3, <2>4, <2>5 DEF FileInv, FileTypes
  <2>7. OpenInv'
    BY <2>4, <2>5 DEF OpenInv
  <2>8. BytesInv'
    BY <1>1, <2>4, <2>5 DEF FileInv, BytesInv
  <2>9. QED
    BY <2>6, <2>7, <2>8 DEF FileInv
<1>6. CASE /\ currentFileSize + len > MaxFileSize
           /\ logFile' = File!Opened
           /\ size' = [File!WithOpened EXCEPT ![File!Opened] = @ + len]
           /\ currentFileSize' = File!SizeAfterOpen + len
  <2>1. PICK o : o = File!Opened
    OBVIOUS
  <2>2. PICK g : g = File!WithOpened
    OBVIOUS
  <2>3. PICK c : c = File!SizeAfterOpen
    OBVIOUS
  <2>4. /\ o \in DOMAIN g /\ Sized(g) /\ Total(g) = Total(size)
        /\ DOMAIN g = DOMAIN size \union {o} /\ g[o] < MaxFileSize
        /\ \A f \in DOMAIN size : g[f] = size[f]
        /\ File!SizeAfterOpen \in Nat
    BY <2>1, <2>2, OpenKeeps
  <2>5. PICK k : k = [g EXCEPT ![o] = @ + len]
    OBVIOUS
  <2>6. g[o] \in Nat /\ g[o] < c + MaxFileSize /\ c \in Nat
    BY <2>3, <2>4 DEF Sized, FileConstants
  <2>7. \A f \in DOMAIN g : g[f] < 2 * MaxFileSize
    BY <1>4, <2>4, <2>6 DEF FileConstants
  <2>8. /\ Sized(k) /\ DOMAIN k = DOMAIN g /\ Total(k) = Total(g) + len
        /\ k[o] < c + len + MaxFileSize /\ c + len \in Nat
        /\ \A f \in DOMAIN k : k[f] < 2 * MaxFileSize
    <3>1. Limited(g)
      BY <2>7 DEF Limited
    <3>2. Grown([g EXCEPT ![o] = @ + len], g, o, len, c)
      BY <2>4, <2>6, <3>1, MessageAdded
    <3>3. QED
      BY <2>5, <3>2, Zenon DEF Grown
  <2>9. size' = k /\ logFile' = o /\ currentFileSize' = c + len
    BY <1>6, <2>1, <2>2, <2>3, <2>5, Zenon
  <2>10. FileTypes'
    BY <1>1, <1>3, <2>4, <2>8, <2>9 DEF FileInv, FileTypes
  <2>11. OpenInv'
    BY <2>8, <2>9 DEF OpenInv
  <2>12. BytesInv'
    BY <1>1, <2>4, <2>8, <2>9 DEF FileInv, BytesInv
  <2>13. QED
    BY <2>10, <2>11, <2>12 DEF FileInv
<1>7. QED
  BY <1>5, <1>6, Zenon DEF File!WriteToFile

(* The other operations close a file or let time pass; the sizes stay. *)
LEMMA FileRest ==
    ASSUME FileConstants, FileInv,
           \/ File!Shutdown \/ File!Tick \/ (\E len \in Lengths : File!OpenThrows(len))
           \/ UNCHANGED File!vars
    PROVE  FileInv'
<1>1. size' = size /\ total' = total /\ now' \in 0..MaxTime
  BY DEF File!Shutdown, File!Tick, File!OpenThrows, File!vars, FileConstants, FileInv, FileTypes
<1>2. \/ logFile' = File!NoFile /\ currentFileSize' = 0
      \/ logFile' = logFile /\ currentFileSize' = currentFileSize
  BY DEF File!Shutdown, File!Tick, File!OpenThrows, File!vars
<1>3. FileTypes'
  BY <1>1, <1>2 DEF FileInv, FileTypes
<1>4. OpenInv'
  BY <1>1, <1>2 DEF FileInv, OpenInv
<1>5. BytesInv'
  BY <1>1 DEF FileInv, BytesInv
<1>6. QED
  BY <1>3, <1>4, <1>5 DEF FileInv

LEMMA FilePreserves ==
    ASSUME FileConstants
    PROVE  FileInv /\ [File!Next]_File!vars => FileInv'
<1> SUFFICES ASSUME FileInv, [File!Next]_File!vars PROVE FileInv'
  OBVIOUS
<1>1. CASE File!Initialize
  BY <1>1, FileInitialize
<1>2. CASE \E len \in Lengths : File!WriteToFile(len)
  BY <1>2, FileWriteToFile
<1>3. CASE \/ File!Shutdown \/ File!Tick \/ (\E len \in Lengths : File!OpenThrows(len))
           \/ UNCHANGED File!vars
  BY <1>3, FileRest
<1>4. QED
  BY <1>1, <1>2, <1>3, Zenon DEF File!Next

LEMMA FileSeen == FileInv => File!TypeOK /\ File!FilesKeepBytes
<1> SUFFICES ASSUME FileInv PROVE File!TypeOK /\ File!FilesKeepBytes
  OBVIOUS
<1>1. File!TypeOK
  BY DEF FileInv, FileTypes, Sized, File!TypeOK
<1>2. File!FilesKeepBytes
  BY Zenon DEF FileInv, BytesInv, Total, File!FilesKeepBytes
<1>3. QED
  BY <1>1, <1>2

(* Rotations and restarts meet files that exist, with a currentFileSize    *)
(* that may be less than the file's size: no byte is lost, and no file     *)
(* reaches twice the limit (WriteToFile, OpenNewLogFile), for any limit,   *)
(* lengths of messages and number of files in a second.                    *)
THEOREM FilesKeepAllBytes ==
    ASSUME FileConstants
    PROVE  File!Spec => [](File!TypeOK /\ File!FilesKeepBytes)
<1>1. File!Init => FileInv
  BY FileInit
<1>2. FileInv /\ [File!Next]_File!vars => FileInv'
  BY FilePreserves
<1>3. FileInv => File!TypeOK /\ File!FilesKeepBytes
  BY FileSeen
<1>4. QED
  BY <1>1, <1>2, <1>3, PTL DEF File!Spec

(* Ring and files together: what was accepted is written once and in       *)
(* order, and stays written (LogAsync, LoggerThreadFunc, OpenNewLogFile).  *)
THEOREM LoggerKeepsMessages ==
    ASSUME LogConstants, FileConstants
    PROVE  Log!Spec /\ File!Spec => []LogKeepsMessages
<1>1. Log!Spec => []Log!FileHasAcceptedInOrder
    BY LogFileInOrder DEF LogConstants
<1>2. File!Spec => [](File!TypeOK /\ File!FilesKeepBytes)
    BY FilesKeepAllBytes
<1>3. Log!FileHasAcceptedInOrder /\ (File!TypeOK /\ File!FilesKeepBytes) => LogKeepsMessages
    BY DEF LogKeepsMessages
<1>4. QED  BY <1>1, <1>2, <1>3, PTL

-----------------------------------------------------------------------------
(***************************************************************************)
(* LFStack as a part of Engine.                                            *)
(***************************************************************************)
SP == INSTANCE LockFreeProofs WITH
    Threads <- Callers, made <- stackMade, pc <- stackPc, mine <- stackMine

(* LockFreeProofs' copies of LFStack's actions are those of Engine's. *)
LEMMA StackInits == Stack!Init => SP!Init
  BY DEF Stack!Init, SP!Init, Stack!Lists, SP!Lists, Stack!NoCopy, SP!NoCopy

LEMMA StackSteps == [Stack!Next]_Stack!vars => [SP!Next]_SP!vars
    BY Zenon DEF Stack!Next, SP!Next, Stack!vars, SP!vars,
       Stack!PushStep, SP!PushStep, Stack!PopStep, SP!PopStep,
       Stack!AllocStep, SP!AllocStep, Stack!FreeStep, SP!FreeStep,
       Stack!Push, SP!Push, Stack!Pop, SP!Pop, Stack!Begin, SP!Begin,
       Stack!ReadTop, SP!ReadTop, Stack!NewNode, SP!NewNode,
       Stack!ReadNext, SP!ReadNext, Stack!Cas, SP!Cas,
       Stack!CountAlloc, SP!CountAlloc, Stack!CountPush, SP!CountPush,
       Stack!CountPop, SP!CountPop, Stack!CountFree, SP!CountFree,
       Stack!ListOf, SP!ListOf, Stack!Takes, SP!Takes, Stack!NoCopy, SP!NoCopy,
       Stack!NextStamp, SP!NextStamp, Stack!Rivals, SP!Rivals

LEMMA StackIs ==
    /\ SP!NodesConserved => NodesConserved
    /\ SP!TypeOK => Stack!TypeOK
<1>1. SP!NodesConserved => NodesConserved
    BY Zenon DEF SP!NodesConserved, NodesConserved, Stack!NodesConserved, Stack!Lists, SP!Lists,
       Stack!Walk, SP!Walk, Stack!Listed, SP!Listed, Stack!Held, SP!Held, SP!Cardinality, Stack!Cardinality
<1>2. SP!TypeOK => Stack!TypeOK
    BY Zenon DEF SP!TypeOK, Stack!TypeOK, SP!Lists, Stack!Lists, SP!Tops, Stack!Tops, SP!Ops, Stack!Ops
<1>3. QED  BY <1>1, <1>2

LEMMA StackConstantsHold ==
    ASSUME Null \notin Nodes, IsFiniteSet(Nodes), IsFiniteSet(Callers), Stamps \in Nat \ {0}
    PROVE  SP!StackConstants
    BY Zenon DEF SP!StackConstants, SP!IsFiniteSet, IsFiniteSet

(* Each node of the stack and its pool is in one place, no list has a      *)
(* cycle or a lost tail, and at rest the counters are exact (LFStack,      *)
(* LFObjectPool), for any threads, nodes and number of stamps.             *)
THEOREM StackKeepsNodes ==
    ASSUME Null \notin Nodes, IsFiniteSet(Nodes), IsFiniteSet(Callers), Stamps \in Nat \ {0}
    PROVE  Stack!Spec => []NodesConserved
<1>1. SP!StackConstants
    BY StackConstantsHold
<1>2. SP!Spec => [](SP!TypeOK /\ SP!NodesConserved)
    BY <1>1, SP!StackConservesNodes
<1>3. SP!NodesConserved => NodesConserved
    BY StackIs
<1>4. SP!Init /\ [][SP!Next]_SP!vars => SP!Spec
    BY DEF SP!Spec
<1>5. QED  BY <1>2, <1>3, <1>4, StackInits, StackSteps, PTL DEF Stack!Spec

-----------------------------------------------------------------------------
(***************************************************************************)
(* The engine as a whole.                                                  *)
(***************************************************************************)

(* A step of Engine is a step of the part a behaviour is about and leaves  *)
(* the variables of the others as they are.                                *)
LEMMA StepOfStack == [EngineNext]_engineVars => [Stack!Next]_Stack!vars
    BY Zenon DEF EngineNext, StackStep, PoolStep, LogStep, FileStep, JobStep, LockStep, OnceStep,
       ServerStep, WindowStep, engineVars, stackVars, Stack!vars

LEMMA StepOfPool == [EngineNext]_engineVars => [Pool!Next]_Pool!vars
    BY Zenon DEF EngineNext, StackStep, PoolStep, LogStep, FileStep, JobStep, LockStep, OnceStep,
       ServerStep, WindowStep, engineVars, poolVars, Pool!vars

LEMMA StepOfLog == [EngineNext]_engineVars => [Log!Next]_Log!vars
    BY Zenon DEF EngineNext, StackStep, PoolStep, LogStep, FileStep, JobStep, LockStep, OnceStep,
       ServerStep, WindowStep, engineVars, logVars, Log!vars

LEMMA StepOfFile == [EngineNext]_engineVars => [File!Next]_File!vars
    BY Zenon DEF EngineNext, StackStep, PoolStep, LogStep, FileStep, JobStep, LockStep, OnceStep,
       ServerStep, WindowStep, engineVars, fileVars, File!vars

LEMMA StepOfJob == [EngineNext]_engineVars => [Job!Next]_Job!vars
    BY Zenon DEF EngineNext, StackStep, PoolStep, LogStep, FileStep, JobStep, LockStep, OnceStep,
       ServerStep, WindowStep, engineVars, jobVars, Job!vars

LEMMA StepOfLock == [EngineNext]_engineVars => [RLock!Next]_RLock!vars
    BY Zenon DEF EngineNext, StackStep, PoolStep, LogStep, FileStep, JobStep, LockStep, OnceStep,
       ServerStep, WindowStep, engineVars, lockVars, RLock!vars

LEMMA StepOfOnce == [EngineNext]_engineVars => [Once!Next]_Once!vars
    BY Zenon DEF EngineNext, StackStep, PoolStep, LogStep, FileStep, JobStep, LockStep, OnceStep,
       ServerStep, WindowStep, engineVars, onceVars, Once!vars

LEMMA StepOfServer == [EngineNext]_engineVars => [Next]_vars
    BY Zenon DEF EngineNext, StackStep, PoolStep, LogStep, FileStep, JobStep, LockStep, OnceStep,
       ServerStep, WindowStep, engineVars, serverVars

LEMMA StepOfWindow == [EngineNext]_engineVars => [Window!Next]_Window!vars
    BY Zenon DEF EngineNext, StackStep, PoolStep, LogStep, FileStep, JobStep, LockStep, OnceStep,
       ServerStep, WindowStep, engineVars, windowVars, Window!vars

EngineConstants ==
    /\ Null \notin Nodes /\ IsFiniteSet(Nodes) /\ IsFiniteSet(Callers) /\ Stamps \in Nat \ {0}
    /\ ChunkSize \in Nat \ {0} /\ Null \notin Chunks
    /\ LogConstants /\ FileConstants /\ ServerConstants /\ WindowConstants
    /\ IsFiniteSet(PoolWorkers) /\ MaxJobs \in Nat /\ Releases \in Nat
    /\ IsFiniteSet(Lockers) /\ Nobody \notin Lockers /\ MaxDepth \in Nat \ {0}
    /\ MaxInits \in Nat /\ Overlap = FALSE

EngineInv ==
    /\ SP!StackInv /\ ChunkInv /\ BoundInv /\ FileInv /\ PoolInv
    /\ LockInv /\ OnceInv /\ ServerInv /\ WindowInv

(* Everything a program of the repository runs on keeps its promises at    *)
(* once: the invariants of the parts hold side by side, since no part      *)
(* touches another's state (LFStack, LFObjectPoolTLS, Logger, JobQueue and *)
(* ThreadPool, RecursiveLock, OnceInitializer, Server, TimeWindowCounter). *)
THEOREM EngineKeepsPromises ==
    ASSUME EngineConstants
    PROVE  EngineSpec => [](/\ TypesOK /\ NodesConserved /\ ChunksRecycledOnce /\ LogKeepsMessages
                            /\ TokenPerJob /\ OwnersHold /\ ServerAccepts /\ WindowCounts)
<1> USE DEF EngineConstants
<1>1. SP!StackConstants
    BY StackConstantsHold
<1>2. EngineInit => EngineInv
  <2> SUFFICES ASSUME EngineInit PROVE EngineInv
      OBVIOUS
  <2>1. SP!StackInv
      BY <1>1, StackInits, SP!StackInit, Zenon DEF EngineInit
  <2>2. ChunkInv /\ BoundInv
      BY ChunkInit, BoundInit, Zenon DEF EngineInit
  <2>3. FileInv /\ PoolInv
      BY FileInit, PoolInit, Zenon DEF EngineInit
  <2>4. LockInv /\ OnceInv
      BY LockInit, OnceInitially, Zenon DEF EngineInit
  <2>5. ServerInv /\ WindowInv
      BY ServerInit, WindowInit, Zenon DEF EngineInit
  <2>6. QED  BY <2>1, <2>2, <2>3, <2>4, <2>5, Zenon DEF EngineInv
<1>3. EngineInv /\ [EngineNext]_engineVars => EngineInv'
  <2> SUFFICES ASSUME EngineInv, [EngineNext]_engineVars PROVE EngineInv'
      OBVIOUS
  <2>1. SP!StackInv'
      BY <1>1, StepOfStack, StackSteps, SP!StackStep, Zenon DEF EngineInv
  <2>2. ChunkInv'
      BY StepOfPool, ChunkPreserves, Zenon DEF EngineInv
  <2>3. BoundInv'
      BY StepOfLog, BoundPreserves, Zenon DEF EngineInv
  <2>4. FileInv'
      BY StepOfFile, FilePreserves, Zenon DEF EngineInv
  <2>5. PoolInv'
      BY StepOfJob, PoolTypesStep, PoolTokensStep, PoolPlacesStep, Zenon DEF EngineInv, PoolInv
  <2>6. LockInv'
      BY StepOfLock, LockPreserves, Zenon DEF EngineInv
  <2>7. OnceInv'
      BY StepOfOnce, OncePreserves, Zenon DEF EngineInv
  <2>8. ServerInv'
      BY StepOfServer, ServerPreserves, Zenon DEF EngineInv
  <2>9. WindowInv'
      BY StepOfWindow, WindowPreserves, Zenon DEF EngineInv
  <2>10. QED
      BY <2>1, <2>2, <2>3, <2>4, <2>5, <2>6, <2>7, <2>8, <2>9, Zenon DEF EngineInv
<1>4. ASSUME EngineInv
      PROVE  /\ TypesOK /\ NodesConserved /\ ChunksRecycledOnce /\ LogKeepsMessages
             /\ TokenPerJob /\ OwnersHold /\ ServerAccepts /\ WindowCounts
  <2>1. Stack!TypeOK /\ NodesConserved
      BY <1>1, <1>4, SP!StackSeen, StackIs, Zenon DEF EngineInv
  <2>2. Pool!TypeOK /\ ChunksRecycledOnce
      BY <1>4, ChunkSeen, Zenon DEF EngineInv
  <2>3. Log!TypeOK /\ Log!FileHasAcceptedInOrder
      BY <1>4, BoundSeen, Zenon DEF EngineInv
  <2>4. File!TypeOK /\ File!FilesKeepBytes
      BY <1>4, FileSeen, Zenon DEF EngineInv
  <2>5. Job!TypeOK /\ TokenPerJob
      BY <1>4, PoolSeen, Zenon DEF EngineInv
  <2>6. RLock!TypeOK /\ RLock!OwnerIsNamed
      BY <1>4 DEF EngineInv, LockInv, RLock!TypeOK, RLock!OwnerIsNamed, Inside
  <2>7. Once!TypeOK /\ Once!HoldersHaveResource
      BY <1>4, OnceSeen, Zenon DEF EngineInv
  <2>8. TypeOK /\ ServerAccepts
      BY <1>4, ServerTyped, ServerSeen, Zenon DEF EngineInv
  <2>9. Window!TypeOK /\ WindowCounts
      BY <1>4, WindowAverage DEF EngineInv, WindowInv, WindowTypes, Window!TypeOK
  <2>10. QED
      BY <2>1, <2>2, <2>3, <2>4, <2>5, <2>6, <2>7, <2>8, <2>9, Zenon
      DEF TypesOK, LogKeepsMessages, OwnersHold
<1>5. QED  BY <1>2, <1>3, <1>4, PTL DEF EngineSpec
=============================================================================
