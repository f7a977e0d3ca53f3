-------------------------------- MODULE Server --------------------------------
(***************************************************************************)
(* A server's life: StartServer and its ladder of failures, the chain of   *)
(* AcceptEx calls that the workers keep alive (Server::PostAcceptEx and    *)
(* IOCPManager::HandleAcceptComplete), StopServer, and the worker pool's   *)
(* Shutdown with its quit packets.  A socket is its handle value, and the  *)
(* system may give a closed value out again at once.  What a connected     *)
(* session does is module Session; the kernel is external.                 *)
(***************************************************************************)
EXTENDS Naturals, Sequences, FiniteSets

CONSTANTS Workers,          \* IOCP worker threads
          Main,             \* the thread that starts and stops the server
          Sockets,          \* socket handle values
          Sessions,         \* Session objects; one that is gone is used again
          Invalid,          \* INVALID_SOCKET, and no session
          MaxClients,       \* bound: connections clients attempt
          MaxStarts         \* bound: calls of StartServer

VARIABLES running, gameThreads, listenSocket,
          listening,        \* the handle the kernel listens on, as a set
          open,             \* handles that are open
          phase, sock,      \* per session: where it stands, and sock_
          port,             \* the completion port: sessions and quit packets
          good,             \* sessions whose accept found a client
          pc, cur,          \* per thread: place, and the session it handles
          post,             \* per thread: the session PostAcceptEx made
          broken,           \* an AcceptEx could not be posted since the start
          shutdown, clients, starts

server == <<running, gameThreads, listenSocket, broken, shutdown, starts>>
kernel == <<open, listening, phase, sock>>
queue == <<port, good, clients>>
threads == <<pc, cur, post>>
vars == <<server, kernel, queue, threads>>

Threads == Workers \union {Main}
Quit == "quit"

Init ==
    /\ running = FALSE /\ gameThreads = FALSE /\ listenSocket = Invalid /\ listening = {}
    /\ open = {} /\ phase = [s \in Sessions |-> "none"] /\ sock = [s \in Sessions |-> Invalid]
    /\ port = <<>> /\ good = {}
    /\ pc = [t \in Threads |-> "idle"] /\ cur = [t \in Threads |-> Invalid]
    /\ post = [t \in Threads |-> Invalid]
    /\ broken = FALSE /\ shutdown = FALSE /\ clients = 0 /\ starts = 0

Goto(t, label) == pc' = [pc EXCEPT ![t] = label]

(* The sessions `gone' are destroyed (~Session closes their handles) and   *)
(* the handles hs closed.  What is pending on a closed handle, as listener *)
(* or as the socket to be accepted, is aborted.                            *)
Close(hs, gone) ==
    LET all == hs \union {sock[s] : s \in gone} IN
    /\ open' = open \ all
    /\ listening' = listening \ all
    /\ phase' = [s \in Sessions |->
                    IF s \in gone THEN "none"
                    ELSE IF phase[s] = "pending" /\ (sock[s] \in all \/ listening \cap all # {})
                    THEN "aborted" ELSE phase[s]]
    /\ sock' = [s \in Sessions |-> IF s \in gone THEN Invalid ELSE sock[s]]

----------------------------------------------------------------------------
(* StartServer: the test of running, StartGameThreads. *)
StartServer ==
    /\ pc[Main] = "idle" /\ ~shutdown /\ ~running /\ starts < MaxStarts
    /\ starts' = starts + 1 /\ gameThreads' = TRUE
    /\ Goto(Main, "socket")
    /\ UNCHANGED <<running, listenSocket, broken, shutdown, kernel, queue, cur, post>>

CreateListenSocket ==
    /\ pc[Main] = "socket"
    /\ \E h \in Sockets \ open : listenSocket' = h /\ open' = open \union {h}
    /\ Goto(Main, "prepare")
    /\ UNCHANGED <<running, gameThreads, broken, shutdown, starts, listening, phase, sock, queue, cur, post>>

CreateListenSocketFails ==
    /\ pc[Main] = "socket"
    /\ listenSocket' = Invalid /\ gameThreads' = FALSE
    /\ Goto(Main, "idle")
    /\ UNCHANGED <<running, broken, shutdown, starts, kernel, queue, cur, post>>

(* bind, listen, LoadAcceptExFunctions, RegisterSocket; then the server    *)
(* counts as running and posts the first accept.                           *)
Listen ==
    /\ pc[Main] = "prepare"
    /\ listening' = {listenSocket} \cap open
    /\ running' = TRUE /\ broken' = FALSE
    /\ Goto(Main, "create")
    /\ UNCHANGED <<gameThreads, listenSocket, shutdown, starts, open, phase, sock, queue, cur, post>>

(* Any of them fails: the socket is closed, but listenSocket keeps it. *)
ListenFails ==
    /\ pc[Main] = "prepare"
    /\ Close({listenSocket}, {})
    /\ gameThreads' = FALSE
    /\ Goto(Main, "idle")
    /\ UNCHANGED <<running, listenSocket, broken, shutdown, starts, queue, cur, post>>

----------------------------------------------------------------------------
(* One of the objects not in use: they are all alike. *)
FreshSession == CHOOSE s \in Sessions : phase[s] = "none"

(* PostAcceptEx: a socket, registered, and a session that holds it. *)
CreateAcceptSocket(t) ==
    /\ pc[t] = "create" /\ \E s \in Sessions : phase[s] = "none"
    /\ \E h \in Sockets \ open : LET s == FreshSession IN
          /\ open' = open \union {h}
          /\ sock' = [sock EXCEPT ![s] = h]
          /\ phase' = [phase EXCEPT ![s] = "made"]
          /\ post' = [post EXCEPT ![t] = s]
    /\ Goto(t, "accept")
    /\ UNCHANGED <<server, listening, queue, cur>>

(* PostAcceptEx returned false: StartServer undoes everything, the handler *)
(* of an accept only says so.                                              *)
AfterFailure(t) == Goto(t, IF t = Main THEN "undo" ELSE "release") /\ broken' = (broken \/ running)

CreateAcceptSocketFails(t) ==
    /\ pc[t] = "create"
    /\ AfterFailure(t)
    /\ UNCHANGED <<running, gameThreads, listenSocket, shutdown, starts, kernel, queue, cur, post>>

AcceptEx(t) ==
    /\ pc[t] = "accept" /\ listenSocket \in listening
    /\ phase' = [phase EXCEPT ![post[t]] = IF sock[post[t]] \in open THEN "pending" ELSE "aborted"]
    /\ post' = [post EXCEPT ![t] = Invalid]
    /\ Goto(t, IF t = Main THEN "idle" ELSE "release")
    /\ UNCHANGED <<server, open, listening, sock, queue, cur>>

(* AcceptEx fails: closesocket, and once more in ~Session when the         *)
(* OverlappedEx is deleted.                                                *)
AcceptExFails(t) ==
    /\ pc[t] = "accept"
    /\ Close({sock[post[t]]}, {})
    /\ Goto(t, "drop")
    /\ UNCHANGED <<server, queue, cur, post>>

DropPosted(t) ==
    /\ pc[t] = "drop"
    /\ Close({}, {post[t]})
    /\ post' = [post EXCEPT ![t] = Invalid]
    /\ AfterFailure(t)
    /\ UNCHANGED <<running, gameThreads, listenSocket, shutdown, starts, queue, cur>>

StartFails ==
    /\ pc[Main] = "undo"
    /\ running' = FALSE /\ gameThreads' = FALSE
    /\ Close({listenSocket}, {})
    /\ Goto(Main, "idle")
    /\ UNCHANGED <<listenSocket, broken, shutdown, starts, queue, cur, post>>

----------------------------------------------------------------------------
(* StopServer: running.exchange(false), StopGameThreads, closesocket, and  *)
(* only then listenSocket = INVALID_SOCKET.                                *)
StopServer ==
    /\ pc[Main] = "idle" /\ running /\ ~shutdown
    /\ running' = FALSE
    /\ Goto(Main, "stopThreads")
    /\ UNCHANGED <<gameThreads, listenSocket, broken, shutdown, starts, kernel, queue, cur, post>>

StopGameThreads ==
    /\ pc[Main] = "stopThreads"
    /\ gameThreads' = FALSE
    /\ Goto(Main, "closeListen")
    /\ UNCHANGED <<running, listenSocket, broken, shutdown, starts, kernel, queue, cur, post>>

CloseListenSocket ==
    /\ pc[Main] = "closeListen"
    /\ Close({listenSocket}, {})
    /\ Goto(Main, "forget")
    /\ UNCHANGED <<server, queue, cur, post>>

ForgetListenSocket ==
    /\ pc[Main] = "forget"
    /\ listenSocket' = Invalid
    /\ Goto(Main, "idle")
    /\ UNCHANGED <<running, gameThreads, broken, shutdown, starts, kernel, queue, cur, post>>

(* IOCPManager::Shutdown, after StopServer: one quit packet per worker,    *)
(* join them, CloseHandle.                                                 *)
Shutdown ==
    /\ pc[Main] = "idle" /\ ~running /\ ~shutdown
    /\ shutdown' = TRUE
    /\ port' = port \o [i \in 1..Cardinality(Workers) |-> Quit]
    /\ Goto(Main, "join")
    /\ UNCHANGED <<running, gameThreads, listenSocket, broken, starts, kernel, good, clients, cur, post>>

JoinWorkers ==
    /\ pc[Main] = "join" /\ \A w \in Workers : pc[w] = "exited"
    /\ Goto(Main, "closed")
    /\ UNCHANGED <<server, kernel, queue, cur, post>>

----------------------------------------------------------------------------
(* The kernel: a client is accepted into a pending session, or an aborted  *)
(* accept completes without one.                                           *)
ClientConnects(s) ==
    /\ phase[s] = "pending" /\ clients < MaxClients
    /\ clients' = clients + 1
    /\ good' = good \union {s}
    /\ phase' = [phase EXCEPT ![s] = "queued"]
    /\ port' = Append(port, s)
    /\ UNCHANGED <<server, open, listening, sock, threads>>

AcceptAborts(s) ==
    /\ phase[s] = "aborted"
    /\ phase' = [phase EXCEPT ![s] = "queued"]
    /\ port' = Append(port, s)
    /\ UNCHANGED <<server, open, listening, sock, good, clients, threads>>

(* RunWorkerThread: GetQueuedCompletionStatus; a quit packet is posted     *)
(* again for the others.                                                   *)
WorkerQuits(w) ==
    /\ pc[w] = "idle" /\ port # <<>> /\ Head(port) = Quit
    /\ port' = Append(Tail(port), Quit)
    /\ Goto(w, "exited")
    /\ UNCHANGED <<server, kernel, good, clients, cur, post>>

WorkerTakes(w) ==
    /\ pc[w] = "idle" /\ port # <<>> /\ Head(port) # Quit
    /\ cur' = [cur EXCEPT ![w] = Head(port)]
    /\ phase' = [phase EXCEPT ![Head(port)] = "handled"]
    /\ port' = Tail(port)
    /\ Goto(w, "context")
    /\ UNCHANGED <<server, open, listening, sock, good, clients, post>>

(* HandleAcceptComplete: SO_UPDATE_ACCEPT_CONTEXT and getpeername succeed; *)
(* User, Session::Set, OnSessionConnect, RecvAsync.                        *)
Connected(w) ==
    /\ pc[w] = "context" /\ cur[w] \in good
    /\ sock[cur[w]] \in open /\ listenSocket \in listening
    /\ phase' = [phase EXCEPT ![cur[w]] = "connected"]
    /\ good' = good \ {cur[w]}
    /\ Goto(w, "create")
    /\ UNCHANGED <<server, open, listening, sock, port, clients, cur, post>>

HandshakeFailsForGood(w) ==
    /\ pc[w] = "context"
    /\ Close({sock[cur[w]]}, {})
    /\ good' = good \ {cur[w]}
    /\ Goto(w, "release")
    /\ UNCHANGED <<server, port, clients, cur, post>>

(* One of them fails: the socket is closed; the next accept is posted all  *)
(* the same.                                                               *)
HandshakeFails(w) ==
    /\ pc[w] = "context"
    /\ Close({sock[cur[w]]}, {})
    /\ good' = good \ {cur[w]}
    /\ Goto(w, "create")
    /\ UNCHANGED <<server, port, clients, cur, post>>

(* delete p_overlapped: a session that did not connect is destroyed, and   *)
(* ~Session closes its handle once more.                                   *)
ReleaseOverlapped(w) ==
    /\ pc[w] = "release"
    /\ Close({}, IF phase[cur[w]] = "handled" THEN {cur[w]} ELSE {})
    /\ cur' = [cur EXCEPT ![w] = Invalid]
    /\ Goto(w, "idle")
    /\ UNCHANGED <<server, queue, post>>

(* A connected session's last reference goes (module Session). *)
SessionEnds(s) ==
    /\ phase[s] = "connected" /\ \A w \in Workers : cur[w] # s
    /\ Close({}, {s})
    /\ UNCHANGED <<server, queue, threads>>

----------------------------------------------------------------------------
MainStep ==
    \/ CreateListenSocket \/ CreateListenSocketFails \/ Listen \/ ListenFails \/ StartFails
    \/ StopGameThreads \/ CloseListenSocket \/ ForgetListenSocket \/ JoinWorkers

PostStep(t) ==
    CreateAcceptSocket(t) \/ CreateAcceptSocketFails(t) \/ AcceptEx(t) \/ AcceptExFails(t) \/ DropPosted(t)

WorkerStep(w) ==
    WorkerQuits(w) \/ WorkerTakes(w) \/ Connected(w) \/ HandshakeFails(w) \/ ReleaseOverlapped(w)

Next ==
    \/ StartServer \/ StopServer \/ Shutdown \/ MainStep
    \/ \E t \in Threads : PostStep(t)
    \/ \E w \in Workers : WorkerStep(w)
    \/ \E s \in Sessions : ClientConnects(s) \/ AcceptAborts(s) \/ SessionEnds(s)

(* Threads run and aborted accepts complete; nobody has to start or stop   *)
(* the server, no client has to come or go.                                *)
Fairness ==
    /\ WF_vars(MainStep)
    /\ \A t \in Threads : WF_vars(PostStep(t))
    /\ \A w \in Workers : WF_vars(WorkerStep(w))
    /\ \A s \in Sessions : WF_vars(AcceptAborts(s))

Spec == Init /\ [][Next]_vars /\ Fairness

----------------------------------------------------------------------------
TypeOK ==
    /\ {running, gameThreads, broken, shutdown} \subseteq BOOLEAN
    /\ listenSocket \in Sockets \union {Invalid} /\ open \subseteq Sockets /\ listening \subseteq open
    /\ phase \in [Sessions -> {"none", "made", "pending", "aborted", "queued", "handled", "connected"}]
    /\ sock \in [Sessions -> Sockets \union {Invalid}]
    /\ \A i \in DOMAIN port : port[i] \in Sessions \union {Quit}
    /\ good \subseteq Sessions /\ cur \in [Threads -> Sessions \union {Invalid}]
    /\ post \in [Threads -> Sessions \union {Invalid}]

Accepting == \E s \in Sessions : phase[s] \in {"made", "pending", "aborted", "queued", "handled"}

(* As long as no AcceptEx could not be posted, a running server always has *)
(* one on its way, whatever handshakes failed and whoever stopped and      *)
(* started it: it does not go deaf with nothing in the log.                *)
AcceptChainAlive ==
    running /\ pc[Main] = "idle" /\ ~broken => Accepting \/ \E w \in Workers : pc[w] = "create"

(* No handle is lost: what is open is the listen socket of a server that   *)
(* runs or is about to, or belongs to a session that will close it.  In    *)
(* particular a failed StartServer leaves nothing behind.                  *)
SocketsAccounted ==
    open \subseteq {sock[s] : s \in Sessions}
                   \union (IF running \/ pc[Main] # "idle" THEN {listenSocket} ELSE {})

(* A running server can be reached, and no socket is lost.                 *)
ServerAccepts == AcceptChainAlive /\ SocketsAccounted

(* Once stopped, the accept chain comes to its end (if the workers are not *)
(* sent home before and the server not started again), and Shutdown comes  *)
(* back from joining the workers however many completions are queued.      *)
ServerProgress ==
    /\ (~running /\ pc[Main] = "idle") ~> (~Accepting \/ pc[Main] # "idle" \/ shutdown)
    /\ shutdown ~> (pc[Main] = "closed")
=============================================================================
