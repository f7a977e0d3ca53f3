------------------------------ MODULE GameServer ------------------------------
(***************************************************************************)
(* The game server's users and players: GameServer.cpp (the packet         *)
(* handlers and OnUserDisconnect), Player (what it tells the clients when  *)
(* it enters, leaves and moves) and MoveComponent with its two events.     *)
(* There is one scene, number 0, on one GameThread: the thread runs the    *)
(* players' jobs one at a time, in the order of each player's queue        *)
(* (module JobSystem), and between them the fixed updates.  A user's       *)
(* packets are handled one after the other, and its disconnection last     *)
(* (module Session).  A user has at most one player, so the user stands    *)
(* for it; positions lie on a line, one step of movement apart.            *)
(***************************************************************************)
EXTENDS Naturals, Sequences, SequencesExt, FiniteSetsExt

CONSTANTS Users,
          Points,           \* positions, from Spawn = 0
          Asks,             \* scene ids clients ask to change to; asking for 0, the
                            \* scene they are in, would enter the player twice
          MaxMoves          \* bound: requests per user that post jobs

VARIABLES conn,             \* per user: "new", "on" (OnSessionConnect), "off"
          currentSessions, nextPlayerId,
          playerId,         \* User::player_id_
          player,           \* User::player_ # nullptr
          alive,            \* the Player object exists
          queue,            \* its jobs
          objects,          \* GameScene::m_objects
          pos, dest, arrived,   \* MoveComponent; arrived = m_arrivedNotified
          known,            \* per client: players that appeared to it
          told,             \* per client: last position it was told of each
          moves

vars == <<conn, currentSessions, nextPlayerId, playerId, player, alive, queue, objects,
          pos, dest, arrived, known, told, moves>>
users == <<conn, currentSessions, nextPlayerId, playerId, player, moves>>
world == <<objects, pos, dest, arrived, known, told>>

Spawn == 0
Job(kind, at) == [kind |-> kind, at |-> at]

Init ==
    /\ conn = [u \in Users |-> "new"] /\ currentSessions = 0 /\ nextPlayerId = 1
    /\ playerId = [u \in Users |-> 0]
    /\ player = [u \in Users |-> FALSE] /\ alive = [u \in Users |-> FALSE]
    /\ queue = [u \in Users |-> <<>>] /\ objects = <<>>
    /\ pos = [u \in Users |-> Spawn] /\ dest = [u \in Users |-> Spawn] /\ arrived = [u \in Users |-> TRUE]
    /\ known = [u \in Users |-> {}] /\ told = [u \in Users |-> [v \in Users |-> Spawn]]
    /\ moves = [u \in Users |-> 0]

----------------------------------------------------------------------------
(* The handlers, on IOCP workers. *)
OnSessionConnect(u) ==
    /\ conn[u] = "new"
    /\ conn' = [conn EXCEPT ![u] = "on"]
    /\ currentSessions' = currentSessions + 1
    /\ UNCHANGED <<nextPlayerId, playerId, player, alive, queue, world, moves>>

GeneratePlayerId == nextPlayerId' = nextPlayerId + 1

(* A second login is an error and changes nothing; so do the refusals of   *)
(* the other handlers.                                                     *)
HandleLoginRequest(u) ==
    /\ conn[u] = "on" /\ playerId[u] = 0
    /\ playerId' = [playerId EXCEPT ![u] = nextPlayerId] /\ GeneratePlayerId
    /\ UNCHANGED <<conn, currentSessions, player, alive, queue, world, moves>>

(* The player is created; its first job is to enter the scene. *)
HandleSceneReadyRequest(u) ==
    /\ conn[u] = "on" /\ playerId[u] # 0 /\ ~player[u]
    /\ player' = [player EXCEPT ![u] = TRUE]
    /\ alive' = [alive EXCEPT ![u] = TRUE]
    /\ queue' = [queue EXCEPT ![u] = Append(@, Job("enter", Spawn))]
    /\ UNCHANGED <<conn, currentSessions, nextPlayerId, playerId, world, moves>>

(* The ids that name a scene. *)
GetSceneById(id) == id = 0

(* The scene that is found is the one where the player already is: the     *)
(* first job of MoveToScene then returns at once, and the second enters it *)
(* again.                                                                  *)
HandleSceneChangeRequest(u, id) ==
    /\ conn[u] = "on" /\ player[u] /\ moves[u] < MaxMoves
    /\ moves' = [moves EXCEPT ![u] = @ + 1]
    /\ queue' = IF GetSceneById(id) THEN [queue EXCEPT ![u] = Append(@, Job("enter", Spawn))] ELSE queue
    /\ UNCHANGED <<conn, currentSessions, nextPlayerId, playerId, player, alive, world>>

HandleMoveRequest(u, p) ==
    /\ conn[u] = "on" /\ player[u] /\ moves[u] < MaxMoves
    /\ moves' = [moves EXCEPT ![u] = @ + 1]
    /\ queue' = [queue EXCEPT ![u] = Append(@, Job("dest", p))]
    /\ UNCHANGED <<conn, currentSessions, nextPlayerId, playerId, player, alive, world>>

(* Destroy is posted behind whatever the player still has to do. *)
OnUserDisconnect(u) ==
    /\ conn[u] = "on"
    /\ conn' = [conn EXCEPT ![u] = "off"]
    /\ currentSessions' = currentSessions - 1
    /\ queue' = IF player[u] THEN [queue EXCEPT ![u] = Append(@, Job("destroy", Spawn))] ELSE queue
    /\ player' = [player EXCEPT ![u] = FALSE]
    /\ UNCHANGED <<nextPlayerId, playerId, alive, world, moves>>

----------------------------------------------------------------------------
(* The game thread. *)
TakeJob(u, kind) ==
    /\ queue[u] # <<>> /\ Head(queue[u]).kind = kind
    /\ queue' = [queue EXCEPT ![u] = Tail(@)]

(* What clients were told, once those in os hear that u is at p. *)
BroadcastToScene(t, os, u, p) == [w \in Users |-> IF w \in os THEN [t[w] EXCEPT ![u] = p] ELSE t[w]]

(* Whom clients know, once those in os but u hear that u (dis)appeared. *)
BroadcastToOthers(os, u, appears) ==
    [w \in Users |-> IF w \notin os \ {u} THEN known[w]
                     ELSE IF appears THEN known[w] \union {u} ELSE known[w] \ {u}]

SetDestination(u, p) == dest' = [dest EXCEPT ![u] = p] /\ arrived' = [arrived EXCEPT ![u] = FALSE]

OnEnterNoIntroduction(u, os) ==
    /\ pos' = [pos EXCEPT ![u] = Spawn]
    /\ SetDestination(u, Spawn)
    /\ known' = BroadcastToOthers(os, u, TRUE)
    /\ told' = BroadcastToScene(told, os, u, Spawn)

(* SetDestination already tells everyone of a move, before the player has  *)
(* appeared; then the others are told of the player, and it of them.       *)
OnEnter(u, os) ==
    /\ pos' = [pos EXCEPT ![u] = Spawn]
    /\ SetDestination(u, Spawn)
    /\ known' = [BroadcastToOthers(os, u, TRUE) EXCEPT ![u] = @ \union (os \ {u})]
    /\ told' = [BroadcastToScene(told, os, u, Spawn) EXCEPT
                   ![u] = [v \in Users |-> IF v \in os \ {u} THEN pos[v] ELSE @[v]]]

(* GameScene::Enter. *)
Enter(u) ==
    /\ TakeJob(u, "enter")
    /\ objects' = Append(objects, u)
    /\ OnEnter(u, Range(objects) \union {u})
    /\ UNCHANGED <<users, alive>>

(* The job of PostSetDestPosJob; OnMoveStart is told to the scene. *)
HandleSetDestPos(u) ==
    /\ TakeJob(u, "dest")
    /\ SetDestination(u, Head(queue[u]).at)
    /\ told' = BroadcastToScene(told, Range(objects), u, pos[u])
    /\ UNCHANGED <<users, alive, objects, pos, known>>

OnExit(u) == known' = BroadcastToOthers(Range(objects), u, FALSE)

(* GameObject::Destroy: Exit (OnExit, and one entry of the vector is       *)
(* erased), and deletion after the flush.                                  *)
Destroy(u) ==
    /\ TakeJob(u, "destroy")
    /\ OnExit(u)
    /\ objects' = RemoveFirst(objects, u)
    /\ alive' = [alive EXCEPT ![u] = FALSE]
    /\ UNCHANGED <<users, pos, dest, arrived, told>>

(* One step. *)
MoveTowardsDestination(u) ==
    IF pos[u] < dest[u] THEN pos[u] + 1 ELSE IF pos[u] > dest[u] THEN pos[u] - 1 ELSE pos[u]

HasReachedDestination(u, p) == p = dest[u]

(* GameScene::FixedUpdate, MoveComponent::OnFixedUpdate: every player that *)
(* has not arrived takes a step and, when it is there, says so once.       *)
FixedUpdate ==
    LET moving == {u \in Range(objects) : ~arrived[u]}
        there == {u \in moving : HasReachedDestination(u, MoveTowardsDestination(u))} IN
    /\ moving # {}
    /\ pos' = [u \in Users |-> IF u \in moving THEN MoveTowardsDestination(u) ELSE pos[u]]
    /\ arrived' = [u \in Users |-> arrived[u] \/ u \in there]
    /\ told' = [w \in Users |-> [u \in Users |->
                   IF w \in Range(objects) /\ u \in there THEN dest[u] ELSE told[w][u]]]
    /\ UNCHANGED <<users, alive, queue, objects, dest, known>>

----------------------------------------------------------------------------
(* The handlers RegisterPacketHandlers enters. *)
PacketHandlers(u) ==
    \/ HandleLoginRequest(u) \/ HandleSceneReadyRequest(u)
    \/ \E id \in Asks : HandleSceneChangeRequest(u, id)
    \/ \E p \in Points : HandleMoveRequest(u, p)

RunJob(u) == Enter(u) \/ HandleSetDestPos(u) \/ Destroy(u)

Next ==
    \/ \E u \in Users :
          OnSessionConnect(u) \/ PacketHandlers(u) \/ OnUserDisconnect(u) \/ RunJob(u)
    \/ FixedUpdate

(* The game thread runs. *)
Fairness == (\A u \in Users : WF_vars(RunJob(u))) /\ WF_vars(FixedUpdate)

Spec == Init /\ [][Next]_vars /\ Fairness

----------------------------------------------------------------------------
TypeOK ==
    /\ conn \in [Users -> {"new", "on", "off"}] /\ playerId \in [Users -> Nat]
    /\ player \in [Users -> BOOLEAN] /\ alive \in [Users -> BOOLEAN]
    /\ \A u \in Users : \A i \in DOMAIN queue[u] :
          queue[u][i].kind \in {"enter", "dest", "destroy"} /\ queue[u][i].at \in Points
    /\ Range(objects) \subseteq Users
    /\ pos \in [Users -> Points] /\ dest \in [Users -> Points] /\ arrived \in [Users -> BOOLEAN]
    /\ known \in [Users -> SUBSET Users] /\ told \in [Users -> [Users -> Points]]

(* Every client in the scene knows exactly the other players there,        *)
(* however logins, entries and disconnections interleave, and where each   *)
(* player that has stopped stands; the scene holds each living player that *)
(* entered once and no deleted one, and no two users share a player id.    *)
ClientsSeeScene ==
    /\ \A u \in Range(objects) :
          /\ known[u] = Range(objects) \ {u}
          /\ alive[u]
          /\ \A v \in Range(objects) : arrived[v] => told[u][v] = pos[v]
    /\ Len(objects) = Cardinality(Range(objects))
    /\ \A u, v \in Users : u # v /\ playerId[u] # 0 => playerId[u] # playerId[v]
    /\ currentSessions = Cardinality({u \in Users : conn[u] = "on"})

(* When the clients' requests have ceased, every player whose user is gone *)
(* has left the scene, and every other stands where it was sent last and   *)
(* has said so: no job and no arrival is forgotten.                        *)
PlayersSettle ==
    <>[]\A u \in Users :
          /\ queue[u] = <<>>
          /\ conn[u] = "off" => ~alive[u] /\ u \notin Range(objects)
          /\ alive[u] => arrived[u] /\ pos[u] = dest[u]
=============================================================================
