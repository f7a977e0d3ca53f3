# TLA+ verification of jun-core-v3

jun-core-v3 is a C++ game-server library for Windows: a network engine on I/O
completion ports (IOCP), a job system that gives every game object an actor's
life, scenes and an object manager on top of it, a set of lock-free containers,
a logger and small synchronisation classes underneath, and programs that use it
all.  This directory models them in TLA+, checks the models with TLC on small
instances, and proves the safety properties of the job system and of the client's
reconnect logic with TLAPS for every number of objects, threads and connections.

## 1. Inventory of the system

Paths are relative to `src/JunCore/`.

| Component | State | Operations | Interacts with | What is hard | What makes it correct |
|---|---|---|---|---|---|
| Job system (`JunCore/logic/JobObject`, `JobThread`) | per object: `m_jobQueue`, `m_processing`, `m_markedForDelete`, `m_pJobThread`; per thread: `m_jobObjectQueue`, `m_running` | `PostJob`, `Flush`, `SetJobThread`, `MarkForDelete`, `Start`, `Stop`, `Run` | every caller thread posts; worker threads flush; jobs post again, move and mark their object | scheduling by one flag, release and recheck, moving between threads, deletion while callers are inside | one scheduler per object, jobs in order on the object's thread, no lost wakeup, nothing runs after the mark |
| Game objects, scenes, object manager (`logic/GameObject`, `GameScene`, `GameObjectManager`) | `m_pScene`, scene vectors, map from serial number to object | `Create`, `MoveToScene`, `ExitScene`, `Destroy`, `Enter`, `Exit`, `Register`, `Unregister`, `PostTo` | all of it runs as jobs of three kinds of actor on different threads | operations that take several jobs; a registry that lags behind deletion | vectors touched only by their own thread, an object in one vector once, no pointer to a deleted object |
| GameThread (`logic/GameThread`) | scenes, fixed-step accumulator, frame clock | frame loop, `AddScene`, `RemoveScene`, `Start`, `Stop` | flushes objects, then walks the scenes | frames of any length, restarts, scenes that come and go | every scene gets every fixed step, and the steps keep up with the time |
| Event (`core/Event.h`) | map of handlers, next id | `Subscribe`, `Unsubscribe`, `Detach`, `Clear`, `Invoke` | handlers call the event again | changes during `Invoke` | a handler that stays is called once, a token removes only its own |
| Session (`network/Session`, `User`, `IOCPManager::Handle*`) | `send_q_`, `send_flag_`, `send_packet_arr_`, `pending_disconnect_`, ring buffer, shared_ptr count | `SendPacket`, `SendAsync(Impl)`, `RecvAsync`, `Disconnect`, completion handlers | any thread calls; IOCP workers complete; the kernel owns buffers meanwhile | one send at a time without a lock, cancelled and failed operations, lifetime | no stranded packet, no gap in the stream, buffers stay while the kernel reads, session destroyed exactly when unreferenced |
| Server and IOCPManager (`network/Server`, `network/IOCPManager`) | listen socket, accept under way, game threads, workers, completion port | `StartServer`, `PostAcceptEx`, `HandleAcceptComplete`, `StopServer`, `Shutdown` | workers run the handlers of sessions, server and client | accepts in flight during stop, every step that can fail, quit packets behind completions | a running server keeps accepting, no handle is lost, stop and shutdown end |
| Client (`network/Client`) | `pendingConnectCount_`, binary semaphore, reconnect thread | connect, reconnect, stop | `~Session` triggers the reconnect | lost and merged signals, failed attempts | the number of connections returns to the target; stop joins |
| LFQueue (`JunCommon/container/LFQueue.h`) | stamped head and tail, nodes, `nodeCount` | `Enqueue`, `Dequeue`, `GetUseCount` | job queues, thread queues, send queues | node reuse (ABA), separate counter | every item returned once, none lost |
| LFStack, LFObjectPool (`container/LFStack.h`, `pool/LFObjectPool.h`) | stamped tops, links, counters | `Push`, `Pop`, `Alloc`, `Free` | LFQueue's nodes, packets | node reuse (ABA), a stamp of 17 bits | a node is in one place |
| LFObjectPoolTLS | a chunk per thread, shared chunk pool | `Alloc`, `Free` | packets, jobs | objects freed by other threads | a chunk is recycled once, when empty |
| RingBuffer and packet assembly (`container/RingBuffer`, `HandleRecvComplete`, `NetBase`) | front, rear, bytes, handler map | receive, peek, dequeue, dispatch | `RecvAsync`, the kernel, handlers | wrap-around, partial headers, sizes at the limit | packets come out as they were sent |
| Logger (`JunCore/log`) | ring of slots, two indices, file and its size | `Log`, logger thread, `Shutdown`, rotation | every thread logs | slots claimed and reused without a lock, restarts within a second | accepted messages reach the files once, in order |
| JobQueue, ThreadPool (`queue/JobQueue.h`) | lock-free queue, semaphore, flags | `Submit`, `Dequeue`, `Shutdown` | workers | tokens and jobs apart, shutdown | a token per job; jobs run; shutdown joins |
| OnceInitializer, WSAInitializer | state, reference count | `Initialize`, `Cleanup` | every engine | failure and waiting, clean-up | who is told TRUE has the resource |
| RecursiveLock | owner's id, count | `Lock`, `Unlock`, shared lock | | ids read without a lock | the owner is alone and named |
| TimeWindowCounter (`timer/SlidingWindowCounter.h`) | ring of samples, last update | `record`, `get_average` | statistics | whole seconds, dropped fractions, reader beside writer | a record is counted once, in its window |
| GameServer (`GameServer/`) | users, players, jobs, scene | login, scene ready, scene change, move, disconnect | everything above | requests, jobs and disconnects interleave | each client sees who is there and where |
| StressClient | slots with an atomic user pointer, message queues | workers, connect, disconnect, echo, stop | Client, Session | slots reused while workers hold pointers | echoes match what was sent |
| Cryptography, ProtocolBuffer, parsers, crash dump, CPU monitors, profiler | none that is shared | | | | not modelled |

`PROJECT.json` lists every component with its status, and every hazard (what is
hard to test) with the line where it bites and the properties that look at it.

## 2. Modules

| Module | Models | Composes |
|---|---|---|
| `Actor` | what the job system promises: mailbox, home, one job at a time, condemned objects | |
| `JobSystem` | JobObject and JobThread, one step per access to shared memory | refines `Actor` (`ImplementsActor`) |
| `JobSystemProofs` | theorems about `JobSystem`, that it implements `Actor` among them | extends `JobSystem` |
| `GameWorld` | GameObject, GameScene, GameObjectManager | built from the actions of `Actor` |
| `Session` | one connection: Session, User calls, completion handlers, kernel, peer | |
| `LFQueue` | the lock-free queue, one step per access | |
| `LFStack` | LFStack and LFObjectPool, one step per access, stamps that wrap | |
| `LFObjectPoolTLS` | chunked allocation | |
| `Receive` | ring buffer, packet assembly, dispatch to handlers | |
| `Server` | server start and stop, accept chain, worker pool | |
| `Client` | the client engine and its reconnect thread | |
| `Logger`, `LogFile` | the asynchronous ring, and the files behind it | |
| `ThreadPool` | JobQueue and ThreadPool | |
| `OnceInitializer`, `RecursiveLock` | one-time initialisation; recursive lock | |
| `TimeWindowCounter` | the sliding window of samples | |
| `GameThread` | the frame loop and its scenes | |
| `Event` | events and subscriptions | |
| `GameServer` | the game server's protocol and players | |
| `StressClient` | the stress client's slots and workers | |
| `SessionProofs` | theorems about `Session` | extends `Session` |
| `GameWorldProofs` | theorems about `GameWorld` | extends `GameWorld` |
| `Engine` | `Server`, `Logger`, `LogFile`, `LFStack`, `LFObjectPoolTLS`, `ThreadPool`, `RecursiveLock`, `OnceInitializer`, `TimeWindowCounter` side by side | extends the first, instantiates the others |
| `Programs` | `Client`, `Receive`, `GameThread`, `Event`, `GameServer`, `StressClient` side by side | extends the first, instantiates the others |
| `CommonProofs` | theorems about `ThreadPool`, `RecursiveLock`, `OnceInitializer`, `LFObjectPoolTLS`, `TimeWindowCounter` | extends `Engine` |
| `EngineProofs` | theorems about `Server`, `Logger`, `LogFile`, `LFStack` in `Engine`, and `Engine` as a whole | extends `Engine` and `CommonProofs`, instantiates `LockFreeProofs` |
| `ProgramsProofs` | theorems about `Client`, `GameThread`, `Event`, `StressClient`, `GameServer`, `Receive`, and `Programs` as a whole | extends `Programs` |
| `LockFreeProofs` | theorems about `LFStack` (and LFObjectPool in it) | extends `LFStack` |
| `LFQueueProofs` | theorems about `LFQueue` | extends `LFQueue` |
| `MCEngine`, `MCPrograms` | small instances of `Engine` and `Programs` | extend them |
| other `MC*` | small instances of one module | |

`Engine` and `Programs` put components that share no state side by side.  Their
variable `part` is chosen initially and names the component a behaviour is about;
the others keep their initial values.  The run therefore explores the union of
the components' state spaces, not their product, and each property is that of the
component it names.  Fairness is stated for the component in question.

**JobSystem.**  `jobQ`, `processing`, `marked` and `thread` are the members of
JobObject; `threadQ` and `running` those of JobThread.  A caller (a poster, or
a thread inside a job, which posts with the same code) goes through `PostJob`
(test of the mark), `PostEnqueue`, `PostCas`, `PostSchedule`.  A thread goes
through `RunCheck`, `Poll`, `FlushEnter`, `FlushFetch`, the job itself (`JobBody`:
post, `SetJobThread`, `MarkForDelete`, in any number and order),
`FlushAfter`, `FlushRelease`, `FlushRecount`, `FlushRecas`, `FlushHandoff`, `Reap`,
`Delete`.  A step on an object that has been deleted is undefined behaviour: the
thread or caller stops there (`PostFault`, `ThreadFault`), so that nothing after
it is claimed.  The queues are atomic here; `LFQueue` looks inside them.

**GameWorld.**  Each object is an actor whose jobs are the lambdas of the source,
with the scene they capture: "enter", the two jobs of `MoveToScene` ("leave",
then "enter", posted by two separate calls of `PostJob`), "exit", "destroy",
"user".  A job's body is one step, because everything in it happens on one
thread; what other threads see of it (posts to the manager) is in order.  The
manager is an actor that neither moves nor dies, so its mailbox is a plain queue.
`PostTo` needs a number, not a pointer, and may come at any time.

**Session.**  Any number of senders and workers; a callback on a worker may call
the session as well.  The kernel performs one send at a time in order, completes
operations with or without bytes, and puts them on the port; `CancelIoEx` turns
operations under way into completions with no bytes.  `DropRef` runs `~Session`
at the last reference.  The body of the packet loop in `HandleRecvComplete` is the
program point "callback"; `RecvAbort` is its early returns (1000 packets, bad
length), which leave the session without a receive.

**LFQueue.**  `head` and `tail` are pairs of node and stamp.  The pool hands out
the node freed last and clears its `next`, as LFObjectPool does by running the
constructor.  A producer's stall between reading `tail` and its compare-exchange
is any number of other steps.

**Client.**  Threads that trigger a reconnect (IOCP workers, callers whose last
reference runs `~Session`) are interchangeable, so the model has the number of them
at each program point: `dying` before the test of `running_`, `adding` before the
`fetch_add`, `releasing` before the `release`.  `attempts` and `conns` are sessions
without and with a User.  `batch` is the reconnect thread's local `pending`.  A
release of an available semaphore leaves it available, as the library of the build
does.  The one-second delay has no effect on the order of steps.  `refused` and
`ended` count what the code gives up: attempts that cannot start, and connections
that end after `StopClient`.  The client is started and stopped once.

**LFStack.**  Two lists, "stack" and "pool", whose tops carry a stamp.  `Push` and
`Pop` work on the first, `Alloc` and `Free` on the second, with the same code shape:
read the top, read or write a link, compare-exchange, count.  `age` counts the
moves a thread has missed; the model excludes only the thread that misses a whole
round of stamps.

**Receive.**  A byte is the pair of its packet and its place there, so that any
byte misplaced by the ring's arithmetic is visible.  The kernel fills the two parts
of the free space that `RecvAsync` passes to it; the loop peeks the length, waits
for the rest, and hands packets to `OnPacketReceived`.  A dropped session has no
receive any more.

**Server.**  A socket is a handle value that may be given out again as soon as it
is closed.  `StartServer` and `PostAcceptEx` have a step for every call that can
fail.  Completions wait in `port` with the quit packets behind them.

**Logger, LogFile.**  Callers and the logger thread, one step per access to the
indices and slots; the file is a sequence of messages.  `LogFile` has the sizes,
names and rotations, with restarts in the same second.

**GameServer.**  Users log in, get ready, ask for moves and disconnect; their players
are actors whose jobs run on the game thread.  `known` and `told` are what each
client has been told: who is in the scene, and where.  Positions are points of a
line.

**StressClient.**  A slot's atomic user pointer is null, a user or CLEANING; the
clean-up takes a step per write.  `Gap` is the window of the finding below.

**GameThread.**  Time advances in ticks between any two steps; a frame takes what
has passed since the last one.  Scenes are registered by jobs of the thread or
while it is stopped.

**Event.**  One stack frame per `Invoke` under way; while a handler runs it may
make every call, also a nested `Invoke`.

**ThreadPool, OnceInitializer, RecursiveLock, LFObjectPoolTLS, TimeWindowCounter**
follow the functions of their header one access at a time; what each leaves out
is said at its top.

## 3. Runs

| Run | Instance | Result |
|---|---|---|
| `job` | 1 object, 2 threads, 1 poster, 2 posts per caller, fair; 465 000 states | type, one token, thread affinity, no lost wakeup, freeze after the mark; refinement of `Actor`, which gives the order of jobs; posted jobs complete and `Stop` returns |
| `job_worker_use_after_delete` | | **violated**: a thread that handed an object over reads its mark after another thread deleted it |
| `session` | 2 senders, 2 workers, `MAX_SEND_MSG` 1, 2 calls, fair; 398 000 states | buffers stay while the kernel uses them (`BuffersSafe`: one send and one receive at a time), stream without gaps, no stranded packet, references; the session goes when its peer is gone, and sends drain |
| `session_disconnect` | 1 call, fair | **violated**: `Disconnect` between the test and the WSARecv of `RecvAsync` cancels nothing |
| `queue_mpmc` | 2 producers of 2 items, 2 consumers; 2.9 million states | nodes stay linked, each item once, counter right at rest |
| `queue_order` | 2 producers, 1 consumer | **violated**: after node reuse a producer's second item overtakes its first |
| `world_turns` | 1 object, 2 scenes on 2 threads, 2 callers, 5 calls, fair; 152 000 states | vectors, threads, registry and deletion agree when moves take turns |
| `world_move` | 2 calls, no turns | **violated**: overlapping moves enter a scene on the wrong thread |
| `world_postto` | 2 calls | **violated**: `PostTo` reaches a deleted object |
| `engine` | see below, fair; 213 000 states | `NodesConserved`, `ChunksRecycledOnce`, `LogKeepsMessages`, `TokenPerJob`, `OwnersHold`, `ServerAccepts`, `WindowCounts`, `EngineProgress` |
| `programs` | see below, fair; 156 000 states | `EveryConnectionAccounted`, `NoLostSignal`, `PacketsAsSent`, `ClientsSeeScene`, `EchoMatches`, `SubscribersCalledOnce`, `FixedUpdatesKeepTime`, `ProgramsProgress` |
| `stress_cleaning` | 2 slots, 2 messages, `Gap` | **violated**: a worker sends to a user whose slot is being cleaned up |

Every property of a passing run has a mutant: a definition with a plausible bug
(a compare-exchange turned into a store, a forgotten recheck, an unstamped word)
under which TLC finds that property violated.

**Bounds.**  `MaxJobs` counts the posts of each caller, jobs included: with two,
a job can be posted while the object is being released, moved, marked or deleted,
and one more behind it, which is what each race in `Flush` needs.  One object
is enough for the properties of one object; several share threads, which only
delays them (the theorems cover any number).  `MaxCalls` is the number of `User`
calls (Session) or calls on objects (GameWorld): two sends from different threads
with an array of one reach overflow, a lost compare-exchange and a second `WSASend`;
five calls reach a move there and
back, an exit, a destroy and a late `PostTo`.  In `Client` six failures
(`MaxDrops`) let every connection fail twice, also while its batch is posted, and
`MaxRefused` two let an attempt fail to start in the first round and in a reconnect.  Two items per producer are the
fewest that show reordering, and reuse a node after one dequeue.

In `engine`: two threads with two nodes and four stamps take a node out, back and
out again while a third step is pending, across the wrap; four chunks of two objects
let a chunk be emptied by the other thread and used again; three log slots, of
which two can be filled, and four messages go round the ring; file sizes of three
with messages of one to three bytes reach every rotation; one token per shutdown
with two workers lets one of them depend on its timeout; three threads for lock and
initialiser give an owner, a waiter and a third that comes late; two starts, two
sessions and three handles let a stopped server's accept meet a new one; the window
has three samples of two ticks and time for two rounds.

In `programs`: the ring holds seven bytes, and packets of three (a header), four,
eight (too long for the ring) and ten (out of range) come in any cut, two per
receive at most; two users with one move each on three points; two slots and two
users, two messages; three subscriptions and three `Invoke`s, nested to depth two;
two scenes, a step of two ticks and three frames within four ticks.

Deadlock is not checked: with the bounds exhausted everybody may rest.

**Symmetry** is used only in `queue_mpmc`, which checks invariants alone.

**Fairness.**  Weak fairness of each thread's own steps: the operating system
runs runnable threads, job bodies and callbacks return.  The kernel completes
sends, and receives once the connection is gone, and every ConnectEx, one way or the
other.  `GameWorld` asks strong fairness of
an object's steps, because its thread serves a queue of objects in turn and
the model has only "some object runs"; `JobProgress` of `JobSystem` is the
justification.  In `StressClient` a clean-up that the contract keeps from starting
while the worker is in its turn (`Gap` FALSE) is strongly fair: the worker leaves
that window again and again.  Log callers finish a slot they have claimed, and the
network delivers what was sent.  Nobody is obliged to post, call, log, submit, send,
stop or close.

## 4. What the checks found

- `JobThread.cpp:52`: use after delete by the thread that handed an object over.
- `GameObjectManager.cpp:61`: `Unregister` is only queued when the object is deleted.
- `GameObject.cpp:64`: the jobs of two `MoveToScene` calls interleave.  A move to the
  scene the object is in already skips the leave job and still enters, so the
  object is in the vector twice; `ScenesAgree` needs the same contract
  (`TakeTurns`).
- `Session.cpp:114-132`: a `Disconnect` in the gap is lost until the peer acts.
- `LFQueue.h:72`: the compare-exchange of `next` is not stamped.  No item is lost or
  returned twice (`EachItemOnce` holds), only order is.

- `StressClient.cpp:268`: the clean-up of a slot calls itself safe because the worker
  skips CLEANING, but a worker that loaded the user earlier goes on.

Met while modelling, without a run of their own:

- GameServer: a `SCENE_CHANGE` request for the scene the player is in enters it a
  second time (`GameServer.cpp:170`, `GameObject.cpp:48`), and a later Exit leaves a
  pointer to a deleted player in the scene: with `Asks` containing 0
  `ClientsSeeScene` fails.  The comment at `GameServer.cpp:169` expects exit and
  enter.  `OnEnter` announces a move before the player has appeared.
  `OnServerStop` resets the scene while players still point to it, and the scene
  is made only after the first accept is posted (`Server.cpp:84`, `:94`).
- GameThread: `GameServer.cpp:220` registers the scene from the main thread while the
  game thread may be walking `m_scenes`.  The sleep is computed from the previous
  frame's length, which includes its sleep (`GameThread.cpp:92`), so frames of
  nearly zero and of 16.66 ms alternate where the comment at :90 aims at 60 per
  second.  The fixed-step loop has no limit: if the steps take longer than the time
  they stand for, each frame owes more than the last.
- Server: after a failed handshake the handler closes the socket and `~Session`
  closes the same handle value again (`IOCPManager.cpp:254`, `Session.cpp:50-59`); a
  `StopServer` and `StartServer` in the middle of an accept can leave two accept
  chains; the exception path at `Server.cpp:100` leaves the listen socket open.
- OnceInitializer: with `Overlap` TRUE `OwnersHold` fails: an `Initialize` between the
  count and the reset in `Cleanup` is told TRUE and loses the resource, although
  `OnceInitializer.h:37` says that the race is solved completely.
- RecursiveLock: a thread that holds the shared lock and asks for the exclusive one
  waits for itself.
- LogFile: a file continued after a rotation counts from zero, so it can exceed
  `MAX_FILE_SIZE` (`log.cpp:333`, `:380`), never twice over; the plain file name
  (without number) is never created.
- StressClient: the worker's last turn does not exclude CLEANING (`StressClient.cpp:214`),
  `StopStressTest` clears the slots while callbacks may run (:99), and a worker that
  starts late resets a slot that a connection has taken (:153).
- TimeWindowCounter: the comment at line 20 calls `record` and `get_average` safe
  together; a reader in the middle of a `record` may count too little, never too
  much.

- Jobs queued when an object is marked are dropped by the destructor
  (`JobObject.cpp:78`, `:20-28`), while `docs/GameObjectManager_Design.md:259` says
  that existing jobs are all processed.
- `PostJob` uses the object after its test of the mark; a caller with a raw
  pointer can find it deleted.
- The debug counter of `HandleSendComplete` is decremented after `send_flag_` is
  given back (`IOCPManager.cpp:171,175`), so its assertion can fire on a healthy
  session.  The counter is not in the model.
- Two polling consumers of one LFQueue can keep each other from an item for ever by
  decrementing and restoring `nodeCount` in turn; the job system has one consumer
  per queue.
- `Client.cpp:111` ignores the result of `PostConnectEx`: an attempt that cannot
  start is never retried.  A `StartClient` after a `StopClient` asks for the full
  number of connections although the old ones and the old count are still there.
- Jobs that post to their own object without end keep `Flush` in its loop, so
  `Stop` does not return; the bound on posts excludes it.

## 5. What is proved

`JobSystemProofs` proves for every `Objects`, `JobThreads`, `Posters` and `MaxJobs`
that satisfy `JobAssumption`:

- `TypeCorrect`: `Spec => []TypeOK`;
- `TokenUnique`: `Spec => []OneToken`, an object has at most one scheduler;
- `JobsRunOnOwnThread`: `Spec => []ThreadAffinity`;
- `MarkIsFinal`: `Spec => []MarkFreezes`;
- `WakeupNeverLost`: `Spec => []NoLostWakeup`.

None of these is inductive.  The argument is that `m_processing` is a token with
one place at a time: an entry of a thread queue, a thread between taking the object
and releasing it, or a caller between its compare-exchange and the enqueue.
`TokenInv` says so place by place: `QueueTokens` (an object is in one queue
once), `WorkerTokens` and `CallerTokens` (a holder excludes every other place),
and `Owner` (the place is at the object's current thread, except while a job has
just changed it).  `InHand` (part of `TypeInv`) says a thread at a program point
that uses an object has one.  `Marks` says that a marked object is never released.
With these, each of the actions moves the token from one place to the next, which
is one case of `TokenStep`.  The wakeup theorem rests on `Wake`: an
unmarked object with queued jobs has a token somewhere, or somebody stands
between its enqueue and its compare-exchange, or between the release and the
recheck.  The lemmas `AppendPlaces`, `TailPlaces`, `AppendView` and `TakeView`
state what appending to and taking from a queue does to places in it.

`ProgramsProofs` proves about `Client`, for every `Target`, `MaxDrops` and `MaxRefused`, `ClientTypes`
(`pendingConnectCount_` is never negative), `ConnectionsConserved`
(`EveryConnectionAccounted`) and `SignalNeverLost` (`NoLostSignal`).  The
strengthening is `BatchInv`: a batch exists only while the thread posts and
subtracts it, is at most the counter, and is posted to the end before it is
subtracted; with `ThreadAfterLoad` (no thread before the functions are loaded) each
action is a case of `ClientStep`.

`JobSystemImplementsActor` (`Spec => ImplementsActor`) is the refinement: the view of
JobSystem that `ActorView` takes satisfies `Actor!Spec`.  Initial states map to initial
states, and each action is a step of `Actor` or leaves its variables alone; `SafetyInv`
before and after the step supplies who holds the object.

The other proof modules follow the same plan: an inductive invariant, checked by TLC on
small instances before it was proved, one case per action, and the property from it.

**`SessionProofs`**, for every `Senders`, `Workers`, `MaxSendMsg` and number of calls
(the two sets finite): `SessionTypes`, `SessionRefs` (`RefsCountHolders`),
`SessionBuffers` (`BuffersSafe`), `SessionQueue` (`NoStrandedPacket`) and
`SessionStream` (`StreamHasNoGaps`).  `TokenUnique` says of `send_flag_` what JobSystem says
of `m_processing`: one thread, one WSASend or one completion holds it.  `ArrayInv` says when
`send_packet_arr_` is empty, and that the holder finds in the queue what it counted.
`FlagInv` has, for a queue that is not empty, the holder or the thread that will try to become
it.  `ReceiveUnique` is the same for the receive.  `StreamInv` is about the concatenation of
what is on the wire, in the array and in the queue, as long as no send has failed: what
is on the wire alone is not inductive.

**`GameWorldProofs`**, for any objects, scenes, threads and callers.  `WorldTypes` and
`ManagerForgetsDeleted` hold however callers behave (`BaseInv`: nobody has seen an object
that Create has not returned; a condemned object has left its scene for good; its
Unregister is behind its Register).  `ScenesStayOnThreads` and `ScenesAndObjectsAgree`
assume `TakeTurns = TRUE`: nobody asks an object to move while a move of it is under way.
That is a contract with the callers which the code does not enforce; the run
`world_move` shows that without it the statement is false.  `TurnInv` says which
moves can be queued, that a scene an object names is on the object's thread, and that the
object is in no other vector.

**`ProgramsProofs`** also has `FixedSteps` (`FixedUpdatesKeepTime`, any scenes, any positive
`Step`) and `HandlersCalledOnce` (`SubscribersCalledOnce`, any nesting of Invoke, Subscribe and
Unsubscribe).  `EventInv` says of every Invoke on the stack that it has called or will
call each handler of its copy, and that ids are not given out twice.

`ClientsAlwaysSeeScene` (`ClientsSeeScene`) is about the game server, for any finite set of
players and any line of positions without gaps.  What a client knows is not inductive
by itself: a login, its enter job and its destroy job are far apart.  `LifeOf` says of each
user which of them it still has: the enter job is first in its queue and there once, the
destroy job is last, and between them it is in the scene; `SceneInv` is then the property with
where the moving players are.  `0 \notin Asks` is the contract of section 4: nobody asks for the
scene he is in.  `EchoesMatch` (`EchoMatches`) is about the stress client, for any slots and
users, under `Gap = FALSE`: a slot is not cleaned up in the middle of its worker's turn.  The code
does not see to that (run `stress_cleaning`); the theorem says that nothing else goes wrong.
`SlotsHeld`, `SlotsCleaned` and `WorkersHold` say who has a slot at each moment, from the
compare-exchange that takes it to the store that frees it.

`PacketsArriveAsSent` (`PacketsAsSent`) is about the receive path, for any ring of at least one
byte, any header with a length in it, any limits and packets of at least one byte.
`StreamInv` says that the ring's content followed by the wire goes on, byte by byte, where
the packets taken out end (`InOrder`).  Such a stream has one packet boundary after the other
(`FirstPacket`, `NextPacket`), so what a header says decides what `TakePacket` takes away.
`PeekReads` and `MoveOver` say what the two-part copies do to the content of
the ring wherever it wraps; `WrapAround` is the one fact about `%` they use.  `PostedInv`: no whole
packet lies in the ring while the next receive is pending, hence `DroppedInv`: the ring is
full only if the next packet does not fit.

`ProgramsKeepPromises` (`TypesOK` and all invariants of the run `programs`) puts the
parts together: a step of `Programs` is a step of one part and leaves the others as
they are, so the invariants of the parts hold side by side.

**`CommonProofs`**, for any number of threads: `LockNamesOwner` (`OwnerIsNamed`),
`HoldersKeepResource` (`HoldersHaveResource`; assumes `Overlap = FALSE`, that no Initialize
overlaps a Cleanup that tears down, which the class does not enforce), the two
together as `OwnersAlwaysHold` (`OwnersHold`), `PoolTokens` (`TokenPerJob`) and
`ChunksHaveOneOwner` (`ChunksRecycledOnce`, any positive `ChunkSize`).  The counters are
tied to cardinalities: `refs` to the set of counted callers, the semaphore to the
queue's length less the workers that bring a token and the submitters that owe one, the
two indices of a chunk to its objects in use.  `RecordsCounted` (`WindowCounts`), for any number
of samples and any length of a second: `AgeInv` says that the sample i places behind the
write position has records between i - 1 and 2i seconds old, as much as the dropped
fractions of seconds can make up, and `KeptInv` that a record is lost only when it is older
than the window.

**`EngineProofs`**: `ServerTypesOK` and `ServerKeepsAccepting` (`ServerAccepts`), for any
workers, sessions and handles.  `ServerInv` says who has a session object at each moment of
the accept chain: the thread in PostAcceptEx, the port, or one worker; `ChainInv` is
`AcceptChainAlive` with the worker that is still before its next PostAcceptEx.
`ServerConstants` says only that the marks `Main`, `Invalid` and `Quit` are what they mark and that
the pool is finite.  `LogFileInOrder` (`FileHasAcceptedInOrder`) holds for any
callers and any ring of at least one slot.  `LogInv`: a caller fills a slot that
is its own, not yet read and not yet valid; a valid slot holds the accepted message
of the one index in the window that falls on it (`CellUnique`); the index read for the room
test may be old, but then the compare-exchange of the write index fails.
`BoundInv` adds that a claimed slot is one call of Log (`TypeOK`).

`FilesKeepAllBytes` (`FilesKeepBytes`), for any limit, any lengths up to it and any number of
files within a second; a message longer than `MAX_FILE_SIZE` is excluded, as it would make a
file larger than that by itself.  `OpenInv` says that the open file is less than one limit larger than
`currentFileSize` tells, which is what bounds it when `currentFileSize` restarts at 0.  The total is
a fold over the set of files: `SumsExist`, `SumsSame` and `SumsWithout` show that the fold's recursive
function exists and does not depend on the order in which files are taken, by least
counterexample on the size of the set, and `TotalChanges` says what one changed
file does to it.  `NumberIsFree`: of one number more than there are files one is free, so the search of
`OpenNewLogFile` ends.  `LoggerKeepsMessages` (`LogKeepsMessages`) is ring and files together.

`EngineKeepsPromises` (`TypesOK` and all invariants of the run `engine`) puts the parts of
`Engine` together as `ProgramsKeepPromises` does.  Its hypotheses `EngineConstants` are those of the
parts: sets are finite, sizes positive, the marks are no members, and `Overlap = FALSE`.

**`LockFreeProofs`**, for any threads, any nodes and any positive `Stamps`:
`StackConservesNodes` (`NodesConserved` of one stack; `StackKeepsNodes` in `EngineProofs`
states it for the stack that `Engine` instantiates).  A list is a `Chain`: a sequence of different nodes
linked to each other and ended by Null.  Lemmas say what putting, taking and writing a
link elsewhere do to a chain, and that the model's walk visits exactly its nodes
(`ChainWalk`).  `Fresh` ties the stamp to the number of moves a thread has missed, so
that `StampSame` gives: a compare-exchange that succeeds has missed none, and what the
thread read is still true.  `Apart` and `Counts` are the places of the nodes and the lag of
the counters.  The walk is a recursive function; induction over its index goes through
`LeastNatural` (a set of naturals that is not empty has a least element), which follows
from the library's theorem on well-founded relations and takes no operator as a parameter.

**`LFQueueProofs`**, for any finite, disjoint producers and consumers and any number of items:
`QueueTypes`, `QueueChain` (`ChainIntact`), `QueueItems` (`EachItemOnce`) and `QueueCount`
(`CountAtRest`).  The difficulty is the compare-exchange of a next pointer, which has no
stamp: a producer with an old copy of tail may link its node behind one that was freed,
allocated again and not linked yet.  So `Shape` describes memory as a forest, the
queue and a chain behind each waiting node, by a set of nodes, the chain each is in and
its position there.  In the queue the position is the stamp that head or tail has when it
comes by, so an old stamp says how far a word has moved.  A chain becomes part of the
queue, or of another chain, when its first node is linked; `Order` (whoever can link
behind a waiting node has an older copy of tail than its owner) excludes that it is linked
to itself.  `Stale` and `Reads` say what a thread still knows when its copy of a word is
not old; `Items` and `Counts` tie the items and the counter to the nodes of the whole
forest, which at rest is the queue.  The step lemmas are stated once for each change of the forest
(a new root, a link, a move of head, a move of tail, a free) and cited by the actions.

Only model-checked: all liveness (`JobProgress`, `SessionProgress`, `DestroyedObjectsGo`,
`EngineProgress`, `ProgramsProgress`; TLAPS 1.4.5 does not prove it), with the bounds given
in section 3, and the statements that the code contradicts (section 4).  Every invariant
that a passing run checks is also a theorem.

## 6. What the models leave out

- In `JobSystem` and `Session` queues are atomic and first in, first out;
  `queue_order` shows that LFQueue does not promise that between threads.  What they
  need (every item once, none lost) is `QueueItems`.
- Memory is sequentially consistent: the code uses the default ordering nearly
  everywhere.  `m_pJobThread` is a plain pointer; it is read by `PostJob` only by the
  winner of the compare-exchange, so the atomic flag orders it.
- `WSASend` fails only when the connection is broken; a transient failure on a
  healthy connection would keep `send_flag_` for ever.  Sends are never partial.
- Stamps do not wrap in `LFQueue` (17 bits in the code); in `LFStack` they do.  The
  logger's 32-bit indices are naturals: they wrap at a multiple of the ring size.
- In `Session` packets have no bytes; `Receive` has them.  Protobuf parsing.
- Application callbacks do nothing but call the library, except those of
  GameServer.
- The per-worker counters of IOCPManager, whose worker index is a static shared by
  all managers.
- Registration of a scene with a game thread that walks its scenes: a data race.
- Float rounding in the frame loop.

## 7. Plan

What remains, in this order:

1. An abstract specification of LFQueue (a bag of items that a call puts in or takes out in
   one step) and the proof that LFQueue implements it; the same for LFStack as a stack.
2. That Session, with its queue replaced by what LFQueue promises, still keeps its stream:
   one sender's packets in order need the order of one producer, which `queue_order` denies.

## 8. Not modelled

Cryptography (thin wrappers over OpenSSL), ProtocolBuffer, parsers and string helpers
(sequential copying), ObjectPool (a sequential free list), crash dump, CPU monitors
and profiler (calls of the operating system), the echo programs (no state), generated
protobuf code, build files and examples.
