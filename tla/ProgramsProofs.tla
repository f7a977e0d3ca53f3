---------------------------- MODULE ProgramsProofs ----------------------------
(***************************************************************************)
(* What Client, GameThread, Event, StressClient, GameServer and Receive    *)
(* promise: for every number of connections and every bound on failures;   *)
(* for every number of scenes, every length of step and of frame; for any  *)
(* nesting of handlers; for any slots and users; for any finite set of     *)
(* players; for any ring and any cutting of the stream.                    *)
(***************************************************************************)
EXTENDS Programs, Sequences, SequenceTheorems, FiniteSetTheorems, NaturalsInduction,
        WellFoundedInduction, TLAPS

-----------------------------------------------------------------------------
(***************************************************************************)
(* The client.                                                             *)
(***************************************************************************)

(* The reconnect thread's locals: a batch exists only while it is posted   *)
(* and subtracted, is never more than the counter, which others only       *)
(* increase, and is posted to the end before it is subtracted.  Without    *)
(* this the subtraction could leave a negative counter.                    *)
BatchInv ==
    /\ batch <= pending
    /\ rpc \notin {"post", "sub"} => batch = 0
    /\ rpc = "post" => posted < batch
    /\ rpc = "sub" => posted = batch

(* The reconnect thread exists only after LoadConnectExFunctions. *)
ThreadAfterLoad == main \in {"init", "load"} => rpc = "none"

ClientInv ==
    TypeOK /\ BatchInv /\ ThreadAfterLoad /\ EveryConnectionAccounted /\ NoLostSignal

LEMMA InitClient == Init => ClientInv
<1> SUFFICES ASSUME Init PROVE ClientInv
  OBVIOUS
<1> USE DEF Init
<1>1. TypeOK
  <2>1. running \in BOOLEAN /\ signal \in BOOLEAN
    BY Zenon
  <2>2. 0 \in 0..Target /\ 0 \in 0..MaxDrops /\ 0 \in 0..MaxRefused
        /\ 0 \in 0..batch
    BY ClientAssumption
  <2>3. 0 \in Nat /\ main \in MainPcs /\ rpc \in ReconnectPcs
    BY DEF MainPcs, ReconnectPcs
  <2>4. QED
    BY <2>1, <2>2, <2>3, Zenon DEF TypeOK
<1>2. BatchInv /\ ThreadAfterLoad
  BY DEF BatchInv, ThreadAfterLoad
<1>3. EveryConnectionAccounted
  BY DEF EveryConnectionAccounted
<1>4. NoLostSignal
  BY DEF NoLostSignal
<1>5. QED
  BY <1>1, <1>2, <1>3, <1>4 DEF ClientInv

(* One step per action: what it moves from one place to another. *)
LEMMA ClientPreserves == ClientInv /\ [Next]_vars => ClientInv'
<1> SUFFICES ASSUME ClientInv, [Next]_vars PROVE ClientInv'
  OBVIOUS
<1> USE ClientAssumption
    DEF ClientInv, TypeOK, BatchInv, ThreadAfterLoad, EveryConnectionAccounted, NoLostSignal,
        MainPcs, ReconnectPcs, shared, threads, net
<1>1. CASE StartClient
  BY <1>1 DEF StartClient
<1>2. CASE StartLoaded
  BY <1>2 DEF StartLoaded
<1>3. CASE StartFailed
  BY <1>3 DEF StartFailed
<1>4. CASE StartConnect
  BY <1>4 DEF StartConnect, PostConnectEx
<1>5. CASE StartDone
  BY <1>5 DEF StartDone
<1>6. CASE StopClient
  BY <1>6 DEF StopClient
<1>7. CASE StopWake
  BY <1>7 DEF StopWake
<1>8. CASE StopJoin
  BY <1>8 DEF StopJoin
<1>9. CASE ReconnectLoop
  BY <1>9 DEF ReconnectLoop
<1>10. CASE ReconnectAcquire
  BY <1>10 DEF ReconnectAcquire
<1>11. CASE ReconnectCheck
  BY <1>11 DEF ReconnectCheck
<1>12. CASE ReconnectRead
  BY <1>12 DEF ReconnectRead
<1>13. CASE ReconnectPost
  <2> USE <1>13 DEF ReconnectPost
  <2>1. posted' \in 0..batch /\ (rpc' = "post" => posted' < batch)
        /\ (rpc' = "sub" => posted' = batch) /\ rpc' \in {"post", "sub"}
    OBVIOUS
  <2>2. \/ attempts' = attempts + 1 /\ refused' = refused
        \/ attempts' = attempts /\ refused' = refused + 1 /\ refused' <= MaxRefused
    BY DEF PostConnectEx
  <2>3. TypeOK'
    BY <2>1, <2>2
  <2>4. BatchInv' /\ ThreadAfterLoad'
    BY <2>1
  <2>5. EveryConnectionAccounted'
    BY <2>2
  <2>6. NoLostSignal'
    OBVIOUS
  <2>7. QED
    BY <2>3, <2>4, <2>5, <2>6
<1>14. CASE ReconnectSub
  BY <1>14 DEF ReconnectSub
<1>15. CASE ConnectSucceeds
  BY <1>15 DEF ConnectSucceeds
<1>16. CASE ConnectFails
  BY <1>16 DEF ConnectFails
<1>17. CASE SessionEnds
  BY <1>17 DEF SessionEnds
<1>18. CASE OnUserDisconnect
  BY <1>18 DEF OnUserDisconnect
<1>19. CASE TriggerReconnect
  BY <1>19 DEF TriggerReconnect
<1>20. CASE TriggerSignal
  BY <1>20 DEF TriggerSignal
<1>21. CASE UNCHANGED vars
  BY <1>21 DEF vars
<1>22. QED
  BY <1>1, <1>2, <1>3, <1>4, <1>5, <1>6, <1>7, <1>8, <1>9, <1>10, <1>11, <1>12,
     <1>13, <1>14, <1>15, <1>16, <1>17, <1>18, <1>19, <1>20, <1>21
     DEF Next, MainStep, ReconnectStep, Handler

LEMMA ClientInvariant == Spec => []ClientInv
  BY InitClient, ClientPreserves, PTL DEF Spec

(* Every variable of the client keeps its type; in particular the counter  *)
(* pendingConnectCount_ never becomes negative.                            *)
THEOREM ClientTypes == Spec => []TypeOK
<1>1. ClientInv => TypeOK
  BY DEF ClientInv
<1>2. QED
  BY <1>1, ClientInvariant, PTL

(* No connection is lost between TriggerReconnect's fetch_add and the      *)
(* reconnect thread's fetch_sub, whatever is added in between.             *)
THEOREM ConnectionsConserved == Spec => []EveryConnectionAccounted
<1>1. ClientInv => EveryConnectionAccounted
  BY DEF ClientInv
<1>2. QED
  BY <1>1, ClientInvariant, PTL

(* Merged signals lose no reconnect: as long as the thread has not ended,  *)
(* connections it has not read yet will wake it.                           *)
THEOREM SignalNeverLost == Spec => []NoLostSignal
<1>1. ClientInv => NoLostSignal
  BY DEF ClientInv
<1>2. QED
  BY <1>1, ClientInvariant, PTL


-----------------------------------------------------------------------------
(***************************************************************************)
(* The frame loop.                                                         *)
(***************************************************************************)

(* Scenes are left to walk only while a walk is under way, and the time    *)
(* the thread shows is part of the time its frames have covered.           *)
WalkInv ==
    /\ framePc \notin {"fixed", "update"} => todo = {}
    /\ time <= lastFrameTime

FrameInv == Frame!TypeOK /\ WalkInv /\ Frame!FixedUpdatesKeepTime

LEMMA FrameInit ==
    ASSUME Step \in Nat \ {0}, MaxTime \in Nat, Frame!Init
    PROVE  FrameInv
<1>1. 0 * Step = 0
  OBVIOUS
<1>2. fixed \in [Scenes -> Nat] /\ updates \in [Scenes -> Nat]
  BY DEF Frame!Init
<1>5. threadRunning \in BOOLEAN /\ scenes \subseteq Scenes /\ todo \subseteq scenes
  BY DEF Frame!Init
<1>6. /\ clock \in 0..MaxTime /\ lastFrameTime \in 0..clock /\ accum \in Nat /\ time \in 0..MaxTime
      /\ time <= lastFrameTime
  BY DEF Frame!Init
<1>7. /\ steps \in Nat /\ frames \in Nat /\ halted \in Nat
      /\ framePc = "stopped" /\ todo = {}
  BY DEF Frame!Init
<1>4. Frame!TypeOK /\ WalkInv
  BY <1>2, <1>5, <1>6, <1>7 DEF Frame!TypeOK, WalkInv
<1>3. Frame!FixedUpdatesKeepTime
  BY <1>1 DEF Frame!Init, Frame!FixedUpdatesKeepTime
<1> QED
  BY <1>3, <1>4 DEF FrameInv

(* Multiplication by the step stays out of the solver's sight: all it      *)
(* needs is what one more step adds.                                       *)
LEMMA OneMoreStep ==
    ASSUME NEW n \in Nat, Step \in Nat
    PROVE  n * Step \in Nat /\ (n + 1) * Step = n * Step + Step
OBVIOUS

LEMMA FramePreserves ==
    ASSUME Step \in Nat \ {0}, MaxTime \in Nat, FrameInv, [Frame!Next]_Frame!vars
    PROVE  FrameInv'
<1> DEFINE Owed == steps * Step
<1>a. Owed \in Nat
  BY OneMoreStep DEF FrameInv, Frame!TypeOK
<1> USE DEF FrameInv, WalkInv
<1>1. CASE Frame!Tick
  BY <1>1 DEF Frame!Tick, Frame!history, Frame!TypeOK, Frame!FixedUpdatesKeepTime
<1>2. CASE Frame!Start
  BY <1>2, <1>a DEF Frame!Start, Frame!TypeOK, Frame!FixedUpdatesKeepTime
<1>3. CASE Frame!Stop
  BY <1>3 DEF Frame!Stop, Frame!history, Frame!TypeOK, Frame!FixedUpdatesKeepTime
<1>4. ASSUME NEW s \in Scenes, Frame!AddScene(s) PROVE FrameInv'
  BY <1>4 DEF Frame!AddScene, Frame!Still, Frame!TypeOK, Frame!FixedUpdatesKeepTime
<1>5. ASSUME NEW s \in Scenes, Frame!RemoveScene(s) PROVE FrameInv'
  BY <1>5 DEF Frame!RemoveScene, Frame!Still, Frame!history, Frame!TypeOK, Frame!FixedUpdatesKeepTime
<1>6. CASE Frame!BeginFrame
  BY <1>6, <1>a DEF Frame!BeginFrame, Frame!CalcDeltaTime, Frame!history, Frame!TypeOK, Frame!FixedUpdatesKeepTime
<1>7. CASE Frame!NextFixedStep
  <2>1. CASE accum >= Step
    <3>1. (steps + 1) * Step = Owed + Step
      BY OneMoreStep DEF Frame!TypeOK
    <3>2. Frame!TypeOK' /\ WalkInv'
      BY <1>7, <2>1 DEF Frame!NextFixedStep, Frame!TypeOK
    <3>3. steps' * Step + accum' + halted' = lastFrameTime'
      <4>1. steps' = steps + 1 /\ accum' = accum - Step /\ halted' = halted /\ lastFrameTime' = lastFrameTime
        BY <1>7, <2>1 DEF Frame!NextFixedStep
      <4>2. Owed + Step + (accum - Step) + halted = lastFrameTime
        BY <1>a DEF Frame!TypeOK, Frame!FixedUpdatesKeepTime
      <4> QED
        BY <4>1, <4>2, <3>1
    <3>4. QED
      BY <1>7, <2>1, <3>2, <3>3 DEF Frame!NextFixedStep, Frame!TypeOK, Frame!FixedUpdatesKeepTime
  <2>2. CASE ~(accum >= Step)
    BY <1>7, <2>2 DEF Frame!NextFixedStep, Frame!TypeOK, Frame!FixedUpdatesKeepTime
  <2> QED
    BY <2>1, <2>2
<1>8. CASE Frame!EndFrame
  BY <1>8 DEF Frame!EndFrame, Frame!history, Frame!TypeOK, Frame!FixedUpdatesKeepTime
<1>9. CASE Frame!EndLoop
  BY <1>9 DEF Frame!EndLoop, Frame!history, Frame!TypeOK, Frame!FixedUpdatesKeepTime
<1>10. CASE Frame!Joined
  BY <1>10 DEF Frame!Joined, Frame!history, Frame!TypeOK, Frame!FixedUpdatesKeepTime
<1>11. ASSUME NEW s \in Scenes, Frame!FixedUpdate(s) PROVE FrameInv'
  BY <1>11 DEF Frame!FixedUpdate, Frame!TypeOK, Frame!FixedUpdatesKeepTime
<1>12. ASSUME NEW s \in Scenes, Frame!Update(s) PROVE FrameInv'
  BY <1>12 DEF Frame!Update, Frame!TypeOK, Frame!FixedUpdatesKeepTime
<1>13. CASE UNCHANGED Frame!vars
  BY <1>13 DEF Frame!vars, Frame!TypeOK, Frame!FixedUpdatesKeepTime
<1> QED
  BY <1>1, <1>2, <1>3, <1>4, <1>5, <1>6, <1>7, <1>8, <1>9, <1>10, <1>11, <1>12, <1>13 DEF Frame!Next, Frame!Run

(* The fixed steps keep up with the time the thread has run, and every     *)
(* scene gets each of them and one Update a frame (GameThread::Run), for   *)
(* any scenes, any positive step and frames of any length.                 *)
THEOREM FixedSteps ==
    ASSUME Step \in Nat \ {0}, MaxTime \in Nat
    PROVE  Frame!Spec => [](Frame!TypeOK /\ FixedUpdatesKeepTime)
<1>1. Frame!Init => FrameInv
  BY FrameInit
<1>2. FrameInv /\ [Frame!Next]_Frame!vars => FrameInv'
  BY FramePreserves
<1>3. FrameInv => Frame!TypeOK /\ FixedUpdatesKeepTime
  BY DEF FrameInv, FixedUpdatesKeepTime
<1> QED
  BY <1>1, <1>2, <1>3, PTL DEF Frame!Spec

-----------------------------------------------------------------------------
(***************************************************************************)
(* The event.  Subscribers are numbered as they come and so are the ids:   *)
(* as long as no id is used again, everything an id leads to is what that  *)
(* subscriber gave.                                                        *)
(***************************************************************************)
Maps == UNION {[D -> Nat] : D \in SUBSET Nat}
Calls == [copy : Maps, left : SUBSET Nat, called : SUBSET Nat, busy : BOOLEAN]

(* No id at or above nextId has ever been given out. *)
Issued(map) == \A i \in DOMAIN map : i \in Nat /\ i < nextId /\ map[i] = i

EventTypes ==
    /\ nextId = subscribes /\ subscribes \in 0..MaxSubscribes /\ invokes \in 0..MaxInvokes
    /\ handlers \in Maps /\ stack \in Seq(Calls) /\ Len(stack) <= MaxDepth
    /\ tokens \subseteq [id : Nat, who : Nat]

(* An Invoke has called, is to call, or need not call any more each        *)
(* handler of its copy.                                                    *)
CallInv(f) ==
    /\ Issued(f.copy)
    /\ f.called \cap f.left = {}
    /\ \A id \in DOMAIN f.copy \cap DOMAIN handlers : id \in f.called \union f.left

EventInv ==
    /\ EventTypes
    /\ Issued(handlers)
    /\ \A k \in DOMAIN stack : CallInv(stack[k])
    /\ \A tk \in tokens : tk.id < nextId /\ tk.who = tk.id

LEMMA InMaps ==
    ASSUME NEW D \in SUBSET Nat, NEW f \in [D -> Nat]
    PROVE  f \in Maps
BY DEF Maps

LEMMA EventInit ==
    ASSUME MaxSubscribes \in Nat, MaxInvokes \in Nat, MaxDepth \in Nat, Ev!Init
    PROVE  EventInv
<1>1. handlers \in [{} -> Nat] /\ DOMAIN handlers = {}
  BY DEF Ev!Init
<1>2. handlers \in Maps /\ Issued(handlers)
  BY <1>1, {} \in SUBSET Nat DEF Maps, Issued
<1>3. stack \in Seq(Calls) /\ Len(stack) = 0 /\ DOMAIN stack = {}
  BY DEF Ev!Init
<1> QED
  BY <1>2, <1>3 DEF Ev!Init, EventInv, EventTypes

(* The map of handlers after a Subscribe and after an Unsubscribe.         *)
LEMMA MapsChange ==
    ASSUME handlers \in Maps
    PROVE  /\ \A id, who \in Nat :
                 /\ Ev!With(id, who) \in Maps
                 /\ DOMAIN Ev!With(id, who) = DOMAIN handlers \union {id}
                 /\ \A i \in DOMAIN handlers \union {id} :
                       Ev!With(id, who)[i] = IF i = id THEN who ELSE handlers[i]
           /\ \A ids : /\ Ev!Without(ids) \in Maps
                       /\ DOMAIN Ev!Without(ids) = DOMAIN handlers \ ids
                       /\ \A i \in DOMAIN handlers \ ids : Ev!Without(ids)[i] = handlers[i]
<1>1. PICK D \in SUBSET Nat : handlers \in [D -> Nat]
  BY DEF Maps
<1>2. ASSUME NEW id \in Nat, NEW who \in Nat
      PROVE  Ev!With(id, who) \in [D \union {id} -> Nat]
  BY <1>1 DEF Ev!With
<1>3. ASSUME NEW ids PROVE Ev!Without(ids) \in [D \ ids -> Nat]
  BY <1>1 DEF Ev!Without
<1>4. ASSUME NEW id \in Nat, NEW who \in Nat PROVE Ev!With(id, who) \in Maps
  <2>1. D \union {id} \in SUBSET Nat
    OBVIOUS
  <2> QED
    BY <1>2, <2>1, InMaps
<1>5. ASSUME NEW ids PROVE Ev!Without(ids) \in Maps
  <2>1. D \ ids \in SUBSET Nat
    OBVIOUS
  <2> QED
    BY <1>3, <2>1, InMaps
<1> QED
  BY <1>4, <1>5 DEF Ev!With, Ev!Without

(* What an Invoke copied keeps its place when the event's map changes by   *)
(* losing handlers, or gains one under an id that was never given out.     *)
LEMMA CallsKept ==
    ASSUME EventInv, nextId' \in Nat, nextId <= nextId', stack' = stack,
           DOMAIN handlers' \subseteq DOMAIN handlers \union {nextId}
    PROVE  \A k \in DOMAIN stack' : CallInv(stack[k])'
<1> SUFFICES ASSUME NEW k \in DOMAIN stack PROVE CallInv(stack[k])'
  OBVIOUS
<1> DEFINE f == stack[k]
<1>1. CallInv(f)
  BY DEF EventInv
<1>2. nextId \in Nat
  BY DEF EventInv, EventTypes
<1>3. f' = f
  OBVIOUS
<1> QED
  BY <1>1, <1>2, <1>3 DEF CallInv, Issued

LEMMA EventSubscribe ==
    ASSUME MaxSubscribes \in Nat, EventInv, Ev!Subscribe
    PROVE  EventInv'
<1>1. /\ nextId \in Nat /\ subscribes = nextId /\ nextId' = nextId + 1 /\ subscribes' = subscribes + 1
      /\ handlers' = Ev!With(nextId, nextId) /\ stack' = stack /\ invokes' = invokes
      /\ tokens' = tokens \union {[id |-> nextId, who |-> nextId]} /\ subscribes < MaxSubscribes
  BY DEF EventInv, EventTypes, Ev!Subscribe
<1>2. /\ handlers' \in Maps /\ DOMAIN handlers' = DOMAIN handlers \union {nextId}
      /\ \A i \in DOMAIN handlers' : handlers'[i] = IF i = nextId THEN nextId ELSE handlers[i]
  <2>1. handlers \in Maps
    BY DEF EventInv, EventTypes
  <2>2. /\ Ev!With(nextId, nextId) \in Maps
        /\ DOMAIN Ev!With(nextId, nextId) = DOMAIN handlers \union {nextId}
        /\ \A i \in DOMAIN handlers \union {nextId} :
              Ev!With(nextId, nextId)[i] = IF i = nextId THEN nextId ELSE handlers[i]
    BY <1>1, <2>1, MapsChange, Zenon
  <2> QED
    BY <1>1, <2>2, Zenon
<1>3. EventTypes'
  BY <1>1, <1>2 DEF EventInv, EventTypes
<1>4. Issued(handlers)'
  BY <1>1, <1>2 DEF EventInv, Issued
<1>5. \A k \in DOMAIN stack' : CallInv(stack[k])'
  BY <1>1, <1>2, CallsKept
<1>6. (\A tk \in tokens : tk.id < nextId /\ tk.who = tk.id)'
  BY <1>1 DEF EventInv, EventTypes
<1> QED
  BY <1>3, <1>4, <1>5, <1>6 DEF EventInv

(* Unsubscribe, Detach and Clear only take handlers and tokens away. *)
LEMMA EventRemoves ==
    ASSUME EventInv, UNCHANGED <<nextId, stack, subscribes, invokes>>,
           tokens' \subseteq tokens, handlers' \in Maps,
           DOMAIN handlers' \subseteq DOMAIN handlers,
           \A i \in DOMAIN handlers' : handlers'[i] = handlers[i]
    PROVE  EventInv'
<1>1. EventTypes'
  BY DEF EventInv, EventTypes
<1>2. Issued(handlers)'
  BY DEF EventInv, Issued
<1>3. \A k \in DOMAIN stack' : CallInv(stack[k])'
  BY CallsKept DEF EventInv, EventTypes
<1>4. (\A tk \in tokens : tk.id < nextId /\ tk.who = tk.id)'
  BY DEF EventInv
<1> QED
  BY <1>1, <1>2, <1>3, <1>4 DEF EventInv

(* A step of an Invoke changes the innermost one only. *)
LEMMA TopChanges ==
    ASSUME EventInv, stack # <<>>, NEW f \in Calls, CallInv(f),
           stack' = [stack EXCEPT ![Len(stack)] = f],
           UNCHANGED <<handlers, nextId, tokens, subscribes, invokes>>
    PROVE  EventInv'
<1>1. stack \in Seq(Calls) /\ Len(stack) \in 1..Len(stack) /\ Len(stack) <= MaxDepth
  BY DEF EventInv, EventTypes
<1>2. stack' \in Seq(Calls) /\ Len(stack') = Len(stack) /\ DOMAIN stack' = DOMAIN stack
  BY <1>1
<1>3. \A k \in DOMAIN stack' : stack'[k] = f \/ stack'[k] = stack[k]
  BY <1>1
<1>4. ASSUME NEW g, CallInv(g) PROVE CallInv(g)'
  BY <1>4 DEF CallInv, Issued
<1>5. \A k \in DOMAIN stack' : CallInv(stack[k])'
  BY <1>2, <1>3, <1>4 DEF EventInv, CallInv, Issued
<1> QED
  BY <1>1, <1>2, <1>5 DEF EventInv, EventTypes, Issued

LEMMA EventVisit ==
    ASSUME EventInv, NEW id \in 0..MaxSubscribes, Ev!Visit(id)
    PROVE  EventInv'
<1> DEFINE f == Ev!Top
           calls == id \in DOMAIN handlers
           g == [f EXCEPT !.left = @ \ {id}, !.busy = calls,
                          !.called = IF calls THEN @ \union {id} ELSE @]
<1>1. /\ stack # <<>> /\ ~f.busy /\ id \in f.left /\ stack' = [stack EXCEPT ![Len(stack)] = g]
      /\ UNCHANGED <<handlers, nextId, tokens, subscribes, invokes>>
  BY DEF Ev!Visit
<1>2. stack \in Seq(Calls) /\ Len(stack) \in DOMAIN stack
  BY <1>1 DEF EventInv, EventTypes
<1>3. f \in Calls /\ CallInv(f)
  BY <1>2 DEF EventInv, Ev!Top
<1>4. /\ g \in Calls
      /\ g.copy = f.copy /\ g.left = f.left \ {id}
      /\ g.called = IF calls THEN f.called \union {id} ELSE f.called
  <2>1. PICK b \in BOOLEAN : b = calls
    <3>1. CASE calls
      BY <3>1, TRUE = calls, Zenon
    <3>2. CASE ~calls
      BY <3>2, FALSE = calls, Zenon
    <3> QED
      BY <3>1, <3>2, Zenon
  <2>2. PICK c : c = IF calls THEN f.called \union {id} ELSE f.called
    OBVIOUS
  <2>3. c \in SUBSET Nat
    BY <2>2, <1>3 DEF Calls
  <2>4. g = [f EXCEPT !.left = @ \ {id}, !.busy = b, !.called = c]
    BY <2>1, <2>2, Zenon
  <2> HIDE DEF g, calls
  <2>5. g \in Calls /\ g.copy = f.copy /\ g.left = f.left \ {id} /\ g.called = c
    BY <2>3, <2>4, <1>3 DEF Calls
  <2> QED
    BY <2>2, <2>5
<1>5. CallInv(g)
  BY <1>3, <1>4 DEF CallInv
<1> HIDE DEF g
<1> QED
  BY <1>1, <1>4, <1>5, TopChanges

LEMMA EventHandlerReturns ==
    ASSUME EventInv, Ev!HandlerReturns
    PROVE  EventInv'
<1> DEFINE f == Ev!Top
           g == [f EXCEPT !.busy = FALSE]
<1>1. stack # <<>> /\ UNCHANGED <<handlers, nextId, tokens, subscribes, invokes>>
  BY DEF Ev!HandlerReturns
<1>2. stack \in Seq(Calls) /\ Len(stack) \in DOMAIN stack
  BY <1>1 DEF EventInv, EventTypes
<1>3. f \in Calls /\ CallInv(f)
  BY <1>2 DEF EventInv, Ev!Top
<1>4. g \in Calls /\ CallInv(g)
  BY <1>3 DEF Calls, CallInv
<1>5. stack' = [stack EXCEPT ![Len(stack)] = g]
  BY DEF Ev!HandlerReturns, Ev!Top
<1> HIDE DEF g
<1> QED
  BY <1>1, <1>4, <1>5, TopChanges

(* A new Invoke has all of its copy to call. *)
LEMMA EventInvoke ==
    ASSUME MaxInvokes \in Nat, MaxDepth \in Nat, EventInv, Ev!Invoke
    PROVE  EventInv'
<1> DEFINE g == [copy |-> handlers, left |-> DOMAIN handlers, called |-> {}, busy |-> FALSE]
<1>1. /\ invokes < MaxInvokes /\ Len(stack) < MaxDepth /\ invokes' = invokes + 1
      /\ stack' = Append(stack, g) /\ UNCHANGED <<handlers, nextId, tokens, subscribes>>
  BY DEF Ev!Invoke
<1>2. handlers \in Maps /\ DOMAIN handlers \in SUBSET Nat /\ stack \in Seq(Calls) /\ Issued(handlers)
  BY DEF EventInv, EventTypes, Issued
<1>3. g \in Calls
  BY <1>2 DEF Calls
<1>4. g.copy = handlers /\ g.left = DOMAIN handlers /\ g.called = {}
  OBVIOUS
<1>5. CallInv(g)
  BY <1>2, <1>4 DEF CallInv
<1> HIDE DEF g
<1>6. stack' \in Seq(Calls) /\ Len(stack') = Len(stack) + 1 /\ DOMAIN stack' = 1..(Len(stack) + 1)
  BY <1>1, <1>2, <1>3
<1>7. \A k \in DOMAIN stack' : stack'[k] = g \/ (k \in DOMAIN stack /\ stack'[k] = stack[k])
  BY <1>1, <1>2, <1>3
<1>8. ASSUME NEW k \in DOMAIN stack' PROVE CallInv(stack'[k])
  BY <1>5, <1>7 DEF EventInv
<1>9. \A k \in DOMAIN stack' : CallInv(stack[k])'
  BY <1>1, <1>8 DEF CallInv, Issued
<1>10. EventTypes'
  BY <1>1, <1>2, <1>6 DEF EventInv, EventTypes
<1> QED
  BY <1>1, <1>9, <1>10 DEF EventInv, Issued

LEMMA FrontKeeps ==
    ASSUME NEW S, NEW s \in Seq(S), s # <<>>, NEW r, r = SubSeq(s, 1, Len(s) - 1)
    PROVE  /\ r \in Seq(S) /\ Len(r) = Len(s) - 1
           /\ DOMAIN r \subseteq DOMAIN s /\ \A k \in DOMAIN r : r[k] = s[k]
<1>1. PICK n \in Nat : n = Len(s) - 1 /\ DOMAIN s = 1..(n + 1)
  OBVIOUS
<1>2. /\ SubSeq(s, 1, n) \in Seq(S)
      /\ Len(SubSeq(s, 1, n)) = IF 1 <= n THEN n - 1 + 1 ELSE 0
      /\ \A i \in 1..(n - 1 + 1) : SubSeq(s, 1, n)[i] = s[1 + i - 1]
  <2>1. 1 \in 1..(Len(s) + 1) /\ n \in (1 - 1)..Len(s)
    BY <1>1
  <2> QED
    BY <2>1, SubSeqProperties
<1>3. r \in Seq(S) /\ Len(r) = n /\ \A i \in 1..n : r[i] = s[i]
  BY <1>1, <1>2
<1>4. DOMAIN r = 1..n
  BY <1>3
<1> QED
  BY <1>1, <1>3, <1>4

LEMMA EventInvokeReturns ==
    ASSUME MaxDepth \in Nat, EventInv, Ev!InvokeReturns
    PROVE  EventInv'
<1>1. /\ stack # <<>> /\ stack' = SubSeq(stack, 1, Len(stack) - 1)
      /\ UNCHANGED <<handlers, nextId, tokens, subscribes, invokes>>
  BY DEF Ev!InvokeReturns
<1>2. stack \in Seq(Calls) /\ Len(stack) \in Nat /\ Len(stack) > 0 /\ Len(stack) <= MaxDepth
  BY <1>1 DEF EventInv, EventTypes
<1>3. /\ stack' \in Seq(Calls) /\ Len(stack') = Len(stack) - 1
      /\ DOMAIN stack' \subseteq DOMAIN stack
      /\ \A k \in DOMAIN stack' : stack'[k] = stack[k]
  BY <1>1, <1>2, FrontKeeps, Zenon
<1>4. \A k \in DOMAIN stack' : CallInv(stack'[k])
  BY <1>3 DEF EventInv
<1>5. \A k \in DOMAIN stack' : CallInv(stack[k])'
  BY <1>1, <1>4 DEF CallInv, Issued
<1>6. EventTypes'
  <2>1. MaxDepth >= Len(stack')
    BY <1>2, <1>3
  <2> QED
    BY <1>1, <1>2, <1>3 DEF EventInv, EventTypes
<1> QED
  BY <1>1, <1>5, <1>6 DEF EventInv, Issued

LEMMA EventPreserves ==
    ASSUME MaxSubscribes \in Nat, MaxInvokes \in Nat, MaxDepth \in Nat, EventInv, [Ev!Next]_Ev!vars
    PROVE  EventInv'
<1>a. handlers \in Maps
  BY DEF EventInv, EventTypes
<1>1. ASSUME NEW tk \in tokens, Ev!Unsubscribe(tk) PROVE EventInv'
  <2>1. handlers' = Ev!Without({tk.id}) /\ tokens' \subseteq tokens /\ UNCHANGED <<nextId, stack, subscribes, invokes>>
    BY <1>1 DEF Ev!Unsubscribe
  <2>2. /\ Ev!Without({tk.id}) \in Maps
        /\ DOMAIN Ev!Without({tk.id}) = DOMAIN handlers \ {tk.id}
        /\ \A i \in DOMAIN handlers \ {tk.id} : Ev!Without({tk.id})[i] = handlers[i]
    BY <1>a, MapsChange, Zenon
  <2>3. /\ handlers' \in Maps /\ DOMAIN handlers' \subseteq DOMAIN handlers
        /\ \A i \in DOMAIN handlers' : handlers'[i] = handlers[i]
    BY <2>1, <2>2, Zenon
  <2> QED
    BY <2>1, <2>3, EventRemoves, Zenon
<1>2. ASSUME NEW tk \in tokens, Ev!Detach(tk) PROVE EventInv'
  BY <1>2, <1>a, EventRemoves DEF Ev!Detach
<1>3. CASE Ev!Clear
  <2>1. handlers' \in [{} -> Nat] /\ DOMAIN handlers' = {}
    BY <1>3 DEF Ev!Clear
  <2>2. handlers' \in Maps
    BY <2>1, InMaps, {} \in SUBSET Nat
  <2> QED
    BY <1>3, <2>1, <2>2, EventRemoves DEF Ev!Clear
<1>4. CASE UNCHANGED Ev!vars
  BY <1>4, <1>a, EventRemoves DEF Ev!vars
<1> QED
  BY <1>1, <1>2, <1>3, <1>4, EventSubscribe, EventInvoke, EventVisit, EventHandlerReturns, EventInvokeReturns
     DEF Ev!Next

(* What the invariant says of the handlers is what the run checks. *)
LEMMA EventSeen ==
    ASSUME MaxSubscribes \in Nat, MaxInvokes \in Nat, MaxDepth \in Nat
    PROVE  EventInv => Ev!TypeOK /\ SubscribersCalledOnce
<1> SUFFICES ASSUME EventInv PROVE Ev!TypeOK /\ SubscribersCalledOnce
  OBVIOUS
<1>1. Ev!TypeOK
  <2>1. \A k \in DOMAIN stack : stack[k] \in Calls
    BY DEF EventInv, EventTypes
  <2>2. \A k \in DOMAIN stack : stack[k].busy \in BOOLEAN
    BY <2>1 DEF Calls
  <2>3. tokens \subseteq [id : 0..MaxSubscribes, who : 0..MaxSubscribes]
    BY DEF EventInv, EventTypes
  <2>4. DOMAIN handlers \subseteq 0..MaxSubscribes
    BY DEF EventInv, EventTypes, Issued
  <2> QED
    BY <2>2, <2>3, <2>4 DEF EventInv, EventTypes, Ev!TypeOK
<1>2. SubscribersCalledOnce
  BY DEF EventInv, CallInv, Issued, SubscribersCalledOnce, Ev!SubscribersCalledOnce
<1> QED
  BY <1>1, <1>2

(* However handlers subscribe, unsubscribe, clear and invoke during an     *)
(* Invoke, it calls none twice and misses none that stays, and a token     *)
(* removes no other subscriber's handler (Event::Invoke, Subscription),    *)
(* for any number of subscribers, calls and nested Invokes.                *)
THEOREM HandlersCalledOnce ==
    ASSUME MaxSubscribes \in Nat, MaxInvokes \in Nat, MaxDepth \in Nat
    PROVE  Ev!Spec => [](Ev!TypeOK /\ SubscribersCalledOnce)
<1>1. Ev!Init => EventInv
  BY EventInit
<1>2. EventInv /\ [Ev!Next]_Ev!vars => EventInv'
  BY EventPreserves
<1>3. EventInv => Ev!TypeOK /\ SubscribersCalledOnce
  BY EventSeen
<1> QED
  BY <1>1, <1>2, <1>3, PTL DEF Ev!Spec

-----------------------------------------------------------------------------
(***************************************************************************)
(* The stress client.                                                      *)
(***************************************************************************)

(* What the instance stands for: the two marks are no users, and a session *)
(* is not cleaned up in the middle of its worker's turn (Gap).             *)
StressConstants ==
    /\ Null \notin Users /\ Cleaning \notin Users /\ Null # Cleaning
    /\ MaxSends \in Nat /\ Gap = FALSE

WorkerPcs == {"begin", "loop", "test", "send", "exited"}
SessionStates == {"none", "connecting", "on", "closing", "flag", "queue", "free", "delete"}

StressTypes ==
    /\ slot \in [Slots -> Users \cup {Null, Cleaning}] /\ disc \in [Slots -> BOOLEAN]
    /\ sentMessages \in [Slots -> Seq(Nat)] /\ flight \in [Users -> Seq(Nat)]
    /\ st \in [Users -> SessionStates]
    /\ workerPc \in [Slots -> WorkerPcs] /\ mine \in [Slots -> Users \cup {Null}]
    /\ found \in [Users -> Slots \cup {Null}] /\ sends \in 0..MaxSends

StressFlags == testRunning \in BOOLEAN /\ cleared \in BOOLEAN

(* The connected users have the slots, one each; and before every worker   *)
(* has begun, nobody has one.                                              *)
SlotsHeld ==
    /\ ~cleared => /\ \A u \in Users : st[u] \in {"on", "closing"} => \E i \in Slots : slot[i] = u
                   /\ \A i \in Slots : slot[i] \in Users => st[slot[i]] \in {"on", "closing"}
                   /\ \A i, j \in Slots : slot[i] \in Users /\ slot[i] = slot[j] => i = j
    /\ cleared => /\ \A u \in Users : st[u] \in {"none", "on", "closing"}
                  /\ \A i \in Slots : workerPc[i] = "exited"
    /\ (\E i \in Slots : workerPc[i] = "begin") =>
          (\A j \in Slots : slot[j] = Null) /\ \A u \in Users : st[u] \in {"none", "connecting"}

(* A slot is cleaned up by one user, whose messages are gone before it is  *)
(* free.                                                                   *)
Cleaners == {u \in Users : st[u] \in {"flag", "queue", "free"}}

SlotsCleaned ==
    /\ \A u \in Cleaners : found[u] \in Slots /\ slot[found[u]] = Cleaning
    /\ \A u, v \in Cleaners : found[u] = found[v] => u = v
    /\ \A u \in Users : st[u] = "free" => sentMessages[found[u]] = <<>>
    /\ \A i \in Slots : slot[i] = Null => sentMessages[i] = <<>>
    /\ \A u \in Users : st[u] \in {"none", "connecting"} => flight[u] = <<>>

(* In the middle of its turn a worker's user is that of its slot.          *)
WorkersHold ==
    \A i \in Slots : IF workerPc[i] \in {"test", "send"} THEN mine[i] \in Users /\ mine[i] = slot[i]
                                                         ELSE mine[i] = Null

(* A message more than were sent: queued and not sent yet, or never.       *)
OneMore(s, f) == \E x \in Nat : s = Append(f, x)

Matches(i) ==
    IF workerPc[i] = "send" THEN OneMore(sentMessages[i], flight[slot[i]])
    ELSE \/ sentMessages[i] = flight[slot[i]]
         \/ /\ workerPc[i] = "exited" /\ st[slot[i]] = "closing"
            /\ OneMore(sentMessages[i], flight[slot[i]])

QueuesMatch == ~cleared => \A i \in Slots : slot[i] \in Users => Matches(i)

StressInv == StressTypes /\ StressFlags /\ SlotsHeld /\ SlotsCleaned /\ WorkersHold /\ QueuesMatch

LEMMA OneMoreFacts ==
    ASSUME NEW s \in Seq(Nat), NEW f \in Seq(Nat), OneMore(s, f)
    PROVE  /\ s # <<>> /\ s = Append(f, s[Len(s)]) /\ s[Len(s)] \in Nat
           /\ Len(s) = Len(f) + 1 /\ SubSeq(s, 1, Len(f)) = f
           /\ f # <<>> => OneMore(Tail(s), Tail(f))
<1>1. PICK x \in Nat : s = Append(f, x)
  BY DEF OneMore
<1>2. Len(s) = Len(f) + 1 /\ s[Len(s)] = x /\ s # <<>>
  BY <1>1
<1>3. SubSeq(s, 1, Len(f)) = f
  BY <1>1, <1>2
<1>4. f # <<>> => Tail(s) = Append(Tail(f), x)
  BY <1>1
<1>5. QED
  BY <1>1, <1>2, <1>3, <1>4 DEF OneMore

LEMMA StressWorkerBegins ==
    ASSUME StressConstants, StressInv, NEW i \in Slots, Stress!WorkerBegins(i)
    PROVE  StressInv'
<1> USE DEF StressConstants, StressInv, StressTypes, Stress!WorkerBegins, Stress!Goto
<1>1. StressTypes'
  BY DEF WorkerPcs
<1>2. SlotsHeld'
  BY DEF SlotsHeld
<1>3. SlotsCleaned'
  BY DEF SlotsHeld, SlotsCleaned, Cleaners
<1>4. WorkersHold'
  BY DEF WorkersHold
<1>5. QueuesMatch'
  BY DEF QueuesMatch, Matches
<1>6. StressFlags'
  BY Zenon DEF StressFlags
<1>7. QED
  BY <1>1, <1>2, <1>3, <1>4, <1>5, <1>6

LEMMA StressWorkerLoad ==
    ASSUME StressConstants, StressInv, NEW i \in Slots, Stress!WorkerLoad(i)
    PROVE  StressInv'
<1> USE DEF StressConstants, StressInv, StressTypes, Stress!WorkerLoad, Stress!Goto
<1>1. StressTypes'
  BY DEF WorkerPcs
<1>2. SlotsHeld'
  BY DEF SlotsHeld
<1>3. SlotsCleaned'
  BY DEF SlotsCleaned, Cleaners
<1>4. WorkersHold'
  BY DEF WorkersHold
<1>5. QueuesMatch'
  BY DEF QueuesMatch, Matches
<1>6. StressFlags'
  BY Zenon DEF StressFlags
<1>7. QED
  BY <1>1, <1>2, <1>3, <1>4, <1>5, <1>6

LEMMA StressWorkerWaits ==
    ASSUME StressConstants, StressInv, NEW i \in Slots, Stress!WorkerWaits(i)
    PROVE  StressInv'
<1> USE DEF StressConstants, StressInv, StressTypes, Stress!WorkerWaits, Stress!Goto
<1>1. StressTypes'
  BY DEF WorkerPcs
<1>2. SlotsHeld'
  BY DEF SlotsHeld
<1>3. SlotsCleaned'
  BY DEF SlotsCleaned, Cleaners
<1>4. WorkersHold'
  BY DEF WorkersHold
<1>5. QueuesMatch'
  BY DEF QueuesMatch, Matches
<1>6. StressFlags'
  BY Zenon DEF StressFlags
<1>7. QED
  BY <1>1, <1>2, <1>3, <1>4, <1>5, <1>6

LEMMA StressRandomDisconnect ==
    ASSUME StressConstants, StressInv, NEW i \in Slots, Stress!RandomDisconnect(i)
    PROVE  StressInv'
<1> USE DEF StressConstants, StressInv, StressTypes, Stress!RandomDisconnect, Stress!Goto, Stress!Disconnect
<1>1. StressTypes'
  BY DEF WorkerPcs, SessionStates
<1>2. SlotsHeld'
  BY DEF SlotsHeld
<1>3. SlotsCleaned'
  BY DEF SlotsCleaned, Cleaners
<1>4. WorkersHold'
  BY DEF WorkersHold
<1>5. QueuesMatch'
  BY DEF QueuesMatch, Matches
<1>6. StressFlags'
  BY Zenon DEF StressFlags
<1>7. QED
  BY <1>1, <1>2, <1>3, <1>4, <1>5, <1>6

LEMMA StressEnqueueMessage ==
    ASSUME StressConstants, StressInv, NEW i \in Slots, Stress!EnqueueMessage(i)
    PROVE  StressInv'
<1> USE DEF StressConstants, StressInv, StressTypes, Stress!EnqueueMessage, Stress!Goto
<1>1. StressTypes'
  BY DEF WorkerPcs
<1>2. SlotsHeld'
  BY DEF SlotsHeld
<1>3. SlotsCleaned'
  BY DEF SlotsCleaned, Cleaners, WorkersHold
<1>4. WorkersHold'
  BY DEF WorkersHold
<1>5. QueuesMatch'
  <2> SUFFICES ASSUME ~cleared', NEW j \in Slots, slot'[j] \in Users PROVE Matches(j)'
    BY DEF QueuesMatch
  <2>1. Matches(j)
    BY DEF QueuesMatch
  <2>2. CASE j = i
    <3>1. sentMessages'[i] = Append(flight[slot[i]], sends + 1) /\ sends + 1 \in Nat
      BY <2>1, <2>2 DEF Matches
    <3>2. OneMore(sentMessages'[i], flight'[slot'[i]]) /\ workerPc'[i] = "send"
      BY <3>1 DEF OneMore
    <3>3. QED
      BY <2>2, <3>2 DEF Matches
  <2>3. CASE j # i
    BY <2>1, <2>3 DEF Matches
  <2>4. QED
    BY <2>2, <2>3
<1>6. StressFlags'
  BY Zenon DEF StressFlags
<1>7. QED
  BY <1>1, <1>2, <1>3, <1>4, <1>5, <1>6

LEMMA StressSendMessage ==
    ASSUME StressConstants, StressInv, NEW i \in Slots, Stress!SendMessage(i)
    PROVE  StressInv'
<1> USE DEF StressConstants, StressInv, StressTypes, Stress!SendMessage, Stress!Goto
<1>1. StressTypes'
  <2>1. mine[i] \in Users /\ mine[i] = slot[i] /\ ~cleared
    BY DEF WorkersHold, SlotsHeld
  <2>2. OneMore(sentMessages[i], flight[mine[i]])
    BY <2>1 DEF QueuesMatch, Matches
  <2>3. Append(flight[mine[i]], sentMessages[i][Len(sentMessages[i])]) \in Seq(Nat)
    BY <2>1, <2>2, OneMoreFacts
  <2>4. QED
    BY <2>1, <2>3 DEF WorkerPcs, SessionStates
<1>2. SlotsHeld'
  BY DEF SlotsHeld
<1>3. SlotsCleaned'
  BY DEF SlotsCleaned, Cleaners
<1>4. WorkersHold'
  BY DEF WorkersHold
<1>5. QueuesMatch'
  BY OneMoreFacts DEF QueuesMatch, Matches, SlotsHeld, SlotsCleaned, WorkersHold
<1>6. StressFlags'
  BY Zenon DEF StressFlags
<1>7. QED
  BY <1>1, <1>2, <1>3, <1>4, <1>5, <1>6

LEMMA StressSendFails ==
    ASSUME StressConstants, StressInv, NEW i \in Slots, Stress!SendFails(i)
    PROVE  StressInv'
<1> USE DEF StressConstants, StressInv, StressTypes, Stress!SendFails, Stress!Goto, Stress!Disconnect
<1>1. StressTypes'
  BY DEF WorkerPcs, SessionStates
<1>2. SlotsHeld'
  BY DEF SlotsHeld
<1>3. SlotsCleaned'
  BY DEF SlotsCleaned, Cleaners
<1>4. WorkersHold'
  BY DEF WorkersHold
<1>5. QueuesMatch'
  BY DEF QueuesMatch, Matches, SlotsHeld, WorkersHold
<1>6. StressFlags'
  BY Zenon DEF StressFlags
<1>7. QED
  BY <1>1, <1>2, <1>3, <1>4, <1>5, <1>6

LEMMA StressWorkerEnds ==
    ASSUME StressConstants, StressInv, NEW i \in Slots, Stress!WorkerEnds(i)
    PROVE  StressInv'
<1> USE DEF StressConstants, StressInv, StressTypes, Stress!WorkerEnds, Stress!Goto, Stress!Disconnect
<1>1. StressTypes'
  BY DEF WorkerPcs, SessionStates
<1>2. SlotsHeld'
  BY DEF SlotsHeld
<1>3. SlotsCleaned'
  BY DEF SlotsCleaned, Cleaners
<1>4. WorkersHold'
  BY DEF WorkersHold
<1>5. QueuesMatch'
  BY DEF QueuesMatch, Matches
<1>6. StressFlags'
  BY Zenon DEF StressFlags
<1>7. QED
  BY <1>1, <1>2, <1>3, <1>4, <1>5, <1>6

LEMMA StressStopStressTest ==
    ASSUME StressConstants, StressInv, Stress!StopStressTest
    PROVE  StressInv'
<1> USE DEF StressConstants, StressInv, StressTypes, Stress!StopStressTest
<1>1. StressTypes'
  OBVIOUS
<1>2. SlotsHeld'
  BY DEF SlotsHeld
<1>3. SlotsCleaned'
  BY DEF SlotsCleaned, Cleaners
<1>4. WorkersHold'
  BY DEF WorkersHold
<1>5. QueuesMatch'
  BY DEF QueuesMatch, Matches
<1>6. StressFlags'
  BY Zenon DEF StressFlags
<1>7. QED
  BY <1>1, <1>2, <1>3, <1>4, <1>5, <1>6

LEMMA StressJoinWorkers ==
    ASSUME StressConstants, StressInv, Stress!JoinWorkers
    PROVE  StressInv'
<1> USE DEF StressConstants, StressInv, StressTypes, Stress!JoinWorkers
<1>1. StressTypes'
  BY DEF SessionStates
<1>2. SlotsHeld'
  BY DEF SlotsHeld
<1>3. SlotsCleaned'
  BY DEF SlotsCleaned, Cleaners
<1>4. WorkersHold'
  BY DEF WorkersHold
<1>5. QueuesMatch'
  BY DEF QueuesMatch
<1>6. StressFlags'
  BY Zenon DEF StressFlags
<1>7. QED
  BY <1>1, <1>2, <1>3, <1>4, <1>5, <1>6

LEMMA StressConnect ==
    ASSUME StressConstants, StressInv, NEW u \in Users, Stress!Connect(u)
    PROVE  StressInv'
<1> USE DEF StressConstants, StressInv, StressTypes, Stress!Connect
<1>1. StressTypes'
  BY DEF SessionStates
<1>2. SlotsHeld'
  BY DEF SlotsHeld
<1>3. SlotsCleaned'
  BY DEF SlotsCleaned, Cleaners
<1>4. WorkersHold'
  BY DEF WorkersHold
<1>5. QueuesMatch'
  BY DEF QueuesMatch, Matches
<1>6. StressFlags'
  BY Zenon DEF StressFlags
<1>7. QED
  BY <1>1, <1>2, <1>3, <1>4, <1>5, <1>6

LEMMA StressOnConnectComplete ==
    ASSUME StressConstants, StressInv, NEW u \in Users, Stress!OnConnectComplete(u)
    PROVE  StressInv'
<1> USE DEF StressConstants, StressInv, StressTypes, Stress!OnConnectComplete
<1>1. StressTypes'
  BY DEF SessionStates
<1>2. SlotsHeld'
  <2>1. PICK i \in Slots : slot[i] = Null /\ slot' = [slot EXCEPT ![i] = u]
    OBVIOUS
  <2>2. ~cleared /\ \A j \in Slots : slot[j] # u /\ workerPc[j] # "begin"
    BY DEF SlotsHeld
  <2>3. \A v \in Users : st'[v] \in {"on", "closing"} => \E j \in Slots : slot'[j] = v
    <3> SUFFICES ASSUME NEW v \in Users, st'[v] \in {"on", "closing"}
                 PROVE  \E j \in Slots : slot'[j] = v
      OBVIOUS
    <3>1. CASE v = u
      BY <2>1, <3>1
    <3>2. CASE v # u
      <4>1. PICK j \in Slots : slot[j] = v
        BY <2>2, <3>2 DEF SlotsHeld
      <4>2. slot'[j] = v
        BY <2>1, <4>1
      <4>3. QED
        BY <4>2
    <3>3. QED
      BY <3>1, <3>2
  <2>4. \A j \in Slots : slot'[j] \in Users => st'[slot'[j]] \in {"on", "closing"}
    BY <2>1, <2>2 DEF SlotsHeld
  <2>5. \A j, k \in Slots : slot'[j] \in Users /\ slot'[j] = slot'[k] => j = k
    BY <2>1, <2>2 DEF SlotsHeld
  <2>6. QED
    BY <2>2, <2>3, <2>4, <2>5 DEF SlotsHeld
<1>3. SlotsCleaned'
  BY DEF SlotsCleaned, Cleaners
<1>4. WorkersHold'
  BY DEF WorkersHold
<1>5. QueuesMatch'
  BY DEF QueuesMatch, Matches, SlotsCleaned, WorkersHold
<1>6. StressFlags'
  BY Zenon DEF StressFlags
<1>7. QED
  BY <1>1, <1>2, <1>3, <1>4, <1>5, <1>6

LEMMA StressPeerCloses ==
    ASSUME StressConstants, StressInv, NEW u \in Users, Stress!PeerCloses(u)
    PROVE  StressInv'
<1> USE DEF StressConstants, StressInv, StressTypes, Stress!PeerCloses, Stress!Disconnect
<1>1. StressTypes'
  BY DEF SessionStates
<1>2. SlotsHeld'
  BY DEF SlotsHeld
<1>3. SlotsCleaned'
  BY DEF SlotsCleaned, Cleaners
<1>4. WorkersHold'
  BY DEF WorkersHold
<1>5. QueuesMatch'
  BY DEF QueuesMatch, Matches
<1>6. StressFlags'
  BY Zenon DEF StressFlags
<1>7. QED
  BY <1>1, <1>2, <1>3, <1>4, <1>5, <1>6

LEMMA StressHandleEchoResponse ==
    ASSUME StressConstants, StressInv, NEW u \in Users, Stress!HandleEchoResponse(u)
    PROVE  StressInv'
<1> USE DEF StressConstants, StressInv, StressTypes, Stress!HandleEchoResponse
<1>1. StressTypes'
  OBVIOUS
<1>2. SlotsHeld'
  BY DEF SlotsHeld
<1>3. SlotsCleaned'
  BY DEF SlotsCleaned, Cleaners
<1>4. WorkersHold'
  BY DEF WorkersHold
<1>5. QueuesMatch'
  BY OneMoreFacts DEF QueuesMatch, Matches, SlotsHeld
<1>6. StressFlags'
  BY Zenon DEF StressFlags
<1>7. QED
  BY <1>1, <1>2, <1>3, <1>4, <1>5, <1>6

LEMMA StressStartCleaning ==
    ASSUME StressConstants, StressInv, NEW u \in Users, Stress!StartCleaning(u)
    PROVE  StressInv'
<1> USE DEF StressConstants, StressInv, StressTypes, Stress!StartCleaning
<1>1. StressTypes'
  BY DEF SessionStates
<1>2. SlotsHeld'
  BY DEF SlotsHeld
<1>3. SlotsCleaned'
  BY DEF SlotsCleaned, Cleaners
<1>4. WorkersHold'
  BY DEF WorkersHold
<1>5. QueuesMatch'
  BY DEF QueuesMatch, Matches, SlotsHeld
<1>6. StressFlags'
  BY Zenon DEF StressFlags
<1>7. QED
  BY <1>1, <1>2, <1>3, <1>4, <1>5, <1>6

LEMMA StressResetFlag ==
    ASSUME StressConstants, StressInv, NEW u \in Users, Stress!ResetFlag(u)
    PROVE  StressInv'
<1> USE DEF StressConstants, StressInv, StressTypes, Stress!ResetFlag
<1>1. StressTypes'
  BY DEF SessionStates
<1>2. SlotsHeld'
  BY DEF SlotsHeld
<1>3. SlotsCleaned'
  BY DEF SlotsCleaned, Cleaners
<1>4. WorkersHold'
  BY DEF WorkersHold
<1>5. QueuesMatch'
  BY DEF QueuesMatch, Matches
<1>6. StressFlags'
  BY Zenon DEF StressFlags
<1>7. QED
  BY <1>1, <1>2, <1>3, <1>4, <1>5, <1>6

LEMMA StressEmptyQueue ==
    ASSUME StressConstants, StressInv, NEW u \in Users, Stress!EmptyQueue(u)
    PROVE  StressInv'
<1> USE DEF StressConstants, StressInv, StressTypes, Stress!EmptyQueue
<1>1. StressTypes'
  <2>1. <<>> \in Seq(Nat)
    OBVIOUS
  <2>2. QED
    BY <2>1 DEF WorkerPcs, SessionStates
<1>2. SlotsHeld'
  BY DEF SlotsHeld
<1>3. SlotsCleaned'
  BY DEF SlotsCleaned, Cleaners
<1>4. WorkersHold'
  BY DEF WorkersHold
<1>5. QueuesMatch'
  BY DEF QueuesMatch, Matches, SlotsCleaned, Cleaners
<1>6. StressFlags'
  BY Zenon DEF StressFlags
<1>7. QED
  BY <1>1, <1>2, <1>3, <1>4, <1>5, <1>6

LEMMA StressFreeSlot ==
    ASSUME StressConstants, StressInv, NEW u \in Users, Stress!FreeSlot(u)
    PROVE  StressInv'
<1> USE DEF StressConstants, StressInv, StressTypes, Stress!FreeSlot
<1>1. StressTypes'
  BY DEF SessionStates
<1>2. SlotsHeld'
  BY DEF SlotsHeld, SlotsCleaned, Cleaners
<1>3. SlotsCleaned'
  BY DEF SlotsCleaned, Cleaners
<1>4. WorkersHold'
  BY DEF WorkersHold, SlotsCleaned, Cleaners
<1>5. QueuesMatch'
  BY DEF QueuesMatch, Matches
<1>6. StressFlags'
  BY Zenon DEF StressFlags
<1>7. QED
  BY <1>1, <1>2, <1>3, <1>4, <1>5, <1>6

LEMMA StressDeleteUser ==
    ASSUME StressConstants, StressInv, NEW u \in Users, Stress!DeleteUser(u)
    PROVE  StressInv'
<1> USE DEF StressConstants, StressInv, StressTypes, Stress!DeleteUser
<1>1. StressTypes'
  BY DEF SessionStates
<1>2. SlotsHeld'
  BY DEF SlotsHeld
<1>3. SlotsCleaned'
  BY DEF SlotsCleaned, Cleaners
<1>4. WorkersHold'
  BY DEF WorkersHold
<1>5. QueuesMatch'
  <2> SUFFICES ASSUME ~cleared', NEW j \in Slots, slot'[j] \in Users PROVE Matches(j)'
    BY DEF QueuesMatch
  <2>1. Matches(j) /\ slot'[j] = slot[j] /\ slot[j] # u
    BY DEF QueuesMatch, SlotsHeld
  <2>2. QED
    BY <2>1 DEF Matches
<1>6. StressFlags'
  BY Zenon DEF StressFlags
<1>7. QED
  BY <1>1, <1>2, <1>3, <1>4, <1>5, <1>6

LEMMA StressInit ==
    ASSUME StressConstants, Stress!Init
    PROVE  StressInv
<1> USE DEF StressConstants, Stress!Init
<1>1. <<>> \in Seq(Nat) /\ 0 \in 0..MaxSends
  OBVIOUS
<1>2. StressTypes
  BY <1>1 DEF StressTypes, WorkerPcs, SessionStates
<1>3. StressFlags
  BY Zenon DEF StressFlags
<1>4. SlotsHeld /\ SlotsCleaned /\ WorkersHold /\ QueuesMatch
  BY DEF SlotsHeld, SlotsCleaned, Cleaners, WorkersHold, QueuesMatch
<1>5. QED
  BY <1>2, <1>3, <1>4 DEF StressInv

LEMMA StressPreserves ==
    ASSUME StressConstants, StressInv, [Stress!Next]_Stress!vars
    PROVE  StressInv'
<1>1. CASE Stress!Next
  <2>1. ASSUME NEW i \in Slots, Stress!WorkerStep(i) PROVE StressInv'
    BY <2>1, StressWorkerBegins, StressWorkerLoad, StressWorkerWaits, StressRandomDisconnect,
       StressEnqueueMessage, StressSendMessage, StressSendFails, StressWorkerEnds DEF Stress!WorkerStep
  <2>2. ASSUME NEW u \in Users, Stress!CleanUp(u) PROVE StressInv'
    BY <2>2, StressStartCleaning, StressResetFlag, StressEmptyQueue, StressFreeSlot, StressDeleteUser
       DEF Stress!CleanUp
  <2>3. ASSUME NEW u \in Users,
               Stress!Connect(u) \/ Stress!OnConnectComplete(u) \/ Stress!PeerCloses(u)
                 \/ Stress!HandleEchoResponse(u)
        PROVE  StressInv'
    BY <2>3, StressConnect, StressOnConnectComplete, StressPeerCloses, StressHandleEchoResponse
  <2>4. QED
    BY <1>1, <2>1, <2>2, <2>3, StressStopStressTest, StressJoinWorkers DEF Stress!Next
<1>2. CASE UNCHANGED Stress!vars
  BY <1>2 DEF Stress!vars, StressInv, StressTypes, StressFlags, SlotsHeld, SlotsCleaned, Cleaners,
              WorkersHold, QueuesMatch, Matches
<1>3. QED
  BY <1>1, <1>2

LEMMA StressMatches ==
    ASSUME StressConstants, StressInv
    PROVE  Stress!TypeOK /\ EchoMatches
<1> USE DEF StressConstants, StressInv, StressTypes
<1>1. Stress!TypeOK
  <2>1. {testRunning, cleared} \subseteq BOOLEAN
    BY Zenon DEF StressFlags
  <2>2. QED
    BY <2>1 DEF Stress!TypeOK, WorkerPcs, SessionStates
<1>2. ASSUME NEW u \in Users, st[u] \in {"on", "closing"}, ~cleared
      PROVE  /\ Stress!Cardinality({i \in Slots : slot[i] = u}) = 1
             /\ \A i \in Slots : slot[i] = u =>
                   \/ sentMessages[i] = flight[u]
                   \/ /\ Len(sentMessages[i]) = Len(flight[u]) + 1
                      /\ SubSeq(sentMessages[i], 1, Len(flight[u])) = flight[u]
                      /\ mine[i] = u \/ st[u] = "closing"
  <2>1. PICK i \in Slots : slot[i] = u
    BY <1>2 DEF SlotsHeld
  <2>2. {j \in Slots : slot[j] = u} = {i}
    BY <1>2, <2>1 DEF SlotsHeld
  <2>3. Cardinality({i}) = 1
    BY FS_Singleton
  <2>4. Stress!Cardinality({i}) = Cardinality({i})
    BY Zenon DEF Stress!Cardinality, Cardinality
  <2>5. ASSUME NEW j \in Slots, slot[j] = u
        PROVE  \/ sentMessages[j] = flight[u]
               \/ OneMore(sentMessages[j], flight[u]) /\ (mine[j] = u \/ st[u] = "closing")
    BY <1>2, <2>5 DEF QueuesMatch, Matches, WorkersHold
  <2>6. ASSUME NEW j \in Slots, OneMore(sentMessages[j], flight[u])
        PROVE  /\ Len(sentMessages[j]) = Len(flight[u]) + 1
               /\ SubSeq(sentMessages[j], 1, Len(flight[u])) = flight[u]
    BY <2>6, OneMoreFacts, Zenon DEF StressTypes
  <2>7. QED
    BY <2>2, <2>3, <2>4, <2>5, <2>6
<1>3. EchoMatches
  BY <1>2 DEF EchoMatches, Stress!EchoMatches
<1>4. QED
  BY <1>1, <1>3

(* A slot's messages are those whose echo is to come, and none of an       *)
(* earlier connection's, whatever workers, callbacks and clean-ups do, if  *)
(* no session is cleaned up in the middle of its worker's turn, which      *)
(* StressClient does not ensure (see CleaningIsSafe).                      *)
THEOREM EchoesMatch ==
    ASSUME StressConstants
    PROVE  Stress!Spec => [](Stress!TypeOK /\ EchoMatches)
<1>1. Stress!Init => StressInv
  BY StressInit
<1>2. StressInv /\ [Stress!Next]_Stress!vars => StressInv'
  BY StressPreserves
<1>3. StressInv => Stress!TypeOK /\ EchoMatches
  BY StressMatches
<1>4. QED
  BY <1>1, <1>2, <1>3, PTL DEF Stress!Spec

-----------------------------------------------------------------------------
(***************************************************************************)
(* The game server.                                                        *)
(***************************************************************************)

(* Positions are a line without gaps, and nobody asks to change to the     *)
(* scene he is in (Asks), which would enter the player twice.              *)
GameConstants ==
    /\ IsFiniteSet(Players) /\ 0 \notin Asks
    /\ Points \subseteq Nat /\ 0 \in Points
    /\ \A p, q \in Points, n \in Nat : p <= n /\ n <= q => n \in Points

PlayerJobs == [kind : {"enter", "dest", "destroy"}, at : Points]
Here == {objects[i] : i \in DOMAIN objects}
Connected == {u \in Players : conn[u] = "on"}

GameTypes ==
    /\ conn \in [Players -> {"new", "on", "off"}]
    /\ playerId \in [Players -> Nat] /\ nextPlayerId \in Nat \ {0} /\ currentSessions \in Nat
    /\ player \in [Players -> BOOLEAN] /\ alive \in [Players -> BOOLEAN]
    /\ queue \in [Players -> Seq(PlayerJobs)] /\ objects \in Seq(Players)
    /\ known \in [Players -> SUBSET Players] /\ arrived \in [Players -> BOOLEAN]

GamePlaces ==
    /\ pos \in [Players -> Points] /\ dest \in [Players -> Points]
    /\ told \in [Players -> [Players -> Points]]

(* Ids are given out once, and sessions are counted.                       *)
UsersInv ==
    /\ \A u \in Players : playerId[u] < nextPlayerId
    /\ \A u, v \in Players : u # v /\ playerId[u] # 0 => playerId[u] # playerId[v]
    /\ currentSessions = Cardinality(Connected)

(* The life of a player is in its queue: it enters first and once, knows   *)
(* nobody before, and nothing is behind its Destroy.                       *)
LifeOf(u) ==
    /\ player[u] => alive[u] /\ conn[u] = "on"
    /\ conn[u] # "off" /\ ~player[u] => ~alive[u] /\ known[u] = {}
    /\ ~alive[u] => queue[u] = <<>> /\ u \notin Here
    /\ \A k \in DOMAIN queue[u] :
          /\ queue[u][k].kind = "enter" => k = 1 /\ u \notin Here /\ known[u] = {}
          /\ queue[u][k].kind = "destroy" => k = Len(queue[u]) /\ ~player[u]

LifeInv == \A u \in Players : LifeOf(u)

SceneInv ==
    /\ \A i, j \in DOMAIN objects : objects[i] = objects[j] => i = j
    /\ \A u \in Here : known[u] = Here \ {u}
    /\ \A u, v \in Here : arrived[v] => told[u][v] = pos[v]

GameInv == GameTypes /\ GamePlaces /\ UsersInv /\ LifeInv /\ SceneInv

(* The places lo .. hi of r are those of q, `by' places further on. *)
Copies(r, q, lo, hi, by) == \A i \in lo..hi : r[i] = q[i + by]

LEMMA BeforePlaces ==
    ASSUME NEW S, NEW q \in Seq(S), NEW k \in 1..Len(q)
    PROVE  LET a == SubSeq(q, 1, k - 1) IN
           a \in Seq(S) /\ Len(a) = k - 1 /\ Copies(a, q, 1, k - 1, 0)
BY SMT DEF Copies

LEMMA AfterPlaces ==
    ASSUME NEW S, NEW q \in Seq(S), NEW k \in 1..Len(q)
    PROVE  LET b == SubSeq(q, k + 1, Len(q)) IN
           b \in Seq(S) /\ Len(b) = Len(q) - k /\ Copies(b, q, 1, Len(q) - k, k)
BY SMT DEF Copies

LEMMA JoinedPlaces ==
    ASSUME NEW S, NEW a \in Seq(S), NEW b \in Seq(S), NEW n \in Nat, NEW k \in 1..n, NEW q,
           Len(a) = k - 1, Copies(a, q, 1, k - 1, 0),
           Len(b) = n - k, Copies(b, q, 1, n - k, k)
    PROVE  /\ a \o b \in Seq(S)
           /\ Len(a \o b) = n - 1
           /\ Copies(a \o b, q, 1, k - 1, 0) /\ Copies(a \o b, q, k, n - 1, 1)
<1>1. /\ a \o b \in Seq(S) /\ Len(a \o b) = Len(a) + Len(b)
      /\ \A i \in 1..(Len(a) + Len(b)) : (a \o b)[i] = IF i <= Len(a) THEN a[i] ELSE b[i - Len(a)]
  BY ConcatProperties, Zenon
<1>2. PICK r : r = a \o b
  OBVIOUS
<1>3. r \in Seq(S) /\ Len(r) = n - 1
  <2>1. r \in Seq(S) /\ Len(r) = Len(a) + Len(b)
    BY <1>1, <1>2, Zenon
  <2>2. QED
    BY <2>1
<1>4. \A i \in 1..(n - 1) : r[i] = IF i <= k - 1 THEN a[i] ELSE b[i - (k - 1)]
  BY <1>1, <1>2, <1>3
<1>5. Copies(r, q, 1, k - 1, 0)
  BY <1>4 DEF Copies
<1>6. Copies(r, q, k, n - 1, 1)
  BY <1>4 DEF Copies
<1>7. QED
  BY <1>2, <1>3, <1>5, <1>6

LEMMA ErasedPlaces ==
    ASSUME NEW S, NEW q \in Seq(S), NEW k \in 1..Len(q)
    PROVE  LET r == SubSeq(q, 1, k - 1) \o SubSeq(q, k + 1, Len(q)) IN
           /\ r \in Seq(S)
           /\ Len(r) = Len(q) - 1
           /\ Copies(r, q, 1, k - 1, 0) /\ Copies(r, q, k, Len(q) - 1, 1)
<1>1. PICK a : a = SubSeq(q, 1, k - 1)
  OBVIOUS
<1>2. PICK b : b = SubSeq(q, k + 1, Len(q))
  OBVIOUS
<1>3. a \in Seq(S) /\ Len(a) = k - 1 /\ Copies(a, q, 1, k - 1, 0)
  BY <1>1, BeforePlaces
<1>4. b \in Seq(S) /\ Len(b) = Len(q) - k /\ Copies(b, q, 1, Len(q) - k, k)
  BY <1>2, AfterPlaces
<1>5. Len(q) \in Nat
  OBVIOUS
<1>6. /\ a \o b \in Seq(S)
      /\ Len(a \o b) = Len(q) - 1
      /\ Copies(a \o b, q, 1, k - 1, 0) /\ Copies(a \o b, q, k, Len(q) - 1, 1)
  BY <1>3, <1>4, <1>5, JoinedPlaces
<1>7. QED
  BY <1>1, <1>2, <1>6

LEMMA HereIsRange == Game!Range(objects) = Here
BY DEF Game!Range, Here

LEMMA AppendHere ==
    ASSUME GameTypes, NEW u \in Players, objects' = Append(objects, u)
    PROVE  /\ objects' \in Seq(Players) /\ Here' = Here \cup {u}
           /\ (u \notin Here /\ \A i, j \in DOMAIN objects : objects[i] = objects[j] => i = j) =>
                 \A i, j \in DOMAIN objects' : objects'[i] = objects'[j] => i = j
<1>1. /\ objects' \in Seq(Players) /\ Len(objects') = Len(objects) + 1
      /\ objects'[Len(objects')] = u /\ \A i \in 1..Len(objects) : objects'[i] = objects[i]
  BY DEF GameTypes
<1>2. DOMAIN objects = 1..Len(objects) /\ DOMAIN objects' = 1..(Len(objects) + 1) /\ Len(objects) \in Nat
  BY <1>1 DEF GameTypes
<1>3. Here' = Here \cup {u}
  <2>1. ASSUME NEW x \in Here' PROVE x \in Here \cup {u}
    BY <1>1, <1>2 DEF Here
  <2>2. u \in Here'
    BY <1>1, <1>2 DEF Here
  <2>3. ASSUME NEW x \in Here PROVE x \in Here'
    BY <1>1, <1>2 DEF Here
  <2>4. QED
    BY <2>1, <2>2, <2>3
<1>4. ASSUME u \notin Here, \A i, j \in DOMAIN objects : objects[i] = objects[j] => i = j,
             NEW i \in DOMAIN objects', NEW j \in DOMAIN objects', objects'[i] = objects'[j]
      PROVE  i = j
  BY <1>1, <1>2, <1>4 DEF Here
<1>5. QED
  BY <1>1, <1>3, <1>4

LEMMA RemoveHere ==
    ASSUME GameTypes, NEW u \in Players, objects' = Game!RemoveFirst(objects, u),
           \A i, j \in DOMAIN objects : objects[i] = objects[j] => i = j
    PROVE  /\ objects' \in Seq(Players) /\ Here' = Here \ {u}
           /\ \A i, j \in DOMAIN objects' : objects'[i] = objects'[j] => i = j
<1>0. objects \in Seq(Players) /\ DOMAIN objects = 1..Len(objects) /\ Len(objects) \in Nat
  BY DEF GameTypes
<1>1. CASE u \notin Here
  <2>1. objects' = objects
    BY <1>0, <1>1 DEF Game!RemoveFirst, Here
  <2>2. QED
    BY <1>0, <1>1, <2>1 DEF Here
<1>2. CASE u \in Here
  <2>1. PICK k \in 1..Len(objects) : objects[k] = u
    BY <1>0, <1>2 DEF Here
  <2>2. {i \in 1..Len(objects) : objects[i] = u} = {k}
    BY <1>0, <2>1
  <2>3. Game!Min({k}) = k
    BY DEF Game!Min
  <2>4. Game!SelectInSeq(objects, LAMBDA v : v = u) = k
    BY <2>2, <2>3 DEF Game!SelectInSeq
  <2>5. objects' = SubSeq(objects, 1, k - 1) \o SubSeq(objects, k + 1, Len(objects))
    BY <2>1, <2>4 DEF Game!RemoveFirst, Game!RemoveAt
  <2>6. /\ objects' \in Seq(Players) /\ Len(objects') = Len(objects) - 1
        /\ \A i \in 1..(Len(objects) - 1) : objects'[i] = IF i < k THEN objects[i] ELSE objects[i + 1]
    <3>1. PICK q, r : q = objects /\ r = objects'
      OBVIOUS
    <3>2. q \in Seq(Players) /\ k \in 1..Len(q) /\ r = SubSeq(q, 1, k - 1) \o SubSeq(q, k + 1, Len(q))
      BY <1>0, <2>1, <2>5, <3>1, Zenon
    <3>3. /\ r \in Seq(Players) /\ Len(r) = Len(q) - 1
          /\ Copies(r, q, 1, k - 1, 0) /\ Copies(r, q, k, Len(q) - 1, 1)
      BY <3>2, ErasedPlaces
    <3>4. \A i \in 1..(Len(q) - 1) : r[i] = IF i < k THEN q[i] ELSE q[i + 1]
      BY <1>0, <2>1, <3>1, <3>3 DEF Copies
    <3>5. QED
      BY <3>1, <3>3, <3>4
  <2>7. DOMAIN objects' = 1..(Len(objects) - 1)
    BY <2>6
  <2>8. Here' = Here \ {u}
    <3>1. ASSUME NEW x \in Here' PROVE x \in Here \ {u}
      <4>1. PICK i \in 1..(Len(objects) - 1) : x = IF i < k THEN objects[i] ELSE objects[i + 1]
        BY <2>6, <2>7 DEF Here
      <4>2. PICK j \in 1..Len(objects) : x = objects[j] /\ j # k
        BY <1>0, <2>1, <4>1
      <4>3. QED
        BY <1>0, <2>1, <4>2 DEF Here
    <3>2. ASSUME NEW x \in Here, x # u PROVE x \in Here'
      <4>1. PICK j \in 1..Len(objects) : x = objects[j] /\ j # k
        BY <1>0, <2>1, <3>2 DEF Here
      <4>2. CASE j < k
        <5>1. j \in DOMAIN objects' /\ objects'[j] = x
          BY <1>0, <2>1, <2>6, <2>7, <4>1, <4>2
        <5>2. QED
          BY <5>1 DEF Here
      <4>3. CASE j > k
        <5>1. j - 1 \in DOMAIN objects' /\ objects'[j - 1] = x
          BY <1>0, <2>1, <2>6, <2>7, <4>1, <4>3
        <5>2. QED
          BY <5>1 DEF Here
      <4>4. QED
        BY <4>1, <4>2, <4>3
    <3>3. QED
      BY <3>1, <3>2
  <2>9. ASSUME NEW i \in DOMAIN objects', NEW j \in DOMAIN objects', objects'[i] = objects'[j]
        PROVE  i = j
    <3>1. PICK m \in 1..Len(objects) : m = IF i < k THEN i ELSE i + 1
      BY <1>0, <2>1, <2>7
    <3>2. PICK n \in 1..Len(objects) : n = IF j < k THEN j ELSE j + 1
      BY <1>0, <2>1, <2>7
    <3>3. objects[m] = objects[n]
      BY <2>6, <2>7, <2>9, <3>1, <3>2
    <3>4. m = n
      BY <1>0, <3>3
    <3>5. QED
      BY <2>1, <2>7, <3>1, <3>2, <3>4
  <2>10. QED
    BY <2>6, <2>8, <2>9
<1>3. QED
  BY <1>1, <1>2

LEMMA OnceEach ==
    ASSUME GameTypes, SceneInv
    PROVE  Len(objects) = Cardinality(Here)
<1>1. objects \in Seq(Players) /\ DOMAIN objects = 1..Len(objects) /\ Len(objects) \in Nat
  BY DEF GameTypes
<1>2. objects \in [1..Len(objects) -> Here]
  BY <1>1 DEF Here
<1>3. objects \in Surjection(1..Len(objects), Here) /\ objects \in Injection(1..Len(objects), Here)
  BY <1>1, <1>2 DEF Here, SceneInv, Surjection, Injection, IsInjective
<1>4. IsFiniteSet(1..Len(objects)) /\ Cardinality(1..Len(objects)) = Len(objects)
  BY <1>1, FS_Interval
<1>5. QED
  BY <1>3, <1>4, FS_Surjection

LEMMA LongerQueue ==
    ASSUME NEW q \in Seq(PlayerJobs), NEW j \in PlayerJobs
    PROVE  /\ Append(q, j) \in Seq(PlayerJobs) /\ Len(Append(q, j)) = Len(q) + 1
           /\ DOMAIN q = 1..Len(q) /\ DOMAIN Append(q, j) = 1..(Len(q) + 1) /\ Len(q) \in Nat
           /\ Append(q, j)[Len(q) + 1] = j /\ \A k \in 1..Len(q) : Append(q, j)[k] = q[k]
OBVIOUS

LEMMA ShorterQueue ==
    ASSUME NEW q \in Seq(PlayerJobs), q # <<>>
    PROVE  /\ Tail(q) \in Seq(PlayerJobs) /\ Len(Tail(q)) = Len(q) - 1 /\ Head(q) = q[1]
           /\ DOMAIN q = 1..Len(q) /\ DOMAIN Tail(q) = 1..(Len(q) - 1) /\ Len(q) \in Nat \ {0}
           /\ \A k \in 1..(Len(q) - 1) : Tail(q)[k] = q[k + 1]
           /\ Len(q) = 1 => Tail(q) = <<>>
OBVIOUS

(* A step that leaves the scene alone, and one that leaves a player alone. *)
LEMMA SceneSame ==
    ASSUME SceneInv, objects' = objects, known' = known, arrived' = arrived, told' = told, pos' = pos
    PROVE  SceneInv' /\ Here' = Here
<1>1. Here' = Here
  BY DEF Here
<1>2. QED
  BY <1>1 DEF SceneInv

LEMMA LifeSame ==
    ASSUME LifeInv, NEW v \in Players, player'[v] = player[v], alive'[v] = alive[v],
           conn'[v] = conn[v], queue'[v] = queue[v], v \in Here' <=> v \in Here,
           v \in Here \/ known'[v] = known[v], alive[v] \/ known'[v] = known[v]
    PROVE  LifeOf(v)'
<1>1. LifeOf(v)
  BY DEF LifeInv
<1>2. QED
  BY <1>1 DEF LifeOf

LEMMA GameOnSessionConnect ==
    ASSUME GameConstants, GameInv, NEW u \in Players, Game!OnSessionConnect(u)
    PROVE  GameInv'
<1>1. /\ conn[u] = "new" /\ conn' = [conn EXCEPT ![u] = "on"] /\ currentSessions' = currentSessions + 1
      /\ UNCHANGED <<nextPlayerId, playerId, player, alive, queue>>
      /\ UNCHANGED <<objects, pos, dest, arrived, known, told>>
  BY DEF Game!OnSessionConnect, Game!world
<1>2. GameTypes'
  BY <1>1 DEF GameInv, GameTypes
<1>3. GamePlaces'
  BY <1>1 DEF GameInv, GamePlaces
<1>4. SceneInv' /\ Here' = Here
  BY <1>1, SceneSame DEF GameInv
<1>5. UsersInv'
  <2>1. Connected' = Connected \cup {u} /\ u \notin Connected
    BY <1>1 DEF GameInv, GameTypes, Connected
  <2>2. IsFiniteSet(Connected)
    BY FS_Subset DEF GameConstants, Connected
  <2>3. Cardinality(Connected') = Cardinality(Connected) + 1
    BY <2>1, <2>2, FS_AddElement
  <2>4. QED
    BY <1>1, <2>3 DEF GameInv, UsersInv
<1>6. ASSUME NEW v \in Players PROVE LifeOf(v)'
  <2>1. CASE v = u
    <3>1. LifeOf(u) /\ conn'[u] = "on"
      BY <1>1 DEF GameInv, GameTypes, LifeInv
    <3>2. QED
      BY <1>1, <1>4, <2>1, <3>1 DEF LifeOf
  <2>2. CASE v # u
    BY <1>1, <1>4, <2>2, LifeSame DEF GameInv, GameTypes
  <2>3. QED
    BY <2>1, <2>2
<1>7. QED
  BY <1>2, <1>3, <1>4, <1>5, <1>6 DEF GameInv, LifeInv

LEMMA GameHandleLoginRequest ==
    ASSUME GameConstants, GameInv, NEW u \in Players, Game!HandleLoginRequest(u)
    PROVE  GameInv'
<1>1. /\ playerId[u] = 0 /\ playerId' = [playerId EXCEPT ![u] = nextPlayerId]
      /\ nextPlayerId' = nextPlayerId + 1
      /\ UNCHANGED <<conn, currentSessions, player, alive, queue>>
      /\ UNCHANGED <<objects, pos, dest, arrived, known, told>>
  BY DEF Game!HandleLoginRequest, Game!GeneratePlayerId, Game!world
<1>2. GameTypes'
  BY <1>1 DEF GameInv, GameTypes
<1>3. GamePlaces'
  BY <1>1 DEF GameInv, GamePlaces
<1>4. SceneInv' /\ Here' = Here
  BY <1>1, SceneSame DEF GameInv
<1>5. UsersInv'
  BY <1>1 DEF GameInv, GameTypes, UsersInv, Connected
<1>6. LifeInv'
  BY <1>1, <1>4, LifeSame DEF GameInv, LifeInv
<1>7. QED
  BY <1>2, <1>3, <1>4, <1>5, <1>6 DEF GameInv

(* The handlers that append a job to the queue of a living player, or of   *)
(* one that is created: nothing else of the queue or of others changes.    *)
LEMMA Posts ==
    ASSUME GameInv, NEW u \in Players, NEW j \in PlayerJobs,
           queue' = [queue EXCEPT ![u] = Append(@, j)],
           UNCHANGED <<objects, pos, dest, arrived, known, told>>
    PROVE  /\ queue' \in [Players -> Seq(PlayerJobs)] /\ SceneInv' /\ Here' = Here /\ GamePlaces'
           /\ Len(queue'[u]) = Len(queue[u]) + 1 /\ Len(queue[u]) \in Nat
           /\ DOMAIN queue[u] = 1..Len(queue[u]) /\ DOMAIN queue'[u] = 1..(Len(queue[u]) + 1)
           /\ queue'[u][Len(queue[u]) + 1] = j
           /\ \A k \in 1..Len(queue[u]) : queue'[u][k] = queue[u][k]
           /\ \A v \in Players : v # u => queue'[v] = queue[v]
<1>1. queue \in [Players -> Seq(PlayerJobs)] /\ queue[u] \in Seq(PlayerJobs)
  BY DEF GameInv, GameTypes
<1>2. /\ Append(queue[u], j) \in Seq(PlayerJobs) /\ Len(Append(queue[u], j)) = Len(queue[u]) + 1
      /\ DOMAIN queue[u] = 1..Len(queue[u]) /\ DOMAIN Append(queue[u], j) = 1..(Len(queue[u]) + 1)
      /\ Len(queue[u]) \in Nat
      /\ Append(queue[u], j)[Len(queue[u]) + 1] = j
      /\ \A k \in 1..Len(queue[u]) : Append(queue[u], j)[k] = queue[u][k]
  BY <1>1, LongerQueue
<1>3. queue'[u] = Append(queue[u], j)
  BY <1>1
<1>4. queue' \in [Players -> Seq(PlayerJobs)] /\ \A v \in Players : v # u => queue'[v] = queue[v]
  BY <1>1, <1>2
<1>5. SceneInv' /\ Here' = Here
  BY SceneSame DEF GameInv
<1>6. GamePlaces'
  BY DEF GameInv, GamePlaces
<1>7. QED
  BY <1>2, <1>3, <1>4, <1>5, <1>6

LEMMA GameHandleSceneReadyRequest ==
    ASSUME GameConstants, GameInv, NEW u \in Players, Game!HandleSceneReadyRequest(u)
    PROVE  GameInv'
<1> DEFINE j == [kind |-> "enter", at |-> 0]
<1>1. /\ conn[u] = "on" /\ ~player[u]
      /\ player' = [player EXCEPT ![u] = TRUE] /\ alive' = [alive EXCEPT ![u] = TRUE]
      /\ queue' = [queue EXCEPT ![u] = Append(@, j)]
      /\ UNCHANGED <<conn, currentSessions, nextPlayerId, playerId>>
      /\ UNCHANGED <<objects, pos, dest, arrived, known, told>>
  BY DEF Game!HandleSceneReadyRequest, Game!world, Game!Job, Game!Spawn
<1>2. j \in PlayerJobs /\ j.kind = "enter"
  BY DEF PlayerJobs, GameConstants
<1> HIDE DEF j
<1>3. /\ queue' \in [Players -> Seq(PlayerJobs)] /\ SceneInv' /\ Here' = Here /\ GamePlaces'
      /\ Len(queue'[u]) = Len(queue[u]) + 1 /\ Len(queue[u]) \in Nat
      /\ DOMAIN queue[u] = 1..Len(queue[u]) /\ DOMAIN queue'[u] = 1..(Len(queue[u]) + 1)
      /\ queue'[u][Len(queue[u]) + 1] = j
      /\ \A v \in Players : v # u => queue'[v] = queue[v]
  BY <1>1, <1>2, Posts
<1>4. GameTypes'
  BY <1>1, <1>3 DEF GameInv, GameTypes
<1>5. UsersInv'
  BY <1>1 DEF GameInv, GameTypes, UsersInv, Connected
<1>6. queue[u] = <<>> /\ u \notin Here /\ known[u] = {}
  BY <1>1 DEF GameInv, LifeInv, LifeOf
<1>7. player'[u] /\ alive'[u]
  BY <1>1 DEF GameInv, GameTypes
<1>8. LifeOf(u)'
  BY <1>1, <1>2, <1>3, <1>6, <1>7 DEF LifeOf
<1>9. ASSUME NEW v \in Players, v # u PROVE LifeOf(v)'
  <2>1. player'[v] = player[v] /\ alive'[v] = alive[v]
    BY <1>1, <1>9 DEF GameInv, GameTypes
  <2>2. QED
    BY <1>1, <1>3, <1>9, <2>1, LifeSame DEF GameInv
<1>10. QED
  BY <1>3, <1>4, <1>5, <1>8, <1>9 DEF GameInv, LifeInv

LEMMA GameHandleSceneChangeRequest ==
    ASSUME GameConstants, GameInv, NEW u \in Players, NEW id \in Asks,
           Game!HandleSceneChangeRequest(u, id)
    PROVE  GameInv'
<1>1. UNCHANGED <<queue, conn, currentSessions, nextPlayerId, playerId, player, alive>>
      /\ UNCHANGED <<objects, pos, dest, arrived, known, told>>
  BY DEF Game!HandleSceneChangeRequest, Game!world, Game!GetSceneById, GameConstants
<1>2. SceneInv' /\ Here' = Here
  BY <1>1, SceneSame DEF GameInv
<1>3. LifeInv'
  BY <1>1, <1>2, LifeSame DEF GameInv, LifeInv
<1>4. QED
  BY <1>1, <1>2, <1>3 DEF GameInv, GameTypes, GamePlaces, UsersInv, Connected

LEMMA GameHandleMoveRequest ==
    ASSUME GameConstants, GameInv, NEW u \in Players, NEW p \in Points, Game!HandleMoveRequest(u, p)
    PROVE  GameInv'
<1> DEFINE j == [kind |-> "dest", at |-> p]
<1>1. /\ player[u] /\ queue' = [queue EXCEPT ![u] = Append(@, j)]
      /\ UNCHANGED <<conn, currentSessions, nextPlayerId, playerId, player, alive>>
      /\ UNCHANGED <<objects, pos, dest, arrived, known, told>>
  BY DEF Game!HandleMoveRequest, Game!world, Game!Job
<1>2. j \in PlayerJobs /\ j.kind = "dest"
  BY DEF PlayerJobs
<1> HIDE DEF j
<1>3. /\ queue' \in [Players -> Seq(PlayerJobs)] /\ SceneInv' /\ Here' = Here /\ GamePlaces'
      /\ Len(queue'[u]) = Len(queue[u]) + 1 /\ Len(queue[u]) \in Nat
      /\ DOMAIN queue[u] = 1..Len(queue[u]) /\ DOMAIN queue'[u] = 1..(Len(queue[u]) + 1)
      /\ queue'[u][Len(queue[u]) + 1] = j
      /\ \A k \in 1..Len(queue[u]) : queue'[u][k] = queue[u][k]
      /\ \A v \in Players : v # u => queue'[v] = queue[v]
  BY <1>1, <1>2, Posts
<1>4. GameTypes'
  BY <1>1, <1>3 DEF GameInv, GameTypes
<1>5. UsersInv'
  BY <1>1 DEF GameInv, UsersInv, Connected
<1>6. LifeOf(u) /\ alive[u]
  BY <1>1 DEF GameInv, LifeInv, LifeOf
<1>7. LifeOf(u)'
  BY <1>1, <1>2, <1>3, <1>6 DEF LifeOf
<1>8. ASSUME NEW v \in Players, v # u PROVE LifeOf(v)'
  BY <1>1, <1>3, <1>8, LifeSame DEF GameInv
<1>9. QED
  BY <1>3, <1>4, <1>5, <1>7, <1>8 DEF GameInv, LifeInv

LEMMA GameOnUserDisconnect ==
    ASSUME GameConstants, GameInv, NEW u \in Players, Game!OnUserDisconnect(u)
    PROVE  GameInv'
<1> DEFINE j == [kind |-> "destroy", at |-> 0]
<1>1. /\ conn[u] = "on" /\ conn' = [conn EXCEPT ![u] = "off"] /\ currentSessions' = currentSessions - 1
      /\ player' = [player EXCEPT ![u] = FALSE]
      /\ queue' = IF player[u] THEN [queue EXCEPT ![u] = Append(@, j)] ELSE queue
      /\ UNCHANGED <<nextPlayerId, playerId, alive>>
      /\ UNCHANGED <<objects, pos, dest, arrived, known, told>>
  BY DEF Game!OnUserDisconnect, Game!world, Game!Job, Game!Spawn
<1>2. j \in PlayerJobs /\ j.kind = "destroy"
  BY DEF PlayerJobs, GameConstants
<1> HIDE DEF j
<1>3. /\ player[u] => /\ queue' \in [Players -> Seq(PlayerJobs)]
                      /\ Len(queue'[u]) = Len(queue[u]) + 1 /\ Len(queue[u]) \in Nat
                      /\ DOMAIN queue[u] = 1..Len(queue[u]) /\ DOMAIN queue'[u] = 1..(Len(queue[u]) + 1)
                      /\ queue'[u][Len(queue[u]) + 1] = j
                      /\ \A k \in 1..Len(queue[u]) : queue'[u][k] = queue[u][k]
                      /\ \A v \in Players : v # u => queue'[v] = queue[v]
      /\ ~player[u] => queue' = queue
  BY <1>1, <1>2, Posts
<1>4. SceneInv' /\ Here' = Here
  BY <1>1, SceneSame DEF GameInv
<1>5. GamePlaces'
  BY <1>1 DEF GameInv, GamePlaces
<1>6. Connected' = Connected \ {u} /\ u \in Connected /\ IsFiniteSet(Connected)
  <2>1. Connected' = Connected \ {u} /\ u \in Connected
    BY <1>1 DEF GameInv, GameTypes, Connected
  <2>2. IsFiniteSet(Connected)
    BY FS_Subset DEF GameConstants, Connected
  <2>3. QED
    BY <2>1, <2>2
<1>7. Cardinality(Connected') = Cardinality(Connected) - 1 /\ Cardinality(Connected) \in Nat
      /\ Cardinality(Connected') \in Nat
  BY <1>6, FS_RemoveElement, FS_CardinalityType, FS_Subset
<1>8. UsersInv'
  BY <1>1, <1>7 DEF GameInv, UsersInv
<1>9. GameTypes'
  <2>1. queue' \in [Players -> Seq(PlayerJobs)]
    BY <1>3 DEF GameInv, GameTypes
  <2>2. currentSessions' \in Nat
    BY <1>7, <1>8 DEF UsersInv
  <2>3. QED
    BY <1>1, <2>1, <2>2 DEF GameInv, GameTypes
<1>10. ~player'[u] /\ conn'[u] = "off" /\ LifeOf(u)
  BY <1>1 DEF GameInv, GameTypes, LifeInv
<1>11. LifeOf(u)'
  <2>1. CASE player[u]
    BY <1>1, <1>2, <1>3, <1>4, <1>10, <2>1 DEF LifeOf
  <2>2. CASE ~player[u]
    BY <1>1, <1>3, <1>4, <1>10, <2>2 DEF LifeOf
  <2>3. QED
    BY <2>1, <2>2
<1>12. ASSUME NEW v \in Players, v # u PROVE LifeOf(v)'
  <2>1. player'[v] = player[v] /\ conn'[v] = conn[v] /\ queue'[v] = queue[v]
    BY <1>1, <1>3, <1>12 DEF GameInv, GameTypes
  <2>2. QED
    BY <1>1, <1>4, <2>1, LifeSame DEF GameInv
<1>13. QED
  BY <1>4, <1>5, <1>8, <1>9, <1>11, <1>12 DEF GameInv, LifeInv

(* A job of u is taken from its queue. *)
LEMMA Takes ==
    ASSUME GameInv, NEW u \in Players, NEW kind, Game!TakeJob(u, kind)
    PROVE  /\ queue' \in [Players -> Seq(PlayerJobs)] /\ queue[u][1].kind = kind
           /\ queue[u][1] \in PlayerJobs /\ Head(queue[u]) = queue[u][1]
           /\ DOMAIN queue[u] = 1..Len(queue[u]) /\ DOMAIN queue'[u] = 1..(Len(queue[u]) - 1)
           /\ Len(queue[u]) \in Nat \ {0} /\ Len(queue'[u]) = Len(queue[u]) - 1
           /\ \A k \in 1..(Len(queue[u]) - 1) : queue'[u][k] = queue[u][k + 1]
           /\ Len(queue[u]) = 1 => queue'[u] = <<>>
           /\ \A v \in Players : v # u => queue'[v] = queue[v]
           /\ alive[u]
<1>1. /\ queue \in [Players -> Seq(PlayerJobs)] /\ queue[u] \in Seq(PlayerJobs) /\ queue[u] # <<>>
      /\ Head(queue[u]).kind = kind /\ queue' = [queue EXCEPT ![u] = Tail(@)]
  BY DEF GameInv, GameTypes, Game!TakeJob
<1>2. /\ Tail(queue[u]) \in Seq(PlayerJobs) /\ Len(Tail(queue[u])) = Len(queue[u]) - 1
      /\ Head(queue[u]) = queue[u][1]
      /\ DOMAIN queue[u] = 1..Len(queue[u]) /\ DOMAIN Tail(queue[u]) = 1..(Len(queue[u]) - 1)
      /\ Len(queue[u]) \in Nat \ {0}
      /\ \A k \in 1..(Len(queue[u]) - 1) : Tail(queue[u])[k] = queue[u][k + 1]
      /\ Len(queue[u]) = 1 => Tail(queue[u]) = <<>>
  BY <1>1, ShorterQueue
<1>3. queue'[u] = Tail(queue[u]) /\ \A v \in Players : v # u => queue'[v] = queue[v]
  BY <1>1
<1>4. queue' \in [Players -> Seq(PlayerJobs)]
  BY <1>1, <1>2
<1>5. alive[u]
  BY <1>1 DEF GameInv, LifeInv, LifeOf
<1>6. queue[u][1] \in PlayerJobs
  BY <1>1, <1>2
<1>7. QED
  BY <1>1, <1>2, <1>3, <1>4, <1>5, <1>6

LEMMA GameEnter ==
    ASSUME GameConstants, GameInv, NEW u \in Players, Game!Enter(u)
    PROVE  GameInv'
<1> DEFINE os == Here \cup {u}
<1>1. /\ Game!TakeJob(u, "enter") /\ objects' = Append(objects, u)
      /\ UNCHANGED <<conn, currentSessions, nextPlayerId, playerId, player, alive>>
      /\ pos' = [pos EXCEPT ![u] = 0] /\ dest' = [dest EXCEPT ![u] = 0]
      /\ arrived' = [arrived EXCEPT ![u] = FALSE]
      /\ known' = [Game!BroadcastToOthers(os, u, TRUE) EXCEPT ![u] = @ \cup (os \ {u})]
      /\ told' = [Game!BroadcastToScene(told, os, u, 0) EXCEPT
                     ![u] = [v \in Players |-> IF v \in os \ {u} THEN pos[v] ELSE @[v]]]
  BY HereIsRange DEF Game!Enter, Game!OnEnter, Game!SetDestination, Game!users, Game!Spawn
<1>2. /\ queue' \in [Players -> Seq(PlayerJobs)] /\ queue[u][1].kind = "enter"
      /\ DOMAIN queue[u] = 1..Len(queue[u]) /\ DOMAIN queue'[u] = 1..(Len(queue[u]) - 1)
      /\ Len(queue[u]) \in Nat \ {0} /\ Len(queue'[u]) = Len(queue[u]) - 1
      /\ \A k \in 1..(Len(queue[u]) - 1) : queue'[u][k] = queue[u][k + 1]
      /\ \A v \in Players : v # u => queue'[v] = queue[v]
      /\ alive[u]
  BY <1>1, Takes
<1>3. LifeOf(u) /\ u \notin Here /\ known[u] = {}
  BY <1>2 DEF GameInv, LifeInv, LifeOf
<1>4. /\ objects' \in Seq(Players) /\ Here' = os
      /\ \A i, j \in DOMAIN objects' : objects'[i] = objects'[j] => i = j
  BY <1>1, <1>3, AppendHere DEF GameInv, SceneInv
<1>5. Here \subseteq Players
  BY DEF Here, GameInv, GameTypes
<1>6. /\ known' \in [Players -> SUBSET Players]
      /\ \A w \in Players : known'[w] = IF w = u THEN Here
                                        ELSE IF w \in Here THEN known[w] \cup {u} ELSE known[w]
  <2>1. known \in [Players -> SUBSET Players]
    BY DEF GameInv, GameTypes
  <2>2. QED
    BY <1>1, <1>3, <1>5, <2>1 DEF Game!BroadcastToOthers
<1>7. told' \in [Players -> [Players -> Points]]
      /\ \A w \in os, v \in Here : told'[w][v] = IF w = u THEN pos[v] ELSE told[w][v]
  <2>1. told \in [Players -> [Players -> Points]] /\ pos \in [Players -> Points] /\ 0 \in Points
    BY DEF GameInv, GamePlaces, GameConstants
  <2>2. PICK b : b = Game!BroadcastToScene(told, os, u, 0)
    OBVIOUS
  <2>3. b = [w \in Players |-> IF w \in os THEN [told[w] EXCEPT ![u] = 0] ELSE told[w]]
    BY <2>2 DEF Game!BroadcastToScene
  <2>4. b \in [Players -> [Players -> Points]]
    BY <2>1, <2>3
  <2>5. PICK t : t = [v \in Players |-> IF v \in os \ {u} THEN pos[v] ELSE b[u][v]]
    OBVIOUS
  <2>6. t \in [Players -> Points]
    BY <2>1, <2>4, <2>5
  <2>7. told' = [b EXCEPT ![u] = t]
    BY <1>1, <2>2, <2>5
  <2>8. told' \in [Players -> [Players -> Points]]
    BY <2>4, <2>6, <2>7
  <2>9. ASSUME NEW w \in os, NEW v \in Here
        PROVE  told'[w][v] = IF w = u THEN pos[v] ELSE told[w][v]
    <3>1. CASE w = u
      BY <1>3, <1>5, <2>4, <2>5, <2>7, <3>1
    <3>2. CASE w # u
      <4>1. told'[w] = b[w] /\ b[w] = [told[w] EXCEPT ![u] = 0]
        BY <1>5, <2>3, <2>4, <2>7, <3>2
      <4>2. QED
        BY <1>3, <1>5, <2>1, <3>2, <4>1
    <3>3. QED
      BY <3>1, <3>2
  <2>10. QED
    BY <2>8, <2>9
<1>8. /\ arrived' \in [Players -> BOOLEAN] /\ arrived'[u] = FALSE
      /\ \A v \in Players : v # u => arrived'[v] = arrived[v] /\ pos'[v] = pos[v]
  BY <1>1 DEF GameInv, GameTypes, GamePlaces
<1>9. GameTypes'
  BY <1>1, <1>2, <1>4, <1>6, <1>8 DEF GameInv, GameTypes
<1>10. GamePlaces'
  BY <1>1, <1>7 DEF GameInv, GamePlaces, GameConstants
<1>11. UsersInv'
  BY <1>1 DEF GameInv, UsersInv, Connected
<1>12. SceneInv'
  <2>1. \A w \in Here' : known'[w] = Here' \ {w}
    BY <1>3, <1>4, <1>5, <1>6 DEF GameInv, SceneInv
  <2>2. ASSUME NEW w \in Here', NEW v \in Here', arrived'[v] PROVE told'[w][v] = pos'[v]
    <3>1. v # u /\ v \in Here /\ v \in Players
      BY <1>4, <1>5, <1>8, <2>2
    <3>2. arrived[v] /\ pos'[v] = pos[v]
      BY <1>8, <2>2, <3>1
    <3>3. told'[w][v] = IF w = u THEN pos[v] ELSE told[w][v]
      BY <1>4, <1>7, <3>1
    <3>4. w # u => w \in Here
      BY <1>4
    <3>5. QED
      BY <3>1, <3>2, <3>3, <3>4 DEF GameInv, SceneInv
  <2>3. QED
    BY <1>4, <2>1, <2>2 DEF SceneInv
<1>13. LifeOf(u)'
  <2>1. \A k \in DOMAIN queue'[u] :
           /\ queue'[u][k].kind # "enter"
           /\ queue'[u][k].kind = "destroy" => k = Len(queue'[u]) /\ ~player[u]
    <3> SUFFICES ASSUME NEW k \in 1..(Len(queue[u]) - 1)
                 PROVE  /\ queue'[u][k].kind # "enter"
                        /\ queue'[u][k].kind = "destroy" => k = Len(queue'[u]) /\ ~player[u]
      BY <1>2
    <3>1. k + 1 \in DOMAIN queue[u] /\ k + 1 # 1 /\ queue'[u][k] = queue[u][k + 1]
      BY <1>2
    <3>2. /\ queue[u][k + 1].kind # "enter"
          /\ queue[u][k + 1].kind = "destroy" => k + 1 = Len(queue[u]) /\ ~player[u]
      BY <1>3, <3>1 DEF LifeOf
    <3>3. QED
      BY <1>2, <3>1, <3>2
  <2>2. player'[u] = player[u] /\ alive'[u] = alive[u] /\ conn'[u] = conn[u]
    BY <1>1
  <2>3. QED
    BY <1>2, <1>3, <2>1, <2>2 DEF LifeOf
<1>14. ASSUME NEW v \in Players, v # u PROVE LifeOf(v)'
  <2>1. v \in Here => alive[v]
    BY DEF GameInv, LifeInv, LifeOf
  <2>2. QED
    BY <1>1, <1>2, <1>4, <1>6, <1>14, <2>1, LifeSame DEF GameInv
<1>15. QED
  BY <1>9, <1>10, <1>11, <1>12, <1>13, <1>14 DEF GameInv, LifeInv

LEMMA GameHandleSetDestPos ==
    ASSUME GameConstants, GameInv, NEW u \in Players, Game!HandleSetDestPos(u)
    PROVE  GameInv'
<1>1. /\ Game!TakeJob(u, "dest")
      /\ dest' = [dest EXCEPT ![u] = Head(queue[u]).at] /\ arrived' = [arrived EXCEPT ![u] = FALSE]
      /\ told' = [w \in Players |-> IF w \in Here THEN [told[w] EXCEPT ![u] = pos[u]] ELSE told[w]]
      /\ UNCHANGED <<conn, currentSessions, nextPlayerId, playerId, player, alive>>
      /\ UNCHANGED <<objects, pos, known>>
  BY HereIsRange DEF Game!HandleSetDestPos, Game!SetDestination, Game!BroadcastToScene, Game!users
<1>2. /\ queue' \in [Players -> Seq(PlayerJobs)] /\ queue[u][1].kind = "dest"
      /\ queue[u][1] \in PlayerJobs /\ Head(queue[u]) = queue[u][1]
      /\ DOMAIN queue[u] = 1..Len(queue[u]) /\ DOMAIN queue'[u] = 1..(Len(queue[u]) - 1)
      /\ Len(queue[u]) \in Nat \ {0} /\ Len(queue'[u]) = Len(queue[u]) - 1
      /\ \A k \in 1..(Len(queue[u]) - 1) : queue'[u][k] = queue[u][k + 1]
      /\ \A v \in Players : v # u => queue'[v] = queue[v]
      /\ alive[u]
  BY <1>1, Takes
<1>3. Here' = Here /\ Here \subseteq Players
  BY <1>1 DEF Here, GameInv, GameTypes
<1>4. GameTypes'
  BY <1>1, <1>2 DEF GameInv, GameTypes
<1>5. GamePlaces'
  <2>1. Head(queue[u]).at \in Points
    BY <1>2 DEF PlayerJobs
  <2>2. told \in [Players -> [Players -> Points]] /\ pos \in [Players -> Points]
    BY DEF GameInv, GamePlaces
  <2>3. told' \in [Players -> [Players -> Points]]
    BY <1>1, <2>2
  <2>4. QED
    BY <1>1, <2>1, <2>3 DEF GameInv, GamePlaces
<1>6. UsersInv'
  BY <1>1 DEF GameInv, UsersInv, Connected
<1>7. SceneInv'
  <2>1. ASSUME NEW w \in Here, NEW v \in Here, arrived'[v] PROVE told'[w][v] = pos'[v]
    <3>1. v # u /\ arrived[v] /\ v \in Players /\ w \in Players
      BY <1>1, <1>3, <2>1 DEF GameInv, GameTypes
    <3>2. told'[w] = [told[w] EXCEPT ![u] = pos[u]] /\ told[w] \in [Players -> Points]
      BY <1>1, <3>1 DEF GameInv, GamePlaces
    <3>3. told'[w][v] = told[w][v]
      BY <3>1, <3>2
    <3>4. QED
      BY <1>1, <3>1, <3>3 DEF GameInv, SceneInv
  <2>2. QED
    BY <1>1, <1>3, <2>1 DEF GameInv, SceneInv
<1>8. LifeOf(u)'
  <2>1. ASSUME NEW k \in 1..(Len(queue[u]) - 1)
        PROVE  /\ queue'[u][k].kind # "enter"
               /\ queue'[u][k].kind = "destroy" => k = Len(queue'[u]) /\ ~player[u]
    <3>1. k + 1 \in DOMAIN queue[u] /\ k + 1 # 1 /\ queue'[u][k] = queue[u][k + 1]
      BY <1>2
    <3>2. /\ queue[u][k + 1].kind # "enter"
          /\ queue[u][k + 1].kind = "destroy" => k + 1 = Len(queue[u]) /\ ~player[u]
      BY <3>1 DEF GameInv, LifeInv, LifeOf
    <3>3. QED
      BY <1>2, <3>1, <3>2
  <2>2. LifeOf(u) /\ player'[u] = player[u] /\ alive'[u] = alive[u] /\ conn'[u] = conn[u] /\ known' = known
    BY <1>1 DEF GameInv, LifeInv
  <2>3. QED
    BY <1>2, <1>3, <2>1, <2>2 DEF LifeOf
<1>9. ASSUME NEW v \in Players, v # u PROVE LifeOf(v)'
  BY <1>1, <1>2, <1>3, <1>9, LifeSame DEF GameInv
<1>10. QED
  BY <1>4, <1>5, <1>6, <1>7, <1>8, <1>9 DEF GameInv, LifeInv

LEMMA GameDestroy ==
    ASSUME GameConstants, GameInv, NEW u \in Players, Game!Destroy(u)
    PROVE  GameInv'
<1>1. /\ Game!TakeJob(u, "destroy") /\ objects' = Game!RemoveFirst(objects, u)
      /\ known' = [w \in Players |-> IF w \notin Here \ {u} THEN known[w] ELSE known[w] \ {u}]
      /\ alive' = [alive EXCEPT ![u] = FALSE]
      /\ UNCHANGED <<conn, currentSessions, nextPlayerId, playerId, player>>
      /\ UNCHANGED <<pos, dest, arrived, told>>
  BY HereIsRange DEF Game!Destroy, Game!OnExit, Game!BroadcastToOthers, Game!users
<1>2. /\ queue' \in [Players -> Seq(PlayerJobs)] /\ queue[u][1].kind = "destroy"
      /\ DOMAIN queue[u] = 1..Len(queue[u]) /\ Len(queue[u]) \in Nat \ {0}
      /\ Len(queue[u]) = 1 => queue'[u] = <<>>
      /\ \A v \in Players : v # u => queue'[v] = queue[v]
      /\ alive[u]
  BY <1>1, Takes
<1>3. LifeOf(u) /\ queue'[u] = <<>> /\ ~player[u] /\ conn[u] = "off"
  BY <1>2 DEF GameInv, GameTypes, LifeInv, LifeOf
<1>4. /\ objects' \in Seq(Players) /\ Here' = Here \ {u}
      /\ \A i, j \in DOMAIN objects' : objects'[i] = objects'[j] => i = j
  BY <1>1, RemoveHere DEF GameInv, SceneInv
<1>5. Here \subseteq Players /\ known \in [Players -> SUBSET Players]
  BY DEF Here, GameInv, GameTypes
<1>6. GameTypes'
  BY <1>1, <1>2, <1>4, <1>5 DEF GameInv, GameTypes
<1>7. GamePlaces'
  BY <1>1 DEF GameInv, GamePlaces
<1>8. UsersInv'
  BY <1>1 DEF GameInv, UsersInv, Connected
<1>9. SceneInv'
  <2>1. \A w \in Here' : known'[w] = Here' \ {w}
    BY <1>1, <1>4, <1>5 DEF GameInv, SceneInv
  <2>2. QED
    BY <1>1, <1>4, <2>1 DEF GameInv, SceneInv
<1>10. LifeOf(u)'
  <2>1. ~player'[u] /\ conn'[u] = "off" /\ u \notin Here' /\ DOMAIN queue'[u] = {}
    BY <1>1, <1>3, <1>4
  <2>2. QED
    BY <1>3, <2>1 DEF LifeOf
<1>11. ASSUME NEW v \in Players, v # u PROVE LifeOf(v)'
  <2>1. alive'[v] = alive[v] /\ (v \in Here \/ known'[v] = known[v]) /\ (v \in Here' <=> v \in Here)
    BY <1>1, <1>4, <1>5, <1>11 DEF GameInv, GameTypes
  <2>2. v \in Here => alive[v]
    BY DEF GameInv, LifeInv, LifeOf
  <2>3. QED
    BY <1>1, <1>2, <1>11, <2>1, <2>2, LifeSame DEF GameInv
<1>12. QED
  BY <1>6, <1>7, <1>8, <1>9, <1>10, <1>11 DEF GameInv, LifeInv

LEMMA GameFixedUpdate ==
    ASSUME GameConstants, GameInv, Game!FixedUpdate
    PROVE  GameInv'
<1>1. PICK step : step = [u \in Players |-> Game!MoveTowardsDestination(u)]
  OBVIOUS
<1>2. PICK moving, there : /\ moving = {u \in Here : ~arrived[u]}
                           /\ there = {u \in moving : Game!HasReachedDestination(u, Game!MoveTowardsDestination(u))}
  OBVIOUS
<1>3. Here \subseteq Players
  BY DEF Here, GameInv, GameTypes
<1>4. there = {u \in moving : step[u] = dest[u]} /\ there \subseteq moving /\ moving \subseteq Here
  BY <1>1, <1>2, <1>3 DEF Game!HasReachedDestination
<1>5. /\ pos' = [u \in Players |-> IF u \in moving THEN step[u] ELSE pos[u]]
      /\ arrived' = [u \in Players |-> arrived[u] \/ u \in there]
      /\ told' = [w \in Players |-> [u \in Players |->
                     IF w \in Here /\ u \in there THEN dest[u] ELSE told[w][u]]]
      /\ UNCHANGED <<conn, currentSessions, nextPlayerId, playerId, player, alive, queue, objects, dest, known>>
  BY <1>1, <1>2, HereIsRange DEF Game!FixedUpdate, Game!users
<1>6. step \in [Players -> Points]
  <2>1. ASSUME NEW u \in Players PROVE Game!MoveTowardsDestination(u) \in Points
    <3>1. pos[u] \in Points /\ dest[u] \in Points /\ pos[u] \in Nat /\ dest[u] \in Nat
      BY DEF GameInv, GamePlaces, GameConstants
    <3>2. CASE pos[u] < dest[u]
      BY <3>1, <3>2, pos[u] + 1 \in Nat DEF Game!MoveTowardsDestination, GameConstants
    <3>3. CASE pos[u] > dest[u]
      BY <3>1, <3>3, pos[u] - 1 \in Nat DEF Game!MoveTowardsDestination, GameConstants
    <3>4. CASE pos[u] = dest[u]
      BY <3>1, <3>4 DEF Game!MoveTowardsDestination
    <3>5. QED
      BY <3>1, <3>2, <3>3, <3>4
  <2>2. QED
    BY <1>1, <2>1
<1>7. GamePlaces'
  BY <1>5, <1>6 DEF GameInv, GamePlaces
<1>8. arrived' \in [Players -> BOOLEAN]
  BY <1>5, Zenon
<1>9. GameTypes'
  BY <1>5, <1>8 DEF GameInv, GameTypes
<1>10. UsersInv'
  BY <1>5 DEF GameInv, UsersInv, Connected
<1>11. Here' = Here
  BY <1>5 DEF Here
<1>12. LifeInv'
  BY <1>5, <1>11, LifeSame DEF GameInv, LifeInv
<1>13. ASSUME NEW w \in Here, NEW v \in Here, arrived'[v] PROVE told'[w][v] = pos'[v]
  <2>1. v \in Players /\ w \in Players
    BY <1>3
  <2>2. CASE v \in there
    BY <1>4, <1>5, <2>1, <2>2
  <2>3. CASE v \notin there
    <3>1. arrived[v] /\ v \notin moving
      BY <1>2, <1>5, <1>13, <2>1, <2>3
    <3>2. QED
      BY <1>5, <2>1, <2>3, <3>1 DEF GameInv, SceneInv
  <2>4. QED
    BY <2>2, <2>3
<1>14. SceneInv'
  BY <1>5, <1>11, <1>13 DEF GameInv, SceneInv
<1>15. QED
  BY <1>7, <1>9, <1>10, <1>12, <1>14 DEF GameInv

LEMMA GameInit ==
    ASSUME GameConstants, Game!Init
    PROVE  GameInv
<1> USE DEF Game!Init, Game!Spawn
<1>1. objects = <<>> /\ DOMAIN objects = {} /\ Here = {} /\ <<>> \in Seq(Players) /\ <<>> \in Seq(PlayerJobs)
  BY DEF Here
<1>2. GameTypes
  BY <1>1 DEF GameTypes
<1>3. GamePlaces
  BY DEF GamePlaces, GameConstants
<1>4. Connected = {} /\ Cardinality({}) = 0
  BY FS_EmptySet DEF Connected
<1>5. UsersInv
  BY <1>4 DEF UsersInv
<1>6. LifeInv
  BY <1>1 DEF LifeInv, LifeOf
<1>7. SceneInv
  BY <1>1 DEF SceneInv
<1>8. QED
  BY <1>2, <1>3, <1>5, <1>6, <1>7 DEF GameInv

LEMMA GamePreserves ==
    ASSUME GameConstants, GameInv, [Game!Next]_Game!vars
    PROVE  GameInv'
<1>1. ASSUME NEW u \in Players, Game!PacketHandlers(u) PROVE GameInv'
  BY <1>1, GameHandleLoginRequest, GameHandleSceneReadyRequest, GameHandleSceneChangeRequest,
     GameHandleMoveRequest DEF Game!PacketHandlers
<1>2. ASSUME NEW u \in Players, Game!RunJob(u) PROVE GameInv'
  BY <1>2, GameEnter, GameHandleSetDestPos, GameDestroy DEF Game!RunJob
<1>3. CASE UNCHANGED Game!vars
  <2>1. /\ UNCHANGED <<conn, currentSessions, nextPlayerId, playerId, player, alive, queue>>
        /\ UNCHANGED <<objects, pos, dest, arrived, known, told>>
    BY <1>3 DEF Game!vars
  <2>2. SceneInv' /\ Here' = Here
    BY <2>1, SceneSame DEF GameInv
  <2>3. LifeInv'
    BY <2>1, <2>2, LifeSame DEF GameInv, LifeInv
  <2>4. QED
    BY <2>1, <2>2, <2>3 DEF GameInv, GameTypes, GamePlaces, UsersInv, Connected
<1>4. QED
  BY <1>1, <1>2, <1>3, GameOnSessionConnect, GameOnUserDisconnect, GameFixedUpdate DEF Game!Next

LEMMA GameSeen ==
    ASSUME GameInv
    PROVE  Game!TypeOK /\ ClientsSeeScene
<1>1. Game!Range(objects) = Here /\ Here \subseteq Players
  BY HereIsRange DEF Here, GameInv, GameTypes
<1>2. Game!TypeOK
  <2>1. ASSUME NEW u \in Players, NEW i \in DOMAIN queue[u]
        PROVE  queue[u][i].kind \in {"enter", "dest", "destroy"} /\ queue[u][i].at \in Points
    <3>1. queue[u][i] \in PlayerJobs
      BY DEF GameInv, GameTypes
    <3>2. QED
      BY <3>1 DEF PlayerJobs
  <2>2. QED
    BY <1>1, <2>1 DEF Game!TypeOK, GameInv, GameTypes, GamePlaces
<1>3. Game!Cardinality(Here) = Cardinality(Here) /\ Game!Cardinality(Connected) = Cardinality(Connected)
  BY Zenon DEF Game!Cardinality, Cardinality
<1>4. Len(objects) = Cardinality(Here)
  BY OnceEach DEF GameInv
<1>5. ASSUME NEW u \in Here
      PROVE  alive[u] /\ known[u] = Here \ {u} /\ \A v \in Here : arrived[v] => told[u][v] = pos[v]
  BY <1>1 DEF GameInv, SceneInv, LifeInv, LifeOf
<1>6. ClientsSeeScene
  BY <1>1, <1>3, <1>4, <1>5 DEF ClientsSeeScene, Game!ClientsSeeScene, GameInv, UsersInv, Connected
<1>7. QED
  BY <1>2, <1>6

(* However logins, entries, moves and disconnections interleave, every     *)
(* client in the scene knows exactly the others there and where those who  *)
(* have stopped stand, and no deleted player is left; for any number of    *)
(* users, as long as nobody asks to change to the scene he is in.          *)
THEOREM ClientsAlwaysSeeScene ==
    ASSUME GameConstants
    PROVE  Game!Spec => [](Game!TypeOK /\ ClientsSeeScene)
<1>1. Game!Init => GameInv
  BY GameInit
<1>2. GameInv /\ [Game!Next]_Game!vars => GameInv'
  BY GamePreserves
<1>3. GameInv => Game!TypeOK /\ ClientsSeeScene
  BY GameSeen
<1>4. QED
  BY <1>1, <1>2, <1>3, PTL DEF Game!Spec


-----------------------------------------------------------------------------
(***************************************************************************)
(* The receive path.                                                       *)
(***************************************************************************)

(* The header holds a length, and no packet is empty (UnifiedPacketHeader: *)
(* four of eight bytes).                                                   *)
ReceiveConstants ==
    /\ Size \in Nat \ {0} /\ MaxPackets \in Nat /\ MaxLoop \in Nat /\ MaxPacketSize \in Nat
    /\ HeaderSize \in Nat /\ LengthSize \in Nat /\ 0 < LengthSize /\ LengthSize <= HeaderSize
    /\ Lengths \subseteq Nat \ {0}

Bytes == Nat \X Nat
SentPackets == [len : Lengths, id : Ids]

(* The bytes in the ring: how many, where the i-th is, and what they are.  *)
Used == IF front <= rear THEN rear - front ELSE rear - front + Size
PlaceOf(f, i) == IF f + i < Size THEN f + i ELSE f + i - Size
RingBytes(g, f, n) == [i \in 1..n |-> g[PlaceOf(f, i)]]
Content == RingBytes(ring, front, Used)
Stream == Append(Content \o wire, <<Len(sent) + 1, 1>>)

Follows(p, b) == IF b[2] < p[b[1]].len THEN <<b[1], b[2] + 1>> ELSE <<b[1] + 1, 1>>

(* The sequence s begins with packet e + 1 and goes on byte by byte.       *)
InOrder(s, p, e) ==
    /\ s[1] = <<e + 1, 1>>
    /\ \A i \in 1..(Len(s) - 1) : s[i][1] \in DOMAIN p /\ s[i + 1] = Follows(p, s[i])

(* m packets with positive lengths. *)
SomePackets(p, m) == DOMAIN p = 1..m /\ \A j \in 1..m : p[j].len \in Nat \ {0}

(* A set of naturals that is not empty has a least element. *)
LEMMA LeastIndex ==
    ASSUME NEW D, D \subseteq Nat, D # {}
    PROVE  \E n \in D : \A m \in D : n <= m
<1>1. PICK R : R = OpToRel(<, Nat)
  OBVIOUS
<1>2. IsWellFoundedOn(R, Nat)
  BY <1>1, NatLessThanWellFounded
<1>3. PICK x \in D : \A y \in D : ~(<<y, x>> \in R)
  BY <1>2, WFMin
<1>4. \A y \in D : (<<y, x>> \in R) <=> y < x
  BY <1>1 DEF OpToRel
<1>5. \A y \in D : ~(y < x)
  BY <1>3, <1>4
<1>6. \A y \in D : x <= y
  BY <1>5
<1>7. QED
  BY <1>6

(* The stream begins with the bytes of its first packet, and with that     *)
(* packet taken away it is the stream from the next one on.                *)
LEMMA FirstPacket ==
    ASSUME NEW m \in Nat, NEW p, SomePackets(p, m), NEW B, NEW s \in Seq(B), NEW e \in Nat,
           InOrder(s, p, e), Len(s) > 1
    PROVE  /\ e + 1 \in 1..m
           /\ \A i \in 1..p[e + 1].len : i <= Len(s) => s[i] = <<e + 1, i>>
<1>0. PICK k \in Nat : k = Len(s)
  BY LenProperties
<1>1. e + 1 \in 1..m /\ s[1] = <<e + 1, 1>>
  <2>1. 1 \in 1..(Len(s) - 1)
    BY <1>0
  <2>2. s[1][1] \in DOMAIN p /\ s[1] = <<e + 1, 1>>
    BY <2>1 DEF InOrder
  <2>3. QED
    BY <2>2 DEF SomePackets
<1>2. PICK n \in Nat : n = p[e + 1].len /\ n > 0
  BY <1>1 DEF SomePackets
<1>3. DEFINE D == {i \in 1..n : i <= k /\ s[i] # <<e + 1, i>>}
<1>4. SUFFICES ASSUME D # {} PROVE FALSE
  BY <1>0, <1>1, <1>2
<1>5. PICK a \in D : \A j \in D : a <= j
  <2>1. D \subseteq Nat
    OBVIOUS
  <2>2. QED
    BY <1>4, <2>1, LeastIndex
<1>6. a \in 1..n /\ a <= k /\ s[a] # <<e + 1, a>>
  BY <1>5
<1>7. a # 1
  BY <1>1, <1>6
<1>8. PICK l \in Nat : a = l + 1 /\ l \in 1..n /\ l \in 1..(k - 1) /\ l < n
  <2>1. a - 1 \in Nat /\ a = (a - 1) + 1 /\ a - 1 \in 1..n /\ a - 1 \in 1..(k - 1) /\ a - 1 < n
    BY <1>6, <1>7
  <2>2. QED
    BY <2>1
<1>9. l \notin D
  BY <1>5, <1>8
<1>10. s[l] = <<e + 1, l>>
  BY <1>8, <1>9
<1>11. s[a] = Follows(p, <<e + 1, l>>)
  BY <1>0, <1>8, <1>10 DEF InOrder
<1>12. Follows(p, <<e + 1, l>>) = <<e + 1, l + 1>>
  BY <1>2, <1>8 DEF Follows
<1>13. QED
  BY <1>6, <1>8, <1>11, <1>12

(* What is left of such a sequence when it is cut before the first byte of *)
(* a packet.                                                               *)
LEMMA DropFirst ==
    ASSUME NEW B, NEW s \in Seq(B), NEW n \in Nat, n < Len(s), NEW p, NEW e,
           InOrder(s, p, e), NEW d, s[n + 1] = <<d + 1, 1>>
    PROVE  InOrder(SubSeq(s, n + 1, Len(s)), p, d)
<1>1. PICK k \in Nat : k = Len(s)
  BY LenProperties
<1>2. PICK r : r = SubSeq(s, n + 1, Len(s))
  OBVIOUS
<1>3. Len(r) = k - n /\ \A i \in 1..(k - n) : r[i] = s[n + i]
  BY <1>1, <1>2
<1>4. r[1] = <<d + 1, 1>>
  BY <1>1, <1>3
<1>5. ASSUME NEW i \in 1..((k - n) - 1)
      PROVE  r[i][1] \in DOMAIN p /\ r[i + 1] = Follows(p, r[i])
  <2>1. i \in 1..(k - n) /\ i + 1 \in 1..(k - n) /\ n + i \in 1..(k - 1) /\ n + (i + 1) = (n + i) + 1
    BY <1>1
  <2>2. r[i] = s[n + i] /\ r[i + 1] = s[(n + i) + 1]
    BY <1>3, <2>1
  <2>3. QED
    BY <1>1, <2>1, <2>2 DEF InOrder
<1>6. QED
  BY <1>2, <1>3, <1>4, <1>5 DEF InOrder

LEMMA NextPacket ==
    ASSUME NEW m \in Nat, NEW p, SomePackets(p, m), NEW B, NEW s \in Seq(B), NEW e \in Nat,
           InOrder(s, p, e), Len(s) > 1, NEW n \in Nat, n = p[e + 1].len, n < Len(s)
    PROVE  InOrder(SubSeq(s, n + 1, Len(s)), p, e + 1)
<1>0. PICK k \in Nat : k = Len(s)
  BY LenProperties
<1>1. e + 1 \in 1..m /\ \A i \in 1..n : s[i] = <<e + 1, i>>
  <2>1. \A i \in 1..n : i <= Len(s)
    BY <1>0
  <2>2. QED
    BY <2>1, FirstPacket
<1>2. n > 0
  BY <1>1 DEF SomePackets
<1>3. n \in 1..n /\ n \in 1..(k - 1)
  BY <1>0, <1>2
<1>4. s[n] = <<e + 1, n>> /\ s[n + 1] = Follows(p, s[n])
  BY <1>0, <1>1, <1>3 DEF InOrder
<1>5. Follows(p, <<e + 1, n>>) = <<(e + 1) + 1, 1>>
  BY DEF Follows
<1>6. s[n + 1] = <<(e + 1) + 1, 1>>
  BY <1>4, <1>5
<1>7. QED
  BY <1>6, DropFirst

(* A packet appended to the stream: r goes on after the k bytes of s with  *)
(* the n bytes of packet m + 1, which is the last of t.                    *)
GoesOn(r, s, k, n, m) ==
    /\ Len(r) = k + n + 1 /\ Len(s) = k + 1
    /\ \A i \in 1..(k + 1) : r[i] = s[i]
    /\ \A i \in 1..n : r[k + i] = <<m + 1, i>>
    /\ r[k + n + 1] = <<m + 2, 1>>

OnePacketMore(t, p, m, n) ==
    DOMAIN p = 1..m /\ DOMAIN t = 1..(m + 1) /\ t[m + 1].len = n /\ \A j \in 1..m : t[j] = p[j]

LEMMA AppendPacket ==
    ASSUME NEW m \in Nat, NEW B, NEW q \in Seq(B), NEW n \in Nat, n > 0,
           NEW u \in Seq(B), Len(u) = n, \A i \in 1..n : u[i] = <<m + 1, i>>
    PROVE  GoesOn(Append(q \o u, <<m + 2, 1>>), Append(q, <<m + 1, 1>>), Len(q), n, m)
<1>1. PICK s : s = Append(q, <<m + 1, 1>>)
  OBVIOUS
<1>2. PICK k \in Nat : k = Len(q)
  BY LenProperties
<1>3. /\ Len(s) = k + 1 /\ s[k + 1] = <<m + 1, 1>>
      /\ \A i \in 1..k : s[i] = q[i]
  BY <1>1, <1>2
<1>4. PICK v : v = q \o u
  OBVIOUS
<1>5. v \in Seq(B) /\ Len(v) = k + n
  BY <1>2, <1>4, ConcatProperties
<1>6. \A i \in 1..(k + n) : v[i] = IF i <= k THEN q[i] ELSE u[i - k]
  BY <1>2, <1>4, ConcatProperties
<1>7. \A i \in 1..k : v[i] = q[i]
  BY <1>6
<1>8. ASSUME NEW i \in 1..n PROVE v[k + i] = <<m + 1, i>>
  <2>1. k + i \in 1..(k + n) /\ ~(k + i <= k) /\ (k + i) - k = i
    OBVIOUS
  <2>2. v[k + i] = u[i]
    BY <1>6, <2>1
  <2>3. QED
    BY <2>2
<1>9. PICK r : r = Append(v, <<m + 2, 1>>)
  OBVIOUS
<1>10. /\ Len(r) = k + n + 1 /\ r[k + n + 1] = <<m + 2, 1>>
       /\ \A i \in 1..(k + n) : r[i] = v[i]
  <2>1. PICK z \in Nat : z = k + n
    OBVIOUS
  <2>2. Len(r) = z + 1 /\ r[z + 1] = <<m + 2, 1>> /\ \A i \in 1..z : r[i] = v[i]
    BY <1>5, <1>9, <2>1
  <2>3. QED
    BY <2>1, <2>2
<1>11. \A i \in 1..n : r[k + i] = <<m + 1, i>>
  BY <1>8, <1>10
<1>12. \A i \in 1..(k + 1) : r[i] = s[i]
  <2>1. TAKE i \in 1..(k + 1)
  <2>2. CASE i = k + 1
    <3>1. r[k + 1] = <<m + 1, 1>>
      BY <1>11
    <3>2. QED
      BY <1>3, <2>2, <3>1
  <2>3. CASE i # k + 1
    BY <1>3, <1>7, <1>10, <2>3
  <2>4. QED
    BY <2>2, <2>3
<1>13. QED
  BY <1>1, <1>2, <1>3, <1>4, <1>9, <1>10, <1>11, <1>12 DEF GoesOn

LEMMA MorePackets ==
    ASSUME NEW m \in Nat, NEW p, NEW e \in Nat, NEW s, InOrder(s, p, e), NEW k \in Nat,
           NEW n \in Nat, n > 0, NEW t, OnePacketMore(t, p, m, n), NEW r, GoesOn(r, s, k, n, m)
    PROVE  InOrder(r, t, e)
<1>1. r[1] = <<e + 1, 1>>
  BY DEF InOrder, GoesOn
<1>2. ASSUME NEW i \in 1..(k + n)
      PROVE  r[i][1] \in DOMAIN t /\ r[i + 1] = Follows(t, r[i])
  <2>1. CASE i <= k
    <3>1. i \in 1..(Len(s) - 1) /\ i \in 1..(k + 1) /\ i + 1 \in 1..(k + 1)
      BY <2>1 DEF GoesOn
    <3>2. s[i][1] \in DOMAIN p /\ s[i + 1] = Follows(p, s[i])
      BY <3>1 DEF InOrder
    <3>3. r[i] = s[i] /\ r[i + 1] = s[i + 1]
      BY <3>1 DEF GoesOn
    <3>4. s[i][1] \in DOMAIN t /\ t[s[i][1]] = p[s[i][1]]
      BY <3>2 DEF OnePacketMore
    <3>5. Follows(t, s[i]) = Follows(p, s[i])
      BY <3>4 DEF Follows
    <3>6. QED
      BY <3>2, <3>3, <3>4, <3>5
  <2>2. CASE i > k
    <3>1. PICK j \in 1..n : i = k + j
      <4>1. i - k \in 1..n /\ i = k + (i - k)
        BY <2>2
      <4>2. QED
        BY <4>1
    <3>2. r[i] = <<m + 1, j>>
      BY <3>1 DEF GoesOn
    <3>3. m + 1 \in DOMAIN t /\ t[m + 1].len = n
      BY DEF OnePacketMore
    <3>4. r[i][1] \in DOMAIN t
      BY <3>2, <3>3
    <3>5. CASE j < n
      <4>1. j + 1 \in 1..n /\ i + 1 = k + (j + 1)
        BY <3>1, <3>5
      <4>2. r[i + 1] = <<m + 1, j + 1>>
        BY <4>1 DEF GoesOn
      <4>3. Follows(t, <<m + 1, j>>) = <<m + 1, j + 1>>
        BY <3>3, <3>5 DEF Follows
      <4>4. QED
        BY <3>2, <3>4, <4>2, <4>3
    <3>6. CASE j = n
      <4>1. i + 1 = k + n + 1
        BY <3>1, <3>6
      <4>2. r[i + 1] = <<m + 2, 1>>
        BY <4>1 DEF GoesOn
      <4>3. Follows(t, <<m + 1, j>>) = <<m + 2, 1>>
        BY <3>3, <3>6 DEF Follows
      <4>4. QED
        BY <3>2, <3>4, <4>2, <4>3
    <3>7. j < n \/ j = n
      BY <3>1
    <3>8. QED
      BY <3>5, <3>6, <3>7
  <2>3. QED
    BY <2>1, <2>2
<1>3. Len(r) - 1 = k + n
  BY DEF GoesOn
<1>4. QED
  BY <1>1, <1>2, <1>3 DEF InOrder


(* Positions in the ring, without the modulo. *)
LEMMA WrapAround ==
    ASSUME NEW N \in Nat, N > 0, NEW a \in 0..(N - 1), NEW n \in 0..N
    PROVE  (a + n) % N = IF a + n < N THEN a + n ELSE a + n - N
<1>1. \A c \in 0..(N - 1) : c % N = c /\ (c + N) % N = c
  OBVIOUS
<1>2. CASE a + n < N
  <2>1. a + n \in 0..(N - 1)
    BY <1>2
  <2>2. QED
    BY <1>1, <1>2, <2>1
<1>3. CASE ~(a + n < N)
  <2>1. a + n - N \in 0..(N - 1) /\ a + n = (a + n - N) + N
    BY <1>3
  <2>2. (a + n - N + N) % N = a + n - N
    BY <1>1, <2>1
  <2>3. QED
    BY <1>3, <2>1, <2>2
<1>4. QED
  BY <1>2, <1>3

(* The sizes RingBuffer computes, from the places of the first byte r and  *)
(* of the first free place w of a ring of N.                               *)
LEMMA RingSizes ==
    ASSUME ReceiveConstants, front \in 0..(Size - 1), rear \in 0..(Size - 1)
    PROVE  /\ Rcv!GetUseSize = Used /\ Rcv!GetFreeSize = (Size - 1) - Used
           /\ Used \in 0..(Size - 1)
           /\ Rcv!ReadPos = PlaceOf(front, 1) /\ Rcv!WritePos = PlaceOf(rear, 1)
<1>1. Size \in Nat /\ Size > 0
  BY DEF ReceiveConstants
<1>2. Rcv!ReadPos = PlaceOf(front, 1)
  BY <1>1, WrapAround DEF Rcv!ReadPos, PlaceOf
<1>3. Rcv!WritePos = PlaceOf(rear, 1)
  BY <1>1, WrapAround DEF Rcv!WritePos, PlaceOf
<1>4. PICK r, w : r = Rcv!ReadPos /\ w = Rcv!WritePos
  OBVIOUS
<1>5. /\ r = IF front + 1 < Size THEN front + 1 ELSE 0
      /\ w = IF rear + 1 < Size THEN rear + 1 ELSE 0
  BY <1>1, <1>2, <1>3, <1>4 DEF PlaceOf
<1>6. Rcv!GetUseSize = (IF w < r THEN Size - r ELSE w - r) + (IF r <= w THEN 0 ELSE w)
  BY <1>4 DEF Rcv!GetUseSize, Rcv!DirectDequeueSize, Rcv!RemainDequeueSize
<1>7. Rcv!GetFreeSize = (IF front < w THEN Size - w ELSE front - w) + (IF w <= front THEN 0 ELSE front)
  BY <1>4 DEF Rcv!GetFreeSize, Rcv!DirectEnqueueSize, Rcv!RemainEnqueueSize
<1>8. Rcv!GetUseSize = Used /\ Used \in 0..(Size - 1)
  BY <1>1, <1>5, <1>6 DEF Used
<1>9. Rcv!GetFreeSize = (Size - 1) - Used
  BY <1>1, <1>5, <1>7 DEF Used
<1>10. QED
  BY <1>2, <1>3, <1>8, <1>9

(* What Peek reads: the bytes from front on, in the order of their places. *)
LEMMA PeekReads ==
    ASSUME ReceiveConstants, front \in 0..(Size - 1), rear \in 0..(Size - 1),
           NEW n \in 0..Used
    PROVE  Rcv!Peek(n) = RingBytes(ring, front, n)
<1>1. Size \in Nat /\ Size > 0
  BY DEF ReceiveConstants
<1>2. Used \in 0..(Size - 1) /\ Rcv!ReadPos = PlaceOf(front, 1) /\ Rcv!WritePos = PlaceOf(rear, 1)
  BY RingSizes
<1>3. PICK r, w : r = Rcv!ReadPos /\ w = Rcv!WritePos
  OBVIOUS
<1>4. /\ r = IF front + 1 < Size THEN front + 1 ELSE 0
      /\ w = IF rear + 1 < Size THEN rear + 1 ELSE 0
  BY <1>1, <1>2, <1>3 DEF PlaceOf
<1>5. PICK d : d = IF w < r THEN Size - r ELSE w - r
  OBVIOUS
<1>6. Rcv!Peek(n) = [i \in 1..n |-> IF i <= d THEN ring[r + i - 1] ELSE ring[i - 1 - d]]
  BY <1>3, <1>5 DEF Rcv!Peek, Rcv!DirectDequeueSize
<1>7. ASSUME NEW i \in 1..n
      PROVE  PlaceOf(front, i) = IF i <= d THEN r + i - 1 ELSE i - 1 - d
  BY <1>1, <1>2, <1>4, <1>5 DEF PlaceOf, Used
<1>8. QED
  BY <1>6, <1>7 DEF RingBytes


RcvTypes ==
    /\ sent \in Seq(SentPackets) /\ Len(sent) <= MaxPackets
    /\ wire \in Seq(Bytes) /\ ring \in [0..(Size - 1) -> Bytes]
    /\ front \in 0..(Size - 1) /\ rear \in 0..(Size - 1)
    /\ rcvPc \in {"posted", "loop", "dropped"} /\ loop \in 0..MaxLoop
    /\ extracted \in Seq(Seq(Bytes)) /\ handled \in Seq(Nat)

(* What is in the ring and on the wire continues what was taken out.       *)
StreamInv == InOrder(Stream, sent, Len(extracted))

TakenInv == \A k \in 1..Len(extracted) : extracted[k] = Rcv!Packet(k)

HandledInv ==
    /\ \A i \in 1..Len(handled) : handled[i] \in 1..Len(extracted) /\ sent[handled[i]].id \in Handled
    /\ \A k \in 1..Len(extracted) : sent[k].id \in Handled => \E i \in 1..Len(handled) : handled[i] = k
    /\ \A i, j \in 1..Len(handled) : i < j => handled[i] < handled[j]

(* A receive is posted only when the ring holds no whole packet: so a ring *)
(* without room has a packet in it that cannot be completed.               *)
FirstLength == sent[Len(extracted) + 1].len
PostedInv ==
    rcvPc = "posted" =>
       \/ Used < HeaderSize
       \/ Len(extracted) < Len(sent) /\ Rcv!IsValidPacketSize(FirstLength) /\ Used < FirstLength

DroppedInv ==
    rcvPc = "dropped" =>
       \/ loop = MaxLoop
       \/ Len(extracted) < Len(sent) /\ (FirstLength >= Size \/ ~Rcv!IsValidPacketSize(FirstLength))

ReceiveInv == RcvTypes /\ StreamInv /\ TakenInv /\ HandledInv /\ PostedInv /\ DroppedInv

LEMMA ReceiveInit ==
    ASSUME ReceiveConstants, Rcv!Init
    PROVE  ReceiveInv
<1>1. Size \in Nat /\ Size > 0 /\ HeaderSize > 0 /\ MaxPackets \in Nat /\ MaxLoop \in Nat
  BY DEF ReceiveConstants
<1>2. /\ sent = <<>> /\ wire = <<>> /\ front = 0 /\ rear = 0 /\ rcvPc = "posted" /\ loop = 0
      /\ extracted = <<>> /\ handled = <<>> /\ ring = [i \in 0..(Size - 1) |-> <<0, 0>>]
  BY DEF Rcv!Init, Rcv!NoByte
<1>3. ring \in [0..(Size - 1) -> Bytes]
  BY <1>2 DEF Bytes
<1>4. RcvTypes
  BY <1>1, <1>2, <1>3 DEF RcvTypes
<1>5. Used = 0
  BY <1>2 DEF Used
<1>6. Content = <<>>
  BY <1>5 DEF Content, RingBytes
<1>7. Stream = << <<1, 1>> >>
  BY <1>2, <1>6 DEF Stream
<1>8. StreamInv
  BY <1>2, <1>7 DEF StreamInv, InOrder
<1>9. TakenInv /\ HandledInv
  BY <1>2 DEF TakenInv, HandledInv
<1>10. PostedInv /\ DroppedInv
  BY <1>1, <1>2, <1>5 DEF PostedInv, DroppedInv
<1>11. QED
  BY <1>4, <1>8, <1>9, <1>10 DEF ReceiveInv

LEMMA ContentIs ==
    ASSUME ReceiveConstants, RcvTypes
    PROVE  /\ Used \in 0..(Size - 1) /\ Content \in Seq(Bytes) /\ Len(Content) = Used
           /\ \A i \in 1..Used : PlaceOf(front, i) \in 0..(Size - 1) /\ Content[i] = ring[PlaceOf(front, i)]
<1>1. Size \in Nat /\ Size > 0 /\ front \in 0..(Size - 1) /\ rear \in 0..(Size - 1)
      /\ ring \in [0..(Size - 1) -> Bytes]
  BY DEF ReceiveConstants, RcvTypes
<1>2. Used \in 0..(Size - 1)
  BY <1>1 DEF Used
<1>3. \A i \in 1..Used : PlaceOf(front, i) \in 0..(Size - 1)
  BY <1>1, <1>2 DEF PlaceOf
<1>4. \A i \in 1..Used : ring[PlaceOf(front, i)] \in Bytes
  BY <1>1, <1>3
<1>5. Content = [i \in 1..Used |-> ring[PlaceOf(front, i)]]
  BY DEF Content, RingBytes
<1>6. QED
  BY <1>2, <1>3, <1>4, <1>5

LEMMA StreamIs ==
    ASSUME ReceiveConstants, RcvTypes
    PROVE  /\ Stream \in Seq(Nat \X Nat) /\ Len(Stream) = Used + Len(wire) + 1
           /\ \A i \in 1..Used : Stream[i] = Content[i]
<1>1. Content \in Seq(Bytes) /\ wire \in Seq(Bytes) /\ Len(Content) = Used /\ Used \in Nat /\ Len(wire) \in Nat
  BY ContentIs DEF RcvTypes
<1>2. PICK b : b = <<Len(sent) + 1, 1>>
  OBVIOUS
<1>3. b \in Bytes
  BY <1>2 DEF Bytes, RcvTypes
<1>4. PICK q : q = Content \o wire
  OBVIOUS
<1>5. q \in Seq(Bytes) /\ Len(q) = Used + Len(wire) /\ \A i \in 1..Used : q[i] = Content[i]
  <2>1. PICK c, d, k, l : c = Content /\ d = wire /\ k = Used /\ l = Len(wire)
    OBVIOUS
  <2>2. c \in Seq(Bytes) /\ d \in Seq(Bytes) /\ Len(c) = k /\ Len(d) = l /\ k \in Nat /\ l \in Nat
    BY <1>1, <2>1
  <2>3. c \o d \in Seq(Bytes) /\ Len(c \o d) = k + l
    BY <2>2
  <2>4. \A i \in 1..k : (c \o d)[i] = c[i]
    BY <2>2
  <2>5. QED
    BY <1>4, <2>1, <2>3, <2>4
<1>6. Stream = Append(q, b)
  BY <1>2, <1>4 DEF Stream
<1>7. Stream \in Seq(Bytes) /\ Len(Stream) = Used + Len(wire) + 1 /\ \A i \in 1..Used : Stream[i] = q[i]
  BY <1>1, <1>3, <1>5, <1>6
<1>8. QED
  BY <1>5, <1>7 DEF Bytes

LEMMA SentIs ==
    ASSUME ReceiveConstants, RcvTypes
    PROVE  SomePackets(sent, Len(sent)) /\ Len(sent) \in Nat
<1>1. sent \in Seq(SentPackets) /\ Lengths \subseteq Nat \ {0}
  BY DEF ReceiveConstants, RcvTypes
<1>2. Len(sent) \in Nat /\ DOMAIN sent = 1..Len(sent) /\ \A j \in 1..Len(sent) : sent[j] \in SentPackets
  BY <1>1
<1>3. \A j \in 1..Len(sent) : sent[j].len \in Lengths
  BY <1>2 DEF SentPackets
<1>4. QED
  BY <1>1, <1>2, <1>3 DEF SomePackets


(* The bytes of a receive are put behind those in the ring, across its end *)
(* too, and over none of them.                                             *)
LEMMA ReceivedBytes ==
    ASSUME ReceiveConstants, RcvTypes, NEW n \in 1..Size, Rcv!Received(n)
    PROVE  /\ n \in 1..Len(wire) /\ Used' = Used + n /\ Used' \in 0..(Size - 1)
           /\ rear' \in 0..(Size - 1) /\ ring' \in [0..(Size - 1) -> Bytes]
           /\ \A i \in 1..Used : ring'[PlaceOf(front, i)] = ring[PlaceOf(front, i)]
           /\ \A i \in 1..n : ring'[PlaceOf(front, Used + i)] = wire[i]
<1>1. Size \in Nat /\ Size > 0 /\ front \in 0..(Size - 1) /\ rear \in 0..(Size - 1)
      /\ ring \in [0..(Size - 1) -> Bytes] /\ wire \in Seq(Bytes) /\ Len(wire) \in Nat
  BY DEF ReceiveConstants, RcvTypes
<1>2. /\ Rcv!GetFreeSize = (Size - 1) - Used /\ Used \in 0..(Size - 1)
      /\ Rcv!WritePos = PlaceOf(rear, 1)
  BY <1>1, RingSizes
<1>3. n \in 1..Len(wire) /\ n <= (Size - 1) - Used
  BY <1>1, <1>2 DEF Rcv!Received
<1>4. front' = front /\ rear' = PlaceOf(rear, n) /\ ring' = Rcv!RecvBuffers(n)
  <2>1. front' = front /\ rear' = (rear + n) % Size /\ ring' = Rcv!RecvBuffers(n)
    BY DEF Rcv!Received, Rcv!MoveRear
  <2>2. n \in 0..Size
    BY <1>1
  <2>3. QED
    BY <1>1, <2>1, <2>2, WrapAround DEF PlaceOf
<1>5. Used' = Used + n /\ rear' \in 0..(Size - 1)
  BY <1>1, <1>3, <1>4 DEF Used, PlaceOf
<1>6. PICK w : w = Rcv!WritePos
  OBVIOUS
<1>7. w = IF rear + 1 < Size THEN rear + 1 ELSE 0
  BY <1>1, <1>2, <1>6 DEF PlaceOf
<1>8. PICK d, e : d = (IF front < w THEN Size - w ELSE front - w) /\ e = IF w <= front THEN 0 ELSE front
  OBVIOUS
<1>9. ring' = [p \in 0..(Size - 1) |->
                 IF p >= w /\ p - w < d /\ p - w < n THEN wire[p - w + 1]
                 ELSE IF p < e /\ d + p < n THEN wire[d + p + 1] ELSE ring[p]]
  BY <1>4, <1>6, <1>8 DEF Rcv!RecvBuffers, Rcv!DirectEnqueueSize, Rcv!RemainEnqueueSize
<1>10. d \in 0..Size /\ e \in 0..Size /\ w \in 0..(Size - 1)
  BY <1>1, <1>7, <1>8
<1>11. ASSUME NEW p \in 0..(Size - 1) PROVE ring'[p] \in Bytes
  <2>1. CASE p >= w /\ p - w < d /\ p - w < n
    <3>1. ring'[p] = wire[p - w + 1] /\ p - w + 1 \in 1..Len(wire)
      BY <1>3, <1>9, <1>10, <2>1
    <3>2. QED
      BY <1>1, <3>1
  <2>2. CASE ~(p >= w /\ p - w < d /\ p - w < n) /\ p < e /\ d + p < n
    <3>1. ring'[p] = wire[d + p + 1] /\ d + p + 1 \in 1..Len(wire)
      BY <1>3, <1>9, <1>10, <2>2
    <3>2. QED
      BY <1>1, <3>1
  <2>3. CASE ~(p >= w /\ p - w < d /\ p - w < n) /\ ~(p < e /\ d + p < n)
    <3>1. ring'[p] = ring[p]
      BY <1>9, <2>3
    <3>2. QED
      BY <1>1, <3>1
  <2>4. QED
    BY <2>1, <2>2, <2>3
<1>12. ring' \in [0..(Size - 1) -> Bytes]
  BY <1>9, <1>11
<1>13. ASSUME NEW i \in 1..Used
       PROVE  ring'[PlaceOf(front, i)] = ring[PlaceOf(front, i)]
  <2>1. PICK p : p = PlaceOf(front, i)
    OBVIOUS
  <2>2. p = IF front + i < Size THEN front + i ELSE front + i - Size
    BY <2>1 DEF PlaceOf
  <2>3. p \in 0..(Size - 1) /\ ~(p >= w /\ p - w < d /\ p - w < n) /\ ~(p < e /\ d + p < n)
    BY <1>1, <1>2, <1>3, <1>7, <1>8, <2>2 DEF Used
  <2>4. ring'[p] = ring[p]
    BY <1>9, <2>3
  <2>5. QED
    BY <2>1, <2>4
<1>14. ASSUME NEW i \in 1..n
       PROVE  ring'[PlaceOf(front, Used + i)] = wire[i]
  <2>1. PICK p : p = PlaceOf(front, Used + i)
    OBVIOUS
  <2>2. p = IF front + Used + i < Size THEN front + Used + i ELSE front + Used + i - Size
    BY <1>1, <1>2, <2>1 DEF PlaceOf
  <2>3. p \in 0..(Size - 1)
    BY <1>1, <1>2, <1>3, <2>2
  <2>4. \/ p >= w /\ p - w < d /\ p - w < n /\ p - w + 1 = i
        \/ ~(p >= w) /\ p < e /\ d + p < n /\ d + p + 1 = i
    BY <1>1, <1>2, <1>3, <1>7, <1>8, <2>2 DEF Used
  <2>5. ring'[p] = wire[i]
    BY <1>9, <2>3, <2>4
  <2>6. QED
    BY <2>1, <2>5
<1>15. QED
  BY <1>1, <1>2, <1>3, <1>5, <1>12, <1>13, <1>14


(* The first n of w moved behind c: the whole is the same. *)
Moved(c, w, n, d) ==
    /\ Len(d) = Len(c) + n
    /\ \A i \in 1..Len(c) : d[i] = c[i]
    /\ \A i \in 1..n : d[Len(c) + i] = w[i]

LEMMA MoveOver ==
    ASSUME NEW B, NEW c \in Seq(B), NEW w \in Seq(B), NEW n \in 0..Len(w),
           NEW d \in Seq(B), Moved(c, w, n, d)
    PROVE  /\ SubSeq(w, n + 1, Len(w)) \in Seq(B) /\ Len(SubSeq(w, n + 1, Len(w))) = Len(w) - n
           /\ d \o SubSeq(w, n + 1, Len(w)) = c \o w
<1>0. Len(d) = Len(c) + n /\ (\A i \in 1..Len(c) : d[i] = c[i]) /\ \A i \in 1..n : d[Len(c) + i] = w[i]
  BY DEF Moved
<1>1. PICK k \in Nat, l \in Nat : k = Len(c) /\ l = Len(w)
  BY LenProperties
<1>1a. PICK v : v = SubSeq(w, n + 1, Len(w))
  OBVIOUS
<1>2. v \in Seq(B) /\ Len(v) = l - n /\ \A i \in 1..(l - n) : v[i] = w[n + i]
  BY <1>1, <1>1a
<1>3. PICK s, t : s = c \o w /\ t = d \o v
  OBVIOUS
<1>4. /\ s \in Seq(B) /\ Len(s) = k + l
      /\ \A i \in 1..(k + l) : s[i] = IF i <= k THEN c[i] ELSE w[i - k]
  BY <1>1, <1>3, ConcatProperties
<1>5. /\ t \in Seq(B) /\ Len(t) = k + l
      /\ \A i \in 1..(k + l) : t[i] = IF i <= k + n THEN d[i] ELSE v[i - (k + n)]
  <2>1. t \in Seq(B) /\ Len(t) = Len(d) + Len(v)
        /\ \A i \in 1..(Len(d) + Len(v)) : t[i] = IF i <= Len(d) THEN d[i] ELSE v[i - Len(d)]
    BY <1>2, <1>3, ConcatProperties
  <2>2. Len(d) = k + n /\ Len(d) + Len(v) = k + l
    <3>1. Len(d) = k + n
      BY <1>0, <1>1
    <3>2. n \in 0..l /\ Len(v) = l - n
      BY <1>1, <1>2
    <3>3. (k + n) + (l - n) = k + l
      BY <3>2
    <3>4. QED
      BY <3>1, <3>2, <3>3
  <2>3. QED
    BY <2>1, <2>2
<1>6. ASSUME NEW i \in 1..(k + l) PROVE s[i] = t[i]
  <2>1. CASE i <= k
    <3>1. s[i] = c[i] /\ t[i] = d[i]
      BY <1>1, <1>4, <1>5, <2>1
    <3>2. QED
      BY <1>0, <1>1, <2>1, <3>1
  <2>2. CASE k < i /\ i <= k + n
    <3>1. s[i] = w[i - k] /\ t[i] = d[i]
      BY <1>1, <1>4, <1>5, <2>2
    <3>2. i - k \in 1..n /\ k + (i - k) = i
      BY <2>2
    <3>3. d[k + (i - k)] = w[i - k]
      BY <1>0, <1>1, <3>2
    <3>4. QED
      BY <3>1, <3>2, <3>3
  <2>3. CASE k + n < i
    <3>1. s[i] = w[i - k] /\ t[i] = v[i - (k + n)]
      BY <1>1, <1>4, <1>5, <2>3
    <3>2. i - (k + n) \in 1..(l - n) /\ n + (i - (k + n)) = i - k
      BY <1>1, <2>3
    <3>3. v[i - (k + n)] = w[n + (i - (k + n))]
      BY <1>2, <3>2
    <3>4. QED
      BY <3>1, <3>2, <3>3
  <2>4. QED
    BY <2>1, <2>2, <2>3
<1>7. s = t
  BY <1>4, <1>5, <1>6
<1>8. QED
  BY <1>1, <1>2, <1>3, <1>7, <1>1a

LEMMA ReceivedStep ==
    ASSUME ReceiveConstants, ReceiveInv, NEW n \in 1..Size, Rcv!Received(n)
    PROVE  ReceiveInv'
<1>1. RcvTypes /\ Len(wire) \in Nat /\ wire \in Seq(Bytes) /\ Size \in Nat
  BY DEF ReceiveInv, RcvTypes, ReceiveConstants
<1>2. /\ n \in 1..Len(wire) /\ Used' = Used + n /\ Used' \in 0..(Size - 1)
      /\ rear' \in 0..(Size - 1) /\ ring' \in [0..(Size - 1) -> Bytes]
      /\ \A i \in 1..Used : ring'[PlaceOf(front, i)] = ring[PlaceOf(front, i)]
      /\ \A i \in 1..n : ring'[PlaceOf(front, Used + i)] = wire[i]
  BY <1>1, ReceivedBytes
<1>3. /\ wire' = SubSeq(wire, n + 1, Len(wire)) /\ rcvPc' = "loop" /\ loop' = 0
      /\ sent' = sent /\ front' = front /\ extracted' = extracted /\ handled' = handled
  BY DEF Rcv!Received
<1>4. /\ Used \in Nat /\ Content \in Seq(Bytes) /\ Len(Content) = Used
      /\ \A i \in 1..Used : Content[i] = ring[PlaceOf(front, i)]
  BY <1>1, ContentIs
<1>5. Content' = [i \in 1..(Used + n) |-> ring'[PlaceOf(front, i)]]
  BY <1>2, <1>3 DEF Content, RingBytes, PlaceOf
<1>6. PICK d : d = Content'
  OBVIOUS
<1>7. /\ Len(d) = Len(Content) + n
      /\ \A i \in 1..Len(Content) : d[i] = Content[i]
      /\ \A i \in 1..n : d[Len(Content) + i] = wire[i]
  <2>1. Len(d) = Used + n
    BY <1>4, <1>5, <1>6
  <2>2. \A i \in 1..(Used + n) : d[i] = ring'[PlaceOf(front, i)]
    BY <1>5, <1>6
  <2>3. \A i \in 1..Used : d[i] = Content[i]
    BY <1>2, <1>4, <2>2
  <2>4. \A i \in 1..n : Used + i \in 1..(Used + n)
    BY <1>4
  <2>5. \A i \in 1..n : d[Used + i] = wire[i]
    BY <1>2, <2>2, <2>4
  <2>6. QED
    BY <1>4, <2>1, <2>3, <2>5
<1>8. d \in Seq(Bytes)
  <2>1. \A i \in 1..(Used + n) : PlaceOf(front, i) \in 0..(Size - 1)
    <3>1. front \in 0..(Size - 1)
      BY <1>1 DEF RcvTypes
    <3>2. QED
      BY <1>1, <1>2, <1>4, <3>1 DEF PlaceOf
  <2>2. \A i \in 1..(Used + n) : ring'[PlaceOf(front, i)] \in Bytes
    BY <1>2, <2>1
  <2>3. PICK k \in Nat : k = Used + n
    BY <1>4
  <2>4. [i \in 1..k |-> ring'[PlaceOf(front, i)]] \in Seq(Bytes)
    BY <2>2, <2>3
  <2>5. QED
    BY <1>5, <1>6, <2>3, <2>4
<1>9. n \in 0..Len(wire)
  BY <1>1, <1>2
<1>10. PICK v : v = wire'
  OBVIOUS
<1>11. v \in Seq(Bytes) /\ Len(v) = Len(wire) - n /\ d \o v = Content \o wire
  <2>1. PICK c, w : c = Content /\ w = wire
    OBVIOUS
  <2>2. c \in Seq(Bytes) /\ w \in Seq(Bytes) /\ n \in 0..Len(w) /\ v = SubSeq(w, n + 1, Len(w))
    BY <1>1, <1>3, <1>4, <1>9, <1>10, <2>1
  <2>3. Moved(c, w, n, d)
    BY <1>7, <2>1 DEF Moved
  <2>4. v \in Seq(Bytes) /\ Len(v) = Len(w) - n /\ d \o v = c \o w
    <3>1. c \in Seq(Bytes) /\ w \in Seq(Bytes) /\ n \in 0..Len(w)
      BY <2>2
    <3>2. d \o SubSeq(w, n + 1, Len(w)) = c \o w
      BY <1>8, <2>3, <3>1, MoveOver
    <3>3. SubSeq(w, n + 1, Len(w)) \in Seq(Bytes) /\ Len(SubSeq(w, n + 1, Len(w))) = Len(w) - n
      BY <1>8, <2>3, <3>1, MoveOver, Zenon
    <3>4. QED
      BY <2>2, <3>2, <3>3
  <2>5. QED
    BY <2>1, <2>4
<1>12. Stream' = Stream
  BY <1>3, <1>6, <1>10, <1>11 DEF Stream
<1>13. StreamInv'
  BY <1>3, <1>12 DEF StreamInv, ReceiveInv
<1>14. RcvTypes'
  <2>1. wire' \in Seq(Bytes)
    BY <1>10, <1>11
  <2>2. MaxLoop \in Nat
    BY DEF ReceiveConstants
  <2>3. 0 \in 0..MaxLoop
    BY <2>2
  <2>4. QED
    BY <1>1, <1>2, <1>3, <2>1, <2>3 DEF RcvTypes
<1>15. TakenInv' /\ HandledInv'
  BY <1>3 DEF TakenInv, HandledInv, ReceiveInv, Rcv!Packet
<1>16. PostedInv' /\ DroppedInv'
  BY <1>3 DEF PostedInv, DroppedInv
<1>17. QED
  BY <1>13, <1>14, <1>15, <1>16 DEF ReceiveInv


LEMMA TakenFewer ==
    ASSUME ReceiveConstants, RcvTypes, StreamInv
    PROVE  /\ Len(extracted) \in 0..Len(sent) /\ Len(sent) \in Nat
           /\ Used + Len(wire) > 0 => Len(extracted) + 1 \in 1..Len(sent)
<1>1. SomePackets(sent, Len(sent)) /\ Len(sent) \in Nat
  BY SentIs
<1>2. Stream \in Seq(Nat \X Nat) /\ Len(Stream) = Used + Len(wire) + 1
  BY StreamIs
<1>3. Used \in Nat /\ Len(wire) \in Nat /\ Len(extracted) \in Nat
  BY ContentIs DEF RcvTypes
<1>4. CASE Used + Len(wire) > 0
  <2>1. Len(Stream) > 1
    BY <1>2, <1>3, <1>4
  <2>2. InOrder(Stream, sent, Len(extracted))
    BY DEF StreamInv
  <2>3. Len(extracted) + 1 \in 1..Len(sent)
    BY <1>1, <1>2, <1>3, <2>1, <2>2, FirstPacket
  <2>4. QED
    BY <1>1, <1>3, <2>3
<1>5. CASE ~(Used + Len(wire) > 0)
  <2>1. Used = 0 /\ Len(wire) = 0
    BY <1>3, <1>5
  <2>2. Content = <<>> /\ wire = <<>>
    <3>1. Content \in Seq(Bytes) /\ Len(Content) = 0 /\ wire \in Seq(Bytes)
      BY <2>1, ContentIs DEF RcvTypes
    <3>2. QED
      BY <2>1, <3>1
  <2>3. Stream[1] = <<Len(sent) + 1, 1>>
    BY <2>2 DEF Stream
  <2>4. <<Len(sent) + 1, 1>> = <<Len(extracted) + 1, 1>>
    BY <2>3 DEF StreamInv, InOrder
  <2>5. Len(sent) = Len(extracted)
    BY <1>1, <1>3, <2>4
  <2>6. QED
    BY <1>1, <1>5, <2>5
<1>6. QED
  BY <1>4, <1>5

LEMMA PeerSendsStep ==
    ASSUME ReceiveConstants, ReceiveInv, NEW len \in Lengths, NEW id \in Ids, Rcv!PeerSends(len, id)
    PROVE  ReceiveInv'
<1>1. RcvTypes /\ StreamInv /\ TakenInv /\ HandledInv /\ PostedInv /\ DroppedInv
  BY DEF ReceiveInv
<1>2. /\ sent \in Seq(SentPackets) /\ wire \in Seq(Bytes) /\ len \in Nat /\ len > 0
      /\ Len(sent) \in Nat /\ MaxPackets \in Nat
  BY <1>1 DEF RcvTypes, ReceiveConstants
<1>3. /\ Len(sent) < MaxPackets /\ sent' = Append(sent, [len |-> len, id |-> id])
      /\ wire' = wire \o [i \in 1..len |-> <<Len(sent) + 1, i>>]
      /\ ring' = ring /\ front' = front /\ rear' = rear /\ rcvPc' = rcvPc /\ loop' = loop
      /\ extracted' = extracted /\ handled' = handled
  BY DEF Rcv!PeerSends
<1>4. [len |-> len, id |-> id] \in SentPackets
  BY DEF SentPackets
<1>5. /\ sent' \in Seq(SentPackets) /\ Len(sent') = Len(sent) + 1 /\ sent'[Len(sent) + 1].len = len
      /\ \A j \in 1..Len(sent) : sent'[j] = sent[j]
      /\ DOMAIN sent = 1..Len(sent) /\ DOMAIN sent' = 1..(Len(sent) + 1)
  <2>1. PICK x : x = [len |-> len, id |-> id]
    OBVIOUS
  <2>2. /\ sent' \in Seq(SentPackets) /\ Len(sent') = Len(sent) + 1 /\ sent'[Len(sent) + 1] = x
        /\ \A j \in 1..Len(sent) : sent'[j] = sent[j]
        /\ DOMAIN sent = 1..Len(sent) /\ DOMAIN sent' = 1..(Len(sent) + 1)
    BY <1>2, <1>3, <1>4, <2>1
  <2>3. x.len = len
    BY <2>1
  <2>4. QED
    BY <2>2, <2>3
<1>6. PICK m \in Nat : m = Len(sent)
  BY <1>2
<1>7. PICK u : u = [i \in 1..len |-> <<m + 1, i>>]
  OBVIOUS
<1>8. u \in Seq(Bytes) /\ Len(u) = len /\ \A i \in 1..len : u[i] = <<m + 1, i>>
  <2>1. \A i \in 1..len : <<m + 1, i>> \in Bytes
    BY DEF Bytes
  <2>2. QED
    BY <1>2, <1>7, <2>1
<1>9. Used' = Used /\ Content' = Content
  BY <1>3 DEF Used, Content, RingBytes, PlaceOf
<1>10. wire' = wire \o u
  BY <1>3, <1>6, <1>7
<1>11. Content \in Seq(Bytes)
  BY <1>1, ContentIs
<1>12. PICK q : q = Content \o wire
  OBVIOUS
<1>13. q \in Seq(Bytes) /\ Content \o (wire \o u) = q \o u
  <2>1. PICK c, w : c = Content /\ w = wire
    OBVIOUS
  <2>2. c \in Seq(Bytes) /\ w \in Seq(Bytes)
    BY <1>2, <1>11, <2>1
  <2>3. c \o w \in Seq(Bytes)
    BY <2>2
  <2>4. c \o (w \o u) = (c \o w) \o u
    <3>1. u \in Seq(Bytes)
      BY <1>8
    <3>2. QED
      BY <2>2, <3>1, ConcatAssociative
  <2>5. QED
    BY <1>12, <2>1, <2>3, <2>4
<1>14. Stream = Append(q, <<m + 1, 1>>)
  BY <1>6, <1>12 DEF Stream
<1>15. Stream' = Append(q \o u, <<m + 2, 1>>)
  <2>1. Stream' = Append(Content' \o wire', <<Len(sent') + 1, 1>>)
    BY DEF Stream
  <2>2. Content' \o wire' = q \o u
    BY <1>9, <1>10, <1>13
  <2>3. Len(sent') + 1 = m + 2
    BY <1>5, <1>6
  <2>4. QED
    BY <2>1, <2>2, <2>3
<1>16. PICK s, r, k : s = Stream /\ r = Stream' /\ k = Len(q)
  OBVIOUS
<1>17. k \in Nat
  BY <1>13, <1>16, LenProperties
<1>18. GoesOn(r, s, k, len, m)
  BY <1>2, <1>8, <1>13, <1>14, <1>15, <1>16, AppendPacket
<1>19. PICK p, t, e : p = sent /\ t = sent' /\ e = Len(extracted)
  OBVIOUS
<1>20. OnePacketMore(t, p, m, len)
  BY <1>5, <1>6, <1>19 DEF OnePacketMore
<1>21. e \in 0..m
  BY <1>1, <1>6, <1>19, TakenFewer
<1>22. InOrder(s, p, e)
  BY <1>1, <1>16, <1>19 DEF StreamInv
<1>23. InOrder(r, t, e)
  BY <1>2, <1>17, <1>18, <1>20, <1>21, <1>22, MorePackets
<1>24. StreamInv'
  BY <1>3, <1>16, <1>19, <1>23 DEF StreamInv
<1>25. RcvTypes'
  <2>1. wire' \in Seq(Bytes)
    BY <1>2, <1>8, <1>10
  <2>2. Len(sent') <= MaxPackets
    BY <1>2, <1>3, <1>5
  <2>3. QED
    BY <1>1, <1>3, <1>5, <2>1, <2>2 DEF RcvTypes
<1>26. \A j \in 1..Len(extracted) : sent'[j] = sent[j]
  BY <1>5, <1>6, <1>19, <1>21
<1>27. TakenInv'
  BY <1>1, <1>3, <1>26 DEF TakenInv, Rcv!Packet
<1>28. HandledInv'
  BY <1>1, <1>3, <1>26 DEF HandledInv
<1>29. Len(extracted) < Len(sent) => Len(extracted) < Len(sent') /\ sent'[Len(extracted) + 1] = sent[Len(extracted) + 1]
  <2>1. e < m => e + 1 \in 1..m
    BY <1>21
  <2>2. QED
    BY <1>5, <1>6, <1>19, <1>21, <2>1
<1>30. PostedInv' /\ DroppedInv'
  <2>1. Len(extracted) < Len(sent) => Len(extracted') < Len(sent') /\ FirstLength' = FirstLength
    BY <1>3, <1>29 DEF FirstLength
  <2>2. PICK f, g : f = FirstLength /\ g = FirstLength'
    OBVIOUS
  <2>3. PostedInv'
    BY <1>1, <1>3, <1>9, <2>1, <2>2 DEF PostedInv, Rcv!IsValidPacketSize
  <2>4. DroppedInv'
    BY <1>1, <1>3, <2>1, <2>2 DEF DroppedInv, Rcv!IsValidPacketSize
  <2>5. QED
    BY <2>3, <2>4
<1>31. QED
  BY <1>24, <1>25, <1>27, <1>28, <1>30 DEF ReceiveInv


(* With a whole header in the ring, the length read from it is that of the *)
(* first packet, unless the packet is too short to have one.               *)
LEMMA HeaderRead ==
    ASSUME ReceiveConstants, RcvTypes, StreamInv, Used >= HeaderSize
    PROVE  /\ Len(extracted) + 1 \in 1..Len(sent) /\ FirstLength \in Nat \ {0}
           /\ \A i \in 1..FirstLength : i <= Used => Content[i] = <<Len(extracted) + 1, i>>
           /\ Rcv!IsValidPacketSize(Rcv!LengthField(Rcv!Peek(LengthSize))) <=> Rcv!IsValidPacketSize(FirstLength)
           /\ Rcv!IsValidPacketSize(FirstLength) => Rcv!LengthField(Rcv!Peek(LengthSize)) = FirstLength
<1>1. /\ Size \in Nat /\ HeaderSize \in Nat /\ LengthSize \in Nat /\ 0 < LengthSize /\ LengthSize <= HeaderSize
      /\ front \in 0..(Size - 1) /\ rear \in 0..(Size - 1) /\ MaxPacketSize \in Nat
  BY DEF ReceiveConstants, RcvTypes
<1>2. Used \in 0..(Size - 1) /\ Used \in Nat /\ Len(wire) \in Nat /\ Len(extracted) \in Nat
  BY ContentIs DEF RcvTypes
<1>3. LengthSize \in 0..Used /\ Used + Len(wire) > 0
  BY <1>1, <1>2
<1>4. Len(extracted) + 1 \in 1..Len(sent)
  BY <1>3, TakenFewer
<1>5. SomePackets(sent, Len(sent)) /\ Len(sent) \in Nat
  BY SentIs
<1>6. FirstLength \in Nat \ {0}
  BY <1>4, <1>5 DEF SomePackets, FirstLength
<1>7. Stream \in Seq(Nat \X Nat) /\ Len(Stream) = Used + Len(wire) + 1 /\ \A i \in 1..Used : Stream[i] = Content[i]
  BY StreamIs
<1>8. \A i \in 1..FirstLength : i <= Len(Stream) => Stream[i] = <<Len(extracted) + 1, i>>
  <2>1. Len(Stream) > 1
    BY <1>2, <1>3, <1>7
  <2>2. InOrder(Stream, sent, Len(extracted))
    BY DEF StreamInv
  <2>3. Stream \in Seq(Nat \X Nat)
    BY <1>7
  <2>4. PICK s, p, l, e : s = Stream /\ p = sent /\ l = Len(sent) /\ e = Len(extracted)
    OBVIOUS
  <2>5. s \in Seq(Nat \X Nat) /\ InOrder(s, p, e) /\ Len(s) > 1
    BY <2>1, <2>2, <2>3, <2>4
  <2>6. SomePackets(p, l) /\ l \in Nat /\ e \in Nat
    BY <1>2, <1>5, <2>4
  <2>7. \A i \in 1..p[e + 1].len : i <= Len(s) => s[i] = <<e + 1, i>>
    BY <2>5, <2>6, FirstPacket
  <2>8. QED
    BY <2>4, <2>7 DEF FirstLength
<1>9. \A i \in 1..FirstLength : i <= Used => Content[i] = <<Len(extracted) + 1, i>>
  <2>1. TAKE i \in 1..FirstLength
  <2>2. HAVE i <= Used
  <2>3. i <= Len(Stream) /\ i \in 1..Used
    BY <1>2, <1>6, <1>7, <2>2
  <2>4. QED
    BY <1>7, <1>8, <2>3
<1>10. PICK b : b = Rcv!Peek(LengthSize)
  OBVIOUS
<1>11. \A i \in 1..LengthSize : b[i] = Content[i]
  <2>1. b = [i \in 1..LengthSize |-> ring[PlaceOf(front, i)]]
    BY <1>1, <1>3, <1>10, PeekReads DEF RingBytes
  <2>2. \A i \in 1..LengthSize : i \in 1..Used
    BY <1>1, <1>2, <1>3
  <2>3. \A i \in 1..Used : Content[i] = ring[PlaceOf(front, i)]
    BY ContentIs
  <2>4. QED
    BY <2>1, <2>2, <2>3
<1>12. PICK k : k = Len(extracted) + 1
  OBVIOUS
<1>13. b[1] = <<k, 1>> /\ k \in DOMAIN sent /\ sent[k].len = FirstLength
  <2>1. 1 \in 1..LengthSize /\ 1 \in 1..FirstLength /\ 1 <= Used
    BY <1>1, <1>2, <1>3, <1>6
  <2>2. b[1] = <<k, 1>>
    BY <1>9, <1>11, <1>12, <2>1
  <2>3. QED
    BY <1>4, <1>5, <1>12, <2>2 DEF SomePackets, FirstLength
<1>14. b[1][1] = k
  BY <1>13
<1>15. PICK h : h = Rcv!LengthField(b)
  OBVIOUS
<1>16. h = IF \A i \in 1..LengthSize : b[i] = <<k, i>> THEN FirstLength ELSE 0
  BY <1>13, <1>14, <1>15 DEF Rcv!LengthField
<1>17. FirstLength >= LengthSize => \A i \in 1..LengthSize : b[i] = <<k, i>>
  <2>1. HAVE FirstLength >= LengthSize
  <2>2. \A i \in 1..LengthSize : i \in 1..FirstLength /\ i <= Used
    BY <1>1, <1>2, <1>3, <1>6, <2>1
  <2>3. QED
    BY <1>9, <1>11, <1>12, <2>2
<1>18. h = FirstLength \/ (h = 0 /\ FirstLength < LengthSize)
  BY <1>1, <1>6, <1>16, <1>17
<1>19. /\ Rcv!IsValidPacketSize(h) <=> Rcv!IsValidPacketSize(FirstLength)
       /\ Rcv!IsValidPacketSize(FirstLength) => h = FirstLength
  BY <1>1, <1>6, <1>18 DEF Rcv!IsValidPacketSize
<1>20. QED
  BY <1>4, <1>6, <1>9, <1>10, <1>15, <1>19

(* Steps that only move the program counter. *)
LEMMA ReceivePcStep ==
    ASSUME ReceiveInv, sent' = sent, wire' = wire, ring' = ring, front' = front, rear' = rear,
           loop' = loop, extracted' = extracted, handled' = handled,
           rcvPc' \in {"posted", "loop", "dropped"}, PostedInv', DroppedInv'
    PROVE  ReceiveInv'
<1>1. RcvTypes'
  BY DEF ReceiveInv, RcvTypes
<1>2. Stream' = Stream
  BY DEF Stream, Content, RingBytes, PlaceOf, Used
<1>3. StreamInv'
  BY <1>2 DEF StreamInv, ReceiveInv
<1>4. TakenInv' /\ HandledInv'
  BY DEF ReceiveInv, TakenInv, HandledInv, Rcv!Packet
<1>5. QED
  BY <1>1, <1>3, <1>4 DEF ReceiveInv

LEMMA ReceivedNothingStep ==
    ASSUME ReceiveConstants, ReceiveInv, Rcv!ReceivedNothing
    PROVE  ReceiveInv'
<1>1. RcvTypes /\ StreamInv /\ PostedInv
  BY DEF ReceiveInv
<1>2. /\ rcvPc = "posted" /\ Rcv!GetFreeSize = 0 /\ wire # <<>> /\ rcvPc' = "dropped"
      /\ sent' = sent /\ wire' = wire /\ ring' = ring /\ front' = front /\ rear' = rear
      /\ loop' = loop /\ extracted' = extracted /\ handled' = handled
  BY DEF Rcv!ReceivedNothing
<1>3. /\ Size \in Nat /\ HeaderSize \in Nat /\ front \in 0..(Size - 1) /\ rear \in 0..(Size - 1)
      /\ wire \in Seq(Bytes) /\ MaxPacketSize \in Nat
  BY <1>1 DEF ReceiveConstants, RcvTypes
<1>4. Rcv!GetFreeSize = (Size - 1) - Used /\ Used \in 0..(Size - 1)
  BY <1>3, RingSizes
<1>5. Used = Size - 1
  BY <1>2, <1>3, <1>4
<1>6. Len(wire) \in Nat /\ Len(wire) > 0
  BY <1>2, <1>3
<1>7. Len(extracted) + 1 \in 1..Len(sent) /\ Len(sent) \in Nat /\ Len(extracted) \in 0..Len(sent)
  BY <1>1, <1>4, <1>6, TakenFewer
<1>8. FirstLength \in Nat
  BY <1>1, <1>7, SentIs DEF SomePackets, FirstLength
<1>9. FirstLength >= Size \/ ~Rcv!IsValidPacketSize(FirstLength)
  BY <1>1, <1>2, <1>3, <1>5, <1>8 DEF PostedInv, Rcv!IsValidPacketSize
<1>10. Len(extracted) < Len(sent)
  BY <1>7
<1>11. FirstLength' = FirstLength
  BY <1>2 DEF FirstLength
<1>12. DroppedInv' /\ PostedInv'
  BY <1>2, <1>9, <1>10, <1>11 DEF DroppedInv, PostedInv, Rcv!IsValidPacketSize
<1>13. QED
  BY <1>2, <1>12, ReceivePcStep

LEMMA LoopAbortsStep ==
    ASSUME ReceiveConstants, ReceiveInv, Rcv!LoopAborts
    PROVE  ReceiveInv'
<1>1. RcvTypes /\ StreamInv
  BY DEF ReceiveInv
<1>2. /\ rcvPc' = "dropped"
      /\ sent' = sent /\ wire' = wire /\ ring' = ring /\ front' = front /\ rear' = rear
      /\ loop' = loop /\ extracted' = extracted /\ handled' = handled
  BY DEF Rcv!LoopAborts
<1>3. FirstLength' = FirstLength
  BY <1>2 DEF FirstLength
<1>4. \/ loop = MaxLoop
      \/ Len(extracted) < Len(sent) /\ ~Rcv!IsValidPacketSize(FirstLength)
  <2>1. CASE loop + 1 > MaxLoop
    <3>1. loop \in 0..MaxLoop /\ MaxLoop \in Nat
      BY <1>1 DEF RcvTypes, ReceiveConstants
    <3>2. QED
      BY <2>1, <3>1
  <2>2. CASE /\ Rcv!GetUseSize >= HeaderSize
             /\ ~Rcv!IsValidPacketSize(Rcv!LengthField(Rcv!Peek(LengthSize)))
    <3>1. front \in 0..(Size - 1) /\ rear \in 0..(Size - 1)
      BY <1>1 DEF RcvTypes
    <3>2. Used >= HeaderSize
      BY <2>2, <3>1, RingSizes
    <3>3. Len(extracted) + 1 \in 1..Len(sent) /\ ~Rcv!IsValidPacketSize(FirstLength)
      BY <1>1, <2>2, <3>2, HeaderRead
    <3>4. Len(extracted) \in 0..Len(sent) /\ Len(sent) \in Nat
      BY <1>1, TakenFewer
    <3>5. QED
      BY <3>3, <3>4
  <2>3. QED
    BY <2>1, <2>2 DEF Rcv!LoopAborts
<1>5. DroppedInv' /\ PostedInv'
  BY <1>2, <1>3, <1>4 DEF DroppedInv, PostedInv, Rcv!IsValidPacketSize
<1>6. QED
  BY <1>2, <1>5, ReceivePcStep

LEMMA LoopEndsStep ==
    ASSUME ReceiveConstants, ReceiveInv, Rcv!LoopEnds
    PROVE  ReceiveInv'
<1>1. RcvTypes /\ StreamInv
  BY DEF ReceiveInv
<1>2. /\ rcvPc' = "posted"
      /\ sent' = sent /\ wire' = wire /\ ring' = ring /\ front' = front /\ rear' = rear
      /\ loop' = loop /\ extracted' = extracted /\ handled' = handled
  BY DEF Rcv!LoopEnds
<1>3. FirstLength' = FirstLength /\ Used' = Used
  BY <1>2 DEF FirstLength, Used
<1>4. front \in 0..(Size - 1) /\ rear \in 0..(Size - 1) /\ HeaderSize \in Nat
  BY <1>1 DEF RcvTypes, ReceiveConstants
<1>5. Rcv!GetUseSize = Used /\ Used \in Nat
  <2>1. Size \in Nat
    BY DEF ReceiveConstants
  <2>2. QED
    BY <1>4, <2>1, RingSizes
<1>6. \/ Used < HeaderSize
      \/ Len(extracted) < Len(sent) /\ Rcv!IsValidPacketSize(FirstLength) /\ Used < FirstLength
  <2>1. CASE Used < HeaderSize
    BY <2>1
  <2>2. CASE Used >= HeaderSize
    <3>1. PICK h : h = Rcv!LengthField(Rcv!Peek(LengthSize))
      OBVIOUS
    <3>2. Rcv!IsValidPacketSize(h) /\ ~(Used >= h)
      BY <1>4, <1>5, <2>2, <3>1 DEF Rcv!LoopEnds, Rcv!Complete
    <3>3. /\ Len(extracted) + 1 \in 1..Len(sent) /\ Rcv!IsValidPacketSize(FirstLength)
          /\ h = FirstLength /\ FirstLength \in Nat
      BY <1>1, <2>2, <3>1, <3>2, HeaderRead
    <3>4. Len(extracted) \in 0..Len(sent) /\ Len(sent) \in Nat
      BY <1>1, TakenFewer
    <3>5. QED
      BY <1>5, <3>2, <3>3, <3>4
  <2>3. QED
    BY <1>4, <1>5, <2>1, <2>2
<1>7. DroppedInv' /\ PostedInv'
  BY <1>2, <1>3, <1>6 DEF DroppedInv, PostedInv, Rcv!IsValidPacketSize
<1>8. QED
  BY <1>2, <1>7, ReceivePcStep


(* The first n of c taken away from the whole. *)
Shortened(c, n, d) ==
    Len(d) = Len(c) - n /\ \A i \in 1..(Len(c) - n) : d[i] = c[n + i]

LEMMA TakeAway ==
    ASSUME NEW B, NEW c \in Seq(B), NEW w \in Seq(B), NEW x \in B, NEW n \in 0..Len(c),
           NEW d \in Seq(B), Shortened(c, n, d)
    PROVE  Append(d \o w, x) = SubSeq(Append(c \o w, x), n + 1, Len(c) + Len(w) + 1)
<1>1. PICK k \in Nat, l \in Nat : k = Len(c) /\ l = Len(w)
  BY LenProperties
<1>2. n \in 0..k /\ Len(d) = k - n /\ \A i \in 1..(k - n) : d[i] = c[n + i]
  BY <1>1 DEF Shortened
<1>3. PICK q, p : q = c \o w /\ p = d \o w
  OBVIOUS
<1>4. /\ q \in Seq(B) /\ Len(q) = k + l
      /\ \A i \in 1..(k + l) : q[i] = IF i <= k THEN c[i] ELSE w[i - k]
  BY <1>1, <1>3, ConcatProperties
<1>5. /\ p \in Seq(B) /\ Len(p) = (k - n) + l
      /\ \A i \in 1..((k - n) + l) : p[i] = IF i <= k - n THEN d[i] ELSE w[i - (k - n)]
  <2>1. p \in Seq(B) /\ Len(p) = Len(d) + Len(w)
        /\ \A i \in 1..(Len(d) + Len(w)) : p[i] = IF i <= Len(d) THEN d[i] ELSE w[i - Len(d)]
    BY <1>3, ConcatProperties
  <2>2. QED
    BY <1>1, <1>2, <2>1
<1>6. PICK m \in Nat : m = (k - n) + l
  BY <1>2
<1>7. ASSUME NEW i \in 1..m PROVE p[i] = q[n + i]
  <2>1. n + i \in 1..(k + l) /\ i \in 1..((k - n) + l)
    BY <1>2, <1>6
  <2>2. CASE i <= k - n
    <3>1. i \in 1..(k - n) /\ n + i <= k
      BY <1>2, <2>2
    <3>2. p[i] = d[i] /\ q[n + i] = c[n + i]
      BY <1>4, <1>5, <2>1, <2>2, <3>1
    <3>3. QED
      BY <1>2, <3>1, <3>2
  <2>3. CASE ~(i <= k - n)
    <3>1. ~(n + i <= k) /\ (n + i) - k = i - (k - n)
      BY <1>2, <2>3
    <3>2. p[i] = w[i - (k - n)] /\ q[n + i] = w[(n + i) - k]
      BY <1>4, <1>5, <2>1, <2>3, <3>1
    <3>3. QED
      BY <3>1, <3>2
  <2>4. QED
    BY <2>2, <2>3
<1>8. PICK s, t : s = Append(q, x) /\ t = Append(p, x)
  OBVIOUS
<1>9. /\ s \in Seq(B) /\ Len(s) = k + l + 1 /\ s[k + l + 1] = x
      /\ \A i \in 1..(k + l) : s[i] = q[i]
  BY <1>4, <1>8
<1>10. /\ t \in Seq(B) /\ Len(t) = m + 1 /\ t[m + 1] = x
       /\ \A i \in 1..m : t[i] = p[i]
  BY <1>5, <1>6, <1>8
<1>11. PICK r : r = SubSeq(s, n + 1, k + l + 1)
  OBVIOUS
<1>12. k + l + 1 = n + (m + 1) /\ k + l = n + m
  BY <1>2, <1>6
<1>13. r \in Seq(B) /\ Len(r) = m + 1 /\ \A i \in 1..(m + 1) : r[i] = s[n + i]
  BY <1>2, <1>9, <1>11, <1>12
<1>14. ASSUME NEW i \in 1..(m + 1) PROVE r[i] = t[i]
  <2>1. CASE i = m + 1
    BY <1>9, <1>10, <1>12, <1>13, <2>1
  <2>2. CASE i \in 1..m
    <3>1. n + i \in 1..(k + l) /\ i \in 1..(m + 1)
      BY <1>2, <1>12, <2>2
    <3>2. r[i] = q[n + i] /\ t[i] = p[i]
      BY <1>9, <1>10, <1>13, <2>2, <3>1
    <3>3. QED
      BY <1>7, <2>2, <3>2
  <2>3. QED
    BY <2>1, <2>2
<1>15. r = t
  BY <1>10, <1>13, <1>14
<1>16. QED
  BY <1>1, <1>3, <1>8, <1>11, <1>15

LEMMA TakePacketStep ==
    ASSUME ReceiveConstants, ReceiveInv, Rcv!TakePacket
    PROVE  ReceiveInv'
<1>1. RcvTypes /\ StreamInv /\ TakenInv /\ HandledInv
  BY DEF ReceiveInv
<1>2. /\ Size \in Nat /\ Size > 0 /\ front \in 0..(Size - 1) /\ rear \in 0..(Size - 1) /\ HeaderSize \in Nat
      /\ ring \in [0..(Size - 1) -> Bytes] /\ wire \in Seq(Bytes) /\ sent \in Seq(SentPackets)
      /\ extracted \in Seq(Seq(Bytes)) /\ handled \in Seq(Nat) /\ loop \in 0..MaxLoop /\ MaxLoop \in Nat
  BY <1>1 DEF RcvTypes, ReceiveConstants
<1>3. /\ Rcv!GetUseSize = Used /\ Used \in 0..(Size - 1)
  BY <1>2, RingSizes
<1>4. PICK n : n = Rcv!LengthField(Rcv!Peek(LengthSize))
  OBVIOUS
<1>5. /\ rcvPc = "loop" /\ loop + 1 <= MaxLoop /\ Used >= HeaderSize /\ Rcv!IsValidPacketSize(n) /\ Used >= n
      /\ extracted' = Append(extracted, Rcv!Peek(n)) /\ front' = (front + n) % Size
      /\ Rcv!OnPacketReceived(Rcv!Peek(n)[1][1]) /\ loop' = loop + 1
      /\ sent' = sent /\ wire' = wire /\ ring' = ring /\ rear' = rear /\ rcvPc' = rcvPc
  BY <1>3, <1>4 DEF Rcv!TakePacket, Rcv!Dequeue, Rcv!MoveFront, Rcv!Complete
<1>6. PICK e : e = Len(extracted)
  OBVIOUS
<1>7. /\ e + 1 \in 1..Len(sent) /\ n = FirstLength /\ n \in Nat \ {0}
      /\ \A i \in 1..n : i <= Used => Content[i] = <<e + 1, i>>
  BY <1>1, <1>4, <1>5, <1>6, HeaderRead
<1>8. e \in Nat /\ Len(sent) \in Nat
  BY <1>2, <1>6
<1>9. n \in 1..Used /\ n \in 0..Used /\ n \in 0..Size
  BY <1>2, <1>3, <1>5, <1>7
<1>10. front' = PlaceOf(front, n)
  BY <1>2, <1>5, <1>9, WrapAround DEF PlaceOf
<1>11. front' \in 0..(Size - 1) /\ Used' = Used - n
  BY <1>2, <1>3, <1>5, <1>9, <1>10 DEF PlaceOf, Used
<1>12. /\ Content \in Seq(Bytes) /\ Len(Content) = Used
       /\ \A i \in 1..Used : PlaceOf(front, i) \in 0..(Size - 1) /\ Content[i] = ring[PlaceOf(front, i)]
  BY <1>1, ContentIs
<1>13. PICK b : b = Rcv!Peek(n)
  OBVIOUS
<1>14. b = [i \in 1..n |-> ring[PlaceOf(front, i)]]
  BY <1>2, <1>9, <1>13, PeekReads DEF RingBytes
<1>15. \A i \in 1..n : i \in 1..Used /\ i <= Used
  BY <1>3, <1>9
<1>16. \A i \in 1..n : b[i] = <<e + 1, i>> /\ b[i] \in Bytes
  BY <1>2, <1>7, <1>12, <1>14, <1>15
<1>17. b \in Seq(Bytes)
  BY <1>7, <1>14, <1>16
<1>18. b = Rcv!Packet(e + 1) /\ b[1][1] = e + 1
  <2>1. sent[e + 1].len = n
    BY <1>6, <1>7 DEF FirstLength
  <2>2. Rcv!Packet(e + 1) = [i \in 1..n |-> <<e + 1, i>>]
    BY <2>1 DEF Rcv!Packet
  <2>3. b = [i \in 1..n |-> <<e + 1, i>>]
    BY <1>14, <1>16
  <2>4. 1 \in 1..n
    BY <1>7
  <2>5. b[1] = <<e + 1, 1>>
    BY <1>16, <2>4
  <2>6. QED
    BY <2>2, <2>3, <2>5
<1>19. /\ extracted' \in Seq(Seq(Bytes)) /\ Len(extracted') = e + 1 /\ extracted'[e + 1] = b
       /\ \A k \in 1..e : extracted'[k] = extracted[k]
  BY <1>2, <1>5, <1>6, <1>13, <1>17
<1>20. TakenInv'
  <2>1. \A k : Rcv!Packet(k)' = Rcv!Packet(k)
    BY <1>5 DEF Rcv!Packet
  <2>2. \A k \in 1..e : extracted'[k] = Rcv!Packet(k)
    BY <1>1, <1>6, <1>19 DEF TakenInv
  <2>3. \A k \in 1..(e + 1) : k \in 1..e \/ k = e + 1
    BY <1>8
  <2>4. QED
    BY <1>18, <1>19, <2>1, <2>2, <2>3 DEF TakenInv
<1>21. handled' = IF sent[e + 1].id \in Handled THEN Append(handled, e + 1) ELSE handled
  BY <1>5, <1>13, <1>18 DEF Rcv!OnPacketReceived, Rcv!Registered
<1>22. HandledInv' /\ handled' \in Seq(Nat)
  <2>1. PICK h, g, p : h = handled /\ g = handled' /\ p = sent
    OBVIOUS
  <2>2. h \in Seq(Nat) /\ Len(h) \in Nat
    BY <1>2, <2>1
  <2>3. /\ \A i \in 1..Len(h) : h[i] \in 1..e /\ p[h[i]].id \in Handled
        /\ \A k \in 1..e : p[k].id \in Handled => \E i \in 1..Len(h) : h[i] = k
        /\ \A i, j \in 1..Len(h) : i < j => h[i] < h[j]
    BY <1>1, <1>6, <2>1 DEF HandledInv
  <2>4. /\ g \in Seq(Nat)
        /\ \A i \in 1..Len(g) : g[i] \in 1..(e + 1) /\ p[g[i]].id \in Handled
        /\ \A k \in 1..(e + 1) : p[k].id \in Handled => \E i \in 1..Len(g) : g[i] = k
        /\ \A i, j \in 1..Len(g) : i < j => g[i] < g[j]
    <3>1. CASE p[e + 1].id \in Handled
      <4>1. g = Append(h, e + 1)
        BY <1>21, <2>1, <3>1
      <4>2. /\ g \in Seq(Nat) /\ Len(g) = Len(h) + 1 /\ g[Len(h) + 1] = e + 1
            /\ \A i \in 1..Len(h) : g[i] = h[i]
        BY <1>8, <2>2, <4>1
      <4>3. \A i \in 1..Len(g) : i \in 1..Len(h) \/ i = Len(h) + 1
        BY <2>2, <4>2
      <4>4. Len(h) + 1 \in 1..Len(g) /\ \A i \in 1..Len(h) : i \in 1..Len(g)
        BY <2>2, <4>2
      <4>5. \A i \in 1..Len(g) : g[i] \in 1..(e + 1) /\ p[g[i]].id \in Handled
        BY <1>8, <2>3, <3>1, <4>2, <4>3
      <4>6. \A k \in 1..(e + 1) : p[k].id \in Handled => \E i \in 1..Len(g) : g[i] = k
        <5>1. TAKE k \in 1..(e + 1)
        <5>2. HAVE p[k].id \in Handled
        <5>3. CASE k = e + 1
          BY <4>2, <4>4, <5>3
        <5>4. CASE k \in 1..e
          <6>1. PICK i \in 1..Len(h) : h[i] = k
            BY <2>3, <5>2, <5>4
          <6>2. QED
            BY <4>2, <4>4, <6>1
        <5>5. QED
          BY <1>8, <5>3, <5>4
      <4>7. \A i, j \in 1..Len(g) : i < j => g[i] < g[j]
        <5>1. TAKE i, j \in 1..Len(g)
        <5>2. HAVE i < j
        <5>3. i \in 1..Len(h)
          BY <2>2, <4>3, <5>2
        <5>4. g[i] = h[i] /\ h[i] \in 1..e
          BY <2>3, <4>2, <5>3
        <5>5. CASE j = Len(h) + 1
          BY <1>8, <4>2, <5>4, <5>5
        <5>6. CASE j \in 1..Len(h)
          BY <2>3, <4>2, <5>2, <5>3, <5>6
        <5>7. QED
          BY <4>3, <5>5, <5>6
      <4>8. QED
        BY <4>2, <4>5, <4>6, <4>7
    <3>2. CASE p[e + 1].id \notin Handled
      <4>1. g = h
        BY <1>21, <2>1, <3>2
      <4>2. \A k \in 1..(e + 1) : k \in 1..e \/ k = e + 1
        BY <1>8
      <4>3. \A k \in 1..e : k \in 1..(e + 1)
        BY <1>8
      <4>4. QED
        BY <2>2, <2>3, <3>2, <4>1, <4>2, <4>3
    <3>3. QED
      BY <3>1, <3>2
  <2>5. QED
    BY <1>5, <1>19, <2>1, <2>4 DEF HandledInv
<1>23. PICK c, d : c = Content /\ d = Content'
  OBVIOUS
<1>24. c \in Seq(Bytes) /\ Len(c) = Used
  BY <1>12, <1>23
<1>25. d = [i \in 1..(Used - n) |-> ring[PlaceOf(front', i)]]
  BY <1>5, <1>11, <1>23 DEF Content, RingBytes, PlaceOf
<1>26. \A i \in 1..(Used - n) : n + i \in 1..Used /\ PlaceOf(front', i) = PlaceOf(front, n + i)
  BY <1>2, <1>3, <1>9, <1>10 DEF PlaceOf
<1>27. \A i \in 1..(Used - n) : d[i] = c[n + i] /\ d[i] \in Bytes
  BY <1>2, <1>12, <1>23, <1>25, <1>26
<1>28. d \in Seq(Bytes) /\ Len(d) = Used - n
  <2>1. PICK m \in Nat : m = Used - n
    BY <1>3, <1>9
  <2>2. QED
    BY <1>25, <1>27, <2>1
<1>29. Shortened(c, n, d)
  BY <1>24, <1>27, <1>28 DEF Shortened
<1>30. PICK x : x = <<Len(sent) + 1, 1>>
  OBVIOUS
<1>31. x \in Bytes
  BY <1>8, <1>30 DEF Bytes
<1>32. PICK w : w = wire
  OBVIOUS
<1>33. w \in Seq(Bytes) /\ n \in 0..Len(c)
  BY <1>2, <1>9, <1>24, <1>32
<1>34. Append(d \o w, x) = SubSeq(Append(c \o w, x), n + 1, Len(c) + Len(w) + 1)
  <2>1. c \in Seq(Bytes) /\ d \in Seq(Bytes)
    BY <1>24, <1>28
  <2>2. QED
    BY <1>29, <1>31, <1>33, <2>1, TakeAway
<1>35. PICK s, t : s = Stream /\ t = Stream'
  OBVIOUS
<1>36. s = Append(c \o w, x) /\ t = Append(d \o w, x)
  BY <1>5, <1>23, <1>30, <1>32, <1>35 DEF Stream
<1>37. s \in Seq(Nat \X Nat) /\ Len(s) = Len(c) + Len(w) + 1
  BY <1>1, <1>24, <1>32, <1>35, StreamIs
<1>38. t = SubSeq(s, n + 1, Len(s))
  BY <1>34, <1>36, <1>37
<1>39. Len(s) > 1 /\ n < Len(s)
  <2>1. Len(w) \in Nat /\ Len(c) \in Nat /\ n \in 1..Len(c)
    BY <1>9, <1>24, <1>33
  <2>2. QED
    BY <1>37, <2>1
<1>40. InOrder(s, sent, e) /\ n = sent[e + 1].len
  BY <1>1, <1>6, <1>7, <1>35 DEF StreamInv, FirstLength
<1>41. SomePackets(sent, Len(sent))
  BY <1>1, SentIs
<1>42. InOrder(SubSeq(s, n + 1, Len(s)), sent, e + 1)
  <2>1. s \in Seq(Nat \X Nat) /\ n \in Nat
    BY <1>7, <1>37
  <2>2. QED
    BY <1>8, <1>39, <1>40, <1>41, <2>1, NextPacket
<1>43. StreamInv'
  BY <1>5, <1>19, <1>35, <1>38, <1>42 DEF StreamInv
<1>44. RcvTypes'
  <2>1. loop' \in 0..MaxLoop
    BY <1>2, <1>5
  <2>2. QED
    BY <1>1, <1>5, <1>11, <1>19, <1>22, <2>1 DEF RcvTypes
<1>45. PostedInv' /\ DroppedInv'
  BY <1>5 DEF PostedInv, DroppedInv
<1>46. QED
  BY <1>20, <1>22, <1>43, <1>44, <1>45 DEF ReceiveInv


LEMMA ReceivePreserves ==
    ASSUME ReceiveConstants, ReceiveInv, [Rcv!Next]_Rcv!vars
    PROVE  ReceiveInv'
<1>1. CASE \E len \in Lengths, id \in Ids : Rcv!PeerSends(len, id)
  BY <1>1, PeerSendsStep
<1>2. CASE \E n \in 1..Size : Rcv!Received(n)
  BY <1>2, ReceivedStep
<1>3. CASE Rcv!ReceivedNothing
  BY <1>3, ReceivedNothingStep
<1>4. CASE Rcv!LoopAborts
  BY <1>4, LoopAbortsStep
<1>5. CASE Rcv!LoopEnds
  BY <1>5, LoopEndsStep
<1>6. CASE Rcv!TakePacket
  BY <1>6, TakePacketStep
<1>7. CASE UNCHANGED Rcv!vars
  <2>1. /\ sent' = sent /\ wire' = wire /\ ring' = ring /\ front' = front /\ rear' = rear
        /\ loop' = loop /\ extracted' = extracted /\ handled' = handled /\ rcvPc' = rcvPc
    BY <1>7 DEF Rcv!vars
  <2>2. Used' = Used /\ FirstLength' = FirstLength
    BY <2>1 DEF Used, FirstLength
  <2>3. PostedInv' /\ DroppedInv' /\ rcvPc' \in {"posted", "loop", "dropped"}
    BY <2>1, <2>2 DEF ReceiveInv, RcvTypes, PostedInv, DroppedInv, Rcv!IsValidPacketSize
  <2>4. QED
    BY <2>1, <2>3, ReceivePcStep
<1>8. Rcv!Next => ReceiveInv'
  BY <1>1, <1>2, <1>3, <1>4, <1>5, <1>6, Zenon DEF Rcv!Next
<1>9. QED
  BY <1>7, <1>8

LEMMA ReceiveSafe ==
    ASSUME ReceiveConstants, ReceiveInv
    PROVE  Rcv!TypeOK /\ PacketsAsSent
<1>1. RcvTypes /\ StreamInv /\ TakenInv /\ HandledInv /\ DroppedInv
  BY DEF ReceiveInv
<1>2. SomePackets(sent, Len(sent)) /\ Len(sent) \in Nat /\ sent \in Seq(SentPackets)
  BY <1>1, SentIs DEF RcvTypes
<1>3. Rcv!TypeOK
  <2>1. \A k \in DOMAIN sent : sent[k].len \in Lengths /\ sent[k].id \in Ids
    <3>1. \A k \in DOMAIN sent : sent[k] \in SentPackets
      BY <1>2
    <3>2. QED
      BY <3>1 DEF SentPackets
  <2>2. QED
    BY <1>1, <2>1 DEF Rcv!TypeOK, RcvTypes
<1>4. Rcv!Rest = Stream
  <2>1. Rcv!GetUseSize = Used /\ Used \in 0..Used
    <3>1. front \in 0..(Size - 1) /\ rear \in 0..(Size - 1) /\ Size \in Nat
      BY <1>1 DEF RcvTypes, ReceiveConstants
    <3>2. QED
      BY <3>1, RingSizes
  <2>2. Rcv!Peek(Rcv!GetUseSize) = Content
    <3>1. front \in 0..(Size - 1) /\ rear \in 0..(Size - 1)
      BY <1>1 DEF RcvTypes
    <3>2. QED
      BY <2>1, <3>1, PeekReads DEF Content
  <2>3. PICK q, x : q = Content \o wire /\ x = <<Len(sent) + 1, 1>>
    OBVIOUS
  <2>4. Content \in Seq(Bytes) /\ wire \in Seq(Bytes) /\ x \in Bytes
    BY <1>1, <1>2, <2>3, ContentIs DEF RcvTypes, Bytes
  <2>5. q \in Seq(Bytes)
    BY <2>3, <2>4, ConcatProperties
  <2>6. Append(q, x) = q \o <<x>>
    BY <2>4, <2>5, AppendIsConcat
  <2>7. Rcv!Rest = q \o <<x>>
    BY <2>2, <2>3 DEF Rcv!Rest
  <2>8. QED
    BY <2>3, <2>6, <2>7 DEF Stream
<1>5. /\ Rcv!Rest[1] = <<Len(extracted) + 1, 1>>
      /\ \A i \in 1..(Len(Rcv!Rest) - 1) :
            Rcv!Rest[i][1] \in DOMAIN sent /\ Rcv!Rest[i + 1] = Rcv!NextByte(Rcv!Rest[i])
  <2>1. \A b : Rcv!NextByte(b) = Follows(sent, b)
    BY DEF Rcv!NextByte, Follows
  <2>2. QED
    BY <1>1, <1>4, <2>1 DEF StreamInv, InOrder
<1>6. extracted = [k \in 1..Len(extracted) |-> Rcv!Packet(k)]
  <2>1. PICK x : x = extracted
    OBVIOUS
  <2>2. x \in Seq(Seq(Bytes)) /\ \A k \in 1..Len(x) : x[k] = Rcv!Packet(k)
    BY <1>1, <2>1 DEF RcvTypes, TakenInv
  <2>3. x = [k \in 1..Len(x) |-> x[k]]
    BY <2>2
  <2>4. QED
    BY <2>1, <2>2, <2>3
<1>7. /\ Rcv!Range(handled) = {k \in 1..Len(extracted) : sent[k].id \in Handled}
      /\ \A i, j \in DOMAIN handled : i < j => handled[i] < handled[j]
  <2>1. DOMAIN handled = 1..Len(handled)
    BY <1>1 DEF RcvTypes
  <2>2. Rcv!Range(handled) = {handled[i] : i \in 1..Len(handled)}
    BY <2>1, Zenon DEF Rcv!Range
  <2>3. QED
    BY <1>1, <2>1, <2>2 DEF HandledInv
<1>8. rcvPc = "dropped" =>
          \/ loop = MaxLoop
          \/ Len(extracted) < Len(sent)
             /\ LET len == sent[Len(extracted) + 1].len IN len >= Size \/ ~Rcv!IsValidPacketSize(len)
  BY <1>1 DEF DroppedInv, FirstLength
<1>9. PacketsAsSent
  BY <1>5, <1>6, <1>7, <1>8 DEF PacketsAsSent, Rcv!PacketsAsSent
<1>10. QED
  BY <1>3, <1>9

(* However the stream is cut into receives and wherever packets lie across *)
(* the end of the ring, the packets taken out are those sent, byte for     *)
(* byte and in order, no byte is overwritten before it was read or read    *)
(* twice, and a session is dropped only for a reason (RingBuffer,          *)
(* HandleRecvComplete): for any ring and any positive lengths.             *)
THEOREM PacketsArriveAsSent ==
    ASSUME ReceiveConstants
    PROVE  Rcv!Spec => [](Rcv!TypeOK /\ PacketsAsSent)
<1>1. Rcv!Init => ReceiveInv
  BY ReceiveInit
<1>2. ReceiveInv /\ [Rcv!Next]_Rcv!vars => ReceiveInv'
  BY ReceivePreserves
<1>3. ReceiveInv => Rcv!TypeOK /\ PacketsAsSent
  BY ReceiveSafe
<1>4. QED
  BY <1>1, <1>2, <1>3, PTL DEF Rcv!Spec

-----------------------------------------------------------------------------
(***************************************************************************)
(* The programs together.                                                  *)
(***************************************************************************)

(* A step of Programs is a step of the part a behaviour is about and leaves *)
(* the variables of the others as they are.                                *)
LEMMA StepOfClient == [ProgramsNext]_programsVars => [Next]_vars
  BY Zenon DEF ProgramsNext, ClientStep, ReceiveStep, GameStep, StressStep, EventStep, FrameStep,
               programsVars, clientVars

LEMMA StepOfReceive == [ProgramsNext]_programsVars => [Rcv!Next]_Rcv!vars
  BY Zenon DEF ProgramsNext, ClientStep, ReceiveStep, GameStep, StressStep, EventStep, FrameStep,
               programsVars, receiveVars, Rcv!vars

LEMMA StepOfGame == [ProgramsNext]_programsVars => [Game!Next]_Game!vars
  BY Zenon DEF ProgramsNext, ClientStep, ReceiveStep, GameStep, StressStep, EventStep, FrameStep,
               programsVars, gameVars, Game!vars

LEMMA StepOfStress == [ProgramsNext]_programsVars => [Stress!Next]_Stress!vars
  BY Zenon DEF ProgramsNext, ClientStep, ReceiveStep, GameStep, StressStep, EventStep, FrameStep,
               programsVars, stressVars, Stress!vars

LEMMA StepOfEvent == [ProgramsNext]_programsVars => [Ev!Next]_Ev!vars
  BY Zenon DEF ProgramsNext, ClientStep, ReceiveStep, GameStep, StressStep, EventStep, FrameStep,
               programsVars, eventVars, Ev!vars

LEMMA StepOfFrame == [ProgramsNext]_programsVars => [Frame!Next]_Frame!vars
  BY Zenon DEF ProgramsNext, ClientStep, ReceiveStep, GameStep, StressStep, EventStep, FrameStep,
               programsVars, frameVars, Frame!vars

ProgramsConstants ==
    /\ ReceiveConstants /\ GameConstants /\ StressConstants
    /\ MaxSubscribes \in Nat /\ MaxInvokes \in Nat /\ MaxDepth \in Nat
    /\ Step \in Nat \ {0} /\ MaxTime \in Nat

ProgramsInv == ClientInv /\ ReceiveInv /\ GameInv /\ StressInv /\ EventInv /\ FrameInv

(* In every program built from these parts each part keeps its promises:   *)
(* the invariants above hold side by side, since no part touches another's *)
(* state (the members of Client, Session, GameThread, Event, the players   *)
(* and the stress client's users).                                         *)
THEOREM ProgramsKeepPromises ==
    ASSUME ProgramsConstants
    PROVE  ProgramsSpec => [](/\ TypesOK /\ EveryConnectionAccounted /\ NoLostSignal /\ PacketsAsSent
                              /\ ClientsSeeScene /\ EchoMatches /\ SubscribersCalledOnce
                              /\ FixedUpdatesKeepTime)
<1>1. ProgramsInit => ProgramsInv
  BY InitClient, ReceiveInit, GameInit, StressInit, EventInit, FrameInit, Zenon
     DEF ProgramsConstants, ProgramsInit, ProgramsInv
<1>2. ProgramsInv /\ [ProgramsNext]_programsVars => ProgramsInv'
  <2> SUFFICES ASSUME ProgramsInv, [ProgramsNext]_programsVars PROVE ProgramsInv'
    OBVIOUS
  <2>1. ClientInv'
    BY StepOfClient, ClientPreserves, Zenon DEF ProgramsInv
  <2>2. ReceiveInv'
    BY StepOfReceive, ReceivePreserves, Zenon DEF ProgramsInv, ProgramsConstants
  <2>3. GameInv'
    BY StepOfGame, GamePreserves, Zenon DEF ProgramsInv, ProgramsConstants
  <2>4. StressInv'
    BY StepOfStress, StressPreserves, Zenon DEF ProgramsInv, ProgramsConstants
  <2>5. EventInv'
    BY StepOfEvent, EventPreserves, Zenon DEF ProgramsInv, ProgramsConstants
  <2>6. FrameInv'
    BY StepOfFrame, FramePreserves, Zenon DEF ProgramsInv, ProgramsConstants
  <2> QED
    BY <2>1, <2>2, <2>3, <2>4, <2>5, <2>6, Zenon DEF ProgramsInv
<1>3. ASSUME ProgramsInv
      PROVE  /\ TypesOK /\ EveryConnectionAccounted /\ NoLostSignal /\ PacketsAsSent
             /\ ClientsSeeScene /\ EchoMatches /\ SubscribersCalledOnce
             /\ FixedUpdatesKeepTime
  <2>1. TypeOK /\ EveryConnectionAccounted /\ NoLostSignal
    BY <1>3, Zenon DEF ProgramsInv, ClientInv
  <2>2. Rcv!TypeOK /\ PacketsAsSent
    BY <1>3, ReceiveSafe, Zenon DEF ProgramsInv, ProgramsConstants
  <2>3. Game!TypeOK /\ ClientsSeeScene
    BY <1>3, GameSeen, Zenon DEF ProgramsInv, ProgramsConstants
  <2>4. Stress!TypeOK /\ EchoMatches
    BY <1>3, StressMatches, Zenon DEF ProgramsInv, ProgramsConstants
  <2>5. Ev!TypeOK /\ SubscribersCalledOnce
    BY <1>3, EventSeen, Zenon DEF ProgramsInv, ProgramsConstants
  <2>6. Frame!TypeOK /\ FixedUpdatesKeepTime
    BY <1>3, Zenon DEF ProgramsInv, FrameInv, FixedUpdatesKeepTime
  <2> QED
    BY <2>1, <2>2, <2>3, <2>4, <2>5, <2>6, Zenon DEF TypesOK
<1>4. QED
  BY <1>1, <1>2, <1>3, PTL DEF ProgramsSpec
=============================================================================
