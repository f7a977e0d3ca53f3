------------------------------- MODULE Programs -------------------------------
(***************************************************************************)
(* The two ends of a connection, Client and Receive, the game logic's      *)
(* GameThread and Event, and the programs GameServer and StressClient.     *)
(* Each has its own state; they are put side by side: `part' says which of *)
(* them a behaviour is about, and the variables of the others keep their   *)
(* initial values.  Client is extended, the others are instantiated.       *)
(***************************************************************************)
EXTENDS Client

CONSTANTS Size, HeaderSize, LengthSize, MaxPacketSize, MaxLoop, Lengths, Ids, Handled, MaxPackets, \* Receive
          Players, Points, Asks, MaxMoves,                 \* GameServer
          Slots, Users, Null, Cleaning, MaxSends, Gap,     \* StressClient
          MaxSubscribes, MaxInvokes, MaxDepth,             \* Event
          Scenes, Step, MaxTime, MaxFrames                 \* GameThread

VARIABLES part,
          sent, wire, ring, front, rear, rcvPc, loop, extracted, handled,
          conn, currentSessions, nextPlayerId, playerId, player, alive, queue, objects,
          pos, dest, arrived, known, told, moves,
          testRunning, cleared, slot, disc, sentMessages, st, flight, workerPc, mine, found, sends,
          handlers, nextId, tokens, stack, subscribes, invokes,
          clock, threadRunning, lastFrameTime, accum, scenes, framePc, todo, time,
          steps, frames, halted, fixed, updates

clientVars == vars
receiveVars == <<sent, wire, ring, front, rear, rcvPc, loop, extracted, handled>>
gameVars == <<conn, currentSessions, nextPlayerId, playerId, player, alive, queue, objects,
              pos, dest, arrived, known, told, moves>>
stressVars == <<testRunning, cleared, slot, disc, sentMessages, st, flight, workerPc, mine, found, sends>>
eventVars == <<handlers, nextId, tokens, stack, subscribes, invokes>>
frameVars == <<clock, threadRunning, lastFrameTime, accum, scenes, framePc, todo, time,
               steps, frames, halted, fixed, updates>>
programsVars == <<part, clientVars, receiveVars, gameVars, stressVars, eventVars, frameVars>>

Rcv == INSTANCE Receive WITH pc <- rcvPc
Game == INSTANCE GameServer WITH Users <- Players
Stress == INSTANCE StressClient WITH sent <- sentMessages, pc <- workerPc
Ev == INSTANCE Event
Frame == INSTANCE GameThread WITH running <- threadRunning, pc <- framePc

ProgramsInit ==
    /\ part \in {"client", "receive", "game", "stress", "event", "frame"}
    /\ Init /\ Rcv!Init /\ Game!Init /\ Stress!Init /\ Ev!Init /\ Frame!Init

ClientStep ==
    /\ part = "client" /\ Next
    /\ UNCHANGED <<part, receiveVars, gameVars, stressVars, eventVars, frameVars>>

ReceiveStep ==
    /\ part = "receive" /\ Rcv!Next
    /\ UNCHANGED <<part, clientVars, gameVars, stressVars, eventVars, frameVars>>

GameStep ==
    /\ part = "game" /\ Game!Next
    /\ UNCHANGED <<part, clientVars, receiveVars, stressVars, eventVars, frameVars>>

StressStep ==
    /\ part = "stress" /\ Stress!Next
    /\ UNCHANGED <<part, clientVars, receiveVars, gameVars, eventVars, frameVars>>

EventStep ==
    /\ part = "event" /\ Ev!Next
    /\ UNCHANGED <<part, clientVars, receiveVars, gameVars, stressVars, frameVars>>

FrameStep ==
    /\ part = "frame" /\ Frame!Next
    /\ UNCHANGED <<part, clientVars, receiveVars, gameVars, stressVars, eventVars>>

ProgramsNext == ClientStep \/ ReceiveStep \/ GameStep \/ StressStep \/ EventStep \/ FrameStep

(* The fairness of each part's own specification, for that part. *)
ClientFairness ==
    /\ WF_clientVars(part = "client" /\ MainStep) /\ WF_clientVars(part = "client" /\ ReconnectStep)
    /\ WF_clientVars(part = "client" /\ OnUserDisconnect) /\ WF_clientVars(part = "client" /\ TriggerReconnect)
    /\ WF_clientVars(part = "client" /\ TriggerSignal)
    /\ WF_clientVars(part = "client" /\ (ConnectSucceeds \/ ConnectFails))

ReceiveFairness ==
    /\ WF_receiveVars(part = "receive" /\ \E n \in 1..Size : Rcv!Received(n))
    /\ WF_receiveVars(part = "receive" /\ (Rcv!ReceivedNothing \/ Rcv!LoopAborts \/ Rcv!LoopEnds \/ Rcv!TakePacket))

GameFairness ==
    /\ \A u \in Players : WF_gameVars(part = "game" /\ Game!RunJob(u))
    /\ WF_gameVars(part = "game" /\ Game!FixedUpdate)

StressFairness ==
    /\ \A i \in Slots : WF_stressVars(part = "stress" /\ Stress!WorkerStep(i))
    /\ \A u \in Users :
          /\ WF_stressVars(part = "stress" /\ Stress!OnConnectComplete(u))
          /\ WF_stressVars(part = "stress" /\ Stress!CleanUp(u))
          /\ SF_stressVars(part = "stress" /\ Stress!StartCleaning(u))
    /\ WF_stressVars(part = "stress" /\ Stress!JoinWorkers)

FrameFairness == WF_frameVars(part = "frame" /\ Frame!Run)

ProgramsSpec ==
    /\ ProgramsInit /\ [][ProgramsNext]_programsVars
    /\ ClientFairness /\ ReceiveFairness /\ GameFairness /\ StressFairness /\ FrameFairness

-----------------------------------------------------------------------------
(* Every component's variables have their types (the members declared in   *)
(* the class definitions).                                                 *)
TypesOK == TypeOK /\ Rcv!TypeOK /\ Game!TypeOK /\ Stress!TypeOK /\ Ev!TypeOK /\ Frame!TypeOK

(* The packets taken from the ring buffer are those sent, in order, and a  *)
(* session is dropped only for a reason (HandleRecvComplete).              *)
PacketsAsSent == Rcv!PacketsAsSent

(* Every client in the scene knows who is there and where those who have   *)
(* stopped stand (Player::OnEnter, OnExit, MoveComponent).                 *)
ClientsSeeScene == Game!ClientsSeeScene

(* A connection's slot holds the messages whose echo is to come, and none  *)
(* of an earlier connection's (StressClient::HandleEchoResponse).          *)
EchoMatches == Stress!EchoMatches

(* An Invoke calls each handler that stays subscribed once, whatever the   *)
(* handlers do (Event::Invoke, Subscription).                              *)
SubscribersCalledOnce == Ev!SubscribersCalledOnce

(* Fixed steps keep up with the time, and every scene gets each of them    *)
(* (GameThread::Run).                                                      *)
FixedUpdatesKeepTime == Frame!FixedUpdatesKeepTime

(* Lost connections come back and StopClient returns; packets sent are     *)
(* taken out; players settle; the stress client's connections find their   *)
(* slots and its test ends; a stopped game thread leaves its loop.         *)
ProgramsProgress ==
    /\ ConnectionsComeBack /\ StopClientReturns
    /\ Rcv!PacketsArrive /\ Game!PlayersSettle /\ Stress!StressProgress /\ Frame!StopEnds
=============================================================================
