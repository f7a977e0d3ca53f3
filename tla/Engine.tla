-------------------------------- MODULE Engine --------------------------------
(***************************************************************************)
(* What every program of the repository runs on: Server, Logger, LogFile,  *)
(* and of JunCommon LFStack, LFObjectPoolTLS, ThreadPool, RecursiveLock,   *)
(* OnceInitializer and TimeWindowCounter.  They share no state, so they    *)
(* are put side by side: `part' says which of them a behaviour is about,   *)
(* and the variables of the others keep their initial values.  Server is   *)
(* extended, the others are instantiated.                                  *)
(***************************************************************************)
EXTENDS Server

CONSTANTS Callers,                            \* threads that use the components
          Nodes, Null, Stamps,                \* LFStack
          Chunks, ChunkSize,                  \* LFObjectPoolTLS
          Slots, Batch, MaxMessages, NoMsg,   \* Logger
          MaxFileSize, Lengths, MaxTime, MaxTotal,           \* LogFile
          PoolWorkers, Releases, MaxJobs,     \* ThreadPool
          Lockers, Nobody, MaxDepth,          \* RecursiveLock, OnceInitializer
          Overlap, MaxInits,
          Samples, Second, MaxWindowTime, MaxRecords         \* TimeWindowCounter

VARIABLES part,
          top, next, stackMade, nodeCount, useCount, capacity, op, stackPc, copy, peek, stackMine, age,
          pool, poolMade, tls, allocIndex, freeIndex, live, poolPc, hand,
          writeIndex, readIndex, text, valid, shouldStop, fileOpen, logPc, slot, msg, lpc, done, stopPc,
          logCalls, accepted, written,
          now, size, logFile, currentFileSize, total,
          jobQueue, semaphore, stopped, qStopped, spc, job, wpc, jobCur, mpc, released, calls, entered, ran,
          owner, readers, threadId, lockCount, lockPc, depth,
          state, refs, up, oncePc, onceStarts,
          winNow, samples, writePos, lastUpdate, at, winPc, left

stackVars == <<top, next, stackMade, nodeCount, useCount, capacity, op, stackPc, copy, peek, stackMine, age>>
poolVars == <<pool, poolMade, tls, allocIndex, freeIndex, live, poolPc, hand>>
logVars == <<writeIndex, readIndex, text, valid, shouldStop, fileOpen, logPc, slot, msg, lpc, done, stopPc,
             logCalls, accepted, written>>
fileVars == <<now, size, logFile, currentFileSize, total>>
jobVars == <<jobQueue, semaphore, stopped, qStopped, spc, job, wpc, jobCur, mpc, released, calls, entered, ran>>
lockVars == <<owner, readers, threadId, lockCount, lockPc, depth>>
onceVars == <<state, refs, up, oncePc, onceStarts>>
serverVars == vars
windowVars == <<winNow, samples, writePos, lastUpdate, at, winPc, left>>
engineVars ==
    <<part, stackVars, poolVars, logVars, fileVars, jobVars, lockVars, onceVars, serverVars, windowVars>>

Stack == INSTANCE LFStack WITH
    Threads <- Callers, made <- stackMade, pc <- stackPc, mine <- stackMine
Pool == INSTANCE LFObjectPoolTLS WITH
    Threads <- Callers, made <- poolMade, pc <- poolPc
Log == INSTANCE Logger WITH
    Threads <- Callers, pc <- logPc, w <- slot, mpc <- stopPc, calls <- logCalls
File == INSTANCE LogFile
Job == INSTANCE ThreadPool WITH
    Submitters <- Callers, Workers <- PoolWorkers, queue <- jobQueue, cur <- jobCur
RLock == INSTANCE RecursiveLock WITH
    Threads <- Lockers, pc <- lockPc
Once == INSTANCE OnceInitializer WITH
    Threads <- Lockers, MaxStarts <- MaxInits, pc <- oncePc, starts <- onceStarts
Window == INSTANCE TimeWindowCounter WITH
    MaxTime <- MaxWindowTime, now <- winNow, pc <- winPc

Parts == {"stack", "pool", "log", "file", "job", "lock", "once", "server", "window"}

EngineInit ==
    /\ part \in Parts
    /\ Stack!Init /\ Pool!Init /\ Log!Init /\ File!Init /\ Job!Init /\ RLock!Init /\ Once!Init /\ Init
    /\ Window!Init

StackStep ==
    /\ part = "stack" /\ Stack!Next
    /\ UNCHANGED <<part, poolVars, logVars, fileVars, jobVars, lockVars, onceVars, serverVars, windowVars>>

PoolStep ==
    /\ part = "pool" /\ Pool!Next
    /\ UNCHANGED <<part, stackVars, logVars, fileVars, jobVars, lockVars, onceVars, serverVars, windowVars>>

LogStep ==
    /\ part = "log" /\ Log!Next
    /\ UNCHANGED <<part, stackVars, poolVars, fileVars, jobVars, lockVars, onceVars, serverVars, windowVars>>

FileStep ==
    /\ part = "file" /\ File!Next
    /\ UNCHANGED <<part, stackVars, poolVars, logVars, jobVars, lockVars, onceVars, serverVars, windowVars>>

JobStep ==
    /\ part = "job" /\ Job!Next
    /\ UNCHANGED <<part, stackVars, poolVars, logVars, fileVars, lockVars, onceVars, serverVars, windowVars>>

LockStep ==
    /\ part = "lock" /\ RLock!Next
    /\ UNCHANGED <<part, stackVars, poolVars, logVars, fileVars, jobVars, onceVars, serverVars, windowVars>>

OnceStep ==
    /\ part = "once" /\ Once!Next
    /\ UNCHANGED <<part, stackVars, poolVars, logVars, fileVars, jobVars, lockVars, serverVars, windowVars>>

ServerStep ==
    /\ part = "server" /\ Next
    /\ UNCHANGED <<part, stackVars, poolVars, logVars, fileVars, jobVars, lockVars, onceVars, windowVars>>

WindowStep ==
    /\ part = "window" /\ Window!Next
    /\ UNCHANGED <<part, stackVars, poolVars, logVars, fileVars, jobVars, lockVars, onceVars, serverVars>>

EngineNext ==
    \/ StackStep \/ PoolStep \/ LogStep \/ FileStep \/ JobStep \/ LockStep \/ OnceStep \/ ServerStep
    \/ WindowStep

(* The fairness of each part's own specification, for that part. *)
EngineFairness ==
    /\ WF_logVars(part = "log" /\ Log!ThreadStep) /\ WF_logVars(part = "log" /\ Log!CloseFile)
    /\ \A t \in Callers : WF_logVars(part = "log" /\ (Log!Fill(t) \/ Log!Publish(t)))
    /\ \A s \in Callers : WF_jobVars(part = "job" /\ Job!SubmitStep(s))
    /\ \A k \in PoolWorkers : WF_jobVars(part = "job" /\ Job!WorkStep(k))
    /\ WF_jobVars(part = "job" /\ Job!StopStep)
    /\ \A t \in Lockers : WF_onceVars(part = "once" /\ (Once!InitStep(t) \/ Once!CleanStep(t)))
    /\ WF_serverVars(part = "server" /\ MainStep)
    /\ \A t \in Threads : WF_serverVars(part = "server" /\ PostStep(t))
    /\ \A v \in Workers : WF_serverVars(part = "server" /\ WorkerStep(v))
    /\ \A s \in Sessions : WF_serverVars(part = "server" /\ AcceptAborts(s))

EngineSpec == EngineInit /\ [][EngineNext]_engineVars /\ EngineFairness

-----------------------------------------------------------------------------
(* Every component's variables have their types (the members declared in   *)
(* the class definitions).                                                 *)
TypesOK ==
    /\ Stack!TypeOK /\ Pool!TypeOK /\ Log!TypeOK /\ File!TypeOK
    /\ Job!TypeOK /\ RLock!TypeOK /\ Once!TypeOK /\ TypeOK /\ Window!TypeOK

(* The stamped lists lose no node and hand none out twice, and the counts  *)
(* agree when nobody is at work (LFStack, LFObjectPool).                   *)
NodesConserved == Stack!NodesConserved

(* A chunk goes back to the chunk pool once, when its last object is freed *)
(* by whichever thread (LFObjectPoolTLS::Free).                            *)
ChunksRecycledOnce == Pool!ChunksRecycledOnce

(* The asynchronous logger writes exactly the accepted messages, in the    *)
(* order of their slots, and its files keep every byte (LogAsync,          *)
(* LoggerThreadFunc, OpenNewLogFile).                                      *)
LogKeepsMessages == Log!FileHasAcceptedInOrder /\ File!FilesKeepBytes

(* A job in the queue has its token in the semaphore (JobQueue).           *)
TokenPerJob == Job!TokenPerJob

(* The lock names its owner, and nobody is told that the resource is ready *)
(* before it is (RecursiveLock, OnceInitializer).                          *)
OwnersHold == RLock!OwnerIsNamed /\ Once!HoldersHaveResource

(* A record is counted once, in the windows it belongs to (record,         *)
(* advance_time_window, get_average).                                      *)
WindowCounts == Window!WindowCounts

(* The logger thread writes what was accepted and stops when told, the     *)
(* pool runs what was submitted and joins, Initialize returns, a stopped   *)
(* server's accepts come to an end and the workers' Shutdown returns.      *)
EngineProgress ==
    Log!LoggerProgress /\ Job!PoolProgress /\ Once!InitializeReturns /\ ServerProgress
=============================================================================
