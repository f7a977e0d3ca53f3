----------------------------- MODULE ThreadPool ------------------------------
(***************************************************************************)
(* JobQueue.h: JobQueue, a lock-free queue with a semaphore that counts    *)
(* its jobs, and ThreadPool, workers that take jobs from it until          *)
(* Shutdown.  LFQueue's operations are atomic here (module LFQueue).       *)
(***************************************************************************)
EXTENDS Naturals, Sequences, FiniteSets

CONSTANTS Submitters, Workers,
          Releases,         \* tokens JobQueue::Shutdown releases (100)
          MaxJobs           \* bound: calls of Submit

VARIABLES queue, semaphore,
          stopped, qStopped,     \* isShutdown of the pool and of its queue
          spc, job,              \* submitters and the job each submits
          wpc, cur,              \* workers and the job each runs
          mpc, released,         \* the caller of Shutdown
          calls,
          entered, ran           \* jobs enqueued and jobs finished, as sets

vars == <<queue, semaphore, stopped, qStopped, spc, job, wpc, cur, mpc, released, calls, entered, ran>>
submitVars == <<spc, job, calls, entered>>
workVars == <<wpc, cur, ran>>
stopVars == <<stopped, qStopped, mpc, released>>

NoJob == 0
Jobs == 1..MaxJobs

Init ==
    /\ queue = <<>> /\ semaphore = 0 /\ stopped = FALSE /\ qStopped = FALSE
    /\ spc = [s \in Submitters |-> "idle"] /\ job = [s \in Submitters |-> NoJob]
    /\ wpc = [k \in Workers |-> "check"] /\ cur = [k \in Workers |-> NoJob]
    /\ mpc = "idle" /\ released = 0 /\ calls = 0 /\ entered = {} /\ ran = {}

SubmitTo(s, from, to) == spc[s] = from /\ spc' = [spc EXCEPT ![s] = to]
WorkTo(k, from, to) == wpc[k] = from /\ wpc' = [wpc EXCEPT ![k] = to]

----------------------------------------------------------------------------
(* Submit: both flags are tested before the job is queued. *)
Submit(s) ==
    /\ calls < MaxJobs
    /\ SubmitTo(s, "idle", IF stopped THEN "idle" ELSE "test")
    /\ calls' = calls + 1
    /\ job' = [job EXCEPT ![s] = calls + 1]
    /\ UNCHANGED <<queue, semaphore, entered>> /\ UNCHANGED <<workVars, stopVars>>

EnqueueTest(s) ==
    /\ SubmitTo(s, "test", IF qStopped THEN "idle" ELSE "enqueue")
    /\ UNCHANGED <<job, calls, entered, queue, semaphore>> /\ UNCHANGED <<workVars, stopVars>>

Enqueue(s) ==
    /\ SubmitTo(s, "enqueue", "release")
    /\ queue' = Append(queue, job[s])
    /\ entered' = entered \cup {job[s]}
    /\ UNCHANGED <<job, calls, semaphore>> /\ UNCHANGED <<workVars, stopVars>>

ReleaseAsFlag(s) ==     \* an event in place of the semaphore
    /\ SubmitTo(s, "release", "idle")
    /\ semaphore' = 1
    /\ UNCHANGED <<job, calls, entered, queue>> /\ UNCHANGED <<workVars, stopVars>>

Release(s) ==
    /\ SubmitTo(s, "release", "idle")
    /\ semaphore' = semaphore + 1
    /\ UNCHANGED <<job, calls, entered, queue>> /\ UNCHANGED <<workVars, stopVars>>

----------------------------------------------------------------------------
WorkerCheck(k) ==
    /\ WorkTo(k, "check", IF stopped THEN "exited" ELSE "test")
    /\ UNCHANGED <<cur, ran, queue, semaphore>> /\ UNCHANGED <<submitVars, stopVars>>

DequeueTest(k) ==
    /\ WorkTo(k, "test", IF qStopped THEN "check" ELSE "wait")
    /\ UNCHANGED <<cur, ran, queue, semaphore>> /\ UNCHANGED <<submitVars, stopVars>>

Wait(k) ==
    /\ semaphore > 0
    /\ WorkTo(k, "wait", "retest")
    /\ semaphore' = semaphore - 1
    /\ UNCHANGED <<cur, ran, queue>> /\ UNCHANGED <<submitVars, stopVars>>

(* WaitForSingleObject times out only when there is no token.              *)
WaitTimeout(k) ==
    /\ semaphore = 0
    /\ WorkTo(k, "wait", "check")
    /\ UNCHANGED <<cur, ran, queue, semaphore>> /\ UNCHANGED <<submitVars, stopVars>>

(* After Shutdown the token is given up and the job stays in the queue.    *)
DequeueRetest(k) ==
    /\ WorkTo(k, "retest", IF qStopped THEN "check" ELSE "take")
    /\ UNCHANGED <<cur, ran, queue, semaphore>> /\ UNCHANGED <<submitVars, stopVars>>

Take(k) ==
    /\ WorkTo(k, "take", IF queue = <<>> THEN "check" ELSE "run")
    /\ queue # <<>> => cur' = [cur EXCEPT ![k] = Head(queue)] /\ queue' = Tail(queue)
    /\ queue = <<>> => UNCHANGED <<cur, queue>>
    /\ UNCHANGED <<ran, semaphore>> /\ UNCHANGED <<submitVars, stopVars>>

(* The job runs; what it throws is eaten.                                  *)
Run(k) ==
    /\ WorkTo(k, "run", "check")
    /\ ran' = ran \cup {cur[k]}
    /\ cur' = [cur EXCEPT ![k] = NoJob]
    /\ UNCHANGED <<queue, semaphore>> /\ UNCHANGED <<submitVars, stopVars>>

----------------------------------------------------------------------------
(* ThreadPool::Shutdown sets its flag; a later call returns at once.       *)
Shutdown ==
    /\ mpc = "idle"
    /\ stopped' = TRUE /\ mpc' = "queue"
    /\ UNCHANGED <<qStopped, released, queue, semaphore>> /\ UNCHANGED <<submitVars, workVars>>

QueueShutdown ==
    /\ mpc = "queue"
    /\ qStopped' = TRUE /\ mpc' = "wake"
    /\ UNCHANGED <<stopped, released, queue, semaphore>> /\ UNCHANGED <<submitVars, workVars>>

WakeAll ==
    /\ mpc = "wake" /\ released < Releases
    /\ semaphore' = semaphore + 1 /\ released' = released + 1
    /\ UNCHANGED <<stopped, qStopped, mpc, queue>> /\ UNCHANGED <<submitVars, workVars>>

Join ==
    /\ mpc = "wake" /\ released = Releases /\ \A k \in Workers : wpc[k] = "exited"
    /\ mpc' = "returned"
    /\ UNCHANGED <<stopped, qStopped, released, queue, semaphore>> /\ UNCHANGED <<submitVars, workVars>>

SubmitStep(s) == EnqueueTest(s) \/ Enqueue(s) \/ Release(s)
WorkStep(k) == WorkerCheck(k) \/ DequeueTest(k) \/ Wait(k) \/ WaitTimeout(k)
               \/ DequeueRetest(k) \/ Take(k) \/ Run(k)
StopStep == QueueShutdown \/ WakeAll \/ Join

Next ==
    \/ \E s \in Submitters : Submit(s) \/ SubmitStep(s)
    \/ \E k \in Workers : WorkStep(k)
    \/ Shutdown \/ StopStep

Fairness ==
    /\ \A s \in Submitters : WF_vars(SubmitStep(s))
    /\ \A k \in Workers : WF_vars(WorkStep(k))
    /\ WF_vars(StopStep)

Spec == Init /\ [][Next]_vars /\ Fairness

----------------------------------------------------------------------------
TypeOK ==
    /\ queue \in Seq(Jobs) /\ semaphore \in 0..(MaxJobs + Releases)
    /\ stopped \in BOOLEAN /\ qStopped \in BOOLEAN /\ calls \in 0..MaxJobs
    /\ spc \in [Submitters -> {"idle", "test", "enqueue", "release"}]
    /\ job \in [Submitters -> Jobs \cup {NoJob}]
    /\ wpc \in [Workers -> {"check", "test", "wait", "retest", "take", "run", "exited"}]
    /\ cur \in [Workers -> Jobs \cup {NoJob}]
    /\ mpc \in {"idle", "queue", "wake", "returned"} /\ released \in 0..Releases

(* Until the queue is shut down there is a token for every job: in the     *)
(* semaphore, with a worker on its way to the queue, or about to be        *)
(* released.  So no Dequeue comes for nothing and no job is left without   *)
(* anyone to be woken for it; a job is never with two workers.             *)
TokenPerJob ==
    /\ ~qStopped => Len(queue) = semaphore + Cardinality({k \in Workers : wpc[k] \in {"retest", "take"}})
                                 + Cardinality({s \in Submitters : spc[s] = "release"})
    /\ \A j, k \in Workers : j # k /\ cur[j] # NoJob => cur[j] # cur[k]
    /\ \A k \in Workers : cur[k] \notin ran

(* The workers catch up again and again, so that every accepted job runs   *)
(* unless the pool is shut down, and Shutdown returns although submitters  *)
(* and workers are anywhere in their code.                                 *)
PoolProgress ==
    /\ []<>(entered \subseteq ran \/ stopped)
    /\ mpc = "queue" ~> mpc = "returned"
=============================================================================
