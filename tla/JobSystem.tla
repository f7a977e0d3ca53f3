------------------------------ MODULE JobSystem ------------------------------
(***************************************************************************)
(* The job system: JunCore/logic/JobObject.cpp and JobThread.cpp.          *)
(*                                                                         *)
(* A JobObject (a player, a monster, the object manager) owns a queue of   *)
(* jobs that any thread may post to.  The object itself is scheduled on    *)
(* one JobThread by putting it in that thread's queue of objects; the      *)
(* thread flushes it: runs its jobs one after another.  The atomic flag    *)
(* m_processing decides who may schedule the object.  A job may move its   *)
(* object to another thread (SetJobThread) or mark it for deletion         *)
(* (MarkForDelete); the thread that flushed a marked object deletes it.    *)
(*                                                                         *)
(* Each step below is one access to shared memory.  Both queues are        *)
(* LFQueues, taken here as atomic FIFO queues.  A job is an opaque         *)
(* std::function: its body may post jobs to any live object, move its own  *)
(* object and mark it, in any order, before it returns.                    *)
(***************************************************************************)
EXTENDS Naturals, Sequences, FiniteSets

CONSTANTS Objects,      \* JobObjects
          JobThreads,   \* JobThread and GameThread instances
          Posters,      \* other threads that call PostJob (IOCP workers, main)
          None,         \* nullptr
          MaxJobs       \* bound: jobs one caller posts to one object

ASSUME ConstantsAssumption ==
    /\ None \notin Objects
    /\ None \notin JobThreads
    /\ Posters \cap JobThreads = {}
    /\ MaxJobs \in Nat

Callers == Posters \cup JobThreads

(* A job is identified by who posted it and the how-manyth it is from      *)
(* that caller to that object.                                             *)
Job == Callers \X (1..MaxJobs)

VARIABLES
    (* JobObject members *)
    jobQ,        \* m_jobQueue
    processing,  \* m_processing
    marked,      \* m_markedForDelete
    jobThread,   \* m_pJobThread
    freed,       \* the destructor has run and the memory was returned
    (* JobThread members *)
    threadQ,     \* m_jobObjectQueue
    running,     \* m_running
    (* the worker of a JobThread: where it is, and its locals *)
    tpc, tobj, told, tjob, last,
    (* a caller inside PostJob *)
    ppc, pobj,
    (* history, per object and caller: jobs enqueued, last job completed *)
    sent, ran

objVars    == <<jobQ, processing, marked, jobThread, freed>>
threadVars == <<threadQ, running, tpc, tobj, told, tjob, last>>
postVars   == <<ppc, pobj>>
vars       == <<objVars, threadVars, postVars, sent, ran>>

(***************************************************************************)
(* Program points of a worker.  "stopped": no worker (before Start, after  *)
(* Run returned).  "check": the loop condition of Run.  "poll": Dequeue in *)
(* ProcessJobObjects.  "flush" to "handoff": inside Flush.  "reap": the    *)
(* IsMarkedForDelete test after Flush.  "delete": the delete expression.   *)
(* "fault": the thread has touched a deleted object; what it does from     *)
(* there is undefined, and the model lets it do nothing more.              *)
(***************************************************************************)
FlushPcs  == {"flush", "fetch", "job", "after", "release", "recount", "recas",
              "handoff"}
ThreadPcs == FlushPcs \cup {"stopped", "check", "poll", "reap", "delete",
                            "fault"}
PostPcs   == {"idle", "enqueue", "cas", "schedule", "fault"}

(* Program points whose next step reads or writes the object in hand.      *)
ThreadDerefs == (FlushPcs \ {"job"}) \cup {"reap", "delete"}
PostDerefs   == {"enqueue", "cas", "schedule"}

TypeOK ==
    /\ jobQ \in [Objects -> Seq(Job)]
    /\ processing \in [Objects -> BOOLEAN]
    /\ marked \in [Objects -> BOOLEAN]
    /\ jobThread \in [Objects -> JobThreads]
    /\ freed \in [Objects -> BOOLEAN]
    /\ threadQ \in [JobThreads -> Seq(Objects)]
    /\ running \in [JobThreads -> BOOLEAN]
    /\ tpc \in [JobThreads -> ThreadPcs]
    /\ tobj \in [JobThreads -> Objects \cup {None}]
    /\ told \in [JobThreads -> JobThreads \cup {None}]
    /\ tjob \in [JobThreads -> Job \cup {None}]
    /\ last \in [JobThreads -> BOOLEAN]
    /\ ppc \in [Callers -> PostPcs]
    /\ pobj \in [Callers -> Objects \cup {None}]
    /\ sent \in [Objects -> [Callers -> 0..MaxJobs]]
    /\ ran \in [Objects -> [Callers -> 0..MaxJobs]]

(* Objects are constructed with a thread (JobObject(JobThread* )), no job  *)
(* and no token; threads are constructed stopped.                          *)
Init ==
    /\ jobQ = [o \in Objects |-> <<>>]
    /\ processing = [o \in Objects |-> FALSE]
    /\ marked = [o \in Objects |-> FALSE]
    /\ jobThread \in [Objects -> JobThreads]
    /\ freed = [o \in Objects |-> FALSE]
    /\ threadQ = [t \in JobThreads |-> <<>>]
    /\ running = [t \in JobThreads |-> FALSE]
    /\ tpc = [t \in JobThreads |-> "stopped"]
    /\ tobj = [t \in JobThreads |-> None]
    /\ told = [t \in JobThreads |-> None]
    /\ tjob = [t \in JobThreads |-> None]
    /\ last = [t \in JobThreads |-> FALSE]
    /\ ppc = [p \in Callers |-> "idle"]
    /\ pobj = [p \in Callers |-> None]
    /\ sent = [o \in Objects |-> [p \in Callers |-> 0]]
    /\ ran = [o \in Objects |-> [p \in Callers |-> 0]]

-----------------------------------------------------------------------------
(* PostJob, in four steps.  A caller holds a valid pointer when it enters; *)
(* a call that finds the mark returns false and changes nothing.           *)

PostJob(p, o) ==
    /\ ppc[p] = "idle"
    /\ ~freed[o]
    /\ ~marked[o]
    /\ sent[o][p] < MaxJobs
    /\ ppc' = [ppc EXCEPT ![p] = "enqueue"]
    /\ pobj' = [pobj EXCEPT ![p] = o]
    /\ UNCHANGED <<objVars, threadVars, sent, ran>>

(* m_jobQueue.Enqueue(job) *)
PostEnqueue(p) ==
    LET o == pobj[p] IN
    /\ ppc[p] = "enqueue"
    /\ ~freed[o]
    /\ jobQ' = [jobQ EXCEPT ![o] = Append(@, <<p, sent[o][p] + 1>>)]
    /\ sent' = [sent EXCEPT ![o][p] = @ + 1]
    /\ ppc' = [ppc EXCEPT ![p] = "cas"]
    /\ UNCHANGED <<processing, marked, jobThread, freed, threadVars, pobj, ran>>

(* Mutant: a plain store of m_processing in place of the compare-exchange. *)
PostCasAsStore(p) ==
    /\ ppc[p] = "cas"
    /\ ~freed[pobj[p]]
    /\ processing' = [processing EXCEPT ![pobj[p]] = TRUE]
    /\ ppc' = [ppc EXCEPT ![p] = "schedule"]
    /\ UNCHANGED <<jobQ, marked, jobThread, freed, threadVars, pobj, sent, ran>>

(* compare_exchange_strong(false, true) on m_processing: the winner goes   *)
(* on to schedule the object, the others return.                           *)
PostCas(p) ==
    LET o == pobj[p] IN
    /\ ppc[p] = "cas"
    /\ ~freed[o]
    /\ processing' = [processing EXCEPT ![o] = TRUE]
    /\ \/ /\ processing[o]
          /\ ppc' = [ppc EXCEPT ![p] = "idle"]
          /\ pobj' = [pobj EXCEPT ![p] = None]
       \/ /\ ~processing[o]
          /\ ppc' = [ppc EXCEPT ![p] = "schedule"]
          /\ UNCHANGED pobj
    /\ UNCHANGED <<jobQ, marked, jobThread, freed, threadVars, sent, ran>>

(* m_pJobThread->GetJobQueue()->Enqueue(this) *)
PostSchedule(p) ==
    LET o == pobj[p] IN
    /\ ppc[p] = "schedule"
    /\ ~freed[o]
    /\ threadQ' = [threadQ EXCEPT ![jobThread[o]] = Append(@, o)]
    /\ ppc' = [ppc EXCEPT ![p] = "idle"]
    /\ pobj' = [pobj EXCEPT ![p] = None]
    /\ UNCHANGED <<objVars, running, tpc, tobj, told, tjob, last, sent, ran>>

(* The object was deleted under the caller. *)
PostFault(p) ==
    /\ ppc[p] \in PostDerefs
    /\ freed[pobj[p]]
    /\ ppc' = [ppc EXCEPT ![p] = "fault"]
    /\ UNCHANGED <<objVars, threadVars, pobj, sent, ran>>

PostStep(p) == \/ PostEnqueue(p) \/ PostCas(p) \/ PostSchedule(p) \/ PostFault(p)

-----------------------------------------------------------------------------
(* Start and Stop, called by the thread that owns the JobThread.  Stop     *)
(* joins the worker, so the owner calls Start again only once the worker   *)
(* has returned.                                                           *)

Start(t) ==
    /\ ~running[t]
    /\ tpc[t] = "stopped"
    /\ running' = [running EXCEPT ![t] = TRUE]
    /\ tpc' = [tpc EXCEPT ![t] = "check"]
    /\ UNCHANGED <<objVars, threadQ, tobj, told, tjob, last, postVars, sent, ran>>

Stop(t) ==
    /\ running[t]
    /\ running' = [running EXCEPT ![t] = FALSE]
    /\ UNCHANGED <<objVars, threadQ, tpc, tobj, told, tjob, last, postVars, sent, ran>>

(* Mutant: the loop of Run never looks at m_running. *)
RunCheckForever(t) ==
    /\ tpc[t] = "check"
    /\ tpc' = [tpc EXCEPT ![t] = "poll"]
    /\ UNCHANGED <<objVars, threadQ, running, tobj, told, tjob, last, postVars, sent, ran>>

(* The loop condition of Run.  Once m_running is false the worker calls    *)
(* ProcessJobObjects one last time.                                        *)
RunCheck(t) ==
    /\ tpc[t] = "check"
    /\ last' = [last EXCEPT ![t] = ~running[t]]
    /\ tpc' = [tpc EXCEPT ![t] = "poll"]
    /\ UNCHANGED <<objVars, threadQ, running, tobj, told, tjob, postVars, sent, ran>>

(* Dequeue in ProcessJobObjects. *)
Poll(t) ==
    /\ tpc[t] = "poll"
    /\ \/ /\ threadQ[t] # <<>>
          /\ tobj' = [tobj EXCEPT ![t] = Head(threadQ[t])]
          /\ threadQ' = [threadQ EXCEPT ![t] = Tail(@)]
          /\ tpc' = [tpc EXCEPT ![t] = "flush"]
          /\ UNCHANGED last
       \/ /\ threadQ[t] = <<>>
          /\ tpc' = [tpc EXCEPT ![t] = IF last[t] THEN "stopped" ELSE "check"]
          /\ last' = [last EXCEPT ![t] = FALSE]
          /\ UNCHANGED <<tobj, threadQ>>
    /\ UNCHANGED <<objVars, running, told, tjob, postVars, sent, ran>>

-----------------------------------------------------------------------------
(* Flush *)

Goto(t, pc) == tpc' = [tpc EXCEPT ![t] = pc]

(* A worker at pc, with a live object in hand. *)
At(t, pc) == tpc[t] = pc /\ ~freed[tobj[t]]

FlushEnter(t) ==
    /\ At(t, "flush")
    /\ \/ /\ marked[tobj[t]]
          /\ Goto(t, "reap")
          /\ UNCHANGED told
       \/ /\ ~marked[tobj[t]]
          /\ Goto(t, "fetch")
          /\ told' = [told EXCEPT ![t] = jobThread[tobj[t]]]
    /\ UNCHANGED <<objVars, threadQ, running, tobj, tjob, last, postVars, sent, ran>>

(* Dequeue on m_jobQueue; the job it yields is called at once. *)
FlushFetch(t) ==
    LET o == tobj[t] IN
    /\ At(t, "fetch")
    /\ \/ /\ jobQ[o] # <<>>
          /\ jobQ' = [jobQ EXCEPT ![o] = Tail(@)]
          /\ tjob' = [tjob EXCEPT ![t] = Head(jobQ[o])]
          /\ Goto(t, "job")
       \/ /\ jobQ[o] = <<>>
          /\ Goto(t, "release")
          /\ UNCHANGED <<jobQ, tjob>>
    /\ UNCHANGED <<processing, marked, jobThread, freed, threadQ, running, tobj,
                   told, last, postVars, sent, ran>>

(* Mutants: Flush without the test of the mark, and without the test of    *)
(* the thread, after a job.                                                *)
FlushAfterIgnoringMark(t) ==
    /\ At(t, "after")
    /\ Goto(t, IF jobThread[tobj[t]] # told[t] THEN "handoff" ELSE "fetch")
    /\ UNCHANGED <<objVars, threadQ, running, tobj, told, tjob, last, postVars, sent, ran>>

FlushAfterIgnoringMove(t) ==
    /\ At(t, "after")
    /\ Goto(t, IF marked[tobj[t]] THEN "reap" ELSE "fetch")
    /\ UNCHANGED <<objVars, threadQ, running, tobj, told, tjob, last, postVars, sent, ran>>

(* After a job: return if it marked the object, hand the object over if it *)
(* changed the object's thread, else take the next job.                    *)
FlushAfter(t) ==
    LET o == tobj[t] IN
    /\ At(t, "after")
    /\ Goto(t, IF marked[o] THEN "reap"
               ELSE IF jobThread[o] # told[t] THEN "handoff" ELSE "fetch")
    /\ UNCHANGED <<objVars, threadQ, running, tobj, told, tjob, last, postVars, sent, ran>>

FlushRelease(t) ==
    /\ At(t, "release")
    /\ processing' = [processing EXCEPT ![tobj[t]] = FALSE]
    /\ Goto(t, "recount")
    /\ UNCHANGED <<jobQ, marked, jobThread, freed, threadQ, running, tobj, told,
                   tjob, last, postVars, sent, ran>>

(* Mutant: Flush without the lost wakeup guard. *)
FlushRecountSkipped(t) ==
    /\ At(t, "recount")
    /\ Goto(t, "reap")
    /\ UNCHANGED <<objVars, threadQ, running, tobj, told, tjob, last, postVars, sent, ran>>

(* Lost wakeup guard: GetUseCount() > 0, then a CAS of its own. *)
FlushRecount(t) ==
    /\ At(t, "recount")
    /\ Goto(t, IF jobQ[tobj[t]] # <<>> THEN "recas" ELSE "reap")
    /\ UNCHANGED <<objVars, threadQ, running, tobj, told, tjob, last, postVars, sent, ran>>

FlushRecas(t) ==
    LET o == tobj[t] IN
    /\ At(t, "recas")
    /\ processing' = [processing EXCEPT ![o] = TRUE]
    /\ Goto(t, IF processing[o] THEN "reap" ELSE "handoff")
    /\ UNCHANGED <<jobQ, marked, jobThread, freed, threadQ, running, tobj, told,
                   tjob, last, postVars, sent, ran>>

(* Mutant: the return after the hand-over is missing, the loop goes on. *)
FlushHandoffGoesOn(t) ==
    /\ At(t, "handoff")
    /\ threadQ' = [threadQ EXCEPT ![jobThread[tobj[t]]] = Append(@, tobj[t])]
    /\ Goto(t, "fetch")
    /\ UNCHANGED <<objVars, running, tobj, told, tjob, last, postVars, sent, ran>>

(* m_pJobThread->GetJobQueue()->Enqueue(this), from either place in Flush. *)
FlushHandoff(t) ==
    LET o == tobj[t] IN
    /\ At(t, "handoff")
    /\ threadQ' = [threadQ EXCEPT ![jobThread[o]] = Append(@, o)]
    /\ Goto(t, "reap")
    /\ UNCHANGED <<objVars, running, tobj, told, tjob, last, postVars, sent, ran>>

-----------------------------------------------------------------------------
(* ProcessJobObjects after Flush: IsMarkedForDelete, then delete.  The     *)
(* destructor drops the jobs that are left.                                *)

Reap(t) ==
    /\ At(t, "reap")
    /\ told' = [told EXCEPT ![t] = None]
    /\ \/ /\ marked[tobj[t]]
          /\ Goto(t, "delete")
          /\ UNCHANGED tobj
       \/ /\ ~marked[tobj[t]]
          /\ Goto(t, "poll")
          /\ tobj' = [tobj EXCEPT ![t] = None]
    /\ UNCHANGED <<objVars, threadQ, running, tjob, last, postVars, sent, ran>>

Delete(t) ==
    LET o == tobj[t] IN
    /\ At(t, "delete")
    /\ freed' = [freed EXCEPT ![o] = TRUE]
    /\ jobQ' = [jobQ EXCEPT ![o] = <<>>]
    /\ Goto(t, "poll")
    /\ tobj' = [tobj EXCEPT ![t] = None]
    /\ UNCHANGED <<processing, marked, jobThread, threadQ, running, told, tjob,
                   last, postVars, sent, ran>>

ThreadFault(t) ==
    /\ tpc[t] \in ThreadDerefs
    /\ freed[tobj[t]]
    /\ Goto(t, "fault")
    /\ UNCHANGED <<objVars, threadQ, running, tobj, told, tjob, last, postVars, sent, ran>>

-----------------------------------------------------------------------------
(* What a job may do while it runs.  Posting is PostJob and PostStep with  *)
(* the worker as the caller.                                               *)

InJob(t) == At(t, "job") /\ ppc[t] = "idle"

(* Mutant: SetJobThread lets a null thread through. *)
SetJobThreadNull(t, new) ==
    /\ InJob(t)
    /\ jobThread' = [jobThread EXCEPT ![tobj[t]] = None]
    /\ UNCHANGED <<jobQ, processing, marked, freed, threadVars, postVars, sent, ran>>

(* SetJobThread: the first job of GameObject::MoveToScene. *)
SetJobThread(t, new) ==
    /\ InJob(t)
    /\ jobThread' = [jobThread EXCEPT ![tobj[t]] = new]
    /\ UNCHANGED <<jobQ, processing, marked, freed, threadVars, postVars, sent, ran>>

(* MarkForDelete: the end of the job GameObject::Destroy posts. *)
MarkForDelete(t) ==
    /\ InJob(t)
    /\ marked' = [marked EXCEPT ![tobj[t]] = TRUE]
    /\ UNCHANGED <<jobQ, processing, jobThread, freed, threadVars, postVars, sent, ran>>

JobReturn(t) ==
    /\ tpc[t] = "job"
    /\ ppc[t] = "idle"
    /\ Goto(t, "after")
    /\ ran' = [ran EXCEPT ![tobj[t]][tjob[t][1]] = tjob[t][2]]
    /\ tjob' = [tjob EXCEPT ![t] = None]
    /\ UNCHANGED <<objVars, threadQ, running, tobj, told, last, postVars, sent>>

-----------------------------------------------------------------------------
(* The steps a worker takes by itself. *)
ThreadStep(t) ==
    \/ RunCheck(t) \/ Poll(t)
    \/ FlushEnter(t) \/ FlushFetch(t) \/ FlushAfter(t) \/ FlushRelease(t)
    \/ FlushRecount(t) \/ FlushRecas(t) \/ FlushHandoff(t)
    \/ Reap(t) \/ Delete(t) \/ ThreadFault(t)

JobBody(t) ==
    \/ \E new \in JobThreads : SetJobThread(t, new)
    \/ MarkForDelete(t)
    \/ \E o \in Objects : InJob(t) /\ PostJob(t, o)

Next ==
    \/ \E p \in Posters, o \in Objects : PostJob(p, o)
    \/ \E p \in Callers : PostStep(p)
    \/ \E t \in JobThreads :
          Start(t) \/ Stop(t) \/ ThreadStep(t) \/ JobBody(t) \/ JobReturn(t)

Spec == Init /\ [][Next]_vars

(* Fairness: the operating system runs every thread that can run, and a    *)
(* job's body returns.  Nothing obliges anyone to post, start or stop.     *)
Fairness ==
    /\ \A p \in Callers : WF_vars(PostStep(p))
    /\ \A t \in JobThreads : WF_vars(ThreadStep(t)) /\ WF_vars(JobReturn(t))

FairSpec == Spec /\ Fairness

-----------------------------------------------------------------------------
(* Who may act for an object.  m_processing is TRUE while somebody holds   *)
(* the object's token: a caller about to schedule it, the thread queue it  *)
(* lies in, or the worker that flushes it.                                 *)

TokenPcs == {"flush", "fetch", "job", "after", "release", "handoff"}

CallerHolds(p, o) == ppc[p] = "schedule" /\ pobj[p] = o
WorkerHolds(t, o) == tpc[t] \in TokenPcs /\ tobj[t] = o

QueuedSomewhere(o) == \E t \in JobThreads : \E i \in DOMAIN threadQ[t] : threadQ[t][i] = o
HeldByWorker(o)    == \E t \in JobThreads : WorkerHolds(t, o)
HeldByCaller(o)    == \E p \in Callers : CallerHolds(p, o)
HasToken(o) == QueuedSomewhere(o) \/ HeldByWorker(o) \/ HeldByCaller(o)

(* The CAS on m_processing (PostJob, and the lost wakeup guard of Flush)   *)
(* never lets two parties schedule the same object: an object is in at     *)
(* most one place of one thread queue, or in the hands of one worker, or   *)
(* of one caller, and then m_processing is set.                            *)
OneToken ==
    \A o \in Objects :
       /\ HasToken(o) => processing[o]
       /\ \A s, t \in JobThreads : \A i \in DOMAIN threadQ[s], j \in DOMAIN threadQ[t] :
             threadQ[s][i] = o /\ threadQ[t][j] = o => s = t /\ i = j
       /\ \A s, t \in JobThreads : WorkerHolds(s, o) /\ WorkerHolds(t, o) => s = t
       /\ \A p, q \in Callers : CallerHolds(p, o) /\ CallerHolds(q, o) => p = q
       /\ ~(QueuedSomewhere(o) /\ HeldByWorker(o))
       /\ ~(QueuedSomewhere(o) /\ HeldByCaller(o))
       /\ ~(HeldByWorker(o) /\ HeldByCaller(o))

(* m_pJobThread is a plain pointer that jobs overwrite.  Still, an object  *)
(* waits only in the queue of its current thread, and a worker takes jobs  *)
(* from it (and later releases it) only while it is that thread: after a   *)
(* move the remaining jobs run on the new thread.                          *)
ThreadAffinity ==
    /\ \A t \in JobThreads : \A i \in DOMAIN threadQ[t] : jobThread[threadQ[t][i]] = t
    /\ \A t \in JobThreads :
          tpc[t] \in {"flush", "fetch", "release", "recount", "recas"}
             => jobThread[tobj[t]] = t

(* The race between PostJob's failed CAS and Flush's release of the flag:  *)
(* an unmarked object with jobs in its queue is scheduled, or somebody is  *)
(* still on the way to the CAS that schedules it.                          *)
NoLostWakeup ==
    \A o \in Objects :
       jobQ[o] # <<>> /\ ~marked[o] =>
          \/ HasToken(o)
          \/ \E p \in Callers : ppc[p] = "cas" /\ pobj[p] = o
          \/ \E t \in JobThreads : tpc[t] \in {"recount", "recas"} /\ tobj[t] = o

(* Once a job has marked its object no other job of it starts, and Flush   *)
(* never clears m_processing again, so nobody can reschedule it.           *)
MarkFreezes ==
    \A t \in JobThreads :
       tpc[t] \in {"fetch", "release", "recount", "recas"} => ~marked[tobj[t]]

(* The worker that deletes a marked object, and every worker that still    *)
(* has it in hand after Flush, touches live memory only.                   *)
WorkersTouchLiveObjects ==
    \A t \in JobThreads : tpc[t] \in ThreadDerefs => ~freed[tobj[t]]

(* If from some time on every JobThread keeps running, they catch up again *)
(* and again: every job that was enqueued is completed, unless its object  *)
(* is marked for deletion.  And Stop joins the worker: once m_running is   *)
(* false the worker leaves Run after its last ProcessJobObjects.           *)
JobProgress ==
    /\ <>[](\A t \in JobThreads : running[t]) =>
          []<>(\A o \in Objects : marked[o] \/ ran[o] = sent[o])
    /\ \A t \in JobThreads : ~running[t] ~> tpc[t] \in {"stopped", "fault"}

-----------------------------------------------------------------------------
(* The job system implements Actor: m_jobQueue is the mailbox,             *)
(* m_pJobThread the home, and the object is active on the worker that is   *)
(* inside one of its jobs.                                                 *)

ActiveOn(o) ==
    IF \E t \in JobThreads : tpc[t] = "job" /\ tobj[t] = o
    THEN CHOOSE t \in JobThreads : tpc[t] = "job" /\ tobj[t] = o
    ELSE None

ActorView == INSTANCE Actor WITH
    Threads <- JobThreads, Jobs <- Job, Nobody <- None,
    mailbox <- jobQ, home <- jobThread,
    active <- [o \in Objects |-> ActiveOn(o)],
    condemned <- marked

(* Every behaviour of PostJob, Flush and ProcessJobObjects, seen through   *)
(* this mapping, is a behaviour of Actor: jobs of one object never         *)
(* overlap, start in queue order on the object's thread, and none starts   *)
(* after the mark.                                                         *)
ImplementsActor == ActorView!Spec
=============================================================================
