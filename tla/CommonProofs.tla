----------------------------- MODULE CommonProofs -----------------------------
(***************************************************************************)
(* What the concurrent helpers of JunCommon promise for any number of      *)
(* threads: RecursiveLock, OnceInitializer, ThreadPool with its JobQueue,  *)
(* LFObjectPoolTLS, and TimeWindowCounter for any window.  They are parts  *)
(* of Engine and share nothing; each has its inductive invariant and its   *)
(* theorem.                                                                *)
(***************************************************************************)
EXTENDS Engine, Integers, SequenceTheorems, FiniteSetTheorems, TLAPS

-----------------------------------------------------------------------------
(***************************************************************************)
(* RecursiveLock.                                                          *)
(***************************************************************************)

(* Where a thread is decides what lockCount is, and a thread that is       *)
(* anywhere between Acquire and Release owns the SRW lock.                 *)
Inside(t) == depth[t] > 0 \/ lockPc[t] \in {"count", "sign", "uncount", "release"}

LockInv ==
    /\ RLock!TypeOK
    /\ owner # Nobody => readers = {} /\ Inside(owner)
    /\ owner = Nobody => lockCount = 0 /\ threadId = Nobody
    /\ \A t \in Lockers :
          /\ Inside(t) => owner = t
          /\ depth[t] > 0 => lockPc[t] = "idle" /\ threadId = t /\ lockCount = depth[t]
          /\ depth[t] = 0 => threadId # t
          /\ lockPc[t] \in {"count", "release"} => lockCount = 0
          /\ lockPc[t] \in {"sign", "uncount"} => lockCount = 1

LEMMA LockInit ==
    ASSUME Nobody \notin Lockers, MaxDepth \in Nat \ {0}, RLock!Init
    PROVE  LockInv
BY DEF RLock!Init, LockInv, RLock!TypeOK, Inside

LEMMA LockPreserves ==
    ASSUME Nobody \notin Lockers, MaxDepth \in Nat \ {0}, LockInv, [RLock!Next]_RLock!vars
    PROVE  LockInv'
<1> USE DEF LockInv, RLock!TypeOK, Inside, RLock!To
<1>1. ASSUME NEW t \in Lockers, RLock!Lock(t) PROVE LockInv'
  BY <1>1 DEF RLock!Lock
<1>2. ASSUME NEW t \in Lockers, RLock!Acquire(t) PROVE LockInv'
  BY <1>2 DEF RLock!Acquire
<1>3. ASSUME NEW t \in Lockers, RLock!LockCount(t) PROVE LockInv'
  BY <1>3 DEF RLock!LockCount
<1>4. ASSUME NEW t \in Lockers, RLock!LockSign(t) PROVE LockInv'
  BY <1>4 DEF RLock!LockSign
<1>5. ASSUME NEW t \in Lockers, RLock!Unlock(t) PROVE LockInv'
  BY <1>5 DEF RLock!Unlock
<1>6. ASSUME NEW t \in Lockers, RLock!UnlockCount(t) PROVE LockInv'
  BY <1>6 DEF RLock!UnlockCount
<1>7. ASSUME NEW t \in Lockers, RLock!Release(t) PROVE LockInv'
  BY <1>7 DEF RLock!Release
<1>8. ASSUME NEW t \in Lockers, RLock!SharedLock(t) PROVE LockInv'
  BY <1>8 DEF RLock!SharedLock
<1>9. ASSUME NEW t \in Lockers, RLock!ReleaseSharedLock(t) PROVE LockInv'
  BY <1>9 DEF RLock!ReleaseSharedLock
<1>10. CASE UNCHANGED RLock!vars
  BY <1>10 DEF RLock!vars
<1> QED
  BY <1>1, <1>2, <1>3, <1>4, <1>5, <1>6, <1>7, <1>8, <1>9, <1>10
     DEF RLock!Next, RLock!LockStep, RLock!UnlockStep

(* A thread inside the lock is alone there and named, and its depth is the *)
(* count, although every other thread reads thread_id without a lock       *)
(* (RecursiveLock::Lock, Unlock), for any threads and any nesting.         *)
THEOREM LockNamesOwner ==
    ASSUME Nobody \notin Lockers, MaxDepth \in Nat \ {0}
    PROVE  RLock!Spec => [](RLock!TypeOK /\ RLock!OwnerIsNamed)
<1>1. RLock!Init => LockInv
  BY LockInit
<1>2. LockInv /\ [RLock!Next]_RLock!vars => LockInv'
  BY LockPreserves
<1>3. LockInv => RLock!TypeOK /\ RLock!OwnerIsNamed
  BY DEF LockInv, RLock!TypeOK, RLock!OwnerIsNamed, Inside
<1> QED
  BY <1>1, <1>2, <1>3, PTL DEF RLock!Spec

-----------------------------------------------------------------------------
(***************************************************************************)
(* OnceInitializer, where no Initialize runs during the last Cleanup.      *)
(***************************************************************************)
LEMMA CardinalityPlus ==
    ASSUME NEW S, IsFiniteSet(S), NEW x, x \notin S
    PROVE  Cardinality(S \cup {x}) = Cardinality(S) + 1
BY FS_AddElement

LEMMA CardinalityMinus ==
    ASSUME NEW S, IsFiniteSet(S), NEW x \in S
    PROVE  Cardinality(S \ {x}) = Cardinality(S) - 1 /\ Cardinality(S) \in Nat \ {0}
BY FS_RemoveElement, FS_CardinalityType, FS_EmptySet

LEMMA AtMostOne ==
    ASSUME NEW S, \A x, y \in S : x = y
    PROVE  IsFiniteSet(S) /\ Cardinality(S) <= 1
<1>1. CASE S = {}
  BY <1>1, FS_EmptySet
<1>2. CASE S # {}
  <2>1. PICK x : S = {x}
    BY <1>2
  <2>2. IsFiniteSet(S) /\ Cardinality(S) = 1
    BY <2>1, FS_Singleton, Zenon
  <2> QED
    BY <2>2
<1> QED
  BY <1>1, <1>2

(* The instance's Cardinality is the one the lemmas are about. *)
LEMMA SameCardinality ==
    ASSUME NEW S
    PROVE  Once!Cardinality(S) = Cardinality(S)
BY Zenon DEF Once!Cardinality, Cardinality

(* The callers whose reference is counted. *)
Counted == {t \in Lockers : oncePc[t] \notin {"out", "cleanup", "reset"}}
Inits(t) == oncePc[t] \in {"init", "done", "failed"}
Cleans(t) == oncePc[t] \in {"cleanup", "reset"}

OnceTypes ==
    /\ state \in {"NOT_INITIALIZED", "INITIALIZING", "INITIALIZED", "FAILED"}
    /\ up \in BOOLEAN /\ onceStarts \in 0..MaxInits
    /\ oncePc \in [Lockers -> {"out", "load", "cas", "init", "done", "failed", "wait",
                               "giveBack", "holds", "cleanup", "reset"}]

(* One thread initialises, while the state says so; the one that cleans up *)
(* is alone; the resource is there from the end of the initialisation to   *)
(* the clean-up.                                                           *)
OnceRoles ==
    \A t \in Lockers :
        /\ Inits(t) => state = "INITIALIZING" /\ \A u \in Lockers : Inits(u) => t = u
        /\ Cleans(t) => state = "INITIALIZED" /\ \A u \in Lockers : u # t => oncePc[u] = "out"
        /\ oncePc[t] = "done" => up
        /\ oncePc[t] = "holds" => state = "INITIALIZED"

ResourceUp == state = "INITIALIZED" /\ (\A t \in Lockers : oncePc[t] # "reset") => up

OnceInv == OnceTypes /\ OnceRoles /\ ResourceUp /\ refs = Cardinality(Counted)

LEMMA OnceInitially ==
    ASSUME MaxInits \in Nat, Once!Init
    PROVE  OnceInv
<1>1. Counted = {} /\ refs = 0
  BY DEF Once!Init, Counted
<1>2. refs = Cardinality(Counted)
  BY <1>1, FS_EmptySet
<1>3. up \in BOOLEAN
  BY DEF Once!Init
<1>4. OnceTypes
  BY <1>3 DEF Once!Init, OnceTypes
<1>5. OnceRoles /\ ResourceUp
  BY DEF Once!Init, OnceRoles, ResourceUp, Inits, Cleans
<1> QED
  BY <1>2, <1>4, <1>5 DEF OnceInv

(* A step of one thread counts it, stops counting it, or leaves the count. *)
LEMMA OnceCounts ==
    ASSUME IsFiniteSet(Lockers), OnceInv, NEW t \in Lockers,
           \A u \in Lockers : u # t => oncePc'[u] = oncePc[u],
           \/ refs' = refs /\ (t \in Counted <=> t \in Counted')
           \/ refs' = refs + 1 /\ t \notin Counted /\ t \in Counted'
           \/ refs' = refs - 1 /\ t \in Counted /\ t \notin Counted'
    PROVE  refs' = Cardinality(Counted')
<1>1. IsFiniteSet(Counted) /\ refs = Cardinality(Counted)
  BY FS_Subset DEF OnceInv, Counted
<1>2. \A u \in Lockers : u # t => (u \in Counted <=> u \in Counted')
  BY DEF Counted
<1>3. CASE t \in Counted <=> t \in Counted'
  <2>1. Counted' = Counted
    BY <1>2, <1>3 DEF Counted
  <2> QED
    BY <1>1, <1>3, <2>1
<1>4. CASE t \notin Counted /\ t \in Counted'
  <2>1. Counted' = Counted \cup {t}
    BY <1>2, <1>4 DEF Counted
  <2> QED
    BY <1>1, <1>4, <2>1, CardinalityPlus
<1>5. CASE t \in Counted /\ t \notin Counted'
  <2>1. Counted' = Counted \ {t}
    BY <1>2, <1>5 DEF Counted
  <2> QED
    BY <1>1, <1>5, <2>1, CardinalityMinus
<1> QED
  BY <1>3, <1>4, <1>5

LEMMA OncePreserves ==
    ASSUME IsFiniteSet(Lockers), MaxInits \in Nat, Overlap = FALSE, OnceInv, [Once!Next]_Once!vars
    PROVE  OnceInv'
<1> USE DEF OnceInv
<1>1. ASSUME NEW t \in Lockers, Once!Initialize(t) PROVE OnceInv'
  <2>1. OnceTypes' /\ OnceRoles' /\ ResourceUp'
    BY <1>1 DEF Once!Initialize, Once!Cleaning, Once!To, OnceTypes, OnceRoles, ResourceUp, Inits, Cleans
  <2>2. refs' = Cardinality(Counted')
    BY <1>1, OnceCounts DEF Once!Initialize, Once!To, OnceTypes, Counted
  <2> QED
    BY <2>1, <2>2
<1>2. ASSUME NEW t \in Lockers, Once!LoadState(t) PROVE OnceInv'
  <2>1. OnceTypes' /\ OnceRoles' /\ ResourceUp'
    BY <1>2 DEF Once!LoadState, Once!To, OnceTypes, OnceRoles, ResourceUp, Inits, Cleans
  <2>2. refs' = Cardinality(Counted')
    BY <1>2, OnceCounts DEF Once!LoadState, Once!To, OnceTypes, Counted
  <2> QED
    BY <2>1, <2>2
<1>3. ASSUME NEW t \in Lockers, Once!ClaimInit(t) PROVE OnceInv'
  <2>1. OnceTypes' /\ OnceRoles' /\ ResourceUp'
    BY <1>3 DEF Once!ClaimInit, Once!To, OnceTypes, OnceRoles, ResourceUp, Inits, Cleans
  <2>2. refs' = Cardinality(Counted')
    BY <1>3, OnceCounts DEF Once!ClaimInit, Once!To, OnceTypes, Counted
  <2> QED
    BY <2>1, <2>2
<1>4. ASSUME NEW t \in Lockers, Once!RunInit(t) PROVE OnceInv'
  <2>1. OnceTypes' /\ OnceRoles' /\ ResourceUp'
    BY <1>4 DEF Once!RunInit, Once!To, OnceTypes, OnceRoles, ResourceUp, Inits, Cleans
  <2>2. refs' = Cardinality(Counted')
    BY <1>4, OnceCounts DEF Once!RunInit, Once!To, OnceTypes, Counted
  <2> QED
    BY <2>1, <2>2
<1>5. ASSUME NEW t \in Lockers, Once!StoreState(t) PROVE OnceInv'
  <2>1. OnceTypes' /\ OnceRoles' /\ ResourceUp'
    BY <1>5 DEF Once!StoreState, Once!To, OnceTypes, OnceRoles, ResourceUp, Inits, Cleans
  <2>2. refs' = Cardinality(Counted')
    BY <1>5, OnceCounts DEF Once!StoreState, Once!To, OnceTypes, Counted
  <2> QED
    BY <2>1, <2>2
<1>6. ASSUME NEW t \in Lockers, Once!WaitState(t) PROVE OnceInv'
  <2>1. OnceTypes' /\ OnceRoles' /\ ResourceUp'
    BY <1>6 DEF Once!WaitState, Once!To, OnceTypes, OnceRoles, ResourceUp, Inits, Cleans
  <2>2. refs' = Cardinality(Counted')
    BY <1>6, OnceCounts DEF Once!WaitState, Once!To, OnceTypes, Counted
  <2> QED
    BY <2>1, <2>2
<1>7. ASSUME NEW t \in Lockers, Once!GiveBack(t) PROVE OnceInv'
  <2>1. OnceTypes' /\ OnceRoles' /\ ResourceUp'
    BY <1>7 DEF Once!GiveBack, Once!To, OnceTypes, OnceRoles, ResourceUp, Inits, Cleans
  <2>2. refs' = Cardinality(Counted')
    BY <1>7, OnceCounts DEF Once!GiveBack, Once!To, OnceTypes, Counted
  <2> QED
    BY <2>1, <2>2
<1>8. ASSUME NEW t \in Lockers, Once!Cleanup(t) PROVE OnceInv'
  <2>1. refs' = Cardinality(Counted')
    BY <1>8, OnceCounts DEF Once!Cleanup, Once!To, OnceTypes, Counted
  <2>2. CASE refs = 1
    <3>1. \A u \in Lockers : u # t => u \notin Counted
      <4>1. Counted' = {}
        <5>1. IsFiniteSet(Counted')
          BY FS_Subset DEF Counted
        <5>2. Cardinality(Counted') = 0
          BY <1>8, <2>1, <2>2 DEF Once!Cleanup
        <5> QED
          BY <5>1, <5>2, FS_EmptySet
      <4> QED
        BY <1>8, <4>1 DEF Once!Cleanup, Once!To, OnceTypes, Counted
    <3>2. \A u \in Lockers : u # t => oncePc[u] = "out"
      BY <1>8, <3>1 DEF Once!Cleanup, Once!To, OnceRoles, Cleans, Counted
    <3> QED
      BY <1>8, <2>1, <2>2, <3>2
         DEF Once!Cleanup, Once!To, OnceTypes, OnceRoles, ResourceUp, Inits, Cleans
  <2>3. CASE refs # 1
    BY <1>8, <2>1, <2>3 DEF Once!Cleanup, Once!To, OnceTypes, OnceRoles, ResourceUp, Inits, Cleans
  <2> QED
    BY <2>2, <2>3
<1>9. ASSUME NEW t \in Lockers, Once!RunCleanup(t) PROVE OnceInv'
  <2>1. OnceTypes' /\ OnceRoles' /\ ResourceUp'
    BY <1>9 DEF Once!RunCleanup, Once!To, OnceTypes, OnceRoles, ResourceUp, Inits, Cleans
  <2>2. refs' = Cardinality(Counted')
    BY <1>9, OnceCounts DEF Once!RunCleanup, Once!To, OnceTypes, Counted
  <2> QED
    BY <2>1, <2>2
<1>10. ASSUME NEW t \in Lockers, Once!ResetState(t) PROVE OnceInv'
  <2>1. OnceTypes' /\ OnceRoles' /\ ResourceUp'
    BY <1>10 DEF Once!ResetState, Once!To, OnceTypes, OnceRoles, ResourceUp, Inits, Cleans
  <2>2. refs' = Cardinality(Counted')
    BY <1>10, OnceCounts DEF Once!ResetState, Once!To, OnceTypes, Counted
  <2> QED
    BY <2>1, <2>2
<1>11. CASE UNCHANGED Once!vars
  BY <1>11 DEF Once!vars, OnceTypes, OnceRoles, ResourceUp, Inits, Cleans, Counted
<1> QED
  BY <1>1, <1>2, <1>3, <1>4, <1>5, <1>6, <1>7, <1>8, <1>9, <1>10, <1>11
     DEF Once!Next, Once!InitStep, Once!CleanStep

LEMMA OnceSeen ==
    ASSUME IsFiniteSet(Lockers), MaxInits \in Nat
    PROVE  OnceInv => Once!TypeOK /\ Once!HoldersHaveResource
<1> SUFFICES ASSUME OnceInv PROVE Once!TypeOK /\ Once!HoldersHaveResource
  OBVIOUS
<1>1. refs \in 0..Cardinality(Lockers)
  <2>1. /\ IsFiniteSet(Counted) /\ Cardinality(Counted) <= Cardinality(Lockers)
        /\ Cardinality(Counted) \in Nat /\ Cardinality(Lockers) \in Nat
    BY FS_Subset, FS_CardinalityType, Counted \subseteq Lockers DEF Counted
  <2> QED
    BY <2>1 DEF OnceInv
<1>2. \A t \in Lockers : oncePc[t] = "holds" => up
  BY DEF OnceInv, OnceRoles, ResourceUp, Cleans
<1>3. Cardinality({t \in Lockers : oncePc[t] \in {"init", "done", "failed"}}) <= 1
  BY AtMostOne DEF OnceInv, OnceRoles, Inits
<1>4. Once!TypeOK
  BY <1>1, SameCardinality, Zenon DEF OnceInv, OnceTypes, Once!TypeOK
<1>5. Once!HoldersHaveResource
  BY <1>2, <1>3, SameCardinality, Zenon DEF OnceInv, Counted, Once!HoldersHaveResource
<1> QED
  BY <1>4, <1>5

(* Whoever Initialize told TRUE has the resource until it calls Cleanup,   *)
(* one thread at most runs init_func, and the references are the callers'  *)
(* (OnceInitializer), for any number of threads and calls, where no        *)
(* Initialize runs during the last Cleanup.                                *)
THEOREM HoldersKeepResource ==
    ASSUME IsFiniteSet(Lockers), MaxInits \in Nat, Overlap = FALSE
    PROVE  Once!Spec => [](Once!TypeOK /\ Once!HoldersHaveResource)
<1>1. Once!Init => OnceInv
  BY OnceInitially
<1>2. OnceInv /\ [Once!Next]_Once!vars => OnceInv'
  BY OncePreserves
<1>3. OnceInv => Once!TypeOK /\ Once!HoldersHaveResource
  BY OnceSeen
<1> QED
  BY <1>1, <1>2, <1>3, PTL DEF Once!Spec

(* Whoever is inside the lock is named by it, and whoever was told that    *)
(* the resource is there has it (RecursiveLock, OnceInitializer).          *)
THEOREM OwnersAlwaysHold ==
    ASSUME Nobody \notin Lockers, MaxDepth \in Nat \ {0},
           IsFiniteSet(Lockers), MaxInits \in Nat, Overlap = FALSE
    PROVE  RLock!Spec /\ Once!Spec => []OwnersHold
<1>1. RLock!Spec => [](RLock!TypeOK /\ RLock!OwnerIsNamed)
  BY LockNamesOwner
<1>2. Once!Spec => [](Once!TypeOK /\ Once!HoldersHaveResource)
  BY HoldersKeepResource
<1>3. (RLock!TypeOK /\ RLock!OwnerIsNamed) /\ (Once!TypeOK /\ Once!HoldersHaveResource) => OwnersHold
  BY DEF OwnersHold
<1> QED
  BY <1>1, <1>2, <1>3, PTL

-----------------------------------------------------------------------------
(***************************************************************************)
(* ThreadPool and JobQueue.                                                *)
(***************************************************************************)
LEMMA JobCardinality ==
    ASSUME NEW S
    PROVE  Job!Cardinality(S) = Cardinality(S)
BY Zenon DEF Job!Cardinality, Cardinality

Bringing == {k \in PoolWorkers : wpc[k] \in {"retest", "take"}}
Releasing == {s \in Callers : spc[s] = "release"}
Submitting == {s \in Callers : spc[s] \in {"test", "enqueue", "release"}}

PoolTypes ==
    /\ jobQueue \in Seq(Job!Jobs) /\ semaphore \in Nat
    /\ stopped \in BOOLEAN /\ qStopped \in BOOLEAN /\ calls \in 0..MaxJobs
    /\ spc \in [Callers -> {"idle", "test", "enqueue", "release"}]
    /\ job \in [Callers -> Job!Jobs \cup {Job!NoJob}]
    /\ wpc \in [PoolWorkers -> {"check", "test", "wait", "retest", "take", "run", "exited"}]
    /\ jobCur \in [PoolWorkers -> Job!Jobs \cup {Job!NoJob}]
    /\ mpc \in {"idle", "queue", "wake", "returned"} /\ released \in 0..Releases
    /\ mpc \in {"wake", "returned"} => qStopped

(* A token for every job, until the queue is shut down; and never more     *)
(* tokens than Submit and Shutdown have announced.                         *)
Tokens == ~qStopped => Len(jobQueue) = semaphore + Cardinality(Bringing) + Cardinality(Releasing)
TokensBounded == semaphore + Cardinality(Submitting) <= calls + released

(* Every job is in one place: with its submitter, in the queue, with a     *)
(* worker, or done.                                                        *)
Carried(s) == spc[s] \in {"test", "enqueue"}
JobPlaces ==
    /\ ran \subseteq entered /\ entered \subseteq 1..calls
    /\ \A s \in Callers : Carried(s) => job[s] \in (1..calls) \ entered
    /\ \A s, u \in Callers : s # u /\ Carried(s) /\ Carried(u) => job[s] # job[u]
    /\ \A i \in DOMAIN jobQueue : jobQueue[i] \in entered \ ran
    /\ \A i, j \in DOMAIN jobQueue : i # j => jobQueue[i] # jobQueue[j]
    /\ \A k \in PoolWorkers :
          /\ wpc[k] = "run" => jobCur[k] \in entered \ ran
          /\ wpc[k] # "run" => jobCur[k] = Job!NoJob
          /\ \A i \in DOMAIN jobQueue : jobCur[k] # jobQueue[i]
    /\ \A j, k \in PoolWorkers : j # k /\ jobCur[j] # Job!NoJob => jobCur[j] # jobCur[k]

PoolInv == PoolTypes /\ Tokens /\ TokensBounded /\ JobPlaces

LEMMA PoolInit ==
    ASSUME MaxJobs \in Nat, Releases \in Nat, Job!Init
    PROVE  PoolInv
<1>1. Bringing = {} /\ Releasing = {} /\ Submitting = {}
  BY DEF Job!Init, Bringing, Releasing, Submitting
<1>2. Cardinality({}) = 0
  BY FS_EmptySet
<1>3. Tokens /\ TokensBounded
  BY <1>1, <1>2 DEF Job!Init, Tokens, TokensBounded
<1>4. stopped \in BOOLEAN /\ qStopped \in BOOLEAN
  BY DEF Job!Init
<1>5. PoolTypes
  BY <1>4 DEF Job!Init, PoolTypes, Job!NoJob
<1>6. JobPlaces
  BY DEF Job!Init, JobPlaces, Carried, Job!NoJob
<1> QED
  BY <1>3, <1>5, <1>6 DEF PoolInv

(* The steps' effects on the three counts. *)
LEMMA CountsFinite ==
    ASSUME IsFiniteSet(Callers), IsFiniteSet(PoolWorkers)
    PROVE  /\ IsFiniteSet(Bringing) /\ IsFiniteSet(Releasing) /\ IsFiniteSet(Submitting)
           /\ Cardinality(Bringing) \in Nat /\ Cardinality(Releasing) \in Nat
           /\ Cardinality(Submitting) \in Nat
<1>1. IsFiniteSet(Bringing) /\ IsFiniteSet(Releasing) /\ IsFiniteSet(Submitting)
  <2>1. Bringing \subseteq PoolWorkers /\ Releasing \subseteq Callers /\ Submitting \subseteq Callers
    BY DEF Bringing, Releasing, Submitting
  <2> QED
    BY <2>1, FS_Subset
<1> QED
  BY <1>1, FS_CardinalityType

-----------------------------------------------------------------------------
LEMMA PoolTypesStep ==
    ASSUME MaxJobs \in Nat, Releases \in Nat, PoolInv, [Job!Next]_Job!vars
    PROVE  PoolTypes'
<1> USE DEF PoolInv, PoolTypes, Job!Jobs, Job!NoJob, Job!SubmitTo, Job!WorkTo, Job!submitVars, Job!workVars, Job!stopVars
<1>1. ASSUME NEW s \in Callers, Job!Submit(s) PROVE PoolTypes'
  BY <1>1 DEF Job!Submit
<1>2. ASSUME NEW s \in Callers, Job!EnqueueTest(s) PROVE PoolTypes'
  BY <1>2 DEF Job!EnqueueTest
<1>3. ASSUME NEW s \in Callers, Job!Enqueue(s) PROVE PoolTypes'
  <2>1. job[s] \in Job!Jobs
    BY <1>3 DEF Job!Enqueue, JobPlaces, Carried
  <2> QED
    BY <1>3, <2>1 DEF Job!Enqueue
<1>4. ASSUME NEW s \in Callers, Job!Release(s) PROVE PoolTypes'
  BY <1>4 DEF Job!Release
<1>5. ASSUME NEW k \in PoolWorkers, Job!WorkerCheck(k) PROVE PoolTypes'
  BY <1>5 DEF Job!WorkerCheck
<1>6. ASSUME NEW k \in PoolWorkers, Job!DequeueTest(k) PROVE PoolTypes'
  BY <1>6 DEF Job!DequeueTest
<1>7. ASSUME NEW k \in PoolWorkers, Job!Wait(k) PROVE PoolTypes'
  BY <1>7 DEF Job!Wait
<1>8. ASSUME NEW k \in PoolWorkers, Job!WaitTimeout(k) PROVE PoolTypes'
  BY <1>8 DEF Job!WaitTimeout
<1>9. ASSUME NEW k \in PoolWorkers, Job!DequeueRetest(k) PROVE PoolTypes'
  BY <1>9 DEF Job!DequeueRetest
<1>10. ASSUME NEW k \in PoolWorkers, Job!Take(k) PROVE PoolTypes'
  <2>1. CASE jobQueue = <<>>
    BY <1>10, <2>1 DEF Job!Take
  <2>2. CASE jobQueue # <<>>
    <3>1. Head(jobQueue) \in Job!Jobs /\ Tail(jobQueue) \in Seq(Job!Jobs)
      BY <2>2
    <3> QED
      BY <1>10, <2>2, <3>1 DEF Job!Take
  <2> QED
    BY <2>1, <2>2
<1>11. ASSUME NEW k \in PoolWorkers, Job!Run(k) PROVE PoolTypes'
  BY <1>11 DEF Job!Run
<1>12. CASE Job!Shutdown
  BY <1>12 DEF Job!Shutdown
<1>13. CASE Job!QueueShutdown
  BY <1>13 DEF Job!QueueShutdown
<1>14. CASE Job!WakeAll
  BY <1>14 DEF Job!WakeAll
<1>15. CASE Job!Join
  BY <1>15 DEF Job!Join
<1>16. CASE UNCHANGED Job!vars
  BY <1>16 DEF Job!vars
<1> QED
  BY <1>1, <1>2, <1>3, <1>4, <1>5, <1>6, <1>7, <1>8, <1>9, <1>10, <1>11, <1>12, <1>13, <1>14, <1>15, <1>16
     DEF Job!Next, Job!SubmitStep, Job!WorkStep, Job!StopStep

(* Steps that bring no token and take none. *)
LEMMA TokensUntouched ==
    ASSUME PoolInv, semaphore' = semaphore, Len(jobQueue') = Len(jobQueue), calls' = calls, released' = released,
           qStopped \in BOOLEAN, qStopped => qStopped',
           Bringing' = Bringing, Releasing' = Releasing, Submitting' = Submitting
    PROVE  Tokens' /\ TokensBounded'
BY DEF PoolInv, Tokens, TokensBounded

LEMMA PoolTokensStep ==
    ASSUME IsFiniteSet(Callers), IsFiniteSet(PoolWorkers), MaxJobs \in Nat, Releases \in Nat,
           PoolInv, [Job!Next]_Job!vars
    PROVE  Tokens' /\ TokensBounded'
<1> DEFINE B == Cardinality(Bringing)
           R == Cardinality(Releasing)
           S == Cardinality(Submitting)
<1>a. B \in Nat /\ R \in Nat /\ S \in Nat
  BY CountsFinite
<1>b. /\ semaphore \in Nat /\ calls \in Nat /\ released \in Nat /\ qStopped \in BOOLEAN
      /\ jobQueue \in Seq(Job!Jobs) /\ Len(jobQueue) \in Nat
      /\ spc \in [Callers -> {"idle", "test", "enqueue", "release"}]
      /\ wpc \in [PoolWorkers -> {"check", "test", "wait", "retest", "take", "run", "exited"}]
  BY DEF PoolInv, PoolTypes
<1>c. Tokens /\ TokensBounded
  BY DEF PoolInv
<1> USE DEF Job!SubmitTo, Job!WorkTo, Job!submitVars, Job!workVars, Job!stopVars
<1>1. ASSUME NEW s \in Callers, Job!Submit(s) PROVE Tokens' /\ TokensBounded'
  <2>1. /\ UNCHANGED <<jobQueue, semaphore, qStopped, released>> /\ calls' = calls + 1
        /\ Bringing' = Bringing /\ Releasing' = Releasing
    BY <1>1, <1>b DEF Job!Submit, Bringing, Releasing
  <2>2. CASE Submitting' = Submitting
    BY <1>a, <1>b, <1>c, <2>1, <2>2 DEF Tokens, TokensBounded
  <2>3. CASE s \notin Submitting /\ Submitting' = Submitting \cup {s}
    <3>1. Cardinality(Submitting') = S + 1
      BY <2>3, CountsFinite, CardinalityPlus
    <3> QED
      BY <1>a, <1>b, <1>c, <2>1, <3>1 DEF Tokens, TokensBounded
  <2>4. Submitting' = Submitting \/ (s \notin Submitting /\ Submitting' = Submitting \cup {s})
    BY <1>1, <1>b DEF Job!Submit, Submitting
  <2> QED
    BY <2>2, <2>3, <2>4
<1>2. ASSUME NEW s \in Callers, Job!EnqueueTest(s) PROVE Tokens' /\ TokensBounded'
  <2>1. /\ UNCHANGED <<jobQueue, semaphore, qStopped, released, calls>>
        /\ Bringing' = Bringing /\ Releasing' = Releasing
    BY <1>2, <1>b DEF Job!EnqueueTest, Bringing, Releasing
  <2>2. Submitting' = Submitting \/ (s \in Submitting /\ Submitting' = Submitting \ {s})
    BY <1>2, <1>b DEF Job!EnqueueTest, Submitting
  <2>3. Cardinality(Submitting') \in {S, S - 1}
    BY <2>2, CountsFinite, CardinalityMinus
  <2> QED
    BY <1>a, <1>b, <1>c, <2>1, <2>3 DEF Tokens, TokensBounded
<1>3. ASSUME NEW s \in Callers, Job!Enqueue(s) PROVE Tokens' /\ TokensBounded'
  <2>1. /\ UNCHANGED <<semaphore, qStopped, released, calls>> /\ Len(jobQueue') = Len(jobQueue) + 1
        /\ Bringing' = Bringing /\ Submitting' = Submitting
    BY <1>3, <1>b DEF Job!Enqueue, Bringing, Submitting
  <2>2. s \notin Releasing /\ Releasing' = Releasing \cup {s}
    BY <1>3, <1>b DEF Job!Enqueue, Releasing
  <2>3. Cardinality(Releasing') = R + 1
    BY <2>2, CountsFinite, CardinalityPlus
  <2>4. Cardinality(Bringing') = B /\ Cardinality(Submitting') = S
    BY <2>1
  <2>5. TokensBounded'
    BY <1>c, <2>1, <2>4 DEF TokensBounded
  <2>6. ~qStopped => Len(jobQueue) = semaphore + B + R
    BY <1>c DEF Tokens
  <2> HIDE DEF B, R, S
  <2>7. ~qStopped => Len(jobQueue) + 1 = semaphore + B + (R + 1)
    BY <1>a, <1>b, <2>6
  <2>8. Tokens'
    BY <2>1, <2>3, <2>4, <2>7 DEF Tokens
  <2> QED
    BY <2>5, <2>8
<1>4. ASSUME NEW s \in Callers, Job!Release(s) PROVE Tokens' /\ TokensBounded'
  <2>1. UNCHANGED <<jobQueue, qStopped, released, calls>> /\ semaphore' = semaphore + 1 /\ Bringing' = Bringing
    BY <1>4, <1>b DEF Job!Release, Bringing
  <2>2. /\ s \in Releasing /\ Releasing' = Releasing \ {s}
        /\ s \in Submitting /\ Submitting' = Submitting \ {s}
    BY <1>4, <1>b DEF Job!Release, Releasing, Submitting
  <2>3. Cardinality(Releasing') = R - 1 /\ Cardinality(Submitting') = S - 1
    BY <2>2, CountsFinite, CardinalityMinus
  <2> QED
    BY <1>a, <1>b, <1>c, <2>1, <2>3 DEF Tokens, TokensBounded
<1>5. ASSUME NEW k \in PoolWorkers, Job!WorkerCheck(k) \/ Job!DequeueTest(k) \/ Job!WaitTimeout(k) \/ Job!Run(k)
      PROVE  Tokens' /\ TokensBounded'
  <2>1. /\ UNCHANGED <<jobQueue, semaphore, qStopped, released, calls>>
        /\ Releasing' = Releasing /\ Submitting' = Submitting
    BY <1>5 DEF Job!WorkerCheck, Job!DequeueTest, Job!WaitTimeout, Job!Run, Releasing, Submitting
  <2>2. Bringing' = Bringing
    BY <1>5, <1>b DEF Job!WorkerCheck, Job!DequeueTest, Job!WaitTimeout, Job!Run, Bringing
  <2> QED
    BY <1>b, <2>1, <2>2, TokensUntouched
<1>6. ASSUME NEW k \in PoolWorkers, Job!Wait(k) PROVE Tokens' /\ TokensBounded'
  <2>1. /\ UNCHANGED <<jobQueue, qStopped, released, calls>> /\ semaphore > 0 /\ semaphore' = semaphore - 1
        /\ Releasing' = Releasing /\ Submitting' = Submitting
    BY <1>6 DEF Job!Wait, Releasing, Submitting
  <2>2. k \notin Bringing /\ Bringing' = Bringing \cup {k}
    BY <1>6, <1>b DEF Job!Wait, Bringing
  <2>3. Cardinality(Bringing') = B + 1
    BY <2>2, CountsFinite, CardinalityPlus
  <2> QED
    BY <1>a, <1>b, <1>c, <2>1, <2>3 DEF Tokens, TokensBounded
<1>7. ASSUME NEW k \in PoolWorkers, Job!DequeueRetest(k) PROVE Tokens' /\ TokensBounded'
  <2>1. /\ UNCHANGED <<jobQueue, semaphore, qStopped, released, calls>>
        /\ Releasing' = Releasing /\ Submitting' = Submitting
    BY <1>7 DEF Job!DequeueRetest, Releasing, Submitting
  <2>2. ~qStopped => Bringing' = Bringing
    BY <1>7, <1>b DEF Job!DequeueRetest, Bringing
  <2> QED
    BY <1>c, <2>1, <2>2 DEF Tokens, TokensBounded
<1>8. ASSUME NEW k \in PoolWorkers, Job!Take(k) PROVE Tokens' /\ TokensBounded'
  <2>1. /\ UNCHANGED <<semaphore, qStopped, released, calls>>
        /\ Releasing' = Releasing /\ Submitting' = Submitting
    BY <1>8 DEF Job!Take, Releasing, Submitting
  <2>2. k \in Bringing /\ Bringing' = Bringing \ {k}
    BY <1>8, <1>b DEF Job!Take, Bringing
  <2>3. Cardinality(Bringing') = B - 1 /\ B > 0
    BY <1>a, <2>2, CountsFinite, CardinalityMinus
  <2>4. ~qStopped => Len(jobQueue') = Len(jobQueue) - 1
    <3> SUFFICES ASSUME ~qStopped PROVE Len(jobQueue') = Len(jobQueue) - 1
      OBVIOUS
    <3>1. Len(jobQueue) > 0
      BY <1>a, <1>b, <1>c, <2>3 DEF Tokens
    <3>2. jobQueue # <<>> /\ Len(Tail(jobQueue)) = Len(jobQueue) - 1
      BY <1>b, <3>1
    <3> QED
      BY <1>8, <3>2 DEF Job!Take
  <2> QED
    BY <1>a, <1>b, <1>c, <2>1, <2>3, <2>4 DEF Tokens, TokensBounded
<1>9. CASE Job!Shutdown \/ Job!QueueShutdown \/ Job!Join \/ UNCHANGED Job!vars
  <2>1. /\ UNCHANGED <<jobQueue, semaphore, released, calls>> /\ (qStopped => qStopped')
        /\ Releasing' = Releasing /\ Submitting' = Submitting /\ Bringing' = Bringing
    BY <1>9 DEF Job!Shutdown, Job!QueueShutdown, Job!Join, Job!vars, Releasing, Submitting, Bringing
  <2> QED
    BY <1>b, <2>1, TokensUntouched
<1>10. CASE Job!WakeAll
  <2>1. /\ UNCHANGED <<jobQueue, qStopped, calls>> /\ semaphore' = semaphore + 1 /\ released' = released + 1
        /\ Releasing' = Releasing /\ Submitting' = Submitting /\ Bringing' = Bringing
    BY <1>10 DEF Job!WakeAll, Releasing, Submitting, Bringing
  <2>2. qStopped
    BY <1>10 DEF Job!WakeAll, PoolInv, PoolTypes
  <2> QED
    BY <1>a, <1>b, <1>c, <2>1, <2>2 DEF Tokens, TokensBounded
<1> QED
  BY <1>1, <1>2, <1>3, <1>4, <1>5, <1>6, <1>7, <1>8, <1>9, <1>10
     DEF Job!Next, Job!SubmitStep, Job!WorkStep, Job!StopStep

-----------------------------------------------------------------------------
(* A job leaves its submitter for the end of the queue. *)
LEMMA EnqueuePlaces ==
    ASSUME PoolInv, NEW s \in Callers, Job!Enqueue(s)
    PROVE  JobPlaces'
<1>1. /\ spc[s] = "enqueue" /\ spc' = [spc EXCEPT ![s] = "release"]
      /\ jobQueue' = Append(jobQueue, job[s]) /\ entered' = entered \cup {job[s]}
      /\ UNCHANGED <<job, calls, wpc, jobCur, ran>>
  BY DEF Job!Enqueue, Job!SubmitTo, Job!workVars
<1>2. job[s] \in (1..calls) \ entered
  BY <1>1 DEF PoolInv, JobPlaces, Carried
<1>3. PICK n \in Nat :
        /\ DOMAIN jobQueue = 1..n /\ DOMAIN jobQueue' = 1..(n + 1) /\ jobQueue'[n + 1] = job[s]
        /\ \A i \in 1..n : jobQueue'[i] = jobQueue[i]
  <2>1. jobQueue \in Seq(Job!Jobs) /\ job[s] \in Job!Jobs \cup {Job!NoJob}
    BY DEF PoolInv, PoolTypes
  <2>2. PICK S : S = Job!Jobs \cup {Job!NoJob}
    OBVIOUS
  <2>3. jobQueue \in Seq(S) /\ job[s] \in S
    BY <2>1, <2>2
  <2> QED
    BY <1>1, <2>3
<1>4. \A i \in DOMAIN jobQueue' : jobQueue'[i] = job[s] \/ (i \in DOMAIN jobQueue /\ jobQueue'[i] = jobQueue[i])
  BY <1>3
<1>5. \A i \in DOMAIN jobQueue' : jobQueue'[i] \in entered' \ ran'
  BY <1>1, <1>2, <1>4 DEF PoolInv, JobPlaces
<1>6. \A i, j \in DOMAIN jobQueue' : i # j => jobQueue'[i] # jobQueue'[j]
  BY <1>1, <1>2, <1>3 DEF PoolInv, JobPlaces
<1>7. \A k \in PoolWorkers :
         /\ wpc'[k] = "run" => jobCur'[k] \in entered' \ ran'
         /\ wpc'[k] # "run" => jobCur'[k] = Job!NoJob
         /\ \A i \in DOMAIN jobQueue' : jobCur'[k] # jobQueue'[i]
  <2> SUFFICES ASSUME NEW k \in PoolWorkers
               PROVE  /\ wpc[k] = "run" => jobCur[k] \in entered' \ ran
                      /\ wpc[k] # "run" => jobCur[k] = Job!NoJob
                      /\ \A i \in DOMAIN jobQueue' : jobCur[k] # jobQueue'[i]
    BY <1>1
  <2>1. jobCur[k] # job[s]
    BY <1>2 DEF PoolInv, JobPlaces, Job!NoJob
  <2> QED
    BY <1>1, <1>4, <2>1 DEF PoolInv, JobPlaces
<1>8. \A u \in Callers : Carried(u)' => job'[u] \in (1..calls') \ entered'
  <2> SUFFICES ASSUME NEW u \in Callers, Carried(u)'
               PROVE  job[u] \in (1..calls) \ entered'
    BY <1>1
  <2>1. u # s /\ Carried(u)
    BY <1>1 DEF Carried, PoolInv, PoolTypes
  <2> QED
    BY <1>1, <2>1 DEF PoolInv, JobPlaces, Carried
<1>9. \A t, u \in Callers : t # u /\ Carried(t)' /\ Carried(u)' => job'[t] # job'[u]
  <2>1. \A u \in Callers : Carried(u)' => Carried(u)
    BY <1>1 DEF Carried, PoolInv, PoolTypes
  <2> QED
    BY <1>1, <2>1 DEF PoolInv, JobPlaces
<1>10. /\ ran' \subseteq entered' /\ entered' \subseteq 1..calls'
       /\ \A j, k \in PoolWorkers : j # k /\ jobCur'[j] # Job!NoJob => jobCur'[j] # jobCur'[k]
  BY <1>1, <1>2 DEF PoolInv, JobPlaces
<1> QED
  BY <1>5, <1>6, <1>7, <1>8, <1>9, <1>10 DEF JobPlaces

(* A worker takes the first job of the queue, or finds none. *)
LEMMA TakePlaces ==
    ASSUME PoolInv, NEW k \in PoolWorkers, Job!Take(k)
    PROVE  JobPlaces'
<1>1. /\ wpc[k] = "take" /\ UNCHANGED <<spc, job, calls, entered, ran>>
      /\ wpc' = [wpc EXCEPT ![k] = IF jobQueue = <<>> THEN "check" ELSE "run"]
  BY DEF Job!Take, Job!WorkTo, Job!submitVars
<1>2. jobCur[k] = Job!NoJob
  BY <1>1 DEF PoolInv, JobPlaces
<1>3. CASE jobQueue = <<>>
  <2>1. UNCHANGED <<jobCur, jobQueue>>
    BY <1>3 DEF Job!Take
  <2> QED
    BY <1>1, <1>2, <1>3, <2>1 DEF PoolInv, PoolTypes, JobPlaces, Carried
<1>4. CASE jobQueue # <<>>
  <2>1. jobCur' = [jobCur EXCEPT ![k] = Head(jobQueue)] /\ jobQueue' = Tail(jobQueue)
    BY <1>4 DEF Job!Take
  <2>2. PICK n \in Nat : /\ DOMAIN jobQueue = 1..(n + 1) /\ DOMAIN jobQueue' = 1..n /\ Head(jobQueue) = jobQueue[1]
                         /\ \A i \in 1..n : jobQueue'[i] = jobQueue[i + 1]
    <3>1. jobQueue \in Seq(Job!Jobs)
      BY DEF PoolInv, PoolTypes
    <3>2. Len(jobQueue) - 1 \in Nat
      BY <1>4, <3>1
    <3> QED
      BY <1>4, <2>1, <3>1, <3>2
  <2>3. PICK h : h = jobQueue[1] /\ jobCur' = [jobCur EXCEPT ![k] = h]
    BY <2>1, <2>2
  <2>4. h \in entered \ ran /\ h # Job!NoJob /\ \A j \in PoolWorkers : jobCur[j] # h
    BY <2>2, <2>3 DEF PoolInv, PoolTypes, JobPlaces, Job!NoJob
  <2>5. /\ \A i \in DOMAIN jobQueue' : jobQueue'[i] \in entered \ ran /\ jobQueue'[i] # h
        /\ \A i, j \in DOMAIN jobQueue' : i # j => jobQueue'[i] # jobQueue'[j]
        /\ \A j \in PoolWorkers : \A i \in DOMAIN jobQueue' : jobCur[j] # jobQueue'[i]
    <3>1. /\ \A i \in DOMAIN jobQueue : jobQueue[i] \in entered \ ran
          /\ \A i, j \in DOMAIN jobQueue : i # j => jobQueue[i] # jobQueue[j]
          /\ \A j \in PoolWorkers : \A i \in DOMAIN jobQueue : jobCur[j] # jobQueue[i]
      BY DEF PoolInv, JobPlaces
    <3>2. ASSUME NEW i \in DOMAIN jobQueue'
          PROVE  /\ i + 1 \in DOMAIN jobQueue /\ 1 \in DOMAIN jobQueue /\ i + 1 # 1
                 /\ jobQueue'[i] = jobQueue[i + 1]
      BY <2>2
    <3>3. ASSUME NEW i \in DOMAIN jobQueue', NEW j \in DOMAIN jobQueue', i # j PROVE i + 1 # j + 1
      BY <2>2, <3>3
    <3> QED
      BY <2>3, <3>1, <3>2, <3>3
  <2>6. \A j \in PoolWorkers : jobCur'[j] = IF j = k THEN h ELSE jobCur[j]
    BY <2>3 DEF PoolInv, PoolTypes
  <2>7. \A j \in PoolWorkers : wpc'[j] = IF j = k THEN "run" ELSE wpc[j]
    BY <1>1, <1>4 DEF PoolInv, PoolTypes
  <2>8. \A j \in PoolWorkers :
         /\ wpc'[j] = "run" => jobCur'[j] \in entered' \ ran'
         /\ wpc'[j] # "run" => jobCur'[j] = Job!NoJob
         /\ \A i \in DOMAIN jobQueue' : jobCur'[j] # jobQueue'[i]
    BY <1>1, <2>4, <2>5, <2>6, <2>7 DEF PoolInv, JobPlaces
  <2>9. \A i, j \in PoolWorkers : i # j /\ jobCur'[i] # Job!NoJob => jobCur'[i] # jobCur'[j]
    BY <2>4, <2>6 DEF PoolInv, JobPlaces
  <2> QED
    BY <1>1, <2>5, <2>8, <2>9 DEF PoolInv, JobPlaces, Carried
<1> QED
  BY <1>3, <1>4

LEMMA PoolPlacesStep ==
    ASSUME MaxJobs \in Nat, PoolInv, [Job!Next]_Job!vars
    PROVE  JobPlaces'
<1> USE DEF Job!SubmitTo, Job!WorkTo, Job!submitVars, Job!workVars, Job!stopVars
<1>a. /\ calls \in Nat /\ job \in [Callers -> Job!Jobs \cup {Job!NoJob}] /\ jobCur \in [PoolWorkers -> Job!Jobs \cup {Job!NoJob}]
      /\ spc \in [Callers -> {"idle", "test", "enqueue", "release"}]
      /\ wpc \in [PoolWorkers -> {"check", "test", "wait", "retest", "take", "run", "exited"}]
      /\ JobPlaces
  BY DEF PoolInv, PoolTypes
<1>1. ASSUME NEW s \in Callers, Job!Submit(s) PROVE JobPlaces'
  <2>1. /\ UNCHANGED <<jobQueue, entered, ran, jobCur, wpc>> /\ calls' = calls + 1
        /\ \A u \in Callers : u # s => job'[u] = job[u] /\ spc'[u] = spc[u]
        /\ job'[s] = calls + 1
    BY <1>1, <1>a DEF Job!Submit
  <2>2. \A u \in Callers : Carried(u)' => job'[u] \in (1..calls') \ entered'
    BY <1>a, <2>1 DEF JobPlaces, Carried
  <2>3. \A u, v \in Callers : u # v /\ Carried(u)' /\ Carried(v)' => job'[u] # job'[v]
    <3>1. \A u \in Callers : u # s /\ Carried(u)' => Carried(u) /\ job'[u] = job[u] /\ job[u] # calls + 1
      BY <1>a, <2>1 DEF JobPlaces, Carried
    <3> QED
      BY <1>a, <2>1, <3>1 DEF JobPlaces
  <2> QED
    BY <1>a, <2>1, <2>2, <2>3 DEF JobPlaces
<1>2. ASSUME NEW s \in Callers, Job!EnqueueTest(s) \/ Job!Release(s) PROVE JobPlaces'
  <2>1. UNCHANGED <<jobQueue, entered, ran, jobCur, wpc, calls, job>>
    BY <1>2 DEF Job!EnqueueTest, Job!Release
  <2>2. \A u \in Callers : Carried(u)' => Carried(u)
    BY <1>2, <1>a DEF Job!EnqueueTest, Job!Release, Carried
  <2> QED
    BY <1>a, <2>1, <2>2 DEF JobPlaces
<1>3. ASSUME NEW k \in PoolWorkers, Job!WorkerCheck(k) \/ Job!DequeueTest(k) \/ Job!Wait(k) \/ Job!WaitTimeout(k) \/ Job!DequeueRetest(k)
      PROVE  JobPlaces'
  <2>1. UNCHANGED <<jobQueue, entered, ran, jobCur, calls, job, spc>>
    BY <1>3 DEF Job!WorkerCheck, Job!DequeueTest, Job!Wait, Job!WaitTimeout, Job!DequeueRetest
  <2>2. \A j \in PoolWorkers : wpc'[j] = "run" <=> wpc[j] = "run"
    BY <1>3, <1>a DEF Job!WorkerCheck, Job!DequeueTest, Job!Wait, Job!WaitTimeout, Job!DequeueRetest
  <2> QED
    BY <1>a, <2>1, <2>2 DEF JobPlaces, Carried
<1>4. ASSUME NEW k \in PoolWorkers, Job!Run(k) PROVE JobPlaces'
  <2>1. /\ wpc[k] = "run" /\ UNCHANGED <<jobQueue, entered, calls, job, spc>> /\ ran' = ran \cup {jobCur[k]}
        /\ \A j \in PoolWorkers : /\ jobCur'[j] = IF j = k THEN Job!NoJob ELSE jobCur[j]
                              /\ wpc'[j] = IF j = k THEN "check" ELSE wpc[j]
    BY <1>4, <1>a DEF Job!Run
  <2>2. jobCur[k] \in entered \ ran /\ jobCur[k] # Job!NoJob
    BY <1>a, <2>1 DEF JobPlaces, Job!NoJob
  <2>3. \A i \in DOMAIN jobQueue : jobQueue[i] \in entered \ ran' /\ jobQueue[i] # Job!NoJob
    BY <1>a, <2>1 DEF JobPlaces, Job!NoJob
  <2>4. \A j \in PoolWorkers : j # k /\ wpc[j] = "run" => jobCur[j] \in entered \ ran'
    BY <1>a, <2>1, <2>2 DEF JobPlaces
  <2>5. \A j \in PoolWorkers :
         /\ wpc'[j] = "run" => jobCur'[j] \in entered' \ ran'
         /\ wpc'[j] # "run" => jobCur'[j] = Job!NoJob
         /\ \A i \in DOMAIN jobQueue' : jobCur'[j] # jobQueue'[i]
    BY <1>a, <2>1, <2>3, <2>4 DEF JobPlaces
  <2>6. \A i, j \in PoolWorkers : i # j /\ jobCur'[i] # Job!NoJob => jobCur'[i] # jobCur'[j]
    BY <1>a, <2>1 DEF JobPlaces
  <2>7. ran' \subseteq entered' /\ entered' \subseteq 1..calls'
    BY <1>a, <2>1, <2>2 DEF JobPlaces
  <2> QED
    BY <1>a, <2>1, <2>3, <2>5, <2>6, <2>7 DEF JobPlaces, Carried
<1>5. CASE Job!Shutdown \/ Job!StopStep \/ UNCHANGED Job!vars
  BY <1>5, <1>a DEF Job!Shutdown, Job!StopStep, Job!QueueShutdown, Job!WakeAll, Job!Join, Job!vars, JobPlaces, Carried
<1> QED
  BY <1>1, <1>2, <1>3, <1>4, <1>5, EnqueuePlaces, TakePlaces DEF Job!Next, Job!SubmitStep, Job!WorkStep

LEMMA PoolSeen ==
    ASSUME IsFiniteSet(Callers), IsFiniteSet(PoolWorkers), MaxJobs \in Nat, Releases \in Nat
    PROVE  PoolInv => Job!TypeOK /\ TokenPerJob
<1> SUFFICES ASSUME PoolInv PROVE Job!TypeOK /\ TokenPerJob
  OBVIOUS
<1>1. semaphore \in 0..(MaxJobs + Releases)
  BY CountsFinite DEF PoolInv, PoolTypes, TokensBounded
<1>2. Job!TypeOK
  BY <1>1 DEF PoolInv, PoolTypes, Job!TypeOK
<1>3. \A k \in PoolWorkers : jobCur[k] \notin ran
  BY DEF PoolInv, PoolTypes, JobPlaces, Job!NoJob
<1>4. \A j, k \in PoolWorkers : j # k /\ jobCur[j] # Job!NoJob => jobCur[j] # jobCur[k]
  BY DEF PoolInv, JobPlaces
<1>5. TokenPerJob
  BY <1>3, <1>4, JobCardinality, Zenon DEF PoolInv, Tokens, TokenPerJob, Job!TokenPerJob, Bringing, Releasing
<1> QED
  BY <1>2, <1>5

(* Until the queue is shut down every queued job has a token in the        *)
(* semaphore or on its way, and no job is ever with two workers or run     *)
(* again (JobQueue, ThreadPool), for any submitters, workers and jobs.     *)
THEOREM PoolTokens ==
    ASSUME IsFiniteSet(Callers), IsFiniteSet(PoolWorkers), MaxJobs \in Nat, Releases \in Nat
    PROVE  Job!Spec => [](Job!TypeOK /\ TokenPerJob)
<1>1. Job!Init => PoolInv
  BY PoolInit
<1>2. PoolInv /\ [Job!Next]_Job!vars => PoolInv'
  BY PoolTypesStep, PoolTokensStep, PoolPlacesStep DEF PoolInv
<1>3. PoolInv => Job!TypeOK /\ TokenPerJob
  BY PoolSeen
<1> QED
  BY <1>1, <1>2, <1>3, PTL DEF Job!Spec

-----------------------------------------------------------------------------
(***************************************************************************)
(* LFObjectPoolTLS.                                                        *)
(***************************************************************************)

(* The objects that are with the program or about to be, and those of one  *)
(* chunk by their index.                                                   *)
Held == {o \in Pool!Objects : \E t \in Callers : poolPc[t] = "replace" /\ hand[t] = o}
Lent(c) == {i \in 0..(ChunkSize - 1) : <<c, i>> \in live \cup Held}

(* A current chunk has objects left, or its last one is in its thread's    *)
(* hand.                                                                   *)
CurrentInv ==
    \A t \in Callers :
        /\ tls[t] = Null => poolPc[t] # "replace"
        /\ tls[t] # Null /\ poolPc[t] # "replace" => allocIndex[tls[t]] < ChunkSize
        /\ poolPc[t] = "replace" => hand[t] = <<tls[t], ChunkSize - 1>> /\ allocIndex[tls[t]] = ChunkSize
        /\ \A u \in Callers : t # u /\ tls[t] # Null => tls[t] # tls[u]

(* A chunk that is in the pool or on its way there is spent, and is in one *)
(* place.                                                                  *)
Spent(c) == c \in poolMade /\ allocIndex[c] = ChunkSize /\ freeIndex[c] = ChunkSize /\ \A t \in Callers : tls[t] # c
AwayInv ==
    /\ \A i \in DOMAIN pool : Spent(pool[i])
    /\ \A i, j \in DOMAIN pool : i # j => pool[i] # pool[j]
    /\ \A t \in Callers : poolPc[t] = "return" =>
          /\ Spent(hand[t])
          /\ \A i \in DOMAIN pool : pool[i] # hand[t]
          /\ \A u \in Callers : t # u /\ poolPc[u] = "return" => hand[u] # hand[t]

(* The two indices of a chunk tell how many of its objects are out.        *)
LentInv ==
    /\ live \cap Held = {}
    /\ \A c \in Chunks \ poolMade : allocIndex[c] = 0 /\ freeIndex[c] = 0
    /\ \A c \in Chunks : /\ Cardinality(Lent(c)) = allocIndex[c] - freeIndex[c]
                         /\ \A i \in Lent(c) : i < allocIndex[c]

ChunkInv == Pool!TypeOK /\ CurrentInv /\ AwayInv /\ LentInv

LEMMA LentFinite ==
    ASSUME ChunkSize \in Nat \ {0}, NEW c
    PROVE  IsFiniteSet(Lent(c)) /\ Cardinality(Lent(c)) \in Nat
<1>1. IsFiniteSet(0..(ChunkSize - 1))
  BY FS_Interval
<1>2. Lent(c) \subseteq 0..(ChunkSize - 1)
  BY DEF Lent
<1>3. IsFiniteSet(Lent(c))
  BY <1>1, <1>2, FS_Subset
<1> QED
  BY <1>3, FS_CardinalityType

LEMMA ChunkInit ==
    ASSUME ChunkSize \in Nat \ {0}, Pool!Init
    PROVE  ChunkInv
<1>1. Pool!TypeOK
  BY DEF Pool!Init, Pool!TypeOK
<1>2. CurrentInv /\ AwayInv
  BY DEF Pool!Init, CurrentInv, AwayInv
<1>3. live \cup Held = {}
  BY DEF Pool!Init, Held
<1>4. ASSUME NEW c \in Chunks
      PROVE  /\ Cardinality(Lent(c)) = allocIndex[c] - freeIndex[c]
             /\ \A i \in Lent(c) : i < allocIndex[c]
  <2>1. Lent(c) = {} /\ allocIndex[c] = 0 /\ freeIndex[c] = 0
    BY <1>3 DEF Lent, Pool!Init
  <2> QED
    BY <2>1, FS_EmptySet
<1>5. LentInv
  BY <1>3, <1>4 DEF LentInv, Pool!Init
<1> QED
  BY <1>1, <1>2, <1>5 DEF ChunkInv

(* Nothing of a spent chunk, or of one not made yet, is out. *)
LEMMA NothingOut ==
    ASSUME ChunkSize \in Nat \ {0}, ChunkInv, NEW c \in Chunks, allocIndex[c] = freeIndex[c]
    PROVE  Lent(c) = {}
<1>1. allocIndex[c] \in Nat /\ Cardinality(Lent(c)) = allocIndex[c] - freeIndex[c]
  BY DEF ChunkInv, LentInv, Pool!TypeOK
<1>2. Cardinality(Lent(c)) = 0
  BY <1>1
<1> QED
  BY <1>2, LentFinite, FS_EmptySet

(* chunk_pool_.Alloc with Set and TlsSetValue: what it does to each        *)
(* variable.  The chunk was spent or new, and is nobody's.                 *)
Fresh(t, c) ==
    /\ c \in Chunks /\ allocIndex[c] = freeIndex[c] /\ \A u \in Callers : tls[u] # c
    /\ allocIndex' = [allocIndex EXCEPT ![c] = 0] /\ freeIndex' = [freeIndex EXCEPT ![c] = 0]
    /\ tls' = [tls EXCEPT ![t] = c]
    /\ poolMade' = poolMade \cup {c} /\ pool' \in Seq(poolMade')
    /\ \A i \in DOMAIN pool' : pool'[i] # c /\ \E j \in DOMAIN pool : pool'[i] = pool[j]
    /\ \A i, j \in DOMAIN pool' : i # j => pool'[i] # pool'[j]
    /\ \A u \in Callers : poolPc[u] = "return" => hand[u] # c

LEMMA TakeChunkEffect ==
    ASSUME ChunkSize \in Nat \ {0}, Null \notin Chunks, ChunkInv, NEW t \in Callers, Pool!TakeChunk(t)
    PROVE  \E c : Fresh(t, c)
<1>1. PICK c \in Chunks :
        /\ \/ pool # <<>> /\ c = Head(pool) /\ pool' = Tail(pool) /\ poolMade' = poolMade
           \/ pool = <<>> /\ c \notin poolMade /\ poolMade' = poolMade \cup {c} /\ pool' = pool
        /\ allocIndex' = [allocIndex EXCEPT ![c] = 0] /\ freeIndex' = [freeIndex EXCEPT ![c] = 0]
        /\ tls' = [tls EXCEPT ![t] = c]
  BY DEF Pool!TakeChunk
<1>2. pool \in Seq(poolMade) /\ poolMade \subseteq Chunks /\ tls \in [Callers -> poolMade \cup {Null}]
  BY DEF ChunkInv, Pool!TypeOK
<1>3. CASE pool # <<>> /\ c = Head(pool) /\ pool' = Tail(pool) /\ poolMade' = poolMade
  <2>1. PICK n \in Nat : /\ DOMAIN pool = 1..(n + 1) /\ DOMAIN pool' = 1..n /\ c = pool[1]
                         /\ pool' \in Seq(poolMade) /\ \A i \in 1..n : pool'[i] = pool[i + 1]
    <3>1. Len(pool) - 1 \in Nat
      BY <1>2, <1>3
    <3> QED
      BY <1>2, <1>3, <3>1
  <2>2. 1 \in DOMAIN pool /\ \A i \in DOMAIN pool' : i + 1 \in DOMAIN pool /\ i + 1 # 1 /\ pool'[i] = pool[i + 1]
    BY <2>1
  <2>3. Spent(c) /\ \A u \in Callers : poolPc[u] = "return" => hand[u] # c
    BY <2>1, <2>2 DEF ChunkInv, AwayInv
  <2>4. \A i \in DOMAIN pool' : pool'[i] # c /\ \E j \in DOMAIN pool : pool'[i] = pool[j]
    BY <2>1, <2>2 DEF ChunkInv, AwayInv
  <2>5. ASSUME NEW i \in DOMAIN pool', NEW j \in DOMAIN pool', i # j PROVE pool'[i] # pool'[j]
    <3>1. i + 1 # j + 1
      BY <2>1, <2>5
    <3> QED
      BY <2>2, <3>1 DEF ChunkInv, AwayInv
  <2>6. poolMade' = poolMade \cup {c} /\ pool' \in Seq(poolMade')
    BY <1>3, <2>1, <2>3 DEF Spent
  <2> QED
    BY <1>1, <2>3, <2>4, <2>5, <2>6 DEF Fresh, Spent
<1>4. CASE pool = <<>> /\ c \notin poolMade /\ poolMade' = poolMade \cup {c} /\ pool' = pool
  <2>1. DOMAIN pool' = {} /\ pool' \in Seq(poolMade')
    BY <1>4
  <2>2. \A u \in Callers : tls[u] # c
    BY <1>1, <1>2, <1>4
  <2>3. \A u \in Callers : poolPc[u] = "return" => hand[u] # c
    BY <1>4 DEF ChunkInv, AwayInv, Spent
  <2>4. allocIndex[c] = freeIndex[c]
    BY <1>1, <1>4 DEF ChunkInv, LentInv
  <2> QED
    BY <1>1, <1>4, <2>1, <2>2, <2>3, <2>4 DEF Fresh
<1> QED
  BY <1>1, <1>3, <1>4

(* A thread gets a new current chunk, and what is out stays out. *)
LEMMA FreshStep ==
    ASSUME ChunkSize \in Nat \ {0}, Null \notin Chunks, ChunkInv, NEW t \in Callers, NEW c, Fresh(t, c),
           poolPc' \in [Callers -> {"idle", "replace", "return"}],
           hand' \in [Callers -> Pool!Objects \cup Chunks \cup {Null}],
           live' \subseteq Pool!Objects,
           poolPc'[t] = "idle", \A u \in Callers : u # t => poolPc'[u] = poolPc[u] /\ hand'[u] = hand[u],
           live' \cup Held' = live \cup Held, live' \cap Held' = {}
    PROVE  ChunkInv'
<1>1. /\ c \in Chunks /\ c # Null /\ allocIndex[c] = freeIndex[c] /\ \A u \in Callers : tls[u] # c
      /\ poolMade' = poolMade \cup {c} /\ pool' \in Seq(poolMade')
  BY DEF Fresh
<1>2. /\ poolMade \subseteq Chunks /\ tls \in [Callers -> poolMade \cup {Null}]
      /\ allocIndex \in [Chunks -> 0..ChunkSize] /\ freeIndex \in [Chunks -> 0..ChunkSize]
  BY DEF ChunkInv, Pool!TypeOK
<1>3. /\ allocIndex' \in [Chunks -> 0..ChunkSize] /\ freeIndex' \in [Chunks -> 0..ChunkSize]
      /\ \A d \in Chunks : /\ allocIndex'[d] = IF d = c THEN 0 ELSE allocIndex[d]
                           /\ freeIndex'[d] = IF d = c THEN 0 ELSE freeIndex[d]
  BY <1>1, <1>2 DEF Fresh
<1>4. /\ tls' \in [Callers -> poolMade' \cup {Null}]
      /\ \A u \in Callers : tls'[u] = IF u = t THEN c ELSE tls[u]
  BY <1>1, <1>2 DEF Fresh
<1>5. Pool!TypeOK'
  BY <1>1, <1>2, <1>3, <1>4 DEF Pool!TypeOK, Pool!Objects
<1>6. CurrentInv'
  <2>1. \A u \in Callers : u # t /\ tls[u] # Null => tls[u] \in Chunks /\ tls[u] # c
    BY <1>1, <1>2
  <2>2. \A u \in Callers : u # t /\ poolPc[u] = "replace" => tls[u] # Null
    BY DEF ChunkInv, CurrentInv
  <2>3. ASSUME NEW u \in Callers, u # t
        PROVE  /\ tls'[u] = Null => poolPc'[u] # "replace"
               /\ tls'[u] # Null /\ poolPc'[u] # "replace" => allocIndex'[tls'[u]] < ChunkSize
               /\ poolPc'[u] = "replace" => hand'[u] = <<tls'[u], ChunkSize - 1>> /\ allocIndex'[tls'[u]] = ChunkSize
    <3>1. tls'[u] = tls[u] /\ poolPc'[u] = poolPc[u] /\ hand'[u] = hand[u]
      BY <1>4, <2>3
    <3>2. tls[u] # Null => allocIndex'[tls[u]] = allocIndex[tls[u]]
      BY <1>3, <2>1, <2>3
    <3> QED
      BY <2>2, <2>3, <3>1, <3>2 DEF ChunkInv, CurrentInv
  <2>4. tls'[t] = c /\ c # Null /\ poolPc'[t] # "replace" /\ allocIndex'[tls'[t]] < ChunkSize
    BY <1>1, <1>3, <1>4
  <2>5. \A u, v \in Callers : u # v /\ tls'[u] # Null => tls'[u] # tls'[v]
    BY <1>1, <1>4 DEF ChunkInv, CurrentInv
  <2> QED
    BY <2>3, <2>4, <2>5 DEF CurrentInv
<1>7. \A d \in Chunks : d # c /\ Spent(d) => Spent(d)'
  BY <1>1, <1>3, <1>4 DEF Spent
<1>8. AwayInv'
  <2>1. \A i \in DOMAIN pool' : Spent(pool[i])'
    <3>1. ASSUME NEW i \in DOMAIN pool' PROVE pool'[i] \in Chunks /\ pool'[i] # c /\ Spent(pool'[i])
      BY <1>2 DEF Fresh, ChunkInv, AwayInv, Spent
    <3> QED
      BY <1>7, <3>1 DEF Spent
  <2>2. ASSUME NEW u \in Callers, poolPc'[u] = "return"
        PROVE  /\ Spent(hand[u])'
               /\ \A i \in DOMAIN pool' : pool'[i] # hand'[u]
               /\ \A v \in Callers : u # v /\ poolPc'[v] = "return" => hand'[v] # hand'[u]
    <3>1. u # t /\ poolPc[u] = "return" /\ hand'[u] = hand[u]
      BY <2>2
    <3>2. hand[u] # c /\ Spent(hand[u]) /\ hand[u] \in Chunks
      BY <1>2, <3>1 DEF Fresh, ChunkInv, AwayInv, Spent
    <3>3. Spent(hand[u])'
      BY <1>7, <3>1, <3>2 DEF Spent
    <3>4. \A i \in DOMAIN pool' : pool'[i] # hand'[u]
      BY <3>1 DEF Fresh, ChunkInv, AwayInv
    <3>5. \A v \in Callers : u # v /\ poolPc'[v] = "return" => hand'[v] # hand'[u]
      <4>1. \A v \in Callers : poolPc'[v] = "return" => v # t /\ poolPc[v] = "return" /\ hand'[v] = hand[v]
        OBVIOUS
      <4> QED
        BY <3>1, <4>1 DEF ChunkInv, AwayInv
    <3> QED
      BY <3>3, <3>4, <3>5
  <2>3. \A i, j \in DOMAIN pool' : i # j => pool'[i] # pool'[j]
    BY DEF Fresh
  <2> QED
    BY <2>1, <2>2, <2>3 DEF AwayInv
<1>9. LentInv'
  <2>1. \A d : Lent(d)' = Lent(d)
    BY DEF Lent
  <2>2. Lent(c) = {}
    BY <1>1, NothingOut
  <2>3. ASSUME NEW d \in Chunks
        PROVE  /\ Cardinality(Lent(d)') = allocIndex'[d] - freeIndex'[d]
               /\ \A i \in Lent(d)' : i < allocIndex'[d]
    <3>1. CASE d = c
      <4>1. Cardinality(Lent(d)') = 0 /\ Lent(d)' = {}
        BY <2>1, <2>2, <3>1, FS_EmptySet
      <4> QED
        BY <1>1, <1>3, <3>1, <4>1
    <3>2. CASE d # c
      BY <1>3, <2>1, <3>2 DEF ChunkInv, LentInv
    <3> QED
      BY <3>1, <3>2
  <2>4. \A d \in Chunks \ poolMade' : allocIndex'[d] = 0 /\ freeIndex'[d] = 0
    BY <1>1, <1>3 DEF ChunkInv, LentInv
  <2> QED
    BY <2>3, <2>4 DEF LentInv
<1> QED
  BY <1>5, <1>6, <1>8, <1>9 DEF ChunkInv

LEMMA FirstChunkStep ==
    ASSUME ChunkSize \in Nat \ {0}, Null \notin Chunks, ChunkInv, NEW t \in Callers, Pool!FirstChunk(t)
    PROVE  ChunkInv'
<1>1. PICK c : Fresh(t, c)
  BY TakeChunkEffect DEF Pool!FirstChunk
<1>2. UNCHANGED <<live, poolPc, hand>> /\ poolPc[t] = "idle"
  BY DEF Pool!FirstChunk
<1>3. Held' = Held
  BY <1>2 DEF Held, Pool!Objects
<1>4. /\ poolPc \in [Callers -> {"idle", "replace", "return"}] /\ live \subseteq Pool!Objects
      /\ hand \in [Callers -> Pool!Objects \cup Chunks \cup {Null}] /\ live \cap Held = {}
  BY DEF ChunkInv, LentInv, Pool!TypeOK
<1> QED
  BY <1>1, <1>2, <1>3, <1>4, FreshStep

(* The object in a thread's hand is in no other's. *)
LEMMA HandsDiffer ==
    ASSUME ChunkInv, NEW t \in Callers, NEW u \in Callers, t # u,
           poolPc[t] = "replace", poolPc[u] = "replace"
    PROVE  hand[t] # hand[u]
<1>1. hand[t] = <<tls[t], ChunkSize - 1>> /\ hand[u] = <<tls[u], ChunkSize - 1>> /\ tls[t] # tls[u]
  BY DEF ChunkInv, CurrentInv
<1> QED
  BY <1>1

LEMMA ReplaceStep ==
    ASSUME ChunkSize \in Nat \ {0}, Null \notin Chunks, ChunkInv, NEW t \in Callers, Pool!Replace(t)
    PROVE  ChunkInv'
<1>1. PICK c : Fresh(t, c)
  BY TakeChunkEffect DEF Pool!Replace
<1>2. /\ poolPc[t] = "replace" /\ live' = live \cup {hand[t]}
      /\ hand' = [hand EXCEPT ![t] = Null] /\ poolPc' = [poolPc EXCEPT ![t] = "idle"]
  BY DEF Pool!Replace
<1>3. /\ poolPc \in [Callers -> {"idle", "replace", "return"}] /\ live \subseteq Pool!Objects
      /\ hand \in [Callers -> Pool!Objects \cup Chunks \cup {Null}] /\ live \cap Held = {}
      /\ tls \in [Callers -> poolMade \cup {Null}] /\ poolMade \subseteq Chunks
  BY DEF ChunkInv, LentInv, Pool!TypeOK
<1>4. hand[t] \in Pool!Objects
  <2>1. hand[t] = <<tls[t], ChunkSize - 1>> /\ tls[t] \in Chunks
    BY <1>2, <1>3 DEF ChunkInv, CurrentInv
  <2> QED
    BY <2>1 DEF Pool!Objects
<1>5. hand[t] \in Held
  BY <1>2, <1>4 DEF Held
<1>6. /\ poolPc' \in [Callers -> {"idle", "replace", "return"}] /\ poolPc'[t] = "idle"
      /\ hand' \in [Callers -> Pool!Objects \cup Chunks \cup {Null}]
      /\ \A u \in Callers : u # t => poolPc'[u] = poolPc[u] /\ hand'[u] = hand[u]
  BY <1>2, <1>3
<1>7. Held' = Held \ {hand[t]}
  <2>1. Pool!Objects' = Pool!Objects
    BY DEF Pool!Objects
  <2>2. \A o \in Held' : o \in Held /\ o # hand[t]
    BY <1>2, <1>6, <2>1, HandsDiffer DEF Held
  <2>3. \A o \in Held : o # hand[t] => o \in Held'
    BY <1>6, <2>1 DEF Held
  <2>4. hand[t] \notin Held'
    BY <2>2
  <2> QED
    BY <2>2, <2>3
<1>8. live' \cup Held' = live \cup Held /\ live' \cap Held' = {} /\ live' \subseteq Pool!Objects
  BY <1>2, <1>3, <1>4, <1>5, <1>7
<1> QED
  BY <1>1, <1>6, <1>8, FreshStep

(* Chunk::Alloc hands out the next index of the thread's chunk. *)
LEMMA AllocStep ==
    ASSUME ChunkSize \in Nat \ {0}, Null \notin Chunks, ChunkInv, NEW t \in Callers, Pool!Alloc(t)
    PROVE  ChunkInv'
<1>0. PICK c : c = tls[t]
  OBVIOUS
<1>o. PICK o : o = <<c, allocIndex[c]>>
  OBVIOUS
<1>1. /\ poolPc[t] = "idle" /\ c # Null /\ allocIndex' = [allocIndex EXCEPT ![c] = @ + 1]
      /\ UNCHANGED <<pool, poolMade, tls, freeIndex>>
      /\ \/ /\ allocIndex[c] + 1 # ChunkSize /\ live' = live \cup {o} /\ UNCHANGED <<poolPc, hand>>
         \/ /\ allocIndex[c] + 1 = ChunkSize /\ hand' = [hand EXCEPT ![t] = o]
            /\ poolPc' = [poolPc EXCEPT ![t] = "replace"] /\ UNCHANGED live
  BY <1>0, <1>o DEF Pool!Alloc
<1>2. /\ poolPc \in [Callers -> {"idle", "replace", "return"}] /\ live \subseteq Pool!Objects
      /\ hand \in [Callers -> Pool!Objects \cup Chunks \cup {Null}] /\ live \cap Held = {}
      /\ tls \in [Callers -> poolMade \cup {Null}] /\ poolMade \subseteq Chunks
      /\ allocIndex \in [Chunks -> 0..ChunkSize] /\ freeIndex \in [Chunks -> 0..ChunkSize]
  BY DEF ChunkInv, LentInv, Pool!TypeOK
<1>3. /\ c \in Chunks /\ c \in poolMade /\ allocIndex[c] \in 0..(ChunkSize - 1)
      /\ \A d \in Chunks : allocIndex'[d] = IF d = c THEN allocIndex[c] + 1 ELSE allocIndex[d]
      /\ allocIndex' \in [Chunks -> 0..ChunkSize]
  <2>1. c \in Chunks /\ c \in poolMade /\ allocIndex[c] < ChunkSize
    BY <1>0, <1>1, <1>2 DEF ChunkInv, CurrentInv
  <2> QED
    BY <1>1, <1>2, <2>1
<1>4. o \in Pool!Objects
  BY <1>o, <1>3 DEF Pool!Objects
<1>5. allocIndex[c] \notin Lent(c)
  BY <1>3 DEF ChunkInv, LentInv
<1>6. o \notin live \cup Held
  BY <1>o, <1>3, <1>5 DEF Lent
<1>7. /\ live' \subseteq Pool!Objects /\ poolPc' \in [Callers -> {"idle", "replace", "return"}]
      /\ hand' \in [Callers -> Pool!Objects \cup Chunks \cup {Null}]
      /\ \A u \in Callers : u # t => poolPc'[u] = poolPc[u] /\ hand'[u] = hand[u]
  BY <1>1, <1>2, <1>4
<1>8. Pool!TypeOK'
  BY <1>1, <1>2, <1>3, <1>7 DEF Pool!TypeOK, Pool!Objects, ChunkInv
<1>9. Pool!Objects' = Pool!Objects
  BY DEF Pool!Objects
<1>10. live' \cup Held' = live \cup Held \cup {o} /\ live' \cap Held' = {}
  <2>1. CASE live' = live \cup {o} /\ UNCHANGED <<poolPc, hand>>
    <3>1. Held' = Held
      BY <1>9, <2>1 DEF Held
    <3> QED
      BY <1>2, <1>6, <2>1, <3>1
  <2>2. CASE hand' = [hand EXCEPT ![t] = o] /\ poolPc' = [poolPc EXCEPT ![t] = "replace"] /\ UNCHANGED live
    <3>1. Held' = Held \cup {o}
      <4>1. hand'[t] = o /\ poolPc'[t] = "replace"
        BY <1>2, <2>2
      <4>2. \A x \in Held' : x = o \/ x \in Held
        BY <1>7, <1>9, <4>1 DEF Held
      <4>3. \A x \in Held : x \in Held'
        BY <1>1, <1>7, <1>9 DEF Held
      <4>4. o \in Held'
        BY <1>4, <1>9, <4>1 DEF Held
      <4> QED
        BY <4>2, <4>3, <4>4
    <3> QED
      BY <1>2, <1>6, <2>2, <3>1
  <2> QED
    BY <1>1, <2>1, <2>2
<1>11. CurrentInv'
  <2>1. \A u \in Callers : u # t /\ tls[u] # Null => tls[u] \in Chunks /\ tls[u] # c
    BY <1>0, <1>2, <1>3 DEF ChunkInv, CurrentInv
  <2>2. ASSUME NEW u \in Callers, u # t
        PROVE  /\ tls'[u] = Null => poolPc'[u] # "replace"
               /\ tls'[u] # Null /\ poolPc'[u] # "replace" => allocIndex'[tls'[u]] < ChunkSize
               /\ poolPc'[u] = "replace" => hand'[u] = <<tls'[u], ChunkSize - 1>> /\ allocIndex'[tls'[u]] = ChunkSize
    BY <1>1, <1>3, <1>7, <2>1, <2>2 DEF ChunkInv, CurrentInv
  <2>3. /\ tls'[t] = c
        /\ poolPc'[t] # "replace" => allocIndex'[c] < ChunkSize
        /\ poolPc'[t] = "replace" => hand'[t] = <<c, ChunkSize - 1>> /\ allocIndex'[c] = ChunkSize
    BY <1>0, <1>o, <1>1, <1>2, <1>3
  <2> QED
    BY <1>1, <2>2, <2>3 DEF ChunkInv, CurrentInv
<1>12. AwayInv'
  <2>1. \A d : Spent(d) => Spent(d)' /\ d # c
    BY <1>0, <1>1, <1>2, <1>3 DEF Spent
  <2>2. \A u \in Callers : poolPc'[u] = "return" => poolPc[u] = "return" /\ hand'[u] = hand[u]
    BY <1>1, <1>2, <1>7
  <2>3. \A i \in DOMAIN pool' : Spent(pool[i])'
    BY <1>1, <2>1 DEF ChunkInv, AwayInv, Spent
  <2>4. \A u \in Callers : poolPc'[u] = "return" => Spent(hand[u])'
    BY <1>1, <2>1, <2>2 DEF ChunkInv, AwayInv, Spent
  <2> QED
    BY <1>1, <2>2, <2>3, <2>4 DEF ChunkInv, AwayInv
<1>13. LentInv'
  <2>1. ASSUME NEW d \in Chunks
        PROVE  /\ Cardinality(Lent(d)') = allocIndex'[d] - freeIndex'[d]
               /\ \A i \in Lent(d)' : i < allocIndex'[d]
    <3>1. CASE d = c
      <4>1. Lent(c)' = Lent(c) \cup {allocIndex[c]}
        BY <1>o, <1>3, <1>10 DEF Lent
      <4>2. Cardinality(Lent(c)') = Cardinality(Lent(c)) + 1
        BY <1>5, <4>1, LentFinite, CardinalityPlus
      <4>3. Cardinality(Lent(c)) = allocIndex[c] - freeIndex[c] /\ \A i \in Lent(c) : i < allocIndex[c]
        BY <1>3 DEF ChunkInv, LentInv
      <4>4. freeIndex'[c] = freeIndex[c] /\ freeIndex[c] \in Nat /\ allocIndex[c] \in Nat
        BY <1>1, <1>2, <1>3
      <4>5. \A i \in Lent(c) : i \in Nat
        BY DEF Lent
      <4> QED
        BY <1>3, <3>1, <4>1, <4>2, <4>3, <4>4, <4>5
    <3>2. CASE d # c
      <4>1. Lent(d)' = Lent(d)
        BY <1>o, <1>10, <3>2 DEF Lent
      <4> QED
        BY <1>1, <1>3, <3>2, <4>1 DEF ChunkInv, LentInv
    <3> QED
      BY <3>1, <3>2
  <2>2. \A d \in Chunks \ poolMade' : allocIndex'[d] = 0 /\ freeIndex'[d] = 0
    BY <1>1, <1>3 DEF ChunkInv, LentInv
  <2> QED
    BY <1>10, <2>1, <2>2 DEF LentInv
<1> QED
  BY <1>8, <1>11, <1>12, <1>13 DEF ChunkInv

(* Chunk::Free takes one object of a chunk back; the free that is told it  *)
(* was the last finds the chunk spent.                                     *)
LEMMA FreeStep ==
    ASSUME ChunkSize \in Nat \ {0}, Null \notin Chunks, ChunkInv, NEW t \in Callers, Pool!Free(t)
    PROVE  ChunkInv'
<1>1. PICK o \in live :
        /\ poolPc[t] = "idle" /\ live' = live \ {o} /\ freeIndex' = [freeIndex EXCEPT ![o[1]] = @ + 1]
        /\ \/ Pool!LastFree(o[1]) /\ hand' = [hand EXCEPT ![t] = o[1]] /\ poolPc' = [poolPc EXCEPT ![t] = "return"]
           \/ ~Pool!LastFree(o[1]) /\ UNCHANGED <<hand, poolPc>>
        /\ UNCHANGED <<pool, poolMade, tls, allocIndex>>
  BY DEF Pool!Free
<1>2. /\ poolPc \in [Callers -> {"idle", "replace", "return"}] /\ live \subseteq Pool!Objects
      /\ hand \in [Callers -> Pool!Objects \cup Chunks \cup {Null}] /\ live \cap Held = {}
      /\ tls \in [Callers -> poolMade \cup {Null}] /\ poolMade \subseteq Chunks /\ pool \in Seq(poolMade)
      /\ allocIndex \in [Chunks -> 0..ChunkSize] /\ freeIndex \in [Chunks -> 0..ChunkSize]
  BY DEF ChunkInv, LentInv, Pool!TypeOK
<1>3. PICK c \in Chunks, x \in 0..(ChunkSize - 1) : o = <<c, x>> /\ o[1] = c
  BY <1>1, <1>2 DEF Pool!Objects
<1>4. x \in Lent(c)
  BY <1>1, <1>3 DEF Lent
<1>5. /\ Cardinality(Lent(c)) = allocIndex[c] - freeIndex[c]
      /\ Cardinality(Lent(c) \ {x}) = Cardinality(Lent(c)) - 1
      /\ Cardinality(Lent(c)) \in Nat \ {0} /\ IsFiniteSet(Lent(c) \ {x})
  BY <1>4, LentFinite, CardinalityMinus, FS_RemoveElement DEF ChunkInv, LentInv
<1>6. /\ allocIndex[c] \in 0..ChunkSize /\ freeIndex[c] \in 0..ChunkSize /\ freeIndex[c] < allocIndex[c]
  BY <1>2, <1>5
<1>7. /\ freeIndex' \in [Chunks -> 0..ChunkSize]
      /\ \A d \in Chunks : freeIndex'[d] = IF d = c THEN freeIndex[c] + 1 ELSE freeIndex[d]
  BY <1>1, <1>2, <1>3, <1>6
<1>8. /\ poolPc' \in [Callers -> {"idle", "replace", "return"}]
      /\ hand' \in [Callers -> Pool!Objects \cup Chunks \cup {Null}]
      /\ \A u \in Callers : u # t => poolPc'[u] = poolPc[u] /\ hand'[u] = hand[u]
      /\ \A u \in Callers : (poolPc'[u] = "replace" <=> poolPc[u] = "replace")
                            /\ (poolPc[u] = "replace" => hand'[u] = hand[u])
  <2>1. CASE UNCHANGED <<hand, poolPc>>
    BY <1>2, <2>1
  <2>2. CASE hand' = [hand EXCEPT ![t] = c] /\ poolPc' = [poolPc EXCEPT ![t] = "return"]
    BY <1>1, <1>2, <2>2
  <2> QED
    BY <1>1, <1>3, <2>1, <2>2
<1>9. Pool!TypeOK'
  BY <1>1, <1>2, <1>7, <1>8 DEF Pool!TypeOK, Pool!Objects
<1>10. Held' = Held
  <2>1. Pool!Objects' = Pool!Objects
    BY DEF Pool!Objects
  <2> QED
    BY <1>8, <2>1 DEF Held
<1>11. live' \cup Held' = (live \cup Held) \ {o} /\ live' \cap Held' = {}
  BY <1>1, <1>2, <1>10
<1>12. CurrentInv'
  BY <1>1, <1>8 DEF ChunkInv, CurrentInv
<1>13. c \in poolMade
  BY <1>6 DEF ChunkInv, LentInv
<1>14. Pool!LastFree(c) => Spent(c)'
  <2> SUFFICES ASSUME Pool!LastFree(c) PROVE Spent(c)'
    OBVIOUS
  <2>1. allocIndex[c] = ChunkSize /\ freeIndex'[c] = ChunkSize /\ Cardinality(Lent(c) \ {x}) = 0
    BY <1>3, <1>5, <1>6, <1>7 DEF Pool!LastFree
  <2>2. Lent(c) = {x}
    BY <1>4, <1>5, <2>1, FS_EmptySet
  <2>3. ASSUME NEW u \in Callers, tls[u] = c PROVE FALSE
    <3>1. poolPc[u] = "replace" /\ hand[u] = <<c, ChunkSize - 1>>
      BY <1>3, <2>1, <2>3 DEF ChunkInv, CurrentInv
    <3>2. <<c, ChunkSize - 1>> \in Held
      BY <1>3, <3>1 DEF Held, Pool!Objects
    <3>3. ChunkSize - 1 \in Lent(c)
      BY <3>2 DEF Lent
    <3>4. o \in Held
      BY <1>3, <2>2, <3>2, <3>3
    <3> QED
      BY <1>1, <1>2, <3>4
  <2> QED
    BY <1>1, <1>13, <2>1, <2>3 DEF Spent
<1>15. \A d : Spent(d) => Spent(d)' /\ d # c
  BY <1>1, <1>2, <1>6, <1>7 DEF Spent
<1>16. AwayInv'
  <2>1. \A i \in DOMAIN pool' : Spent(pool[i])' /\ pool'[i] # c
    BY <1>1, <1>15 DEF ChunkInv, AwayInv, Spent
  <2>2. ASSUME NEW u \in Callers, poolPc'[u] = "return"
        PROVE  \/ poolPc[u] = "return" /\ hand'[u] = hand[u] /\ hand[u] # c /\ Spent(hand[u])'
               \/ u = t /\ hand'[u] = c /\ Spent(hand[u])'
    <3>1. CASE poolPc[u] = "return"
      <4>1. u # t /\ hand'[u] = hand[u]
        BY <1>1, <1>8, <3>1
      <4> QED
        BY <1>15, <3>1, <4>1 DEF ChunkInv, AwayInv, Spent
    <3>2. CASE poolPc[u] # "return"
      <4>1. u = t /\ hand'[u] = c /\ Pool!LastFree(c)
        BY <1>1, <1>2, <1>3, <1>8, <2>2, <3>2
      <4> QED
        BY <1>14, <4>1 DEF Spent
    <3> QED
      BY <3>1, <3>2
  <2>3. \A u \in Callers : poolPc'[u] = "return" => \A i \in DOMAIN pool' : pool'[i] # hand'[u]
    BY <1>1, <2>1, <2>2 DEF ChunkInv, AwayInv
  <2>4. \A u, v \in Callers : u # v /\ poolPc'[u] = "return" /\ poolPc'[v] = "return" => hand'[u] # hand'[v]
    BY <2>2 DEF ChunkInv, AwayInv
  <2>5. \A i, j \in DOMAIN pool' : i # j => pool'[i] # pool'[j]
    BY <1>1 DEF ChunkInv, AwayInv
  <2> QED
    BY <2>1, <2>2, <2>3, <2>4, <2>5 DEF AwayInv
<1>17. LentInv'
  <2>1. ASSUME NEW d \in Chunks
        PROVE  /\ Cardinality(Lent(d)') = allocIndex'[d] - freeIndex'[d]
               /\ \A i \in Lent(d)' : i < allocIndex'[d]
    <3>1. CASE d = c
      <4>1. Lent(c)' = Lent(c) \ {x}
        BY <1>3, <1>11 DEF Lent
      <4>2. \A i \in Lent(c) : i < allocIndex[c]
        BY DEF ChunkInv, LentInv
      <4> QED
        BY <1>1, <1>5, <1>6, <1>7, <3>1, <4>1, <4>2
    <3>2. CASE d # c
      <4>1. Lent(d)' = Lent(d)
        BY <1>3, <1>11, <3>2 DEF Lent
      <4> QED
        BY <1>1, <1>7, <3>2, <4>1 DEF ChunkInv, LentInv
    <3> QED
      BY <3>1, <3>2
  <2>2. \A d \in Chunks \ poolMade' : allocIndex'[d] = 0 /\ freeIndex'[d] = 0
    BY <1>1, <1>7, <1>13 DEF ChunkInv, LentInv
  <2> QED
    BY <1>11, <2>1, <2>2 DEF LentInv
<1> QED
  BY <1>9, <1>12, <1>16, <1>17 DEF ChunkInv

LEMMA ReturnChunkStep ==
    ASSUME ChunkSize \in Nat \ {0}, Null \notin Chunks, ChunkInv, NEW t \in Callers, Pool!ReturnChunk(t)
    PROVE  ChunkInv'
<1>1. PICK c : c = hand[t]
  OBVIOUS
<1>2. /\ poolPc[t] = "return" /\ pool' = <<c>> \o pool
      /\ hand' = [hand EXCEPT ![t] = Null] /\ poolPc' = [poolPc EXCEPT ![t] = "idle"]
      /\ UNCHANGED <<poolMade, tls, allocIndex, freeIndex, live>>
  BY <1>1 DEF Pool!ReturnChunk
<1>3. /\ poolPc \in [Callers -> {"idle", "replace", "return"}] /\ pool \in Seq(poolMade)
      /\ hand \in [Callers -> Pool!Objects \cup Chunks \cup {Null}]
  BY DEF ChunkInv, Pool!TypeOK
<1>4. Spent(c) /\ c \in poolMade /\ \A i \in DOMAIN pool : pool[i] # c
  BY <1>1, <1>2 DEF ChunkInv, AwayInv, Spent
<1>5. PICK n \in Nat : /\ pool' \in Seq(poolMade) /\ DOMAIN pool = 1..n /\ DOMAIN pool' = 1..(n + 1)
                       /\ pool'[1] = c /\ \A i \in 2..(n + 1) : pool'[i] = pool[i - 1]
  BY <1>2, <1>3, <1>4
<1>6. /\ poolPc' \in [Callers -> {"idle", "replace", "return"}]
      /\ hand' \in [Callers -> Pool!Objects \cup Chunks \cup {Null}]
      /\ \A u \in Callers : u # t => poolPc'[u] = poolPc[u] /\ hand'[u] = hand[u]
      /\ poolPc'[t] = "idle"
  BY <1>2, <1>3
<1>7. Pool!TypeOK'
  BY <1>2, <1>5, <1>6 DEF ChunkInv, Pool!TypeOK, Pool!Objects
<1>8. CurrentInv'
  BY <1>2, <1>6 DEF ChunkInv, CurrentInv
<1>9. Held' = Held
  <2>1. Pool!Objects' = Pool!Objects
    BY DEF Pool!Objects
  <2> QED
    BY <1>2, <1>6, <2>1 DEF Held
<1>10. LentInv'
  <2>1. \A d : Lent(d)' = Lent(d)
    BY <1>2, <1>9 DEF Lent
  <2> QED
    BY <1>2, <1>9, <2>1 DEF ChunkInv, LentInv
<1>11. \A d : Spent(d) => Spent(d)'
  BY <1>2 DEF Spent
<1>12. \A i \in DOMAIN pool' : i = 1 \/ (i # 1 /\ i - 1 \in DOMAIN pool /\ pool'[i] = pool[i - 1])
  BY <1>5
<1>13. AwayInv'
  <2>1. \A i \in DOMAIN pool' : Spent(pool[i])'
    <3>1. \A i \in DOMAIN pool' : Spent(pool'[i])
      BY <1>4, <1>5, <1>12 DEF ChunkInv, AwayInv
    <3> QED
      BY <1>2, <3>1 DEF Spent
  <2>2. ASSUME NEW i \in DOMAIN pool', NEW j \in DOMAIN pool', i # j PROVE pool'[i] # pool'[j]
    <3>1. i - 1 # j - 1
      BY <1>5, <2>2
    <3> QED
      BY <1>4, <1>5, <1>12, <2>2, <3>1 DEF ChunkInv, AwayInv
  <2>3. ASSUME NEW u \in Callers, poolPc'[u] = "return"
        PROVE  /\ Spent(hand[u])' /\ \A i \in DOMAIN pool' : pool'[i] # hand'[u]
               /\ \A v \in Callers : u # v /\ poolPc'[v] = "return" => hand'[v] # hand'[u]
    <3>1. u # t /\ poolPc[u] = "return" /\ hand'[u] = hand[u]
      BY <1>6, <2>3
    <3>2. hand[u] # c /\ Spent(hand[u]) /\ \A i \in DOMAIN pool : pool[i] # hand[u]
      BY <1>1, <1>2, <3>1 DEF ChunkInv, AwayInv
    <3>3. \A v \in Callers : poolPc'[v] = "return" => poolPc[v] = "return" /\ hand'[v] = hand[v]
      BY <1>6
    <3>4. Spent(hand[u])'
      BY <1>2, <3>1, <3>2 DEF Spent
    <3>5. \A i \in DOMAIN pool' : pool'[i] # hand'[u]
      BY <1>5, <1>12, <3>1, <3>2
    <3> QED
      BY <3>1, <3>3, <3>4, <3>5 DEF ChunkInv, AwayInv
  <2> QED
    BY <2>1, <2>2, <2>3 DEF AwayInv
<1> QED
  BY <1>7, <1>8, <1>10, <1>13 DEF ChunkInv

LEMMA ChunkPreserves ==
    ASSUME ChunkSize \in Nat \ {0}, Null \notin Chunks
    PROVE  ChunkInv /\ [Pool!Next]_Pool!vars => ChunkInv'
<1> SUFFICES ASSUME ChunkInv, [Pool!Next]_Pool!vars PROVE ChunkInv'
  OBVIOUS
<1>1. CASE UNCHANGED Pool!vars
  <2>1. Pool!TypeOK' /\ CurrentInv' /\ AwayInv'
    BY <1>1 DEF Pool!vars, ChunkInv, Pool!TypeOK, Pool!Objects, CurrentInv, AwayInv, Spent
  <2>2. Held' = Held /\ \A c : Lent(c)' = Lent(c)
    BY <1>1 DEF Pool!vars, Pool!Objects, Lent, Held
  <2>3. LentInv'
    BY <1>1, <2>2 DEF Pool!vars, ChunkInv, LentInv
  <2> QED
    BY <2>1, <2>3 DEF ChunkInv
<1> QED
  BY <1>1, FirstChunkStep, AllocStep, ReplaceStep, FreeStep, ReturnChunkStep DEF Pool!Next

LEMMA ChunkSeen ==
    ASSUME ChunkSize \in Nat \ {0}, Null \notin Chunks
    PROVE  ChunkInv => Pool!TypeOK /\ ChunksRecycledOnce
<1> SUFFICES ASSUME ChunkInv PROVE ChunksRecycledOnce
  BY DEF ChunkInv
<1>1. Pool!InHand = Held
  <2>1. ASSUME NEW u \in Callers, poolPc[u] = "replace" PROVE hand[u] \in Pool!Objects
    <3>1. hand[u] = <<tls[u], ChunkSize - 1>> /\ tls[u] \in Chunks
      BY <2>1 DEF ChunkInv, CurrentInv, Pool!TypeOK
    <3> QED
      BY <3>1 DEF Pool!Objects
  <2> QED
    BY <2>1 DEF Pool!InHand, Held
<1>2. \A c \in Pool!Pooled \cup Pool!Returning : Spent(c) /\ c \in Chunks
  BY DEF ChunkInv, AwayInv, Pool!Pooled, Pool!Returning, Spent, Pool!TypeOK
<1>3. ASSUME NEW c \in Pool!Pooled \cup Pool!Returning
      PROVE  /\ \A t \in Callers : tls[t] # c
             /\ \A i \in 0..(ChunkSize - 1) : <<c, i>> \notin live \cup Pool!InHand
  <2>1. Lent(c) = {}
    BY <1>2, NothingOut DEF Spent
  <2> QED
    BY <1>1, <1>2, <2>1 DEF Lent, Spent
<1>4. Pool!Pooled \cap Pool!Returning = {} /\ Pool!InHand \cap live = {}
  BY <1>1 DEF ChunkInv, AwayInv, LentInv, Pool!Pooled, Pool!Returning
<1>5. ASSUME NEW t \in Callers, tls[t] # Null, NEW i \in allocIndex[tls[t]]..(ChunkSize - 1)
      PROVE  <<tls[t], i>> \notin live
  <2>1. tls[t] \in Chunks /\ allocIndex[tls[t]] \in Nat
    BY <1>5 DEF ChunkInv, Pool!TypeOK
  <2>2. i \in 0..(ChunkSize - 1) /\ i \notin Lent(tls[t])
    BY <2>1 DEF ChunkInv, LentInv
  <2> QED
    BY <2>2 DEF Lent
<1> QED
  BY <1>3, <1>4, <1>5 DEF ChunkInv, AwayInv, CurrentInv, ChunksRecycledOnce, Pool!ChunksRecycledOnce

(* A chunk is in one place, and an object has one owner, although a thread *)
(* fills the chunk, all threads empty it and it is used again              *)
(* (LFObjectPoolTLS::Alloc, Free), for any threads, chunks and chunk size. *)
THEOREM ChunksHaveOneOwner ==
    ASSUME ChunkSize \in Nat \ {0}, Null \notin Chunks
    PROVE  Pool!Spec => [](Pool!TypeOK /\ ChunksRecycledOnce)
<1>1. Pool!Init => ChunkInv
  BY ChunkInit
<1>2. ChunkInv /\ [Pool!Next]_Pool!vars => ChunkInv'
  BY ChunkPreserves
<1>3. ChunkInv => Pool!TypeOK /\ ChunksRecycledOnce
  BY ChunkSeen
<1> QED
  BY <1>1, <1>2, <1>3, PTL DEF Pool!Spec

-----------------------------------------------------------------------------
(***************************************************************************)
(* The sliding window.                                                     *)
(***************************************************************************)
WindowConstants ==
    /\ Samples \in Nat \ {0} /\ Second \in Nat \ {0}
    /\ MaxWindowTime \in Nat /\ MaxRecords \in Nat

Ticks(n) == n * Second

(* The sample i places behind position w, and the position after w.        *)
Behind(w, i) == IF i <= w THEN w - i ELSE w - i + Samples
After(w) == IF w + 1 = Samples THEN 0 ELSE w + 1

Elapsed == Window!get_elapsed_seconds
Due == IF Elapsed < Samples THEN Elapsed ELSE Samples

(* The turns of advance_time_window that are done.                         *)
Turned == IF winPc = "advance" THEN Due - left ELSE 0

WindowTypes ==
    /\ winNow \in 0..MaxWindowTime /\ lastUpdate \in 0..winNow
    /\ writePos \in 0..(Samples - 1) /\ left \in 0..Samples
    /\ at \in Seq(Nat) /\ \A r \in DOMAIN at : at[r] <= winNow
    /\ samples \in [0..(Samples - 1) -> SUBSET DOMAIN at]
    /\ winPc \in {"idle", "advance", "add"}

(* The record under way is in no sample yet; it comes at once, or after    *)
(* the turns that are due.                                                 *)
RecordInv ==
    /\ \A i, j \in DOMAIN samples : i # j => samples[i] \cap samples[j] = {}
    /\ winPc # "idle" => /\ at # <<>> /\ at[Len(at)] = winNow
                         /\ \A i \in DOMAIN samples : Len(at) \notin samples[i]
    /\ winPc = "advance" => Elapsed >= 1 /\ left <= Due
    /\ winPc = "add" => winNow - lastUpdate < Second

(* A sample that is i places behind the current one of lastUpdate began at *)
(* least i and less than 2i + 1 seconds before: each move by k places took *)
(* k seconds and a fraction that was dropped.                              *)
AgeInv ==
    \A i \in 0..(Samples - 1) : \A r \in samples[Behind(writePos, i)] :
       /\ Turned <= i
       /\ lastUpdate - at[r] <= Ticks(2 * (i - Turned))
       /\ lastUpdate - at[r] > Ticks(i - Turned - 1)

(* A record is lost only when it is older than the window.                 *)
KeptInv ==
    \A r \in DOMAIN at :
       \/ winPc # "idle" /\ r = Len(at)
       \/ \E i \in 0..(Samples - 1) : r \in samples[Behind(writePos, i)]
       \/ lastUpdate - at[r] > Ticks(Samples - Turned - 1)

WindowInv == WindowTypes /\ RecordInv /\ AgeInv /\ KeptInv

LEMMA TicksFacts ==
    ASSUME WindowConstants
    PROVE  /\ \A n \in Int : Ticks(n) \in Int /\ Ticks(n + 1) = Ticks(n) + Second
           /\ \A m, n \in Int : Ticks(m + n) = Ticks(m) + Ticks(n) /\ (m <= n => Ticks(m) <= Ticks(n))
           /\ Ticks(0) = 0 /\ Ticks(1) = Second
<1>1. ASSUME NEW m \in Int, NEW n \in Int PROVE Ticks(m + n) = Ticks(m) + Ticks(n)
  BY DEF Ticks, WindowConstants
<1>2. ASSUME NEW m \in Int, NEW n \in Int, m <= n PROVE Ticks(m) <= Ticks(n)
  <2>1. (n - m) * Second >= 0
    BY <1>2 DEF WindowConstants
  <2>2. n * Second = m * Second + (n - m) * Second
    BY DEF WindowConstants
  <2>3. QED
    BY <2>1, <2>2 DEF Ticks, WindowConstants
<1>3. QED
  BY <1>1, <1>2 DEF Ticks, WindowConstants

LEMMA ElapsedFacts ==
    ASSUME WindowConstants, WindowTypes
    PROVE  /\ Elapsed \in Nat /\ Due \in 0..Samples /\ Due <= Elapsed
           /\ Ticks(Elapsed) <= winNow - lastUpdate /\ winNow - lastUpdate < Ticks(Elapsed) + Second
<1> DEFINE d == winNow - lastUpdate
<1>1. d \in Nat /\ Second \in Nat \ {0}
  BY DEF WindowConstants, WindowTypes
<1>2. d \div Second \in Nat /\ (d \div Second) * Second <= d /\ d < (d \div Second) * Second + Second
  <2> HIDE DEF d
  <2> QED
    BY <1>1
<1>3. QED
  BY <1>2 DEF Elapsed, Window!get_elapsed_seconds, Due, Ticks, WindowConstants

LEMMA Positions ==
    ASSUME WindowConstants, NEW w \in 0..(Samples - 1)
    PROVE  /\ (w + 1) % Samples = After(w) /\ After(w) \in 0..(Samples - 1)
           /\ \A i \in 0..(Samples - 1) :
                 (w - i + Samples) % Samples = Behind(w, i) /\ Behind(w, i) \in 0..(Samples - 1)
           /\ \A p \in 0..(Samples - 1) : \E i \in 0..(Samples - 1) : p = Behind(w, i)
           /\ \A i, j \in 0..(Samples - 1) : Behind(w, i) = Behind(w, j) => i = j
           /\ \A i \in 1..(Samples - 1) : Behind(After(w), i) = Behind(w, i - 1)
           /\ Behind(After(w), 0) = Behind(w, Samples - 1) /\ After(w) = Behind(After(w), 0)
           /\ Behind(w, 0) = w
<1> USE DEF WindowConstants
<1>1. \A n \in 0..(Samples - 1) : n % Samples = n /\ (n + Samples) % Samples = n
  OBVIOUS
<1>2. Samples % Samples = 0
  OBVIOUS
<1>3. (w + 1) % Samples = After(w) /\ After(w) \in 0..(Samples - 1)
  BY <1>1, <1>2 DEF After
<1>4. ASSUME NEW i \in 0..(Samples - 1)
      PROVE  (w - i + Samples) % Samples = Behind(w, i) /\ Behind(w, i) \in 0..(Samples - 1)
  <2>1. CASE i <= w
    <3>1. w - i \in 0..(Samples - 1)
      BY <2>1
    <3>2. QED
      BY <2>1, <3>1, <1>1 DEF Behind
  <2>2. CASE i > w
    <3>1. w - i + Samples \in 0..(Samples - 1)
      BY <2>2
    <3>2. QED
      BY <2>2, <3>1, <1>1 DEF Behind
  <2>3. QED
    BY <2>1, <2>2
<1>5. ASSUME NEW p \in 0..(Samples - 1)
      PROVE  \E i \in 0..(Samples - 1) : p = Behind(w, i)
  <2>1. CASE p <= w
    BY <2>1, w - p \in 0..(Samples - 1), p = Behind(w, w - p) DEF Behind
  <2>2. CASE p > w
    BY <2>2, w - p + Samples \in 0..(Samples - 1), p = Behind(w, w - p + Samples) DEF Behind
  <2>3. QED
    BY <2>1, <2>2
<1>6. QED
  BY <1>3, <1>4, <1>5 DEF Behind, After

LEMMA WindowInit ==
    ASSUME WindowConstants, Window!Init
    PROVE  WindowInv
<1> USE DEF WindowConstants, Window!Init
<1>1. WindowTypes
  <2>1. at \in Seq(Nat) /\ DOMAIN at = {} /\ 0 \in 0..MaxWindowTime /\ 0 \in 0..(Samples - 1)
    OBVIOUS
  <2>2. QED
    BY <2>1 DEF WindowTypes
<1>2. \A i \in 0..(Samples - 1) : Behind(writePos, i) \in 0..(Samples - 1)
  BY <1>1, Positions DEF WindowTypes
<1>3. RecordInv /\ AgeInv /\ KeptInv
  BY <1>2 DEF RecordInv, AgeInv, KeptInv
<1>4. QED
  BY <1>1, <1>3 DEF WindowInv

LEMMA WindowRecord ==
    ASSUME WindowConstants, WindowInv, Window!record
    PROVE  WindowInv'
<1>1. /\ winPc = "idle" /\ at' = Append(at, winNow) /\ left' = Due
      /\ winPc' = IF Elapsed >= 1 THEN "advance" ELSE "add"
      /\ winNow' = winNow /\ samples' = samples /\ writePos' = writePos /\ lastUpdate' = lastUpdate
  BY DEF Window!record, Due, Elapsed
<1>2. WindowTypes /\ Elapsed' = Elapsed /\ Due' = Due
  BY <1>1 DEF WindowInv, Due, Elapsed, Window!get_elapsed_seconds
<1>3. /\ Elapsed \in Nat /\ Due \in 0..Samples
      /\ winNow - lastUpdate < Ticks(Elapsed) + Second /\ Ticks(0) = 0
  BY <1>2, ElapsedFacts, TicksFacts
<1>4. /\ at' \in Seq(Nat) /\ Len(at') = Len(at) + 1 /\ at'[Len(at')] = winNow /\ at' # <<>>
      /\ DOMAIN at' = DOMAIN at \cup {Len(at')} /\ Len(at') \notin DOMAIN at
      /\ \A r \in DOMAIN at : at'[r] = at[r]
  BY <1>1, <1>2 DEF WindowTypes
<1>5. WindowTypes'
  BY <1>1, <1>2, <1>3, <1>4 DEF WindowTypes
<1>6. Turned = 0 /\ Turned' = 0
  BY <1>1, <1>2, <1>3 DEF Turned
<1>7. RecordInv'
  <2>1. \A i \in DOMAIN samples : Len(at') \notin samples[i]
    BY <1>2, <1>4 DEF WindowTypes
  <2>2. winPc' = "add" => winNow - lastUpdate < Second
    BY <1>1, <1>2, <1>3 DEF WindowTypes, WindowConstants
  <2>3. QED
    BY <1>1, <1>2, <1>3, <1>4, <2>1, <2>2 DEF WindowInv, RecordInv
<1>8. \A i \in 0..(Samples - 1) : samples[Behind(writePos, i)] \subseteq DOMAIN at
  BY <1>2, Positions DEF WindowTypes
<1>9. AgeInv'
  BY <1>1, <1>4, <1>6, <1>8 DEF WindowInv, AgeInv
<1>10. KeptInv'
  BY <1>1, <1>4, <1>6 DEF WindowInv, KeptInv
<1>11. QED
  BY <1>5, <1>7, <1>9, <1>10 DEF WindowInv

LEMMA WindowAdvance ==
    ASSUME WindowConstants, WindowInv, Window!Advance
    PROVE  WindowInv'
<1> DEFINE next0 == After(writePos)
<1>1. /\ winPc = "advance" /\ left > 0 /\ left' = left - 1 /\ writePos' = next0
      /\ samples' = [samples EXCEPT ![next0] = {}] /\ next0 \in 0..(Samples - 1)
      /\ winNow' = winNow /\ lastUpdate' = lastUpdate /\ at' = at /\ winPc' = winPc
  BY Positions DEF Window!Advance, WindowInv, WindowTypes
<1>2. WindowTypes /\ Elapsed' = Elapsed /\ Due' = Due
  BY <1>1 DEF WindowInv, Due, Elapsed, Window!get_elapsed_seconds
<1>3. Elapsed \in Nat /\ Due \in 0..Samples
  BY <1>2, ElapsedFacts
<1>4. WindowTypes'
  <2> HIDE DEF next0
  <2>1. left' \in 0..Samples
    BY <1>1, <1>2 DEF WindowTypes, WindowConstants
  <2>2. samples' \in [0..(Samples - 1) -> SUBSET DOMAIN at]
    BY <1>1, <1>2, {} \in SUBSET DOMAIN at DEF WindowTypes
  <2>3. QED
    BY <1>1, <1>2, <2>1, <2>2 DEF WindowTypes
<1>5. Turned' = Turned + 1 /\ Turned \in Nat /\ Turned < Samples
  <2>1. left \in 0..Samples /\ left <= Due /\ left > 0
    BY <1>1, <1>2 DEF WindowInv, RecordInv, WindowTypes
  <2>2. Turned = Due - left /\ Turned' = Due - (left - 1)
    BY <1>1, <1>2 DEF Turned
  <2>3. QED
    BY <1>3, <2>1, <2>2 DEF WindowConstants
<1>6. RecordInv'
  BY <1>1, <1>2, <1>3 DEF WindowInv, RecordInv, WindowTypes
<1>7. /\ \A i \in 1..(Samples - 1) : Behind(next0, i) = Behind(writePos, i - 1)
      /\ Behind(next0, 0) = Behind(writePos, Samples - 1) /\ next0 = Behind(next0, 0)
      /\ \A i \in 0..(Samples - 1) : Behind(next0, i) \in 0..(Samples - 1)
      /\ \A i, j \in 0..(Samples - 1) : Behind(next0, i) = Behind(next0, j) => i = j
  <2>1. writePos \in 0..(Samples - 1)
    BY <1>2 DEF WindowTypes
  <2>2. QED
    BY <1>1, <2>1, Positions
<1> HIDE DEF next0
<1>8. /\ samples'[Behind(next0, 0)] = {}
      /\ \A i \in 1..(Samples - 1) : samples'[Behind(next0, i)] = samples[Behind(writePos, i - 1)]
  <2>1. DOMAIN samples = 0..(Samples - 1) /\ 0 \in 0..(Samples - 1)
    BY <1>2 DEF WindowTypes, WindowConstants
  <2>2. samples'[Behind(next0, 0)] = {}
    BY <1>1, <1>7, <2>1
  <2>3. ASSUME NEW i \in 1..(Samples - 1)
        PROVE  samples'[Behind(next0, i)] = samples[Behind(writePos, i - 1)]
    <3>1. i \in 0..(Samples - 1) /\ i # 0
      OBVIOUS
    <3>2. Behind(next0, i) # next0 /\ Behind(next0, i) \in 0..(Samples - 1)
      BY <1>7, <2>1, <3>1
    <3>3. QED
      BY <1>1, <1>7, <2>1, <3>2
  <2>4. QED
    BY <2>2, <2>3
<1>9. AgeInv'
  <2> SUFFICES ASSUME NEW i \in 0..(Samples - 1), NEW r \in samples'[Behind(next0, i)]
               PROVE  /\ Turned' <= i
                      /\ lastUpdate - at[r] <= Ticks(2 * (i - Turned'))
                      /\ lastUpdate - at[r] > Ticks(i - Turned' - 1)
    BY <1>1 DEF AgeInv, Ticks
  <2>1. i \in 1..(Samples - 1) /\ i - 1 \in 0..(Samples - 1) /\ r \in samples[Behind(writePos, i - 1)]
    BY <1>8 DEF WindowConstants
  <2>2. /\ Turned <= i - 1 /\ lastUpdate - at[r] <= Ticks(2 * (i - 1 - Turned))
        /\ lastUpdate - at[r] > Ticks(i - 1 - Turned - 1)
    BY <2>1 DEF WindowInv, AgeInv
  <2>3. i - 1 - Turned = i - Turned' /\ i - 1 - Turned - 1 = i - Turned' - 1
    BY <1>5
  <2>4. QED
    BY <1>5, <2>2, <2>3
<1>10. KeptInv'
  <2> SUFFICES ASSUME NEW r \in DOMAIN at
               PROVE  \/ winPc # "idle" /\ r = Len(at)
                      \/ \E i \in 0..(Samples - 1) : r \in samples'[Behind(next0, i)]
                      \/ lastUpdate - at[r] > Ticks(Samples - Turned' - 1)
    BY <1>1 DEF KeptInv, Ticks
  <2>1. at[r] \in Nat /\ lastUpdate \in Nat
    BY <1>2 DEF WindowTypes
  <2>2. Samples - Turned' - 1 = Samples - 1 - Turned - 1 /\ Samples - 1 - Turned - 1 \in Int
    BY <1>5 DEF WindowConstants
  <2>3. CASE lastUpdate - at[r] > Ticks(Samples - Turned - 1)
    <3>1. Samples - 1 - Turned - 1 <= Samples - Turned - 1 /\ Samples - Turned - 1 \in Int
      BY <1>5 DEF WindowConstants
    <3>2. Ticks(Samples - 1 - Turned - 1) <= Ticks(Samples - Turned - 1)
          /\ Ticks(Samples - 1 - Turned - 1) \in Int /\ Ticks(Samples - Turned - 1) \in Int
      BY <2>2, <3>1, TicksFacts
    <3>3. QED
      BY <2>1, <2>2, <2>3, <3>2
  <2>4. ASSUME NEW i \in 0..(Samples - 1), r \in samples[Behind(writePos, i)]
        PROVE  \/ \E j \in 0..(Samples - 1) : r \in samples'[Behind(next0, j)]
               \/ lastUpdate - at[r] > Ticks(Samples - Turned' - 1)
    <3>1. CASE i = Samples - 1
      BY <2>2, <2>4, <3>1 DEF WindowInv, AgeInv
    <3>2. CASE i # Samples - 1
      <4>1. i + 1 \in 1..(Samples - 1) /\ i + 1 \in 0..(Samples - 1) /\ i + 1 - 1 = i
        BY <3>2 DEF WindowConstants
      <4>2. r \in samples'[Behind(next0, i + 1)]
        BY <1>8, <2>4, <4>1
      <4>3. QED
        BY <4>1, <4>2
    <3>3. QED
      BY <3>1, <3>2
  <2>5. QED
    BY <2>3, <2>4 DEF WindowInv, KeptInv
<1>11. QED
  BY <1>4, <1>6, <1>9, <1>10 DEF WindowInv

LEMMA WindowRestamp ==
    ASSUME WindowConstants, WindowInv, Window!Restamp
    PROVE  WindowInv'
<1>1. /\ winPc = "advance" /\ left = 0 /\ lastUpdate' = winNow /\ winPc' = "add"
      /\ winNow' = winNow /\ samples' = samples /\ writePos' = writePos /\ at' = at /\ left' = left
  BY DEF Window!Restamp
<1>2. WindowTypes
  BY DEF WindowInv
<1>3. /\ Elapsed \in Nat /\ Due \in 0..Samples /\ Due <= Elapsed /\ Elapsed >= 1
      /\ Ticks(Elapsed) <= winNow - lastUpdate /\ winNow - lastUpdate < Ticks(Elapsed) + Second
  BY <1>1, <1>2, ElapsedFacts DEF WindowInv, RecordInv
<1>4. Turned = Due /\ Turned' = 0 /\ (Due = Elapsed \/ Due = Samples)
  BY <1>1, <1>3 DEF Turned, Due, WindowConstants
<1>5. WindowTypes'
  BY <1>1, <1>2 DEF WindowTypes
<1>6. RecordInv'
  BY <1>1, <1>2 DEF WindowInv, RecordInv, WindowTypes, WindowConstants
<1>7. \A i \in 0..(Samples - 1) : samples[Behind(writePos, i)] \subseteq DOMAIN at
  BY <1>2, Positions DEF WindowTypes
<1>8. winNow \in Int /\ lastUpdate \in Int /\ Second \in Int /\ Samples \in Int
      /\ \A r \in DOMAIN at : at[r] \in Int
  BY <1>2 DEF WindowTypes, WindowConstants
<1>9. AgeInv'
  <2> SUFFICES ASSUME NEW i \in 0..(Samples - 1), NEW r \in samples[Behind(writePos, i)]
               PROVE  /\ winNow - at[r] <= Ticks(2 * i)
                      /\ winNow - at[r] > Ticks(i - 1)
    BY <1>1, <1>4 DEF AgeInv, Ticks
  <2>1. r \in DOMAIN at /\ at[r] \in Int
    BY <1>7, <1>8
  <2>2. /\ Due <= i /\ lastUpdate - at[r] <= Ticks(2 * (i - Due)) /\ lastUpdate - at[r] > Ticks(i - Due - 1)
    BY <1>4 DEF WindowInv, AgeInv
  <2>3. Due = Elapsed
    BY <1>3, <1>4, <2>2
  <2>4. PICK e \in Nat : e = Elapsed /\ e >= 1 /\ e <= i
    BY <1>3, <2>2, <2>3
  <2>5. /\ Ticks(e) \in Int /\ Ticks(2 * (i - e)) \in Int /\ Ticks(i - e - 1) \in Int
        /\ Ticks(2 * i) \in Int /\ Ticks(i - 1) \in Int
    <3>1. /\ e \in Int /\ 2 * (i - e) \in Int /\ i - e - 1 \in Int
          /\ 2 * i \in Int /\ i - 1 \in Int
      BY <2>4
    <3>2. QED
      BY <3>1, TicksFacts
  <2>6. Ticks(e) + Second + Ticks(2 * (i - e)) <= Ticks(2 * i)
    <3>1. (e + 1) + 2 * (i - e) <= 2 * i /\ e + 1 \in Int /\ 2 * (i - e) \in Int /\ 2 * i \in Int
      BY <2>4
    <3>2. /\ Ticks(e + 1) = Ticks(e) + Second
          /\ Ticks((e + 1) + 2 * (i - e)) = Ticks(e + 1) + Ticks(2 * (i - e))
      BY <3>1, e \in Int, TicksFacts
    <3>3. (e + 1) + 2 * (i - e) \in Int
      BY <3>1
    <3>4. Ticks((e + 1) + 2 * (i - e)) <= Ticks(2 * i)
      BY <3>1, <3>3, TicksFacts
    <3>5. QED
      BY <3>2, <3>4
  <2>7. Ticks(e) + Ticks(i - e - 1) = Ticks(i - 1)
    <3>1. e \in Int /\ i - e - 1 \in Int /\ e + (i - e - 1) = i - 1
      BY <2>4
    <3>2. QED
      BY <3>1, TicksFacts
  <2>8. PICK t1, t2, t3, t4, t5 \in Int : /\ t1 = Ticks(e) /\ t2 = Ticks(2 * (i - e)) /\ t3 = Ticks(i - e - 1)
                                          /\ t4 = Ticks(2 * i) /\ t5 = Ticks(i - 1)
    BY <2>5
  <2>9. QED
    BY <1>3, <1>8, <2>1, <2>2, <2>3, <2>4, <2>6, <2>7, <2>8
<1>10. KeptInv'
  <2> SUFFICES ASSUME NEW r \in DOMAIN at, r # Len(at),
                      ~ \E i \in 0..(Samples - 1) : r \in samples[Behind(writePos, i)]
               PROVE  winNow - at[r] > Ticks(Samples - 1)
    <3>1. Samples - Turned' - 1 = Samples - 1
      BY <1>4, <1>8
    <3>2. QED
      BY <1>1, <3>1 DEF KeptInv, Ticks
  <2>1. lastUpdate - at[r] > Ticks(Samples - Due - 1) /\ at[r] \in Int
    BY <1>4, <1>8 DEF WindowInv, KeptInv
  <2>2. PICK d \in Nat : d = Due /\ d <= Elapsed
    BY <1>3
  <2>3. Samples - d - 1 \in Int /\ d \in Int /\ d + (Samples - d - 1) = Samples - 1
    BY <1>8, <2>2
  <2>4. Ticks(d) + Ticks(Samples - d - 1) = Ticks(Samples - 1) /\ Ticks(d) <= Ticks(Elapsed)
        /\ Ticks(d) \in Int /\ Ticks(Samples - d - 1) \in Int /\ Ticks(Elapsed) \in Int
    BY <1>3, <2>2, <2>3, TicksFacts
  <2>5. QED
    BY <1>3, <1>8, <2>1, <2>2, <2>4
<1>11. QED
  BY <1>5, <1>6, <1>9, <1>10 DEF WindowInv

LEMMA WindowAdd ==
    ASSUME WindowConstants, WindowInv, Window!Add
    PROVE  WindowInv'
<1> DEFINE n == Len(at)
<1>1. /\ winPc = "add" /\ samples' = [samples EXCEPT ![writePos] = @ \cup {n}] /\ winPc' = "idle"
      /\ winNow' = winNow /\ writePos' = writePos /\ lastUpdate' = lastUpdate /\ at' = at /\ left' = left
  BY DEF Window!Add
<1>2. WindowTypes /\ n \in DOMAIN at /\ at[n] = winNow /\ winNow - lastUpdate < Second
      /\ \A i \in DOMAIN samples : n \notin samples[i]
  BY <1>1 DEF WindowInv, RecordInv, WindowTypes
<1> HIDE DEF n
<1>3. /\ writePos \in 0..(Samples - 1) /\ samples \in [0..(Samples - 1) -> SUBSET DOMAIN at]
      /\ winNow \in Int /\ lastUpdate \in Int /\ lastUpdate <= winNow /\ Second \in Int
  BY <1>2 DEF WindowTypes, WindowConstants
<1>4. /\ samples' \in [0..(Samples - 1) -> SUBSET DOMAIN at]
      /\ \A p \in 0..(Samples - 1) : samples'[p] = IF p = writePos THEN samples[p] \cup {n} ELSE samples[p]
  BY <1>1, <1>2, <1>3
<1>5. WindowTypes'
  BY <1>1, <1>2, <1>4 DEF WindowTypes
<1>6. RecordInv'
  BY <1>1, <1>2, <1>3, <1>4 DEF WindowInv, RecordInv
<1>7. Turned = 0 /\ Turned' = 0
  BY <1>1 DEF Turned
<1>8. /\ \A i \in 0..(Samples - 1) : Behind(writePos, i) \in 0..(Samples - 1)
      /\ Behind(writePos, 0) = writePos
      /\ \A i, j \in 0..(Samples - 1) : Behind(writePos, i) = Behind(writePos, j) => i = j
      /\ 0 \in 0..(Samples - 1)
  <2>1. 0 \in 0..(Samples - 1)
    BY DEF WindowConstants
  <2>2. QED
    BY <1>3, <2>1, Positions
<1>9. AgeInv'
  <2> SUFFICES ASSUME NEW i \in 0..(Samples - 1), NEW r \in samples'[Behind(writePos, i)]
               PROVE  /\ 0 <= i /\ lastUpdate - at[r] <= Ticks(2 * (i - 0))
                      /\ lastUpdate - at[r] > Ticks(i - 0 - 1)
    BY <1>1, <1>7 DEF AgeInv, Ticks
  <2>1. CASE r = n /\ i = 0
    <3>1. Ticks(2 * (i - 0)) = 0 /\ Ticks(i - 0 - 1) = - Second
      BY <1>3, <2>1 DEF Ticks
    <3>2. QED
      BY <1>2, <1>3, <2>1, <3>1
  <2>2. CASE r \in samples[Behind(writePos, i)]
    BY <1>7, <2>2 DEF WindowInv, AgeInv
  <2>3. QED
    BY <1>4, <1>8, <2>1, <2>2
<1>10. KeptInv'
  <2> SUFFICES ASSUME NEW r \in DOMAIN at
               PROVE  \/ \E i \in 0..(Samples - 1) : r \in samples'[Behind(writePos, i)]
                      \/ lastUpdate - at[r] > Ticks(Samples - Turned - 1)
    BY <1>1, <1>7 DEF KeptInv, Ticks
  <2>1. n \in samples'[Behind(writePos, 0)]
    BY <1>4, <1>8
  <2>2. \A i \in 0..(Samples - 1) : r \in samples[Behind(writePos, i)] => r \in samples'[Behind(writePos, i)]
    BY <1>4, <1>8
  <2>3. QED
    BY <1>8, <2>1, <2>2 DEF WindowInv, KeptInv, n
<1>11. QED
  BY <1>5, <1>6, <1>9, <1>10 DEF WindowInv

LEMMA WindowTick ==
    ASSUME WindowConstants, WindowInv, Window!Tick
    PROVE  WindowInv'
<1>1. /\ winPc = "idle" /\ winPc' = "idle" /\ winNow' = winNow + 1 /\ winNow < MaxWindowTime
      /\ samples' = samples /\ writePos' = writePos /\ lastUpdate' = lastUpdate /\ at' = at /\ left' = left
  BY DEF Window!Tick
<1>2. Turned = 0 /\ Turned' = 0
  BY <1>1 DEF Turned
<1>3. WindowTypes'
  BY <1>1 DEF WindowInv, WindowTypes, WindowConstants
<1>4. RecordInv'
  BY <1>1 DEF WindowInv, RecordInv
<1>5. AgeInv' /\ KeptInv'
  BY <1>1, <1>2 DEF WindowInv, AgeInv, KeptInv, Ticks
<1>6. QED
  BY <1>3, <1>4, <1>5 DEF WindowInv

LEMMA WindowPreserves ==
    ASSUME WindowConstants, WindowInv, [Window!Next]_Window!vars
    PROVE  WindowInv'
<1>1. CASE UNCHANGED Window!vars
  <2>1. /\ winPc' = winPc /\ winNow' = winNow /\ samples' = samples /\ writePos' = writePos
        /\ lastUpdate' = lastUpdate /\ at' = at /\ left' = left
    BY <1>1 DEF Window!vars
  <2>2. Elapsed' = Elapsed /\ Due' = Due /\ Turned' = Turned
    BY <2>1 DEF Elapsed, Due, Turned, Window!get_elapsed_seconds
  <2>3. QED
    BY <2>1, <2>2 DEF WindowInv, WindowTypes, RecordInv, AgeInv, KeptInv, Ticks
<1>2. QED
  BY <1>1, WindowRecord, WindowAdvance, WindowRestamp, WindowAdd, WindowTick DEF Window!Next

LEMMA WindowAverage ==
    ASSUME WindowConstants, WindowInv
    PROVE  WindowCounts
<1>1. WindowTypes
  BY DEF WindowInv
<1>2. /\ Elapsed \in Nat /\ Ticks(Elapsed) <= winNow - lastUpdate
      /\ winNow - lastUpdate < Ticks(Elapsed) + Second /\ Due \in 0..Samples
  BY <1>1, ElapsedFacts
<1>3. PICK e \in Nat : e = Elapsed
  BY <1>2
<1>4. /\ winNow \in Int /\ lastUpdate \in Int /\ Second \in Int /\ Samples \in Nat
      /\ \A r \in DOMAIN at : at[r] \in Int
      /\ \A i \in 0..(Samples - 1) : samples[Behind(writePos, i)] \subseteq DOMAIN at
  <2>1. writePos \in 0..(Samples - 1) /\ samples \in [0..(Samples - 1) -> SUBSET DOMAIN at]
    BY <1>1 DEF WindowTypes
  <2>2. \A i \in 0..(Samples - 1) : samples[Behind(writePos, i)] \subseteq DOMAIN at
    BY <2>1, Positions
  <2>3. QED
    BY <1>1, <2>2 DEF WindowTypes, WindowConstants
<1>5. Turned \in Nat
  <2>1. winPc = "advance" => left \in Nat /\ left <= Due
    BY <1>1 DEF WindowInv, RecordInv, WindowTypes
  <2>2. QED
    BY <1>2, <2>1 DEF Turned
<1>6. ASSUME NEW s \in 1..Samples
      PROVE  Window!get_average(s) = UNION {samples[Behind(writePos, i)] : i \in 0..(s - e - 1)}
  <2>1. \A i \in 0..(s - e - 1) : (writePos - i + Samples) % Samples = Behind(writePos, i)
    <3>1. \A i \in 0..(s - e - 1) : i \in 0..(Samples - 1)
      BY <1>4
    <3>2. QED
      BY <1>1, <3>1, Positions DEF WindowTypes
  <2>2. QED
    BY <1>3, <2>1 DEF Window!get_average, Elapsed
<1>7. ASSUME NEW s \in 1..Samples, NEW r \in Window!get_average(s)
      PROVE  winNow - at[r] < (2 * s - 1) * Second
  <2>1. PICK i \in 0..(s - e - 1) : r \in samples[Behind(writePos, i)]
    BY <1>6
  <2>2. i \in 0..(Samples - 1) /\ r \in DOMAIN at /\ at[r] \in Int
    BY <1>4, <2>1
  <2>3. Turned <= i /\ lastUpdate - at[r] <= Ticks(2 * (i - Turned))
    BY <2>1, <2>2 DEF WindowInv, AgeInv
  <2>4. PICK t \in Nat : t = Turned
    BY <1>5
  <2>5. /\ e \in Int /\ 2 * (i - t) \in Int /\ e + 1 \in Int /\ 2 * s - 1 \in Int
        /\ (e + 1) + 2 * (i - t) \in Int /\ (e + 1) + 2 * (i - t) <= 2 * s - 1
    BY <2>1, <2>4
  <2>6. /\ Ticks((e + 1) + 2 * (i - t)) = Ticks(e + 1) + Ticks(2 * (i - t))
        /\ Ticks(e + 1) = Ticks(e) + Second
        /\ Ticks((e + 1) + 2 * (i - t)) <= Ticks(2 * s - 1)
        /\ Ticks(e) \in Int /\ Ticks(2 * (i - t)) \in Int /\ Ticks(2 * s - 1) \in Int
    BY <2>5, TicksFacts
  <2>7. winNow - at[r] < Ticks(2 * s - 1)
    BY <1>2, <1>3, <1>4, <2>2, <2>3, <2>4, <2>6
  <2>8. QED
    BY <2>7 DEF Ticks
<1>8. ASSUME winPc = "idle", NEW s \in 1..Samples, NEW r \in DOMAIN at,
             winNow - at[r] <= (s - 1) * Second
      PROVE  r \in Window!get_average(s)
  <2>1. Turned = 0 /\ at[r] \in Int /\ winNow - at[r] <= Ticks(s - 1)
    BY <1>4, <1>8 DEF Turned, Ticks
  <2>2. ASSUME NEW k \in Int, lastUpdate - at[r] > Ticks(k)
        PROVE  e + k < s - 1
    <3>1. e \in Int /\ s - 1 \in Int /\ e + k \in Int
      OBVIOUS
    <3>2. Ticks(e + k) = Ticks(e) + Ticks(k) /\ (s - 1 <= e + k => Ticks(s - 1) <= Ticks(e + k))
          /\ Ticks(e) \in Int /\ Ticks(k) \in Int /\ Ticks(s - 1) \in Int
      BY <3>1, TicksFacts
    <3>3. ~ (Ticks(s - 1) <= Ticks(e + k))
      BY <1>2, <1>3, <1>4, <2>1, <2>2, <3>2
    <3>4. QED
      BY <3>1, <3>2, <3>3
  <2>3. ~ (lastUpdate - at[r] > Ticks(Samples - Turned - 1))
    <3>1. Samples - 1 \in Int /\ Samples - Turned - 1 = Samples - 1 /\ ~ (e + (Samples - 1) < s - 1)
      BY <1>4, <2>1
    <3>2. QED
      BY <2>2, <3>1
  <2>4. PICK i \in 0..(Samples - 1) : r \in samples[Behind(writePos, i)]
    BY <1>8, <2>3 DEF WindowInv, KeptInv
  <2>5. lastUpdate - at[r] > Ticks(i - Turned - 1)
    BY <2>4 DEF WindowInv, AgeInv
  <2>6. i - Turned - 1 = i - 1 /\ i - 1 \in Int
    BY <1>4, <2>1
  <2>7. e + (i - 1) < s - 1
    BY <2>2, <2>5, <2>6
  <2>8. i \in 0..(s - e - 1)
    BY <2>7
  <2>9. QED
    BY <1>6, <2>4, <2>8
<1>9. \A i, j \in DOMAIN samples : i # j => samples[i] \cap samples[j] = {}
  BY DEF WindowInv, RecordInv
<1>10. QED
  BY <1>7, <1>8, <1>9 DEF WindowCounts, Window!WindowCounts

(* A record is in one sample, in every average over the seconds it belongs *)
(* to and in none over much fewer, although the turns of the ring and its  *)
(* time stamp are written one by one and fractions of seconds are dropped; *)
(* for a ring and a second of any length.                                  *)
THEOREM RecordsCounted ==
    ASSUME WindowConstants
    PROVE  Window!Spec => [](Window!TypeOK /\ WindowCounts)
<1>1. Window!Init => WindowInv
  BY WindowInit
<1>2. WindowInv /\ [Window!Next]_Window!vars => WindowInv'
  BY WindowPreserves
<1>3. WindowInv => Window!TypeOK /\ WindowCounts
  BY WindowAverage DEF WindowInv, WindowTypes, Window!TypeOK
<1>4. QED
  BY <1>1, <1>2, <1>3, PTL DEF Window!Spec
=============================================================================
