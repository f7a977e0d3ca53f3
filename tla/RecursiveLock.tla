---------------------------- MODULE RecursiveLock ----------------------------
(***************************************************************************)
(* RecursiveLock.h: an SRW lock made recursive by remembering the owner's  *)
(* thread id and counting.  Lock compares thread_id without holding        *)
(* anything; the model reads it in a step of its own.  The SRW lock is the *)
(* operating system's.  Callers keep the contract an SRW lock needs: a     *)
(* thread that holds the lock in one mode does not ask for the other (it   *)
(* would wait for itself).                                                 *)
(***************************************************************************)
EXTENDS Naturals

CONSTANTS Threads, Nobody,
          MaxDepth           \* bound: nested calls of Lock

VARIABLES owner, readers,    \* the SRW lock: exclusive owner, shared holders
          threadId, lockCount,
          pc,
          depth              \* calls of Lock not yet undone, per thread

vars == <<owner, readers, threadId, lockCount, pc, depth>>

Init ==
    /\ owner = Nobody /\ readers = {}
    /\ threadId = Nobody /\ lockCount = 0
    /\ pc = [t \in Threads |-> "idle"] /\ depth = [t \in Threads |-> 0]

To(t, from, to) == pc[t] = from /\ pc' = [pc EXCEPT ![t] = to]

(* Lock: a thread that finds its own id only counts.                       *)
Lock(t) ==
    /\ depth[t] < MaxDepth /\ t \notin readers
    /\ \/ /\ threadId = t /\ pc[t] = "idle"
          /\ lockCount' = lockCount + 1
          /\ depth' = [depth EXCEPT ![t] = @ + 1]
          /\ UNCHANGED pc
       \/ /\ threadId # t /\ To(t, "idle", "acquire")
          /\ UNCHANGED <<lockCount, depth>>
    /\ UNCHANGED <<owner, readers, threadId>>

Acquire(t) ==
    /\ owner = Nobody /\ readers = {}
    /\ To(t, "acquire", "count")
    /\ owner' = t
    /\ UNCHANGED <<readers, threadId, lockCount, depth>>

LockCount(t) ==
    /\ To(t, "count", "sign")
    /\ lockCount' = lockCount + 1
    /\ UNCHANGED <<owner, readers, threadId, depth>>

LockSign(t) ==
    /\ To(t, "sign", "idle")
    /\ threadId' = t
    /\ depth' = [depth EXCEPT ![t] = 1]
    /\ UNCHANGED <<owner, readers, lockCount>>

UnlockStillNamed(t) ==
    /\ depth[t] > 0
    /\ \/ /\ 1 < lockCount /\ pc[t] = "idle"
          /\ lockCount' = lockCount - 1
          /\ UNCHANGED pc
       \/ /\ lockCount <= 1 /\ To(t, "idle", "uncount")
          /\ UNCHANGED lockCount
    /\ depth' = [depth EXCEPT ![t] = @ - 1]
    /\ UNCHANGED <<owner, readers, threadId>>

(* Unlock: the outermost call takes the name off before it releases.       *)
Unlock(t) ==
    /\ depth[t] > 0
    /\ \/ /\ 1 < lockCount /\ pc[t] = "idle"
          /\ lockCount' = lockCount - 1
          /\ UNCHANGED <<pc, threadId>>
       \/ /\ lockCount <= 1 /\ To(t, "idle", "uncount")
          /\ threadId' = Nobody
          /\ UNCHANGED lockCount
    /\ depth' = [depth EXCEPT ![t] = @ - 1]
    /\ UNCHANGED <<owner, readers>>

UnlockCount(t) ==
    /\ To(t, "uncount", "release")
    /\ lockCount' = lockCount - 1
    /\ UNCHANGED <<owner, readers, threadId, depth>>

Release(t) ==
    /\ To(t, "release", "idle")
    /\ owner' = Nobody
    /\ UNCHANGED <<readers, threadId, lockCount, depth>>

SharedLock(t) ==
    /\ pc[t] = "idle" /\ depth[t] = 0 /\ t \notin readers
    /\ owner = Nobody
    /\ readers' = readers \cup {t}
    /\ UNCHANGED <<owner, threadId, lockCount, pc, depth>>

ReleaseSharedLock(t) ==
    /\ t \in readers
    /\ readers' = readers \ {t}
    /\ UNCHANGED <<owner, threadId, lockCount, pc, depth>>

LockStep(t) == Acquire(t) \/ LockCount(t) \/ LockSign(t)
UnlockStep(t) == UnlockCount(t) \/ Release(t)

Next == \E t \in Threads : \/ Lock(t) \/ LockStep(t) \/ Unlock(t) \/ UnlockStep(t)
                           \/ SharedLock(t) \/ ReleaseSharedLock(t)

Spec == Init /\ [][Next]_vars

----------------------------------------------------------------------------
TypeOK ==
    /\ owner \in Threads \cup {Nobody} /\ readers \subseteq Threads
    /\ threadId \in Threads \cup {Nobody} /\ lockCount \in 0..MaxDepth
    /\ pc \in [Threads -> {"idle", "acquire", "count", "sign", "uncount", "release"}]
    /\ depth \in [Threads -> 0..MaxDepth]

(* A thread inside the lock is alone there, whatever ids others read       *)
(* without a lock: thread_id names it, lockCount is its depth, and nobody  *)
(* reads under the shared lock; so its next Lock counts instead of waiting *)
(* for itself, and the Unlock that releases is the one that undoes its     *)
(* first Lock.                                                             *)
OwnerIsNamed ==
    \A t \in Threads :
        /\ depth[t] > 0 => /\ owner = t /\ threadId = t /\ lockCount = depth[t]
                           /\ readers = {}
                           /\ \A u \in Threads \ {t} : depth[u] = 0
        /\ pc[t] = "idle" /\ depth[t] = 0 => threadId # t
=============================================================================
