-------------------------- MODULE TimeWindowCounter --------------------------
(***************************************************************************)
(* SlidingWindowCounter.h: a ring of one sample per second that one thread *)
(* records into and another averages, without a lock.  Time advances in    *)
(* ticks.  A sample is the set of the records summed up in it, so that a   *)
(* total is the set of the records it counts.  record() is taken apart     *)
(* into its writes; get_average() reads at one moment.                     *)
(***************************************************************************)
EXTENDS Integers, Sequences

CONSTANTS Samples,          \* max_samples
          Second,           \* ticks per second
          MaxTime, MaxRecords   \* bounds

VARIABLES now,
          samples, writePos, lastUpdate,
          at,               \* when each record was made
          pc,               \* "idle", or the place in record()
          left              \* turns left of the loop in advance_time_window

vars == <<now, samples, writePos, lastUpdate, at, pc, left>>

Init ==
    /\ now = 0 /\ lastUpdate = 0
    /\ samples = [i \in 0..(Samples - 1) |-> {}] /\ writePos = 0
    /\ at = <<>> /\ pc = "idle" /\ left = 0

get_elapsed_seconds == (now - lastUpdate) \div Second

(* The seconds that have gone by, but no more turns than there are samples. *)
record ==
    /\ pc = "idle" /\ Len(at) < MaxRecords
    /\ at' = Append(at, now)
    /\ left' = IF get_elapsed_seconds < Samples THEN get_elapsed_seconds ELSE Samples
    /\ pc' = IF get_elapsed_seconds >= 1 THEN "advance" ELSE "add"
    /\ UNCHANGED <<now, samples, writePos, lastUpdate>>

(* The sample of the last time round is not cleared. *)
AdvanceDirty ==
    /\ pc = "advance" /\ left > 0
    /\ writePos' = (writePos + 1) % Samples
    /\ left' = left - 1
    /\ UNCHANGED <<now, samples, lastUpdate, at, pc>>

(* One turn: the next sample becomes the current one and starts from zero. *)
Advance ==
    /\ pc = "advance" /\ left > 0
    /\ writePos' = (writePos + 1) % Samples
    /\ samples' = [samples EXCEPT ![writePos'] = {}]
    /\ left' = left - 1
    /\ UNCHANGED <<now, lastUpdate, at, pc>>

(* The new second begins now, so the rest of a second that had passed is   *)
(* dropped.                                                                *)
Restamp ==
    /\ pc = "advance" /\ left = 0
    /\ lastUpdate' = now
    /\ pc' = "add"
    /\ UNCHANGED <<now, samples, writePos, at, left>>

Add ==
    /\ pc = "add"
    /\ samples' = [samples EXCEPT ![writePos] = @ \union {Len(at)}]
    /\ pc' = "idle"
    /\ UNCHANGED <<now, writePos, lastUpdate, at, left>>

(* record() takes less than a tick. *)
Tick ==
    /\ pc = "idle" /\ now < MaxTime
    /\ now' = now + 1
    /\ UNCHANGED <<samples, writePos, lastUpdate, at, pc, left>>

(* The total get_average(seconds) divides: the samples of the seconds that *)
(* are left once those without any record are taken off.                   *)
get_average(seconds) ==
    UNION {samples[(writePos - i + Samples) % Samples] : i \in 0..(seconds - get_elapsed_seconds - 1)}

Next == record \/ Advance \/ Restamp \/ Add \/ Tick

Spec == Init /\ [][Next]_vars

----------------------------------------------------------------------------
TypeOK ==
    /\ now \in 0..MaxTime /\ lastUpdate \in 0..now
    /\ writePos \in 0..(Samples - 1) /\ left \in 0..Samples
    /\ samples \in [0..(Samples - 1) -> SUBSET DOMAIN at]
    /\ pc \in {"idle", "advance", "add"}

(* A record is in one sample at most, so it is never summed twice.  The    *)
(* average over s seconds counts every record of the last s - 1 seconds,   *)
(* whatever fractions were dropped, and none from 2s - 1 seconds ago or    *)
(* earlier; a reader in the middle of record() may miss some, but does not *)
(* see an older one either.                                                *)
WindowCounts ==
    /\ \A i, j \in DOMAIN samples : i # j => samples[i] \cap samples[j] = {}
    /\ \A s \in 1..Samples :
          /\ \A r \in get_average(s) : now - at[r] < (2 * s - 1) * Second
          /\ pc = "idle" => \A r \in DOMAIN at : now - at[r] <= (s - 1) * Second => r \in get_average(s)
=============================================================================
