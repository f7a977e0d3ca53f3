--------------------------- MODULE OnceInitializer ---------------------------
(***************************************************************************)
(* OnceInitializer.h as WSAInitializer and NetBase use it: Initialize      *)
(* counts a reference and runs init_func in the first caller while others  *)
(* wait; Cleanup gives a reference back and runs cleanup_func in the last. *)
(* A step is one access to state_ or reference_count_; init_func and       *)
(* cleanup_func take a step each.                                          *)
(*                                                                         *)
(* Cleanup counts down first and resets state_ last: an Initialize in      *)
(* between still finds INITIALIZED.  Overlap says whether that may happen; *)
(* the programs of the repository make and destroy their engines on one    *)
(* thread, where it cannot.                                                *)
(***************************************************************************)
EXTENDS Naturals, FiniteSets

CONSTANTS Threads,
          Overlap,           \* whether Initialize may run during the last Cleanup
          MaxStarts          \* bound: calls of Initialize

VARIABLES state, refs,       \* state_ and reference_count_
          up,                \* whether the resource (Winsock) is initialised
          pc,                \* "holds" once Initialize returned true
          starts

vars == <<state, refs, up, pc, starts>>

Init ==
    /\ state = "NOT_INITIALIZED" /\ refs = 0 /\ up = FALSE
    /\ pc = [t \in Threads |-> "out"] /\ starts = 0

To(t, from, to) == pc[t] = from /\ pc' = [pc EXCEPT ![t] = to]

Cleaning == \E t \in Threads : pc[t] \in {"cleanup", "reset"}

(* Initialize: the reference is counted before anything is known.          *)
Initialize(t) ==
    /\ starts < MaxStarts /\ (Overlap \/ ~Cleaning)
    /\ To(t, "out", "load")
    /\ refs' = refs + 1 /\ starts' = starts + 1
    /\ UNCHANGED <<state, up>>

LoadState(t) ==
    /\ To(t, "load", CASE state = "INITIALIZED" -> "holds"
                       [] state = "FAILED" -> "giveBack"
                       [] OTHER -> "cas")
    /\ UNCHANGED <<state, refs, up, starts>>

ClaimInit(t) ==
    /\ To(t, "cas", IF state = "NOT_INITIALIZED" THEN "init" ELSE "wait")
    /\ state' = IF state = "NOT_INITIALIZED" THEN "INITIALIZING" ELSE state
    /\ UNCHANGED <<refs, up, starts>>

(* init_func succeeds, or fails or throws; the state follows in a step.    *)
RunInit(t) ==
    /\ \/ To(t, "init", "done") /\ up' = TRUE
       \/ To(t, "init", "failed") /\ UNCHANGED up
    /\ UNCHANGED <<state, refs, starts>>

StoreState(t) ==
    /\ \/ To(t, "done", "holds") /\ state' = "INITIALIZED"
       \/ To(t, "failed", "giveBack") /\ state' = "FAILED"
    /\ UNCHANGED <<refs, up, starts>>

WaitStateImpatient(t) ==
    /\ To(t, "wait", IF state = "FAILED" THEN "giveBack" ELSE "holds")
    /\ UNCHANGED <<state, refs, up, starts>>

(* One turn of the waiting loop.                                           *)
WaitState(t) ==
    /\ state \in {"INITIALIZED", "FAILED"}
    /\ To(t, "wait", IF state = "INITIALIZED" THEN "holds" ELSE "giveBack")
    /\ UNCHANGED <<state, refs, up, starts>>

GiveBack(t) ==
    /\ To(t, "giveBack", "out")
    /\ refs' = refs - 1
    /\ UNCHANGED <<state, up, starts>>

(* Cleanup: the one that takes the count from 1 to 0 cleans up.            *)
Cleanup(t) ==
    /\ To(t, "holds", IF refs = 1 THEN "cleanup" ELSE "out")
    /\ refs' = refs - 1
    /\ UNCHANGED <<state, up, starts>>

RunCleanup(t) ==
    /\ To(t, "cleanup", "reset")
    /\ up' = FALSE
    /\ UNCHANGED <<state, refs, starts>>

ResetState(t) ==
    /\ To(t, "reset", "out")
    /\ state' = "NOT_INITIALIZED"
    /\ UNCHANGED <<refs, up, starts>>

InitStep(t) == LoadState(t) \/ ClaimInit(t) \/ RunInit(t) \/ StoreState(t) \/ WaitState(t) \/ GiveBack(t)
CleanStep(t) == RunCleanup(t) \/ ResetState(t)

Next == \E t \in Threads : Initialize(t) \/ InitStep(t) \/ Cleanup(t) \/ CleanStep(t)

Fairness == \A t \in Threads : WF_vars(InitStep(t) \/ CleanStep(t))

Spec == Init /\ [][Next]_vars /\ Fairness

----------------------------------------------------------------------------
TypeOK ==
    /\ state \in {"NOT_INITIALIZED", "INITIALIZING", "INITIALIZED", "FAILED"}
    /\ refs \in 0..Cardinality(Threads) /\ up \in BOOLEAN /\ starts \in 0..MaxStarts
    /\ pc \in [Threads -> {"out", "load", "cas", "init", "done", "failed", "wait",
                           "giveBack", "holds", "cleanup", "reset"}]

(* Whoever Initialize told TRUE has the resource until it calls Cleanup,   *)
(* although others fail, wait, come and go meanwhile; at most one thread   *)
(* runs init_func, and the references are those of the callers.            *)
HoldersHaveResource ==
    /\ \A t \in Threads : pc[t] = "holds" => up
    /\ Cardinality({t \in Threads : pc[t] \in {"init", "done", "failed"}}) <= 1
    /\ refs = Cardinality({t \in Threads : pc[t] \notin {"out", "cleanup", "reset"}})

(* Every call of Initialize returns: a waiting thread cannot miss the end  *)
(* of the initialisation, since its own reference keeps the state there.   *)
(* (Once the MaxStarts calls are made no thread is left inside one.)       *)
InitializeReturns == []<>(\A t \in Threads : pc[t] \in {"holds", "out"})
=============================================================================
