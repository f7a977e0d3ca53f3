-------------------------------- MODULE Actor --------------------------------
(***************************************************************************)
(* What the job system promises to the code that uses it (the "Actor       *)
(* model" row of docs/JobSystem_Architecture.md): each object has a        *)
(* mailbox, runs one job at a time, in mailbox order, on the thread that   *)
(* is its home when the job starts; only the running job changes the home  *)
(* or condemns the object; a condemned object starts no more jobs.  There  *)
(* are no queues of objects, flags or workers here.                        *)
(***************************************************************************)
EXTENDS Sequences

CONSTANTS Objects, Threads, Jobs, Nobody

VARIABLES mailbox,    \* jobs accepted and not yet started, per object
          home,       \* the thread an object belongs to
          active,     \* the thread that runs a job of the object, or Nobody
          condemned   \* the object has been given up

avars == <<mailbox, home, active, condemned>>

Init ==
    /\ mailbox = [o \in Objects |-> <<>>]
    /\ home \in [Objects -> Threads]
    /\ active = [o \in Objects |-> Nobody]
    /\ condemned = [o \in Objects |-> FALSE]

Accept(o, j) ==
    /\ mailbox' = [mailbox EXCEPT ![o] = Append(@, j)]
    /\ UNCHANGED <<home, active, condemned>>

Begin(o) ==
    /\ active[o] = Nobody
    /\ ~condemned[o]
    /\ mailbox[o] # <<>>
    /\ active' = [active EXCEPT ![o] = home[o]]
    /\ mailbox' = [mailbox EXCEPT ![o] = Tail(@)]
    /\ UNCHANGED <<home, condemned>>

Finish(o) ==
    /\ active[o] # Nobody
    /\ active' = [active EXCEPT ![o] = Nobody]
    /\ UNCHANGED <<mailbox, home, condemned>>

Move(o, t) ==
    /\ active[o] # Nobody
    /\ home' = [home EXCEPT ![o] = t]
    /\ UNCHANGED <<mailbox, active, condemned>>

Condemn(o) ==
    /\ active[o] # Nobody
    /\ condemned' = [condemned EXCEPT ![o] = TRUE]
    /\ UNCHANGED <<mailbox, home, active>>

Discard(o) ==
    /\ condemned[o]
    /\ mailbox' = [mailbox EXCEPT ![o] = <<>>]
    /\ UNCHANGED <<home, active, condemned>>

Next ==
    \E o \in Objects :
       \/ \E j \in Jobs : Accept(o, j)
       \/ Begin(o) \/ Finish(o) \/ Condemn(o) \/ Discard(o)
       \/ \E t \in Threads : Move(o, t)

Spec == Init /\ [][Next]_avars
=============================================================================
