----------------------------- MODULE StressClient -----------------------------
(***************************************************************************)
(* The stress client: one slot (SessionData) and one SessionWorker thread  *)
(* per connection.  Connections come and go in IOCP callbacks, which hand  *)
(* a slot over through its atomic user pointer: null, a user, or CLEANING. *)
(* The client (module Client) has no more connections than slots, and      *)
(* connects again only after Client::OnUserDisconnect.  A User object that *)
(* was deleted may be allocated again.  The echo server is external: it    *)
(* answers in order.                                                       *)
(***************************************************************************)
EXTENDS Naturals, Sequences, FiniteSets

CONSTANTS Slots,            \* 0..SESSION_COUNT-1
          Users,            \* User objects, as many as slots
          Null, Cleaning,   \* nullptr and CLEANING
          MaxSends,         \* bound: messages in all
          Gap               \* whether a session may be cleaned up while its
                            \* worker is between its load of the user pointer
                            \* and the end of that turn, and whether one may
                            \* connect before every worker has begun

VARIABLES testRunning,
          cleared,          \* StopStressTest has cleared session_data_vec
          slot, disc, sent, \* SessionData: user, disconnectRequested, sentMessages
          st,               \* per user: its session, and how far its clean-up is
          flight,           \* per user: messages whose echo has not come yet
          pc, mine,         \* per worker: place, and the user it loaded
          found,            \* per user: the slot its clean-up found
          sends

vars == <<testRunning, cleared, slot, disc, sent, st, flight, pc, mine, found, sends>>

Init ==
    /\ testRunning = TRUE /\ cleared = FALSE
    /\ slot = [i \in Slots |-> Null] /\ disc = [i \in Slots |-> FALSE] /\ sent = [i \in Slots |-> <<>>]
    /\ st = [u \in Users |-> "none"] /\ flight = [u \in Users |-> <<>>]
    /\ pc = [i \in Slots |-> "begin"] /\ mine = [i \in Slots |-> Null]
    /\ found = [u \in Users |-> Null]
    /\ sends = 0

Goto(i, label) == pc' = [pc EXCEPT ![i] = label]

(* User::Disconnect: nothing if the session is gone. *)
Disconnect(u) ==
    st' = IF u \in Users /\ st[u] = "on" THEN [st EXCEPT ![u] = "closing"] ELSE st

----------------------------------------------------------------------------
(* SessionWorker: the new thread first assigns its slot a fresh SessionData *)
(* (whose queue stays the old one).                                         *)
WorkerBegins(i) ==
    /\ pc[i] = "begin"
    /\ slot' = [slot EXCEPT ![i] = Null] /\ disc' = [disc EXCEPT ![i] = FALSE]
    /\ Goto(i, "loop")
    /\ UNCHANGED <<testRunning, cleared, sent, st, flight, mine, sends, found>>

(* A turn of its loop; while the slot has no user it sleeps. *)
WorkerLoad(i) ==
    /\ pc[i] = "loop" /\ testRunning /\ slot[i] \notin {Null, Cleaning}
    /\ mine' = [mine EXCEPT ![i] = slot[i]]
    /\ Goto(i, "test")
    /\ UNCHANGED <<testRunning, cleared, slot, disc, sent, st, flight, sends, found>>

WorkerWaits(i) ==
    /\ pc[i] = "test" /\ disc[i]
    /\ Goto(i, "loop") /\ mine' = [mine EXCEPT ![i] = Null]
    /\ UNCHANGED <<testRunning, cleared, slot, disc, sent, st, flight, sends, found>>

RandomDisconnect(i) ==
    /\ pc[i] = "test" /\ ~disc[i]
    /\ disc' = [disc EXCEPT ![i] = TRUE]
    /\ Disconnect(mine[i])
    /\ Goto(i, "loop") /\ mine' = [mine EXCEPT ![i] = Null]
    /\ UNCHANGED <<testRunning, cleared, slot, sent, flight, sends, found>>

(* The message is queued before it is sent, so that its echo finds it. *)
EnqueueMessage(i) ==
    /\ pc[i] = "test" /\ ~disc[i] /\ sends < MaxSends
    /\ sends' = sends + 1
    /\ sent' = [sent EXCEPT ![i] = Append(@, sends + 1)]
    /\ Goto(i, "send")
    /\ UNCHANGED <<testRunning, cleared, slot, disc, st, flight, mine, found>>

(* SendPacket; if it fails the worker disconnects and returns. *)
SendMessage(i) ==
    /\ pc[i] = "send" /\ st[mine[i]] = "on"
    /\ flight' = [flight EXCEPT ![mine[i]] = Append(@, sent[i][Len(sent[i])])]
    /\ Goto(i, "loop") /\ mine' = [mine EXCEPT ![i] = Null]
    /\ UNCHANGED <<testRunning, cleared, slot, disc, sent, st, sends, found>>

SendFails(i) ==
    /\ pc[i] = "send"
    /\ Disconnect(mine[i])
    /\ Goto(i, "exited") /\ mine' = [mine EXCEPT ![i] = Null]
    /\ UNCHANGED <<testRunning, cleared, slot, disc, sent, flight, sends, found>>

(* The test has ended: load the user once more and disconnect it. *)
WorkerEnds(i) ==
    /\ pc[i] = "loop" /\ ~testRunning
    /\ Disconnect(slot[i])
    /\ Goto(i, "exited")
    /\ UNCHANGED <<testRunning, cleared, slot, disc, sent, flight, mine, sends, found>>

(* StopStressTest: the flag, the join of the monitor and of the workers,   *)
(* a Disconnect per slot; then the slots are gone (without Gap, while no   *)
(* callback is using them).                                                *)
StopStressTest ==
    /\ testRunning /\ testRunning' = FALSE
    /\ UNCHANGED <<cleared, slot, disc, sent, st, flight, pc, mine, sends, found>>

JoinWorkers ==
    /\ ~testRunning /\ ~cleared /\ \A i \in Slots : pc[i] = "exited"
    /\ Gap \/ \A u \in Users : st[u] \in {"none", "on", "closing"}
    /\ st' = [u \in Users |-> IF st[u] = "on" /\ \E i \in Slots : slot[i] = u THEN "closing" ELSE st[u]]
    /\ cleared' = TRUE
    /\ UNCHANGED <<testRunning, slot, disc, sent, flight, pc, mine, sends, found>>

----------------------------------------------------------------------------
(* IOCP callbacks.  The client connects. *)
Connect(u) ==
    /\ st[u] = "none" /\ ~cleared /\ testRunning
    /\ st' = [st EXCEPT ![u] = "connecting"]
    /\ UNCHANGED <<testRunning, cleared, slot, disc, sent, flight, pc, mine, sends, found>>

(* OnConnectComplete: compare_exchange null by the user, slot by slot. *)
OnConnectComplete(u) ==
    /\ st[u] = "connecting"
    /\ Gap \/ \A i \in Slots : pc[i] # "begin"
    /\ \E i \in Slots :
          /\ slot[i] = Null
          /\ slot' = [slot EXCEPT ![i] = u]
    /\ st' = [st EXCEPT ![u] = "on"]
    /\ UNCHANGED <<testRunning, cleared, disc, sent, flight, pc, mine, sends, found>>

PeerCloses(u) ==
    /\ st[u] = "on"
    /\ Disconnect(u)
    /\ UNCHANGED <<testRunning, cleared, slot, disc, sent, flight, pc, mine, sends, found>>

(* HandleEchoResponse: FindSessionData and one Dequeue. *)
HandleEchoResponse(u) ==
    /\ st[u] = "on" /\ flight[u] # <<>>
    /\ \E i \in Slots :
          /\ slot[i] = u
          /\ sent' = [sent EXCEPT ![i] = IF @ = <<>> THEN @ ELSE Tail(@)]
    /\ flight' = [flight EXCEPT ![u] = Tail(@)]
    /\ UNCHANGED <<testRunning, cleared, slot, disc, st, pc, mine, sends, found>>

(* OnUserDisconnect, from ~Session: CLEANING, the flag, the queue, null,   *)
(* then Client::OnUserDisconnect deletes the user and asks for another     *)
(* connection.                                                             *)
StartCleaning(u) ==
    /\ st[u] = "closing" /\ ~cleared
    /\ Gap \/ \A i \in Slots : mine[i] # u
    /\ \E i \in Slots :
          /\ slot[i] = u
          /\ slot' = [slot EXCEPT ![i] = Cleaning]
          /\ found' = [found EXCEPT ![u] = i]
    /\ st' = [st EXCEPT ![u] = "flag"]
    /\ UNCHANGED <<testRunning, cleared, disc, sent, flight, pc, mine, sends>>

ResetFlag(u) ==
    /\ st[u] = "flag"
    /\ disc' = [disc EXCEPT ![found[u]] = FALSE]
    /\ st' = [st EXCEPT ![u] = "queue"]
    /\ UNCHANGED <<testRunning, cleared, slot, sent, flight, pc, mine, sends, found>>

EmptyQueueNot(u) ==
    /\ st[u] = "queue"
    /\ st' = [st EXCEPT ![u] = "free"]
    /\ UNCHANGED <<testRunning, cleared, slot, disc, sent, flight, pc, mine, sends, found>>

EmptyQueue(u) ==
    /\ st[u] = "queue"
    /\ sent' = [sent EXCEPT ![found[u]] = <<>>]
    /\ st' = [st EXCEPT ![u] = "free"]
    /\ UNCHANGED <<testRunning, cleared, slot, disc, flight, pc, mine, sends, found>>

FreeSlot(u) ==
    /\ st[u] = "free"
    /\ slot' = [slot EXCEPT ![found[u]] = Null]
    /\ st' = [st EXCEPT ![u] = "delete"]
    /\ UNCHANGED <<testRunning, cleared, disc, sent, flight, pc, mine, sends, found>>

(* Also the whole of OnUserDisconnect once there are no slots to search. *)
DeleteUser(u) ==
    /\ st[u] = "delete" \/ (st[u] = "closing" /\ cleared)
    /\ st' = [st EXCEPT ![u] = "none"]
    /\ flight' = [flight EXCEPT ![u] = <<>>]
    /\ found' = [found EXCEPT ![u] = Null]
    /\ UNCHANGED <<testRunning, cleared, slot, disc, sent, pc, mine, sends>>

----------------------------------------------------------------------------
WorkerStep(i) ==
    \/ WorkerBegins(i) \/ WorkerLoad(i) \/ WorkerWaits(i) \/ RandomDisconnect(i) \/ EnqueueMessage(i)
    \/ SendMessage(i) \/ SendFails(i) \/ WorkerEnds(i)

CleanUp(u) == StartCleaning(u) \/ ResetFlag(u) \/ EmptyQueue(u) \/ FreeSlot(u) \/ DeleteUser(u)

Next ==
    \/ \E i \in Slots : WorkerStep(i)
    \/ \E u \in Users : Connect(u) \/ OnConnectComplete(u) \/ PeerCloses(u) \/ HandleEchoResponse(u) \/ CleanUp(u)
    \/ StopStressTest \/ JoinWorkers

(* Workers and callbacks run; nobody has to connect, echo, close or stop.  *)
(* StartCleaning is strongly fair: where Gap is FALSE it waits for the     *)
(* worker, which may come back again and again.                            *)
Fairness ==
    /\ \A i \in Slots : WF_vars(WorkerStep(i))
    /\ \A u \in Users : WF_vars(OnConnectComplete(u)) /\ WF_vars(CleanUp(u)) /\ SF_vars(StartCleaning(u))
    /\ WF_vars(JoinWorkers)

Spec == Init /\ [][Next]_vars /\ Fairness

----------------------------------------------------------------------------
TypeOK ==
    /\ {testRunning, cleared} \subseteq BOOLEAN
    /\ slot \in [Slots -> Users \union {Null, Cleaning}] /\ disc \in [Slots -> BOOLEAN]
    /\ st \in [Users -> {"none", "connecting", "on", "closing", "flag", "queue", "free", "delete"}]
    /\ pc \in [Slots -> {"begin", "loop", "test", "send", "exited"}] /\ mine \in [Slots -> Users \union {Null}]
    /\ found \in [Users -> Slots \union {Null}] /\ sends \in 0..MaxSends

(* While the slots exist, a connected user has exactly one of them, and    *)
(* the slot's messages are those whose echo is still to come, in order     *)
(* (and at the end one that is not sent yet, or never will be): whatever   *)
(* was disconnected before, HandleEchoResponse finds what it expects and   *)
(* never takes a message of an earlier connection.                         *)
EchoMatches ==
    \A u \in Users : st[u] \in {"on", "closing"} /\ ~cleared =>
       /\ Cardinality({i \in Slots : slot[i] = u}) = 1
       /\ \A i \in Slots : slot[i] = u =>
             \/ sent[i] = flight[u]
             \/ Len(sent[i]) = Len(flight[u]) + 1 /\ SubSeq(sent[i], 1, Len(flight[u])) = flight[u]
                /\ (mine[i] = u \/ st[u] = "closing")

(* A connection always finds a slot in the end: OnConnectComplete's loop,  *)
(* which holds an IOCP worker, is not endless.  And StopStressTest returns.*)
StressProgress ==
    /\ \A u \in Users : st[u] = "connecting" ~> st[u] # "connecting"
    /\ ~testRunning ~> cleared

(* What the comment in OnUserDisconnect says of its clean-up: it is safe   *)
(* because the worker sees CLEANING and skips.                             *)
CleaningIsSafe == \A i \in Slots : slot[i] = Cleaning => pc[i] # "send"
=============================================================================
