-------------------------------- MODULE Client --------------------------------
(***************************************************************************)
(* The client engine and its reconnect thread: JunCore/network/Client.cpp, *)
(* with IOCPManager::HandleConnectComplete and ~Session, which call it.    *)
(*                                                                         *)
(* A client keeps Target connections.  One that ends, or an attempt that   *)
(* fails, is counted in pendingConnectCount_ and signalled to the          *)
(* reconnect thread by a binary semaphore, where signals merge.  The       *)
(* threads that do so are IOCP workers and callers of User methods; they   *)
(* have no identity here, only numbers of them at each program point.      *)
(* What the connection carries is the business of Session.                 *)
(***************************************************************************)
EXTENDS Integers

CONSTANTS Target,     \* targetConnectionCount_
          MaxDrops,   \* bound: connections and attempts that fail, in all
          MaxRefused  \* bound: attempts that PostConnectEx cannot even start

ASSUME ClientAssumption ==
    /\ Target \in Nat
    /\ MaxDrops \in Nat
    /\ MaxRefused \in Nat

VARIABLES
    running,   \* running_
    pending,   \* pendingConnectCount_
    signal,    \* reconnectSignal_ is available
    main,      \* the thread that calls StartClient and StopClient
    started,   \* StartClient: initial attempts made
    rpc,       \* the reconnect thread
    batch,     \* its local variable pending, 0 outside the loop over it
    posted,    \* its loop index i
    attempts,  \* ConnectEx under way, or its completion waiting
    conns,     \* sessions with a User
    dying,     \* threads in ~Session, before the test of running_
    adding,    \* threads at the fetch_add of TriggerReconnect
    releasing, \* threads at the release of TriggerReconnect
    drops,     \* failures so far
    refused,   \* attempts that did not start: PostConnectEx returned false
    ended      \* connections that ended when the client was not running

shared  == <<running, pending, signal>>
threads == <<main, started, rpc, batch, posted>>
net     == <<attempts, conns, dying, adding, releasing, drops, refused, ended>>
vars    == <<shared, threads, net>>

MainPcs == {"init", "load", "connect", "up", "wake", "join", "stopped"}
ReconnectPcs == {"none", "loop", "acquire", "check", "read", "post", "sub", "done"}

TypeOK ==
    /\ running \in BOOLEAN
    /\ pending \in Nat
    /\ signal \in BOOLEAN
    /\ main \in MainPcs
    /\ started \in 0..Target
    /\ rpc \in ReconnectPcs
    /\ batch \in Nat
    /\ posted \in 0..batch
    /\ attempts \in Nat /\ conns \in Nat /\ dying \in Nat
    /\ adding \in Nat /\ releasing \in Nat
    /\ drops \in 0..MaxDrops
    /\ refused \in 0..MaxRefused
    /\ ended \in Nat

Init ==
    /\ running = FALSE /\ pending = 0 /\ signal = FALSE
    /\ main = "init" /\ started = 0
    /\ rpc = "none" /\ batch = 0 /\ posted = 0
    /\ attempts = 0 /\ conns = 0
    /\ dying = 0 /\ adding = 0 /\ releasing = 0
    /\ drops = 0 /\ refused = 0 /\ ended = 0

-----------------------------------------------------------------------------
(* PostConnectEx starts an attempt, or fails (no socket, no port, no       *)
(* completion port, bad address, ConnectEx refuses); nobody looks at its   *)
(* result.                                                                 *)
PostConnectEx ==
    \/ attempts' = attempts + 1 /\ UNCHANGED refused
    \/ refused < MaxRefused /\ refused' = refused + 1 /\ UNCHANGED attempts

StartClient ==
    /\ main = "init"
    /\ running' = TRUE
    /\ main' = "load"
    /\ UNCHANGED <<pending, signal, started, rpc, batch, posted, net>>

(* LoadConnectExFunctions: without it StartClient gives up. *)
StartLoaded ==
    /\ main = "load"
    /\ main' = "connect"
    /\ rpc' = "loop"
    /\ UNCHANGED <<shared, started, batch, posted, net>>

StartFailed ==
    /\ main = "load"
    /\ running' = FALSE
    /\ main' = "init"
    /\ UNCHANGED <<pending, signal, started, rpc, batch, posted, net>>

StartConnect ==
    /\ main = "connect"
    /\ started < Target
    /\ started' = started + 1
    /\ PostConnectEx
    /\ UNCHANGED <<shared, main, rpc, batch, posted, conns, dying, adding,
                   releasing, drops, ended>>

StartDone ==
    /\ main = "connect"
    /\ started = Target
    /\ main' = "up"
    /\ UNCHANGED <<shared, started, rpc, batch, posted, net>>

StopClient ==
    /\ main = "up"
    /\ running' = FALSE
    /\ main' = "wake"
    /\ UNCHANGED <<pending, signal, started, rpc, batch, posted, net>>

StopWake ==
    /\ main = "wake"
    /\ signal' = TRUE
    /\ main' = "join"
    /\ UNCHANGED <<running, pending, started, rpc, batch, posted, net>>

StopJoin ==
    /\ main = "join"
    /\ rpc = "done"
    /\ main' = "stopped"
    /\ UNCHANGED <<shared, started, rpc, batch, posted, net>>

-----------------------------------------------------------------------------
(* ReconnectThreadFunc.  The delay before "read" changes nothing. *)

ReconnectLoop ==
    /\ rpc = "loop"
    /\ rpc' = IF running THEN "acquire" ELSE "done"
    /\ UNCHANGED <<shared, main, started, batch, posted, net>>

ReconnectAcquire ==
    /\ rpc = "acquire"
    /\ signal
    /\ signal' = FALSE
    /\ rpc' = "check"
    /\ UNCHANGED <<running, pending, main, started, batch, posted, net>>

ReconnectCheck ==
    /\ rpc = "check"
    /\ rpc' = IF running THEN "read" ELSE "done"
    /\ UNCHANGED <<shared, main, started, batch, posted, net>>

ReconnectRead ==
    /\ rpc = "read"
    /\ rpc' = IF pending > 0 THEN "post" ELSE "loop"
    /\ batch' = pending
    /\ posted' = 0
    /\ UNCHANGED <<shared, main, started, net>>

(* Mutant: the loop runs once too often. *)
ReconnectPostOneMore ==
    /\ rpc = "post"
    /\ posted' = posted + 1
    /\ rpc' = IF posted' > batch THEN "sub" ELSE "post"
    /\ PostConnectEx
    /\ UNCHANGED <<shared, main, started, batch, conns, dying, adding,
                   releasing, drops, ended>>

ReconnectPost ==
    /\ rpc = "post"
    /\ posted' = posted + 1
    /\ rpc' = IF posted' = batch THEN "sub" ELSE "post"
    /\ PostConnectEx
    /\ UNCHANGED <<shared, main, started, batch, conns, dying, adding,
                   releasing, drops, ended>>

(* Mutant: the counter is set to zero, with what was added meanwhile. *)
ReconnectSubByStore ==
    /\ rpc = "sub"
    /\ pending' = 0
    /\ batch' = 0 /\ posted' = 0
    /\ rpc' = "loop"
    /\ UNCHANGED <<running, signal, main, started, net>>

ReconnectSub ==
    /\ rpc = "sub"
    /\ pending' = pending - batch
    /\ batch' = 0 /\ posted' = 0
    /\ rpc' = "loop"
    /\ UNCHANGED <<running, signal, main, started, net>>

-----------------------------------------------------------------------------
(* HandleConnectComplete; a failed attempt triggers a reconnect whether or *)
(* not the client is running.                                              *)

ConnectSucceeds ==
    /\ attempts > 0
    /\ attempts' = attempts - 1
    /\ conns' = conns + 1
    /\ UNCHANGED <<shared, threads, dying, adding, releasing, drops, refused, ended>>

ConnectFails ==
    /\ attempts > 0
    /\ drops < MaxDrops
    /\ drops' = drops + 1
    /\ attempts' = attempts - 1
    /\ adding' = adding + 1
    /\ UNCHANGED <<shared, threads, conns, dying, releasing, refused, ended>>

(* ~Session of a session with a User: OnUserDisconnect. *)
SessionEnds ==
    /\ conns > 0
    /\ drops < MaxDrops
    /\ drops' = drops + 1
    /\ conns' = conns - 1
    /\ dying' = dying + 1
    /\ UNCHANGED <<shared, threads, attempts, adding, releasing, refused, ended>>

OnUserDisconnect ==
    /\ dying > 0
    /\ dying' = dying - 1
    /\ \/ running /\ adding' = adding + 1 /\ UNCHANGED ended
       \/ ~running /\ ended' = ended + 1 /\ UNCHANGED adding
    /\ UNCHANGED <<shared, threads, attempts, conns, releasing, drops, refused>>

TriggerReconnect ==
    /\ adding > 0
    /\ adding' = adding - 1
    /\ pending' = pending + 1
    /\ releasing' = releasing + 1
    /\ UNCHANGED <<running, signal, threads, attempts, conns, dying, drops, refused, ended>>

(* Mutant: a signal reaches the thread only while it waits, as a pulsed    *)
(* event does.                                                             *)
TriggerSignalPulsed ==
    /\ releasing > 0
    /\ releasing' = releasing - 1
    /\ signal' = (signal \/ rpc = "acquire")
    /\ UNCHANGED <<running, pending, threads, attempts, conns, dying, adding,
                   drops, refused, ended>>

(* release() on a semaphore that is available already leaves it available: *)
(* what the library of this build does; the standard leaves it undefined.  *)
TriggerSignal ==
    /\ releasing > 0
    /\ releasing' = releasing - 1
    /\ signal' = TRUE
    /\ UNCHANGED <<running, pending, threads, attempts, conns, dying, adding,
                   drops, refused, ended>>

-----------------------------------------------------------------------------
MainStep ==
    \/ StartLoaded \/ StartConnect \/ StartDone \/ StopWake \/ StopJoin

ReconnectStep ==
    \/ ReconnectLoop \/ ReconnectAcquire \/ ReconnectCheck \/ ReconnectRead
    \/ ReconnectPost \/ ReconnectSub

Handler == OnUserDisconnect \/ TriggerReconnect \/ TriggerSignal

Next ==
    \/ StartClient \/ StartFailed \/ StopClient
    \/ MainStep \/ ReconnectStep \/ Handler
    \/ ConnectSucceeds \/ ConnectFails \/ SessionEnds

Spec == Init /\ [][Next]_vars

(* Fairness: threads run; an attempt completes one way or the other.       *)
(* Nobody has to start or stop the client, and nothing has to fail.        *)
Fairness ==
    /\ WF_vars(MainStep)
    /\ WF_vars(ReconnectStep)
    /\ WF_vars(OnUserDisconnect) /\ WF_vars(TriggerReconnect) /\ WF_vars(TriggerSignal)
    /\ WF_vars(ConnectSucceeds \/ ConnectFails)

FairSpec == Spec /\ Fairness

-----------------------------------------------------------------------------
(* Every connection the client asked for is somewhere: established, under  *)
(* way, ending, counted as pending, or lost for a known reason.  pending   *)
(* still counts a batch while its attempts are posted, and others add to   *)
(* it meanwhile.                                                           *)
EveryConnectionAccounted ==
    conns + attempts + dying + adding + (pending - posted) + refused + ended = started

(* What the reconnect thread has not read yet it will read: a signal is    *)
(* available or about to be, or the thread is on its way to the counter,   *)
(* although signals merge and the batch is subtracted late.                *)
NoLostSignal ==
    rpc # "done" /\ pending > batch =>
       signal \/ releasing > 0 \/ rpc \in {"check", "read"}

(* A client that keeps running gets its connections back once failures end *)
(* (they are bounded here), all but those that could not be started.       *)
ConnectionsComeBack ==
    <>[](main = "up") => <>[](conns + refused = Target)

(* StopClient returns: the reconnect thread always ends after running_ is  *)
(* cleared, wherever it was.                                               *)
StopClientReturns == main = "wake" ~> main = "stopped"
=============================================================================
