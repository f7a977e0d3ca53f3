------------------------------- MODULE Logger --------------------------------
(***************************************************************************)
(* log.cpp with LoggingPolicy::ASYNC: threads claim slots of a ring by a   *)
(* compare-exchange of writeIndex, fill them and set valid last; the       *)
(* logger thread writes the slots out in order, clears valid and then      *)
(* advances readIndex; Shutdown stops and joins that thread and closes the *)
(* file.  A step is one access to shared memory.  The file itself is       *)
(* module LogFile; here it is the sequence of messages written.  Messages  *)
(* above the current level return before anything is touched and are left  *)
(* out.  The 32-bit indices wrap at a multiple of the ring size and are    *)
(* naturals here.                                                          *)
(***************************************************************************)
EXTENDS Naturals, Sequences

CONSTANTS Threads,        \* callers of Log
          Slots,          \* RING_BUFFER_SIZE
          Batch,          \* messages written between two tests of shouldStop (100)
          MaxMessages,    \* bound: calls of Log
          NoMsg

VARIABLES writeIndex, readIndex,
          text, valid,    \* ringBuffer
          shouldStop, fileOpen,
          pc, w, msg,  \* of each caller: currentWrite and its message
          lpc, done,      \* of the logger thread: its step and its count in this round
          mpc,            \* of the caller of Shutdown
          calls,          \* calls of Log so far
          accepted,       \* messages in the order their slots were claimed
          written         \* what went to the file

vars == <<writeIndex, readIndex, text, valid, shouldStop, fileOpen, pc, w, msg,
          lpc, done, mpc, calls, accepted, written>>
ringVars == <<writeIndex, readIndex, text, valid>>
callerVars == <<pc, w, msg, calls, accepted>>
threadVars == <<lpc, done, written>>
stopVars == <<shouldStop, fileOpen, mpc>>

Ring == 0..(Slots - 1)

(* The state Initialize leaves. *)
Init ==
    /\ writeIndex = 0 /\ readIndex = 0
    /\ text = [i \in Ring |-> NoMsg] /\ valid = [i \in Ring |-> FALSE]
    /\ shouldStop = FALSE /\ fileOpen = TRUE
    /\ pc = [t \in Threads |-> "idle"]
    /\ w = [t \in Threads |-> 0]
    /\ msg = [t \in Threads |-> NoMsg]
    /\ lpc = "check" /\ done = 0 /\ mpc = "idle"
    /\ calls = 0 /\ accepted = <<>> /\ written = <<>>

----------------------------------------------------------------------------
Log(t) ==
    /\ pc[t] = "idle" /\ calls < MaxMessages
    /\ calls' = calls + 1
    /\ msg' = [msg EXCEPT ![t] = calls + 1]
    /\ pc' = [pc EXCEPT ![t] = "loadWrite"]
    /\ UNCHANGED <<w, accepted>> /\ UNCHANGED <<ringVars, threadVars, stopVars>>

LoadWrite(t) ==
    /\ pc[t] = "loadWrite"
    /\ w' = [w EXCEPT ![t] = writeIndex]
    /\ pc' = [pc EXCEPT ![t] = "loadRead"]
    /\ UNCHANGED <<msg, calls, accepted>> /\ UNCHANGED <<ringVars, threadVars, stopVars>>

Full(write, read) == (write + 1) % Slots = read % Slots

(* The message is dropped when the ring looks full. *)
LoadRead(t) ==
    /\ pc[t] = "loadRead"
    /\ pc' = [pc EXCEPT ![t] = IF Full(w[t], readIndex) THEN "idle" ELSE "cas"]
    /\ UNCHANGED <<w, msg, calls, accepted>> /\ UNCHANGED <<ringVars, threadVars, stopVars>>

ClaimByStore(t) ==
    /\ pc[t] = "cas"
    /\ writeIndex' = w[t] + 1
    /\ accepted' = Append(accepted, msg[t])
    /\ pc' = [pc EXCEPT ![t] = "fill"]
    /\ UNCHANGED <<readIndex, text, valid, w, msg, calls>> /\ UNCHANGED <<threadVars, stopVars>>

(* compare_exchange_weak: it may fail without reason too. *)
Claim(t) ==
    /\ pc[t] = "cas"
    /\ \/ /\ writeIndex = w[t]
          /\ writeIndex' = writeIndex + 1
          /\ accepted' = Append(accepted, msg[t])
          /\ pc' = [pc EXCEPT ![t] = "fill"]
       \/ /\ pc' = [pc EXCEPT ![t] = "loadWrite"]
          /\ UNCHANGED <<writeIndex, accepted>>
    /\ UNCHANGED <<readIndex, text, valid, w, msg, calls>> /\ UNCHANGED <<threadVars, stopVars>>

Fill(t) ==
    /\ pc[t] = "fill"
    /\ text' = [text EXCEPT ![w[t] % Slots] = msg[t]]
    /\ pc' = [pc EXCEPT ![t] = "publish"]
    /\ UNCHANGED <<writeIndex, readIndex, valid, w, msg, calls, accepted>>
    /\ UNCHANGED <<threadVars, stopVars>>

Publish(t) ==
    /\ pc[t] = "publish"
    /\ valid' = [valid EXCEPT ![w[t] % Slots] = TRUE]
    /\ pc' = [pc EXCEPT ![t] = "idle"]
    /\ w' = [w EXCEPT ![t] = 0] /\ msg' = [msg EXCEPT ![t] = NoMsg]   \* out of scope
    /\ UNCHANGED <<writeIndex, readIndex, text, calls, accepted>>
    /\ UNCHANGED <<threadVars, stopVars>>

----------------------------------------------------------------------------
(* LoggerThreadFunc: test shouldStop, then up to Batch messages, then sleep. *)
CheckStopForever ==
    /\ lpc = "check"
    /\ lpc' = "poll"
    /\ done' = 0
    /\ UNCHANGED written /\ UNCHANGED <<ringVars, callerVars, stopVars>>

CheckStop ==
    /\ lpc = "check"
    /\ lpc' = IF shouldStop THEN "exited" ELSE "poll"
    /\ done' = 0
    /\ UNCHANGED written /\ UNCHANGED <<ringVars, callerVars, stopVars>>

(* A valid slot is written out: ProcessLogMessage, WriteToFile. *)
Process ==
    /\ lpc = "poll" /\ valid[readIndex % Slots]
    /\ written' = IF fileOpen THEN Append(written, text[readIndex % Slots]) ELSE written
    /\ lpc' = "clear"
    /\ UNCHANGED done /\ UNCHANGED <<ringVars, callerVars, stopVars>>

Sleep ==
    /\ lpc = "poll" /\ ~valid[readIndex % Slots]
    /\ lpc' = "check"
    /\ UNCHANGED <<done, written>> /\ UNCHANGED <<ringVars, callerVars, stopVars>>

Clear ==
    /\ lpc = "clear"
    /\ valid' = [valid EXCEPT ![readIndex % Slots] = FALSE]
    /\ lpc' = "advance"
    /\ UNCHANGED <<writeIndex, readIndex, text, done, written>> /\ UNCHANGED <<callerVars, stopVars>>

Advance ==
    /\ lpc = "advance"
    /\ readIndex' = readIndex + 1
    /\ done' = done + 1
    /\ lpc' = IF done + 1 < Batch THEN "poll" ELSE "check"
    /\ UNCHANGED <<writeIndex, text, valid, written>> /\ UNCHANGED <<callerVars, stopVars>>

(* Shutdown: later calls return at once, callers of Log are not stopped. *)
Shutdown ==
    /\ mpc = "idle"
    /\ shouldStop' = TRUE /\ mpc' = "join"
    /\ UNCHANGED fileOpen /\ UNCHANGED <<ringVars, callerVars, threadVars>>

CloseFile ==
    /\ mpc = "join" /\ lpc = "exited"
    /\ fileOpen' = FALSE /\ mpc' = "returned"
    /\ UNCHANGED shouldStop /\ UNCHANGED <<ringVars, callerVars, threadVars>>

ThreadStep == CheckStop \/ Process \/ Sleep \/ Clear \/ Advance
CallerStep(t) == LoadWrite(t) \/ LoadRead(t) \/ Claim(t) \/ Fill(t) \/ Publish(t)

Next ==
    \/ \E t \in Threads : Log(t) \/ CallerStep(t)
    \/ ThreadStep \/ Shutdown \/ CloseFile

(* A caller that has its slot finishes writing it; the thread keeps running. *)
Fairness ==
    /\ WF_vars(ThreadStep) /\ WF_vars(CloseFile)
    /\ \A t \in Threads : WF_vars(Fill(t) \/ Publish(t))

Spec == Init /\ [][Next]_vars /\ Fairness

----------------------------------------------------------------------------
TypeOK ==
    /\ writeIndex \in 0..MaxMessages /\ readIndex \in 0..writeIndex
    /\ text \in [Ring -> (1..MaxMessages) \cup {NoMsg}] /\ valid \in [Ring -> BOOLEAN]
    /\ shouldStop \in BOOLEAN /\ fileOpen \in BOOLEAN
    /\ pc \in [Threads -> {"idle", "loadWrite", "loadRead", "cas", "fill", "publish"}]
    /\ lpc \in {"check", "poll", "clear", "advance", "exited"} /\ done \in 0..Batch
    /\ mpc \in {"idle", "join", "returned"}

(* The file holds the accepted messages, each once, whole, in the order    *)
(* their slots were claimed: no slot is claimed while the thread or a      *)
(* caller still uses it, and none is written out before it is filled.      *)
FileHasAcceptedInOrder ==
    LET n == IF lpc \in {"clear", "advance"} THEN readIndex + 1 ELSE readIndex
    IN  /\ Len(accepted) = writeIndex /\ n <= writeIndex
        /\ written = SubSeq(accepted, 1, n)

(* The logger thread catches up again and again, so that every accepted    *)
(* message reaches the file unless the logger is stopped, and Shutdown     *)
(* returns although callers keep logging.                                  *)
LoggerProgress ==
    /\ []<>(Len(written) = writeIndex \/ shouldStop)
    /\ mpc = "join" ~> mpc = "returned"
=============================================================================
