------------------------------- MODULE Session -------------------------------
(***************************************************************************)
(* One connection: JunCore/network/Session.h and Session.cpp, the part of  *)
(* IOCPManager.cpp that dispatches its completions, and the User calls     *)
(* that reach it.                                                          *)
(*                                                                         *)
(* Any thread may send (User::SendPacket) or disconnect.  Packets go to    *)
(* send_q_; the holder of send_flag_ moves up to MAX_SEND_MSG of them to   *)
(* send_packet_arr_ and hands their buffers to one WSASend.  Completions   *)
(* arrive on the completion port, where any worker takes them.  The        *)
(* session lives while an OverlappedEx, or a User call, has a shared_ptr   *)
(* to it.                                                                  *)
(*                                                                         *)
(* The winsock kernel and the peer are external: they are modelled by what *)
(* this code relies on.  Each step is one access to shared state; send_q_  *)
(* is an LFQueue, here an atomic queue.                                    *)
(***************************************************************************)
EXTENDS Naturals, Sequences, FiniteSets

CONSTANTS Senders,     \* threads that hold a User: job threads, main
          Workers,     \* IOCP worker threads
          MaxSendMsg,  \* MAX_SEND_MSG
          MaxCalls     \* bound: User calls made in all

ASSUME SessionAssumption ==
    /\ Senders \cap Workers = {}
    /\ IsFiniteSet(Senders) /\ IsFiniteSet(Workers)
    /\ MaxSendMsg \in Nat \ {0}
    /\ MaxCalls \in Nat

Threads == Senders \cup Workers
Packet  == Threads \X (1..MaxCalls)

VARIABLES
    (* Session members *)
    pending,    \* pending_disconnect_
    sendFlag,   \* send_flag_
    sendQ,      \* send_q_
    arr,        \* send_packet_arr_[0 .. send_packet_count_ - 1]
    refs,       \* shared_ptr use count
    destroyed,  \* ~Session has run
    (* kernel: operations under way, completion port, connection, bytes out *)
    kSend, kRecv, cq, broken, wire,
    (* threads: where they are, the overlapped a worker has in hand, the    *)
    (* packets each has enqueued; and the User calls made so far            *)
    pc, op, sent, calls

sessionVars == <<pending, sendFlag, sendQ, arr, refs, destroyed>>
kernelVars  == <<kSend, kRecv, cq, broken, wire>>
threadVars  == <<pc, op, sent, calls>>
vars        == <<sessionVars, kernelVars, threadVars>>

(* Program points.  "callback": a packet handler, OnSessionConnect or      *)
(* OnConnectComplete runs.  "check" .. "enqueue": SendPacket.  "trycas" .. *)
(* "recount": SendAsync.  "impl" .. "wsasend": SendAsyncImpl.  "dcas",     *)
(* "cancel": Disconnect.  "unlock": the User call drops its shared_ptr.    *)
(* "finish" .. "more": HandleSendComplete.  "rcheck", "wsarecv":           *)
(* RecvAsync.  "unref": delete p_overlapped.                               *)
SendPcs   == {"check", "enqueue", "trycas", "count", "impl", "take", "wsasend",
              "clear", "recount", "dcas", "cancel"}
WorkerPcs == {"wait", "callback", "finish", "alive", "more",
              "rcheck", "wsarecv", "unref"}
Pcs       == SendPcs \cup WorkerPcs \cup {"idle", "unlock"}

Completion == {"recv", "send"} \X {"data", "zero"}
Ops        == {"none", "accept", "connect", "recv", "send"}

TypeOK ==
    /\ pending \in BOOLEAN
    /\ sendFlag \in BOOLEAN
    /\ sendQ \in Seq(Packet)
    /\ arr \in Seq(Packet) /\ Len(arr) <= MaxSendMsg
    /\ refs \in Nat
    /\ destroyed \in BOOLEAN
    /\ kSend \in Seq(Seq(Packet))
    /\ kRecv \in Nat
    /\ cq \in Seq(Completion)
    /\ broken \in BOOLEAN
    /\ wire \in Seq(Packet)
    /\ pc \in [Threads -> Pcs]
    /\ op \in [Threads -> Ops]
    /\ calls \in 0..MaxCalls
    /\ sent \in [Threads -> 0..MaxCalls]

(* The session has just been set up by the worker that took the accept or  *)
(* connect completion, whose overlapped holds the only reference.  A       *)
(* server calls back before the first RecvAsync, a client after it.        *)
Init ==
    /\ pending = FALSE /\ sendFlag = FALSE
    /\ sendQ = <<>> /\ arr = <<>>
    /\ refs = 1 /\ destroyed = FALSE
    /\ kSend = <<>> /\ kRecv = 0 /\ cq = <<>>
    /\ broken = FALSE
    /\ wire = <<>>
    /\ calls = 0
    /\ sent = [t \in Threads |-> 0]
    /\ \E w \in Workers, o \in {"accept", "connect"} :
          /\ op = [t \in Threads |-> IF t = w THEN o ELSE "none"]
          /\ pc = [t \in Threads |->
                     IF t = w THEN (IF o = "accept" THEN "callback" ELSE "rcheck")
                     ELSE IF t \in Workers THEN "wait" ELSE "idle"]

Goto(t, p) == pc' = [pc EXCEPT ![t] = p]

(* Where SendAsync and Disconnect return to. *)
Back(t) == IF op[t] = "send" THEN "unref" ELSE "unlock"

-----------------------------------------------------------------------------
(* shared_ptr.  The last reference runs ~Session: it notifies the engine,  *)
(* closes the socket and, through Set, resets the members and empties      *)
(* send_q_.                                                                *)

DropRef ==
    /\ refs' = refs - 1
    /\ \/ /\ refs > 1
          /\ UNCHANGED <<pending, sendFlag, sendQ, arr, destroyed>>
       \/ /\ refs = 1
          /\ destroyed' = TRUE
          /\ pending' = FALSE
          /\ sendFlag' = FALSE
          /\ sendQ' = <<>>
          /\ arr' = <<>>

(* User::SendPacket and User::Disconnect: weak_ptr.lock(), which fails     *)
(* once the session is gone, then the call on the session.                 *)
MayCall(t) ==
    /\ pc[t] \in {"idle", "callback"}
    /\ ~destroyed
    /\ calls < MaxCalls

Lock(t, p) ==
    /\ MayCall(t)
    /\ calls' = calls + 1
    /\ refs' = refs + 1
    /\ Goto(t, p)
    /\ UNCHANGED <<pending, sendFlag, sendQ, arr, destroyed, kernelVars, op, sent>>

UserSendPacket(t) == Lock(t, "check")
UserDisconnect(t) == Lock(t, "dcas")

Unlock(t) ==
    /\ pc[t] = "unlock"
    /\ DropRef
    /\ Goto(t, IF t \in Workers THEN "callback" ELSE "idle")
    /\ UNCHANGED <<kernelVars, op, calls, sent>>

-----------------------------------------------------------------------------
(* Session::SendPacket *)

SendPacketCheck(t) ==
    /\ pc[t] = "check"
    /\ Goto(t, IF pending THEN "unlock" ELSE "enqueue")
    /\ UNCHANGED <<sessionVars, kernelVars, op, calls, sent>>

SendPacketEnqueue(t) ==
    /\ pc[t] = "enqueue"
    /\ sendQ' = Append(sendQ, <<t, sent[t] + 1>>)
    /\ sent' = [sent EXCEPT ![t] = @ + 1]
    /\ Goto(t, "trycas")
    /\ UNCHANGED <<pending, sendFlag, arr, refs, destroyed, kernelVars, op, calls>>

(* SendAsync *)

(* Mutant: send_flag_ is stored, not compared. *)
SendAsyncByStore(t) ==
    /\ pc[t] = "trycas"
    /\ sendFlag' = TRUE
    /\ Goto(t, "count")
    /\ UNCHANGED <<pending, sendQ, arr, refs, destroyed, kernelVars, op, calls, sent>>

SendAsyncCas(t) ==
    /\ pc[t] = "trycas"
    /\ sendFlag' = TRUE
    /\ Goto(t, IF sendFlag THEN Back(t) ELSE "count")
    /\ UNCHANGED <<pending, sendQ, arr, refs, destroyed, kernelVars, op, calls, sent>>

SendAsyncCount(t) ==
    /\ pc[t] = "count"
    /\ Goto(t, IF sendQ # <<>> THEN "impl" ELSE "clear")
    /\ UNCHANGED <<sessionVars, kernelVars, op, calls, sent>>

SendAsyncClear(t) ==
    /\ pc[t] = "clear"
    /\ sendFlag' = FALSE
    /\ Goto(t, "recount")
    /\ UNCHANGED <<pending, sendQ, arr, refs, destroyed, kernelVars, op, calls, sent>>

SendAsyncRecount(t) ==
    /\ pc[t] = "recount"
    /\ Goto(t, IF sendQ # <<>> THEN "trycas" ELSE Back(t))
    /\ UNCHANGED <<sessionVars, kernelVars, op, calls, sent>>

(* SendAsyncImpl.  On overflow it disconnects and keeps send_flag_. *)
SendAsyncImpl(t) ==
    /\ pc[t] = "impl"
    /\ arr' = <<>>
    /\ Goto(t, IF Len(sendQ) > MaxSendMsg THEN "dcas" ELSE "take")
    /\ UNCHANGED <<pending, sendFlag, sendQ, refs, destroyed, kernelVars, op, calls, sent>>

(* Mutant: the loop has no bound. *)
TakePacketUnbounded(t) ==
    /\ pc[t] = "take"
    /\ \/ /\ sendQ # <<>>
          /\ arr' = Append(arr, Head(sendQ))
          /\ sendQ' = Tail(sendQ)
          /\ UNCHANGED pc
       \/ /\ sendQ = <<>>
          /\ Goto(t, IF arr = <<>> THEN "dcas" ELSE "wsasend")
          /\ UNCHANGED <<sendQ, arr>>
    /\ UNCHANGED <<pending, sendFlag, refs, destroyed, kernelVars, op, calls, sent>>

(* One turn of the loop that fills send_packet_arr_, and its exit; nothing *)
(* prepared is an error and disconnects.                                   *)
TakePacket(t) ==
    /\ pc[t] = "take"
    /\ \/ /\ sendQ # <<>>
          /\ Len(arr) < MaxSendMsg
          /\ arr' = Append(arr, Head(sendQ))
          /\ sendQ' = Tail(sendQ)
          /\ UNCHANGED pc
       \/ /\ sendQ = <<>> \/ Len(arr) = MaxSendMsg
          /\ Goto(t, IF arr = <<>> THEN "dcas" ELSE "wsasend")
          /\ UNCHANGED <<sendQ, arr>>
    /\ UNCHANGED <<pending, sendFlag, refs, destroyed, kernelVars, op, calls, sent>>

(* Mutants: the overlapped has no shared_ptr; and a send that fails at     *)
(* once is not posted to the completion port.                              *)
WsaSendUncounted(t) ==
    /\ pc[t] = "wsasend"
    /\ kSend' = Append(kSend, arr)
    /\ Goto(t, Back(t))
    /\ UNCHANGED <<sessionVars, kRecv, cq, broken, wire, op, calls, sent>>

WsaSendFailureDropped(t) ==
    /\ pc[t] = "wsasend"
    /\ refs' = refs + 1
    /\ kSend' = IF broken THEN kSend ELSE Append(kSend, arr)
    /\ Goto(t, Back(t))
    /\ UNCHANGED <<pending, sendFlag, sendQ, arr, destroyed, kRecv, cq, broken,
                   wire, op, calls, sent>>

(* new OverlappedEx and WSASend.  A send that fails at once is posted to   *)
(* the completion port with no bytes.                                      *)
WsaSend(t) ==
    /\ pc[t] = "wsasend"
    /\ refs' = refs + 1
    /\ \/ /\ kSend' = Append(kSend, arr)
          /\ UNCHANGED cq
       \/ /\ broken
          /\ cq' = Append(cq, <<"send", "zero">>)
          /\ UNCHANGED kSend
    /\ Goto(t, Back(t))
    /\ UNCHANGED <<pending, sendFlag, sendQ, arr, destroyed, kRecv, broken,
                   wire, op, calls, sent>>

-----------------------------------------------------------------------------
(* Session::Disconnect *)

DisconnectCas(t) ==
    /\ pc[t] = "dcas"
    /\ pending' = TRUE
    /\ Goto(t, IF pending THEN Back(t) ELSE "cancel")
    /\ UNCHANGED <<sendFlag, sendQ, arr, refs, destroyed, kernelVars, op, calls, sent>>

(* CancelIoEx: what is under way completes with no bytes. *)
DisconnectCancel(t) ==
    /\ pc[t] = "cancel"
    /\ cq' = cq \o [i \in 1..Len(kSend) |-> <<"send", "zero">>]
                \o [i \in 1..kRecv |-> <<"recv", "zero">>]
    /\ kSend' = <<>>
    /\ kRecv' = 0
    /\ Goto(t, Back(t))
    /\ UNCHANGED <<sessionVars, broken, wire, op, calls, sent>>

-----------------------------------------------------------------------------
(* IOCPManager::RunWorkerThread: take a completion and dispatch it.  One   *)
(* without bytes goes straight to the delete, whatever its operation.      *)

(* Mutant: a completion without bytes is handled like any other. *)
DispatchEmpty(w) ==
    /\ pc[w] = "wait"
    /\ cq # <<>>
    /\ cq' = Tail(cq)
    /\ op' = [op EXCEPT ![w] = Head(cq)[1]]
    /\ Goto(w, IF Head(cq)[1] = "recv" THEN "callback" ELSE "finish")
    /\ UNCHANGED <<sessionVars, kSend, kRecv, broken, wire, calls, sent>>

Dispatch(w) ==
    /\ pc[w] = "wait"
    /\ cq # <<>>
    /\ cq' = Tail(cq)
    /\ op' = [op EXCEPT ![w] = Head(cq)[1]]
    /\ Goto(w, IF Head(cq)[2] = "zero" THEN "unref"
               ELSE IF Head(cq)[1] = "recv" THEN "callback" ELSE "finish")
    /\ UNCHANGED <<sessionVars, kSend, kRecv, broken, wire, calls, sent>>

(* delete p_overlapped *)
DeleteOverlapped(w) ==
    /\ pc[w] = "unref"
    /\ DropRef
    /\ op' = [op EXCEPT ![w] = "none"]
    /\ Goto(w, "wait")
    /\ UNCHANGED <<kernelVars, calls, sent>>

(* The handlers, or the connect callback, are done. *)
CallbackReturn(w) ==
    /\ pc[w] = "callback"
    /\ Goto(w, IF op[w] = "connect" THEN "unref" ELSE "rcheck")
    /\ UNCHANGED <<sessionVars, kernelVars, op, calls, sent>>

(* HandleRecvComplete returns early, without a new receive, on a packet    *)
(* length that is not valid or after MAX_LOOP_COUNT packets.               *)
RecvAbort(w) ==
    /\ pc[w] = "callback"
    /\ op[w] = "recv"
    /\ Goto(w, "unref")
    /\ UNCHANGED <<sessionVars, kernelVars, op, calls, sent>>

(* RecvAsync.  After a receive HandleRecvComplete reads pending_disconnect_ *)
(* just before RecvAsync does; the later of the two reads decides.         *)
AfterRecvAsync(w) == IF op[w] = "connect" THEN "callback" ELSE "unref"

RecvAsyncCheck(w) ==
    /\ pc[w] = "rcheck"
    /\ Goto(w, IF pending THEN AfterRecvAsync(w) ELSE "wsarecv")
    /\ UNCHANGED <<sessionVars, kernelVars, op, calls, sent>>

WsaRecv(w) ==
    /\ pc[w] = "wsarecv"
    /\ refs' = refs + 1
    /\ \/ /\ kRecv' = kRecv + 1
          /\ UNCHANGED cq
       \/ /\ broken
          /\ cq' = Append(cq, <<"recv", "zero">>)
          /\ UNCHANGED kRecv
    /\ Goto(w, AfterRecvAsync(w))
    /\ UNCHANGED <<pending, sendFlag, sendQ, arr, destroyed, kSend, broken,
                   wire, op, calls, sent>>

(* HandleSendComplete: free the packets, give send_flag_ back, then send   *)
(* what has been queued meanwhile.                                         *)
SendDoneFinish(w) ==
    /\ pc[w] = "finish"
    /\ arr' = <<>>
    /\ sendFlag' = FALSE
    /\ Goto(w, "alive")
    /\ UNCHANGED <<pending, sendQ, refs, destroyed, kernelVars, op, calls, sent>>

SendDoneAlive(w) ==
    /\ pc[w] = "alive"
    /\ Goto(w, IF pending THEN "unref" ELSE "more")
    /\ UNCHANGED <<sessionVars, kernelVars, op, calls, sent>>

(* Mutant: the queue is not looked at again after a send. *)
SendDoneNoMore(w) ==
    /\ pc[w] = "more"
    /\ Goto(w, "unref")
    /\ UNCHANGED <<sessionVars, kernelVars, op, calls, sent>>

SendDoneMore(w) ==
    /\ pc[w] = "more"
    /\ Goto(w, IF sendQ # <<>> THEN "trycas" ELSE "unref")
    /\ UNCHANGED <<sessionVars, kernelVars, op, calls, sent>>

-----------------------------------------------------------------------------
(* The kernel and the peer. *)

KernelSends ==
    /\ kSend # <<>>
    /\ kSend' = Tail(kSend)
    /\ wire' = wire \o Head(kSend)
    /\ cq' = Append(cq, <<"send", "data">>)
    /\ UNCHANGED <<sessionVars, kRecv, broken, threadVars>>

KernelSendFails ==
    /\ kSend # <<>>
    /\ broken
    /\ kSend' = Tail(kSend)
    /\ cq' = Append(cq, <<"send", "zero">>)
    /\ UNCHANGED <<sessionVars, kRecv, broken, wire, threadVars>>

KernelReceives ==
    /\ kRecv > 0
    /\ kRecv' = kRecv - 1
    /\ cq' = Append(cq, <<"recv", IF broken THEN "zero" ELSE "data">>)
    /\ UNCHANGED <<sessionVars, kSend, broken, wire, threadVars>>

(* The peer closes or resets the connection, or the network fails. *)
PeerGone ==
    /\ ~broken
    /\ ~destroyed
    /\ broken' = TRUE
    /\ UNCHANGED <<sessionVars, kSend, kRecv, cq, wire, threadVars>>

-----------------------------------------------------------------------------
CallStep(t) ==
    \/ SendPacketCheck(t) \/ SendPacketEnqueue(t)
    \/ SendAsyncCas(t) \/ SendAsyncCount(t) \/ SendAsyncClear(t) \/ SendAsyncRecount(t)
    \/ SendAsyncImpl(t) \/ TakePacket(t) \/ WsaSend(t)
    \/ DisconnectCas(t) \/ DisconnectCancel(t) \/ Unlock(t)

WorkerStep(w) ==
    \/ Dispatch(w) \/ DeleteOverlapped(w)
    \/ CallbackReturn(w) \/ RecvAsyncCheck(w) \/ WsaRecv(w)
    \/ SendDoneFinish(w) \/ SendDoneAlive(w) \/ SendDoneMore(w)

Next ==
    \/ \E t \in Threads : UserSendPacket(t) \/ UserDisconnect(t) \/ CallStep(t)
    \/ \E w \in Workers : WorkerStep(w) \/ RecvAbort(w)
    \/ KernelSends \/ KernelSendFails \/ KernelReceives \/ PeerGone

Spec == Init /\ [][Next]_vars

(* Fairness: threads that can run do run, callbacks return, the kernel     *)
(* completes a send, and completes a receive once the connection is gone.  *)
(* Nobody has to call, to send data or to close.                           *)
Fairness ==
    /\ \A t \in Threads : WF_vars(CallStep(t))
    /\ \A w \in Workers : WF_vars(WorkerStep(w))
    /\ WF_vars(KernelSends \/ KernelSendFails)
    /\ WF_vars(broken /\ KernelReceives)

FairSpec == Spec /\ Fairness

-----------------------------------------------------------------------------
(* The send token: whoever may touch send_packet_arr_.                     *)

TokenPcs == {"count", "impl", "take", "wsasend", "clear", "finish"}

ThreadToken(t)     == pc[t] \in TokenPcs
CompletionToken(i) == cq[i] = <<"send", "data">>
SendsUnderWay      == {i \in DOMAIN cq : CompletionToken(i)}
TokenCount ==
    Cardinality({t \in Threads : ThreadToken(t)}) + Len(kSend)
       + Cardinality(SendsUnderWay)

(* send_flag_ serialises sending: at most one thread prepares a send, or   *)
(* one WSASend is under way, or one completion of it waits or is handled,  *)
(* and the flag is set meanwhile.                                          *)
OneSendAtATime ==
    /\ TokenCount <= 1
    /\ TokenCount = 1 => sendFlag

(* The buffers of a WSASend under way are the ones in send_packet_arr_: no *)
(* other send overwrites the array and no completion frees it before the   *)
(* kernel is done; and a new send finds the array empty.                   *)
KernelBuffersStay ==
    /\ kSend # <<>> => kSend = <<arr>>
    /\ \A t \in Threads : pc[t] = "impl" => arr = <<>>

(* SendAsyncImpl relies on the count SendAsync read: nobody else takes     *)
(* packets, so its branch "no packet to send" is not reached.              *)
ImplFindsPackets ==
    \A t \in Threads :
       /\ pc[t] = "impl" => sendQ # <<>>
       /\ pc[t] = "take" => sendQ # <<>> \/ arr # <<>>

(* Of every thread the packets in a stream are numbered 1, 2, 3 ... in the *)
(* order of the stream.                                                    *)
GapFree(stream) ==
    \A j \in 1..Len(stream) :
       /\ \A i \in 1..(j - 1) :
             stream[i][1] = stream[j][1] => stream[i][2] < stream[j][2]
       /\ \A n \in 1..(stream[j][2] - 1) :
             \E i \in 1..(j - 1) : stream[i] = <<stream[j][1], n>>

(* What reached the peer is, for every sending thread, an initial part of  *)
(* what it sent, in order and with no packet missing in the middle, also   *)
(* when a send fails or is cancelled and packets after it are queued.      *)
StreamHasNoGaps == GapFree(wire)

(* A packet in send_q_ of a healthy session is not forgotten: somebody     *)
(* holds the flag and will look at the queue again, or somebody is on the  *)
(* way to the compare-exchange, or (on overflow) to a disconnect.          *)
NoStrandedPacket ==
    sendQ # <<>> /\ ~pending /\ ~broken =>
       \/ TokenCount > 0
       \/ \E t \in Threads : pc[t] \in {"trycas", "recount", "alive", "more", "dcas"}

(* shared_ptr accounting: each operation under way, each completion not    *)
(* yet deleted and each User call keeps the session alive, so no           *)
(* completion and no call ever finds it destroyed.                         *)
Calling(t) == pc[t] \in SendPcs \cup {"unlock"} /\ op[t] # "send"

RefsCountHolders ==
    /\ refs = Len(kSend) + kRecv + Len(cq)
                + Cardinality({w \in Workers : op[w] # "none"})
                + Cardinality({t \in Threads : Calling(t)})
    /\ destroyed <=> refs = 0

(* At most one receive is under way, completed or being handled, and none  *)
(* is under way before the first RecvAsync: the ring buffer is never       *)
(* written by the kernel while a worker reads it.                          *)
OneReceiveAtATime ==
    kRecv + Cardinality({i \in DOMAIN cq : cq[i][1] = "recv"})
          + Cardinality({w \in Workers : \/ op[w] = "recv" /\ pc[w] # "unref"
                                         \/ op[w] = "accept" /\ pc[w] # "unref"
                                         \/ op[w] = "connect" /\ pc[w] \in {"rcheck", "wsarecv"}}) <= 1

(* What the kernel reads and writes stays as it is meanwhile: sends are    *)
(* serialised, the packet array and the queue are as SendAsyncImpl expects *)
(* them, and the ring buffer is filled by one receive at a time.           *)
BuffersSafe ==
    OneSendAtATime /\ KernelBuffersStay /\ ImplFindsPackets /\ OneReceiveAtATime

(* When the peer goes away the session is destroyed: the receive completes *)
(* with no bytes, and every other reference goes as well.  And everything  *)
(* handed to a session that stays healthy goes out: the queue and the      *)
(* array do not stay filled.                                               *)
SessionProgress ==
    /\ broken ~> destroyed
    /\ []<>((sendQ = <<>> /\ arr = <<>>) \/ pending \/ broken \/ destroyed)

(* Disconnect ends the session: the connection is closed and the engine is *)
(* told (OnUserDisconnect), so that a client can reconnect.                *)
DisconnectReleases == pending ~> destroyed
=============================================================================
