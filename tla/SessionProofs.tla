---------------------------- MODULE SessionProofs ----------------------------
(***************************************************************************)
(* Proofs about Session, for every number of sending threads and workers,  *)
(* every MAX_SEND_MSG and every number of User calls.                      *)
(***************************************************************************)
EXTENDS Session, FiniteSetTheorems, SequenceTheorems, TLAPS

(* Where a thread may be with the overlapped it has in hand: a sender has  *)
(* none, a worker has one exactly while it does not wait, and only the     *)
(* completion of a send runs HandleSendComplete, which does not lock.      *)
ThreadsInPlace ==
    /\ \A t \in Senders :
          op[t] = "none" /\ pc[t] \in SendPcs \cup {"idle", "unlock"}
    /\ \A w \in Workers :
          /\ pc[w] # "idle"
          /\ pc[w] = "wait" <=> op[w] = "none"
          /\ pc[w] \in {"finish", "alive", "more"} => op[w] = "send"
          /\ pc[w] \in {"callback", "rcheck", "wsarecv", "check", "enqueue", "unlock"}
                => op[w] # "send"

(* A thread has enqueued at most one packet per call it has made. *)
CallsPayForPackets ==
    \A t \in Threads :
       /\ sent[t] <= calls
       /\ pc[t] \in {"check", "enqueue"} => sent[t] < calls

(* TypeOK in two parts: the queues, and the rest. *)
QueuesOK ==
    /\ sendQ \in Seq(Packet)
    /\ arr \in Seq(Packet) /\ Len(arr) <= MaxSendMsg
    /\ kSend \in Seq(Seq(Packet))
    /\ cq \in Seq(Completion)
    /\ wire \in Seq(Packet)

ThreadsOK ==
    /\ pending \in BOOLEAN
    /\ sendFlag \in BOOLEAN
    /\ refs \in Nat
    /\ destroyed \in BOOLEAN
    /\ kRecv \in Nat
    /\ broken \in BOOLEAN
    /\ pc \in [Threads -> Pcs]
    /\ op \in [Threads -> Ops]
    /\ calls \in 0..MaxCalls
    /\ sent \in [Threads -> 0..MaxCalls]
    /\ ThreadsInPlace
    /\ CallsPayForPackets

TypeInv == QueuesOK /\ ThreadsOK

(* The send token without counting: a thread, a WSASend under way or a     *)
(* completion has it, never two of them, and send_flag_ is set meanwhile.  *)
SendDone(i) == cq[i] = <<"send", "data">>

TokenHeld ==
    \/ \E t \in Threads : ThreadToken(t)
    \/ kSend # <<>>
    \/ \E i \in 1..Len(cq) : SendDone(i)

TokenUnique ==
    /\ Len(kSend) <= 1
    /\ \A i, j \in 1..Len(cq) : SendDone(i) /\ SendDone(j) => i = j
    /\ \A i \in 1..Len(cq) : SendDone(i) => kSend = <<>>
    /\ \A t \in Threads : ThreadToken(t) =>
          /\ kSend = <<>>
          /\ \A i \in 1..Len(cq) : ~SendDone(i)
          /\ \A u \in Threads : ThreadToken(u) => u = t
    /\ TokenHeld => sendFlag

(* send_packet_arr_ is empty while nobody sends, and until the token       *)
(* holder fills it; what it finds in the queue stays there for it.         *)
ArrayInv ==
    /\ ~sendFlag => arr = <<>>
    /\ \A t \in Threads : pc[t] \in {"count", "clear", "impl"} => arr = <<>>
    /\ \A t \in Threads : pc[t] = "wsasend" => arr # <<>>
    /\ KernelBuffersStay
    /\ ImplFindsPackets

(* A set flag of a healthy session has a holder, or is on its way to a     *)
(* disconnect.                                                             *)
FlagInv ==
    /\ \A t \in Threads : pc[t] = "cancel" => pending
    /\ sendFlag /\ ~pending /\ ~broken =>
          TokenHeld \/ \E t \in Threads : pc[t] = "dcas"
    /\ sendQ # <<>> /\ ~pending /\ ~broken =>
          \/ TokenHeld
          \/ \E t \in Threads : pc[t] \in {"trycas", "recount", "alive", "more", "dcas"}

(* The receive, in the same way. *)
Receiving(w) ==
    \/ op[w] \in {"recv", "accept"} /\ pc[w] # "unref"
    \/ op[w] = "connect" /\ pc[w] \in {"rcheck", "wsarecv"}

RecvDone(i) == cq[i][1] = "recv"

ReceiveUnique ==
    /\ kRecv <= 1
    /\ \A i, j \in 1..Len(cq) : RecvDone(i) /\ RecvDone(j) => i = j
    /\ \A i \in 1..Len(cq) : RecvDone(i) => kRecv = 0
    /\ \A w \in Workers : Receiving(w) =>
          /\ kRecv = 0
          /\ \A i \in 1..Len(cq) : ~RecvDone(i)
          /\ \A v \in Workers : Receiving(v) => v = w

(* What is on the wire, then what the token holder has and has not sent,   *)
(* then the queue.  The array is on the wire already when its send has     *)
(* completed with data.                                                    *)
ArrayOut ==
    \/ \E i \in 1..Len(cq) : SendDone(i)
    \/ \E t \in Threads : pc[t] = "finish"

Live == ~destroyed /\ (sendFlag => TokenHeld)

Out == IF ArrayOut THEN wire ELSE wire \o arr

Stream == Out \o sendQ

(* A stream holds exactly the packets 1 .. num[t] of every thread t. *)
AllSent(stream, num) ==
    /\ \A i \in 1..Len(stream) : stream[i][2] <= num[stream[i][1]]
    /\ \A t \in Threads : \A n \in 1..num[t] :
          \E i \in 1..Len(stream) : stream[i] = <<t, n>>

(* As long as a send can still start or is under way, the stream lacks     *)
(* nothing.  After a failed or cancelled send nothing reaches the wire.    *)
StreamInv ==
    /\ GapFree(wire)
    /\ Live => GapFree(Stream) /\ AllSent(Stream, sent)

SessionInv ==
    /\ TypeInv
    /\ RefsCountHolders
    /\ TokenUnique
    /\ ArrayInv
    /\ FlagInv
    /\ ReceiveUnique
    /\ StreamInv

-----------------------------------------------------------------------------
(* Sequences *)

LEMMA EmptyType ==
    ASSUME NEW S
    PROVE  <<>> \in Seq(S) /\ Len(<<>>) = 0
BY SMT

LEMMA AppendType ==
    ASSUME NEW S, NEW q \in Seq(S), NEW e \in S
    PROVE  Append(q, e) \in Seq(S)
BY SMT

LEMMA HeadTailType ==
    ASSUME NEW S, NEW q \in Seq(S), q # <<>>
    PROVE  Head(q) \in S /\ Tail(q) \in Seq(S)
BY SMT

LEMMA EmptyLen ==
    ASSUME NEW S, NEW q \in Seq(S)
    PROVE  Len(q) \in Nat /\ (Len(q) = 0 <=> q = <<>>)
BY SMT

LEMMA AppendNotEmpty ==
    ASSUME NEW S, NEW q \in Seq(S), NEW e \in S
    PROVE  Append(q, e) # <<>>
<1>1. Len(Append(q, e)) = Len(q) + 1 /\ Len(q) \in Nat
  BY SMT
<1>2. Len(<<>>) = 0
  BY EmptyType
<1>3. QED
  BY <1>1, <1>2

(* Places of a sequence after an element was appended. *)
LEMMA AppendPlaces ==
    ASSUME NEW S, NEW q \in Seq(S), NEW e \in S
    PROVE  /\ Append(q, e) \in Seq(S)
           /\ Len(Append(q, e)) = Len(q) + 1
           /\ Append(q, e)[Len(q) + 1] = e
           /\ \A i \in 1..Len(q) : Append(q, e)[i] = q[i]
BY SMT

(* Places of a sequence after its head was taken. *)
LEMMA TailPlaces ==
    ASSUME NEW S, NEW q \in Seq(S), q # <<>>
    PROVE  /\ Tail(q) \in Seq(S)
           /\ Len(q) \in Nat \ {0}
           /\ Len(Tail(q)) = Len(q) - 1
           /\ Head(q) = q[1]
           /\ \A i \in 1..Len(Tail(q)) : Tail(q)[i] = q[i + 1]
BY SMT

(* Places of two sequences put together. *)
LEMMA ConcatPlaces ==
    ASSUME NEW S, NEW q \in Seq(S), NEW r \in Seq(S)
    PROVE  /\ q \o r \in Seq(S)
           /\ Len(q) \in Nat /\ Len(r) \in Nat
           /\ Len(q \o r) = Len(q) + Len(r)
           /\ \A i \in 1..Len(q) : (q \o r)[i] = q[i]
           /\ \A i \in (Len(q) + 1)..(Len(q) + Len(r)) : (q \o r)[i] = r[i - Len(q)]
BY SMT

LEMMA OneElement ==
    ASSUME NEW S, NEW q \in Seq(S), q # <<>>, Len(q) <= 1
    PROVE  Tail(q) = <<>> /\ Len(Tail(q)) = 0 /\ q = <<Head(q)>> /\ Head(q) \in S
<1>1. Len(q) \in Nat /\ Len(q) = 1
  BY SMT
<1>2. Len(Tail(q)) = 0 /\ Tail(q) \in Seq(S) /\ Head(q) \in S
  BY <1>1, TailPlaces, HeadTailType
<1>3. Tail(q) = <<>>
  BY <1>2, SMT
<1>4. q = <<Head(q)>>
  BY <1>1, SMT
<1>5. QED
  BY <1>2, <1>3, <1>4

LEMMA ConstantPlaces ==
    ASSUME NEW S, NEW e \in S, NEW n \in Nat, NEW q, q = [i \in 1..n |-> e]
    PROVE  /\ q \in Seq(S)
           /\ Len(q) = n
           /\ \A i \in 1..n : q[i] = e
BY SMT

LEMMA CompletionType ==
    /\ \A k \in {"recv", "send"}, b \in {"data", "zero"} : <<k, b>> \in Completion
    /\ \A c \in Completion : /\ c[1] \in {"recv", "send"}
                             /\ c[2] \in {"data", "zero"}
                             /\ c = <<c[1], c[2]>>
BY DEF Completion

LEMMA PacketType ==
    /\ \A t \in Threads, n \in 1..MaxCalls : <<t, n>> \in Packet
    /\ \A p \in Packet : /\ p[1] \in Threads
                         /\ p[2] \in 1..MaxCalls
                         /\ p = <<p[1], p[2]>>
BY DEF Packet

-----------------------------------------------------------------------------
LEMMA TypeInvType == TypeInv => TypeOK
BY DEF TypeInv, TypeOK, QueuesOK, ThreadsOK

LEMMA InitTypeInv == Init => TypeInv
<1> SUFFICES ASSUME Init PROVE TypeInv
  OBVIOUS
<1>1. QueuesOK
  BY SessionAssumption, EmptyType DEF QueuesOK, Init
<1>2. pending \in BOOLEAN /\ sendFlag \in BOOLEAN /\ destroyed \in BOOLEAN /\ broken \in BOOLEAN
  BY DEF Init
<1>3. ThreadsOK
  BY <1>2, SessionAssumption
     DEF Init, ThreadsOK, ThreadsInPlace, CallsPayForPackets, Threads, Pcs, SendPcs, WorkerPcs, Ops
<1>4. QED
  BY <1>1, <1>3 DEF TypeInv

(* DisconnectCancel puts one completion without bytes in the queue for     *)
(* each operation under way.                                               *)
LEMMA CancelPlaces ==
    ASSUME TypeInv, NEW t \in Threads, DisconnectCancel(t)
    PROVE  /\ cq' \in Seq(Completion)
           /\ Len(cq') = Len(cq) + Len(kSend) + kRecv
           /\ \A i \in 1..Len(cq) : cq'[i] = cq[i]
           /\ \A i \in (Len(cq) + 1)..(Len(cq) + Len(kSend)) : cq'[i] = <<"send", "zero">>
           /\ \A i \in (Len(cq) + Len(kSend) + 1)..Len(cq') : cq'[i] = <<"recv", "zero">>
<1> DEFINE s == [i \in 1..Len(kSend) |-> <<"send", "zero">>]
           r == [i \in 1..kRecv |-> <<"recv", "zero">>]
<1>1. cq \in Seq(Completion) /\ kRecv \in Nat /\ Len(kSend) \in Nat
  BY DEF TypeInv, QueuesOK, ThreadsOK
<1>2. cq' = (cq \o s) \o r
  BY DEF DisconnectCancel
<1>3. s \in Seq(Completion) /\ Len(s) = Len(kSend)
      /\ \A i \in 1..Len(kSend) : s[i] = <<"send", "zero">>
  BY <1>1, CompletionType, ConstantPlaces
<1>4. r \in Seq(Completion) /\ Len(r) = kRecv
      /\ \A i \in 1..kRecv : r[i] = <<"recv", "zero">>
  <2>1. <<"recv", "zero">> \in Completion
    BY CompletionType
  <2>2. QED
    BY <1>1, <2>1, ConstantPlaces
<1> HIDE DEF s, r
<1>5. /\ cq \o s \in Seq(Completion)
      /\ Len(cq \o s) = Len(cq) + Len(s)
      /\ \A i \in 1..Len(cq) : (cq \o s)[i] = cq[i]
      /\ \A i \in (Len(cq) + 1)..(Len(cq) + Len(s)) : (cq \o s)[i] = s[i - Len(cq)]
  BY <1>1, <1>3, ConcatPlaces
<1> DEFINE u == cq \o s
<1>6. u \in Seq(Completion)
  BY <1>5
<1> HIDE DEF u
<1>7. /\ u \o r \in Seq(Completion)
      /\ Len(u \o r) = Len(u) + Len(r)
      /\ \A i \in 1..Len(u) : (u \o r)[i] = u[i]
      /\ \A i \in (Len(u) + 1)..(Len(u) + Len(r)) : (u \o r)[i] = r[i - Len(u)]
  BY <1>4, <1>6, ConcatPlaces
<1>8. /\ cq' = u \o r
      /\ Len(u) = Len(cq) + Len(kSend)
      /\ Len(r) = kRecv
      /\ Len(cq) \in Nat
  BY <1>1, <1>2, <1>3, <1>4, <1>5 DEF u
<1>9. \A i \in 1..Len(cq) : cq'[i] = cq[i]
  BY <1>1, <1>5, <1>7, <1>8 DEF u
<1>10. \A i \in (Len(cq) + 1)..(Len(cq) + Len(kSend)) : cq'[i] = <<"send", "zero">>
  BY <1>1, <1>3, <1>5, <1>7, <1>8 DEF u
<1>11. \A i \in (Len(cq) + Len(kSend) + 1)..(Len(cq) + Len(kSend) + kRecv) : cq'[i] = <<"recv", "zero">>
  BY <1>1, <1>4, <1>7, <1>8
<1>12. QED
  BY <1>7, <1>8, <1>9, <1>10, <1>11

(* The two cases of DropRef. *)
LEMMA DropRefType ==
    ASSUME TypeInv, DropRef
    PROVE  /\ refs' \in Nat
           /\ pending' \in BOOLEAN /\ sendFlag' \in BOOLEAN /\ destroyed' \in BOOLEAN
           /\ sendQ' \in Seq(Packet)
           /\ arr' \in Seq(Packet) /\ Len(arr') <= MaxSendMsg
<1> USE DEF TypeInv, QueuesOK, ThreadsOK
<1>1. refs' \in Nat
  BY DEF DropRef
<1>2. CASE UNCHANGED <<pending, sendFlag, sendQ, arr, destroyed>>
  BY <1>1, <1>2
<1>3. CASE destroyed' = TRUE /\ pending' = FALSE /\ sendFlag' = FALSE /\ sendQ' = <<>> /\ arr' = <<>>
  <2>1. pending' \in BOOLEAN /\ sendFlag' \in BOOLEAN /\ destroyed' \in BOOLEAN
    BY <1>3, Zenon
  <2>2. sendQ' \in Seq(Packet) /\ arr' \in Seq(Packet) /\ Len(arr') <= MaxSendMsg
    BY <1>3, EmptyType, SessionAssumption
  <2>3. QED
    BY <1>1, <2>1, <2>2
<1>4. QED
  BY <1>2, <1>3 DEF DropRef

(* The actions that change a queue, and what they put there. *)
LEMMA QueuesStep == TypeInv /\ [Next]_vars => QueuesOK'
<1> SUFFICES ASSUME TypeInv, [Next]_vars PROVE QueuesOK'
  OBVIOUS
<1> USE DEF QueuesOK, sessionVars, kernelVars, threadVars
<1>0. QueuesOK
  BY DEF TypeInv
<1>1. ASSUME NEW t \in Threads, UserSendPacket(t) PROVE QueuesOK'
  BY <1>1, <1>0 DEF UserSendPacket, Lock, MayCall
<1>2. ASSUME NEW t \in Threads, UserDisconnect(t) PROVE QueuesOK'
  BY <1>2, <1>0 DEF UserDisconnect, Lock, MayCall
<1>3. ASSUME NEW t \in Threads, SendPacketCheck(t) PROVE QueuesOK'
  BY <1>3, <1>0 DEF SendPacketCheck
<1>4. ASSUME NEW t \in Threads, SendPacketEnqueue(t) PROVE QueuesOK'
  <2>1. sent[t] + 1 \in 1..MaxCalls
    BY <1>4, SessionAssumption DEF SendPacketEnqueue, TypeInv, ThreadsOK, CallsPayForPackets
  <2>2. <<t, sent[t] + 1>> \in Packet
    BY <2>1, PacketType
  <2>3. sendQ' \in Seq(Packet)
    BY <1>0, <1>4, <2>2, AppendType DEF SendPacketEnqueue
  <2>4. QED
    BY <1>0, <1>4, <2>3 DEF SendPacketEnqueue
<1>5. ASSUME NEW t \in Threads, SendAsyncCas(t) PROVE QueuesOK'
  BY <1>5, <1>0 DEF SendAsyncCas
<1>6. ASSUME NEW t \in Threads, SendAsyncCount(t) PROVE QueuesOK'
  BY <1>6, <1>0 DEF SendAsyncCount
<1>7. ASSUME NEW t \in Threads, SendAsyncClear(t) PROVE QueuesOK'
  BY <1>7, <1>0 DEF SendAsyncClear
<1>8. ASSUME NEW t \in Threads, SendAsyncRecount(t) PROVE QueuesOK'
  BY <1>8, <1>0 DEF SendAsyncRecount
<1>9. ASSUME NEW t \in Threads, SendAsyncImpl(t) PROVE QueuesOK'
  BY <1>0, <1>9, EmptyType, SessionAssumption DEF SendAsyncImpl
<1>10. ASSUME NEW t \in Threads, TakePacket(t) PROVE QueuesOK'
  <2>1. CASE sendQ # <<>> /\ Len(arr) < MaxSendMsg
             /\ arr' = Append(arr, Head(sendQ)) /\ sendQ' = Tail(sendQ)
    <3>1. Head(sendQ) \in Packet /\ sendQ' \in Seq(Packet)
      BY <1>0, <2>1, HeadTailType
    <3>2. arr' \in Seq(Packet) /\ Len(arr') = Len(arr) + 1
      BY <1>0, <2>1, <3>1, AppendPlaces
    <3>3. Len(arr') <= MaxSendMsg
      BY <1>0, <2>1, <3>2, SessionAssumption
    <3>4. QED
      BY <1>0, <1>10, <3>1, <3>2, <3>3 DEF TakePacket
  <2>2. CASE UNCHANGED <<sendQ, arr>>
    BY <1>0, <1>10, <2>2 DEF TakePacket
  <2>3. QED
    BY <1>10, <2>1, <2>2 DEF TakePacket
<1>11. ASSUME NEW t \in Threads, WsaSend(t) PROVE QueuesOK'
  <2>1. CASE kSend' = Append(kSend, arr) /\ UNCHANGED cq
    <3>1. kSend' \in Seq(Seq(Packet))
      BY <1>0, <2>1, AppendType
    <3>2. QED
      BY <1>0, <1>11, <2>1, <3>1 DEF WsaSend
  <2>2. CASE cq' = Append(cq, <<"send", "zero">>) /\ UNCHANGED kSend
    <3>1. cq' \in Seq(Completion)
      BY <1>0, <2>2, AppendType, CompletionType
    <3>2. QED
      BY <1>0, <1>11, <2>2, <3>1 DEF WsaSend
  <2>3. QED
    BY <1>11, <2>1, <2>2 DEF WsaSend
<1>12. ASSUME NEW t \in Threads, DisconnectCas(t) PROVE QueuesOK'
  BY <1>12, <1>0 DEF DisconnectCas
<1>13. ASSUME NEW t \in Threads, DisconnectCancel(t) PROVE QueuesOK'
  <2>1. cq' \in Seq(Completion)
    BY <1>13, CancelPlaces
  <2>2. kSend' \in Seq(Seq(Packet))
    BY <1>13, EmptyType DEF DisconnectCancel
  <2>3. QED
    BY <1>0, <1>13, <2>1, <2>2 DEF DisconnectCancel
<1>14. ASSUME NEW t \in Threads, Unlock(t) PROVE QueuesOK'
  BY <1>0, <1>14, DropRefType DEF Unlock
<1>15. ASSUME NEW w \in Workers, Dispatch(w) PROVE QueuesOK'
  BY <1>0, <1>15, HeadTailType DEF Dispatch
<1>16. ASSUME NEW w \in Workers, DeleteOverlapped(w) PROVE QueuesOK'
  BY <1>0, <1>16, DropRefType DEF DeleteOverlapped
<1>17. ASSUME NEW w \in Workers, CallbackReturn(w) PROVE QueuesOK'
  BY <1>17, <1>0 DEF CallbackReturn
<1>18. ASSUME NEW w \in Workers, RecvAsyncCheck(w) PROVE QueuesOK'
  BY <1>18, <1>0 DEF RecvAsyncCheck
<1>19. ASSUME NEW w \in Workers, WsaRecv(w) PROVE QueuesOK'
  <2>1. <<"recv", "zero">> \in Completion
    BY CompletionType
  <2>2. UNCHANGED cq \/ cq' = Append(cq, <<"recv", "zero">>)
    BY <1>19 DEF WsaRecv
  <2>3. cq' \in Seq(Completion)
    BY <1>0, <2>1, <2>2, AppendType
  <2>4. QED
    BY <1>0, <1>19, <2>3 DEF WsaRecv
<1>20. ASSUME NEW w \in Workers, SendDoneFinish(w) PROVE QueuesOK'
  BY <1>0, <1>20, EmptyType, SessionAssumption DEF SendDoneFinish
<1>21. ASSUME NEW w \in Workers, SendDoneAlive(w) PROVE QueuesOK'
  BY <1>21, <1>0 DEF SendDoneAlive
<1>22. ASSUME NEW w \in Workers, SendDoneMore(w) PROVE QueuesOK'
  BY <1>22, <1>0 DEF SendDoneMore
<1>23. ASSUME NEW w \in Workers, RecvAbort(w) PROVE QueuesOK'
  BY <1>23, <1>0 DEF RecvAbort
<1>24. CASE KernelSends
  <2>1. Head(kSend) \in Seq(Packet) /\ kSend' \in Seq(Seq(Packet))
    BY <1>0, <1>24, HeadTailType DEF KernelSends
  <2>2. wire' \in Seq(Packet)
    BY <1>0, <1>24, <2>1, ConcatPlaces DEF KernelSends
  <2>3. cq' \in Seq(Completion)
    BY <1>0, <1>24, AppendType, CompletionType DEF KernelSends
  <2>4. QED
    BY <1>0, <1>24, <2>1, <2>2, <2>3 DEF KernelSends
<1>25. CASE KernelSendFails
  <2>1. kSend' \in Seq(Seq(Packet))
    BY <1>0, <1>25, HeadTailType DEF KernelSendFails
  <2>2. cq' \in Seq(Completion)
    BY <1>0, <1>25, AppendType, CompletionType DEF KernelSendFails
  <2>3. QED
    BY <1>0, <1>25, <2>1, <2>2 DEF KernelSendFails
<1>26. CASE KernelReceives
  <2>1. cq' \in Seq(Completion)
    BY <1>0, <1>26, AppendType, CompletionType DEF KernelReceives
  <2>2. QED
    BY <1>0, <1>26, <2>1 DEF KernelReceives
<1>27. CASE PeerGone
  BY <1>27, <1>0 DEF PeerGone
<1>28. CASE UNCHANGED vars
  BY <1>28, <1>0 DEF vars
<1>29. QED
  BY <1>1, <1>2, <1>3, <1>4, <1>5, <1>6, <1>7, <1>8, <1>9, <1>10, <1>11, <1>12, <1>13, <1>14, <1>15, <1>16, <1>17, <1>18, <1>19, <1>20, <1>21, <1>22, <1>23, <1>24, <1>25, <1>26, <1>27, <1>28 DEF Next, CallStep, WorkerStep

LEMMA ThreadsStep == TypeInv /\ [Next]_vars => ThreadsOK'
<1> SUFFICES ASSUME TypeInv, [Next]_vars PROVE ThreadsOK'
  OBVIOUS
<1>0. ThreadsOK
  BY DEF TypeInv
<1> USE SessionAssumption
    DEF ThreadsOK, ThreadsInPlace, CallsPayForPackets, Threads, Pcs, SendPcs, WorkerPcs,
        Ops, Goto, Back, AfterRecvAsync, sessionVars, kernelVars, threadVars
<1>1. ASSUME NEW t \in Threads, UserSendPacket(t) PROVE ThreadsOK'
  BY <1>1, <1>0 DEF UserSendPacket, Lock, MayCall
<1>2. ASSUME NEW t \in Threads, UserDisconnect(t) PROVE ThreadsOK'
  BY <1>2, <1>0 DEF UserDisconnect, Lock, MayCall
<1>3. ASSUME NEW t \in Threads, SendPacketCheck(t) PROVE ThreadsOK'
  BY <1>3, <1>0 DEF SendPacketCheck
<1>4. ASSUME NEW t \in Threads, SendPacketEnqueue(t) PROVE ThreadsOK'
  BY <1>4, <1>0 DEF SendPacketEnqueue
<1>5. ASSUME NEW t \in Threads, SendAsyncCas(t) PROVE ThreadsOK'
  BY <1>5, <1>0 DEF SendAsyncCas
<1>6. ASSUME NEW t \in Threads, SendAsyncCount(t) PROVE ThreadsOK'
  BY <1>6, <1>0 DEF SendAsyncCount
<1>7. ASSUME NEW t \in Threads, SendAsyncClear(t) PROVE ThreadsOK'
  BY <1>7, <1>0 DEF SendAsyncClear
<1>8. ASSUME NEW t \in Threads, SendAsyncRecount(t) PROVE ThreadsOK'
  BY <1>8, <1>0 DEF SendAsyncRecount
<1>9. ASSUME NEW t \in Threads, SendAsyncImpl(t) PROVE ThreadsOK'
  BY <1>9, <1>0 DEF SendAsyncImpl
<1>10. ASSUME NEW t \in Threads, TakePacket(t) PROVE ThreadsOK'
  BY <1>10, <1>0 DEF TakePacket
<1>11. ASSUME NEW t \in Threads, WsaSend(t) PROVE ThreadsOK'
  BY <1>11, <1>0 DEF WsaSend
<1>12. ASSUME NEW t \in Threads, DisconnectCas(t) PROVE ThreadsOK'
  BY <1>12, <1>0 DEF DisconnectCas
<1>13. ASSUME NEW t \in Threads, DisconnectCancel(t) PROVE ThreadsOK'
  BY <1>13, <1>0 DEF DisconnectCancel
<1>14. ASSUME NEW t \in Threads, Unlock(t) PROVE ThreadsOK'
  <2>1. /\ refs' \in Nat /\ pending' \in BOOLEAN
        /\ sendFlag' \in BOOLEAN /\ destroyed' \in BOOLEAN
    BY <1>14, DropRefType DEF Unlock
  <2>2. QED
    BY <1>0, <1>14, <2>1 DEF Unlock
<1>15. ASSUME NEW w \in Workers, Dispatch(w) PROVE ThreadsOK'
  <2>1. Head(cq) \in Completion
    BY <1>15, HeadTailType DEF Dispatch, TypeInv, QueuesOK
  <2>2. Head(cq)[1] \in {"recv", "send"} /\ Head(cq)[2] \in {"data", "zero"}
    BY <2>1, CompletionType
  <2>3. QED
    BY <1>0, <1>15, <2>2 DEF Dispatch
<1>16. ASSUME NEW w \in Workers, DeleteOverlapped(w) PROVE ThreadsOK'
  <2>1. /\ refs' \in Nat /\ pending' \in BOOLEAN
        /\ sendFlag' \in BOOLEAN /\ destroyed' \in BOOLEAN
    BY <1>16, DropRefType DEF DeleteOverlapped
  <2>2. QED
    BY <1>0, <1>16, <2>1 DEF DeleteOverlapped
<1>17. ASSUME NEW w \in Workers, CallbackReturn(w) PROVE ThreadsOK'
  BY <1>17, <1>0 DEF CallbackReturn
<1>18. ASSUME NEW w \in Workers, RecvAsyncCheck(w) PROVE ThreadsOK'
  BY <1>18, <1>0 DEF RecvAsyncCheck
<1>19. ASSUME NEW w \in Workers, WsaRecv(w) PROVE ThreadsOK'
  BY <1>19, <1>0 DEF WsaRecv
<1>20. ASSUME NEW w \in Workers, SendDoneFinish(w) PROVE ThreadsOK'
  BY <1>20, <1>0 DEF SendDoneFinish
<1>21. ASSUME NEW w \in Workers, SendDoneAlive(w) PROVE ThreadsOK'
  BY <1>21, <1>0 DEF SendDoneAlive
<1>22. ASSUME NEW w \in Workers, SendDoneMore(w) PROVE ThreadsOK'
  BY <1>22, <1>0 DEF SendDoneMore
<1>23. ASSUME NEW w \in Workers, RecvAbort(w) PROVE ThreadsOK'
  BY <1>23, <1>0 DEF RecvAbort
<1>24. CASE KernelSends
  BY <1>24, <1>0 DEF KernelSends
<1>25. CASE KernelSendFails
  BY <1>25, <1>0 DEF KernelSendFails
<1>26. CASE KernelReceives
  BY <1>26, <1>0 DEF KernelReceives
<1>27. CASE PeerGone
  BY <1>27, <1>0 DEF PeerGone
<1>28. CASE UNCHANGED vars
  BY <1>28, <1>0 DEF vars
<1>29. QED
  BY <1>1, <1>2, <1>3, <1>4, <1>5, <1>6, <1>7, <1>8, <1>9, <1>10, <1>11, <1>12, <1>13, <1>14, <1>15, <1>16, <1>17, <1>18, <1>19, <1>20, <1>21, <1>22, <1>23, <1>24, <1>25, <1>26, <1>27, <1>28 DEF Next, CallStep, WorkerStep

LEMMA TypeStep == TypeInv /\ [Next]_vars => TypeInv'
BY QueuesStep, ThreadsStep DEF TypeInv

-----------------------------------------------------------------------------
(* Who holds a reference. *)

OpHolders   == {w \in Workers : op[w] # "none"}
CallHolders == {t \in Threads : Calling(t)}

LEMMA HoldersFinite ==
    /\ IsFiniteSet(OpHolders) /\ IsFiniteSet(CallHolders)
    /\ Cardinality(OpHolders) \in Nat /\ Cardinality(CallHolders) \in Nat
<1>1. IsFiniteSet(Threads)
  BY SessionAssumption, FS_Union DEF Threads
<1>2. IsFiniteSet(OpHolders) /\ IsFiniteSet(CallHolders)
  BY <1>1, SessionAssumption, FS_Subset DEF OpHolders, CallHolders
<1>3. QED
  BY <1>2, FS_CardinalityType

LEMMA RefsCount ==
    RefsCountHolders <=>
       /\ refs = Len(kSend) + kRecv + Len(cq) + Cardinality(OpHolders) + Cardinality(CallHolders)
       /\ destroyed <=> refs = 0
BY DEF RefsCountHolders, OpHolders, CallHolders

(* A set that gains or loses one element. *)
LEMMA CardinalityPlus ==
    ASSUME NEW S, IsFiniteSet(S), NEW x, x \notin S
    PROVE  Cardinality(S \cup {x}) = Cardinality(S) + 1
BY FS_AddElement

LEMMA CardinalityMinus ==
    ASSUME NEW S, IsFiniteSet(S), NEW x \in S
    PROVE  Cardinality(S \ {x}) = Cardinality(S) - 1 /\ Cardinality(S) \in Nat \ {0}
BY FS_RemoveElement, FS_CardinalityType, FS_EmptySet

(* The steps inside a call, a handler or the kernel that neither create    *)
(* nor delete a shared_ptr.                                                *)
InnerStep(t) ==
    \/ SendPacketCheck(t) \/ SendPacketEnqueue(t)
    \/ SendAsyncCas(t) \/ SendAsyncCount(t) \/ SendAsyncClear(t) \/ SendAsyncRecount(t)
    \/ SendAsyncImpl(t) \/ TakePacket(t) \/ DisconnectCas(t)

HandlerStep(w) ==
    \/ CallbackReturn(w) \/ RecvAbort(w) \/ RecvAsyncCheck(w)
    \/ SendDoneFinish(w) \/ SendDoneAlive(w) \/ SendDoneMore(w)

LEMMA InnerHolders ==
    ASSUME TypeInv, NEW t \in Threads, InnerStep(t)
    PROVE  /\ OpHolders' = OpHolders /\ CallHolders' = CallHolders
           /\ UNCHANGED <<refs, destroyed, kernelVars, op>>
<1> USE DEF TypeInv, ThreadsOK, ThreadsInPlace, OpHolders, CallHolders, Calling, SendPcs, Goto, Back,
            sessionVars, kernelVars, Threads
<1>1. CASE SendPacketCheck(t)
  BY <1>1 DEF SendPacketCheck
<1>2. CASE SendPacketEnqueue(t)
  BY <1>2 DEF SendPacketEnqueue
<1>3. CASE SendAsyncCas(t)
  BY <1>3 DEF SendAsyncCas
<1>4. CASE SendAsyncCount(t)
  BY <1>4 DEF SendAsyncCount
<1>5. CASE SendAsyncClear(t)
  BY <1>5 DEF SendAsyncClear
<1>6. CASE SendAsyncRecount(t)
  BY <1>6 DEF SendAsyncRecount
<1>7. CASE SendAsyncImpl(t)
  BY <1>7 DEF SendAsyncImpl
<1>8. CASE TakePacket(t)
  BY <1>8 DEF TakePacket
<1>9. CASE DisconnectCas(t)
  BY <1>9 DEF DisconnectCas
<1>10. QED
  BY <1>1, <1>2, <1>3, <1>4, <1>5, <1>6, <1>7, <1>8, <1>9 DEF InnerStep

LEMMA HandlerHolders ==
    ASSUME TypeInv, NEW w \in Workers, HandlerStep(w)
    PROVE  /\ OpHolders' = OpHolders /\ CallHolders' = CallHolders
           /\ UNCHANGED <<refs, destroyed, kernelVars, op>>
<1> USE DEF TypeInv, ThreadsOK, ThreadsInPlace, OpHolders, CallHolders, Calling, SendPcs, Goto, AfterRecvAsync,
            sessionVars, kernelVars, Threads
<1>1. CASE CallbackReturn(w)
  BY <1>1 DEF CallbackReturn
<1>2. CASE RecvAbort(w)
  BY <1>2 DEF RecvAbort
<1>3. CASE RecvAsyncCheck(w)
  BY <1>3 DEF RecvAsyncCheck
<1>4. CASE SendDoneFinish(w)
  BY <1>4 DEF SendDoneFinish
<1>5. CASE SendDoneAlive(w)
  BY <1>5 DEF SendDoneAlive
<1>6. CASE SendDoneMore(w)
  BY <1>6 DEF SendDoneMore
<1>7. QED
  BY <1>1, <1>2, <1>3, <1>4, <1>5, <1>6 DEF HandlerStep

(* Next, with the steps above as two groups. *)
LEMMA NextSteps ==
    ASSUME [Next]_vars
    PROVE  \/ \E t \in Threads :
                 \/ UserSendPacket(t) \/ UserDisconnect(t) \/ InnerStep(t)
                 \/ WsaSend(t) \/ DisconnectCancel(t) \/ Unlock(t)
           \/ \E w \in Workers :
                 \/ HandlerStep(w) \/ Dispatch(w) \/ DeleteOverlapped(w) \/ WsaRecv(w)
           \/ KernelSends \/ KernelSendFails \/ KernelReceives \/ PeerGone
           \/ UNCHANGED vars
BY DEF Next, CallStep, WorkerStep, InnerStep, HandlerStep

(* A thread in a call or with an overlapped in hand keeps the session. *)
LEMMA HolderKeeps ==
    ASSUME TypeInv, RefsCountHolders, NEW t \in CallHolders \cup OpHolders
    PROVE  refs \in Nat \ {0} /\ destroyed = FALSE
<1>1. /\ refs = Len(kSend) + kRecv + Len(cq) + Cardinality(OpHolders) + Cardinality(CallHolders)
      /\ destroyed <=> refs = 0
  BY RefsCount
<1>2. /\ Cardinality(OpHolders) \in Nat /\ Cardinality(CallHolders) \in Nat
      /\ Cardinality(OpHolders) # 0 \/ Cardinality(CallHolders) # 0
  BY HoldersFinite, CardinalityMinus
<1>3. Len(kSend) \in Nat /\ kRecv \in Nat /\ Len(cq) \in Nat /\ destroyed \in BOOLEAN
  BY DEF TypeInv, QueuesOK, ThreadsOK
<1>4. refs \in Nat \ {0}
  BY <1>1, <1>2, <1>3
<1>5. QED
  BY <1>1, <1>3, <1>4

LEMMA RefsStep == TypeInv /\ RefsCountHolders /\ [Next]_vars => RefsCountHolders'
<1> SUFFICES ASSUME TypeInv, RefsCountHolders, [Next]_vars PROVE RefsCountHolders'
  OBVIOUS
<1>0. /\ refs = Len(kSend) + kRecv + Len(cq) + Cardinality(OpHolders) + Cardinality(CallHolders)
      /\ destroyed <=> refs = 0
  BY RefsCount
<1>a. /\ Len(kSend) \in Nat /\ kRecv \in Nat /\ Len(cq) \in Nat /\ refs \in Nat
      /\ kSend \in Seq(Seq(Packet)) /\ cq \in Seq(Completion) /\ arr \in Seq(Packet)
      /\ destroyed \in BOOLEAN
  BY DEF TypeInv, QueuesOK, ThreadsOK
<1>b. /\ IsFiniteSet(OpHolders) /\ IsFiniteSet(CallHolders)
      /\ Cardinality(OpHolders) \in Nat /\ Cardinality(CallHolders) \in Nat
  BY HoldersFinite
<1> DEFINE Counted ==
             /\ refs' = Len(kSend') + kRecv' + Len(cq') + Cardinality(OpHolders') + Cardinality(CallHolders')
             /\ destroyed' <=> refs' = 0
<1> SUFFICES Counted
  BY DEF RefsCountHolders, OpHolders, CallHolders
<1>1. ASSUME NEW t \in Threads, UserSendPacket(t) \/ UserDisconnect(t) PROVE Counted
  <2>1. /\ refs' = refs + 1 /\ ~destroyed
        /\ UNCHANGED <<destroyed, kSend, kRecv, cq, op>>
        /\ pc[t] \in {"idle", "callback"}
        /\ pc' = [pc EXCEPT ![t] = "check"] \/ pc' = [pc EXCEPT ![t] = "dcas"]
    BY <1>1 DEF UserSendPacket, UserDisconnect, Lock, MayCall, Goto, kernelVars
  <2>2. t \notin CallHolders /\ CallHolders' = CallHolders \cup {t} /\ OpHolders' = OpHolders
    BY <2>1 DEF CallHolders, OpHolders, Calling, SendPcs, TypeInv, ThreadsOK, ThreadsInPlace, Threads
  <2>3. Cardinality(CallHolders') = Cardinality(CallHolders) + 1
    BY <1>b, <2>2, CardinalityPlus
  <2>4. QED
    BY <1>0, <1>a, <1>b, <2>1, <2>2, <2>3
<1>2. ASSUME NEW t \in Threads, InnerStep(t) PROVE Counted
  BY <1>0, <1>2, InnerHolders DEF kernelVars
<1>3. ASSUME NEW t \in Threads, WsaSend(t) PROVE Counted
  <2>1. OpHolders' = OpHolders /\ CallHolders' = CallHolders /\ t \in CallHolders \cup OpHolders
    BY <1>3 DEF WsaSend, CallHolders, OpHolders, Calling, SendPcs, Back, Goto, TypeInv, ThreadsOK,
                ThreadsInPlace, Threads
  <2>2. \/ Len(kSend') = Len(kSend) + 1 /\ UNCHANGED cq
        \/ Len(cq') = Len(cq) + 1 /\ UNCHANGED kSend
    BY <1>3, <1>a, AppendPlaces, CompletionType DEF WsaSend
  <2>3. refs' = refs + 1 /\ UNCHANGED <<kRecv, destroyed>>
    BY <1>3 DEF WsaSend
  <2>4. refs \in Nat \ {0} /\ destroyed = FALSE
    BY <2>1, HolderKeeps
  <2>5. Cardinality(OpHolders') = Cardinality(OpHolders) /\ Cardinality(CallHolders') = Cardinality(CallHolders)
    BY <2>1
  <2>6. QED
    BY <1>0, <1>a, <1>b, <2>2, <2>3, <2>4, <2>5
<1>4. ASSUME NEW t \in Threads, DisconnectCancel(t) PROVE Counted
  <2>1. OpHolders' = OpHolders /\ CallHolders' = CallHolders
    BY <1>4 DEF DisconnectCancel, CallHolders, OpHolders, Calling, SendPcs, Back, Goto, TypeInv, ThreadsOK,
                ThreadsInPlace, Threads
  <2>2. Len(cq') = Len(cq) + Len(kSend) + kRecv
    BY <1>4, CancelPlaces
  <2>3. Len(kSend') = 0 /\ kRecv' = 0 /\ UNCHANGED <<refs, destroyed>>
    BY <1>4, EmptyType DEF DisconnectCancel, sessionVars
  <2>4. QED
    BY <1>0, <1>a, <1>b, <2>1, <2>2, <2>3
<1>5. ASSUME NEW t \in Threads, Unlock(t) PROVE Counted
  <2>1. OpHolders' = OpHolders /\ CallHolders' = CallHolders \ {t} /\ t \in CallHolders
    BY <1>5 DEF Unlock, CallHolders, OpHolders, Calling, SendPcs, Goto, TypeInv, ThreadsOK,
                ThreadsInPlace, Threads
  <2>2. Cardinality(CallHolders') = Cardinality(CallHolders) - 1
    BY <1>b, <2>1, CardinalityMinus
  <2>3. refs' = refs - 1 /\ UNCHANGED <<kSend, kRecv, cq>>
    BY <1>5 DEF Unlock, DropRef, kernelVars
  <2>4. destroyed' <=> refs' = 0
    BY <1>5, <1>0, <1>a DEF Unlock, DropRef
  <2>5. QED
    BY <1>0, <1>a, <1>b, <2>1, <2>2, <2>3, <2>4
<1>6. ASSUME NEW w \in Workers, HandlerStep(w) PROVE Counted
  BY <1>0, <1>6, HandlerHolders DEF kernelVars
<1>7. ASSUME NEW w \in Workers, Dispatch(w) PROVE Counted
  <2>1. Head(cq) \in Completion
    BY <1>7, <1>a, HeadTailType DEF Dispatch
  <2>2. Head(cq)[1] \in {"recv", "send"}
    BY <2>1, CompletionType
  <2>3. OpHolders' = OpHolders \cup {w} /\ CallHolders' = CallHolders /\ w \notin OpHolders
    BY <1>7, <2>2 DEF Dispatch, CallHolders, OpHolders, Calling, SendPcs, Goto, TypeInv, ThreadsOK,
                ThreadsInPlace, Threads
  <2>4. Cardinality(OpHolders') = Cardinality(OpHolders) + 1
    BY <1>b, <2>3, CardinalityPlus
  <2>5. Len(cq') = Len(cq) - 1
    BY <1>7, <1>a, TailPlaces DEF Dispatch
  <2>6. UNCHANGED <<refs, destroyed, kSend, kRecv>>
    BY <1>7 DEF Dispatch, sessionVars
  <2>7. QED
    BY <1>0, <1>a, <1>b, <2>3, <2>4, <2>5, <2>6
<1>8. ASSUME NEW w \in Workers, DeleteOverlapped(w) PROVE Counted
  <2>1. OpHolders' = OpHolders \ {w} /\ CallHolders' = CallHolders /\ w \in OpHolders
    BY <1>8 DEF DeleteOverlapped, CallHolders, OpHolders, Calling, SendPcs, Goto, TypeInv, ThreadsOK,
                ThreadsInPlace, Threads
  <2>2. Cardinality(OpHolders') = Cardinality(OpHolders) - 1
    BY <1>b, <2>1, CardinalityMinus
  <2>3. refs' = refs - 1 /\ UNCHANGED <<kSend, kRecv, cq>>
    BY <1>8 DEF DeleteOverlapped, DropRef, kernelVars
  <2>4. destroyed' <=> refs' = 0
    BY <1>8, <1>0, <1>a DEF DeleteOverlapped, DropRef
  <2>5. QED
    BY <1>0, <1>a, <1>b, <2>1, <2>2, <2>3, <2>4
<1>9. ASSUME NEW w \in Workers, WsaRecv(w) PROVE Counted
  <2>1. OpHolders' = OpHolders /\ CallHolders' = CallHolders /\ w \in CallHolders \cup OpHolders
    BY <1>9 DEF WsaRecv, CallHolders, OpHolders, Calling, SendPcs, AfterRecvAsync, Goto, TypeInv, ThreadsOK,
                ThreadsInPlace, Threads
  <2>2. refs \in Nat \ {0} /\ destroyed = FALSE
    BY <2>1, HolderKeeps
  <2>3. Cardinality(OpHolders') = Cardinality(OpHolders) /\ Cardinality(CallHolders') = Cardinality(CallHolders)
    BY <2>1
  <2>4. refs' = refs + 1 /\ Len(kSend') = Len(kSend) /\ destroyed' = FALSE
    BY <1>9, <2>2 DEF WsaRecv
  <2>5. CASE kRecv' = kRecv + 1 /\ cq' = cq
    BY <1>0, <1>a, <1>b, <2>2, <2>3, <2>4, <2>5
  <2>6. CASE cq' = Append(cq, <<"recv", "zero">>) /\ kRecv' = kRecv
    <3>1. <<"recv", "zero">> \in Completion
      BY CompletionType
    <3>2. Len(cq') = Len(cq) + 1
      BY <1>a, <2>6, <3>1, AppendPlaces
    <3>3. QED
      BY <1>0, <1>a, <1>b, <2>2, <2>3, <2>4, <2>6, <3>2
  <2>7. QED
    BY <1>9, <2>5, <2>6 DEF WsaRecv
<1>10. ASSUME KernelSends \/ KernelSendFails PROVE Counted
  <2>1. OpHolders' = OpHolders /\ CallHolders' = CallHolders
    BY <1>10 DEF KernelSends, KernelSendFails, CallHolders, OpHolders, Calling, threadVars
  <2>2. Len(kSend') = Len(kSend) - 1
    BY <1>10, <1>a, TailPlaces DEF KernelSends, KernelSendFails
  <2>3. Len(cq') = Len(cq) + 1
    BY <1>10, <1>a, AppendPlaces, CompletionType DEF KernelSends, KernelSendFails
  <2>4. UNCHANGED <<refs, destroyed, kRecv>>
    BY <1>10 DEF KernelSends, KernelSendFails, sessionVars
  <2>5. QED
    BY <1>0, <1>a, <1>b, <2>1, <2>2, <2>3, <2>4
<1>11. CASE KernelReceives
  <2>1. OpHolders' = OpHolders /\ CallHolders' = CallHolders
    BY <1>11 DEF KernelReceives, CallHolders, OpHolders, Calling, threadVars
  <2>2. \E c \in Completion : cq' = Append(cq, c)
    BY <1>11, CompletionType DEF KernelReceives
  <2>3. Len(cq') = Len(cq) + 1
    BY <1>a, <2>2, AppendPlaces
  <2>4. kRecv' = kRecv - 1 /\ UNCHANGED <<refs, destroyed, kSend>>
    BY <1>11 DEF KernelReceives, sessionVars
  <2>5. QED
    BY <1>0, <1>a, <1>b, <2>1, <2>3, <2>4
<1>12. CASE PeerGone \/ UNCHANGED vars
  <2>1. UNCHANGED <<refs, destroyed, kSend, kRecv, cq, pc, op>>
    BY <1>12 DEF PeerGone, vars, sessionVars, kernelVars, threadVars
  <2>2. OpHolders' = OpHolders /\ CallHolders' = CallHolders
    BY <2>1 DEF CallHolders, OpHolders, Calling
  <2>3. QED
    BY <1>0, <2>1, <2>2
<1>13. QED
  BY <1>1, <1>2, <1>3, <1>4, <1>5, <1>6, <1>7, <1>8, <1>9, <1>10, <1>11, <1>12, NextSteps

-----------------------------------------------------------------------------
(* The last reference goes: no other thread is in the session, and nothing *)
(* is under way or completed.                                              *)

AtRest ==
    /\ kSend = <<>> /\ kRecv = 0 /\ cq = <<>>
    /\ \A t \in Threads : pc[t] \in {"idle", "wait"}

LEMMA LastDrop ==
    ASSUME TypeInv, RefsCountHolders, NEW t \in Threads,
           Unlock(t) \/ (t \in Workers /\ DeleteOverlapped(t)), refs = 1
    PROVE  /\ AtRest'
           /\ destroyed' /\ ~pending' /\ ~sendFlag' /\ sendQ' = <<>> /\ arr' = <<>>
           /\ UNCHANGED wire
<1>1. Len(kSend) + kRecv + Len(cq) + Cardinality(OpHolders) + Cardinality(CallHolders) = 1
  BY RefsCount
<1>2. /\ kSend \in Seq(Seq(Packet)) /\ cq \in Seq(Completion) /\ kRecv \in Nat
      /\ Len(kSend) \in Nat /\ Len(cq) \in Nat
  BY DEF TypeInv, QueuesOK, ThreadsOK
<1>3. /\ IsFiniteSet(OpHolders) /\ IsFiniteSet(CallHolders)
      /\ Cardinality(OpHolders) \in Nat /\ Cardinality(CallHolders) \in Nat
  BY HoldersFinite
<1>4. /\ t \in CallHolders \/ t \in OpHolders
      /\ t \in CallHolders /\ t \in Workers => t \in OpHolders
  BY DEF Unlock, DeleteOverlapped, CallHolders, OpHolders, Calling, SendPcs, TypeInv, ThreadsOK,
         ThreadsInPlace, Threads
<1>5. \A S : IsFiniteSet(S) /\ t \in S => Cardinality(S) \in Nat \ {0}
  BY CardinalityMinus
<1>6. kRecv = 0 /\ Len(kSend) = 0 /\ Len(cq) = 0
  BY <1>1, <1>2, <1>3, <1>4, <1>5
<1>7. ~(t \in CallHolders /\ t \in OpHolders)
  BY <1>1, <1>2, <1>3, <1>5
<1>8. \A u \in Threads : u # t => u \notin CallHolders /\ u \notin OpHolders
  <2>1. CASE t \in CallHolders
    <3>1. Cardinality(CallHolders) = 1 /\ Cardinality(OpHolders) = 0
      BY <1>1, <1>2, <1>3, <1>5, <2>1
    <3>2. OpHolders = {} /\ \E x : CallHolders = {x}
      BY <1>3, <3>1, FS_EmptySet, FS_Singleton
    <3>3. QED
      BY <2>1, <3>2
  <2>2. CASE t \in OpHolders
    <3>1. Cardinality(OpHolders) = 1 /\ Cardinality(CallHolders) = 0
      BY <1>1, <1>2, <1>3, <1>5, <2>2
    <3>2. CallHolders = {} /\ \E x : OpHolders = {x}
      BY <1>3, <3>1, FS_EmptySet, FS_Singleton
    <3>3. QED
      BY <2>2, <3>2
  <2>3. QED
    BY <1>4, <2>1, <2>2
<1>9. \A u \in Threads : u # t => pc[u] \in {"idle", "wait"}
  BY <1>8 DEF CallHolders, OpHolders, Calling, SendPcs, TypeInv, ThreadsOK, ThreadsInPlace, Threads
<1>10. pc' = [pc EXCEPT ![t] = pc'[t]] /\ pc'[t] \in {"idle", "wait"}
  BY <1>4, <1>7 DEF Unlock, DeleteOverlapped, Goto, TypeInv, ThreadsOK, CallHolders, OpHolders, Calling,
                    SendPcs, ThreadsInPlace
<1>11. \A u \in Threads : pc'[u] \in {"idle", "wait"}
  BY <1>9, <1>10 DEF TypeInv, ThreadsOK
<1>12. kSend = <<>> /\ cq = <<>>
  BY <1>2, <1>6, SMT
<1>13. AtRest'
  BY <1>6, <1>11, <1>12 DEF AtRest, Unlock, DeleteOverlapped, kernelVars
<1>14. DropRef /\ UNCHANGED wire
  BY DEF Unlock, DeleteOverlapped, kernelVars
<1>15. destroyed' /\ ~pending' /\ ~sendFlag' /\ sendQ' = <<>> /\ arr' = <<>>
  BY <1>14 DEF DropRef
<1>16. QED
  BY <1>13, <1>14, <1>15

(* Any other reference goes: the session stays as it is. *)
LEMMA OtherDrop ==
    ASSUME NEW t \in Threads, Unlock(t) \/ DeleteOverlapped(t), refs # 1
    PROVE  UNCHANGED <<pending, sendFlag, sendQ, arr, destroyed, kernelVars>>
BY DEF Unlock, DeleteOverlapped, DropRef

-----------------------------------------------------------------------------
(* How the completion queue changes. *)

LEMMA AppendCq ==
    ASSUME TypeInv, NEW c \in Completion, cq' = Append(cq, c)
    PROVE  /\ Len(cq) \in Nat /\ Len(cq') = Len(cq) + 1
           /\ cq'[Len(cq) + 1] = c
           /\ \A i \in 1..Len(cq) : cq'[i] = cq[i]
BY AppendPlaces DEF TypeInv, QueuesOK

LEMMA DispatchCq ==
    ASSUME TypeInv, NEW w \in Workers, Dispatch(w)
    PROVE  /\ Len(cq) \in Nat \ {0} /\ Len(cq') = Len(cq) - 1
           /\ \A i \in 1..Len(cq') : cq'[i] = cq[i + 1]
           /\ Head(cq) = cq[1]
           /\ cq[1] \in {<<"recv", "data">>, <<"recv", "zero">>, <<"send", "data">>, <<"send", "zero">>}
<1>1. cq \in Seq(Completion) /\ cq # <<>> /\ cq' = Tail(cq)
  BY DEF Dispatch, TypeInv, QueuesOK
<1>2. /\ Len(cq) \in Nat \ {0} /\ Len(cq') = Len(cq) - 1
      /\ \A i \in 1..Len(cq') : cq'[i] = cq[i + 1]
      /\ Head(cq) = cq[1]
  BY <1>1, TailPlaces
<1>3. cq[1] \in Completion
  BY <1>1, <1>2, HeadTailType
<1>4. QED
  BY <1>2, <1>3 DEF Completion

(* No completion of a send with data is added. *)
NoNewSendDone == \A i \in 1..Len(cq') : SendDone(i)' => i \in 1..Len(cq) /\ SendDone(i)

LEMMA AppendOther ==
    ASSUME TypeInv, NEW c \in Completion, cq' = Append(cq, c), c # <<"send", "data">>
    PROVE  NoNewSendDone
<1>1. /\ Len(cq) \in Nat /\ Len(cq') = Len(cq) + 1
      /\ cq'[Len(cq) + 1] = c
      /\ \A i \in 1..Len(cq) : cq'[i] = cq[i]
  BY AppendCq
<1>2. SUFFICES ASSUME NEW i \in 1..Len(cq'), SendDone(i)'
               PROVE  i \in 1..Len(cq) /\ SendDone(i)
  BY DEF NoNewSendDone
<1>3. cq'[i] = <<"send", "data">>
  BY <1>2 DEF SendDone
<1>4. i # Len(cq) + 1
  BY <1>1, <1>3
<1>5. i \in 1..Len(cq)
  BY <1>1, <1>4
<1>6. QED
  BY <1>1, <1>3, <1>5 DEF SendDone

LEMMA CancelOther ==
    ASSUME TypeInv, NEW t \in Threads, DisconnectCancel(t)
    PROVE  NoNewSendDone
<1>1. /\ Len(cq') = Len(cq) + Len(kSend) + kRecv
      /\ \A i \in 1..Len(cq) : cq'[i] = cq[i]
      /\ \A i \in (Len(cq) + 1)..(Len(cq) + Len(kSend)) : cq'[i] = <<"send", "zero">>
      /\ \A i \in (Len(cq) + Len(kSend) + 1)..Len(cq') : cq'[i] = <<"recv", "zero">>
  BY CancelPlaces
<1>2. Len(cq) \in Nat /\ Len(kSend) \in Nat /\ kRecv \in Nat
  BY DEF TypeInv, QueuesOK, ThreadsOK
<1>3. \A i \in 1..Len(cq') : cq'[i] = <<"send", "data">> => i \in 1..Len(cq) /\ cq[i] = <<"send", "data">>
  BY <1>1, <1>2
<1>4. QED
  BY <1>3 DEF NoNewSendDone, SendDone

-----------------------------------------------------------------------------
(* The send token *)

LEMMA TokenStep ==
    ASSUME TypeInv, RefsCountHolders, TokenUnique, [Next]_vars
    PROVE  TokenUnique'
<1> USE DEF TokenUnique, TokenHeld, ThreadToken, TokenPcs, Goto, Back
<1>0. /\ pc \in [Threads -> Pcs]
      /\ Len(cq) \in Nat /\ Len(kSend) \in Nat
      /\ kSend \in Seq(Seq(Packet)) /\ arr \in Seq(Packet)
      /\ sendFlag \in BOOLEAN
  BY DEF TypeInv, QueuesOK, ThreadsOK
<1>1. ASSUME NEW t \in Threads, UserSendPacket(t) \/ UserDisconnect(t) PROVE TokenUnique'
  BY <1>1, <1>0 DEF SendDone, UserSendPacket, UserDisconnect, Lock, MayCall, sessionVars, kernelVars, threadVars
<1>2. ASSUME NEW t \in Threads, SendPacketCheck(t) PROVE TokenUnique'
  BY <1>2, <1>0 DEF SendDone, SendPacketCheck, sessionVars, kernelVars, threadVars
<1>3. ASSUME NEW t \in Threads, SendPacketEnqueue(t) PROVE TokenUnique'
  BY <1>3, <1>0 DEF SendDone, SendPacketEnqueue, sessionVars, kernelVars, threadVars
<1>4. ASSUME NEW t \in Threads, SendAsyncCas(t) PROVE TokenUnique'
  BY <1>4, <1>0 DEF SendDone, SendAsyncCas, sessionVars, kernelVars, threadVars
<1>5. ASSUME NEW t \in Threads, SendAsyncCount(t) PROVE TokenUnique'
  BY <1>5, <1>0 DEF SendDone, SendAsyncCount, sessionVars, kernelVars, threadVars
<1>6. ASSUME NEW t \in Threads, SendAsyncClear(t) PROVE TokenUnique'
  BY <1>6, <1>0 DEF SendDone, SendAsyncClear, sessionVars, kernelVars, threadVars
<1>7. ASSUME NEW t \in Threads, SendAsyncRecount(t) PROVE TokenUnique'
  BY <1>7, <1>0 DEF SendDone, SendAsyncRecount, sessionVars, kernelVars, threadVars
<1>8. ASSUME NEW t \in Threads, SendAsyncImpl(t) PROVE TokenUnique'
  BY <1>8, <1>0 DEF SendDone, SendAsyncImpl, sessionVars, kernelVars, threadVars
<1>9. ASSUME NEW t \in Threads, TakePacket(t) PROVE TokenUnique'
  BY <1>9, <1>0 DEF SendDone, TakePacket, sessionVars, kernelVars, threadVars
<1>10. ASSUME NEW t \in Threads, DisconnectCas(t) PROVE TokenUnique'
  BY <1>10, <1>0 DEF SendDone, DisconnectCas, sessionVars, kernelVars, threadVars
<1>11. ASSUME NEW t \in Threads, WsaSend(t) PROVE TokenUnique'
  <2>1. kSend = <<>> /\ sendFlag /\ \A i \in 1..Len(cq) : ~SendDone(i)
    BY <1>11 DEF WsaSend
  <2>2. CASE kSend' = Append(kSend, arr) /\ cq' = cq
    <3>1. Len(kSend') = 1 /\ kSend' # <<>>
      BY <1>0, <2>1, <2>2, SMT
    <3>2. QED
      BY <1>0, <1>11, <2>1, <2>2, <3>1 DEF SendDone, WsaSend
  <2>3. CASE cq' = Append(cq, <<"send", "zero">>) /\ kSend' = kSend
    <3>1. NoNewSendDone
      BY <2>3, AppendOther, CompletionType
    <3>2. QED
      BY <1>0, <1>11, <2>1, <2>3, <3>1 DEF WsaSend, NoNewSendDone
  <2>4. QED
    BY <1>11, <2>2, <2>3 DEF WsaSend
<1>12. ASSUME NEW t \in Threads, DisconnectCancel(t) PROVE TokenUnique'
  <2>1. NoNewSendDone
    BY <1>12, CancelOther
  <2>2. Len(kSend') = 0 /\ kSend' = <<>> /\ UNCHANGED sendFlag
    BY <1>12, EmptyType DEF DisconnectCancel, sessionVars
  <2>3. pc' = [pc EXCEPT ![t] = Back(t)] /\ Back(t) \notin TokenPcs
    BY <1>12 DEF DisconnectCancel
  <2>4. QED
    BY <1>0, <2>1, <2>2, <2>3 DEF NoNewSendDone
<1>13. ASSUME NEW t \in Threads, Unlock(t) PROVE TokenUnique'
  <2>1. CASE refs = 1
    BY <1>13, <2>1, LastDrop, EmptyType DEF AtRest, SendDone
  <2>2. CASE refs # 1
    <3>1. UNCHANGED <<sendFlag, cq, kSend>>
      BY <1>13, <2>2, OtherDrop DEF kernelVars
    <3>2. QED
      BY <1>0, <1>13, <3>1 DEF SendDone, Unlock
  <2>3. QED
    BY <2>1, <2>2
<1>14. ASSUME NEW w \in Workers, CallbackReturn(w) PROVE TokenUnique'
  BY <1>14, <1>0 DEF SendDone, CallbackReturn, sessionVars, kernelVars, threadVars, Threads
<1>15. ASSUME NEW w \in Workers, RecvAbort(w) PROVE TokenUnique'
  BY <1>15, <1>0 DEF SendDone, RecvAbort, sessionVars, kernelVars, threadVars, Threads
<1>16. ASSUME NEW w \in Workers, RecvAsyncCheck(w) PROVE TokenUnique'
  BY <1>16, <1>0 DEF SendDone, RecvAsyncCheck, sessionVars, kernelVars, threadVars, Threads, AfterRecvAsync
<1>17. ASSUME NEW w \in Workers, SendDoneFinish(w) PROVE TokenUnique'
  BY <1>17, <1>0 DEF SendDone, SendDoneFinish, sessionVars, kernelVars, threadVars, Threads
<1>18. ASSUME NEW w \in Workers, SendDoneAlive(w) PROVE TokenUnique'
  BY <1>18, <1>0 DEF SendDone, SendDoneAlive, sessionVars, kernelVars, threadVars, Threads
<1>19. ASSUME NEW w \in Workers, SendDoneMore(w) PROVE TokenUnique'
  BY <1>19, <1>0 DEF SendDone, SendDoneMore, sessionVars, kernelVars, threadVars, Threads
<1>20. ASSUME NEW w \in Workers, Dispatch(w) PROVE TokenUnique'
  <2>1. /\ Len(cq) \in Nat \ {0} /\ Len(cq') = Len(cq) - 1
        /\ \A i \in 1..Len(cq') : cq'[i] = cq[i + 1]
        /\ cq[1] \in {<<"recv", "data">>, <<"recv", "zero">>, <<"send", "data">>, <<"send", "zero">>}
        /\ Head(cq) = cq[1]
    BY <1>20, DispatchCq
  <2>2. UNCHANGED <<kSend, sendFlag>> /\ w \in Threads
    BY <1>20 DEF Dispatch, sessionVars, Threads
  <2>3. \A i \in 1..Len(cq') : i + 1 \in 1..Len(cq) /\ (SendDone(i)' <=> SendDone(i + 1))
    BY <2>1 DEF SendDone
  <2>4. CASE SendDone(1)
    <3>1. pc' = [pc EXCEPT ![w] = "finish"]
      <4>1. Head(cq)[2] = "data" /\ Head(cq)[1] = "send"
        BY <2>1, <2>4 DEF SendDone
      <4>2. QED
        BY <1>20, <4>1 DEF Dispatch
    <3>2. \A i \in 1..Len(cq') : ~SendDone(i)'
      BY <2>1, <2>3, <2>4
    <3>3. QED
      BY <1>0, <2>1, <2>2, <2>4, <3>1, <3>2
  <2>5. CASE ~SendDone(1)
    <3>1. pc' = [pc EXCEPT ![w] = "unref"] \/ pc' = [pc EXCEPT ![w] = "callback"]
      <4>1. Head(cq)[2] = "zero" \/ Head(cq)[1] = "recv"
        BY <2>1, <2>5 DEF SendDone
      <4>2. QED
        BY <1>20, <4>1 DEF Dispatch
    <3>2. \A u \in Threads : ThreadToken(u)' => ThreadToken(u)
      BY <1>0, <2>2, <3>1
    <3>3. QED
      BY <2>1, <2>2, <2>3, <3>2 DEF TokenUnique, TokenHeld
  <2>6. QED
    BY <2>4, <2>5
<1>21. ASSUME NEW w \in Workers, DeleteOverlapped(w) PROVE TokenUnique'
  <2>1. CASE refs = 1
    BY <1>21, <2>1, LastDrop, EmptyType DEF AtRest, SendDone, Threads
  <2>2. CASE refs # 1
    <3>1. UNCHANGED <<sendFlag, cq, kSend>>
      BY <1>21, <2>2, OtherDrop DEF kernelVars, Threads
    <3>2. QED
      BY <1>0, <1>21, <3>1 DEF SendDone, DeleteOverlapped
  <2>3. QED
    BY <2>1, <2>2
<1>22. ASSUME NEW w \in Workers, WsaRecv(w) PROVE TokenUnique'
  <2>1. UNCHANGED <<kSend, sendFlag>> /\ w \in Threads
    BY <1>22 DEF WsaRecv, Threads
  <2>2. CASE cq' = cq
    BY <1>0, <1>22, <2>1, <2>2 DEF SendDone, WsaRecv, AfterRecvAsync
  <2>3. CASE cq' = Append(cq, <<"recv", "zero">>)
    <3>1. <<"recv", "zero">> \in Completion /\ <<"recv", "zero">> # <<"send", "data">>
      BY CompletionType
    <3>2. NoNewSendDone
      BY <2>3, <3>1, AppendOther
    <3>3. pc' = [pc EXCEPT ![w] = AfterRecvAsync(w)] /\ AfterRecvAsync(w) \notin TokenPcs
      BY <1>22 DEF WsaRecv, AfterRecvAsync
    <3>4. QED
      BY <1>0, <2>1, <3>2, <3>3 DEF NoNewSendDone
  <2>4. QED
    BY <1>22, <2>2, <2>3 DEF WsaRecv
<1>23. CASE KernelSends
  <2>1. /\ Len(cq') = Len(cq) + 1 /\ cq'[Len(cq) + 1] = <<"send", "data">>
        /\ \A i \in 1..Len(cq) : cq'[i] = cq[i]
    BY <1>23, AppendCq, CompletionType DEF KernelSends
  <2>2. kSend # <<>> /\ Len(kSend') = 0 /\ kSend' = <<>>
    BY <1>0, <1>23, OneElement DEF KernelSends
  <2>3. UNCHANGED <<pc, sendFlag>>
    BY <1>23 DEF KernelSends, sessionVars, threadVars
  <2>4. \A i \in 1..Len(cq') : SendDone(i)' => i = Len(cq) + 1
    <3>1. \A i \in 1..Len(cq) : ~SendDone(i)
      BY <2>2
    <3>2. \A i \in 1..Len(cq) : ~SendDone(i)'
      BY <2>1, <3>1 DEF SendDone
    <3>3. QED
      BY <1>0, <2>1, <3>2
  <2>5. QED
    BY <1>0, <2>1, <2>2, <2>3, <2>4
<1>24. CASE KernelSendFails
  <2>1. NoNewSendDone
    BY <1>24, AppendOther, CompletionType DEF KernelSendFails
  <2>2. kSend # <<>> /\ Len(kSend') = 0 /\ kSend' = <<>>
    BY <1>0, <1>24, OneElement DEF KernelSendFails
  <2>3. UNCHANGED <<pc, sendFlag>>
    BY <1>24 DEF KernelSendFails, sessionVars, threadVars
  <2>4. QED
    BY <1>0, <2>1, <2>2, <2>3 DEF NoNewSendDone
<1>25. CASE KernelReceives
  <2>1. \E b \in {"zero", "data"} : cq' = Append(cq, <<"recv", b>>)
    BY <1>25 DEF KernelReceives
  <2>2. \E c \in Completion : cq' = Append(cq, c) /\ c # <<"send", "data">>
    BY <2>1, CompletionType
  <2>3. NoNewSendDone
    BY <2>2, AppendOther
  <2>4. UNCHANGED <<pc, sendFlag, kSend>>
    BY <1>25 DEF KernelReceives, sessionVars, threadVars
  <2>5. QED
    BY <1>0, <2>3, <2>4 DEF NoNewSendDone
<1>26. CASE PeerGone
  BY <1>26, <1>0 DEF SendDone, PeerGone, sessionVars, kernelVars, threadVars
<1>27. CASE UNCHANGED vars
  BY <1>27, <1>0 DEF SendDone, vars, sessionVars, kernelVars, threadVars
<1>28. QED
  BY <1>1, <1>2, <1>3, <1>4, <1>5, <1>6, <1>7, <1>8, <1>9, <1>10, <1>11, <1>12, <1>13, <1>14, <1>15, <1>16, <1>17, <1>18, <1>19, <1>20, <1>21, <1>22, <1>23, <1>24, <1>25, <1>26, <1>27, NextSteps DEF InnerStep, HandlerStep

(* A set whose elements are all equal. *)
LEMMA AtMostOne ==
    ASSUME NEW S, \A x, y \in S : x = y
    PROVE  /\ IsFiniteSet(S)
           /\ Cardinality(S) \in {0, 1}
           /\ Cardinality(S) = 1 <=> S # {}
<1>1. CASE S = {}
  BY <1>1, FS_EmptySet
<1>2. CASE S # {}
  <2>1. PICK x \in S : TRUE
    BY <1>2
  <2>2. S = {x}
    BY <2>1
  <2>3. QED
    BY <1>2, <2>2, FS_Singleton
<1>3. QED
  BY <1>1, <1>2

(* TokenUnique is OneSendAtATime, and its token is the one that is counted. *)
LEMMA TokenCounted ==
    ASSUME TypeInv, TokenUnique
    PROVE  OneSendAtATime /\ (TokenCount > 0 <=> TokenHeld)
<1> DEFINE A == {t \in Threads : ThreadToken(t)}
<1>1. Len(kSend) \in {0, 1} /\ (Len(kSend) = 1 <=> kSend # <<>>)
  <2>1. kSend \in Seq(Seq(Packet)) /\ Len(kSend) <= 1
    BY DEF TypeInv, QueuesOK, TokenUnique
  <2>2. Len(kSend) \in Nat /\ (Len(kSend) = 0 <=> kSend = <<>>)
    BY <2>1, EmptyLen
  <2>3. Len(kSend) = 0 \/ Len(kSend) = 1
    BY <2>1, <2>2
  <2>4. QED
    BY <2>2, <2>3
<1>2. SendsUnderWay = {i \in 1..Len(cq) : SendDone(i)}
  BY DEF SendsUnderWay, CompletionToken, SendDone, TypeInv, QueuesOK
<1>3. Cardinality(A) \in {0, 1} /\ (Cardinality(A) = 1 <=> A # {})
  <2>1. \A x, y \in A : x = y
    BY DEF TokenUnique
  <2>2. QED
    BY <2>1, AtMostOne
<1>4. Cardinality(SendsUnderWay) \in {0, 1} /\ (Cardinality(SendsUnderWay) = 1 <=> SendsUnderWay # {})
  <2>1. \A x, y \in SendsUnderWay : x = y
    BY <1>2 DEF TokenUnique
  <2>2. QED
    BY <2>1, AtMostOne
<1>5. /\ TokenHeld <=> A # {} \/ kSend # <<>> \/ SendsUnderWay # {}
      /\ A # {} => kSend = <<>> /\ SendsUnderWay = {}
      /\ SendsUnderWay # {} => kSend = <<>>
      /\ TokenHeld => sendFlag
  BY <1>2 DEF TokenUnique, TokenHeld
<1>6. TokenCount = Cardinality(A) + Len(kSend) + Cardinality(SendsUnderWay)
  BY DEF TokenCount
<1> HIDE DEF A
<1>7. TokenCount \in {0, 1} /\ (TokenCount = 1 <=> TokenHeld)
  <2>1. CASE A # {}
    BY <1>1, <1>3, <1>4, <1>5, <1>6, <2>1
  <2>2. CASE SendsUnderWay # {}
    BY <1>1, <1>3, <1>4, <1>5, <1>6, <2>2
  <2>3. CASE A = {} /\ SendsUnderWay = {}
    <3>1. Cardinality(A) = 0 /\ Cardinality(SendsUnderWay) = 0
      BY <1>3, <1>4, <2>3
    <3>2. TokenCount = Len(kSend)
      BY <1>1, <1>6, <3>1
    <3>3. QED
      BY <1>1, <1>5, <2>3, <3>2
  <2>4. QED
    BY <2>1, <2>2, <2>3
<1>8. QED
  BY <1>5, <1>7 DEF OneSendAtATime

-----------------------------------------------------------------------------
(* The packet array *)

LEMMA ArrayStep ==
    ASSUME TypeInv, RefsCountHolders, TokenUnique, ArrayInv, [Next]_vars
    PROVE  ArrayInv'
<1> USE DEF ArrayInv, KernelBuffersStay, ImplFindsPackets, Goto, Back
<1>0. /\ pc \in [Threads -> Pcs] /\ sendFlag \in BOOLEAN
      /\ kSend \in Seq(Seq(Packet)) /\ arr \in Seq(Packet) /\ sendQ \in Seq(Packet)
  BY DEF TypeInv, QueuesOK, ThreadsOK
(* Only the holder of the token is between the compare-exchange and the WSASend. *)
<1>a. \A t \in Threads : pc[t] \in {"count", "impl", "take", "wsasend", "clear", "finish"} =>
         /\ kSend = <<>> /\ sendFlag
         /\ \A u \in Threads : pc[u] \in {"count", "impl", "take", "wsasend", "clear", "finish"} => u = t
  BY DEF TokenUnique, TokenHeld, ThreadToken, TokenPcs
<1>b. kSend # <<>> => sendFlag
  BY DEF TokenUnique, TokenHeld
<1>1. ASSUME NEW t \in Threads, UserSendPacket(t) \/ UserDisconnect(t) PROVE ArrayInv'
  BY <1>1, <1>0, <1>a, <1>b DEF UserSendPacket, UserDisconnect, Lock, MayCall, sessionVars, kernelVars, threadVars
<1>2. ASSUME NEW t \in Threads, SendPacketCheck(t) PROVE ArrayInv'
  BY <1>2, <1>0, <1>a, <1>b DEF SendPacketCheck, sessionVars, kernelVars, threadVars
<1>3. ASSUME NEW t \in Threads, SendPacketEnqueue(t) PROVE ArrayInv'
  <2>1. <<t, sent[t] + 1>> \in Packet
    BY <1>3, PacketType, SessionAssumption DEF SendPacketEnqueue, TypeInv, ThreadsOK, CallsPayForPackets
  <2>2. sendQ' # <<>>
    BY <1>0, <1>3, <2>1, AppendNotEmpty DEF SendPacketEnqueue
  <2>3. QED
    BY <1>0, <1>3, <2>2 DEF SendPacketEnqueue, kernelVars
<1>4. ASSUME NEW t \in Threads, SendAsyncCas(t) PROVE ArrayInv'
  BY <1>4, <1>0, <1>a, <1>b DEF SendAsyncCas, sessionVars, kernelVars, threadVars
<1>5. ASSUME NEW t \in Threads, SendAsyncCount(t) PROVE ArrayInv'
  BY <1>5, <1>0, <1>a, <1>b DEF SendAsyncCount, sessionVars, kernelVars, threadVars
<1>6. ASSUME NEW t \in Threads, SendAsyncClear(t) PROVE ArrayInv'
  BY <1>6, <1>0, <1>a, <1>b DEF SendAsyncClear, sessionVars, kernelVars, threadVars
<1>7. ASSUME NEW t \in Threads, SendAsyncRecount(t) PROVE ArrayInv'
  BY <1>7, <1>0, <1>a, <1>b DEF SendAsyncRecount, sessionVars, kernelVars, threadVars
<1>8. ASSUME NEW t \in Threads, SendAsyncImpl(t) PROVE ArrayInv'
  BY <1>8, <1>0, <1>a, <1>b DEF SendAsyncImpl, sessionVars, kernelVars, threadVars
<1>9. ASSUME NEW t \in Threads, TakePacket(t) PROVE ArrayInv'
  <2>1. CASE sendQ # <<>> /\ arr' = Append(arr, Head(sendQ)) /\ sendQ' = Tail(sendQ) /\ UNCHANGED pc
    <3>1. Head(sendQ) \in Packet
      BY <1>0, <2>1, HeadTailType
    <3>2. arr' # <<>>
      BY <1>0, <2>1, <3>1, AppendPlaces, EmptyType
    <3>3. UNCHANGED <<kSend, sendFlag>>
      BY <1>9 DEF TakePacket, kernelVars
    <3>4. QED
      BY <1>0, <1>a, <1>9, <2>1, <3>2, <3>3 DEF TakePacket
  <2>2. CASE pc' = [pc EXCEPT ![t] = IF arr = <<>> THEN "dcas" ELSE "wsasend"] /\ UNCHANGED <<sendQ, arr>>
    BY <1>0, <1>a, <1>9, <2>2 DEF TakePacket, kernelVars
  <2>3. QED
    BY <1>9, <2>1, <2>2 DEF TakePacket
<1>10. ASSUME NEW t \in Threads, DisconnectCas(t) PROVE ArrayInv'
  BY <1>10, <1>0, <1>a, <1>b DEF DisconnectCas, sessionVars, kernelVars, threadVars
<1>11. ASSUME NEW t \in Threads, WsaSend(t) PROVE ArrayInv'
  <2>1. kSend = <<>> /\ sendFlag
    BY <1>a, <1>11 DEF WsaSend
  <2>2. kSend' # <<>> => kSend' = <<arr>>
    BY <1>0, <1>11, <2>1, SMT DEF WsaSend
  <2>3. QED
    BY <1>0, <1>11, <2>1, <2>2 DEF WsaSend
<1>12. ASSUME NEW t \in Threads, DisconnectCancel(t) PROVE ArrayInv'
  BY <1>12, <1>0, <1>a, <1>b DEF DisconnectCancel, sessionVars, kernelVars, threadVars
<1>13. ASSUME NEW t \in Threads, Unlock(t) PROVE ArrayInv'
  <2>1. CASE refs = 1
    BY <1>13, <2>1, LastDrop DEF AtRest
  <2>2. CASE refs # 1
    <3>1. UNCHANGED <<sendFlag, kSend, arr, sendQ>>
      BY <1>13, <2>2, OtherDrop DEF kernelVars
    <3>2. QED
      BY <1>0, <1>13, <3>1 DEF Unlock
  <2>3. QED
    BY <2>1, <2>2
<1>14. ASSUME NEW w \in Workers, CallbackReturn(w) PROVE ArrayInv'
  BY <1>14, <1>0, <1>a, <1>b DEF CallbackReturn, sessionVars, kernelVars, threadVars, Threads
<1>15. ASSUME NEW w \in Workers, RecvAbort(w) PROVE ArrayInv'
  BY <1>15, <1>0, <1>a, <1>b DEF RecvAbort, sessionVars, kernelVars, threadVars, Threads
<1>16. ASSUME NEW w \in Workers, RecvAsyncCheck(w) PROVE ArrayInv'
  BY <1>16, <1>0, <1>a, <1>b DEF RecvAsyncCheck, sessionVars, kernelVars, threadVars, Threads, AfterRecvAsync
<1>17. ASSUME NEW w \in Workers, SendDoneFinish(w) PROVE ArrayInv'
  BY <1>17, <1>0, <1>a, <1>b DEF SendDoneFinish, sessionVars, kernelVars, threadVars, Threads
<1>18. ASSUME NEW w \in Workers, SendDoneAlive(w) PROVE ArrayInv'
  BY <1>18, <1>0, <1>a, <1>b DEF SendDoneAlive, sessionVars, kernelVars, threadVars, Threads
<1>19. ASSUME NEW w \in Workers, SendDoneMore(w) PROVE ArrayInv'
  BY <1>19, <1>0, <1>a, <1>b DEF SendDoneMore, sessionVars, kernelVars, threadVars, Threads
<1>20. ASSUME NEW w \in Workers, Dispatch(w) PROVE ArrayInv'
  BY <1>20, <1>0, <1>a, <1>b DEF Dispatch, sessionVars, kernelVars, threadVars, Threads
<1>21. ASSUME NEW w \in Workers, DeleteOverlapped(w) PROVE ArrayInv'
  <2>1. CASE refs = 1
    BY <1>21, <2>1, LastDrop DEF AtRest, Threads
  <2>2. CASE refs # 1
    <3>1. UNCHANGED <<sendFlag, kSend, arr, sendQ>>
      BY <1>21, <2>2, OtherDrop DEF kernelVars, Threads
    <3>2. QED
      BY <1>0, <1>21, <3>1 DEF DeleteOverlapped
  <2>3. QED
    BY <2>1, <2>2
<1>22. ASSUME NEW w \in Workers, WsaRecv(w) PROVE ArrayInv'
  BY <1>22, <1>0, <1>a, <1>b DEF WsaRecv, sessionVars, kernelVars, threadVars, Threads, AfterRecvAsync
<1>23. CASE KernelSends
  <2>1. kSend' = <<>>
    BY <1>0, <1>23, OneElement DEF KernelSends, TokenUnique
  <2>2. QED
    BY <1>23, <2>1 DEF KernelSends, sessionVars, threadVars
<1>24. CASE KernelSendFails
  <2>1. kSend' = <<>>
    BY <1>0, <1>24, OneElement DEF KernelSendFails, TokenUnique
  <2>2. QED
    BY <1>24, <2>1 DEF KernelSendFails, sessionVars, threadVars
<1>25. CASE KernelReceives
  BY <1>25, <1>0, <1>a, <1>b DEF KernelReceives, sessionVars, kernelVars, threadVars
<1>26. CASE PeerGone
  BY <1>26, <1>0, <1>a, <1>b DEF PeerGone, sessionVars, kernelVars, threadVars
<1>27. CASE UNCHANGED vars
  BY <1>27, <1>0, <1>a, <1>b DEF vars, sessionVars, kernelVars, threadVars
<1>28. QED
  BY <1>1, <1>2, <1>3, <1>4, <1>5, <1>6, <1>7, <1>8, <1>9, <1>10, <1>11, <1>12, <1>13, <1>14, <1>15, <1>16, <1>17, <1>18, <1>19, <1>20, <1>21, <1>22, <1>23, <1>24, <1>25, <1>26, <1>27, NextSteps DEF InnerStep, HandlerStep

-----------------------------------------------------------------------------
(* The flag and the queue of a healthy session *)

LEMMA FlagFrame ==
    ASSUME FlagInv,
           pending' = pending, sendFlag' = sendFlag, sendQ' = sendQ, broken' = broken,
           TokenHeld => TokenHeld',
           \A u \in Threads : /\ pc'[u] = "cancel" => pc[u] = "cancel"
                              /\ pc[u] \in {"trycas", "recount", "alive", "more", "dcas"} => pc'[u] = pc[u]
    PROVE  FlagInv'
BY DEF FlagInv

LEMMA FlagStep ==
    ASSUME TypeInv, RefsCountHolders, TokenUnique, FlagInv, [Next]_vars
    PROVE  FlagInv'
<1> USE DEF FlagInv, TokenHeld, ThreadToken, TokenPcs, Goto, Back
<1>0. /\ pc \in [Threads -> Pcs]
      /\ kSend \in Seq(Seq(Packet)) /\ arr \in Seq(Packet) /\ sendQ \in Seq(Packet)
      /\ Len(cq) \in Nat
  BY DEF TypeInv, QueuesOK, ThreadsOK
<1>1. ASSUME NEW t \in Threads, UserSendPacket(t) \/ UserDisconnect(t) PROVE FlagInv'
  <2>1. /\ UNCHANGED <<pending, sendFlag, sendQ, broken, kSend, cq>>
        /\ pc[t] \in {"idle", "callback"}
        /\ \E p \in {"check", "dcas"} : pc' = [pc EXCEPT ![t] = p]
    BY <1>1 DEF UserSendPacket, UserDisconnect, Lock, MayCall, kernelVars
  <2>2. \A u \in Threads : /\ pc'[u] = "cancel" => pc[u] = "cancel"
                           /\ pc[u] \in {"trycas", "recount", "alive", "more", "dcas"} => pc'[u] = pc[u]
                           /\ ThreadToken(u) => ThreadToken(u)'
    BY <1>0, <2>1
  <2>3. TokenHeld => TokenHeld'
    BY <2>1, <2>2 DEF SendDone
  <2>4. QED
    BY <2>1, <2>2, <2>3, FlagFrame
<1>2. ASSUME NEW t \in Threads, SendPacketCheck(t) PROVE FlagInv'
  BY <1>2, <1>0 DEF SendPacketCheck, SendDone, sessionVars, kernelVars, threadVars
<1>3. ASSUME NEW t \in Threads, SendPacketEnqueue(t) PROVE FlagInv'
  BY <1>3, <1>0 DEF SendPacketEnqueue, SendDone, sessionVars, kernelVars, threadVars
<1>4. ASSUME NEW t \in Threads, SendAsyncCas(t) PROVE FlagInv'
  BY <1>4, <1>0 DEF SendAsyncCas, SendDone, sessionVars, kernelVars, threadVars
<1>5. ASSUME NEW t \in Threads, SendAsyncCount(t) PROVE FlagInv'
  BY <1>5, <1>0 DEF SendAsyncCount, SendDone, sessionVars, kernelVars, threadVars
<1>6. ASSUME NEW t \in Threads, SendAsyncClear(t) PROVE FlagInv'
  BY <1>6, <1>0 DEF SendAsyncClear, SendDone, sessionVars, kernelVars, threadVars
<1>7. ASSUME NEW t \in Threads, SendAsyncRecount(t) PROVE FlagInv'
  BY <1>7, <1>0 DEF SendAsyncRecount, SendDone, sessionVars, kernelVars, threadVars
<1>8. ASSUME NEW t \in Threads, SendAsyncImpl(t) PROVE FlagInv'
  BY <1>8, <1>0 DEF SendAsyncImpl, SendDone, sessionVars, kernelVars, threadVars
<1>9. ASSUME NEW t \in Threads, TakePacket(t) PROVE FlagInv'
  BY <1>9, <1>0 DEF TakePacket, SendDone, sessionVars, kernelVars, threadVars
<1>10. ASSUME NEW t \in Threads, DisconnectCas(t) PROVE FlagInv'
  BY <1>10, <1>0 DEF DisconnectCas, SendDone, sessionVars, kernelVars, threadVars
<1>11. ASSUME NEW t \in Threads, WsaSend(t) PROVE FlagInv'
  <2>1. CASE kSend' = Append(kSend, arr)
    <3>1. kSend' # <<>>
      BY <1>0, <2>1, AppendNotEmpty
    <3>2. QED
      BY <1>0, <1>11, <3>1 DEF WsaSend
  <2>2. CASE broken
    BY <1>0, <1>11, <2>2 DEF WsaSend
  <2>3. QED
    BY <1>11, <2>1, <2>2 DEF WsaSend
<1>12. ASSUME NEW t \in Threads, DisconnectCancel(t) PROVE FlagInv'
  BY <1>12, <1>0 DEF DisconnectCancel, sessionVars
<1>13. ASSUME NEW t \in Threads, Unlock(t) PROVE FlagInv'
  <2>1. CASE refs = 1
    BY <1>13, <2>1, LastDrop DEF AtRest
  <2>2. CASE refs # 1
    <3>1. UNCHANGED <<sendFlag, pending, broken, kSend, cq, sendQ>>
      BY <1>13, <2>2, OtherDrop DEF kernelVars
    <3>2. QED
      BY <1>0, <1>13, <3>1 DEF SendDone, Unlock
  <2>3. QED
    BY <2>1, <2>2
<1>14. ASSUME NEW w \in Workers, CallbackReturn(w) PROVE FlagInv'
  BY <1>14, <1>0 DEF CallbackReturn, SendDone, sessionVars, kernelVars, threadVars, Threads
<1>15. ASSUME NEW w \in Workers, RecvAbort(w) PROVE FlagInv'
  BY <1>15, <1>0 DEF RecvAbort, SendDone, sessionVars, kernelVars, threadVars, Threads
<1>16. ASSUME NEW w \in Workers, RecvAsyncCheck(w) PROVE FlagInv'
  BY <1>16, <1>0 DEF RecvAsyncCheck, SendDone, sessionVars, kernelVars, threadVars, Threads, AfterRecvAsync
<1>17. ASSUME NEW w \in Workers, SendDoneFinish(w) PROVE FlagInv'
  BY <1>17, <1>0 DEF SendDoneFinish, SendDone, sessionVars, kernelVars, threadVars, Threads
<1>18. ASSUME NEW w \in Workers, SendDoneAlive(w) PROVE FlagInv'
  BY <1>18, <1>0 DEF SendDoneAlive, SendDone, sessionVars, kernelVars, threadVars, Threads
<1>19. ASSUME NEW w \in Workers, SendDoneMore(w) PROVE FlagInv'
  BY <1>19, <1>0 DEF SendDoneMore, SendDone, sessionVars, kernelVars, threadVars, Threads
<1>20. ASSUME NEW w \in Workers, Dispatch(w) PROVE FlagInv'
  <2>1. /\ Len(cq) \in Nat \ {0} /\ Len(cq') = Len(cq) - 1
        /\ \A i \in 1..Len(cq') : cq'[i] = cq[i + 1]
        /\ Head(cq) = cq[1]
    BY <1>20, DispatchCq
  <2>2. UNCHANGED <<kSend, sessionVars, broken>> /\ w \in Threads
    BY <1>20 DEF Dispatch, Threads
  <2>3. TokenHeld => TokenHeld'
    <3>1. CASE SendDone(1)
      <4>1. Head(cq)[2] = "data" /\ Head(cq)[1] = "send"
        BY <2>1, <3>1 DEF SendDone
      <4>2. pc' = [pc EXCEPT ![w] = "finish"]
        BY <1>20, <4>1 DEF Dispatch
      <4>3. QED
        BY <1>0, <2>2, <4>2
    <3>2. CASE ~SendDone(1)
      <4>1. \A i \in 2..Len(cq) : SendDone(i) => i - 1 \in 1..Len(cq') /\ SendDone(i - 1)'
        BY <2>1 DEF SendDone
      <4>2. \A i \in 1..Len(cq) : SendDone(i) => \E j \in 1..Len(cq') : SendDone(j)'
        BY <2>1, <3>2, <4>1
      <4>3. \A u \in Threads : ThreadToken(u) => ThreadToken(u)'
        BY <1>0, <1>20 DEF Dispatch
      <4>4. QED
        BY <2>2, <4>2, <4>3
    <3>3. QED
      BY <3>1, <3>2
  <2>4. \A u \in Threads : /\ pc'[u] = "cancel" => pc[u] = "cancel"
                           /\ pc[u] \in {"trycas", "recount", "alive", "more", "dcas"} => pc'[u] = pc[u]
    BY <1>0, <1>20 DEF Dispatch
  <2>5. pending' = pending /\ sendFlag' = sendFlag /\ sendQ' = sendQ /\ broken' = broken
    BY <2>2 DEF sessionVars
  <2>6. QED
    BY <2>3, <2>4, <2>5, FlagFrame
<1>21. ASSUME NEW w \in Workers, DeleteOverlapped(w) PROVE FlagInv'
  <2>1. CASE refs = 1
    BY <1>21, <2>1, LastDrop DEF AtRest, Threads
  <2>2. CASE refs # 1
    <3>1. UNCHANGED <<sendFlag, pending, broken, kSend, cq, sendQ>>
      BY <1>21, <2>2, OtherDrop DEF kernelVars, Threads
    <3>2. QED
      BY <1>0, <1>21, <3>1 DEF SendDone, DeleteOverlapped
  <2>3. QED
    BY <2>1, <2>2
<1>22. ASSUME NEW w \in Workers, WsaRecv(w) PROVE FlagInv'
  <2>1. UNCHANGED <<kSend, pending, sendFlag, sendQ, broken>> /\ w \in Threads
    BY <1>22 DEF WsaRecv, Threads
  <2>2. \A i \in 1..Len(cq) : i \in 1..Len(cq') /\ cq'[i] = cq[i]
    <3>1. CASE cq' = cq
      BY <1>0, <3>1
    <3>2. CASE cq' = Append(cq, <<"recv", "zero">>)
      <4>1. <<"recv", "zero">> \in Completion
        BY CompletionType
      <4>2. QED
        BY <3>2, <4>1, AppendCq
    <3>3. QED
      BY <1>22, <3>1, <3>2 DEF WsaRecv
  <2>3. \A i \in 1..Len(cq) : SendDone(i) => i \in 1..Len(cq') /\ SendDone(i)'
    BY <2>2 DEF SendDone
  <2>4. \A u \in Threads : /\ pc'[u] = "cancel" => pc[u] = "cancel"
                           /\ pc[u] \in {"trycas", "recount", "alive", "more", "dcas"} => pc'[u] = pc[u]
    BY <1>0, <1>22 DEF WsaRecv, AfterRecvAsync
  <2>5. \A u \in Threads : ThreadToken(u) => ThreadToken(u)'
    BY <1>0, <1>22 DEF WsaRecv, AfterRecvAsync
  <2>6. TokenHeld => TokenHeld'
    BY <2>1, <2>3, <2>5, Zenon
  <2>7. pending' = pending /\ sendFlag' = sendFlag /\ sendQ' = sendQ /\ broken' = broken
    BY <2>1
  <2>8. QED
    BY <2>4, <2>6, <2>7, FlagFrame
<1>23. CASE KernelSends
  <2>1. Len(cq') = Len(cq) + 1 /\ cq'[Len(cq) + 1] = <<"send", "data">>
    BY <1>23, AppendCq, CompletionType DEF KernelSends
  <2>2. TokenHeld'
    BY <1>0, <2>1 DEF SendDone
  <2>3. QED
    BY <1>23, <2>2 DEF FlagInv, KernelSends, sessionVars, threadVars
<1>24. CASE KernelSendFails
  BY <1>24 DEF KernelSendFails, sessionVars, threadVars
<1>25. CASE KernelReceives
  <2>1. \E b \in {"zero", "data"} : cq' = Append(cq, <<"recv", b>>)
    BY <1>25 DEF KernelReceives
  <2>2. \E c \in Completion : cq' = Append(cq, c)
    BY <2>1, CompletionType
  <2>3. \A i \in 1..Len(cq) : i \in 1..Len(cq') /\ cq'[i] = cq[i]
    BY <1>0, <2>2, AppendCq
  <2>4. UNCHANGED <<kSend, sessionVars, broken, pc>>
    BY <1>25 DEF KernelReceives, threadVars
  <2>5. TokenHeld => TokenHeld'
    BY <2>3, <2>4 DEF SendDone
  <2>6. QED
    BY <2>4, <2>5 DEF FlagInv, sessionVars
<1>26. CASE PeerGone
  BY <1>26, <1>0 DEF PeerGone, SendDone, sessionVars, kernelVars, threadVars
<1>27. CASE UNCHANGED vars
  BY <1>27, <1>0 DEF vars, SendDone, sessionVars, kernelVars, threadVars
<1>28. QED
  BY <1>1, <1>2, <1>3, <1>4, <1>5, <1>6, <1>7, <1>8, <1>9, <1>10, <1>11, <1>12, <1>13, <1>14, <1>15, <1>16, <1>17, <1>18, <1>19, <1>20, <1>21, <1>22, <1>23, <1>24, <1>25, <1>26, <1>27, NextSteps DEF InnerStep, HandlerStep

-----------------------------------------------------------------------------
(* The receive *)

(* Nobody starts to receive and the completion queue gets no receive. *)
NoNewReceive ==
    /\ kRecv' \in Nat /\ kRecv' <= kRecv
    /\ \A i \in 1..Len(cq') : RecvDone(i)' => i \in 1..Len(cq) /\ RecvDone(i)
    /\ \A w \in Workers : Receiving(w)' => Receiving(w)

LEMMA ReceiveFrame ==
    ASSUME TypeInv, ReceiveUnique, NoNewReceive
    PROVE  ReceiveUnique'
<1>1. kRecv \in Nat
  BY DEF TypeInv, ThreadsOK
<1>2. QED
  BY <1>1 DEF ReceiveUnique, NoNewReceive

LEMMA ReceiveStep ==
    ASSUME TypeInv, ReceiveUnique, [Next]_vars
    PROVE  ReceiveUnique'
<1> USE DEF Receiving, Goto, Back
<1>0. /\ pc \in [Threads -> Pcs] /\ op \in [Threads -> Ops] /\ ThreadsInPlace
      /\ cq \in Seq(Completion) /\ Len(cq) \in Nat /\ kRecv \in Nat
      /\ kSend \in Seq(Seq(Packet)) /\ Len(kSend) \in Nat
      /\ Workers \subseteq Threads
  BY DEF TypeInv, QueuesOK, ThreadsOK, Threads
<1>1. ASSUME NEW t \in Threads, UserSendPacket(t) \/ UserDisconnect(t) PROVE ReceiveUnique'
  <2>1. UNCHANGED <<kRecv, cq>>
    BY <1>1 DEF UserSendPacket, UserDisconnect, Lock, MayCall, kernelVars, threadVars
  <2>2. \A v \in Workers : Receiving(v)' => Receiving(v)
    BY <1>0, <1>1 DEF UserSendPacket, UserDisconnect, Lock, MayCall, ThreadsInPlace, threadVars
  <2>3. NoNewReceive
    BY <1>0, <2>1, <2>2 DEF NoNewReceive, RecvDone
  <2>4. QED
    BY <2>3, ReceiveFrame
<1>2. ASSUME NEW t \in Threads, SendPacketCheck(t) PROVE ReceiveUnique'
  <2>1. UNCHANGED <<kRecv, cq>>
    BY <1>2 DEF SendPacketCheck, kernelVars, threadVars
  <2>2. \A v \in Workers : Receiving(v)' => Receiving(v)
    BY <1>0, <1>2 DEF SendPacketCheck, ThreadsInPlace, threadVars
  <2>3. NoNewReceive
    BY <1>0, <2>1, <2>2 DEF NoNewReceive, RecvDone
  <2>4. QED
    BY <2>3, ReceiveFrame
<1>3. ASSUME NEW t \in Threads, SendPacketEnqueue(t) PROVE ReceiveUnique'
  <2>1. UNCHANGED <<kRecv, cq>>
    BY <1>3 DEF SendPacketEnqueue, kernelVars, threadVars
  <2>2. \A v \in Workers : Receiving(v)' => Receiving(v)
    BY <1>0, <1>3 DEF SendPacketEnqueue, ThreadsInPlace, threadVars
  <2>3. NoNewReceive
    BY <1>0, <2>1, <2>2 DEF NoNewReceive, RecvDone
  <2>4. QED
    BY <2>3, ReceiveFrame
<1>4. ASSUME NEW t \in Threads, SendAsyncCas(t) PROVE ReceiveUnique'
  <2>1. UNCHANGED <<kRecv, cq>>
    BY <1>4 DEF SendAsyncCas, kernelVars, threadVars
  <2>2. \A v \in Workers : Receiving(v)' => Receiving(v)
    BY <1>0, <1>4 DEF SendAsyncCas, ThreadsInPlace, threadVars
  <2>3. NoNewReceive
    BY <1>0, <2>1, <2>2 DEF NoNewReceive, RecvDone
  <2>4. QED
    BY <2>3, ReceiveFrame
<1>5. ASSUME NEW t \in Threads, SendAsyncCount(t) PROVE ReceiveUnique'
  <2>1. UNCHANGED <<kRecv, cq>>
    BY <1>5 DEF SendAsyncCount, kernelVars, threadVars
  <2>2. \A v \in Workers : Receiving(v)' => Receiving(v)
    BY <1>0, <1>5 DEF SendAsyncCount, ThreadsInPlace, threadVars
  <2>3. NoNewReceive
    BY <1>0, <2>1, <2>2 DEF NoNewReceive, RecvDone
  <2>4. QED
    BY <2>3, ReceiveFrame
<1>6. ASSUME NEW t \in Threads, SendAsyncClear(t) PROVE ReceiveUnique'
  <2>1. UNCHANGED <<kRecv, cq>>
    BY <1>6 DEF SendAsyncClear, kernelVars, threadVars
  <2>2. \A v \in Workers : Receiving(v)' => Receiving(v)
    BY <1>0, <1>6 DEF SendAsyncClear, ThreadsInPlace, threadVars
  <2>3. NoNewReceive
    BY <1>0, <2>1, <2>2 DEF NoNewReceive, RecvDone
  <2>4. QED
    BY <2>3, ReceiveFrame
<1>7. ASSUME NEW t \in Threads, SendAsyncRecount(t) PROVE ReceiveUnique'
  <2>1. UNCHANGED <<kRecv, cq>>
    BY <1>7 DEF SendAsyncRecount, kernelVars, threadVars
  <2>2. \A v \in Workers : Receiving(v)' => Receiving(v)
    BY <1>0, <1>7 DEF SendAsyncRecount, ThreadsInPlace, threadVars
  <2>3. NoNewReceive
    BY <1>0, <2>1, <2>2 DEF NoNewReceive, RecvDone
  <2>4. QED
    BY <2>3, ReceiveFrame
<1>8. ASSUME NEW t \in Threads, SendAsyncImpl(t) PROVE ReceiveUnique'
  <2>1. UNCHANGED <<kRecv, cq>>
    BY <1>8 DEF SendAsyncImpl, kernelVars, threadVars
  <2>2. \A v \in Workers : Receiving(v)' => Receiving(v)
    BY <1>0, <1>8 DEF SendAsyncImpl, ThreadsInPlace, threadVars
  <2>3. NoNewReceive
    BY <1>0, <2>1, <2>2 DEF NoNewReceive, RecvDone
  <2>4. QED
    BY <2>3, ReceiveFrame
<1>9. ASSUME NEW t \in Threads, TakePacket(t) PROVE ReceiveUnique'
  <2>1. UNCHANGED <<kRecv, cq>>
    BY <1>9 DEF TakePacket, kernelVars, threadVars
  <2>2. \A v \in Workers : Receiving(v)' => Receiving(v)
    BY <1>0, <1>9 DEF TakePacket, ThreadsInPlace, threadVars
  <2>3. NoNewReceive
    BY <1>0, <2>1, <2>2 DEF NoNewReceive, RecvDone
  <2>4. QED
    BY <2>3, ReceiveFrame
<1>10. ASSUME NEW t \in Threads, DisconnectCas(t) PROVE ReceiveUnique'
  <2>1. UNCHANGED <<kRecv, cq>>
    BY <1>10 DEF DisconnectCas, kernelVars, threadVars
  <2>2. \A v \in Workers : Receiving(v)' => Receiving(v)
    BY <1>0, <1>10 DEF DisconnectCas, ThreadsInPlace, threadVars
  <2>3. NoNewReceive
    BY <1>0, <2>1, <2>2 DEF NoNewReceive, RecvDone
  <2>4. QED
    BY <2>3, ReceiveFrame
<1>11. ASSUME NEW t \in Threads, WsaSend(t) PROVE ReceiveUnique'
  <2>1. \A v \in Workers : Receiving(v)' => Receiving(v)
    BY <1>0, <1>11 DEF WsaSend, ThreadsInPlace
  <2>2. kRecv' = kRecv
    BY <1>11 DEF WsaSend
  <2>3. \A i \in 1..Len(cq') : RecvDone(i)' => i \in 1..Len(cq) /\ RecvDone(i)
    <3>1. CASE cq' = cq
      BY <3>1 DEF RecvDone
    <3>2. CASE cq' = Append(cq, <<"send", "zero">>)
      BY <1>0, <3>2, AppendCq, CompletionType DEF RecvDone
    <3>3. QED
      BY <1>11, <3>1, <3>2 DEF WsaSend
  <2>4. QED
    BY <1>0, <2>1, <2>2, <2>3, ReceiveFrame DEF NoNewReceive
<1>12. ASSUME NEW t \in Threads, DisconnectCancel(t) PROVE ReceiveUnique'
  <2>1. /\ Len(cq') = Len(cq) + Len(kSend) + kRecv
        /\ \A i \in 1..Len(cq) : cq'[i] = cq[i]
        /\ \A i \in (Len(cq) + 1)..(Len(cq) + Len(kSend)) : cq'[i] = <<"send", "zero">>
        /\ \A i \in (Len(cq) + Len(kSend) + 1)..Len(cq') : cq'[i] = <<"recv", "zero">>
    BY <1>12, CancelPlaces
  <2>2. \A v \in Workers : Receiving(v)' => Receiving(v)
    BY <1>0, <1>12 DEF DisconnectCancel, ThreadsInPlace
  <2>3. kRecv' = 0
    BY <1>12 DEF DisconnectCancel
  <2>4. CASE kRecv = 0
    <3>1. \A i \in 1..Len(cq') : RecvDone(i)' => i \in 1..Len(cq) /\ RecvDone(i)
      <4>1. SUFFICES ASSUME NEW i \in 1..Len(cq'), cq'[i][1] = "recv"
                     PROVE  i \in 1..Len(cq) /\ cq[i][1] = "recv"
        BY DEF RecvDone
      <4>2. i \notin (Len(cq) + 1)..(Len(cq) + Len(kSend))
        BY <2>1, <4>1
      <4>3. i \in 1..Len(cq)
        BY <1>0, <2>1, <2>4, <4>2
      <4>4. QED
        BY <2>1, <4>1, <4>3
    <3>2. QED
      BY <1>0, <2>2, <2>3, <3>1, ReceiveFrame DEF NoNewReceive
  <2>5. CASE kRecv # 0
    <3>1. kRecv = 1 /\ (\A i \in 1..Len(cq) : ~RecvDone(i)) /\ \A v \in Workers : ~Receiving(v)
      BY <1>0, <2>5 DEF ReceiveUnique
    <3>2. \A i \in 1..Len(cq') : RecvDone(i)' => i = Len(cq')
      <4>1. SUFFICES ASSUME NEW i \in 1..Len(cq'), cq'[i][1] = "recv"
                     PROVE  i = Len(cq')
        BY DEF RecvDone
      <4>2. i \notin (Len(cq) + 1)..(Len(cq) + Len(kSend))
        BY <2>1, <4>1
      <4>3. i \notin 1..Len(cq)
        BY <2>1, <3>1, <4>1 DEF RecvDone
      <4>4. Len(cq') = Len(cq) + Len(kSend) + 1 /\ Len(cq) \in Nat /\ Len(kSend) \in Nat
        BY <1>0, <2>1, <3>1
      <4>5. QED
        BY <4>2, <4>3, <4>4
    <3>3. QED
      BY <2>2, <2>3, <3>1, <3>2 DEF ReceiveUnique
  <2>6. QED
    BY <2>4, <2>5
<1>13. ASSUME NEW t \in Threads, Unlock(t) PROVE ReceiveUnique'
  <2>1. UNCHANGED <<kRecv, cq>>
    BY <1>13 DEF Unlock, kernelVars, threadVars
  <2>2. \A v \in Workers : Receiving(v)' => Receiving(v)
    BY <1>0, <1>13 DEF Unlock, ThreadsInPlace, threadVars
  <2>3. NoNewReceive
    BY <1>0, <2>1, <2>2 DEF NoNewReceive, RecvDone
  <2>4. QED
    BY <2>3, ReceiveFrame
<1>14. ASSUME NEW w \in Workers, CallbackReturn(w) PROVE ReceiveUnique'
  <2>1. UNCHANGED <<kRecv, cq>>
    BY <1>14 DEF CallbackReturn, kernelVars, threadVars
  <2>2. \A v \in Workers : Receiving(v)' => Receiving(v)
    BY <1>0, <1>14 DEF CallbackReturn, ThreadsInPlace, threadVars
  <2>3. NoNewReceive
    BY <1>0, <2>1, <2>2 DEF NoNewReceive, RecvDone
  <2>4. QED
    BY <2>3, ReceiveFrame
<1>15. ASSUME NEW w \in Workers, RecvAbort(w) PROVE ReceiveUnique'
  <2>1. UNCHANGED <<kRecv, cq>>
    BY <1>15 DEF RecvAbort, kernelVars, threadVars
  <2>2. \A v \in Workers : Receiving(v)' => Receiving(v)
    BY <1>0, <1>15 DEF RecvAbort, ThreadsInPlace, threadVars
  <2>3. NoNewReceive
    BY <1>0, <2>1, <2>2 DEF NoNewReceive, RecvDone
  <2>4. QED
    BY <2>3, ReceiveFrame
<1>16. ASSUME NEW w \in Workers, RecvAsyncCheck(w) PROVE ReceiveUnique'
  <2>1. UNCHANGED <<kRecv, cq>>
    BY <1>16 DEF RecvAsyncCheck, kernelVars, threadVars
  <2>2. \A v \in Workers : Receiving(v)' => Receiving(v)
    BY <1>0, <1>16 DEF RecvAsyncCheck, ThreadsInPlace, threadVars, AfterRecvAsync
  <2>3. NoNewReceive
    BY <1>0, <2>1, <2>2 DEF NoNewReceive, RecvDone
  <2>4. QED
    BY <2>3, ReceiveFrame
<1>17. ASSUME NEW w \in Workers, SendDoneFinish(w) PROVE ReceiveUnique'
  <2>1. UNCHANGED <<kRecv, cq>>
    BY <1>17 DEF SendDoneFinish, kernelVars, threadVars
  <2>2. \A v \in Workers : Receiving(v)' => Receiving(v)
    BY <1>0, <1>17 DEF SendDoneFinish, ThreadsInPlace, threadVars
  <2>3. NoNewReceive
    BY <1>0, <2>1, <2>2 DEF NoNewReceive, RecvDone
  <2>4. QED
    BY <2>3, ReceiveFrame
<1>18. ASSUME NEW w \in Workers, SendDoneAlive(w) PROVE ReceiveUnique'
  <2>1. UNCHANGED <<kRecv, cq>>
    BY <1>18 DEF SendDoneAlive, kernelVars, threadVars
  <2>2. \A v \in Workers : Receiving(v)' => Receiving(v)
    BY <1>0, <1>18 DEF SendDoneAlive, ThreadsInPlace, threadVars
  <2>3. NoNewReceive
    BY <1>0, <2>1, <2>2 DEF NoNewReceive, RecvDone
  <2>4. QED
    BY <2>3, ReceiveFrame
<1>19. ASSUME NEW w \in Workers, SendDoneMore(w) PROVE ReceiveUnique'
  <2>1. UNCHANGED <<kRecv, cq>>
    BY <1>19 DEF SendDoneMore, kernelVars, threadVars
  <2>2. \A v \in Workers : Receiving(v)' => Receiving(v)
    BY <1>0, <1>19 DEF SendDoneMore, ThreadsInPlace, threadVars
  <2>3. NoNewReceive
    BY <1>0, <2>1, <2>2 DEF NoNewReceive, RecvDone
  <2>4. QED
    BY <2>3, ReceiveFrame
<1>20. ASSUME NEW w \in Workers, Dispatch(w) PROVE ReceiveUnique'
  <2>1. /\ Len(cq) \in Nat \ {0} /\ Len(cq') = Len(cq) - 1
        /\ \A i \in 1..Len(cq') : cq'[i] = cq[i + 1]
        /\ Head(cq) = cq[1] /\ kRecv' = kRecv
    BY <1>20, DispatchCq DEF Dispatch
  <2>2. cq[1][1] = "recv" \/ cq[1][1] = "send"
    BY <1>20, DispatchCq
  <2>3. \A i \in 1..Len(cq') : i + 1 \in 1..Len(cq) /\ (RecvDone(i)' <=> RecvDone(i + 1))
    BY <2>1 DEF RecvDone
  <2>4. \A v \in Workers : v # w => (Receiving(v)' <=> Receiving(v))
    BY <1>0, <1>20 DEF Dispatch
  <2>5. Receiving(w)' => RecvDone(1)
    BY <1>0, <1>20, <2>1, <2>2 DEF Dispatch, RecvDone
  <2>6. QED
    BY <2>1, <2>3, <2>4, <2>5 DEF ReceiveUnique
<1>21. ASSUME NEW w \in Workers, DeleteOverlapped(w) PROVE ReceiveUnique'
  <2>1. UNCHANGED <<kRecv, cq>>
    BY <1>21 DEF DeleteOverlapped, kernelVars, threadVars
  <2>2. \A v \in Workers : Receiving(v)' => Receiving(v)
    BY <1>0, <1>21 DEF DeleteOverlapped, ThreadsInPlace, threadVars
  <2>3. NoNewReceive
    BY <1>0, <2>1, <2>2 DEF NoNewReceive, RecvDone
  <2>4. QED
    BY <2>3, ReceiveFrame
<1>22. ASSUME NEW w \in Workers, WsaRecv(w) PROVE ReceiveUnique'
  <2>1. /\ Receiving(w) /\ ~Receiving(w)'
        /\ \A v \in Workers : v # w => (Receiving(v)' <=> Receiving(v))
    BY <1>0, <1>22 DEF WsaRecv, AfterRecvAsync, ThreadsInPlace, Ops
  <2>2. kRecv = 0 /\ (\A i \in 1..Len(cq) : ~RecvDone(i)) /\ \A v \in Workers : ~Receiving(v)'
    BY <2>1 DEF ReceiveUnique
  <2>3. CASE kRecv' = kRecv + 1 /\ cq' = cq
    BY <2>2, <2>3 DEF ReceiveUnique, RecvDone
  <2>4. CASE cq' = Append(cq, <<"recv", "zero">>) /\ kRecv' = kRecv
    <3>1. <<"recv", "zero">> \in Completion
      BY CompletionType
    <3>2. Len(cq') = Len(cq) + 1 /\ \A i \in 1..Len(cq) : cq'[i] = cq[i]
      BY <2>4, <3>1, AppendCq
    <3>3. \A i \in 1..Len(cq') : RecvDone(i)' => i = Len(cq) + 1
      BY <1>0, <2>2, <3>2 DEF RecvDone
    <3>4. QED
      BY <2>2, <2>4, <3>3 DEF ReceiveUnique
  <2>5. QED
    BY <1>22, <2>3, <2>4 DEF WsaRecv
<1>23. CASE KernelSends
  <2>1. Len(cq') = Len(cq) + 1 /\ cq'[Len(cq) + 1] = <<"send", "data">> /\ \A i \in 1..Len(cq) : cq'[i] = cq[i]
    BY <1>23, AppendCq, CompletionType DEF KernelSends
  <2>2. UNCHANGED <<kRecv, pc, op>>
    BY <1>23 DEF KernelSends, threadVars
  <2>3. \A i \in 1..Len(cq') : RecvDone(i)' => i \in 1..Len(cq) /\ RecvDone(i)
    BY <1>0, <2>1 DEF RecvDone
  <2>4. QED
    BY <1>0, <2>2, <2>3, ReceiveFrame DEF NoNewReceive
<1>24. CASE KernelSendFails
  <2>1. Len(cq') = Len(cq) + 1 /\ cq'[Len(cq) + 1] = <<"send", "zero">> /\ \A i \in 1..Len(cq) : cq'[i] = cq[i]
    BY <1>24, AppendCq, CompletionType DEF KernelSendFails
  <2>2. UNCHANGED <<kRecv, pc, op>>
    BY <1>24 DEF KernelSendFails, threadVars
  <2>3. \A i \in 1..Len(cq') : RecvDone(i)' => i \in 1..Len(cq) /\ RecvDone(i)
    BY <1>0, <2>1 DEF RecvDone
  <2>4. QED
    BY <1>0, <2>2, <2>3, ReceiveFrame DEF NoNewReceive
<1>25. CASE KernelReceives
  <2>1. \E b \in {"zero", "data"} : cq' = Append(cq, <<"recv", b>>)
    BY <1>25 DEF KernelReceives
  <2>2. \E c \in Completion : cq' = Append(cq, c)
    BY <2>1, CompletionType
  <2>3. Len(cq') = Len(cq) + 1 /\ \A i \in 1..Len(cq) : cq'[i] = cq[i]
    BY <2>2, AppendCq
  <2>4. kRecv = 1 /\ kRecv' = 0
    BY <1>0, <1>25 DEF KernelReceives, ReceiveUnique
  <2>5. (\A i \in 1..Len(cq) : ~RecvDone(i)) /\ \A v \in Workers : ~Receiving(v)
    BY <2>4 DEF ReceiveUnique
  <2>6. \A i \in 1..Len(cq') : RecvDone(i)' => i = Len(cq) + 1
    BY <1>0, <2>3, <2>5 DEF RecvDone
  <2>7. \A v \in Workers : ~Receiving(v)'
    BY <1>25, <2>5 DEF KernelReceives, threadVars
  <2>8. QED
    BY <2>4, <2>6, <2>7 DEF ReceiveUnique
<1>26. CASE PeerGone
  <2>1. UNCHANGED <<kRecv, cq>>
    BY <1>26 DEF PeerGone, kernelVars, threadVars
  <2>2. \A v \in Workers : Receiving(v)' => Receiving(v)
    BY <1>0, <1>26 DEF PeerGone, ThreadsInPlace, threadVars
  <2>3. NoNewReceive
    BY <1>0, <2>1, <2>2 DEF NoNewReceive, RecvDone
  <2>4. QED
    BY <2>3, ReceiveFrame
<1>27. CASE UNCHANGED vars
  <2>1. UNCHANGED <<kRecv, cq>>
    BY <1>27 DEF vars, kernelVars, threadVars
  <2>2. \A v \in Workers : Receiving(v)' => Receiving(v)
    BY <1>0, <1>27 DEF vars, ThreadsInPlace, threadVars
  <2>3. NoNewReceive
    BY <1>0, <2>1, <2>2 DEF NoNewReceive, RecvDone
  <2>4. QED
    BY <2>3, ReceiveFrame
<1>28. QED
  BY <1>1, <1>2, <1>3, <1>4, <1>5, <1>6, <1>7, <1>8, <1>9, <1>10, <1>11, <1>12, <1>13, <1>14, <1>15, <1>16, <1>17, <1>18, <1>19, <1>20, <1>21, <1>22, <1>23, <1>24, <1>25, <1>26, <1>27, NextSteps DEF InnerStep, HandlerStep

LEMMA ReceiveCounted ==
    ASSUME TypeInv, ReceiveUnique
    PROVE  OneReceiveAtATime
<1> DEFINE D == {i \in DOMAIN cq : cq[i][1] = "recv"}
           R == {w \in Workers : \/ op[w] = "recv" /\ pc[w] # "unref"
                                 \/ op[w] = "accept" /\ pc[w] # "unref"
                                 \/ op[w] = "connect" /\ pc[w] \in {"rcheck", "wsarecv"}}
<1>1. D = {i \in 1..Len(cq) : RecvDone(i)}
  BY DEF RecvDone, TypeInv, QueuesOK
<1>2. R = {w \in Workers : Receiving(w)}
  BY DEF Receiving
<1>3. kRecv \in {0, 1}
  BY DEF ReceiveUnique, TypeInv, ThreadsOK
<1>4. Cardinality(D) \in {0, 1} /\ (Cardinality(D) = 1 <=> D # {})
  <2>1. \A x, y \in D : x = y
    BY <1>1 DEF ReceiveUnique
  <2>2. QED
    BY <2>1, AtMostOne
<1>5. Cardinality(R) \in {0, 1} /\ (Cardinality(R) = 1 <=> R # {})
  <2>1. \A x, y \in R : x = y
    BY <1>2 DEF ReceiveUnique
  <2>2. QED
    BY <2>1, AtMostOne
<1>6. (D # {} => kRecv = 0) /\ (R # {} => kRecv = 0 /\ D = {})
  BY <1>1, <1>2 DEF ReceiveUnique
<1> HIDE DEF D, R
<1>7. kRecv + Cardinality(D) + Cardinality(R) <= 1
  BY <1>3, <1>4, <1>5, <1>6
<1>8. QED
  BY <1>7 DEF OneReceiveAtATime, D, R

-----------------------------------------------------------------------------
(* The stream of packets *)

LEMMA PrefixGapFree ==
    ASSUME NEW a \in Seq(Packet), NEW b \in Seq(Packet), GapFree(a \o b)
    PROVE  GapFree(a)
<1>1. /\ Len(a) \in Nat /\ Len(b) \in Nat /\ Len(a \o b) = Len(a) + Len(b)
      /\ \A i \in 1..Len(a) : (a \o b)[i] = a[i]
  BY ConcatPlaces
<1> DEFINE c == a \o b
<1> HIDE DEF c
<1>2. SUFFICES ASSUME NEW j \in 1..Len(a)
               PROVE  /\ \A i \in 1..(j - 1) : a[i][1] = a[j][1] => a[i][2] < a[j][2]
                      /\ \A n \in 1..(a[j][2] - 1) :
                            \E i \in 1..(j - 1) : a[i] = <<a[j][1], n>>
  BY DEF GapFree
<1>3. /\ j \in 1..Len(c) /\ c[j] = a[j]
      /\ \A i \in 1..(j - 1) : i \in 1..Len(c) /\ c[i] = a[i]
  BY <1>1 DEF c
<1>4. /\ \A i \in 1..(j - 1) : c[i][1] = c[j][1] => c[i][2] < c[j][2]
      /\ \A n \in 1..(c[j][2] - 1) :
            \E i \in 1..(j - 1) : c[i] = <<c[j][1], n>>
  BY <1>3 DEF GapFree, c
<1>5. QED
  BY <1>3, <1>4

(* A packet enqueued by t gets the next number of t. *)
LEMMA AppendGood ==
    ASSUME NEW s \in Seq(Packet), NEW num \in [Threads -> 0..MaxCalls], NEW t \in Threads,
           num[t] < MaxCalls, GapFree(s), AllSent(s, num)
    PROVE  /\ GapFree(Append(s, <<t, num[t] + 1>>))
           /\ AllSent(Append(s, <<t, num[t] + 1>>), [num EXCEPT ![t] = @ + 1])
<1> DEFINE p == <<t, num[t] + 1>>
           c == Append(s, p)
           m == [num EXCEPT ![t] = @ + 1]
<1>0. num[t] \in Nat /\ MaxCalls \in Nat /\ p \in Packet /\ p[1] = t /\ p[2] = num[t] + 1
  <2>1. num[t] \in Nat /\ MaxCalls \in Nat /\ num[t] + 1 \in 1..MaxCalls
    BY SessionAssumption
  <2>2. p \in Packet
    BY <2>1, PacketType
  <2>3. QED
    BY <2>1, <2>2
<1>1. /\ Len(s) \in Nat /\ Len(c) = Len(s) + 1 /\ c[Len(s) + 1] = p
      /\ \A i \in 1..Len(s) : c[i] = s[i]
  BY <1>0, AppendPlaces, EmptyLen
<1>2. \A u \in Threads : m[u] = IF u = t THEN num[t] + 1 ELSE num[u]
  OBVIOUS
<1>3. \A i \in 1..Len(s) : s[i] \in Packet /\ s[i][1] \in Threads /\ s[i][2] \in Nat
  BY ElementOfSeq, PacketType
<1> HIDE DEF c, m, p
<1>4. GapFree(c)
  <2>1. SUFFICES ASSUME NEW j \in 1..Len(c)
                 PROVE  /\ \A i \in 1..(j - 1) : c[i][1] = c[j][1] => c[i][2] < c[j][2]
                        /\ \A n \in 1..(c[j][2] - 1) :
                              \E i \in 1..(j - 1) : c[i] = <<c[j][1], n>>
    BY DEF GapFree
  <2>2. CASE j \in 1..Len(s)
    <3>1. c[j] = s[j] /\ \A i \in 1..(j - 1) : c[i] = s[i]
      BY <1>1, <2>2
    <3>2. QED
      BY <2>2, <3>1 DEF GapFree
  <2>3. CASE j = Len(s) + 1
    <3>1. c[j] = p /\ \A i \in 1..(j - 1) : i \in 1..Len(s) /\ c[i] = s[i]
      BY <1>1, <2>3
    <3>2. \A i \in 1..(j - 1) : c[i][1] = c[j][1] => c[i][2] < c[j][2]
      <4>1. SUFFICES ASSUME NEW i \in 1..(j - 1), c[i][1] = c[j][1]
                     PROVE  c[i][2] < c[j][2]
        OBVIOUS
      <4>2. i \in 1..Len(s) /\ c[i] = s[i] /\ s[i][1] = t
        BY <1>0, <3>1, <4>1
      <4>3. s[i][2] <= num[t] /\ s[i][2] \in Nat
        BY <1>3, <4>2 DEF AllSent
      <4>4. QED
        BY <1>0, <3>1, <4>2, <4>3
    <3>3. \A n \in 1..num[t] : \E i \in 1..Len(s) : s[i] = <<t, n>>
      BY DEF AllSent
    <3>4. \A n \in 1..(c[j][2] - 1) : n \in 1..num[t]
      BY <1>0, <3>1
    <3>5. ASSUME NEW n \in 1..(c[j][2] - 1)
          PROVE  \E i \in 1..(j - 1) : c[i] = <<c[j][1], n>>
      <4>1. PICK i \in 1..Len(s) : s[i] = <<t, n>>
        BY <3>3, <3>4
      <4>2. i \in 1..(j - 1) /\ c[i] = <<c[j][1], n>>
        BY <1>0, <1>1, <2>3, <3>1, <4>1
      <4>3. QED
        BY <4>2
    <3>6. QED
      BY <3>2, <3>5
  <2>4. j \in 1..Len(s) \/ j = Len(s) + 1
    BY <1>1
  <2>5. QED
    BY <2>2, <2>3, <2>4
<1>5. \A i \in 1..Len(c) : c[i][2] <= m[c[i][1]]
  <2>1. SUFFICES ASSUME NEW i \in 1..Len(c) PROVE c[i][2] <= m[c[i][1]]
    OBVIOUS
  <2>2. CASE i \in 1..Len(s)
    <3>1. c[i] = s[i] /\ s[i][2] <= num[s[i][1]] /\ s[i][1] \in Threads /\ s[i][2] \in Nat
      BY <1>1, <1>3, <2>2 DEF AllSent
    <3>2. num[s[i][1]] \in Nat /\ m[s[i][1]] \in Nat /\ num[s[i][1]] <= m[s[i][1]]
      BY <1>0, <1>2, <3>1
    <3>3. QED
      BY <3>1, <3>2
  <2>3. CASE i = Len(s) + 1
    BY <1>0, <1>1, <1>2, <2>3
  <2>4. QED
    BY <1>1, <2>2, <2>3
<1>6. ASSUME NEW u \in Threads, NEW n \in 1..m[u]
      PROVE  \E i \in 1..Len(c) : c[i] = <<u, n>>
  <2>1. CASE n \in 1..num[u]
    <3>1. PICK i \in 1..Len(s) : s[i] = <<u, n>>
      BY <2>1 DEF AllSent
    <3>2. i \in 1..Len(c) /\ c[i] = <<u, n>>
      BY <1>1, <3>1
    <3>3. QED
      BY <3>2
  <2>2. CASE u = t /\ n = num[t] + 1
    <3>1. Len(s) + 1 \in 1..Len(c) /\ c[Len(s) + 1] = <<u, n>>
      BY <1>1, <2>2 DEF p
    <3>2. QED
      BY <3>1
  <2>3. QED
    BY <1>0, <1>2, <1>6, <2>1, <2>2
<1>7. AllSent(c, m)
  BY <1>5, <1>6 DEF AllSent
<1>8. QED
  BY <1>4, <1>7 DEF c, m, p

LEMMA PacketsAssociative ==
    \A a, b, c \in Seq(Packet) : (a \o b) \o c = a \o (b \o c)
BY ConcatAssociative

(* Moving the head of the queue to the array leaves the stream as it is. *)
LEMMA TakeKeepsOrder ==
    ASSUME NEW a \in Seq(Packet), NEW b \in Seq(Packet), NEW q \in Seq(Packet), q # <<>>
    PROVE  (a \o Append(b, Head(q))) \o Tail(q) = (a \o b) \o q
<1>1. Head(q) \in Packet /\ Tail(q) \in Seq(Packet) /\ <<Head(q)>> \in Seq(Packet)
  BY HeadTailType
<1>2. PICK h \in Seq(Packet) : h = <<Head(q)>>
  BY <1>1
<1>3. PICK r \in Seq(Packet) : r = Tail(q)
  BY <1>1
<1>4. q = h \o r
  <2>1. Len(h) = 1 /\ h[1] = Head(q)
    BY <1>2
  <2>2. /\ h \o r \in Seq(Packet) /\ Len(h \o r) = 1 + Len(r)
        /\ (h \o r)[1] = Head(q)
        /\ \A i \in 2..(1 + Len(r)) : (h \o r)[i] = r[i - 1]
    <3>1. /\ h \o r \in Seq(Packet) /\ Len(r) \in Nat
          /\ Len(h \o r) = Len(h) + Len(r)
          /\ \A i \in 1..Len(h) : (h \o r)[i] = h[i]
          /\ \A i \in (Len(h) + 1)..(Len(h) + Len(r)) : (h \o r)[i] = r[i - Len(h)]
      BY ConcatPlaces
    <3>2. QED
      BY <2>1, <3>1
  <2>3. /\ Len(q) \in Nat \ {0} /\ Len(r) = Len(q) - 1 /\ Head(q) = q[1]
        /\ \A i \in 1..Len(r) : r[i] = q[i + 1]
    BY <1>3, TailPlaces
  <2>4. Len(q) = Len(h \o r)
    BY <2>2, <2>3
  <2>5. \A i \in 1..Len(q) : q[i] = (h \o r)[i]
    BY <2>2, <2>3
  <2>6. QED
    BY <2>2, <2>4, <2>5, SeqEqual
<1>5. Append(b, Head(q)) = b \o h
  BY <1>1, <1>2, AppendIsConcat
<1>6. a \o b \in Seq(Packet)
  BY ConcatPlaces
<1>7. (a \o (b \o h)) \o r = ((a \o b) \o h) \o r
  BY PacketsAssociative
<1>8. ASSUME NEW c \in Seq(Packet) PROVE (c \o h) \o r = c \o (h \o r)
  BY <1>2, PacketsAssociative, SMTT(30)
<1>9. ((a \o b) \o h) \o r = (a \o b) \o (h \o r)
  BY <1>6, <1>8
<1>10. QED
  BY <1>3, <1>4, <1>5, <1>7, <1>9

LEMMA AppendToConcat ==
    ASSUME NEW a \in Seq(Packet), NEW q \in Seq(Packet), NEW p \in Packet
    PROVE  a \o Append(q, p) = Append(a \o q, p)
<1>1. <<p>> \in Seq(Packet) /\ a \o q \in Seq(Packet)
  BY ConcatPlaces
<1>2. Append(q, p) = q \o <<p>> /\ Append(a \o q, p) = (a \o q) \o <<p>>
  BY <1>1, AppendIsConcat
<1>3. QED
  BY <1>1, <1>2, PacketsAssociative

LEMMA StreamType ==
    ASSUME TypeInv
    PROVE  Out \in Seq(Packet) /\ Stream \in Seq(Packet)
<1>1. wire \in Seq(Packet) /\ arr \in Seq(Packet) /\ sendQ \in Seq(Packet)
  BY DEF TypeInv, QueuesOK
<1>2. wire \o arr \in Seq(Packet)
  BY <1>1, ConcatPlaces
<1>3. Out \in Seq(Packet)
  BY <1>1, <1>2 DEF Out
<1>4. QED
  BY <1>1, <1>3, ConcatPlaces DEF Stream

LEMMA StreamFrame ==
    ASSUME StreamInv, wire' = wire, sent' = sent, Live' => Live /\ Stream' = Stream
    PROVE  StreamInv'
BY DEF StreamInv

(* Nobody takes the token, gives it back or finishes a send. *)
LEMMA TokenStays ==
    ASSUME kSend' = kSend, cq' = cq, wire' = wire, arr' = arr, sendQ' = sendQ,
           sendFlag' = sendFlag, destroyed' = destroyed,
           \A u \in Threads : /\ ThreadToken(u)' <=> ThreadToken(u)
                              /\ pc'[u] = "finish" <=> pc[u] = "finish"
    PROVE  Live' => Live /\ Stream' = Stream
<1>1. TokenHeld' <=> TokenHeld
  BY DEF TokenHeld, SendDone, ThreadToken
<1>2. ArrayOut' <=> ArrayOut
  BY DEF ArrayOut, SendDone
<1>3. Live' => Live
  BY <1>1 DEF Live
<1>4. Out' = Out
  BY <1>2 DEF Out
<1>5. Stream' = Stream
  BY <1>4 DEF Stream
<1>6. QED
  BY <1>3, <1>5

(* The completion queue changes, but not the completions of sends with     *)
(* data.                                                                   *)
LEMMA CompletionsStay ==
    ASSUME kSend' = kSend, wire' = wire, arr' = arr, sendQ' = sendQ,
           sendFlag' = sendFlag, destroyed' = destroyed,
           (\E i \in 1..Len(cq') : SendDone(i)') <=> (\E i \in 1..Len(cq) : SendDone(i)),
           \A u \in Threads : /\ ThreadToken(u)' <=> ThreadToken(u)
                              /\ pc'[u] = "finish" <=> pc[u] = "finish"
    PROVE  Live' => Live /\ Stream' = Stream
<1>1. TokenHeld' <=> TokenHeld
  BY DEF TokenHeld, SendDone, ThreadToken
<1>2. ArrayOut' <=> ArrayOut
  BY DEF ArrayOut, SendDone
<1>3. Live' => Live
  BY <1>1 DEF Live
<1>4. Out' = Out
  BY <1>2 DEF Out
<1>5. Stream' = Stream
  BY <1>4 DEF Stream
<1>6. QED
  BY <1>3, <1>5

LEMMA AppendCompletions ==
    ASSUME TypeInv, NEW c \in Completion, cq' = Append(cq, c), c # <<"send", "data">>
    PROVE  (\E i \in 1..Len(cq') : SendDone(i)') <=> (\E i \in 1..Len(cq) : SendDone(i))
<1>1. /\ Len(cq) \in Nat /\ Len(cq') = Len(cq) + 1
      /\ \A i \in 1..Len(cq) : cq'[i] = cq[i]
  BY AppendCq
<1>2. NoNewSendDone
  BY AppendOther
<1>3. QED
  BY <1>1, <1>2 DEF NoNewSendDone, SendDone

(* A thread with the token: no send is under way or done, and no other     *)
(* thread has it.                                                          *)
LEMMA ThreadHasToken ==
    ASSUME TokenUnique, NEW t \in Threads, ThreadToken(t)
    PROVE  /\ TokenHeld /\ sendFlag /\ kSend = <<>>
           /\ \A i \in 1..Len(cq) : ~SendDone(i)
           /\ \A u \in Threads : ThreadToken(u) => u = t
BY DEF TokenUnique, TokenHeld

(* Nothing is under way in a destroyed session. *)
LEMMA NothingInDestroyed ==
    ASSUME TypeInv, RefsCountHolders, destroyed
    PROVE  Len(kSend) = 0
<1>1. Len(kSend) + kRecv + Len(cq) + Cardinality(OpHolders) + Cardinality(CallHolders) = 0
  BY RefsCount
<1>2. Len(kSend) \in Nat /\ kRecv \in Nat /\ Len(cq) \in Nat
  BY DEF TypeInv, QueuesOK, ThreadsOK
<1>3. Cardinality(OpHolders) \in Nat /\ Cardinality(CallHolders) \in Nat
  BY HoldersFinite
<1>4. QED
  BY <1>1, <1>2, <1>3

LEMMA StreamStep ==
    ASSUME TypeInv, RefsCountHolders, TokenUnique, ArrayInv, StreamInv, [Next]_vars
    PROVE  StreamInv'
<1> USE DEF Goto, Back
<1>0. /\ pc \in [Threads -> Pcs] /\ sendFlag \in BOOLEAN /\ destroyed \in BOOLEAN
      /\ kSend \in Seq(Seq(Packet)) /\ cq \in Seq(Completion) /\ Len(cq) \in Nat
      /\ arr \in Seq(Packet) /\ sendQ \in Seq(Packet) /\ wire \in Seq(Packet)
      /\ sent \in [Threads -> 0..MaxCalls]
      /\ Workers \subseteq Threads
  BY DEF TypeInv, QueuesOK, ThreadsOK, Threads
<1>1. ASSUME NEW t \in Threads, UserSendPacket(t) \/ UserDisconnect(t) PROVE StreamInv'
  <2>1. /\ kSend' = kSend /\ cq' = cq /\ wire' = wire /\ arr' = arr /\ sendQ' = sendQ
        /\ sendFlag' = sendFlag /\ destroyed' = destroyed /\ sent' = sent
    BY <1>1 DEF UserSendPacket, UserDisconnect, Lock, MayCall, sessionVars, kernelVars, threadVars
  <2>2. \A u \in Threads : /\ ThreadToken(u)' <=> ThreadToken(u)
                           /\ pc'[u] = "finish" <=> pc[u] = "finish"
    BY <1>0, <1>1 DEF UserSendPacket, UserDisconnect, Lock, MayCall, threadVars, ThreadToken, TokenPcs, AfterRecvAsync
  <2>3. Live' => Live /\ Stream' = Stream
    BY <2>1, <2>2, TokenStays
  <2>4. QED
    BY <2>1, <2>3, StreamFrame
<1>2. ASSUME NEW t \in Threads, SendPacketCheck(t) PROVE StreamInv'
  <2>1. /\ kSend' = kSend /\ cq' = cq /\ wire' = wire /\ arr' = arr /\ sendQ' = sendQ
        /\ sendFlag' = sendFlag /\ destroyed' = destroyed /\ sent' = sent
    BY <1>2 DEF SendPacketCheck, sessionVars, kernelVars, threadVars
  <2>2. \A u \in Threads : /\ ThreadToken(u)' <=> ThreadToken(u)
                           /\ pc'[u] = "finish" <=> pc[u] = "finish"
    BY <1>0, <1>2 DEF SendPacketCheck, threadVars, ThreadToken, TokenPcs, AfterRecvAsync
  <2>3. Live' => Live /\ Stream' = Stream
    BY <2>1, <2>2, TokenStays
  <2>4. QED
    BY <2>1, <2>3, StreamFrame
<1>3. ASSUME NEW t \in Threads, SendPacketEnqueue(t) PROVE StreamInv'
  <2>1. /\ kSend' = kSend /\ cq' = cq /\ wire' = wire /\ arr' = arr
        /\ sendFlag' = sendFlag /\ destroyed' = destroyed
        /\ sendQ' = Append(sendQ, <<t, sent[t] + 1>>) /\ sent' = [sent EXCEPT ![t] = @ + 1]
    BY <1>3 DEF SendPacketEnqueue, kernelVars
  <2>2. sent[t] < MaxCalls /\ <<t, sent[t] + 1>> \in Packet
    <3>1. sent[t] < MaxCalls
      BY <1>3, SessionAssumption DEF SendPacketEnqueue, TypeInv, ThreadsOK, CallsPayForPackets
    <3>2. sent[t] + 1 \in 1..MaxCalls
      BY <1>0, <3>1, SessionAssumption
    <3>3. QED
      BY <3>1, <3>2, PacketType
  <2>3. \A u \in Threads : /\ ThreadToken(u)' <=> ThreadToken(u)
                           /\ pc'[u] = "finish" <=> pc[u] = "finish"
    BY <1>0, <1>3 DEF SendPacketEnqueue, ThreadToken, TokenPcs
  <2>4. (TokenHeld' <=> TokenHeld) /\ (ArrayOut' <=> ArrayOut)
    BY <2>1, <2>3 DEF TokenHeld, ArrayOut, SendDone, ThreadToken
  <2>5. (Live' <=> Live) /\ Out' = Out
    BY <2>1, <2>4 DEF Live, Out
  <2>6. Stream' = Append(Stream, <<t, sent[t] + 1>>)
    BY <1>0, <2>1, <2>2, <2>5, StreamType, AppendToConcat DEF Stream
  <2>7. GapFree(wire)
    BY DEF StreamInv
  <2>8. ASSUME Live PROVE GapFree(Stream') /\ AllSent(Stream', sent')
    <3>1. GapFree(Stream) /\ AllSent(Stream, sent)
      BY <2>8 DEF StreamInv
    <3>2. QED
      BY <1>0, <2>1, <2>2, <2>6, <3>1, StreamType, AppendGood
  <2>9. QED
    BY <2>1, <2>5, <2>7, <2>8 DEF StreamInv
<1>4. ASSUME NEW t \in Threads, SendAsyncCas(t) PROVE StreamInv'
  <2>1. /\ kSend' = kSend /\ cq' = cq /\ wire' = wire /\ arr' = arr /\ sendQ' = sendQ
        /\ destroyed' = destroyed /\ sent' = sent
    BY <1>4 DEF SendAsyncCas, kernelVars
  <2>2. \A u \in Threads : pc'[u] = "finish" <=> pc[u] = "finish"
    BY <1>0, <1>4 DEF SendAsyncCas
  <2>3. ArrayOut' <=> ArrayOut
    BY <2>1, <2>2 DEF ArrayOut, SendDone
  <2>4. Stream' = Stream
    BY <2>1, <2>3 DEF Stream, Out
  <2>5. CASE ~sendFlag
    BY <2>1, <2>4, <2>5, StreamFrame DEF Live
  <2>6. CASE sendFlag
    <3>1. \A u \in Threads : ThreadToken(u)' <=> ThreadToken(u)
      BY <1>0, <1>4, <2>6 DEF SendAsyncCas, ThreadToken, TokenPcs
    <3>2. TokenHeld' <=> TokenHeld
      BY <2>1, <3>1 DEF TokenHeld, SendDone, ThreadToken
    <3>3. Live' => Live
      BY <1>4, <2>1, <2>6, <3>2 DEF Live, SendAsyncCas
    <3>4. QED
      BY <2>1, <2>4, <3>3, StreamFrame
  <2>7. QED
    BY <2>5, <2>6
<1>5. ASSUME NEW t \in Threads, SendAsyncCount(t) PROVE StreamInv'
  <2>1. /\ kSend' = kSend /\ cq' = cq /\ wire' = wire /\ arr' = arr /\ sendQ' = sendQ
        /\ sendFlag' = sendFlag /\ destroyed' = destroyed /\ sent' = sent
    BY <1>5 DEF SendAsyncCount, sessionVars, kernelVars, threadVars
  <2>2. \A u \in Threads : /\ ThreadToken(u)' <=> ThreadToken(u)
                           /\ pc'[u] = "finish" <=> pc[u] = "finish"
    BY <1>0, <1>5 DEF SendAsyncCount, threadVars, ThreadToken, TokenPcs, AfterRecvAsync
  <2>3. Live' => Live /\ Stream' = Stream
    BY <2>1, <2>2, TokenStays
  <2>4. QED
    BY <2>1, <2>3, StreamFrame
<1>6. ASSUME NEW t \in Threads, SendAsyncClear(t) PROVE StreamInv'
  <2>1. /\ kSend' = kSend /\ cq' = cq /\ wire' = wire /\ arr' = arr /\ sendQ' = sendQ
        /\ destroyed' = destroyed /\ sent' = sent
    BY <1>6 DEF SendAsyncClear, kernelVars
  <2>2. \A u \in Threads : pc'[u] = "finish" <=> pc[u] = "finish"
    BY <1>0, <1>6 DEF SendAsyncClear
  <2>3. ArrayOut' <=> ArrayOut
    BY <2>1, <2>2 DEF ArrayOut, SendDone
  <2>4. Stream' = Stream
    BY <2>1, <2>3 DEF Stream, Out
  <2>5. TokenHeld
    BY <1>6 DEF SendAsyncClear, TokenHeld, ThreadToken, TokenPcs
  <2>6. QED
    BY <2>1, <2>4, <2>5, StreamFrame DEF Live
<1>7. ASSUME NEW t \in Threads, SendAsyncRecount(t) PROVE StreamInv'
  <2>1. /\ kSend' = kSend /\ cq' = cq /\ wire' = wire /\ arr' = arr /\ sendQ' = sendQ
        /\ sendFlag' = sendFlag /\ destroyed' = destroyed /\ sent' = sent
    BY <1>7 DEF SendAsyncRecount, sessionVars, kernelVars, threadVars
  <2>2. \A u \in Threads : /\ ThreadToken(u)' <=> ThreadToken(u)
                           /\ pc'[u] = "finish" <=> pc[u] = "finish"
    BY <1>0, <1>7 DEF SendAsyncRecount, threadVars, ThreadToken, TokenPcs, AfterRecvAsync
  <2>3. Live' => Live /\ Stream' = Stream
    BY <2>1, <2>2, TokenStays
  <2>4. QED
    BY <2>1, <2>3, StreamFrame
<1>8. ASSUME NEW t \in Threads, SendAsyncImpl(t) PROVE StreamInv'
  <2>1. /\ wire' = wire /\ sendQ' = sendQ /\ cq' = cq /\ destroyed' = destroyed /\ sent' = sent
        /\ arr = <<>> /\ arr' = arr
    BY <1>8 DEF SendAsyncImpl, kernelVars, ArrayInv
  <2>2. \A u \in Threads : pc'[u] = "finish" <=> pc[u] = "finish"
    BY <1>0, <1>8 DEF SendAsyncImpl
  <2>3. ArrayOut' <=> ArrayOut
    BY <2>1, <2>2 DEF ArrayOut, SendDone
  <2>4. Stream' = Stream
    BY <2>1, <2>3 DEF Stream, Out
  <2>5. TokenHeld
    BY <1>8 DEF SendAsyncImpl, TokenHeld, ThreadToken, TokenPcs
  <2>6. QED
    BY <2>1, <2>4, <2>5, StreamFrame DEF Live
<1>9. ASSUME NEW t \in Threads, TakePacket(t) PROVE StreamInv'
  <2>1. /\ wire' = wire /\ cq' = cq /\ destroyed' = destroyed /\ sent' = sent
        /\ TokenHeld /\ ThreadToken(t) /\ pc[t] = "take"
    BY <1>9 DEF TakePacket, kernelVars, TokenHeld, ThreadToken, TokenPcs
  <2>2. \A u \in Threads : pc[u] # "finish" /\ pc'[u] # "finish"
    BY <1>0, <1>9, <2>1, ThreadHasToken DEF TakePacket, ThreadToken, TokenPcs
  <2>3. ~ArrayOut
    BY <2>1, <2>2, ThreadHasToken DEF ArrayOut
  <2>4. ~ArrayOut'
    BY <2>1, <2>2, <2>3 DEF ArrayOut, SendDone
  <2>5. Out = wire \o arr /\ Out' = wire \o arr'
    BY <2>1, <2>3, <2>4 DEF Out
  <2>6. CASE sendQ # <<>> /\ arr' = Append(arr, Head(sendQ)) /\ sendQ' = Tail(sendQ)
    <3>1. Stream' = Stream
      BY <1>0, <2>5, <2>6, TakeKeepsOrder DEF Stream
    <3>2. QED
      BY <2>1, <3>1, StreamFrame DEF Live
  <2>7. CASE sendQ' = sendQ /\ arr' = arr
    <3>1. Stream' = Stream
      BY <2>5, <2>7 DEF Stream
    <3>2. QED
      BY <2>1, <3>1, StreamFrame DEF Live
  <2>8. QED
    BY <1>9, <2>6, <2>7 DEF TakePacket
<1>10. ASSUME NEW t \in Threads, DisconnectCas(t) PROVE StreamInv'
  <2>1. /\ kSend' = kSend /\ cq' = cq /\ wire' = wire /\ arr' = arr /\ sendQ' = sendQ
        /\ sendFlag' = sendFlag /\ destroyed' = destroyed /\ sent' = sent
    BY <1>10 DEF DisconnectCas, sessionVars, kernelVars, threadVars
  <2>2. \A u \in Threads : /\ ThreadToken(u)' <=> ThreadToken(u)
                           /\ pc'[u] = "finish" <=> pc[u] = "finish"
    BY <1>0, <1>10 DEF DisconnectCas, threadVars, ThreadToken, TokenPcs, AfterRecvAsync
  <2>3. Live' => Live /\ Stream' = Stream
    BY <2>1, <2>2, TokenStays
  <2>4. QED
    BY <2>1, <2>3, StreamFrame
<1>11. ASSUME NEW t \in Threads, WsaSend(t) PROVE StreamInv'
  <2>1. /\ wire' = wire /\ arr' = arr /\ sendQ' = sendQ /\ destroyed' = destroyed /\ sent' = sent
        /\ TokenHeld /\ ThreadToken(t) /\ pc[t] = "wsasend"
    BY <1>11 DEF WsaSend, TokenHeld, ThreadToken, TokenPcs
  <2>2. \A u \in Threads : pc[u] # "finish" /\ pc'[u] # "finish"
    BY <1>0, <1>11, <2>1, ThreadHasToken DEF WsaSend, ThreadToken, TokenPcs
  <2>3. \A i \in 1..Len(cq) : ~SendDone(i)
    BY <2>1, ThreadHasToken
  <2>4. \A i \in 1..Len(cq') : ~SendDone(i)'
    <3>1. CASE cq' = cq
      BY <2>3, <3>1 DEF SendDone
    <3>2. CASE cq' = Append(cq, <<"send", "zero">>)
      <4>1. NoNewSendDone
        BY <3>2, AppendOther, CompletionType
      <4>2. QED
        BY <2>3, <4>1 DEF NoNewSendDone
    <3>3. QED
      BY <1>11, <3>1, <3>2 DEF WsaSend
  <2>5. ~ArrayOut /\ ~ArrayOut'
    BY <2>2, <2>3, <2>4 DEF ArrayOut, SendDone
  <2>6. Stream' = Stream
    BY <2>1, <2>5 DEF Stream, Out
  <2>7. QED
    BY <2>1, <2>6, StreamFrame DEF Live
<1>12. ASSUME NEW t \in Threads, DisconnectCancel(t) PROVE StreamInv'
  <2>1. /\ wire' = wire /\ arr' = arr /\ sendQ' = sendQ /\ sendFlag' = sendFlag
        /\ destroyed' = destroyed /\ sent' = sent /\ kSend' = <<>>
    BY <1>12 DEF DisconnectCancel, sessionVars
  <2>2. \A u \in Threads : /\ ThreadToken(u)' <=> ThreadToken(u)
                           /\ pc'[u] = "finish" <=> pc[u] = "finish"
    BY <1>0, <1>12 DEF DisconnectCancel, ThreadToken, TokenPcs
  <2>3. NoNewSendDone
    BY <1>12, CancelOther
  <2>4. CASE kSend = <<>>
    <3>1. \A i \in 1..Len(cq) : i \in 1..Len(cq') /\ cq'[i] = cq[i]
      <4>1. Len(cq') = Len(cq) + Len(kSend) + kRecv /\ Len(kSend) \in Nat /\ kRecv \in Nat
        BY <1>12, CancelPlaces DEF TypeInv, QueuesOK, ThreadsOK
      <4>2. \A i \in 1..Len(cq) : cq'[i] = cq[i]
        BY <1>12, CancelPlaces
      <4>3. QED
        BY <1>0, <4>1, <4>2
    <3>2. (\E i \in 1..Len(cq') : SendDone(i)') <=> (\E i \in 1..Len(cq) : SendDone(i))
      BY <2>3, <3>1 DEF NoNewSendDone, SendDone
    <3>3. Live' => Live /\ Stream' = Stream
      BY <2>1, <2>2, <2>4, <3>2, CompletionsStay
    <3>4. QED
      BY <2>1, <3>3, StreamFrame
  <2>5. CASE kSend # <<>>
    <3>1. sendFlag /\ (\A i \in 1..Len(cq) : ~SendDone(i)) /\ \A u \in Threads : ~ThreadToken(u)
      BY <2>5 DEF TokenUnique, TokenHeld
    <3>2. (\A i \in 1..Len(cq') : ~SendDone(i)') /\ \A u \in Threads : ~ThreadToken(u)'
      BY <2>2, <2>3, <3>1 DEF NoNewSendDone
    <3>3. ~TokenHeld'
      BY <2>1, <3>2 DEF TokenHeld, SendDone, ThreadToken
    <3>4. ~Live'
      BY <2>1, <3>1, <3>3 DEF Live
    <3>5. QED
      BY <2>1, <3>4, StreamFrame
  <2>6. QED
    BY <2>4, <2>5
<1>13. ASSUME NEW t \in Threads, Unlock(t) PROVE StreamInv'
  <2>1. CASE refs = 1
    <3>1. destroyed' /\ wire' = wire /\ sent' = sent
      BY <1>13, <2>1, LastDrop DEF Unlock, Threads
    <3>2. QED
      BY <3>1, StreamFrame DEF Live
  <2>2. CASE refs # 1
    <3>1. /\ kSend' = kSend /\ cq' = cq /\ wire' = wire /\ arr' = arr /\ sendQ' = sendQ
          /\ sendFlag' = sendFlag /\ destroyed' = destroyed /\ sent' = sent
      BY <1>0, <1>13, <2>2, OtherDrop DEF Unlock, kernelVars
    <3>2. \A u \in Threads : /\ ThreadToken(u)' <=> ThreadToken(u)
                             /\ pc'[u] = "finish" <=> pc[u] = "finish"
      BY <1>0, <1>13 DEF Unlock, ThreadToken, TokenPcs
    <3>3. Live' => Live /\ Stream' = Stream
      BY <3>1, <3>2, TokenStays
    <3>4. QED
      BY <3>1, <3>3, StreamFrame
  <2>3. QED
    BY <2>1, <2>2
<1>14. ASSUME NEW w \in Workers, CallbackReturn(w) PROVE StreamInv'
  <2>1. /\ kSend' = kSend /\ cq' = cq /\ wire' = wire /\ arr' = arr /\ sendQ' = sendQ
        /\ sendFlag' = sendFlag /\ destroyed' = destroyed /\ sent' = sent
    BY <1>14 DEF CallbackReturn, sessionVars, kernelVars, threadVars
  <2>2. \A u \in Threads : /\ ThreadToken(u)' <=> ThreadToken(u)
                           /\ pc'[u] = "finish" <=> pc[u] = "finish"
    BY <1>0, <1>14 DEF CallbackReturn, threadVars, ThreadToken, TokenPcs, AfterRecvAsync
  <2>3. Live' => Live /\ Stream' = Stream
    BY <2>1, <2>2, TokenStays
  <2>4. QED
    BY <2>1, <2>3, StreamFrame
<1>15. ASSUME NEW w \in Workers, RecvAbort(w) PROVE StreamInv'
  <2>1. /\ kSend' = kSend /\ cq' = cq /\ wire' = wire /\ arr' = arr /\ sendQ' = sendQ
        /\ sendFlag' = sendFlag /\ destroyed' = destroyed /\ sent' = sent
    BY <1>15 DEF RecvAbort, sessionVars, kernelVars, threadVars
  <2>2. \A u \in Threads : /\ ThreadToken(u)' <=> ThreadToken(u)
                           /\ pc'[u] = "finish" <=> pc[u] = "finish"
    BY <1>0, <1>15 DEF RecvAbort, threadVars, ThreadToken, TokenPcs, AfterRecvAsync
  <2>3. Live' => Live /\ Stream' = Stream
    BY <2>1, <2>2, TokenStays
  <2>4. QED
    BY <2>1, <2>3, StreamFrame
<1>16. ASSUME NEW w \in Workers, RecvAsyncCheck(w) PROVE StreamInv'
  <2>1. /\ kSend' = kSend /\ cq' = cq /\ wire' = wire /\ arr' = arr /\ sendQ' = sendQ
        /\ sendFlag' = sendFlag /\ destroyed' = destroyed /\ sent' = sent
    BY <1>16 DEF RecvAsyncCheck, sessionVars, kernelVars, threadVars
  <2>2. \A u \in Threads : /\ ThreadToken(u)' <=> ThreadToken(u)
                           /\ pc'[u] = "finish" <=> pc[u] = "finish"
    BY <1>0, <1>16 DEF RecvAsyncCheck, threadVars, ThreadToken, TokenPcs, AfterRecvAsync
  <2>3. Live' => Live /\ Stream' = Stream
    BY <2>1, <2>2, TokenStays
  <2>4. QED
    BY <2>1, <2>3, StreamFrame
<1>17. ASSUME NEW w \in Workers, SendDoneFinish(w) PROVE StreamInv'
  <2>1. /\ wire' = wire /\ sendQ' = sendQ /\ cq' = cq /\ destroyed' = destroyed /\ sent' = sent
        /\ arr' = <<>> /\ w \in Threads /\ pc[w] = "finish"
    BY <1>0, <1>17 DEF SendDoneFinish, kernelVars
  <2>2. ThreadToken(w)
    BY <2>1 DEF ThreadToken, TokenPcs
  <2>3. TokenHeld /\ ArrayOut
    BY <2>1, <2>2, ThreadHasToken DEF ArrayOut
  <2>4. \A u \in Threads : pc'[u] # "finish"
    BY <1>0, <1>17, <2>1, <2>2, ThreadHasToken DEF SendDoneFinish, ThreadToken, TokenPcs
  <2>5. \A i \in 1..Len(cq') : ~SendDone(i)'
    BY <2>1, <2>2, ThreadHasToken DEF SendDone
  <2>6. ~ArrayOut'
    BY <2>4, <2>5 DEF ArrayOut, SendDone
  <2>7. wire \o <<>> = wire
    BY <1>0, ConcatEmptySeq
  <2>8. Stream' = Stream
    BY <2>1, <2>3, <2>6, <2>7 DEF Stream, Out
  <2>9. QED
    BY <2>1, <2>3, <2>8, StreamFrame DEF Live
<1>18. ASSUME NEW w \in Workers, SendDoneAlive(w) PROVE StreamInv'
  <2>1. /\ kSend' = kSend /\ cq' = cq /\ wire' = wire /\ arr' = arr /\ sendQ' = sendQ
        /\ sendFlag' = sendFlag /\ destroyed' = destroyed /\ sent' = sent
    BY <1>18 DEF SendDoneAlive, sessionVars, kernelVars, threadVars
  <2>2. \A u \in Threads : /\ ThreadToken(u)' <=> ThreadToken(u)
                           /\ pc'[u] = "finish" <=> pc[u] = "finish"
    BY <1>0, <1>18 DEF SendDoneAlive, threadVars, ThreadToken, TokenPcs, AfterRecvAsync
  <2>3. Live' => Live /\ Stream' = Stream
    BY <2>1, <2>2, TokenStays
  <2>4. QED
    BY <2>1, <2>3, StreamFrame
<1>19. ASSUME NEW w \in Workers, SendDoneMore(w) PROVE StreamInv'
  <2>1. /\ kSend' = kSend /\ cq' = cq /\ wire' = wire /\ arr' = arr /\ sendQ' = sendQ
        /\ sendFlag' = sendFlag /\ destroyed' = destroyed /\ sent' = sent
    BY <1>19 DEF SendDoneMore, sessionVars, kernelVars, threadVars
  <2>2. \A u \in Threads : /\ ThreadToken(u)' <=> ThreadToken(u)
                           /\ pc'[u] = "finish" <=> pc[u] = "finish"
    BY <1>0, <1>19 DEF SendDoneMore, threadVars, ThreadToken, TokenPcs, AfterRecvAsync
  <2>3. Live' => Live /\ Stream' = Stream
    BY <2>1, <2>2, TokenStays
  <2>4. QED
    BY <2>1, <2>3, StreamFrame
<1>20. ASSUME NEW w \in Workers, Dispatch(w) PROVE StreamInv'
  <2>1. /\ kSend' = kSend /\ wire' = wire /\ arr' = arr /\ sendQ' = sendQ
        /\ sendFlag' = sendFlag /\ destroyed' = destroyed /\ sent' = sent /\ w \in Threads
    BY <1>0, <1>20 DEF Dispatch, sessionVars
  <2>2. /\ Len(cq) \in Nat \ {0} /\ Len(cq') = Len(cq) - 1
        /\ \A i \in 1..Len(cq') : cq'[i] = cq[i + 1]
        /\ cq[1] \in {<<"recv", "data">>, <<"recv", "zero">>, <<"send", "data">>, <<"send", "zero">>}
        /\ Head(cq) = cq[1]
    BY <1>20, DispatchCq
  <2>3. CASE SendDone(1)
    <3>1. Head(cq)[2] = "data" /\ Head(cq)[1] = "send"
      BY <2>2, <2>3 DEF SendDone
    <3>2. pc' = [pc EXCEPT ![w] = "finish"]
      BY <1>20, <3>1 DEF Dispatch
    <3>3. ArrayOut /\ TokenHeld
      BY <2>2, <2>3 DEF ArrayOut, TokenHeld
    <3>4. ArrayOut'
      BY <1>0, <2>1, <3>2 DEF ArrayOut
    <3>5. Stream' = Stream
      BY <2>1, <3>3, <3>4 DEF Stream, Out
    <3>6. QED
      BY <2>1, <3>3, <3>5, StreamFrame DEF Live
  <2>4. CASE ~SendDone(1)
    <3>1. Head(cq)[2] = "zero" \/ Head(cq)[1] = "recv"
      BY <2>2, <2>4 DEF SendDone
    <3>2. pc[w] = "wait" /\ \E p \in {"unref", "callback"} : pc' = [pc EXCEPT ![w] = p]
      BY <1>20, <3>1 DEF Dispatch
    <3>3. \A u \in Threads : /\ ThreadToken(u)' <=> ThreadToken(u)
                             /\ pc'[u] = "finish" <=> pc[u] = "finish"
      BY <1>0, <2>1, <3>2 DEF ThreadToken, TokenPcs
    <3>4. \A i \in 1..Len(cq') : i + 1 \in 1..Len(cq) /\ (SendDone(i)' <=> SendDone(i + 1))
      BY <2>2 DEF SendDone
    <3>5. \A i \in 1..Len(cq) : SendDone(i) => i - 1 \in 1..Len(cq') /\ SendDone(i - 1)'
      BY <2>2, <2>4 DEF SendDone
    <3>6. (\E i \in 1..Len(cq') : SendDone(i)') <=> (\E i \in 1..Len(cq) : SendDone(i))
      BY <3>4, <3>5
    <3>7. Live' => Live /\ Stream' = Stream
      BY <2>1, <3>3, <3>6, CompletionsStay
    <3>8. QED
      BY <2>1, <3>7, StreamFrame
  <2>5. QED
    BY <2>3, <2>4
<1>21. ASSUME NEW w \in Workers, DeleteOverlapped(w) PROVE StreamInv'
  <2>1. CASE refs = 1
    <3>1. destroyed' /\ wire' = wire /\ sent' = sent
      BY <1>21, <2>1, LastDrop DEF DeleteOverlapped, Threads
    <3>2. QED
      BY <3>1, StreamFrame DEF Live
  <2>2. CASE refs # 1
    <3>1. /\ kSend' = kSend /\ cq' = cq /\ wire' = wire /\ arr' = arr /\ sendQ' = sendQ
          /\ sendFlag' = sendFlag /\ destroyed' = destroyed /\ sent' = sent
      BY <1>0, <1>21, <2>2, OtherDrop DEF DeleteOverlapped, kernelVars
    <3>2. \A u \in Threads : /\ ThreadToken(u)' <=> ThreadToken(u)
                             /\ pc'[u] = "finish" <=> pc[u] = "finish"
      BY <1>0, <1>21 DEF DeleteOverlapped, ThreadToken, TokenPcs
    <3>3. Live' => Live /\ Stream' = Stream
      BY <3>1, <3>2, TokenStays
    <3>4. QED
      BY <3>1, <3>3, StreamFrame
  <2>3. QED
    BY <2>1, <2>2
<1>22. ASSUME NEW w \in Workers, WsaRecv(w) PROVE StreamInv'
  <2>1. /\ kSend' = kSend /\ wire' = wire /\ arr' = arr /\ sendQ' = sendQ
        /\ sendFlag' = sendFlag /\ destroyed' = destroyed /\ sent' = sent
    BY <1>22 DEF WsaRecv
  <2>2. \A u \in Threads : /\ ThreadToken(u)' <=> ThreadToken(u)
                           /\ pc'[u] = "finish" <=> pc[u] = "finish"
    BY <1>0, <1>22 DEF WsaRecv, AfterRecvAsync, ThreadToken, TokenPcs
  <2>3. (\E i \in 1..Len(cq') : SendDone(i)') <=> (\E i \in 1..Len(cq) : SendDone(i))
    <3>1. CASE cq' = cq
      BY <3>1 DEF SendDone
    <3>2. CASE cq' = Append(cq, <<"recv", "zero">>)
      <4>1. <<"recv", "zero">> \in Completion /\ <<"recv", "zero">> # <<"send", "data">>
        BY CompletionType
      <4>2. QED
        BY <3>2, <4>1, AppendCompletions
    <3>3. QED
      BY <1>22, <3>1, <3>2 DEF WsaRecv
  <2>4. Live' => Live /\ Stream' = Stream
    BY <2>1, <2>2, <2>3, CompletionsStay
  <2>5. QED
    BY <2>1, <2>4, StreamFrame
<1>23. CASE KernelSends
  <2>1. /\ sendQ' = sendQ /\ arr' = arr /\ sendFlag' = sendFlag /\ destroyed' = destroyed
        /\ sent' = sent /\ pc' = pc /\ kSend # <<>> /\ wire' = wire \o Head(kSend)
    BY <1>23 DEF KernelSends, sessionVars, threadVars
  <2>2. (\A i \in 1..Len(cq) : ~SendDone(i)) /\ (\A u \in Threads : ~ThreadToken(u)) /\ TokenHeld
    BY <2>1 DEF TokenUnique, TokenHeld
  <2>3. ~ArrayOut
    BY <2>2 DEF ArrayOut, ThreadToken, TokenPcs
  <2>4. Head(kSend) = arr
    BY <2>1 DEF ArrayInv, KernelBuffersStay
  <2>5. Len(cq') = Len(cq) + 1 /\ cq'[Len(cq) + 1] = <<"send", "data">>
    BY <1>23, AppendCq, CompletionType DEF KernelSends
  <2>6. ArrayOut'
    <3>1. Len(cq) + 1 \in 1..Len(cq')
      BY <1>0, <2>5
    <3>2. \E i \in 1..Len(cq') : cq'[i] = <<"send", "data">>
      BY <2>5, <3>1
    <3>3. QED
      BY <3>2 DEF ArrayOut, SendDone
  <2>7. Out = wire \o arr /\ wire' = Out /\ Stream' = Stream
    BY <2>1, <2>3, <2>4, <2>6 DEF Stream, Out
  <2>8. Live' => Live
    BY <2>1, <2>2 DEF Live
  <2>9. CASE Live
    <3>1. GapFree(Stream) /\ AllSent(Stream, sent)
      BY <2>9 DEF StreamInv
    <3>2. GapFree(Out)
      BY <1>0, <3>1, StreamType, PrefixGapFree DEF Stream
    <3>3. QED
      BY <2>1, <2>7, <3>1, <3>2 DEF StreamInv
  <2>10. CASE ~Live
    <3>1. destroyed
      BY <2>2, <2>10 DEF Live
    <3>2. FALSE
      BY <1>0, <2>1, <3>1, EmptyLen, NothingInDestroyed
    <3>3. QED
      BY <3>2
  <2>11. QED
    BY <2>9, <2>10
<1>24. CASE KernelSendFails
  <2>1. /\ wire' = wire /\ sendFlag' = sendFlag /\ sent' = sent /\ pc' = pc /\ kSend # <<>>
    BY <1>24 DEF KernelSendFails, sessionVars, threadVars
  <2>2. kSend' = <<>>
    BY <1>0, <1>24, OneElement DEF KernelSendFails, TokenUnique
  <2>3. NoNewSendDone
    BY <1>24, AppendOther, CompletionType DEF KernelSendFails
  <2>4. sendFlag /\ (\A i \in 1..Len(cq) : ~SendDone(i)) /\ \A u \in Threads : ~ThreadToken(u)
    BY <2>1 DEF TokenUnique, TokenHeld
  <2>5. (\A i \in 1..Len(cq') : ~SendDone(i)') /\ \A u \in Threads : ~ThreadToken(u)'
    BY <2>1, <2>3, <2>4 DEF NoNewSendDone, ThreadToken
  <2>6. ~TokenHeld'
    BY <2>2, <2>5 DEF TokenHeld, SendDone, ThreadToken
  <2>7. ~Live'
    BY <2>1, <2>4, <2>6 DEF Live
  <2>8. QED
    BY <2>1, <2>7, StreamFrame
<1>25. CASE KernelReceives
  <2>1. /\ kSend' = kSend /\ wire' = wire /\ arr' = arr /\ sendQ' = sendQ
        /\ sendFlag' = sendFlag /\ destroyed' = destroyed /\ sent' = sent /\ pc' = pc
    BY <1>25 DEF KernelReceives, sessionVars, threadVars
  <2>2. \E b \in {"zero", "data"} : cq' = Append(cq, <<"recv", b>>)
    BY <1>25 DEF KernelReceives
  <2>3. \E c \in Completion : cq' = Append(cq, c) /\ c # <<"send", "data">>
    BY <2>2, CompletionType
  <2>4. (\E i \in 1..Len(cq') : SendDone(i)') <=> (\E i \in 1..Len(cq) : SendDone(i))
    BY <2>3, AppendCompletions
  <2>5. Live' => Live /\ Stream' = Stream
    BY <2>1, <2>4, CompletionsStay DEF ThreadToken
  <2>6. QED
    BY <2>1, <2>5, StreamFrame
<1>26. CASE PeerGone
  <2>1. /\ kSend' = kSend /\ cq' = cq /\ wire' = wire /\ arr' = arr /\ sendQ' = sendQ
        /\ sendFlag' = sendFlag /\ destroyed' = destroyed /\ sent' = sent
    BY <1>26 DEF PeerGone, sessionVars, kernelVars, threadVars
  <2>2. \A u \in Threads : /\ ThreadToken(u)' <=> ThreadToken(u)
                           /\ pc'[u] = "finish" <=> pc[u] = "finish"
    BY <1>0, <1>26 DEF PeerGone, threadVars, ThreadToken, TokenPcs, AfterRecvAsync
  <2>3. Live' => Live /\ Stream' = Stream
    BY <2>1, <2>2, TokenStays
  <2>4. QED
    BY <2>1, <2>3, StreamFrame
<1>27. CASE UNCHANGED vars
  <2>1. /\ kSend' = kSend /\ cq' = cq /\ wire' = wire /\ arr' = arr /\ sendQ' = sendQ
        /\ sendFlag' = sendFlag /\ destroyed' = destroyed /\ sent' = sent
    BY <1>27 DEF vars, sessionVars, kernelVars, threadVars
  <2>2. \A u \in Threads : /\ ThreadToken(u)' <=> ThreadToken(u)
                           /\ pc'[u] = "finish" <=> pc[u] = "finish"
    BY <1>0, <1>27 DEF vars, threadVars, ThreadToken, TokenPcs, AfterRecvAsync
  <2>3. Live' => Live /\ Stream' = Stream
    BY <2>1, <2>2, TokenStays
  <2>4. QED
    BY <2>1, <2>3, StreamFrame
<1>28. QED
  BY <1>1, <1>2, <1>3, <1>4, <1>5, <1>6, <1>7, <1>8, <1>9, <1>10, <1>11, <1>12, <1>13, <1>14, <1>15, <1>16, <1>17, <1>18, <1>19, <1>20, <1>21, <1>22, <1>23, <1>24, <1>25, <1>26, <1>27, NextSteps DEF InnerStep, HandlerStep

-----------------------------------------------------------------------------
(* All together *)

LEMMA InitSession == Init => SessionInv
<1> SUFFICES ASSUME Init PROVE SessionInv
  OBVIOUS
<1>0. PICK w \in Workers, o \in {"accept", "connect"} :
         /\ op = [t \in Threads |-> IF t = w THEN o ELSE "none"]
         /\ pc = [t \in Threads |->
                    IF t = w THEN (IF o = "accept" THEN "callback" ELSE "rcheck")
                    ELSE IF t \in Workers THEN "wait" ELSE "idle"]
  BY DEF Init
<1>1. TypeInv
  BY InitTypeInv
<1>2. \A t \in Threads : pc[t] \in {"callback", "rcheck", "wait", "idle"}
  BY <1>0
<1>3. /\ kSend = <<>> /\ cq = <<>> /\ Len(kSend) = 0 /\ Len(cq) = 0 /\ kRecv = 0
      /\ refs = 1 /\ destroyed = FALSE /\ sendFlag = FALSE
      /\ arr = <<>> /\ sendQ = <<>> /\ wire = <<>> /\ Len(wire) = 0
  BY EmptyType DEF Init
<1>4. RefsCountHolders
  <2>1. OpHolders = {w} /\ CallHolders = {}
    BY <1>0, <1>2 DEF OpHolders, CallHolders, Calling, SendPcs, Threads
  <2>2. Cardinality(OpHolders) = 1 /\ Cardinality(CallHolders) = 0
    BY <2>1, FS_Singleton, FS_EmptySet
  <2>3. QED
    BY <1>3, <2>2, RefsCount
<1>5. ~TokenHeld /\ \A t \in Threads : ~ThreadToken(t)
  BY <1>2, <1>3 DEF TokenHeld, ThreadToken, TokenPcs
<1>6. TokenUnique
  BY <1>3, <1>5 DEF TokenUnique
<1>7. ArrayInv
  BY <1>2, <1>3 DEF ArrayInv, KernelBuffersStay, ImplFindsPackets
<1>8. FlagInv
  BY <1>2, <1>3 DEF FlagInv
<1>9. ReceiveUnique
  <2>1. \A v \in Workers : Receiving(v) => v = w
    BY <1>0 DEF Receiving, Threads
  <2>2. QED
    BY <1>3, <2>1 DEF ReceiveUnique
<1>10. StreamInv
  <2>1. ~ArrayOut
    BY <1>2, <1>3 DEF ArrayOut
  <2>2. <<>> \o <<>> = <<>>
    BY EmptyType, ConcatEmptySeq
  <2>3. Stream = <<>>
    BY <1>3, <2>1, <2>2 DEF Stream, Out
  <2>4. \A t \in Threads : sent[t] = 0
    BY DEF Init
  <2>5. QED
    BY <1>3, <2>3, <2>4 DEF StreamInv, GapFree, AllSent
<1>11. QED
  BY <1>1, <1>4, <1>6, <1>7, <1>8, <1>9, <1>10 DEF SessionInv

LEMMA SessionStep == SessionInv /\ [Next]_vars => SessionInv'
BY TypeStep, RefsStep, TokenStep, ArrayStep, FlagStep, ReceiveStep, StreamStep DEF SessionInv

LEMMA SessionInvariant == Spec => []SessionInv
<1>1. Init => SessionInv
  BY InitSession
<1>2. SessionInv /\ [Next]_vars => SessionInv'
  BY SessionStep
<1>3. QED
  BY <1>1, <1>2, PTL DEF Spec

(* Every step of the send and receive paths, of the workers and of the     *)
(* kernel keeps the members of Session and the threads in their types; in  *)
(* particular send_packet_arr_ never holds more than MAX_SEND_MSG packets. *)
THEOREM SessionTypes == Spec => []TypeOK
<1>1. SessionInv => TypeOK
  BY TypeInvType DEF SessionInv
<1>2. QED
  BY <1>1, SessionInvariant, PTL

(* shared_ptr accounting: the use count is the number of operations under  *)
(* way, completions waiting or in hand, and User calls, so the session is  *)
(* destroyed exactly when nobody can reach it any more.                    *)
THEOREM SessionRefs == Spec => []RefsCountHolders
<1>1. SessionInv => RefsCountHolders
  BY DEF SessionInv
<1>2. QED
  BY <1>1, SessionInvariant, PTL

(* send_flag_ serialises the sends, nobody touches send_packet_arr_ while  *)
(* the kernel reads its buffers, SendAsyncImpl finds the packets SendAsync *)
(* counted, and the ring buffer is filled by one receive at a time.        *)
THEOREM SessionBuffers == Spec => []BuffersSafe
<1>1. SessionInv => BuffersSafe
  BY TokenCounted, ReceiveCounted DEF SessionInv, BuffersSafe, ArrayInv
<1>2. QED
  BY <1>1, SessionInvariant, PTL

(* No packet stays in send_q_ of a healthy session with nobody left to     *)
(* send it: the double check after send_flag_ is cleared closes the race   *)
(* between SendAsync and SendPacket.                                       *)
THEOREM SessionQueue == Spec => []NoStrandedPacket
<1>1. SessionInv => NoStrandedPacket
  BY TokenCounted DEF SessionInv, FlagInv, NoStrandedPacket
<1>2. QED
  BY <1>1, SessionInvariant, PTL

(* What reaches the peer is, for every thread, the packets it sent, in     *)
(* order and without a gap, whatever sends fail or are cancelled.          *)
THEOREM SessionStream == Spec => []StreamHasNoGaps
<1>1. SessionInv => StreamHasNoGaps
  BY DEF SessionInv, StreamInv, StreamHasNoGaps
<1>2. QED
  BY <1>1, SessionInvariant, PTL
=============================================================================
