------------------------------- MODULE Receive -------------------------------
(***************************************************************************)
(* How a session turns the bytes of a connection into packets:             *)
(* RingBuffer.h (the byte ring the kernel writes and the worker reads),    *)
(* Session::RecvAsync (which parts of the ring a receive may fill),        *)
(* IOCPManager::HandleRecvComplete (the loop that takes whole packets out) *)
(* and NetBase::OnPacketReceived.  A byte is the pair of its packet and    *)
(* its place there; the first LengthSize bytes of a packet are its length. *)
(* One receive is under way at a time (module Session), so the ring has    *)
(* one user at a time.  The network and the kernel are external.           *)
(***************************************************************************)
EXTENDS Naturals, Sequences, Functions

CONSTANTS Size,             \* BUF_SIZE; positions in the ring are 0..Size-1
          HeaderSize,       \* UNIFIED_HEADER_SIZE, also MIN_PACKET_SIZE
          LengthSize,       \* sizeof(uint32_t)
          MaxPacketSize,    \* MAX_PACKET_SIZE
          MaxLoop,          \* MAX_LOOP_COUNT
          Lengths,          \* lengths the peer puts into headers
          Ids, Handled,     \* packet ids, and those with a registered handler
          MaxPackets        \* bound: packets sent

VARIABLES sent,             \* packets serialised by the peer: [len, id]
          wire,             \* bytes sent and not yet received
          ring, front, rear,
          pc, loop,         \* the worker and loopCount
          extracted,        \* packets taken out of the ring, as bytes
          handled           \* numbers of the packets given to a handler

vars == <<sent, wire, ring, front, rear, pc, loop, extracted, handled>>

NoByte == <<0, 0>>
ReadPos == (front + 1) % Size
WritePos == (rear + 1) % Size

Init ==
    /\ sent = <<>> /\ wire = <<>>
    /\ ring = [i \in 0..(Size - 1) |-> NoByte] /\ front = 0 /\ rear = 0
    /\ pc = "posted" /\ loop = 0
    /\ extracted = <<>> /\ handled = <<>>

----------------------------------------------------------------------------
DirectEnqueueSize == IF front < WritePos THEN Size - WritePos ELSE front - WritePos
RemainEnqueueToFront == IF WritePos <= front THEN 0 ELSE front + 1
RemainEnqueueSize == IF WritePos <= front THEN 0 ELSE front
DirectDequeueSize == IF WritePos < ReadPos THEN Size - ReadPos ELSE WritePos - ReadPos
RemainDequeueSize == IF ReadPos <= WritePos THEN 0 ELSE WritePos
GetFreeSize == DirectEnqueueSize + RemainEnqueueSize
GetUseSize == DirectDequeueSize + RemainDequeueSize

(* Peek: from the read position to the end of the memory, then from its    *)
(* beginning.                                                              *)
Peek(n) ==
    [i \in 1..n |-> IF i <= DirectDequeueSize THEN ring[ReadPos + i - 1] ELSE ring[i - 1 - DirectDequeueSize]]

(* The length in the header, as the bytes stand: 0 if they are not one.    *)
LengthField(bytes) ==
    LET k == bytes[1][1] IN
    IF k \in DOMAIN sent /\ \A i \in 1..LengthSize : bytes[i] = <<k, i>> THEN sent[k].len ELSE 0

MoveFront(n) == front' = (front + n) % Size
MoveRear(n) == rear' = (rear + n) % Size

(* The first n bytes are given to the caller and leave the ring. *)
Dequeue(n) == extracted' = Append(extracted, Peek(n)) /\ MoveFront(n)

(* The ring once the two parts RecvAsync gave the kernel, from the write   *)
(* position to the end and from the beginning, hold n bytes.               *)
RecvBuffers(n) ==
    [p \in 0..(Size - 1) |->
        IF p >= WritePos /\ p - WritePos < DirectEnqueueSize /\ p - WritePos < n
        THEN wire[p - WritePos + 1]
        ELSE IF p < RemainEnqueueSize /\ DirectEnqueueSize + p < n
        THEN wire[DirectEnqueueSize + p + 1] ELSE ring[p]]

IsValidPacketSize(len) == len >= HeaderSize /\ len <= MaxPacketSize

----------------------------------------------------------------------------
(* SerializeUnifiedPacket at the peer: header and payload, in one piece.   *)
PeerSends(len, id) ==
    /\ Len(sent) < MaxPackets
    /\ sent' = Append(sent, [len |-> len, id |-> id])
    /\ wire' = wire \o [i \in 1..len |-> <<Len(sent) + 1, i>>]
    /\ UNCHANGED <<ring, front, rear, pc, loop, extracted, handled>>

(* n bytes arrive in the buffers of the receive; the completion moves rear. *)
Received(n) ==
    /\ pc = "posted" /\ n > 0 /\ n <= Len(wire) /\ n <= GetFreeSize
    /\ ring' = RecvBuffers(n)
    /\ MoveRear(n)
    /\ wire' = SubSeq(wire, n + 1, Len(wire))
    /\ pc' = "loop" /\ loop' = 0
    /\ UNCHANGED <<sent, front, extracted, handled>>

(* With no room the receive has no buffer: it completes with 0 bytes once  *)
(* something arrives, and RunWorkerThread drops the session.               *)
ReceivedNothing ==
    /\ pc = "posted" /\ GetFreeSize = 0 /\ wire # <<>>
    /\ pc' = "dropped"
    /\ UNCHANGED <<sent, wire, ring, front, rear, loop, extracted, handled>>

(* The exits of the loop: too many turns or a bad length drop the session, *)
(* a missing rest waits for the next receive.                              *)
LoopAborts ==
    /\ pc = "loop"
    /\ \/ loop + 1 > MaxLoop
       \/ GetUseSize >= HeaderSize /\ ~IsValidPacketSize(LengthField(Peek(LengthSize)))
    /\ pc' = "dropped"
    /\ UNCHANGED <<sent, wire, ring, front, rear, loop, extracted, handled>>

CompleteWithMore(len) == GetUseSize > len

Complete(len) == GetUseSize >= len

LoopEnds ==
    /\ pc = "loop" /\ loop + 1 <= MaxLoop
    /\ \/ GetUseSize < HeaderSize
       \/ LET len == LengthField(Peek(LengthSize)) IN IsValidPacketSize(len) /\ ~Complete(len)
    /\ pc' = "posted"
    /\ UNCHANGED <<sent, wire, ring, front, rear, loop, extracted, handled>>

(* RegisterPacketHandler has put the handler of the id into the map, if    *)
(* the program has one.                                                    *)
Registered(id) == id \in Handled

(* An id without a handler is skipped. *)
OnPacketReceived(k) == handled' = IF Registered(sent[k].id) THEN Append(handled, k) ELSE handled

TakePacket ==
    LET len == LengthField(Peek(LengthSize)) IN
    /\ pc = "loop" /\ loop + 1 <= MaxLoop
    /\ GetUseSize >= HeaderSize /\ IsValidPacketSize(len) /\ Complete(len)
    /\ Dequeue(len)
    /\ OnPacketReceived(Peek(len)[1][1])
    /\ loop' = loop + 1
    /\ UNCHANGED <<sent, wire, ring, rear, pc>>

Next ==
    \/ \E len \in Lengths, id \in Ids : PeerSends(len, id)
    \/ \E n \in 1..Size : Received(n)
    \/ ReceivedNothing \/ LoopAborts \/ LoopEnds \/ TakePacket

(* The network delivers what was sent and the worker runs. *)
Fairness == WF_vars(\E n \in 1..Size : Received(n)) /\ WF_vars(ReceivedNothing \/ LoopAborts \/ LoopEnds \/ TakePacket)

Spec == Init /\ [][Next]_vars /\ Fairness

----------------------------------------------------------------------------
TypeOK ==
    /\ Len(sent) <= MaxPackets /\ \A k \in DOMAIN sent : sent[k].len \in Lengths /\ sent[k].id \in Ids
    /\ front \in 0..(Size - 1) /\ rear \in 0..(Size - 1)
    /\ pc \in {"posted", "loop", "dropped"} /\ loop \in 0..MaxLoop

Packet(k) == [i \in 1..sent[k].len |-> <<k, i>>]

(* The byte after a byte of the stream, and all bytes that are still to be *)
(* taken out, with the one the peer would send next.                       *)
NextByte(b) == IF b[2] < sent[b[1]].len THEN <<b[1], b[2] + 1>> ELSE <<b[1] + 1, 1>>
Rest == Peek(GetUseSize) \o wire \o << <<Len(sent) + 1, 1>> >>

(* However the stream is cut into receives and wherever packets lie across *)
(* the end of the ring, the packets taken out are those sent, byte for     *)
(* byte and in order, and the ring followed by the wire goes on where they *)
(* end, to the last byte sent: none is overwritten before it was read,     *)
(* none is read twice.  Handlers see exactly the packets that have one, in *)
(* order, and a session is dropped only for a packet the ring cannot hold, *)
(* a length out of range, or after as many packets in one receive as the   *)
(* loop allows.                                                            *)
PacketsAsSent ==
    /\ extracted = [k \in 1..Len(extracted) |-> Packet(k)]
    /\ Rest[1] = <<Len(extracted) + 1, 1>>
    /\ \A i \in 1..(Len(Rest) - 1) : Rest[i][1] \in DOMAIN sent /\ Rest[i + 1] = NextByte(Rest[i])
    /\ Range(handled) = {k \in 1..Len(extracted) : sent[k].id \in Handled}
    /\ \A i, j \in DOMAIN handled : i < j => handled[i] < handled[j]
    /\ pc = "dropped" =>
          \/ loop = MaxLoop
          \/ Len(extracted) < Len(sent)
             /\ LET len == sent[Len(extracted) + 1].len IN len >= Size \/ ~IsValidPacketSize(len)

(* Once the peer has sent its packets, all of them have been taken out, or *)
(* the session was dropped: no packet waits in the ring for the next one.  *)
PacketsArrive == <>[](Len(extracted) = Len(sent) \/ pc = "dropped")
=============================================================================
