------------------------------- MODULE LFQueue -------------------------------
(***************************************************************************)
(* The lock-free queue every other component uses: JunCommon/container/    *)
(* LFQueue.h (job queues, thread queues, send queues).                     *)
(*                                                                         *)
(* A Michael-Scott queue with a dummy node.  head and tail are words that  *)
(* pack a node address with a stamp, so that their compare-exchanges       *)
(* notice reuse; the compare-exchange of a node's next pointer has no      *)
(* stamp.  Nodes come from an LFObjectPool and go back to it, last in,     *)
(* first out, when they are dequeued; the pool is atomic here, and runs    *)
(* Node's constructor (next = nullptr) on every allocation.  nodeCount is  *)
(* a separate counter: a Dequeue first claims an item there.               *)
(*                                                                         *)
(* Each step is one access to shared memory.  Stamps are not wrapped.      *)
(***************************************************************************)
EXTENDS Integers, Sequences, FiniteSets

CONSTANTS Producers, Consumers,
          MaxItems      \* bound: items one producer enqueues

ASSUME QueueAssumption ==
    /\ Producers \cap Consumers = {}
    /\ IsFiniteSet(Producers) /\ IsFiniteSet(Consumers)
    /\ MaxItems \in Nat

Null  == 0
Nodes == 1..(Cardinality(Producers) * MaxItems + 1)
Item  == Producers \X (1..MaxItems)
NoItem == <<>>

VARIABLES
    head, tail,   \* headStamp, tailStamp: [node, stamp]
    next, data,   \* the nodes
    count,        \* nodeCount
    pool, fresh,  \* nodePool: free nodes, and the first node never allocated
    pc,
    node,         \* producer: enqueNode
    cHead, cTail, \* copyHeadStamp, copyTailStamp
    cNext, cData, \* tailNext / headNext, dqData
    made,         \* items a producer has asked to enqueue
    got           \* history: items in the order Dequeue returned them

shared == <<head, tail, next, data, count, pool, fresh>>
locals == <<node, cHead, cTail, cNext, cData>>
vars   == <<shared, pc, locals, made, got>>

Threads == Producers \cup Consumers
Word    == [node : Nodes, stamp : Nat]

EnqueuePcs == {"alloc", "readTail", "readNext", "link", "help", "inc", "swing"}
DequeuePcs == {"claim", "unclaim", "dHead", "dTail", "dTailNext", "dHelp",
               "dNext", "dData", "take", "free"}

TypeOK ==
    /\ head \in Word /\ tail \in Word
    /\ next \in [Nodes -> Nodes \cup {Null}]
    /\ data \in [Nodes -> Item \cup {NoItem}]
    /\ count \in Int
    /\ pool \in Seq(Nodes)
    /\ fresh \in 1..(Cardinality(Nodes) + 1)
    /\ pc \in [Threads -> EnqueuePcs \cup DequeuePcs]
    /\ node \in [Producers -> Nodes \cup {Null}]
    /\ cHead \in [Threads -> Word] /\ cTail \in [Threads -> Word]
    /\ cNext \in [Threads -> Nodes \cup {Null}]
    /\ cData \in [Threads -> Item \cup {NoItem}]
    /\ made \in [Producers -> 0..MaxItems]
    /\ got \in Seq(Item)

(* The constructor: one dummy node. *)
Init ==
    /\ head = [node |-> 1, stamp |-> 0]
    /\ tail = head
    /\ next = [n \in Nodes |-> Null]
    /\ data = [n \in Nodes |-> NoItem]
    /\ count = 0
    /\ pool = <<>> /\ fresh = 2
    /\ pc = [t \in Threads |-> IF t \in Producers THEN "alloc" ELSE "claim"]
    /\ node = [p \in Producers |-> Null]
    /\ cHead = [t \in Threads |-> head] /\ cTail = [t \in Threads |-> head]
    /\ cNext = [t \in Threads |-> Null]
    /\ cData = [t \in Threads |-> NoItem]
    /\ made = [p \in Producers |-> 0]
    /\ got = <<>>

Goto(t, p) == pc' = [pc EXCEPT ![t] = p]

(* Mutant: the stamp is not counted up. *)
MovedUnstamped(word, n) == [node |-> n, stamp |-> word.stamp]

(* The word after a move to node n: stamp counted up. *)
Moved(word, n) == [node |-> n, stamp |-> word.stamp + 1]

(* InterlockedCompareExchange64 on tail. *)
CasTail(t, n) == tail' = IF tail = cTail[t] THEN Moved(tail, n) ELSE tail

-----------------------------------------------------------------------------
(* Enqueue *)

Alloc(p) ==
    LET n == IF pool # <<>> THEN Head(pool) ELSE fresh IN
    /\ pc[p] = "alloc"
    /\ made[p] < MaxItems
    /\ pool' = IF pool # <<>> THEN Tail(pool) ELSE pool
    /\ fresh' = IF pool # <<>> THEN fresh ELSE fresh + 1
    /\ next' = [next EXCEPT ![n] = Null]
    /\ data' = [data EXCEPT ![n] = <<p, made[p] + 1>>]
    /\ node' = [node EXCEPT ![p] = n]
    /\ made' = [made EXCEPT ![p] = @ + 1]
    /\ Goto(p, "readTail")
    /\ UNCHANGED <<head, tail, count, cHead, cTail, cNext, cData, got>>

ReadTail(p) ==
    /\ pc[p] = "readTail"
    /\ cTail' = [cTail EXCEPT ![p] = tail]
    /\ Goto(p, "readNext")
    /\ UNCHANGED <<shared, node, cHead, cNext, cData, made, got>>

(* Mutant: tail is moved on without a test of tailNext. *)
ReadNextUntested(p) ==
    /\ pc[p] = "readNext"
    /\ cNext' = [cNext EXCEPT ![p] = next[cTail[p].node]]
    /\ Goto(p, "help")
    /\ UNCHANGED <<shared, node, cHead, cTail, cData, made, got>>

ReadNext(p) ==
    LET n == next[cTail[p].node] IN
    /\ pc[p] = "readNext"
    /\ cNext' = [cNext EXCEPT ![p] = n]
    /\ Goto(p, IF n = Null THEN "link" ELSE "help")
    /\ UNCHANGED <<shared, node, cHead, cTail, cData, made, got>>

Help(p) ==
    /\ pc[p] = "help"
    /\ CasTail(p, cNext[p])
    /\ Goto(p, "readTail")
    /\ UNCHANGED <<head, next, data, count, pool, fresh, locals, made, got>>

(* The compare-exchange of tailClean->next: a bare pointer. *)
Link(p) ==
    LET n == cTail[p].node IN
    /\ pc[p] = "link"
    /\ \/ /\ next[n] = Null
          /\ next' = [next EXCEPT ![n] = node[p]]
          /\ Goto(p, "inc")
       \/ /\ next[n] # Null
          /\ Goto(p, "readTail")
          /\ UNCHANGED next
    /\ UNCHANGED <<head, tail, data, count, pool, fresh, locals, made, got>>

CountUp(p) ==
    /\ pc[p] = "inc"
    /\ count' = count + 1
    /\ Goto(p, "swing")
    /\ UNCHANGED <<head, tail, next, data, pool, fresh, locals, made, got>>

(* Move tail to the new node, unless somebody has; return. *)
Swing(p) ==
    /\ pc[p] = "swing"
    /\ CasTail(p, node[p])
    /\ node' = [node EXCEPT ![p] = Null]
    /\ Goto(p, "alloc")
    /\ UNCHANGED <<head, next, data, count, pool, fresh, cHead, cTail, cNext, cData,
                   made, got>>

-----------------------------------------------------------------------------
(* Dequeue, called again and again: the consumers poll. *)

Claim(c) ==
    /\ pc[c] = "claim"
    /\ count' = count - 1
    /\ Goto(c, IF count - 1 < 0 THEN "unclaim" ELSE "dHead")
    /\ UNCHANGED <<head, tail, next, data, pool, fresh, locals, made, got>>

(* Mutant: the count is not restored. *)
UnclaimForgotten(c) ==
    /\ pc[c] = "unclaim"
    /\ Goto(c, "claim")
    /\ UNCHANGED <<shared, locals, made, got>>

(* Nothing there: restore the count, return false. *)
Unclaim(c) ==
    /\ pc[c] = "unclaim"
    /\ count' = count + 1
    /\ Goto(c, "claim")
    /\ UNCHANGED <<head, tail, next, data, pool, fresh, locals, made, got>>

DReadHead(c) ==
    /\ pc[c] = "dHead"
    /\ cHead' = [cHead EXCEPT ![c] = head]
    /\ Goto(c, "dTail")
    /\ UNCHANGED <<shared, node, cTail, cNext, cData, made, got>>

DReadTail(c) ==
    /\ pc[c] = "dTail"
    /\ cTail' = [cTail EXCEPT ![c] = tail]
    /\ Goto(c, IF cHead[c] = tail THEN "dTailNext" ELSE "dNext")
    /\ UNCHANGED <<shared, node, cHead, cNext, cData, made, got>>

(* head and tail agree: the item claimed is not linked yet (start again),  *)
(* or tail lags behind and is moved first.                                 *)
DReadTailNext(c) ==
    LET n == next[cTail[c].node] IN
    /\ pc[c] = "dTailNext"
    /\ cNext' = [cNext EXCEPT ![c] = n]
    /\ Goto(c, IF n = Null THEN "dHead" ELSE "dHelp")
    /\ UNCHANGED <<shared, node, cHead, cTail, cData, made, got>>

DHelp(c) ==
    /\ pc[c] = "dHelp"
    /\ CasTail(c, cNext[c])
    /\ Goto(c, "dNext")
    /\ UNCHANGED <<head, next, data, count, pool, fresh, locals, made, got>>

DReadNext(c) ==
    LET n == next[cHead[c].node] IN
    /\ pc[c] = "dNext"
    /\ cNext' = [cNext EXCEPT ![c] = n]
    /\ Goto(c, IF n = Null THEN "dHead" ELSE "dData")
    /\ UNCHANGED <<shared, node, cHead, cTail, cData, made, got>>

DReadData(c) ==
    /\ pc[c] = "dData"
    /\ cData' = [cData EXCEPT ![c] = data[cNext[c]]]
    /\ Goto(c, "take")
    /\ UNCHANGED <<shared, node, cHead, cTail, cNext, made, got>>

(* Mutant: head is stored, not compared. *)
TakeByStore(c) ==
    /\ pc[c] = "take"
    /\ head' = Moved(head, cNext[c])
    /\ got' = Append(got, cData[c])
    /\ Goto(c, "free")
    /\ UNCHANGED <<tail, next, data, count, pool, fresh, locals, made>>

(* The compare-exchange of head: the winner has the item. *)
Take(c) ==
    /\ pc[c] = "take"
    /\ \/ /\ head = cHead[c]
          /\ head' = Moved(head, cNext[c])
          /\ got' = Append(got, cData[c])
          /\ Goto(c, "free")
       \/ /\ head # cHead[c]
          /\ Goto(c, "dHead")
          /\ UNCHANGED <<head, got>>
    /\ UNCHANGED <<tail, next, data, count, pool, fresh, locals, made>>

(* nodePool.Free(headClean), return true. *)
Free(c) ==
    /\ pc[c] = "free"
    /\ pool' = <<cHead[c].node>> \o pool
    /\ Goto(c, "claim")
    /\ UNCHANGED <<head, tail, next, data, count, fresh, locals, made, got>>

-----------------------------------------------------------------------------
EnqueueStep(p) ==
    \/ ReadTail(p) \/ ReadNext(p) \/ Help(p) \/ Link(p) \/ CountUp(p) \/ Swing(p)

DequeueStep(c) ==
    \/ Claim(c) \/ Unclaim(c) \/ DReadHead(c) \/ DReadTail(c) \/ DReadTailNext(c)
    \/ DHelp(c) \/ DReadNext(c) \/ DReadData(c) \/ Take(c) \/ Free(c)

Next ==
    \/ \E p \in Producers : Alloc(p) \/ EnqueueStep(p)
    \/ \E c \in Consumers : DequeueStep(c)

Spec == Init /\ [][Next]_vars

-----------------------------------------------------------------------------
(* The nodes of the queue from the dummy on: where a walk along next, as   *)
(* long as there are nodes, comes by.                                      *)
Walk ==
    LET walk[i \in 0..Cardinality(Nodes)] ==
            IF i = 0 THEN head.node
            ELSE IF walk[i - 1] = Null THEN Null ELSE next[walk[i - 1]]
    IN  walk

Listed == LET w == Walk IN {w[i] : i \in DOMAIN w} \ {Null}

Elems(s) == {s[i] : i \in DOMAIN s}

(* The queue stays one finite chain: the walk ends, so there is no cycle,  *)
(* it comes by tail, and no node of it is in the pool or about to be       *)
(* allocated again, although stale copies of head, tail and next are in    *)
(* use.                                                                    *)
ChainIntact ==
    /\ Walk[Cardinality(Nodes)] = Null
    /\ tail.node \in Listed
    /\ Listed \cap Elems(pool) = {}
    /\ \A n \in Listed : n < fresh

(* No item is returned twice, or made up, whatever node it travelled in.   *)
EachItemOnce ==
    /\ Cardinality(Elems(got)) = Len(got)
    /\ \A i \in DOMAIN got : got[i] \in Item /\ got[i][2] <= made[got[i][1]]

(* The counter never promises, at rest, more or fewer items than there     *)
(* are: with nobody inside a call it is the number of nodes behind the     *)
(* dummy, and every item asked for is in one of them or was returned.      *)
AtRest == \A t \in Threads : pc[t] \in {"alloc", "claim"}

CountAtRest ==
    AtRest => /\ count = Cardinality(Listed) - 1
              /\ \A p \in Producers : \A k \in 1..made[p] :
                    \/ <<p, k>> \in Elems(got)
                    \/ \E n \in Listed \ {head.node} : data[n] = <<p, k>>

(* What one producer enqueues is dequeued in the order it was enqueued.    *)
PerProducerOrder ==
    \A p \in Producers :
       LET mine == SelectSeq(got, LAMBDA e : e[1] = p)
       IN  mine = [i \in 1..Len(mine) |-> <<p, i>>]
=============================================================================
