---------------------------- MODULE LFQueueProofs ----------------------------
(***************************************************************************)
(* LFQueue, for any producers, consumers and number of items: the queue    *)
(* stays one chain, no item is lost or returned twice, and the counter is  *)
(* exact at rest.                                                          *)
(*                                                                         *)
(* The difficulty is the compare-exchange of a next pointer, which has no  *)
(* stamp.  A producer that holds an old copy of tail may link its node to  *)
(* a node that was freed and allocated again, whose owner has not linked   *)
(* it yet.  So a node that waits to be linked may already have others      *)
(* behind it, and memory holds a forest: the queue, and a chain behind     *)
(* each waiting node.  The invariant describes the forest by a set S of    *)
(* nodes, the chain own[n] each is in (Null for the queue itself, else the *)
(* waiting node it hangs on) and its position pos[n]; in the queue the     *)
(* position is the stamp that head and tail have when they come by.        *)
(***************************************************************************)
EXTENDS LFQueue, FiniteSetTheorems, WellFoundedInduction, TLAPS

PendingPcs   == {"readTail", "readNext", "help", "link"}
UncountedPcs == {"readTail", "readNext", "help", "link", "inc"}
ClaimingPcs  == {"unclaim", "dHead", "dTail", "dTailNext", "dHelp", "dNext", "dData", "take"}

Pending   == {p \in Producers : pc[p] \in PendingPcs}      \* node not linked yet
Uncounted == {p \in Producers : pc[p] \in UncountedPcs}    \* nor counted
Claiming  == {c \in Consumers : pc[c] \in ClaimingPcs}     \* counted down, nothing taken
Freeing   == {c \in Consumers : pc[c] = "free"}

Asked == {e \in Item : e[2] <= made[e[1]]}

-----------------------------------------------------------------------------
(* Chains: each goes on by one position, and ends in its last node.        *)
Forest(S, own, pos) ==
    /\ S \subseteq Nodes
    /\ own \in [Nodes -> Nodes \cup {Null}] /\ pos \in [Nodes -> Nat]
    /\ \A n \in S : next[n] # Null =>
          next[n] \in S /\ own[next[n]] = own[n] /\ pos[next[n]] = pos[n] + 1
    /\ \A n, m \in S : own[n] = own[m] /\ pos[n] = pos[m] => n = m
    /\ \A n, m \in S : own[n] = own[m] /\ next[n] = Null => pos[m] <= pos[n]

(* A node whose next is Null is in some chain, however old the copy of the *)
(* address: nodes in the pool still point to what followed them.           *)
Ends(S) ==
    /\ \A n \in S : n < fresh
    /\ \A n \in Nodes : n < fresh /\ next[n] = Null => n \in S

(* head and tail.                                                          *)
Words(S, own, pos) ==
    /\ head.node \in S /\ own[head.node] = Null /\ pos[head.node] = head.stamp
    /\ tail.node \in S /\ own[tail.node] = Null /\ pos[tail.node] = tail.stamp
    /\ \A n \in S : own[n] = Null => head.stamp <= pos[n]

(* The other chains, and how each begins.                                  *)
Roots(S, own, pos) ==
    /\ \A p \in Pending : node[p] \in S /\ own[node[p]] = node[p] /\ pos[node[p]] = 0
    /\ \A p, q \in Pending : node[p] = node[q] => p = q
    /\ \A n \in S : own[n] # Null => \E p \in Pending : own[n] = node[p]
    /\ \A n \in S : \/ n = head.node
                    \/ \E m \in S : next[m] = n
                    \/ \E p \in Pending : n = node[p]

(* Nodes in the pool or on the way to it are in no chain.                  *)
Outside(S) ==
    /\ \A i \in DOMAIN pool : pool[i] < fresh /\ pool[i] \notin S
    /\ \A i, j \in DOMAIN pool : pool[i] = pool[j] => i = j
    /\ \A c \in Freeing : /\ cHead[c].node \notin S
                          /\ \A i \in DOMAIN pool : cHead[c].node # pool[i]
    /\ \A c, d \in Freeing : cHead[c].node = cHead[d].node => c = d

(* A producer that could link to a node behind node[q] has an older copy   *)
(* of tail than q: chains never close to a cycle.                          *)
LinkBefore(q) == IF pc[q] = "readTail" THEN tail.stamp ELSE cTail[q].stamp

Order(S, own) ==
    \A q \in Pending, r \in Producers :
       cTail[r].node \in S /\ own[cTail[r].node] = node[q] => cTail[r].stamp < LinkBefore(q)

(* The items not yet returned are in the nodes behind the dummy, one each. *)
Items(S) ==
    /\ \A n \in S \ {head.node} : data[n] \in Asked /\ \A i \in DOMAIN got : got[i] # data[n]
    /\ \A n, m \in S \ {head.node} : data[n] = data[m] => n = m
    /\ \A e \in Asked : \/ \E i \in DOMAIN got : got[i] = e
                        \/ \E n \in S \ {head.node} : data[n] = e
    /\ \A i, j \in DOMAIN got : got[i] = got[j] => i = j
    /\ \A i \in DOMAIN got : got[i] \in Asked

(* nodeCount lags behind.                                                  *)
Counts(S) ==
    count = Cardinality(S \ {head.node}) - Cardinality(Uncounted) - Cardinality(Claiming)

Shape(S, own, pos) ==
    /\ Forest(S, own, pos) /\ Ends(S) /\ Words(S, own, pos) /\ Roots(S, own, pos)
    /\ Outside(S) /\ Order(S, own) /\ Items(S) /\ Counts(S)

-----------------------------------------------------------------------------
(* The program points of each kind of thread.                              *)
Roles ==
    /\ \A p \in Producers : pc[p] \in EnqueuePcs
    /\ \A c \in Consumers : pc[c] \in DequeuePcs

(* The pool never runs out of nodes.                                       *)
Bound == fresh <= 2 + Cardinality(Asked)

(* A copy of head or tail is older, or it is what head or tail is now.     *)
Stale ==
    \A t \in Threads :
       /\ cHead[t].node < fresh /\ cHead[t].stamp <= head.stamp
       /\ cHead[t].stamp = head.stamp => cHead[t] = head
       /\ cTail[t].node < fresh /\ cTail[t].stamp <= tail.stamp
       /\ cTail[t].stamp = tail.stamp => cTail[t] = tail

(* What t has read is still true if the word it belongs to has not moved.  *)
ReadsOf(t) ==
    /\ pc[t] \in {"help", "dHelp"} =>
          cNext[t] # Null /\ (cTail[t] = tail => next[tail.node] = cNext[t])
    /\ t \in Producers /\ pc[t] \in {"inc", "swing"} =>
          node[t] # Null /\ (cTail[t] = tail => next[tail.node] = node[t])
    /\ pc[t] \in {"dTailNext", "dHelp"} => cTail[t] = cHead[t]
    /\ pc[t] \in {"dNext", "dData", "take"} => cHead[t].stamp < tail.stamp
    /\ pc[t] \in {"dData", "take"} =>
          cNext[t] # Null /\ (cHead[t] = head => next[head.node] = cNext[t])
    /\ pc[t] = "take" /\ cHead[t] = head => cData[t] = data[cNext[t]]

Reads == \A t \in Threads : ReadsOf(t)

QueueInv ==
    /\ TypeOK /\ Roles /\ Bound /\ Stale /\ Reads
    /\ \E S, own, pos : Shape(S, own, pos)

-----------------------------------------------------------------------------
(***************************************************************************)
(* Constants, sets of threads.                                             *)
(***************************************************************************)

(* A set of naturals has a least element.                                  *)
LEMMA LeastNatural ==
    ASSUME NEW D, D \subseteq Nat, D # {}
    PROVE  \E n \in D : \A m \in D : n <= m
<1>1. PICK R : R = OpToRel(<, Nat)
    OBVIOUS
<1>2. IsWellFoundedOn(R, Nat)
    BY <1>1, NatLessThanWellFounded
<1>3. PICK x \in D : \A y \in D : ~(<<y, x>> \in R)
    BY <1>2, WFMin
<1>4. \A y \in D : (<<y, x>> \in R) <=> y < x
    BY <1>1 DEF OpToRel
<1>5. \A y \in D : ~(y < x)
    BY <1>3, <1>4
<1>6. \A y \in D : x <= y
    BY <1>5
<1>7. QED  BY <1>6

(* The nodes are 1 .. N + 1 for the number N of items.                     *)
LEMMA NodesFacts ==
    \E N \in Nat :
       /\ Cardinality(Producers) * MaxItems = N
       /\ IsFiniteSet(Item) /\ Cardinality(Item) = N
       /\ Nodes = 1..(N + 1) /\ IsFiniteSet(Nodes) /\ Cardinality(Nodes) = N + 1
       /\ Null \notin Nodes /\ 1 \in Nodes /\ Null \in Nat /\ Nodes \subseteq Nat
<1>1. PICK P \in Nat : P = Cardinality(Producers)
    BY QueueAssumption, FS_CardinalityType
<1>2. MaxItems \in Nat
    BY QueueAssumption
<1>3. IsFiniteSet(1..MaxItems) /\ Cardinality(1..MaxItems) = MaxItems
  <2>1. Cardinality(1..MaxItems) = IF 1 > MaxItems THEN 0 ELSE MaxItems - 1 + 1
      BY <1>2, FS_Interval
  <2>2. QED  BY <1>2, <2>1, FS_Interval
<1>4. IsFiniteSet(Item) /\ Cardinality(Item) = P * MaxItems
    BY <1>1, <1>3, FS_Product, QueueAssumption DEF Item
<1>5. PICK N \in Nat : N = P * MaxItems
    BY <1>1, <1>2
<1>6. Nodes = 1..(N + 1)
    BY <1>1, <1>5 DEF Nodes
<1>7. IsFiniteSet(1..(N + 1)) /\ Cardinality(1..(N + 1)) = N + 1
  <2>1. Cardinality(1..(N + 1)) = IF 1 > N + 1 THEN 0 ELSE N + 1 - 1 + 1
      BY FS_Interval
  <2>2. QED  BY <2>1, FS_Interval
<1>8. QED  BY <1>1, <1>4, <1>5, <1>6, <1>7 DEF Null

LEMMA NodesNat == Nodes \subseteq Nat /\ Null \notin Nodes /\ Null \in Nat
BY NodesFacts

(* A thread goes on to x: the others stay.                                 *)
LEMMA OthersStay ==
    ASSUME TypeOK, NEW t \in Threads, NEW x, Goto(t, x)
    PROVE  pc'[t] = x /\ \A u \in Threads : u # t => pc'[u] = pc[u]
BY DEF Goto, TypeOK

(* The sets of threads, when a producer goes on.                           *)
LEMMA ProducerSets ==
    ASSUME TypeOK, NEW p \in Producers, NEW x, Goto(p, x)
    PROVE  /\ Pending' = IF x \in PendingPcs THEN Pending \cup {p} ELSE Pending \ {p}
           /\ Uncounted' = IF x \in UncountedPcs THEN Uncounted \cup {p} ELSE Uncounted \ {p}
           /\ Claiming' = Claiming /\ Freeing' = Freeing
<1>1. p \in Threads /\ p \notin Consumers
    BY QueueAssumption DEF Threads
<1>2. pc'[p] = x /\ \A u \in Threads : u # p => pc'[u] = pc[u]
    BY <1>1, OthersStay
<1>3. Pending' = IF x \in PendingPcs THEN Pending \cup {p} ELSE Pending \ {p}
    BY <1>2 DEF Pending, Threads
<1>4. Uncounted' = IF x \in UncountedPcs THEN Uncounted \cup {p} ELSE Uncounted \ {p}
    BY <1>2 DEF Uncounted, Threads
<1>5. Claiming' = Claiming /\ Freeing' = Freeing
    BY <1>1, <1>2 DEF Claiming, Freeing, Threads
<1>6. QED  BY <1>3, <1>4, <1>5

(* The same for a consumer.                                                *)
LEMMA ConsumerSets ==
    ASSUME TypeOK, NEW c \in Consumers, NEW x, Goto(c, x)
    PROVE  /\ Claiming' = IF x \in ClaimingPcs THEN Claiming \cup {c} ELSE Claiming \ {c}
           /\ Freeing' = IF x = "free" THEN Freeing \cup {c} ELSE Freeing \ {c}
           /\ Pending' = Pending /\ Uncounted' = Uncounted
<1>1. c \in Threads /\ c \notin Producers
    BY QueueAssumption DEF Threads
<1>2. pc'[c] = x /\ \A u \in Threads : u # c => pc'[u] = pc[u]
    BY <1>1, OthersStay
<1>3. Claiming' = IF x \in ClaimingPcs THEN Claiming \cup {c} ELSE Claiming \ {c}
    BY <1>2 DEF Claiming, Threads
<1>4. Freeing' = IF x = "free" THEN Freeing \cup {c} ELSE Freeing \ {c}
    BY <1>2 DEF Freeing, Threads
<1>5. Pending' = Pending /\ Uncounted' = Uncounted
    BY <1>1, <1>2 DEF Pending, Uncounted, Threads
<1>6. QED  BY <1>3, <1>4, <1>5

(* Those sets are finite.                                                  *)
LEMMA SetsFinite ==
    /\ IsFiniteSet(Uncounted) /\ IsFiniteSet(Claiming)
    /\ Cardinality(Uncounted) \in Nat /\ Cardinality(Claiming) \in Nat
<1>1. Uncounted \in SUBSET Producers /\ Claiming \in SUBSET Consumers
    BY DEF Uncounted, Claiming
<1>2. IsFiniteSet(Uncounted) /\ IsFiniteSet(Claiming)
    BY <1>1, FS_Subset, QueueAssumption
<1>3. QED  BY <1>2, FS_CardinalityType

-----------------------------------------------------------------------------
(***************************************************************************)
(* What a step that leaves most of the state alone preserves.              *)
(***************************************************************************)

(* A step may move tail or head one node on, and writes no next pointer    *)
(* of a chain but the last.                                                *)
Forward(S) ==
    /\ tail' = tail \/ tail'.stamp = tail.stamp + 1
    /\ head' = head \/ head'.stamp = head.stamp + 1
    /\ fresh <= fresh'
    /\ \A n \in S : next[n] # Null => next'[n] = next[n]
    /\ \A n \in S : data'[n] = data[n]

(* Words are equal if both parts are.                                      *)
LEMMA WordsEqual ==
    ASSUME NEW u \in Word, NEW v \in Word, u.node = v.node, u.stamp = v.stamp
    PROVE  u = v
BY DEF Word

(* Stale copies stay stale.                                                *)
LEMMA StaleStep ==
    ASSUME TypeOK, TypeOK', Stale, NEW S, Forward(S), head.node < fresh, tail.node < fresh,
           \A t \in Threads : cHead'[t] = cHead[t] \/ (cHead'[t] = head /\ head' = head),
           \A t \in Threads : cTail'[t] = cTail[t] \/ (cTail'[t] = tail /\ tail' = tail)
    PROVE  Stale'
<1>1. SUFFICES ASSUME NEW t \in Threads
      PROVE  /\ cHead'[t].node < fresh' /\ cHead'[t].stamp <= head'.stamp
             /\ cHead'[t].stamp = head'.stamp => cHead'[t] = head'
             /\ cTail'[t].node < fresh' /\ cTail'[t].stamp <= tail'.stamp
             /\ cTail'[t].stamp = tail'.stamp => cTail'[t] = tail'
    BY DEF Stale
<1>2. /\ cHead[t].stamp \in Nat /\ cTail[t].stamp \in Nat /\ cHead[t].node \in Nat
      /\ cTail[t].node \in Nat /\ head.stamp \in Nat /\ tail.stamp \in Nat
      /\ head.node \in Nat /\ tail.node \in Nat
    BY NodesNat DEF TypeOK, Word
<1>3. fresh \in Nat /\ fresh' \in Nat
    BY DEF TypeOK
<1>4. /\ cHead[t].node < fresh /\ cHead[t].stamp <= head.stamp
      /\ cHead[t].stamp = head.stamp => cHead[t] = head
      /\ cTail[t].node < fresh /\ cTail[t].stamp <= tail.stamp
      /\ cTail[t].stamp = tail.stamp => cTail[t] = tail
    BY DEF Stale
<1>5. /\ cHead'[t].node < fresh' /\ cHead'[t].stamp <= head'.stamp
      /\ cHead'[t].stamp = head'.stamp => cHead'[t] = head'
    BY <1>2, <1>3, <1>4 DEF Forward
<1>6. /\ cTail'[t].node < fresh' /\ cTail'[t].stamp <= tail'.stamp
      /\ cTail'[t].stamp = tail'.stamp => cTail'[t] = tail'
    BY <1>2, <1>3, <1>4 DEF Forward
<1>7. QED  BY <1>5, <1>6

(* What a thread has read stays true while others run.                     *)
LEMMA ReadsStay ==
    ASSUME TypeOK, Stale, NEW S, NEW own, NEW pos, Forest(S, own, pos), Words(S, own, pos),
           Forward(S), NEW t \in Threads, ReadsOf(t), pc'[t] = pc[t], cHead'[t] = cHead[t],
           cTail'[t] = cTail[t], cNext'[t] = cNext[t], cData'[t] = cData[t],
           t \in Producers => node'[t] = node[t]
    PROVE  ReadsOf(t)'
<1>1. /\ cHead[t].stamp \in Nat /\ cTail[t].stamp \in Nat
      /\ head.stamp \in Nat /\ tail.stamp \in Nat
    BY DEF TypeOK, Word
<1>2. /\ cHead[t].stamp <= head.stamp /\ cTail[t].stamp <= tail.stamp
    BY DEF Stale
<1>3. cTail[t] = tail' => tail' = tail /\ cTail[t] = tail
    BY <1>1, <1>2 DEF Forward
<1>4. cHead[t] = head' => head' = head /\ cHead[t] = head
    BY <1>1, <1>2 DEF Forward
<1>5. /\ next[tail.node] # Null => next'[tail.node] = next[tail.node]
      /\ next[head.node] # Null => next'[head.node] = next[head.node] /\ next[head.node] \in S
    BY DEF Forward, Words, Forest
<1>6. /\ pc'[t] \in {"help", "dHelp"} =>
            cNext'[t] # Null /\ (cTail'[t] = tail' => next'[tail'.node] = cNext'[t])
      /\ t \in Producers /\ pc'[t] \in {"inc", "swing"} =>
            node'[t] # Null /\ (cTail'[t] = tail' => next'[tail'.node] = node'[t])
    BY <1>3, <1>5 DEF ReadsOf
<1>7. /\ pc'[t] \in {"dTailNext", "dHelp"} => cTail'[t] = cHead'[t]
      /\ pc'[t] \in {"dNext", "dData", "take"} => cHead'[t].stamp < tail'.stamp
    BY <1>1 DEF ReadsOf, Forward
<1>8. /\ pc'[t] \in {"dData", "take"} =>
            cNext'[t] # Null /\ (cHead'[t] = head' => next'[head'.node] = cNext'[t])
      /\ pc'[t] = "take" /\ cHead'[t] = head' => cData'[t] = data'[cNext'[t]]
    BY <1>4, <1>5 DEF ReadsOf, Forward
<1>9. QED  BY <1>6, <1>7, <1>8 DEF ReadsOf

(* All of them, if the thread that moves takes care of itself.             *)
LEMMA ReadsStep ==
    ASSUME TypeOK, Stale, Reads, NEW S, NEW own, NEW pos, Forest(S, own, pos), Words(S, own, pos),
           Forward(S), NEW t \in Threads, ReadsOf(t)',
           \A u \in Threads : u # t =>
              /\ pc'[u] = pc[u] /\ cHead'[u] = cHead[u] /\ cTail'[u] = cTail[u]
              /\ cNext'[u] = cNext[u] /\ cData'[u] = cData[u]
              /\ u \in Producers => node'[u] = node[u]
    PROVE  Reads'
<1>1. ASSUME NEW u \in Threads, u # t PROVE ReadsOf(u)'
    BY <1>1, ReadsStay DEF Reads
<1>2. QED  BY <1>1 DEF Reads

(* The order of the copies of tail.                                        *)
LEMMA OrderStep ==
    ASSUME TypeOK, TypeOK', NEW S, NEW own, NEW pos, Forest(S, own, pos), Order(S, own), NEW T, T \subseteq S,
           \A q \in Pending' : /\ q \in Pending /\ node'[q] = node[q] /\ node[q] # Null
                               /\ LinkBefore(q) <= LinkBefore(q)',
           \A r \in Producers : cTail'[r] = cTail[r] \/ own[cTail'[r].node] = Null
    PROVE  Order(T, own)'
<1>1. SUFFICES ASSUME NEW q \in Pending', NEW r \in Producers, cTail'[r].node \in T,
                      own[cTail'[r].node] = node'[q]
               PROVE  cTail'[r].stamp < LinkBefore(q)'
    BY DEF Order
<1>2. q \in Pending /\ node'[q] = node[q] /\ node[q] # Null /\ cTail'[r] = cTail[r]
    BY <1>1
<1>3. cTail[r].stamp < LinkBefore(q)
    BY <1>1, <1>2 DEF Order
<1>4. q \in Threads /\ r \in Threads
    BY <1>2 DEF Pending, Threads
<1>5. LinkBefore(q) \in Nat /\ LinkBefore(q)' \in Nat /\ cTail[r].stamp \in Nat
    BY <1>4 DEF TypeOK, LinkBefore, Word
<1>6. QED  BY <1>2, <1>3, <1>5

(* The program points keep to their kind of thread.                        *)
LEMMA RolesStep ==
    ASSUME TypeOK, Roles, NEW t \in Threads, NEW x, Goto(t, x),
           t \in Producers => x \in EnqueuePcs, t \in Consumers => x \in DequeuePcs
    PROVE  Roles'
BY OthersStay DEF Roles, Threads

(* A step that changes none of the words and nodes.                        *)
Quiet == UNCHANGED <<head, tail, next, data, pool, fresh, node, made, got>>

LEMMA QuietStep ==
    ASSUME TypeOK, Bound, Stale, Reads, NEW S, NEW own, NEW pos, Shape(S, own, pos),
           TypeOK', Roles', Quiet, NEW t \in Threads, t \notin Freeing,
           Pending' = Pending, Freeing' = Freeing,
           cHead'[t] = cHead[t] \/ cHead'[t] = head, cTail'[t] = cTail[t] \/ cTail'[t] = tail,
           \A u \in Threads : u # t =>
              /\ pc'[u] = pc[u] /\ cHead'[u] = cHead[u] /\ cTail'[u] = cTail[u]
              /\ cNext'[u] = cNext[u] /\ cData'[u] = cData[u],
           t \in Pending => LinkBefore(t) <= LinkBefore(t)',
           ReadsOf(t)', Counts(S)'
    PROVE  QueueInv'
<1>1. /\ Forest(S, own, pos) /\ Ends(S) /\ Words(S, own, pos) /\ Roots(S, own, pos)
      /\ Outside(S) /\ Order(S, own) /\ Items(S)
    BY DEF Shape
<1>2. Asked' = Asked
    BY DEF Asked, Quiet
<1>3. Forest(S, own, pos)' /\ Ends(S)' /\ Words(S, own, pos)'
  <2>1. Forest(S, own, pos)'  BY <1>1 DEF Forest, Quiet
  <2>2. Ends(S)'  BY <1>1 DEF Ends, Quiet
  <2>3. Words(S, own, pos)'  BY <1>1 DEF Words, Quiet
  <2>4. QED  BY <2>1, <2>2, <2>3
<1>4. Roots(S, own, pos)'
    BY <1>1 DEF Roots, Quiet
<1>5. Outside(S)'
  <2>1. \A c \in Freeing : c \in Threads /\ cHead'[c] = cHead[c]
      BY DEF Freeing, Threads
  <2>2. QED  BY <1>1, <2>1 DEF Outside, Quiet
<1>6. Items(S)'
    BY <1>1, <1>2 DEF Items, Quiet
<1>7. Bound'
    BY <1>2 DEF Bound, Quiet
<1>8. Forward(S)
  <2>1. fresh \in Nat  BY DEF TypeOK
  <2>2. QED  BY <2>1 DEF Forward, Quiet
<1>9. Stale'
  <2>1. head.node < fresh /\ tail.node < fresh
      BY <1>1 DEF Words, Ends
  <2>2. QED  BY <1>8, <2>1, StaleStep DEF Quiet
<1>10. Reads'
    BY <1>1, <1>8, ReadsStep DEF Quiet
<1>11. Order(S, own)'
  <2>1. ASSUME NEW q \in Pending' 
        PROVE  q \in Pending /\ node'[q] = node[q] /\ node[q] # Null /\ LinkBefore(q) <= LinkBefore(q)'
    <3>1. q \in Pending /\ node'[q] = node[q] /\ q \in Threads
        BY <2>1 DEF Quiet, Pending, Threads
    <3>2. node[q] # Null
        BY <1>1, <3>1, NodesNat DEF Roots, Forest
    <3>3. LinkBefore(q) \in Nat
        BY <3>1 DEF TypeOK, LinkBefore, Word
    <3>4. q # t => LinkBefore(q)' = LinkBefore(q)
        BY <3>1 DEF LinkBefore, Quiet
    <3>5. QED  BY <3>1, <3>2, <3>3, <3>4
  <2>2. \A r \in Producers : r \in Threads
      BY DEF Threads
  <2>3. \A r \in Producers : cTail'[r] = cTail[r] \/ own[cTail'[r].node] = Null
      BY <1>1, <2>2 DEF Words
  <2>4. QED  BY <1>1, <2>1, <2>3, OrderStep
<1>12. Shape(S, own, pos)'
    BY <1>3, <1>4, <1>5, <1>6, <1>11 DEF Shape
<1>13. QED  BY <1>7, <1>9, <1>10, <1>12 DEF QueueInv

-----------------------------------------------------------------------------
(***************************************************************************)
(* Enqueue.                                                                *)
(***************************************************************************)

LEMMA ReadTailStep ==
    ASSUME QueueInv, NEW p \in Producers, ReadTail(p)
    PROVE  QueueInv'
<1>1. PICK S, own, pos : Shape(S, own, pos)
    BY DEF QueueInv
<1>2. TypeOK /\ Roles /\ Bound /\ Stale /\ Reads /\ p \in Threads /\ Quiet /\ p \notin Consumers
    BY QueueAssumption DEF QueueInv, ReadTail, Quiet, shared, Threads
<1>3. Goto(p, "readNext") /\ pc[p] = "readTail"
    BY DEF ReadTail
<1>4. pc'[p] = "readNext" /\ \A u \in Threads : u # p => pc'[u] = pc[u]
    BY <1>2, <1>3, OthersStay
<1>5. TypeOK' /\ Roles'
  <2>1. TypeOK'  BY <1>2 DEF TypeOK, ReadTail, Goto, shared, EnqueuePcs
  <2>2. Roles'  BY <1>2, <1>3, RolesStep DEF EnqueuePcs
  <2>3. QED  BY <2>1, <2>2
<1>6. Pending' = Pending /\ Uncounted' = Uncounted /\ Claiming' = Claiming /\ Freeing' = Freeing
    BY <1>2, <1>3, ProducerSets DEF Pending, Uncounted, PendingPcs, UncountedPcs
<1>7. cTail'[p] = tail /\ \A u \in Threads : u # p => cTail'[u] = cTail[u]
    BY <1>2 DEF ReadTail, TypeOK
<1>8. LinkBefore(p) <= LinkBefore(p)'
  <2>1. tail.stamp \in Nat  BY <1>2 DEF TypeOK, Word
  <2>2. QED  BY <1>3, <1>4, <1>7, <2>1 DEF LinkBefore
<1>9. ReadsOf(p)'
    BY <1>4 DEF ReadsOf
<1>10. Counts(S)'
    BY <1>1, <1>2, <1>6 DEF Shape, Counts, Quiet, ReadTail, shared
<1>11. cHead' = cHead /\ cNext' = cNext /\ cData' = cData /\ p \notin Freeing
    BY <1>2 DEF ReadTail, Freeing
<1>12. QED
    BY <1>1, <1>2, <1>4, <1>5, <1>6, <1>7, <1>8, <1>9, <1>10, <1>11, QuietStep

LEMMA ReadNextStep ==
    ASSUME QueueInv, NEW p \in Producers, ReadNext(p)
    PROVE  QueueInv'
<1>1. PICK S, own, pos : Shape(S, own, pos)
    BY DEF QueueInv
<1>2. TypeOK /\ Roles /\ Bound /\ Stale /\ Reads /\ p \in Threads /\ Quiet /\ p \notin Consumers
    BY QueueAssumption DEF QueueInv, ReadNext, Quiet, shared, Threads
<1>3. PICK n : n = next[cTail[p].node]
    OBVIOUS
<1>4. PICK x : x = IF n = Null THEN "link" ELSE "help"
    OBVIOUS
<1>5. Goto(p, x) /\ pc[p] = "readNext" /\ cNext' = [cNext EXCEPT ![p] = n]
    BY <1>3, <1>4 DEF ReadNext
<1>6. pc'[p] = x /\ \A u \in Threads : u # p => pc'[u] = pc[u]
    BY <1>2, <1>5, OthersStay
<1>7. n \in Nodes \cup {Null}
    BY <1>2, <1>3 DEF TypeOK, Word
<1>8. TypeOK' /\ Roles'
  <2>1. x \in EnqueuePcs
      BY <1>4 DEF EnqueuePcs
  <2>2. TypeOK'  BY <1>2, <1>5, <1>7, <2>1 DEF TypeOK, ReadNext, Goto, shared
  <2>3. Roles'  BY <1>2, <1>5, <2>1, RolesStep
  <2>4. QED  BY <2>2, <2>3
<1>9. Pending' = Pending /\ Uncounted' = Uncounted /\ Claiming' = Claiming /\ Freeing' = Freeing
    BY <1>2, <1>4, <1>5, ProducerSets DEF Pending, Uncounted, PendingPcs, UncountedPcs
<1>10. /\ cHead' = cHead /\ cTail' = cTail /\ cData' = cData /\ p \notin Freeing
       /\ cNext'[p] = n /\ \A u \in Threads : u # p => cNext'[u] = cNext[u]
    BY <1>2, <1>5 DEF ReadNext, Freeing, TypeOK
<1>11. LinkBefore(p) <= LinkBefore(p)'
  <2>1. cTail[p].stamp \in Nat  BY <1>2 DEF TypeOK, Word
  <2>2. x # "readTail"  BY <1>4
  <2>3. QED  BY <1>5, <1>6, <1>10, <2>1, <2>2 DEF LinkBefore
<1>12. ReadsOf(p)'
  <2>1. tail' = tail /\ next' = next
      BY <1>2 DEF Quiet
  <2>2. x = "help" => n # Null
      BY <1>4
  <2>3. x \in {"link", "help"}
      BY <1>4
  <2>4. QED  BY <1>3, <1>6, <1>10, <2>1, <2>2, <2>3 DEF ReadsOf
<1>13. Counts(S)'
    BY <1>1, <1>2, <1>9 DEF Shape, Counts, Quiet, ReadNext, shared
<1>14. QED
    BY <1>1, <1>2, <1>6, <1>8, <1>9, <1>10, <1>11, <1>12, <1>13, QuietStep

(* The compare-exchange of next fails: try again from the tail.            *)
LEMMA LinkFails ==
    ASSUME QueueInv, NEW p \in Producers, pc[p] = "link", Goto(p, "readTail"), UNCHANGED <<shared, locals, made, got>>
    PROVE  QueueInv'
<1>1. PICK S, own, pos : Shape(S, own, pos)
    BY DEF QueueInv
<1>2. TypeOK /\ Roles /\ Bound /\ Stale /\ Reads /\ p \in Threads /\ Quiet /\ p \notin Consumers
    BY QueueAssumption DEF QueueInv, Quiet, shared, locals, Threads
<1>3. pc'[p] = "readTail" /\ \A u \in Threads : u # p => pc'[u] = pc[u]
    BY <1>2, OthersStay
<1>4. TypeOK' /\ Roles'
  <2>1. TypeOK'  BY <1>2 DEF TypeOK, Goto, shared, locals, EnqueuePcs
  <2>2. Roles'  BY <1>2, RolesStep DEF EnqueuePcs
  <2>3. QED  BY <2>1, <2>2
<1>5. Pending' = Pending /\ Uncounted' = Uncounted /\ Claiming' = Claiming /\ Freeing' = Freeing
    BY <1>2, ProducerSets DEF Pending, Uncounted, PendingPcs, UncountedPcs
<1>6. cHead' = cHead /\ cTail' = cTail /\ cNext' = cNext /\ cData' = cData /\ p \notin Freeing
    BY <1>2 DEF locals, Freeing
<1>7. LinkBefore(p) <= LinkBefore(p)'
  <2>1. cTail[p].stamp <= tail.stamp
      BY <1>2 DEF Stale
  <2>2. QED  BY <1>2, <1>3, <2>1 DEF LinkBefore, Quiet
<1>8. ReadsOf(p)'
    BY <1>3 DEF ReadsOf
<1>9. Counts(S)'
    BY <1>1, <1>2, <1>5 DEF Shape, Counts, shared
<1>10. QED
    BY <1>1, <1>2, <1>3, <1>4, <1>5, <1>6, <1>7, <1>8, <1>9, QuietStep

LEMMA CountUpStep ==
    ASSUME QueueInv, NEW p \in Producers, CountUp(p)
    PROVE  QueueInv'
<1>1. PICK S, own, pos : Shape(S, own, pos)
    BY DEF QueueInv
<1>2. TypeOK /\ Roles /\ Bound /\ Stale /\ Reads /\ p \in Threads /\ Quiet /\ p \notin Consumers
    BY QueueAssumption DEF QueueInv, CountUp, Quiet, locals, Threads
<1>3. Goto(p, "swing") /\ pc[p] = "inc" /\ count' = count + 1
    BY DEF CountUp
<1>4. pc'[p] = "swing" /\ \A u \in Threads : u # p => pc'[u] = pc[u]
    BY <1>2, <1>3, OthersStay
<1>5. TypeOK' /\ Roles'
  <2>1. TypeOK'  BY <1>2 DEF TypeOK, CountUp, Goto, locals, EnqueuePcs
  <2>2. Roles'  BY <1>2, <1>3, RolesStep DEF EnqueuePcs
  <2>3. QED  BY <2>1, <2>2
<1>6. /\ Pending' = Pending /\ Uncounted' = Uncounted \ {p} /\ p \in Uncounted
      /\ Claiming' = Claiming /\ Freeing' = Freeing
    BY <1>2, <1>3, ProducerSets DEF Pending, Uncounted, PendingPcs, UncountedPcs
<1>7. cHead' = cHead /\ cTail' = cTail /\ cNext' = cNext /\ cData' = cData /\ p \notin Freeing
    BY <1>2 DEF CountUp, locals, Freeing
<1>8. p \notin Pending
    BY <1>3 DEF Pending, PendingPcs
<1>9. ReadsOf(p)'
  <2>1. ReadsOf(p)  BY <1>2 DEF Reads
  <2>2. QED  BY <1>2, <1>3, <1>4, <1>7, <2>1 DEF ReadsOf, Quiet
<1>10. Counts(S)'
  <2>1. Cardinality(Uncounted') = Cardinality(Uncounted) - 1
      BY <1>6, SetsFinite, FS_RemoveElement
  <2>2. PICK k : k = Cardinality(S \ {head.node})
      OBVIOUS
  <2>3. count = k - Cardinality(Uncounted) - Cardinality(Claiming)
      BY <1>1, <2>2 DEF Shape, Counts
  <2>4. k \in Nat
    <3>1. S \ {head.node} \in SUBSET Nodes
        BY <1>1 DEF Shape, Forest
    <3>2. IsFiniteSet(S \ {head.node})
        BY <3>1, NodesFacts, FS_Subset
    <3>3. QED  BY <2>2, <3>2, FS_CardinalityType
  <2>5. count + 1 = k - (Cardinality(Uncounted) - 1) - Cardinality(Claiming)
      BY <2>3, <2>4, SetsFinite
  <2>6. QED  BY <1>2, <1>3, <1>6, <2>1, <2>2, <2>5 DEF Counts, Quiet
<1>11. QED
    BY <1>1, <1>2, <1>4, <1>5, <1>6, <1>7, <1>8, <1>9, <1>10, QuietStep

(* The compare-exchange of tail moves it to the node that follows, or does *)
(* nothing.                                                                *)
ButTail ==
    UNCHANGED <<head, next, data, count, pool, fresh, cHead, cTail, cNext, cData, made, got>>

LEMMA TailStep ==
    ASSUME TypeOK, Bound, Stale, Reads, NEW S, NEW own, NEW pos, Shape(S, own, pos),
           TypeOK', Roles', NEW t \in Threads, NEW n, CasTail(t, n),
           cTail[t] = tail => n # Null /\ next[tail.node] = n,
           ButTail,
           Pending' = Pending, Freeing' = Freeing, Uncounted' = Uncounted, Claiming' = Claiming,
           \A u \in Threads : u # t => pc'[u] = pc[u],
           \A q \in Producers : q # t \/ q \in Pending => node'[q] = node[q],
           t \in Pending => pc[t] # "readTail",
           ReadsOf(t)'
    PROVE  QueueInv'
<1>1. /\ Forest(S, own, pos) /\ Ends(S) /\ Words(S, own, pos) /\ Roots(S, own, pos)
      /\ Outside(S) /\ Order(S, own) /\ Items(S) /\ Counts(S)
    BY DEF Shape
<1>2. \/ tail' = tail
      \/ /\ tail'.stamp = tail.stamp + 1 /\ tail'.node = n
         /\ n \in S /\ own[n] = Null /\ pos[n] = tail.stamp + 1
    BY <1>1 DEF CasTail, Moved, Words, Forest
<1>3. tail.stamp \in Nat /\ fresh \in Nat
    BY DEF TypeOK, Word
<1>4. Forward(S)
    BY <1>2, <1>3 DEF Forward, ButTail
<1>5. Asked' = Asked
    BY DEF Asked, ButTail
<1>6. Forest(S, own, pos)' /\ Ends(S)'
  <2>1. Forest(S, own, pos)'  BY <1>1 DEF Forest, ButTail
  <2>2. Ends(S)'  BY <1>1 DEF Ends, ButTail
  <2>3. QED  BY <2>1, <2>2
<1>7. Words(S, own, pos)'
    BY <1>1, <1>2 DEF Words, ButTail
<1>8. Roots(S, own, pos)'
  <2>1. \A q \in Pending : node'[q] = node[q]
      BY DEF Pending
  <2>2. QED  BY <1>1, <2>1 DEF Roots, ButTail
<1>9. Outside(S)' /\ Items(S)' /\ Counts(S)' /\ Bound'
  <2>1. Outside(S)'  BY <1>1 DEF Outside, ButTail
  <2>2. Items(S)'  BY <1>1, <1>5 DEF Items, ButTail
  <2>3. Counts(S)'  BY <1>1 DEF Counts, ButTail
  <2>4. Bound'  BY <1>5 DEF Bound, ButTail
  <2>5. QED  BY <2>1, <2>2, <2>3, <2>4
<1>10. Stale'
  <2>1. head.node < fresh /\ tail.node < fresh
      BY <1>1 DEF Words, Ends
  <2>2. /\ \A u \in Threads : cHead'[u] = cHead[u] \/ (cHead'[u] = head /\ head' = head)
        /\ \A u \in Threads : cTail'[u] = cTail[u] \/ (cTail'[u] = tail /\ tail' = tail)
      BY DEF ButTail
  <2>3. QED  BY <1>4, <2>1, <2>2, StaleStep, Zenon
<1>11. Reads'
    BY <1>1, <1>4, ReadsStep DEF ButTail
<1>12. Order(S, own)'
  <2>1. ASSUME NEW q \in Pending'
        PROVE  q \in Pending /\ node'[q] = node[q] /\ node[q] # Null /\ LinkBefore(q) <= LinkBefore(q)'
    <3>1. q \in Pending /\ q \in Producers /\ node'[q] = node[q] /\ q \in Threads
        BY <2>1 DEF Pending, Threads
    <3>2. node[q] # Null
        BY <1>1, <3>1, NodesNat DEF Roots, Forest
    <3>3. /\ cTail[q].stamp \in Nat /\ cTail[q].stamp <= tail.stamp
          /\ tail'.stamp \in Nat /\ tail.stamp <= tail'.stamp
      <4>1. cTail[q].stamp \in Nat  BY <3>1 DEF TypeOK, Word
      <4>2. cTail[q].stamp <= tail.stamp  BY <3>1 DEF Stale
      <4>3. QED  BY <1>2, <1>3, <4>1, <4>2
    <3>4. LinkBefore(q) <= LinkBefore(q)'
      <4>1. CASE q = t
          BY <1>3, <3>1, <3>3, <4>1 DEF LinkBefore, ButTail
      <4>2. CASE q # t
          BY <1>3, <3>1, <3>3, <4>2 DEF LinkBefore, ButTail
      <4>3. QED  BY <4>1, <4>2
    <3>5. QED  BY <3>1, <3>2, <3>4
  <2>2. QED  BY <1>1, <2>1, OrderStep DEF ButTail
<1>13. Shape(S, own, pos)'
    BY <1>6, <1>7, <1>8, <1>9, <1>12 DEF Shape
<1>14. QED  BY <1>9, <1>10, <1>11, <1>13 DEF QueueInv

LEMMA HelpStep ==
    ASSUME QueueInv, NEW p \in Producers, Help(p)
    PROVE  QueueInv'
<1>1. PICK S, own, pos : Shape(S, own, pos)
    BY DEF QueueInv
<1>2. TypeOK /\ Roles /\ Bound /\ Stale /\ Reads /\ p \in Threads
    BY DEF QueueInv, Threads
<1>3. Goto(p, "readTail") /\ pc[p] = "help" /\ CasTail(p, cNext[p])
    BY DEF Help
<1>4. pc'[p] = "readTail" /\ \A u \in Threads : u # p => pc'[u] = pc[u]
    BY <1>2, <1>3, OthersStay
<1>5. ReadsOf(p)
    BY <1>2 DEF Reads
<1>6. cTail[p] = tail => cNext[p] # Null /\ next[tail.node] = cNext[p]
    BY <1>3, <1>5 DEF ReadsOf
<1>7. TypeOK'
  <2>1. cNext[p] \in Nodes \/ cNext[p] = Null
      BY <1>2 DEF TypeOK
  <2>2. tail' \in Word
      BY <1>2, <1>3, <1>6, <2>1 DEF CasTail, Moved, TypeOK, Word
  <2>3. QED  BY <1>2, <2>2 DEF TypeOK, Help, Goto, locals, EnqueuePcs
<1>8. Roles'
    BY <1>2, <1>3, QueueAssumption, RolesStep DEF EnqueuePcs
<1>9. Pending' = Pending /\ Uncounted' = Uncounted /\ Claiming' = Claiming /\ Freeing' = Freeing
    BY <1>2, <1>3, ProducerSets DEF Pending, Uncounted, PendingPcs, UncountedPcs
<1>10. ReadsOf(p)'
    BY <1>4 DEF ReadsOf
<1>11. QED
    BY <1>1, <1>2, <1>3, <1>4, <1>6, <1>7, <1>8, <1>9, <1>10, TailStep DEF Help, locals, ButTail

LEMMA SwingStep ==
    ASSUME QueueInv, NEW p \in Producers, Swing(p)
    PROVE  QueueInv'
<1>1. PICK S, own, pos : Shape(S, own, pos)
    BY DEF QueueInv
<1>2. TypeOK /\ Roles /\ Bound /\ Stale /\ Reads /\ p \in Threads
    BY DEF QueueInv, Threads
<1>3. Goto(p, "alloc") /\ pc[p] = "swing" /\ CasTail(p, node[p]) /\ node' = [node EXCEPT ![p] = Null]
    BY DEF Swing
<1>4. pc'[p] = "alloc" /\ \A u \in Threads : u # p => pc'[u] = pc[u]
    BY <1>2, <1>3, OthersStay
<1>5. ReadsOf(p)
    BY <1>2 DEF Reads
<1>6. cTail[p] = tail => node[p] # Null /\ next[tail.node] = node[p]
    BY <1>3, <1>5 DEF ReadsOf
<1>7. TypeOK'
  <2>1. node[p] \in Nodes \/ node[p] = Null
      BY <1>2 DEF TypeOK
  <2>2. tail' \in Word
      BY <1>2, <1>3, <1>6, <2>1 DEF CasTail, Moved, TypeOK, Word
  <2>3. QED  BY <1>2, <2>2 DEF TypeOK, Swing, Goto, EnqueuePcs
<1>8. Roles'
    BY <1>2, <1>3, QueueAssumption, RolesStep DEF EnqueuePcs
<1>9. Pending' = Pending /\ Uncounted' = Uncounted /\ Claiming' = Claiming /\ Freeing' = Freeing
    BY <1>2, <1>3, ProducerSets DEF Pending, Uncounted, PendingPcs, UncountedPcs
<1>10. ReadsOf(p)'
    BY <1>4 DEF ReadsOf
<1>11. p \notin Pending /\ \A u \in Producers : u # p => node'[u] = node[u]
    BY <1>2, <1>3 DEF Pending, PendingPcs, TypeOK
<1>12. QED
    BY <1>1, <1>2, <1>3, <1>4, <1>6, <1>7, <1>8, <1>9, <1>10, <1>11, TailStep DEF Swing, ButTail

(* The chain behind node[p] is grafted to the node n with next Null: onto  *)
(* the queue, or onto another waiting chain.                               *)
LEMMA LinkSucceeds ==
    ASSUME QueueInv, NEW p \in Producers, pc[p] = "link", NEW n, n = cTail[p].node, next[n] = Null,
           next' = [next EXCEPT ![n] = node[p]], Goto(p, "inc"),
           UNCHANGED <<head, tail, data, count, pool, fresh, locals, made, got>>
    PROVE  QueueInv'
<1>1. PICK S, own, pos : Shape(S, own, pos)
    BY DEF QueueInv
<1>2. TypeOK /\ Roles /\ Bound /\ Stale /\ Reads /\ p \in Threads /\ p \notin Consumers
    BY QueueAssumption DEF QueueInv, Threads
<1>3. /\ Forest(S, own, pos) /\ Ends(S) /\ Words(S, own, pos) /\ Roots(S, own, pos)
      /\ Outside(S) /\ Order(S, own) /\ Items(S) /\ Counts(S)
    BY <1>1 DEF Shape
<1>4. pc'[p] = "inc" /\ \A u \in Threads : u # p => pc'[u] = pc[u]
    BY <1>2, OthersStay
<1>5. PICK r : r = node[p]
    OBVIOUS
<1>6. p \in Pending /\ r \in S /\ r \in Nodes /\ r # Null /\ own[r] = r /\ pos[r] = 0
  <2>1. p \in Pending
      BY DEF Pending, PendingPcs
  <2>2. QED  BY <1>3, <1>5, <2>1, NodesNat DEF Roots, Forest
<1>7. n \in Nodes /\ n \in S /\ n < fresh
  <2>1. n \in Nodes /\ n < fresh
      BY <1>2 DEF TypeOK, Word, Stale
  <2>2. QED  BY <1>3, <2>1 DEF Ends
<1>8. PICK o : o = own[n]
    OBVIOUS
<1>9. o # r /\ o \in Nodes \cup {Null}
  <2>1. cTail[p].stamp \in Nat
      BY <1>2 DEF TypeOK, Word
  <2>2. LinkBefore(p) = cTail[p].stamp
      BY DEF LinkBefore
  <2>3. own[n] = node[p] => cTail[p].stamp < LinkBefore(p)
      BY <1>3, <1>6, <1>7 DEF Order
  <2>4. o # r
      BY <1>5, <1>8, <2>1, <2>2, <2>3
  <2>5. QED  BY <1>3, <1>7, <1>8, <2>4 DEF Forest
<1>10. PICK own2 : own2 = [x \in Nodes |-> IF own[x] = r THEN o ELSE own[x]]
    OBVIOUS
<1>11. PICK pos2 : pos2 = [x \in Nodes |-> IF own[x] = r THEN pos[x] + pos[n] + 1 ELSE pos[x]]
    OBVIOUS
<1>12. /\ S \subseteq Nodes /\ own \in [Nodes -> Nodes \cup {Null}] /\ pos \in [Nodes -> Nat]
       /\ \A x \in S : next[x] # Null =>
             next[x] \in S /\ own[next[x]] = own[x] /\ pos[next[x]] = pos[x] + 1
       /\ \A x, y \in S : own[x] = own[y] /\ pos[x] = pos[y] => x = y
       /\ \A x, y \in S : own[x] = own[y] /\ next[x] = Null => pos[y] <= pos[x]
    BY <1>3 DEF Forest
<1>13. \A x \in S : /\ x \in Nodes /\ pos[x] \in Nat /\ pos2[x] \in Nat
                    /\ own[x] = r => own2[x] = o /\ pos2[x] = pos[x] + pos[n] + 1
                    /\ own[x] # r => own2[x] = own[x] /\ pos2[x] = pos[x]
    BY <1>7, <1>10, <1>11, <1>12
<1>14. /\ next'[n] = r /\ \A x \in Nodes : x # n => next'[x] = next[x]
       /\ next' \in [Nodes -> Nodes \cup {Null}]
    BY <1>2, <1>5, <1>6, <1>7 DEF TypeOK
<1>15. TypeOK' /\ Roles'
  <2>1. TypeOK'  BY <1>2, <1>14 DEF TypeOK, Goto, locals, EnqueuePcs
  <2>2. Roles'  BY <1>2, RolesStep DEF EnqueuePcs
  <2>3. QED  BY <2>1, <2>2
<1>16. /\ Pending' = Pending \ {p} /\ Uncounted' = Uncounted
       /\ Claiming' = Claiming /\ Freeing' = Freeing
    BY <1>2, ProducerSets DEF Pending, Uncounted, PendingPcs, UncountedPcs
<1>17. /\ head' = head /\ tail' = tail /\ data' = data /\ pool' = pool /\ fresh' = fresh
       /\ node' = node /\ cHead' = cHead /\ cTail' = cTail /\ cNext' = cNext /\ cData' = cData
       /\ made' = made /\ got' = got /\ count' = count /\ Asked' = Asked
    BY DEF locals, Asked
<1>18. Forest(S, own2, pos2)'
  <2>1. own2 \in [Nodes -> Nodes \cup {Null}] /\ pos2 \in [Nodes -> Nat]
      BY <1>7, <1>9, <1>10, <1>11, <1>12
  <2>2. ASSUME NEW x \in S, next'[x] # Null
        PROVE  next'[x] \in S /\ own2[next'[x]] = own2[x] /\ pos2[next'[x]] = pos2[x] + 1
    <3>1. CASE x = n
        BY <1>6, <1>7, <1>8, <1>9, <1>12, <1>13, <1>14, <3>1
    <3>2. CASE x # n
      <4>1. next'[x] = next[x]
          BY <1>13, <1>14, <3>2
      <4>2. next[x] \in S /\ own[next[x]] = own[x] /\ pos[next[x]] = pos[x] + 1
          BY <1>12, <2>2, <4>1
      <4>3. QED  BY <1>7, <1>13, <4>1, <4>2
    <3>3. QED  BY <3>1, <3>2
  <2>3. ASSUME NEW x \in S, NEW y \in S, own[x] = r, own[y] # r, own2[x] = own2[y]
        PROVE  pos2[y] < pos2[x]
    <3>1. own[y] = o
        BY <1>13, <2>3
    <3>2. pos[y] <= pos[n]
        BY <1>7, <1>8, <1>12, <3>1
    <3>3. pos2[y] = pos[y] /\ pos2[x] = pos[x] + pos[n] + 1
        BY <1>13, <2>3
    <3>4. QED  BY <1>7, <1>13, <3>2, <3>3
  <2>4. ASSUME NEW x \in S, NEW y \in S, own2[x] = own2[y], pos2[x] = pos2[y]
        PROVE  x = y
    <3>1. pos2[x] \in Nat /\ ~(pos2[x] < pos2[y]) /\ ~(pos2[y] < pos2[x])
        BY <1>13, <2>4
    <3>2. (own[x] = r) <=> (own[y] = r)
        BY <2>3, <2>4, <3>1
    <3>3. own[x] = own[y] /\ pos[x] = pos[y]
        BY <1>7, <1>13, <2>4, <3>2
    <3>4. QED  BY <1>12, <3>3
  <2>5. ASSUME NEW x \in S, NEW y \in S, own2[x] = own2[y], next'[x] = Null
        PROVE  pos2[y] <= pos2[x]
    <3>1. x # n /\ next[x] = Null
        BY <1>6, <1>13, <1>14, <2>5
    <3>2. own[x] # o
      <4>1. own[x] = o => pos[x] <= pos[n] /\ pos[n] <= pos[x]
          BY <1>7, <1>8, <1>12, <3>1
      <4>2. QED  BY <1>7, <1>8, <1>12, <1>13, <3>1, <4>1
    <3>3. CASE own[x] = r /\ own[y] = r
      <4>1. pos[y] <= pos[x]
          BY <1>12, <3>1, <3>3
      <4>2. QED  BY <1>7, <1>13, <3>3, <4>1
    <3>4. CASE own[x] = r /\ own[y] # r
        BY <1>13, <2>3, <2>5, <3>4
    <3>5. CASE own[x] # r
      <4>1. own[y] # r /\ own[y] = own[x]
          BY <1>13, <2>5, <3>2, <3>5
      <4>2. pos[y] <= pos[x]
          BY <1>12, <3>1, <4>1
      <4>3. QED  BY <1>13, <3>5, <4>1, <4>2
    <3>6. QED  BY <3>3, <3>4, <3>5
  <2>6. QED  BY <1>12, <2>1, <2>2, <2>4, <2>5 DEF Forest
<1>19. Ends(S)'
    BY <1>3, <1>6, <1>14, <1>17 DEF Ends
<1>20. Words(S, own2, pos2)'
  <2>1. /\ head.node \in S /\ own[head.node] = Null /\ pos[head.node] = head.stamp
        /\ tail.node \in S /\ own[tail.node] = Null /\ pos[tail.node] = tail.stamp
        /\ \A x \in S : own[x] = Null => head.stamp <= pos[x]
      BY <1>3 DEF Words
  <2>2. head.stamp \in Nat
      BY <1>2 DEF TypeOK, Word
  <2>3. ASSUME NEW x \in S, own2[x] = Null PROVE head.stamp <= pos2[x]
    <3>1. CASE own[x] = r
      <4>1. head.stamp <= pos[n]
          BY <1>7, <1>8, <1>13, <2>1, <2>3, <3>1
      <4>2. QED  BY <1>7, <1>13, <2>2, <3>1, <4>1
    <3>2. CASE own[x] # r
        BY <1>13, <2>1, <2>3, <3>2
    <3>3. QED  BY <3>1, <3>2
  <2>4. own2[head.node] = Null /\ pos2[head.node] = head.stamp
      BY <1>6, <1>13, <2>1
  <2>5. own2[tail.node] = Null /\ pos2[tail.node] = tail.stamp
      BY <1>6, <1>13, <2>1
  <2>6. QED  BY <1>17, <2>1, <2>3, <2>4, <2>5 DEF Words
<1>21. \A q \in Pending' : q \in Pending /\ q # p /\ node[q] # r
    BY <1>3, <1>5, <1>6, <1>16 DEF Roots
<1>22. Roots(S, own2, pos2)'
  <2>1. ASSUME NEW q \in Pending' PROVE node[q] \in S /\ own2[node[q]] = node[q] /\ pos2[node[q]] = 0
    <3>1. node[q] \in S /\ own[node[q]] = node[q] /\ pos[node[q]] = 0 /\ node[q] # r
        BY <1>3, <1>21, <2>1 DEF Roots
    <3>2. QED  BY <1>13, <3>1
  <2>2. \A q, s \in Pending' : node[q] = node[s] => q = s
      BY <1>3, <1>21 DEF Roots
  <2>3. ASSUME NEW x \in S, own2[x] # Null PROVE \E q \in Pending' : own2[x] = node[q]
    <3>1. PICK y \in S : own[y] = own2[x] /\ own[y] # r /\ own[y] # Null
        BY <1>7, <1>8, <1>9, <1>13, <2>3
    <3>2. PICK q \in Pending : own[y] = node[q]
        BY <1>3, <3>1 DEF Roots
    <3>3. q # p
        BY <1>5, <3>1, <3>2
    <3>4. QED  BY <1>16, <3>1, <3>2, <3>3
  <2>4. ASSUME NEW x \in S, x # head.node, ~ \E q \in Pending' : x = node[q]
        PROVE  \E m \in S : next'[m] = x
    <3>1. x # Null
        BY <1>12, NodesNat
    <3>2. CASE x = r
        BY <1>7, <1>14, <3>2
    <3>3. CASE x # r
      <4>1. ~ \E q \in Pending : x = node[q]
          BY <1>5, <1>16, <2>4, <3>3
      <4>2. PICK m \in S : next[m] = x
          BY <1>3, <2>4, <4>1 DEF Roots
      <4>3. next'[m] = x
          BY <1>12, <1>14, <3>1, <4>2
      <4>4. QED  BY <4>3
    <3>4. QED  BY <3>2, <3>3
  <2>5. QED  BY <1>17, <2>1, <2>2, <2>3, <2>4 DEF Roots
<1>23. Outside(S)' /\ Items(S)' /\ Counts(S)' /\ Bound'
  <2>1. Outside(S)'  BY <1>3, <1>16, <1>17 DEF Outside
  <2>2. Items(S)'  BY <1>3, <1>17 DEF Items
  <2>3. Counts(S)'  BY <1>3, <1>16, <1>17 DEF Counts
  <2>4. Bound'  BY <1>2, <1>17 DEF Bound
  <2>5. QED  BY <2>1, <2>2, <2>3, <2>4
<1>24. Order(S, own2)'
  <2>1. SUFFICES ASSUME NEW q \in Pending', NEW t \in Producers, cTail[t].node \in S,
                        own2[cTail[t].node] = node[q]
                 PROVE  cTail[t].stamp < LinkBefore(q)'
      BY <1>17 DEF Order
  <2>2. q \in Pending /\ q # p /\ q \in Threads /\ t \in Threads
      BY <1>21 DEF Pending, Threads
  <2>3. LinkBefore(q)' = LinkBefore(q)
      BY <1>4, <1>17, <2>2 DEF LinkBefore
  <2>4. cTail[t].stamp \in Nat /\ cTail[p].stamp \in Nat /\ LinkBefore(q) \in Nat
      BY <1>2, <2>2 DEF TypeOK, Word, LinkBefore
  <2>5. CASE own[cTail[t].node] = r
    <3>1. cTail[t].stamp < LinkBefore(p) /\ LinkBefore(p) = cTail[p].stamp
        BY <1>3, <1>5, <1>6, <2>1, <2>5 DEF Order, LinkBefore
    <3>2. own[n] = node[q]
        BY <1>8, <1>13, <2>1, <2>5
    <3>3. cTail[p].stamp < LinkBefore(q)
        BY <1>3, <1>7, <2>2, <3>2 DEF Order
    <3>4. QED  BY <2>3, <2>4, <3>1, <3>3
  <2>6. CASE own[cTail[t].node] # r
    <3>1. own[cTail[t].node] = node[q]
        BY <1>13, <2>1, <2>6
    <3>2. cTail[t].stamp < LinkBefore(q)
        BY <1>3, <2>1, <2>2, <3>1 DEF Order
    <3>3. QED  BY <2>3, <3>2
  <2>7. QED  BY <2>5, <2>6
<1>25. Forward(S)
  <2>1. fresh \in Nat  BY <1>2 DEF TypeOK
  <2>2. QED  BY <1>12, <1>14, <1>17, <2>1 DEF Forward
<1>26. Stale'
    BY <1>2, <1>17 DEF Stale
<1>27. Reads'
  <2>1. ReadsOf(p)'
      BY <1>4, <1>5, <1>6, <1>14, <1>17 DEF ReadsOf
  <2>2. QED  BY <1>2, <1>3, <1>4, <1>17, <1>25, <2>1, ReadsStep
<1>28. Shape(S, own2, pos2)'
    BY <1>18, <1>19, <1>20, <1>22, <1>23, <1>24 DEF Shape
<1>29. QED  BY <1>15, <1>23, <1>26, <1>27, <1>28 DEF QueueInv

LEMMA LinkStep ==
    ASSUME QueueInv, NEW p \in Producers, Link(p)
    PROVE  QueueInv'
<1>1. CASE next[cTail[p].node] = Null
    BY <1>1, LinkSucceeds DEF Link
<1>2. CASE next[cTail[p].node] # Null
    BY <1>2, LinkFails DEF Link, shared
<1>3. QED  BY <1>1, <1>2

(* Taking from the pool, and putting in front.                             *)
LEMMA PoolTake ==
    ASSUME NEW s \in Seq(Nodes), s # <<>>
    PROVE  /\ Head(s) = s[1] /\ 1 \in DOMAIN s /\ Head(s) \in Nodes /\ Tail(s) \in Seq(Nodes)
           /\ \A i \in DOMAIN Tail(s) : i + 1 \in DOMAIN s /\ Tail(s)[i] = s[i + 1] /\ i \in Nat
<1>1. Len(s) \in Nat /\ Len(s) # 0 /\ DOMAIN s = 1..Len(s)
    OBVIOUS
<1>2. Head(s) = s[1] /\ 1 \in DOMAIN s /\ Head(s) \in Nodes
    BY <1>1
<1>3. PICK r : r = Tail(s)
    OBVIOUS
<1>4. r \in Seq(Nodes) /\ Len(r) = Len(s) - 1 /\ \A i \in 1..Len(r) : r[i] = s[i + 1]
    BY <1>1, <1>3
<1>5. \A i \in DOMAIN r : i + 1 \in DOMAIN s /\ r[i] = s[i + 1] /\ i \in Nat
    BY <1>1, <1>4
<1>6. QED  BY <1>2, <1>3, <1>4, <1>5

LEMMA PoolPut ==
    ASSUME NEW s \in Seq(Nodes), NEW n \in Nodes
    PROVE  /\ <<n>> \o s \in Seq(Nodes)
           /\ \A i \in DOMAIN (<<n>> \o s) :
                 (i = 1 /\ (<<n>> \o s)[i] = n) \/ (i - 1 \in DOMAIN s /\ (<<n>> \o s)[i] = s[i - 1] /\ i \in Nat)
<1>1. Len(s) \in Nat /\ DOMAIN s = 1..Len(s)
    OBVIOUS
<1>2. PICK r : r = <<n>> \o s
    OBVIOUS
<1>3. r \in Seq(Nodes) /\ Len(r) = Len(s) + 1 /\ r[1] = n /\ \A i \in 1..Len(s) : r[i + 1] = s[i]
    BY <1>1, <1>2
<1>4. ASSUME NEW i \in DOMAIN r
      PROVE  (i = 1 /\ r[i] = n) \/ (i - 1 \in DOMAIN s /\ r[i] = s[i - 1] /\ i \in Nat)
  <2>1. i \in 1..(Len(s) + 1)
      BY <1>3
  <2>2. CASE i = 1
      BY <1>3, <2>2
  <2>3. CASE i # 1
    <3>1. i - 1 \in 1..Len(s) /\ i \in Nat
        BY <1>1, <2>1, <2>3
    <3>2. r[(i - 1) + 1] = s[i - 1]
        BY <1>3, <3>1
    <3>3. QED  BY <1>1, <3>1, <3>2
  <2>4. QED  BY <2>2, <2>3
<1>5. QED  BY <1>2, <1>3, <1>4

(* The items asked for are finitely many.                                  *)
LEMMA AskedFinite == IsFiniteSet(Asked) /\ Cardinality(Asked) \in Nat
<1>1. Asked \in SUBSET Item
    BY DEF Asked
<1>2. IsFiniteSet(Asked)
    BY <1>1, NodesFacts, FS_Subset
<1>3. QED  BY <1>2, FS_CardinalityType

(* And so are the nodes in use.                                            *)
LEMMA LiveFinite ==
    ASSUME NEW S, S \subseteq Nodes, NEW h
    PROVE  IsFiniteSet(S \ {h}) /\ Cardinality(S \ {h}) \in Nat
<1>1. S \ {h} \in SUBSET Nodes
    OBVIOUS
<1>2. IsFiniteSet(S \ {h})
    BY <1>1, NodesFacts, FS_Subset
<1>3. QED  BY <1>2, FS_CardinalityType

(* A producer asks for one more item; there is a node for it.              *)
LEMMA AllocNode ==
    ASSUME TypeOK, Bound, NEW p \in Producers, made[p] < MaxItems, made' = [made EXCEPT ![p] = @ + 1]
    PROVE  /\ <<p, made[p] + 1>> \in Item /\ <<p, made[p] + 1>> \notin Asked
           /\ Asked' = Asked \cup {<<p, made[p] + 1>>}
           /\ Cardinality(Asked') = Cardinality(Asked) + 1
           /\ fresh \in Nodes /\ fresh + 1 \in 1..(Cardinality(Nodes) + 1)
           /\ fresh + 1 <= 2 + Cardinality(Asked')
<1>1. PICK e : e = <<p, made[p] + 1>>
    OBVIOUS
<1>2. made[p] \in Nat /\ MaxItems \in Nat /\ \A q \in Producers : made[q] \in Nat
    BY QueueAssumption DEF TypeOK
<1>3. e \in Item /\ e[1] = p /\ e[2] = made[p] + 1
    BY <1>1, <1>2 DEF Item
<1>4. e \notin Asked
    BY <1>2, <1>3 DEF Asked
<1>5. Asked' = Asked \cup {e}
  <2>1. made'[p] = made[p] + 1 /\ \A q \in Producers : q # p => made'[q] = made[q]
      BY DEF TypeOK
  <2>2. ASSUME NEW x \in Item PROVE x \in Asked' <=> x \in Asked \/ x = e
    <3>1. x[1] \in Producers /\ x[2] \in Nat /\ x = <<x[1], x[2]>>
        BY DEF Item
    <3>2. x \in Asked' <=> x[2] <= made'[x[1]]
        BY DEF Asked
    <3>3. x \in Asked <=> x[2] <= made[x[1]]
        BY DEF Asked
    <3>4. CASE x[1] # p
        BY <1>3, <2>1, <3>1, <3>2, <3>3, <3>4
    <3>5. CASE x[1] = p
      <4>1. x[2] <= made[p] + 1 <=> x[2] <= made[p] \/ x[2] = made[p] + 1
          BY <1>2, <3>1
      <4>2. x[2] = made[p] + 1 <=> x = e
          BY <1>1, <1>3, <3>1, <3>5
      <4>3. QED  BY <2>1, <3>2, <3>3, <3>5, <4>1, <4>2
    <3>6. QED  BY <3>4, <3>5
  <2>3. Asked' \subseteq Item /\ Asked \subseteq Item
      BY DEF Asked
  <2>4. QED  BY <1>3, <2>2, <2>3
<1>6. Cardinality(Asked \cup {e}) = Cardinality(Asked) + 1
    BY <1>4, AskedFinite, FS_AddElement
<1>7. PICK N \in Nat : /\ IsFiniteSet(Item) /\ Cardinality(Item) = N
                       /\ Nodes = 1..(N + 1) /\ Cardinality(Nodes) = N + 1
    BY NodesFacts
<1>8. Cardinality(Asked) + 1 <= N
  <2>1. Asked \cup {e} \in SUBSET Item
      BY <1>3 DEF Asked
  <2>2. QED  BY <1>6, <1>7, <2>1, FS_Subset
<1>9. fresh \in Nat /\ fresh >= 1 /\ fresh <= 2 + Cardinality(Asked)
    BY <1>7 DEF TypeOK, Bound
<1>10. fresh \in Nodes /\ fresh + 1 \in 1..(Cardinality(Nodes) + 1)
    BY <1>7, <1>8, <1>9, AskedFinite
<1>11. fresh + 1 <= 2 + Cardinality(Asked')
    BY <1>5, <1>6, <1>9, AskedFinite
<1>12. QED  BY <1>1, <1>3, <1>4, <1>5, <1>6, <1>10, <1>11

(* The node of a new item is in no chain: it makes one of its own.         *)
LEMMA AllocStep ==
    ASSUME QueueInv, NEW p \in Producers, Alloc(p)
    PROVE  QueueInv'
<1>1. PICK S, own, pos : Shape(S, own, pos)
    BY DEF QueueInv
<1>2. TypeOK /\ Roles /\ Bound /\ Stale /\ Reads /\ p \in Threads /\ p \notin Consumers
    BY QueueAssumption DEF QueueInv, Threads
<1>3. /\ Forest(S, own, pos) /\ Ends(S) /\ Words(S, own, pos) /\ Roots(S, own, pos)
      /\ Outside(S) /\ Order(S, own) /\ Items(S) /\ Counts(S)
    BY <1>1 DEF Shape
<1>4. PICK n : n = IF pool # <<>> THEN Head(pool) ELSE fresh
    OBVIOUS
<1>5. PICK e : e = <<p, made[p] + 1>>
    OBVIOUS
<1>6. /\ pc[p] = "alloc" /\ made[p] < MaxItems /\ made' = [made EXCEPT ![p] = @ + 1]
      /\ pool' = IF pool # <<>> THEN Tail(pool) ELSE pool
      /\ fresh' = IF pool # <<>> THEN fresh ELSE fresh + 1
      /\ next' = [next EXCEPT ![n] = Null] /\ data' = [data EXCEPT ![n] = e]
      /\ node' = [node EXCEPT ![p] = n] /\ Goto(p, "readTail")
    BY <1>4, <1>5 DEF Alloc
<1>7. /\ head' = head /\ tail' = tail /\ count' = count /\ cHead' = cHead /\ cTail' = cTail
      /\ cNext' = cNext /\ cData' = cData /\ got' = got
    BY DEF Alloc
<1>8. pc'[p] = "readTail" /\ \A u \in Threads : u # p => pc'[u] = pc[u]
    BY <1>2, <1>6, OthersStay
<1>9. /\ e \in Item /\ e \notin Asked /\ Asked' = Asked \cup {e}
      /\ Cardinality(Asked') = Cardinality(Asked) + 1
      /\ fresh \in Nodes /\ fresh + 1 \in 1..(Cardinality(Nodes) + 1)
      /\ fresh + 1 <= 2 + Cardinality(Asked')
    BY <1>2, <1>5, <1>6, AllocNode
<1>10. pool \in Seq(Nodes) /\ fresh \in Nat /\ fresh \in 1..(Cardinality(Nodes) + 1)
    BY <1>2, <1>9, NodesNat DEF TypeOK
<1>11. /\ n \in Nodes /\ n \notin S /\ n < fresh' /\ fresh <= fresh' /\ fresh' \in 1..(Cardinality(Nodes) + 1)
       /\ \A x \in Nodes : x < fresh' /\ x # n => x < fresh
       /\ pool' \in Seq(Nodes)
       /\ \A i \in DOMAIN pool' : pool'[i] < fresh' /\ pool'[i] \notin S /\ pool'[i] # n
       /\ \A i, j \in DOMAIN pool' : pool'[i] = pool'[j] => i = j
       /\ \A c \in Freeing : cHead[c].node # n /\ \A i \in DOMAIN pool' : cHead[c].node # pool'[i]
  <2>1. /\ \A i \in DOMAIN pool : pool[i] < fresh /\ pool[i] \notin S
        /\ \A i, j \in DOMAIN pool : pool[i] = pool[j] => i = j
        /\ \A c \in Freeing : \A i \in DOMAIN pool : cHead[c].node # pool[i]
      BY <1>3 DEF Outside
  <2>2. CASE pool # <<>>
    <3>1. /\ n = pool[1] /\ 1 \in DOMAIN pool /\ n \in Nodes /\ pool' \in Seq(Nodes) /\ fresh' = fresh
          /\ \A i \in DOMAIN pool' : i + 1 \in DOMAIN pool /\ pool'[i] = pool[i + 1] /\ i \in Nat
        BY <1>4, <1>6, <1>10, <2>2, PoolTake
    <3>2. n \notin S /\ n < fresh
        BY <2>1, <3>1
    <3>3. \A i \in DOMAIN pool' : pool'[i] < fresh /\ pool'[i] \notin S
        BY <2>1, <3>1
    <3>4. \A i \in DOMAIN pool' : pool'[i] # n
      <4>1. SUFFICES ASSUME NEW i \in DOMAIN pool', pool'[i] = n PROVE FALSE
          OBVIOUS
      <4>2. i + 1 = 1 /\ i \in Nat
          BY <2>1, <3>1, <4>1
      <4>3. i # 0
          BY <3>1, <4>2
      <4>4. QED  BY <4>2, <4>3
    <3>5. \A i, j \in DOMAIN pool' : pool'[i] = pool'[j] => i = j
      <4>1. SUFFICES ASSUME NEW i \in DOMAIN pool', NEW j \in DOMAIN pool', pool'[i] = pool'[j] PROVE i = j
          OBVIOUS
      <4>2. i + 1 = j + 1 /\ i \in Nat /\ j \in Nat
          BY <2>1, <3>1, <4>1
      <4>3. QED  BY <4>2
    <3>6. \A c \in Freeing : cHead[c].node # n /\ \A i \in DOMAIN pool' : cHead[c].node # pool'[i]
        BY <2>1, <3>1
    <3>7. QED  BY <1>10, <3>1, <3>2, <3>3, <3>4, <3>5, <3>6
  <2>3. CASE pool = <<>>
    <3>1. n = fresh /\ n \in Nodes /\ pool' = pool /\ fresh' = fresh + 1 /\ DOMAIN pool = {}
        BY <1>4, <1>6, <1>9, <2>3
    <3>2. \A x \in S : x < fresh
        BY <1>3 DEF Ends
    <3>3. n \notin S
        BY <1>10, <3>1, <3>2
    <3>4. \A c \in Freeing : cHead[c].node # n
      <4>1. \A c \in Freeing : c \in Threads
          BY DEF Freeing, Threads
      <4>2. \A c \in Freeing : cHead[c].node < fresh
          BY <1>2, <4>1 DEF Stale
      <4>3. QED  BY <1>10, <3>1, <4>2
    <3>5. n < fresh' /\ fresh <= fresh' /\ fresh' \in 1..(Cardinality(Nodes) + 1)
        BY <1>9, <1>10, <3>1
    <3>6. \A x \in Nodes : x < fresh' /\ x # n => x < fresh
        BY <1>10, <3>1, NodesNat
    <3>7. QED  BY <1>10, <3>1, <3>3, <3>4, <3>5, <3>6
  <2>4. QED  BY <2>2, <2>3
<1>12. PICK S2 : S2 = S \cup {n}
    OBVIOUS
<1>13. PICK own2 : own2 = [own EXCEPT ![n] = n]
    OBVIOUS
<1>14. PICK pos2 : pos2 = [pos EXCEPT ![n] = 0]
    OBVIOUS
<1>15. /\ S \subseteq Nodes /\ own \in [Nodes -> Nodes \cup {Null}] /\ pos \in [Nodes -> Nat]
       /\ \A x \in S : next[x] # Null =>
             next[x] \in S /\ own[next[x]] = own[x] /\ pos[next[x]] = pos[x] + 1
       /\ \A x, y \in S : own[x] = own[y] /\ pos[x] = pos[y] => x = y
       /\ \A x, y \in S : own[x] = own[y] /\ next[x] = Null => pos[y] <= pos[x]
    BY <1>3 DEF Forest
<1>16. /\ own2 \in [Nodes -> Nodes \cup {Null}] /\ pos2 \in [Nodes -> Nat]
       /\ own2[n] = n /\ pos2[n] = 0 /\ n # Null
       /\ \A x \in S : own2[x] = own[x] /\ pos2[x] = pos[x] /\ x # n /\ x \in Nodes
    BY <1>11, <1>13, <1>14, <1>15, NodesNat
<1>17. \A q \in Pending : node[q] \in S /\ node[q] # n
    BY <1>3, <1>11 DEF Roots
<1>18. \A x \in S : own[x] # n
    BY <1>3, <1>16, <1>17 DEF Roots
<1>19. /\ next'[n] = Null /\ data'[n] = e /\ next' \in [Nodes -> Nodes \cup {Null}]
       /\ \A x \in Nodes : x # n => next'[x] = next[x] /\ data'[x] = data[x]
       /\ data' \in [Nodes -> Item \cup {NoItem}]
    BY <1>2, <1>6, <1>9, <1>11 DEF TypeOK
<1>20. node'[p] = n /\ \A q \in Producers : q # p => node'[q] = node[q]
    BY <1>2, <1>6 DEF TypeOK
<1>21. TypeOK' /\ Roles'
  <2>1. made' \in [Producers -> 0..MaxItems]
      BY <1>2, <1>6, QueueAssumption DEF TypeOK
  <2>2. node' \in [Producers -> Nodes \cup {Null}]
      BY <1>2, <1>6, <1>11 DEF TypeOK
  <2>3. pc' \in [Threads -> EnqueuePcs \cup DequeuePcs]
      BY <1>2, <1>6 DEF TypeOK, Goto, EnqueuePcs
  <2>4. TypeOK'
      BY <1>2, <1>7, <1>11, <1>19, <2>1, <2>2, <2>3 DEF TypeOK
  <2>5. Roles'
      BY <1>2, <1>6, RolesStep DEF EnqueuePcs
  <2>6. QED  BY <2>4, <2>5
<1>22. /\ Pending' = Pending \cup {p} /\ p \notin Pending
       /\ Uncounted' = Uncounted \cup {p} /\ p \notin Uncounted
       /\ Claiming' = Claiming /\ Freeing' = Freeing
    BY <1>2, <1>6, ProducerSets DEF Pending, Uncounted, PendingPcs, UncountedPcs
<1>23. \A q \in Pending : q \in Producers /\ q # p /\ node'[q] = node[q] /\ node'[q] \in S /\ node'[q] # n
  <2>1. \A q \in Pending : q \in Producers /\ q # p
      BY <1>22 DEF Pending
  <2>2. QED  BY <1>17, <1>20, <2>1
<1>24. Forest(S2, own2, pos2)'
  <2>1. S2 \subseteq Nodes
      BY <1>11, <1>12, <1>15
  <2>2. ASSUME NEW x \in S2, next'[x] # Null
        PROVE  next'[x] \in S2 /\ own2[next'[x]] = own2[x] /\ pos2[next'[x]] = pos2[x] + 1
    <3>1. x \in S /\ next'[x] = next[x]
        BY <1>12, <1>16, <1>19, <2>2
    <3>2. next[x] \in S /\ own[next[x]] = own[x] /\ pos[next[x]] = pos[x] + 1
        BY <1>15, <2>2, <3>1
    <3>3. QED  BY <1>12, <1>16, <3>1, <3>2
  <2>3. ASSUME NEW x \in S2, NEW y \in S2, own2[x] = own2[y], x # y PROVE x \in S /\ y \in S
      BY <1>12, <1>16, <1>18, <2>3
  <2>4. ASSUME NEW x \in S2, NEW y \in S2, own2[x] = own2[y], pos2[x] = pos2[y] PROVE x = y
      BY <1>15, <1>16, <2>3, <2>4
  <2>5. ASSUME NEW x \in S2, NEW y \in S2, own2[x] = own2[y], next'[x] = Null
        PROVE  pos2[y] <= pos2[x]
    <3>1. CASE x = y
      <4>1. pos2[x] \in Nat  BY <1>16, <2>1
      <4>2. QED  BY <3>1, <4>1
    <3>2. CASE x # y
      <4>1. x \in S /\ y \in S
          BY <2>3, <2>5, <3>2
      <4>2. next[x] = Null /\ own[x] = own[y]
          BY <1>16, <1>19, <2>5, <4>1
      <4>3. pos[y] <= pos[x]
          BY <1>15, <4>1, <4>2
      <4>4. QED  BY <1>16, <4>1, <4>3
    <3>3. QED  BY <3>1, <3>2
  <2>6. QED  BY <1>16, <2>1, <2>2, <2>4, <2>5 DEF Forest
<1>25. Ends(S2)'
  <2>1. \A x \in S2 : x < fresh'
    <3>1. \A x \in S : x < fresh /\ x \in Nat
        BY <1>3, <1>15, NodesNat DEF Ends
    <3>2. fresh' \in Nat
        BY <1>21 DEF TypeOK
    <3>3. QED  BY <1>10, <1>11, <1>12, <3>1, <3>2
  <2>2. ASSUME NEW x \in Nodes, x < fresh', next'[x] = Null PROVE x \in S2
    <3>1. CASE x = n  BY <1>12, <3>1
    <3>2. CASE x # n
      <4>1. x < fresh /\ next[x] = Null
          BY <1>11, <1>19, <2>2, <3>2
      <4>2. QED  BY <1>3, <1>12, <4>1 DEF Ends
    <3>3. QED  BY <3>1, <3>2
  <2>3. QED  BY <2>1, <2>2 DEF Ends
<1>26. Words(S2, own2, pos2)'
    BY <1>3, <1>7, <1>12, <1>16 DEF Words
<1>27. Roots(S2, own2, pos2)'
  <2>1. ASSUME NEW q \in Pending'
        PROVE  node'[q] \in S2 /\ own2[node'[q]] = node'[q] /\ pos2[node'[q]] = 0
    <3>1. CASE q = p
        BY <1>12, <1>16, <1>20, <3>1
    <3>2. CASE q # p
      <4>1. q \in Pending  BY <1>22, <2>1, <3>2
      <4>2. own[node[q]] = node[q] /\ pos[node[q]] = 0
          BY <1>3, <4>1 DEF Roots
      <4>3. QED  BY <1>12, <1>16, <1>23, <4>1, <4>2
    <3>3. QED  BY <3>1, <3>2
  <2>2. ASSUME NEW q \in Pending', NEW s \in Pending', node'[q] = node'[s] PROVE q = s
    <3>1. \A t \in Pending' : t # p => t \in Pending
        BY <1>22
    <3>2. CASE q # p /\ s # p
      <4>1. q \in Pending /\ s \in Pending /\ node[q] = node[s]
          BY <1>23, <2>2, <3>1, <3>2
      <4>2. QED  BY <1>3, <4>1 DEF Roots
    <3>3. CASE q = p \/ s = p
        BY <1>20, <1>23, <2>2, <3>1, <3>3
    <3>4. QED  BY <3>2, <3>3
  <2>3. ASSUME NEW x \in S2, own2[x] # Null PROVE \E q \in Pending' : own2[x] = node'[q]
    <3>1. CASE x = n
        BY <1>16, <1>20, <1>22, <3>1
    <3>2. CASE x # n
      <4>1. x \in S /\ own2[x] = own[x]
          BY <1>12, <1>16, <3>2
      <4>2. PICK q \in Pending : own[x] = node[q]
          BY <1>3, <2>3, <4>1 DEF Roots
      <4>3. QED  BY <1>22, <1>23, <4>1, <4>2
    <3>3. QED  BY <3>1, <3>2
  <2>4. ASSUME NEW x \in S2, x # head.node
        PROVE  (\E m \in S2 : next'[m] = x) \/ (\E q \in Pending' : x = node'[q])
    <3>1. CASE x = n
        BY <1>20, <1>22, <3>1
    <3>2. CASE x # n
      <4>1. x \in S
          BY <1>12, <3>2
      <4>2. (\E m \in S : next[m] = x) \/ (\E q \in Pending : x = node[q])
          BY <1>3, <2>4, <4>1 DEF Roots
      <4>3. CASE \E m \in S : next[m] = x
        <5>1. PICK m \in S : next[m] = x  BY <4>3
        <5>2. m \in S2 /\ next'[m] = x  BY <1>12, <1>16, <1>19, <5>1
        <5>3. QED  BY <5>2
      <4>4. CASE \E q \in Pending : x = node[q]
          BY <1>22, <1>23, <4>4
      <4>5. QED  BY <4>2, <4>3, <4>4
    <3>3. QED  BY <3>1, <3>2
  <2>5. QED  BY <1>7, <2>1, <2>2, <2>3, <2>4 DEF Roots
<1>28. Outside(S2)'
  <2>1. \A i \in DOMAIN pool' : pool'[i] < fresh' /\ pool'[i] \notin S2
      BY <1>11, <1>12
  <2>2. \A c \in Freeing : cHead[c].node \notin S2
      BY <1>3, <1>11, <1>12 DEF Outside
  <2>3. \A c, d \in Freeing : cHead[c].node = cHead[d].node => c = d
      BY <1>3 DEF Outside
  <2>4. QED  BY <1>7, <1>11, <1>22, <2>1, <2>2, <2>3 DEF Outside
<1>29. Order(S2, own2)'
  <2>1. SUFFICES ASSUME NEW q \in Pending', NEW t \in Producers, cTail[t].node \in S2,
                        own2[cTail[t].node] = node'[q]
                 PROVE  cTail[t].stamp < LinkBefore(q)'
      BY <1>7 DEF Order
  <2>2. q \in Threads /\ t \in Threads
      BY DEF Pending, Threads
  <2>3. CASE q = p
    <3>1. cTail[t].node = n
        BY <1>12, <1>16, <1>18, <1>20, <2>1, <2>3
    <3>2. cTail[t] # tail
        BY <1>3, <1>11, <3>1 DEF Words
    <3>3. cTail[t].stamp < tail.stamp
      <4>1. cTail[t].stamp <= tail.stamp /\ cTail[t].stamp # tail.stamp
          BY <1>2, <2>2, <3>2 DEF Stale
      <4>2. cTail[t].stamp \in Nat /\ tail.stamp \in Nat
          BY <1>2, <2>2 DEF TypeOK, Word
      <4>3. QED  BY <4>1, <4>2
    <3>4. LinkBefore(q)' = tail.stamp
        BY <1>7, <1>8, <2>3 DEF LinkBefore
    <3>5. QED  BY <3>3, <3>4
  <2>4. CASE q # p
    <3>1. q \in Pending
        BY <1>22, <2>4
    <3>2. cTail[t].node \in S /\ own[cTail[t].node] = node[q]
        BY <1>12, <1>16, <1>23, <2>1, <3>1
    <3>3. cTail[t].stamp < LinkBefore(q)
        BY <1>3, <3>1, <3>2 DEF Order
    <3>4. LinkBefore(q)' = LinkBefore(q)
        BY <1>7, <1>8, <2>2, <2>4 DEF LinkBefore
    <3>5. QED  BY <3>3, <3>4
  <2>5. QED  BY <2>3, <2>4
<1>30. head.node \in S /\ head.node # n
    BY <1>3, <1>11 DEF Words
<1>31. Items(S2)'
  <2>1. /\ \A x \in S \ {head.node} : data[x] \in Asked /\ \A i \in DOMAIN got : got[i] # data[x]
        /\ \A x, y \in S \ {head.node} : data[x] = data[y] => x = y
        /\ \A f \in Asked : \/ \E i \in DOMAIN got : got[i] = f
                            \/ \E x \in S \ {head.node} : data[x] = f
        /\ \A i, j \in DOMAIN got : got[i] = got[j] => i = j
        /\ \A i \in DOMAIN got : got[i] \in Asked
      BY <1>3 DEF Items
  <2>2. \A x \in S : data'[x] = data[x]
      BY <1>16, <1>19
  <2>3. \A x \in S2 \ {head.node} : x = n \/ x \in S \ {head.node}
      BY <1>12
  <2>4. n \in S2 \ {head.node} /\ \A x \in S \ {head.node} : x \in S2 \ {head.node}
      BY <1>12, <1>30
  <2>5. \A x \in S2 \ {head.node} : data'[x] \in Asked' /\ \A i \in DOMAIN got : got[i] # data'[x]
      BY <1>9, <1>19, <2>1, <2>2, <2>3
  <2>6. \A x, y \in S2 \ {head.node} : data'[x] = data'[y] => x = y
      BY <1>9, <1>19, <2>1, <2>2, <2>3
  <2>7. \A f \in Asked' : \/ \E i \in DOMAIN got : got[i] = f
                          \/ \E x \in S2 \ {head.node} : data'[x] = f
    <3>1. SUFFICES ASSUME NEW f \in Asked', ~ \E i \in DOMAIN got : got[i] = f
                   PROVE  \E x \in S2 \ {head.node} : data'[x] = f
        OBVIOUS
    <3>2. CASE f = e
        BY <1>19, <2>4, <3>2
    <3>3. CASE f # e
      <4>1. f \in Asked
          BY <1>9, <3>3
      <4>2. PICK x \in S \ {head.node} : data[x] = f
          BY <2>1, <3>1, <4>1
      <4>3. QED  BY <2>2, <2>4, <4>2
    <3>4. QED  BY <3>2, <3>3
  <2>8. \A i \in DOMAIN got : got[i] \in Asked'
      BY <1>9, <2>1
  <2>9. QED  BY <1>7, <2>1, <2>5, <2>6, <2>7, <2>8 DEF Items
<1>32. Counts(S2)'
  <2>1. PICK k : k = Cardinality(S \ {head.node})
      OBVIOUS
  <2>2. IsFiniteSet(S \ {head.node}) /\ k \in Nat
      BY <1>15, <2>1, LiveFinite
  <2>3. S2 \ {head.node} = (S \ {head.node}) \cup {n} /\ n \notin S \ {head.node}
      BY <1>11, <1>12, <1>30
  <2>4. Cardinality(S2 \ {head.node}) = k + 1
      BY <2>1, <2>2, <2>3, FS_AddElement
  <2>5. Cardinality(Uncounted') = Cardinality(Uncounted) + 1
      BY <1>22, SetsFinite, FS_AddElement
  <2>6. count = k - Cardinality(Uncounted) - Cardinality(Claiming)
      BY <1>3, <2>1 DEF Counts
  <2>7. count = (k + 1) - (Cardinality(Uncounted) + 1) - Cardinality(Claiming)
      BY <2>2, <2>6, SetsFinite
  <2>8. QED  BY <1>7, <1>22, <2>4, <2>5, <2>7 DEF Counts
<1>33. Bound'
  <2>1. fresh' \in Nat /\ fresh' <= fresh + 1 /\ Cardinality(Asked') \in Nat
      BY <1>6, <1>9, <1>10, AskedFinite
  <2>2. QED  BY <1>9, <1>10, <2>1 DEF Bound
<1>34. Forward(S)
    BY <1>7, <1>11, <1>16, <1>19 DEF Forward
<1>35. Stale'
  <2>1. head.node < fresh /\ tail.node < fresh
      BY <1>3 DEF Words, Ends
  <2>2. QED  BY <1>2, <1>7, <1>21, <1>34, <2>1, StaleStep
<1>36. Reads'
  <2>1. ReadsOf(p)'
      BY <1>8 DEF ReadsOf
  <2>2. QED  BY <1>2, <1>3, <1>7, <1>8, <1>20, <1>34, <2>1, ReadsStep
<1>37. Shape(S2, own2, pos2)'
    BY <1>24, <1>25, <1>26, <1>27, <1>28, <1>29, <1>31, <1>32 DEF Shape
<1>38. QED  BY <1>21, <1>33, <1>35, <1>36, <1>37 DEF QueueInv

-----------------------------------------------------------------------------
(***************************************************************************)
(* Dequeue.                                                                *)
(***************************************************************************)

(* A consumer that only reads.                                             *)
LEMMA ConsumerStep ==
    ASSUME QueueInv, NEW c \in Consumers, NEW x \in ClaimingPcs, pc[c] \in ClaimingPcs,
           Goto(c, x), Quiet, count' = count, TypeOK',
           cHead'[c] = cHead[c] \/ cHead'[c] = head, cTail'[c] = cTail[c] \/ cTail'[c] = tail,
           \A u \in Threads : u # c =>
              /\ cHead'[u] = cHead[u] /\ cTail'[u] = cTail[u]
              /\ cNext'[u] = cNext[u] /\ cData'[u] = cData[u],
           ReadsOf(c)'
    PROVE  QueueInv'
<1>1. PICK S, own, pos : Shape(S, own, pos)
    BY DEF QueueInv
<1>2. TypeOK /\ Roles /\ Bound /\ Stale /\ Reads /\ c \in Threads /\ c \notin Producers
    BY QueueAssumption DEF QueueInv, Threads
<1>3. pc'[c] = x /\ \A u \in Threads : u # c => pc'[u] = pc[u]
    BY <1>2, OthersStay
<1>4. Roles'
    BY <1>2, RolesStep DEF DequeuePcs, ClaimingPcs
<1>5. /\ Pending' = Pending /\ Uncounted' = Uncounted /\ Claiming' = Claiming
      /\ Freeing' = Freeing /\ c \notin Freeing /\ c \notin Pending
  <2>1. c \notin Freeing /\ c \in Claiming /\ x # "free" /\ c \notin Pending
      BY <1>2 DEF ClaimingPcs, Freeing, Claiming, Pending
  <2>2. /\ Claiming' = Claiming \cup {c} /\ Freeing' = Freeing \ {c}
        /\ Pending' = Pending /\ Uncounted' = Uncounted
      BY <1>2, <2>1, ConsumerSets
  <2>3. Claiming \cup {c} = Claiming /\ Freeing \ {c} = Freeing
      BY <2>1
  <2>4. QED  BY <2>1, <2>2, <2>3
<1>6. Counts(S)'
    BY <1>1, <1>5 DEF Shape, Counts, Quiet
<1>7. QED
    BY <1>1, <1>2, <1>3, <1>4, <1>5, <1>6, QuietStep

LEMMA ClaimStep ==
    ASSUME QueueInv, NEW c \in Consumers, Claim(c)
    PROVE  QueueInv'
<1>1. PICK S, own, pos : Shape(S, own, pos)
    BY DEF QueueInv
<1>2. TypeOK /\ Roles /\ Bound /\ Stale /\ Reads /\ c \in Threads /\ Quiet /\ c \notin Producers
    BY QueueAssumption DEF QueueInv, Claim, Quiet, locals, Threads
<1>3. PICK x : x = IF count - 1 < 0 THEN "unclaim" ELSE "dHead"
    OBVIOUS
<1>4. Goto(c, x) /\ pc[c] = "claim" /\ count' = count - 1 /\ x \in {"unclaim", "dHead"}
    BY <1>3 DEF Claim
<1>5. pc'[c] = x /\ \A u \in Threads : u # c => pc'[u] = pc[u]
    BY <1>2, <1>4, OthersStay
<1>6. TypeOK' /\ Roles'
  <2>1. TypeOK'  BY <1>2, <1>4 DEF TypeOK, Claim, Goto, locals, DequeuePcs
  <2>2. Roles'  BY <1>2, <1>4, RolesStep DEF DequeuePcs
  <2>3. QED  BY <2>1, <2>2
<1>7. /\ Pending' = Pending /\ Uncounted' = Uncounted /\ Claiming' = Claiming \cup {c}
      /\ c \notin Claiming /\ Freeing' = Freeing /\ c \notin Freeing /\ c \notin Pending
  <2>1. c \notin Freeing /\ c \notin Claiming /\ x # "free" /\ x \in ClaimingPcs /\ c \notin Pending
      BY <1>2, <1>4 DEF ClaimingPcs, Freeing, Claiming, Pending
  <2>2. QED  BY <1>2, <1>4, <2>1, ConsumerSets
<1>8. cHead' = cHead /\ cTail' = cTail /\ cNext' = cNext /\ cData' = cData
    BY DEF Claim, locals
<1>9. ReadsOf(c)'
    BY <1>2, <1>4, <1>5 DEF ReadsOf
<1>10. Counts(S)'
  <2>1. Cardinality(Claiming') = Cardinality(Claiming) + 1
      BY <1>7, SetsFinite, FS_AddElement
  <2>2. PICK k : k = Cardinality(S \ {head.node})
      OBVIOUS
  <2>3. count = k - Cardinality(Uncounted) - Cardinality(Claiming)
      BY <1>1, <2>2 DEF Shape, Counts
  <2>4. k \in Nat
      BY <1>1, <2>2, LiveFinite DEF Shape, Forest
  <2>5. count - 1 = k - Cardinality(Uncounted) - (Cardinality(Claiming) + 1)
      BY <2>3, <2>4, SetsFinite
  <2>6. QED  BY <1>2, <1>4, <1>7, <2>1, <2>2, <2>5 DEF Counts, Quiet
<1>11. QED
    BY <1>1, <1>2, <1>5, <1>6, <1>7, <1>8, <1>9, <1>10, QuietStep

LEMMA UnclaimStep ==
    ASSUME QueueInv, NEW c \in Consumers, Unclaim(c)
    PROVE  QueueInv'
<1>1. PICK S, own, pos : Shape(S, own, pos)
    BY DEF QueueInv
<1>2. TypeOK /\ Roles /\ Bound /\ Stale /\ Reads /\ c \in Threads /\ Quiet /\ c \notin Producers
    BY QueueAssumption DEF QueueInv, Unclaim, Quiet, locals, Threads
<1>3. Goto(c, "claim") /\ pc[c] = "unclaim" /\ count' = count + 1
    BY DEF Unclaim
<1>4. pc'[c] = "claim" /\ \A u \in Threads : u # c => pc'[u] = pc[u]
    BY <1>2, <1>3, OthersStay
<1>5. TypeOK' /\ Roles'
  <2>1. TypeOK'  BY <1>2, <1>3 DEF TypeOK, Unclaim, Goto, locals, DequeuePcs
  <2>2. Roles'  BY <1>2, <1>3, RolesStep DEF DequeuePcs
  <2>3. QED  BY <2>1, <2>2
<1>6. /\ Pending' = Pending /\ Uncounted' = Uncounted /\ Claiming' = Claiming \ {c}
      /\ c \in Claiming /\ Freeing' = Freeing /\ c \notin Freeing /\ c \notin Pending
  <2>1. c \notin Freeing /\ c \in Claiming /\ "claim" \notin ClaimingPcs /\ c \notin Pending
      BY <1>2, <1>3 DEF ClaimingPcs, Freeing, Claiming, Pending
  <2>2. QED  BY <1>2, <1>3, <2>1, ConsumerSets
<1>7. cHead' = cHead /\ cTail' = cTail /\ cNext' = cNext /\ cData' = cData
    BY DEF Unclaim, locals
<1>8. ReadsOf(c)'
    BY <1>2, <1>4 DEF ReadsOf
<1>9. Counts(S)'
  <2>1. Cardinality(Claiming') = Cardinality(Claiming) - 1
      BY <1>6, SetsFinite, FS_RemoveElement
  <2>2. PICK k : k = Cardinality(S \ {head.node})
      OBVIOUS
  <2>3. count = k - Cardinality(Uncounted) - Cardinality(Claiming)
      BY <1>1, <2>2 DEF Shape, Counts
  <2>4. k \in Nat
      BY <1>1, <2>2, LiveFinite DEF Shape, Forest
  <2>5. count + 1 = k - Cardinality(Uncounted) - (Cardinality(Claiming) - 1)
      BY <2>3, <2>4, SetsFinite
  <2>6. QED  BY <1>2, <1>3, <1>6, <2>1, <2>2, <2>5 DEF Counts, Quiet
<1>10. QED
    BY <1>1, <1>2, <1>4, <1>5, <1>6, <1>7, <1>8, <1>9, QuietStep

LEMMA DReadHeadStep ==
    ASSUME QueueInv, NEW c \in Consumers, DReadHead(c)
    PROVE  QueueInv'
<1>1. TypeOK /\ c \in Threads /\ Quiet /\ count' = count /\ c \notin Producers
    BY QueueAssumption DEF QueueInv, DReadHead, Quiet, shared, Threads
<1>2. Goto(c, "dTail") /\ pc[c] = "dHead"
    BY DEF DReadHead
<1>3. TypeOK'
    BY <1>1 DEF TypeOK, DReadHead, Goto, shared, DequeuePcs
<1>4. cHead'[c] = head /\ \A u \in Threads : u # c => cHead'[u] = cHead[u]
    BY <1>1 DEF DReadHead, TypeOK
<1>5. pc'[c] = "dTail"
    BY <1>1, <1>2, OthersStay
<1>6. ReadsOf(c)'
    BY <1>1, <1>5 DEF ReadsOf
<1>7. "dTail" \in ClaimingPcs /\ pc[c] \in ClaimingPcs
    BY <1>2 DEF ClaimingPcs
<1>8. cTail' = cTail /\ cNext' = cNext /\ cData' = cData
    BY DEF DReadHead
<1>9. QED  BY <1>1, <1>2, <1>3, <1>4, <1>6, <1>7, <1>8, ConsumerStep

(* head and tail differ: head is behind.                                   *)
LEMMA DReadTailStep ==
    ASSUME QueueInv, NEW c \in Consumers, DReadTail(c)
    PROVE  QueueInv'
<1>1. TypeOK /\ Stale /\ c \in Threads /\ Quiet /\ count' = count /\ c \notin Producers
    BY QueueAssumption DEF QueueInv, DReadTail, Quiet, shared, Threads
<1>2. PICK x : x = IF cHead[c] = tail THEN "dTailNext" ELSE "dNext"
    OBVIOUS
<1>3. Goto(c, x) /\ pc[c] = "dTail" /\ x \in {"dTailNext", "dNext"}
    BY <1>2 DEF DReadTail
<1>4. TypeOK'
    BY <1>1, <1>3 DEF TypeOK, DReadTail, Goto, shared, DequeuePcs
<1>5. cTail'[c] = tail /\ \A u \in Threads : u # c => cTail'[u] = cTail[u]
    BY <1>1 DEF DReadTail, TypeOK
<1>6. cHead' = cHead /\ cNext' = cNext /\ cData' = cData
    BY DEF DReadTail
<1>7. pc'[c] = x
    BY <1>1, <1>3, OthersStay
<1>8. cHead[c] # tail => cHead[c].stamp < tail.stamp
  <2>1. PICK S, own, pos : Shape(S, own, pos)
      BY DEF QueueInv
  <2>2. /\ head.node \in S /\ own[head.node] = Null /\ pos[head.node] = head.stamp
        /\ tail.node \in S /\ own[tail.node] = Null /\ pos[tail.node] = tail.stamp
        /\ head.stamp <= pos[tail.node]
        /\ \A x1, y1 \in S : own[x1] = own[y1] /\ pos[x1] = pos[y1] => x1 = y1
      BY <2>1 DEF Shape, Words, Forest
  <2>3. head.stamp = tail.stamp => head = tail
    <3>1. head \in Word /\ tail \in Word
        BY <1>1 DEF TypeOK
    <3>2. head.stamp = tail.stamp => head.node = tail.node
        BY <2>2
    <3>3. QED  BY <3>1, <3>2, WordsEqual
  <2>4. cHead[c].stamp <= head.stamp /\ (cHead[c].stamp = head.stamp => cHead[c] = head)
      BY <1>1 DEF Stale
  <2>5. cHead[c].stamp \in Nat /\ head.stamp \in Nat /\ tail.stamp \in Nat
      BY <1>1 DEF TypeOK, Word
  <2>6. QED  BY <2>2, <2>3, <2>4, <2>5
<1>9. ReadsOf(c)'
  <2>1. tail' = tail
      BY <1>1 DEF Quiet
  <2>2. x = "dTailNext" => cHead[c] = tail
      BY <1>2
  <2>3. x = "dNext" => cHead[c].stamp < tail.stamp
      BY <1>2, <1>8
  <2>4. QED  BY <1>1, <1>3, <1>5, <1>6, <1>7, <2>1, <2>2, <2>3 DEF ReadsOf
<1>10. x \in ClaimingPcs /\ pc[c] \in ClaimingPcs
    BY <1>3 DEF ClaimingPcs
<1>11. QED  BY <1>1, <1>3, <1>4, <1>5, <1>6, <1>9, <1>10, ConsumerStep

LEMMA DReadTailNextStep ==
    ASSUME QueueInv, NEW c \in Consumers, DReadTailNext(c)
    PROVE  QueueInv'
<1>1. TypeOK /\ c \in Threads /\ Quiet /\ count' = count /\ c \notin Producers
    BY QueueAssumption DEF QueueInv, DReadTailNext, Quiet, shared, Threads
<1>2. PICK n : n = next[cTail[c].node]
    OBVIOUS
<1>3. PICK x : x = IF n = Null THEN "dHead" ELSE "dHelp"
    OBVIOUS
<1>4. /\ Goto(c, x) /\ pc[c] = "dTailNext" /\ x \in {"dHead", "dHelp"}
      /\ cNext' = [cNext EXCEPT ![c] = n]
    BY <1>2, <1>3 DEF DReadTailNext
<1>5. n \in Nodes \cup {Null}
    BY <1>1, <1>2 DEF TypeOK, Word
<1>6. TypeOK'
    BY <1>1, <1>4, <1>5 DEF TypeOK, DReadTailNext, Goto, shared, DequeuePcs
<1>7. cNext'[c] = n /\ \A u \in Threads : u # c => cNext'[u] = cNext[u]
    BY <1>1, <1>4 DEF TypeOK
<1>8. cHead' = cHead /\ cTail' = cTail /\ cData' = cData
    BY DEF DReadTailNext
<1>9. pc'[c] = x
    BY <1>1, <1>4, OthersStay
<1>10. ReadsOf(c)'
  <2>1. ReadsOf(c)
      BY <1>1 DEF QueueInv, Reads
  <2>2. tail' = tail /\ next' = next /\ cTail[c] = cHead[c]
      BY <1>1, <1>4, <2>1 DEF Quiet, ReadsOf
  <2>3. x = "dHelp" => n # Null
      BY <1>3
  <2>4. QED  BY <1>1, <1>2, <1>4, <1>7, <1>8, <1>9, <2>2, <2>3 DEF ReadsOf
<1>11. x \in ClaimingPcs /\ pc[c] \in ClaimingPcs
    BY <1>4 DEF ClaimingPcs
<1>12. QED  BY <1>1, <1>4, <1>6, <1>7, <1>8, <1>10, <1>11, ConsumerStep

LEMMA DReadNextStep ==
    ASSUME QueueInv, NEW c \in Consumers, DReadNext(c)
    PROVE  QueueInv'
<1>1. TypeOK /\ c \in Threads /\ Quiet /\ count' = count /\ c \notin Producers
    BY QueueAssumption DEF QueueInv, DReadNext, Quiet, shared, Threads
<1>2. PICK n : n = next[cHead[c].node]
    OBVIOUS
<1>3. PICK x : x = IF n = Null THEN "dHead" ELSE "dData"
    OBVIOUS
<1>4. /\ Goto(c, x) /\ pc[c] = "dNext" /\ x \in {"dHead", "dData"}
      /\ cNext' = [cNext EXCEPT ![c] = n]
    BY <1>2, <1>3 DEF DReadNext
<1>5. n \in Nodes \cup {Null}
    BY <1>1, <1>2 DEF TypeOK, Word
<1>6. TypeOK'
    BY <1>1, <1>4, <1>5 DEF TypeOK, DReadNext, Goto, shared, DequeuePcs
<1>7. cNext'[c] = n /\ \A u \in Threads : u # c => cNext'[u] = cNext[u]
    BY <1>1, <1>4 DEF TypeOK
<1>8. cHead' = cHead /\ cTail' = cTail /\ cData' = cData
    BY DEF DReadNext
<1>9. pc'[c] = x
    BY <1>1, <1>4, OthersStay
<1>10. ReadsOf(c)'
  <2>1. ReadsOf(c)
      BY <1>1 DEF QueueInv, Reads
  <2>2. head' = head /\ tail' = tail /\ next' = next /\ cHead[c].stamp < tail.stamp
      BY <1>1, <1>4, <2>1 DEF Quiet, ReadsOf
  <2>3. x = "dData" => n # Null
      BY <1>3
  <2>4. QED  BY <1>1, <1>2, <1>4, <1>7, <1>8, <1>9, <2>2, <2>3 DEF ReadsOf
<1>11. x \in ClaimingPcs /\ pc[c] \in ClaimingPcs
    BY <1>4 DEF ClaimingPcs
<1>12. QED  BY <1>1, <1>4, <1>6, <1>7, <1>8, <1>10, <1>11, ConsumerStep

LEMMA DReadDataStep ==
    ASSUME QueueInv, NEW c \in Consumers, DReadData(c)
    PROVE  QueueInv'
<1>1. TypeOK /\ c \in Threads /\ Quiet /\ count' = count /\ c \notin Producers
    BY QueueAssumption DEF QueueInv, DReadData, Quiet, shared, Threads
<1>2. Goto(c, "take") /\ pc[c] = "dData" /\ cData' = [cData EXCEPT ![c] = data[cNext[c]]]
    BY DEF DReadData
<1>3. ReadsOf(c)
    BY <1>1 DEF QueueInv, Reads
<1>4. data[cNext[c]] \in Item \cup {NoItem}
  <2>1. cNext[c] \in Nodes
      BY <1>1, <1>2, <1>3 DEF TypeOK, ReadsOf
  <2>2. QED  BY <1>1, <2>1 DEF TypeOK
<1>5. TypeOK'
    BY <1>1, <1>2, <1>4 DEF TypeOK, DReadData, Goto, shared, DequeuePcs
<1>6. cData'[c] = data[cNext[c]] /\ \A u \in Threads : u # c => cData'[u] = cData[u]
    BY <1>1, <1>2 DEF TypeOK
<1>7. cHead' = cHead /\ cTail' = cTail /\ cNext' = cNext
    BY DEF DReadData
<1>8. pc'[c] = "take"
    BY <1>1, <1>2, OthersStay
<1>9. ReadsOf(c)'
    BY <1>1, <1>2, <1>3, <1>6, <1>7, <1>8 DEF ReadsOf, Quiet
<1>10. "take" \in ClaimingPcs /\ pc[c] \in ClaimingPcs
    BY <1>2 DEF ClaimingPcs
<1>11. QED  BY <1>1, <1>2, <1>5, <1>6, <1>7, <1>9, <1>10, ConsumerStep

(* The compare-exchange of head fails: start again.                        *)
LEMMA TakeFails ==
    ASSUME QueueInv, NEW c \in Consumers, pc[c] = "take", Goto(c, "dHead"),
           UNCHANGED <<shared, locals, made, got>>
    PROVE  QueueInv'
<1>1. TypeOK /\ c \in Threads /\ Quiet /\ count' = count /\ c \notin Producers
    BY QueueAssumption DEF QueueInv, Quiet, shared, locals, Threads
<1>2. TypeOK'
    BY <1>1 DEF TypeOK, Goto, shared, locals, DequeuePcs
<1>3. pc'[c] = "dHead"
    BY <1>1, OthersStay
<1>4. ReadsOf(c)'
    BY <1>1, <1>3 DEF ReadsOf
<1>5. "dHead" \in ClaimingPcs /\ pc[c] \in ClaimingPcs
    BY DEF ClaimingPcs
<1>6. cHead' = cHead /\ cTail' = cTail /\ cNext' = cNext /\ cData' = cData
    BY DEF locals
<1>7. QED  BY <1>1, <1>2, <1>4, <1>5, <1>6, ConsumerStep

LEMMA DHelpStep ==
    ASSUME QueueInv, NEW c \in Consumers, DHelp(c)
    PROVE  QueueInv'
<1>1. PICK S, own, pos : Shape(S, own, pos)
    BY DEF QueueInv
<1>2. TypeOK /\ Roles /\ Bound /\ Stale /\ Reads /\ c \in Threads /\ c \notin Producers
    BY QueueAssumption DEF QueueInv, Threads
<1>3. Goto(c, "dNext") /\ pc[c] = "dHelp" /\ CasTail(c, cNext[c])
    BY DEF DHelp
<1>4. pc'[c] = "dNext" /\ \A u \in Threads : u # c => pc'[u] = pc[u]
    BY <1>2, <1>3, OthersStay
<1>5. ReadsOf(c)
    BY <1>2 DEF Reads
<1>6. cNext[c] # Null /\ (cTail[c] = tail => next[tail.node] = cNext[c]) /\ cTail[c] = cHead[c]
    BY <1>3, <1>5 DEF ReadsOf
<1>7. TypeOK'
  <2>1. cNext[c] \in Nodes
      BY <1>2, <1>6 DEF TypeOK
  <2>2. tail' \in Word
      BY <1>2, <1>3, <2>1 DEF CasTail, Moved, TypeOK, Word
  <2>3. QED  BY <1>2, <2>2 DEF TypeOK, DHelp, Goto, locals, DequeuePcs
<1>8. Roles'
    BY <1>2, <1>3, RolesStep DEF DequeuePcs
<1>9. /\ Pending' = Pending /\ Uncounted' = Uncounted /\ Claiming' = Claiming
      /\ Freeing' = Freeing /\ c \notin Pending
  <2>1. c \notin Freeing /\ c \in Claiming /\ "dNext" \in ClaimingPcs /\ c \notin Pending
      BY <1>2, <1>3 DEF ClaimingPcs, Freeing, Claiming, Pending
  <2>2. QED  BY <1>2, <1>3, <2>1, ConsumerSets
<1>10. ButTail /\ node' = node
    BY DEF DHelp, locals, ButTail
<1>11. ReadsOf(c)'
  <2>1. cHead[c].stamp < tail'.stamp
    <3>1. cTail[c].stamp \in Nat /\ tail.stamp \in Nat
        BY <1>2 DEF TypeOK, Word
    <3>2. cTail[c].stamp <= tail.stamp /\ (cTail[c].stamp = tail.stamp => cTail[c] = tail)
        BY <1>2 DEF Stale
    <3>3. tail' = tail \/ tail'.stamp = tail.stamp + 1
        BY <1>3 DEF CasTail, Moved
    <3>4. cTail[c] = tail => tail'.stamp = tail.stamp + 1
        BY <1>3 DEF CasTail, Moved
    <3>5. QED  BY <1>6, <3>1, <3>2, <3>3, <3>4
  <2>2. QED  BY <1>2, <1>4, <1>10, <2>1 DEF ReadsOf, ButTail
<1>12. QED
    BY <1>1, <1>2, <1>3, <1>4, <1>6, <1>7, <1>8, <1>9, <1>10, <1>11, TailStep

(* The dummy leaves the queue, and the node that follows is the new dummy. *)
LEMMA TakeSucceeds ==
    ASSUME QueueInv, NEW c \in Consumers, pc[c] = "take", head = cHead[c],
           head' = Moved(head, cNext[c]), got' = Append(got, cData[c]), Goto(c, "free"),
           UNCHANGED <<tail, next, data, count, pool, fresh, locals, made>>
    PROVE  QueueInv'
<1>1. PICK S, own, pos : Shape(S, own, pos)
    BY DEF QueueInv
<1>2. TypeOK /\ Roles /\ Bound /\ Stale /\ Reads /\ c \in Threads /\ c \notin Producers
    BY QueueAssumption DEF QueueInv, Threads
<1>3. /\ Forest(S, own, pos) /\ Ends(S) /\ Words(S, own, pos) /\ Roots(S, own, pos)
      /\ Outside(S) /\ Order(S, own) /\ Items(S) /\ Counts(S)
    BY <1>1 DEF Shape
<1>4. pc'[c] = "free" /\ \A u \in Threads : u # c => pc'[u] = pc[u]
    BY <1>2, OthersStay
<1>5. PICK h : h = head.node
    OBVIOUS
<1>6. PICK n : n = cNext[c]
    OBVIOUS
<1>7. PICK e : e = cData[c]
    OBVIOUS
<1>8. n # Null /\ next[h] = n /\ e = data[n] /\ head.stamp < tail.stamp
  <2>1. ReadsOf(c)  BY <1>2 DEF Reads
  <2>2. QED  BY <1>5, <1>6, <1>7, <2>1 DEF ReadsOf
<1>9. /\ S \subseteq Nodes /\ own \in [Nodes -> Nodes \cup {Null}] /\ pos \in [Nodes -> Nat]
      /\ \A x \in S : next[x] # Null =>
            next[x] \in S /\ own[next[x]] = own[x] /\ pos[next[x]] = pos[x] + 1
      /\ \A x, y \in S : own[x] = own[y] /\ pos[x] = pos[y] => x = y
      /\ \A x, y \in S : own[x] = own[y] /\ next[x] = Null => pos[y] <= pos[x]
    BY <1>3 DEF Forest
<1>10. /\ h \in S /\ own[h] = Null /\ pos[h] = head.stamp
       /\ tail.node \in S /\ own[tail.node] = Null /\ pos[tail.node] = tail.stamp
       /\ \A x \in S : own[x] = Null => head.stamp <= pos[x]
    BY <1>3, <1>5 DEF Words
<1>11. head.stamp \in Nat /\ tail.stamp \in Nat
    BY <1>2 DEF TypeOK, Word
<1>12. n \in S /\ n \in Nodes /\ own[n] = Null /\ pos[n] = head.stamp + 1 /\ n # h
    BY <1>8, <1>9, <1>10, <1>11
<1>13. head'.node = n /\ head'.stamp = head.stamp + 1
    BY <1>6 DEF Moved
<1>14. PICK S2 : S2 = S \ {h}
    OBVIOUS
<1>15. /\ e \in Asked /\ e \in Item
  <2>1. e \in Asked
      BY <1>3, <1>5, <1>8, <1>12 DEF Items
  <2>2. QED  BY <2>1 DEF Asked
<1>16. /\ tail' = tail /\ next' = next /\ data' = data /\ count' = count /\ pool' = pool
       /\ fresh' = fresh /\ node' = node /\ cHead' = cHead /\ cTail' = cTail /\ cNext' = cNext
       /\ cData' = cData /\ made' = made /\ Asked' = Asked
    BY DEF locals, Asked
<1>17. TypeOK' /\ Roles'
  <2>1. head' \in Word
      BY <1>6, <1>11, <1>12 DEF Moved, Word
  <2>2. got' \in Seq(Item)
      BY <1>2, <1>7, <1>15 DEF TypeOK
  <2>3. pc' \in [Threads -> EnqueuePcs \cup DequeuePcs]
      BY <1>2 DEF TypeOK, Goto, DequeuePcs
  <2>4. TypeOK'
      BY <1>2, <1>16, <2>1, <2>2, <2>3 DEF TypeOK
  <2>5. Roles'
      BY <1>2, RolesStep DEF DequeuePcs
  <2>6. QED  BY <2>4, <2>5
<1>18. /\ Pending' = Pending /\ Uncounted' = Uncounted /\ Claiming' = Claiming \ {c}
       /\ c \in Claiming /\ Freeing' = Freeing \cup {c}
  <2>1. c \in Claiming /\ "free" \notin ClaimingPcs
      BY DEF ClaimingPcs, Claiming
  <2>2. QED  BY <1>2, <2>1, ConsumerSets
<1>19. \A x \in S2 : x \in S /\ x # h /\ x \in Nodes /\ pos[x] \in Nat
    BY <1>9, <1>14
<1>20. Forest(S2, own, pos)'
  <2>1. ASSUME NEW x \in S2, next[x] # Null
        PROVE  next[x] \in S2 /\ own[next[x]] = own[x] /\ pos[next[x]] = pos[x] + 1
    <3>1. next[x] \in S /\ own[next[x]] = own[x] /\ pos[next[x]] = pos[x] + 1
        BY <1>9, <1>19, <2>1
    <3>2. next[x] # h
      <4>1. SUFFICES ASSUME next[x] = h PROVE FALSE
          OBVIOUS
      <4>2. head.stamp <= pos[x] /\ head.stamp = pos[x] + 1
          BY <1>10, <1>19, <3>1, <4>1
      <4>3. QED  BY <1>11, <1>19, <4>2
    <3>3. QED  BY <1>14, <3>1, <3>2
  <2>2. S2 \subseteq Nodes /\ S2 \subseteq S
      BY <1>9, <1>14
  <2>3. QED  BY <1>9, <1>16, <2>1, <2>2 DEF Forest
<1>21. Ends(S2)'
    BY <1>3, <1>8, <1>14, <1>16 DEF Ends
<1>22. Words(S2, own, pos)'
  <2>1. n \in S2
      BY <1>12, <1>14
  <2>2. tail.node \in S2
      BY <1>8, <1>10, <1>11, <1>14
  <2>3. ASSUME NEW x \in S2, own[x] = Null PROVE head.stamp + 1 <= pos[x]
    <3>1. head.stamp <= pos[x] /\ pos[x] # head.stamp
        BY <1>9, <1>10, <1>19, <2>3
    <3>2. QED  BY <1>11, <1>19, <3>1
  <2>4. QED  BY <1>10, <1>12, <1>13, <1>16, <2>1, <2>2, <2>3 DEF Words
<1>23. \A q \in Pending : node[q] # h /\ node[q] # Null /\ node[q] \in S
  <2>1. \A q \in Pending : node[q] \in S /\ own[node[q]] = node[q]
      BY <1>3 DEF Roots
  <2>2. Null \notin S
      BY <1>9, NodesNat
  <2>3. QED  BY <1>10, <2>1, <2>2
<1>24. Roots(S2, own, pos)'
  <2>1. \A q \in Pending : node[q] \in S2 /\ own[node[q]] = node[q] /\ pos[node[q]] = 0
      BY <1>3, <1>14, <1>23 DEF Roots
  <2>2. ASSUME NEW x \in S2, x # n, ~ \E q \in Pending : x = node[q]
        PROVE  \E m \in S2 : next[m] = x
    <3>1. PICK m \in S : next[m] = x
        BY <1>3, <1>5, <1>19, <2>2 DEF Roots
    <3>2. m # h
        BY <1>8, <2>2, <3>1
    <3>3. QED  BY <1>14, <3>1, <3>2
  <2>3. \A q, s \in Pending : node[q] = node[s] => q = s
      BY <1>3 DEF Roots
  <2>4. \A x \in S2 : own[x] # Null => \E q \in Pending : own[x] = node[q]
      BY <1>3, <1>19 DEF Roots
  <2>5. QED  BY <1>13, <1>16, <1>18, <2>1, <2>2, <2>3, <2>4 DEF Roots
<1>25. Outside(S2)'
  <2>1. /\ \A i \in DOMAIN pool : pool[i] < fresh /\ pool[i] \notin S
        /\ \A i, j \in DOMAIN pool : pool[i] = pool[j] => i = j
        /\ \A d \in Freeing : /\ cHead[d].node \notin S
                              /\ \A i \in DOMAIN pool : cHead[d].node # pool[i]
        /\ \A a, d \in Freeing : cHead[a].node = cHead[d].node => a = d
      BY <1>3 DEF Outside
  <2>2. cHead[c].node = h
      BY <1>5
  <2>3. \A d \in Freeing' : d = c \/ d \in Freeing
      BY <1>18
  <2>4. \A d \in Freeing' : cHead[d].node \notin S2 /\ \A i \in DOMAIN pool : cHead[d].node # pool[i]
      BY <1>10, <1>14, <2>1, <2>2, <2>3
  <2>5. \A a, d \in Freeing' : cHead[a].node = cHead[d].node => a = d
      BY <1>10, <2>1, <2>2, <2>3
  <2>6. \A i \in DOMAIN pool : pool[i] < fresh /\ pool[i] \notin S2
      BY <1>14, <2>1
  <2>7. QED  BY <1>16, <2>1, <2>4, <2>5, <2>6 DEF Outside
<1>26. Order(S2, own)'
  <2>1. ASSUME NEW q \in Pending'
        PROVE  q \in Pending /\ node'[q] = node[q] /\ node[q] # Null /\ LinkBefore(q) <= LinkBefore(q)'
    <3>1. q \in Pending /\ q \in Threads /\ q # c
        BY <1>2, <1>18 DEF Pending, Threads
    <3>2. LinkBefore(q)' = LinkBefore(q) /\ LinkBefore(q) \in Nat
        BY <1>2, <1>4, <1>16, <3>1 DEF LinkBefore, TypeOK, Word
    <3>3. QED  BY <1>16, <1>23, <3>1, <3>2
  <2>2. S2 \subseteq S
      BY <1>14
  <2>3. QED  BY <1>2, <1>3, <1>16, <1>17, <2>1, <2>2, OrderStep
<1>27. Items(S2)'
  <2>1. /\ \A x \in S \ {h} : data[x] \in Asked /\ \A i \in DOMAIN got : got[i] # data[x]
        /\ \A x, y \in S \ {h} : data[x] = data[y] => x = y
        /\ \A f \in Asked : \/ \E i \in DOMAIN got : got[i] = f
                            \/ \E x \in S \ {h} : data[x] = f
        /\ \A i, j \in DOMAIN got : got[i] = got[j] => i = j
        /\ \A i \in DOMAIN got : got[i] \in Asked
      BY <1>3, <1>5 DEF Items
  <2>2. PICK k \in Nat : k = Len(got) /\ DOMAIN got = 1..k
      BY <1>2 DEF TypeOK
  <2>3. PICK g : g = got'
      OBVIOUS
  <2>4. DOMAIN g = 1..(k + 1) /\ g[k + 1] = e /\ \A i \in 1..k : g[i] = got[i]
      BY <1>2, <1>7, <1>15, <2>2, <2>3 DEF TypeOK
  <2>5. \A x \in S2 \ {n} : x \in S \ {h} /\ data[x] # e
      BY <1>8, <1>12, <1>14, <2>1
  <2>6. \A i \in DOMAIN g : (i = k + 1 /\ g[i] = e) \/ (i \in DOMAIN got /\ g[i] = got[i])
      BY <2>2, <2>4
  <2>7. \A x \in S2 \ {n} : data[x] \in Asked /\ \A i \in DOMAIN g : g[i] # data[x]
      BY <2>1, <2>5, <2>6
  <2>8. \A x, y \in S2 \ {n} : data[x] = data[y] => x = y
      BY <2>1, <2>5
  <2>9. ASSUME NEW f \in Asked, ~ \E i \in DOMAIN g : g[i] = f
        PROVE  \E x \in S2 \ {n} : data[x] = f
    <3>1. f # e
        BY <2>4, <2>9
    <3>2. ~ \E i \in DOMAIN got : got[i] = f
        BY <2>2, <2>4, <2>9
    <3>3. PICK x \in S \ {h} : data[x] = f
        BY <2>1, <3>2
    <3>4. x # n
        BY <1>8, <3>1, <3>3
    <3>5. QED  BY <1>14, <3>3, <3>4
  <2>10. \A i, j \in DOMAIN g : g[i] = g[j] => i = j
    <3>1. \A i \in DOMAIN got : got[i] # e
        BY <1>8, <1>12, <2>1
    <3>2. QED  BY <2>1, <2>6, <3>1
  <2>11. \A i \in DOMAIN g : g[i] \in Asked
      BY <1>15, <2>1, <2>6
  <2>12. QED  BY <1>13, <1>16, <2>3, <2>7, <2>8, <2>9, <2>10, <2>11 DEF Items
<1>28. Counts(S2)'
  <2>1. PICK k : k = Cardinality(S \ {h})
      OBVIOUS
  <2>2. IsFiniteSet(S \ {h}) /\ k \in Nat
      BY <1>9, <2>1, LiveFinite
  <2>3. S2 \ {n} = (S \ {h}) \ {n} /\ n \in S \ {h}
      BY <1>12, <1>14
  <2>4. Cardinality(S2 \ {n}) = k - 1
      BY <2>1, <2>2, <2>3, FS_RemoveElement
  <2>5. Cardinality(Claiming') = Cardinality(Claiming) - 1
      BY <1>18, SetsFinite, FS_RemoveElement
  <2>6. count = k - Cardinality(Uncounted) - Cardinality(Claiming)
      BY <1>3, <1>5, <2>1 DEF Counts
  <2>7. count = (k - 1) - Cardinality(Uncounted) - (Cardinality(Claiming) - 1)
      BY <2>2, <2>6, SetsFinite
  <2>8. QED  BY <1>13, <1>16, <1>18, <2>4, <2>5, <2>7 DEF Counts
<1>29. Bound'
    BY <1>2, <1>16 DEF Bound
<1>30. Forward(S)
  <2>1. fresh \in Nat  BY <1>2 DEF TypeOK
  <2>2. QED  BY <1>13, <1>16, <2>1 DEF Forward
<1>31. Stale'
  <2>1. head.node < fresh /\ tail.node < fresh
      BY <1>3 DEF Words, Ends
  <2>2. QED  BY <1>2, <1>16, <1>17, <1>30, <2>1, StaleStep
<1>32. Reads'
  <2>1. ReadsOf(c)'
      BY <1>2, <1>4 DEF ReadsOf
  <2>2. QED  BY <1>2, <1>3, <1>4, <1>16, <1>30, <2>1, ReadsStep
<1>33. Shape(S2, own, pos)'
    BY <1>20, <1>21, <1>22, <1>24, <1>25, <1>26, <1>27, <1>28 DEF Shape
<1>34. QED  BY <1>17, <1>29, <1>31, <1>32, <1>33 DEF QueueInv

LEMMA TakeStep ==
    ASSUME QueueInv, NEW c \in Consumers, Take(c)
    PROVE  QueueInv'
<1>1. CASE head = cHead[c]
    BY <1>1, TakeSucceeds DEF Take
<1>2. CASE head # cHead[c]
    BY <1>2, TakeFails DEF Take, shared
<1>3. QED  BY <1>1, <1>2

LEMMA FreeStep ==
    ASSUME QueueInv, NEW c \in Consumers, Free(c)
    PROVE  QueueInv'
<1>1. PICK S, own, pos : Shape(S, own, pos)
    BY DEF QueueInv
<1>2. TypeOK /\ Roles /\ Bound /\ Stale /\ Reads /\ c \in Threads /\ c \notin Producers
    BY QueueAssumption DEF QueueInv, Threads
<1>3. /\ Forest(S, own, pos) /\ Ends(S) /\ Words(S, own, pos) /\ Roots(S, own, pos)
      /\ Outside(S) /\ Order(S, own) /\ Items(S) /\ Counts(S)
    BY <1>1 DEF Shape
<1>4. Goto(c, "claim") /\ pc[c] = "free"
    BY DEF Free
<1>5. pc'[c] = "claim" /\ \A u \in Threads : u # c => pc'[u] = pc[u]
    BY <1>2, <1>4, OthersStay
<1>6. PICK h : h = cHead[c].node
    OBVIOUS
<1>7. h \in Nodes /\ h < fresh /\ pool \in Seq(Nodes)
    BY <1>2, <1>6 DEF TypeOK, Word, Stale
<1>8. PICK s : s = <<h>> \o pool
    OBVIOUS
<1>9. /\ pool' = s /\ s \in Seq(Nodes)
      /\ \A i \in DOMAIN s : (i = 1 /\ s[i] = h) \/ (i - 1 \in DOMAIN pool /\ s[i] = pool[i - 1] /\ i \in Nat)
    BY <1>6, <1>7, <1>8, PoolPut DEF Free
<1>10. /\ head' = head /\ tail' = tail /\ next' = next /\ data' = data /\ count' = count
       /\ fresh' = fresh /\ node' = node /\ cHead' = cHead /\ cTail' = cTail /\ cNext' = cNext
       /\ cData' = cData /\ made' = made /\ got' = got /\ Asked' = Asked
    BY DEF Free, locals, Asked
<1>11. TypeOK' /\ Roles'
  <2>1. pc' \in [Threads -> EnqueuePcs \cup DequeuePcs]
      BY <1>2, <1>4 DEF TypeOK, Goto, DequeuePcs
  <2>2. TypeOK'
      BY <1>2, <1>9, <1>10, <2>1 DEF TypeOK
  <2>3. Roles'
      BY <1>2, <1>4, RolesStep DEF DequeuePcs
  <2>4. QED  BY <2>2, <2>3
<1>12. /\ Pending' = Pending /\ Uncounted' = Uncounted /\ Claiming' = Claiming
       /\ c \in Freeing /\ Freeing' = Freeing \ {c}
  <2>1. c \in Freeing /\ c \notin Claiming /\ "claim" \notin ClaimingPcs
      BY <1>4 DEF ClaimingPcs, Claiming, Freeing
  <2>2. Claiming' = Claiming \ {c} /\ Freeing' = Freeing \ {c} /\ Pending' = Pending /\ Uncounted' = Uncounted
      BY <1>2, <1>4, <2>1, ConsumerSets
  <2>3. QED  BY <2>1, <2>2
<1>13. Forest(S, own, pos)' /\ Ends(S)' /\ Words(S, own, pos)' /\ Roots(S, own, pos)'
  <2>1. Forest(S, own, pos)'  BY <1>3, <1>10 DEF Forest
  <2>2. Ends(S)'  BY <1>3, <1>10 DEF Ends
  <2>3. Words(S, own, pos)'  BY <1>3, <1>10 DEF Words
  <2>4. Roots(S, own, pos)'  BY <1>3, <1>10, <1>12 DEF Roots
  <2>5. QED  BY <2>1, <2>2, <2>3, <2>4
<1>14. Outside(S)'
  <2>1. /\ \A i \in DOMAIN pool : pool[i] < fresh /\ pool[i] \notin S
        /\ \A i, j \in DOMAIN pool : pool[i] = pool[j] => i = j
        /\ \A d \in Freeing : /\ cHead[d].node \notin S
                              /\ \A i \in DOMAIN pool : cHead[d].node # pool[i]
        /\ \A a, d \in Freeing : cHead[a].node = cHead[d].node => a = d
      BY <1>3 DEF Outside
  <2>2. h \notin S /\ \A i \in DOMAIN pool : h # pool[i]
      BY <1>6, <1>12, <2>1
  <2>3. \A i \in DOMAIN s : s[i] < fresh /\ s[i] \notin S
      BY <1>7, <1>9, <2>1, <2>2
  <2>4. \A i, j \in DOMAIN s : s[i] = s[j] => i = j
    <3>1. SUFFICES ASSUME NEW i \in DOMAIN s, NEW j \in DOMAIN s, s[i] = s[j] PROVE i = j
        OBVIOUS
    <3>2. CASE i = 1 \/ j = 1
      <4>1. \A k \in DOMAIN s : k # 1 => s[k] # h
          BY <1>9, <2>2
      <4>2. \A k \in DOMAIN s : k = 1 => s[k] = h
        <5>1. \A k \in DOMAIN pool : k # 0
            BY <1>7
        <5>2. QED  BY <1>9, <5>1
      <4>3. QED  BY <3>1, <3>2, <4>1, <4>2
    <3>3. CASE i # 1 /\ j # 1
      <4>1. i - 1 = j - 1 /\ i \in Nat /\ j \in Nat
          BY <1>9, <2>1, <3>1, <3>3
      <4>2. QED  BY <4>1
    <3>4. QED  BY <3>2, <3>3
  <2>5. \A d \in Freeing' : cHead[d].node \notin S /\ cHead[d].node # h
      BY <1>6, <1>12, <2>1
  <2>6. \A d \in Freeing' : \A i \in DOMAIN s : cHead[d].node # s[i]
      BY <1>9, <1>12, <2>1, <2>5
  <2>7. \A a, d \in Freeing' : cHead[a].node = cHead[d].node => a = d
      BY <1>12, <2>1
  <2>8. QED  BY <1>9, <1>10, <2>3, <2>4, <2>5, <2>6, <2>7 DEF Outside
<1>15. Items(S)' /\ Counts(S)' /\ Bound' /\ Stale'
  <2>1. Items(S)'  BY <1>3, <1>10 DEF Items
  <2>2. Counts(S)'  BY <1>3, <1>10, <1>12 DEF Counts
  <2>3. Bound'  BY <1>2, <1>10 DEF Bound
  <2>4. Stale'  BY <1>2, <1>10 DEF Stale
  <2>5. QED  BY <2>1, <2>2, <2>3, <2>4
<1>16. Order(S, own)'
  <2>1. ASSUME NEW q \in Pending PROVE LinkBefore(q)' = LinkBefore(q)
    <3>1. q \in Threads /\ q # c
        BY <1>2 DEF Pending, Threads
    <3>2. QED  BY <1>5, <1>10, <3>1 DEF LinkBefore
  <2>2. QED  BY <1>3, <1>10, <1>12, <2>1 DEF Order
<1>17. Reads'
  <2>1. Forward(S)
    <3>1. fresh \in Nat  BY <1>2 DEF TypeOK
    <3>2. QED  BY <1>10, <3>1 DEF Forward
  <2>2. ReadsOf(c)'
      BY <1>2, <1>5 DEF ReadsOf
  <2>3. QED  BY <1>2, <1>3, <1>5, <1>10, <2>1, <2>2, ReadsStep
<1>18. Shape(S, own, pos)'
    BY <1>13, <1>14, <1>15, <1>16 DEF Shape
<1>19. QED  BY <1>11, <1>15, <1>17, <1>18 DEF QueueInv

-----------------------------------------------------------------------------
(***************************************************************************)
(* The walk along the queue.                                               *)
(***************************************************************************)

IsWalk(f) ==
    f = [i \in 0..Cardinality(Nodes) |->
            IF i = 0 THEN head.node ELSE IF f[i - 1] = Null THEN Null ELSE next[f[i - 1]]]

(* Two walks are the same.                                                 *)
LEMMA WalkUnique ==
    ASSUME NEW f, NEW g, IsWalk(f), IsWalk(g)
    PROVE  f = g
<1>1. PICK N \in Nat : N = Cardinality(Nodes)
    BY NodesFacts
<1>2. /\ f = [i \in 0..N |-> f[i]]
      /\ \A i \in 0..N : f[i] = IF i = 0 THEN head.node
                                ELSE IF f[i - 1] = Null THEN Null ELSE next[f[i - 1]]
    BY <1>1 DEF IsWalk
<1>3. /\ g = [i \in 0..N |-> g[i]]
      /\ \A i \in 0..N : g[i] = IF i = 0 THEN head.node
                                ELSE IF g[i - 1] = Null THEN Null ELSE next[g[i - 1]]
    BY <1>1 DEF IsWalk
<1>4. SUFFICES ASSUME f # g PROVE FALSE
    OBVIOUS
<1>5. PICK D : D = {i \in 0..N : f[i] # g[i]}
    OBVIOUS
<1>6. D # {} /\ D \subseteq Nat
    BY <1>2, <1>3, <1>4, <1>5
<1>7. PICK k \in D : \A m \in D : k <= m
    BY <1>6, LeastNatural
<1>8. k \in 0..N /\ f[k] # g[k]
    BY <1>5
<1>9. CASE k = 0
    BY <1>2, <1>3, <1>8, <1>9
<1>10. CASE k # 0
  <2>1. k - 1 \in 0..N /\ k - 1 \notin D
      BY <1>7, <1>8, <1>10
  <2>2. f[k - 1] = g[k - 1]
      BY <1>5, <2>1
  <2>3. QED  BY <1>2, <1>3, <1>8, <1>10, <2>2
<1>11. QED  BY <1>9, <1>10

(* The walk comes by the nodes of the queue, in the order of their         *)
(* positions, and then it ends.                                            *)
LEMMA WalkOfQueue ==
    ASSUME TypeOK, NEW S, NEW own, NEW pos, Forest(S, own, pos), Words(S, own, pos), Roots(S, own, pos)
    PROVE  Walk[Cardinality(Nodes)] = Null /\ Listed = {n \in S : own[n] = Null}
<1>1. PICK N \in Nat : N = Cardinality(Nodes) /\ IsFiniteSet(Nodes)
    BY NodesFacts
<1>2. PICK h : h = head.stamp
    OBVIOUS
<1>3. PICK M : M = {n \in S : own[n] = Null}
    OBVIOUS
<1>4. h \in Nat /\ head.node \in M /\ pos[head.node] = h
    BY <1>2, <1>3 DEF TypeOK, Word, Words
<1>5. \A n \in M : n \in Nodes /\ n # Null /\ pos[n] \in Nat /\ h <= pos[n]
    BY <1>2, <1>3, NodesNat DEF Forest, Words
<1>6. \A n, m \in M : pos[n] = pos[m] => n = m
    BY <1>3 DEF Forest
<1>7. \A n \in M : next[n] # Null => next[n] \in M /\ pos[next[n]] = pos[n] + 1
    BY <1>3 DEF Forest
<1>8. \A n, m \in M : next[n] = Null => pos[m] <= pos[n]
    BY <1>3 DEF Forest
<1>9. ASSUME NEW n \in M, n # head.node
      PROVE  \E m \in M : next[m] = n /\ pos[n] = pos[m] + 1
  <2>1. \A p \in Pending : n # node[p]
      BY <1>3, <1>5, <1>9 DEF Roots
  <2>2. PICK m \in S : next[m] = n
      BY <1>3, <1>9, <2>1 DEF Roots
  <2>3. own[m] = Null /\ pos[n] = pos[m] + 1
      BY <1>3, <1>5, <2>2 DEF Forest
  <2>4. QED  BY <1>3, <2>2, <2>3
<1>10. PICK f : f = [i \in 0..N |-> IF \E n \in M : pos[n] = h + i
                                    THEN CHOOSE n \in M : pos[n] = h + i ELSE Null]
    OBVIOUS
<1>11. \A i \in 0..N : \/ f[i] \in M /\ pos[f[i]] = h + i
                       \/ f[i] = Null /\ \A n \in M : pos[n] # h + i
    BY <1>10
<1>12. \A i \in 0..N : \A n \in M : pos[n] = h + i => f[i] = n
    BY <1>6, <1>11
<1>13. f[0] = head.node
    BY <1>1, <1>4, <1>12
<1>14. ASSUME NEW i \in 0..N, i # 0
       PROVE  f[i] = IF f[i - 1] = Null THEN Null ELSE next[f[i - 1]]
  <2>1. i - 1 \in 0..N /\ h + i = (h + (i - 1)) + 1
      BY <1>4, <1>14
  <2>2. CASE f[i - 1] = Null
    <3>1. \A n \in M : pos[n] # h + (i - 1)
        BY <1>5, <1>11, <2>1, <2>2
    <3>2. ASSUME NEW n \in M, pos[n] = h + i PROVE FALSE
      <4>1. n # head.node
          BY <1>4, <1>14, <3>2
      <4>2. PICK m \in M : pos[n] = pos[m] + 1
          BY <1>9, <4>1
      <4>3. pos[m] = h + (i - 1)
          BY <1>4, <1>5, <1>14, <2>1, <3>2, <4>2
      <4>4. QED  BY <3>1, <4>3
    <3>3. f[i] = Null
        BY <1>11, <3>2
    <3>4. QED  BY <2>2, <3>3
  <2>3. CASE f[i - 1] # Null
    <3>1. f[i - 1] \in M /\ pos[f[i - 1]] = h + (i - 1)
        BY <1>11, <2>1, <2>3
    <3>2. CASE next[f[i - 1]] # Null
      <4>1. next[f[i - 1]] \in M /\ pos[next[f[i - 1]]] = h + i
          BY <1>7, <2>1, <3>1, <3>2
      <4>2. QED  BY <1>12, <2>3, <4>1
    <3>3. CASE next[f[i - 1]] = Null
      <4>1. \A m \in M : pos[m] <= h + (i - 1)
          BY <1>8, <3>1, <3>3
      <4>2. \A m \in M : pos[m] # h + i
          BY <1>4, <1>5, <1>14, <4>1
      <4>3. f[i] = Null
          BY <1>11, <4>2
      <4>4. QED  BY <2>3, <3>3, <4>3
    <3>4. QED  BY <3>2, <3>3
  <2>4. QED  BY <2>2, <2>3
<1>15. IsWalk(f)
  <2>1. \A i \in 0..N : f[i] = IF i = 0 THEN head.node
                               ELSE IF f[i - 1] = Null THEN Null ELSE next[f[i - 1]]
      BY <1>13, <1>14
  <2>2. f = [i \in 0..N |-> f[i]]
      BY <1>10
  <2>3. QED  BY <1>1, <2>1, <2>2 DEF IsWalk
<1>16. Walk = f
  <2>1. Walk = CHOOSE g : IsWalk(g)
      BY DEF Walk, IsWalk
  <2>2. IsWalk(Walk)
      BY <1>15, <2>1
  <2>3. QED  BY <1>15, <2>2, WalkUnique
<1>17. f[N] = Null
  <2>1. SUFFICES ASSUME f[N] # Null PROVE FALSE
      OBVIOUS
  <2>2. ASSUME NEW j \in 0..N, f[j] = Null PROVE FALSE
    <3>1. PICK D : D = {i \in 0..N : j <= i /\ f[i] # Null}
        OBVIOUS
    <3>2. D \subseteq Nat /\ N \in D
        BY <2>1, <2>2, <3>1
    <3>3. PICK k \in D : \A m \in D : k <= m
        BY <3>2, LeastNatural
    <3>4. k \in 0..N /\ j <= k /\ f[k] # Null /\ k # j
        BY <2>2, <3>1
    <3>5. k # 0 /\ k - 1 \in 0..N /\ j <= k - 1 /\ k - 1 \notin D
        BY <2>2, <3>3, <3>4
    <3>6. f[k - 1] = Null
        BY <3>1, <3>5
    <3>7. QED  BY <1>14, <3>4, <3>5, <3>6
  <2>3. \A i \in 0..N : f[i] \in M /\ pos[f[i]] = h + i
      BY <1>11, <2>2
  <2>4. \A i, j \in 0..N : f[i] = f[j] => i = j
      BY <1>4, <2>3
  <2>5. f \in [0..N -> Nodes]
      BY <1>5, <1>10, <2>3
  <2>6. f \in Injection(0..N, Nodes)
      BY <2>4, <2>5 DEF Injection, IsInjective
  <2>7. IsFiniteSet(0..N) /\ Cardinality(0..N) = N + 1
    <3>1. Cardinality(0..N) = IF 0 > N THEN 0 ELSE N - 0 + 1
        BY FS_Interval
    <3>2. QED  BY <3>1, FS_Interval
  <2>8. Cardinality(0..N) <= Cardinality(Nodes)
      BY <1>1, <2>6, FS_Injection
  <2>9. QED  BY <1>1, <2>7, <2>8
<1>18. Listed = {f[i] : i \in 0..N} \ {Null}
    BY <1>10, <1>16 DEF Listed
<1>19. \A i \in 0..N : f[i] # Null => f[i] \in M
    BY <1>11
<1>20. \A n \in M : \E i \in 0..N : f[i] = n
  <2>1. SUFFICES ASSUME NEW n0 \in M, \A i \in 0..N : f[i] # n0 PROVE FALSE
      OBVIOUS
  <2>2. PICK D : D = {k \in Nat : \E n \in M : pos[n] = k /\ \A i \in 0..N : f[i] # n}
      OBVIOUS
  <2>3. D \subseteq Nat /\ pos[n0] \in D
      BY <1>5, <2>1, <2>2
  <2>4. PICK k \in D : \A m \in D : k <= m
      BY <2>3, LeastNatural
  <2>5. PICK n \in M : pos[n] = k /\ \A i \in 0..N : f[i] # n
      BY <2>2, <2>4
  <2>6. n # head.node
      BY <1>1, <1>13, <2>5
  <2>7. PICK m \in M : next[m] = n /\ pos[n] = pos[m] + 1
      BY <1>9, <2>6
  <2>8. pos[m] \in Nat /\ pos[m] \notin D
      BY <1>5, <2>4, <2>5, <2>7
  <2>9. PICK i \in 0..N : f[i] = m
      BY <2>2, <2>8
  <2>10. i # N /\ pos[m] = h + i
      BY <1>5, <1>11, <1>17, <2>9
  <2>11. i + 1 \in 0..N /\ pos[n] = h + (i + 1)
      BY <1>4, <2>7, <2>9, <2>10
  <2>12. f[i + 1] = n
      BY <1>12, <2>11
  <2>13. QED  BY <2>5, <2>11, <2>12
<1>21. Listed = M
    BY <1>5, <1>18, <1>19, <1>20
<1>22. QED  BY <1>1, <1>3, <1>16, <1>17, <1>21

-----------------------------------------------------------------------------
(***************************************************************************)
(* The theorems.                                                           *)
(***************************************************************************)

LEMMA QueueInit == Init => QueueInv
<1>1. SUFFICES ASSUME Init PROVE QueueInv
    OBVIOUS
<1>2. /\ head = [node |-> 1, stamp |-> 0] /\ tail = head
      /\ next = [n \in Nodes |-> Null] /\ data = [n \in Nodes |-> NoItem]
      /\ count = 0 /\ pool = <<>> /\ fresh = 2
      /\ pc = [t \in Threads |-> IF t \in Producers THEN "alloc" ELSE "claim"]
      /\ node = [p \in Producers |-> Null]
      /\ cHead = [t \in Threads |-> head] /\ cTail = [t \in Threads |-> head]
      /\ cNext = [t \in Threads |-> Null] /\ cData = [t \in Threads |-> NoItem]
      /\ made = [p \in Producers |-> 0] /\ got = <<>>
    BY <1>1 DEF Init
<1>3. PICK N \in Nat : Nodes = 1..(N + 1) /\ Cardinality(Nodes) = N + 1
    BY NodesFacts
<1>4. 1 \in Nodes /\ MaxItems \in Nat /\ head \in Word /\ head.node = 1 /\ head.stamp = 0
    BY <1>2, <1>3, QueueAssumption DEF Word
<1>5. /\ \A p \in Producers : p \in Threads /\ pc[p] = "alloc"
      /\ \A c \in Consumers : c \in Threads /\ pc[c] = "claim"
    BY <1>2, QueueAssumption DEF Threads
<1>6. TypeOK
  <2>1. pc \in [Threads -> EnqueuePcs \cup DequeuePcs]
      BY <1>2 DEF EnqueuePcs, DequeuePcs
  <2>2. fresh \in 1..(Cardinality(Nodes) + 1)
      BY <1>2, <1>3
  <2>3. got \in Seq(Item) /\ pool \in Seq(Nodes)
      BY <1>2
  <2>4. made \in [Producers -> 0..MaxItems] /\ node \in [Producers -> Nodes \cup {Null}]
      BY <1>2, <1>4
  <2>5. cHead \in [Threads -> Word] /\ cTail \in [Threads -> Word]
      BY <1>2, <1>4
  <2>6. next \in [Nodes -> Nodes \cup {Null}] /\ data \in [Nodes -> Item \cup {NoItem}]
      BY <1>2
  <2>7. cNext \in [Threads -> Nodes \cup {Null}] /\ cData \in [Threads -> Item \cup {NoItem}]
      BY <1>2
  <2>8. tail \in Word /\ count \in Int
      BY <1>2, <1>4
  <2>9. QED  BY <1>4, <2>1, <2>2, <2>3, <2>4, <2>5, <2>6, <2>7, <2>8 DEF TypeOK
<1>7. Roles
    BY <1>5 DEF Roles, EnqueuePcs, DequeuePcs
<1>8. Asked = {}
  <2>1. ASSUME NEW e \in Item PROVE ~(e[2] <= made[e[1]])
      BY <1>2, <1>4 DEF Item
  <2>2. QED  BY <2>1 DEF Asked
<1>9. Bound
    BY <1>2, <1>8, FS_EmptySet DEF Bound
<1>10. Stale
    BY <1>2, <1>4 DEF Stale
<1>11. Reads
    BY <1>5 DEF Reads, ReadsOf, Threads
<1>12. Pending = {} /\ Uncounted = {} /\ Claiming = {} /\ Freeing = {}
    BY <1>5 DEF Pending, Uncounted, Claiming, Freeing, PendingPcs, UncountedPcs, ClaimingPcs
<1>13. PICK own : own = [n \in Nodes |-> Null]
    OBVIOUS
<1>14. PICK pos : pos = [n \in Nodes |-> 0]
    OBVIOUS
<1>15. PICK S : S = {1}
    OBVIOUS
<1>16. Forest(S, own, pos)
    BY <1>2, <1>4, <1>13, <1>14, <1>15 DEF Forest
<1>17. Ends(S)
    BY <1>2, <1>3, <1>15 DEF Ends
<1>18. Words(S, own, pos)
    BY <1>2, <1>4, <1>13, <1>14, <1>15 DEF Words
<1>19. Roots(S, own, pos)
    BY <1>4, <1>12, <1>13, <1>15 DEF Roots
<1>20. Outside(S)
    BY <1>2, <1>12 DEF Outside
<1>21. Order(S, own)
    BY <1>12 DEF Order
<1>22. Items(S)
    BY <1>2, <1>4, <1>8, <1>15 DEF Items
<1>23. Counts(S)
  <2>1. S \ {head.node} = {}
      BY <1>4, <1>15
  <2>2. Cardinality(S \ {head.node}) = 0 /\ Cardinality(Uncounted) = 0 /\ Cardinality(Claiming) = 0
      BY <1>12, <2>1, FS_EmptySet
  <2>3. QED  BY <1>2, <2>2 DEF Counts
<1>24. Shape(S, own, pos)
    BY <1>16, <1>17, <1>18, <1>19, <1>20, <1>21, <1>22, <1>23 DEF Shape
<1>25. QED  BY <1>6, <1>7, <1>9, <1>10, <1>11, <1>24 DEF QueueInv

(* Nothing happens.                                                        *)
LEMMA QueueStutter ==
    ASSUME QueueInv, UNCHANGED vars
    PROVE  QueueInv'
<1>1. PICK S, own, pos : Shape(S, own, pos)
    BY DEF QueueInv
<1>2. /\ head' = head /\ tail' = tail /\ next' = next /\ data' = data /\ count' = count
      /\ pool' = pool /\ fresh' = fresh /\ pc' = pc /\ node' = node /\ cHead' = cHead
      /\ cTail' = cTail /\ cNext' = cNext /\ cData' = cData /\ made' = made /\ got' = got
    BY DEF vars, shared, locals
<1>3. /\ Pending' = Pending /\ Uncounted' = Uncounted /\ Claiming' = Claiming
      /\ Freeing' = Freeing /\ Asked' = Asked /\ \A q : LinkBefore(q)' = LinkBefore(q)
    BY <1>2 DEF Pending, Uncounted, Claiming, Freeing, Asked, LinkBefore
<1>4. TypeOK' /\ Roles' /\ Bound' /\ Stale' /\ Reads'
  <2>1. TypeOK'  BY <1>2 DEF QueueInv, TypeOK
  <2>2. Roles'  BY <1>2 DEF QueueInv, Roles
  <2>3. Bound'  BY <1>2, <1>3 DEF QueueInv, Bound
  <2>4. Stale'  BY <1>2 DEF QueueInv, Stale
  <2>5. Reads'  BY <1>2 DEF QueueInv, Reads, ReadsOf
  <2>6. QED  BY <2>1, <2>2, <2>3, <2>4, <2>5
<1>5. Shape(S, own, pos)'
  <2>1. Forest(S, own, pos)'  BY <1>1, <1>2 DEF Shape, Forest
  <2>2. Ends(S)'  BY <1>1, <1>2 DEF Shape, Ends
  <2>3. Words(S, own, pos)'  BY <1>1, <1>2 DEF Shape, Words
  <2>4. Roots(S, own, pos)'  BY <1>1, <1>2, <1>3 DEF Shape, Roots
  <2>5. Outside(S)'  BY <1>1, <1>2, <1>3 DEF Shape, Outside
  <2>6. Order(S, own)'  BY <1>1, <1>2, <1>3 DEF Shape, Order
  <2>7. Items(S)'  BY <1>1, <1>2, <1>3 DEF Shape, Items
  <2>8. Counts(S)'  BY <1>1, <1>2, <1>3 DEF Shape, Counts
  <2>9. QED  BY <2>1, <2>2, <2>3, <2>4, <2>5, <2>6, <2>7, <2>8 DEF Shape
<1>6. QED  BY <1>4, <1>5 DEF QueueInv

LEMMA QueueStep == QueueInv /\ [Next]_vars => QueueInv'
<1>1. SUFFICES ASSUME QueueInv, [Next]_vars PROVE QueueInv'
    OBVIOUS
<1>2. ASSUME NEW p \in Producers, Alloc(p) PROVE QueueInv'
    BY <1>1, <1>2, AllocStep
<1>3. ASSUME NEW p \in Producers, EnqueueStep(p) PROVE QueueInv'
  <2>1. CASE ReadTail(p)  BY <1>1, <2>1, ReadTailStep
  <2>2. CASE ReadNext(p)  BY <1>1, <2>2, ReadNextStep
  <2>3. CASE Help(p)  BY <1>1, <2>3, HelpStep
  <2>4. CASE Link(p)  BY <1>1, <2>4, LinkStep
  <2>5. CASE CountUp(p)  BY <1>1, <2>5, CountUpStep
  <2>6. CASE Swing(p)  BY <1>1, <2>6, SwingStep
  <2>7. QED  BY <1>3, <2>1, <2>2, <2>3, <2>4, <2>5, <2>6 DEF EnqueueStep
<1>4. ASSUME NEW c \in Consumers, DequeueStep(c) PROVE QueueInv'
  <2>1. CASE Claim(c)  BY <1>1, <2>1, ClaimStep
  <2>2. CASE Unclaim(c)  BY <1>1, <2>2, UnclaimStep
  <2>3. CASE DReadHead(c)  BY <1>1, <2>3, DReadHeadStep
  <2>4. CASE DReadTail(c)  BY <1>1, <2>4, DReadTailStep
  <2>5. CASE DReadTailNext(c)  BY <1>1, <2>5, DReadTailNextStep
  <2>6. CASE DHelp(c)  BY <1>1, <2>6, DHelpStep
  <2>7. CASE DReadNext(c)  BY <1>1, <2>7, DReadNextStep
  <2>8. CASE DReadData(c)  BY <1>1, <2>8, DReadDataStep
  <2>9. CASE Take(c)  BY <1>1, <2>9, TakeStep
  <2>10. CASE Free(c)  BY <1>1, <2>10, FreeStep
  <2>11. QED
      BY <1>4, <2>1, <2>2, <2>3, <2>4, <2>5, <2>6, <2>7, <2>8, <2>9, <2>10 DEF DequeueStep
<1>5. CASE UNCHANGED vars
    BY <1>1, <1>5, QueueStutter
<1>6. QED  BY <1>1, <1>2, <1>3, <1>4, <1>5 DEF Next

LEMMA QueueAlways == Spec => []QueueInv
<1>1. QED  BY QueueInit, QueueStep, PTL DEF Spec

(* Every word, node and copy has its type; in particular the pool never    *)
(* hands out more nodes than there are items and a dummy.                  *)
THEOREM QueueTypes == Spec => []TypeOK
<1>1. QueueInv => TypeOK
    BY DEF QueueInv
<1>2. QED  BY <1>1, QueueAlways, PTL

(* The queue stays one finite chain from head by tail to Null, of nodes    *)
(* that are not in the pool, although the compare-exchange of next has no  *)
(* stamp.                                                                  *)
THEOREM QueueChain == Spec => []ChainIntact
<1>1. QueueInv => ChainIntact
  <2>1. SUFFICES ASSUME QueueInv PROVE ChainIntact
      OBVIOUS
  <2>2. PICK S, own, pos : Shape(S, own, pos)
      BY <2>1 DEF QueueInv
  <2>3. TypeOK /\ Forest(S, own, pos) /\ Words(S, own, pos) /\ Roots(S, own, pos) /\ Ends(S) /\ Outside(S)
      BY <2>1, <2>2 DEF QueueInv, Shape
  <2>4. Walk[Cardinality(Nodes)] = Null /\ Listed = {n \in S : own[n] = Null}
      BY <2>3, WalkOfQueue
  <2>5. tail.node \in Listed
      BY <2>3, <2>4 DEF Words
  <2>6. Listed \cap Elems(pool) = {}
      BY <2>3, <2>4 DEF Outside, Elems
  <2>7. \A n \in Listed : n < fresh
      BY <2>3, <2>4 DEF Ends
  <2>8. QED  BY <2>4, <2>5, <2>6, <2>7 DEF ChainIntact
<1>2. QED  BY <1>1, QueueAlways, PTL

(* Dequeue returns no item twice, and none that nobody enqueued.           *)
THEOREM QueueItems == Spec => []EachItemOnce
<1>1. QueueInv => EachItemOnce
  <2>1. SUFFICES ASSUME QueueInv PROVE EachItemOnce
      OBVIOUS
  <2>2. PICK S : Items(S)
      BY <2>1 DEF QueueInv, Shape
  <2>3. PICK k \in Nat : k = Len(got) /\ DOMAIN got = 1..k /\ got \in Seq(Item)
      BY <2>1 DEF QueueInv, TypeOK
  <2>4. \A i \in DOMAIN got : got[i] \in Item /\ got[i][2] <= made[got[i][1]]
      BY <2>2 DEF Items, Asked
  <2>5. got \in Bijection(1..k, Elems(got))
    <3>1. got \in [1..k -> Elems(got)]
        BY <2>3 DEF Elems
    <3>2. \A i, j \in 1..k : got[i] = got[j] => i = j
        BY <2>2, <2>3 DEF Items
    <3>3. \A e \in Elems(got) : \E i \in 1..k : got[i] = e
        BY <2>3 DEF Elems
    <3>4. QED  BY <3>1, <3>2, <3>3 DEF Bijection, Injection, Surjection, IsInjective
  <2>6. IsFiniteSet(1..k) /\ Cardinality(1..k) = k
    <3>1. Cardinality(1..k) = IF 1 > k THEN 0 ELSE k - 1 + 1
        BY FS_Interval
    <3>2. QED  BY <3>1, FS_Interval
  <2>7. Cardinality(Elems(got)) = k
      BY <2>5, <2>6, FS_Bijection DEF ExistsBijection
  <2>8. QED  BY <2>3, <2>4, <2>7 DEF EachItemOnce
<1>2. QED  BY <1>1, QueueAlways, PTL

(* With nobody inside a call nodeCount is the number of nodes behind the   *)
(* dummy, and every item enqueued is in one of them or was returned.       *)
THEOREM QueueCount == Spec => []CountAtRest
<1>1. QueueInv => CountAtRest
  <2>1. SUFFICES ASSUME QueueInv, AtRest
                 PROVE  /\ count = Cardinality(Listed) - 1
                        /\ \A p \in Producers : \A k \in 1..made[p] :
                              \/ <<p, k>> \in Elems(got)
                              \/ \E n \in Listed \ {head.node} : data[n] = <<p, k>>
      BY DEF CountAtRest
  <2>2. PICK S, own, pos : Shape(S, own, pos)
      BY <2>1 DEF QueueInv
  <2>3. /\ TypeOK /\ Forest(S, own, pos) /\ Words(S, own, pos) /\ Roots(S, own, pos)
        /\ Items(S) /\ Counts(S)
      BY <2>1, <2>2 DEF QueueInv, Shape
  <2>4. Pending = {} /\ Uncounted = {} /\ Claiming = {}
    <3>1. \A t \in Producers \cup Consumers : pc[t] \in {"alloc", "claim"}
        BY <2>1 DEF AtRest, Threads
    <3>2. QED  BY <3>1 DEF Pending, Uncounted, Claiming, PendingPcs, UncountedPcs, ClaimingPcs
  <2>5. \A n \in S : own[n] = Null
      BY <2>3, <2>4 DEF Roots
  <2>6. Listed = S
      BY <2>3, <2>5, WalkOfQueue
  <2>7. count = Cardinality(Listed) - 1
    <3>1. (S \ {head.node}) \cup {head.node} = S /\ head.node \notin S \ {head.node}
        BY <2>3 DEF Words
    <3>2. IsFiniteSet(S \ {head.node}) /\ Cardinality(S \ {head.node}) \in Nat
        BY <2>3, LiveFinite DEF Forest
    <3>3. Cardinality(S) = Cardinality(S \ {head.node}) + 1
        BY <3>1, <3>2, FS_AddElement
    <3>4. count = Cardinality(S \ {head.node})
        BY <2>3, <2>4, <3>2, FS_EmptySet DEF Counts
    <3>5. QED  BY <2>6, <3>2, <3>3, <3>4
  <2>8. ASSUME NEW p \in Producers, NEW k \in 1..made[p]
        PROVE  <<p, k>> \in Elems(got) \/ \E n \in Listed \ {head.node} : data[n] = <<p, k>>
    <3>1. <<p, k>> \in Asked
      <4>1. made[p] \in 0..MaxItems
          BY <2>3 DEF TypeOK
      <4>2. k \in 1..MaxItems /\ k <= made[p]
          BY <2>8, <4>1, QueueAssumption
      <4>3. QED  BY <4>2 DEF Asked, Item
    <3>2. QED  BY <2>3, <2>6, <3>1 DEF Items, Elems
  <2>9. QED  BY <2>7, <2>8
<1>2. QED  BY <1>1, QueueAlways, PTL

=============================================================================
