------------------------------- MODULE LFStack -------------------------------
(***************************************************************************)
(* LFStack.h and the LFObjectPool.h its nodes come from.  Both are linked  *)
(* lists whose top pointer carries a stamp in its unused high bits: Pop    *)
(* and Alloc take the top node, Push and Free put one back, and every      *)
(* successful compare-exchange of a top advances its stamp.  A node has a  *)
(* link of its own for each list.  A step is one access to shared memory.  *)
(*                                                                         *)
(* The stamp has 17 bits (kUnusedBit): it repeats after Stamps moves.  A   *)
(* thread that is overtaken by that many moves between its read and its    *)
(* compare-exchange is fooled; the model excludes that, and only that, by  *)
(* counting in age the moves a thread has missed.  Payloads stay with      *)
(* their node and are left out.                                            *)
(***************************************************************************)
EXTENDS Integers, FiniteSets

CONSTANTS Threads,
          Nodes,     \* the nodes the allocator can create (a bound)
          Null,
          Stamps     \* number of stamps before they repeat

VARIABLES top,       \* [list -> [node, stamp]]: topStamp and top_stamp_
          next,      \* [list -> [node -> node or Null]]
          made,      \* the nodes created so far
          nodeCount, useCount, capacity,
          op, pc,    \* what each thread is doing
          copy,      \* copyTopStamp of each thread
          peek,      \* topClean->next as the thread read it
          mine,      \* the node a thread holds outside both lists
          age        \* moves of the list since the thread read its top

vars == <<top, next, made, nodeCount, useCount, capacity, op, pc, copy, peek, mine, age>>

Lists == {"stack", "pool"}
Ops == {"alloc", "push", "pop", "free"}
ListOf(o) == IF o \in {"push", "pop"} THEN "stack" ELSE "pool"
Takes(o) == o \in {"alloc", "pop"}
Tops == [node : Nodes \cup {Null}, stamp : 0..(Stamps - 1)]

(* The list from its top: walk[i] is its i-th node, Null past the end. *)
Walk(l) == LET walk[i \in 0..Cardinality(Nodes)] ==
                   IF i = 0 THEN top[l].node
                   ELSE IF walk[i - 1] = Null THEN Null ELSE next[l][walk[i - 1]]
           IN  walk
Listed(l) == {Walk(l)[i] : i \in DOMAIN Walk(l)} \ {Null}

NoCopy == [node |-> Null, stamp |-> 0]   \* a local that is out of scope

Init ==
    /\ top = [l \in Lists |-> NoCopy]
    /\ next = [l \in Lists |-> [n \in Nodes |-> Null]]
    /\ made = {}
    /\ nodeCount = 0 /\ useCount = 0 /\ capacity = 0
    /\ op = [t \in Threads |-> "push"]
    /\ pc = [t \in Threads |-> "idle"]
    /\ copy = [t \in Threads |-> NoCopy]
    /\ peek = [t \in Threads |-> Null]
    /\ mine = [t \in Threads |-> Null]
    /\ age = [t \in Threads |-> 0]

----------------------------------------------------------------------------
(* A call begins: Push allocates first, Pop frees last. *)
Begin(t, o) ==
    /\ pc[t] = "idle"
    /\ op' = [op EXCEPT ![t] = o]
    /\ pc' = [pc EXCEPT ![t] = "read"]
    /\ UNCHANGED <<top, next, made, nodeCount, useCount, capacity, copy, peek, mine, age>>

Push(t) == Begin(t, "alloc")
Pop(t) == Begin(t, "pop")

(* Read the top; a thread that puts a node hangs the rest of the list on it. *)
ReadTop(t) ==
    LET l == ListOf(op[t]) IN
    /\ pc[t] = "read"
    /\ copy' = [copy EXCEPT ![t] = IF Takes(op[t]) /\ top[l].node = Null THEN NoCopy ELSE top[l]]
    /\ age' = [age EXCEPT ![t] = 0]
    /\ next' = IF Takes(op[t]) THEN next ELSE [next EXCEPT ![l][mine[t]] = top[l].node]
    /\ pc' = [pc EXCEPT ![t] = IF ~Takes(op[t]) THEN "cas"
                               ELSE IF top[l].node # Null THEN "next"
                               ELSE IF op[t] = "alloc" THEN "new" ELSE "idle"]
    /\ UNCHANGED <<top, made, nodeCount, useCount, capacity, op, peek, mine>>

(* The pool is empty: capacity__ and use_count_ go up and a node is created *)
(* (bound: Nodes; a push beyond it waits until the model has room).         *)
NewNode(t) ==
    /\ pc[t] = "new"
    /\ \E n \in Nodes \ made :
          /\ made' = made \cup {n}
          /\ mine' = [mine EXCEPT ![t] = n]
    /\ capacity' = capacity + 1
    /\ useCount' = useCount + 1
    /\ op' = [op EXCEPT ![t] = "push"]
    /\ pc' = [pc EXCEPT ![t] = "read"]
    /\ UNCHANGED <<top, next, nodeCount, copy, peek, age>>

ReadNext(t) ==
    /\ pc[t] = "next"
    /\ peek' = [peek EXCEPT ![t] = next[ListOf(op[t])][copy[t].node]]
    /\ pc' = [pc EXCEPT ![t] = "cas"]
    /\ UNCHANGED <<top, next, made, nodeCount, useCount, capacity, op, copy, mine, age>>

NextStampLost(s) == s

NextStamp(s) == (s + 1) % Stamps

(* The threads between their read and their compare-exchange on t's list. *)
Rivals(t) == {u \in Threads \ {t} : pc[u] \in {"next", "cas"} /\ ListOf(op[u]) = ListOf(op[t])}

Cas(t) ==
    LET l == ListOf(op[t]) IN
    /\ pc[t] = "cas"
    /\ \/ /\ top[l] = copy[t]
          /\ \A u \in Rivals(t) : age[u] + 1 < Stamps
          /\ top' = [top EXCEPT ![l] = [node |-> IF Takes(op[t]) THEN peek[t] ELSE mine[t],
                                        stamp |-> NextStamp(copy[t].stamp)]]
          /\ mine' = [mine EXCEPT ![t] = IF Takes(op[t]) THEN copy[t].node ELSE Null]
          /\ age' = [u \in Threads |-> IF u = t THEN 0 ELSE IF u \in Rivals(t) THEN age[u] + 1 ELSE age[u]]
          /\ pc' = [pc EXCEPT ![t] = "count"]
       \/ /\ top[l] # copy[t]
          /\ age' = [age EXCEPT ![t] = 0]
          /\ pc' = [pc EXCEPT ![t] = "read"]
          /\ UNCHANGED <<top, mine>>
    /\ copy' = [copy EXCEPT ![t] = NoCopy]
    /\ peek' = [peek EXCEPT ![t] = Null]
    /\ UNCHANGED <<next, made, nodeCount, useCount, capacity, op>>

(* The node is constructed (its stack link cleared) and the push goes on. *)
CountAlloc(t) ==
    /\ pc[t] = "count" /\ op[t] = "alloc"
    /\ next' = [next EXCEPT !["stack"][mine[t]] = Null]
    /\ useCount' = useCount + 1
    /\ op' = [op EXCEPT ![t] = "push"]
    /\ pc' = [pc EXCEPT ![t] = "read"]
    /\ UNCHANGED <<top, made, nodeCount, capacity, copy, peek, mine, age>>

CountPush(t) ==
    /\ pc[t] = "count" /\ op[t] = "push"
    /\ nodeCount' = nodeCount + 1
    /\ pc' = [pc EXCEPT ![t] = "idle"]
    /\ UNCHANGED <<top, next, made, useCount, capacity, op, copy, peek, mine, age>>

(* nodeCount may be behind: it is decremented by whoever popped first. *)
CountPop(t) ==
    /\ pc[t] = "count" /\ op[t] = "pop"
    /\ nodeCount' = nodeCount - 1
    /\ op' = [op EXCEPT ![t] = "free"]
    /\ pc' = [pc EXCEPT ![t] = "read"]
    /\ UNCHANGED <<top, next, made, useCount, capacity, copy, peek, mine, age>>

CountFree(t) ==
    /\ pc[t] = "count" /\ op[t] = "free"
    /\ useCount' = useCount - 1
    /\ pc' = [pc EXCEPT ![t] = "idle"]
    /\ UNCHANGED <<top, next, made, nodeCount, capacity, op, copy, peek, mine, age>>

(* The steps of the four functions: the two of the stack, the two of the pool. *)
PushStep(t) == Push(t) \/ (op[t] = "push" /\ (ReadTop(t) \/ Cas(t) \/ CountPush(t)))
PopStep(t) == Pop(t) \/ (op[t] = "pop" /\ (ReadTop(t) \/ ReadNext(t) \/ Cas(t) \/ CountPop(t)))
AllocStep(t) == op[t] = "alloc" /\ (ReadTop(t) \/ NewNode(t) \/ ReadNext(t) \/ Cas(t) \/ CountAlloc(t))
FreeStep(t) == op[t] = "free" /\ (ReadTop(t) \/ Cas(t) \/ CountFree(t))

Next == \E t \in Threads : PushStep(t) \/ PopStep(t) \/ AllocStep(t) \/ FreeStep(t)

Spec == Init /\ [][Next]_vars

----------------------------------------------------------------------------
TypeOK ==
    /\ top \in [Lists -> Tops]
    /\ next \in [Lists -> [Nodes -> Nodes \cup {Null}]]
    /\ made \subseteq Nodes
    /\ op \in [Threads -> Ops]
    /\ pc \in [Threads -> {"idle", "read", "new", "next", "cas", "count"}]
    /\ copy \in [Threads -> Tops]
    /\ peek \in [Threads -> Nodes \cup {Null}]
    /\ mine \in [Threads -> Nodes \cup {Null}]
    /\ age \in [Threads -> 0..(Stamps - 1)]

Held == {mine[t] : t \in Threads} \ {Null}

(* However threads are suspended between reading a top and exchanging it,  *)
(* and however nodes go round between the stack and the pool, each node is *)
(* in one place: in the stack, in the pool, or held by one thread; no list *)
(* has a cycle or a lost tail.  At rest the counters are exact.            *)
NodesConserved ==
    /\ \A l \in Lists : Walk(l)[Cardinality(Nodes)] = Null
    /\ \A t, u \in Threads : t # u /\ mine[t] # Null => mine[t] # mine[u]
    /\ Listed("stack") \cap Listed("pool") = {}
    /\ Held \cap (Listed("stack") \cup Listed("pool")) = {}
    /\ made = Listed("stack") \cup Listed("pool") \cup Held
    /\ (\A t \in Threads : pc[t] = "idle") =>
          /\ nodeCount = Cardinality(Listed("stack"))
          /\ useCount = Cardinality(Listed("stack"))
          /\ capacity = Cardinality(made)
=============================================================================
