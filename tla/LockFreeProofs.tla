---------------------------- MODULE LockFreeProofs ----------------------------
(***************************************************************************)
(* LFStack and the LFObjectPool behind it, for any number of threads and   *)
(* nodes and any number of stamps: no node is lost or in two places.       *)
(*                                                                         *)
(* A list in memory is a chain: a sequence of different nodes, linked by   *)
(* next and ended by Null.  The proofs about the algorithm know chains     *)
(* only through the lemmas of the first part, which say what putting a     *)
(* node in front, taking the first one and writing a link elsewhere do.    *)
(***************************************************************************)
EXTENDS LFStack, Sequences, SequenceTheorems, FiniteSetTheorems, WellFoundedInduction, TLAPS

StackConstants ==
    /\ Null \notin Nodes /\ IsFiniteSet(Nodes) /\ IsFiniteSet(Threads)
    /\ Stamps \in Nat \ {0}

(* The nodes of s, in this order, are linked from `first' on.              *)
Linked(first, link, s) ==
    /\ s \in Seq(Nodes)
    /\ \A i, j \in 1..Len(s) : s[i] = s[j] => i = j
    /\ Len(s) = 0 => first = Null
    /\ Len(s) > 0 => first = s[1] /\ link[s[Len(s)]] = Null
    /\ \A i \in 1..(Len(s) - 1) : link[s[i]] = s[i + 1]

NodesOf(s) == {s[i] : i \in 1..Len(s)}

(* The chain that begins at `first' has the nodes S.                       *)
Chain(first, link, S) == \E s : Linked(first, link, s) /\ S = NodesOf(s)

-----------------------------------------------------------------------------
(***************************************************************************)
(* Chains.                                                                 *)
(***************************************************************************)

(* A set of naturals has a least element: the induction of this module.    *)
LEMMA LeastNatural ==
    ASSUME NEW D, D \subseteq Nat, D # {}
    PROVE  \E n \in D : \A m \in D : n <= m
<1>1. PICK R : R = OpToRel(<, Nat)
    OBVIOUS
<1>2. IsWellFoundedOn(R, Nat)
    BY <1>1, NatLessThanWellFounded
<1>3. PICK x \in D : \A y \in D : ~(<<y, x>> \in R)
    BY <1>2, WFMin
<1>4. \A y \in D : (<<y, x>> \in R) <=> y < x
    BY <1>1 DEF OpToRel
<1>5. \A y \in D : ~(y < x)
    BY <1>3, <1>4
<1>6. \A y \in D : x <= y
    BY <1>5
<1>7. QED  BY <1>6

(* The empty list.                                                         *)
LEMMA ChainEmpty ==
    ASSUME NEW link
    PROVE  Chain(Null, link, {})
<1>1. Linked(Null, link, <<>>) /\ NodesOf(<<>>) = {}
    BY DEF Linked, NodesOf
<1>2. QED  BY <1>1 DEF Chain

(* Its nodes are nodes, and it is empty if it begins with Null.            *)
LEMMA ChainNodes ==
    ASSUME NEW first, NEW link, NEW S, Chain(first, link, S), Null \notin Nodes
    PROVE  S \subseteq Nodes /\ (first = Null => S = {}) /\ (first # Null => first \in S)
<1>1. PICK s : Linked(first, link, s) /\ S = NodesOf(s)
    BY DEF Chain
<1>2. s \in Seq(Nodes) /\ Len(s) \in Nat /\ \A i \in 1..Len(s) : s[i] \in Nodes
    BY <1>1 DEF Linked
<1>3. S \subseteq Nodes
    BY <1>1, <1>2 DEF NodesOf
<1>4. CASE Len(s) = 0
    BY <1>1, <1>3, <1>4 DEF Linked, NodesOf
<1>5. CASE Len(s) > 0
  <2>1. first = s[1] /\ 1 \in 1..Len(s)
      BY <1>1, <1>2, <1>5 DEF Linked
  <2>2. QED  BY <1>1, <1>2, <1>3, <2>1 DEF NodesOf
<1>6. QED  BY <1>2, <1>4, <1>5

(* A link outside the chain may be written.                                *)
LEMMA ChainKeep ==
    ASSUME NEW first, NEW link, NEW S, Chain(first, link, S),
           NEW other, \A n \in S : other[n] = link[n]
    PROVE  Chain(first, other, S)
<1>1. PICK s : Linked(first, link, s) /\ S = NodesOf(s)
    BY DEF Chain
<1>2. s \in Seq(Nodes) /\ \A i \in 1..Len(s) : s[i] \in S
    BY <1>1 DEF Linked, NodesOf
<1>3. \A i \in 1..Len(s) : other[s[i]] = link[s[i]]
    BY <1>2
<1>4. Linked(first, other, s)
    BY <1>1, <1>2, <1>3 DEF Linked
<1>5. QED  BY <1>1, <1>4 DEF Chain

(* A node in front of it makes a longer chain.                             *)
LEMMA ChainPut ==
    ASSUME NEW first, NEW link, NEW S, Chain(first, link, S),
           NEW n \in Nodes, n \notin S, link[n] = first
    PROVE  Chain(n, link, S \cup {n})
<1>1. PICK s : Linked(first, link, s) /\ S = NodesOf(s)
    BY DEF Chain
<1>2. s \in Seq(Nodes) /\ Len(s) \in Nat /\ \A i \in 1..Len(s) : s[i] \in S
    BY <1>1 DEF Linked, NodesOf
<1>3. PICK r : r = <<n>> \o s
    OBVIOUS
<1>4. /\ r \in Seq(Nodes) /\ Len(r) = Len(s) + 1 /\ r[1] = n
      /\ \A i \in 1..Len(s) : r[i + 1] = s[i]
    BY <1>2, <1>3
<1>5. \A i \in 2..Len(r) : r[i] = s[i - 1] /\ r[i] \in S
    BY <1>2, <1>4
<1>6. \A i, j \in 1..Len(r) : r[i] = r[j] => i = j
  <2>1. \A i, j \in 2..Len(r) : r[i] = r[j] => i = j
    <3>1. \A i, j \in 1..Len(s) : s[i] = s[j] => i = j
        BY <1>1 DEF Linked
    <3>2. SUFFICES ASSUME NEW i \in 2..Len(r), NEW j \in 2..Len(r), r[i] = r[j] PROVE i = j
        OBVIOUS
    <3>3. i - 1 \in 1..Len(s) /\ j - 1 \in 1..Len(s) /\ s[i - 1] = s[j - 1]
        BY <1>2, <1>4, <1>5, <3>2
    <3>4. i - 1 = j - 1
        BY <3>1, <3>3
    <3>5. QED  BY <3>4
  <2>2. \A i \in 2..Len(r) : r[i] # r[1]
      BY <1>4, <1>5
  <2>3. QED  BY <1>2, <1>4, <2>1, <2>2
<1>7. \A i \in 1..(Len(r) - 1) : link[r[i]] = r[i + 1]
  <2>1. SUFFICES ASSUME NEW i \in 1..(Len(r) - 1) PROVE link[r[i]] = r[i + 1]
      OBVIOUS
  <2>2. i \in 1..Len(s) /\ r[i + 1] = s[i]
      BY <1>2, <1>4
  <2>3. CASE i = 1
      BY <1>1, <1>2, <1>4, <2>2, <2>3 DEF Linked
  <2>4. CASE i # 1
    <3>1. i - 1 \in 1..(Len(s) - 1) /\ r[i] = s[i - 1]
        BY <1>2, <1>4, <1>5, <2>2, <2>4
    <3>2. link[s[i - 1]] = s[(i - 1) + 1]
        BY <1>1, <3>1 DEF Linked
    <3>3. QED  BY <2>2, <3>1, <3>2
  <2>5. QED  BY <2>3, <2>4
<1>8. link[r[Len(r)]] = Null
  <2>1. CASE Len(s) = 0
      BY <1>1, <1>4, <2>1 DEF Linked
  <2>2. CASE Len(s) > 0
    <3>1. r[Len(r)] = s[Len(s)]
        BY <1>2, <1>4, <2>2
    <3>2. QED  BY <1>1, <2>2, <3>1 DEF Linked
  <2>3. QED  BY <1>2, <2>1, <2>2
<1>9. Linked(n, link, r)
    BY <1>2, <1>4, <1>6, <1>7, <1>8 DEF Linked
<1>10. NodesOf(r) = S \cup {n}
  <2>1. NodesOf(r) \subseteq S \cup {n}
      BY <1>2, <1>4, <1>5 DEF NodesOf
  <2>2. ASSUME NEW x \in S PROVE x \in NodesOf(r)
    <3>1. PICK i \in 1..Len(s) : x = s[i]
        BY <1>1 DEF NodesOf
    <3>2. i + 1 \in 1..Len(r) /\ x = r[i + 1]
        BY <1>2, <1>4, <3>1
    <3>3. QED  BY <3>2 DEF NodesOf
  <2>3. n \in NodesOf(r)
      BY <1>2, <1>4 DEF NodesOf
  <2>4. QED  BY <2>1, <2>2, <2>3
<1>11. QED  BY <1>9, <1>10 DEF Chain

(* Without its first node it is the chain of the others.                   *)
LEMMA ChainTake ==
    ASSUME NEW first, NEW link, NEW S, Chain(first, link, S), first # Null, Null \notin Nodes
    PROVE  first \in S /\ Chain(link[first], link, S \ {first})
<1>1. PICK s : Linked(first, link, s) /\ S = NodesOf(s)
    BY DEF Chain
<1>2. s \in Seq(Nodes) /\ Len(s) \in Nat /\ Len(s) > 0 /\ first = s[1]
    BY <1>1 DEF Linked
<1>3. PICK r : r = Tail(s)
    OBVIOUS
<1>4. r \in Seq(Nodes) /\ Len(r) = Len(s) - 1 /\ \A i \in 1..Len(r) : r[i] = s[i + 1]
    BY <1>2, <1>3
<1>5. \A i, j \in 1..Len(s) : s[i] = s[j] => i = j
    BY <1>1 DEF Linked
<1>6. \A i, j \in 1..Len(r) : r[i] = r[j] => i = j
  <2>1. SUFFICES ASSUME NEW i \in 1..Len(r), NEW j \in 1..Len(r), r[i] = r[j] PROVE i = j
      OBVIOUS
  <2>2. i + 1 \in 1..Len(s) /\ j + 1 \in 1..Len(s) /\ s[i + 1] = s[j + 1]
      BY <1>2, <1>4, <2>1
  <2>3. i + 1 = j + 1
      BY <1>5, <2>2
  <2>4. QED  BY <2>3
<1>7. \A i \in 1..(Len(r) - 1) : link[r[i]] = r[i + 1]
  <2>1. SUFFICES ASSUME NEW i \in 1..(Len(r) - 1) PROVE link[r[i]] = r[i + 1]
      OBVIOUS
  <2>2. i + 1 \in 1..(Len(s) - 1) /\ r[i] = s[i + 1] /\ r[i + 1] = s[(i + 1) + 1]
      BY <1>2, <1>4
  <2>3. QED  BY <1>1, <2>2 DEF Linked
<1>8. Len(r) = 0 => link[first] = Null
  <2>1. SUFFICES ASSUME Len(r) = 0 PROVE link[first] = Null
      OBVIOUS
  <2>2. Len(s) = 1
      BY <1>2, <1>4, <2>1
  <2>3. QED  BY <1>1, <1>2, <2>2 DEF Linked
<1>9. Len(r) > 0 => link[first] = r[1] /\ link[r[Len(r)]] = Null
  <2>1. SUFFICES ASSUME Len(r) > 0 PROVE link[first] = r[1] /\ link[r[Len(r)]] = Null
      OBVIOUS
  <2>2. 1 \in 1..(Len(s) - 1) /\ r[1] = s[1 + 1] /\ r[Len(r)] = s[Len(s)]
      BY <1>2, <1>4, <2>1
  <2>3. QED  BY <1>1, <1>2, <2>2 DEF Linked
<1>10. Linked(link[first], link, r)
    BY <1>4, <1>6, <1>7, <1>8, <1>9 DEF Linked
<1>11. first \in S
    BY <1>1, <1>2 DEF NodesOf
<1>12. NodesOf(r) = S \ {first}
  <2>1. ASSUME NEW x \in NodesOf(r) PROVE x \in S \ {first}
    <3>1. PICK i \in 1..Len(r) : x = r[i]
        BY <2>1 DEF NodesOf
    <3>2. i + 1 \in 1..Len(s) /\ x = s[i + 1] /\ i + 1 # 1 /\ 1 \in 1..Len(s)
        BY <1>2, <1>4, <3>1
    <3>3. s[i + 1] # s[1]
        BY <1>5, <3>2
    <3>4. QED  BY <1>1, <1>2, <3>2, <3>3 DEF NodesOf
  <2>2. ASSUME NEW x \in S, x # first PROVE x \in NodesOf(r)
    <3>1. PICK i \in 1..Len(s) : x = s[i]
        BY <1>1 DEF NodesOf
    <3>2. i # 1
        BY <1>2, <2>2, <3>1
    <3>3. i - 1 \in 1..Len(r) /\ r[i - 1] = s[(i - 1) + 1]
        BY <1>2, <1>4, <3>2
    <3>4. x = r[i - 1]
        BY <3>1, <3>3
    <3>5. QED  BY <3>3, <3>4 DEF NodesOf
  <2>3. QED  BY <2>1, <2>2
<1>13. QED  BY <1>10, <1>11, <1>12 DEF Chain

(* What a recursive walk along the links is.                               *)
IsWalk(first, link, f) ==
    f = [i \in 0..Cardinality(Nodes) |->
            IF i = 0 THEN first ELSE IF f[i - 1] = Null THEN Null ELSE link[f[i - 1]]]

WalkOf(first, link) == CHOOSE f : IsWalk(first, link, f)
ListedOf(first, link) == {WalkOf(first, link)[i] : i \in DOMAIN WalkOf(first, link)} \ {Null}

(* Two walks from the same place are the same.                             *)
LEMMA WalkUnique ==
    ASSUME NEW first, NEW link, NEW f, NEW g, IsWalk(first, link, f), IsWalk(first, link, g), Cardinality(Nodes) \in Nat
    PROVE  f = g
<1>1. PICK N \in Nat : N = Cardinality(Nodes)
    OBVIOUS
<1>2. /\ f = [i \in 0..N |-> f[i]]
      /\ \A i \in 0..N : f[i] = IF i = 0 THEN first
                                ELSE IF f[i - 1] = Null THEN Null ELSE link[f[i - 1]]
    BY <1>1 DEF IsWalk
<1>3. /\ g = [i \in 0..N |-> g[i]]
      /\ \A i \in 0..N : g[i] = IF i = 0 THEN first
                                ELSE IF g[i - 1] = Null THEN Null ELSE link[g[i - 1]]
    BY <1>1 DEF IsWalk
<1>4. SUFFICES ASSUME f # g PROVE FALSE
    OBVIOUS
<1>5. PICK D : D = {i \in 0..N : f[i] # g[i]}
    OBVIOUS
<1>6. D # {} /\ D \subseteq Nat
    BY <1>2, <1>3, <1>4, <1>5
<1>7. PICK n \in D : \A m \in D : n <= m
    BY <1>6, LeastNatural
<1>8. n \in 0..N /\ f[n] # g[n]
    BY <1>5
<1>9. CASE n = 0
    BY <1>2, <1>3, <1>8, <1>9
<1>10. CASE n # 0
  <2>1. n - 1 \in 0..N /\ n - 1 \notin D
      BY <1>7, <1>8, <1>10
  <2>2. f[n - 1] = g[n - 1]
      BY <1>5, <2>1
  <2>3. QED  BY <1>2, <1>3, <1>8, <1>10, <2>2
<1>11. QED  BY <1>9, <1>10

(* The walk of the model visits exactly the nodes of the chain and ends.   *)
LEMMA ChainWalk ==
    ASSUME StackConstants, NEW first, NEW link, NEW S, Chain(first, link, S)
    PROVE  ListedOf(first, link) = S /\ WalkOf(first, link)[Cardinality(Nodes)] = Null
<1>1. PICK s : Linked(first, link, s) /\ S = NodesOf(s)
    BY DEF Chain
<1>2. PICK N \in Nat : N = Cardinality(Nodes)
    BY FS_CardinalityType DEF StackConstants
<1>3. s \in Seq(Nodes) /\ Len(s) \in Nat
    BY <1>1 DEF Linked
<1>4. Len(s) <= N
  <2>1. PICK k \in Nat : k = Len(s)
      BY <1>3
  <2>2. IsFiniteSet(1..k) /\ Cardinality(1..k) = IF 1 > k THEN 0 ELSE k - 1 + 1
      BY FS_Interval
  <2>3. IsFiniteSet(1..Len(s)) /\ Cardinality(1..Len(s)) = Len(s)
      BY <2>1, <2>2
  <2>4. s \in Injection(1..Len(s), Nodes)
      BY <1>1, <1>3 DEF Linked, Injection, IsInjective
  <2>5. QED  BY <1>2, <2>3, <2>4, FS_Injection DEF StackConstants
<1>5. PICK f : f = [i \in 0..N |-> IF i < Len(s) THEN s[i + 1] ELSE Null]
    OBVIOUS
<1>6. IsWalk(first, link, f)
  <2>1. ASSUME NEW i \in 0..N
        PROVE  f[i] = IF i = 0 THEN first ELSE IF f[i - 1] = Null THEN Null ELSE link[f[i - 1]]
    <3>1. f[i] = IF i < Len(s) THEN s[i + 1] ELSE Null
        BY <1>5
    <3>2. CASE i = 0
        BY <1>1, <1>3, <3>1, <3>2 DEF Linked
    <3>3. CASE i # 0 /\ i - 1 < Len(s)
      <4>1. i \in 1..Len(s) /\ f[i - 1] = s[i] /\ s[i] \in Nodes
          BY <1>3, <1>5, <2>1, <3>3
      <4>2. link[s[i]] = IF i < Len(s) THEN s[i + 1] ELSE Null
          BY <1>1, <1>3, <4>1 DEF Linked
      <4>3. QED  BY <3>1, <3>3, <4>1, <4>2 DEF StackConstants
    <3>4. CASE i # 0 /\ ~(i - 1 < Len(s))
      <4>1. f[i - 1] = Null
          BY <1>3, <1>5, <2>1, <3>4
      <4>2. QED  BY <1>3, <2>1, <3>1, <3>4, <4>1
    <3>5. QED  BY <3>2, <3>3, <3>4
  <2>2. f = [i \in 0..N |->
                IF i = 0 THEN first ELSE IF f[i - 1] = Null THEN Null ELSE link[f[i - 1]]]
      BY <1>5, <2>1
  <2>3. QED  BY <1>2, <2>2 DEF IsWalk
<1>7. IsWalk(first, link, WalkOf(first, link))
    BY <1>6 DEF WalkOf
<1>8. WalkOf(first, link) = f
    BY <1>2, <1>6, <1>7, WalkUnique
<1>9. WalkOf(first, link)[Cardinality(Nodes)] = Null
    BY <1>2, <1>3, <1>4, <1>5, <1>8
<1>10. ListedOf(first, link) = S
  <2>1. ListedOf(first, link) = {f[i] : i \in 0..N} \ {Null}
      BY <1>5, <1>8 DEF ListedOf
  <2>2. ASSUME NEW x \in S PROVE x \in {f[i] : i \in 0..N} \ {Null}
    <3>1. PICK i \in 1..Len(s) : x = s[i]
        BY <1>1 DEF NodesOf
    <3>2. i - 1 \in 0..N /\ f[i - 1] = s[(i - 1) + 1] /\ x \in Nodes
        BY <1>3, <1>4, <1>5, <3>1
    <3>3. QED  BY <3>1, <3>2 DEF StackConstants
  <2>3. ASSUME NEW i \in 0..N, f[i] # Null PROVE f[i] \in S
    <3>1. i < Len(s) /\ f[i] = s[i + 1] /\ i + 1 \in 1..Len(s)
        BY <1>3, <1>5, <2>3
    <3>2. QED  BY <1>1, <3>1 DEF NodesOf
  <2>4. QED  BY <2>1, <2>2, <2>3
<1>11. QED  BY <1>9, <1>10

(* The model's walk along list l is the one above.                         *)
LEMMA WalkIsWalkOf ==
    \A l : Walk(l) = WalkOf(top[l].node, next[l]) /\ Listed(l) = ListedOf(top[l].node, next[l])
<1>1. \A l : Walk(l) = WalkOf(top[l].node, next[l])
    BY DEF Walk, WalkOf, IsWalk
<1>2. QED  BY <1>1 DEF Listed, ListedOf

LEMMA WalkIsWalkOfNext ==
    \A l : Listed(l)' = ListedOf(top'[l].node, next'[l])
<1>1. \A l : Walk(l)' = WalkOf(top'[l].node, next'[l])
    BY DEF Walk, WalkOf, IsWalk
<1>2. QED  BY <1>1 DEF Listed, ListedOf

(* A list whose top and links stay is the same list.                       *)
LEMMA ListKept ==
    ASSUME StackConstants, NEW l, Chain(top[l].node, next[l], Listed(l)),
           top'[l].node = top[l].node, \A n \in Listed(l) : next'[l][n] = next[l][n]
    PROVE  Listed(l)' = Listed(l) /\ Chain(top'[l].node, next'[l], Listed(l)')
<1>1. Chain(top'[l].node, next'[l], Listed(l))
    BY ChainKeep
<1>2. Listed(l)' = Listed(l)
    BY <1>1, ChainWalk, WalkIsWalkOfNext
<1>3. QED  BY <1>1, <1>2

(* A node put in front, and the first node taken off.                      *)
LEMMA ListPut ==
    ASSUME StackConstants, NEW l, Chain(top[l].node, next[l], Listed(l)), next' = next,
           NEW n \in Nodes, n \notin Listed(l), next[l][n] = top[l].node, top'[l].node = n
    PROVE  Listed(l)' = Listed(l) \cup {n} /\ Chain(top'[l].node, next'[l], Listed(l)')
<1>1. Chain(n, next[l], Listed(l) \cup {n})
    BY ChainPut
<1>2. Chain(top'[l].node, next'[l], Listed(l) \cup {n})
    BY <1>1
<1>3. Listed(l)' = Listed(l) \cup {n}
    BY <1>2, ChainWalk, WalkIsWalkOfNext
<1>4. QED  BY <1>2, <1>3

LEMMA ListTake ==
    ASSUME StackConstants, NEW l, Chain(top[l].node, next[l], Listed(l)), next' = next,
           top[l].node # Null, top'[l].node = next[l][top[l].node]
    PROVE  /\ top[l].node \in Listed(l)
           /\ Listed(l)' = Listed(l) \ {top[l].node} /\ Chain(top'[l].node, next'[l], Listed(l)')
<1>1. top[l].node \in Listed(l) /\ Chain(next[l][top[l].node], next[l], Listed(l) \ {top[l].node})
    BY ChainTake DEF StackConstants
<1>2. Chain(top'[l].node, next'[l], Listed(l) \ {top[l].node})
    BY <1>1
<1>3. Listed(l)' = Listed(l) \ {top[l].node}
    BY <1>2, ChainWalk, WalkIsWalkOfNext
<1>4. QED  BY <1>1, <1>2, <1>3

-----------------------------------------------------------------------------
(* Whether a thread has a node of its own: from its allocation to the      *)
(* exchange that puts it into the stack, from Pop's exchange to Free's.    *)
Holding(t) ==
    \/ op[t] \in {"push", "free"} /\ pc[t] \in {"read", "cas"}
    \/ op[t] \in {"alloc", "pop"} /\ pc[t] = "count"

StackTypes == TypeOK /\ nodeCount \in Int /\ useCount \in Int /\ capacity \in Int

Roles ==
    \A t \in Threads :
        /\ pc[t] = "new" => op[t] = "alloc"
        /\ pc[t] = "next" => Takes(op[t])
        /\ Holding(t) <=> mine[t] # Null
        /\ pc[t] \in {"next", "cas"} /\ Takes(op[t]) => copy[t].node # Null

Chains == \A l \in Lists : Chain(top[l].node, next[l], Listed(l))

(* Every node made is in one place.                                        *)
Apart ==
    /\ \A t, u \in Threads : t # u /\ mine[t] # Null => mine[t] # mine[u]
    /\ \A t \in Threads, l \in Lists : mine[t] \notin Listed(l)
    /\ Listed("stack") \cap Listed("pool") = {}
    /\ made = Listed("stack") \cup Listed("pool") \cup Held

(* What a thread read is true as long as the list has not moved, and the   *)
(* stamp tells whether it has.                                             *)
Fresh ==
    \A t \in Threads : pc[t] \in {"next", "cas"} =>
        /\ top[ListOf(op[t])].stamp = (copy[t].stamp + age[t]) % Stamps
        /\ age[t] = 0 => top[ListOf(op[t])] = copy[t]
        /\ pc[t] = "cas" /\ Takes(op[t]) /\ age[t] = 0 => peek[t] = next[ListOf(op[t])][copy[t].node]
        /\ pc[t] = "cas" /\ ~Takes(op[t]) => next[ListOf(op[t])][mine[t]] = copy[t].node

(* The counters lag behind by the threads that have yet to count.          *)
Pushing == {t \in Threads : pc[t] = "count" /\ op[t] = "push"}
Popping == {t \in Threads : pc[t] = "count" /\ op[t] = "pop"}
Using == {t \in Threads : \/ op[t] = "push" /\ pc[t] \in {"read", "cas"}
                          \/ op[t] = "pop" /\ pc[t] = "count"
                          \/ op[t] = "free" /\ pc[t] \in {"read", "cas", "count"}}

Counts ==
    /\ nodeCount + Cardinality(Pushing) = Cardinality(Listed("stack")) + Cardinality(Popping)
    /\ useCount = Cardinality(Listed("stack")) + Cardinality(Using)
    /\ capacity = Cardinality(made)

StackInv == StackTypes /\ Roles /\ Chains /\ Apart /\ Fresh /\ Counts
-----------------------------------------------------------------------------
(***************************************************************************)
(* Arithmetic of stamps and counters.                                      *)
(***************************************************************************)
LEMMA DivMod ==
    ASSUME NEW n \in Nat \ {0}, NEW a \in Nat
    PROVE  (a \div n) \in Nat /\ (a % n) \in 0..(n - 1) /\ a = n * (a \div n) + (a % n)
OBVIOUS

LEMMA MultStep ==
    ASSUME NEW n \in Nat \ {0}, NEW p \in Nat, NEW q \in Nat, p < q
    PROVE  n * q >= n * p + n
OBVIOUS

(* A number has one remainder.                                             *)
LEMMA Remainder ==
    ASSUME NEW n \in Nat \ {0}, NEW a \in Nat, NEW p \in Nat, NEW r \in 0..(n - 1), a = n * p + r
    PROVE  a % n = r
<1>1. PICK q \in Nat, s \in 0..(n - 1) : s = a % n /\ a = n * q + s
    BY DivMod
<1>2. PICK x \in Nat, y \in Nat : x = n * p /\ y = n * q
    OBVIOUS
<1>3. CASE p < q
  <2>1. y >= x + n
      BY <1>2, <1>3, MultStep
  <2>2. QED  BY <1>1, <1>2, <2>1
<1>4. CASE q < p
  <2>1. x >= y + n
      BY <1>2, <1>4, MultStep
  <2>2. QED  BY <1>1, <1>2, <2>1
<1>5. CASE p = q
    BY <1>1, <1>2, <1>5
<1>6. QED  BY <1>3, <1>4, <1>5

(* The stamp of a thread that has missed no move is the one it read.       *)
LEMMA StampZero ==
    ASSUME NEW n \in Nat \ {0}, NEW c \in 0..(n - 1)
    PROVE  (c + 0) % n = c
<1>1. c \in Nat /\ c = n * 0 + c
    OBVIOUS
<1>2. c % n = c
    BY <1>1, Remainder
<1>3. QED  BY <1>1, <1>2

(* One more move, one more stamp.                                          *)
LEMMA StampNext ==
    ASSUME NEW n \in Nat \ {0}, NEW a \in Nat
    PROVE  ((a % n) + 1) % n = (a + 1) % n
<1>1. PICK p \in Nat, r \in 0..(n - 1) : r = a % n /\ a = n * p + r
    BY DivMod
<1>2. PICK b \in Nat : b = a + 1
    OBVIOUS
<1>3. PICK c \in Nat : c = r + 1
    OBVIOUS
<1>4. CASE r + 1 < n
  <2>1. c \in 0..(n - 1) /\ b = n * p + c /\ c = n * 0 + c
    <3>1. PICK x \in Nat : x = n * p
        OBVIOUS
    <3>2. QED  BY <1>1, <1>2, <1>3, <1>4, <3>1
  <2>2. b % n = c
      BY <2>1, Remainder
  <2>3. c % n = c
      BY <2>1, Remainder
  <2>4. QED  BY <1>1, <1>2, <1>3, <2>2, <2>3
<1>5. CASE r + 1 = n
  <2>1. n * (p + 1) = n * p + n /\ n * 1 = n
      OBVIOUS
  <2>2. b = n * (p + 1) + 0 /\ c = n * 1 + 0
    <3>1. PICK x \in Nat : x = n * p
        OBVIOUS
    <3>2. QED  BY <1>1, <1>2, <1>3, <1>5, <2>1, <3>1
  <2>3. 0 \in 0..(n - 1) /\ p + 1 \in Nat /\ 1 \in Nat
      OBVIOUS
  <2>4. b % n = 0
      BY <2>2, <2>3, Remainder
  <2>5. c % n = 0
      BY <2>2, <2>3, Remainder
  <2>6. QED  BY <1>1, <1>2, <1>3, <2>4, <2>5
<1>6. QED  BY <1>1, <1>4, <1>5

(* A thread that missed fewer moves than there are stamps, and finds its   *)
(* stamp, has missed none: why the exchange succeeds only on a list that   *)
(* has not moved.                                                          *)
LEMMA StampSame ==
    ASSUME NEW n \in Nat \ {0}, NEW c \in 0..(n - 1), NEW a \in 0..(n - 1), (c + a) % n = c
    PROVE  a = 0
<1>1. PICK b \in Nat : b = c + a
    OBVIOUS
<1>2. PICK q \in Nat : b = n * q + c
    BY <1>1, DivMod
<1>3. CASE q = 0
    BY <1>1, <1>2, <1>3
<1>4. CASE q > 0
  <2>1. n * q >= n * 0 + n
      BY <1>4, MultStep
  <2>2. PICK y \in Nat : y = n * q
      OBVIOUS
  <2>3. n * 0 = 0
      OBVIOUS
  <2>4. QED  BY <1>1, <1>2, <2>1, <2>2, <2>3
<1>5. QED  BY <1>3, <1>4

LEMMA CardPlus ==
    ASSUME NEW S, IsFiniteSet(S), NEW x, x \notin S
    PROVE  Cardinality(S \cup {x}) = Cardinality(S) + 1
BY FS_AddElement

LEMMA CardMinus ==
    ASSUME NEW S, IsFiniteSet(S), NEW x \in S
    PROVE  Cardinality(S \ {x}) = Cardinality(S) - 1
BY FS_RemoveElement

-----------------------------------------------------------------------------
(***************************************************************************)
(* The steps.                                                              *)
(***************************************************************************)

(* The lists are finite sets of nodes, and so are the threads that count.  *)
LEMMA ListsFinite ==
    ASSUME StackConstants, StackInv
    PROVE  /\ \A l \in Lists : Listed(l) \subseteq Nodes /\ IsFiniteSet(Listed(l))
           /\ \A l \in Lists : Cardinality(Listed(l)) \in Nat
           /\ IsFiniteSet(made) /\ Cardinality(made) \in Nat
           /\ IsFiniteSet(Pushing) /\ IsFiniteSet(Popping) /\ IsFiniteSet(Using)
           /\ Cardinality(Pushing) \in Nat /\ Cardinality(Popping) \in Nat /\ Cardinality(Using) \in Nat
<1>1. \A l \in Lists : Listed(l) \subseteq Nodes
    BY ChainNodes DEF StackConstants, StackInv, Chains
<1>2. \A l \in Lists : IsFiniteSet(Listed(l))
    BY <1>1, FS_Subset DEF StackConstants
<1>3. made \subseteq Nodes
    BY DEF StackInv, StackTypes, TypeOK
<1>4. Pushing \subseteq Threads /\ Popping \subseteq Threads /\ Using \subseteq Threads
    BY DEF Pushing, Popping, Using
<1>5. IsFiniteSet(made) /\ IsFiniteSet(Pushing) /\ IsFiniteSet(Popping) /\ IsFiniteSet(Using)
    BY <1>3, <1>4, FS_Subset DEF StackConstants
<1>6. QED  BY <1>1, <1>2, <1>5, FS_CardinalityType

(* Where neither a top nor a link is written, the lists stay.              *)
LEMMA ListsSame ==
    ASSUME UNCHANGED <<top, next>>
    PROVE  \A l : Listed(l)' = Listed(l)
BY WalkIsWalkOf, WalkIsWalkOfNext

(* The link of a node that a thread holds may be written.                  *)
LEMMA LinkWritten ==
    ASSUME StackConstants, StackInv, NEW t \in Threads, NEW k \in Lists, NEW x \in Nodes \cup {Null},
           mine[t] # Null, next' = [next EXCEPT ![k][mine[t]] = x], top' = top
    PROVE  /\ next' \in [Lists -> [Nodes -> Nodes \cup {Null}]]
           /\ \A l \in Lists : \A n \in Nodes \ {mine[t]} : next'[l][n] = next[l][n]
           /\ next'[k][mine[t]] = x
           /\ \A l \in Lists : Listed(l)' = Listed(l)
           /\ Chains'
<1>1. mine[t] \in Nodes /\ next \in [Lists -> [Nodes -> Nodes \cup {Null}]]
    BY DEF StackInv, StackTypes, TypeOK
<1>2. next' \in [Lists -> [Nodes -> Nodes \cup {Null}]]
    BY <1>1
<1>3. \A l \in Lists : \A n \in Nodes \ {mine[t]} : next'[l][n] = next[l][n]
    BY <1>1
<1>4. next'[k][mine[t]] = x
    BY <1>1
<1>5. ASSUME NEW l \in Lists
      PROVE  Listed(l)' = Listed(l) /\ Chain(top'[l].node, next'[l], Listed(l)')
  <2>1. Chain(top[l].node, next[l], Listed(l)) /\ mine[t] \notin Listed(l)
      BY DEF StackInv, Chains, Apart
  <2>2. Listed(l) \subseteq Nodes
      BY ListsFinite
  <2>3. \A n \in Listed(l) : next'[l][n] = next[l][n]
      BY <1>3, <2>1, <2>2
  <2>4. QED  BY <2>1, <2>3, ListKept
<1>6. QED  BY <1>2, <1>3, <1>4, <1>5 DEF Chains, Lists

(* What a thread has read stays true when the link of another's node is    *)
(* written.                                                                *)
LEMMA FreshKept ==
    ASSUME StackConstants, StackInv, NEW t \in Threads, mine[t] # Null,
           \A l \in Lists : \A n \in Nodes \ {mine[t]} : next'[l][n] = next[l][n],
           NEW u \in Threads, u # t, pc[u] = "cas"
    PROVE  /\ Takes(op[u]) /\ age[u] = 0 =>
                  next'[ListOf(op[u])][copy[u].node] = next[ListOf(op[u])][copy[u].node]
           /\ ~Takes(op[u]) => next'[ListOf(op[u])][mine[u]] = next[ListOf(op[u])][mine[u]]
<1>1. PICK l \in Lists : l = ListOf(op[u])
    BY DEF ListOf, Lists
<1>2. ASSUME Takes(op[u]), age[u] = 0 PROVE copy[u].node \in Nodes \ {mine[t]}
  <2>1. copy[u].node # Null /\ top[l] = copy[u]
      BY <1>1, <1>2 DEF StackInv, Roles, Fresh
  <2>2. copy[u].node \in Listed(l) /\ Listed(l) \subseteq Nodes
      BY <2>1, ChainNodes DEF StackInv, Chains, StackConstants
  <2>3. QED  BY <2>2 DEF StackInv, Apart
<1>3. ASSUME ~Takes(op[u]) PROVE mine[u] \in Nodes \ {mine[t]}
  <2>1. Holding(u)
      BY <1>3 DEF Holding, Takes, StackInv, StackTypes, TypeOK, Ops
  <2>2. mine[u] # Null /\ mine[u] \in Nodes \cup {Null}
      BY <2>1 DEF StackInv, Roles, StackTypes, TypeOK
  <2>3. QED  BY <2>2 DEF StackInv, Apart
<1>4. QED  BY <1>1, <1>2, <1>3

(* A call of Push or Pop begins.                                           *)
LEMMA BeginKeeps ==
    ASSUME StackConstants, StackInv, NEW t \in Threads, NEW o \in {"alloc", "pop"}, Begin(t, o)
    PROVE  StackInv'
<1> USE DEF StackInv
<1>1. /\ pc[t] = "idle" /\ op' = [op EXCEPT ![t] = o] /\ pc' = [pc EXCEPT ![t] = "read"]
      /\ UNCHANGED <<top, next, made, nodeCount, useCount, capacity, copy, peek, mine, age>>
    BY DEF Begin
<1>2. \A l \in Lists : Listed(l)' = Listed(l)
    BY <1>1, ListsSame
<1>3. StackTypes'
    BY <1>1 DEF StackTypes, TypeOK, Ops
<1>4. Roles'
    BY <1>1 DEF StackTypes, TypeOK, Roles, Holding, Takes
<1>5. Chains'
    BY <1>1, <1>2 DEF Chains
<1>6. Apart'
    BY <1>1, <1>2 DEF Apart, Held, Lists
<1>7. Fresh'
    BY <1>1 DEF StackTypes, TypeOK, Fresh
<1>8. Counts'
  <2>1. Pushing' = Pushing /\ Popping' = Popping /\ Using' = Using
      BY <1>1 DEF StackTypes, TypeOK, Pushing, Popping, Using
  <2>2. QED  BY <1>1, <1>2, <2>1 DEF Counts, Lists
<1>9. QED  BY <1>3, <1>4, <1>5, <1>6, <1>7, <1>8

(* Pop or Alloc reads the top.                                             *)
LEMMA ReadTopTakes ==
    ASSUME StackConstants, StackInv, NEW t \in Threads, ReadTop(t), Takes(op[t])
    PROVE  StackInv'
<1> USE DEF StackInv
<1>0. PICK l \in Lists : l = ListOf(op[t])
    BY DEF ListOf, Lists
<1>1. /\ pc[t] = "read" /\ age' = [age EXCEPT ![t] = 0]
      /\ copy' = [copy EXCEPT ![t] = IF top[l].node = Null THEN NoCopy ELSE top[l]]
      /\ pc' = [pc EXCEPT ![t] = IF top[l].node # Null THEN "next"
                                 ELSE IF op[t] = "alloc" THEN "new" ELSE "idle"]
      /\ UNCHANGED <<top, next, made, nodeCount, useCount, capacity, op, peek, mine>>
    BY <1>0 DEF ReadTop
<1>2. \A k \in Lists : Listed(k)' = Listed(k)
    BY <1>1, ListsSame
<1>3. StackTypes'
    BY <1>1 DEF StackTypes, TypeOK, Tops, NoCopy, StackConstants
<1>4. Roles'
    BY <1>1 DEF StackTypes, TypeOK, Roles, Holding, Takes, Ops
<1>5. Chains'
    BY <1>1, <1>2 DEF Chains
<1>6. Apart'
    BY <1>1, <1>2 DEF Apart, Held, Lists
<1>7. Fresh'
  <2>1. top[l].stamp \in 0..(Stamps - 1)
      BY DEF StackTypes, TypeOK, Tops
  <2>2. (top[l].stamp + 0) % Stamps = top[l].stamp
      BY <2>1, StampZero DEF StackConstants
  <2>3. ASSUME NEW u \in Threads, u # t, pc'[u] \in {"next", "cas"}
        PROVE  pc'[u] = pc[u] /\ copy'[u] = copy[u] /\ age'[u] = age[u]
      BY <1>1, <2>3 DEF StackTypes, TypeOK
  <2>4. ASSUME pc'[t] \in {"next", "cas"}
        PROVE  pc'[t] = "next" /\ copy'[t] = top[l] /\ age'[t] = 0
      BY <1>1, <2>4 DEF StackTypes, TypeOK
  <2>5. QED  BY <1>0, <1>1, <2>2, <2>3, <2>4 DEF Fresh
<1>8. Counts'
  <2>1. Pushing' = Pushing /\ Popping' = Popping /\ Using' = Using
      BY <1>1 DEF StackTypes, TypeOK, Pushing, Popping, Using, Takes
  <2>2. QED  BY <1>1, <1>2, <2>1 DEF Counts, Lists
<1>9. QED  BY <1>3, <1>4, <1>5, <1>6, <1>7, <1>8

(* Push or Free reads the top and hangs the list on its node.              *)
LEMMA ReadTopPuts ==
    ASSUME StackConstants, StackInv, NEW t \in Threads, ReadTop(t), ~Takes(op[t])
    PROVE  StackInv'
<1> USE DEF StackInv
<1>0. PICK l \in Lists : l = ListOf(op[t])
    BY DEF ListOf, Lists
<1>1. /\ pc[t] = "read" /\ age' = [age EXCEPT ![t] = 0]
      /\ copy' = [copy EXCEPT ![t] = top[l]]
      /\ next' = [next EXCEPT ![l][mine[t]] = top[l].node]
      /\ pc' = [pc EXCEPT ![t] = "cas"]
      /\ UNCHANGED <<top, made, nodeCount, useCount, capacity, op, peek, mine>>
    BY <1>0 DEF ReadTop
<1>2. Holding(t) /\ mine[t] # Null
    BY <1>1 DEF StackTypes, TypeOK, Ops, Takes, Holding, Roles
<1>3. top[l].node \in Nodes \cup {Null} /\ top[l].stamp \in 0..(Stamps - 1)
    BY DEF StackTypes, TypeOK, Tops
<1>4. /\ next' \in [Lists -> [Nodes -> Nodes \cup {Null}]]
      /\ \A k \in Lists : \A n \in Nodes \ {mine[t]} : next'[k][n] = next[k][n]
      /\ next'[l][mine[t]] = top[l].node
      /\ \A k \in Lists : Listed(k)' = Listed(k)
      /\ Chains'
    BY <1>1, <1>2, <1>3, LinkWritten
<1>5. StackTypes'
    BY <1>1, <1>4 DEF StackTypes, TypeOK, Tops, StackConstants
<1>6. Roles'
    BY <1>1 DEF StackTypes, TypeOK, Roles, Holding, Takes, Ops
<1>7. Apart'
    BY <1>1, <1>4 DEF Apart, Held, Lists
<1>8. Fresh'
  <2>1. (top[l].stamp + 0) % Stamps = top[l].stamp
      BY <1>3, StampZero DEF StackConstants
  <2>2. ASSUME NEW u \in Threads, u # t, pc'[u] \in {"next", "cas"}
        PROVE  pc'[u] = pc[u] /\ copy'[u] = copy[u] /\ age'[u] = age[u]
      BY <1>1, <2>2 DEF StackTypes, TypeOK
  <2>3. ASSUME NEW u \in Threads, u # t, pc[u] = "cas"
        PROVE  /\ Takes(op[u]) /\ age[u] = 0 =>
                      next'[ListOf(op[u])][copy[u].node] = next[ListOf(op[u])][copy[u].node]
               /\ ~Takes(op[u]) => next'[ListOf(op[u])][mine[u]] = next[ListOf(op[u])][mine[u]]
      BY <1>2, <1>4, <2>3, FreshKept
  <2>4. pc'[t] = "cas" /\ copy'[t] = top[l] /\ age'[t] = 0
      BY <1>1 DEF StackTypes, TypeOK
  <2>5. ASSUME NEW u \in Threads, u # t, pc[u] \in {"next", "cas"}
        PROVE  /\ top[ListOf(op[u])].stamp = (copy[u].stamp + age[u]) % Stamps
               /\ age[u] = 0 => top[ListOf(op[u])] = copy[u]
               /\ pc[u] = "cas" /\ Takes(op[u]) /\ age[u] = 0 =>
                      peek[u] = next'[ListOf(op[u])][copy[u].node]
               /\ pc[u] = "cas" /\ ~Takes(op[u]) => next'[ListOf(op[u])][mine[u]] = copy[u].node
      BY <2>3, <2>5 DEF Fresh
  <2>6. QED  BY <1>0, <1>1, <1>4, <2>1, <2>2, <2>4, <2>5 DEF Fresh
<1>9. Counts'
  <2>1. Pushing' = Pushing /\ Popping' = Popping /\ Using' = Using
      BY <1>1, <1>2 DEF StackTypes, TypeOK, Pushing, Popping, Using, Takes, Holding
  <2>2. QED  BY <1>1, <1>4, <2>1 DEF Counts, Lists
<1>10. QED  BY <1>4, <1>5, <1>6, <1>7, <1>8, <1>9

(* A node is created: it is nowhere yet.                                   *)
LEMMA NewNodeKeeps ==
    ASSUME StackConstants, StackInv, NEW t \in Threads, NewNode(t)
    PROVE  StackInv'
<1> USE DEF StackInv
<1>1. PICK n \in Nodes \ made :
          /\ pc[t] = "new" /\ made' = made \cup {n} /\ mine' = [mine EXCEPT ![t] = n]
          /\ capacity' = capacity + 1 /\ useCount' = useCount + 1
          /\ op' = [op EXCEPT ![t] = "push"] /\ pc' = [pc EXCEPT ![t] = "read"]
          /\ UNCHANGED <<top, next, nodeCount, copy, peek, age>>
    BY DEF NewNode
<1>2. \A k \in Lists : Listed(k)' = Listed(k)
    BY <1>1, ListsSame
<1>3. op[t] = "alloc" /\ mine[t] = Null
    BY <1>1 DEF Roles, Holding
<1>4. StackTypes'
    BY <1>1 DEF StackTypes, TypeOK, Ops
<1>5. Roles'
    BY <1>1 DEF StackTypes, TypeOK, Roles, Holding, Takes, StackConstants
<1>6. Chains'
    BY <1>1, <1>2 DEF Chains
<1>7. Apart'
  <2>1. \A k \in Lists : n \notin Listed(k)
      BY DEF Apart, Lists
  <2>2. \A u \in Threads : mine[u] # n
      BY DEF Apart, Held, StackConstants
  <2>3. mine'[t] = n /\ \A u \in Threads \ {t} : mine'[u] = mine[u]
      BY <1>1 DEF StackTypes, TypeOK
  <2>4. Held' = Held \cup {n}
      BY <1>3, <2>3 DEF Held, StackConstants
  <2>5. made' = Listed("stack") \cup Listed("pool") \cup Held'
      BY <1>1, <2>4 DEF Apart
  <2>6. QED  BY <1>2, <2>1, <2>2, <2>3, <2>5 DEF Apart, Lists
<1>8. Fresh'
    BY <1>1 DEF StackTypes, TypeOK, Fresh
<1>9. Counts'
  <2>1. Pushing' = Pushing /\ Popping' = Popping /\ Using' = Using \cup {t} /\ t \notin Using
      BY <1>1, <1>3 DEF StackTypes, TypeOK, Pushing, Popping, Using
  <2>2. Cardinality(Using') = Cardinality(Using) + 1 /\ Cardinality(made') = Cardinality(made) + 1
      BY <1>1, <2>1, ListsFinite, CardPlus
  <2>3. QED  BY <1>1, <1>2, <2>1, <2>2, ListsFinite DEF Counts, Lists
<1>10. QED  BY <1>4, <1>5, <1>6, <1>7, <1>8, <1>9

(* The link of the top is read: it is the second node if the list has not  *)
(* moved.                                                                  *)
LEMMA ReadNextKeeps ==
    ASSUME StackConstants, StackInv, NEW t \in Threads, ReadNext(t)
    PROVE  StackInv'
<1> USE DEF StackInv
<1>0. PICK l \in Lists : l = ListOf(op[t])
    BY DEF ListOf, Lists
<1>1. /\ pc[t] = "next" /\ pc' = [pc EXCEPT ![t] = "cas"]
      /\ peek' = [peek EXCEPT ![t] = next[l][copy[t].node]]
      /\ UNCHANGED <<top, next, made, nodeCount, useCount, capacity, op, copy, mine, age>>
    BY <1>0 DEF ReadNext
<1>2. \A k \in Lists : Listed(k)' = Listed(k)
    BY <1>1, ListsSame
<1>3. Takes(op[t]) /\ copy[t].node \in Nodes
    BY <1>1 DEF Roles, StackTypes, TypeOK, Tops
<1>4. StackTypes'
    BY <1>1, <1>3 DEF StackTypes, TypeOK
<1>5. Roles'
    BY <1>1, <1>3 DEF StackTypes, TypeOK, Roles, Holding, Takes
<1>6. Chains'
    BY <1>1, <1>2 DEF Chains
<1>7. Apart'
    BY <1>1, <1>2 DEF Apart, Held, Lists
<1>8. Fresh'
    BY <1>0, <1>1, <1>3 DEF StackTypes, TypeOK, Fresh
<1>9. Counts'
  <2>1. Pushing' = Pushing /\ Popping' = Popping /\ Using' = Using
      BY <1>1, <1>3 DEF StackTypes, TypeOK, Pushing, Popping, Using, Takes
  <2>2. QED  BY <1>1, <1>2, <2>1 DEF Counts, Lists
<1>10. QED  BY <1>4, <1>5, <1>6, <1>7, <1>8, <1>9

(* An exchange that fails leaves everything to the next round.             *)
LEMMA CasFails ==
    ASSUME StackConstants, StackInv, NEW t \in Threads, pc[t] = "cas",
           age' = [age EXCEPT ![t] = 0], pc' = [pc EXCEPT ![t] = "read"],
           copy' = [copy EXCEPT ![t] = NoCopy], peek' = [peek EXCEPT ![t] = Null],
           UNCHANGED <<top, mine, next, made, nodeCount, useCount, capacity, op>>
    PROVE  StackInv'
<1> USE DEF StackInv
<1>1. \A k \in Lists : Listed(k)' = Listed(k)
    BY ListsSame
<1>2. StackTypes'
    BY DEF StackTypes, TypeOK, Tops, NoCopy, StackConstants
<1>3. Roles'
    BY DEF StackTypes, TypeOK, Roles, Holding, Takes
<1>4. Chains'
    BY <1>1 DEF Chains
<1>5. Apart'
    BY <1>1 DEF Apart, Held, Lists
<1>6. Fresh'
    BY DEF StackTypes, TypeOK, Fresh
<1>7. Counts'
  <2>1. Pushing' = Pushing /\ Popping' = Popping /\ Using' = Using
      BY DEF StackTypes, TypeOK, Pushing, Popping, Using
  <2>2. QED  BY <1>1, <2>1 DEF Counts, Lists
<1>8. QED  BY <1>2, <1>3, <1>4, <1>5, <1>6, <1>7

(* What every successful exchange of top[l] does, whatever node it writes. *)
Moved(t, l, node, held) ==
    /\ pc[t] = "cas" /\ l = ListOf(op[t]) /\ top[l] = copy[t]
    /\ \A u \in Rivals(t) : age[u] + 1 < Stamps
    /\ top' = [top EXCEPT ![l] = [node |-> node, stamp |-> NextStamp(copy[t].stamp)]]
    /\ mine' = [mine EXCEPT ![t] = held]
    /\ age' = [u \in Threads |-> IF u = t THEN 0 ELSE IF u \in Rivals(t) THEN age[u] + 1 ELSE age[u]]
    /\ pc' = [pc EXCEPT ![t] = "count"]
    /\ copy' = [copy EXCEPT ![t] = NoCopy]
    /\ peek' = [peek EXCEPT ![t] = Null]
    /\ UNCHANGED <<next, made, nodeCount, useCount, capacity, op>>

(* A thread whose exchange succeeds has missed no move of the list.        *)
LEMMA CasFresh ==
    ASSUME StackConstants, StackInv, NEW t \in Threads, pc[t] = "cas", top[ListOf(op[t])] = copy[t]
    PROVE  age[t] = 0
<1>1. PICK c \in 0..(Stamps - 1), a \in 0..(Stamps - 1) : c = copy[t].stamp /\ a = age[t]
    BY DEF StackInv, StackTypes, TypeOK, Tops
<1>2. (c + a) % Stamps = c
    BY <1>1 DEF StackInv, Fresh
<1>3. a = 0
    BY <1>2, StampSame DEF StackConstants
<1>4. QED  BY <1>1, <1>3

LEMMA MovedTypes ==
    ASSUME StackConstants, StackInv, NEW t \in Threads, NEW l \in Lists,
           NEW node \in Nodes \cup {Null}, NEW held \in Nodes \cup {Null}, Moved(t, l, node, held)
    PROVE  StackTypes'
<1>1. copy[t].stamp \in 0..(Stamps - 1)
    BY DEF StackInv, StackTypes, TypeOK, Tops
<1>2. NextStamp(copy[t].stamp) \in 0..(Stamps - 1)
  <2>1. copy[t].stamp + 1 \in Nat
      BY <1>1
  <2>2. QED  BY <2>1, DivMod DEF NextStamp, StackConstants
<1>3. top' \in [Lists -> Tops]
    BY <1>2 DEF Moved, StackInv, StackTypes, TypeOK, Tops
<1>4. age' \in [Threads -> 0..(Stamps - 1)]
    BY DEF Moved, StackInv, StackTypes, TypeOK, StackConstants
<1>5. copy' \in [Threads -> Tops]
    BY DEF Moved, NoCopy, Tops, StackInv, StackTypes, TypeOK, StackConstants
<1>6. QED  BY <1>3, <1>4, <1>5 DEF Moved, StackInv, StackTypes, TypeOK

(* The others notice: their stamp is one more behind.                      *)
LEMMA MovedFresh ==
    ASSUME StackConstants, StackInv, NEW t \in Threads, NEW l \in Lists, NEW node, NEW held,
           Moved(t, l, node, held)
    PROVE  Fresh'
<1>1. SUFFICES ASSUME NEW u \in Threads, pc'[u] \in {"next", "cas"}
      PROVE  /\ top'[ListOf(op[u])].stamp = (copy'[u].stamp + age'[u]) % Stamps
             /\ age'[u] = 0 => top'[ListOf(op[u])] = copy'[u]
             /\ pc'[u] = "cas" /\ Takes(op[u]) /\ age'[u] = 0 =>
                    peek'[u] = next[ListOf(op[u])][copy'[u].node]
             /\ pc'[u] = "cas" /\ ~Takes(op[u]) => next[ListOf(op[u])][mine'[u]] = copy'[u].node
    BY DEF Fresh, Moved
<1>2. /\ u # t /\ pc[u] = pc'[u] /\ copy'[u] = copy[u] /\ peek'[u] = peek[u] /\ mine'[u] = mine[u]
      /\ age'[u] = IF u \in Rivals(t) THEN age[u] + 1 ELSE age[u]
    BY <1>1 DEF Moved, StackInv, StackTypes, TypeOK
<1>3. PICK k \in Lists : k = ListOf(op[u])
    BY DEF ListOf, Lists
<1>4. u \in Rivals(t) <=> k = l
    BY <1>1, <1>2, <1>3 DEF Moved, Rivals
<1>5. /\ top[k].stamp = (copy[u].stamp + age[u]) % Stamps
      /\ age[u] = 0 => top[k] = copy[u]
      /\ pc[u] = "cas" /\ Takes(op[u]) /\ age[u] = 0 => peek[u] = next[k][copy[u].node]
      /\ pc[u] = "cas" /\ ~Takes(op[u]) => next[k][mine[u]] = copy[u].node
    BY <1>1, <1>2, <1>3 DEF StackInv, Fresh
<1>6. PICK a \in Nat, c \in Nat : a = age[u] /\ c = copy[u].stamp
    BY DEF StackInv, StackTypes, TypeOK, Tops
<1>7. CASE k # l
  <2>1. top'[k] = top[k] /\ age'[u] = age[u]
      BY <1>2, <1>4, <1>7 DEF Moved, StackInv, StackTypes, TypeOK
  <2>2. QED  BY <1>2, <1>3, <1>5, <2>1
<1>8. CASE k = l
  <2>1. age'[u] = a + 1 /\ age'[u] # 0
      BY <1>2, <1>4, <1>6, <1>8
  <2>2. top'[k].stamp = (((c + a) % Stamps) + 1) % Stamps
      BY <1>5, <1>6, <1>8 DEF Moved, NextStamp, StackInv, StackTypes, TypeOK
  <2>3. PICK x \in Nat : x = c + a
      OBVIOUS
  <2>4. ((x % Stamps) + 1) % Stamps = (x + 1) % Stamps
      BY StampNext DEF StackConstants
  <2>5. top'[k].stamp = (x + 1) % Stamps
      BY <2>2, <2>3, <2>4
  <2>6. x + 1 = c + (a + 1)
      BY <2>3
  <2>7. QED  BY <1>2, <1>3, <1>5, <1>6, <2>1, <2>5, <2>6
<1>9. QED  BY <1>7, <1>8

(* The other list is not touched.                                          *)
LEMMA MovedOther ==
    ASSUME StackConstants, StackInv, NEW t \in Threads, NEW l \in Lists, NEW node, NEW held,
           Moved(t, l, node, held), NEW k \in Lists, k # l
    PROVE  Listed(k)' = Listed(k) /\ Chain(top'[k].node, next'[k], Listed(k)')
<1>1. top'[k] = top[k] /\ next' = next
    BY DEF Moved, StackInv, StackTypes, TypeOK
<1>2. Chain(top[k].node, next[k], Listed(k))
    BY DEF StackInv, Chains
<1>3. QED  BY <1>1, <1>2, ListKept

(* Pop and Alloc take the first node: it goes from the list to the thread. *)
LEMMA CasTakes ==
    ASSUME StackConstants, StackInv, NEW t \in Threads, NEW l \in Lists, Takes(op[t]),
           Moved(t, l, peek[t], copy[t].node)
    PROVE  StackInv'
<1> USE DEF StackInv
<1>1. /\ pc[t] = "cas" /\ l = ListOf(op[t]) /\ top[l] = copy[t] /\ next' = next /\ op' = op
      /\ pc' = [pc EXCEPT ![t] = "count"] /\ mine' = [mine EXCEPT ![t] = copy[t].node]
      /\ UNCHANGED <<made, nodeCount, useCount, capacity>>
    BY DEF Moved
<1>2. PICK n \in Nodes : n = copy[t].node /\ n = top[l].node
    BY <1>1 DEF Roles, StackTypes, TypeOK, Tops
<1>3. peek[t] \in Nodes \cup {Null} /\ peek[t] = next[l][n]
    BY <1>1, <1>2, CasFresh DEF Fresh, StackTypes, TypeOK
<1>4. top'[l].node = peek[t]
    BY DEF Moved, StackTypes, TypeOK
<1>5. n \in Listed(l) /\ Listed(l)' = Listed(l) \ {n} /\ Chain(top'[l].node, next'[l], Listed(l)')
    BY <1>1, <1>2, <1>3, <1>4, ListTake DEF Chains, StackConstants
<1>6. \A k \in Lists \ {l} : Listed(k)' = Listed(k) /\ Chain(top'[k].node, next'[k], Listed(k)')
    BY MovedOther
<1>7. mine[t] = Null /\ mine'[t] = n /\ \A u \in Threads \ {t} : mine'[u] = mine[u]
    BY <1>1, <1>2 DEF Roles, Holding, Takes, StackTypes, TypeOK
<1>8. StackTypes'
    BY <1>2, <1>3, MovedTypes
<1>9. Roles'
  <2>1. \A u \in Threads \ {t} : pc'[u] = pc[u] /\ copy'[u] = copy[u]
      BY DEF Moved, StackTypes, TypeOK
  <2>2. pc'[t] = "count"
      BY <1>1 DEF StackTypes, TypeOK
  <2>3. QED  BY <1>1, <1>2, <1>7, <2>1, <2>2 DEF Roles, Holding, Takes, StackTypes, TypeOK, StackConstants
<1>10. Chains'
    BY <1>5, <1>6 DEF Chains
<1>11. Apart'
  <2>1. \A u \in Threads : mine[u] # n
      BY <1>5 DEF Apart
  <2>2. \A k \in Lists : n \notin Listed(k)'
      BY <1>5, <1>6 DEF Apart, Lists
  <2>3. \A k \in Lists : Listed(k)' \subseteq Listed(k)
      BY <1>5, <1>6
  <2>4. Held' = Held \cup {n}
      BY <1>7 DEF Held, StackConstants
  <2>5. Listed("stack")' \cup Listed("pool")' \cup {n} = Listed("stack") \cup Listed("pool")
      BY <1>5, <1>6 DEF Lists
  <2>6. made' = Listed("stack")' \cup Listed("pool")' \cup Held'
      BY <1>1, <2>4, <2>5 DEF Apart
  <2>7. \A u, v \in Threads : u # v /\ mine'[u] # Null => mine'[u] # mine'[v]
      BY <1>7, <2>1 DEF Apart
  <2>8. \A u \in Threads, k \in Lists : mine'[u] \notin Listed(k)'
      BY <1>7, <2>2, <2>3 DEF Apart
  <2>9. Listed("stack")' \cap Listed("pool")' = {}
      BY <2>3 DEF Apart, Lists
  <2>10. QED  BY <2>6, <2>7, <2>8, <2>9 DEF Apart
<1>12. Fresh'
    BY MovedFresh
<1>13. Counts'
  <2>1. CASE op[t] = "pop"
    <3>1. l = "stack"
        BY <1>1, <2>1 DEF ListOf
    <3>2. /\ Pushing' = Pushing /\ Popping' = Popping \cup {t} /\ t \notin Popping
          /\ Using' = Using \cup {t} /\ t \notin Using
        BY <1>1, <2>1 DEF Pushing, Popping, Using, StackTypes, TypeOK
    <3>3. /\ Cardinality(Listed("stack")') = Cardinality(Listed("stack")) - 1
          /\ Cardinality(Popping') = Cardinality(Popping) + 1
          /\ Cardinality(Using') = Cardinality(Using) + 1
        BY <1>5, <3>1, <3>2, ListsFinite, CardPlus, CardMinus
    <3>4. QED  BY <1>1, <3>2, <3>3, ListsFinite DEF Counts, Lists
  <2>2. CASE op[t] = "alloc"
    <3>1. l = "pool" /\ Listed("stack")' = Listed("stack")
        BY <1>1, <1>6, <2>2 DEF ListOf, Lists
    <3>2. Pushing' = Pushing /\ Popping' = Popping /\ Using' = Using
        BY <1>1, <2>2 DEF Pushing, Popping, Using, StackTypes, TypeOK
    <3>3. QED  BY <1>1, <3>1, <3>2 DEF Counts
  <2>3. QED  BY <2>1, <2>2 DEF Takes
<1>14. QED  BY <1>8, <1>9, <1>10, <1>11, <1>12, <1>13

(* Push and Free put the thread's node in front.                           *)
LEMMA CasPuts ==
    ASSUME StackConstants, StackInv, NEW t \in Threads, NEW l \in Lists, ~Takes(op[t]),
           Moved(t, l, mine[t], Null)
    PROVE  StackInv'
<1> USE DEF StackInv
<1>1. /\ pc[t] = "cas" /\ l = ListOf(op[t]) /\ top[l] = copy[t] /\ next' = next /\ op' = op
      /\ pc' = [pc EXCEPT ![t] = "count"] /\ mine' = [mine EXCEPT ![t] = Null]
      /\ UNCHANGED <<made, nodeCount, useCount, capacity>>
    BY DEF Moved
<1>2. op[t] \in {"push", "free"}
    BY DEF Takes, StackTypes, TypeOK, Ops
<1>3. PICK n \in Nodes : n = mine[t]
    BY <1>1, <1>2 DEF Roles, Holding, StackTypes, TypeOK
<1>4. n \notin Listed(l) /\ next[l][n] = top[l].node
    BY <1>1, <1>3 DEF Apart, Fresh
<1>5. top'[l].node = n
    BY <1>3 DEF Moved, StackTypes, TypeOK
<1>6. Listed(l)' = Listed(l) \cup {n} /\ Chain(top'[l].node, next'[l], Listed(l)')
    BY <1>1, <1>4, <1>5, ListPut DEF Chains
<1>7. \A k \in Lists \ {l} : Listed(k)' = Listed(k) /\ Chain(top'[k].node, next'[k], Listed(k)')
    BY MovedOther
<1>8. mine'[t] = Null /\ \A u \in Threads \ {t} : mine'[u] = mine[u]
    BY <1>1 DEF StackTypes, TypeOK
<1>9. StackTypes'
    BY <1>3, MovedTypes
<1>10. Roles'
  <2>1. \A u \in Threads \ {t} : pc'[u] = pc[u] /\ copy'[u] = copy[u]
      BY DEF Moved, StackTypes, TypeOK
  <2>2. pc'[t] = "count"
      BY <1>1 DEF StackTypes, TypeOK
  <2>3. QED  BY <1>1, <1>2, <1>8, <2>1, <2>2 DEF Roles, Holding, Takes, StackTypes, TypeOK
<1>11. Chains'
    BY <1>6, <1>7 DEF Chains
<1>12. Apart'
  <2>1. \A u \in Threads \ {t} : mine[u] # n
      BY <1>3 DEF Apart, StackConstants
  <2>2. \A k \in Lists : Listed(k)' \subseteq Listed(k) \cup {n}
      BY <1>6, <1>7
  <2>3. \A k \in Lists : n \notin Listed(k)
      BY <1>3 DEF Apart
  <2>4. Held = Held' \cup {n}
      BY <1>3, <1>8 DEF Held, StackConstants
  <2>5. Listed("stack")' \cup Listed("pool")' = Listed("stack") \cup Listed("pool") \cup {n}
      BY <1>6, <1>7 DEF Lists
  <2>6. made' = Listed("stack")' \cup Listed("pool")' \cup Held'
      BY <1>1, <2>4, <2>5 DEF Apart
  <2>7. \A u, v \in Threads : u # v /\ mine'[u] # Null => mine'[u] # mine'[v]
      BY <1>8 DEF Apart
  <2>8. \A k \in Lists : Null \notin Listed(k)
      BY ListsFinite DEF StackConstants
  <2>9. \A u \in Threads, k \in Lists : mine'[u] \notin Listed(k)'
      BY <1>3, <1>8, <2>1, <2>2, <2>8 DEF Apart, StackConstants
  <2>10. Listed("stack")' \cap Listed("pool")' = {}
      BY <1>6, <1>7, <2>3 DEF Apart, Lists
  <2>11. QED  BY <2>6, <2>7, <2>9, <2>10 DEF Apart
<1>13. Fresh'
    BY MovedFresh
<1>14. Counts'
  <2>1. CASE op[t] = "push"
    <3>1. l = "stack"
        BY <1>1, <2>1 DEF ListOf
    <3>2. /\ Pushing' = Pushing \cup {t} /\ t \notin Pushing /\ Popping' = Popping
          /\ Using' = Using \ {t} /\ t \in Using
        BY <1>1, <2>1 DEF Pushing, Popping, Using, StackTypes, TypeOK
    <3>3. /\ Cardinality(Listed("stack")') = Cardinality(Listed("stack")) + 1
          /\ Cardinality(Pushing') = Cardinality(Pushing) + 1
          /\ Cardinality(Using') = Cardinality(Using) - 1
        BY <1>4, <1>6, <3>1, <3>2, ListsFinite, CardPlus, CardMinus
    <3>4. /\ Cardinality(Listed("stack")) \in Nat /\ Cardinality(Pushing) \in Nat
          /\ Cardinality(Popping) \in Nat /\ Cardinality(Using) \in Nat
        BY ListsFinite DEF Lists
    <3>5. nodeCount \in Int /\ useCount \in Int
        BY DEF StackTypes
    <3>6. QED  BY <1>1, <3>2, <3>3, <3>4, <3>5 DEF Counts
  <2>2. CASE op[t] = "free"
    <3>1. l = "pool" /\ Listed("stack")' = Listed("stack")
        BY <1>1, <1>7, <2>2 DEF ListOf, Lists
    <3>2. Pushing' = Pushing /\ Popping' = Popping /\ Using' = Using
        BY <1>1, <2>2 DEF Pushing, Popping, Using, StackTypes, TypeOK
    <3>3. QED  BY <1>1, <3>1, <3>2 DEF Counts
  <2>3. QED  BY <1>2, <2>1, <2>2
<1>15. QED  BY <1>9, <1>10, <1>11, <1>12, <1>13, <1>14

(* The compare-exchange.                                                   *)
LEMMA CasKeeps ==
    ASSUME StackConstants, StackInv, NEW t \in Threads, Cas(t)
    PROVE  StackInv'
<1>1. PICK l \in Lists : l = ListOf(op[t])
    BY DEF ListOf, Lists
<1>2. CASE top[l] # copy[t]
    BY <1>1, <1>2, CasFails DEF Cas
<1>3. CASE top[l] = copy[t] /\ Takes(op[t])
  <2>1. Moved(t, l, peek[t], copy[t].node)
      BY <1>1, <1>3 DEF Cas, Moved
  <2>2. QED  BY <1>3, <2>1, CasTakes
<1>4. CASE top[l] = copy[t] /\ ~Takes(op[t])
  <2>1. Moved(t, l, mine[t], Null)
      BY <1>1, <1>4 DEF Cas, Moved
  <2>2. QED  BY <1>4, <2>1, CasPuts
<1>5. QED  BY <1>2, <1>3, <1>4

(* The node is constructed and the push goes on with it.                   *)
LEMMA CountAllocKeeps ==
    ASSUME StackConstants, StackInv, NEW t \in Threads, CountAlloc(t)
    PROVE  StackInv'
<1> USE DEF StackInv
<1>1. /\ pc[t] = "count" /\ op[t] = "alloc" /\ useCount' = useCount + 1
      /\ next' = [next EXCEPT !["stack"][mine[t]] = Null]
      /\ op' = [op EXCEPT ![t] = "push"] /\ pc' = [pc EXCEPT ![t] = "read"]
      /\ UNCHANGED <<top, made, nodeCount, capacity, copy, peek, mine, age>>
    BY DEF CountAlloc
<1>2. mine[t] # Null
    BY <1>1 DEF Roles, Holding
<1>3. /\ next' \in [Lists -> [Nodes -> Nodes \cup {Null}]]
      /\ \A k \in Lists : \A n \in Nodes \ {mine[t]} : next'[k][n] = next[k][n]
      /\ \A k \in Lists : Listed(k)' = Listed(k)
      /\ Chains'
  <2>1. "stack" \in Lists /\ Null \in Nodes \cup {Null}
      BY DEF Lists
  <2>2. QED  BY <1>1, <1>2, <2>1, LinkWritten
<1>4. StackTypes'
    BY <1>1, <1>3 DEF StackTypes, TypeOK, Ops
<1>5. Roles'
    BY <1>1, <1>2 DEF StackTypes, TypeOK, Roles, Holding, Takes
<1>6. Apart'
    BY <1>1, <1>3 DEF Apart, Held, Lists
<1>7. Fresh'
  <2>1. ASSUME NEW u \in Threads, pc'[u] \in {"next", "cas"}
        PROVE  u # t /\ pc'[u] = pc[u] /\ op'[u] = op[u]
      BY <1>1, <2>1 DEF StackTypes, TypeOK
  <2>2. ASSUME NEW u \in Threads, u # t, pc[u] = "cas"
        PROVE  /\ Takes(op[u]) /\ age[u] = 0 =>
                      next'[ListOf(op[u])][copy[u].node] = next[ListOf(op[u])][copy[u].node]
               /\ ~Takes(op[u]) => next'[ListOf(op[u])][mine[u]] = next[ListOf(op[u])][mine[u]]
      BY <1>2, <1>3, <2>2, FreshKept
  <2>3. QED  BY <1>1, <2>1, <2>2 DEF Fresh
<1>8. Counts'
  <2>1. Pushing' = Pushing /\ Popping' = Popping /\ Using' = Using \cup {t} /\ t \notin Using
      BY <1>1 DEF StackTypes, TypeOK, Pushing, Popping, Using
  <2>2. Cardinality(Using') = Cardinality(Using) + 1
      BY <2>1, ListsFinite, CardPlus
  <2>3. QED  BY <1>1, <1>3, <2>1, <2>2, ListsFinite DEF Counts, Lists
<1>9. QED  BY <1>3, <1>4, <1>5, <1>6, <1>7, <1>8

(* The counters catch up after Push, Pop and Free.                         *)
LEMMA CountKeeps ==
    ASSUME StackConstants, StackInv, NEW t \in Threads, CountPush(t) \/ CountPop(t) \/ CountFree(t)
    PROVE  StackInv'
<1> USE DEF StackInv
<1>1. /\ pc[t] = "count" /\ UNCHANGED <<top, next, made, capacity, copy, peek, mine, age>>
      /\ \A u \in Threads \ {t} : pc'[u] = pc[u] /\ op'[u] = op[u]
    BY DEF CountPush, CountPop, CountFree, StackTypes, TypeOK
<1>2. \/ /\ op[t] = "push" /\ op'[t] = "push" /\ pc'[t] = "idle"
         /\ nodeCount' = nodeCount + 1 /\ useCount' = useCount
      \/ /\ op[t] = "pop" /\ op'[t] = "free" /\ pc'[t] = "read"
         /\ nodeCount' = nodeCount - 1 /\ useCount' = useCount
      \/ /\ op[t] = "free" /\ op'[t] = "free" /\ pc'[t] = "idle"
         /\ nodeCount' = nodeCount /\ useCount' = useCount - 1
    BY DEF CountPush, CountPop, CountFree, StackTypes, TypeOK
<1>3. \A k \in Lists : Listed(k)' = Listed(k)
    BY <1>1, ListsSame
<1>4. StackTypes'
    BY DEF CountPush, CountPop, CountFree, StackTypes, TypeOK, Ops
<1>5. Roles'
    BY <1>1, <1>2 DEF Roles, Holding, Takes
<1>6. Chains'
    BY <1>1, <1>3 DEF Chains
<1>7. Apart'
    BY <1>1, <1>3 DEF Apart, Held, Lists
<1>8. Fresh'
    BY <1>1, <1>2 DEF Fresh
<1>9. Counts'
  <2>1. /\ Cardinality(Listed("stack")) \in Nat /\ Cardinality(Pushing) \in Nat
        /\ Cardinality(Popping) \in Nat /\ Cardinality(Using) \in Nat
        /\ IsFiniteSet(Pushing) /\ IsFiniteSet(Popping) /\ IsFiniteSet(Using)
      BY ListsFinite DEF Lists
  <2>2. nodeCount \in Int /\ useCount \in Int /\ Listed("stack")' = Listed("stack") /\ made' = made
      BY <1>1, <1>3 DEF StackTypes, Lists
  <2>3. CASE op[t] = "push"
    <3>1. Pushing' = Pushing \ {t} /\ t \in Pushing /\ Popping' = Popping /\ Using' = Using
        BY <1>1, <1>2, <2>3 DEF Pushing, Popping, Using
    <3>2. Cardinality(Pushing') = Cardinality(Pushing) - 1
        BY <2>1, <3>1, CardMinus
    <3>3. QED  BY <1>1, <1>2, <2>1, <2>2, <2>3, <3>1, <3>2 DEF Counts
  <2>4. CASE op[t] = "pop"
    <3>1. Popping' = Popping \ {t} /\ t \in Popping /\ Pushing' = Pushing /\ Using' = Using
        BY <1>1, <1>2, <2>4 DEF Pushing, Popping, Using
    <3>2. Cardinality(Popping') = Cardinality(Popping) - 1
        BY <2>1, <3>1, CardMinus
    <3>3. QED  BY <1>1, <1>2, <2>1, <2>2, <2>4, <3>1, <3>2 DEF Counts
  <2>5. CASE op[t] = "free"
    <3>1. Using' = Using \ {t} /\ t \in Using /\ Pushing' = Pushing /\ Popping' = Popping
        BY <1>1, <1>2, <2>5 DEF Pushing, Popping, Using
    <3>2. Cardinality(Using') = Cardinality(Using) - 1
        BY <2>1, <3>1, CardMinus
    <3>3. QED  BY <1>1, <1>2, <2>1, <2>2, <2>5, <3>1, <3>2 DEF Counts
  <2>6. QED  BY <1>2, <2>3, <2>4, <2>5
<1>10. QED  BY <1>4, <1>5, <1>6, <1>7, <1>8, <1>9

(* Two empty lists and no thread at work.                                  *)
LEMMA StackInit ==
    ASSUME StackConstants, Init
    PROVE  StackInv
<1>1. StackTypes
    BY DEF Init, StackConstants, StackTypes, TypeOK, Tops, NoCopy, Ops
<1>2. \A l \in Lists : top[l].node = Null
    BY DEF Init, NoCopy
<1>3. \A l \in Lists : Listed(l) = {}
    BY <1>2, ChainEmpty, ChainWalk, WalkIsWalkOf
<1>4. Chains
    BY <1>2, <1>3, ChainEmpty DEF Chains
<1>5. Roles
    BY DEF Init, Roles, Holding
<1>6. Held = {}
    BY DEF Init, Held
<1>7. Apart
    BY <1>3, <1>6 DEF Init, Apart, Lists
<1>8. Fresh
    BY DEF Init, Fresh
<1>9. Counts
  <2>1. Pushing = {} /\ Popping = {} /\ Using = {}
      BY DEF Init, Pushing, Popping, Using
  <2>2. nodeCount = 0 /\ useCount = 0 /\ capacity = 0 /\ made = {} /\ Listed("stack") = {}
      BY <1>3 DEF Init, Lists
  <2>3. Cardinality({}) = 0
      BY FS_EmptySet
  <2>4. QED  BY <2>1, <2>2, <2>3 DEF Counts
<1>10. QED  BY <1>1, <1>4, <1>5, <1>7, <1>8, <1>9 DEF StackInv

(* Every step of every thread keeps the invariant.                         *)
LEMMA StackStep ==
    ASSUME StackConstants, StackInv, [Next]_vars
    PROVE  StackInv'
<1>1. CASE UNCHANGED vars
  <2> USE <1>1 DEF vars, StackInv
  <2>1. \A k \in Lists : Listed(k)' = Listed(k)
      BY ListsSame
  <2>2. StackTypes' /\ Roles' /\ Fresh'
      BY DEF StackTypes, TypeOK, Roles, Holding, Fresh
  <2>3. Chains'
      BY <2>1 DEF Chains
  <2>4. Apart'
      BY <2>1 DEF Apart, Held, Lists
  <2>5. Counts'
      BY <2>1 DEF Counts, Pushing, Popping, Using, Lists
  <2>6. QED  BY <2>2, <2>3, <2>4, <2>5
<1>2. ASSUME NEW t \in Threads, PushStep(t) \/ PopStep(t) \/ AllocStep(t) \/ FreeStep(t)
      PROVE  StackInv'
  <2>1. CASE Push(t) \/ Pop(t)
      BY <2>1, BeginKeeps DEF Push, Pop
  <2>2. CASE ReadTop(t)
      BY <2>2, ReadTopTakes, ReadTopPuts
  <2>3. CASE NewNode(t) \/ ReadNext(t) \/ Cas(t)
      BY <2>3, NewNodeKeeps, ReadNextKeeps, CasKeeps
  <2>4. CASE CountAlloc(t) \/ CountPush(t) \/ CountPop(t) \/ CountFree(t)
      BY <2>4, CountAllocKeeps, CountKeeps
  <2>5. QED  BY <1>2, <2>1, <2>2, <2>3, <2>4 DEF PushStep, PopStep, AllocStep, FreeStep
<1>3. QED  BY <1>1, <1>2 DEF Next

LEMMA StackSeen ==
    ASSUME StackConstants
    PROVE  StackInv => TypeOK /\ NodesConserved
<1> SUFFICES ASSUME StackInv PROVE TypeOK /\ NodesConserved
    OBVIOUS
<1> USE DEF StackInv
<1>1. \A l \in Lists : Walk(l)[Cardinality(Nodes)] = Null
  <2>1. SUFFICES ASSUME NEW l \in Lists PROVE Walk(l)[Cardinality(Nodes)] = Null
      OBVIOUS
  <2>2. Chain(top[l].node, next[l], Listed(l))
      BY DEF Chains
  <2>3. WalkOf(top[l].node, next[l])[Cardinality(Nodes)] = Null
      BY <2>2, ChainWalk
  <2>4. QED  BY <2>3, WalkIsWalkOf
<1>2. Held \cap (Listed("stack") \cup Listed("pool")) = {}
    BY DEF Held, Apart, Lists
<1>3. ASSUME \A t \in Threads : pc[t] = "idle"
      PROVE  /\ nodeCount = Cardinality(Listed("stack"))
             /\ useCount = Cardinality(Listed("stack"))
             /\ capacity = Cardinality(made)
  <2>1. Pushing = {} /\ Popping = {} /\ Using = {}
      BY <1>3 DEF Pushing, Popping, Using
  <2>2. Cardinality({}) = 0 /\ Cardinality(Listed("stack")) \in Nat /\ nodeCount \in Int
      BY FS_EmptySet, ListsFinite DEF Lists, StackTypes
  <2>3. QED  BY <2>1, <2>2 DEF Counts
<1>4. NodesConserved
    BY <1>1, <1>2, <1>3 DEF NodesConserved, Apart
<1>5. QED  BY <1>4 DEF StackTypes

(* However threads are suspended between reading a top and exchanging it,  *)
(* and although nodes and stamps come again, each node is in the stack, in *)
(* the pool or with one thread, no list has a cycle or a lost tail, and    *)
(* the counters are exact at rest (LFStack::Push, Pop, LFObjectPool::Alloc,*)
(* Free); for any number of threads, nodes and stamps.                     *)
THEOREM StackConservesNodes ==
    ASSUME StackConstants
    PROVE  Spec => [](TypeOK /\ NodesConserved)
<1>1. Init => StackInv
    BY StackInit
<1>2. StackInv /\ [Next]_vars => StackInv'
    BY StackStep
<1>3. StackInv => TypeOK /\ NodesConserved
    BY StackSeen
<1>4. QED  BY <1>1, <1>2, <1>3, PTL DEF Spec
=============================================================================
