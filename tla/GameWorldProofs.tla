--------------------------- MODULE GameWorldProofs ---------------------------
(***************************************************************************)
(* Proofs about GameWorld, for any objects, scenes, threads, callers and   *)
(* number of calls.                                                        *)
(*                                                                         *)
(* Types, and what the manager forgets, hold however the callers behave:   *)
(* BaseInv.  That scenes stay on their threads and agree with their        *)
(* objects needs callers that take turns: TurnInv.                         *)
(***************************************************************************)
EXTENDS GameWorld, Integers, SequenceTheorems, WellFoundedInduction, TLAPS

(* No scene's vector has the object; no Register of it is queued. *)
InNoScene(o) == \A s \in Scenes : o \notin Elems(members[s])
NotQueued(o) == \A i \in 1..Len(managerQ) : managerQ[i] # ForManager("register", o)

(* Nobody has seen an object that Create has not returned. *)
Unborn ==
    \A o \in Objects : ~created[o] =>
       /\ scene[o] # None /\ mailbox[o] = <<>> /\ doing[o] = NoJob
       /\ o \notin registry /\ NotQueued(o) /\ InNoScene(o)
       /\ \A c \in Callers : moving[c] # None => moving[c][1] # o

(* A condemned object has left its scene for good. *)
Gone ==
    \A o \in Objects :
       /\ freed[o] => condemned[o]
       /\ condemned[o] => doing[o].kind \in {"done", "none"} /\ scene[o] = None

(* ManagerForgets, from the moment the object is condemned. *)
Forgets ==
    \A o \in Objects : condemned[o] =>
       /\ o \in registry =>
             \E i \in 1..Len(managerQ) : managerQ[i] = ForManager("unregister", o)
       /\ \A i \in 1..Len(managerQ) : managerQ[i] = ForManager("register", o) =>
             \E k \in 1..Len(managerQ) : k > i /\ managerQ[k] = ForManager("unregister", o)

BaseInv == TypeOK /\ Unborn /\ Gone /\ Forgets

(* The moves of an object that are to come, when callers take turns: an    *)
(* "enter", or a "leave" and then the "enter" of the same scene, which the *)
(* caller may still have to post.                                          *)
MailboxMoves ==
    \A o \in Objects : \A i, j \in 1..Len(mailbox[o]) :
       LET p == mailbox[o][i]
           q == mailbox[o][j] IN
       /\ p.kind = "enter" /\ q.kind = "enter" => i = j
       /\ p.kind = "leave" /\ q.kind = "leave" => i = j
       /\ p.kind = "leave" /\ q.kind = "enter" => i < j /\ p.to = q.to

DoingMoves ==
    \A o \in Objects : \A i \in 1..Len(mailbox[o]) :
       LET p == mailbox[o][i] IN
       /\ doing[o].kind = "enter" => p.kind \notin {"enter", "leave"}
       /\ doing[o].kind = "leave" =>
             p.kind # "leave" /\ (p.kind = "enter" => p.to = doing[o].to)

CallersMove ==
    \A c \in Callers : moving[c] # None =>
       LET o == moving[c][1]
           s == moving[c][2] IN
       /\ \A d \in Callers : moving[d] # None /\ moving[d][1] = o => c = d
       /\ doing[o].kind # "enter"
       /\ doing[o].kind = "leave" => doing[o].to = s
       /\ \A i \in 1..Len(mailbox[o]) :
             /\ mailbox[o][i].kind # "enter"
             /\ mailbox[o][i].kind = "leave" => mailbox[o][i].to = s

Moves == MailboxMoves /\ DoingMoves /\ CallersMove

(* A scene that names the object is on the object's thread, and a job runs *)
(* on the thread that was the object's when it started.                    *)
AtHome ==
    \A o \in Objects :
       /\ scene[o] # None => home[o] = SceneThread[scene[o]]
       /\ doing[o].kind \notin {"done", "none"} => active[o] = home[o]

(* Once its "leave" has run, an object about to enter a scene is on that   *)
(* scene's thread, and in no vector.                                       *)
NoLeave(o) ==
    /\ doing[o].kind # "leave"
    /\ \A i \in 1..Len(mailbox[o]) : mailbox[o][i].kind # "leave"

Arrives(o, s) == home[o] = SceneThread[s] /\ InNoScene(o)

ArrivalOf(o) ==
    ~condemned[o] /\ NoLeave(o) =>
       /\ doing[o].kind = "enter" => Arrives(o, doing[o].to)
       /\ \A i \in 1..Len(mailbox[o]) :
             mailbox[o][i].kind = "enter" => Arrives(o, mailbox[o][i].to)
       /\ \A c \in Callers :
             moving[c] # None /\ moving[c][1] = o => Arrives(o, moving[c][2])

Arrival == \A o \in Objects : ArrivalOf(o)

(* Nobody leaves for the scene the object is in. *)
Departure ==
    \A o \in Objects :
       /\ doing[o].kind = "leave" => scene[o] # doing[o].to
       /\ \A i \in 1..Len(mailbox[o]) :
             mailbox[o][i].kind = "leave" => scene[o] # mailbox[o][i].to

(* The manager has only heard of objects that are in the scene they name.  *)
Known ==
    \A o \in Objects : scene[o] # None /\ o \notin Elems(members[scene[o]]) =>
       o \notin registry /\ NotQueued(o)

Injective(q) == \A i, j \in 1..Len(q) : q[i] = q[j] => i = j

Vectors ==
    \A s \in Scenes :
       /\ Injective(members[s])
       /\ \A o \in Objects : o \in Elems(members[s]) => scene[o] = s

TurnInv == Moves /\ AtHome /\ Arrival /\ Departure /\ Known /\ Vectors

-----------------------------------------------------------------------------
(* Sequences *)

LEMMA EmptyPlaces ==
    ASSUME NEW S
    PROVE  <<>> \in Seq(S) /\ Len(<<>>) = 0
BY SMT

LEMMA AppendPlaces ==
    ASSUME NEW S, NEW q \in Seq(S), NEW e \in S
    PROVE  /\ Append(q, e) \in Seq(S)
           /\ Len(q) \in Nat
           /\ Len(Append(q, e)) = Len(q) + 1
           /\ Append(q, e)[Len(q) + 1] = e
           /\ \A i \in 1..Len(q) : Append(q, e)[i] = q[i]
BY SMT

LEMMA TailPlaces ==
    ASSUME NEW S, NEW q \in Seq(S), q # <<>>
    PROVE  /\ Tail(q) \in Seq(S)
           /\ Head(q) \in S
           /\ Len(q) \in Nat \ {0}
           /\ Len(Tail(q)) = Len(q) - 1
           /\ Head(q) = q[1]
           /\ \A i \in 1..Len(Tail(q)) : Tail(q)[i] = q[i + 1]
BY SMT

LEMMA Places ==
    ASSUME NEW S, NEW q \in Seq(S)
    PROVE  Len(q) \in Nat /\ DOMAIN q = 1..Len(q) /\ \A i \in 1..Len(q) : q[i] \in S
BY SMT

LEMMA ElemsAppend ==
    ASSUME NEW S, NEW q \in Seq(S), NEW e \in S
    PROVE  \A x : x \in Elems(Append(q, e)) <=> x \in Elems(q) \/ x = e
<1> DEFINE r == Append(q, e)
<1>1. /\ r \in Seq(S) /\ Len(q) \in Nat /\ Len(r) = Len(q) + 1
      /\ r[Len(q) + 1] = e /\ \A i \in 1..Len(q) : r[i] = q[i]
  BY AppendPlaces
<1>2. DOMAIN r = 1..Len(r) /\ DOMAIN q = 1..Len(q)
  BY <1>1, Places
<1> HIDE DEF r
<1>3. \A x : x \in Elems(r) <=> x \in Elems(q) \/ x = e
  BY <1>1, <1>2 DEF Elems
<1>4. QED
  BY <1>3 DEF r

(* A set of places has a first one. *)
LEMMA FirstPlace ==
    ASSUME NEW T, T \subseteq Nat, T # {}
    PROVE  \E k \in T : \A j \in T : k <= j
<1> DEFINE R == OpToRel(<, Nat)
<1>1. \E k \in T : \A j \in T : ~ (<<j, k>> \in R)
  BY NatLessThanWellFounded, WFMin
<1>2. \A j, k \in T : ~ (<<j, k>> \in R) => k <= j
  BY DEF OpToRel
<1>3. QED
  BY <1>1, <1>2

(* The places lo .. hi of r are those of q, `by' places further on. *)
Copies(r, q, lo, hi, by) == \A i \in lo..hi : r[i] = q[i + by]

LEMMA BeforePlaces ==
    ASSUME NEW S, NEW q \in Seq(S), NEW k \in 1..Len(q)
    PROVE  LET a == SubSeq(q, 1, k - 1) IN
           a \in Seq(S) /\ Len(a) = k - 1 /\ Copies(a, q, 1, k - 1, 0)
BY SMT DEF Copies

LEMMA AfterPlaces ==
    ASSUME NEW S, NEW q \in Seq(S), NEW k \in 1..Len(q)
    PROVE  LET b == SubSeq(q, k + 1, Len(q)) IN
           b \in Seq(S) /\ Len(b) = Len(q) - k /\ Copies(b, q, 1, Len(q) - k, k)
BY SMT DEF Copies

LEMMA JoinedPlaces ==
    ASSUME NEW S, NEW a \in Seq(S), NEW b \in Seq(S), NEW n \in Nat, NEW k \in 1..n, NEW q,
           Len(a) = k - 1, Copies(a, q, 1, k - 1, 0),
           Len(b) = n - k, Copies(b, q, 1, n - k, k)
    PROVE  /\ a \o b \in Seq(S)
           /\ Len(a \o b) = n - 1
           /\ Copies(a \o b, q, 1, k - 1, 0) /\ Copies(a \o b, q, k, n - 1, 1)
<1>1. /\ a \o b \in Seq(S) /\ Len(a \o b) = Len(a) + Len(b)
      /\ \A i \in 1..(Len(a) + Len(b)) : (a \o b)[i] = IF i <= Len(a) THEN a[i] ELSE b[i - Len(a)]
  BY ConcatProperties, Zenon
<1>2. PICK r : r = a \o b
  OBVIOUS
<1>3. r \in Seq(S) /\ Len(r) = n - 1
  <2>1. r \in Seq(S) /\ Len(r) = Len(a) + Len(b)
    BY <1>1, <1>2, Zenon
  <2>2. QED
    BY <2>1
<1>4. \A i \in 1..(n - 1) : r[i] = IF i <= k - 1 THEN a[i] ELSE b[i - (k - 1)]
  BY <1>1, <1>2, <1>3
<1>5. Copies(r, q, 1, k - 1, 0)
  BY <1>4 DEF Copies
<1>6. Copies(r, q, k, n - 1, 1)
  BY <1>4 DEF Copies
<1>7. QED
  BY <1>2, <1>3, <1>5, <1>6

LEMMA ErasedPlaces ==
    ASSUME NEW S, NEW q \in Seq(S), NEW k \in 1..Len(q)
    PROVE  LET r == SubSeq(q, 1, k - 1) \o SubSeq(q, k + 1, Len(q)) IN
           /\ r \in Seq(S)
           /\ Len(r) = Len(q) - 1
           /\ Copies(r, q, 1, k - 1, 0) /\ Copies(r, q, k, Len(q) - 1, 1)
<1>1. PICK a : a = SubSeq(q, 1, k - 1)
  OBVIOUS
<1>2. PICK b : b = SubSeq(q, k + 1, Len(q))
  OBVIOUS
<1>3. a \in Seq(S) /\ Len(a) = k - 1 /\ Copies(a, q, 1, k - 1, 0)
  BY <1>1, BeforePlaces
<1>4. b \in Seq(S) /\ Len(b) = Len(q) - k /\ Copies(b, q, 1, Len(q) - k, k)
  BY <1>2, AfterPlaces
<1>5. Len(q) \in Nat
  BY Places
<1>6. /\ a \o b \in Seq(S)
      /\ Len(a \o b) = Len(q) - 1
      /\ Copies(a \o b, q, 1, k - 1, 0) /\ Copies(a \o b, q, k, Len(q) - 1, 1)
  BY <1>3, <1>4, <1>5, JoinedPlaces
<1>7. QED
  BY <1>1, <1>2, <1>6

(* What a copy without place k has. *)
Within(r, m, q, n) == \A i \in 1..m : \E j \in 1..n : r[i] = q[j]
Lacks(r, m, q, k) == \A i \in 1..m : r[i] # q[k]
Others(q, n, k, r, m) == \A j \in 1..n : j # k => \E i \in 1..m : r[i] = q[j]
OneToOne(q, n) == \A i, j \in 1..n : q[i] = q[j] => i = j

LEMMA ErasedElements ==
    ASSUME NEW n \in Nat, NEW k \in 1..n, NEW q, NEW r,
           Copies(r, q, 1, k - 1, 0), Copies(r, q, k, n - 1, 1)
    PROVE  /\ Within(r, n - 1, q, n)
           /\ Others(q, n, k, r, n - 1)
           /\ OneToOne(q, n) => OneToOne(r, n - 1) /\ Lacks(r, n - 1, q, k)
<1>1. \A i \in 1..(n - 1) : i \in 1..(k - 1) \/ i \in k..(n - 1)
  OBVIOUS
<1>2. Within(r, n - 1, q, n)
  BY <1>1 DEF Within, Copies
<1>3. ASSUME NEW j \in 1..n, j # k PROVE \E i \in 1..(n - 1) : r[i] = q[j]
  <2>1. CASE j < k
    BY <2>1 DEF Copies
  <2>2. CASE j > k
    <3>1. j - 1 \in k..(n - 1) /\ j - 1 \in 1..(n - 1) /\ (j - 1) + 1 = j
      BY <2>2
    <3>2. QED
      BY <3>1 DEF Copies
  <2>3. QED
    BY <1>3, <2>1, <2>2
<1>4. OneToOne(q, n) => Lacks(r, n - 1, q, k)
  BY <1>1 DEF OneToOne, Lacks, Copies
<1>5. OneToOne(q, n) => OneToOne(r, n - 1)
  BY <1>1 DEF OneToOne, Copies
<1>6. QED
  BY <1>2, <1>3, <1>4, <1>5 DEF Others

(* GameScene::Exit erases one entry: what is left are the others.          *)
LEMMA WithoutFirstPlaces ==
    ASSUME NEW S, NEW q \in Seq(S), NEW o \in S
    PROVE  /\ WithoutFirst(q, o) \in Seq(S)
           /\ \A x : x \in Elems(WithoutFirst(q, o)) => x \in Elems(q)
           /\ \A x : x \in Elems(q) /\ x # o => x \in Elems(WithoutFirst(q, o))
           /\ Injective(q) => Injective(WithoutFirst(q, o)) /\ o \notin Elems(WithoutFirst(q, o))
<1> DEFINE at == {i \in DOMAIN q : q[i] = o}
           first == CHOOSE i \in at : \A j \in at : i <= j
<1>1. Len(q) \in Nat /\ DOMAIN q = 1..Len(q) /\ \A i \in 1..Len(q) : q[i] \in S
  BY Places
<1>2. CASE at = {}
  <2>1. WithoutFirst(q, o) = q
    BY <1>2 DEF WithoutFirst
  <2>2. o \notin Elems(q)
    BY <1>2 DEF Elems
  <2>3. QED
    BY <2>1, <2>2
<1>3. CASE at # {}
  <2>1. first \in 1..Len(q) /\ q[first] = o
    <3>1. at \subseteq Nat
      BY <1>1
    <3>2. \E i \in at : \A j \in at : i <= j
      BY <1>3, <3>1, FirstPlace
    <3>3. first \in at
      BY <3>2
    <3>4. QED
      BY <1>1, <3>3
  <2>2. WithoutFirst(q, o) = SubSeq(q, 1, first - 1) \o SubSeq(q, first + 1, Len(q))
    BY <1>3 DEF WithoutFirst
  <2> HIDE DEF first, at
  <2>3. PICK k \in 1..Len(q) : k = first
    BY <2>1
  <2>4. PICK r : r = WithoutFirst(q, o)
    OBVIOUS
  <2>5. /\ r \in Seq(S) /\ Len(r) = Len(q) - 1
        /\ Copies(r, q, 1, k - 1, 0) /\ Copies(r, q, k, Len(q) - 1, 1)
    <3>1. WithoutFirst(q, o) = SubSeq(q, 1, k - 1) \o SubSeq(q, k + 1, Len(q))
      BY <2>2, <2>3
    <3>2. QED
      BY <2>4, <3>1, ErasedPlaces
  <2>6. /\ Within(r, Len(q) - 1, q, Len(q))
        /\ Others(q, Len(q), k, r, Len(q) - 1)
        /\ OneToOne(q, Len(q)) => OneToOne(r, Len(q) - 1) /\ Lacks(r, Len(q) - 1, q, k)
    BY <1>1, <2>5, ErasedElements
  <2>7. DOMAIN r = 1..(Len(q) - 1) /\ q[k] = o
    BY <2>1, <2>3, <2>5, Places
  <2>8. \A x : x \in Elems(r) => x \in Elems(q)
    BY <1>1, <2>6, <2>7, Zenon DEF Elems, Within
  <2>9. \A x : x \in Elems(q) /\ x # o => x \in Elems(r)
    BY <1>1, <2>6, <2>7, Zenon DEF Elems, Others
  <2>10. Injective(q) => Injective(r)
    BY <2>5, <2>6 DEF Injective, OneToOne
  <2>11. Injective(q) => o \notin Elems(r)
    BY <2>6, <2>7, Zenon DEF Injective, OneToOne, Lacks, Elems
  <2>12. QED
    BY <2>4, <2>5, <2>8, <2>9, <2>10, <2>11
<1>4. QED
  BY <1>2, <1>3

-----------------------------------------------------------------------------
(* Jobs *)

LEMMA JobFacts ==
    /\ \A s \in Scenes : /\ Enter(s) \in Job /\ Enter(s).kind = "enter" /\ Enter(s).to = s
                         /\ Leave(s) \in Job /\ Leave(s).kind = "leave" /\ Leave(s).to = s
    /\ \A k \in {"exit", "destroy", "user", "done"} : Plain(k) \in Job /\ Plain(k).kind = k
    /\ NoJob.kind = "none"
    /\ \A j \in Job : /\ j.kind \in {"enter", "leave", "exit", "destroy", "user", "done"}
                      /\ j.kind \in {"enter", "leave"} => j.to \in Scenes
BY DEF Job, Enter, Leave, Plain, NoJob

LEMMA ManagerFacts ==
    /\ \A k \in {"register", "unregister", "postTo"}, o \in Objects :
          /\ ForManager(k, o) \in ManagerJob
          /\ ForManager(k, o).kind = k /\ ForManager(k, o).obj = o
    /\ \A j \in ManagerJob : /\ j.kind \in {"register", "unregister", "postTo"}
                             /\ j.obj \in Objects
                             /\ j = ForManager(j.kind, j.obj)
BY DEF ManagerJob, ForManager

(* What a job that was posted does to the mailboxes. *)
Posted(o, j) ==
    /\ Len(mailbox'[o]) = Len(mailbox[o]) + 1
    /\ mailbox'[o][Len(mailbox[o]) + 1] = j
    /\ \A i \in 1..Len(mailbox[o]) : mailbox'[o][i] = mailbox[o][i]

LEMMA PostEffect ==
    ASSUME TypeOK, NEW o \in Objects, NEW j \in Job, PostJob(o, j)
    PROVE  /\ UNCHANGED <<home, active, condemned>>
           /\ mailbox' \in [Objects -> Seq(Job)]
           /\ \A p \in Objects : p # o => mailbox'[p] = mailbox[p]
           /\ \/ condemned[o] /\ mailbox'[o] = mailbox[o]
              \/ ~condemned[o] /\ Posted(o, j)
<1>1. mailbox \in [Objects -> Seq(Job)] /\ mailbox[o] \in Seq(Job)
  BY DEF TypeOK
<1>2. CASE condemned[o] /\ UNCHANGED actorVars
  BY <1>1, <1>2 DEF actorVars
<1>3. CASE ~condemned[o] /\ Actors!Accept(o, j)
  <2>1. /\ mailbox' = [mailbox EXCEPT ![o] = Append(@, j)]
        /\ UNCHANGED <<home, active, condemned>>
    BY <1>3 DEF Actors!Accept
  <2>2. PICK q \in Seq(Job) : q = Append(mailbox[o], j)
    BY <1>1, AppendPlaces
  <2>3. /\ Len(q) = Len(mailbox[o]) + 1
        /\ q[Len(mailbox[o]) + 1] = j
        /\ \A i \in 1..Len(mailbox[o]) : q[i] = mailbox[o][i]
    BY <1>1, <2>2, AppendPlaces
  <2>4. mailbox' = [mailbox EXCEPT ![o] = q]
    BY <2>1, <2>2
  <2>5. QED
    BY <1>1, <1>3, <2>1, <2>3, <2>4 DEF Posted
<1>4. QED
  BY <1>2, <1>3 DEF PostJob

(* What the start of a job does to the mailboxes. *)
Taken(o) ==
    /\ Len(mailbox[o]) \in Nat \ {0}
    /\ doing'[o] = mailbox[o][1]
    /\ Len(mailbox'[o]) = Len(mailbox[o]) - 1
    /\ \A i \in 1..Len(mailbox'[o]) : mailbox'[o][i] = mailbox[o][i + 1]

LEMMA BeginEffect ==
    ASSUME TypeOK, NEW o \in Objects, Begin(o)
    PROVE  /\ UNCHANGED <<home, condemned, freed, created, worldVars, moving, calls>>
           /\ ~condemned[o] /\ active[o] = None
           /\ mailbox' \in [Objects -> Seq(Job)] /\ mailbox[o] # <<>>
           /\ \A p \in Objects : p # o => mailbox'[p] = mailbox[p] /\ doing'[p] = doing[p]
           /\ active' = [active EXCEPT ![o] = home[o]]
           /\ doing' \in [Objects -> Job \cup {NoJob}] /\ doing'[o] \in Job
           /\ Taken(o)
<1>1. /\ mailbox \in [Objects -> Seq(Job)] /\ mailbox[o] \in Seq(Job)
      /\ doing \in [Objects -> Job \cup {NoJob}]
  BY DEF TypeOK
<1>2. /\ mailbox[o] # <<>> /\ ~condemned[o] /\ active[o] = None
      /\ mailbox' = [mailbox EXCEPT ![o] = Tail(@)]
      /\ active' = [active EXCEPT ![o] = home[o]]
      /\ doing' = [doing EXCEPT ![o] = Head(mailbox[o])]
      /\ UNCHANGED <<home, condemned>>
  BY DEF Begin, Actors!Begin
<1>3. PICK q, h : q = Tail(mailbox[o]) /\ h = Head(mailbox[o])
  OBVIOUS
<1>4. /\ q \in Seq(Job) /\ h \in Job /\ Len(mailbox[o]) \in Nat \ {0} /\ Len(q) = Len(mailbox[o]) - 1
      /\ h = mailbox[o][1] /\ \A i \in 1..Len(q) : q[i] = mailbox[o][i + 1]
  BY <1>1, <1>2, <1>3, TailPlaces
<1>5. mailbox' = [mailbox EXCEPT ![o] = q] /\ doing' = [doing EXCEPT ![o] = h]
  BY <1>2, <1>3
<1>6. mailbox'[o] = q /\ doing'[o] = h
  BY <1>1, <1>5
<1>7. Taken(o)
  BY <1>4, <1>6, Zenon DEF Taken
<1>8. UNCHANGED <<home, condemned, freed, created, worldVars, moving, calls>>
  BY <1>2 DEF Begin
<1>9. QED
  BY <1>1, <1>2, <1>4, <1>5, <1>7, <1>8

(* What GameScene::Exit does to the vectors. *)
LEMMA ExitEffect ==
    ASSUME TypeOK, NEW o \in Objects, Exit(o)
    PROVE  /\ scene' = [scene EXCEPT ![o] = None]
           /\ members' \in [Scenes -> Seq(Objects)]
           /\ \A s \in Scenes, x \in Objects : x \in Elems(members'[s]) => x \in Elems(members[s])
           /\ \A s \in Scenes, x \in Objects : x \in Elems(members[s]) /\ x # o => x \in Elems(members'[s])
           /\ \A s \in Scenes : Injective(members[s]) => Injective(members'[s])
           /\ \A s \in Scenes : s = scene[o] /\ Injective(members[s]) => o \notin Elems(members'[s])
<1>1. members \in [Scenes -> Seq(Objects)]
  BY DEF TypeOK
<1>2. scene' = [scene EXCEPT ![o] = None]
  BY DEF Exit
<1>3. ASSUME NEW s \in Scenes
      PROVE  members'[s] = IF s = scene[o] THEN WithoutFirst(members[s], o) ELSE members[s]
  BY DEF Exit
<1>4. ASSUME NEW s \in Scenes
      PROVE  /\ members'[s] \in Seq(Objects)
             /\ \A x : x \in Elems(members'[s]) => x \in Elems(members[s])
             /\ \A x : x \in Elems(members[s]) /\ x # o => x \in Elems(members'[s])
             /\ Injective(members[s]) => Injective(members'[s])
             /\ s = scene[o] /\ Injective(members[s]) => o \notin Elems(members'[s])
  <2>1. members[s] \in Seq(Objects)
    BY <1>1
  <2>2. CASE s # scene[o]
    <3>1. members'[s] = members[s]
      BY <1>3, <2>2
    <3>2. QED
      BY <2>1, <2>2, <3>1
  <2>3. CASE s = scene[o]
    <3>1. members'[s] = WithoutFirst(members[s], o)
      BY <1>3, <2>3
    <3>2. QED
      BY <2>1, <3>1, WithoutFirstPlaces
  <2>4. QED
    BY <2>2, <2>3
<1>5. members' \in [Scenes -> Seq(Objects)]
  <2>1. members' = [s \in Scenes |->
                     IF s = scene[o] THEN WithoutFirst(members[s], o) ELSE members[s]]
    BY DEF Exit
  <2>2. DOMAIN members' = Scenes
    BY <2>1
  <2>3. members' = [s \in Scenes |-> members'[s]]
    BY <2>1
  <2>4. QED
    BY <1>4, <2>2, <2>3, Zenon
<1>6. QED
  BY <1>2, <1>4, <1>5

-----------------------------------------------------------------------------
(* Types *)

LEMMA InitTypes == Init => TypeOK
<1> SUFFICES ASSUME Init PROVE TypeOK
  OBVIOUS
<1>1. <<>> \in Seq(Job) /\ <<>> \in Seq(Objects) /\ <<>> \in Seq(ManagerJob)
  BY EmptyPlaces
<1>2. /\ mailbox = [o \in Objects |-> <<>>]
      /\ active = [o \in Objects |-> None]
      /\ condemned = [o \in Objects |-> FALSE]
  BY DEF Init, Actors!Init
<1>3. home \in [Objects -> GameThreads] /\ scene \in [Objects -> Scenes \cup {None}]
  BY WorldAssumption DEF Init
<1>4. QED
  BY <1>1, <1>2, <1>3, WorldAssumption DEF Init, TypeOK

LEMMA TypeStep == TypeOK /\ Unborn /\ [Next]_vars => TypeOK'
<1> SUFFICES ASSUME TypeOK, Unborn, [Next]_vars PROVE TypeOK'
  OBVIOUS
<1> USE DEF TypeOK
<1>1. CASE UNCHANGED vars
  BY <1>1 DEF vars, actorVars, worldVars
<1>2. ASSUME NEW o \in Objects, Create(o) PROVE TypeOK'
  <2>1. scene[o] \in Scenes
    BY <1>2 DEF Create, Unborn
  <2>2. mailbox' \in [Objects -> Seq(Job)] /\ UNCHANGED <<home, active, condemned>>
    BY <1>2, <2>1, JobFacts, PostEffect DEF Create
  <2>3. QED
    BY <1>2, <2>2 DEF Create, worldVars
<1>3. ASSUME NEW o \in Objects, Begin(o) PROVE TypeOK'
  <2>1. /\ UNCHANGED <<home, condemned, freed, created, worldVars, moving, calls>>
        /\ mailbox' \in [Objects -> Seq(Job)] /\ doing' \in [Objects -> Job \cup {NoJob}]
        /\ active' = [active EXCEPT ![o] = home[o]]
    BY <1>3, BeginEffect
  <2>2. QED
    BY <2>1 DEF worldVars
<1>4. ASSUME NEW o \in Objects, RunEnter(o) PROVE TypeOK'
  <2>1. doing[o].kind = "enter" /\ doing[o] \in Job /\ doing[o].to \in Scenes
    BY <1>4, JobFacts DEF RunEnter, Doing
  <2>2. members' \in [Scenes -> Seq(Objects)]
    BY <1>4, <2>1, AppendPlaces DEF RunEnter
  <2>3. managerQ' \in Seq(ManagerJob)
    BY <1>4, ManagerFacts, AppendPlaces DEF RunEnter
  <2>4. doing' \in [Objects -> Job \cup {NoJob}]
    BY <1>4, JobFacts DEF RunEnter, BodyOver
  <2>5. scene' \in [Objects -> Scenes \cup {None}]
    BY <1>4, <2>1 DEF RunEnter
  <2>6. QED
    BY <1>4, <2>2, <2>3, <2>4, <2>5 DEF RunEnter, actorVars
<1>5. ASSUME NEW o \in Objects, RunLeave(o) PROVE TypeOK'
  <2>1. doing[o].kind = "leave" /\ doing[o] \in Job /\ doing[o].to \in Scenes
    BY <1>5, JobFacts DEF RunLeave, Doing
  <2>2. doing' \in [Objects -> Job \cup {NoJob}]
    BY <1>5, JobFacts DEF RunLeave, BodyOver
  <2>3. UNCHANGED <<freed, created, registry, managerQ, moving, calls>>
    BY <1>5 DEF RunLeave
  <2>4. CASE UNCHANGED <<actorVars, scene, members>>
    BY <2>2, <2>3, <2>4 DEF actorVars
  <2>5. CASE Exit(o) /\ Actors!Move(o, SceneThread[doing[o].to])
    <3>1. members' \in [Scenes -> Seq(Objects)] /\ scene' \in [Objects -> Scenes \cup {None}]
      BY <2>5, ExitEffect
    <3>2. home' \in [Objects -> GameThreads] /\ UNCHANGED <<mailbox, active, condemned>>
      BY <2>1, <2>5, WorldAssumption DEF Actors!Move
    <3>3. QED
      BY <2>2, <2>3, <3>1, <3>2
  <2>6. QED
    BY <1>5, <2>4, <2>5 DEF RunLeave
<1>6. ASSUME NEW o \in Objects, RunExit(o) PROVE TypeOK'
  <2>1. members' \in [Scenes -> Seq(Objects)] /\ scene' \in [Objects -> Scenes \cup {None}]
    BY <1>6, ExitEffect DEF RunExit
  <2>2. doing' \in [Objects -> Job \cup {NoJob}]
    BY <1>6, JobFacts DEF RunExit, BodyOver
  <2>3. QED
    BY <1>6, <2>1, <2>2 DEF RunExit, actorVars
<1>7. ASSUME NEW o \in Objects, RunDestroy(o) PROVE TypeOK'
  <2>1. members' \in [Scenes -> Seq(Objects)] /\ scene' \in [Objects -> Scenes \cup {None}]
    BY <1>7, ExitEffect DEF RunDestroy
  <2>2. doing' \in [Objects -> Job \cup {NoJob}]
    BY <1>7, JobFacts DEF RunDestroy, BodyOver
  <2>3. managerQ' \in Seq(ManagerJob)
    BY <1>7, ManagerFacts, AppendPlaces DEF RunDestroy
  <2>4. condemned' \in [Objects -> BOOLEAN] /\ UNCHANGED <<mailbox, home, active>>
    BY <1>7 DEF RunDestroy, Actors!Condemn
  <2>5. QED
    BY <1>7, <2>1, <2>2, <2>3, <2>4 DEF RunDestroy
<1>8. ASSUME NEW o \in Objects, RunUser(o) PROVE TypeOK'
  <2>1. doing' \in [Objects -> Job \cup {NoJob}]
    BY <1>8, JobFacts DEF RunUser, BodyOver
  <2>2. QED
    BY <1>8, <2>1 DEF RunUser, actorVars, worldVars
<1>9. ASSUME NEW o \in Objects, Return(o) PROVE TypeOK'
  BY <1>9 DEF Return, Actors!Finish, worldVars
<1>10. ASSUME NEW o \in Objects, Delete(o) PROVE TypeOK'
  <2>1. mailbox' \in [Objects -> Seq(Job)] /\ UNCHANGED <<home, active, condemned>>
    BY <1>10, EmptyPlaces DEF Delete, Actors!Discard
  <2>2. QED
    BY <1>10, <2>1 DEF Delete, worldVars
<1>11. ASSUME NEW c \in Callers, NEW o \in Objects, NEW s \in Scenes, MoveToScene(c, o, s) PROVE TypeOK'
  <2>1. mailbox' \in [Objects -> Seq(Job)] /\ UNCHANGED <<home, active, condemned>>
    BY <1>11, JobFacts, PostEffect DEF MoveToScene
  <2>2. calls' \in 0..MaxCalls /\ moving' \in [Callers -> (Objects \X Scenes) \cup {None}]
    BY <1>11, WorldAssumption DEF MoveToScene, MayCall
  <2>3. QED
    BY <1>11, <2>1, <2>2 DEF MoveToScene, worldVars
<1>12. ASSUME NEW c \in Callers, NEW o \in Objects, ExitScene(c, o) PROVE TypeOK'
  <2>1. mailbox' \in [Objects -> Seq(Job)] /\ UNCHANGED <<home, active, condemned>>
    BY <1>12, JobFacts, PostEffect DEF ExitScene
  <2>2. calls' \in 0..MaxCalls
    BY <1>12, WorldAssumption DEF ExitScene, MayCall
  <2>3. QED
    BY <1>12, <2>1, <2>2 DEF ExitScene, worldVars
<1>13. ASSUME NEW c \in Callers, NEW o \in Objects, Destroy(c, o) PROVE TypeOK'
  <2>1. mailbox' \in [Objects -> Seq(Job)] /\ UNCHANGED <<home, active, condemned>>
    BY <1>13, JobFacts, PostEffect DEF Destroy
  <2>2. calls' \in 0..MaxCalls
    BY <1>13, WorldAssumption DEF Destroy, MayCall
  <2>3. QED
    BY <1>13, <2>1, <2>2 DEF Destroy, worldVars
<1>14. ASSUME NEW c \in Callers, NEW o \in Objects, PostTo(c, o) PROVE TypeOK'
  <2>1. managerQ' \in Seq(ManagerJob)
    BY <1>14, ManagerFacts, AppendPlaces DEF PostTo
  <2>2. calls' \in 0..MaxCalls
    BY <1>14, WorldAssumption DEF PostTo
  <2>3. QED
    BY <1>14, <2>1, <2>2 DEF PostTo, actorVars
<1>15. ASSUME NEW c \in Callers, MoveToSceneEnter(c) PROVE TypeOK'
  <2>1. moving[c][1] \in Objects /\ moving[c][2] \in Scenes
    BY <1>15 DEF MoveToSceneEnter
  <2>2. mailbox' \in [Objects -> Seq(Job)] /\ UNCHANGED <<home, active, condemned>>
    <3>1. CASE UNCHANGED actorVars
      BY <3>1 DEF actorVars
    <3>2. CASE PostJob(moving[c][1], Enter(moving[c][2]))
      BY <2>1, <3>2, JobFacts, PostEffect
    <3>3. QED
      BY <1>15, <3>1, <3>2 DEF MoveToSceneEnter
  <2>3. QED
    BY <1>15, <2>2 DEF MoveToSceneEnter, worldVars
<1>16. ASSUME ManagerRun PROVE TypeOK'
  <2>1. Head(managerQ) \in ManagerJob /\ managerQ' \in Seq(ManagerJob)
    BY <1>16, TailPlaces DEF ManagerRun
  <2>2. Head(managerQ).obj \in Objects /\ Head(managerQ).kind \in {"register", "unregister", "postTo"}
    BY <2>1, ManagerFacts
  <2>3. mailbox' \in [Objects -> Seq(Job)] /\ UNCHANGED <<home, active, condemned>>
    <3>1. CASE UNCHANGED actorVars
      BY <3>1 DEF actorVars
    <3>2. CASE PostJob(Head(managerQ).obj, Plain("user"))
      BY <2>2, <3>2, JobFacts, PostEffect
    <3>3. QED
      BY <1>16, <3>1, <3>2 DEF ManagerRun
  <2>4. registry' \subseteq Objects
    BY <1>16, <2>2 DEF ManagerRun
  <2>5. QED
    BY <1>16, <2>1, <2>3, <2>4 DEF ManagerRun
<1>17. QED
  BY <1>1, <1>2, <1>3, <1>4, <1>5, <1>6, <1>7, <1>8, <1>9, <1>10, <1>11, <1>12, <1>13, <1>14, <1>15, <1>16
     DEF Next, ObjectStep, Call

-----------------------------------------------------------------------------
(* Before Create *)

(* What a step may do to an object: nothing, unless it has been created.   *)
Untouched(p) ==
    /\ scene'[p] = scene[p] /\ mailbox'[p] = mailbox[p] /\ doing'[p] = doing[p]
    /\ p \in registry' => p \in registry \/ ~NotQueued(p)
    /\ NotQueued(p) => NotQueued(p)'
    /\ InNoScene(p) => InNoScene(p)'
    /\ \A c \in Callers : moving'[c] # None /\ moving'[c][1] = p => moving[c] # None /\ moving[c][1] = p

LEMMA UntouchedUnborn ==
    ASSUME Unborn, \A p \in Objects : ~created'[p] => ~created[p] /\ Untouched(p)
    PROVE  Unborn'
<1> SUFFICES ASSUME NEW p \in Objects, ~created'[p]
             PROVE  /\ scene'[p] # None /\ mailbox'[p] = <<>> /\ doing'[p] = NoJob
                    /\ p \notin registry' /\ NotQueued(p)' /\ InNoScene(p)'
                    /\ \A c \in Callers : moving'[c] # None => moving'[c][1] # p
  BY DEF Unborn, NotQueued, InNoScene
<1>1. ~created[p] /\ Untouched(p)
  OBVIOUS
<1>2. /\ scene[p] # None /\ mailbox[p] = <<>> /\ doing[p] = NoJob
      /\ p \notin registry /\ NotQueued(p) /\ InNoScene(p)
      /\ \A c \in Callers : moving[c] # None => moving[c][1] # p
  BY <1>1 DEF Unborn
<1>3. QED
  BY <1>1, <1>2 DEF Untouched

LEMMA SameQueue == ASSUME UNCHANGED managerQ, NEW p PROVE NotQueued(p) => NotQueued(p)'
BY DEF NotQueued

LEMMA SameScenes == ASSUME UNCHANGED members, NEW p PROVE InNoScene(p) => InNoScene(p)'
BY DEF InNoScene

(* The manager's queue after a job was put there. *)
LEMMA QueueEffect ==
    ASSUME TypeOK, NEW k \in {"register", "unregister", "postTo"}, NEW o \in Objects,
           managerQ' = Append(managerQ, ForManager(k, o))
    PROVE  /\ Len(managerQ) \in Nat /\ Len(managerQ') = Len(managerQ) + 1
           /\ managerQ'[Len(managerQ) + 1] = ForManager(k, o)
           /\ \A i \in 1..Len(managerQ) : managerQ'[i] = managerQ[i]
           /\ \A p \in Objects : p # o \/ k # "register" => (NotQueued(p) => NotQueued(p)')
<1>1. managerQ \in Seq(ManagerJob) /\ ForManager(k, o) \in ManagerJob
  BY ManagerFacts DEF TypeOK
<1>2. PICK q : q = Append(managerQ, ForManager(k, o))
  OBVIOUS
<1>3. /\ Len(managerQ) \in Nat /\ Len(q) = Len(managerQ) + 1
      /\ q[Len(managerQ) + 1] = ForManager(k, o)
      /\ \A i \in 1..Len(managerQ) : q[i] = managerQ[i]
  BY <1>1, <1>2, AppendPlaces
<1>4. managerQ' = q
  BY <1>2
<1>5. ASSUME NEW p \in Objects, p # o \/ k # "register", NotQueued(p) PROVE NotQueued(p)'
  <2>1. ForManager(k, o) # ForManager("register", p)
    BY <1>5 DEF ForManager
  <2>2. QED
    BY <1>3, <1>4, <1>5, <2>1 DEF NotQueued
<1>6. QED
  BY <1>3, <1>4, <1>5

(* The manager's queue after its first job was taken. *)
LEMMA RunEffect ==
    ASSUME TypeOK, ManagerRun
    PROVE  \E j \in ManagerJob :
              /\ j = Head(managerQ)
              /\ Len(managerQ) \in Nat \ {0} /\ Len(managerQ') = Len(managerQ) - 1
              /\ managerQ[1] = j
              /\ \A i \in 1..Len(managerQ') : managerQ'[i] = managerQ[i + 1]
              /\ \A p \in Objects : NotQueued(p) => NotQueued(p)'
              /\ registry' = CASE j.kind = "register" -> registry \cup {j.obj}
                               [] j.kind = "unregister" -> registry \ {j.obj}
                               [] j.kind = "postTo" -> registry
              /\ \/ /\ j.kind = "postTo" /\ j.obj \in registry /\ ~freed[j.obj]
                    /\ PostJob(j.obj, Plain("user"))
                 \/ UNCHANGED actorVars
<1>1. managerQ \in Seq(ManagerJob) /\ managerQ # <<>>
  BY DEF TypeOK, ManagerRun
<1>2. PICK q, j : q = Tail(managerQ) /\ j = Head(managerQ)
  OBVIOUS
<1>3. /\ j \in ManagerJob /\ Len(managerQ) \in Nat \ {0} /\ Len(q) = Len(managerQ) - 1
      /\ j = managerQ[1] /\ \A i \in 1..Len(q) : q[i] = managerQ[i + 1]
  BY <1>1, <1>2, TailPlaces
<1>4. managerQ' = q
  BY <1>2 DEF ManagerRun
<1>5. \A p \in Objects : NotQueued(p) => NotQueued(p)'
  BY <1>3, <1>4 DEF NotQueued
<1>6. registry' = CASE j.kind = "register" -> registry \cup {j.obj}
                    [] j.kind = "unregister" -> registry \ {j.obj}
                    [] j.kind = "postTo" -> registry
  BY <1>2 DEF ManagerRun
<1>7. \/ /\ j.kind = "postTo" /\ j.obj \in registry /\ ~freed[j.obj]
         /\ PostJob(j.obj, Plain("user"))
      \/ UNCHANGED actorVars
  BY <1>2 DEF ManagerRun
<1>8. QED
  BY <1>2, <1>3, <1>4, <1>5, <1>6, <1>7

LEMMA UnbornStep == TypeOK /\ Unborn /\ [Next]_vars => Unborn'
<1> SUFFICES ASSUME TypeOK, Unborn, [Next]_vars,
                    NEW p \in Objects, ~created'[p]
             PROVE  ~created[p] /\ Untouched(p)
  BY UntouchedUnborn
<1> DEFINE Goal == ~created[p] /\ Untouched(p)
<1>0. \A q \in Objects : doing[q] # NoJob => created[q]
  BY DEF Unborn
<1>1. CASE UNCHANGED vars
  <2>1. UNCHANGED <<managerQ, members>>
    BY <1>1 DEF vars, worldVars
  <2>2. QED
    BY <1>1, <2>1, SameQueue, SameScenes DEF Untouched, vars, actorVars, worldVars
<1>2. ASSUME NEW o \in Objects, Create(o) PROVE Goal
  <2>1. p # o /\ ~created[p]
    BY <1>2 DEF Create, TypeOK
  <2>2. scene[o] \in Scenes
    BY <1>2 DEF Create, Unborn, TypeOK
  <2>3. mailbox'[p] = mailbox[p]
    BY <1>2, <2>1, <2>2, JobFacts, PostEffect DEF Create
  <2>4. UNCHANGED <<doing, scene, members, registry, managerQ, moving>>
    BY <1>2 DEF Create, worldVars
  <2>5. QED
    BY <2>1, <2>3, <2>4, SameQueue, SameScenes DEF Untouched
<1>3. ASSUME NEW o \in Objects, Begin(o) PROVE Goal
  <2>1. /\ UNCHANGED <<created, scene, members, registry, managerQ, moving>>
        /\ mailbox[o] # <<>>
        /\ p # o => mailbox'[p] = mailbox[p] /\ doing'[p] = doing[p]
    BY <1>3, BeginEffect DEF worldVars
  <2>2. ~created[p] /\ p # o
    BY <2>1 DEF Unborn
  <2>3. QED
    BY <2>1, <2>2, SameQueue, SameScenes DEF Untouched
<1>4. ASSUME NEW o \in Objects, RunEnter(o) PROVE Goal
  <2>1. doing[o] # NoJob
    BY <1>4, JobFacts DEF RunEnter, Doing
  <2>2. ~created[p] /\ p # o
    BY <1>0, <1>4, <2>1 DEF RunEnter
  <2>3. doing'[p] = doing[p]
    BY <1>4, <2>2 DEF RunEnter, BodyOver, TypeOK
  <2>4. doing[o].to \in Scenes
    BY <1>4, <2>1, JobFacts DEF RunEnter, Doing, TypeOK
  <2>5. NotQueued(p) => NotQueued(p)'
    BY <1>4, <2>2, QueueEffect DEF RunEnter
  <2>6. InNoScene(p) => InNoScene(p)'
    <3>1. ASSUME NEW s \in Scenes, p \notin Elems(members[s]) PROVE p \notin Elems(members'[s])
      <4>1. CASE s = doing[o].to
        <5>1. members'[s] = Append(members[s], o) /\ members[s] \in Seq(Objects)
          BY <1>4, <4>1 DEF RunEnter, TypeOK
        <5>2. QED
          BY <2>2, <3>1, <5>1, ElemsAppend
      <4>2. CASE s # doing[o].to
        BY <1>4, <3>1, <4>2 DEF RunEnter, TypeOK
      <4>3. QED
        BY <4>1, <4>2
    <3>2. QED
      BY <3>1 DEF InNoScene
  <2>7. QED
    BY <1>4, <2>2, <2>3, <2>5, <2>6 DEF RunEnter, Untouched, TypeOK, actorVars
<1>5. ASSUME NEW o \in Objects, RunLeave(o) PROVE Goal
  <2>1. doing[o] # NoJob
    BY <1>5, JobFacts DEF RunLeave, Doing
  <2>2. ~created[p] /\ p # o
    BY <1>0, <1>5, <2>1 DEF RunLeave
  <2>3. doing'[p] = doing[p]
    BY <1>5, <2>2 DEF RunLeave, BodyOver, TypeOK
  <2>4. UNCHANGED <<registry, managerQ, moving>>
    BY <1>5 DEF RunLeave
  <2>5. CASE UNCHANGED <<actorVars, scene, members>>
    BY <2>2, <2>3, <2>4, <2>5, SameQueue, SameScenes DEF Untouched, actorVars
  <2>6. CASE Exit(o) /\ Actors!Move(o, SceneThread[doing[o].to])
    <3>1. InNoScene(p) => InNoScene(p)'
      BY <2>6, ExitEffect DEF InNoScene
    <3>2. scene'[p] = scene[p]
      BY <2>2, <2>6, ExitEffect DEF TypeOK
    <3>3. mailbox' = mailbox
      BY <2>6 DEF Actors!Move
    <3>4. QED
      BY <2>2, <2>3, <2>4, <3>1, <3>2, <3>3, SameQueue DEF Untouched
  <2>7. QED
    BY <1>5, <2>5, <2>6 DEF RunLeave
<1>6. ASSUME NEW o \in Objects, RunExit(o) PROVE Goal
  <2>1. doing[o] # NoJob
    BY <1>6, JobFacts DEF RunExit, Doing
  <2>2. ~created[p] /\ p # o
    BY <1>0, <1>6, <2>1 DEF RunExit
  <2>3. doing'[p] = doing[p]
    BY <1>6, <2>2 DEF RunExit, BodyOver, TypeOK
  <2>4. InNoScene(p) => InNoScene(p)'
    BY <1>6, ExitEffect DEF RunExit, InNoScene
  <2>5. scene'[p] = scene[p]
    BY <1>6, <2>2, ExitEffect DEF RunExit, TypeOK
  <2>6. UNCHANGED <<mailbox, registry, managerQ, moving>>
    BY <1>6 DEF RunExit, actorVars
  <2>7. QED
    BY <2>2, <2>3, <2>4, <2>5, <2>6, SameQueue DEF Untouched
<1>7. ASSUME NEW o \in Objects, RunDestroy(o) PROVE Goal
  <2>1. doing[o] # NoJob
    BY <1>7, JobFacts DEF RunDestroy, Doing
  <2>2. ~created[p] /\ p # o
    BY <1>0, <1>7, <2>1 DEF RunDestroy
  <2>3. doing'[p] = doing[p]
    BY <1>7, <2>2 DEF RunDestroy, BodyOver, TypeOK
  <2>4. InNoScene(p) => InNoScene(p)'
    BY <1>7, ExitEffect DEF RunDestroy, InNoScene
  <2>5. scene'[p] = scene[p]
    BY <1>7, <2>2, ExitEffect DEF RunDestroy, TypeOK
  <2>6. UNCHANGED <<mailbox, registry, moving>>
    BY <1>7 DEF RunDestroy, Actors!Condemn
  <2>7. NotQueued(p) => NotQueued(p)'
    BY <1>7, QueueEffect DEF RunDestroy
  <2>8. QED
    BY <2>2, <2>3, <2>4, <2>5, <2>6, <2>7 DEF Untouched
<1>8. ASSUME NEW o \in Objects, RunUser(o) PROVE Goal
  <2>1. doing[o] # NoJob
    BY <1>8, JobFacts DEF RunUser, Doing
  <2>2. ~created[p] /\ p # o
    BY <1>0, <1>8, <2>1 DEF RunUser
  <2>3. doing'[p] = doing[p]
    BY <1>8, <2>2 DEF RunUser, BodyOver, TypeOK
  <2>4. UNCHANGED <<mailbox, scene, members, registry, managerQ, moving>>
    BY <1>8 DEF RunUser, actorVars, worldVars
  <2>5. QED
    BY <2>2, <2>3, <2>4, SameQueue, SameScenes DEF Untouched
<1>9. ASSUME NEW o \in Objects, Return(o) PROVE Goal
  <2>1. doing[o] # NoJob
    BY <1>9, JobFacts DEF Return, Doing
  <2>2. ~created[p] /\ p # o
    BY <1>0, <1>9, <2>1 DEF Return
  <2>3. doing'[p] = doing[p]
    BY <1>9, <2>2 DEF Return, BodyOver, TypeOK
  <2>4. UNCHANGED <<mailbox, scene, members, registry, managerQ, moving>>
    BY <1>9 DEF Return, Actors!Finish, worldVars
  <2>5. QED
    BY <2>2, <2>3, <2>4, SameQueue, SameScenes DEF Untouched
<1>10. ASSUME NEW o \in Objects, Delete(o) PROVE Goal
  <2>1. UNCHANGED <<created, doing, scene, members, registry, managerQ, moving>>
    BY <1>10 DEF Delete, worldVars
  <2>2. ~created[p] /\ mailbox[p] = <<>>
    BY <2>1 DEF Unborn
  <2>3. mailbox'[p] = <<>>
    BY <1>10, <2>2 DEF Delete, Actors!Discard, TypeOK
  <2>4. QED
    BY <2>1, <2>2, <2>3, SameQueue, SameScenes DEF Untouched
<1>11. ASSUME NEW c \in Callers, NEW o \in Objects, NEW s \in Scenes, MoveToScene(c, o, s) PROVE Goal
  <2>1. UNCHANGED <<created, doing, scene, members, registry, managerQ>>
    BY <1>11 DEF MoveToScene, worldVars
  <2>2. ~created[p] /\ p # o
    BY <1>11, <2>1 DEF MoveToScene, MayCall
  <2>3. mailbox'[p] = mailbox[p]
    BY <1>11, <2>2, JobFacts, PostEffect DEF MoveToScene
  <2>4. \A d \in Callers : moving'[d] # None /\ moving'[d][1] = p => moving[d] # None /\ moving[d][1] = p
    BY <1>11, <2>2 DEF MoveToScene, TypeOK
  <2>5. QED
    BY <2>1, <2>2, <2>3, <2>4, SameQueue, SameScenes DEF Untouched
<1>12. ASSUME NEW c \in Callers, NEW o \in Objects, ExitScene(c, o) PROVE Goal
  <2>1. UNCHANGED <<created, doing, scene, members, registry, managerQ, moving>>
    BY <1>12 DEF ExitScene, worldVars
  <2>2. ~created[p] /\ p # o
    BY <1>12, <2>1 DEF ExitScene, MayCall
  <2>3. mailbox'[p] = mailbox[p]
    BY <1>12, <2>2, JobFacts, PostEffect DEF ExitScene
  <2>4. QED
    BY <2>1, <2>2, <2>3, SameQueue, SameScenes DEF Untouched
<1>13. ASSUME NEW c \in Callers, NEW o \in Objects, Destroy(c, o) PROVE Goal
  <2>1. UNCHANGED <<created, doing, scene, members, registry, managerQ, moving>>
    BY <1>13 DEF Destroy, worldVars
  <2>2. ~created[p] /\ p # o
    BY <1>13, <2>1 DEF Destroy, MayCall
  <2>3. mailbox'[p] = mailbox[p]
    BY <1>13, <2>2, JobFacts, PostEffect DEF Destroy
  <2>4. QED
    BY <2>1, <2>2, <2>3, SameQueue, SameScenes DEF Untouched
<1>14. ASSUME NEW c \in Callers, NEW o \in Objects, PostTo(c, o) PROVE Goal
  <2>1. UNCHANGED <<created, mailbox, doing, scene, members, registry, moving>>
    BY <1>14 DEF PostTo, actorVars
  <2>2. NotQueued(p) => NotQueued(p)'
    BY <1>14, QueueEffect DEF PostTo
  <2>3. QED
    BY <2>1, <2>2, SameScenes DEF Untouched
<1>15. ASSUME NEW c \in Callers, MoveToSceneEnter(c) PROVE Goal
  <2>1. UNCHANGED <<created, doing, scene, members, registry, managerQ>>
    BY <1>15 DEF MoveToSceneEnter, worldVars
  <2>2. moving[c] # None /\ moving[c][1] \in Objects /\ moving[c][2] \in Scenes
    BY <1>15 DEF MoveToSceneEnter, TypeOK
  <2>3. ~created[p] /\ p # moving[c][1]
    BY <2>1, <2>2 DEF Unborn
  <2>4. mailbox'[p] = mailbox[p]
    <3>1. CASE UNCHANGED actorVars
      BY <3>1 DEF actorVars
    <3>2. CASE PostJob(moving[c][1], Enter(moving[c][2]))
      BY <2>2, <2>3, <3>2, JobFacts, PostEffect
    <3>3. QED
      BY <1>15, <3>1, <3>2 DEF MoveToSceneEnter
  <2>5. \A d \in Callers : moving'[d] # None /\ moving'[d][1] = p => moving[d] # None /\ moving[d][1] = p
    BY <1>15, <2>2 DEF MoveToSceneEnter, TypeOK
  <2>6. QED
    BY <2>1, <2>3, <2>4, <2>5, SameQueue, SameScenes DEF Untouched
<1>16. ASSUME ManagerRun PROVE Goal
  <2>1. UNCHANGED <<created, doing, scene, members, moving>>
    BY <1>16 DEF ManagerRun
  <2>2. ~created[p] /\ p \notin registry
    BY <2>1 DEF Unborn
  <2>3. PICK j \in ManagerJob :
           /\ Len(managerQ) \in Nat \ {0} /\ managerQ[1] = j
           /\ NotQueued(p) => NotQueued(p)'
           /\ registry' = CASE j.kind = "register" -> registry \cup {j.obj}
                            [] j.kind = "unregister" -> registry \ {j.obj}
                            [] j.kind = "postTo" -> registry
           /\ \/ /\ j.obj \in registry
                 /\ PostJob(j.obj, Plain("user"))
              \/ UNCHANGED actorVars
    BY <1>16, RunEffect
  <2>4. mailbox'[p] = mailbox[p]
    <3>1. CASE UNCHANGED actorVars
      BY <3>1 DEF actorVars
    <3>2. CASE j.obj \in registry /\ PostJob(j.obj, Plain("user"))
      <4>1. j.obj \in Objects /\ j.obj # p
        BY <2>2, <3>2, ManagerFacts
      <4>2. QED
        BY <3>2, <4>1, JobFacts, PostEffect
    <3>3. QED
      BY <2>3, <3>1, <3>2
  <2>5. p \in registry' => ~NotQueued(p)
    <3>1. SUFFICES ASSUME p \in registry' PROVE ~NotQueued(p)
      OBVIOUS
    <3>2. j = ForManager("register", p)
      BY <2>2, <2>3, <3>1, ManagerFacts
    <3>3. QED
      BY <2>3, <3>2 DEF NotQueued
  <2>6. QED
    BY <2>1, <2>2, <2>3, <2>4, <2>5, SameScenes DEF Untouched
<1>17. QED
  BY <1>1, <1>2, <1>3, <1>4, <1>5, <1>6, <1>7, <1>8, <1>9, <1>10, <1>11, <1>12, <1>13, <1>14, <1>15, <1>16
     DEF Next, ObjectStep, Call

-----------------------------------------------------------------------------
(* After Destroy *)

LEMMA SameGone == ASSUME Gone, UNCHANGED <<condemned, freed, doing, scene>> PROVE Gone'
BY DEF Gone

LEMMA SamePosts ==
    ASSUME TypeOK, NEW o \in Objects, NEW j \in Job, PostJob(o, j)
    PROVE  UNCHANGED <<home, active, condemned>>
BY PostEffect

LEMMA GoneStep == TypeOK /\ Unborn /\ Gone /\ [Next]_vars => Gone'
<1> SUFFICES ASSUME TypeOK, Unborn, Gone, [Next]_vars PROVE Gone'
  OBVIOUS
<1>0. \A o \in Objects : condemned[o] => doing[o].kind \in {"done", "none"}
  BY DEF Gone
<1>1. CASE UNCHANGED vars
  BY <1>1, SameGone DEF vars, actorVars, worldVars
<1>2. ASSUME NEW o \in Objects, Create(o) PROVE Gone'
  <2>1. scene[o] \in Scenes
    BY <1>2 DEF Create, Unborn, TypeOK
  <2>2. UNCHANGED condemned
    BY <1>2, <2>1, JobFacts, SamePosts DEF Create
  <2>3. QED
    BY <1>2, <2>2, SameGone DEF Create, worldVars
<1>3. ASSUME NEW o \in Objects, Begin(o) PROVE Gone'
  <2>1. /\ UNCHANGED <<condemned, freed, scene>> /\ ~condemned[o]
        /\ \A p \in Objects : p # o => doing'[p] = doing[p]
    BY <1>3, BeginEffect DEF worldVars
  <2>2. QED
    BY <2>1 DEF Gone
<1>4. ASSUME NEW o \in Objects, RunEnter(o) PROVE Gone'
  <2>1. ~condemned[o]
    BY <1>0, <1>4 DEF RunEnter, Doing
  <2>2. UNCHANGED <<condemned, freed>>
    BY <1>4 DEF RunEnter, actorVars
  <2>3. \A p \in Objects : p # o => doing'[p] = doing[p] /\ scene'[p] = scene[p]
    BY <1>4 DEF RunEnter, BodyOver, TypeOK
  <2>4. QED
    BY <2>1, <2>2, <2>3 DEF Gone
<1>5. ASSUME NEW o \in Objects, RunLeave(o) PROVE Gone'
  <2>1. ~condemned[o]
    BY <1>0, <1>5 DEF RunLeave, Doing
  <2>2. UNCHANGED <<condemned, freed>>
    BY <1>5 DEF RunLeave, actorVars, Actors!Move
  <2>3. \A p \in Objects : p # o => doing'[p] = doing[p] /\ scene'[p] = scene[p]
    BY <1>5, ExitEffect DEF RunLeave, BodyOver, TypeOK
  <2>4. QED
    BY <2>1, <2>2, <2>3 DEF Gone
<1>6. ASSUME NEW o \in Objects, RunExit(o) PROVE Gone'
  <2>1. ~condemned[o]
    BY <1>0, <1>6 DEF RunExit, Doing
  <2>2. UNCHANGED <<condemned, freed>>
    BY <1>6 DEF RunExit, actorVars
  <2>3. \A p \in Objects : p # o => doing'[p] = doing[p] /\ scene'[p] = scene[p]
    BY <1>6, ExitEffect DEF RunExit, BodyOver, TypeOK
  <2>4. QED
    BY <2>1, <2>2, <2>3 DEF Gone
<1>7. ASSUME NEW o \in Objects, RunDestroy(o) PROVE Gone'
  <2>1. condemned' = [condemned EXCEPT ![o] = TRUE] /\ UNCHANGED freed
    BY <1>7 DEF RunDestroy, Actors!Condemn
  <2>2. \A p \in Objects : p # o => doing'[p] = doing[p] /\ scene'[p] = scene[p]
    BY <1>7, ExitEffect DEF RunDestroy, BodyOver, TypeOK
  <2>3. scene'[o] = None /\ doing'[o].kind = "done"
    BY <1>7, ExitEffect, JobFacts DEF RunDestroy, BodyOver, TypeOK
  <2>4. QED
    BY <2>1, <2>2, <2>3 DEF Gone, TypeOK
<1>8. ASSUME NEW o \in Objects, RunUser(o) PROVE Gone'
  <2>1. ~condemned[o]
    BY <1>0, <1>8 DEF RunUser, Doing
  <2>2. UNCHANGED <<condemned, freed, scene>>
    BY <1>8 DEF RunUser, actorVars, worldVars
  <2>3. \A p \in Objects : p # o => doing'[p] = doing[p]
    BY <1>8 DEF RunUser, BodyOver, TypeOK
  <2>4. QED
    BY <2>1, <2>2, <2>3 DEF Gone
<1>9. ASSUME NEW o \in Objects, Return(o) PROVE Gone'
  <2>1. UNCHANGED <<condemned, freed, scene>>
    BY <1>9 DEF Return, Actors!Finish, worldVars
  <2>2. /\ doing'[o].kind = "none"
        /\ \A p \in Objects : p # o => doing'[p] = doing[p]
    BY <1>9, JobFacts DEF Return, TypeOK
  <2>3. QED
    BY <2>1, <2>2 DEF Gone
<1>10. ASSUME NEW o \in Objects, Delete(o) PROVE Gone'
  <2>1. UNCHANGED <<condemned, doing, scene>>
    BY <1>10 DEF Delete, Actors!Discard, worldVars
  <2>2. condemned[o] /\ freed' = [freed EXCEPT ![o] = TRUE]
    BY <1>10 DEF Delete
  <2>3. QED
    BY <2>1, <2>2 DEF Gone, TypeOK
<1>11. ASSUME NEW c \in Callers, NEW o \in Objects, NEW s \in Scenes, MoveToScene(c, o, s) PROVE Gone'
  BY <1>11, JobFacts, SamePosts, SameGone DEF MoveToScene, worldVars
<1>12. ASSUME NEW c \in Callers, NEW o \in Objects, ExitScene(c, o) PROVE Gone'
  BY <1>12, JobFacts, SamePosts, SameGone DEF ExitScene, worldVars
<1>13. ASSUME NEW c \in Callers, NEW o \in Objects, Destroy(c, o) PROVE Gone'
  BY <1>13, JobFacts, SamePosts, SameGone DEF Destroy, worldVars
<1>14. ASSUME NEW c \in Callers, NEW o \in Objects, PostTo(c, o) PROVE Gone'
  BY <1>14, SameGone DEF PostTo, actorVars
<1>15. ASSUME NEW c \in Callers, MoveToSceneEnter(c) PROVE Gone'
  <2>1. moving[c][1] \in Objects /\ moving[c][2] \in Scenes
    BY <1>15 DEF MoveToSceneEnter, TypeOK
  <2>2. UNCHANGED condemned
    BY <1>15, <2>1, JobFacts, SamePosts DEF MoveToSceneEnter, actorVars
  <2>3. QED
    BY <1>15, <2>2, SameGone DEF MoveToSceneEnter, worldVars
<1>16. ASSUME ManagerRun PROVE Gone'
  <2>1. UNCHANGED condemned
    <3>1. PICK j \in ManagerJob : PostJob(j.obj, Plain("user")) \/ UNCHANGED actorVars
      BY <1>16, RunEffect
    <3>2. QED
      BY <3>1, ManagerFacts, JobFacts, SamePosts DEF actorVars
  <2>2. QED
    BY <1>16, <2>1, SameGone DEF ManagerRun
<1>17. QED
  BY <1>1, <1>2, <1>3, <1>4, <1>5, <1>6, <1>7, <1>8, <1>9, <1>10, <1>11, <1>12, <1>13, <1>14, <1>15, <1>16
     DEF Next, ObjectStep, Call

-----------------------------------------------------------------------------
(* The manager's queue *)

LEMMA SameForgets ==
    ASSUME Forgets, UNCHANGED <<registry, managerQ>>,
           \A o \in Objects : condemned'[o] => condemned[o]
    PROVE  Forgets'
BY DEF Forgets

(* A job is queued behind that is no Register of a condemned object. *)
LEMMA QueuedForgets ==
    ASSUME TypeOK, Forgets, NEW k \in {"register", "unregister", "postTo"}, NEW o \in Objects,
           managerQ' = Append(managerQ, ForManager(k, o)), UNCHANGED registry,
           \A p \in Objects : condemned'[p] => condemned[p] \/ (p = o /\ k = "unregister"),
           k = "register" => ~condemned[o]
    PROVE  Forgets'
<1>1. /\ Len(managerQ) \in Nat /\ Len(managerQ') = Len(managerQ) + 1
      /\ managerQ'[Len(managerQ) + 1] = ForManager(k, o)
      /\ \A i \in 1..Len(managerQ) : managerQ'[i] = managerQ[i]
  BY QueueEffect
<1> SUFFICES ASSUME NEW p \in Objects, condemned'[p]
             PROVE  /\ p \in registry' =>
                          \E i \in 1..Len(managerQ') : managerQ'[i] = ForManager("unregister", p)
                    /\ \A i \in 1..Len(managerQ') : managerQ'[i] = ForManager("register", p) =>
                          \E m \in 1..Len(managerQ') : m > i /\ managerQ'[m] = ForManager("unregister", p)
  BY DEF Forgets
<1>2. Len(managerQ) + 1 \in 1..Len(managerQ') /\ 1..Len(managerQ) \subseteq 1..Len(managerQ')
  BY <1>1
<1>3. CASE p = o /\ k = "unregister"
  <2>1. ForManager(k, o) # ForManager("register", p)
    BY <1>3 DEF ForManager
  <2>2. \A i \in 1..Len(managerQ') : managerQ'[i] = ForManager("register", p) => Len(managerQ) + 1 > i
    BY <1>1, <2>1
  <2>3. QED
    BY <1>1, <1>2, <1>3, <2>2
<1>4. CASE condemned[p]
  <2>1. ForManager(k, o) # ForManager("register", p)
    BY <1>4 DEF ForManager
  <2>2. p \in registry => \E i \in 1..Len(managerQ) : managerQ[i] = ForManager("unregister", p)
    BY <1>4 DEF Forgets
  <2>3. \A i \in 1..Len(managerQ) : managerQ[i] = ForManager("register", p) =>
             \E m \in 1..Len(managerQ) : m > i /\ managerQ[m] = ForManager("unregister", p)
    BY <1>4 DEF Forgets
  <2>4. ASSUME NEW i \in 1..Len(managerQ'), managerQ'[i] = ForManager("register", p)
        PROVE  \E m \in 1..Len(managerQ') : m > i /\ managerQ'[m] = ForManager("unregister", p)
    <3>1. i \in 1..Len(managerQ) /\ managerQ[i] = ForManager("register", p)
      BY <1>1, <2>1, <2>4
    <3>2. PICK m \in 1..Len(managerQ) : m > i /\ managerQ[m] = ForManager("unregister", p)
      BY <2>3, <3>1
    <3>3. QED
      BY <1>1, <1>2, <3>2
  <2>5. p \in registry' => \E i \in 1..Len(managerQ') : managerQ'[i] = ForManager("unregister", p)
    BY <1>1, <1>2, <2>2
  <2>6. QED
    BY <2>4, <2>5
<1>5. QED
  BY <1>3, <1>4

LEMMA ForgetsStep == TypeOK /\ Unborn /\ Gone /\ Forgets /\ [Next]_vars => Forgets'
<1> SUFFICES ASSUME TypeOK, Unborn, Gone, Forgets, [Next]_vars PROVE Forgets'
  OBVIOUS
<1>1. CASE UNCHANGED vars
  BY <1>1, SameForgets DEF vars, actorVars, worldVars
<1>2. ASSUME NEW o \in Objects, Create(o) PROVE Forgets'
  <2>1. scene[o] \in Scenes
    BY <1>2 DEF Create, Unborn, TypeOK
  <2>2. UNCHANGED condemned
    BY <1>2, <2>1, JobFacts, SamePosts DEF Create
  <2>3. QED
    BY <1>2, <2>2, SameForgets DEF Create, worldVars
<1>3. ASSUME NEW o \in Objects, Begin(o) PROVE Forgets'
  BY <1>3, BeginEffect, SameForgets DEF worldVars
<1>4. ASSUME NEW o \in Objects, RunEnter(o) PROVE Forgets'
  <2>1. ~condemned[o]
    BY <1>4 DEF RunEnter, Doing, Gone
  <2>2. UNCHANGED <<condemned, registry>> /\ managerQ' = Append(managerQ, ForManager("register", o))
    BY <1>4 DEF RunEnter, actorVars
  <2>3. QED
    BY <2>1, <2>2, QueuedForgets
<1>5. ASSUME NEW o \in Objects, RunLeave(o) PROVE Forgets'
  <2>1. UNCHANGED <<condemned, registry, managerQ>>
    BY <1>5 DEF RunLeave, actorVars, Actors!Move
  <2>2. QED
    BY <2>1, SameForgets
<1>6. ASSUME NEW o \in Objects, RunExit(o) PROVE Forgets'
  <2>1. UNCHANGED <<condemned, registry, managerQ>>
    BY <1>6 DEF RunExit, actorVars
  <2>2. QED
    BY <2>1, SameForgets
<1>7. ASSUME NEW o \in Objects, RunDestroy(o) PROVE Forgets'
  <2>1. condemned' = [condemned EXCEPT ![o] = TRUE] /\ UNCHANGED registry
        /\ managerQ' = Append(managerQ, ForManager("unregister", o))
    BY <1>7 DEF RunDestroy, Actors!Condemn
  <2>2. \A p \in Objects : condemned'[p] => condemned[p] \/ p = o
    BY <2>1 DEF TypeOK
  <2>3. QED
    BY <2>1, <2>2, QueuedForgets
<1>8. ASSUME NEW o \in Objects, RunUser(o) PROVE Forgets'
  BY <1>8, SameForgets DEF RunUser, actorVars, worldVars
<1>9. ASSUME NEW o \in Objects, Return(o) PROVE Forgets'
  BY <1>9, SameForgets DEF Return, Actors!Finish, worldVars
<1>10. ASSUME NEW o \in Objects, Delete(o) PROVE Forgets'
  BY <1>10, SameForgets DEF Delete, Actors!Discard, worldVars
<1>11. ASSUME NEW c \in Callers, NEW o \in Objects, NEW s \in Scenes, MoveToScene(c, o, s) PROVE Forgets'
  BY <1>11, JobFacts, SamePosts, SameForgets DEF MoveToScene, worldVars
<1>12. ASSUME NEW c \in Callers, NEW o \in Objects, ExitScene(c, o) PROVE Forgets'
  BY <1>12, JobFacts, SamePosts, SameForgets DEF ExitScene, worldVars
<1>13. ASSUME NEW c \in Callers, NEW o \in Objects, Destroy(c, o) PROVE Forgets'
  BY <1>13, JobFacts, SamePosts, SameForgets DEF Destroy, worldVars
<1>14. ASSUME NEW c \in Callers, NEW o \in Objects, PostTo(c, o) PROVE Forgets'
  <2>1. UNCHANGED <<condemned, registry>> /\ managerQ' = Append(managerQ, ForManager("postTo", o))
    BY <1>14 DEF PostTo, actorVars
  <2>2. QED
    BY <2>1, QueuedForgets
<1>15. ASSUME NEW c \in Callers, MoveToSceneEnter(c) PROVE Forgets'
  <2>1. moving[c][1] \in Objects /\ moving[c][2] \in Scenes
    BY <1>15 DEF MoveToSceneEnter, TypeOK
  <2>2. UNCHANGED condemned
    BY <1>15, <2>1, JobFacts, SamePosts DEF MoveToSceneEnter, actorVars
  <2>3. QED
    BY <1>15, <2>2, SameForgets DEF MoveToSceneEnter, worldVars
<1>16. ASSUME ManagerRun PROVE Forgets'
  <2>1. PICK j \in ManagerJob :
              /\ Len(managerQ) \in Nat \ {0} /\ Len(managerQ') = Len(managerQ) - 1
              /\ managerQ[1] = j
              /\ \A i \in 1..Len(managerQ') : managerQ'[i] = managerQ[i + 1]
              /\ registry' = CASE j.kind = "register" -> registry \cup {j.obj}
                               [] j.kind = "unregister" -> registry \ {j.obj}
                               [] j.kind = "postTo" -> registry
              /\ PostJob(j.obj, Plain("user")) \/ UNCHANGED actorVars
    BY <1>16, RunEffect
  <2>2. UNCHANGED condemned
    BY <2>1, ManagerFacts, JobFacts, SamePosts DEF actorVars
  <2>3. j.kind \in {"register", "unregister", "postTo"} /\ j = ForManager(j.kind, j.obj)
    BY ManagerFacts
  <2>4. ASSUME NEW p \in Objects, condemned[p]
        PROVE  /\ p \in registry' =>
                     \E i \in 1..Len(managerQ') : managerQ'[i] = ForManager("unregister", p)
               /\ \A i \in 1..Len(managerQ') : managerQ'[i] = ForManager("register", p) =>
                     \E m \in 1..Len(managerQ') : m > i /\ managerQ'[m] = ForManager("unregister", p)
    <3>1. /\ p \in registry => \E i \in 1..Len(managerQ) : managerQ[i] = ForManager("unregister", p)
          /\ \A i \in 1..Len(managerQ) : managerQ[i] = ForManager("register", p) =>
               \E m \in 1..Len(managerQ) : m > i /\ managerQ[m] = ForManager("unregister", p)
      BY <2>4 DEF Forgets
    <3>2. ASSUME NEW m \in 1..Len(managerQ), m > 1
          PROVE  m - 1 \in 1..Len(managerQ') /\ managerQ'[m - 1] = managerQ[m]
      <4>1. m - 1 \in 1..Len(managerQ') /\ (m - 1) + 1 = m
        BY <2>1, <3>2
      <4>2. QED
        BY <2>1, <4>1
    <3>3. ASSUME NEW i \in 1..Len(managerQ'), managerQ'[i] = ForManager("register", p)
          PROVE  \E m \in 1..Len(managerQ') : m > i /\ managerQ'[m] = ForManager("unregister", p)
      <4>1. i + 1 \in 1..Len(managerQ) /\ managerQ[i + 1] = ForManager("register", p)
        BY <2>1, <3>3
      <4>2. PICK m \in 1..Len(managerQ) : m > i + 1 /\ managerQ[m] = ForManager("unregister", p)
        BY <3>1, <4>1
      <4>3. m > 1 /\ m - 1 > i
        BY <4>2
      <4>4. QED
        BY <3>2, <4>2, <4>3
    <3>4. ASSUME p \in registry'
          PROVE  \E i \in 1..Len(managerQ') : managerQ'[i] = ForManager("unregister", p)
      <4>1. CASE j = ForManager("register", p)
        <5>1. 1 \in 1..Len(managerQ)
          BY <2>1
        <5>2. PICK m \in 1..Len(managerQ) : m > 1 /\ managerQ[m] = ForManager("unregister", p)
          BY <2>1, <3>1, <4>1, <5>1
        <5>3. QED
          BY <3>2, <5>2
      <4>2. CASE j # ForManager("register", p)
        <5>1. p \in registry /\ j # ForManager("unregister", p)
          BY <2>1, <2>3, <3>4, <4>2 DEF ForManager
        <5>2. PICK m \in 1..Len(managerQ) : managerQ[m] = ForManager("unregister", p)
          BY <3>1, <5>1
        <5>3. m # 1 /\ m > 1
          BY <2>1, <5>1, <5>2
        <5>4. QED
          BY <3>2, <5>2, <5>3
      <4>3. QED
        BY <4>1, <4>2
    <3>5. QED
      BY <3>3, <3>4
  <2>5. QED
    BY <2>2, <2>4 DEF Forgets
<1>17. QED
  BY <1>1, <1>2, <1>3, <1>4, <1>5, <1>6, <1>7, <1>8, <1>9, <1>10, <1>11, <1>12, <1>13, <1>14, <1>15, <1>16
     DEF Next, ObjectStep, Call

-----------------------------------------------------------------------------
LEMMA InitBase == Init => BaseInv
<1> SUFFICES ASSUME Init PROVE BaseInv
  OBVIOUS
<1>1. TypeOK
  BY InitTypes
<1>2. /\ mailbox = [o \in Objects |-> <<>>] /\ doing = [o \in Objects |-> NoJob]
      /\ condemned = [o \in Objects |-> FALSE] /\ freed = [o \in Objects |-> FALSE]
      /\ members = [s \in Scenes |-> <<>>] /\ registry = {} /\ managerQ = <<>>
      /\ moving = [c \in Callers |-> None] /\ scene \in [Objects -> Scenes]
  BY DEF Init, Actors!Init
<1>3. ASSUME NEW o \in Objects PROVE NotQueued(o) /\ InNoScene(o)
  <2>1. Len(<<>>) = 0 /\ Elems(<<>>) = {}
    BY EmptyPlaces DEF Elems
  <2>2. QED
    BY <1>2, <2>1 DEF NotQueued, InNoScene
<1>4. Unborn
  BY <1>2, <1>3, WorldAssumption DEF Unborn
<1>5. Gone /\ Forgets
  BY <1>2 DEF Gone, Forgets
<1>6. QED
  BY <1>1, <1>4, <1>5 DEF BaseInv

LEMMA BaseStep == BaseInv /\ [Next]_vars => BaseInv'
BY TypeStep, UnbornStep, GoneStep, ForgetsStep DEF BaseInv

LEMMA BaseInvariant == Spec => []BaseInv
<1>1. QED
  BY InitBase, BaseStep, PTL DEF Spec

(* The actors, scenes and the manager keep to their types, however callers *)
(* behave: an object that is created has a scene to enter, and every       *)
(* thread an object moves to is a game thread.                             *)
THEOREM WorldTypes == Spec => []TypeOK
<1>1. BaseInv => TypeOK
  BY DEF BaseInv
<1>2. QED
  BY BaseInvariant, <1>1, PTL

(* GameObjectManager forgets every deleted object, however callers behave: *)
(* its Unregister is queued behind every Register (RunDestroy, ManagerRun).*)
THEOREM ManagerForgetsDeleted == Spec => []ManagerForgets
<1>1. BaseInv => ManagerForgets
  <2> SUFFICES ASSUME BaseInv PROVE ManagerForgets
    OBVIOUS
  <2>1. DOMAIN managerQ = 1..Len(managerQ)
    BY Places DEF BaseInv, TypeOK
  <2>2. QED
    BY <2>1 DEF BaseInv, Gone, Forgets, ManagerForgets
<1>2. QED
  BY BaseInvariant, <1>1, PTL

-----------------------------------------------------------------------------
(* Moves, when callers take turns *)

(* Most steps bring no new "enter" or "leave": what is to come of them was *)
(* there before, in the same place.                                        *)
IsMove(j) == j.kind \in {"enter", "leave"}

Quiet ==
    /\ \A p \in Objects :
          /\ IsMove(doing'[p]) => doing'[p] = doing[p]
          /\ \A i \in 1..Len(mailbox'[p]) : IsMove(mailbox'[p][i]) =>
                i \in 1..Len(mailbox[p]) /\ mailbox'[p][i] = mailbox[p][i]
    /\ \A c \in Callers : moving'[c] # None => moving'[c] = moving[c]

LEMMA Pair ==
    ASSUME TypeOK, NEW c \in Callers, moving[c] # None
    PROVE  /\ moving[c][1] \in Objects /\ moving[c][2] \in Scenes
           /\ moving[c] = <<moving[c][1], moving[c][2]>>
BY DEF TypeOK

LEMMA QuietMoves == ASSUME TypeOK, Moves, Quiet PROVE Moves'
<1>1. MailboxMoves'
  BY DEF Moves, MailboxMoves, Quiet, IsMove
<1>2. DoingMoves'
  <2> SUFFICES ASSUME NEW o \in Objects, NEW i \in 1..Len(mailbox'[o])
               PROVE  /\ doing'[o].kind = "enter" => mailbox'[o][i].kind \notin {"enter", "leave"}
                      /\ doing'[o].kind = "leave" =>
                            /\ mailbox'[o][i].kind # "leave"
                            /\ mailbox'[o][i].kind = "enter" => mailbox'[o][i].to = doing'[o].to
    BY DEF DoingMoves
  <2>1. CASE IsMove(doing'[o]) /\ IsMove(mailbox'[o][i])
    BY <2>1 DEF Moves, DoingMoves, Quiet
  <2>2. QED
    BY <2>1 DEF IsMove
<1>3. CallersMove'
  <2> SUFFICES ASSUME NEW c \in Callers, moving'[c] # None
               PROVE  /\ \A d \in Callers : moving'[d] # None /\ moving'[d][1] = moving'[c][1] => c = d
                      /\ doing'[moving'[c][1]].kind # "enter"
                      /\ doing'[moving'[c][1]].kind = "leave" => doing'[moving'[c][1]].to = moving'[c][2]
                      /\ \A i \in 1..Len(mailbox'[moving'[c][1]]) :
                            /\ mailbox'[moving'[c][1]][i].kind # "enter"
                            /\ mailbox'[moving'[c][1]][i].kind = "leave" =>
                                  mailbox'[moving'[c][1]][i].to = moving'[c][2]
    BY DEF CallersMove
  <2>1. moving'[c] = moving[c] /\ moving[c] # None
    BY DEF Quiet
  <2>2. PICK o \in Objects, s \in Scenes : o = moving[c][1] /\ s = moving[c][2]
    BY <2>1, Pair
  <2>3. /\ \A d \in Callers : moving[d] # None /\ moving[d][1] = o => c = d
        /\ doing[o].kind # "enter"
        /\ doing[o].kind = "leave" => doing[o].to = s
        /\ \A i \in 1..Len(mailbox[o]) :
              /\ mailbox[o][i].kind # "enter"
              /\ mailbox[o][i].kind = "leave" => mailbox[o][i].to = s
    BY <2>1, <2>2 DEF Moves, CallersMove
  <2>4. \A d \in Callers : moving'[d] # None /\ moving'[d][1] = o => c = d
    BY <2>3 DEF Quiet
  <2>5. doing'[o].kind # "enter" /\ (doing'[o].kind = "leave" => doing'[o].to = s)
    BY <2>3 DEF Quiet, IsMove
  <2>6. \A i \in 1..Len(mailbox'[o]) :
              /\ mailbox'[o][i].kind # "enter"
              /\ mailbox'[o][i].kind = "leave" => mailbox'[o][i].to = s
    BY <2>3 DEF Quiet, IsMove
  <2>7. QED
    BY <2>1, <2>2, <2>4, <2>5, <2>6
<1>4. QED
  BY <1>1, <1>2, <1>3 DEF Moves

(* Posting a job that is no move. *)
LEMMA PostQuiet ==
    ASSUME TypeOK, NEW o \in Objects, NEW j \in Job, ~IsMove(j), PostJob(o, j),
           UNCHANGED <<doing, moving>>
    PROVE  Quiet
<1>1. ASSUME NEW p \in Objects, NEW i \in 1..Len(mailbox'[p]), IsMove(mailbox'[p][i])
      PROVE  i \in 1..Len(mailbox[p]) /\ mailbox'[p][i] = mailbox[p][i]
  <2>1. CASE mailbox'[p] = mailbox[p]
    BY <1>1, <2>1
  <2>2. CASE p = o /\ Posted(o, j)
    <3>1. Len(mailbox[o]) \in Nat
      BY Places DEF TypeOK
    <3>2. QED
      BY <1>1, <2>2, <3>1 DEF Posted
  <2>3. QED
    BY <2>1, <2>2, PostEffect
<1>2. QED
  BY <1>1 DEF Quiet

(* A job's body, or its end. *)
LEMMA BodyQuiet ==
    ASSUME TypeOK, NEW o \in Objects, NEW j \in Job \cup {NoJob}, ~IsMove(j),
           doing' = [doing EXCEPT ![o] = j], UNCHANGED <<mailbox, moving>>
    PROVE  Quiet
<1>1. doing'[o] = j /\ \A p \in Objects : p # o => doing'[p] = doing[p]
  BY DEF TypeOK
<1>2. QED
  BY <1>1 DEF Quiet

LEMMA Moveless == ~IsMove(NoJob) /\ \A k \in {"exit", "destroy", "user", "done"} : ~IsMove(Plain(k))
BY JobFacts DEF IsMove

LEMMA QuietSteps ==
    ASSUME TypeOK, NEW o \in Objects, NEW c,
           \/ RunEnter(o) \/ RunLeave(o) \/ RunExit(o) \/ RunDestroy(o) \/ RunUser(o)
           \/ Return(o) \/ Delete(o) \/ ExitScene(c, o) \/ Destroy(c, o) \/ PostTo(c, o)
    PROVE  Quiet
<1>1. CASE UNCHANGED <<mailbox, doing, moving>>
  BY <1>1 DEF Quiet
<1>2. ASSUME doing' = [doing EXCEPT ![o] = Plain("done")], UNCHANGED <<mailbox, moving>> PROVE Quiet
  BY <1>2, BodyQuiet, Moveless, JobFacts
<1>3. CASE RunEnter(o) \/ RunExit(o) \/ RunUser(o)
  BY <1>2, <1>3 DEF RunEnter, RunExit, RunUser, BodyOver, actorVars
<1>4. CASE RunLeave(o)
  BY <1>2, <1>4 DEF RunLeave, BodyOver, actorVars, Actors!Move
<1>5. CASE RunDestroy(o)
  BY <1>2, <1>5 DEF RunDestroy, BodyOver, Actors!Condemn
<1>6. CASE Return(o)
  <2>1. doing' = [doing EXCEPT ![o] = NoJob] /\ UNCHANGED <<mailbox, moving>>
    BY <1>6 DEF Return, Actors!Finish
  <2>2. QED
    BY <2>1, BodyQuiet, Moveless
<1>7. CASE Delete(o)
  <2>1. UNCHANGED <<doing, moving>>
    BY <1>7 DEF Delete
  <2>2. mailbox'[o] = <<>> /\ \A p \in Objects : p # o => mailbox'[p] = mailbox[p]
    BY <1>7 DEF Delete, Actors!Discard, TypeOK
  <2>3. Len(mailbox'[o]) = 0
    BY <2>2, EmptyPlaces
  <2>4. QED
    BY <2>1, <2>2, <2>3 DEF Quiet
<1>8. CASE ExitScene(c, o)
  BY <1>8, JobFacts, Moveless, PostQuiet DEF ExitScene
<1>9. CASE Destroy(c, o)
  BY <1>9, JobFacts, Moveless, PostQuiet DEF Destroy
<1>10. CASE PostTo(c, o)
  BY <1>1, <1>10 DEF PostTo, actorVars
<1>11. QED
  BY <1>3, <1>4, <1>5, <1>6, <1>7, <1>8, <1>9, <1>10

LEMMA ManagerQuiet == ASSUME TypeOK, ManagerRun PROVE Quiet
<1>1. UNCHANGED <<doing, moving>>
  BY DEF ManagerRun
<1>2. PICK j \in ManagerJob : PostJob(j.obj, Plain("user")) \/ UNCHANGED actorVars
  BY RunEffect
<1>3. CASE UNCHANGED actorVars
  BY <1>1, <1>3 DEF actorVars, Quiet
<1>4. CASE PostJob(j.obj, Plain("user"))
  BY <1>1, <1>4, ManagerFacts, JobFacts, Moveless, PostQuiet
<1>5. QED
  BY <1>2, <1>3, <1>4

(* The calls that post a move, and the start of a job. *)

LEMMA CreateMoves == ASSUME BaseInv, Moves, NEW o \in Objects, Create(o) PROVE Moves'
<1>1. TypeOK /\ scene[o] \in Scenes /\ mailbox[o] = <<>> /\ doing[o] = NoJob
      /\ \A c \in Callers : moving[c] # None => moving[c][1] # o
  BY DEF BaseInv, Create, Unborn, TypeOK
<1>2. PICK j \in Job : j = Enter(scene[o])
  BY <1>1, JobFacts
<1>3. /\ \A p \in Objects : p # o => mailbox'[p] = mailbox[p]
      /\ mailbox'[o] = mailbox[o] \/ Posted(o, j)
      /\ UNCHANGED <<doing, moving>>
  BY <1>1, <1>2, PostEffect DEF Create
<1>4. Len(mailbox[o]) = 0 /\ Len(mailbox'[o]) \in {0, 1}
  BY <1>1, <1>3, EmptyPlaces DEF Posted
<1>5. MailboxMoves'
  <2> SUFFICES ASSUME NEW p \in Objects, NEW i \in 1..Len(mailbox'[p]), NEW k \in 1..Len(mailbox'[p])
               PROVE  LET x == mailbox'[p][i]
                          y == mailbox'[p][k] IN
                      /\ x.kind = "enter" /\ y.kind = "enter" => i = k
                      /\ x.kind = "leave" /\ y.kind = "leave" => i = k
                      /\ x.kind = "leave" /\ y.kind = "enter" => i < k /\ x.to = y.to
    BY DEF MailboxMoves
  <2>1. CASE p # o
    BY <1>3, <2>1 DEF Moves, MailboxMoves
  <2>2. CASE p = o
    <3>1. i = 1 /\ k = 1
      <4>1. PICK n \in {0, 1} : n = Len(mailbox'[o])
        BY <1>4
      <4>2. i \in 1..n /\ k \in 1..n
        BY <2>2, <4>1
      <4>3. QED
        BY <4>2
    <3>2. QED
      BY <3>1
  <2>3. QED
    BY <2>1, <2>2
<1>6. DoingMoves'
  <2>1. doing'[o].kind = "none"
    BY <1>1, <1>3, JobFacts
  <2>2. QED
    BY <1>3, <2>1 DEF Moves, DoingMoves
<1>7. CallersMove'
  <2>1. \A c \in Callers : moving[c] # None => moving[c][1] \in Objects /\ moving[c][1] # o
    BY <1>1, Pair
  <2>2. QED
    BY <1>3, <2>1 DEF Moves, CallersMove
<1>8. QED
  BY <1>5, <1>6, <1>7 DEF Moves

LEMMA BeginMoves == ASSUME TypeOK, Moves, NEW o \in Objects, Begin(o) PROVE Moves'
<1>1. /\ \A p \in Objects : p # o => mailbox'[p] = mailbox[p] /\ doing'[p] = doing[p]
      /\ Taken(o) /\ UNCHANGED moving
  BY BeginEffect
<1>2. /\ Len(mailbox[o]) \in Nat \ {0}
      /\ doing'[o] = mailbox[o][1]
      /\ Len(mailbox'[o]) = Len(mailbox[o]) - 1
      /\ \A i \in 1..Len(mailbox'[o]) : mailbox'[o][i] = mailbox[o][i + 1]
  BY <1>1 DEF Taken
<1>3. \A i \in 1..Len(mailbox'[o]) : i + 1 \in 1..Len(mailbox[o]) /\ i + 1 # 1
  BY <1>2
<1>4. 1 \in 1..Len(mailbox[o])
  BY <1>2
<1>5. MailboxMoves'
  <2> SUFFICES ASSUME NEW p \in Objects, NEW i \in 1..Len(mailbox'[p]), NEW k \in 1..Len(mailbox'[p])
               PROVE  LET x == mailbox'[p][i]
                          y == mailbox'[p][k] IN
                      /\ x.kind = "enter" /\ y.kind = "enter" => i = k
                      /\ x.kind = "leave" /\ y.kind = "leave" => i = k
                      /\ x.kind = "leave" /\ y.kind = "enter" => i < k /\ x.to = y.to
    BY DEF MailboxMoves
  <2>1. CASE p # o
    BY <1>1, <2>1 DEF Moves, MailboxMoves
  <2>2. CASE p = o
    <3>1. /\ mailbox'[o][i] = mailbox[o][i + 1] /\ i + 1 \in 1..Len(mailbox[o])
          /\ mailbox'[o][k] = mailbox[o][k + 1] /\ k + 1 \in 1..Len(mailbox[o])
      BY <1>2, <1>3, <2>2
    <3>2. LET x == mailbox[o][i + 1]
              y == mailbox[o][k + 1] IN
          /\ x.kind = "enter" /\ y.kind = "enter" => i + 1 = k + 1
          /\ x.kind = "leave" /\ y.kind = "leave" => i + 1 = k + 1
          /\ x.kind = "leave" /\ y.kind = "enter" => i + 1 < k + 1 /\ x.to = y.to
      BY <3>1 DEF Moves, MailboxMoves
    <3>3. QED
      BY <2>2, <3>1, <3>2
  <2>3. QED
    BY <2>1, <2>2
<1>6. DoingMoves'
  <2> SUFFICES ASSUME NEW p \in Objects, NEW i \in 1..Len(mailbox'[p])
               PROVE  /\ doing'[p].kind = "enter" => mailbox'[p][i].kind \notin {"enter", "leave"}
                      /\ doing'[p].kind = "leave" =>
                            /\ mailbox'[p][i].kind # "leave"
                            /\ mailbox'[p][i].kind = "enter" => mailbox'[p][i].to = doing'[p].to
    BY DEF DoingMoves
  <2>1. CASE p # o
    BY <1>1, <2>1 DEF Moves, DoingMoves
  <2>2. CASE p = o
    <3>1. mailbox'[o][i] = mailbox[o][i + 1] /\ i + 1 \in 1..Len(mailbox[o]) /\ ~(i + 1 < 1) /\ i + 1 # 1
      BY <1>2, <1>3, <2>2
    <3>2. LET x == mailbox[o][1]
              y == mailbox[o][i + 1] IN
          /\ x.kind = "enter" => y.kind # "enter" /\ y.kind # "leave"
          /\ x.kind = "leave" => y.kind # "leave"
          /\ x.kind = "leave" /\ y.kind = "enter" => x.to = y.to
      BY <1>4, <3>1 DEF Moves, MailboxMoves
    <3>3. QED
      BY <1>2, <2>2, <3>1, <3>2
  <2>3. QED
    BY <2>1, <2>2
<1>7. CallersMove'
  <2> SUFFICES ASSUME NEW c \in Callers, moving'[c] # None
               PROVE  /\ \A d \in Callers : moving'[d] # None /\ moving'[d][1] = moving'[c][1] => c = d
                      /\ doing'[moving'[c][1]].kind # "enter"
                      /\ doing'[moving'[c][1]].kind = "leave" => doing'[moving'[c][1]].to = moving'[c][2]
                      /\ \A i \in 1..Len(mailbox'[moving'[c][1]]) :
                            /\ mailbox'[moving'[c][1]][i].kind # "enter"
                            /\ mailbox'[moving'[c][1]][i].kind = "leave" =>
                                  mailbox'[moving'[c][1]][i].to = moving'[c][2]
    BY DEF CallersMove
  <2>1. moving' = moving /\ moving[c] # None
    BY <1>1
  <2>2. PICK p \in Objects, s \in Scenes : p = moving[c][1] /\ s = moving[c][2]
    BY <2>1, Pair
  <2>3. /\ \A d \in Callers : moving[d] # None /\ moving[d][1] = p => c = d
        /\ doing[p].kind # "enter"
        /\ doing[p].kind = "leave" => doing[p].to = s
        /\ \A i \in 1..Len(mailbox[p]) :
              /\ mailbox[p][i].kind # "enter"
              /\ mailbox[p][i].kind = "leave" => mailbox[p][i].to = s
    BY <2>1, <2>2 DEF Moves, CallersMove
  <2>4. CASE p # o
    BY <1>1, <2>1, <2>2, <2>3, <2>4
  <2>5. CASE p = o
    <3>1. doing'[p].kind # "enter" /\ (doing'[p].kind = "leave" => doing'[p].to = s)
      BY <1>2, <1>4, <2>3, <2>5
    <3>2. \A i \in 1..Len(mailbox'[p]) :
              /\ mailbox'[p][i].kind # "enter"
              /\ mailbox'[p][i].kind = "leave" => mailbox'[p][i].to = s
      BY <1>2, <1>3, <2>3, <2>5
    <3>3. QED
      BY <2>1, <2>2, <2>3, <3>1, <3>2
  <2>6. QED
    BY <2>4, <2>5
<1>8. QED
  BY <1>5, <1>6, <1>7 DEF Moves

(* Under the contract, MoveToScene finds no other move of the object. *)
LEMMA MoveToSceneMoves ==
    ASSUME TypeOK, Moves, TakeTurns = TRUE, NEW c \in Callers, NEW o \in Objects, NEW s \in Scenes,
           MoveToScene(c, o, s)
    PROVE  Moves'
<1>1. PICK j \in Job : j = Leave(s) /\ j.kind = "leave" /\ j.to = s
  BY JobFacts
<1>2. /\ \A p \in Objects : p # o => mailbox'[p] = mailbox[p]
      /\ mailbox'[o] = mailbox[o] \/ Posted(o, j)
      /\ UNCHANGED doing
  BY <1>1, PostEffect DEF MoveToScene
<1>3. /\ \A i \in 1..Len(mailbox[o]) : mailbox[o][i].kind \notin {"enter", "leave"}
      /\ doing[o].kind \notin {"enter", "leave"}
      /\ \A d \in Callers : moving[d] # None => moving[d][1] # o
  <2>1. Settled(o)
    BY DEF MoveToScene
  <2>2. DOMAIN mailbox[o] = 1..Len(mailbox[o])
    BY Places DEF TypeOK
  <2>3. ASSUME NEW d \in Callers, moving[d] # None PROVE moving[d][1] # o
    BY <2>1, <2>3, Pair DEF Settled
  <2>4. QED
    BY <2>1, <2>2, <2>3 DEF Settled
<1>4. /\ moving'[c] = <<o, s>>
      /\ \A d \in Callers : d # c => moving'[d] = moving[d]
  BY DEF MoveToScene, TypeOK
<1>5. Len(mailbox[o]) \in Nat
  BY Places DEF TypeOK
<1>6. \A i \in 1..Len(mailbox'[o]) :
         /\ mailbox'[o][i].kind # "enter"
         /\ mailbox'[o][i].kind = "leave" => i = Len(mailbox[o]) + 1 /\ mailbox'[o][i].to = s
  <2>1. CASE mailbox'[o] = mailbox[o]
    BY <1>3, <2>1
  <2>2. CASE Posted(o, j)
    BY <1>1, <1>3, <1>5, <2>2 DEF Posted
  <2>3. QED
    BY <1>2, <2>1, <2>2
<1>7. MailboxMoves'
  <2> SUFFICES ASSUME NEW p \in Objects, NEW i \in 1..Len(mailbox'[p]), NEW k \in 1..Len(mailbox'[p])
               PROVE  LET x == mailbox'[p][i]
                          y == mailbox'[p][k] IN
                      /\ x.kind = "enter" /\ y.kind = "enter" => i = k
                      /\ x.kind = "leave" /\ y.kind = "leave" => i = k
                      /\ x.kind = "leave" /\ y.kind = "enter" => i < k /\ x.to = y.to
    BY DEF MailboxMoves
  <2>1. CASE p # o
    BY <1>2, <2>1 DEF Moves, MailboxMoves
  <2>2. CASE p = o
    BY <1>6, <2>2
  <2>3. QED
    BY <2>1, <2>2
<1>8. DoingMoves'
  BY <1>2, <1>3 DEF Moves, DoingMoves
<1>9. CallersMove'
  <2> SUFFICES ASSUME NEW d \in Callers, moving'[d] # None
               PROVE  /\ \A e \in Callers : moving'[e] # None /\ moving'[e][1] = moving'[d][1] => d = e
                      /\ doing'[moving'[d][1]].kind # "enter"
                      /\ doing'[moving'[d][1]].kind = "leave" => doing'[moving'[d][1]].to = moving'[d][2]
                      /\ \A i \in 1..Len(mailbox'[moving'[d][1]]) :
                            /\ mailbox'[moving'[d][1]][i].kind # "enter"
                            /\ mailbox'[moving'[d][1]][i].kind = "leave" =>
                                  mailbox'[moving'[d][1]][i].to = moving'[d][2]
    BY DEF CallersMove
  <2>1. CASE d = c
    <3>1. moving'[d][1] = o /\ moving'[d][2] = s
      BY <1>4, <2>1
    <3>2. \A e \in Callers : moving'[e] # None /\ moving'[e][1] = o => d = e
      BY <1>3, <1>4, <2>1
    <3>3. QED
      BY <1>2, <1>3, <1>6, <3>1, <3>2
  <2>2. CASE d # c
    <3>1. moving'[d] = moving[d] /\ moving[d] # None
      BY <1>4, <2>2
    <3>2. PICK p \in Objects, t \in Scenes : p = moving[d][1] /\ t = moving[d][2] /\ p # o
      BY <1>3, <3>1, Pair
    <3>3. /\ \A e \in Callers : moving[e] # None /\ moving[e][1] = p => d = e
          /\ doing[p].kind # "enter"
          /\ doing[p].kind = "leave" => doing[p].to = t
          /\ \A i \in 1..Len(mailbox[p]) :
                /\ mailbox[p][i].kind # "enter"
                /\ mailbox[p][i].kind = "leave" => mailbox[p][i].to = t
      BY <3>1, <3>2 DEF Moves, CallersMove
    <3>4. \A e \in Callers : moving'[e] # None /\ moving'[e][1] = p => d = e
      BY <1>4, <3>2, <3>3
    <3>5. QED
      BY <1>2, <3>1, <3>2, <3>3, <3>4
  <2>3. QED
    BY <2>1, <2>2
<1>10. QED
  BY <1>7, <1>8, <1>9 DEF Moves

(* The second PostJob of MoveToScene: its "enter" comes behind the "leave" *)
(* of the same scene, and no other caller has posted one in between.       *)
LEMMA MoveToSceneEnterMoves ==
    ASSUME TypeOK, Moves, NEW c \in Callers, MoveToSceneEnter(c)
    PROVE  Moves'
<1>1. PICK o \in Objects, s \in Scenes : o = moving[c][1] /\ s = moving[c][2]
  BY Pair DEF MoveToSceneEnter
<1>2. PICK j \in Job : j = Enter(s) /\ j.kind = "enter" /\ j.to = s
  BY JobFacts
<1>3. /\ \A p \in Objects : p # o => mailbox'[p] = mailbox[p]
      /\ mailbox'[o] = mailbox[o] \/ Posted(o, j)
      /\ UNCHANGED doing
  <2>1. CASE UNCHANGED actorVars
    BY <2>1 DEF actorVars, MoveToSceneEnter
  <2>2. CASE PostJob(o, j)
    BY <2>2, PostEffect DEF MoveToSceneEnter
  <2>3. QED
    BY <1>1, <1>2, <2>1, <2>2 DEF MoveToSceneEnter
<1>4. /\ \A d \in Callers : moving[d] # None /\ moving[d][1] = o => c = d
      /\ doing[o].kind # "enter"
      /\ doing[o].kind = "leave" => doing[o].to = s
      /\ \A i \in 1..Len(mailbox[o]) :
            /\ mailbox[o][i].kind # "enter"
            /\ mailbox[o][i].kind = "leave" => mailbox[o][i].to = s
  BY <1>1 DEF Moves, CallersMove, MoveToSceneEnter
<1>5. /\ moving'[c] = None
      /\ \A d \in Callers : d # c => moving'[d] = moving[d]
  BY DEF MoveToSceneEnter, TypeOK
<1>6. Len(mailbox[o]) \in Nat
  BY Places DEF TypeOK
<1>7. \A i \in 1..Len(mailbox'[o]) :
         /\ mailbox'[o][i].kind = "enter" => i = Len(mailbox[o]) + 1 /\ mailbox'[o][i].to = s
         /\ mailbox'[o][i].kind = "leave" =>
               i \in 1..Len(mailbox[o]) /\ mailbox'[o][i] = mailbox[o][i] /\ mailbox'[o][i].to = s
  <2>1. CASE mailbox'[o] = mailbox[o]
    BY <1>4, <2>1
  <2>2. CASE Posted(o, j)
    BY <1>2, <1>4, <1>6, <2>2 DEF Posted
  <2>3. QED
    BY <1>3, <2>1, <2>2
<1>8. MailboxMoves'
  <2> SUFFICES ASSUME NEW p \in Objects, NEW i \in 1..Len(mailbox'[p]), NEW k \in 1..Len(mailbox'[p])
               PROVE  LET x == mailbox'[p][i]
                          y == mailbox'[p][k] IN
                      /\ x.kind = "enter" /\ y.kind = "enter" => i = k
                      /\ x.kind = "leave" /\ y.kind = "leave" => i = k
                      /\ x.kind = "leave" /\ y.kind = "enter" => i < k /\ x.to = y.to
    BY DEF MailboxMoves
  <2>1. CASE p # o
    BY <1>3, <2>1 DEF Moves, MailboxMoves
  <2>2. CASE p = o
    <3>1. mailbox'[o][i].kind = "leave" /\ mailbox'[o][k].kind = "leave" => i = k
      BY <1>7, <2>2 DEF Moves, MailboxMoves
    <3>2. mailbox'[o][i].kind = "leave" /\ mailbox'[o][k].kind = "enter" =>
             i < k /\ mailbox'[o][i].to = mailbox'[o][k].to
      BY <1>6, <1>7, <2>2
    <3>3. mailbox'[o][i].kind = "enter" /\ mailbox'[o][k].kind = "enter" => i = k
      BY <1>7, <2>2
    <3>4. QED
      BY <2>2, <3>1, <3>2, <3>3
  <2>3. QED
    BY <2>1, <2>2
<1>9. DoingMoves'
  <2> SUFFICES ASSUME NEW p \in Objects, NEW i \in 1..Len(mailbox'[p])
               PROVE  /\ doing'[p].kind = "enter" => mailbox'[p][i].kind \notin {"enter", "leave"}
                      /\ doing'[p].kind = "leave" =>
                            /\ mailbox'[p][i].kind # "leave"
                            /\ mailbox'[p][i].kind = "enter" => mailbox'[p][i].to = doing'[p].to
    BY DEF DoingMoves
  <2>1. CASE p # o
    BY <1>3, <2>1 DEF Moves, DoingMoves
  <2>2. CASE p = o
    BY <1>3, <1>4, <1>7, <2>2 DEF Moves, DoingMoves
  <2>3. QED
    BY <2>1, <2>2
<1>10. CallersMove'
  <2> SUFFICES ASSUME NEW d \in Callers, moving'[d] # None
               PROVE  /\ \A e \in Callers : moving'[e] # None /\ moving'[e][1] = moving'[d][1] => d = e
                      /\ doing'[moving'[d][1]].kind # "enter"
                      /\ doing'[moving'[d][1]].kind = "leave" => doing'[moving'[d][1]].to = moving'[d][2]
                      /\ \A i \in 1..Len(mailbox'[moving'[d][1]]) :
                            /\ mailbox'[moving'[d][1]][i].kind # "enter"
                            /\ mailbox'[moving'[d][1]][i].kind = "leave" =>
                                  mailbox'[moving'[d][1]][i].to = moving'[d][2]
    BY DEF CallersMove
  <2>1. d # c /\ moving'[d] = moving[d] /\ moving[d] # None
    BY <1>5
  <2>2. PICK p \in Objects, t \in Scenes : p = moving[d][1] /\ t = moving[d][2] /\ p # o
    BY <1>4, <2>1, Pair
  <2>3. /\ \A e \in Callers : moving[e] # None /\ moving[e][1] = p => d = e
        /\ doing[p].kind # "enter"
        /\ doing[p].kind = "leave" => doing[p].to = t
        /\ \A i \in 1..Len(mailbox[p]) :
              /\ mailbox[p][i].kind # "enter"
              /\ mailbox[p][i].kind = "leave" => mailbox[p][i].to = t
    BY <2>1, <2>2 DEF Moves, CallersMove
  <2>4. \A e \in Callers : moving'[e] # None /\ moving'[e][1] = p => d = e
    BY <1>5, <2>3
  <2>5. QED
    BY <1>3, <2>1, <2>2, <2>3, <2>4
<1>11. QED
  BY <1>8, <1>9, <1>10 DEF Moves

LEMMA MovesStep == ASSUME BaseInv, Moves, TakeTurns = TRUE, [Next]_vars PROVE Moves'
<1>0. TypeOK
  BY DEF BaseInv
<1>1. CASE UNCHANGED vars
  <2>1. UNCHANGED <<mailbox, doing, moving>>
    BY <1>1 DEF vars, actorVars
  <2>2. QED
    BY <2>1 DEF Moves, MailboxMoves, DoingMoves, CallersMove
<1>2. ASSUME NEW o \in Objects, Create(o) \/ ObjectStep(o) PROVE Moves'
  BY <1>0, <1>2, CreateMoves, BeginMoves, QuietSteps, QuietMoves DEF ObjectStep
<1>3. ASSUME NEW c \in Callers, Call(c) PROVE Moves'
  BY <1>0, <1>3, MoveToSceneMoves, QuietSteps, QuietMoves DEF Call
<1>4. ASSUME NEW c \in Callers, MoveToSceneEnter(c) PROVE Moves'
  BY <1>0, <1>4, MoveToSceneEnterMoves
<1>5. ASSUME ManagerRun PROVE Moves'
  BY <1>0, <1>5, ManagerQuiet, QuietMoves
<1>6. QED
  BY <1>1, <1>2, <1>3, <1>4, <1>5 DEF Next

-----------------------------------------------------------------------------
(* Threads, vectors and scenes, when callers take turns *)

(* Calls and the manager leave objects where they are. *)
Calls ==
    \/ \E o \in Objects : Create(o)
    \/ \E c \in Callers : Call(c) \/ MoveToSceneEnter(c)
    \/ ManagerRun
    \/ UNCHANGED vars

LEMMA CallFrame ==
    ASSUME BaseInv, Calls
    PROVE  UNCHANGED <<home, active, condemned, doing, scene, members>>
<1>0. TypeOK /\ Unborn
  BY DEF BaseInv
<1> DEFINE Frame == UNCHANGED <<home, active, condemned, doing, scene, members>>
<1>1. ASSUME NEW o \in Objects, Create(o) PROVE Frame
  <2>1. scene[o] \in Scenes
    BY <1>0, <1>1 DEF Create, Unborn, TypeOK
  <2>2. UNCHANGED <<home, active, condemned>>
    BY <1>0, <1>1, <2>1, JobFacts, SamePosts DEF Create
  <2>3. QED
    BY <1>1, <2>2 DEF Create, worldVars
<1>2. ASSUME NEW c \in Callers, NEW o \in Objects, NEW s \in Scenes, MoveToScene(c, o, s) PROVE Frame
  BY <1>0, <1>2, JobFacts, SamePosts DEF MoveToScene, worldVars
<1>3. ASSUME NEW c \in Callers, NEW o \in Objects, ExitScene(c, o) PROVE Frame
  BY <1>0, <1>3, JobFacts, SamePosts DEF ExitScene, worldVars
<1>4. ASSUME NEW c \in Callers, NEW o \in Objects, Destroy(c, o) PROVE Frame
  BY <1>0, <1>4, JobFacts, SamePosts DEF Destroy, worldVars
<1>5. ASSUME NEW c \in Callers, NEW o \in Objects, PostTo(c, o) PROVE Frame
  BY <1>5 DEF PostTo, actorVars
<1>6. ASSUME NEW c \in Callers, MoveToSceneEnter(c) PROVE Frame
  <2>1. moving[c][1] \in Objects /\ moving[c][2] \in Scenes
    BY <1>0, <1>6, Pair DEF MoveToSceneEnter
  <2>2. UNCHANGED <<home, active, condemned>>
    BY <1>0, <1>6, <2>1, JobFacts, SamePosts DEF MoveToSceneEnter, actorVars
  <2>3. QED
    BY <1>6, <2>2 DEF MoveToSceneEnter, worldVars
<1>7. ASSUME ManagerRun PROVE Frame
  <2>1. PICK j \in ManagerJob : PostJob(j.obj, Plain("user")) \/ UNCHANGED actorVars
    BY <1>0, <1>7, RunEffect
  <2>2. UNCHANGED <<home, active, condemned>>
    BY <1>0, <2>1, ManagerFacts, JobFacts, SamePosts DEF actorVars
  <2>3. QED
    BY <1>7, <2>2 DEF ManagerRun
<1>8. CASE UNCHANGED vars
  BY <1>8 DEF vars, actorVars, worldVars
<1>9. QED
  BY <1>1, <1>2, <1>3, <1>4, <1>5, <1>6, <1>7, <1>8 DEF Calls, Call

(* An object about to run its "enter" has no other move to come, and has   *)
(* arrived.                                                                *)
LEMMA EnterArrives ==
    ASSUME BaseInv, Moves, Arrival, NEW o \in Objects, doing[o].kind = "enter"
    PROVE  /\ doing[o].to \in Scenes
           /\ home[o] = SceneThread[doing[o].to] /\ InNoScene(o)
           /\ \A i \in 1..Len(mailbox[o]) : mailbox[o][i].kind \notin {"enter", "leave"}
           /\ \A c \in Callers : moving[c] # None => moving[c][1] # o
<1>1. doing[o].to \in Scenes /\ ~condemned[o]
  <2>1. doing[o] \in Job
    BY JobFacts DEF BaseInv, TypeOK
  <2>2. ~condemned[o]
    BY DEF BaseInv, Gone
  <2>3. QED
    BY <2>1, <2>2, JobFacts
<1>2. \A i \in 1..Len(mailbox[o]) : mailbox[o][i].kind \notin {"enter", "leave"}
  BY DEF Moves, DoingMoves
<1>3. NoLeave(o)
  BY <1>2 DEF NoLeave
<1>4. Arrives(o, doing[o].to)
  BY <1>1, <1>3 DEF Arrival, ArrivalOf
<1>5. QED
  BY <1>1, <1>2, <1>4 DEF Arrives, Moves, CallersMove

(* A job's body is over, and the object alone has changed. *)
LEMMA RunFrame ==
    ASSUME BaseInv, NEW o \in Objects,
           RunEnter(o) \/ RunLeave(o) \/ RunExit(o) \/ RunDestroy(o) \/ RunUser(o)
    PROVE  /\ doing'[o].kind = "done" /\ doing[o].kind \notin {"done", "none"} /\ ~condemned[o]
           /\ UNCHANGED <<mailbox, active, freed, created, moving>>
           /\ \A p \in Objects : p # o =>
                 /\ doing'[p] = doing[p] /\ scene'[p] = scene[p] /\ home'[p] = home[p]
                 /\ condemned'[p] = condemned[p]
<1>0. TypeOK
  BY DEF BaseInv
<1>1. doing[o].kind \notin {"done", "none"}
  BY DEF RunEnter, RunLeave, RunExit, RunDestroy, RunUser, Doing
<1>2. doing' = [doing EXCEPT ![o] = Plain("done")]
  BY DEF RunEnter, RunLeave, RunExit, RunDestroy, RunUser, BodyOver
<1>3. doing'[o].kind = "done" /\ \A p \in Objects : p # o => doing'[p] = doing[p]
  BY <1>0, <1>2, JobFacts DEF TypeOK
<1>4. ~condemned[o]
  BY <1>1 DEF BaseInv, Gone
<1>5. UNCHANGED <<mailbox, active, freed, created, moving>>
  BY DEF RunEnter, RunLeave, RunExit, RunDestroy, RunUser, Actors!Move, Actors!Condemn, actorVars
<1>6. \A p \in Objects : p # o => home'[p] = home[p] /\ condemned'[p] = condemned[p]
  BY <1>0 DEF RunEnter, RunLeave, RunExit, RunDestroy, RunUser, Actors!Move, Actors!Condemn, actorVars, TypeOK
<1>7. \A p \in Objects : p # o => scene'[p] = scene[p]
  <2>1. CASE Exit(o)
    BY <1>0, <2>1, ExitEffect DEF TypeOK
  <2>2. CASE UNCHANGED scene
    BY <2>2
  <2>3. CASE RunEnter(o)
    BY <1>0, <2>3 DEF RunEnter, TypeOK
  <2>4. QED
    BY <2>1, <2>2, <2>3 DEF RunLeave, RunExit, RunDestroy, RunUser, worldVars
<1>8. QED
  BY <1>1, <1>3, <1>4, <1>5, <1>6, <1>7

LEMMA StepKinds ==
    ASSUME [Next]_vars
    PROVE  \/ Calls
           \/ \E o \in Objects : Begin(o) \/ Return(o) \/ Delete(o)
           \/ \E o \in Objects : RunEnter(o) \/ RunLeave(o) \/ RunExit(o) \/ RunDestroy(o) \/ RunUser(o)
BY DEF Next, ObjectStep, Calls

LEMMA AtHomeStep ==
    ASSUME BaseInv, Moves, Arrival, AtHome, [Next]_vars
    PROVE  AtHome'
<1>0. TypeOK
  BY DEF BaseInv
<1>1. CASE Calls
  <2>1. UNCHANGED <<home, active, doing, scene>>
    BY <1>1, CallFrame
  <2>2. QED
    BY <2>1 DEF AtHome
<1>2. ASSUME NEW o \in Objects, Begin(o) PROVE AtHome'
  <2>1. UNCHANGED <<home, scene>> /\ active' = [active EXCEPT ![o] = home[o]]
        /\ \A p \in Objects : p # o => doing'[p] = doing[p]
    BY <1>0, <1>2, BeginEffect DEF worldVars
  <2>2. QED
    BY <1>0, <2>1 DEF AtHome, TypeOK
<1>3. ASSUME NEW o \in Objects, Return(o) PROVE AtHome'
  <2>1. /\ UNCHANGED <<home, scene>> /\ doing'[o].kind = "none"
        /\ \A p \in Objects : p # o => doing'[p] = doing[p] /\ active'[p] = active[p]
    BY <1>0, <1>3, JobFacts DEF Return, Actors!Finish, worldVars, TypeOK
  <2>2. QED
    BY <2>1 DEF AtHome
<1>4. ASSUME NEW o \in Objects, Delete(o) PROVE AtHome'
  BY <1>4 DEF Delete, Actors!Discard, worldVars, AtHome
<1>5. ASSUME NEW o \in Objects,
             RunEnter(o) \/ RunLeave(o) \/ RunExit(o) \/ RunDestroy(o) \/ RunUser(o)
      PROVE  AtHome'
  <2>1. /\ doing'[o].kind = "done" /\ UNCHANGED active
        /\ \A p \in Objects : p # o => doing'[p] = doing[p] /\ scene'[p] = scene[p] /\ home'[p] = home[p]
    BY <1>5, RunFrame
  <2>2. scene'[o] # None => home'[o] = SceneThread[scene'[o]]
    <3>1. CASE Exit(o)
      BY <1>0, <3>1, ExitEffect DEF TypeOK
    <3>2. CASE UNCHANGED <<scene, home>>
      BY <3>2 DEF AtHome
    <3>3. CASE RunEnter(o)
      BY <1>0, <3>3, EnterArrives DEF RunEnter, Doing, actorVars, TypeOK
    <3>4. QED
      BY <1>5, <3>1, <3>2, <3>3 DEF RunLeave, RunExit, RunDestroy, RunUser, actorVars, worldVars
  <2>3. QED
    BY <2>1, <2>2 DEF AtHome
<1>6. QED
  BY <1>1, <1>2, <1>3, <1>4, <1>5, StepKinds

LEMMA DepartureStep ==
    ASSUME BaseInv, Moves, Arrival, Departure, TakeTurns = TRUE, [Next]_vars
    PROVE  Departure'
<1>0. TypeOK
  BY DEF BaseInv
<1>1. \A p \in Objects :
         /\ doing[p].kind = "leave" => doing[p].to \in Scenes /\ doing[p].to # None
         /\ \A i \in 1..Len(mailbox[p]) :
               mailbox[p][i].kind = "leave" => mailbox[p][i].to \in Scenes /\ mailbox[p][i].to # None
  <2>1. ASSUME NEW p \in Objects, NEW i \in 1..Len(mailbox[p]) PROVE mailbox[p][i] \in Job
    BY <1>0, Places DEF TypeOK
  <2>2. ASSUME NEW p \in Objects, doing[p].kind = "leave" PROVE doing[p] \in Job
    BY <1>0, <2>2, JobFacts DEF TypeOK
  <2>3. QED
    BY <2>1, <2>2, JobFacts, WorldAssumption
(* A quiet step that leaves the object where it is, or nowhere. *)
<1>2. ASSUME Quiet, \A p \in Objects : scene'[p] = scene[p] \/ scene'[p] = None PROVE Departure'
  BY <1>1, <1>2 DEF Departure, Quiet, IsMove
<1>3. ASSUME NEW o \in Objects, Create(o) PROVE Departure'
  <2>1. scene[o] \in Scenes /\ UNCHANGED <<doing, scene>> /\ Len(mailbox[o]) \in Nat
    BY <1>0, <1>3, Places DEF Create, BaseInv, Unborn, TypeOK, worldVars
  <2>2. PICK j \in Job : j = Enter(scene[o]) /\ j.kind = "enter"
    BY <2>1, JobFacts
  <2>3. /\ \A p \in Objects : p # o => mailbox'[p] = mailbox[p]
        /\ mailbox'[o] = mailbox[o] \/ Posted(o, j)
    BY <1>0, <1>3, <2>2, PostEffect DEF Create
  <2>4. \A i \in 1..Len(mailbox'[o]) : mailbox'[o][i].kind = "leave" =>
           i \in 1..Len(mailbox[o]) /\ mailbox'[o][i] = mailbox[o][i]
    BY <2>1, <2>2, <2>3 DEF Posted
  <2>5. QED
    BY <2>1, <2>3, <2>4 DEF Departure
<1>4. ASSUME NEW o \in Objects, Begin(o) PROVE Departure'
  <2>1. /\ UNCHANGED scene /\ Taken(o)
        /\ \A p \in Objects : p # o => mailbox'[p] = mailbox[p] /\ doing'[p] = doing[p]
    BY <1>0, <1>4, BeginEffect DEF worldVars
  <2>2. /\ doing'[o] = mailbox[o][1] /\ 1 \in 1..Len(mailbox[o])
        /\ \A i \in 1..Len(mailbox'[o]) :
              mailbox'[o][i] = mailbox[o][i + 1] /\ i + 1 \in 1..Len(mailbox[o])
    BY <2>1 DEF Taken
  <2>3. QED
    BY <2>1, <2>2 DEF Departure
<1>5. ASSUME NEW o \in Objects, RunEnter(o) PROVE Departure'
  <2>1. /\ doing'[o].kind = "done" /\ UNCHANGED mailbox
        /\ \A p \in Objects : p # o => doing'[p] = doing[p] /\ scene'[p] = scene[p]
    BY <1>5, RunFrame
  <2>2. \A i \in 1..Len(mailbox[o]) : mailbox[o][i].kind \notin {"enter", "leave"}
    BY <1>5, EnterArrives DEF RunEnter, Doing
  <2>3. QED
    BY <2>1, <2>2 DEF Departure
<1>6. ASSUME NEW o \in Objects, RunLeave(o) \/ RunExit(o) \/ RunDestroy(o) \/ RunUser(o) PROVE Departure'
  <2>1. Quiet
    BY <1>0, <1>6, QuietSteps
  <2>2. \A p \in Objects : p # o => scene'[p] = scene[p]
    BY <1>6, RunFrame
  <2>3. scene'[o] = scene[o] \/ scene'[o] = None
    BY <1>0, <1>6, ExitEffect DEF RunLeave, RunExit, RunDestroy, RunUser, worldVars, TypeOK
  <2>4. QED
    BY <1>2, <2>1, <2>2, <2>3
<1>7. ASSUME NEW o \in Objects, Return(o) \/ Delete(o) PROVE Departure'
  <2>1. Quiet /\ UNCHANGED scene
    BY <1>0, <1>7, QuietSteps DEF Return, Delete, worldVars
  <2>2. QED
    BY <1>2, <2>1
<1>8. ASSUME NEW c \in Callers, NEW o \in Objects, NEW s \in Scenes, MoveToScene(c, o, s) PROVE Departure'
  <2>1. scene[o] # s /\ UNCHANGED <<doing, scene>> /\ Len(mailbox[o]) \in Nat
    BY <1>0, <1>8, Places DEF MoveToScene, worldVars, TypeOK
  <2>2. PICK j \in Job : j = Leave(s) /\ j.kind = "leave" /\ j.to = s
    BY JobFacts
  <2>3. /\ \A p \in Objects : p # o => mailbox'[p] = mailbox[p]
        /\ mailbox'[o] = mailbox[o] \/ Posted(o, j)
    BY <1>0, <1>8, <2>2, PostEffect DEF MoveToScene
  <2>4. \A i \in 1..Len(mailbox'[o]) :
           \/ i \in 1..Len(mailbox[o]) /\ mailbox'[o][i] = mailbox[o][i]
           \/ mailbox'[o][i].to = s
    BY <2>1, <2>2, <2>3 DEF Posted
  <2>5. QED
    BY <2>1, <2>3, <2>4 DEF Departure
<1>9. ASSUME NEW c \in Callers, NEW o \in Objects, ExitScene(c, o) \/ Destroy(c, o) \/ PostTo(c, o)
      PROVE  Departure'
  <2>1. Quiet /\ UNCHANGED scene
    BY <1>0, <1>9, QuietSteps DEF ExitScene, Destroy, PostTo, worldVars
  <2>2. QED
    BY <1>2, <2>1
<1>10. ASSUME NEW c \in Callers, MoveToSceneEnter(c) PROVE Departure'
  <2>1. PICK o \in Objects, s \in Scenes : o = moving[c][1] /\ s = moving[c][2]
    BY <1>0, <1>10, Pair DEF MoveToSceneEnter
  <2>2. PICK j \in Job : j = Enter(s) /\ j.kind = "enter"
    BY JobFacts
  <2>3. UNCHANGED <<doing, scene>> /\ Len(mailbox[o]) \in Nat
    BY <1>0, <1>10, Places DEF MoveToSceneEnter, worldVars, TypeOK
  <2>4. /\ \A p \in Objects : p # o => mailbox'[p] = mailbox[p]
        /\ mailbox'[o] = mailbox[o] \/ Posted(o, j)
    <3>1. CASE UNCHANGED actorVars
      BY <3>1 DEF actorVars
    <3>2. CASE PostJob(o, j)
      BY <1>0, <3>2, PostEffect
    <3>3. QED
      BY <1>10, <2>1, <2>2, <3>1, <3>2 DEF MoveToSceneEnter
  <2>5. \A i \in 1..Len(mailbox'[o]) : mailbox'[o][i].kind = "leave" =>
           i \in 1..Len(mailbox[o]) /\ mailbox'[o][i] = mailbox[o][i]
    BY <2>2, <2>3, <2>4 DEF Posted
  <2>6. QED
    BY <2>3, <2>4, <2>5 DEF Departure
<1>11. ASSUME ManagerRun PROVE Departure'
  <2>1. Quiet /\ UNCHANGED scene
    BY <1>0, <1>11, ManagerQuiet DEF ManagerRun
  <2>2. QED
    BY <1>2, <2>1
<1>12. CASE UNCHANGED vars
  BY <1>12 DEF vars, actorVars, worldVars, Departure
<1>13. QED
  BY <1>3, <1>4, <1>5, <1>6, <1>7, <1>8, <1>9, <1>10, <1>11, <1>12 DEF Next, ObjectStep, Call

(* A vector that a job may change. *)
LEMMA VectorsStep ==
    ASSUME BaseInv, Moves, Arrival, Vectors, [Next]_vars
    PROVE  /\ Vectors'
           /\ \A o \in Objects : Exit(o) => InNoScene(o)'
<1>0. TypeOK
  BY DEF BaseInv
<1>1. ASSUME UNCHANGED <<scene, members>> PROVE Vectors'
  BY <1>1 DEF Vectors
<1>2. ASSUME NEW o \in Objects, Exit(o) PROVE Vectors' /\ InNoScene(o)'
  <2>1. /\ scene' = [scene EXCEPT ![o] = None]
        /\ \A s \in Scenes, x \in Objects : x \in Elems(members'[s]) => x \in Elems(members[s])
        /\ \A s \in Scenes : Injective(members[s]) => Injective(members'[s])
        /\ \A s \in Scenes : s = scene[o] /\ Injective(members[s]) => o \notin Elems(members'[s])
    BY <1>0, <1>2, ExitEffect
  <2>2. \A p \in Objects : p # o => scene'[p] = scene[p]
    BY <1>0, <2>1 DEF TypeOK
  <2>3. \A s \in Scenes : o \notin Elems(members'[s])
    BY <2>1 DEF Vectors
  <2>4. InNoScene(o)'
    BY <2>3 DEF InNoScene
  <2>5. Vectors'
    BY <2>1, <2>2, <2>3 DEF Vectors
  <2>6. QED
    BY <2>4, <2>5
<1>3. ASSUME NEW o \in Objects, RunEnter(o) PROVE Vectors'
  <2>1. PICK s \in Scenes : s = doing[o].to /\ InNoScene(o)
    BY <1>3, EnterArrives DEF RunEnter, Doing
  <2>2. /\ members' = [members EXCEPT ![s] = Append(@, o)]
        /\ scene' = [scene EXCEPT ![o] = s]
    BY <1>3, <2>1 DEF RunEnter
  <2>3. members[s] \in Seq(Objects) /\ o \notin Elems(members[s])
    BY <1>0, <2>1 DEF TypeOK, InNoScene
  <2>4. PICK q : q = Append(members[s], o)
    OBVIOUS
  <2>5. /\ Len(members[s]) \in Nat
        /\ Len(q) = Len(members[s]) + 1 /\ q[Len(members[s]) + 1] = o
        /\ \A i \in 1..Len(members[s]) : q[i] = members[s][i]
    BY <2>3, <2>4, AppendPlaces
  <2>6. \A x : x \in Elems(q) <=> x \in Elems(members[s]) \/ x = o
    BY <2>3, <2>4, ElemsAppend
  <2>7. Injective(q)
    <3>1. \A i \in 1..Len(members[s]) : members[s][i] # o
      <4>1. DOMAIN members[s] = 1..Len(members[s])
        BY <2>3, Places
      <4>2. QED
        BY <2>3, <4>1 DEF Elems
    <3>2. Injective(members[s])
      BY DEF Vectors
    <3>3. QED
      BY <2>5, <3>1, <3>2 DEF Injective
  <2>8. members'[s] = q /\ \A t \in Scenes : t # s => members'[t] = members[t]
    BY <1>0, <2>2, <2>4 DEF TypeOK
  <2>9. scene'[o] = s /\ \A p \in Objects : p # o => scene'[p] = scene[p]
    BY <1>0, <2>2 DEF TypeOK
  <2>10. \A t \in Scenes : o \notin Elems(members[t])
    BY <2>1 DEF InNoScene
  <2>11. QED
    BY <2>6, <2>7, <2>8, <2>9, <2>10 DEF Vectors
<1>4. Vectors'
  <2>1. CASE Calls
    BY <1>1, <2>1, CallFrame
  <2>2. ASSUME NEW o \in Objects, Begin(o) \/ Return(o) \/ Delete(o) \/ RunUser(o) PROVE Vectors'
    BY <1>1, <2>2 DEF Begin, Return, Delete, RunUser, worldVars
  <2>3. ASSUME NEW o \in Objects, RunLeave(o) \/ RunExit(o) \/ RunDestroy(o) PROVE Vectors'
    BY <1>1, <1>2, <2>3 DEF RunLeave, RunExit, RunDestroy
  <2>4. QED
    BY <1>3, <2>1, <2>2, <2>3, StepKinds
<1>5. QED
  BY <1>2, <1>4

(* Register is queued as the object enters its scene's vector. *)
LEMMA KnownStep ==
    ASSUME BaseInv, Moves, Arrival, Vectors, Known, [Next]_vars
    PROVE  Known'
<1>0. TypeOK
  BY DEF BaseInv
<1> DEFINE Away(p) == scene[p] # None /\ p \notin Elems(members[scene[p]])
           Unheard(p) == p \notin registry /\ NotQueued(p)
(* An object that is away now was away before, and its steps tell nobody.  *)
<1>1. ASSUME \A p \in Objects : Away(p)' => Away(p),
             \A p \in Objects : Away(p)' /\ Unheard(p) => Unheard(p)'
      PROVE  Known'
  BY <1>1 DEF Known, NotQueued
<1>2. ASSUME UNCHANGED <<scene, members, registry, managerQ>> PROVE Known'
  BY <1>2 DEF Known, NotQueued
<1>3. ASSUME NEW o \in Objects, Exit(o)
      PROVE  \A p \in Objects : Away(p)' => Away(p) /\ p # o
  <2>1. /\ scene' = [scene EXCEPT ![o] = None]
        /\ \A s \in Scenes, x \in Objects : x \in Elems(members[s]) /\ x # o => x \in Elems(members'[s])
    BY <1>0, <1>3, ExitEffect
  <2>2. scene'[o] = None /\ \A p \in Objects : p # o => scene'[p] = scene[p]
    BY <1>0, <2>1 DEF TypeOK
  <2>3. \A p \in Objects : scene[p] # None => scene[p] \in Scenes
    BY <1>0 DEF TypeOK
  <2>4. QED
    BY <2>1, <2>2, <2>3
<1>4. ASSUME NEW o \in Objects, RunLeave(o) \/ RunExit(o) PROVE Known'
  <2>1. UNCHANGED <<registry, managerQ>>
    BY <1>4 DEF RunLeave, RunExit
  <2>2. CASE UNCHANGED <<scene, members>>
    BY <1>2, <2>1, <2>2
  <2>3. CASE Exit(o)
    BY <1>1, <1>3, <2>1, <2>3 DEF NotQueued
  <2>4. QED
    BY <1>4, <2>2, <2>3 DEF RunLeave, RunExit
<1>5. ASSUME NEW o \in Objects, RunDestroy(o) PROVE Known'
  <2>1. UNCHANGED registry /\ \A p \in Objects : NotQueued(p) => NotQueued(p)'
    BY <1>0, <1>5, QueueEffect DEF RunDestroy
  <2>2. QED
    BY <1>1, <1>3, <1>5, <2>1 DEF RunDestroy
<1>6. ASSUME NEW o \in Objects, RunEnter(o) PROVE Known'
  <2>1. PICK s \in Scenes : s = doing[o].to
    BY <1>6, EnterArrives DEF RunEnter, Doing
  <2>2. /\ members' = [members EXCEPT ![s] = Append(@, o)]
        /\ scene' = [scene EXCEPT ![o] = s]
        /\ UNCHANGED registry
    BY <1>6, <2>1 DEF RunEnter
  <2>3. members[s] \in Seq(Objects)
    BY <1>0 DEF TypeOK
  <2>4. /\ \A x : x \in Elems(members'[s]) <=> x \in Elems(members[s]) \/ x = o
        /\ \A t \in Scenes : t # s => members'[t] = members[t]
    BY <1>0, <2>2, <2>3, ElemsAppend DEF TypeOK
  <2>5. scene'[o] = s /\ \A p \in Objects : p # o => scene'[p] = scene[p]
    BY <1>0, <2>2 DEF TypeOK
  <2>6. \A p \in Objects : scene[p] # None => scene[p] \in Scenes
    BY <1>0 DEF TypeOK
  <2>7. \A p \in Objects : Away(p)' => Away(p) /\ p # o
    BY <2>4, <2>5, <2>6
  <2>8. \A p \in Objects : p # o => (NotQueued(p) => NotQueued(p)')
    BY <1>0, <1>6, QueueEffect DEF RunEnter
  <2>9. QED
    BY <1>1, <2>2, <2>7, <2>8
<1>7. ASSUME NEW o \in Objects, Begin(o) \/ Return(o) \/ Delete(o) \/ RunUser(o) PROVE Known'
  BY <1>2, <1>7 DEF Begin, Return, Delete, RunUser, worldVars
<1>8. ASSUME NEW o \in Objects, Create(o) PROVE Known'
  BY <1>2, <1>8 DEF Create, worldVars
<1>9. ASSUME NEW c \in Callers, NEW o \in Objects, NEW s \in Scenes, MoveToScene(c, o, s) PROVE Known'
  BY <1>2, <1>9 DEF MoveToScene, worldVars
<1>10. ASSUME NEW c \in Callers, NEW o \in Objects, ExitScene(c, o) \/ Destroy(c, o) PROVE Known'
  BY <1>2, <1>10 DEF ExitScene, Destroy, worldVars
<1>11. ASSUME NEW c \in Callers, NEW o \in Objects, PostTo(c, o) PROVE Known'
  <2>1. UNCHANGED <<scene, members, registry>> /\ \A p \in Objects : NotQueued(p) => NotQueued(p)'
    BY <1>0, <1>11, QueueEffect DEF PostTo
  <2>2. QED
    BY <1>1, <2>1
<1>12. ASSUME NEW c \in Callers, MoveToSceneEnter(c) PROVE Known'
  BY <1>2, <1>12 DEF MoveToSceneEnter, worldVars
<1>13. ASSUME ManagerRun PROVE Known'
  <2>1. UNCHANGED <<scene, members>>
    BY <1>13 DEF ManagerRun
  <2>2. PICK j \in ManagerJob :
           /\ Len(managerQ) \in Nat \ {0} /\ managerQ[1] = j
           /\ \A p \in Objects : NotQueued(p) => NotQueued(p)'
           /\ registry' = CASE j.kind = "register" -> registry \cup {j.obj}
                            [] j.kind = "unregister" -> registry \ {j.obj}
                            [] j.kind = "postTo" -> registry
    BY <1>0, <1>13, RunEffect
  <2>3. j.kind \in {"register", "unregister", "postTo"} /\ j = ForManager(j.kind, j.obj)
    BY ManagerFacts
  <2>4. ASSUME NEW p \in Objects, Unheard(p) PROVE Unheard(p)'
    <3>1. j # ForManager("register", p)
      BY <2>2, <2>4 DEF NotQueued
    <3>2. p \notin registry'
      BY <2>2, <2>3, <2>4, <3>1
    <3>3. QED
      BY <2>2, <2>4, <3>2
  <2>5. QED
    BY <1>1, <2>1, <2>4
<1>14. CASE UNCHANGED vars
  BY <1>2, <1>14 DEF vars, worldVars
<1>15. QED
  BY <1>4, <1>5, <1>6, <1>7, <1>8, <1>9, <1>10, <1>11, <1>12, <1>13, <1>14 DEF Next, ObjectStep, Call

(* A step that brings the object no move, takes no "leave" from it and     *)
(* leaves it where it is.                                                  *)
Stays(p) ==
    /\ IsMove(doing'[p]) => doing'[p] = doing[p]
    /\ \A i \in 1..Len(mailbox'[p]) : IsMove(mailbox'[p][i]) =>
          i \in 1..Len(mailbox[p]) /\ mailbox'[p][i] = mailbox[p][i]
    /\ \A c \in Callers : moving'[c] # None /\ moving'[c][1] = p => moving'[c] = moving[c]
    /\ condemned[p] => condemned'[p]
    /\ NoLeave(p)' => NoLeave(p)
    /\ home'[p] = home[p]
    /\ InNoScene(p) => InNoScene(p)'

LEMMA StaysArrival == ASSUME NEW p \in Objects, ArrivalOf(p), Stays(p) PROVE ArrivalOf(p)'
<1>1. SUFFICES ASSUME ~condemned'[p], NoLeave(p)'
               PROVE  /\ doing'[p].kind = "enter" => home'[p] = SceneThread[doing'[p].to] /\ InNoScene(p)'
                      /\ \A i \in 1..Len(mailbox'[p]) : mailbox'[p][i].kind = "enter" =>
                            home'[p] = SceneThread[mailbox'[p][i].to] /\ InNoScene(p)'
                      /\ \A c \in Callers : moving'[c] # None /\ moving'[c][1] = p =>
                            home'[p] = SceneThread[moving'[c][2]] /\ InNoScene(p)'
  BY DEF ArrivalOf, NoLeave, Arrives, InNoScene
<1>2. ~condemned[p] /\ NoLeave(p)
  BY <1>1 DEF Stays
<1>3. ASSUME NEW s, Arrives(p, s) PROVE home'[p] = SceneThread[s] /\ InNoScene(p)'
  BY <1>3 DEF Stays, Arrives
<1>4. doing'[p].kind = "enter" => home'[p] = SceneThread[doing'[p].to] /\ InNoScene(p)'
  BY <1>2, <1>3 DEF Stays, ArrivalOf, IsMove
<1>5. \A i \in 1..Len(mailbox'[p]) :
         mailbox'[p][i].kind = "enter" => home'[p] = SceneThread[mailbox'[p][i].to] /\ InNoScene(p)'
  BY <1>2, <1>3 DEF Stays, ArrivalOf, IsMove
<1>6. \A c \in Callers :
         moving'[c] # None /\ moving'[c][1] = p => home'[p] = SceneThread[moving'[c][2]] /\ InNoScene(p)'
  BY <1>2, <1>3 DEF Stays, ArrivalOf
<1>7. QED
  BY <1>4, <1>5, <1>6

(* An object whose mailbox, job and movers are as they were. *)
LEMMA SameStays ==
    ASSUME NEW p \in Objects, mailbox'[p] = mailbox[p], doing'[p] = doing[p],
           \A c \in Callers : moving'[c] # None /\ moving'[c][1] = p => moving'[c] = moving[c],
           condemned'[p] = condemned[p], home'[p] = home[p], InNoScene(p) => InNoScene(p)'
    PROVE  Stays(p)
BY DEF Stays, NoLeave

(* One that got a job that is no move. *)
LEMMA PostedStays ==
    ASSUME TypeOK, Quiet, NEW p \in Objects, NEW o \in Objects, NEW j \in Job, PostJob(o, j),
           UNCHANGED <<doing, members>>
    PROVE  Stays(p)
<1>1. /\ UNCHANGED <<home, condemned>>
      /\ mailbox'[p] = mailbox[p] \/ (p = o /\ Posted(o, j))
  BY PostEffect
<1>2. NoLeave(p)' => NoLeave(p)
  <2>1. CASE mailbox'[p] = mailbox[p]
    BY <2>1 DEF NoLeave
  <2>2. CASE p = o /\ Posted(o, j)
    <3>1. Len(mailbox[p]) \in Nat
      BY Places DEF TypeOK
    <3>2. \A i \in 1..Len(mailbox[p]) : i \in 1..Len(mailbox'[p]) /\ mailbox'[p][i] = mailbox[p][i]
      BY <2>2, <3>1 DEF Posted
    <3>3. QED
      BY <3>2 DEF NoLeave
  <2>3. QED
    BY <1>1, <2>1, <2>2
<1>3. InNoScene(p) => InNoScene(p)'
  BY SameScenes
<1>4. QED
  BY <1>1, <1>2, <1>3 DEF Quiet, Stays

LEMMA ArrivalStep ==
    ASSUME BaseInv, TurnInv, TakeTurns = TRUE, [Next]_vars
    PROVE  Arrival'
<1>0. TypeOK /\ Moves /\ AtHome /\ Arrival /\ Departure /\ Vectors
  BY DEF BaseInv, TurnInv
(* The objects a step leaves alone. *)
<1>1. ASSUME NEW o \in Objects, ArrivalOf(o)', \A p \in Objects : p # o => Stays(p) PROVE Arrival'
  BY <1>0, <1>1, StaysArrival DEF Arrival
<1>2. ASSUME \A p \in Objects : Stays(p) PROVE Arrival'
  BY <1>0, <1>2, StaysArrival DEF Arrival
<1>3. ASSUME NEW o \in Objects, Create(o) PROVE Arrival'
  <2>1. /\ scene[o] \in Scenes /\ mailbox[o] = <<>> /\ doing[o] = NoJob /\ InNoScene(o)
        /\ \A d \in Callers : moving[d] # None => moving[d][1] # o
    BY <1>3 DEF Create, BaseInv, Unborn, TypeOK
  <2>2. PICK j \in Job : j = Enter(scene[o]) /\ j.to = scene[o]
    BY <2>1, JobFacts
  <2>3. UNCHANGED <<home, condemned, doing, members, moving>>
    BY <1>3, CallFrame DEF Calls, Create
  <2>4. /\ \A p \in Objects : p # o => mailbox'[p] = mailbox[p]
        /\ mailbox'[o] = mailbox[o] \/ Posted(o, j)
    BY <1>0, <1>3, <2>2, PostEffect DEF Create
  <2>5. \A p \in Objects : p # o => Stays(p)
    BY <2>3, <2>4, SameStays, SameScenes
  <2>6. InNoScene(o)' /\ home'[o] = SceneThread[scene[o]]
    BY <1>0, <2>1, <2>3, SameScenes, WorldAssumption DEF AtHome
  <2>7. Len(mailbox[o]) = 0
    BY <2>1, EmptyPlaces
  <2>8. \A i \in 1..Len(mailbox'[o]) : mailbox'[o][i].to = scene[o]
    BY <2>2, <2>4, <2>7 DEF Posted
  <2>9. ArrivalOf(o)'
    <3> SUFFICES
                      /\ doing'[o].kind = "enter" => home'[o] = SceneThread[doing'[o].to] /\ InNoScene(o)'
                      /\ \A i \in 1..Len(mailbox'[o]) : mailbox'[o][i].kind = "enter" =>
                            home'[o] = SceneThread[mailbox'[o][i].to] /\ InNoScene(o)'
                      /\ \A d \in Callers : moving'[d] # None /\ moving'[d][1] = o =>
                            home'[o] = SceneThread[moving'[d][2]] /\ InNoScene(o)'
    BY DEF ArrivalOf, NoLeave, Arrives, InNoScene
    <3>1. doing'[o].kind = "none"
      BY <2>1, <2>3, JobFacts
    <3>2. QED
      BY <2>1, <2>3, <2>6, <2>8, <3>1
  <2>10. QED
    BY <1>1, <2>5, <2>9
<1>4. ASSUME NEW o \in Objects, Begin(o) PROVE Arrival'
  <2>1. /\ UNCHANGED <<home, condemned, members, moving>> /\ Taken(o) /\ active[o] = None /\ ~condemned[o]
        /\ \A p \in Objects : p # o => mailbox'[p] = mailbox[p] /\ doing'[p] = doing[p]
    BY <1>0, <1>4, BeginEffect DEF worldVars
  <2>2. \A p \in Objects : p # o => Stays(p)
    BY <2>1, SameStays, SameScenes
  <2>3. /\ doing'[o] = mailbox[o][1] /\ 1 \in 1..Len(mailbox[o])
        /\ \A i \in 1..Len(mailbox'[o]) :
              mailbox'[o][i] = mailbox[o][i + 1] /\ i + 1 \in 1..Len(mailbox[o])
    BY <2>1 DEF Taken
  <2>4. doing[o].kind # "leave"
    BY <1>0, <2>1, WorldAssumption DEF AtHome, TypeOK
  <2>5. ArrivalOf(o)'
    <3> SUFFICES ASSUME NoLeave(o)'
               PROVE  /\ doing'[o].kind = "enter" => home'[o] = SceneThread[doing'[o].to] /\ InNoScene(o)'
                      /\ \A i \in 1..Len(mailbox'[o]) : mailbox'[o][i].kind = "enter" =>
                            home'[o] = SceneThread[mailbox'[o][i].to] /\ InNoScene(o)'
                      /\ \A d \in Callers : moving'[d] # None /\ moving'[d][1] = o =>
                            home'[o] = SceneThread[moving'[d][2]] /\ InNoScene(o)'
    BY DEF ArrivalOf, NoLeave, Arrives, InNoScene
    <3>1. ASSUME NEW i \in 1..Len(mailbox[o]) PROVE mailbox[o][i].kind # "leave"
      <4>1. CASE i = 1
        BY <2>3, <4>1 DEF NoLeave
      <4>2. CASE i # 1
        <5>1. i - 1 \in 1..Len(mailbox'[o]) /\ (i - 1) + 1 = i
          BY <2>1, <4>2 DEF Taken
        <5>2. mailbox'[o][i - 1] = mailbox[o][i]
          BY <2>3, <5>1
        <5>3. QED
          BY <5>1, <5>2 DEF NoLeave
      <4>3. QED
        BY <4>1, <4>2
    <3>2. NoLeave(o)
      BY <2>4, <3>1 DEF NoLeave
    <3>3. /\ \A i \in 1..Len(mailbox[o]) :
               mailbox[o][i].kind = "enter" => Arrives(o, mailbox[o][i].to)
          /\ \A d \in Callers : moving[d] # None /\ moving[d][1] = o => Arrives(o, moving[d][2])
      BY <1>0, <2>1, <3>2 DEF Arrival, ArrivalOf
    <3>4. \A s : Arrives(o, s) => home'[o] = SceneThread[s] /\ InNoScene(o)'
      BY <2>1, SameScenes DEF Arrives
    <3>5. QED
      BY <2>1, <2>3, <3>3, <3>4
  <2>6. QED
    BY <1>1, <2>2, <2>5
<1>5. ASSUME NEW o \in Objects, RunEnter(o) PROVE Arrival'
  <2>1. /\ doing'[o].kind = "done" /\ UNCHANGED <<mailbox, moving>>
        /\ \A p \in Objects : p # o =>
              doing'[p] = doing[p] /\ home'[p] = home[p] /\ condemned'[p] = condemned[p]
    BY <1>5, RunFrame
  <2>2. /\ \A i \in 1..Len(mailbox[o]) : mailbox[o][i].kind \notin {"enter", "leave"}
        /\ \A d \in Callers : moving[d] # None => moving[d][1] # o
        /\ doing[o].to \in Scenes
    BY <1>0, <1>5, EnterArrives DEF RunEnter, Doing
  <2>3. ASSUME NEW p \in Objects, p # o, InNoScene(p) PROVE InNoScene(p)'
    <3>1. ASSUME NEW s \in Scenes PROVE p \notin Elems(members'[s])
      <4>1. CASE s = doing[o].to
        <5>1. members'[s] = Append(members[s], o) /\ members[s] \in Seq(Objects)
          BY <1>0, <1>5, <4>1 DEF RunEnter, TypeOK
        <5>2. QED
          BY <2>3, <5>1, ElemsAppend DEF InNoScene
      <4>2. CASE s # doing[o].to
        BY <1>0, <1>5, <2>3, <4>2 DEF RunEnter, TypeOK, InNoScene
      <4>3. QED
        BY <4>1, <4>2
    <3>2. QED
      BY <3>1 DEF InNoScene
  <2>4. \A p \in Objects : p # o => Stays(p)
    BY <2>1, <2>3, SameStays
  <2>5. ArrivalOf(o)'
    BY <2>1, <2>2 DEF ArrivalOf
  <2>6. QED
    BY <1>1, <2>4, <2>5
<1>6. ASSUME NEW o \in Objects, RunLeave(o) PROVE Arrival'
  <2>1. /\ doing'[o].kind = "done" /\ UNCHANGED <<mailbox, moving>>
        /\ \A p \in Objects : p # o =>
              doing'[p] = doing[p] /\ home'[p] = home[p] /\ condemned'[p] = condemned[p]
    BY <1>6, RunFrame
  <2>2. PICK s : s = doing[o].to
    OBVIOUS
  <2>3. doing[o].kind = "leave" /\ Exit(o) /\ Actors!Move(o, SceneThread[s])
    BY <1>0, <1>6, <2>2 DEF RunLeave, Doing, Departure
  <2>4. InNoScene(o)' /\ home'[o] = SceneThread[s]
    BY <1>0, <2>3, VectorsStep DEF Actors!Move, TypeOK
  <2>5. \A p \in Objects : InNoScene(p) => InNoScene(p)'
    BY <1>0, <2>3, ExitEffect DEF InNoScene
  <2>6. \A p \in Objects : p # o => Stays(p)
    BY <2>1, <2>5, SameStays
  <2>7. \A i \in 1..Len(mailbox[o]) : mailbox[o][i].kind = "enter" => mailbox[o][i].to = s
    BY <1>0, <2>2, <2>3 DEF Moves, DoingMoves
  <2>8. \A d \in Callers : moving[d] # None /\ moving[d][1] = o => moving[d][2] = s
    BY <1>0, <2>2, <2>3 DEF Moves, CallersMove
  <2>9. ArrivalOf(o)'
    <3> SUFFICES
                      /\ doing'[o].kind = "enter" => home'[o] = SceneThread[doing'[o].to] /\ InNoScene(o)'
                      /\ \A i \in 1..Len(mailbox'[o]) : mailbox'[o][i].kind = "enter" =>
                            home'[o] = SceneThread[mailbox'[o][i].to] /\ InNoScene(o)'
                      /\ \A d \in Callers : moving'[d] # None /\ moving'[d][1] = o =>
                            home'[o] = SceneThread[moving'[d][2]] /\ InNoScene(o)'
    BY DEF ArrivalOf, NoLeave, Arrives, InNoScene
    <3>1. QED
      BY <2>1, <2>4, <2>7, <2>8
  <2>10. QED
    BY <1>1, <2>6, <2>9
<1>7. ASSUME NEW o \in Objects, RunExit(o) \/ RunDestroy(o) \/ RunUser(o) PROVE Arrival'
  <2>1. /\ doing'[o].kind = "done" /\ UNCHANGED <<mailbox, moving>> /\ ~condemned[o]
        /\ \A p \in Objects : p # o =>
              doing'[p] = doing[p] /\ home'[p] = home[p] /\ condemned'[p] = condemned[p]
    BY <1>7, RunFrame
  <2>2. \A p \in Objects : InNoScene(p) => InNoScene(p)'
    <3>1. CASE Exit(o)
      BY <1>0, <3>1, ExitEffect DEF InNoScene
    <3>2. CASE UNCHANGED members
      BY <3>2, SameScenes
    <3>3. QED
      BY <1>7, <3>1, <3>2 DEF RunExit, RunDestroy, RunUser, worldVars
  <2>3. \A p \in Objects : p # o => Stays(p)
    BY <2>1, <2>2, SameStays
  <2>4. UNCHANGED home /\ doing[o].kind # "leave"
    BY <1>7 DEF RunExit, RunDestroy, RunUser, actorVars, Actors!Condemn, Doing
  <2>5. Stays(o)
    BY <2>1, <2>2, <2>4 DEF Stays, NoLeave, IsMove
  <2>6. QED
    BY <1>2, <2>3, <2>5
<1>8. ASSUME NEW o \in Objects, Return(o) PROVE Arrival'
  <2>1. /\ UNCHANGED <<mailbox, home, condemned, members, moving>>
        /\ doing'[o] = NoJob /\ doing[o].kind = "done"
        /\ \A p \in Objects : p # o => doing'[p] = doing[p]
    BY <1>0, <1>8 DEF Return, Actors!Finish, worldVars, Doing, TypeOK
  <2>2. \A p \in Objects : p # o => Stays(p)
    BY <2>1, SameStays, SameScenes
  <2>3. Stays(o)
    BY <2>1, SameScenes, Moveless DEF Stays, NoLeave
  <2>4. QED
    BY <1>2, <2>2, <2>3
<1>9. ASSUME NEW o \in Objects, Delete(o) PROVE Arrival'
  <2>1. /\ UNCHANGED <<doing, home, condemned, members, moving>> /\ condemned[o]
        /\ \A p \in Objects : p # o => mailbox'[p] = mailbox[p]
    BY <1>0, <1>9 DEF Delete, Actors!Discard, worldVars, TypeOK
  <2>2. \A p \in Objects : p # o => Stays(p)
    BY <2>1, SameStays, SameScenes
  <2>3. ArrivalOf(o)'
    BY <2>1 DEF ArrivalOf
  <2>4. QED
    BY <1>1, <2>2, <2>3
<1>10. ASSUME NEW c \in Callers, NEW o \in Objects, NEW s \in Scenes, MoveToScene(c, o, s) PROVE Arrival'
  <2>1. PICK j \in Job : j = Leave(s) /\ j.kind = "leave"
    BY JobFacts
  <2>2. UNCHANGED <<home, condemned, doing, members>>
    BY <1>10, CallFrame DEF Calls, Call
  <2>3. /\ \A p \in Objects : p # o => mailbox'[p] = mailbox[p]
        /\ condemned[o] \/ Posted(o, j)
    BY <1>0, <1>10, <2>1, PostEffect DEF MoveToScene
  <2>4. \A d \in Callers : moving'[d] # None /\ moving'[d][1] # o => moving'[d] = moving[d]
    BY <1>0, <1>10 DEF MoveToScene, TypeOK
  <2>5. \A p \in Objects : p # o => Stays(p)
    BY <2>2, <2>3, <2>4, SameStays, SameScenes
  <2>6. ~condemned[o] => ~NoLeave(o)'
    <3>1. Len(mailbox[o]) \in Nat
      BY <1>0, Places DEF TypeOK
    <3>2. ~condemned[o] => /\ Len(mailbox[o]) + 1 \in 1..Len(mailbox'[o])
                           /\ mailbox'[o][Len(mailbox[o]) + 1].kind = "leave"
      BY <2>1, <2>3, <3>1 DEF Posted
    <3>3. QED
      BY <3>2 DEF NoLeave
  <2>7. ArrivalOf(o)'
    BY <2>2, <2>6 DEF ArrivalOf
  <2>8. QED
    BY <1>1, <2>5, <2>7
<1>11. ASSUME NEW c \in Callers, NEW o \in Objects, ExitScene(c, o) \/ Destroy(c, o) PROVE Arrival'
  <2>1. Quiet
    BY <1>0, <1>11, QuietSteps
  <2>2. UNCHANGED <<doing, members>>
    BY <1>11 DEF ExitScene, Destroy, worldVars
  <2>3. PICK j \in Job : PostJob(o, j)
    BY <1>11, JobFacts DEF ExitScene, Destroy
  <2>4. QED
    BY <1>0, <1>2, <2>1, <2>2, <2>3, PostedStays
<1>12. ASSUME NEW c \in Callers, NEW o \in Objects, PostTo(c, o) PROVE Arrival'
  BY <1>2, <1>12, SameStays, SameScenes DEF PostTo, actorVars
<1>13. ASSUME NEW c \in Callers, MoveToSceneEnter(c) PROVE Arrival'
  <2>1. PICK o \in Objects, s \in Scenes : o = moving[c][1] /\ s = moving[c][2] /\ moving[c] # None
    BY <1>0, <1>13, Pair DEF MoveToSceneEnter
  <2>2. PICK j \in Job : j = Enter(s) /\ j.kind = "enter" /\ j.to = s
    BY JobFacts
  <2>3. UNCHANGED <<home, condemned, doing, members>>
    BY <1>13, CallFrame DEF Calls
  <2>4. /\ \A p \in Objects : p # o => mailbox'[p] = mailbox[p]
        /\ mailbox'[o] = mailbox[o] \/ Posted(o, j)
    <3>1. CASE UNCHANGED actorVars
      BY <3>1 DEF actorVars
    <3>2. CASE PostJob(o, j)
      BY <1>0, <3>2, PostEffect
    <3>3. QED
      BY <1>13, <2>1, <2>2, <3>1, <3>2 DEF MoveToSceneEnter
  <2>5. \A d \in Callers : moving'[d] # None => moving'[d] = moving[d]
    BY <1>0, <1>13 DEF MoveToSceneEnter, TypeOK
  <2>6. \A p \in Objects : p # o => Stays(p)
    BY <2>3, <2>4, <2>5, SameStays, SameScenes
  <2>7. Len(mailbox[o]) \in Nat
    BY <1>0, Places DEF TypeOK
  <2>8. /\ \A i \in 1..Len(mailbox[o]) : i \in 1..Len(mailbox'[o]) /\ mailbox'[o][i] = mailbox[o][i]
        /\ \A i \in 1..Len(mailbox'[o]) :
              \/ i \in 1..Len(mailbox[o]) /\ mailbox'[o][i] = mailbox[o][i]
              \/ mailbox'[o][i].to = s
    BY <2>2, <2>4, <2>7 DEF Posted
  <2>9. ArrivalOf(o)'
    <3> SUFFICES ASSUME ~condemned'[o], NoLeave(o)'
               PROVE  /\ doing'[o].kind = "enter" => home'[o] = SceneThread[doing'[o].to] /\ InNoScene(o)'
                      /\ \A i \in 1..Len(mailbox'[o]) : mailbox'[o][i].kind = "enter" =>
                            home'[o] = SceneThread[mailbox'[o][i].to] /\ InNoScene(o)'
                      /\ \A d \in Callers : moving'[d] # None /\ moving'[d][1] = o =>
                            home'[o] = SceneThread[moving'[d][2]] /\ InNoScene(o)'
    BY DEF ArrivalOf, NoLeave, Arrives, InNoScene
    <3>1. ~condemned[o] /\ NoLeave(o)
      BY <2>3, <2>8 DEF NoLeave
    <3>2. /\ doing[o].kind = "enter" => Arrives(o, doing[o].to)
          /\ \A i \in 1..Len(mailbox[o]) :
                mailbox[o][i].kind = "enter" => Arrives(o, mailbox[o][i].to)
          /\ \A d \in Callers :
                moving[d] # None /\ moving[d][1] = o => Arrives(o, moving[d][2])
      BY <1>0, <3>1 DEF Arrival, ArrivalOf
    <3>3. Arrives(o, s)
      BY <2>1, <3>2
    <3>4. \A t : Arrives(o, t) => home'[o] = SceneThread[t] /\ InNoScene(o)'
      BY <2>3, SameScenes DEF Arrives
    <3>5. QED
      BY <2>3, <2>5, <2>8, <3>2, <3>3, <3>4
  <2>10. QED
    BY <1>1, <2>6, <2>9
<1>14. ASSUME ManagerRun PROVE Arrival'
  <2>1. UNCHANGED <<doing, members, moving>> /\ Quiet
    BY <1>0, <1>14, ManagerQuiet DEF ManagerRun
  <2>2. PICK j \in ManagerJob : PostJob(j.obj, Plain("user")) \/ UNCHANGED actorVars
    BY <1>0, <1>14, RunEffect
  <2>3. CASE UNCHANGED actorVars
    BY <1>2, <2>1, <2>3, SameStays, SameScenes DEF actorVars
  <2>4. CASE PostJob(j.obj, Plain("user"))
    BY <1>0, <1>2, <2>1, <2>4, ManagerFacts, JobFacts, PostedStays
  <2>5. QED
    BY <2>2, <2>3, <2>4
<1>15. CASE UNCHANGED vars
  BY <1>2, <1>15, SameStays, SameScenes DEF vars, actorVars, worldVars
<1>16. QED
  BY <1>3, <1>4, <1>5, <1>6, <1>7, <1>8, <1>9, <1>10, <1>11, <1>12, <1>13, <1>14, <1>15
     DEF Next, ObjectStep, Call

-----------------------------------------------------------------------------
LEMMA InitTurn == Init => TurnInv
<1> SUFFICES ASSUME Init PROVE TurnInv
  OBVIOUS
<1>1. /\ mailbox = [o \in Objects |-> <<>>] /\ doing = [o \in Objects |-> NoJob]
      /\ members = [s \in Scenes |-> <<>>] /\ registry = {} /\ managerQ = <<>>
      /\ moving = [c \in Callers |-> None] /\ scene \in [Objects -> Scenes]
      /\ home = [o \in Objects |-> SceneThread[scene[o]]]
  BY DEF Init, Actors!Init
<1>2. Len(<<>>) = 0 /\ Elems(<<>>) = {}
  BY EmptyPlaces DEF Elems
<1>3. /\ \A o \in Objects : Len(mailbox[o]) = 0 /\ doing[o].kind = "none"
      /\ \A c \in Callers : moving[c] = None
  BY <1>1, <1>2, JobFacts
<1>4. Moves
  BY <1>3 DEF Moves, MailboxMoves, DoingMoves, CallersMove
<1>5. AtHome
  BY <1>1, <1>3 DEF AtHome
<1>6. Arrival /\ Departure
  BY <1>3 DEF Arrival, ArrivalOf, Departure
<1>7. Known
  BY <1>1, <1>2 DEF Known, NotQueued
<1>8. Vectors
  BY <1>1, <1>2 DEF Vectors, Injective
<1>9. QED
  BY <1>4, <1>5, <1>6, <1>7, <1>8 DEF TurnInv

LEMMA TurnStep ==
    ASSUME TakeTurns = TRUE
    PROVE  BaseInv /\ TurnInv /\ [Next]_vars => TurnInv'
BY MovesStep, AtHomeStep, ArrivalStep, DepartureStep, KnownStep, VectorsStep DEF TurnInv

LEMMA TurnInvariant ==
    ASSUME TakeTurns = TRUE
    PROVE  Spec => [](BaseInv /\ TurnInv)
<1>1. QED
  BY InitBase, BaseStep, InitTurn, TurnStep, PTL DEF Spec

(* When callers move an object one at a time, and never to the scene it is *)
(* in, GameScene::Enter and Exit run on the thread that walks the scene's  *)
(* vector, through all changes of scene and thread.                        *)
THEOREM ScenesStayOnThreads ==
    ASSUME TakeTurns = TRUE
    PROVE  Spec => []ScenesOnOwnThread
<1>1. BaseInv /\ TurnInv => ScenesOnOwnThread
  <2> SUFFICES ASSUME BaseInv, TurnInv, NEW o \in Objects, Touches(o) # None
               PROVE  active[o] = SceneThread[Touches(o)]
    BY DEF ScenesOnOwnThread
  <2>1. AtHome /\ Moves /\ Arrival
    BY DEF TurnInv
  <2>2. CASE doing[o].kind = "enter"
    <3>1. home[o] = SceneThread[doing[o].to]
      BY <2>1, <2>2, EnterArrives
    <3>2. Touches(o) = doing[o].to
      BY <2>2 DEF Touches
    <3>3. QED
      BY <2>1, <2>2, <3>1, <3>2 DEF AtHome
  <2>3. CASE doing[o].kind # "enter"
    <3>1. Touches(o) = scene[o] /\ doing[o].kind \in {"leave", "exit", "destroy"}
      BY <2>3 DEF Touches
    <3>2. QED
      BY <2>1, <3>1 DEF AtHome
  <2>4. QED
    BY <2>2, <2>3
<1>2. QED
  BY TurnInvariant, <1>1, PTL

(* Under the same contract no object is in two vectors, twice in one, in   *)
(* one after its deletion, or in none while it names a scene that the      *)
(* manager believes it to be in.                                           *)
THEOREM ScenesAndObjectsAgree ==
    ASSUME TakeTurns = TRUE
    PROVE  Spec => []ScenesAgree
<1>1. BaseInv /\ TurnInv => ScenesAgree
  <2> SUFFICES ASSUME BaseInv, TurnInv PROVE ScenesAgree
    OBVIOUS
  <2>1. TypeOK /\ Gone /\ Vectors /\ Known
    BY DEF BaseInv, TurnInv
  <2>2. ASSUME NEW s \in Scenes, NEW i \in DOMAIN members[s]
        PROVE  /\ scene[members[s][i]] = s
               /\ ~freed[members[s][i]]
               /\ \A j \in DOMAIN members[s] : members[s][j] = members[s][i] => i = j
    <3>1. DOMAIN members[s] = 1..Len(members[s]) /\ members[s][i] \in Objects
      BY <2>1, Places DEF TypeOK
    <3>2. members[s][i] \in Elems(members[s])
      BY DEF Elems
    <3>3. scene[members[s][i]] = s
      BY <2>1, <3>1, <3>2 DEF Vectors
    <3>4. ~freed[members[s][i]]
      BY <2>1, <3>1, <3>3, WorldAssumption DEF Gone
    <3>5. QED
      BY <2>1, <3>1, <3>3, <3>4 DEF Vectors, Injective
  <2>3. OneSceneAtATime
    BY <2>2 DEF OneSceneAtATime
  <2>4. SceneKnowsObject
    BY <2>1 DEF SceneKnowsObject, Known, TypeOK
  <2>5. QED
    BY <2>3, <2>4 DEF ScenesAgree
<1>2. QED
  BY TurnInvariant, <1>1, PTL

=============================================================================
