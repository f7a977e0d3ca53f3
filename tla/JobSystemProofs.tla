--------------------------- MODULE JobSystemProofs ---------------------------
(***************************************************************************)
(* Proofs about JobSystem for any sets of objects, threads and callers.    *)
(***************************************************************************)
EXTENDS JobSystem, TLAPS

(* A worker inside Flush or after it, and a caller inside PostJob, has an  *)
(* object in hand; a caller past the bound test has a job number left; a   *)
(* worker inside a job knows which.                                        *)
InHand ==
    /\ \A t \in JobThreads :
          /\ tpc[t] \in ThreadDerefs \cup {"job"} => tobj[t] \in Objects
          /\ tpc[t] = "job" => tjob[t] \in Job
    /\ \A p \in Callers :
          /\ ppc[p] \in PostDerefs => pobj[p] \in Objects
          /\ ppc[p] = "enqueue" => sent[pobj[p]][p] < MaxJobs

TypeInv == TypeOK /\ InHand

-----------------------------------------------------------------------------
(* Queues *)

LEMMA HeadTailType ==
    ASSUME NEW S, NEW q \in Seq(S), q # <<>>
    PROVE  Head(q) \in S /\ Tail(q) \in Seq(S)
BY SMT

LEMMA ExceptType ==
    ASSUME NEW S, NEW T, NEW f \in [S -> T], NEW x \in S, NEW v \in T
    PROVE  [f EXCEPT ![x] = v] \in [S -> T]
OBVIOUS

LEMMA AppendType ==
    ASSUME NEW S, NEW q \in Seq(S), NEW e \in S
    PROVE  Append(q, e) \in Seq(S)
BY SMT

(* Places of a queue after an element was appended. *)
LEMMA AppendPlaces ==
    ASSUME NEW S, NEW q \in Seq(S), NEW e \in S
    PROVE  /\ DOMAIN q = 1..Len(q)
           /\ Len(q) \in Nat
           /\ DOMAIN Append(q, e) = 1..(Len(q) + 1)
           /\ Append(q, e)[Len(q) + 1] = e
           /\ \A i \in DOMAIN q : Append(q, e)[i] = q[i]
BY SMT

(* Places of a queue after its head was taken. *)
LEMMA TailPlaces ==
    ASSUME NEW S, NEW q \in Seq(S), q # <<>>
    PROVE  /\ DOMAIN q = 1..Len(q)
           /\ Len(q) \in Nat
           /\ 1 \in DOMAIN q
           /\ Head(q) = q[1]
           /\ \A i \in DOMAIN Tail(q) : i \in Nat /\ i + 1 \in DOMAIN q /\ Tail(q)[i] = q[i + 1]
           /\ \A i \in DOMAIN q : i # 1 => i - 1 \in DOMAIN Tail(q)
BY SMT

-----------------------------------------------------------------------------
LEMMA InitType == Init => TypeInv
BY ConstantsAssumption DEF Init, TypeInv, TypeOK, InHand, ThreadPcs, FlushPcs, PostPcs,
   ThreadDerefs, PostDerefs, Callers

(* Every step keeps the types. *)
LEMMA TypeStep == TypeInv /\ [Next]_vars => TypeInv'
<1> SUFFICES ASSUME TypeInv, [Next]_vars PROVE TypeInv'
  OBVIOUS
<1> USE ConstantsAssumption DEF TypeInv, TypeOK, InHand, ThreadPcs, FlushPcs,
      PostPcs, ThreadDerefs, PostDerefs, objVars, threadVars, postVars
<1>1. ASSUME NEW p \in Callers, NEW o \in Objects, PostJob(p, o) PROVE TypeInv'
  BY <1>1 DEF PostJob
<1>2. ASSUME NEW p \in Callers, PostEnqueue(p) PROVE TypeInv'
  <2>1. pobj[p] \in Objects /\ sent[pobj[p]][p] \in 0..MaxJobs /\ sent[pobj[p]][p] < MaxJobs
    BY <1>2 DEF PostEnqueue
  <2>2. <<p, sent[pobj[p]][p] + 1>> \in Job
    BY <2>1 DEF Job
  <2>3. jobQ' \in [Objects -> Seq(Job)]
    BY <1>2, <2>1, <2>2, AppendType DEF PostEnqueue
  <2>4. sent' \in [Objects -> [Callers -> 0..MaxJobs]]
    <3>1. sent[pobj[p]] \in [Callers -> 0..MaxJobs] /\ sent[pobj[p]][p] + 1 \in 0..MaxJobs
      BY <2>1
    <3>2. QED
      BY <1>2, <2>1, <3>1 DEF PostEnqueue
  <2>5. \A q \in Callers : ppc'[q] = "enqueue" => sent'[pobj'[q]][q] < MaxJobs
    BY <1>2, <2>1 DEF PostEnqueue
  <2>6. QED
    BY <1>2, <2>1, <2>3, <2>4, <2>5 DEF PostEnqueue
<1>3. ASSUME NEW p \in Callers, PostCas(p) PROVE TypeInv'
  <2>1. CASE processing[pobj[p]]
    BY <1>3, <2>1 DEF PostCas
  <2>2. CASE ~(processing[pobj[p]])
    BY <1>3, <2>2 DEF PostCas
  <2>3. QED
    BY <2>1, <2>2
<1>4. ASSUME NEW p \in Callers, PostSchedule(p) PROVE TypeInv'
  BY <1>4, AppendType DEF PostSchedule
<1>5. ASSUME NEW p \in Callers, PostFault(p) PROVE TypeInv'
  BY <1>5 DEF PostFault
<1>6. ASSUME NEW t \in JobThreads, Start(t) PROVE TypeInv'
  BY <1>6 DEF Start
<1>7. ASSUME NEW t \in JobThreads, Stop(t) PROVE TypeInv'
  BY <1>7 DEF Stop, Goto, At, InJob
<1>8. ASSUME NEW t \in JobThreads, RunCheck(t) PROVE TypeInv'
  BY <1>8 DEF RunCheck, Goto, At, InJob
<1>9. ASSUME NEW t \in JobThreads, Poll(t) PROVE TypeInv'
  <2>1. CASE threadQ[t] # <<>>
    <3>1. Head(threadQ[t]) \in Objects /\ Tail(threadQ[t]) \in Seq(Objects)
      BY <2>1, HeadTailType
    <3>2. threadQ' \in [JobThreads -> Seq(Objects)]
      <4>1. threadQ' = [threadQ EXCEPT ![t] = Tail(threadQ[t])]
        BY <1>9, <2>1 DEF Poll
      <4>2. threadQ \in [JobThreads -> Seq(Objects)]
        OBVIOUS
      <4>3. QED
        BY ONLY <3>1, <4>1, <4>2, ExceptType, t \in JobThreads, Zenon
    <3>3. tpc' \in [JobThreads -> ThreadPcs]
      BY <1>9, <2>1, <3>1 DEF Poll
    <3>4. tobj' \in [JobThreads -> Objects \cup {None}]
      <4>1. tobj' = [tobj EXCEPT ![t] = Head(threadQ[t])]
        BY <1>9, <2>1 DEF Poll
      <4>2. tobj \in [JobThreads -> Objects \cup {None}]
        OBVIOUS
      <4>3. QED
        BY ONLY <3>1, <4>1, <4>2, ExceptType, t \in JobThreads, Zenon
    <3>5. last' \in [JobThreads -> BOOLEAN]
      BY <1>9, <2>1, <3>1 DEF Poll
    <3>6. InHand'
      BY <1>9, <2>1, <3>1 DEF Poll
    <3>7. QED
      BY <1>9, <3>2, <3>3, <3>4, <3>5, <3>6 DEF Poll
  <2>2. CASE threadQ[t] = <<>>
    <3>1. threadQ' \in [JobThreads -> Seq(Objects)]
      BY <1>9, <2>2 DEF Poll
    <3>2. tpc' \in [JobThreads -> ThreadPcs]
      BY <1>9, <2>2 DEF Poll
    <3>3. tobj' \in [JobThreads -> Objects \cup {None}]
      BY <1>9, <2>2 DEF Poll
    <3>4. last' \in [JobThreads -> BOOLEAN]
      BY <1>9, <2>2 DEF Poll
    <3>5. InHand'
      BY <1>9, <2>2 DEF Poll
    <3>6. QED
      BY <1>9, <3>1, <3>2, <3>3, <3>4, <3>5 DEF Poll
  <2>3. QED
    BY <2>1, <2>2
<1>10. ASSUME NEW t \in JobThreads, FlushEnter(t) PROVE TypeInv'
  <2>1. CASE marked[tobj[t]]
    BY <1>10, <2>1 DEF FlushEnter, Goto, At
  <2>2. CASE ~(marked[tobj[t]])
    BY <1>10, <2>2 DEF FlushEnter, Goto, At
  <2>3. QED
    BY <2>1, <2>2
<1>11. ASSUME NEW t \in JobThreads, FlushFetch(t) PROVE TypeInv'
  <2>0. tobj[t] \in Objects
    BY <1>11 DEF FlushFetch, At
  <2>1. CASE jobQ[tobj[t]] # <<>>
    <3>1. Head(jobQ[tobj[t]]) \in Job /\ Tail(jobQ[tobj[t]]) \in Seq(Job)
      BY <2>0, <2>1, HeadTailType
    <3>2. jobQ' \in [Objects -> Seq(Job)] /\ tjob' \in [JobThreads -> Job \cup {None}]
      <4>1. /\ jobQ' = [jobQ EXCEPT ![tobj[t]] = Tail(jobQ[tobj[t]])]
            /\ tjob' = [tjob EXCEPT ![t] = Head(jobQ[tobj[t]])]
        BY <1>11, <2>1 DEF FlushFetch
      <4>2. /\ jobQ \in [Objects -> Seq(Job)]
            /\ tjob \in [JobThreads -> Job \cup {None}]
        OBVIOUS
      <4>3. QED
        BY ONLY <2>0, <3>1, <4>1, <4>2, ExceptType, t \in JobThreads, Zenon
    <3>3. tpc' \in [JobThreads -> ThreadPcs]
      BY <1>11, <2>1 DEF FlushFetch, Goto
    <3>4. InHand'
      <4>1. tjob'[t] = Head(jobQ[tobj[t]])
        BY <1>11, <2>1, Zenon DEF FlushFetch
      <4>2. QED
        BY <1>11, <2>0, <2>1, <3>1, <4>1 DEF FlushFetch, Goto, At
    <3>5. QED
      BY <1>11, <3>2, <3>3, <3>4 DEF FlushFetch
  <2>2. CASE jobQ[tobj[t]] = <<>>
    BY <1>11, <2>2 DEF FlushFetch, Goto, At
  <2>3. QED
    BY <2>1, <2>2
<1>12. ASSUME NEW t \in JobThreads, FlushAfter(t) PROVE TypeInv'
  BY <1>12 DEF FlushAfter, Goto, At, InJob
<1>13. ASSUME NEW t \in JobThreads, FlushRelease(t) PROVE TypeInv'
  BY <1>13 DEF FlushRelease, Goto, At, InJob
<1>14. ASSUME NEW t \in JobThreads, FlushRecount(t) PROVE TypeInv'
  BY <1>14 DEF FlushRecount, Goto, At, InJob
<1>15. ASSUME NEW t \in JobThreads, FlushRecas(t) PROVE TypeInv'
  BY <1>15 DEF FlushRecas, Goto, At, InJob
<1>16. ASSUME NEW t \in JobThreads, FlushHandoff(t) PROVE TypeInv'
  BY <1>16, AppendType DEF FlushHandoff, Goto, At, InJob
<1>17. ASSUME NEW t \in JobThreads, Reap(t) PROVE TypeInv'
  <2>1. CASE marked[tobj[t]]
    BY <1>17, <2>1 DEF Reap, Goto, At
  <2>2. CASE ~(marked[tobj[t]])
    BY <1>17, <2>2 DEF Reap, Goto, At
  <2>3. QED
    BY <2>1, <2>2
<1>18. ASSUME NEW t \in JobThreads, Delete(t) PROVE TypeInv'
  <2>1. tobj[t] \in Objects /\ <<>> \in Seq(Job)
    BY <1>18 DEF Delete, At
  <2>2. QED
    BY <1>18, <2>1 DEF Delete, Goto, At
<1>19. ASSUME NEW t \in JobThreads, ThreadFault(t) PROVE TypeInv'
  BY <1>19 DEF ThreadFault, Goto, At, InJob
<1>20. ASSUME NEW t \in JobThreads, MarkForDelete(t) PROVE TypeInv'
  BY <1>20 DEF MarkForDelete, Goto, At, InJob
<1>21. ASSUME NEW t \in JobThreads, JobReturn(t) PROVE TypeInv'
  <2>1. tobj[t] \in Objects /\ tjob[t] \in Job
    BY <1>21 DEF JobReturn
  <2>2. tjob[t][1] \in Callers /\ tjob[t][2] \in 0..MaxJobs
    BY <2>1 DEF Job
  <2>3. ran' \in [Objects -> [Callers -> 0..MaxJobs]]
    BY <1>21, <2>1, <2>2 DEF JobReturn
  <2>4. QED
    BY <1>21, <2>1, <2>3 DEF JobReturn, Goto
<1>22. ASSUME NEW t \in JobThreads, NEW new \in JobThreads, SetJobThread(t, new) PROVE TypeInv'
  BY <1>22 DEF SetJobThread, At, InJob
<1>23. CASE UNCHANGED vars
  BY <1>23 DEF vars
<1>24. QED
  BY <1>1, <1>2, <1>3, <1>4, <1>5, <1>6, <1>7, <1>8, <1>9, <1>10, <1>11, <1>12, <1>13, <1>14, <1>15, <1>16, <1>17, <1>18, <1>19, <1>20, <1>21, <1>22, <1>23
     DEF Next, PostStep, ThreadStep, JobBody, Callers

(* Every member of every JobObject and JobThread, and every local of the   *)
(* threads that use them, keeps its type, for any number of objects,       *)
(* threads and callers.                                                    *)
THEOREM TypeCorrect == Spec => []TypeOK
<1>1. TypeInv => TypeOK
  BY DEF TypeInv
<1>2. QED
  BY <1>1, InitType, TypeStep, PTL DEF Spec

-----------------------------------------------------------------------------
(* The inductive invariant behind OneToken, ThreadAffinity, MarkFreezes    *)
(* and NoLostWakeup: none of the four is inductive by itself.              *)

(* An object in a thread queue: the flag is set, the queue is that of its  *)
(* thread, and the place is the only holder of the token.                  *)
QueueTokens ==
    \A t \in JobThreads : \A i \in DOMAIN threadQ[t] :
       /\ processing[threadQ[t][i]] = TRUE
       /\ jobThread[threadQ[t][i]] = t
       /\ \A j \in DOMAIN threadQ[t] : threadQ[t][j] = threadQ[t][i] => j = i
       /\ \A s \in JobThreads : ~WorkerHolds(s, threadQ[t][i])
       /\ \A p \in Callers : ~CallerHolds(p, threadQ[t][i])

WorkerTokens ==
    \A t \in JobThreads : tpc[t] \in TokenPcs =>
       /\ processing[tobj[t]] = TRUE
       /\ \A s \in JobThreads : WorkerHolds(s, tobj[t]) => s = t
       /\ \A p \in Callers : ~CallerHolds(p, tobj[t])

CallerTokens ==
    \A p \in Callers : ppc[p] = "schedule" =>
       /\ processing[pobj[p]] = TRUE
       /\ \A q \in Callers : CallerHolds(q, pobj[p]) => q = p

(* A worker that flushes an object is the object's thread, except between  *)
(* a job that moved it and the handoff; and from the release of the flag   *)
(* to the end of Flush no other worker can have picked the object up.      *)
Owner ==
    \A t \in JobThreads :
       /\ tpc[t] \in {"flush", "fetch", "release", "recount", "recas"}
             => jobThread[tobj[t]] = t
       /\ tpc[t] \in {"fetch", "job", "after"} => told[t] = t
       /\ tpc[t] \in {"recount", "recas"}
             => \A s \in JobThreads : ~WorkerHolds(s, tobj[t])

TokenInv == QueueTokens /\ WorkerTokens /\ CallerTokens /\ Owner

(* Only marked objects are deleted. *)
Marks ==
    /\ \A t \in JobThreads :
          tpc[t] \in {"fetch", "release", "recount", "recas"} => marked[tobj[t]] = FALSE
    /\ \A t \in JobThreads : tpc[t] = "delete" => marked[tobj[t]] = TRUE
    /\ \A o \in Objects : freed[o] = TRUE => marked[o] = TRUE

-----------------------------------------------------------------------------
(* The thread queues after one of them grew, or lost its head. *)

LEMMA AppendView ==
    ASSUME NEW q \in [JobThreads -> Seq(Objects)], NEW h \in JobThreads,
           NEW o \in Objects, NEW r, r = [q EXCEPT ![h] = Append(q[h], o)]
    PROVE  /\ \A t \in JobThreads : \A i \in DOMAIN q[t] :
                 i \in DOMAIN r[t] /\ r[t][i] = q[t][i]
           /\ \A t \in JobThreads : \A i \in DOMAIN r[t] :
                 \/ i \in DOMAIN q[t] /\ r[t][i] = q[t][i]
                 \/ t = h /\ r[t][i] = o /\ \A j \in DOMAIN r[t] : j \in DOMAIN q[t] \/ j = i
           /\ \E i \in DOMAIN r[h] : r[h][i] = o
<1>1. /\ DOMAIN q[h] = 1..Len(q[h])
      /\ Len(q[h]) \in Nat
      /\ DOMAIN Append(q[h], o) = 1..(Len(q[h]) + 1)
      /\ Append(q[h], o)[Len(q[h]) + 1] = o
      /\ \A i \in DOMAIN q[h] : Append(q[h], o)[i] = q[h][i]
  BY AppendPlaces
<1>2. r[h] = Append(q[h], o) /\ \A t \in JobThreads : t # h => r[t] = q[t]
  OBVIOUS
<1>3. QED
  BY <1>1, <1>2

LEMMA TakeView ==
    ASSUME NEW q \in [JobThreads -> Seq(Objects)], NEW h \in JobThreads,
           q[h] # <<>>, NEW r, r = [q EXCEPT ![h] = Tail(q[h])]
    PROVE  /\ 1 \in DOMAIN q[h]
           /\ Head(q[h]) = q[h][1]
           /\ \A i \in DOMAIN r[h] :
                 i \in Nat /\ i + 1 \in DOMAIN q[h] /\ i + 1 # 1 /\ r[h][i] = q[h][i + 1]
           /\ \A i \in DOMAIN q[h] : i # 1 => i - 1 \in DOMAIN r[h] /\ r[h][i - 1] = q[h][i]
           /\ \A t \in JobThreads : t # h => r[t] = q[t]
<1>1. /\ DOMAIN q[h] = 1..Len(q[h])
      /\ Len(q[h]) \in Nat
      /\ 1 \in DOMAIN q[h]
      /\ Head(q[h]) = q[h][1]
      /\ \A i \in DOMAIN Tail(q[h]) :
            i \in Nat /\ i + 1 \in DOMAIN q[h] /\ Tail(q[h])[i] = q[h][i + 1]
      /\ \A i \in DOMAIN q[h] : i # 1 => i - 1 \in DOMAIN Tail(q[h])
  BY TailPlaces
<1>2. r[h] = Tail(q[h]) /\ \A t \in JobThreads : t # h => r[t] = q[t]
  OBVIOUS
<1>3. \A i \in DOMAIN q[h] : i # 1 => Tail(q[h])[i - 1] = q[h][i]
  <2> TAKE i \in DOMAIN q[h]
  <2> HAVE i # 1
  <2>1. i - 1 \in DOMAIN Tail(q[h]) /\ i \in Nat
    BY <1>1
  <2>2. Tail(q[h])[i - 1] = q[h][(i - 1) + 1]
    BY <1>1, <2>1
  <2>3. QED
    BY <2>1, <2>2
<1>4. QED
  BY <1>1, <1>2, <1>3

-----------------------------------------------------------------------------
LEMMA InitToken == Init => TokenInv /\ Marks
<1> SUFFICES ASSUME Init PROVE TokenInv /\ Marks
  OBVIOUS
<1>1. QueueTokens
  <2>1. \A t \in JobThreads : threadQ[t] = <<>>
    BY DEF Init
  <2>2. DOMAIN <<>> = {}
    OBVIOUS
  <2>3. QED
    BY <2>1, <2>2 DEF QueueTokens
<1>2. WorkerTokens /\ Owner
  BY DEF Init, WorkerTokens, Owner, TokenPcs
<1>3. CallerTokens /\ Marks
  BY DEF Init, CallerTokens, Marks
<1>4. QED
  BY <1>1, <1>2, <1>3 DEF TokenInv

(* The token is never duplicated and never leaves its object's thread.     *)
LEMMA TokenStep == TypeInv /\ TokenInv /\ [Next]_vars => TokenInv'
<1> SUFFICES ASSUME TypeInv, TokenInv, [Next]_vars PROVE TokenInv'
  OBVIOUS
<1> USE ConstantsAssumption DEF TypeInv, TypeOK, InHand, TokenInv, QueueTokens,
      WorkerTokens, CallerTokens, Owner, WorkerHolds, CallerHolds, TokenPcs,
      ThreadPcs, FlushPcs, PostPcs, ThreadDerefs, PostDerefs,
      objVars, threadVars, postVars
<1>1. ASSUME NEW p \in Callers, NEW o \in Objects, PostJob(p, o) PROVE TokenInv'
  <2>1. /\ ppc' = [ppc EXCEPT ![p] = "enqueue"]
        /\ pobj' = [pobj EXCEPT ![p] = o]
        /\ UNCHANGED <<processing, jobThread, threadQ, tpc, tobj, told>>
    BY <1>1 DEF PostJob
  <2>2. QueueTokens'
    BY <2>1, SMTT(30)
  <2>3. WorkerTokens'
    BY <2>1
  <2>4. CallerTokens' /\ Owner'
    BY <2>1
  <2>5. QED
    BY <2>2, <2>3, <2>4
<1>2. ASSUME NEW p \in Callers, PostEnqueue(p) PROVE TokenInv'
  <2>1. /\ ppc' = [ppc EXCEPT ![p] = "cas"]
        /\ UNCHANGED <<processing, jobThread, threadQ, tpc, tobj, told, pobj>>
    BY <1>2 DEF PostEnqueue
  <2>2. QED
    BY <2>1
<1>3. ASSUME NEW p \in Callers, PostCas(p) PROVE TokenInv'
  <2>1. /\ ppc[p] = "cas" /\ pobj[p] \in Objects
        /\ UNCHANGED <<jobThread, threadQ, tpc, tobj, told>>
    BY <1>3 DEF PostCas
  <2>2. processing' = [processing EXCEPT ![pobj[p]] = TRUE]
    BY <1>3 DEF PostCas
  <2>3. CASE processing[pobj[p]] = TRUE
    <3>1. processing' = processing
      BY <2>1, <2>2, <2>3
    <3>2. /\ ppc' = [ppc EXCEPT ![p] = "idle"]
          /\ pobj' = [pobj EXCEPT ![p] = None]
      BY <1>3, <2>3 DEF PostCas
    <3>3. QED
      BY <2>1, <3>1, <3>2, SMTT(40)
  <2>4. CASE processing[pobj[p]] = FALSE
    <3>1. /\ ppc' = [ppc EXCEPT ![p] = "schedule"]
          /\ pobj' = pobj
      BY <1>3, <2>4 DEF PostCas
    <3>2. /\ \A t \in JobThreads : \A i \in DOMAIN threadQ[t] : threadQ[t][i] # pobj[p]
          /\ \A t \in JobThreads : ~WorkerHolds(t, pobj[p])
          /\ \A q \in Callers : ~CallerHolds(q, pobj[p])
      BY <2>4
    <3>3. QueueTokens'
      BY <2>1, <2>2, <3>1, <3>2, SMTT(30)
    <3>4. WorkerTokens'
      BY <2>1, <2>2, <3>1, <3>2
    <3>5. CallerTokens' /\ Owner'
      BY <2>1, <2>2, <3>1, <3>2
    <3>6. QED
      BY <3>3, <3>4, <3>5
  <2>5. processing[pobj[p]] \in BOOLEAN
    BY <2>1
  <2>6. QED
    BY <2>3, <2>4, <2>5
<1>4. ASSUME NEW p \in Callers, PostSchedule(p) PROVE TokenInv'
  <2>1. /\ \A x \in JobThreads : \A i \in DOMAIN threadQ[x] :
              i \in DOMAIN threadQ'[x] /\ threadQ'[x][i] = threadQ[x][i]
        /\ \A x \in JobThreads : \A i \in DOMAIN threadQ'[x] :
              \/ i \in DOMAIN threadQ[x] /\ threadQ'[x][i] = threadQ[x][i]
              \/ /\ x = jobThread[pobj[p]] /\ threadQ'[x][i] = pobj[p]
                 /\ \A j \in DOMAIN threadQ'[x] : j \in DOMAIN threadQ[x] \/ j = i
    <3>1. /\ threadQ' = [threadQ EXCEPT ![jobThread[pobj[p]]] = Append(threadQ[jobThread[pobj[p]]], pobj[p])]
          /\ pobj[p] \in Objects /\ jobThread[pobj[p]] \in JobThreads
          /\ threadQ \in [JobThreads -> Seq(Objects)]
      BY <1>4 DEF PostSchedule
    <3>2. QED
      BY ONLY <3>1, AppendView
  <2>2. /\ ppc[p] = "schedule" /\ pobj[p] \in Objects
        /\ ppc' = [ppc EXCEPT ![p] = "idle"]
        /\ pobj' = [pobj EXCEPT ![p] = None]
        /\ UNCHANGED <<processing, jobThread, tpc, tobj, told>>
    BY <1>4 DEF PostSchedule
  <2>3. QueueTokens'
    <3> SUFFICES ASSUME NEW x \in JobThreads, NEW i \in DOMAIN threadQ'[x]
                 PROVE  /\ processing'[threadQ'[x][i]] = TRUE
                        /\ jobThread'[threadQ'[x][i]] = x
                        /\ \A j \in DOMAIN threadQ'[x] : threadQ'[x][j] = threadQ'[x][i] => j = i
                        /\ \A s \in JobThreads : ~(tpc'[s] \in TokenPcs /\ tobj'[s] = threadQ'[x][i])
                        /\ \A c \in Callers : ~(ppc'[c] = "schedule" /\ pobj'[c] = threadQ'[x][i])
      OBVIOUS
    <3>1. CASE threadQ'[x][i] = pobj[p]
      <4>1. /\ x = jobThread[pobj[p]]
            /\ \A y \in JobThreads : \A j \in DOMAIN threadQ[y] : threadQ[y][j] # pobj[p]
        BY <2>1, <2>2, <3>1
      <4>2. ~(i \in DOMAIN threadQ[x] /\ threadQ'[x][i] = threadQ[x][i])
        BY <3>1, <4>1
      <4>3. \A j \in DOMAIN threadQ'[x] : j \in DOMAIN threadQ[x] \/ j = i
        BY <2>1, <4>2
      <4>4. \A j \in DOMAIN threadQ'[x] : threadQ'[x][j] = threadQ'[x][i] => j = i
        BY <2>1, <3>1, <4>1, <4>3
      <4>5. QED
        BY <2>2, <3>1, <4>1, <4>4
    <3>2. CASE threadQ'[x][i] # pobj[p]
      <4>1. i \in DOMAIN threadQ[x] /\ threadQ'[x][i] = threadQ[x][i]
        BY <2>1, <3>2
      <4>2. \A j \in DOMAIN threadQ'[x] : threadQ'[x][j] = threadQ[x][i] => j = i
        BY <2>1, <3>2, <4>1
      <4>3. QED
        BY <2>2, <4>1, <4>2, SMTT(40)
    <3>3. QED
      BY <3>1, <3>2
  <2>4. WorkerTokens'
    BY <2>2
  <2>5. CallerTokens'
    BY <2>2
  <2>6. Owner'
    BY <2>2
  <2>7. QED
    BY <2>3, <2>4, <2>5, <2>6
<1>5. ASSUME NEW p \in Callers, PostFault(p) PROVE TokenInv'
  <2>1. /\ ppc' = [ppc EXCEPT ![p] = "fault"]
        /\ UNCHANGED <<processing, jobThread, threadQ, tpc, tobj, told, pobj>>
    BY <1>5 DEF PostFault
  <2>2. QED
    BY <2>1
<1>6. ASSUME NEW t \in JobThreads, Start(t) PROVE TokenInv'
  <2>1. /\ tpc[t] = "stopped"
        /\ tpc' = [tpc EXCEPT ![t] = "check"]
        /\ UNCHANGED <<processing, jobThread, threadQ, tobj, told, ppc, pobj>>
    BY <1>6 DEF Start
  <2>2. QED
    BY <2>1
<1>7. ASSUME NEW t \in JobThreads, Stop(t) PROVE TokenInv'
  <2>1. UNCHANGED <<processing, jobThread, threadQ, tpc, tobj, told, ppc, pobj>>
    BY <1>7 DEF Stop
  <2>2. QED
    BY <2>1
<1>8. ASSUME NEW t \in JobThreads, RunCheck(t) PROVE TokenInv'
  <2>1. /\ tpc[t] = "check"
        /\ tpc' = [tpc EXCEPT ![t] = "poll"]
        /\ UNCHANGED <<processing, jobThread, threadQ, tobj, told, ppc, pobj>>
    BY <1>8 DEF RunCheck
  <2>2. QED
    BY <2>1
<1>9. ASSUME NEW t \in JobThreads, Poll(t) PROVE TokenInv'
  <2>1. CASE threadQ[t] # <<>>
    <3>1. /\ 1 \in DOMAIN threadQ[t]
          /\ Head(threadQ[t]) = threadQ[t][1]
          /\ \A i \in DOMAIN threadQ'[t] :
                /\ i \in Nat /\ i + 1 \in DOMAIN threadQ[t] /\ i + 1 # 1
                /\ threadQ'[t][i] = threadQ[t][i + 1]
          /\ \A x \in JobThreads : x # t => threadQ'[x] = threadQ[x]
      <4>1. /\ threadQ' = [threadQ EXCEPT ![t] = Tail(threadQ[t])]
            /\ threadQ \in [JobThreads -> Seq(Objects)]
        BY <1>9, <2>1 DEF Poll
      <4>2. QED
        BY ONLY <2>1, <4>1, TakeView, t \in JobThreads
    <3>2. /\ tpc[t] = "poll"
          /\ tpc' = [tpc EXCEPT ![t] = "flush"]
          /\ tobj' = [tobj EXCEPT ![t] = threadQ[t][1]]
          /\ UNCHANGED <<processing, jobThread, told, ppc, pobj>>
      BY <1>9, <2>1, <3>1 DEF Poll
    <3> DEFINE o == threadQ[t][1]
    <3>3. /\ processing[o] = TRUE /\ jobThread[o] = t
          /\ \A j \in DOMAIN threadQ[t] : threadQ[t][j] = o => j = 1
          /\ \A s \in JobThreads : ~WorkerHolds(s, o)
          /\ \A p \in Callers : ~CallerHolds(p, o)
      BY <3>1
    <3> HIDE DEF o
    <3>4. QueueTokens'
      <4> SUFFICES ASSUME NEW x \in JobThreads, NEW i \in DOMAIN threadQ'[x]
                   PROVE  /\ processing'[threadQ'[x][i]] = TRUE
                          /\ jobThread'[threadQ'[x][i]] = x
                          /\ \A j \in DOMAIN threadQ'[x] : threadQ'[x][j] = threadQ'[x][i] => j = i
                          /\ \A s \in JobThreads : ~(tpc'[s] \in TokenPcs /\ tobj'[s] = threadQ'[x][i])
                          /\ \A c \in Callers : ~(ppc'[c] = "schedule" /\ pobj'[c] = threadQ'[x][i])
        OBVIOUS
      <4>1. CASE x = t
        <5>1. /\ i + 1 \in DOMAIN threadQ[t] /\ i \in Nat
              /\ threadQ'[x][i] = threadQ[t][i + 1] /\ threadQ[t][i + 1] # o
          BY <3>1, <3>3, <4>1
        <5>2. \A j \in DOMAIN threadQ'[x] : threadQ'[x][j] = threadQ'[x][i] => j = i
          BY <3>1, <4>1, <5>1
        <5>3. QED
          BY <3>2, <4>1, <5>1, <5>2 DEF o
      <4>2. CASE x # t
        <5>1. threadQ'[x] = threadQ[x] /\ i \in DOMAIN threadQ[x]
          BY <3>1, <4>2
        <5>2. threadQ[x][i] # o
          BY <3>3, <4>2, <5>1
        <5>3. QED
          BY <3>2, <5>1, <5>2 DEF o
      <4>3. QED
        BY <4>1, <4>2
    <3>5. WorkerTokens' /\ CallerTokens'
      BY <3>2, <3>3 DEF o
    <3>6. Owner'
      BY <3>2, <3>3 DEF o
    <3>7. QED
      BY <3>4, <3>5, <3>6
  <2>2. CASE threadQ[t] = <<>>
    <3>1. /\ tpc[t] = "poll"
          /\ UNCHANGED <<processing, jobThread, threadQ, tobj, told, ppc, pobj>>
      BY <1>9, <2>2 DEF Poll
    <3>2. CASE tpc' = [tpc EXCEPT ![t] = "stopped"]
      BY <3>1, <3>2
    <3>3. CASE tpc' = [tpc EXCEPT ![t] = "check"]
      BY <3>1, <3>3
    <3>4. QED
      BY <1>9, <2>2, <3>2, <3>3 DEF Poll
  <2>3. QED
    BY <2>1, <2>2
<1>10. ASSUME NEW t \in JobThreads, FlushEnter(t) PROVE TokenInv'
  <2>1. /\ tpc[t] = "flush" /\ jobThread[tobj[t]] = t
        /\ UNCHANGED <<processing, jobThread, threadQ, tobj, ppc, pobj>>
    BY <1>10 DEF FlushEnter, At
  <2>2. CASE tpc' = [tpc EXCEPT ![t] = "reap"] /\ told' = told
    BY <2>1, <2>2
  <2>3. CASE tpc' = [tpc EXCEPT ![t] = "fetch"] /\ told' = [told EXCEPT ![t] = t]
    BY <2>1, <2>3
  <2>4. QED
    BY <1>10, <2>1, <2>2, <2>3 DEF FlushEnter, Goto
<1>11. ASSUME NEW t \in JobThreads, FlushFetch(t) PROVE TokenInv'
  <2>1. /\ tpc[t] = "fetch"
        /\ UNCHANGED <<processing, jobThread, threadQ, tobj, told, ppc, pobj>>
    BY <1>11 DEF FlushFetch, At
  <2>2. CASE tpc' = [tpc EXCEPT ![t] = "job"]
    BY <2>1, <2>2
  <2>3. CASE tpc' = [tpc EXCEPT ![t] = "release"]
    BY <2>1, <2>3
  <2>4. QED
    BY <1>11, <2>2, <2>3 DEF FlushFetch, Goto
<1>12. ASSUME NEW t \in JobThreads, FlushAfter(t) PROVE TokenInv'
  <2>1. /\ tpc[t] = "after" /\ tobj[t] \in Objects
        /\ UNCHANGED <<processing, jobThread, threadQ, tobj, told, ppc, pobj>>
    BY <1>12 DEF FlushAfter, At
  <2>2. CASE tpc' = [tpc EXCEPT ![t] = "reap"]
    BY <2>1, <2>2
  <2>3. CASE tpc' = [tpc EXCEPT ![t] = "handoff"]
    BY <2>1, <2>3
  <2>4. CASE tpc' = [tpc EXCEPT ![t] = "fetch"]
    <3>1. jobThread[tobj[t]] = t
      BY <1>12, <2>1, <2>4 DEF FlushAfter, Goto
    <3>2. QED
      BY <2>1, <2>4, <3>1
  <2>5. QED
    BY <1>12, <2>2, <2>3, <2>4 DEF FlushAfter, Goto
<1>13. ASSUME NEW t \in JobThreads, FlushRelease(t) PROVE TokenInv'
  <2>1. /\ tpc[t] = "release" /\ tobj[t] \in Objects
        /\ processing' = [processing EXCEPT ![tobj[t]] = FALSE]
        /\ tpc' = [tpc EXCEPT ![t] = "recount"]
        /\ UNCHANGED <<jobThread, threadQ, tobj, told, ppc, pobj>>
    BY <1>13 DEF FlushRelease, Goto, At
  <2>2. \A s \in JobThreads : s # t => ~WorkerHolds(s, tobj[t])
    BY <2>1
  <2>3. QueueTokens'
    BY <2>1
  <2>4. WorkerTokens'
    BY <2>1, <2>2
  <2>5. CallerTokens'
    BY <2>1
  <2>6. Owner'
    BY <2>1, <2>2
  <2>7. QED
    BY <2>3, <2>4, <2>5, <2>6
<1>14. ASSUME NEW t \in JobThreads, FlushRecount(t) PROVE TokenInv'
  <2>1. /\ tpc[t] = "recount" /\ tobj[t] \in Objects
        /\ UNCHANGED <<processing, jobThread, threadQ, tobj, told, ppc, pobj>>
    BY <1>14 DEF FlushRecount, At
  <2>2. CASE tpc' = [tpc EXCEPT ![t] = "recas"]
    BY <2>1, <2>2
  <2>3. CASE tpc' = [tpc EXCEPT ![t] = "reap"]
    BY <2>1, <2>3
  <2>4. QED
    BY <1>14, <2>2, <2>3 DEF FlushRecount, Goto
<1>15. ASSUME NEW t \in JobThreads, FlushRecas(t) PROVE TokenInv'
  <2>1. /\ tpc[t] = "recas" /\ tobj[t] \in Objects
        /\ processing' = [processing EXCEPT ![tobj[t]] = TRUE]
        /\ UNCHANGED <<jobThread, threadQ, tobj, told, ppc, pobj>>
    BY <1>15 DEF FlushRecas, At
  <2>2. CASE processing[tobj[t]] = TRUE
    <3>1. /\ processing' = processing
          /\ tpc' = [tpc EXCEPT ![t] = "reap"]
      BY <1>15, <2>1, <2>2 DEF FlushRecas, Goto
    <3>2. QED
      BY <2>1, <3>1
  <2>3. CASE processing[tobj[t]] = FALSE
    <3>1. tpc' = [tpc EXCEPT ![t] = "handoff"]
      BY <1>15, <2>3 DEF FlushRecas, Goto
    <3>2. /\ \A x \in JobThreads : \A i \in DOMAIN threadQ[x] : threadQ[x][i] # tobj[t]
          /\ \A s \in JobThreads : ~WorkerHolds(s, tobj[t])
          /\ \A q \in Callers : ~CallerHolds(q, tobj[t])
      BY <2>3
    <3>3. QueueTokens'
      BY <2>1, <3>1, <3>2
    <3>4. WorkerTokens'
      BY <2>1, <3>1, <3>2
    <3>5. CallerTokens' /\ Owner'
      BY <2>1, <3>1, <3>2
    <3>6. QED
      BY <3>3, <3>4, <3>5
  <2>4. processing[tobj[t]] \in BOOLEAN
    BY <2>1
  <2>5. QED
    BY <2>2, <2>3, <2>4
<1>16. ASSUME NEW t \in JobThreads, FlushHandoff(t) PROVE TokenInv'
  <2>1. /\ \A x \in JobThreads : \A i \in DOMAIN threadQ[x] :
              i \in DOMAIN threadQ'[x] /\ threadQ'[x][i] = threadQ[x][i]
        /\ \A x \in JobThreads : \A i \in DOMAIN threadQ'[x] :
              \/ i \in DOMAIN threadQ[x] /\ threadQ'[x][i] = threadQ[x][i]
              \/ /\ x = jobThread[tobj[t]] /\ threadQ'[x][i] = tobj[t]
                 /\ \A j \in DOMAIN threadQ'[x] : j \in DOMAIN threadQ[x] \/ j = i
    <3>1. /\ threadQ' = [threadQ EXCEPT ![jobThread[tobj[t]]] = Append(threadQ[jobThread[tobj[t]]], tobj[t])]
          /\ tobj[t] \in Objects /\ jobThread[tobj[t]] \in JobThreads
          /\ threadQ \in [JobThreads -> Seq(Objects)]
      BY <1>16 DEF FlushHandoff, At
    <3>2. QED
      BY ONLY <3>1, AppendView
  <2>2. /\ tpc[t] = "handoff" /\ tobj[t] \in Objects
        /\ tpc' = [tpc EXCEPT ![t] = "reap"]
        /\ UNCHANGED <<processing, jobThread, tobj, told, ppc, pobj>>
    BY <1>16 DEF FlushHandoff, Goto, At
  <2>3. QueueTokens'
    <3> SUFFICES ASSUME NEW x \in JobThreads, NEW i \in DOMAIN threadQ'[x]
                 PROVE  /\ processing'[threadQ'[x][i]] = TRUE
                        /\ jobThread'[threadQ'[x][i]] = x
                        /\ \A j \in DOMAIN threadQ'[x] : threadQ'[x][j] = threadQ'[x][i] => j = i
                        /\ \A s \in JobThreads : ~(tpc'[s] \in TokenPcs /\ tobj'[s] = threadQ'[x][i])
                        /\ \A c \in Callers : ~(ppc'[c] = "schedule" /\ pobj'[c] = threadQ'[x][i])
      OBVIOUS
    <3>1. CASE threadQ'[x][i] = tobj[t]
      <4>1. /\ x = jobThread[tobj[t]]
            /\ \A y \in JobThreads : \A j \in DOMAIN threadQ[y] : threadQ[y][j] # tobj[t]
        BY <2>1, <2>2, <3>1
      <4>2. ~(i \in DOMAIN threadQ[x] /\ threadQ'[x][i] = threadQ[x][i])
        BY <3>1, <4>1
      <4>3. \A j \in DOMAIN threadQ'[x] : j \in DOMAIN threadQ[x] \/ j = i
        BY <2>1, <4>2
      <4>4. \A j \in DOMAIN threadQ'[x] : threadQ'[x][j] = threadQ'[x][i] => j = i
        BY <2>1, <3>1, <4>1, <4>3
      <4>5. QED
        BY <2>2, <3>1, <4>1, <4>4
    <3>2. CASE threadQ'[x][i] # tobj[t]
      <4>1. i \in DOMAIN threadQ[x] /\ threadQ'[x][i] = threadQ[x][i]
        BY <2>1, <3>2
      <4>2. \A j \in DOMAIN threadQ'[x] : threadQ'[x][j] = threadQ[x][i] => j = i
        BY <2>1, <3>2, <4>1
      <4>3. QED
        BY <2>2, <4>1, <4>2
    <3>3. QED
      BY <3>1, <3>2
  <2>4. WorkerTokens'
    BY <2>2
  <2>5. CallerTokens'
    BY <2>2
  <2>6. Owner'
    BY <2>2
  <2>7. QED
    BY <2>3, <2>4, <2>5, <2>6
<1>17. ASSUME NEW t \in JobThreads, Reap(t) PROVE TokenInv'
  <2>1. /\ tpc[t] = "reap"
        /\ told' = [told EXCEPT ![t] = None]
        /\ UNCHANGED <<processing, jobThread, threadQ, ppc, pobj>>
    BY <1>17 DEF Reap, At
  <2>2. CASE tpc' = [tpc EXCEPT ![t] = "delete"] /\ tobj' = tobj
    BY <2>1, <2>2
  <2>3. CASE tpc' = [tpc EXCEPT ![t] = "poll"] /\ tobj' = [tobj EXCEPT ![t] = None]
    BY <2>1, <2>3
  <2>4. QED
    BY <1>17, <2>2, <2>3 DEF Reap, Goto
<1>18. ASSUME NEW t \in JobThreads, Delete(t) PROVE TokenInv'
  <2>1. /\ tpc[t] = "delete"
        /\ tpc' = [tpc EXCEPT ![t] = "poll"]
        /\ tobj' = [tobj EXCEPT ![t] = None]
        /\ UNCHANGED <<processing, jobThread, threadQ, told, ppc, pobj>>
    BY <1>18 DEF Delete, Goto, At
  <2>2. QED
    BY <2>1
<1>19. ASSUME NEW t \in JobThreads, ThreadFault(t) PROVE TokenInv'
  <2>1. /\ tpc' = [tpc EXCEPT ![t] = "fault"]
        /\ UNCHANGED <<processing, jobThread, threadQ, tobj, told, ppc, pobj>>
    BY <1>19 DEF ThreadFault, Goto
  <2>2. QED
    BY <2>1
<1>20. ASSUME NEW t \in JobThreads, MarkForDelete(t) PROVE TokenInv'
  <2>1. UNCHANGED <<processing, jobThread, threadQ, tpc, tobj, told, ppc, pobj>>
    BY <1>20 DEF MarkForDelete
  <2>2. QED
    BY <2>1
<1>21. ASSUME NEW t \in JobThreads, JobReturn(t) PROVE TokenInv'
  <2>1. /\ tpc[t] = "job"
        /\ tpc' = [tpc EXCEPT ![t] = "after"]
        /\ UNCHANGED <<processing, jobThread, threadQ, tobj, told, ppc, pobj>>
    BY <1>21 DEF JobReturn, Goto
  <2>2. QED
    BY <2>1
<1>22. ASSUME NEW t \in JobThreads, NEW new \in JobThreads, SetJobThread(t, new) PROVE TokenInv'
  <2>1. QueueTokens'
    <3>1. /\ tpc[t] = "job" /\ tobj[t] \in Objects
          /\ jobThread' = [jobThread EXCEPT ![tobj[t]] = new]
          /\ UNCHANGED <<processing, threadQ, tpc, tobj, ppc, pobj>>
      BY <1>22 DEF SetJobThread, At, InJob
    <3>2. \A x \in JobThreads : \A i \in DOMAIN threadQ[x] :
             threadQ[x][i] # tobj[t] /\ threadQ[x][i] \in Objects
      BY <3>1
    <3>3. QED
      BY <3>1, <3>2
  <2>2. WorkerTokens'
    BY <1>22 DEF SetJobThread, At, InJob
  <2>3. CallerTokens'
    BY <1>22 DEF SetJobThread, At, InJob
  <2>4. Owner'
    BY <1>22 DEF SetJobThread, At, InJob
  <2>5. QED
    BY <2>1, <2>2, <2>3, <2>4
<1>23. CASE UNCHANGED vars
  BY <1>23 DEF vars
<1>24. QED
  BY <1>1, <1>2, <1>3, <1>4, <1>5, <1>6, <1>7, <1>8, <1>9, <1>10, <1>11, <1>12, <1>13, <1>14, <1>15, <1>16, <1>17, <1>18, <1>19, <1>20, <1>21, <1>22, <1>23
     DEF Next, PostStep, ThreadStep, JobBody, Callers

(* No worker takes a job from a marked object, and only a marked object is *)
(* deleted.                                                                *)
LEMMA MarksStep == TypeInv /\ TokenInv /\ Marks /\ [Next]_vars => Marks'
<1> SUFFICES ASSUME TypeInv, TokenInv, Marks, [Next]_vars PROVE Marks'
  OBVIOUS
<1> USE ConstantsAssumption DEF TypeInv, TypeOK, InHand, Marks,
      ThreadPcs, FlushPcs, PostPcs, ThreadDerefs, PostDerefs,
      objVars, threadVars, postVars
<1>1. ASSUME NEW p \in Callers, NEW o \in Objects, PostJob(p, o) PROVE Marks'
  <2>1. UNCHANGED <<tpc, tobj, marked, freed>>
    BY <1>1 DEF PostJob
  <2>2. QED
    BY <2>1
<1>2. ASSUME NEW p \in Callers, PostEnqueue(p) PROVE Marks'
  <2>1. UNCHANGED <<tpc, tobj, marked, freed>>
    BY <1>2 DEF PostEnqueue
  <2>2. QED
    BY <2>1
<1>3. ASSUME NEW p \in Callers, PostCas(p) PROVE Marks'
  <2>1. UNCHANGED <<tpc, tobj, marked, freed>>
    BY <1>3 DEF PostCas
  <2>2. QED
    BY <2>1
<1>4. ASSUME NEW p \in Callers, PostSchedule(p) PROVE Marks'
  <2>1. UNCHANGED <<tpc, tobj, marked, freed>>
    BY <1>4 DEF PostSchedule
  <2>2. QED
    BY <2>1
<1>5. ASSUME NEW p \in Callers, PostFault(p) PROVE Marks'
  <2>1. UNCHANGED <<tpc, tobj, marked, freed>>
    BY <1>5 DEF PostFault
  <2>2. QED
    BY <2>1
<1>6. ASSUME NEW t \in JobThreads, Start(t) PROVE Marks'
  BY <1>6 DEF Start, Goto, At
<1>7. ASSUME NEW t \in JobThreads, Stop(t) PROVE Marks'
  BY <1>7 DEF Stop
<1>8. ASSUME NEW t \in JobThreads, RunCheck(t) PROVE Marks'
  BY <1>8 DEF RunCheck, Goto, At
<1>9. ASSUME NEW t \in JobThreads, Poll(t) PROVE Marks'
  <2>1. /\ tpc[t] = "poll"
        /\ \A s \in JobThreads : s # t => tpc'[s] = tpc[s] /\ tobj'[s] = tobj[s]
        /\ tpc'[t] \in {"flush", "stopped", "check"}
        /\ UNCHANGED <<marked, freed>>
    BY <1>9 DEF Poll
  <2>2. QED
    BY <2>1
<1>10. ASSUME NEW t \in JobThreads, FlushEnter(t) PROVE Marks'
  BY <1>10 DEF FlushEnter, Goto, At
<1>11. ASSUME NEW t \in JobThreads, FlushFetch(t) PROVE Marks'
  BY <1>11 DEF FlushFetch, Goto, At
<1>12. ASSUME NEW t \in JobThreads, FlushAfter(t) PROVE Marks'
  BY <1>12 DEF FlushAfter, Goto, At
<1>13. ASSUME NEW t \in JobThreads, FlushRelease(t) PROVE Marks'
  BY <1>13 DEF FlushRelease, Goto, At
<1>14. ASSUME NEW t \in JobThreads, FlushRecount(t) PROVE Marks'
  BY <1>14 DEF FlushRecount, Goto, At
<1>15. ASSUME NEW t \in JobThreads, FlushRecas(t) PROVE Marks'
  BY <1>15 DEF FlushRecas, Goto, At
<1>16. ASSUME NEW t \in JobThreads, FlushHandoff(t) PROVE Marks'
  BY <1>16 DEF FlushHandoff, Goto, At
<1>17. ASSUME NEW t \in JobThreads, Reap(t) PROVE Marks'
  <2>1. UNCHANGED <<marked, freed>>
    BY <1>17 DEF Reap
  <2>2. CASE marked[tobj[t]] = TRUE
    <3>1. tpc' = [tpc EXCEPT ![t] = "delete"] /\ UNCHANGED tobj
      BY <1>17, <2>2 DEF Reap, Goto
    <3>2. QED
      BY <2>1, <2>2, <3>1
  <2>3. CASE marked[tobj[t]] # TRUE
    <3>1. /\ tpc' = [tpc EXCEPT ![t] = "poll"]
          /\ tobj' = [tobj EXCEPT ![t] = None]
      BY <1>17, <2>3 DEF Reap, Goto
    <3>2. QED
      BY <2>1, <3>1
  <2>4. QED
    BY <2>2, <2>3
<1>18. ASSUME NEW t \in JobThreads, Delete(t) PROVE Marks'
  BY <1>18 DEF Delete, Goto, At
<1>19. ASSUME NEW t \in JobThreads, ThreadFault(t) PROVE Marks'
  BY <1>19 DEF ThreadFault, Goto, At
<1>20. ASSUME NEW t \in JobThreads, MarkForDelete(t) PROVE Marks'
  <2>1. /\ tpc[t] = "job" /\ tobj[t] \in Objects
        /\ marked' = [marked EXCEPT ![tobj[t]] = TRUE]
        /\ UNCHANGED <<tpc, tobj, freed>>
    BY <1>20 DEF MarkForDelete, At, InJob
  <2>2. \A s \in JobThreads :
           tpc[s] \in {"fetch", "release", "recount", "recas"} => tobj[s] # tobj[t]
    <3>1. \A s \in JobThreads : tpc[s] \in {"fetch", "release"} => tobj[s] # tobj[t]
      BY <2>1 DEF TokenInv, WorkerTokens, WorkerHolds, TokenPcs
    <3>2. \A s \in JobThreads : tpc[s] \in {"recount", "recas"} => tobj[s] # tobj[t]
      BY <2>1 DEF TokenInv, Owner, WorkerHolds, TokenPcs
    <3>3. QED
      BY <3>1, <3>2
  <2>3. QED
    BY <2>1, <2>2
<1>21. ASSUME NEW t \in JobThreads, JobReturn(t) PROVE Marks'
  BY <1>21 DEF JobReturn, Goto, At
<1>22. ASSUME NEW t \in JobThreads, NEW new \in JobThreads, SetJobThread(t, new) PROVE Marks'
  BY <1>22 DEF SetJobThread
<1>23. CASE UNCHANGED vars
  BY <1>23 DEF vars
<1>24. QED
  BY <1>1, <1>2, <1>3, <1>4, <1>5, <1>6, <1>7, <1>8, <1>9, <1>10, <1>11, <1>12, <1>13, <1>14, <1>15, <1>16, <1>17, <1>18, <1>19, <1>20, <1>21, <1>22, <1>23
     DEF Next, PostStep, ThreadStep, JobBody, Callers

-----------------------------------------------------------------------------
(* The wake-up side: while an unmarked object's flag is set somebody holds *)
(* its token, and while it has jobs somebody will set the flag.            *)
Wakes(o) ==
    \/ \E p \in Callers : ppc[p] = "cas" /\ pobj[p] = o
    \/ \E t \in JobThreads : tpc[t] \in {"recount", "recas"} /\ tobj[t] = o

WakeAt(o) ==
    marked[o] = FALSE =>
       /\ processing[o] = TRUE => HasToken(o)
       /\ jobQ[o] # <<>> => processing[o] = TRUE \/ Wakes(o)

Wake == \A o \in Objects : WakeAt(o)

SafetyInv == TypeInv /\ TokenInv /\ Marks

LEMMA SafetyInvariant == Spec => []SafetyInv
<1>1. Init => SafetyInv
  BY InitType, InitToken DEF SafetyInv
<1>2. SafetyInv /\ [Next]_vars => SafetyInv'
  BY TypeStep, TokenStep, MarksStep DEF SafetyInv
<1>3. QED
  BY <1>1, <1>2, PTL DEF Spec

(* At any time at most one party can act for an object: one place of one   *)
(* thread queue, one worker inside Flush or one caller about to schedule   *)
(* it.  So jobs of one object never overlap, however many threads post.    *)
THEOREM TokenUnique == Spec => []OneToken
<1>1. SafetyInv => OneToken
  <2> SUFFICES ASSUME SafetyInv, NEW o \in Objects
               PROVE  /\ HasToken(o) => processing[o]
                      /\ \A s, t \in JobThreads :
                            \A i \in DOMAIN threadQ[s], j \in DOMAIN threadQ[t] :
                               threadQ[s][i] = o /\ threadQ[t][j] = o => s = t /\ i = j
                      /\ \A s, t \in JobThreads :
                            WorkerHolds(s, o) /\ WorkerHolds(t, o) => s = t
                      /\ \A p, q \in Callers :
                            CallerHolds(p, o) /\ CallerHolds(q, o) => p = q
                      /\ ~(QueuedSomewhere(o) /\ HeldByWorker(o))
                      /\ ~(QueuedSomewhere(o) /\ HeldByCaller(o))
                      /\ ~(HeldByWorker(o) /\ HeldByCaller(o))
    BY DEF OneToken
  <2> USE DEF SafetyInv, TokenInv, QueueTokens, WorkerTokens, CallerTokens,
        WorkerHolds, CallerHolds, QueuedSomewhere, HeldByWorker, HeldByCaller
  <2>1. HasToken(o) => processing[o]
    BY DEF HasToken
  <2>2. \A s, t \in JobThreads : \A i \in DOMAIN threadQ[s], j \in DOMAIN threadQ[t] :
           threadQ[s][i] = o /\ threadQ[t][j] = o => s = t /\ i = j
    OBVIOUS
  <2>3. /\ \A s, t \in JobThreads : WorkerHolds(s, o) /\ WorkerHolds(t, o) => s = t
        /\ \A p, q \in Callers : CallerHolds(p, o) /\ CallerHolds(q, o) => p = q
    OBVIOUS
  <2>4. /\ ~(QueuedSomewhere(o) /\ HeldByWorker(o))
        /\ ~(QueuedSomewhere(o) /\ HeldByCaller(o))
        /\ ~(HeldByWorker(o) /\ HeldByCaller(o))
    OBVIOUS
  <2>5. QED
    BY <2>1, <2>2, <2>3, <2>4
<1>2. QED
  BY <1>1, SafetyInvariant, PTL

(* Objects wait in, and take jobs on, the thread m_pJobThread names.       *)
THEOREM JobsRunOnOwnThread == Spec => []ThreadAffinity
<1>1. SafetyInv => ThreadAffinity
  BY DEF SafetyInv, TokenInv, QueueTokens, Owner, ThreadAffinity
<1>2. QED
  BY <1>1, SafetyInvariant, PTL

(* After MarkForDelete no other job of the object starts and the flag is   *)
(* never cleared again.                                                    *)
THEOREM MarkIsFinal == Spec => []MarkFreezes
<1>1. SafetyInv => MarkFreezes
  BY DEF SafetyInv, Marks, MarkFreezes
<1>2. QED
  BY <1>1, SafetyInvariant, PTL

-----------------------------------------------------------------------------
(* A step that takes nobody's token and turns nobody away from the CAS     *)
(* keeps an object awake.                                                  *)
Kept(o) ==
    /\ marked'[o] = FALSE => marked[o] = FALSE
    /\ marked'[o] = FALSE =>
          /\ processing'[o] = processing[o]
          /\ jobQ'[o] # <<>> => jobQ[o] # <<>>
          /\ \A t \in JobThreads : \A i \in DOMAIN threadQ[t] :
                threadQ[t][i] = o => QueuedSomewhere(o)'
          /\ \A t \in JobThreads : tpc[t] \in TokenPcs /\ tobj[t] = o =>
                tpc'[t] \in TokenPcs /\ tobj'[t] = o
          /\ \A p \in Callers : ppc[p] = "schedule" /\ pobj[p] = o =>
                ppc'[p] = "schedule" /\ pobj'[p] = o
          /\ \A p \in Callers : ppc[p] = "cas" /\ pobj[p] = o =>
                ppc'[p] = "cas" /\ pobj'[p] = o
          /\ \A t \in JobThreads : tpc[t] \in {"recount", "recas"} /\ tobj[t] = o =>
                tpc'[t] \in {"recount", "recas"} /\ tobj'[t] = o

LEMMA WakeFrame ==
    ASSUME NEW o \in Objects, WakeAt(o), Kept(o)
    PROVE  WakeAt(o)'
<1> USE DEF Kept
<1> SUFFICES ASSUME marked'[o] = FALSE
             PROVE  /\ processing'[o] = TRUE => HasToken(o)'
                    /\ jobQ'[o] # <<>> => processing'[o] = TRUE \/ Wakes(o)'
  BY DEF WakeAt
<1>1. HasToken(o) => HasToken(o)'
  <2>1. QueuedSomewhere(o) => QueuedSomewhere(o)'
    BY Zenon DEF QueuedSomewhere
  <2>2. HeldByWorker(o) => HeldByWorker(o)'
    BY Zenon DEF HeldByWorker, WorkerHolds
  <2>3. HeldByCaller(o) => HeldByCaller(o)'
    BY Zenon DEF HeldByCaller, CallerHolds
  <2>4. QED
    BY <2>1, <2>2, <2>3, Zenon DEF HasToken
<1>2. Wakes(o) => Wakes(o)'
  BY Zenon DEF Wakes
<1>3. QED
  BY <1>1, <1>2 DEF WakeAt

(* The thread queues stay as they are. *)
LEMMA SameQueues ==
    ASSUME NEW o \in Objects, threadQ' = threadQ
    PROVE  \A t \in JobThreads : \A i \in DOMAIN threadQ[t] :
              threadQ[t][i] = o => QueuedSomewhere(o)'
BY DEF QueuedSomewhere

(* A queue grows: what was queued stays queued, and the new object is.     *)
LEMMA GrownQueues ==
    ASSUME TypeOK, NEW o \in Objects, NEW x \in Objects,
           threadQ' = [threadQ EXCEPT ![jobThread[x]] = Append(@, x)]
    PROVE  /\ \A t \in JobThreads : \A i \in DOMAIN threadQ[t] :
                 threadQ[t][i] = o => QueuedSomewhere(o)'
           /\ QueuedSomewhere(x)'
<1> DEFINE r == threadQ'
<1>1. /\ threadQ \in [JobThreads -> Seq(Objects)]
      /\ jobThread[x] \in JobThreads
      /\ r = [threadQ EXCEPT ![jobThread[x]] = Append(threadQ[jobThread[x]], x)]
  BY DEF TypeOK
<1>2. /\ \A t \in JobThreads : \A i \in DOMAIN threadQ[t] :
            i \in DOMAIN r[t] /\ r[t][i] = threadQ[t][i]
      /\ \E i \in DOMAIN r[jobThread[x]] : r[jobThread[x]][i] = x
  <2> HIDE DEF r
  <2>1. QED
    BY ONLY <1>1, AppendView, x \in Objects
<1>3. QED
  BY <1>1, <1>2 DEF QueuedSomewhere

(* The head of a queue is taken: what else was queued stays queued.        *)
LEMMA ShrunkQueues ==
    ASSUME TypeOK, NEW o \in Objects, NEW h \in JobThreads, threadQ[h] # <<>>,
           threadQ' = [threadQ EXCEPT ![h] = Tail(@)], Head(threadQ[h]) # o
    PROVE  \A t \in JobThreads : \A i \in DOMAIN threadQ[t] :
              threadQ[t][i] = o => QueuedSomewhere(o)'
<1> DEFINE r == threadQ'
<1>1. /\ threadQ \in [JobThreads -> Seq(Objects)]
      /\ r = [threadQ EXCEPT ![h] = Tail(threadQ[h])]
  BY DEF TypeOK
<1>2. /\ Head(threadQ[h]) = threadQ[h][1]
      /\ \A i \in DOMAIN threadQ[h] : i # 1 => i - 1 \in DOMAIN r[h] /\ r[h][i - 1] = threadQ[h][i]
      /\ \A t \in JobThreads : t # h => r[t] = threadQ[t]
  <2> HIDE DEF r
  <2>1. QED
    BY ONLY <1>1, TakeView, threadQ[h] # <<>>, h \in JobThreads
<1>3. SUFFICES ASSUME NEW t \in JobThreads, NEW i \in DOMAIN threadQ[t], threadQ[t][i] = o
               PROVE  \E s \in JobThreads : \E j \in DOMAIN r[s] : r[s][j] = o
  BY DEF QueuedSomewhere
<1>4. CASE t = h
  <2>1. i # 1
    BY <1>2, <1>3, <1>4
  <2>2. i - 1 \in DOMAIN r[t] /\ r[t][i - 1] = o
    BY <1>2, <1>3, <1>4, <2>1
  <2>3. QED
    BY <2>2
<1>5. CASE t # h
  BY <1>2, <1>3, <1>5
<1>6. QED
  BY <1>4, <1>5
(* Wake-up is never lost by a step. *)
LEMMA WakeStep == SafetyInv /\ Wake /\ [Next]_vars => Wake'
<1> SUFFICES ASSUME SafetyInv, Wake, [Next]_vars, NEW o \in Objects PROVE WakeAt(o)'
  BY DEF Wake
<1> USE DEF SafetyInv, TypeInv, TypeOK, InHand, TokenPcs, ThreadDerefs, FlushPcs,
      PostDerefs, objVars, threadVars, postVars
<1>0. WakeAt(o)
  BY DEF Wake
<1>1. ASSUME NEW p \in Callers, NEW x \in Objects, PostJob(p, x) PROVE WakeAt(o)'
  <2>1. threadQ' = threadQ
    BY <1>1 DEF PostJob
  <2>2. Kept(o)
    BY <1>1, <2>1, SameQueues DEF Kept, PostJob
  <2>3. QED
    BY <1>0, <2>2, WakeFrame
<1>2. ASSUME NEW p \in Callers, PostEnqueue(p) PROVE WakeAt(o)'
  <2>1. /\ ppc[p] = "enqueue" /\ pobj[p] \in Objects
        /\ ppc' = [ppc EXCEPT ![p] = "cas"]
        /\ UNCHANGED <<processing, marked, threadQ, tpc, tobj, pobj>>
        /\ o # pobj[p] => jobQ'[o] = jobQ[o]
    BY <1>2 DEF PostEnqueue
  <2>2. CASE o = pobj[p]
    <3>1. HasToken(o) => HasToken(o)'
      BY <2>1, Zenon DEF HasToken, QueuedSomewhere, HeldByWorker, HeldByCaller,
         WorkerHolds, CallerHolds
    <3>2. Wakes(o)'
      BY <2>1, <2>2 DEF Wakes
    <3>3. QED
      BY <1>0, <2>1, <3>1, <3>2 DEF WakeAt
  <2>3. CASE o # pobj[p]
    <3>1. Kept(o)
      BY <2>1, <2>3, SameQueues DEF Kept
    <3>2. QED
      BY <1>0, <3>1, WakeFrame
  <2>4. QED
    BY <2>2, <2>3
<1>3. ASSUME NEW p \in Callers, PostCas(p) PROVE WakeAt(o)'
  <2>1. /\ ppc[p] = "cas" /\ pobj[p] \in Objects
        /\ processing' = [processing EXCEPT ![pobj[p]] = TRUE]
        /\ UNCHANGED <<jobQ, marked, threadQ, tpc, tobj>>
        /\ \A q \in Callers : q # p => ppc'[q] = ppc[q] /\ pobj'[q] = pobj[q]
    BY <1>3 DEF PostCas
  <2>2. CASE o = pobj[p] /\ processing[o] = TRUE
    <3>1. processing'[o] = processing[o]
      BY <2>1, <2>2
    <3>2. HasToken(o) => HasToken(o)'
      <4>1. QueuedSomewhere(o) => QueuedSomewhere(o)'
        BY <2>1 DEF QueuedSomewhere
      <4>2. HeldByWorker(o) => HeldByWorker(o)'
        BY <2>1 DEF HeldByWorker, WorkerHolds
      <4>3. HeldByCaller(o) => HeldByCaller(o)'
        BY <2>1 DEF HeldByCaller, CallerHolds
      <4>4. QED
        BY <4>1, <4>2, <4>3 DEF HasToken
    <3>3. QED
      BY <1>0, <2>1, <2>2, <3>1, <3>2 DEF WakeAt
  <2>3. CASE o = pobj[p] /\ processing[o] = FALSE
    <3>1. ppc'[p] = "schedule" /\ pobj'[p] = o
      BY <1>3, <2>3 DEF PostCas
    <3>2. HasToken(o)'
      BY <3>1 DEF HasToken, HeldByCaller, CallerHolds
    <3>3. processing'[o] = TRUE
      BY <2>1, <2>3
    <3>4. QED
      BY <3>2, <3>3 DEF WakeAt
  <2>4. CASE o # pobj[p]
    <3>1. Kept(o)
      BY <2>1, <2>4, SameQueues DEF Kept
    <3>2. QED
      BY <1>0, <3>1, WakeFrame
  <2>5. QED
    BY <2>2, <2>3, <2>4
<1>4. ASSUME NEW p \in Callers, PostSchedule(p) PROVE WakeAt(o)'
  <2>1. PICK x \in Objects : x = pobj[p]
    BY <1>4 DEF PostSchedule
  <2>2. /\ ppc[p] = "schedule" /\ processing[x] = TRUE
        /\ UNCHANGED <<jobQ, processing, marked, tpc, tobj>>
        /\ \A q \in Callers : q # p => ppc'[q] = ppc[q] /\ pobj'[q] = pobj[q]
    BY <1>4, <2>1 DEF PostSchedule, TokenInv, CallerTokens
  <2>3. /\ \A t \in JobThreads : \A i \in DOMAIN threadQ[t] :
              threadQ[t][i] = o => QueuedSomewhere(o)'
        /\ QueuedSomewhere(x)'
    <3>1. threadQ' = [threadQ EXCEPT ![jobThread[x]] = Append(@, x)]
      BY <1>4, <2>1 DEF PostSchedule
    <3>2. QED
      BY <3>1, GrownQueues
  <2>4. CASE o = x
    BY <2>2, <2>3, <2>4 DEF WakeAt, HasToken
  <2>5. CASE o # x
    <3>1. Kept(o)
      BY <2>1, <2>2, <2>3, <2>5 DEF Kept
    <3>2. QED
      BY <1>0, <3>1, WakeFrame
  <2>6. QED
    BY <2>4, <2>5
<1>5. ASSUME NEW p \in Callers, PostFault(p) PROVE WakeAt(o)'
  <2>1. threadQ' = threadQ
    BY <1>5 DEF PostFault
  <2>2. Kept(o)
    BY <1>5, <2>1, SameQueues DEF Kept, PostFault, Marks
  <2>3. QED
    BY <1>0, <2>2, WakeFrame
<1>6. ASSUME NEW t \in JobThreads, Start(t) PROVE WakeAt(o)'
  <2>1. threadQ' = threadQ
    BY <1>6 DEF Start, Goto, At, InJob
  <2>2. Kept(o)
    BY <1>6, <2>1, SameQueues DEF Kept, Start, Goto, At, InJob
  <2>3. QED
    BY <1>0, <2>2, WakeFrame
<1>7. ASSUME NEW t \in JobThreads, Stop(t) PROVE WakeAt(o)'
  <2>1. threadQ' = threadQ
    BY <1>7 DEF Stop, Goto, At, InJob
  <2>2. Kept(o)
    BY <1>7, <2>1, SameQueues DEF Kept, Stop, Goto, At, InJob
  <2>3. QED
    BY <1>0, <2>2, WakeFrame
<1>8. ASSUME NEW t \in JobThreads, RunCheck(t) PROVE WakeAt(o)'
  <2>1. threadQ' = threadQ
    BY <1>8 DEF RunCheck, Goto, At, InJob
  <2>2. Kept(o)
    BY <1>8, <2>1, SameQueues DEF Kept, RunCheck, Goto, At, InJob
  <2>3. QED
    BY <1>0, <2>2, WakeFrame
<1>9. ASSUME NEW t \in JobThreads, Poll(t) PROVE WakeAt(o)'
  <2>1. /\ tpc[t] = "poll"
        /\ UNCHANGED <<jobQ, processing, marked, ppc, pobj>>
        /\ \A s \in JobThreads : s # t => tpc'[s] = tpc[s] /\ tobj'[s] = tobj[s]
    BY <1>9 DEF Poll
  <2>2. CASE threadQ[t] # <<>> /\ Head(threadQ[t]) = o
    <3>1. tpc'[t] = "flush" /\ tobj'[t] = o
      BY <1>9, <2>2 DEF Poll
    <3>2. HasToken(o)'
      BY <3>1 DEF HasToken, HeldByWorker, WorkerHolds
    <3>3. processing[o] = TRUE
      <4>1. 1 \in DOMAIN threadQ[t] /\ threadQ[t][1] = o
        BY <2>2, TailPlaces
      <4>2. QED
        BY <4>1 DEF TokenInv, QueueTokens
    <3>4. QED
      BY <2>1, <3>2, <3>3 DEF WakeAt
  <2>3. CASE threadQ[t] # <<>> /\ Head(threadQ[t]) # o
    <3>1. threadQ' = [threadQ EXCEPT ![t] = Tail(@)]
      BY <1>9, <2>3 DEF Poll
    <3>2. \A s \in JobThreads : \A i \in DOMAIN threadQ[s] :
             threadQ[s][i] = o => QueuedSomewhere(o)'
      BY <2>3, <3>1, ShrunkQueues
    <3>3. Kept(o)
      BY <2>1, <3>2 DEF Kept
    <3>4. QED
      BY <1>0, <3>3, WakeFrame
  <2>4. CASE threadQ[t] = <<>>
    <3>1. threadQ' = threadQ
      BY <1>9, <2>4 DEF Poll
    <3>2. Kept(o)
      BY <2>1, <3>1, SameQueues DEF Kept
    <3>3. QED
      BY <1>0, <3>2, WakeFrame
  <2>5. QED
    BY <2>2, <2>3, <2>4
<1>10. ASSUME NEW t \in JobThreads, FlushEnter(t) PROVE WakeAt(o)'
  <2>1. threadQ' = threadQ
    BY <1>10 DEF FlushEnter, Goto, At, InJob
  <2>2. Kept(o)
    BY <1>10, <2>1, SameQueues DEF Kept, FlushEnter, Goto, At, InJob
  <2>3. QED
    BY <1>0, <2>2, WakeFrame
<1>11. ASSUME NEW t \in JobThreads, FlushFetch(t) PROVE WakeAt(o)'
  <2>1. /\ tpc[t] = "fetch"
        /\ UNCHANGED <<processing, marked, threadQ, tobj, ppc, pobj>>
        /\ \A s \in JobThreads : s # t => tpc'[s] = tpc[s]
        /\ tpc'[t] \in {"job", "release"}
    BY <1>11 DEF FlushFetch, Goto, At
  <2>2. jobQ'[o] # <<>> => jobQ[o] # <<>>
    BY <1>11 DEF FlushFetch, At
  <2>3. Kept(o)
    BY <2>1, <2>2, SameQueues DEF Kept
  <2>4. QED
    BY <1>0, <2>3, WakeFrame
<1>12. ASSUME NEW t \in JobThreads, FlushAfter(t) PROVE WakeAt(o)'
  <2>1. threadQ' = threadQ
    BY <1>12 DEF FlushAfter, Goto, At, InJob
  <2>2. Kept(o)
    BY <1>12, <2>1, SameQueues DEF Kept, FlushAfter, Goto, At, InJob
  <2>3. QED
    BY <1>0, <2>2, WakeFrame
<1>13. ASSUME NEW t \in JobThreads, FlushRelease(t) PROVE WakeAt(o)'
  <2>1. /\ tpc[t] = "release" /\ tobj[t] \in Objects
        /\ processing' = [processing EXCEPT ![tobj[t]] = FALSE]
        /\ tpc' = [tpc EXCEPT ![t] = "recount"]
        /\ UNCHANGED <<jobQ, marked, threadQ, tobj, ppc, pobj>>
    BY <1>13 DEF FlushRelease, Goto, At
  <2>2. CASE o = tobj[t]
    <3>1. processing'[o] = FALSE /\ Wakes(o)'
      BY <2>1, <2>2 DEF Wakes, TypeOK
    <3>2. QED
      BY <3>1 DEF WakeAt
  <2>3. CASE o # tobj[t]
    <3>1. Kept(o)
      BY <2>1, <2>3, SameQueues DEF Kept
    <3>2. QED
      BY <1>0, <3>1, WakeFrame
  <2>4. QED
    BY <2>2, <2>3
<1>14. ASSUME NEW t \in JobThreads, FlushRecount(t) PROVE WakeAt(o)'
  <2>1. /\ tpc[t] = "recount" /\ tobj[t] \in Objects
        /\ UNCHANGED <<jobQ, processing, marked, threadQ, tobj, ppc, pobj>>
        /\ \A s \in JobThreads : s # t => tpc'[s] = tpc[s]
    BY <1>14 DEF FlushRecount, Goto, At
  <2>2. CASE o = tobj[t] /\ jobQ[o] = <<>>
    <3>1. HasToken(o) => HasToken(o)'
      <4>1. QueuedSomewhere(o) => QueuedSomewhere(o)'
        BY <2>1 DEF QueuedSomewhere
      <4>2. HeldByWorker(o) => HeldByWorker(o)'
        BY <2>1 DEF HeldByWorker, WorkerHolds
      <4>3. HeldByCaller(o) => HeldByCaller(o)'
        BY <2>1 DEF HeldByCaller, CallerHolds
      <4>4. QED
        BY <4>1, <4>2, <4>3 DEF HasToken
    <3>2. QED
      BY <1>0, <2>1, <2>2, <3>1 DEF WakeAt
  <2>3. CASE ~(o = tobj[t] /\ jobQ[o] = <<>>)
    <3>1. o = tobj[t] => tpc'[t] = "recas"
      BY <1>14, <2>3 DEF FlushRecount, Goto
    <3>2. Kept(o)
      BY <2>1, <2>3, <3>1, SameQueues DEF Kept
    <3>3. QED
      BY <1>0, <3>2, WakeFrame
  <2>4. QED
    BY <2>2, <2>3
<1>15. ASSUME NEW t \in JobThreads, FlushRecas(t) PROVE WakeAt(o)'
  <2>1. /\ tpc[t] = "recas" /\ tobj[t] \in Objects
        /\ processing' = [processing EXCEPT ![tobj[t]] = TRUE]
        /\ UNCHANGED <<jobQ, marked, threadQ, tobj, ppc, pobj>>
        /\ \A s \in JobThreads : s # t => tpc'[s] = tpc[s]
    BY <1>15 DEF FlushRecas, Goto, At
  <2>2. CASE o = tobj[t] /\ processing[o] = TRUE
    <3>1. HasToken(o) => HasToken(o)'
      <4>1. QueuedSomewhere(o) => QueuedSomewhere(o)'
        BY <2>1 DEF QueuedSomewhere
      <4>2. HeldByWorker(o) => HeldByWorker(o)'
        BY <2>1 DEF HeldByWorker, WorkerHolds
      <4>3. HeldByCaller(o) => HeldByCaller(o)'
        BY <2>1 DEF HeldByCaller, CallerHolds
      <4>4. QED
        BY <4>1, <4>2, <4>3 DEF HasToken
    <3>2. processing'[o] = TRUE
      BY <2>1, <2>2
    <3>3. QED
      BY <1>0, <2>1, <2>2, <3>1, <3>2 DEF WakeAt
  <2>3. CASE o = tobj[t] /\ processing[o] = FALSE
    <3>1. tpc'[t] = "handoff" /\ tobj'[t] = o
      BY <1>15, <2>3 DEF FlushRecas, Goto
    <3>2. HasToken(o)'
      BY <3>1 DEF HasToken, HeldByWorker, WorkerHolds
    <3>3. processing'[o] = TRUE
      BY <2>1, <2>3
    <3>4. QED
      BY <3>2, <3>3 DEF WakeAt
  <2>4. CASE o # tobj[t]
    <3>1. Kept(o)
      BY <2>1, <2>4, SameQueues DEF Kept
    <3>2. QED
      BY <1>0, <3>1, WakeFrame
  <2>5. QED
    BY <2>2, <2>3, <2>4
<1>16. ASSUME NEW t \in JobThreads, FlushHandoff(t) PROVE WakeAt(o)'
  <2>1. PICK x \in Objects : x = tobj[t]
    BY <1>16 DEF FlushHandoff, At
  <2>2. /\ tpc[t] = "handoff" /\ processing[x] = TRUE
        /\ UNCHANGED <<jobQ, processing, marked, tobj, ppc, pobj>>
        /\ \A s \in JobThreads : s # t => tpc'[s] = tpc[s]
    BY <1>16, <2>1 DEF FlushHandoff, Goto, At, TokenInv, WorkerTokens
  <2>3. /\ \A s \in JobThreads : \A i \in DOMAIN threadQ[s] :
              threadQ[s][i] = o => QueuedSomewhere(o)'
        /\ QueuedSomewhere(x)'
    <3>1. threadQ' = [threadQ EXCEPT ![jobThread[x]] = Append(@, x)]
      BY <1>16, <2>1 DEF FlushHandoff
    <3>2. QED
      BY <3>1, GrownQueues
  <2>4. CASE o = x
    BY <2>2, <2>3, <2>4 DEF WakeAt, HasToken
  <2>5. CASE o # x
    <3>1. Kept(o)
      BY <2>1, <2>2, <2>3, <2>5 DEF Kept
    <3>2. QED
      BY <1>0, <3>1, WakeFrame
  <2>6. QED
    BY <2>4, <2>5
<1>17. ASSUME NEW t \in JobThreads, Reap(t) PROVE WakeAt(o)'
  <2>1. threadQ' = threadQ
    BY <1>17 DEF Reap, Goto, At, InJob
  <2>2. Kept(o)
    BY <1>17, <2>1, SameQueues DEF Kept, Reap, Goto, At, InJob
  <2>3. QED
    BY <1>0, <2>2, WakeFrame
<1>18. ASSUME NEW t \in JobThreads, Delete(t) PROVE WakeAt(o)'
  <2>1. /\ tpc[t] = "delete" /\ tobj[t] \in Objects /\ marked[tobj[t]] = TRUE
        /\ UNCHANGED <<processing, marked, threadQ, ppc, pobj>>
        /\ \A s \in JobThreads : s # t => tpc'[s] = tpc[s] /\ tobj'[s] = tobj[s]
        /\ o # tobj[t] => jobQ'[o] = jobQ[o]
    BY <1>18 DEF Delete, Goto, At, Marks
  <2>2. Kept(o)
    BY <2>1, SameQueues DEF Kept
  <2>3. QED
    BY <1>0, <2>2, WakeFrame
<1>19. ASSUME NEW t \in JobThreads, ThreadFault(t) PROVE WakeAt(o)'
  <2>1. threadQ' = threadQ
    BY <1>19 DEF ThreadFault, Goto, At, InJob
  <2>2. Kept(o)
    BY <1>19, <2>1, SameQueues DEF Kept, ThreadFault, Goto, At, InJob, Marks
  <2>3. QED
    BY <1>0, <2>2, WakeFrame
<1>20. ASSUME NEW t \in JobThreads, MarkForDelete(t) PROVE WakeAt(o)'
  <2>1. threadQ' = threadQ
    BY <1>20 DEF MarkForDelete, Goto, At, InJob
  <2>2. Kept(o)
    BY <1>20, <2>1, SameQueues DEF Kept, MarkForDelete, Goto, At, InJob
  <2>3. QED
    BY <1>0, <2>2, WakeFrame
<1>21. ASSUME NEW t \in JobThreads, JobReturn(t) PROVE WakeAt(o)'
  <2>1. /\ tpc[t] = "job"
        /\ tpc' = [tpc EXCEPT ![t] = "after"]
        /\ UNCHANGED <<jobQ, processing, marked, threadQ, tobj, ppc, pobj>>
    BY <1>21 DEF JobReturn, Goto
  <2>2. Kept(o)
    BY <2>1, SameQueues DEF Kept
  <2>3. QED
    BY <1>0, <2>2, WakeFrame
<1>22. ASSUME NEW t \in JobThreads, NEW new \in JobThreads, SetJobThread(t, new) PROVE WakeAt(o)'
  <2>1. threadQ' = threadQ
    BY <1>22 DEF SetJobThread
  <2>2. Kept(o)
    BY <1>22, <2>1, SameQueues DEF Kept, SetJobThread
  <2>3. QED
    BY <1>0, <2>2, WakeFrame
<1>23. CASE UNCHANGED vars
  <2>1. Kept(o)
    BY <1>23, SameQueues DEF Kept, vars
  <2>2. QED
    BY <1>0, <2>1, WakeFrame
<1>24. QED
  BY <1>1, <1>2, <1>3, <1>4, <1>5, <1>6, <1>7, <1>8, <1>9, <1>10, <1>11, <1>12,
     <1>13, <1>14, <1>15, <1>16, <1>17, <1>18, <1>19, <1>20, <1>21, <1>22, <1>23
     DEF Next, PostStep, ThreadStep, JobBody, Callers

(* No interleaving of PostJob's failed CAS with Flush's release of the     *)
(* flag leaves jobs in the queue of an unmarked object with nobody to run  *)
(* them.                                                                   *)
THEOREM WakeupNeverLost == Spec => []NoLostWakeup
<1>1. Init => Wake
  BY DEF Init, Wake, WakeAt
<1>2. SafetyInv /\ Wake /\ [Next]_vars => Wake'
  BY WakeStep
<1>3. SafetyInv /\ Wake => NoLostWakeup
  <2> SUFFICES ASSUME SafetyInv, Wake, NEW o \in Objects, jobQ[o] # <<>>, ~marked[o]
               PROVE  HasToken(o) \/ Wakes(o)
    BY DEF NoLostWakeup, Wakes
  <2>1. marked[o] = FALSE
    BY DEF SafetyInv, TypeInv, TypeOK
  <2>2. QED
    BY <2>1 DEF Wake, WakeAt
<1>4. QED
  BY <1>1, <1>2, <1>3, SafetyInvariant, PTL DEF Spec

-----------------------------------------------------------------------------
(* The job system implements Actor.  What remains to be shown is that the  *)
(* mapping of `active' is a function of the state: at most one worker is   *)
(* inside a job of an object (WorkerTokens).                               *)
InJobOf(t, o) == tpc[t] = "job" /\ tobj[t] = o

LEMMA ActiveHere ==
    ASSUME SafetyInv, NEW o \in Objects, NEW t \in JobThreads, InJobOf(t, o)
    PROVE  ActiveOn(o) = t
<1>1. \A s \in JobThreads : tpc[s] = "job" /\ tobj[s] = o => s = t
  BY DEF SafetyInv, TokenInv, WorkerTokens, WorkerHolds, TokenPcs, InJobOf
<1>2. \E s \in JobThreads : tpc[s] = "job" /\ tobj[s] = o
  BY DEF InJobOf
<1> QED
  BY <1>1, <1>2 DEF ActiveOn

LEMMA ActiveThere ==
    ASSUME SafetyInv', NEW o \in Objects, NEW t \in JobThreads, InJobOf(t, o)'
    PROVE  ActiveOn(o)' = t
<1>1. \A s \in JobThreads : tpc'[s] = "job" /\ tobj'[s] = o => s = t
  BY DEF SafetyInv, TokenInv, WorkerTokens, WorkerHolds, TokenPcs, InJobOf
<1>2. \E s \in JobThreads : tpc'[s] = "job" /\ tobj'[s] = o
  BY DEF InJobOf
<1> QED
  BY <1>1, <1>2 DEF ActiveOn

LEMMA ActiveKept ==
    ASSUME SafetyInv, SafetyInv', NEW o \in Objects,
           \A t \in JobThreads : InJobOf(t, o) <=> InJobOf(t, o)'
    PROVE  ActiveOn(o)' = ActiveOn(o)
<1>1. CASE \E t \in JobThreads : InJobOf(t, o)
  <2>1. PICK t \in JobThreads : InJobOf(t, o)
    BY <1>1
  <2>2. InJobOf(t, o)'
    BY <2>1
  <2>3. ActiveOn(o) = t
    BY <2>1, ActiveHere
  <2>4. ActiveOn(o)' = t
    BY <2>2, ActiveThere
  <2> QED
    BY <2>3, <2>4
<1>2. CASE ~\E t \in JobThreads : InJobOf(t, o)
  BY <1>2 DEF ActiveOn, InJobOf
<1> QED
  BY <1>1, <1>2

(* A step outside the jobs and the mailboxes is not seen. *)
LEMMA Unseen ==
    ASSUME SafetyInv, SafetyInv', UNCHANGED <<jobQ, jobThread, marked>>,
           \A t \in JobThreads : \A o \in Objects : InJobOf(t, o) <=> InJobOf(t, o)'
    PROVE  UNCHANGED ActorView!avars
<1>1. \A o \in Objects : ActiveOn(o)' = ActiveOn(o)
  BY ActiveKept
<1> QED
  BY <1>1 DEF ActorView!avars

LEMMA ActorInit == Init => ActorView!Init
<1> SUFFICES ASSUME Init PROVE ActorView!Init
  OBVIOUS
<1>1. \A o \in Objects : ActiveOn(o) = None
  BY DEF Init, ActiveOn
<1> QED
  BY <1>1 DEF Init, ActorView!Init

LEMMA ActorStep ==
    ASSUME SafetyInv, SafetyInv', [Next]_vars
    PROVE  [ActorView!Next]_ActorView!avars
<1>a. /\ tpc \in [JobThreads -> ThreadPcs] /\ tobj \in [JobThreads -> Objects \cup {None}]
      /\ jobQ \in [Objects -> Seq(Job)] /\ jobThread \in [Objects -> JobThreads]
      /\ marked \in [Objects -> BOOLEAN]
  BY DEF SafetyInv, TypeInv, TypeOK
<1>1. ASSUME NEW p \in Callers, PostEnqueue(p) PROVE ActorView!Next
  <2>1. PICK o \in Objects : o = pobj[p]
    BY <1>1 DEF PostEnqueue, SafetyInv, TypeInv, InHand, PostDerefs
  <2>2. PICK j : j = <<p, sent[o][p] + 1>>
    OBVIOUS
  <2>3. j \in Job
    <3>1. sent \in [Objects -> [Callers -> 0..MaxJobs]] /\ sent[o][p] < MaxJobs
      BY <1>1, <2>1 DEF PostEnqueue, SafetyInv, TypeInv, TypeOK, InHand
    <3>2. sent[o][p] + 1 \in 1..MaxJobs
      BY <3>1, ConstantsAssumption
    <3> QED
      BY <2>2, <3>2 DEF Job
  <2>4. jobQ' = [jobQ EXCEPT ![o] = Append(@, j)] /\ UNCHANGED <<jobThread, marked, tpc, tobj>>
    BY <1>1, <2>1, <2>2 DEF PostEnqueue, threadVars
  <2>5. \A x \in Objects : ActiveOn(x)' = ActiveOn(x)
    BY <2>4, ActiveKept DEF InJobOf
  <2>6. ActorView!Accept(o, j)
    BY <2>4, <2>5 DEF ActorView!Accept
  <2> QED
    BY <2>3, <2>6 DEF ActorView!Next
<1>2. ASSUME NEW t \in JobThreads, FlushFetch(t) PROVE [ActorView!Next]_ActorView!avars
  <2>1. PICK o \in Objects : o = tobj[t]
    BY <1>2 DEF FlushFetch, At, SafetyInv, TypeInv, InHand, ThreadDerefs, FlushPcs
  <2>2. tpc[t] = "fetch" /\ UNCHANGED <<tobj, jobThread, marked>>
    BY <1>2 DEF FlushFetch, At
  <2>3. CASE jobQ[o] # <<>>
    <3>1. jobQ' = [jobQ EXCEPT ![o] = Tail(@)] /\ tpc' = [tpc EXCEPT ![t] = "job"]
      BY <1>2, <2>1, <2>3 DEF FlushFetch, Goto
    <3>2. jobThread[o] = t /\ ~marked[o]
      BY <2>1, <2>2 DEF SafetyInv, TokenInv, Owner, Marks
    <3>3. \A s \in JobThreads : ~InJobOf(s, o)
      BY <2>1, <2>2 DEF SafetyInv, TokenInv, WorkerTokens, WorkerHolds, TokenPcs, InJobOf
    <3>4. ActiveOn(o) = None
      BY <3>3 DEF ActiveOn, InJobOf
    <3>5. ActiveOn(o)' = t
      BY <1>a, <2>1, <2>2, <3>1, ActiveThere DEF InJobOf
    <3>6. \A x \in Objects : x # o => ActiveOn(x)' = ActiveOn(x)
      <4>1. \A x \in Objects : x # o => \A s \in JobThreads : InJobOf(s, x) <=> InJobOf(s, x)'
        BY <1>a, <2>1, <2>2, <3>1 DEF InJobOf
      <4> QED
        BY <4>1, ActiveKept
    <3>7. ActorView!Begin(o)
      BY <2>2, <2>3, <3>1, <3>2, <3>4, <3>5, <3>6 DEF ActorView!Begin
    <3> QED
      BY <3>7 DEF ActorView!Next
  <2>4. CASE jobQ[o] = <<>>
    <3>1. UNCHANGED jobQ /\ tpc' = [tpc EXCEPT ![t] = "release"]
      BY <1>2, <2>1, <2>4 DEF FlushFetch, Goto
    <3> QED
      BY <1>a, <2>2, <3>1, Unseen DEF InJobOf
  <2> QED
    BY <2>3, <2>4
<1>3. ASSUME NEW t \in JobThreads, JobReturn(t) PROVE ActorView!Next
  <2>1. PICK o \in Objects : o = tobj[t]
    BY <1>3 DEF JobReturn, SafetyInv, TypeInv, InHand
  <2>2. tpc[t] = "job" /\ tpc' = [tpc EXCEPT ![t] = "after"] /\ UNCHANGED <<jobQ, tobj, jobThread, marked>>
    BY <1>3 DEF JobReturn, Goto, objVars
  <2>3. ActiveOn(o) = t /\ t # None
    BY <2>1, <2>2, ActiveHere, ConstantsAssumption DEF InJobOf
  <2>4. \A s \in JobThreads : InJobOf(s, o) => s = t
    BY <2>1, <2>2 DEF SafetyInv, TokenInv, WorkerTokens, WorkerHolds, TokenPcs, InJobOf
  <2>5. ActiveOn(o)' = None
    <3>1. \A s \in JobThreads : ~InJobOf(s, o)'
      BY <1>a, <2>2, <2>4 DEF InJobOf
    <3> QED
      BY <3>1 DEF ActiveOn, InJobOf
  <2>6. \A x \in Objects : x # o => ActiveOn(x)' = ActiveOn(x)
    <3>1. \A x \in Objects : x # o => \A s \in JobThreads : InJobOf(s, x) <=> InJobOf(s, x)'
      BY <1>a, <2>1, <2>2 DEF InJobOf
    <3> QED
      BY <3>1, ActiveKept
  <2>7. ActorView!Finish(o)
    BY <2>2, <2>3, <2>5, <2>6 DEF ActorView!Finish
  <2> QED
    BY <2>7 DEF ActorView!Next
<1>4. ASSUME NEW t \in JobThreads, NEW new \in JobThreads, SetJobThread(t, new) PROVE ActorView!Next
  <2>1. PICK o \in Objects : o = tobj[t]
    BY <1>4 DEF SetJobThread, InJob, At, SafetyInv, TypeInv, InHand
  <2>2. /\ tpc[t] = "job" /\ jobThread' = [jobThread EXCEPT ![o] = new]
        /\ UNCHANGED <<jobQ, tpc, tobj, marked>>
    BY <1>4, <2>1 DEF SetJobThread, InJob, At, threadVars
  <2>3. ActiveOn(o) = t /\ t # None
    BY <2>1, <2>2, ActiveHere, ConstantsAssumption DEF InJobOf
  <2>4. \A x \in Objects : ActiveOn(x)' = ActiveOn(x)
    BY <2>2, ActiveKept DEF InJobOf
  <2>5. ActorView!Move(o, new)
    BY <2>2, <2>3, <2>4 DEF ActorView!Move
  <2> QED
    BY <2>5 DEF ActorView!Next
<1>5. ASSUME NEW t \in JobThreads, MarkForDelete(t) PROVE ActorView!Next
  <2>1. PICK o \in Objects : o = tobj[t]
    BY <1>5 DEF MarkForDelete, InJob, At, SafetyInv, TypeInv, InHand
  <2>2. /\ tpc[t] = "job" /\ marked' = [marked EXCEPT ![o] = TRUE]
        /\ UNCHANGED <<jobQ, tpc, tobj, jobThread>>
    BY <1>5, <2>1 DEF MarkForDelete, InJob, At, threadVars
  <2>3. ActiveOn(o) = t /\ t # None
    BY <2>1, <2>2, ActiveHere, ConstantsAssumption DEF InJobOf
  <2>4. \A x \in Objects : ActiveOn(x)' = ActiveOn(x)
    BY <2>2, ActiveKept DEF InJobOf
  <2>5. ActorView!Condemn(o)
    BY <2>2, <2>3, <2>4 DEF ActorView!Condemn
  <2> QED
    BY <2>5 DEF ActorView!Next
<1>6. ASSUME NEW t \in JobThreads, Delete(t) PROVE ActorView!Next
  <2>1. PICK o \in Objects : o = tobj[t]
    BY <1>6 DEF Delete, At, SafetyInv, TypeInv, InHand, ThreadDerefs
  <2>2. /\ tpc[t] = "delete" /\ jobQ' = [jobQ EXCEPT ![o] = <<>>] /\ UNCHANGED <<jobThread, marked>>
        /\ tpc' = [tpc EXCEPT ![t] = "poll"] /\ tobj' = [tobj EXCEPT ![t] = None]
    BY <1>6, <2>1 DEF Delete, At, Goto
  <2>3. marked[o]
    BY <2>1, <2>2 DEF SafetyInv, Marks
  <2>4. \A x \in Objects : ActiveOn(x)' = ActiveOn(x)
    <3>1. \A x \in Objects : \A s \in JobThreads : InJobOf(s, x) <=> InJobOf(s, x)'
      BY <1>a, <2>2 DEF InJobOf
    <3> QED
      BY <3>1, ActiveKept
  <2>5. ActorView!Discard(o)
    BY <2>2, <2>3, <2>4 DEF ActorView!Discard
  <2> QED
    BY <2>5 DEF ActorView!Next
(* The rest does not touch what Actor sees. *)
<1>7. ASSUME NEW p \in Callers, NEW o \in Objects, PostJob(p, o) PROVE UNCHANGED ActorView!avars
  BY <1>7, Unseen DEF PostJob, objVars, threadVars, InJobOf
<1>8. ASSUME NEW p \in Callers, PostCas(p) \/ PostSchedule(p) \/ PostFault(p) PROVE UNCHANGED ActorView!avars
  BY <1>8, Unseen DEF PostCas, PostSchedule, PostFault, objVars, threadVars, InJobOf
<1>9. ASSUME NEW t \in JobThreads, Start(t) \/ Stop(t) \/ RunCheck(t) \/ Poll(t)
      PROVE  UNCHANGED ActorView!avars
  <2>1. UNCHANGED <<jobQ, jobThread, marked>>
    BY <1>9 DEF Start, Stop, RunCheck, Poll, objVars
  <2>2. \A s \in JobThreads : \A o \in Objects : InJobOf(s, o) <=> InJobOf(s, o)'
    BY <1>9, <1>a DEF Start, Stop, RunCheck, Poll, InJobOf
  <2> QED
    BY <2>1, <2>2, Unseen
<1>10. ASSUME NEW t \in JobThreads,
              \/ FlushEnter(t) \/ FlushAfter(t) \/ FlushRelease(t) \/ FlushRecount(t) \/ FlushRecas(t)
              \/ FlushHandoff(t) \/ ThreadFault(t)
       PROVE  UNCHANGED ActorView!avars
  <2>1. UNCHANGED <<jobQ, jobThread, marked, tobj>>
    BY <1>10 DEF FlushEnter, FlushAfter, FlushRelease, FlushRecount, FlushRecas, FlushHandoff, ThreadFault, objVars
  <2>2. PICK l : tpc' = [tpc EXCEPT ![t] = l] /\ l # "job" /\ tpc[t] # "job"
    BY <1>10 DEF FlushEnter, FlushAfter, FlushRelease, FlushRecount, FlushRecas, FlushHandoff, ThreadFault,
                 Goto, At, ThreadDerefs, FlushPcs
  <2>3. \A s \in JobThreads : \A o \in Objects : InJobOf(s, o) <=> InJobOf(s, o)'
    BY <1>a, <2>1, <2>2 DEF InJobOf
  <2> QED
    BY <2>1, <2>3, Unseen
<1>11. ASSUME NEW t \in JobThreads, Reap(t) PROVE UNCHANGED ActorView!avars
  <2>1. UNCHANGED <<jobQ, jobThread, marked>>
    BY <1>11 DEF Reap, objVars
  <2>2. \A s \in JobThreads : \A o \in Objects : InJobOf(s, o) <=> InJobOf(s, o)'
    BY <1>11, <1>a DEF Reap, Goto, At, InJobOf
  <2> QED
    BY <2>1, <2>2, Unseen
<1>12. CASE UNCHANGED vars
  BY <1>12, Unseen DEF vars, objVars, threadVars, InJobOf
<1> QED
  BY <1>1, <1>2, <1>3, <1>4, <1>5, <1>6, <1>7, <1>8, <1>9, <1>10, <1>11, <1>12
     DEF Next, PostStep, ThreadStep, JobBody, Callers

(* Seen through m_jobQueue, m_pJobThread and the worker that is inside a   *)
(* job, every behaviour of PostJob, Flush and ProcessJobObjects is one of  *)
(* Actor: for any objects, threads and callers, the jobs of one object run *)
(* one at a time, in order, on its thread, and none starts after the mark. *)
THEOREM JobSystemImplementsActor == Spec => ImplementsActor
<1>1. Init => ActorView!Init
  BY ActorInit
<1>2. SafetyInv /\ SafetyInv' /\ [Next]_vars => [ActorView!Next]_ActorView!avars
  BY ActorStep
<1> QED
  BY <1>1, <1>2, SafetyInvariant, PTL DEF Spec, ImplementsActor, ActorView!Spec
=============================================================================
