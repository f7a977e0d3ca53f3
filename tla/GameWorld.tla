------------------------------ MODULE GameWorld ------------------------------
(***************************************************************************)
(* Game objects, scenes and the object manager: JunCore/logic/GameObject,  *)
(* GameScene and GameObjectManager, on top of the job system.              *)
(*                                                                         *)
(* Every object is an actor (module Actor, which JobSystem implements):    *)
(* all it does to itself, to its scene and to the manager happens in its   *)
(* jobs.  A scene keeps a plain vector of its objects, which its own       *)
(* GameThread walks each frame; the manager keeps a map from serial        *)
(* numbers to objects, and is itself an actor, on the core thread, that    *)
(* never moves and is never deleted.  Serial numbers are unique, so an     *)
(* object stands for its number.                                           *)
(***************************************************************************)
EXTENDS Naturals, Sequences

CONSTANTS Objects, Scenes, GameThreads,
          SceneThread,  \* GameScene::m_pGameThread, fixed at construction
          Callers,      \* threads that use the objects: IOCP workers, other jobs
          None,         \* nullptr
          MaxCalls,     \* bound: calls made on objects in all
          TakeTurns     \* whether callers move an object one at a time, and
                        \* never to the scene it is in

ASSUME WorldAssumption ==
    /\ SceneThread \in [Scenes -> GameThreads]
    /\ None \notin Objects \cup Scenes \cup GameThreads
    /\ MaxCalls \in Nat
    /\ TakeTurns \in BOOLEAN

(* The lambdas that are posted to an object, with the scene they capture.  *)
(* "leave" and "enter" are the two jobs of MoveToScene; "done" marks a job *)
(* whose body is over.                                                     *)
Job == [kind : {"enter", "leave"}, to : Scenes]
         \cup [kind : {"exit", "destroy", "user", "done"}, to : {None}]
NoJob == [kind |-> "none", to |-> None]
Enter(s)  == [kind |-> "enter", to |-> s]
Leave(s)  == [kind |-> "leave", to |-> s]
Plain(k)  == [kind |-> k, to |-> None]

(* The manager's own jobs. *)
ManagerJob == [kind : {"register", "unregister", "postTo"}, obj : Objects]
ForManager(k, o) == [kind |-> k, obj |-> o]

VARIABLES
    mailbox, home, active, condemned,  \* the actors: see Actor
    doing,      \* the job an object is running
    freed,      \* the object has been deleted
    created,    \* Create has returned the object
    scene,      \* GameObject::m_pScene
    members,    \* GameScene::m_objects
    registry,   \* GameObjectManager::m_objects
    managerQ,   \* the manager's job queue
    moving,     \* a caller between the two PostJobs of MoveToScene
    calls

actorVars == <<mailbox, home, active, condemned>>
worldVars == <<scene, members, registry, managerQ>>
vars == <<actorVars, doing, freed, created, worldVars, moving, calls>>

Actors == INSTANCE Actor WITH Threads <- GameThreads, Jobs <- Job, Nobody <- None

TypeOK ==
    /\ mailbox \in [Objects -> Seq(Job)]
    /\ home \in [Objects -> GameThreads]
    /\ active \in [Objects -> GameThreads \cup {None}]
    /\ condemned \in [Objects -> BOOLEAN]
    /\ doing \in [Objects -> Job \cup {NoJob}]
    /\ freed \in [Objects -> BOOLEAN]
    /\ created \in [Objects -> BOOLEAN]
    /\ scene \in [Objects -> Scenes \cup {None}]
    /\ members \in [Scenes -> Seq(Objects)]
    /\ registry \subseteq Objects
    /\ managerQ \in Seq(ManagerJob)
    /\ moving \in [Callers -> (Objects \X Scenes) \cup {None}]
    /\ calls \in 0..MaxCalls

(* The constructor of GameObject: m_pScene is set, and the scene's thread  *)
(* becomes the object's, before the object has entered the scene.          *)
Init ==
    /\ scene \in [Objects -> Scenes]
    /\ home = [o \in Objects |-> SceneThread[scene[o]]]
    /\ Actors!Init
    /\ doing = [o \in Objects |-> NoJob]
    /\ freed = [o \in Objects |-> FALSE]
    /\ created = [o \in Objects |-> FALSE]
    /\ members = [s \in Scenes |-> <<>>]
    /\ registry = {}
    /\ managerQ = <<>>
    /\ moving = [c \in Callers |-> None]
    /\ calls = 0

-----------------------------------------------------------------------------
(* Calls.  PostJob refuses a marked object. *)

PostJob(o, j) ==
    \/ ~condemned[o] /\ Actors!Accept(o, j)
    \/ condemned[o] /\ UNCHANGED actorVars

(* GameObjectManager::Create *)
Create(o) ==
    /\ ~created[o]
    /\ created' = [created EXCEPT ![o] = TRUE]
    /\ PostJob(o, Enter(scene[o]))
    /\ UNCHANGED <<doing, freed, worldVars, moving, calls>>

(* A caller with a valid pointer, free to call. *)
MayCall(c, o) ==
    /\ moving[c] = None
    /\ created[o]
    /\ ~freed[o]
    /\ calls < MaxCalls
    /\ calls' = calls + 1

(* The contract under which callers take turns: no move of the object is   *)
(* under way.                                                              *)
Settled(o) ==
    /\ \A i \in DOMAIN mailbox[o] : mailbox[o][i].kind \notin {"enter", "leave"}
    /\ doing[o].kind \notin {"enter", "leave"}
    /\ \A c \in Callers : moving[c] \notin {o} \X Scenes

MoveToScene(c, o, s) ==
    /\ MayCall(c, o)
    /\ TakeTurns => Settled(o) /\ scene[o] # s
    /\ PostJob(o, Leave(s))
    /\ moving' = [moving EXCEPT ![c] = <<o, s>>]
    /\ UNCHANGED <<doing, freed, created, worldVars>>

(* The second PostJob of MoveToScene, on a pointer that may be stale.      *)
MoveToSceneEnter(c) ==
    /\ moving[c] # None
    /\ \/ ~freed[moving[c][1]] /\ PostJob(moving[c][1], Enter(moving[c][2]))
       \/ freed[moving[c][1]] /\ UNCHANGED actorVars
    /\ moving' = [moving EXCEPT ![c] = None]
    /\ UNCHANGED <<doing, freed, created, worldVars, calls>>

ExitScene(c, o) ==
    /\ MayCall(c, o)
    /\ PostJob(o, Plain("exit"))
    /\ UNCHANGED <<doing, freed, created, worldVars, moving>>

Destroy(c, o) ==
    /\ MayCall(c, o)
    /\ PostJob(o, Plain("destroy"))
    /\ UNCHANGED <<doing, freed, created, worldVars, moving>>

(* PostTo needs no pointer, only the number: it may come too late. *)
PostTo(c, o) ==
    /\ moving[c] = None
    /\ calls < MaxCalls
    /\ calls' = calls + 1
    /\ managerQ' = Append(managerQ, ForManager("postTo", o))
    /\ UNCHANGED <<actorVars, doing, freed, created, scene, members, registry, moving>>

-----------------------------------------------------------------------------
(* Jobs.  A GameThread runs one job at a time. *)

Begin(o) ==
    /\ \A x \in Objects : active[x] # home[o]
    /\ ~freed[o]
    /\ Actors!Begin(o)
    /\ doing' = [doing EXCEPT ![o] = Head(mailbox[o])]
    /\ UNCHANGED <<freed, created, worldVars, moving, calls>>

Doing(o, k) == doing[o].kind = k

BodyOver(o) == doing' = [doing EXCEPT ![o] = Plain("done")]

(* GameScene::Exit on the object's scene, if it has one: m_pScene is       *)
(* cleared, and the first entry of the object is erased from the vector.   *)
WithoutFirst(seq, o) ==
    LET at == {i \in DOMAIN seq : seq[i] = o}
        k  == CHOOSE i \in at : \A j \in at : i <= j
    IN  IF at = {} THEN seq
        ELSE SubSeq(seq, 1, k - 1) \o SubSeq(seq, k + 1, Len(seq))

(* Mutant: m_pScene is cleared before the scene it names is looked up. *)
ExitClearsFirst(o) ==
    /\ scene' = [scene EXCEPT ![o] = None]
    /\ UNCHANGED members

Exit(o) ==
    /\ scene' = [scene EXCEPT ![o] = None]
    /\ members' = [s \in Scenes |->
                     IF s = scene[o] THEN WithoutFirst(members[s], o) ELSE members[s]]

(* GameScene::Enter, which registers the object with the manager last.     *)
RunEnter(o) ==
    LET s == doing[o].to IN
    /\ Doing(o, "enter")
    /\ members' = [members EXCEPT ![s] = Append(@, o)]
    /\ scene' = [scene EXCEPT ![o] = s]
    /\ managerQ' = Append(managerQ, ForManager("register", o))
    /\ BodyOver(o)
    /\ UNCHANGED <<actorVars, freed, created, registry, moving, calls>>

(* Mutant: the object changes scenes but stays on its thread. *)
RunLeaveStays(o) ==
    /\ Doing(o, "leave")
    /\ Exit(o)
    /\ BodyOver(o)
    /\ UNCHANGED <<actorVars, freed, created, registry, managerQ, moving, calls>>

(* Mutant: the new thread is taken from m_pScene, which Exit has cleared. *)
RunLeaveNowhere(o) ==
    /\ Doing(o, "leave")
    /\ Exit(o)
    /\ Actors!Move(o, None)
    /\ BodyOver(o)
    /\ UNCHANGED <<freed, created, registry, managerQ, moving, calls>>

(* The first job of MoveToScene: nothing to do in the same scene, else     *)
(* exit and change the thread.                                             *)
RunLeave(o) ==
    LET s == doing[o].to IN
    /\ Doing(o, "leave")
    /\ \/ /\ scene[o] = s
          /\ UNCHANGED <<actorVars, scene, members>>
       \/ /\ scene[o] # s
          /\ Exit(o)
          /\ Actors!Move(o, SceneThread[s])
    /\ BodyOver(o)
    /\ UNCHANGED <<freed, created, registry, managerQ, moving, calls>>

RunExit(o) ==
    /\ Doing(o, "exit")
    /\ Exit(o)
    /\ BodyOver(o)
    /\ UNCHANGED <<actorVars, freed, created, registry, managerQ, moving, calls>>

(* Mutants: the manager is not told; the mark is forgotten. *)
RunDestroyUntold(o) ==
    /\ Doing(o, "destroy")
    /\ Exit(o)
    /\ Actors!Condemn(o)
    /\ BodyOver(o)
    /\ UNCHANGED <<freed, created, registry, managerQ, moving, calls>>

RunDestroyUnmarked(o) ==
    /\ Doing(o, "destroy")
    /\ Exit(o)
    /\ managerQ' = Append(managerQ, ForManager("unregister", o))
    /\ BodyOver(o)
    /\ UNCHANGED <<actorVars, freed, created, registry, moving, calls>>

(* The job of Destroy: exit, unregister, mark for deletion. *)
RunDestroy(o) ==
    /\ Doing(o, "destroy")
    /\ Exit(o)
    /\ managerQ' = Append(managerQ, ForManager("unregister", o))
    /\ Actors!Condemn(o)
    /\ BodyOver(o)
    /\ UNCHANGED <<freed, created, registry, moving, calls>>

(* A job that came through PostTo: application code. *)
RunUser(o) ==
    /\ Doing(o, "user")
    /\ BodyOver(o)
    /\ UNCHANGED <<actorVars, freed, created, worldVars, moving, calls>>

Return(o) ==
    /\ Doing(o, "done")
    /\ Actors!Finish(o)
    /\ doing' = [doing EXCEPT ![o] = NoJob]
    /\ UNCHANGED <<freed, created, worldVars, moving, calls>>

(* The worker deletes a marked object; the jobs that are left are dropped. *)
Delete(o) ==
    /\ condemned[o]
    /\ active[o] = None
    /\ ~freed[o]
    /\ freed' = [freed EXCEPT ![o] = TRUE]
    /\ Actors!Discard(o)
    /\ UNCHANGED <<doing, created, worldVars, moving, calls>>

(* The manager runs its next job.  PostTo looks the object up and posts to *)
(* it; on an object that is gone the post is undefined, here nothing.      *)
ManagerRun ==
    LET j == Head(managerQ) IN
    /\ managerQ # <<>>
    /\ managerQ' = Tail(managerQ)
    /\ registry' = CASE j.kind = "register" -> registry \cup {j.obj}
                     [] j.kind = "unregister" -> registry \ {j.obj}
                     [] j.kind = "postTo" -> registry
    /\ \/ /\ j.kind = "postTo" /\ j.obj \in registry /\ ~freed[j.obj]
          /\ PostJob(j.obj, Plain("user"))
       \/ /\ ~(j.kind = "postTo" /\ j.obj \in registry /\ ~freed[j.obj])
          /\ UNCHANGED actorVars
    /\ UNCHANGED <<doing, freed, created, scene, members, moving, calls>>

-----------------------------------------------------------------------------
ObjectStep(o) ==
    \/ Begin(o) \/ RunEnter(o) \/ RunLeave(o) \/ RunExit(o) \/ RunDestroy(o)
    \/ RunUser(o) \/ Return(o) \/ Delete(o)

Call(c) ==
    \E o \in Objects :
       \/ \E s \in Scenes : MoveToScene(c, o, s)
       \/ ExitScene(c, o) \/ Destroy(c, o) \/ PostTo(c, o)

Next ==
    \/ \E o \in Objects : Create(o) \/ ObjectStep(o)
    \/ \E c \in Callers : Call(c) \/ MoveToSceneEnter(c)
    \/ ManagerRun

Spec == Init /\ [][Next]_vars

(* Fairness: the threads run their jobs (JobProgress of JobSystem), and    *)
(* a caller inside MoveToScene goes on.  Strong fairness of an object: its *)
(* thread takes objects from its queue in turn.                            *)
Fairness ==
    /\ \A o \in Objects : SF_vars(ObjectStep(o))
    /\ \A c \in Callers : WF_vars(MoveToSceneEnter(c))
    /\ WF_vars(ManagerRun)

FairSpec == Spec /\ Fairness

-----------------------------------------------------------------------------
Elems(seq) == {seq[i] : i \in DOMAIN seq}

(* The scene whose vector the running job of an object reads or changes.   *)
Touches(o) ==
    CASE doing[o].kind = "enter" -> doing[o].to
      [] doing[o].kind = "leave" /\ scene[o] # doing[o].to -> scene[o]
      [] doing[o].kind \in {"exit", "destroy"} -> scene[o]
      [] OTHER -> None

(* A scene's vector has no lock: Enter and Exit run on the thread that     *)
(* walks it, also for the second job of MoveToScene after the object has   *)
(* changed threads.                                                        *)
ScenesOnOwnThread ==
    \A o \in Objects : Touches(o) # None => active[o] = SceneThread[Touches(o)]

(* An object is in at most one vector, once, and then m_pScene is that     *)
(* scene; and a frame of the scene never meets a deleted object.           *)
OneSceneAtATime ==
    \A s \in Scenes : \A i \in DOMAIN members[s] :
       LET o == members[s][i] IN
       /\ scene[o] = s
       /\ ~freed[o]
       /\ \A j \in DOMAIN members[s] : members[s][j] = o => i = j

(* m_pScene is right about an object that has entered: while the manager   *)
(* knows the object, the scene it names has it in its vector, so that Exit *)
(* finds it there.                                                         *)
SceneKnowsObject ==
    \A o \in registry : scene[o] # None => o \in Elems(members[scene[o]])

(* Scenes and objects agree: no object is in two vectors, twice in one, in *)
(* one after its deletion, or in none while it names a scene.              *)
ScenesAgree == OneSceneAtATime /\ SceneKnowsObject

(* The manager forgets every deleted object: while one is still in the     *)
(* map, or about to be put there, its Unregister is queued behind.         *)
ManagerForgets ==
    \A o \in Objects : freed[o] =>
       /\ o \in registry =>
             \E i \in DOMAIN managerQ : managerQ[i] = ForManager("unregister", o)
       /\ \A i \in DOMAIN managerQ : managerQ[i] = ForManager("register", o) =>
             \E k \in DOMAIN managerQ : k > i /\ managerQ[k] = ForManager("unregister", o)

(* PostTo, looking an object up by number, finds a live object or none.    *)
PostToFindsLiveObject ==
    managerQ # <<>> /\ Head(managerQ).kind = "postTo" /\ Head(managerQ).obj \in registry
       => ~freed[Head(managerQ).obj]

(* An object whose Destroy has been accepted is deleted in the end, and    *)
(* the manager forgets it.                                                 *)
DestroyedObjectsGo ==
    \A o \in Objects :
       Plain("destroy") \in Elems(mailbox[o]) ~> freed[o] /\ o \notin registry
=============================================================================
