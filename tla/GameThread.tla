----------------------------- MODULE GameThread -----------------------------
(***************************************************************************)
(* GameThread.cpp: the frame loop of a game thread, which drives its       *)
(* scenes at a fixed step from frames of any length, and the scenes'       *)
(* registration with it.  Time is counted in ticks; Step is                *)
(* m_fixedTimeStep.  The jobs of a frame are JobSystem's: here a job may   *)
(* only create or destroy a scene.  Scenes come and go on the thread       *)
(* itself, or while it is stopped.                                         *)
(***************************************************************************)
EXTENDS Naturals

CONSTANTS Scenes, Step,
          MaxTime, MaxFrames   \* bounds: ticks, frames

VARIABLES clock,       \* steady_clock
          running, lastFrameTime, accum,   \* m_running, m_lastFrameTime, m_fixedTimeAccum
          scenes,      \* m_scenes
          pc, todo,    \* the place in Run(), and the scenes left of a walk
          time,        \* Time::time() of the thread
          steps, frames, halted,           \* history: fixed steps, Updates, time not counted
          fixed, updates                   \* history: those each scene has got or was not there for

vars == <<clock, running, lastFrameTime, accum, scenes, pc, todo, time, steps, frames, halted, fixed, updates>>
history == <<steps, frames, halted, fixed, updates>>

Init ==
    /\ clock = 0 /\ running = FALSE /\ lastFrameTime = 0 /\ accum = 0
    /\ scenes = {} /\ pc = "stopped" /\ todo = {} /\ time = 0
    /\ steps = 0 /\ frames = 0 /\ halted = 0
    /\ fixed = [s \in Scenes |-> 0] /\ updates = [s \in Scenes |-> 0]

(* Nobody walks m_scenes. *)
Still == pc \in {"stopped", "jobs", "last"}

Tick ==
    /\ clock < MaxTime
    /\ clock' = clock + 1
    /\ UNCHANGED <<running, lastFrameTime, accum, scenes, pc, todo, time, history>>

(* GameScene's constructor and destructor. *)
AddScene(s) ==
    /\ Still /\ s \notin scenes
    /\ scenes' = scenes \union {s}
    /\ fixed' = [fixed EXCEPT ![s] = steps] /\ updates' = [updates EXCEPT ![s] = frames]
    /\ UNCHANGED <<clock, running, lastFrameTime, accum, pc, todo, time, steps, frames, halted>>

RemoveScene(s) ==
    /\ Still /\ s \in scenes
    /\ scenes' = scenes \ {s}
    /\ UNCHANGED <<clock, running, lastFrameTime, accum, pc, todo, time, history>>

(* What was accumulated before a stop stays. *)
Start ==
    /\ pc = "stopped"
    /\ running' = TRUE /\ pc' = "loop"
    /\ lastFrameTime' = clock /\ time' = 0
    /\ halted' = halted + (clock - lastFrameTime)
    /\ UNCHANGED <<clock, accum, scenes, todo, steps, frames, fixed, updates>>

Stop ==
    /\ running
    /\ running' = FALSE
    /\ UNCHANGED <<clock, lastFrameTime, accum, scenes, pc, todo, time, history>>

CalcDeltaTime == clock - lastFrameTime

(* The head of the loop, up to ProcessJobObjects. *)
BeginFrame ==
    /\ pc = "loop" /\ running /\ frames < MaxFrames
    /\ lastFrameTime' = clock
    /\ time' = time + CalcDeltaTime
    /\ accum' = accum + CalcDeltaTime
    /\ pc' = "jobs"
    /\ UNCHANGED <<clock, running, scenes, todo, history>>

EndLoop ==
    /\ pc = "loop" /\ ~running
    /\ pc' = "last"
    /\ UNCHANGED <<clock, running, lastFrameTime, accum, scenes, todo, time, history>>

(* After the last ProcessJobObjects the thread ends, and Stop has joined.  *)
Joined ==
    /\ pc = "last"
    /\ pc' = "stopped"
    /\ UNCHANGED <<clock, running, lastFrameTime, accum, scenes, todo, time, history>>

(* One fixed step is taken, however many have accumulated. *)
NextFixedStepOnce ==
    /\ pc \in {"jobs", "fixed"} /\ todo = {}
    /\ IF pc = "jobs" /\ accum >= Step
       THEN pc' = "fixed" /\ steps' = steps + 1 /\ UNCHANGED frames
       ELSE pc' = "update" /\ frames' = frames + 1 /\ UNCHANGED steps
    /\ accum' = IF pc' = "fixed" THEN accum - Step ELSE accum
    /\ todo' = scenes
    /\ UNCHANGED <<clock, running, lastFrameTime, scenes, time, halted, fixed, updates>>

(* The test of the FixedUpdate loop, at the end of ProcessJobObjects or of *)
(* a turn; the step is taken off the accumulator as the turn begins.       *)
NextFixedStep ==
    /\ pc \in {"jobs", "fixed"} /\ todo = {}
    /\ IF accum >= Step
       THEN pc' = "fixed" /\ accum' = accum - Step /\ steps' = steps + 1 /\ UNCHANGED frames
       ELSE pc' = "update" /\ frames' = frames + 1 /\ UNCHANGED <<accum, steps>>
    /\ todo' = scenes
    /\ UNCHANGED <<clock, running, lastFrameTime, scenes, time, halted, fixed, updates>>

FixedUpdate(s) ==
    /\ pc = "fixed" /\ s \in todo
    /\ todo' = todo \ {s}
    /\ fixed' = [fixed EXCEPT ![s] = @ + 1]
    /\ UNCHANGED <<clock, running, lastFrameTime, accum, scenes, pc, time, steps, frames, halted, updates>>

Update(s) ==
    /\ pc = "update" /\ s \in todo
    /\ todo' = todo \ {s}
    /\ updates' = [updates EXCEPT ![s] = @ + 1]
    /\ UNCHANGED <<clock, running, lastFrameTime, accum, scenes, pc, time, steps, frames, halted, fixed>>

(* The sleep that ends a frame, for however long. *)
EndFrame ==
    /\ pc = "update" /\ todo = {}
    /\ pc' = "loop"
    /\ UNCHANGED <<clock, running, lastFrameTime, accum, scenes, todo, time, history>>

Run ==
    \/ BeginFrame \/ NextFixedStep \/ EndFrame \/ EndLoop \/ Joined
    \/ \E s \in Scenes : FixedUpdate(s) \/ Update(s)

Next ==
    \/ Tick \/ Start \/ Stop \/ Run
    \/ \E s \in Scenes : AddScene(s) \/ RemoveScene(s)

(* The thread runs. *)
Fairness == WF_vars(Run)

Spec == Init /\ [][Next]_vars /\ Fairness

----------------------------------------------------------------------------
TypeOK ==
    /\ clock \in 0..MaxTime /\ lastFrameTime \in 0..clock /\ accum \in Nat /\ time \in 0..MaxTime
    /\ running \in BOOLEAN /\ scenes \subseteq Scenes /\ todo \subseteq scenes
    /\ pc \in {"stopped", "loop", "jobs", "fixed", "update", "last"}
    /\ steps \in Nat /\ frames \in Nat /\ halted \in Nat
    /\ fixed \in [Scenes -> Nat] /\ updates \in [Scenes -> Nat]

(* However long the frames are and however often the thread is stopped and *)
(* started, the fixed steps keep up with the time the thread has run: when *)
(* the frame updates, less than a step is owed, and no time was counted    *)
(* twice or lost but that between a last frame and the next Start.  A      *)
(* scene gets every fixed step and one Update of every frame from its      *)
(* registration on.                                                        *)
FixedUpdatesKeepTime ==
    /\ steps * Step + accum + halted = lastFrameTime
    /\ pc \in {"update", "loop", "last", "stopped"} => accum < Step
    /\ \A s \in scenes :
          /\ fixed[s] + (IF pc = "fixed" /\ s \in todo THEN 1 ELSE 0) = steps
          /\ updates[s] + (IF pc = "update" /\ s \in todo THEN 1 ELSE 0) = frames

(* A stopped thread leaves its loop, even with fixed steps still owed.     *)
StopEnds == ~running /\ pc # "stopped" ~> (pc = "stopped" \/ running)
=============================================================================
