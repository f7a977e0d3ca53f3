----------------------------- MODULE MCGameWorld -----------------------------
(* Model-checking instances of GameWorld: two scenes, each on a thread of  *)
(* its own.                                                                *)
EXTENDS GameWorld, FiniteSets, TLC

CONSTANTS o1, o2, a, b, ta, tb, c1, c2

OneObject  == {o1}
TwoObjects == {o1, o2}
TwoScenes  == {a, b}
TwoThreads == {ta, tb}
OneCaller  == {c1}
TwoCallers == {c1, c2}

OwnThreads == (a :> ta) @@ (b :> tb)
=============================================================================
