------------------------------ MODULE MCPrograms ------------------------------
(* Model-checking instance of Programs. *)
EXTENDS Programs

CONSTANTS u1, u2, sc1, sc2

TwoUsers  == {u1, u2}
TwoScenes == {sc1, sc2}
=============================================================================
