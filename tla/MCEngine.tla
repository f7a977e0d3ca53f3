------------------------------- MODULE MCEngine -------------------------------
(* Model-checking instance of Engine. *)
EXTENDS Engine

CONSTANTS t1, t2, t3, n1, n2, c1, c2, c3, c4, w1, w2, h1, h2, h3, s1, s2

TwoThreads   == {t1, t2}
ThreeThreads == {t1, t2, t3}
TwoNodes     == {n1, n2}
FourChunks   == {c1, c2, c3, c4}
TwoWorkers   == {w1, w2}
ThreeHandles == {h1, h2, h3}
TwoSessions  == {s1, s2}
=============================================================================
