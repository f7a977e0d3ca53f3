----------------------------- MODULE MCJobSystem -----------------------------
(* Model-checking instances of JobSystem. *)
EXTENDS JobSystem, TLC

CONSTANTS o1, o2, t1, t2, p1, p2

OneObject    == {o1}
TwoObjects   == {o1, o2}
OneThread    == {t1}
TwoThreads   == {t1, t2}
OnePoster    == {p1}
TwoPosters   == {p1, p2}

Sym == Permutations(JobThreads) \cup Permutations(Posters)
          \cup Permutations(Objects)
=============================================================================
