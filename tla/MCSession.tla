------------------------------ MODULE MCSession ------------------------------
(* Model-checking instances of Session. *)
EXTENDS Session, TLC

CONSTANTS s1, s2, w1, w2

OneSender  == {s1}
TwoSenders == {s1, s2}
OneWorker  == {w1}
TwoWorkers == {w1, w2}

Sym == Permutations(Senders) \cup Permutations(Workers)
=============================================================================
