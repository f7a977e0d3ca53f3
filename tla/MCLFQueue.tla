------------------------------ MODULE MCLFQueue ------------------------------
(* Model-checking instances of LFQueue. *)
EXTENDS LFQueue, TLC

CONSTANTS p1, p2, c1, c2

OneProducer  == {p1}
TwoProducers == {p1, p2}
OneConsumer  == {c1}
TwoConsumers == {c1, c2}

Sym == Permutations(Producers) \cup Permutations(Consumers)
=============================================================================
