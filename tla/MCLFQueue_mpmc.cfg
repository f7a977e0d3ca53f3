CONSTANTS
    p1 = p1  p2 = p2  c1 = c1  c2 = c2
    Producers <- TwoProducers
    Consumers <- TwoConsumers
    MaxItems = 2
SPECIFICATION Spec
SYMMETRY Sym
INVARIANTS TypeOK ChainIntact EachItemOnce CountAtRest
CHECK_DEADLOCK FALSE
