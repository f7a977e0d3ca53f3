CONSTANTS
    p1 = p1  p2 = p2  c1 = c1  c2 = c2
    Producers <- TwoProducers
    Consumers <- OneConsumer
    MaxItems = 2
SPECIFICATION Spec
INVARIANT PerProducerOrder
CHECK_DEADLOCK FALSE
