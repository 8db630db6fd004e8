\* A matching consumer and two notifications under one key.
CONSTANTS
    p1 = p1
    p2 = p2
    c1 = c1
    c2 = c2
    k1 = k1
    k2 = k2
    NoKey = NoKey
    NoData = NoData
    Absent = Absent
    Producers <- MCProducers
    Consumers <- MCOneConsumer
    Keys <- MCKeys
    RedisFaults = FALSE
    RmqFaults = FALSE
    CipherFaults = FALSE
    TamperFaults = FALSE
SYMMETRY MCSymmetry
INIT Init
NEXT Next
INVARIANTS
    MatchingKeyDelivered
\* Once the commands are handled the consumers wait in consumer.next() for
\* ever: a quiescent state of the system, not a deadlock.
CHECK_DEADLOCK FALSE
