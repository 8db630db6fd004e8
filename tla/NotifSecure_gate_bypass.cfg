\* A Redis pool error during the preload skips the key gate.
CONSTANTS
    p1 = p1
    p2 = p2
    c1 = c1
    c2 = c2
    k1 = k1
    k2 = k2
    NoKey = NoKey
    NoData = NoData
    Absent = Absent
    Producers <- MCProducers
    Consumers <- MCConsumers
    Keys <- MCKeys
    RedisFaults = TRUE
    RmqFaults = FALSE
    CipherFaults = FALSE
    TamperFaults = FALSE
SYMMETRY MCSymmetry
INIT Init
NEXT Next
INVARIANTS
    KeyMismatchNoConsume
\* Once the commands are handled the consumers wait in consumer.next() for
\* ever: a quiescent state of the system, not a deadlock.
CHECK_DEADLOCK FALSE
