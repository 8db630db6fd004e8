\* The tamper check and confidentiality, with RMQ and cipher faults,
\* tampering, an actor shutdown and a healthy Redis.
CONSTANTS
    p1 = p1
    p2 = p2
    c1 = c1
    c2 = c2
    k1 = k1
    k2 = k2
    NoKey = NoKey
    NoData = NoData
    Absent = Absent
    Producers <- MCProducers
    Consumers <- MCConsumers
    Keys <- MCKeys
    RedisFaults = FALSE
    RmqFaults = TRUE
    CipherFaults = TRUE
    TamperFaults = TRUE
SPECIFICATION Spec
INVARIANTS
    TypeOK
    TamperNoSink
    KeyConfidential
SYMMETRY MCSymmetry
\* Once the commands are handled the consumers wait in consumer.next() for
\* ever: a quiescent state of the system, not a deadlock.
CHECK_DEADLOCK FALSE
