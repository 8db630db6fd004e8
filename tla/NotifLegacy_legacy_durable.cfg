\* One legacy consumer with a non-zero redis_cache_exp and a healthy Redis:
\* its inline read-modify-write loses nothing and every decoded delivery is
\* dispatched.
CONSTANTS
    c1 = c1
    c2 = c2
    q1 = q1
    q2 = q2
    r1 = r1
    r2 = r2
    Absent = Absent
    Consumers <- MCOneConsumer
    Queues <- MCQueues
    Receivers <- MCReceivers1
    Choices <- MCExpChoices
    MaxMsgs = 4
    RmqFaults = TRUE
    RedisFaults = FALSE
    MailboxFaults = TRUE
SYMMETRY MCSymmetry
INIT Init
NEXT Next
INVARIANTS
    LegacyDurable
    ListMatchesWrites
\* Once the notifications are handled the consumers wait in consumer.next()
\* for ever: a quiescent state of the system, not a deadlock.
CHECK_DEADLOCK FALSE
