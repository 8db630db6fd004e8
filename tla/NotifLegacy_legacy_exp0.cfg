\* A legacy consumer with redis_cache_exp = 0.
CONSTANTS
    c1 = c1
    c2 = c2
    q1 = q1
    q2 = q2
    r1 = r1
    r2 = r2
    Absent = Absent
    Consumers <- MCOneConsumer
    Queues <- MCOneQueue
    Receivers <- MCReceivers1
    Choices <- MCNamedChoices
    MaxMsgs = 2
    RmqFaults = FALSE
    RedisFaults = FALSE
    MailboxFaults = FALSE
SYMMETRY MCSymmetry
INIT Init
NEXT Next
INVARIANTS
    LegacyDurable
\* Once the notifications are handled the consumers wait in consumer.next()
\* for ever: a quiescent state of the system, not a deadlock.
CHECK_DEADLOCK FALSE
