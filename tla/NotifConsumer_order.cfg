\* The order of every recipient list under Redis faults, two caching
\* consumers on one or two queues.
CONSTANTS
    c1 = c1
    c2 = c2
    q1 = q1
    q2 = q2
    r1 = r1
    r2 = r2
    Absent = Absent
    Consumers <- MCConsumers
    Queues <- MCQueues
    Receivers <- MCReceivers1
    Choices <- MCCachingChoices
    MaxMsgs = 3
    WsCap = 1
    RmqFaults = FALSE
    RedisFaults = TRUE
    MailboxFaults = FALSE
SYMMETRY MCSymmetry
INIT Init
NEXT Next
INVARIANTS
    TypeOK
    CacheInDeliveryOrder
\* Once every notification is published and handled the consumers wait in
\* consumer.next() for ever: a quiescent state of the system, not a deadlock.
CHECK_DEADLOCK FALSE
