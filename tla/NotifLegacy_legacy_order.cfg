\* Order of the recipient list under Redis and RMQ faults, two legacy consumers.
CONSTANTS
    c1 = c1
    c2 = c2
    q1 = q1
    q2 = q2
    r1 = r1
    r2 = r2
    Absent = Absent
    Consumers <- MCConsumers
    Queues <- MCQueues
    Receivers <- MCReceivers1
    Choices <- MCAllChoices
    MaxMsgs = 3
    RmqFaults = TRUE
    RedisFaults = TRUE
    MailboxFaults = FALSE
SYMMETRY MCSymmetry
INIT Init
NEXT Next
INVARIANTS
    TypeOK
    LegacyCacheInAckOrder
\* Once the notifications are handled the consumers wait in consumer.next()
\* for ever: a quiescent state of the system, not a deadlock.
CHECK_DEADLOCK FALSE
