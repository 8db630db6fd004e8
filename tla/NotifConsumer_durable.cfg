\* Durable dispatch of every decoded delivery when Redis does not fail,
\* under RMQ and mailbox faults, every ConsumeNotif input and a shutdown.
CONSTANTS
    c1 = c1
    c2 = c2
    q1 = q1
    q2 = q2
    r1 = r1
    r2 = r2
    Absent = Absent
    Consumers <- MCConsumers
    Queues <- MCQueues
    Receivers <- MCReceivers1
    Choices <- MCAllChoices
    MaxMsgs = 2
    WsCap = 1
    RmqFaults = TRUE
    RedisFaults = FALSE
    MailboxFaults = TRUE
SYMMETRY MCSymmetry
INIT Init
NEXT Next
INVARIANTS
    DurableAtLeastOnce
\* Once every notification is published and handled the consumers wait in
\* consumer.next() for ever: a quiescent state of the system, not a deadlock.
CHECK_DEADLOCK FALSE
