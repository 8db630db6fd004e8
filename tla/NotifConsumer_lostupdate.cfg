\* Spec invariant 3 with one consumer and no Redis fault.
CONSTANTS
    c1 = c1
    c2 = c2
    q1 = q1
    q2 = q2
    r1 = r1
    r2 = r2
    Absent = Absent
    Consumers <- MCOneConsumer
    Queues <- MCQueues
    Receivers <- MCReceivers1
    Choices <- MCCachingChoices
    MaxMsgs = 3
    WsCap = 1
    RmqFaults = FALSE
    RedisFaults = FALSE
    MailboxFaults = FALSE
INIT Init
NEXT Next
INVARIANT
    AppendNoLoss
\* Once every notification is published and handled the consumers wait in
\* consumer.next() for ever: a quiescent state of the system, not a deadlock.
CHECK_DEADLOCK FALSE
