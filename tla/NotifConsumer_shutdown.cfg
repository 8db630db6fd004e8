\* A shutdown while a ConsumeNotif with local_spawn is still setting up its
\* channel: the future spawned into the actor context is dropped.
CONSTANTS
    c1 = c1
    c2 = c2
    q1 = q1
    q2 = q2
    r1 = r1
    r2 = r2
    Absent = Absent
    Consumers <- MCOneConsumer
    Queues <- MCQueues
    Receivers <- MCReceivers1
    Choices <- MCAllChoices
    MaxMsgs = 1
    WsCap = 1
    RmqFaults = FALSE
    RedisFaults = FALSE
    MailboxFaults = FALSE
SPECIFICATION Spec
PROPERTY
    ShutdownKeepsInFlight
\* Consumers wait in consumer.next() once the notifications are handled.
CHECK_DEADLOCK FALSE
