SPECIFICATION FairSpec
CONSTANTS
    Messages = {m1, m2, m3}
    TextMessages = {m1, m2}
    GrpcClients = TRUE
    AdapterLoops = {FALSE, TRUE}
INVARIANTS TypeOK HeldOnce NoWakeupLost
PROPERTIES MailKept AdapterServed
CHECK_DEADLOCK FALSE
