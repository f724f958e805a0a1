\* Packets both ways, or a request (plain or DETACH) next to a packet or a ping,
\* against every way the session ends, through a socket that holds one frame.
SPECIFICATION FairSpec
CONSTANTS
    HostCredits = 3
    GuestBuffers = 2
    QueueLimit = 2
    SocketRoom = 1
    Requests = {r1}
    Detachers = {r1}
    Workloads <- EveryLoad
INVARIANTS
    CreditsConserved
    FlowIsSound
    BlameOnlyAfterGivingUp
    DetachIsHeard
PROPERTIES
    RequestReturns
    DropReturns
CHECK_DEADLOCK FALSE
