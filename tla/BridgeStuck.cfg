\* Two packets to a broker that need not read them.
SPECIFICATION FairSpec
CONSTANTS
    HostCredits = 2
    GuestBuffers = 2
    QueueLimit = 1
    SocketRoom = 1
    Requests = {}
    Detachers = {}
    Workloads <- JustSends
PROPERTY LinkIsLetGo
CHECK_DEADLOCK FALSE
