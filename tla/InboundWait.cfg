\* One thread of each kind, any two of them in a call together, one packet and
\* one credit.  The system may stop.
SPECIFICATION FairSpec
CONSTANTS
    Readers = {r1}
    Writers = {w1}
    Dialers = {d1}
    HostCreditLimit = 1
    MaxPackets = 1
    MaxCallers = 2
    MaxCancels = 1
    NoThread = NoThread
INVARIANT NothingMissed
PROPERTIES EventsReachEveryone CancelEndsTheCall
CHECK_DEADLOCK FALSE
