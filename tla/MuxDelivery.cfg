SPECIFICATION FairDeliverySpec
CONSTANTS
    SeqHalf = 16
    InitialSequence = 29
    Mss = 2
    ReceiveWindow = 2
    MaxWindow = 3
    MaxWritten = 3
    SendCapacity = 1
    NoSeq = NoSeq
    WindowUnit = 2
    DevInitial = 29
    DevCap = 3
    DevBytes = 0
    MaxLoss = 1
    Workloads <- MCWorkloads
CHECK_DEADLOCK FALSE
INVARIANTS
    ShutdownMeansDelivered
PROPERTIES
    WriterReturns
