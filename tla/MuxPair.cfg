SPECIFICATION PairSpec
CONSTANTS
    SeqHalf = 16
    InitialSequence = 29
    Mss = 2
    ReceiveWindow = 2
    MaxWindow = 2
    MaxWritten = 3
    SendCapacity = 1
    NoSeq = NoSeq
    WindowUnit = 2
    DevInitial = 29
    DevCap = 2
    DevBytes = 2
    MaxLoss = 1
    Workloads <- MCWorkloads
CHECK_DEADLOCK FALSE
INVARIANTS
    SessionSound
    ContractMet
    BuffersSuffice
    OrderlyCloseIsComplete
PROPERTIES
    DownIsPipe
    UpIsPipe
    EpochNamesFlight
