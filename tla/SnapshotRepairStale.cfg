SPECIFICATION Spec
CONSTANTS
    DescBlocks = 6
    DataBlocks = 4
    MapCapacity = 1
    Oids <- MCOids
    Bodies <- MCBodies
    Roots <- MCRoots
    PoolBlocks = 32
    ChunkBlocks = 16
    Images <- QuietImages
    MaxRuns = 2
INVARIANT AppliedMeansRepaired
CHECK_DEADLOCK FALSE
