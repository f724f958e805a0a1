SPECIFICATION Spec
CONSTANTS
    DescBlocks = 6
    DataBlocks = 4
    MapCapacity = 1
    Oids <- MCOids
    Bodies <- MCBodies
    Roots <- MCRoots
    PoolBlocks = 32
    ChunkBlocks = 16
    Images <- FaultyImages
    MaxRuns = 3
INVARIANTS
    MountLoads
    MountSound
    SnapshotsExact
    GroupIsKept
    TwoRunsSuffice
PROPERTY AppendIsAtomic
CHECK_DEADLOCK FALSE
