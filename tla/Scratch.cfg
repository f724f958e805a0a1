CONSTANTS
    Procs = {p1, p2}
    d1 = d1
    d2 = d2
    Dirs <- MCDirs
    Nobody = nobody
    NoDir = nodir
    UnmarkedIdle = 3
    Prompt = 1
    Workloads <- MCWorkloads
SPECIFICATION FairSpec
INVARIANT SweepSparesTheLiving
PROPERTY AbandonedIsReclaimed
