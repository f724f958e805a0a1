SPECIFICATION FairSpec
CONSTANTS
    EventCapacity = 2
    CommandCapacity = 2
    Workloads <- MCWorkloads
INVARIANTS DetachedOnce SettingsAgree UiSettles ClaimIsBacked AskedIsOffered
PROPERTY QuitReturns
CHECK_DEADLOCK FALSE
