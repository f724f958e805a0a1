\* Restarts and losses of the framing; ports that come round.
SPECIFICATION Spec
CONSTANTS
    Dialers = {d1, d2}
    NPorts = 2
    PacketMod = 3
    HostCredits = 2
    Versions = {"V1", "V2"}
    Workloads <- RestartAndPorts
SYMMETRY DialerSymmetry
INVARIANTS AppliedInOrder DeviceHearsEverything StrangersUnharmed
    PortsAreOwned OpenedMeansAccepted
CHECK_DEADLOCK FALSE
