SPECIFICATION Spec
CONSTANTS
    Pods = {p1, p2}
    NoPod = NoPod
    LeaseTtl = 5
    RenewInterval = 1
    PollInterval = 2
    MaxRtt = 1
    MaxLag = 1
    Faults = {"error", "crash", "pause", "stop"}
SYMMETRY Symmetry
INVARIANT DelusionIsSilence
PROPERTIES OneAtATime Fenced
