SPECIFICATION FairSpec
CONSTANTS
    Pods = {p1, p2}
    NoPod = NoPod
    LeaseTtl = 5
    RenewInterval = 1
    PollInterval = 2
    MaxRtt = 1
    MaxLag = 1
    Faults = {"error", "crash", "failover", "pause"}
PROPERTY Reelected
