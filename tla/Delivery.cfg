SPECIFICATION DeliverySpec
CONSTANTS
    Builders = {w1, w2}
    Boards = 2
    MaxCanvases = 3
    MaxBuilderSteps = 3
    TestRuns = 3
    Hooks <- ThreeHooks
    Gates = {w1, w2}
    Fields = {"input","config","output"}
    Mutable = {"input","config"}
    Envelope = {"input","output"}
    Applies = {"input"}
    Events = {1}
    Consumers = {w1,w2}
    Hooked = {"s"}
    Replayers = {w1, w2}
    MaxAttempts = 2
    MaxBuffered = 1
    MaxEventFaults = 2
    Docs = {"x","y"}
    IngestRuns = {w1, w2}
    ChunksOf <- SomeChunks
    MaxSaves = 3
    MaxIngests = 3
    MaxIngestFaults = 1
    Pages = 3
    Runners = {w1,w2}
    BatchAttempts = 2
    MaxBatchFaults = 2
    Requesters = {w1,w2}
    Ttl = 4
    SkewMs = 3
    MintTime = 1
    TripTime = 1
    MaxMints = 3
    MaxTime = 5
    MaxTokenFaults = 2
    Nodes = {"a", "b"}
    Emitters = {"a"}
    MaxOpens = 1
    Pods = {w1, w2}
    Files = {"own", "other"}
    Exported = {"own"}
    FileSpecs = {"a", "b"}
    GitPlans <- SomeGitPlans
SYMMETRY DeliverySymmetry
CHECK_DEADLOCK FALSE
INVARIANTS  ConsoleSafe  EventsSafe  BatchSafe TokenSafe 
 
