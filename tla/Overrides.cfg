SPECIFICATION CatalogueSpec
CONSTANTS
    Hosts = {"api", "worker"}
    Refreshes <- ThreeRefreshes
    Order <- OneSource
    MaxCommit = 2
    MaxEvents = 2
    MaxRefreshes = 2
    Callers = {c1, c2}
    Specs = {a, b}
    Numbers <- SomeNumbers
    Levels = {"patch"}
    Labels = {"default", "x"}
    MaxVersions = 2
    MaxRequests = 3
    DatasetIds = {1,2,3}
    DatasetVersions = {1,2,3,4}
    Editors = {c1, c2}
    ChosenLabels = {2}
    MaxEdits = 2
    MaxDrops = 1
    ApiProbers = {c1, c2}
    Sweeps = {"s1"}
    MaxUpdates = 1
    MaxClients = 3
    MaxCreateFaults = 1
    DataJobs = {"i","k","b","p"}
    JobKind <- SomeKinds
    Items <- SomeItems
    Collections = {"c","d"}
    JobAttempts = 2
    MaxJobFaults = 2
CHECK_DEADLOCK FALSE
INVARIANT CascadeBeatsSlug
