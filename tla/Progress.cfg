SPECIFICATION ProgressSpec
CONSTANTS
    Nodes = {"a", "b"}
    Emitters = {"a"}
    MaxOpens = 1
  Pods = {p1, p2}
  Files = {"own", "other"}
  Exported = {"own"}
  FileSpecs = {"a", "b"}
  GitPlans <- SomeGitPlans
  Tabs = {1, 2}
  Rooms = {"r"}
  Plans <- SomePlans
  MaxSockets = 5
  Pullers = {"k8s", "agents", "server", "indexer", "rules"}
  ListSizes = {0, 2, 4, 5}
  Limit = 2
  PageCap = 3
  Window = 5
  HitsCounted = 9
  MaxRules = 5
  MaxEdits = 2
  AgentCount = 3
  MaxAgents = 2
  Items <- TwoItems
  Groups = {"g", "h"}
  MaxConfigEdits = 1
  Keys = {"k", "l", "m"}
  Capacity = 2
  Unit = 3
  Refill = 1
  TicksPerSec = 2
  LruCap = 2
  DropCount = 1
  MaxWall = 4
  MaxBacks = 1
  MaxAsked = 4
  Sidecars = {"a", "b"}
  Redemptions = {1, 2}
  MaxTtl = 1
  Deadlines = {1, 9}
  MaxNow = 2
  VertexCount = 3
  Scopes <- FourScopes
  Candidates <- SomeCandidates
  MaxRows = 3
CHECK_DEADLOCK FALSE
INVARIANTS LiveSafe  RefreshSafe InputsSafe
PROPERTIES StreamEnds  StaysConnected
