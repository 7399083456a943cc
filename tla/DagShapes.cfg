\* Every DAG over four nodes, every choice of output node.
SPECIFICATION Spec
CONSTANTS
    Nodes <- Four
    Graphs <- AllDags4
    External <- NoneOf
    Streaming <- NoneOf
    Loops <- NoneOf
    Bindable <- NoneOf
    MaxRetries = 0
    MayAbort = TRUE
    NoNode = NoNode
INVARIANT Precedence
INVARIANT TraceExact
INVARIANT EvictionSafe
INVARIANT CauseIsReal
