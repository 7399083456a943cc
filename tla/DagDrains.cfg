SPECIFICATION FairSpec
CONSTANTS
    Nodes <- Three
    Graphs <- AllDags3
    External <- One
    Streaming <- Two
    Loops <- One
    Bindable <- Second
    MaxRetries = 1
    MayAbort = FALSE
    NoNode = NoNode
INVARIANT SuccessIsClean
PROPERTY Drains
