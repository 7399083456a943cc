SPECIFICATION Spec
CONSTANTS
    Nodes <- Two
    Graphs <- Chain
    External <- NoneOf
    Streaming <- NoneOf
    Loops <- One
    Bindable <- Second
    MaxRetries = 0
    MayAbort = FALSE
    NoNode = NoNode
INVARIANT BindingWins
