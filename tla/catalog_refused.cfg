SPECIFICATION Spec
CONSTANTS
    a = a
    b = b
    w1 = w1
    w2 = w2
    Chat = {a, b}
    Seed = {a}
    Mentions <- MCMentions
    Worker = {w1}
    MaxRow = 2
    MaxWaiting = 1
    SeedLimit = 1
    WalkLimit = 2
    MaxDepth = 3
    Hopeless = {}
    Chain = chain
    Nothing = nothing
PROPERTY
    PrivateIsMarked
