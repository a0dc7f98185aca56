SPECIFICATION LiveSpec
CONSTANTS
    a = a
    b = b
    w1 = w1
    w2 = w2
    Chat = {a}
    Seed = {a}
    Mentions <- MCNoMentions
    Worker = {w1}
    MaxRow = 3
    MaxWaiting = 1
    SeedLimit = 2
    WalkLimit = 1
    MaxDepth = 0
    Hopeless = {1}
    Chain = chain
    Nothing = nothing
PROPERTIES
    GroupsAreTried
