SPECIFICATION AnySpec
CONSTANTS
    a = a
    b = b
    w1 = w1
    w2 = w2
    Chat = {a, b}
    Seed = {a}
    Mentions <- MCMentions
    Worker = {w1, w2}
    MaxRow = 2
    MaxWaiting = 1
    SeedLimit = 1
    WalkLimit = 2
    MaxDepth = 3
    Hopeless = {}
    Chain = chain
    Nothing = nothing
INVARIANTS
    TypeOK
    CrawlRadius
    ScannedIsComplete
    WalksAreDisjoint
PROPERTIES
    ImplementsCrawl
SYMMETRY MCSymmetry
