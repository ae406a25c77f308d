CONSTANTS
    a = a
    build = build
    inst = inst
    manual = manual
    m1 = m1
    m2 = m2
    h1 = h1
    None = None
    Pid <- MCPid
    Mortal <- MCPid
    Memory <- MCMemory
    Heap <- MCHeap
    Cell = {}
    Image = {}
    Token <- MCToken
    Builds <- MCBuilds
    InstanceOf <- MCInstanceOf
    SnapOf <- MCEmpty
    OwnerOf <- MCOwnerOf
    BuildLimit <- MCBuildLimit
    InitPages <- MCInitPages
    MaxPages <- MCMaxPages
    ImagePages <- MCZero
    ChunkPages <- MCOne
    ImageOf <- MCNone
    Observable = {}
    ImageBytes <- MCEmpty
    PageLimit = 3
    SnapLimit = 0
    Deltas <- MCDeltas
    HeapSizes = {0, 2}
    MaxArena = 0
    MaxOps <- MCOps
    MaxCrashes = 1
SPECIFICATION Spec
CHECK_DEADLOCK FALSE
INVARIANTS
    BudgetCovers
    BudgetExact
    CeilingHolds
