CONSTANTS
    g1 = g1
    g2 = g2
    t1 = t1
    t2 = t2
    m1 = m1
    None = None
    Pid <- MCPid
    Mortal <- MCMortal
    Memory <- MCMemory
    Heap = {}
    Cell = {}
    Image = {}
    Token <- MCToken
    Builds = {}
    InstanceOf <- MCEmpty
    SnapOf <- MCEmpty
    OwnerOf <- MCOwnerOf
    BuildLimit <- MCEmpty
    InitPages <- MCOne
    MaxPages <- MCMax
    ImagePages <- MCZero
    ChunkPages <- MCTwo
    ImageOf <- MCNone
    Observable <- MCMemory
    ImageBytes <- MCEmpty
    PageLimit = 4
    SnapLimit = 0
    Deltas <- MCDeltas
    HeapSizes = {}
    MaxArena = 0
    MaxOps <- MCOps
    MaxCrashes = 0
SPECIFICATION FairSpec
CHECK_DEADLOCK FALSE
PROPERTY GrowerHeard
