CONSTANTS
    a = a
    b = b
    build = build
    inst = inst
    snap = snap
    manual = manual
    m1 = m1
    i1 = i1
    None = None
    Pid <- MCPid
    Mortal <- MCMortal
    Memory <- MCMemory
    Heap = {}
    Cell = {}
    Image <- MCImage
    Token <- MCToken
    Builds <- MCBuilds
    InstanceOf <- MCInstanceOf
    SnapOf <- MCSnapOf
    OwnerOf <- MCOwnerOf
    BuildLimit <- MCBuildLimit
    InitPages <- MCInitPages
    MaxPages <- MCMaxPages
    ImagePages <- MCImagePages
    ChunkPages <- MCChunkPages
    ImageOf <- MCImageOf
    Observable <- MCMemory
    ImageBytes <- MCImageBytes
    PageLimit = 4
    SnapLimit = 1
    Deltas <- MCDeltas
    HeapSizes = {}
    MaxArena = 1
    MaxOps <- MCOps
    MaxCrashes = 1
SPECIFICATION Spec
CHECK_DEADLOCK FALSE
INVARIANTS
    PublishedCharged
    ImageBacked
    CachesExact
