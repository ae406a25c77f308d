\* Two threads list the same handle; nothing changes the directory.
SPECIFICATION Spec
CONSTANTS
    World = World
    Root = Root
    A = A
    F = F
    G = G
    Out = Out
    L = L
    M = M
    S = S
    N1 = N1
    t1 = t1
    t2 = t2
    T0 = T0
    T1 = T1
    None = None
    Fd = {3, 4, 5, 6}
    Node = {World, Root, A, F, G, Out, L, M, S, N1}
    Name <- Names
    Order <- TheOrder
    Tree <- TheTree
    Top = Root
    Time = {T0, T1}
    MaxSize = 3
    Batch = 2
    Chunk = 2
    Thread = {t1, t2}
    Handle = {"root", "h1", "h2", "h3"}
    Request <- AllRequests
    Scripts <- ListScripts
    MaxPath = 4
    MaxLinks = 2
    Hdr = 2
    NameLen <- TheLen
    Swaps = {}
INVARIANTS
    NamesWhole
CHECK_DEADLOCK FALSE
