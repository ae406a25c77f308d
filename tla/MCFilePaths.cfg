\* One thread resolves every path of three components over every pair of links.
SPECIFICATION Spec
CONSTANTS
    World = World
    Root = Root
    A = A
    F = F
    G = G
    Out = Out
    L = L
    M = M
    S = S
    N1 = N1
    t1 = t1
    t2 = t2
    T0 = T0
    T1 = T1
    None = None
    Fd = {3, 4, 5, 6, 7, 8}
    Node = {World, Root, A, F, G, Out, L, M, S, N1}
    Name <- Names
    Order <- TheOrder
    Tree <- AllTrees
    Top = Root
    Time = {T0, T1}
    MaxSize = 3
    Batch = 2
    Chunk = 2
    Thread = {t1}
    Handle = {"root", "h1"}
    Request <- AllRequests
    Scripts <- PathScripts
    MaxPath = 4
    MaxLinks = 2
    Hdr = 2
    NameLen <- TheLen
    Swaps <- SwapA
INVARIANTS
    Contained
    ResolvesRight
    WalkBounded
CHECK_DEADLOCK FALSE
