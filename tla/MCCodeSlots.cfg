\* Three compilers and a caller share one slot; the manager may restart once.
SPECIFICATION Spec
CONSTANTS
    s1 = s1
    k1 = k1
    k2 = k2
    k3 = k3
    i1 = i1
    i2 = i2
    i3 = i3
    c1 = c1
    c2 = c2
    c3 = c3
    p1 = p1
    Slot = {s1}
    Key = {k1, k2, k3}
    Hashed = {k3}
    Home <- TheHome
    Inst = {i1, i2, i3}
    KeyOf <- TheKeyOf
    Compiler = {c1, c2, c3}
    Jobs <- TheJobs
    Caller = {p1}
    Handles <- TheHandles
    Doomed = {i1}
    Mortal = {c1, p1}
    Excl = 8
    Words = 1
    Budget = 1
    MaxRestarts = 1
    None = None
INVARIANTS
    TypeOK
    RightCode
    LoadKillsNobody
    ResidentLoaded
    HoldersWatched
CHECK_DEADLOCK FALSE
