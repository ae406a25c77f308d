SPECIFICATION Spec
CONSTANTS
    p1 = p1
    p2 = p2
    p3 = p3
    Proc <- MCProc
    Mortal = {p1}
    Excl = 8
    Patience = 16
    MaxCalls <- MCAgain
    None = None
CHECK_DEADLOCK FALSE
INVARIANT SweepAlone
