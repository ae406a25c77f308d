---------------------------- MODULE MCHeapLease -----------------------------
(* Three processes that share one object store.                            *)
EXTENDS HeapLease

CONSTANTS p1, p2, p3

MCProc == {p1, p2, p3}
MCOnce == [p \in MCProc |-> 1]
MCAgain == [p \in MCProc |-> IF p = p2 THEN 2 ELSE 1]
=============================================================================
