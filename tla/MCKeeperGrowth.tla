--------------------------- MODULE MCKeeperGrowth ---------------------------
(***************************************************************************)
(* One memory that several processes share, laid over an image or not,     *)
(* grown by two of them, with deaths and keeper restarts.                  *)
(***************************************************************************)
EXTENDS Keeper

CONSTANTS g1, g2, t1, t2, m1

MCPid == {g1, g2}
MCMortal == {g1}
MCMemory == {m1}
MCToken == {t1, t2}
MCOwnerOf == [t \in MCToken |-> IF t = t1 THEN g1 ELSE None]
MCEmpty == [x \in {} |-> None]
MCOne == [m \in MCMemory |-> 1]
MCZero == [m \in MCMemory |-> 0]
MCMax == [m \in MCMemory |-> 4]
MCTwo == [m \in MCMemory |-> 2]
MCOps == [p \in MCPid |-> 1]
MCDeltas == [p \in MCPid |-> IF p = g1 THEN {2} ELSE {1}]
MCNone == [m \in MCMemory |-> None]
=============================================================================
