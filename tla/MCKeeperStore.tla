--------------------------- MODULE MCKeeperStore ----------------------------
(***************************************************************************)
(* One process that builds an instance with an object store and two        *)
(* memories, one of them made without pages, and a manual token that may   *)
(* hold either and outlives the process.                                   *)
(***************************************************************************)
EXTENDS Keeper

CONSTANTS a, build, inst, manual, m1, m2, h1

MCPid == {a}
MCMemory == {m1, m2}
MCHeap == {h1}
MCToken == {build, inst, manual}
MCBuilds == {build}
MCInstanceOf == [t \in MCBuilds |-> inst]
MCOwnerOf == [t \in MCToken |-> IF t = manual THEN None ELSE a]
MCBuildLimit == [t \in MCBuilds |-> 2]
MCInitPages == [m \in MCMemory |-> IF m = m1 THEN 1 ELSE 0]
MCOne == [m \in MCMemory |-> 1]
MCMaxPages == [m \in MCMemory |-> 3]
MCZero == [m \in MCMemory |-> 0]
MCNone == [m \in MCMemory |-> None]
MCEmpty == [x \in {} |-> None]
MCDeltas == [p \in MCPid |-> {2}]
MCOps == [p \in MCPid |-> 1]
=============================================================================
