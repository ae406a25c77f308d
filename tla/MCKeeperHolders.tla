-------------------------- MODULE MCKeeperHolders ---------------------------
(***************************************************************************)
(* A process that builds an instance over a snapshot image, a second that  *)
(* owns the image and imports the memory, and the ways both let go.        *)
(***************************************************************************)
EXTENDS Keeper

CONSTANTS a, b, build, inst, snap, manual, m1, i1

MCPid == {a, b}
MCMortal == {a}
MCMemory == {m1}
MCImage == {i1}
MCToken == {build, inst, snap, manual}
MCBuilds == {build}
MCInstanceOf == [t \in MCBuilds |-> inst]
MCSnapOf == [i \in MCImage |-> snap]
MCOwnerOf == [t \in MCToken |-> CASE t \in {build, inst} -> a
                                  [] t = snap -> b
                                  [] t = manual -> None]
MCBuildLimit == [t \in MCBuilds |-> 2]
MCInitPages == [m \in MCMemory |-> 1]
MCMaxPages == [m \in MCMemory |-> 3]
MCImagePages == [m \in MCMemory |-> 1]
MCChunkPages == [m \in MCMemory |-> 1]
MCImageOf == [m \in MCMemory |-> i1]
MCImageBytes == [i \in MCImage |-> 1]
MCDeltas == [p \in MCPid |-> {1}]
MCOps == [p \in MCPid |-> 1]
=============================================================================
