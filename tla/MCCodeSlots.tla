----------------------------- MODULE MCCodeSlots -----------------------------
(* One slot that three modules contend for: two of them without a content   *)
(* hash, so that the generation is their stamp, and one with.               *)
EXTENDS CodeSlots

CONSTANTS s1, k1, k2, k3, i1, i2, i3, c1, c2, c3, p1

TheHome == [k \in Key |-> s1]
TheKeyOf == [i \in Inst |-> CASE i = i1 -> k1 [] i = i2 -> k2 [] OTHER -> k3]
TheHandles == [p \in Caller |-> {i1, i3}]
TheJobs ==
    [c \in Compiler |-> CASE c = c1 -> {i1} [] c = c2 -> {i2} [] OTHER -> {i2, i3}]
=============================================================================
