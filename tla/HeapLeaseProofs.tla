-------------------------- MODULE HeapLeaseProofs ---------------------------
(***************************************************************************)
(* The leases of the object store, for every number of processes, calls    *)
(* and kills, up to the first repair of the word.                          *)
(***************************************************************************)
EXTENDS HeapLease, SumProofs, FiniteSetTheorems, TLAPS

Types ==
    /\ request \in {0, 1}
    /\ row \in [Proc -> Nat]
    /\ mark \in (Proc \X {0, 1}) \cup {None}
    /\ pc \in [Proc -> Label]
    /\ alive \subseteq Proc
    /\ held \in [Proc -> {0, 1}]
    /\ obs \in [Proc -> (Proc \X {0, 1}) \cup {None}]
    /\ taken \in [Proc -> Nat]
    /\ seen = [p \in Proc |-> seen[p]]
    /\ repaired \in BOOLEAN

\* A row leads its count, and stays until the count is gone.
Rowed ==
    \A p \in alive :
        Counts(p) \/ pc[p] \in {"count", "lookup", "reclaim", "forget"} => row[p] > 0

\* One process at most has the store, and nobody else is inside.
OneHolder == ~repaired => \A p, q \in Holders : p = q
NoneInside == ~repaired => \A p \in Holders, q \in Proc : Inside(q) => q = p

\* A mark that still names a collector says what that one holds.
MarkTrue ==
    mark # None /\ pc[mark[1]] \in {"exchange"} \cup Sweeping =>
        mark[2] = held[mark[1]]

\* Nothing is repaired before somebody is killed.
Unharmed ==
    alive = Proc =>
        /\ ~repaired
        /\ \A p \in Proc : taken[p] = 0 /\ pc[p] \notin {"recount", "sum", "settle"}
Observed == \A p \in Proc : pc[p] = "reclaim" => obs[p] # None

\* The processes that will still look for a request, or answer it.
Minds(p) ==
    \/ pc[p] \in Entering \cup {"last", "mark", "exchange", "sweep"}
    \/ Inside(p)
    \/ pc[p] = "forget" /\ seen[p] = 0
Pending ==
    alive = Proc /\ request = 1 =>
        /\ \E p \in Proc : Minds(p)
        /\ \A p \in Proc : pc[p] # "release"

Inv ==
    /\ Types /\ Rowed /\ OneHolder /\ NoneInside /\ CountExact /\ MarkTrue
    /\ Unharmed /\ Observed /\ Pending
-----------------------------------------------------------------------------
\* Counts and holders are finite, and at most one holds.
LEMMA Bounds ==
    ASSUME Types, OneHolder, ~repaired
    PROVE  /\ IsFiniteSet(Counted) /\ IsFiniteSet(Holders)
           /\ Cardinality(Counted) \in Nat /\ Cardinality(Counted) < Excl
           /\ \/ Holders = {} /\ Cardinality(Holders) = 0
              \/ \E h \in Proc : Holders = {h} /\ Cardinality(Holders) = 1
<1>1. IsFiniteSet(Counted) /\ IsFiniteSet(Holders)
      /\ Cardinality(Counted) <= Cardinality(Proc)
  BY FS_Subset, HeapAssumption DEF Counted, Holders
<1>2. Cardinality(Counted) \in Nat /\ Cardinality(Proc) \in Nat
  BY <1>1, FS_CardinalityType, HeapAssumption
<1>3. CASE Holders = {}
  BY <1>1, <1>2, <1>3, FS_EmptySet, HeapAssumption
<1>4. CASE Holders # {}
  <2>1. PICK h \in Proc : Holders = {h}
    BY <1>4 DEF OneHolder, Holders
  <2> QED BY <1>1, <1>2, <2>1, FS_Singleton, HeapAssumption
<1> QED BY <1>3, <1>4

\* The word has room for all of them.
LEMMA Room ==
    ASSUME NEW p \in Proc
    PROVE  Excl \in Nat /\ Excl >= 2 /\ 2 * Excl <= Excl * Excl
<1>1. Cardinality(Proc) \in Nat /\ Cardinality(Proc) # 0
  BY FS_CardinalityType, FS_EmptySet, HeapAssumption
<1>2. Excl \in Nat /\ Excl >= 2
  BY <1>1, HeapAssumption
<1> QED BY <1>2, SMT

\* Addition does not wrap around where the sum is a word.
LEMMA AddFits ==
    ASSUME NEW p \in Proc, NEW w \in Int, NEW n \in Int,
           0 <= w + n, w + n < 2 * Excl
    PROVE  Add(w, n) = w + n
<1>1. Excl * Excl \in Nat /\ w + n < Excl * Excl /\ Excl * Excl > 0
  BY Room
<1> QED BY <1>1, SMT DEF Add

-----------------------------------------------------------------------------
(* One step of one process.                                                *)
StepOf(p) == Remember(p) \/ Step(p) \/ Return(p) \/ Collect(p) \/ Kill(p)

\* Types, and what a reader that reclaims has seen.
LEMMA TypesStep ==
    ASSUME Types, Observed, NEW p \in Proc, StepOf(p)
    PROVE  Types' /\ Observed'
<1> USE DEF At, Goto, shared, locals, Types, Observed, Label, Entering, Upgrade,
    Sweeping
<1>1. CASE Remember(p)
  BY <1>1 DEF Remember
<1>2. CASE Count(p)
  BY <1>2 DEF Count
<1>3. CASE BackOut(p)
  BY <1>3 DEF BackOut
<1>4. CASE LookUp(p)
  BY <1>4 DEF LookUp
<1>5. CASE Reclaim(p)
  BY <1>5 DEF Reclaim
<1>6. CASE Mark(p)
  BY <1>6 DEF Mark, MarkOf
<1>7. CASE Exchange(p)
  BY <1>7 DEF Exchange, Alone
<1>8. CASE Retreat(p)
  BY <1>8 DEF Retreat, Unmarked
<1>9. CASE Request(p)
  BY <1>9 DEF Request
<1>10. CASE Swept(p)
  BY <1>10 DEF Swept
<1>11. CASE Release(p)
  BY <1>11 DEF Release
<1>12. CASE Unmark(p)
  BY <1>12 DEF Unmark, Unmarked
<1>13. CASE Leave(p)
  BY <1>13 DEF Leave
<1>14. CASE Forget(p)
  <2>1. seen' = [x \in Proc |-> seen'[x]]
    BY <1>14 DEF Forget, Types
  <2>2. /\ row' \in [Proc -> Nat] /\ pc' \in [Proc -> Label] /\ Observed'
        /\ UNCHANGED <<request, mark, alive, held, obs, taken, repaired>>
    BY <1>14 DEF Forget, At, Goto, Types, Observed, Label, Entering
  <2> QED BY <2>1, <2>2 DEF Types
<1>15. CASE LastOut(p)
  BY <1>15 DEF LastOut
<1>16. CASE StillInside(p)
  BY <1>16 DEF StillInside
<1>17. CASE Select(p)
  BY <1>17 DEF Select
<1>18. ASSUME NEW q \in Proc, Take(p, q) PROVE Types' /\ Observed'
  BY <1>18 DEF Take, Dead
<1>19. CASE Taken(p)
  BY <1>19 DEF Taken
<1>20. CASE Recount(p)
  BY <1>20 DEF Recount
<1>21. CASE LiveReaders(p)
  BY <1>21 DEF LiveReaders
<1>22. CASE Settle(p)
  BY <1>22 DEF Settle
<1>23. CASE Return(p)
  BY <1>23 DEF Return
<1>24. CASE Collect(p)
  BY <1>24 DEF Collect
<1>25. CASE Kill(p)
  BY <1>25 DEF Kill
<1> QED BY <1>1, <1>2, <1>3, <1>4, <1>5, <1>6, <1>7, <1>8, <1>9, <1>10, <1>11, <1>12,
    <1>13, <1>14, <1>15, <1>16, <1>17, <1>18, <1>19, <1>20, <1>21, <1>22, <1>23,
    <1>24, <1>25 DEF StepOf, Step

\* Only its own process, or the reaper of a dead one, takes from a row.
LEMMA RowedStep ==
    ASSUME Types, Rowed, NEW p \in Proc, StepOf(p)
    PROVE  Rowed'
<1> USE DEF At, Goto, shared, locals, Types, Rowed, Counts, Inside, Label, Entering,
    Upgrade, Sweeping
<1>1. CASE Remember(p)
  BY <1>1 DEF Remember
<1>2. CASE Count(p)
  BY <1>2 DEF Count
<1>3. CASE BackOut(p)
  BY <1>3 DEF BackOut
<1>4. CASE LookUp(p)
  BY <1>4 DEF LookUp
<1>5. CASE Reclaim(p)
  BY <1>5 DEF Reclaim
<1>6. CASE Mark(p)
  BY <1>6 DEF Mark, MarkOf
<1>7. CASE Exchange(p)
  BY <1>7 DEF Exchange, Alone
<1>8. CASE Retreat(p)
  BY <1>8 DEF Retreat, Unmarked
<1>9. CASE Request(p)
  BY <1>9 DEF Request
<1>10. CASE Swept(p)
  BY <1>10 DEF Swept
<1>11. CASE Release(p)
  BY <1>11 DEF Release
<1>12. CASE Unmark(p)
  BY <1>12 DEF Unmark, Unmarked
<1>13. CASE Leave(p)
  BY <1>13 DEF Leave
<1>14. CASE Forget(p)
  BY <1>14 DEF Forget, IsLast
<1>15. CASE LastOut(p)
  BY <1>15 DEF LastOut
<1>16. CASE StillInside(p)
  BY <1>16 DEF StillInside
<1>17. CASE Select(p)
  BY <1>17 DEF Select
<1>18. ASSUME NEW q \in Proc, Take(p, q) PROVE Rowed'
  BY <1>18 DEF Take, Dead
<1>19. CASE Taken(p)
  BY <1>19 DEF Taken
<1>20. CASE Recount(p)
  BY <1>20 DEF Recount
<1>21. CASE LiveReaders(p)
  BY <1>21 DEF LiveReaders
<1>22. CASE Settle(p)
  BY <1>22 DEF Settle
<1>23. CASE Return(p)
  BY <1>23 DEF Return
<1>24. CASE Collect(p)
  BY <1>24 DEF Collect
<1>25. CASE Kill(p)
  BY <1>25 DEF Kill
<1> QED BY <1>1, <1>2, <1>3, <1>4, <1>5, <1>6, <1>7, <1>8, <1>9, <1>10, <1>11, <1>12,
    <1>13, <1>14, <1>15, <1>16, <1>17, <1>18, <1>19, <1>20, <1>21, <1>22, <1>23,
    <1>24, <1>25 DEF StepOf, Step

\* A mark is written by the collector it names.
LEMMA MarkStep ==
    ASSUME Types, MarkTrue, NEW p \in Proc, StepOf(p)
    PROVE  MarkTrue'
<1> USE DEF At, Goto, shared, locals, Types, MarkTrue, Label, Entering, Upgrade,
    Sweeping
<1>1. CASE Remember(p)
  BY <1>1, HeapAssumption DEF Remember
<1>2. CASE Count(p)
  BY <1>2, HeapAssumption DEF Count
<1>3. CASE BackOut(p)
  BY <1>3, HeapAssumption DEF BackOut
<1>4. CASE LookUp(p)
  BY <1>4, HeapAssumption DEF LookUp
<1>5. CASE Reclaim(p)
  BY <1>5, HeapAssumption DEF Reclaim
<1>6. CASE Mark(p)
  BY <1>6, HeapAssumption DEF Mark, MarkOf
<1>7. CASE Exchange(p)
  BY <1>7, HeapAssumption DEF Exchange, Alone
<1>8. CASE Retreat(p)
  BY <1>8, HeapAssumption DEF Retreat, Unmarked
<1>9. CASE Request(p)
  BY <1>9, HeapAssumption DEF Request
<1>10. CASE Swept(p)
  BY <1>10, HeapAssumption DEF Swept
<1>11. CASE Release(p)
  BY <1>11, HeapAssumption DEF Release
<1>12. CASE Unmark(p)
  BY <1>12, HeapAssumption DEF Unmark, Unmarked
<1>13. CASE Leave(p)
  BY <1>13, HeapAssumption DEF Leave
<1>14. CASE Forget(p)
  BY <1>14, HeapAssumption DEF Forget, IsLast
<1>15. CASE LastOut(p)
  BY <1>15, HeapAssumption DEF LastOut
<1>16. CASE StillInside(p)
  BY <1>16, HeapAssumption DEF StillInside
<1>17. CASE Select(p)
  BY <1>17, HeapAssumption DEF Select
<1>18. ASSUME NEW q \in Proc, Take(p, q) PROVE MarkTrue'
  BY <1>18, HeapAssumption DEF Take, Dead
<1>19. CASE Taken(p)
  BY <1>19, HeapAssumption DEF Taken
<1>20. CASE Recount(p)
  BY <1>20, HeapAssumption DEF Recount
<1>21. CASE LiveReaders(p)
  BY <1>21, HeapAssumption DEF LiveReaders
<1>22. CASE Settle(p)
  BY <1>22, HeapAssumption DEF Settle
<1>23. CASE Return(p)
  BY <1>23, HeapAssumption DEF Return
<1>24. CASE Collect(p)
  BY <1>24, HeapAssumption DEF Collect
<1>25. CASE Kill(p)
  BY <1>25, HeapAssumption DEF Kill
<1> QED BY <1>1, <1>2, <1>3, <1>4, <1>5, <1>6, <1>7, <1>8, <1>9, <1>10, <1>11, <1>12,
    <1>13, <1>14, <1>15, <1>16, <1>17, <1>18, <1>19, <1>20, <1>21, <1>22, <1>23,
    <1>24, <1>25 DEF StepOf, Step

\* Only what the dead left is taken or reclaimed.
LEMMA UnharmedStep ==
    ASSUME Types, Observed, Unharmed, NEW p \in Proc, StepOf(p)
    PROVE  Unharmed'
<1> USE DEF At, Goto, shared, locals, Types, Observed, Unharmed, Label, Entering,
    Upgrade, Sweeping
<1>1. CASE Remember(p)
  BY <1>1 DEF Remember
<1>2. CASE Count(p)
  BY <1>2 DEF Count
<1>3. CASE BackOut(p)
  BY <1>3 DEF BackOut
<1>4. CASE LookUp(p)
  BY <1>4 DEF LookUp
<1>5. CASE Reclaim(p)
  BY <1>5 DEF Reclaim
<1>6. CASE Mark(p)
  BY <1>6 DEF Mark, MarkOf
<1>7. CASE Exchange(p)
  BY <1>7 DEF Exchange, Alone
<1>8. CASE Retreat(p)
  BY <1>8 DEF Retreat, Unmarked
<1>9. CASE Request(p)
  BY <1>9 DEF Request
<1>10. CASE Swept(p)
  BY <1>10 DEF Swept
<1>11. CASE Release(p)
  BY <1>11 DEF Release
<1>12. CASE Unmark(p)
  BY <1>12 DEF Unmark, Unmarked
<1>13. CASE Leave(p)
  BY <1>13 DEF Leave
<1>14. CASE Forget(p)
  BY <1>14 DEF Forget, IsLast
<1>15. CASE LastOut(p)
  BY <1>15 DEF LastOut
<1>16. CASE StillInside(p)
  BY <1>16 DEF StillInside
<1>17. CASE Select(p)
  BY <1>17 DEF Select
<1>18. ASSUME NEW q \in Proc, Take(p, q) PROVE Unharmed'
  BY <1>18 DEF Take, Dead
<1>19. CASE Taken(p)
  BY <1>19 DEF Taken
<1>20. CASE Recount(p)
  BY <1>20 DEF Recount
<1>21. CASE LiveReaders(p)
  BY <1>21 DEF LiveReaders
<1>22. CASE Settle(p)
  BY <1>22 DEF Settle
<1>23. CASE Return(p)
  BY <1>23 DEF Return
<1>24. CASE Collect(p)
  BY <1>24 DEF Collect
<1>25. CASE Kill(p)
  BY <1>25 DEF Kill
<1> QED BY <1>1, <1>2, <1>3, <1>4, <1>5, <1>6, <1>7, <1>8, <1>9, <1>10, <1>11, <1>12,
    <1>13, <1>14, <1>15, <1>16, <1>17, <1>18, <1>19, <1>20, <1>21, <1>22, <1>23,
    <1>24, <1>25 DEF StepOf, Step

(* The step leaves the word, and what it stands for, as they are.          *)
Same ==
    /\ lease' = lease /\ repaired' = repaired
    /\ Counted' = Counted /\ Holders' = Holders
    /\ \A q \in Proc : Inside(q)' => Inside(q)

WordInv == OneHolder /\ NoneInside /\ CountExact

\* Then it stays exact.
LEMMA SameWord ==
    ASSUME WordInv, Same
    PROVE  WordInv'
BY DEF WordInv, Same, OneHolder, NoneInside, CountExact

\* The word is what the readers and the collector made of it.
LEMMA WordStep ==
    ASSUME Types, WordInv, NEW p \in Proc, StepOf(p)
    PROVE  WordInv'
<1>1. CASE Remember(p)
  <2>1. Same
    BY <1>1 DEF Remember, At, Goto, shared, locals, Types, Same, Counted, Counts,
        Inside, Holders, Entering, Upgrade, Sweeping
  <2> QED BY <2>1, SameWord
<1>2. CASE Count(p)
  <2>1. repaired' = repaired /\ Holders' = Holders /\ lease' = Add(lease, 1)
        /\ Counted' = Counted \cup {p} /\ p \notin Counted
        /\ \A q \in Proc : Inside(q)' => Inside(q) \/ (q = p /\ ~(lease' >= Excl))
    BY <1>2 DEF Count, At, Goto, Types, Counted, Counts, Inside, Holders, Entering,
        Upgrade, Sweeping
  <2>2. CASE repaired
    BY <2>1, <2>2 DEF WordInv, OneHolder, NoneInside, CountExact
  <2>3. CASE ~repaired
    <3>1. Cardinality(Counted') = Cardinality(Counted) + 1
      BY <2>1, <2>3, Bounds, FS_AddElement DEF WordInv
    <3>2. Cardinality(Counted') <= Cardinality(Proc) /\ Cardinality(Proc) \in Nat
      BY FS_Subset, FS_CardinalityType, HeapAssumption DEF Counted
    <3>3. lease' = lease + 1 /\ lease = Cardinality(Counted) + Excl * Cardinality(Holders)
      BY <2>1, <2>3, <3>1, <3>2, Bounds, AddFits, Room, HeapAssumption
      DEF WordInv, CountExact
    <3>4. Holders # {} => lease' >= Excl
      BY <3>3, <2>3, Bounds, Room DEF WordInv
    <3>5. OneHolder' /\ NoneInside'
      BY <2>1, <2>3, <3>4 DEF WordInv, OneHolder, NoneInside
    <3>6. CountExact'
      BY <2>1, <2>3, <3>1, <3>3, Bounds, Room DEF WordInv, CountExact
    <3> QED BY <3>5, <3>6 DEF WordInv
  <2> QED BY <2>2, <2>3
<1>3. CASE BackOut(p)
  <2>1. repaired' = repaired /\ Holders' = Holders /\ lease' = Add(lease, -1)
        /\ Counted' = Counted \ {p} /\ p \in Counted
        /\ \A q \in Proc : Inside(q)' => Inside(q)
    BY <1>3 DEF BackOut, At, Goto, Types, Counted, Counts, Inside, Holders, Entering,
        Upgrade, Sweeping
  <2>2. CASE repaired
    BY <2>1, <2>2 DEF WordInv, OneHolder, NoneInside, CountExact
  <2>3. CASE ~repaired
    <3>1. Cardinality(Counted') = Cardinality(Counted) - 1 /\ Cardinality(Counted) # 0
      BY <2>1, <2>3, Bounds, FS_RemoveElement, FS_EmptySet DEF WordInv
    <3>2. lease' = lease - 1
      BY <2>1, <2>3, <3>1, Bounds, AddFits, Room DEF WordInv, CountExact
    <3> QED BY <2>1, <2>3, <3>1, <3>2, Bounds, Room
            DEF WordInv, OneHolder, NoneInside, CountExact
  <2> QED BY <2>2, <2>3
<1>4. CASE LookUp(p)
  <2>1. Same
    BY <1>4 DEF LookUp, At, Goto, shared, locals, Types, Same, Counted, Counts,
        Inside, Holders, Entering, Upgrade, Sweeping
  <2> QED BY <2>1, SameWord
<1>5. CASE Reclaim(p)
  <2>1. CASE repaired'
    BY <2>1 DEF WordInv, OneHolder, NoneInside, CountExact
  <2>2. CASE ~repaired'
    <3>1. Same
      BY <1>5, <2>2 DEF Reclaim, At, Goto, Same, Types, Counted, Counts, Inside,
          Holders, Entering, Upgrade, Sweeping
    <3> QED BY <3>1, SameWord
  <2> QED BY <2>1, <2>2
<1>6. CASE Mark(p)
  <2>1. Same
    BY <1>6 DEF Mark, At, Goto, shared, locals, MarkOf, Types, Same, Counted, Counts,
        Inside, Holders, Entering, Upgrade, Sweeping
  <2> QED BY <2>1, SameWord
<1>7. CASE Exchange(p)
  <2>1. CASE ~Alone(p)
    <3>1. Same
      BY <1>7, <2>1 DEF Exchange, At, Goto, locals, Same, Types, Counted, Counts,
          Inside, Holders, Entering, Upgrade, Sweeping
    <3> QED BY <3>1, SameWord
  <2>2. CASE Alone(p)
    <3>1. repaired' = repaired /\ lease' = Excl + lease /\ lease = held[p]
          /\ Counted' = Counted /\ Holders' = Holders \cup {p}
          /\ (held[p] = 1 => p \in Counted)
          /\ \A q \in Proc : Inside(q)' => q \in Counted
      BY <1>7, <2>2 DEF Exchange, Alone, At, Goto, locals, Types, Counted, Counts,
          Inside, Holders, Entering, Upgrade, Sweeping
    <3>2. CASE repaired
      BY <3>1, <3>2 DEF WordInv, OneHolder, NoneInside, CountExact
    <3>3. CASE ~repaired
      <4>1. Holders = {} /\ Cardinality(Holders) = 0 /\ Cardinality(Counted) = held[p]
        BY <3>1, <3>3, Bounds, Room DEF WordInv, CountExact, Types
      <4>2. \A q \in Counted : q = p
        BY <3>1, <3>3, <4>1, Bounds, FS_EmptySet, FS_Singleton DEF WordInv, Types
      <4>3. Holders' = {p} /\ Cardinality(Holders') = 1
        BY <3>1, <4>1, FS_Singleton
      <4> QED BY <3>1, <4>1, <4>2, <4>3, Room, Bounds
              DEF WordInv, OneHolder, NoneInside, CountExact, Types
    <3> QED BY <3>2, <3>3
  <2> QED BY <2>1, <2>2
<1>8. CASE Retreat(p)
  <2>1. Same
    BY <1>8 DEF Retreat, At, Goto, shared, locals, Unmarked, Types, Same, Counted,
        Counts, Inside, Holders, Entering, Upgrade, Sweeping
  <2> QED BY <2>1, SameWord
<1>9. CASE Request(p)
  <2>1. Same
    BY <1>9 DEF Request, At, Goto, shared, locals, Types, Same, Counted, Counts,
        Inside, Holders, Entering, Upgrade, Sweeping
  <2> QED BY <2>1, SameWord
<1>10. CASE Swept(p)
  <2>1. Same
    BY <1>10 DEF Swept, At, Goto, shared, locals, Types, Same, Counted, Counts,
        Inside, Holders, Entering, Upgrade, Sweeping
  <2> QED BY <2>1, SameWord
<1>11. CASE Release(p)
  <2>1. repaired' = repaired /\ Holders' = Holders \ {p} /\ p \in Holders
        /\ Counted' = Counted /\ lease' = Add(lease, -Excl)
        /\ \A q \in Proc : Inside(q)' => Inside(q)
    BY <1>11 DEF Release, At, Goto, locals, Types, Counted, Counts, Inside, Holders,
        Entering, Upgrade, Sweeping
  <2>2. CASE repaired
    BY <2>1, <2>2 DEF WordInv, OneHolder, NoneInside, CountExact
  <2>3. CASE ~repaired
    <3>1. Holders' = {} /\ Cardinality(Holders) = 1 /\ Cardinality(Holders') = 0
      BY <2>1, <2>3, Bounds, FS_EmptySet DEF WordInv
    <3>2. lease' = lease - Excl
      BY <2>1, <2>3, <3>1, Bounds, AddFits, Room DEF WordInv, CountExact
    <3> QED BY <2>1, <2>3, <3>1, <3>2, Bounds, Room
            DEF WordInv, OneHolder, NoneInside, CountExact
  <2> QED BY <2>2, <2>3
<1>12. CASE Unmark(p)
  <2>1. Same
    BY <1>12 DEF Unmark, At, Goto, shared, locals, Unmarked, Types, Same, Counted,
        Counts, Inside, Holders, Entering, Upgrade, Sweeping
  <2> QED BY <2>1, SameWord
<1>13. CASE Leave(p)
  <2>1. repaired' = repaired /\ Holders' = Holders /\ lease' = Add(lease, -1)
        /\ Counted' = Counted \ {p} /\ p \in Counted
        /\ \A q \in Proc : Inside(q)' => Inside(q)
    BY <1>13 DEF Leave, At, Goto, Types, Counted, Counts, Inside, Holders, Entering,
        Upgrade, Sweeping
  <2>2. CASE repaired
    BY <2>1, <2>2 DEF WordInv, OneHolder, NoneInside, CountExact
  <2>3. CASE ~repaired
    <3>1. Cardinality(Counted') = Cardinality(Counted) - 1 /\ Cardinality(Counted) # 0
      BY <2>1, <2>3, Bounds, FS_RemoveElement, FS_EmptySet DEF WordInv
    <3>2. lease' = lease - 1
      BY <2>1, <2>3, <3>1, Bounds, AddFits, Room DEF WordInv, CountExact
    <3> QED BY <2>1, <2>3, <3>1, <3>2, Bounds, Room
            DEF WordInv, OneHolder, NoneInside, CountExact
  <2> QED BY <2>2, <2>3
<1>14. CASE Forget(p)
  <2>1. Same
    BY <1>14 DEF Forget, At, Goto, shared, locals, IsLast, Types, Same, Counted,
        Counts, Inside, Holders, Entering, Upgrade, Sweeping
  <2> QED BY <2>1, SameWord
<1>15. CASE LastOut(p)
  <2>1. Same
    BY <1>15 DEF LastOut, At, Goto, shared, locals, Types, Same, Counted, Counts,
        Inside, Holders, Entering, Upgrade, Sweeping
  <2> QED BY <2>1, SameWord
<1>16. CASE StillInside(p)
  <2>1. Same
    BY <1>16 DEF StillInside, At, Goto, shared, locals, Types, Same, Counted, Counts,
        Inside, Holders, Entering, Upgrade, Sweeping
  <2> QED BY <2>1, SameWord
<1>17. CASE Select(p)
  <2>1. Same
    BY <1>17 DEF Select, At, Goto, shared, locals, Types, Same, Counted, Counts,
        Inside, Holders, Entering, Upgrade, Sweeping
  <2> QED BY <2>1, SameWord
<1>18. ASSUME NEW q \in Proc, Take(p, q) PROVE WordInv'
  <2>1. Same
    BY <1>18 DEF Take, At, Goto, shared, locals, Dead, Types, Same, Counted, Counts,
        Inside, Holders, Entering, Upgrade, Sweeping
  <2> QED BY <2>1, SameWord
<1>19. CASE Taken(p)
  <2>1. Same
    BY <1>19 DEF Taken, At, Goto, shared, locals, Types, Same, Counted, Counts,
        Inside, Holders, Entering, Upgrade, Sweeping
  <2> QED BY <2>1, SameWord
<1>20. CASE Recount(p)
  <2>1. Same
    BY <1>20 DEF Recount, At, Goto, shared, locals, Types, Same, Counted, Counts,
        Inside, Holders, Entering, Upgrade, Sweeping
  <2> QED BY <2>1, SameWord
<1>21. CASE LiveReaders(p)
  <2>1. Same
    BY <1>21 DEF LiveReaders, At, Goto, shared, locals, Types, Same, Counted, Counts,
        Inside, Holders, Entering, Upgrade, Sweeping
  <2> QED BY <2>1, SameWord
<1>22. CASE Settle(p)
  <2>1. CASE repaired'
    BY <2>1 DEF WordInv, OneHolder, NoneInside, CountExact
  <2>2. CASE ~repaired'
    <3>1. Same
      BY <1>22, <2>2 DEF Settle, At, Goto, Same, Types, Counted, Counts, Inside,
          Holders, Entering, Upgrade, Sweeping
    <3> QED BY <3>1, SameWord
  <2> QED BY <2>1, <2>2
<1>23. CASE Return(p)
  <2>1. Same
    BY <1>23 DEF Return, At, Goto, shared, locals, Types, Same, Counted, Counts,
        Inside, Holders, Entering, Upgrade, Sweeping
  <2> QED BY <2>1, SameWord
<1>24. CASE Collect(p)
  <2>1. Same
    BY <1>24 DEF Collect, At, Goto, shared, locals, Types, Same, Counted, Counts,
        Inside, Holders, Entering, Upgrade, Sweeping
  <2> QED BY <2>1, SameWord
<1>25. CASE Kill(p)
  <2>1. Same
    BY <1>25 DEF Kill, At, Goto, shared, locals, Types, Same, Counted, Counts, Inside,
        Holders, Entering, Upgrade, Sweeping
  <2> QED BY <2>1, SameWord
<1> QED BY <1>1, <1>2, <1>3, <1>4, <1>5, <1>6, <1>7, <1>8, <1>9, <1>10, <1>11, <1>12,
    <1>13, <1>14, <1>15, <1>16, <1>17, <1>18, <1>19, <1>20, <1>21, <1>22, <1>23,
    <1>24, <1>25 DEF StepOf, Step

\* A request has somebody to mind it.
LEMMA PendingStep ==
    ASSUME Types, WordInv, Unharmed, Pending, NEW p \in Proc, StepOf(p)
    PROVE  Pending'
<1>1. CASE Remember(p)
  BY <1>1
  DEF Remember, At, Goto, shared, locals, Types, Pending, Minds, Inside, Counts,
      Entering, Upgrade, Sweeping, Unharmed
<1>2. CASE Count(p)
  BY <1>2
  DEF Count, At, Goto, shared, locals, Types, Pending, Minds, Inside, Counts,
      Entering, Upgrade, Sweeping, Unharmed
<1>3. CASE BackOut(p)
  BY <1>3
  DEF BackOut, At, Goto, shared, locals, Types, Pending, Minds, Inside, Counts,
      Entering, Upgrade, Sweeping, Unharmed
<1>4. CASE LookUp(p)
  BY <1>4
  DEF LookUp, At, Goto, shared, locals, Types, Pending, Minds, Inside, Counts,
      Entering, Upgrade, Sweeping, Unharmed
<1>5. CASE Reclaim(p)
  BY <1>5
  DEF Reclaim, At, Goto, shared, locals, Types, Pending, Minds, Inside, Counts,
      Entering, Upgrade, Sweeping, Unharmed
<1>6. CASE Mark(p)
  BY <1>6
  DEF Mark, At, Goto, shared, locals, MarkOf, Types, Pending, Minds, Inside, Counts,
      Entering, Upgrade, Sweeping, Unharmed
<1>7. CASE Exchange(p)
  <2>1. CASE Alone(p) \/ held[p] = 1
    BY <1>7, <2>1 DEF Exchange, At, Goto, locals, Types, Pending, Minds, Inside,
                   Entering, Upgrade
  <2>2. CASE ~Alone(p) /\ held[p] = 0 /\ alive = Proc
    <3>1. ~repaired /\ lease # 0 /\ p \notin Counted /\ p \notin Holders
      BY <1>7, <2>2 DEF Exchange, Alone, At, Unharmed, Inside, Counted, Counts,
                     Holders, Upgrade, Sweeping, Types
    <3>2. Counted # {} \/ Holders # {}
      BY <3>1, FS_EmptySet, Bounds, Room DEF WordInv, CountExact
    <3>3. CASE Counted # {}
      <4>1. PICK q \in Counted : q # p
        BY <3>1, <3>3
      <4>2. Minds(q)' /\ q \in Proc
        BY <1>7, <4>1 DEF Exchange, At, Goto, locals, Minds, Counted, Counts, Inside,
                       Entering, Upgrade, Types
      <4> QED BY <1>7, <4>2 DEF Exchange, At, Goto, Types, Pending, Alone
    <3>4. CASE Holders # {}
      <4>1. PICK q \in Holders : q # p
        BY <3>1, <3>4
      <4>2. q \in Proc /\ (pc[q] = "release" \/ Minds(q)')
        BY <1>7, <4>1 DEF Exchange, At, Goto, locals, Minds, Holders, Sweeping,
                       Entering, Types
      <4> QED BY <1>7, <2>2, <4>2 DEF Exchange, At, Goto, Types, Pending
    <3> QED BY <3>2, <3>3, <3>4
  <2>3. CASE alive # Proc
    BY <1>7, <2>3 DEF Exchange, Pending
  <2> QED BY <2>1, <2>2, <2>3 DEF Types
<1>8. CASE Retreat(p)
  BY <1>8
  DEF Retreat, At, Goto, shared, locals, Unmarked, Types, Pending, Minds, Inside,
      Counts, Entering, Upgrade, Sweeping, Unharmed
<1>9. CASE Request(p)
  <2>1. CASE alive # Proc
    BY <1>9, <2>1 DEF Request, Pending
  <2>2. CASE alive = Proc
    <3>1. ~repaired /\ Inside(p) /\ pc[p] # "release"
      BY <1>9, <2>2 DEF Request, At, Unharmed, Inside
    <3>2. \A q \in Proc : pc[q] # "release"
      BY <3>1 DEF WordInv, NoneInside, Holders, Sweeping
    <3> QED BY <1>9, <3>2 DEF Request, At, Goto, Types, Pending, Minds, Inside
  <2> QED BY <2>1, <2>2
<1>10. CASE Swept(p)
  BY <1>10
  DEF Swept, At, Goto, shared, locals, Types, Pending, Minds, Inside, Counts,
      Entering, Upgrade, Sweeping, Unharmed
<1>11. CASE Release(p)
  BY <1>11
  DEF Release, At, Goto, shared, locals, Types, Pending, Minds, Inside, Counts,
      Entering, Upgrade, Sweeping, Unharmed
<1>12. CASE Unmark(p)
  BY <1>12
  DEF Unmark, At, Goto, shared, locals, Unmarked, Types, Pending, Minds, Inside,
      Counts, Entering, Upgrade, Sweeping, Unharmed
<1>13. CASE Leave(p)
  <2>1. CASE seen'[p] = 0
    BY <1>13, <2>1 DEF Leave, At, Goto, Types, Pending, Minds, Inside, Entering, Upgrade
  <2>2. CASE seen'[p] # 0 /\ alive = Proc
    <3>1. ~repaired /\ lease' = Add(lease, -1) /\ lease' # 0 /\ Inside(p)
          /\ p \in Counted /\ p \notin Holders
      BY <1>13, <2>2 DEF Leave, At, Goto, Unharmed, Inside, Counted, Counts, Holders,
                     Sweeping, Types
    <3>2. Holders = {} /\ Cardinality(Holders) = 0
      BY <3>1, Bounds DEF WordInv, NoneInside, Holders
    <3>3. lease = Cardinality(Counted) /\ Cardinality(Counted) # 0
      BY <3>1, <3>2, Bounds, FS_EmptySet, Room DEF WordInv, CountExact
    <3>4. lease' = lease - 1
      BY <3>1, <3>3, Bounds, AddFits, Room DEF WordInv
    <3>5. Cardinality(Counted \ {p}) # 0
      BY <3>1, <3>3, <3>4, Bounds, FS_RemoveElement DEF WordInv
    <3>6. PICK q \in Counted : q # p
      BY <3>5, FS_EmptySet
    <3>7. Minds(q)' /\ q \in Proc
      BY <1>13, <3>6 DEF Leave, At, Goto, Minds, Counted, Counts, Inside, Entering,
                     Upgrade, Types
    <3> QED BY <1>13, <3>7 DEF Leave, At, Goto, Types, Pending
  <2>3. CASE alive # Proc
    BY <1>13, <2>3 DEF Leave, Pending
  <2> QED BY <2>1, <2>2, <2>3
<1>14. CASE Forget(p)
  BY <1>14
  DEF Forget, At, Goto, shared, locals, IsLast, Types, Pending, Minds, Inside, Counts,
      Entering, Upgrade, Sweeping, Unharmed
<1>15. CASE LastOut(p)
  BY <1>15
  DEF LastOut, At, Goto, shared, locals, Types, Pending, Minds, Inside, Counts,
      Entering, Upgrade, Sweeping, Unharmed
<1>16. CASE StillInside(p)
  BY <1>16
  DEF StillInside, At, Goto, shared, locals, Types, Pending, Minds, Inside, Counts,
      Entering, Upgrade, Sweeping, Unharmed
<1>17. CASE Select(p)
  BY <1>17
  DEF Select, At, Goto, shared, locals, Types, Pending, Minds, Inside, Counts,
      Entering, Upgrade, Sweeping, Unharmed
<1>18. ASSUME NEW q \in Proc, Take(p, q) PROVE Pending'
  BY <1>18
  DEF Take, At, Goto, shared, locals, Dead, Types, Pending, Minds, Inside, Counts,
      Entering, Upgrade, Sweeping, Unharmed
<1>19. CASE Taken(p)
  BY <1>19
  DEF Taken, At, Goto, shared, locals, Types, Pending, Minds, Inside, Counts,
      Entering, Upgrade, Sweeping, Unharmed
<1>20. CASE Recount(p)
  BY <1>20
  DEF Recount, At, Goto, shared, locals, Types, Pending, Minds, Inside, Counts,
      Entering, Upgrade, Sweeping, Unharmed
<1>21. CASE LiveReaders(p)
  BY <1>21
  DEF LiveReaders, At, Goto, shared, locals, Types, Pending, Minds, Inside, Counts,
      Entering, Upgrade, Sweeping, Unharmed
<1>22. CASE Settle(p)
  BY <1>22
  DEF Settle, At, Goto, shared, locals, Types, Pending, Minds, Inside, Counts,
      Entering, Upgrade, Sweeping, Unharmed
<1>23. CASE Return(p)
  BY <1>23
  DEF Return, At, Goto, shared, locals, Types, Pending, Minds, Inside, Counts,
      Entering, Upgrade, Sweeping, Unharmed
<1>24. CASE Collect(p)
  BY <1>24
  DEF Collect, At, Goto, shared, locals, Types, Pending, Minds, Inside, Counts,
      Entering, Upgrade, Sweeping, Unharmed
<1>25. CASE Kill(p)
  BY <1>25
  DEF Kill, At, Goto, shared, locals, Types, Pending, Minds, Inside, Counts, Entering,
      Upgrade, Sweeping, Unharmed
<1> QED BY <1>1, <1>2, <1>3, <1>4, <1>5, <1>6, <1>7, <1>8, <1>9, <1>10, <1>11, <1>12,
    <1>13, <1>14, <1>15, <1>16, <1>17, <1>18, <1>19, <1>20, <1>21, <1>22, <1>23,
    <1>24, <1>25 DEF StepOf, Step

-----------------------------------------------------------------------------
\* The inductive invariant of the leases: rows before counts, an exact word
\* with at most one collector until the first repair, and a process that minds
\* every outstanding request.
THEOREM Invariance == Spec => []Inv
<1>1. Init => Inv
  <2> SUFFICES ASSUME Init PROVE Inv
    OBVIOUS
  <2>1. Counted = {} /\ Holders = {}
    BY DEF Init, Counted, Counts, Inside, Holders, Sweeping, Upgrade
  <2>2. CountExact
    BY <2>1, FS_EmptySet, HeapAssumption DEF Init, CountExact
  <2>3. Types
    BY DEF Init, Types, Label
  <2> QED BY <2>1, <2>2, <2>3
          DEF Init, Inv, Rowed, OneHolder, NoneInside, MarkTrue, Unharmed, Observed,
              Pending, Counts, Inside, Upgrade
<1>2. Inv /\ [Next]_vars => Inv'
  <2> SUFFICES ASSUME Inv, [Next]_vars PROVE Inv'
    OBVIOUS
  <2> USE DEF Inv
  <2>1. CASE Next
    <3>1. PICK p \in Proc : StepOf(p)
      BY <2>1 DEF Next, StepOf
    <3>2. WordInv
      BY DEF WordInv
    <3>3. Types' /\ Observed' /\ Rowed' /\ MarkTrue' /\ Unharmed'
      BY <3>1, TypesStep, RowedStep, MarkStep, UnharmedStep
    <3>4. WordInv' /\ Pending'
      BY <3>1, <3>2, WordStep, PendingStep
    <3> QED BY <3>3, <3>4 DEF WordInv
  <2>2. CASE UNCHANGED vars
    <3>1. Counted' = Counted /\ Holders' = Holders
          /\ \A q \in Proc : (Inside(q)' <=> Inside(q)) /\ (Minds(q)' <=> Minds(q))
      BY <2>2 DEF vars, shared, locals, Counted, Counts, Holders, Inside, Minds
    <3>2. \A q \in Proc : Counts(q)' <=> Counts(q)
      BY <2>2 DEF vars, shared, locals, Counts, Inside
    <3>3. WordInv' /\ Types' /\ Observed' /\ MarkTrue' /\ Unharmed'
      BY <2>2, <3>1 DEF vars, shared, locals, WordInv, OneHolder, NoneInside,
                        CountExact, Types, Observed, MarkTrue, Unharmed
    <3>4. Rowed' /\ Pending'
      BY <2>2, <3>1, <3>2 DEF vars, shared, locals, Rowed, Pending, Types
    <3> QED BY <3>3, <3>4 DEF WordInv
  <2> QED BY <2>1, <2>2
<1> QED BY <1>1, <1>2, PTL DEF Spec

\* A collector has the store to itself until somebody repairs the word
\* (try_exclusive/1, last_out/2, read_lease/3).
THEOREM CollectorAlone == Spec => []SweepAloneUnrepaired
<1>1. Inv => SweepAloneUnrepaired
  BY DEF Inv, Types, OneHolder, NoneInside, SweepAloneUnrepaired, SweepAlone,
         Holders, Sweeping
<1> QED BY <1>1, Invariance, PTL

\* The word is the number of its readers, and Excl for its collector, killed
\* ones included, until somebody repairs it.
THEOREM WordExact == Spec => []CountExact
<1>1. Inv => CountExact
  BY DEF Inv
<1> QED BY <1>1, Invariance, PTL

\* Whoever is counted has a row, always (lease/1, unlease/2, reap/2).
THEOREM RowsCover == Spec => []RowsLead
<1>1. Inv => RowsLead
  BY DEF Inv, Rowed, RowsLead
<1> QED BY <1>1, Invariance, PTL

\* No request for a collection is lost while nobody is killed (last_out/2).
THEOREM NoRequestLost == Spec => []RequestServed
<1>1. Inv => RequestServed
  BY DEF Inv, Types, Pending, Minds, Inside, Entering, Upgrade, RequestServed
<1> QED BY <1>1, Invariance, PTL

\* What reclaim/2 compares the word with is what the dead collector left.
THEOREM DeadHoldMatches == Spec => []ReclaimMatches
<1>1. Inv => ReclaimMatches
  <2> SUFFICES ASSUME Inv, ~repaired, NEW d \in Holders \ alive,
                      mark # None, mark[1] = d
               PROVE  lease = Excl + mark[2]
                              + Cardinality({q \in Proc : pc[q] = "backout"})
    BY DEF ReclaimMatches
  <2> DEFINE B == {q \in Proc : pc[q] = "backout"}
  <2>0. Types /\ OneHolder /\ NoneInside /\ CountExact /\ d \in Proc
    BY DEF Inv, Holders
  <2>1. mark[2] = held[d] /\ d \notin B
    BY DEF Inv, MarkTrue, Holders, Sweeping
  <2>2. IsFiniteSet(B) /\ Cardinality(B) \in Nat
    BY FS_Subset, FS_CardinalityType, HeapAssumption
  <2>3. Cardinality(Holders) = 1
    BY <2>0, Bounds
  <2>4. CASE held[d] = 1
    <3>1. Counted = B \cup {d}
      BY <2>0, <2>4 DEF Counted, Counts, Inside, NoneInside, Holders, Sweeping, Upgrade
    <3>2. Cardinality(Counted) = Cardinality(B) + 1
      BY <3>1, <2>1, <2>2, FS_AddElement
    <3> QED BY <2>0, <2>1, <2>2, <2>3, <2>4, <3>2, HeapAssumption DEF CountExact
  <2>5. CASE held[d] = 0
    <3>1. Counted = B
      BY <2>0, <2>5 DEF Counted, Counts, Inside, NoneInside, Holders, Sweeping, Upgrade
    <3> QED BY <2>0, <2>1, <2>2, <2>3, <2>5, <3>1, HeapAssumption DEF CountExact
  <2> QED BY <2>0, <2>4, <2>5 DEF Types
<1> QED BY <1>1, Invariance, PTL
-----------------------------------------------------------------------------
\* What the word may become.
LEMMA WordFits ==
    ASSUME NEW p \in Proc
    PROVE  /\ 0 \in Word /\ Excl \in Word /\ Excl + 0 \in Word /\ Excl + 1 \in Word
           /\ \A w \in Word : Add(w, 1) \in Word /\ Add(w, -1) \in Word
                              /\ Add(w, -Excl) \in Word
           /\ \A w \in Word, n \in Nat : n < w => n \in Word
<1> DEFINE E == Excl * Excl
<1>1. Excl \in Nat /\ Excl >= 2 /\ 2 * Excl <= E /\ E \in Nat
  BY Room
<1>2. Word = 0 .. E - 1 /\ \A w, n : Add(w, n) = (w + n) % E
  BY DEF Word, Add
<1> HIDE DEF E
<1>3. \A w \in Word : w \in Int /\ w + 1 \in Int /\ w + (-1) \in Int /\ w + (-Excl) \in Int
  BY <1>1, <1>2
<1>4. \A i \in Int : i % E \in 0 .. E - 1
  BY <1>1
<1>5. \A w \in Word : Add(w, 1) \in Word /\ Add(w, -1) \in Word /\ Add(w, -Excl) \in Word
  BY <1>2, <1>3, <1>4
<1> QED BY <1>1, <1>2, <1>5

\* The sum of the rows is a number.
LEMMA RowSum ==
    ASSUME Types
    PROVE  Total(row) \in Nat
BY TotalNat, HeapAssumption DEF Types

\* Every step keeps the types.
LEMMA TypeStep ==
    ASSUME TypeOK, live \in [Proc -> Word], Types, Types', NEW p \in Proc, StepOf(p)
    PROVE  TypeOK' /\ live' \in [Proc -> Word]
<1>0. Patience \in Nat /\ 0 \in 0 .. Patience + 1
  BY HeapAssumption
<1> DEFINE Rest == /\ lease \in Word /\ tries \in [Proc -> 0 .. Patience + 1]
                   /\ seen \in [Proc -> Word] /\ live \in [Proc -> Word]
                   /\ todo \in [Proc -> SUBSET Proc] /\ calls \in [Proc -> Nat]
<1>w. /\ 0 \in Word /\ Excl \in Word /\ Excl + 0 \in Word /\ Excl + 1 \in Word
      /\ \A w \in Word : Add(w, 1) \in Word /\ Add(w, -1) \in Word
                         /\ Add(w, -Excl) \in Word
      /\ \A w \in Word, n \in Nat : n < w => n \in Word
  BY WordFits
<1>s. Rest /\ held \in [Proc -> {0, 1}] /\ row \in [Proc -> Nat]
  BY DEF TypeOK, Types
<1> SUFFICES Rest'
  <2>1. Word \subseteq Nat
    BY Room DEF Word
  <2>2. Rest' => live' \in [Proc -> Nat]
    BY <2>1
  <2> QED BY <2>2 DEF TypeOK, Types
<1> USE <1>0, <1>s DEF At, Goto, shared, locals
<1>1. CASE Remember(p)
  BY <1>1 DEF Remember
<1>2. CASE Count(p)
  BY <1>2, <1>w DEF Count
<1>3. CASE BackOut(p)
  BY <1>3, <1>w DEF BackOut
<1>4. CASE LookUp(p)
  BY <1>4 DEF LookUp
<1>5. CASE Reclaim(p)
  BY <1>5, <1>w DEF Reclaim
<1>6. CASE Mark(p)
  BY <1>6 DEF Mark, MarkOf
<1>7. CASE Exchange(p)
  BY <1>7, <1>w DEF Exchange, Alone
<1>8. CASE Retreat(p)
  BY <1>8 DEF Retreat, Unmarked
<1>9. CASE Request(p)
  BY <1>9 DEF Request
<1>10. CASE Swept(p)
  BY <1>10 DEF Swept
<1>11. CASE Release(p)
  BY <1>11, <1>w DEF Release
<1>12. CASE Unmark(p)
  BY <1>12 DEF Unmark, Unmarked
<1>13. CASE Leave(p)
  BY <1>13, <1>w DEF Leave
<1>14. CASE Forget(p)
  BY <1>14, <1>w DEF Forget
<1>15. CASE LastOut(p)
  BY <1>15 DEF LastOut
<1>16. CASE StillInside(p)
  BY <1>16 DEF StillInside
<1>17. CASE Select(p)
  BY <1>17 DEF Select
<1>18. ASSUME NEW q \in Proc, Take(p, q) PROVE Rest'
  BY <1>18 DEF Take, Dead
<1>19. CASE Taken(p)
  BY <1>19 DEF Taken
<1>20. CASE Recount(p)
  BY <1>20, <1>w DEF Recount
<1>21. CASE LiveReaders(p)
  <2> DEFINE n == Total(row)
  <2>1. n \in Nat
    BY RowSum
  <2> HIDE DEF n
  <2>2. /\ live' = [live EXCEPT ![p] = IF n >= seen[p] THEN 0 ELSE n]
        /\ seen' = [seen EXCEPT ![p] = IF n >= @ THEN 0 ELSE @]
        /\ UNCHANGED <<lease, tries, todo, calls>>
    BY <1>21 DEF LiveReaders, n
  <2>3. seen[p] \in Word /\ seen[p] \in Nat
    BY Room DEF Word
  <2>4. (IF n >= seen[p] THEN 0 ELSE n) \in Word /\ (IF n >= seen[p] THEN 0 ELSE seen[p]) \in Word
    BY <2>1, <2>3, <1>w
  <2> QED BY <2>2, <2>4
<1>22. CASE Settle(p)
  BY <1>22, <1>w DEF Settle
<1>23. CASE Return(p)
  BY <1>23 DEF Return
<1>24. CASE Collect(p)
  BY <1>24 DEF Collect
<1>25. CASE Kill(p)
  BY <1>25 DEF Kill
<1> QED BY <1>1, <1>2, <1>3, <1>4, <1>5, <1>6, <1>7, <1>8, <1>9, <1>10, <1>11, <1>12,
    <1>13, <1>14, <1>15, <1>16, <1>17, <1>18, <1>19, <1>20, <1>21, <1>22, <1>23,
    <1>24, <1>25 DEF StepOf, Step

\* Every variable holds a value of its kind: the word never leaves its 64 bits,
\* the tries their limit, and the sum of live_readers/1 is a number.
THEOREM Typed == Spec => []TypeOK
<1> DEFINE Wide == TypeOK /\ live \in [Proc -> Word]
<1>1. Init /\ Types => Wide
  <2> SUFFICES ASSUME Init, Types PROVE Wide
    OBVIOUS
  <2>1. 0 \in Word
    <3>1. Cardinality(Proc) \in Nat /\ Excl \in Nat /\ Excl >= 1
      BY FS_CardinalityType, HeapAssumption
    <3>2. Excl * Excl \in Nat /\ Excl * Excl >= 1
      BY <3>1
    <3> QED BY <3>2 DEF Word
  <2>2. Patience \in Nat
    BY HeapAssumption
  <2> QED BY <2>1, <2>2 DEF Init, Types, TypeOK
<1>2. Wide /\ Inv /\ Inv' /\ [Next]_vars => Wide'
  <2> SUFFICES ASSUME Wide, Inv, Inv', [Next]_vars PROVE Wide'
    OBVIOUS
  <2>1. CASE Next
    <3>1. PICK p \in Proc : StepOf(p)
      BY <2>1 DEF Next, StepOf
    <3> QED BY <3>1, TypeStep DEF Inv
  <2>2. CASE UNCHANGED vars
    BY <2>2 DEF vars, shared, locals, TypeOK
  <2> QED BY <2>1, <2>2
<1>3. Inv => Types
  BY DEF Inv
<1> QED BY <1>1, <1>2, <1>3, Invariance, PTL DEF Spec
=============================================================================
