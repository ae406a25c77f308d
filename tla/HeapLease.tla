----------------------------- MODULE HeapLease ------------------------------
(***************************************************************************)
(* The leases of one GC object store (wasm_heap, "leases") and the calls   *)
(* that take them (wasm:invoke_at/6).  An execution holds a read lease, a  *)
(* collector has the store to itself.  There is no process behind a lease: *)
(* it is one word, lease, changed by atomic operations, and rows of the    *)
(* store's ETS table that say whose it is.  Every atomics call and every   *)
(* ETS call is one step of the process that makes it; between two of them  *)
(* any other process may run, and a process may be killed.                 *)
(*                                                                         *)
(* The word counts the readers, with Excl added while a collector has the  *)
(* store.  It is unsigned: 64 bits, twice those of Excl.  A local of a     *)
(* process goes back to its initial value when it is no longer read.       *)
(***************************************************************************)
EXTENDS Sums, FiniteSets

CONSTANTS
    Proc,       \* processes that call instances sharing the store
    Mortal,     \* those of Proc that may be killed
    Excl,       \* 1 bsl 32 in the code
    Patience,   \* 16 in the code: tries before a reader doubts the collector
    MaxCalls,   \* bound: process -> outermost calls it makes
    None        \* no row ?COLLECTOR

ASSUME HeapAssumption ==
    /\ IsFiniteSet(Proc) /\ Mortal \subseteq Proc
    /\ Excl \in Nat /\ Cardinality(Proc) < Excl
    /\ Patience \in Nat /\ MaxCalls \in [Proc -> Nat]
    /\ None \notin Proc \X {0, 1}

VARIABLES
    lease,      \* the word ?LEASE
    request,    \* the word ?REQUEST
    row,        \* process -> what its row {reader, Pid} holds, 0 for none
    mark,       \* the row ?COLLECTOR: <<Pid, Held>>
    pc,         \* process -> the next step of its call
    alive,      \* the processes not killed
    held,       \* process -> the read leases it collects with, 1 or 0
    tries,      \* process -> tries of read_lease/3, up to Patience + 1
    obs,        \* process -> what lookup_collector/1 answered
    seen,       \* process -> what sub_get or get answered of the word
    live,       \* process -> the sum live_readers/1 answered
    todo,       \* process -> the rows dead_readers/1 has still to look at
    taken,      \* process -> leases in the rows it took from the dead
    calls,      \* process -> calls begun
    repaired    \* has the word been set by reclaim/2 or settle/4? (history)

shared == <<lease, request, row, mark>>
locals == <<held, tries, obs, seen, live, todo, taken>>
vars == <<shared, pc, alive, locals, calls, repaired>>

Word == 0 .. Excl * Excl - 1
\* Mutant: a signed word.
MutAdd(w, n) == w + n

Add(w, n) == (w + n) % (Excl * Excl)

Init ==
    /\ lease = 0 /\ request = 0 /\ mark = None
    /\ row = [p \in Proc |-> 0]
    /\ pc = [p \in Proc |-> "out"]
    /\ alive = Proc
    /\ held = [p \in Proc |-> 0]
    /\ tries = [p \in Proc |-> 0]
    /\ obs = [p \in Proc |-> None]
    /\ seen = [p \in Proc |-> 0]
    /\ live = [p \in Proc |-> 0]
    /\ todo = [p \in Proc |-> {}]
    /\ taken = [p \in Proc |-> 0]
    /\ calls = [p \in Proc |-> 0]
    /\ repaired = FALSE

At(p, l) == p \in alive /\ pc[p] = l
Goto(p, l) == pc' = [pc EXCEPT ![p] = l]

-----------------------------------------------------------------------------
(* lease/1: the row first, then the count.                                 *)

Remember(p) ==
    /\ At(p, "out") /\ calls[p] < MaxCalls[p]
    /\ calls' = [calls EXCEPT ![p] = @ + 1]
    /\ row' = [row EXCEPT ![p] = @ + 1]
    /\ Goto(p, "count")
    /\ UNCHANGED <<lease, request, mark, alive, locals, repaired>>

\* add_get answers Excl or more when a collector has the store.
Count(p) ==
    /\ At(p, "count")
    /\ lease' = Add(lease, 1)
    /\ tries' = [tries EXCEPT ![p] = IF lease' >= Excl THEN @ ELSE 0]
    /\ Goto(p, IF lease' >= Excl THEN "backout" ELSE "in")
    /\ UNCHANGED <<request, row, mark, alive, held, obs, seen, live, todo, taken,
                   calls, repaired>>

BackOut(p) ==
    /\ At(p, "backout")
    /\ lease' = Add(lease, -1)
    /\ tries' = [tries EXCEPT ![p] = IF @ > Patience THEN @ ELSE @ + 1]
    /\ Goto(p, IF tries[p] > Patience THEN "lookup" ELSE "count")
    /\ UNCHANGED <<request, row, mark, alive, held, obs, seen, live, todo, taken,
                   calls, repaired>>

LookUp(p) ==
    /\ At(p, "lookup")
    /\ obs' = [obs EXCEPT ![p] = mark]
    /\ Goto(p, IF mark = None THEN "count" ELSE "reclaim")
    /\ UNCHANGED <<shared, alive, held, tries, seen, live, todo, taken, calls,
                   repaired>>

\* The exchange of reclaim/2, if the collector it found is dead.
Reclaim(p) ==
    LET dead == obs[p][1] \notin alive
        stuck == lease = Excl + obs[p][2]
    IN
    /\ At(p, "reclaim")
    /\ lease' = IF dead /\ stuck THEN 0 ELSE lease
    /\ repaired' = (repaired \/ (dead /\ stuck))
    /\ obs' = [obs EXCEPT ![p] = None]
    /\ Goto(p, "count")
    /\ UNCHANGED <<request, row, mark, alive, held, tries, seen, live, todo, taken,
                   calls>>

-----------------------------------------------------------------------------
(* The end of an execution, maybe_collect/4, and the exclusive hold.        *)

Return(p) ==
    /\ At(p, "in")
    /\ Goto(p, "leave")
    /\ UNCHANGED <<shared, alive, locals, calls, repaired>>

\* should_collect/1 says yes: the store is wanted exclusively.
Collect(p) ==
    /\ At(p, "in")
    /\ held' = [held EXCEPT ![p] = 1]
    /\ Goto(p, "mark")
    /\ UNCHANGED <<shared, alive, tries, obs, seen, live, todo, taken, calls,
                   repaired>>

MarkOf(p) == <<p, held[p]>>

Mark(p) ==
    /\ At(p, "mark")
    /\ mark' = MarkOf(p)
    /\ Goto(p, "exchange")
    /\ UNCHANGED <<lease, request, row, alive, locals, calls, repaired>>

\* Mutant: any count up to one is taken for the collector's own.
MutAlone(p) == lease <= 1

\* What the exchange expects: nobody but the collector, if it is a reader.
Alone(p) == lease = held[p]

Exchange(p) ==
    /\ At(p, "exchange")
    /\ lease' = IF Alone(p) THEN Excl + lease ELSE lease
    /\ Goto(p, IF Alone(p) THEN "sweep" ELSE "retreat")
    /\ UNCHANGED <<request, row, mark, alive, locals, calls, repaired>>

\* unmark_if_mine/1: only the mark of the process itself.
Unmarked(p) == IF mark # None /\ mark[1] = p THEN None ELSE mark

\* The store was not to be had.  A reader asks for a collection.
Retreat(p) ==
    /\ At(p, "retreat")
    /\ mark' = Unmarked(p)
    /\ Goto(p, IF held[p] = 1 THEN "request" ELSE "out")
    /\ UNCHANGED <<lease, request, row, alive, locals, calls, repaired>>

Request(p) ==
    /\ At(p, "request")
    /\ request' = 1
    /\ held' = [held EXCEPT ![p] = 0]
    /\ Goto(p, "leave")
    /\ UNCHANGED <<lease, row, mark, alive, tries, obs, seen, live, todo, taken,
                   calls, repaired>>

\* collect/2 is done: release_exclusive/1 forgets the request,
Swept(p) ==
    /\ At(p, "sweep")
    /\ request' = 0
    /\ Goto(p, "release")
    /\ UNCHANGED <<lease, row, mark, alive, locals, calls, repaired>>

\* Mutant: the word is set to what the collector itself holds.
MutRelease(p) ==
    /\ At(p, "release")
    /\ lease' = held[p]
    /\ Goto(p, "unmark")
    /\ UNCHANGED <<request, row, mark, alive, locals, calls, repaired>>

\* Mutant: the store is given back by the process the mark names.
MutReleaseIfMarked(p) ==
    /\ At(p, "release")
    /\ lease' = IF mark = MarkOf(p) THEN Add(lease, -Excl) ELSE lease
    /\ Goto(p, "unmark")
    /\ UNCHANGED <<request, row, mark, alive, locals, calls, repaired>>

\* gives the store back,
Release(p) ==
    /\ At(p, "release")
    /\ lease' = Add(lease, -Excl)
    /\ Goto(p, "unmark")
    /\ UNCHANGED <<request, row, mark, alive, locals, calls, repaired>>

\* and takes the mark away last.
Unmark(p) ==
    /\ At(p, "unmark")
    /\ mark' = Unmarked(p)
    /\ held' = [held EXCEPT ![p] = 0]
    /\ Goto(p, IF held[p] = 1 THEN "leave" ELSE "out")
    /\ UNCHANGED <<lease, request, row, alive, tries, obs, seen, live, todo, taken,
                   calls, repaired>>

-----------------------------------------------------------------------------
(* unlease/2: the count first, then the row.                               *)

Leave(p) ==
    /\ At(p, "leave")
    /\ lease' = Add(lease, -1)
    /\ seen' = [seen EXCEPT ![p] = lease']
    /\ Goto(p, "forget")
    /\ UNCHANGED <<request, row, mark, alive, held, tries, obs, live, todo, taken,
                   calls, repaired>>

\* Mutant: the last reader is taken for the one before it.
MutIsLast(p) == seen[p] = 1

IsLast(p) == seen[p] = 0

Forget(p) ==
    /\ At(p, "forget")
    /\ row' = [row EXCEPT ![p] = IF @ > 0 THEN @ - 1 ELSE 0]
    /\ seen' = [seen EXCEPT ![p] = 0]
    /\ Goto(p, IF IsLast(p) THEN "last" ELSE "inside")
    /\ UNCHANGED <<lease, request, mark, alive, held, tries, obs, live, todo, taken,
                   calls, repaired>>

\* last_out/2 and still_inside/2 look for a request first.
LastOut(p) ==
    /\ At(p, "last")
    /\ held' = [held EXCEPT ![p] = 0]
    /\ Goto(p, IF request = 0 THEN "out" ELSE "mark")
    /\ UNCHANGED <<shared, alive, tries, obs, seen, live, todo, taken, calls,
                   repaired>>

StillInside(p) ==
    /\ At(p, "inside")
    /\ Goto(p, IF request = 0 THEN "out" ELSE "select")
    /\ UNCHANGED <<shared, alive, locals, calls, repaired>>

\* reap/2: the readers' rows, once; then each that belongs to a dead process.
Select(p) ==
    /\ At(p, "select")
    /\ todo' = [todo EXCEPT ![p] = {q \in Proc : row[q] > 0}]
    /\ Goto(p, "take")
    /\ UNCHANGED <<shared, alive, held, tries, obs, seen, live, taken, calls,
                   repaired>>

\* Mutant: every row is taken.
MutDead(q) == TRUE

Dead(q) == q \notin alive

Take(p, q) ==
    /\ At(p, "take") /\ q \in todo[p]
    /\ todo' = [todo EXCEPT ![p] = @ \ {q}]
    /\ row' = IF Dead(q) THEN [row EXCEPT ![q] = 0] ELSE row
    /\ taken' = [taken EXCEPT ![p] = IF Dead(q) THEN @ + row[q] ELSE @]
    /\ UNCHANGED <<lease, request, mark, pc, alive, held, tries, obs, seen, live,
                   calls, repaired>>

Taken(p) ==
    /\ At(p, "take") /\ todo[p] = {}
    /\ taken' = [taken EXCEPT ![p] = 0]
    /\ Goto(p, IF taken[p] = 0 THEN "out" ELSE "recount")
    /\ UNCHANGED <<shared, alive, held, tries, obs, seen, live, todo, calls,
                   repaired>>

\* recount/2: the word, then the sum of the rows that are left,
Recount(p) ==
    /\ At(p, "recount")
    /\ seen' = [seen EXCEPT ![p] = IF lease >= Excl THEN 0 ELSE lease]
    /\ Goto(p, IF lease >= Excl THEN "out" ELSE "sum")
    /\ UNCHANGED <<shared, alive, held, tries, obs, live, todo, taken, calls,
                   repaired>>

LiveReaders(p) ==
    LET n == Total(row) IN
    /\ At(p, "sum")
    /\ live' = [live EXCEPT ![p] = IF n >= seen[p] THEN 0 ELSE n]
    /\ seen' = [seen EXCEPT ![p] = IF n >= @ THEN 0 ELSE @]
    /\ Goto(p, IF n >= seen[p] THEN "out" ELSE "settle")
    /\ UNCHANGED <<shared, alive, held, tries, obs, todo, taken, calls, repaired>>

\* and settle/4 puts the sum for the word, if the word is what it was.
Settle(p) ==
    LET same == lease = seen[p] IN
    /\ At(p, "settle")
    /\ lease' = IF same THEN live[p] ELSE lease
    /\ repaired' = (repaired \/ same)
    /\ seen' = [seen EXCEPT ![p] = 0] /\ live' = [live EXCEPT ![p] = 0]
    /\ Goto(p, IF same /\ live[p] = 0 THEN "last" ELSE "out")
    /\ UNCHANGED <<request, row, mark, alive, held, tries, obs, todo, taken, calls>>

\* exit(Pid, kill): no after clause runs.
Kill(p) ==
    /\ p \in Mortal \cap alive
    /\ alive' = alive \ {p}
    /\ UNCHANGED <<shared, pc, locals, calls, repaired>>

-----------------------------------------------------------------------------
(* What a process does without waiting for the guest to return.            *)
Step(p) ==
    \/ Count(p) \/ BackOut(p) \/ LookUp(p) \/ Reclaim(p)
    \/ Mark(p) \/ Exchange(p) \/ Retreat(p) \/ Request(p)
    \/ Swept(p) \/ Release(p) \/ Unmark(p)
    \/ Leave(p) \/ Forget(p) \/ LastOut(p) \/ StillInside(p)
    \/ Select(p) \/ (\E q \in Proc : Take(p, q)) \/ Taken(p)
    \/ Recount(p) \/ LiveReaders(p) \/ Settle(p)

Next ==
    \E p \in Proc : Remember(p) \/ Step(p) \/ Return(p) \/ Collect(p) \/ Kill(p)

Spec == Init /\ [][Next]_vars

(* A process that can run is scheduled.  Nothing makes a guest return.     *)
FairSpec == Spec /\ \A p \in Proc : WF_vars(Step(p))

-----------------------------------------------------------------------------
(* Properties.                                                             *)

Entering == {"count", "backout", "lookup", "reclaim"}
Upgrade == {"mark", "exchange", "retreat", "sweep", "release", "unmark"}
Sweeping == {"sweep", "release"}
Label == {"out", "in", "request", "leave", "forget", "last", "inside", "select",
          "take", "recount", "sum", "settle"} \cup Entering \cup Upgrade

(* Has a read lease: what it refers to may be on its stack only.           *)
Inside(p) == pc[p] \in {"in", "request", "leave"}
             \/ (pc[p] \in Upgrade /\ held[p] = 1)
(* Has one in the word.                                                    *)
Counts(p) == Inside(p) \/ pc[p] = "backout"
Counted == {p \in Proc : Counts(p)}
(* Have the store: they added Excl, or were killed before they took it     *)
(* off again.                                                              *)
Holders == {p \in Proc : pc[p] \in Sweeping}

(* Every variable holds a value of its kind.                               *)
TypeOK ==
    /\ lease \in Word /\ request \in {0, 1}
    /\ row \in [Proc -> Nat]
    /\ mark \in (Proc \X {0, 1}) \cup {None}
    /\ pc \in [Proc -> Label]
    /\ alive \subseteq Proc
    /\ held \in [Proc -> {0, 1}]
    /\ tries \in [Proc -> 0 .. Patience + 1]
    /\ obs \in [Proc -> (Proc \X {0, 1}) \cup {None}]
    /\ seen \in [Proc -> Word]
    /\ live \in [Proc -> Nat]
    /\ todo \in [Proc -> SUBSET Proc]
    /\ taken \in [Proc -> Nat]
    /\ calls \in [Proc -> Nat]
    /\ repaired \in BOOLEAN

(* "A collector needs the store to itself": while one has it, no living    *)
(* process but itself executes against it, and nobody else collects.       *)
SweepAlone ==
    \A p \in alive : pc[p] = "sweep" =>
        \A q \in alive \ {p} : ~Inside(q) /\ pc[q] # "sweep"

(* The same for as long as nobody has repaired the word after a kill.      *)
SweepAloneUnrepaired == ~repaired => SweepAlone

(* The word is exact until the first repair, the dead included: the        *)
(* readers that added themselves and not yet gone, and Excl for the one    *)
(* that has the store.                                                     *)
CountExact ==
    ~repaired =>
        lease = Cardinality(Counted) + Excl * Cardinality(Holders)

(* "The rows are a superset of the counts": whoever has a lease in the     *)
(* word has a row, so a repair never forgets a reader that was there when  *)
(* it read the rows.                                                       *)
RowsLead == \A p \in alive : Counts(p) => row[p] > 0

(* A collection that was asked for is not lost: when all have left and     *)
(* nobody was killed, none is outstanding (last_out/2).                    *)
RequestServed ==
    alive = Proc /\ (\A p \in Proc : pc[p] = "out") => request = 0

(* The value reclaim/2 waits for is what the first collector that was      *)
(* killed left, but for readers about to step back out.                    *)
ReclaimMatches ==
    ~repaired => \A d \in Holders \ alive : mark # None /\ mark[1] = d =>
        lease = Excl + mark[2] + Cardinality({p \in Proc : pc[p] = "backout"})

(* "No call is blocked indefinitely": a reader gets in, if nobody is       *)
(* killed.                                                                 *)
ReaderEnters ==
    \A p \in Proc :
        pc[p] \in Entering ~> pc[p] \notin Entering \/ alive # Proc
=============================================================================
