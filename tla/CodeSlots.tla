----------------------------- MODULE CodeSlots ------------------------------
(***************************************************************************)
(* The pool of module names that generated code is loaded under            *)
(* (wasm_code_slots), the compilers that fill it and the calls that enter  *)
(* it (wasm_jit), and the stamp generated code checks (wasm_core).         *)
(*                                                                         *)
(* The manager is one process: a row changes only while it handles a call  *)
(* or a 'DOWN'.  A call waits in its mailbox, and is handled although its  *)
(* sender has died.  The counter of a slot is not the manager's: callers   *)
(* and the manager change it with atomic operations, so every one of these *)
(* is a step.  Compilers, callers and the manager may stop at any step.    *)
(*                                                                         *)
(* The loader is external: a name has current and old code, loading makes  *)
(* the current code old and first kills whoever runs the code that is old  *)
(* already, and code:soft_purge/1 looks at old code only.                  *)
(***************************************************************************)
EXTENDS Integers, FiniteSets, FiniteSetsExt

CONSTANTS
    Slot,        \* ?NAMES, sixteen in the code
    Key,         \* the identities of modules
    Hashed,      \* those of Key that are content hashes
    Home,        \* key -> the slot prefer/2 puts first
    Inst,        \* instances
    KeyOf,       \* instance -> the key of its module
    Compiler,    \* children of wasm_jit_sup, each started once
    Jobs,        \* compiler -> the instances it may be sent
    Caller,      \* processes that call instances
    Handles,     \* caller -> the instances it has
    Doomed,      \* those of Inst that may be destroyed
    Mortal,      \* processes that may be killed
    Excl,        \* 1 bsl 32 in the code
    Words,       \* the heap words one compile reserves
    Budget,      \* compile_budget_heap_words
    MaxRestarts, \* bound: restarts of the manager
    None

Pid == Compiler \cup Caller

ASSUME SlotsAssumption ==
    /\ IsFiniteSet(Pid) /\ Compiler \cap Caller = {} /\ Mortal \subseteq Pid
    /\ Hashed \subseteq Key /\ Home \in [Key -> Slot]
    /\ KeyOf \in [Inst -> Key] /\ Jobs \in [Compiler -> SUBSET Inst]
    /\ Handles \in [Caller -> SUBSET Inst] /\ Doomed \subseteq Inst
    /\ Excl \in Nat /\ Cardinality(Pid) < Excl
    /\ Words \in Nat /\ Budget \in Nat
    /\ MaxRestarts \in Nat
    /\ None \notin Slot \cup Key \cup Inst \cup Pid

VARIABLES
    tab,       \* slot -> its row: generation, state, key, leases
    ctr,       \* slot -> its counter
    cur,       \* slot -> the current code: the key and generation it is for
    old,       \* slot -> the old code
    hold,      \* the claim the manager is in the middle of
    due,       \* the slot whose row is written and whose hold is not yet given back
    boot,      \* whether the manager is in init/1
    mon,       \* the manager's monitors
    refs,      \* instance -> the monitor behind its lease
    spent,     \* heap words admitted
    restarts,  \* how often the manager was restarted
    calls,     \* process -> its call in the manager's mailbox
    pc,        \* process -> its next step
    at,        \* process -> the instance it works for
    tok,       \* process -> its reservation, or the slot it was answered
    owes,      \* the compilers that will call release_budget/0
    want,      \* process -> the generation lease_call/2 answered
    ver,       \* process -> which code of the slot it runs
    cslot,     \* instance -> ?IX_CODE, the slot it adopted
    gone       \* the instances destroyed

code == <<cur, old>>
manager == <<hold, due, boot, mon, refs, spent>>
locals == <<at, tok, owes, want, ver>>
vars == <<tab, ctr, code, manager, restarts, calls, pc, locals, cslot, gone>>

NoLease == [i \in Inst |-> None]
Code == [key : Key, gen : Nat]
Token == [slot : Slot, gen : Nat]
Row == [gen : Nat, st : {"free", "loading", "resident"}, key : Key \cup {None},
        leases : [Inst -> Pid \cup {None}]]
Watch == [kind : {"lease", "rebuilt", "loading", "budget"}, pid : Pid,
          inst : Inst \cup {None}, tok : Token \cup {None}]
Request == [op : {"claim", "publish", "abort", "release", "acquire", "return"},
            inst : Inst, tok : Token \cup {None}]
Claim == [pid : Pid, inst : Inst, slot : Slot \cup {None}, stuck : Nat,
          tried : SUBSET Slot]
Due == [slot : Slot, pid : Pid \cup {None}]

ASSUME RecordAssumption == None \notin Code \cup Token \cup Watch \cup Due

Alive(p) == pc[p] # "dead"
KeyFor(p) == KeyOf[at[p]]
SlotFor(p) == cslot[at[p]]

\* Mutant: a signed counter.
MutAdd(w, n) == w + n

(* The counter is unsigned.                                                *)
Add(w, n) == (w + n) % (Excl * Excl)

\* Mutant: a module without a hash has no stamp of its own.
MutStamp(k, g) == IF k \in Hashed THEN <<k, 0>> ELSE <<None, 0>>

(* What the code is built for and a caller must present (stamp/2): the     *)
(* hash of the module, or the generation of the slot.                      *)
Stamp(k, g) == IF k \in Hashed THEN <<k, 0>> ELSE <<None, g>>

Init ==
    /\ tab = [s \in Slot |-> [gen |-> 0, st |-> "free", key |-> None,
                              leases |-> NoLease]]
    /\ ctr = [s \in Slot |-> 0]
    /\ cur = [s \in Slot |-> None] /\ old = [s \in Slot |-> None]
    /\ hold = None /\ due = None /\ boot = FALSE
    /\ mon = {} /\ spent = 0 /\ restarts = 0
    /\ refs = [i \in Inst |-> None]
    /\ calls = [p \in Pid |-> None]
    /\ pc = [p \in Pid |-> IF p \in Caller THEN "out" ELSE "new"]
    /\ at = [p \in Pid |-> None] /\ tok = [p \in Pid |-> None]
    /\ owes = {}
    /\ want = [p \in Pid |-> 0] /\ ver = [p \in Pid |-> None]
    /\ cslot = [i \in Inst |-> None] /\ gone = {}

-----------------------------------------------------------------------------
(* Helpers of the manager.                                                 *)

Holds(s, k) == tab[s].st # "free" /\ tab[s].key = k
Found(k) == {s \in Slot : Holds(s, k)}
Empty == {s \in Slot : \/ tab[s].st = "free"
                       \/ tab[s].st = "resident" /\ tab[s].leases = NoLease}

(* prefer/2: the key's own slot first, the others in any order.            *)
Next1(k, tried) ==
    IF Home[k] \in Empty \ tried THEN {Home[k]} ELSE Empty \ tried

InOld(s) == {p \in Pid : pc[p] = "in" /\ SlotFor(p) = s /\ ver[p] = "old"}
\* Mutant: code:purge/1.
MutPurgeable(s) == TRUE

(* code:soft_purge/1 answers whether nobody runs the old code.             *)
Purgeable(s) == cur[s] = None \/ InOld(s) = {}
SoftPurge(s) == old' = IF cur[s] = None THEN old ELSE [old EXCEPT ![s] = None]

(* A process is done with the instance: a compiler exits, a caller goes on. *)
Done(p) ==
    /\ pc' = [pc EXCEPT ![p] = IF p \in Compiler THEN "dead" ELSE "out"]
    /\ at' = [at EXCEPT ![p] = None] /\ tok' = [tok EXCEPT ![p] = None]
    /\ want' = [want EXCEPT ![p] = 0] /\ ver' = [ver EXCEPT ![p] = None]
    /\ owes' = owes \ {p}

(* What a process does next, with the slot it was answered.                *)
Goes(p, l, t) ==
    /\ pc' = [pc EXCEPT ![p] = l] /\ tok' = [tok EXCEPT ![p] = t]
    /\ UNCHANGED <<at, owes, want, ver>>

(* gen_server:call/2: the sender waits.                                    *)
Send(p, op, i, t) == calls' = [calls EXCEPT ![p] =
                                   [op |-> op, inst |-> i, tok |-> t]]
Asks(p, op) == Send(p, op, at[p], tok[p]) /\ Goes(p, op, tok[p])

(* The manager takes a call out of its mailbox and answers it; nobody      *)
(* hears the answer if the sender has died.                                *)
Idle == hold = None /\ due = None
Handling(p, op) == Idle /\ ~boot /\ calls[p] # None /\ calls[p].op = op
Answered(p) == calls' = [calls EXCEPT ![p] = None]
Ends(p) ==
    /\ Answered(p)
    /\ IF Alive(p) THEN Done(p) ELSE UNCHANGED <<pc, locals>>
Hears(p, l, t) ==
    /\ Answered(p)
    /\ IF Alive(p) THEN Goes(p, l, t) ELSE UNCHANGED <<pc, locals>>

(* The monitors of a lease, a reservation and a share of the budget.       *)
OfLease(i, p) == [kind |-> "lease", pid |-> p, inst |-> i, tok |-> None]
OfRebuilt(i, p) == [kind |-> "rebuilt", pid |-> p, inst |-> i, tok |-> None]
OfToken(t, p) == [kind |-> "loading", pid |-> p, inst |-> None, tok |-> t]
OfBudget(p) == [kind |-> "budget", pid |-> p, inst |-> None, tok |-> None]

(* unmonitor/3 of the leases of some instances.                            *)
Unwatched(is) == mon \ {refs[i] : i \in is}
Forgotten(is) == [i \in Inst |-> IF i \in is THEN None ELSE refs[i]]
LeasesOf(s) == {i \in Inst : tab[s].leases[i] # None}

(* release_hold/1.                                                         *)
ReleaseHold(s) == ctr' = [ctr EXCEPT ![s] = Add(@, Excl * Excl - Excl)]

-----------------------------------------------------------------------------
(* claim_loading/3.                                                        *)

(* Somebody is filling the key in, or has: a lease that is there keeps its *)
(* owner (add/7).                                                          *)
ClaimFound(p) ==
    /\ Handling(p, "claim")
    /\ LET i == calls[p].inst IN \E s \in Found(KeyOf[i]) :
          \/ /\ tab[s].st = "loading" /\ Ends(p)
             /\ UNCHANGED <<tab, mon, refs>>
          \/ /\ tab[s].st = "resident" /\ tab[s].leases[i] # None
             /\ Hears(p, "adopt", [slot |-> s, gen |-> tab[s].gen])
             /\ UNCHANGED <<tab, mon, refs>>
          \/ /\ tab[s].st = "resident" /\ tab[s].leases[i] = None
             /\ Hears(p, "adopt", [slot |-> s, gen |-> tab[s].gen])
             /\ tab' = [tab EXCEPT ![s].leases[i] = p]
             /\ mon' = mon \cup {OfLease(i, p)}
             /\ refs' = [refs EXCEPT ![i] = OfLease(i, p)]
    /\ UNCHANGED <<ctr, code, hold, due, boot, spent, restarts, cslot, gone>>

ClaimMissing(p) ==
    /\ Handling(p, "claim") /\ Found(KeyOf[calls[p].inst]) = {}
    /\ hold' = [pid |-> p, inst |-> calls[p].inst, slot |-> None, stuck |-> 0,
                tried |-> {}]
    /\ UNCHANGED <<tab, ctr, code, due, boot, mon, refs, spent, restarts, calls, pc,
                   locals, cslot, gone>>

Choosing == hold # None /\ hold.slot = None
Candidates == Next1(KeyOf[hold.inst], hold.tried)
GivesUp(s) == [hold EXCEPT !.slot = None, !.stuck = 0, !.tried = @ \cup {s}]

(* take_exclusive/1: the first exchange.                                   *)
TakeExclusive(s) ==
    /\ Choosing /\ s \in Candidates
    /\ \/ /\ ctr[s] = 0
          /\ ctr' = [ctr EXCEPT ![s] = Excl]
          /\ hold' = [hold EXCEPT !.slot = s]
       \/ /\ ctr[s] > 0 /\ ctr[s] < Excl
          /\ hold' = [hold EXCEPT !.slot = s, !.stuck = ctr[s]]
          /\ UNCHANGED ctr
       \/ /\ ctr[s] >= Excl
          /\ hold' = GivesUp(s)
          /\ UNCHANGED ctr
    /\ UNCHANGED <<tab, code, due, boot, mon, refs, spent, restarts, calls, pc, locals,
                   cslot, gone>>

(* repair/3: a counter nobody gave back is taken over, if the old code can *)
(* be purged and the counter is still what it was.                         *)
Repair ==
    /\ hold # None /\ hold.slot # None /\ hold.stuck > 0
    /\ LET s == hold.slot IN
       \/ /\ ~Purgeable(s)
          /\ hold' = GivesUp(s) /\ UNCHANGED <<ctr, old>>
       \/ /\ Purgeable(s) /\ SoftPurge(s)
          /\ ctr[s] = hold.stuck
          /\ ctr' = [ctr EXCEPT ![s] = Excl]
          /\ hold' = [hold EXCEPT !.stuck = 0]
       \/ /\ Purgeable(s) /\ SoftPurge(s)
          /\ ctr[s] # hold.stuck
          /\ hold' = GivesUp(s) /\ UNCHANGED ctr
    /\ UNCHANGED <<tab, cur, due, boot, mon, refs, spent, restarts, calls, pc, locals,
                   cslot, gone>>

Held == hold # None /\ hold.slot # None /\ hold.stuck = 0

(* reusable/1: code that still runs sends the manager to the next slot.    *)
Refuse ==
    /\ Held /\ ~Purgeable(hold.slot)
    /\ ReleaseHold(hold.slot)
    /\ hold' = GivesUp(hold.slot)
    /\ UNCHANGED <<tab, code, due, boot, mon, refs, spent, restarts, calls, pc, locals,
                   cslot, gone>>

(* reserve/4: a new generation, the lease and the reservation watched.     *)
Reserve ==
    /\ Held /\ Purgeable(hold.slot) /\ SoftPurge(hold.slot)
    /\ LET s == hold.slot  p == hold.pid  i == hold.inst
           t == [slot |-> s, gen |-> tab[s].gen + 1]
       IN /\ tab' = [tab EXCEPT ![s] =
                        [gen |-> t.gen, st |-> "loading", key |-> KeyOf[i],
                         leases |-> [NoLease EXCEPT ![i] = p]]]
          /\ mon' = mon \cup {OfLease(i, p), OfToken(t, p)}
          /\ refs' = [refs EXCEPT ![i] = OfLease(i, p)]
          /\ Hears(p, IF p \in Compiler THEN "compile" ELSE "unclaim", t)
    /\ hold' = None
    /\ UNCHANGED <<ctr, cur, due, boot, spent, restarts, cslot, gone>>

NoSlot ==
    /\ Choosing /\ Candidates = {}
    /\ Ends(hold.pid)
    /\ hold' = None
    /\ UNCHANGED <<tab, ctr, code, due, boot, mon, refs, spent, restarts, cslot, gone>>
-----------------------------------------------------------------------------
(* The manager's other calls.                                              *)

Reserved(t) == tab[t.slot].gen = t.gen /\ tab[t.slot].st = "loading"

(* publish/1, after the load: the row, and then the hold.  A reservation   *)
(* that has moved on is stale, which fails the match in build/9.           *)
Publish(p) ==
    /\ Handling(p, "publish")
    /\ LET t == calls[p].tok IN
       \/ /\ Reserved(t)
          /\ tab' = [tab EXCEPT ![t.slot].st = "resident"]
          /\ due' = [slot |-> t.slot, pid |-> p]
          /\ mon' = {w \in mon : w.kind = "loading" => w.tok # t}
          /\ UNCHANGED <<calls, pc, locals>>
       \/ /\ ~Reserved(t) /\ UNCHANGED <<tab, due, mon>>
          /\ Hears(p, "leave", t)
    /\ UNCHANGED <<ctr, code, hold, boot, refs, spent, restarts, cslot, gone>>

Freed(row) == [row EXCEPT !.st = "free", !.key = None, !.leases = NoLease]

(* What abort/1 does to a reservation that still stands, for p or for a    *)
(* 'DOWN'; one that does not has no monitor left.                          *)
AbortRow(t, p) ==
    IF Reserved(t)
    THEN /\ tab' = [tab EXCEPT ![t.slot] = Freed(@)]
         /\ due' = [slot |-> t.slot, pid |-> p]
         /\ mon' = {w \in Unwatched(LeasesOf(t.slot)) :
                        w.kind = "loading" => w.tok # t}
         /\ refs' = Forgotten(LeasesOf(t.slot))
    ELSE UNCHANGED <<tab, due, mon, refs>>

Aborted(p) == IF p \in owes THEN Hears(p, "leave", calls[p].tok) ELSE Ends(p)

Abort(p) ==
    /\ Handling(p, "abort")
    /\ AbortRow(calls[p].tok, p)
    /\ IF Reserved(calls[p].tok) THEN UNCHANGED <<calls, pc, locals>>
       ELSE Aborted(p)
    /\ UNCHANGED <<ctr, code, hold, boot, spent, restarts, cslot, gone>>

(* The hold of a slot whose row has been written is given back, and then   *)
(* whoever asked is answered.                                              *)
EndHold ==
    /\ due # None /\ due' = None
    /\ ReleaseHold(due.slot)
    /\ LET p == due.pid IN
       \/ p = None /\ UNCHANGED <<calls, pc, locals>>
       \/ p # None /\ calls[p].op = "publish" /\ Hears(p, "adopt", calls[p].tok)
       \/ p # None /\ calls[p].op = "abort" /\ Aborted(p)
    /\ UNCHANGED <<tab, code, hold, boot, mon, refs, spent, restarts, cslot, gone>>

(* drop/3: the key stays on the slot, the lease and its monitor go.        *)
DropLease(i) ==
    /\ tab' = [s \in Slot |-> IF Holds(s, KeyOf[i])
                              THEN [tab[s] EXCEPT !.leases[i] = None]
                              ELSE tab[s]]
    /\ refs' = Forgotten({i})

Release(p) ==
    /\ Handling(p, "release")
    /\ DropLease(calls[p].inst)
    /\ mon' = Unwatched({calls[p].inst})
    /\ Ends(p)
    /\ UNCHANGED <<ctr, code, hold, due, boot, spent, restarts, cslot, gone>>

(* acquire/2: room in the budget, or nothing out.                          *)
Room == spent + Words <= Budget \/ spent = 0
Acquire(p) ==
    /\ Handling(p, "acquire")
    /\ \/ /\ Room
          /\ spent' = spent + Words
          /\ mon' = mon \cup {OfBudget(p)}
          /\ Answered(p)
          /\ IF Alive(p)
             THEN /\ pc' = [pc EXCEPT ![p] = "build"]
                  /\ owes' = owes \cup {p}
                  /\ UNCHANGED <<at, tok, want, ver>>
             ELSE UNCHANGED <<pc, locals>>
       \/ /\ ~Room
          /\ Hears(p, "unclaim", calls[p].tok)
          /\ UNCHANGED <<spent, mon>>
    /\ UNCHANGED <<tab, ctr, code, hold, due, boot, refs, restarts, cslot, gone>>

(* give_back/2.                                                            *)
GiveBack(p) ==
    /\ Handling(p, "return")
    /\ spent' = IF OfBudget(p) \in mon THEN spent - Words ELSE spent
    /\ mon' = mon \ {OfBudget(p)}
    /\ Ends(p)
    /\ UNCHANGED <<tab, ctr, code, hold, due, boot, refs, restarts, cslot, gone>>

(* A 'DOWN': the budget, the reservation or the lease of the dead process  *)
(* comes back, and the monitor goes.  What the process had sent before it  *)
(* died is ahead of it in the mailbox.                                     *)
Down(w) ==
    /\ Idle /\ ~boot /\ w \in mon /\ ~Alive(w.pid) /\ calls[w.pid] = None
    /\ \/ /\ w.kind = "budget"
          /\ spent' = spent - Words /\ mon' = mon \ {w}
          /\ UNCHANGED <<tab, due, refs>>
       \/ w.kind = "loading" /\ AbortRow(w.tok, None) /\ UNCHANGED spent
       \/ /\ w.kind \in {"lease", "rebuilt"}
          /\ DropLease(w.inst)
          /\ mon' = Unwatched({w.inst}) \ {w}
          /\ UNCHANGED <<due, spent>>
    /\ UNCHANGED <<ctr, code, hold, boot, restarts, calls, pc, locals, cslot, gone>>

\* Mutant: the monitors start empty.
MutRebuilt == {}

(* The leases in the rows, with the monitors init/1 takes out on them.     *)
Leases == {x \in Slot \X Inst : tab[x[1]].leases[x[2]] # None}
Rebuilt == {OfRebuilt(x[2], tab[x[1]].leases[x[2]]) : x \in Leases}

(* The manager dies with its mailbox and its monitors, also in init/1.     *)
(* The new one monitors every holder in the rows.                          *)
(* Whoever waits for an answer gets an exit instead: a compiler ends.      *)
Restart ==
    /\ restarts < MaxRestarts /\ restarts' = restarts + 1
    /\ hold' = None /\ due' = None /\ boot' = TRUE /\ spent' = 0
    /\ mon' = Rebuilt
    /\ refs' = [i \in Inst |-> IF \E w \in Rebuilt : w.inst = i
                              THEN CHOOSE w \in Rebuilt : w.inst = i ELSE None]
    /\ LET waiting == {p \in Pid : Alive(p) /\ calls[p] # None}
       IN /\ pc' = [p \in Pid |-> IF p \notin waiting THEN pc[p]
                                 ELSE IF p \in Compiler THEN "dead" ELSE "out"]
          /\ at' = [p \in Pid |-> IF p \in waiting THEN None ELSE at[p]]
          /\ tok' = [p \in Pid |-> IF p \in waiting THEN None ELSE tok[p]]
          /\ owes' = owes \ waiting
    /\ calls' = [p \in Pid |-> None]
    /\ UNCHANGED <<tab, ctr, code, want, ver, cslot, gone>>

(* Then it frees the slots that were being filled, one after the other,    *)
(* the row before the hold ...                                             *)
FreeRow(s) ==
    /\ Idle /\ boot /\ tab[s].st = "loading"
    /\ tab' = [tab EXCEPT ![s] = Freed(@)]
    /\ due' = [slot |-> s, pid |-> None]
    /\ UNCHANGED <<ctr, code, hold, boot, mon, refs, spent, restarts, calls, pc,
                   locals, cslot, gone>>

(* ... and serves.                                                         *)
Serve ==
    /\ Idle /\ boot /\ \A s \in Slot : tab[s].st # "loading"
    /\ boot' = FALSE
    /\ UNCHANGED <<tab, ctr, code, hold, due, mon, refs, spent, restarts, calls, pc,
                   locals, cslot, gone>>

-----------------------------------------------------------------------------
(* Compilers (compiler_loop/0, compile/4, generate/5, admitted/9, build/9) *)

Start(c, i) ==
    /\ pc[c] = "new" /\ i \notin gone
    /\ Send(c, "claim", i, None)
    /\ pc' = [pc EXCEPT ![c] = "claim"] /\ at' = [at EXCEPT ![c] = i]
    /\ UNCHANGED <<tab, ctr, code, manager, restarts, tok, owes, want, ver,
                   cslot, gone>>

outside == <<tab, ctr, code, manager, restarts, cslot, gone>>

\* Mutant: an artifact of the cache is published and not loaded.
MutHit(c) == /\ pc[c] = "compile" /\ KeyFor(c) \in Hashed
             /\ Goes(c, "loaded", tok[c]) /\ UNCHANGED <<calls, outside>>

(* The compile needs admission, unless the cache has the artifact; or it   *)
(* is refused, or has nothing to compile, and gives the slot up.           *)
Admit(c) == pc[c] = "compile" /\ Asks(c, "acquire") /\ UNCHANGED outside
Hit(c) == /\ pc[c] = "compile" /\ KeyFor(c) \in Hashed /\ Goes(c, "build", tok[c])
          /\ UNCHANGED <<calls, outside>>
Unclaim(p) == /\ pc[p] \in {"compile", "build", "unclaim"}
              /\ Asks(p, "abort") /\ UNCHANGED outside

(* code:load_binary/3.                                                     *)
Load(c) ==
    /\ pc[c] = "build"
    /\ LET s == tok[c].slot
           inside == {p \in Pid : pc[p] = "in" /\ SlotFor(p) = s}
       IN /\ cur' = [cur EXCEPT ![s] = [key |-> KeyFor(c), gen |-> tok[c].gen]]
          /\ old' = [old EXCEPT ![s] = cur[s]]
          /\ pc' = [p \in Pid |-> IF p = c THEN "loaded"
                                 ELSE IF p \in InOld(s) THEN "dead" ELSE pc[p]]
          /\ ver' = [p \in Pid |-> CASE p \in InOld(s) -> None
                                      [] p \in inside \ InOld(s) -> "old"
                                      [] OTHER -> ver[p]]
          /\ at' = [p \in Pid |-> IF p \in InOld(s) THEN None ELSE at[p]]
          /\ want' = [p \in Pid |-> IF p \in InOld(s) THEN 0 ELSE want[p]]
    /\ UNCHANGED <<tab, ctr, manager, restarts, calls, tok, owes, cslot, gone>>

Loaded(c) == pc[c] = "loaded" /\ Asks(c, "publish") /\ UNCHANGED outside

(* adopt/2: the first to set the slot of the instance sets it for good.    *)
Adopt(p) ==
    /\ pc[p] = "adopt"
    /\ cslot' = IF SlotFor(p) = None
                THEN [cslot EXCEPT ![at[p]] = tok[p].slot] ELSE cslot
    /\ \/ p \notin owes /\ Done(p) /\ UNCHANGED calls
       \/ p \in owes /\ Asks(p, "return")
    /\ UNCHANGED <<tab, ctr, code, manager, restarts, gone>>

(* A compile that failed on the way: the budget goes back all the same.    *)
Leave(c) ==
    /\ pc[c] = "leave"
    /\ \/ c \notin owes /\ Done(c) /\ UNCHANGED calls
       \/ c \in owes /\ Asks(c, "return")
    /\ UNCHANGED outside

-----------------------------------------------------------------------------
(* Callers (entry/3, maybe_adopt/3, hashed_entry/6, generational_entry/4)  *)

(* The key is resident: claim it, in adopt mode.                           *)
Claims(p, i) ==
    /\ pc[p] = "out" /\ i \notin gone /\ cslot[i] = None
    /\ \E s \in Found(KeyOf[i]) : tab[s].st = "resident"
    /\ Send(p, "claim", i, None)
    /\ pc' = [pc EXCEPT ![p] = "claim"] /\ at' = [at EXCEPT ![p] = i]
    /\ UNCHANGED <<outside, tok, owes, want, ver>>

(* take/2.  A content hash needs no look at the row (lease_at/2).          *)
Take(p, i) ==
    /\ pc[p] = "out" /\ i \notin gone /\ cslot[i] # None
    /\ LET v == Add(ctr[cslot[i]], 1)
       IN /\ ctr' = [ctr EXCEPT ![cslot[i]] = v]
          /\ pc' = [pc EXCEPT ![p] = CASE v >= Excl -> "backout"
                                       [] v < Excl /\ KeyOf[i] \in Hashed -> "ready"
                                       [] OTHER -> "check"]
    /\ at' = [at EXCEPT ![p] = i]
    /\ UNCHANGED <<tab, code, manager, restarts, calls, tok, owes, want, ver,
                   cslot, gone>>

(* lease_call/2 looks which key the slot holds.                            *)
Check(p) ==
    /\ pc[p] = "check"
    /\ LET r == tab[SlotFor(p)]
       IN \/ /\ r.st = "resident" /\ r.key = KeyFor(p)
             /\ pc' = [pc EXCEPT ![p] = "ready"]
             /\ want' = [want EXCEPT ![p] = r.gen]
          \/ /\ ~(r.st = "resident" /\ r.key = KeyFor(p))
             /\ pc' = [pc EXCEPT ![p] = "backout"] /\ UNCHANGED want
    /\ UNCHANGED <<outside, calls, at, tok, owes, ver>>

(* Mod:invoke/6: generated code lets in who brings its stamp.  A caller it *)
(* refuses interprets, and keeps its lease meanwhile.                      *)
Invoke(p) ==
    /\ pc[p] \in {"ready", "mixed"}
    /\ LET c == cur[SlotFor(p)]
       IN \/ /\ Stamp(c.key, c.gen) = Stamp(KeyFor(p), want[p])
             /\ pc' = [pc EXCEPT ![p] = "in"]
             /\ ver' = [ver EXCEPT ![p] = "cur"]
          \/ /\ Stamp(c.key, c.gen) # Stamp(KeyFor(p), want[p])
             /\ pc[p] = "ready"
             /\ pc' = [pc EXCEPT ![p] = "backout"] /\ UNCHANGED ver
    /\ UNCHANGED <<outside, calls, at, tok, owes, want>>

(* not_compiled: the interpreter goes on, and may call generated code      *)
(* again with the same stamp.                                              *)
Miss(p) ==
    /\ pc[p] = "in"
    /\ pc' = [pc EXCEPT ![p] = "mixed"] /\ ver' = [ver EXCEPT ![p] = None]
    /\ UNCHANGED <<outside, calls, at, tok, owes, want>>

(* release_at/2, release_call/1, and the sub of a lease that is refused.   *)
GiveLease(p) ==
    /\ pc[p] \in {"mixed", "in", "backout"}
    /\ ctr' = [ctr EXCEPT ![SlotFor(p)] = Add(@, Excl * Excl - 1)]
    /\ Done(p)
    /\ UNCHANGED <<tab, code, manager, restarts, calls, cslot, gone>>

(* wasm:destroy/1 gives the instance's lease back (release/1).             *)
Destroy(p, i) ==
    /\ pc[p] = "out" /\ i \in Doomed \ gone
    /\ gone' = gone \cup {i}
    /\ Send(p, "release", i, None)
    /\ pc' = [pc EXCEPT ![p] = "release"] /\ at' = [at EXCEPT ![p] = i]
    /\ UNCHANGED <<tab, ctr, code, manager, restarts, tok, owes, want, ver,
                   cslot>>

(* A process is killed: no after clause runs.                              *)
Kill(p) ==
    /\ p \in Mortal /\ pc[p] \notin {"new", "dead"}
    /\ pc' = [pc EXCEPT ![p] = "dead"]
    /\ at' = [at EXCEPT ![p] = None] /\ tok' = [tok EXCEPT ![p] = None]
    /\ want' = [want EXCEPT ![p] = 0] /\ ver' = [ver EXCEPT ![p] = None]
    /\ owes' = owes \ {p}
    /\ UNCHANGED <<outside, calls>>

Handle(p) ==
    \/ ClaimFound(p) \/ ClaimMissing(p) \/ Publish(p) \/ Abort(p)
    \/ Release(p) \/ Acquire(p) \/ GiveBack(p)
Search == (\E s \in Slot : TakeExclusive(s)) \/ Repair \/ Refuse \/ Reserve \/ NoSlot
Compiling(c) ==
    \/ \E i \in Jobs[c] : Start(c, i)
    \/ Admit(c) \/ Hit(c) \/ Load(c) \/ Loaded(c) \/ Leave(c)
Calling(p) ==
    \/ \E i \in Handles[p] : Claims(p, i) \/ Take(p, i) \/ Destroy(p, i)
    \/ Check(p) \/ Invoke(p) \/ Miss(p) \/ GiveLease(p)

Next ==
    \/ \E p \in Pid : Handle(p) \/ Unclaim(p) \/ Adopt(p) \/ Kill(p)
    \/ Search \/ EndHold \/ Restart \/ Serve \/ \E s \in Slot : FreeRow(s)
    \/ \E w \in mon : Down(w)
    \/ \E c \in Compiler : Compiling(c)
    \/ \E p \in Caller : Calling(p)

Spec == Init /\ [][Next]_vars

-----------------------------------------------------------------------------
(* Properties.                                                             *)

TypeOK ==
    /\ tab \in [Slot -> Row]
    /\ ctr \in [Slot -> 0 .. Excl * Excl - 1]
    /\ cur \in [Slot -> Code \cup {None}] /\ old \in [Slot -> Code \cup {None}]
    /\ hold \in Claim \cup {None} /\ due \in Due \cup {None} /\ boot \in BOOLEAN
    /\ mon \subseteq Watch /\ refs \in [Inst -> Watch \cup {None}]
    /\ spent \in Nat /\ restarts \in 0 .. MaxRestarts
    /\ calls \in [Pid -> Request \cup {None}]
    /\ pc \in [Pid -> {"new", "claim", "compile", "acquire", "build", "loaded",
                       "publish", "unclaim", "abort", "adopt", "leave", "return",
                       "out", "release", "check", "ready", "in", "mixed",
                       "backout", "dead"}]
    /\ at \in [Pid -> Inst \cup {None}] /\ tok \in [Pid -> Token \cup {None}]
    /\ owes \subseteq Compiler
    /\ want \in [Pid -> Nat] /\ ver \in [Pid -> {"cur", "old", None}]
    /\ cslot \in [Inst -> Slot \cup {None}] /\ gone \subseteq Inst

(* The code a caller is inside of is still loaded, and was generated for   *)
(* the module of its instance: whatever slots were taken over, whoever     *)
(* died, and although the manager restarted (the stamp invoke_fn/4 checks; *)
(* code:soft_purge/1 instead of code:purge/1).                             *)
RightCode ==
    \A p \in Pid : pc[p] = "in" =>
        LET c == IF ver[p] = "cur" THEN cur[SlotFor(p)] ELSE old[SlotFor(p)]
        IN c # None /\ c.key = KeyFor(p)

(* Unless the manager was restarted, a compiler about to load finds nobody *)
(* in the old code of its slot, whom the load would kill: the purge of the *)
(* reservation still stands.                                               *)
LoadKillsNobody ==
    restarts = 0 => \A c \in Compiler : pc[c] = "build" => InOld(tok[c].slot) = {}

(* Unless the manager was restarted, the code of a resident slot is what   *)
(* the row says: its key, its generation.                                  *)
ResidentLoaded ==
    restarts = 0 =>
        \A s \in Slot : tab[s].st = "resident" =>
            cur[s] = [key |-> tab[s].key, gen |-> tab[s].gen]

(* Whoever has a lease or a reservation in a row is watched by the manager *)
(* that is running, so his death gives it back; init/1 frees what it finds *)
(* reserved.                                                               *)
HoldersWatched ==
    \A s \in Slot :
        /\ \A i \in LeasesOf(s) : \E w \in mon :
              w.kind \in {"lease", "rebuilt"} /\ w.inst = i /\ w.pid = tab[s].leases[i]
        /\ tab[s].st = "loading" /\ ~boot => \E w \in mon :
              w.kind = "loading" /\ w.tok = [slot |-> s, gen |-> tab[s].gen]
====
