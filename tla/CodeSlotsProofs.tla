-------------------------- MODULE CodeSlotsProofs ---------------------------
(***************************************************************************)
(* For any pool, any number of processes, kills and restarts of the        *)
(* manager: callers run the code of their own module (Inv), the manager's  *)
(* books cover every lease, reservation and share (Books), and until the   *)
(* manager is restarted a reservation keeps its one owner, its row and a   *)
(* slot whose old code nobody runs (Fresh).                                *)
(*                                                                         *)
(* A slot and a generation belong to one key for ever: reserve/4 alone     *)
(* makes a generation, and makes it new.  Owns collects all who claim to   *)
(* know whose a generation is; every other step only forgets such claims.  *)
(***************************************************************************)
EXTENDS CodeSlots, FiniteSetTheorems, TLAPS

Label == {"new", "claim", "compile", "acquire", "build", "loaded", "publish",
          "unclaim", "abort", "adopt", "leave", "return", "out", "release", "check",
          "ready", "in", "mixed", "backout", "dead"}

Holding(p, i, s, n, x) == [pid |-> p, inst |-> i, slot |-> s, stuck |-> n, tried |-> x]
RowTypes ==
    /\ tab \in [Slot -> Row]
    /\ cur \in [Slot -> Code \cup {None}] /\ old \in [Slot -> Code \cup {None}]
    /\ hold # None => /\ hold.pid \in Pid /\ hold.inst \in Inst /\ hold.slot \in Slot \cup {None}
                      /\ hold = Holding(hold.pid, hold.inst, hold.slot, hold.stuck, hold.tried)
    /\ due # None => due.pid \in Pid \cup {None}
    /\ cslot \in [Inst -> Slot \cup {None}]
LocalTypes ==
    /\ calls \in [Pid -> Request \cup {None}]
    /\ pc \in [Pid -> Label]
    /\ at \in [Pid -> Inst \cup {None}] /\ tok \in [Pid -> Token \cup {None}]
    /\ want \in [Pid -> Nat] /\ ver \in [Pid -> {"cur", "old", None}]
Types == RowTypes /\ LocalTypes

Calls == {"check", "ready", "in", "mixed", "backout"}

\* A compiler between claim and publish has a reservation and an instance.
TokOK ==
    \A p \in Pid :
        /\ pc[p] \in {"compile", "acquire", "build", "loaded", "publish", "unclaim",
                      "abort", "adopt", "leave"} => tok[p] # None
        /\ tok[p] # None => at[p] # None
\* Nobody else has one.
IdleOK == \A p \in Pid : pc[p] \in {"new", "out", "dead", "claim"} \cup Calls => tok[p] = None
\* A caller on its way has an instance with a slot.
PlaceOK == \A p \in Pid : pc[p] \in Calls => at[p] \in Inst /\ cslot[at[p]] \in Slot
\* Whoever was answered a slot, or published one, finds code in it.
FilledOK ==
    /\ \A p \in Pid : /\ pc[p] \in {"loaded", "publish", "adopt"} => cur[tok[p].slot] # None
                      /\ calls[p] # None /\ calls[p].op = "publish" =>
                            cur[calls[p].tok.slot] # None
    /\ \A s \in Slot : tab[s].st = "resident" => cur[s] # None
    /\ \A i \in Inst : cslot[i] # None => cur[cslot[i]] # None
\* A call is what its sender waits for, while the sender lives.
CallsOK ==
    \A p \in Pid : calls[p] # None =>
        /\ Alive(p) => pc[p] = calls[p].op /\ at[p] = calls[p].inst /\ tok[p] = calls[p].tok
        /\ calls[p].op \in {"acquire", "publish", "abort"} => calls[p].tok # None
\* The claim in hand is a call, and so is what a hold is given back for.
HoldOK ==
    /\ hold # None => /\ calls[hold.pid] # None
                      /\ calls[hold.pid].op = "claim" /\ calls[hold.pid].inst = hold.inst
    /\ due # None =>
          /\ hold = None
          /\ due.pid # None => /\ calls[due.pid] # None
                               /\ calls[due.pid].op \in {"publish", "abort"}
InsideOK == \A p \in Pid : pc[p] = "in" => ver[p] \in {"cur", "old"}

Flow == TokOK /\ IdleOK /\ PlaceOK /\ FilledOK /\ CallsOK /\ HoldOK /\ InsideOK

\* Somebody says that generation g of slot s is key k's: the row, the loaded code,
\* a reservation, or a caller that was answered the generation.
Answered1(p, s, g, k) ==
    /\ pc[p] \in {"ready", "in", "mixed"} /\ KeyOf[at[p]] \notin Hashed
    /\ cslot[at[p]] = s /\ want[p] = g /\ KeyOf[at[p]] = k
Owns(s, g, k) ==
    \/ tab[s].st # "free" /\ tab[s].gen = g /\ tab[s].key = k
    \/ cur[s] # None /\ cur[s].gen = g /\ cur[s].key = k
    \/ \E p \in Pid : tok[p] # None /\ tok[p].slot = s /\ tok[p].gen = g /\ KeyOf[at[p]] = k
    \/ \E p \in Pid : Answered1(p, s, g, k)

\* They all say the same, and of generations that were made.
Coherent ==
    /\ \A s \in Slot, g \in Nat, k1, k2 \in Key : Owns(s, g, k1) /\ Owns(s, g, k2) => k1 = k2
    /\ \A s \in Slot, g \in Nat, k \in Key : Owns(s, g, k) => g <= tab[s].gen

Inv == Types /\ Flow /\ Coherent /\ RightCode
Forgets ==
    /\ \A s \in Slot, g \in Nat, k \in Key : Owns(s, g, k)' => Owns(s, g, k)
    /\ \A s \in Slot : tab'[s].gen = tab[s].gen
-----------------------------------------------------------------------------
\* A step that only forgets stays coherent.
LEMMA ForgetsCoherent == ASSUME Coherent, Forgets PROVE Coherent'
BY DEF Coherent, Forgets

\* A process that waits for nothing has no call in the mailbox.
LEMMA NoCall ==
    ASSUME Types, CallsOK, NEW p \in Pid,
           pc[p] \notin {"claim", "publish", "abort", "release", "acquire", "return", "dead"}
    PROVE  calls[p] = None
BY DEF Types, LocalTypes, CallsOK, Request, Alive

-----------------------------------------------------------------------------
(* What the shared parts of the actions do to the processes.               *)

Same(q) ==
    /\ pc'[q] = pc[q] /\ at'[q] = at[q] /\ tok'[q] = tok[q] /\ want'[q] = want[q]
    /\ ver'[q] = ver[q]
Others(p) == \A q \in Pid \ {p} : Same(q) /\ calls'[q] = calls[q]
Over(p) == pc'[p] \in {"dead", "out"} /\ tok'[p] = None
Moved(p, l, t) == pc'[p] = l /\ tok'[p] = t /\ at'[p] = at[p]

LEMMA DoneEffect ==
    ASSUME LocalTypes, NEW p \in Pid, Done(p), UNCHANGED calls
    PROVE  LocalTypes' /\ Others(p) /\ Over(p)
BY DEF LocalTypes, Done, Others, Same, Over, Label

LEMMA EndsEffect ==
    ASSUME LocalTypes, IdleOK, NEW p \in Pid, Ends(p)
    PROVE  LocalTypes' /\ Others(p) /\ Over(p) /\ calls'[p] = None
<1>1. CASE Alive(p)
  <2>1. Done(p) /\ Answered(p)
    BY <1>1 DEF Ends
  <2> QED BY <2>1 DEF LocalTypes, Done, Answered, Others, Same, Over, Label
<1>2. CASE ~Alive(p)
  <2>1. UNCHANGED <<pc, at, tok, want, ver>> /\ Answered(p)
    BY <1>2 DEF Ends, locals
  <2> QED BY <1>2, <2>1 DEF LocalTypes, Answered, Others, Same, Over, Label, Alive, IdleOK
<1> QED BY <1>1, <1>2

LEMMA HearsEffect ==
    ASSUME LocalTypes, NEW p \in Pid, NEW l \in Label, NEW t \in Token, Hears(p, l, t)
    PROVE  /\ LocalTypes' /\ Others(p) /\ calls'[p] = None
           /\ Alive(p) => Moved(p, l, t)
           /\ ~Alive(p) => Same(p)
<1>1. CASE Alive(p)
  <2>1. Goes(p, l, t) /\ Answered(p)
    BY <1>1 DEF Hears
  <2> QED BY <1>1, <2>1 DEF LocalTypes, Goes, Answered, Others, Same, Moved
<1>2. CASE ~Alive(p)
  <2>1. UNCHANGED <<pc, at, tok, want, ver>> /\ Answered(p)
    BY <1>2 DEF Hears, locals
  <2> QED BY <1>2, <2>1 DEF LocalTypes, Answered, Others, Same
<1> QED BY <1>1, <1>2

LEMMA AsksEffect ==
    ASSUME LocalTypes, NEW p \in Pid, at[p] \in Inst,
           NEW op \in {"claim", "publish", "abort", "release", "acquire", "return"},
           Asks(p, op)
    PROVE  /\ LocalTypes' /\ Others(p) /\ Moved(p, op, tok[p])
           /\ calls'[p] = [op |-> op, inst |-> at[p], tok |-> tok[p]]
<1>1. [op |-> op, inst |-> at[p], tok |-> tok[p]] \in Request
  BY DEF LocalTypes, Request
<1> QED BY <1>1 DEF LocalTypes, Asks, Send, Goes, Others, Same, Moved, Label
-----------------------------------------------------------------------------
(* Steps that leave generations alone.                                     *)

\* Rows are freed, published or lose leases.
RowsKept ==
    /\ tab' \in [Slot -> Row]
    /\ \A s \in Slot :
          /\ tab'[s].gen = tab[s].gen
          /\ tab'[s].st # "free" => tab[s].st # "free" /\ tab'[s].key = tab[s].key
          /\ tab'[s].st = "resident" => cur[s] # None
\* Instances without a slot may adopt one with code.
Adopted ==
    /\ cslot' \in [Inst -> Slot \cup {None}]
    /\ \A i \in Inst : \/ cslot'[i] = cslot[i]
                       \/ cslot[i] = None /\ cslot'[i] # None /\ cur[cslot'[i]] # None
\* The manager is at rest before and after, or goes on with another's claim.
HoldKept(p) ==
    /\ hold' = None \/ (hold' = hold /\ hold.pid # p)
    /\ due' = None \/ (due' = due /\ due.pid # p)
Kept(p) == RowsKept /\ Adopted /\ UNCHANGED <<cur, old>> /\ HoldKept(p)

LEMMA KeptRows ==
    ASSUME Inv, NEW p \in Pid, Kept(p), Others(p), LocalTypes'
    PROVE  Types'
BY DEF Inv, Types, RowTypes, Kept, RowsKept, Adopted, HoldKept

\* A process leaves.
LEMMA OverKeeps ==
    ASSUME Inv, NEW p \in Pid, Kept(p), Others(p), Over(p), LocalTypes', calls'[p] = None
    PROVE  Inv'
<1> USE DEF Inv, Flow
<1>1. Types'
  BY KeptRows
<1>2. TokOK' /\ IdleOK' /\ InsideOK'
  BY DEF TokOK, IdleOK, InsideOK, Others, Same, Over, Calls
<1>3. PlaceOK'
  BY <1>1 DEF PlaceOK, Others, Same, Over, Calls, Kept, Adopted, Types, LocalTypes
<1>4. FilledOK'
  BY DEF FilledOK, Others, Same, Over, Kept, RowsKept, Adopted
<1>5. CallsOK' /\ HoldOK'
  BY DEF CallsOK, HoldOK, Others, Same, Kept, HoldKept, Alive, Types, RowTypes
<1>6. Forgets
  <2>1. \A q \in Pid : tok'[q] # None \/ pc'[q] \in {"ready", "in", "mixed"} => Same(q)
    BY DEF Others, Over
  <2>2. \A q \in Pid : pc'[q] \in {"ready", "in", "mixed"} => cslot'[at'[q]] = cslot[at[q]]
    BY <2>1, SlotsAssumption DEF Same, Kept, Adopted, PlaceOK, Calls
  <2> QED BY <2>1, <2>2 DEF Forgets, Owns, Answered1, Same, Kept, RowsKept
<1>7. Coherent'
  BY <1>6, ForgetsCoherent
<1>8. RightCode'
  BY SlotsAssumption DEF RightCode, SlotFor, KeyFor, Others, Same, Over, Kept, Adopted, PlaceOK, Calls
<1> QED BY <1>1, <1>2, <1>3, <1>4, <1>5, <1>7, <1>8

\* A process learns of a generation that was known.
LEMMA LearnsKeeps ==
    ASSUME Inv, NEW p \in Pid, Kept(p), calls'[p] = None, LocalTypes', Others(p),
           NEW l \in {"adopt", "leave", "unclaim", "build"}, NEW t \in Token,
           Alive(p) => Moved(p, l, t),
           ~Alive(p) => Same(p),
           Alive(p) => at[p] # None /\ Owns(t.slot, t.gen, KeyOf[at[p]]),
           l = "adopt" => cur[t.slot] # None
    PROVE  Inv'
<1> USE DEF Inv, Flow
<1>1. Types'
  BY KeptRows
<1>2. TokOK' /\ IdleOK' /\ InsideOK'
  BY RecordAssumption DEF TokOK, IdleOK, InsideOK, Others, Same, Moved, Calls, Alive
<1>3. PlaceOK'
  BY <1>1 DEF PlaceOK, Others, Same, Moved, Calls, Kept, Adopted, Types, LocalTypes
<1>4. FilledOK'
  BY DEF FilledOK, Others, Same, Moved, Kept, RowsKept, Adopted, Alive
<1>5. CallsOK' /\ HoldOK'
  BY DEF CallsOK, HoldOK, Others, Same, Kept, HoldKept, Alive, Types, RowTypes
<1>6. Forgets
  <2>1. SUFFICES ASSUME NEW s \in Slot, NEW g \in Nat, NEW k \in Key, Owns(s, g, k)'
                 PROVE  Owns(s, g, k)
    BY DEF Forgets, Kept, RowsKept
  <2>2. CASE tab'[s].st # "free" /\ tab'[s].gen = g /\ tab'[s].key = k
    BY <2>2 DEF Owns, Kept, RowsKept
  <2>3. CASE cur'[s] # None /\ cur'[s].gen = g /\ cur'[s].key = k
    BY <2>3 DEF Owns, Kept
  <2>4. ASSUME NEW q \in Pid, tok'[q] # None /\ tok'[q].slot = s /\ tok'[q].gen = g /\ KeyOf[at'[q]] = k
        PROVE  Owns(s, g, k)
    <3>1. CASE q = p /\ Alive(p)
      <4>1. tok'[p] = t /\ at'[p] = at[p]
        BY <3>1 DEF Moved
      <4> QED BY <2>4, <3>1, <4>1
    <3>2. CASE ~(q = p /\ Alive(p))
      BY <2>4, <3>2 DEF Owns, Others, Same
    <3> QED BY <3>1, <3>2
  <2>5. ASSUME NEW q \in Pid, Answered1(q, s, g, k)'
        PROVE  Owns(s, g, k)
    <3>1. Same(q)
      BY <2>5 DEF Answered1, Others, Moved
    <3> QED BY <2>5, <3>1, SlotsAssumption DEF Answered1, Owns, Same, Kept, Adopted, PlaceOK, Calls
  <2> QED BY <2>1, <2>2, <2>3, <2>4, <2>5 DEF Owns
<1>7. Coherent'
  BY <1>6, ForgetsCoherent
<1>8. RightCode'
  BY SlotsAssumption DEF RightCode, SlotFor, KeyFor, Others, Same, Moved, Kept, Adopted, PlaceOK, Calls
<1> QED BY <1>1, <1>2, <1>3, <1>4, <1>5, <1>7, <1>8

\* A process asks the manager.
LEMMA AsksKeeps ==
    ASSUME Inv, NEW p \in Pid, Kept(p), calls[p] = None, at[p] \in Inst, tok[p] # None,
           NEW op \in {"publish", "abort", "acquire", "return"}, Asks(p, op),
           op = "publish" => cur[tok[p].slot] # None
    PROVE  Inv'
<1> USE DEF Inv, Flow
<1>a. /\ LocalTypes' /\ Others(p) /\ Moved(p, op, tok[p])
      /\ calls'[p] = [op |-> op, inst |-> at[p], tok |-> tok[p]]
  BY AsksEffect DEF Types
<1>1. Types'
  BY <1>a, KeptRows
<1>2. TokOK' /\ IdleOK' /\ InsideOK'
  BY <1>a, RecordAssumption DEF TokOK, IdleOK, InsideOK, Others, Same, Moved, Calls
<1>3. PlaceOK'
  BY <1>a, <1>1 DEF PlaceOK, Others, Same, Moved, Calls, Kept, Adopted, Types, LocalTypes
<1>4. FilledOK'
  BY <1>a DEF FilledOK, Others, Same, Moved, Kept, RowsKept, Adopted
<1>5. CallsOK' /\ HoldOK'
  BY <1>a DEF CallsOK, HoldOK, Others, Same, Moved, Kept, HoldKept, Alive, Types, RowTypes
<1>6. Forgets
  <2>1. \A q \in Pid : at'[q] = at[q] /\ tok'[q] = tok[q]
    BY <1>a DEF Others, Same, Moved
  <2>2. \A q \in Pid : pc'[q] \in {"ready", "in", "mixed"} => Same(q)
    BY <1>a DEF Others, Moved
  <2> QED BY <2>1, <2>2, SlotsAssumption DEF Forgets, Owns, Answered1, Same, Kept, RowsKept, Adopted, PlaceOK, Calls
<1>7. Coherent'
  BY <1>6, ForgetsCoherent
<1>8. RightCode'
  BY <1>a, SlotsAssumption DEF RightCode, SlotFor, KeyFor, Others, Same, Moved, Kept, Adopted, PlaceOK, Calls
<1> QED BY <1>1, <1>2, <1>3, <1>4, <1>5, <1>7, <1>8

\* The manager works on its rows.
LEMMA RestsKeeps ==
    ASSUME Inv, RowsKept, UNCHANGED <<cur, old, hold, calls, pc, at, tok, want, ver, cslot>>,
           due' # None => due'.pid \in Pid \cup {None}, HoldOK'
    PROVE  Inv'
<1> USE DEF Inv, Flow
<1>1. Types'
  BY DEF Types, RowTypes, LocalTypes, RowsKept
<1>2. Flow'
  BY DEF TokOK, IdleOK, PlaceOK, FilledOK, CallsOK, HoldOK, InsideOK, Alive, RowsKept
<1>3. Forgets
  BY DEF Forgets, Owns, Answered1, RowsKept
<1>4. Coherent'
  BY <1>3, ForgetsCoherent
<1>5. RightCode'
  BY DEF RightCode, SlotFor, KeyFor
<1> QED BY <1>1, <1>2, <1>4, <1>5
-----------------------------------------------------------------------------
(* The manager's calls.                                                    *)

\* The sender of a call that is handled.
LEMMA Sender ==
    ASSUME Inv, NEW p \in Pid, NEW op, Handling(p, op)
    PROVE  /\ hold = None /\ due = None /\ calls[p] \in Request /\ calls[p] # None /\ calls[p].op = op
           /\ Alive(p) => pc[p] = op /\ at[p] = calls[p].inst /\ tok[p] = calls[p].tok
           /\ op \in {"acquire", "publish", "abort"} => calls[p].tok \in Token
BY DEF Inv, Types, LocalTypes, Flow, CallsOK, Handling, Idle, Request

\* No row changes.
LEMMA SameRows ==
    ASSUME Inv, tab' = tab
    PROVE  RowsKept
BY DEF Inv, Types, RowTypes, Flow, FilledOK, RowsKept

\* A lease comes and goes without a trace in the rest of the row.
LEMMA LeasesOnly ==
    ASSUME Inv, tab' \in [Slot -> Row],
           \A s \in Slot : /\ tab'[s].gen = tab[s].gen /\ tab'[s].st = tab[s].st
                           /\ tab'[s].key = tab[s].key
    PROVE  RowsKept
BY DEF Inv, Types, RowTypes, Flow, FilledOK, RowsKept

LEMMA DropRows == ASSUME Inv, NEW i, DropLease(i) PROVE RowsKept
<1>1. tab \in [Slot -> Row]
  BY DEF Inv, Types, RowTypes
<1>2. tab' = [s \in Slot |-> IF Holds(s, KeyOf[i]) THEN [tab[s] EXCEPT !.leases[i] = None]
                             ELSE tab[s]]
  BY DEF DropLease
<1>3. ASSUME NEW s \in Slot
      PROVE  /\ tab'[s] \in Row /\ tab'[s].gen = tab[s].gen /\ tab'[s].st = tab[s].st
             /\ tab'[s].key = tab[s].key
  BY <1>1, <1>2 DEF Row
<1>4. tab' \in [Slot -> Row]
  BY <1>2, <1>3
<1> QED BY <1>3, <1>4, LeasesOnly

LEMMA AbortRows == ASSUME Inv, NEW t, NEW p, AbortRow(t, p) PROVE RowsKept
<1>1. CASE ~Reserved(t)
  BY <1>1, SameRows DEF AbortRow
<1>2. CASE Reserved(t)
  <2>1. tab' = [tab EXCEPT ![t.slot] = [@ EXCEPT !.st = "free", !.key = None,
                                                 !.leases = NoLease]]
    BY <1>2 DEF AbortRow, Freed
  <2>2. tab \in [Slot -> Row] /\ NoLease \in [Inst -> Pid \cup {None}]
    BY DEF Inv, Types, RowTypes, NoLease
  <2>3. tab' \in [Slot -> Row]
    BY <2>1, <2>2 DEF Row
  <2> QED BY <2>1, <2>2, <2>3 DEF RowsKept, Inv, Flow, FilledOK, Row
<1> QED BY <1>1, <1>2

LEMMA AtRest ==
    ASSUME Inv, NEW p \in Pid, RowsKept, UNCHANGED <<cur, old, cslot>>, hold' = None, due' = None
    PROVE  Kept(p)
BY DEF Kept, HoldKept, Adopted, Inv, Types, RowTypes

LEMMA EndsKeeps ==
    ASSUME Inv, NEW p \in Pid, RowsKept, UNCHANGED <<cur, old, cslot>>, hold' = None, due' = None,
           Ends(p)
    PROVE  Inv'
<1>1. LocalTypes' /\ Others(p) /\ Over(p) /\ calls'[p] = None
  BY EndsEffect DEF Inv, Flow, Types
<1> QED BY <1>1, AtRest, OverKeeps

LEMMA HearsKeeps ==
    ASSUME Inv, NEW p \in Pid, RowsKept, UNCHANGED <<cur, old, cslot>>, hold' = None, due' = None,
           NEW l \in {"adopt", "leave", "unclaim", "build"}, NEW t \in Token, Hears(p, l, t),
           Alive(p) => at[p] # None /\ Owns(t.slot, t.gen, KeyOf[at[p]]),
           l = "adopt" => cur[t.slot] # None
    PROVE  Inv'
<1>1. /\ LocalTypes' /\ Others(p) /\ calls'[p] = None
      /\ Alive(p) => Moved(p, l, t)
      /\ ~Alive(p) => Same(p)
  BY HearsEffect DEF Inv, Types, Label
<1> QED BY <1>1, AtRest, LearnsKeeps

\* The reservation in a call was its sender's.
LEMMA SenderOwns ==
    ASSUME Inv, NEW p \in Pid, calls[p] # None, calls[p].op \in {"acquire", "publish", "abort"},
           NEW t, t = calls[p].tok, Alive(p)
    PROVE  at[p] # None /\ Owns(t.slot, t.gen, KeyOf[at[p]])
<1>1. tok[p] = t /\ t # None
  BY DEF Inv, Flow, CallsOK
<1> QED BY <1>1 DEF Owns, Inv, Flow, TokOK

LEMMA ReleaseInv == ASSUME Inv, NEW p \in Pid, Release(p) PROVE Inv'
<1>1. calls[p].inst \in Inst /\ hold = None /\ due = None
  BY Sender DEF Release, Request
<1> QED BY <1>1, DropRows, EndsKeeps DEF Release, code

LEMMA GiveBackInv == ASSUME Inv, NEW p \in Pid, GiveBack(p) PROVE Inv'
<1>1. hold = None /\ due = None
  BY Sender DEF GiveBack
<1> QED BY <1>1, SameRows, EndsKeeps DEF GiveBack, code

\* An abort is answered, when it is handled or after the hold is given back.
LEMMA AbortedInv ==
    ASSUME Inv, NEW p \in Pid, RowsKept, UNCHANGED <<cur, old, cslot>>, hold' = None, due' = None,
           calls[p] # None, calls[p].op = "abort", Aborted(p)
    PROVE  Inv'
<1>1. calls[p].tok \in Token
  BY DEF Inv, Types, LocalTypes, Flow, CallsOK, Request
<1>2. CASE p \in owes
  <2>1. Hears(p, "leave", calls[p].tok)
    BY <1>2 DEF Aborted
  <2> QED BY <1>1, <2>1, HearsKeeps, SenderOwns
<1>3. CASE p \notin owes
  BY <1>3, EndsKeeps DEF Aborted
<1> QED BY <1>2, <1>3

LEMMA AbortInv == ASSUME Inv, NEW p \in Pid, Abort(p) PROVE Inv'
<1>1. calls[p].tok \in Token /\ hold = None /\ due = None /\ calls[p] # None /\ calls[p].op = "abort"
  BY Sender DEF Abort
<1>2. RowsKept
  BY <1>1, AbortRows DEF Abort
<1>3. CASE Reserved(calls[p].tok)
  <2>1. /\ due' = [slot |-> calls[p].tok.slot, pid |-> p]
        /\ UNCHANGED <<cur, old, hold, calls, pc, at, tok, want, ver, cslot>>
    BY <1>3 DEF Abort, AbortRow, code, locals
  <2>2. due'.pid = p
    BY <2>1
  <2>3. HoldOK'
    BY <1>1, <2>1 DEF HoldOK
  <2> QED BY <1>2, <2>1, <2>2, <2>3, RestsKeeps
<1>4. CASE ~Reserved(calls[p].tok)
  <2>1. Aborted(p) /\ due' = due
    BY <1>4 DEF Abort, AbortRow
  <2> QED BY <1>1, <1>2, <2>1, AbortedInv DEF Abort, code
<1> QED BY <1>3, <1>4

LEMMA AcquireInv == ASSUME Inv, NEW p \in Pid, Acquire(p) PROVE Inv'
<1>1. /\ calls[p].tok \in Token /\ hold = None /\ due = None /\ RowsKept
      /\ calls[p] # None /\ calls[p].op = "acquire"
  BY Sender, SameRows DEF Acquire
<1>2. Alive(p) => tok[p] = calls[p].tok
  BY Sender DEF Acquire
<1>3. CASE Room
  <2>1. Answered(p) /\ (Alive(p) => pc' = [pc EXCEPT ![p] = "build"]
                                    /\ UNCHANGED <<at, tok, want, ver>>)
        /\ (~Alive(p) => UNCHANGED <<pc, at, tok, want, ver>>)
    BY <1>3 DEF Acquire, locals
  <2>2. LocalTypes' /\ Others(p) /\ calls'[p] = None
    BY <2>1 DEF Inv, Types, LocalTypes, Label, Answered, Others, Same
  <2>3. (Alive(p) => Moved(p, "build", calls[p].tok)) /\ (~Alive(p) => Same(p))
    BY <1>2, <2>1 DEF Inv, Types, LocalTypes, Moved, Same
  <2>4. Kept(p)
    BY <1>1, AtRest DEF Acquire, code
  <2> QED BY <1>1, <2>2, <2>3, <2>4, LearnsKeeps, SenderOwns DEF Acquire
<1>4. CASE ~Room
  <2>1. Hears(p, "unclaim", calls[p].tok)
    BY <1>4 DEF Acquire
  <2> QED BY <1>1, <2>1, HearsKeeps, SenderOwns DEF Acquire, code
<1> QED BY <1>3, <1>4

LEMMA PublishInv == ASSUME Inv, NEW p \in Pid, Publish(p) PROVE Inv'
<1> DEFINE t == calls[p].tok
<1>1. t \in Token /\ hold = None /\ due = None /\ calls[p] # None /\ calls[p].op = "publish"
  BY Sender DEF Publish
<1>2. cur[t.slot] # None
  BY <1>1 DEF Inv, Flow, FilledOK
<1>3. CASE Reserved(t)
  <2>1. /\ tab' = [tab EXCEPT ![t.slot].st = "resident"]
        /\ due' = [slot |-> t.slot, pid |-> p]
        /\ UNCHANGED <<cur, old, hold, calls, pc, at, tok, want, ver, cslot>>
    BY <1>3 DEF Publish, code, locals
  <2>2. tab \in [Slot -> Row] /\ t.slot \in Slot
    BY <1>1 DEF Inv, Types, RowTypes, Token
  <2>3. tab' \in [Slot -> Row]
    BY <2>1, <2>2 DEF Row
  <2>4. RowsKept
    BY <1>2, <1>3, <2>1, <2>2, <2>3 DEF RowsKept, Reserved, Row, Inv, Flow, FilledOK
  <2>5. due'.pid = p
    BY <2>1
  <2>6. HoldOK'
    BY <1>1, <2>1 DEF HoldOK
  <2> HIDE DEF t
  <2> QED BY <2>1, <2>4, <2>5, <2>6, RestsKeeps
<1>4. CASE ~Reserved(t)
  <2>1. Hears(p, "leave", t) /\ tab' = tab /\ due' = due
    BY <1>4 DEF Publish
  <2> QED BY <1>1, <2>1, SameRows, HearsKeeps, SenderOwns DEF Publish, code
<1> QED BY <1>3, <1>4

LEMMA EndHoldInv == ASSUME Inv, EndHold PROVE Inv'
<1> DEFINE p == due.pid
           t == calls[p].tok
<1>1. /\ RowsKept /\ UNCHANGED <<cur, old, cslot>> /\ hold = None /\ hold' = None /\ due' = None
      /\ p \in Pid \cup {None} /\ (p # None => calls[p] # None)
  BY SameRows DEF EndHold, code, Inv, Types, RowTypes, Flow, HoldOK
<1>2. CASE p = None
  <2>1. UNCHANGED <<calls, pc, at, tok, want, ver>>
    BY <1>2 DEF EndHold, locals
  <2>2. HoldOK'
    BY <1>1 DEF HoldOK
  <2> QED BY <1>1, <2>1, <2>2, RestsKeeps
<1>3. CASE p # None /\ calls[p].op = "publish" /\ Hears(p, "adopt", t)
  <2>1. p \in Pid /\ calls[p] # None
    BY <1>1, <1>3
  <2>2. t \in Token /\ cur[t.slot] # None
    BY <1>3, <2>1 DEF Inv, Types, LocalTypes, Flow, CallsOK, FilledOK, Request
  <2> HIDE DEF p, t
  <2> QED BY <1>1, <1>3, <2>1, <2>2, HearsKeeps, SenderOwns DEF t
<1>4. CASE p # None /\ calls[p].op = "abort" /\ Aborted(p)
  BY <1>1, <1>4, AbortedInv
<1> QED BY <1>2, <1>3, <1>4 DEF EndHold

LEMMA ClaimFoundInv == ASSUME Inv, NEW p \in Pid, ClaimFound(p) PROVE Inv'
<1> DEFINE i == calls[p].inst
<1>1. i \in Inst /\ hold = None /\ due = None /\ (Alive(p) => at[p] = i)
  BY Sender DEF ClaimFound, Request
<1>2. PICK s \in Found(KeyOf[i]) :
          \/ tab[s].st = "loading" /\ Ends(p) /\ tab' = tab
          \/ /\ tab[s].st = "resident" /\ Hears(p, "adopt", [slot |-> s, gen |-> tab[s].gen])
             /\ tab' = tab \/ tab' = [tab EXCEPT ![s].leases[i] = p]
  BY DEF ClaimFound
<1>3. s \in Slot /\ tab[s].st # "free" /\ tab[s].key = KeyOf[i] /\ tab[s] \in Row
  BY <1>2 DEF Found, Holds, Inv, Types, RowTypes
<1>4. RowsKept
  <2>1. CASE tab' = tab
    BY <2>1, SameRows
  <2>2. CASE tab' = [tab EXCEPT ![s].leases[i] = p]
    <3>1. tab \in [Slot -> Row]
      BY DEF Inv, Types, RowTypes
    <3>2. tab' \in [Slot -> Row]
      BY <1>1, <1>3, <2>2, <3>1 DEF Row
    <3>3. \A x \in Slot : /\ tab'[x].gen = tab[x].gen /\ tab'[x].st = tab[x].st
                          /\ tab'[x].key = tab[x].key
      BY <1>3, <2>2, <3>1 DEF Row
    <3> QED BY <3>2, <3>3, LeasesOnly
  <2> QED BY <1>2, <2>1, <2>2
<1>5. UNCHANGED <<cur, old, cslot>> /\ hold' = None /\ due' = None
  BY <1>1 DEF ClaimFound, code
<1>6. CASE Ends(p)
  BY <1>4, <1>5, <1>6, EndsKeeps
<1>7. CASE tab[s].st = "resident" /\ Hears(p, "adopt", [slot |-> s, gen |-> tab[s].gen])
  <2>1. [slot |-> s, gen |-> tab[s].gen] \in Token
    BY <1>3 DEF Token, Row
  <2>2. Alive(p) => at[p] # None /\ Owns(s, tab[s].gen, KeyOf[at[p]])
    BY <1>1, <1>3, SlotsAssumption DEF Owns
  <2>3. cur[s] # None
    BY <1>3, <1>7 DEF Inv, Flow, FilledOK
  <2> QED BY <1>4, <1>5, <1>7, <2>1, <2>2, <2>3, HearsKeeps
<1> QED BY <1>2, <1>6, <1>7

LEMMA DownInv == ASSUME Inv, NEW w \in mon, Down(w) PROVE Inv'
<1>1. RowsKept
  BY SameRows, AbortRows, DropRows DEF Down
<1>2. UNCHANGED <<cur, old, hold, calls, pc, at, tok, want, ver, cslot>>
  BY DEF Down, code, locals
<1>3. due = None /\ hold = None
  BY DEF Down, Idle
<1>4. due' = None \/ due' = [slot |-> w.tok.slot, pid |-> None]
  BY <1>3 DEF Down, AbortRow
<1>6. due' # None => due'.pid = None
  BY <1>4
<1>7. HoldOK'
  BY <1>2, <1>3, <1>4 DEF HoldOK
<1> QED BY <1>1, <1>2, <1>6, <1>7, RestsKeeps
-----------------------------------------------------------------------------
(* The search for a slot.                                                  *)

\* Code that nobody runs may be purged; the claim in hand stays the sender's.
LEMMA SearchKeeps ==
    ASSUME Inv, UNCHANGED <<tab, cur, calls, pc, at, tok, want, ver, cslot>>,
           NEW p \in Pid, NEW i \in Inst, NEW s \in Slot \cup {None}, NEW n, NEW x,
           hold' = Holding(p, i, s, n, x), due' = None,
           calls[p] # None /\ calls[p].op = "claim" /\ calls[p].inst = i,
           old' \in [Slot -> Code \cup {None}],
           \A y \in Slot : old'[y] = old[y] \/ InOld(y) = {}
    PROVE  Inv'
<1> USE DEF Inv, Flow
<1>1. Types'
  BY DEF Types, RowTypes, LocalTypes, Holding
<1>2. TokOK' /\ IdleOK' /\ PlaceOK' /\ FilledOK' /\ CallsOK' /\ InsideOK'
  BY DEF TokOK, IdleOK, PlaceOK, FilledOK, CallsOK, InsideOK, Alive
<1>3. HoldOK'
  BY DEF HoldOK, Holding
<1>4. Forgets
  BY DEF Forgets, Owns, Answered1
<1>5. Coherent'
  BY <1>4, ForgetsCoherent
<1>6. RightCode'
  BY DEF RightCode, SlotFor, KeyFor, InOld, InsideOK, PlaceOK, Calls
<1> QED BY <1>1, <1>2, <1>3, <1>5, <1>6

LEMMA ClaimMissingInv == ASSUME Inv, NEW p \in Pid, ClaimMissing(p) PROVE Inv'
<1>0. due' = None
  BY DEF ClaimMissing, Handling, Idle
<1>1. calls[p].inst \in Inst /\ calls[p] # None /\ calls[p].op = "claim"
  BY Sender DEF ClaimMissing, Request
<1>2. hold' = Holding(p, calls[p].inst, None, 0, {})
  BY DEF ClaimMissing, Holding
<1>3. UNCHANGED <<tab, cur, old, calls, pc, at, tok, want, ver, cslot>>
  BY DEF ClaimMissing, code, locals
<1>4. old' \in [Slot -> Code \cup {None}]
  BY <1>3 DEF Inv, Types, RowTypes
<1> QED BY <1>0, <1>1, <1>2, <1>3, <1>4, SearchKeeps

\* The claim in hand.
LEMMA InHand ==
    ASSUME Inv, hold # None
    PROVE  /\ hold.pid \in Pid /\ hold.inst \in Inst /\ hold.slot \in Slot \cup {None} /\ due = None
           /\ hold = Holding(hold.pid, hold.inst, hold.slot, hold.stuck, hold.tried)
           /\ calls[hold.pid] # None /\ calls[hold.pid].op = "claim"
           /\ calls[hold.pid].inst = hold.inst
           /\ Alive(hold.pid) => pc[hold.pid] = "claim" /\ at[hold.pid] = hold.inst
BY DEF Inv, Types, RowTypes, Flow, HoldOK, CallsOK

\* Giving a slot up keeps the sender.
LEMMA GivesUpShape ==
    ASSUME Inv, hold # None, NEW s
    PROVE  GivesUp(s) = Holding(hold.pid, hold.inst, None, 0, hold.tried \cup {s})
<1>1. hold = Holding(hold.pid, hold.inst, hold.slot, hold.stuck, hold.tried)
  BY InHand
<1> DEFINE r == Holding(hold.pid, hold.inst, None, 0, hold.tried \cup {s})
           D == {"pid", "inst", "slot", "stuck", "tried"}
<1>2. DOMAIN hold = D /\ DOMAIN r = D
  BY <1>1 DEF Holding
<1>3. GivesUp(s) = [f \in D |-> CASE f = "slot" -> None [] f = "stuck" -> 0
                                   [] f = "tried" -> hold.tried \cup {s} [] OTHER -> hold[f]]
  BY <1>2 DEF GivesUp
<1>4. r = [f \in D |-> r[f]]
  BY DEF Holding
<1>5. \A f \in D : r[f] = CASE f = "slot" -> None [] f = "stuck" -> 0
                                   [] f = "tried" -> hold.tried \cup {s} [] OTHER -> hold[f]
  BY DEF Holding
<1> QED BY <1>3, <1>4, <1>5

LEMMA TakeExclusiveInv == ASSUME Inv, NEW s \in Slot, TakeExclusive(s) PROVE Inv'
<1>1. hold # None
  BY DEF TakeExclusive, Choosing
<1>2. hold = Holding(hold.pid, hold.inst, hold.slot, hold.stuck, hold.tried)
  BY <1>1, InHand
<1>3. UNCHANGED <<tab, cur, old, due, calls, pc, at, tok, want, ver, cslot>>
  BY DEF TakeExclusive, code, locals
<1>4. old' \in [Slot -> Code \cup {None}]
  BY <1>3 DEF Inv, Types, RowTypes
<1>5. CASE hold' = [hold EXCEPT !.slot = s]
  <2>1. hold' = Holding(hold.pid, hold.inst, s, hold.stuck, hold.tried)
    BY <1>2, <1>5 DEF Holding
  <2> QED BY <1>1, <1>3, <1>4, <2>1, InHand, SearchKeeps
<1>6. CASE hold' = [hold EXCEPT !.slot = s, !.stuck = ctr[s]]
  <2>1. hold' = Holding(hold.pid, hold.inst, s, ctr[s], hold.tried)
    BY <1>2, <1>6 DEF Holding
  <2> QED BY <1>1, <1>3, <1>4, <2>1, InHand, SearchKeeps
<1>7. CASE hold' = GivesUp(s)
  <2>1. hold' = Holding(hold.pid, hold.inst, None, 0, hold.tried \cup {s})
    BY <1>1, <1>7, GivesUpShape
  <2> QED BY <1>1, <1>3, <1>4, <2>1, InHand, SearchKeeps
<1> QED BY <1>5, <1>6, <1>7 DEF TakeExclusive

\* A purge that succeeds leaves the old code others run.
LEMMA PurgeKeeps ==
    ASSUME Inv, NEW s \in Slot, Purgeable(s), SoftPurge(s)
    PROVE  /\ old' \in [Slot -> Code \cup {None}]
           /\ \A y \in Slot : old'[y] = old[y] \/ InOld(y) = {}
BY DEF Inv, Types, RowTypes, Purgeable, SoftPurge

LEMMA RepairInv == ASSUME Inv, Repair PROVE Inv'
<1>1. hold # None /\ hold.slot \in Slot
  BY InHand DEF Repair
<1>2. hold = Holding(hold.pid, hold.inst, hold.slot, hold.stuck, hold.tried)
  BY <1>1, InHand
<1>3. UNCHANGED <<tab, cur, due, calls, pc, at, tok, want, ver, cslot>>
  BY DEF Repair, locals
<1>4. old' \in [Slot -> Code \cup {None}] /\ \A y \in Slot : old'[y] = old[y] \/ InOld(y) = {}
  <2>1. CASE old' = old
    BY <2>1 DEF Inv, Types, RowTypes
  <2>2. CASE Purgeable(hold.slot) /\ SoftPurge(hold.slot)
    BY <1>1, <2>2, PurgeKeeps
  <2> QED BY <2>1, <2>2 DEF Repair
<1>5. CASE hold' = [hold EXCEPT !.stuck = 0]
  <2>1. hold' = Holding(hold.pid, hold.inst, hold.slot, 0, hold.tried)
    BY <1>2, <1>5 DEF Holding
  <2> QED BY <1>1, <1>3, <1>4, <2>1, InHand, SearchKeeps
<1>6. CASE hold' = GivesUp(hold.slot)
  <2>1. hold' = Holding(hold.pid, hold.inst, None, 0, hold.tried \cup {hold.slot})
    BY <1>1, <1>6, GivesUpShape
  <2> QED BY <1>1, <1>3, <1>4, <2>1, InHand, SearchKeeps
<1> QED BY <1>5, <1>6 DEF Repair

LEMMA RefuseInv == ASSUME Inv, Refuse PROVE Inv'
<1>1. hold # None /\ hold' = GivesUp(hold.slot)
  BY DEF Refuse, Held
<1>2. UNCHANGED <<tab, cur, old, due, calls, pc, at, tok, want, ver, cslot>>
  BY DEF Refuse, code, locals
<1>3. old' \in [Slot -> Code \cup {None}]
  BY <1>2 DEF Inv, Types, RowTypes
<1>4. hold' = Holding(hold.pid, hold.inst, None, 0, hold.tried \cup {hold.slot})
  BY <1>1, GivesUpShape
<1> QED BY <1>1, <1>2, <1>3, <1>4, InHand, SearchKeeps

LEMMA NoSlotInv == ASSUME Inv, NoSlot PROVE Inv'
<1>1. hold # None /\ hold' = None /\ UNCHANGED <<tab, cur, old, due, cslot>>
  BY DEF NoSlot, Choosing, code
<1> QED BY <1>1, InHand, SameRows, EndsKeeps DEF NoSlot

\* A reservation makes a generation nobody has heard of.
LEMMA ReserveInv == ASSUME Inv, Reserve PROVE Inv'
<1> DEFINE s == hold.slot  p == hold.pid  i == hold.inst  g == tab[s].gen + 1
           t == [slot |-> s, gen |-> g]
           l == IF p \in Compiler THEN "compile" ELSE "unclaim"
<1>1. /\ s \in Slot /\ p \in Pid /\ i \in Inst /\ calls[p] # None /\ hold' = None /\ due' = None
      /\ Alive(p) => pc[p] = "claim" /\ at[p] = i
  BY InHand DEF Reserve, Held
<1>2. tab \in [Slot -> Row] /\ g \in Nat /\ t \in Token /\ l \in Label /\ i # None
  BY <1>1, SlotsAssumption DEF Inv, Types, RowTypes, Row, Token, Label
<1>3. /\ tab' = [tab EXCEPT ![s] = [gen |-> g, st |-> "loading", key |-> KeyOf[i],
                                    leases |-> [NoLease EXCEPT ![i] = p]]]
      /\ Hears(p, l, t) /\ UNCHANGED <<cur, cslot>>
      /\ Purgeable(s) /\ SoftPurge(s)
  BY DEF Reserve, Held
<1>4. /\ tab' \in [Slot -> Row]
      /\ \A x \in Slot \ {s} : tab'[x] = tab[x]
      /\ tab'[s].gen = g /\ tab'[s].st = "loading" /\ tab'[s].key = KeyOf[i]
  <2>1. [NoLease EXCEPT ![i] = p] \in [Inst -> Pid \cup {None}] /\ KeyOf[i] \in Key
    BY <1>1, SlotsAssumption DEF NoLease
  <2> QED BY <1>1, <1>2, <1>3, <2>1 DEF Row
<1>5. /\ LocalTypes' /\ Others(p) /\ calls'[p] = None
      /\ Alive(p) => Moved(p, l, t)
      /\ ~Alive(p) => Same(p)
  <2> HIDE DEF l, t, p
  <2> QED BY <1>1, <1>2, <1>3, HearsEffect DEF Inv, Types
<1>6. old' \in [Slot -> Code \cup {None}] /\ \A y \in Slot : old'[y] = old[y] \/ InOld(y) = {}
  BY <1>1, <1>3, PurgeKeeps
<1>7. l \in {"compile", "unclaim"} /\ t # None /\ t.slot = s /\ t.gen = g
  BY <1>2, RecordAssumption
<1> HIDE DEF s, p, i, g, t, l
<1> USE DEF Inv, Flow
<1>8. Types'
  BY <1>1, <1>3, <1>4, <1>5, <1>6 DEF Types, RowTypes
<1>9. TokOK' /\ IdleOK' /\ PlaceOK' /\ InsideOK'
  BY <1>1, <1>2, <1>3, <1>5, <1>7 DEF TokOK, IdleOK, PlaceOK, InsideOK, Others, Same, Moved, Calls,
     Alive
<1>10. FilledOK'
  BY <1>1, <1>3, <1>4, <1>5, <1>7 DEF FilledOK, Others, Same, Moved, Alive
<1>11. CallsOK' /\ HoldOK'
  BY <1>1, <1>5 DEF CallsOK, HoldOK, Others, Same, Alive
<1>12. ASSUME NEW x \in Slot, NEW n \in Nat, NEW k \in Key, Owns(x, n, k)'
       PROVE  Owns(x, n, k) \/ (x = s /\ n = g /\ k = KeyOf[i])
  <2>1. CASE tab'[x].st # "free" /\ tab'[x].gen = n /\ tab'[x].key = k
    BY <1>4, <2>1 DEF Owns
  <2>2. CASE cur'[x] # None /\ cur'[x].gen = n /\ cur'[x].key = k
    BY <1>3, <2>2 DEF Owns
  <2>3. ASSUME NEW q \in Pid, tok'[q] # None, tok'[q].slot = x, tok'[q].gen = n, KeyOf[at'[q]] = k
        PROVE  Owns(x, n, k) \/ (x = s /\ n = g /\ k = KeyOf[i])
    <3>1. CASE q = p /\ Alive(p)
      BY <1>1, <1>5, <1>7, <2>3, <3>1 DEF Moved
    <3>2. CASE ~(q = p /\ Alive(p))
      BY <1>5, <2>3, <3>2 DEF Owns, Others, Same
    <3> QED BY <3>1, <3>2
  <2>4. ASSUME NEW q \in Pid, Answered1(q, x, n, k)'
        PROVE  Owns(x, n, k)
    <3>1. Same(q)
      BY <1>5, <1>7, <2>4 DEF Answered1, Others, Moved
    <3> QED BY <1>3, <2>4, <3>1 DEF Answered1, Owns, Same
  <2> QED BY <1>12, <2>1, <2>2, <2>3, <2>4 DEF Owns
<1>13. g > tab[s].gen /\ \A x \in Slot : tab'[x].gen >= tab[x].gen
  BY <1>1, <1>2, <1>4 DEF g, Row
<1>14. Coherent'
  <2>1. \A x \in Slot : tab[x].gen \in Nat /\ tab'[x].gen \in Nat
    BY <1>2, <1>4 DEF Row
  <2>2. ASSUME NEW x \in Slot, NEW n \in Nat, NEW k1 \in Key, NEW k2 \in Key,
               Owns(x, n, k1)', Owns(x, n, k2)'
        PROVE  k1 = k2
    <3>1. CASE x = s /\ n = g
      BY <1>1, <1>2, <1>12, <1>13, <2>1, <2>2, <3>1 DEF Coherent
    <3>2. CASE ~(x = s /\ n = g)
      BY <1>12, <2>2, <3>2 DEF Coherent
    <3> QED BY <3>1, <3>2
  <2>3. ASSUME NEW x \in Slot, NEW n \in Nat, NEW k \in Key, Owns(x, n, k)'
        PROVE  n <= tab'[x].gen
    BY <1>4, <1>12, <1>13, <2>1, <2>3 DEF Coherent
  <2> QED BY <2>2, <2>3 DEF Coherent
<1>15. RightCode'
  BY <1>3, <1>5, <1>6, <1>7 DEF RightCode, SlotFor, KeyFor, Others, Same, Moved, InOld, PlaceOK,
     InsideOK, Calls
<1> QED BY <1>8, <1>9, <1>10, <1>11, <1>14, <1>15
-----------------------------------------------------------------------------
(* Compilers and callers.                                                  *)

\* A process with no call in the mailbox is not the one the manager works for.
LEMMA Undisturbed ==
    ASSUME Inv, NEW p \in Pid, calls[p] = None, UNCHANGED <<tab, cur, old, hold, due>>, Adopted
    PROVE  Kept(p)
<1>1. RowsKept
  BY SameRows
<1>2. HoldKept(p)
  BY SlotsAssumption DEF HoldKept, Inv, Flow, HoldOK
<1> QED BY <1>1, <1>2 DEF Kept

LEMMA SlotsSame == ASSUME Inv, UNCHANGED cslot PROVE Adopted
BY DEF Adopted, Inv, Types, RowTypes

LEMMA DoneKeeps ==
    ASSUME Inv, NEW p \in Pid, calls[p] = None, UNCHANGED <<tab, cur, old, hold, due, calls>>, Adopted,
           Done(p)
    PROVE  Inv'
<1>1. LocalTypes' /\ Others(p) /\ Over(p)
  BY DoneEffect DEF Inv, Types
<1> QED BY <1>1, Undisturbed, OverKeeps

\* A process that waits for nothing and has a reservation.
LEMMA Ready ==
    ASSUME Inv, NEW p \in Pid,
           pc[p] \in {"compile", "build", "unclaim", "loaded", "adopt", "leave"}
    PROVE  calls[p] = None /\ at[p] \in Inst /\ tok[p] \in Token /\ tok[p] # None
<1>1. calls[p] = None
  BY NoCall DEF Inv, Flow
<1> QED BY <1>1 DEF Inv, Types, LocalTypes, Flow, TokOK

LEMMA AdmitInv == ASSUME Inv, NEW c \in Compiler, Admit(c) PROVE Inv'
<1>1. c \in Pid /\ pc[c] = "compile" /\ Asks(c, "acquire") /\ UNCHANGED <<tab, cur, old, hold, due, cslot>>
  BY DEF Admit, outside, code, manager, Pid
<1> QED BY <1>1, Ready, SlotsSame, Undisturbed, AsksKeeps

LEMMA UnclaimInv == ASSUME Inv, NEW p \in Pid, Unclaim(p) PROVE Inv'
<1>1. pc[p] \in {"compile", "build", "unclaim"} /\ Asks(p, "abort")
      /\ UNCHANGED <<tab, cur, old, hold, due, cslot>>
  BY DEF Unclaim, outside, code, manager
<1> QED BY <1>1, Ready, SlotsSame, Undisturbed, AsksKeeps

LEMMA LoadedInv == ASSUME Inv, NEW c \in Compiler, Loaded(c) PROVE Inv'
<1>1. c \in Pid /\ pc[c] = "loaded" /\ Asks(c, "publish") /\ UNCHANGED <<tab, cur, old, hold, due, cslot>>
  BY DEF Loaded, outside, code, manager, Pid
<1>2. cur[tok[c].slot] # None
  BY <1>1 DEF Inv, Flow, FilledOK
<1> QED BY <1>1, <1>2, Ready, SlotsSame, Undisturbed, AsksKeeps

LEMMA LeaveInv == ASSUME Inv, NEW c \in Compiler, Leave(c) PROVE Inv'
<1>1. c \in Pid /\ pc[c] = "leave" /\ UNCHANGED <<tab, cur, old, hold, due, cslot>>
  BY DEF Leave, outside, code, manager, Pid
<1>2. calls[c] = None /\ at[c] \in Inst /\ tok[c] # None
  BY <1>1, Ready
<1>3. CASE Done(c) /\ UNCHANGED calls
  BY <1>1, <1>2, <1>3, SlotsSame, DoneKeeps
<1>4. CASE Asks(c, "return")
  BY <1>1, <1>2, <1>4, SlotsSame, Undisturbed, AsksKeeps
<1> QED BY <1>3, <1>4 DEF Leave

LEMMA AdoptInv == ASSUME Inv, NEW p \in Pid, Adopt(p) PROVE Inv'
<1>1. pc[p] = "adopt" /\ UNCHANGED <<tab, cur, old, hold, due>>
  BY DEF Adopt, code, manager
<1>2. calls[p] = None /\ at[p] \in Inst /\ tok[p] \in Token /\ tok[p] # None
  BY <1>1, Ready
<1>3. Adopted
  <2>1. cur[tok[p].slot] # None /\ tok[p].slot \in Slot /\ tok[p].slot # None
    BY <1>1, <1>2, SlotsAssumption DEF Inv, Flow, FilledOK, Token
  <2>2. cslot \in [Inst -> Slot \cup {None}]
    BY DEF Inv, Types, RowTypes
  <2> QED BY <1>2, <2>1, <2>2 DEF Adopt, Adopted, SlotFor
<1>4. CASE Done(p) /\ UNCHANGED calls
  BY <1>1, <1>2, <1>3, <1>4, DoneKeeps
<1>5. CASE Asks(p, "return")
  BY <1>1, <1>2, <1>3, <1>5, Undisturbed, AsksKeeps
<1> QED BY <1>4, <1>5 DEF Adopt

LEMMA HitInv == ASSUME Inv, NEW c \in Compiler, Hit(c) PROVE Inv'
<1>1. c \in Pid /\ pc[c] = "compile" /\ Goes(c, "build", tok[c])
      /\ UNCHANGED <<tab, cur, old, hold, due, cslot, calls>>
  BY DEF Hit, outside, code, manager, Pid
<1>2. calls[c] = None /\ at[c] \in Inst /\ tok[c] \in Token /\ tok[c] # None
  BY <1>1, Ready
<1>3. Kept(c)
  BY <1>1, <1>2, SlotsSame, Undisturbed
<1>4. LocalTypes' /\ Others(c) /\ Moved(c, "build", tok[c])
  BY <1>1, <1>2 DEF Inv, Types, LocalTypes, Goes, Others, Same, Moved, Label
<1>5. at[c] # None /\ Owns(tok[c].slot, tok[c].gen, KeyOf[at[c]]) /\ Alive(c)
  BY <1>1, <1>2, SlotsAssumption DEF Owns, Alive
<1> QED BY <1>1, <1>2, <1>3, <1>4, <1>5, LearnsKeeps

LEMMA GiveLeaseInv == ASSUME Inv, NEW p \in Pid, GiveLease(p) PROVE Inv'
<1>1. calls[p] = None
  BY NoCall DEF GiveLease, Inv, Flow
<1> QED BY <1>1, SlotsSame, DoneKeeps DEF GiveLease, code, manager

\* A process begins with a call.
LEMMA OpensKeeps ==
    ASSUME Inv, NEW p \in Pid, NEW i \in Inst, NEW op \in {"claim", "release"},
           pc[p] \in {"new", "out"}, Send(p, op, i, None),
           pc' = [pc EXCEPT ![p] = op], at' = [at EXCEPT ![p] = i],
           UNCHANGED <<tab, cur, old, hold, due, tok, want, ver, cslot>>
    PROVE  Inv'
<1>1. calls[p] = None /\ tok[p] = None
  BY NoCall DEF Inv, Flow, IdleOK
<1>2. [op |-> op, inst |-> i, tok |-> None] \in Request
  BY DEF Request
<1>3. /\ LocalTypes' /\ Others(p) /\ pc'[p] = op /\ tok'[p] = None /\ at'[p] = i
      /\ calls'[p] = [op |-> op, inst |-> i, tok |-> None]
  BY <1>1, <1>2 DEF Inv, Types, LocalTypes, Send, Others, Same, Label
<1>4. Kept(p)
  BY <1>1, SlotsSame, Undisturbed
<1> USE DEF Inv, Flow
<1>5. Types'
  BY <1>3, <1>4, KeptRows
<1>6. TokOK' /\ IdleOK' /\ InsideOK'
  BY <1>3 DEF TokOK, IdleOK, InsideOK, Others, Same, Calls
<1>7. PlaceOK' /\ FilledOK'
  BY <1>3 DEF PlaceOK, FilledOK, Others, Same, Calls
<1>8. CallsOK' /\ HoldOK'
  <2>1. CallsOK'
    BY <1>3 DEF CallsOK, Others, Same, Alive
  <2>2. HoldOK'
    BY <1>1, <1>3 DEF HoldOK, Others, Types, RowTypes
  <2> QED BY <2>1, <2>2
<1>9. Forgets
  <2>1. \A q \in Pid : tok'[q] # None \/ pc'[q] \in {"ready", "in", "mixed"} => Same(q)
    BY <1>3 DEF Others
  <2> QED BY <2>1 DEF Forgets, Owns, Answered1, Same
<1>10. Coherent'
  BY <1>9, ForgetsCoherent
<1>11. RightCode'
  BY <1>3 DEF RightCode, SlotFor, KeyFor, Others, Same
<1> QED BY <1>5, <1>6, <1>7, <1>8, <1>10, <1>11

LEMMA StartInv == ASSUME Inv, NEW c \in Compiler, NEW i \in Inst, Start(c, i) PROVE Inv'
<1>1. c \in Pid
  BY DEF Pid
<1> QED BY <1>1, OpensKeeps DEF Start, code, manager

LEMMA ClaimsInv == ASSUME Inv, NEW p \in Pid, NEW i \in Inst, Claims(p, i) PROVE Inv'
BY OpensKeeps DEF Claims, outside, code, manager

LEMMA DestroyInv == ASSUME Inv, NEW p \in Pid, NEW i \in Inst, Destroy(p, i) PROVE Inv'
BY OpensKeeps DEF Destroy, code, manager

\* A caller goes on.
LEMMA CallerKeeps ==
    ASSUME Inv, NEW p \in Pid, NEW i \in Inst, NEW l \in Calls, NEW g \in Nat, NEW v \in {"cur", "old", None},
           pc[p] \in {"out"} \cup Calls, cslot[i] \in Slot,
           pc' = [pc EXCEPT ![p] = l], at' = [at EXCEPT ![p] = i],
           want' = [want EXCEPT ![p] = g], ver' = [ver EXCEPT ![p] = v],
           UNCHANGED <<tab, cur, old, hold, due, tok, calls, cslot>>,
           l \in {"ready", "in", "mixed"} /\ KeyOf[i] \notin Hashed => Owns(cslot[i], g, KeyOf[i]),
           l = "in" => v = "cur" /\ cur[cslot[i]].key = KeyOf[i]
    PROVE  Inv'
<1>1. calls[p] = None /\ tok[p] = None
  BY NoCall DEF Inv, Flow, IdleOK, Calls
<1>2. LocalTypes' /\ Others(p) /\ pc'[p] = l /\ tok'[p] = None /\ at'[p] = i /\ want'[p] = g
      /\ ver'[p] = v
  BY <1>1 DEF Inv, Types, LocalTypes, Others, Same, Label, Calls
<1>3. Kept(p)
  BY <1>1, SlotsSame, Undisturbed
<1> USE DEF Inv, Flow
<1>4. Types'
  BY <1>2, <1>3, KeptRows
<1>5. TokOK' /\ IdleOK' /\ InsideOK'
  BY <1>2 DEF TokOK, IdleOK, InsideOK, Others, Same, Calls
<1>6. PlaceOK' /\ FilledOK'
  BY <1>2 DEF PlaceOK, FilledOK, Others, Same, Calls
<1>7. CallsOK' /\ HoldOK'
  <2>1. CallsOK'
    BY <1>1, <1>2 DEF CallsOK, Others, Same, Alive
  <2>2. HoldOK'
    BY DEF HoldOK
  <2> QED BY <2>1, <2>2
<1>8. Forgets
  <2>1. SUFFICES ASSUME NEW s \in Slot, NEW n \in Nat, NEW k \in Key, Owns(s, n, k)'
                 PROVE  Owns(s, n, k)
    BY DEF Forgets
  <2>2. ASSUME NEW q \in Pid, Answered1(q, s, n, k)'
        PROVE  Owns(s, n, k)
    <3>1. CASE q = p
      BY <1>2, <2>2, <3>1 DEF Answered1
    <3>2. CASE q # p
      BY <1>2, <2>2, <3>2 DEF Answered1, Owns, Others, Same
    <3> QED BY <3>1, <3>2
  <2>3. ASSUME NEW q \in Pid, tok'[q] # None /\ tok'[q].slot = s /\ tok'[q].gen = n /\ KeyOf[at'[q]] = k
        PROVE  Owns(s, n, k)
    BY <1>2, <2>3 DEF Owns, Others, Same
  <2> QED BY <2>1, <2>2, <2>3 DEF Owns
<1>9. Coherent'
  BY <1>8, ForgetsCoherent
<1>10. RightCode'
  <2>1. ASSUME NEW q \in Pid, pc'[q] = "in"
        PROVE  LET c == IF ver'[q] = "cur" THEN cur'[cslot'[at'[q]]] ELSE old'[cslot'[at'[q]]]
               IN c # None /\ c.key = KeyOf[at'[q]]
    <3>1. CASE q = p
      <4>1. cur[cslot[i]] # None
        BY SlotsAssumption DEF FilledOK
      <4> QED BY <1>2, <2>1, <3>1, <4>1
    <3>2. CASE q # p
      BY <1>2, <2>1, <3>2 DEF RightCode, SlotFor, KeyFor, Others, Same
    <3> QED BY <3>1, <3>2
  <2> QED BY <2>1 DEF RightCode, SlotFor, KeyFor
<1> QED BY <1>4, <1>5, <1>6, <1>7, <1>9, <1>10

\* A function changed nowhere.
LEMMA Unmoved ==
    ASSUME NEW f, NEW D, NEW S, f \in [D -> S], NEW x \in D
    PROVE  f = [f EXCEPT ![x] = f[x]]
OBVIOUS

LEMMA TakeInv == ASSUME Inv, NEW p \in Pid, NEW i \in Inst, Take(p, i) PROVE Inv'
<1>1. cslot[i] \in Slot /\ pc[p] = "out"
  BY DEF Take, Inv, Types, RowTypes
<1>2. PICK l \in {"backout", "ready", "check"} :
         pc' = [pc EXCEPT ![p] = l] /\ (l = "ready" => KeyOf[i] \in Hashed)
  <2> DEFINE v == Add(ctr[cslot[i]], 1)
             l == CASE v >= Excl -> "backout"
                    [] v < Excl /\ KeyOf[i] \in Hashed -> "ready"
                    [] OTHER -> "check"
  <2>1. pc' = [pc EXCEPT ![p] = l]
    BY DEF Take
  <2> HIDE DEF v
  <2>2. l \in {"backout", "ready", "check"} /\ (l = "ready" => KeyOf[i] \in Hashed)
    OBVIOUS
  <2> HIDE DEF l
  <2> QED BY <2>1, <2>2
<1>3. want' = [want EXCEPT ![p] = want[p]] /\ ver' = [ver EXCEPT ![p] = ver[p]]
      /\ want[p] \in Nat /\ ver[p] \in {"cur", "old", None}
  BY Unmoved DEF Take, Inv, Types, LocalTypes
<1>4. l \in Calls
  BY DEF Calls
<1>5. at' = [at EXCEPT ![p] = i] /\ UNCHANGED <<tab, cur, old, hold, due, tok, calls, cslot>>
  BY DEF Take, code, manager
<1> QED BY <1>1, <1>2, <1>3, <1>4, <1>5, CallerKeeps

\* A caller in a call.
LEMMA Underway ==
    ASSUME Inv, NEW p \in Pid, pc[p] \in Calls, UNCHANGED at
    PROVE  /\ at[p] \in Inst /\ cslot[at[p]] \in Slot /\ cur[cslot[at[p]]] # None
           /\ cur[cslot[at[p]]] \in Code
           /\ at' = [at EXCEPT ![p] = at[p]]
           /\ want = [want EXCEPT ![p] = want[p]] /\ ver = [ver EXCEPT ![p] = ver[p]]
           /\ want[p] \in Nat /\ ver[p] \in {"cur", "old", None}
<1>1. at[p] \in Inst /\ cslot[at[p]] \in Slot
  BY DEF Inv, Flow, PlaceOK
<1>2. cur[cslot[at[p]]] # None
  BY <1>1, SlotsAssumption DEF Inv, Flow, FilledOK
<1> QED BY <1>1, <1>2, Unmoved DEF Inv, Types, LocalTypes, RowTypes

LEMMA CheckInv == ASSUME Inv, NEW p \in Pid, Check(p) PROVE Inv'
<1> DEFINE i == at[p]  s == cslot[i]
<1>1. pc[p] \in Calls /\ UNCHANGED <<at, ver, tab, cur, old, hold, due, tok, calls, cslot>>
  BY DEF Check, Calls, outside, code, manager
<1>2. i \in Inst /\ s \in Slot /\ at' = [at EXCEPT ![p] = i] /\ ver' = [ver EXCEPT ![p] = ver[p]]
      /\ want[p] \in Nat /\ ver[p] \in {"cur", "old", None}
      /\ want = [want EXCEPT ![p] = want[p]]
  BY <1>1, Underway
<1>3. CASE /\ tab[s].st = "resident" /\ tab[s].key = KeyOf[i]
           /\ pc' = [pc EXCEPT ![p] = "ready"] /\ want' = [want EXCEPT ![p] = tab[s].gen]
  <2>1. tab[s].gen \in Nat /\ Owns(s, tab[s].gen, KeyOf[i])
    BY <1>2, <1>3 DEF Inv, Types, RowTypes, Row, Owns
  <2> HIDE DEF i, s
  <2>2. "ready" \in Calls
    BY DEF Calls
  <2> QED BY <1>1, <1>2, <1>3, <2>1, <2>2, CallerKeeps DEF s
<1>4. CASE pc' = [pc EXCEPT ![p] = "backout"] /\ want' = want
  <2>1. "backout" \in Calls
    BY DEF Calls
  <2> QED BY <1>1, <1>2, <1>4, <2>1, CallerKeeps
<1> QED BY <1>3, <1>4 DEF Check, SlotFor, KeyFor

LEMMA MissInv == ASSUME Inv, NEW p \in Pid, Miss(p) PROVE Inv'
<1>1. pc[p] = "in" /\ "mixed" \in Calls /\ pc[p] \in Calls
      /\ UNCHANGED <<at, want, tab, cur, old, hold, due, tok, calls, cslot>>
  BY DEF Miss, Calls, outside, code, manager
<1>2. KeyOf[at[p]] \notin Hashed => Owns(cslot[at[p]], want[p], KeyOf[at[p]])
  BY <1>1 DEF Owns, Answered1
<1>3. /\ at[p] \in Inst /\ cslot[at[p]] \in Slot /\ at' = [at EXCEPT ![p] = at[p]]
      /\ want' = [want EXCEPT ![p] = want[p]] /\ want[p] \in Nat
  BY <1>1, Underway
<1>4. pc' = [pc EXCEPT ![p] = "mixed"] /\ ver' = [ver EXCEPT ![p] = None]
  BY DEF Miss
<1> QED BY <1>1, <1>2, <1>3, <1>4, CallerKeeps

LEMMA InvokeInv == ASSUME Inv, NEW p \in Pid, Invoke(p) PROVE Inv'
<1> DEFINE i == at[p]  s == cslot[i]  c == cur[s]
<1>1. pc[p] \in Calls /\ pc[p] \in {"ready", "mixed"}
      /\ UNCHANGED <<at, want, tab, cur, old, hold, due, tok, calls, cslot>>
  BY DEF Invoke, Calls, outside, code, manager
<1>2. i \in Inst /\ s \in Slot /\ c \in Code /\ c # None
      /\ at' = [at EXCEPT ![p] = i] /\ want' = [want EXCEPT ![p] = want[p]]
      /\ want[p] \in Nat /\ ver[p] \in {"cur", "old", None}
      /\ ver = [ver EXCEPT ![p] = ver[p]]
  BY <1>1, Underway
<1>3. KeyOf[i] \notin Hashed => Owns(s, want[p], KeyOf[i])
  BY <1>1 DEF Owns, Answered1
<1>4. CASE /\ Stamp(c.key, c.gen) = Stamp(KeyOf[i], want[p])
           /\ pc' = [pc EXCEPT ![p] = "in"] /\ ver' = [ver EXCEPT ![p] = "cur"]
  <2>1. c.key \in Key /\ c.gen \in Nat /\ KeyOf[i] \in Key /\ None \notin Key
    BY <1>2, SlotsAssumption DEF Code
  <2>2. c.key = KeyOf[i]
    <3>1. CASE KeyOf[i] \in Hashed
      BY <1>4, <2>1, <3>1 DEF Stamp
    <3>2. CASE KeyOf[i] \notin Hashed
      <4>1. c.key \notin Hashed /\ c.gen = want[p]
        BY <1>4, <2>1, <3>2 DEF Stamp
      <4>2. Owns(s, want[p], c.key)
        BY <1>2, <4>1 DEF Owns
      <4> QED BY <1>2, <1>3, <2>1, <3>2, <4>2 DEF Inv, Coherent
    <3> QED BY <3>1, <3>2
  <2>3. "in" \in Calls
    BY DEF Calls
  <2> QED BY <1>1, <1>2, <1>3, <1>4, <2>2, <2>3, CallerKeeps
<1>5. CASE pc' = [pc EXCEPT ![p] = "backout"] /\ ver' = ver
  <2>1. "backout" \in Calls
    BY DEF Calls
  <2>2. ver' = [ver EXCEPT ![p] = ver[p]]
    BY <1>2, <1>5
  <2>3. want[p] \in Nat /\ ver[p] \in {"cur", "old", None} /\ cslot[i] \in Slot /\ i \in Inst
        /\ at' = [at EXCEPT ![p] = i] /\ want' = [want EXCEPT ![p] = want[p]]
    BY <1>2
  <2> HIDE DEF i, s, c
  <2> QED BY <1>1, <1>5, <2>1, <2>2, <2>3, CallerKeeps
<1> QED BY <1>4, <1>5 DEF Invoke, SlotFor, KeyFor

\* The loader: who runs the older code dies, who runs the current code now runs old code.
LEMMA LoadInv == ASSUME Inv, NEW c \in Compiler, Load(c) PROVE Inv'
<1> DEFINE s == tok[c].slot  k == KeyOf[at[c]]  g == tok[c].gen
<1>1. c \in Pid /\ pc[c] = "build" /\ UNCHANGED <<tab, hold, due, calls, tok, cslot>>
  BY DEF Load, manager, Pid
<1>2. at[c] \in Inst /\ tok[c] \in Token /\ tok[c] # None /\ calls[c] = None
  BY <1>1, Ready
<1>3. s \in Slot /\ g \in Nat /\ k \in Key /\ [key |-> k, gen |-> g] \in Code
      /\ [key |-> k, gen |-> g] # None
  <2>1. s \in Slot /\ g \in Nat /\ k \in Key
    BY <1>2, SlotsAssumption DEF Token
  <2> QED BY <2>1, RecordAssumption DEF Code
<1>4. /\ cur' = [cur EXCEPT ![s] = [key |-> k, gen |-> g]]
      /\ old' = [old EXCEPT ![s] = cur[s]]
  BY DEF Load, KeyFor
<1>5. /\ pc'[c] = "loaded" /\ at'[c] = at[c]
      /\ \A q \in Pid \ {c} :
            \/ q \in InOld(s) /\ pc'[q] = "dead" /\ tok[q] = None
            \/ /\ q \notin InOld(s) /\ pc'[q] = pc[q] /\ at'[q] = at[q] /\ want'[q] = want[q]
               /\ IF pc[q] = "in" /\ cslot[at[q]] = s THEN ver'[q] = "old" ELSE ver'[q] = ver[q]
  <2>1. c \notin InOld(s)
    BY <1>1 DEF InOld
  <2>2. \A q \in InOld(s) : tok[q] = None
    BY DEF InOld, Inv, Flow, IdleOK, Calls
  <2> QED BY <1>1, <2>1, <2>2 DEF Load, SlotFor, InOld
<1>6. LocalTypes'
  <2>1. pc' \in [Pid -> Label] /\ ver' \in [Pid -> {"cur", "old", None}]
        /\ at' \in [Pid -> Inst \cup {None}] /\ want' \in [Pid -> Nat]
    BY DEF Load, Inv, Types, LocalTypes, Label
  <2> QED BY <1>1, <2>1 DEF Inv, Types, LocalTypes
<1> HIDE DEF s, k, g
<1> USE DEF Inv, Flow
<1>7. Types'
  BY <1>1, <1>3, <1>4, <1>6 DEF Types, RowTypes
<1>8. TokOK' /\ IdleOK' /\ InsideOK'
  BY <1>1, <1>2, <1>5, SlotsAssumption DEF TokOK, IdleOK, InsideOK, Calls, InOld
<1>9. PlaceOK'
  BY <1>1, <1>5 DEF PlaceOK, Calls
<1>10. FilledOK'
  <2>1. \A x \in Slot : cur[x] # None => cur'[x] # None
    BY <1>3, <1>4 DEF Types, RowTypes
  <2>2. cur'[s] # None
    BY <1>3, <1>4 DEF Types, RowTypes
  <2>3. \A q \in Pid : pc[q] \in {"loaded", "publish", "adopt"} => tok[q] \in Token
    BY DEF TokOK, Types, LocalTypes
  <2>4. \A q \in Pid : pc'[q] \in {"loaded", "publish", "adopt"} => cur'[tok'[q].slot] # None
    BY <1>1, <1>5, <2>1, <2>2, <2>3 DEF FilledOK, s, Token
  <2>5. \A q \in Pid : calls[q] # None /\ calls[q].op = "publish" => calls[q].tok \in Token
    BY DEF CallsOK, Types, LocalTypes, Request
  <2>6. \A q \in Pid : calls'[q] # None /\ calls'[q].op = "publish" => cur'[calls'[q].tok.slot] # None
    BY <1>1, <2>1, <2>5 DEF FilledOK, Token
  <2>7. \A i \in Inst : cslot'[i] # None => cur'[cslot'[i]] # None
    BY <1>1, <2>1 DEF FilledOK, Types, RowTypes
  <2> QED BY <1>1, <2>1, <2>4, <2>6, <2>7 DEF FilledOK
<1>11. CallsOK' /\ HoldOK'
  <2>1. CallsOK'
    BY <1>1, <1>2, <1>5 DEF CallsOK, Alive
  <2> QED BY <1>1, <2>1 DEF HoldOK
<1>12. Forgets
  <2>1. SUFFICES ASSUME NEW x \in Slot, NEW n \in Nat, NEW y \in Key, Owns(x, n, y)'
                 PROVE  Owns(x, n, y)
    BY <1>1 DEF Forgets
  <2>2. CASE cur'[x] # None /\ cur'[x].gen = n /\ cur'[x].key = y
    <3>1. CASE x = s
      BY <1>1, <1>2, <1>3, <1>4, <2>2, <3>1 DEF Owns, Types, RowTypes, s, g, k
    <3>2. CASE x # s
      BY <1>4, <2>2, <3>2 DEF Owns, Types, RowTypes
    <3> QED BY <3>1, <3>2
  <2>3. ASSUME NEW q \in Pid, tok'[q] # None /\ tok'[q].slot = x /\ tok'[q].gen = n /\ KeyOf[at'[q]] = y
        PROVE  Owns(x, n, y)
    BY <1>1, <1>5, <2>3 DEF Owns
  <2>4. ASSUME NEW q \in Pid, Answered1(q, x, n, y)'
        PROVE  Owns(x, n, y)
    BY <1>1, <1>5, <2>4 DEF Owns, Answered1
  <2> QED BY <1>1, <2>1, <2>2, <2>3, <2>4 DEF Owns
<1>13. Coherent'
  BY <1>12, ForgetsCoherent
<1>14. RightCode'
  <2>1. ASSUME NEW q \in Pid, pc'[q] = "in"
        PROVE  LET y == IF ver'[q] = "cur" THEN cur'[cslot'[at'[q]]] ELSE old'[cslot'[at'[q]]]
               IN y # None /\ y.key = KeyOf[at'[q]]
    <3>1. q # c /\ q \notin InOld(s) /\ pc[q] = "in" /\ at'[q] = at[q]
          /\ (IF cslot[at[q]] = s THEN ver'[q] = "old" ELSE ver'[q] = ver[q])
      BY <1>5, <2>1
    <3>2. LET y == IF ver[q] = "cur" THEN cur[cslot[at[q]]] ELSE old[cslot[at[q]]]
          IN y # None /\ y.key = KeyOf[at[q]]
      BY <3>1 DEF RightCode, SlotFor, KeyFor
    <3>3. cslot[at[q]] \in Slot /\ ver[q] \in {"cur", "old"}
      BY <3>1 DEF PlaceOK, InsideOK, Calls
    <3>4. CASE cslot[at[q]] = s
      <4>1. ver[q] = "cur"
        BY <3>1, <3>3, <3>4 DEF InOld, SlotFor
      <4> QED BY <1>1, <1>3, <1>4, <3>1, <3>2, <3>4, <4>1 DEF Types, RowTypes
    <3>5. CASE cslot[at[q]] # s
      BY <1>1, <1>3, <1>4, <3>1, <3>2, <3>3, <3>5 DEF Types, RowTypes
    <3> QED BY <3>4, <3>5
  <2> QED BY <2>1 DEF RightCode, SlotFor, KeyFor
<1> QED BY <1>7, <1>8, <1>9, <1>10, <1>11, <1>13, <1>14

\* Some processes die or hear of the manager's death; the rows being filled may be freed.
LEMMA LostKeeps ==
    ASSUME Inv, RowsKept, LocalTypes', UNCHANGED <<cur, old, cslot>>,
           \A q \in Pid : \/ Same(q)
                          \/ pc'[q] \in {"dead", "out"} /\ tok'[q] = None,
           \A q \in Pid : calls'[q] = None \/ (calls'[q] = calls[q] /\ (Same(q) \/ pc'[q] = "dead")),
           hold' = None \/ (hold' = hold /\ UNCHANGED calls),
           due' = None \/ (due' = due /\ UNCHANGED calls)
    PROVE  Inv'
<1> USE DEF Inv, Flow
<1>1. Types'
  BY DEF Types, RowTypes, RowsKept
<1>2. TokOK' /\ IdleOK' /\ InsideOK'
  BY DEF TokOK, IdleOK, InsideOK, Same, Calls
<1>3. PlaceOK'
  BY DEF PlaceOK, Same, Calls
<1>4. FilledOK'
  BY DEF FilledOK, Same, RowsKept
<1>5. CallsOK' /\ HoldOK'
  <2>1. CallsOK'
    BY DEF CallsOK, Same, Alive
  <2> QED BY <2>1 DEF HoldOK
<1>6. Forgets
  <2>1. \A q \in Pid : tok'[q] # None \/ pc'[q] \in {"ready", "in", "mixed"} => Same(q)
    OBVIOUS
  <2> QED BY <2>1 DEF Forgets, Owns, Answered1, Same, RowsKept
<1>7. Coherent'
  BY <1>6, ForgetsCoherent
<1>8. RightCode'
  BY DEF RightCode, SlotFor, KeyFor, Same
<1> QED BY <1>1, <1>2, <1>3, <1>4, <1>5, <1>7, <1>8

LEMMA KillInv == ASSUME Inv, NEW p \in Pid, Kill(p) PROVE Inv'
<1>1. UNCHANGED <<tab, cur, old, hold, due, calls, cslot>>
  BY DEF Kill, outside, code, manager
<1>2. LocalTypes'
  BY <1>1 DEF Kill, Inv, Types, LocalTypes, Label
<1>3. \A q \in Pid : \/ Same(q)
                     \/ pc'[q] = "dead" /\ tok'[q] = None
  BY DEF Kill, Same, Inv, Types, LocalTypes
<1> QED BY <1>1, <1>2, <1>3, SameRows, LostKeeps

LEMMA RestartInv == ASSUME Inv, Restart PROVE Inv'
<1> DEFINE waiting == {p \in Pid : Alive(p) /\ calls[p] # None}
<1>1. UNCHANGED <<cur, old, want, ver, cslot>> /\ hold' = None /\ due' = None
      /\ \A q \in Pid : calls'[q] = None
  BY DEF Restart, code
<1>2. RowsKept
  BY SameRows DEF Restart
<1>3. ASSUME NEW q \in Pid
      PROVE  \/ q \in waiting /\ pc'[q] \in {"dead", "out"} /\ at'[q] = None /\ tok'[q] = None
             \/ q \notin waiting /\ pc'[q] = pc[q] /\ at'[q] = at[q] /\ tok'[q] = tok[q]
  <2>1. /\ pc'[q] = IF q \notin waiting THEN pc[q]
                  ELSE IF q \in Compiler THEN "dead" ELSE "out"
        /\ at'[q] = IF q \in waiting THEN None ELSE at[q]
        /\ tok'[q] = IF q \in waiting THEN None ELSE tok[q]
    BY DEF Restart
  <2> HIDE DEF waiting
  <2> QED BY <2>1
<1>4. \A q \in Pid : Same(q) \/ (pc'[q] \in {"dead", "out"} /\ tok'[q] = None)
  BY <1>1, <1>3 DEF Same
<1>5. LocalTypes'
  <2>1. /\ pc' = [q \in Pid |-> pc'[q]] /\ at' = [q \in Pid |-> at'[q]]
        /\ tok' = [q \in Pid |-> tok'[q]] /\ calls' = [q \in Pid |-> calls'[q]]
    <3>1. pc' = [q \in Pid |-> pc'[q]]
      BY DEF Restart
    <3>2. at' = [q \in Pid |-> at'[q]] /\ tok' = [q \in Pid |-> tok'[q]]
      BY DEF Restart
    <3>3. calls' = [q \in Pid |-> calls'[q]]
      BY DEF Restart
    <3> QED BY <3>1, <3>2, <3>3
  <2>2. \A q \in Pid : pc'[q] \in Label /\ at'[q] \in Inst \cup {None} /\ tok'[q] \in Token \cup {None}
    BY <1>3 DEF Inv, Types, LocalTypes, Label
  <2> QED BY <1>1, <2>1, <2>2 DEF Inv, Types, LocalTypes
<1> HIDE DEF waiting
<1> QED BY <1>1, <1>2, <1>4, <1>5, LostKeeps

LEMMA FreeRowInv == ASSUME Inv, NEW s \in Slot, FreeRow(s) PROVE Inv'
<1>1. /\ tab' = [tab EXCEPT ![s] = [@ EXCEPT !.st = "free", !.key = None, !.leases = NoLease]]
      /\ due' = [slot |-> s, pid |-> None]
      /\ UNCHANGED <<cur, old, hold, calls, pc, at, tok, want, ver, cslot>>
  BY DEF FreeRow, Freed, code, locals
<1>2. tab \in [Slot -> Row] /\ NoLease \in [Inst -> Pid \cup {None}]
  BY DEF Inv, Types, RowTypes, NoLease
<1>3. tab' \in [Slot -> Row]
  BY <1>1, <1>2 DEF Row
<1>4. RowsKept
  BY <1>1, <1>2, <1>3 DEF RowsKept, Inv, Flow, FilledOK, Row
<1>5. due'.pid = None
  BY <1>1
<1>6. HoldOK'
  BY <1>1 DEF HoldOK, FreeRow, Idle
<1> QED BY <1>1, <1>4, <1>5, <1>6, RestsKeeps

LEMMA ServeInv == ASSUME Inv, Serve PROVE Inv'
<1>1. UNCHANGED <<tab, cur, old, hold, due, calls, pc, at, tok, want, ver, cslot>>
  BY DEF Serve, code, locals
<1>2. HoldOK' /\ (due' # None => due'.pid \in Pid \cup {None})
  BY <1>1 DEF HoldOK, Inv, Flow, Types, RowTypes
<1> QED BY <1>1, <1>2, SameRows, RestsKeeps

LEMMA InitInv == Init => Inv
<1> SUFFICES ASSUME Init PROVE Inv
  OBVIOUS
<1>1. Types
  BY SlotsAssumption DEF Init, Types, RowTypes, LocalTypes, Row, Label, NoLease
<1>2. Flow
  BY DEF Init, Flow, TokOK, IdleOK, PlaceOK, FilledOK, CallsOK, HoldOK, InsideOK, Calls
<1>3. Coherent /\ RightCode
  BY DEF Init, Coherent, Owns, Answered1, RightCode
<1> QED BY <1>1, <1>2, <1>3 DEF Inv

LEMMA NextInv == ASSUME Inv, [Next]_vars PROVE Inv'
<1> USE SlotsAssumption
<1>1. ASSUME NEW p \in Pid, Handle(p) PROVE Inv'
  BY <1>1, ClaimFoundInv, ClaimMissingInv, PublishInv, AbortInv, ReleaseInv, AcquireInv,
     GiveBackInv DEF Handle
<1>2. ASSUME NEW p \in Pid, Unclaim(p) \/ Adopt(p) \/ Kill(p) PROVE Inv'
  BY <1>2, UnclaimInv, AdoptInv, KillInv
<1>3. CASE Search
  BY <1>3, TakeExclusiveInv, RepairInv, RefuseInv, ReserveInv, NoSlotInv DEF Search
<1>4. CASE EndHold \/ Restart \/ Serve \/ \E s \in Slot : FreeRow(s)
  BY <1>4, EndHoldInv, RestartInv, ServeInv, FreeRowInv
<1>5. ASSUME NEW w \in mon, Down(w) PROVE Inv'
  BY <1>5, DownInv
<1>6. ASSUME NEW c \in Compiler, Compiling(c) PROVE Inv'
  <2>1. \A i \in Jobs[c] : i \in Inst
    OBVIOUS
  <2> QED BY <1>6, <2>1, StartInv, AdmitInv, HitInv, LoadInv, LoadedInv, LeaveInv DEF Compiling
<1>7. ASSUME NEW p \in Caller, Calling(p) PROVE Inv'
  <2>1. p \in Pid /\ \A i \in Handles[p] : i \in Inst
    BY DEF Pid
  <2> QED BY <1>7, <2>1, ClaimsInv, TakeInv, DestroyInv, CheckInv, InvokeInv, MissInv, GiveLeaseInv
      DEF Calling
<1>8. CASE UNCHANGED vars
  <2>1. UNCHANGED <<tab, cur, old, hold, due, calls, pc, at, tok, want, ver, cslot>>
    BY <1>8 DEF vars, code, manager, locals
  <2>2. HoldOK' /\ (due' # None => due'.pid \in Pid \cup {None})
    BY <2>1 DEF HoldOK, Inv, Flow, Types, RowTypes
  <2> QED BY <2>1, <2>2, SameRows, RestsKeeps
<1> QED BY <1>1, <1>2, <1>3, <1>4, <1>5, <1>6, <1>7, <1>8 DEF Next

(* The inductive invariant of the pool.                                    *)
THEOREM Invariance == Spec => []Inv
BY InitInv, NextInv, PTL DEF Spec

(* A call runs the code of its own module.                                 *)
THEOREM RightCodeRuns == Spec => []RightCode
BY Invariance, PTL DEF Inv
-----------------------------------------------------------------------------
(***************************************************************************)
(* The manager's books: what it counts, watches and remembers.             *)
(***************************************************************************)
Counter == 0 .. Excl * Excl - 1
BookTypes ==
    /\ ctr \in [Slot -> Counter]
    /\ hold \in Claim \cup {None} /\ due \in Due \cup {None}
    /\ boot \in BOOLEAN /\ (boot => restarts > 0)
    /\ mon \subseteq Watch /\ refs \in [Inst -> Watch \cup {None}]
    /\ restarts \in 0 .. MaxRestarts
    /\ owes \subseteq Compiler /\ gone \subseteq Inst

\* A monitor is of a lease, a reservation or a share; an instance remembers its own.
Shaped ==
    /\ \A w \in mon : \/ \E i \in Inst, p \in Pid : w \in {OfLease(i, p), OfRebuilt(i, p)}
                      \/ \E t \in Token, p \in Pid : w = OfToken(t, p)
                      \/ \E p \in Pid : w = OfBudget(p)
    /\ \A i \in Inst : refs[i] # None => \E p \in Pid : refs[i] \in {OfLease(i, p), OfRebuilt(i, p)}

\* Every share of the budget is of a compiler that was admitted, once.
Admitted(p) ==
    /\ p \in Compiler /\ pc[p] \notin {"new", "claim", "compile", "acquire"}
    /\ calls[p] # None => calls[p].op \notin {"claim", "acquire"}
Shares == {p \in Pid : OfBudget(p) \in mon}
BudgetOK ==
    /\ \A p \in Shares : Admitted(p)
    /\ \A p \in Pid : pc[p] = "compile" \/ (calls[p] # None /\ calls[p].op = "acquire")
                         => p \in Compiler
    /\ spent = Words * Cardinality(Shares)

\* A key has one slot, leases are of instances of the key, and the claim in hand
\* found no slot of its key; the slot it took is still free to take.
RowsOK ==
    /\ \A s \in Slot, i \in Inst : tab[s].leases[i] # None => Holds(s, KeyOf[i])
    /\ \A r, s \in Slot, k \in Key : Holds(r, k) /\ Holds(s, k) => r = s
    /\ hold # None => /\ \A s \in Slot : ~Holds(s, KeyOf[hold.inst])
                      /\ hold.slot # None => hold.slot \in Empty

Books == BookTypes /\ Shaped /\ BudgetOK /\ RowsOK /\ HoldersWatched

LEMMA ModRange == ASSUME NEW m \in Nat, m > 0, NEW a \in Int PROVE a % m \in 0 .. m - 1
OBVIOUS

\* The counter stays within its word.
LEMMA AddType == \A w, n \in Int : Add(w, n) \in Counter
<1>1. Cardinality(Pid) \in Nat
  BY SlotsAssumption, FS_CardinalityType
<1>2. Excl \in Nat /\ Excl > 0
  BY <1>1, SlotsAssumption
<1>3. Excl * Excl \in Nat /\ Excl * Excl > 0
  BY <1>2
<1> DEFINE m == Excl * Excl
<1>4. m \in Nat /\ m > 0
  BY <1>3
<1> HIDE DEF m
<1>5. \A w, n \in Int : (w + n) % m \in 0 .. m - 1
  BY <1>4, ModRange
<1> QED BY <1>5 DEF Add, Counter, m

LEMMA ExclType == ASSUME NEW p \in Pid PROVE Excl \in Counter
<1>1. Cardinality(Pid) \in Nat /\ Cardinality(Pid) # 0
  BY SlotsAssumption, FS_CardinalityType, FS_EmptySet
<1>2. Excl \in Nat /\ Excl > 1
  BY <1>1, SlotsAssumption
<1> QED BY <1>2 DEF Counter

LEMMA ReleaseHoldType ==
    ASSUME BookTypes, NEW s \in Slot, ReleaseHold(s) PROVE ctr' \in [Slot -> Counter]
<1>1. ctr[s] \in Int /\ Excl * Excl - Excl \in Int
  BY SlotsAssumption DEF BookTypes, Counter
<1> QED BY <1>1, AddType DEF BookTypes, ReleaseHold

\* The shares are finitely many.
LEMMA SharesFinite == IsFiniteSet(Shares) /\ Cardinality(Shares) \in Nat
<1>1. Shares \subseteq Pid
  BY DEF Shares
<1> QED BY <1>1, SlotsAssumption, FS_Subset, FS_CardinalityType

LEMMA SpentType == ASSUME BudgetOK PROVE spent \in Nat
<1>1. Words \in Nat /\ Cardinality(Shares) \in Nat
  BY SlotsAssumption, SharesFinite
<1>2. Words * Cardinality(Shares) \in Nat
  BY <1>1
<1> QED BY <1>2 DEF BudgetOK

\* The kinds of monitors are told apart.
LEMMA Kinds ==
    /\ \A i, j \in Inst, p, q \in Pid : OfLease(i, p) # OfBudget(q) /\ OfRebuilt(i, p) # OfBudget(q)
    /\ \A t \in Token, p, q \in Pid : OfToken(t, p) # OfBudget(q)
    /\ \A p, q \in Pid : OfBudget(p) = OfBudget(q) => p = q
BY DEF OfLease, OfRebuilt, OfToken, OfBudget

LEMMA WatchTypes ==
    /\ \A i \in Inst, p \in Pid : OfLease(i, p) \in Watch /\ OfRebuilt(i, p) \in Watch
    /\ \A t \in Token, p \in Pid : OfToken(t, p) \in Watch
    /\ \A p \in Pid : OfBudget(p) \in Watch
BY DEF OfLease, OfRebuilt, OfToken, OfBudget, Watch

\* Early: before the admission.
Early(p) == pc[p] = "compile" \/ (calls[p] # None /\ calls[p].op = "acquire")
Onward == \A p \in Pid : /\ Admitted(p) => Admitted(p)'
                         /\ Early(p)' => Early(p) \/ p \in Compiler

\* The shares stay as they are.
LEMMA BudgetSame ==
    ASSUME BudgetOK, Onward, spent' = spent,
           \A p \in Pid : OfBudget(p) \in mon' <=> OfBudget(p) \in mon
    PROVE  BudgetOK'
<1>1. Shares' = Shares
  BY DEF Shares
<1>2. \A p \in Shares' : Admitted(p)'
  BY <1>1 DEF BudgetOK, Onward, Shares
<1>3. \A p \in Pid : Early(p)' => p \in Compiler
  BY DEF BudgetOK, Onward, Early
<1> QED BY <1>1, <1>2, <1>3 DEF BudgetOK, Early

\* Monitors go.
LEMMA ShapedLess ==
    ASSUME Shaped, mon' \subseteq mon, \A i \in Inst : refs'[i] \in {refs[i], None}
    PROVE  Shaped'
BY DEF Shaped

\* Neither the rows nor the monitors change.
LEMMA QuietBooks ==
    ASSUME Books, UNCHANGED <<tab, mon, refs, spent, hold, due, boot, restarts>>,
           ctr' \in [Slot -> Counter], owes' \subseteq Compiler, gone' \subseteq Inst, Onward
    PROVE  Books'
<1> USE DEF Books
<1>1. BookTypes'
  BY DEF BookTypes
<1>2. Shaped'
  BY DEF Shaped
<1>3. BudgetOK'
  BY BudgetSame
<1>4. RowsOK'
  BY DEF RowsOK, Holds, Empty
<1>5. HoldersWatched'
  BY DEF HoldersWatched, LeasesOf
<1> QED BY <1>1, <1>2, <1>3, <1>4, <1>5

\* One process moves to a place after the admission, or to one that is none.
LEMMA MovesOnward ==
    ASSUME NEW p \in Pid, \A q \in Pid \ {p} : pc'[q] = pc[q] /\ calls'[q] = calls[q],
           ~Admitted(p) \/ ( /\ pc'[p] \notin {"new", "claim", "compile", "acquire"}
                             /\ calls'[p] # None => calls'[p].op \notin {"claim", "acquire"} ),
           Early(p)' => Early(p) \/ p \in Compiler
    PROVE  Onward
BY DEF Onward, Admitted, Early

LEMMA DoneOnward ==
    ASSUME Inv, NEW p \in Pid, calls[p] = None, Done(p), UNCHANGED calls
    PROVE  Onward
<1>1. Others(p) /\ Over(p)
  BY DoneEffect DEF Inv, Types
<1> QED BY <1>1, MovesOnward DEF Others, Same, Over, Early

LEMMA AsksOnward ==
    ASSUME Inv, NEW p \in Pid, at[p] \in Inst, NEW op \in {"publish", "abort", "acquire", "return"},
           Asks(p, op), op = "acquire" => p \in Compiler /\ pc[p] = "compile"
    PROVE  Onward
<1>1. /\ Others(p) /\ Moved(p, op, tok[p])
      /\ calls'[p] = [op |-> op, inst |-> at[p], tok |-> tok[p]]
  BY AsksEffect DEF Inv, Types
<1>2. pc'[p] = op /\ calls'[p].op = op
  BY <1>1 DEF Moved
<1>3. ~Admitted(p) \/ ( /\ pc'[p] \notin {"new", "claim", "compile", "acquire"}
                        /\ calls'[p] # None => calls'[p].op \notin {"claim", "acquire"} )
  BY <1>2 DEF Admitted
<1>4. Early(p)' => p \in Compiler
  BY <1>2 DEF Early
<1> QED BY <1>1, <1>3, <1>4, MovesOnward DEF Others, Same

\* The steps of compilers and callers.
Quiet ==
    \/ \E p \in Pid : Unclaim(p) \/ Adopt(p) \/ Kill(p)
    \/ \E c \in Compiler : Compiling(c)
    \/ \E p \in Caller : Calling(p)

LEMMA CounterSame == ASSUME Books, UNCHANGED ctr PROVE ctr' \in [Slot -> Counter]
BY DEF Books, BookTypes

LEMMA UnclaimBooks == ASSUME Inv, Books, NEW p \in Pid, Unclaim(p) PROVE Books'
<1>1. pc[p] \in {"compile", "build", "unclaim"} /\ Asks(p, "abort") /\ UNCHANGED outside
  BY DEF Unclaim
<1>2. Onward
  BY <1>1, Ready, AsksOnward
<1> QED BY <1>1, <1>2, QuietBooks, CounterSame DEF outside, manager, Asks, Goes, Books, BookTypes

LEMMA AdmitBooks == ASSUME Inv, Books, NEW c \in Compiler, Admit(c) PROVE Books'
<1>1. c \in Pid /\ pc[c] = "compile" /\ Asks(c, "acquire") /\ UNCHANGED outside
  BY DEF Admit, Pid
<1>2. Onward
  BY <1>1, Ready, AsksOnward
<1> QED BY <1>1, <1>2, QuietBooks, CounterSame DEF outside, manager, Asks, Goes, Books, BookTypes

LEMMA LoadedBooks == ASSUME Inv, Books, NEW c \in Compiler, Loaded(c) PROVE Books'
<1>1. c \in Pid /\ pc[c] = "loaded" /\ Asks(c, "publish") /\ UNCHANGED outside
  BY DEF Loaded, Pid
<1>2. Onward
  BY <1>1, Ready, AsksOnward
<1> QED BY <1>1, <1>2, QuietBooks, CounterSame DEF outside, manager, Asks, Goes, Books, BookTypes

LEMMA LeaveBooks == ASSUME Inv, Books, NEW c \in Compiler, Leave(c) PROVE Books'
<1>1. c \in Pid /\ pc[c] = "leave" /\ UNCHANGED outside
  BY DEF Leave, Pid
<1>2. calls[c] = None /\ at[c] \in Inst
  BY <1>1, Ready
<1>3. Onward /\ owes' \subseteq Compiler
  BY <1>1, <1>2, DoneOnward, AsksOnward DEF Leave, Done, Asks, Goes, Books, BookTypes
<1> QED BY <1>1, <1>3, QuietBooks, CounterSame DEF outside, manager, Books, BookTypes

LEMMA AdoptBooks == ASSUME Inv, Books, NEW p \in Pid, Adopt(p) PROVE Books'
<1>1. pc[p] = "adopt" /\ UNCHANGED <<tab, ctr, mon, refs, spent, hold, due, boot, restarts, gone>>
  BY DEF Adopt, manager
<1>2. calls[p] = None /\ at[p] \in Inst
  BY <1>1, Ready
<1>3. Onward /\ owes' \subseteq Compiler
  BY <1>2, DoneOnward, AsksOnward DEF Adopt, Done, Asks, Goes, Books, BookTypes
<1> QED BY <1>1, <1>3, QuietBooks, CounterSame DEF Books, BookTypes

LEMMA KillBooks == ASSUME Inv, Books, NEW p \in Pid, Kill(p) PROVE Books'
<1>1. UNCHANGED <<outside, calls>> /\ owes' \subseteq Compiler /\ pc'[p] = "dead"
      /\ \A q \in Pid \ {p} : pc'[q] = pc[q]
  BY DEF Kill, Books, BookTypes, Inv, Types, LocalTypes
<1>2. Onward
  BY <1>1 DEF Onward, Admitted, Early
<1> QED BY <1>1, <1>2, QuietBooks, CounterSame DEF outside, manager, Books, BookTypes

LEMMA HitBooks == ASSUME Inv, Books, NEW c \in Compiler, Hit(c) PROVE Books'
<1>1. c \in Pid /\ pc[c] = "compile" /\ Goes(c, "build", tok[c]) /\ UNCHANGED <<calls, outside>>
  BY DEF Hit, Pid
<1>2. pc'[c] = "build" /\ \A q \in Pid \ {c} : pc'[q] = pc[q]
  BY <1>1 DEF Goes, Inv, Types, LocalTypes
<1>3. Onward
  BY <1>1, <1>2 DEF Onward, Admitted, Early
<1> QED BY <1>1, <1>3, QuietBooks, CounterSame DEF outside, manager, Goes, Books, BookTypes

LEMMA LoadBooks == ASSUME Inv, Books, NEW c \in Compiler, Load(c) PROVE Books'
<1>1. UNCHANGED <<tab, ctr, manager, restarts, calls, owes, gone>>
      /\ \A q \in Pid : pc'[q] = pc[q] \/ pc'[q] \in {"loaded", "dead"}
  BY DEF Load
<1>2. Onward
  BY <1>1 DEF Onward, Admitted, Early
<1> QED BY <1>1, <1>2, QuietBooks, CounterSame DEF manager, Books, BookTypes

\* A process begins.
LEMMA OpensOnward ==
    ASSUME Inv, NEW p \in Pid, NEW i, NEW op \in {"claim", "release"}, Send(p, op, i, None),
           pc' = [pc EXCEPT ![p] = op], p \notin Compiler \/ pc[p] = "new"
    PROVE  Onward
<1>1. \A q \in Pid \ {p} : pc'[q] = pc[q] /\ calls'[q] = calls[q]
  BY DEF Send, Inv, Types, LocalTypes
<1>2. pc'[p] = op /\ calls'[p].op = op
  BY DEF Send, Inv, Types, LocalTypes
<1> QED BY <1>1, <1>2, MovesOnward DEF Admitted, Early

LEMMA StartBooks == ASSUME Inv, Books, NEW c \in Compiler, NEW i \in Inst, Start(c, i) PROVE Books'
<1>1. Onward
  BY OpensOnward DEF Start, Pid
<1> QED BY <1>1, QuietBooks, CounterSame DEF Start, manager, Books, BookTypes

LEMMA ClaimsBooks == ASSUME Inv, Books, NEW p \in Caller, NEW i \in Inst, Claims(p, i) PROVE Books'
<1>1. Onward
  BY SlotsAssumption, OpensOnward DEF Claims, Pid
<1> QED BY <1>1, QuietBooks, CounterSame DEF Claims, outside, manager, Books, BookTypes

LEMMA DestroyBooks == ASSUME Inv, Books, NEW p \in Caller, NEW i \in Inst, Destroy(p, i) PROVE Books'
<1>1. Onward
  BY SlotsAssumption, OpensOnward DEF Destroy, Pid
<1> QED BY <1>1, QuietBooks, CounterSame DEF Destroy, manager, Books, BookTypes

\* A caller's step is after the admission, as no caller needs one.
LEMMA CallerOnward ==
    ASSUME Inv, NEW p \in Caller, NEW l \in Label \ {"compile"}, pc' = [pc EXCEPT ![p] = l],
           UNCHANGED calls
    PROVE  Onward
<1>1. \A q \in Pid \ {p} : pc'[q] = pc[q] /\ calls'[q] = calls[q]
  BY DEF Inv, Types, LocalTypes
<1>2. p \notin Compiler /\ p \in Pid /\ pc'[p] = l
  BY SlotsAssumption DEF Pid, Inv, Types, LocalTypes
<1> QED BY <1>1, <1>2, MovesOnward DEF Admitted, Early

LEMMA TakeBooks == ASSUME Inv, Books, NEW p \in Caller, NEW i \in Inst, Take(p, i) PROVE Books'
<1> DEFINE v == Add(ctr[cslot[i]], 1)
           l == CASE v >= Excl -> "backout"
                  [] v < Excl /\ KeyOf[i] \in Hashed -> "ready"
                  [] OTHER -> "check"
<1>1. cslot[i] \in Slot /\ v \in Counter
  <2>1. cslot[i] \in Slot
    BY DEF Take, Inv, Types, RowTypes
  <2>2. ctr[cslot[i]] \in Int
    BY <2>1, SlotsAssumption DEF Books, BookTypes, Counter
  <2> QED BY <2>1, <2>2, AddType
<1>2. ctr' = [ctr EXCEPT ![cslot[i]] = v] /\ pc' = [pc EXCEPT ![p] = l]
  BY DEF Take
<1> HIDE DEF v
<1>3. l \in {"backout", "ready", "check"}
  OBVIOUS
<1> HIDE DEF l
<1>4. Onward
  BY <1>2, <1>3, CallerOnward DEF Take, Label
<1>5. ctr' \in [Slot -> Counter]
  BY <1>1, <1>2 DEF Books, BookTypes
<1> QED BY <1>4, <1>5, QuietBooks DEF Take, manager, Books, BookTypes

LEMMA CallerBooks ==
    ASSUME Inv, Books, NEW p \in Caller, Check(p) \/ Invoke(p) \/ Miss(p) PROVE Books'
<1>1. UNCHANGED <<outside, calls, owes>>
      /\ \E l \in {"ready", "backout", "in", "mixed"} : pc' = [pc EXCEPT ![p] = l]
  BY DEF Check, Invoke, Miss
<1>2. Onward
  BY <1>1, CallerOnward DEF Label
<1> QED BY <1>1, <1>2, QuietBooks, CounterSame DEF outside, manager, Books, BookTypes

LEMMA GiveLeaseBooks == ASSUME Inv, Books, NEW p \in Caller, GiveLease(p) PROVE Books'
<1>1. p \in Pid /\ calls[p] = None /\ SlotFor(p) \in Slot
  BY NoCall DEF GiveLease, Pid, Inv, Flow, PlaceOK, SlotFor, Calls
<1>2. Onward /\ owes' \subseteq Compiler
  BY <1>1, DoneOnward DEF GiveLease, Done, Books, BookTypes
<1>3. ctr' \in [Slot -> Counter]
  <2>1. Excl * Excl - 1 \in Int /\ ctr[SlotFor(p)] \in Int
    BY <1>1, SlotsAssumption DEF Books, BookTypes, Counter
  <2> QED BY <1>1, <2>1, AddType DEF GiveLease, Books, BookTypes
<1> QED BY <1>2, <1>3, QuietBooks DEF GiveLease, manager, Books, BookTypes
-----------------------------------------------------------------------------
(* The manager's steps keep its books.                                     *)

\* A call is answered, and its sender goes on behind the admission.
LEMMA AnswerOnward ==
    ASSUME Inv, NEW p \in Pid, Others(p), calls'[p] = None,
           \/ pc'[p] \in {"adopt", "leave", "unclaim", "dead", "out", "build"}
           \/ pc'[p] = pc[p]
    PROVE  Onward
BY DEF Onward, Others, Same, Admitted, Early

LEMMA EndsOnward ==
    ASSUME Inv, Books, NEW p \in Pid, Ends(p) PROVE Onward /\ owes' \subseteq Compiler
<1>1. Others(p) /\ Over(p) /\ calls'[p] = None
  BY EndsEffect DEF Inv, Types, Flow
<1>2. owes' \subseteq Compiler
  BY DEF Ends, Done, locals, Books, BookTypes
<1> QED BY <1>1, <1>2, AnswerOnward DEF Over

LEMMA HearsOnward ==
    ASSUME Inv, Books, NEW p \in Pid, NEW l \in {"adopt", "leave", "unclaim"}, NEW t \in Token,
           Hears(p, l, t)
    PROVE  Onward /\ owes' \subseteq Compiler
<1>1. /\ Others(p) /\ calls'[p] = None
      /\ Alive(p) => Moved(p, l, t)
      /\ ~Alive(p) => Same(p)
  BY HearsEffect DEF Inv, Types, Label
<1>2. owes' \subseteq Compiler
  BY DEF Hears, Goes, locals, Books, BookTypes
<1> QED BY <1>1, <1>2, AnswerOnward DEF Moved, Same

\* Rows are freed or published, or lose leases.
Fewer ==
    \A s \in Slot :
        /\ tab'[s].st # "free" => tab[s].st # "free" /\ tab'[s].key = tab[s].key
        /\ \A i \in Inst : tab'[s].leases[i] # None =>
               tab'[s].leases[i] = tab[s].leases[i] /\ tab'[s].st # "free"

LEMMA FewerRows ==
    ASSUME RowsOK, Fewer, hold' = None PROVE RowsOK'
BY DEF RowsOK, Fewer, Holds

\* The leases of a slot are of its key, so of no other slot.
LEMMA LeaseApart ==
    ASSUME RowsOK, SlotsAssumption, NEW r \in Slot, NEW s \in Slot, NEW i \in Inst,
           tab[r].leases[i] # None, tab[s].leases[i] # None
    PROVE  r = s
BY DEF RowsOK

\* The monitors behind a lease and a reservation.
LEMMA LeaseWatched ==
    ASSUME HoldersWatched, NEW r \in Slot, NEW i, i \in LeasesOf(r)
    PROVE  \E w \in mon : w.kind \in {"lease", "rebuilt"} /\ w.inst = i /\ w.pid = tab[r].leases[i]
<1>1. \A s \in Slot : \A j \in LeasesOf(s) :
         \E w \in mon : w.kind \in {"lease", "rebuilt"} /\ w.inst = j /\ w.pid = tab[s].leases[j]
  BY DEF HoldersWatched
<1> QED BY <1>1

\* What AbortRow/1 leaves.
LEMMA AbortRowBooks ==
    ASSUME Inv, Books, NEW t \in Token, NEW p \in Pid \cup {None}, AbortRow(t, p), boot' = boot
    PROVE  /\ due' \in Due \cup {None} /\ mon' \subseteq mon /\ Fewer
           /\ \A i \in Inst : refs'[i] \in {refs[i], None}
           /\ refs' \in [Inst -> Watch \cup {None}]
           /\ \A q \in Pid : OfBudget(q) \in mon' <=> OfBudget(q) \in mon
           /\ HoldersWatched'
<1>1. CASE ~Reserved(t)
  BY <1>1 DEF AbortRow, Books, BookTypes, Fewer, HoldersWatched, LeasesOf, RowsOK, Holds
<1>2. CASE Reserved(t)
  <2> DEFINE s == t.slot
             L == LeasesOf(s)
  <2>1. s \in Slot /\ tab[s].st = "loading" /\ tab[s] \in Row /\ t.gen = tab[s].gen
    BY <1>2 DEF Token, Reserved, Inv, Types, RowTypes
  <2>2. /\ tab' = [tab EXCEPT ![s] = Freed(@)]
        /\ due' = [slot |-> s, pid |-> p]
        /\ mon' = {w \in mon \ {refs[i] : i \in L} : w.kind = "loading" => w.tok # t}
        /\ refs' = [i \in Inst |-> IF i \in L THEN None ELSE refs[i]]
    BY <1>2 DEF AbortRow, Unwatched, Forgotten
  <2>3. /\ tab'[s].st = "free" /\ \A i \in Inst : tab'[s].leases[i] = None
        /\ \A r \in Slot \ {s} : tab'[r] = tab[r]
    BY <2>1, <2>2 DEF Freed, Row, NoLease, Inv, Types, RowTypes
  <2>4. due' \in Due \cup {None}
    BY <2>1, <2>2 DEF Due
  <2>5. Fewer
    BY <2>3 DEF Fewer, Books, RowsOK, Holds
  <2>6. refs' \in [Inst -> Watch \cup {None}]
    BY <2>2 DEF Books, BookTypes
  <2>7. ASSUME NEW q \in Pid, OfBudget(q) \in mon PROVE OfBudget(q) \in mon'
    <3>1. \A i \in Inst : refs[i] # OfBudget(q)
      <4>1. None # OfBudget(q)
        BY RecordAssumption, WatchTypes
      <4> QED BY <4>1, Kinds DEF Books, Shaped
    <3>2. OfBudget(q).kind = "budget"
      BY DEF OfBudget
    <3> QED BY <2>2, <2>7, <3>1, <3>2 DEF LeasesOf
  <2>8. HoldersWatched'
    <3>1. ASSUME NEW r \in Slot, NEW i \in Inst, tab'[r].leases[i] # None
          PROVE  \E w \in mon' : /\ w.kind \in {"lease", "rebuilt"} /\ w.inst = i
                                 /\ w.pid = tab'[r].leases[i]
      <4>1. r # s /\ tab'[r] = tab[r]
        BY <2>3, <3>1
      <4>2. PICK w \in mon : w.kind \in {"lease", "rebuilt"} /\ w.inst = i /\ w.pid = tab[r].leases[i]
        <5>1. i \in LeasesOf(r)
          BY <3>1, <4>1 DEF LeasesOf
        <5> QED BY <5>1, LeaseWatched DEF Books
      <4>3. i \notin L
        BY <2>1, <3>1, <4>1, SlotsAssumption, LeaseApart DEF LeasesOf, Books
      <4>4. \A j \in L : refs[j] # w
        <5>1. ASSUME NEW j \in L, refs[j] = w PROVE FALSE
          <6>1. j \in Inst /\ refs[j] # None
            BY <4>2, <5>1, RecordAssumption DEF LeasesOf, Books, BookTypes
          <6>2. refs[j].inst = j
            BY <6>1 DEF Books, Shaped, OfLease, OfRebuilt
          <6> QED BY <4>2, <4>3, <5>1, <6>2
        <5> QED BY <5>1
      <4> QED BY <2>2, <4>1, <4>2, <4>4
    <3>2. ASSUME NEW r \in Slot, tab'[r].st = "loading", ~boot'
          PROVE  \E w \in mon' : w.kind = "loading" /\ w.tok = [slot |-> r, gen |-> tab'[r].gen]
      <4>1. r # s /\ tab'[r] = tab[r]
        BY <2>3, <3>2
      <4>2. PICK w \in mon : w.kind = "loading" /\ w.tok = [slot |-> r, gen |-> tab[r].gen]
        BY <3>2, <4>1 DEF Books, HoldersWatched
      <4>3. w.tok # t
        BY <4>1, <4>2
      <4>4. \A j \in L : refs[j] # w
        <5>1. ASSUME NEW j \in L, refs[j] = w PROVE FALSE
          <6>1. j \in Inst /\ w \in Watch
            BY DEF LeasesOf, Books, BookTypes
          <6>2. refs[j] # None => refs[j].kind \in {"lease", "rebuilt"}
            BY <6>1 DEF Books, Shaped, OfLease, OfRebuilt
          <6> QED BY <4>2, <5>1, <6>1, <6>2, RecordAssumption
        <5> QED BY <5>1
      <4> QED BY <2>2, <4>1, <4>2, <4>3, <4>4
    <3> QED BY <3>1, <3>2 DEF HoldersWatched, LeasesOf
  <2>9. mon' \subseteq mon /\ \A i \in Inst : refs'[i] \in {refs[i], None}
    BY <2>2
  <2>10. \A q \in Pid : OfBudget(q) \in mon' <=> OfBudget(q) \in mon
    BY <2>7, <2>9
  <2> QED BY <2>4, <2>5, <2>6, <2>8, <2>9, <2>10
<1> QED BY <1>1, <1>2

LEMMA RestBooks ==
    ASSUME Books, UNCHANGED <<tab, ctr, mon, refs, spent, hold, due, boot, restarts, gone>>,
           owes' \subseteq Compiler, Onward
    PROVE  Books'
BY QuietBooks, CounterSame DEF Books, BookTypes

\* The rows stay, and so do the monitors of leases and reservations.
LEMMA WatchedMore ==
    ASSUME HoldersWatched, tab' = tab, boot' = boot, \A w \in mon : w.kind # "budget" => w \in mon'
    PROVE  HoldersWatched'
<1>1. ASSUME NEW r \in Slot, NEW j \in LeasesOf(r)
      PROVE  \E w \in mon' : /\ w.kind \in {"lease", "rebuilt"} /\ w.inst = j
                             /\ w.pid = tab[r].leases[j]
  <2>1. PICK w \in mon : w.kind \in {"lease", "rebuilt"} /\ w.inst = j /\ w.pid = tab[r].leases[j]
    BY LeaseWatched
  <2> QED BY <2>1
<1>2. ASSUME NEW r \in Slot, tab[r].st = "loading", ~boot
      PROVE  \E w \in mon' : w.kind = "loading" /\ w.tok = [slot |-> r, gen |-> tab[r].gen]
  <2>1. PICK w \in mon : w.kind = "loading" /\ w.tok = [slot |-> r, gen |-> tab[r].gen]
    BY <1>2 DEF HoldersWatched
  <2> QED BY <2>1
<1> QED BY <1>1, <1>2 DEF HoldersWatched, LeasesOf

\* A share comes back.
LEMMA ShareBack ==
    ASSUME Inv, Books, NEW p \in Pid, OfBudget(p) \in mon, mon' = mon \ {OfBudget(p)},
           spent' = spent - Words, hold' = None, Onward, owes' \subseteq Compiler,
           UNCHANGED <<tab, ctr, refs, due, boot, restarts, gone>>
    PROVE  Books'
<1> USE DEF Books
<1>1. BookTypes'
  BY DEF BookTypes
<1>2. Shaped'
  BY ShapedLess
<1>3. BudgetOK'
  <2>1. Shares' = Shares \ {p} /\ p \in Shares
    BY Kinds DEF Shares
  <2>2. Cardinality(Shares') = Cardinality(Shares) - 1
    BY <2>1, SharesFinite, FS_RemoveElement
  <2>3. spent' = Words * Cardinality(Shares')
    <3> DEFINE n == Cardinality(Shares)
    <3>1. n \in Nat /\ Words \in Nat
      BY SharesFinite, SlotsAssumption
    <3> HIDE DEF n
    <3>2. Words * n - Words = Words * (n - 1)
      BY <3>1
    <3> QED BY <2>2, <3>2 DEF BudgetOK, n
  <2>4. \A q \in Shares' : Admitted(q)'
    BY <2>1 DEF BudgetOK, Onward, Shares
  <2>5. \A q \in Pid : Early(q)' => q \in Compiler
    BY DEF BudgetOK, Onward, Early
  <2> QED BY <2>3, <2>4, <2>5 DEF BudgetOK, Early
<1>4. RowsOK'
  BY DEF RowsOK, Holds
<1>5. HoldersWatched'
  <2>1. OfBudget(p).kind = "budget"
    BY DEF OfBudget
  <2>2. \A w \in mon : w.kind # "budget" => w \in mon'
    BY <2>1
  <2> QED BY <2>2, WatchedMore
<1> QED BY <1>1, <1>2, <1>3, <1>4, <1>5

\* Rows and monitors go, nothing comes.
LEMMA FewerBooks ==
    ASSUME Inv, Books, hold' = None, Fewer, ctr' \in [Slot -> Counter], mon' \subseteq mon,
           \A i \in Inst : refs'[i] \in {refs[i], None}, refs' \in [Inst -> Watch \cup {None}],
           \A p \in Pid : OfBudget(p) \in mon' <=> OfBudget(p) \in mon,
           HoldersWatched', Onward, owes' \subseteq Compiler, due' \in Due \cup {None},
           UNCHANGED <<spent, boot, restarts, gone>>
    PROVE  Books'
<1> USE DEF Books
<1>1. BookTypes'
  BY DEF BookTypes
<1>2. Shaped'
  BY ShapedLess
<1>3. BudgetOK'
  BY BudgetSame
<1>4. RowsOK'
  BY FewerRows
<1> QED BY <1>1, <1>2, <1>3, <1>4

\* What DropLease/1 leaves: no row has a lease of the instance.
LEMMA DropBooks ==
    ASSUME Inv, Books, NEW i \in Inst, DropLease(i), mon' \subseteq mon, boot' = boot,
           \A w \in mon : w \in mon' \/ (w.kind \in {"lease", "rebuilt"} /\ w.inst = i)
    PROVE  /\ Fewer
           /\ \A j \in Inst : refs'[j] \in {refs[j], None}
           /\ refs' \in [Inst -> Watch \cup {None}]
           /\ \A p \in Pid : OfBudget(p) \in mon' <=> OfBudget(p) \in mon
           /\ HoldersWatched'
<1>1. refs' = [j \in Inst |-> IF j \in {i} THEN None ELSE refs[j]]
  BY DEF DropLease, Forgotten
<1>2. ASSUME NEW s \in Slot
      PROVE  /\ tab'[s].gen = tab[s].gen /\ tab'[s].st = tab[s].st /\ tab'[s].key = tab[s].key
             /\ tab'[s].leases[i] = None
             /\ \A j \in Inst \ {i} : tab'[s].leases[j] = tab[s].leases[j]
  <2>1. tab[s] \in Row /\ tab'[s] = IF Holds(s, KeyOf[i]) THEN [tab[s] EXCEPT !.leases[i] = None]
                                                      ELSE tab[s]
    BY DEF DropLease, Inv, Types, RowTypes
  <2>2. CASE Holds(s, KeyOf[i])
    BY <2>1, <2>2 DEF Row
  <2>3. CASE ~Holds(s, KeyOf[i])
    BY <2>1, <2>3 DEF Books, RowsOK
  <2> QED BY <2>2, <2>3
<1>3. Fewer
  BY <1>2 DEF Fewer, Books, RowsOK, Holds
<1>4. \A p \in Pid : OfBudget(p).kind = "budget"
  BY DEF OfBudget
<1>5. HoldersWatched'
  <2>1. ASSUME NEW r \in Slot, NEW j \in Inst, tab'[r].leases[j] # None
        PROVE  \E w \in mon' : /\ w.kind \in {"lease", "rebuilt"} /\ w.inst = j
                               /\ w.pid = tab'[r].leases[j]
    <3>1. j # i /\ tab'[r].leases[j] = tab[r].leases[j] /\ j \in LeasesOf(r)
      BY <1>2, <2>1 DEF LeasesOf
    <3>2. PICK w \in mon : w.kind \in {"lease", "rebuilt"} /\ w.inst = j /\ w.pid = tab[r].leases[j]
      BY <3>1, LeaseWatched DEF Books
    <3> QED BY <3>1, <3>2
  <2>2. ASSUME NEW r \in Slot, tab'[r].st = "loading", ~boot'
        PROVE  \E w \in mon' : w.kind = "loading" /\ w.tok = [slot |-> r, gen |-> tab'[r].gen]
    <3>1. PICK w \in mon : w.kind = "loading" /\ w.tok = [slot |-> r, gen |-> tab[r].gen]
      BY <1>2, <2>2 DEF Books, HoldersWatched
    <3> QED BY <1>2, <3>1
  <2> QED BY <2>1, <2>2 DEF HoldersWatched, LeasesOf
<1>6. refs' \in [Inst -> Watch \cup {None}]
  BY <1>1 DEF Books, BookTypes
<1> QED BY <1>1, <1>3, <1>4, <1>5, <1>6

\* What an instance remembers is a monitor of its lease.
LEMMA RefsOfLease ==
    ASSUME Books, NEW i \in Inst, NEW w \in mon, refs[i] = w
    PROVE  w.kind \in {"lease", "rebuilt"} /\ w.inst = i
<1>1. refs[i] # None
  BY RecordAssumption DEF Books, BookTypes
<1> QED BY <1>1 DEF Books, Shaped, OfLease, OfRebuilt

LEMMA ReleaseBooks == ASSUME Inv, Books, NEW p \in Pid, Release(p) PROVE Books'
<1> DEFINE i == calls[p].inst
<1>1. i \in Inst /\ hold' = None /\ DropLease(i) /\ mon' = mon \ {refs[i]}
  <2>1. mon' = mon \ {refs[j] : j \in {i}} /\ hold' = None /\ DropLease(i)
    BY Sender DEF Release, Unwatched
  <2>2. {refs[j] : j \in {i}} = {refs[i]}
    OBVIOUS
  <2>3. i \in Inst
    BY Sender DEF Release, Request
  <2> QED BY <2>1, <2>2, <2>3
<1> HIDE DEF i
<1>2. \A w \in mon : w \in mon' \/ (w.kind \in {"lease", "rebuilt"} /\ w.inst = i)
  BY <1>1, RefsOfLease
<1>3. Onward /\ owes' \subseteq Compiler
  BY EndsOnward DEF Release
<1>4. ctr' \in [Slot -> Counter] /\ UNCHANGED <<spent, due, boot, restarts, gone>>
      /\ due \in Due \cup {None}
  BY CounterSame DEF Release, Books, BookTypes
<1> QED BY <1>1, <1>2, <1>3, <1>4, DropBooks, FewerBooks

LEMMA AbortedOnward ==
    ASSUME Inv, Books, NEW p \in Pid, calls[p].tok \in Token, Aborted(p)
    PROVE  Onward /\ owes' \subseteq Compiler
<1>1. CASE p \in owes
  BY <1>1, HearsOnward DEF Aborted
<1>2. CASE p \notin owes
  BY <1>2, EndsOnward DEF Aborted
<1> QED BY <1>1, <1>2

LEMMA WaitsOnward ==
    ASSUME Books, UNCHANGED <<calls, pc, owes>> PROVE Onward /\ owes' \subseteq Compiler
BY DEF Onward, Admitted, Early, Books, BookTypes

LEMMA AbortBooks == ASSUME Inv, Books, NEW p \in Pid, Abort(p) PROVE Books'
<1>1. calls[p].tok \in Token /\ hold' = None /\ AbortRow(calls[p].tok, p)
      /\ UNCHANGED <<spent, boot, restarts, gone>>
  BY Sender DEF Abort
<1>2. Onward /\ owes' \subseteq Compiler
  <2>1. CASE Reserved(calls[p].tok)
    BY <2>1, WaitsOnward DEF Abort, locals
  <2>2. CASE ~Reserved(calls[p].tok)
    BY <1>1, <2>2, AbortedOnward DEF Abort
  <2> QED BY <2>1, <2>2
<1>3. ctr' \in [Slot -> Counter]
  BY CounterSame DEF Abort
<1> QED BY <1>1, <1>2, <1>3, AbortRowBooks, FewerBooks

\* A hold comes back, and whoever asked goes on.
LEMMA EndHoldBooks == ASSUME Inv, Books, EndHold PROVE Books'
<1> DEFINE p == due.pid
<1>1. /\ hold' = None /\ hold = None /\ due' = None /\ due \in Due /\ due # None
      /\ UNCHANGED <<tab, mon, refs, spent, boot, restarts, gone>>
  BY DEF EndHold, Inv, Flow, HoldOK, Books, BookTypes
<1>2. ctr' \in [Slot -> Counter]
  BY <1>1, ReleaseHoldType DEF EndHold, Due, Books
<1>3. Onward /\ owes' \subseteq Compiler
  <2>1. CASE p = None
    BY <2>1, WaitsOnward DEF EndHold, locals
  <2>2. CASE p # None
    <3>1. p \in Pid /\ calls[p] # None /\ calls[p].op \in {"publish", "abort"}
      BY <1>1, <2>2 DEF Due, Inv, Flow, HoldOK
    <3>2. calls[p].tok \in Token
      BY <3>1 DEF Inv, Types, LocalTypes, Flow, CallsOK, Request
    <3>3. CASE Hears(p, "adopt", calls[p].tok)
      <4> HIDE DEF p
      <4> QED BY <3>1, <3>2, <3>3, HearsOnward
    <3>4. CASE Aborted(p)
      <4> HIDE DEF p
      <4> QED BY <3>1, <3>2, <3>4, AbortedOnward
    <3> QED BY <2>2, <3>3, <3>4 DEF EndHold
  <2> QED BY <2>1, <2>2
<1> USE DEF Books
<1>4. HoldersWatched'
  BY <1>1, WatchedMore
<1>5. Fewer
  BY <1>1 DEF Fewer, RowsOK, Holds
<1>6. /\ \A i \in Inst : refs'[i] \in {refs[i], None}
      /\ refs' \in [Inst -> Watch \cup {None}] /\ mon' \subseteq mon
      /\ \A q \in Pid : OfBudget(q) \in mon' <=> OfBudget(q) \in mon
  BY <1>1 DEF BookTypes
<1> HIDE DEF p, Books
<1> QED BY <1>1, <1>2, <1>3, <1>4, <1>5, <1>6, FewerBooks

\* A death gives the share, the reservation or the lease back.
LEMMA DownBooks == ASSUME Inv, Books, NEW w \in mon, Down(w) PROVE Books'
<1>1. hold' = None /\ UNCHANGED <<ctr, boot, restarts, gone, calls, pc, owes>>
      /\ due \in Due \cup {None}
  BY DEF Down, Idle, locals, Books, BookTypes
<1>2. Onward /\ owes' \subseteq Compiler
  BY <1>1 DEF Onward, Admitted, Early, Books, BookTypes
<1>3. \/ \E i \in Inst, p \in Pid : w \in {OfLease(i, p), OfRebuilt(i, p)}
      \/ \E t \in Token, p \in Pid : w = OfToken(t, p)
      \/ \E p \in Pid : w = OfBudget(p)
  BY DEF Books, Shaped
<1>4. ASSUME NEW i \in Inst, NEW p \in Pid, w \in {OfLease(i, p), OfRebuilt(i, p)} PROVE Books'
  <2>1. w.kind \in {"lease", "rebuilt"} /\ w.inst = i
    BY <1>4 DEF OfLease, OfRebuilt
  <2>2. DropLease(i) /\ mon' = (mon \ {refs[j] : j \in {i}}) \ {w} /\ UNCHANGED <<due, spent>>
    BY <2>1 DEF Down, Unwatched
  <2>3. \A x \in mon : x \in mon' \/ (x.kind \in {"lease", "rebuilt"} /\ x.inst = i)
    BY <2>1, <2>2, RefsOfLease
  <2> QED BY <1>1, <1>2, <2>2, <2>3, DropBooks, CounterSame, FewerBooks
<1>5. ASSUME NEW t \in Token, NEW p \in Pid, w = OfToken(t, p) PROVE Books'
  <2>1. w.kind = "loading" /\ w.tok = t
    BY <1>5 DEF OfToken
  <2>2. AbortRow(t, None) /\ UNCHANGED spent
    BY <2>1 DEF Down
  <2> QED BY <1>1, <1>2, <2>2, AbortRowBooks, CounterSame, FewerBooks
<1>6. ASSUME NEW p \in Pid, w = OfBudget(p) PROVE Books'
  <2>1. w.kind = "budget"
    BY <1>6 DEF OfBudget
  <2>2. spent' = spent - Words /\ mon' = mon \ {w} /\ UNCHANGED <<tab, due, refs>>
    BY <2>1 DEF Down
  <2>3. \A q \in Pid : OfBudget(q) \in mon' <=> OfBudget(q) \in mon /\ q # p
    BY <1>6, <2>2, Kinds
  <2> QED BY <1>1, <1>2, <1>6, <2>1, <2>2, <2>3, ShareBack
<1> QED BY <1>3, <1>4, <1>5, <1>6

LEMMA GiveBackBooks == ASSUME Inv, Books, NEW p \in Pid, GiveBack(p) PROVE Books'
<1>1. hold' = None /\ UNCHANGED <<tab, ctr, refs, due, boot, restarts, gone>> /\ mon' = mon \ {OfBudget(p)}
      /\ spent' = IF OfBudget(p) \in mon THEN spent - Words ELSE spent
  BY Sender DEF GiveBack
<1>2. Onward /\ owes' \subseteq Compiler
  BY EndsOnward DEF GiveBack
<1>3. CASE OfBudget(p) \in mon
  BY <1>1, <1>2, <1>3, ShareBack
<1>4. CASE OfBudget(p) \notin mon
  <2>1. mon' = mon /\ spent' = spent
    BY <1>1, <1>4
  <2>2. hold' = hold /\ UNCHANGED gone
    BY DEF GiveBack
  <2> QED BY <1>1, <1>2, <2>1, <2>2, RestBooks
<1> QED BY <1>3, <1>4

LEMMA PublishBooks == ASSUME Inv, Books, NEW p \in Pid, Publish(p) PROVE Books'
<1> DEFINE t == calls[p].tok
<1>1. t \in Token /\ hold' = None /\ UNCHANGED <<ctr, refs, spent, boot, restarts, gone>>
  BY Sender DEF Publish
<1>2. Onward /\ owes' \subseteq Compiler
  <2>1. CASE Reserved(t)
    BY <2>1, WaitsOnward DEF Publish, locals
  <2>2. CASE ~Reserved(t)
    BY <1>1, <2>2, HearsOnward DEF Publish
  <2> QED BY <2>1, <2>2
<1>3. CASE ~Reserved(t)
  <2>1. UNCHANGED <<tab, mon, hold, due>>
    BY <1>3 DEF Publish
  <2> QED BY <1>1, <1>2, <2>1, RestBooks
<1>4. CASE Reserved(t)
  <2> DEFINE s == t.slot
  <2>1. /\ tab' = [tab EXCEPT ![s].st = "resident"] /\ due' = [slot |-> s, pid |-> p]
        /\ mon' = {w \in mon : w.kind = "loading" => w.tok # t}
    BY <1>4 DEF Publish
  <2>2. s \in Slot /\ tab[s].st = "loading" /\ tab[s] \in Row /\ t.gen = tab[s].gen
    BY <1>1, <1>4 DEF Token, Reserved, Inv, Types, RowTypes
  <2>3. /\ tab'[s].st = "resident" /\ tab'[s].key = tab[s].key /\ tab'[s].leases = tab[s].leases
        /\ \A r \in Slot \ {s} : tab'[r] = tab[r]
    BY <2>1, <2>2 DEF Row, Inv, Types, RowTypes
  <2>4. ctr' \in [Slot -> Counter] /\ due' \in Due \cup {None}
    BY <1>1, <2>1, <2>2, CounterSame DEF Due
  <2>5. Fewer
    BY <2>2, <2>3 DEF Fewer, Books, RowsOK, Holds
  <2>6. \A q \in Pid : OfBudget(q) \in mon' <=> OfBudget(q) \in mon
    <3>1. \A q \in Pid : OfBudget(q).kind = "budget"
      BY DEF OfBudget
    <3> QED BY <2>1, <3>1
  <2>7. HoldersWatched'
    <3>1. ASSUME NEW r \in Slot, NEW j \in Inst, tab'[r].leases[j] # None
          PROVE  \E w \in mon' : /\ w.kind \in {"lease", "rebuilt"} /\ w.inst = j
                                 /\ w.pid = tab'[r].leases[j]
      <4>1. tab'[r].leases = tab[r].leases /\ j \in LeasesOf(r)
        BY <2>3, <3>1 DEF LeasesOf
      <4>2. PICK w \in mon : w.kind \in {"lease", "rebuilt"} /\ w.inst = j /\ w.pid = tab[r].leases[j]
        BY <4>1, LeaseWatched DEF Books
      <4>3. w \in mon'
        BY <2>1, <4>2
      <4> QED BY <4>1, <4>2, <4>3
    <3>2. ASSUME NEW r \in Slot, tab'[r].st = "loading", ~boot'
          PROVE  \E w \in mon' : w.kind = "loading" /\ w.tok = [slot |-> r, gen |-> tab'[r].gen]
      <4>1. r # s /\ tab'[r] = tab[r]
        BY <2>3, <3>2
      <4>2. PICK w \in mon : w.kind = "loading" /\ w.tok = [slot |-> r, gen |-> tab[r].gen]
        BY <1>1, <3>2, <4>1 DEF Books, HoldersWatched
      <4>3. w.tok # t
        BY <4>1, <4>2
      <4> QED BY <2>1, <4>1, <4>2, <4>3
    <3> QED BY <3>1, <3>2 DEF HoldersWatched, LeasesOf
  <2>8. \A i \in Inst : refs'[i] \in {refs[i], None}
    BY <1>1
  <2>9. refs' \in [Inst -> Watch \cup {None}] /\ mon' \subseteq mon
    BY <1>1, <2>1 DEF Books, BookTypes
  <2> HIDE DEF t, s
  <2> QED BY <1>1, <1>2, <2>4, <2>5, <2>6, <2>7, <2>8, <2>9, FewerBooks
<1> QED BY <1>3, <1>4

LEMMA AcquireBooks == ASSUME Inv, Books, NEW p \in Pid, Acquire(p) PROVE Books'
<1>1. calls[p].tok \in Token /\ UNCHANGED <<hold, due, boot, tab, ctr, refs, restarts, gone>>
      /\ calls[p] # None /\ calls[p].op = "acquire" /\ p \in Compiler
  BY Sender DEF Acquire, Books, BudgetOK
<1>2. CASE ~Room
  <2>1. UNCHANGED <<spent, mon>> /\ Hears(p, "unclaim", calls[p].tok)
    BY <1>2 DEF Acquire
  <2>2. Onward /\ owes' \subseteq Compiler
    BY <1>1, <2>1, HearsOnward
  <2> QED BY <1>1, <2>1, <2>2, RestBooks
<1>3. CASE Room
  <2>1. /\ spent' = spent + Words /\ mon' = mon \cup {OfBudget(p)} /\ Answered(p)
        /\ Alive(p) => pc' = [pc EXCEPT ![p] = "build"] /\ owes' = owes \cup {p}
        /\ ~Alive(p) => pc' = pc /\ owes' = owes
    BY <1>3 DEF Acquire, locals
  <2>2. /\ calls'[p] = None /\ \A q \in Pid \ {p} : pc'[q] = pc[q] /\ calls'[q] = calls[q]
        /\ pc'[p] \in {"build", "dead"}
    BY <2>1 DEF Answered, Alive, Inv, Types, LocalTypes
  <2>3. Onward
    BY <1>1, <2>2 DEF Onward, Admitted, Early
  <2>4. p \notin Shares /\ Shares' = Shares \cup {p}
    <3>1. ~Admitted(p)
      BY <1>1 DEF Admitted
    <3> QED BY <2>1, <3>1, Kinds DEF Shares, Books, BudgetOK
  <2> USE DEF Books
  <2>5. BudgetOK'
    <3>1. spent' = Words * Cardinality(Shares')
      <4> DEFINE n == Cardinality(Shares)
      <4>1. n \in Nat /\ Words \in Nat /\ Cardinality(Shares') = n + 1
        BY <2>4, SharesFinite, SlotsAssumption, FS_AddElement
      <4> HIDE DEF n
      <4>2. Words * n + Words = Words * (n + 1)
        BY <4>1
      <4> QED BY <2>1, <4>1, <4>2 DEF BudgetOK, n
    <3>2. Admitted(p)'
      BY <1>1, <2>2 DEF Admitted
    <3>3. \A q \in Shares' : Admitted(q)'
      BY <2>3, <2>4, <3>2 DEF BudgetOK, Onward, Shares
    <3>4. \A q \in Pid : Early(q)' => q \in Compiler
      BY <2>3 DEF BudgetOK, Onward, Early
    <3> QED BY <3>1, <3>3, <3>4 DEF BudgetOK, Early
  <2>6. BookTypes'
    BY <1>1, <2>1, WatchTypes DEF BookTypes
  <2>7. Shaped'
    BY <1>1, <2>1 DEF Shaped
  <2>8. RowsOK'
    BY <1>1 DEF RowsOK, Holds, Empty
  <2>9. HoldersWatched'
    BY <1>1, <2>1, WatchedMore
  <2> QED BY <2>5, <2>6, <2>7, <2>8, <2>9
<1> QED BY <1>2, <1>3

\* A lease and its monitor come.
LEMMA ClaimFoundBooks == ASSUME Inv, Books, NEW p \in Pid, ClaimFound(p) PROVE Books'
<1> DEFINE i == calls[p].inst
<1>1. i \in Inst /\ hold = None /\ UNCHANGED <<ctr, hold, due, boot, spent, restarts, gone>>
  BY Sender DEF ClaimFound, Request
<1>2. PICK s \in Found(KeyOf[i]) :
          \/ tab[s].st = "loading" /\ Ends(p) /\ UNCHANGED <<tab, mon, refs>>
          \/ /\ tab[s].st = "resident"
             /\ Hears(p, "adopt", [slot |-> s, gen |-> tab[s].gen])
             /\ \/ UNCHANGED <<tab, mon, refs>>
                \/ /\ tab[s].leases[i] = None
                   /\ tab' = [tab EXCEPT ![s].leases[i] = p]
                   /\ mon' = mon \cup {OfLease(i, p)}
                   /\ refs' = [refs EXCEPT ![i] = OfLease(i, p)]
  BY DEF ClaimFound
<1>3. s \in Slot /\ Holds(s, KeyOf[i]) /\ tab[s] \in Row /\ [slot |-> s, gen |-> tab[s].gen] \in Token
  BY <1>2 DEF Found, Inv, Types, RowTypes, Row, Token
<1>4. Onward /\ owes' \subseteq Compiler
  BY <1>2, <1>3, EndsOnward, HearsOnward
<1>5. CASE UNCHANGED <<tab, mon, refs>>
  BY <1>1, <1>4, <1>5, RestBooks
<1>6. CASE /\ tab' = [tab EXCEPT ![s].leases[i] = p]
           /\ mon' = mon \cup {OfLease(i, p)}
           /\ refs' = [refs EXCEPT ![i] = OfLease(i, p)]
  <2> HIDE DEF i
  <2> USE DEF Books
  <2>1. /\ tab'[s].st = tab[s].st /\ tab'[s].key = tab[s].key /\ tab'[s].gen = tab[s].gen
        /\ tab'[s].leases[i] = p
        /\ \A j \in Inst \ {i} : tab'[s].leases[j] = tab[s].leases[j]
        /\ \A r \in Slot \ {s} : tab'[r] = tab[r]
    BY <1>1, <1>3, <1>6 DEF Row, Inv, Types, RowTypes
  <2>2. BookTypes'
    BY <1>1, <1>4, <1>6, WatchTypes DEF BookTypes
  <2>3. Shaped'
    BY <1>1, <1>6 DEF Shaped, BookTypes
  <2>4. BudgetOK'
    <3>1. \A q \in Pid : OfBudget(q) \in mon' <=> OfBudget(q) \in mon
      BY <1>1, <1>6, Kinds
    <3> QED BY <1>1, <1>4, <3>1, BudgetSame
  <2>5. RowsOK'
    BY <1>1, <1>3, <2>1 DEF RowsOK, Holds
  <2>6. HoldersWatched'
    <3>1. ASSUME NEW r \in Slot, NEW j \in Inst, tab'[r].leases[j] # None
          PROVE  \E w \in mon' : /\ w.kind \in {"lease", "rebuilt"} /\ w.inst = j
                                 /\ w.pid = tab'[r].leases[j]
      <4>1. CASE r = s /\ j = i
        <5>1. /\ OfLease(i, p).kind = "lease" /\ OfLease(i, p).inst = i /\ OfLease(i, p).pid = p
              /\ OfLease(i, p) \in mon'
          BY <1>6 DEF OfLease
        <5> QED BY <2>1, <4>1, <5>1
      <4>2. CASE ~(r = s /\ j = i)
        <5>1. tab'[r].leases[j] = tab[r].leases[j] /\ j \in LeasesOf(r)
          BY <2>1, <3>1, <4>2 DEF LeasesOf
        <5>2. PICK w \in mon : w.kind \in {"lease", "rebuilt"} /\ w.inst = j /\ w.pid = tab[r].leases[j]
          BY <5>1, LeaseWatched
        <5> QED BY <1>6, <5>1, <5>2
      <4> QED BY <4>1, <4>2
    <3>2. ASSUME NEW r \in Slot, tab'[r].st = "loading", ~boot'
          PROVE  \E w \in mon' : w.kind = "loading" /\ w.tok = [slot |-> r, gen |-> tab'[r].gen]
      <4>1. tab'[r].st = tab[r].st /\ tab'[r].gen = tab[r].gen
        BY <2>1
      <4>2. PICK w \in mon : w.kind = "loading" /\ w.tok = [slot |-> r, gen |-> tab[r].gen]
        BY <1>1, <3>2, <4>1 DEF HoldersWatched
      <4> QED BY <1>6, <4>1, <4>2
    <3> QED BY <3>1, <3>2 DEF HoldersWatched, LeasesOf
  <2> QED BY <2>2, <2>3, <2>4, <2>5, <2>6
<1> QED BY <1>2, <1>5, <1>6

\* The search only looks at the rows.
LEMMA SearchBooks ==
    ASSUME Inv, Books, UNCHANGED <<tab, mon, refs, due, boot, spent, restarts, owes, gone, pc, calls>>,
           ctr' \in [Slot -> Counter], hold' \in Claim \cup {None},
           hold' # None => /\ \A s \in Slot : ~Holds(s, KeyOf[hold'.inst])
                           /\ hold'.slot # None => hold'.slot \in Empty
    PROVE  Books'
<1> USE DEF Books
<1>1. Onward
  BY DEF Onward, Admitted, Early
<1>2. BookTypes'
  BY DEF BookTypes
<1>3. Shaped'
  BY DEF Shaped
<1>4. BudgetOK'
  BY <1>1, BudgetSame
<1>5. RowsOK'
  BY DEF RowsOK, Holds, Empty
<1>6. HoldersWatched'
  BY DEF HoldersWatched, LeasesOf
<1> QED BY <1>2, <1>3, <1>4, <1>5, <1>6

LEMMA ClaimMissingBooks == ASSUME Inv, Books, NEW p \in Pid, ClaimMissing(p) PROVE Books'
<1> DEFINE i == calls[p].inst
           h == [pid |-> p, inst |-> i, slot |-> None, stuck |-> 0, tried |-> {}]
<1>1. i \in Inst
  BY Sender DEF ClaimMissing, Request
<1>2. hold' = h /\ UNCHANGED <<tab, ctr, mon, refs, due, boot, spent, restarts, owes, gone, pc, calls>>
      /\ Found(KeyOf[i]) = {}
  BY DEF ClaimMissing, locals
<1>3. h \in Claim
  BY <1>1 DEF Claim
<1>4. \A s \in Slot : ~Holds(s, KeyOf[hold'.inst])
  BY <1>2 DEF Found
<1>5. hold'.slot = None
  BY <1>2
<1> HIDE DEF h, i
<1> QED BY <1>2, <1>3, <1>4, <1>5, SearchBooks, CounterSame

\* The claim in hand.
LEMMA HoldBooks ==
    ASSUME Inv, Books, hold # None
    PROVE  /\ hold \in Claim /\ \A s \in Slot : ~Holds(s, KeyOf[hold.inst])
           /\ hold.slot # None => hold.slot \in Empty
BY DEF Books, BookTypes, RowsOK

LEMMA GivesUpBooks ==
    ASSUME Inv, Books, hold # None, NEW s \in Slot,
           hold' = GivesUp(s), UNCHANGED <<tab, mon, refs, due, boot, spent, restarts, owes, gone, pc, calls>>,
           ctr' \in [Slot -> Counter]
    PROVE  Books'
<1>1. GivesUp(s) = Holding(hold.pid, hold.inst, None, 0, hold.tried \cup {s})
  BY GivesUpShape
<1>2. hold \in Claim
  BY HoldBooks
<1>3. hold' \in Claim /\ hold'.inst = hold.inst /\ hold'.slot = None
  BY <1>1, <1>2 DEF Claim, Holding
<1> QED BY <1>3, HoldBooks, SearchBooks

LEMMA CandidatesEmpty == ASSUME NEW s \in Candidates PROVE s \in Empty /\ s \in Slot
BY DEF Candidates, Next1, Empty

LEMMA TakeExclusiveBooks == ASSUME Inv, Books, NEW s \in Slot, TakeExclusive(s) PROVE Books'
<1>1. hold # None /\ s \in Empty
      /\ UNCHANGED <<tab, mon, refs, due, boot, spent, restarts, owes, gone, pc, calls>>
  BY CandidatesEmpty DEF TakeExclusive, Choosing, locals
<1>2. hold \in Claim
  BY <1>1, HoldBooks
<1>3. hold.pid \in Pid
  BY <1>1, InHand
<1>4. ctr[s] \in Counter /\ Excl \in Counter /\ Counter \subseteq Nat
  BY <1>3, ExclType, SlotsAssumption DEF Books, BookTypes, Counter
<1>5. CASE ctr' = [ctr EXCEPT ![s] = Excl] /\ hold' = [hold EXCEPT !.slot = s]
  <2>1. hold' \in Claim /\ hold'.inst = hold.inst /\ hold'.slot = s
    BY <1>2, <1>5 DEF Claim
  <2>2. ctr' \in [Slot -> Counter]
    BY <1>4, <1>5 DEF Books, BookTypes
  <2> QED BY <1>1, <2>1, <2>2, HoldBooks, SearchBooks
<1>6. CASE ctr' = ctr /\ hold' = [hold EXCEPT !.slot = s, !.stuck = ctr[s]]
  <2>1. hold' \in Claim /\ hold'.inst = hold.inst /\ hold'.slot = s
    BY <1>2, <1>4, <1>6 DEF Claim
  <2> QED BY <1>1, <1>6, <2>1, CounterSame, HoldBooks, SearchBooks
<1>7. CASE ctr' = ctr /\ hold' = GivesUp(s)
  BY <1>1, <1>7, CounterSame, GivesUpBooks
<1> QED BY <1>5, <1>6, <1>7 DEF TakeExclusive

LEMMA RepairBooks == ASSUME Inv, Books, Repair PROVE Books'
<1> DEFINE s == hold.slot
<1>1. hold # None /\ s \in Slot /\ hold.pid \in Pid /\ s # None
      /\ UNCHANGED <<tab, mon, refs, due, boot, spent, restarts, owes, gone, pc, calls>>
  BY InHand DEF Repair, locals
<1>2. hold \in Claim
  BY <1>1, HoldBooks
<1>3. CASE ctr' = [ctr EXCEPT ![s] = Excl] /\ hold' = [hold EXCEPT !.stuck = 0]
  <2>1. hold' \in Claim /\ hold'.inst = hold.inst /\ hold'.slot = s
    BY <1>2, <1>3 DEF Claim
  <2>2. Excl \in Counter
    BY <1>1, ExclType
  <2>3. ctr' \in [Slot -> Counter]
    BY <1>3, <2>2 DEF Books, BookTypes
  <2> QED BY <1>1, <2>1, <2>3, HoldBooks, SearchBooks
<1>4. CASE ctr' = ctr /\ hold' = GivesUp(s)
  BY <1>1, <1>4, CounterSame, GivesUpBooks
<1> QED BY <1>3, <1>4 DEF Repair

LEMMA RefuseBooks == ASSUME Inv, Books, Refuse PROVE Books'
<1>1. hold # None /\ hold.slot \in Slot /\ hold' = GivesUp(hold.slot) /\ ReleaseHold(hold.slot)
      /\ UNCHANGED <<tab, mon, refs, due, boot, spent, restarts, owes, gone, pc, calls>>
  BY InHand DEF Refuse, Held, locals
<1>2. ctr' \in [Slot -> Counter]
  BY <1>1, ReleaseHoldType DEF Books
<1> QED BY <1>1, <1>2, GivesUpBooks

LEMMA NoSlotBooks == ASSUME Inv, Books, NoSlot PROVE Books'
<1>1. hold # None /\ hold.pid \in Pid /\ Ends(hold.pid) /\ hold' = None
      /\ UNCHANGED <<tab, ctr, mon, refs, due, boot, spent, restarts, gone>>
  BY InHand DEF NoSlot, Choosing
<1>2. Onward /\ owes' \subseteq Compiler
  BY <1>1, EndsOnward
<1> USE DEF Books
<1>3. BookTypes'
  BY <1>1, <1>2 DEF BookTypes
<1>4. Shaped'
  BY <1>1 DEF Shaped
<1>5. BudgetOK'
  BY <1>1, <1>2, BudgetSame
<1>6. RowsOK'
  BY <1>1 DEF RowsOK, Holds
<1>7. HoldersWatched'
  BY <1>1 DEF HoldersWatched, LeasesOf
<1> QED BY <1>3, <1>4, <1>5, <1>6, <1>7

\* A claim is answered with a reservation.
LEMMA ClaimOnward ==
    ASSUME Inv, Books, NEW p \in Pid, NEW t \in Token, calls[p] # None, calls[p].op = "claim",
           Hears(p, IF p \in Compiler THEN "compile" ELSE "unclaim", t)
    PROVE  Onward /\ owes' \subseteq Compiler
<1> DEFINE l == IF p \in Compiler THEN "compile" ELSE "unclaim"
<1>1. Others(p) /\ calls'[p] = None /\ (Alive(p) => Moved(p, l, t)) /\ (~Alive(p) => Same(p))
  <2>1. l \in Label /\ Hears(p, l, t)
    BY DEF Label
  <2> HIDE DEF l
  <2> QED BY <2>1, HearsEffect DEF Inv, Types
<1>2. ~Admitted(p)
  BY DEF Admitted
<1>3. pc'[p] = pc[p] \/ pc'[p] = l
  BY <1>1 DEF Moved, Same
<1>4. Early(p)' => Early(p) \/ p \in Compiler
  BY <1>1, <1>3 DEF Early
<1>5. owes' \subseteq Compiler
  BY DEF Hears, Goes, locals, Books, BookTypes
<1> QED BY <1>1, <1>2, <1>4, <1>5, MovesOnward DEF Others, Same

\* A reservation: its row, its lease and both monitors come at once.
LEMMA ReserveBooks == ASSUME Inv, Books, Reserve PROVE Books'
<1> DEFINE s == hold.slot  p == hold.pid  i == hold.inst  g == tab[s].gen + 1
           t == [slot |-> s, gen |-> g]
           l == IF p \in Compiler THEN "compile" ELSE "unclaim"
           L == [NoLease EXCEPT ![i] = p]
<1>1. /\ s \in Slot /\ p \in Pid /\ i \in Inst /\ hold' = None /\ hold # None
      /\ calls[p] # None /\ calls[p].op = "claim"
      /\ UNCHANGED <<ctr, due, boot, spent, restarts, gone>>
  BY InHand DEF Reserve, Held
<1>2. tab \in [Slot -> Row] /\ g \in Nat /\ t \in Token /\ l \in Label
  BY <1>1 DEF Inv, Types, RowTypes, Row, Token, Label
<1>3. /\ tab' = [tab EXCEPT ![s] = [gen |-> g, st |-> "loading", key |-> KeyOf[i], leases |-> L]]
      /\ mon' = mon \cup {OfLease(i, p), OfToken(t, p)}
      /\ refs' = [refs EXCEPT ![i] = OfLease(i, p)]
      /\ Hears(p, l, t)
  BY DEF Reserve
<1>4. /\ tab'[s].gen = g /\ tab'[s].st = "loading" /\ tab'[s].key = KeyOf[i]
      /\ tab'[s].leases[i] = p /\ \A j \in Inst \ {i} : tab'[s].leases[j] = None
      /\ \A r \in Slot \ {s} : tab'[r] = tab[r]
  <2>1. L[i] = p /\ \A j \in Inst \ {i} : L[j] = None
    BY <1>1 DEF NoLease
  <2> HIDE DEF L
  <2> QED BY <1>1, <1>2, <1>3, <2>1
<1>5. s \in Empty /\ \A r \in Slot : ~Holds(r, KeyOf[i])
  BY <1>1, HoldBooks, SlotsAssumption
<1>6. t.slot = s /\ t.gen = g
  OBVIOUS
<1>7. Onward /\ owes' \subseteq Compiler
  <2> HIDE DEF p, t
  <2> QED BY <1>1, <1>2, <1>3, ClaimOnward
<1> HIDE DEF s, p, i, g, t, l, L
<1> USE DEF Books
<1>8. BookTypes'
  BY <1>1, <1>2, <1>3, <1>7, WatchTypes DEF BookTypes
<1>9. Shaped'
  BY <1>1, <1>2, <1>3 DEF Shaped, BookTypes
<1>10. BudgetOK'
  <2>1. \A q \in Pid : OfBudget(q) \in mon' <=> OfBudget(q) \in mon
    BY <1>1, <1>2, <1>3, Kinds
  <2> QED BY <1>1, <1>7, <2>1, BudgetSame
<1>11. RowsOK'
  <2>1. \A r \in Slot, k \in Key : Holds(r, k)' <=> (Holds(r, k) /\ r # s) \/ (r = s /\ k = KeyOf[i])
    BY <1>4 DEF Holds
  <2>2. \A r \in Slot, j \in Inst : tab'[r].leases[j] # None => Holds(r, KeyOf[j])'
    <3>1. \A r \in Slot, j \in Inst : tab'[r].leases[j] # None =>
            (r # s /\ tab[r].leases[j] # None) \/ (r = s /\ j = i)
      BY <1>4
    <3>2. \A j \in Inst : KeyOf[j] \in Key
      BY SlotsAssumption
    <3> QED BY <2>1, <3>1, <3>2 DEF RowsOK
  <2>3. \A q, r \in Slot, k \in Key : Holds(q, k)' /\ Holds(r, k)' => q = r
    BY <1>5, <2>1 DEF RowsOK
  <2> QED BY <1>1, <2>2, <2>3 DEF RowsOK
<1>12. HoldersWatched'
  <2>1. ASSUME NEW r \in Slot, NEW j \in Inst, tab'[r].leases[j] # None
        PROVE  \E w \in mon' : /\ w.kind \in {"lease", "rebuilt"} /\ w.inst = j
                               /\ w.pid = tab'[r].leases[j]
    <3>1. CASE r = s
      <4>1. /\ OfLease(i, p).kind = "lease" /\ OfLease(i, p).inst = i /\ OfLease(i, p).pid = p
            /\ OfLease(i, p) \in mon' /\ j = i
        BY <1>3, <1>4, <2>1, <3>1 DEF OfLease
      <4> QED BY <1>4, <3>1, <4>1
    <3>2. CASE r # s
      <4>1. tab'[r] = tab[r] /\ j \in LeasesOf(r)
        BY <1>4, <2>1, <3>2 DEF LeasesOf
      <4>2. PICK w \in mon : w.kind \in {"lease", "rebuilt"} /\ w.inst = j /\ w.pid = tab[r].leases[j]
        BY <4>1, LeaseWatched
      <4> QED BY <1>3, <4>1, <4>2
    <3> QED BY <3>1, <3>2
  <2>2. ASSUME NEW r \in Slot, tab'[r].st = "loading", ~boot'
        PROVE  \E w \in mon' : w.kind = "loading" /\ w.tok = [slot |-> r, gen |-> tab'[r].gen]
    <3>1. CASE r = s
      <4>1. OfToken(t, p).kind = "loading" /\ OfToken(t, p).tok = t /\ OfToken(t, p) \in mon'
        BY <1>3 DEF OfToken
      <4>2. t = [slot |-> r, gen |-> tab'[r].gen]
        BY <1>4, <3>1 DEF t
      <4> QED BY <4>1, <4>2
    <3>2. CASE r # s
      <4>1. tab'[r] = tab[r]
        BY <1>4, <3>2
      <4>2. PICK w \in mon : w.kind = "loading" /\ w.tok = [slot |-> r, gen |-> tab[r].gen]
        BY <1>1, <2>2, <4>1 DEF HoldersWatched
      <4> QED BY <1>3, <4>1, <4>2
    <3> QED BY <3>1, <3>2
  <2> QED BY <2>1, <2>2 DEF HoldersWatched, LeasesOf
<1> QED BY <1>8, <1>9, <1>10, <1>11, <1>12

\* A manager that starts again counts nothing and watches every lease it finds.
LEMMA RestartBooks == ASSUME Inv, Books, Restart PROVE Books'
<1> USE DEF Books
<1>1. tab' = tab /\ ctr' = ctr /\ due' = None /\ boot' = TRUE
  BY DEF Restart
<1>2. \A w \in Rebuilt : \E i \in Inst, p \in Pid : w = OfRebuilt(i, p)
  <2>1. ASSUME NEW w \in Rebuilt PROVE \E i \in Inst, p \in Pid : w = OfRebuilt(i, p)
    <3>1. PICK x \in Leases : w = OfRebuilt(x[2], tab[x[1]].leases[x[2]])
      BY DEF Rebuilt
    <3>2. x[1] \in Slot /\ x[2] \in Inst /\ tab[x[1]].leases[x[2]] \in Pid
      BY DEF Leases, Inv, Types, RowTypes, Row
    <3> QED BY <3>1, <3>2
  <2> QED BY <2>1
<1>3. mon' = Rebuilt /\ spent' = 0 /\ hold' = None /\ restarts' \in 0 .. MaxRestarts
      /\ restarts' > 0 /\ owes' \subseteq owes /\ gone' = gone /\ \A p \in Pid : calls'[p] = None
  <2>1. restarts' \in 0 .. MaxRestarts /\ restarts' > 0
    <3>1. restarts \in 0 .. MaxRestarts /\ MaxRestarts \in Nat
      BY SlotsAssumption DEF BookTypes
    <3>2. restarts < MaxRestarts /\ restarts' = restarts + 1
      BY DEF Restart
    <3> QED BY <3>1, <3>2
  <2>2. mon' = Rebuilt /\ spent' = 0 /\ hold' = None /\ gone' = gone
    BY DEF Restart
  <2>3. owes' \subseteq owes /\ \A p \in Pid : calls'[p] = None
    BY DEF Restart
  <2> QED BY <2>1, <2>2, <2>3
<1>4. \A i \in Inst : refs'[i] # None => refs'[i] \in Rebuilt /\ refs'[i].inst = i
  <2>1. ASSUME NEW i \in Inst, refs'[i] # None PROVE refs'[i] \in Rebuilt /\ refs'[i].inst = i
    <3>1. refs'[i] = IF \E w \in Rebuilt : w.inst = i THEN CHOOSE w \in Rebuilt : w.inst = i ELSE None
      BY DEF Restart
    <3> QED BY <2>1, <3>1
  <2> QED BY <2>1
<1>5. BookTypes'
  <2>2. Rebuilt \subseteq Watch
    BY <1>2, WatchTypes
  <2>3. refs' \in [Inst -> Watch \cup {None}]
    <3>1. refs' = [i \in Inst |-> refs'[i]]
      BY DEF Restart
    <3> QED BY <1>4, <2>2, <3>1
  <2> QED BY <1>1, <1>3, <2>2, <2>3 DEF BookTypes
<1>6. Shaped'
  <2>1. \A i \in Inst : refs'[i] # None => \E p \in Pid : refs'[i] \in {OfLease(i, p), OfRebuilt(i, p)}
    <3>1. \A i, j \in Inst, p \in Pid : OfRebuilt(j, p).inst = i => i = j
      BY DEF OfRebuilt
    <3> QED BY <1>2, <1>4, <3>1
  <2> QED BY <1>2, <1>3, <2>1 DEF Shaped
<1>7. BudgetOK'
  <2>1. Shares' = {}
    BY <1>2, <1>3, Kinds DEF Shares
  <2>2. Cardinality(Shares') = 0 /\ Words \in Nat
    BY <2>1, FS_EmptySet, SlotsAssumption
  <2>3. \A p \in Pid : pc'[p] = "compile" => pc[p] = "compile"
    BY DEF Restart
  <2> QED BY <1>3, <2>1, <2>2, <2>3 DEF BudgetOK
<1>8. RowsOK'
  BY <1>1, <1>3 DEF RowsOK, Holds
<1>9. HoldersWatched'
  <2>1. ASSUME NEW r \in Slot, NEW j \in Inst, tab'[r].leases[j] # None
        PROVE  \E w \in mon' : /\ w.kind \in {"lease", "rebuilt"} /\ w.inst = j
                               /\ w.pid = tab'[r].leases[j]
    <3>1. tab'[r] = tab[r]
      BY <1>1, <2>1
    <3> DEFINE w == OfRebuilt(j, tab[r].leases[j])
    <3>2. <<r, j>> \in Leases
      BY <2>1, <3>1 DEF Leases
    <3>3. w \in Rebuilt
      BY <3>2 DEF Rebuilt
    <3>4. w.kind = "rebuilt" /\ w.inst = j /\ w.pid = tab[r].leases[j]
      BY DEF OfRebuilt
    <3> HIDE DEF w
    <3> QED BY <1>3, <3>1, <3>3, <3>4
  <2> QED BY <1>1, <2>1 DEF HoldersWatched, LeasesOf
<1> QED BY <1>5, <1>6, <1>7, <1>8, <1>9

\* init/1 frees what was being filled.
LEMMA FreeRowBooks == ASSUME Inv, Books, NEW s \in Slot, FreeRow(s) PROVE Books'
<1>1. /\ hold' = None /\ due' = [slot |-> s, pid |-> None] /\ boot /\ boot' = boot
      /\ UNCHANGED <<ctr, mon, refs, spent, restarts, gone, calls, pc, owes>>
  BY DEF FreeRow, Idle, locals
<1>2. /\ tab'[s].st = "free" /\ \A i \in Inst : tab'[s].leases[i] = None
      /\ \A r \in Slot \ {s} : tab'[r] = tab[r]
  BY DEF FreeRow, Freed, NoLease, Row, Inv, Types, RowTypes
<1>3. Fewer
  BY <1>2 DEF Fewer, Books, RowsOK, Holds
<1>4. Onward /\ owes' \subseteq Compiler
  BY <1>1, WaitsOnward
<1>5. due' \in Due \cup {None} /\ ctr' \in [Slot -> Counter]
  BY <1>1, CounterSame DEF Due
<1>6. HoldersWatched'
  <2>1. ASSUME NEW r \in Slot, NEW j \in Inst, tab'[r].leases[j] # None
        PROVE  \E w \in mon' : /\ w.kind \in {"lease", "rebuilt"} /\ w.inst = j
                               /\ w.pid = tab'[r].leases[j]
    <3>1. tab'[r] = tab[r] /\ j \in LeasesOf(r)
      BY <1>2, <2>1 DEF LeasesOf
    <3> QED BY <1>1, <3>1, LeaseWatched DEF Books
  <2> QED BY <1>1, <2>1 DEF HoldersWatched, LeasesOf
<1>7. /\ \A i \in Inst : refs'[i] \in {refs[i], None}
      /\ refs' \in [Inst -> Watch \cup {None}] /\ mon' \subseteq mon
      /\ \A q \in Pid : OfBudget(q) \in mon' <=> OfBudget(q) \in mon
  BY <1>1 DEF Books, BookTypes
<1> QED BY <1>1, <1>3, <1>4, <1>5, <1>6, <1>7, FewerBooks

\* When nothing is being filled any more, init/1 is over.
LEMMA ServeBooks == ASSUME Inv, Books, Serve PROVE Books'
<1>1. /\ boot' = FALSE /\ \A s \in Slot : tab[s].st # "loading"
      /\ UNCHANGED <<tab, ctr, hold, due, mon, refs, spent, restarts, gone, calls, pc, owes>>
  BY DEF Serve, locals
<1> USE DEF Books
<1>2. BookTypes' /\ Shaped' /\ RowsOK'
  BY <1>1 DEF BookTypes, Shaped, RowsOK, Holds, Empty
<1>3. BudgetOK'
  BY <1>1, WaitsOnward, BudgetSame
<1>4. HoldersWatched'
  BY <1>1 DEF HoldersWatched, LeasesOf
<1> QED BY <1>2, <1>3, <1>4

LEMMA InitBooks == Init => Books
<1> SUFFICES ASSUME Init PROVE Books
  OBVIOUS
<1>1. BookTypes
  <2>1. 0 \in Counter
    <3>1. Cardinality(Pid) \in Nat
      BY SlotsAssumption, FS_CardinalityType
    <3>2. Excl \in Nat /\ Excl > 0
      BY <3>1, SlotsAssumption
    <3>3. Excl * Excl > 0 /\ Excl * Excl \in Nat
      BY <3>2
    <3> QED BY <3>3 DEF Counter
  <2>2. ctr \in [Slot -> Counter] /\ refs \in [Inst -> Watch \cup {None}]
    BY <2>1 DEF Init
  <2>3. restarts \in 0 .. MaxRestarts /\ due \in Due \cup {None} /\ boot = FALSE
    BY SlotsAssumption DEF Init
  <2>4. mon = {} /\ owes = {} /\ gone = {} /\ hold = None
    BY DEF Init
  <2> QED BY <2>2, <2>3, <2>4 DEF BookTypes
<1>2. Shaped
  BY DEF Init, Shaped
<1>3. BudgetOK
  <2>1. Shares = {}
    BY DEF Init, Shares
  <2>2. Cardinality(Shares) = 0 /\ Words \in Nat
    BY <2>1, FS_EmptySet, SlotsAssumption
  <2> QED BY <2>1, <2>2 DEF Init, BudgetOK
<1>4. RowsOK /\ HoldersWatched
  BY DEF Init, RowsOK, Holds, NoLease, HoldersWatched, LeasesOf
<1> QED BY <1>1, <1>2, <1>3, <1>4 DEF Books

LEMMA NextBooks == ASSUME Inv, Books, [Next]_vars PROVE Books'
<1> USE SlotsAssumption
<1>1. ASSUME NEW p \in Pid, Handle(p) PROVE Books'
  BY <1>1, ClaimFoundBooks, ClaimMissingBooks, PublishBooks, AbortBooks, ReleaseBooks,
     AcquireBooks, GiveBackBooks DEF Handle
<1>2. ASSUME NEW p \in Pid, Unclaim(p) \/ Adopt(p) \/ Kill(p) PROVE Books'
  BY <1>2, UnclaimBooks, AdoptBooks, KillBooks
<1>3. CASE Search
  BY <1>3, TakeExclusiveBooks, RepairBooks, RefuseBooks, ReserveBooks, NoSlotBooks DEF Search
<1>4. CASE EndHold \/ Restart \/ Serve \/ \E s \in Slot : FreeRow(s)
  BY <1>4, EndHoldBooks, RestartBooks, ServeBooks, FreeRowBooks
<1>5. ASSUME NEW w \in mon, Down(w) PROVE Books'
  BY <1>5, DownBooks
<1>6. ASSUME NEW c \in Compiler, Compiling(c) PROVE Books'
  <2>1. \A i \in Jobs[c] : i \in Inst
    OBVIOUS
  <2> QED BY <1>6, <2>1, StartBooks, AdmitBooks, HitBooks, LoadBooks, LoadedBooks, LeaveBooks
      DEF Compiling
<1>7. ASSUME NEW p \in Caller, Calling(p) PROVE Books'
  <2>1. \A i \in Handles[p] : i \in Inst
    OBVIOUS
  <2> QED BY <1>7, <2>1, ClaimsBooks, TakeBooks, DestroyBooks, CallerBooks, GiveLeaseBooks
      DEF Calling
<1>8. CASE UNCHANGED vars
  <2>1. UNCHANGED <<tab, ctr, mon, refs, spent, hold, due, boot, restarts, gone, owes, pc, calls>>
    BY <1>8 DEF vars, manager, locals
  <2>2. Onward /\ owes' \subseteq Compiler
    BY <2>1 DEF Onward, Admitted, Early, Books, BookTypes
  <2> QED BY <2>1, <2>2, RestBooks
<1> QED BY <1>1, <1>2, <1>3, <1>4, <1>5, <1>6, <1>7, <1>8 DEF Next

(* The manager's books, for any number of slots, keys and processes.       *)
THEOREM BooksKept == Spec => []Books
<1>1. Init => Inv /\ Books
  BY InitInv, InitBooks
<1>2. Inv /\ Books /\ [Next]_vars => (Inv /\ Books)'
  BY NextInv, NextBooks
<1> QED BY <1>1, <1>2, PTL DEF Spec

(* Every variable of the pool keeps its type; the counter of a slot stays  *)
(* within its word and the words admitted never fall below zero.           *)
THEOREM Typed == Spec => []TypeOK
<1>1. Inv /\ Books => TypeOK
  BY SpentType DEF Inv, Books, Types, RowTypes, LocalTypes, BookTypes, Label, Counter, TypeOK
<1> QED BY <1>1, Invariance, BooksKept, PTL

(* Whoever has a lease or a reservation is watched by the manager.         *)
THEOREM Watching == Spec => []HoldersWatched
BY BooksKept, PTL DEF Books
-----------------------------------------------------------------------------
(***************************************************************************)
(* The reservations while the first manager runs: each has one owner, who  *)
(* loads what the row says where nobody is in the old code.                *)
(***************************************************************************)
Filling == {"compile", "acquire", "build", "loaded", "publish", "unclaim", "abort"}
Before == {"compile", "acquire", "build"}
Asked(p, t) ==
    calls[p] # None /\ calls[p].op \in {"acquire", "publish", "abort"} /\ calls[p].tok = t
Has(p, t) == (pc[p] \in Filling /\ tok[p] = t) \/ Asked(p, t)

\* One process has a reservation, and the manager watches that one for it.
OneFiller ==
    /\ \A p, q \in Pid, t \in Token : Has(p, t) /\ Has(q, t) => p = q
    /\ \A p, q \in Pid, t \in Token : Has(p, t) /\ OfToken(t, q) \in mon => p = q

\* Reservations are of generations that were made.
Made ==
    /\ \A p \in Pid, t \in Token : Has(p, t) => t.gen <= tab[t.slot].gen
    /\ \A p \in Pid, t \in Token : OfToken(t, p) \in mon => t.gen <= tab[t.slot].gen

\* A row in use has a key.
Keyed == \A s \in Slot : tab[s].st # "free" => tab[s].key \in Key

\* Whose row is written and whose call is not answered yet.
InDue(p) == due # None /\ due.pid = p

\* Until the manager is restarted, a compiler's reservation stands.
LoadedFor(t) == cur[t.slot] = [key |-> tab[t.slot].key, gen |-> t.gen]
Stands ==
    /\ \A p \in Pid : pc[p] \in Filling /\ ~InDue(p) => Reserved(tok[p])
    /\ \A p \in Pid : pc[p] \in Before => InOld(tok[p].slot) = {}
    /\ \A p \in Pid : pc[p] = "loaded" /\ Reserved(tok[p]) => LoadedFor(tok[p])
    /\ \A p \in Pid : calls[p] # None /\ calls[p].op = "publish" /\ Reserved(calls[p].tok) =>
          LoadedFor(calls[p].tok)
    /\ \A s \in Slot : tab[s].st = "resident" =>
          cur[s] = [key |-> tab[s].key, gen |-> tab[s].gen]

Fresh == OneFiller /\ Made /\ Keyed /\ (restarts = 0 => Stands)

\* A step in which nobody comes by a reservation, or loads, or enters old code.
Works ==
    /\ \A p \in Pid :
          /\ pc'[p] \in Filling => pc[p] \in Filling /\ tok'[p] = tok[p]
          /\ pc'[p] \in Before => pc[p] \in Before
          /\ pc'[p] = "loaded" => pc[p] = "loaded"
          /\ pc'[p] = "in" /\ ver'[p] = "old" => Same(p)
    /\ \A p \in Pid : calls'[p] # None /\ calls'[p].op \in {"acquire", "publish", "abort"} =>
          \/ calls'[p] = calls[p]
          \/ /\ pc[p] \in Filling /\ calls'[p].tok = tok[p]
             /\ calls'[p].op = "publish" => pc[p] = "loaded"
\* What it may do to the rows.
Stays ==
    /\ \A s \in Slot :
          /\ tab'[s].gen = tab[s].gen
          /\ tab'[s].st # "free" => tab[s].st # "free" /\ tab'[s].key = tab[s].key
          /\ tab'[s].st = "loading" => tab[s].st = "loading"
          /\ tab'[s].st = "resident" => \/ tab[s].st = "resident"
                                        \/ restarts = 0 => LoadedFor([slot |-> s, gen |-> tab[s].gen])
    /\ \A t \in Token, p \in Pid : OfToken(t, p) \in mon' => OfToken(t, p) \in mon
\* A reservation somebody still has stands.
Spares == \A p \in Pid : pc'[p] \in Filling /\ ~InDue(p)' =>
              ~InDue(p) /\ (Reserved(tok[p]) => Reserved(tok[p])')
-----------------------------------------------------------------------------
LEMMA DueRecord ==
    ASSUME NEW s \in Slot, NEW p \in Pid \cup {None} PROVE [slot |-> s, pid |-> p] # None
BY RecordAssumption DEF Due

LEMMA SameToken ==
    ASSUME NEW t \in Token, NEW u \in Token, t.slot = u.slot, t.gen = u.gen PROVE t = u
BY DEF Token

\* Two reservations of a slot that both stand are one.
LEMMA OneStands ==
    ASSUME NEW t \in Token, NEW u \in Token, t.slot = u.slot, Reserved(t), Reserved(u) PROVE t = u
BY SameToken DEF Reserved

LEMMA FillingTok ==
    ASSUME Inv, NEW p \in Pid, pc[p] \in Filling
    PROVE  tok[p] \in Token /\ tok[p].slot \in Slot /\ tok[p].gen \in Nat /\ at[p] \in Inst
<1>1. tok[p] \in Token /\ at[p] \in Inst
  BY DEF Filling, Inv, Types, LocalTypes, Flow, TokOK
<1> QED BY <1>1 DEF Token

LEMMA PublishTok ==
    ASSUME Inv, NEW p \in Pid, calls[p] # None, calls[p].op \in {"acquire", "publish", "abort"}
    PROVE  calls[p].tok \in Token /\ calls[p].tok.slot \in Slot
<1>1. calls[p].tok \in Token
  BY DEF Inv, Types, LocalTypes, Flow, CallsOK, Request
<1> QED BY <1>1 DEF Token

\* Whose call is being answered is not at work.
LEMMA NotDue ==
    ASSUME Inv, NEW p \in Pid, pc[p] \in Before \cup {"loaded"} PROVE ~InDue(p)
<1>1. SUFFICES ASSUME due # None, due.pid = p PROVE FALSE
  BY DEF InDue
<1>2. p # None
  BY SlotsAssumption
<1>3. calls[p] # None /\ calls[p].op \in {"publish", "abort"}
  BY <1>1, <1>2 DEF Inv, Flow, HoldOK
<1>4. pc[p] = calls[p].op
  BY <1>3 DEF Before, Alive, Inv, Flow, CallsOK
<1> QED BY <1>3, <1>4 DEF Before

LEMMA NoneDue == due = None => \A p \in Pid : ~InDue(p)
BY DEF InDue

\* Nobody comes by a reservation.
LEMMA WorksHas == ASSUME Works, NEW p \in Pid, NEW t, Has(p, t)' PROVE Has(p, t)
BY DEF Works, Has, Asked

\* Old code is entered by a load only.
LEMMA WorksOld ==
    ASSUME Inv, Works, Adopted, NEW s \in Slot PROVE InOld(s)' \subseteq InOld(s)
<1> SUFFICES ASSUME NEW p \in Pid, pc'[p] = "in", cslot'[at'[p]] = s, ver'[p] = "old"
             PROVE  pc[p] = "in" /\ cslot[at[p]] = s /\ ver[p] = "old"
  BY DEF InOld, SlotFor
<1>1. Same(p)
  BY DEF Works
<1>2. at[p] \in Inst /\ cslot[at[p]] \in Slot /\ cslot[at[p]] # None
  BY <1>1, SlotsAssumption DEF Same, Inv, Flow, PlaceOK, Calls
<1> QED BY <1>1, <1>2 DEF Same, Adopted

LEMMA FreshStep ==
    ASSUME Inv, Books, Fresh, Works, Stays, restarts = 0 => Spares, Adopted,
           UNCHANGED <<cur, restarts>>
    PROVE  Fresh'
<1>1. OneFiller'
  BY WorksHas DEF Fresh, OneFiller, Stays
<1>2. Made'
  <2>1. \A t \in Token : t.slot \in Slot
    BY DEF Token
  <2> QED BY <2>1, WorksHas DEF Fresh, Made, Stays
<1>3. Keyed'
  BY DEF Fresh, Keyed, Stays
<1>4. ASSUME restarts = 0 PROVE Stands'
  <2> USE <1>4 DEF Fresh
  <2>1. \A p \in Pid : pc'[p] \in Filling => tok'[p] = tok[p] /\ pc[p] \in Filling
    BY DEF Works
  <2>2. \A p \in Pid : pc'[p] \in Before => InOld(tok[p].slot)' = {}
    <3>1. ASSUME NEW p \in Pid, pc'[p] \in Before PROVE InOld(tok[p].slot)' = {}
      <4>1. pc[p] \in Before /\ tok'[p] = tok[p] /\ tok[p].slot \in Slot
        BY <2>1, <3>1, FillingTok DEF Works, Before, Filling
      <4>2. InOld(tok[p].slot) = {}
        BY <4>1 DEF Stands
      <4>3. \A q \in Pid : ~(pc'[q] = "in" /\ cslot'[at'[q]] = tok[p].slot /\ ver'[q] = "old")
        <5>1. ASSUME NEW s \in Slot, InOld(s) = {}
              PROVE  \A q \in Pid : ~(pc'[q] = "in" /\ cslot'[at'[q]] = s /\ ver'[q] = "old")
          <6>1. InOld(s)' = {}
            BY <5>1, WorksOld
          <6> QED BY <6>1 DEF InOld, SlotFor
        <5> QED BY <4>1, <4>2, <5>1
      <4> QED BY <4>1, <4>3 DEF InOld, SlotFor
    <3> QED BY <3>1
  <2>3. ASSUME NEW t \in Token, Reserved(t)' PROVE Reserved(t) /\ tab'[t.slot].key = tab[t.slot].key
    <3>1. t.slot \in Slot
      BY DEF Token
    <3> QED BY <2>3, <3>1 DEF Reserved, Stays
  <2>4. ASSUME NEW p \in Pid, pc'[p] = "loaded" /\ Reserved(tok[p])'
        PROVE  LoadedFor(tok[p])'
    <3>1. pc[p] = "loaded" /\ tok'[p] = tok[p]
      BY <2>4, <2>1 DEF Works, Filling
    <3>2. tok[p] \in Token
      BY <3>1, FillingTok DEF Filling
    <3>3. Reserved(tok[p]) /\ tab'[tok[p].slot].key = tab[tok[p].slot].key
      BY <2>1, <2>3, <2>4, <3>1, <3>2 DEF Reserved
    <3> QED BY <3>1, <3>3 DEF Stands, LoadedFor
  <2>5. ASSUME NEW p \in Pid, calls'[p] # None /\ calls'[p].op = "publish" /\ Reserved(calls[p].tok)'
        PROVE  LoadedFor(calls[p].tok)'
    <3> DEFINE t == calls'[p].tok
    <3>1. calls'[p] = calls[p] \/ (pc[p] = "loaded" /\ t = tok[p])
      BY <2>5 DEF Works
    <3>2. t \in Token
      BY <2>5, <3>1, FillingTok, PublishTok DEF Filling
    <3>3. tab'[t.slot].gen = t.gen /\ tab'[t.slot].st = "loading"
      BY <2>5 DEF Reserved
    <3>4. Reserved(t) /\ tab'[t.slot].key = tab[t.slot].key
      <4>1. t.slot \in Slot
        BY <3>2 DEF Token
      <4> QED BY <3>3, <4>1 DEF Reserved, Stays
    <3>5. LoadedFor(t)
      <4>1. CASE calls'[p] = calls[p]
        BY <2>5, <3>4, <4>1 DEF Stands
      <4>2. CASE pc[p] = "loaded" /\ t = tok[p]
        BY <3>4, <4>2 DEF Stands
      <4> QED BY <3>1, <4>1, <4>2
    <3>6. cur'[t.slot] = [key |-> tab'[t.slot].key, gen |-> t.gen]
      BY <3>4, <3>5 DEF LoadedFor
    <3> QED BY <3>6 DEF LoadedFor
  <2>6. ASSUME NEW s \in Slot, tab'[s].st = "resident"
        PROVE  cur'[s] = [key |-> tab'[s].key, gen |-> tab'[s].gen]
    <3>1. tab'[s].gen = tab[s].gen /\ tab'[s].key = tab[s].key
      BY <2>6 DEF Stays
    <3>2. CASE tab[s].st = "resident"
      BY <3>1, <3>2 DEF Stands
    <3>3. CASE LoadedFor([slot |-> s, gen |-> tab[s].gen])
      BY <3>1, <3>3 DEF LoadedFor
    <3> QED BY <2>6, <3>2, <3>3 DEF Stays
  <2>7. \A p \in Pid : pc'[p] \in Filling /\ ~InDue(p)' => Reserved(tok[p])'
    BY <2>1 DEF Stands, Spares, Reserved
  <2> HIDE DEF Fresh
  <2> QED BY <2>2, <2>4, <2>5, <2>6, <2>7 DEF Stands
<1> QED BY <1>1, <1>2, <1>3, <1>4 DEF Fresh

LEMMA FreshQuiet ==
    ASSUME Inv, Books, Fresh, Works, Adopted, UNCHANGED <<tab, cur, due, restarts>>,
           \A t \in Token, p \in Pid : OfToken(t, p) \in mon' => OfToken(t, p) \in mon
    PROVE  Fresh'
<1>1. Stays
  BY DEF Stays
<1>2. Spares
  BY DEF Works, Spares, Reserved, InDue
<1> QED BY <1>1, <1>2, FreshStep

\* A process leaves, or goes where it has no reservation.
LEMMA WorksOver ==
    ASSUME NEW p \in Pid, Others(p), pc'[p] \notin Filling \cup {"in"},
           calls'[p] = None \/ calls'[p].op \notin {"acquire", "publish", "abort"}
    PROVE  Works
BY DEF Works, Others, Same, Before, Filling

\* A process goes on with its reservation.
LEMMA WorksMoved ==
    ASSUME NEW p \in Pid, Others(p), pc[p] \in Filling, tok'[p] = tok[p],
           NEW l \in {"build", "unclaim", "acquire", "publish", "abort"}, pc'[p] = l,
           l \in {"build", "acquire"} => pc[p] \in Before,
           \/ calls'[p] = None
           \/ calls'[p].tok = tok[p] /\ (calls'[p].op = "publish" => pc[p] = "loaded")
    PROVE  Works
BY DEF Works, Others, Same, Before, Filling

LEMMA AsksFresh ==
    ASSUME Inv, Books, Fresh, NEW p \in Pid, NEW op \in {"publish", "abort", "acquire"},
           Asks(p, op), UNCHANGED outside,
           pc[p] \in {"compile", "build", "unclaim", "loaded"},
           op = "acquire" => pc[p] = "compile", op = "publish" => pc[p] = "loaded"
    PROVE  Fresh'
<1>1. /\ Others(p) /\ Moved(p, op, tok[p])
      /\ calls'[p] = [op |-> op, inst |-> at[p], tok |-> tok[p]]
  BY Ready, AsksEffect DEF Inv, Types
<1>2. calls'[p].tok = tok[p] /\ calls'[p].op = op
  BY <1>1
<1>3. pc'[p] = op /\ tok'[p] = tok[p]
  BY <1>1 DEF Moved
<1>4. pc[p] \in Filling /\ (op = "acquire" => pc[p] \in Before)
  BY DEF Filling, Before
<1>5. Works
  BY <1>1, <1>2, <1>3, <1>4, WorksMoved
<1> QED BY <1>5, SlotsSame, FreshQuiet DEF outside, code, manager

LEMMA UnclaimFresh == ASSUME Inv, Books, Fresh, NEW p \in Pid, Unclaim(p) PROVE Fresh'
BY AsksFresh DEF Unclaim

LEMMA AdmitFresh == ASSUME Inv, Books, Fresh, NEW c \in Compiler, Admit(c) PROVE Fresh'
BY AsksFresh DEF Admit, Pid

LEMMA LoadedFresh == ASSUME Inv, Books, Fresh, NEW c \in Compiler, Loaded(c) PROVE Fresh'
BY AsksFresh DEF Loaded, Pid

LEMMA HitFresh == ASSUME Inv, Books, Fresh, NEW c \in Compiler, Hit(c) PROVE Fresh'
<1>1. c \in Pid /\ pc[c] = "compile" /\ Goes(c, "build", tok[c]) /\ UNCHANGED <<calls, outside>>
  BY DEF Hit, Pid
<1>2. calls[c] = None
  BY <1>1, Ready
<1>3. Others(c) /\ pc'[c] = "build" /\ tok'[c] = tok[c] /\ calls'[c] = None
  BY <1>1, <1>2 DEF Inv, Types, LocalTypes, Goes, Others, Same
<1>4. pc[c] \in Filling /\ pc[c] \in Before
  BY <1>1 DEF Filling, Before
<1>5. Works
  BY <1>1, <1>3, <1>4, WorksMoved
<1> QED BY <1>1, <1>5, SlotsSame, FreshQuiet DEF outside, code, manager

\* A process is done, or gives its share back.
LEMMA DoneWorks ==
    ASSUME Inv, NEW p \in Pid, calls[p] = None, Done(p), UNCHANGED calls PROVE Works
<1>1. Others(p) /\ Over(p)
  BY DoneEffect DEF Inv, Types
<1> QED BY <1>1, WorksOver DEF Over, Filling

LEMMA ReturnWorks ==
    ASSUME Inv, NEW p \in Pid, at[p] \in Inst, Asks(p, "return") PROVE Works
<1>1. /\ Others(p) /\ Moved(p, "return", tok[p])
      /\ calls'[p] = [op |-> "return", inst |-> at[p], tok |-> tok[p]]
  BY AsksEffect DEF Inv, Types
<1> QED BY <1>1, WorksOver DEF Moved, Filling

LEMMA LeaveFresh == ASSUME Inv, Books, Fresh, NEW c \in Compiler, Leave(c) PROVE Fresh'
<1>1. c \in Pid /\ pc[c] = "leave" /\ UNCHANGED outside
  BY DEF Leave, Pid
<1>2. calls[c] = None /\ at[c] \in Inst
  BY <1>1, Ready
<1>3. Works
  BY <1>1, <1>2, DoneWorks, ReturnWorks DEF Leave
<1> QED BY <1>1, <1>3, SlotsSame, FreshQuiet DEF outside, code, manager

LEMMA AdoptFresh == ASSUME Inv, Books, Fresh, NEW p \in Pid, Adopt(p) PROVE Fresh'
<1>1. pc[p] = "adopt" /\ UNCHANGED <<tab, cur, mon, due, restarts>>
  BY DEF Adopt, code, manager
<1>2. calls[p] = None /\ at[p] \in Inst /\ tok[p] \in Token
  BY <1>1, Ready
<1>3. Works
  BY <1>2, DoneWorks, ReturnWorks DEF Adopt
<1>4. Adopted
  <2>1. cur[tok[p].slot] # None /\ tok[p].slot \in Slot /\ tok[p].slot # None
    BY <1>1, <1>2, SlotsAssumption DEF Inv, Flow, FilledOK, Token
  <2>2. cslot \in [Inst -> Slot \cup {None}]
    BY DEF Inv, Types, RowTypes
  <2> QED BY <1>2, <2>1, <2>2 DEF Adopt, Adopted, SlotFor
<1> QED BY <1>1, <1>3, <1>4, FreshQuiet

LEMMA KillFresh == ASSUME Inv, Books, Fresh, NEW p \in Pid, Kill(p) PROVE Fresh'
<1>1. UNCHANGED <<outside, calls>> /\ pc'[p] = "dead"
      /\ \A q \in Pid \ {p} : Same(q)
  BY DEF Kill, Same, Inv, Types, LocalTypes
<1>2. Works
  BY <1>1 DEF Works, Same, Filling, Before
<1> QED BY <1>1, <1>2, SlotsSame, FreshQuiet DEF outside, code, manager

\* A caller's own step.
LEMMA OpensFresh ==
    ASSUME Inv, Books, Fresh, NEW p \in Pid, NEW i, NEW op \in {"claim", "release"},
           Send(p, op, i, None), pc' = [pc EXCEPT ![p] = op],
           at' = [at EXCEPT ![p] = i], UNCHANGED <<tab, cur, mon, due, restarts, cslot, tok, want, ver>>
    PROVE  Fresh'
<1>1. Others(p) /\ pc'[p] = op /\ calls'[p].op = op
  BY DEF Send, Others, Same, Inv, Types, LocalTypes
<1>2. Works
  BY <1>1, WorksOver DEF Filling
<1> QED BY <1>2, SlotsSame, FreshQuiet

LEMMA StartFresh ==
    ASSUME Inv, Books, Fresh, NEW c \in Compiler, NEW i \in Inst, Start(c, i) PROVE Fresh'
<1>1. c \in Pid
  BY DEF Pid
<1> QED BY <1>1, OpensFresh DEF Start, manager, code

LEMMA ClaimsFresh ==
    ASSUME Inv, Books, Fresh, NEW p \in Pid, NEW i \in Inst, Claims(p, i) PROVE Fresh'
BY OpensFresh DEF Claims, outside, manager, code

LEMMA DestroyFresh ==
    ASSUME Inv, Books, Fresh, NEW p \in Pid, NEW i \in Inst, Destroy(p, i) PROVE Fresh'
BY OpensFresh DEF Destroy, manager, code

LEMMA CallerFresh ==
    ASSUME Inv, Books, Fresh, NEW p \in Pid, UNCHANGED <<tab, cur, mon, due, restarts, cslot, calls, tok>>,
           \A q \in Pid \ {p} : Same(q), pc'[p] \notin Filling,
           pc'[p] = "in" => ver'[p] = "cur",
           calls[p] = None
    PROVE  Fresh'
<1>1. Works
  BY DEF Works, Same, Filling, Before
<1> QED BY <1>1, SlotsSame, FreshQuiet

LEMMA TakeFresh ==
    ASSUME Inv, Books, Fresh, NEW p \in Caller, NEW i \in Inst, Take(p, i) PROVE Fresh'
<1> DEFINE v == Add(ctr[cslot[i]], 1)
           l == CASE v >= Excl -> "backout"
                  [] v < Excl /\ KeyOf[i] \in Hashed -> "ready"
                  [] OTHER -> "check"
<1>1. p \in Pid /\ pc[p] = "out" /\ pc' = [pc EXCEPT ![p] = l] /\ at' = [at EXCEPT ![p] = i]
      /\ UNCHANGED <<tab, cur, mon, due, restarts, cslot, calls, tok, want, ver>>
  BY DEF Take, Pid, code, manager
<1>2. l \in {"backout", "ready", "check"}
  <2>1. cslot[i] \in Slot /\ v \in Int /\ Excl \in Int
    <3>1. cslot[i] \in Slot
      BY DEF Take, Inv, Types, RowTypes
    <3>2. v \in Counter
      <4>1. ctr[cslot[i]] \in Int
        BY <3>1, SlotsAssumption DEF Books, BookTypes, Counter
      <4> QED BY <4>1, AddType
    <3> QED BY <3>1, <3>2, SlotsAssumption DEF Counter
  <2> HIDE DEF v
  <2> QED BY <2>1
<1>3. calls[p] = None
  BY <1>1, NoCall DEF Inv, Flow
<1> HIDE DEF l, v
<1>4. pc'[p] = l /\ \A q \in Pid \ {p} : Same(q)
  BY <1>1 DEF Same, Inv, Types, LocalTypes
<1> QED BY <1>1, <1>2, <1>3, <1>4, CallerFresh DEF Filling

LEMMA InsideFresh ==
    ASSUME Inv, Books, Fresh, NEW p \in Caller, Check(p) \/ Invoke(p) \/ Miss(p) PROVE Fresh'
<1>1. p \in Pid /\ UNCHANGED <<outside, calls, at, tok>>
      /\ \A q \in Pid \ {p} : Same(q)
  BY DEF Check, Invoke, Miss, Same, Pid, Inv, Types, LocalTypes
<1>2. pc'[p] \in {"ready", "backout", "in", "mixed"} /\ (pc'[p] = "in" => ver'[p] = "cur")
  BY <1>1 DEF Check, Invoke, Miss, Inv, Types, LocalTypes
<1>3. calls[p] = None
  BY <1>1, NoCall DEF Check, Invoke, Miss, Inv, Flow
<1> QED BY <1>1, <1>2, <1>3, CallerFresh DEF Filling, outside, code, manager

LEMMA GiveLeaseFresh == ASSUME Inv, Books, Fresh, NEW p \in Caller, GiveLease(p) PROVE Fresh'
<1>1. p \in Pid /\ calls[p] = None
  BY NoCall DEF GiveLease, Pid, Inv, Flow
<1>2. Works
  BY <1>1, DoneWorks DEF GiveLease
<1> QED BY <1>2, SlotsSame, FreshQuiet DEF GiveLease, manager, code
-----------------------------------------------------------------------------
LEMMA EndsWorks == ASSUME Inv, NEW p \in Pid, Ends(p) PROVE Works /\ pc'[p] \notin Filling
<1>1. Others(p) /\ Over(p) /\ calls'[p] = None
  BY EndsEffect DEF Inv, Types, Flow
<1>2. pc'[p] \notin Filling \cup {"in"}
  BY <1>1 DEF Over, Filling
<1> QED BY <1>1, <1>2, WorksOver

LEMMA HearsWorks ==
    ASSUME Inv, NEW p \in Pid, NEW l \in {"adopt", "leave"}, NEW t \in Token, Hears(p, l, t)
    PROVE  Works /\ pc'[p] \notin Filling
<1>1. /\ Others(p) /\ calls'[p] = None
      /\ Alive(p) => Moved(p, l, t)
      /\ ~Alive(p) => Same(p)
  BY HearsEffect DEF Inv, Types, Label
<1>2. pc'[p] \notin Filling \cup {"in"}
  BY <1>1 DEF Moved, Same, Alive, Filling
<1> QED BY <1>1, <1>2, WorksOver

\* A reservation that is given up was of nobody else.
LEMMA GivenUp ==
    ASSUME Inv, Works, NEW t \in Token, Reserved(t), due = None,
           \A q \in Pid : pc'[q] \in Filling /\ ~InDue(q)' => tok[q] # t,
           \A s \in Slot : s # t.slot => tab'[s] = tab[s]
    PROVE  Spares
<1> SUFFICES ASSUME NEW q \in Pid, pc'[q] \in Filling, ~InDue(q)', Reserved(tok[q])
             PROVE  Reserved(tok[q])'
  BY NoneDue DEF Spares
<1>1. pc[q] \in Filling /\ tok'[q] = tok[q]
  BY DEF Works
<1>2. tok[q] \in Token /\ tok[q].slot \in Slot
  BY <1>1, FillingTok
<1>3. tok[q].slot # t.slot
  BY <1>2, OneStands
<1> QED BY <1>1, <1>2, <1>3 DEF Reserved

LEMMA AskedOnly ==
    ASSUME Fresh, Works, NEW p \in Pid, NEW t \in Token, Asked(p, t),
           pc'[p] \notin Filling \/ InDue(p)', NEW q \in Pid, pc'[q] \in Filling, ~InDue(q)'
    PROVE  tok[q] # t
BY DEF Fresh, OneFiller, Has, Works

\* Nobody moves.
LEMMA StillWorks == ASSUME UNCHANGED <<calls, pc, at, tok, want, ver>> PROVE Works
BY DEF Works, Same

LEMMA PublishFresh == ASSUME Inv, Books, Fresh, NEW p \in Pid, Publish(p) PROVE Fresh'
<1> DEFINE t == calls[p].tok
<1>1. t \in Token /\ UNCHANGED <<cur, cslot, restarts>> /\ calls[p] # None /\ calls[p].op = "publish"
      /\ due = None
  BY Sender DEF Publish, code
<1>2. Works
  BY <1>1, HearsWorks, StillWorks DEF Publish, locals
<1>3. CASE ~Reserved(t)
  <2>1. UNCHANGED <<tab, mon, due>>
    BY <1>3 DEF Publish
  <2> QED BY <1>1, <1>2, <2>1, SlotsSame, FreshQuiet
<1>4. CASE Reserved(t)
  <2> DEFINE s == t.slot
  <2>1. /\ tab' = [tab EXCEPT ![s].st = "resident"] /\ due' = [slot |-> s, pid |-> p]
        /\ mon' = {w \in mon : w.kind = "loading" => w.tok # t}
    BY <1>4 DEF Publish
  <2>2. s \in Slot /\ tab[s].st = "loading" /\ tab[s] \in Row /\ t.gen = tab[s].gen
    BY <1>1, <1>4 DEF Token, Reserved, Inv, Types, RowTypes
  <2>3. /\ tab'[s].st = "resident" /\ tab'[s].key = tab[s].key /\ tab'[s].gen = tab[s].gen
        /\ \A r \in Slot \ {s} : tab'[r] = tab[r]
    BY <2>1, <2>2 DEF Row, Inv, Types, RowTypes
  <2>4. restarts = 0 => LoadedFor([slot |-> s, gen |-> tab[s].gen])
    <3>1. restarts = 0 => LoadedFor(t)
      BY <1>1, <1>4 DEF Fresh, Stands
    <3> QED BY <2>2, <3>1 DEF LoadedFor
  <2>5. Stays
    BY <2>1, <2>2, <2>3, <2>4 DEF Stays
  <2>6. Asked(p, t) /\ InDue(p)'
    <3>1. due' # None /\ due'.pid = p
      BY <2>1, <2>2, DueRecord
    <3> QED BY <1>1, <3>1 DEF Asked, InDue
  <2> HIDE DEF t
  <2>7. Spares
    BY <1>1, <1>2, <1>4, <2>3, <2>6, AskedOnly, GivenUp
  <2> QED BY <1>1, <1>2, <2>5, <2>7, SlotsSame, FreshStep
<1> QED BY <1>3, <1>4

\* A reservation that is aborted was of nobody who goes on.
LEMMA AbortRowFresh ==
    ASSUME Inv, Books, Fresh, NEW t \in Token, NEW p \in Pid \cup {None}, AbortRow(t, p), Works,
           due = None, UNCHANGED <<cur, cslot, restarts>>,
           Reserved(t) => \A q \in Pid : pc'[q] \in Filling /\ ~InDue(q)' => tok[q] # t
    PROVE  Fresh'
<1>1. CASE ~Reserved(t)
  BY <1>1, SlotsSame, FreshQuiet DEF AbortRow
<1>2. CASE Reserved(t)
  <2> DEFINE s == t.slot
  <2>1. s \in Slot /\ tab[s].st = "loading" /\ tab[s] \in Row /\ t.gen = tab[s].gen
    BY <1>2 DEF Token, Reserved, Inv, Types, RowTypes
  <2>2. tab' = [tab EXCEPT ![s] = Freed(@)] /\ mon' \subseteq mon
    BY <1>2 DEF AbortRow, Unwatched
  <2>3. /\ tab'[s].st = "free" /\ tab'[s].gen = tab[s].gen
        /\ \A r \in Slot \ {s} : tab'[r] = tab[r]
    BY <2>1, <2>2 DEF Freed, Row, Inv, Types, RowTypes
  <2>4. Stays
    BY <2>1, <2>2, <2>3 DEF Stays
  <2>5. Spares
    BY <1>2, <2>3, GivenUp
  <2> QED BY <2>4, <2>5, SlotsSame, FreshStep
<1> QED BY <1>1, <1>2

LEMMA AbortedWorks ==
    ASSUME Inv, NEW p \in Pid, calls[p].tok \in Token, Aborted(p)
    PROVE  Works /\ pc'[p] \notin Filling
BY HearsWorks, EndsWorks DEF Aborted

LEMMA AbortFresh == ASSUME Inv, Books, Fresh, NEW p \in Pid, Abort(p) PROVE Fresh'
<1> DEFINE t == calls[p].tok
<1>1. /\ t \in Token /\ t.slot \in Slot /\ AbortRow(t, p) /\ UNCHANGED <<cur, cslot, restarts>>
      /\ Asked(p, t) /\ due = None
  BY Sender DEF Abort, code, Asked, Token
<1>2. Works
  BY <1>1, AbortedWorks, StillWorks DEF Abort, locals
<1>3. Reserved(t) => InDue(p)'
  BY <1>1, SlotsAssumption, DueRecord DEF AbortRow, InDue
<1> HIDE DEF t
<1>4. Reserved(t) => \A q \in Pid : pc'[q] \in Filling /\ ~InDue(q)' => tok[q] # t
  BY <1>1, <1>2, <1>3, AskedOnly
<1> QED BY <1>1, <1>2, <1>4, AbortRowFresh

\* Whoever is answered goes on without the reservation.
LEMMA EndHoldFresh == ASSUME Inv, Books, Fresh, EndHold PROVE Fresh'
<1> DEFINE p == due.pid
<1>1. /\ due # None /\ due' = None /\ UNCHANGED <<tab, cur, mon, cslot, restarts>>
      /\ p \in Pid \cup {None}
  BY DEF EndHold, code, Inv, Types, RowTypes
<1>2. Works /\ (p \in Pid => pc'[p] \notin Filling)
  <2>1. CASE p = None
    BY <2>1, StillWorks, SlotsAssumption DEF EndHold, locals
  <2>2. CASE p # None
    <3>1. p \in Pid /\ calls[p] # None /\ calls[p].op \in {"publish", "abort"}
      BY <1>1, <2>2 DEF Inv, Flow, HoldOK
    <3>2. calls[p].tok \in Token
      BY <3>1, PublishTok
    <3>3. Hears(p, "adopt", calls[p].tok) \/ Aborted(p)
      BY <2>2 DEF EndHold
    <3> HIDE DEF p
    <3> QED BY <3>1, <3>2, <3>3, HearsWorks, AbortedWorks
  <2> QED BY <2>1, <2>2
<1>3. Stays
  BY <1>1 DEF Stays
<1>4. Spares
  BY <1>1, <1>2 DEF Spares, InDue, Reserved, Works
<1> QED BY <1>1, <1>2, <1>3, <1>4, SlotsSame, FreshStep

\* Only leases go.
LEMMA DropFresh ==
    ASSUME Inv, Books, Fresh, NEW i \in Inst, DropLease(i), Works, mon' \subseteq mon,
           UNCHANGED <<cur, cslot, due, restarts>>
    PROVE  Fresh'
<1>1. tab \in [Slot -> Row]
  BY DEF Inv, Types, RowTypes
<1>2. tab' = [s \in Slot |-> IF Holds(s, KeyOf[i]) THEN [tab[s] EXCEPT !.leases[i] = None]
                             ELSE tab[s]]
  BY DEF DropLease
<1>3. \A s \in Slot : /\ tab'[s].gen = tab[s].gen /\ tab'[s].st = tab[s].st
                      /\ tab'[s].key = tab[s].key
  BY <1>1, <1>2 DEF Row
<1>4. Stays
  BY <1>3 DEF Stays
<1>5. Spares
  <2>1. \A p \in Pid : pc'[p] \in Filling => tok[p].slot \in Slot /\ tok'[p] = tok[p]
    BY FillingTok DEF Works
  <2> QED BY <1>3, <2>1 DEF Spares, Reserved, InDue
<1> QED BY <1>4, <1>5, SlotsSame, FreshStep

LEMMA ReleaseFresh == ASSUME Inv, Books, Fresh, NEW p \in Pid, Release(p) PROVE Fresh'
<1>1. calls[p].inst \in Inst /\ DropLease(calls[p].inst) /\ mon' \subseteq mon
      /\ UNCHANGED <<cur, cslot, due, restarts>> /\ Ends(p)
  BY Sender DEF Release, Request, Unwatched, code
<1> QED BY <1>1, EndsWorks, DropFresh

LEMMA DownFresh == ASSUME Inv, Books, Fresh, NEW w \in mon, Down(w) PROVE Fresh'
<1>1. UNCHANGED <<cur, cslot, restarts, calls, pc, tok>> /\ Works /\ due = None
  BY StillWorks DEF Down, Idle, locals, code
<1>2. CASE w.kind = "budget"
  <2>1. tab' = tab /\ mon' \subseteq mon /\ due' = due
    BY <1>2 DEF Down
  <2> QED BY <1>1, <2>1, SlotsSame, FreshQuiet
<1>3. CASE w.kind = "loading"
  <2>1. PICK t \in Token, p \in Pid : w = OfToken(t, p)
    BY <1>3 DEF Books, Shaped, OfLease, OfRebuilt, OfBudget
  <2>2. w.tok = t /\ w.pid = p
    BY <2>1 DEF OfToken
  <2>3. AbortRow(t, None) /\ pc[p] = "dead"
    BY <1>3, <2>2 DEF Down, Alive
  <2>4. \A q \in Pid : pc'[q] \in Filling => tok[q] # t
    BY <1>1, <2>1, <2>3 DEF Fresh, OneFiller, Has, Filling
  <2> QED BY <1>1, <2>3, <2>4, AbortRowFresh
<1>4. CASE w.kind \in {"lease", "rebuilt"}
  <2>1. w.inst \in Inst
    BY <1>4 DEF Books, Shaped, OfLease, OfRebuilt, OfBudget, OfToken
  <2>2. DropLease(w.inst) /\ mon' \subseteq mon /\ due' = due
    BY <1>4 DEF Down, Unwatched
  <2> QED BY <1>1, <2>1, <2>2, DropFresh
<1> QED BY <1>2, <1>3, <1>4 DEF Down

LEMMA GiveBackFresh == ASSUME Inv, Books, Fresh, NEW p \in Pid, GiveBack(p) PROVE Fresh'
<1>1. UNCHANGED <<tab, cur, cslot, due, restarts>> /\ mon' \subseteq mon /\ Ends(p)
  BY DEF GiveBack, code
<1> QED BY <1>1, EndsWorks, SlotsSame, FreshQuiet

LEMMA AcquireFresh == ASSUME Inv, Books, Fresh, NEW p \in Pid, Acquire(p) PROVE Fresh'
<1>1. calls[p].tok \in Token /\ UNCHANGED <<tab, cur, cslot, due, restarts>>
      /\ (Alive(p) => pc[p] = "acquire" /\ tok[p] = calls[p].tok)
  BY Sender DEF Acquire, code
<1>2. \A t \in Token, q \in Pid : OfToken(t, q) \in mon' => OfToken(t, q) \in mon
  BY Kinds DEF Acquire
<1>3. Others(p) /\ calls'[p] = None
      /\ (Alive(p) => pc'[p] \in {"build", "unclaim"} /\ tok'[p] = tok[p])
      /\ (~Alive(p) => Same(p))
  <2>1. CASE Hears(p, "unclaim", calls[p].tok)
    <3>1. /\ Others(p) /\ calls'[p] = None
          /\ Alive(p) => Moved(p, "unclaim", calls[p].tok)
          /\ ~Alive(p) => Same(p)
      BY <1>1, <2>1, HearsEffect DEF Inv, Types, Label
    <3> QED BY <1>1, <3>1 DEF Moved
  <2>2. CASE ~Hears(p, "unclaim", calls[p].tok)
    <3>1. Answered(p) /\ (Alive(p) => pc' = [pc EXCEPT ![p] = "build"]
                                      /\ UNCHANGED <<at, tok, want, ver>>)
          /\ (~Alive(p) => UNCHANGED <<pc, at, tok, want, ver>>)
      BY <2>2 DEF Acquire, locals
    <3> QED BY <3>1 DEF Inv, Types, LocalTypes, Answered, Others, Same
  <2> QED BY <2>1, <2>2
<1>4. Works
  <2>1. CASE Alive(p)
    <3>1. pc[p] \in Filling /\ pc[p] \in Before
      BY <1>1, <2>1 DEF Filling, Before
    <3> QED BY <1>3, <2>1, <3>1, WorksMoved
  <2>2. CASE ~Alive(p)
    <3>1. pc'[p] \notin Filling \cup {"in"}
      BY <1>3, <2>2 DEF Same, Alive, Filling
    <3> QED BY <1>3, <3>1, WorksOver
  <2> QED BY <2>1, <2>2
<1> QED BY <1>1, <1>2, <1>4, SlotsSame, FreshQuiet

LEMMA ClaimFoundFresh == ASSUME Inv, Books, Fresh, NEW p \in Pid, ClaimFound(p) PROVE Fresh'
<1> DEFINE i == calls[p].inst
<1>1. i \in Inst /\ UNCHANGED <<cur, cslot, due, restarts>>
  BY Sender DEF ClaimFound, Request, code
<1>2. PICK s \in Found(KeyOf[i]) :
          \/ tab[s].st = "loading" /\ Ends(p) /\ UNCHANGED <<tab, mon>>
          \/ /\ tab[s].st = "resident" /\ Hears(p, "adopt", [slot |-> s, gen |-> tab[s].gen])
             /\ \/ UNCHANGED <<tab, mon>>
                \/ /\ tab' = [tab EXCEPT ![s].leases[i] = p]
                   /\ mon' = mon \cup {OfLease(i, p)}
  BY DEF ClaimFound
<1>3. s \in Slot /\ tab[s] \in Row /\ tab \in [Slot -> Row]
  BY <1>2 DEF Found, Inv, Types, RowTypes
<1>4. Works
  <2>1. CASE Ends(p)
    BY <2>1, EndsWorks
  <2>2. CASE Hears(p, "adopt", [slot |-> s, gen |-> tab[s].gen])
    <3>1. [slot |-> s, gen |-> tab[s].gen] \in Token
      BY <1>3 DEF Token, Row
    <3> QED BY <2>2, <3>1, HearsWorks
  <2> QED BY <1>2, <2>1, <2>2
<1>5. \A r \in Slot : tab'[r].gen = tab[r].gen /\ tab'[r].st = tab[r].st /\ tab'[r].key = tab[r].key
  BY <1>2, <1>3 DEF Row
<1>6. \A t \in Token, q \in Pid : OfToken(t, q) \in mon' => OfToken(t, q) \in mon
  BY <1>2 DEF OfLease, OfToken
<1>7. Stays
  BY <1>5, <1>6 DEF Stays
<1>8. Spares
  <2>1. \A q \in Pid : pc'[q] \in Filling => tok[q].slot \in Slot /\ tok'[q] = tok[q]
    BY <1>4, FillingTok DEF Works
  <2> QED BY <1>1, <1>5, <2>1 DEF Spares, Reserved, InDue
<1> QED BY <1>1, <1>4, <1>7, <1>8, SlotsSame, FreshStep

\* The search only looks at the rows.
LEMMA SearchFresh ==
    ASSUME Inv, Books, Fresh,
           UNCHANGED <<tab, cur, mon, due, restarts, calls, pc, at, tok, want, ver, cslot>>
    PROVE  Fresh'
<1>1. Works
  BY DEF Works, Same
<1> QED BY <1>1, SlotsSame, FreshQuiet

LEMMA SearchingFresh ==
    ASSUME Inv, Books, Fresh,
           (\E p \in Pid : ClaimMissing(p)) \/ (\E s \in Slot : TakeExclusive(s)) \/ Repair \/ Refuse
    PROVE  Fresh'
<1>1. ASSUME NEW p \in Pid, ClaimMissing(p) PROVE Fresh'
  BY <1>1, SearchFresh DEF ClaimMissing, code, locals
<1>2. ASSUME NEW s \in Slot, TakeExclusive(s) PROVE Fresh'
  <2>1. UNCHANGED <<tab, cur, mon, due, restarts, calls, pc, at, tok, want, ver, cslot>>
    BY <1>2, Zenon DEF TakeExclusive, code, locals
  <2> QED BY <2>1, SearchFresh
<1>3. CASE Repair
  BY <1>3, SearchFresh DEF Repair, locals
<1>4. CASE Refuse
  BY <1>4, SearchFresh DEF Refuse, code, locals
<1> QED BY <1>1, <1>2, <1>3, <1>4

LEMMA NoSlotFresh == ASSUME Inv, Books, Fresh, NoSlot PROVE Fresh'
<1>1. hold.pid \in Pid /\ Ends(hold.pid) /\ UNCHANGED <<tab, cur, mon, due, restarts, cslot>>
  BY InHand DEF NoSlot, Choosing, code
<1> QED BY <1>1, EndsWorks, SlotsSame, FreshQuiet

\* A reservation is of a generation nobody has, in a slot whose old code nobody runs.
LEMMA ReserveFresh == ASSUME Inv, Books, Fresh, Reserve PROVE Fresh'
<1> DEFINE s == hold.slot  p == hold.pid  i == hold.inst  g == tab[s].gen + 1
           t == [slot |-> s, gen |-> g]
           l == IF p \in Compiler THEN "compile" ELSE "unclaim"
           L == [NoLease EXCEPT ![i] = p]
<1>1. /\ s \in Slot /\ p \in Pid /\ i \in Inst /\ calls[p] # None /\ calls[p].op = "claim"
      /\ Alive(p) => pc[p] = "claim"
      /\ due = None /\ UNCHANGED <<cur, cslot, due, restarts>>
  BY InHand DEF Reserve, Held
<1>2. tab \in [Slot -> Row] /\ tab[s] \in Row /\ g \in Nat /\ t \in Token /\ l \in Label
      /\ tab[s].gen \in Nat /\ KeyOf[i] \in Key
  BY <1>1, SlotsAssumption DEF Inv, Types, RowTypes, Row, Token, Label
<1>3. /\ tab' = [tab EXCEPT ![s] = [gen |-> g, st |-> "loading", key |-> KeyOf[i], leases |-> L]]
      /\ mon' = mon \cup {OfLease(i, p), OfToken(t, p)}
      /\ Hears(p, l, t) /\ Purgeable(s)
  BY DEF Reserve
<1>4. /\ \A x \in Slot \ {s} : tab'[x] = tab[x]
      /\ tab'[s].gen = g /\ tab'[s].st = "loading" /\ tab'[s].key = KeyOf[i]
  <2> HIDE DEF g, L
  <2> QED BY <1>1, <1>2, <1>3
<1>5. /\ Others(p) /\ calls'[p] = None
      /\ Alive(p) => Moved(p, l, t)
      /\ ~Alive(p) => Same(p)
  <2> HIDE DEF l, t, p
  <2> QED BY <1>1, <1>2, <1>3, HearsEffect DEF Inv, Types
<1>6. tab[s].st # "loading"
  <2>1. s \in Empty
    BY <1>1, HoldBooks, SlotsAssumption DEF Reserve, Held
  <2> QED BY <2>1 DEF Empty
<1>7. InOld(s) = {}
  <2>1. ASSUME NEW q \in Pid, pc[q] = "in", cslot[at[q]] = s PROVE cur[s] # None
    <3>1. at[q] \in Inst /\ cslot[at[q]] \in Slot /\ cslot[at[q]] # None
      BY <2>1, SlotsAssumption DEF Inv, Flow, PlaceOK, Calls
    <3> QED BY <2>1, <3>1 DEF Inv, Flow, FilledOK
  <2> QED BY <1>3, <2>1 DEF Purgeable, InOld, SlotFor
<1>8. l \in {"compile", "unclaim"} /\ t.slot = s /\ t.gen = g /\ g > tab[s].gen
  BY <1>2
<1> HIDE DEF s, p, i, g, t, l, L
\* Who has what.
<1>9. \A q \in Pid, u \in Token : Has(q, u)' => Has(q, u) \/ (q = p /\ u = t)
  BY <1>5 DEF Has, Asked, Others, Same, Moved, Alive
<1>10. \A q \in Pid : ~Has(q, t) /\ OfToken(t, q) \notin mon
  BY <1>1, <1>2, <1>8 DEF Fresh, Made
<1>11. \A q \in Pid, u \in Token : OfToken(u, q) \in mon' => OfToken(u, q) \in mon \/ (q = p /\ u = t)
  BY <1>3 DEF OfToken, OfLease
<1>12. OneFiller'
  <2>1. \A q, r \in Pid, u \in Token : Has(q, u)' /\ Has(r, u)' => q = r
    BY <1>9, <1>10 DEF Fresh, OneFiller
  <2>2. \A q, r \in Pid, u \in Token : Has(q, u)' /\ OfToken(u, r) \in mon' => q = r
    BY <1>9, <1>10, <1>11 DEF Fresh, OneFiller
  <2> QED BY <2>1, <2>2 DEF OneFiller
<1>13. Made'
  <2>1. \A x \in Slot : tab[x].gen \in Nat /\ tab'[x].gen \in Nat /\ tab'[x].gen >= tab[x].gen
    BY <1>1, <1>2, <1>4, <1>8 DEF Row
  <2>2. \A u \in Token : u.slot \in Slot /\ u.gen \in Nat
    BY DEF Token
  <2>3. t.gen <= tab'[t.slot].gen
    BY <1>2, <1>4, <1>8
  <2>4. \A q \in Pid, u \in Token : Has(q, u)' => u.gen <= tab'[u.slot].gen
    BY <1>9, <2>1, <2>2, <2>3 DEF Fresh, Made
  <2>5. \A q \in Pid, u \in Token : OfToken(u, q) \in mon' => u.gen <= tab'[u.slot].gen
    BY <1>11, <2>1, <2>2, <2>3 DEF Fresh, Made
  <2> QED BY <2>4, <2>5 DEF Made
<1>14. Keyed'
  BY <1>2, <1>4 DEF Fresh, Keyed
<1>15. ASSUME restarts = 0 PROVE Stands'
  <2>1. Stands
    BY <1>15 DEF Fresh
  <2>2. ASSUME NEW q \in Pid, pc'[q] \in Filling
        PROVE  \/ q = p /\ Alive(p) /\ tok'[q] = t /\ pc'[q] = l
               \/ Same(q) /\ pc[q] \in Filling /\ Reserved(tok[q]) /\ tok[q].slot \in Slot \ {s}
    <3>1. CASE q = p /\ Alive(p)
      BY <1>5, <3>1 DEF Moved
    <3>2. CASE ~(q = p /\ Alive(p))
      <4>1. Same(q) /\ pc[q] \in Filling
        BY <1>5, <2>2, <3>2 DEF Others, Same
      <4>2. Reserved(tok[q]) /\ tok[q].slot \in Slot
        BY <1>1, <2>1, <4>1, FillingTok, NoneDue DEF Stands
      <4> QED BY <1>6, <4>1, <4>2 DEF Reserved
    <3> QED BY <3>1, <3>2
  <2>3. \A q \in Pid : pc'[q] \in Filling => Reserved(tok[q])'
    BY <1>4, <1>8, <2>2 DEF Reserved, Same
  <2>4. \A x \in Slot : InOld(x) = {} =>
           \A q \in Pid : ~(pc'[q] = "in" /\ cslot'[at'[q]] = x /\ ver'[q] = "old")
    <3>1. \A q \in Pid : pc'[q] = "in" => Same(q)
      BY <1>5, <1>8 DEF Others, Moved
    <3> QED BY <1>1, <3>1 DEF InOld, SlotFor, Same
  <2>5. ASSUME NEW q \in Pid, pc'[q] \in Before PROVE InOld(tok[q].slot)' = {}
    <3>1. pc'[q] \in Filling
      BY <2>5 DEF Before, Filling
    <3>2. tok'[q].slot \in Slot /\ InOld(tok'[q].slot) = {}
      BY <1>1, <1>7, <1>8, <2>1, <2>2, <2>5, <3>1 DEF Stands, Same
    <3> QED BY <2>4, <3>2 DEF InOld, SlotFor
  <2>6. ASSUME NEW q \in Pid, pc'[q] = "loaded" PROVE LoadedFor(tok[q])'
    <3>1. Same(q) /\ Reserved(tok[q]) /\ tok[q].slot \in Slot \ {s}
      BY <1>8, <2>2, <2>6 DEF Filling
    <3> QED BY <1>1, <1>4, <2>1, <2>6, <3>1 DEF Stands, LoadedFor, Same
  <2>7. ASSUME NEW q \in Pid, calls'[q] # None, calls'[q].op = "publish", Reserved(calls[q].tok)'
        PROVE  LoadedFor(calls[q].tok)'
    <3>1. calls'[q] = calls[q]
      BY <1>5, <2>7 DEF Others
    <3> DEFINE u == calls[q].tok
    <3>2. u \in Token /\ u.slot \in Slot
      BY <2>7, <3>1, PublishTok
    <3>3. u.slot # s
      <4>1. Has(q, u)
        BY <2>7, <3>1 DEF Has, Asked
      <4>2. u.gen <= tab[u.slot].gen /\ tab'[u.slot].gen = u.gen
        BY <2>7, <3>1, <3>2, <4>1 DEF Fresh, Made, Reserved
      <4> QED BY <1>2, <1>4, <1>8, <4>2
    <3>4. Reserved(u) /\ tab'[u.slot] = tab[u.slot]
      BY <1>4, <2>7, <3>1, <3>2, <3>3 DEF Reserved
    <3>5. LoadedFor(u)
      BY <2>1, <2>7, <3>1, <3>4 DEF Stands
    <3> QED BY <1>1, <3>1, <3>4, <3>5 DEF LoadedFor
  <2>8. \A x \in Slot : tab'[x].st = "resident" => cur'[x] = [key |-> tab'[x].key, gen |-> tab'[x].gen]
    BY <1>1, <1>4, <2>1 DEF Stands
  <2> QED BY <2>3, <2>5, <2>6, <2>7, <2>8 DEF Stands
<1> QED BY <1>1, <1>12, <1>13, <1>14, <1>15 DEF Fresh

\* A load puts in the slot what its row says, and the row is still the loader's.
LEMMA LoadFresh == ASSUME Inv, Books, Fresh, NEW c \in Compiler, Load(c) PROVE Fresh'
<1> DEFINE t == tok[c]  s == t.slot
<1>1. c \in Pid /\ pc[c] = "build" /\ pc[c] \in Filling
  BY DEF Load, Pid, Filling
<1>2. t \in Token /\ s \in Slot /\ t.gen \in Nat /\ at[c] \in Inst /\ calls[c] = None
  BY <1>1, FillingTok, Ready
<1>3. UNCHANGED <<tab, mon, due, restarts, calls, tok, cslot>>
  BY DEF Load, manager
<1>4. /\ cur' = [cur EXCEPT ![s] = [key |-> KeyFor(c), gen |-> t.gen]]
      /\ pc'[c] = "loaded" /\ \A q \in Pid \ {c} : pc'[q] = pc[q] \/ pc'[q] = "dead"
  BY <1>1 DEF Load
<1>5. cur'[s] = [key |-> KeyFor(c), gen |-> t.gen] /\ \A x \in Slot \ {s} : cur'[x] = cur[x]
  BY <1>2, <1>4 DEF Inv, Types, RowTypes
<1> DEFINE Was(q) == pc'[q] = pc[q] \/ pc'[q] = "dead" \/ (q = c /\ pc'[q] = "loaded")
<1>6. \A q \in Pid : Was(q)
  BY <1>4
<1>7. \A q \in Pid, u \in Token : Has(q, u)' => Has(q, u)
  BY <1>1, <1>3, <1>6 DEF Has, Asked, Filling
<1> HIDE DEF s, t
<1>8. OneFiller' /\ Made' /\ Keyed'
  BY <1>3, <1>7 DEF Fresh, OneFiller, Made, Keyed
<1>9. ASSUME restarts = 0 PROVE Stands'
  <2>1. Stands
    BY <1>9 DEF Fresh
  <2>2. Reserved(t)
    BY <1>1, <2>1, NotDue DEF Stands, Before, t
  <2>3. tab[s].gen = t.gen /\ tab[s].st = "loading"
    BY <2>2 DEF Reserved, s
  <2>4. tab[s].key = KeyFor(c)
    <3>1. tab[s].key \in Key /\ KeyFor(c) \in Key
      BY <1>2, <2>3, SlotsAssumption DEF Fresh, Keyed, KeyFor
    <3>2. Owns(s, t.gen, tab[s].key)
      BY <2>3 DEF Owns
    <3>3. Owns(s, t.gen, KeyFor(c))
      BY <1>1, <1>2, SlotsAssumption, RecordAssumption DEF Owns, KeyFor, s, t
    <3> QED BY <1>2, <3>1, <3>2, <3>3 DEF Inv, Coherent
  <2>5. cur'[s] = [key |-> tab[s].key, gen |-> t.gen]
    BY <1>5, <2>4
  \* Whoever has a reservation of the slot that stands is the loader.
  <2>6. \A q \in Pid, u \in Token : Has(q, u) /\ Reserved(u) /\ u.slot = s => q = c /\ u = t
    <3>1. Has(c, t)
      BY <1>1 DEF Has, t
    <3>2. \A u \in Token : Reserved(u) /\ u.slot = s => u = t
      BY <1>2, <2>2, OneStands DEF s
    <3> QED BY <1>1, <1>2, <3>1, <3>2 DEF Fresh, OneFiller
  <2>7. \A q \in Pid : pc'[q] \in Filling =>
           pc[q] \in Filling /\ (~InDue(q) => Reserved(tok[q])) /\ Has(q, tok[q])
    BY <1>1, <1>6, <2>1 DEF Stands, Filling, Has
  <2>8. \A q \in Pid : pc'[q] \in Filling /\ ~InDue(q)' => Reserved(tok[q])'
    BY <1>3, <2>7 DEF Reserved, InDue
  <2>9. ASSUME NEW q \in Pid, pc'[q] \in Before PROVE InOld(tok[q].slot)' = {}
    <3>1. pc[q] \in Before /\ pc'[q] \in Filling /\ q # c /\ pc[q] \in Filling /\ ~InDue(q)
      BY <1>4, <1>6, <2>9, NotDue DEF Before, Filling
    <3>2. tok[q].slot \in Slot /\ tok[q].slot # s
      BY <2>6, <2>7, <3>1, FillingTok
    <3>3. InOld(tok[q].slot) = {}
      BY <2>1, <3>1 DEF Stands
    <3>4. ASSUME NEW r \in Pid, pc'[r] = "in", cslot'[at'[r]] = tok[q].slot, ver'[r] = "old"
          PROVE  FALSE
      <4>1. pc[r] = "in" /\ r # c
        BY <1>4, <1>6, <3>4
      <4>2. r \notin InOld(s)
        BY <3>4, <4>1 DEF Load, s, t
      <4>3. at'[r] = at[r] /\ cslot[at[r]] # s
        BY <1>3, <3>2, <3>4, <4>2 DEF Load, s, t, Inv, Types, LocalTypes
      <4>4. ver'[r] = ver[r]
        BY <4>2, <4>3 DEF Load, s, t, SlotFor
      <4> QED BY <1>3, <3>3, <3>4, <4>1, <4>3, <4>4 DEF InOld, SlotFor
    <3> QED BY <1>3, <3>4 DEF InOld, SlotFor
  <2>10. ASSUME NEW q \in Pid, pc'[q] = "loaded" PROVE LoadedFor(tok[q])'
    <3>0. ~InDue(q)
      BY <1>1, <1>6, <2>10, NotDue DEF Before
    <3>1. CASE tok[q].slot = s
      <4>1. tok[q] = t
        BY <2>6, <2>7, <2>10, <3>0, <3>1, FillingTok DEF Filling
      <4> QED BY <1>3, <2>5, <4>1 DEF LoadedFor, s
    <3>2. CASE tok[q].slot # s
      <4>1. pc[q] = "loaded" /\ tok[q].slot \in Slot /\ Reserved(tok[q])
        BY <1>4, <1>6, <2>7, <2>10, <3>0, <3>2, FillingTok DEF Filling, s, t
      <4>2. LoadedFor(tok[q])
        BY <2>1, <4>1 DEF Stands
      <4> QED BY <1>3, <1>5, <3>2, <4>1, <4>2 DEF LoadedFor
    <3> QED BY <3>1, <3>2
  <2>11. ASSUME NEW q \in Pid, calls'[q] # None, calls'[q].op = "publish", Reserved(calls[q].tok)'
         PROVE  LoadedFor(calls[q].tok)'
    <3> DEFINE u == calls[q].tok
    <3>1. calls'[q] = calls[q] /\ u \in Token /\ u.slot \in Slot /\ Reserved(u)
      BY <1>3, <2>11, PublishTok DEF Reserved
    <3>2. u.slot # s
      <4>1. Has(q, u)
        BY <2>11, <3>1 DEF Has, Asked
      <4> QED BY <1>2, <2>6, <2>11, <3>1, <4>1
    <3>3. LoadedFor(u)
      BY <2>1, <2>11, <3>1 DEF Stands
    <3> QED BY <1>3, <1>5, <3>1, <3>2, <3>3 DEF LoadedFor
  <2>12. \A x \in Slot : tab'[x].st = "resident" => cur'[x] = [key |-> tab'[x].key, gen |-> tab'[x].gen]
    BY <1>3, <1>5, <2>1, <2>3 DEF Stands
  <2> QED BY <2>8, <2>9, <2>10, <2>11, <2>12 DEF Stands
<1> QED BY <1>3, <1>8, <1>9 DEF Fresh

LEMMA RestartEffect ==
    ASSUME Restart
    PROVE  /\ mon' = Rebuilt /\ restarts' = restarts + 1
           /\ \A p \in Pid : calls'[p] = None
           /\ \A p \in Pid : pc'[p] \in {"dead", "out"} \/ (pc'[p] = pc[p] /\ tok'[p] = tok[p])
<1>1. mon' = Rebuilt
  BY Zenon DEF Restart
<1>2. restarts' = restarts + 1
  BY Zenon DEF Restart
<1>3. calls' = [p \in Pid |-> None]
  BY Zenon DEF Restart
<1> DEFINE waiting == {p \in Pid : Alive(p) /\ calls[p] # None}
<1>4. /\ pc' = [p \in Pid |-> IF p \notin waiting THEN pc[p]
                              ELSE IF p \in Compiler THEN "dead" ELSE "out"]
      /\ tok' = [p \in Pid |-> IF p \in waiting THEN None ELSE tok[p]]
  BY Zenon DEF Restart
<1> HIDE DEF waiting
<1>5. \A p \in Pid : pc'[p] \in {"dead", "out"} \/ (pc'[p] = pc[p] /\ tok'[p] = tok[p])
  BY <1>4
<1> QED BY <1>1, <1>2, <1>3, <1>5

LEMMA RestartFresh == ASSUME Inv, Books, Fresh, Restart PROVE Fresh'
<1>1. /\ \A p \in Pid : calls'[p] = None
      /\ \A p \in Pid : pc'[p] \in {"dead", "out"} \/ (pc'[p] = pc[p] /\ tok'[p] = tok[p])
  BY RestartEffect
<1>2. \A p \in Pid, t \in Token : Has(p, t)' => Has(p, t)
  BY <1>1 DEF Has, Asked, Filling
<1>3. \A p \in Pid, t \in Token : OfToken(t, p) \notin mon'
  <2>1. mon' = Rebuilt
    BY RestartEffect
  <2>2. ASSUME NEW w \in Rebuilt PROVE w.kind = "rebuilt"
    BY DEF Rebuilt, OfRebuilt
  <2> QED BY <2>1, <2>2 DEF OfToken
<1>4. tab' = tab
  BY Zenon DEF Restart
<1>5. OneFiller'
  BY <1>2, <1>3 DEF Fresh, OneFiller
<1>6. Made'
  <2>1. \A t \in Token : t.slot \in Slot
    BY DEF Token
  <2> QED BY <1>2, <1>3, <1>4, <2>1 DEF Fresh, Made
<1>7. Keyed'
  BY <1>4 DEF Fresh, Keyed
<1>8. restarts' # 0
  <2>1. restarts' = restarts + 1 /\ restarts \in 0 .. MaxRestarts /\ MaxRestarts \in Nat
    BY RestartEffect, SlotsAssumption DEF Books, BookTypes
  <2> QED BY <2>1
<1> QED BY <1>5, <1>6, <1>7, <1>8 DEF Fresh

\* init/1 has no first manager to answer for.
LEMMA FreeRowFresh == ASSUME Inv, Books, Fresh, NEW s \in Slot, FreeRow(s) PROVE Fresh'
<1>1. restarts # 0 /\ Works /\ UNCHANGED <<cur, cslot, mon, restarts>>
  BY StillWorks DEF FreeRow, Books, BookTypes, code, locals
<1>2. /\ tab'[s].st = "free" /\ tab'[s].gen = tab[s].gen
      /\ \A r \in Slot \ {s} : tab'[r] = tab[r]
  BY DEF FreeRow, Freed, Row, Inv, Types, RowTypes
<1>3. Stays
  BY <1>1, <1>2 DEF Stays
<1> QED BY <1>1, <1>3, SlotsSame, FreshStep

LEMMA ServeFresh == ASSUME Inv, Books, Fresh, Serve PROVE Fresh'
BY SearchFresh DEF Serve, code, locals

LEMMA InitFresh == Init => Fresh
<1> SUFFICES ASSUME Init PROVE Fresh
  OBVIOUS
<1>1. \A p \in Pid, t \in Token : ~Has(p, t) /\ OfToken(t, p) \notin mon
  BY DEF Init, Has, Asked, Filling
<1>2. OneFiller /\ Made /\ Keyed
  BY <1>1 DEF OneFiller, Made, Keyed, Init
<1>3. Stands
  BY DEF Init, Stands, Filling, Before
<1> QED BY <1>2, <1>3 DEF Fresh

LEMMA NextFresh == ASSUME Inv, Books, Fresh, [Next]_vars PROVE Fresh'
<1> USE SlotsAssumption
<1>1. ASSUME NEW p \in Pid, Handle(p) PROVE Fresh'
  BY <1>1, ClaimFoundFresh, SearchingFresh, PublishFresh, AbortFresh, ReleaseFresh,
     AcquireFresh, GiveBackFresh DEF Handle
<1>2. ASSUME NEW p \in Pid, Unclaim(p) \/ Adopt(p) \/ Kill(p) PROVE Fresh'
  BY <1>2, UnclaimFresh, AdoptFresh, KillFresh
<1>3. CASE Search
  BY <1>3, SearchingFresh, ReserveFresh, NoSlotFresh DEF Search
<1>4. CASE EndHold \/ Restart \/ Serve \/ \E s \in Slot : FreeRow(s)
  BY <1>4, EndHoldFresh, RestartFresh, ServeFresh, FreeRowFresh
<1>5. ASSUME NEW w \in mon, Down(w) PROVE Fresh'
  BY <1>5, DownFresh
<1>6. ASSUME NEW c \in Compiler, Compiling(c) PROVE Fresh'
  <2>1. \A i \in Jobs[c] : i \in Inst
    OBVIOUS
  <2> QED BY <1>6, <2>1, StartFresh, AdmitFresh, HitFresh, LoadFresh, LoadedFresh, LeaveFresh
      DEF Compiling
<1>7. ASSUME NEW p \in Caller, Calling(p) PROVE Fresh'
  <2>1. p \in Pid /\ \A i \in Handles[p] : i \in Inst
    BY DEF Pid
  <2> QED BY <1>7, <2>1, ClaimsFresh, TakeFresh, DestroyFresh, InsideFresh, GiveLeaseFresh
      DEF Calling
<1>8. CASE UNCHANGED vars
  BY <1>8, SearchFresh DEF vars, manager, locals, code
<1> QED BY <1>1, <1>2, <1>3, <1>4, <1>5, <1>6, <1>7, <1>8 DEF Next

(* One owner for every reservation, whose slot nobody runs the old code of *)
(* and whose row stands, as long as the first manager runs.                *)
THEOREM Reservations == Spec => []Fresh
<1>1. Init => Inv /\ Books /\ Fresh
  BY InitInv, InitBooks, InitFresh
<1>2. Inv /\ Books /\ Fresh /\ [Next]_vars => (Inv /\ Books /\ Fresh)'
  BY NextInv, NextBooks, NextFresh
<1> QED BY <1>1, <1>2, PTL DEF Spec

(* A compiler about to load finds nobody in the old code of its slot.      *)
THEOREM LoadsKillNobody == Spec => []LoadKillsNobody
<1>1. Fresh => LoadKillsNobody
  BY DEF Fresh, Stands, Before, LoadKillsNobody, Pid
<1> QED BY <1>1, Reservations, PTL

(* The code of a resident slot is of the key and generation of its row.    *)
THEOREM ResidentIsLoaded == Spec => []ResidentLoaded
<1>1. Fresh => ResidentLoaded
  BY DEF Fresh, Stands, ResidentLoaded
<1> QED BY <1>1, Reservations, PTL
====
