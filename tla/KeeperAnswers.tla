---------------------------- MODULE KeeperAnswers ----------------------------
(***************************************************************************)
(* What a process that grows a memory is told, and what became of its      *)
(* growth; what an instance may hold.                                      *)
(***************************************************************************)
EXTENDS KeeperBooks

-----------------------------------------------------------------------------
(* The inductive invariant.                                                *)

\* The phases in which a transaction of a live process can be in flight, and
\* the frames that end one.
Heard == {"begin", "queued", "extend", "commit", "abort"}
Committing == {"chunks", "size", "arena", "finish"}
Ending == Committing \cup {"settle"}

\* The row of a memory is marked for as long as it is being reclaimed.
RetireTold ==
    \A m \in Memory : reg[m] # None /\ reg[m].state = "retiring" =>
        \/ ~up
        \/ todo # <<>> /\ Head(todo).op \in {"forget", "delete"} /\ Head(todo).res = m
        \/ \E f \in Frames(todo) : f.op = "retiring" /\ m \in f.set

\* Only the dead are forgotten.
GoneTold ==
    \A f \in Frames(todo) : f.op = "gone" => \A x \in f.set : x[2] \notin alive

\* A process that has asked for nothing has been told nothing.
ResTold ==
    \A p \in Pid : \/ cl[p].res \in Memory \cap minted
                   \/ cl[p].res = None /\ cl[p].ans = "none" /\ cl[p].ph = "idle"

\* No outcome is kept for a process whose transaction is in flight.
DoneTold ==
    \A m \in Memory : reg[m] # None /\ reg[m].txn # None =>
        reg[m].done[reg[m].txn.pid] = None

\* The transaction of a live process is its current operation ...
TxnFor(m, p) ==
    LET t == reg[m].txn IN
    reg[m] # None /\ t # None /\ t.pid = p =>
        cl[p].res = m /\ cl[p].op = t.op /\ cl[p].ph \in Heard

\* ... and an outcome kept for it says what happened.
DoneFor(m, p) ==
    LET d == reg[m].done[p] IN
    reg[m] # None /\ d # None =>
        /\ d.op <= cl[p].op
        /\ d.op = cl[p].op /\ d.res = "ok" => fate[p] = "ok"

Believes(p) ==
    /\ cl[p].ans = "ok" => fate[p] = "ok"
    /\ cl[p].ans \in {"failed", "raised"} /\ Live(cl[p].res) => fate[p] # "ok"

\* What a process can count on in each phase.
PhaseFor(p) ==
    LET ph == cl[p].ph  r == cl[p].res IN
    /\ ph \in {"idle", "look", "ack"} => Believes(p)
    /\ ph \in {"create", "free"} => cl[p].ans = "none"
    /\ ph \in {"begin", "queued", "extend", "abort"} => fate[p] # "ok"
    /\ ph = "extend" /\ Live(r) => InFlight(p)
    /\ ph = "commit" /\ InFlight(p) => fate[p] # "ok"
    /\ ph = "commit" /\ Live(r) => InFlight(p) \/ outcome(p) = "ok"
    /\ ph = "abort" /\ Live(r) /\ InFlight(p) => ~published(r, reg[r].txn)

Sure(p) == PhaseFor(p) /\ \A m \in Memory : TxnFor(m, p) /\ DoneFor(m, p)

\* A transaction is ended at the word of its writer, or without it.
HeadTold ==
    todo # <<>> => LET f == Head(todo)  p == reg[f.res].txn.pid IN
        /\ f.op \in Committing /\ p \in alive => cl[p].ph = "commit"
        /\ f.op = "settle" /\ p \in alive => cl[p].ph = "abort"
        /\ f.op = "insert" => \A q \in Pid : cl[q].res # f.res

\* An answer is true when it is sent, or the transaction it is about is being
\* ended the way it says.
Truthful(p, a) ==
    /\ ~InFlight(p)
    /\ a = "ok" => fate[p] = "ok"
    /\ a # "ok" /\ Live(cl[p].res) => fate[p] # "ok"
Awaits(h, p, a) ==
    /\ InFlight(p)
    /\ h.op \in Ending /\ h.res = cl[p].res
    /\ a = IF h.op = "settle" THEN "raised" ELSE "ok"
ReplyTold ==
    \A f \in Frames(todo) : f.op = "reply" /\ f.pid \in alive =>
        Truthful(f.pid, f.res) \/ Awaits(Head(todo), f.pid, f.res)

Told ==
    /\ RetireTold /\ GoneTold /\ ResTold /\ DoneTold
    /\ \A p \in alive : Sure(p)
    /\ HeadTold /\ ReplyTold

-----------------------------------------------------------------------------
(* Steps that leave a process sure of what it is sure of.                  *)

NotOf(t, p) == t = None \/ t.pid # p

\* As far as p is concerned the row of m is kept, but perhaps for its holders
\* and its charge, or is marked, or goes.
SoftFor(m, p) ==
    reg'[m] # None =>
        /\ reg[m] # None
        /\ \/ reg'[m].txn = reg[m].txn
           \/ NotOf(reg[m].txn, p) /\ NotOf(reg'[m].txn, p)
        /\ reg'[m].state = "live" => reg[m].state = "live"
        /\ reg'[m].done[p] = reg[m].done[p]

\* Or the row is new, of a memory that p never heard of.
NewTo(m, p) == cl[p].res # m /\ reg'[m].txn = None /\ reg'[m].done[p] = None

\* The cells of m are kept, or go.
CellKept(m) ==
    /\ arena'[m] \in {arena[m], Absent}
    /\ m \in Observable => chunks'[m] \in {chunks[m], Absent} /\ size'[m] = size[m]

\* A transaction without a visible effect does not get one that way.
LEMMA StaysHidden ==
    ASSUME StateOK, NEW m \in Memory, NEW t \in Txn, CellKept(m), ~published(m, t)
    PROVE  ~published(m, t)'
<1>1. /\ t.kind \in {"grow", "arena"} /\ t.to \in Nat /\ t.ct \in Nat
      /\ arena[m] \in Nat \cup {Absent} /\ chunks[m] \in Nat \cup {Absent}
  BY DEF Txn, StateOK
<1>2. CASE t.kind = "arena"
  <2>1. (published(m, t) <=> arena[m] >= t.to) /\ (published(m, t)' <=> arena'[m] >= t.to)
    BY <1>2 DEF published
  <2>2. ~(arena[m] >= t.to) /\ arena'[m] \in {arena[m], Absent}
    BY <2>1 DEF CellKept
  <2>3. ~(arena'[m] >= t.to)
    BY <1>1, <2>2 DEF Absent
  <2> QED BY <2>1, <2>3
<1>3. CASE t.kind = "grow" /\ m \notin Observable
  BY <1>3 DEF published
<1>4. CASE t.kind = "grow" /\ m \in Observable /\ t.pd = 0
  <2>1. (published(m, t) <=> size[m] >= t.to) /\ (published(m, t)' <=> size'[m] >= t.to)
    BY <1>4 DEF published
  <2> QED BY <1>4, <2>1 DEF CellKept
<1>5. CASE t.kind = "grow" /\ m \in Observable /\ t.pd # 0
  <2>1. (published(m, t) <=> chunks[m] >= t.ct) /\ (published(m, t)' <=> chunks'[m] >= t.ct)
    BY <1>5 DEF published
  <2>2. ~(chunks[m] >= t.ct) /\ chunks'[m] \in {chunks[m], Absent}
    BY <1>5, <2>1 DEF CellKept
  <2>3. ~(chunks'[m] >= t.ct)
    BY <1>1, <2>2 DEF Absent
  <2> QED BY <2>1, <2>3
<1> QED BY <1>1, <1>2, <1>3, <1>4, <1>5

\* A process that is left alone stays sure.
LEMMA StaysSure ==
    ASSUME StateOK, ResTold, NEW p \in Pid, Sure(p), cl'[p] = cl[p], fate'[p] = fate[p],
           \A m \in Memory : SoftFor(m, p) \/ NewTo(m, p),
           cl[p].ph = "abort" /\ InFlight(p) => CellKept(cl[p].res)
    PROVE  Sure(p)'
<1> DEFINE r == cl[p].res
<1>1. ASSUME NEW m \in Memory PROVE TxnFor(m, p)' /\ DoneFor(m, p)'
  BY <1>1 DEF Sure, TxnFor, DoneFor, SoftFor, NotOf, NewTo
<1>2. CASE r \notin Memory
  <2>1. cl[p].ans = "none" /\ cl[p].ph = "idle"
    BY <1>2 DEF ResTold
  <2> QED BY <1>1, <2>1 DEF Sure, PhaseFor, Believes
<1>3. CASE r \in Memory
  <2>1. SoftFor(r, p) /\ r \in Res /\ PhaseFor(p)
    BY <1>3, RowSets DEF Sure, NewTo
  <2>2. Live(r)' => Live(r)
    BY <2>1 DEF Live, SoftFor
  <2>3. InFlight(p)' => InFlight(p) /\ reg'[r].txn = reg[r].txn
    BY <2>1 DEF InFlight, SoftFor, NotOf
  <2>4. Live(r)' /\ InFlight(p) => InFlight(p)'
    BY <2>1 DEF InFlight, SoftFor, NotOf, Live
  <2>5. Live(r)' /\ outcome(p) = "ok" => outcome(p)' = "ok"
    BY <2>1 DEF outcome, SoftFor, Live
  <2>6. cl[p].ph = "abort" /\ Live(r)' /\ InFlight(p)' => ~published(r, reg[r].txn)'
    <3> SUFFICES ASSUME cl[p].ph = "abort", Live(r)', InFlight(p)'
                 PROVE  ~published(r, reg[r].txn)'
      OBVIOUS
    <3> DEFINE t == reg[r].txn
    <3>1. Live(r) /\ InFlight(p) /\ reg'[r].txn = t /\ CellKept(r) /\ ~published(r, t)
      BY <2>1, <2>2, <2>3 DEF PhaseFor
    <3>2. t \in Txn
      <4>1. reg[r] \in Row /\ t # None
        BY <2>1, <3>1 DEF StateOK, InFlight
      <4> QED BY <4>1, RowFields
    <3>3. PICK u \in Txn : u = t
      BY <3>2
    <3>4. ~published(r, u)'
      BY <1>3, <3>1, <3>3, StaysHidden
    <3> QED BY <3>1, <3>3, <3>4
  <2>7. Believes(p) => Believes(p)'
    BY <2>2 DEF Believes
  <2>8. PhaseFor(p)'
    BY <2>1, <2>2, <2>3, <2>4, <2>5, <2>6, <2>7 DEF PhaseFor
  <2> QED BY <1>1, <2>8 DEF Sure
<1> QED BY <1>2, <1>3

\* What it was, or is to be, answered stays true.
LEMMA StaysTrue ==
    ASSUME NEW p \in Pid, cl[p].res \in Memory, cl'[p] = cl[p], fate'[p] = fate[p],
           SoftFor(cl[p].res, p), NEW a, Truthful(p, a)
    PROVE  Truthful(p, a)'
<1> DEFINE r == cl[p].res
<1>1. Live(r)' => Live(r)
  BY DEF Live, SoftFor
<1>2. InFlight(p)' => InFlight(p)
  BY DEF InFlight, SoftFor, NotOf
<1> QED BY <1>1, <1>2 DEF Truthful

\* Rows kept but perhaps for their holders, their charges and the outcomes for
\* the dead, or marked, or gone.
Gentle(m) ==
    reg'[m] # None =>
        /\ reg[m] # None
        /\ reg'[m].txn = reg[m].txn
        /\ reg'[m].state = "live" => reg[m].state = "live"
        /\ \A p \in Pid : \/ reg'[m].done[p] = reg[m].done[p]
                          \/ p \notin alive /\ reg'[m].done[p] = None

\* A row that stays is gentle to everyone.
LEMMA GentleSame == ASSUME NEW m, reg'[m] = reg[m] PROVE Gentle(m)
BY DEF Gentle

\* So do cells.
LEMMA CellsSame == ASSUME NEW m, UNCHANGED cells PROVE CellKept(m)
BY DEF CellKept, cells

\* No caller moves, and no row changes to any of them.
LEMMA Passes ==
    ASSUME Inv, Told, UNCHANGED <<cl, fate>>, alive' \subseteq alive, minted \subseteq minted',
           \A m \in Memory : Gentle(m), \A m \in Memory \cap minted : CellKept(m)
    PROVE  /\ ResTold' /\ DoneTold' /\ \A p \in alive' : Sure(p)'
           /\ \A p \in alive' : cl[p].res \in Memory =>
                \A a : Truthful(p, a) => Truthful(p, a)'
<1>0. StateOK /\ ResTold /\ DoneTold /\ \A p \in alive : Sure(p)
  BY DEF Inv, Told
<1>1. ResTold'
  BY <1>0 DEF ResTold
<1>2. DoneTold'
  <2> SUFFICES ASSUME NEW m \in Memory, reg'[m] # None, reg'[m].txn # None
               PROVE  reg'[m].done[reg'[m].txn.pid] = None
    BY DEF DoneTold
  <2>1. Gentle(m) /\ reg[m] # None /\ reg'[m].txn = reg[m].txn
    BY DEF Gentle
  <2>2. reg[m] \in Row /\ reg[m].txn # None
    BY <1>0, <2>1, RowSets DEF StateOK
  <2>3. reg[m].txn.pid \in Pid /\ reg[m].done[reg[m].txn.pid] = None
    BY <1>0, <2>1, <2>2, RowEnds, Zenon DEF DoneTold
  <2> QED BY <2>1, <2>3 DEF Gentle
<1>3. \A p \in alive' : p \in Pid /\ p \in alive
  BY <1>0 DEF StateOK
<1>4. \A p \in alive' : \A m \in Memory : SoftFor(m, p)
  BY <1>3 DEF Gentle, SoftFor
<1>5. ASSUME NEW p \in alive' PROVE Sure(p)'
  <2>1. p \in Pid /\ Sure(p) /\ cl'[p] = cl[p] /\ fate'[p] = fate[p]
    BY <1>0, <1>3
  <2>2. cl[p].ph = "abort" => cl[p].res \in Memory \cap minted
    BY <1>0, <2>1 DEF ResTold
  <2> QED BY <1>0, <1>4, <2>1, <2>2, StaysSure
<1>6. ASSUME NEW p \in alive', cl[p].res \in Memory, NEW a, Truthful(p, a)
      PROVE  Truthful(p, a)'
  BY <1>3, <1>4, <1>6, StaysTrue
<1> QED BY <1>1, <1>2, <1>5, <1>6

\* Who is to be answered.
LEMMA Asking ==
    ASSUME Inv, NEW f \in Frames(todo), f.op \in Calls
    PROVE  /\ f.pid \in Pid /\ cl[f.pid].ph \in {"begin", "queued", "commit", "abort"}
           /\ cl[f.pid].res \in Memory
<1>1. PICK i \in 1 .. Len(todo) : f = todo[i]
  BY DEF Frames
<1>2. f \in Frame
  BY <1>1 DEF Inv, StateOK
<1>3. f.pid \in Pid
  BY <1>2, FrameFields DEF Calls
<1>4. cl[f.pid].ph \in {"begin", "queued", "commit", "abort"}
  BY <1>1 DEF Inv, CallsOK
<1> QED BY <1>3, <1>4 DEF Inv, WriterOK, WriterIs

\* A handler that ends no transaction goes on.
LEMMA TruePopped ==
    ASSUME Inv, Told, todo # <<>>, Head(todo).op \notin Ending, alive' \subseteq alive,
           NEW D, Frames(todo') \subseteq Under \cup D,
           \A f \in D : /\ f.op # "reply"
                        /\ f.op = "gone" => \A x \in f.set : x[2] \notin alive,
           \A f \in Under : f.op = "reply" /\ f.pid \in alive' /\ Truthful(f.pid, f.res) =>
               Truthful(f.pid, f.res)'
    PROVE  GoneTold' /\ ReplyTold'
<1>1. GoneTold'
  <2>1. ASSUME NEW f \in Frames(todo'), f.op = "gone", NEW x \in f.set PROVE x[2] \notin alive
    BY <2>1, UnderIn DEF Told, GoneTold
  <2> QED BY <2>1 DEF GoneTold
<1>2. ASSUME NEW f \in Frames(todo'), f.op = "reply", f.pid \in alive'
      PROVE  Truthful(f.pid, f.res)'
  <2>1. f \in Under /\ f \in Frames(todo)
    BY <1>2, UnderIn
  <2>2. Truthful(f.pid, f.res)
    BY <1>2, <2>1 DEF Told, ReplyTold, Awaits
  <2> QED BY <1>2, <2>1, <2>2
<1> QED BY <1>1, <1>2 DEF ReplyTold

\* Outside of a cleanup no memory is marked.
LEMMA NoneMarked ==
    ASSUME Inv, Told, up, todo = <<>> \/ Head(todo).op \notin Cleanup \cup {"retiring"},
           NEW m \in Memory, reg[m] # None
    PROVE  reg[m].state = "live"
<1>1. \A f \in Frames(todo) : f.op # "retiring"
  <2>1. \A i \in 1 .. Len(todo) : todo[i].op # "retiring"
    BY Settled
  <2> QED BY <2>1 DEF Frames
<1>2. reg[m].state # "retiring"
  BY <1>1 DEF Told, RetireTold, Cleanup
<1>3. reg[m] \in Row
  BY RowSets DEF Inv, StateOK
<1> QED BY <1>2, <1>3 DEF Row

\* No row is marked for reclaiming, none that was being reclaimed is told anew.
LEMMA StillUnmarked ==
    ASSUME Inv, Told, up, todo = <<>> \/ Head(todo).op \notin Cleanup \cup {"retiring"},
           \A m \in Memory : reg'[m] # None =>
               reg'[m].state = "live" \/ (reg[m] # None /\ reg'[m].state = reg[m].state)
    PROVE  RetireTold'
<1>1. \A m \in Memory : reg'[m] # None => reg'[m].state = "live"
  BY NoneMarked
<1> QED BY <1>1 DEF RetireTold

\* No first frame that HeadTold speaks of.
Tells == Ending \cup {"insert"}
\* A pending step that tells nobody anything.
LEMMA Hushed ==
    ASSUME todo' # <<>> => Head(todo').op \notin Tells PROVE HeadTold'
BY DEF HeadTold, Tells, Ending, Committing

\* The first frame that is left.
LEMMA HeadGoes ==
    ASSUME Inv, todo # <<>>
    PROVE  /\ Then(<<>>) => HeadTold'
           /\ \A a : a.op \notin Tells /\ Then(<<a>>) => HeadTold'
           /\ \A op \in Deferred : \A S : Then(Each(op, S)) => HeadTold'
           /\ \A a, op, S : a.op \notin Tells /\ Then(<<a>> \o Each(op, S)) => HeadTold'
<1>1. Then(<<>>) => HeadTold'
  <2>1. <<>> \in Seq({})
    OBVIOUS
  <2>2. Then(<<>>) /\ todo' # <<>> => Head(todo').op \notin Tells
    BY <2>1, HeadNext DEF Deferred, Tells, Ending, Committing
  <2> QED BY <2>2, Hushed
<1>2. ASSUME NEW a, a.op \notin Tells, Then(<<a>>) PROVE HeadTold'
  <2>1. Head(todo') = a
    BY <1>2, SpeaksOn
  <2> QED BY <1>2, <2>1, Hushed
<1>3. ASSUME NEW op \in Deferred, NEW S, Then(Each(op, S)) PROVE HeadTold'
  <2>1. CASE S = {}
    BY <1>1, <1>3, <2>1 DEF Each
  <2>2. CASE S # {}
    <3> DEFINE a == [op |-> op, set |-> S]
    <3>1. a.op \notin Tells
      BY DEF Deferred, Tells, Ending, Committing
    <3>2. Then(<<a>>)
      BY <1>3, <2>2 DEF Each
    <3> HIDE DEF a
    <3> QED BY <1>2, <3>1, <3>2
  <2> QED BY <2>1, <2>2
<1>4. ASSUME NEW a, NEW op, NEW S, a.op \notin Tells, Then(<<a>> \o Each(op, S))
      PROVE  HeadTold'
  <2>1. Head(todo') = a
    BY <1>4, SpeaksOn
  <2> QED BY <1>4, <2>1, Hushed
<1> QED BY <1>1, <1>2, <1>3, <1>4

\* A handler that neither answers nor ends a transaction goes on.
LEMMA GoesQuietly ==
    ASSUME Inv, Told, todo # <<>>, Head(todo).op \notin Ending,
           UNCHANGED <<cl, fate, alive>>, minted \subseteq minted',
           \A m \in Memory : Gentle(m) /\ CellKept(m),
           NEW D, Frames(todo') \subseteq Under \cup D,
           \A f \in D : /\ f.op # "reply"
                        /\ f.op = "gone" => \A x \in f.set : x[2] \notin alive,
           HeadTold', RetireTold'
    PROVE  Told'
<1>1. /\ ResTold' /\ DoneTold' /\ \A p \in alive' : Sure(p)'
      /\ \A p \in alive' : cl[p].res \in Memory =>
           \A a : Truthful(p, a) => Truthful(p, a)'
  BY Passes
<1>2. \A f \in Under : f.op = "reply" /\ f.pid \in alive' /\ Truthful(f.pid, f.res) =>
          Truthful(f.pid, f.res)'
  BY <1>1, Asking, UnderIn DEF Calls
<1>3. GoneTold' /\ ReplyTold'
  BY <1>2, TruePopped
<1> QED BY <1>1, <1>3 DEF Told

\* A row with other holders, marked, or with fewer outcomes for the dead.
LEMMA GentleRow ==
    ASSUME StateOK, NEW r \in Res, NEW w, reg' = [reg EXCEPT ![r] = w],
           r \in Memory => /\ reg[r] # None
                           /\ w.txn = reg[r].txn /\ w.state \in {reg[r].state, "retiring"}
                           /\ \A p \in Pid : \/ w.done[p] = reg[r].done[p]
                                             \/ p \notin alive /\ w.done[p] = None
    PROVE  /\ \A m \in Memory : Gentle(m)
           /\ \A m \in Memory \ {r} : reg'[m] = reg[m]
           /\ reg'[r] = w
<1>1. reg'[r] = w /\ \A m \in Res \ {r} : reg'[m] = reg[m]
  BY RowSet DEF StateOK
<1>2. Memory \subseteq Res
  BY RowSets
<1> QED BY <1>1, <1>2 DEF Gentle

\* Holders and marks of a row concern no transaction.
LEMMA GentleLabels ==
    ASSUME StateOK, NEW r \in Res, reg[r] # None, NEW h, NEW s, s \in {reg[r].state, "retiring"},
           \/ reg' = [reg EXCEPT ![r].holders = h]
           \/ reg' = [reg EXCEPT ![r].state = s]
           \/ reg' = [reg EXCEPT ![r].holders = h, ![r].state = s]
    PROVE  /\ \A m \in Memory : Gentle(m)
           /\ \A m \in Memory \ {r} : reg'[m] = reg[m]
           /\ reg'[r].state \in {reg[r].state, s}
<1>0. reg[r] \in Row
  BY DEF StateOK
<1>1. ASSUME NEW w, reg' = [reg EXCEPT ![r] = w], w.done = reg[r].done,
             w.txn = reg[r].txn, w.state \in {reg[r].state, s}
      PROVE  /\ \A m \in Memory : Gentle(m)
             /\ \A m \in Memory \ {r} : reg'[m] = reg[m]
             /\ reg'[r].state \in {reg[r].state, s}
  <2>1. /\ w.txn = reg[r].txn /\ w.state \in {reg[r].state, "retiring"}
        /\ \A p \in Pid : w.done[p] = reg[r].done[p]
    BY <1>1
  <2>2. /\ \A m \in Memory : Gentle(m)
        /\ \A m \in Memory \ {r} : reg'[m] = reg[m]
        /\ reg'[r] = w
    BY <1>1, <2>1, GentleRow
  <2> QED BY <1>1, <2>2
<1>2. CASE reg' = [reg EXCEPT ![r].holders = h]
  <2> DEFINE w == [reg[r] EXCEPT !.holders = h]
  <2>1. reg' = [reg EXCEPT ![r] = w]
    BY <1>2 DEF StateOK
  <2>2. w.done = reg[r].done /\ w.txn = reg[r].txn /\ w.state \in {reg[r].state, s}
    BY <1>0 DEF Row
  <2> HIDE DEF w
  <2> QED BY <2>1, <2>2, <1>1
<1>3. CASE reg' = [reg EXCEPT ![r].state = s]
  <2> DEFINE w == [reg[r] EXCEPT !.state = s]
  <2>1. reg' = [reg EXCEPT ![r] = w]
    BY <1>3 DEF StateOK
  <2>2. w.done = reg[r].done /\ w.txn = reg[r].txn /\ w.state \in {reg[r].state, s}
    BY <1>0 DEF Row
  <2> HIDE DEF w
  <2> QED BY <2>1, <2>2, <1>1
<1>4. CASE reg' = [reg EXCEPT ![r].holders = h, ![r].state = s]
  <2> DEFINE w == [reg[r] EXCEPT !.holders = h, !.state = s]
  <2>1. reg' = [reg EXCEPT ![r] = w]
    BY <1>4 DEF StateOK
  <2>2. w.done = reg[r].done /\ w.txn = reg[r].txn /\ w.state \in {reg[r].state, s}
    BY <1>0 DEF Row
  <2> HIDE DEF w
  <2> QED BY <2>1, <2>2, <1>1
<1> QED BY <1>2, <1>3, <1>4

-----------------------------------------------------------------------------
(* The handlers of holders, and reclaiming.                                *)

\* A cleanup goes on with the row that it marked.
LEMMA CleanupGoes ==
    ASSUME Inv, Told, up, todo # <<>>, Head(todo).op # "retiring", Under \subseteq Frames(todo'),
           \A m \in Memory : reg'[m] # None => reg[m] # None /\ reg'[m].state = reg[m].state,
           \A m \in Memory : Head(todo).op \in {"forget", "delete"} /\ Head(todo).res = m =>
               \/ reg'[m] = None
               \/ todo' # <<>> /\ Head(todo').op \in {"forget", "delete"} /\ Head(todo').res = m
    PROVE  RetireTold'
<1> SUFFICES ASSUME NEW m \in Memory, reg'[m] # None, reg'[m].state = "retiring",
                    ~(todo' # <<>> /\ Head(todo').op \in {"forget", "delete"}
                      /\ Head(todo').res = m)
             PROVE  \E f \in Frames(todo') : f.op = "retiring" /\ m \in f.set
  BY DEF RetireTold
<1>1. PICK f \in Frames(todo) : f.op = "retiring" /\ m \in f.set
  BY DEF Told, RetireTold
<1>2. PICK i \in 1 .. Len(todo) : f = todo[i]
  BY DEF Frames
<1>3. i # 1
  BY <1>1, <1>2
<1>4. f \in Under
  <2>1. i \in 2 .. Len(todo)
    BY <1>2, <1>3
  <2> QED BY <1>2, <2>1 DEF Under
<1> QED BY <1>1, <1>4

\* Nor does a step that writes no row.
LEMMA SameRowTold ==
    ASSUME Inv, Told, up, todo # <<>>, Head(todo).op \notin Cleanup \cup {"retiring"}, UNCHANGED reg
    PROVE  RetireTold' /\ \A m \in Memory : Gentle(m)
BY StillUnmarked, GentleSame

\* Steps on holders, ceilings and counts.
LEMMA HoldTold ==
    ASSUME Inv, Budget, Told,
           \/ SetCap \/ Retag \/ HeapShrunk \/ HeapGrown \/ Drop \/ Undone
           \/ ReconcileCounters
    PROVE  Told'
<1> DEFINE f == Head(todo)
<1>0. StateOK
  BY DEF Inv
<1>q. ASSUME todo # <<>>, up, f.op \notin Ending \cup Cleanup \cup {"retiring"},
             UNCHANGED <<cells, cl, fate, alive, minted>>,
             \A m \in Memory : reg'[m] = reg[m] \/ (Gentle(m) /\ reg'[m].state = reg[m].state),
             NEW D, Frames(todo') \subseteq Under \cup D,
             \A g \in D : g.op \notin {"reply", "gone"}, HeadTold'
      PROVE  Told'
  <2>1. \A m \in Memory : Gentle(m) /\ CellKept(m)
    BY <1>q, GentleSame, CellsSame
  <2>2. RetireTold'
    BY <1>q, StillUnmarked DEF Gentle
  <2> QED BY <1>q, <2>1, <2>2, GoesQuietly
<1>p. ASSUME todo # <<>>, up, f.op \notin Ending \cup Cleanup \cup {"retiring"},
             UNCHANGED <<cells, cl, fate, alive, minted>>,
             \A m \in Memory : reg'[m] = reg[m] \/ (Gentle(m) /\ reg'[m].state = reg[m].state),
             Then(<<>>)
      PROVE  Told'
  <2>1. PICK D : D = {}
    OBVIOUS
  <2>2. /\ Frames(todo') \subseteq Under \cup D /\ HeadTold'
        /\ \A g \in D : g.op \notin {"reply", "gone"}
    BY <1>p, <2>1, StackGoes, HeadGoes
  <2> QED BY <1>p, <2>2, <1>q
<1>o. \A op : op \in {"setcap", "retags", "shrunk", "grown", "drops", "undone", "reconcile"} =>
          op \notin Ending \cup Cleanup \cup {"retiring"}
  BY DEF Ending, Committing, Cleanup
<1>1. CASE SetCap
  <2>1. todo # <<>> /\ up /\ f.op = "setcap" /\ Then(<<>>)
        /\ UNCHANGED <<reg, cells, cl, fate, alive, minted>>
    BY <1>1 DEF SetCap, At, callers
  <2> QED BY <2>1, <1>o, <1>p
<1>2. CASE Retag
  <2>1. up /\ todo # <<>> /\ f \in Frame /\ f.op = "retags"
    BY <1>2, HeadFrame DEF Retag
  <2>2. f.set \subseteq Res \X Builds /\ UNCHANGED <<cells, cl, fate, alive, minted>>
    BY <1>2, <2>1, FrameFields DEF Retag, callers
  <2>3. PICK x \in f.set :
          /\ \/ /\ reg[x[1]] # None
                /\ reg' = [reg EXCEPT ![x[1]].holders = (@ \ {x[2]}) \cup {InstanceOf[x[2]]}]
             \/ UNCHANGED reg
          /\ Then(Each("retags", f.set \ {x}))
    BY <1>2 DEF Retag
  <2>4. PICK r, S : r = x[1] /\ S = f.set \ {x} /\ r \in Res
    BY <2>2
  <2>5. \A m \in Memory : reg'[m] = reg[m] \/ (Gentle(m) /\ reg'[m].state = reg[m].state)
    <3>1. CASE UNCHANGED reg
      BY <3>1
    <3>2. ASSUME NEW h, reg[r] # None, reg' = [reg EXCEPT ![r].holders = h]
          PROVE  \A m \in Memory : reg'[m] = reg[m] \/ (Gentle(m) /\ reg'[m].state = reg[m].state)
      <4>1. PICK s : s = reg[r].state
        OBVIOUS
      <4> QED BY <1>0, <2>4, <3>2, <4>1, GentleLabels
    <3> QED BY <2>3, <2>4, <3>1, <3>2
  <2>6. "retags" \in Deferred /\ Then(Each("retags", S))
    BY <2>3, <2>4 DEF Deferred
  <2>7. HeadTold' /\ Frames(todo') \subseteq Under \cup {Roll("retags", S)}
    BY <2>1, <2>6, HeadGoes, StackGoes
  <2>8. \A g \in {Roll("retags", S)} : g.op \notin {"reply", "gone"}
    BY DEF Roll
  <2> QED BY <1>o, <2>1, <2>2, <2>5, <2>7, <2>8, <1>q
<1>3. CASE HeapShrunk
  <2>1. todo # <<>> /\ up /\ f.op = "shrunk" /\ Then(<<>>)
        /\ UNCHANGED <<reg, cells, cl, fate, alive, minted>>
    BY <1>3 DEF HeapShrunk, At, callers
  <2> QED BY <2>1, <1>o, <1>p
<1>4. CASE HeapGrown
  <2>1. up /\ todo # <<>> /\ f.op = "grown" /\ Then(<<>>)
        /\ UNCHANGED <<cells, cl, fate, alive, minted>>
    BY <1>4 DEF HeapGrown, At, callers
  <2>2. f.res \in Res /\ f.res \notin Memory
    BY <2>1, RowSets DEF Budget, FramesFit
  <2>3. reg' = [reg EXCEPT ![f.res] = [reg[f.res] EXCEPT !.pages = f.n]]
    BY <1>4 DEF HeapGrown
  <2>4. \A m \in Memory : reg'[m] = reg[m]
    BY <1>0, <2>2, <2>3, RowSet, RowSets
  <2> QED BY <2>1, <2>4, <1>o, <1>p
<1>5. CASE Drop
  <2>1. todo # <<>> /\ up /\ f.op = "drops" /\ UNCHANGED <<reg, cells, cl, fate, alive, minted>>
    BY <1>5 DEF Drop, At, callers
  <2>2. PICK x : \/ Then(<<[op |-> "unhold", res |-> x[1], tok |-> x[2]]>>
                         \o Each("drops", f.set \ {x}))
                 \/ Then(Each("drops", f.set \ {x}))
    BY <1>5 DEF Drop, DoFor
  <2>3. PICK S, a : S = f.set \ {x} /\ a = [op |-> "unhold", res |-> x[1], tok |-> x[2]]
    OBVIOUS
  <2>4. "drops" \in Deferred /\ a.op \notin Tells /\ a.op \notin {"reply", "gone"}
    BY <2>3 DEF Deferred, Tells, Ending, Committing
  <2>5. HeadTold' /\ Frames(todo') \subseteq Under \cup {a, Roll("drops", S)}
    <3>1. CASE Then(<<a>> \o Each("drops", S))
      BY <2>1, <2>4, <3>1, HeadGoes, StackGoes
    <3>2. CASE Then(Each("drops", S))
      <4>1. HeadTold' /\ Frames(todo') \subseteq Under \cup {Roll("drops", S)}
        BY <2>1, <2>4, <3>2, HeadGoes, StackGoes
      <4> QED BY <4>1
    <3> QED BY <2>2, <2>3, <3>1, <3>2
  <2>6. \A g \in {a, Roll("drops", S)} : g.op \notin {"reply", "gone"}
    BY <2>4 DEF Roll
  <2> QED BY <1>o, <2>1, <2>5, <2>6, <1>q
<1>6. CASE Undone
  <2>1. todo # <<>> /\ up /\ f.op = "undone" /\ UNCHANGED <<reg, cells, cl, fate, alive, minted>>
    BY <1>6 DEF Undone, At, callers
  <2>2. PICK a : a = [op |-> "next", res |-> f.res]
    OBVIOUS
  <2>3. Then(<<a>>) /\ a.op \notin Tells /\ a.op \notin {"reply", "gone"}
    BY <1>6, <2>2 DEF Undone, Do, Tells, Ending, Committing
  <2>4. HeadTold' /\ Frames(todo') \subseteq Under \cup {a}
    BY <2>1, <2>3, HeadGoes, StackGoes
  <2> QED BY <1>o, <2>1, <2>3, <2>4, <1>q
<1>7. CASE ReconcileCounters
  <2>1. todo # <<>> /\ up /\ f.op = "reconcile" /\ Then(<<>>)
        /\ UNCHANGED <<reg, cells, cl, fate, alive, minted>>
    BY <1>7 DEF ReconcileCounters, At, callers
  <2> QED BY <2>1, <1>o, <1>p
<1> QED BY <1>1, <1>2, <1>3, <1>4, <1>5, <1>6, <1>7

\* A resource that loses its last holder, and its row.
LEMMA ReclaimTold ==
    ASSUME Inv, Told,
           Unhold \/ ForgetMeta \/ DeleteRow \/ GiveBack \/ AfterRetire \/ SweepImages
    PROVE  Told'
<1> DEFINE f == Head(todo)
<1>0. StateOK /\ HeadOK
  BY DEF Inv
<1>q. ASSUME todo # <<>>, f.op \notin Ending,
             UNCHANGED <<cl, fate, alive, minted>>,
             \A m \in Memory : Gentle(m) /\ CellKept(m),
             NEW D, Frames(todo') \subseteq Under \cup D,
             \A g \in D : g.op \notin {"reply", "gone"}, HeadTold', RetireTold'
      PROVE  Told'
  BY <1>q, GoesQuietly
<1>a. ASSUME todo # <<>>, NEW a, a.op \notin Tells \cup {"reply", "gone"}, Then(<<a>>)
      PROVE  /\ HeadTold' /\ Frames(todo') = Under \cup {a} /\ Head(todo') = a /\ todo' # <<>>
  BY <1>a, HeadGoes, StackGoes, SpeaksOn
<1>e. ASSUME todo # <<>>, Then(<<>>)
      PROVE  HeadTold' /\ Frames(todo') = Under
  BY <1>e, HeadGoes, StackGoes
<1>o. \A op \in {"unhold", "forget", "delete", "giveback", "uncount", "sweep"} :
          /\ op \notin Ending \cup {"retiring"}
          /\ op \notin Tells \cup {"reply", "gone"}
  BY DEF Ending, Committing, Tells
<1>1. CASE Unhold
  <2>1. up /\ todo # <<>> /\ f \in Frame /\ f.op = "unhold"
    BY <1>1, HeadFrame DEF Unhold
  <2>2. PICK r \in Res : r = f.res
    BY <2>1, FrameFields
  <2>3. reg[r] # None /\ UNCHANGED <<cells, cl, fate, alive, minted>>
    BY <1>0, <1>1, <2>1, <2>2 DEF HeadOK, Unhold, callers
  <2>a. PICK a : a = [op |-> "forget", res |-> r]
    OBVIOUS
  <2>4. PICK h, s :
          /\ reg' = [reg EXCEPT ![r].holders = h, ![r].state = s]
          /\ \/ s = reg[r].state /\ Then(<<>>)
             \/ s = "retiring" /\ Then(<<a>>)
    BY <1>1, <2>2, <2>a DEF Unhold, Do
  <2>5. /\ \A m \in Memory : Gentle(m)
        /\ \A m \in Memory \ {r} : reg'[m] = reg[m]
        /\ reg'[r].state \in {reg[r].state, s}
    BY <1>0, <2>3, <2>4, GentleLabels
  <2>6. a.op \notin Tells \cup {"reply", "gone"} /\ a.op = "forget" /\ a.res = r
    BY <2>a, <1>o
  <2>7. HeadTold' /\ Frames(todo') \subseteq Under \cup {a}
    BY <2>1, <2>4, <2>6, <1>a, <1>e
  <2>8. RetireTold'
    <3>0. f.op \notin Cleanup \cup {"retiring"}
      BY <2>1 DEF Cleanup
    <3>1. CASE s = reg[r].state
      <4>1. \A m \in Memory : reg'[m] # None =>
               reg[m] # None /\ reg'[m].state = reg[m].state
        BY <2>3, <2>5, <3>1
      <4> QED BY <2>1, <3>0, <4>1, StillUnmarked
    <3>2. CASE Then(<<a>>)
      <4>1. todo' # <<>> /\ Head(todo') = a
        BY <2>1, <2>6, <3>2, <1>a
      <4>2. \A m \in Memory \ {r} : reg'[m] # None => reg'[m].state = "live"
        BY <2>1, <2>5, <3>0, NoneMarked
      <4> QED BY <2>6, <4>1, <4>2 DEF RetireTold
    <3> QED BY <2>4, <3>1, <3>2
  <2>9. \A m \in Memory : CellKept(m)
    BY <2>3, CellsSame
  <2>10. PICK D : D = {a}
    OBVIOUS
  <2>11. Frames(todo') \subseteq Under \cup D /\ \A g \in D : g.op \notin {"reply", "gone"}
    BY <2>6, <2>7, <2>10
  <2>12. f.op \notin Ending
    BY <1>o, <2>1
  <2> QED BY <2>1, <2>3, <2>5, <2>7, <2>8, <2>9, <2>11, <2>12, <1>q
<1>2. CASE ForgetMeta
  <2>1. up /\ todo # <<>> /\ f \in Frame /\ f.op = "forget"
    BY <1>2, HeadFrame DEF ForgetMeta
  <2>2. PICK r \in Res : r = f.res
    BY <2>1, FrameFields
  <2>a. PICK a : a = [op |-> "delete", res |-> r]
    OBVIOUS
  <2>3. a.op = "delete" /\ a.res = r
    BY <2>a
  <2>4. UNCHANGED <<reg, size, cl, fate, alive, minted>> /\ Then(<<a>>)
    BY <1>2, <2>2, <2>a DEF ForgetMeta, callers, Do
  <2>5. HeadTold' /\ Frames(todo') = Under \cup {a} /\ Head(todo') = a /\ todo' # <<>>
    BY <1>o, <2>1, <2>3, <2>4, <1>a
  <2>6. \A m \in Memory : Gentle(m) /\ CellKept(m)
    <3>1. \A m \in Memory : arena'[m] \in {arena[m], Absent} /\ chunks'[m] \in {chunks[m], Absent}
      BY <1>0, <1>2, <2>2 DEF ForgetMeta, StateOK
    <3> QED BY <2>4, <3>1, GentleSame DEF CellKept
  <2>7. RetireTold'
    BY <2>1, <2>2, <2>3, <2>4, <2>5, CleanupGoes
  <2> QED BY <1>o, <2>1, <2>3, <2>4, <2>5, <2>6, <2>7, <1>q
<1>3. CASE DeleteRow
  <2>1. up /\ todo # <<>> /\ f \in Frame /\ f.op = "delete"
    BY <1>3, HeadFrame DEF DeleteRow
  <2>2. PICK r \in Res : r = f.res
    BY <2>1, FrameFields
  <2>a. PICK a : a = [op |-> "giveback", res |-> r, n |-> charged(r, reg[r])]
    OBVIOUS
  <2>3. a.op = "giveback"
    BY <2>a
  <2>4. UNCHANGED <<cells, cl, fate, alive, minted>> /\ Then(<<a>>)
        /\ reg' = [reg EXCEPT ![r] = None]
    BY <1>3, <2>2, <2>a DEF DeleteRow, callers
  <2>5. HeadTold' /\ Frames(todo') = Under \cup {a}
    BY <1>o, <2>1, <2>3, <2>4, <1>a
  <2>6. reg'[r] = None /\ \A m \in Res \ {r} : reg'[m] = reg[m]
    BY <1>0, <2>4, RowSet
  <2>7. \A m \in Memory : Gentle(m) /\ CellKept(m)
    BY <2>4, <2>6, RowSets, GentleSame, CellsSame DEF Gentle
  <2>8. RetireTold'
    BY <2>1, <2>2, <2>5, <2>6, RowSets, CleanupGoes
  <2> QED BY <1>o, <2>1, <2>3, <2>4, <2>5, <2>7, <2>8, <1>q
<1>4. CASE GiveBack
  <2>1. up /\ todo # <<>> /\ f.op = "giveback" /\ UNCHANGED <<reg, cells, cl, fate, alive, minted>>
    BY <1>4 DEF GiveBack, At, callers
  <2>a. PICK a : a = [op |-> "uncount", res |-> f.res]
    OBVIOUS
  <2>2. a.op = "uncount"
    BY <2>a
  <2>3. Then(<<a>>) \/ Then(<<>>)
    BY <1>4, <2>a DEF GiveBack, Do
  <2>4. HeadTold' /\ Frames(todo') \subseteq Under \cup {a} /\ Under \subseteq Frames(todo')
    BY <1>o, <2>1, <2>2, <2>3, <1>a, <1>e
  <2>5. RetireTold'
    BY <2>1, <2>4, CleanupGoes
  <2>6. \A m \in Memory : Gentle(m) /\ CellKept(m)
    BY <2>1, GentleSame, CellsSame
  <2> QED BY <1>o, <2>1, <2>2, <2>4, <2>5, <2>6, <1>q
<1>5. CASE AfterRetire
  <2>1. up /\ todo # <<>> /\ f \in Frame /\ f.op = "uncount" /\ UNCHANGED <<cells, cl, fate, alive, minted>>
    BY <1>5, HeadFrame DEF AfterRetire, callers
  <2>2. f.res \in Memory /\ ImageOf[f.res] # None
    BY <1>0, <2>1, FrameFields DEF HeadOK
  <2>3. PICK i \in Image : i = ImageOf[f.res]
    BY <2>2, ConstantsOK
  <2>a. PICK a : a = [op |-> "forget", res |-> i]
    OBVIOUS
  <2>4. a.op = "forget"
    BY <2>a
  <2>5. Then(<<a>>) \/ Then(<<>>)
    BY <1>5, <2>3, <2>a DEF AfterRetire, Do
  <2>6. HeadTold' /\ Frames(todo') \subseteq Under \cup {a} /\ Under \subseteq Frames(todo')
    BY <1>o, <2>1, <2>4, <2>5, <1>a, <1>e
  <2>7. \A m \in Memory : reg'[m] = reg[m]
    <3>1. i \in Res /\ i \notin Memory
      BY <2>3, RowSets, ConstantsOK
    <3>2. UNCHANGED reg \/ reg' = [reg EXCEPT ![i].state = "retiring"]
      BY <1>5, <2>3, Zenon DEF AfterRetire
    <3> QED BY <1>0, <3>1, <3>2, RowSets DEF StateOK
  <2>8. RetireTold'
    BY <2>1, <2>6, <2>7, CleanupGoes
  <2>9. \A m \in Memory : Gentle(m) /\ CellKept(m)
    BY <2>1, <2>7, GentleSame, CellsSame
  <2> QED BY <1>o, <2>1, <2>4, <2>6, <2>8, <2>9, <1>q
<1>6. CASE SweepImages
  <2>1. up /\ todo # <<>> /\ f \in Frame /\ f.op = "sweep" /\ UNCHANGED <<cells, cl, fate, alive, minted>>
    BY <1>6, HeadFrame DEF SweepImages, callers
  <2>2. f.set \subseteq Res
    BY <2>1, FrameFields
  <2>3. PICK i \in f.set :
          \/ UNCHANGED reg /\ Then(Each("sweep", f.set \ {i}))
          \/ /\ reg[i] # None /\ reg' = [reg EXCEPT ![i].state = "retiring"]
             /\ Then(<<[op |-> "forget", res |-> i]>> \o Each("sweep", f.set \ {i}))
    BY <1>6 DEF SweepImages, Do
  <2>a. PICK S, a : S = f.set \ {i} /\ a = [op |-> "forget", res |-> i]
    OBVIOUS
  <2>4. a.op = "forget" /\ a.res = i
    BY <2>a
  <2>5. f.op \notin Cleanup \cup {"retiring"} /\ "sweep" \in Deferred /\ i \in Res
    BY <2>1, <2>2 DEF Cleanup, Deferred
  <2>6. \A g \in {a, Roll("sweep", S)} : g.op \notin {"reply", "gone"}
    BY <2>4 DEF Roll
  <2>7. \A m \in Memory : CellKept(m)
    BY <2>1, CellsSame
  <2>8. CASE UNCHANGED reg /\ Then(Each("sweep", S))
    <3>1. HeadTold' /\ Frames(todo') \subseteq Under \cup {a, Roll("sweep", S)}
      <4>1. HeadTold' /\ Frames(todo') \subseteq Under \cup {Roll("sweep", S)}
        BY <2>1, <2>5, <2>8, HeadGoes, StackGoes
      <4> QED BY <4>1
    <3>2. RetireTold' /\ \A m \in Memory : Gentle(m)
      BY <2>1, <2>5, <2>8, SameRowTold
    <3> QED BY <1>o, <2>1, <2>6, <2>7, <3>1, <3>2, <1>q
  <2>9. CASE /\ reg[i] # None /\ reg' = [reg EXCEPT ![i].state = "retiring"]
             /\ Then(<<a>> \o Each("sweep", S))
    <3>1. HeadTold' /\ Frames(todo') \subseteq Under \cup {a, Roll("sweep", S)}
          /\ todo' # <<>> /\ Head(todo') = a
      BY <1>o, <2>1, <2>4, <2>9, HeadGoes, StackGoes, SpeaksOn
    <3>2. /\ \A m \in Memory : Gentle(m)
          /\ \A m \in Memory \ {i} : reg'[m] = reg[m]
      BY <1>0, <2>5, <2>9, GentleLabels
    <3>3. RetireTold'
      <4>1. \A m \in Memory \ {i} : reg'[m] # None => reg'[m].state = "live"
        BY <2>1, <2>5, <3>2, NoneMarked
      <4> QED BY <2>4, <3>1, <4>1 DEF RetireTold
    <3> QED BY <1>o, <2>1, <2>6, <2>7, <3>1, <3>2, <3>3, <1>q
  <2> QED BY <2>3, <2>a, <2>8, <2>9
<1> QED BY <1>1, <1>2, <1>3, <1>4, <1>5, <1>6

-----------------------------------------------------------------------------
(* A new keeper, and the death of a writer.                                *)

\* A handler for a set goes on with the rest of the set.
LEMMA RestStands ==
    ASSUME Inv, todo # <<>>, NEW op, NEW S,
           \/ Then(Each(op, S)) \/ \E a : Then(<<a>> \o Each(op, S))
    PROVE  S # {} => Roll(op, S) \in Frames(todo')
<1> SUFFICES ASSUME S # {} PROVE Roll(op, S) \in Frames(todo')
  OBVIOUS
<1>1. PICK b : b = Roll(op, S) /\ Each(op, S) = <<b>>
  BY DEF Each, Roll
<1>2. CASE Then(<<b>>)
  BY <1>1, <1>2, StackGoes
<1>3. ASSUME NEW a, Then(<<a>> \o <<b>>) PROVE b \in Frames(todo')
  <2>1. a \in {a, b} /\ <<b>> \in Seq({a, b}) /\ Len(<<b>>) = 1 /\ <<b>>[1] = b
    OBVIOUS
  <2>2. PICK s : s = <<a>> \o <<b>>
    OBVIOUS
  <2>3. s \in Seq({a, b}) /\ Len(s) = 2 /\ s[2] = b
    BY <2>1, <2>2, Prepended
  <2>4. b \in Frames(s)
    BY <2>3 DEF Frames
  <2> QED BY <1>3, <2>2, <2>3, <2>4, FramesThen
<1> QED BY <1>1, <1>2, <1>3

\* Steps put on an empty stack.
LEMMA NothingFirst ==
    ASSUME NEW op, NEW S PROVE <<>> \o Each(op, S) = Each(op, S)
<1> DEFINE b == [op |-> op, set |-> S]
<1>1. Each(op, S) = <<>> \/ Each(op, S) = <<b>>
  BY DEF Each
<1> HIDE DEF b
<1>2. <<>> \o <<b>> = <<b>> /\ <<>> \o <<>> = <<>>
  OBVIOUS
<1> QED BY <1>1, <1>2

\* init/1 reads the rows again, and a dead writer is settled.
LEMMA RecoveryTold ==
    ASSUME Inv, Told, FinishRetiring \/ RecoverRow \/ WriterGone
    PROVE  Told'
<1> DEFINE f == Head(todo)
<1>0. StateOK
  BY DEF Inv
<1>q. ASSUME todo # <<>>, f.op \notin Ending, NEW op \in Deferred \ {"reply"}, NEW S, NEW a,
             a.op \notin {"reply", "gone"},
             \/ Then(Each(op, S))
             \/ /\ Then(<<a>> \o Each(op, S))
                /\ \/ a.op \notin Tells
                   \/ a.op = "settle" /\ reg'[a.res].txn.pid \notin alive,
             op = "gone" => \A x \in S : x[2] \notin alive,
             UNCHANGED <<cells, cl, fate, alive, minted>>,
             \A m \in Memory : Gentle(m), RetireTold'
      PROVE  Told'
  <2>1. \A m \in Memory : CellKept(m)
    BY <1>q, CellsSame
  <2>2. Frames(todo') \subseteq Under \cup {a, Roll(op, S)}
    <3>1. CASE Then(Each(op, S))
      <4>1. Frames(todo') \subseteq Under \cup {Roll(op, S)}
        BY <1>q, <3>1, StackGoes
      <4> QED BY <4>1
    <3>2. CASE Then(<<a>> \o Each(op, S))
      BY <1>q, <3>2, StackGoes
    <3> QED BY <1>q, <3>1, <3>2
  <2>3. HeadTold'
    <3>1. CASE \/ Then(Each(op, S))
               \/ Then(<<a>> \o Each(op, S)) /\ a.op \notin Tells
      BY <1>q, <3>1, HeadGoes
    <3>2. CASE /\ Then(<<a>> \o Each(op, S)) /\ a.op = "settle"
               /\ reg'[a.res].txn.pid \notin alive
      <4>1. todo' # <<>> /\ Head(todo') = a /\ alive' = alive
        BY <1>q, <3>2, SpeaksOn
      <4> QED BY <3>2, <4>1 DEF HeadTold, Committing
    <3> QED BY <1>q, <3>1, <3>2
  <2>4. \A g \in {a, Roll(op, S)} : /\ g.op # "reply"
                                    /\ g.op = "gone" => \A x \in g.set : x[2] \notin alive
    BY <1>q DEF Roll
  <2> QED BY <1>q, <2>1, <2>2, <2>3, <2>4, GoesQuietly
<1>o. \A op \in {"retiring", "recover", "gone"} :
         op \notin Ending /\ op \in Deferred \ {"reply"} /\ op \notin Cleanup
  BY DEF Ending, Committing, Deferred, Cleanup
<1>1. CASE FinishRetiring
  <2>1. up /\ todo # <<>> /\ f.op = "retiring"
        /\ UNCHANGED <<reg, cells, cl, fate, alive, minted>>
    BY <1>1 DEF FinishRetiring, At, durable, callers, cells
  <2>2. PICK r \in f.set : \/ reg[r] = None /\ Then(<<>> \o Each("retiring", f.set \ {r}))
                           \/ Then(<<[op |-> "forget", res |-> r]>>
                                   \o Each("retiring", f.set \ {r}))
    BY <1>1 DEF FinishRetiring, Do
  <2>a. PICK S, a : S = f.set \ {r} /\ a = [op |-> "forget", res |-> r]
    OBVIOUS
  <2>3. a.op = "forget" /\ a.res = r
    BY <2>a
  <2>4. a.op \notin Tells /\ a.op \notin {"reply", "gone"}
    BY <2>3 DEF Tells, Ending, Committing
  <2>5. \/ reg[r] = None /\ Then(Each("retiring", S))
        \/ Then(<<a>> \o Each("retiring", S))
    BY <2>2, <2>a, NothingFirst
  <2>6. RetireTold'
    <3> SUFFICES ASSUME NEW m \in Memory, reg[m] # None, reg[m].state = "retiring"
                 PROVE  \/ todo' # <<>> /\ Head(todo').op = "forget" /\ Head(todo').res = m
                        \/ \E g \in Frames(todo') : g.op = "retiring" /\ m \in g.set
      BY <2>1 DEF RetireTold
    <3>1. PICK g \in Frames(todo) : g.op = "retiring" /\ m \in g.set
      BY <2>1 DEF Told, RetireTold
    <3>2. PICK i \in 1 .. Len(todo) : g = todo[i]
      BY DEF Frames
    <3>3. i = 1
      BY <1>o, <2>1, <3>1, <3>2 DEF Inv, RetiringOK
    <3>4. g = f
      BY <2>1, <3>2, <3>3
    <3>5. CASE m = r
      <4>1. Then(<<a>> \o Each("retiring", S))
        BY <2>5, <3>5
      <4>2. todo' # <<>> /\ Head(todo') = a
        BY <2>1, <4>1, SpeaksOn
      <4> QED BY <2>3, <3>5, <4>2
    <3>6. CASE m # r
      <4>1. m \in S /\ S # {}
        BY <2>a, <3>1, <3>4, <3>6
      <4>2. Roll("retiring", S) \in Frames(todo')
        BY <2>1, <2>5, <4>1, RestStands
      <4> QED BY <4>1, <4>2 DEF Roll
    <3> QED BY <3>5, <3>6
  <2>7. \A m \in Memory : Gentle(m)
    BY <2>1, GentleSame
  <2> QED BY <1>o, <2>1, <2>4, <2>5, <2>6, <2>7, <1>q
<1>2. CASE RecoverRow
  <2>1. up /\ todo # <<>> /\ f \in Frame /\ f.op = "recover"
    BY <1>2, HeadFrame DEF RecoverRow
  <2>2. f.set \subseteq Memory /\ UNCHANGED <<cells, cl, fate, alive, minted>>
    BY <1>2, <2>1, FrameFields DEF RecoverRow, callers
  <2>3. PICK r \in f.set :
          LET kept == {p \in alive : reg[r].done[p] # None} IN
          \/ UNCHANGED reg /\ Then(Each("recover", f.set \ {r}))
          \/ /\ reg[r] # None
             /\ reg' = [reg EXCEPT ![r].done =
                          [p \in Pid |-> IF p \in kept THEN @[p] ELSE None]]
             /\ \/ Then(<<>> \o Each("recover", f.set \ {r}))
                \/ /\ Then(<<[op |-> "settle", res |-> r]>> \o Each("recover", f.set \ {r}))
                   /\ reg[r].txn.pid \notin alive
    BY <1>2 DEF RecoverRow, Do, Abandoned
  <2>a. PICK S, a : S = f.set \ {r} /\ a = [op |-> "settle", res |-> r]
    OBVIOUS
  <2>4. a.op = "settle" /\ a.res = r
    BY <2>a
  <2>5. r \in Res /\ r \in Memory
    BY <2>2, RowSets
  <2>6. CASE UNCHANGED reg /\ Then(Each("recover", S))
    <3>1. RetireTold' /\ \A m \in Memory : Gentle(m)
      BY <1>o, <2>1, <2>6, SameRowTold
    <3> QED BY <1>o, <2>1, <2>2, <2>4, <2>6, <3>1, <1>q
  <2> DEFINE kept == {p \in alive : reg[r].done[p] # None}
             d == [p \in Pid |-> IF p \in kept THEN reg[r].done[p] ELSE None]
             w == [reg[r] EXCEPT !.done = d]
  <2>7. CASE /\ reg[r] # None /\ reg' = [reg EXCEPT ![r] = w]
             /\ \/ Then(Each("recover", S))
                \/ Then(<<a>> \o Each("recover", S)) /\ reg[r].txn.pid \notin alive
    <3>1. reg[r] \in Row
      BY <1>0, <2>5, <2>7 DEF StateOK
    <3>2. /\ w.txn = reg[r].txn /\ w.state = reg[r].state
          /\ \A p \in Pid : \/ w.done[p] = reg[r].done[p]
                            \/ p \notin alive /\ w.done[p] = None
      BY <3>1 DEF Row
    <3> HIDE DEF w, d, kept
    <3>3. /\ \A m \in Memory : Gentle(m)
          /\ \A m \in Memory \ {r} : reg'[m] = reg[m]
          /\ reg'[r] = w
      BY <1>0, <2>5, <2>7, <3>2, GentleRow
    <3>4. RetireTold'
      BY <1>o, <2>1, <2>7, <3>2, <3>3, StillUnmarked
    <3>5. reg'[a.res].txn = reg[r].txn
      BY <2>4, <3>2, <3>3
    <3> QED BY <1>o, <2>1, <2>2, <2>4, <2>7, <3>3, <3>4, <3>5, <1>q
  <2> QED BY <2>3, <2>a, <2>6, <2>7, NothingFirst
<1>3. CASE WriterGone
  <2>1. up /\ todo # <<>> /\ f \in Frame /\ f.op = "gone" /\ f \in Frames(todo)
    <3>1. up /\ todo # <<>> /\ f \in Frame /\ f.op = "gone"
      BY <1>3, HeadFrame DEF WriterGone
    <3>2. 1 \in 1 .. Len(todo) /\ f = todo[1]
      BY <1>0, <3>1 DEF StateOK
    <3> QED BY <3>1, <3>2 DEF Frames
  <2>2. f.set \subseteq Memory \X Pid /\ UNCHANGED <<cells, cl, fate, alive, minted>>
    BY <1>3, <2>1, FrameFields DEF WriterGone, callers
  <2>3. PICK x \in f.set :
          \/ UNCHANGED reg /\ Then(Each("gone", f.set \ {x}))
          \/ /\ reg[x[1]] # None /\ reg' = [reg EXCEPT ![x[1]].done[x[2]] = None]
             /\ \/ Then(<<>> \o Each("gone", f.set \ {x}))
                \/ /\ Then(<<[op |-> "settle", res |-> x[1]]>> \o Each("gone", f.set \ {x}))
                   /\ reg[x[1]].txn.pid = x[2]
    BY <1>3 DEF WriterGone, Do
  <2>a. PICK r, q, S : S = f.set \ {x} /\ r = x[1] /\ q = x[2]
    OBVIOUS
  <2>b. PICK a : a = [op |-> "settle", res |-> r]
    OBVIOUS
  <2>4. a.op = "settle" /\ a.res = r
    BY <2>b
  <2>5. r \in Res /\ r \in Memory /\ q \in Pid /\ q \notin alive /\ \A y \in S : y[2] \notin alive
    BY <2>1, <2>2, <2>a, RowSets DEF Told, GoneTold
  <2>6. CASE UNCHANGED reg /\ Then(Each("gone", S))
    <3>1. RetireTold' /\ \A m \in Memory : Gentle(m)
      BY <1>o, <2>1, <2>6, SameRowTold
    <3> QED BY <1>o, <2>1, <2>2, <2>4, <2>5, <2>6, <3>1, <1>q
  <2> DEFINE w == [reg[r] EXCEPT !.done[q] = None]
  <2>7. CASE /\ reg[r] # None /\ reg' = [reg EXCEPT ![r] = w]
             /\ \/ Then(Each("gone", S))
                \/ Then(<<a>> \o Each("gone", S)) /\ reg[r].txn.pid \notin alive
    <3>1. reg[r] \in Row
      BY <1>0, <2>5, <2>7 DEF StateOK
    <3>2. /\ w.txn = reg[r].txn /\ w.state = reg[r].state
          /\ \A p \in Pid : \/ w.done[p] = reg[r].done[p]
                            \/ p \notin alive /\ w.done[p] = None
      BY <2>5, <3>1 DEF Row
    <3> HIDE DEF w
    <3>3. /\ \A m \in Memory : Gentle(m)
          /\ \A m \in Memory \ {r} : reg'[m] = reg[m]
          /\ reg'[r] = w
      BY <1>0, <2>5, <2>7, <3>2, GentleRow
    <3>4. RetireTold'
      BY <1>o, <2>1, <2>7, <3>2, <3>3, StillUnmarked
    <3>5. reg'[a.res].txn = reg[r].txn
      BY <2>4, <3>2, <3>3
    <3> QED BY <1>o, <2>1, <2>2, <2>4, <2>5, <2>7, <3>3, <3>4, <3>5, <1>q
  <2> QED BY <2>3, <2>a, <2>b, <2>5, <2>6, <2>7, NothingFirst
<1> QED BY <1>1, <1>2, <1>3

-----------------------------------------------------------------------------
(* The end of a transaction.                                               *)

\* The transaction at the head of a handler.
LEMMA EndingOf ==
    ASSUME Inv, Told, todo # <<>>, Head(todo).op \in Ending
    PROVE  LET r == Head(todo).res  t == reg[r].txn IN
           /\ r \in Memory /\ r \in Res /\ reg[r] \in Row /\ t \in Txn /\ t # None
           /\ t.pid \in Pid
           /\ \A p \in alive : t.pid = p => cl[p].res = r /\ cl[p].op = t.op /\ InFlight(p)
           /\ \A p \in Pid : cl[p].res = r /\ InFlight(p) => t.pid = p
<1> DEFINE r == Head(todo).res
<1>1. Head(todo) \in Frame
  <2>1. todo \in Seq(Frame)
    BY DEF Inv, StateOK
  <2> QED BY <2>1
<1>2. r \in Memory /\ r \in Res
  BY <1>1, FrameFields, RowSets DEF Ending, Committing
<1>3. reg[r] # None /\ reg[r].txn # None
  BY DEF Inv, HeadOK, Ending, Committing
<1>4. reg[r] \in Row
  BY <1>2, <1>3 DEF Inv, StateOK
<1>5. reg[r].txn \in Txn /\ reg[r].txn.pid \in Pid
  BY <1>3, <1>4, RowFields, RowEnds, Zenon
<1>6. ASSUME NEW p \in alive, reg[r].txn.pid = p
      PROVE  cl[p].res = r /\ cl[p].op = reg[r].txn.op /\ InFlight(p)
  <2>1. TxnFor(r, p)
    BY <1>2 DEF Told, Sure
  <2> QED BY <1>3, <1>6, <2>1 DEF TxnFor, InFlight
<1> QED BY <1>2, <1>3, <1>4, <1>5, <1>6 DEF InFlight

\* The end is near: the next of the writes that make a transaction visible.
LEMMA EndingGoes ==
    ASSUME Inv, Told, up, todo # <<>>, Head(todo).op \in Ending,
           NEW g, g.op \in Committing, g.res = Head(todo).res, Then(<<g>>),
           \/ Head(todo).op \in Committing
           \/ reg[Head(todo).res].txn.pid \notin alive,
           UNCHANGED <<reg, cl, fate, alive, minted>>,
           \A m \in Memory \ {Head(todo).res} : CellKept(m)
    PROVE  Told'
<1> DEFINE f == Head(todo)
           r == f.res
<1>0. /\ StateOK /\ ResTold /\ DoneTold /\ HeadTold /\ ReplyTold /\ GoneTold
      /\ \A p \in alive : Sure(p)
  BY DEF Inv, Told
<1>1. /\ r \in Memory
      /\ \A p \in Pid : cl[p].res = r /\ InFlight(p) => reg[r].txn.pid = p
  BY EndingOf
<1>2. reg[r].txn.pid \in alive => cl[reg[r].txn.pid].ph = "commit"
  BY <1>0 DEF HeadTold
<1>3. todo' # <<>> /\ Head(todo') = g /\ Frames(todo') = Under \cup {g}
  BY SpeaksOn, StackGoes
<1>4. RetireTold'
  <2>1. f.op \notin Cleanup \cup {"retiring"}
    BY DEF Ending, Committing, Cleanup
  <2> QED BY <2>1, StillUnmarked
<1>5. ResTold' /\ DoneTold'
  BY <1>0 DEF ResTold, DoneTold
<1>6. GoneTold'
  <2>1. g.op # "gone"
    BY DEF Committing
  <2> QED BY <1>0, <1>3, <2>1, UnderIn DEF GoneTold
<1>7. HeadTold'
  BY <1>2, <1>3 DEF HeadTold, Committing
<1>8. ASSUME NEW p \in alive PROVE Sure(p)'
  <2>1. p \in Pid /\ \A m \in Memory : SoftFor(m, p)
    BY <1>0 DEF StateOK, SoftFor
  <2>2. cl[p].ph = "abort" /\ InFlight(p) => cl[p].res # r
    BY <1>1, <1>2, <2>1
  <2>3. cl[p].ph = "abort" /\ InFlight(p) => CellKept(cl[p].res)
    BY <1>0, <2>1, <2>2 DEF ResTold
  <2> QED BY <1>0, <2>1, <2>3, StaysSure
<1>9. ReplyTold'
  <2> SUFFICES ASSUME NEW h \in Frames(todo'), h.op = "reply", h.pid \in alive
               PROVE  \/ Truthful(h.pid, h.res)'
                      \/ InFlight(h.pid)' /\ g.res = cl[h.pid].res /\ h.res = "ok"
    BY <1>3 DEF ReplyTold, Awaits, Ending, Committing
  <2>1. h \in Frames(todo) /\ h.pid \in Pid
    BY <1>0, <1>3, UnderIn DEF Committing, StateOK
  <2>2. Truthful(h.pid, h.res) => Truthful(h.pid, h.res)'
    BY DEF Truthful, InFlight, Live
  <2>3. CASE Awaits(f, h.pid, h.res)
    <3>1. InFlight(h.pid) /\ f.res = cl[h.pid].res /\ h.res = IF f.op = "settle" THEN "raised" ELSE "ok"
      BY <2>3 DEF Awaits
    <3>2. f.op \in Committing
      BY <1>1, <2>1, <3>1
    <3>3. InFlight(h.pid)'
      BY <3>1 DEF InFlight
    <3> QED BY <3>1, <3>2, <3>3 DEF Committing
  <2> QED BY <1>0, <2>1, <2>2, <2>3 DEF ReplyTold
<1> QED BY <1>4, <1>5, <1>6, <1>7, <1>8, <1>9 DEF Told

\* The end: the outcome is kept for the writer.
EndsAs(w, o, what) ==
    LET r == Head(todo).res  t == reg[r].txn IN
    /\ reg' = [reg EXCEPT ![r] = w] /\ w.txn = None /\ w.state = reg[r].state
    /\ w.done = [reg[r].done EXCEPT ![t.pid] = [op |-> t.op, res |-> o]]
    /\ fate' = IF cl[t.pid].op = t.op THEN [fate EXCEPT ![t.pid] = what] ELSE fate
LEMMA Ended ==
    ASSUME Inv, Told, up, todo # <<>>, Head(todo).op \in {"finish", "settle"},
           NEW w, \/ Head(todo).op = "finish" /\ EndsAs(w, "ok", "ok")
                  \/ Head(todo).op = "settle" /\ EndsAs(w, "aborted", "undone"),
           NEW g, g.op \notin Tells \cup {"reply", "gone"}, Then(<<g>>),
           UNCHANGED <<cl, alive, minted, cells>>
    PROVE  Told'
<1> DEFINE f == Head(todo)
<1>a. PICK r, t, x : r = f.res /\ t = reg[r].txn /\ x = t.pid
  OBVIOUS
<1>b. PICK o, what :
        /\ o = IF f.op = "finish" THEN "ok" ELSE "aborted"
        /\ what = IF f.op = "finish" THEN "ok" ELSE "undone"
  OBVIOUS
<1>c. EndsAs(w, o, what)
  BY <1>b
<1>d. /\ reg' = [reg EXCEPT ![r] = w] /\ w.txn = None /\ w.state = reg[r].state
      /\ w.done = [reg[r].done EXCEPT ![x] = [op |-> t.op, res |-> o]]
      /\ fate' = IF cl[x].op = t.op THEN [fate EXCEPT ![x] = what] ELSE fate
  BY <1>a, <1>c, Zenon DEF EndsAs
<1>0. /\ StateOK /\ ResTold /\ DoneTold /\ HeadTold /\ ReplyTold /\ GoneTold
      /\ \A p \in alive : Sure(p)
      /\ fate \in [Pid -> {"none", "ok", "undone"}] /\ alive \subseteq Pid
  BY DEF Inv, Told, StateOK
<1>1. /\ r \in Memory /\ r \in Res /\ reg[r] \in Row /\ t \in Txn /\ t # None /\ x \in Pid
      /\ \A p \in alive : x = p => cl[p].res = r /\ cl[p].op = t.op /\ InFlight(p)
      /\ \A p \in Pid : cl[p].res = r /\ InFlight(p) => x = p
  <2>1. f.op \in Ending
    BY DEF Ending, Committing
  <2> QED BY <1>a, <2>1, EndingOf
<1>2. x \in alive => cl[x].ph = IF f.op = "finish" THEN "commit" ELSE "abort"
  BY <1>0, <1>a DEF HeadTold, Committing
<1>3. todo' # <<>> /\ Head(todo') = g /\ Frames(todo') = Under \cup {g}
  BY SpeaksOn, StackGoes
<1>4. reg'[r] = w /\ \A m \in Res \ {r} : reg'[m] = reg[m]
  <2>1. r \in Res /\ StateOK /\ reg' = [reg EXCEPT ![r] = w]
    BY <1>0, <1>1, <1>d
  <2> QED BY ONLY <2>1, RowSet
<1>5. reg[r].done \in [Pid -> Outcome \cup {None}] /\ reg[r] # None
  BY <1>1, RowFields
<1>6. \A p \in Pid \ {x} : w.done[p] = reg[r].done[p] /\ fate'[p] = fate[p]
  BY <1>0, <1>1, <1>5, <1>d
<1>7. w.done[x] = [op |-> t.op, res |-> o]
  BY <1>1, <1>5, <1>d
<1>8. x \in alive => fate'[x] = what
  BY <1>0, <1>1, <1>d
<1>9. RetireTold'
  <2>1. f.op \notin Cleanup \cup {"retiring"}
    BY DEF Cleanup
  <2> QED BY <1>1, <1>4, <1>5, <1>d, <2>1, RowSets, StillUnmarked
<1>10. ResTold' /\ GoneTold' /\ HeadTold'
  <2>1. GoneTold'
    BY <1>0, <1>3, UnderIn DEF GoneTold
  <2> QED BY <1>0, <1>3, <2>1, Hushed DEF ResTold
<1>11. DoneTold'
  <2> SUFFICES ASSUME NEW m \in Memory, reg'[m] # None, reg'[m].txn # None
               PROVE  reg'[m].done[reg'[m].txn.pid] = None
    BY DEF DoneTold
  <2>1. m # r
    BY <1>4, <1>d
  <2> QED BY <1>0, <1>4, <2>1, RowSets DEF DoneTold
<1>12. \A p \in Pid \ {x} : \A m \in Memory : SoftFor(m, p)
  <2> SUFFICES ASSUME NEW p \in Pid \ {x}, NEW m \in Memory PROVE SoftFor(m, p)
    OBVIOUS
  <2>1. CASE m = r
    BY <1>1, <1>4, <1>5, <1>6, <1>a, <1>d, <2>1, Zenon DEF SoftFor, NotOf
  <2>2. CASE m # r
    BY <1>4, <2>2, RowSets DEF SoftFor
  <2> QED BY <2>1, <2>2
<1>13. ASSUME NEW p \in alive, p # x PROVE Sure(p)'
  <2>1. p \in Pid
    BY <1>0
  <2>2. cl[p].ph = "abort" => CellKept(cl[p].res)
    BY CellsSame
  <2> QED BY <1>0, <1>6, <1>12, <1>13, <2>1, <2>2, StaysSure
<1>14. ASSUME x \in alive PROVE Sure(x)'
  <2>1. /\ cl[x].res = r /\ cl[x].op = t.op /\ Sure(x)
        /\ fate'[x] = what /\ cl'[x] = cl[x]
        /\ cl[x].ph = IF f.op = "finish" THEN "commit" ELSE "abort"
    BY <1>0, <1>1, <1>2, <1>8, <1>14
  <2>2. ~InFlight(x)'
    BY <1>4, <1>d, <2>1 DEF InFlight
  <2>3. \A m \in Memory : TxnFor(m, x)'
    <3> SUFFICES ASSUME NEW m \in Memory PROVE TxnFor(m, x)'
      OBVIOUS
    <3>1. CASE m = r
      BY <1>4, <1>d, <3>1 DEF TxnFor
    <3>2. CASE m # r
      BY <1>4, <2>1, <3>2, RowSets DEF Sure, TxnFor
    <3> QED BY <3>1, <3>2
  <2>4. CASE f.op = "finish"
    <3>1. o = "ok" /\ what = "ok" /\ cl[x].ph = "commit"
      BY <1>b, <2>1, <2>4
    <3>2. reg'[r] = w /\ w.done[x].op = t.op /\ w.done[x].res = "ok" /\ w.done[x] # None
      BY <1>1, <1>4, <1>7, <3>1, ConstantsOK DEF Outcome, Txn
    <3>3. reg'[r] # None => outcome(x)' = "ok"
      BY <2>1, <3>2 DEF outcome
    <3>4. PhaseFor(x)'
      BY <2>1, <2>2, <3>1, <3>3 DEF PhaseFor, Live
    <3>5. \A m \in Memory : DoneFor(m, x)'
      <4> SUFFICES ASSUME NEW m \in Memory PROVE DoneFor(m, x)'
        OBVIOUS
      <4>1. CASE m = r
        <5>1. t.op <= t.op
          BY <1>1 DEF Txn
        <5> QED BY <2>1, <3>1, <3>2, <4>1, <5>1 DEF DoneFor
      <4>2. CASE m # r
        BY <1>4, <2>1, <3>1, <4>2, RowSets DEF Sure, DoneFor
      <4> QED BY <4>1, <4>2
    <3> QED BY <2>3, <3>4, <3>5 DEF Sure
  <2>5. CASE f.op = "settle"
    <3>1. o = "aborted" /\ what = "undone" /\ cl[x].ph = "abort" /\ fate[x] # "ok"
      BY <1>b, <2>1, <2>5 DEF Sure, PhaseFor
    <3>2. reg'[r] = w /\ w.done[x].op = t.op /\ w.done[x].res = "aborted"
      BY <1>4, <1>7, <3>1
    <3>3. PhaseFor(x)'
      BY <2>1, <2>2, <3>1 DEF PhaseFor
    <3>4. \A m \in Memory : DoneFor(m, x)'
      <4> SUFFICES ASSUME NEW m \in Memory PROVE DoneFor(m, x)'
        OBVIOUS
      <4>1. CASE m = r
        <5>1. t.op <= t.op
          BY <1>1 DEF Txn
        <5> QED BY <2>1, <3>1, <3>2, <4>1, <5>1 DEF DoneFor
      <4>2. CASE m # r
        BY <1>4, <2>1, <3>1, <4>2, RowSets DEF Sure, DoneFor
      <4> QED BY <4>1, <4>2
    <3> QED BY <2>3, <3>3, <3>4 DEF Sure
  <2> QED BY <2>4, <2>5
<1>15. ReplyTold'
  <2> SUFFICES ASSUME NEW h \in Frames(todo'), h.op = "reply", h.pid \in alive
               PROVE  Truthful(h.pid, h.res)'
    BY DEF ReplyTold
  <2>1. h \in Frames(todo) /\ h.pid \in Pid
    BY <1>0, <1>3, UnderIn
  <2>2. cl[h.pid].res \in Memory
    BY <2>1, Asking DEF Calls
  <2>3. PICK q \in Pid : q = h.pid
    BY <2>1
  <2>4. CASE q # x
    <3>1. ~Awaits(f, q, h.res)
      BY <1>1, <1>a, <2>3, <2>4 DEF Awaits
    <3>2. Truthful(q, h.res)
      BY <1>0, <2>1, <2>3, <3>1 DEF ReplyTold
    <3>3. SoftFor(cl[q].res, q) /\ fate'[q] = fate[q]
      BY <1>6, <1>12, <2>2, <2>3, <2>4
    <3>4. Truthful(q, h.res)'
      BY <2>2, <2>3, <3>2, <3>3, StaysTrue
    <3> QED BY <2>3, <3>4
  <2>5. CASE q = x
    <3>1. x \in alive /\ InFlight(x) /\ cl[x].res = r /\ fate'[x] = what
      BY <1>1, <1>8, <2>3, <2>5
    <3>2. h.res = IF f.op = "settle" THEN "raised" ELSE "ok"
      BY <1>0, <2>1, <2>3, <2>5, <3>1, Zenon DEF ReplyTold, Truthful, Awaits
    <3>3. ~InFlight(x)'
      BY <1>4, <1>d, <3>1 DEF InFlight
    <3>4. Truthful(x, h.res)'
      BY <1>b, <3>1, <3>2, <3>3 DEF Truthful
    <3> QED BY <2>3, <2>5, <3>4
  <2> QED BY <2>4, <2>5
<1>16. \A p \in alive' : Sure(p)'
  BY <1>13, <1>14
<1> QED BY <1>9, <1>10, <1>11, <1>15, <1>16 DEF Told

\* The writes of a commit, and the settlement of a dead writer.
LEMMA CommitTold ==
    ASSUME Inv, Told, PublishChunks \/ PublishSize \/ PublishArena \/ Finish \/ Settle
    PROVE  Told'
<1> DEFINE f == Head(todo)
<1>0. StateOK
  BY DEF Inv
<1>1. /\ up /\ todo # <<>>
      /\ f.op \in {"chunks", "size", "arena", "finish", "settle"}
      /\ PublishChunks => f.op = "chunks"
      /\ PublishSize => f.op = "size"
      /\ PublishArena => f.op = "arena"
      /\ Finish => f.op = "finish"
      /\ Settle => f.op = "settle"
  BY Zenon DEF PublishChunks, PublishSize, PublishArena, Finish, Settle, At
<1>2. PICK r, t : r = f.res /\ t = reg[r].txn
  OBVIOUS
<1>3. /\ f.op \in Ending
      /\ r \in Memory /\ r \in Res /\ reg[r] \in Row /\ t \in Txn /\ t # None /\ t.pid \in Pid
      /\ \A p \in alive : t.pid = p => cl[p].res = r /\ cl[p].op = t.op /\ InFlight(p)
  <2>1. f.op \in Ending
    BY <1>1 DEF Ending, Committing
  <2> QED BY <1>1, <1>2, <2>1, EndingOf
<1>g. PICK g, h, n : /\ g = [op |-> "size", res |-> r] /\ h = [op |-> "finish", res |-> r]
                     /\ n = [op |-> "next", res |-> r]
  OBVIOUS
<1>h. /\ g.op = "size" /\ g.res = r /\ h.op = "finish" /\ h.res = r /\ n.op = "next"
      /\ \A e \in {g, h} : e.op \in Committing /\ e.res = r
      /\ n.op \notin Tells \cup {"reply", "gone"}
  BY <1>g DEF Committing, Tells, Ending
<1>4. CASE PublishChunks
  <2>1. /\ UNCHANGED <<reg, size, arena, cl, fate, alive, minted>> /\ Then(<<g>>)
        /\ \A m \in Memory \ {r} : chunks'[m] = chunks[m]
    <3>1. \A k, x : publish(chunks, r, k, x) \in {chunks, [chunks EXCEPT ![r] = k]}
      BY DEF publish
    <3>2. chunks' = chunks \/ \E k : chunks' = [chunks EXCEPT ![r] = k]
      <4>1. PICK k, x : k = cl[f.pid].tup /\ x = reg[f.res].txn.ct
        OBVIOUS
      <4>2. chunks' = chunks \/ chunks' = publish(chunks, r, k, x)
        BY <1>2, <1>4, <4>1 DEF PublishChunks
      <4> QED BY <3>1, <4>2
    <3> QED BY <1>0, <1>2, <1>4, <1>g, <3>2, Zenon DEF PublishChunks, Do, callers, StateOK
  <2>2. \A m \in Memory \ {r} : CellKept(m)
    BY <2>1 DEF CellKept
  <2>3. f.op \in Committing
    BY <1>1, <1>4 DEF Committing
  <2> QED BY <1>1, <1>2, <1>3, <1>h, <2>1, <2>2, <2>3, EndingGoes
<1>5. CASE PublishSize
  <2>1. /\ UNCHANGED <<reg, chunks, arena, cl, fate, alive, minted>> /\ Then(<<h>>)
        /\ \A m \in Memory \ {r} : size'[m] = size[m]
    <3>1. size' = size \/ \E k : size' = [size EXCEPT ![r] = k]
      BY <1>2, <1>5 DEF PublishSize
    <3> QED BY <1>0, <1>2, <1>5, <1>g, <3>1 DEF PublishSize, Do, callers, StateOK
  <2>2. \A m \in Memory \ {r} : CellKept(m)
    BY <2>1 DEF CellKept
  <2>3. f.op \in Committing
    BY <1>1, <1>5 DEF Committing
  <2> QED BY <1>1, <1>2, <1>3, <1>h, <2>1, <2>2, <2>3, EndingGoes
<1>6. CASE PublishArena
  <2>1. /\ UNCHANGED <<reg, chunks, size, cl, fate, alive, minted>> /\ Then(<<h>>)
        /\ \A m \in Memory \ {r} : arena'[m] = arena[m]
    <3>1. \A k, x : publish(arena, r, k, x) \in {arena, [arena EXCEPT ![r] = k]}
      BY DEF publish
    <3>2. arena' = arena \/ \E k : arena' = [arena EXCEPT ![r] = k]
      BY <1>2, <1>6, <3>1 DEF PublishArena
    <3> QED BY <1>0, <1>2, <1>6, <1>g, <3>2, Zenon DEF PublishArena, Do, callers, StateOK
  <2>2. \A m \in Memory \ {r} : CellKept(m)
    BY <2>1 DEF CellKept
  <2>3. f.op \in Committing
    BY <1>1, <1>6 DEF Committing
  <2> QED BY <1>1, <1>2, <1>3, <1>h, <2>1, <2>2, <2>3, EndingGoes
<1>7. CASE Finish
  <2>1. PICK w : w = [reg[r] EXCEPT !.txn = None, !.done[t.pid] = [op |-> t.op, res |-> "ok"]]
    OBVIOUS
  <2>2. /\ reg' = [reg EXCEPT ![r] = w] /\ UNCHANGED <<cl, alive, minted, cells>>
        /\ fate' = IF cl[t.pid].op = t.op THEN [fate EXCEPT ![t.pid] = "ok"] ELSE fate
        /\ Then(<<n>>)
    BY <1>0, <1>2, <1>3, <1>7, <1>g, <2>1, Zenon DEF Finish, Do, StateOK
  <2>3. /\ w.txn = None /\ w.state = reg[r].state
        /\ w.done = [reg[r].done EXCEPT ![t.pid] = [op |-> t.op, res |-> "ok"]]
    BY <1>3, <2>1 DEF Row
  <2>4. EndsAs(w, "ok", "ok")
    BY <1>2, <2>2, <2>3 DEF EndsAs
  <2>5. f.op = "finish"
    BY <1>1, <1>7
  <2> QED BY <1>1, <1>h, <2>2, <2>4, <2>5, Ended
<1>8. CASE Settle /\ published(r, t)
  <2>1. f.op = "settle"
    BY <1>1, <1>8
  <2>2. /\ UNCHANGED <<reg, chunks, arena, cl, fate, alive, minted>> /\ Then(<<h>>)
        /\ \A m \in Memory \ {r} : size'[m] = size[m]
    <3>1. size' = size \/ \E k : size' = [size EXCEPT ![r] = k]
      BY <1>2, <1>8 DEF Settle
    <3> QED BY <1>0, <1>2, <1>8, <1>g, <3>1 DEF Settle, Do, StateOK
  <2>3. \A m \in Memory \ {r} : CellKept(m)
    BY <2>2 DEF CellKept
  <2>4. t.pid \notin alive
    <3> SUFFICES ASSUME t.pid \in alive PROVE FALSE
      OBVIOUS
    <3>1. cl[t.pid].ph = "abort" /\ cl[t.pid].res = r /\ InFlight(t.pid)
      BY <1>1, <1>2, <1>3, <2>1 DEF Told, HeadTold
    <3>2. f.op \notin Cleanup \cup {"retiring"}
      BY <2>1 DEF Cleanup
    <3>3. Live(r)
      BY <1>1, <1>3, <3>2, RowFields, NoneMarked DEF Live
    <3>4. PhaseFor(t.pid)
      BY DEF Told, Sure
    <3> QED BY <1>2, <1>8, <3>1, <3>3, <3>4 DEF PhaseFor
  <2> QED BY <1>1, <1>2, <1>3, <1>h, <2>2, <2>3, <2>4, EndingGoes
<1>9. CASE Settle /\ ~published(r, t)
  <2>1. f.op = "settle"
    BY <1>1, <1>9
  <2>2. PICK w : w = Undo(reg[r], t)
    OBVIOUS
  <2>3. PICK e, k, d : e = [op |-> "undone", res |-> r, n |-> k, d |-> d] /\ k = t.pd
                       /\ d = IF t.kind = "grow" THEN t.to - t.from ELSE -1
    BY Zenon
  <2>4. e.op \notin Tells \cup {"reply", "gone"}
    BY <2>3 DEF Tells, Ending, Committing
  <2>5. /\ reg' = [reg EXCEPT ![r] = w] /\ UNCHANGED <<cl, alive, minted, cells>>
        /\ fate' = IF cl[t.pid].op = t.op THEN [fate EXCEPT ![t.pid] = "undone"] ELSE fate
        /\ Then(<<e>>)
    BY <1>0, <1>2, <1>3, <1>9, <2>2, <2>3, Zenon DEF Settle, cells, StateOK
  <2>6. /\ w.txn = None /\ w.state = reg[r].state
        /\ w.done = [reg[r].done EXCEPT ![t.pid] = [op |-> t.op, res |-> "aborted"]]
    BY <1>3, <2>2 DEF Undo, Row
  <2>7. EndsAs(w, "aborted", "undone")
    BY <1>2, <2>5, <2>6 DEF EndsAs
  <2> QED BY <1>1, <2>1, <2>4, <2>5, <2>7, Ended
<1> QED BY <1>4, <1>5, <1>6, <1>7, <1>8, <1>9

-----------------------------------------------------------------------------
(* Steps of a process, or on its behalf.                                   *)

\* What those know who have nothing to do with it.
LEMMA OthersPass ==
    ASSUME Inv, Told, NEW p \in Pid, alive' \subseteq alive, minted \subseteq minted',
           \A q \in Pid \ {p} : cl'[q] = cl[q] /\ fate'[q] = fate[q],
           \/ cl'[p].res \in Memory \cap minted'
           \/ cl'[p].res = None /\ cl'[p].ans = "none" /\ cl'[p].ph = "idle",
           \A q \in Pid \ {p} : \A m \in Memory : SoftFor(m, q),
           \A q \in alive \ {p} : cl[q].ph = "abort" /\ InFlight(q) => CellKept(cl[q].res)
    PROVE  /\ ResTold'
           /\ \A q \in alive' \ {p} : Sure(q)'
           /\ \A q \in alive' \ {p} : cl[q].res \in Memory =>
                \A a : Truthful(q, a) => Truthful(q, a)'
<1>0. StateOK /\ ResTold /\ \A q \in alive : Sure(q)
  BY DEF Inv, Told
<1>1. ResTold'
  <2> SUFFICES ASSUME NEW q \in Pid
               PROVE  \/ cl'[q].res \in Memory \cap minted'
                      \/ cl'[q].res = None /\ cl'[q].ans = "none" /\ cl'[q].ph = "idle"
    BY DEF ResTold
  <2>1. CASE q = p
    BY <2>1
  <2>2. CASE q # p
    BY <1>0, <2>2 DEF ResTold
  <2> QED BY <2>1, <2>2
<1>2. \A q \in alive' \ {p} : q \in Pid \ {p} /\ q \in alive
  BY <1>0 DEF StateOK
<1>3. ASSUME NEW q \in alive' \ {p} PROVE Sure(q)'
  BY <1>0, <1>2, <1>3, StaysSure
<1>4. ASSUME NEW q \in alive' \ {p}, cl[q].res \in Memory, NEW a, Truthful(q, a)
      PROVE  Truthful(q, a)'
  BY <1>2, <1>4, StaysTrue
<1> QED BY <1>1, <1>3, <1>4

\* Nobody is to be answered twice.
LEMMA OnceAnswered ==
    ASSUME Inv, todo # <<>>, Head(todo).op \in Calls, NEW h \in Under, h.op \in Calls
    PROVE  h.pid # Head(todo).pid
<1>1. todo \in Seq(Frame)
  BY DEF Inv, StateOK
<1>2. PICK i \in 2 .. Len(todo) : h = todo[i]
  BY DEF Under
<1>3. Head(todo) = todo[1] /\ 1 \in 1 .. Len(todo) /\ i \in 1 .. Len(todo) /\ i # 1
  BY <1>1, <1>2
<1> QED BY <1>2, <1>3 DEF Inv, CallsOK

\* A row that stays is soft to everyone.
LEMMA SoftSame ==
    ASSUME NEW m, NEW p, reg'[m] = reg[m] PROVE SoftFor(m, p)
BY DEF SoftFor

\* The handler of one request, at the end of which one process moves.
LEMMA PopsWith ==
    ASSUME Inv, Told, up, todo # <<>>,
           Head(todo).op \notin Ending \cup Cleanup \cup {"retiring"},
           NEW p \in Pid, UNCHANGED <<alive, minted>>,
           \A q \in Pid \ {p} : cl'[q] = cl[q] /\ fate'[q] = fate[q],
           \/ cl'[p].res \in Memory \cap minted
           \/ cl'[p].res = None /\ cl'[p].ans = "none" /\ cl'[p].ph = "idle",
           \A q \in Pid \ {p} : \A m \in Memory : SoftFor(m, q),
           \A m \in Memory : CellKept(m),
           \A m \in Memory : reg'[m] # None => reg[m] # None /\ reg'[m].state = reg[m].state,
           \A h \in Under : h.op \in Calls => h.pid # p,
           NEW g, g.op \notin Tells \cup {"reply", "gone"}, Then(<<>>) \/ Then(<<g>>),
           DoneTold', p \in alive => Sure(p)'
    PROVE  Told'
<1>0. StateOK /\ ResTold
  BY DEF Inv, Told
<1>1. /\ ResTold'
      /\ \A q \in alive' \ {p} : Sure(q)'
      /\ \A q \in alive' \ {p} : cl[q].res \in Memory =>
                \A a : Truthful(q, a) => Truthful(q, a)'
  <2>1. \A q \in alive \ {p} : cl[q].ph = "abort" /\ InFlight(q) => CellKept(cl[q].res)
    BY <1>0 DEF StateOK, ResTold
  <2> QED BY <2>1, OthersPass
<1>2. PICK D : D = {g}
  OBVIOUS
<1>3. /\ HeadTold' /\ Frames(todo') \subseteq Under \cup D
      /\ \A h \in D : /\ h.op # "reply"
                      /\ h.op = "gone" => \A x \in h.set : x[2] \notin alive
  BY <1>2, HeadGoes, StackGoes
<1>4. \A h \in Under : h.op = "reply" /\ h.pid \in alive' /\ Truthful(h.pid, h.res) =>
          Truthful(h.pid, h.res)'
  BY <1>1, Asking, UnderIn DEF Calls
<1>5. GoneTold' /\ ReplyTold'
  BY <1>3, <1>4, TruePopped
<1>6. RetireTold'
  BY StillUnmarked
<1> QED BY <1>1, <1>3, <1>5, <1>6 DEF Told

\* A row is made for a memory that no process has named.
LEMMA InsertTold ==
    ASSUME Inv, Budget, Told, InsertRow PROVE Told'
<1> DEFINE f == Head(todo)
<1>0. /\ StateOK /\ ResTold /\ DoneTold /\ \A p \in alive : Sure(p)
      /\ reg \in [Res -> Row \cup {None}]
  BY DEF Inv, Told, StateOK
<1>1. up /\ todo # <<>> /\ f \in Frame /\ f.op = "insert"
  BY HeadFrame DEF InsertRow
<1>2. PICK r, t : r = f.res /\ t = f.tok /\ r \in Res
  BY <1>1, FrameFields
<1>3. PICK w : w = NewRow(r, t)
  OBVIOUS
<1>4. /\ w.txn = None /\ w.state = "live" /\ \A p \in Pid : w.done[p] = None
  BY <1>3 DEF NewRow, NoDone
<1>5. reg' = [reg EXCEPT ![r] = w] /\ UNCHANGED <<cells, cl, fate, alive, minted>>
  BY <1>2, <1>3 DEF InsertRow, callers
<1>6. reg'[r] = w /\ \A m \in Res \ {r} : reg'[m] = reg[m]
  BY <1>0, <1>2, <1>5, RowSet
<1>7. \A p \in Pid : cl[p].res # r
  BY <1>1, <1>2 DEF Told, HeadTold
<1>8. \A p \in Pid : \A m \in Memory : SoftFor(m, p) \/ NewTo(m, p)
  <2> SUFFICES ASSUME NEW p \in Pid, NEW m \in Memory PROVE SoftFor(m, p) \/ NewTo(m, p)
    OBVIOUS
  <2>1. CASE m = r
    BY <1>4, <1>6, <1>7, <2>1 DEF NewTo
  <2>2. CASE m # r
    BY <1>6, <2>2, SoftSame, RowSets
  <2> QED BY <2>1, <2>2
<1>9. \A p \in alive : p \in Pid
  BY <1>0 DEF StateOK
<1>10. ASSUME NEW p \in alive PROVE Sure(p)'
  <2>1. cl[p].ph = "abort" => CellKept(cl[p].res)
    BY <1>5, CellsSame
  <2> QED BY <1>0, <1>5, <1>8, <1>9, <1>10, <2>1, StaysSure
<1>11. ResTold' /\ DoneTold'
  <2>1. DoneTold'
    <3> SUFFICES ASSUME NEW m \in Memory, reg'[m] # None, reg'[m].txn # None
                 PROVE  reg'[m].done[reg'[m].txn.pid] = None
      BY DEF DoneTold
    <3>1. m # r
      BY <1>4, <1>6
    <3> QED BY <1>0, <1>6, <3>1, RowSets DEF DoneTold
  <2> QED BY <1>0, <1>5, <2>1 DEF ResTold
<1>12. PICK g : g = [f EXCEPT !.op = "reserved"]
  OBVIOUS
<1>13. g.op = "reserved"
  <2>1. f \in [op: {"insert", "reserved"}, pid: Pid, res: Res, tok: Token]
    BY <1>1 DEF Frame
  <2> QED BY <1>12, <2>1
<1>14. Then(<<g>>) \/ Then(<<>>)
  BY <1>12 DEF InsertRow
<1>15. PICK D : D = {g}
  OBVIOUS
<1>16. /\ HeadTold' /\ Frames(todo') \subseteq Under \cup D
       /\ \A h \in D : /\ h.op # "reply"
                       /\ h.op = "gone" => \A x \in h.set : x[2] \notin alive
  <2>1. g.op \notin Tells
    BY <1>13 DEF Tells, Ending, Committing
  <2> QED BY <1>1, <1>13, <1>14, <1>15, <2>1, HeadGoes, StackGoes
<1>17. \A h \in Under : h.op = "reply" /\ h.pid \in alive' /\ Truthful(h.pid, h.res) =>
          Truthful(h.pid, h.res)'
  <2> SUFFICES ASSUME NEW h \in Under, h.op = "reply", Truthful(h.pid, h.res)
               PROVE  Truthful(h.pid, h.res)'
    OBVIOUS
  <2>1. h.pid \in Pid /\ cl[h.pid].res \in Memory
    BY Asking, UnderIn DEF Calls
  <2>2. SoftFor(cl[h.pid].res, h.pid)
    BY <1>6, <1>7, <2>1, SoftSame, RowSets
  <2>3. PICK q, a : q \in Pid /\ q = h.pid /\ a = h.res
    BY <2>1
  <2>4. Truthful(q, a)'
    BY <1>5, <2>1, <2>2, <2>3, StaysTrue
  <2> QED BY <2>3, <2>4
<1>18. GoneTold' /\ ReplyTold'
  <2>1. f.op \notin Ending
    BY <1>1 DEF Ending, Committing
  <2> QED BY <1>1, <1>5, <1>16, <1>17, <2>1, TruePopped
<1>19. RetireTold'
  <2>1. f.op \notin Cleanup \cup {"retiring"}
    BY <1>1 DEF Cleanup
  <2>2. \A m \in Memory : reg'[m] # None =>
               reg'[m].state = "live" \/ (reg[m] # None /\ reg'[m].state = reg[m].state)
    <3> TAKE m \in Memory
    <3>1. CASE m = r
      BY <1>4, <1>6, <3>1
    <3>2. CASE m # r
      BY <1>6, <3>2, RowSets
    <3> QED BY <3>1, <3>2
  <2> QED BY <1>1, <2>1, <2>2, StillUnmarked
<1> QED BY <1>5, <1>10, <1>11, <1>16, <1>18, <1>19 DEF Told

\* Nothing is in flight that is not the current operation of its process.
LEMMA NotFlying ==
    ASSUME Told, NEW p \in alive, ~InFlight(p) \/ cl[p].ph \notin Heard, NEW m \in Memory,
           reg[m] # None, reg[m].txn # None
    PROVE  reg[m].txn.pid # p
<1> SUFFICES ASSUME reg[m].txn.pid = p PROVE FALSE
  OBVIOUS
<1>1. TxnFor(m, p)
  BY DEF Told, Sure
<1>2. cl[p].res = m /\ cl[p].op = reg[m].txn.op /\ cl[p].ph \in Heard
  BY <1>1 DEF TxnFor
<1> QED BY <1>2 DEF InFlight

\* A process that has nothing in flight begins something else.
LEMMA SureAnew ==
    ASSUME Told, NEW p \in alive, ~InFlight(p) \/ cl[p].ph \notin Heard, reg' = reg,
           \/ cl'[p].op = cl[p].op /\ fate'[p] = fate[p]
           \/ /\ cl[p].op \in Int /\ cl'[p].op = cl[p].op + 1
              /\ \A m \in Memory : reg[m] # None /\ reg[m].done[p] # None =>
                    reg[m].done[p].op \in Int,
           PhaseFor(p)'
    PROVE  Sure(p)'
<1>1. ASSUME NEW m \in Memory PROVE TxnFor(m, p)' /\ DoneFor(m, p)'
  <2>1. TxnFor(m, p)'
    BY NotFlying DEF TxnFor
  <2>2. DoneFor(m, p)
    BY DEF Told, Sure
  <2>3. CASE cl'[p].op = cl[p].op /\ fate'[p] = fate[p]
    BY <2>1, <2>2, <2>3 DEF DoneFor
  <2>4. CASE /\ cl[p].op \in Int /\ cl'[p].op = cl[p].op + 1
             /\ reg[m] # None /\ reg[m].done[p] # None => reg[m].done[p].op \in Int
    <3> SUFFICES ASSUME reg[m] # None, reg[m].done[p] # None
                 PROVE  reg[m].done[p].op <= cl[p].op + 1 /\ reg[m].done[p].op # cl[p].op + 1
      BY <2>1, <2>4 DEF DoneFor
    <3>1. reg[m].done[p].op <= cl[p].op
      BY <2>2 DEF DoneFor
    <3> QED BY <2>4, <3>1
  <2> QED BY <2>3, <2>4
<1> QED BY <1>1 DEF Sure

\* The answers of the keeper, and the row of a transaction.
LEMMA AnswerTold ==
    ASSUME Inv, Told, Reserved \/ TxnRow \/ GrantStep \/ ReplyStep
    PROVE  Told'
<1> DEFINE f == Head(todo)
<1>0. /\ StateOK /\ ResTold /\ DoneTold /\ HeadOK /\ WriterOK /\ \A p \in alive : Sure(p)
      /\ cl \in [Pid -> Client] /\ reg \in [Res -> Row \cup {None}] /\ alive \subseteq Pid
  BY DEF Inv, Told, StateOK
<1>1. /\ up /\ todo # <<>> /\ f \in Frame /\ f.op \in {"reserved", "txn", "grant", "reply"}
      /\ Reserved => f.op = "reserved"
      /\ TxnRow => f.op = "txn"
      /\ GrantStep => f.op = "grant"
      /\ ReplyStep => f.op = "reply"
  BY HeadFrame, Zenon DEF Reserved, TxnRow, GrantStep, ReplyStep
<1>2. f.op \notin Ending \cup Cleanup \cup {"retiring"}
  BY <1>1 DEF Ending, Committing, Cleanup
<1>3. f.pid \in Pid
  BY <1>1, FrameFields
<1>4. PICK p, c : p = f.pid /\ c = cl[p]
  OBVIOUS
<1>5. p \in Pid /\ c \in Client
  BY <1>0, <1>3, <1>4
<1>g. PICK g : g = [op |-> "grant", pid |-> p]
  OBVIOUS
<1>h. g.op \notin Tells \cup {"reply", "gone"}
  BY <1>g DEF Tells, Ending, Committing
<1>6. ASSUME UNCHANGED <<reg, alive, minted, fate>>, NEW d, cl' = [cl EXCEPT ![p] = d],
             \/ d.res \in Memory \cap minted
             \/ d.res = None /\ d.ans = "none" /\ d.ph = "idle",
             \A m \in Memory : CellKept(m), \A h \in Under : h.op \in Calls => h.pid # p,
             Then(<<>>), p \in alive => Sure(p)'
      PROVE  Told'
  <2>1. cl'[p] = d /\ \A q \in Pid \ {p} : cl'[q] = cl[q] /\ fate'[q] = fate[q]
    BY <1>0, <1>5, <1>6
  <2>2. \A q \in Pid \ {p} : \A m \in Memory : SoftFor(m, q)
    BY <1>6, SoftSame
  <2>3. DoneTold'
    BY <1>0, <1>6 DEF DoneTold
  <2>4. \A m \in Memory : reg'[m] # None => reg[m] # None /\ reg'[m].state = reg[m].state
    BY <1>6
  <2>5. \/ cl'[p].res \in Memory \cap minted
        \/ cl'[p].res = None /\ cl'[p].ans = "none" /\ cl'[p].ph = "idle"
    BY <1>6, <2>1
  <2> QED BY <1>1, <1>2, <1>5, <1>6, <1>h, <2>1, <2>2, <2>3, <2>4, <2>5, PopsWith
<1>7. CASE Reserved
  <2>1. UNCHANGED <<reg, cells, alive, minted, fate>> /\ Then(<<>>) /\ f.op = "reserved"
    BY <1>1, <1>7 DEF Reserved, durable, cells
  <2>2. c.ph = "idle" /\ f.res \in Memory \cap minted
    BY <1>0, <1>1, <1>4, <2>1 DEF HeadOK
  <2>3. \A h \in Under : h.op \in Calls => h.pid # p
    BY <1>4, <2>2, Asking, UnderIn
  <2>4. PICK d : d = IF p \in alive
                     THEN [c EXCEPT !.ph = "create", !.res = f.res, !.tok = f.tok, !.ans = "none"]
                     ELSE c
    OBVIOUS
  <2>5. cl' = [cl EXCEPT ![p] = d]
    BY <1>0, <1>4, <1>5, <1>7, <2>4 DEF Reserved
  <2>6. \/ d.res \in Memory \cap minted
        \/ d.res = None /\ d.ans = "none" /\ d.ph = "idle"
    BY <1>0, <1>4, <1>5, <2>2, <2>4 DEF ResTold, Client
  <2>7. ASSUME p \in alive PROVE Sure(p)'
    <3>1. cl'[p] = d /\ d.ph = "create" /\ d.ans = "none" /\ d.op = c.op
      BY <1>0, <1>5, <2>4, <2>5, <2>7 DEF Client
    <3>2. PhaseFor(p)'
      BY <3>1 DEF PhaseFor
    <3>3. cl[p].ph \notin Heard
      BY <1>4, <2>2 DEF Heard
    <3> QED BY <1>4, <2>1, <2>7, <3>1, <3>2, <3>3, SureAnew
  <2>8. \A m \in Memory : CellKept(m)
    BY <2>1, CellsSame
  <2> QED BY <2>1, <2>3, <2>5, <2>6, <2>7, <2>8, <1>6
<1>8. CASE GrantStep
  <2>1. UNCHANGED <<reg, cells, alive, minted, fate>> /\ Then(<<>>) /\ f.op = "grant"
    BY <1>1, <1>8 DEF GrantStep, durable, cells
  <2>2. c.ph \in {"begin", "queued"} /\ InFlight(p)
    BY <1>0, <1>1, <1>4, <2>1 DEF HeadOK
  <2>3. \A h \in Under : h.op \in Calls => h.pid # p
    BY <1>1, <1>4, <2>1, OnceAnswered DEF Calls
  <2>4. PICK d, k : /\ k = reg[c.res].txn.from
                    /\ d = IF p \notin alive THEN [c EXCEPT !.ph = "idle"]
                           ELSE [c EXCEPT !.ph = "extend", !.seen = k]
    BY Zenon
  <2>5. cl' = [cl EXCEPT ![p] = d]
    BY <1>4, <1>8, <2>4 DEF GrantStep
  <2>6. d.res = c.res /\ d.op = c.op /\ c.res \in Memory \cap minted
    BY <1>0, <1>4, <1>5, <2>2, <2>4 DEF ResTold, Client
  <2>7. ASSUME p \in alive PROVE Sure(p)'
    <3>1. cl'[p] = d /\ d.ph = "extend" /\ d.op = c.op /\ d.res = c.res
      BY <1>0, <1>5, <2>4, <2>5, <2>6, <2>7 DEF Client
    <3>2. Sure(p) /\ fate[p] # "ok"
      BY <1>0, <1>4, <2>2, <2>7 DEF Sure, PhaseFor
    <3>3. InFlight(p)'
      BY <1>4, <2>1, <2>2, <3>1 DEF InFlight
    <3>4. PhaseFor(p)'
      BY <2>1, <3>1, <3>2, <3>3 DEF PhaseFor
    <3>5. \A m \in Memory : TxnFor(m, p)' /\ DoneFor(m, p)'
      BY <1>4, <2>1, <3>1, <3>2 DEF Sure, TxnFor, DoneFor, Heard
    <3> QED BY <3>4, <3>5 DEF Sure
  <2>8. \A m \in Memory : CellKept(m)
    BY <2>1, CellsSame
  <2> QED BY <2>1, <2>3, <2>5, <2>6, <2>7, <2>8, <1>6
<1>9. CASE ReplyStep
  <2>1. UNCHANGED <<reg, arena, alive, minted, fate>> /\ Then(<<>>) /\ f.op = "reply"
    BY <1>1, <1>9 DEF ReplyStep
  <2>2. f \in Frames(todo)
    <3>1. 1 \in 1 .. Len(todo) /\ f = todo[1]
      BY <1>0, <1>1 DEF StateOK
    <3> QED BY <3>1 DEF Frames
  <2>3. PICK m, a : /\ m = c.res /\ a = f.res
                    /\ a \in {"done", "refused", "gone", "covered", "changed", "ok", "failed",
                              "raised"}
    BY <1>1, <2>1, FrameFields
  <2>4. m \in Memory
    BY <1>4, <2>1, <2>2, <2>3, Asking DEF Calls
  <2>5. \A h \in Under : h.op \in Calls => h.pid # p
    BY <1>1, <1>4, <2>1, OnceAnswered DEF Calls
  <2>6. PICK ph, ans :
          /\ ph = CASE a \in {"refused", "gone"} -> "idle"
                    [] a \in {"covered", "changed"} -> "look"
                    [] a \in {"done", "ok", "failed", "raised"} -> "ack"
          /\ ans = IF a = "ok" THEN "ok" ELSE IF a = "raised" THEN "raised" ELSE "failed"
    OBVIOUS
  <2>7. ph \in {"idle", "look", "ack"}
    BY <2>3, <2>6
  <2>8. PICK d : d = IF p \notin alive THEN [c EXCEPT !.ph = "idle"]
                     ELSE [c EXCEPT !.ph = ph, !.ans = ans]
    OBVIOUS
  <2>9. cl' = [cl EXCEPT ![p] = d]
    BY <1>4, <1>9, <2>3, <2>6, <2>8 DEF ReplyStep
  <2>10. d.res = c.res /\ d.op = c.op /\ c.res \in Memory \cap minted
    <3>1. d.res = c.res /\ d.op = c.op
      BY <1>5, <2>8 DEF Client
    <3>2. c.res \in Memory \cap minted
      BY <1>0, <1>4, <1>5, <2>3, <2>4, RowSets, ConstantsOK DEF ResTold
    <3> QED BY <3>1, <3>2
  <2>11. ASSUME p \in alive PROVE Sure(p)'
    <3>1. cl'[p] = d /\ d.ph = ph /\ d.ans = ans /\ d.op = c.op /\ d.res = c.res
      BY <1>0, <1>5, <2>8, <2>9, <2>10, <2>11 DEF Client
    <3>2. Truthful(p, a)
      <4>1. f.op \notin Ending
        BY <1>2
      <4> QED BY <1>4, <2>1, <2>2, <2>3, <2>11, <4>1 DEF Told, ReplyTold, Awaits
    <3>3. Believes(p)'
      <4>1. ans = "ok" => fate[p] = "ok"
        BY <2>3, <2>6, <3>2 DEF Truthful
      <4>2. ans \in {"failed", "raised"} /\ Live(m) => fate[p] # "ok"
        BY <1>4, <2>3, <2>6, <3>2 DEF Truthful
      <4>3. Live(m)' <=> Live(m)
        BY <2>1 DEF Live
      <4> QED BY <2>1, <2>3, <3>1, <4>1, <4>2, <4>3 DEF Believes
    <3>4. PhaseFor(p)'
      BY <2>7, <3>1, <3>3 DEF PhaseFor
    <3>5. ~InFlight(p)
      BY <3>2 DEF Truthful
    <3> QED BY <1>4, <2>1, <2>11, <3>1, <3>4, <3>5, SureAnew
  <2>12. \A x \in Memory : CellKept(x)
    <3>1. \/ UNCHANGED <<chunks, size>>
          \/ /\ m \notin Observable
             /\ chunks' = [chunks EXCEPT ![m] = c.tup]
             /\ size' = [size EXCEPT ![m] = c.seen + c.n]
      BY <1>4, <1>9, <2>3 DEF ReplyStep
    <3>2. \A x \in Memory \ {m} : chunks'[x] = chunks[x] /\ size'[x] = size[x]
      BY <1>0, <2>4, <3>1 DEF StateOK
    <3>3. UNCHANGED <<chunks, size>> \/ m \notin Observable
      BY <3>1
    <3> QED BY <2>1, <3>2, <3>3 DEF CellKept
  <2> QED BY <2>1, <2>5, <2>9, <2>10, <2>11, <2>12, <1>6
<1>10. CASE TxnRow
  <2>1. UNCHANGED <<cells, cl, alive, minted, fate>> /\ Then(<<g>>) /\ f.op = "txn"
    BY <1>1, <1>4, <1>10, <1>g DEF TxnRow, callers, Grant
  <2>2. PICK r : r = c.res
    OBVIOUS
  <2>3. c.ph \in {"begin", "queued"} /\ reg[r] # None /\ reg[r].txn = None
    BY <1>0, <1>1, <1>4, <2>1, <2>2 DEF HeadOK
  <2>4. r \in Memory /\ r \in Res /\ r \in minted /\ reg[r] \in Row
    <3>1. r \in Memory
      BY <1>0, <1>4, <1>5, <2>2, <2>3 DEF WriterOK, WriterIs
    <3>2. r \in minted
      BY <1>0, <1>4, <1>5, <2>2, <2>3 DEF ResTold
    <3> QED BY <1>0, <2>3, <3>1, <3>2, RowSets
  <2>5. \A h \in Under : h.op \in Calls => h.pid # p
    BY <1>1, <1>4, <2>1, OnceAnswered DEF Calls
  <2>6. PICK w, t : w = Started(p) /\ t = NewTxn(p)
    OBVIOUS
  <2>7. /\ w.txn = t /\ w.state = reg[r].state /\ w.done = [reg[r].done EXCEPT ![p] = None]
        /\ t.pid = p /\ t.op = c.op
    <3>1. t.pid = p /\ t.op = c.op
      BY <1>4, <2>6 DEF NewTxn
    <3>2. /\ w.txn = t /\ w.state = reg[r].state /\ w.done = [reg[r].done EXCEPT ![p] = None]
      <4>1. r = cl[p].res
        BY <1>4, <2>2
      <4> QED BY <2>4, <2>6, <4>1 DEF Started, Row
    <3> QED BY <3>1, <3>2
  <2>8. reg' = [reg EXCEPT ![r] = w]
    BY <1>4, <1>10, <2>2, <2>6 DEF TxnRow
  <2>9. reg'[r] = w /\ \A m \in Res \ {r} : reg'[m] = reg[m]
    BY <1>0, <2>4, <2>8, RowSet
  <2>10. w.done[p] = None /\ \A q \in Pid \ {p} : w.done[q] = reg[r].done[q]
    <3>1. PICK d : d = reg[r].done
      OBVIOUS
    <3>2. d \in [Pid -> Outcome \cup {None}]
      BY <2>4, <3>1, RowFields
    <3>3. w.done = [d EXCEPT ![p] = None]
      BY <2>7, <3>1
    <3> QED BY <1>5, <3>1, <3>2, <3>3
  <2>11. \A q \in Pid \ {p} : \A m \in Memory : SoftFor(m, q)
    <3> SUFFICES ASSUME NEW q \in Pid \ {p}, NEW m \in Memory PROVE SoftFor(m, q)
      OBVIOUS
    <3>1. CASE m = r
      BY <2>3, <2>7, <2>9, <2>10, <3>1 DEF SoftFor, NotOf
    <3>2. CASE m # r
      BY <2>9, <3>2, SoftSame, RowSets
    <3> QED BY <3>1, <3>2
  <2>12. DoneTold'
    <3> SUFFICES ASSUME NEW m \in Memory, reg'[m] # None, reg'[m].txn # None
                 PROVE  reg'[m].done[reg'[m].txn.pid] = None
      BY DEF DoneTold
    <3>1. CASE m = r
      BY <2>7, <2>9, <2>10, <3>1
    <3>2. CASE m # r
      BY <1>0, <2>9, <3>2, RowSets DEF DoneTold
    <3> QED BY <3>1, <3>2
  <2>13. ASSUME p \in alive PROVE Sure(p)'
    <3>1. Sure(p) /\ fate[p] # "ok"
      BY <1>0, <1>4, <2>3, <2>13 DEF Sure, PhaseFor
    <3>2. PhaseFor(p)'
      BY <1>4, <2>1, <2>3, <3>1 DEF PhaseFor
    <3>3. ASSUME NEW m \in Memory PROVE TxnFor(m, p)' /\ DoneFor(m, p)'
      <4>1. CASE m = r
        BY <1>4, <2>1, <2>2, <2>3, <2>7, <2>9, <2>10, <4>1, Zenon DEF TxnFor, DoneFor, Heard
      <4>2. CASE m # r
        BY <2>1, <2>9, <3>1, <4>2, RowSets DEF Sure, TxnFor, DoneFor
      <4> QED BY <4>1, <4>2
    <3> QED BY <3>2, <3>3 DEF Sure
  <2>14. \A m \in Memory : CellKept(m)
    BY <2>1, CellsSame
  <2>15. \A m \in Memory : reg'[m] # None => reg[m] # None /\ reg'[m].state = reg[m].state
    BY <2>3, <2>7, <2>9, RowSets
  <2>16. cl'[p].res \in Memory \cap minted
    BY <1>4, <2>1, <2>2, <2>4
  <2>17. \A q \in Pid \ {p} : cl'[q] = cl[q] /\ fate'[q] = fate[q]
    BY <2>1
  <2> QED BY <1>1, <1>2, <1>5, <1>h, <2>1, <2>5, <2>11, <2>12, <2>13, <2>14, <2>15, <2>16,
             <2>17, PopsWith
<1> QED BY <1>7, <1>8, <1>9, <1>10

\* What a request comes to.
Refusals == {"gone", "done", "refused", "covered", "changed"}

\* What a begin puts on the stack.
LEMMA BeginPuts ==
    ASSUME NEW p \in Pid, NEW t \in Seq(Frame), Begin(p, t)
    PROVE  \/ transaction(p) = "queue" /\ todo' = t
           \/ \E g \in Frame : /\ g.op \in {"txn", "grant"} /\ todo' = <<g>> \o t
           \/ \E g \in Frame : /\ transaction(p) \in Refusals /\ todo' = <<g>> \o t
                               /\ g.op = "reply" /\ g.pid = p /\ g.res = transaction(p)
<1>1. PICK d : d = transaction(p)
  OBVIOUS
<1>2. d \in {"gone", "done", "resume", "queue", "start", "refused", "covered", "changed"}
  BY <1>1, TransactionIs
<1>3. todo' = (CASE d = "start" -> <<[op |-> "txn", pid |-> p]>>
                 [] d = "resume" -> Grant(p)
                 [] d = "queue" -> <<>>
                 [] OTHER -> Reply(p, d)) \o t
  BY <1>1 DEF Begin
<1>4. PICK x, g, h : /\ x = [op |-> "txn", pid |-> p]
                     /\ g = [op |-> "grant", pid |-> p]
                     /\ h = [op |-> "reply", pid |-> p, res |-> d]
  OBVIOUS
<1>5. /\ x \in Frame /\ x.op = "txn" /\ g \in Frame /\ g.op = "grant"
      /\ h.op = "reply" /\ h.pid = p /\ h.res = d
      /\ d \in Refusals => h \in Frame
  BY <1>4 DEF Frame, Refusals
<1>6. CASE d = "start"
  <2>1. todo' = <<x>> \o t
    BY <1>3, <1>4, <1>6
  <2> QED BY <1>5, <2>1
<1>7. CASE d = "resume"
  <2>1. todo' = <<g>> \o t
    BY <1>3, <1>4, <1>7 DEF Grant
  <2> QED BY <1>5, <2>1
<1>8. CASE d = "queue"
  <2>1. todo' = <<>> \o t
    BY <1>3, <1>8
  <2>2. todo' = t
    BY <2>1
  <2> QED BY <1>1, <1>8, <2>2
<1>9. CASE d \in Refusals
  <2>1. todo' = <<h>> \o t
    BY <1>3, <1>4, <1>9 DEF Reply, Refusals
  <2> QED BY <1>1, <1>5, <1>9, <2>1
<1> QED BY <1>2, <1>6, <1>7, <1>8, <1>9 DEF Refusals

\* A request that is turned down left nothing behind.
LEMMA TurnedDown ==
    ASSUME Inv, Told, up, todo = <<>> \/ Head(todo).op \notin Cleanup \cup {"retiring"},
           NEW p \in alive, cl[p].ph \in {"begin", "queued"}, cl[p].res \in Memory,
           transaction(p) \in Refusals
    PROVE  Truthful(p, transaction(p))
<1> DEFINE r == cl[p].res
<1>1. p \in Pid /\ Sure(p) /\ DoneTold
  BY DEF Inv, StateOK, Told
<1>2. fate[p] # "ok"
  BY <1>1 DEF Sure, PhaseFor
<1>3. ~InFlight(p)
  <2> SUFFICES ASSUME InFlight(p) PROVE FALSE
    OBVIOUS
  <2>1. reg[r] # None /\ reg[r].txn # None /\ reg[r].txn.pid = p /\ reg[r].txn.op = cl[p].op
    BY DEF InFlight
  <2>2. Live(r)
    BY <2>1, NoneMarked DEF Live
  <2>3. reg[r].done[p] = None
    BY <1>1, <2>1 DEF DoneTold
  <2>4. transaction(p) = "resume"
    BY <2>1, <2>2, <2>3 DEF transaction
  <2> QED BY <2>4 DEF Refusals
<1>4. transaction(p) # "ok"
  BY DEF Refusals
<1> QED BY <1>2, <1>3, <1>4 DEF Truthful

\* A request is begun.
LEMMA BeginTold ==
    ASSUME Inv, Told, up, todo = <<>> \/ Head(todo).op = "next",
           NEW p \in Pid, cl[p].ph \in {"begin", "queued"}, Begin(p, todo),
           UNCHANGED <<reg, cells, fate, alive, minted>>,
           \/ UNCHANGED cl
           \/ cl' = [cl EXCEPT ![p] = [cl[p] EXCEPT !.ph = "queued"]]
    PROVE  Told'
<1>0. /\ StateOK /\ ResTold /\ DoneTold /\ GoneTold /\ ReplyTold /\ WriterOK
      /\ \A q \in alive : Sure(q)
      /\ cl \in [Pid -> Client] /\ alive \subseteq Pid /\ todo \in Seq(Frame)
  BY DEF Inv, Told, StateOK
<1>1. todo = <<>> \/ Head(todo).op \notin Ending \cup Cleanup \cup Tells \cup {"retiring"}
  BY DEF Ending, Committing, Cleanup, Tells
<1>2. \A q \in Pid : /\ cl'[q].res = cl[q].res /\ cl'[q].op = cl[q].op /\ cl'[q].ans = cl[q].ans
                     /\ cl'[q].ph = cl[q].ph \/ (q = p /\ cl'[q].ph = "queued")
  <2>1. cl[p] \in Client
    BY <1>0
  <2>2. PICK d : d = [cl[p] EXCEPT !.ph = "queued"]
    OBVIOUS
  <2>3. /\ d.ph = "queued" /\ d.res = cl[p].res /\ d.op = cl[p].op /\ d.ans = cl[p].ans
    BY <2>1, <2>2 DEF Client
  <2>4. UNCHANGED cl \/ cl' = [cl EXCEPT ![p] = d]
    BY <2>2
  <2> QED BY <1>0, <2>3, <2>4
<1>3. RetireTold' /\ DoneTold'
  <2>1. RetireTold'
    BY <1>1, StillUnmarked
  <2> QED BY <1>0, <2>1 DEF DoneTold
<1>4. \A q \in Pid : InFlight(q)' = InFlight(q) /\ \A a : Truthful(q, a) => Truthful(q, a)'
  BY <1>2 DEF InFlight, Truthful, Live
<1>5. cl[p].res \in Memory \cap minted
  BY <1>0 DEF ResTold
<1>6. ResTold'
  <2> SUFFICES ASSUME NEW q \in Pid
               PROVE  \/ cl'[q].res \in Memory \cap minted
                      \/ cl'[q].res = None /\ cl'[q].ans = "none" /\ cl'[q].ph = "idle"
    BY DEF ResTold
  <2> QED BY <1>0, <1>2, <1>5 DEF ResTold
<1>7. ASSUME NEW q \in alive PROVE Sure(q)'
  <2>1. q \in Pid /\ Sure(q)
    BY <1>0
  <2>2. CASE cl'[q].ph = cl[q].ph
    <3>1. PhaseFor(q)'
      <4>1. /\ Believes(q) => Believes(q)'
            /\ outcome(q)' = outcome(q)
            /\ InFlight(q)' = InFlight(q)
            /\ Live(cl[q].res)' = Live(cl[q].res)
        BY <1>2, <2>1 DEF Believes, outcome, InFlight, Live
      <4>2. published(cl[q].res, reg[cl[q].res].txn)' = published(cl[q].res, reg[cl[q].res].txn)
        BY <1>2, <2>1 DEF published, cells
      <4> QED BY <1>2, <2>1, <2>2, <4>1, <4>2 DEF Sure, PhaseFor
    <3>2. \A m \in Memory : TxnFor(m, q)' /\ DoneFor(m, q)'
      BY <1>2, <2>1, <2>2 DEF Sure, TxnFor, DoneFor
    <3> QED BY <3>1, <3>2 DEF Sure
  <2>3. CASE q = p /\ cl'[q].ph = "queued"
    <3>1. fate[q] # "ok"
      BY <2>1, <2>3 DEF Sure, PhaseFor
    <3>2. PhaseFor(q)'
      BY <2>3, <3>1 DEF PhaseFor
    <3>3. \A m \in Memory : TxnFor(m, q)' /\ DoneFor(m, q)'
      BY <1>2, <2>1, <2>3 DEF Sure, TxnFor, DoneFor, Heard
    <3> QED BY <3>2, <3>3 DEF Sure
  <2> QED BY <1>2, <2>1, <2>2, <2>3
<1>8. ASSUME NEW h \in Frames(todo), h.op = "reply", h.pid \in alive
      PROVE  Truthful(h.pid, h.res)'
  <2>1. todo # <<>>
    <3>1. Len(<<>>) = 0
      OBVIOUS
    <3> QED BY <3>1 DEF Frames
  <2>2. Truthful(h.pid, h.res)
    BY <1>0, <1>1, <1>8, <2>1 DEF ReplyTold, Awaits
  <2> QED BY <1>0, <1>4, <1>8, <2>2
<1>9. HeadTold' /\ GoneTold' /\ ReplyTold'
  <2>1. CASE todo' = todo
    <3>1. HeadTold'
      BY <1>1, <2>1, Hushed
    <3> QED BY <1>0, <1>8, <2>1, <3>1 DEF GoneTold, ReplyTold
  <2>2. ASSUME NEW g \in Frame, todo' = <<g>> \o todo, g.op \in {"txn", "grant", "reply"},
               g.op = "reply" /\ g.pid \in alive => Truthful(g.pid, g.res)'
        PROVE  HeadTold' /\ GoneTold' /\ ReplyTold'
    <3>1. Frames(todo') = {g} \cup Frames(todo) /\ todo' # <<>> /\ Head(todo') = g
      BY <1>0, <2>2, FramesPut
    <3>2. HeadTold'
      BY <2>2, <3>1, Hushed DEF Tells, Ending, Committing
    <3>3. GoneTold'
      BY <1>0, <2>2, <3>1 DEF GoneTold
    <3>4. ReplyTold'
      BY <1>8, <2>2, <3>1 DEF ReplyTold
    <3> QED BY <3>2, <3>3, <3>4
  <2>3. ASSUME NEW g \in Frame, todo' = <<g>> \o todo, g.op \in {"txn", "grant"}
        PROVE  HeadTold' /\ GoneTold' /\ ReplyTold'
    BY <2>2, <2>3
  <2>4. ASSUME NEW g \in Frame, todo' = <<g>> \o todo, transaction(p) \in Refusals,
               g.op = "reply", g.pid = p, g.res = transaction(p)
        PROVE  HeadTold' /\ GoneTold' /\ ReplyTold'
    <3>1. PICK a : a = transaction(p)
      OBVIOUS
    <3>2. p \in alive => Truthful(p, a)'
      BY <1>1, <1>4, <1>5, <2>4, <3>1, TurnedDown
    <3>3. g.op = "reply" /\ g.pid \in alive => Truthful(g.pid, g.res)'
      BY <2>4, <3>1, <3>2
    <3> QED BY <2>2, <2>4, <3>3
  <2> QED BY <1>0, <2>1, <2>3, <2>4, BeginPuts
<1> QED BY <1>3, <1>6, <1>7, <1>9 DEF Told

\* A begin, or the next grower of the queue.
LEMMA QueueTold ==
    ASSUME Inv, Told, NextTransaction \/ \E p \in Pid : HandleBegin(p)
    PROVE  Told'
<1>0. StateOK /\ QueueOK /\ cl \in [Pid -> Client]
  BY DEF Inv, StateOK
<1>1. ASSUME NEW p \in Pid, HandleBegin(p) PROVE Told'
  <2>1. /\ up /\ todo = <<>> /\ cl[p].ph = "begin" /\ Begin(p, todo)
        /\ UNCHANGED <<reg, cells, fate, alive, minted>>
    BY <1>1 DEF HandleBegin, Idle
  <2>2. \/ UNCHANGED cl
        \/ cl' = [cl EXCEPT ![p] = [cl[p] EXCEPT !.ph = "queued"]]
    BY <1>1 DEF HandleBegin
  <2> QED BY <2>1, <2>2, BeginTold
<1>2. CASE NextTransaction
  <2> DEFINE f == Head(todo)
  <2>1. up /\ todo # <<>> /\ f \in Frame /\ f.op = "next"
        /\ UNCHANGED <<reg, cells, cl, fate, alive, minted>>
    BY <1>2, HeadFrame DEF NextTransaction, callers
  <2>2. PICK r \in Memory : r = f.res
    BY <2>1, FrameFields
  <2>3. CASE queued[r] # <<>> /\ Begin(Head(queued[r]), todo)
    <3>1. PICK p : p = Head(queued[r])
      OBVIOUS
    <3>2. queued[r] \in Seq(Pid)
      BY <1>0 DEF StateOK
    <3>3. p \in Pid /\ 1 \in 1 .. Len(queued[r]) /\ p = queued[r][1]
      BY <2>3, <3>1, <3>2
    <3>4. cl[p].ph = "queued"
      BY <1>0, <3>3 DEF QueueOK
    <3> QED BY <2>1, <2>3, <3>1, <3>3, <3>4, BeginTold
  <2>4. CASE Then(<<>>)
    <3>1. f.op \notin Ending \cup Cleanup \cup {"retiring"}
      BY <2>1 DEF Ending, Committing, Cleanup
    <3>2. PICK D : D = {}
      OBVIOUS
    <3>3. /\ HeadTold' /\ Frames(todo') \subseteq Under \cup D
          /\ \A h \in D : /\ h.op # "reply"
                          /\ h.op = "gone" => \A x \in h.set : x[2] \notin alive
      BY <2>1, <2>4, <3>2, HeadGoes, StackGoes
    <3>4. RetireTold' /\ \A m \in Memory : Gentle(m)
      BY <2>1, <3>1, SameRowTold
    <3>5. \A m \in Memory : CellKept(m)
      BY <2>1, CellsSame
    <3> QED BY <2>1, <3>1, <3>3, <3>4, <3>5, GoesQuietly
  <2> QED BY <1>2, <2>2, <2>3, <2>4 DEF NextTransaction
<1> QED BY <1>1, <1>2

-----------------------------------------------------------------------------
(* Requests taken when the keeper is idle.                                 *)

\* A stack of one step.
LEMMA OneFrame == ASSUME NEW a PROVE Frames(<<a>>) = {a}
BY DEF Frames

\* A stack of no more than two frames.
LEMMA FewFrames ==
    ASSUME NEW a, NEW b, todo' = <<>> \/ todo' = <<a>> \/ todo' = <<a>> \o <<b>>
    PROVE  Frames(todo') \subseteq {a, b} /\ (todo' # <<>> => Head(todo') = a)
<1>1. CASE todo' = <<>>
  <2>1. Frames(<<>>) = {}
    BY DEF Frames
  <2> QED BY <1>1, <2>1
<1>2. CASE todo' = <<a>>
  <2>1. Head(<<a>>) = a
    OBVIOUS
  <2> QED BY <1>2, <2>1, OneFrame
<1>3. CASE todo' = <<a>> \o <<b>>
  <2>1. a \in {a, b} /\ <<b>> \in Seq({a, b}) /\ Frames(<<b>>) = {b}
    BY OneFrame
  <2>2. Frames(todo') = {a} \cup {b} /\ Head(todo') = a
    BY <1>3, <2>1, FramesPut
  <2> QED BY <2>2
<1> QED BY <1>1, <1>2, <1>3

\* A request that answers nobody and ends nothing begins.
LEMMA FromRest ==
    ASSUME Inv, Told, Idle, UNCHANGED <<cl, fate>>, alive' \subseteq alive, minted \subseteq minted',
           \A m \in Memory : Gentle(m), \A m \in Memory \cap minted : CellKept(m),
           \A m \in Memory : reg'[m] # None => reg'[m].state = reg[m].state,
           NEW D, Frames(todo') \subseteq D,
           \A f \in D : /\ f.op # "reply"
                        /\ f.op = "gone" => \A x \in f.set : x[2] \notin alive,
           HeadTold'
    PROVE  Told'
<1>1. ResTold' /\ DoneTold' /\ \A p \in alive' : Sure(p)'
  BY Passes
<1>2. RetireTold'
  BY StillUnmarked DEF Idle, Gentle
<1>3. GoneTold' /\ ReplyTold'
  BY DEF GoneTold, ReplyTold
<1> QED BY <1>1, <1>2, <1>3 DEF Told

\* The requests of holders.
LEMMA RequestTold ==
    ASSUME Inv, Told, NEW p \in Pid, Request(p)
    PROVE  Told'
<1>0. StateOK /\ ResTold
  BY DEF Inv, Told
<1>q. ASSUME Idle, UNCHANGED <<cl, fate, alive>>, minted \subseteq minted',
             \A m \in Memory \cap minted : CellKept(m),
             \A m \in Memory : Gentle(m),
             \A m \in Memory : reg'[m] # None => reg'[m].state = reg[m].state,
             NEW a, NEW b, todo' = <<>> \/ todo' = <<a>> \/ todo' = <<a>> \o <<b>>,
             a.op \notin Ending \cup {"reply", "gone"}, b.op \notin {"reply", "gone"},
             a.op = "insert" => \A q \in Pid : cl[q].res # a.res
      PROVE  Told'
  <2>1. Frames(todo') \subseteq {a, b} /\ (todo' # <<>> => Head(todo') = a)
    BY <1>q, FewFrames
  <2>2. PICK D : D = {a, b}
    OBVIOUS
  <2>3. HeadTold'
    BY <1>q, <2>1 DEF HeadTold, Ending
  <2> QED BY <1>q, <2>1, <2>2, <2>3, FromRest
<1>s. ASSUME Idle, UNCHANGED <<reg, cl, fate, alive>>, minted \subseteq minted',
             \A m \in Memory \cap minted : CellKept(m),
             NEW a, NEW b, todo' = <<>> \/ todo' = <<a>> \/ todo' = <<a>> \o <<b>>,
             a.op \notin Ending \cup {"reply", "gone"}, b.op \notin {"reply", "gone"},
             a.op = "insert" => \A q \in Pid : cl[q].res # a.res
      PROVE  Told'
  <2>1. \A m \in Memory : Gentle(m)
    BY <1>s, GentleSame
  <2>2. \A m \in Memory : reg'[m] # None => reg'[m].state = reg[m].state
    BY <1>s
  <2> QED BY <1>s, <2>1, <2>2, <1>q
<1>c. UNCHANGED cells => \A m \in Memory \cap minted : CellKept(m)
  BY CellsSame
<1>o. \A op \in {"insert", "drops", "setcap", "retags", "shrunk", "grown"} :
        op \notin Ending \cup {"reply", "gone"}
  BY DEF Ending, Committing
<1>n. \A r \in Res \ minted : \A q \in Pid : cl[q].res # r
  BY <1>0, RowSets, ConstantsOK DEF ResTold
<1>1. ASSUME NEW r \in Res, NEW t \in Token, Reserve(p, r, t) PROVE Told'
  <2>1. PICK a : a = [op |-> "insert", pid |-> p, res |-> r, tok |-> t]
    OBVIOUS
  <2>2. a.op = "insert" /\ a.res = r
    BY <2>1
  <2>3. Idle /\ UNCHANGED <<reg, cl, fate, alive>> /\ r \notin minted
        /\ minted \subseteq minted' /\ (todo' = <<a>> \/ todo' = <<>>)
    BY <1>1, <2>1 DEF Reserve, Idle, Insert
  <2>4. \A m \in Memory \cap minted : CellKept(m)
    <3>1. UNCHANGED <<chunks, size>> /\ (UNCHANGED arena \/ arena' = [arena EXCEPT ![r] = 0])
      BY <1>1 DEF Reserve
    <3>2. \A m \in Memory \cap minted : arena'[m] = arena[m]
      BY <1>0, <2>3, <3>1 DEF StateOK
    <3> QED BY <3>1, <3>2 DEF CellKept
  <2>5. \A q \in Pid : cl[q].res # a.res
    BY <1>1, <1>n, <2>2, <2>3
  <2> QED BY <1>o, <2>2, <2>3, <2>4, <2>5, <1>s
<1>2. ASSUME NEW r \in Res, NEW t \in Token, Acquire(p, r, t) PROVE Told'
  <2>1. Idle /\ todo' = <<>> /\ UNCHANGED <<cells, cl, fate, alive, minted>>
    BY <1>2 DEF Acquire, callers, Idle
  <2>2. \/ UNCHANGED reg
        \/ reg[r] # None /\ reg' = [reg EXCEPT ![r].holders = @ \cup {t}]
    BY <1>2 DEF Acquire, Live
  <2>3. \A m \in Memory : Gentle(m) /\ (reg'[m] # None => reg'[m].state = reg[m].state)
    <3>1. CASE UNCHANGED reg
      BY <3>1, GentleSame
    <3>2. ASSUME NEW h, reg[r] # None, reg' = [reg EXCEPT ![r].holders = h]
          PROVE  \A m \in Memory : Gentle(m) /\ (reg'[m] # None => reg'[m].state = reg[m].state)
      <4>1. PICK s : s = reg[r].state
        OBVIOUS
      <4> QED BY <1>0, <3>2, <4>1, GentleLabels
    <3> QED BY <2>2, <3>1, <3>2
  <2>4. PICK a : a = [op |-> "drops"]
    OBVIOUS
  <2>5. a.op = "drops"
    BY <2>4
  <2> QED BY <1>c, <1>o, <2>1, <2>3, <2>5, <1>q
<1>d. ASSUME Idle, UNCHANGED <<reg, cells, cl, fate, alive, minted>>, NEW S,
             todo' = Each("drops", S) PROVE Told'
  <2>1. PICK a : a = [op |-> "drops", set |-> S]
    OBVIOUS
  <2>2. a.op = "drops" /\ (todo' = <<>> \/ todo' = <<a>>)
    BY <1>d, <2>1 DEF Each
  <2> QED BY <1>d, <1>c, <1>o, <2>2, <1>s
<1>3. ASSUME NEW r \in Res, NEW t \in Token, Release(p, r, t) PROVE Told'
  BY <1>3, <1>d DEF Release, durable, cells, callers
<1>4. ASSUME NEW t \in Token, Destroy(p, t) PROVE Told'
  BY <1>4, <1>d DEF Destroy, durable, cells, callers
<1>5. ASSUME NEW t \in Token, Discard(p, t) PROVE Told'
  <2>1. PICK S, a, b : /\ S = {x \in held : x[2] = t} /\ a = [op |-> "drops", set |-> S]
                       /\ b = [op |-> "setcap", tok |-> t, n |-> NoCap]
    OBVIOUS
  <2>2. a.op = "drops" /\ b.op = "setcap"
    BY <2>1
  <2>3. Idle /\ UNCHANGED <<reg, cells, cl, fate, alive, minted>>
        /\ todo' = Each("drops", S) \o <<b>>
    BY <1>5, <2>1 DEF Discard, durable, cells, SetCapTo
  <2>4. todo' = <<b>> \/ todo' = <<a>> \o <<b>>
    <3>1. CASE S = {}
      <4>1. todo' = <<>> \o <<b>>
        BY <2>3, <3>1 DEF Each
      <4>2. \A x : <<>> \o <<x>> = <<x>>
        OBVIOUS
      <4> QED BY <4>1, <4>2
    <3>2. CASE S # {}
      BY <2>1, <2>3, <3>2 DEF Each
    <3> QED BY <3>1, <3>2
  <2>5. CASE todo' = <<b>>
    BY <1>c, <1>o, <2>2, <2>3, <2>5, <1>s
  <2>6. CASE todo' = <<a>> \o <<b>>
    BY <1>c, <1>o, <2>2, <2>3, <2>6, <1>s
  <2> QED BY <2>4, <2>5, <2>6
<1>6. ASSUME NEW t \in Token, Transfer(p, t) PROVE Told'
  <2>1. PICK S, n, a, b :
          /\ S = {x \in held : x[2] = t} /\ n = caps[t]
          /\ a = [op |-> "setcap", tok |-> InstanceOf[t], n |-> n]
          /\ b = [op |-> "retags", set |-> S]
    OBVIOUS
  <2>2. a.op = "setcap" /\ b.op = "retags"
    BY <2>1
  <2>3. Idle /\ UNCHANGED <<reg, cells, cl, fate, alive, minted>>
        /\ \/ todo' = <<a>> \o Each("retags", S) /\ S # {}
           \/ todo' = Each("retags", S)
    BY <1>6, <2>1 DEF Transfer, cells, SetCapTo
  <2>4. todo' = <<>> \/ todo' = <<b>> \/ todo' = <<a>> \o <<b>>
    BY <2>1, <2>3 DEF Each
  <2>5. CASE todo' = <<b>> \/ todo' = <<>>
    BY <1>c, <1>o, <2>2, <2>3, <2>5, <1>s
  <2>6. CASE todo' = <<a>> \o <<b>>
    BY <1>c, <1>o, <2>2, <2>3, <2>6, <1>s
  <2> QED BY <2>4, <2>5, <2>6
<1>7. ASSUME NEW t \in Token, LostBuildCall(p, t) PROVE Told'
  <2>1. UNCHANGED <<reg, cells, up, todo, cl, fate, alive, minted>>
    BY <1>7 DEF LostBuildCall, durable, cells
  <2>2. /\ \A q : InFlight(q)' = InFlight(q) /\ outcome(q)' = outcome(q)
        /\ \A m : Live(m)' = Live(m)
        /\ \A m, x : published(m, x)' = published(m, x)
    BY <2>1 DEF InFlight, outcome, Live, published, cells
  <2>3. \A q : Sure(q)' = Sure(q)
    BY <2>1, <2>2 DEF Sure, PhaseFor, Believes, TxnFor, DoneFor
  <2>4. ReplyTold' = ReplyTold
    BY <2>1, <2>2 DEF ReplyTold, Truthful, Awaits
  <2> QED BY <2>1, <2>3, <2>4 DEF Told, RetireTold, GoneTold, ResTold, DoneTold, HeadTold
<1>8. ASSUME NEW r \in Heap, NEW w \in HeapSizes, Reconcile(p, r, w) PROVE Told'
  <2>1. PICK a, b, k : /\ k = reg[r].pages - w /\ a = [op |-> "shrunk", res |-> r, n |-> k]
                       /\ b = [op |-> "grown", res |-> r, n |-> w]
    OBVIOUS
  <2>2. a.op = "shrunk" /\ b.op = "grown"
    BY <2>1
  <2>3. /\ Idle /\ UNCHANGED <<cells, cl, fate, alive, minted>>
        /\ todo' = <<a>> \/ todo' = <<b>>
        /\ UNCHANGED reg \/ reg' = [reg EXCEPT ![r].pages = w]
    BY <1>8, <2>1 DEF Reconcile, callers
  <2>4. \A m \in Memory : reg'[m] = reg[m]
    <3>1. r \in Res /\ r \notin Memory
      BY RowSets, ConstantsOK DEF Res
    <3> QED BY <1>0, <2>3, <3>1, RowSets DEF StateOK
  <2>5. \A m \in Memory : Gentle(m) /\ (reg'[m] # None => reg'[m].state = reg[m].state)
    BY <2>4, GentleSame
  <2>6. CASE todo' = <<a>>
    BY <1>c, <1>o, <2>2, <2>3, <2>5, <2>6, <1>q
  <2>7. CASE todo' = <<b>>
    BY <1>c, <1>o, <2>2, <2>3, <2>5, <2>7, <1>q
  <2> QED BY <2>3, <2>6, <2>7
<1>9. ASSUME NEW i \in Image, ImageReserve(p, i) PROVE Told'
  <2>1. PICK a : a = [op |-> "insert", pid |-> p, res |-> i, tok |-> SnapOf[i]]
    OBVIOUS
  <2>2. a.op = "insert" /\ a.res = i
    BY <2>1
  <2>3. Idle /\ UNCHANGED <<reg, cells, cl, fate, alive>> /\ i \notin minted
        /\ minted \subseteq minted' /\ todo' = <<a>>
    BY <1>9, <2>1 DEF ImageReserve, Insert
  <2>4. i \in Res
    BY DEF Res
  <2>5. \A q \in Pid : cl[q].res # a.res
    BY <1>n, <2>2, <2>3, <2>4
  <2> QED BY <1>c, <1>o, <2>2, <2>3, <2>5, <1>s
<1> QED BY <1>1, <1>2, <1>3, <1>4, <1>5, <1>6, <1>7, <1>8, <1>9 DEF Request

-----------------------------------------------------------------------------
(* The end of a growth, as its writer asks for it.                         *)

\* The row of m but for the outcome kept for p.
ButFor(m, p) ==
    reg'[m] # None =>
        /\ reg[m] # None
        /\ reg'[m].txn = reg[m].txn /\ reg'[m].state = reg[m].state
        /\ \A q \in Pid \ {p} : reg'[m].done[q] = reg[m].done[q]
        /\ reg'[m].done[p] \in {reg[m].done[p], None}

\* A begin drops no outcome but that of its own caller.
LEMMA OwnForgotten ==
    ASSUME StateOK, NEW p \in Pid, cl[p].res \in Memory, UNCHANGED reg \/ ForgetOutcome(p)
    PROVE  \A m \in Memory : ButFor(m, p) /\ (reg[m] = None <=> reg'[m] = None)
<1> DEFINE r == cl[p].res
<1>0. reg \in [Res -> Row \cup {None}] /\ r \in Res
  BY RowSets DEF StateOK
<1>1. CASE UNCHANGED reg
  BY <1>1 DEF ButFor
<1>2. CASE reg[r] # None /\ reg' = [reg EXCEPT ![r].done[p] = None]
  <2>1. reg[r] \in Row
    BY <1>0, <1>2
  <2>2. PICK d : d = reg[r].done
    OBVIOUS
  <2>3. d \in [Pid -> Outcome \cup {None}]
    BY <2>1, <2>2, RowFields
  <2>4. PICK e : e = [d EXCEPT ![p] = None]
    OBVIOUS
  <2>5. e[p] = None /\ \A q \in Pid \ {p} : e[q] = d[q]
    BY <2>3, <2>4
  <2>6. PICK w : w = [reg[r] EXCEPT !.done = e]
    OBVIOUS
  <2>7. w.txn = reg[r].txn /\ w.state = reg[r].state /\ w.done = e
    BY <2>1, <2>6 DEF Row
  <2>8. reg' = [reg EXCEPT ![r] = w]
    BY <1>0, <1>2, <2>2, <2>4, <2>6
  <2>9. reg'[r] = w /\ \A m \in Res \ {r} : reg'[m] = reg[m]
    BY <1>0, <2>8, RowSet
  <2>10. w # None
    <3>1. e \in [Pid -> Outcome \cup {None}]
      BY <2>3, <2>4
    <3>2. w \in Row
      BY <2>1, <2>6, <3>1 DEF Row
    <3> QED BY <3>2, RowSets
  <2>11. ASSUME NEW m \in Memory PROVE ButFor(m, p) /\ (reg[m] = None <=> reg'[m] = None)
    <3>1. CASE m = r
      BY <1>2, <2>2, <2>5, <2>7, <2>9, <2>10, <3>1 DEF ButFor
    <3>2. CASE m # r
      <4>1. reg'[m] = reg[m]
        BY <2>9, <3>2, RowSets
      <4> QED BY <4>1 DEF ButFor
    <3> QED BY <3>1, <3>2
  <2> QED BY <2>11
<1> QED BY <1>1, <1>2 DEF ForgetOutcome

\* What it does to one caller is nothing to the others.
LEMMA SoftBut ==
    ASSUME NEW m, NEW p, NEW q \in Pid \ {p}, ButFor(m, p) PROVE SoftFor(m, q)
BY DEF SoftFor, ButFor

\* Outcomes that are kept stay those of their operations.
LEMMA DoneBut ==
    ASSUME Inv, Told, NEW p \in Pid, \A m \in Memory : ButFor(m, p) PROVE DoneTold'
<1> SUFFICES ASSUME NEW m \in Memory, reg'[m] # None, reg'[m].txn # None
             PROVE  reg'[m].done[reg'[m].txn.pid] = None
  BY DEF DoneTold
<1>1. reg[m] # None /\ reg'[m].txn = reg[m].txn
  BY DEF ButFor
<1>2. reg[m] \in Row
  BY <1>1, RowSets DEF Inv, StateOK
<1>3. reg[m].txn.pid \in Pid /\ reg[m].done[reg[m].txn.pid] = None
  BY <1>1, <1>2, RowEnds, Zenon DEF Told, DoneTold
<1> QED BY <1>1, <1>3 DEF ButFor

\* An answer, and what is to be done before it.
LEMMA AnswersNow ==
    ASSUME Inv, Told, Idle, NEW p \in Pid, cl[p].res \in Memory,
           UNCHANGED <<cells, cl, fate, alive, minted>>,
           UNCHANGED reg \/ (ForgetOutcome(p) /\ cl[p].ph = "abort"),
           NEW b, b.op = "reply", b.pid = p,
           \/ todo' = <<b>> /\ (p \in alive => Truthful(p, b.res))
           \/ \E a : /\ todo' = <<a>> \o <<b>> /\ InFlight(p) /\ UNCHANGED reg
                     /\ a.op \in Ending /\ a.res = cl[p].res
                     /\ cl[p].ph = IF a.op = "settle" THEN "abort" ELSE "commit"
                     /\ b.res = IF a.op = "settle" THEN "raised" ELSE "ok"
    PROVE  Told'
<1> DEFINE r == cl[p].res
<1>0. StateOK /\ ResTold /\ \A q \in alive : Sure(q) /\ q \in Pid
  BY DEF Inv, Told, StateOK
<1>1. \A m \in Memory : ButFor(m, p) /\ (reg[m] = None <=> reg'[m] = None)
  BY <1>0, OwnForgotten
<1>2. DoneTold' /\ RetireTold'
  <2>1. RetireTold'
    BY <1>1, StillUnmarked DEF Idle, ButFor
  <2> QED BY <1>1, <2>1, DoneBut
<1>3. ResTold' /\ \A q \in alive' \ {p} : Sure(q)'
  <2>1. \A q \in Pid \ {p} : \A m \in Memory : SoftFor(m, q)
    BY <1>1, SoftBut
  <2>2. \A q \in alive \ {p} : CellKept(cl[q].res)
    BY CellsSame
  <2>3. /\ alive' \subseteq alive /\ minted \subseteq minted'
        /\ \A q \in Pid \ {p} : cl'[q] = cl[q] /\ fate'[q] = fate[q]
        /\ \/ cl'[p].res \in Memory \cap minted'
           \/ cl'[p].res = None /\ cl'[p].ans = "none" /\ cl'[p].ph = "idle"
    BY <1>0 DEF ResTold
  <2> QED BY <2>1, <2>2, <2>3, OthersPass
<1>4. /\ InFlight(p)' = InFlight(p) /\ (Live(r)' <=> Live(r))
      /\ \A a : Truthful(p, a) => Truthful(p, a)'
  <2>1. /\ InFlight(p)' = InFlight(p) /\ (Live(r)' <=> Live(r))
    BY <1>1 DEF ButFor, InFlight, Live
  <2> QED BY <2>1 DEF Truthful
<1>5. ASSUME p \in alive PROVE Sure(p)'
  <2>1. Sure(p)
    BY <1>0, <1>5
  <2>2. \A m \in Memory : TxnFor(m, p)' /\ DoneFor(m, p)'
    BY <1>1, <2>1 DEF Sure, TxnFor, DoneFor, ButFor
  <2>3. PhaseFor(p)'
    <3>1. CASE UNCHANGED reg
      BY <2>1, <3>1 DEF Sure, PhaseFor, Believes, Live, InFlight, outcome, published, cells
    <3>2. CASE cl[p].ph = "abort"
      <4>1. fate[p] # "ok" /\ (Live(r) /\ InFlight(p) => ~published(r, reg[r].txn))
        BY <2>1, <3>2 DEF Sure, PhaseFor
      <4>2. Live(r)' => published(r, reg[r].txn)' = published(r, reg[r].txn)
        BY <1>1 DEF ButFor, published, cells, Live
      <4> QED BY <1>4, <3>2, <4>1, <4>2 DEF PhaseFor
    <3> QED BY <3>1, <3>2
  <2> QED BY <2>2, <2>3 DEF Sure
<1>6. GoneTold' /\ HeadTold' /\ ReplyTold'
  <2>1. CASE todo' = <<b>> /\ (p \in alive => Truthful(p, b.res))
    <3>1. Frames(todo') = {b} /\ Head(todo') = b
      BY <2>1, OneFrame, FewFrames
    <3>2. HeadTold'
      BY <3>1, Hushed DEF Tells, Ending, Committing
    <3>3. GoneTold'
      BY <3>1 DEF GoneTold
    <3>4. ReplyTold'
      BY <1>4, <2>1, <3>1 DEF ReplyTold
    <3> QED BY <3>2, <3>3, <3>4
  <2>2. ASSUME NEW a, todo' = <<a>> \o <<b>>, InFlight(p), UNCHANGED reg,
               a.op \in Ending, a.res = r,
               cl[p].ph = IF a.op = "settle" THEN "abort" ELSE "commit",
               b.res = IF a.op = "settle" THEN "raised" ELSE "ok"
        PROVE  GoneTold' /\ HeadTold' /\ ReplyTold'
    <3>1. Frames(todo') \subseteq {a, b} /\ Head(todo') = a
      <4>1. <<a>> \o <<b>> # <<>>
        OBVIOUS
      <4> QED BY <2>2, <4>1, FewFrames
    <3>2. HeadTold'
      <4>1. reg'[a.res].txn.pid = p
        BY <2>2 DEF InFlight
      <4>2. a.op \in Committing => a.op # "settle"
        BY DEF Committing
      <4>3. a.op # "insert"
        BY <2>2 DEF Ending, Committing
      <4> QED BY <2>2, <3>1, <4>1, <4>2, <4>3 DEF HeadTold
    <3>3. GoneTold'
      BY <2>2, <3>1 DEF GoneTold, Ending, Committing
    <3>4. ReplyTold'
      <4>1. Awaits(a, p, b.res)'
        BY <1>4, <2>2 DEF Awaits
      <4>2. a.op # "reply"
        BY <2>2 DEF Ending, Committing
      <4> QED BY <3>1, <4>1, <4>2 DEF ReplyTold
    <3> QED BY <3>2, <3>3, <3>4
  <2> QED BY <2>1, <2>2
<1> QED BY <1>2, <1>3, <1>5, <1>6 DEF Told

\* HandleCommit, HandleAbort.
LEMMA EndAskedTold ==
    ASSUME Inv, Told, NEW p \in Pid, HandleCommit(p) \/ HandleAbort(p)
    PROVE  Told'
<1> DEFINE r == cl[p].res
<1>0. /\ StateOK /\ DoneTold /\ \A q \in alive : Sure(q)
      /\ cl[p].ph \in {"commit", "abort"} /\ Idle
  BY DEF Inv, Told, HandleCommit, HandleAbort
<1>1. r \in Memory
  BY <1>0 DEF Inv, WriterOK, WriterIs
<1>2. CASE HandleCommit(p)
  <2>1. UNCHANGED <<reg, cells, cl, fate, alive, minted>> /\ cl[p].ph = "commit"
    BY <1>2 DEF HandleCommit, durable, cells, callers
  <2>2. CASE InFlight(p)
    <3>1. PICK a, b : /\ a = [op |-> IF reg[r].txn.kind = "grow" THEN "chunks" ELSE "arena",
                              res |-> r, pid |-> p]
                      /\ b = [op |-> "reply", pid |-> p, res |-> "ok"]
      OBVIOUS
    <3>2. /\ a.op \in {"chunks", "arena"} /\ a.res = r
          /\ b.op = "reply" /\ b.pid = p /\ b.res = "ok"
      BY <3>1
    <3>3. todo' = <<a>> \o <<b>>
      BY <1>2, <2>2, <3>1 DEF HandleCommit, Reply
    <3>4. a.op \in Ending /\ a.op # "settle"
      BY <3>2 DEF Ending, Committing
    <3> QED BY <1>0, <1>1, <2>1, <2>2, <3>2, <3>3, <3>4, AnswersNow
  <2>3. CASE ~InFlight(p)
    <3>1. PICK b, o : o = outcome(p) /\ b = [op |-> "reply", pid |-> p, res |-> o]
      OBVIOUS
    <3>2. b.op = "reply" /\ b.pid = p /\ b.res = o
      BY <3>1
    <3>3. todo' = <<b>>
      BY <1>2, <2>3, <3>1 DEF HandleCommit, Reply
    <3>4. ASSUME p \in alive PROVE Truthful(p, o)
      <4>1. Sure(p)
        BY <1>0, <3>4
      <4>2. Live(r) => o = "ok"
        BY <2>1, <2>3, <3>1, <4>1 DEF Sure, PhaseFor
      <4>3. o = "ok" => fate[p] = "ok"
        <5>1. DoneFor(r, p)
          BY <1>1, <4>1 DEF Sure
        <5> QED BY <3>1, <5>1 DEF outcome, DoneFor
      <4> QED BY <2>3, <4>2, <4>3 DEF Truthful
    <3> QED BY <1>0, <1>1, <2>1, <3>2, <3>3, <3>4, AnswersNow
  <2> QED BY <2>2, <2>3
<1>3. CASE HandleAbort(p)
  <2>1. UNCHANGED <<cells, cl, fate, alive, minted>> /\ cl[p].ph = "abort"
    BY <1>3 DEF HandleAbort, callers
  <2>2. PICK a, b : /\ a = [op |-> "settle", res |-> r]
                    /\ b = [op |-> "reply", pid |-> p, res |-> "raised"]
    OBVIOUS
  <2>3. /\ a.op = "settle" /\ a.res = r
        /\ b.op = "reply" /\ b.pid = p /\ b.res = "raised"
    BY <2>2
  <2>4. CASE InFlight(p)
    <3>1. todo' = <<a>> \o <<b>> /\ UNCHANGED reg
      BY <1>3, <2>2, <2>4 DEF HandleAbort, Do, Reply
    <3>2. a.op \in Ending
      BY <2>3 DEF Ending
    <3> QED BY <1>0, <1>1, <2>1, <2>3, <2>4, <3>1, <3>2, AnswersNow
  <2>5. CASE ~InFlight(p)
    <3>1. todo' = <<b>> /\ ForgetOutcome(p)
      BY <1>3, <2>2, <2>5 DEF HandleAbort, Reply
    <3>2. ASSUME p \in alive PROVE Truthful(p, "raised")
      BY <1>0, <2>1, <2>5, <3>2 DEF Sure, PhaseFor, Truthful
    <3> QED BY <1>0, <1>1, <2>1, <2>3, <3>1, <3>2, AnswersNow
  <2> QED BY <2>4, <2>5
<1> QED BY <1>2, <1>3

\* One process moves, and the keeper does no more than to begin with it.
LEMMA RestMoves ==
    ASSUME Inv, Told, Idle, NEW p \in Pid, UNCHANGED <<cells, fate, alive, minted>>,
           \A m \in Memory : ButFor(m, p) /\ (reg[m] = None <=> reg'[m] = None),
           \A q \in Pid \ {p} : cl'[q] = cl[q],
           \/ cl'[p].res \in Memory \cap minted
           \/ cl'[p].res = None /\ cl'[p].ans = "none" /\ cl'[p].ph = "idle",
           NEW a, a.op \notin Tells \cup {"reply", "gone"}, todo' = <<>> \/ todo' = <<a>>,
           p \in alive => Sure(p)'
    PROVE  Told'
<1>1. ResTold' /\ \A q \in alive' \ {p} : Sure(q)'
  <2>1. \A q \in Pid \ {p} : \A m \in Memory : SoftFor(m, q)
    BY SoftBut
  <2>2. \A q \in alive \ {p} : CellKept(cl[q].res)
    BY CellsSame
  <2>3. /\ alive' \subseteq alive /\ minted \subseteq minted'
        /\ \A q \in Pid \ {p} : cl'[q] = cl[q] /\ fate'[q] = fate[q]
        /\ \/ cl'[p].res \in Memory \cap minted'
           \/ cl'[p].res = None /\ cl'[p].ans = "none" /\ cl'[p].ph = "idle"
    OBVIOUS
  <2> QED BY <2>1, <2>2, <2>3, OthersPass
<1>2. DoneTold' /\ RetireTold'
  <2>1. RetireTold'
    BY StillUnmarked DEF Idle, ButFor
  <2> QED BY <2>1, DoneBut
<1>3. Frames(todo') \subseteq {a} /\ (todo' # <<>> => Head(todo') = a)
  BY FewFrames
<1>4. GoneTold' /\ ReplyTold'
  BY <1>3 DEF GoneTold, ReplyTold
<1>5. HeadTold'
  BY <1>3, Hushed
<1> QED BY <1>1, <1>2, <1>4, <1>5 DEF Told

\* HandleAck, HandleFree.
LEMMA AckTold ==
    ASSUME Inv, Told, NEW p \in Pid, HandleAck(p) \/ HandleFree(p)
    PROVE  Told'
<1> DEFINE c == cl[p]
           r == c.res
<1>0. /\ StateOK /\ ResTold /\ \A q \in alive : Sure(q)
      /\ c.ph \in {"ack", "free"} /\ Idle /\ cl \in [Pid -> Client] /\ c \in Client
  BY DEF Inv, Told, HandleAck, HandleFree, StateOK
<1>1. r \in Memory \cap minted
  BY <1>0 DEF ResTold
<1>a. PICK a, S : S = {<<c.res, c.tok>>} /\ a = [op |-> "drops", set |-> S]
  OBVIOUS
<1>b. a.op \notin Tells \cup {"reply", "gone"}
  <2>1. a.op = "drops"
    BY <1>a
  <2> QED BY <2>1 DEF Tells, Ending, Committing
<1>2. CASE HandleAck(p)
  <2>1. /\ UNCHANGED <<cells, fate, alive, minted>> /\ todo' = <<>>
        /\ ForgetOutcome(p) /\ c.ph = "ack"
    BY <1>2 DEF HandleAck, Idle
  <2>2. PICK ph : ph = AfterAck(p)
    OBVIOUS
  <2>3. ph \in {"idle", "look"}
    BY <2>2 DEF AfterAck
  <2>4. /\ cl'[p].ph = ph /\ cl'[p].res = r /\ cl'[p].op = c.op /\ cl'[p].ans = c.ans
        /\ \A q \in Pid \ {p} : cl'[q] = cl[q]
    <3>1. cl' = [cl EXCEPT ![p] = [c EXCEPT !.ph = ph]]
      BY <1>2, <2>2 DEF HandleAck
    <3> QED BY <1>0, <3>1 DEF Client
  <2>5. \A m \in Memory : ButFor(m, p) /\ (reg[m] = None <=> reg'[m] = None)
    BY <1>0, <1>1, <2>1, OwnForgotten
  <2>6. ASSUME p \in alive PROVE Sure(p)'
    <3>1. Sure(p) /\ Believes(p)
      BY <1>0, <2>1, <2>6 DEF Sure, PhaseFor
    <3>2. Live(r)' => Live(r)
      BY <1>1, <2>4, <2>5 DEF ButFor, Live
    <3>3. PhaseFor(p)'
      BY <2>1, <2>3, <2>4, <3>1, <3>2 DEF PhaseFor, Believes
    <3>4. c.ph \notin Heard
      BY <2>1 DEF Heard
    <3>5. \A m \in Memory : TxnFor(m, p)' /\ DoneFor(m, p)'
      <4> SUFFICES ASSUME NEW m \in Memory PROVE TxnFor(m, p)' /\ DoneFor(m, p)'
        OBVIOUS
      <4>1. ButFor(m, p) /\ TxnFor(m, p) /\ DoneFor(m, p)
        BY <2>5, <3>1 DEF Sure
      <4> QED BY <2>1, <2>4, <3>4, <4>1 DEF ButFor, TxnFor, DoneFor
    <3> QED BY <3>3, <3>5 DEF Sure
  <2> QED BY <1>0, <1>1, <1>b, <2>1, <2>4, <2>5, <2>6, RestMoves
<1>3. CASE HandleFree(p)
  <2>1. /\ UNCHANGED <<reg, cells, fate, alive, minted>> /\ (todo' = <<>> \/ todo' = <<a>>)
        /\ c.ph = "free"
    BY <1>3, <1>a DEF HandleFree, Each, durable, cells
  <2>2. /\ cl'[p].ph = "idle" /\ cl'[p].res = r /\ cl'[p].op = c.op /\ cl'[p].ans = c.ans
        /\ \A q \in Pid \ {p} : cl'[q] = cl[q]
    <3>1. cl' = [cl EXCEPT ![p] = [c EXCEPT !.ph = "idle"]]
      BY <1>3 DEF HandleFree
    <3> QED BY <1>0, <3>1 DEF Client
  <2>3. ASSUME p \in alive PROVE Sure(p)'
    <3>1. c.ans = "none"
      BY <1>0, <2>1, <2>3 DEF Sure, PhaseFor
    <3>2. PhaseFor(p)'
      BY <2>2, <3>1 DEF PhaseFor, Believes
    <3>3. c.ph \notin Heard
      BY <2>1 DEF Heard
    <3> QED BY <2>1, <2>2, <2>3, <3>2, <3>3, SureAnew
  <2>4. \A m \in Memory : ButFor(m, p) /\ (reg[m] = None <=> reg'[m] = None)
    BY <2>1 DEF ButFor
  <2> QED BY <1>0, <1>1, <1>b, <2>1, <2>2, <2>3, <2>4, RestMoves
<1> QED BY <1>0, <1>2, <1>3

\* HolderDown, WriterDown.
LEMMA DownTold ==
    ASSUME Inv, Told, NEW p \in Pid, Down(p)
    PROVE  Told'
<1>c. UNCHANGED <<reg, cells>> =>
        /\ \A m \in Memory : Gentle(m) /\ CellKept(m)
        /\ \A m \in Memory : reg'[m] # None => reg'[m].state = reg[m].state
  BY GentleSame, CellsSame
<1>1. CASE HolderDown(p)
  <2>1. PICK S, a, D : /\ S = {x \in held : OwnerOf[x[2]] = p}
                       /\ a = [op |-> "drops", set |-> S] /\ D = {a}
    OBVIOUS
  <2>2. a.op = "drops"
    BY <2>1
  <2>3. /\ Idle /\ UNCHANGED <<reg, cells, cl, fate, alive, minted>>
        /\ (todo' = <<>> \/ todo' = <<a>>)
    BY <1>1, <2>1 DEF HolderDown, Each, durable, cells, callers
  <2>4. Frames(todo') \subseteq D /\ (todo' # <<>> => Head(todo') = a)
    BY <2>1, <2>3, FewFrames
  <2>5. HeadTold'
    BY <2>2, <2>4, Hushed DEF Tells, Ending, Committing
  <2>6. \A f \in D : f.op = "drops"
    BY <2>1
  <2> QED BY <1>c, <2>3, <2>4, <2>5, <2>6, FromRest
<1>2. CASE WriterDown(p)
  <2>1. PICK S, a, D : /\ S = {<<r, p>> : r \in writers[p]}
                       /\ a = [op |-> "gone", set |-> S] /\ D = {a}
    OBVIOUS
  <2>2. a.op = "gone" /\ \A x \in a.set : x[2] = p
    BY <2>1
  <2>3. /\ Idle /\ UNCHANGED <<reg, cells, cl, fate, alive, minted>> /\ p \notin alive
        /\ (todo' = <<>> \/ todo' = <<a>>)
    BY <1>2, <2>1 DEF WriterDown, Each, durable, cells, callers
  <2>4. Frames(todo') \subseteq D /\ (todo' # <<>> => Head(todo') = a)
    BY <2>1, <2>3, FewFrames
  <2>5. HeadTold'
    BY <2>2, <2>4, Hushed DEF Tells, Ending, Committing
  <2>6. \A f \in D : f.op # "reply" /\ \A x \in f.set : x[2] \notin alive
    BY <2>1, <2>2, <2>3
  <2> QED BY <1>c, <2>3, <2>4, <2>5, <2>6, FromRest
<1> QED BY <1>1, <1>2 DEF Down

\* A process dies.
LEMMA DieTold ==
    ASSUME Told, NEW p \in Pid, Die(p)
    PROVE  Told'
<1>1. /\ UNCHANGED <<reg, cells, up, todo, cl, fate, minted>> /\ alive' \subseteq alive
  BY DEF Die, durable, cells
<1>2. \A q : InFlight(q)' = InFlight(q) /\ outcome(q)' = outcome(q)
  BY <1>1 DEF InFlight, outcome
<1>3. \A m : Live(m)' = Live(m) /\ \A x : published(m, x)' = published(m, x)
  BY <1>1 DEF Live, published, cells
<1>4. \A q : Sure(q)' = Sure(q)
  BY <1>1, <1>2, <1>3 DEF Sure, PhaseFor, Believes, TxnFor, DoneFor
<1>5. ReplyTold'
  BY <1>1, <1>2, <1>3 DEF Told, ReplyTold, Truthful, Awaits
<1>6. HeadTold' /\ GoneTold'
  BY <1>1 DEF Told, HeadTold, GoneTold
<1> QED BY <1>1, <1>4, <1>5, <1>6 DEF Told, RetireTold, ResTold, DoneTold

-----------------------------------------------------------------------------
(* The callers.                                                            *)

\* A process that waits for no answer goes on by itself.
LEMMA CallerTold ==
    ASSUME Inv, Told, NEW p \in alive, UNCHANGED <<reg, up, todo, alive, minted>>,
           cl[p].ph \notin {"begin", "queued", "commit", "abort"},
           \A q \in Pid \ {p} : cl'[q] = cl[q] /\ fate'[q] = fate[q],
           cl'[p].res \in Memory \cap minted,
           cl'[p].res = cl[p].res \/ maker[cl'[p].res] # None,
           \A q \in alive \ {p} : cl[q].ph = "abort" /\ InFlight(q) => CellKept(cl[q].res),
           Sure(p)'
    PROVE  Told'
<1> DEFINE f == Head(todo)
<1>0. StateOK /\ DoneTold /\ RetireTold /\ GoneTold /\ HeadTold /\ ReplyTold /\ p \in Pid
  BY DEF Inv, Told, StateOK
<1>1. /\ ResTold'
      /\ \A q \in alive' \ {p} : Sure(q)'
      /\ \A q \in alive' \ {p} : cl[q].res \in Memory =>
                \A a : Truthful(q, a) => Truthful(q, a)'
  <2>1. \A q \in Pid \ {p} : \A m \in Memory : SoftFor(m, q)
    BY SoftSame
  <2>2. \/ cl'[p].res \in Memory \cap minted'
        \/ cl'[p].res = None /\ cl'[p].ans = "none" /\ cl'[p].ph = "idle"
    OBVIOUS
  <2>3. alive' \subseteq alive /\ minted \subseteq minted'
    OBVIOUS
  <2> QED BY <1>0, <2>1, <2>2, <2>3, OthersPass
<1>2. RetireTold' /\ GoneTold' /\ DoneTold'
  BY <1>0 DEF RetireTold, GoneTold, DoneTold
<1>3. HeadTold'
  <2> SUFFICES ASSUME todo # <<>> PROVE HeadTold'
    BY DEF HeadTold
  <2> DEFINE x == reg[f.res].txn.pid
  <2>1. /\ f.op \in Committing /\ x \in alive => cl[x].ph = "commit"
        /\ f.op = "settle" /\ x \in alive => cl[x].ph = "abort"
        /\ f.op = "insert" => \A q \in Pid : cl[q].res # f.res
    BY <1>0 DEF HeadTold
  <2>2. f.op \in Ending /\ x \in alive => x \in Pid \ {p} /\ cl'[x] = cl[x]
    BY <1>0, <2>1 DEF Ending, StateOK
  <2>3. f.op = "insert" => \A q \in Pid : cl'[q].res # f.res
    <3> SUFFICES ASSUME f.op = "insert" PROVE cl'[p].res # f.res
      BY <2>1
    <3>1. f.res \in Memory => maker[f.res] = None
      BY DEF Inv, HeadOK
    <3> QED BY <1>0, <2>1, <3>1
  <2> HIDE DEF x
  <2>4. f.op \in Committing \/ f.op = "settle" => f.op \in Ending
    BY DEF Ending
  <2>5. reg'[f.res].txn.pid = x
    BY DEF x
  <2> QED BY <2>1, <2>2, <2>3, <2>4, <2>5 DEF HeadTold
<1>4. ReplyTold'
  <2> SUFFICES ASSUME NEW h \in Frames(todo), h.op = "reply", h.pid \in alive
               PROVE  (Truthful(h.pid, h.res) \/ Awaits(f, h.pid, h.res))'
    BY DEF ReplyTold
  <2>1. h.pid \in Pid \ {p} /\ cl[h.pid].res \in Memory
    BY Asking DEF Calls
  <2>2. CASE Truthful(h.pid, h.res)
    BY <1>1, <2>1, <2>2
  <2>3. CASE Awaits(f, h.pid, h.res)
    BY <2>1, <2>3 DEF Awaits, InFlight
  <2> QED BY <1>0, <2>2, <2>3 DEF ReplyTold
<1> QED BY <1>1, <1>2, <1>3, <1>4 DEF Told

\* An outcome that is kept has an operation.
LEMMA OutcomeOp ==
    ASSUME StateOK, NEW p \in Pid, NEW m \in Memory, reg[m] # None, reg[m].done[p] # None
    PROVE  reg[m].done[p].op \in Int
<1>1. reg[m] \in Row
  BY RowSets DEF StateOK
<1>2. PICK d : d = reg[m].done
  OBVIOUS
<1>3. d \in [Pid -> Outcome \cup {None}]
  BY <1>1, <1>2, RowFields
<1>4. d[p] \in Outcome
  BY <1>2, <1>3
<1> QED BY <1>2, <1>4 DEF Outcome

\* A new operation.
LEMMA AskTold ==
    ASSUME Inv, Told, NEW p \in alive, UNCHANGED <<durable, up, todo, alive, minted>>,
           cl[p].ph \in {"idle", "look"},
           NEW kind, NEW m \in Memory, NEW n, NEW seen, maker[m] # None, Ask(p, kind, m, n, seen)
    PROVE  Told'
<1> DEFINE o == cl[p].op + 1
<1>0. /\ StateOK /\ MakeOK /\ p \in Pid /\ cl \in [Pid -> Client] /\ cl[p] \in Client
      /\ fate \in [Pid -> {"none", "ok", "undone"}] /\ cl[p].op \in Int
  <2>1. /\ StateOK /\ MakeOK /\ p \in Pid /\ cl \in [Pid -> Client]
        /\ fate \in [Pid -> {"none", "ok", "undone"}]
    BY DEF Inv, StateOK
  <2>2. cl[p] \in Client
    BY <2>1
  <2>3. cl[p].op \in Nat
    BY <2>2 DEF Client
  <2> QED BY <2>1, <2>2, <2>3
<1>1. /\ \A q \in Pid \ {p} : cl'[q] = cl[q] /\ fate'[q] = fate[q]
      /\ cl'[p].ph = "begin" /\ cl'[p].res = m /\ cl'[p].op = o /\ fate'[p] = "none"
  <2>1. cl'[p] = [cl[p] EXCEPT !.ph = "begin", !.kind = kind, !.res = m, !.op = o,
                               !.n = n, !.seen = seen, !.ans = "none"]
    BY <1>0 DEF Ask
  <2>2. cl'[p].ph = "begin" /\ cl'[p].res = m /\ cl'[p].op = o
    <3> HIDE DEF o
    <3> QED BY <1>0, <2>1 DEF Client
  <2>3. fate'[p] = "none" /\ \A q \in Pid \ {p} : cl'[q] = cl[q] /\ fate'[q] = fate[q]
    BY <1>0 DEF Ask
  <2> QED BY <2>2, <2>3
<1>2. UNCHANGED <<reg, cells>> /\ m \in minted
  BY <1>0 DEF durable, cells, MakeOK
<1>3. Sure(p)'
  <2>1. PhaseFor(p)'
    BY <1>1 DEF PhaseFor
  <2>2. cl[p].ph \notin Heard
    BY DEF Heard
  <2>3. \A x \in Memory : reg[x] # None /\ reg[x].done[p] # None => reg[x].done[p].op \in Int
    BY <1>0, OutcomeOp
  <2> QED BY <1>0, <1>1, <1>2, <2>1, <2>2, <2>3, SureAnew
<1>4. \A q \in alive \ {p} : CellKept(cl[q].res)
  BY <1>2, CellsSame
<1> QED BY <1>1, <1>2, <1>3, <1>4, CallerTold

\* The growth of a writer that gives up has left nothing to be seen.
LEMMA NothingShown ==
    ASSUME Inv, Cells, NEW p \in alive, ExtendFails(p), Live(cl[p].res), InFlight(p)
    PROVE  ~published(cl[p].res, reg[cl[p].res].txn)
<1> DEFINE c == cl[p]
           r == c.res
<1>0. /\ StateOK /\ p \in Pid /\ c \in Client /\ c.ph = "extend" /\ Have(c) < Need(c)
      /\ WriterIs(p) /\ WriterHas(p) /\ SizeCovered /\ CellsOK
  BY DEF Inv, StateOK, WriterOK, Cells, ExtendFails
<1>1. r \in Memory /\ maker[r] # None /\ reg[r] \in Row
  BY <1>0, RowSets DEF WriterIs, StateOK, Live
<1>2. PICK t : t = reg[r].txn
  OBVIOUS
<1>3. /\ t \in Txn /\ t.kind = c.kind /\ t.kind \in {"grow", "arena"} /\ t.to \in Nat
      /\ t.kind = "grow" => t.to = c.seen + c.n /\ t.ct = chunk_count(t.to, ChunkPages[r])
      /\ t.kind = "arena" => t.to = c.n
  <2>1. t \in Txn
    <3>1. t # None
      BY <1>2 DEF InFlight
    <3> QED BY <1>1, <1>2, <3>1, RowFields
  <2>2. t.kind \in {"grow", "arena"} /\ t.to \in Nat /\ t.kind = c.kind
    BY <1>0, <1>2, <2>1 DEF Txn, WriterIs
  <2>3. t.kind = "grow" => t.to = c.seen + c.n
    BY <1>0, <1>2, <2>2 DEF WriterIs
  <2>4. t.kind = "arena" => t.to = c.n
    BY <1>0, <1>2, <2>2 DEF WriterHas, Writing
  <2>5. t.kind = "grow" => t.ct = chunk_count(t.to, ChunkPages[r])
    BY <1>1, <1>2 DEF Inv, TxnOK, InFlight
  <2> QED BY <2>1, <2>2, <2>3, <2>4, <2>5
<1>4. CASE t.kind = "arena"
  <2>1. published(r, t) <=> arena[r] >= t.to
    BY <1>4 DEF published
  <2>2. arena[r] < t.to /\ arena[r] \in Int
    BY <1>0, <1>1, <1>3, <1>4 DEF Have, Need, StateOK, Absent
  <2> QED BY <1>2, <1>3, <2>1, <2>2
<1>5. CASE t.kind = "grow" /\ r \notin Observable
  BY <1>2, <1>5 DEF published
<1>6. CASE t.kind = "grow" /\ r \in Observable
  <2>1. chunks[r] < t.ct /\ chunks[r] \in Nat \cup {Absent}
    BY <1>0, <1>1, <1>3, <1>6 DEF Have, Need, StateOK
  <2>2. chunks[r] # Absent
    BY <1>0, <1>1, <1>6 DEF CellsOK, Live
  <2>3. ChunkPages[r] \in Nat \ {0} /\ size[r] \in Nat
    BY <1>0, <1>1, ConstantsOK DEF StateOK
  <2>4. ~(size[r] >= t.to)
    <3> SUFFICES ASSUME size[r] >= t.to PROVE FALSE
      OBVIOUS
    <3>1. PICK k, l : k = chunk_count(t.to, ChunkPages[r]) /\ l = chunk_count(size[r], ChunkPages[r])
      OBVIOUS
    <3>2. k \in Nat /\ l \in Nat /\ k <= l
      BY <1>3, <2>3, <3>1, ChunkCountNat, ChunkCountMono
    <3>3. l <= chunks[r]
      BY <1>0, <1>1, <1>6, <2>2, <3>1 DEF SizeCovered
    <3>4. t.ct = k
      BY <1>3, <1>6, <3>1
    <3> QED BY <2>1, <2>2, <3>2, <3>3, <3>4
  <2>5. ~(chunks[r] >= t.ct)
    <3>1. t.ct \in Nat
      BY <1>3 DEF Txn
    <3> QED BY <2>1, <2>2, <3>1
  <2> QED BY <1>2, <1>6, <2>4, <2>5 DEF published
<1> QED BY <1>3, <1>4, <1>5, <1>6

\* What the callers do by themselves.
LEMMA AdvanceTold ==
    ASSUME Inv, Cells, Told, NEW p \in Pid,
           \/ Advance(p)
           \/ \E m \in Memory : \/ \E d \in Deltas[p] : Grow(p, m, d)
                                \/ \E n \in 1 .. MaxArena : NeedArena(p, m, n)
    PROVE  Told'
<1> DEFINE c == cl[p]
           r == c.res
<1>0. /\ StateOK /\ ResTold /\ MakeOK /\ WriterOK /\ cl \in [Pid -> Client] /\ c \in Client
      /\ \A q \in alive : Sure(q)
  BY DEF Inv, Told, StateOK
<1>q. ASSUME p \in alive, c.ph \notin {"begin", "queued", "commit", "abort"},
             UNCHANGED <<reg, up, todo, alive, minted, fate>>,
             NEW d, cl' = [cl EXCEPT ![p] = d], d.res \in Memory \cap minted,
             d.res = r \/ maker[d.res] # None,
             \A q \in alive \ {p} : cl[q].ph = "abort" /\ InFlight(q) => CellKept(cl[q].res),
             Sure(p)'
      PROVE  Told'
  <2>1. cl'[p] = d /\ \A q \in Pid \ {p} : cl'[q] = cl[q] /\ fate'[q] = fate[q]
    BY <1>0, <1>q
  <2> QED BY <1>q, <2>1, CallerTold
<1>c. UNCHANGED cells => \A q \in alive \ {p} : CellKept(cl[q].res)
  BY CellsSame
<1>m. \A m \in Memory : maker[m] # None => m \in minted
  BY <1>0 DEF MakeOK
<1>p. ASSUME NEW d, d \in Client, cl' = [cl EXCEPT ![p] = d] PROVE cl'[p] = d
  BY <1>0, <1>p
<1>1. CASE CreateMem(p)
  <2>1. /\ p \in alive /\ c.ph = "create" /\ r \in Memory \cap minted /\ maker[r] = None
        /\ UNCHANGED <<reg, up, todo, alive, minted, fate, arena>>
    BY <1>0, <1>1 DEF CreateMem, MakeOK
  <2>2. PICK d : d = [c EXCEPT !.ph = "idle"]
    OBVIOUS
  <2>3. d.ph = "idle" /\ d.res = r /\ d.op = c.op /\ d.ans = c.ans /\ d \in Client
    BY <1>0, <2>2 DEF Client, Phase
  <2>4. cl' = [cl EXCEPT ![p] = d] /\ cl'[p] = d
    BY <1>0, <1>1, <2>2 DEF CreateMem
  <2>5. Sure(p)'
    <3>1. c.ans = "none"
      BY <1>0, <2>1 DEF Sure, PhaseFor
    <3>2. PhaseFor(p)'
      BY <2>3, <2>4, <3>1 DEF PhaseFor, Believes
    <3>3. c.ph \notin Heard
      BY <2>1 DEF Heard
    <3> QED BY <2>1, <2>3, <2>4, <3>2, <3>3, SureAnew
  <2>6. ASSUME NEW q \in alive \ {p}, cl[q].ph = "abort", InFlight(q) PROVE CellKept(cl[q].res)
    <3>1. q \in Pid
      BY <1>0 DEF StateOK
    <3>2. cl[q].res \in Memory /\ cl[q].res # r
      BY <1>0, <2>1, <2>6, <3>1 DEF WriterOK, WriterIs
    <3>3. \E j, k : size' = [size EXCEPT ![r] = j] /\ chunks' = [chunks EXCEPT ![r] = k]
      BY <1>1 DEF CreateMem
    <3>4. chunks'[cl[q].res] = chunks[cl[q].res] /\ size'[cl[q].res] = size[cl[q].res]
      BY <1>0, <3>2, <3>3 DEF StateOK
    <3> QED BY <2>1, <3>4 DEF CellKept
  <2> QED BY <2>1, <2>3, <2>4, <2>5, <2>6, <1>q
<1>2. CASE CreateFails(p)
  <2>1. /\ p \in alive /\ c.ph = "create" /\ r \in Memory \cap minted
        /\ UNCHANGED <<reg, cells, up, todo, alive, minted, fate>>
    BY <1>0, <1>2 DEF CreateFails, MakeOK, durable, cells
  <2>2. PICK d : d = [c EXCEPT !.ph = "free"]
    OBVIOUS
  <2>3. d.ph = "free" /\ d.res = r /\ d.op = c.op /\ d.ans = c.ans /\ d \in Client
    BY <1>0, <2>2 DEF Client, Phase
  <2>4. cl' = [cl EXCEPT ![p] = d] /\ cl'[p] = d
    BY <1>0, <1>2, <2>2 DEF CreateFails
  <2>5. Sure(p)'
    <3>1. c.ans = "none"
      BY <1>0, <2>1 DEF Sure, PhaseFor
    <3>2. PhaseFor(p)'
      BY <2>3, <2>4, <3>1 DEF PhaseFor
    <3>3. c.ph \notin Heard
      BY <2>1 DEF Heard
    <3> QED BY <2>1, <2>3, <2>4, <3>2, <3>3, SureAnew
  <2> QED BY <1>c, <2>1, <2>3, <2>4, <2>5, <1>q
<1>3. CASE Look(p)
  <2>1. /\ p \in alive /\ c.ph = "look" /\ r \in Memory /\ maker[r] # None /\ r \in minted
        /\ UNCHANGED <<durable, reg, cells, up, todo, alive, minted>>
    BY <1>0, <1>3, <1>m DEF Look, WriterOK, WriterIs, durable, cells
  <2>2. CASE Ask(p, "arena", r, c.n, arena[r])
    BY <2>1, <2>2, AskTold
  <2>3. CASE cl' = [cl EXCEPT ![p].ph = "idle"] /\ UNCHANGED fate
    <3>1. PICK d : d = [c EXCEPT !.ph = "idle"]
      OBVIOUS
    <3>2. d.ph = "idle" /\ d.res = r /\ d.op = c.op /\ d.ans = c.ans /\ d \in Client
      BY <1>0, <3>1 DEF Client, Phase
    <3>3. cl' = [cl EXCEPT ![p] = d] /\ cl'[p] = d
      BY <1>0, <2>3, <3>1
    <3>4. Sure(p)'
      <4>1. Believes(p)
        BY <1>0, <2>1 DEF Sure, PhaseFor
      <4>2. PhaseFor(p)'
        BY <2>1, <2>3, <3>2, <3>3, <4>1 DEF PhaseFor, Believes, Live
      <4>3. c.ph \notin Heard
        BY <2>1 DEF Heard
      <4> QED BY <2>1, <2>3, <3>2, <3>3, <4>2, <4>3, SureAnew
    <3> QED BY <1>c, <2>1, <2>3, <3>2, <3>3, <3>4, <1>q
  <2> QED BY <1>3, <2>2, <2>3 DEF Look
<1>4. CASE Extend(p)
  <2>1. /\ p \in alive /\ c.ph = "extend" /\ r \in Memory /\ maker[r] # None /\ r \in minted
        /\ UNCHANGED <<reg, cells, up, todo, alive, minted, fate>>
    BY <1>0, <1>4, <1>m DEF Extend, Have, Need, WriterOK, WriterIs, durable, cells
  <2>2. PICK k : k = IF Have(c) > Need(c) THEN Have(c) ELSE Need(c)
    OBVIOUS
  <2>3. PICK d : d = [c EXCEPT !.ph = "commit", !.tup = k]
    OBVIOUS
  <2>4. d.ph = "commit" /\ d.res = r /\ d.op = c.op
    BY <1>0, <2>3 DEF Client
  <2>5. cl' = [cl EXCEPT ![p] = d] /\ cl'[p] = d
    BY <1>0, <1>4, <2>2, <2>3 DEF Extend
  <2>6. Sure(p)'
    <3>1. Sure(p) /\ fate[p] # "ok" /\ (Live(r) => InFlight(p))
      BY <1>0, <2>1 DEF Sure, PhaseFor
    <3>2. InFlight(p)' = InFlight(p) /\ Live(d.res)' = Live(r)
      BY <2>1, <2>4, <2>5 DEF InFlight, Live
    <3>3. PhaseFor(p)'
      BY <2>1, <2>4, <2>5, <3>1, <3>2 DEF PhaseFor, Live
    <3>4. \A m \in Memory : TxnFor(m, p)' /\ DoneFor(m, p)'
      BY <2>1, <2>4, <2>5, <3>1 DEF Sure, TxnFor, DoneFor, Heard
    <3> QED BY <3>3, <3>4 DEF Sure
  <2> QED BY <1>c, <2>1, <2>4, <2>5, <2>6, <1>q
<1>5. CASE ExtendFails(p)
  <2>1. /\ p \in alive /\ c.ph = "extend" /\ r \in Memory /\ maker[r] # None /\ r \in minted
        /\ UNCHANGED <<reg, cells, up, todo, alive, minted, fate>>
    BY <1>0, <1>5, <1>m DEF ExtendFails, WriterOK, WriterIs, durable, cells
  <2>3. PICK d : d = [c EXCEPT !.ph = "abort"]
    OBVIOUS
  <2>4. d.ph = "abort" /\ d.res = r /\ d.op = c.op
    BY <1>0, <2>3 DEF Client
  <2>5. cl' = [cl EXCEPT ![p] = d] /\ cl'[p] = d
    BY <1>0, <1>5, <2>3 DEF ExtendFails
  <2>6. Sure(p)'
    <3>1. Sure(p) /\ fate[p] # "ok"
      BY <1>0, <2>1 DEF Sure, PhaseFor
    <3>2. InFlight(p)' = InFlight(p)
      BY <2>1, <2>4, <2>5 DEF InFlight
    <3>3. Live(r) /\ InFlight(p) => ~published(r, reg[r].txn)
      BY <1>5, <2>1, NothingShown
    <3>4. PhaseFor(p)'
      BY <2>1, <2>4, <2>5, <3>1, <3>2, <3>3 DEF PhaseFor, Live, published, cells
    <3>5. \A m \in Memory : TxnFor(m, p)' /\ DoneFor(m, p)'
      BY <2>1, <2>4, <2>5, <3>1 DEF Sure, TxnFor, DoneFor, Heard
    <3> QED BY <3>4, <3>5 DEF Sure
  <2> QED BY <1>c, <2>1, <2>4, <2>5, <2>6, <1>q
<1>6. ASSUME NEW m \in Memory, NEW d \in Deltas[p], Grow(p, m, d) PROVE Told'
  <2>1. p \in alive /\ c.ph = "idle" /\ UNCHANGED <<durable, up, todo, alive, minted>>
    BY <1>6 DEF Grow, Free
  <2>2. maker[m] # None
    <3>1. p # None
      BY ConstantsOK
    <3> QED BY <1>6, <3>1 DEF Grow, HasHandle
  <2> QED BY <1>6, <2>1, <2>2, AskTold DEF Grow
<1>7. ASSUME NEW m \in Memory, NEW n \in 1 .. MaxArena, NeedArena(p, m, n) PROVE Told'
  <2>1. /\ p \in alive /\ c.ph = "idle"
        /\ UNCHANGED <<reg, cells, up, todo, alive, minted, fate>>
    BY <1>7, Zenon DEF NeedArena, Free, durable, cells
  <2>2. maker[m] # None /\ m \in minted
    <3>1. p # None
      BY ConstantsOK
    <3>2. maker[m] # None
      BY <1>7, <3>1, Zenon DEF NeedArena, HasHandle
    <3> QED BY <1>m, <3>2
  <2>3. PICK d : d = [c EXCEPT !.ph = "look", !.kind = "arena", !.res = m, !.n = n, !.ans = "none"]
    OBVIOUS
  <2>4. d.ph = "look" /\ d.res = m /\ d.op = c.op /\ d.ans = "none"
    BY <1>0, <2>3 DEF Client
  <2>5. cl' = [cl EXCEPT ![p] = d] /\ cl'[p] = d
    BY <1>0, <1>7, <2>3, Zenon DEF NeedArena
  <2>6. Sure(p)'
    <3>1. PhaseFor(p)'
      BY <2>4, <2>5 DEF PhaseFor, Believes
    <3>2. c.ph \notin Heard
      BY <2>1 DEF Heard
    <3> QED BY <2>1, <2>4, <2>5, <3>1, <3>2, SureAnew
  <2> QED BY <1>c, <2>1, <2>2, <2>4, <2>5, <2>6, <1>q
<1> QED BY <1>1, <1>2, <1>3, <1>4, <1>5, <1>6, <1>7 DEF Advance

-----------------------------------------------------------------------------
(* The keeper is killed, and started again.                                *)

\* The keeper is killed.
LEMMA CrashTold ==
    ASSUME Inv, Told, Crash
    PROVE  Told'
<1>0. /\ StateOK /\ ResTold /\ cl \in [Pid -> Client] /\ alive \subseteq Pid
      /\ \A p \in alive : Sure(p)
  BY DEF Inv, Told, StateOK
<1>1. /\ UNCHANGED <<reg, cells, alive, minted, fate>> /\ todo' = <<>> /\ ~up'
      /\ cl' \in [Pid -> Client]
  <2>1. UNCHANGED <<reg, cells, alive, minted, fate>> /\ todo' = <<>> /\ ~up'
    BY DEF Crash, durable, cells
  <2>2. cl' \in [Pid -> Client]
    BY CrashInv DEF Inv, StateOK
  <2> QED BY <2>1, <2>2
<1>2. ASSUME NEW p \in Pid
      PROVE  /\ cl'[p].res = cl[p].res /\ cl'[p].op = cl[p].op /\ cl'[p].ans = cl[p].ans
             /\ \/ cl'[p].ph = cl[p].ph
                \/ cl[p].ph = "queued" /\ cl'[p].ph = "begin"
                \/ cl[p].ph = "free" /\ cl'[p].ph = "idle"
                \/ cl[p].ph = "ack" /\ cl'[p].ph \in {"idle", "look"}
                \/ p \notin alive /\ cl'[p].ph = "idle"
  <2> DEFINE h == cl[p].ph
             e == IF h = "queued" /\ p \in alive THEN "begin"
                  ELSE IF h = "free" THEN "idle"
                  ELSE IF h = "ack" THEN AfterAck(p)
                  ELSE IF h \in {"begin", "queued", "commit", "abort"} /\ p \notin alive
                       THEN "idle" ELSE h
  <2>1. cl'[p] = [cl[p] EXCEPT !.ph = e]
    BY DEF Crash
  <2>2. \/ e = h
        \/ h = "queued" /\ e = "begin"
        \/ h = "free" /\ e = "idle"
        \/ h = "ack" /\ e \in {"idle", "look"}
        \/ p \notin alive /\ e = "idle"
    BY DEF AfterAck
  <2> HIDE DEF e
  <2>3. /\ cl'[p].ph = e /\ cl'[p].op = cl[p].op /\ cl'[p].res = cl[p].res
        /\ cl'[p].ans = cl[p].ans
    BY <1>0, <2>1 DEF Client
  <2> QED BY <2>2, <2>3
<1>3. RetireTold' /\ GoneTold' /\ HeadTold' /\ ReplyTold' /\ DoneTold'
  <2>1. Frames(todo') = {}
    <3>1. Frames(<<>>) = {}
      BY DEF Frames
    <3> QED BY <1>1, <3>1
  <2>2. RetireTold' /\ GoneTold' /\ HeadTold' /\ ReplyTold'
    BY <1>1, <2>1 DEF RetireTold, GoneTold, HeadTold, ReplyTold
  <2>3. DoneTold'
    BY <1>1 DEF Told, DoneTold
  <2> QED BY <2>2, <2>3
<1>4. ResTold'
  <2> SUFFICES ASSUME NEW p \in Pid
               PROVE  \/ cl'[p].res \in Memory \cap minted'
                      \/ cl'[p].res = None /\ cl'[p].ans = "none" /\ cl'[p].ph = "idle"
    BY DEF ResTold
  <2> QED BY <1>0, <1>1, <1>2 DEF ResTold
<1>5. ASSUME NEW p \in alive PROVE Sure(p)'
  <2>1. p \in Pid /\ Sure(p)
    BY <1>0, <1>5
  <2>2. /\ cl'[p].res = cl[p].res /\ cl'[p].op = cl[p].op /\ cl'[p].ans = cl[p].ans
        /\ \/ cl'[p].ph = cl[p].ph
           \/ cl[p].ph = "queued" /\ cl'[p].ph = "begin"
           \/ cl[p].ph = "free" /\ cl'[p].ph = "idle"
           \/ cl[p].ph = "ack" /\ cl'[p].ph \in {"idle", "look"}
    BY <1>2, <1>5, <2>1
  <2>3. \A m \in Memory : TxnFor(m, p)' /\ DoneFor(m, p)'
    BY <1>1, <2>1, <2>2 DEF Sure, TxnFor, DoneFor, Heard
  <2>4. /\ InFlight(p)' = InFlight(p) /\ outcome(p)' = outcome(p)
        /\ \A m : Live(m)' = Live(m) /\ \A x : published(m, x)' = published(m, x)
    BY <1>1, <2>2 DEF InFlight, outcome, Live, published, cells
  <2>5. Believes(p)' = Believes(p)
    BY <1>1, <2>2, <2>4 DEF Believes
  <2>6. PhaseFor(p)'
    <3>1. CASE cl'[p].ph = cl[p].ph
      BY <1>1, <2>1, <2>2, <2>4, <2>5, <3>1 DEF Sure, PhaseFor
    <3>2. CASE cl[p].ph = "queued" /\ cl'[p].ph = "begin"
      BY <1>1, <2>1, <3>2 DEF Sure, PhaseFor
    <3>3. CASE cl[p].ph = "free" /\ cl'[p].ph = "idle"
      BY <1>1, <2>1, <2>2, <3>3 DEF Sure, PhaseFor, Believes
    <3>4. CASE cl[p].ph = "ack" /\ cl'[p].ph \in {"idle", "look"}
      BY <1>1, <2>1, <2>5, <3>4 DEF Sure, PhaseFor
    <3> QED BY <2>2, <3>1, <3>2, <3>3, <3>4
  <2> QED BY <2>3, <2>6 DEF Sure
<1> QED BY <1>1, <1>3, <1>4, <1>5 DEF Told

\* It is started again.
LEMMA RestartTold ==
    ASSUME Inv, Told, Restart
    PROVE  Told'
<1> DEFINE R == {r \in Res : reg[r] # None /\ reg[r].state = "retiring"}
           a == Each("retiring", R)
           b == Each("recover", Memory)
           c == Each("sweep", Image)
           d == Do("reconcile", None)
           D == {f \in Frame : f.op \in {"retiring", "recover", "sweep", "reconcile"}}
<1>1. todo' = a \o b \o c \o d /\ UNCHANGED <<reg, cells, alive, minted, cl, fate>>
  BY DEF Restart, durable, callers, cells
<1>2. /\ [op |-> "retiring", set |-> R] \in D /\ [op |-> "recover", set |-> Memory] \in D
      /\ [op |-> "sweep", set |-> Image] \in D /\ [op |-> "reconcile", res |-> None] \in D
  BY RowSets DEF Frame
<1>3. \A f \in D : f.op \in {"retiring", "recover", "sweep", "reconcile"}
  OBVIOUS
<1>r. R # {} => a = <<[op |-> "retiring", set |-> R]>>
  BY DEF Each
<1>s. \A m \in Memory : reg[m] # None /\ reg[m].state = "retiring" => m \in R
  BY RowSets
<1> HIDE DEF D, R
<1>4. a \in Seq(D) /\ b \in Seq(D) /\ c \in Seq(D) /\ d \in Seq(D)
  BY <1>2 DEF Each, Do
<1> HIDE DEF a, b, c, d
<1>5. \A s, t \in Seq(D) : /\ s \o t \in Seq(D)
                            /\ Len(s) >= 1 => Len(s \o t) >= 1 /\ (s \o t)[1] = s[1]
  OBVIOUS
<1>6. PICK ab, abc : ab = a \o b /\ abc = ab \o c
  OBVIOUS
<1>7. ab \in Seq(D)
  BY <1>4, <1>5, <1>6
<1>8. abc \in Seq(D)
  BY <1>4, <1>5, <1>6, <1>7
<1>9. todo' = abc \o d /\ todo' \in Seq(D)
  <2>1. todo' = abc \o d
    BY <1>1, <1>6
  <2> QED BY <1>4, <1>5, <1>8, <2>1
<1>10. Frames(todo') \subseteq D /\ (todo' # <<>> => Head(todo') \in D)
  <2>1. \A i \in 1 .. Len(todo') : todo'[i] \in D
    BY <1>9
  <2>2. Frames(todo') \subseteq D
    BY <2>1 DEF Frames
  <2>3. todo' # <<>> => Head(todo') \in D
    BY <1>9
  <2> QED BY <2>2, <2>3
<1>11. RetireTold'
  <2> SUFFICES ASSUME NEW m \in Memory, reg[m] # None, reg[m].state = "retiring"
               PROVE  \E f \in Frames(todo') : f.op = "retiring" /\ m \in f.set
    BY <1>1 DEF RetireTold
  <2>1. m \in R
    BY <1>s
  <2>2. PICK g : g = [op |-> "retiring", set |-> R]
    OBVIOUS
  <2>3. g.op = "retiring" /\ m \in g.set /\ g \in D
    BY <1>2, <2>1, <2>2
  <2>4. a = <<g>> /\ Len(<<g>>) = 1 /\ <<g>>[1] = g
    BY <1>r, <2>1, <2>2
  <2>5. g \in Frames(todo')
    <3>1. Len(a) >= 1 /\ a[1] = g
      BY <2>4
    <3>2. Len(ab) >= 1 /\ ab[1] = g
      BY <1>4, <1>5, <1>6, <3>1
    <3>3. Len(abc) >= 1 /\ abc[1] = g
      BY <1>4, <1>5, <1>6, <1>7, <3>2
    <3>4. Len(todo') >= 1 /\ todo'[1] = g
      BY <1>4, <1>5, <1>8, <1>9, <3>3
    <3>5. 1 \in 1 .. Len(todo')
      BY <1>9, <3>4
    <3> QED BY <3>4, <3>5 DEF Frames
  <2> QED BY <2>3, <2>5
<1>12. GoneTold' /\ ReplyTold' /\ HeadTold'
  <2>1. GoneTold' /\ ReplyTold'
    BY <1>3, <1>10 DEF GoneTold, ReplyTold
  <2>2. HeadTold'
    BY <1>3, <1>10, Hushed DEF Tells, Ending, Committing
  <2> QED BY <2>1, <2>2
<1>13. \A p \in alive' : Sure(p)'
  <2>1. \A q : InFlight(q)' = InFlight(q) /\ outcome(q)' = outcome(q)
    BY <1>1 DEF InFlight, outcome
  <2>2. \A m : Live(m)' = Live(m) /\ \A x : published(m, x)' = published(m, x)
    BY <1>1 DEF Live, published, cells
  <2>3. \A q : Sure(q)' = Sure(q)
    BY <1>1, <2>1, <2>2 DEF Sure, PhaseFor, Believes, TxnFor, DoneFor
  <2> QED BY <1>1, <2>3 DEF Told
<1> QED BY <1>1, <1>11, <1>12, <1>13 DEF Told, ResTold, DoneTold

\* Nobody has asked for anything.
LEMMA InitTold ==
    ASSUME Init
    PROVE  Told
<1>1. /\ \A m \in Memory : reg[m] = None
      /\ todo = <<>> /\ up = TRUE
      /\ \A p \in Pid : cl[p] = Idle0 /\ fate[p] = "none"
  BY RowSets DEF Init
<1>2. Frames(todo) = {}
  <2>1. Frames(<<>>) = {}
    BY DEF Frames
  <2> QED BY <1>1, <2>1
<1>3. RetireTold /\ GoneTold /\ ResTold /\ DoneTold /\ HeadTold /\ ReplyTold
  BY <1>1, <1>2 DEF RetireTold, GoneTold, ResTold, DoneTold, HeadTold, ReplyTold, Idle0
<1>4. ASSUME NEW p \in alive PROVE Sure(p)
  <2>1. cl[p] = Idle0 /\ fate[p] = "none"
    BY <1>1, <1>4 DEF Init
  <2> QED BY <1>1, <2>1 DEF Sure, PhaseFor, Believes, TxnFor, DoneFor, Idle0
<1> QED BY <1>3, <1>4 DEF Told

\* Every step, by what it is of.
LEMMA StepTold ==
    ASSUME Inv, Budget, Cells, Told, Next PROVE Told'
<1>1. CASE Continue
  BY <1>1, InsertTold, HoldTold, ReclaimTold, RecoveryTold, CommitTold, AnswerTold, QueueTold
     DEF Continue
<1>2. CASE Crash \/ Restart
  BY <1>2, CrashTold, RestartTold
<1>3. ASSUME NEW p \in Pid, Handle(p) PROVE Told'
  BY <1>3, QueueTold, EndAskedTold, AckTold DEF Handle
<1>4. ASSUME NEW p \in Pid,
             \/ Request(p) \/ Handle(p) \/ Down(p) \/ Advance(p) \/ Die(p)
             \/ \E m \in Memory : \/ \E d \in Deltas[p] : Grow(p, m, d)
                                  \/ \E n \in 1 .. MaxArena : NeedArena(p, m, n)
      PROVE  Told'
  BY <1>3, <1>4, RequestTold, DownTold, AdvanceTold, DieTold
<1> QED BY <1>1, <1>2, <1>4 DEF Next

\* Every step, and none.
LEMMA NextTold ==
    ASSUME Inv, Budget, Cells, Told, [Next]_vars PROVE Told'
<1>1. CASE Next
  BY <1>1, StepTold
<1>2. CASE UNCHANGED vars
  <2>1. UNCHANGED <<reg, cells, up, todo, cl, fate, alive, minted>>
    BY <1>2 DEF vars, durable, cells, callers
  <2>2. \A q : InFlight(q)' = InFlight(q) /\ outcome(q)' = outcome(q)
    BY <2>1 DEF InFlight, outcome
  <2>3. \A m : Live(m)' = Live(m) /\ \A x : published(m, x)' = published(m, x)
    BY <2>1 DEF Live, published, cells
  <2>4. \A q : Sure(q)' = Sure(q)
    BY <2>1, <2>2, <2>3 DEF Sure, PhaseFor, Believes, TxnFor, DoneFor
  <2>5. ReplyTold'
    BY <2>1, <2>2, <2>3 DEF Told, ReplyTold, Truthful, Awaits
  <2> QED BY <2>1, <2>4, <2>5 DEF Told, RetireTold, GoneTold, ResTold, DoneTold, HeadTold
<1> QED BY <1>1, <1>2

\* What a grower knows in each phase, what is still to be answered and what is
\* being ended agree with what became of its growth (transaction/5,
\* grow_commit/5, settle/4).
THEOREM ToldKept == Spec => []Told
<1>1. Init => Inv /\ Budget /\ Cells /\ Told
  BY InitInv, InitBudget, InitCells, InitTold
<1>2. Inv /\ Budget /\ Cells /\ Told /\ [Next]_vars => Inv' /\ Budget' /\ Cells' /\ Told'
  BY NextInv, NextBudget, StepCells, NextTold
<1>3. Spec => [](Inv /\ Budget /\ Cells /\ Told)
  BY <1>1, <1>2, PTL DEF Spec
<1> QED BY <1>3, PTL

\* A grower believes of its growth what happened to it, across retries, lost
\* replies and restarts (grow_retry/4, transaction/5): told {ok, _} only if the
\* growth stands, told anything else only if it does not or the memory is gone.
THEOREM AnswersTrue == Spec => []AnswerTrue
<1>1. Told => AnswerTrue
  BY DEF Told, Sure, PhaseFor, Believes, AnswerTrue
<1> QED BY <1>1, ToldKept, PTL

\* A process that was given the right to grow keeps it for as long as it lives
\* and the memory does: nobody settles the transaction of a live writer, and no
\* second one starts beside it (recover_txn/1, DOWN of a writer).
THEOREM GrantIsKept == Spec => []GrantKept
<1>1. Told => GrantKept
  BY DEF Told, Sure, PhaseFor, GrantKept
<1> QED BY <1>1, ToldKept, PTL

-----------------------------------------------------------------------------
(* Ceilings and the rows they are about.                                   *)

\* Ceilings and holders as they were, but for one row.
LEMMA CapsBut ==
    ASSUME Inv, Ceilings, ~Busy, UNCHANGED <<caps, builds>>, NEW r,
           \A m \in Memory \ {r} : reg'[m] = reg[m],
           \A b \in Limited : r \in Memory => HasCap(b, r)'
    PROVE  CapsAre' /\ CapsHeld'
<1>1. CapsAre'
  BY DEF CapsAre, Ceilings
<1>2. ASSUME NEW b \in Limited, NEW m \in Memory, m # r PROVE HasCap(b, m)'
  <2>1. HasCap(b, m) /\ ~Letting(m, b) /\ ~Due(m, b) /\ ~Letting(m, InstanceOf[b])
    BY Cleared DEF Ceilings, CapsHeld
  <2>2. reg'[m] = reg[m]
    BY <1>2
  <2> QED BY <2>1, <2>2 DEF HasCap
<1>3. CapsHeld'
  BY <1>2 DEF CapsHeld, Limited
<1> QED BY <1>1, <1>3

\* A row reserved for is written.
LEMMA InsertRowCeilings ==
    ASSUME Inv, Inv', Budget, Budget', Caches, Ceilings, InsertRow PROVE Ceilings'
<1> DEFINE f == Head(todo)
           g == [f EXCEPT !.op = "reserved"]
           F == {g}
<1>1. up /\ todo # <<>> /\ f \in Frame /\ f.op = "insert" /\ StateOK
  BY HeadFrame DEF InsertRow, Inv
<1>2. PICK r \in Res, t \in Token : r = f.res /\ t = f.tok
  BY <1>1, FrameFields
<1> DEFINE w == NewRow(r, t)
<1>3. /\ reg' = [reg EXCEPT ![r] = w] /\ UNCHANGED <<caps, builds>>
      /\ Then(<<>>) \/ Then(<<g>>)
  BY <1>2 DEF InsertRow, callers
<1>4. reg'[r] = w /\ (\A y \in Res \ {r} : reg'[y] = reg[y])
  <2> HIDE DEF w
  <2> QED BY <1>1, <1>3, RowSet
<1>5. /\ w.holders = {t} /\ w.txn = None /\ w # None
      /\ r \in Memory => w.pages = InitPages[r] /\ InitPages[r] \in Nat
  <2>1. w \in Row
    BY <1>1, <1>2, NewRowTyped
  <2>2. r \in Memory => InitPages[r] \in Nat
    BY ConstantsOK
  <2> QED BY <2>1, <2>2, RowSets DEF NewRow
<1>6. ~Busy
  BY <1>1 DEF Busy, Holding, Cleanup
<1>7. Frames(todo') \subseteq Under \cup F
  <2>1. <<>> \in Seq(F) /\ <<g>> \in Seq(F)
    <3> HIDE DEF g
    <3> QED OBVIOUS
  <2> HIDE DEF F, g
  <2> QED BY <1>1, <1>3, <2>1, PutOn
<1>8. g.op = "reserved"
  BY <1>1 DEF Frame
<1>9. InsertFits(f)
  BY <1>1 DEF Ceilings, HeadFits
<1>10. r \in Memory => t \notin Instances
  BY <1>1, <1>2, RowSets DEF Caches, TokensOK, HeadTokens
<1> HIDE DEF g
<1>11. /\ \A h \in Frames(todo') : h.op \notin Moving \cup {"unhold"}
       /\ HeadFits'
  <2>1. \A h \in Frames(todo') : h.op \notin Moving \cup {"unhold"}
    BY <1>6, <1>7, <1>8, Cleared, UnderIs DEF Ceilings, Moving
  <2>2. ASSUME todo' # <<>> PROVE Head(todo').op \notin {"insert", "txn"}
    <3>1. todo' \in Seq(Frame)
      BY DEF Inv, StateOK
    <3>2. Head(todo') \in Frames(todo')
      <4>1. Len(todo') \in Nat \ {0} /\ Head(todo') = todo'[1]
        BY <2>2, <3>1
      <4> QED BY <4>1 DEF Frames
    <3>3. \A h \in Under : h.op \notin {"insert", "txn"}
      BY UnderIs DEF Deferred
    <3> QED BY <1>7, <1>8, <3>2, <3>3
  <2> QED BY <2>1, <2>2, NothingAdded
<1> HIDE DEF F, w
<1>12. CapsAre' /\ CapsHeld'
  <2>1. ASSUME NEW b \in Limited, r \in Memory PROVE HasCap(b, r)'
    <3>1. b \in Builds /\ InstanceOf[b] \in Instances
      BY Parties DEF Limited
    <3>2. reg'[r].holders = {t} /\ InstanceOf[b] # t
      BY <1>4, <1>5, <1>10, <2>1, <3>1
    <3>3. b = t => b \in builds /\ caps[b] = BuildLimit[b]
      BY <1>1, <1>2, <1>9, <2>1 DEF InsertFits
    <3> QED BY <1>3, <3>2, <3>3 DEF HasCap
  <2> QED BY <1>3, <1>4, <1>6, <2>1, RowSets, CapsBut
<1>13. Bounded'
  <2> SUFFICES ASSUME NEW b \in Limited, Anchored(reg', b) PROVE Taken(reg', b) <= BuildLimit[b]
    BY DEF Bounded, Limited
  <2>1. b \in Builds /\ BuildLimit[b] \in Nat \cup {NoCap} /\ InstanceOf[b] \in Instances
    BY Parties DEF Limited
  <2>2. Fit(reg) /\ Fit(reg')
    BY BothFit
  <2>3. Taken(reg, b) \in Nat /\ Taken(reg', b) \in Nat
    BY <2>2, TakenIs
  <2>4. CASE r \in Memory /\ t = b
    <3>1. Taken(reg, b) + InitPages[r] <= BuildLimit[b]
      BY <1>1, <1>2, <1>9, <2>4 DEF InsertFits
    <3>2. \A y \in Memory \ {r} : reg'[y] = reg[y]
      BY <1>4, RowSets
    <3>3. Taken(reg', b) = Taken(reg, b) - Piece(reg, r, b) + Piece(reg', r, b)
      BY <2>2, <2>4, <3>2, TakenMoves
    <3>4. Piece(reg, r, b) \in Nat /\ Piece(reg', r, b) \in Nat
      BY <2>2, <2>4, TakenIs
    <3>5. Piece(reg', r, b) <= InitPages[r] /\ InitPages[r] \in Nat
      BY <1>4, <1>5, <2>4 DEF Piece
    <3> QED BY <2>1, <2>3, <3>1, <3>3, <3>4, <3>5 DEF NoCap
  <2>5. CASE ~(r \in Memory /\ t = b)
    <3> SUFFICES ASSUME NEW m \in Memory, Counts(reg', m, b)
                 PROVE  Counts(reg, m, b) /\ reg'[m].pages <= reg[m].pages
      <4>1. ASSUME \A m \in Memory : Counts(reg', m, b) =>
                       Counts(reg, m, b) /\ reg'[m].pages <= reg[m].pages
            PROVE  Taken(reg', b) <= BuildLimit[b]
        <5>1. Taken(reg, b) <= BuildLimit[b]
          BY <4>1, AnchoredBefore DEF Ceilings, Bounded
        <5>2. Taken(reg', b) <= Taken(reg, b)
          BY <2>2, <4>1, TakenFalls
        <5> QED BY <2>1, <2>3, <5>1, <5>2 DEF NoCap
      <4> QED BY <4>1
    <3>1. m # r
      BY <1>4, <1>5, <1>10, <2>1, <2>5 DEF Counts, Party
    <3>2. reg'[m] = reg[m]
      BY <1>4, <3>1, RowSets
    <3>3. reg[m] # None => reg[m].pages \in Nat
      BY <2>2, TakenIs
    <3> QED BY <3>2, <3>3 DEF Counts
  <2> QED BY <2>4, <2>5
<1>14. Paged'
  BY <1>4, <1>5, RowSets DEF Ceilings, Paged
<1> QED BY <1>11, <1>12, <1>13, <1>14, Gathered

\* A transaction begins.
LEMMA TxnRowCeilings ==
    ASSUME Inv, Inv', Budget, Budget', Ceilings, TxnRow PROVE Ceilings'
<1> DEFINE f == Head(todo)
           p == f.pid
           c == cl[p]
           w == Started(p)
           g == [op |-> "grant", pid |-> p]
           F == {g}
<1>1. up /\ todo # <<>> /\ f \in Frame /\ f.op = "txn" /\ StateOK
  BY HeadFrame DEF TxnRow, Inv
<1>2. p \in Pid /\ c.ph \in {"begin", "queued"} /\ reg[c.res] # None
  BY <1>1, FrameFields DEF Inv, HeadOK
<1>3. PICK r \in Memory : r = c.res
  BY <1>2 DEF Inv, WriterOK, WriterIs
<1>4. reg' = [reg EXCEPT ![r] = w] /\ UNCHANGED <<caps, builds>> /\ Then(<<g>>)
  BY <1>3 DEF TxnRow, callers, Grant
<1>5. /\ c.kind = "grow" => /\ w.txn.from = reg[r].pages /\ w.pages = reg[r].pages + c.n
      /\ c.kind # "grow" => w.pages = reg[r].pages
      /\ w.txn.kind = c.kind
  BY <1>1, <1>2, <1>3, StartedIs
<1>6. w.holders = reg[r].holders
  <2>1. reg[r] \in Row
    BY <1>1, <1>2, <1>3, RowSets DEF StateOK
  <2> HIDE DEF p
  <2> QED BY <1>3, <2>1 DEF Row, Started
<1>7. reg'[r] = w /\ (\A y \in Res \ {r} : reg'[y] = reg[y]) /\ reg[r] # None
  <2>1. r \in Res /\ reg[r] # None
    BY <1>2, <1>3, RowSets
  <2> HIDE DEF w, c, p
  <2> QED BY <1>1, <1>4, <2>1, RowSet
<1>8. c.n \in Nat /\ c.kind \in {"grow", "arena"}
  BY <1>1, <1>2 DEF StateOK, Client
<1>9. ~Busy
  BY <1>1 DEF Busy, Holding, Cleanup
<1>10. Frames(todo') \subseteq Under \cup F
  <2>1. <<g>> \in Seq(F)
    <3> HIDE DEF g
    <3> QED OBVIOUS
  <2> HIDE DEF F, g
  <2> QED BY <1>1, <1>4, <2>1, PutOn
<1>11. g.op = "grant"
  OBVIOUS
<1>12. GrowFits(f)
  BY <1>1 DEF Ceilings, HeadFits
<1>13. c.kind = "grow" => \A b \in Limited : Anchored(reg, b) /\ Counts(reg, r, b) =>
           Taken(reg, b) + c.n <= BuildLimit[b]
  BY <1>1, <1>3, <1>12 DEF GrowFits
<1> HIDE DEF w, c, p, f, g
<1>14. /\ \A h \in Frames(todo') : h.op \notin Moving \cup {"unhold"}
       /\ HeadFits'
  <2>1. \A h \in Frames(todo') : h.op \notin Moving \cup {"unhold"}
    BY <1>9, <1>10, <1>11, Cleared, UnderIs DEF Ceilings, Moving
  <2>2. ASSUME todo' # <<>> PROVE Head(todo').op \notin {"insert", "txn"}
    <3>1. todo' \in Seq(Frame)
      BY DEF Inv, StateOK
    <3>2. Head(todo') \in Frames(todo')
      <4>1. Len(todo') \in Nat \ {0} /\ Head(todo') = todo'[1]
        BY <2>2, <3>1
      <4> QED BY <4>1 DEF Frames
    <3>3. \A h \in Under : h.op \notin {"insert", "txn"}
      BY UnderIs DEF Deferred
    <3> QED BY <1>10, <1>11, <3>2, <3>3
  <2> QED BY <2>1, <2>2, NothingAdded
<1> HIDE DEF F
<1>15. CapsAre' /\ CapsHeld'
  <2>1. ASSUME NEW b \in Limited PROVE HasCap(b, r)'
    <3>1. HasCap(b, r) /\ ~Letting(r, b) /\ ~Due(r, b) /\ ~Letting(r, InstanceOf[b])
      BY <1>9, Cleared DEF Ceilings, CapsHeld
    <3> QED BY <1>4, <1>6, <1>7, <3>1 DEF HasCap
  <2> QED BY <1>4, <1>7, <1>9, <2>1, RowSets, CapsBut
<1>16. Bounded'
  <2> SUFFICES ASSUME NEW b \in Limited, Anchored(reg', b) PROVE Taken(reg', b) <= BuildLimit[b]
    BY DEF Bounded, Limited
  <2>0. Anchored(reg, b)
    <3>1. \A m \in Memory : Counts(reg', m, b) => Counts(reg, m, b)
      <4> SUFFICES ASSUME NEW m \in Memory, Counts(reg', m, b) PROVE Counts(reg, m, b)
        OBVIOUS
      <4>1. CASE m = r
        BY <1>6, <1>7, <4>1 DEF Counts
      <4>2. CASE m # r
        <5>1. reg'[m] = reg[m]
          BY <1>7, <4>2, RowSets
        <5> QED BY <5>1 DEF Counts
      <4> QED BY <4>1, <4>2
    <3> QED BY <3>1, AnchoredBefore
  <2>1. b \in Builds /\ BuildLimit[b] \in Nat \cup {NoCap}
    BY Parties DEF Limited
  <2>2. Fit(reg) /\ Fit(reg')
    BY BothFit
  <2>3. /\ Taken(reg, b) \in Nat /\ Taken(reg', b) \in Nat /\ Taken(reg, b) <= BuildLimit[b]
        /\ reg[r].pages \in Nat
    BY <1>7, <2>0, <2>2, TakenIs DEF Ceilings, Bounded
  <2>4. \A y \in Memory \ {r} : reg'[y] = reg[y]
    BY <1>7, RowSets
  <2>5. Taken(reg', b) = Taken(reg, b) - Piece(reg, r, b) + Piece(reg', r, b)
    BY <2>2, <2>4, TakenMoves
  <2>6. Piece(reg, r, b) \in Nat /\ Piece(reg', r, b) \in Nat
    BY <2>2, TakenIs
  <2>7. CASE Counts(reg, r, b) /\ c.kind = "grow"
    <3>1. Piece(reg, r, b) = reg[r].pages /\ Piece(reg', r, b) <= reg[r].pages + c.n
      BY <1>5, <1>7, <1>8, <2>3, <2>7 DEF Piece
    <3>2. Taken(reg, b) + c.n <= BuildLimit[b]
      BY <1>13, <2>0, <2>7
    <3> QED BY <1>8, <2>1, <2>3, <2>5, <2>6, <3>1, <3>2 DEF NoCap
  <2>8. CASE Counts(reg, r, b) /\ c.kind # "grow"
    <3>1. Piece(reg, r, b) = reg[r].pages /\ Piece(reg', r, b) <= reg[r].pages
      BY <1>5, <1>7, <1>8, <2>3, <2>8 DEF Piece
    <3> QED BY <2>1, <2>3, <2>5, <2>6, <3>1 DEF NoCap
  <2>9. CASE ~Counts(reg, r, b)
    <3>1. Piece(reg, r, b) = 0 /\ Piece(reg', r, b) = 0
      BY <1>6, <1>7, <2>9 DEF Piece, Counts
    <3> QED BY <2>1, <2>3, <2>5, <2>6, <3>1 DEF NoCap
  <2> QED BY <1>8, <2>7, <2>8, <2>9
<1>17. Paged'
  <2> SUFFICES ASSUME NEW m \in Memory, reg'[m] # None, InitPages[m] > 0
               PROVE  /\ reg'[m].pages > 0
                      /\ reg'[m].txn # None /\ reg'[m].txn.kind = "grow" => reg'[m].txn.from > 0
    BY DEF Paged
  <2>1. CASE m # r
    BY <1>7, <2>1, RowSets DEF Ceilings, Paged
  <2>2. CASE m = r
    <3>1. reg[r].pages > 0 /\ reg[r].pages \in Nat
      BY <1>7, <2>2, BothFit, TakenIs DEF Ceilings, Paged
    <3> QED BY <1>5, <1>7, <1>8, <2>2, <3>1
  <2> QED BY <2>1, <2>2
<1> QED BY <1>14, <1>15, <1>16, <1>17, Gathered

\* The holder of a memory made with pages keeps its ceiling when pages are taken from
\* its total that no row has.
LEMMA CapStays ==
    ASSUME Inv, Budget, Caches, Paged, up, NEW n \in Nat, NEW T,
           \A t \in Token : Extra(t) = IF t \in T THEN n ELSE 0, sub_total(T, n),
           NEW m \in Memory, reg[m] # None, InitPages[m] > 0,
           NEW t \in Token, t \in reg[m].holders
    PROVE  caps'[t] = caps[t]
<1>1. Fit(reg) /\ m \in Res /\ m \notin Image
  BY RegFits, RowSets DEF Inv, Budget
<1>2. Share(reg, m, t) = reg[m].pages /\ reg[m].pages \in Nat
  BY <1>1, TakenIs DEF Share, counted
<1>3. reg[m].pages > 0 /\ Share(reg, m, t) <= AdoptTotals(reg)[t]
  BY <1>1, ShareBound DEF Paged
<1>4. AdoptTotals(reg)[t] \in Nat
  BY <1>1, SharesType
<1>5. totals[t] = AdoptTotals(reg)[t] + (IF t \in T THEN n ELSE 0)
  BY DEF Caches, TotalsOK
<1>6. t \in T => totals[t] > n
  BY <1>2, <1>3, <1>4, <1>5
<1>7. t \in T => ~(totals[t] <= n)
  BY <1>4, <1>5, <1>6
<1> QED BY <1>7 DEF sub_total

\* A transaction is settled.
LEMMA SettleCeilings ==
    ASSUME Inv, Inv', Budget, Budget', Ceilings, Settle PROVE Ceilings'
<1> DEFINE f == Head(todo)
<1>1. up /\ todo # <<>> /\ f \in Frame /\ f.op = "settle" /\ StateOK /\ HeadOK
  BY HeadFrame DEF Settle, Inv
<1>2. PICK r \in Memory : r = f.res
  BY <1>1, FrameFields
<1>3. r \in Res /\ reg[r] # None /\ reg[r].txn # None /\ reg[r] \in Row
  BY <1>1, <1>2, RowSets DEF HeadOK, StateOK
<1>4. UNCHANGED <<caps, builds>> /\ ~Busy
  BY <1>1 DEF Settle, Busy, Holding, Cleanup
<1> DEFINE t == reg[r].txn
           w == Undo(reg[r], t)
<1>5. CASE UNCHANGED reg /\ Then(Do("finish", r))
  <2> DEFINE g == [op |-> "finish", res |-> r]
  <2>1. g.op \notin Moving \cup {"unhold", "insert", "txn"} /\ Then(<<g>>)
    BY <1>5 DEF Moving, Do
  <2> HIDE DEF g
  <2>2. <<g>> \in Seq({g})
    BY OneSeq
  <2> QED BY <1>1, <1>4, <1>5, <2>1, <2>2, SameKept, PlainStep
<1>6. CASE /\ reg' = [reg EXCEPT ![r] = w]
           /\ Then(<<[op |-> "undone", res |-> r, n |-> t.pd,
                      d |-> IF t.kind = "grow" THEN t.to - t.from ELSE -1]>>)
  <2> DEFINE g == [op |-> "undone", res |-> r, n |-> t.pd,
                   d |-> IF t.kind = "grow" THEN t.to - t.from ELSE -1]
  <2>1. g.op \notin Moving \cup {"unhold", "insert", "txn"} /\ Then(<<g>>)
    BY <1>6 DEF Moving
  <2> HIDE DEF g
  <2>2. Frames(todo') \subseteq Under \cup {g}
    <3>1. <<g>> \in Seq({g})
      BY OneSeq
    <3> QED BY <1>1, <2>1, <3>1, PutOn
  <2>3. reg'[r] = w /\ \A y \in Res \ {r} : reg'[y] = reg[y]
    <3> HIDE DEF w
    <3> QED BY <1>1, <1>3, <1>6, RowSet
  <2>4. /\ w.holders = reg[r].holders /\ w.txn = None
        /\ w.pages = IF t.kind = "grow" THEN t.from ELSE reg[r].pages
    BY <1>3 DEF Undo, Row
  <2>5. /\ reg[r].pages \in Nat /\ (InitPages[r] > 0 => reg[r].pages > 0)
        /\ t.kind = "grow" => /\ t.from \in Nat /\ t.from <= reg[r].pages
                              /\ InitPages[r] > 0 => t.from > 0
    <3>1. RowFits(reg[r]) /\ reg[r].pages \in Nat /\ t \in Txn
      BY <1>3, RowFields DEF Budget, RowsFit
    <3>2. InitPages[r] > 0 => reg[r].pages > 0 /\ (t.kind = "grow" => t.from > 0)
      BY <1>3 DEF Ceilings, Paged
    <3> QED BY <1>3, <3>1, <3>2 DEF RowFits, Txn
  <2> HIDE DEF w, t
  <2>6. \A m \in Memory : LostRow(m)
    <3> SUFFICES ASSUME NEW m \in Memory, reg'[m] # None
                 PROVE  reg[m] # None /\ reg'[m].holders = reg[m].holders
                        /\ reg'[m].pages <= reg[m].pages
      BY DEF LostRow
    <3>1. CASE m = r
      BY <1>3, <2>3, <2>4, <2>5, <3>1
    <3>2. CASE m # r
      <4>1. reg'[m] = reg[m]
        BY <2>3, <3>2, RowSets
      <4>2. reg[m].pages \in Nat
        BY <4>1, BothFit, TakenIs
      <4> QED BY <4>1, <4>2
    <3> QED BY <3>1, <3>2
  <2>7. Paged'
    <3> SUFFICES ASSUME NEW m \in Memory, reg'[m] # None, InitPages[m] > 0
                 PROVE  /\ reg'[m].pages > 0
                        /\ reg'[m].txn # None /\ reg'[m].txn.kind = "grow" => reg'[m].txn.from > 0
      BY DEF Paged
    <3>1. CASE m = r
      BY <2>3, <2>4, <2>5, <3>1
    <3>2. CASE m # r
      <4>1. reg'[m] = reg[m]
        BY <2>3, <3>2, RowSets
      <4> QED BY <4>1 DEF Ceilings, Paged
    <3> QED BY <3>1, <3>2
  <2>8. \A y \in {g} : y.op \notin Moving \cup {"unhold", "insert", "txn"}
    BY <2>1
  <2> QED BY <1>4, <2>2, <2>6, <2>7, <2>8, Going
<1> QED BY <1>2, <1>5, <1>6 DEF Settle

\* Pages that a row has given up are taken from the totals.
LEMMA LessCeilings ==
    ASSUME Inv, Inv', Budget, Budget', Caches, Ceilings, HeapShrunk \/ Undone PROVE Ceilings'
<1> DEFINE f == Head(todo)
           Light(op) == op \notin Moving \cup {"unhold", "insert", "txn"}
<1>t. ASSUME up, todo # <<>>, f.op \in {"shrunk", "undone"}, UNCHANGED <<reg, builds>>,
             NEW n \in Nat, NEW T,
             \A t \in Token : Extra(t) = IF t \in T THEN n ELSE 0,
             sub_total(T, n) \/ UNCHANGED caps,
             NEW S, \A g \in S : Light(g.op), NEW s \in Seq(S), Then(s)
      PROVE  Ceilings'
  <2>1. \A m \in Memory : LostRow(m)
    <3> SUFFICES ASSUME NEW m \in Memory, reg'[m] # None
                 PROVE  reg[m] # None /\ reg'[m].holders = reg[m].holders
                        /\ reg'[m].pages <= reg[m].pages
      BY DEF LostRow
    <3>1. reg'[m] = reg[m]
      BY <1>t
    <3>2. reg[m].pages \in Nat
      BY <3>1, BothFit, TakenIs
    <3> QED BY <3>1, <3>2
  <2>2. \A m \in Memory : KeptRow(m)
    BY <1>t, SameKept
  <2>3. Paged /\ Paged'
    BY <2>2, PagedStill DEF Ceilings
  <2>4. \A t \in Token : caps'[t] \in {caps[t], NoCap}
    BY <1>t DEF sub_total
  <2>5. ASSUME NEW m \in Memory, reg[m] # None, InitPages[m] > 0,
               NEW b \in Builds, NEW t \in Party(b), t \in reg[m].holders
        PROVE  caps'[t] = caps[t]
    <3>1. t \in Token
      BY Parties DEF Party
    <3> QED BY <1>t, <2>3, <2>5, <3>1, CapStays
  <2>6. ~Busy
    BY <1>t DEF Busy, Holding, Cleanup
  <2>7. Frames(todo') \subseteq Under \cup S
    BY <1>t, PutOn
  <2> QED BY <1>t, <2>1, <2>3, <2>4, <2>5, <2>6, <2>7, Going
<1>1. CASE HeapShrunk
  <2>1. up /\ todo # <<>> /\ f \in Frame /\ f.op = "shrunk"
    BY <1>1, HeadFrame DEF HeapShrunk
  <2>2. f.n \in Nat
    <3>1. f.n \in Int /\ f.n >= 0
      BY <2>1, FrameFields DEF Budget, FramesFit
    <3> QED BY <3>1
  <2> DEFINE T == reg[f.res].holders
             n == f.n
  <2>3. \A t \in Token : Extra(t) = IF t \in T THEN n ELSE 0
    BY <2>1 DEF Extra
  <2>4. sub_total(T, n) /\ UNCHANGED <<reg, builds>> /\ n \in Nat /\ Then(<<>>)
    BY <1>1, <2>2 DEF HeapShrunk, callers
  <2>5. <<>> \in Seq({}) /\ \A g \in {} : Light(g.op)
    OBVIOUS
  <2> HIDE DEF T, n
  <2> QED BY <2>1, <2>3, <2>4, <2>5, <1>t
<1>2. CASE Undone
  <2>1. up /\ todo # <<>> /\ f \in Frame /\ f.op = "undone"
    BY <1>2, HeadFrame DEF Undone
  <2>2. f.d \in Int
    BY <2>1, FrameFields
  <2> DEFINE T == IF f.d >= 0 THEN reg[f.res].holders ELSE {}
             n == IF f.d >= 0 THEN f.d ELSE 0
             g == [op |-> "next", res |-> f.res]
  <2>3. Light(g.op) /\ Then(<<g>>)
    BY <1>2 DEF Undone, Do, Moving
  <2> HIDE DEF g
  <2>4. <<g>> \in Seq({g}) /\ \A y \in {g} : Light(y.op)
    BY <2>3, OneSeq
  <2>5. \A t \in Token : Extra(t) = IF t \in T THEN n ELSE 0
    BY <2>1 DEF Extra
  <2>6. sub_total(T, n) \/ UNCHANGED caps
    BY <1>2 DEF Undone
  <2>7. UNCHANGED <<reg, builds>> /\ n \in Nat
    BY <1>2, <2>2 DEF Undone, callers
  <2> HIDE DEF T, n
  <2> QED BY <2>1, <2>3, <2>4, <2>5, <2>6, <2>7, <1>t
<1> QED BY <1>1, <1>2

-----------------------------------------------------------------------------
(* Requests.                                                               *)

\* Between two requests nothing is under way.
LEMMA IdleCalm == ASSUME Idle PROVE up /\ todo = <<>> /\ ~Busy /\ \A t \in Token : Extra(t) = 0
BY DEF Idle, Busy, Extra

\* A build's first reservation carries its ceiling.
LEMMA PendingIs ==
    ASSUME StateOK, NEW t \in Token, caps' = pending_cap(t)
    PROVE  /\ \A s \in Token : s # t => caps'[s] = caps[s]
           /\ caps'[t] = IF t \in Limited /\ caps[t] = NoCap THEN BuildLimit[t] ELSE caps[t]
BY DEF StateOK, pending_cap, Limited

\* A reservation sets at most the ceiling of its own build, in one row.
LEMMA CapsFrom ==
    ASSUME Inv, Ceilings, ~Busy, UNCHANGED builds, NEW t \in Token, caps' = pending_cap(t), NEW r,
           \A m \in Memory \ {r} : reg'[m] = reg[m],
           \A b \in Limited : r \in Memory => HasCap(b, r)'
    PROVE  CapsAre' /\ CapsHeld'
<1>1. /\ \A s \in Token : s # t => caps'[s] = caps[s]
      /\ caps'[t] = IF t \in Limited /\ caps[t] = NoCap THEN BuildLimit[t] ELSE caps[t]
  BY PendingIs DEF Inv
<1>2. ASSUME NEW b \in Builds, NEW s \in Token, s \in Party(b)
      PROVE  caps'[s] \in {NoCap, BuildLimit[b]}
  <2>1. caps[s] \in {NoCap, BuildLimit[b]}
    BY <1>2 DEF Ceilings, CapsAre
  <2>2. s = t /\ t \in Builds => b = t
    BY <1>2, Parties DEF Party
  <2> QED BY <1>1, <2>1, <2>2 DEF Limited
<1>3. CapsAre'
  BY <1>2 DEF CapsAre
<1>4. ASSUME NEW b \in Limited, NEW m \in Memory, m # r PROVE HasCap(b, m)'
  <2>1. HasCap(b, m) /\ ~Letting(m, b) /\ ~Due(m, b) /\ ~Letting(m, InstanceOf[b])
    BY Cleared DEF Ceilings, CapsHeld
  <2>2. reg'[m] = reg[m]
    BY <1>4
  <2>3. b \in Token /\ InstanceOf[b] \in Token \ Builds /\ BuildLimit[b] # NoCap
    BY Parties DEF Limited
  <2>4. caps[b] = BuildLimit[b] => caps'[b] = BuildLimit[b]
    BY <1>1, <2>3
  <2>5. caps'[InstanceOf[b]] = caps[InstanceOf[b]]
    BY <1>1, <2>3 DEF Limited
  <2> QED BY <2>1, <2>2, <2>4, <2>5 DEF HasCap
<1>5. CapsHeld'
  BY <1>4 DEF CapsHeld, Limited
<1> QED BY <1>3, <1>5

\* The same, when no row is written.
LEMMA CapsRest ==
    ASSUME Inv, Ceilings, ~Busy, UNCHANGED <<reg, builds>>, NEW t \in Token, caps' = pending_cap(t)
    PROVE  CapsAre' /\ CapsHeld'
<1>1. None \notin Memory
  BY ConstantsOK, RowSets DEF Res
<1>2. \A m \in Memory \ {None} : reg'[m] = reg[m]
  OBVIOUS
<1>3. \A b \in Limited : None \in Memory => HasCap(b, None)'
  BY <1>1
<1> QED BY <1>2, <1>3, CapsFrom

\* What a build is found to have room for.
LEMMA BuildTakes ==
    ASSUME Inv, Budget, Caches, CapsAre, Idle, NEW t \in Limited, t \in builds,
           caps' = pending_cap(t), NEW n \in Nat, within(caps', t, n)
    PROVE  caps'[t] = BuildLimit[t] /\ Taken(reg, t) + n <= BuildLimit[t]
<1>1. t \in Builds /\ t \in Token /\ BuildLimit[t] # NoCap /\ BuildLimit[t] \in Nat \cup {NoCap}
  BY Parties DEF Limited
<1>2. caps'[t] = BuildLimit[t]
  <2>1. caps[t] \in {NoCap, BuildLimit[t]}
    BY <1>1 DEF CapsAre, Party
  <2>2. caps'[t] = IF t \in Limited /\ caps[t] = NoCap THEN BuildLimit[t] ELSE caps[t]
    BY <1>1, PendingIs DEF Inv
  <2> QED BY <2>1, <2>2
<1>3. totals[t] + n <= BuildLimit[t]
  BY <1>1, <1>2 DEF within
<1>4. Fit(reg)
  BY RegFits DEF Inv, Budget
<1>5. \A m \in Memory : Counts(reg, m, t) => t \in reg[m].holders
  <2> SUFFICES ASSUME NEW m \in Memory, Counts(reg, m, t) PROVE t \in reg[m].holders
    OBVIOUS
  <2>1. reg[m] # None /\ RowTokens(m) /\ m \notin Image
    BY RowSets DEF Counts, Caches, TokensOK
  <2> QED BY <1>1, <2>1 DEF RowTokens, Counts, Party
<1>6. Taken(reg, t) <= AdoptTotals(reg)[t] /\ Taken(reg, t) \in Nat /\ AdoptTotals(reg)[t] \in Nat
  BY <1>1, <1>4, <1>5, TakenByOne, TakenIs, SharesType
<1>7. totals[t] = AdoptTotals(reg)[t] + 0
  BY <1>1, IdleCalm DEF Caches, TotalsOK
<1> QED BY <1>1, <1>2, <1>3, <1>6, <1>7

\* Ceilings aside, a request that leaves the rows alone.
LEMMA RowsRest ==
    ASSUME Ceilings, UNCHANGED reg PROVE Bounded' /\ Paged'
BY DEF Ceilings, Bounded, Paged

\* A reservation.
LEMMA ReserveCeilings ==
    ASSUME Inv, Inv', Budget, Budget', Caches, Ceilings, NEW p \in Pid, NEW r \in Res,
           NEW t \in Token, Reserve(p, r, t)
    PROVE  Ceilings'
<1>1. Idle /\ MayHold(p, t) /\ caps' = pending_cap(t) /\ UNCHANGED <<reg, builds>>
  BY DEF Reserve
<1>2. todo = <<>> /\ ~Busy
  BY <1>1, IdleCalm
<1>3. CapsAre' /\ CapsHeld' /\ Bounded' /\ Paged'
  BY <1>1, <1>2, RowsRest, CapsRest
<1>4. CASE todo' = todo
  <2>1. Frames(todo') = {}
    BY <1>2, <1>4, UnderIs
  <2>2. HeadFits'
    BY <1>2, <1>4, NothingAdded
  <2> QED BY <1>3, <2>1, <2>2, Gathered
<1>5. CASE todo' = Insert(p, r, t) /\ within(caps', t, NewRow(r, t).pages)
  <2> DEFINE g == [op |-> "insert", pid |-> p, res |-> r, tok |-> t]
  <2>1. g.op = "insert" /\ g.tok = t /\ g.res = r /\ todo' = <<g>>
    BY <1>5 DEF Insert
  <2> HIDE DEF g
  <2>2. Frames(todo') = {g} /\ Head(todo') = g
    BY <2>1, OneFrame
  <2>3. t \in Limited /\ r \in Memory =>
           /\ t \in builds /\ caps'[t] = BuildLimit[t]
           /\ Taken(reg, t) + InitPages[r] <= BuildLimit[t]
    <3> SUFFICES ASSUME t \in Limited, r \in Memory
                 PROVE  /\ t \in builds /\ caps'[t] = BuildLimit[t]
                        /\ Taken(reg, t) + InitPages[r] <= BuildLimit[t]
      OBVIOUS
    <3>1. t \in builds
      BY <1>1 DEF MayHold, Limited
    <3>2. NewRow(r, t).pages = InitPages[r] /\ InitPages[r] \in Nat
      BY ConstantsOK DEF NewRow
    <3> QED BY <1>1, <1>5, <3>1, <3>2, BuildTakes DEF Ceilings
  <2>4. InsertFits(g)' /\ GrowFits(g)'
    BY <1>1, <2>1, <2>3 DEF InsertFits, GrowFits, Limited
  <2>5. HeadFits'
    BY <2>2, <2>4 DEF HeadFits
  <2>6. \A f \in Frames(todo') : f.op \notin Moving \cup {"unhold"}
    BY <2>1, <2>2 DEF Moving
  <2> QED BY <1>3, <2>5, <2>6, Gathered
<1> QED BY <1>4, <1>5 DEF Reserve

\* One more holder.
LEMMA AcquireCeilings ==
    ASSUME Inv, Inv', Budget, Budget', Caches, Ceilings, NEW p \in Pid, NEW r \in Res,
           NEW t \in Token, Acquire(p, r, t)
    PROVE  Ceilings'
<1>1. /\ Idle /\ MayHold(p, t) /\ caps' = pending_cap(t) /\ UNCHANGED <<todo, builds>>
      /\ r \notin Image /\ StateOK
  BY DEF Acquire, callers, Inv
<1>2. todo = <<>> /\ ~Busy
  BY <1>1, IdleCalm
<1>3. HeadFits' /\ \A f \in Frames(todo') : f.op \notin Moving \cup {"unhold"}
  <2>1. Frames(todo') = {}
    BY <1>1, <1>2, UnderIs
  <2> QED BY <1>1, <1>2, <2>1, NothingAdded
<1>4. CASE UNCHANGED reg
  <2>1. CapsAre' /\ CapsHeld' /\ Bounded' /\ Paged'
    BY <1>1, <1>2, <1>4, RowsRest, CapsRest
  <2> QED BY <1>3, <2>1, Gathered
<1>5. CASE Live(r) /\ within(caps', t, reg[r].pages) /\ reg' # reg
  <2> DEFINE w == [reg[r] EXCEPT !.holders = @ \cup {t}]
  <2>1. reg' = [reg EXCEPT ![r] = w]
    BY <1>5 DEF Acquire
  <2>2. reg[r] \in Row /\ reg[r] # None
    BY <1>1, <1>5 DEF Live, StateOK
  <2>3. /\ w.holders = reg[r].holders \cup {t} /\ w.pages = reg[r].pages
        /\ w.txn = reg[r].txn /\ reg[r].pages \in Nat
    BY <2>2 DEF Row
  <2> HIDE DEF w
  <2>4. reg'[r] = w /\ \A y \in Res \ {r} : reg'[y] = reg[y]
    BY <1>1, <2>1, RowSet
  <2>5. t \in Limited => t \in builds
    BY <1>1 DEF MayHold, Limited
  <2>6. t \notin Instances
    BY <1>1 DEF MayHold
  <2>7. t \in Limited => caps'[t] = BuildLimit[t] /\ Taken(reg, t) + reg[r].pages <= BuildLimit[t]
    BY <1>1, <1>5, <2>3, <2>5, BuildTakes DEF Ceilings
  <2>8. Paged'
    <3> SUFFICES ASSUME NEW m \in Memory, reg'[m] # None, InitPages[m] > 0
                 PROVE  /\ reg'[m].pages > 0
                        /\ reg'[m].txn # None /\ reg'[m].txn.kind = "grow" => reg'[m].txn.from > 0
      BY DEF Paged
    <3>1. reg[m] # None /\ reg'[m].pages = reg[m].pages /\ reg'[m].txn = reg[m].txn
      BY <2>2, <2>3, <2>4, RowSets
    <3> QED BY <3>1 DEF Ceilings, Paged
  <2>9. ASSUME NEW b \in Limited PROVE b \in Builds /\ b \in Token /\ t # InstanceOf[b]
    BY <2>6, Parties DEF Limited
  <2>10. ASSUME NEW b \in Limited, r \in Memory PROVE HasCap(b, r)'
    <3>1. HasCap(b, r) /\ ~Letting(r, b) /\ ~Due(r, b) /\ ~Letting(r, InstanceOf[b])
      BY <1>2, <2>10, Cleared DEF Ceilings, CapsHeld
    <3>2. /\ \A s \in Token : s # t => caps'[s] = caps[s]
          /\ InstanceOf[b] \in Token
      BY <1>1, PendingIs, Parties DEF Limited
    <3>3. CASE b = t
      BY <1>1, <2>2, <2>3, <2>4, <2>5, <2>7, <2>9, <3>1, <3>2, <3>3 DEF HasCap
    <3>4. CASE b # t
      BY <1>1, <2>2, <2>3, <2>4, <2>9, <3>1, <3>2, <3>4 DEF HasCap
    <3> QED BY <3>3, <3>4
  <2>11. CapsAre' /\ CapsHeld'
    BY <1>1, <1>2, <2>4, <2>10, RowSets, CapsFrom
  <2>12. Bounded'
    <3> SUFFICES ASSUME NEW b \in Limited, Anchored(reg', b)
                 PROVE  Taken(reg', b) <= BuildLimit[b]
      BY DEF Bounded, Limited
    <3>1. BuildLimit[b] \in Nat \cup {NoCap} /\ Fit(reg) /\ Fit(reg')
      BY <2>9, Parties, BothFit
    <3>2. Taken(reg, b) \in Nat /\ Taken(reg', b) \in Nat
      BY <3>1, TakenIs
    <3>3. CASE r \in Memory /\ t = b
      <4>1. \A y \in Memory \ {r} : reg'[y] = reg[y]
        BY <2>4, RowSets
      <4>2. Taken(reg', b) = Taken(reg, b) - Piece(reg, r, b) + Piece(reg', r, b)
        BY <3>1, <3>3, <4>1, TakenMoves
      <4>3. Piece(reg, r, b) \in Nat /\ Piece(reg', r, b) \in Nat
        BY <3>1, <3>3, TakenIs
      <4>4. Piece(reg', r, b) <= reg[r].pages
        BY <2>3, <2>4 DEF Piece
      <4>5. Taken(reg, b) + reg[r].pages <= BuildLimit[b]
        BY <2>7, <3>3
      <4> QED BY <2>3, <3>1, <3>2, <4>2, <4>3, <4>4, <4>5 DEF NoCap
    <3>4. CASE ~(r \in Memory /\ t = b)
      <4>1. ASSUME NEW m \in Memory, Counts(reg', m, b)
            PROVE  Counts(reg, m, b) /\ reg'[m].pages <= reg[m].pages
        <5>1. CASE m = r
          <6>1. t \notin Party(b)
            BY <2>9, <3>4, <5>1 DEF Party
          <6> QED BY <2>2, <2>3, <2>4, <4>1, <5>1, <6>1 DEF Counts
        <5>2. CASE m # r
          <6>1. reg'[m] = reg[m]
            BY <2>4, <5>2, RowSets
          <6>2. reg[m].pages \in Nat
            BY <3>1, <4>1, <6>1, TakenIs DEF Counts
          <6> QED BY <4>1, <6>1, <6>2 DEF Counts
        <5> QED BY <5>1, <5>2
      <4>2. Taken(reg', b) <= Taken(reg, b)
        BY <3>1, <4>1, TakenFalls
      <4>3. Taken(reg, b) <= BuildLimit[b]
        BY <4>1, AnchoredBefore DEF Ceilings, Bounded
      <4> QED BY <3>1, <3>2, <4>2, <4>3 DEF NoCap
    <3> QED BY <3>3, <3>4
  <2> QED BY <1>3, <2>8, <2>11, <2>12, Gathered
<1> QED BY <1>4, <1>5 DEF Acquire

\* Two frames.
IsPair(s, a, b) ==
    /\ s # <<>> /\ Len(s) = 2 /\ s[1] = a /\ s[2] = b /\ Head(s) = a
    /\ Frames(s) = {a, b}
\* A stack of two steps.
LEMMA TwoFrames ==
    ASSUME NEW a, NEW b PROVE <<>> \o <<b>> = <<b>> /\ IsPair(<<a>> \o <<b>>, a, b)
<1> DEFINE S == {a, b}
           s == <<a>> \o <<b>>
<1>1. <<a>> \in Seq(S) /\ <<b>> \in Seq(S)
  OBVIOUS
<1>2. Len(<<a>>) = 1 /\ Len(<<b>>) = 1 /\ <<a>>[1] = a /\ <<b>>[1] = b
  OBVIOUS
<1>3. s \in Seq(S) /\ Len(s) = 2 /\ s[1] = a /\ s[2] = b
  BY <1>1, <1>2
<1>4. <<>> \o <<b>> = <<b>>
  BY <1>1, <1>2
<1> HIDE DEF s
<1>5. s # <<>> /\ Head(s) = a /\ Frames(s) = {a, b}
  BY <1>3 DEF Frames
<1> QED BY <1>3, <1>4, <1>5 DEF IsPair, s

\* Holders begin to be dropped.
LEMMA DropsCeilings ==
    ASSUME Inv, Ceilings, Idle, UNCHANGED <<reg, caps, builds>>, NEW S, todo' = Each("drops", S)
    PROVE  Ceilings'
<1> DEFINE f == [op |-> "drops", set |-> S]
<1>1. todo = <<>> /\ ~Busy
  BY IdleCalm
<1>2. f.op = "drops" /\ (todo' = <<>> \/ todo' = <<f>>)
  BY DEF Each
<1> HIDE DEF f
<1>3. /\ \A i \in 1 .. Len(todo') : todo'[i] = f /\ i = 1
      /\ \A g \in Frames(todo') : g = f
      /\ todo' # <<>> => Head(todo') = f
  <2>1. CASE todo' = <<>>
    BY <2>1 DEF Frames
  <2>2. CASE todo' = <<f>>
    BY <2>2 DEF Frames
  <2> QED BY <1>2, <2>1, <2>2
<1>4. Piled'
  <2>1. \A i \in 1 .. Len(todo') : todo'[i].op = "drops" /\ 1 .. i = {1}
    BY <1>2, <1>3
  <2> QED BY <1>2, <1>3, <2>1 DEF Piled, Holding
<1>5. FramesFollow'
  BY <1>2, <1>3 DEF FramesFollow
<1>6. HeadFits'
  BY <1>2, <1>3, NothingAdded
<1>7. CapsAre' /\ Bounded' /\ Paged'
  BY RowsRest DEF Ceilings, CapsAre
<1>8. CapsHeld'
  <2> SUFFICES ASSUME NEW b \in Limited, NEW m \in Memory PROVE HasCap(b, m)'
    BY DEF CapsHeld, Limited
  <2>1. HasCap(b, m) /\ ~Letting(m, b) /\ ~Due(m, b) /\ ~Letting(m, InstanceOf[b])
    BY <1>1, Cleared DEF Ceilings, CapsHeld
  <2> QED BY <2>1 DEF HasCap
<1> QED BY <1>4, <1>5, <1>6, <1>7, <1>8 DEF Ceilings

\* What a build holds in the index.
LEMMA BuildHeld ==
    ASSUME Inv, Caches, Idle, NEW p \in Pid, NEW t \in builds, OwnerOf[t] = p,
           NEW m \in Memory, reg[m] # None, t \in reg[m].holders
    PROVE  <<m, t>> \in {x \in held : x[2] = t}
<1>1. held = AdoptHeld(reg) /\ m \in Res /\ t \in Token /\ p # None
  BY IdleIs, RowSets, ConstantsOK DEF Caches, Inv, StateOK
<1>2. <<m, t>> \in Res \X Token /\ <<m, t>>[1] = m /\ <<m, t>>[2] = t
  BY <1>1
<1>3. <<m, t>> \in held
  BY <1>1, <1>2 DEF AdoptHeld
<1> QED BY <1>2, <1>3

\* A build is over.
LEMMA DiscardCeilings ==
    ASSUME Inv, Caches, Ceilings, NEW p \in Pid, NEW t \in Token, Discard(p, t)
    PROVE  Ceilings'
<1> DEFINE S == {x \in held : x[2] = t}
<1>1. /\ Idle /\ t \in builds /\ OwnerOf[t] = p /\ builds' = builds \ {t}
      /\ UNCHANGED <<reg, caps>> /\ builds \subseteq Builds
  BY DEF Discard, durable, Inv, StateOK
<1>2. todo = <<>> /\ ~Busy
  BY <1>1, IdleCalm
<1>3. PICK f, g : /\ f.op = "drops" /\ f.set = S /\ g.op = "setcap" /\ g.tok = t /\ g.n = NoCap
                  /\ (todo' = <<g>> /\ S = {}) \/ IsPair(todo', f, g)
  <2> DEFINE a == [op |-> "drops", set |-> S]
             b == [op |-> "setcap", tok |-> t, n |-> NoCap]
  <2>1. /\ a.op = "drops" /\ a.set = S /\ b.op = "setcap" /\ b.tok = t /\ b.n = NoCap
        /\ S = {} => todo' = <<>> \o <<b>>
        /\ S # {} => todo' = <<a>> \o <<b>>
    BY DEF Discard, Each, SetCapTo
  <2> HIDE DEF a, b, S
  <2>2. <<>> \o <<b>> = <<b>> /\ IsPair(<<a>> \o <<b>>, a, b)
    BY TwoFrames
  <2> QED BY <2>1, <2>2
<1> HIDE DEF S
<1>4. /\ \A i \in 1 .. Len(todo') : todo'[i] \in {f, g}
      /\ Frames(todo') \subseteq {f, g} /\ (S # {} => f \in Frames(todo'))
      /\ Head(todo') \in {f, g}
  <2>1. CASE todo' = <<g>> /\ S = {}
    BY <2>1 DEF Frames
  <2>2. CASE IsPair(todo', f, g)
    <3>1. 1 .. Len(todo') = {1, 2}
      BY <2>2 DEF IsPair
    <3> QED BY <2>2, <3>1 DEF IsPair
  <2> QED BY <1>3, <2>1, <2>2
<1>5. Piled'
  <2>1. \A i \in 1 .. Len(todo') : \A j \in 1 .. i : j \in 1 .. Len(todo')
    <3>1. Len(todo') \in Nat
      BY <1>3 DEF IsPair
    <3> QED BY <3>1
  <2> QED BY <1>3, <1>4, <2>1 DEF Piled, Holding
<1>6. FramesFollow'
  <2>1. SetsCap(g)'
    BY <1>1, <1>3 DEF SetsCap
  <2> QED BY <1>3, <1>4, <2>1 DEF FramesFollow
<1>7. HeadFits'
  BY <1>3, <1>4, NothingAdded
<1>8. CapsAre' /\ Bounded' /\ Paged'
  BY <1>1, RowsRest DEF Ceilings, CapsAre
<1>9. CapsHeld'
  <2> SUFFICES ASSUME NEW b \in Limited, NEW m \in Memory, reg[m] # None PROVE HasCap(b, m)'
    BY <1>1 DEF CapsHeld, Limited, HasCap
  <2>1. HasCap(b, m) /\ ~Letting(m, b) /\ ~Due(m, b) /\ ~Letting(m, InstanceOf[b])
    BY <1>2, Cleared DEF Ceilings, CapsHeld
  <2>2. b = t /\ b \in reg[m].holders => Due(m, b)'
    <3> SUFFICES ASSUME b = t, b \in reg[m].holders PROVE Due(m, b)'
      OBVIOUS
    <3>1. <<m, b>> \in S
      BY <1>1, BuildHeld DEF S
    <3> QED BY <1>3, <1>4, <3>1 DEF Due
  <2> QED BY <1>1, <2>1, <2>2 DEF HasCap
<1> QED BY <1>5, <1>6, <1>7, <1>8, <1>9 DEF Ceilings

\* A build becomes an instance.
LEMMA TransferCeilings ==
    ASSUME Inv, Caches, Ceilings, NEW p \in Pid, NEW t \in Token, Transfer(p, t)
    PROVE  Ceilings'
<1> DEFINE S == {x \in held : x[2] = t}
           both == S # {} /\ caps[t] # NoCap
<1>1. /\ Idle /\ t \in builds /\ OwnerOf[t] = p /\ builds' = builds \ {t} /\ UNCHANGED reg
      /\ builds \subseteq Builds /\ caps' = [caps EXCEPT ![t] = NoCap]
      /\ caps \in [Token -> Nat \cup {NoCap}]
  BY DEF Transfer, Inv, StateOK
<1>2. todo = <<>> /\ ~Busy
  BY <1>1, IdleCalm
<1>3. PICK f, g : /\ f.op = "retags" /\ f.set = S
                  /\ g.op = "setcap" /\ g.tok = InstanceOf[t] /\ g.n = caps[t]
                  /\ both => IsPair(todo', g, f)
                  /\ ~both => (todo' = <<>> /\ S = {}) \/ todo' = <<f>>
  <2> DEFINE a == [op |-> "retags", set |-> S]
             b == [op |-> "setcap", tok |-> InstanceOf[t], n |-> caps[t]]
  <2>1. /\ a.op = "retags" /\ a.set = S
        /\ b.op = "setcap" /\ b.tok = InstanceOf[t] /\ b.n = caps[t]
        /\ both => todo' = <<b>> \o <<a>>
        /\ ~both => (todo' = <<>> /\ S = {}) \/ todo' = <<a>>
    BY DEF Transfer, Each, SetCapTo
  <2> HIDE DEF a, b, S, both
  <2>2. IsPair(<<b>> \o <<a>>, b, a)
    BY TwoFrames
  <2> QED BY <2>1, <2>2
<1>4. /\ S # {} => \A x \in S : x[2] = t
      /\ \A m \in Memory : reg[m] # None /\ t \in reg[m].holders => <<m, t>> \in S
  BY <1>1, BuildHeld
<1>5. /\ \A s \in Token : s # t => caps'[s] = caps[s]
      /\ caps'[t] = NoCap
  BY <1>1
<1> HIDE DEF S
<1>6. /\ \A i \in 1 .. Len(todo') : /\ todo'[i] \in {f, g}
                                    /\ todo'[i] = g => i = 1 /\ both
                                    /\ todo'[i] = f => i = 1 \/ (i = 2 /\ Head(todo') = g)
      /\ Frames(todo') \subseteq {f, g} /\ (S # {} => f \in Frames(todo'))
      /\ both => Head(todo') = g
      /\ ~both => g \notin Frames(todo')
      /\ todo' # <<>> => Head(todo') \in {f, g}
  <2>0. f # g
    BY <1>3
  <2>1. CASE both
    <3>1. IsPair(todo', g, f)
      BY <1>3, <2>1
    <3>2. 1 .. Len(todo') = {1, 2} /\ todo'[1] = g /\ todo'[2] = f /\ Head(todo') = g
      BY <3>1 DEF IsPair
    <3>3. Frames(todo') = {f, g}
      BY <3>1 DEF IsPair
    <3> QED BY <2>0, <2>1, <3>2, <3>3
  <2>2. CASE todo' = <<>> /\ S = {} /\ ~both
    BY <2>2 DEF Frames
  <2>3. CASE todo' = <<f>> /\ ~both
    <3>1. Frames(todo') = {f} /\ Len(todo') = 1 /\ todo'[1] = f /\ Head(todo') = f
      BY <2>3 DEF Frames
    <3> QED BY <2>0, <2>3, <3>1
  <2> QED BY <1>3, <2>1, <2>2, <2>3
<1>7. Piled'
  <2>1. \A i \in 1 .. Len(todo') : /\ todo'[i].op = "retags" => i = 1 \/ (i = 2 /\ Head(todo') = g)
                                   /\ todo'[i].op \in {"drops", "setcap"} => i = 1
    BY <1>3, <1>6
  <2>2. \A i \in 1 .. Len(todo') : todo'[i].op = "setcap" => \A j \in 1 .. i : todo'[j].op \in Holding
    BY <2>1 DEF Holding
  <2>3. \A i \in 1 .. Len(todo') : todo'[i].op # "drops"
    BY <1>3, <1>6
  <2> QED BY <1>3, <2>1, <2>2, <2>3 DEF Piled
<1>8. ASSUME NEW b \in Limited, NEW m \in Memory, reg[m] # None
      PROVE  /\ b \in Builds /\ b \in Token /\ InstanceOf[b] \in Token \ Builds
             /\ BuildLimit[b] # NoCap
             /\ InitPages[m] > 0 /\ b \in builds /\ b \in reg[m].holders =>
                  caps[b] = BuildLimit[b]
             /\ b \notin builds => b \notin reg[m].holders
             /\ InitPages[m] > 0 /\ InstanceOf[b] \in reg[m].holders =>
                  caps[InstanceOf[b]] = BuildLimit[b]
  <2>1. HasCap(b, m) /\ ~Letting(m, b) /\ ~Due(m, b) /\ ~Letting(m, InstanceOf[b])
    BY <1>2, <1>8, Cleared DEF Ceilings, CapsHeld
  <2> QED BY <1>8, <2>1, Parties DEF HasCap, Limited
<1>9. FramesFollow'
  <2>1. g \in Frames(todo') => SetsCap(g)'
    <3> SUFFICES ASSUME both PROVE SetsCap(g)'
      BY <1>6
    <3>1. caps[t] = BuildLimit[t]
      BY <1>1 DEF Ceilings, CapsAre, Party
    <3> QED BY <1>1, <1>3, <3>1 DEF SetsCap
  <2>2. MovesCap(f)'
    <3> SUFFICES ASSUME NEW x \in S, x[2] \in Limited, x[1] \in Memory, reg[x[1]] # None,
                        InitPages[x[1]] > 0, x[2] \in reg[x[1]].holders
                 PROVE  /\ Head(todo').op = "setcap" /\ Head(todo').tok = InstanceOf[x[2]]
                        /\ Head(todo').n = BuildLimit[x[2]]
      BY <1>1, <1>3 DEF MovesCap, Limited
    <3>1. x[2] = t
      BY <1>4
    <3>2. caps[t] = BuildLimit[t] /\ BuildLimit[t] # NoCap
      BY <1>1, <1>8, <3>1
    <3> QED BY <1>3, <1>6, <3>1, <3>2
  <2> QED BY <1>3, <1>6, <2>1, <2>2 DEF FramesFollow
<1>10. HeadFits'
  BY <1>3, <1>6, NothingAdded
<1>11. Bounded' /\ Paged'
  BY <1>1, RowsRest
<1>12. CapsAre'
  <2> SUFFICES ASSUME NEW b \in Builds, NEW s \in Token, s \in Party(b)
               PROVE  caps'[s] \in {NoCap, BuildLimit[b]}
    BY DEF CapsAre
  <2>1. caps[s] \in {NoCap, BuildLimit[b]}
    BY DEF Ceilings, CapsAre
  <2> QED BY <1>5, <2>1
<1>13. CapsHeld'
  <2> SUFFICES ASSUME NEW b \in Limited, NEW m \in Memory, reg[m] # None PROVE HasCap(b, m)'
    BY <1>1 DEF CapsHeld, Limited, HasCap
  <2>1. b = t /\ b \in reg[m].holders => Due(m, b)'
    BY <1>3, <1>4, <1>6 DEF Due
  <2>2. InstanceOf[b] # t
    BY <1>1, <1>8
  <2> QED BY <1>1, <1>5, <1>8, <2>1, <2>2 DEF HasCap
<1> QED BY <1>7, <1>9, <1>10, <1>11, <1>12, <1>13 DEF Ceilings

\* A begin drops the outcome of the process's earlier call.
LEMMA ForgetKept ==
    ASSUME StateOK, NEW p \in Pid, cl[p].res \in Memory, ForgetOutcome(p)
    PROVE  \A m \in Memory : KeptRow(m)
<1> DEFINE r == cl[p].res
<1>1. CASE UNCHANGED reg
  BY <1>1, SameKept
<1>2. CASE reg[r] # None /\ reg' = [reg EXCEPT ![r].done[p] = None]
  <2> HIDE DEF r
  <2>1. r \in Memory
    BY DEF r
  <2> QED BY <1>2, <2>1, DoneKept
<1> QED BY <1>1, <1>2 DEF ForgetOutcome

\* A request that begins with frames that move no holder.
LEMMA PlainStart ==
    ASSUME Inv, Inv', Budget, Budget', Ceilings, Idle,
           NEW F, \A f \in F : f.op \notin Moving \cup {"unhold", "insert", "txn"},
           todo' \in Seq(F), \A m \in Memory : KeptRow(m), UNCHANGED <<caps, builds>>
    PROVE  Ceilings'
<1> DEFINE s == todo'
<1>1. todo = <<>> /\ ~Busy
  BY IdleCalm
<1>2. PICK t \in Seq(F) : todo' = t
  OBVIOUS
<1> QED BY <1>1, <1>2, PlainStep

\* The requests of a process.
LEMMA RequestCeilings ==
    ASSUME Inv, Inv', Budget, Budget', Caches, Ceilings, up, NEW p \in Pid, Request(p)
    PROVE  Ceilings'
<1>1. ASSUME NEW r \in Res, NEW t \in Token, Reserve(p, r, t) \/ Acquire(p, r, t)
      PROVE  Ceilings'
  BY <1>1, ReserveCeilings, AcquireCeilings
<1>2. ASSUME NEW r \in Res, NEW t \in Token, Release(p, r, t) PROVE Ceilings'
  <2>1. Idle /\ UNCHANGED <<reg, caps, builds>> /\ todo' = Each("drops", {<<r, t>>})
    BY <1>2 DEF Release, durable, callers
  <2> QED BY <2>1, DropsCeilings
<1>3. ASSUME NEW t \in Token, Destroy(p, t) PROVE Ceilings'
  <2> DEFINE S == {<<r, t>> : r \in Shed(t)}
  <2>1. Idle /\ UNCHANGED <<reg, caps, builds>> /\ todo' = Each("drops", S)
    BY <1>3 DEF Destroy, durable, callers
  <2> HIDE DEF S
  <2> QED BY <2>1, DropsCeilings
<1>4. ASSUME NEW t \in Token, Discard(p, t) \/ Transfer(p, t) \/ LostBuildCall(p, t)
      PROVE  Ceilings'
  BY <1>4, DiscardCeilings, TransferCeilings DEF LostBuildCall
<1>5. ASSUME NEW r \in Heap, NEW w \in HeapSizes, Reconcile(p, r, w) PROVE Ceilings'
  <2>1. Idle /\ UNCHANGED <<caps, builds>> /\ StateOK /\ r \in Res /\ r \notin Memory
    BY <1>5, RowSets DEF Reconcile, callers, Inv
  <2>2. \A m \in Memory : KeptRow(m)
    <3>1. CASE UNCHANGED reg
      BY <3>1, SameKept
    <3>2. CASE reg' = [reg EXCEPT ![r].pages = w]
      <4> DEFINE v == [reg[r] EXCEPT !.pages = w]
      <4>1. reg' = [reg EXCEPT ![r] = v]
        BY <3>2
      <4> HIDE DEF v
      <4> QED BY <2>1, <4>1, RowKept
    <3> QED BY <1>5, <3>1, <3>2 DEF Reconcile
  <2>3. \E g : g.op \notin Moving \cup {"unhold", "insert", "txn"} /\ todo' = <<g>>
    <3> DEFINE a == [op |-> "shrunk", res |-> r, n |-> reg[r].pages - w]
               b == [op |-> "grown", res |-> r, n |-> w]
    <3>1. /\ a.op \notin Moving \cup {"unhold", "insert", "txn"}
          /\ b.op \notin Moving \cup {"unhold", "insert", "txn"}
          /\ todo' = <<a>> \/ todo' = <<b>>
      BY <1>5 DEF Reconcile, Moving
    <3> HIDE DEF a, b
    <3> QED BY <3>1
  <2>4. PICK g : g.op \notin Moving \cup {"unhold", "insert", "txn"} /\ todo' = <<g>>
    BY <2>3
  <2>5. todo' \in Seq({g}) /\ \A f \in {g} : f.op \notin Moving \cup {"unhold", "insert", "txn"}
    BY <2>4, OneSeq
  <2> QED BY <2>1, <2>2, <2>5, PlainStart
<1>6. ASSUME NEW i \in Image, ImageReserve(p, i) PROVE Ceilings'
  <2> DEFINE g == [op |-> "insert", pid |-> p, res |-> i, tok |-> SnapOf[i]]
  <2>1. /\ Idle /\ UNCHANGED <<reg, caps, builds>> /\ todo' = <<g>> /\ g.op = "insert"
        /\ g.res \notin Memory
    BY <1>6, RowSets DEF ImageReserve, Insert
  <2>2. todo = <<>> /\ ~Busy
    BY <2>1, IdleCalm
  <2> HIDE DEF g
  <2>3. Frames(todo') = {g} /\ Head(todo') = g
    BY <2>1, OneFrame
  <2>4. HeadFits'
    BY <2>1, <2>3 DEF HeadFits, InsertFits, GrowFits
  <2>5. \A f \in Frames(todo') : f.op \notin Moving \cup {"unhold"}
    BY <2>1, <2>3 DEF Moving
  <2>6. CapsAre' /\ Bounded' /\ Paged'
    BY <2>1, RowsRest DEF Ceilings, CapsAre
  <2>7. CapsHeld'
    <3> SUFFICES ASSUME NEW b \in Limited, NEW m \in Memory PROVE HasCap(b, m)'
      BY DEF CapsHeld, Limited
    <3>1. HasCap(b, m) /\ ~Letting(m, b) /\ ~Due(m, b) /\ ~Letting(m, InstanceOf[b])
      BY <2>2, Cleared DEF Ceilings, CapsHeld
    <3> QED BY <2>1, <3>1 DEF HasCap
  <2> QED BY <2>4, <2>5, <2>6, <2>7, Gathered
<1> QED BY <1>1, <1>2, <1>3, <1>4, <1>5, <1>6 DEF Request

\* Messages from callers.
LEMMA HandleCeilings ==
    ASSUME Inv, Inv', Budget, Budget', Caches, Ceilings, NEW p \in Pid, Handle(p) PROVE Ceilings'
<1> DEFINE c == cl[p]
           r == c.res
           Light(op) == op \notin Moving \cup {"unhold", "insert", "txn"}
           y(res) == [op |-> "reply", pid |-> p, res |-> res]
<1>0. StateOK /\ WriterIs(p)
  BY DEF Inv, WriterOK
<1>r. \A res : Light(y(res).op) /\ Reply(p, res) \in Seq({y(res)})
  BY DEF Moving, Reply
<1>p. Light("chunks") /\ Light("arena") /\ Light("settle")
  BY DEF Moving
<1>2. CASE HandleBegin(p)
  <2>1. /\ Idle /\ Begin(p, <<>>) /\ UNCHANGED <<reg, caps, builds>> /\ c.ph = "begin"
        /\ transaction(p) # "queue" => UNCHANGED cl
    BY <1>2 DEF HandleBegin
  <2>2. up /\ todo = <<>>
    BY <2>1 DEF Idle
  <2>3. r \in Memory
    BY <1>0, <2>1 DEF WriterIs
  <2>4. Begin(p, todo)
    BY <2>1, <2>2
  <2>5. transaction(p) # "queue" => cl'[p] = cl[p]
    BY <2>1
  <2> QED BY <2>1, <2>2, <2>3, <2>4, <2>5, BeginCeilings
<1>3. CASE HandleCommit(p)
  <2>1. Idle /\ UNCHANGED <<reg, caps, builds>>
    BY <1>3 DEF HandleCommit, durable, callers
  <2>2. \A m \in Memory : KeptRow(m)
    BY <2>1, SameKept
  <2>3. CASE todo' = Reply(p, outcome(p))
    <3> DEFINE g == y(outcome(p))
    <3>1. todo' \in Seq({g}) /\ \A f \in {g} : Light(f.op)
      BY <1>r, <2>3
    <3> HIDE DEF g
    <3> QED BY <2>1, <2>2, <3>1, PlainStart
  <2>4. CASE todo' = <<[op |-> IF reg[r].txn.kind = "grow" THEN "chunks" ELSE "arena",
                        res |-> r, pid |-> p]>> \o Reply(p, "ok")
    <3> DEFINE g == [op |-> IF reg[r].txn.kind = "grow" THEN "chunks" ELSE "arena",
                     res |-> r, pid |-> p]
               h == y("ok")
    <3>1. Light(g.op) /\ Light(h.op) /\ Reply(p, "ok") \in Seq({h})
      BY <1>r, <1>p
    <3> HIDE DEF g, h
    <3>2. <<g>> \in Seq({g})
      OBVIOUS
    <3>3. todo' \in Seq({g, h})
      BY <2>4, <3>1, <3>2, JoinSeq DEF g
    <3> DEFINE F == {g, h}
    <3>4. todo' \in Seq(F) /\ \A f \in F : Light(f.op)
      BY <3>1, <3>3
    <3> HIDE DEF F
    <3> QED BY <2>1, <2>2, <3>4, PlainStart
  <2> QED BY <1>3, <2>3, <2>4 DEF HandleCommit
<1>4. CASE HandleAbort(p)
  <2>1. Idle /\ c.ph = "abort" /\ UNCHANGED <<caps, builds>>
    BY <1>4 DEF HandleAbort, callers
  <2> DEFINE h == y("raised")
             g == [op |-> "settle", res |-> r]
  <2>2. /\ Light(h.op) /\ Light(g.op) /\ Reply(p, "raised") \in Seq({h})
        /\ Do("settle", r) = <<g>> /\ <<g>> \in Seq({g})
    BY <1>r, <1>p DEF Do
  <2> HIDE DEF h, g
  <2>3. CASE todo' = Do("settle", r) \o Reply(p, "raised") /\ UNCHANGED reg
    <3> DEFINE F == {g, h}
    <3>1. todo' \in Seq(F) /\ \A f \in F : Light(f.op)
      BY <2>2, <2>3, JoinSeq
    <3> HIDE DEF F
    <3> QED BY <2>1, <2>3, <3>1, SameKept, PlainStart
  <2>4. CASE todo' = Reply(p, "raised") /\ ForgetOutcome(p)
    <3>1. r \in Memory
      BY <1>0, <2>1 DEF WriterIs
    <3>2. \A m \in Memory : KeptRow(m)
      BY <1>0, <2>4, <3>1, ForgetKept
    <3> DEFINE F == {h}
    <3>3. todo' \in Seq(F) /\ \A f \in F : Light(f.op)
      BY <2>2, <2>4
    <3> HIDE DEF F
    <3> QED BY <2>1, <3>2, <3>3, PlainStart
  <2> QED BY <1>4, <2>3, <2>4 DEF HandleAbort
<1>5. CASE HandleAck(p)
  <2>1. /\ Idle /\ c.ph = "ack" /\ ForgetOutcome(p) /\ UNCHANGED <<caps, todo, builds>>
    BY <1>5 DEF HandleAck
  <2>2. r \in Memory
    BY <1>0, <2>1 DEF WriterIs
  <2>3. \A m \in Memory : KeptRow(m)
    BY <1>0, <2>1, <2>2, ForgetKept
  <2>4. todo' \in Seq({}) /\ \A f \in {} : Light(f.op)
    BY <2>1 DEF Idle
  <2> QED BY <2>1, <2>3, <2>4, PlainStart
<1>6. CASE HandleFree(p)
  <2> DEFINE S == {<<c.res, c.tok>>}
  <2>1. Idle /\ todo' = Each("drops", S) /\ UNCHANGED <<reg, caps, builds>>
    BY <1>6 DEF HandleFree, durable
  <2>2. PICK T : todo' = Each("drops", T)
    BY <2>1
  <2> QED BY <2>1, <2>2, DropsCeilings
<1> QED BY <1>2, <1>3, <1>4, <1>5, <1>6 DEF Handle

\* The death of a process is heard of.
LEMMA DownCeilings ==
    ASSUME Inv, Inv', Budget, Budget', Ceilings, NEW p \in Pid, Down(p) PROVE Ceilings'
<1>1. CASE HolderDown(p)
  <2> DEFINE S == {x \in held : OwnerOf[x[2]] = p}
  <2>1. Idle /\ todo' = Each("drops", S) /\ UNCHANGED <<reg, caps, builds>>
    BY <1>1 DEF HolderDown, durable, callers
  <2>2. PICK T : todo' = Each("drops", T)
    BY <2>1
  <2> QED BY <2>1, <2>2, DropsCeilings
<1>2. CASE WriterDown(p)
  <2> DEFINE S == {<<x, p>> : x \in writers[p]}
             f == [op |-> "gone", set |-> S]
             F == {f}
  <2>1. Idle /\ todo' = Each("gone", S) /\ UNCHANGED <<reg, caps, builds>>
    BY <1>2 DEF WriterDown, durable, callers
  <2>2. f.op \notin Moving \cup {"unhold", "insert", "txn"}
    BY DEF Moving
  <2>3. Each("gone", S) \in Seq({f})
    BY EachSeq
  <2> HIDE DEF f
  <2>4. PICK g : todo' \in Seq({g}) /\ g.op \notin Moving \cup {"unhold", "insert", "txn"}
    BY <2>1, <2>2, <2>3
  <2>5. \A h \in {g} : h.op \notin Moving \cup {"unhold", "insert", "txn"}
    BY <2>4
  <2> QED BY <2>1, <2>4, <2>5, SameKept, PlainStart
<1> QED BY <1>1, <1>2 DEF Down

-----------------------------------------------------------------------------
(* Holders dropped, rows reclaimed, ceilings moved.                        *)

\* What drops and moves ceilings goes on doing so.
LEMMA PiledOn ==
    ASSUME Inv, Inv', Piled, todo # <<>>, Head(todo).op \in Holding,
           NEW F, \A f \in F : f.op \in Holding, NEW s \in Seq(F), Then(s),
           Head(todo).op = "setcap" => s = <<>>
    PROVE  /\ Piled'
           /\ \A f \in Frames(todo') : f.op = "retags" =>
                /\ Head(todo).op = "setcap" /\ f = Head(todo')
                /\ f \in Frames(todo)
           /\ Frames(todo') = Under \cup Frames(s)
<1> DEFINE S == Frame \cup F
           k == Len(s)
           n == Len(todo)
<1>1. todo \in Seq(Frame) /\ todo' \in Seq(Frame) /\ todo' = s \o Tail(todo)
  BY DEF Inv, StateOK, Then
<1>2. todo \in Seq(S) /\ s \in Seq(S)
  BY <1>1
<1>3. n \in Nat \ {0} /\ k \in Nat /\ Head(todo) = todo[1]
  BY <1>1
<1>4. /\ Len(todo') = k + n - 1
      /\ \A i \in 1 .. k : todo'[i] = s[i]
      /\ \A i \in k + 1 .. k + n - 1 : todo'[i] = todo[i - k + 1]
  BY <1>1, <1>2, Replaced
<1>5. \A i \in 1 .. k : s[i] \in F
  OBVIOUS
<1>n. n = Len(todo) /\ k = Len(s)
  OBVIOUS
<1> HIDE DEF S, k, n
<1>6. \A i \in 1 .. k : todo'[i].op \in Holding
  BY <1>4, <1>5
<1>7. \A f : f.op \in Holding => f.op # "retags"
  BY DEF Holding, Cleanup
<1>8. ASSUME NEW i \in 1 .. Len(todo')
      PROVE  \/ i \in 1 .. k
             \/ i \in k + 1 .. k + n - 1 /\ i - k + 1 \in 2 .. n /\ todo'[i] = todo[i - k + 1]
  <2>1. i \in Nat /\ i >= 1 /\ i <= k + n - 1
    BY <1>3, <1>4
  <2>2. i \in 1 .. k \/ i \in k + 1 .. k + n - 1
    BY <1>3, <2>1
  <2>3. i \in k + 1 .. k + n - 1 => i - k + 1 \in 2 .. n
    BY <1>3
  <2> QED BY <1>4, <2>2, <2>3
<1>9. ASSUME NEW i \in 1 .. Len(todo'), todo'[i].op = "retags"
      PROVE  i = 1 /\ Head(todo).op = "setcap" /\ todo'[i] = todo[2] /\ 2 \in 1 .. n
  <2>1. i \in k + 1 .. k + n - 1 /\ i - k + 1 \in 2 .. n /\ todo'[i] = todo[i - k + 1]
    BY <1>6, <1>7, <1>8, <1>9
  <2>2. i - k + 1 \in 1 .. n /\ i - k + 1 # 1 /\ i \in Int
    BY <1>3, <2>1
  <2>3. i - k + 1 = 2 /\ Head(todo).op = "setcap"
    BY <1>9, <1>n, <2>1, <2>2 DEF Piled
  <2>4. k = 0
    BY <1>n, <2>3
  <2> QED BY <1>3, <2>1, <2>2, <2>3, <2>4
<1>10. ASSUME NEW i \in 1 .. Len(todo'), todo'[i].op \in {"drops", "setcap"}, NEW j \in 1 .. i
       PROVE  todo'[j].op \in Holding
  <2>1. i \in Nat /\ j \in Nat /\ j \in 1 .. Len(todo') /\ j <= i
    BY <1>3, <1>4
  <2>2. CASE j \in 1 .. k
    BY <1>6, <2>2
  <2>3. CASE j \in k + 1 .. k + n - 1 /\ j - k + 1 \in 2 .. n /\ todo'[j] = todo[j - k + 1]
    <3>1. i \notin 1 .. k
      <4>1. j \in Int /\ k \in Int /\ i \in Int /\ j <= i /\ j >= k + 1
        BY <1>3, <2>1, <2>3
      <4> QED BY <4>1
    <3>2. i - k + 1 \in 2 .. n /\ todo'[i] = todo[i - k + 1]
      BY <1>8, <3>1
    <3>3. i - k + 1 \in 1 .. n /\ j - k + 1 \in 1 .. (i - k + 1)
      <4>1. j \in Int /\ k \in Int /\ n \in Int /\ i \in Int
        BY <1>3, <2>1
      <4>2. j - k + 1 >= 2 /\ j - k + 1 <= i - k + 1
        BY <2>1, <2>3, <4>1
      <4> QED BY <3>2, <4>1, <4>2
    <3>4. todo[i - k + 1].op \in {"drops", "setcap"}
      BY <1>10, <3>2
    <3> QED BY <1>n, <2>3, <3>3, <3>4 DEF Piled
  <2> QED BY <1>8, <2>1, <2>2, <2>3
<1>11. Piled'
  BY <1>9, <1>10, <1>1, <1>6 DEF Piled
<1>12. ASSUME NEW f \in Frames(todo'), f.op = "retags"
       PROVE  Head(todo).op = "setcap" /\ f = Head(todo') /\ f \in Frames(todo)
  <2>1. PICK i \in 1 .. Len(todo') : f = todo'[i]
    BY DEF Frames
  <2>2. i = 1 /\ Head(todo).op = "setcap" /\ f = todo[2] /\ 2 \in 1 .. n
    BY <1>9, <1>12, <2>1
  <2>3. Head(todo') = todo'[1]
    BY <1>1, <2>1
  <2> QED BY <1>n, <2>1, <2>2, <2>3 DEF Frames
<1>13. Frames(todo') = Under \cup Frames(s)
  BY FramesThen
<1> QED BY <1>11, <1>12, <1>13

\* Holders, rows and ceilings seen to, the rest follows.
LEMMA HoldingOn ==
    ASSUME Inv, Inv', Ceilings, todo # <<>>, Head(todo).op \in Holding,
           NEW F, \A f \in F : f.op \in Holding \ {"setcap"}, NEW s \in Seq(F), Then(s),
           Head(todo).op # "setcap", UNCHANGED builds,
           CapsAre', CapsHeld', Bounded', Paged'
    PROVE  Ceilings'
<1>1. /\ Piled' /\ \A f \in Frames(todo') : f.op # "retags"
      /\ Frames(todo') = Under \cup Frames(s)
  BY PiledOn DEF Ceilings
<1>2. Frames(s) \subseteq F
  <2>1. \A i \in 1 .. Len(s) : s[i] \in F
    OBVIOUS
  <2> QED BY <2>1 DEF Frames
<1>3. FramesFollow'
  <2> SUFFICES ASSUME NEW f \in Frames(todo'), f.op = "setcap" PROVE SetsCap(f)'
    BY <1>1 DEF FramesFollow
  <2>1. f \in Frames(todo)
    BY <1>1, <1>2, UnderIs
  <2>2. SetsCap(f)
    BY <2>1 DEF Ceilings, FramesFollow
  <2> QED BY <2>2 DEF SetsCap
<1>4. HeadFits'
  <2> SUFFICES ASSUME todo' # <<>> PROVE Head(todo').op \notin {"insert", "txn"}
    BY NothingAdded
  <2>1. todo' \in Seq(Frame)
    BY DEF Inv, StateOK
  <2>2. Head(todo') \in Frames(todo')
    <3>1. Len(todo') \in Nat \ {0} /\ Head(todo') = todo'[1]
      BY <2>1
    <3> QED BY <3>1 DEF Frames
  <2>3. \A f \in Under : f.op \notin {"insert", "txn"}
    BY UnderIs DEF Deferred
  <2>4. \A f \in F : f.op \notin {"insert", "txn"}
    BY DEF Holding, Cleanup
  <2> QED BY <1>1, <1>2, <2>2, <2>3, <2>4
<1> QED BY <1>1, <1>3, <1>4 DEF Ceilings

\* Rows reclaimed: what is written is nobody's.
LEMMA CleanupGoesOn ==
    ASSUME Inv, Inv', Budget, Budget', Ceilings, todo # <<>>, Head(todo).op \in Cleanup,
           NEW F, \A f \in F : f.op \in Cleanup, NEW s \in Seq(F), Then(s),
           \A m \in Memory : KeptRow(m), UNCHANGED <<caps, builds>>
    PROVE  Ceilings'
<1>1. /\ Head(todo).op \in Holding \ {"setcap", "drops", "unhold", "retags"}
      /\ \A f \in F : f.op \in Holding \ {"setcap"}
  BY DEF Holding, Cleanup
<1>2. Frames(todo) = {Head(todo)} \cup Under /\ Under \subseteq Frames(todo')
  <2>1. Frames(todo') = Under \cup Frames(s)
    BY <1>1, FramesThen
  <2> QED BY <2>1, HeadIn DEF Inv, StateOK
<1>3. CapsAre'
  BY DEF Ceilings, CapsAre
<1>4. CapsHeld'
  <2> SUFFICES ASSUME NEW b \in Limited, NEW m \in Memory, reg'[m] # None PROVE HasCap(b, m)'
    BY DEF CapsHeld, Limited, HasCap
  <2>1. reg[m] # None /\ reg'[m].holders = reg[m].holders
    BY DEF KeptRow
  <2>2. HasCap(b, m)
    BY DEF Ceilings, CapsHeld
  <2>3. ~Letting(m, b) /\ ~Letting(m, InstanceOf[b])
    BY <1>1 DEF Letting
  <2>4. Due(m, b) => Due(m, b)'
    BY <1>1, <1>2 DEF Due
  <2> QED BY <2>1, <2>2, <2>3, <2>4 DEF HasCap
<1>5. Bounded'
  <2> SUFFICES ASSUME NEW b \in Limited, Anchored(reg', b) PROVE Taken(reg', b) <= BuildLimit[b]
    BY DEF Bounded, Limited
  <2>1. Fit(reg) /\ Fit(reg')
    BY BothFit
  <2>2. \A m \in Memory : Counts(reg', m, b) => Counts(reg, m, b) /\ reg'[m].pages <= reg[m].pages
    <3> SUFFICES ASSUME NEW m \in Memory, Counts(reg', m, b)
                 PROVE  Counts(reg, m, b) /\ reg'[m].pages <= reg[m].pages
      OBVIOUS
    <3>1. /\ reg[m] # None /\ reg'[m].holders = reg[m].holders /\ reg'[m].pages = reg[m].pages
      BY DEF Counts, KeptRow
    <3>2. reg[m].pages \in Nat
      BY <2>1, <3>1, TakenIs
    <3> QED BY <3>1, <3>2 DEF Counts
  <2>3. Taken(reg', b) <= Taken(reg, b) /\ Taken(reg, b) \in Nat /\ Taken(reg', b) \in Nat
    BY <2>1, <2>2, TakenFalls, TakenIs
  <2>5. Anchored(reg, b)
    BY <2>2, AnchoredBefore
  <2>4. Taken(reg, b) <= BuildLimit[b] /\ BuildLimit[b] \in Nat \cup {NoCap}
    BY <2>5, Parties DEF Ceilings, Bounded, Limited
  <2> QED BY <2>3, <2>4 DEF NoCap
<1>6. Paged'
  BY PagedStill DEF Ceilings
<1> QED BY <1>1, <1>3, <1>4, <1>5, <1>6, HoldingOn

\* Cells, rows and charges of what nobody holds go.
LEMMA ReclaimCeilings ==
    ASSUME Inv, Inv', Budget, Budget', Ceilings,
           ForgetMeta \/ DeleteRow \/ GiveBack \/ AfterRetire
    PROVE  Ceilings'
<1> DEFINE f == Head(todo)
<1>0. f.op \in Cleanup => todo \in Seq(Frame) /\ StateOK
  BY DEF Inv, StateOK
<1>1. CASE ForgetMeta
  <2> DEFINE g == [op |-> "delete", res |-> f.res]
  <2>1. /\ todo # <<>> /\ f.op \in Cleanup /\ Then(<<g>>) /\ g.op \in Cleanup
        /\ UNCHANGED <<reg, caps, builds>>
    BY <1>1 DEF ForgetMeta, At, Do, Cleanup, callers
  <2> HIDE DEF g
  <2>2. <<g>> \in Seq({g}) /\ \A y \in {g} : y.op \in Cleanup
    BY <2>1, OneSeq
  <2> QED BY <2>1, <2>2, SameKept, CleanupGoesOn
<1>2. CASE DeleteRow
  <2> DEFINE g == [op |-> "giveback", res |-> f.res, n |-> charged(f.res, reg[f.res])]
  <2>1. /\ todo # <<>> /\ f.op \in Cleanup /\ Then(<<g>>) /\ g.op \in Cleanup
        /\ UNCHANGED <<caps, builds>> /\ reg' = [reg EXCEPT ![f.res] = None]
    BY <1>2 DEF DeleteRow, At, Cleanup, callers
  <2> HIDE DEF g
  <2>2. <<g>> \in Seq({g}) /\ \A y \in {g} : y.op \in Cleanup
    BY <2>1, OneSeq
  <2>3. \A m \in Memory : reg'[m] # None => reg'[m] = reg[m]
    <3>1. reg \in [Res -> Row \cup {None}]
      BY DEF Inv, StateOK
    <3> QED BY <2>1, <3>1, RowSets
  <2>4. \A m \in Memory : KeptRow(m)
    BY <2>3 DEF KeptRow
  <2> QED BY <2>1, <2>2, <2>4, CleanupGoesOn
<1>3. CASE GiveBack
  <2> DEFINE g == [op |-> "uncount", res |-> f.res]
  <2>1. /\ todo # <<>> /\ f.op \in Cleanup /\ UNCHANGED <<reg, caps, builds>>
    BY <1>3 DEF GiveBack, At, Cleanup, callers
  <2>2. g.op \in Cleanup /\ (Then(<<g>>) \/ Then(<<>>))
    BY <1>3 DEF GiveBack, Do, Cleanup
  <2> HIDE DEF g
  <2>3. <<g>> \in Seq({g}) /\ <<>> \in Seq({g}) /\ \A y \in {g} : y.op \in Cleanup
    BY <2>2, OneSeq
  <2>4. \A m \in Memory : KeptRow(m)
    BY <2>1, SameKept
  <2> QED BY <2>1, <2>2, <2>3, <2>4, CleanupGoesOn
<1>4. CASE AfterRetire
  <2> DEFINE i == ImageOf[f.res]
             g == [op |-> "forget", res |-> i]
             w == [reg[i] EXCEPT !.state = "retiring"]
  <2>1. /\ todo # <<>> /\ f.op = "uncount" /\ f.op \in Cleanup /\ UNCHANGED <<caps, builds>>
    BY <1>4 DEF AfterRetire, At, Cleanup, callers
  <2>2. g.op \in Cleanup /\ (Then(<<g>>) \/ Then(<<>>))
    BY <1>4 DEF AfterRetire, Do, Cleanup
  <2>3. i \in Image /\ i \in Res /\ i \notin Memory
    <3>1. f.res \in Memory
      BY <2>1, HeadIn, FrameFields DEF Inv, StateOK
    <3>2. i # None
      BY <2>1 DEF Inv, HeadOK
    <3> QED BY <3>1, <3>2, ConstantsOK DEF Res
  <2>4. UNCHANGED reg \/ reg' = [reg EXCEPT ![i] = w]
    BY <1>4, Zenon DEF AfterRetire
  <2> HIDE DEF g, w, i
  <2>5. <<g>> \in Seq({g}) /\ <<>> \in Seq({g}) /\ \A y \in {g} : y.op \in Cleanup
    BY <2>2, OneSeq
  <2>6. \A m \in Memory : KeptRow(m)
    BY <1>0, <2>1, <2>3, <2>4, SameKept, RowKept
  <2> QED BY <2>1, <2>2, <2>5, <2>6, CleanupGoesOn
<1> QED BY <1>1, <1>2, <1>3, <1>4

\* A holder is removed.
LEMMA UnholdCeilings ==
    ASSUME Inv, Inv', Budget, Budget', Ceilings, Unhold PROVE Ceilings'
<1> DEFINE f == Head(todo)
<1>1. /\ todo # <<>> /\ f \in Frame /\ f.op = "unhold" /\ f.op \in Holding \ {"setcap"}
      /\ reg \in [Res -> Row \cup {None}] /\ UNCHANGED <<caps, builds>>
  BY HeadFrame DEF Unhold, At, Holding, Inv, StateOK, callers
<1>2. PICK r \in Res, t \in Token : r = f.res /\ t = f.tok
  BY <1>1, FrameFields
<1>3. reg[r] # None /\ reg[r] \in Row
  BY <1>1, <1>2 DEF Inv, HeadOK
<1> DEFINE rest == reg[r].holders \ {t}
           last == rest = {} /\ reclaimable(r)
           w == [reg[r] EXCEPT !.holders = rest, !.state = IF last THEN "retiring" ELSE @]
           g == [op |-> "forget", res |-> r]
<1>4. /\ reg' = [reg EXCEPT ![r] = w] /\ (Then(<<g>>) \/ Then(<<>>))
      /\ g.op \in Holding \ {"setcap"}
  BY <1>2 DEF Unhold, Do, Holding, Cleanup
<1>5. w.holders = rest /\ w.pages = reg[r].pages /\ w.txn = reg[r].txn
  BY <1>3 DEF Row
<1> HIDE DEF w, g
<1>6. reg'[r] = w /\ \A y \in Res \ {r} : reg'[y] = reg[y]
  BY <1>1, <1>4
<1>7. ASSUME NEW m \in Memory, reg'[m] # None
      PROVE  /\ reg[m] # None /\ reg'[m].pages = reg[m].pages /\ reg'[m].txn = reg[m].txn
             /\ \A u : u \in reg'[m].holders => u \in reg[m].holders /\ ~(m = r /\ u = t)
  <2>1. CASE m = r
    BY <1>3, <1>5, <1>6, <2>1
  <2>2. CASE m # r
    BY <1>6, <1>7, <2>2, RowSets
  <2> QED BY <2>1, <2>2
<1>8. CapsAre' /\ Paged'
  BY <1>1, <1>7 DEF Ceilings, CapsAre, Paged
<1>9. <<g>> \in Seq({g}) /\ <<>> \in Seq({g}) /\ \A y \in {g} : y.op \in Holding \ {"setcap"}
  BY <1>4, OneSeq
<1>10. Under \subseteq Frames(todo') /\ Frames(todo) = {f} \cup Under
  <2>1. Frames(todo') = Under \cup Frames(<<g>>) \/ Frames(todo') = Under \cup Frames(<<>>)
    BY <1>1, <1>4, <1>9, FramesThen
  <2> QED BY <1>1, <2>1, HeadIn DEF Inv, StateOK
<1>11. CapsHeld'
  <2> SUFFICES ASSUME NEW b \in Limited, NEW m \in Memory, reg'[m] # None PROVE HasCap(b, m)'
    BY DEF CapsHeld, Limited, HasCap
  <2>1. HasCap(b, m)
    BY DEF Ceilings, CapsHeld
  <2>2. \A u : u \in reg'[m].holders => ~Letting(m, u)
    BY <1>2, <1>7 DEF Letting
  <2>3. Due(m, b) => Due(m, b)'
    BY <1>1, <1>10 DEF Due
  <2> QED BY <1>1, <1>7, <2>1, <2>2, <2>3 DEF HasCap
<1>12. Bounded'
  <2> SUFFICES ASSUME NEW b \in Limited, Anchored(reg', b) PROVE Taken(reg', b) <= BuildLimit[b]
    BY DEF Bounded, Limited
  <2>1. Fit(reg) /\ Fit(reg')
    BY BothFit
  <2>2. \A m \in Memory : Counts(reg', m, b) => Counts(reg, m, b) /\ reg'[m].pages <= reg[m].pages
    <3> SUFFICES ASSUME NEW m \in Memory, Counts(reg', m, b)
                 PROVE  Counts(reg, m, b) /\ reg'[m].pages <= reg[m].pages
      OBVIOUS
    <3>1. /\ reg[m] # None /\ reg'[m].pages = reg[m].pages
          /\ reg'[m].holders \subseteq reg[m].holders
      BY <1>7 DEF Counts
    <3>2. reg[m].pages \in Nat
      BY <2>1, <3>1, TakenIs
    <3> QED BY <3>1, <3>2 DEF Counts
  <2>3. Taken(reg', b) <= Taken(reg, b) /\ Taken(reg, b) \in Nat /\ Taken(reg', b) \in Nat
    BY <2>1, <2>2, TakenFalls, TakenIs
  <2>5. Anchored(reg, b)
    BY <2>2, AnchoredBefore
  <2>4. Taken(reg, b) <= BuildLimit[b] /\ BuildLimit[b] \in Nat \cup {NoCap}
    BY <2>5, Parties DEF Ceilings, Bounded, Limited
  <2> QED BY <2>3, <2>4 DEF NoCap
<1> HIDE DEF f
<1>13. /\ Head(todo).op \in Holding /\ Head(todo).op # "setcap" /\ UNCHANGED builds
       /\ \E s \in Seq({g}) : Then(s)
  BY <1>1, <1>4, <1>9 DEF f
<1> QED BY <1>1, <1>8, <1>9, <1>11, <1>12, <1>13, HoldingOn

\* A ceiling is moved to the instance that a build became, or goes with a build.
LEMMA SetCapCeilings ==
    ASSUME Inv, Inv', Ceilings, SetCap PROVE Ceilings'
<1> DEFINE f == Head(todo)
<1>1. /\ todo # <<>> /\ f \in Frame /\ f.op = "setcap" /\ f.op \in Holding /\ Then(<<>>)
      /\ caps \in [Token -> Nat \cup {NoCap}] /\ UNCHANGED <<reg, builds>>
      /\ builds \subseteq Builds
  BY HeadFrame DEF SetCap, At, Holding, Inv, StateOK, callers
<1>2. PICK t, n : t \in Token /\ t = f.tok /\ n = f.n
  BY <1>1, FrameFields
<1>3. caps'[t] = n /\ \A u \in Token : u # t => caps'[u] = caps[u]
  BY <1>1, <1>2 DEF SetCap
<1>4. \/ t \in Builds \ builds /\ n = NoCap
      \/ \E b \in Builds : t = InstanceOf[b] /\ n = BuildLimit[b]
  <2>1. SetsCap(f)
    BY <1>1, HeadIn DEF Ceilings, FramesFollow, Inv, StateOK
  <2> QED BY <1>2, <2>1 DEF SetsCap
<1>5. <<>> \in Seq({}) /\ \A y \in {} : y.op \in Holding
  OBVIOUS
<1>6. /\ Piled'
      /\ \A h \in Frames(todo') : h.op = "retags" => h = Head(todo') /\ h \in Frames(todo)
      /\ Frames(todo') = Under
  <2>1. Frames(<<>>) = {}
    BY DEF Frames
  <2> QED BY <1>1, <1>5, <2>1, PiledOn DEF Ceilings
<1>7. CapsAre'
  <2> SUFFICES ASSUME NEW b \in Builds, NEW u \in Token, u \in Party(b)
               PROVE  caps'[u] \in {NoCap, BuildLimit[b]}
    BY DEF CapsAre
  <2>1. CASE u # t
    BY <1>3, <2>1 DEF Ceilings, CapsAre
  <2>2. CASE u = t /\ n = NoCap
    BY <1>3, <2>2
  <2>3. CASE u = t /\ \E c \in Builds : t = InstanceOf[c] /\ n = BuildLimit[c]
    <3>1. PICK c \in Builds : t = InstanceOf[c] /\ n = BuildLimit[c]
      BY <2>3
    <3>2. c = b
      BY <2>3, <3>1, Parties DEF Party
    <3> QED BY <1>3, <2>3, <3>1, <3>2
  <2> QED BY <1>4, <2>1, <2>2, <2>3
<1>8. CapsHeld'
  <2> SUFFICES ASSUME NEW b \in Limited, NEW m \in Memory, reg[m] # None PROVE HasCap(b, m)'
    BY <1>1 DEF CapsHeld, Limited, HasCap
  <2>1. HasCap(b, m) /\ ~Letting(m, b) /\ ~Letting(m, InstanceOf[b])
    BY <1>1 DEF Ceilings, CapsHeld, Letting
  <2>2. Due(m, b) => Due(m, b)'
    <3>1. Frames(todo) = {f} \cup Under
      BY <1>1, HeadIn DEF Inv, StateOK
    <3> QED BY <1>1, <1>6, <3>1 DEF Due
  <2>3. b \in Builds /\ b \in Token /\ InstanceOf[b] \in Token \ Builds
    BY Parties DEF Limited
  <2>4. b \in builds => caps'[b] = caps[b]
    BY <1>3, <1>4, <2>3, Parties
  <2>5. caps[InstanceOf[b]] = BuildLimit[b] => caps'[InstanceOf[b]] = BuildLimit[b]
    <3>1. CASE t = InstanceOf[b]
      <4>1. PICK c \in Builds : t = InstanceOf[c] /\ n = BuildLimit[c]
        BY <1>4, <2>3, <3>1
      <4>2. c = b
        BY <2>3, <3>1, <4>1, FreshInstances
      <4> QED BY <1>3, <3>1, <4>1, <4>2
    <3>2. CASE t # InstanceOf[b]
      BY <1>3, <2>3, <3>2
    <3> QED BY <3>1, <3>2
  <2> QED BY <1>1, <2>1, <2>2, <2>4, <2>5 DEF HasCap
<1>9. Bounded' /\ Paged'
  BY <1>1, RowsRest
<1>10. FramesFollow'
  <2>1. ASSUME NEW h \in Frames(todo'), h.op = "setcap" PROVE SetsCap(h)'
    <3>1. SetsCap(h)
      BY <1>6, <2>1, UnderIs DEF Ceilings, FramesFollow
    <3> QED BY <1>1, <3>1 DEF SetsCap
  <2>2. ASSUME NEW h \in Frames(todo'), h.op = "retags" PROVE MovesCap(h)'
    <3>1. MovesCap(h) /\ Head(todo') = h
      BY <1>6, <2>2 DEF Ceilings, FramesFollow
    <3> SUFFICES ASSUME NEW x \in h.set, x[2] \in Limited, x[1] \in Memory, reg[x[1]] # None,
                        InitPages[x[1]] > 0, x[2] \in reg[x[1]].holders
                 PROVE  /\ Head(todo').op # "setcap"
                        /\ caps'[InstanceOf[x[2]]] = BuildLimit[x[2]]
      BY <1>1, <3>1 DEF MovesCap, Limited
    <3>2. t = InstanceOf[x[2]] /\ n = BuildLimit[x[2]]
      BY <1>1, <1>2, <3>1 DEF MovesCap
    <3> QED BY <1>3, <2>2, <3>1, <3>2
  <2> QED BY <2>1, <2>2 DEF FramesFollow
<1>11. HeadFits'
  <2> SUFFICES ASSUME todo' # <<>> PROVE Head(todo').op \notin {"insert", "txn"}
    BY NothingAdded
  <2>1. todo' \in Seq(Frame)
    BY DEF Inv, StateOK
  <2>2. Head(todo') \in Frames(todo')
    <3>1. Len(todo') \in Nat \ {0} /\ Head(todo') = todo'[1]
      BY <2>1
    <3> QED BY <3>1 DEF Frames
  <2> QED BY <1>6, <2>2, UnderIs DEF Deferred
<1> QED BY <1>6, <1>7, <1>8, <1>9, <1>10, <1>11 DEF Ceilings

\* A holder begins to be removed.
LEMMA DropCeilings ==
    ASSUME Inv, Inv', Budget, Caches, Ceilings, Drop PROVE Ceilings'
<1> DEFINE f == Head(todo)
<1>1. /\ up /\ todo # <<>> /\ f \in Frame /\ f.op = "drops" /\ f.op \in Holding \ {"setcap"}
      /\ reg \in [Res -> Row \cup {None}] /\ caps \in [Token -> Nat \cup {NoCap}]
      /\ UNCHANGED <<reg, builds>>
  BY HeadFrame DEF Drop, At, Holding, Inv, StateOK, callers
<1>2. PICK x \in f.set : LET r == x[1]  t == x[2]
             rest == Each("drops", f.set \ {x}) IN
         IF reg[r] # None /\ t \in reg[r].holders
         THEN /\ sub_total({t}, counted(r, reg[r]))
              /\ Then(DoFor("unhold", r, t) \o rest)
         ELSE /\ Then(rest) /\ UNCHANGED caps
  BY DEF Drop
<1>3. PICK r \in Res, t \in Token : r = x[1] /\ t = x[2] /\ x = <<r, t>>
  BY <1>1, FrameFields
<1> DEFINE on == reg[r] # None /\ t \in reg[r].holders
           n == counted(r, reg[r])
           R == Each("drops", f.set \ {x})
           h == Roll("drops", f.set \ {x})
           g == [op |-> "unhold", res |-> r, tok |-> t]
<1>4. /\ on => sub_total({t}, n) /\ Then(<<g>> \o R)
      /\ ~on => Then(R) /\ UNCHANGED caps
  BY <1>2, <1>3 DEF DoFor
<1>5. /\ g.op = "unhold" /\ g.res = r /\ g.tok = t /\ g.op \in Holding \ {"setcap"}
      /\ h.op = "drops" /\ h.op \in Holding \ {"setcap"}
      /\ R \in Seq({h})
  BY EachSeq DEF Holding, Roll
<1> HIDE DEF g, h, R, f
<1>6. /\ <<g>> \o R \in Seq({g, h}) /\ R \in Seq({g, h})
      /\ \A y \in {g, h} : y.op \in Holding \ {"setcap"}
  <2>1. <<g>> \in Seq({g})
    BY OneSeq
  <2> QED BY <1>5, <2>1, JoinSeq
<1>7. /\ on => todo' # <<>> /\ Head(todo') = g
      /\ \A y \in f.set : y # x => \E k \in Frames(todo') : k.op = "drops" /\ y \in k.set
      /\ Under \subseteq Frames(todo')
  <2>1. f = Head(todo) /\ todo \in Seq(Frame) /\ 1 \in 1 .. Len(todo) /\ f = todo[1]
    BY HeadIn, <1>1 DEF f, Inv, StateOK
  <2>2. PICK s : /\ (s = <<>> /\ ~on) \/ (s = <<g>> /\ on)
                 /\ Then(s \o R)
    <3>1. <<>> \o R = R
      BY <1>5
    <3>2. (~on => Then(<<>> \o R)) /\ (on => Then(<<g>> \o R))
      BY <1>4, <3>1
    <3> QED BY <3>2
  <2>3. Then(s \o Each("drops", Head(todo).set \ {x})) /\ Head(todo).op = "drops" /\ g.op # "retags"
    BY <1>1, <1>5, <2>1, <2>2 DEF R
  <2>4. /\ s = <<g>> => todo' # <<>> /\ Head(todo') = g
        /\ \A y : y # x /\ (\E i \in 1 .. Len(todo) : todo[i].op = "drops" /\ y \in todo[i].set)
             => \E i \in 1 .. Len(todo') : todo'[i].op = "drops" /\ y \in todo'[i].set
    BY <1>1, <2>2, <2>3, DropsOn
  <2>5. Under \subseteq Frames(todo')
    <3>1. Frames(todo') = Under \cup Frames(R) \/ Frames(todo') = Under \cup Frames(<<g>> \o R)
      BY <1>1, <1>4, <1>6, FramesThen
    <3> QED BY <3>1
  <2>6. ASSUME NEW y \in f.set, y # x PROVE \E k \in Frames(todo') : k.op = "drops" /\ y \in k.set
    <3>1. PICK i \in 1 .. Len(todo') : todo'[i].op = "drops" /\ y \in todo'[i].set
      BY <1>1, <2>1, <2>4, <2>6
    <3> QED BY <3>1 DEF Frames
  <2> QED BY <2>2, <2>4, <2>5, <2>6
<1>8. Frames(todo) = {f} \cup Under
  BY <1>1, HeadIn DEF f, Inv, StateOK
<1>9. CapsAre'
  <2> SUFFICES ASSUME NEW b \in Builds, NEW u \in Token, u \in Party(b)
               PROVE  caps'[u] \in {NoCap, BuildLimit[b]}
    BY DEF CapsAre
  <2>1. caps[u] \in {NoCap, BuildLimit[b]}
    BY DEF Ceilings, CapsAre
  <2>2. caps'[u] \in {NoCap, caps[u]}
    BY <1>4 DEF sub_total
  <2> QED BY <2>1, <2>2
<1>10. ASSUME NEW m \in Memory, reg[m] # None, InitPages[m] > 0,
              NEW u \in Token, u \in reg[m].holders
       PROVE  Letting(m, u)' \/ caps'[u] = caps[u]
  <2>1. CASE ~on \/ u # t
    BY <1>4, <2>1 DEF sub_total
  <2>2. CASE on /\ u = t /\ m = r
    BY <1>5, <1>7, <2>2 DEF Letting
  <2>3. CASE on /\ u = t /\ m # r
    <3>1. Fit(reg) /\ m \in Res /\ m \notin Image
      BY RegFits, RowSets DEF Inv, Budget
    <3>2. Share(reg, m, t) = reg[m].pages /\ reg[m].pages \in Nat /\ reg[m].pages > 0
      BY <1>10, <2>3, <3>1, TakenIs DEF Share, counted, Ceilings, Paged
    <3>3. Share(reg, r, t) = n /\ Share(reg, r, t) \in Nat
      BY <2>3, <3>1, SharesType DEF Share
    <3>4. Share(reg, r, t) + Share(reg, m, t) <= AdoptTotals(reg)[t]
      BY <2>3, <3>1, ShareTwo
    <3>5. totals[t] = AdoptTotals(reg)[t] /\ AdoptTotals(reg)[t] \in Nat
      <4>1. Extra(t) = 0
        BY <1>1 DEF Extra, f
      <4>2. AdoptTotals(reg)[t] \in Nat
        BY <3>1, SharesType
      <4>3. totals[t] = AdoptTotals(reg)[t] + Extra(t)
        BY <1>1 DEF Caches, TotalsOK
      <4> QED BY <4>1, <4>2, <4>3
    <3> HIDE DEF n
    <3>6. ~(totals[t] <= n)
      BY <3>2, <3>3, <3>4, <3>5
    <3> QED BY <1>4, <2>3, <3>6 DEF sub_total
  <2> QED BY <2>1, <2>2, <2>3
<1>11. CapsHeld'
  <2> SUFFICES ASSUME NEW b \in Limited, NEW m \in Memory, reg[m] # None PROVE HasCap(b, m)'
    BY <1>1 DEF CapsHeld, Limited, HasCap
  <2>1. HasCap(b, m) /\ ~Letting(m, b) /\ ~Letting(m, InstanceOf[b])
    BY <1>1 DEF Ceilings, CapsHeld, Letting, f
  <2>2. b \in Token /\ InstanceOf[b] \in Token
    BY Parties DEF Limited
  <2>3. Due(m, b) /\ b \in reg[m].holders => Letting(m, b)' \/ Due(m, b)'
    <3> SUFFICES ASSUME Due(m, b), b \in reg[m].holders PROVE Letting(m, b)' \/ Due(m, b)'
      OBVIOUS
    <3>1. PICK k \in Frames(todo) : k.op \in {"drops", "retags"} /\ <<m, b>> \in k.set
      BY DEF Due
    <3>2. CASE k \in Under
      BY <1>7, <3>1, <3>2 DEF Due
    <3>3. CASE k = f /\ <<m, b>> # x
      BY <1>7, <3>1, <3>3 DEF Due
    <3>4. CASE <<m, b>> = x
      <4>1. m = r /\ b = t
        BY <1>3, <3>4
      <4> QED BY <1>5, <1>7, <4>1 DEF Letting
    <3> QED BY <1>8, <3>2, <3>3, <3>4
  <2>4. InitPages[m] > 0 =>
          /\ b \in reg[m].holders => Letting(m, b)' \/ caps'[b] = caps[b]
          /\ InstanceOf[b] \in reg[m].holders =>
               Letting(m, InstanceOf[b])' \/ caps'[InstanceOf[b]] = caps[InstanceOf[b]]
    BY <1>10, <2>2
  <2> QED BY <1>1, <2>1, <2>3, <2>4 DEF HasCap
<1>12. Bounded' /\ Paged'
  BY <1>1, RowsRest
<1>13. \E s \in Seq({g, h}) : Then(s)
  BY <1>4, <1>6
<1> HIDE DEF on
<1>14. Head(todo).op \in Holding /\ Head(todo).op # "setcap" /\ UNCHANGED builds
  BY <1>1 DEF f
<1> QED BY <1>1, <1>6, <1>9, <1>11, <1>12, <1>13, <1>14, HoldingOn

\* A build's holder becomes its instance's.
LEMMA RetagCeilings ==
    ASSUME Inv, Inv', Budget, Budget', Caches, Ceilings, Retag PROVE Ceilings'
<1> DEFINE f == Head(todo)
<1>1. /\ todo # <<>> /\ f \in Frame /\ f.op = "retags" /\ todo \in Seq(Frame)
      /\ reg \in [Res -> Row \cup {None}] /\ caps \in [Token -> Nat \cup {NoCap}]
      /\ UNCHANGED builds
  BY HeadFrame DEF Retag, At, Inv, StateOK, callers
<1>2. PICK x \in f.set : LET r == x[1]  from == x[2]  to == InstanceOf[x[2]]
             n == counted(r, reg[r]) IN
         /\ IF reg[r] # None /\ from \in reg[r].holders
            THEN /\ reg' = [reg EXCEPT ![r].holders = (@ \ {from}) \cup {to}]
                 /\ caps' = IF totals[from] <= n
                            THEN [caps EXCEPT ![from] = NoCap] ELSE caps
            ELSE UNCHANGED <<reg, caps>>
         /\ Then(Each("retags", f.set \ {x}))
  BY DEF Retag
<1>3. PICK r \in Res, from \in Builds : r = x[1] /\ from = x[2] /\ x = <<r, from>>
  BY <1>1, FrameFields
<1>4. PICK to \in Token \ Builds : to = InstanceOf[from]
  BY Parties
<1> DEFINE on == reg[r] # None /\ from \in reg[r].holders
           hs == (reg[r].holders \ {from}) \cup {to}
           w == [reg[r] EXCEPT !.holders = hs]
           R == Each("retags", f.set \ {x})
<1>5. PICK h : /\ Then(R) /\ h.op = "retags" /\ h.set = f.set \ {x}
               /\ f.set \ {x} # {} => R = <<h>>
               /\ f.set \ {x} = {} => R = <<>>
  <2> DEFINE g == Roll("retags", f.set \ {x})
  <2>1. /\ Then(R) /\ g.op = "retags" /\ g.set = f.set \ {x}
        /\ f.set \ {x} # {} => R = <<g>>
        /\ f.set \ {x} = {} => R = <<>>
    BY <1>2 DEF Each, Roll
  <2> QED BY <2>1
<1>6. /\ on => reg' = [reg EXCEPT ![r] = w]
      /\ ~on => UNCHANGED reg
      /\ \A u \in Token : u # from => caps'[u] = caps[u]
      /\ caps'[from] \in {NoCap, caps[from]}
      /\ ~on => UNCHANGED caps
  BY <1>1, <1>2, <1>3, <1>4
<1>7. on => /\ w.holders = hs /\ w.pages = reg[r].pages /\ w.txn = reg[r].txn
            /\ w # None
  <2>1. on => reg[r] \in Row
    BY <1>1
  <2>2. on => w.holders = hs /\ w.pages = reg[r].pages /\ w.txn = reg[r].txn
    BY <2>1 DEF Row
  <2>3. hs \in SUBSET Token /\ on => w \in Row
    BY <2>1 DEF Row
  <2>4. on => hs \in SUBSET Token
    BY <2>1 DEF Row
  <2> HIDE DEF w, on
  <2> QED BY <2>2, <2>3, <2>4, ConstantsOK
<1> HIDE DEF w, R
<1>8. on => reg'[r] = w /\ \A y \in Res \ {r} : reg'[y] = reg[y]
  BY <1>1, <1>6
<1>9. from \notin builds
  <2>1. 1 \in 1 .. Len(todo) /\ todo[1] = f
    BY <1>1
  <2> QED BY <1>1, <1>3, <2>1 DEF Caches, TokensOK, RetagsOver
<1>10. ASSUME NEW k \in Under PROVE k.op \notin Moving
  <2>1. PICK i \in 2 .. Len(todo) : k = todo[i]
    BY DEF Under
  <2>2. i \in 1 .. Len(todo) /\ i # 1 /\ 1 \in 1 .. i /\ todo[1] = f
    BY <1>1
  <2>3. k.op \notin {"drops", "setcap"}
    BY <1>1, <2>1, <2>2 DEF Ceilings, Piled, Holding, Cleanup
  <2>4. k.op # "retags"
    BY <1>1, <2>1, <2>2 DEF Ceilings, Piled
  <2> QED BY <2>3, <2>4 DEF Moving
<1>11. /\ f.set \ {x} # {} => todo' # <<>> /\ Head(todo') = h /\ Frames(todo') = Under \cup {h}
       /\ f.set \ {x} = {} => Frames(todo') = Under
       /\ todo' # <<>> => Head(todo').op \notin {"setcap", "insert", "txn"}
       /\ todo' \in Seq(Frame)
       /\ \A i \in 1 .. Len(todo') : todo'[i] = h => i = 1
  <2> DEFINE S == Frame \cup {h}
             k == Len(R)
             n == Len(todo)
  <2>0. R = <<h>> \/ (R = <<>> /\ f.set \ {x} = {})
    BY <1>5
  <2>1. todo \in Seq(S) /\ R \in Seq(S) /\ R \in Seq({h}) /\ todo' = R \o Tail(todo)
    <3>1. todo' = R \o Tail(todo)
      BY <1>5 DEF Then
    <3>2. R \in Seq({h}) /\ R \in Seq(S)
      <4>1. <<h>> \in Seq({h}) /\ <<>> \in Seq({h})
        BY OneSeq
      <4>2. h \in S
        OBVIOUS
      <4>3. <<h>> \in Seq(S) /\ <<>> \in Seq(S)
        BY <4>2
      <4> QED BY <2>0, <4>1, <4>3
    <3> QED BY <1>1, <3>1, <3>2
  <2>2. n \in Nat \ {0} /\ (k = 0 \/ (k = 1 /\ R[1] = h)) /\ (f.set \ {x} # {} => k = 1)
    <3>1. k = 0 \/ (k = 1 /\ R[1] = h)
      BY <2>0
    <3>2. f.set \ {x} # {} => k = 1
      BY <2>0
    <3> QED BY <1>1, <3>1, <3>2
  <2>3. /\ Len(todo') = k + n - 1
        /\ \A i \in 1 .. k : todo'[i] = R[i]
        /\ \A i \in k + 1 .. k + n - 1 : todo'[i] = todo[i - k + 1]
    BY <1>1, <2>1, Replaced
  <2>4. todo' \in Seq(Frame)
    BY DEF Inv, StateOK
  <2>5. Frames(todo') = Under \cup Frames(R)
    BY <1>1, <1>5, <2>1, FramesThen
  <2>6. Frames(<<h>>) = {h} /\ Frames(<<>>) = {}
    BY DEF Frames
  <2>7. f.set \ {x} # {} => todo' # <<>> /\ Head(todo') = h
    BY <2>2, <2>3, <2>4
  <2>8. todo' # <<>> => Head(todo') \in Frames(todo')
    <3>1. todo' # <<>> => Len(todo') \in Nat \ {0} /\ Head(todo') = todo'[1]
      BY <2>4
    <3> QED BY <3>1 DEF Frames
  <2>9. \A y \in Under : y.op \notin {"setcap", "insert", "txn", "retags"}
    BY <1>10, UnderIs DEF Moving, Deferred
  <2>10. ASSUME NEW i \in 1 .. Len(todo'), todo'[i] = h PROVE i = 1
    <3>1. CASE i \in 1 .. k
      <4>1. k = 1
        BY <2>2, <3>1
      <4> QED BY <3>1, <4>1
    <3>2. CASE i \notin 1 .. k
      <4>1. i \in k + 1 .. k + n - 1 /\ i - k + 1 \in 2 .. n
        BY <2>2, <2>3, <3>2
      <4>2. h \in Under
        BY <2>3, <2>10, <4>1 DEF Under
      <4> QED BY <1>5, <2>9, <4>2
    <3> QED BY <3>1, <3>2
  <2> QED BY <1>5, <2>4, <2>5, <2>6, <2>7, <2>8, <2>9, <2>10
<1>12. Frames(todo) = {f} \cup Under
  BY <1>1, HeadIn
<1>13. Piled'
  <2>1. \A i \in 1 .. Len(todo') : todo'[i] \in Under \cup {h}
    BY <1>11 DEF Frames
  <2>2. \A i \in 1 .. Len(todo') : /\ todo'[i].op \notin {"drops", "setcap"}
                                   /\ todo'[i].op = "retags" => i = 1
    BY <1>5, <1>10, <1>11, <2>1 DEF Moving
  <2> QED BY <2>2 DEF Piled
<1>14. ASSUME NEW m \in Memory, reg'[m] # None
       PROVE  /\ reg[m] # None /\ reg'[m].pages = reg[m].pages /\ reg'[m].txn = reg[m].txn
              /\ \A u : u \in reg'[m].holders =>
                   \/ u \in reg[m].holders /\ ~(m = r /\ u = from)
                   \/ u = to /\ m = r /\ on
  <2>1. CASE ~on
    <3>1. reg' = reg
      BY <1>6, <2>1
    <3> QED BY <1>14, <2>1, <3>1
  <2>2. CASE on /\ m = r
    <3>1. reg'[m].holders = hs /\ reg[m] # None /\ reg'[m].pages = reg[m].pages
          /\ reg'[m].txn = reg[m].txn
      BY <1>7, <1>8, <2>2
    <3> QED BY <2>2, <3>1
  <2>3. CASE on /\ m # r
    BY <1>8, <1>14, <2>3, RowSets
  <2> QED BY <2>1, <2>2, <2>3
<1>15. on => \/ caps[to] = BuildLimit[from]
             \/ from \notin Limited \/ r \notin Memory \/ ~(InitPages[r] > 0)
  <2>1. MovesCap(f)
    BY <1>1, <1>12 DEF Ceilings, FramesFollow
  <2> QED BY <1>1, <1>3, <1>4, <2>1 DEF MovesCap
<1> HIDE DEF on, hs, f
<1>16. CapsAre'
  <2> SUFFICES ASSUME NEW b \in Builds, NEW u \in Token, u \in Party(b)
               PROVE  caps'[u] \in {NoCap, BuildLimit[b]}
    BY DEF CapsAre
  <2>1. caps[u] \in {NoCap, BuildLimit[b]}
    BY DEF Ceilings, CapsAre
  <2> QED BY <1>6, <2>1
<1>17. CapsHeld'
  <2> SUFFICES ASSUME NEW b \in Limited, NEW m \in Memory, reg'[m] # None PROVE HasCap(b, m)'
    BY DEF CapsHeld, Limited, HasCap
  <2>1. HasCap(b, m) /\ ~Letting(m, b) /\ ~Letting(m, InstanceOf[b])
    BY <1>1 DEF Ceilings, CapsHeld, Letting, f
  <2>2. b \in Builds /\ b \in Token /\ InstanceOf[b] \in Token \ Builds
    BY Parties DEF Limited
  <2>3. b \in reg'[m].holders => b \in reg[m].holders /\ ~(m = r /\ b = from)
    BY <1>14, <2>2
  <2>4. Due(m, b) /\ b \in reg'[m].holders => Due(m, b)'
    <3> SUFFICES ASSUME Due(m, b), b \in reg'[m].holders PROVE Due(m, b)'
      OBVIOUS
    <3>1. PICK k \in Frames(todo) : k.op \in {"drops", "retags"} /\ <<m, b>> \in k.set
      BY DEF Due
    <3>2. k = f
      BY <1>10, <1>12, <3>1 DEF Moving
    <3>3. <<m, b>> # x
      BY <1>3, <2>3
    <3> QED BY <1>5, <1>11, <3>1, <3>2, <3>3 DEF Due
  <2>5. InitPages[m] > 0 /\ InstanceOf[b] \in reg'[m].holders =>
          caps'[InstanceOf[b]] = BuildLimit[b]
    <3> SUFFICES ASSUME InitPages[m] > 0, InstanceOf[b] \in reg'[m].holders
                 PROVE  caps[InstanceOf[b]] = BuildLimit[b]
      BY <1>6, <2>2
    <3>1. CASE InstanceOf[b] \in reg[m].holders
      BY <1>14, <2>1, <3>1 DEF HasCap
    <3>2. CASE InstanceOf[b] = to /\ m = r /\ on
      <4>1. b = from
        BY <1>4, <2>2, <3>2, FreshInstances
      <4> QED BY <1>15, <3>2, <4>1
    <3> QED BY <1>14, <3>1, <3>2
  <2>6. b \in builds => caps'[b] = caps[b]
    BY <1>6, <1>9, <2>2
  <2> QED BY <1>1, <1>14, <2>1, <2>3, <2>4, <2>5, <2>6 DEF HasCap
<1>18. Bounded'
  <2> SUFFICES ASSUME NEW b \in Limited, Anchored(reg', b) PROVE Taken(reg', b) <= BuildLimit[b]
    BY DEF Bounded, Limited
  <2>1. Fit(reg) /\ Fit(reg')
    BY BothFit
  <2>2. \A m \in Memory : Counts(reg', m, b) => Counts(reg, m, b) /\ reg'[m].pages <= reg[m].pages
    <3> SUFFICES ASSUME NEW m \in Memory, Counts(reg', m, b)
                 PROVE  Counts(reg, m, b) /\ reg'[m].pages <= reg[m].pages
      OBVIOUS
    <3>1. reg'[m] # None /\ reg[m] # None /\ reg'[m].pages = reg[m].pages
      BY <1>14 DEF Counts
    <3>2. PICK u \in Party(b) : u \in reg'[m].holders
      BY DEF Counts
    <3>3. \E v \in Party(b) : v \in reg[m].holders
      <4>1. CASE u \in reg[m].holders
        BY <4>1
      <4>2. CASE u = to /\ m = r /\ on
        <5>1. b = from
          <6>1. b \in Builds
            BY DEF Limited
          <6>2. to = InstanceOf[b]
            BY <1>4, <3>2, <4>2, <6>1 DEF Party
          <6> QED BY <1>4, <6>1, <6>2, FreshInstances
        <5> QED BY <4>2, <5>1 DEF Party, on
      <4> QED BY <1>14, <3>1, <3>2, <4>1, <4>2
    <3>4. reg[m].pages \in Nat
      BY <2>1, <3>1, TakenIs
    <3> QED BY <3>1, <3>3, <3>4 DEF Counts
  <2>3. Taken(reg', b) <= Taken(reg, b) /\ Taken(reg, b) \in Nat /\ Taken(reg', b) \in Nat
    BY <2>1, <2>2, TakenFalls, TakenIs
  <2>5. Anchored(reg, b)
    BY <2>2, AnchoredBefore
  <2>4. Taken(reg, b) <= BuildLimit[b] /\ BuildLimit[b] \in Nat \cup {NoCap}
    BY <2>5, Parties DEF Ceilings, Bounded, Limited
  <2> QED BY <2>3, <2>4 DEF NoCap
<1>19. Paged'
  BY <1>14 DEF Ceilings, Paged
<1>20. FramesFollow'
  <2>1. \A k \in Under : k.op \notin {"setcap", "retags"}
    BY <1>10 DEF Moving
  <2>2. f.set \ {x} # {} => MovesCap(h)'
    <3> SUFFICES ASSUME NEW y \in h.set, y[2] \in Limited, y[1] \in Memory, reg'[y[1]] # None,
                        InitPages[y[1]] > 0, y[2] \in reg'[y[1]].holders, f.set \ {x} # {}
                 PROVE  /\ Head(todo').op # "setcap"
                        /\ caps'[InstanceOf[y[2]]] = BuildLimit[y[2]]
      BY DEF MovesCap, Limited
    <3>1. y \in f.set /\ InstanceOf[y[2]] \in Token \ Builds /\ y[2] \in Builds
      BY <1>5, Parties DEF Limited
    <3>2. reg[y[1]] # None /\ y[2] \in reg[y[1]].holders
      BY <1>4, <1>14, <3>1
    <3>3. MovesCap(f) /\ Head(todo).op # "setcap"
      BY <1>1, <1>12 DEF Ceilings, FramesFollow, f
    <3>4. caps[InstanceOf[y[2]]] = BuildLimit[y[2]]
      BY <3>1, <3>2, <3>3 DEF MovesCap
    <3> QED BY <1>5, <1>6, <1>11, <3>1, <3>4
  <2>3. h.op # "setcap"
    BY <1>5
  <2>4. Frames(todo') = Under \/ (Frames(todo') = Under \cup {h} /\ f.set \ {x} # {})
    BY <1>11
  <2> QED BY <2>1, <2>2, <2>3, <2>4 DEF FramesFollow
<1>21. HeadFits'
  BY <1>11, NothingAdded
<1> QED BY <1>13, <1>16, <1>17, <1>18, <1>19, <1>20, <1>21 DEF Ceilings

-----------------------------------------------------------------------------
(* The theorem.                                                            *)

\* The callers' own steps.
LEMMA CallerCeilings ==
    ASSUME Inv, Ceilings, NEW p \in Pid,
           \/ Advance(p) \/ Die(p)
           \/ \E m \in Memory : \/ \E d \in Deltas[p] : Grow(p, m, d)
                                \/ \E n \in 1 .. MaxArena : NeedArena(p, m, n)
    PROVE  Ceilings'
<1>1. UNCHANGED <<reg, caps, builds, todo>>
  BY Zenon DEF Advance, CreateMem, CreateFails, Look, Extend, ExtendFails, Die, Grow, NeedArena,
         durable
<1>2. cl \in [Pid -> Client]
  BY DEF Inv, StateOK
<1>3. \A q \in Pid : cl[q].ph \in {"begin", "queued"} => cl'[q] = cl[q]
  <2>1. CASE Die(p)
    BY <2>1 DEF Die
  <2>2. CASE ~Die(p)
    <3>1. /\ cl[p].ph \notin {"begin", "queued"}
          /\ \A q \in Pid \ {p} : cl'[q] = cl[q]
      BY <1>2, <2>2, Zenon DEF Advance, CreateMem, CreateFails, Look, Ask, Extend, ExtendFails,
                        Grow, NeedArena, Free
    <3> QED BY <3>1
  <2> QED BY <2>1, <2>2
<1> QED BY <1>1, <1>3, Apart

\* The rest of a handler.
LEMMA ContinueCeilings ==
    ASSUME Inv, Inv', Budget, Budget', Caches, Ceilings, Continue PROVE Ceilings'
<1>1. CASE InsertRow \/ Reserved \/ SetCap \/ Retag \/ HeapShrunk \/ HeapGrown
  BY <1>1, InsertRowCeilings, StepCeilings, SetCapCeilings, RetagCeilings, LessCeilings,
     HeapGrownCeilings
<1>2. CASE Drop \/ Unhold \/ ForgetMeta \/ DeleteRow \/ GiveBack \/ AfterRetire
  BY <1>2, DropCeilings, UnholdCeilings, ReclaimCeilings
<1>3. CASE TxnRow \/ PublishChunks \/ PublishSize \/ PublishArena \/ Finish \/ GrantStep
           \/ Settle \/ Undone \/ NextTransaction \/ ReplyStep
  BY <1>3, TxnRowCeilings, StepCeilings, SettleCeilings, LessCeilings, NextCeilings
<1>4. CASE WriterGone \/ FinishRetiring \/ RecoverRow \/ SweepImages \/ ReconcileCounters
  BY <1>4, RollCeilings, StepCeilings
<1> QED BY <1>1, <1>2, <1>3, <1>4 DEF Continue

\* Only a crash and a restart start and stop the keeper.
LEMMA SameKeeper ==
    ASSUME Next, ~Crash PROVE UNCHANGED crashes /\ (Restart \/ UNCHANGED up)
<1>1. ASSUME NEW p \in Pid, Request(p) PROVE UNCHANGED <<up, crashes>>
  BY <1>1, Zenon DEF Request, Reserve, Acquire, Release, Destroy, Discard, Transfer, LostBuildCall,
              Reconcile, ImageReserve
<1>2. ASSUME NEW p \in Pid, Handle(p) \/ Down(p) PROVE UNCHANGED <<up, crashes>>
  BY <1>2 DEF Handle, Down, HandleBegin, HandleCommit, HandleAbort, HandleAck, HandleFree,
              HolderDown, WriterDown
<1>3. ASSUME NEW p \in Pid,
             \/ Advance(p) \/ Die(p)
             \/ \E m \in Memory : \/ \E d \in Deltas[p] : Grow(p, m, d)
                                  \/ \E n \in 1 .. MaxArena : NeedArena(p, m, n)
      PROVE  UNCHANGED <<up, crashes>>
  BY <1>3, Zenon
  DEF Advance, CreateMem, CreateFails, Look, Extend, ExtendFails, Die, Grow, NeedArena
<1>4. CASE InsertRow \/ Reserved \/ SetCap \/ Retag \/ HeapShrunk \/ HeapGrown
           \/ Drop \/ Unhold \/ ForgetMeta \/ DeleteRow \/ GiveBack \/ AfterRetire
  BY <1>4, Zenon DEF InsertRow, Reserved, SetCap, Retag, HeapShrunk, HeapGrown, Drop, Unhold,
              ForgetMeta, DeleteRow, GiveBack, AfterRetire
<1>5. CASE TxnRow \/ PublishChunks \/ PublishSize \/ PublishArena \/ Finish \/ GrantStep
           \/ Settle \/ Undone \/ NextTransaction
  BY <1>5, Zenon DEF TxnRow, PublishChunks, PublishSize, PublishArena, Finish, GrantStep, Settle,
              Undone, NextTransaction
<1>6. CASE WriterGone \/ ReplyStep \/ FinishRetiring \/ RecoverRow \/ SweepImages
           \/ ReconcileCounters
  BY <1>6 DEF WriterGone, ReplyStep, FinishRetiring, RecoverRow, SweepImages, ReconcileCounters
<1>7. CASE Restart
  BY <1>7 DEF Restart
<1>8. CASE Continue
  BY <1>4, <1>5, <1>6, <1>8 DEF Continue
<1> QED BY <1>1, <1>2, <1>3, <1>7, <1>8 DEF Next

\* No step of the first keeper gives a build or its instance more than it may have.
LEMMA NextCapped ==
    ASSUME Inv, Inv', Budget, Budget', Caches, Capped, [Next]_vars PROVE Capped'
<1>1. CASE Crash
  <2>1. crashes' = crashes + 1 /\ crashes \in Nat
    BY <1>1 DEF Crash, Inv, StateOK
  <2>2. crashes' # 0
    BY <2>1
  <2> QED BY <2>2 DEF Capped
<1>2. CASE ~Crash
  <2> SUFFICES ASSUME crashes' = 0 PROVE up' /\ Ceilings'
    BY DEF Capped
  <2>1. CASE UNCHANGED vars
    <3>1. UNCHANGED <<reg, caps, builds, todo, cl, up, crashes>>
      BY <2>1 DEF vars, durable, callers
    <3> QED BY <3>1, Apart DEF Capped
  <2>2. CASE Next
    <3>1. UNCHANGED crashes /\ (Restart \/ UNCHANGED up)
      BY <1>2, <2>2, SameKeeper
    <3>2. up /\ Ceilings
      BY <3>1 DEF Capped
    <3>3. ~Restart
      BY <3>2 DEF Restart
    <3>4. up'
      BY <3>1, <3>2, <3>3
    <3>5. ASSUME NEW p \in Pid,
                 \/ Request(p) \/ Handle(p) \/ Down(p) \/ Advance(p) \/ Die(p)
                 \/ \E m \in Memory : \/ \E d \in Deltas[p] : Grow(p, m, d)
                                      \/ \E n \in 1 .. MaxArena : NeedArena(p, m, n)
          PROVE  Ceilings'
      <4>1. CASE Request(p)
        BY <3>2, <4>1, RequestCeilings
      <4>2. CASE Handle(p)
        BY <3>2, <4>2, HandleCeilings
      <4>3. CASE Down(p)
        BY <3>2, <4>3, DownCeilings
      <4>4. CASE \/ Advance(p) \/ Die(p)
                 \/ \E m \in Memory : \/ \E d \in Deltas[p] : Grow(p, m, d)
                                      \/ \E n \in 1 .. MaxArena : NeedArena(p, m, n)
        BY <3>2, <4>4, CallerCeilings
      <4> QED BY <3>5, <4>1, <4>2, <4>3, <4>4
    <3>6. Continue => Ceilings'
      BY <3>2, ContinueCeilings
    <3> QED BY <1>2, <2>2, <3>3, <3>4, <3>5, <3>6 DEF Next
  <2> QED BY <2>1, <2>2
<1> QED BY <1>1, <1>2

\* Nothing is held at first.
LEMMA InitCapped == ASSUME Init PROVE Capped
<1>1. /\ reg = [r \in Res |-> None] /\ caps = [t \in Token |-> NoCap] /\ up /\ todo = <<>>
  BY DEF Init
<1>2. \A m \in Memory : reg[m] = None
  BY <1>1, RowSets
<1>3. Frames(todo) = {} /\ Len(todo) = 0
  BY <1>1 DEF Frames
<1>4. Piled /\ FramesFollow /\ HeadFits
  BY <1>1, <1>3 DEF Piled, FramesFollow, HeadFits
<1>5. CapsAre
  BY <1>1 DEF CapsAre
<1>6. CapsHeld /\ Paged
  BY <1>2 DEF CapsHeld, HasCap, Paged
<1>7. Bounded
  <2> SUFFICES ASSUME NEW b \in Limited PROVE Taken(reg, b) <= BuildLimit[b]
    BY DEF Bounded
  <2>1. Ours(reg, b) = {}
    BY <1>2 DEF Ours, Counts
  <2>2. Taken(reg, b) = 0
    BY <2>1, TotalEmpty DEF Taken
  <2>3. BuildLimit[b] \in Nat
    BY Parties DEF Limited
  <2> QED BY <2>2, <2>3
<1> QED BY <1>1, <1>4, <1>5, <1>6, <1>7 DEF Capped, Ceilings

\* Between two requests of the first keeper an instance that holds a memory made with
\* pages holds no more pages of memory than the limit it was built with: neither the
\* growth of a memory it shares, nor what was imported, moved from its build or given up
\* on the way takes it past its ceiling, whatever else it holds, memories made without
\* pages among it (within/3, move_cap/3, sub_total/3).
THEOREM CeilingHeld == Spec => []CeilingHolds
<1>1. Init => Inv /\ Budget /\ Caches /\ Capped
  BY InitInv, InitBudget, InitCaches, InitCapped
<1>2. Inv /\ Budget /\ Caches /\ Capped /\ [Next]_vars => Inv' /\ Budget' /\ Caches' /\ Capped'
  BY NextInv, NextBudget, NextCaches, NextCapped
<1>3. Inv /\ Budget /\ Capped => CeilingHolds
  <2> SUFFICES ASSUME Inv, Budget, Capped, crashes = 0, NEW b \in Builds, BuildLimit[b] # NoCap,
                      NEW m \in HeldBy(reg, InstanceOf[b]) \cap Memory, InitPages[m] > 0
               PROVE  Total([y \in HeldBy(reg, InstanceOf[b]) \cap Memory |-> reg[y].pages])
                          <= BuildLimit[b]
    BY DEF CeilingHolds
  <2> DEFINE f == [y \in HeldBy(reg, InstanceOf[b]) \cap Memory |-> reg[y].pages]
  <2>1. Fit(reg) /\ InstanceOf[b] \in Party(b)
    BY RegFits DEF Inv, Budget, Party
  <2>2. Total(f) <= Taken(reg, b) /\ Taken(reg, b) \in Nat
    BY <2>1, OneTakes, TakenIs
  <2>5. Anchored(reg, b)
    BY <2>1 DEF Anchored, Counts, HeldBy, Rows
  <2>3. Taken(reg, b) <= BuildLimit[b] /\ BuildLimit[b] \in Nat
    BY <2>5, Parties DEF Capped, Ceilings, Bounded, Limited
  <2>4. Total(f) \in Nat
    <3>1. Fit(reg) => IsFiniteSet(HeldBy(reg, InstanceOf[b]) \cap Memory)
      <4>1. HeldBy(reg, InstanceOf[b]) \cap Memory \subseteq Rows(reg)
        BY DEF HeldBy
      <4> QED BY <4>1, FS_Subset DEF Fit
    <3>2. f \in [HeldBy(reg, InstanceOf[b]) \cap Memory -> Nat]
      BY <2>1, TakenIs DEF HeldBy, Rows
    <3> HIDE DEF f
    <3> QED BY <2>1, <3>1, <3>2, TotalNat
  <2> HIDE DEF f
  <2>6. Total(f) <= BuildLimit[b]
    BY <2>2, <2>3, <2>4
  <2> QED BY <2>6 DEF f
<1>4. Spec => [](Inv /\ Budget /\ Caches /\ Capped)
  BY <1>1, <1>2, PTL DEF Spec
<1> QED BY <1>3, <1>4, PTL
=============================================================================
