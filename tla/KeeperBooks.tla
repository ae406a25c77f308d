---------------------------- MODULE KeeperBooks -----------------------------
(***************************************************************************)
(* What wasm_keeper keeps to save looking through its rows, the reverse    *)
(* index, the totals of the holders and the image counts; and what its     *)
(* rows say of a memory, with what the memory's cells and size word say of *)
(* it to everyone who reads them.  Last, what is counted against ceilings. *)
(***************************************************************************)
EXTENDS KeeperProofs

-----------------------------------------------------------------------------
(* Steps that leave holders, pages and rows alone.                         *)

\* The frames that say what a cache is still to be told.
Telling == {"insert", "unhold", "giveback", "uncount", "shrunk", "undone"}
Untold == todo = <<>> \/ Head(todo).op \notin Telling

Alike(r) ==
    /\ reg'[r] = None <=> reg[r] = None
    /\ reg[r] # None => /\ reg'[r].holders = reg[r].holders
                        /\ reg'[r].pages = reg[r].pages
                        /\ reg'[r].state = reg[r].state

\* Holders that are being dropped go on to be.
Stays ==
    \A i \in 1 .. Len(todo) : todo[i].op = "drops" =>
        \A x \in todo[i].set : x \in AdoptHeld(reg) =>
            \E j \in 1 .. Len(todo') : todo'[j].op = "drops" /\ x \in todo'[j].set

\* Nothing is retagged but what a build that is over held.
Comes ==
    \A j \in 1 .. Len(todo') : todo'[j].op = "retags" =>
        \/ \E i \in 1 .. Len(todo) : /\ todo[i].op = "retags"
                                     /\ todo'[j].set \subseteq todo[i].set
        \/ \A x \in todo'[j].set : x[2] \notin builds'

Silent ==
    /\ \A r \in Res : Alike(r)
    /\ UNCHANGED <<held, totals, images, up>> /\ builds' \subseteq builds
    /\ UNCHANGED todo \/ (Untold /\ Untold')
    /\ Stays /\ Comes

\* A frame replaced by the frames s.
LEMMA Below ==
    ASSUME Inv, todo # <<>>, NEW F, NEW s \in Seq(F), Then(s)
    PROVE  /\ s # <<>> => todo' # <<>> /\ Head(todo') = s[1]
           /\ s = <<>> => Untold'
           /\ Head(todo).op # "drops" => Stays
           /\ (\A i \in 1 .. Len(s) : s[i].op # "retags") => Comes
<1> DEFINE G == Frame \cup F
           n == Len(s)
<1>1. todo \in Seq(G) /\ s \in Seq(G) /\ todo' = s \o Tail(todo) /\ todo \in Seq(Frame)
  BY DEF Then, Inv, StateOK
<1> HIDE DEF G
<1>2. /\ n \in Nat /\ Len(todo) \in Nat
      /\ todo' \in Seq(G) /\ Len(todo') = n + Len(todo) - 1
      /\ \A i \in 1 .. n : todo'[i] = s[i]
      /\ \A i \in n + 1 .. n + Len(todo) - 1 : todo'[i] = todo[i - n + 1]
  BY <1>1, Replaced
<1>3. s # <<>> => n > 0
  BY <1>1
<1>4. ASSUME s # <<>> PROVE todo' # <<>> /\ Head(todo') = s[1]
  BY <1>1, <1>2, <1>3, <1>4
<1>5. ASSUME s = <<>> PROVE Untold'
  <2>1. n = 0
    BY <1>5
  <2> SUFFICES ASSUME todo' # <<>> PROVE Head(todo').op \notin Telling
    BY DEF Untold
  <2>2. Head(todo') = todo'[1] /\ 1 \in n + 1 .. n + Len(todo) - 1
    BY <1>2, <2>1
  <2>3. todo'[1] = todo[2] /\ 2 \in 2 .. Len(todo)
    BY <1>2, <2>1, <2>2
  <2> QED BY <2>2, <2>3 DEF Inv, StackOK, Deferred, Telling
<1>6. ASSUME NEW i \in 1 .. Len(todo), i # 1
      PROVE  \E j \in 1 .. Len(todo') : todo'[j] = todo[i]
  <2> DEFINE j == n + i - 1
  <2>1. j \in n + 1 .. n + Len(todo) - 1 /\ j - n + 1 = i /\ j \in 1 .. Len(todo')
    BY <1>2, <1>6
  <2>2. todo'[j] = todo[i]
    BY <1>2, <2>1
  <2> QED BY <2>1, <2>2
<1>7. ASSUME Head(todo).op # "drops" PROVE Stays
  <2>1. Head(todo) = todo[1]
    BY <1>1
  <2> QED BY <1>6, <1>7, <2>1 DEF Stays
<1>8. ASSUME \A i \in 1 .. n : s[i].op # "retags" PROVE Comes
  <2> SUFFICES ASSUME NEW j \in 1 .. Len(todo'), todo'[j].op = "retags"
               PROVE  \E i \in 1 .. Len(todo) : todo[i] = todo'[j]
    BY DEF Comes
  <2>1. ~(j \in 1 .. n)
    BY <1>2, <1>8
  <2>2. j \in n + 1 .. n + Len(todo) - 1 /\ j - n + 1 \in 1 .. Len(todo)
    BY <1>2, <2>1
  <2> QED BY <1>2, <2>2
<1> QED BY <1>4, <1>5, <1>7, <1>8

\* The ways a handler goes on.
LEMMA Onto ==
    ASSUME Inv, todo # <<>>, Head(todo).op # "drops"
    PROVE  /\ Then(<<>>) => Untold' /\ Stays /\ Comes
           /\ \A a : Then(<<a>>) /\ a.op # "retags" =>
                todo' # <<>> /\ Head(todo') = a /\ Stays /\ Comes
           /\ \A op \in Deferred \ {"retags"} : \A S : Then(Each(op, S)) =>
                Untold' /\ Stays /\ Comes
           /\ \A a, op, S : Then(<<a>> \o Each(op, S)) /\ "retags" \notin {a.op, op} =>
                todo' # <<>> /\ Head(todo') = a /\ Stays /\ Comes
<1>1. Then(<<>>) => Untold' /\ Stays /\ Comes
  <2>1. <<>> \in Seq({}) /\ \A i \in 1 .. Len(<<>>) : FALSE
    OBVIOUS
  <2> QED BY <2>1, Below
<1>2. ASSUME NEW a, Then(<<a>>), a.op # "retags"
      PROVE  todo' # <<>> /\ Head(todo') = a /\ Stays /\ Comes
  <2>1. /\ <<a>> \in Seq({a}) /\ <<a>> # <<>> /\ <<a>>[1] = a
        /\ \A i \in 1 .. Len(<<a>>) : <<a>>[i] = a
    OBVIOUS
  <2> QED BY <1>2, <2>1, Below
<1>3. ASSUME NEW op \in Deferred, op # "retags", NEW S, Then(Each(op, S))
      PROVE  Untold' /\ Stays /\ Comes
  <2>1. CASE S = {}
    BY <1>1, <1>3, <2>1 DEF Each
  <2>2. CASE S # {}
    <3> DEFINE a == [op |-> op, set |-> S]
    <3>0. a.op = op /\ op \notin Telling
      BY DEF Deferred, Telling
    <3> HIDE DEF a
    <3>1. Then(<<a>>)
      BY <1>3, <2>2 DEF Each, a
    <3>2. todo' # <<>> /\ Head(todo') = a /\ Stays /\ Comes
      BY <1>2, <1>3, <3>0, <3>1
    <3> QED BY <3>0, <3>2 DEF Untold
  <2> QED BY <2>1, <2>2
<1>4. ASSUME NEW a, NEW op, NEW S, Then(<<a>> \o Each(op, S)), "retags" \notin {a.op, op}
      PROVE  todo' # <<>> /\ Head(todo') = a /\ Stays /\ Comes
  <2> DEFINE b == [op |-> op, set |-> S]
             s == <<a>> \o Each(op, S)
  <2>0. b.op = op
    OBVIOUS
  <2>1. Each(op, S) \in Seq({a, b})
    <3>1. Each(op, S) = IF S = {} THEN <<>> ELSE <<b>>
      BY DEF Each
    <3>2. <<>> \in Seq({a, b}) /\ <<b>> \in Seq({a, b})
      <4> HIDE DEF b
      <4> QED OBVIOUS
    <3> QED BY <3>1, <3>2
  <2> HIDE DEF b
  <2>2. s \in Seq({a, b}) /\ s # <<>> /\ s[1] = a
    <3>1. a \in {a, b}
      OBVIOUS
    <3> QED BY <2>1, <3>1, Prepended
  <2> HIDE DEF s
  <2>3. \A i \in 1 .. Len(s) : s[i].op # "retags"
    BY <1>4, <2>0, <2>2
  <2>4. Then(s)
    BY <1>4 DEF s
  <2> QED BY <2>2, <2>3, <2>4, Below
<1> QED BY <1>1, <1>2, <1>3, <1>4

\* Frames that tell no cache anything.
Plainly(f) == f.op \notin Telling /\ (f.op = "retags" => \A x \in f.set : x[2] \notin builds')

\* A handler that starts with such.
LEMMA Begins ==
    ASSUME Idle, NEW F, \A f \in F : Plainly(f), todo' \in Seq(F)
    PROVE  Untold /\ Untold' /\ Stays /\ Comes
<1>1. Untold /\ Stays
  BY DEF Idle, Untold, Stays
<1>2. Untold'
  <2>1. todo' # <<>> => Head(todo') \in F
    OBVIOUS
  <2> QED BY <2>1 DEF Untold, Plainly
<1>3. Comes
  <2>1. \A j \in 1 .. Len(todo') : todo'[j] \in F
    OBVIOUS
  <2> QED BY <2>1 DEF Comes, Plainly
<1> QED BY <1>1, <1>2, <1>3

\* One frame with a set, or none.
LEMMA EachSeq ==
    ASSUME NEW op, NEW S PROVE Each(op, S) \in Seq({[op |-> op, set |-> S]})
<1> DEFINE b == [op |-> op, set |-> S]
<1>1. Each(op, S) = IF S = {} THEN <<>> ELSE <<b>>
  BY DEF Each
<1> HIDE DEF b
<1>2. <<>> \in Seq({b}) /\ <<b>> \in Seq({b})
  OBVIOUS
<1> QED BY <1>1, <1>2 DEF b

\* A handler that starts with one frame for a set.
LEMMA BeginsEach ==
    ASSUME Idle, NEW op \in Deferred, NEW S, todo' = Each(op, S),
           op = "retags" => \A x \in S : x[2] \notin builds'
    PROVE  Untold /\ Untold' /\ Stays /\ Comes
<1> DEFINE b == [op |-> op, set |-> S]
           F == {b}
<1>1. Plainly(b)
  BY DEF Plainly, Telling, Deferred
<1> HIDE DEF b
<1>2. todo' \in Seq(F) /\ \A f \in F : Plainly(f)
  BY <1>1, EachSeq DEF b
<1> HIDE DEF F
<1> QED BY <1>2, Begins

\* Two starts make one.
LEMMA JoinSeq ==
    ASSUME NEW a, NEW b, NEW s \in Seq({a}), NEW t \in Seq({b}) PROVE s \o t \in Seq({a, b})
<1>1. s \in Seq({a, b}) /\ t \in Seq({a, b})
  OBVIOUS
<1> QED BY <1>1

\* A row rewritten but for its holders, pages and state.
LEMMA RowAlike ==
    ASSUME StateOK, NEW r \in Res, NEW w, reg' = [reg EXCEPT ![r] = w],
           reg[r] # None, w # None, w.holders = reg[r].holders, w.pages = reg[r].pages,
           w.state = reg[r].state
    PROVE  \A y \in Res : Alike(y)
<1>1. reg'[r] = w /\ \A y \in Res \ {r} : reg'[y] = reg[y]
  BY RowSet
<1> QED BY <1>1 DEF Alike

\* The outcomes of a row rewritten.
LEMMA DoneAlike ==
    ASSUME StateOK, NEW r \in Res, reg[r] # None, NEW d \in [Pid -> Outcome \cup {None}],
           reg' = [reg EXCEPT ![r] = [reg[r] EXCEPT !.done = d]]
    PROVE  \A y \in Res : Alike(y)
<1> DEFINE w == [reg[r] EXCEPT !.done = d]
<1>1. reg[r] \in Row
  BY DEF StateOK
<1>2. w # None
  BY ZenonT(60), <1>1, RowFields
<1>3. w.holders = reg[r].holders /\ w.pages = reg[r].pages /\ w.state = reg[r].state
  BY <1>1 DEF Row
<1>4. reg' = [reg EXCEPT ![r] = w]
  OBVIOUS
<1> HIDE DEF w
<1> QED BY <1>2, <1>3, <1>4, RowAlike

\* Rows left alone.
LEMMA AllAlike == ASSUME UNCHANGED reg PROVE \A y \in Res : Alike(y)
BY DEF Alike

\* A kept outcome forgotten.
LEMMA ForgetAlike ==
    ASSUME StateOK, NEW p \in Pid, cl[p].res \in Memory, ForgetOutcome(p)
    PROVE  \A y \in Res : Alike(y)
<1> DEFINE r == cl[p].res
           d == [reg[r].done EXCEPT ![p] = None]
<1>1. CASE UNCHANGED reg
  BY <1>1, AllAlike
<1>2. CASE reg[r] # None /\ reg' = [reg EXCEPT ![r].done[p] = None]
  <2>1. r \in Res /\ reg[r] \in Row
    BY <1>2, RowSets DEF StateOK
  <2>2. d \in [Pid -> Outcome \cup {None}]
    BY <2>1, RowFields
  <2>3. reg' = [reg EXCEPT ![r] = [reg[r] EXCEPT !.done = d]]
    BY <1>2
  <2> HIDE DEF d
  <2> QED BY <1>2, <2>1, <2>2, <2>3, DoneAlike
<1> QED BY <1>1, <1>2 DEF ForgetOutcome

\* Messages from callers, the steps of callers, and the death of a writer.
LEMMA CallsSilent ==
    ASSUME Inv, NEW p \in Pid,
           \/ Handle(p) \/ WriterDown(p) \/ Advance(p) \/ Die(p)
           \/ \E m \in Memory : \/ \E d \in Deltas[p] : Grow(p, m, d)
                                \/ \E n \in 1 .. MaxArena : NeedArena(p, m, n)
    PROVE  Silent
<1> DEFINE c == cl[p]
           r == c.res
<1>0. StateOK /\ WriterIs(p)
  BY DEF Inv, WriterOK
<1>1. ASSUME UNCHANGED <<reg, held, totals, images, up, todo, builds>> PROVE Silent
  BY <1>1, AllAlike DEF Silent, Stays, Comes
<1>c. CASE \/ Advance(p) \/ Die(p)
           \/ \E m \in Memory : \/ \E d \in Deltas[p] : Grow(p, m, d)
                                \/ \E n \in 1 .. MaxArena : NeedArena(p, m, n)
  BY <1>1, <1>c DEF Advance, CreateMem, CreateFails, Look, Extend, ExtendFails, Die, Grow,
                    NeedArena, durable, index
<1> DEFINE y(res) == [op |-> "reply", pid |-> p, res |-> res]
<1>r. \A res : Plainly(y(res)) /\ Reply(p, res) \in Seq({y(res)})
  BY DEF Plainly, Telling, Reply
<1>2. CASE HandleBegin(p)
  <2>1. Idle /\ Begin(p, <<>>) /\ UNCHANGED <<reg, held, totals, images, up, builds>>
    BY <1>2 DEF HandleBegin, index
  <2>2. todo' = <<>> \o <<>> \/ \E g \in Frame : todo' = <<g>> \o <<>> /\ g.op \in Calls
    BY <2>1, BeginFrame
  <2>3. CASE todo' = <<>> \o <<>>
    <3>1. todo' \in Seq({}) /\ \A f \in {} : Plainly(f)
      BY <2>3
    <3>2. Untold /\ Untold' /\ Stays /\ Comes
      BY <2>1, <3>1, Begins
    <3> QED BY <2>1, <3>2, AllAlike DEF Silent
  <2>4. ASSUME NEW g \in Frame, todo' = <<g>> \o <<>>, g.op \in Calls PROVE Silent
    <3>1. todo' \in Seq({g})
      BY <2>4
    <3>2. Plainly(g)
      BY <2>4 DEF Plainly, Calls, Telling
    <3>3. Untold /\ Untold' /\ Stays /\ Comes
      BY <2>1, <3>1, <3>2, Begins
    <3> QED BY <2>1, <3>3, AllAlike DEF Silent
  <2> QED BY <2>2, <2>3, <2>4
<1>3. CASE HandleCommit(p)
  <2>1. Idle /\ UNCHANGED <<reg, held, totals, images, up, builds>>
    BY <1>3 DEF HandleCommit, durable, index, callers
  <2>2. Untold /\ Untold' /\ Stays /\ Comes
    <3>1. CASE todo' = Reply(p, outcome(p))
      <4> DEFINE g == y(outcome(p))
      <4>1. todo' \in Seq({g}) /\ \A f \in {g} : Plainly(f)
        BY <1>r, <3>1
      <4> HIDE DEF g
      <4> QED BY <2>1, <4>1, Begins
    <3>2. CASE todo' = <<[op |-> IF reg[r].txn.kind = "grow" THEN "chunks" ELSE "arena",
                          res |-> r, pid |-> p]>> \o Reply(p, "ok")
      <4> DEFINE g == [op |-> IF reg[r].txn.kind = "grow" THEN "chunks" ELSE "arena",
                       res |-> r, pid |-> p]
                 h == y("ok")
      <4>1. Plainly(g) /\ Plainly(h) /\ Reply(p, "ok") \in Seq({h})
        BY <1>r DEF Plainly, Telling
      <4> HIDE DEF g, h
      <4>2. <<g>> \in Seq({g})
        OBVIOUS
      <4>3. todo' \in Seq({g, h})
        BY <3>2, <4>1, <4>2, JoinSeq DEF g
      <4> QED BY <2>1, <4>1, <4>3, Begins
    <3> QED BY <1>3, <3>1, <3>2 DEF HandleCommit
  <2> QED BY <2>1, <2>2, AllAlike DEF Silent
<1>4. CASE HandleAbort(p)
  <2>1. Idle /\ c.ph = "abort" /\ UNCHANGED <<held, totals, images, up, builds>>
    BY <1>4 DEF HandleAbort, index, callers
  <2> DEFINE h == y("raised")
             g == [op |-> "settle", res |-> r]
  <2>2. Plainly(h) /\ Plainly(g) /\ Reply(p, "raised") \in Seq({h}) /\ Do("settle", r) = <<g>>
    BY <1>r DEF Plainly, Telling, Do
  <2> HIDE DEF h, g
  <2>3. CASE todo' = Do("settle", r) \o Reply(p, "raised") /\ UNCHANGED reg
    <3>1. <<g>> \in Seq({g})
      OBVIOUS
    <3>2. todo' \in Seq({g, h})
      BY <2>2, <2>3, <3>1, JoinSeq
    <3>3. Untold /\ Untold' /\ Stays /\ Comes
      BY <2>1, <2>2, <3>2, Begins
    <3> QED BY <2>1, <2>3, <3>3, AllAlike DEF Silent
  <2>4. CASE todo' = Reply(p, "raised") /\ ForgetOutcome(p)
    <3>1. r \in Memory
      BY <1>0, <2>1 DEF WriterIs
    <3>2. Untold /\ Untold' /\ Stays /\ Comes
      BY <2>1, <2>2, <2>4, Begins
    <3> QED BY <1>0, <2>1, <2>4, <3>1, <3>2, ForgetAlike DEF Silent
  <2> QED BY <1>4, <2>3, <2>4 DEF HandleAbort
<1>5. CASE HandleAck(p)
  <2>1. /\ Idle /\ c.ph = "ack" /\ ForgetOutcome(p)
        /\ UNCHANGED <<held, totals, images, up, todo, builds>>
    BY <1>5 DEF HandleAck, index
  <2>3. r \in Memory
    BY <1>0, <2>1 DEF WriterIs
  <2> QED BY <1>0, <2>1, <2>3, ForgetAlike DEF Silent, Stays, Comes, Idle
<1>6. CASE HandleFree(p)
  <2>1. /\ Idle /\ todo' = Each("drops", {<<c.res, c.tok>>})
        /\ UNCHANGED <<reg, held, totals, images, up, builds>>
    BY <1>6 DEF HandleFree, durable, index
  <2>2. Untold /\ Untold' /\ Stays /\ Comes
    BY <2>1, BeginsEach DEF Deferred
  <2> QED BY <2>1, <2>2, AllAlike DEF Silent
<1>7. CASE WriterDown(p)
  <2>1. /\ Idle /\ todo' = Each("gone", {<<x, p>> : x \in writers[p]})
        /\ UNCHANGED <<reg, held, totals, images, up, builds>>
    BY <1>7 DEF WriterDown, durable, index, callers
  <2>2. Untold /\ Untold' /\ Stays /\ Comes
    BY <2>1, BeginsEach DEF Deferred
  <2> QED BY <2>1, <2>2, AllAlike DEF Silent
<1> QED BY <1>2, <1>3, <1>4, <1>5, <1>6, <1>7, <1>c DEF Handle

\* A request that starts with such frames and changes nothing else.
LEMMA AsksSilent ==
    ASSUME Idle, NEW F, \A f \in F : Plainly(f), todo' \in Seq(F),
           UNCHANGED <<reg, held, totals, images, up>>, builds' \subseteq builds
    PROVE  Silent
<1>1. Untold /\ Untold' /\ Stays /\ Comes
  BY Begins
<1> QED BY <1>1, AllAlike DEF Silent

\* Requests that leave all to the frames they start, or are refused.
LEMMA RequestSilent ==
    ASSUME Inv, NEW p \in Pid, NEW t \in Token
    PROVE  /\ \A r \in Res : Release(p, r, t) => Silent
           /\ Destroy(p, t) \/ Discard(p, t) \/ Transfer(p, t) \/ LostBuildCall(p, t) => Silent
           /\ \A r \in Res : Reserve(p, r, t) => Silent \/ todo' = Insert(p, r, t)
           /\ \A r \in Res : Acquire(p, r, t) => Silent \/ Live(r)
<1> DEFINE b(S) == [op |-> "drops", set |-> S]
<1>d. ASSUME NEW S, todo' = Each("drops", S), Idle,
             UNCHANGED <<reg, held, totals, images, up>>, builds' \subseteq builds
      PROVE  Silent
  <2>1. Untold /\ Untold' /\ Stays /\ Comes
    BY <1>d, BeginsEach DEF Deferred
  <2> QED BY <1>d, <2>1, AllAlike DEF Silent
<1>n. ASSUME UNCHANGED <<reg, held, totals, images, up, todo>>, builds' \subseteq builds
      PROVE  Silent
  BY <1>n, AllAlike DEF Silent, Stays, Comes
<1>1. ASSUME NEW r \in Res, Release(p, r, t) PROVE Silent
  BY <1>1, <1>d DEF Release, durable, index, callers
<1>2. ASSUME Destroy(p, t) PROVE Silent
  <2>1. todo' = Each("drops", {<<r, t>> : r \in Shed(t)})
    BY <1>2 DEF Destroy
  <2> QED BY <1>2, <2>1, <1>d DEF Destroy, durable, index, callers
<1>3. ASSUME Discard(p, t) PROVE Silent
  <2> DEFINE S == {x \in held : x[2] = t}
             a == [op |-> "drops", set |-> S]
             c == [op |-> "setcap", tok |-> t, n |-> NoCap]
  <2>1. Plainly(a) /\ Plainly(c) /\ Each("drops", S) \in Seq({a}) /\ SetCapTo(t, NoCap) = <<c>>
    BY EachSeq DEF Plainly, Telling, SetCapTo
  <2>2. todo' = Each("drops", S) \o <<c>>
    BY <1>3 DEF Discard, SetCapTo
  <2> HIDE DEF S, a, c
  <2>3. <<c>> \in Seq({c})
    OBVIOUS
  <2>4. todo' \in Seq({a, c}) /\ \A f \in {a, c} : Plainly(f)
    BY <2>1, <2>2, <2>3, JoinSeq
  <2> QED BY <1>3, <2>4, AsksSilent DEF Discard, durable, index
<1>4. ASSUME Transfer(p, t) PROVE Silent
  <2> DEFINE S == {x \in held : x[2] = t}
             a == [op |-> "retags", set |-> S]
             c == [op |-> "setcap", tok |-> InstanceOf[t], n |-> caps[t]]
  <2>0. /\ Idle /\ UNCHANGED <<reg, held, totals, images, up>> /\ builds' = builds \ {t}
        /\ \/ todo' = SetCapTo(InstanceOf[t], caps[t]) \o Each("retags", S)
           \/ todo' = Each("retags", S)
    BY <1>4 DEF Transfer, index
  <2>1. Plainly(a) /\ Plainly(c) /\ Each("retags", S) \in Seq({a})
        /\ SetCapTo(InstanceOf[t], caps[t]) = <<c>>
    <3>1. Plainly(a)
      BY <2>0 DEF Plainly, Telling
    <3> QED BY <3>1, EachSeq DEF Plainly, Telling, SetCapTo
  <2> HIDE DEF S, a, c
  <2>3. <<c>> \in Seq({c})
    OBVIOUS
  <2>4. todo' \in Seq({a, c}) /\ \A f \in {a, c} : Plainly(f)
    <3>1. CASE todo' = SetCapTo(InstanceOf[t], caps[t]) \o Each("retags", S)
      BY <2>1, <2>3, <3>1, JoinSeq
    <3>2. CASE todo' = Each("retags", S)
      <4>1. \A q \in Seq({a}) : q \in Seq({a, c})
        OBVIOUS
      <4> QED BY <2>1, <3>2, <4>1
    <3> QED BY <2>0, <2>1, <3>1, <3>2
  <2> QED BY <2>0, <2>4, AsksSilent
<1>5. ASSUME LostBuildCall(p, t) PROVE Silent
  BY <1>5, <1>n DEF LostBuildCall, durable, index
<1>6. ASSUME NEW r \in Res, Reserve(p, r, t) PROVE Silent \/ todo' = Insert(p, r, t)
  BY <1>6, <1>n DEF Reserve, index
<1>7. ASSUME NEW r \in Res, Acquire(p, r, t) PROVE Silent \/ Live(r)
  BY <1>7, <1>n DEF Acquire, callers
<1> QED BY <1>1, <1>2, <1>3, <1>4, <1>5, <1>6, <1>7

\* A frame done that tells no cache anything, with the like or none after it.
LEMMA GoesSilently ==
    ASSUME Inv, todo # <<>>, Head(todo).op \notin Telling \cup {"drops", "retags"},
           NEW F, \A f \in F : f.op \notin Telling \cup {"retags"}, NEW s \in Seq(F), Then(s),
           \A y \in Res : Alike(y), UNCHANGED <<held, totals, images, up>>,
           builds' \subseteq builds
    PROVE  Silent
<1>1. Untold
  BY DEF Untold
<1>2. \A i \in 1 .. Len(s) : s[i] \in F
  OBVIOUS
<1>3. s # <<>> => s[1] \in F
  OBVIOUS
<1>4. Untold' /\ Stays /\ Comes
  BY <1>2, <1>3, Below DEF Untold
<1> QED BY <1>1, <1>4 DEF Silent

\* One frame or none.
LEMMA OneSeq == ASSUME NEW g PROVE <<g>> \in Seq({g}) /\ <<>> \in Seq({g})
OBVIOUS

\* A frame's writes to cells, callers and outcomes.
LEMMA StepSilent ==
    ASSUME Inv,
           \/ Reserved \/ SetCap \/ ForgetMeta \/ PublishChunks \/ PublishSize \/ PublishArena
           \/ Finish \/ GrantStep \/ ReplyStep \/ ReconcileCounters
    PROVE  Silent
<1> DEFINE f == Head(todo)
<1>0. StateOK /\ HeadOK
  BY DEF Inv
<1>n. ASSUME todo # <<>>, f.op \notin Telling \cup {"drops", "retags"}, Then(<<>>),
             UNCHANGED <<reg, held, totals, images, up, builds>>
      PROVE  Silent
  <2>1. <<>> \in Seq({}) /\ \A g \in {} : g.op \notin Telling \cup {"retags"}
    OBVIOUS
  <2> QED BY <1>n, <2>1, AllAlike, GoesSilently
<1>o. ASSUME todo # <<>>, f.op \notin Telling \cup {"drops", "retags"},
             NEW g, g.op \notin Telling \cup {"retags"}, Then(<<g>>),
             \A y \in Res : Alike(y),
             UNCHANGED <<held, totals, images, up, builds>>
      PROVE  Silent
  <2> QED BY <1>o, OneSeq, GoesSilently
<1>1. CASE Reserved
  BY <1>1, <1>n DEF Reserved, At, Telling, durable, index
<1>2. CASE SetCap
  BY <1>2, <1>n DEF SetCap, At, Telling, index, callers
<1>3. CASE GrantStep
  BY <1>3, <1>n DEF GrantStep, At, Telling, durable, index
<1>4. CASE ReplyStep
  BY <1>4, <1>n DEF ReplyStep, At, Telling, index
<1>5. CASE ReconcileCounters
  BY <1>5, <1>n DEF ReconcileCounters, At, Telling, index, callers
<1>d. ASSUME todo # <<>>, f.op \notin Telling \cup {"drops", "retags"},
             NEW op \in {"delete", "size", "finish", "next"}, NEW r, Then(Do(op, r)),
             \A y \in Res : Alike(y),
             UNCHANGED <<held, totals, images, up, builds>>
      PROVE  Silent
  <2> DEFINE g == [op |-> op, res |-> r]
  <2>1. g.op \notin Telling \cup {"retags"} /\ Then(<<g>>)
    BY <1>d DEF Telling, Do
  <2> HIDE DEF g
  <2> QED BY <1>d, <2>1, <1>o
<1>6. CASE ForgetMeta
  BY <1>6, <1>d, AllAlike DEF ForgetMeta, At, Telling, index, callers
<1>7. CASE PublishChunks
  BY <1>7, <1>d, AllAlike DEF PublishChunks, At, Telling, index, callers
<1>8. CASE PublishSize
  BY <1>8, <1>d, AllAlike DEF PublishSize, At, Telling, index, callers
<1>9. CASE PublishArena
  BY <1>9, <1>d, AllAlike DEF PublishArena, At, Telling, index, callers
<1>10. CASE Finish
  <2>1. up /\ todo # <<>> /\ f \in Frame /\ f.op = "finish"
    BY <1>10, HeadFrame DEF Finish
  <2>2. f.res \in Res /\ reg[f.res] # None /\ reg[f.res] \in Row
    BY <1>0, <2>1, FrameFields, RowSets DEF HeadOK, StateOK
  <2> DEFINE r == f.res
             t == reg[r].txn
             w == [reg[r] EXCEPT !.txn = None, !.done[t.pid] = [op |-> t.op, res |-> "ok"]]
  <2>3. reg' = [reg EXCEPT ![r] = w]
    BY <1>10 DEF Finish
  <2>4. w.holders = reg[r].holders /\ w.pages = reg[r].pages /\ w.state = reg[r].state
    BY <2>2 DEF Row
  <2>5. w # None
    <3>1. reg[r].txn # None
      BY <1>0, <2>1 DEF HeadOK
    <3>2. w \in Row
      BY <2>2, <3>1, RowEnds
    <3> QED BY <3>2, RowSets
  <2> HIDE DEF w
  <2>6. \A y \in Res : Alike(y)
    BY <1>0, <2>2, <2>3, <2>4, <2>5, RowAlike
  <2> QED BY <1>10, <2>1, <2>6, <1>d DEF Finish, Telling, index
<1> QED BY <1>1, <1>2, <1>3, <1>4, <1>5, <1>6, <1>7, <1>8, <1>9, <1>10

\* The steps that go on to a set of frames.
LEMMA RollSilent ==
    ASSUME Inv, WriterGone \/ FinishRetiring \/ RecoverRow \/ NextTransaction
    PROVE  Silent
<1> DEFINE f == Head(todo)
<1>0. StateOK /\ reg \in [Res -> Row \cup {None}]
  BY DEF Inv, StateOK
<1>r. ASSUME todo # <<>>, f.op \notin Telling \cup {"drops", "retags"},
             NEW op \in Deferred \ {"retags"}, NEW S, NEW g, g.op \notin Telling \cup {"retags"},
             NEW s, s = <<>> \/ s = <<g>>, Then(s \o Each(op, S)),
             \A y \in Res : Alike(y), UNCHANGED <<held, totals, images, up, builds>>
      PROVE  Silent
  <2> DEFINE b == [op |-> op, set |-> S]
             F == {g, b}
  <2>1. b.op \notin Telling \cup {"retags"} /\ Each(op, S) \in Seq({b})
    BY <1>r, EachSeq DEF Telling, Deferred
  <2> HIDE DEF b
  <2>2. s \in Seq({g})
    BY <1>r, OneSeq
  <2>3. s \o Each(op, S) \in Seq(F) /\ \A y \in F : y.op \notin Telling \cup {"retags"}
    BY <1>r, <2>1, <2>2, JoinSeq
  <2> HIDE DEF F
  <2> QED BY <1>r, <2>3, GoesSilently
<1>s. ASSUME todo # <<>>, f.op \notin Telling \cup {"drops", "retags"},
             NEW op \in Deferred \ {"retags"}, NEW S, Then(Each(op, S)),
             UNCHANGED <<reg, held, totals, images, up, builds>>
      PROVE  Silent
  <2> DEFINE b == [op |-> op, set |-> S]
             F == {b}
  <2>1. b.op \notin Telling \cup {"retags"} /\ Each(op, S) \in Seq({b})
    BY <1>s, EachSeq DEF Telling, Deferred
  <2> HIDE DEF b
  <2>2. Each(op, S) \in Seq(F) /\ \A y \in F : y.op \notin Telling \cup {"retags"}
    BY <2>1
  <2> HIDE DEF F
  <2> QED BY <1>s, <2>2, AllAlike, GoesSilently
<1>1. CASE WriterGone
  <2>1. up /\ todo # <<>> /\ f \in Frame /\ f.op = "gone"
    BY <1>1, HeadFrame DEF WriterGone
  <2>2. f.set \subseteq Memory \X Pid /\ UNCHANGED <<held, totals, images, up, builds>>
        /\ f.op \notin Telling \cup {"drops", "retags"} /\ "gone" \in Deferred \ {"retags"}
    BY <1>1, <2>1, FrameFields DEF WriterGone, callers, index, Telling, Deferred
  <2>3. PICK x, s :
          /\ x \in f.set
          /\ s = <<>> \/ s = <<[op |-> "settle", res |-> x[1]]>>
          /\ \/ UNCHANGED reg /\ Then(Each("gone", f.set \ {x}))
             \/ /\ reg[x[1]] # None /\ reg' = [reg EXCEPT ![x[1]].done[x[2]] = None]
                /\ Then(s \o Each("gone", f.set \ {x}))
    BY <1>1 DEF WriterGone, Do
  <2>4. x[1] \in Res /\ x[2] \in Pid
    BY <2>2, <2>3, RowSets
  <2> DEFINE S == f.set \ {x}
             g == [op |-> "settle", res |-> x[1]]
  <2>5. CASE UNCHANGED reg /\ Then(Each("gone", S))
    <3> HIDE DEF S
    <3> QED BY <2>1, <2>2, <2>5, <1>s
  <2>6. CASE /\ reg[x[1]] # None /\ reg' = [reg EXCEPT ![x[1]].done[x[2]] = None]
             /\ Then(s \o Each("gone", S))
    <3> DEFINE d == [reg[x[1]].done EXCEPT ![x[2]] = None]
    <3>1. d \in [Pid -> Outcome \cup {None}]
      <4>0. reg[x[1]] \in Row
        BY <1>0, <2>4, <2>6
      <4>1. reg[x[1]].done \in [Pid -> Outcome \cup {None}]
        BY <4>0, RowFields
      <4> QED BY <4>1, <2>4
    <3>2. reg' = [reg EXCEPT ![x[1]] = [reg[x[1]] EXCEPT !.done = d]]
      BY <2>6
    <3> HIDE DEF d
    <3>3. \A y \in Res : Alike(y)
      BY <1>0, <2>4, <2>6, <3>1, <3>2, DoneAlike
    <3>4. g.op \notin Telling \cup {"retags"} /\ (s = <<>> \/ s = <<g>>)
      BY <2>3 DEF Telling
    <3> HIDE DEF g, S
    <3> QED BY <2>1, <2>2, <2>6, <3>3, <3>4, <1>r
  <2> QED BY <2>3, <2>5, <2>6
<1>2. CASE FinishRetiring
  <2>1. up /\ todo # <<>> /\ f \in Frame /\ f.op = "retiring"
    BY <1>2, HeadFrame DEF FinishRetiring
  <2>2. UNCHANGED <<reg, held, totals, images, up, builds>>
        /\ f.op \notin Telling \cup {"drops", "retags"} /\ "retiring" \in Deferred \ {"retags"}
    BY <1>2, <2>1 DEF FinishRetiring, durable, callers, index, Telling, Deferred
  <2>3. PICK r, s : /\ r \in f.set /\ (s = <<>> \/ s = <<[op |-> "forget", res |-> r]>>)
                    /\ Then(s \o Each("retiring", f.set \ {r}))
    BY <1>2 DEF FinishRetiring, Do
  <2> DEFINE S == f.set \ {r}
             g == [op |-> "forget", res |-> r]
  <2>4. g.op \notin Telling \cup {"retags"} /\ (s = <<>> \/ s = <<g>>)
        /\ Then(s \o Each("retiring", S))
    BY <2>3 DEF Telling
  <2> HIDE DEF g, S
  <2> QED BY <2>1, <2>2, <2>4, AllAlike, <1>r
<1>3. CASE RecoverRow
  <2>1. up /\ todo # <<>> /\ f \in Frame /\ f.op = "recover"
    BY <1>3, HeadFrame DEF RecoverRow
  <2>2. f.set \subseteq Memory /\ UNCHANGED <<held, totals, images, up, builds>>
        /\ f.op \notin Telling \cup {"drops", "retags"} /\ "recover" \in Deferred \ {"retags"}
    BY <1>3, <2>1, FrameFields DEF RecoverRow, callers, index, Telling, Deferred
  <2>3. PICK r, s :
          LET kept == {p \in alive : reg[r].done[p] # None} IN
          /\ r \in f.set
          /\ s = <<>> \/ s = <<[op |-> "settle", res |-> r]>>
          /\ \/ UNCHANGED reg /\ Then(Each("recover", f.set \ {r}))
             \/ /\ reg[r] # None
                /\ reg' = [reg EXCEPT ![r].done =
                             [p \in Pid |-> IF p \in kept THEN @[p] ELSE None]]
                /\ Then(s \o Each("recover", f.set \ {r}))
    BY <1>3 DEF RecoverRow, Do
  <2>4. r \in Res
    BY <2>2, <2>3, RowSets
  <2> DEFINE S == f.set \ {r}
             g == [op |-> "settle", res |-> r]
             kept == {p \in alive : reg[r].done[p] # None}
             d == [p \in Pid |-> IF p \in kept THEN reg[r].done[p] ELSE None]
  <2>5. CASE UNCHANGED reg /\ Then(Each("recover", S))
    <3> HIDE DEF S
    <3> QED BY <2>1, <2>2, <2>5, <1>s
  <2>6. CASE /\ reg[r] # None /\ reg' = [reg EXCEPT ![r] = [reg[r] EXCEPT !.done = d]]
             /\ Then(s \o Each("recover", S))
    <3>1. d \in [Pid -> Outcome \cup {None}]
      <4>0. reg[r] \in Row
        BY <1>0, <2>4, <2>6
      <4>1. reg[r].done \in [Pid -> Outcome \cup {None}]
        BY <4>0, RowFields
      <4> QED BY <4>1
    <3> HIDE DEF d
    <3>3. \A y \in Res : Alike(y)
      BY <1>0, <2>4, <2>6, <3>1, DoneAlike
    <3>4. g.op \notin Telling \cup {"retags"} /\ (s = <<>> \/ s = <<g>>)
      BY <2>3 DEF Telling
    <3> HIDE DEF g, S
    <3> QED BY <2>1, <2>2, <2>6, <3>3, <3>4, <1>r
  <2> QED BY <2>3, <2>5, <2>6
<1>4. CASE NextTransaction
  <2>1. up /\ todo # <<>> /\ f \in Frame /\ f.op = "next"
    BY <1>4, HeadFrame DEF NextTransaction
  <2>2. UNCHANGED <<reg, held, totals, images, up, builds>>
        /\ f.op \notin Telling \cup {"drops", "retags"}
    BY <1>4, <2>1 DEF NextTransaction, callers, index, Telling
  <2>3. CASE Then(<<>>)
    <3>1. <<>> \in Seq({}) /\ \A g \in {} : g.op \notin Telling \cup {"retags"}
      OBVIOUS
    <3> QED BY <2>1, <2>2, <2>3, <3>1, AllAlike, GoesSilently
  <2>4. CASE queued[f.res] # <<>> /\ Begin(Head(queued[f.res]), todo)
    <3> DEFINE p == Head(queued[f.res])
    <3>1. p \in Pid
      <4>1. f.res \in Memory
        BY <2>1, FrameFields
      <4>2. queued[f.res] \in Seq(Pid)
        BY <1>0, <4>1 DEF StateOK
      <4> QED BY <2>4, <4>2
    <3>2. todo' = <<>> \o todo \/ \E g \in Frame : todo' = <<g>> \o todo /\ g.op \in Calls
      <4> HIDE DEF p
      <4> QED BY <2>4, <3>1, BeginFrame DEF p
    <3>3. todo \in Seq(Frame)
      BY <1>0 DEF StateOK
    <3>4. CASE todo' = <<>> \o todo
      <4>1. todo' = todo
        BY <3>3, <3>4
      <4> QED BY <2>2, <4>1, AllAlike DEF Silent, Stays, Comes
    <3>5. ASSUME NEW g \in Frame, todo' = <<g>> \o todo, g.op \in Calls PROVE Silent
      <4>1. /\ todo' \in Seq(Frame) /\ Len(todo') = 1 + Len(todo) /\ Len(todo) \in Nat
            /\ todo' # <<>> /\ Head(todo') = g /\ todo'[1] = g
            /\ \A i \in 2 .. 1 + Len(todo) : /\ i - 1 \in 1 .. Len(todo)
                                             /\ todo'[i] = todo[i - 1]
        BY <3>3, <3>5, Prepended
      <4>2. Untold /\ Untold'
        BY <2>2, <3>5, <4>1 DEF Untold, Calls, Telling
      <4>3. Stays
        <5>1. \A i \in 1 .. Len(todo) : i + 1 \in 1 .. Len(todo') /\ todo'[i + 1] = todo[i]
          <6> TAKE i \in 1 .. Len(todo)
          <6>1. i + 1 \in 2 .. 1 + Len(todo) /\ (i + 1) - 1 = i
            BY <4>1
          <6> QED BY <4>1, <6>1
        <5> QED BY <5>1 DEF Stays
      <4>4. Comes
        <5>1. g.op # "retags"
          BY <3>5 DEF Calls
        <5> SUFFICES ASSUME NEW j \in 1 .. Len(todo'), todo'[j].op = "retags"
                     PROVE  \E i \in 1 .. Len(todo) : todo[i] = todo'[j]
          BY DEF Comes
        <5>2. j \in 2 .. 1 + Len(todo)
          BY <4>1, <5>1
        <5> QED BY <4>1, <5>2
      <4> QED BY <2>2, <4>2, <4>3, <4>4, AllAlike DEF Silent
    <3> QED BY <3>2, <3>4, <3>5
  <2> QED BY <1>4, <2>3, <2>4 DEF NextTransaction
<1> QED BY <1>1, <1>2, <1>3, <1>4

-----------------------------------------------------------------------------
(* The caches.                                                             *)

\* Who holds a row: nobody if it is being reclaimed, an image's owner only, a
\* build or the instance it became but not both.
RowTokens(r) ==
    /\ reg[r].state = "retiring" => reg[r].holders = {}
    /\ r \in Image => reg[r].holders \subseteq {SnapOf[r]}
    /\ r \notin Image => \A b \in Builds :
         InstanceOf[b] \in reg[r].holders => b \notin reg[r].holders \cup builds
HeadTokens ==
    todo # <<>> => LET f == Head(todo) IN
        /\ f.op = "insert" => /\ f.res \in Image => f.tok = SnapOf[f.res]
                              /\ f.res \notin Image => f.tok \notin Instances
        /\ f.op = "unhold" => f.tok \in reg[f.res].holders /\ <<f.res, f.tok>> \notin held
        /\ f.op = "undone" => reg[f.res] # None
RetagsOver ==
    \A i \in 1 .. Len(todo) : todo[i].op = "retags" =>
        \A x \in todo[i].set : x[2] \notin builds
TokensOK ==
    /\ \A r \in Res : reg[r] # None => RowTokens(r)
    /\ HeadTokens /\ RetagsOver

\* A holder that is being dropped is in the index no longer.
Leaving(x) ==
    \/ \E i \in 1 .. Len(todo) : todo[i].op = "drops" /\ x \in todo[i].set
    \/ todo # <<>> /\ Head(todo).op = "unhold" /\ x = <<Head(todo).res, Head(todo).tok>>
IndexOK ==
    up => /\ held \subseteq AdoptHeld(reg)
          /\ \A x \in AdoptHeld(reg) \ held : Leaving(x)

\* What the handler in progress has taken from a total and not yet from its
\* row (less than nothing), or the other way round.
Extra(t) ==
    IF todo = <<>> THEN 0
    ELSE LET f == Head(todo) IN
         IF f.op = "unhold" /\ t = f.tok THEN -counted(f.res, reg[f.res])
         ELSE IF f.op = "shrunk" /\ t \in reg[f.res].holders THEN f.n
         ELSE IF f.op = "undone" /\ f.d >= 0 /\ t \in reg[f.res].holders THEN f.d
         ELSE 0
TotalsOK == up => \A t \in Token : totals[t] = AdoptTotals(reg)[t] + Extra(t)

\* The memories over an image, and the one whose row is gone while it is still
\* counted.
Above(i) == {m \in Memory : reg[m] # None /\ ImageOf[m] = i}
Uncounted(i) ==
    IF /\ todo # <<>> /\ Head(todo).op \in {"giveback", "uncount"}
       /\ Head(todo).res \in Memory /\ ImageOf[Head(todo).res] = i THEN 1 ELSE 0
ImagesOK ==
    /\ up => \A i \in Image : images[i] = Cardinality(Above(i)) + Uncounted(i)
    /\ ImageBacked
    /\ todo # <<>> /\ Head(todo).op = "insert" => image_ok(Head(todo).res)

CacheTypes == totals \in [Token -> Nat] /\ images \in [Image -> Nat]
Caches == CacheTypes /\ TokensOK /\ IndexOK /\ TotalsOK /\ ImagesOK

-----------------------------------------------------------------------------
(* The sum a token is counted for.                                         *)

Share(rg, r, t) == IF rg[r] # None /\ t \in rg[r].holders THEN counted(r, rg[r]) ELSE 0
Shares(rg, t) == [r \in HeldBy(rg, t) |-> counted(r, rg[r])]

\* It is a sum of natural numbers.
LEMMA SharesType ==
    ASSUME NEW rg, Fit(rg), NEW t \in Token
    PROVE  /\ IsFiniteSet(HeldBy(rg, t)) /\ Shares(rg, t) \in [HeldBy(rg, t) -> Nat]
           /\ AdoptTotals(rg)[t] = Total(Shares(rg, t)) /\ AdoptTotals(rg)[t] \in Nat
           /\ \A r \in Res : /\ Share(rg, r, t) \in Nat
                             /\ r \in HeldBy(rg, t) <=> rg[r] # None /\ t \in rg[r].holders
           /\ \A r \in HeldBy(rg, t) : Shares(rg, t)[r] = Share(rg, r, t)
<1>1. IsFiniteSet(HeldBy(rg, t))
  <2>1. HeldBy(rg, t) \subseteq Rows(rg)
    BY DEF HeldBy
  <2> QED BY <2>1, FS_Subset DEF Fit
<1>2. \A r \in Res : r \in HeldBy(rg, t) <=> rg[r] # None /\ t \in rg[r].holders
  BY DEF HeldBy, Rows
<1>3. \A r \in Res : rg[r] # None => counted(r, rg[r]) \in Nat
  <2> SUFFICES ASSUME NEW r \in Res, rg[r] # None PROVE counted(r, rg[r]) \in Nat
    OBVIOUS
  <2>1. rg[r] \in Row
    BY DEF Fit
  <2>2. rg[r].pages \in Nat
    BY <2>1 DEF Row
  <2> QED BY <2>2 DEF counted
<1>4. Shares(rg, t) \in [HeldBy(rg, t) -> Nat]
  <2>1. HeldBy(rg, t) \subseteq Res
    BY DEF HeldBy, Rows
  <2> QED BY <1>2, <1>3, <2>1 DEF Shares
<1>5. AdoptTotals(rg)[t] = Total(Shares(rg, t))
  BY DEF AdoptTotals, Shares
<1>6. \A r \in HeldBy(rg, t) : Shares(rg, t)[r] = Share(rg, r, t)
  <2>1. HeldBy(rg, t) \subseteq Res
    BY DEF HeldBy, Rows
  <2> QED BY <1>2, <2>1 DEF Shares, Share
<1>7. \A r \in Res : Share(rg, r, t) \in Nat
  BY <1>3 DEF Share
<1> QED BY <1>1, <1>2, <1>4, <1>5, <1>6, <1>7, TotalNat

\* A token is counted for at least its share of one row.
LEMMA ShareBound ==
    ASSUME NEW rg, Fit(rg), NEW t \in Token, NEW r \in Res
    PROVE  Share(rg, r, t) <= AdoptTotals(rg)[t]
<1>1. CASE r \in HeldBy(rg, t)
  BY <1>1, SharesType, TotalBounds
<1>2. CASE r \notin HeldBy(rg, t)
  <2>1. Share(rg, r, t) = 0 /\ AdoptTotals(rg)[t] \in Nat
    BY <1>2, SharesType DEF Share
  <2> QED BY <2>1
<1> QED BY <1>1, <1>2

\* One row rewritten, added or removed moves the sum by what its share moved.
LEMMA ShareMoves ==
    ASSUME NEW rg, Fit(rg), NEW rh, Fit(rh), NEW t \in Token, NEW r \in Res,
           \A y \in Res \ {r} : Share(rh, y, t) = Share(rg, y, t) /\
                                (y \in HeldBy(rh, t) <=> y \in HeldBy(rg, t))
    PROVE  AdoptTotals(rh)[t] = AdoptTotals(rg)[t] - Share(rg, r, t) + Share(rh, r, t)
<1> DEFINE S == HeldBy(rg, t)
           T == HeldBy(rh, t)
           f == Shares(rg, t)
           g == Shares(rh, t)
<1>1. /\ IsFiniteSet(S) /\ IsFiniteSet(T) /\ f \in [S -> Nat] /\ g \in [T -> Nat]
      /\ AdoptTotals(rg)[t] = Total(f) /\ AdoptTotals(rh)[t] = Total(g)
      /\ Total(f) \in Nat /\ Total(g) \in Nat
      /\ Share(rg, r, t) \in Nat /\ Share(rh, r, t) \in Nat
  BY SharesType
<1>2. S \subseteq Res /\ T \subseteq Res
  BY DEF HeldBy, Rows
<1>3. /\ r \in S => f[r] = Share(rg, r, t)
      /\ r \in T => g[r] = Share(rh, r, t)
      /\ r \notin S => Share(rg, r, t) = 0
      /\ r \notin T => Share(rh, r, t) = 0
  BY SharesType DEF Share
<1>4. \A y \in (S \cap T) \ {r} : f[y] = g[y]
  BY <1>2, SharesType
<1>5. \A y \in Res \ {r} : y \in S <=> y \in T
  OBVIOUS
<1> HIDE DEF S, T, f, g
<1>6. f \in [S -> Int] /\ g \in [T -> Int]
  BY <1>1, NatInt
<1>7. CASE r \in S /\ r \in T
  <2>1. S = T
    BY <1>2, <1>5, <1>7
  <2>2. Total(g) = Total(f) - f[r] + g[r]
    BY <1>1, <1>4, <1>6, <1>7, <2>1, TotalChange
  <2> QED BY <1>1, <1>3, <1>7, <2>2
<1>8. CASE r \in S /\ r \notin T
  <2>1. S = T \cup {r}
    BY <1>2, <1>5, <1>8
  <2>2. Total(f) = Total(g) + f[r]
    BY <1>1, <1>4, <1>6, <1>8, <2>1, TotalMore
  <2> QED BY <1>1, <1>3, <1>8, <2>2
<1>9. CASE r \notin S /\ r \in T
  <2>1. T = S \cup {r}
    BY <1>2, <1>5, <1>9
  <2>2. Total(g) = Total(f) + g[r]
    BY <1>1, <1>4, <1>6, <1>9, <2>1, TotalMore
  <2> QED BY <1>1, <1>3, <1>9, <2>2
<1>10. CASE r \notin S /\ r \notin T
  <2>1. S = T
    BY <1>2, <1>5, <1>10
  <2>2. Total(f) = Total(g)
    <3>1. f = g
      BY <1>1, <1>4, <1>10, <2>1
    <3> QED BY <3>1
  <2> QED BY <1>1, <1>3, <1>10, <2>2
<1> QED BY <1>7, <1>8, <1>9, <1>10

-----------------------------------------------------------------------------
(* One cache at a time.                                                    *)

\* Rows and what counts memories over images left as they were.
LEMMA ImagesSteady ==
    ASSUME ImagesOK, UNCHANGED <<images, up>>,
           \A r \in Res : /\ reg'[r] = None <=> reg[r] = None
                          /\ reg[r] # None => reg'[r].state = reg[r].state,
           \/ UNCHANGED todo
           \/ /\ todo # <<>> => Head(todo).op \notin {"giveback", "uncount"}
              /\ todo' # <<>> => Head(todo').op \notin {"insert", "giveback", "uncount"}
    PROVE  ImagesOK'
<1>1. Memory \subseteq Res /\ Image \subseteq Res
  BY RowSets
<1>2. \A i \in Image : ImageOf[i] = ImageOf[i] /\ (Live(i)' <=> Live(i))
  BY <1>1 DEF Live
<1>3. \A m \in Memory : ImageOf[m] # None => ImageOf[m] \in Image
  BY ConstantsOK
<1>4. ImageBacked'
  BY <1>1, <1>2, <1>3 DEF ImagesOK, ImageBacked
<1>5. \A i \in Image : Above(i)' = Above(i)
  BY <1>1 DEF Above
<1>6. \A i \in Image : Uncounted(i)' = Uncounted(i)
  BY DEF Uncounted
<1>7. ASSUME up' PROVE \A i \in Image : images'[i] = Cardinality(Above(i)') + Uncounted(i)'
  BY <1>5, <1>6, <1>7 DEF ImagesOK
<1>8. ASSUME todo' # <<>>, Head(todo').op = "insert" PROVE image_ok(Head(todo).res)'
  <2>1. todo' = todo /\ image_ok(Head(todo).res)
    BY <1>8 DEF ImagesOK
  <2> QED BY <1>2, <1>3, <2>1 DEF image_ok
<1> QED BY <1>4, <1>7, <1>8 DEF ImagesOK

\* The registry has finitely many rows, before and after a step.
LEMMA BothFit == ASSUME Inv, Inv', Budget, Budget' PROVE Fit(reg) /\ Fit(reg')
BY RegFits, NextFits DEF Inv, Budget

\* The totals follow the share of one row.
LEMMA TotalsFollow ==
    ASSUME Inv, Inv', Budget, Budget', TotalsOK, up' => up, NEW r \in Res,
           \A y \in Res \ {r} : \A t \in Token :
               Share(reg', y, t) = Share(reg, y, t) /\
               (y \in HeldBy(reg', t) <=> y \in HeldBy(reg, t)),
           \A t \in Token : /\ totals[t] \in Int /\ Extra(t) \in Int /\ Extra(t)' \in Int
                            /\ totals'[t] = totals[t] - Share(reg, r, t) - Extra(t)
                                            + Share(reg', r, t) + Extra(t)'
    PROVE  TotalsOK'
<1> SUFFICES ASSUME up', NEW t \in Token
             PROVE  totals'[t] = AdoptTotals(reg')[t] + Extra(t)'
  BY DEF TotalsOK
<1>1. totals[t] = AdoptTotals(reg)[t] + Extra(t)
  BY DEF TotalsOK
<1>2. Fit(reg) /\ Fit(reg')
  BY BothFit
<1>3. AdoptTotals(reg')[t] = AdoptTotals(reg)[t] - Share(reg, r, t) + Share(reg', r, t)
  BY <1>2, ShareMoves
<1>4. /\ AdoptTotals(reg)[t] \in Int /\ Share(reg, r, t) \in Int /\ Share(reg', r, t) \in Int
  BY <1>2, SharesType
<1> QED BY <1>1, <1>3, <1>4

\* A row that keeps its holders and pages keeps its shares.
LEMMA SameShare ==
    ASSUME NEW r \in Res, reg'[r] = None <=> reg[r] = None,
           reg[r] # None => reg'[r].holders = reg[r].holders /\ reg'[r].pages = reg[r].pages,
           NEW t \in Token
    PROVE  /\ Share(reg', r, t) = Share(reg, r, t)
           /\ r \in HeldBy(reg', t) <=> r \in HeldBy(reg, t)
BY DEF Share, counted, HeldBy, Rows

\* What is retagged is a build's that is over.
LEMMA ComesOver == ASSUME TokensOK, Comes, builds' \subseteq builds PROVE RetagsOver'
BY DEF TokensOK, RetagsOver, Comes

\* The holders that are in the index no longer go on being dropped.
LEMMA LeavingStays ==
    ASSUME Stays, NEW x \in AdoptHeld(reg), Leaving(x)
    PROVE  \/ Leaving(x)'
           \/ todo # <<>> /\ Head(todo).op = "unhold" /\ x = <<Head(todo).res, Head(todo).tok>>
BY DEF Stays, Leaving

\* A step that no cache needs to be told of.
LEMMA SilentCaches ==
    ASSUME Inv, Inv', Budget, Budget', Caches, Silent
    PROVE  Caches'
<1>1. /\ \A r \in Res : Alike(r)
      /\ UNCHANGED <<held, totals, images, up>> /\ builds' \subseteq builds
      /\ UNCHANGED todo \/ (Untold /\ Untold')
      /\ Stays /\ Comes
  BY DEF Silent
<1>2. CacheTypes'
  BY <1>1 DEF Caches, CacheTypes
<1>3. TokensOK'
  <2>1. ASSUME NEW r \in Res, reg'[r] # None PROVE RowTokens(r)'
    <3>1. reg[r] # None /\ reg'[r].holders = reg[r].holders /\ reg'[r].state = reg[r].state
      BY <1>1, <2>1 DEF Alike
    <3>2. RowTokens(r)
      BY <3>1 DEF Caches, TokensOK
    <3> QED BY <1>1, <3>1, <3>2 DEF RowTokens
  <2>2. HeadTokens'
    <3>1. CASE Untold'
      BY <3>1 DEF HeadTokens, Untold, Telling
    <3>2. CASE UNCHANGED todo
      <4> SUFFICES ASSUME todo # <<>> PROVE HeadTokens'
        BY <3>2 DEF HeadTokens
      <4> DEFINE f == Head(todo)
      <4>1. HeadTokens /\ Head(todo') = f
        BY <3>2 DEF Caches, TokensOK
      <4>2. f \in Frame /\ (f.op \in {"unhold", "undone"} => f.res \in Res)
        <5>1. f \in Frame
          BY DEF Inv, StateOK
        <5> QED BY <5>1, FrameFields, RowSets
      <4>3. f.op \in {"unhold", "undone"} => Alike(f.res)
        BY <1>1, <4>2
      <4>4. f.op = "unhold" => reg[f.res] # None
        BY DEF Inv, HeadOK
      <4> HIDE DEF f
      <4> QED BY <1>1, <3>2, <4>1, <4>3, <4>4 DEF HeadTokens, Alike
    <3> QED BY <1>1, <3>1, <3>2
  <2>3. RetagsOver'
    BY <1>1, ComesOver DEF Caches
  <2> QED BY <2>1, <2>2, <2>3 DEF TokensOK
<1>4. IndexOK'
  <2>1. AdoptHeld(reg') = AdoptHeld(reg)
    BY <1>1 DEF AdoptHeld, Alike
  <2>2. ASSUME NEW x \in AdoptHeld(reg), Leaving(x) PROVE Leaving(x)'
    <3>1. CASE UNCHANGED todo
      BY <2>2, <3>1 DEF Leaving
    <3>2. CASE Untold
      BY <1>1, <2>2, <3>2, LeavingStays DEF Untold, Telling
    <3> QED BY <1>1, <3>1, <3>2
  <2> QED BY <1>1, <2>1, <2>2 DEF Caches, IndexOK
<1>5. TotalsOK'
  <2>1. \A y \in Res, t \in Token : /\ Share(reg', y, t) = Share(reg, y, t)
                                    /\ y \in HeldBy(reg', t) <=> y \in HeldBy(reg, t)
    BY <1>1, SameShare DEF Alike
  <2>2. \A t \in Token : AdoptTotals(reg')[t] = AdoptTotals(reg)[t]
    <3> TAKE t \in Token
    <3>1. HeldBy(reg', t) = HeldBy(reg, t)
      BY <2>1 DEF HeldBy, Rows
    <3>2. \A y \in HeldBy(reg, t) : counted(y, reg'[y]) = counted(y, reg[y])
      BY <1>1 DEF HeldBy, Rows, Alike, counted
    <3> QED BY <3>1, <3>2 DEF AdoptTotals
  <2>3. ASSUME NEW t \in Token PROVE Extra(t)' = Extra(t)
    <3>1. CASE Untold /\ Untold'
      BY <3>1 DEF Untold, Telling, Extra
    <3>2. CASE UNCHANGED todo
      <4> SUFFICES ASSUME todo # <<>> PROVE Extra(t)' = Extra(t)
        BY <3>2 DEF Extra
      <4> DEFINE f == Head(todo)
      <4>1. Head(todo') = f /\ todo' # <<>>
        BY <3>2
      <4>2. f.op \in {"unhold", "shrunk", "undone"} => reg[f.res] # None /\ Alike(f.res)
        <5>1. f \in Frame
          BY DEF Inv, StateOK
        <5>2. f.op \in {"unhold", "shrunk", "undone"} => f.res \in Res
          BY <5>1, FrameFields, RowSets
        <5>3. f.op \in {"unhold", "shrunk", "undone"} => reg[f.res] # None
          BY DEF Inv, HeadOK, Budget, FramesFit, Caches, TokensOK, HeadTokens
        <5> QED BY <1>1, <5>2, <5>3
      <4> HIDE DEF f
      <4>3. f.op \in {"unhold", "shrunk", "undone"} =>
              /\ reg'[f.res].holders = reg[f.res].holders
              /\ counted(f.res, reg'[f.res]) = counted(f.res, reg[f.res])
        BY <4>2 DEF Alike, counted
      <4> QED BY <4>1, <4>3 DEF Extra, f
    <3> QED BY <1>1, <3>1, <3>2
  <2> QED BY <1>1, <2>2, <2>3 DEF Caches, TotalsOK
<1>6. ImagesOK'
  BY <1>1, ImagesSteady DEF Alike, Untold, Telling, Caches
<1> QED BY <1>2, <1>3, <1>4, <1>5, <1>6 DEF Caches

-----------------------------------------------------------------------------
(* Requests and deaths that a cache is told of.                            *)

\* Rows, totals and what is still to be told of them left as they were.
LEMMA TotalsStay ==
    ASSUME TotalsOK, UNCHANGED <<reg, totals, up>>, \A t \in Token : Extra(t)' = Extra(t)
    PROVE  TotalsOK'
BY DEF TotalsOK

\* A handler's first frame.
LEMMA Starts ==
    ASSUME Idle, NEW g, todo' = <<g>>, g.op # "retags"
    PROVE  todo' # <<>> /\ Head(todo') = g /\ Untold /\ Stays /\ Comes
<1>1. todo' # <<>> /\ Head(todo') = g /\ \A j \in 1 .. Len(todo') : todo'[j] = g
  OBVIOUS
<1>2. Untold /\ Stays
  BY DEF Idle, Untold, Stays
<1>3. Comes
  BY <1>1 DEF Comes
<1> QED BY <1>1, <1>2, <1>3

\* Between two requests the index is exact and nothing is still to be told.
LEMMA IdleIs ==
    ASSUME Idle PROVE /\ IndexOK => held = AdoptHeld(reg)
                      /\ \A t \in Token : Extra(t) = 0
                      /\ \A i \in Image : Uncounted(i) = 0
<1>1. \A x : ~Leaving(x)
  BY DEF Leaving, Idle
<1>2. IndexOK => held = AdoptHeld(reg)
  BY <1>1 DEF IndexOK, Idle
<1> QED BY <1>2 DEF Extra, Uncounted, Idle

\* A row is to be inserted.
LEMMA InsertCaches ==
    ASSUME Caches, Idle, NEW p \in Pid, NEW r \in Res, NEW t \in Token,
           todo' = Insert(p, r, t), UNCHANGED <<reg, held, totals, images, up, builds>>,
           r \in Image => t = SnapOf[r], r \notin Image => t \notin Instances,
           image_ok(r)
    PROVE  Caches'
<1> DEFINE g == [op |-> "insert", pid |-> p, res |-> r, tok |-> t]
<1>1. g.op = "insert" /\ g.res = r /\ g.tok = t /\ todo' = <<g>>
  BY DEF Insert
<1> HIDE DEF g
<1>2. todo' # <<>> /\ Head(todo') = g /\ Untold /\ Stays /\ Comes
  BY <1>1, Starts
<1>3. TokensOK'
  <2>1. \A y \in Res : reg[y] # None => RowTokens(y)'
    BY DEF Caches, TokensOK, RowTokens
  <2>2. HeadTokens'
    BY <1>1, <1>2 DEF HeadTokens
  <2>3. RetagsOver'
    BY <1>2, ComesOver DEF Caches
  <2> QED BY <2>1, <2>2, <2>3 DEF TokensOK
<1>4. IndexOK'
  <2>1. held = AdoptHeld(reg)
    BY IdleIs DEF Caches
  <2> QED BY <2>1 DEF IndexOK
<1>5. TotalsOK'
  <2>1. \A y \in Token : Extra(y)' = 0
    BY <1>1, <1>2 DEF Extra
  <2> QED BY <2>1, IdleIs, TotalsStay DEF Caches
<1>6. ImagesOK'
  <2>1. \A i \in Image : Uncounted(i)' = 0
    BY <1>1, <1>2 DEF Uncounted
  <2>2. \A i \in Image : Above(i)' = Above(i)
    BY DEF Above
  <2>3. ImageBacked' /\ image_ok(r)'
    BY DEF Caches, ImagesOK, ImageBacked, image_ok, Live
  <2>4. up' => \A i \in Image : (images[i] = Cardinality(Above(i)) + Uncounted(i))'
    BY <2>1, <2>2, IdleIs DEF Caches, ImagesOK
  <2>5. (todo # <<>> /\ Head(todo).op = "insert" => image_ok(Head(todo).res))'
    BY <1>1, <1>2, <2>3
  <2> QED BY <2>3, <2>4, <2>5 DEF ImagesOK
<1>7. CacheTypes'
  BY DEF Caches, CacheTypes
<1> QED BY <1>3, <1>4, <1>5, <1>6, <1>7 DEF Caches

\* A token that is given a resource it does not hold.
LEMMA AcquireCaches ==
    ASSUME Inv, Inv', Budget, Budget', Caches, NEW p \in Pid, NEW r \in Res, NEW t \in Token,
           Acquire(p, r, t)
    PROVE  Caches'
<1>0. Idle /\ reg \in [Res -> Row \cup {None}] /\ totals \in [Token -> Nat]
  BY DEF Acquire, Inv, StateOK, Caches, CacheTypes
<1>1. UNCHANGED <<todo, images, up, builds>>
  BY DEF Acquire, callers
<1>2. CASE UNCHANGED <<reg, totals, held>>
  <2>1. Silent
    BY <1>1, <1>2, AllAlike DEF Silent, Stays, Comes
  <2> QED BY <2>1, SilentCaches
<1>3. CASE Live(r) /\ t \notin reg[r].holders /\ ~UNCHANGED <<reg, totals, held>>
  <2> DEFINE w == [reg[r] EXCEPT !.holders = @ \cup {t}]
  <2>1. /\ reg' = [reg EXCEPT ![r] = w] /\ hold(r, t) /\ add_total({t}, reg[r].pages)
        /\ r \notin Image /\ MayHold(p, t)
    BY <1>3 DEF Acquire
  <2>2. reg[r] \in Row /\ reg[r] # None /\ reg[r].state = "live"
    BY <1>0, <1>3 DEF Live
  <2>3. /\ w.holders = reg[r].holders \cup {t} /\ w.pages = reg[r].pages
        /\ w.state = reg[r].state /\ w # None /\ reg[r].pages \in Nat
    <3>1. w \in Row
      <4>1. reg[r].holders \cup {t} \in SUBSET Token
        BY <2>2 DEF Row
      <4> QED BY <2>2, <4>1, RowFields
    <3> QED BY <2>2, <3>1, RowSets DEF Row
  <2> HIDE DEF w
  <2>4. reg'[r] = w /\ \A y \in Res \ {r} : reg'[y] = reg[y]
    BY <2>1, RowSet DEF Inv
  <2>5. TokensOK'
    <3>1. ASSUME NEW y \in Res, reg'[y] # None PROVE RowTokens(y)'
      <4>1. CASE y # r
        BY <1>1, <2>4, <3>1, <4>1 DEF Caches, TokensOK, RowTokens
      <4>2. CASE y = r
        <5>1. RowTokens(r)
          BY <2>2 DEF Caches, TokensOK
        <5>2. t \notin Instances /\ (t \in Builds => t \in builds)
          BY <2>1 DEF MayHold
        <5>3. \A b \in Builds : InstanceOf[b] # t
          BY <5>2 DEF Instances
        <5> QED BY <1>1, <2>1, <2>2, <2>3, <2>4, <4>2, <5>1, <5>2, <5>3 DEF RowTokens
      <4> QED BY <4>1, <4>2
    <3>2. HeadTokens' /\ RetagsOver'
      BY <1>0, <1>1 DEF Idle, HeadTokens, RetagsOver
    <3> QED BY <3>1, <3>2 DEF TokensOK
  <2>6. IndexOK'
    <3>1. held = AdoptHeld(reg)
      BY <1>0, IdleIs DEF Caches
    <3>2. AdoptHeld(reg') = IF OwnerOf[t] = None THEN held ELSE held \cup {<<r, t>>}
      <4>1. \A x \in Res \X Token : x \in AdoptHeld(reg') <=>
                x \in held \/ (OwnerOf[t] # None /\ x = <<r, t>>)
        BY <2>2, <2>3, <2>4, <3>1 DEF AdoptHeld
      <4>2. held \subseteq Res \X Token /\ AdoptHeld(reg') \subseteq Res \X Token
            /\ <<r, t>> \in Res \X Token
        BY <3>1 DEF AdoptHeld
      <4> QED BY <4>1, <4>2
    <3>3. held' = AdoptHeld(reg')
      BY <2>1, <3>2 DEF hold
    <3> QED BY <3>3 DEF IndexOK
  <2>7. TotalsOK'
    <3>1. \A y \in Token : Extra(y) = 0 /\ Extra(y)' = 0
      BY <1>0, <1>1 DEF Extra, Idle
    <3>2. \A y \in Res \ {r} : \A x \in Token :
             Share(reg', y, x) = Share(reg, y, x) /\
             (y \in HeldBy(reg', x) <=> y \in HeldBy(reg, x))
      BY <2>4, SameShare
    <3>3. ASSUME NEW x \in Token
          PROVE  totals'[x] = totals[x] - Share(reg, r, x) - Extra(x) + Share(reg', r, x) + Extra(x)'
      <4>1. totals[x] \in Nat /\ totals'[x] = IF x = t THEN totals[x] + reg[r].pages ELSE totals[x]
        BY <1>0, <2>1 DEF add_total
      <4>2. x = t => Share(reg, r, x) = 0 /\ Share(reg', r, x) = reg[r].pages
        BY <1>3, <2>1, <2>3, <2>4 DEF Share, counted
      <4>3. x # t => Share(reg', r, x) = Share(reg, r, x)
        BY <2>2, <2>3, <2>4 DEF Share, counted
      <4>4. Share(reg, r, x) \in Nat
        BY BothFit, SharesType
      <4> QED BY <2>3, <3>1, <4>1, <4>2, <4>3, <4>4
    <3> QED BY <1>0, <1>1, <3>1, <3>2, <3>3, TotalsFollow DEF Caches
  <2>8. ImagesOK'
    BY <1>1, <2>2, <2>3, <2>4, ImagesSteady DEF Caches
  <2>9. CacheTypes'
    <3>1. reg[r].pages \in Nat
      BY <2>3
    <3> QED BY <1>0, <1>1, <2>1, <3>1 DEF Caches, CacheTypes, add_total
  <2> QED BY <2>5, <2>6, <2>7, <2>8, <2>9 DEF Caches
<1> QED BY <1>2, <1>3 DEF Acquire

\* A heap measured at fewer pages, or at more.
LEMMA ReconcileCaches ==
    ASSUME Inv, Inv', Budget, Budget', Caches, NEW p \in Pid, NEW r \in Heap, NEW w \in Nat,
           Reconcile(p, r, w)
    PROVE  Caches'
<1>0. /\ Idle /\ Live(r) /\ reg \in [Res -> Row \cup {None}] /\ totals \in [Token -> Nat]
      /\ r \in Res /\ r \notin Image
  BY RowSets DEF Reconcile, Inv, StateOK, Caches, CacheTypes
<1>1. UNCHANGED <<held, totals, images, up, builds>>
  BY DEF Reconcile, callers, index
<1>2. reg[r] \in Row /\ reg[r] # None /\ reg[r].state = "live" /\ reg[r].pages \in Nat
  <2>1. reg[r] \in Row /\ reg[r] # None /\ reg[r].state = "live"
    BY <1>0 DEF Live
  <2> QED BY <2>1 DEF Row
<1>3. CASE UNCHANGED reg /\ todo' = <<[op |-> "grown", res |-> r, n |-> w]>>
  <2> DEFINE g == [op |-> "grown", res |-> r, n |-> w]
  <2>1. g.op = "grown" /\ todo' = <<g>>
    BY <1>3
  <2> HIDE DEF g
  <2>2. todo' # <<>> /\ Head(todo') = g /\ Untold /\ Stays /\ Comes
    BY <1>0, <2>1, Starts
  <2>3. Silent
    BY <1>1, <1>3, <2>1, <2>2, AllAlike DEF Silent, Untold, Telling
  <2> QED BY <2>3, SilentCaches
<1>4. CASE w < reg[r].pages /\ reg' = [reg EXCEPT ![r].pages = w]
           /\ todo' = <<[op |-> "shrunk", res |-> r, n |-> reg[r].pages - w]>>
  <2> DEFINE v == [reg[r] EXCEPT !.pages = w]
             n == reg[r].pages - w
             g == [op |-> "shrunk", res |-> r, n |-> n]
  <2>1. /\ v.holders = reg[r].holders /\ v.pages = w /\ v.state = reg[r].state /\ v # None
    <3>1. v \in Row
      BY <1>2, RowFields
    <3> QED BY <1>2, <3>1, RowSets DEF Row
  <2>2. g.op = "shrunk" /\ g.res = r /\ g.n = n /\ todo' = <<g>> /\ n \in Nat
        /\ w = reg[r].pages - n
    BY <1>2, <1>4
  <2>3. reg' = [reg EXCEPT ![r] = v]
    BY <1>4
  <2> HIDE DEF v, g, n
  <2>4. reg'[r] = v /\ \A y \in Res \ {r} : reg'[y] = reg[y]
    BY <1>0, <2>3, RowSet DEF Inv
  <2>5. todo' # <<>> /\ Head(todo') = g /\ Untold /\ Stays /\ Comes
    BY <1>0, <2>2, Starts
  <2>6. TokensOK'
    <3>1. ASSUME NEW y \in Res, reg'[y] # None PROVE RowTokens(y)'
      <4>1. /\ reg[y] # None /\ reg'[y].holders = reg[y].holders /\ reg'[y].state = reg[y].state
        BY <1>2, <2>1, <2>4, <3>1
      <4>2. RowTokens(y)
        BY <4>1 DEF Caches, TokensOK
      <4> QED BY <1>1, <4>1, <4>2 DEF RowTokens
    <3>2. HeadTokens'
      BY <2>2, <2>5 DEF HeadTokens
    <3>3. RetagsOver'
      BY <1>1, <2>5, ComesOver DEF Caches
    <3> QED BY <3>1, <3>2, <3>3 DEF TokensOK
  <2>7. IndexOK'
    <3>1. held = AdoptHeld(reg)
      BY <1>0, IdleIs DEF Caches
    <3>2. AdoptHeld(reg') = AdoptHeld(reg)
      BY <1>2, <2>1, <2>4 DEF AdoptHeld
    <3> QED BY <1>1, <3>1, <3>2 DEF IndexOK
  <2>8. TotalsOK'
    <3>1. \A y \in Token : Extra(y) = 0 /\ Extra(y)' = IF y \in reg[r].holders THEN n ELSE 0
      BY <1>0, <2>1, <2>2, <2>4, <2>5 DEF Extra, Idle
    <3>2. \A y \in Res \ {r} : \A x \in Token :
             Share(reg', y, x) = Share(reg, y, x) /\
             (y \in HeldBy(reg', x) <=> y \in HeldBy(reg, x))
      BY <2>4, SameShare
    <3>3. ASSUME NEW x \in Token
          PROVE  /\ totals[x] \in Int /\ Extra(x) \in Int /\ Extra(x)' \in Int
                 /\ totals'[x] = totals[x] - Share(reg, r, x) - Extra(x) + Share(reg', r, x) + Extra(x)'
      <4>1. totals[x] \in Nat /\ totals'[x] = totals[x]
        BY <1>0, <1>1
      <4>2. x \in reg[r].holders => Share(reg, r, x) = reg[r].pages /\ Share(reg', r, x) = w
        BY <1>0, <1>2, <2>1, <2>4 DEF Share, counted
      <4>3. x \notin reg[r].holders => Share(reg, r, x) = 0 /\ Share(reg', r, x) = 0
        BY <1>2, <2>1, <2>4 DEF Share
      <4> QED BY <1>2, <2>2, <3>1, <4>1, <4>2, <4>3
    <3> QED BY <1>0, <1>1, <3>2, <3>3, TotalsFollow DEF Caches
  <2>9. ImagesOK'
    BY <1>0, <1>1, <1>2, <2>1, <2>2, <2>4, <2>5, ImagesSteady DEF Caches, Idle
  <2>10. CacheTypes'
    BY <1>1 DEF Caches, CacheTypes
  <2> QED BY <2>6, <2>7, <2>8, <2>9, <2>10 DEF Caches
<1> QED BY <1>3, <1>4 DEF Reconcile

\* The holders of a process that died leave the index together.
LEMMA HolderDownCaches ==
    ASSUME Caches, NEW p \in Pid, HolderDown(p)
    PROVE  Caches'
<1> DEFINE mine == {x \in held : OwnerOf[x[2]] = p}
           g == [op |-> "drops", set |-> mine]
<1>1. /\ Idle /\ UNCHANGED <<reg, totals, images, up, builds>> /\ mine # {}
      /\ held' = held \ mine /\ todo' = Each("drops", mine)
  BY DEF HolderDown, durable, callers
<1>2. g.op = "drops" /\ g.set = mine /\ todo' = <<g>>
  BY <1>1 DEF Each
<1> HIDE DEF mine, g
<1>3. todo' # <<>> /\ Head(todo') = g /\ Untold /\ Stays /\ Comes
  BY <1>1, <1>2, Starts
<1>4. TokensOK'
  <2>1. \A y \in Res : reg'[y] # None => RowTokens(y)'
    BY <1>1 DEF Caches, TokensOK, RowTokens
  <2>2. HeadTokens'
    BY <1>2, <1>3 DEF HeadTokens
  <2>3. RetagsOver'
    BY <1>1, <1>3, ComesOver DEF Caches
  <2> QED BY <2>1, <2>2, <2>3 DEF TokensOK
<1>5. IndexOK'
  <2>1. held = AdoptHeld(reg)
    BY <1>1, IdleIs DEF Caches
  <2>2. ASSUME NEW x \in mine PROVE Leaving(x)'
    <3>1. 1 \in 1 .. Len(todo') /\ todo'[1] = g
      BY <1>2
    <3> QED BY <1>2, <2>2, <3>1 DEF Leaving
  <2>3. held' \subseteq AdoptHeld(reg') /\ AdoptHeld(reg') \ held' \subseteq mine
    BY <1>1, <2>1
  <2> QED BY <2>2, <2>3 DEF IndexOK
<1>6. TotalsOK'
  <2>1. \A y \in Token : Extra(y)' = 0
    BY <1>2, <1>3 DEF Extra
  <2> QED BY <1>1, <2>1, IdleIs, TotalsStay DEF Caches
<1>7. ImagesOK'
  BY <1>1, <1>2, <1>3, ImagesSteady DEF Caches, Idle
<1>8. CacheTypes'
  BY <1>1 DEF Caches, CacheTypes
<1> QED BY <1>4, <1>5, <1>6, <1>7, <1>8 DEF Caches

\* The requests of a process.
LEMMA RequestCaches ==
    ASSUME Inv, Inv', Budget, Budget', Caches, NEW p \in Pid, Request(p) \/ HolderDown(p)
    PROVE  Caches'
<1>1. ASSUME NEW r \in Res, NEW t \in Token, Reserve(p, r, t) PROVE Caches'
  <2>1. CASE Silent
    BY <2>1, SilentCaches
  <2>2. CASE todo' = Insert(p, r, t)
    <3>1. Idle /\ UNCHANGED <<reg, held, totals, images, up, builds>> /\ MayHold(p, t)
          /\ r \notin Image
      BY <1>1 DEF Reserve, index
    <3>2. image_ok(r)
      <4>1. todo' # todo
        BY <2>2, <3>1 DEF Insert, Idle
      <4> QED BY <1>1, <4>1 DEF Reserve
    <3> QED BY <2>2, <3>1, <3>2, InsertCaches DEF MayHold
  <2> QED BY <1>1, <2>1, <2>2, RequestSilent
<1>2. ASSUME NEW r \in Res, NEW t \in Token, Release(p, r, t) PROVE Caches'
  BY <1>2, RequestSilent, SilentCaches
<1>3. ASSUME NEW t \in Token,
             Destroy(p, t) \/ Discard(p, t) \/ Transfer(p, t) \/ LostBuildCall(p, t)
      PROVE  Caches'
  BY <1>3, RequestSilent, SilentCaches
<1>4. ASSUME NEW r \in Heap, NEW w \in HeapSizes, Reconcile(p, r, w) PROVE Caches'
  BY <1>4, ReconcileCaches, ConstantsOK
<1>5. ASSUME NEW i \in Image, ImageReserve(p, i) PROVE Caches'
  <2>1. i \in Res /\ SnapOf[i] \in Token /\ i \notin Memory
    BY ConstantsOK, RowSets
  <2>2. Idle /\ todo' = Insert(p, i, SnapOf[i])
        /\ UNCHANGED <<reg, held, totals, images, up, builds>>
    BY <1>5 DEF ImageReserve, index
  <2> QED BY <2>1, <2>2, InsertCaches DEF image_ok
<1>6. ASSUME NEW r \in Res, NEW t \in Token, Acquire(p, r, t) PROVE Caches'
  BY <1>6, AcquireCaches
<1> QED BY <1>1, <1>2, <1>3, <1>4, <1>5, <1>6, HolderDownCaches DEF Request

-----------------------------------------------------------------------------
(* Rows inserted and measured.                                             *)

\* Holders and states left as they were.
LEMMA TokensRest ==
    ASSUME TokensOK, builds' \subseteq builds, Comes, HeadTokens',
           \A r \in Res : /\ reg'[r] = None <=> reg[r] = None
                          /\ reg[r] # None => /\ reg'[r].holders = reg[r].holders
                                              /\ reg'[r].state = reg[r].state
    PROVE  TokensOK'
<1>1. ASSUME NEW r \in Res, reg'[r] # None PROVE RowTokens(r)'
  <2>1. reg[r] # None /\ reg'[r].holders = reg[r].holders /\ reg'[r].state = reg[r].state
    BY <1>1
  <2>2. RowTokens(r)
    BY <2>1 DEF TokensOK
  <2> QED BY <2>1, <2>2 DEF RowTokens
<1> QED BY <1>1, ComesOver DEF TokensOK

LEMMA IndexRest ==
    ASSUME IndexOK, UNCHANGED <<up, held>>, AdoptHeld(reg') = AdoptHeld(reg), Stays,
           todo # <<>> => Head(todo).op # "unhold"
    PROVE  IndexOK'
BY LeavingStays DEF IndexOK

\* The images that memories are over have finitely many.
LEMMA AboveFinite == ASSUME Budget PROVE \A i \in Image : IsFiniteSet(Above(i))
<1> TAKE i \in Image
<1>1. Above(i) \subseteq minted
  BY RowSets DEF Above, Budget, RowsFit
<1> QED BY <1>1, FS_Subset DEF Budget, RowsFit

\* A total never goes below nothing, and is exact if it had not to.
LEMMA SubTotal ==
    ASSUME totals \in [Token -> Nat], NEW T, NEW n \in Nat, sub_total(T, n)
    PROVE  /\ totals' \in [Token -> Nat]
           /\ \A t \in Token : /\ t \notin T => totals'[t] = totals[t]
                               /\ t \in T /\ totals[t] >= n => totals'[t] = totals[t] - n
<1>1. totals' = [t \in Token |-> IF t \notin T THEN totals[t]
                                 ELSE IF totals[t] > n THEN totals[t] - n ELSE 0]
  BY DEF sub_total
<1> QED BY <1>1

\* The row of a reserved resource.
LEMMA InsertRowCaches ==
    ASSUME Inv, Inv', Budget, Budget', Caches, InsertRow
    PROVE  Caches'
<1> DEFINE f == Head(todo)
           r == f.res
           t == f.tok
           w == NewRow(r, t)
           i == ImageOf[r]
<1>1. up /\ todo # <<>> /\ f \in Frame /\ f.op = "insert"
  BY HeadFrame DEF InsertRow
<1>2. r \in Res /\ t \in Token /\ reg[r] = None /\ image_ok(r)
      /\ reg \in [Res -> Row \cup {None}] /\ totals \in [Token -> Nat]
      /\ images \in [Image -> Nat]
  BY <1>1, FrameFields DEF Budget, FramesFit, Inv, StateOK, Caches, CacheTypes, ImagesOK
<1>3. /\ reg' = [reg EXCEPT ![r] = w] /\ hold(r, t) /\ add_total({t}, w.pages)
      /\ images' = IF r \in Memory /\ i # None THEN [images EXCEPT ![i] = @ + 1] ELSE images
      /\ UNCHANGED <<up, builds>>
  BY DEF InsertRow, callers
<1>4. Stays /\ Comes /\ Untold'
  <2>1. CASE Then(<<>>)
    BY <1>1, <2>1, Onto
  <2>2. CASE Then(<<[f EXCEPT !.op = "reserved"]>>)
    <3> DEFINE g == [f EXCEPT !.op = "reserved"]
    <3>1. g.op = "reserved" /\ Then(<<g>>)
      BY <1>1, <2>2 DEF Frame
    <3> HIDE DEF g
    <3>2. todo' # <<>> /\ Head(todo') = g /\ Stays /\ Comes
      BY <1>1, <3>1, Onto
    <3> QED BY <3>1, <3>2 DEF Untold, Telling
  <2> QED BY <2>1, <2>2 DEF InsertRow
<1>5. /\ w.holders = {t} /\ w.state = "live" /\ w # None /\ w.pages \in Nat
      /\ r \in Image => w.pages = 0
  <2>1. w \in Row
    BY <1>2, NewRowTyped
  <2>2. r \in Image => r \notin Memory
    BY RowSets
  <2> QED BY <2>1, <2>2, RowSets DEF NewRow, Row
<1>6. (f.res \in Image => t = SnapOf[r]) /\ (r \notin Image => t \notin Instances)
  BY <1>1 DEF Caches, TokensOK, HeadTokens
<1> HIDE DEF w, f, r, t, i
<1>7. reg'[r] = w /\ \A y \in Res \ {r} : reg'[y] = reg[y]
  BY <1>2, <1>3, RowSet DEF Inv
<1>8. TokensOK'
  <2>1. ASSUME NEW y \in Res, reg'[y] # None PROVE RowTokens(y)'
    <3>1. CASE y # r
      BY <1>3, <1>7, <2>1, <3>1 DEF Caches, TokensOK, RowTokens
    <3>2. CASE y = r
      <4>1. r \in Image => t = SnapOf[r]
        BY <1>6 DEF r
      <4>2. r \notin Image => \A b \in Builds : InstanceOf[b] # t
        BY <1>6 DEF Instances
      <4> QED BY <1>5, <1>7, <3>2, <4>1, <4>2 DEF RowTokens
    <3> QED BY <3>1, <3>2
  <2>2. HeadTokens'
    BY <1>4 DEF HeadTokens, Untold, Telling
  <2>3. RetagsOver'
    BY <1>3, <1>4, ComesOver DEF Caches
  <2> QED BY <2>1, <2>2, <2>3 DEF TokensOK
<1>9. IndexOK'
  <2>1. held \subseteq AdoptHeld(reg) /\ \A x \in AdoptHeld(reg) \ held : Leaving(x)
    BY <1>1 DEF Caches, IndexOK
  <2>2. \A x \in AdoptHeld(reg) : Leaving(x) => Leaving(x)'
    BY <1>1, <1>4, LeavingStays DEF f
  <2>3. \A x \in Res \X Token : x \in AdoptHeld(reg') <=>
            x \in AdoptHeld(reg) \/ (OwnerOf[t] # None /\ x = <<r, t>>)
    BY <1>2, <1>5, <1>7 DEF AdoptHeld
  <2>4. AdoptHeld(reg) \subseteq Res \X Token /\ AdoptHeld(reg') \subseteq Res \X Token
        /\ <<r, t>> \in Res \X Token
    BY <1>2 DEF AdoptHeld
  <2>5. held' = IF OwnerOf[t] = None THEN held ELSE held \cup {<<r, t>>}
    BY <1>3 DEF hold
  <2> QED BY <2>1, <2>2, <2>3, <2>4, <2>5 DEF IndexOK
<1>10. TotalsOK'
  <2>1. \A y \in Token : Extra(y) = 0 /\ Extra(y)' = 0
    BY <1>1, <1>4 DEF Extra, Untold, Telling, f
  <2>2. \A y \in Res \ {r} : \A x \in Token :
           Share(reg', y, x) = Share(reg, y, x) /\
           (y \in HeldBy(reg', x) <=> y \in HeldBy(reg, x))
    BY <1>7, SameShare
  <2>3. ASSUME NEW x \in Token
        PROVE  /\ totals[x] \in Int /\ Extra(x) \in Int /\ Extra(x)' \in Int
               /\ totals'[x] = totals[x] - Share(reg, r, x) - Extra(x) + Share(reg', r, x) + Extra(x)'
    <3>1. totals[x] \in Nat /\ totals'[x] = IF x = t THEN totals[x] + w.pages ELSE totals[x]
      BY <1>2, <1>3 DEF add_total
    <3>2. Share(reg, r, x) = 0 /\ Share(reg', r, x) = IF x = t THEN w.pages ELSE 0
      BY <1>2, <1>5, <1>7 DEF Share, counted
    <3> QED BY <1>5, <2>1, <3>1, <3>2
  <2> QED BY <1>1, <1>2, <1>3, <2>2, <2>3, TotalsFollow DEF Caches
<1>11. ImagesOK'
  <2>1. \A j \in Image : Uncounted(j) = 0 /\ Uncounted(j)' = 0
    BY <1>1, <1>4 DEF Uncounted, Untold, Telling, f
  <2>2. ASSUME NEW j \in Image
        PROVE  images'[j] = Cardinality(Above(j)') + Uncounted(j)'
    <3>1. images[j] = Cardinality(Above(j)) /\ images[j] \in Nat /\ IsFiniteSet(Above(j))
      <4>1. images[j] = Cardinality(Above(j)) + 0
        BY <1>1, <2>1 DEF Caches, ImagesOK
      <4>2. IsFiniteSet(Above(j)) /\ images[j] \in Nat
        BY <1>2, AboveFinite
      <4>3. Cardinality(Above(j)) \in Nat
        BY <4>2, FS_CardinalityType
      <4> QED BY <4>1, <4>2, <4>3
    <3>2. CASE r \in Memory /\ i = j
      <4>1. Above(j)' = Above(j) \cup {r} /\ r \notin Above(j)
        BY <1>2, <1>5, <1>7, <3>2, RowSets DEF Above, i
      <4>2. Cardinality(Above(j)') = Cardinality(Above(j)) + 1
        BY <3>1, <4>1, FS_AddElement
      <4>3. images'[j] = images[j] + 1
        <5>1. j # None
          BY ConstantsOK, RowSets
        <5> QED BY <1>2, <1>3, <3>2, <5>1
      <4> QED BY <2>1, <3>1, <4>2, <4>3
    <3>3. CASE ~(r \in Memory /\ i = j)
      <4>1. Above(j)' = Above(j)
        BY <1>2, <1>5, <1>7, <3>3, RowSets DEF Above, i
      <4>2. images'[j] = images[j]
        BY <1>2, <1>3, <3>3
      <4> QED BY <2>1, <3>1, <4>1, <4>2
    <3> QED BY <3>2, <3>3
  <2>3. ImageBacked'
    <3> SUFFICES ASSUME NEW m \in Memory, reg'[m] # None, ImageOf[m] # None
                 PROVE  reg'[ImageOf[m]] # None /\ reg'[ImageOf[m]].state = "live"
      BY DEF ImageBacked, Live
    <3>1. m \in Res /\ ImageOf[m] \in Res
      BY RowSets, ConstantsOK
    <3>2. reg[ImageOf[m]] # None /\ reg[ImageOf[m]].state = "live"
      <4>1. CASE m = r
        BY <1>2, <4>1 DEF image_ok, Live
      <4>2. CASE m # r
        BY <1>7, <3>1, <4>2 DEF Caches, ImagesOK, ImageBacked, Live
      <4> QED BY <4>1, <4>2
    <3> QED BY <1>2, <1>7, <3>1, <3>2
  <2>4. (todo # <<>> /\ Head(todo).op = "insert" => image_ok(Head(todo).res))'
    BY <1>4 DEF Untold, Telling
  <2> QED BY <2>2, <2>3, <2>4 DEF ImagesOK
<1>12. CacheTypes'
  <2>1. totals' \in [Token -> Nat]
    BY <1>2, <1>3, <1>5 DEF add_total
  <2>2. images' \in [Image -> Nat]
    <3>1. CASE r \in Memory /\ i # None
      <4>1. i \in Image
        BY <3>1, ConstantsOK DEF i
      <4>2. images' = [images EXCEPT ![i] = @ + 1] /\ images[i] + 1 \in Nat
        BY <1>2, <1>3, <3>1, <4>1
      <4> QED BY <1>2, <4>1, <4>2
    <3>2. CASE ~(r \in Memory /\ i # None)
      BY <1>2, <1>3, <3>2
    <3> QED BY <3>1, <3>2
  <2> QED BY <2>1, <2>2 DEF CacheTypes
<1> QED BY <1>8, <1>9, <1>10, <1>11, <1>12 DEF Caches

\* What a row has given up is taken from the totals of its holders.
LEMMA ToldLess ==
    ASSUME Inv, Inv', Budget, Budget', Caches, up, todo # <<>>,
           Head(todo).op \in {"shrunk", "undone"},
           UNCHANGED <<reg, held, images, up, builds>>, Untold', Stays, Comes,
           NEW n \in Nat, NEW T,
           \A t \in Token : Extra(t) = IF t \in T THEN n ELSE 0,
           sub_total(T, n) \/ (T = {} /\ UNCHANGED totals)
    PROVE  Caches'
<1>0. totals \in [Token -> Nat]
  BY DEF Caches, CacheTypes
<1>1. TokensOK'
  <2>1. HeadTokens'
    BY DEF HeadTokens, Untold, Telling
  <2> QED BY <2>1, TokensRest DEF Caches
<1>2. IndexOK'
  BY IndexRest DEF Caches
<1>3. \A t \in Token : /\ totals[t] = AdoptTotals(reg)[t] + (IF t \in T THEN n ELSE 0)
                       /\ AdoptTotals(reg)[t] \in Nat
  BY BothFit, SharesType DEF Caches, TotalsOK
<1>4. \A t \in Token : totals'[t] = AdoptTotals(reg)[t]
  <2>1. CASE T = {} /\ UNCHANGED totals
    BY <1>3, <2>1
  <2>2. CASE sub_total(T, n)
    <3> TAKE t \in Token
    <3>1. /\ t \notin T => totals'[t] = totals[t]
          /\ t \in T /\ totals[t] >= n => totals'[t] = totals[t] - n
      BY <1>0, <2>2, SubTotal
    <3> QED BY <1>3, <3>1
  <2> QED BY <2>1, <2>2
<1>5. TotalsOK'
  <2>1. \A t \in Token : Extra(t)' = 0
    BY DEF Extra, Untold, Telling
  <2>2. \A t \in Token : totals'[t] = AdoptTotals(reg)[t] + 0
    BY <1>3, <1>4
  <2> QED BY <2>1, <2>2 DEF TotalsOK
<1>6. ImagesOK'
  BY ImagesSteady DEF Caches, Untold, Telling
<1>7. CacheTypes'
  <2>1. totals' \in [Token -> Nat]
    BY <1>0, SubTotal
  <2> QED BY <2>1 DEF Caches, CacheTypes
<1> QED BY <1>1, <1>2, <1>5, <1>6, <1>7 DEF Caches

\* A heap that was measured, and a growth that was undone.
LEMMA MeasuredCaches ==
    ASSUME Inv, Inv', Budget, Budget', Caches, HeapShrunk \/ HeapGrown \/ Undone
    PROVE  Caches'
<1> DEFINE f == Head(todo)
           r == f.res
<1>0. reg \in [Res -> Row \cup {None}] /\ totals \in [Token -> Nat]
  BY DEF Inv, StateOK, Caches, CacheTypes
<1>1. CASE HeapShrunk
  <2>1. up /\ todo # <<>> /\ f \in Frame /\ f.op = "shrunk"
    BY <1>1, HeadFrame DEF HeapShrunk
  <2>2. f.n \in Nat
    <3>1. f.n \in Int /\ f.n >= 0
      BY <2>1, FrameFields DEF Budget, FramesFit
    <3> QED BY <3>1
  <2>3. Untold' /\ Stays /\ Comes
    BY <1>1, <2>1, Onto DEF HeapShrunk
  <2> DEFINE T == reg[r].holders
             n == f.n
  <2>4. \A t \in Token : Extra(t) = IF t \in T THEN n ELSE 0
    BY <2>1 DEF Extra
  <2>5. sub_total(T, n) /\ UNCHANGED <<reg, held, images, up, builds>> /\ n \in Nat
    BY <1>1, <2>2 DEF HeapShrunk, callers
  <2> HIDE DEF T, n
  <2> QED BY <2>1, <2>3, <2>4, <2>5, ToldLess
<1>2. CASE Undone
  <2>1. up /\ todo # <<>> /\ f \in Frame /\ f.op = "undone"
    BY <1>2, HeadFrame DEF Undone
  <2>2. f.d \in Int
    BY <2>1, FrameFields
  <2>3. Untold' /\ Stays /\ Comes
    <3> DEFINE g == [op |-> "next", res |-> r]
    <3>1. g.op = "next" /\ Then(<<g>>)
      BY <1>2 DEF Undone, Do
    <3> HIDE DEF g
    <3>2. todo' # <<>> /\ Head(todo') = g /\ Stays /\ Comes
      BY <2>1, <3>1, Onto
    <3> QED BY <3>1, <3>2 DEF Untold, Telling
  <2> DEFINE T == IF f.d >= 0 THEN reg[r].holders ELSE {}
             n == IF f.d >= 0 THEN f.d ELSE 0
  <2>4. \A t \in Token : Extra(t) = IF t \in T THEN n ELSE 0
    BY <2>1 DEF Extra
  <2>5. sub_total(T, n) \/ (T = {} /\ UNCHANGED totals)
    BY <1>2 DEF Undone
  <2>6. UNCHANGED <<reg, held, images, up, builds>> /\ n \in Nat
    BY <1>2, <2>2 DEF Undone, callers
  <2> HIDE DEF T, n
  <2> QED BY <2>1, <2>3, <2>4, <2>5, <2>6, ToldLess
<1>3. CASE HeapGrown
  <2> DEFINE w == f.n
             v == [reg[r] EXCEPT !.pages = w]
             n == w - reg[r].pages
  <2>1. up /\ todo # <<>> /\ f \in Frame /\ f.op = "grown"
    BY <1>3, HeadFrame DEF HeapGrown
  <2>2. r \in Heap /\ r \in Res /\ r \notin Image /\ reg[r] # None /\ reg[r] \in Row
        /\ w >= reg[r].pages /\ w \in Nat
    BY <1>0, <2>1, FrameFields, RowSets DEF Budget, FramesFit
  <2>3. reg[r].pages \in Nat
    BY <2>2 DEF Row
  <2>4. n \in Nat /\ w = reg[r].pages + n
    BY <2>2, <2>3
  <2>5. /\ reg' = [reg EXCEPT ![r] = v] /\ add_total(reg[r].holders, n)
        /\ UNCHANGED <<held, images, up, builds>>
    BY <1>3 DEF HeapGrown, callers
  <2>6. Untold' /\ Stays /\ Comes
    BY <1>3, <2>1, Onto DEF HeapGrown
  <2>7. v.holders = reg[r].holders /\ v.pages = w /\ v.state = reg[r].state /\ v # None
    <3>1. v \in Row
      BY <2>2, RowFields
    <3> QED BY <2>2, <3>1, RowSets DEF Row
  <2> HIDE DEF v, n, w, r
  <2>8. reg'[r] = v /\ \A y \in Res \ {r} : reg'[y] = reg[y]
    BY <2>2, <2>5, RowSet DEF Inv
  <2>9. TokensOK'
    <3>1. HeadTokens'
      BY <2>6 DEF HeadTokens, Untold, Telling
    <3> QED BY <2>2, <2>5, <2>6, <2>7, <2>8, <3>1, TokensRest DEF Caches
  <2>10. IndexOK'
    <3>1. AdoptHeld(reg') = AdoptHeld(reg)
      BY <2>2, <2>7, <2>8 DEF AdoptHeld
    <3> QED BY <2>1, <2>5, <2>6, <3>1, IndexRest DEF Caches
  <2>11. TotalsOK'
    <3>1. \A y \in Token : Extra(y) = 0 /\ Extra(y)' = 0
      BY <2>1, <2>6 DEF Extra, Untold, Telling
    <3>2. \A y \in Res \ {r} : \A x \in Token :
             Share(reg', y, x) = Share(reg, y, x) /\
             (y \in HeldBy(reg', x) <=> y \in HeldBy(reg, x))
      BY <2>8, SameShare
    <3>3. ASSUME NEW x \in Token
          PROVE  /\ totals[x] \in Int /\ Extra(x) \in Int /\ Extra(x)' \in Int
                 /\ totals'[x] = totals[x] - Share(reg, r, x) - Extra(x) + Share(reg', r, x) + Extra(x)'
      <4>1. totals[x] \in Nat
            /\ totals'[x] = IF x \in reg[r].holders THEN totals[x] + n ELSE totals[x]
        BY <1>0, <2>5 DEF add_total
      <4>2. x \in reg[r].holders => Share(reg, r, x) = reg[r].pages /\ Share(reg', r, x) = w
        BY <2>2, <2>7, <2>8 DEF Share, counted
      <4>3. x \notin reg[r].holders => Share(reg, r, x) = 0 /\ Share(reg', r, x) = 0
        BY <2>2, <2>7, <2>8 DEF Share
      <4> QED BY <2>3, <2>4, <3>1, <4>1, <4>2, <4>3
    <3> QED BY <2>1, <2>2, <2>5, <3>2, <3>3, TotalsFollow DEF Caches
  <2>12. ImagesOK'
    BY <2>1, <2>2, <2>5, <2>6, <2>7, <2>8, ImagesSteady DEF Caches, Untold, Telling
  <2>13. CacheTypes'
    <3>1. totals' \in [Token -> Nat]
      BY <1>0, <2>4, <2>5 DEF add_total
    <3> QED BY <2>5, <3>1 DEF Caches, CacheTypes
  <2> QED BY <2>9, <2>10, <2>11, <2>12, <2>13 DEF Caches
<1> QED BY <1>1, <1>2, <1>3

-----------------------------------------------------------------------------
(* Holders renamed.                                                        *)

\* The rest of the renaming.
LEMMA RetagsOn ==
    ASSUME Inv, todo # <<>>, Head(todo).op = "retags", NEW x,
           Then(Each("retags", Head(todo).set \ {x}))
    PROVE  Untold' /\ Stays /\ Comes
<1> DEFINE S == Head(todo).set \ {x}
           b == [op |-> "retags", set |-> S]
<1>1. CASE S = {}
  BY <1>1, Onto DEF Each
<1>2. CASE S # {}
  <2>1. Then(<<b>>) /\ b.op = "retags" /\ b.set \subseteq Head(todo).set
    BY <1>2 DEF Each
  <2> HIDE DEF b
  <2>2. <<b>> \in Seq({b}) /\ <<b>> # <<>> /\ <<b>>[1] = b /\ Len(<<b>>) = 1
    OBVIOUS
  <2>3. todo' # <<>> /\ Head(todo') = b /\ Stays
    BY <2>1, <2>2, Below
  <2> DEFINE G == Frame \cup {b}
  <2>g. todo \in Seq(Frame) /\ b \in G /\ Frame \subseteq G
    BY DEF Inv, StateOK
  <2> HIDE DEF G
  <2>4. todo \in Seq(G) /\ <<b>> \in Seq(G) /\ todo' = <<b>> \o Tail(todo)
    <3>1. todo \in Seq(G)
      BY <2>g
    <3>2. <<b>> \in Seq(G)
      BY <2>g
    <3>3. todo' = <<b>> \o Tail(todo)
      BY <2>1 DEF Then
    <3> QED BY <3>1, <3>2, <3>3
  <2>5. /\ Len(todo) \in Nat \ {0} /\ Len(todo') = Len(todo) /\ todo'[1] = b
        /\ \A j \in 2 .. Len(todo) : todo'[j] = todo[j]
    <3> HIDE DEF S
    <3>1. /\ Len(todo') = 1 + Len(todo) - 1 /\ \A i \in 1 .. 1 : todo'[i] = b
          /\ \A j \in 1 + 1 .. 1 + Len(todo) - 1 : todo'[j] = todo[j - 1 + 1]
      BY <2>2, <2>4, Replaced
    <3>2. Len(todo) \in Nat \ {0} /\ \A j \in 2 .. Len(todo) : j - 1 + 1 = j
      BY <2>4
    <3> QED BY <3>1, <3>2
  <2>6. Comes
    <3>1. 1 \in 1 .. Len(todo) /\ todo[1] = Head(todo)
      BY <2>4, <2>5
    <3>2. ASSUME NEW j \in 1 .. Len(todo'), todo'[j].op = "retags"
          PROVE  \E i \in 1 .. Len(todo) : /\ todo[i].op = "retags"
                                           /\ todo'[j].set \subseteq todo[i].set
      <4>1. CASE j = 1
        BY <2>1, <2>5, <3>1, <4>1
      <4>2. CASE j # 1
        <5>1. j \in 2 .. Len(todo) /\ j \in 1 .. Len(todo)
          BY <2>5, <4>2
        <5> QED BY <2>5, <3>2, <5>1
      <4> QED BY <4>1, <4>2
    <3> QED BY <3>2 DEF Comes
  <2> QED BY <2>1, <2>3, <2>6 DEF Untold, Telling
<1> QED BY <1>1, <1>2

\* A build's holder becomes its instance's.
LEMMA RetagCaches ==
    ASSUME Inv, Inv', Budget, Budget', Caches, Retag
    PROVE  Caches'
<1> DEFINE f == Head(todo)
<1>0. reg \in [Res -> Row \cup {None}] /\ totals \in [Token -> Nat]
  BY DEF Inv, StateOK, Caches, CacheTypes
<1>1. up /\ todo # <<>> /\ f \in Frame /\ f.op = "retags" /\ f.set \subseteq Res \X Builds
      /\ UNCHANGED <<images, up, builds>>
  BY HeadFrame, FrameFields DEF Retag, callers
<1>2. PICK x \in f.set :
        LET r == x[1]  from == x[2]  to == InstanceOf[x[2]]
            n == counted(r, reg[r]) IN
        /\ IF reg[r] # None /\ from \in reg[r].holders
           THEN /\ reg' = [reg EXCEPT ![r].holders = (@ \ {from}) \cup {to}]
                /\ totals' = [totals EXCEPT
                                ![from] = IF @ > n THEN @ - n ELSE 0,
                                ![to] = @ + n]
                /\ held' = (held \ {x}) \cup
                           (IF OwnerOf[to] = None THEN {} ELSE {<<r, to>>})
           ELSE UNCHANGED <<reg, totals, held>>
        /\ Then(Each("retags", f.set \ {x}))
  BY DEF Retag
<1> DEFINE r == x[1]
           from == x[2]
           to == InstanceOf[from]
           n == counted(r, reg[r])
<1>3. /\ r \in Res /\ from \in Builds /\ x = <<r, from>> /\ from \in Token
      /\ to \in Token /\ to \notin Builds /\ from # to
  BY <1>1, <1>2, ConstantsOK
<1>4. Untold' /\ Stays /\ Comes
  BY <1>1, <1>2, RetagsOn
<1>5. CASE UNCHANGED <<reg, totals, held>>
  <2>1. Untold
    BY <1>1 DEF Untold, Telling
  <2> QED BY <1>1, <1>4, <1>5, <2>1, AllAlike, SilentCaches DEF Silent
<1>6. CASE reg[r] # None /\ from \in reg[r].holders /\ ~UNCHANGED <<reg, totals, held>>
  <2> DEFINE H == reg[r].holders
             w == [reg[r] EXCEPT !.holders = (H \ {from}) \cup {to}]
  <2>1. /\ reg' = [reg EXCEPT ![r] = w]
        /\ totals' = [totals EXCEPT ![from] = IF @ > n THEN @ - n ELSE 0, ![to] = @ + n]
        /\ held' = (held \ {x}) \cup (IF OwnerOf[to] = None THEN {} ELSE {<<r, to>>})
    BY <1>2, <1>6
  <2>2. reg[r] \in Row /\ RowTokens(r) /\ H \subseteq Token
    <3>1. reg[r] \in Row
      BY <1>0, <1>3, <1>6
    <3> QED BY <1>3, <1>6, <3>1 DEF Caches, TokensOK, Row
  <2>3. /\ w.holders = (H \ {from}) \cup {to} /\ w.pages = reg[r].pages
        /\ w.state = reg[r].state /\ w # None /\ reg[r].pages \in Nat
    <3>1. (H \ {from}) \cup {to} \in SUBSET Token
      BY <1>3, <2>2
    <3>2. w \in Row
      BY <2>2, <3>1, RowFields
    <3> QED BY <2>2, <3>2, RowSets DEF Row
  <2>4. r \notin Image /\ to \notin H /\ w.state # "retiring"
    BY <1>3, <1>6, <2>2, <2>3, ConstantsOK DEF RowTokens
  <2>5. from \notin builds
    <3>1. todo \in Seq(Frame)
      BY DEF Inv, StateOK
    <3>2. 1 \in 1 .. Len(todo) /\ todo[1] = f
      BY <1>1, <3>1
    <3> QED BY <1>1, <1>2, <3>2 DEF Caches, TokensOK, RetagsOver
  <2>6. n = reg[r].pages
    BY <2>4 DEF counted
  <2> HIDE DEF w, H, n
  <2>7. reg'[r] = w /\ \A y \in Res \ {r} : reg'[y] = reg[y]
    BY <1>3, <2>1, RowSet DEF Inv
  <2>8. TokensOK'
    <3>1. ASSUME NEW y \in Res, reg'[y] # None PROVE RowTokens(y)'
      <4>1. CASE y # r
        BY <1>1, <2>7, <3>1, <4>1 DEF Caches, TokensOK, RowTokens
      <4>2. CASE y = r
        <5>1. \A b \in Builds : InstanceOf[b] \in w.holders => b \notin w.holders \cup builds
          <6> SUFFICES ASSUME NEW b \in Builds, InstanceOf[b] \in w.holders
                       PROVE  b \notin w.holders \cup builds
            OBVIOUS
          <6>1. CASE InstanceOf[b] = to
            <7>1. b = from
              BY <1>3, <6>1, FreshInstances
            <7> QED BY <1>3, <2>3, <2>5, <7>1
          <6>2. CASE InstanceOf[b] \in H
            <7>1. b \notin H \cup builds
              BY <2>2, <2>4, <6>2 DEF RowTokens, H
            <7> QED BY <1>3, <2>3, <7>1
          <6> QED BY <2>3, <6>1, <6>2
        <5> QED BY <1>1, <2>4, <2>7, <4>2, <5>1 DEF RowTokens
      <4> QED BY <4>1, <4>2
    <3>2. HeadTokens'
      BY <1>4 DEF HeadTokens, Untold, Telling
    <3>3. RetagsOver'
      BY <1>1, <1>4, ComesOver DEF Caches
    <3> QED BY <3>1, <3>2, <3>3 DEF TokensOK
  <2>9. IndexOK'
    <3>1. held \subseteq AdoptHeld(reg) /\ \A y \in AdoptHeld(reg) \ held : Leaving(y)
      BY <1>1 DEF Caches, IndexOK
    <3>2. \A y \in AdoptHeld(reg) : Leaving(y) => Leaving(y)'
      BY <1>1, <1>4, LeavingStays
    <3>3. \A y \in Res \X Token : y \in AdoptHeld(reg') <=>
              (y \in AdoptHeld(reg) /\ y # x) \/ (OwnerOf[to] # None /\ y = <<r, to>>)
      <4> TAKE y \in Res \X Token
      <4>1. CASE y[1] # r
        BY <1>3, <2>7, <4>1 DEF AdoptHeld
      <4>2. CASE y[1] = r
        <5>1. y = <<r, y[2]>>
          BY <4>2
        <5>2. y \in AdoptHeld(reg') <=> y[2] \in w.holders /\ OwnerOf[y[2]] # None
          BY <2>3, <2>7, <4>2 DEF AdoptHeld
        <5>3. y \in AdoptHeld(reg) <=> y[2] \in H /\ OwnerOf[y[2]] # None
          BY <1>6, <4>2 DEF AdoptHeld, H
        <5>4. y = x <=> y[2] = from
          BY <1>3, <5>1
        <5>5. y = <<r, to>> <=> y[2] = to
          BY <5>1
        <5> QED BY <2>3, <5>2, <5>3, <5>4, <5>5, <1>3
      <4> QED BY <4>1, <4>2
    <3>4. AdoptHeld(reg) \subseteq Res \X Token /\ AdoptHeld(reg') \subseteq Res \X Token
          /\ <<r, to>> \in Res \X Token
      BY <1>3 DEF AdoptHeld
    <3> QED BY <2>1, <3>1, <3>2, <3>3, <3>4 DEF IndexOK
  <2>10. n \in Nat /\ totals[from] >= n
    <3>1. totals[from] = AdoptTotals(reg)[from] + 0
      BY <1>1, <1>3 DEF Caches, TotalsOK, Extra
    <3>2. Share(reg, r, from) = n
      BY <1>6 DEF Share, n
    <3>3. n <= AdoptTotals(reg)[from] /\ AdoptTotals(reg)[from] \in Nat
      BY <1>3, <3>2, BothFit, ShareBound, SharesType
    <3> QED BY <2>3, <2>6, <3>1, <3>3
  <2>11. \A y \in Token : totals'[y] = IF y = from THEN totals[from] - n
                                       ELSE IF y = to THEN totals[to] + n ELSE totals[y]
    <3>1. totals[from] \in Nat /\ totals[to] \in Nat
      BY <1>0, <1>3
    <3>2. (IF totals[from] > n THEN totals[from] - n ELSE 0) = totals[from] - n
      BY <2>10, <3>1
    <3> QED BY <1>0, <1>3, <2>1, <3>2
  <2>12. TotalsOK'
    <3>1. \A y \in Token : Extra(y) = 0 /\ Extra(y)' = 0
      BY <1>1, <1>4 DEF Extra, Untold, Telling
    <3>2. \A y \in Res \ {r} : \A z \in Token :
             Share(reg', y, z) = Share(reg, y, z) /\
             (y \in HeldBy(reg', z) <=> y \in HeldBy(reg, z))
      BY <2>7, SameShare
    <3>3. ASSUME NEW z \in Token
          PROVE  /\ totals[z] \in Int /\ Extra(z) \in Int /\ Extra(z)' \in Int
                 /\ totals'[z] = totals[z] - Share(reg, r, z) - Extra(z) + Share(reg', r, z) + Extra(z)'
      <4>1. totals[z] \in Nat
        BY <1>0
      <4>2. counted(r, w) = n
        BY <2>3, <2>4, <2>6 DEF counted
      <4>3. Share(reg, r, z) = IF z \in H THEN n ELSE 0
        BY <1>6 DEF Share, n, H
      <4>4. Share(reg', r, z) = IF z \in w.holders THEN n ELSE 0
        BY <2>3, <2>7, <4>2 DEF Share
      <4>5. CASE z = from
        BY <1>3, <1>6, <2>3, <2>10, <2>11, <3>1, <4>1, <4>3, <4>4, <4>5 DEF H
      <4>6. CASE z = to
        BY <1>3, <2>3, <2>4, <2>10, <2>11, <3>1, <4>1, <4>3, <4>4, <4>6
      <4>7. CASE z # from /\ z # to
        BY <2>3, <2>10, <2>11, <3>1, <4>1, <4>3, <4>4, <4>7
      <4> QED BY <4>5, <4>6, <4>7
    <3> QED BY <1>1, <1>3, <3>2, <3>3, TotalsFollow DEF Caches
  <2>13. ImagesOK'
    BY <1>1, <1>4, <1>6, <2>3, <2>7, ImagesSteady DEF Caches, Untold, Telling
  <2>14. CacheTypes'
    <3>1. DOMAIN totals' = Token /\ totals' = [y \in Token |-> totals'[y]]
      BY <1>0, <2>1
    <3>2. \A y \in Token : totals'[y] \in Nat
      <4> TAKE y \in Token
      <4>1. totals[y] \in Nat /\ totals[from] \in Nat /\ totals[to] \in Nat
        BY <1>0, <1>3
      <4> QED BY <2>10, <2>11, <4>1
    <3>3. totals' \in [Token -> Nat]
      BY <3>1, <3>2
    <3> QED BY <1>1, <3>3 DEF Caches, CacheTypes
  <2> QED BY <2>8, <2>9, <2>12, <2>13, <2>14 DEF Caches
<1> QED BY <1>2, <1>5, <1>6

-----------------------------------------------------------------------------
(* Holders dropped.                                                        *)

\* The rest of the dropping.
LEMMA DropsOn ==
    ASSUME Inv, todo # <<>>, Head(todo).op = "drops", NEW x, NEW s, NEW g, g.op # "retags",
           s = <<>> \/ s = <<g>>, Then(s \o Each("drops", Head(todo).set \ {x}))
    PROVE  /\ s = <<>> => Untold'
           /\ s = <<g>> => todo' # <<>> /\ Head(todo') = g
           /\ \A y : y # x /\ (\E i \in 1 .. Len(todo) : todo[i].op = "drops" /\ y \in todo[i].set)
                => \E i \in 1 .. Len(todo') : todo'[i].op = "drops" /\ y \in todo'[i].set
           /\ Comes
<1> DEFINE S == Head(todo).set \ {x}
           b == [op |-> "drops", set |-> S]
           e == Each("drops", S)
           n == Len(s \o e)
           F == {g, b}
           G == Frame \cup F
<1>1. /\ b.op = "drops" /\ b.set = S /\ e = (IF S = {} THEN <<>> ELSE <<b>>)
      /\ todo' = (s \o e) \o Tail(todo)
  BY DEF Each, Then
<1>2. todo \in Seq(Frame) /\ g \in F /\ b \in F /\ F \subseteq G /\ Frame \subseteq G
  BY DEF Inv, StateOK
<1>s. s = <<>> \/ s = <<g>>
  OBVIOUS
<1>t. Then(s \o e)
  OBVIOUS
<1> HIDE DEF b, F, G, e
<1>3. s \o e \in Seq(F) /\ s \in Seq(F) /\ e \in Seq(F)
  <2>1. <<>> \in Seq(F) /\ <<g>> \in Seq(F) /\ <<b>> \in Seq(F)
    BY <1>2
  <2>2. s \in Seq(F) /\ e \in Seq(F)
    BY <1>1, <1>s, <2>1
  <2> QED BY <2>2
<1>4. /\ S # {} => \E i \in 1 .. n : (s \o e)[i] = b
      /\ \A i \in 1 .. n : (s \o e)[i] \in F
      /\ s = <<g>> => s \o e # <<>> /\ (s \o e)[1] = g
      /\ s = <<>> => s \o e = e
  <2>1. CASE s = <<>> /\ S = {}
    <3>1. s \o e = <<>>
      BY <1>1, <2>1
    <3> QED BY <1>1, <2>1, <3>1
  <2>2. CASE s = <<>> /\ S # {}
    <3>1. s \o e = <<b>>
      BY <1>1, <2>2
    <3>2. Len(<<b>>) = 1 /\ <<b>>[1] = b /\ <<b>> # <<>>
      OBVIOUS
    <3> QED BY <1>1, <1>2, <2>2, <3>1, <3>2
  <2>3. CASE s = <<g>> /\ S = {}
    <3>1. s \o e = <<g>>
      BY <1>1, <2>3
    <3>2. Len(<<g>>) = 1 /\ <<g>>[1] = g /\ <<g>> # <<>>
      OBVIOUS
    <3> QED BY <1>1, <1>2, <2>3, <3>1, <3>2
  <2>4. CASE s = <<g>> /\ S # {}
    <3>1. <<b>> \in Seq(F) /\ Len(<<b>>) = 1 /\ <<b>>[1] = b /\ s \o e = <<g>> \o <<b>>
      BY <1>1, <1>2, <2>4
    <3> DEFINE u == <<g>> \o <<b>>
               v == <<b>>
    <3>2. u # <<>> /\ Len(u) = 1 + Len(v) /\ u[1] = g /\ \A i \in 2 .. 1 + Len(v) : u[i] = v[i - 1]
      BY <1>2, <3>1, Prepended
    <3>3. Len(u) = 2 /\ u[2] = b
      BY <3>1, <3>2
    <3>4. n = 2 /\ (s \o e)[1] = g /\ (s \o e)[2] = b /\ s \o e # <<>>
      BY <3>1, <3>2, <3>3
    <3>5. \A i \in 1 .. n : i = 1 \/ i = 2
      BY <3>4
    <3>6. 2 \in 1 .. n
      BY <3>4
    <3> QED BY <1>2, <2>4, <3>4, <3>5, <3>6
  <2> QED BY <1>s, <2>1, <2>2, <2>3, <2>4
<1>5. /\ s \o e # <<>> => todo' # <<>> /\ Head(todo') = (s \o e)[1]
      /\ s \o e = <<>> => Untold'
      /\ Comes
  <2>1. \A y \in F : y.op # "retags"
    BY <1>1 DEF F
  <2>2. \A i \in 1 .. Len(s \o e) : (s \o e)[i].op # "retags"
    BY <1>4, <2>1
  <2> QED BY <1>3, <1>t, <2>2, Below
<1>6. ASSUME s = <<>> PROVE Untold'
  <2>1. CASE S = {}
    BY <1>1, <1>4, <1>5, <1>6, <2>1
  <2>2. CASE S # {}
    <3>1. s \o e = <<b>> /\ <<b>> # <<>> /\ <<b>>[1] = b
      BY <1>1, <1>4, <1>6, <2>2
    <3> QED BY <1>1, <1>5, <3>1 DEF Untold, Telling
  <2> QED BY <2>1, <2>2
<1>7. ASSUME NEW y, y # x, NEW i \in 1 .. Len(todo), todo[i].op = "drops", y \in todo[i].set
      PROVE  \E j \in 1 .. Len(todo') : todo'[j].op = "drops" /\ y \in todo'[j].set
  <2>1. todo \in Seq(G) /\ s \o e \in Seq(G)
    <3>1. todo \in Seq(G)
      BY <1>2
    <3>2. s \o e \in Seq(G)
      BY <1>2, <1>3
    <3> QED BY <3>1, <3>2
  <2>2. /\ Len(todo') = n + Len(todo) - 1 /\ n \in Nat /\ Len(todo) \in Nat
        /\ \A j \in 1 .. n : todo'[j] = (s \o e)[j]
        /\ \A j \in n + 1 .. n + Len(todo) - 1 : todo'[j] = todo[j - n + 1]
    <3> DEFINE u == s \o e
    <3>1. u \in Seq(G) /\ todo \in Seq(G) /\ todo # <<>> /\ todo' = u \o Tail(todo)
      BY <1>1, <2>1
    <3> HIDE DEF u
    <3>2. /\ Len(todo') = Len(u) + Len(todo) - 1
          /\ \A j \in 1 .. Len(u) : todo'[j] = u[j]
          /\ \A j \in Len(u) + 1 .. Len(u) + Len(todo) - 1 : todo'[j] = todo[j - Len(u) + 1]
      BY <3>1, Replaced
    <3>3. Len(u) \in Nat /\ Len(todo) \in Nat
      BY <3>1
    <3> QED BY <3>2, <3>3 DEF u
  <2>3. CASE i = 1
    <3>1. todo[1] = Head(todo)
      BY <2>1
    <3>2. y \in S
      BY <1>7, <2>3, <3>1
    <3>3. PICK j \in 1 .. n : (s \o e)[j] = b
      BY <1>4, <3>2
    <3>4. j \in 1 .. Len(todo')
      <4>1. Len(todo) >= 1
        BY <2>2, <2>3
      <4> QED BY <2>2, <4>1
    <3>5. todo'[j] = b
      BY <2>2, <3>3
    <3>6. b.op = "drops" /\ y \in b.set
      BY <1>1, <3>2
    <3> QED BY <3>4, <3>5, <3>6
  <2>4. CASE i # 1
    <3> DEFINE j == n + i - 1
    <3>1. j \in n + 1 .. n + Len(todo) - 1 /\ j - n + 1 = i /\ j \in 1 .. Len(todo')
      BY <2>2, <2>4
    <3>2. todo'[j] = todo[i]
      BY <2>2, <3>1
    <3> HIDE DEF j
    <3> QED BY <1>7, <3>1, <3>2
  <2> QED BY <2>3, <2>4
<1> QED BY <1>4, <1>5, <1>6, <1>7

\* A holder leaves the totals and the index.
LEMMA DropCaches ==
    ASSUME Inv, Inv', Budget, Budget', Caches, Drop
    PROVE  Caches'
<1> DEFINE f == Head(todo)
<1>0. reg \in [Res -> Row \cup {None}] /\ totals \in [Token -> Nat]
  BY DEF Inv, StateOK, Caches, CacheTypes
<1>1. up /\ todo # <<>> /\ f \in Frame /\ f.op = "drops" /\ f.set \subseteq Res \X Token
      /\ UNCHANGED <<reg, images, up, builds>>
  BY HeadFrame, FrameFields DEF Drop, callers
<1>2. PICK x \in f.set :
        IF reg[x[1]] # None /\ x[2] \in reg[x[1]].holders
        THEN /\ sub_total({x[2]}, counted(x[1], reg[x[1]]))
             /\ held' = held \ {x}
             /\ Then(DoFor("unhold", x[1], x[2]) \o Each("drops", f.set \ {x}))
        ELSE /\ Then(Each("drops", f.set \ {x}))
             /\ UNCHANGED <<totals, held>>
  BY DEF Drop
<1> DEFINE r == x[1]
           t == x[2]
           n == counted(r, reg[r])
           g == [op |-> "unhold", res |-> r, tok |-> t]
<1>3. r \in Res /\ t \in Token /\ x = <<r, t>>
  BY <1>1, <1>2
<1>4. g.op = "unhold" /\ g.res = r /\ g.tok = t
  OBVIOUS
<1>5. CASE ~(reg[r] # None /\ t \in reg[r].holders)
  <2>1. Then(<<>> \o Each("drops", f.set \ {x})) /\ UNCHANGED <<totals, held>>
    <3>1. Each("drops", f.set \ {x}) = <<>> \o Each("drops", f.set \ {x})
      BY DEF Each
    <3> QED BY <1>2, <1>5, <3>1
  <2>2. /\ Untold' /\ Comes
        /\ \A y : y # x /\ (\E i \in 1 .. Len(todo) : todo[i].op = "drops" /\ y \in todo[i].set)
                => \E i \in 1 .. Len(todo') : todo'[i].op = "drops" /\ y \in todo'[i].set
    <3> HIDE DEF g
    <3> QED BY <1>1, <1>4, <2>1, DropsOn
  <2>3. x \notin AdoptHeld(reg)
    BY <1>5 DEF AdoptHeld
  <2>4. Stays
    BY <2>2, <2>3 DEF Stays
  <2>5. Untold
    BY <1>1 DEF Untold, Telling
  <2> QED BY <1>1, <2>1, <2>2, <2>4, <2>5, AllAlike, SilentCaches DEF Silent
<1>6. CASE reg[r] # None /\ t \in reg[r].holders
  <2>1. /\ sub_total({t}, n) /\ held' = held \ {x}
        /\ Then(<<g>> \o Each("drops", f.set \ {x}))
    BY <1>2, <1>6 DEF DoFor
  <2> HIDE DEF g
  <2>2. /\ todo' # <<>> /\ Head(todo') = g /\ Comes
        /\ \A y : y # x /\ (\E i \in 1 .. Len(todo) : todo[i].op = "drops" /\ y \in todo[i].set)
                => \E i \in 1 .. Len(todo') : todo'[i].op = "drops" /\ y \in todo'[i].set
    <3>1. <<g>> # <<>>
      OBVIOUS
    <3> QED BY <1>1, <1>4, <2>1, <3>1, DropsOn
  <2>3. n \in Nat /\ totals[t] = AdoptTotals(reg)[t] + 0 /\ n <= AdoptTotals(reg)[t]
        /\ AdoptTotals(reg)[t] \in Nat
    <3>1. totals[t] = AdoptTotals(reg)[t] + 0
      BY <1>1, <1>3 DEF Caches, TotalsOK, Extra
    <3>2. Share(reg, r, t) = n
      BY <1>6 DEF Share
    <3> HIDE DEF n
    <3> QED BY <1>3, <3>1, <3>2, BothFit, ShareBound, SharesType
  <2>4. /\ totals' \in [Token -> Nat] /\ totals'[t] = totals[t] - n
        /\ \A y \in Token : y # t => totals'[y] = totals[y]
    <3> HIDE DEF n
    <3>1. totals[t] >= n
      BY <2>3
    <3> QED BY <1>0, <1>3, <2>1, <2>3, <3>1, SubTotal
  <2>5. TokensOK'
    <3>1. HeadTokens'
      BY <1>1, <1>3, <1>4, <1>6, <2>1, <2>2 DEF HeadTokens
    <3> QED BY <1>1, <2>2, <3>1, TokensRest DEF Caches
  <2>6. IndexOK'
    <3>1. held \subseteq AdoptHeld(reg) /\ \A y \in AdoptHeld(reg) \ held : Leaving(y)
      BY <1>1 DEF Caches, IndexOK
    <3>2. Leaving(x)'
      BY <1>3, <1>4, <2>2 DEF Leaving
    <3>3. ASSUME NEW y \in AdoptHeld(reg) \ held, y # x PROVE Leaving(y)'
      <4>1. \E i \in 1 .. Len(todo) : todo[i].op = "drops" /\ y \in todo[i].set
        BY <1>1, <3>1, <3>3 DEF Leaving
      <4> QED BY <2>2, <3>3, <4>1 DEF Leaving
    <3> QED BY <1>1, <2>1, <3>1, <3>2, <3>3 DEF IndexOK
  <2>7. TotalsOK'
    <3> SUFFICES ASSUME NEW y \in Token PROVE totals'[y] = AdoptTotals(reg')[y] + Extra(y)'
      BY DEF TotalsOK
    <3>1. AdoptTotals(reg') = AdoptTotals(reg)
      BY <1>1
    <3>2. Extra(y)' = IF y = t THEN -n ELSE 0
      BY <1>1, <1>4, <2>2 DEF Extra
    <3>3. totals[y] = AdoptTotals(reg)[y] + 0 /\ AdoptTotals(reg)[y] \in Nat
      <4>1. totals[y] = AdoptTotals(reg)[y] + 0
        BY <1>1 DEF Caches, TotalsOK, Extra
      <4> QED BY <4>1, BothFit, SharesType
    <3> HIDE DEF n
    <3>4. CASE y = t
      BY <2>3, <2>4, <3>1, <3>2, <3>3, <3>4
    <3>5. CASE y # t
      BY <2>4, <3>1, <3>2, <3>3, <3>5
    <3> QED BY <3>4, <3>5
  <2>8. ImagesOK'
    BY <1>1, <1>4, <2>2, ImagesSteady DEF Caches
  <2>9. CacheTypes'
    BY <1>1, <2>4 DEF Caches, CacheTypes
  <2> QED BY <2>5, <2>6, <2>7, <2>8, <2>9 DEF Caches
<1> QED BY <1>5, <1>6

-----------------------------------------------------------------------------
(* Rows reclaimed.                                                         *)

\* An image that no memory is over can go.
LEMMA BackedStill ==
    ASSUME ImageBacked, NEW r \in Res, \A y \in Res \ {r} : reg'[y] = reg[y],
           reg[r] # None, reg'[r] # None,
           reg'[r].state = reg[r].state \/ r \notin Image \/ Above(r) = {}
    PROVE  ImageBacked' /\ \A i \in Image : Above(i)' = Above(i)
<1>1. \A i \in Image : Above(i)' = Above(i)
  BY RowSets DEF Above
<1>2. ASSUME NEW m \in Memory, reg'[m] # None, ImageOf[m] # None PROVE Live(ImageOf[m])'
  <2>1. ImageOf[m] \in Image /\ ImageOf[m] \in Res /\ m \in Res
    BY <1>2, ConstantsOK, RowSets
  <2>2. reg[m] # None
    BY <1>2, <2>1
  <2>3. Live(ImageOf[m])
    BY <1>2, <2>2 DEF ImageBacked
  <2>4. m \in Above(ImageOf[m])
    BY <2>2 DEF Above
  <2>5. CASE ImageOf[m] # r
    BY <2>1, <2>3, <2>5 DEF Live
  <2>6. CASE ImageOf[m] = r
    BY <2>1, <2>3, <2>4, <2>6 DEF Live
  <2> QED BY <2>5, <2>6
<1> QED BY <1>1, <1>2 DEF ImageBacked

\* The number of memories kept for an image says whether there are any.
LEMMA NoneAbove ==
    ASSUME Budget, ImagesOK, up, images \in [Image -> Nat], NEW i \in Image,
           images[i] = Uncounted(i)
    PROVE  Above(i) = {}
<1>1. images[i] = Cardinality(Above(i)) + Uncounted(i) /\ Uncounted(i) \in Nat
  BY DEF ImagesOK, Uncounted
<1>2. IsFiniteSet(Above(i)) /\ Cardinality(Above(i)) \in Nat
  BY AboveFinite, FS_CardinalityType
<1>3. Cardinality(Above(i)) = 0
  BY <1>1, <1>2
<1> QED BY <1>2, <1>3, FS_EmptySet

\* The last holder is removed.
LEMMA UnholdCaches ==
    ASSUME Inv, Inv', Budget, Budget', Caches, Unhold
    PROVE  Caches'
<1> DEFINE f == Head(todo)
           r == f.res
           t == f.tok
           x == <<r, t>>
           h == reg[r].holders \ {t}
           last == h = {} /\ reclaimable(r)
           w == [reg[r] EXCEPT !.holders = h, !.state = IF last THEN "retiring" ELSE @]
           n == counted(r, reg[r])
<1>0. reg \in [Res -> Row \cup {None}] /\ totals \in [Token -> Nat] /\ images \in [Image -> Nat]
  BY DEF Inv, StateOK, Caches, CacheTypes
<1>1. up /\ todo # <<>> /\ f \in Frame /\ f.op = "unhold"
      /\ UNCHANGED <<held, totals, images, up, builds>>
  BY HeadFrame DEF Unhold, callers, index
<1>2. r \in Res /\ t \in Token /\ reg[r] # None /\ reg[r] \in Row /\ RowTokens(r)
      /\ t \in reg[r].holders /\ x \notin held
  BY <1>0, <1>1, FrameFields DEF Inv, HeadOK, Caches, TokensOK, HeadTokens
<1>3. Untold' /\ Stays /\ Comes
  <2>1. CASE Then(<<>>)
    BY <1>1, <2>1, Onto
  <2>2. CASE Then(Do("forget", r))
    <3> DEFINE g == [op |-> "forget", res |-> r]
    <3>1. g.op = "forget" /\ Then(<<g>>)
      BY <2>2 DEF Do
    <3> HIDE DEF g
    <3>2. todo' # <<>> /\ Head(todo') = g /\ Stays /\ Comes
      BY <1>1, <3>1, Onto
    <3> QED BY <3>1, <3>2 DEF Untold, Telling
  <2> QED BY <2>1, <2>2 DEF Unhold
<1>4. reg' = [reg EXCEPT ![r] = w]
  BY <1>0, <1>2 DEF Unhold
<1>5. /\ w.holders = h /\ w.pages = reg[r].pages /\ w # None
      /\ w.state = (IF last THEN "retiring" ELSE reg[r].state)
  <2>1. h \in SUBSET Token
    BY <1>2 DEF Row
  <2>2. w \in Row
    BY <1>2, <2>1 DEF Row
  <2> QED BY <1>2, <2>2, RowSets DEF Row
<1>6. reg[r].state # "retiring"
  BY <1>2 DEF RowTokens
<1>7. counted(r, w) = n /\ n \in Nat
  <2>1. reg[r].pages \in Nat
    BY <1>2 DEF Row
  <2> QED BY <1>5, <2>1 DEF counted
<1>8. \A y \in Token : Extra(y) = (IF y = t THEN -n ELSE 0) /\ Extra(y)' = 0
  BY <1>1, <1>3 DEF Extra, Untold, Telling
<1>9. last /\ r \in Image => images[r] = Uncounted(r)
  BY <1>1 DEF reclaimable, Uncounted
<1> HIDE DEF w, last, n
<1>10. reg'[r] = w /\ \A y \in Res \ {r} : reg'[y] = reg[y]
  BY <1>2, <1>4, RowSet DEF Inv
<1>11. TokensOK'
  <2>1. ASSUME NEW y \in Res, reg'[y] # None PROVE RowTokens(y)'
    <3>1. CASE y # r
      BY <1>1, <1>10, <2>1, <3>1 DEF Caches, TokensOK, RowTokens
    <3>2. CASE y = r
      <4>1. w.state = "retiring" => h = {}
        BY <1>5, <1>6 DEF last
      <4> QED BY <1>1, <1>2, <1>5, <1>10, <3>2, <4>1 DEF RowTokens
    <3> QED BY <3>1, <3>2
  <2>2. HeadTokens'
    BY <1>3 DEF HeadTokens, Untold, Telling
  <2>3. RetagsOver'
    BY <1>1, <1>3, ComesOver DEF Caches
  <2> QED BY <2>1, <2>2, <2>3 DEF TokensOK
<1>12. IndexOK'
  <2>1. held \subseteq AdoptHeld(reg) /\ \A y \in AdoptHeld(reg) \ held : Leaving(y)
    BY <1>1 DEF Caches, IndexOK
  <2>2. \A y \in AdoptHeld(reg) : Leaving(y) => Leaving(y)' \/ y = x
    BY <1>3, LeavingStays
  <2>3. \A y \in Res \X Token : y \in AdoptHeld(reg') <=> y \in AdoptHeld(reg) /\ y # x
    BY <1>2, <1>5, <1>10 DEF AdoptHeld
  <2>4. AdoptHeld(reg) \subseteq Res \X Token /\ AdoptHeld(reg') \subseteq Res \X Token
    BY DEF AdoptHeld
  <2> HIDE DEF x
  <2> QED BY <1>1, <1>2, <2>1, <2>2, <2>3, <2>4 DEF IndexOK
<1>13. TotalsOK'
  <2>1. \A y \in Res \ {r} : \A z \in Token :
           Share(reg', y, z) = Share(reg, y, z) /\
           (y \in HeldBy(reg', z) <=> y \in HeldBy(reg, z))
    BY <1>10, SameShare
  <2>2. ASSUME NEW z \in Token
        PROVE  /\ totals[z] \in Int /\ Extra(z) \in Int /\ Extra(z)' \in Int
               /\ totals'[z] = totals[z] - Share(reg, r, z) - Extra(z) + Share(reg', r, z) + Extra(z)'
    <3>1. totals[z] \in Nat /\ totals'[z] = totals[z]
      BY <1>0, <1>1
    <3>2. Share(reg, r, z) = IF z \in reg[r].holders THEN n ELSE 0
      BY <1>2 DEF Share, n
    <3>3. Share(reg', r, z) = IF z \in h THEN n ELSE 0
      BY <1>5, <1>7, <1>10 DEF Share
    <3> QED BY <1>2, <1>7, <1>8, <3>1, <3>2, <3>3
  <2> QED BY <1>1, <1>2, <2>1, <2>2, TotalsFollow DEF Caches
<1>14. ImagesOK'
  <2>1. ImageBacked' /\ \A i \in Image : Above(i)' = Above(i)
    <3>1. reg'[r].state = reg[r].state \/ r \notin Image \/ Above(r) = {}
      BY <1>0, <1>1, <1>5, <1>9, <1>10, NoneAbove DEF Caches
    <3> QED BY <1>2, <1>5, <1>10, <3>1, BackedStill DEF Caches, ImagesOK
  <2>2. \A i \in Image : Uncounted(i) = 0 /\ Uncounted(i)' = 0
    BY <1>1, <1>3 DEF Uncounted, Untold, Telling
  <2>3. up' => \A i \in Image : (images[i] = Cardinality(Above(i)) + Uncounted(i))'
    BY <1>1, <2>1, <2>2 DEF Caches, ImagesOK
  <2>4. (todo # <<>> /\ Head(todo).op = "insert" => image_ok(Head(todo).res))'
    BY <1>3 DEF Untold, Telling
  <2> QED BY <2>1, <2>3, <2>4 DEF ImagesOK
<1>15. CacheTypes'
  BY <1>1 DEF Caches, CacheTypes
<1> QED BY <1>11, <1>12, <1>13, <1>14, <1>15 DEF Caches

\* The row goes, and a memory is still counted over its image.
LEMMA DeleteRowCaches ==
    ASSUME Inv, Inv', Budget, Budget', Caches, DeleteRow
    PROVE  Caches'
<1> DEFINE f == Head(todo)
           r == f.res
           g == [op |-> "giveback", res |-> r, n |-> charged(r, reg[r])]
<1>0. reg \in [Res -> Row \cup {None}] /\ totals \in [Token -> Nat] /\ images \in [Image -> Nat]
  BY DEF Inv, StateOK, Caches, CacheTypes
<1>1. up /\ todo # <<>> /\ f \in Frame /\ f.op = "delete"
      /\ UNCHANGED <<held, totals, images, up, builds>>
  BY HeadFrame DEF DeleteRow, callers, index
<1>2. r \in Res /\ reg[r] # None /\ reg[r].state = "retiring" /\ reg[r].holders = {}
  BY <1>0, <1>1, FrameFields DEF Inv, HeadOK, Caches, TokensOK, RowTokens
<1>3. g.op = "giveback" /\ g.res = r /\ Then(<<g>>)
  BY DEF DeleteRow
<1> HIDE DEF g
<1>4. todo' # <<>> /\ Head(todo') = g /\ Stays /\ Comes
  BY <1>1, <1>3, Onto
<1>5. reg'[r] = None /\ \A y \in Res \ {r} : reg'[y] = reg[y]
  BY <1>0, <1>2 DEF DeleteRow
<1>6. TokensOK'
  <2>1. ASSUME NEW y \in Res, reg'[y] # None PROVE RowTokens(y)'
    BY <1>1, <1>5, <2>1 DEF Caches, TokensOK, RowTokens
  <2>2. HeadTokens'
    BY <1>3, <1>4 DEF HeadTokens
  <2>3. RetagsOver'
    BY <1>1, <1>4, ComesOver DEF Caches
  <2> QED BY <2>1, <2>2, <2>3 DEF TokensOK
<1>7. IndexOK'
  <2>1. AdoptHeld(reg') = AdoptHeld(reg)
    BY <1>2, <1>5 DEF AdoptHeld
  <2> QED BY <1>1, <1>4, <2>1, IndexRest DEF Caches
<1>8. TotalsOK'
  <2>1. \A y \in Res \ {r} : \A z \in Token :
           Share(reg', y, z) = Share(reg, y, z) /\
           (y \in HeldBy(reg', z) <=> y \in HeldBy(reg, z))
    BY <1>5, SameShare
  <2>2. ASSUME NEW z \in Token
        PROVE  /\ totals[z] \in Int /\ Extra(z) \in Int /\ Extra(z)' \in Int
               /\ totals'[z] = totals[z] - Share(reg, r, z) - Extra(z) + Share(reg', r, z) + Extra(z)'
    <3>1. totals[z] \in Nat /\ totals'[z] = totals[z]
      BY <1>0, <1>1
    <3>2. Share(reg, r, z) = 0 /\ Share(reg', r, z) = 0
      BY <1>2, <1>5 DEF Share
    <3>3. Extra(z) = 0 /\ Extra(z)' = 0
      BY <1>1, <1>3, <1>4 DEF Extra
    <3> QED BY <3>1, <3>2, <3>3
  <2> QED BY <1>1, <1>2, <2>1, <2>2, TotalsFollow DEF Caches
<1>9. ImagesOK'
  <2>1. ASSUME NEW m \in Memory, reg'[m] # None, ImageOf[m] # None PROVE Live(ImageOf[m])'
    <3>1. ImageOf[m] \in Res /\ m \in Res
      BY <2>1, ConstantsOK, RowSets
    <3>2. Live(ImageOf[m])
      BY <1>5, <2>1, <3>1 DEF Caches, ImagesOK, ImageBacked
    <3> QED BY <1>2, <1>5, <3>1, <3>2 DEF Live
  <2>2. ASSUME NEW i \in Image
        PROVE  images[i] = Cardinality(Above(i)') + Uncounted(i)'
    <3>1. images[i] = Cardinality(Above(i)) + 0
      BY <1>1 DEF Caches, ImagesOK, Uncounted
    <3>2. IsFiniteSet(Above(i)) /\ Cardinality(Above(i)) \in Nat
      BY AboveFinite, FS_CardinalityType
    <3>3. CASE r \in Memory /\ ImageOf[r] = i
      <4>1. Above(i)' = Above(i) \ {r} /\ r \in Above(i)
        BY <1>2, <1>5, <3>3, RowSets DEF Above
      <4>2. Cardinality(Above(i)') = Cardinality(Above(i)) - 1
        BY <3>2, <4>1, FS_RemoveElement
      <4>3. Uncounted(i)' = 1
        BY <1>3, <1>4, <3>3 DEF Uncounted
      <4> QED BY <3>1, <3>2, <4>2, <4>3
    <3>4. CASE ~(r \in Memory /\ ImageOf[r] = i)
      <4>1. Above(i)' = Above(i)
        BY <1>2, <1>5, <3>4, RowSets DEF Above
      <4>2. Uncounted(i)' = 0
        BY <1>3, <1>4, <3>4 DEF Uncounted
      <4> QED BY <3>1, <4>1, <4>2
    <3> QED BY <3>3, <3>4
  <2>3. up' => \A i \in Image : (images[i] = Cardinality(Above(i)) + Uncounted(i))'
    BY <1>1, <2>2
  <2>4. (todo # <<>> /\ Head(todo).op = "insert" => image_ok(Head(todo).res))'
    BY <1>3, <1>4
  <2>5. ImageBacked'
    BY <2>1 DEF ImageBacked
  <2> QED BY <2>3, <2>4, <2>5 DEF ImagesOK
<1>10. CacheTypes'
  BY <1>1 DEF Caches, CacheTypes
<1> QED BY <1>6, <1>7, <1>8, <1>9, <1>10 DEF Caches

\* The charge is given back.
LEMMA GiveBackCaches ==
    ASSUME Inv, Inv', Budget, Budget', Caches, GiveBack
    PROVE  Caches'
<1> DEFINE f == Head(todo)
           r == f.res
           g == [op |-> "uncount", res |-> r]
           over == r \in Memory /\ ImageOf[r] # None
<1>1. up /\ todo # <<>> /\ f \in Frame /\ f.op = "giveback"
      /\ UNCHANGED <<reg, held, totals, images, up, builds>>
  BY HeadFrame DEF GiveBack, callers, index
<1>2. g.op = "uncount" /\ g.res = r
  OBVIOUS
<1>3. (over /\ Then(<<g>>)) \/ (~over /\ Then(<<>>))
  BY DEF GiveBack, Do
<1> HIDE DEF g
<1>4. /\ Stays /\ Comes
      /\ over => todo' # <<>> /\ Head(todo') = g
      /\ ~over => Untold'
  BY <1>1, <1>2, <1>3, Onto
<1>5. TokensOK'
  <2>1. HeadTokens'
    BY <1>2, <1>4 DEF HeadTokens, Untold, Telling
  <2> QED BY <1>1, <1>4, <2>1, TokensRest DEF Caches
<1>6. IndexOK'
  BY <1>1, <1>4, IndexRest DEF Caches
<1>7. TotalsOK'
  <2>1. \A z \in Token : Extra(z) = 0 /\ Extra(z)' = 0
    BY <1>1, <1>2, <1>4 DEF Extra, Untold, Telling
  <2> QED BY <1>1, <2>1, TotalsStay DEF Caches
<1>8. ImagesOK'
  <2>1. ASSUME NEW i \in Image PROVE Uncounted(i)' = Uncounted(i) /\ Above(i)' = Above(i)
    <3>1. i # None
      BY ConstantsOK, RowSets
    <3>2. CASE over
      BY <1>1, <1>2, <1>4, <3>2 DEF Uncounted, Above
    <3>3. CASE ~over
      BY <1>1, <1>4, <3>1, <3>3 DEF Uncounted, Above, Untold, Telling
    <3> QED BY <3>2, <3>3
  <2>2. ImageBacked'
    BY <1>1 DEF Caches, ImagesOK, ImageBacked, Live
  <2>3. up' => \A i \in Image : (images[i] = Cardinality(Above(i)) + Uncounted(i))'
    BY <1>1, <2>1 DEF Caches, ImagesOK
  <2>4. (todo # <<>> /\ Head(todo).op = "insert" => image_ok(Head(todo).res))'
    BY <1>2, <1>4 DEF Untold, Telling
  <2> QED BY <2>2, <2>3, <2>4 DEF ImagesOK
<1>9. CacheTypes'
  BY <1>1 DEF Caches, CacheTypes
<1> QED BY <1>5, <1>6, <1>7, <1>8, <1>9 DEF Caches

\* What nobody holds and no memory is over starts to be reclaimed, or stays.
LEMMA ImageGoes ==
    ASSUME Inv, Inv', Budget, Budget', Caches, up, UNCHANGED <<up, builds, held, totals>>,
           todo # <<>>, Head(todo).op \in {"uncount", "sweep"}, Untold', Stays, Comes,
           NEW i \in Res,
           \/ UNCHANGED reg
           \/ /\ reg[i] # None /\ reg[i].holders = {} /\ (i \notin Image \/ Above(i) = {})
              /\ reg' = [reg EXCEPT ![i].state = "retiring"]
    PROVE  /\ TokensOK' /\ IndexOK' /\ TotalsOK' /\ ImageBacked'
           /\ \A j \in Image : Above(j)' = Above(j)
<1> DEFINE w == [reg[i] EXCEPT !.state = "retiring"]
<1>0. reg \in [Res -> Row \cup {None}] /\ totals \in [Token -> Nat] /\ i \in Res
  BY RowSets DEF Inv, StateOK, Caches, CacheTypes
<1>1. CASE UNCHANGED reg
  <2>1. HeadTokens'
    BY DEF HeadTokens, Untold, Telling
  <2>2. TokensOK'
    BY <1>1, <2>1, TokensRest DEF Caches
  <2>3. IndexOK'
    BY <1>1, IndexRest DEF Caches
  <2>4. TotalsOK'
    <3>1. \A z \in Token : Extra(z) = 0 /\ Extra(z)' = 0
      BY DEF Extra, Untold, Telling
    <3> QED BY <1>1, <3>1, TotalsStay DEF Caches
  <2>5. ImageBacked' /\ \A j \in Image : Above(j)' = Above(j)
    BY <1>1 DEF Caches, ImagesOK, ImageBacked, Live, Above
  <2> QED BY <2>2, <2>3, <2>4, <2>5
<1>2. CASE /\ reg[i] # None /\ reg[i].holders = {} /\ (i \notin Image \/ Above(i) = {})
           /\ reg' = [reg EXCEPT ![i].state = "retiring"]
  <2>1. w.holders = reg[i].holders /\ w.pages = reg[i].pages /\ w.state = "retiring" /\ w # None
    <3>1. reg[i] \in Row
      BY <1>0, <1>2
    <3>2. w \in Row
      BY <3>1, RowFields
    <3> QED BY <3>1, <3>2, RowSets DEF Row
  <2>2. reg' = [reg EXCEPT ![i] = w]
    BY <1>2
  <2> HIDE DEF w
  <2>3. reg'[i] = w /\ \A y \in Res \ {i} : reg'[y] = reg[y]
    BY <1>0, <2>2, RowSet DEF Inv
  <2>4. TokensOK'
    <3>1. ASSUME NEW y \in Res, reg'[y] # None PROVE RowTokens(y)'
      <4>1. CASE y # i
        BY <2>3, <3>1, <4>1 DEF Caches, TokensOK, RowTokens
      <4>2. CASE y = i
        BY <1>2, <2>1, <2>3, <4>2 DEF RowTokens
      <4> QED BY <4>1, <4>2
    <3>2. HeadTokens'
      BY DEF HeadTokens, Untold, Telling
    <3>3. RetagsOver'
      BY ComesOver DEF Caches
    <3> QED BY <3>1, <3>2, <3>3 DEF TokensOK
  <2>5. IndexOK'
    <3>1. AdoptHeld(reg') = AdoptHeld(reg)
      BY <1>2, <2>1, <2>3 DEF AdoptHeld
    <3> QED BY <3>1, IndexRest DEF Caches
  <2>6. TotalsOK'
    <3>1. \A y \in Res : \A z \in Token :
             Share(reg', y, z) = Share(reg, y, z) /\
             (y \in HeldBy(reg', z) <=> y \in HeldBy(reg, z))
      BY <1>2, <2>1, <2>3, SameShare
    <3>2. ASSUME NEW z \in Token
          PROVE  /\ totals[z] \in Int /\ Extra(z) \in Int /\ Extra(z)' \in Int
                 /\ totals'[z] = totals[z] - Share(reg, i, z) - Extra(z) + Share(reg', i, z) + Extra(z)'
      <4>1. totals[z] \in Nat /\ totals'[z] = totals[z]
        BY <1>0
      <4>2. Share(reg, i, z) = 0 /\ Share(reg', i, z) = 0
        BY <1>2, <2>1, <2>3 DEF Share
      <4>3. Extra(z) = 0 /\ Extra(z)' = 0
        BY DEF Extra, Untold, Telling
      <4> QED BY <4>1, <4>2, <4>3
    <3> QED BY <1>0, <3>1, <3>2, TotalsFollow DEF Caches
  <2>7. ImageBacked' /\ \A j \in Image : Above(j)' = Above(j)
    BY <1>0, <1>2, <2>1, <2>3, BackedStill DEF Caches, ImagesOK
  <2> QED BY <2>4, <2>5, <2>6, <2>7
<1> QED BY <1>1, <1>2

-----------------------------------------------------------------------------
(* Images that nobody holds.                                               *)

\* A memory is counted over its image no longer.
LEMMA AfterRetireCaches ==
    ASSUME Inv, Inv', Budget, Budget', Caches, AfterRetire
    PROVE  Caches'
<1> DEFINE f == Head(todo)
           i == ImageOf[f.res]
           orphan == images[i] = 1 /\ reg[i] # None /\ reg[i].holders = {}
           g == [op |-> "forget", res |-> i]
<1>0. images \in [Image -> Nat]
  BY DEF Caches, CacheTypes
<1>1. up /\ todo # <<>> /\ f \in Frame /\ f.op = "uncount"
      /\ UNCHANGED <<held, totals, up, builds>>
  BY HeadFrame DEF AfterRetire, callers
<1>2. f.res \in Memory /\ i \in Image /\ i \in Res
  <2>1. f.res \in Memory /\ i # None
    BY <1>1, FrameFields DEF Inv, HeadOK
  <2> QED BY <2>1, ConstantsOK, RowSets
<1>3. /\ images' = [images EXCEPT ![i] = @ - 1]
      /\ reg' = IF orphan THEN [reg EXCEPT ![i].state = "retiring"] ELSE reg
      /\ (orphan /\ Then(<<g>>)) \/ (~orphan /\ Then(<<>>))
  BY DEF AfterRetire, Do
<1>4. g.op = "forget"
  OBVIOUS
<1> HIDE DEF g
<1>5. Untold' /\ Stays /\ Comes
  <2>1. CASE Then(<<g>>)
    <3>1. todo' # <<>> /\ Head(todo') = g /\ Stays /\ Comes
      BY <1>1, <1>4, <2>1, Onto
    <3> QED BY <1>4, <3>1 DEF Untold, Telling
  <2>2. CASE Then(<<>>)
    BY <1>1, <2>2, Onto
  <2> QED BY <1>3, <2>1, <2>2
<1>6. \A j \in Image : Uncounted(j) = (IF j = i THEN 1 ELSE 0) /\ Uncounted(j)' = 0
  BY <1>1, <1>2, <1>5 DEF Uncounted, Untold, Telling
<1>7. orphan => Above(i) = {}
  BY <1>0, <1>1, <1>2, <1>6, NoneAbove DEF Caches
<1>8. /\ TokensOK' /\ IndexOK' /\ TotalsOK' /\ ImageBacked'
      /\ \A j \in Image : Above(j)' = Above(j)
  <2>1. \/ UNCHANGED reg
        \/ /\ reg[i] # None /\ reg[i].holders = {} /\ (i \notin Image \/ Above(i) = {})
           /\ reg' = [reg EXCEPT ![i].state = "retiring"]
    BY <1>3, <1>7
  <2> HIDE DEF i, f
  <2>2. Head(todo).op \in {"uncount", "sweep"}
    BY <1>1 DEF f
  <2> QED BY <1>1, <1>2, <1>5, <2>1, <2>2, ImageGoes
<1>9. \A j \in Image : /\ images[j] = Cardinality(Above(j)) + Uncounted(j)
                       /\ Cardinality(Above(j)) \in Nat
  BY <1>1, AboveFinite, FS_CardinalityType DEF Caches, ImagesOK
<1>10. \A j \in Image : images'[j] = Cardinality(Above(j))
  BY <1>0, <1>2, <1>3, <1>6, <1>9
<1>11. ImagesOK'
  <2>1. up' => \A j \in Image : (images[j] = Cardinality(Above(j)) + Uncounted(j))'
    BY <1>6, <1>8, <1>9, <1>10
  <2>2. (todo # <<>> /\ Head(todo).op = "insert" => image_ok(Head(todo).res))'
    BY <1>5 DEF Untold, Telling
  <2> QED BY <1>8, <2>1, <2>2 DEF ImagesOK
<1>12. CacheTypes'
  <2>1. images' \in [Image -> Nat]
    <3>1. images[i] - 1 \in Nat
      BY <1>2, <1>6, <1>9
    <3> QED BY <1>0, <1>2, <1>3, <3>1
  <2> QED BY <1>1, <2>1 DEF Caches, CacheTypes
<1> QED BY <1>8, <1>11, <1>12 DEF Caches

\* The images that a restart finds without a holder or a memory.
LEMMA SweepCaches ==
    ASSUME Inv, Inv', Budget, Budget', Caches, SweepImages
    PROVE  Caches'
<1> DEFINE f == Head(todo)
<1>1. up /\ todo # <<>> /\ f \in Frame /\ f.op = "sweep"
      /\ UNCHANGED <<held, totals, images, up, builds>>
  BY HeadFrame DEF SweepImages, callers, index
<1>2. PICK i \in f.set :
        LET rest == Each("sweep", f.set \ {i}) IN
        IF reg[i] # None /\ reg[i].holders = {} /\ images[i] = 0
        THEN /\ reg' = [reg EXCEPT ![i].state = "retiring"]
             /\ Then(Do("forget", i) \o rest)
        ELSE Then(rest) /\ UNCHANGED reg
  BY DEF SweepImages
<1> DEFINE S == f.set \ {i}
           orphan == reg[i] # None /\ reg[i].holders = {} /\ images[i] = 0
           g == [op |-> "forget", res |-> i]
<1>3. i \in Res
  BY <1>1, FrameFields
<1>4. \/ /\ orphan /\ reg' = [reg EXCEPT ![i].state = "retiring"]
         /\ Then(<<g>> \o Each("sweep", S))
      \/ UNCHANGED reg /\ Then(Each("sweep", S))
  BY <1>2 DEF Do
<1>5. g.op = "forget"
  OBVIOUS
<1> HIDE DEF g, S
<1>6. Untold' /\ Stays /\ Comes
  <2>1. CASE Then(<<g>> \o Each("sweep", S))
    <3>1. todo' # <<>> /\ Head(todo') = g /\ Stays /\ Comes
      BY <1>1, <1>5, <2>1, Onto
    <3> QED BY <1>5, <3>1 DEF Untold, Telling
  <2>2. CASE Then(Each("sweep", S))
    <3>1. "sweep" \in Deferred \ {"retags"}
      BY DEF Deferred
    <3> QED BY <1>1, <2>2, <3>1, Onto
  <2> QED BY <1>4, <2>1, <2>2
<1>7. \A j \in Image : Uncounted(j) = 0 /\ Uncounted(j)' = 0
  BY <1>1, <1>6 DEF Uncounted, Untold, Telling
<1>8. images[i] = 0 => i \notin Image \/ Above(i) = {}
  BY <1>1, <1>7, NoneAbove DEF Caches, CacheTypes
<1>9. /\ TokensOK' /\ IndexOK' /\ TotalsOK' /\ ImageBacked'
      /\ \A j \in Image : Above(j)' = Above(j)
  <2>1. \/ UNCHANGED reg
        \/ /\ reg[i] # None /\ reg[i].holders = {} /\ (i \notin Image \/ Above(i) = {})
           /\ reg' = [reg EXCEPT ![i].state = "retiring"]
    BY <1>4, <1>8
  <2>2. Head(todo).op \in {"uncount", "sweep"}
    BY <1>1
  <2> QED BY <1>1, <1>3, <1>6, <2>1, <2>2, ImageGoes
<1>10. ImagesOK'
  <2>1. up' => \A j \in Image : (images[j] = Cardinality(Above(j)) + Uncounted(j))'
    BY <1>1, <1>7, <1>9 DEF Caches, ImagesOK
  <2>2. (todo # <<>> /\ Head(todo).op = "insert" => image_ok(Head(todo).res))'
    BY <1>6 DEF Untold, Telling
  <2> QED BY <1>9, <2>1, <2>2 DEF ImagesOK
<1>11. CacheTypes'
  BY <1>1 DEF Caches, CacheTypes
<1> QED BY <1>9, <1>10, <1>11 DEF Caches

-----------------------------------------------------------------------------
(* Transactions started and undone.                                        *)

\* The pages of a memory's row rewritten.
LEMMA PagesCaches ==
    ASSUME Inv, Inv', Budget, Budget', Caches, up, todo # <<>>,
           Head(todo).op \notin Telling \cup {"drops"},
           UNCHANGED <<held, images, up, builds>>, Stays, Comes,
           NEW r \in Memory, NEW w, reg' = [reg EXCEPT ![r] = w],
           reg[r] # None, w # None, w.holders = reg[r].holders, w.state = reg[r].state,
           todo' # <<>>, Head(todo').op \in {"grant", "undone"},
           Head(todo').op = "undone" => Head(todo').res = r,
           \A t \in Token :
               /\ Extra(t)' \in Int /\ totals'[t] \in Nat
               /\ totals'[t] = totals[t] + Extra(t)' +
                    (IF t \in reg[r].holders THEN w.pages - reg[r].pages ELSE 0),
           totals' \in [Token -> Nat]
    PROVE  Caches'
<1>0. /\ reg \in [Res -> Row \cup {None}] /\ reg' \in [Res -> Row \cup {None}]
      /\ totals \in [Token -> Nat] /\ r \in Res /\ r \notin Image
  BY RowSets DEF Inv, StateOK, Caches, CacheTypes
<1>1. reg'[r] = w /\ \A y \in Res \ {r} : reg'[y] = reg[y]
  BY <1>0, RowSet DEF Inv
<1>2. reg[r].pages \in Nat /\ w.pages \in Nat
  BY <1>0, <1>1 DEF Row
<1>3. \A y \in Res : /\ reg'[y] = None <=> reg[y] = None
                     /\ reg[y] # None => /\ reg'[y].holders = reg[y].holders
                                         /\ reg'[y].state = reg[y].state
  BY <1>1
<1>4. TokensOK'
  <2>1. HeadTokens'
    BY <1>1 DEF HeadTokens
  <2> QED BY <1>3, <2>1, TokensRest DEF Caches
<1>5. IndexOK'
  <2>1. AdoptHeld(reg') = AdoptHeld(reg)
    BY <1>3 DEF AdoptHeld
  <2> QED BY <2>1, IndexRest DEF Caches, Telling
<1>6. TotalsOK'
  <2>1. \A y \in Res \ {r} : \A z \in Token :
           Share(reg', y, z) = Share(reg, y, z) /\
           (y \in HeldBy(reg', z) <=> y \in HeldBy(reg, z))
    BY <1>1, SameShare
  <2>2. ASSUME NEW z \in Token
        PROVE  /\ totals[z] \in Int /\ Extra(z) \in Int /\ Extra(z)' \in Int
               /\ totals'[z] = totals[z] - Share(reg, r, z) - Extra(z) + Share(reg', r, z) + Extra(z)'
    <3>1. Extra(z) = 0
      BY DEF Extra, Telling
    <3>2. Share(reg, r, z) = IF z \in reg[r].holders THEN reg[r].pages ELSE 0
      BY <1>0 DEF Share, counted
    <3>3. Share(reg', r, z) = IF z \in reg[r].holders THEN w.pages ELSE 0
      BY <1>0, <1>1 DEF Share, counted
    <3>4. totals[z] \in Nat
      BY <1>0
    <3> QED BY <1>2, <3>1, <3>2, <3>3, <3>4
  <2> QED BY <1>0, <2>1, <2>2, TotalsFollow DEF Caches
<1>7. ImagesOK'
  BY <1>3, ImagesSteady DEF Caches, Telling
<1>8. CacheTypes'
  BY DEF Caches, CacheTypes
<1> QED BY <1>4, <1>5, <1>6, <1>7, <1>8 DEF Caches

\* A transaction's row is written.
LEMMA TxnRowCaches ==
    ASSUME Inv, Inv', Budget, Budget', Caches, TxnRow
    PROVE  Caches'
<1> DEFINE f == Head(todo)
<1>0. reg \in [Res -> Row \cup {None}] /\ totals \in [Token -> Nat] /\ StateOK
  BY DEF Inv, StateOK, Caches, CacheTypes
<1>1. up /\ todo # <<>> /\ f \in Frame /\ f.op = "txn"
      /\ UNCHANGED <<held, images, up, builds>>
  BY HeadFrame DEF TxnRow, callers
<1>2. PICK p \in Pid : p = f.pid
  BY <1>1, FrameFields
<1> DEFINE c == cl[p]
           r == c.res
           w == Started(p)
           g == [op |-> "grant", pid |-> p]
           n == IF c.kind = "grow" THEN c.n ELSE 0
<1>3. reg[r] # None /\ c.ph \in {"begin", "queued"}
  BY <1>1, <1>2 DEF Inv, HeadOK
<1>4. r \in Memory /\ r \in Res
  BY <1>3, RowSets DEF Inv, WriterOK, WriterIs
<1>5. reg[r] \in Row /\ c \in Client
  BY <1>0, <1>3, <1>4 DEF StateOK
<1>6. n \in Nat /\ c.n \in Nat /\ reg[r].pages \in Nat
  BY <1>5 DEF Client, Row
<1>7. w # None
  <2>1. Cost(p) >= 0 /\ (cl[p].kind = "arena" => cl[p].seen <= cl[p].n)
    BY <1>1, <1>2 DEF Budget, FramesFit
  <2>2. RowFits(reg[r])
    BY <1>3, <1>4 DEF Budget, RowsFit
  <2> QED BY <1>0, <1>3, <1>4, <2>1, <2>2, StartedFits
<1>8. w.holders = reg[r].holders /\ w.state = reg[r].state /\ w.pages = reg[r].pages + n
  <2> DEFINE t == NewTxn(p)
  <2>1. t.kind = c.kind /\ (c.kind = "grow" => t.to = reg[r].pages + c.n)
    BY DEF NewTxn
  <2> HIDE DEF t
  <2>2. w = [reg[r] EXCEPT !.pages = IF t.kind = "grow" THEN t.to ELSE @,
                           !.growth = IF t.kind = "grow" THEN @ + t.pd ELSE @,
                           !.arena = IF t.kind = "grow" THEN @ ELSE @ + t.pd,
                           !.txn = t, !.done[p] = None]
    BY DEF Started, t
  <2> HIDE DEF w
  <2>3. /\ w.holders = reg[r].holders /\ w.state = reg[r].state
        /\ w.pages = IF t.kind = "grow" THEN t.to ELSE reg[r].pages
    BY <1>5, <2>2 DEF Row
  <2> QED BY <1>6, <2>1, <2>3
<1>9. /\ reg' = [reg EXCEPT ![r] = w] /\ Then(<<g>>)
      /\ IF c.kind = "grow" THEN add_total(reg[r].holders, c.n) ELSE UNCHANGED totals
  <2>1. Then(<<g>>)
    BY <1>1, <1>2 DEF TxnRow, Grant
  <2>2. reg' = [reg EXCEPT ![r] = w]
    BY <1>1, <1>2 DEF TxnRow
  <2>3. IF c.kind = "grow" THEN add_total(reg[r].holders, c.n) ELSE UNCHANGED totals
    BY <1>1, <1>2 DEF TxnRow
  <2> QED BY <2>1, <2>2, <2>3
<1>10. g.op = "grant"
  OBVIOUS
<1> HIDE DEF g, w
<1>11. todo' # <<>> /\ Head(todo') = g /\ Stays /\ Comes
  BY <1>1, <1>9, <1>10, Onto
<1>12. \A t \in Token : Extra(t)' = 0
  BY <1>10, <1>11 DEF Extra
<1> HIDE DEF n
<1>13. /\ totals' \in [Token -> Nat]
       /\ \A t \in Token : totals'[t] = totals[t] + (IF t \in reg[r].holders THEN n ELSE 0)
  <2>1. CASE c.kind = "grow"
    BY <1>0, <1>6, <1>9, <2>1 DEF add_total, n
  <2>2. CASE c.kind # "grow"
    <3>1. n = 0 /\ totals' = totals
      BY <1>9, <2>2 DEF n
    <3> QED BY <1>0, <3>1
  <2> QED BY <2>1, <2>2
<1> HIDE DEF r, c, f
<1>14. \A t \in Token :
         /\ Extra(t)' \in Int /\ totals'[t] \in Nat
         /\ totals'[t] = totals[t] + Extra(t)' +
              (IF t \in reg[r].holders THEN w.pages - reg[r].pages ELSE 0)
  <2>1. w.pages - reg[r].pages = n
    BY <1>6, <1>8
  <2>2. \A t \in Token : totals[t] \in Nat /\ totals'[t] \in Nat
    BY <1>0, <1>13
  <2> QED BY <1>6, <1>12, <1>13, <2>1, <2>2
<1>15. /\ Head(todo).op \notin Telling \cup {"drops"}
       /\ Head(todo').op \in {"grant", "undone"} /\ Head(todo').op # "undone"
  BY <1>1, <1>10, <1>11 DEF Telling, f
<1> QED BY <1>1, <1>3, <1>4, <1>7, <1>8, <1>9, <1>11, <1>13, <1>14, <1>15, PagesCaches

\* A transaction whose writer is gone is settled.
LEMMA SettleCaches ==
    ASSUME Inv, Inv', Budget, Budget', Caches, Settle
    PROVE  Caches'
<1> DEFINE f == Head(todo)
           r == f.res
           t == reg[r].txn
           w == Undo(reg[r], t)
           d == IF t.kind = "grow" THEN t.to - t.from ELSE -1
           g == [op |-> "undone", res |-> r, n |-> t.pd, d |-> d]
           h == [op |-> "finish", res |-> r]
<1>0. reg \in [Res -> Row \cup {None}] /\ totals \in [Token -> Nat] /\ StateOK
  BY DEF Inv, StateOK, Caches, CacheTypes
<1>1. up /\ todo # <<>> /\ f \in Frame /\ f.op = "settle"
      /\ UNCHANGED <<held, totals, images, up, builds>>
  BY HeadFrame DEF Settle, index
<1>2. /\ r \in Memory /\ r \in Res /\ r \notin Image
      /\ reg[r] # None /\ t # None /\ reg[r] \in Row
  BY <1>0, <1>1, FrameFields, RowSets DEF Inv, HeadOK
<1>3. \/ UNCHANGED reg /\ Then(<<h>>)
      \/ reg' = [reg EXCEPT ![r] = w] /\ Then(<<g>>)
  BY <1>0, <1>1, <1>2 DEF Settle, Do
<1>4. CASE UNCHANGED reg /\ Then(<<h>>)
  <2>1. h.op = "finish"
    OBVIOUS
  <2> HIDE DEF h
  <2>2. todo' # <<>> /\ Head(todo') = h /\ Stays /\ Comes
    BY <1>1, <1>4, <2>1, Onto
  <2>3. Untold /\ Untold'
    BY <1>1, <2>1, <2>2 DEF Untold, Telling
  <2>4. Silent
    BY <1>1, <1>4, <2>2, <2>3, AllAlike DEF Silent
  <2> QED BY <2>4, SilentCaches
<1>5. CASE reg' = [reg EXCEPT ![r] = w] /\ Then(<<g>>)
  <2>1. RowFits(reg[r])
    BY <1>2 DEF Budget, RowsFit
  <2>2. w \in Row /\ t.from \in Nat /\ t.to \in Nat /\ t.kind \in {"grow", "arena"}
    BY <1>2, RowEnds
  <2>3. t.from <= t.to /\ (t.kind = "grow" => reg[r].pages = t.to) /\ reg[r].pages \in Nat
    BY <1>2, <2>1 DEF RowFits, Row
  <2>4. /\ w.holders = reg[r].holders /\ w.state = reg[r].state
        /\ w.pages = IF t.kind = "grow" THEN t.from ELSE reg[r].pages
    <3> HIDE DEF r
    <3> QED BY <1>2, <2>2 DEF Undo, Row
  <2>5. g.op = "undone" /\ g.res = r /\ g.d = d
    OBVIOUS
  <2>6. d \in Int /\ w.pages - reg[r].pages = (IF d >= 0 THEN -d ELSE 0)
    BY <2>2, <2>3, <2>4
  <2> HIDE DEF g, w, d
  <2>7. todo' # <<>> /\ Head(todo') = g /\ Stays /\ Comes
    BY <1>1, <1>5, <2>5, Onto
  <2>8. w # None
    BY <2>2, RowSets
  <2>9. reg'[r] = w
    BY <1>0, <1>2, <1>5
  <2>10. \A z \in Token : Extra(z)' = IF d >= 0 /\ z \in reg[r].holders THEN d ELSE 0
    BY <2>4, <2>5, <2>7, <2>9 DEF Extra
  <2>11. \A z \in Token :
           /\ Extra(z)' \in Int /\ totals'[z] \in Nat
           /\ totals'[z] = totals[z] + Extra(z)' +
                (IF z \in reg[r].holders THEN w.pages - reg[r].pages ELSE 0)
    <3> TAKE z \in Token
    <3>1. totals'[z] = totals[z] /\ totals[z] \in Nat
      BY <1>0, <1>1
    <3> HIDE DEF r
    <3> QED BY <2>6, <2>10, <3>1
  <2>12. Head(todo).op \notin Telling \cup {"drops"} /\ Head(todo').op \in {"grant", "undone"}
         /\ Head(todo').res = r
    BY <1>1, <2>5, <2>7 DEF Telling
  <2>13. totals' \in [Token -> Nat]
    BY <1>0, <1>1
  <2> HIDE DEF r, f
  <2> QED BY <1>1, <1>2, <1>5, <2>4, <2>7, <2>8, <2>11, <2>12, <2>13, PagesCaches
<1> QED BY <1>3, <1>4, <1>5

-----------------------------------------------------------------------------
(* A crash, a restart, and the theorems.                                   *)

\* Nothing is left to be told of, and the rows and builds are what they were.
LEMMA FreshTokens ==
    ASSUME TokensOK, ImagesOK, UNCHANGED <<reg, builds>>, Untold',
           \A i \in 1 .. Len(todo') : todo'[i].op # "retags"
    PROVE  /\ TokensOK' /\ ImageBacked'
           /\ \A t \in Token : Extra(t)' = 0
           /\ \A i \in Image : Uncounted(i)' = 0 /\ Above(i)' = Above(i)
           /\ (todo # <<>> /\ Head(todo).op = "insert" => image_ok(Head(todo).res))'
<1>1. \A r \in Res : reg[r] # None => RowTokens(r)'
  BY DEF TokensOK, RowTokens
<1>2. HeadTokens' /\ RetagsOver'
  BY DEF HeadTokens, RetagsOver, Untold, Telling
<1>3. ImageBacked'
  BY DEF ImagesOK, ImageBacked, Live
<1>4. /\ \A t \in Token : Extra(t)' = 0
      /\ \A i \in Image : Uncounted(i)' = 0 /\ Above(i)' = Above(i)
      /\ (todo # <<>> /\ Head(todo).op = "insert" => image_ok(Head(todo).res))'
  BY DEF Untold, Telling, Extra, Uncounted, Above
<1> QED BY <1>1, <1>2, <1>3, <1>4 DEF TokensOK

\* What the keeper kept in memory goes with it.
LEMMA CrashCaches == ASSUME Caches, Crash PROVE Caches'
<1>1. /\ ~up' /\ todo' = <<>> /\ UNCHANGED <<reg, builds>>
      /\ totals' = [t \in Token |-> 0] /\ images' = [i \in Image |-> 0]
  BY DEF Crash, durable
<1>2. Untold' /\ \A i \in 1 .. Len(todo') : todo'[i].op # "retags"
  BY <1>1 DEF Untold
<1>3. TokensOK' /\ ImageBacked'
      /\ (todo # <<>> /\ Head(todo).op = "insert" => image_ok(Head(todo).res))'
  BY <1>1, <1>2, FreshTokens DEF Caches
<1>4. IndexOK' /\ TotalsOK' /\ ImagesOK'
  BY <1>1, <1>3 DEF IndexOK, TotalsOK, ImagesOK
<1>5. CacheTypes'
  BY <1>1 DEF CacheTypes
<1> QED BY <1>3, <1>4, <1>5 DEF Caches

\* Init takes them from the rows.
LEMMA RestartCaches == ASSUME Inv, Budget, Caches, Restart PROVE Caches'
<1> DEFINE R == {r \in Res : reg[r] # None /\ reg[r].state = "retiring"}
           a == Each("retiring", R)
           b == Each("recover", Memory)
           c == Each("sweep", Image)
           d == Do("reconcile", None)
           D == {f \in Frame : f.op \in Deferred \ {"retags"}}
<1>1. /\ up' /\ todo' = a \o b \o c \o d /\ UNCHANGED <<reg, builds>>
      /\ held' = AdoptHeld(reg) /\ totals' = AdoptTotals(reg) /\ images' = AdoptImages(reg)
  BY DEF Restart, durable, callers
<1>2. a \in Seq(D) /\ b \in Seq(D) /\ c \in Seq(D) /\ d \in Seq(D)
  <2>1. [op |-> "retiring", set |-> R] \in D
    BY DEF Frame, Deferred
  <2>2. [op |-> "recover", set |-> Memory] \in D
    BY DEF Frame, Deferred
  <2>3. [op |-> "sweep", set |-> Image] \in D
    BY RowSets DEF Frame, Deferred
  <2>4. [op |-> "reconcile", res |-> None] \in D
    BY DEF Frame, Deferred
  <2> HIDE DEF D, R
  <2> QED BY <2>1, <2>2, <2>3, <2>4 DEF Each, Do
<1>3. \A f \in D : f.op \notin Telling /\ f.op # "retags"
  BY DEF Deferred, Telling
<1> HIDE DEF a, b, c, d, D
<1>4. todo' \in Seq(D)
  BY <1>1, <1>2
<1>5. Untold' /\ \A i \in 1 .. Len(todo') : todo'[i].op # "retags"
  <2>1. todo' # <<>> => Head(todo') \in D
    BY <1>4
  <2>2. \A i \in 1 .. Len(todo') : todo'[i] \in D
    BY <1>4
  <2> QED BY <1>3, <2>1, <2>2 DEF Untold
<1>6. /\ TokensOK' /\ ImageBacked'
      /\ \A t \in Token : Extra(t)' = 0
      /\ \A i \in Image : Uncounted(i)' = 0 /\ Above(i)' = Above(i)
      /\ (todo # <<>> /\ Head(todo).op = "insert" => image_ok(Head(todo).res))'
  BY <1>1, <1>5, FreshTokens DEF Caches
<1>7. IndexOK'
  BY <1>1 DEF IndexOK
<1>8. \A t \in Token : AdoptTotals(reg)[t] \in Nat
  BY RegFits, SharesType DEF Inv, Budget
<1>9. TotalsOK'
  <2>1. \A t \in Token : totals'[t] = AdoptTotals(reg')[t] + Extra(t)'
    BY <1>1, <1>6, <1>8
  <2> QED BY <2>1 DEF TotalsOK
<1>10. \A i \in Image : images'[i] = Cardinality(Above(i)) /\ Cardinality(Above(i)) \in Nat
  BY <1>1, AboveFinite, FS_CardinalityType DEF AdoptImages, Above
<1>11. ImagesOK'
  <2>1. \A i \in Image : (images[i] = Cardinality(Above(i)) + Uncounted(i))'
    BY <1>6, <1>10
  <2> QED BY <1>6, <2>1 DEF ImagesOK
<1>12. CacheTypes'
  <2>1. totals' \in [Token -> Nat]
    BY <1>1, <1>8 DEF AdoptTotals
  <2>2. images' \in [Image -> Nat]
    BY <1>1, <1>10 DEF AdoptImages
  <2> QED BY <2>1, <2>2 DEF CacheTypes
<1> QED BY <1>6, <1>7, <1>9, <1>11, <1>12 DEF Caches

\* Nothing is held at first.
LEMMA InitCaches == ASSUME Init PROVE Caches
<1>1. /\ \A r \in Res : reg[r] = None
      /\ todo = <<>> /\ held = {} /\ totals = [t \in Token |-> 0]
      /\ images = [i \in Image |-> 0]
  BY DEF Init
<1>2. CacheTypes /\ TokensOK
  BY <1>1 DEF CacheTypes, TokensOK, HeadTokens, RetagsOver
<1>3. IndexOK
  BY <1>1 DEF IndexOK, AdoptHeld
<1>4. TotalsOK
  <2> SUFFICES ASSUME NEW t \in Token PROVE AdoptTotals(reg)[t] = 0 /\ Extra(t) = 0
    BY <1>1 DEF TotalsOK
  <2>1. HeldBy(reg, t) = {}
    BY <1>1 DEF HeldBy, Rows
  <2> DEFINE f == [r \in HeldBy(reg, t) |-> counted(r, reg[r])]
  <2>2. f = [r \in {} |-> f[r]]
    BY <2>1
  <2>3. AdoptTotals(reg)[t] = Total(f)
    BY DEF AdoptTotals
  <2> HIDE DEF f
  <2>4. Total(f) = 0
    BY <2>2, TotalEmpty
  <2> QED BY <1>1, <2>3, <2>4 DEF Extra
<1>5. ImagesOK
  <2>1. \A i \in Image : Above(i) = {} /\ Uncounted(i) = 0
    BY <1>1, RowSets DEF Above, Uncounted
  <2>2. ASSUME NEW i \in Image PROVE images[i] = Cardinality(Above(i)) + Uncounted(i)
    <3>1. Above(i) = {} /\ Uncounted(i) = 0 /\ images[i] = 0
      BY <1>1, <2>1
    <3>2. Cardinality(Above(i)) = 0
      BY <3>1, FS_EmptySet
    <3> QED BY <3>1, <3>2
  <2>3. ImageBacked
    BY <1>1, RowSets DEF ImageBacked
  <2> QED BY <1>1, <2>2, <2>3 DEF ImagesOK
<1> QED BY <1>2, <1>3, <1>4, <1>5 DEF Caches

\* Every step keeps the caches and the rows together.
LEMMA NextCaches ==
    ASSUME Inv, Inv', Budget, Budget', Caches, [Next]_vars PROVE Caches'
<1>1. CASE UNCHANGED vars
  <2>1. UNCHANGED <<reg, held, totals, images, up, builds, todo>>
    BY <1>1 DEF vars, durable, index, callers
  <2>2. Stays /\ Comes
    BY <2>1 DEF Stays, Comes
  <2>3. Silent
    BY <2>1, <2>2, AllAlike DEF Silent
  <2> QED BY <2>3, SilentCaches
<1>2. CASE Continue
  <2>1. CASE \/ Reserved \/ SetCap \/ ForgetMeta \/ PublishChunks \/ PublishSize
             \/ PublishArena \/ Finish \/ GrantStep \/ ReplyStep \/ ReconcileCounters
             \/ WriterGone \/ FinishRetiring \/ RecoverRow \/ NextTransaction
    <3>1. Silent
      BY <2>1, StepSilent, RollSilent
    <3> QED BY <3>1, SilentCaches
  <2>2. CASE InsertRow \/ Retag \/ HeapShrunk \/ HeapGrown \/ Undone \/ Drop \/ Unhold
    BY <2>2, InsertRowCaches, RetagCaches, MeasuredCaches, DropCaches, UnholdCaches
  <2>3. CASE DeleteRow \/ GiveBack \/ AfterRetire \/ TxnRow \/ Settle \/ SweepImages
    BY <2>3, DeleteRowCaches, GiveBackCaches, AfterRetireCaches, TxnRowCaches,
       SettleCaches, SweepCaches
  <2> QED BY <1>2, <2>1, <2>2, <2>3 DEF Continue
<1>3. CASE Crash \/ Restart
  BY <1>3, CrashCaches, RestartCaches
<1>4. ASSUME NEW p \in Pid, Request(p) \/ HolderDown(p) PROVE Caches'
  BY <1>4, RequestCaches
<1>5. ASSUME NEW p \in Pid,
             \/ Handle(p) \/ WriterDown(p) \/ Advance(p) \/ Die(p)
             \/ \E m \in Memory : \/ \E d \in Deltas[p] : Grow(p, m, d)
                                  \/ \E n \in 1 .. MaxArena : NeedArena(p, m, n)
      PROVE  Caches'
  <2>1. Silent
    BY <1>5, CallsSilent
  <2> QED BY <2>1, SilentCaches
<1> QED BY <1>1, <1>2, <1>3, <1>4, <1>5 DEF Next, Down

\* The index, the totals and the image counts agree with the rows at every
\* step but for what the handler in progress is still to write (hold_row/2,
\* release_hold/2, add_total/2, after_retire/2), and a restart makes them so
\* again (adopt_row/2).
THEOREM CachesKept == Spec => []Caches
<1>1. Init => Inv /\ Budget /\ Caches
  BY InitInv, InitBudget, InitCaches
<1>2. Inv /\ Budget /\ Caches /\ [Next]_vars => Inv' /\ Budget' /\ Caches'
  BY NextInv, NextBudget, NextCaches
<1>3. Spec => [](Inv /\ Budget /\ Caches)
  BY <1>1, <1>2, PTL DEF Spec
<1> QED BY <1>3, PTL

\* Between two requests each is exactly what a look through the rows would
\* find, so a death drops all that the dead process held and no more, a
\* ceiling is compared with what is held, and an image is let go when the
\* last memory over it is.
THEOREM CachesAreExact == Spec => []CachesExact
<1>1. Inv /\ Budget /\ Caches => CachesExact
  <2> SUFFICES ASSUME Inv, Budget, Caches, Idle
               PROVE  held = AdoptHeld(reg) /\ totals = AdoptTotals(reg)
                      /\ images = AdoptImages(reg)
    BY DEF CachesExact
  <2>1. held = AdoptHeld(reg)
    BY IdleIs DEF Caches
  <2>2. \A t \in Token : totals[t] = AdoptTotals(reg)[t]
    <3>1. \A t \in Token : AdoptTotals(reg)[t] \in Nat
      BY RegFits, SharesType DEF Inv, Budget
    <3>2. \A t \in Token : totals[t] = AdoptTotals(reg)[t] + 0
      BY IdleIs DEF Caches, TotalsOK, Idle
    <3> QED BY <3>1, <3>2
  <2>3. totals = AdoptTotals(reg)
    <3>1. totals = [t \in Token |-> totals[t]]
      BY DEF Caches, CacheTypes
    <3>2. AdoptTotals(reg) = [t \in Token |-> AdoptTotals(reg)[t]]
      BY DEF AdoptTotals
    <3> QED BY <2>2, <3>1, <3>2
  <2>4. \A i \in Image : images[i] = Cardinality(Above(i))
    <3>1. \A i \in Image : Cardinality(Above(i)) \in Nat
      BY AboveFinite, FS_CardinalityType
    <3>2. ASSUME NEW i \in Image PROVE images[i] = Cardinality(Above(i)) + 0
      <4>1. images[i] = Cardinality(Above(i)) + Uncounted(i)
        BY DEF Caches, ImagesOK, Idle
      <4>2. Uncounted(i) = 0
        BY IdleIs
      <4> QED BY <4>1, <4>2
    <3> QED BY <3>1, <3>2
  <2>5. images = AdoptImages(reg)
    <3>1. images = [i \in Image |-> images[i]]
      BY DEF Caches, CacheTypes
    <3> QED BY <2>4, <3>1 DEF AdoptImages, Above
  <2> QED BY <2>1, <2>3, <2>5
<1> QED BY <1>1, Invariance, BudgetKept, CachesKept, PTL

\* A memory's image is there while the memory is: its last holder and its
\* last memory can go in any order (reclaimable/1, after_retire/2).
THEOREM ImagesBacked == Spec => []ImageBacked
<1>1. Caches => ImageBacked
  BY DEF Caches, ImagesOK
<1> QED BY <1>1, CachesKept, PTL

\* Every variable keeps its type; that no total, count or counter goes below
\* zero needs all that is proved of them.
THEOREM AllTyped == Spec => []TypeOK
<1>1. Inv /\ Budget /\ Caches => TypeOK
  <2> SUFFICES ASSUME Inv, Budget, Caches PROVE TypeOK
    OBVIOUS
  <2>1. used \in Nat /\ bytes \in Nat
    BY CountersStay
  <2> QED BY <2>1 DEF Inv, Caches, CacheTypes, TypeOK, CountersOK
<1> QED BY <1>1, Invariance, BudgetKept, CachesKept, PTL

-----------------------------------------------------------------------------
(* The inductive invariant.                                                *)

growing(m) == reg[m].txn # None /\ reg[m].txn.kind = "grow"
extending(m) == reg[m].txn # None /\ reg[m].txn.kind = "arena"

\* The growth pages of the first k chunks of m, and of a memory of l pages.
Owns(m, k) == (k - chunk_count(ImagePages[m], ChunkPages[m])) * ChunkPages[m]
Grown(m, l) == growth_pages(l, ImagePages[m], ChunkPages[m])

\* A row is charged for the growth of its pages, those of a growth in flight
\* too; a memory still being made has not grown.
RowSays(m) ==
    LET w == reg[m]  t == w.txn IN
    /\ w.growth = Grown(m, w.pages)
    /\ maker[m] = None => w.pages = InitPages[m]
    /\ growing(m) => t.pd = Grown(m, t.to) - Grown(m, t.from)
    /\ extending(m) /\ ImageOf[m] # None => arena_cost(0, t.to) <= w.arena

\* No cell has chunks that the row is not charged for, nor, before the first
\* write of a transaction, chunks that undoing it would leave uncharged.
CellsSay(m) ==
    LET w == reg[m]  t == w.txn IN
    /\ m \in Observable /\ maker[m] # None =>
         /\ Owns(m, chunks[m]) <= w.growth
         /\ growing(m) => chunks[m] >= t.ct \/ Owns(m, chunks[m]) <= Grown(m, t.from)
         /\ IF growing(m) THEN size[m] \in {t.from, t.to} ELSE size[m] = w.pages
    /\ ImageOf[m] # None =>
         /\ arena_cost(0, arena[m]) <= w.arena
         /\ extending(m) => arena[m] >= t.to \/ arena_cost(0, arena[m]) <= w.arena - t.pd
Says(m) == reg[m] # None => RowSays(m) /\ CellsSay(m)

\* What the handler in progress knows of the cells and of its caller.
Speaking == {"finish", "txn", "chunks", "arena", "insert"}
HeadSays ==
    todo # <<>> => LET f == Head(todo)  c == cl[f.pid] IN
        /\ f.op = "finish" /\ f.res \in Observable /\ growing(f.res) =>
             size[f.res] = reg[f.res].txn.to
        /\ f.op = "txn" /\ c.kind = "arena" => c.seen = arena[c.res]
        /\ f.op \in {"chunks", "arena"} =>
             /\ c.ph = "commit" /\ c.res = f.res /\ InFlight(f.pid)
             /\ c.kind = IF f.op = "chunks" THEN "grow" ELSE "arena"
        /\ f.op = "insert" /\ f.res \in Memory /\ ImageOf[f.res] # None =>
             arena[f.res] = 0

\* The tuple a writer brings to its commit is one its row is charged for.
Writing == {"begin", "queued", "extend", "commit"}
WriterHas(p) ==
    LET c == cl[p]  r == c.res IN
    c.ph \in Writing /\ InFlight(p) =>
        /\ c.kind = "arena" => reg[r].txn.to = c.n
        /\ c.ph = "commit" =>
             /\ c.kind = "grow" /\ r \in Observable => Owns(r, c.tup) <= reg[r].growth
             /\ c.kind = "arena" =>
                  /\ c.tup >= c.n
                  /\ ImageOf[r] # None => arena_cost(0, c.tup) <= reg[r].arena

Cells ==
    /\ \A m \in Memory : Says(m)
    /\ HeadSays
    /\ \A p \in Pid : WriterHas(p)

-----------------------------------------------------------------------------
(* Arithmetic.                                                             *)

\* The chunks of a memory have room for its pages, and one less would not.
LEMMA ChunksHold ==
    ASSUME NEW l \in Nat, NEW c \in Nat \ {0}
    PROVE  /\ l <= chunk_count(l, c) * c
           /\ \A k \in Int : l <= k * c => chunk_count(l, c) <= k
<1> DEFINE x == l + c - 1
           q == x \div c
<1>1. x \in Nat /\ q \in Nat /\ chunk_count(l, c) = q
  BY DEF chunk_count
<1>2. q * c <= x /\ x < q * c + c
  <2> HIDE DEF x
  <2>1. x = c * q + (x % c) /\ 0 <= x % c /\ x % c < c
    BY <1>1
  <2>2. c * q = q * c
    BY <1>1
  <2> QED BY <1>1, <2>1, <2>2
<1>3. ASSUME NEW k \in Int, l <= k * c PROVE q <= k
  <2> SUFFICES ASSUME k + 1 <= q PROVE FALSE
    BY <1>1
  <2>1. PICK e \in Nat : q = (k + 1) + e
    <3>1. q - (k + 1) \in Nat /\ q = (k + 1) + (q - (k + 1))
      BY <1>1
    <3> QED BY <3>1
  <2>2. q * c = k * c + c + e * c /\ e * c \in Nat /\ k * c \in Int
    BY <2>1
  <2> DEFINE kc == k * c
             qc == q * c
             ec == e * c
  <2>3. qc = kc + c + ec /\ ec \in Nat /\ kc \in Int /\ qc <= x /\ l <= kc
    BY <1>2, <1>3, <2>2
  <2> HIDE DEF kc, qc, ec
  <2> QED BY <2>3
<1> DEFINE qc == q * c
<1>4. qc \in Nat /\ qc <= x /\ x < qc + c
  BY <1>1, <1>2
<1> HIDE DEF q, qc
<1>5. l <= qc
  BY <1>4
<1> QED BY <1>1, <1>3, <1>5 DEF qc

\* A product grows with its first factor.
LEMMA TimesMono ==
    ASSUME NEW a \in Int, NEW b \in Int, a <= b, NEW c \in Nat
    PROVE  a * c \in Int /\ b * c \in Int /\ a * c <= b * c
<1>1. PICK e \in Nat : b = a + e
  <2>1. b - a \in Nat /\ b = a + (b - a)
    OBVIOUS
  <2> QED BY <2>1
<1>2. (a + e) * c = a * c + e * c /\ e * c \in Nat /\ a * c \in Int
  OBVIOUS
<1> DEFINE x == a * c
           y == e * c
           z == b * c
<1>3. z = x + y /\ x \in Int /\ y \in Nat
  BY <1>1, <1>2
<1> HIDE DEF x, y, z
<1>4. x <= z /\ z \in Int
  BY <1>3
<1> QED BY <1>3, <1>4 DEF x, z

\* What the chunks of an image-backed memory of l pages cost is what its
\* growth is charged, or less.
LEMMA OwnsGrown ==
    ASSUME NEW m \in Memory, NEW l \in Nat
    PROVE  Owns(m, chunk_count(l, ChunkPages[m])) <= Grown(m, l)
<1> DEFINE i == ImagePages[m]
           c == ChunkPages[m]
           x == IF l > i THEN l - i ELSE 0
           a == chunk_count(x, c)
           b == chunk_count(i, c)
           d == chunk_count(l, c)
<1>1. i \in Nat /\ c \in Nat \ {0}
  BY ConstantsOK
<1> HIDE DEF i, c
<1>2. x \in Nat /\ l <= x + i
  BY <1>1
<1> HIDE DEF x
<1>3. a \in Nat /\ b \in Nat /\ d \in Nat /\ x <= a * c /\ i <= b * c
  BY <1>1, <1>2, ChunkCountNat, ChunksHold
<1>4. d <= a + b
  <2> HIDE DEF a, b
  <2>1. (a + b) * c = a * c + b * c /\ a * c \in Nat /\ b * c \in Nat
    BY <1>1, <1>3
  <2> DEFINE ac == a * c
             bc == b * c
             abc == (a + b) * c
  <2>2. abc = ac + bc /\ ac \in Nat /\ bc \in Nat /\ x <= ac /\ i <= bc
    BY <1>3, <2>1
  <2> HIDE DEF ac, bc, abc
  <2>3. l <= abc
    BY <1>1, <1>2, <2>2
  <2>4. a + b \in Int /\ l <= (a + b) * c
    BY <1>3, <2>3 DEF abc
  <2> QED BY <1>1, <2>4, ChunksHold
<1> HIDE DEF a, b, d
<1>5. (d - b) * c <= a * c
  <2>1. d - b \in Int /\ a \in Int /\ d - b <= a /\ c \in Nat
    BY <1>1, <1>3, <1>4
  <2> QED BY <2>1, TimesMono
<1>6. Owns(m, d) = (d - b) * c /\ Grown(m, l) = a * c
  BY DEF Owns, Grown, growth_pages, a, b, x, c, i
<1> QED BY <1>5, <1>6 DEF d, c

\* More chunks own more pages, and no cell owns none.
LEMMA OwnsMono ==
    ASSUME NEW m \in Memory
    PROVE  /\ \A j, k \in Int : /\ Owns(m, k) \in Int
                                /\ j <= k => Owns(m, j) <= Owns(m, k)
           /\ Owns(m, Absent) <= 0
<1> DEFINE c == ChunkPages[m]
           b == chunk_count(ImagePages[m], c)
<1>1. c \in Nat \ {0} /\ b \in Nat
  BY ConstantsOK, ChunkCountNat
<1> HIDE DEF b, c
<1>2. \A k : Owns(m, k) = (k - b) * c
  BY DEF Owns, b, c
<1>3. ASSUME NEW j \in Int, NEW k \in Int
      PROVE  Owns(m, k) \in Int /\ (j <= k => Owns(m, j) <= Owns(m, k))
  <2>1. j - b \in Int /\ k - b \in Int /\ (j <= k => j - b <= k - b)
    BY <1>1
  <2>2. (k - b) * c \in Int
    BY <1>1, <2>1
  <2> QED BY <1>1, <1>2, <2>1, <2>2, TimesMono
<1>4. Owns(m, Absent) <= 0
  <2>1. Absent - b \in Int /\ 0 \in Int /\ Absent - b <= 0
    BY <1>1 DEF Absent
  <2>2. (Absent - b) * c <= 0 * c /\ 0 * c = 0
    BY <1>1, <2>1, TimesMono
  <2> QED BY <1>2, <2>2
<1> QED BY <1>3, <1>4

\* The pages a memory has grown by.
LEMMA GrownNat ==
    ASSUME NEW m \in Memory
    PROVE  \A k, l \in Nat : Grown(m, k) \in Nat /\ (k <= l => Grown(m, k) <= Grown(m, l))
BY ConstantsOK, GrowthNat, GrowthMono DEF Grown

\* The cost of an arena is that of its parts, and a missing or empty one costs
\* nothing.
LEMMA ArenaParts ==
    /\ \A s, t \in Nat : arena_cost(0, s) + arena_cost(s, t) = arena_cost(0, t)
    /\ \A s \in Nat : arena_cost(0, s) \in Nat
    /\ arena_cost(0, Absent) <= 0 /\ arena_cost(0, 0) = 0 /\ arena_cost(0, Absent) \in Int
<1>1. ASSUME NEW s \in Nat PROVE \E k \in Nat : arena_slots(s) = 16 * k
  <2>1. CASE s \in 0 .. 3
    <3>1. /\ arena_slots(0) = 16 * 0 /\ arena_slots(1) = 16 * 1
          /\ arena_slots(2) = 16 * 3 /\ arena_slots(3) = 16 * 7
      BY DEF arena_slots
    <3>2. s = 0 \/ s = 1 \/ s = 2 \/ s = 3
      BY <2>1
    <3>3. 0 \in Nat /\ 1 \in Nat /\ 3 \in Nat /\ 7 \in Nat
      OBVIOUS
    <3>4. CASE s = 0
      BY <3>1, <3>3, <3>4
    <3>5. CASE s = 1
      BY <3>1, <3>3, <3>5
    <3>6. CASE s = 2
      BY <3>1, <3>3, <3>6
    <3>7. CASE s = 3
      BY <3>1, <3>3, <3>7
    <3> QED BY <3>2, <3>4, <3>5, <3>6, <3>7
  <2>2. CASE s \notin 0 .. 3
    <3>1. arena_slots(s) = 240 + 256 * (s - 4)
      BY <2>2 DEF arena_slots
    <3>2. 240 + 256 * (s - 4) = 16 * (15 + 16 * (s - 4)) /\ 15 + 16 * (s - 4) \in Nat
      BY <2>2
    <3> QED BY <3>1, <3>2
  <2> QED BY <2>1, <2>2
<1>2. ASSUME NEW s \in Nat, NEW t \in Nat
      PROVE  arena_cost(0, s) + arena_cost(s, t) = arena_cost(0, t)
  <2>1. PICK k \in Nat, l \in Nat : arena_slots(s) = 16 * k /\ arena_slots(t) = 16 * l
    BY <1>1
  <2>2. arena_slots(0) = 0
    BY DEF arena_slots
  <2> QED BY <2>1, <2>2 DEF arena_cost
<1>3. ASSUME NEW s \in Nat PROVE arena_cost(0, s) \in Nat
  BY ArenaNat
<1>4. arena_cost(0, Absent) <= 0 /\ arena_cost(0, 0) = 0 /\ arena_cost(0, Absent) \in Int
  BY DEF arena_cost, arena_slots, Absent
<1> QED BY <1>2, <1>3, <1>4

-----------------------------------------------------------------------------
(* Steps that leave alone what is said.                                    *)

\* The row of m is kept, but perhaps for its holders, its state and the
\* outcomes in it, or goes.
RowSame(m) ==
    reg'[m] # None => /\ reg[m] # None
                      /\ reg'[m].pages = reg[m].pages /\ reg'[m].growth = reg[m].growth
                      /\ reg'[m].arena = reg[m].arena /\ reg'[m].txn = reg[m].txn

\* A client that writes goes on with what it had, or no longer writes.
ClientSame(p) ==
    LET c == cl[p]  d == cl'[p] IN
    d.ph \in Writing =>
        /\ c.ph \in Writing /\ d.op = c.op /\ d.res = c.res /\ d.kind = c.kind /\ d.n = c.n
        /\ d.ph = "commit" => c.ph = "commit" /\ d.tup = c.tup

\* What is said of m stays said when neither its row nor its cells change.
LEMMA StillSays ==
    ASSUME NEW m \in Memory, Says(m), RowSame(m), arena'[m] = arena[m],
           m \in Observable => chunks'[m] = chunks[m] /\ size'[m] = size[m],
           maker'[m] = maker[m]
    PROVE  Says(m)'
<1> SUFFICES ASSUME reg'[m] # None PROVE RowSays(m)' /\ CellsSay(m)'
  BY DEF Says
<1>1. RowSays(m) /\ CellsSay(m)
  BY DEF Says, RowSame
<1>2. growing(m)' = growing(m) /\ extending(m)' = extending(m)
  BY DEF growing, extending, RowSame
<1>3. RowSays(m)'
  BY <1>1, <1>2 DEF RowSays, RowSame
<1>4. CellsSay(m)'
  BY <1>1, <1>2 DEF CellsSay, RowSame
<1> QED BY <1>3, <1>4

\* A writer whose memory is left alone, or whose transaction is over, has what
\* it had.
LEMMA StillHas ==
    ASSUME NEW p \in Pid, WriterIs(p), WriterHas(p), ClientSame(p),
           \A m \in Memory : m = cl[p].res => RowSame(m) \/ reg'[m].txn = None
    PROVE  WriterHas(p)'
<1> DEFINE r == cl[p].res
<1> SUFFICES ASSUME cl'[p].ph \in Writing, InFlight(p)' PROVE WriterHas(p)'
  BY DEF WriterHas
<1>1. /\ cl[p].ph \in Writing /\ cl'[p].op = cl[p].op /\ cl'[p].res = r
      /\ cl'[p].kind = cl[p].kind /\ cl'[p].n = cl[p].n
      /\ cl'[p].ph = "commit" => cl[p].ph = "commit" /\ cl'[p].tup = cl[p].tup
  BY DEF ClientSame
<1>2. r \in Memory
  BY <1>1 DEF WriterIs, Writing
<1>3. reg'[r] # None /\ reg'[r].txn # None /\ reg'[r].txn.pid = p /\ reg'[r].txn.op = cl[p].op
  BY <1>1 DEF InFlight
<1>4. /\ reg[r] # None /\ reg'[r].growth = reg[r].growth /\ reg'[r].arena = reg[r].arena
      /\ reg'[r].txn = reg[r].txn
  BY <1>2, <1>3 DEF RowSame
<1>5. InFlight(p)
  BY <1>3, <1>4 DEF InFlight
<1> QED BY <1>1, <1>4, <1>5 DEF WriterHas

\* A step that changes no cell, no transaction and no writer.
LEMMA Unsaid ==
    ASSUME Inv, Cells, \A m \in Memory : RowSame(m), UNCHANGED <<cells, maker>>,
           \A p \in Pid : ClientSame(p), HeadSays'
    PROVE  Cells'
<1>1. \A m \in Memory : Says(m)'
  BY StillSays DEF Cells, cells
<1>2. \A p \in Pid : WriterHas(p)'
  BY StillHas DEF Cells, Inv, WriterOK
<1> QED BY <1>1, <1>2 DEF Cells

\* A row replaced by one that says the same.
LEMMA Rewrites ==
    ASSUME StateOK, NEW r \in Res, NEW w, reg' = [reg EXCEPT ![r] = w],
           r \in Memory => /\ reg[r] # None
                           /\ w.pages = reg[r].pages /\ w.growth = reg[r].growth
                           /\ w.arena = reg[r].arena /\ w.txn = reg[r].txn
    PROVE  \A m \in Memory : RowSame(m)
<1>1. reg'[r] = w /\ \A y \in Res \ {r} : reg'[y] = reg[y]
  BY RowSet
<1> QED BY <1>1, RowSets DEF RowSame

\* Rows left alone.
LEMMA SameSaid == ASSUME UNCHANGED reg PROVE \A m \in Memory : RowSame(m)
BY DEF RowSame

\* Callers left alone.
LEMMA SameClients == ASSUME UNCHANGED cl PROVE \A p \in Pid : ClientSame(p)
BY DEF ClientSame

\* A handler with a frame that speaks of no cell first, or none.
LEMMA Mute ==
    ASSUME todo' # <<>> => Head(todo').op \notin Speaking PROVE HeadSays'
BY DEF HeadSays, Speaking

\* Frames that may lie anywhere do not.
LEMMA TailMute ==
    ASSUME NEW s, Tailable(s), todo' = s PROVE HeadSays'
<1>1. CASE s = <<>>
  BY <1>1, Mute
<1>2. CASE s # <<>>
  <2>1. s[1].op \in Deferred
    BY <1>2, PushTail
  <2>2. Head(todo') = s[1]
    BY <1>2 DEF Tailable
  <2> QED BY <2>1, <2>2, Mute DEF Deferred, Speaking
<1> QED BY <1>1, <1>2

\* A frame replaced by the frames s.
LEMMA HeadNext ==
    ASSUME Inv, todo # <<>>, NEW F, NEW s \in Seq(F), Then(s)
    PROVE  /\ s # <<>> => todo' # <<>> /\ Head(todo') = s[1]
           /\ s = <<>> /\ todo' # <<>> => Head(todo').op \in Deferred
<1> DEFINE G == Frame \cup F
           n == Len(s)
<1>1. todo \in Seq(G) /\ s \in Seq(G) /\ todo' = s \o Tail(todo) /\ todo \in Seq(Frame)
  BY DEF Then, Inv, StateOK
<1> HIDE DEF G
<1>2. /\ n \in Nat /\ Len(todo) \in Nat
      /\ todo' \in Seq(G) /\ Len(todo') = n + Len(todo) - 1
      /\ \A i \in 1 .. n : todo'[i] = s[i]
      /\ \A i \in n + 1 .. n + Len(todo) - 1 : todo'[i] = todo[i - n + 1]
  BY <1>1, Replaced
<1>3. ASSUME s # <<>> PROVE todo' # <<>> /\ Head(todo') = s[1]
  <2>1. n > 0
    BY <1>1, <1>3
  <2> QED BY <1>1, <1>2, <2>1
<1>4. ASSUME s = <<>>, todo' # <<>> PROVE Head(todo').op \in Deferred
  <2>1. n = 0
    BY <1>4
  <2>2. Head(todo') = todo'[1] /\ 1 \in n + 1 .. n + Len(todo) - 1
    BY <1>2, <1>4, <2>1
  <2>3. todo'[1] = todo[2] /\ 2 \in 2 .. Len(todo)
    BY <1>2, <2>1, <2>2
  <2> QED BY <2>2, <2>3 DEF Inv, StackOK
<1> QED BY <1>3, <1>4

\* The ways a handler goes on.
LEMMA SpeaksOn ==
    ASSUME Inv, todo # <<>>
    PROVE  /\ Then(<<>>) => HeadSays'
           /\ \A a : Then(<<a>>) => todo' # <<>> /\ Head(todo') = a
           /\ \A op \in Deferred : \A S : Then(Each(op, S)) => HeadSays'
           /\ \A a, op, S : Then(<<a>> \o Each(op, S)) => todo' # <<>> /\ Head(todo') = a
<1>1. Then(<<>>) => HeadSays'
  <2>1. <<>> \in Seq({})
    OBVIOUS
  <2>2. Then(<<>>) /\ todo' # <<>> => Head(todo').op \notin Speaking
    BY <2>1, HeadNext DEF Deferred, Speaking
  <2> QED BY <2>2, Mute
<1>2. ASSUME NEW a, Then(<<a>>)
      PROVE  todo' # <<>> /\ Head(todo') = a
  <2>1. <<a>> \in Seq({a}) /\ <<a>> # <<>> /\ <<a>>[1] = a
    OBVIOUS
  <2> QED BY <1>2, <2>1, HeadNext
<1>3. ASSUME NEW op \in Deferred, NEW S, Then(Each(op, S))
      PROVE  HeadSays'
  <2>1. CASE S = {}
    BY <1>1, <1>3, <2>1 DEF Each
  <2>2. CASE S # {}
    <3> DEFINE a == [op |-> op, set |-> S]
    <3>0. a.op = op /\ op \notin Speaking
      BY DEF Deferred, Speaking
    <3> HIDE DEF a
    <3>1. Then(<<a>>)
      BY <1>3, <2>2 DEF Each, a
    <3>2. todo' # <<>> /\ Head(todo') = a
      BY <1>2, <3>1
    <3> QED BY <3>0, <3>2, Mute
  <2> QED BY <2>1, <2>2
<1>4. ASSUME NEW a, NEW op, NEW S, Then(<<a>> \o Each(op, S))
      PROVE  todo' # <<>> /\ Head(todo') = a
  <2> DEFINE b == [op |-> op, set |-> S]
             s == <<a>> \o Each(op, S)
  <2>1. Each(op, S) \in Seq({a, b})
    <3>1. Each(op, S) = IF S = {} THEN <<>> ELSE <<b>>
      BY DEF Each
    <3>2. <<>> \in Seq({a, b}) /\ <<b>> \in Seq({a, b})
      <4> HIDE DEF b
      <4> QED OBVIOUS
    <3> QED BY <3>1, <3>2
  <2>2. s \in Seq({a, b}) /\ s # <<>> /\ s[1] = a
    <3>1. a \in {a, b}
      OBVIOUS
    <3> HIDE DEF b
    <3> QED BY <2>1, <3>1, Prepended
  <2> HIDE DEF s
  <2>3. Then(s)
    BY <1>4 DEF s
  <2> QED BY <2>2, <2>3, HeadNext
<1> QED BY <1>1, <1>2, <1>3, <1>4

\* The same when the rest is a frame of its own or none.
LEMMA SpeaksOver ==
    ASSUME Inv, todo # <<>>, NEW op \in Deferred, NEW S,
           NEW s, s = <<>> \/ \E g : g.op \notin Speaking /\ s = <<g>>,
           Then(s \o Each(op, S))
    PROVE  HeadSays'
<1>1. CASE s = <<>>
  <2>1. <<>> \o Each(op, S) = Each(op, S)
    <3> DEFINE b == [op |-> op, set |-> S]
    <3>1. Each(op, S) = IF S = {} THEN <<>> ELSE <<b>>
      BY DEF Each
    <3> HIDE DEF b
    <3>2. <<>> \o <<>> = <<>> /\ <<>> \o <<b>> = <<b>>
      <4>1. \A q \in Seq({b}) : <<>> \o q = q
        OBVIOUS
      <4>2. <<>> \in Seq({b}) /\ <<b>> \in Seq({b})
        OBVIOUS
      <4> QED BY <4>1, <4>2
    <3> QED BY <3>1, <3>2
  <2>2. Then(Each(op, S))
    BY <1>1, <2>1
  <2> QED BY <2>2, SpeaksOn
<1>2. ASSUME NEW g, g.op \notin Speaking, s = <<g>> PROVE HeadSays'
  <2>1. Then(<<g>> \o Each(op, S))
    BY <1>2
  <2>2. todo' # <<>> /\ Head(todo') = g
    BY <2>1, SpeaksOn
  <2> QED BY <1>2, <2>2, Mute
<1> QED BY <1>1, <1>2

-----------------------------------------------------------------------------
(* The steps of callers.                                                   *)

\* What a handler knows of its caller survives the steps of the others, and
\* the making of a memory.
LEMMA HeadStays ==
    ASSUME Inv, Cells, UNCHANGED <<todo, reg, arena>>,
           \A q \in Pid : cl[q].ph \in {"begin", "queued", "commit"} => cl'[q] = cl[q],
           \A m \in Memory : maker[m] # None => size'[m] = size[m]
    PROVE  HeadSays'
<1> SUFFICES ASSUME todo # <<>> PROVE HeadSays'
  BY Mute
<1> DEFINE f == Head(todo)
           c == cl[f.pid]
<1>0. /\ todo \in Seq(Frame) /\ f \in Frame /\ HeadOK /\ TxnOK /\ HeadSays
      /\ Memory \subseteq Res /\ Observable \subseteq Memory
  BY ConstantsOK DEF Inv, StateOK, Cells, Res
<1>1. f.op = "finish" /\ f.res \in Observable /\ growing(f.res)' =>
        size'[f.res] = reg[f.res].txn.to
  <2> SUFFICES ASSUME f.op = "finish", f.res \in Observable, growing(f.res)'
               PROVE  size'[f.res] = reg[f.res].txn.to
    OBVIOUS
  <2>1. growing(f.res) /\ f.res \in Memory
    BY <1>0 DEF growing
  <2>2. maker[f.res] # None
    BY <1>0, <2>1 DEF HeadOK, TxnOK, growing
  <2>3. size[f.res] = reg[f.res].txn.to
    BY <1>0, <2>1 DEF HeadSays
  <2> QED BY <2>1, <2>2, <2>3
<1>2. f.op = "txn" => cl'[f.pid] = c
  BY <1>0, FrameFields DEF HeadOK
<1>3. f.op \in {"chunks", "arena"} => cl'[f.pid] = c /\ InFlight(f.pid)' = InFlight(f.pid)
  <2> SUFFICES ASSUME f.op \in {"chunks", "arena"}
               PROVE  cl'[f.pid] = c /\ InFlight(f.pid)' = InFlight(f.pid)
    OBVIOUS
  <2>1. cl'[f.pid] = c
    BY <1>0, FrameFields DEF HeadSays
  <2> QED BY <2>1 DEF InFlight
<1> QED BY <1>0, <1>1, <1>2, <1>3 DEF HeadSays

\* A caller that is in no request moves.
LEMMA CallerMoves ==
    ASSUME Inv, Cells, NEW p \in Pid, cl[p].ph \notin {"begin", "queued", "commit"},
           \A q \in Pid \ {p} : cl'[q] = cl[q], UNCHANGED <<todo, reg, cells, maker>>,
           WriterHas(p)'
    PROVE  Cells'
<1>1. \A m \in Memory : RowSame(m)
  BY SameSaid
<1>2. \A m \in Memory : Says(m)'
  BY <1>1, StillSays DEF Cells, cells
<1>3. ASSUME NEW q \in Pid \ {p} PROVE WriterHas(q)'
  <2>1. ClientSame(q)
    BY DEF ClientSame
  <2> QED BY <1>1, <2>1, StillHas DEF Cells, Inv, WriterOK
<1>4. HeadSays'
  BY HeadStays DEF cells
<1> QED BY <1>2, <1>3, <1>4 DEF Cells

\* A new operation is not in flight.
LEMMA AsksAnew ==
    ASSUME Inv, NEW p \in Pid, NEW kind, NEW m \in Memory, NEW n, NEW seen,
           Ask(p, kind, m, n, seen), UNCHANGED reg
    PROVE  WriterHas(p)' /\ \A q \in Pid \ {p} : cl'[q] = cl[q]
<1>1. cl \in [Pid -> Client] /\ cl[p] \in Client /\ cl[p].op \in Nat /\ TxnOK
      /\ reg \in [Res -> Row \cup {None}] /\ m \in Res
  BY DEF Inv, StateOK, Client, Res
<1>2. /\ \A q \in Pid \ {p} : cl'[q] = cl[q]
      /\ cl'[p].res = m /\ cl'[p].op = cl[p].op + 1
  <2>1. cl' = [cl EXCEPT ![p] = [cl[p] EXCEPT !.ph = "begin", !.kind = kind,
                                         !.res = m, !.op = cl[p].op + 1, !.n = n,
                                         !.seen = seen, !.ans = "none"]]
    BY DEF Ask
  <2>2. cl'[p] = [cl[p] EXCEPT !.ph = "begin", !.kind = kind,
                                         !.res = m, !.op = cl[p].op + 1, !.n = n,
                                         !.seen = seen, !.ans = "none"]
    BY <1>1, <2>1
  <2> QED BY <1>1, <2>1, <2>2 DEF Client
<1>3. ~InFlight(p)'
  <2> SUFFICES ASSUME InFlight(p)' PROVE FALSE
    OBVIOUS
  <2>1. reg[m] # None /\ reg[m].txn # None /\ reg[m].txn.pid = p
        /\ reg[m].txn.op = cl[p].op + 1
    BY <1>2 DEF InFlight
  <2>2. reg[m].txn.op <= cl[p].op
    BY <1>1, <2>1 DEF TxnOK
  <2> QED BY <1>1, <2>1, <2>2
<1> QED BY <1>2, <1>3 DEF WriterHas

\* The tuple a writer allocates is one its row is charged for.
LEMMA ExtendHas ==
    ASSUME Inv, Budget, Cells, NEW p \in Pid, Extend(p)
    PROVE  WriterHas(p)'
<1> DEFINE c == cl[p]
           r == c.res
           w == reg[r]
           cell == IF c.kind = "grow" THEN chunks[r] ELSE arena[r]
           need == IF c.kind = "grow" THEN chunk_count(c.seen + c.n, ChunkPages[r]) ELSE c.n
           tup == IF cell > need THEN cell ELSE need
<1>0. /\ StateOK /\ cl \in [Pid -> Client] /\ c \in Client /\ c.n \in Nat /\ c.seen \in Nat
      /\ c.ph = "extend" /\ WriterIs(p) /\ WriterHas(p) /\ UNCHANGED reg
  BY DEF Inv, StateOK, Client, WriterOK, Extend, Have, Need, Cells, durable
<1>1. r \in Memory /\ maker[r] # None /\ Says(r) /\ ChunkPages[r] \in Nat \ {0}
  BY <1>0, ConstantsOK DEF WriterIs, Cells
<1>2. cl' = [cl EXCEPT ![p] = [cl[p] EXCEPT !.ph = "commit", !.tup = tup]]
  BY DEF Extend, Have, Need
<1>3. /\ cl'[p].ph = "commit" /\ cl'[p].op = c.op /\ cl'[p].res = r
      /\ cl'[p].kind = c.kind /\ cl'[p].n = c.n /\ cl'[p].tup = tup
  <2> HIDE DEF tup
  <2>1. cl'[p] = [c EXCEPT !.ph = "commit", !.tup = tup]
    BY <1>0, <1>2
  <2> QED BY <1>0, <2>1 DEF Client
<1> SUFFICES ASSUME InFlight(p)' PROVE WriterHas(p)'
  BY DEF WriterHas
<1>4. InFlight(p) /\ w # None /\ w.txn # None
  BY <1>0, <1>3 DEF InFlight
<1>5. /\ w \in Row /\ w.growth \in Int /\ w.arena \in Int /\ w.pages \in Nat
      /\ w.txn.to \in Nat /\ w.txn.kind = c.kind
      /\ RowSays(r) /\ CellsSay(r) /\ RowFits(w)
  <2>1. w \in Row
    BY <1>0, <1>1, <1>4, RowSets DEF StateOK
  <2>2. w.growth \in Int /\ w.arena \in Int /\ w.pages \in Nat /\ w.txn.to \in Nat
    BY <1>4, <2>1, RowFields, RowEnds
  <2>3. w.txn.kind = c.kind
    BY <1>0, <1>4 DEF WriterIs
  <2>4. RowFits(w)
    BY <1>1, <1>4, RowSets DEF Budget, RowsFit
  <2> QED BY <1>1, <1>4, <2>1, <2>2, <2>3, <2>4 DEF Says
<1>6. c.kind = "grow" /\ r \in Observable => Owns(r, tup) <= w.growth
  <2> SUFFICES ASSUME c.kind = "grow", r \in Observable PROVE Owns(r, tup) <= w.growth
    OBVIOUS
  <2>1. w.txn.to = c.seen + c.n /\ w.pages = w.txn.to
    BY <1>0, <1>4, <1>5 DEF WriterIs, RowFits
  <2>2. need = chunk_count(w.txn.to, ChunkPages[r]) /\ cell = chunks[r]
    BY <2>1
  <2>3. Owns(r, need) <= Grown(r, w.txn.to)
    BY <1>1, <1>5, <2>2, OwnsGrown
  <2>4. w.growth = Grown(r, w.txn.to)
    BY <1>5, <2>1 DEF RowSays
  <2>5. Owns(r, cell) <= w.growth
    BY <1>1, <1>5, <2>2 DEF CellsSay
  <2>6. tup = cell \/ tup = need
    OBVIOUS
  <2> HIDE DEF cell, need, tup, w, c, r
  <2> QED BY <2>3, <2>4, <2>5, <2>6
<1>7. c.kind = "arena" => /\ w.txn.to = c.n /\ tup >= c.n
                          /\ ImageOf[r] # None => arena_cost(0, tup) <= w.arena
  <2> SUFFICES ASSUME c.kind = "arena"
               PROVE  /\ w.txn.to = c.n /\ tup >= c.n
                      /\ ImageOf[r] # None => arena_cost(0, tup) <= w.arena
    OBVIOUS
  <2>1. w.txn.to = c.n
    BY <1>0, <1>4 DEF WriterHas, Writing
  <2>2. need = c.n /\ cell = arena[r] /\ cell \in Int
    BY <1>0, <1>1 DEF StateOK, Absent
  <2>3. tup >= c.n
    BY <1>0, <2>2
  <2>4. ASSUME ImageOf[r] # None PROVE arena_cost(0, tup) <= w.arena
    <3>1. arena_cost(0, arena[r]) <= w.arena
      BY <1>5, <2>4 DEF CellsSay
    <3>2. arena_cost(0, w.txn.to) <= w.arena
      BY <1>4, <1>5, <2>4 DEF RowSays, extending
    <3>3. tup = arena[r] \/ tup = w.txn.to
      BY <2>1, <2>2
    <3> HIDE DEF tup, w, c, r
    <3> QED BY <3>1, <3>2, <3>3
  <2> QED BY <2>1, <2>3, <2>4
<1> HIDE DEF tup
<1>8. reg' = reg
  BY <1>0
<1> QED BY <1>3, <1>6, <1>7, <1>8 DEF WriterHas

\* The cells of a new memory are those of its row.
LEMMA CreateCells ==
    ASSUME Inv, Budget, Cells, NEW p \in Pid, CreateMem(p)
    PROVE  Cells'
<1>p. PICK m \in Memory : m = cl[p].res
  BY DEF Inv, MakeOK, CreateMem
<1>0. /\ StateOK /\ cl \in [Pid -> Client] /\ cl[p].ph = "create" /\ TxnOK
      /\ m \in Memory /\ maker[m] = None /\ InitPages[m] \in Nat
      /\ chunks \in [Memory -> Nat \cup {Absent}] /\ size \in [Memory -> Nat]
      /\ maker \in [Memory -> Pid \cup {None}]
  BY <1>p, ConstantsOK DEF Inv, StateOK, CreateMem, MakeOK
<1>1. /\ size' = [size EXCEPT ![m] = InitPages[m]]
      /\ chunks' = [chunks EXCEPT ![m] = chunk_count(InitPages[m], ChunkPages[m])]
      /\ maker' = [maker EXCEPT ![m] = p]
      /\ cl' = [cl EXCEPT ![p].ph = "idle"] /\ UNCHANGED <<reg, arena, todo>>
  BY <1>p DEF CreateMem
<1>2. /\ size'[m] = InitPages[m] /\ maker'[m] = p /\ p # None
      /\ chunks'[m] = chunk_count(InitPages[m], ChunkPages[m])
      /\ \A y \in Memory \ {m} : /\ size'[y] = size[y] /\ chunks'[y] = chunks[y]
                                 /\ maker'[y] = maker[y]
      /\ cl'[p].ph = "idle" /\ \A q \in Pid \ {p} : cl'[q] = cl[q]
  <2>1. p # None
    BY ConstantsOK
  <2>2. cl'[p].ph = "idle" /\ \A q \in Pid \ {p} : cl'[q] = cl[q]
    BY <1>0, <1>1 DEF Client
  <2> QED BY <1>0, <1>1, <2>1, <2>2
<1>3. \A y \in Memory : RowSame(y)
  BY <1>1, SameSaid
<1>4. Says(m)'
  <2> SUFFICES ASSUME reg[m] # None PROVE RowSays(m)' /\ CellsSay(m)'
    BY <1>1 DEF Says
  <2>1. RowSays(m) /\ CellsSay(m) /\ reg[m].txn = None
    BY <1>0 DEF Cells, Says, TxnOK
  <2>2. reg[m].pages = InitPages[m] /\ reg[m].growth = Grown(m, InitPages[m])
    BY <1>0, <2>1 DEF RowSays
  <2>3. Owns(m, chunks'[m]) <= reg[m].growth
    <3> QED BY <1>0, <1>2, <2>2, OwnsGrown
  <2>4. ~growing(m)' /\ ~extending(m)'
    BY <1>1, <2>1 DEF growing, extending
  <2>5. RowSays(m)'
    BY <1>1, <1>2, <2>1, <2>4 DEF RowSays
  <2>6. CellsSay(m)'
    BY <1>1, <1>2, <2>1, <2>2, <2>3, <2>4 DEF CellsSay
  <2> QED BY <2>5, <2>6
<1>5. \A y \in Memory : Says(y)'
  <2> TAKE y \in Memory
  <2>1. CASE y = m
    BY <1>4, <2>1
  <2>2. CASE y # m
    BY <1>1, <1>2, <1>3, <2>2, StillSays DEF Cells
  <2> QED BY <2>1, <2>2
<1>6. \A q \in Pid : WriterHas(q)'
  <2> TAKE q \in Pid
  <2>1. ClientSame(q)
    BY <1>2 DEF ClientSame, Writing
  <2> QED BY <1>3, <2>1, StillHas DEF Cells, Inv, WriterOK
<1>7. HeadSays'
  <2>1. \A q \in Pid : cl[q].ph \in {"begin", "queued", "commit"} => cl'[q] = cl[q]
    BY <1>0, <1>2
  <2>2. \A y \in Memory : maker[y] # None => size'[y] = size[y]
    BY <1>0, <1>2
  <2> QED BY <1>1, <2>1, <2>2, HeadStays
<1> QED BY <1>5, <1>6, <1>7 DEF Cells

\* The steps of callers.
LEMMA CallerCells ==
    ASSUME Inv, Budget, Cells, NEW p \in Pid,
           \/ Advance(p) \/ Die(p)
           \/ \E m \in Memory : \/ \E d \in Deltas[p] : Grow(p, m, d)
                                \/ \E n \in 1 .. MaxArena : NeedArena(p, m, n)
    PROVE  Cells'
<1> DEFINE c == cl[p]
<1>0. cl \in [Pid -> Client] /\ c \in Client /\ WriterIs(p)
  BY DEF Inv, StateOK, WriterOK
<1>a. ASSUME NEW kind, NEW m \in Memory, NEW n, NEW seen, Ask(p, kind, m, n, seen),
             c.ph \notin {"begin", "queued", "commit"}, UNCHANGED <<todo, reg, cells, maker>>
      PROVE  Cells'
  BY <1>a, AsksAnew, CallerMoves
<1>i. ASSUME cl'[p].ph \notin Writing, \A q \in Pid \ {p} : cl'[q] = cl[q],
             c.ph \notin {"begin", "queued", "commit"}, UNCHANGED <<todo, reg, cells, maker>>
      PROVE  Cells'
  <2>1. WriterHas(p)'
    BY <1>i DEF WriterHas
  <2> QED BY <1>i, <2>1, CallerMoves
<1>1. CASE CreateMem(p)
  BY <1>1, CreateCells
<1>2. CASE CreateFails(p)
  <2>1. c.ph = "create" /\ UNCHANGED <<todo, reg, cells, maker>>
        /\ cl' = [cl EXCEPT ![p].ph = "free"]
    BY <1>2 DEF CreateFails, durable, cells
  <2>2. cl'[p].ph = "free" /\ \A q \in Pid \ {p} : cl'[q] = cl[q]
    BY <1>0, <2>1 DEF Client
  <2> QED BY <2>1, <2>2, <1>i DEF Writing
<1>3. CASE Look(p)
  <2>1. c.ph = "look" /\ UNCHANGED <<todo, reg, cells, maker>> /\ c.res \in Memory
    BY <1>0, <1>3 DEF Look, durable, cells, WriterIs
  <2>2. CASE cl' = [cl EXCEPT ![p].ph = "idle"]
    <3>1. cl'[p].ph = "idle" /\ \A q \in Pid \ {p} : cl'[q] = cl[q]
      BY <1>0, <2>2 DEF Client
    <3> QED BY <2>1, <3>1, <1>i DEF Writing
  <2>3. CASE Ask(p, "arena", c.res, c.n, arena[c.res])
    BY <2>1, <2>3, <1>a
  <2> QED BY <1>3, <2>2, <2>3 DEF Look
<1>4. CASE Extend(p)
  <2>1. WriterHas(p)'
    BY <1>4, ExtendHas
  <2>2. c.ph = "extend" /\ UNCHANGED <<todo, reg, cells, maker>>
        /\ \A q \in Pid \ {p} : cl'[q] = cl[q]
    BY <1>0, <1>4 DEF Extend, Have, Need, durable, cells
  <2> QED BY <2>1, <2>2, CallerMoves
<1>5. CASE ExtendFails(p)
  <2>1. c.ph = "extend" /\ UNCHANGED <<todo, reg, cells, maker>>
        /\ cl' = [cl EXCEPT ![p].ph = "abort"]
    BY <1>5 DEF ExtendFails, durable, cells
  <2>2. cl'[p].ph = "abort" /\ \A q \in Pid \ {p} : cl'[q] = cl[q]
    BY <1>0, <2>1 DEF Client
  <2> QED BY <2>1, <2>2, <1>i DEF Writing
<1>6. CASE Die(p)
  <2>1. UNCHANGED <<cl, todo, reg, cells, maker>>
    BY <1>6 DEF Die, durable, cells
  <2>2. HeadSays'
    BY <2>1, HeadStays DEF cells
  <2> QED BY <2>1, <2>2, Unsaid, SameSaid, SameClients
<1>7. ASSUME NEW m \in Memory, NEW d \in Deltas[p], Grow(p, m, d) PROVE Cells'
  <2>1. c.ph = "idle" /\ UNCHANGED <<todo, reg, cells, maker>> /\ Ask(p, "grow", m, d, 0)
    BY <1>7 DEF Grow, Free, durable, cells
  <2> QED BY <2>1, <1>a
<1>8. ASSUME NEW m \in Memory, NEW n \in 1 .. MaxArena, NeedArena(p, m, n) PROVE Cells'
  <2> DEFINE d == [c EXCEPT !.ph = "look", !.kind = "arena", !.res = m, !.n = n, !.ans = "none"]
  <2>1. c.ph = "idle" /\ UNCHANGED <<todo, reg, cells, maker>> /\ cl' = [cl EXCEPT ![p] = d]
    BY <1>8 DEF NeedArena, Free, durable, cells
  <2>2. d.ph = "look"
    BY <1>0 DEF Client
  <2> HIDE DEF d
  <2>3. cl'[p].ph = "look" /\ \A q \in Pid \ {p} : cl'[q] = cl[q]
    BY <1>0, <2>1, <2>2
  <2> QED BY <2>1, <2>3, <1>i DEF Writing
<1> QED BY <1>1, <1>2, <1>3, <1>4, <1>5, <1>6, <1>7, <1>8 DEF Advance

-----------------------------------------------------------------------------
(* Requests.                                                               *)

\* A resource is reserved, its arena cell empty.
LEMMA InsertSays ==
    ASSUME Inv, Budget, Cells, NEW p \in Pid, NEW r \in Res \ minted, NEW t \in Token,
           todo' = Insert(p, r, t), UNCHANGED <<reg, chunks, size, maker, cl>>,
           \A m \in Memory \ {r} : arena'[m] = arena[m],
           r \in Memory /\ ImageOf[r] # None => arena'[r] = 0
    PROVE  Cells'
<1> DEFINE f == [op |-> "insert", pid |-> p, res |-> r, tok |-> t]
<1>1. reg[r] = None
  BY DEF Budget, RowsFit
<1>2. \A m \in Memory : Says(m)'
  <2> TAKE m \in Memory
  <2>1. CASE m = r
    BY <1>1, <2>1 DEF Says
  <2>2. CASE m # r
    <3>1. RowSame(m)
      BY SameSaid
    <3> QED BY <2>2, <3>1, StillSays DEF Cells
  <2> QED BY <2>1, <2>2
<1>3. \A q \in Pid : WriterHas(q)'
  BY SameSaid, SameClients, StillHas DEF Cells, Inv, WriterOK
<1>4. todo' # <<>> /\ Head(todo') = f /\ f.op = "insert" /\ f.res = r
  BY DEF Insert
<1> HIDE DEF f
<1>5. HeadSays'
  BY <1>4 DEF HeadSays
<1> QED BY <1>2, <1>3, <1>5 DEF Cells

\* Requests.
LEMMA RequestCells ==
    ASSUME Inv, Budget, Cells, NEW p \in Pid, Request(p) PROVE Cells'
<1>0. StateOK
  BY DEF Inv
<1>s. ASSUME todo = <<>>, UNCHANGED todo PROVE HeadSays'
  BY <1>s, Mute
<1>d. ASSUME NEW s, Tailable(s), todo' = s, UNCHANGED <<reg, cells, maker, cl>> PROVE Cells'
  BY <1>d, TailMute, SameSaid, SameClients, Unsaid
<1>n. ASSUME UNCHANGED <<reg, cells, maker, cl, todo>> PROVE Cells'
  <2>1. HeadSays'
    BY <1>n, HeadStays DEF cells
  <2> QED BY <1>n, <2>1, SameSaid, SameClients, Unsaid
<1>1. ASSUME NEW t \in Token, NEW r \in Res, Reserve(p, r, t) PROVE Cells'
  <2>1. Idle /\ r \in Res \ minted /\ UNCHANGED <<reg, chunks, size, maker, cl>>
    BY <1>1 DEF Reserve
  <2>2. CASE /\ todo' = Insert(p, r, t)
             /\ arena' = IF r \in Memory /\ ImageOf[r] # None
                         THEN [arena EXCEPT ![r] = 0] ELSE arena
    <3>1. /\ \A m \in Memory \ {r} : arena'[m] = arena[m]
          /\ r \in Memory /\ ImageOf[r] # None => arena'[r] = 0
      BY <1>0, <2>2 DEF StateOK
    <3> QED BY <2>1, <2>2, <3>1, InsertSays
  <2>3. CASE UNCHANGED <<arena, todo>>
    BY <2>1, <2>3, <1>n DEF cells
  <2> QED BY <1>1, <2>2, <2>3 DEF Reserve
<1>2. ASSUME NEW t \in Token, NEW r \in Res, Acquire(p, r, t) PROVE Cells'
  <2>1. Idle /\ UNCHANGED <<cells, maker, cl, todo>>
    BY <1>2 DEF Acquire, callers
  <2>2. CASE UNCHANGED reg
    BY <2>1, <2>2, <1>n
  <2>3. CASE reg' = [reg EXCEPT ![r].holders = @ \cup {t}] /\ Live(r)
    <3> DEFINE w == [reg[r] EXCEPT !.holders = @ \cup {t}]
    <3>1. reg[r] \in Row /\ reg[r] # None
      BY <1>0, <2>3 DEF StateOK, Live
    <3>2. reg' = [reg EXCEPT ![r] = w]
      BY <2>3
    <3>3. w.pages = reg[r].pages /\ w.growth = reg[r].growth /\ w.arena = reg[r].arena
          /\ w.txn = reg[r].txn
      BY <3>1 DEF Row
    <3> HIDE DEF w
    <3>4. \A m \in Memory : RowSame(m)
      BY <1>0, <3>1, <3>2, <3>3, Rewrites
    <3>5. HeadSays'
      BY <2>1, <1>s DEF Idle
    <3> QED BY <2>1, <3>4, <3>5, SameClients, Unsaid
  <2> QED BY <1>2, <2>2, <2>3 DEF Acquire
<1>3. ASSUME NEW t \in Token, NEW r \in Res, Release(p, r, t) PROVE Cells'
  <2>1. Tailable(Each("drops", {<<r, t>>}))
    BY TailEach
  <2> QED BY <1>3, <2>1, <1>d DEF Release, durable, callers, cells
<1>4. ASSUME NEW t \in Token, Destroy(p, t) PROVE Cells'
  <2>1. Tailable(Each("drops", {<<r, t>> : r \in Shed(t)}))
    BY TailEach DEF Shed
  <2> QED BY <1>4, <2>1, <1>d DEF Destroy, durable, callers, cells
<1>5. ASSUME NEW t \in Token, Discard(p, t) PROVE Cells'
  <2>1. Tailable(Each("drops", {x \in held : x[2] = t}))
    BY <1>0, TailEach DEF StateOK
  <2>2. Tailable(SetCapTo(t, NoCap))
    <3>1. [op |-> "setcap", tok |-> t, n |-> NoCap] \in Frame
      BY DEF Frame
    <3> QED BY <3>1, TailOne DEF SetCapTo, Deferred, Calls
  <2>3. Tailable(Each("drops", {x \in held : x[2] = t}) \o SetCapTo(t, NoCap))
    BY <2>1, <2>2, TailJoin
  <2> QED BY <1>5, <2>3, <1>d DEF Discard, durable, cells
<1>6. ASSUME NEW t \in Token, Transfer(p, t) PROVE Cells'
  <2> DEFINE moved == {x \in held : x[2] = t}
  <2>0. t \in Builds /\ InstanceOf[t] \in Token /\ caps[t] \in Nat \cup {NoCap}
    BY <1>0, <1>6, ConstantsOK DEF StateOK, Transfer
  <2>1. Tailable(Each("retags", moved))
    <3>1. moved \subseteq Res \X Builds
      BY <1>0, <2>0 DEF StateOK
    <3> QED BY <3>1, TailEach
  <2>2. Tailable(SetCapTo(InstanceOf[t], caps[t]))
    <3>1. [op |-> "setcap", tok |-> InstanceOf[t], n |-> caps[t]] \in Frame
      BY <2>0 DEF Frame
    <3> QED BY <3>1, TailOne DEF SetCapTo, Deferred, Calls
  <2>3. Tailable(SetCapTo(InstanceOf[t], caps[t]) \o Each("retags", moved))
    BY <2>1, <2>2, TailJoin
  <2>4. /\ \/ todo' = SetCapTo(InstanceOf[t], caps[t]) \o Each("retags", moved)
           \/ todo' = Each("retags", moved)
        /\ UNCHANGED <<reg, cells, maker, cl>>
    BY <1>6 DEF Transfer
  <2> QED BY <2>1, <2>3, <2>4, <1>d
<1>7. ASSUME NEW t \in Token, LostBuildCall(p, t) PROVE Cells'
  BY <1>7, <1>n DEF LostBuildCall, durable, cells
<1>8. ASSUME NEW r \in Heap, NEW w \in HeapSizes, Reconcile(p, r, w) PROVE Cells'
  <2>1. UNCHANGED <<cells, maker, cl>> /\ r \in Res /\ r \notin Memory
    BY <1>8, RowSets DEF Reconcile, callers
  <2>2. \A m \in Memory : RowSame(m)
    <3>1. CASE UNCHANGED reg
      BY <3>1, SameSaid
    <3>2. CASE reg' = [reg EXCEPT ![r].pages = w]
      <4>1. reg' = [reg EXCEPT ![r] = [reg[r] EXCEPT !.pages = w]]
        BY <3>2
      <4> QED BY <1>0, <2>1, <4>1, Rewrites
    <3> QED BY <1>8, <3>1, <3>2 DEF Reconcile
  <2>3. HeadSays'
    <3>1. CASE todo' = <<[op |-> "shrunk", res |-> r, n |-> reg[r].pages - w]>>
      <4>1. todo' # <<>> /\ Head(todo').op = "shrunk"
        BY <3>1
      <4> QED BY <4>1, Mute DEF Speaking
    <3>2. CASE todo' = <<[op |-> "grown", res |-> r, n |-> w]>>
      <4>1. todo' # <<>> /\ Head(todo').op = "grown"
        BY <3>2
      <4> QED BY <4>1, Mute DEF Speaking
    <3> QED BY <1>8, <3>1, <3>2 DEF Reconcile
  <2> QED BY <2>1, <2>2, <2>3, SameClients, Unsaid
<1>9. ASSUME NEW i \in Image, ImageReserve(p, i) PROVE Cells'
  <2>1. /\ UNCHANGED <<reg, cells, maker, cl>>
        /\ todo' = Insert(p, i, SnapOf[i])
        /\ i \in Res \ minted /\ SnapOf[i] \in Token /\ i \notin Memory
    BY <1>9, ConstantsOK DEF ImageReserve, Res
  <2> QED BY <2>1, InsertSays DEF cells
<1> QED BY <1>1, <1>2, <1>3, <1>4, <1>5, <1>6, <1>7, <1>8, <1>9 DEF Request

-----------------------------------------------------------------------------
(* Rows made, kept and reclaimed.                                          *)

\* A new row says what its memory is made with.
LEMMA InsertRowCells ==
    ASSUME Inv, Budget, Cells, InsertRow PROVE Cells'
<1> DEFINE f == Head(todo)
           r == f.res
           w == NewRow(r, f.tok)
<1>0. /\ StateOK /\ HeadOK /\ HeadSays /\ up /\ todo # <<>> /\ f \in Frame /\ f.op = "insert"
      /\ UNCHANGED <<cells, cl, maker>>
  BY HeadFrame DEF Inv, Cells, InsertRow, callers
<1>1. r \in Res /\ f.tok \in Token /\ reg[r] = None
  BY <1>0, FrameFields DEF Budget, FramesFit
<1>2. reg'[r] = w /\ \A y \in Res \ {r} : reg'[y] = reg[y]
  <2>1. reg' = [reg EXCEPT ![r] = w]
    BY DEF InsertRow
  <2> HIDE DEF w
  <2> QED BY <1>0, <1>1, <2>1, RowSet
<1>3. w # None /\ w.txn = None
  <2>1. w \in Row /\ w.txn = None
    BY <1>1, NewRowTyped
  <2> HIDE DEF w
  <2> QED BY <2>1, RowSets
<1>4. ASSUME NEW m \in Memory, m = r PROVE Says(m)'
  <2>1. maker[m] = None /\ (ImageOf[m] # None => arena[m] = 0)
    BY <1>0, <1>4 DEF HeadOK, HeadSays
  <2>2. /\ w.pages = InitPages[m] /\ w.arena = 0
        /\ w.growth = growth_pages(InitPages[m], ImagePages[m], ChunkPages[m])
    BY <1>4 DEF NewRow
  <2>3. ~growing(m)' /\ ~extending(m)'
    BY <1>2, <1>3, <1>4 DEF growing, extending
  <2> HIDE DEF w
  <2>4. RowSays(m)'
    BY <1>2, <1>4, <2>2, <2>3 DEF RowSays, Grown
  <2>5. CellsSay(m)'
    <3>1. maker'[m] = None /\ (ImageOf[m] # None => arena'[m] = 0) /\ reg'[m].arena = 0
      BY <1>0, <1>2, <1>4, <2>1, <2>2 DEF cells
    <3> QED BY <2>3, <3>1, ArenaParts DEF CellsSay
  <2> QED BY <2>4, <2>5 DEF Says
<1>5. ASSUME NEW m \in Memory, m # r PROVE Says(m)'
  <2>1. RowSame(m)
    BY <1>2, <1>5, RowSets DEF RowSame
  <2> QED BY <1>0, <2>1, StillSays DEF Cells, cells
<1>6. \A m \in Memory : RowSame(m) \/ reg'[m].txn = None
  BY <1>2, <1>3, RowSets DEF RowSame
<1>7. \A p \in Pid : WriterHas(p)'
  BY <1>0, <1>6, SameClients, StillHas DEF Cells, Inv, WriterOK
<1>8. HeadSays'
  <2>1. CASE r \in Memory
    <3> DEFINE g == [f EXCEPT !.op = "reserved"]
    <3>1. Then(<<g>>)
      BY <2>1 DEF InsertRow
    <3>2. g.op = "reserved"
      <4>1. f \in [op : {"insert", "reserved"}, pid : Pid, res : Res, tok : Token]
        BY <1>0 DEF Frame
      <4> QED BY <4>1
    <3> HIDE DEF g
    <3>3. todo' # <<>> /\ Head(todo') = g
      BY <1>0, <3>1, SpeaksOn
    <3> QED BY <3>2, <3>3, Mute DEF Speaking
  <2>2. CASE r \notin Memory
    <3>1. Then(<<>>)
      BY <2>2 DEF InsertRow
    <3> QED BY <1>0, <3>1, SpeaksOn
  <2> QED BY <2>1, <2>2
<1> QED BY <1>4, <1>5, <1>7, <1>8 DEF Cells

\* Cells forgotten have no chunks to be charged for.
LEMMA ForgetCells ==
    ASSUME Inv, Budget, Cells, ForgetMeta PROVE Cells'
<1> DEFINE f == Head(todo)
           r == f.res
           w == reg[r]
<1>0. /\ StateOK /\ HeadOK /\ up /\ todo # <<>> /\ f \in Frame /\ f.op = "forget"
      /\ UNCHANGED <<reg, cl, size, maker>>
      /\ chunks \in [Memory -> Nat \cup {Absent}] /\ arena \in [Memory -> Nat \cup {Absent}]
  BY HeadFrame DEF Inv, StateOK, ForgetMeta, callers
<1>1. r \in Res /\ w \in Row /\ w # None
  BY <1>0, FrameFields, RowSets DEF HeadOK, StateOK
<1>2. /\ \A m \in Memory \ {r} : chunks'[m] = chunks[m] /\ arena'[m] = arena[m]
      /\ r \in Memory => arena'[r] = Absent
      /\ r \in Memory /\ r \in Observable => chunks'[r] = Absent
  <2>1. CASE r \in Memory
    <3>1. /\ chunks' = IF r \in Observable THEN [chunks EXCEPT ![r] = Absent] ELSE chunks
          /\ arena' = [arena EXCEPT ![r] = Absent]
      BY <2>1 DEF ForgetMeta
    <3> HIDE DEF r
    <3> QED BY <1>0, <2>1, <3>1
  <2>2. CASE r \notin Memory
    BY <2>2 DEF ForgetMeta
  <2> QED BY <2>1, <2>2
<1>3. \A m \in Memory : RowSame(m)
  BY <1>0, SameSaid
<1>4. ASSUME NEW m \in Memory, m = r PROVE Says(m)'
  <2>1. RowSays(m) /\ CellsSay(m) /\ RowFits(reg[m]) /\ reg[m] \in Row /\ reg'[m] = reg[m]
    BY <1>0, <1>1, <1>4 DEF Cells, Says, Budget, RowsFit
  <2>2. growing(m)' = growing(m) /\ extending(m)' = extending(m)
    BY <1>0 DEF growing, extending
  <2>3. RowSays(m)'
    BY <1>0, <2>1, <2>2 DEF RowSays
  <2>4. m \in Observable => Owns(m, chunks'[m]) <= 0 /\ Owns(m, chunks'[m]) \in Int
    BY <1>2, <1>4, OwnsMono DEF Absent
  <2>5. arena_cost(0, arena'[m]) <= 0 /\ arena_cost(0, arena'[m]) \in Int
    BY <1>2, <1>4, ArenaParts
  <2>6. /\ reg[m].growth \in Int /\ reg[m].arena \in Int /\ reg[m].growth >= 0 /\ reg[m].arena >= 0
        /\ growing(m) => Grown(m, reg[m].txn.from) \in Nat
        /\ extending(m) => reg[m].txn.pd \in Int /\ reg[m].txn.pd <= reg[m].arena
    BY <2>1, RowFields, RowEnds, GrownNat DEF RowFits, growing, extending
  <2> DEFINE oc == Owns(m, chunks'[m])
             ac == arena_cost(0, arena'[m])
             gf == Grown(m, reg[m].txn.from)
  <2>7. m \in Observable => oc <= reg[m].growth /\ (growing(m) => oc <= gf)
    BY <2>4, <2>6
  <2>8. ac <= reg[m].arena /\ (extending(m) => ac <= reg[m].arena - reg[m].txn.pd)
    <3> HIDE DEF ac
    <3>1. ac \in Int /\ ac <= 0
      BY <2>5 DEF ac
    <3> DEFINE a == reg[m].arena
               q == reg[m].txn.pd
    <3>2. a \in Int /\ a >= 0 /\ (extending(m) => q \in Int /\ q <= a)
      BY <2>6
    <3> HIDE DEF a, q
    <3>3. ac <= a /\ (extending(m) => ac <= a - q)
      BY <3>1, <3>2
    <3> QED BY <3>3 DEF a, q
  <2> HIDE DEF oc, ac, gf
  <2>9. CellsSay(m)'
    BY <1>0, <2>1, <2>2, <2>7, <2>8 DEF CellsSay, oc, ac, gf
  <2> QED BY <2>3, <2>9 DEF Says
<1>5. ASSUME NEW m \in Memory, m # r PROVE Says(m)'
  BY <1>0, <1>2, <1>3, <1>5, StillSays DEF Cells
<1>6. \A p \in Pid : WriterHas(p)'
  BY <1>0, <1>3, SameClients, StillHas DEF Cells, Inv, WriterOK
<1>7. HeadSays'
  <2> DEFINE g == [op |-> "delete", res |-> r]
  <2>1. Then(<<g>>) /\ g.op = "delete"
    BY DEF ForgetMeta, Do
  <2> HIDE DEF g
  <2>2. todo' # <<>> /\ Head(todo') = g
    BY <1>0, <2>1, SpeaksOn
  <2> QED BY <2>1, <2>2, Mute DEF Speaking
<1> QED BY <1>4, <1>5, <1>6, <1>7 DEF Cells

\* A frame that speaks of no cell takes over.
LEMMA ToMute ==
    ASSUME Inv, todo # <<>>, NEW a, a.op \notin Speaking, Then(<<a>>) PROVE HeadSays'
<1>1. todo' # <<>> /\ Head(todo') = a
  BY SpeaksOn
<1> QED BY <1>1, Mute

\* A row with other holders, another state or other outcomes.
LEMMA Relabels ==
    ASSUME StateOK, NEW r \in Res, reg[r] # None, NEW h, NEW s, NEW d,
           \/ reg' = [reg EXCEPT ![r].holders = h]
           \/ reg' = [reg EXCEPT ![r].state = s]
           \/ reg' = [reg EXCEPT ![r].holders = h, ![r].state = s]
           \/ reg' = [reg EXCEPT ![r].done = d]
    PROVE  \A m \in Memory : RowSame(m)
<1>0. reg[r] \in Row
  BY DEF StateOK
<1>1. ASSUME NEW w, reg' = [reg EXCEPT ![r] = w], w.pages = reg[r].pages,
             w.growth = reg[r].growth, w.arena = reg[r].arena, w.txn = reg[r].txn
      PROVE  \A m \in Memory : RowSame(m)
  BY <1>1, Rewrites
<1>2. CASE reg' = [reg EXCEPT ![r].holders = h]
  <2> DEFINE w == [reg[r] EXCEPT !.holders = h]
  <2>1. reg' = [reg EXCEPT ![r] = w]
    BY <1>2
  <2>2. w.pages = reg[r].pages /\ w.growth = reg[r].growth /\ w.arena = reg[r].arena
        /\ w.txn = reg[r].txn
    BY <1>0 DEF Row
  <2> HIDE DEF w
  <2> QED BY <2>1, <2>2, <1>1
<1>3. CASE reg' = [reg EXCEPT ![r].state = s]
  <2> DEFINE w == [reg[r] EXCEPT !.state = s]
  <2>1. reg' = [reg EXCEPT ![r] = w]
    BY <1>3
  <2>2. w.pages = reg[r].pages /\ w.growth = reg[r].growth /\ w.arena = reg[r].arena
        /\ w.txn = reg[r].txn
    BY <1>0 DEF Row
  <2> HIDE DEF w
  <2> QED BY <2>1, <2>2, <1>1
<1>4. CASE reg' = [reg EXCEPT ![r].holders = h, ![r].state = s]
  <2> DEFINE w == [reg[r] EXCEPT !.holders = h, !.state = s]
  <2>1. reg' = [reg EXCEPT ![r] = w]
    BY <1>4 DEF StateOK
  <2>2. w.pages = reg[r].pages /\ w.growth = reg[r].growth /\ w.arena = reg[r].arena
        /\ w.txn = reg[r].txn
    BY <1>0 DEF Row
  <2> HIDE DEF w
  <2> QED BY <2>1, <2>2, <1>1
<1>5. CASE reg' = [reg EXCEPT ![r].done = d]
  <2> DEFINE w == [reg[r] EXCEPT !.done = d]
  <2>1. reg' = [reg EXCEPT ![r] = w]
    BY <1>5
  <2>2. w.pages = reg[r].pages /\ w.growth = reg[r].growth /\ w.arena = reg[r].arena
        /\ w.txn = reg[r].txn
    BY <1>0 DEF Row
  <2> HIDE DEF w
  <2> QED BY <2>1, <2>2, <1>1
<1> QED BY <1>2, <1>3, <1>4, <1>5

\* The steps of holders and of reclaiming.
LEMMA HoldCells ==
    ASSUME Inv, Budget, Cells,
           \/ SetCap \/ Retag \/ HeapShrunk \/ HeapGrown
           \/ Drop \/ Unhold \/ DeleteRow \/ GiveBack \/ AfterRetire
    PROVE  Cells'
<1> DEFINE f == Head(todo)
<1>0. StateOK /\ HeadOK
  BY DEF Inv
<1>s. ASSUME \A m \in Memory : RowSame(m), UNCHANGED <<cells, maker, cl>>, HeadSays'
      PROVE  Cells'
  BY <1>s, SameClients, Unsaid
<1>1. CASE SetCap
  <2>1. todo # <<>> /\ Then(<<>>) /\ UNCHANGED <<reg, cells, maker, cl>>
    BY <1>1 DEF SetCap, At, callers
  <2> QED BY <2>1, SpeaksOn, SameSaid, <1>s
<1>2. CASE Retag
  <2>1. up /\ todo # <<>> /\ f \in Frame /\ f.op = "retags"
    BY <1>2, HeadFrame DEF Retag
  <2>2. f.set \subseteq Res \X Builds /\ UNCHANGED <<cells, maker, cl>>
    BY <1>2, <2>1, FrameFields DEF Retag, callers
  <2>3. PICK x \in f.set :
          /\ \/ /\ reg[x[1]] # None
                /\ reg' = [reg EXCEPT ![x[1]].holders = (@ \ {x[2]}) \cup {InstanceOf[x[2]]}]
             \/ UNCHANGED reg
          /\ Then(Each("retags", f.set \ {x}))
    BY <1>2 DEF Retag
  <2>4. HeadSays'
    <3> DEFINE S == f.set \ {x}
    <3>1. "retags" \in Deferred /\ Then(Each("retags", S))
      BY <2>3 DEF Deferred
    <3> HIDE DEF S
    <3> QED BY <2>1, <3>1, SpeaksOn
  <2>5. \A m \in Memory : RowSame(m)
    <3>1. CASE UNCHANGED reg
      BY <3>1, SameSaid
    <3>2. CASE /\ reg[x[1]] # None
               /\ reg' = [reg EXCEPT ![x[1]].holders = (@ \ {x[2]}) \cup {InstanceOf[x[2]]}]
      <4> DEFINE r == x[1]
                 h == (reg[r].holders \ {x[2]}) \cup {InstanceOf[x[2]]}
      <4>1. r \in Res /\ reg[r] # None /\ reg' = [reg EXCEPT ![r].holders = h]
        BY <2>2, <2>3, <3>2
      <4> HIDE DEF h, r
      <4> QED BY <1>0, <4>1, Relabels
    <3> QED BY <2>3, <3>1, <3>2
  <2> QED BY <2>2, <2>4, <2>5, <1>s
<1>3. CASE HeapShrunk
  <2>1. todo # <<>> /\ Then(<<>>) /\ UNCHANGED <<reg, cells, maker, cl>>
    BY <1>3 DEF HeapShrunk, At, callers
  <2> QED BY <2>1, SpeaksOn, SameSaid, <1>s
<1>4. CASE HeapGrown
  <2>1. up /\ todo # <<>> /\ f.op = "grown" /\ Then(<<>>) /\ UNCHANGED <<cells, maker, cl>>
    BY <1>4 DEF HeapGrown, At, callers
  <2>2. f.res \in Res /\ f.res \notin Memory
    BY <2>1, RowSets DEF Budget, FramesFit
  <2>3. reg' = [reg EXCEPT ![f.res] = [reg[f.res] EXCEPT !.pages = f.n]]
    BY <1>4 DEF HeapGrown
  <2>4. \A m \in Memory : RowSame(m)
    BY <1>0, <2>2, <2>3, Rewrites
  <2> QED BY <2>1, <2>4, SpeaksOn, <1>s
<1>5. CASE Drop
  <2>1. todo # <<>> /\ UNCHANGED <<reg, cells, maker, cl>>
    BY <1>5 DEF Drop, At, callers
  <2>2. PICK x : \/ Then(<<[op |-> "unhold", res |-> x[1], tok |-> x[2]]>>
                         \o Each("drops", f.set \ {x}))
                 \/ Then(Each("drops", f.set \ {x}))
    BY <1>5 DEF Drop, DoFor
  <2>3. HeadSays'
    <3> DEFINE S == f.set \ {x}
               g == [op |-> "unhold", res |-> x[1], tok |-> x[2]]
    <3>1. "drops" \in Deferred /\ g.op \notin Speaking
      BY DEF Deferred, Speaking
    <3>2. Then(<<g>> \o Each("drops", S)) \/ Then(Each("drops", S))
      BY <2>2
    <3> HIDE DEF S, g
    <3>3. CASE Then(Each("drops", S))
      BY <2>1, <3>1, <3>3, SpeaksOn
    <3>4. CASE Then(<<g>> \o Each("drops", S))
      BY <2>1, <3>1, <3>4, SpeaksOver
    <3> QED BY <3>2, <3>3, <3>4
  <2> QED BY <2>1, <2>3, SameSaid, <1>s
<1>6. CASE Unhold
  <2> DEFINE r == f.res
  <2>1. /\ up /\ todo # <<>> /\ f \in Frame /\ f.op = "unhold"
    BY <1>6, HeadFrame DEF Unhold
  <2>2. r \in Res /\ reg[r] # None
    BY <1>0, <2>1, FrameFields DEF HeadOK
  <2>3. PICK h, s : reg' = [reg EXCEPT ![r].holders = h, ![r].state = s]
    BY <1>6 DEF Unhold
  <2>4. UNCHANGED <<cells, maker, cl>>
    BY <1>6 DEF Unhold, callers
  <2>5. \A m \in Memory : RowSame(m)
    <3> HIDE DEF r
    <3> QED BY <1>0, <2>2, <2>3, Relabels
  <2>6. HeadSays'
    <3> DEFINE g == [op |-> "forget", res |-> r]
    <3>1. g.op \notin Speaking /\ (Then(<<g>>) \/ Then(<<>>))
      BY <1>6 DEF Unhold, Do, Speaking
    <3> HIDE DEF g
    <3> QED BY <2>1, <3>1, ToMute, SpeaksOn
  <2> QED BY <2>4, <2>5, <2>6, <1>s
<1>7. CASE DeleteRow
  <2> DEFINE r == f.res
  <2>1. /\ up /\ todo # <<>> /\ f \in Frame /\ f.op = "delete" /\ UNCHANGED <<cells, maker, cl>>
    BY <1>7, HeadFrame DEF DeleteRow, callers
  <2>2. r \in Res /\ reg' = [reg EXCEPT ![r] = None]
    BY <1>7, <2>1, FrameFields DEF DeleteRow
  <2>3. \A m \in Memory : RowSame(m)
    <3>1. reg'[r] = None /\ \A y \in Res \ {r} : reg'[y] = reg[y]
      BY <1>0, <2>2, RowSet
    <3> QED BY <3>1, RowSets DEF RowSame
  <2>4. HeadSays'
    <3> DEFINE g == [op |-> "giveback", res |-> r, n |-> charged(r, reg[r])]
    <3>1. g.op \notin Speaking /\ Then(<<g>>)
      BY <1>7 DEF DeleteRow, Speaking
    <3> HIDE DEF g
    <3> QED BY <2>1, <3>1, ToMute
  <2> QED BY <2>1, <2>3, <2>4, <1>s
<1>8. CASE GiveBack
  <2>1. todo # <<>> /\ UNCHANGED <<reg, cells, maker, cl>>
    BY <1>8 DEF GiveBack, At, callers
  <2>2. HeadSays'
    <3> DEFINE g == [op |-> "uncount", res |-> f.res]
    <3>1. g.op \notin Speaking /\ (Then(<<g>>) \/ Then(<<>>))
      BY <1>8 DEF GiveBack, Do, Speaking
    <3> HIDE DEF g
    <3> QED BY <2>1, <3>1, ToMute, SpeaksOn
  <2> QED BY <2>1, <2>2, SameSaid, <1>s
<1>9. CASE AfterRetire
  <2> DEFINE i == ImageOf[f.res]
  <2>1. /\ up /\ todo # <<>> /\ f \in Frame /\ f.op = "uncount" /\ UNCHANGED <<cells, maker, cl>>
    BY <1>9, HeadFrame DEF AfterRetire, callers
  <2>2. f.res \in Memory /\ i # None
    BY <1>0, <2>1, FrameFields DEF HeadOK
  <2>3. i \in Image /\ i \in Res
    BY <2>2, RowSets, ConstantsOK
  <2>4. \A m \in Memory : RowSame(m)
    <3>1. CASE UNCHANGED reg
      BY <3>1, SameSaid
    <3>2. CASE reg[i] # None /\ reg' = [reg EXCEPT ![i].state = "retiring"]
      <4> HIDE DEF i
      <4> QED BY <1>0, <2>3, <3>2, Relabels
    <3> QED BY <1>9, <3>1, <3>2 DEF AfterRetire
  <2>5. HeadSays'
    <3> DEFINE g == [op |-> "forget", res |-> i]
    <3>1. g.op \notin Speaking /\ (Then(<<g>>) \/ Then(<<>>))
      BY <1>9 DEF AfterRetire, Do, Speaking
    <3> HIDE DEF g
    <3> QED BY <2>1, <3>1, ToMute, SpeaksOn
  <2> QED BY <2>1, <2>4, <2>5, <1>s
<1> QED BY <1>1, <1>2, <1>3, <1>4, <1>5, <1>6, <1>7, <1>8, <1>9

\* One caller moves to a phase in which it writes nothing.
LEMMA StopsWriting ==
    ASSUME StateOK, NEW p \in Pid, NEW d, d.ph \notin Writing,
           UNCHANGED cl \/ cl' = [cl EXCEPT ![p] = d]
    PROVE  \A q \in Pid : ClientSame(q)
<1>1. CASE UNCHANGED cl
  BY <1>1, SameClients
<1>2. CASE cl' = [cl EXCEPT ![p] = d]
  <2>1. cl'[p] = d /\ \A q \in Pid \ {p} : cl'[q] = cl[q]
    BY <1>2 DEF StateOK
  <2> QED BY <2>1 DEF ClientSame
<1> QED BY <1>1, <1>2

\* The steps that roll over a set, and the answers.
LEMMA RollCells ==
    ASSUME Inv, Budget, Cells,
           \/ Reserved \/ Undone \/ WriterGone \/ ReplyStep
           \/ FinishRetiring \/ RecoverRow \/ SweepImages \/ ReconcileCounters
    PROVE  Cells'
<1> DEFINE f == Head(todo)
<1>0. StateOK /\ HeadOK /\ cl \in [Pid -> Client] /\ reg \in [Res -> Row \cup {None}]
  BY DEF Inv, StateOK
<1>s. ASSUME \A m \in Memory : RowSame(m), UNCHANGED <<cells, maker, cl>>, HeadSays'
      PROVE  Cells'
  BY <1>s, SameClients, Unsaid
<1>r. ASSUME todo # <<>>, NEW op \in Deferred, NEW S, NEW g, g.op \notin Speaking,
             NEW s, s = <<>> \/ s = <<g>>, Then(s \o Each(op, S))
      PROVE  HeadSays'
  BY <1>r, SpeaksOver
<1>1. CASE Reserved
  <2>1. up /\ todo # <<>> /\ f \in Frame /\ f.op = "reserved" /\ UNCHANGED <<reg, cells, maker>>
        /\ Then(<<>>)
    BY <1>1, HeadFrame DEF Reserved, durable, cells
  <2>2. f.pid \in Pid /\ cl[f.pid] \in Client
    BY <1>0, <2>1, FrameFields
  <2>3. \A q \in Pid : ClientSame(q)
    <3> DEFINE p == f.pid
               d == [cl[p] EXCEPT !.ph = "create", !.res = f.res, !.tok = f.tok, !.ans = "none"]
    <3>1. d.ph \notin Writing
      BY <2>2 DEF Client, Writing
    <3>2. UNCHANGED cl \/ cl' = [cl EXCEPT ![p] = d]
      BY <1>1 DEF Reserved
    <3>3. p \in Pid
      BY <2>2
    <3> HIDE DEF d, p
    <3> QED BY <1>0, <3>1, <3>2, <3>3, StopsWriting
  <2> QED BY <2>1, <2>3, SpeaksOn, SameSaid, Unsaid
<1>2. CASE Undone
  <2>1. todo # <<>> /\ UNCHANGED <<reg, cells, maker, cl>>
    BY <1>2 DEF Undone, At, callers
  <2>2. HeadSays'
    <3> DEFINE g == [op |-> "next", res |-> f.res]
    <3>1. g.op \notin Speaking /\ Then(<<g>>)
      BY <1>2 DEF Undone, Do, Speaking
    <3> HIDE DEF g
    <3> QED BY <2>1, <3>1, ToMute
  <2> QED BY <2>1, <2>2, SameSaid, <1>s
<1>3. CASE WriterGone
  <2>1. up /\ todo # <<>> /\ f \in Frame /\ f.op = "gone"
    BY <1>3, HeadFrame DEF WriterGone
  <2>2. f.set \subseteq Memory \X Pid /\ UNCHANGED <<cells, maker, cl>>
    BY <1>3, <2>1, FrameFields DEF WriterGone, callers
  <2>3. PICK x, s :
          /\ x \in f.set
          /\ s = <<>> \/ s = <<[op |-> "settle", res |-> x[1]]>>
          /\ \/ UNCHANGED reg /\ Then(Each("gone", f.set \ {x}))
             \/ /\ reg[x[1]] # None /\ reg' = [reg EXCEPT ![x[1]].done[x[2]] = None]
                /\ Then(s \o Each("gone", f.set \ {x}))
    BY <1>3 DEF WriterGone, Do
  <2>4. x[1] \in Res
    BY <2>2, <2>3, RowSets
  <2> DEFINE S == f.set \ {x}
             g == [op |-> "settle", res |-> x[1]]
  <2>5. "gone" \in Deferred /\ g.op \notin Speaking /\ (s = <<>> \/ s = <<g>>)
    BY <2>3 DEF Deferred, Speaking
  <2>6. CASE UNCHANGED reg /\ Then(Each("gone", S))
    <3> HIDE DEF S, g
    <3>1. HeadSays'
      BY <2>1, <2>5, <2>6, SpeaksOn
    <3> QED BY <2>2, <2>6, <3>1, SameSaid, <1>s
  <2>7. CASE /\ reg[x[1]] # None /\ reg' = [reg EXCEPT ![x[1]].done[x[2]] = None]
             /\ Then(s \o Each("gone", S))
    <3> DEFINE r == x[1]
               d == [reg[r].done EXCEPT ![x[2]] = None]
    <3>1. r \in Res /\ reg[r] # None /\ reg' = [reg EXCEPT ![r].done = d]
      BY <2>4, <2>7
    <3> HIDE DEF r, d, S, g
    <3>2. \A m \in Memory : RowSame(m)
      BY <1>0, <3>1, Relabels
    <3>3. HeadSays'
      BY <2>1, <2>5, <2>7, <1>r
    <3> QED BY <2>2, <3>2, <3>3, <1>s
  <2> QED BY <2>3, <2>6, <2>7
<1>4. CASE FinishRetiring
  <2>1. up /\ todo # <<>> /\ UNCHANGED <<reg, cells, maker, cl>>
    BY <1>4 DEF FinishRetiring, At, durable, callers, cells
  <2>2. PICK r, s : /\ (s = <<>> \/ s = <<[op |-> "forget", res |-> r]>>)
                    /\ Then(s \o Each("retiring", f.set \ {r}))
    BY <1>4 DEF FinishRetiring, Do
  <2> DEFINE S == f.set \ {r}
             g == [op |-> "forget", res |-> r]
  <2>3. g.op \notin Speaking /\ (s = <<>> \/ s = <<g>>) /\ "retiring" \in Deferred
        /\ Then(s \o Each("retiring", S))
    BY <2>2 DEF Speaking, Deferred
  <2> HIDE DEF g, S
  <2>4. HeadSays'
    BY <2>1, <2>3, <1>r
  <2> QED BY <2>1, <2>4, SameSaid, <1>s
<1>5. CASE RecoverRow
  <2>1. up /\ todo # <<>> /\ f \in Frame /\ f.op = "recover"
    BY <1>5, HeadFrame DEF RecoverRow
  <2>2. f.set \subseteq Memory /\ UNCHANGED <<cells, maker, cl>>
    BY <1>5, <2>1, FrameFields DEF RecoverRow, callers
  <2>3. PICK r, s :
          LET kept == {p \in alive : reg[r].done[p] # None} IN
          /\ r \in f.set
          /\ s = <<>> \/ s = <<[op |-> "settle", res |-> r]>>
          /\ \/ UNCHANGED reg /\ Then(Each("recover", f.set \ {r}))
             \/ /\ reg[r] # None
                /\ reg' = [reg EXCEPT ![r].done =
                             [p \in Pid |-> IF p \in kept THEN @[p] ELSE None]]
                /\ Then(s \o Each("recover", f.set \ {r}))
    BY <1>5 DEF RecoverRow, Do
  <2>4. r \in Res
    BY <2>2, <2>3, RowSets
  <2> DEFINE S == f.set \ {r}
             g == [op |-> "settle", res |-> r]
             kept == {p \in alive : reg[r].done[p] # None}
             d == [p \in Pid |-> IF p \in kept THEN reg[r].done[p] ELSE None]
  <2>5. "recover" \in Deferred /\ g.op \notin Speaking /\ (s = <<>> \/ s = <<g>>)
    BY <2>3 DEF Deferred, Speaking
  <2>6. CASE UNCHANGED reg /\ Then(Each("recover", S))
    <3> HIDE DEF S, g
    <3>1. HeadSays'
      BY <2>1, <2>5, <2>6, SpeaksOn
    <3> QED BY <2>2, <2>6, <3>1, SameSaid, <1>s
  <2>7. CASE /\ reg[r] # None /\ reg' = [reg EXCEPT ![r].done = d]
             /\ Then(s \o Each("recover", S))
    <3> HIDE DEF d, S, g
    <3>1. \A m \in Memory : RowSame(m)
      BY <1>0, <2>4, <2>7, Relabels
    <3>2. HeadSays'
      BY <2>1, <2>5, <2>7, <1>r
    <3> QED BY <2>2, <3>1, <3>2, <1>s
  <2> QED BY <2>3, <2>6, <2>7
<1>6. CASE SweepImages
  <2>1. up /\ todo # <<>> /\ f \in Frame /\ f.op = "sweep"
    BY <1>6, HeadFrame DEF SweepImages
  <2>2. f.set \subseteq Res /\ UNCHANGED <<cells, maker, cl>>
    BY <1>6, <2>1, FrameFields DEF SweepImages, callers
  <2>3. PICK i, s :
          /\ i \in f.set
          /\ s = <<>> \/ s = <<[op |-> "forget", res |-> i]>>
          /\ \/ UNCHANGED reg /\ Then(Each("sweep", f.set \ {i}))
             \/ /\ reg[i] # None /\ reg' = [reg EXCEPT ![i].state = "retiring"]
                /\ Then(s \o Each("sweep", f.set \ {i}))
    BY <1>6 DEF SweepImages, Do
  <2> DEFINE S == f.set \ {i}
             g == [op |-> "forget", res |-> i]
  <2>4. "sweep" \in Deferred /\ g.op \notin Speaking /\ (s = <<>> \/ s = <<g>>) /\ i \in Res
    BY <2>2, <2>3 DEF Deferred, Speaking
  <2>5. CASE UNCHANGED reg /\ Then(Each("sweep", S))
    <3> HIDE DEF S, g
    <3>1. HeadSays'
      BY <2>1, <2>4, <2>5, SpeaksOn
    <3> QED BY <2>2, <2>5, <3>1, SameSaid, <1>s
  <2>6. CASE /\ reg[i] # None /\ reg' = [reg EXCEPT ![i].state = "retiring"]
             /\ Then(s \o Each("sweep", S))
    <3> HIDE DEF S, g
    <3>1. \A m \in Memory : RowSame(m)
      BY <1>0, <2>4, <2>6, Relabels
    <3>2. HeadSays'
      BY <2>1, <2>4, <2>6, <1>r
    <3> QED BY <2>2, <3>1, <3>2, <1>s
  <2> QED BY <2>3, <2>5, <2>6
<1>7. CASE ReconcileCounters
  <2>1. todo # <<>> /\ Then(<<>>) /\ UNCHANGED <<reg, cells, maker, cl>>
    BY <1>7 DEF ReconcileCounters, At, callers
  <2> QED BY <2>1, SpeaksOn, SameSaid, <1>s
<1>8. CASE ReplyStep
  <2> DEFINE p == f.pid
             c == cl[p]
             res == f.res
             ph == CASE res \in {"refused", "gone"} -> "idle"
                     [] res \in {"covered", "changed"} -> "look"
                     [] res \in {"done", "ok", "failed", "raised"} -> "ack"
             ans == IF res = "ok" THEN "ok" ELSE IF res = "raised" THEN "raised" ELSE "failed"
             d == IF p \notin alive THEN [c EXCEPT !.ph = "idle"]
                  ELSE [c EXCEPT !.ph = ph, !.ans = ans]
  <2>1. up /\ todo # <<>> /\ f \in Frame /\ f.op = "reply" /\ UNCHANGED <<reg, arena, maker>>
        /\ Then(<<>>)
    BY <1>8, HeadFrame DEF ReplyStep
  <2>2. p \in Pid /\ c \in Client
        /\ res \in {"done", "refused", "gone", "covered", "changed", "ok", "failed", "raised"}
    BY <1>0, <2>1, FrameFields
  <2>3. d.ph \notin Writing
    <3>1. ph \in {"idle", "look", "ack"}
      BY <2>2
    <3> HIDE DEF ph, ans
    <3> QED BY <2>2, <3>1 DEF Client, Writing
  <2>4. cl' = [cl EXCEPT ![p] = d]
    BY <1>8 DEF ReplyStep
  <2>5. \A q \in Pid : ClientSame(q)
    <3> HIDE DEF d, p
    <3> QED BY <1>0, <2>2, <2>3, <2>4, StopsWriting
  <2>6. \A m \in Observable : chunks'[m] = chunks[m] /\ size'[m] = size[m]
    <3>1. \/ UNCHANGED <<chunks, size>>
          \/ /\ c.res \notin Observable
             /\ chunks' = [chunks EXCEPT ![c.res] = c.tup]
             /\ size' = [size EXCEPT ![c.res] = c.seen + c.n]
      BY <1>8 DEF ReplyStep
    <3>2. Observable \subseteq Memory
      BY ConstantsOK
    <3> HIDE DEF c
    <3> QED BY <1>0, <3>1, <3>2 DEF StateOK
  <2>7. \A m \in Memory : RowSame(m)
    BY <2>1, SameSaid
  <2>8. \A m \in Memory : Says(m)'
    BY <2>1, <2>6, <2>7, StillSays DEF Cells
  <2>9. \A q \in Pid : WriterHas(q)'
    BY <2>5, <2>7, StillHas DEF Cells, Inv, WriterOK
  <2>10. HeadSays'
    BY <2>1, SpeaksOn
  <2> QED BY <2>8, <2>9, <2>10 DEF Cells
<1> QED BY <1>1, <1>2, <1>3, <1>4, <1>5, <1>6, <1>7, <1>8

-----------------------------------------------------------------------------
(* Transactions.                                                           *)

\* A step on the row and the cells of one memory.
LEMMA OneSaid ==
    ASSUME Inv, Cells, NEW r \in Memory, UNCHANGED <<maker, cl>>, Says(r)', HeadSays',
           \A m \in Memory \ {r} : /\ reg'[m] = reg[m] /\ arena'[m] = arena[m]
                                   /\ chunks'[m] = chunks[m] /\ size'[m] = size[m],
           \A p \in Pid : cl[p].res = r => WriterHas(p)'
    PROVE  Cells'
<1>1. \A m \in Memory \ {r} : RowSame(m)
  BY DEF RowSame
<1>2. \A m \in Memory : Says(m)'
  <2> TAKE m \in Memory
  <2>1. CASE m = r
    BY <2>1
  <2>2. CASE m # r
    BY <1>1, <2>2, StillSays DEF Cells
  <2> QED BY <2>1, <2>2
<1>3. \A p \in Pid : WriterHas(p)'
  <2> TAKE p \in Pid
  <2>1. CASE cl[p].res = r
    BY <2>1
  <2>2. CASE cl[p].res # r
    <3>1. ClientSame(p)
      BY SameClients
    <3>2. \A m \in Memory : m = cl[p].res => RowSame(m) \/ reg'[m].txn = None
      BY <1>1, <2>2
    <3> QED BY <3>1, <3>2, StillHas DEF Cells, Inv, WriterOK
  <2> QED BY <2>1, <2>2
<1> QED BY <1>2, <1>3 DEF Cells

\* The row of a memory whose transaction has begun.
LEMMA StartedIs ==
    ASSUME StateOK, NEW p \in Pid, NEW r \in Memory, r = cl[p].res, reg[r] # None,
           NEW w, w = Started(p)
    PROVE  LET c == cl[p]  v == reg[r]  t == w.txn IN
           /\ t.kind = c.kind /\ t.pid = p /\ t.pd = Cost(p)
           /\ c.kind = "grow" =>
                /\ t.from = v.pages /\ t.to = v.pages + c.n
                /\ w.pages = v.pages + c.n /\ w.growth = v.growth + Cost(p) /\ w.arena = v.arena
                /\ Cost(p) = Grown(r, v.pages + c.n) - Grown(r, v.pages)
           /\ c.kind # "grow" =>
                /\ t.from = c.seen /\ t.to = c.n
                /\ w.pages = v.pages /\ w.growth = v.growth /\ w.arena = v.arena + Cost(p)
                /\ Cost(p) = arena_cost(c.seen, c.n)
<1> DEFINE c == cl[p]
           v == reg[r]
           t == NewTxn(p)
           q == Cost(p)
           grow == c.kind = "grow"
           d == [v.done EXCEPT ![p] = None]
           x == IF grow THEN t.to ELSE v.pages
           y == IF grow THEN v.growth + q ELSE v.growth
           z == IF grow THEN v.arena ELSE v.arena + q
<1>1. v \in Row
  BY RowSets DEF StateOK
<1>2. /\ t.pd = q /\ t.kind = c.kind /\ t.pid = p
      /\ t.from = (IF grow THEN v.pages ELSE c.seen)
      /\ t.to = (IF grow THEN v.pages + c.n ELSE c.n)
  BY DEF NewTxn
<1>3. /\ grow => q = Grown(r, v.pages + c.n) - Grown(r, v.pages)
      /\ ~grow => q = arena_cost(c.seen, c.n)
  BY DEF Cost, Grown
<1>4. w = [v EXCEPT !.pages = x, !.growth = y, !.arena = z, !.txn = t, !.done = d]
  <2> HIDE DEF q
  <2>1. t.kind = c.kind /\ t.pd = q
    BY <1>2
  <2> HIDE DEF t
  <2> QED BY <1>1, <2>1 DEF Row, Started, t
<1>5. w.pages = x /\ w.growth = y /\ w.arena = z /\ w.txn = t
  <2> HIDE DEF d, x, y, z, t, v
  <2> QED BY <1>1, <1>4 DEF Row
<1> HIDE DEF t, q
<1> QED BY <1>2, <1>3, <1>5 DEF q

\* A transaction begins: its row is charged for what it adds before any cell
\* is written.
LEMMA TxnRowCells ==
    ASSUME Inv, Inv', Budget, Cells, TxnRow PROVE Cells'
<1> DEFINE f == Head(todo)
           g == [op |-> "grant", pid |-> f.pid]
<1>0. /\ up /\ todo # <<>> /\ f \in Frame /\ f.op = "txn" /\ StateOK /\ HeadOK /\ HeadSays
      /\ FramesFit /\ RowsFit /\ UNCHANGED <<cells, maker, cl>>
  BY HeadFrame DEF TxnRow, Inv, Cells, Budget, callers
<1>p. PICK p \in Pid : p = f.pid
  BY <1>0, FrameFields
<1>1. cl[p].ph \in {"begin", "queued"} /\ cl[p] \in Client
      /\ cl[p].kind \in {"grow", "arena"} /\ cl[p].n \in Nat /\ cl[p].seen \in Nat
  BY <1>0, <1>p DEF HeadOK, StateOK, Client
<1>r. PICK r \in Memory : r = cl[p].res
  BY <1>1 DEF Inv, WriterOK, WriterIs
<1>2. /\ maker[r] # None /\ r \in Res /\ reg[r] # None /\ reg[r].txn = None /\ reg[r] \in Row
      /\ RowFits(reg[r]) /\ Cost(p) >= 0
      /\ cl[p].kind = "arena" => cl[p].seen <= cl[p].n /\ cl[p].seen = arena[r]
  <2>1. maker[r] # None
    BY <1>1, <1>r DEF Inv, WriterOK, WriterIs
  <2>2. reg[r] # None /\ reg[r].txn = None
    BY <1>0, <1>p, <1>r DEF HeadOK
  <2>3. Cost(p) >= 0 /\ (cl[p].kind = "arena" => cl[p].seen <= cl[p].n)
    BY <1>0, <1>p DEF FramesFit
  <2>4. cl[p].kind = "arena" => cl[p].seen = arena[r]
    BY <1>0, <1>p, <1>r DEF HeadSays
  <2> QED BY <1>0, <2>1, <2>2, <2>3, <2>4, RowSets DEF StateOK, RowsFit
<1>w. PICK w : w = Started(p)
  OBVIOUS
<1>3. reg' = [reg EXCEPT ![r] = w] /\ Then(<<g>>) /\ g.op = "grant" /\ g.pid = p
  BY <1>0, <1>p, <1>r, <1>w DEF TxnRow, Grant
<1>4. reg'[r] = w /\ \A y \in Res \ {r} : reg'[y] = reg[y]
  BY <1>0, <1>2, <1>3, RowSet
<1> HIDE DEF g
<1>5. todo' # <<>> /\ Head(todo') = g
  BY <1>0, <1>3, SpeaksOn
<1>6. w # None /\ w.txn # None
  <2>1. InFlight(p)'
    BY <1>3, <1>5 DEF Inv, HeadOK
  <2> QED BY <1>0, <1>4, <1>r, <2>1 DEF InFlight
<1>7. HeadSays'
  BY <1>3, <1>5, Mute DEF Speaking
<1> DEFINE c == cl[p]
           v == reg[r]
           t == w.txn
           q == Cost(p)
<1>8. /\ t.kind = c.kind /\ t.pid = p /\ t.pd = q
      /\ c.kind = "grow" =>
           /\ t.from = v.pages /\ t.to = v.pages + c.n
           /\ w.pages = v.pages + c.n /\ w.growth = v.growth + q /\ w.arena = v.arena
           /\ q = Grown(r, v.pages + c.n) - Grown(r, v.pages)
      /\ c.kind # "grow" =>
           /\ t.from = c.seen /\ t.to = c.n
           /\ w.pages = v.pages /\ w.growth = v.growth /\ w.arena = v.arena + q
           /\ q = arena_cost(c.seen, c.n)
  BY <1>0, <1>2, <1>r, <1>w, StartedIs
<1>9. q \in Nat
  BY <1>0, <1>2, <1>r, StartedFits
<1>10. /\ RowSays(r) /\ CellsSay(r) /\ v.pages \in Nat /\ v.growth \in Int /\ v.arena \in Int
       /\ v.txn = None
  BY <1>2, RowFields DEF Cells, Says
<1> HIDE DEF q
<1>11. RowSays(r)'
  <2>1. w.growth = Grown(r, w.pages)
    <3>1. v.growth = Grown(r, v.pages) /\ Grown(r, v.pages) \in Nat
      BY <1>10, GrownNat DEF RowSays
    <3>2. CASE c.kind = "grow"
      <4>1. v.pages + c.n \in Nat
        BY <1>1, <1>10
      <4>2. Grown(r, v.pages + c.n) \in Nat
        BY <4>1, GrownNat
      <4> DEFINE ga == Grown(r, v.pages)
                 gb == Grown(r, v.pages + c.n)
      <4>3. w.growth = v.growth + q /\ q = gb - ga /\ v.growth = ga /\ ga \in Nat /\ gb \in Nat
            /\ w.pages = v.pages + c.n
        BY <1>8, <3>1, <3>2, <4>2
      <4>4. w.growth = gb
        <5> HIDE DEF ga, gb
        <5> QED BY <4>3
      <4> QED BY <4>3, <4>4
    <3>3. CASE c.kind # "grow"
      BY <1>8, <3>1, <3>3
    <3> QED BY <3>2, <3>3
  <2>2. growing(r)' => t.pd = Grown(r, t.to) - Grown(r, t.from)
    BY <1>4, <1>8 DEF growing
  <2>3. extending(r)' /\ ImageOf[r] # None => arena_cost(0, t.to) <= w.arena
    <3> SUFFICES ASSUME extending(r)', ImageOf[r] # None PROVE arena_cost(0, t.to) <= w.arena
      OBVIOUS
    <3>1. c.kind # "grow" /\ c.kind = "arena"
      BY <1>4, <1>8 DEF extending
    <3>2. arena_cost(0, c.seen) <= v.arena
      BY <1>2, <1>10, <3>1 DEF CellsSay
    <3>3. arena_cost(0, c.seen) + arena_cost(c.seen, c.n) = arena_cost(0, c.n)
          /\ arena_cost(0, c.seen) \in Nat
      BY <1>1, ArenaParts
    <3>4. t.to = c.n /\ w.arena = v.arena + q /\ q = arena_cost(c.seen, c.n)
      BY <1>8, <3>1
    <3> DEFINE aa == arena_cost(0, c.seen)
               ab == arena_cost(0, c.n)
    <3>5. aa <= v.arena /\ aa \in Nat /\ aa + q = ab /\ w.arena = v.arena + q /\ t.to = c.n
      BY <3>2, <3>3, <3>4
    <3>6. ab <= w.arena
      <4> HIDE DEF aa, ab
      <4> QED BY <1>9, <1>10, <3>5
    <3> QED BY <3>5, <3>6
  <2> QED BY <1>0, <1>2, <1>4, <2>1, <2>2, <2>3 DEF RowSays
<1>12. CellsSay(r)'
  <2>0. ~growing(r) /\ ~extending(r) /\ (growing(r)' <=> c.kind = "grow")
        /\ (extending(r)' => c.kind = "arena")
    BY <1>4, <1>6, <1>8, <1>10 DEF growing, extending
  <2>1. r \in Observable =>
           /\ Owns(r, chunks[r]) <= w.growth
           /\ growing(r)' => Owns(r, chunks[r]) <= Grown(r, t.from)
           /\ IF growing(r)' THEN size[r] \in {t.from, t.to} ELSE size[r] = w.pages
    <3> SUFFICES ASSUME r \in Observable
                 PROVE  /\ Owns(r, chunks[r]) <= w.growth
                        /\ growing(r)' => Owns(r, chunks[r]) <= Grown(r, t.from)
                        /\ IF growing(r)' THEN size[r] \in {t.from, t.to} ELSE size[r] = w.pages
      OBVIOUS
    <3>1. Owns(r, chunks[r]) <= v.growth /\ size[r] = v.pages
      BY <1>2, <1>10, <2>0 DEF CellsSay
    <3>2. Owns(r, chunks[r]) \in Int
      <4>1. chunks[r] \in Int
        BY <1>0 DEF StateOK, Absent
      <4> QED BY <4>1, OwnsMono
    <3>3. Owns(r, chunks[r]) <= w.growth
      <4> DEFINE o == Owns(r, chunks[r])
      <4>1. o <= v.growth /\ o \in Int /\ (w.growth = v.growth \/ w.growth = v.growth + q)
        BY <1>8, <3>1, <3>2
      <4> HIDE DEF o
      <4>2. o <= w.growth
        BY <1>9, <1>10, <4>1
      <4> QED BY <4>2 DEF o
    <3>4. growing(r)' => Owns(r, chunks[r]) <= Grown(r, t.from)
      <4>1. v.growth = Grown(r, v.pages)
        BY <1>10 DEF RowSays
      <4> QED BY <1>8, <2>0, <3>1, <4>1
    <3>5. IF growing(r)' THEN size[r] \in {t.from, t.to} ELSE size[r] = w.pages
      BY <1>8, <2>0, <3>1
    <3> QED BY <3>3, <3>4, <3>5
  <2>2. ImageOf[r] # None =>
           /\ arena_cost(0, arena[r]) <= w.arena
           /\ extending(r)' => arena_cost(0, arena[r]) <= w.arena - t.pd
    <3> SUFFICES ASSUME ImageOf[r] # None
                 PROVE  /\ arena_cost(0, arena[r]) <= w.arena
                        /\ extending(r)' => arena_cost(0, arena[r]) <= w.arena - t.pd
      OBVIOUS
    <3> DEFINE a == arena_cost(0, arena[r])
    <3>1. a <= v.arena
      BY <1>10 DEF CellsSay
    <3>2. a \in Int
      <4>1. arena[r] \in Nat \/ arena[r] = Absent
        BY <1>0 DEF StateOK
      <4>2. arena[r] \in Nat => a \in Int
        BY ArenaParts
      <4>3. arena[r] = Absent => a \in Int
        BY ArenaParts
      <4> QED BY <4>1, <4>2, <4>3
    <3>3. w.arena = v.arena \/ w.arena = v.arena + q
      BY <1>8
    <3>4. extending(r)' => w.arena = v.arena + q /\ t.pd = q
      BY <1>8, <2>0
    <3> HIDE DEF a
    <3>5. a <= w.arena /\ (extending(r)' => a <= w.arena - t.pd)
      BY <1>9, <1>10, <3>1, <3>2, <3>3, <3>4
    <3> QED BY <3>5 DEF a
  <2>3. UNCHANGED <<chunks, size, arena, maker>>
    BY <1>0 DEF cells
  <2> QED BY <1>4, <2>1, <2>2, <2>3 DEF CellsSay
<1>13. ASSUME NEW y \in Pid, cl[y].res = r PROVE WriterHas(y)'
  <2> SUFFICES ASSUME InFlight(y)' PROVE WriterHas(y)'
    BY DEF WriterHas
  <2>1. y = p
    BY <1>0, <1>4, <1>8, <1>13 DEF InFlight
  <2>2. cl'[y] = c
    BY <1>0, <2>1
  <2>3. c.kind = "arena" => reg'[r].txn.to = c.n
    BY <1>4, <1>8
  <2> QED BY <1>1, <1>r, <2>2, <2>3 DEF WriterHas
<1>14. Says(r)'
  BY <1>11, <1>12 DEF Says
<1>15. \A m \in Memory \ {r} : /\ reg'[m] = reg[m] /\ arena'[m] = arena[m]
                               /\ chunks'[m] = chunks[m] /\ size'[m] = size[m]
  BY <1>0, <1>4, RowSets DEF cells
<1> QED BY <1>0, <1>7, <1>13, <1>14, <1>15, OneSaid

\* A transaction that is over leaves nobody anything to have.
LEMMA Over ==
    ASSUME Inv, Cells, NEW r \in Memory, UNCHANGED cl, reg'[r].txn = None, NEW p \in Pid,
           cl[p].res = r
    PROVE  WriterHas(p)'
BY SameClients, StillHas DEF Cells, Inv, WriterOK

\* The writer learns what it starts from.
LEMMA GrantCells ==
    ASSUME Inv, Cells, GrantStep PROVE Cells'
<1> DEFINE f == Head(todo)
           p == f.pid
           c == cl[p]
           d == IF p \notin alive THEN [c EXCEPT !.ph = "idle"]
                ELSE [c EXCEPT !.ph = "extend", !.seen = reg[c.res].txn.from]
<1>0. /\ up /\ todo # <<>> /\ f \in Frame /\ f.op = "grant" /\ StateOK /\ HeadOK
      /\ UNCHANGED <<reg, cells, maker>> /\ Then(<<>>) /\ cl' = [cl EXCEPT ![p] = d]
  BY HeadFrame DEF GrantStep, Inv, durable, cells
<1>1. p \in Pid /\ c \in Client /\ c.ph \in {"begin", "queued"}
  BY <1>0, FrameFields DEF HeadOK, StateOK
<1>2. /\ d.op = c.op /\ d.res = c.res /\ d.kind = c.kind /\ d.n = c.n
      /\ d.ph \in {"idle", "extend"}
  BY <1>1 DEF Client
<1>3. \A q \in Pid : ClientSame(q)
  <2> HIDE DEF d, c
  <2> HIDE DEF p
  <2>1. cl'[p] = d /\ \A q \in Pid \ {p} : cl'[q] = cl[q]
    BY <1>0, <1>1 DEF StateOK
  <2>2. ClientSame(p)
    BY <1>1, <1>2, <2>1 DEF ClientSame, Writing, c
  <2> QED BY <2>1, <2>2 DEF ClientSame
<1> QED BY <1>0, <1>3, SpeaksOn, SameSaid, Unsaid

\* What a step finds of the row of a transaction.
LEMMA InTxn ==
    ASSUME Inv, Budget, Cells, NEW r \in Memory, reg[r] # None, reg[r].txn # None
    PROVE  LET w == reg[r]  t == w.txn IN
           /\ r \in Res /\ w \in Row /\ RowSays(r) /\ CellsSay(r) /\ maker[r] # None /\ RowFits(w)
           /\ w.pages \in Nat /\ w.growth \in Int /\ w.arena \in Int
           /\ t.from \in Nat /\ t.to \in Nat /\ t.pd \in Int /\ t.ct \in Nat
           /\ t.kind \in {"grow", "arena"} /\ t.pid \in Pid
           /\ chunks[r] \in Nat \cup {Absent} /\ arena[r] \in Nat \cup {Absent}
           /\ size[r] \in Nat
           /\ growing(r) <=> t.kind = "grow"
           /\ extending(r) <=> t.kind = "arena"
<1>1. r \in Res /\ reg[r] \in Row /\ maker[r] # None /\ RowFits(reg[r])
  BY RowSets DEF Inv, StateOK, TxnOK, Budget, RowsFit
<1>2. RowSays(r) /\ CellsSay(r)
  BY DEF Cells, Says
<1>3. /\ reg[r].txn.from \in Nat /\ reg[r].txn.to \in Nat /\ reg[r].txn.pd \in Int
      /\ reg[r].txn.ct \in Nat /\ reg[r].txn.kind \in {"grow", "arena"} /\ reg[r].txn.pid \in Pid
  BY <1>1, RowEnds
<1>4. reg[r].pages \in Nat /\ reg[r].growth \in Int /\ reg[r].arena \in Int
  BY <1>1, RowFields
<1>5. chunks[r] \in Nat \cup {Absent} /\ arena[r] \in Nat \cup {Absent} /\ size[r] \in Nat
  BY DEF Inv, StateOK
<1> QED BY <1>1, <1>2, <1>3, <1>4, <1>5 DEF growing, extending

\* The writes of a commit.
LEMMA PublishCells ==
    ASSUME Inv, Budget, Cells, PublishChunks \/ PublishSize \/ PublishArena PROVE Cells'
<1> DEFINE f == Head(todo)
<1>0. /\ StateOK /\ HeadOK /\ HeadSays /\ UNCHANGED <<reg, maker, cl>>
      /\ chunks \in [Memory -> Nat \cup {Absent}] /\ size \in [Memory -> Nat]
      /\ arena \in [Memory -> Nat \cup {Absent}]
  BY DEF Inv, StateOK, Cells, PublishChunks, PublishSize, PublishArena, callers
<1>h. ASSUME NEW p \in Pid PROVE WriterHas(p)'
  BY <1>0, SameSaid, SameClients, StillHas DEF Cells, Inv, WriterOK
<1>m. \A m \in Memory : growing(m)' = growing(m) /\ extending(m)' = extending(m)
                        /\ RowSays(m)' = RowSays(m)
  BY <1>0 DEF growing, extending, RowSays
<1>1. CASE PublishChunks
  <2>1. up /\ todo # <<>> /\ f \in Frame /\ f.op = "chunks" /\ UNCHANGED <<size, arena>>
    BY <1>1, HeadFrame DEF PublishChunks
  <2>r. PICK r \in Memory, p \in Pid : r = f.res /\ p = f.pid
    BY <2>1, FrameFields
  <2> DEFINE w == reg[r]
             t == w.txn
             c == cl[p]
  <2>2. w # None /\ t # None /\ t.kind = "grow" /\ c.ph = "commit" /\ c.tup >= t.ct
        /\ c.res = r /\ InFlight(p) /\ c.kind = "grow" /\ c.tup \in Nat
    <3>1. c \in Client
      BY <1>0 DEF StateOK
    <3> QED BY <1>0, <2>1, <2>r, <3>1 DEF HeadOK, HeadSays, Client
  <2>3. /\ RowSays(r) /\ CellsSay(r) /\ growing(r) /\ ~extending(r) /\ maker[r] # None
        /\ t.ct \in Nat
    BY <2>2, InTxn
  <2>4. r \in Observable => Owns(r, c.tup) <= w.growth
    BY <2>2 DEF Cells, WriterHas, Writing
  <2>5. /\ \A m \in Memory \ {r} : chunks'[m] = chunks[m]
        /\ chunks'[r] = IF r \in Observable /\ chunks[r] < t.ct THEN c.tup ELSE chunks[r]
    BY <1>0, <1>1, <2>r DEF PublishChunks, publish
  <2>6. CellsSay(r)'
    <3>1. r \in Observable =>
            Owns(r, chunks'[r]) <= w.growth
            /\ (chunks'[r] >= t.ct \/ Owns(r, chunks'[r]) <= Grown(r, t.from))
      <4> SUFFICES ASSUME r \in Observable
                   PROVE  Owns(r, chunks'[r]) <= w.growth
                          /\ (chunks'[r] >= t.ct \/ Owns(r, chunks'[r]) <= Grown(r, t.from))
        OBVIOUS
      <4>1. CASE chunks[r] < t.ct
        <5>1. chunks'[r] = c.tup
          BY <2>5, <4>1
        <5> QED BY <2>2, <2>4, <5>1
      <4>2. CASE ~(chunks[r] < t.ct)
        <5>1. chunks'[r] = chunks[r]
          BY <2>5, <4>2
        <5> QED BY <2>3, <5>1 DEF CellsSay
      <4> QED BY <4>1, <4>2
    <3> HIDE DEF c
    <3>2. size'[r] = size[r] /\ arena'[r] = arena[r] /\ reg'[r] = w /\ maker'[r] = maker[r]
      BY <1>0, <2>1
    <3> QED BY <1>m, <2>3, <3>1, <3>2 DEF CellsSay
  <2>7. Says(r)'
    BY <1>m, <2>3, <2>6 DEF Says
  <2>8. HeadSays'
    <3> DEFINE g == [op |-> "size", res |-> r]
    <3>1. g.op \notin Speaking /\ Then(<<g>>)
      BY <1>1, <2>r DEF PublishChunks, Do, Speaking
    <3> HIDE DEF g
    <3> QED BY <2>1, <3>1, ToMute
  <2> QED BY <1>0, <1>h, <2>1, <2>5, <2>7, <2>8, RowSets, OneSaid
<1>2. CASE PublishSize
  <2>1. up /\ todo # <<>> /\ f \in Frame /\ f.op = "size" /\ UNCHANGED <<chunks, arena>>
    BY <1>2, HeadFrame DEF PublishSize
  <2>r. PICK r \in Memory : r = f.res
    BY <2>1, FrameFields
  <2> DEFINE w == reg[r]
             t == w.txn
  <2>2. w # None /\ t # None /\ t.kind = "grow"
    BY <1>0, <2>1, <2>r DEF HeadOK
  <2>3. RowSays(r) /\ CellsSay(r) /\ growing(r) /\ ~extending(r) /\ maker[r] # None
    BY <2>2, InTxn
  <2>4. /\ \A m \in Memory \ {r} : size'[m] = size[m]
        /\ r \in Observable => size'[r] = t.to
    BY <1>0, <1>2, <2>r DEF PublishSize
  <2>5. CellsSay(r)'
    <3>1. chunks'[r] = chunks[r] /\ arena'[r] = arena[r] /\ reg'[r] = w /\ maker'[r] = maker[r]
      BY <1>0, <2>1
    <3> QED BY <1>m, <2>3, <2>4, <3>1 DEF CellsSay
  <2>6. Says(r)'
    BY <1>m, <2>3, <2>5 DEF Says
  <2>7. HeadSays'
    <3> DEFINE g == [op |-> "finish", res |-> r]
    <3>1. Then(<<g>>) /\ g.op = "finish" /\ g.res = r
      BY <1>2, <2>r DEF PublishSize, Do
    <3> HIDE DEF g
    <3>2. todo' # <<>> /\ Head(todo') = g
      BY <2>1, <3>1, SpeaksOn
    <3>3. r \in Observable => size'[r] = reg'[r].txn.to
      BY <1>0, <2>4
    <3> QED BY <3>1, <3>2, <3>3 DEF HeadSays
  <2> QED BY <1>0, <1>h, <2>1, <2>4, <2>6, <2>7, RowSets, OneSaid
<1>3. CASE PublishArena
  <2>1. up /\ todo # <<>> /\ f \in Frame /\ f.op = "arena" /\ UNCHANGED <<chunks, size>>
    BY <1>3, HeadFrame DEF PublishArena
  <2>r. PICK r \in Memory, p \in Pid : r = f.res /\ p = f.pid
    BY <2>1, FrameFields
  <2> DEFINE w == reg[r]
             t == w.txn
             c == cl[p]
  <2>2. w # None /\ t # None /\ c.ph = "commit" /\ c.res = r /\ InFlight(p) /\ c.kind = "arena"
        /\ c.tup \in Nat
    <3>1. c \in Client
      BY <1>0 DEF StateOK
    <3> QED BY <1>0, <2>1, <2>r, <3>1 DEF HeadOK, HeadSays, Client
  <2>3. t.kind = "arena"
    BY <2>2 DEF Inv, WriterOK, WriterIs
  <2>4. /\ RowSays(r) /\ CellsSay(r) /\ ~growing(r) /\ extending(r) /\ maker[r] # None
        /\ t.to \in Nat
    BY <2>2, <2>3, InTxn
  <2>5. c.tup >= t.to /\ (ImageOf[r] # None => arena_cost(0, c.tup) <= w.arena)
    BY <2>2 DEF Cells, WriterHas, Writing
  <2>6. /\ \A m \in Memory \ {r} : arena'[m] = arena[m]
        /\ arena'[r] = IF arena[r] < t.to THEN c.tup ELSE arena[r]
    BY <1>0, <1>3, <2>r DEF PublishArena, publish
  <2>7. CellsSay(r)'
    <3>1. ImageOf[r] # None =>
            /\ arena_cost(0, arena'[r]) <= w.arena
            /\ arena'[r] >= t.to \/ arena_cost(0, arena'[r]) <= w.arena - t.pd
      <4>1. CASE arena[r] < t.to
        <5>1. arena'[r] = c.tup
          BY <2>6, <4>1
        <5> QED BY <2>5, <5>1
      <4>2. CASE ~(arena[r] < t.to)
        <5>1. arena'[r] = arena[r]
          BY <2>6, <4>2
        <5> QED BY <2>4, <5>1 DEF CellsSay
      <4> QED BY <4>1, <4>2
    <3> HIDE DEF c
    <3>2. chunks'[r] = chunks[r] /\ size'[r] = size[r] /\ reg'[r] = w /\ maker'[r] = maker[r]
      BY <1>0, <2>1
    <3> QED BY <1>m, <2>4, <3>1, <3>2 DEF CellsSay
  <2>8. Says(r)'
    BY <1>m, <2>4, <2>7 DEF Says
  <2>9. HeadSays'
    <3> DEFINE g == [op |-> "finish", res |-> r]
    <3>1. Then(<<g>>) /\ g.op = "finish" /\ g.res = r
      BY <1>3, <2>r DEF PublishArena, Do
    <3> HIDE DEF g
    <3>2. todo' # <<>> /\ Head(todo') = g
      BY <2>1, <3>1, SpeaksOn
    <3>3. ~growing(r)'
      BY <1>m, <2>4
    <3> QED BY <3>1, <3>2, <3>3 DEF HeadSays, growing
  <2> QED BY <1>0, <1>h, <2>1, <2>6, <2>8, <2>9, RowSets, OneSaid
<1> QED BY <1>1, <1>2, <1>3

\* A transaction ends with its cells written.
LEMMA FinishCells ==
    ASSUME Inv, Budget, Cells, Finish PROVE Cells'
<1> DEFINE f == Head(todo)
<1>0. /\ up /\ todo # <<>> /\ f \in Frame /\ f.op = "finish" /\ StateOK /\ HeadOK /\ HeadSays
      /\ UNCHANGED <<cells, maker, cl>>
  BY HeadFrame DEF Finish, Inv, Cells
<1>r. PICK r \in Memory : r = f.res
  BY <1>0, FrameFields
<1> DEFINE w == reg[r]
           t == w.txn
           x == [w EXCEPT !.txn = None, !.done[t.pid] = [op |-> t.op, res |-> "ok"]]
<1>1. w # None /\ t # None
  BY <1>0, <1>r DEF HeadOK
<1>2. /\ r \in Res /\ w \in Row /\ RowSays(r) /\ CellsSay(r) /\ maker[r] # None /\ RowFits(w)
      /\ growing(r) <=> t.kind = "grow"
  BY <1>1, InTxn
<1>3. reg' = [reg EXCEPT ![r] = x]
  BY <1>0, <1>r, <1>2 DEF Finish, StateOK
<1>4. x.txn = None /\ x.pages = w.pages /\ x.growth = w.growth /\ x.arena = w.arena
  BY <1>2 DEF Row
<1> HIDE DEF x
<1>5. reg'[r] = x /\ \A y \in Res \ {r} : reg'[y] = reg[y]
  BY <1>0, <1>2, <1>3, RowSet
<1>6. ~growing(r)' /\ ~extending(r)'
  BY <1>4, <1>5 DEF growing, extending
<1>7. r \in Observable => size[r] = w.pages
  <2>1. CASE growing(r)
    BY <1>0, <1>1, <1>2, <1>r, <2>1 DEF HeadSays, RowFits
  <2>2. CASE ~growing(r)
    BY <1>2, <2>2 DEF CellsSay
  <2> QED BY <2>1, <2>2
<1>8. RowSays(r)'
  BY <1>0, <1>2, <1>4, <1>5, <1>6 DEF RowSays
<1>9. CellsSay(r)'
  BY <1>0, <1>2, <1>4, <1>5, <1>6, <1>7 DEF CellsSay, cells
<1>10. Says(r)'
  BY <1>8, <1>9 DEF Says
<1>11. HeadSays'
  <2> DEFINE g == [op |-> "next", res |-> r]
  <2>1. g.op \notin Speaking /\ Then(<<g>>)
    BY <1>0, <1>r DEF Finish, Do, Speaking
  <2> HIDE DEF g
  <2> QED BY <1>0, <2>1, ToMute
<1>12. \A p \in Pid : cl[p].res = r => WriterHas(p)'
  BY <1>0, <1>4, <1>5, Over
<1> QED BY <1>0, <1>5, <1>10, <1>11, <1>12, RowSets, OneSaid DEF cells

\* Undoing a transaction that published nothing leaves no cell uncharged.
LEMMA UndoSays ==
    ASSUME Inv, Budget, Cells, up, Settle, NEW r \in Memory, r = Head(todo).res, reg[r] # None,
           reg[r].txn # None, ~published(r, reg[r].txn), reg'[r] = Undo(reg[r], reg[r].txn),
           UNCHANGED <<cells, maker>>
    PROVE  Says(r)'
<1> DEFINE w == reg[r]
           t == w.txn
           x == Undo(w, t)
           o == Owns(r, chunks[r])
<1>1. /\ r \in Res /\ w \in Row /\ RowSays(r) /\ CellsSay(r) /\ maker[r] # None /\ RowFits(w)
      /\ w.pages \in Nat /\ w.growth \in Int /\ w.arena \in Int
      /\ t.from \in Nat /\ t.to \in Nat /\ t.pd \in Int /\ t.ct \in Nat
      /\ t.kind \in {"grow", "arena"}
      /\ chunks[r] \in Nat \cup {Absent} /\ arena[r] \in Nat \cup {Absent} /\ size[r] \in Nat
      /\ growing(r) <=> t.kind = "grow"
      /\ extending(r) <=> t.kind = "arena"
  BY InTxn
<1>2. /\ x.txn = None /\ x.pages = (IF t.kind = "grow" THEN t.from ELSE w.pages)
      /\ x.growth = (IF t.kind = "grow" THEN w.growth - t.pd ELSE w.growth)
      /\ x.arena = (IF t.kind = "grow" THEN w.arena ELSE w.arena - t.pd)
  BY <1>1 DEF Undo, Row
<1> HIDE DEF x
<1>3. reg'[r] = x /\ ~growing(r)' /\ ~extending(r)'
  BY <1>2 DEF growing, extending, x
<1>4. chunks' = chunks /\ size' = size /\ arena' = arena /\ maker' = maker
  BY DEF cells
<1>5. CASE t.kind = "arena"
  <2>1. RowSays(r)'
    BY <1>1, <1>2, <1>3, <1>4, <1>5 DEF RowSays
  <2>2. ~(arena[r] >= t.to)
    BY <1>5 DEF published
  <2>3. CellsSay(r)'
    BY <1>1, <1>2, <1>3, <1>4, <1>5, <2>2 DEF CellsSay
  <2> QED BY <2>1, <2>3 DEF Says
<1>6. CASE t.kind = "grow"
  <2>1. /\ w.growth = Grown(r, t.to) /\ t.pd = Grown(r, t.to) - Grown(r, t.from)
        /\ w.pages = t.to
    BY <1>1, <1>6 DEF RowSays, RowFits
  <2>2. Grown(r, t.to) \in Nat /\ Grown(r, t.from) \in Nat
    BY <1>1, GrownNat
  <2> DEFINE gf == Grown(r, t.from)
             gt == Grown(r, t.to)
  <2>3. x.growth = gf /\ (t.pd = 0 => w.growth = gf)
    <3>1. w.growth = gt /\ t.pd = gt - gf /\ gt \in Nat /\ gf \in Nat /\ x.growth = w.growth - t.pd
      BY <1>2, <1>6, <2>1, <2>2
    <3> HIDE DEF gf, gt
    <3> QED BY <3>1
  <2>4. RowSays(r)'
    BY <1>1, <1>2, <1>3, <1>4, <1>6, <2>3 DEF RowSays
  <2>5. ASSUME r \in Observable PROVE o <= gf /\ size[r] = t.from
    <3>1. o <= w.growth /\ (chunks[r] >= t.ct \/ o <= gf) /\ size[r] \in {t.from, t.to}
      BY <1>1, <1>6, <2>5 DEF CellsSay
    <3>2. CASE t.pd = 0
      <4>1. ~(size[r] >= t.to)
        BY <1>6, <2>5, <3>2 DEF published
      <4> QED BY <1>1, <2>3, <3>1, <3>2, <4>1
    <3>3. CASE t.pd # 0
      <4>1. ~(chunks[r] >= t.ct)
        BY <1>6, <2>5, <3>3 DEF published
      <4>2. chunks[r] # Absent
        <5>1. Head(todo).op \notin Cleanup \cup {"retiring"}
          BY DEF Settle, At, Cleanup
        <5> QED BY <1>1, <2>5, <5>1, Settled
      <4>3. t.ct = chunk_count(t.to, ChunkPages[r])
        BY <1>6 DEF Inv, TxnOK
      <4>4. chunk_count(size[r], ChunkPages[r]) <= chunks[r]
        BY <1>1, <2>5, <4>2 DEF Inv, SizeCovered
      <4>5. size[r] # t.to
        BY <1>1, <4>1, <4>3, <4>4
      <4> QED BY <3>1, <4>1, <4>5
    <3> QED BY <3>2, <3>3
  <2> HIDE DEF gf, gt, o
  <2>6. CellsSay(r)'
    BY <1>1, <1>2, <1>3, <1>4, <1>6, <2>3, <2>5 DEF CellsSay, o
  <2> QED BY <2>4, <2>6 DEF Says
<1> QED BY <1>1, <1>5, <1>6

\* A transaction whose writer cannot finish it.
LEMMA SettleCells ==
    ASSUME Inv, Budget, Cells, Settle PROVE Cells'
<1> DEFINE f == Head(todo)
<1>0. /\ up /\ todo # <<>> /\ f \in Frame /\ f.op = "settle" /\ StateOK /\ HeadOK
      /\ UNCHANGED <<chunks, arena, maker, cl>> /\ size \in [Memory -> Nat]
  BY HeadFrame DEF Settle, Inv, StateOK
<1>r. PICK r \in Memory : r = f.res
  BY <1>0, FrameFields
<1> DEFINE w == reg[r]
           t == w.txn
<1>1. w # None /\ t # None
  BY <1>0, <1>r DEF HeadOK
<1>2. /\ r \in Res /\ w \in Row /\ RowSays(r) /\ CellsSay(r) /\ maker[r] # None
      /\ growing(r) <=> t.kind = "grow"
  BY <1>1, InTxn
<1>3. CASE published(r, t)
  <2>1. /\ size' = IF t.kind = "grow" THEN [size EXCEPT ![r] = t.to] ELSE size
        /\ Then(Do("finish", r)) /\ UNCHANGED reg
    BY <1>r, <1>3 DEF Settle
  <2>2. /\ \A m \in Memory \ {r} : size'[m] = size[m]
        /\ growing(r) => size'[r] = t.to
        /\ ~growing(r) => size'[r] = size[r]
    BY <1>0, <1>2, <2>1
  <2>3. RowSays(r)' /\ growing(r)' = growing(r) /\ extending(r)' = extending(r)
    BY <1>0, <1>2, <2>1 DEF RowSays, growing, extending
  <2>4. CellsSay(r)'
    <3>1. reg'[r] = w /\ chunks'[r] = chunks[r] /\ arena'[r] = arena[r] /\ maker'[r] = maker[r]
      BY <1>0, <2>1
    <3> HIDE DEF w
    <3> QED BY <1>2, <2>2, <2>3, <3>1 DEF CellsSay, w
  <2>5. Says(r)'
    BY <2>3, <2>4 DEF Says
  <2>6. HeadSays'
    <3> DEFINE g == [op |-> "finish", res |-> r]
    <3>1. Then(<<g>>) /\ g.op = "finish" /\ g.res = r
      BY <2>1 DEF Do
    <3> HIDE DEF g
    <3>2. todo' # <<>> /\ Head(todo') = g
      BY <1>0, <3>1, SpeaksOn
    <3>3. growing(r)' => size'[r] = reg'[r].txn.to
      BY <2>1, <2>2, <2>3
    <3> QED BY <3>1, <3>2, <3>3 DEF HeadSays, growing
  <2>7. \A p \in Pid : WriterHas(p)'
    BY <1>0, <2>1, SameSaid, SameClients, StillHas DEF Cells, Inv, WriterOK
  <2> QED BY <1>0, <2>1, <2>2, <2>5, <2>6, <2>7, OneSaid
<1>4. CASE ~published(r, t)
  <2>1. reg' = [reg EXCEPT ![r] = Undo(reg[r], t)] /\ UNCHANGED size
    BY <1>r, <1>4 DEF Settle
  <2> DEFINE x == Undo(w, t)
  <2>2. x.txn = None
    BY <1>1, <1>2, RowEnds
  <2>3. reg'[r] = x /\ \A y \in Res \ {r} : reg'[y] = reg[y]
    <3>1. reg' = [reg EXCEPT ![r] = x]
      BY <2>1
    <3> HIDE DEF x
    <3> QED BY <1>0, <1>2, <3>1, RowSet
  <2>4. Says(r)'
    BY <1>0, <1>1, <1>4, <1>r, <2>1, <2>3, UndoSays DEF cells
  <2>5. HeadSays'
    <3> DEFINE g == [op |-> "undone", res |-> r, n |-> t.pd,
                     d |-> IF t.kind = "grow" THEN t.to - t.from ELSE -1]
    <3>1. g.op \notin Speaking /\ Then(<<g>>)
      BY <1>r, <1>4 DEF Settle, Speaking
    <3> HIDE DEF g
    <3> QED BY <1>0, <3>1, ToMute
  <2> HIDE DEF x
  <2>6. \A p \in Pid : cl[p].res = r => WriterHas(p)'
    BY <1>0, <2>2, <2>3, Over
  <2> QED BY <1>0, <2>1, <2>3, <2>4, <2>5, <2>6, RowSets, OneSaid
<1> QED BY <1>3, <1>4

-----------------------------------------------------------------------------
(* Requests to grow, and the other messages.                               *)

\* A transaction starts on a live memory, an arena's from the length its
\* writer read.
LEMMA StartsFrom ==
    ASSUME NEW p \in Pid, transaction(p) = "start"
    PROVE  Live(cl[p].res) /\ (cl[p].kind = "arena" => arena[cl[p].res] = cl[p].seen)
<1> DEFINE c == cl[p]
           r == c.res
           row == reg[r]
           kept == row.done[p] # None /\ row.done[p].op = c.op
<1>1. CASE ~Live(r)
  BY <1>1 DEF transaction
<1>2. CASE Live(r) /\ kept
  BY <1>2 DEF transaction
<1>3. CASE Live(r) /\ ~kept
  <2>1. transaction(p) =
       IF row.txn # None
       THEN IF row.txn.pid = p /\ row.txn.op = c.op THEN "resume" ELSE "queue"
       ELSE IF c.kind = "grow"
       THEN IF /\ row.pages + c.n <= MaxPages[c.res]
               /\ AllFit(row, c.n)
               /\ CanReserve(Cost(p))
            THEN "start" ELSE "refused"
       ELSE IF arena[c.res] >= c.n THEN "covered"
       ELSE IF arena[c.res] # c.seen THEN "changed"
       ELSE IF CanReserve(Cost(p)) THEN "start" ELSE "refused"
    BY <1>3 DEF transaction
  <2> QED BY <1>3, <2>1
<1> QED BY <1>1, <1>2, <1>3

\* The answer to a request to grow.
LEMMA BeginSays ==
    ASSUME NEW p \in Pid, NEW s \in Seq(Frame), s # <<>> => Head(s).op \notin Speaking,
           Begin(p, s), UNCHANGED arena,
           cl'[p].kind = cl[p].kind, cl'[p].res = cl[p].res, cl'[p].seen = cl[p].seen
    PROVE  HeadSays'
<1>r. ASSUME NEW g, todo' = <<g>> \o s PROVE todo' # <<>> /\ Head(todo') = g
  <2> DEFINE S == Frame \cup {g}
  <2>1. s \in Seq(S) /\ g \in S
    OBVIOUS
  <2> HIDE DEF S
  <2> QED BY <1>r, <2>1, Prepended
<1>1. CASE transaction(p) = "start"
  <2> DEFINE g == [op |-> "txn", pid |-> p]
  <2>1. todo' = <<g>> \o s /\ g.op = "txn" /\ g.pid = p
    BY <1>1 DEF Begin
  <2> HIDE DEF g
  <2>2. Head(todo') = g
    BY <2>1, <1>r
  <2> QED BY <1>1, <2>1, <2>2, StartsFrom DEF HeadSays
<1>2. CASE transaction(p) = "queue"
  <2>1. todo' = <<>> \o s
    BY <1>2 DEF Begin
  <2>2. todo' = s
    BY <2>1
  <2> QED BY <2>2, Mute
<1>3. CASE transaction(p) = "resume"
  <2> DEFINE g == [op |-> "grant", pid |-> p]
  <2>1. g.op \notin Speaking /\ todo' = <<g>> \o s
    BY <1>3 DEF Begin, Grant, Speaking
  <2> HIDE DEF g
  <2> QED BY <2>1, <1>r, Mute
<1>4. CASE transaction(p) \in {"gone", "done", "refused", "covered", "changed"}
  <2> DEFINE g == [op |-> "reply", pid |-> p, res |-> transaction(p)]
  <2>1. g.op \notin Speaking /\ todo' = <<g>> \o s
    BY <1>4 DEF Begin, Reply, Speaking
  <2> HIDE DEF g
  <2> QED BY <2>1, <1>r, Mute
<1> QED BY <1>1, <1>2, <1>3, <1>4, TransactionIs

\* The next request in the queue of a memory.
LEMMA NextCells ==
    ASSUME Inv, Cells, NextTransaction PROVE Cells'
<1> DEFINE f == Head(todo)
<1>0. /\ up /\ todo # <<>> /\ f \in Frame /\ f.op = "next" /\ todo \in Seq(Frame)
      /\ UNCHANGED <<reg, cells, maker, cl>>
  BY HeadFrame DEF NextTransaction, Inv, StateOK, callers
<1>r. PICK r \in Memory : r = f.res
  BY <1>0, FrameFields
<1>1. HeadSays'
  <2>1. CASE Then(<<>>)
    BY <1>0, <2>1, SpeaksOn
  <2>2. CASE queued[r] # <<>> /\ Begin(Head(queued[r]), todo)
    <3>1. queued[r] \in Seq(Pid)
      BY DEF Inv, StateOK
    <3>2. PICK p \in Pid : p = Head(queued[r])
      BY <2>2, <3>1
    <3>3. Begin(p, todo)
      BY <2>2, <3>2
    <3>4. Head(todo).op \notin Speaking
      BY <1>0 DEF Speaking
    <3> QED BY <1>0, <3>3, <3>4, BeginSays DEF cells
  <2> QED BY <1>r, <2>1, <2>2 DEF NextTransaction
<1> QED BY <1>0, <1>1, SameSaid, SameClients, Unsaid

\* The row with an outcome forgotten says the same.
LEMMA Forgets ==
    ASSUME StateOK, NEW p \in Pid, cl[p].res \in Memory,
           \/ UNCHANGED reg
           \/ ForgetOutcome(p)
    PROVE  \A m \in Memory : RowSame(m)
<1> DEFINE r == cl[p].res
           d == [reg[r].done EXCEPT ![p] = None]
<1>1. CASE UNCHANGED reg
  BY <1>1, SameSaid
<1>2. CASE reg[r] # None /\ reg' = [reg EXCEPT ![r].done[p] = None]
  <2>1. r \in Res /\ reg' = [reg EXCEPT ![r].done = d]
    BY <1>2, RowSets
  <2> HIDE DEF d, r
  <2> QED BY <1>2, <2>1, Relabels
<1> QED BY <1>1, <1>2 DEF ForgetOutcome

\* A message from a caller.
LEMMA HandleCells ==
    ASSUME Inv, Budget, Cells, NEW p \in Pid, Handle(p) PROVE Cells'
<1> DEFINE c == cl[p]
           r == c.res
<1>0. StateOK /\ WriterIs(p) /\ cl \in [Pid -> Client] /\ c \in Client
  BY DEF Inv, StateOK, WriterOK
<1> DEFINE y(res) == [op |-> "reply", pid |-> p, res |-> res]
<1>y. \A res : y(res).op \notin Speaking /\ Reply(p, res) = <<y(res)>>
               /\ Reply(p, res) \in Seq({y(res)})
  BY DEF Speaking, Reply
<1>o. ASSUME NEW res, todo' = Reply(p, res) PROVE HeadSays'
  <2> DEFINE g == y(res)
  <2>1. g.op \notin Speaking /\ todo' = <<g>>
    BY <1>o, <1>y
  <2> HIDE DEF g
  <2>2. todo' # <<>> /\ Head(todo') = g
    BY <2>1
  <2> QED BY <2>1, <2>2, Mute
<1>h. ASSUME NEW g, NEW res, todo' = <<g>> \o Reply(p, res) PROVE Head(todo') = g
  <2> DEFINE z == y(res)
             S == {g, z}
  <2>1. Reply(p, res) = <<z>>
    BY <1>y
  <2> HIDE DEF z
  <2>2. g \in S /\ Reply(p, res) \in Seq(S)
    BY <2>1
  <2> HIDE DEF S
  <2> QED BY <1>h, <2>1, <2>2, Prepended
<1>1. CASE HandleBegin(p)
  <2>1. up /\ todo = <<>> /\ c.ph = "begin" /\ Begin(p, <<>>) /\ UNCHANGED <<reg, cells, maker>>
    BY <1>1 DEF HandleBegin, Idle
  <2>2. /\ \A q \in Pid \ {p} : cl'[q] = cl[q]
        /\ cl'[p].ph \in {"begin", "queued"} /\ cl'[p].op = c.op /\ cl'[p].res = c.res
        /\ cl'[p].kind = c.kind /\ cl'[p].n = c.n /\ cl'[p].seen = c.seen
    <3>1. CASE UNCHANGED cl
      BY <2>1, <3>1
    <3>2. CASE cl' = [cl EXCEPT ![p].ph = "queued"]
      <4>1. cl'[p] = [c EXCEPT !.ph = "queued"] /\ \A q \in Pid \ {p} : cl'[q] = cl[q]
        BY <1>0, <3>2
      <4> HIDE DEF c
      <4> QED BY <1>0, <4>1 DEF Client
    <3> QED BY <1>1, <3>1, <3>2 DEF HandleBegin
  <2>3. HeadSays'
    <3>1. <<>> \in Seq(Frame)
      OBVIOUS
    <3> QED BY <2>1, <2>2, <3>1, BeginSays DEF cells
  <2>4. \A q \in Pid : ClientSame(q)
    BY <2>1, <2>2 DEF ClientSame, Writing
  <2> QED BY <2>1, <2>3, <2>4, SameSaid, Unsaid
<1>2. CASE HandleCommit(p)
  <2>1. Idle /\ c.ph = "commit" /\ UNCHANGED <<reg, cells, maker, cl>>
    BY <1>2 DEF HandleCommit, durable, callers, cells
  <2>2. HeadSays'
    <3>1. CASE todo' = Reply(p, outcome(p))
      BY <1>o, <3>1
    <3>2. CASE InFlight(p) /\
               todo' = <<[op |-> IF reg[r].txn.kind = "grow" THEN "chunks" ELSE "arena",
                          res |-> r, pid |-> p]>> \o Reply(p, "ok")
      <4> DEFINE g == [op |-> IF reg[r].txn.kind = "grow" THEN "chunks" ELSE "arena",
                       res |-> r, pid |-> p]
      <4>1. /\ todo' = <<g>> \o Reply(p, "ok") /\ g.res = r /\ g.pid = p
            /\ g.op = IF reg[r].txn.kind = "grow" THEN "chunks" ELSE "arena"
        BY <3>2
      <4>2. reg[r].txn.kind = c.kind /\ c.kind \in {"grow", "arena"}
        BY <1>0, <2>1, <3>2 DEF WriterIs, Client
      <4> HIDE DEF g, y
      <4>3. Head(todo') = g
        BY <1>h, <4>1
      <4>4. InFlight(p)' /\ cl'[p] = c
        BY <2>1, <3>2 DEF InFlight
      <4> QED BY <2>1, <4>1, <4>2, <4>3, <4>4 DEF HeadSays
    <3> QED BY <1>2, <3>1, <3>2 DEF HandleCommit
  <2> QED BY <2>1, <2>2, SameSaid, SameClients, Unsaid
<1>3. CASE HandleAbort(p)
  <2>1. Idle /\ c.ph = "abort" /\ UNCHANGED <<cells, maker, cl>>
    BY <1>3 DEF HandleAbort, callers
  <2>2. r \in Memory
    BY <1>0, <2>1 DEF WriterIs
  <2>3. HeadSays' /\ (UNCHANGED reg \/ ForgetOutcome(p))
    <3>1. CASE todo' = Do("settle", r) \o Reply(p, "raised") /\ UNCHANGED reg
      <4> DEFINE g == [op |-> "settle", res |-> r]
      <4>1. g.op \notin Speaking /\ todo' = <<g>> \o Reply(p, "raised")
        BY <3>1 DEF Do, Speaking
      <4> HIDE DEF g, y
      <4>2. Head(todo') = g
        BY <4>1, <1>h
      <4> QED BY <3>1, <4>1, <4>2, Mute
    <3>2. CASE todo' = Reply(p, "raised") /\ ForgetOutcome(p)
      BY <3>2, <1>o
    <3> QED BY <1>3, <3>1, <3>2 DEF HandleAbort
  <2>4. \A m \in Memory : RowSame(m)
    BY <1>0, <2>2, <2>3, Forgets
  <2> QED BY <2>1, <2>3, <2>4, SameClients, Unsaid
<1>4. CASE HandleAck(p)
  <2>1. /\ Idle /\ c.ph = "ack" /\ ForgetOutcome(p) /\ UNCHANGED <<cells, maker, todo>>
        /\ cl' = [cl EXCEPT ![p] = [c EXCEPT !.ph = AfterAck(p)]]
    BY <1>4 DEF HandleAck
  <2>2. r \in Memory
    BY <1>0, <2>1 DEF WriterIs
  <2>3. \A m \in Memory : RowSame(m)
    BY <1>0, <2>1, <2>2, Forgets
  <2>4. \A q \in Pid : ClientSame(q)
    <3> DEFINE d == [c EXCEPT !.ph = AfterAck(p)]
    <3>1. d.ph \notin Writing /\ cl' = [cl EXCEPT ![p] = d]
      BY <1>0, <2>1 DEF AfterAck, Writing, Client
    <3> HIDE DEF d
    <3> QED BY <1>0, <3>1, StopsWriting
  <2>5. HeadSays'
    BY <2>1, Mute DEF Idle
  <2> QED BY <2>1, <2>3, <2>4, <2>5, Unsaid
<1>5. CASE HandleFree(p)
  <2>1. /\ Idle /\ c.ph = "free" /\ todo' = Each("drops", {<<c.res, c.tok>>})
        /\ UNCHANGED <<reg, cells, maker>>
        /\ cl' = [cl EXCEPT ![p] = [c EXCEPT !.ph = "idle"]]
    BY <1>5 DEF HandleFree, durable, cells
  <2>2. c.res \in Res /\ c.tok \in Token
    BY <2>1, RowSets DEF Inv, MakeOK
  <2>3. HeadSays'
    BY <2>1, <2>2, TailEach, TailMute
  <2>4. \A q \in Pid : ClientSame(q)
    <3> DEFINE d == [c EXCEPT !.ph = "idle"]
    <3>1. d.ph \notin Writing /\ cl' = [cl EXCEPT ![p] = d]
      BY <1>0, <2>1 DEF Writing, Client
    <3> HIDE DEF d
    <3> QED BY <1>0, <3>1, StopsWriting
  <2> QED BY <2>1, <2>3, <2>4, SameSaid, Unsaid
<1> QED BY <1>1, <1>2, <1>3, <1>4, <1>5 DEF Handle

\* The death of a process is heard of.
LEMMA DownCells ==
    ASSUME Inv, Cells, NEW p \in Pid, Down(p) PROVE Cells'
<1>0. StateOK
  BY DEF Inv
<1>d. ASSUME NEW s, Tailable(s), todo' = s, UNCHANGED <<reg, cells, maker, cl>>
      PROVE  Cells'
  BY <1>d, TailMute, SameSaid, SameClients, Unsaid
<1>1. CASE HolderDown(p)
  <2>1. Tailable(Each("drops", {x \in held : OwnerOf[x[2]] = p}))
    BY <1>0, TailEach DEF StateOK
  <2> QED BY <1>1, <2>1, <1>d DEF HolderDown, durable, callers, cells
<1>2. CASE WriterDown(p)
  <2>1. Tailable(Each("gone", {<<r, p>> : r \in writers[p]}))
    BY <1>0, TailEach DEF StateOK
  <2> QED BY <1>2, <2>1, <1>d DEF WriterDown, durable, callers, cells
<1> QED BY <1>1, <1>2 DEF Down

\* The keeper dies: a writer it had not answered asks again or is gone.
LEMMA CrashCells ==
    ASSUME Inv, Cells, Crash PROVE Cells'
<1>1. todo' = <<>> /\ UNCHANGED <<reg, cells, maker>> /\ cl \in [Pid -> Client]
  BY DEF Crash, durable, cells, Inv, StateOK
<1>2. ASSUME NEW p \in Pid PROVE ClientSame(p)
  <2> DEFINE h == cl[p].ph
             e == IF h = "queued" /\ p \in alive THEN "begin"
                  ELSE IF h = "free" THEN "idle"
                  ELSE IF h = "ack" THEN AfterAck(p)
                  ELSE IF h \in {"begin", "queued", "commit", "abort"} /\ p \notin alive
                       THEN "idle" ELSE h
  <2>1. cl'[p] = [cl[p] EXCEPT !.ph = e]
    BY DEF Crash
  <2>2. e \in Writing => h \in Writing /\ (e = "commit" => h = "commit")
    BY DEF Writing, AfterAck
  <2> HIDE DEF e
  <2>3. /\ cl'[p].ph = e /\ cl'[p].op = cl[p].op /\ cl'[p].res = cl[p].res
        /\ cl'[p].kind = cl[p].kind /\ cl'[p].n = cl[p].n /\ cl'[p].tup = cl[p].tup
    BY <1>1, <2>1 DEF Client
  <2> QED BY <2>2, <2>3 DEF ClientSame
<1> QED BY <1>1, <1>2, SameSaid, Mute, Unsaid

\* It starts again, with frames that speak of no cell.
LEMMA RestartCells ==
    ASSUME Inv, Cells, Restart PROVE Cells'
<1> DEFINE R == {r \in Res : reg[r] # None /\ reg[r].state = "retiring"}
           a == Each("retiring", R)
           b == Each("recover", Memory)
           c == Each("sweep", Image)
           d == Do("reconcile", None)
           D == {f \in Frame : f.op \in Deferred}
<1>1. todo' = a \o b \o c \o d /\ UNCHANGED <<reg, cells, maker, cl>>
  BY DEF Restart, durable, callers, cells
<1>2. /\ [op |-> "retiring", set |-> R] \in D /\ [op |-> "recover", set |-> Memory] \in D
      /\ [op |-> "sweep", set |-> Image] \in D /\ [op |-> "reconcile", res |-> None] \in D
  BY RowSets DEF Frame, Deferred
<1>3. \A f \in D : f.op \notin Speaking
  BY DEF Deferred, Speaking
<1> HIDE DEF D, R
<1>4. a \in Seq(D) /\ b \in Seq(D) /\ c \in Seq(D) /\ d \in Seq(D)
  BY <1>2 DEF Each, Do
<1> HIDE DEF a, b, c, d
<1>5. todo' # <<>> => Head(todo') \in D
  BY <1>1, <1>4
<1>6. HeadSays'
  BY <1>3, <1>5, Mute
<1> QED BY <1>1, <1>6, SameSaid, SameClients, Unsaid

-----------------------------------------------------------------------------
(* The theorems.                                                           *)

\* No row and no handler at first.
LEMMA InitCells == ASSUME Init PROVE Cells
<1>1. /\ \A m \in Memory : reg[m] = None
      /\ todo = <<>> /\ \A p \in Pid : cl[p].ph = "idle"
  BY RowSets DEF Init, Idle0
<1> QED BY <1>1 DEF Cells, Says, HeadSays, WriterHas, Writing

\* Every step keeps what is said.
LEMMA StepCells == ASSUME Inv, Inv', Budget, Cells, [Next]_vars PROVE Cells'
<1>1. CASE UNCHANGED vars
  <2>1. UNCHANGED <<todo, reg, cells, maker, cl>>
    BY <1>1 DEF vars, durable, callers, cells
  <2>2. HeadSays'
    BY <2>1, HeadStays DEF cells
  <2> QED BY <2>1, <2>2, SameSaid, SameClients, Unsaid
<1>2. CASE Continue
  BY <1>2, InsertRowCells, ForgetCells, HoldCells, RollCells, TxnRowCells, GrantCells,
     PublishCells, FinishCells, SettleCells, NextCells
     DEF Continue
<1>3. CASE Crash \/ Restart
  BY <1>3, CrashCells, RestartCells
<1>4. ASSUME NEW p \in Pid,
             \/ Request(p) \/ Handle(p) \/ Down(p) \/ Advance(p) \/ Die(p)
             \/ \E m \in Memory : \/ \E d \in Deltas[p] : Grow(p, m, d)
                                  \/ \E n \in 1 .. MaxArena : NeedArena(p, m, n)
      PROVE  Cells'
  BY <1>4, RequestCells, HandleCells, DownCells, CallerCells
<1> QED BY <1>1, <1>2, <1>3, <1>4 DEF Next

\* Rows, cells, the handler in progress and the tuples writers bring agree, in
\* the middle of any commit and after any crash or settlement (grow_commit/5,
\* arena_commit/4, settle/4).
THEOREM CellsKept == Spec => []Cells
<1>1. Init => Inv /\ Budget /\ Cells
  BY InitInv, InitBudget, InitCells
<1>2. Inv /\ Budget /\ Cells /\ [Next]_vars => Inv' /\ Budget' /\ Cells'
  BY NextInv, NextBudget, StepCells
<1>3. Spec => [](Inv /\ Budget /\ Cells)
  BY <1>1, <1>2, PTL DEF Spec
<1> QED BY <1>3, PTL

\* With no growth in flight, the size every process reads is the size the
\* registry charges holders for, whether the last growth was committed,
\* settled or undone.
THEOREM SizesAgree == Spec => []SizeAgrees
<1>1. Inv /\ Cells => SizeAgrees
  <2> SUFFICES ASSUME Inv, Cells, NEW m \in Observable, Live(m), maker[m] # None,
                      reg[m].txn = None
               PROVE  size[m] = reg[m].pages
    BY DEF SizeAgrees
  <2>1. m \in Memory /\ reg[m] # None
    BY ConstantsOK DEF Live
  <2> QED BY <2>1 DEF Cells, Says, CellsSay, growing
<1> QED BY <1>1, Invariance, CellsKept, PTL

\* No chunk can be reached that its row is not charged for, so undoing a
\* growth never leaves its chunks behind (published/2).
THEOREM PublishedIsCharged == Spec => []PublishedCharged
<1>1. Cells => PublishedCharged
  BY DEF Cells, Says, CellsSay, Owns, Live, PublishedCharged
<1> QED BY <1>1, CellsKept, PTL

\* What a step may do to what is published of a memory.
Grows(m) ==
    /\ chunks'[m] >= chunks[m] \/ chunks'[m] = Absent
    /\ arena'[m] >= arena[m] \/ arena'[m] = Absent
    /\ size'[m] >= size[m]

\* A cell that stays or goes.
LEMMA StaysPut ==
    ASSUME StateOK, NEW m \in Memory, chunks'[m] \in {chunks[m], Absent},
           arena'[m] \in {arena[m], Absent}, size'[m] = size[m]
    PROVE  Grows(m)
<1>1. chunks[m] \in Int /\ arena[m] \in Int /\ size[m] \in Int
  BY DEF StateOK, Absent
<1> QED BY <1>1 DEF Grows

\* The writes of a commit, and those of its recovery, only add.
LEMMA CommitGrows ==
    ASSUME Inv, Budget, Cells, PublishChunks \/ PublishSize \/ PublishArena \/ Settle,
           NEW m \in Observable
    PROVE  Grows(m)
<1> DEFINE f == Head(todo)
<1>0. /\ up /\ todo # <<>> /\ f \in Frame /\ f.op \in {"chunks", "size", "arena", "settle"}
      /\ StateOK /\ HeadOK /\ HeadSays /\ m \in Memory
      /\ chunks \in [Memory -> Nat \cup {Absent}] /\ size \in [Memory -> Nat]
      /\ arena \in [Memory -> Nat \cup {Absent}]
  BY HeadFrame, ConstantsOK DEF PublishChunks, PublishSize, PublishArena, Settle, Inv, Cells,
     StateOK
<1>r. PICK r \in Memory : r = f.res
  BY <1>0, FrameFields
<1> DEFINE t == reg[r].txn
           tup == cl[f.pid].tup
<1>1. reg[r] # None /\ t # None
  BY <1>0, <1>r DEF HeadOK
<1>2. /\ CellsSay(r) /\ maker[r] # None /\ RowFits(reg[r])
      /\ t.from \in Nat /\ t.to \in Nat /\ t.ct \in Nat
      /\ growing(r) <=> t.kind = "grow"
  BY <1>1, InTxn
<1>3. r \in Observable /\ t.kind = "grow" => size[r] \in {t.from, t.to} /\ t.from <= t.to
  BY <1>1, <1>2 DEF CellsSay, RowFits
<1>4. \A y \in Memory : chunks[y] \in Int /\ arena[y] \in Int /\ size[y] \in Int
  BY <1>0 DEF Absent
<1>5. CASE PublishChunks
  <2>1. UNCHANGED <<size, arena>>
    BY <1>5 DEF PublishChunks
  <2>2. f.op = "chunks" /\ f.pid \in Pid /\ tup >= t.ct /\ tup \in Int
    <3>1. f.op = "chunks" /\ f.pid \in Pid
      BY <1>0, <1>5, FrameFields DEF PublishChunks, At
    <3>2. tup \in Nat
      BY <1>0, <3>1 DEF StateOK, Client
    <3> QED BY <1>0, <1>r, <3>1, <3>2 DEF HeadOK
  <2>3. \/ UNCHANGED chunks
        \/ chunks' = [chunks EXCEPT ![r] = tup] /\ chunks[r] < t.ct
    BY <1>5, <1>r DEF PublishChunks, publish
  <2> HIDE DEF t, tup
  <2>4. chunks'[m] >= chunks[m]
    <3>1. CASE UNCHANGED chunks
      BY <1>0, <1>4, <3>1
    <3>2. CASE chunks' = [chunks EXCEPT ![r] = tup] /\ chunks[r] < t.ct
      <4>1. CASE m = r
        BY <1>0, <1>2, <1>4, <2>2, <3>2, <4>1
      <4>2. CASE m # r
        BY <1>0, <1>4, <3>2, <4>2
      <4> QED BY <4>1, <4>2
    <3> QED BY <2>3, <3>1, <3>2
  <2> QED BY <1>0, <1>4, <2>1, <2>4 DEF Grows
<1>6. CASE PublishSize \/ Settle
  <2>1. UNCHANGED <<chunks, arena>>
    BY <1>6 DEF PublishSize, Settle
  <2>2. UNCHANGED size \/ (size' = [size EXCEPT ![r] = t.to] /\ t.kind = "grow")
    <3>1. PublishSize => f.op = "size" /\ t.kind = "grow"
      BY <1>0, <1>r DEF PublishSize, At, HeadOK
    <3> QED BY <1>6, <1>r, <3>1 DEF PublishSize, Settle
  <2> HIDE DEF t
  <2>3. size'[m] >= size[m]
    <3>1. CASE UNCHANGED size
      BY <1>0, <1>4, <3>1
    <3>2. CASE size' = [size EXCEPT ![r] = t.to] /\ t.kind = "grow"
      <4>1. CASE m = r
        BY <1>0, <1>2, <1>3, <1>4, <3>2, <4>1
      <4>2. CASE m # r
        BY <1>0, <1>4, <3>2, <4>2
      <4> QED BY <4>1, <4>2
    <3> QED BY <2>2, <3>1, <3>2
  <2> QED BY <1>0, <1>4, <2>1, <2>3 DEF Grows
<1>7. CASE PublishArena
  <2>1. UNCHANGED <<chunks, size>>
    BY <1>7 DEF PublishArena
  <2>2. f.op = "arena" /\ f.pid \in Pid /\ tup >= t.to /\ tup \in Int
    <3>1. f.op = "arena" /\ f.pid \in Pid
      BY <1>0, <1>7, FrameFields DEF PublishArena, At
    <3>2. tup \in Nat
      BY <1>0, <3>1 DEF StateOK, Client
    <3>3. /\ cl[f.pid].ph = "commit" /\ cl[f.pid].res = r /\ InFlight(f.pid)
          /\ cl[f.pid].kind = "arena"
      BY <1>0, <1>r, <3>1 DEF HeadSays
    <3>4. t.to = cl[f.pid].n /\ tup >= cl[f.pid].n
      BY <3>1, <3>3 DEF Cells, WriterHas, Writing
    <3> QED BY <3>1, <3>2, <3>4
  <2>3. \/ UNCHANGED arena
        \/ arena' = [arena EXCEPT ![r] = tup] /\ arena[r] < t.to
    BY <1>7, <1>r DEF PublishArena, publish
  <2> HIDE DEF t, tup
  <2>4. arena'[m] >= arena[m]
    <3>1. CASE UNCHANGED arena
      BY <1>0, <1>4, <3>1
    <3>2. CASE arena' = [arena EXCEPT ![r] = tup] /\ arena[r] < t.to
      <4>1. CASE m = r
        BY <1>0, <1>2, <1>4, <2>2, <3>2, <4>1
      <4>2. CASE m # r
        BY <1>0, <1>4, <3>2, <4>2
      <4> QED BY <4>1, <4>2
    <3> QED BY <2>3, <3>1, <3>2
  <2> QED BY <1>0, <1>4, <2>1, <2>4 DEF Grows
<1> QED BY <1>5, <1>6, <1>7

\* No step takes back what a reader may be using.
LEMMA StepGrows ==
    ASSUME Inv, Budget, Cells, Next, NEW m \in Observable, maker[m] # None
    PROVE  Grows(m)
<1>0. /\ StateOK /\ m \in Memory /\ m \in minted
      /\ chunks \in [Memory -> Nat \cup {Absent}] /\ size \in [Memory -> Nat]
      /\ arena \in [Memory -> Nat \cup {Absent}]
  BY ConstantsOK DEF Inv, StateOK, MakeOK
<1>u. ASSUME UNCHANGED cells PROVE Grows(m)
  BY <1>0, <1>u, StaysPut DEF cells
<1>1. CASE Continue
  <2>1. CASE PublishChunks \/ PublishSize \/ PublishArena \/ Settle
    BY <2>1, CommitGrows
  <2>2. CASE ForgetMeta
    <3>1. /\ UNCHANGED size
          /\ chunks' = chunks \/ \E r : chunks' = [chunks EXCEPT ![r] = Absent]
          /\ arena' = arena \/ \E r : arena' = [arena EXCEPT ![r] = Absent]
      BY <2>2 DEF ForgetMeta
    <3> QED BY <1>0, <3>1, StaysPut
  <2>3. CASE ReplyStep
    <3> DEFINE c == cl[Head(todo).pid]
    <3>1. /\ UNCHANGED arena
          /\ \/ UNCHANGED <<chunks, size>>
             \/ /\ c.res \notin Observable
                /\ chunks' = [chunks EXCEPT ![c.res] = c.tup]
                /\ size' = [size EXCEPT ![c.res] = c.seen + c.n]
      BY <2>3 DEF ReplyStep
    <3> HIDE DEF c
    <3> QED BY <1>0, <3>1, StaysPut
  <2>4. CASE \/ InsertRow \/ Reserved \/ SetCap \/ Retag \/ HeapShrunk \/ HeapGrown
             \/ Drop \/ Unhold \/ DeleteRow \/ GiveBack \/ AfterRetire
    <3>1. UNCHANGED cells
      BY <2>4 DEF InsertRow, Reserved, SetCap, Retag, HeapShrunk, HeapGrown, Drop, Unhold,
                  DeleteRow, GiveBack, AfterRetire, durable, cells
    <3> QED BY <3>1, <1>u
  <2>5. CASE \/ TxnRow \/ Finish \/ GrantStep \/ Undone \/ NextTransaction \/ WriterGone
             \/ FinishRetiring \/ RecoverRow \/ SweepImages \/ ReconcileCounters
    <3>1. UNCHANGED cells
      BY <2>5 DEF TxnRow, Finish, GrantStep, Undone, NextTransaction, WriterGone,
                  FinishRetiring, RecoverRow, SweepImages, ReconcileCounters, durable, cells
    <3> QED BY <3>1, <1>u
  <2> QED BY <1>1, <2>1, <2>2, <2>3, <2>4, <2>5 DEF Continue
<1>2. CASE Crash \/ Restart
  BY <1>2, <1>u DEF Crash, Restart, durable, cells
<1>3. ASSUME NEW p \in Pid, Request(p) PROVE Grows(m)
  <2>1. ASSUME NEW r \in Res, NEW t \in Token, Reserve(p, r, t) PROVE Grows(m)
    <3>1. r # m /\ UNCHANGED <<chunks, size>>
      BY <1>0, <2>1 DEF Reserve
    <3>2. arena' = arena \/ arena' = [arena EXCEPT ![r] = 0]
      BY <2>1 DEF Reserve
    <3> QED BY <1>0, <3>1, <3>2, StaysPut
  <2>2. ASSUME NEW t \in Token,
               \/ \E r \in Res : Acquire(p, r, t) \/ Release(p, r, t)
               \/ Destroy(p, t) \/ Discard(p, t) \/ Transfer(p, t) \/ LostBuildCall(p, t)
        PROVE  Grows(m)
    <3>1. UNCHANGED cells
      BY <2>2 DEF Acquire, Release, Destroy, Discard, Raised, Transfer, LostBuildCall, durable, cells
    <3> QED BY <3>1, <1>u
  <2>3. ASSUME \/ \E r \in Heap, w \in HeapSizes : Reconcile(p, r, w)
               \/ \E i \in Image : ImageReserve(p, i)
        PROVE  Grows(m)
    <3>1. UNCHANGED cells
      BY <2>3 DEF Reconcile, ImageReserve, durable, cells
    <3> QED BY <3>1, <1>u
  <2> QED BY <1>3, <2>1, <2>2, <2>3 DEF Request
<1>4. ASSUME NEW p \in Pid, Handle(p) \/ Down(p) PROVE Grows(m)
  <2>1. UNCHANGED cells
    BY <1>4 DEF Handle, HandleBegin, HandleCommit, HandleAbort, HandleAck, HandleFree,
                Down, HolderDown, WriterDown, durable, cells
  <2> QED BY <2>1, <1>u
<1>5. ASSUME NEW p \in Pid,
             \/ Advance(p) \/ Die(p)
             \/ \E y \in Memory : \/ \E d \in Deltas[p] : Grow(p, y, d)
                                  \/ \E n \in 1 .. MaxArena : NeedArena(p, y, n)
      PROVE  Grows(m)
  <2>1. CASE CreateMem(p)
    <3>1. /\ cl[p].res # m /\ UNCHANGED arena
          /\ size' = [size EXCEPT ![cl[p].res] = InitPages[cl[p].res]]
          /\ \E k : chunks' = [chunks EXCEPT ![cl[p].res] = k]
      BY <2>1 DEF CreateMem, Inv, MakeOK
    <3> QED BY <1>0, <3>1, StaysPut
  <2>2. CASE ~CreateMem(p)
    <3>1. UNCHANGED cells
      BY <1>5, <2>2 DEF Advance, CreateFails, Look, Extend, ExtendFails, Die, Grow,
                        NeedArena, durable, cells
    <3> QED BY <3>1, <1>u
  <2> QED BY <2>1, <2>2
<1> QED BY <1>1, <1>2, <1>3, <1>4, <1>5 DEF Next

\* A published tuple or size is never replaced by a shorter one, by a commit,
\* a recovery or a late writer: a reader may already be using what it names,
\* and only reclaiming the memory ends it (publish/4, settle/4).
THEOREM NothingShrinks == Spec => PublishedOnlyGrows
<1>1. Inv /\ Budget /\ Cells /\ [Next]_vars =>
        [\A m \in Observable : maker[m] # None =>
           /\ chunks'[m] >= chunks[m] \/ chunks'[m] = Absent
           /\ arena'[m] >= arena[m] \/ arena'[m] = Absent
           /\ size'[m] >= size[m]]_vars
  BY StepGrows DEF Grows
<1> QED BY <1>1, Invariance, BudgetKept, CellsKept, PTL DEF Spec, PublishedOnlyGrows

-----------------------------------------------------------------------------
(* The frames of a stack.                                                  *)

Frames(s) == {s[i] : i \in 1 .. Len(s)}

Roll(op, S) == [op |-> op, set |-> S]
Under == {todo[i] : i \in 2 .. Len(todo)}

\* A frame replaced by the frames s.
LEMMA FramesThen ==
    ASSUME Inv, todo # <<>>, NEW F, NEW s \in Seq(F), Then(s)
    PROVE  Frames(todo') = Under \cup Frames(s)
<1> DEFINE G == Frame \cup F
           n == Len(s)
<1>1. todo \in Seq(G) /\ s \in Seq(G) /\ todo' = s \o Tail(todo)
  BY DEF Then, Inv, StateOK
<1> HIDE DEF G
<1>2. /\ n \in Nat /\ Len(todo) \in Nat
      /\ Len(todo') = n + Len(todo) - 1
      /\ \A i \in 1 .. n : todo'[i] = s[i]
      /\ \A i \in n + 1 .. n + Len(todo) - 1 : todo'[i] = todo[i - n + 1]
  BY <1>1, Replaced
<1>3. ASSUME NEW i \in 1 .. Len(todo') PROVE todo'[i] \in Under \cup Frames(s)
  <2>1. CASE i \in 1 .. n
    BY <1>2, <2>1 DEF Frames
  <2>2. CASE i \notin 1 .. n
    <3> DEFINE j == i - n + 1
    <3>1. j \in 2 .. Len(todo) /\ todo'[i] = todo[j]
      BY <1>2, <2>2
    <3> HIDE DEF j
    <3> QED BY <3>1 DEF Under
  <2> QED BY <2>1, <2>2
<1>4. ASSUME NEW i \in 1 .. n PROVE s[i] \in Frames(todo')
  <2>1. i \in 1 .. Len(todo') /\ todo'[i] = s[i]
    BY <1>2, todo # <<>>, <1>1
  <2> QED BY <2>1 DEF Frames
<1>5. ASSUME NEW j \in 2 .. Len(todo) PROVE todo[j] \in Frames(todo')
  <2> DEFINE i == j + n - 1
  <2>1. i \in n + 1 .. n + Len(todo) - 1 /\ i - n + 1 = j /\ i \in 1 .. Len(todo')
    BY <1>2
  <2>2. todo'[i] = todo[j]
    <3> HIDE DEF i
    <3> QED BY <1>2, <2>1
  <2> HIDE DEF i
  <2> QED BY <2>1, <2>2 DEF Frames
<1> QED BY <1>3, <1>4, <1>5 DEF Frames, Under

\* The ways a handler goes on.
LEMMA StackGoes ==
    ASSUME Inv, todo # <<>>
    PROVE  /\ Then(<<>>) => Frames(todo') = Under
           /\ \A a : Then(<<a>>) => Frames(todo') = Under \cup {a}
           /\ \A op, S : Then(Each(op, S)) =>
                Frames(todo') \subseteq Under \cup {Roll(op, S)}
           /\ \A a, op, S : Then(<<a>> \o Each(op, S)) =>
                /\ Frames(todo') \subseteq Under \cup {a, Roll(op, S)}
                /\ Under \cup {a} \subseteq Frames(todo')
<1>1. Then(<<>>) => Frames(todo') = Under
  <2>1. <<>> \in Seq({}) /\ Frames(<<>>) = {}
    BY DEF Frames
  <2> QED BY <2>1, FramesThen
<1>2. ASSUME NEW a, Then(<<a>>) PROVE Frames(todo') = Under \cup {a}
  <2>1. <<a>> \in Seq({a}) /\ Frames(<<a>>) = {a}
    BY DEF Frames
  <2> QED BY <1>2, <2>1, FramesThen
<1>3. ASSUME NEW op, NEW S, Then(Each(op, S))
      PROVE  Frames(todo') \subseteq Under \cup {Roll(op, S)}
  <2>1. CASE S = {}
    BY <1>1, <1>3, <2>1 DEF Each
  <2>2. CASE S # {}
    BY <1>2, <1>3, <2>2 DEF Each, Roll
  <2> QED BY <2>1, <2>2
<1>4. ASSUME NEW a, NEW op, NEW S, Then(<<a>> \o Each(op, S))
      PROVE  /\ Frames(todo') \subseteq Under \cup {a, Roll(op, S)}
             /\ Under \cup {a} \subseteq Frames(todo')
  <2> DEFINE b == Roll(op, S)
             s == <<a>> \o Each(op, S)
  <2>1. Each(op, S) = <<>> \/ Each(op, S) = <<b>>
    BY DEF Each, Roll
  <2> HIDE DEF b
  <2>2. s \in Seq({a, b}) /\ Frames(s) \subseteq {a, b} /\ a \in Frames(s)
    <3>1. CASE Each(op, S) = <<>>
      <4>1. s = <<a>>
        <5>1. <<a>> \in Seq({a}) /\ \A q \in Seq({a}) : q \o <<>> = q
          OBVIOUS
        <5> QED BY <3>1, <5>1
      <4> HIDE DEF s
      <4> QED BY <4>1 DEF Frames
    <3>2. CASE Each(op, S) = <<b>>
      <4>1. a \in {a, b} /\ <<b>> \in Seq({a, b}) /\ Len(<<b>>) = 1 /\ <<b>>[1] = b
        OBVIOUS
      <4>2. /\ <<a>> \o <<b>> \in Seq({a, b}) /\ Len(<<a>> \o <<b>>) = 2
            /\ (<<a>> \o <<b>>)[1] = a /\ (<<a>> \o <<b>>)[2] = b
        BY <4>1, Prepended
      <4>3. Len(s) = 2 /\ s[1] = a /\ s[2] = b /\ s \in Seq({a, b})
        BY <3>2, <4>2
      <4> HIDE DEF s
      <4> QED BY <4>3 DEF Frames
    <3> QED BY <2>1, <3>1, <3>2
  <2>3. Frames(todo') = Under \cup Frames(s)
    <3>1. Then(s)
      BY <1>4
    <3> HIDE DEF s
    <3> QED BY <2>2, <3>1, FramesThen
  <2> QED BY <2>2, <2>3 DEF b
<1> QED BY <1>1, <1>2, <1>3, <1>4

\* What lies under the pending step is on the stack.
LEMMA UnderIn == Under \subseteq Frames(todo)
<1>1. \A i \in 2 .. Len(todo) : i \in 1 .. Len(todo)
  OBVIOUS
<1> QED BY <1>1 DEF Under, Frames

\* A frame put on top of a stack.
LEMMA FramesPut ==
    ASSUME NEW F, NEW g \in F, NEW t \in Seq(F), todo' = <<g>> \o t
    PROVE  Frames(todo') = {g} \cup Frames(t) /\ todo' # <<>> /\ Head(todo') = g
<1>1. /\ <<g>> \o t \in Seq(F) /\ Len(<<g>> \o t) = 1 + Len(t)
      /\ Len(t) \in Nat /\ <<g>> \o t # <<>> /\ Head(<<g>> \o t) = g /\ (<<g>> \o t)[1] = g
      /\ \A i \in 2 .. 1 + Len(t) : /\ i - 1 \in 1 .. Len(t)
                                    /\ (<<g>> \o t)[i] = t[i - 1]
  BY Prepended
<1>2. PICK s : s = <<g>> \o t
  OBVIOUS
<1>3. /\ todo' = s /\ Len(s) = 1 + Len(t) /\ s[1] = g
      /\ \A i \in 2 .. 1 + Len(t) : i - 1 \in 1 .. Len(t) /\ s[i] = t[i - 1]
  BY <1>1, <1>2
<1>4. Frames(s) \subseteq {g} \cup Frames(t)
  <2> SUFFICES ASSUME NEW i \in 1 .. Len(s), i # 1 PROVE s[i] \in Frames(t)
    BY <1>3 DEF Frames
  <2>1. i \in 2 .. 1 + Len(t)
    BY <1>1, <1>3
  <2> QED BY <1>3, <2>1 DEF Frames
<1>5. Frames(t) \subseteq Frames(s)
  <2> SUFFICES ASSUME NEW j \in 1 .. Len(t) PROVE t[j] \in Frames(s)
    BY DEF Frames
  <2>1. PICK i : i = j + 1
    OBVIOUS
  <2>2. i \in 2 .. 1 + Len(t) /\ i - 1 = j /\ i \in 1 .. Len(s)
    BY <1>1, <1>3, <2>1
  <2>3. s[i] = t[j]
    BY <1>3, <2>2
  <2> QED BY <2>2, <2>3 DEF Frames
<1>6. g \in Frames(s)
  <2>1. 1 \in 1 .. Len(s)
    BY <1>1, <1>3
  <2> QED BY <1>3, <2>1 DEF Frames
<1> QED BY <1>1, <1>2, <1>3, <1>4, <1>5, <1>6

-----------------------------------------------------------------------------
(* The ceilings of builds, and of the instances they become.               *)

\* What counts against the ceiling of a build: the memories that it holds or the
\* instance it became holds, each once.
Limited == {b \in Builds : BuildLimit[b] # NoCap}
Party(b) == {b, InstanceOf[b]}
Counts(rg, m, b) == rg[m] # None /\ rg[m].holders \cap Party(b) # {}
Ours(rg, b) == {m \in Memory : Counts(rg, m, b)}
Taken(rg, b) == Total([m \in Ours(rg, b) |-> rg[m].pages])

\* What keeps the total of its token from returning to zero, and so the ceiling.
Anchored(rg, b) == \E m \in Memory : InitPages[m] > 0 /\ Counts(rg, m, b)

\* What a handler still does to holders and ceilings.
Moving == {"drops", "setcap", "retags"}
Holding == Cleanup \cup {"drops", "setcap", "unhold"}
Letting(m, t) ==
    todo # <<>> /\ Head(todo).op = "unhold" /\ Head(todo).res = m /\ Head(todo).tok = t
Due(m, t) == \E f \in Frames(todo) : f.op \in {"drops", "retags"} /\ <<m, t>> \in f.set

\* Frames that drop, retag or move a ceiling lie under nothing but their like.
Piled ==
    \A i \in 1 .. Len(todo) :
        /\ todo[i].op = "retags" => i = 1 \/ (i = 2 /\ Head(todo).op = "setcap")
        /\ todo[i].op \in {"drops", "setcap"} => \A j \in 1 .. i : todo[j].op \in Holding

\* A ceiling is the limit of the build, for the build or for its instance.
CapsAre ==
    \A b \in Builds, t \in Token : t \in Party(b) => caps[t] \in {NoCap, BuildLimit[b]}

\* Who holds a memory made with pages has its ceiling, for as long as it can be asked
\* for it; what a build that is over still holds is about to be dropped or retagged.
HasCap(b, m) ==
    reg[m] # None =>
        /\ InitPages[m] > 0 /\ b \in builds /\ b \in reg[m].holders =>
             Letting(m, b) \/ caps[b] = BuildLimit[b]
        /\ b \notin builds /\ b \in reg[m].holders => Letting(m, b) \/ Due(m, b)
        /\ InitPages[m] > 0 /\ InstanceOf[b] \in reg[m].holders =>
             Letting(m, InstanceOf[b]) \/ caps[InstanceOf[b]] = BuildLimit[b]
CapsHeld == \A b \in Limited, m \in Memory : HasCap(b, m)
Bounded == \A b \in Limited : Anchored(reg, b) => Taken(reg, b) <= BuildLimit[b]

\* A memory made with pages has pages, and had some before its growth.
Paged ==
    \A m \in Memory : reg[m] # None /\ InitPages[m] > 0 =>
        /\ reg[m].pages > 0
        /\ reg[m].txn # None /\ reg[m].txn.kind = "grow" => reg[m].txn.from > 0

\* What the pending step adds has been compared with the ceilings.
InsertFits(f) ==
    f.op = "insert" /\ f.tok \in Limited /\ f.res \in Memory =>
        /\ f.tok \in builds /\ caps[f.tok] = BuildLimit[f.tok]
        /\ Taken(reg, f.tok) + InitPages[f.res] <= BuildLimit[f.tok]
GrowFits(f) ==
    f.op = "txn" /\ cl[f.pid].kind = "grow" =>
        \A b \in Limited : Anchored(reg, b) /\ Counts(reg, cl[f.pid].res, b) =>
            Taken(reg, b) + cl[f.pid].n <= BuildLimit[b]
HeadFits == todo # <<>> => InsertFits(Head(todo)) /\ GrowFits(Head(todo))

\* The ceilings still to be moved.
SetsCap(f) ==
    \/ f.tok \in Builds \ builds /\ f.n = NoCap
    \/ \E b \in Builds : f.tok = InstanceOf[b] /\ f.n = BuildLimit[b]
MovesCap(f) ==
    \A x \in f.set : x[2] \in Limited /\ x[1] \in Memory /\ reg[x[1]] # None
                       /\ InitPages[x[1]] > 0 /\ x[2] \in reg[x[1]].holders =>
        \/ Head(todo).op # "setcap" /\ caps[InstanceOf[x[2]]] = BuildLimit[x[2]]
        \/ /\ Head(todo).op = "setcap" /\ Head(todo).tok = InstanceOf[x[2]]
           /\ Head(todo).n = BuildLimit[x[2]]
FramesFollow ==
    \A f \in Frames(todo) : /\ f.op = "setcap" => SetsCap(f)
                            /\ f.op = "retags" => MovesCap(f)

Ceilings ==
    Piled /\ CapsAre /\ CapsHeld /\ Bounded /\ Paged /\ HeadFits /\ FramesFollow
Capped == crashes = 0 => up /\ Ceilings

-----------------------------------------------------------------------------
(* The pages that count against a ceiling.                                 *)

Piece(rg, m, b) == IF Counts(rg, m, b) THEN rg[m].pages ELSE 0
Pieces(rg, b) == [m \in Ours(rg, b) |-> rg[m].pages]

\* The tokens of one build are its own.
LEMMA Parties ==
    ASSUME NEW b \in Builds
    PROVE  /\ b \in Token /\ InstanceOf[b] \in Token \ Builds /\ InstanceOf[b] \in Instances
           /\ BuildLimit[b] \in Nat \cup {NoCap}
           /\ \A c \in Builds : c # b => Party(b) \cap Party(c) = {}
<1>1. b \in Token /\ InstanceOf[b] \in Token \ Builds /\ BuildLimit[b] \in Nat \cup {NoCap}
  BY ConstantsOK
<1>2. InstanceOf[b] \in Instances
  BY DEF Instances
<1>3. ASSUME NEW c \in Builds, c # b PROVE Party(b) \cap Party(c) = {}
  <2>1. InstanceOf[c] \notin Builds /\ InstanceOf[c] # InstanceOf[b]
    BY <1>3, ConstantsOK, FreshInstances
  <2> QED BY <1>1, <1>3, <2>1 DEF Party
<1> QED BY <1>1, <1>2, <1>3

\* They add up.
LEMMA TakenIs ==
    ASSUME NEW rg, Fit(rg), NEW b
    PROVE  /\ IsFiniteSet(Ours(rg, b)) /\ Pieces(rg, b) \in [Ours(rg, b) -> Nat]
           /\ Taken(rg, b) = Total(Pieces(rg, b)) /\ Taken(rg, b) \in Nat
           /\ \A m \in Memory : /\ rg[m] # None => rg[m].pages \in Nat
                                /\ Piece(rg, m, b) \in Nat
           /\ \A m \in Ours(rg, b) : Pieces(rg, b)[m] = rg[m].pages
<1>1. IsFiniteSet(Ours(rg, b))
  <2>1. Ours(rg, b) \subseteq Rows(rg)
    BY RowSets DEF Ours, Rows, Counts
  <2> QED BY <2>1, FS_Subset DEF Fit
<1>2. \A m \in Memory : rg[m] # None => rg[m].pages \in Nat
  BY RowSets DEF Fit, Row
<1>3. Pieces(rg, b) \in [Ours(rg, b) -> Nat]
  BY <1>2 DEF Pieces, Ours, Counts
<1>4. Taken(rg, b) = Total(Pieces(rg, b))
  BY DEF Taken, Pieces
<1>5. \A m \in Memory : Piece(rg, m, b) \in Nat
  BY <1>2 DEF Piece, Counts
<1>6. \A m \in Ours(rg, b) : Pieces(rg, b)[m] = rg[m].pages
  BY DEF Pieces
<1> QED BY <1>1, <1>2, <1>3, <1>4, <1>5, <1>6, TotalNat

\* Fewer memories with no more pages.
LEMMA TakenFalls ==
    ASSUME NEW rg, Fit(rg), NEW rh, Fit(rh), NEW b,
           \A m \in Memory : Counts(rh, m, b) => Counts(rg, m, b) /\ rh[m].pages <= rg[m].pages
    PROVE  Taken(rh, b) <= Taken(rg, b)
<1> DEFINE S == Ours(rg, b)
           T == Ours(rh, b)
           f == Pieces(rg, b)
           g == Pieces(rh, b)
<1>1. /\ IsFiniteSet(S) /\ f \in [S -> Nat] /\ g \in [T -> Nat]
      /\ Taken(rg, b) = Total(f) /\ Taken(rh, b) = Total(g)
  BY TakenIs
<1>2. T \in SUBSET S
  BY DEF Ours
<1>3. \A m \in T : g[m] <= f[m]
  <2>1. \A m \in T : g[m] = rh[m].pages /\ f[m] = rg[m].pages /\ rh[m].pages <= rg[m].pages
    BY <1>2, TakenIs DEF Ours
  <2> QED BY <2>1
<1> HIDE DEF S, T, f, g
<1>4. Total(g) <= Total(f)
  BY <1>1, <1>2, <1>3, TotalLess
<1> QED BY <1>1, <1>4

\* No memory comes to a party.
LEMMA AnchoredBefore ==
    ASSUME NEW rg, NEW rh, NEW b, Anchored(rh, b),
           \A m \in Memory : Counts(rh, m, b) => Counts(rg, m, b)
    PROVE  Anchored(rg, b)
BY DEF Anchored

\* One memory taken out.
LEMMA TakenBut ==
    ASSUME NEW rg, Fit(rg), NEW b, NEW m \in Memory
    PROVE  LET S == Ours(rg, b) \ {m} IN
           /\ IsFiniteSet(S) /\ [y \in S |-> rg[y].pages] \in [S -> Nat]
           /\ Total([y \in S |-> rg[y].pages]) \in Nat
           /\ Taken(rg, b) = Total([y \in S |-> rg[y].pages]) + Piece(rg, m, b)
<1> DEFINE T == Ours(rg, b)
           S == T \ {m}
           f == Pieces(rg, b)
           g == [y \in S |-> rg[y].pages]
<1>1. /\ IsFiniteSet(T) /\ f \in [T -> Nat] /\ Taken(rg, b) = Total(f) /\ Total(f) \in Nat
      /\ \A y \in T : f[y] = rg[y].pages
  BY TakenIs
<1>2. IsFiniteSet(S)
  BY <1>1, FS_Subset
<1>3. \A y \in S : g[y] = f[y]
  BY <1>1
<1>4. g \in [S -> Nat]
  BY <1>1
<1>5. m \in T <=> Counts(rg, m, b)
  BY DEF Ours
<1>6. m \in T => f[m] = Piece(rg, m, b)
  BY <1>1, <1>5 DEF Piece
<1>7. m \notin T => Piece(rg, m, b) = 0 /\ g = f
  <2>1. m \notin T => S = T
    OBVIOUS
  <2> QED BY <1>1, <1>5, <2>1 DEF Piece
<1>8. Total(g) \in Nat
  <2> HIDE DEF g, S
  <2> QED BY <1>2, <1>4, TotalNat
<1>9. Taken(rg, b) = Total(g) + Piece(rg, m, b)
  <2>1. CASE m \in T
    <3>1. T = S \cup {m} /\ m \notin S
      BY <2>1
    <3>2. g \in [S -> Int] /\ f \in [T -> Int]
      <4> HIDE DEF g, S, f, T
      <4> QED BY <1>1, <1>4, NatInt
    <3> HIDE DEF g, S, f, T
    <3>3. Total(f) = Total(g) + f[m]
      BY <1>2, <1>3, <3>1, <3>2, TotalMore
    <3> QED BY <1>1, <1>6, <2>1, <3>3
  <2>2. CASE m \notin T
    <3> HIDE DEF g, S, f, T
    <3> QED BY <1>1, <1>7, <1>8, <2>2
  <2> QED BY <2>1, <2>2
<1> QED BY <1>2, <1>4, <1>8, <1>9

\* One memory with a different piece.
LEMMA TakenMoves ==
    ASSUME NEW rg, Fit(rg), NEW rh, Fit(rh), NEW b, NEW m \in Memory,
           \A y \in Memory \ {m} : rh[y] = rg[y]
    PROVE  Taken(rh, b) = Taken(rg, b) - Piece(rg, m, b) + Piece(rh, m, b)
<1> DEFINE S == Ours(rg, b) \ {m}
           T == Ours(rh, b) \ {m}
           f == [y \in S |-> rg[y].pages]
           g == [y \in T |-> rh[y].pages]
<1>1. /\ Total(f) \in Nat /\ Taken(rg, b) = Total(f) + Piece(rg, m, b)
      /\ Taken(rh, b) = Total(g) + Piece(rh, m, b)
  BY TakenBut
<1>2. S = T
  BY DEF Ours, Counts
<1>3. f = g
  BY <1>2 DEF Ours
<1>4. Piece(rg, m, b) \in Nat /\ Piece(rh, m, b) \in Nat
  BY TakenIs
<1> HIDE DEF f, g
<1> QED BY <1>1, <1>3, <1>4

\* What one token holds.
LEMMA TakenByOne ==
    ASSUME NEW rg, Fit(rg), NEW b, NEW t \in Token,
           \A m \in Memory : Counts(rg, m, b) => t \in rg[m].holders
    PROVE  Taken(rg, b) <= AdoptTotals(rg)[t]
<1> DEFINE S == HeldBy(rg, t)
           T == Ours(rg, b)
           f == Shares(rg, t)
           g == Pieces(rg, b)
<1>1. /\ IsFiniteSet(S) /\ f \in [S -> Nat] /\ g \in [T -> Nat]
      /\ AdoptTotals(rg)[t] = Total(f) /\ Taken(rg, b) = Total(g)
  BY SharesType, TakenIs
<1>2. T \in SUBSET S
  BY RowSets DEF Ours, Counts, HeldBy, Rows
<1>3. \A m \in T : g[m] <= f[m]
  <2> SUFFICES ASSUME NEW m \in T PROVE g[m] <= f[m]
    OBVIOUS
  <2>1. m \in Memory /\ m \in S /\ m \notin Image /\ rg[m] # None
    BY <1>2, RowSets DEF Ours, Counts
  <2>2. g[m] = rg[m].pages /\ f[m] = counted(m, rg[m]) /\ rg[m].pages \in Nat
    BY <2>1, TakenIs DEF Shares
  <2> QED BY <2>1, <2>2 DEF counted
<1> HIDE DEF S, T, f, g
<1>4. Total(g) <= Total(f)
  BY <1>1, <1>2, <1>3, TotalLess
<1> QED BY <1>1, <1>4

\* The other way round: a token of the party holds no more memory than the party.
LEMMA OneTakes ==
    ASSUME NEW rg, Fit(rg), NEW b, NEW t \in Party(b)
    PROVE  Total([m \in HeldBy(rg, t) \cap Memory |-> rg[m].pages]) <= Taken(rg, b)
<1> DEFINE S == Ours(rg, b)
           T == HeldBy(rg, t) \cap Memory
           f == Pieces(rg, b)
           g == [m \in T |-> rg[m].pages]
<1>1. IsFiniteSet(S) /\ f \in [S -> Nat] /\ Taken(rg, b) = Total(f)
  BY TakenIs
<1>2. T \in SUBSET S
  BY DEF Ours, Counts, HeldBy, Rows
<1>3. g \in [T -> Nat] /\ \A m \in T : g[m] <= f[m]
  <2>1. \A m \in T : f[m] = rg[m].pages /\ rg[m].pages \in Nat
    BY <1>2, TakenIs DEF Ours, Counts
  <2>2. \A m \in T : g[m] = rg[m].pages
    OBVIOUS
  <2> QED BY <2>1, <2>2
<1> HIDE DEF S, T, f, g
<1> QED BY <1>1, <1>2, <1>3, TotalLess DEF g, T

\* A token is counted for its shares of two rows together.
LEMMA ShareTwo ==
    ASSUME NEW rg, Fit(rg), NEW t \in Token, NEW r \in Res, NEW m \in Res, r # m
    PROVE  Share(rg, r, t) + Share(rg, m, t) <= AdoptTotals(rg)[t]
<1> DEFINE rh == [rg EXCEPT ![m] = None]
<1>1. /\ rh \in [Res -> Row \cup {None}] /\ rh[m] = None
      /\ \A y \in Res \ {m} : rh[y] = rg[y]
  BY DEF Fit
<1>2. Fit(rh)
  <2>1. Rows(rh) \subseteq Rows(rg)
    BY <1>1 DEF Rows
  <2>2. IsFiniteSet(Rows(rh))
    BY <2>1, FS_Subset DEF Fit
  <2> HIDE DEF rh
  <2> QED BY <1>1, <2>2 DEF Fit
<1> HIDE DEF rh
<1>3. \A y \in Res \ {m} : /\ Share(rh, y, t) = Share(rg, y, t)
                           /\ y \in HeldBy(rh, t) <=> y \in HeldBy(rg, t)
  BY <1>1 DEF Share, HeldBy, Rows
<1>4. AdoptTotals(rh)[t] = AdoptTotals(rg)[t] - Share(rg, m, t) + Share(rh, m, t)
  BY <1>2, <1>3, ShareMoves
<1>5. Share(rh, m, t) = 0
  BY <1>1 DEF Share
<1>6. Share(rh, r, t) <= AdoptTotals(rh)[t]
  BY <1>2, ShareBound
<1>7. Share(rh, r, t) = Share(rg, r, t)
  BY <1>3
<1>8. /\ AdoptTotals(rh)[t] \in Nat /\ AdoptTotals(rg)[t] \in Nat
      /\ Share(rg, r, t) \in Nat /\ Share(rg, m, t) \in Nat
  BY <1>2, SharesType
<1> QED BY <1>4, <1>5, <1>6, <1>7, <1>8

-----------------------------------------------------------------------------
(* Steps that no ceiling is concerned with.                                *)

\* A row whose holders and pages stay, and which begins no transaction.
KeptRow(m) ==
    reg'[m] # None => /\ reg[m] # None /\ reg'[m].holders = reg[m].holders
                      /\ reg'[m].pages = reg[m].pages /\ reg'[m].txn \in {None, reg[m].txn}
LostRow(m) ==
    reg'[m] # None => /\ reg[m] # None /\ reg'[m].holders = reg[m].holders
                      /\ reg'[m].pages <= reg[m].pages
Busy == todo # <<>> /\ Head(todo).op \in Holding \cup {"retags"}

\* The first frame is a frame.
LEMMA HeadIn ==
    ASSUME todo \in Seq(Frame), todo # <<>>
    PROVE  /\ Head(todo) \in Frame /\ Head(todo) \in Frames(todo) /\ Head(todo) = todo[1]
           /\ Frames(todo) = {Head(todo)} \cup Under /\ 1 \in 1 .. Len(todo)
<1>1. Len(todo) \in Nat \ {0} /\ Head(todo) = todo[1] /\ todo[1] \in Frame
  OBVIOUS
<1>2. 1 .. Len(todo) = {1} \cup 2 .. Len(todo)
  BY <1>1
<1> QED BY <1>1, <1>2 DEF Frames, Under

\* Nothing is under it that was only ever first.
LEMMA UnderIs ==
    ASSUME Inv
    PROVE  /\ Under \subseteq Frames(todo) /\ \A f \in Under : f.op \in Deferred
           /\ todo = <<>> => Under = {} /\ Frames(todo) = {}
<1>1. \A i \in 2 .. Len(todo) : todo[i].op \in Deferred
  BY DEF Inv, StackOK
<1>2. todo = <<>> => 1 .. Len(todo) = {} /\ 2 .. Len(todo) = {}
  OBVIOUS
<1>3. todo = <<>> => Under = {} /\ Frames(todo) = {}
  BY <1>2 DEF Under, Frames
<1> QED BY <1>1, <1>3, UnderIn DEF Under

\* No holder is on its way out unless the handler says so.
LEMMA Cleared ==
    ASSUME Inv, Piled, ~Busy
    PROVE  /\ \A f \in Frames(todo) : f.op \notin Moving \cup {"unhold"}
           /\ \A m, t : ~Letting(m, t) /\ ~Due(m, t)
<1>1. ASSUME NEW f \in Frames(todo), f.op \in Moving \cup {"unhold"} PROVE FALSE
  <2>1. PICK i \in 1 .. Len(todo) : f = todo[i]
    BY DEF Frames
  <2>2. todo # <<>> /\ 1 \in 1 .. i /\ Head(todo) = todo[1]
    <3>1. todo \in Seq(Frame)
      BY DEF Inv, StateOK
    <3> QED BY <2>1, <3>1
  <2>3. CASE f.op = "unhold"
    <3>1. i \notin 2 .. Len(todo)
      BY <1>1, <2>1, <2>3 DEF Inv, StackOK, Deferred
    <3>2. f = Head(todo)
      BY <2>1, <2>2, <3>1
    <3> QED BY <2>2, <2>3, <3>2 DEF Busy, Holding
  <2>4. CASE f.op = "retags"
    <3>1. f = Head(todo) \/ Head(todo).op = "setcap"
      BY <2>1, <2>2, <2>4 DEF Piled
    <3> QED BY <2>2, <2>4, <3>1 DEF Busy, Holding
  <2>5. CASE f.op \in {"drops", "setcap"}
    BY <2>1, <2>2, <2>5 DEF Piled, Busy
  <2> QED BY <1>1, <2>3, <2>4, <2>5 DEF Moving
<1>2. ASSUME NEW m, NEW t, Letting(m, t) PROVE FALSE
  <2>1. Head(todo).op = "unhold" /\ todo # <<>>
    BY <1>2 DEF Letting
  <2> QED BY <2>1 DEF Busy, Holding
<1>3. ASSUME NEW m, NEW t, Due(m, t) PROVE FALSE
  BY <1>1, <1>3 DEF Due, Moving
<1> QED BY <1>1, <1>2, <1>3

\* A step with no ceiling to look after: rows lose pages at most, ceilings go from
\* those that hold no memory.
LEMMA Steadily ==
    ASSUME Inv, Inv', Budget, Budget', Ceilings, ~Busy,
           \A f \in Frames(todo') : f.op \notin Moving \cup {"unhold"},
           \A m \in Memory : LostRow(m), Paged', HeadFits', UNCHANGED builds,
           \A t \in Token : caps'[t] \in {caps[t], NoCap},
           \A m \in Memory : reg[m] # None /\ InitPages[m] > 0 =>
               \A b \in Builds : \A t \in Party(b) : t \in reg[m].holders => caps'[t] = caps[t]
    PROVE  Ceilings'
<1>1. Piled'
  <2>1. \A i \in 1 .. Len(todo') : todo'[i] \in Frames(todo')
    BY DEF Frames
  <2> QED BY <2>1 DEF Piled, Moving
<1>2. CapsAre'
  BY DEF CapsAre, Ceilings
<1>3. CapsHeld'
  <2> SUFFICES ASSUME NEW b \in Limited, NEW m \in Memory, reg'[m] # None PROVE HasCap(b, m)'
    BY DEF CapsHeld, Limited, HasCap
  <2>1. b \in Builds /\ InstanceOf[b] \in Party(b) /\ b \in Party(b)
    BY DEF Limited, Party
  <2>2. reg[m] # None /\ reg'[m].holders = reg[m].holders
    BY DEF LostRow
  <2>3. HasCap(b, m) /\ ~Letting(m, b) /\ ~Due(m, b) /\ ~Letting(m, InstanceOf[b])
    BY Cleared DEF Ceilings, CapsHeld
  <2> QED BY <2>1, <2>2, <2>3 DEF HasCap
<1>4. Bounded'
  <2> SUFFICES ASSUME NEW b \in Limited, Anchored(reg', b) PROVE Taken(reg', b) <= BuildLimit[b]
    BY DEF Bounded, Limited
  <2>1. Fit(reg) /\ Fit(reg')
    BY BothFit
  <2>2. \A m \in Memory : Counts(reg', m, b) => Counts(reg, m, b) /\ reg'[m].pages <= reg[m].pages
    BY DEF Counts, LostRow
  <2>3. Taken(reg', b) <= Taken(reg, b) /\ Taken(reg, b) \in Nat /\ Taken(reg', b) \in Nat
    BY <2>1, <2>2, TakenFalls, TakenIs
  <2>5. Anchored(reg, b)
    BY <2>2, AnchoredBefore
  <2>4. Taken(reg, b) <= BuildLimit[b] /\ BuildLimit[b] \in Nat \cup {NoCap}
    BY <2>5, Parties DEF Ceilings, Bounded, Limited
  <2> QED BY <2>3, <2>4 DEF NoCap
<1>5. FramesFollow'
  BY DEF FramesFollow, Moving
<1> QED BY <1>1, <1>2, <1>3, <1>4, <1>5 DEF Ceilings

\* The frames that adds nothing.
LEMMA NothingAdded ==
    ASSUME todo' # <<>> => Head(todo').op \notin {"insert", "txn"} PROVE HeadFits'
BY DEF HeadFits, InsertFits, GrowFits

\* Rows that are kept have pages as before.
LEMMA PagedStill ==
    ASSUME Paged, \A m \in Memory : KeptRow(m) PROVE Paged'
BY DEF Paged, KeptRow

\* A frame that is replaced by plain ones, or a handler that begins with such.
LEMMA Going ==
    ASSUME Inv, Inv', Budget, Budget', Ceilings, ~Busy,
           NEW S, Frames(todo') \subseteq Under \cup S,
           \A f \in S : f.op \notin Moving \cup {"unhold", "insert", "txn"},
           \A m \in Memory : LostRow(m), Paged', UNCHANGED builds,
           \A t \in Token : caps'[t] \in {caps[t], NoCap},
           \A m \in Memory : reg[m] # None /\ InitPages[m] > 0 =>
               \A b \in Builds : \A t \in Party(b) : t \in reg[m].holders => caps'[t] = caps[t]
    PROVE  Ceilings'
<1>1. \A f \in Frames(todo') : f.op \notin Moving \cup {"unhold"}
  BY Cleared, UnderIs DEF Ceilings
<1>2. ASSUME todo' # <<>> PROVE Head(todo').op \notin {"insert", "txn"}
  <2>1. todo' \in Seq(Frame)
    BY DEF Inv, StateOK
  <2>2. Head(todo') \in Frames(todo')
    <3>1. Len(todo') \in Nat \ {0} /\ Head(todo') = todo'[1]
      BY <1>2, <2>1
    <3> QED BY <3>1 DEF Frames
  <2>3. \A f \in Under : f.op \notin {"insert", "txn"}
    BY UnderIs DEF Deferred
  <2> QED BY <2>2, <2>3
<1>3. HeadFits'
  BY <1>2, NothingAdded
<1> QED BY <1>1, <1>3, Steadily

\* The next step follows: frames are popped or pushed, and ceilings stay.
LEMMA GoingOn ==
    ASSUME Inv, Inv', Budget, Budget', Ceilings, ~Busy,
           NEW S, Frames(todo') \subseteq Under \cup S,
           \A f \in S : f.op \notin Moving \cup {"unhold", "insert", "txn"},
           \A m \in Memory : KeptRow(m), UNCHANGED <<caps, builds>>
    PROVE  Ceilings'
<1>1. \A m \in Memory : LostRow(m)
  <2> SUFFICES ASSUME NEW m \in Memory, reg'[m] # None
               PROVE  reg[m] # None /\ reg'[m].holders = reg[m].holders
                      /\ reg'[m].pages <= reg[m].pages
    BY DEF LostRow
  <2>1. reg[m] # None /\ reg'[m].holders = reg[m].holders /\ reg'[m].pages = reg[m].pages
    BY DEF KeptRow
  <2>2. reg[m].pages \in Nat
    BY <2>1, BothFit, TakenIs
  <2> QED BY <2>1, <2>2
<1>2. Paged'
  BY PagedStill DEF Ceilings
<1> QED BY <1>1, <1>2, Going

\* Rows written for something else.
LEMMA SameKept == ASSUME UNCHANGED reg PROVE \A m \in Memory : KeptRow(m)
BY DEF KeptRow

\* A row that keeps holders and pages.
LEMMA RowKept ==
    ASSUME StateOK, NEW r \in Res, NEW w, reg' = [reg EXCEPT ![r] = w],
           r \in Memory => /\ reg[r] # None /\ w.holders = reg[r].holders
                           /\ w.pages = reg[r].pages /\ w.txn \in {None, reg[r].txn}
    PROVE  \A m \in Memory : KeptRow(m)
<1>1. reg'[r] = w /\ \A y \in Res \ {r} : reg'[y] = reg[y]
  BY RowSet
<1> QED BY <1>1, RowSets DEF KeptRow

\* An outcome kept or forgotten.
LEMMA OutcomeKept ==
    ASSUME StateOK, NEW r \in Memory, reg[r] # None, NEW d \in [Pid -> Outcome \cup {None}],
           reg' = [reg EXCEPT ![r].done = d]
    PROVE  \A m \in Memory : KeptRow(m)
<1> DEFINE w == [reg[r] EXCEPT !.done = d]
<1>1. r \in Res /\ reg[r] \in Row
  BY RowSets DEF StateOK
<1>2. w.holders = reg[r].holders /\ w.pages = reg[r].pages /\ w.txn = reg[r].txn
  BY <1>1 DEF Row
<1>3. reg' = [reg EXCEPT ![r] = w]
  OBVIOUS
<1> HIDE DEF w
<1> QED BY <1>1, <1>2, <1>3, RowKept

\* An outcome that is forgotten leaves what the ceilings are about.
LEMMA DoneKept ==
    ASSUME StateOK, NEW r \in Memory, reg[r] # None, NEW p \in Pid,
           reg' = [reg EXCEPT ![r].done[p] = None]
    PROVE  \A m \in Memory : KeptRow(m)
<1> DEFINE d == [reg[r].done EXCEPT ![p] = None]
<1>1. r \in Res /\ reg[r] \in Row
  BY RowSets DEF StateOK
<1>2. d \in [Pid -> Outcome \cup {None}]
  BY <1>1, RowFields
<1>3. reg' = [reg EXCEPT ![r].done = d]
  OBVIOUS
<1> HIDE DEF d
<1> QED BY <1>2, <1>3, OutcomeKept

\* A caller's own step.
LEMMA Apart ==
    ASSUME Inv, Ceilings, UNCHANGED <<reg, caps, builds, todo>>,
           \A p \in Pid : cl[p].ph \in {"begin", "queued"} => cl'[p] = cl[p]
    PROVE  Ceilings'
<1>1. /\ Piled' /\ CapsAre' /\ Bounded' /\ Paged' /\ FramesFollow'
  BY DEF Ceilings, Piled, CapsAre, Bounded, Paged, FramesFollow, SetsCap, MovesCap
<1>2. CapsHeld'
  BY Zenon DEF Ceilings, CapsHeld, HasCap, Letting, Due
<1>3. HeadFits'
  <2> SUFFICES ASSUME todo # <<>> PROVE InsertFits(Head(todo))' /\ GrowFits(Head(todo))'
    BY DEF HeadFits
  <2> DEFINE f == Head(todo)
  <2>1. f \in Frame /\ InsertFits(f) /\ GrowFits(f)
    BY HeadIn DEF Inv, StateOK, Ceilings, HeadFits
  <2>2. f.op = "txn" => f.pid \in Pid /\ cl[f.pid].ph \in {"begin", "queued"}
    BY <2>1, FrameFields DEF Inv, HeadOK
  <2>3. f.op = "txn" => cl'[f.pid] = cl[f.pid]
    BY <2>2
  <2>4. Head(todo)' = f
    OBVIOUS
  <2> HIDE DEF f
  <2> QED BY <2>1, <2>3, <2>4 DEF InsertFits, GrowFits
<1> QED BY <1>1, <1>2, <1>3 DEF Ceilings

\* Frames put in the place of the first, or begun with.
LEMMA PutOn ==
    ASSUME Inv, NEW F, NEW s \in Seq(F), (todo = <<>> /\ todo' = s) \/ (todo # <<>> /\ Then(s))
    PROVE  Frames(todo') \subseteq Under \cup F
<1>1. Frames(s) \subseteq F
  BY DEF Frames
<1>2. CASE todo = <<>> /\ todo' = s
  BY <1>1, <1>2
<1>3. CASE todo # <<>> /\ Then(s)
  BY <1>1, <1>3, FramesThen
<1> QED BY <1>2, <1>3

\* The handler of a frame that does not drop, retag or move a ceiling.
LEMMA PlainStep ==
    ASSUME Inv, Inv', Budget, Budget', Ceilings, ~Busy,
           NEW F, \A f \in F : f.op \notin Moving \cup {"unhold", "insert", "txn"},
           NEW s \in Seq(F), (todo = <<>> /\ todo' = s) \/ (todo # <<>> /\ Then(s)),
           \A m \in Memory : KeptRow(m), UNCHANGED <<caps, builds>>
    PROVE  Ceilings'
<1>1. Frames(todo') \subseteq Under \cup F
  BY PutOn
<1> QED BY <1>1, GoingOn

\* A frame's writes to cells, callers and outcomes.
LEMMA StepCeilings ==
    ASSUME Inv, Inv', Budget, Budget', Ceilings,
           \/ Reserved \/ PublishChunks \/ PublishSize \/ PublishArena \/ Finish \/ GrantStep
           \/ ReplyStep \/ ReconcileCounters
    PROVE  Ceilings'
<1> DEFINE f == Head(todo)
           Steps == {"reserved", "chunks", "size", "arena", "finish", "grant", "reply",
                     "reconcile"}
           Goes == Then(<<>>) \/ \E op \in {"size", "finish", "next"} : \E r : Then(Do(op, r))
<1>0. StateOK /\ HeadOK
  BY DEF Inv
<1>1. todo # <<>> /\ f.op \in Steps /\ UNCHANGED <<caps, builds>> /\ Goes
  BY Zenon DEF Reserved, PublishChunks, PublishSize, PublishArena, Finish, GrantStep, ReplyStep,
         ReconcileCounters, At, durable, callers
<1>2. ~Busy
  BY <1>1 DEF Busy, Holding, Cleanup
<1>3. \A m \in Memory : KeptRow(m)
  <2>1. CASE Finish
    <3>1. up /\ todo # <<>> /\ f \in Frame /\ f.op = "finish"
      BY <2>1, HeadFrame DEF Finish
    <3>2. f.res \in Memory /\ f.res \in Res /\ reg[f.res] # None /\ reg[f.res] \in Row
      BY <1>0, <3>1, FrameFields, RowSets DEF HeadOK, StateOK
    <3> DEFINE r == f.res
               t == reg[r].txn
               w == [reg[r] EXCEPT !.txn = None, !.done[t.pid] = [op |-> t.op, res |-> "ok"]]
    <3>3. reg' = [reg EXCEPT ![r] = w]
      BY <2>1, Zenon DEF Finish
    <3>4. w.holders = reg[r].holders /\ w.pages = reg[r].pages /\ w.txn = None
      BY <3>2 DEF Row
    <3> HIDE DEF w, f
    <3> QED BY <1>0, <3>2, <3>3, <3>4, RowKept
  <2>2. CASE ~Finish
    <3>1. UNCHANGED reg
      BY <2>2 DEF Reserved, PublishChunks, PublishSize, PublishArena, GrantStep, ReplyStep,
             ReconcileCounters, durable
    <3> QED BY <3>1, SameKept
  <2> QED BY <2>1, <2>2
<1>4. CASE Then(<<>>)
  <2>1. <<>> \in Seq({}) /\ \A g \in {} : g.op \notin Moving \cup {"unhold", "insert", "txn"}
    OBVIOUS
  <2> QED BY <1>1, <1>2, <1>3, <1>4, <2>1, PlainStep
<1>5. ASSUME NEW op \in {"size", "finish", "next"}, NEW r, Then(Do(op, r)) PROVE Ceilings'
  <2> DEFINE g == [op |-> op, res |-> r]
             F == {g}
  <2>1. g.op \notin Moving \cup {"unhold", "insert", "txn"} /\ Do(op, r) = <<g>>
    BY DEF Moving, Do
  <2> HIDE DEF g
  <2>2. <<g>> \in Seq(F) /\ \A y \in F : y.op \notin Moving \cup {"unhold", "insert", "txn"}
    BY <2>1
  <2> HIDE DEF F
  <2> QED BY <1>1, <1>2, <1>3, <1>5, <2>1, <2>2, PlainStep
<1> QED BY <1>1, <1>4, <1>5

\* The steps that go on to a set of frames.
LEMMA RollCeilings ==
    ASSUME Inv, Inv', Budget, Budget', Ceilings, WriterGone \/ FinishRetiring \/ RecoverRow \/ SweepImages
    PROVE  Ceilings'
<1> DEFINE f == Head(todo)
           Light(op) == op \notin Moving \cup {"unhold", "insert", "txn"}
<1>0. StateOK /\ reg \in [Res -> Row \cup {None}]
  BY DEF Inv, StateOK
<1>r. ASSUME todo # <<>>, f.op \in {"gone", "retiring", "recover", "sweep"},
             NEW op, Light(op), NEW S, NEW g, Light(g.op),
             NEW s, s = <<>> \/ s = <<g>>, Then(s \o Each(op, S)),
             \A m \in Memory : KeptRow(m), UNCHANGED <<caps, builds>>
      PROVE  Ceilings'
  <2> DEFINE b == [op |-> op, set |-> S]
             F == {g, b}
  <2>1. Light(b.op) /\ Each(op, S) \in Seq({b})
    BY <1>r, EachSeq
  <2> HIDE DEF b
  <2>2. s \in Seq({g})
    BY <1>r, OneSeq
  <2>3. s \o Each(op, S) \in Seq(F) /\ \A y \in F : Light(y.op)
    BY <1>r, <2>1, <2>2, JoinSeq
  <2>4. ~Busy
    BY <1>r DEF Busy, Holding, Cleanup
  <2> HIDE DEF F
  <2> QED BY <1>r, <2>3, <2>4, PlainStep
<1>s. ASSUME todo # <<>>, f.op \in {"gone", "retiring", "recover", "sweep"},
             NEW op, Light(op), NEW S, Then(Each(op, S)), UNCHANGED <<reg, caps, builds>>
      PROVE  Ceilings'
  <2> DEFINE b == [op |-> op, set |-> S]
             F == {b}
  <2>1. Light(b.op) /\ Each(op, S) \in Seq({b})
    BY <1>s, EachSeq
  <2> HIDE DEF b
  <2>2. Each(op, S) \in Seq(F) /\ \A y \in F : Light(y.op)
    BY <2>1
  <2>3. ~Busy
    BY <1>s DEF Busy, Holding, Cleanup
  <2> HIDE DEF F
  <2> QED BY <1>s, <2>2, <2>3, SameKept, PlainStep
<1>p. /\ Light("gone") /\ Light("retiring") /\ Light("recover") /\ Light("sweep")
      /\ Light("settle") /\ Light("forget")
  BY DEF Moving
<1>1. CASE WriterGone
  <2>1. up /\ todo # <<>> /\ f \in Frame /\ f.op = "gone"
    BY <1>1, HeadFrame DEF WriterGone
  <2>2. f.set \subseteq Memory \X Pid /\ UNCHANGED <<caps, builds>>
    BY <1>1, <2>1, FrameFields DEF WriterGone, callers
  <2>3. PICK x, s :
          /\ x \in f.set
          /\ s = <<>> \/ s = <<[op |-> "settle", res |-> x[1]]>>
          /\ \/ UNCHANGED reg /\ Then(Each("gone", f.set \ {x}))
             \/ /\ reg[x[1]] # None /\ reg' = [reg EXCEPT ![x[1]].done[x[2]] = None]
                /\ Then(s \o Each("gone", f.set \ {x}))
    BY <1>1 DEF WriterGone, Do
  <2>4. x[1] \in Memory /\ x[2] \in Pid
    BY <2>2, <2>3
  <2> DEFINE S == f.set \ {x}
             g == [op |-> "settle", res |-> x[1]]
  <2>5. CASE UNCHANGED reg /\ Then(Each("gone", S))
    <3> HIDE DEF S
    <3> QED BY <2>1, <2>2, <2>5, <1>s, <1>p
  <2>6. CASE /\ reg[x[1]] # None /\ reg' = [reg EXCEPT ![x[1]].done[x[2]] = None]
             /\ Then(s \o Each("gone", S))
    <3>1. \A m \in Memory : KeptRow(m)
      BY <1>0, <2>4, <2>6, DoneKept
    <3>2. Light(g.op) /\ (s = <<>> \/ s = <<g>>)
      BY <2>3, <1>p
    <3> HIDE DEF g, S
    <3> QED BY <2>1, <2>2, <2>6, <3>1, <3>2, <1>r, <1>p
  <2> QED BY <2>3, <2>5, <2>6
<1>2. CASE FinishRetiring
  <2>1. up /\ todo # <<>> /\ f \in Frame /\ f.op = "retiring"
    BY <1>2, HeadFrame DEF FinishRetiring
  <2>2. UNCHANGED <<reg, caps, builds>>
    BY <1>2 DEF FinishRetiring, durable, callers
  <2>3. PICK r, s : /\ r \in f.set /\ (s = <<>> \/ s = <<[op |-> "forget", res |-> r]>>)
                    /\ Then(s \o Each("retiring", f.set \ {r}))
    BY <1>2 DEF FinishRetiring, Do
  <2> DEFINE S == f.set \ {r}
             g == [op |-> "forget", res |-> r]
  <2>4. Light(g.op) /\ (s = <<>> \/ s = <<g>>) /\ Then(s \o Each("retiring", S))
    BY <2>3, <1>p
  <2> HIDE DEF g, S
  <2> QED BY <2>1, <2>2, <2>4, SameKept, <1>r, <1>p
<1>3. CASE RecoverRow
  <2>1. up /\ todo # <<>> /\ f \in Frame /\ f.op = "recover"
    BY <1>3, HeadFrame DEF RecoverRow
  <2>2. f.set \subseteq Memory /\ UNCHANGED <<caps, builds>>
    BY <1>3, <2>1, FrameFields DEF RecoverRow, callers
  <2>3. PICK r, s :
          LET kept == {p \in alive : reg[r].done[p] # None} IN
          /\ r \in f.set
          /\ s = <<>> \/ s = <<[op |-> "settle", res |-> r]>>
          /\ \/ UNCHANGED reg /\ Then(Each("recover", f.set \ {r}))
             \/ /\ reg[r] # None
                /\ reg' = [reg EXCEPT ![r].done =
                             [p \in Pid |-> IF p \in kept THEN @[p] ELSE None]]
                /\ Then(s \o Each("recover", f.set \ {r}))
    BY <1>3 DEF RecoverRow, Do
  <2>4. r \in Memory /\ r \in Res
    BY <2>2, <2>3, RowSets
  <2> DEFINE S == f.set \ {r}
             g == [op |-> "settle", res |-> r]
             kept == {p \in alive : reg[r].done[p] # None}
             d == [p \in Pid |-> IF p \in kept THEN reg[r].done[p] ELSE None]
  <2>5. CASE UNCHANGED reg /\ Then(Each("recover", S))
    <3> HIDE DEF S
    <3> QED BY <2>1, <2>2, <2>5, <1>s, <1>p
  <2>6. CASE /\ reg[r] # None /\ reg' = [reg EXCEPT ![r].done = d]
             /\ Then(s \o Each("recover", S))
    <3>1. d \in [Pid -> Outcome \cup {None}]
      <4>0. reg[r] \in Row
        BY <1>0, <2>4, <2>6
      <4>1. reg[r].done \in [Pid -> Outcome \cup {None}]
        BY <4>0, RowFields
      <4> QED BY <4>1
    <3> HIDE DEF d
    <3>3. \A m \in Memory : KeptRow(m)
      BY <1>0, <2>4, <2>6, <3>1, OutcomeKept
    <3>4. Light(g.op) /\ (s = <<>> \/ s = <<g>>)
      BY <2>3, <1>p
    <3> HIDE DEF g, S
    <3> QED BY <2>1, <2>2, <2>6, <3>3, <3>4, <1>r, <1>p
  <2> QED BY <2>3, <2>5, <2>6
<1>4. CASE SweepImages
  <2>1. up /\ todo # <<>> /\ f \in Frame /\ f.op = "sweep" /\ f.set \subseteq Res
        /\ UNCHANGED <<caps, builds>>
    BY <1>4, HeadFrame, FrameFields DEF SweepImages, callers
  <2>2. PICK i, s :
          /\ i \in f.set
          /\ \/ /\ reg[i] # None /\ reg[i].holders = {}
                /\ s = <<[op |-> "forget", res |-> i]>>
                /\ reg' = [reg EXCEPT ![i].state = "retiring"]
                /\ Then(s \o Each("sweep", f.set \ {i}))
             \/ Then(Each("sweep", f.set \ {i})) /\ UNCHANGED reg
    BY <1>4 DEF SweepImages, Do
  <2> DEFINE S == f.set \ {i}
             g == [op |-> "forget", res |-> i]
             w == [reg[i] EXCEPT !.state = "retiring"]
  <2>3. CASE Then(Each("sweep", S)) /\ UNCHANGED reg
    <3> HIDE DEF S
    <3> QED BY <2>1, <2>3, <1>s, <1>p
  <2>4. CASE /\ reg[i] # None /\ s = <<g>> /\ reg' = [reg EXCEPT ![i] = w]
             /\ Then(s \o Each("sweep", S))
    <3>1. i \in Res /\ reg[i] \in Row
      BY <1>0, <2>1, <2>2, <2>4
    <3>2. w.holders = reg[i].holders /\ w.pages = reg[i].pages /\ w.txn = reg[i].txn
      BY <3>1 DEF Row
    <3> HIDE DEF w
    <3>3. \A m \in Memory : KeptRow(m)
      BY <1>0, <2>4, <3>1, <3>2, RowKept
    <3>4. Light(g.op)
      BY <1>p
    <3> HIDE DEF g, S
    <3> QED BY <2>1, <2>4, <3>3, <3>4, <1>r, <1>p
  <2> QED BY <2>2, <2>3, <2>4
<1> QED BY <1>1, <1>2, <1>3, <1>4

\* A heap measured larger.
LEMMA HeapGrownCeilings ==
    ASSUME Inv, Inv', Budget, Budget', Ceilings, HeapGrown PROVE Ceilings'
<1> DEFINE r == Head(todo).res
           w == [reg[r] EXCEPT !.pages = Head(todo).n]
<1>1. /\ todo # <<>> /\ Head(todo).op = "grown" /\ r \in Heap /\ r \in Res /\ r \notin Memory
      /\ UNCHANGED <<caps, builds>> /\ Then(<<>>) /\ StateOK
  BY HeadFrame, RowSets DEF HeapGrown, callers, Budget, FramesFit, Inv
<1>2. reg' = [reg EXCEPT ![r] = w]
  BY DEF HeapGrown
<1>3. \A m \in Memory : KeptRow(m)
  <2> HIDE DEF r, w
  <2> QED BY <1>1, <1>2, RowKept
<1>4. ~Busy
  BY <1>1 DEF Busy, Holding, Cleanup
<1>5. <<>> \in Seq({}) /\ \A g \in {} : g.op \notin Moving \cup {"unhold", "insert", "txn"}
  OBVIOUS
<1> QED BY <1>1, <1>3, <1>4, <1>5, PlainStep

-----------------------------------------------------------------------------
(* Steps that add pages, or settle what was added.                         *)

\* Every part anew, with no holder on its way out.
LEMMA Gathered ==
    ASSUME \A f \in Frames(todo') : f.op \notin Moving \cup {"unhold"},
           CapsAre', CapsHeld', Bounded', Paged', HeadFits'
    PROVE  Ceilings'
<1>1. \A i \in 1 .. Len(todo') : todo'[i] \in Frames(todo')
  BY DEF Frames
<1>2. Piled'
  BY <1>1 DEF Piled, Moving
<1>3. FramesFollow'
  BY DEF FramesFollow, Moving
<1> QED BY <1>2, <1>3 DEF Ceilings

\* The token of a party that holds its memories, and has its ceiling when one of them
\* was made with pages.
LEMMA ByOne ==
    ASSUME Inv, Budget, Caches, Ceilings, ~Busy, NEW b \in Limited, NEW m \in Memory,
           Counts(reg, m, b), Anchored(reg, b)
    PROVE  \E t \in Token : /\ t \in reg[m].holders /\ caps[t] = BuildLimit[b]
                            /\ Taken(reg, b) <= AdoptTotals(reg)[t]
<1>1. b \in Builds /\ b \in Token /\ InstanceOf[b] \in Token
  BY Parties DEF Limited
<1>2. Fit(reg)
  BY RegFits DEF Inv, Budget
<1>3. ASSUME NEW y \in Memory, Counts(reg, y, b)
      PROVE  /\ b \in builds => /\ b \in reg[y].holders
                                /\ InitPages[y] > 0 => caps[b] = BuildLimit[b]
             /\ b \notin builds => /\ InstanceOf[b] \in reg[y].holders
                                   /\ InitPages[y] > 0 => caps[InstanceOf[b]] = BuildLimit[b]
  <2>1. reg[y] # None /\ (b \in reg[y].holders \/ InstanceOf[b] \in reg[y].holders)
    BY <1>3 DEF Counts, Party
  <2>2. HasCap(b, y) /\ ~Letting(y, b) /\ ~Due(y, b) /\ ~Letting(y, InstanceOf[b])
    BY Cleared DEF Ceilings, CapsHeld
  <2>3. InstanceOf[b] \in reg[y].holders => b \notin builds
    <3>1. RowTokens(y) /\ y \notin Image
      BY <2>1, RowSets DEF Caches, TokensOK
    <3> QED BY <1>1, <3>1 DEF RowTokens
  <2> QED BY <2>1, <2>2, <2>3 DEF HasCap
<1>6. PICK y \in Memory : InitPages[y] > 0 /\ Counts(reg, y, b)
  BY DEF Anchored
<1>4. CASE b \in builds
  <2>1. Taken(reg, b) <= AdoptTotals(reg)[b]
    BY <1>1, <1>2, <1>3, <1>4, TakenByOne
  <2> QED BY <1>1, <1>3, <1>4, <1>6, <2>1
<1>5. CASE b \notin builds
  <2>1. Taken(reg, b) <= AdoptTotals(reg)[InstanceOf[b]]
    BY <1>1, <1>2, <1>3, <1>5, TakenByOne
  <2> QED BY <1>1, <1>3, <1>5, <1>6, <2>1
<1> QED BY <1>4, <1>5

\* A growth that starts fits every holder's ceiling.
LEMMA StartFits ==
    ASSUME NEW p \in Pid, transaction(p) = "start", cl[p].kind = "grow"
    PROVE  reg[cl[p].res] # None /\ AllFit(reg[cl[p].res], cl[p].n)
<1> DEFINE c == cl[p]
           r == c.res
           row == reg[r]
           kept == row.done[p] # None /\ row.done[p].op = c.op
<1>1. CASE ~Live(r)
  BY <1>1 DEF transaction
<1>2. CASE Live(r) /\ kept
  BY <1>2 DEF transaction
<1>3. CASE Live(r) /\ ~kept
  <2>1. transaction(p) =
       IF row.txn # None
       THEN IF row.txn.pid = p /\ row.txn.op = c.op THEN "resume" ELSE "queue"
       ELSE IF c.kind = "grow"
       THEN IF /\ row.pages + c.n <= MaxPages[c.res]
               /\ AllFit(row, c.n)
               /\ CanReserve(Cost(p))
            THEN "start" ELSE "refused"
       ELSE IF arena[c.res] >= c.n THEN "covered"
       ELSE IF arena[c.res] # c.seen THEN "changed"
       ELSE IF CanReserve(Cost(p)) THEN "start" ELSE "refused"
    BY <1>3 DEF transaction
  <2> QED BY <1>3, <2>1 DEF Live
<1> QED BY <1>1, <1>2, <1>3

\* So the parties that hold the memory can take what is added.
LEMMA PartyFits ==
    ASSUME Inv, Budget, Caches, Ceilings, up, ~Busy, NEW p \in Pid, cl[p].res \in Memory,
           transaction(p) = "start", cl[p].kind = "grow", \A t \in Token : Extra(t) = 0
    PROVE  \A b \in Limited : Anchored(reg, b) /\ Counts(reg, cl[p].res, b) =>
               Taken(reg, b) + cl[p].n <= BuildLimit[b]
<1> DEFINE m == cl[p].res
<1> SUFFICES ASSUME NEW b \in Limited, Anchored(reg, b), Counts(reg, m, b)
             PROVE  Taken(reg, b) + cl[p].n <= BuildLimit[b]
  OBVIOUS
<1>1. PICK t \in Token : /\ t \in reg[m].holders /\ caps[t] = BuildLimit[b]
                         /\ Taken(reg, b) <= AdoptTotals(reg)[t]
  BY ByOne
<1>2. within(caps, t, cl[p].n)
  BY <1>1, StartFits DEF AllFit
<1>3. BuildLimit[b] # NoCap /\ BuildLimit[b] \in Nat \cup {NoCap}
  BY Parties DEF Limited
<1>4. totals[t] = AdoptTotals(reg)[t] + 0
  BY DEF Caches, TotalsOK
<1>5. totals[t] + cl[p].n <= BuildLimit[b]
  BY <1>1, <1>2, <1>3 DEF within
<1>6. /\ Fit(reg) /\ AdoptTotals(reg)[t] \in Nat /\ Taken(reg, b) \in Nat /\ cl[p].n \in Nat
  <2>1. Fit(reg)
    BY RegFits DEF Inv, Budget
  <2>2. cl[p].n \in Nat
    BY DEF Inv, StateOK, Client
  <2> QED BY <2>1, <2>2, SharesType, TakenIs
<1> QED BY <1>1, <1>3, <1>4, <1>5, <1>6

\* What a request puts on the stack.
LEMMA BeginsWith ==
    ASSUME NEW p \in Pid, NEW s \in Seq(Frame), Begin(p, s)
    PROVE  \/ transaction(p) = "queue" /\ todo' = s
           \/ \E g \in Frame : /\ todo' = <<g>> \o s /\ g.op \in {"grant", "reply"}
           \/ \E g \in Frame : /\ todo' = <<g>> \o s /\ g.op = "txn" /\ g.pid = p
                               /\ transaction(p) = "start"
<1>1. CASE transaction(p) = "start"
  <2> DEFINE g == [op |-> "txn", pid |-> p]
  <2>1. g \in Frame /\ g.op = "txn" /\ g.pid = p /\ todo' = <<g>> \o s
    BY <1>1 DEF Begin, Frame
  <2> HIDE DEF g
  <2> QED BY <1>1, <2>1
<1>2. CASE transaction(p) # "start"
  <2>1. \/ transaction(p) = "queue" /\ todo' = <<>> \o s
        \/ \E g \in Frame : todo' = <<g>> \o s /\ g.op \in Calls
    BY BeginFrame
  <2>2. ASSUME NEW g \in Frame, todo' = <<g>> \o s, g.op \in Calls, transaction(p) # "queue"
        PROVE  \E h \in Frame : todo' = <<h>> \o s /\ h.op \in {"grant", "reply"}
    <3>1. CASE transaction(p) = "resume"
      <4> DEFINE h == [op |-> "grant", pid |-> p]
      <4>1. h \in Frame /\ h.op = "grant" /\ todo' = <<h>> \o s
        BY <3>1 DEF Begin, Grant, Frame
      <4> HIDE DEF h
      <4> QED BY <4>1
    <3>2. CASE transaction(p) \in {"gone", "done", "refused", "covered", "changed"}
      <4> DEFINE h == [op |-> "reply", pid |-> p, res |-> transaction(p)]
      <4>1. h \in Frame /\ h.op = "reply"
        BY <3>2 DEF Frame
      <4>2. todo' = <<h>> \o s
        BY <3>2 DEF Begin, Reply
      <4> HIDE DEF h
      <4> QED BY <4>1, <4>2
    <3> QED BY <1>2, <2>2, <3>1, <3>2, TransactionIs
  <2>3. transaction(p) = "queue" => todo' = s
    <3> SUFFICES ASSUME transaction(p) = "queue" PROVE todo' = s
      OBVIOUS
    <3>1. todo' = <<>> \o s
      BY DEF Begin
    <3> QED BY <3>1
  <2> QED BY <2>1, <2>2, <2>3
<1> QED BY <1>1, <1>2

\* A request is begun.
LEMMA BeginCeilings ==
    ASSUME Inv, Inv', Budget, Budget', Caches, Ceilings, up,
           todo = <<>> \/ Head(todo).op = "next", NEW p \in Pid, cl[p].res \in Memory,
           Begin(p, todo), UNCHANGED <<reg, caps, builds>>,
           transaction(p) # "queue" => cl'[p] = cl[p]
    PROVE  Ceilings'
<1>0. todo \in Seq(Frame) /\ ~Busy
  BY DEF Inv, StateOK, Busy, Holding, Cleanup
<1>1. \A t \in Token : Extra(t) = 0
  BY DEF Extra
<1>2. \/ transaction(p) = "queue" /\ todo' = todo
      \/ \E g \in Frame : /\ todo' = <<g>> \o todo /\ g.op \in {"grant", "reply"}
      \/ \E g \in Frame : /\ todo' = <<g>> \o todo /\ g.op = "txn" /\ g.pid = p
                          /\ transaction(p) = "start"
  BY <1>0, BeginsWith
<1>s. ASSUME NEW S, Frames(todo') \subseteq Frames(todo) \cup S,
             \A f \in S : f.op \notin Moving \cup {"unhold"}, HeadFits'
      PROVE  Ceilings'
  <2>1. \A f \in Frames(todo') : f.op \notin Moving \cup {"unhold"}
    BY <1>0, <1>s, Cleared DEF Ceilings
  <2>2. \A m \in Memory : KeptRow(m)
    BY SameKept
  <2>3. Paged'
    BY <2>2, PagedStill DEF Ceilings
  <2>4. \A m \in Memory : LostRow(m)
    <3>1. Fit(reg)
      BY BothFit
    <3>2. \A m \in Memory : reg[m] # None => reg[m].pages \in Nat
      BY <3>1, TakenIs
    <3> QED BY <3>2 DEF LostRow
  <2> QED BY <1>0, <1>s, <2>1, <2>3, <2>4, Steadily
<1>3. CASE todo' = todo
  <2>1. HeadFits'
    BY <1>3, NothingAdded
  <2> QED BY <1>3, <1>s, <2>1
<1>4. ASSUME NEW g \in Frame, todo' = <<g>> \o todo, g.op \in {"grant", "reply"}
      PROVE  Ceilings'
  <2>1. Frames(todo') = {g} \cup Frames(todo) /\ todo' # <<>> /\ Head(todo') = g
    BY <1>0, <1>4, FramesPut
  <2>2. HeadFits'
    BY <1>4, <2>1, NothingAdded
  <2>3. g.op \notin Moving \cup {"unhold"}
    BY <1>4 DEF Moving
  <2> QED BY <1>s, <2>1, <2>2, <2>3
<1>5. ASSUME NEW g \in Frame, todo' = <<g>> \o todo, g.op = "txn", g.pid = p,
             transaction(p) = "start"
      PROVE  Ceilings'
  <2>1. Frames(todo') = {g} \cup Frames(todo) /\ todo' # <<>> /\ Head(todo') = g
    BY <1>0, <1>5, FramesPut
  <2>2. cl'[p] = cl[p]
    BY <1>5
  <2>3. GrowFits(g)'
    BY <1>0, <1>1, <1>5, <2>2, PartyFits DEF GrowFits
  <2>4. InsertFits(g)'
    BY <1>5 DEF InsertFits
  <2>5. HeadFits'
    BY <2>1, <2>3, <2>4 DEF HeadFits
  <2>6. g.op \notin Moving \cup {"unhold"}
    BY <1>5 DEF Moving
  <2> QED BY <1>s, <2>1, <2>5, <2>6
<1> QED BY <1>2, <1>3, <1>4, <1>5

\* The next request in the queue of a memory.
LEMMA NextCeilings ==
    ASSUME Inv, Inv', Budget, Budget', Caches, Ceilings, NextTransaction PROVE Ceilings'
<1> DEFINE f == Head(todo)
<1>0. /\ up /\ todo # <<>> /\ f \in Frame /\ f.op = "next" /\ todo \in Seq(Frame)
      /\ UNCHANGED <<reg, caps, builds, cl>>
  BY HeadFrame DEF NextTransaction, Inv, StateOK, callers
<1>r. PICK r \in Memory : r = f.res
  BY <1>0, FrameFields
<1>1. CASE Then(<<>>)
  <2>1. <<>> \in Seq({}) /\ \A g \in {} : g.op \notin Moving \cup {"unhold", "insert", "txn"}
    OBVIOUS
  <2>2. ~Busy
    BY <1>0 DEF Busy, Holding, Cleanup
  <2> QED BY <1>0, <1>1, <2>1, <2>2, SameKept, PlainStep
<1>2. CASE queued[r] # <<>> /\ Begin(Head(queued[r]), todo)
  <2>1. queued[r] \in Seq(Pid)
    BY DEF Inv, StateOK
  <2>2. PICK p \in Pid : p = Head(queued[r])
    BY <1>2, <2>1
  <2>3. Begin(p, todo)
    BY <1>2, <2>2
  <2>4. cl[p].res \in Memory
    <3>1. Head(queued[r]) = queued[r][1] /\ 1 \in 1 .. Len(queued[r])
      BY <1>2, <2>1
    <3> QED BY <2>2, <3>1 DEF Inv, QueueOK
  <2> QED BY <1>0, <2>3, <2>4, BeginCeilings
<1> QED BY <1>r, <1>1, <1>2 DEF NextTransaction
=============================================================================
