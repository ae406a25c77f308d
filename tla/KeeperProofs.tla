---------------------------- MODULE KeeperProofs ----------------------------
(***************************************************************************)
(* Proofs about wasm_keeper for any number of processes, memories, tokens, *)
(* transactions and crashes.                                               *)
(***************************************************************************)
EXTENDS Keeper, SumProofs, TLAPS

-----------------------------------------------------------------------------
(* The inductive invariant.                                                *)

\* Frames that can lie under the first: everything that depends on the state
\* as its predecessor left it is only ever first.
Deferred == {"drops", "setcap", "retags", "gone", "next", "reply", "recover",
             "retiring", "sweep", "reconcile"}
Calls == {"reply", "txn", "grant"}

StackOK == \A i \in 2 .. Len(todo) : todo[i].op \in Deferred

\* Every answer still to be sent is to a process that waits for it, is in no
\* queue, and will be sent no other.
CallsOK ==
    /\ \A i \in 1 .. Len(todo) : todo[i].op \in Calls =>
         /\ cl[todo[i].pid].ph \in {"begin", "queued", "commit", "abort"}
         /\ \A m \in Memory : \A k \in 1 .. Len(queued[m]) :
              queued[m][k] # todo[i].pid
    /\ \A i, j \in 1 .. Len(todo) :
         todo[i].op \in Calls /\ todo[j].op \in Calls /\ i # j =>
             todo[i].pid # todo[j].pid

QueueOK ==
    \A m \in Memory : \A k \in 1 .. Len(queued[m]) :
        /\ cl[queued[m][k]].ph = "queued" /\ cl[queued[m][k]].res = m
        /\ \A l \in 1 .. Len(queued[m]) : queued[m][k] = queued[m][l] => k = l

\* What the first frame finds.
HeadOK ==
    todo # <<>> => LET f == Head(todo) IN
        /\ f.op \in {"unhold", "forget", "delete", "grown"} => reg[f.res] # None
        /\ f.op \in {"forget", "delete"} => reg[f.res].state = "retiring"
        /\ f.op \in {"chunks", "size", "finish", "settle", "arena"} =>
             reg[f.res] # None /\ reg[f.res].txn # None
        /\ f.op \in {"chunks", "size"} => reg[f.res].txn.kind = "grow"
        /\ f.op = "chunks" => /\ cl[f.pid].ph = "commit"
                              /\ cl[f.pid].tup >= reg[f.res].txn.ct
        /\ f.op = "size" /\ f.res \in Observable =>
             chunks[f.res] >= reg[f.res].txn.ct
        /\ f.op = "txn" => /\ cl[f.pid].ph \in {"begin", "queued"}
                           /\ reg[cl[f.pid].res] # None
                           /\ reg[cl[f.pid].res].txn = None
        /\ f.op = "grant" => /\ cl[f.pid].ph \in {"begin", "queued"}
                             /\ InFlight(f.pid)
        /\ f.op \in {"insert", "reserved"} =>
             /\ f.res \in minted
             /\ f.res \in Memory => maker[f.res] = None
             /\ cl[f.pid].ph = "idle"
             /\ \A p \in Pid : cl[p].ph = "create" => cl[p].res # f.res
        /\ f.op = "reserved" => f.res \in Memory
        /\ f.op = "uncount" => ImageOf[f.res] # None

\* Nobody else has a memory that is being made.
MakeOK ==
    /\ \A p \in Pid : cl[p].ph \in {"create", "free"} =>
         cl[p].res \in Memory \cap minted /\ cl[p].tok \in Token
    /\ \A p \in Pid : cl[p].ph = "create" => maker[cl[p].res] = None
    /\ \A m \in Memory : maker[m] # None => m \in minted
    /\ \A p, q \in Pid :
         cl[p].ph = "create" /\ cl[q].ph = "create" /\ p # q =>
             cl[p].res # cl[q].res

\* A transaction in flight is on a memory that is made, for the chunks of the
\* size it is to reach, and not from the future.
TxnOK ==
    \A m \in Memory : reg[m] # None /\ reg[m].txn # None =>
        /\ maker[m] # None
        /\ reg[m].txn.kind = "grow" =>
             reg[m].txn.ct = chunk_count(reg[m].txn.to, ChunkPages[m])
        /\ reg[m].txn.op <= cl[reg[m].txn.pid].op

\* What a process in the middle of a growth or an extension knows.
WriterIs(p) ==
    LET c == cl[p]  t == reg[c.res].txn IN
        /\ c.ph \in {"look", "begin", "queued", "extend", "commit", "abort", "ack"}
             => c.res \in Memory /\ maker[c.res] # None
        /\ c.ph \in {"begin", "queued", "extend", "commit"} /\ InFlight(p) =>
             t.kind = c.kind
        /\ c.ph \in {"begin", "queued"} /\ InFlight(p) /\ c.kind = "grow" =>
             t.to = t.from + c.n
        /\ c.ph \in {"extend", "commit"} /\ InFlight(p) /\ c.kind = "grow" =>
             t.to = c.seen + c.n
        /\ c.ph = "commit" /\ c.kind = "grow" =>
             c.tup >= chunk_count(c.seen + c.n, ChunkPages[c.res])
WriterOK == \A p \in Pid : WriterIs(p)

\* Init has the cleanups that were left half done finished before anything
\* else: under a handler's first frame they wait for the cleanup of one row only.
Cleanup == {"forget", "delete", "giveback", "uncount"}
RetiringOK ==
    \A i \in 1 .. Len(todo) : todo[i].op = "retiring" =>
        /\ i = 1 \/ (i = 2 /\ Head(todo).op \in Cleanup)
        /\ \A r \in todo[i].set : reg[r] # None => reg[r].state = "retiring"

\* The chunk cell of a memory that has a row is missing only while the row is
\* being reclaimed.
BeingReclaimed(m) ==
    \/ ~up
    \/ todo # <<>> /\ Head(todo).op \in {"forget", "delete"} /\ Head(todo).res = m
    \/ \E i \in 1 .. Len(todo) : todo[i].op = "retiring" /\ m \in todo[i].set
CellsOK ==
    \A m \in Observable :
        reg[m] # None /\ maker[m] # None /\ chunks[m] = Absent =>
            reg[m].state = "retiring" /\ BeingReclaimed(m)

Inv ==
    /\ StateOK /\ StackOK /\ CallsOK /\ QueueOK /\ HeadOK
    /\ MakeOK /\ TxnOK /\ WriterOK /\ SizeCovered /\ RetiringOK /\ CellsOK

-----------------------------------------------------------------------------
(* Arithmetic.                                                             *)

\* chunk_count/2 gives a natural number.
LEMMA ChunkCountNat ==
    ASSUME NEW l \in Nat, NEW c \in Nat \ {0}
    PROVE  chunk_count(l, c) \in Nat
BY DEF chunk_count

\* A larger memory never consists of fewer chunks (chunk_count/2).
LEMMA ChunkCountMono ==
    ASSUME NEW k \in Nat, NEW l \in Nat, NEW c \in Nat \ {0}, k <= l
    PROVE  chunk_count(k, c) <= chunk_count(l, c)
BY DEF chunk_count

\* growth_pages/3 gives a natural number.
LEMMA GrowthNat ==
    ASSUME NEW l \in Nat, NEW i \in Nat, NEW c \in Nat \ {0}
    PROVE  growth_pages(l, i, c) \in Nat
<1>1. chunk_count(IF l > i THEN l - i ELSE 0, c) \in Nat
  BY ChunkCountNat
<1> QED BY <1>1 DEF growth_pages

\* The cost of arena chunks is an integer.
LEMMA ArenaInt ==
    ASSUME NEW h \in Nat, NEW t \in Nat
    PROVE  arena_cost(h, t) \in Int
BY DEF arena_cost, arena_slots

\* table_pages/1 gives a natural number.
LEMMA TableNat ==
    ASSUME NEW i \in Nat PROVE table_pages(i) \in Nat
BY DEF table_pages

-----------------------------------------------------------------------------
(* The stack.                                                              *)

\* A handler's next frame replaced by the frames s.
LEMMA Replaced ==
    ASSUME NEW S, NEW t \in Seq(S), t # <<>>, NEW s \in Seq(S)
    PROVE  /\ s \o Tail(t) \in Seq(S)
           /\ Len(s \o Tail(t)) = Len(s) + Len(t) - 1
           /\ \A i \in 1 .. Len(s) : (s \o Tail(t))[i] = s[i]
           /\ \A i \in Len(s) + 1 .. Len(s) + Len(t) - 1 :
                (s \o Tail(t))[i] = t[i - Len(s) + 1]
<1>1. Tail(t) \in Seq(S) /\ Len(Tail(t)) = Len(t) - 1 /\ Len(t) \in Nat \ {0}
  OBVIOUS
<1>2. \A i \in 1 .. Len(t) - 1 : Tail(t)[i] = t[i + 1]
  OBVIOUS
<1>3. /\ s \o Tail(t) \in Seq(S)
      /\ Len(s \o Tail(t)) = Len(s) + Len(Tail(t))
  BY <1>1
<1>4. \A i \in 1 .. Len(s) : (s \o Tail(t))[i] = s[i]
  BY <1>1
<1>5. \A i \in Len(s) + 1 .. Len(s) + Len(t) - 1 :
         (s \o Tail(t))[i] = Tail(t)[i - Len(s)]
  BY <1>1
<1>6. \A i \in Len(s) + 1 .. Len(s) + Len(t) - 1 :
         i - Len(s) \in 1 .. Len(t) - 1
  BY <1>1
<1> QED BY <1>1, <1>2, <1>3, <1>4, <1>5, <1>6

\* A step leaves no cleanup to init/1 that was not left before.
NoNewRetiring ==
    \A i \in 1 .. Len(todo') : todo'[i].op = "retiring" =>
        \E j \in 1 .. Len(todo) : todo[j].op = "retiring"

\* Frames that no one may find under another one are pushed only on top.
Pushable(s) ==
    /\ s \in Seq(Frame)
    /\ \A i \in 1 .. Len(s) : s[i].op \notin Calls \cup {"retiring"}
    /\ \A i \in 2 .. Len(s) : s[i].op \in Deferred

\* A step of a handler that leaves those alone whom the frames below are to
\* answer keeps the stack well formed.
LEMMA ThenPlain ==
    ASSUME todo \in Seq(Frame), StackOK, CallsOK, todo # <<>>,
           NEW s \in Seq(Frame), \A i \in 1 .. Len(s) : s[i].op \notin Calls,
           \A i \in 2 .. Len(s) : s[i].op \in Deferred, Then(s),
           \A i \in 2 .. Len(todo) : todo[i].op \in Calls =>
               /\ cl'[todo[i].pid].ph = cl[todo[i].pid].ph
               /\ \A m \in Memory : \A k \in 1 .. Len(queued'[m]) :
                    queued'[m][k] # todo[i].pid
    PROVE  /\ todo' \in Seq(Frame) /\ StackOK' /\ CallsOK'
           /\ s # <<>> => todo' # <<>> /\ Head(todo') = s[1]
           /\ s = <<>> /\ todo' # <<>> => Head(todo').op \in Deferred
<1> DEFINE n == Len(s)
<1>1. s \in Seq(Frame) /\ n \in Nat /\ Len(todo) \in Nat /\ todo' = s \o Tail(todo)
  BY DEF Then
<1>2. /\ todo' \in Seq(Frame)
      /\ Len(todo') = n + Len(todo) - 1
      /\ \A i \in 1 .. n : todo'[i] = s[i]
      /\ \A i \in n + 1 .. n + Len(todo) - 1 : todo'[i] = todo[i - n + 1]
  BY <1>1, Replaced
<1>3. \A i \in n + 1 .. Len(todo') : i - n + 1 \in 2 .. Len(todo)
  BY <1>1, <1>2
<1>4. StackOK'
  BY <1>1, <1>2, <1>3 DEF StackOK
<1>8. \A i \in 1 .. Len(todo') : todo'[i].op \in Calls =>
         i > n /\ i - n + 1 \in 2 .. Len(todo) /\ todo'[i] = todo[i - n + 1]
  BY <1>1, <1>2, <1>3
<1>5. CallsOK'
  <2>1. \A i \in 1 .. Len(todo') : todo'[i].op \in Calls =>
         /\ cl'[todo'[i].pid].ph \in {"begin", "queued", "commit", "abort"}
         /\ \A m \in Memory : \A k \in 1 .. Len(queued'[m]) :
              queued'[m][k] # todo'[i].pid
    <3> TAKE i \in 1 .. Len(todo')
    <3> HAVE todo'[i].op \in Calls
    <3> DEFINE x == i - n + 1
    <3>1. x \in 2 .. Len(todo) /\ x \in 1 .. Len(todo) /\ todo'[i] = todo[x]
      BY <1>1, <1>8
    <3> HIDE DEF x
    <3> QED BY <3>1 DEF CallsOK
  <2>2. \A i, j \in 1 .. Len(todo') :
         todo'[i].op \in Calls /\ todo'[j].op \in Calls /\ i # j =>
             todo'[i].pid # todo'[j].pid
    <3> TAKE i \in 1 .. Len(todo'), j \in 1 .. Len(todo')
    <3> HAVE todo'[i].op \in Calls /\ todo'[j].op \in Calls /\ i # j
    <3> DEFINE x == i - n + 1
               y == j - n + 1
    <3>1. x \in 1 .. Len(todo) /\ y \in 1 .. Len(todo)
          /\ todo'[i] = todo[x] /\ todo'[j] = todo[y]
      BY SMTT(40), <1>8
    <3>2. x # y
      BY <1>1, <1>2
    <3> HIDE DEF x, y
    <3> QED BY <3>1, <3>2 DEF CallsOK
  <2> QED BY <2>1, <2>2 DEF CallsOK
<1>6. s # <<>> => todo' # <<>> /\ Head(todo') = s[1]
  BY <1>1, <1>2
<1>7. s = <<>> /\ todo' # <<>> => Head(todo').op \in Deferred
  <2> SUFFICES ASSUME s = <<>>, todo' # <<>> PROVE Head(todo').op \in Deferred
    OBVIOUS
  <2>1. n = 0 /\ 1 \in 1 .. Len(todo') /\ Head(todo') = todo'[1]
    BY <1>1, <1>2
  <2>2. todo'[1] = todo[2] /\ 2 \in 2 .. Len(todo)
    BY <1>1, <1>2, <1>3, <2>1
  <2> QED BY <2>1, <2>2 DEF StackOK
<1> QED BY <1>2, <1>4, <1>5, <1>6, <1>7

\* And leaves no more to clean up than there was.
LEMMA ThenGen ==
    ASSUME todo \in Seq(Frame), StackOK, CallsOK, todo # <<>>,
           NEW s, Pushable(s), Then(s),
           \A i \in 2 .. Len(todo) : todo[i].op \in Calls =>
               /\ cl'[todo[i].pid].ph = cl[todo[i].pid].ph
               /\ \A m \in Memory : \A k \in 1 .. Len(queued'[m]) :
                    queued'[m][k] # todo[i].pid
    PROVE  /\ todo' \in Seq(Frame) /\ StackOK' /\ CallsOK' /\ NoNewRetiring
           /\ s # <<>> => todo' # <<>> /\ Head(todo') = s[1]
           /\ s = <<>> /\ todo' # <<>> => Head(todo').op \in Deferred
<1> DEFINE n == Len(s)
<1>1. s \in Seq(Frame) /\ n \in Nat /\ Len(todo) \in Nat /\ todo' = s \o Tail(todo)
  BY DEF Pushable, Then
<1>2. /\ Len(todo') = n + Len(todo) - 1
      /\ \A i \in 1 .. n : todo'[i] = s[i]
      /\ \A i \in n + 1 .. n + Len(todo) - 1 : todo'[i] = todo[i - n + 1]
  BY <1>1, Replaced
<1>3. \A i \in n + 1 .. Len(todo') : i - n + 1 \in 2 .. Len(todo)
  BY <1>1, <1>2
<1>4. NoNewRetiring
  BY <1>1, <1>2, <1>3 DEF NoNewRetiring, Pushable
<1> QED BY <1>1, <1>4, ThenPlain DEF Pushable

\* A step that leaves all callers alone keeps the stack well formed.
LEMMA ThenOK ==
    ASSUME todo \in Seq(Frame), StackOK, CallsOK, todo # <<>>,
           NEW s, Pushable(s), Then(s), cl' = cl, queued' = queued
    PROVE  /\ todo' \in Seq(Frame) /\ StackOK' /\ CallsOK' /\ NoNewRetiring
           /\ s # <<>> => todo' # <<>> /\ Head(todo') = s[1]
           /\ s = <<>> /\ todo' # <<>> => Head(todo').op \in Deferred
BY ThenGen DEF CallsOK

\* What the fields of a frame range over, by its kind.
LEMMA FrameFields ==
    ASSUME NEW f \in Frame
    PROVE  /\ f.op \in {"forget", "delete", "unhold", "insert", "reserved",
                        "giveback", "shrunk", "grown"} => f.res \in Res
           /\ f.op \in {"uncount", "settle", "size", "finish", "next", "chunks",
                        "arena", "undone"} => f.res \in Memory
           /\ f.op \in {"unhold", "insert", "reserved", "setcap"} => f.tok \in Token
           /\ f.op \in {"insert", "reserved", "reply", "txn", "grant", "chunks",
                        "arena"} => f.pid \in Pid
           /\ f.op = "setcap" => f.n \in Nat \cup {NoCap}
           /\ f.op = "grown" => f.n \in Nat
           /\ f.op \in {"giveback", "shrunk", "undone"} => f.n \in Int
           /\ f.op = "undone" => f.d \in Int
           /\ f.op = "drops" => f.set \subseteq Res \X Token
           /\ f.op = "retags" => f.set \subseteq Res \X Builds
           /\ f.op = "gone" => f.set \subseteq Memory \X Pid
           /\ f.op = "recover" => f.set \subseteq Memory
           /\ f.op \in {"retiring", "sweep"} => f.set \subseteq Res
           /\ f.op = "reply" => f.res \in {"done", "refused", "gone", "covered",
                                           "changed", "ok", "failed", "raised"}
BY DEF Frame

\* Frames that may lie anywhere and answer nobody.
Tailable(s) ==
    /\ s \in Seq(Frame)
    /\ \A i \in 1 .. Len(s) : s[i].op \in Deferred \ (Calls \cup {"retiring"})

\* One frame may be pushed; what is below it must be deferred.
LEMMA PushOne ==
    ASSUME NEW f \in Frame, f.op \notin Calls \cup {"retiring"}
    PROVE  Pushable(<<f>>) /\ <<f>> # <<>> /\ <<f>>[1] = f
BY DEF Pushable

\* No frame at all may be pushed.
LEMMA PushNone == Pushable(<<>>) /\ Tailable(<<>>)
BY DEF Pushable, Tailable

\* Deferred frames may be pushed.
LEMMA PushTail ==
    ASSUME NEW s, Tailable(s)
    PROVE  Pushable(s) /\ (s # <<>> => s[1].op \in Deferred)
BY DEF Pushable, Tailable

\* A frame over deferred ones may be pushed.
LEMMA PushOver ==
    ASSUME NEW f \in Frame, f.op \notin Calls \cup {"retiring"}, NEW s, Tailable(s)
    PROVE  /\ Pushable(<<f>> \o s) /\ <<f>> \o s # <<>> /\ (<<f>> \o s)[1] = f
<1>1. /\ s \in Seq(Frame) /\ <<f>> \o s \in Seq(Frame)
      /\ Len(<<f>> \o s) = 1 + Len(s) /\ Len(s) \in Nat
      /\ (<<f>> \o s)[1] = f
      /\ \A i \in 2 .. 1 + Len(s) : (<<f>> \o s)[i] = s[i - 1]
  BY DEF Tailable
<1>2. \A i \in 2 .. 1 + Len(s) : i - 1 \in 1 .. Len(s)
  BY <1>1
<1> QED BY <1>1, <1>2 DEF Pushable, Tailable

\* Deferred frames joined are deferred.
LEMMA TailJoin ==
    ASSUME NEW s, Tailable(s), NEW t, Tailable(t)
    PROVE  Tailable(s \o t)
<1>1. /\ s \in Seq(Frame) /\ t \in Seq(Frame) /\ s \o t \in Seq(Frame)
      /\ Len(s) \in Nat /\ Len(t) \in Nat /\ Len(s \o t) = Len(s) + Len(t)
      /\ \A i \in 1 .. Len(s) : (s \o t)[i] = s[i]
      /\ \A i \in Len(s) + 1 .. Len(s) + Len(t) : (s \o t)[i] = t[i - Len(s)]
  BY DEF Tailable
<1>2. \A i \in Len(s) + 1 .. Len(s) + Len(t) : i - Len(s) \in 1 .. Len(t)
  BY <1>1
<1>3. \A i \in 1 .. Len(s \o t) :
         i \in 1 .. Len(s) \/ i \in Len(s) + 1 .. Len(s) + Len(t)
  BY <1>1
<1> QED BY <1>1, <1>2, <1>3 DEF Tailable

\* One deferred frame that answers nobody.
LEMMA TailOne ==
    ASSUME NEW f \in Frame, f.op \in Deferred \ (Calls \cup {"retiring"})
    PROVE  Tailable(<<f>>)
BY DEF Tailable

\* What is still to be done of a set is deferred.
LEMMA TailEach ==
    ASSUME NEW S
    PROVE  /\ S \subseteq Res \X Token => Tailable(Each("drops", S))
           /\ S \subseteq Res \X Builds => Tailable(Each("retags", S))
           /\ S \subseteq Memory \X Pid => Tailable(Each("gone", S))
           /\ S \subseteq Memory => Tailable(Each("recover", S))
           /\ S \subseteq Res => Tailable(Each("sweep", S))
<1>1. ASSUME S \subseteq Res \X Token
      PROVE  Tailable(Each("drops", S))
  <2>1. [op |-> "drops", set |-> S] \in Frame
    BY <1>1 DEF Frame
  <2> QED BY <2>1, TailOne, PushNone DEF Each, Deferred, Calls
<1>5. ASSUME S \subseteq Res \X Builds PROVE Tailable(Each("retags", S))
  <2>1. [op |-> "retags", set |-> S] \in Frame
    BY <1>5 DEF Frame
  <2> QED BY <2>1, TailOne, PushNone DEF Each, Deferred, Calls
<1>2. ASSUME S \subseteq Memory \X Pid PROVE Tailable(Each("gone", S))
  <2>1. [op |-> "gone", set |-> S] \in Frame
    BY <1>2 DEF Frame
  <2> QED BY <2>1, TailOne, PushNone DEF Each, Deferred, Calls
<1>3. ASSUME S \subseteq Memory PROVE Tailable(Each("recover", S))
  <2>1. [op |-> "recover", set |-> S] \in Frame
    BY <1>3 DEF Frame
  <2> QED BY <2>1, TailOne, PushNone DEF Each, Deferred, Calls
<1>4. ASSUME S \subseteq Res
      PROVE  Tailable(Each("sweep", S))
  <2>1. [op |-> "sweep", set |-> S] \in Frame
    BY <1>4 DEF Frame
  <2> QED BY <2>1, TailOne, PushNone DEF Each, Deferred, Calls
<1> QED BY <1>1, <1>2, <1>3, <1>4, <1>5

\* A request that answers nobody at once starts a well-formed stack.
LEMMA StartOK ==
    ASSUME NEW s, Pushable(s), todo' = s
    PROVE  todo' \in Seq(Frame) /\ StackOK' /\ CallsOK' /\ NoNewRetiring
<1>1. StackOK' /\ todo' \in Seq(Frame)
  BY DEF Pushable, StackOK
<1>2. CallsOK' /\ NoNewRetiring
  BY DEF Pushable, CallsOK, NoNewRetiring
<1> QED BY <1>1, <1>2

\* A deferred frame asks nothing of the state it finds.
LEMMA DeferredHead ==
    ASSUME todo' # <<>> => Head(todo').op \in Deferred
    PROVE  HeadOK'
BY DEF HeadOK, Deferred

-----------------------------------------------------------------------------
(* Preservation.                                                           *)

\* No row appears for a memory that is made, and transactions are left alone
\* or ended.
RowsKept ==
    /\ \A m \in Memory : reg'[m] # None /\ reg'[m].txn # None =>
         reg[m] # None /\ reg'[m].txn = reg[m].txn
    /\ \A m \in Memory : reg'[m] # None /\ maker[m] # None => reg[m] # None

\* A step that leaves the callers, the queues and the transactions alone, or
\* only ends a transaction, keeps everything known about them.
LEMMA Quiet ==
    ASSUME Inv, UNCHANGED <<cl, queued, maker>>, minted \subseteq minted', RowsKept
    PROVE  QueueOK' /\ MakeOK' /\ TxnOK' /\ WriterOK'
<1>1. QueueOK'
  BY DEF Inv, QueueOK
<1>2. MakeOK'
  BY DEF Inv, MakeOK
<1>3. TxnOK'
  BY DEF Inv, TxnOK, RowsKept
<1>4. WriterOK'
  <2> SUFFICES ASSUME NEW p \in Pid PROVE WriterIs(p)'
    BY DEF WriterOK
  <2> QED BY DEF Inv, WriterOK, WriterIs, InFlight, RowsKept
<1> QED BY <1>1, <1>2, <1>3, <1>4

\* Between requests, and in a handler that is not cleaning up, every made
\* memory that has a row has its cell, and init/1 has nothing left to clean.
LEMMA Settled ==
    ASSUME Inv, up, todo = <<>> \/ Head(todo).op \notin Cleanup \cup {"retiring"}
    PROVE  /\ \A i \in 1 .. Len(todo) : todo[i].op # "retiring"
           /\ \A m \in Observable : reg[m] # None /\ maker[m] # None => chunks[m] # Absent
<1>1. ASSUME NEW i \in 1 .. Len(todo) PROVE todo[i].op # "retiring"
  <2>1. todo \in Seq(Frame) /\ todo # <<>> /\ Head(todo) = todo[1]
    BY DEF Inv, StateOK
  <2> QED BY <2>1 DEF Inv, RetiringOK
<1>2. ASSUME NEW m \in Observable, reg[m] # None, maker[m] # None PROVE chunks[m] # Absent
  BY <1>1, <1>2 DEF Inv, CellsOK, BeingReclaimed, Cleanup
<1> QED BY <1>1, <1>2

\* Such a step leaves it so.
LEMMA StaysSettled ==
    ASSUME Inv, up, todo = <<>> \/ Head(todo).op \notin Cleanup \cup {"retiring"},
           NoNewRetiring, UNCHANGED maker,
           \A m \in Memory : reg'[m] # None /\ maker[m] # None => reg[m] # None,
           \A m \in Observable : chunks'[m] = Absent => chunks[m] = Absent
    PROVE  RetiringOK' /\ CellsOK'
<1>1. /\ \A i \in 1 .. Len(todo) : todo[i].op # "retiring"
      /\ \A m \in Observable : reg[m] # None /\ maker[m] # None => chunks[m] # Absent
  BY Settled
<1>2. RetiringOK'
  BY <1>1 DEF RetiringOK, NoNewRetiring
<1>3. CellsOK'
  BY <1>1, ConstantsOK DEF CellsOK
<1> QED BY <1>2, <1>3

\* The parts of the invariant put together again.
LEMMA Assemble ==
    ASSUME Inv, StateOK', StackOK', CallsOK', HeadOK', SizeCovered',
           UNCHANGED <<cl, queued, maker>>, minted \subseteq minted', RowsKept,
           RetiringOK', CellsOK'
    PROVE  Inv'
BY Quiet DEF Inv

\* The same for a step that is no cleanup.
LEMMA Calm ==
    ASSUME Inv, up, todo = <<>> \/ Head(todo).op \notin Cleanup \cup {"retiring"},
           StateOK', StackOK', CallsOK', NoNewRetiring, HeadOK', SizeCovered',
           UNCHANGED <<cl, queued, maker>>, minted \subseteq minted', RowsKept,
           \A m \in Observable : chunks'[m] = Absent => chunks[m] = Absent
    PROVE  Inv'
BY StaysSettled, Assemble DEF RowsKept

\* The rows left alone.
LEMMA SameRows == ASSUME UNCHANGED reg PROVE RowsKept
BY DEF RowsKept

\* A row rewritten, with its transaction as it was or ended, or removed.
LEMMA RowStep ==
    ASSUME reg \in [Res -> Row \cup {None}], NEW r \in Res, NEW w \in Row \cup {None},
           w # None /\ w.txn # None => reg[r] # None /\ w.txn = reg[r].txn,
           w # None /\ r \in Memory /\ maker[r] # None => reg[r] # None,
           reg' = [reg EXCEPT ![r] = w]
    PROVE  reg' \in [Res -> Row \cup {None}] /\ RowsKept
BY DEF Res, RowsKept

\* The fields of a row that handlers rewrite.
LEMMA RowFields ==
    ASSUME NEW w \in Row
    PROVE  /\ w # None
           /\ \A h \in SUBSET Token : /\ [w EXCEPT !.holders = h] \in Row
                                      /\ [w EXCEPT !.holders = h].txn = w.txn
                                      /\ [w EXCEPT !.holders = h].state = w.state
           /\ \A n \in Nat : /\ [w EXCEPT !.pages = n] \in Row
                             /\ [w EXCEPT !.pages = n].txn = w.txn
                             /\ [w EXCEPT !.pages = n].state = w.state
           /\ \A s \in {"live", "retiring"} : /\ [w EXCEPT !.state = s] \in Row
                                              /\ [w EXCEPT !.state = s].txn = w.txn
                                              /\ [w EXCEPT !.state = s].state = s
           /\ \A d \in [Pid -> Outcome \cup {None}] :
                /\ [w EXCEPT !.done = d] \in Row
                /\ [w EXCEPT !.done = d].txn = w.txn
                /\ [w EXCEPT !.done = d].state = w.state
           /\ w.holders \subseteq Token /\ w.pages \in Nat
           /\ w.growth \in Int /\ w.arena \in Int
           /\ w.done \in [Pid -> Outcome \cup {None}]
           /\ w.txn # None => w.txn \in Txn
<1>1. w # None
  BY ConstantsOK
<1> QED BY <1>1 DEF Row

\* A keeper with nothing left to do has a well-formed stack.
LEMMA EmptyOK ==
    ASSUME todo' = <<>>
    PROVE  todo' \in Seq(Frame) /\ StackOK' /\ CallsOK' /\ NoNewRetiring /\ HeadOK'
BY DEF StackOK, CallsOK, HeadOK, NoNewRetiring

\* So has one that starts with deferred frames.
LEMMA StartTail ==
    ASSUME NEW s, Tailable(s), todo' = s
    PROVE  todo' \in Seq(Frame) /\ StackOK' /\ CallsOK' /\ NoNewRetiring /\ HeadOK'
<1>1. todo' \in Seq(Frame) /\ StackOK' /\ CallsOK' /\ NoNewRetiring
  BY PushTail, StartOK
<1>2. todo' # <<>> => Head(todo').op \in Deferred
  BY PushTail DEF Tailable
<1> QED BY <1>1, <1>2, DeferredHead

\* A growth request or its answer can wait; nothing is owed to holders.
LEMMA SameCells ==
    ASSUME SizeCovered, UNCHANGED <<chunks, size, maker>> PROVE SizeCovered'
BY DEF SizeCovered

\* A cell given a tuple, or forgotten.
LEMMA CellTyped ==
    ASSUME NEW c \in [Memory -> Nat \cup {Absent}], NEW m \in Memory,
           NEW n \in Nat \cup {Absent}
    PROVE  [c EXCEPT ![m] = n] \in [Memory -> Nat \cup {Absent}]
OBVIOUS

\* A step that leaves alone the stack and what it speaks of.
LEMMA SameStack ==
    ASSUME Inv, UNCHANGED <<todo, cl, queued, reg, chunks, maker, minted>>
    PROVE  todo' \in Seq(Frame) /\ StackOK' /\ CallsOK' /\ NoNewRetiring /\ HeadOK'
<1>1. todo' \in Seq(Frame) /\ StackOK'
  BY DEF Inv, StateOK, StackOK
<1>2. CallsOK'
  BY DEF Inv, CallsOK
<1>3. HeadOK' /\ NoNewRetiring
  BY DEF Inv, HeadOK, InFlight, NoNewRetiring
<1> QED BY <1>1, <1>2, <1>3

\* What is being reclaimed stays so when nothing it speaks of changes.
LEMMA SameRetiring ==
    ASSUME Inv, UNCHANGED <<todo, up, reg, chunks, maker>> PROVE RetiringOK' /\ CellsOK'
<1>1. RetiringOK'
  BY DEF Inv, RetiringOK
<1>2. CellsOK'
  BY DEF Inv, CellsOK, BeingReclaimed
<1> QED BY <1>1, <1>2

\* A step that changes nothing but the stack, and may end a build.
LEMMA Untouched ==
    ASSUME Inv, UNCHANGED <<durable, up, txns, alive, cl, minted, maker, fate,
                            crashes>>,
           held' \subseteq held, builds' \subseteq builds, Idle \/ UNCHANGED todo,
           todo' \in Seq(Frame), StackOK', CallsOK', NoNewRetiring, HeadOK'
    PROVE  Inv'
<1>1. StateOK'
  BY DEF Inv, StateOK, durable, txns
<1>2. SizeCovered'
  BY SameCells DEF Inv, durable
<1>3. RowsKept
  BY SameRows DEF durable
<1>4. CASE Idle
  BY <1>1, <1>2, <1>3, <1>4, Calm DEF durable, txns, Idle
<1>5. CASE UNCHANGED todo
  BY <1>1, <1>2, <1>3, <1>5, SameRetiring, Assemble DEF durable, txns
<1> QED BY <1>4, <1>5

\* reserve/6 and image_reserve/3 leave a row to insert for an unused id.
LEMMA InsertStarts ==
    ASSUME Inv, NEW p \in Pid, NEW r \in Res \ minted, NEW t \in Token,
           todo' = Insert(p, r, t), minted' = minted \cup {r}, UNCHANGED <<cl, maker>>,
           cl[p].ph = "idle"
    PROVE  todo' \in Seq(Frame) /\ StackOK' /\ CallsOK' /\ NoNewRetiring /\ HeadOK'
<1> DEFINE f == [op |-> "insert", pid |-> p, res |-> r, tok |-> t]
<1>1. f \in Frame /\ f.op \notin Calls
  BY DEF Frame, Calls
<1>2. todo' = <<f>>
  BY DEF Insert
<1>3. todo' \in Seq(Frame) /\ StackOK' /\ CallsOK' /\ NoNewRetiring
  BY <1>1, <1>2, PushOne, StartOK
<1>4. Head(todo') = f
  BY <1>2
<1>5. HeadOK'
  BY SMTT(40), <1>4 DEF HeadOK, Inv, MakeOK
<1> QED BY <1>3, <1>5

\* A request about holders that is answered without touching a transaction.
LEMMA RequestInv ==
    ASSUME Inv, NEW p \in Pid, Request(p) PROVE Inv'
<1> USE ConstantsOK
<1>0. StateOK /\ SizeCovered
  BY DEF Inv
<1>1. ASSUME NEW t \in Token, NEW r \in Res, Reserve(p, r, t) PROVE Inv'
  <2>i. Idle /\ up /\ todo = <<>>
    BY <1>1 DEF Reserve, Idle
  <2>1. UNCHANGED <<reg, chunks, size, cl, queued, maker>>
    BY <1>1 DEF Reserve, txns
  <2>2. todo' \in Seq(Frame) /\ StackOK' /\ CallsOK' /\ NoNewRetiring /\ HeadOK'
    <3>1. CASE todo' = Insert(p, r, t) /\ minted' = minted \cup {r}
      BY <1>1, <2>1, <3>1, InsertStarts DEF Reserve, Free
    <3>2. CASE todo' = todo
      BY <1>1, <3>2, EmptyOK DEF Reserve, Idle
    <3> QED BY <1>1, <3>1, <3>2 DEF Reserve
  <2>3. caps' \in [Token -> Nat \cup {NoCap}]
    BY <1>0, <1>1 DEF StateOK, Reserve, pending_cap
  <2>5. arena' \in [Memory -> Nat \cup {Absent}] /\ minted' \subseteq Res
    <3>1. arena' = arena \/ (r \in Memory /\ arena' = [arena EXCEPT ![r] = 0])
      BY <1>1 DEF Reserve
    <3>2. minted' = minted \/ minted' = minted \cup {r}
      BY <1>1 DEF Reserve
    <3>3. arena' \in [Memory -> Nat \cup {Absent}]
      <4>1. arena \in [Memory -> Nat \cup {Absent}] /\ 0 \in Nat \cup {Absent}
        BY <1>0 DEF StateOK
      <4>2. r \in Memory => [arena EXCEPT ![r] = 0] \in [Memory -> Nat \cup {Absent}]
        BY <4>1, CellTyped
      <4> QED BY <3>1, <4>1, <4>2
    <3> QED BY <1>0, <3>2, <3>3 DEF StateOK
  <2>6. StateOK'
    BY <1>0, <1>1, <2>1, <2>2, <2>3, <2>5 DEF StateOK, Reserve, index, txns
  <2>4. minted \subseteq minted'
    BY <1>1 DEF Reserve
  <2> QED BY <2>1, <2>2, <2>6, <2>4, <1>0, SameCells, <2>i, SameRows, Calm
<1>2. ASSUME NEW t \in Token, NEW r \in Res, Acquire(p, r, t) PROVE Inv'
  <2>i. Idle /\ up /\ todo = <<>>
    BY <1>2 DEF Acquire, Idle
  <2>1. UNCHANGED <<chunks, size, cl, queued, maker, minted, todo>>
    BY <1>2 DEF Acquire, cells, txns, callers
  <2>2. todo' \in Seq(Frame) /\ StackOK' /\ CallsOK' /\ NoNewRetiring /\ HeadOK'
    BY <1>2, <2>1, EmptyOK DEF Acquire, Idle
  <2>3. reg' \in [Res -> Row \cup {None}] /\ RowsKept
    <3>1. CASE UNCHANGED reg
      BY <1>0, <3>1, SameRows DEF StateOK
    <3>2. CASE reg' = [reg EXCEPT ![r].holders = @ \cup {t}] /\ Live(r)
      <4>1. reg[r] \in Row
        BY <1>0, <3>2 DEF StateOK, Live
      <4>2. reg[r].holders \cup {t} \in SUBSET Token
        BY ZenonT(60), <4>1, RowFields
      <4>3. /\ [reg[r] EXCEPT !.holders = @ \cup {t}] \in Row
            /\ [reg[r] EXCEPT !.holders = @ \cup {t}].txn = reg[r].txn
            /\ [reg[r] EXCEPT !.holders = @ \cup {t}].state = reg[r].state
        BY ZenonT(60), <4>1, <4>2, RowFields
      <4> QED BY <1>0, <3>2, <4>1, <4>3, RowStep DEF StateOK, Live
    <3> QED BY <1>2, <3>1, <3>2 DEF Acquire
  <2>4. StateOK'
    BY <1>0, <1>2, <2>2, <2>3 DEF StateOK, Acquire, pending_cap, cells, txns, callers, hold
  <2> QED BY <2>1, <2>2, <2>3, <2>4, <1>0, SameCells, <2>i, SameRows, Calm
<1>3. ASSUME NEW t \in Token, NEW r \in Res, Release(p, r, t) PROVE Inv'
  <2>i. Idle /\ up /\ todo = <<>>
    BY <1>3 DEF Release, Idle
  <2>1. Tailable(Each("drops", {<<r, t>>}))
    BY TailEach
  <2>2. todo' \in Seq(Frame) /\ StackOK' /\ CallsOK' /\ NoNewRetiring /\ HeadOK'
    BY <1>3, <2>1, StartTail DEF Release
  <2>3. UNCHANGED <<durable, up, index, txns, callers, crashes>>
    BY <1>3 DEF Release
  <2> QED BY <1>0, <2>2, <2>3, <2>i, Untouched DEF index, callers
<1>4. ASSUME NEW t \in Token, Destroy(p, t) PROVE Inv'
  <2>i. Idle /\ up /\ todo = <<>>
    BY <1>4 DEF Destroy, Idle
  <2>1. Tailable(Each("drops", {<<r, t>> : r \in Shed(t)}))
    BY TailEach DEF Shed
  <2>2. todo' \in Seq(Frame) /\ StackOK' /\ CallsOK' /\ NoNewRetiring /\ HeadOK'
    BY <1>4, <2>1, StartTail DEF Destroy
  <2>3. UNCHANGED <<durable, up, index, txns, callers, crashes>>
    BY <1>4 DEF Destroy
  <2> QED BY <1>0, <2>2, <2>3, <2>i, Untouched DEF index, callers
<1>5. ASSUME NEW t \in Token, Discard(p, t) PROVE Inv'
  <2>i. Idle /\ up /\ todo = <<>>
    BY <1>5 DEF Discard, Idle
  <2>1. Tailable(Each("drops", {x \in held : x[2] = t}))
    BY <1>0, TailEach DEF StateOK
  <2>2. Tailable(SetCapTo(t, NoCap))
    <3>1. [op |-> "setcap", tok |-> t, n |-> NoCap] \in Frame
      BY DEF Frame
    <3> QED BY <3>1, TailOne DEF SetCapTo, Deferred, Calls
  <2>3. todo' \in Seq(Frame) /\ StackOK' /\ CallsOK' /\ NoNewRetiring /\ HeadOK'
    BY <1>5, <2>1, <2>2, TailJoin, StartTail DEF Discard
  <2>4. /\ UNCHANGED <<durable, up, index, txns, alive, cl, minted, maker, fate, crashes>>
        /\ builds' \subseteq builds
    BY <1>5 DEF Discard
  <2> QED BY <1>0, <2>3, <2>4, <2>i, Untouched DEF index, callers
<1>6. ASSUME NEW t \in Token, Transfer(p, t) PROVE Inv'
  <2>i. Idle /\ up /\ todo = <<>>
    BY <1>6 DEF Transfer, Idle
  <2> DEFINE moved == {x \in held : x[2] = t}
  <2>0. t \in Builds /\ InstanceOf[t] \in Token /\ caps[t] \in Nat \cup {NoCap}
    BY <1>0, <1>6 DEF StateOK, Transfer
  <2>1. Tailable(Each("retags", moved))
    <3>1. moved \subseteq Res \X Builds
      BY <1>0, <2>0 DEF StateOK
    <3> QED BY <3>1, TailEach
  <2>2. Tailable(SetCapTo(InstanceOf[t], caps[t]))
    <3>1. [op |-> "setcap", tok |-> InstanceOf[t], n |-> caps[t]] \in Frame
      BY <2>0 DEF Frame
    <3> QED BY <3>1, TailOne DEF SetCapTo, Deferred, Calls
  <2>3. Tailable(SetCapTo(InstanceOf[t], caps[t]) \o Each("retags", moved))
    BY <2>1, <2>2, TailJoin
  <2>4. \/ todo' = SetCapTo(InstanceOf[t], caps[t]) \o Each("retags", moved)
        \/ todo' = Each("retags", moved)
    BY <1>6 DEF Transfer
  <2>5. todo' \in Seq(Frame) /\ StackOK' /\ CallsOK' /\ NoNewRetiring /\ HeadOK'
    BY <2>1, <2>3, <2>4, StartTail
  <2>6. /\ UNCHANGED <<reg, used, bytes, cells, up, index, txns, alive, cl, minted,
                       maker, fate, crashes>>
        /\ builds' \subseteq builds /\ caps' = [caps EXCEPT ![t] = NoCap]
    BY <1>6 DEF Transfer
  <2>7. StateOK'
    BY <1>0, <2>5, <2>6 DEF StateOK, cells, index, txns
  <2> QED BY <1>0, <2>5, <2>6, <2>7, SameCells, <2>i, SameRows, Calm DEF cells, txns
<1>7. ASSUME NEW t \in Token, LostBuildCall(p, t) PROVE Inv'
  <2>u. UNCHANGED todo
    BY <1>7 DEF LostBuildCall
  <2>1. todo' \in Seq(Frame) /\ StackOK' /\ CallsOK' /\ NoNewRetiring /\ HeadOK'
    BY <1>7, SameStack DEF LostBuildCall, durable, txns
  <2>2. /\ UNCHANGED <<durable, up, index, txns, alive, cl, minted, maker, fate, crashes>>
        /\ builds' \subseteq builds
    BY <1>7 DEF LostBuildCall
  <2> QED BY <1>0, <2>1, <2>2, <2>u, Untouched DEF index, callers
<1>8. ASSUME NEW r \in Heap, NEW w \in HeapSizes, Reconcile(p, r, w) PROVE Inv'
  <2>i. Idle /\ up /\ todo = <<>>
    BY <1>8 DEF Reconcile, Idle
  <2>0. r \in Res /\ w \in Nat /\ reg[r] \in Row /\ reg[r] # None /\ reg[r].pages \in Nat
    <3>1. r \in Res /\ w \in Nat /\ reg[r] \in Row /\ reg[r] # None
      BY <1>0, <1>8 DEF Res, StateOK, Reconcile, Live
    <3> QED BY <3>1, RowFields
  <2>1. UNCHANGED <<caps, bytes, cells, up, index, txns, callers, crashes>>
    BY <1>8 DEF Reconcile
  <2>2. CASE /\ reg' = [reg EXCEPT ![r].pages = w]
             /\ todo' = <<[op |-> "shrunk", res |-> r, n |-> reg[r].pages - w]>>
    <3>1. [op |-> "shrunk", res |-> r, n |-> reg[r].pages - w] \in Frame
      BY <2>0 DEF Frame
    <3>2. todo' \in Seq(Frame) /\ StackOK' /\ CallsOK' /\ NoNewRetiring
      BY <2>2, <3>1, PushOne, StartOK DEF Calls
    <3>3. HeadOK'
      BY <2>2 DEF HeadOK
    <3>4. /\ [reg[r] EXCEPT !.pages = w] \in Row
          /\ [reg[r] EXCEPT !.pages = w].txn = reg[r].txn
          /\ [reg[r] EXCEPT !.pages = w].state = reg[r].state
      BY <2>0, RowFields
    <3>5. reg' \in [Res -> Row \cup {None}] /\ RowsKept
      BY <1>0, <2>0, <2>2, <3>4, RowStep DEF StateOK
    <3>6. StateOK'
      BY <1>0, <2>1, <3>2, <3>5 DEF StateOK, cells, index, txns, callers
    <3> QED BY <1>0, <2>1, <3>2, <3>3, <3>5, <3>6, SameCells, <2>i, SameRows, Calm
            DEF cells, txns, callers
  <2>3. CASE /\ UNCHANGED reg
             /\ todo' = <<[op |-> "grown", res |-> r, n |-> w]>>
    <3>1. [op |-> "grown", res |-> r, n |-> w] \in Frame
      BY <2>0 DEF Frame
    <3>2. todo' \in Seq(Frame) /\ StackOK' /\ CallsOK' /\ NoNewRetiring
      BY <2>3, <3>1, PushOne, StartOK DEF Calls
    <3>3. HeadOK'
      BY <2>0, <2>3 DEF HeadOK
    <3>6. StateOK'
      BY <1>0, <2>1, <2>3, <3>2 DEF StateOK, cells, index, txns, callers
    <3> QED BY <1>0, <2>1, <2>3, <3>2, <3>3, <3>6, SameCells, <2>i, SameRows, Calm
            DEF cells, txns, callers
  <2> QED BY <1>8, <2>2, <2>3 DEF Reconcile
<1>9. ASSUME NEW i \in Image, ImageReserve(p, i) PROVE Inv'
  <2>i. Idle /\ up /\ todo = <<>>
    BY <1>9 DEF ImageReserve, Idle
  <2>1. /\ UNCHANGED <<reg, caps, used, cells, up, index, txns, alive, cl, builds,
                       maker, fate, crashes>>
        /\ todo' = Insert(p, i, SnapOf[i]) /\ minted' = minted \cup {i}
        /\ i \in Res \ minted /\ SnapOf[i] \in Token /\ cl[p].ph = "idle"
    BY <1>9 DEF ImageReserve, Res, Free
  <2>2. todo' \in Seq(Frame) /\ StackOK' /\ CallsOK' /\ NoNewRetiring /\ HeadOK'
    BY <2>1, InsertStarts
  <2>3. StateOK'
    BY <1>0, <2>1, <2>2 DEF StateOK, cells, index, txns
  <2> QED BY <1>0, <2>1, <2>2, <2>3, SameCells, <2>i, SameRows, Calm DEF cells, txns
<1> QED BY <1>1, <1>2, <1>3, <1>4, <1>5, <1>6, <1>7, <1>8, <1>9 DEF Request

-----------------------------------------------------------------------------
(* The rest of a handler.                                                  *)

\* A frame done, with deferred ones or none in its place.
LEMMA PopTail ==
    ASSUME Inv, todo # <<>>, NEW s, Tailable(s), Then(s), UNCHANGED <<cl, queued>>
    PROVE  todo' \in Seq(Frame) /\ StackOK' /\ CallsOK' /\ NoNewRetiring /\ HeadOK'
<1>1. /\ todo' \in Seq(Frame) /\ StackOK' /\ CallsOK' /\ NoNewRetiring
      /\ s # <<>> => todo' # <<>> /\ Head(todo') = s[1]
      /\ s = <<>> /\ todo' # <<>> => Head(todo').op \in Deferred
  BY PushTail, ThenOK DEF Inv, StateOK
<1>2. todo' # <<>> => Head(todo').op \in Deferred
  BY <1>1, PushTail
<1> QED BY <1>1, <1>2, DeferredHead

\* A frame done, with another one in its place.
LEMMA PopTo ==
    ASSUME Inv, todo # <<>>, NEW f \in Frame, f.op \notin Calls \cup {"retiring"},
           NEW s, Tailable(s), Then(<<f>> \o s), UNCHANGED <<cl, queued>>
    PROVE  /\ todo' \in Seq(Frame) /\ StackOK' /\ CallsOK' /\ NoNewRetiring
           /\ todo' # <<>> /\ Head(todo') = f
BY ZenonT(60), PushOver, ThenOK DEF Inv, StateOK

\* The same with nothing below it.
LEMMA PopOne ==
    ASSUME Inv, todo # <<>>, NEW f \in Frame, f.op \notin Calls \cup {"retiring"},
           Then(<<f>>), UNCHANGED <<cl, queued>>
    PROVE  /\ todo' \in Seq(Frame) /\ StackOK' /\ CallsOK' /\ NoNewRetiring
           /\ todo' # <<>> /\ Head(todo') = f
BY PushOne, ThenOK DEF Inv, StateOK

\* The first frame is a frame.
LEMMA HeadFrame ==
    ASSUME Inv, NEW op, At(op)
    PROVE  up /\ todo # <<>> /\ Head(todo) \in Frame /\ Head(todo).op = op
BY DEF Inv, StateOK, At

\* What a row is charged is an integer.
LEMMA ChargedInt ==
    ASSUME NEW r \in Res, NEW w \in Row PROVE charged(r, w) \in Int
<1>1. w.growth \in Int /\ w.arena \in Int /\ w.pages \in Nat
  BY RowFields
<1>2. r \in Memory => table_pages(ImagePages[r]) \in Nat
  BY ConstantsOK, TableNat
<1> QED BY <1>1, <1>2 DEF charged

\* A row just made is one, with no transaction.
LEMMA NewRowTyped ==
    ASSUME NEW r \in Res, NEW t \in Token
    PROVE  NewRow(r, t) \in Row /\ NewRow(r, t).txn = None
<1>1. r \in Memory => growth_pages(InitPages[r], ImagePages[r], ChunkPages[r]) \in Nat
  BY ConstantsOK, GrowthNat
<1>2. r \in Memory => InitPages[r] \in Nat
  BY ConstantsOK
<1>3. NoDone \in [Pid -> Outcome \cup {None}]
  BY DEF NoDone
<1> QED BY <1>1, <1>2, <1>3 DEF NewRow, Row

\* A step of the cleanup of one row leaves the other cleanups where they were.
LEMMA CleanupKept ==
    ASSUME Inv, up, UNCHANGED <<up, maker>>, todo # <<>>, Head(todo).op \in Cleanup,
           NEW s \in Seq(Frame), Then(s), RowsKept,
           s # <<>> => Len(s) = 1 /\ s[1].op \in Cleanup,
           \A r \in Res : reg'[r] # None /\ reg[r] # None /\ reg[r].state = "retiring" =>
               reg'[r].state = "retiring",
           \A r \in Res : reg[r] = None => reg'[r] = None,
           \A m \in Observable :
               reg'[m] # None /\ maker[m] # None /\ chunks'[m] = Absent =>
                   \/ /\ chunks[m] = Absent
                      /\ ~(Head(todo).op \in {"forget", "delete"} /\ Head(todo).res = m)
                   \/ /\ s # <<>> /\ s[1].op \in {"forget", "delete"} /\ s[1].res = m
                      /\ reg'[m].state = "retiring"
    PROVE  RetiringOK' /\ CellsOK'
<1> DEFINE n == Len(s)
<1>0. todo \in Seq(Frame) /\ Head(todo) = todo[1] /\ Observable \subseteq Res
  BY ConstantsOK DEF Inv, StateOK, Res
<1>1. n \in {0, 1} /\ (n = 0 => s = <<>>) /\ (n = 1 => s # <<>>)
  OBVIOUS
<1>2. /\ todo' \in Seq(Frame) /\ Len(todo') = n + Len(todo) - 1
      /\ \A i \in 1 .. n : todo'[i] = s[i]
      /\ \A i \in n + 1 .. n + Len(todo) - 1 : todo'[i] = todo[i - n + 1]
  BY <1>0, Replaced DEF Then
<1>3. /\ Len(todo) \in Nat
      /\ n = 1 => todo' # <<>> /\ Head(todo') = s[1] /\ Head(todo').op \in Cleanup
  <2>1. Len(todo) \in Nat \ {0}
    BY <1>0
  <2>2. n = 1 => todo' # <<>> /\ Head(todo') = todo'[1] /\ todo'[1] = s[1]
    BY <1>2, <2>1
  <2> QED BY <1>1, <2>1, <2>2
<1>4. ASSUME NEW i \in 1 .. Len(todo'), todo'[i].op = "retiring"
      PROVE  /\ i = 1 \/ (i = 2 /\ n = 1)
             /\ \E j \in 1 .. Len(todo) : todo'[i] = todo[j] /\ todo[j].op = "retiring"
  <2>1. ~(i \in 1 .. n)
    BY <1>1, <1>2, <1>4 DEF Cleanup
  <2>2. i - n + 1 \in 2 .. Len(todo) /\ todo'[i] = todo[i - n + 1]
    BY <1>1, <1>2, <1>3, <2>1
  <2>3. i - n + 1 = 2
    BY <1>4, <1>1, <2>2 DEF Inv, RetiringOK
  <2>4. i = 1 \/ (i = 2 /\ n = 1)
    BY <1>1, <2>3
  <2> QED BY <1>4, <2>2, <2>4
<1>5. RetiringOK'
  <2> SUFFICES ASSUME NEW i \in 1 .. Len(todo'), todo'[i].op = "retiring"
               PROVE  /\ i = 1 \/ (i = 2 /\ Head(todo').op \in Cleanup)
                      /\ \A r \in todo'[i].set : reg'[r] # None => reg'[r].state = "retiring"
    BY DEF RetiringOK
  <2>1. PICK j \in 1 .. Len(todo) : todo'[i] = todo[j] /\ todo[j].op = "retiring"
    BY <1>4
  <2>2. todo[j].set \subseteq Res
    BY <1>0, <2>1, FrameFields
  <2>3. \A r \in todo[j].set : reg[r] # None => reg[r].state = "retiring"
    BY <2>1 DEF Inv, RetiringOK
  <2>4. i = 1 \/ (i = 2 /\ Head(todo').op \in Cleanup)
    BY <1>3, <1>4
  <2> QED BY <2>1, <2>2, <2>3, <2>4
<1>6. CellsOK'
  <2> SUFFICES ASSUME NEW m \in Observable,
                      reg'[m] # None, maker[m] # None, chunks'[m] = Absent
               PROVE  reg'[m].state = "retiring" /\ BeingReclaimed(m)'
    BY DEF CellsOK
  <2>1. CASE /\ chunks[m] = Absent
             /\ ~(Head(todo).op \in {"forget", "delete"} /\ Head(todo).res = m)
    <3>1. reg[m] # None /\ m \in Res
      BY <1>0
    <3>2. /\ reg[m].state = "retiring"
          /\ \E j \in 1 .. Len(todo) : todo[j].op = "retiring" /\ m \in todo[j].set
      BY <2>1, <3>1 DEF Inv, CellsOK, BeingReclaimed
    <3>3. PICK j \in 1 .. Len(todo) : todo[j].op = "retiring" /\ m \in todo[j].set
      BY <3>2
    <3>4. j = 2
      BY <1>0, <3>3 DEF Inv, RetiringOK, Cleanup
    <3>5. 1 + n \in 1 .. Len(todo') /\ todo'[1 + n] = todo[2]
      BY <1>1, <1>2, <1>3, <3>4
    <3> QED BY <3>1, <3>2, <3>3, <3>4, <3>5 DEF BeingReclaimed
  <2>2. CASE /\ s # <<>> /\ s[1].op \in {"forget", "delete"} /\ s[1].res = m
             /\ reg'[m].state = "retiring"
    BY <1>1, <1>3, <2>2 DEF BeingReclaimed
  <2> QED BY <2>1, <2>2
<1> QED BY <1>5, <1>6

\* A row marked, and its cells to be forgotten next.
LEMMA RetireImage ==
    ASSUME Inv, todo # <<>>, NEW i \in Res, reg[i] # None,
           reg' = [reg EXCEPT ![i].state = "retiring"], UNCHANGED <<cl, queued>>,
           NEW s, Tailable(s), Then(Do("forget", i) \o s) \/ Then(Do("forget", i))
    PROVE  /\ todo' \in Seq(Frame) /\ StackOK' /\ CallsOK' /\ NoNewRetiring /\ HeadOK'
           /\ reg' \in [Res -> Row \cup {None}] /\ RowsKept
<1> DEFINE g == [op |-> "forget", res |-> i]
           w == [reg[i] EXCEPT !.state = "retiring"]
<1>1. reg \in [Res -> Row \cup {None}] /\ reg[i] \in Row
  BY DEF Inv, StateOK
<1>2. w \in Row /\ w.txn = reg[i].txn /\ w.state = "retiring" /\ w # None
  <2>1. "retiring" \in {"live", "retiring"}
    OBVIOUS
  <2> HIDE DEF w
  <2>2. w \in Row /\ w.txn = reg[i].txn /\ w.state = "retiring"
    BY <1>1, <2>1, RowFields DEF w
  <2> QED BY <2>2, RowFields
<1>3. reg' = [reg EXCEPT ![i] = w]
  OBVIOUS
<1>4. g \in Frame /\ g.op = "forget" /\ g.res = i
  BY DEF Frame
<1>5. /\ todo' \in Seq(Frame) /\ StackOK' /\ CallsOK' /\ NoNewRetiring /\ todo' # <<>> /\ Head(todo') = g
  BY <1>4, PopTo, PopOne DEF Do, Calls
<1> HIDE DEF w
<1>6. reg'[i] # None /\ reg'[i].state = "retiring"
  BY <1>1, <1>2, <1>3
<1>7. HeadOK'
  BY <1>4, <1>5, <1>6 DEF HeadOK
<1> QED BY <1>1, <1>2, <1>3, <1>5, <1>7, RowStep

\* The steps that move holders and reclaim rows.
LEMMA HolderStepInv ==
    ASSUME Inv,
           \/ InsertRow \/ SetCap \/ Retag \/ HeapShrunk \/ HeapGrown
           \/ Drop \/ Unhold \/ ForgetMeta \/ DeleteRow \/ GiveBack \/ AfterRetire
    PROVE  Inv'
<1> DEFINE f == Head(todo)
<1>0. StateOK /\ SizeCovered /\ HeadOK /\ reg \in [Res -> Row \cup {None}]
  BY DEF Inv, StateOK
<1>1. CASE InsertRow
  <2>1. up /\ todo # <<>> /\ f \in Frame /\ f.op = "insert"
    BY <1>1, HeadFrame DEF InsertRow
  <2>2. f.res \in Res /\ f.tok \in Token /\ f.pid \in Pid
    BY <2>1, FrameFields
  <2>3. UNCHANGED <<caps, used, bytes, cells, up, txns, callers, crashes>>
    BY <1>1 DEF InsertRow
  <2>4. reg' \in [Res -> Row \cup {None}] /\ RowsKept
    <3>1. f.res \in Memory => maker[f.res] = None
      BY <1>0, <2>1 DEF HeadOK
    <3> QED BY <1>0, <1>1, <2>2, <3>1, NewRowTyped, RowStep DEF InsertRow
  <2>5. todo' \in Seq(Frame) /\ StackOK' /\ CallsOK' /\ NoNewRetiring /\ HeadOK'
    <3>1. CASE Then(<<>>)
      BY <2>1, <2>3, <3>1, PushNone, PopTail DEF txns, callers
    <3>2. CASE f.res \in Memory /\ Then(<<[f EXCEPT !.op = "reserved"]>>)
      <4>1. /\ [f EXCEPT !.op = "reserved"] \in Frame
            /\ [f EXCEPT !.op = "reserved"].op = "reserved"
            /\ [f EXCEPT !.op = "reserved"].res = f.res
            /\ [f EXCEPT !.op = "reserved"].pid = f.pid
        BY <2>1 DEF Frame
      <4>2. /\ todo' \in Seq(Frame) /\ StackOK' /\ CallsOK' /\ NoNewRetiring
            /\ todo' # <<>> /\ Head(todo') = [f EXCEPT !.op = "reserved"]
        BY <2>1, <2>3, <3>2, <4>1, PopOne DEF txns, callers, Calls
      <4>3. HeadOK'
        BY <1>0, <2>1, <2>3, <3>2, <4>1, <4>2 DEF HeadOK, callers
      <4> QED BY <4>2, <4>3
    <3> QED BY <1>1, <3>1, <3>2 DEF InsertRow
  <2>6. held' \subseteq Res \X Token
    BY <1>0, <1>1, <2>2 DEF InsertRow, hold, StateOK
  <2>7. StateOK'
    BY <1>0, <2>3, <2>4, <2>5, <2>6 DEF StateOK, cells, txns, callers
  <2> QED BY <1>0, <2>3, <2>4, <2>5, <2>7, <2>1, SameCells, SameRows, Calm DEF Cleanup, cells, txns, callers
<1>2. CASE SetCap
  <2>1. up /\ todo # <<>> /\ f \in Frame /\ f.op = "setcap"
    BY <1>2, HeadFrame DEF SetCap
  <2>2. f.tok \in Token /\ f.n \in Nat \cup {NoCap}
    BY <2>1, FrameFields
  <2>3. UNCHANGED <<reg, used, bytes, cells, up, index, txns, callers, crashes>>
    BY <1>2 DEF SetCap
  <2>4. todo' \in Seq(Frame) /\ StackOK' /\ CallsOK' /\ NoNewRetiring /\ HeadOK'
    BY <1>2, <2>1, <2>3, PushNone, PopTail DEF SetCap, txns, callers
  <2>5. caps' \in [Token -> Nat \cup {NoCap}]
    BY <1>0, <1>2, <2>2 DEF SetCap, StateOK
  <2>6. StateOK'
    BY <1>0, <2>3, <2>4, <2>5 DEF StateOK, cells, index, txns, callers
  <2> QED BY <1>0, <2>3, <2>4, <2>6, <2>1, SameCells, SameRows, Calm DEF Cleanup, cells, txns, callers
<1>3. CASE Retag
  <2>1. up /\ todo # <<>> /\ f \in Frame /\ f.op = "retags"
    BY <1>3, HeadFrame DEF Retag
  <2>2. f.set \subseteq Res \X Builds
    BY <2>1, FrameFields
  <2>3. UNCHANGED <<used, bytes, cells, up, images, txns, callers, crashes>>
    BY <1>3 DEF Retag
  <2>4. PICK x \in f.set :
          LET to == InstanceOf[x[2]]  n == counted(x[1], reg[x[1]]) IN
          /\ \/ /\ reg[x[1]] # None
                /\ reg' = [reg EXCEPT ![x[1]].holders = (@ \ {x[2]}) \cup {to}]
                /\ caps' = IF totals[x[2]] <= n
                           THEN [caps EXCEPT ![x[2]] = NoCap] ELSE caps
                /\ held' = (held \ {x}) \cup
                           (IF OwnerOf[to] = None THEN {} ELSE {<<x[1], to>>})
             \/ UNCHANGED <<reg, caps, held>>
          /\ Then(Each("retags", f.set \ {x}))
    BY <1>3 DEF Retag
  <2>5. x[1] \in Res /\ x[2] \in Builds /\ x[2] \in Token /\ InstanceOf[x[2]] \in Token
    BY <2>2, ConstantsOK
  <2>6. todo' \in Seq(Frame) /\ StackOK' /\ CallsOK' /\ NoNewRetiring /\ HeadOK'
    <3>1. Tailable(Each("retags", f.set \ {x}))
      BY <2>2, TailEach
    <3> QED BY <2>1, <2>3, <2>4, <3>1, PopTail DEF txns, callers
  <2>7. reg' \in [Res -> Row \cup {None}] /\ RowsKept
    <3>1. CASE UNCHANGED reg
      BY <1>0, <3>1, SameRows
    <3>2. CASE /\ reg[x[1]] # None
               /\ reg' = [reg EXCEPT ![x[1]].holders = (@ \ {x[2]}) \cup {InstanceOf[x[2]]}]
      <4> DEFINE w == [reg[x[1]] EXCEPT !.holders = (@ \ {x[2]}) \cup {InstanceOf[x[2]]}]
      <4>1. reg[x[1]] \in Row
        BY <1>0, <2>5, <3>2
      <4>4. (reg[x[1]].holders \ {x[2]}) \cup {InstanceOf[x[2]]} \in SUBSET Token
        BY <4>1, <2>5, RowFields
      <4>2. w \in Row /\ w.txn = reg[x[1]].txn /\ w.state = reg[x[1]].state
        BY ZenonT(60), <4>1, <4>4, RowFields
      <4>3. reg' = [reg EXCEPT ![x[1]] = w]
        BY <3>2
      <4> HIDE DEF w
      <4> QED BY <1>0, <2>5, <3>2, <4>2, <4>3, RowStep
    <3> QED BY <2>4, <3>1, <3>2
  <2>8. caps' \in [Token -> Nat \cup {NoCap}] /\ held' \subseteq Res \X Token
    BY SMTT(40), <1>0, <2>4, <2>5 DEF StateOK
  <2>9. StateOK'
    BY <1>0, <2>3, <2>6, <2>7, <2>8 DEF StateOK, cells, txns, callers
  <2> QED BY <1>0, <2>3, <2>6, <2>7, <2>9, <2>1, SameCells, SameRows, Calm DEF Cleanup, cells, txns, callers
<1>4. CASE HeapShrunk
  <2>1. up /\ todo # <<>> /\ f.op = "shrunk"
    BY <1>4, HeadFrame DEF HeapShrunk
  <2>2. UNCHANGED <<reg, bytes, cells, up, held, images, txns, callers, crashes>>
    BY <1>4 DEF HeapShrunk
  <2>3. todo' \in Seq(Frame) /\ StackOK' /\ CallsOK' /\ NoNewRetiring /\ HeadOK'
    BY <1>4, <2>1, <2>2, PushNone, PopTail DEF HeapShrunk, txns, callers
  <2>4. caps' \in [Token -> Nat \cup {NoCap}]
    BY <1>0, <1>4 DEF HeapShrunk, sub_total, StateOK
  <2>5. StateOK'
    BY <1>0, <2>2, <2>3, <2>4 DEF StateOK, cells, txns, callers
  <2> QED BY <1>0, <2>2, <2>3, <2>5, <2>1, SameCells, SameRows, Calm DEF Cleanup, cells, txns, callers
<1>5. CASE HeapGrown
  <2>1. up /\ todo # <<>> /\ f \in Frame /\ f.op = "grown"
    BY <1>5, HeadFrame DEF HeapGrown
  <2>2. f.res \in Res /\ f.n \in Nat /\ reg[f.res] # None
    BY <1>0, <2>1, FrameFields DEF HeadOK
  <2>3. UNCHANGED <<caps, used, bytes, cells, up, held, images, txns, callers, crashes>>
    BY <1>5 DEF HeapGrown
  <2>4. todo' \in Seq(Frame) /\ StackOK' /\ CallsOK' /\ NoNewRetiring /\ HeadOK'
    BY <1>5, <2>1, <2>3, PushNone, PopTail DEF HeapGrown, txns, callers
  <2>5. reg' \in [Res -> Row \cup {None}] /\ RowsKept
    <3>1. reg[f.res] \in Row
      BY <1>0, <2>2
    <3>2. /\ [reg[f.res] EXCEPT !.pages = f.n] \in Row
          /\ [reg[f.res] EXCEPT !.pages = f.n].txn = reg[f.res].txn
          /\ [reg[f.res] EXCEPT !.pages = f.n].state = reg[f.res].state
      BY <2>2, <3>1, RowFields
    <3>3. reg' = [reg EXCEPT ![f.res] = [reg[f.res] EXCEPT !.pages = f.n]]
      BY <1>5 DEF HeapGrown
    <3> QED BY <1>0, <2>2, <3>2, <3>3, RowStep
  <2>6. StateOK'
    BY <1>0, <2>3, <2>4, <2>5 DEF StateOK, cells, txns, callers
  <2> QED BY <1>0, <2>3, <2>4, <2>5, <2>6, <2>1, SameCells, SameRows, Calm DEF Cleanup, cells, txns, callers
<1>6. CASE Drop
  <2>1. up /\ todo # <<>> /\ f \in Frame /\ f.op = "drops"
    BY <1>6, HeadFrame DEF Drop
  <2>2. f.set \subseteq Res \X Token
    BY <2>1, FrameFields
  <2>3. UNCHANGED <<reg, used, bytes, cells, up, images, txns, callers, crashes>>
    BY <1>6 DEF Drop
  <2>4. PICK x \in f.set :
          \/ /\ reg[x[1]] # None
             /\ sub_total({x[2]}, counted(x[1], reg[x[1]]))
             /\ held' = held \ {x}
             /\ Then(DoFor("unhold", x[1], x[2]) \o Each("drops", f.set \ {x}))
          \/ Then(Each("drops", f.set \ {x})) /\ UNCHANGED <<totals, caps, held>>
    BY <1>6 DEF Drop
  <2>5. x[1] \in Res /\ x[2] \in Token
    BY <2>2
  <2>6. Tailable(Each("drops", f.set \ {x}))
    BY <2>2, TailEach
  <2>7. todo' \in Seq(Frame) /\ StackOK' /\ CallsOK' /\ NoNewRetiring /\ HeadOK'
    <3> DEFINE g == [op |-> "unhold", res |-> x[1], tok |-> x[2]]
    <3>1. CASE Then(Each("drops", f.set \ {x}))
      BY <2>1, <2>3, <2>6, <3>1, PopTail DEF txns, callers
    <3>2. CASE reg[x[1]] # None /\ Then(<<g>> \o Each("drops", f.set \ {x}))
      <4>1. g \in Frame /\ g.op = "unhold" /\ g.res = x[1]
        BY <2>5 DEF Frame
      <4>2. /\ todo' \in Seq(Frame) /\ StackOK' /\ CallsOK' /\ NoNewRetiring
            /\ todo' # <<>> /\ Head(todo') = g
        BY <2>1, <2>3, <2>6, <3>2, <4>1, PopTo DEF txns, callers, Calls
      <4>3. HeadOK'
        BY <2>3, <3>2, <4>1, <4>2 DEF HeadOK
      <4> QED BY <4>2, <4>3
    <3> QED BY <2>4, <3>1, <3>2 DEF DoFor
  <2>8. caps' \in [Token -> Nat \cup {NoCap}] /\ held' \subseteq Res \X Token
    BY <1>0, <2>4 DEF sub_total, StateOK
  <2>9. StateOK'
    BY <1>0, <2>3, <2>7, <2>8 DEF StateOK, cells, txns, callers
  <2> QED BY <1>0, <2>3, <2>7, <2>9, <2>1, SameCells, SameRows, Calm DEF Cleanup, cells, txns, callers
<1>7. CASE Unhold
  <2>1. up /\ todo # <<>> /\ f \in Frame /\ f.op = "unhold"
    BY <1>7, HeadFrame DEF Unhold
  <2>2. f.res \in Res /\ f.tok \in Token /\ reg[f.res] # None /\ reg[f.res] \in Row
    BY <1>0, <2>1, FrameFields DEF HeadOK
  <2>3. UNCHANGED <<caps, used, bytes, cells, up, index, txns, callers, crashes>>
    BY <1>7 DEF Unhold
  <2> DEFINE h == reg[f.res].holders \ {f.tok}
             last == h = {} /\ reclaimable(f.res)
             w == [reg[f.res] EXCEPT !.holders = h,
                                     !.state = IF last THEN "retiring" ELSE @]
  <2>4. /\ w \in Row /\ w.txn = reg[f.res].txn
        /\ w.state = IF last THEN "retiring" ELSE reg[f.res].state
    <3>1. h \in SUBSET Token
      BY <2>2, RowFields
    <3> QED BY <2>2, <3>1 DEF Row
  <2>5. reg' = [reg EXCEPT ![f.res] = w]
    BY <1>0, <1>7, <2>2 DEF Unhold
  <2>6. reg' \in [Res -> Row \cup {None}] /\ RowsKept
    <3> HIDE DEF w
    <3> QED BY <1>0, <2>2, <2>4, <2>5, RowStep
  <2>7. todo' \in Seq(Frame) /\ StackOK' /\ CallsOK' /\ NoNewRetiring /\ HeadOK'
    <3>1. CASE Then(<<>>)
      BY <2>1, <2>3, <3>1, PushNone, PopTail DEF txns, callers
    <3>2. CASE last /\ Then(<<[op |-> "forget", res |-> f.res]>>)
      <4>1. [op |-> "forget", res |-> f.res] \in Frame
        BY <2>2 DEF Frame
      <4>2. /\ todo' \in Seq(Frame) /\ StackOK' /\ CallsOK' /\ NoNewRetiring
            /\ todo' # <<>> /\ Head(todo') = [op |-> "forget", res |-> f.res]
        BY <2>1, <2>3, <3>2, <4>1, PopOne DEF txns, callers, Calls
      <4>3. reg'[f.res] # None /\ reg'[f.res].state = "retiring"
        <5> HIDE DEF w
        <5> QED BY <1>0, <2>2, <2>4, <2>5, <3>2, RowFields
      <4>4. HeadOK'
        BY <4>2, <4>3 DEF HeadOK
      <4> QED BY <4>2, <4>4
    <3> QED BY <1>7, <3>1, <3>2 DEF Unhold, Do
  <2>8. StateOK'
    BY <1>0, <2>3, <2>6, <2>7 DEF StateOK, cells, index, txns, callers
  <2> QED BY <1>0, <2>3, <2>6, <2>7, <2>8, <2>1, SameCells, SameRows, Calm DEF Cleanup, cells, txns, callers
<1>8. CASE ForgetMeta
  <2>1. up /\ todo # <<>> /\ f \in Frame /\ f.op = "forget"
    BY <1>8, HeadFrame DEF ForgetMeta
  <2>2. f.res \in Res /\ reg[f.res] # None /\ reg[f.res].state = "retiring"
    BY <1>0, <2>1, FrameFields DEF HeadOK
  <2>3. UNCHANGED <<reg, caps, used, bytes, size, up, index, txns, callers, crashes>>
    BY <1>8 DEF ForgetMeta
  <2>4. todo' \in Seq(Frame) /\ StackOK' /\ CallsOK' /\ NoNewRetiring /\ HeadOK'
    <3>1. [op |-> "delete", res |-> f.res] \in Frame
      BY <2>2 DEF Frame
    <3>2. /\ todo' \in Seq(Frame) /\ StackOK' /\ CallsOK' /\ NoNewRetiring
          /\ todo' # <<>> /\ Head(todo') = [op |-> "delete", res |-> f.res]
      BY <1>8, <2>1, <2>3, <3>1, PopOne DEF ForgetMeta, Do, txns, callers, Calls
    <3>3. HeadOK'
      BY <2>2, <2>3, <3>2 DEF HeadOK
    <3> QED BY <3>2, <3>3
  <2>5. /\ \/ chunks' = chunks
           \/ f.res \in Memory /\ chunks' = [chunks EXCEPT ![f.res] = Absent]
        /\ \/ arena' = arena
           \/ f.res \in Memory /\ arena' = [arena EXCEPT ![f.res] = Absent]
    BY <1>8 DEF ForgetMeta
  <2>6. /\ chunks' \in [Memory -> Nat \cup {Absent}]
        /\ arena' \in [Memory -> Nat \cup {Absent}]
    BY <1>0, <2>5 DEF StateOK
  <2>7. SizeCovered'
    BY <1>0, <2>3, <2>5, ConstantsOK DEF SizeCovered, StateOK, callers
  <2>8. StateOK'
    BY <1>0, <2>3, <2>4, <2>6 DEF StateOK, index, txns, callers
  <2>9. RetiringOK' /\ CellsOK'
    <3> DEFINE g == [op |-> "delete", res |-> f.res]
    <3>1. g \in Frame /\ g.op = "delete" /\ g.res = f.res
      BY <2>2 DEF Frame
    <3>2. <<g>> \in Seq(Frame) /\ <<g>> # <<>> /\ Len(<<g>>) = 1 /\ <<g>>[1] = g
      BY <3>1
    <3>3. Then(<<g>>)
      BY <1>8 DEF ForgetMeta, Do
    <3>4. RowsKept
      BY <2>3, SameRows
    <3>5. \A m \in Observable : chunks'[m] = Absent => chunks[m] = Absent \/ m = f.res
      BY <1>0, <2>5, ConstantsOK DEF StateOK
    <3> HIDE DEF g
    <3> QED BY <2>1, <2>2, <2>3, <3>1, <3>2, <3>3, <3>4, <3>5, CleanupKept
            DEF Cleanup, callers
  <2> QED BY <2>3, <2>4, <2>7, <2>8, <2>9, SameRows, Assemble DEF txns, callers
<1>9. CASE DeleteRow
  <2>1. up /\ todo # <<>> /\ f \in Frame /\ f.op = "delete"
    BY <1>9, HeadFrame DEF DeleteRow
  <2>2. f.res \in Res /\ reg[f.res] # None /\ reg[f.res] \in Row
    BY <1>0, <2>1, FrameFields DEF HeadOK
  <2>3. UNCHANGED <<caps, used, bytes, cells, up, index, txns, callers, crashes>>
    BY <1>9 DEF DeleteRow
  <2>4. reg' \in [Res -> Row \cup {None}] /\ RowsKept
    BY <1>0, <1>9, <2>2, RowStep DEF DeleteRow
  <2>5. todo' \in Seq(Frame) /\ StackOK' /\ CallsOK' /\ NoNewRetiring /\ HeadOK'
    <3> DEFINE g == [op |-> "giveback", res |-> f.res, n |-> charged(f.res, reg[f.res])]
    <3>1. g \in Frame /\ g.op = "giveback"
      BY <2>2, ChargedInt DEF Frame
    <3>2. /\ todo' \in Seq(Frame) /\ StackOK' /\ CallsOK' /\ NoNewRetiring
          /\ todo' # <<>> /\ Head(todo') = g
      BY <1>9, <2>1, <2>3, <3>1, PopOne DEF DeleteRow, txns, callers, Calls
    <3>3. HeadOK'
      <4> HIDE DEF g
      <4> QED BY <3>1, <3>2 DEF HeadOK
    <3> QED BY <3>2, <3>3
  <2>6. StateOK'
    BY <1>0, <2>3, <2>4, <2>5 DEF StateOK, cells, index, txns, callers
  <2>7. RetiringOK' /\ CellsOK'
    <3> DEFINE g == [op |-> "giveback", res |-> f.res, n |-> charged(f.res, reg[f.res])]
    <3>1. g \in Frame /\ g.op = "giveback"
      BY <2>2, ChargedInt DEF Frame
    <3>2. <<g>> \in Seq(Frame) /\ <<g>> # <<>> /\ Len(<<g>>) = 1 /\ <<g>>[1] = g
      BY <3>1
    <3>3. Then(<<g>>)
      BY <1>9 DEF DeleteRow
    <3>4. \A r \in Res : reg'[r] = IF r = f.res THEN None ELSE reg[r]
      BY <1>0, <1>9 DEF DeleteRow
    <3> HIDE DEF g
    <3> QED BY ZenonT(60), <2>1, <2>2, <2>3, <2>4, <3>1, <3>2, <3>3, <3>4, ConstantsOK, CleanupKept
            DEF Cleanup, callers, cells, Res
  <2> QED BY <1>0, <2>3, <2>4, <2>5, <2>6, <2>7, SameCells, Assemble
          DEF cells, txns, callers
<1>10. CASE GiveBack
  <2>1. up /\ todo # <<>> /\ f \in Frame /\ f.op = "giveback"
    BY <1>10, HeadFrame DEF GiveBack
  <2>2. UNCHANGED <<reg, caps, cells, up, index, txns, callers, crashes>>
    BY <1>10 DEF GiveBack
  <2>3. todo' \in Seq(Frame) /\ StackOK' /\ CallsOK' /\ NoNewRetiring /\ HeadOK'
    <3> DEFINE g == [op |-> "uncount", res |-> f.res]
    <3>1. CASE Then(<<>>)
      BY <2>1, <2>2, <3>1, PushNone, PopTail DEF txns, callers
    <3>2. CASE f.res \in Memory /\ ImageOf[f.res] # None /\ Then(<<g>>)
      <4>1. g \in Frame /\ g.op = "uncount" /\ g.res = f.res
        BY <3>2 DEF Frame
      <4>2. /\ todo' \in Seq(Frame) /\ StackOK' /\ CallsOK' /\ NoNewRetiring
            /\ todo' # <<>> /\ Head(todo') = g
        BY <2>1, <2>2, <3>2, <4>1, PopOne DEF txns, callers, Calls
      <4>3. HeadOK'
        BY <3>2, <4>1, <4>2 DEF HeadOK
      <4> QED BY <4>2, <4>3
    <3> QED BY <1>10, <3>1, <3>2 DEF GiveBack, Do
  <2>4. StateOK'
    BY <1>0, <2>2, <2>3 DEF StateOK, cells, index, txns, callers
  <2>5. RetiringOK' /\ CellsOK'
    <3> DEFINE g == [op |-> "uncount", res |-> f.res]
    <3>1. RowsKept
      BY <2>2, SameRows
    <3>2. CASE Then(<<>>)
      <4>1. <<>> \in Seq(Frame)
        OBVIOUS
      <4> QED BY <2>1, <2>2, <3>1, <3>2, <4>1, CleanupKept DEF Cleanup, callers, cells
    <3>3. CASE f.res \in Memory /\ Then(<<g>>)
      <4>1. g \in Frame /\ g.op = "uncount"
        BY <3>3 DEF Frame
      <4>2. <<g>> \in Seq(Frame) /\ <<g>> # <<>> /\ Len(<<g>>) = 1 /\ <<g>>[1] = g
        BY <4>1
      <4> HIDE DEF g
      <4> QED BY <2>1, <2>2, <3>1, <3>3, <4>1, <4>2, CleanupKept DEF Cleanup, callers, cells
    <3> QED BY <1>10, <3>2, <3>3 DEF GiveBack, Do
  <2> QED BY <1>0, <2>2, <2>3, <2>4, <2>5, SameCells, SameRows, Assemble
          DEF cells, txns, callers
<1>11. CASE AfterRetire
  <2> DEFINE i == ImageOf[f.res]
  <2>1. up /\ todo # <<>> /\ f \in Frame /\ f.op = "uncount"
    BY <1>11, HeadFrame DEF AfterRetire
  <2>2. f.res \in Memory /\ i \in Image /\ i \in Res
    BY <1>0, <2>1, FrameFields, ConstantsOK DEF HeadOK, Res
  <2>3. UNCHANGED <<caps, used, bytes, cells, up, held, totals, txns, callers, crashes>>
    BY <1>11 DEF AfterRetire
  <2>4. CASE UNCHANGED reg /\ Then(<<>>)
    <3>1. todo' \in Seq(Frame) /\ StackOK' /\ CallsOK' /\ NoNewRetiring /\ HeadOK'
      BY <2>1, <2>3, <2>4, PushNone, PopTail DEF txns, callers
    <3>2. StateOK'
      BY <1>0, <2>3, <2>4, <3>1 DEF StateOK, cells, txns, callers
    <3>3. RetiringOK' /\ CellsOK'
      <4>1. <<>> \in Seq(Frame)
        OBVIOUS
      <4> QED BY <2>1, <2>3, <2>4, <4>1, SameRows, CleanupKept DEF Cleanup, callers, cells
    <3> QED BY <1>0, <2>3, <2>4, <3>1, <3>2, <3>3, SameCells, SameRows, Assemble
            DEF cells, txns, callers
  <2>5. CASE reg[i] # None /\ reg' = [reg EXCEPT ![i].state = "retiring"]
             /\ Then(Do("forget", i))
    <3> HIDE DEF i
    <3>1. todo # <<>> /\ UNCHANGED <<cells, cl, queued, maker, minted>>
      BY <2>1, <2>3 DEF txns, callers
    <3>2. /\ todo' \in Seq(Frame) /\ StackOK' /\ CallsOK' /\ NoNewRetiring /\ HeadOK'
          /\ reg' \in [Res -> Row \cup {None}] /\ RowsKept
      BY <2>2, <2>5, <3>1, RetireImage, PushNone
    <3>3. StateOK'
      BY <1>0, <2>3, <3>2 DEF StateOK, cells, txns, callers
    <3>4. RetiringOK' /\ CellsOK'
      <4> DEFINE g == [op |-> "forget", res |-> i]
      <4>1. g \in Frame /\ g.op = "forget" /\ g.res = i
        BY <2>2 DEF Frame
      <4>2. <<g>> \in Seq(Frame) /\ <<g>> # <<>> /\ Len(<<g>>) = 1 /\ <<g>>[1] = g
        BY <4>1
      <4>3. Then(<<g>>)
        BY <2>5 DEF Do
      <4>4. /\ \A r \in Res : reg[r] = None => reg'[r] = None
            /\ \A r \in Res : reg[r] # None /\ reg[r].state = "retiring" =>
                 reg'[r].state = "retiring"
        BY <1>0, <2>2, <2>5 DEF Row
      <4> HIDE DEF g
      <4> QED BY <2>1, <2>3, <3>2, <4>1, <4>2, <4>3, <4>4, CleanupKept
              DEF Cleanup, callers, cells
    <3> QED BY <1>0, <2>3, <3>2, <3>3, <3>4, SameCells, Assemble DEF cells, txns, callers
  <2> QED BY <1>11, <2>4, <2>5 DEF AfterRetire
<1> QED BY <1>1, <1>2, <1>3, <1>4, <1>5, <1>6, <1>7, <1>8, <1>9, <1>10, <1>11
\* A row whose transaction ends, with outcome o kept for its writer.
LEMMA RowEnds ==
    ASSUME NEW w \in Row, w.txn # None, NEW o \in {"ok", "aborted"}
    PROVE  /\ [w EXCEPT !.txn = None,
                        !.done[w.txn.pid] = [op |-> w.txn.op, res |-> o]] \in Row
           /\ w.txn.pid \in Pid /\ w.txn.op \in Nat /\ w.txn.from \in Nat
           /\ w.txn.to \in Nat /\ w.txn.pd \in Int /\ w.txn.ct \in Nat
           /\ w.txn.kind \in {"grow", "arena"}
           /\ Undo(w, w.txn) \in Row /\ Undo(w, w.txn).txn = None
<1>1. w.txn \in Txn
  BY RowFields
<1>2. /\ w.txn.pid \in Pid /\ w.txn.op \in Nat /\ w.txn.from \in Nat
      /\ w.txn.to \in Nat /\ w.txn.pd \in Int /\ w.txn.ct \in Nat
      /\ w.txn.kind \in {"grow", "arena"}
  BY <1>1 DEF Txn
<1>3. /\ [op |-> w.txn.op, res |-> o] \in Outcome
      /\ [op |-> w.txn.op, res |-> "aborted"] \in Outcome
  BY <1>2 DEF Outcome
<1>4. /\ w.done \in [Pid -> Outcome \cup {None}] /\ w.growth \in Int /\ w.arena \in Int
      /\ w.pages \in Nat
  BY RowFields
<1>5. /\ [w.done EXCEPT ![w.txn.pid] = [op |-> w.txn.op, res |-> o]]
           \in [Pid -> Outcome \cup {None}]
      /\ [w.done EXCEPT ![w.txn.pid] = [op |-> w.txn.op, res |-> "aborted"]]
           \in [Pid -> Outcome \cup {None}]
  BY <1>2, <1>3, <1>4
<1>6. [w EXCEPT !.txn = None,
                !.done[w.txn.pid] = [op |-> w.txn.op, res |-> o]] \in Row
  BY <1>5 DEF Row
<1>7. Undo(w, w.txn) \in Row /\ Undo(w, w.txn).txn = None
  <2> DEFINE d == [w.done EXCEPT ![w.txn.pid] = [op |-> w.txn.op, res |-> "aborted"]]
             g == w.txn.kind = "grow"
  <2>1. Undo(w, w.txn) = [w EXCEPT !.pages = IF g THEN w.txn.from ELSE w.pages,
                                   !.growth = IF g THEN w.growth - w.txn.pd ELSE w.growth,
                                   !.arena = IF g THEN w.arena ELSE w.arena - w.txn.pd,
                                   !.txn = None, !.done = d]
    BY DEF Undo, Row
  <2>2. /\ (IF g THEN w.txn.from ELSE w.pages) \in Nat
        /\ (IF g THEN w.growth - w.txn.pd ELSE w.growth) \in Int
        /\ (IF g THEN w.arena ELSE w.arena - w.txn.pd) \in Int
    BY <1>2, <1>4
  <2>3. d \in [Pid -> Outcome \cup {None}]
    BY <1>5
  <2> HIDE DEF d, g
  <2> QED BY <2>1, <2>2, <2>3 DEF Row
<1> QED BY <1>2, <1>6, <1>7

\* The queue of a memory is looked at next.
LEMMA NextFollows ==
    ASSUME Inv, todo # <<>>, NEW r \in Memory, Then(Do("next", r)), UNCHANGED <<cl, queued>>
    PROVE  todo' \in Seq(Frame) /\ StackOK' /\ CallsOK' /\ NoNewRetiring /\ HeadOK'
<1>1. [op |-> "next", res |-> r] \in Frame
  BY DEF Frame
<1>2. Tailable(Do("next", r))
  BY <1>1, TailOne DEF Do, Deferred, Calls
<1> QED BY <1>2, PopTail

\* A transaction is settled next.
LEMMA SettleFollows ==
    ASSUME Inv, todo # <<>>, NEW r \in Memory, NEW s, Tailable(s),
           Then(Do("settle", r) \o s), UNCHANGED <<cl, queued>>,
           reg'[r] # None, reg'[r].txn # None
    PROVE  todo' \in Seq(Frame) /\ StackOK' /\ CallsOK' /\ NoNewRetiring /\ HeadOK'
<1> DEFINE g == [op |-> "settle", res |-> r]
<1>1. g \in Frame /\ g.op = "settle" /\ g.res = r
  BY DEF Frame
<1>2. /\ todo' \in Seq(Frame) /\ StackOK' /\ CallsOK' /\ NoNewRetiring
      /\ todo' # <<>> /\ Head(todo') = g
  BY <1>1, PopTo DEF Do, Calls
<1>3. HeadOK'
  BY <1>1, <1>2 DEF HeadOK
<1> QED BY <1>2, <1>3

\* The steps that publish or settle a transaction.
LEMMA TransactionStepInv ==
    ASSUME Inv,
           \/ PublishChunks \/ PublishSize \/ PublishArena \/ Finish \/ Settle
           \/ Undone \/ WriterGone
    PROVE  Inv'
<1> DEFINE f == Head(todo)
<1>0. /\ StateOK /\ SizeCovered /\ HeadOK /\ TxnOK
      /\ reg \in [Res -> Row \cup {None}] /\ cl \in [Pid -> Client]
      /\ Memory \subseteq Res
  BY DEF Inv, StateOK, Res
<1>1. CASE PublishChunks
  <2>1. up /\ todo # <<>> /\ f \in Frame /\ f.op = "chunks"
    BY <1>1, HeadFrame DEF PublishChunks
  <2>2. /\ f.res \in Memory /\ f.pid \in Pid
        /\ reg[f.res] # None /\ reg[f.res].txn # None /\ reg[f.res] \in Row
        /\ reg[f.res].txn.kind = "grow" /\ cl[f.pid].tup >= reg[f.res].txn.ct
    BY <1>0, <2>1, FrameFields DEF HeadOK
  <2>3. UNCHANGED <<reg, caps, used, bytes, size, arena, up, index, txns, callers,
                    crashes>>
    BY <1>1 DEF PublishChunks
  <2> DEFINE g == [op |-> "size", res |-> f.res]
  <2>4. g \in Frame /\ g.op = "size" /\ g.res = f.res
    BY <2>2 DEF Frame
  <2>5. /\ todo' \in Seq(Frame) /\ StackOK' /\ CallsOK' /\ NoNewRetiring
        /\ todo' # <<>> /\ Head(todo') = g
    BY <1>1, <2>1, <2>3, <2>4, PopOne DEF PublishChunks, Do, txns, callers, Calls
  <2>6. cl[f.pid].tup \in Nat /\ reg[f.res].txn.ct \in Nat
        /\ chunks[f.res] \in Nat \cup {Absent}
    BY <1>0, <2>2, RowEnds DEF Client, StateOK
  <2>7. \/ chunks' = chunks /\ (f.res \in Observable => chunks[f.res] >= reg[f.res].txn.ct)
        \/ /\ chunks' = [chunks EXCEPT ![f.res] = cl[f.pid].tup]
           /\ chunks[f.res] < reg[f.res].txn.ct
    BY <1>1, <2>6 DEF PublishChunks, publish, Absent
  <2>8. chunks' \in [Memory -> Nat \cup {Absent}]
    BY <1>0, <2>2, <2>6, <2>7 DEF StateOK
  <2>9. f.res \in Observable => chunks'[f.res] >= reg[f.res].txn.ct
    BY <1>0, <2>2, <2>7 DEF StateOK
  <2>10. HeadOK'
    BY <2>2, <2>3, <2>4, <2>5, <2>9 DEF HeadOK
  <2>11. SizeCovered'
    <3> SUFFICES ASSUME NEW m \in Observable, maker[m] # None, chunks'[m] # Absent
                 PROVE  chunk_count(size[m], ChunkPages[m]) <= chunks'[m]
      BY <2>3 DEF SizeCovered, callers
    <3>0. m \in Memory
      BY ConstantsOK
    <3>1. CASE chunks'[m] = chunks[m]
      BY <1>0, <3>1 DEF SizeCovered
    <3>2. CASE chunks'[m] # chunks[m]
      <4>1. m = f.res /\ chunks[m] < reg[m].txn.ct /\ chunks'[m] = cl[f.pid].tup
        BY <1>0, <2>7, <3>0, <3>2 DEF StateOK
      <4>2. chunks[m] # Absent => chunk_count(size[m], ChunkPages[m]) <= chunks[m]
        BY <1>0 DEF SizeCovered
      <4>3. size[m] \in Nat /\ ChunkPages[m] \in Nat \ {0}
        BY <1>0, <3>0, ConstantsOK DEF StateOK
      <4>4. chunk_count(size[m], ChunkPages[m]) \in Nat
        BY <4>3, ChunkCountNat
      <4>5. CASE chunks[m] # Absent
        BY <2>2, <2>6, <4>1, <4>2, <4>4, <4>5
      <4>6. chunks[m] # Absent
        BY <2>1, <2>2, <4>1, Settled DEF Cleanup
      <4> QED BY <4>5, <4>6
    <3> QED BY <3>1, <3>2
  <2>12. StateOK'
    BY <1>0, <2>3, <2>5, <2>8 DEF StateOK, index, txns, callers
  <2>13. \A m \in Observable : chunks'[m] = Absent => chunks[m] = Absent
    <3>1. cl[f.pid].tup # Absent
      BY <2>6 DEF Absent
    <3> QED BY <1>0, <2>2, <2>7, <3>1, ConstantsOK DEF StateOK
  <2> QED BY <2>1, <2>3, <2>5, <2>10, <2>11, <2>12, <2>13, SameRows, Calm
          DEF Cleanup, txns, callers
<1>2. CASE PublishSize
  <2>1. up /\ todo # <<>> /\ f \in Frame /\ f.op = "size"
    BY <1>2, HeadFrame DEF PublishSize
  <2>2. /\ f.res \in Memory
        /\ reg[f.res] # None /\ reg[f.res].txn # None /\ reg[f.res] \in Row
        /\ reg[f.res].txn.kind = "grow"
        /\ f.res \in Observable => chunks[f.res] >= reg[f.res].txn.ct
    BY <1>0, <2>1, FrameFields DEF HeadOK
  <2>3. UNCHANGED <<reg, caps, used, bytes, chunks, arena, up, index, txns, callers,
                    crashes>>
    BY <1>2 DEF PublishSize
  <2> DEFINE g == [op |-> "finish", res |-> f.res]
  <2>4. g \in Frame /\ g.op = "finish" /\ g.res = f.res
    BY <2>2 DEF Frame
  <2>5. /\ todo' \in Seq(Frame) /\ StackOK' /\ CallsOK' /\ NoNewRetiring
        /\ todo' # <<>> /\ Head(todo') = g
    BY <1>2, <2>1, <2>3, <2>4, PopOne DEF PublishSize, Do, txns, callers, Calls
  <2>6. HeadOK'
    BY <2>2, <2>3, <2>4, <2>5 DEF HeadOK
  <2>7. reg[f.res].txn.to \in Nat
    BY <2>2, RowEnds
  <2>8. \/ size' = size
        \/ f.res \in Observable /\ size' = [size EXCEPT ![f.res] = reg[f.res].txn.to]
    BY <1>2 DEF PublishSize
  <2>9. size' \in [Memory -> Nat]
    BY <1>0, <2>2, <2>7, <2>8 DEF StateOK
  <2>10. SizeCovered'
    <3>1. reg[f.res].txn.ct = chunk_count(reg[f.res].txn.to, ChunkPages[f.res])
      BY <1>0, <2>2 DEF TxnOK
    <3>2. \A m \in Observable : size'[m] = size[m] \/ (m = f.res /\ size'[m] = reg[m].txn.to)
      BY SMTT(40), <1>0, <2>8, ConstantsOK DEF StateOK
    <3>3. reg[f.res].txn.ct \in Nat /\ chunks[f.res] \in Nat \cup {Absent}
      BY <1>0, <2>2, RowEnds DEF StateOK
    <3> QED BY <1>0, <2>2, <2>3, <3>1, <3>2, <3>3 DEF SizeCovered, callers
  <2>11. StateOK'
    BY <1>0, <2>3, <2>5, <2>9 DEF StateOK, index, txns, callers
  <2> QED BY <2>1, <2>3, <2>5, <2>6, <2>10, <2>11, SameRows, Calm
          DEF Cleanup, txns, callers
<1>3. CASE PublishArena
  <2>1. up /\ todo # <<>> /\ f \in Frame /\ f.op = "arena"
    BY <1>3, HeadFrame DEF PublishArena
  <2>2. /\ f.res \in Memory /\ f.pid \in Pid /\ cl[f.pid].tup \in Nat
        /\ reg[f.res] # None /\ reg[f.res].txn # None
    BY <1>0, <2>1, FrameFields DEF HeadOK, Client
  <2>3. UNCHANGED <<reg, caps, used, bytes, chunks, size, up, index, txns, callers,
                    crashes>>
    BY <1>3 DEF PublishArena
  <2> DEFINE g == [op |-> "finish", res |-> f.res]
  <2>4. g \in Frame /\ g.op = "finish" /\ g.res = f.res
    BY <2>2 DEF Frame
  <2>5. /\ todo' \in Seq(Frame) /\ StackOK' /\ CallsOK' /\ NoNewRetiring
        /\ todo' # <<>> /\ Head(todo') = g
    BY <1>3, <2>1, <2>3, <2>4, PopOne DEF PublishArena, Do, txns, callers, Calls
  <2>6. HeadOK'
    BY <2>2, <2>3, <2>4, <2>5 DEF HeadOK
  <2>7. arena' \in [Memory -> Nat \cup {Absent}]
    <3>1. arena' = arena \/ arena' = [arena EXCEPT ![f.res] = cl[f.pid].tup]
      BY <1>3 DEF PublishArena, publish
    <3> QED BY <1>0, <2>2, <3>1 DEF StateOK
  <2>8. StateOK'
    BY <1>0, <2>3, <2>5, <2>7 DEF StateOK, index, txns, callers
  <2> QED BY <1>0, <2>1, <2>3, <2>5, <2>6, <2>8, SameRows, SameCells, Calm
          DEF Cleanup, txns, callers
<1>4. CASE Finish
  <2>1. up /\ todo # <<>> /\ f \in Frame /\ f.op = "finish"
    BY <1>4, HeadFrame DEF Finish
  <2>2. f.res \in Memory /\ reg[f.res] # None /\ reg[f.res].txn # None /\ reg[f.res] \in Row
    BY <1>0, <2>1, FrameFields DEF HeadOK
  <2>3. UNCHANGED <<caps, used, bytes, cells, up, index, queued, alive, cl, builds,
                    minted, maker, crashes>>
    BY <1>4 DEF Finish
  <2> DEFINE w == [reg[f.res] EXCEPT !.txn = None,
                     !.done[reg[f.res].txn.pid] = [op |-> reg[f.res].txn.op, res |-> "ok"]]
  <2>4. w \in Row /\ w.txn = None /\ reg[f.res].txn.pid \in Pid
    <3>1. w \in Row /\ reg[f.res].txn.pid \in Pid
      BY <2>2, RowEnds
    <3>2. w.txn = None
      BY <2>2 DEF Row
    <3> QED BY <3>1, <3>2
  <2>5. reg' \in [Res -> Row \cup {None}] /\ RowsKept
    <3>1. reg' = [reg EXCEPT ![f.res] = w]
      BY <1>0, <1>4, <2>2 DEF Finish
    <3> HIDE DEF w
    <3> QED BY <1>0, <2>2, <2>4, <3>1, RowStep
  <2>6. todo' \in Seq(Frame) /\ StackOK' /\ CallsOK' /\ NoNewRetiring /\ HeadOK'
    BY <1>4, <2>1, <2>2, <2>3, NextFollows DEF Finish
  <2>7. writers' \in [Pid -> SUBSET Memory] /\ fate' \in [Pid -> {"none", "ok", "undone"}]
    BY <1>0, <1>4, <2>2, <2>4 DEF Finish, watch_writer, StateOK
  <2>8. StateOK'
    BY <1>0, <2>3, <2>5, <2>6, <2>7 DEF StateOK, cells, index
  <2> QED BY <1>0, <2>1, <2>3, <2>5, <2>6, <2>8, SameCells, Calm DEF Cleanup, cells
<1>5. CASE Settle
  <2> DEFINE t == reg[f.res].txn
  <2>1. up /\ todo # <<>> /\ f \in Frame /\ f.op = "settle"
    BY <1>5, HeadFrame DEF Settle
  <2>2. f.res \in Memory /\ reg[f.res] # None /\ t # None /\ reg[f.res] \in Row
    BY <1>0, <2>1, FrameFields DEF HeadOK
  <2>3. UNCHANGED <<caps, used, bytes, chunks, arena, up, index, txns, alive, cl,
                    builds, minted, maker, crashes>>
    BY <1>5 DEF Settle
  <2>4. /\ t.pid \in Pid /\ t.from \in Nat /\ t.to \in Nat /\ t.pd \in Int /\ t.ct \in Nat
        /\ t.kind \in {"grow", "arena"}
    BY <2>2, RowEnds
  <2>5. CASE published(f.res, t)
    <3>1. /\ UNCHANGED <<reg, fate>> /\ Then(Do("finish", f.res))
          /\ size' = IF t.kind = "grow" THEN [size EXCEPT ![f.res] = t.to] ELSE size
      BY <1>5, <2>5 DEF Settle
    <3> DEFINE g == [op |-> "finish", res |-> f.res]
    <3>2. g \in Frame /\ g.op = "finish" /\ g.res = f.res
      BY <2>2 DEF Frame
    <3>3. /\ todo' \in Seq(Frame) /\ StackOK' /\ CallsOK' /\ NoNewRetiring
          /\ todo' # <<>> /\ Head(todo') = g
      BY <2>1, <2>3, <3>1, <3>2, PopOne DEF Do, txns, Calls
    <3>4. HeadOK'
      BY <2>2, <3>1, <3>2, <3>3 DEF HeadOK
    <3>5. size' \in [Memory -> Nat]
      BY <1>0, <2>2, <2>4, <3>1 DEF StateOK
    <3>6. SizeCovered'
      <4> SUFFICES ASSUME NEW m \in Observable, maker[m] # None, chunks[m] # Absent
                   PROVE  chunk_count(size'[m], ChunkPages[m]) <= chunks[m]
        BY <2>3 DEF SizeCovered
      <4>0. m \in Memory /\ chunk_count(size[m], ChunkPages[m]) <= chunks[m]
        BY <1>0, ConstantsOK DEF SizeCovered
      <4>1. CASE size'[m] = size[m]
        BY <4>0, <4>1
      <4>2. CASE size'[m] # size[m]
        <5>1. m = f.res /\ t.kind = "grow" /\ size'[m] = t.to
          BY <1>0, <3>1, <4>0, <4>2 DEF StateOK
        <5>2. t.ct = chunk_count(t.to, ChunkPages[m])
          BY <1>0, <2>2, <5>1 DEF TxnOK
        <5>3. CASE t.pd # 0
          BY <2>5, <5>1, <5>2, <5>3 DEF published
        <5>4. CASE t.pd = 0
          <6>1. size[m] >= t.to
            BY <2>5, <5>1, <5>4 DEF published
          <6>2. size[m] \in Nat /\ ChunkPages[m] \in Nat \ {0}
            BY <1>0, <4>0, ConstantsOK DEF StateOK
          <6>3. chunk_count(t.to, ChunkPages[m]) <= chunk_count(size[m], ChunkPages[m])
            BY <2>4, <6>1, <6>2, ChunkCountMono
          <6>4. /\ chunk_count(t.to, ChunkPages[m]) \in Nat
                /\ chunk_count(size[m], ChunkPages[m]) \in Nat
                /\ chunks[m] \in Nat
            BY <1>0, <2>4, <4>0, <6>2, ChunkCountNat DEF StateOK
          <6> QED BY <4>0, <5>1, <6>3, <6>4
        <5> QED BY <5>3, <5>4
      <4> QED BY <4>1, <4>2
    <3>7. StateOK'
      BY <1>0, <2>3, <3>1, <3>3, <3>5 DEF StateOK, index, txns
    <3> QED BY <2>1, <2>3, <3>1, <3>3, <3>4, <3>6, <3>7, SameRows, Calm DEF Cleanup, txns
  <2>6. CASE ~published(f.res, t)
    <3> DEFINE g == [op |-> "undone", res |-> f.res, n |-> t.pd,
                     d |-> IF t.kind = "grow" THEN t.to - t.from ELSE -1]
    <3>1. /\ UNCHANGED size /\ Then(<<g>>)
          /\ reg' = [reg EXCEPT ![f.res] = Undo(reg[f.res], t)]
          /\ fate' = IF cl[t.pid].op = t.op THEN [fate EXCEPT ![t.pid] = "undone"] ELSE fate
      BY <1>5, <2>6 DEF Settle
    <3>2. g \in Frame /\ g.op = "undone"
      BY SMTT(40), <2>2, <2>4 DEF Frame
    <3>3. /\ todo' \in Seq(Frame) /\ StackOK' /\ CallsOK' /\ NoNewRetiring
          /\ todo' # <<>> /\ Head(todo') = g
      BY <2>1, <2>3, <3>1, <3>2, PopOne DEF txns, Calls
    <3>4. HeadOK'
      <4> HIDE DEF g
      <4> QED BY <3>2, <3>3 DEF HeadOK
    <3>5. reg' \in [Res -> Row \cup {None}] /\ RowsKept
      <4>1. Undo(reg[f.res], t) \in Row /\ Undo(reg[f.res], t).txn = None
        BY <2>2, RowEnds
      <4> QED BY <1>0, <2>2, <3>1, <4>1, RowStep
    <3>6. fate' \in [Pid -> {"none", "ok", "undone"}]
      BY <1>0, <2>4, <3>1 DEF StateOK
    <3>7. StateOK'
      BY <1>0, <2>3, <3>1, <3>3, <3>5, <3>6 DEF StateOK, index, txns
    <3> QED BY <1>0, <2>1, <2>3, <3>1, <3>3, <3>4, <3>5, <3>7, SameCells, Calm
            DEF Cleanup, txns
  <2> QED BY <2>5, <2>6
<1>6. CASE Undone
  <2>1. up /\ todo # <<>> /\ f \in Frame /\ f.op = "undone"
    BY <1>6, HeadFrame DEF Undone
  <2>2. f.res \in Memory
    BY <2>1, FrameFields
  <2>3. UNCHANGED <<reg, bytes, cells, up, held, images, txns, callers, crashes>>
    BY <1>6 DEF Undone
  <2>4. todo' \in Seq(Frame) /\ StackOK' /\ CallsOK' /\ NoNewRetiring /\ HeadOK'
    BY <1>6, <2>1, <2>2, <2>3, NextFollows DEF Undone, txns, callers
  <2>5. caps' \in [Token -> Nat \cup {NoCap}]
    <3>1. CASE UNCHANGED caps
      BY <1>0, <3>1 DEF StateOK
    <3>2. CASE sub_total(reg[f.res].holders, f.d)
      BY <1>0, <3>2 DEF sub_total, StateOK
    <3> QED BY <1>6, <3>1, <3>2 DEF Undone
  <2>6. StateOK'
    BY <1>0, <2>3, <2>4, <2>5 DEF StateOK, cells, txns, callers
  <2> QED BY <1>0, <2>1, <2>3, <2>4, <2>6, SameCells, SameRows, Calm
          DEF Cleanup, cells, txns, callers
<1>7. CASE WriterGone
  <2>1. up /\ todo # <<>> /\ f \in Frame /\ f.op = "gone"
    BY <1>7, HeadFrame DEF WriterGone
  <2>2. f.set \subseteq Memory \X Pid
    BY <2>1, FrameFields
  <2>3. UNCHANGED <<caps, used, bytes, cells, up, index, txns, callers, crashes>>
    BY <1>7 DEF WriterGone
  <2>4. PICK x \in f.set :
          LET row == reg[x[1]]  rest == Each("gone", f.set \ {x}) IN
          \/ UNCHANGED reg /\ Then(rest)
          \/ /\ row # None /\ reg' = [reg EXCEPT ![x[1]].done[x[2]] = None]
             /\ \/ Then(<<>> \o rest)
                \/ row.txn # None /\ Then(Do("settle", x[1]) \o rest)
    BY <1>7 DEF WriterGone
  <2>5. x[1] \in Memory /\ x[1] \in Res /\ x[2] \in Pid
    BY <1>0, <2>2
  <2>6. Tailable(Each("gone", f.set \ {x})) /\ Tailable(<<>> \o Each("gone", f.set \ {x}))
    BY <2>2, TailEach, PushNone, TailJoin
  <2>7. reg' \in [Res -> Row \cup {None}] /\ RowsKept
        /\ \A m \in Memory : reg[m] # None /\ reg[m].txn # None =>
             reg'[m] # None /\ reg'[m].txn # None
    <3>1. CASE UNCHANGED reg
      BY <1>0, <3>1, SameRows
    <3>2. CASE reg[x[1]] # None /\ reg' = [reg EXCEPT ![x[1]].done[x[2]] = None]
      <4> DEFINE d == [reg[x[1]].done EXCEPT ![x[2]] = None]
                 w == [reg[x[1]] EXCEPT !.done = d]
      <4>1. reg[x[1]] \in Row
        BY <1>0, <2>5, <3>2
      <4>2. d \in [Pid -> Outcome \cup {None}]
        BY <2>5, <4>1, RowFields
      <4>3. w \in Row /\ w.txn = reg[x[1]].txn
        <5> HIDE DEF d
        <5> QED BY ZenonT(60), <4>1, <4>2, RowFields
      <4>4. reg' = [reg EXCEPT ![x[1]] = w] /\ w # None
        BY <3>2, <4>3, RowFields
      <4> HIDE DEF w
      <4> QED BY <1>0, <2>5, <3>2, <4>3, <4>4, RowStep
    <3> QED BY <2>4, <3>1, <3>2
  <2>8. todo' \in Seq(Frame) /\ StackOK' /\ CallsOK' /\ NoNewRetiring /\ HeadOK'
    BY <2>1, <2>3, <2>4, <2>5, <2>6, <2>7, PopTail, SettleFollows DEF txns, callers
  <2>9. StateOK'
    BY <1>0, <2>3, <2>7, <2>8 DEF StateOK, cells, index, txns, callers
  <2> QED BY <1>0, <2>1, <2>3, <2>7, <2>8, <2>9, SameCells, Calm
          DEF Cleanup, cells, txns, callers
<1> QED BY <1>1, <1>2, <1>3, <1>4, <1>5, <1>6, <1>7

\* Processes watched for a memory.
LEMMA WatchTyped ==
    ASSUME writers \in [Pid -> SUBSET Memory], NEW r \in Memory, NEW W,
           writers' = [p \in Pid |-> IF p \in W THEN writers[p] \cup {r} ELSE writers[p]]
    PROVE  writers' \in [Pid -> SUBSET Memory]
OBVIOUS

\* The steps of init/1 but the first, which may be left to other rows.
LEMMA RecoveryInv ==
    ASSUME Inv, RecoverRow \/ SweepImages \/ ReconcileCounters
    PROVE  Inv'
<1> DEFINE f == Head(todo)
<1>0. /\ StateOK /\ SizeCovered /\ reg \in [Res -> Row \cup {None}]
      /\ Memory \subseteq Res
  BY DEF Inv, StateOK, Res
<1>1. CASE RecoverRow
  <2>1. up /\ todo # <<>> /\ f \in Frame /\ f.op = "recover"
    BY <1>1, HeadFrame DEF RecoverRow
  <2>2. f.set \subseteq Memory
    BY <2>1, FrameFields
  <2>3. UNCHANGED <<caps, used, bytes, cells, up, index, queued, callers, crashes>>
    BY <1>1 DEF RecoverRow
  <2>4. PICK r \in f.set :
          LET row == reg[r]  rest == Each("recover", f.set \ {r})
              kept == {p \in alive : row.done[p] # None}
              watched == kept \cup (IF row.txn # None /\ ~Abandoned(row)
                                    THEN {row.txn.pid} ELSE {}) IN
          \/ UNCHANGED <<reg, writers>> /\ Then(rest)
          \/ /\ row # None
             /\ reg' = [reg EXCEPT ![r].done =
                          [p \in Pid |-> IF p \in kept THEN @[p] ELSE None]]
             /\ writers' = [p \in Pid |-> IF p \in watched THEN writers[p] \cup {r}
                                          ELSE writers[p]]
             /\ \/ Then(<<>> \o rest)
                \/ row.txn # None /\ Then(Do("settle", r) \o rest)
    BY <1>1 DEF RecoverRow
  <2>5. r \in Memory /\ r \in Res
    BY <1>0, <2>2
  <2>6. Tailable(Each("recover", f.set \ {r})) /\ Tailable(<<>> \o Each("recover", f.set \ {r}))
    BY <2>2, TailEach, PushNone, TailJoin
  <2>7. reg' \in [Res -> Row \cup {None}] /\ RowsKept
        /\ \A m \in Memory : reg[m] # None /\ reg[m].txn # None =>
             reg'[m] # None /\ reg'[m].txn # None
    <3> DEFINE kept == {p \in alive : reg[r].done[p] # None}
               d == [p \in Pid |-> IF p \in kept THEN reg[r].done[p] ELSE None]
               w == [reg[r] EXCEPT !.done = d]
    <3>1. CASE UNCHANGED reg
      BY <1>0, <3>1, SameRows
    <3>2. CASE reg[r] # None /\ reg' = [reg EXCEPT ![r] = w]
      <4>1. reg[r] \in Row
        BY <1>0, <2>5, <3>2
      <4>2. d \in [Pid -> Outcome \cup {None}]
        <5>1. reg[r].done \in [Pid -> Outcome \cup {None}]
          BY <4>1, RowFields
        <5> QED BY <5>1
      <4>3. w \in Row /\ w.txn = reg[r].txn
        <5> HIDE DEF d
        <5> QED BY ZenonT(60), <4>1, <4>2, RowFields
      <4>4. w # None
        BY <4>3, RowFields
      <4> HIDE DEF w
      <4> QED BY <1>0, <2>5, <3>2, <4>3, <4>4, RowStep
    <3> QED BY <2>4, <3>1, <3>2
  <2>8. todo' \in Seq(Frame) /\ StackOK' /\ CallsOK' /\ NoNewRetiring /\ HeadOK'
    BY <2>1, <2>3, <2>4, <2>5, <2>6, <2>7, PopTail, SettleFollows DEF callers
  <2>9. writers' \in [Pid -> SUBSET Memory]
    <3>1. writers \in [Pid -> SUBSET Memory]
      BY <1>0 DEF StateOK
    <3>2. CASE UNCHANGED writers
      BY <3>1, <3>2
    <3>3. CASE ~UNCHANGED writers
      <4> DEFINE W == {p \in alive : reg[r].done[p] # None}
                      \cup (IF reg[r].txn # None /\ ~Abandoned(reg[r])
                            THEN {reg[r].txn.pid} ELSE {})
      <4>1. writers' = [p \in Pid |-> IF p \in W THEN writers[p] \cup {r} ELSE writers[p]]
        BY <2>4, <3>3
      <4> HIDE DEF W
      <4> QED BY <2>5, <3>1, <4>1, WatchTyped
    <3> QED BY <3>2, <3>3
  <2>10. StateOK'
    BY <1>0, <2>3, <2>7, <2>8, <2>9 DEF StateOK, cells, index, callers
  <2> QED BY <1>0, <2>1, <2>3, <2>7, <2>8, <2>10, SameCells, Calm
          DEF Cleanup, cells, callers
<1>2. CASE SweepImages
  <2>1. up /\ todo # <<>> /\ f \in Frame /\ f.op = "sweep"
    BY <1>2, HeadFrame DEF SweepImages
  <2>2. f.set \subseteq Res
    BY <2>1, FrameFields
  <2>3. UNCHANGED <<caps, used, bytes, cells, up, index, txns, callers, crashes>>
    BY <1>2 DEF SweepImages
  <2>4. PICK i \in f.set :
          \/ UNCHANGED reg /\ Then(Each("sweep", f.set \ {i}))
          \/ /\ reg[i] # None /\ reg' = [reg EXCEPT ![i].state = "retiring"]
             /\ Then(Do("forget", i) \o Each("sweep", f.set \ {i}))
    BY <1>2 DEF SweepImages
  <2>5. i \in Res /\ Tailable(Each("sweep", f.set \ {i}))
    BY <2>2, TailEach
  <2>6. /\ todo' \in Seq(Frame) /\ StackOK' /\ CallsOK' /\ NoNewRetiring /\ HeadOK'
        /\ reg' \in [Res -> Row \cup {None}] /\ RowsKept
    <3>1. CASE UNCHANGED reg /\ Then(Each("sweep", f.set \ {i}))
      BY <1>0, <2>1, <2>3, <2>5, <3>1, PopTail, SameRows DEF txns, callers
    <3>2. CASE /\ reg[i] # None /\ reg' = [reg EXCEPT ![i].state = "retiring"]
               /\ Then(Do("forget", i) \o Each("sweep", f.set \ {i}))
      BY <2>1, <2>3, <2>5, <3>2, RetireImage DEF txns, callers
    <3> QED BY <2>4, <3>1, <3>2
  <2>7. StateOK'
    BY <1>0, <2>3, <2>6 DEF StateOK, cells, index, txns, callers
  <2> QED BY <1>0, <2>1, <2>3, <2>6, <2>7, SameCells, Calm DEF Cleanup, cells, txns, callers
<1>3. CASE ReconcileCounters
  <2>1. up /\ todo # <<>> /\ f.op = "reconcile"
    BY <1>3, HeadFrame DEF ReconcileCounters
  <2>2. UNCHANGED <<reg, caps, cells, up, index, txns, callers, crashes>>
    BY <1>3 DEF ReconcileCounters
  <2>3. todo' \in Seq(Frame) /\ StackOK' /\ CallsOK' /\ NoNewRetiring /\ HeadOK'
    BY <1>3, <2>1, <2>2, PushNone, PopTail DEF ReconcileCounters, txns, callers
  <2>4. StateOK'
    BY <1>0, <2>2, <2>3 DEF StateOK, cells, index, txns, callers
  <2> QED BY <1>0, <2>1, <2>2, <2>3, <2>4, SameCells, SameRows, Calm
          DEF Cleanup, cells, txns, callers
<1> QED BY <1>1, <1>2, <1>3

-----------------------------------------------------------------------------
(* Steps that change a caller.                                             *)

\* Only p changes among the callers, and no transaction starts.
Alone(p) ==
    /\ \A q \in Pid \ {p} : cl'[q] = cl[q]
    /\ cl[p].op <= cl'[p].op
    /\ RowsKept

\* No process waits in a queue for the one whose answer is being sent.
LEMMA NotQueued ==
    ASSUME Inv, NEW p \in Pid, Alone(p), UNCHANGED queued,
           \A m \in Memory : \A k \in 1 .. Len(queued[m]) : queued[m][k] # p
    PROVE  QueueOK'
<1>1. \A m \in Memory : \A k \in 1 .. Len(queued[m]) : queued[m][k] \in Pid
  BY DEF Inv, StateOK
<1> QED BY <1>1 DEF Inv, QueueOK, Alone

\* The parts about transactions when only p changes.
LEMMA AloneKeptTxn ==
    ASSUME Inv, StateOK', NEW p \in Pid, Alone(p),
           \A m \in Memory : maker[m] # None => maker'[m] # None
    PROVE  TxnOK' /\ \A q \in Pid \ {p} : WriterIs(q)'
<1>2. TxnOK'
  <2> SUFFICES ASSUME NEW m \in Memory, reg'[m] # None, reg'[m].txn # None
               PROVE  TxnOK!(m)'
    BY DEF TxnOK
  <2>0. reg[m] # None /\ reg[m].txn = reg'[m].txn /\ reg[m].txn # None
    BY DEF Alone, RowsKept
  <2>1. reg[m] \in Row /\ reg[m].txn.pid \in Pid /\ reg[m].txn.op \in Nat
    <3>1. reg[m] \in Row
      BY <2>0 DEF Inv, StateOK, Res
    <3> QED BY <2>0, <3>1, RowEnds
  <2>2. /\ cl[reg[m].txn.pid].op \in Nat /\ cl'[reg[m].txn.pid].op \in Nat
    BY <2>1 DEF Inv, StateOK, Client
  <2>3. cl[reg[m].txn.pid].op <= cl'[reg[m].txn.pid].op
    BY <2>1, <2>2 DEF Alone
  <2> QED BY <2>0, <2>1, <2>2, <2>3 DEF Inv, TxnOK
<1>3. ASSUME NEW q \in Pid \ {p} PROVE WriterIs(q)'
  <2>1. cl'[q] = cl[q] /\ WriterIs(q)
    BY DEF Inv, WriterOK, Alone
  <2> QED BY <2>1 DEF WriterIs, InFlight, Alone, RowsKept
<1> QED BY <1>2, <1>3

\* And those about makers, when p is not making a memory.
LEMMA AloneKept ==
    ASSUME Inv, StateOK', NEW p \in Pid, Alone(p), minted \subseteq minted', UNCHANGED maker,
           cl'[p].ph \notin {"create", "free"}
    PROVE  /\ MakeOK' /\ TxnOK'
           /\ \A q \in Pid \ {p} : WriterIs(q)'
<1>1. MakeOK'
  BY DEF Inv, MakeOK, Alone
<1> QED BY <1>1, AloneKeptTxn

\* The first frame answers p, and is done.
LEMMA Answered ==
    ASSUME Inv, todo # <<>>, Head(todo).op \in Calls, Then(<<>>),
           Alone(Head(todo).pid), UNCHANGED queued
    PROVE  /\ todo' \in Seq(Frame) /\ StackOK' /\ CallsOK' /\ NoNewRetiring
           /\ HeadOK' /\ QueueOK' /\ Head(todo).pid \in Pid
<1> DEFINE p == Head(todo).pid
<1>0. /\ todo \in Seq(Frame) /\ StackOK /\ CallsOK /\ Head(todo) = todo[1]
      /\ 1 \in 1 .. Len(todo) /\ 2 .. Len(todo) \subseteq 1 .. Len(todo)
  BY DEF Inv, StateOK
<1>1. p \in Pid
  BY <1>0, FrameFields DEF Calls
<1>2. \A i \in 2 .. Len(todo) : todo[i].op \in Calls =>
        todo[i].pid \in Pid /\ todo[i].pid # p
  <2>1. \A i \in 2 .. Len(todo) : todo[i] \in Frame
    BY <1>0
  <2> QED BY <1>0, <2>1, FrameFields DEF CallsOK, Calls
<1>3. \A i \in 2 .. Len(todo) : todo[i].op \in Calls =>
               /\ cl'[todo[i].pid].ph = cl[todo[i].pid].ph
               /\ \A m \in Memory : \A k \in 1 .. Len(queued'[m]) :
                    queued'[m][k] # todo[i].pid
  BY <1>0, <1>2 DEF CallsOK, Alone
<1>4. /\ todo' \in Seq(Frame) /\ StackOK' /\ CallsOK' /\ NoNewRetiring
      /\ todo' # <<>> => Head(todo').op \in Deferred
  BY <1>0, <1>3, PushNone, ThenGen
<1>5. \A m \in Memory : \A k \in 1 .. Len(queued[m]) : queued[m][k] # p
  BY <1>0 DEF CallsOK
<1> QED BY <1>1, <1>4, <1>5, DeferredHead, NotQueued

\* One frame put on top of a stack.
LEMMA Prepended ==
    ASSUME NEW S, NEW g \in S, NEW t \in Seq(S)
    PROVE  /\ <<g>> \o t \in Seq(S) /\ Len(<<g>> \o t) = 1 + Len(t)
           /\ Len(t) \in Nat /\ Len(<<g>> \o t) \in Nat
           /\ <<g>> \o t # <<>> /\ Head(<<g>> \o t) = g /\ (<<g>> \o t)[1] = g
           /\ \A i \in 2 .. 1 + Len(t) : /\ i - 1 \in 1 .. Len(t)
                                         /\ (<<g>> \o t)[i] = t[i - 1]
<1>1. <<g>> \in Seq(S) /\ Len(<<g>>) = 1 /\ <<g>>[1] = g
  OBVIOUS
<1>2. /\ <<g>> \o t \in Seq(S) /\ Len(<<g>> \o t) = 1 + Len(t) /\ Len(t) \in Nat
      /\ (<<g>> \o t)[1] = g
      /\ \A i \in 2 .. 1 + Len(t) : (<<g>> \o t)[i] = t[i - 1]
  BY <1>1
<1>3. \A i \in 2 .. 1 + Len(t) : i - 1 \in 1 .. Len(t)
  BY <1>2
<1> QED BY <1>2, <1>3

\* What a request to begin finds, by the answer transaction/4 decides on.
LEMMA TransactionIs ==
    ASSUME NEW p \in Pid
    PROVE  /\ transaction(p) \in {"gone", "done", "resume", "queue", "start",
                                  "refused", "covered", "changed"}
           /\ transaction(p) = "start" =>
                reg[cl[p].res] # None /\ reg[cl[p].res].txn = None
           /\ transaction(p) = "resume" => InFlight(p)
           /\ transaction(p) = "queue" =>
                reg[cl[p].res] # None /\ reg[cl[p].res].txn # None
<1> DEFINE c == cl[p]
           row == reg[c.res]
           kept == row.done[p] # None /\ row.done[p].op = c.op
<1>1. CASE ~Live(c.res)
  BY <1>1 DEF transaction
<1>2. CASE Live(c.res) /\ kept
  BY <1>2 DEF transaction
<1>3. CASE Live(c.res) /\ ~kept
  <2>1. transaction(p) =
           IF row.txn # None
           THEN IF row.txn.pid = p /\ row.txn.op = c.op THEN "resume" ELSE "queue"
           ELSE IF c.kind = "grow"
           THEN IF /\ row.pages + c.n <= MaxPages[c.res]
                   /\ AllFit(row, c.n)
                   /\ CanReserve(Cost(p))
                THEN "start" ELSE "refused"
           ELSE IF arena[c.res] >= c.n THEN "covered"
           ELSE IF arena[c.res] # c.seen THEN "changed"
           ELSE IF CanReserve(Cost(p)) THEN "start" ELSE "refused"
    BY <1>3 DEF transaction
  <2>2. row # None
    BY <1>3 DEF Live
  <2> QED BY <2>1, <2>2 DEF InFlight
<1> QED BY <1>1, <1>2, <1>3

\* What Begin leaves to do: nothing for a request that queues, else an answer
\* or the row to write.
LEMMA BeginFrame ==
    ASSUME NEW p \in Pid, NEW rest, Begin(p, rest)
    PROVE  \/ /\ transaction(p) = "queue" /\ todo' = <<>> \o rest
              /\ reg[cl[p].res] # None /\ reg[cl[p].res].txn # None
           \/ /\ transaction(p) # "queue"
              /\ \E g \in Frame :
                   /\ todo' = <<g>> \o rest /\ g.op \in Calls /\ g.pid = p
                   /\ g.op = "txn" => /\ reg[cl[p].res] # None
                                      /\ reg[cl[p].res].txn = None
                   /\ g.op = "grant" => InFlight(p)
<1> DEFINE d == transaction(p)
<1>1. CASE d = "queue"
  BY <1>1, TransactionIs DEF Begin
<1>2. CASE d = "start"
  <2> DEFINE g == [op |-> "txn", pid |-> p]
  <2>1. g \in Frame /\ g.op = "txn" /\ g.pid = p /\ todo' = <<g>> \o rest
    BY <1>2 DEF Begin, Frame
  <2> HIDE DEF g
  <2> QED BY <1>2, <2>1, TransactionIs DEF Calls
<1>3. CASE d = "resume"
  <2> DEFINE g == [op |-> "grant", pid |-> p]
  <2>1. g \in Frame /\ g.op = "grant" /\ g.pid = p /\ todo' = <<g>> \o rest
    BY <1>3 DEF Begin, Grant, Frame
  <2> HIDE DEF g
  <2> QED BY <1>3, <2>1, TransactionIs DEF Calls
<1>4. CASE d \in {"gone", "done", "refused", "covered", "changed"}
  <2> DEFINE g == [op |-> "reply", pid |-> p, res |-> d]
  <2>1. g \in Frame /\ g.op = "reply" /\ g.pid = p
    BY <1>4 DEF Frame
  <2>2. todo' = <<g>> \o rest
    BY <1>4 DEF Begin, Reply
  <2> HIDE DEF g
  <2> QED BY <1>4, <2>1, <2>2 DEF Calls
<1> QED BY <1>1, <1>2, <1>3, <1>4, TransactionIs

\* The steps that answer a caller, or take the next one from a queue.
LEMMA AnswerInv ==
    ASSUME Inv, GrantStep \/ ReplyStep \/ TxnRow \/ NextTransaction \/ Reserved
    PROVE  Inv'
<1> DEFINE f == Head(todo)
<1>0. /\ StateOK /\ SizeCovered /\ HeadOK /\ TxnOK /\ WriterOK /\ CallsOK /\ StackOK
      /\ reg \in [Res -> Row \cup {None}] /\ cl \in [Pid -> Client]
      /\ Memory \subseteq Res /\ todo \in Seq(Frame)
  BY DEF Inv, StateOK, Res
<1>1. CASE GrantStep
  <2>1. up /\ todo # <<>> /\ f \in Frame /\ f.op = "grant"
    BY <1>1, HeadFrame DEF GrantStep
  <2>0. PICK p \in Pid : p = f.pid
    BY <2>1, FrameFields
  <2> DEFINE c == cl[p]
  <2>2. c \in Client /\ c.ph \in {"begin", "queued"} /\ InFlight(p)
    BY <1>0, <2>0, <2>1 DEF HeadOK
  <2>3. /\ c.res \in Memory /\ maker[c.res] # None /\ reg[c.res].txn.kind = c.kind
        /\ c.kind = "grow" => reg[c.res].txn.to = reg[c.res].txn.from + c.n
    BY <1>0, <2>2 DEF WriterOK, WriterIs
  <2>4. /\ UNCHANGED <<durable, up, index, txns, alive, builds, minted, maker, fate, crashes>>
        /\ Then(<<>>)
        /\ cl' = [cl EXCEPT ![p] = IF p \notin alive THEN [c EXCEPT !.ph = "idle"]
                   ELSE [c EXCEPT !.ph = "extend", !.seen = reg[c.res].txn.from]]
    BY <1>1, <2>0 DEF GrantStep
  <2>5. reg[c.res].txn.from \in Nat
    BY <1>0, <2>2, <2>3, RowEnds DEF InFlight
  <2>6. cl'[p] = IF p \notin alive THEN [c EXCEPT !.ph = "idle"]
                 ELSE [c EXCEPT !.ph = "extend", !.seen = reg[c.res].txn.from]
    BY <1>0, <2>2, <2>4
  <2>7. /\ cl' \in [Pid -> Client] /\ cl'[p].op = c.op /\ cl'[p].res = c.res
        /\ cl'[p].kind = c.kind /\ cl'[p].n = c.n
        /\ cl'[p].ph \in {"idle", "extend"}
        /\ cl'[p].ph = "extend" => cl'[p].seen = reg[c.res].txn.from
    <3>1. cl'[p] \in Client
      BY ZenonT(60), <2>2, <2>5, <2>6 DEF Client, Phase
    <3>2. cl' \in [Pid -> Client]
      BY <1>0, <2>2, <2>4, <3>1
    <3> QED BY <2>2, <2>6, <3>2 DEF Client
  <2>8. Alone(p)
    <3>1. c.op \in Nat
      BY <2>2 DEF Client
    <3> QED BY <1>0, <2>4, <2>7, <3>1, SameRows DEF Alone, durable
  <2>9. /\ todo' \in Seq(Frame) /\ StackOK' /\ CallsOK' /\ NoNewRetiring
        /\ HeadOK' /\ QueueOK'
    BY <2>0, <2>1, <2>4, <2>8, Answered DEF Calls, txns
  <2>10. StateOK'
    BY <1>0, <2>4, <2>7, <2>9 DEF StateOK, durable, index, txns
  <2>11. MakeOK' /\ TxnOK' /\ \A q \in Pid \ {p} : WriterIs(q)'
    BY <2>2, <2>4, <2>7, <2>8, <2>10, AloneKept
  <2>12. WriterIs(p)'
    BY <2>2, <2>3, <2>4, <2>7 DEF InFlight, durable, WriterIs
  <2>13. WriterOK'
    BY <2>11, <2>12 DEF WriterOK
  <2>14. SizeCovered' /\ RowsKept
    BY <1>0, <2>4, SameCells, SameRows DEF durable
  <2>15. RetiringOK' /\ CellsOK'
    BY <2>1, <2>4, <2>9, <2>14, StaysSettled DEF Cleanup, durable, RowsKept
  <2> QED BY <2>9, <2>10, <2>11, <2>13, <2>14, <2>15 DEF Inv
<1>2. CASE ReplyStep
  <2>1. up /\ todo # <<>> /\ f \in Frame /\ f.op = "reply"
    BY <1>2, HeadFrame DEF ReplyStep
  <2>0. PICK p \in Pid : p = f.pid
    BY <2>1, FrameFields
  <2> DEFINE c == cl[p]
  <2>2. c \in Client /\ c.ph \in {"begin", "queued", "commit", "abort"}
    <3>1. 1 \in 1 .. Len(todo) /\ f = todo[1]
      BY <1>0, <2>1
    <3> QED BY <1>0, <2>0, <2>1, <3>1 DEF CallsOK, Calls
  <2>3. c.res \in Memory /\ maker[c.res] # None
    BY <1>0, <2>2 DEF WriterOK, WriterIs
  <2>4. /\ UNCHANGED <<reg, caps, used, bytes, arena, up, index, txns, alive, builds,
                       minted, maker, fate, crashes>>
        /\ Then(<<>>)
        /\ \/ UNCHANGED <<chunks, size>>
           \/ /\ c.res \notin Observable
              /\ chunks' = [chunks EXCEPT ![c.res] = c.tup]
              /\ size' = [size EXCEPT ![c.res] = c.seen + c.n]
    BY <1>2, <2>0 DEF ReplyStep
  <2>5. PICK ph \in {"idle", "look", "ack"}, a \in {"none", "ok", "failed", "raised"} :
          cl' = [cl EXCEPT ![p] = [c EXCEPT !.ph = ph, !.ans = a]]
    <3> DEFINE ph == CASE f.res \in {"refused", "gone"} -> "idle"
                       [] f.res \in {"covered", "changed"} -> "look"
                       [] f.res \in {"done", "ok", "failed", "raised"} -> "ack"
               a == IF f.res = "ok" THEN "ok" ELSE IF f.res = "raised" THEN "raised"
                    ELSE "failed"
    <3>1. cl' = [cl EXCEPT ![p] = IF p \notin alive THEN [c EXCEPT !.ph = "idle"]
                                  ELSE [c EXCEPT !.ph = ph, !.ans = a]]
      BY SMTT(40), <1>2, <2>0 DEF ReplyStep
    <3>2. ph \in {"idle", "look", "ack"} /\ a \in {"none", "ok", "failed", "raised"}
      BY <2>1, FrameFields
    <3>3. [c EXCEPT !.ph = "idle"] = [c EXCEPT !.ph = "idle", !.ans = c.ans]
          /\ c.ans \in {"none", "ok", "failed", "raised"}
      BY <2>2 DEF Client
    <3> HIDE DEF ph, a
    <3> QED BY <3>1, <3>2, <3>3
  <2>6. cl'[p] = [c EXCEPT !.ph = ph, !.ans = a]
    BY <1>0, <2>5
  <2>7. /\ cl' \in [Pid -> Client] /\ cl'[p].op = c.op /\ cl'[p].res = c.res
        /\ cl'[p].ph \in {"idle", "look", "ack"}
    <3>1. cl'[p] \in Client
      BY <2>2, <2>6 DEF Client, Phase
    <3>2. cl' \in [Pid -> Client]
      BY <1>0, <2>5, <2>6, <3>1
    <3> QED BY <2>2, <2>6, <3>2 DEF Client
  <2>8. Alone(p)
    <3>1. c.op \in Nat
      BY <2>2 DEF Client
    <3> QED BY <1>0, <2>4, <2>5, <2>7, <3>1, SameRows DEF Alone
  <2>9. /\ todo' \in Seq(Frame) /\ StackOK' /\ CallsOK' /\ NoNewRetiring
        /\ HeadOK' /\ QueueOK'
    BY <2>0, <2>1, <2>4, <2>8, Answered DEF Calls, txns
  <2>10. StateOK'
    <3>1. c.tup \in Nat /\ c.seen + c.n \in Nat
      BY <2>2 DEF Client
    <3>2. chunks' \in [Memory -> Nat \cup {Absent}] /\ size' \in [Memory -> Nat]
      <4>1. chunks \in [Memory -> Nat \cup {Absent}] /\ size \in [Memory -> Nat]
        BY <1>0 DEF StateOK
      <4>2. /\ [chunks EXCEPT ![c.res] = c.tup] \in [Memory -> Nat \cup {Absent}]
            /\ [size EXCEPT ![c.res] = c.seen + c.n] \in [Memory -> Nat]
        BY <2>3, <3>1, <4>1
      <4> QED BY <2>4, <4>1, <4>2
    <3> QED BY <1>0, <2>4, <2>7, <2>9, <3>2 DEF StateOK, index, txns
  <2>11. MakeOK' /\ TxnOK' /\ \A q \in Pid \ {p} : WriterIs(q)'
    BY <2>2, <2>4, <2>7, <2>8, <2>10, AloneKept
  <2>12. WriterIs(p)'
    BY <2>3, <2>4, <2>7 DEF WriterIs
  <2>13. WriterOK'
    BY <2>11, <2>12 DEF WriterOK
  <2>14. \A m \in Observable : chunks'[m] = chunks[m] /\ size'[m] = size[m]
    BY <1>0, <2>4, ConstantsOK DEF StateOK
  <2>15. SizeCovered'
    BY <1>0, <2>4, <2>14 DEF SizeCovered
  <2>16. RetiringOK' /\ CellsOK'
    BY <2>1, <2>4, <2>9, <2>14, StaysSettled DEF Cleanup
  <2> QED BY <2>9, <2>10, <2>11, <2>13, <2>15, <2>16 DEF Inv
<1>3. CASE Reserved
  <2>1. up /\ todo # <<>> /\ f \in Frame /\ f.op = "reserved"
    BY <1>3, HeadFrame DEF Reserved
  <2>0. PICK p \in Pid : p = f.pid
    BY <2>1, FrameFields
  <2> DEFINE c == cl[p]
             m == f.res
  <2>2. /\ c \in Client /\ c.ph = "idle" /\ m \in Memory /\ m \in minted /\ maker[m] = None
        /\ f.tok \in Token
        /\ \A q \in Pid : cl[q].ph = "create" => cl[q].res # m
    BY <1>0, <2>0, <2>1, FrameFields DEF HeadOK
  <2>3. /\ UNCHANGED <<durable, up, index, txns, alive, builds, minted, maker, fate, crashes>>
        /\ Then(<<>>)
        /\ \/ cl' = cl
           \/ cl' = [cl EXCEPT ![p] = [c EXCEPT !.ph = "create", !.res = m, !.tok = f.tok, !.ans = "none"]]
    BY <1>3, <2>0 DEF Reserved
  <2>4. SizeCovered' /\ RowsKept
    BY <1>0, <2>3, SameCells, SameRows DEF durable
  <2>5. CASE cl' = cl
    <3>1. todo' \in Seq(Frame) /\ StackOK' /\ CallsOK' /\ NoNewRetiring /\ HeadOK'
      BY <2>1, <2>3, <2>5, PushNone, PopTail DEF txns
    <3>2. StateOK'
      BY <1>0, <2>3, <2>5, <3>1 DEF StateOK, durable, index, txns
    <3> QED BY <2>1, <2>3, <2>4, <2>5, <3>1, <3>2, Calm DEF Cleanup, durable, txns
  <2>6. CASE cl' = [cl EXCEPT ![p] = [c EXCEPT !.ph = "create", !.res = m, !.tok = f.tok, !.ans = "none"]]
    <3>1. /\ cl' \in [Pid -> Client] /\ cl'[p].ph = "create" /\ cl'[p].res = m
          /\ cl'[p].tok = f.tok /\ cl'[p].op = c.op
          /\ \A q \in Pid \ {p} : cl'[q] = cl[q]
      <4>1. [c EXCEPT !.ph = "create", !.res = m, !.tok = f.tok, !.ans = "none"] \in Client
        BY <1>0, <2>2 DEF Client, Phase
      <4>2. cl' \in [Pid -> Client]
        BY <1>0, <2>6, <4>1
      <4> QED BY <1>0, <2>2, <2>6, <4>2 DEF Client
    <3>2. \A i \in 2 .. Len(todo) : todo[i].op \in Calls =>
               /\ cl'[todo[i].pid].ph = cl[todo[i].pid].ph
               /\ \A x \in Memory : \A k \in 1 .. Len(queued'[x]) :
                    queued'[x][k] # todo[i].pid
      <4> SUFFICES ASSUME NEW i \in 2 .. Len(todo), todo[i].op \in Calls
                   PROVE  /\ cl'[todo[i].pid].ph = cl[todo[i].pid].ph
                          /\ \A x \in Memory : \A k \in 1 .. Len(queued'[x]) :
                               queued'[x][k] # todo[i].pid
        OBVIOUS
      <4>1. i \in 1 .. Len(todo) /\ todo[i] \in Frame
        BY <1>0
      <4>2. todo[i].pid \in Pid
        BY <4>1, FrameFields DEF Calls
      <4>3. /\ cl[todo[i].pid].ph \in {"begin", "queued", "commit", "abort"}
            /\ \A x \in Memory : \A k \in 1 .. Len(queued[x]) : queued[x][k] # todo[i].pid
        BY <1>0, <4>1 DEF CallsOK
      <4>4. todo[i].pid # p
        BY <2>2, <4>3
      <4> QED BY <2>3, <3>1, <4>2, <4>3, <4>4 DEF txns
    <3>3. /\ todo' \in Seq(Frame) /\ StackOK' /\ CallsOK' /\ NoNewRetiring
          /\ todo' # <<>> => Head(todo').op \in Deferred
      BY <1>0, <2>1, <2>3, <3>2, PushNone, ThenGen
    <3>4. HeadOK'
      BY <3>3, DeferredHead
    <3>5. StateOK'
      BY <1>0, <2>3, <3>1, <3>3 DEF StateOK, durable, index, txns
    <3>6. Alone(p)
      <4>1. c.op \in Nat
        BY <2>2 DEF Client
      <4> QED BY <2>4, <3>1, <4>1 DEF Alone
    <3>7. QueueOK'
      BY <2>2, <2>3, <3>6, NotQueued DEF Inv, QueueOK, txns
    <3>8. MakeOK'
      BY <2>2, <2>3, <3>1 DEF Inv, MakeOK
    <3>9. TxnOK' /\ WriterOK'
      <4>1. TxnOK' /\ \A q \in Pid \ {p} : WriterIs(q)'
        BY <2>3, <3>5, <3>6, AloneKeptTxn
      <4>2. WriterIs(p)'
        BY <3>1 DEF WriterIs
      <4> QED BY <4>1, <4>2 DEF WriterOK
    <3>10. RetiringOK' /\ CellsOK'
      BY <2>1, <2>3, <2>4, <3>3, StaysSettled DEF Cleanup, durable, RowsKept
    <3> QED BY <2>4, <3>3, <3>4, <3>5, <3>7, <3>8, <3>9, <3>10 DEF Inv
  <2> QED BY <2>3, <2>5, <2>6
<1>4. CASE TxnRow
  <2>1. up /\ todo # <<>> /\ f \in Frame /\ f.op = "txn"
    BY <1>4, HeadFrame DEF TxnRow
  <2>0. PICK p \in Pid : p = f.pid
    BY <2>1, FrameFields
  <2> DEFINE c == cl[p]
             r == c.res
             t == NewTxn(p)
             w == Started(p)
  <2>2. /\ c \in Client /\ c.ph \in {"begin", "queued"}
        /\ reg[r] # None /\ reg[r].txn = None
    BY <1>0, <2>0, <2>1 DEF HeadOK
  <2>3. /\ r \in Memory /\ r \in Res /\ maker[r] # None /\ reg[r] \in Row
    <3>1. r \in Memory /\ maker[r] # None
      BY <1>0, <2>2 DEF WriterOK, WriterIs
    <3> QED BY <1>0, <2>2, <3>1
  <2>4. /\ UNCHANGED <<caps, used, bytes, cells, up, held, images, queued, callers, crashes>>
        /\ Then(Grant(p)) /\ watch_writer(p, r)
        /\ reg' = [reg EXCEPT ![r] = w]
    <3>1. /\ UNCHANGED <<caps, used, bytes, cells, up, held, images, queued, callers, crashes>>
          /\ Then(Grant(p)) /\ watch_writer(p, r)
      BY <1>4, <2>0 DEF TxnRow
    <3>2. reg' = [reg EXCEPT ![r] = w]
      BY <1>4, <2>0 DEF TxnRow
    <3> QED BY <3>1, <3>2
  <2>5. /\ c.op \in Nat /\ c.kind \in {"grow", "arena"} /\ c.n \in Nat /\ c.seen \in Nat
        /\ reg[r].pages \in Nat /\ reg[r].growth \in Int /\ reg[r].arena \in Int
        /\ reg[r].done \in [Pid -> Outcome \cup {None}]
    BY <2>2, <2>3, RowFields DEF Client
  <2>6. Cost(p) \in Int
    <3>1. ImagePages[r] \in Nat /\ ChunkPages[r] \in Nat \ {0}
      BY <2>3, ConstantsOK
    <3>2. /\ growth_pages(reg[r].pages + c.n, ImagePages[r], ChunkPages[r]) \in Nat
          /\ growth_pages(reg[r].pages, ImagePages[r], ChunkPages[r]) \in Nat
      <4>1. reg[r].pages + c.n \in Nat
        BY <2>5
      <4> QED BY <2>5, <3>1, <4>1, GrowthNat
    <3>3. arena_cost(c.seen, c.n) \in Int
      BY <2>5, ArenaInt
    <3> QED BY <3>2, <3>3 DEF Cost
  <2>7. /\ t \in Txn /\ t # None /\ t.op = c.op /\ t.pid = p /\ t.kind = c.kind
        /\ t.kind = "grow" => /\ t.to = t.from + c.n
                              /\ t.ct = chunk_count(t.to, ChunkPages[r])
    <3> DEFINE grow == c.kind = "grow"
               from == IF grow THEN reg[r].pages ELSE c.seen
               to == IF grow THEN from + c.n ELSE c.n
               ct == IF grow THEN chunk_count(to, ChunkPages[r]) ELSE c.n
    <3>1. from \in Nat /\ to \in Nat
      BY <2>5
    <3>2. ct \in Nat
      BY <2>3, <2>5, <3>1, ChunkCountNat, ConstantsOK
    <3>3. t = [op |-> c.op, pid |-> p, kind |-> c.kind, from |-> from, to |-> to,
               pd |-> Cost(p), ct |-> ct]
      BY DEF NewTxn
    <3>4. t \in Txn
      <4> HIDE DEF from, to, ct
      <4> QED BY <2>5, <2>6, <3>1, <3>2, <3>3 DEF Txn
    <3>5. t # None
      BY <3>4, ConstantsOK
    <3> QED BY <3>3, <3>4, <3>5
  <2>8. w \in Row /\ w.txn = t /\ w # None
    <3> DEFINE grow == t.kind = "grow"
               d == [reg[r].done EXCEPT ![p] = None]
               g == IF grow THEN reg[r].growth + t.pd ELSE reg[r].growth
               a == IF grow THEN reg[r].arena ELSE reg[r].arena + t.pd
               n == IF grow THEN t.to ELSE reg[r].pages
    <3>1. d \in [Pid -> Outcome \cup {None}] /\ g \in Int /\ a \in Int /\ n \in Nat
      BY <2>5, <2>7 DEF Txn
    <3>2. w = [reg[r] EXCEPT !.pages = n, !.growth = g, !.arena = a, !.txn = t, !.done = d]
      BY <2>3 DEF Row, Started
    <3> HIDE DEF d, g, a, n, t, w
    <3>3. w \in Row /\ w.txn = t
      BY <2>3, <2>7, <3>1, <3>2 DEF Row
    <3> QED BY <3>3, RowFields
  <2>9. /\ reg' \in [Res -> Row \cup {None}] /\ reg'[r] = w
        /\ \A x \in Res \ {r} : reg'[x] = reg[x]
    <3> HIDE DEF w
    <3> QED BY <1>0, <2>3, <2>4, <2>8
  <2> DEFINE g == [op |-> "grant", pid |-> p]
  <2>10. g \in Frame /\ g.op = "grant" /\ g.pid = p
    BY DEF Frame
  <2>11. /\ todo' \in Seq(Frame) /\ Len(todo') = Len(todo) /\ todo'[1] = g
         /\ \A i \in 2 .. Len(todo) : todo'[i] = todo[i]
         /\ todo' # <<>> /\ Head(todo') = g
    <3>1. <<g>> \in Seq(Frame) /\ Len(<<g>>) = 1 /\ <<g>>[1] = g
      BY <2>10
    <3>2. /\ todo' \in Seq(Frame) /\ Len(todo') = 1 + Len(todo) - 1
          /\ \A i \in 1 .. 1 : todo'[i] = g
          /\ \A i \in 1 + 1 .. 1 + Len(todo) - 1 : todo'[i] = todo[i - 1 + 1]
      BY <1>0, <2>1, <2>4, <3>1, Replaced DEF Then, Grant
    <3>3. Len(todo) \in Nat \ {0}
      BY <1>0, <2>1
    <3>4. \A i \in 2 .. Len(todo) : i \in 1 + 1 .. 1 + Len(todo) - 1 /\ i - 1 + 1 = i
      BY <3>3
    <3>5. \A i \in 2 .. Len(todo) : todo'[i] = todo[i]
      BY <3>2, <3>4
    <3>6. Len(todo') = Len(todo)
      BY <3>2, <3>3
    <3> QED BY <3>2, <3>3, <3>5, <3>6
  <2>12. /\ \A i \in 1 .. Len(todo) : /\ todo'[i].op \in Calls => todo[i].op \in Calls
                                      /\ todo'[i].op \in Calls => todo'[i].pid = todo[i].pid
         /\ StackOK' /\ NoNewRetiring
    <3>1. f = todo[1]
      BY <1>0, <2>1
    <3>2. \A i \in 1 .. Len(todo) : i = 1 \/ i \in 2 .. Len(todo)
      OBVIOUS
    <3> QED BY <1>0, <2>0, <2>1, <2>10, <2>11, <3>1, <3>2 DEF StackOK, NoNewRetiring, Calls
  <2>13. CallsOK'
    <3>0. cl' = cl /\ queued' = queued
      BY <2>4 DEF callers
    <3>1. \A i \in 1 .. Len(todo') : todo'[i].op \in Calls =>
            /\ cl[todo'[i].pid].ph \in {"begin", "queued", "commit", "abort"}
            /\ \A m \in Memory : \A k \in 1 .. Len(queued[m]) :
                 queued[m][k] # todo'[i].pid
      <4> TAKE i \in 1 .. Len(todo')
      <4>1. i \in 1 .. Len(todo)
        BY <2>11
      <4> QED BY <1>0, <2>12, <4>1 DEF CallsOK
    <3>2. \A i, j \in 1 .. Len(todo') :
            todo'[i].op \in Calls /\ todo'[j].op \in Calls /\ i # j =>
                todo'[i].pid # todo'[j].pid
      <4> TAKE i \in 1 .. Len(todo'), j \in 1 .. Len(todo')
      <4>1. i \in 1 .. Len(todo) /\ j \in 1 .. Len(todo)
        BY <2>11
      <4> QED BY <1>0, <2>12, <4>1 DEF CallsOK
    <3> QED BY <3>0, <3>1, <3>2 DEF CallsOK
  <2>14. InFlight(p)' /\ reg'[cl'[p].res].txn = t /\ cl'[p] = c
    <3>1. w.txn.pid = p /\ w.txn.op = c.op
      BY <2>7, <2>8
    <3> HIDE DEF w, t
    <3> QED BY <2>4, <2>7, <2>8, <2>9, <3>1 DEF InFlight, callers
  <2>15. HeadOK'
    BY <2>2, <2>4, <2>10, <2>11, <2>14 DEF HeadOK, callers
  <2>16. QueueOK' /\ MakeOK'
    BY <2>4 DEF Inv, QueueOK, MakeOK, callers
  <2>17. TxnOK'
    <3> SUFFICES ASSUME NEW m \in Memory, reg'[m] # None, reg'[m].txn # None
                 PROVE  /\ maker[m] # None
                        /\ reg'[m].txn.kind = "grow" =>
                             reg'[m].txn.ct = chunk_count(reg'[m].txn.to, ChunkPages[m])
                        /\ reg'[m].txn.op <= cl[reg'[m].txn.pid].op
      BY <2>4 DEF TxnOK, callers
    <3>1. CASE m # r
      BY <1>0, <2>9, <3>1 DEF TxnOK
    <3>2. CASE m = r
      <4>1. reg'[m].txn = t
        <5> HIDE DEF w, t
        <5> QED BY <2>8, <2>9, <3>2
      <4>2. t.kind = "grow" => t.ct = chunk_count(t.to, ChunkPages[r])
        BY <2>7
      <4>3. t.op <= cl[t.pid].op
        BY <2>5, <2>7
      <4> HIDE DEF t
      <4> QED BY <2>3, <3>2, <4>1, <4>2, <4>3
    <3> QED BY <3>1, <3>2
  <2>18. WriterOK'
    <3> SUFFICES ASSUME NEW q \in Pid PROVE WriterIs(q)'
      BY DEF WriterOK
    <3>0. cl' = cl /\ maker' = maker /\ cl \in [Pid -> Client]
      BY <1>0, <2>4 DEF callers
    <3>1. CASE q = p
      <4>1. t.kind = c.kind /\ (c.kind = "grow" => t.to = t.from + c.n)
        BY <2>7
      <4> HIDE DEF t
      <4> QED BY <2>2, <2>3, <2>14, <3>0, <3>1, <4>1 DEF WriterIs
    <3>2. CASE q # p /\ cl[q].res = r
      <4>1. ~InFlight(q)'
        <5>1. w.txn.pid = p
          BY <2>7, <2>8
        <5> HIDE DEF w
        <5> QED BY <2>9, <3>0, <3>2, <5>1 DEF InFlight
      <4>2. WriterIs(q)
        BY <1>0 DEF WriterOK
      <4> QED BY <3>0, <4>1, <4>2 DEF WriterIs
    <3>3. CASE cl[q].res # r
      <4>1. WriterIs(q)
        BY <1>0 DEF WriterOK
      <4>2. cl[q].res \in Memory => reg'[cl[q].res] = reg[cl[q].res]
        BY <1>0, <2>9, <3>3
      <4> QED BY <3>0, <4>1, <4>2 DEF WriterIs, InFlight
    <3> QED BY <3>1, <3>2, <3>3
  <2>19. StateOK'
    <3>1. writers' \in [Pid -> SUBSET Memory]
      BY <1>0, <2>3, <2>4 DEF StateOK, watch_writer
    <3> QED BY <1>0, <2>4, <2>9, <2>11, <3>1 DEF StateOK, cells, callers
  <2>20. SizeCovered'
    BY <1>0, <2>4, SameCells DEF cells, callers
  <2>21. RetiringOK' /\ CellsOK'
    <3>1. \A m \in Memory : reg'[m] # None => reg[m] # None
      BY <1>0, <2>2, <2>9
    <3> QED BY <2>1, <2>4, <2>12, <3>1, StaysSettled DEF Cleanup, cells, callers
  <2> QED BY <2>12, <2>13, <2>15, <2>16, <2>17, <2>18, <2>19, <2>20, <2>21 DEF Inv
<1>5. CASE NextTransaction
  <2>1. up /\ todo # <<>> /\ f \in Frame /\ f.op = "next"
    BY <1>5, HeadFrame DEF NextTransaction
  <2>0. PICK r \in Memory : r = f.res
    BY <2>1, FrameFields
  <2>2. UNCHANGED <<reg, caps, bytes, cells, up, index, writers, callers, crashes>>
    BY <1>5 DEF NextTransaction
  <2>3. SizeCovered' /\ RowsKept
    BY <1>0, <2>2, SameCells, SameRows DEF cells, callers
  <2>4. CASE Then(<<>>) /\ UNCHANGED queued
    <3>1. todo' \in Seq(Frame) /\ StackOK' /\ CallsOK' /\ NoNewRetiring /\ HeadOK'
      BY <2>1, <2>2, <2>4, PushNone, PopTail DEF callers
    <3>2. StateOK'
      BY <1>0, <2>2, <2>4, <3>1 DEF StateOK, cells, index, callers
    <3> QED BY <2>1, <2>2, <2>3, <2>4, <3>1, <3>2, Calm DEF Cleanup, cells, callers
  <2>5. ASSUME reg[r] # None, reg[r].txn = None, queued[r] # <<>>,
               Begin(Head(queued[r]), todo), queued' = [queued EXCEPT ![r] = Tail(@)]
        PROVE  Inv'
    <3>0. /\ queued \in [Memory -> Seq(Pid)] /\ queued[r] \in Seq(Pid) /\ QueueOK
          /\ Head(queued[r]) = queued[r][1] /\ Len(queued[r]) \in Nat \ {0}
          /\ 1 \in 1 .. Len(queued[r])
      BY <1>0, <2>5 DEF StateOK, Inv
    <3>1. PICK p \in Pid : p = Head(queued[r])
      BY <3>0
    <3>2. cl[p].ph = "queued" /\ cl[p].res = r
      BY <3>0, <3>1 DEF QueueOK
    <3>3. PICK g \in Frame :
            /\ todo' = <<g>> \o todo /\ g.op \in Calls /\ g.pid = p
            /\ g.op = "txn" => reg[cl[p].res] # None /\ reg[cl[p].res].txn = None
            /\ g.op = "grant" => InFlight(p)
      BY ZenonT(60), <2>5, <3>1, <3>2, BeginFrame
    <3>4. /\ todo' \in Seq(Frame) /\ Len(todo') = 1 + Len(todo) /\ Len(todo) \in Nat
          /\ todo' # <<>> /\ Head(todo') = g /\ todo'[1] = g
          /\ \A i \in 2 .. 1 + Len(todo) : i - 1 \in 1 .. Len(todo) /\ todo'[i] = todo[i - 1]
      BY <1>0, <3>3, Prepended
    <3>5. /\ queued' \in [Memory -> Seq(Pid)]
          /\ \A m \in Memory \ {r} : queued'[m] = queued[m]
          /\ Len(queued'[r]) = Len(queued[r]) - 1
          /\ \A k \in 1 .. Len(queued'[r]) : /\ k + 1 \in 1 .. Len(queued[r])
                                             /\ queued'[r][k] = queued[r][k + 1]
      <4>1. /\ Tail(queued[r]) \in Seq(Pid) /\ Len(Tail(queued[r])) = Len(queued[r]) - 1
            /\ \A k \in 1 .. Len(queued[r]) - 1 : Tail(queued[r])[k] = queued[r][k + 1]
        BY <3>0
      <4>2. queued'[r] = Tail(queued[r]) /\ queued' \in [Memory -> Seq(Pid)]
        BY <2>5, <3>0, <4>1
      <4>3. \A k \in 1 .. Len(queued[r]) - 1 : k + 1 \in 1 .. Len(queued[r])
        BY <3>0
      <4> QED BY <2>5, <3>0, <4>1, <4>2, <4>3
    <3>6. \A m \in Memory : \A k \in 1 .. Len(queued'[m]) :
            /\ queued'[m][k] # p
            /\ \E l \in 1 .. Len(queued[m]) : queued'[m][k] = queued[m][l]
      <4> SUFFICES ASSUME NEW m \in Memory, NEW k \in 1 .. Len(queued'[m])
                   PROVE  /\ queued'[m][k] # p
                          /\ \E l \in 1 .. Len(queued[m]) : queued'[m][k] = queued[m][l]
        OBVIOUS
      <4>1. CASE m # r
        BY <3>0, <3>2, <3>5, <4>1 DEF QueueOK
      <4>2. CASE m = r
        <5>1. /\ k \in 1 .. Len(queued'[r]) /\ k + 1 \in 1 .. Len(queued[r])
              /\ queued'[r][k] = queued[r][k + 1] /\ k + 1 # 1
          BY <3>5, <4>2
        <5> QED BY <3>0, <3>1, <4>2, <5>1 DEF QueueOK
      <4> QED BY <4>1, <4>2
    <3>7. QueueOK'
      <4> SUFFICES ASSUME NEW m \in Memory, NEW k \in 1 .. Len(queued'[m])
                   PROVE  /\ cl[queued'[m][k]].ph = "queued" /\ cl[queued'[m][k]].res = m
                          /\ \A l \in 1 .. Len(queued'[m]) :
                               queued'[m][k] = queued'[m][l] => k = l
        BY <2>2 DEF QueueOK, callers
      <4>1. CASE m # r
        BY <3>0, <3>5, <4>1 DEF QueueOK
      <4>2. CASE m = r
        <5>1. \A l \in 1 .. Len(queued'[r]) : /\ l + 1 \in 1 .. Len(queued[r])
                                              /\ queued'[r][l] = queued[r][l + 1]
          BY <3>5
        <5>2. \A l \in 1 .. Len(queued'[m]) : k + 1 = l + 1 => k = l
          BY <4>2
        <5>3. cl[queued[r][k + 1]].ph = "queued" /\ cl[queued[r][k + 1]].res = r
          BY <3>0, <4>2, <5>1 DEF QueueOK
        <5>4. \A x, y \in 1 .. Len(queued[r]) : queued[r][x] = queued[r][y] => x = y
          BY <3>0 DEF QueueOK
        <5>5. \A l \in 1 .. Len(queued'[m]) : queued'[m][k] = queued'[m][l] => k + 1 = l + 1
          BY <4>2, <5>1, <5>4
        <5> QED BY <4>2, <5>1, <5>2, <5>3, <5>5
      <4> QED BY <4>1, <4>2
    <3>8. /\ \A i \in 1 .. Len(todo) : todo[i].op \in Calls => todo[i].pid # p
          /\ todo[1].op \in Deferred
      <4>1. \A i \in 1 .. Len(todo) : todo[i].op \in Calls => todo[i].pid # p
        BY <1>0, <3>0, <3>1 DEF CallsOK
      <4>2. Head(todo) = todo[1]
        BY <1>0, <2>1
      <4> QED BY <2>1, <4>1, <4>2 DEF Deferred
    <3>9. StackOK' /\ NoNewRetiring
      <4>1. \A i \in 1 .. Len(todo) : i = 1 \/ i \in 2 .. Len(todo)
        BY <3>4
      <4>2. \A i \in 2 .. Len(todo') : todo'[i].op \in Deferred
        BY <1>0, <3>4, <3>8, <4>1 DEF StackOK
      <4>3. \A i \in 1 .. Len(todo') : i = 1 \/ i \in 2 .. 1 + Len(todo)
        BY <3>4
      <4>4. g.op # "retiring"
        BY <3>3 DEF Calls
      <4> QED BY <3>4, <4>2, <4>3, <4>4 DEF StackOK, NoNewRetiring
    <3>10. CallsOK'
      <4>0. \A i \in 1 .. Len(todo') : i = 1 \/ i \in 2 .. 1 + Len(todo)
        BY <3>4
      <4>1. ASSUME NEW i \in 1 .. Len(todo'), todo'[i].op \in Calls
            PROVE  /\ cl[todo'[i].pid].ph \in {"begin", "queued", "commit", "abort"}
                   /\ \A m \in Memory : \A k \in 1 .. Len(queued'[m]) :
                        queued'[m][k] # todo'[i].pid
        <5>1. CASE i = 1
          BY <3>2, <3>3, <3>4, <3>6, <5>1
        <5>2. CASE i \in 2 .. 1 + Len(todo)
          <6>1. PICK j \in 1 .. Len(todo) : todo'[i] = todo[j]
            BY <3>4, <5>2
          <6>2. /\ cl[todo[j].pid].ph \in {"begin", "queued", "commit", "abort"}
                /\ \A m \in Memory : \A l \in 1 .. Len(queued[m]) : queued[m][l] # todo[j].pid
            BY <1>0, <4>1, <6>1 DEF CallsOK
          <6> QED BY <3>6, <6>1, <6>2
        <5> QED BY <4>0, <5>1, <5>2
      <4>2. ASSUME NEW i \in 1 .. Len(todo'), NEW j \in 1 .. Len(todo'),
                   todo'[i].op \in Calls, todo'[j].op \in Calls, i # j
            PROVE  todo'[i].pid # todo'[j].pid
        <5>1. CASE i = 1 /\ j \in 2 .. 1 + Len(todo)
          BY <3>3, <3>4, <3>8, <4>2, <5>1
        <5>2. CASE j = 1 /\ i \in 2 .. 1 + Len(todo)
          BY <3>3, <3>4, <3>8, <4>2, <5>2
        <5>3. CASE i \in 2 .. 1 + Len(todo) /\ j \in 2 .. 1 + Len(todo)
          <6>1. i - 1 # j - 1
            BY <4>2, <5>3
          <6> QED BY SMTT(40), <1>0, <3>4, <4>2, <5>3, <6>1 DEF CallsOK
        <5> QED BY <4>0, <4>2, <5>1, <5>2, <5>3
      <4> QED BY <2>2, <4>1, <4>2 DEF CallsOK, callers
    <3>11. HeadOK'
      <4>1. reg' = reg /\ cl' = cl /\ InFlight(p)' = InFlight(p)
        BY <2>2 DEF callers, InFlight
      <4> QED BY <3>2, <3>3, <3>4, <4>1 DEF HeadOK, Calls, InFlight
    <3>12. MakeOK' /\ TxnOK' /\ WriterOK'
      <4>1. MakeOK' /\ TxnOK'
        BY <2>2 DEF Inv, MakeOK, TxnOK, callers
      <4>2. WriterOK'
        BY <1>0, <2>2 DEF WriterOK, WriterIs, InFlight, callers
      <4> QED BY <4>1, <4>2
    <3>13. StateOK'
      BY <1>0, <2>2, <3>4, <3>5 DEF StateOK, cells, index, callers
    <3>14. RetiringOK' /\ CellsOK'
      BY <2>1, <2>2, <2>3, <3>9, StaysSettled DEF Cleanup, cells, callers, RowsKept
    <3> QED BY <2>3, <3>7, <3>9, <3>10, <3>11, <3>12, <3>13, <3>14 DEF Inv
  <2>6. \/ Then(<<>>) /\ UNCHANGED queued
        \/ /\ reg[r] # None /\ reg[r].txn = None /\ queued[r] # <<>>
           /\ Begin(Head(queued[r]), todo) /\ queued' = [queued EXCEPT ![r] = Tail(@)]
    BY <1>5, <2>0 DEF NextTransaction
  <2> QED BY <2>4, <2>5, <2>6
<1> QED BY <1>1, <1>2, <1>3, <1>4, <1>5

-----------------------------------------------------------------------------
(* The messages in the mailbox.                                            *)

\* A handler that starts with an answer owed to p, who is in no queue.
LEMMA OweOne ==
    ASSUME Inv, NEW p \in Pid, cl[p].ph \in {"begin", "commit", "abort"},
           UNCHANGED <<cl, queued>>,
           NEW g \in Frame, g.op \in Calls, g.pid = p, todo' = <<g>>
    PROVE  /\ todo' \in Seq(Frame) /\ StackOK' /\ CallsOK' /\ NoNewRetiring
           /\ todo' # <<>> /\ Head(todo') = g
<1>1. /\ todo' \in Seq(Frame) /\ Len(todo') = 1 /\ todo'[1] = g
      /\ todo' # <<>> /\ Head(todo') = g
  OBVIOUS
<1>2. \A m \in Memory : \A k \in 1 .. Len(queued[m]) : queued[m][k] # p
  BY DEF Inv, QueueOK
<1>3. \A i \in 1 .. Len(todo') : i = 1
  BY <1>1
<1>4. StackOK' /\ NoNewRetiring
  BY <1>1, <1>3 DEF StackOK, NoNewRetiring, Calls
<1>5. CallsOK'
  BY <1>1, <1>2, <1>3 DEF CallsOK
<1> QED BY <1>1, <1>4, <1>5

\* And one that has something else to do before that answer.
LEMMA OweAfter ==
    ASSUME Inv, NEW p \in Pid, cl[p].ph \in {"begin", "commit", "abort"},
           UNCHANGED <<cl, queued>>,
           NEW g \in Frame, g.op = "reply", g.pid = p,
           NEW h \in Frame, h.op \notin Calls \cup {"retiring"}, todo' = <<h>> \o <<g>>
    PROVE  /\ todo' \in Seq(Frame) /\ StackOK' /\ CallsOK' /\ NoNewRetiring
           /\ todo' # <<>> /\ Head(todo') = h
<1>0. <<g>> \in Seq(Frame) /\ Len(<<g>>) = 1 /\ <<g>>[1] = g
  OBVIOUS
<1>1. /\ todo' \in Seq(Frame) /\ Len(todo') = 2 /\ todo'[1] = h
      /\ todo' # <<>> /\ Head(todo') = h
      /\ \A i \in 2 .. 2 : todo'[i] = <<g>>[i - 1]
  BY <1>0, Prepended
<1>6. todo'[2] = g
  BY <1>0, <1>1
<1>2. \A m \in Memory : \A k \in 1 .. Len(queued[m]) : queued[m][k] # p
  BY DEF Inv, QueueOK
<1>3. \A i \in 1 .. Len(todo') : i = 1 \/ i = 2
  BY <1>1
<1>7. \A i \in 2 .. Len(todo') : i = 2
  BY <1>1
<1>4. StackOK' /\ NoNewRetiring
  BY <1>1, <1>3, <1>6, <1>7 DEF StackOK, NoNewRetiring, Deferred
<1>5. CallsOK'
  <2>1. \A i \in 1 .. Len(todo') : todo'[i].op \in Calls => i = 2
    BY <1>1, <1>3
  <2> QED BY <1>2, <1>6, <2>1 DEF CallsOK
<1> QED BY <1>1, <1>4, <1>5

\* The outcome kept for an operation is forgotten, or was not kept.
LEMMA Forgotten ==
    ASSUME Inv, NEW p \in Pid, cl[p].res \in Memory, ForgetOutcome(p)
    PROVE  /\ reg' \in [Res -> Row \cup {None}] /\ RowsKept
           /\ writers' \in [Pid -> SUBSET Memory]
<1> DEFINE r == cl[p].res
           d == [reg[r].done EXCEPT ![p] = None]
           w == [reg[r] EXCEPT !.done = d]
<1>0. /\ reg \in [Res -> Row \cup {None}] /\ writers \in [Pid -> SUBSET Memory]
      /\ r \in Res
  BY DEF Inv, StateOK, Res
<1>1. \/ UNCHANGED reg
      \/ reg[r] # None /\ reg' = [reg EXCEPT ![r] = w]
  BY DEF ForgetOutcome
<1>2. UNCHANGED writers \/ writers' = [writers EXCEPT ![p] = @ \ {r}]
  BY DEF ForgetOutcome, unwatch_writer
<1>3. writers' \in [Pid -> SUBSET Memory]
  BY <1>0, <1>2
<1>4. CASE UNCHANGED reg
  BY <1>0, <1>3, <1>4, SameRows
<1>5. CASE reg[r] # None /\ reg' = [reg EXCEPT ![r] = w]
  <2>1. reg[r] \in Row /\ reg[r].done \in [Pid -> Outcome \cup {None}]
    <3>1. reg[r] \in Row
      BY <1>0, <1>5
    <3> QED BY <3>1, RowFields
  <2>2. d \in [Pid -> Outcome \cup {None}]
    BY <2>1
  <2>3. w \in Row /\ w.txn = reg[r].txn
    <3> HIDE DEF d
    <3> QED BY ZenonT(60), <2>1, <2>2, RowFields
  <2> HIDE DEF w
  <2> QED BY <1>0, <1>3, <1>5, <2>3, RowStep
<1> QED BY <1>1, <1>4, <1>5

\* A message from a caller is taken.
LEMMA HandleInv ==
    ASSUME Inv, NEW p \in Pid, Handle(p) PROVE Inv'
<1> DEFINE c == cl[p]
           r == c.res
<1>0. /\ StateOK /\ SizeCovered /\ TxnOK /\ WriterOK /\ QueueOK /\ MakeOK
      /\ reg \in [Res -> Row \cup {None}] /\ cl \in [Pid -> Client]
      /\ Memory \subseteq Res /\ WriterIs(p) /\ c \in Client
      /\ queued \in [Memory -> Seq(Pid)]
  BY DEF Inv, StateOK, Res, WriterOK
<1>1. CASE HandleBegin(p)
  <2>1. up /\ todo = <<>> /\ c.ph = "begin" /\ Begin(p, <<>>)
    BY <1>1 DEF HandleBegin, Idle
  <2>2. UNCHANGED <<reg, caps, bytes, cells, up, index, writers, alive, builds,
                    minted, maker, fate, crashes>>
    BY <1>1 DEF HandleBegin
  <2>3. r \in Memory /\ maker[r] # None
    BY <1>0, <2>1 DEF WriterIs
  <2>4. SizeCovered' /\ RowsKept
    BY <1>0, <2>2, SameCells, SameRows DEF cells
  <2>5. CASE transaction(p) # "queue"
    <3>1. UNCHANGED <<queued, cl>>
      BY <1>1, <2>5 DEF HandleBegin
    <3>2. PICK g \in Frame :
             /\ todo' = <<g>> \o <<>> /\ g.op \in Calls /\ g.pid = p
             /\ g.op = "txn" => reg[r] # None /\ reg[r].txn = None
             /\ g.op = "grant" => InFlight(p)
      BY <2>1, <2>5, BeginFrame
    <3>3. todo' = <<g>>
      BY <3>2
    <3>4. /\ todo' \in Seq(Frame) /\ StackOK' /\ CallsOK' /\ NoNewRetiring
          /\ todo' # <<>> /\ Head(todo') = g
      BY <2>1, <3>1, <3>2, <3>3, OweOne
    <3>5. HeadOK'
      BY <2>1, <2>2, <3>1, <3>2, <3>4 DEF HeadOK, Calls, InFlight
    <3>6. StateOK'
      BY <1>0, <2>2, <3>1, <3>4 DEF StateOK, cells, index
    <3> QED BY <2>1, <2>2, <2>4, <3>1, <3>4, <3>5, <3>6, Calm DEF cells
  <2>6. CASE transaction(p) = "queue"
    <3>1. /\ queued' = [queued EXCEPT ![r] = Append(@, p)]
          /\ cl' = [cl EXCEPT ![p].ph = "queued"]
      BY <1>1, <2>6 DEF HandleBegin
    <3>2. todo' = <<>>
      BY <2>1, <2>6, BeginFrame
    <3>3. todo' \in Seq(Frame) /\ StackOK' /\ CallsOK' /\ NoNewRetiring /\ HeadOK'
      BY <3>2, EmptyOK
    <3>4. /\ cl' \in [Pid -> Client] /\ cl'[p] = [c EXCEPT !.ph = "queued"]
          /\ \A q \in Pid \ {p} : cl'[q] = cl[q]
          /\ cl'[p].ph = "queued" /\ cl'[p].res = r /\ cl'[p].op = c.op /\ c.op \in Nat
      <4>1. [c EXCEPT !.ph = "queued"] \in Client
        BY <1>0 DEF Client, Phase
      <4> QED BY <1>0, <3>1, <4>1 DEF Client
    <3>5. /\ queued' \in [Memory -> Seq(Pid)]
          /\ \A m \in Memory \ {r} : queued'[m] = queued[m]
          /\ Len(queued'[r]) = Len(queued[r]) + 1 /\ Len(queued[r]) \in Nat
          /\ queued'[r][Len(queued[r]) + 1] = p
          /\ \A k \in 1 .. Len(queued[r]) : queued'[r][k] = queued[r][k]
      <4>1. /\ Append(queued[r], p) \in Seq(Pid) /\ Len(queued[r]) \in Nat
            /\ Len(Append(queued[r], p)) = Len(queued[r]) + 1
            /\ Append(queued[r], p)[Len(queued[r]) + 1] = p
            /\ \A k \in 1 .. Len(queued[r]) : Append(queued[r], p)[k] = queued[r][k]
        BY <1>0, <2>3
      <4>2. queued'[r] = Append(queued[r], p) /\ queued' \in [Memory -> Seq(Pid)]
        BY <1>0, <2>3, <3>1, <4>1
      <4> QED BY <1>0, <3>1, <4>1, <4>2
    <3>6. \A m \in Memory : \A k \in 1 .. Len(queued[m]) :
             queued[m][k] \in Pid /\ queued[m][k] # p
      BY <1>0, <2>1 DEF QueueOK
    <3>7. QueueOK'
      <4> SUFFICES ASSUME NEW m \in Memory, NEW k \in 1 .. Len(queued'[m])
                   PROVE  /\ cl'[queued'[m][k]].ph = "queued" /\ cl'[queued'[m][k]].res = m
                          /\ \A l \in 1 .. Len(queued'[m]) :
                               queued'[m][k] = queued'[m][l] => k = l
        BY DEF QueueOK
      <4>1. CASE m # r
        BY <1>0, <3>4, <3>5, <3>6, <4>1 DEF QueueOK
      <4>2. CASE m = r
        <5>1. \A l \in 1 .. Len(queued'[r]) :
                 l = Len(queued[r]) + 1 \/ l \in 1 .. Len(queued[r])
          BY <3>5
        <5>2. \A l \in 1 .. Len(queued[r]) :
                 /\ cl[queued[r][l]].ph = "queued" /\ cl[queued[r][l]].res = r
                 /\ \A x \in 1 .. Len(queued[r]) : queued[r][l] = queued[r][x] => l = x
          BY <1>0, <2>3 DEF QueueOK
        <5>3. CASE k = Len(queued[r]) + 1
          <6>1. queued'[m][k] = p
            BY <3>5, <4>2, <5>3
          <6>2. \A l \in 1 .. Len(queued'[r]) : l \in 1 .. Len(queued[r]) => queued'[r][l] # p
            BY <2>3, <3>5, <3>6
          <6> QED BY <3>4, <4>2, <5>1, <5>3, <6>1, <6>2
        <5>4. CASE k \in 1 .. Len(queued[r])
          <6>1. queued'[m][k] = queued[r][k] /\ queued[r][k] \in Pid \ {p}
            BY <2>3, <3>5, <3>6, <4>2, <5>4
          <6>2. cl'[queued'[m][k]].ph = "queued" /\ cl'[queued'[m][k]].res = m
            BY <3>4, <4>2, <5>2, <5>4, <6>1
          <6>3. ASSUME NEW l \in 1 .. Len(queued'[m]), queued'[m][k] = queued'[m][l]
                PROVE  k = l
            <7>1. l # Len(queued[r]) + 1
              BY <3>5, <4>2, <6>1, <6>3
            <7>2. l \in 1 .. Len(queued[r]) /\ queued'[m][l] = queued[r][l]
              BY <3>5, <4>2, <5>1, <7>1
            <7> QED BY <5>2, <5>4, <6>1, <6>3, <7>2
          <6> QED BY <6>2, <6>3
        <5> QED BY <4>2, <5>1, <5>3, <5>4
      <4> QED BY <4>1, <4>2
    <3>8. StateOK'
      BY <1>0, <2>2, <3>3, <3>4, <3>5 DEF StateOK, cells, index
    <3>9. Alone(p)
      BY <2>4, <3>4 DEF Alone
    <3>10. MakeOK' /\ TxnOK' /\ \A q \in Pid \ {p} : WriterIs(q)'
      BY <2>2, <3>4, <3>8, <3>9, AloneKept
    <3>11. WriterIs(p)'
      <4>1. cl'[p].kind = c.kind /\ cl'[p].n = c.n
        BY <1>0, <3>4 DEF Client
      <4> QED BY <1>0, <2>1, <2>2, <2>3, <3>4, <4>1 DEF WriterIs, InFlight
    <3>12. WriterOK'
      BY <3>10, <3>11 DEF WriterOK
    <3>13. RetiringOK' /\ CellsOK'
      BY <2>1, <2>2, <2>4, <3>3, StaysSettled DEF cells, RowsKept
    <3> QED BY <2>4, <3>3, <3>7, <3>8, <3>10, <3>12, <3>13 DEF Inv
  <2> QED BY <2>5, <2>6
<1>2. CASE HandleCommit(p)
  <2>1. /\ up /\ todo = <<>> /\ c.ph = "commit"
        /\ UNCHANGED <<durable, up, index, txns, callers, crashes>>
    BY <1>2 DEF HandleCommit, Idle
  <2>2. r \in Memory
    BY <1>0, <2>1 DEF WriterIs
  <2>3. todo' \in Seq(Frame) /\ StackOK' /\ CallsOK' /\ NoNewRetiring /\ HeadOK'
    <3>1. CASE ~InFlight(p)
      <4> DEFINE g == [op |-> "reply", pid |-> p, res |-> outcome(p)]
      <4>1. g \in Frame /\ g.op = "reply" /\ g.pid = p
        BY DEF Frame, outcome
      <4>2. todo' = <<g>>
        BY <1>2, <3>1 DEF HandleCommit, Reply
      <4> HIDE DEF g
      <4>3. /\ todo' \in Seq(Frame) /\ StackOK' /\ CallsOK' /\ NoNewRetiring
            /\ Head(todo') = g
        BY <2>1, <4>1, <4>2, OweOne DEF txns, callers, Calls
      <4> QED BY <4>1, <4>3, DeferredHead DEF Deferred
    <3>2. CASE InFlight(p)
      <4> DEFINE h == [op |-> IF reg[r].txn.kind = "grow" THEN "chunks" ELSE "arena",
                       res |-> r, pid |-> p]
                 g == [op |-> "reply", pid |-> p, res |-> "ok"]
      <4>1. g \in Frame /\ g.op = "reply" /\ g.pid = p
        BY DEF Frame
      <4>2. /\ h \in Frame /\ h.op \in {"chunks", "arena"} /\ h.pid = p /\ h.res = r
            /\ h.op = "chunks" => reg[r].txn.kind = "grow"
        BY <2>2 DEF Frame
      <4>3. todo' = <<h>> \o <<g>>
        BY <1>2, <3>2 DEF HandleCommit, Reply
      <4> HIDE DEF g, h
      <4>6. /\ todo' \in Seq(Frame) /\ StackOK' /\ CallsOK' /\ NoNewRetiring
            /\ todo' # <<>> /\ Head(todo') = h
        BY <2>1, <4>1, <4>2, <4>3, OweAfter DEF txns, callers, Calls
      <4>7. reg[r] # None /\ reg[r].txn # None
        BY <3>2 DEF InFlight
      <4>8. h.op = "chunks" => c.tup >= reg[r].txn.ct
        BY <1>0, <2>1, <2>2, <3>2, <4>2, <4>7 DEF WriterIs, TxnOK
      <4>9. HeadOK'
        BY <2>1, <4>2, <4>6, <4>7, <4>8 DEF HeadOK, durable, callers
      <4> QED BY <4>6, <4>9
    <3> QED BY <3>1, <3>2
  <2> QED BY <1>0, <2>1, <2>3, Untouched DEF Idle, index, callers
<1>3. CASE HandleAbort(p)
  <2>1. /\ up /\ todo = <<>> /\ c.ph = "abort"
        /\ UNCHANGED <<caps, used, bytes, cells, up, index, queued, callers, crashes>>
    BY <1>3 DEF HandleAbort, Idle
  <2>2. r \in Memory
    BY <1>0, <2>1 DEF WriterIs
  <2> DEFINE g == [op |-> "reply", pid |-> p, res |-> "raised"]
             h == [op |-> "settle", res |-> r]
  <2>3. g \in Frame /\ g.op = "reply" /\ g.pid = p /\ h \in Frame /\ h.op = "settle" /\ h.res = r
    BY <2>2 DEF Frame
  <2>4. \/ /\ InFlight(p) /\ UNCHANGED <<reg, writers>> /\ todo' = <<h>> \o <<g>>
        \/ ForgetOutcome(p) /\ todo' = <<g>>
    BY <1>3 DEF HandleAbort, Do, Reply
  <2> HIDE DEF g, h
  <2>5. /\ reg' \in [Res -> Row \cup {None}] /\ RowsKept
        /\ writers' \in [Pid -> SUBSET Memory]
    <3>1. writers \in [Pid -> SUBSET Memory]
      BY <1>0 DEF StateOK
    <3> QED BY <1>0, <2>2, <2>4, <3>1, Forgotten, SameRows
  <2>6. todo' \in Seq(Frame) /\ StackOK' /\ CallsOK' /\ NoNewRetiring /\ HeadOK'
    <3>1. CASE todo' = <<g>>
      <4>1. /\ todo' \in Seq(Frame) /\ StackOK' /\ CallsOK' /\ NoNewRetiring
            /\ Head(todo') = g
        BY <2>1, <2>3, <3>1, OweOne DEF callers, Calls
      <4> QED BY <2>3, <4>1, DeferredHead DEF Deferred
    <3>2. CASE InFlight(p) /\ UNCHANGED <<reg, writers>> /\ todo' = <<h>> \o <<g>>
      <4>3. /\ todo' \in Seq(Frame) /\ StackOK' /\ CallsOK' /\ NoNewRetiring
            /\ todo' # <<>> /\ Head(todo') = h
        BY <2>1, <2>3, <3>2, OweAfter DEF callers, Calls
      <4>4. reg[r] # None /\ reg[r].txn # None
        BY <3>2 DEF InFlight
      <4>5. HeadOK'
        BY <2>3, <3>2, <4>3, <4>4 DEF HeadOK
      <4> QED BY <4>3, <4>5
    <3> QED BY <2>4, <3>1, <3>2
  <2>7. StateOK'
    BY <1>0, <2>1, <2>5, <2>6 DEF StateOK, cells, index, callers
  <2> QED BY <1>0, <2>1, <2>5, <2>6, <2>7, SameCells, Calm DEF cells, callers
<1>4. CASE HandleAck(p)
  <2>1. /\ up /\ todo = <<>> /\ c.ph = "ack" /\ ForgetOutcome(p)
        /\ UNCHANGED <<caps, used, bytes, cells, up, todo, index, queued, alive,
                       builds, minted, maker, fate, crashes>>
    BY <1>4 DEF HandleAck, Idle
  <2>2. r \in Memory /\ maker[r] # None
    BY <1>0, <2>1 DEF WriterIs
  <2>3. PICK ph \in {"idle", "look"} : cl' = [cl EXCEPT ![p] = [c EXCEPT !.ph = ph]]
    BY <1>4 DEF HandleAck, AfterAck
  <2>4. /\ reg' \in [Res -> Row \cup {None}] /\ RowsKept
        /\ writers' \in [Pid -> SUBSET Memory]
    BY <2>1, <2>2, Forgotten
  <2>5. todo' \in Seq(Frame) /\ StackOK' /\ CallsOK' /\ NoNewRetiring /\ HeadOK'
    BY <2>1, EmptyOK
  <2>6. /\ cl' \in [Pid -> Client] /\ \A q \in Pid \ {p} : cl'[q] = cl[q]
        /\ cl'[p].ph \in {"idle", "look"} /\ cl'[p].res = r /\ cl'[p].op = c.op /\ c.op \in Nat
    <3>1. [c EXCEPT !.ph = ph] \in Client
      BY <1>0 DEF Client, Phase
    <3> QED BY <1>0, <2>3, <3>1 DEF Client
  <2>7. StateOK'
    BY <1>0, <2>1, <2>4, <2>5, <2>6 DEF StateOK, cells, index
  <2>8. Alone(p)
    BY <2>4, <2>6 DEF Alone
  <2>9. QueueOK'
    BY <1>0, <2>1, <2>8, NotQueued DEF QueueOK
  <2>10. MakeOK' /\ TxnOK' /\ \A q \in Pid \ {p} : WriterIs(q)'
    BY <2>1, <2>6, <2>7, <2>8, AloneKept
  <2>11. WriterIs(p)'
    BY <2>1, <2>2, <2>6 DEF WriterIs
  <2>12. WriterOK'
    BY <2>10, <2>11 DEF WriterOK
  <2>13. SizeCovered' /\ RetiringOK' /\ CellsOK'
    BY <1>0, <2>1, <2>4, <2>5, StaysSettled, SameCells DEF cells, RowsKept
  <2> QED BY <2>5, <2>7, <2>9, <2>10, <2>12, <2>13 DEF Inv
<1>5. CASE HandleFree(p)
  <2>1. /\ up /\ todo = <<>> /\ c.ph = "free" /\ todo' = Each("drops", {<<r, c.tok>>})
        /\ cl' = [cl EXCEPT ![p] = [c EXCEPT !.ph = "idle"]]
        /\ UNCHANGED <<durable, up, index, txns, alive, builds, minted, maker, fate,
                       crashes>>
    BY <1>5 DEF HandleFree, Idle
  <2>2. r \in Res /\ c.tok \in Token
    BY <1>0, <2>1 DEF MakeOK
  <2>3. todo' \in Seq(Frame) /\ StackOK' /\ CallsOK' /\ NoNewRetiring /\ HeadOK'
    <3>1. Tailable(Each("drops", {<<r, c.tok>>}))
      BY <2>2, TailEach
    <3> QED BY <2>1, <3>1, StartTail
  <2>4. /\ cl' \in [Pid -> Client] /\ \A q \in Pid \ {p} : cl'[q] = cl[q]
        /\ cl'[p].ph = "idle" /\ cl'[p].op = c.op /\ c.op \in Nat
    <3>1. [c EXCEPT !.ph = "idle"] \in Client
      BY <1>0 DEF Client, Phase
    <3> QED BY <1>0, <2>1, <3>1 DEF Client
  <2>5. SizeCovered' /\ RowsKept
    BY <1>0, <2>1, SameCells, SameRows DEF durable
  <2>7. StateOK'
    BY <1>0, <2>1, <2>3, <2>4 DEF StateOK, durable, index, txns
  <2>8. Alone(p)
    BY <2>4, <2>5 DEF Alone
  <2>9. QueueOK'
    BY <1>0, <2>1, <2>8, NotQueued DEF QueueOK, txns
  <2>10. MakeOK' /\ TxnOK' /\ \A q \in Pid \ {p} : WriterIs(q)'
    BY <2>1, <2>4, <2>7, <2>8, AloneKept
  <2>11. WriterIs(p)'
    BY <2>4 DEF WriterIs
  <2>12. WriterOK'
    BY <2>10, <2>11 DEF WriterOK
  <2>13. RetiringOK' /\ CellsOK'
    BY <1>0, <2>1, <2>3, <2>5, StaysSettled DEF durable, RowsKept
  <2> QED BY <2>3, <2>5, <2>7, <2>9, <2>10, <2>12, <2>13 DEF Inv
<1> QED BY <1>1, <1>2, <1>3, <1>4, <1>5 DEF Handle

\* A death is heard of.
LEMMA DownInv ==
    ASSUME Inv, NEW p \in Pid, Down(p) PROVE Inv'
<1>0. StateOK /\ SizeCovered
  BY DEF Inv
<1>1. CASE HolderDown(p)
  <2> DEFINE mine == {x \in held : OwnerOf[x[2]] = p}
  <2>1. /\ Idle /\ todo' = Each("drops", mine) /\ held' = held \ mine
        /\ UNCHANGED <<durable, up, totals, images, txns, callers, crashes>>
    BY <1>1 DEF HolderDown
  <2>2. Tailable(Each("drops", mine))
    BY <1>0, TailEach DEF StateOK
  <2>3. todo' \in Seq(Frame) /\ StackOK' /\ CallsOK' /\ NoNewRetiring /\ HeadOK'
    BY <2>1, <2>2, StartTail
  <2> QED BY <2>1, <2>3, Untouched DEF callers
<1>2. CASE WriterDown(p)
  <2>1. /\ up /\ todo = <<>> /\ todo' = Each("gone", {<<r, p>> : r \in writers[p]})
        /\ writers' = [writers EXCEPT ![p] = {}]
        /\ UNCHANGED <<durable, up, index, queued, callers, crashes>>
    BY <1>2 DEF WriterDown, Idle
  <2>2. Tailable(Each("gone", {<<r, p>> : r \in writers[p]}))
    BY <1>0, TailEach DEF StateOK
  <2>3. todo' \in Seq(Frame) /\ StackOK' /\ CallsOK' /\ NoNewRetiring /\ HeadOK'
    BY <2>1, <2>2, StartTail
  <2>4. StateOK'
    BY <1>0, <2>1, <2>3 DEF StateOK, durable, index, callers
  <2> QED BY <1>0, <2>1, <2>3, <2>4, SameCells, SameRows, Calm DEF durable, callers
<1> QED BY <1>1, <1>2 DEF Down

-----------------------------------------------------------------------------
(* The callers' own steps, taken in the middle of any handler.             *)

\* The keeper owes nothing to p and is not making a row for it.
Unowed(p) ==
    /\ cl[p].ph \notin {"queued", "begin", "commit", "abort"}
    /\ todo # <<>> => ~(Head(todo).op \in {"insert", "reserved"} /\ Head(todo).pid = p)

\* A step of such a process does not disturb the handler.
LEMMA OwnStep ==
    ASSUME Inv, NEW p \in Pid, Unowed(p), UNCHANGED <<todo, reg, queued, minted>>,
           \A q \in Pid \ {p} : cl'[q] = cl[q], cl'[p].ph # "create",
           \A m \in Memory : maker[m] # None => maker'[m] = maker[m] /\ chunks'[m] = chunks[m],
           \A m \in Memory : maker[m] = None /\ maker'[m] # None =>
               cl[p].ph = "create" /\ cl[p].res = m
    PROVE  todo' \in Seq(Frame) /\ StackOK' /\ CallsOK' /\ QueueOK' /\ HeadOK'
<1>0. /\ todo \in Seq(Frame) /\ StackOK /\ CallsOK /\ QueueOK /\ HeadOK /\ TxnOK
      /\ queued \in [Memory -> Seq(Pid)]
  BY DEF Inv, StateOK
<1>1. todo' \in Seq(Frame) /\ StackOK'
  BY <1>0 DEF StackOK
<1>2. CallsOK'
  <2>1. \A i \in 1 .. Len(todo) : todo[i].op \in Calls =>
           todo[i].pid \in Pid /\ todo[i].pid # p
    <3>1. \A i \in 1 .. Len(todo) : todo[i] \in Frame
      BY <1>0
    <3> QED BY <1>0, <3>1, FrameFields DEF CallsOK, Unowed, Calls
  <2> QED BY <1>0, <2>1 DEF CallsOK
<1>3. QueueOK'
  <2>1. \A m \in Memory : \A k \in 1 .. Len(queued[m]) :
           queued[m][k] \in Pid /\ queued[m][k] # p
    BY <1>0 DEF QueueOK, Unowed
  <2> QED BY <1>0, <2>1 DEF QueueOK
<1>4. HeadOK'
  <2> SUFFICES ASSUME todo # <<>> PROVE HeadOK'
    BY DEF HeadOK
  <2> DEFINE f == Head(todo)
  <2>1. f \in Frame
    BY <1>0
  <2>2. f.op \in {"chunks", "txn", "grant", "insert", "reserved"} =>
           f.pid \in Pid /\ f.pid # p
    BY <1>0, <2>1, FrameFields DEF HeadOK, Unowed
  <2>3. f.op \in {"chunks", "txn", "grant", "insert", "reserved"} => cl'[f.pid] = cl[f.pid]
    BY <2>2
  <2>4. f.op = "size" => f.res \in Memory /\ maker[f.res] # None
    BY <1>0, <2>1, FrameFields DEF HeadOK, TxnOK
  <2>5. f.op \in {"insert", "reserved"} =>
          /\ f.res \in Memory => maker'[f.res] = None
          /\ \A q \in Pid : cl'[q].ph = "create" => cl'[q].res # f.res
    BY <1>0 DEF HeadOK
  <2>6. f.op = "grant" => InFlight(f.pid)'
    BY <1>0, <2>3 DEF HeadOK, InFlight
  <2> QED BY <1>0, <2>3, <2>4, <2>5, <2>6 DEF HeadOK
<1> QED BY <1>1, <1>2, <1>3, <1>4

\* A step that changes nothing but the phase and the arguments of p.
LEMMA CallerStep ==
    ASSUME Inv, NEW p \in Pid, Unowed(p),
           UNCHANGED <<durable, up, todo, index, txns, alive, builds, minted, maker, crashes>>,
           NEW c \in Client, cl' = [cl EXCEPT ![p] = c], cl[p].op <= c.op,
           c.ph = "create" => FALSE,
           c.ph = "free" => cl[p].ph = "create" /\ c.res = cl[p].res /\ c.tok = cl[p].tok,
           fate' \in [Pid -> {"none", "ok", "undone"}],
           WriterIs(p)'
    PROVE  Inv'
<1>0. cl \in [Pid -> Client] /\ StateOK /\ SizeCovered /\ MakeOK
  BY DEF Inv, StateOK
<1>1. cl' \in [Pid -> Client] /\ cl'[p] = c /\ \A q \in Pid \ {p} : cl'[q] = cl[q]
  BY <1>0
<1>2. todo' \in Seq(Frame) /\ StackOK' /\ CallsOK' /\ QueueOK' /\ HeadOK'
  BY <1>1, OwnStep DEF durable, txns
<1>3. StateOK'
  BY <1>0, <1>1, <1>2 DEF StateOK, durable, index, txns
<1>4. Alone(p)
  BY <1>1, SameRows DEF Alone, durable
<1>5. TxnOK' /\ \A q \in Pid \ {p} : WriterIs(q)'
  BY <1>3, <1>4, AloneKeptTxn
<1>6. WriterOK'
  BY <1>5 DEF WriterOK
<1>7. MakeOK'
  BY <1>0, <1>1 DEF MakeOK
<1>8. SizeCovered' /\ RetiringOK' /\ CellsOK'
  BY <1>0, SameCells, SameRetiring DEF durable
<1> QED BY <1>2, <1>3, <1>5, <1>6, <1>7, <1>8 DEF Inv

\* A new operation id is one no transaction has yet.
LEMMA Asked ==
    ASSUME Inv, NEW p \in Pid, Unowed(p), UNCHANGED <<durable, up, todo, index, txns, alive,
                                                     builds, minted, maker, crashes>>,
           NEW kind \in {"grow", "arena"}, NEW m \in Memory, maker[m] # None,
           NEW n \in Nat, NEW seen \in Nat, Ask(p, kind, m, n, seen)
    PROVE  Inv'
<1> DEFINE o == cl[p].op + 1
           c == [cl[p] EXCEPT !.ph = "begin", !.kind = kind, !.res = m, !.op = o,
                              !.n = n, !.seen = seen, !.ans = "none"]
<1>0. /\ cl \in [Pid -> Client] /\ cl[p] \in Client /\ cl[p].op \in Nat
      /\ fate \in [Pid -> {"none", "ok", "undone"}] /\ m \in Res
  BY DEF Inv, StateOK, Client, Res
<1>1. /\ c \in Client /\ c.ph = "begin" /\ c.op = o /\ c.res = m
      /\ c.kind = kind
  <2>1. o \in Nat
    BY <1>0
  <2> HIDE DEF o
  <2> QED BY <1>0, <2>1 DEF Client, Phase
<1>2. cl' = [cl EXCEPT ![p] = c] /\ fate' = [fate EXCEPT ![p] = "none"]
  BY DEF Ask
<1> HIDE DEF c
<1>3. cl'[p] = c /\ fate' \in [Pid -> {"none", "ok", "undone"}]
  BY <1>0, <1>2
<1>4. ~InFlight(p)'
  <2>1. ASSUME InFlight(p)' PROVE FALSE
    <3>1. /\ reg[m] # None /\ reg[m].txn # None /\ reg[m].txn.pid = p
          /\ reg[m].txn.op = cl[p].op + 1
      BY <1>1, <1>3, <2>1 DEF InFlight, durable
    <3>2. reg[m].txn.op <= cl[p].op
      BY <3>1 DEF Inv, TxnOK
    <3> QED BY <1>0, <3>1, <3>2
  <2> QED BY <2>1
<1>5. WriterIs(p)'
  BY <1>1, <1>3, <1>4 DEF WriterIs
<1>6. cl[p].op <= c.op
  BY <1>0, <1>1
<1> QED BY <1>1, <1>2, <1>3, <1>5, <1>6, CallerStep

\* A process creates a memory, looks, allocates, dies, or asks.
LEMMA CallerInv ==
    ASSUME Inv, NEW p \in Pid,
           \/ Advance(p) \/ Die(p)
           \/ \E m \in Memory : \/ \E d \in Deltas[p] : Grow(p, m, d)
                                \/ \E n \in 1 .. MaxArena : NeedArena(p, m, n)
    PROVE  Inv'
<1> DEFINE c == cl[p]
<1>0. /\ StateOK /\ SizeCovered /\ HeadOK /\ TxnOK /\ WriterIs(p) /\ MakeOK /\ CellsOK
      /\ RetiringOK /\ cl \in [Pid -> Client] /\ c \in Client /\ Memory \subseteq Res
      /\ fate \in [Pid -> {"none", "ok", "undone"}] /\ c.op \in Nat /\ c.op <= c.op
      /\ chunks \in [Memory -> Nat \cup {Absent}] /\ arena \in [Memory -> Nat \cup {Absent}]
      /\ size \in [Memory -> Nat] /\ maker \in [Memory -> Pid \cup {None}]
  <2>1. /\ StateOK /\ SizeCovered /\ HeadOK /\ TxnOK /\ WriterIs(p) /\ MakeOK /\ CellsOK
        /\ RetiringOK
    BY DEF Inv, WriterOK
  <2>2. cl \in [Pid -> Client] /\ c \in Client
    BY <2>1 DEF StateOK
  <2>3. c.op \in Nat /\ c.op <= c.op
    BY <2>2 DEF Client
  <2>4. /\ fate \in [Pid -> {"none", "ok", "undone"}] /\ size \in [Memory -> Nat]
        /\ chunks \in [Memory -> Nat \cup {Absent}] /\ arena \in [Memory -> Nat \cup {Absent}]
        /\ maker \in [Memory -> Pid \cup {None}]
    BY <2>1 DEF StateOK
  <2>5. Memory \subseteq Res
    BY DEF Res
  <2> QED BY <2>1, <2>2, <2>3, <2>4, <2>5
<1>u. c.ph \in {"create", "look", "extend"} => Unowed(p)
  BY <1>0 DEF Unowed, HeadOK
<1>f. Free(p) => Unowed(p)
  BY DEF Free, Unowed
<1>1. CASE CreateMem(p)
  <2> DEFINE m == c.res
             k == chunk_count(InitPages[m], ChunkPages[m])
  <2>1. /\ c.ph = "create"
        /\ size' = [size EXCEPT ![m] = InitPages[m]]
        /\ chunks' = [chunks EXCEPT ![m] = k]
        /\ maker' = [maker EXCEPT ![m] = p]
        /\ cl' = [cl EXCEPT ![p] = [c EXCEPT !.ph = "idle"]]
        /\ UNCHANGED <<reg, caps, used, bytes, arena, up, todo, index, txns, alive,
                       builds, minted, fate, crashes>>
    BY <1>1 DEF CreateMem
  <2>2. /\ m \in Memory /\ m \in minted /\ maker[m] = None
        /\ InitPages[m] \in Nat /\ ChunkPages[m] \in Nat \ {0}
    BY <1>0, <2>1, ConstantsOK DEF MakeOK
  <2>3. k \in Nat /\ k # Absent
    <3>1. k \in Nat
      BY <2>2, ChunkCountNat
    <3> QED BY <3>1 DEF Absent
  <2> HIDE DEF k
  <2>4. /\ cl' \in [Pid -> Client] /\ \A q \in Pid \ {p} : cl'[q] = cl[q]
        /\ cl'[p].ph = "idle" /\ cl'[p].op = c.op
    <3>1. [c EXCEPT !.ph = "idle"] \in Client
      BY <1>0 DEF Client, Phase
    <3> QED BY <1>0, <2>1, <3>1 DEF Client
  <2>5. /\ size' \in [Memory -> Nat] /\ chunks' \in [Memory -> Nat \cup {Absent}]
        /\ maker' \in [Memory -> Pid \cup {None}]
        /\ size'[m] = InitPages[m] /\ chunks'[m] = k /\ maker'[m] = p
        /\ \A x \in Memory \ {m} : /\ size'[x] = size[x] /\ chunks'[x] = chunks[x]
                                   /\ maker'[x] = maker[x]
    <3>1. [chunks EXCEPT ![m] = k] \in [Memory -> Nat \cup {Absent}]
      BY <1>0, <2>2, <2>3, CellTyped
    <3> QED BY <1>0, <2>1, <2>2, <3>1
  <2>6. \A x \in Memory : maker[x] # None => maker'[x] = maker[x] /\ chunks'[x] = chunks[x]
    BY <2>2, <2>5
  <2>7. \A x \in Memory : maker[x] = None /\ maker'[x] # None => c.ph = "create" /\ c.res = x
    BY <2>1, <2>5
  <2>8. todo' \in Seq(Frame) /\ StackOK' /\ CallsOK' /\ QueueOK' /\ HeadOK'
    BY <1>u, <2>1, <2>4, <2>6, <2>7, OwnStep DEF txns
  <2>9. StateOK'
    BY <1>0, <2>1, <2>4, <2>5, <2>8 DEF StateOK, index, txns
  <2>10. Alone(p)
    BY <1>0, <2>1, <2>4, SameRows DEF Alone
  <2>11. TxnOK' /\ \A q \in Pid \ {p} : WriterIs(q)'
    BY <2>6, <2>9, <2>10, AloneKeptTxn
  <2>12. WriterOK'
    BY <2>4, <2>11 DEF WriterOK, WriterIs
  <2>13. MakeOK'
    <3>1. \A q \in Pid : cl'[q].ph = "create" => q # p /\ cl[q].res # m
      BY <1>0, <2>1, <2>4 DEF MakeOK
    <3> QED BY <1>0, <2>1, <2>2, <2>4, <2>5, <3>1 DEF MakeOK
  <2>14. SizeCovered'
    <3> SUFFICES ASSUME NEW x \in Observable, maker'[x] # None, chunks'[x] # Absent
                 PROVE  chunk_count(size'[x], ChunkPages[x]) <= chunks'[x]
      BY DEF SizeCovered
    <3>1. x \in Memory
      BY ConstantsOK
    <3>2. CASE x = m
      BY <2>3, <2>5, <3>2 DEF k
    <3>3. CASE x # m
      BY <1>0, <2>5, <3>1, <3>3 DEF SizeCovered
    <3> QED BY <3>2, <3>3
  <2>15. RetiringOK'
    BY <1>0, <2>1 DEF RetiringOK
  <2>16. CellsOK'
    <3> SUFFICES ASSUME NEW x \in Observable, reg[x] # None, maker'[x] # None,
                        chunks'[x] = Absent
                 PROVE  reg[x].state = "retiring" /\ BeingReclaimed(x)
      BY <2>1 DEF CellsOK, BeingReclaimed
    <3>1. x \in Memory /\ x # m
      BY <2>3, <2>5, ConstantsOK
    <3> QED BY <1>0, <2>5, <3>1 DEF CellsOK
  <2> QED BY <2>8, <2>9, <2>11, <2>12, <2>13, <2>14, <2>15, <2>16 DEF Inv
<1>2. CASE CreateFails(p)
  <2> DEFINE e == [c EXCEPT !.ph = "free"]
  <2>1. /\ c.ph = "create" /\ cl' = [cl EXCEPT ![p] = e]
        /\ UNCHANGED <<durable, up, todo, index, txns, alive, builds, minted, maker,
                       fate, crashes>>
    BY <1>2 DEF CreateFails
  <2>2. e \in Client /\ e.ph = "free" /\ e.res = c.res /\ e.tok = c.tok /\ e.op = c.op
    BY <1>0 DEF Client, Phase
  <2> HIDE DEF e
  <2>3. WriterIs(p)'
    <3>1. cl'[p] = e
      BY <1>0, <2>1
    <3> QED BY <2>2, <3>1 DEF WriterIs
  <2> QED BY <1>0, <1>u, <2>1, <2>2, <2>3, CallerStep
<1>3. CASE Look(p)
  <2>1. /\ c.ph = "look"
        /\ UNCHANGED <<durable, up, todo, index, txns, alive, builds, minted, maker, crashes>>
    BY <1>3 DEF Look
  <2>2. c.res \in Memory /\ maker[c.res] # None /\ c.n \in Nat /\ Unowed(p)
    BY <1>0, <1>u, <2>1 DEF WriterIs, Client
  <2>3. CASE cl' = [cl EXCEPT ![p].ph = "idle"] /\ UNCHANGED fate
    <3> DEFINE e == [c EXCEPT !.ph = "idle"]
    <3>1. e \in Client /\ e.ph = "idle" /\ e.op = c.op /\ cl' = [cl EXCEPT ![p] = e]
      BY <1>0, <2>3 DEF Client, Phase
    <3> HIDE DEF e
    <3>2. WriterIs(p)'
      <4>1. cl'[p] = e
        BY <1>0, <3>1
      <4> QED BY <3>1, <4>1 DEF WriterIs
    <3> QED BY <1>0, <2>1, <2>2, <2>3, <3>1, <3>2, CallerStep
  <2>4. CASE arena[c.res] # Absent /\ Ask(p, "arena", c.res, c.n, arena[c.res])
    <3>1. arena[c.res] \in Nat
      BY <1>0, <2>2, <2>4
    <3> QED BY <2>1, <2>2, <2>4, <3>1, Asked
  <2> QED BY <1>3, <2>3, <2>4 DEF Look
<1>4. CASE Extend(p)
  <2> DEFINE m == c.res
             cell == IF c.kind = "grow" THEN chunks[m] ELSE arena[m]
             need == IF c.kind = "grow" THEN chunk_count(c.seen + c.n, ChunkPages[m])
                     ELSE c.n
             tup == IF cell > need THEN cell ELSE need
             e == [c EXCEPT !.ph = "commit", !.tup = tup]
  <2>1. /\ c.ph = "extend" /\ cell # Absent /\ cl' = [cl EXCEPT ![p] = e]
        /\ UNCHANGED <<durable, up, todo, index, txns, alive, builds, minted, maker,
                       fate, crashes>>
    BY <1>4 DEF Extend, Have, Need
  <2>2. m \in Memory /\ maker[m] # None /\ c.seen + c.n \in Nat /\ c.n \in Nat
    BY <1>0, <2>1 DEF WriterIs, Client
  <2>3. cell \in Nat /\ need \in Nat
    <3>1. chunk_count(c.seen + c.n, ChunkPages[m]) \in Nat
      BY <2>2, ChunkCountNat, ConstantsOK
    <3> QED BY <1>0, <2>1, <2>2, <3>1
  <2>4. tup \in Nat /\ tup >= need
    <3> HIDE DEF cell, need
    <3> QED BY <2>3
  <2>5. c.kind = "grow" => tup >= chunk_count(c.seen + c.n, ChunkPages[m])
    <3> HIDE DEF tup
    <3> QED BY <2>4
  <2> HIDE DEF tup
  <2>6. /\ e \in Client /\ e.ph = "commit" /\ e.res = m /\ e.op = c.op /\ e.kind = c.kind
        /\ e.seen = c.seen /\ e.n = c.n /\ e.tup = tup
    BY <1>0, <2>4 DEF Client, Phase
  <2> HIDE DEF e
  <2>7. WriterIs(p)'
    <3>1. cl'[p] = e
      BY <1>0, <2>1
    <3>2. InFlight(p)' = InFlight(p) /\ reg' = reg
      BY <2>1, <2>6, <3>1 DEF InFlight, durable
    <3> QED BY <1>0, <2>1, <2>2, <2>5, <2>6, <3>1, <3>2 DEF WriterIs
  <2> QED BY <1>0, <1>u, <2>1, <2>6, <2>7, CallerStep
<1>5. CASE ExtendFails(p)
  <2> DEFINE e == [c EXCEPT !.ph = "abort"]
  <2>1. /\ c.ph = "extend" /\ cl' = [cl EXCEPT ![p] = e]
        /\ UNCHANGED <<durable, up, todo, index, txns, alive, builds, minted, maker,
                       fate, crashes>>
    BY <1>5 DEF ExtendFails
  <2>2. e \in Client /\ e.ph = "abort" /\ e.res = c.res /\ e.op = c.op
    BY <1>0 DEF Client, Phase
  <2> HIDE DEF e
  <2>3. WriterIs(p)'
    <3>1. cl'[p] = e
      BY <1>0, <2>1
    <3> QED BY <1>0, <2>1, <2>2, <3>1 DEF WriterIs
  <2> QED BY <1>0, <1>u, <2>1, <2>2, <2>3, CallerStep
<1>6. CASE Die(p)
  <2>1. /\ alive' \subseteq alive
        /\ UNCHANGED <<durable, up, todo, index, txns, cl, builds, minted, maker, fate,
                       crashes>>
    BY <1>6 DEF Die
  <2>2. todo' \in Seq(Frame) /\ StackOK' /\ CallsOK' /\ HeadOK'
    BY <2>1, SameStack DEF durable, txns
  <2>3. StateOK'
    BY <1>0, <2>1, <2>2 DEF StateOK, durable, index, txns
  <2> QED BY <1>0, <2>1, <2>2, <2>3, SameCells, SameRetiring, SameRows, Assemble
          DEF durable, txns
<1>7. ASSUME NEW m \in Memory, NEW d \in Deltas[p], Grow(p, m, d) PROVE Inv'
  <2>1. /\ Unowed(p) /\ HasHandle(p, m) /\ Ask(p, "grow", m, d, 0)
        /\ UNCHANGED <<durable, up, todo, index, txns, alive, builds, minted, maker, crashes>>
    BY <1>f, <1>7 DEF Grow
  <2>2. d \in Nat /\ maker[m] # None
    BY <2>1, ConstantsOK DEF HasHandle
  <2> QED BY <2>1, <2>2, Asked
<1>8. ASSUME NEW m \in Memory, NEW n \in 1 .. MaxArena, NeedArena(p, m, n) PROVE Inv'
  <2> DEFINE e == [c EXCEPT !.ph = "look", !.kind = "arena", !.res = m, !.n = n, !.ans = "none"]
  <2>1. /\ Unowed(p) /\ HasHandle(p, m) /\ cl' = [cl EXCEPT ![p] = e]
        /\ UNCHANGED <<durable, up, todo, index, txns, alive, builds, minted, maker, fate,
                       crashes>>
    BY <1>f, <1>8 DEF NeedArena
  <2>2. n \in Nat /\ maker[m] # None
    BY <2>1, ConstantsOK DEF HasHandle
  <2>3. e \in Client /\ e.ph = "look" /\ e.res = m /\ e.op = c.op
    BY <1>0, <2>2 DEF Client, Phase
  <2> HIDE DEF e
  <2>4. WriterIs(p)'
    <3>1. cl'[p] = e
      BY <1>0, <2>1
    <3> QED BY <2>1, <2>2, <2>3, <3>1 DEF WriterIs
  <2> QED BY <1>0, <2>1, <2>3, <2>4, CallerStep
<1> QED BY <1>1, <1>2, <1>3, <1>4, <1>5, <1>6, <1>7, <1>8 DEF Advance

-----------------------------------------------------------------------------
(* The keeper dies and is started again.                                   *)

\* Init takes up the next cleanup that was left half done.
LEMMA FinishRetiringInv ==
    ASSUME Inv, FinishRetiring PROVE Inv'
<1> DEFINE f == Head(todo)
<1>0. /\ StateOK /\ StackOK /\ CallsOK /\ RetiringOK /\ CellsOK /\ SizeCovered
      /\ todo \in Seq(Frame) /\ Observable \subseteq Res
  BY ConstantsOK DEF Inv, StateOK, Res
<1>1. up /\ todo # <<>> /\ f \in Frame /\ f.op = "retiring" /\ f = todo[1]
  BY <1>0, HeadFrame DEF FinishRetiring
<1>2. PICK r \in f.set :
        Then((IF reg[r] # None THEN Do("forget", r) ELSE <<>>)
             \o Each("retiring", f.set \ {r}))
  BY DEF FinishRetiring
<1>3. UNCHANGED <<durable, up, index, txns, callers, crashes>>
  BY DEF FinishRetiring
<1>4. f.set \subseteq Res /\ r \in Res
  BY <1>1, <1>2, FrameFields
<1>5. /\ Len(todo) \in Nat \ {0} /\ 1 \in 1 .. Len(todo)
      /\ \A i \in 2 .. Len(todo) : todo[i].op # "retiring"
      /\ \A x \in f.set : reg[x] # None => reg[x].state = "retiring"
  <2>1. Len(todo) \in Nat \ {0} /\ 1 \in 1 .. Len(todo)
    BY <1>0, <1>1
  <2>2. f.op \notin Cleanup
    BY <1>1 DEF Cleanup
  <2> QED BY <1>0, <1>1, <2>1, <2>2 DEF RetiringOK
<1> DEFINE g == [op |-> "forget", res |-> r]
           h == [op |-> "retiring", set |-> f.set \ {r}]
<1>6. /\ g \in Frame /\ g.op = "forget" /\ g.res = r
      /\ h \in Frame /\ h.op = "retiring" /\ h.set = f.set \ {r}
  BY <1>4 DEF Frame
<1>7. PICK s :
        /\ Then(s)
        /\ \/ s = <<>> /\ reg[r] = None /\ f.set \ {r} = {}
           \/ s = <<g>> /\ reg[r] # None /\ f.set \ {r} = {}
           \/ s = <<h>> /\ reg[r] = None /\ f.set \ {r} # {}
           \/ s = <<g>> \o <<h>> /\ reg[r] # None /\ f.set \ {r} # {}
  <2>1. CASE reg[r] = None /\ f.set \ {r} = {}
    BY <1>2, <2>1 DEF Each, Do
  <2>2. CASE reg[r] # None /\ f.set \ {r} = {}
    <3>1. Then(<<g>> \o <<>>)
      BY <1>2, <2>2 DEF Each, Do
    <3> HIDE DEF g, h
    <3>2. <<g>> \o <<>> = <<g>>
      OBVIOUS
    <3> QED BY <2>2, <3>1, <3>2
  <2>3. CASE reg[r] = None /\ f.set \ {r} # {}
    <3>1. Then(<<>> \o <<h>>)
      BY <1>2, <2>3 DEF Each
    <3> HIDE DEF g, h
    <3>2. <<>> \o <<h>> = <<h>>
      OBVIOUS
    <3> QED BY <2>3, <3>1, <3>2
  <2>4. CASE reg[r] # None /\ f.set \ {r} # {}
    <3>1. Then(<<g>> \o <<h>>)
      BY <1>2, <2>4 DEF Each, Do
    <3> QED BY <2>4, <3>1
  <2> QED BY <2>1, <2>2, <2>3, <2>4
<1> HIDE DEF g, h
<1> DEFINE n == Len(s)
<1>8. /\ s \in Seq(Frame) /\ n \in 0 .. 2
      /\ \A i \in 1 .. n : s[i] \in {g, h}
      /\ \A i \in 2 .. n : s[i] = h
      /\ \A i \in 1 .. n : s[i] = h => i = 1 \/ (i = 2 /\ s[1] = g)
      /\ f.set \ {r} # {} => \E i \in 1 .. n : s[i] = h
      /\ reg[r] # None => s # <<>> /\ s[1] = g
      /\ s # <<>> /\ s[1] = g => reg[r] # None
  <2>1. CASE s = <<>> /\ reg[r] = None /\ f.set \ {r} = {}
    BY <2>1
  <2>2. CASE s = <<g>> /\ reg[r] # None /\ f.set \ {r} = {}
    <3>1. <<g>> \in Seq(Frame) /\ Len(<<g>>) = 1 /\ <<g>>[1] = g /\ g # h /\ <<g>> # <<>>
      BY <1>6
    <3>2. \A i \in 1 .. 1 : i = 1
      OBVIOUS
    <3> QED BY <2>2, <3>1, <3>2
  <2>3. CASE s = <<h>> /\ reg[r] = None /\ f.set \ {r} # {}
    <3>1. <<h>> \in Seq(Frame) /\ Len(<<h>>) = 1 /\ <<h>>[1] = h /\ g # h /\ <<h>> # <<>>
      BY <1>6
    <3>2. \A i \in 1 .. 1 : i = 1
      OBVIOUS
    <3> QED BY <2>3, <3>1, <3>2
  <2>4. CASE s = <<g>> \o <<h>> /\ reg[r] # None /\ f.set \ {r} # {}
    <3>0. <<h>> \in Seq(Frame) /\ Len(<<h>>) = 1 /\ <<h>>[1] = h /\ g # h
      BY <1>6
    <3>3. /\ s \in Seq(Frame) /\ Len(s) = 1 + 1 /\ s[1] = g /\ s # <<>>
          /\ \A i \in 2 .. 1 + 1 : s[i] = <<h>>[i - 1]
      BY <1>6, <2>4, <3>0, Prepended
    <3>1. s \in Seq(Frame) /\ Len(s) = 2 /\ s[1] = g /\ s[2] = h /\ g # h /\ s # <<>>
      BY <3>0, <3>3
    <3>2. \A i \in 1 .. 2 : i = 1 \/ i = 2
      OBVIOUS
    <3> QED BY <2>4, <3>1, <3>2
  <2> QED BY <1>7, <2>1, <2>2, <2>3, <2>4
<1>9. /\ todo' \in Seq(Frame) /\ StackOK' /\ CallsOK'
      /\ s # <<>> => todo' # <<>> /\ Head(todo') = s[1]
      /\ s = <<>> /\ todo' # <<>> => Head(todo').op \in Deferred
  <2>1. \A i \in 2 .. Len(todo) : todo[i].op \in Calls =>
               /\ cl'[todo[i].pid].ph = cl[todo[i].pid].ph
               /\ \A m \in Memory : \A k \in 1 .. Len(queued'[m]) :
                    queued'[m][k] # todo[i].pid
    <3>1. 2 .. Len(todo) \subseteq 1 .. Len(todo)
      BY <1>5
    <3> QED BY <1>0, <1>3, <3>1 DEF CallsOK, txns, callers
  <2>2. /\ \A i \in 1 .. n : s[i].op \notin Calls
        /\ \A i \in 2 .. n : s[i].op \in Deferred
    BY <1>6, <1>8 DEF Calls, Deferred
  <2> QED BY <1>0, <1>1, <1>7, <1>8, <2>1, <2>2, ThenPlain
<1>10. HeadOK'
  <2>1. CASE s = <<>> \/ s[1] = h
    <3>1. todo' # <<>> => Head(todo').op \in Deferred
      BY <1>6, <1>9, <2>1 DEF Deferred
    <3> QED BY <3>1, DeferredHead
  <2>2. CASE s # <<>> /\ s[1] = g
    <3>1. reg[r] # None /\ reg[r].state = "retiring"
      BY <1>2, <1>5, <1>8, <2>2
    <3> QED BY <1>3, <1>6, <1>9, <2>2, <3>1 DEF HeadOK, durable
  <2>3. s = <<>> \/ s[1] \in {g, h}
    BY <1>8
  <2> QED BY <2>1, <2>2, <2>3
<1>11. /\ Len(todo') = n + Len(todo) - 1
       /\ \A i \in 1 .. n : todo'[i] = s[i]
       /\ \A i \in n + 1 .. Len(todo') : /\ i - n + 1 \in 2 .. Len(todo)
                                         /\ todo'[i] = todo[i - n + 1]
  <2>1. /\ Len(todo') = n + Len(todo) - 1
        /\ \A i \in 1 .. n : todo'[i] = s[i]
        /\ \A i \in n + 1 .. n + Len(todo) - 1 : todo'[i] = todo[i - n + 1]
    BY <1>0, <1>1, <1>7, <1>8, Replaced DEF Then
  <2>2. \A i \in n + 1 .. Len(todo') : i - n + 1 \in 2 .. Len(todo)
    BY <1>5, <1>8, <2>1
  <2> QED BY <2>1, <2>2
<1>12. \A i \in 1 .. Len(todo') : todo'[i].op = "retiring" => i \in 1 .. n /\ s[i] = h
  <2>1. \A i \in 1 .. Len(todo') : i \in 1 .. n \/ i \in n + 1 .. Len(todo')
    BY <1>8
  <2> QED BY SMTT(40), <1>5, <1>6, <1>8, <1>11, <2>1
<1>13. RetiringOK'
  <2> SUFFICES ASSUME NEW i \in 1 .. Len(todo'), todo'[i].op = "retiring"
               PROVE  /\ i = 1 \/ (i = 2 /\ Head(todo').op \in Cleanup)
                      /\ \A x \in todo'[i].set : reg[x] # None => reg[x].state = "retiring"
    BY <1>3 DEF RetiringOK, durable
  <2>1. i \in 1 .. n /\ s[i] = h /\ todo'[i] = h
    BY <1>11, <1>12
  <2>2. i = 1 \/ (i = 2 /\ s[1] = g /\ s # <<>>)
    BY <1>8, <2>1
  <2> QED BY <1>5, <1>6, <1>9, <2>1, <2>2 DEF Cleanup
<1>14. CellsOK'
  <2> SUFFICES ASSUME NEW m \in Observable, reg[m] # None, maker[m] # None, chunks[m] = Absent
               PROVE  reg[m].state = "retiring" /\ BeingReclaimed(m)'
    BY <1>3 DEF CellsOK, durable, callers
  <2>1. reg[m].state = "retiring" /\ BeingReclaimed(m)
    BY <1>0 DEF CellsOK
  <2>2. m \in f.set
    <3>1. \A i \in 1 .. Len(todo) : todo[i].op = "retiring" => todo[i] = f
      BY <1>1, <1>5
    <3> QED BY <1>1, <2>1, <3>1 DEF BeingReclaimed
  <2>3. CASE m = r
    <3>1. s # <<>> /\ s[1] = g
      BY <1>8, <2>3
    <3> QED BY <1>6, <1>9, <2>1, <2>3, <3>1 DEF BeingReclaimed
  <2>4. CASE m # r
    <3>1. PICK i \in 1 .. n : s[i] = h
      BY <1>8, <2>2, <2>4
    <3>2. i \in 1 .. Len(todo') /\ todo'[i] = h
      BY <1>5, <1>8, <1>11, <3>1
    <3> QED BY <1>6, <2>1, <2>2, <2>4, <3>2 DEF BeingReclaimed
  <2> QED BY <2>3, <2>4
<1>15. StateOK'
  BY <1>0, <1>3, <1>9 DEF StateOK, durable, index, txns, callers
<1> QED BY <1>0, <1>3, <1>9, <1>10, <1>13, <1>14, <1>15, SameCells, SameRows, Assemble
        DEF durable, txns, callers

\* The keeper is killed in the middle of anything.
LEMMA CrashInv ==
    ASSUME Inv, Crash PROVE Inv'
<1>0. /\ StateOK /\ SizeCovered /\ TxnOK /\ WriterOK /\ MakeOK /\ CellsOK
      /\ cl \in [Pid -> Client]
  BY DEF Inv, StateOK
<1>1. /\ up' = FALSE /\ todo' = <<>> /\ held' = {}
      /\ queued' = [m \in Memory |-> <<>>] /\ writers' = [p \in Pid |-> {}]
      /\ crashes' = crashes + 1
      /\ UNCHANGED <<durable, alive, builds, minted, maker, fate>>
  BY DEF Crash
<1>2. todo' \in Seq(Frame) /\ StackOK' /\ CallsOK' /\ HeadOK'
  BY <1>1, EmptyOK
<1>3. QueueOK'
  BY <1>1 DEF QueueOK
<1> DEFINE after(p) == CASE cl[p].ph = "queued" /\ p \in alive -> "begin"
                         [] cl[p].ph = "free" -> "idle"
                         [] cl[p].ph = "ack" -> AfterAck(p)
                         [] cl[p].ph \in {"begin", "queued", "commit", "abort"}
                              /\ p \notin alive -> "idle"
                         [] OTHER -> cl[p].ph
<1>4. cl' = [p \in Pid |-> [cl[p] EXCEPT !.ph = after(p)]]
  BY DEF Crash
<1>5. ASSUME NEW p \in Pid
      PROVE  \/ after(p) = cl[p].ph /\ cl[p].ph \notin {"free", "ack", "queued"}
             \/ after(p) = "idle"
             \/ after(p) = "begin" /\ cl[p].ph = "queued"
             \/ after(p) = "look" /\ cl[p].ph = "ack"
  <2>1. AfterAck(p) \in {"look", "idle"}
    BY DEF AfterAck
  <2>2. cl[p].ph \in Phase
    BY <1>0 DEF Client
  <2>3. CASE cl[p].ph = "queued"
    BY <2>3
  <2>4. CASE cl[p].ph = "free"
    BY <2>4
  <2>5. CASE cl[p].ph = "ack"
    BY <2>1, <2>5
  <2>6. CASE cl[p].ph \notin {"queued", "free", "ack"}
    BY <2>6
  <2> QED BY <2>3, <2>4, <2>5, <2>6
<1>6. ASSUME NEW p \in Pid
      PROVE  /\ cl'[p] \in Client /\ cl'[p].ph = after(p) /\ cl'[p].res = cl[p].res
             /\ cl'[p].op = cl[p].op /\ cl'[p].kind = cl[p].kind /\ cl'[p].n = cl[p].n
             /\ cl'[p].seen = cl[p].seen /\ cl'[p].tup = cl[p].tup /\ cl'[p].tok = cl[p].tok
  <2>1. after(p) \in Phase
    <3>1. cl[p].ph \in Phase
      BY <1>0 DEF Client
    <3> HIDE DEF after
    <3> QED BY <1>5, <3>1 DEF Phase
  <2> HIDE DEF after
  <2>2. cl'[p] = [cl[p] EXCEPT !.ph = after(p)] /\ cl[p] \in Client
    BY <1>0, <1>4
  <2> QED BY <2>1, <2>2 DEF Client
<1> HIDE DEF after
<1>7. cl' \in [Pid -> Client]
  BY <1>4, <1>6
<1>8. StateOK'
  <2>1. /\ queued' \in [Memory -> Seq(Pid)] /\ writers' \in [Pid -> SUBSET Memory]
        /\ held' \subseteq Res \X Token /\ up' \in BOOLEAN
    <3>1. <<>> \in Seq(Pid) /\ {} \in SUBSET Memory
      OBVIOUS
    <3>2. queued' \in [Memory -> Seq(Pid)]
      BY <1>1, <3>1
    <3>3. writers' \in [Pid -> SUBSET Memory]
      BY <1>1, <3>1
    <3>4. held' \subseteq Res \X Token
      BY <1>1
    <3>5. up' \in BOOLEAN
      BY <1>1
    <3> QED BY <3>2, <3>3, <3>4, <3>5
  <2>2. crashes' \in Nat
    BY <1>0, <1>1 DEF StateOK
  <2> QED BY <1>0, <1>1, <1>2, <1>7, <2>1, <2>2 DEF StateOK, durable
<1>9. MakeOK'
  <2>1. \A p \in Pid : cl'[p].ph = "create" => cl[p].ph = "create"
    BY <1>5, <1>6
  <2>2. \A p \in Pid : cl'[p].ph # "free"
    BY <1>5, <1>6
  <2> QED BY <1>0, <1>1, <1>6, <2>1, <2>2 DEF MakeOK
<1>10. TxnOK'
  <2>1. \A m \in Memory : reg[m] # None /\ reg[m].txn # None => reg[m].txn.pid \in Pid
    <3>1. \A m \in Memory : reg[m] # None => reg[m] \in Row
      BY <1>0 DEF StateOK, Res
    <3> QED BY <3>1, RowEnds
  <2> QED BY <1>0, <1>1, <1>6, <2>1 DEF TxnOK, durable
<1>11. WriterOK'
  <2> SUFFICES ASSUME NEW p \in Pid PROVE WriterIs(p)'
    BY DEF WriterOK
  <2>1. WriterIs(p) /\ reg' = reg /\ maker' = maker
    BY <1>0, <1>1 DEF WriterOK, durable
  <2>2. InFlight(p)' = InFlight(p)
    BY <1>6, <2>1 DEF InFlight
  <2>3. CASE after(p) = cl[p].ph
    BY <1>6, <2>1, <2>2, <2>3 DEF WriterIs
  <2>4. CASE after(p) = "idle"
    BY <1>6, <2>4 DEF WriterIs
  <2>5. CASE after(p) = "begin" /\ cl[p].ph = "queued"
    BY <1>6, <2>1, <2>2, <2>5 DEF WriterIs
  <2>6. CASE after(p) = "look" /\ cl[p].ph = "ack"
    BY <1>6, <2>1, <2>2, <2>6 DEF WriterIs
  <2> QED BY <1>5, <2>3, <2>4, <2>5, <2>6
<1>12. RetiringOK'
  BY <1>1 DEF RetiringOK
<1>13. CellsOK'
  BY <1>0, <1>1 DEF CellsOK, BeingReclaimed, durable
<1>14. SizeCovered'
  BY <1>0, <1>1, SameCells DEF durable
<1> QED BY <1>2, <1>3, <1>8, <1>9, <1>10, <1>11, <1>12, <1>13, <1>14 DEF Inv

\* Init adopts what the last keeper left.
LEMMA RestartInv ==
    ASSUME Inv, Restart PROVE Inv'
<1> DEFINE R == {r \in Res : reg[r] # None /\ reg[r].state = "retiring"}
           rest == Each("recover", Memory) \o Each("sweep", Image) \o Do("reconcile", None)
           h == [op |-> "retiring", set |-> R]
<1>0. StateOK /\ SizeCovered /\ CellsOK /\ Memory \subseteq Res /\ Image \subseteq Res
      /\ Observable \subseteq Res
  BY ConstantsOK DEF Inv, StateOK, Res
<1>1. /\ up' = TRUE /\ held' = AdoptHeld(reg)
      /\ UNCHANGED <<durable, txns, callers, crashes>>
  BY DEF Restart
<1>2. Tailable(rest)
  <2>1. Tailable(Each("recover", Memory)) /\ Tailable(Each("sweep", Image))
    BY <1>0, TailEach
  <2>2. Tailable(Do("reconcile", None))
    <3>1. [op |-> "reconcile", res |-> None] \in Frame
      BY DEF Frame
    <3> QED BY <3>1, TailOne DEF Do, Deferred, Calls
  <2> QED BY <2>1, <2>2, TailJoin
<1>3. todo' = Each("retiring", R) \o rest
  <2> DEFINE a == Each("retiring", R)
             b == Each("recover", Memory)
             c == Each("sweep", Image)
             d == Do("reconcile", None)
  <2>1. todo' = a \o b \o c \o d
    BY DEF Restart
  <2>2. a \in Seq(Frame) /\ b \in Seq(Frame) /\ c \in Seq(Frame) /\ d \in Seq(Frame)
    <3>1. h \in Frame
      BY DEF Frame
    <3>2. a \in Seq(Frame)
      BY <3>1 DEF Each
    <3>3. b \in Seq(Frame) /\ c \in Seq(Frame)
      BY <1>0, TailEach DEF Tailable
    <3>4. [op |-> "reconcile", res |-> None] \in Frame
      BY DEF Frame
    <3> QED BY <3>2, <3>3, <3>4 DEF Do
  <2> HIDE DEF a, b, c, d
  <2>3. a \o b \o c \o d = a \o (b \o c \o d)
    BY SMTT(40), <2>2
  <2> QED BY <2>1, <2>3 DEF a, b, c, d
<1>4. h \in Frame /\ h.op = "retiring" /\ h.set = R
  BY DEF Frame
<1> HIDE DEF rest, h
<1>5. /\ todo' \in Seq(Frame) /\ StackOK' /\ CallsOK' /\ HeadOK' /\ RetiringOK'
      /\ R # {} => \E i \in 1 .. Len(todo') : todo'[i] = h
  <2>1. CASE R = {}
    <3>1. todo' = rest
      <4>1. rest \in Seq(Frame) /\ todo' = <<>> \o rest
        BY <1>2, <1>3, <2>1 DEF Tailable, Each
      <4> QED BY <4>1
    <3>2. todo' \in Seq(Frame) /\ StackOK' /\ CallsOK' /\ HeadOK'
      BY <1>2, <3>1, StartTail
    <3>3. \A i \in 1 .. Len(todo') : todo'[i].op # "retiring"
      BY <1>2, <3>1 DEF Tailable
    <3> QED BY <2>1, <3>2, <3>3 DEF RetiringOK
  <2>2. CASE R # {}
    <3>1. todo' = <<h>> \o rest
      BY <1>3, <2>2 DEF Each, h
    <3>2. rest \in Seq(Frame)
      BY <1>2 DEF Tailable
    <3>3. /\ todo' \in Seq(Frame) /\ Len(todo') = 1 + Len(rest) /\ Len(rest) \in Nat
          /\ todo' # <<>> /\ Head(todo') = h /\ todo'[1] = h
          /\ \A i \in 2 .. 1 + Len(rest) : /\ i - 1 \in 1 .. Len(rest)
                                           /\ todo'[i] = rest[i - 1]
      BY <1>4, <3>1, <3>2, Prepended
    <3>4. \A i \in 1 .. Len(todo') : i = 1 \/ i \in 2 .. 1 + Len(rest)
      BY <3>3
    <3>5. \A i \in 2 .. 1 + Len(rest) : todo'[i].op \in Deferred \ (Calls \cup {"retiring"})
      BY <1>2, <3>3 DEF Tailable
    <3>6. StackOK'
      BY <3>3, <3>5 DEF StackOK
    <3>7. CallsOK'
      <4>1. \A i \in 1 .. Len(todo') : todo'[i].op \notin Calls
        BY <1>4, <3>3, <3>4, <3>5 DEF Calls
      <4> QED BY <4>1 DEF CallsOK
    <3>8. HeadOK'
      BY <1>4, <3>3, DeferredHead DEF Deferred
    <3>9. RetiringOK'
      <4>1. \A i \in 1 .. Len(todo') : todo'[i].op = "retiring" => i = 1
        BY <3>4, <3>5
      <4> QED BY <1>1, <1>4, <3>3, <4>1 DEF RetiringOK, durable
    <3>10. 1 \in 1 .. Len(todo')
      BY <3>3
    <3> QED BY <3>3, <3>6, <3>7, <3>8, <3>9, <3>10
  <2> QED BY <2>1, <2>2
<1>6. CellsOK'
  <2> SUFFICES ASSUME NEW m \in Observable, reg[m] # None, maker[m] # None, chunks[m] = Absent
               PROVE  reg[m].state = "retiring" /\ BeingReclaimed(m)'
    BY <1>1 DEF CellsOK, durable, callers
  <2>1. reg[m].state = "retiring" /\ m \in R
    BY <1>0 DEF CellsOK
  <2> QED BY <1>4, <1>5, <2>1 DEF BeingReclaimed
<1>7. StateOK'
  <2>1. held' \subseteq Res \X Token
    BY <1>1 DEF AdoptHeld
  <2> QED BY <1>0, <1>1, <1>5, <2>1 DEF StateOK, durable, txns, callers
<1> QED BY <1>0, <1>1, <1>5, <1>6, <1>7, SameCells, SameRows, Assemble
        DEF durable, txns, callers

-----------------------------------------------------------------------------
(* The theorems.                                                           *)

\* The initial state satisfies the invariant.
LEMMA InitInv == ASSUME Init PROVE Inv
<1> USE ConstantsOK DEF Init
<1>1. Idle0 \in Client
  BY DEF Idle0, Client, Phase
<1>2. StateOK
  BY <1>1 DEF StateOK
<1>3. StackOK /\ CallsOK /\ HeadOK /\ RetiringOK
  BY DEF StackOK, CallsOK, HeadOK, RetiringOK
<1>4. QueueOK /\ MakeOK /\ TxnOK /\ SizeCovered /\ CellsOK
  BY DEF QueueOK, MakeOK, TxnOK, SizeCovered, CellsOK, Idle0, Res
<1>5. WriterOK
  BY DEF WriterOK, WriterIs, Idle0
<1> QED BY <1>2, <1>3, <1>4, <1>5 DEF Inv

\* Every step preserves it.
LEMMA NextInv == ASSUME Inv, [Next]_vars PROVE Inv'
<1>1. CASE UNCHANGED vars
  <2>1. UNCHANGED <<durable, up, todo, index, txns, callers, crashes>>
    BY <1>1 DEF vars
  <2>2. todo' \in Seq(Frame) /\ StackOK' /\ CallsOK' /\ NoNewRetiring /\ HeadOK'
    BY <2>1, SameStack DEF durable, txns, callers
  <2> QED BY <2>1, <2>2, Untouched DEF index, callers
<1>2. CASE Continue
  BY <1>2, HolderStepInv, TransactionStepInv, RecoveryInv, AnswerInv, FinishRetiringInv
     DEF Continue
<1>3. CASE Crash \/ Restart
  BY <1>3, CrashInv, RestartInv
<1>4. ASSUME NEW p \in Pid,
             \/ Request(p) \/ Handle(p) \/ Down(p) \/ Advance(p) \/ Die(p)
             \/ \E m \in Memory : \/ \E d \in Deltas[p] : Grow(p, m, d)
                                  \/ \E n \in 1 .. MaxArena : NeedArena(p, m, n)
      PROVE  Inv'
  BY <1>4, RequestInv, HandleInv, DownInv, CallerInv
<1> QED BY <1>1, <1>2, <1>3, <1>4 DEF Next

\* The inductive invariant holds in every behaviour.
THEOREM Invariance == Spec => []Inv
<1>1. Init => Inv
  BY InitInv
<1>2. Inv /\ [Next]_vars => Inv'
  BY NextInv
<1> QED BY <1>1, <1>2, PTL DEF Spec

\* Every variable but the four counters, which are sums, keeps its type: in
\* particular a handler only ever leaves well-formed work behind.
THEOREM Typed == Spec => []StateOK
<1>1. Inv => StateOK
  BY DEF Inv
<1> QED BY <1>1, Invariance, PTL

\* A reader that takes a memory's size and then its chunk tuple finds the
\* chunks the size needs, whatever grew, died or was restarted meanwhile
\* (grow_commit publishes the tuple first, settle/4 rolls forward once it is out).
THEOREM ReadersCovered == Spec => []SizeCovered
<1>1. Inv => SizeCovered
  BY DEF Inv
<1> QED BY <1>1, Invariance, PTL

-----------------------------------------------------------------------------
(* The page counter and the byte counter.                                  *)

\* The handlers that have charged or discharged one side only.
Owing == {"insert", "txn", "grown", "giveback", "shrunk", "undone"}

\* What the handler in progress has on the page counter and in no row: pages
\* reserved and not yet charged, or no longer charged and not yet given back.
Owed ==
    IF todo = <<>> THEN 0
    ELSE LET f == Head(todo) IN
         IF f.op = "insert" THEN charged(f.res, NewRow(f.res, f.tok))
         ELSE IF f.op = "txn" THEN Cost(f.pid)
         ELSE IF f.op = "grown" THEN f.n - reg[f.res].pages
         ELSE IF f.op \in {"giveback", "shrunk", "undone"} THEN f.n ELSE 0

OwedBytes ==
    IF todo # <<>> /\ Head(todo).op \in {"insert", "giveback"} /\ Head(todo).res \in Image
    THEN ImageBytes[Head(todo).res] ELSE 0

Clear == todo = <<>> \/ Head(todo).op \notin Owing

\* From a crash until the end of init/1 the counters may be ahead.
Recounting == ~up \/ \E i \in 1 .. Len(todo) : todo[i].op = "reconcile"

\* A row is of a resource that was minted, and is charged for what its
\* transaction added.
RowFits(w) ==
    /\ w.growth >= 0 /\ w.arena >= 0
    /\ w.txn # None => /\ w.txn.pd >= 0 /\ w.txn.from <= w.txn.to
                       /\ w.txn.kind = "grow" => w.txn.pd <= w.growth /\ w.pages = w.txn.to
                       /\ w.txn.kind = "arena" => w.txn.pd <= w.arena
RowsFit ==
    /\ IsFiniteSet(minted)
    /\ \A r \in Res : reg[r] # None =>
         /\ r \in minted /\ RowFits(reg[r])
         /\ reg[r].txn # None => r \in Memory

FramesFit ==
    todo # <<>> => LET f == Head(todo) IN
        /\ f.op = "insert" => reg[f.res] = None
        /\ f.op \in {"giveback", "shrunk", "undone"} => f.n >= 0
        /\ f.op \in {"shrunk", "grown"} => f.res \in Heap /\ reg[f.res] # None
        /\ f.op = "grown" => f.n >= reg[f.res].pages
        /\ f.op = "txn" => /\ Cost(f.pid) >= 0
                           /\ cl[f.pid].kind = "arena" => cl[f.pid].seen <= cl[f.pid].n

Balanced ==
    /\ used \in Int /\ bytes \in Int
    /\ used >= Charges(reg) + Owed /\ bytes >= ImageTotal(reg) + OwedBytes
    /\ ~Recounting => used = Charges(reg) + Owed /\ bytes = ImageTotal(reg) + OwedBytes

Budget == RowsFit /\ FramesFit /\ Balanced


-----------------------------------------------------------------------------
(* Sums over the rows.                                                     *)

\* A registry whose rows can be added up.
Fit(rg) ==
    /\ rg \in [Res -> Row \cup {None}]
    /\ IsFiniteSet(Rows(rg))
    /\ \A r \in Res : rg[r] # None => RowFits(rg[r])

\* The kinds of resource are told apart.
LEMMA RowSets ==
    /\ Memory \subseteq Res /\ Heap \subseteq Res /\ Cell \subseteq Res /\ Image \subseteq Res
    /\ Memory \cap Image = {} /\ Memory \cap Heap = {} /\ Heap \cap Image = {}
    /\ None \notin Row
BY ConstantsOK DEF Res

\* So is the registry itself.
LEMMA RegFits == ASSUME StateOK, RowsFit PROVE Fit(reg)
<1>1. Rows(reg) \in SUBSET minted
  BY DEF RowsFit, Rows
<1>2. IsFiniteSet(Rows(reg))
  BY <1>1, FS_Subset DEF RowsFit
<1> QED BY <1>2 DEF Fit, RowsFit, StateOK

\* No row is charged for less than nothing.
LEMMA ChargedNat ==
    ASSUME NEW r \in Res, NEW w \in Row, RowFits(w) PROVE charged(r, w) \in Nat
<1>1. r \in Memory => table_pages(ImagePages[r]) \in Nat
  BY ConstantsOK, TableNat
<1>2. w.growth \in Nat /\ w.arena \in Nat /\ w.pages \in Nat
  BY DEF RowFits, Row
<1> DEFINE k == table_pages(ImagePages[r])
<1> HIDE DEF k
<1>3. r \in Memory => k + w.growth + w.arena \in Nat
  BY <1>1, <1>2 DEF k
<1> QED BY <1>2, <1>3 DEF charged, k

\* The functions Charges and ImageTotal add up.
Cost1(rg) == [r \in Rows(rg) |-> charged(r, rg[r])]
Size1(rg) == [i \in Rows(rg) \cap Image |-> ImageBytes[i]]

\* What each row adds to the two sums.
LEMMA CostAt ==
    ASSUME NEW rg
    PROVE  /\ \A r \in Rows(rg) : Cost1(rg)[r] = charged(r, rg[r])
           /\ \A i \in Rows(rg) \cap Image : Size1(rg)[i] = ImageBytes[i]
BY DEF Cost1, Size1

\* It adds a natural number.
LEMMA CostType ==
    ASSUME NEW rg, Fit(rg) PROVE /\ Cost1(rg) \in [Rows(rg) -> Nat]
                                 /\ Size1(rg) \in [Rows(rg) \cap Image -> Nat]
                                 /\ IsFiniteSet(Rows(rg) \cap Image)
<1>1. \A r \in Rows(rg) : charged(r, rg[r]) \in Nat
  <2> TAKE r \in Rows(rg)
  <2>1. r \in Res /\ rg[r] \in Row /\ RowFits(rg[r])
    BY DEF Fit, Rows
  <2> QED BY <2>1, ChargedNat
<1>2. Size1(rg) \in [Rows(rg) \cap Image -> Nat]
  BY ConstantsOK DEF Size1
<1>3. IsFiniteSet(Rows(rg) \cap Image)
  BY FS_Intersection DEF Fit
<1> QED BY <1>1, <1>2, <1>3 DEF Cost1

\* Natural numbers are integers.
LEMMA NatInt == ASSUME NEW S, NEW f \in [S -> Nat] PROVE f \in [S -> Int]
OBVIOUS

\* What the rows add up to is a natural number.
LEMMA ChargesNat ==
    ASSUME NEW rg, Fit(rg) PROVE Charges(rg) \in Nat /\ ImageTotal(rg) \in Nat
<1>1. Charges(rg) = Total(Cost1(rg)) /\ ImageTotal(rg) = Total(Size1(rg))
  BY DEF Charges, ImageTotal, Cost1, Size1
<1>2. Total(Cost1(rg)) \in Nat
  BY CostType, TotalNat DEF Fit
<1>3. Total(Size1(rg)) \in Nat
  BY CostType, TotalNat DEF Fit
<1> QED BY <1>1, <1>2, <1>3

\* Rewriting fields that are not charged changes no sum.
LEMMA SameCharges ==
    ASSUME NEW rg, NEW rh, Rows(rh) = Rows(rg),
           \A r \in Rows(rg) : charged(r, rh[r]) = charged(r, rg[r])
    PROVE  Charges(rh) = Charges(rg) /\ ImageTotal(rh) = ImageTotal(rg)
<1>1. Cost1(rh) = Cost1(rg)
  BY DEF Cost1
<1>2. Size1(rh) = Size1(rg)
  BY DEF Size1
<1> QED BY <1>1, <1>2 DEF Charges, ImageTotal, Cost1, Size1

\* A row rewritten moves the sum by what its charge moved.
LEMMA ChargeMoved ==
    ASSUME NEW rg, Fit(rg), NEW rh, Fit(rh), NEW r \in Res,
           \A y \in Res \ {r} : rh[y] = rg[y], rg[r] # None, rh[r] # None
    PROVE  /\ Charges(rh) = Charges(rg) - charged(r, rg[r]) + charged(r, rh[r])
           /\ ImageTotal(rh) = ImageTotal(rg)
<1>1. Rows(rh) = Rows(rg) /\ r \in Rows(rg)
  BY DEF Fit, Rows
<1>2. \A y \in Rows(rg) \ {r} : rh[y] = rg[y]
  BY DEF Fit, Rows
<1>3. \A y \in Rows(rg) \ {r} : Cost1(rh)[y] = Cost1(rg)[y]
  BY <1>1, <1>2 DEF Cost1
<1>4. Cost1(rh)[r] = charged(r, rh[r]) /\ Cost1(rg)[r] = charged(r, rg[r])
  BY <1>1 DEF Cost1
<1> DEFINE S == Rows(rg)
           f == Cost1(rg)
           g == Cost1(rh)
<1>5. f \in [S -> Int] /\ g \in [S -> Int] /\ IsFiniteSet(S)
  <2>1. f \in [S -> Nat]
    BY CostType
  <2>2. g \in [S -> Nat]
    BY <1>1, CostType
  <2>3. f \in [S -> Int]
    BY <2>1, NatInt
  <2>4. g \in [S -> Int]
    BY <2>2, NatInt
  <2> QED BY <2>3, <2>4 DEF Fit
<1>6. Total(Cost1(rh)) = Total(Cost1(rg)) - Cost1(rg)[r] + Cost1(rh)[r]
  <2>1. r \in S /\ \A y \in S \ {r} : g[y] = f[y]
    BY <1>1, <1>3
  <2> HIDE DEF S, f, g
  <2>2. Total(g) = Total(f) - f[r] + g[r]
    BY <1>5, <2>1, TotalChange
  <2> QED BY <2>2 DEF f, g
<1>7. Size1(rh) = Size1(rg)
  BY <1>1 DEF Size1
<1> QED BY <1>4, <1>6, <1>7 DEF Charges, ImageTotal, Cost1, Size1

\* A new row adds its charge, and an image its bytes.
LEMMA ChargeAdded ==
    ASSUME NEW rg, Fit(rg), NEW rh, Fit(rh), NEW r \in Res,
           \A y \in Res \ {r} : rh[y] = rg[y], rg[r] = None, rh[r] # None
    PROVE  /\ Charges(rh) = Charges(rg) + charged(r, rh[r])
           /\ ImageTotal(rh) = ImageTotal(rg) + (IF r \in Image THEN ImageBytes[r] ELSE 0)
<1>1. Rows(rh) = Rows(rg) \cup {r} /\ r \notin Rows(rg)
  BY DEF Fit, Rows
<1>2. \A y \in Rows(rg) : rh[y] = rg[y]
  BY <1>1 DEF Fit, Rows
<1> DEFINE S == Rows(rg)
           f == Cost1(rg)
           g == Cost1(rh)
<1>3. \A y \in S : g[y] = f[y]
  <2> SUFFICES ASSUME NEW y \in S PROVE g[y] = f[y]
    OBVIOUS
  <2>1. y \in Rows(rh) /\ rh[y] = rg[y]
    BY <1>1, <1>2
  <2>2. g[y] = charged(y, rh[y])
    BY <2>1, CostAt
  <2>3. f[y] = charged(y, rg[y])
    BY CostAt
  <2> QED BY <2>1, <2>2, <2>3
<1>4. Cost1(rh)[r] = charged(r, rh[r])
  BY <1>1 DEF Cost1
<1>5. f \in [S -> Int] /\ g \in [S \cup {r} -> Int] /\ IsFiniteSet(S)
  <2>1. f \in [S -> Nat]
    BY CostType
  <2>2. g \in [S \cup {r} -> Nat]
    BY <1>1, CostType
  <2>3. f \in [S -> Int]
    BY <2>1, NatInt
  <2>4. g \in [S \cup {r} -> Int]
    BY <2>2, NatInt
  <2> QED BY <2>3, <2>4 DEF Fit
<1>6. Total(Cost1(rh)) = Total(Cost1(rg)) + Cost1(rh)[r]
  <2> DEFINE T == S \cup {r}
  <2>1. r \notin S /\ T = S \cup {r} /\ g \in [T -> Int]
    BY <1>1, <1>5
  <2> HIDE DEF S, f, g, T
  <2>2. Total(g) = Total(f) + g[r]
    BY <1>3, <1>5, <2>1, TotalMore
  <2> QED BY <2>2 DEF f, g
<1>7. CASE r \in Image
  <2> DEFINE I == Rows(rg) \cap Image
             h == Size1(rg)
             k == Size1(rh)
  <2>1. Rows(rh) \cap Image = I \cup {r} /\ r \notin I
    BY <1>1, <1>7
  <2>2. IsFiniteSet(I) /\ h \in [I -> Int] /\ k \in [I \cup {r} -> Int]
    <3>1. h \in [I -> Nat] /\ IsFiniteSet(I)
      BY CostType
    <3>2. k \in [I \cup {r} -> Nat]
      BY <2>1, CostType
    <3>3. h \in [I -> Int]
      BY <3>1, NatInt
    <3>4. k \in [I \cup {r} -> Int]
      BY <3>2, NatInt
    <3> QED BY <3>1, <3>3, <3>4
  <2>3. \A y \in I : k[y] = h[y]
    BY <2>1 DEF Size1
  <2>4. Size1(rh)[r] = ImageBytes[r]
    BY <2>1 DEF Size1
  <2>5. Total(Size1(rh)) = Total(Size1(rg)) + Size1(rh)[r]
    <3> DEFINE T == I \cup {r}
    <3>00. r \notin I
      BY <2>1
    <3>0. T = I \cup {r} /\ k \in [T -> Int]
      BY <2>2
    <3> HIDE DEF I, h, k, T, S, f, g
    <3>1. Total(k) = Total(h) + k[r]
      BY <2>2, <2>3, <3>0, <3>00, TotalMore
    <3> QED BY <3>1 DEF h, k
  <2> QED BY <1>4, <1>6, <1>7, <2>4, <2>5 DEF Charges, ImageTotal, Cost1, Size1
<1>8. CASE r \notin Image
  <2>1. Rows(rh) \cap Image = Rows(rg) \cap Image
    BY <1>1, <1>8
  <2>2. Size1(rh) = Size1(rg)
    BY <2>1 DEF Size1
  <2>3. ImageTotal(rg) \in Nat
    BY ChargesNat
  <2>4. ImageTotal(rh) = ImageTotal(rg)
    BY <2>2 DEF ImageTotal, Size1
  <2>5. Charges(rh) = Charges(rg) + charged(r, rh[r])
    <3>1. \A x : Charges(x) = Total(Cost1(x))
      BY DEF Charges, Cost1
    <3> HIDE DEF S, f, g
    <3> QED BY <1>4, <1>6, <3>1
  <2> QED BY <1>8, <2>3, <2>4, <2>5
<1> QED BY <1>7, <1>8

\* A row deleted takes its charge with it.
LEMMA ChargeGone ==
    ASSUME NEW rg, Fit(rg), NEW rh, Fit(rh), NEW r \in Res,
           \A y \in Res \ {r} : rh[y] = rg[y], rg[r] # None, rh[r] = None
    PROVE  /\ Charges(rg) = Charges(rh) + charged(r, rg[r])
           /\ ImageTotal(rg) = ImageTotal(rh) + (IF r \in Image THEN ImageBytes[r] ELSE 0)
<1>1. \A y \in Res \ {r} : rg[y] = rh[y]
  OBVIOUS
<1> QED BY <1>1, ChargeAdded

-----------------------------------------------------------------------------
(* The stack, as far as the counters go.                                   *)

\* A handler that is done with both sides owes nothing.
LEMMA NothingOwed ==
    /\ Clear => Owed = 0 /\ OwedBytes = 0
    /\ Clear' => Owed' = 0 /\ OwedBytes' = 0 /\ FramesFit'
<1>1. Clear => Owed = 0 /\ OwedBytes = 0
  BY DEF Clear, Owing, Owed, OwedBytes
<1>2. Clear' => Owed' = 0 /\ OwedBytes' = 0
  BY DEF Clear, Owing, Owed, OwedBytes
<1>3. Clear' => FramesFit'
  BY DEF Clear, Owing, FramesFit
<1> QED BY <1>1, <1>2, <1>3

\* A frame replaced by the frames s.
LEMMA Popped ==
    ASSUME Inv, todo # <<>>, NEW F, NEW s \in Seq(F), Then(s)
    PROVE  /\ s # <<>> => todo' # <<>> /\ Head(todo') = s[1]
           /\ s = <<>> => Clear'
           /\ up' = up /\ Head(todo).op # "reconcile" /\ Recounting => Recounting'
<1> DEFINE G == Frame \cup F
           n == Len(s)
<1>1. todo \in Seq(G) /\ s \in Seq(G) /\ todo' = s \o Tail(todo) /\ todo \in Seq(Frame)
  BY DEF Then, Inv, StateOK
<1> HIDE DEF G
<1>2. /\ n \in Nat /\ Len(todo) \in Nat
      /\ todo' \in Seq(G) /\ Len(todo') = n + Len(todo) - 1
      /\ \A i \in 1 .. n : todo'[i] = s[i]
      /\ \A i \in n + 1 .. n + Len(todo) - 1 : todo'[i] = todo[i - n + 1]
  BY <1>1, Replaced
<1>3. s # <<>> => n > 0
  BY <1>1
<1>4. ASSUME s # <<>> PROVE todo' # <<>> /\ Head(todo') = s[1]
  BY <1>1, <1>2, <1>3, <1>4
<1>5. ASSUME s = <<>> PROVE Clear'
  <2>1. n = 0
    BY <1>5
  <2> SUFFICES ASSUME todo' # <<>> PROVE Head(todo').op \notin Owing
    BY DEF Clear
  <2>2. Head(todo') = todo'[1] /\ 1 \in n + 1 .. n + Len(todo) - 1
    BY <1>2, <2>1
  <2>3. todo'[1] = todo[2] /\ 2 \in 2 .. Len(todo)
    BY <1>2, <2>1, <2>2
  <2> QED BY <2>2, <2>3 DEF Inv, StackOK, Deferred, Owing
<1>6. ASSUME up' = up, Head(todo).op # "reconcile", Recounting PROVE Recounting'
  <2>1. CASE ~up
    BY <1>6, <2>1 DEF Recounting
  <2>2. CASE up
    <3>1. PICK i \in 1 .. Len(todo) : todo[i].op = "reconcile"
      BY <1>6, <2>2 DEF Recounting
    <3>2. i # 1
      BY <1>1, <1>6, <3>1
    <3> DEFINE j == n + i - 1
    <3>3. j \in n + 1 .. n + Len(todo) - 1 /\ j - n + 1 = i /\ j \in 1 .. Len(todo')
      BY <1>2, <3>2
    <3>4. todo'[j] = todo[i]
      BY <1>2, <3>3
    <3> QED BY <3>1, <3>3, <3>4 DEF Recounting
  <2> QED BY <2>1, <2>2
<1> QED BY <1>4, <1>5, <1>6

\* The ways to go on.
LEMMA GoesOn ==
    ASSUME Inv, todo # <<>>, Head(todo).op # "reconcile", up' = up
    PROVE  /\ Then(<<>>) => Clear' /\ (Recounting => Recounting')
           /\ \A a : Then(<<a>>) => /\ todo' # <<>> /\ Head(todo') = a
                                    /\ Recounting => Recounting'
           /\ \A op \in Deferred : \A S : Then(Each(op, S)) =>
                /\ Clear' /\ (Recounting => Recounting')
           /\ \A a, op, S : Then(<<a>> \o Each(op, S)) =>
                /\ todo' # <<>> /\ Head(todo') = a
                /\ Recounting => Recounting'
<1>1. Then(<<>>) => Clear' /\ (Recounting => Recounting')
  <2>1. <<>> \in Seq({})
    OBVIOUS
  <2> QED BY <2>1, Popped
<1>2. ASSUME NEW a, Then(<<a>>)
      PROVE  todo' # <<>> /\ Head(todo') = a /\ (Recounting => Recounting')
  <2>1. <<a>> \in Seq({a}) /\ <<a>> # <<>> /\ <<a>>[1] = a
    OBVIOUS
  <2> QED BY <1>2, <2>1, Popped
<1>3. ASSUME NEW op \in Deferred, NEW S, Then(Each(op, S))
      PROVE  Clear' /\ (Recounting => Recounting')
  <2>1. CASE S = {}
    BY <1>1, <1>3, <2>1 DEF Each
  <2>2. CASE S # {}
    <3> DEFINE a == [op |-> op, set |-> S]
    <3>0. a.op = op /\ op \notin Owing
      BY DEF Deferred, Owing
    <3> HIDE DEF a
    <3>1. Then(<<a>>)
      BY <1>3, <2>2 DEF Each, a
    <3>2. todo' # <<>> /\ Head(todo') = a /\ (Recounting => Recounting')
      BY <1>2, <3>1
    <3> QED BY <3>0, <3>2 DEF Clear
  <2> QED BY <2>1, <2>2
<1>4. ASSUME NEW a, NEW op, NEW S, Then(<<a>> \o Each(op, S))
      PROVE  todo' # <<>> /\ Head(todo') = a /\ (Recounting => Recounting')
  <2> DEFINE b == [op |-> op, set |-> S]
             s == <<a>> \o Each(op, S)
  <2>1. Each(op, S) \in Seq({a, b})
    <3>1. Each(op, S) = IF S = {} THEN <<>> ELSE <<b>>
      BY DEF Each
    <3>2. <<>> \in Seq({a, b}) /\ <<b>> \in Seq({a, b})
      <4> HIDE DEF b
      <4> QED OBVIOUS
    <3> QED BY <3>1, <3>2
  <2>2. s \in Seq({a, b}) /\ s # <<>> /\ s[1] = a
    <3>1. a \in {a, b}
      OBVIOUS
    <3> HIDE DEF b
    <3> QED BY <2>1, <3>1, Prepended
  <2> HIDE DEF s
  <2>3. Then(s)
    BY <1>4 DEF s
  <2> QED BY <2>2, <2>3, Popped
<1> QED BY <1>1, <1>2, <1>3, <1>4

-----------------------------------------------------------------------------
(* What growths and extensions cost.                                       *)

\* More slots for more chunks.
LEMMA SlotsMono ==
    ASSUME NEW h \in Nat, NEW t \in Nat, h <= t
    PROVE  arena_slots(h) \in Nat /\ arena_slots(t) \in Nat /\ arena_slots(h) <= arena_slots(t)
BY DEF arena_slots

\* An extension costs no less than nothing.
LEMMA ArenaNat ==
    ASSUME NEW h \in Nat, NEW t \in Nat, h <= t
    PROVE  arena_cost(h, t) \in Nat
<1>1. arena_slots(t) - arena_slots(h) \in Nat
  BY SlotsMono
<1> DEFINE d == arena_slots(t) - arena_slots(h)
<1> HIDE DEF d
<1>2. d \in Nat => d \div 16 \in Nat
  OBVIOUS
<1> QED BY <1>1, <1>2 DEF arena_cost, d

\* A larger memory has no fewer growth pages.
LEMMA GrowthMono ==
    ASSUME NEW k \in Nat, NEW l \in Nat, NEW i \in Nat, NEW c \in Nat \ {0}, k <= l
    PROVE  growth_pages(k, i, c) <= growth_pages(l, i, c)
<1> DEFINE x == IF k > i THEN k - i ELSE 0
           y == IF l > i THEN l - i ELSE 0
           a == chunk_count(x, c)
           b == chunk_count(y, c)
<1>1. x \in Nat /\ y \in Nat /\ x <= y
  OBVIOUS
<1> HIDE DEF x, y
<1>2. a \in Nat /\ b \in Nat /\ a <= b
  BY <1>1, ChunkCountNat, ChunkCountMono
<1>3. growth_pages(k, i, c) = a * c /\ growth_pages(l, i, c) = b * c
  BY DEF growth_pages, x, y
<1> HIDE DEF a, b
<1>4. a * c <= b * c
  <2>1. PICK e \in Nat : b = a + e
    <3>1. b - a \in Nat /\ b = a + (b - a)
      BY <1>2
    <3> QED BY <3>1
  <2>2. (a + e) * c = a * c + e * c /\ e * c \in Nat /\ a * c \in Nat
    BY <1>2
  <2> HIDE DEF a, b
  <2> QED BY <2>1, <2>2
<1> QED BY <1>3, <1>4

\* What a request costs is an integer, and not negative when the arena it
\* starts from is no larger than the one it asks for.
LEMMA CostFits ==
    ASSUME StateOK, NEW p \in Pid, cl[p].res \in Memory, reg[cl[p].res] # None
    PROVE  /\ Cost(p) \in Int
           /\ (cl[p].kind = "arena" => cl[p].seen <= cl[p].n) => Cost(p) >= 0
<1> DEFINE c == cl[p]
           r == c.res
           k == reg[r].pages
<1>1. c \in Client /\ r \in Res /\ reg[r] \in Row
  BY RowSets DEF StateOK
<1>2. /\ c.n \in Nat /\ c.seen \in Nat /\ c.kind \in {"grow", "arena"} /\ k \in Nat
      /\ ImagePages[r] \in Nat /\ ChunkPages[r] \in Nat \ {0}
  BY <1>1, ConstantsOK DEF Client, Row
<1>3. Cost(p) = IF c.kind = "grow"
                THEN growth_pages(k + c.n, ImagePages[r], ChunkPages[r])
                     - growth_pages(k, ImagePages[r], ChunkPages[r])
                ELSE arena_cost(c.seen, c.n)
  BY DEF Cost
<1> HIDE DEF c, k
<1>4. /\ growth_pages(k + c.n, ImagePages[r], ChunkPages[r]) \in Nat
      /\ growth_pages(k, ImagePages[r], ChunkPages[r]) \in Nat
      /\ growth_pages(k, ImagePages[r], ChunkPages[r])
            <= growth_pages(k + c.n, ImagePages[r], ChunkPages[r])
  <2>1. k + c.n \in Nat /\ k <= k + c.n
    BY <1>2
  <2> DEFINE l == k + c.n
  <2> HIDE DEF l, r
  <2>2. growth_pages(l, ImagePages[r], ChunkPages[r]) \in Nat
        /\ growth_pages(k, ImagePages[r], ChunkPages[r]) \in Nat
    BY <1>2, <2>1, GrowthNat DEF l
  <2>3. growth_pages(k, ImagePages[r], ChunkPages[r])
            <= growth_pages(l, ImagePages[r], ChunkPages[r])
    BY <1>2, <2>1, GrowthMono DEF l
  <2> QED BY <2>2, <2>3 DEF l
<1>5. arena_cost(c.seen, c.n) \in Int /\ (c.seen <= c.n => arena_cost(c.seen, c.n) \in Nat)
  BY <1>2, ArenaInt, ArenaNat
<1> DEFINE ga == growth_pages(k + c.n, ImagePages[r], ChunkPages[r])
           gb == growth_pages(k, ImagePages[r], ChunkPages[r])
           ac == arena_cost(c.seen, c.n)
<1> HIDE DEF ga, gb, ac
<1>6. Cost(p) = IF c.kind = "grow" THEN ga - gb ELSE ac
  BY <1>3 DEF ga, gb, ac
<1>7. ga \in Nat /\ gb \in Nat /\ gb <= ga /\ ac \in Int /\ (c.seen <= c.n => ac \in Nat)
  BY <1>4, <1>5 DEF ga, gb, ac
<1> QED BY <1>2, <1>6, <1>7 DEF c

-----------------------------------------------------------------------------
(* Moving the counters.                                                    *)

\* What is charged for a new row fits.
LEMMA NewFits ==
    ASSUME NEW r \in Res, NEW t \in Token
    PROVE  NewRow(r, t) \in Row /\ RowFits(NewRow(r, t)) /\ charged(r, NewRow(r, t)) \in Nat
<1>1. NewRow(r, t) \in Row /\ NewRow(r, t).txn = None
  BY NewRowTyped
<1>2. r \in Memory => growth_pages(InitPages[r], ImagePages[r], ChunkPages[r]) \in Nat
  BY GrowthNat, ConstantsOK
<1> DEFINE g == growth_pages(InitPages[r], ImagePages[r], ChunkPages[r])
<1> HIDE DEF g
<1>3. NewRow(r, t).growth = (IF r \in Memory THEN g ELSE 0) /\ NewRow(r, t).arena = 0
  BY DEF NewRow, g
<1>4. RowFits(NewRow(r, t))
  <2>1. NewRow(r, t).growth >= 0
    BY <1>2, <1>3 DEF g
  <2> QED BY <1>1, <1>3, <2>1 DEF RowFits
<1> QED BY <1>1, <1>4, ChargedNat

\* What a handler owes is not negative.
LEMMA OwedNat ==
    ASSUME Inv, Budget PROVE Owed \in Nat /\ OwedBytes \in Nat
<1> DEFINE f == Head(todo)
<1>1. CASE Clear
  BY <1>1, NothingOwed
<1>2. CASE ~Clear
  <2>1. todo # <<>> /\ f \in Frame /\ f.op \in Owing
    BY <1>2 DEF Clear, Inv, StateOK
  <2>2. OwedBytes \in Nat
    BY ConstantsOK DEF OwedBytes
  <2>3. CASE f.op = "insert"
    <3>1. f.res \in Res /\ f.tok \in Token
      BY <2>1, <2>3, FrameFields
    <3>2. Owed = charged(f.res, NewRow(f.res, f.tok))
      BY <2>1, <2>3 DEF Owed
    <3> QED BY <2>2, <3>1, <3>2, NewFits
  <2>4. CASE f.op = "txn"
    <3>1. f.pid \in Pid /\ Owed = Cost(f.pid) /\ Cost(f.pid) >= 0
      BY <2>1, <2>4, FrameFields DEF Owed, Budget, FramesFit
    <3>2. cl[f.pid].res \in Memory /\ reg[cl[f.pid].res] # None
      BY <2>1, <2>4, <3>1 DEF Inv, HeadOK, WriterOK, WriterIs
    <3>3. Cost(f.pid) \in Int
      BY <3>1, <3>2, CostFits DEF Inv
    <3> QED BY <2>2, <3>1, <3>3
  <2>5. CASE f.op = "grown"
    <3>1. /\ Owed = f.n - reg[f.res].pages /\ f.n >= reg[f.res].pages /\ f.n \in Nat
          /\ f.res \in Res /\ reg[f.res] # None
      BY <2>1, <2>5, FrameFields DEF Owed, Budget, FramesFit
    <3>2. reg[f.res].pages \in Nat
      BY <3>1 DEF Inv, StateOK, Row
    <3> QED BY <2>2, <3>1, <3>2
  <2>6. CASE f.op \in {"giveback", "shrunk", "undone"}
    <3>1. Owed = f.n /\ f.n >= 0 /\ f.n \in Int
      BY <2>1, <2>6, FrameFields DEF Owed, Budget, FramesFit
    <3> QED BY <2>2, <3>1
  <2> QED BY <2>1, <2>3, <2>4, <2>5, <2>6 DEF Owing
<1> QED BY <1>1, <1>2

\* The rows after a step can be added up.
LEMMA NextFits == ASSUME Inv', RowsFit' PROVE Fit(reg')
<1>2. Rows(reg') \in SUBSET minted'
  BY DEF RowsFit, Rows
<1>3. IsFiniteSet(Rows(reg'))
  BY <1>2, FS_Subset DEF RowsFit
<1> QED BY <1>3 DEF Fit, RowsFit, StateOK, Inv

\* The counters and what they count move together.
LEMMA Moves ==
    ASSUME Inv, Inv', Budget, RowsFit', FramesFit', NEW a \in Int, NEW b \in Int,
           used' = used + a, bytes' = bytes + b, Owed' \in Int, OwedBytes' \in Int,
           Charges(reg') + Owed' = Charges(reg) + Owed + a,
           ImageTotal(reg') + OwedBytes' = ImageTotal(reg) + OwedBytes + b,
           Recounting => Recounting'
    PROVE  Budget'
<1>1. Charges(reg) \in Nat /\ ImageTotal(reg) \in Nat
  BY RegFits, ChargesNat DEF Inv, Budget
<1>2. Fit(reg')
  BY NextFits
<1>3. Charges(reg') \in Nat /\ ImageTotal(reg') \in Nat
  BY <1>2, ChargesNat
<1>4. Owed \in Nat /\ OwedBytes \in Nat
  BY OwedNat
<1> DEFINE c == Charges(reg)
           d == Charges(reg')
           i == ImageTotal(reg)
           j == ImageTotal(reg')
           o == Owed
           q == OwedBytes
           ow == Owed'
           qw == OwedBytes'
<1> HIDE DEF c, d, i, j, o, q, ow, qw
<1>5. /\ c \in Nat /\ d \in Nat /\ i \in Nat /\ j \in Nat /\ o \in Nat /\ q \in Nat
      /\ ow \in Int /\ qw \in Int
      /\ d + ow = c + o + a /\ j + qw = i + q + b
      /\ used \in Int /\ bytes \in Int /\ used >= c + o /\ bytes >= i + q
      /\ ~Recounting => used = c + o /\ bytes = i + q
  BY <1>1, <1>3, <1>4 DEF c, d, i, j, o, q, ow, qw, Budget, Balanced
<1>6. /\ used' \in Int /\ bytes' \in Int /\ used' >= d + ow /\ bytes' >= j + qw
      /\ ~Recounting => used' = d + ow /\ bytes' = j + qw
  BY <1>5
<1>7. Balanced'
  BY <1>6 DEF d, j, ow, qw, Balanced
<1> QED BY <1>7 DEF Budget

\* A step that charges nothing.
LEMMA Plain ==
    ASSUME Inv, Inv', Budget, RowsFit', Clear, Clear', used' = used, bytes' = bytes,
           Charges(reg') = Charges(reg), ImageTotal(reg') = ImageTotal(reg),
           Recounting => Recounting'
    PROVE  Budget'
<1>1. Owed = 0 /\ OwedBytes = 0 /\ Owed' = 0 /\ OwedBytes' = 0 /\ FramesFit'
  BY NothingOwed
<1>2. Charges(reg) \in Nat /\ ImageTotal(reg) \in Nat
  BY RegFits, ChargesNat DEF Inv, Budget
<1>3. used \in Int /\ bytes \in Int
  BY DEF Budget, Balanced
<1>4. /\ used' = used + 0 /\ bytes' = bytes + 0
      /\ Charges(reg') + Owed' = Charges(reg) + Owed + 0
      /\ ImageTotal(reg') + OwedBytes' = ImageTotal(reg) + OwedBytes + 0
  BY <1>1, <1>2, <1>3
<1>5. 0 \in Int
  OBVIOUS
<1> QED BY <1>1, <1>4, <1>5, Moves

\* Rows that stay stay charged.
LEMMA KeptRows ==
    ASSUME RowsFit, UNCHANGED <<reg, minted>> PROVE RowsFit'
BY DEF RowsFit, RowFits

\* A step that leaves the rows alone.
LEMMA Unbilled ==
    ASSUME Inv, Inv', Budget, Clear, Clear', UNCHANGED <<reg, used, bytes, minted>>,
           Recounting => Recounting'
    PROVE  Budget'
<1>1. RowsFit'
  BY KeptRows DEF Budget
<1>2. Charges(reg') = Charges(reg) /\ ImageTotal(reg') = ImageTotal(reg)
  OBVIOUS
<1> QED BY <1>1, <1>2, Plain

\* A row rewritten but for what it is charged for.
LEMMA Rewritten ==
    ASSUME Inv, Inv', RowsFit, minted' = minted, NEW r \in Res,
           \A y \in Res \ {r} : reg'[y] = reg[y], reg[r] # None, reg'[r] # None,
           reg'[r].pages = reg[r].pages, reg'[r].growth = reg[r].growth,
           reg'[r].arena = reg[r].arena, reg'[r].txn \in {reg[r].txn, None}
    PROVE  /\ RowsFit'
           /\ Charges(reg') = Charges(reg) /\ ImageTotal(reg') = ImageTotal(reg)
<1>1. RowsFit'
  <2>1. RowFits(reg[r]) /\ r \in minted /\ IsFiniteSet(minted')
    BY DEF RowsFit
  <2>2. RowFits(reg'[r])
    BY <2>1 DEF RowFits
  <2>3. \A y \in Res : reg'[y] # None =>
           /\ y \in minted' /\ RowFits(reg'[y])
           /\ reg'[y].txn # None => y \in Memory
    <3> TAKE y \in Res
    <3>1. CASE y = r
      BY <2>1, <2>2, <3>1 DEF RowsFit
    <3>2. CASE y # r
      BY <3>2 DEF RowsFit
    <3> QED BY <3>1, <3>2
  <2> QED BY <2>1, <2>3 DEF RowsFit
<1>2. Rows(reg') = Rows(reg)
  BY DEF Rows
<1>3. \A y \in Rows(reg) : charged(y, reg'[y]) = charged(y, reg[y])
  <2> TAKE y \in Rows(reg)
  <2>1. CASE y = r
    <3> DEFINE v == reg'[r]
               w == reg[r]
    <3>1. v.pages = w.pages /\ v.growth = w.growth /\ v.arena = w.arena
      OBVIOUS
    <3> HIDE DEF v, w
    <3>2. charged(r, v) = charged(r, w)
      BY <3>1 DEF charged
    <3> QED BY <2>1, <3>2 DEF v, w
  <2>2. CASE y # r
    BY <2>2 DEF Rows
  <2> QED BY <2>1, <2>2
<1>4. Charges(reg') = Charges(reg) /\ ImageTotal(reg') = ImageTotal(reg)
  BY <1>2, <1>3, SameCharges
<1> QED BY <1>1, <1>4

\* A step of a caller.
LEMMA Aside ==
    ASSUME Inv, Inv', Budget, UNCHANGED <<todo, reg, used, bytes, up, minted>>,
           \A p \in Pid : cl[p].ph \in {"begin", "queued"} => cl'[p] = cl[p]
    PROVE  Budget'
<1>1. Recounting => Recounting'
  BY DEF Recounting
<1>2. CASE Clear
  BY <1>1, <1>2, Unbilled DEF Clear
<1>3. CASE ~Clear
  <2> DEFINE f == Head(todo)
  <2>1. todo # <<>> /\ f \in Frame
    BY <1>3 DEF Clear, Inv, StateOK
  <2>2. f.op = "txn" => cl'[f.pid] = cl[f.pid] /\ Cost(f.pid)' = Cost(f.pid)
    <3> SUFFICES ASSUME f.op = "txn" PROVE cl'[f.pid] = cl[f.pid] /\ Cost(f.pid)' = Cost(f.pid)
      OBVIOUS
    <3>1. f.pid \in Pid /\ cl[f.pid].ph \in {"begin", "queued"}
      BY <2>1, FrameFields DEF Inv, HeadOK
    <3>2. cl'[f.pid] = cl[f.pid]
      BY <3>1
    <3> QED BY <3>2 DEF Cost
  <2>3. Owed' = Owed /\ OwedBytes' = OwedBytes
    BY <2>2 DEF Owed, OwedBytes
  <2>4. FramesFit'
    BY <2>1, <2>2 DEF FramesFit, Budget
  <2>5. RowsFit'
    BY KeptRows DEF Budget
  <2>6. Balanced'
    BY <1>1, <2>3 DEF Balanced, Budget
  <2> QED BY <2>4, <2>5, <2>6 DEF Budget
<1> QED BY <1>2, <1>3

-----------------------------------------------------------------------------
(* Requests.                                                               *)

\* Between two requests nothing is owed and nothing recounted.
LEMMA FromIdle ==
    ASSUME Idle PROVE Clear /\ ~Recounting /\ Owed = 0 /\ OwedBytes = 0
<1>1. Clear /\ ~Recounting
  BY DEF Idle, Clear, Recounting
<1> QED BY <1>1, NothingOwed

\* Frames that may lie anywhere owe nothing.
LEMMA TailClear ==
    ASSUME NEW s, Tailable(s), todo' = s PROVE Clear'
<1>1. CASE s = <<>>
  BY <1>1 DEF Clear
<1>2. CASE s # <<>>
  <2>1. s[1].op \in Deferred
    BY <1>2, PushTail
  <2>2. Head(todo') = s[1]
    BY <1>2 DEF Tailable
  <2> QED BY <2>1, <2>2 DEF Clear, Deferred, Owing
<1> QED BY <1>1, <1>2

\* A resource is reserved before its row is written.
LEMMA Inserting ==
    ASSUME Inv, Inv', Budget, Idle, NEW p \in Pid, NEW r \in Res \ minted, NEW t \in Token,
           todo' = Insert(p, r, t), reg' = reg, minted' = minted \cup {r},
           used' = used + charged(r, NewRow(r, t)),
           bytes' = bytes + (IF r \in Image THEN ImageBytes[r] ELSE 0)
    PROVE  Budget'
<1>1. Clear /\ ~Recounting /\ Owed = 0 /\ OwedBytes = 0
  BY FromIdle
<1>2. reg[r] = None /\ RowsFit'
  <2>1. IsFiniteSet(minted')
    BY FS_AddElement DEF Budget, RowsFit
  <2> QED BY <2>1 DEF Budget, RowsFit, RowFits
<1> DEFINE f == [op |-> "insert", pid |-> p, res |-> r, tok |-> t]
           c == charged(r, NewRow(r, t))
           b == IF r \in Image THEN ImageBytes[r] ELSE 0
<1>3. todo' # <<>> /\ Head(todo') = f
  BY DEF Insert
<1>4. c \in Nat /\ b \in Nat
  BY NewFits, ConstantsOK
<1>5. Owed' = c
  BY <1>3 DEF Owed
<1>6. OwedBytes' = b
  BY <1>3 DEF OwedBytes
<1>7. FramesFit'
  BY <1>2, <1>3 DEF FramesFit
<1> HIDE DEF c, b, f
<1>8. Charges(reg') + Owed' = Charges(reg) + Owed + c
      /\ ImageTotal(reg') + OwedBytes' = ImageTotal(reg) + OwedBytes + b
  <2>1. Charges(reg) \in Nat /\ ImageTotal(reg) \in Nat
    BY RegFits, ChargesNat DEF Inv, Budget
  <2> QED BY <1>1, <1>4, <1>5, <1>6, <2>1
<1> QED BY <1>1, <1>2, <1>4, <1>5, <1>6, <1>7, <1>8, Moves DEF c, b

\* Requests.
LEMMA RequestBudget ==
    ASSUME Inv, Inv', Budget, NEW p \in Pid, Request(p) PROVE Budget'
<1>0. StateOK
  BY DEF Inv
<1>f. RowsFit /\ used \in Int /\ bytes \in Int
  BY DEF Budget, Balanced
<1>d. ASSUME Idle, NEW s, Tailable(s), todo' = s, UNCHANGED <<reg, used, bytes, minted>>
      PROVE  Budget'
  <2>1. Clear /\ Clear' /\ ~Recounting
    BY <1>d, FromIdle, TailClear
  <2> QED BY <1>d, <2>1, Unbilled
<1>1. ASSUME NEW t \in Token, NEW r \in Res, Reserve(p, r, t) PROVE Budget'
  <2>1. Idle /\ r \in Res \ minted /\ r \notin Image /\ UNCHANGED <<reg, bytes>>
    BY <1>1 DEF Reserve
  <2>2. CASE /\ todo' = Insert(p, r, t) /\ minted' = minted \cup {r}
             /\ used' = used + charged(r, NewRow(r, t))
    <3>1. bytes' = bytes + (IF r \in Image THEN ImageBytes[r] ELSE 0)
      BY <1>f, <2>1
    <3> QED BY <2>1, <2>2, <3>1, Inserting
  <2>3. CASE UNCHANGED <<used, minted, todo>>
    <3>1. Clear /\ Clear' /\ ~Recounting
      BY <2>1, <2>3, FromIdle DEF Clear
    <3> QED BY <2>1, <2>3, <3>1, Unbilled
  <2> QED BY <1>1, <2>2, <2>3 DEF Reserve
<1>2. ASSUME NEW t \in Token, NEW r \in Res, Acquire(p, r, t) PROVE Budget'
  <2>1. Idle /\ UNCHANGED <<used, bytes, minted, todo>>
    BY <1>2 DEF Acquire, callers
  <2>2. Clear /\ Clear' /\ ~Recounting
    BY <2>1, FromIdle DEF Clear
  <2>3. CASE UNCHANGED reg
    BY <2>1, <2>2, <2>3, Unbilled
  <2>4. CASE reg' = [reg EXCEPT ![r].holders = @ \cup {t}] /\ Live(r)
    <3> DEFINE w == [reg[r] EXCEPT !.holders = @ \cup {t}]
    <3>1. reg[r] \in Row /\ reg[r] # None
      BY <1>0, <2>4 DEF StateOK, Live
    <3>2. reg' = [reg EXCEPT ![r] = w] /\ DOMAIN reg = Res
      BY <1>0, <2>4 DEF StateOK
    <3>3. w.pages = reg[r].pages /\ w.growth = reg[r].growth /\ w.arena = reg[r].arena
          /\ w.txn = reg[r].txn
      BY <3>1 DEF Row
    <3>4. w # None
      <4>1. reg[r].holders \cup {t} \in SUBSET Token
        BY ZenonT(60), <3>1, RowFields
      <4>2. w \in Row
        BY ZenonT(60), <3>1, <4>1, RowFields
      <4> QED BY <4>2, RowSets
    <3> HIDE DEF w
    <3>5. reg'[r] = w /\ \A y \in Res \ {r} : reg'[y] = reg[y]
      BY <3>2
    <3>6. RowsFit' /\ Charges(reg') = Charges(reg) /\ ImageTotal(reg') = ImageTotal(reg)
      BY <1>f, <2>1, <3>1, <3>3, <3>4, <3>5, Rewritten
    <3> QED BY <2>1, <2>2, <3>6, Plain
  <2> QED BY <1>2, <2>3, <2>4 DEF Acquire
<1>3. ASSUME NEW t \in Token, NEW r \in Res, Release(p, r, t) PROVE Budget'
  <2>1. Tailable(Each("drops", {<<r, t>>}))
    BY TailEach
  <2> QED BY <1>3, <2>1, <1>d DEF Release, durable, callers
<1>4. ASSUME NEW t \in Token, Destroy(p, t) PROVE Budget'
  <2>1. Tailable(Each("drops", {<<r, t>> : r \in Shed(t)}))
    BY TailEach DEF Shed
  <2> QED BY <1>4, <2>1, <1>d DEF Destroy, durable, callers
<1>5. ASSUME NEW t \in Token, Discard(p, t) PROVE Budget'
  <2>1. Tailable(Each("drops", {x \in held : x[2] = t}))
    BY <1>0, TailEach DEF StateOK
  <2>2. Tailable(SetCapTo(t, NoCap))
    <3>1. [op |-> "setcap", tok |-> t, n |-> NoCap] \in Frame
      BY DEF Frame
    <3> QED BY <3>1, TailOne DEF SetCapTo, Deferred, Calls
  <2>3. Tailable(Each("drops", {x \in held : x[2] = t}) \o SetCapTo(t, NoCap))
    BY <2>1, <2>2, TailJoin
  <2> QED BY <1>5, <2>3, <1>d DEF Discard, durable
<1>6. ASSUME NEW t \in Token, Transfer(p, t) PROVE Budget'
  <2> DEFINE moved == {x \in held : x[2] = t}
  <2>0. t \in Builds /\ InstanceOf[t] \in Token /\ caps[t] \in Nat \cup {NoCap}
    BY <1>0, <1>6, ConstantsOK DEF StateOK, Transfer
  <2>1. Tailable(Each("retags", moved))
    <3>1. moved \subseteq Res \X Builds
      BY <1>0, <2>0 DEF StateOK
    <3> QED BY <3>1, TailEach
  <2>2. Tailable(SetCapTo(InstanceOf[t], caps[t]))
    <3>1. [op |-> "setcap", tok |-> InstanceOf[t], n |-> caps[t]] \in Frame
      BY <2>0 DEF Frame
    <3> QED BY <3>1, TailOne DEF SetCapTo, Deferred, Calls
  <2>3. Tailable(SetCapTo(InstanceOf[t], caps[t]) \o Each("retags", moved))
    BY <2>1, <2>2, TailJoin
  <2>4. /\ \/ todo' = SetCapTo(InstanceOf[t], caps[t]) \o Each("retags", moved)
           \/ todo' = Each("retags", moved)
        /\ Idle /\ UNCHANGED <<reg, used, bytes, minted>>
    BY <1>6 DEF Transfer
  <2> QED BY <2>1, <2>3, <2>4, <1>d
<1>7. ASSUME NEW t \in Token, LostBuildCall(p, t) PROVE Budget'
  BY <1>7, Aside DEF LostBuildCall, durable
<1>8. ASSUME NEW r \in Heap, NEW w \in HeapSizes, Reconcile(p, r, w) PROVE Budget'
  <2>1. Idle /\ UNCHANGED <<bytes, minted>>
    BY <1>8 DEF Reconcile, callers
  <2>2. Clear /\ ~Recounting /\ Owed = 0 /\ OwedBytes = 0
    BY <2>1, FromIdle
  <2>3. /\ r \in Res /\ r \notin Memory /\ r \notin Image /\ reg[r] # None /\ reg[r] \in Row
        /\ w \in Nat /\ reg[r].pages \in Nat
    BY <1>0, <1>8, RowSets, ConstantsOK DEF StateOK, Reconcile, Live, Row
  <2>4. Charges(reg) \in Nat /\ ImageTotal(reg) \in Nat /\ Fit(reg)
    BY <1>0, <1>f, RegFits, ChargesNat
  <2>5. CASE /\ reg' = [reg EXCEPT ![r].pages = w] /\ w < reg[r].pages
             /\ todo' = <<[op |-> "shrunk", res |-> r, n |-> reg[r].pages - w]>>
             /\ UNCHANGED used
    <3> DEFINE v == [reg[r] EXCEPT !.pages = w]
    <3>1. reg' = [reg EXCEPT ![r] = v] /\ DOMAIN reg = Res
      BY <1>0, <2>5 DEF StateOK
    <3>2. v.pages = w /\ v.growth = reg[r].growth /\ v.arena = reg[r].arena
          /\ v.txn = reg[r].txn /\ v # None
      <4>1. v \in Row
        BY <2>3, RowFields
      <4> QED BY <2>3, <4>1, RowSets DEF Row
    <3> HIDE DEF v
    <3>3. reg'[r] = v /\ \A y \in Res \ {r} : reg'[y] = reg[y]
      BY <2>3, <3>1
    <3>4. RowsFit'
      <4>1. RowFits(reg[r]) /\ r \in minted /\ IsFiniteSet(minted)
        BY <1>f, <2>3 DEF RowsFit
      <4>2. v.txn = None
        BY <1>f, <2>3, <3>2 DEF RowsFit
      <4>3. RowFits(v)
        BY <4>1, <4>2, <3>2 DEF RowFits
      <4> QED BY <4>1, <4>2, <4>3, <1>f, <2>1, <3>3 DEF RowsFit
    <3>5. Fit(reg')
      BY <3>4, NextFits
    <3>6. /\ Charges(reg') = Charges(reg) - charged(r, reg[r]) + charged(r, v)
          /\ ImageTotal(reg') = ImageTotal(reg)
      BY <2>3, <2>4, <3>2, <3>3, <3>5, ChargeMoved
    <3>7. charged(r, reg[r]) = reg[r].pages /\ charged(r, v) = w
      BY <2>3, <3>2 DEF charged
    <3> DEFINE f == [op |-> "shrunk", res |-> r, n |-> reg[r].pages - w]
    <3>8. todo' # <<>> /\ Head(todo') = f
      BY <2>5
    <3>9. Owed' = reg[r].pages - w /\ OwedBytes' = 0
      BY <3>8 DEF Owed, OwedBytes
    <3>10. FramesFit'
      BY <2>3, <2>5, <3>2, <3>3, <3>8 DEF FramesFit
    <3> DEFINE k == reg[r].pages
    <3>11. k \in Nat /\ Charges(reg') = Charges(reg) - k + w /\ Owed' = k - w
      BY <2>3, <3>6, <3>7, <3>9
    <3> HIDE DEF k, f
    <3>12. /\ used' = used + 0 /\ bytes' = bytes + 0
           /\ Charges(reg') + Owed' = Charges(reg) + Owed + 0
           /\ ImageTotal(reg') + OwedBytes' = ImageTotal(reg) + OwedBytes + 0
           /\ Owed' \in Int
      BY <1>f, <2>1, <2>2, <2>3, <2>4, <2>5, <3>6, <3>9, <3>11
    <3> QED BY <2>2, <3>4, <3>9, <3>10, <3>12, Moves
  <2>6. CASE /\ used' = used + (w - reg[r].pages) /\ w >= reg[r].pages
             /\ todo' = <<[op |-> "grown", res |-> r, n |-> w]>>
             /\ UNCHANGED reg
    <3>1. RowsFit'
      BY <1>f, <2>1, <2>6, KeptRows
    <3> DEFINE f == [op |-> "grown", res |-> r, n |-> w]
               k == reg[r].pages
    <3>2. todo' # <<>> /\ Head(todo') = f
      BY <2>6
    <3>3. Owed' = w - k /\ OwedBytes' = 0
      BY <2>6, <3>2 DEF Owed, OwedBytes
    <3>4. FramesFit'
      BY <2>3, <2>6, <3>2 DEF FramesFit
    <3>5. k \in Nat /\ w \in Nat /\ used' = used + (w - k)
      BY <2>3, <2>6
    <3> HIDE DEF k, f
    <3>6. /\ w - k \in Int /\ bytes' = bytes + 0 /\ used' = used + (w - k)
          /\ Charges(reg') + Owed' = Charges(reg) + Owed + (w - k)
          /\ ImageTotal(reg') + OwedBytes' = ImageTotal(reg) + OwedBytes + 0
      BY <1>f, <2>1, <2>2, <2>4, <2>6, <3>3, <3>5
    <3> QED BY <2>2, <3>1, <3>3, <3>4, <3>6, Moves
  <2> QED BY <1>8, <2>3, <2>5, <2>6 DEF Reconcile
<1>9. ASSUME NEW i \in Image, ImageReserve(p, i) PROVE Budget'
  <2>1. /\ UNCHANGED <<reg, used>> /\ Idle
        /\ todo' = Insert(p, i, SnapOf[i]) /\ minted' = minted \cup {i}
        /\ i \in Res \ minted /\ SnapOf[i] \in Token /\ bytes' = bytes + ImageBytes[i]
    BY <1>9, ConstantsOK DEF ImageReserve, Res
  <2>2. charged(i, NewRow(i, SnapOf[i])) = 0
    BY RowSets DEF charged
  <2>3. used' = used + charged(i, NewRow(i, SnapOf[i]))
        /\ bytes' = bytes + (IF i \in Image THEN ImageBytes[i] ELSE 0)
    BY <1>f, <2>1, <2>2
  <2> QED BY <2>1, <2>3, Inserting
<1> QED BY <1>1, <1>2, <1>3, <1>4, <1>5, <1>6, <1>7, <1>8, <1>9 DEF Request

-----------------------------------------------------------------------------
(* The rest of a handler.                                                  *)

\* A handler that owed something writes the other side.
LEMMA Pays ==
    ASSUME Inv, Inv', Budget, RowsFit', Clear', NEW a \in Int, NEW b \in Int,
           used' = used + a, bytes' = bytes + b,
           Charges(reg') = Charges(reg) + Owed + a,
           ImageTotal(reg') = ImageTotal(reg) + OwedBytes + b,
           Recounting => Recounting'
    PROVE  Budget'
<1>1. Owed' = 0 /\ OwedBytes' = 0 /\ FramesFit'
  BY NothingOwed
<1>2. Charges(reg') \in Nat /\ ImageTotal(reg') \in Nat
  BY NextFits, ChargesNat
<1>3. Charges(reg') + Owed' = Charges(reg') /\ ImageTotal(reg') + OwedBytes' = ImageTotal(reg')
  BY <1>1, <1>2
<1>4. 0 \in Int
  OBVIOUS
<1>5. Owed' \in Int /\ OwedBytes' \in Int
  BY <1>1, <1>4
<1>6. /\ Charges(reg') + Owed' = Charges(reg) + Owed + a
      /\ ImageTotal(reg') + OwedBytes' = ImageTotal(reg) + OwedBytes + b
  BY <1>3
<1> QED BY <1>1, <1>5, <1>6, Moves

\* A handler that owed nothing writes one side.
LEMMA Opens ==
    ASSUME Inv, Inv', Budget, Clear, RowsFit', FramesFit', NEW a \in Int, NEW b \in Int,
           used' = used + a, bytes' = bytes + b, Owed' \in Int, OwedBytes' \in Int,
           Charges(reg') + Owed' = Charges(reg) + a,
           ImageTotal(reg') + OwedBytes' = ImageTotal(reg) + b,
           Recounting => Recounting'
    PROVE  Budget'
<1>1. Owed = 0 /\ OwedBytes = 0
  BY NothingOwed
<1>2. Charges(reg) \in Nat /\ ImageTotal(reg) \in Nat
  BY RegFits, ChargesNat DEF Inv, Budget
<1>3. Charges(reg) + Owed = Charges(reg) /\ ImageTotal(reg) + OwedBytes = ImageTotal(reg)
  BY <1>1, <1>2
<1>4. /\ Charges(reg') + Owed' = Charges(reg) + Owed + a
      /\ ImageTotal(reg') + OwedBytes' = ImageTotal(reg) + OwedBytes + b
  BY <1>3
<1> QED BY <1>4, Moves

\* One row replaced.
LEMMA RowSet ==
    ASSUME StateOK, NEW r \in Res, NEW w, reg' = [reg EXCEPT ![r] = w]
    PROVE  reg'[r] = w /\ \A y \in Res \ {r} : reg'[y] = reg[y]
BY DEF StateOK

\* A row rewritten but for what it is charged for, by a handler that owes nothing.
LEMMA Retouched ==
    ASSUME Inv, Inv', Budget, Clear, Clear', UNCHANGED <<used, bytes, minted>>,
           NEW r \in Res, NEW w, reg' = [reg EXCEPT ![r] = w], reg[r] # None, w # None,
           w.pages = reg[r].pages, w.growth = reg[r].growth, w.arena = reg[r].arena,
           w.txn \in {reg[r].txn, None}, Recounting => Recounting'
    PROVE  Budget'
<1>1. reg'[r] = w /\ \A y \in Res \ {r} : reg'[y] = reg[y]
  BY RowSet DEF Inv
<1>2. RowsFit' /\ Charges(reg') = Charges(reg) /\ ImageTotal(reg') = ImageTotal(reg)
  BY <1>1, Rewritten DEF Budget
<1> QED BY <1>2, Plain

\* Holders dropped and what nobody holds reclaimed.
LEMMA DropBudget ==
    ASSUME Inv, Inv', Budget,
           Drop \/ Unhold \/ ForgetMeta \/ DeleteRow \/ GiveBack \/ AfterRetire
    PROVE  Budget'
<1> DEFINE f == Head(todo)
<1>0. StateOK /\ HeadOK /\ reg \in [Res -> Row \cup {None}]
  BY DEF Inv, StateOK
<1>f. RowsFit /\ used \in Int /\ bytes \in Int
  BY DEF Budget, Balanced
<1>n. Charges(reg) \in Nat /\ ImageTotal(reg) \in Nat /\ Fit(reg)
  BY <1>0, <1>f, RegFits, ChargesNat
<1>1. CASE Drop
  <2>1. up /\ todo # <<>> /\ f \in Frame /\ f.op = "drops"
    BY <1>1, HeadFrame DEF Drop
  <2>2. UNCHANGED <<reg, used, bytes, up, minted>>
    BY <1>1 DEF Drop, callers
  <2>3. PICK x \in f.set :
          \/ Then(DoFor("unhold", x[1], x[2]) \o Each("drops", f.set \ {x}))
          \/ Then(Each("drops", f.set \ {x}))
    BY <1>1 DEF Drop
  <2>4. Clear
    BY <2>1 DEF Clear, Owing
  <2>5. Clear' /\ (Recounting => Recounting')
    <3>1. CASE Then(Each("drops", f.set \ {x}))
      <4> DEFINE S == f.set \ {x}
      <4>1. "drops" \in Deferred /\ Then(Each("drops", S))
        BY <3>1 DEF Deferred
      <4> HIDE DEF S
      <4> QED BY <2>1, <2>2, <4>1, GoesOn
    <3>2. CASE Then(DoFor("unhold", x[1], x[2]) \o Each("drops", f.set \ {x}))
      <4> DEFINE g == [op |-> "unhold", res |-> x[1], tok |-> x[2]]
      <4>1. g.op = "unhold" /\ Then(<<g>> \o Each("drops", f.set \ {x}))
        BY <3>2 DEF DoFor
      <4> HIDE DEF g
      <4>2. todo' # <<>> /\ Head(todo') = g /\ (Recounting => Recounting')
        BY <2>1, <2>2, <4>1, GoesOn
      <4> QED BY <4>1, <4>2 DEF Clear, Owing
    <3> QED BY <2>3, <3>1, <3>2
  <2> QED BY <2>2, <2>4, <2>5, Unbilled
<1>2. CASE Unhold
  <2>1. up /\ todo # <<>> /\ f \in Frame /\ f.op = "unhold"
    BY <1>2, HeadFrame DEF Unhold
  <2>2. f.res \in Res /\ f.tok \in Token /\ reg[f.res] # None /\ reg[f.res] \in Row
    BY <1>0, <2>1, FrameFields DEF HeadOK
  <2>3. UNCHANGED <<used, bytes, up, minted>>
    BY <1>2 DEF Unhold, callers
  <2> DEFINE h == reg[f.res].holders \ {f.tok}
             last == h = {} /\ reclaimable(f.res)
             w == [reg[f.res] EXCEPT !.holders = h,
                                     !.state = IF last THEN "retiring" ELSE @]
  <2>4. /\ w \in Row /\ w.txn = reg[f.res].txn /\ w.pages = reg[f.res].pages
        /\ w.growth = reg[f.res].growth /\ w.arena = reg[f.res].arena
    <3>1. h \in SUBSET Token
      BY <2>2, RowFields
    <3> QED BY <2>2, <3>1 DEF Row
  <2>5. reg' = [reg EXCEPT ![f.res] = w]
    BY <1>0, <1>2, <2>2 DEF Unhold
  <2>6. Clear
    BY <2>1 DEF Clear, Owing
  <2>7. Clear' /\ (Recounting => Recounting')
    <3>1. CASE Then(<<>>)
      BY <2>1, <2>3, <3>1, GoesOn
    <3>2. CASE Then(<<[op |-> "forget", res |-> f.res]>>)
      <4> DEFINE g == [op |-> "forget", res |-> f.res]
      <4>1. g.op = "forget" /\ Then(<<g>>)
        BY <3>2
      <4> HIDE DEF g
      <4>2. todo' # <<>> /\ Head(todo') = g /\ (Recounting => Recounting')
        BY <2>1, <2>3, <4>1, GoesOn
      <4> QED BY <4>1, <4>2 DEF Clear, Owing
    <3> QED BY <1>2, <3>1, <3>2 DEF Unhold, Do
  <2>8. w # None
    BY <2>4, RowSets
  <2> HIDE DEF w
  <2> QED BY <2>2, <2>3, <2>4, <2>5, <2>6, <2>7, <2>8, Retouched
<1>3. CASE ForgetMeta
  <2>1. up /\ todo # <<>> /\ f \in Frame /\ f.op = "forget"
    BY <1>3, HeadFrame DEF ForgetMeta
  <2>2. UNCHANGED <<reg, used, bytes, up, minted>>
    BY <1>3 DEF ForgetMeta, callers
  <2> DEFINE g == [op |-> "delete", res |-> f.res]
  <2>3. g.op = "delete" /\ Then(<<g>>)
    BY <1>3 DEF ForgetMeta, Do
  <2> HIDE DEF g
  <2>4. todo' # <<>> /\ Head(todo') = g /\ (Recounting => Recounting')
    BY <2>1, <2>2, <2>3, GoesOn
  <2>5. Clear /\ Clear'
    BY <2>1, <2>3, <2>4 DEF Clear, Owing
  <2> QED BY <2>2, <2>4, <2>5, Unbilled
<1>4. CASE DeleteRow
  <2>1. up /\ todo # <<>> /\ f \in Frame /\ f.op = "delete"
    BY <1>4, HeadFrame DEF DeleteRow
  <2>2. f.res \in Res /\ reg[f.res] # None /\ reg[f.res] \in Row
    BY <1>0, <2>1, FrameFields DEF HeadOK
  <2>3. UNCHANGED <<used, bytes, up, minted>>
    BY <1>4 DEF DeleteRow, callers
  <2> DEFINE r == f.res
             c == charged(r, reg[r])
             b == IF r \in Image THEN ImageBytes[r] ELSE 0
             g == [op |-> "giveback", res |-> r, n |-> c]
  <2>4. g.op = "giveback" /\ g.res = r /\ g.n = c /\ Then(<<g>>)
    BY <1>4 DEF DeleteRow
  <2>5. reg'[r] = None /\ \A y \in Res \ {r} : reg'[y] = reg[y]
    BY <1>0, <1>4, <2>2, RowSet DEF DeleteRow
  <2>6. c \in Nat /\ b \in Nat
    <3>1. RowFits(reg[r])
      BY <1>f, <2>2 DEF RowsFit
    <3> QED BY <2>2, <3>1, ChargedNat, ConstantsOK
  <2>7. RowsFit'
    BY <1>f, <2>2, <2>3, <2>5 DEF RowsFit
  <2>8. Charges(reg) = Charges(reg') + c /\ ImageTotal(reg) = ImageTotal(reg') + b
    <3>1. Fit(reg')
      BY <2>7, NextFits
    <3> QED BY <1>n, <2>2, <2>5, <3>1, ChargeGone
  <2>9. Charges(reg') \in Nat /\ ImageTotal(reg') \in Nat
    BY <2>7, NextFits, ChargesNat
  <2> HIDE DEF g
  <2>10. todo' # <<>> /\ Head(todo') = g /\ (Recounting => Recounting')
    BY <2>1, <2>3, <2>4, GoesOn
  <2>11. Clear /\ Owed' = c /\ OwedBytes' = b /\ FramesFit'
    <3>1. Clear
      BY <2>1 DEF Clear, Owing
    <3>2. Owed' = c
      BY <2>4, <2>10 DEF Owed
    <3>3. OwedBytes' = b
      BY <2>4, <2>10 DEF OwedBytes
    <3>4. FramesFit'
      <4>1. g.n >= 0
        BY <2>4, <2>6
      <4> QED BY <2>4, <2>10, <4>1 DEF FramesFit
    <3> QED BY <3>1, <3>2, <3>3, <3>4
  <2> HIDE DEF c, b, r
  <2>12. /\ used' = used + 0 /\ bytes' = bytes + 0 /\ Owed' \in Int /\ OwedBytes' \in Int
         /\ Charges(reg') + Owed' = Charges(reg) + 0
         /\ ImageTotal(reg') + OwedBytes' = ImageTotal(reg) + 0
    BY <1>f, <2>3, <2>6, <2>8, <2>9, <2>11
  <2> QED BY <2>7, <2>10, <2>11, <2>12, Opens
<1>5. CASE GiveBack
  <2>1. up /\ todo # <<>> /\ f \in Frame /\ f.op = "giveback"
    BY <1>5, HeadFrame DEF GiveBack
  <2>2. f.res \in Res /\ f.n \in Int
    BY <2>1, FrameFields
  <2>3. UNCHANGED <<reg, up, minted>>
    BY <1>5 DEF GiveBack, callers
  <2> DEFINE b == IF f.res \in Image THEN ImageBytes[f.res] ELSE 0
  <2>4. Owed = f.n /\ OwedBytes = b /\ b \in Nat
    <3>1. b \in Nat
      BY ConstantsOK
    <3>2. Owed = f.n
      BY <2>1 DEF Owed
    <3>3. OwedBytes = b
      BY <2>1 DEF OwedBytes
    <3> QED BY <3>1, <3>2, <3>3
  <2>5. used' = used + (-f.n) /\ bytes' = bytes + (-b)
    BY <1>f, <1>5, <2>2, <2>4 DEF GiveBack
  <2>6. Clear' /\ (Recounting => Recounting')
    <3> DEFINE g == [op |-> "uncount", res |-> f.res]
    <3>1. CASE Then(<<>>)
      BY <2>1, <2>3, <3>1, GoesOn
    <3>2. CASE Then(<<g>>)
      <4>1. g.op = "uncount"
        OBVIOUS
      <4> HIDE DEF g
      <4>2. todo' # <<>> /\ Head(todo') = g /\ (Recounting => Recounting')
        BY <2>1, <2>3, <3>2, GoesOn
      <4> QED BY <4>1, <4>2 DEF Clear, Owing
    <3> QED BY <1>5, <3>1, <3>2 DEF GiveBack, Do
  <2>7. RowsFit'
    BY <1>f, <2>3, KeptRows
  <2> DEFINE n == f.n
  <2>8. n \in Int /\ used' = used + (-n) /\ Owed = n
    BY <2>2, <2>4, <2>5
  <2> HIDE DEF b, n
  <2>9. /\ -n \in Int /\ -b \in Int
        /\ Charges(reg') = Charges(reg) + Owed + (-n)
        /\ ImageTotal(reg') = ImageTotal(reg) + OwedBytes + (-b)
    BY <1>n, <2>3, <2>4, <2>8
  <2> QED BY <2>5, <2>6, <2>7, <2>8, <2>9, Pays
<1>6. CASE AfterRetire
  <2> DEFINE i == ImageOf[f.res]
             g == [op |-> "forget", res |-> i]
  <2>1. up /\ todo # <<>> /\ f \in Frame /\ f.op = "uncount"
    BY <1>6, HeadFrame DEF AfterRetire
  <2>2. f.res \in Memory /\ i \in Image /\ i \in Res
    BY <1>0, <2>1, FrameFields, ConstantsOK DEF HeadOK, Res
  <2>3. UNCHANGED <<used, bytes, up, minted>>
    BY <1>6 DEF AfterRetire, callers
  <2>4. Clear
    BY <2>1 DEF Clear, Owing
  <2>5. CASE UNCHANGED reg /\ Then(<<>>)
    <3>1. Clear' /\ (Recounting => Recounting')
      BY <2>1, <2>3, <2>5, GoesOn
    <3> QED BY <2>3, <2>4, <2>5, <3>1, Unbilled
  <2>6. CASE reg[i] # None /\ reg' = [reg EXCEPT ![i].state = "retiring"] /\ Then(<<g>>)
    <3> DEFINE w == [reg[i] EXCEPT !.state = "retiring"]
    <3>1. w.pages = reg[i].pages /\ w.growth = reg[i].growth /\ w.arena = reg[i].arena
          /\ w.txn = reg[i].txn /\ w # None
      <4>1. reg[i] \in Row
        BY <1>0, <2>2, <2>6
      <4>2. w \in Row
        BY <4>1, RowFields
      <4> QED BY <4>1, <4>2, RowSets DEF Row
    <3>2. reg' = [reg EXCEPT ![i] = w]
      BY <2>6
    <3>3. g.op = "forget"
      OBVIOUS
    <3> HIDE DEF w, g, i
    <3>4. todo' # <<>> /\ Head(todo') = g /\ (Recounting => Recounting')
      BY <2>1, <2>3, <2>6, GoesOn
    <3>5. Clear'
      BY <3>3, <3>4 DEF Clear, Owing
    <3> QED BY <2>2, <2>3, <2>4, <2>6, <3>1, <3>2, <3>4, <3>5, Retouched
  <2> QED BY <1>6, <2>5, <2>6 DEF AfterRetire, Do
<1> QED BY <1>1, <1>2, <1>3, <1>4, <1>5, <1>6

\* A holder added, moved or given a ceiling; a heap measured.
LEMMA HoldBudget ==
    ASSUME Inv, Inv', Budget,
           InsertRow \/ Reserved \/ SetCap \/ Retag \/ HeapShrunk \/ HeapGrown
    PROVE  Budget'
<1> DEFINE f == Head(todo)
<1>0. StateOK /\ HeadOK /\ reg \in [Res -> Row \cup {None}]
  BY DEF Inv, StateOK
<1>f. RowsFit /\ FramesFit /\ used \in Int /\ bytes \in Int
  BY DEF Budget, Balanced
<1>n. Charges(reg) \in Nat /\ ImageTotal(reg) \in Nat /\ Fit(reg)
  BY <1>0, <1>f, RegFits, ChargesNat
<1>1. CASE InsertRow
  <2>1. up /\ todo # <<>> /\ f \in Frame /\ f.op = "insert"
    BY <1>1, HeadFrame DEF InsertRow
  <2>2. f.res \in Res /\ f.tok \in Token /\ f.pid \in Pid /\ f.res \in minted /\ reg[f.res] = None
    BY <1>0, <1>f, <2>1, FrameFields DEF HeadOK, FramesFit
  <2>3. UNCHANGED <<used, bytes, up, minted>>
    BY <1>1 DEF InsertRow, callers
  <2> DEFINE r == f.res
             w == NewRow(r, f.tok)
             c == charged(r, w)
             b == IF r \in Image THEN ImageBytes[r] ELSE 0
  <2>4. w \in Row /\ RowFits(w) /\ c \in Nat /\ b \in Nat /\ w # None /\ w.txn = None
    BY <2>2, NewFits, NewRowTyped, RowSets, ConstantsOK
  <2>5. Owed = c /\ OwedBytes = b
    <3>1. Owed = c
      BY <2>1 DEF Owed
    <3>2. OwedBytes = b
      BY <2>1 DEF OwedBytes
    <3> QED BY <3>1, <3>2
  <2>6. Clear' /\ (Recounting => Recounting')
    <3>1. CASE Then(<<>>)
      BY <2>1, <2>3, <3>1, GoesOn
    <3>2. CASE Then(<<[f EXCEPT !.op = "reserved"]>>)
      <4> DEFINE g == [f EXCEPT !.op = "reserved"]
      <4>1. g.op = "reserved"
        BY <2>1 DEF Frame
      <4> HIDE DEF g
      <4>2. todo' # <<>> /\ Head(todo') = g /\ (Recounting => Recounting')
        BY <2>1, <2>3, <3>2, GoesOn DEF g
      <4> QED BY <4>1, <4>2 DEF Clear, Owing
    <3> QED BY <1>1, <3>1, <3>2 DEF InsertRow
  <2>7. reg' = [reg EXCEPT ![r] = w]
    BY <1>1 DEF InsertRow
  <2> HIDE DEF w
  <2>8. reg'[r] = w /\ \A y \in Res \ {r} : reg'[y] = reg[y]
    BY <1>0, <2>2, <2>7, RowSet
  <2>9. RowsFit'
    BY <1>f, <2>2, <2>3, <2>4, <2>8 DEF RowsFit
  <2>10. Charges(reg') = Charges(reg) + c /\ ImageTotal(reg') = ImageTotal(reg) + b
    <3>1. Fit(reg')
      BY <2>9, NextFits
    <3>2. /\ Charges(reg') = Charges(reg) + charged(r, reg'[r])
          /\ ImageTotal(reg') = ImageTotal(reg) + b
      BY <1>n, <2>2, <2>4, <2>8, <3>1, ChargeAdded
    <3> QED BY <2>8, <3>2
  <2> HIDE DEF c, b, r
  <2>11. /\ 0 \in Int /\ used' = used + 0 /\ bytes' = bytes + 0
         /\ Charges(reg') = Charges(reg) + Owed + 0
         /\ ImageTotal(reg') = ImageTotal(reg) + OwedBytes + 0
    BY <1>f, <1>n, <2>3, <2>4, <2>5, <2>10
  <2> QED BY <2>6, <2>9, <2>11, Pays
<1>2. CASE Reserved
  <2>1. up /\ todo # <<>> /\ f.op = "reserved"
    BY <1>2, HeadFrame DEF Reserved
  <2>2. UNCHANGED <<reg, used, bytes, up, minted>> /\ Then(<<>>)
    BY <1>2 DEF Reserved, durable
  <2>3. Clear /\ Clear' /\ (Recounting => Recounting')
    BY <2>1, <2>2, GoesOn DEF Clear, Owing
  <2> QED BY <2>2, <2>3, Unbilled
<1>3. CASE SetCap
  <2>1. up /\ todo # <<>> /\ f.op = "setcap"
    BY <1>3, HeadFrame DEF SetCap
  <2>2. UNCHANGED <<reg, used, bytes, up, minted>> /\ Then(<<>>)
    BY <1>3 DEF SetCap, callers
  <2>3. Clear /\ Clear' /\ (Recounting => Recounting')
    BY <2>1, <2>2, GoesOn DEF Clear, Owing
  <2> QED BY <2>2, <2>3, Unbilled
<1>4. CASE Retag
  <2>1. up /\ todo # <<>> /\ f \in Frame /\ f.op = "retags"
    BY <1>4, HeadFrame DEF Retag
  <2>2. f.set \subseteq Res \X Builds
    BY <2>1, FrameFields
  <2>3. UNCHANGED <<used, bytes, up, minted>>
    BY <1>4 DEF Retag, callers
  <2>4. PICK x \in f.set :
          /\ \/ /\ reg[x[1]] # None
                /\ reg' = [reg EXCEPT ![x[1]].holders = (@ \ {x[2]}) \cup {InstanceOf[x[2]]}]
             \/ UNCHANGED reg
          /\ Then(Each("retags", f.set \ {x}))
    BY <1>4 DEF Retag
  <2>5. x[1] \in Res /\ x[2] \in Builds /\ x[2] \in Token /\ InstanceOf[x[2]] \in Token
    BY <2>2, ConstantsOK
  <2>6. Clear /\ Clear' /\ (Recounting => Recounting')
    <3> DEFINE S == f.set \ {x}
    <3>1. "retags" \in Deferred /\ Then(Each("retags", S)) /\ Clear
      BY <2>1, <2>4 DEF Deferred, Clear, Owing
    <3> HIDE DEF S
    <3> QED BY <2>1, <2>3, <3>1, GoesOn
  <2>7. CASE UNCHANGED reg
    BY <2>3, <2>6, <2>7, Unbilled
  <2>8. CASE /\ reg[x[1]] # None
             /\ reg' = [reg EXCEPT ![x[1]].holders = (@ \ {x[2]}) \cup {InstanceOf[x[2]]}]
    <3> DEFINE r == x[1]
               h == (reg[r].holders \ {x[2]}) \cup {InstanceOf[x[2]]}
               w == [reg[r] EXCEPT !.holders = h]
    <3>1. r \in Res /\ reg[r] # None /\ reg[r] \in Row
      BY <1>0, <2>5, <2>8
    <3>2. h \in SUBSET Token
      BY <3>1, <2>5, RowFields
    <3>3. reg' = [reg EXCEPT ![r] = w]
      BY <2>8
    <3> HIDE DEF h, r
    <3>4. /\ w \in Row /\ w.txn = reg[r].txn /\ w.pages = reg[r].pages
          /\ w.growth = reg[r].growth /\ w.arena = reg[r].arena
      BY <3>1, <3>2 DEF Row
    <3>5. w # None
      BY <3>4, RowSets
    <3> HIDE DEF w
    <3> QED BY <2>3, <2>6, <3>1, <3>3, <3>4, <3>5, Retouched
  <2> QED BY <2>4, <2>7, <2>8
<1>5. CASE HeapShrunk
  <2>1. up /\ todo # <<>> /\ f \in Frame /\ f.op = "shrunk"
    BY <1>5, HeadFrame DEF HeapShrunk
  <2>2. UNCHANGED <<reg, bytes, up, minted>> /\ Then(<<>>) /\ used' = used - f.n
    BY <1>5 DEF HeapShrunk, callers
  <2>3. Clear' /\ (Recounting => Recounting')
    BY <2>1, <2>2, GoesOn
  <2>4. RowsFit'
    BY <1>f, <2>2, KeptRows
  <2> DEFINE n == f.n
  <2>5. n \in Int /\ Owed = n /\ OwedBytes = 0 /\ used' = used - n
    BY <2>1, <2>2, FrameFields DEF Owed, OwedBytes
  <2> HIDE DEF n
  <2>6. /\ -n \in Int /\ 0 \in Int /\ used' = used + (-n) /\ bytes' = bytes + 0
        /\ Charges(reg') = Charges(reg) + Owed + (-n)
        /\ ImageTotal(reg') = ImageTotal(reg) + OwedBytes + 0
    BY <1>f, <1>n, <2>2, <2>5
  <2> QED BY <2>3, <2>4, <2>6, Pays
<1>6. CASE HeapGrown
  <2>1. up /\ todo # <<>> /\ f \in Frame /\ f.op = "grown"
    BY <1>6, HeadFrame DEF HeapGrown
  <2> DEFINE r == f.res
             n == f.n
             k == reg[r].pages
             w == [reg[r] EXCEPT !.pages = n]
  <2>2. /\ r \in Heap /\ r \in Res /\ r \notin Memory /\ r \notin Image /\ n \in Nat
        /\ reg[r] # None /\ reg[r] \in Row /\ k \in Nat
    <3>1. r \in Heap /\ reg[r] # None /\ n \in Nat
      BY <1>f, <2>1, FrameFields DEF FramesFit
    <3>2. r \in Res /\ r \notin Memory /\ r \notin Image /\ reg[r] \in Row
      BY <1>0, <3>1, RowSets
    <3> QED BY <3>1, <3>2, RowFields
  <2>3. UNCHANGED <<used, bytes, up, minted>> /\ Then(<<>>)
    BY <1>6 DEF HeapGrown, callers
  <2>4. Owed = n - k /\ OwedBytes = 0
    BY <2>1 DEF Owed, OwedBytes
  <2>5. Clear' /\ (Recounting => Recounting')
    BY <2>1, <2>3, GoesOn
  <2>6. reg' = [reg EXCEPT ![r] = w]
    BY <1>6 DEF HeapGrown
  <2>7. /\ w \in Row /\ w.txn = reg[r].txn /\ w.pages = n
        /\ w.growth = reg[r].growth /\ w.arena = reg[r].arena
    BY <2>2 DEF Row
  <2>8. w # None /\ w.txn = None
    BY <1>f, <2>2, <2>7, RowSets DEF RowsFit
  <2> HIDE DEF w
  <2>9. reg'[r] = w /\ \A y \in Res \ {r} : reg'[y] = reg[y]
    BY <1>0, <2>2, <2>6, RowSet
  <2>10. RowsFit'
    <3>1. RowFits(reg[r]) /\ r \in minted /\ IsFiniteSet(minted)
      BY <1>f, <2>2 DEF RowsFit
    <3>2. RowFits(w)
      BY <2>7, <2>8, <3>1 DEF RowFits
    <3> QED BY <1>f, <2>3, <2>8, <2>9, <3>1, <3>2 DEF RowsFit
  <2>11. /\ Charges(reg') = Charges(reg) - k + n
         /\ ImageTotal(reg') = ImageTotal(reg)
    <3>1. Fit(reg')
      BY <2>10, NextFits
    <3>2. /\ Charges(reg') = Charges(reg) - charged(r, reg[r]) + charged(r, reg'[r])
          /\ ImageTotal(reg') = ImageTotal(reg)
      BY <1>n, <2>2, <2>8, <2>9, <3>1, ChargeMoved
    <3>3. charged(r, reg[r]) = k /\ charged(r, w) = n
      BY <2>2, <2>7 DEF charged
    <3> QED BY <2>9, <3>2, <3>3
  <2> HIDE DEF r, n, k
  <2>12. /\ 0 \in Int /\ used' = used + 0 /\ bytes' = bytes + 0
         /\ Charges(reg') = Charges(reg) + Owed + 0
         /\ ImageTotal(reg') = ImageTotal(reg) + OwedBytes + 0
    BY <1>f, <1>n, <2>2, <2>3, <2>4, <2>11
  <2> QED BY <2>5, <2>10, <2>12, Pays
<1> QED BY <1>1, <1>2, <1>3, <1>4, <1>5, <1>6

-----------------------------------------------------------------------------
(* Transactions.                                                           *)

\* A frame that owes nothing is done, with one that owes nothing in its place.
LEMMA OnTo ==
    ASSUME Inv, todo # <<>>, Head(todo).op \notin Owing \cup {"reconcile"}, up' = up,
           NEW g, g.op \notin Owing, Then(<<g>>)
    PROVE  Clear /\ Clear' /\ (Recounting => Recounting')
<1>1. todo' # <<>> /\ Head(todo') = g /\ (Recounting => Recounting')
  BY GoesOn
<1> QED BY <1>1 DEF Clear

\* A row's transaction undone: what it added is still on the page counter.
LEMMA UndoneFits ==
    ASSUME NEW r \in Memory, NEW w \in Row, RowFits(w), w.txn # None
    PROVE  /\ w.txn.pd \in Nat
           /\ Undo(w, w.txn) \in Row /\ RowFits(Undo(w, w.txn))
           /\ charged(r, Undo(w, w.txn)) = charged(r, w) - w.txn.pd
<1> DEFINE v == Undo(w, w.txn)
           d == w.txn.pd
           k == table_pages(ImagePages[r])
           grow == w.txn.kind = "grow"
<1>1. d \in Int /\ v \in Row /\ v.txn = None /\ w.txn.kind \in {"grow", "arena"}
  BY RowEnds
<1>2. w.growth \in Int /\ w.arena \in Int /\ k \in Nat
  BY ConstantsOK, TableNat DEF Row
<1>3. d >= 0 /\ (grow => d <= w.growth) /\ (~grow => d <= w.arena)
      /\ w.growth >= 0 /\ w.arena >= 0
  BY <1>1 DEF RowFits
<1>4. v.growth = (IF grow THEN w.growth - d ELSE w.growth)
      /\ v.arena = (IF grow THEN w.arena ELSE w.arena - d)
  BY DEF Undo, Row
<1> HIDE DEF v, d, k, grow
<1>5. RowFits(v)
  <2>1. v.growth >= 0 /\ v.arena >= 0
    BY <1>1, <1>2, <1>3, <1>4
  <2> QED BY <1>1, <2>1 DEF RowFits
<1>6. charged(r, v) = k + v.growth + v.arena /\ charged(r, w) = k + w.growth + w.arena
  <2>1. r \notin Image
    BY RowSets
  <2>2. \A x : charged(r, x) = k + x.growth + x.arena
    BY <2>1 DEF charged, k
  <2> QED BY <2>2
<1>7. charged(r, v) = charged(r, w) - d
  BY <1>1, <1>2, <1>4, <1>6
<1>8. d \in Nat
  BY <1>1, <1>3
<1> QED BY <1>1, <1>5, <1>7, <1>8 DEF v, d

\* A transaction published, finished, undone.
LEMMA TransactionBudget ==
    ASSUME Inv, Inv', Budget,
           PublishChunks \/ PublishSize \/ PublishArena \/ Finish \/ Settle \/ Undone
    PROVE  Budget'
<1> DEFINE f == Head(todo)
<1>0. StateOK /\ HeadOK /\ reg \in [Res -> Row \cup {None}]
  BY DEF Inv, StateOK
<1>f. RowsFit /\ used \in Int /\ bytes \in Int
  BY DEF Budget, Balanced
<1>n. Charges(reg) \in Nat /\ ImageTotal(reg) \in Nat /\ Fit(reg)
  BY <1>0, <1>f, RegFits, ChargesNat
<1>1. CASE PublishChunks
  <2>1. up /\ todo # <<>> /\ f.op = "chunks"
    BY <1>1, HeadFrame DEF PublishChunks
  <2> DEFINE g == [op |-> "size", res |-> f.res]
  <2>2. g.op \notin Owing /\ Then(<<g>>) /\ UNCHANGED <<reg, used, bytes, up, minted>>
    BY <1>1 DEF PublishChunks, Do, callers, Owing
  <2> HIDE DEF g
  <2>3. f.op \notin Owing \cup {"reconcile"}
    BY <2>1 DEF Owing
  <2>4. Clear /\ Clear' /\ (Recounting => Recounting')
    BY <2>1, <2>2, <2>3, OnTo
  <2> QED BY <2>2, <2>4, Unbilled
<1>2. CASE PublishSize
  <2>1. up /\ todo # <<>> /\ f.op = "size"
    BY <1>2, HeadFrame DEF PublishSize
  <2> DEFINE g == [op |-> "finish", res |-> f.res]
  <2>2. g.op \notin Owing /\ Then(<<g>>) /\ UNCHANGED <<reg, used, bytes, up, minted>>
    BY <1>2 DEF PublishSize, Do, callers, Owing
  <2> HIDE DEF g
  <2>3. f.op \notin Owing \cup {"reconcile"}
    BY <2>1 DEF Owing
  <2>4. Clear /\ Clear' /\ (Recounting => Recounting')
    BY <2>1, <2>2, <2>3, OnTo
  <2> QED BY <2>2, <2>4, Unbilled
<1>3. CASE PublishArena
  <2>1. up /\ todo # <<>> /\ f.op = "arena"
    BY <1>3, HeadFrame DEF PublishArena
  <2> DEFINE g == [op |-> "finish", res |-> f.res]
  <2>2. g.op \notin Owing /\ Then(<<g>>) /\ UNCHANGED <<reg, used, bytes, up, minted>>
    BY <1>3 DEF PublishArena, Do, callers, Owing
  <2> HIDE DEF g
  <2>3. f.op \notin Owing \cup {"reconcile"}
    BY <2>1 DEF Owing
  <2>4. Clear /\ Clear' /\ (Recounting => Recounting')
    BY <2>1, <2>2, <2>3, OnTo
  <2> QED BY <2>2, <2>4, Unbilled
<1>4. CASE Finish
  <2>1. up /\ todo # <<>> /\ f \in Frame /\ f.op = "finish"
    BY <1>4, HeadFrame DEF Finish
  <2>2. /\ f.res \in Memory /\ f.res \in Res /\ reg[f.res] # None /\ reg[f.res].txn # None
        /\ reg[f.res] \in Row
    BY <1>0, <2>1, FrameFields, RowSets DEF HeadOK
  <2> DEFINE g == [op |-> "next", res |-> f.res]
  <2>3. g.op \notin Owing /\ Then(<<g>>) /\ UNCHANGED <<used, bytes, up, minted>>
    BY <1>4 DEF Finish, Do, Owing
  <2> HIDE DEF g
  <2>4. f.op \notin Owing \cup {"reconcile"}
    BY <2>1 DEF Owing
  <2>5. Clear /\ Clear' /\ (Recounting => Recounting')
    BY <2>1, <2>3, <2>4, OnTo
  <2> DEFINE w == [reg[f.res] EXCEPT !.txn = None,
                     !.done[reg[f.res].txn.pid] = [op |-> reg[f.res].txn.op, res |-> "ok"]]
  <2>6. /\ w.txn = None /\ w.pages = reg[f.res].pages
        /\ w.growth = reg[f.res].growth /\ w.arena = reg[f.res].arena
    BY <2>2 DEF Row
  <2>7. reg' = [reg EXCEPT ![f.res] = w]
    BY <1>0, <1>4, <2>2 DEF Finish
  <2>8. w # None
    <3>1. w \in Row
      BY <2>2, RowEnds
    <3> QED BY <3>1, RowSets
  <2> HIDE DEF w
  <2> QED BY <2>2, <2>3, <2>5, <2>6, <2>7, <2>8, Retouched
<1>5. CASE Settle
  <2> DEFINE t == reg[f.res].txn
  <2>1. up /\ todo # <<>> /\ f \in Frame /\ f.op = "settle"
    BY <1>5, HeadFrame DEF Settle
  <2>2. /\ f.res \in Memory /\ f.res \in Res /\ reg[f.res] # None /\ t # None
        /\ reg[f.res] \in Row
    BY <1>0, <2>1, FrameFields, RowSets DEF HeadOK
  <2>3. UNCHANGED <<used, bytes, up, minted>>
    BY <1>5 DEF Settle
  <2>4. f.op \notin Owing \cup {"reconcile"}
    BY <2>1 DEF Owing
  <2>5. CASE UNCHANGED reg /\ Then(Do("finish", f.res))
    <3> DEFINE g == [op |-> "finish", res |-> f.res]
    <3>1. g.op \notin Owing /\ Then(<<g>>)
      BY <2>5 DEF Do, Owing
    <3> HIDE DEF g
    <3>2. Clear /\ Clear' /\ (Recounting => Recounting')
      BY <2>1, <2>3, <2>4, <3>1, OnTo
    <3> QED BY <2>3, <2>5, <3>2, Unbilled
  <2>6. CASE /\ reg' = [reg EXCEPT ![f.res] = Undo(reg[f.res], t)]
             /\ Then(<<[op |-> "undone", res |-> f.res, n |-> t.pd,
                        d |-> IF t.kind = "grow" THEN t.to - t.from ELSE -1]>>)
    <3> DEFINE r == f.res
               w == Undo(reg[f.res], t)
               n == t.pd
               g == [op |-> "undone", res |-> f.res, n |-> t.pd,
                     d |-> IF t.kind = "grow" THEN t.to - t.from ELSE -1]
    <3>1. r \in minted /\ RowFits(reg[r])
      BY <1>f, <2>2 DEF RowsFit
    <3>2. /\ n \in Nat /\ w \in Row /\ RowFits(w)
          /\ charged(r, w) = charged(r, reg[r]) - n
      BY <2>2, <3>1, UndoneFits
    <3>3. w.txn = None
      BY <2>2, RowEnds
    <3>4. reg'[r] = w /\ \A y \in Res \ {r} : reg'[y] = reg[y]
      BY <1>0, <2>2, <2>6, RowSet
    <3>5. w # None
      BY <3>2, RowSets
    <3>6. g.op = "undone" /\ g.res = r /\ g.n = n /\ Then(<<g>>)
      BY <2>6
    <3> HIDE DEF w, g, n, r
    <3>7. RowsFit'
      BY <1>f, <2>3, <3>1, <3>2, <3>3, <3>4 DEF RowsFit
    <3>8. todo' # <<>> /\ Head(todo') = g /\ (Recounting => Recounting')
      BY <2>1, <2>3, <2>4, <3>6, GoesOn
    <3>9. FramesFit' /\ Owed' = n /\ OwedBytes' = 0
      <4>1. n >= 0
        BY <3>2
      <4> QED BY <3>6, <3>8, <4>1 DEF FramesFit, Owed, OwedBytes
    <3>10. Charges(reg') = Charges(reg) - charged(r, reg[r]) + charged(r, w)
           /\ ImageTotal(reg') = ImageTotal(reg)
      <4>1. Fit(reg')
        BY <3>7, NextFits
      <4>2. r \in Res /\ reg[r] # None
        BY <2>2 DEF r
      <4> QED BY <1>n, <3>4, <3>5, <4>1, <4>2, ChargeMoved
    <3>11. charged(r, reg[r]) \in Nat
      BY <2>2, <3>1, ChargedNat DEF r
    <3>12. /\ used' = used + 0 /\ bytes' = bytes + 0
           /\ Owed' \in Int /\ OwedBytes' \in Int
           /\ Charges(reg') + Owed' = Charges(reg) + 0
           /\ ImageTotal(reg') + OwedBytes' = ImageTotal(reg) + 0
      <4> DEFINE a == charged(r, reg[r])
                 b == charged(r, w)
      <4>1. a \in Nat /\ b = a - n /\ Charges(reg') = Charges(reg) - a + b
        BY <3>2, <3>10, <3>11
      <4> HIDE DEF a, b
      <4> QED BY <1>f, <1>n, <2>3, <3>2, <3>9, <3>10, <4>1
    <3>13. Clear
      BY <2>1 DEF Clear, Owing
    <3> QED BY <3>7, <3>8, <3>9, <3>12, <3>13, Opens
  <2> QED BY <1>5, <2>5, <2>6 DEF Settle
<1>6. CASE Undone
  <2>1. up /\ todo # <<>> /\ f \in Frame /\ f.op = "undone"
    BY <1>6, HeadFrame DEF Undone
  <2>2. f.res \in Memory /\ f.n \in Int
    BY <2>1, FrameFields
  <2> DEFINE g == [op |-> "next", res |-> f.res]
             n == f.n
  <2>3. /\ g.op \notin Owing /\ Then(<<g>>) /\ used' = used - n
        /\ UNCHANGED <<reg, bytes, up, minted>>
    BY <1>6 DEF Undone, Do, callers, Owing
  <2>4. Owed = n /\ OwedBytes = 0 /\ n \in Int
    BY <2>1, <2>2 DEF Owed, OwedBytes
  <2>5. RowsFit'
    BY <1>f, <2>3, KeptRows
  <2> HIDE DEF g, n
  <2>6. todo' # <<>> /\ Head(todo') = g /\ (Recounting => Recounting')
    BY <2>1, <2>3, GoesOn
  <2>7. Clear'
    BY <2>3, <2>6 DEF Clear
  <2>8. /\ -n \in Int /\ 0 \in Int /\ used' = used + (-n) /\ bytes' = bytes + 0
        /\ Charges(reg') = Charges(reg) + Owed + (-n)
        /\ ImageTotal(reg') = ImageTotal(reg) + OwedBytes + 0
    BY <1>f, <1>n, <2>3, <2>4
  <2> QED BY <2>5, <2>6, <2>7, <2>8, Pays
<1> QED BY <1>1, <1>2, <1>3, <1>4, <1>5, <1>6

\* A row with a transaction in flight is charged for what it adds.
LEMMA StartedFits ==
    ASSUME StateOK, NEW p \in Pid, cl[p].res \in Memory, reg[cl[p].res] # None,
           RowFits(reg[cl[p].res]), Cost(p) >= 0,
           cl[p].kind = "arena" => cl[p].seen <= cl[p].n
    PROVE  /\ Cost(p) \in Nat /\ Started(p) # None /\ RowFits(Started(p))
           /\ charged(cl[p].res, Started(p)) = charged(cl[p].res, reg[cl[p].res]) + Cost(p)
<1> DEFINE c == cl[p]
           r == c.res
           v == reg[r]
           w == Started(p)
           q == Cost(p)
           t == NewTxn(p)
           k == table_pages(ImagePages[r])
           grow == c.kind = "grow"
<1>1. c \in Client /\ r \in Res /\ v \in Row /\ r \notin Image
  BY RowSets DEF StateOK
<1>2. /\ c.n \in Nat /\ c.seen \in Nat /\ c.kind \in {"grow", "arena"} /\ v.pages \in Nat
      /\ v.growth \in Int /\ v.arena \in Int /\ k \in Nat /\ v.growth >= 0 /\ v.arena >= 0
  BY <1>1, ConstantsOK, TableNat DEF Client, Row, RowFits
<1>3. q \in Int /\ q >= 0 /\ q \in Nat
  <2>1. q \in Int
    BY CostFits
  <2> HIDE DEF q
  <2>2. q >= 0
    BY DEF q
  <2> QED BY <2>1, <2>2
<1>4. /\ t.pd = q /\ t.kind = c.kind
      /\ t.from = (IF grow THEN v.pages ELSE c.seen)
      /\ t.to = (IF grow THEN v.pages + c.n ELSE c.n)
  BY DEF NewTxn
<1>5. w = [v EXCEPT !.pages = IF grow THEN t.to ELSE v.pages,
                    !.growth = IF grow THEN v.growth + q ELSE v.growth,
                    !.arena = IF grow THEN v.arena ELSE v.arena + q,
                    !.txn = t, !.done = [v.done EXCEPT ![p] = None]]
  <2> HIDE DEF t, q
  <2>1. t.kind = c.kind /\ t.pd = q
    BY <1>4
  <2> QED BY <1>1, <2>1 DEF Row, Started, t
<1>d. cl[p].kind = "arena" => cl[p].seen <= cl[p].n
  OBVIOUS
<1> HIDE DEF t, q, w
<1>6. /\ w.pages = (IF grow THEN t.to ELSE v.pages)
      /\ w.growth = (IF grow THEN v.growth + q ELSE v.growth)
      /\ w.arena = (IF grow THEN v.arena ELSE v.arena + q) /\ w.txn = t
  BY <1>1, <1>5 DEF Row
<1>7. w # None
  <2>1. v.done \in [Pid -> Outcome \cup {None}] /\ t.to \in Nat
    <3>1. v.done \in [Pid -> Outcome \cup {None}]
      BY <1>1, RowFields
    <3>2. t.to \in Nat
      BY <1>2, <1>4
    <3> QED BY <3>1, <3>2
  <2>2. t \in Txn
    <3>1. c.op \in Nat
      BY <1>1 DEF Client
    <3>2. t.ct \in Nat
      <4>1. t.ct = IF grow THEN chunk_count(v.pages + c.n, ChunkPages[r]) ELSE c.n
        BY DEF t, NewTxn
      <4>2. v.pages + c.n \in Nat /\ ChunkPages[r] \in Nat \ {0}
        BY <1>2, ConstantsOK
      <4> QED BY <1>2, <4>1, <4>2, ChunkCountNat
    <3>3. t = [op |-> c.op, pid |-> p, kind |-> c.kind, from |-> t.from, to |-> t.to,
               pd |-> q, ct |-> t.ct]
      BY DEF t, NewTxn, q
    <3>4. t.from \in Nat
      BY <1>2, <1>4
    <3> QED BY <1>2, <1>3, <2>1, <3>1, <3>2, <3>3, <3>4 DEF Txn
  <2> DEFINE d == [v.done EXCEPT ![p] = None]
             x == IF grow THEN t.to ELSE v.pages
             y == IF grow THEN v.growth + q ELSE v.growth
             z == IF grow THEN v.arena ELSE v.arena + q
  <2>3. d \in [Pid -> Outcome \cup {None}] /\ x \in Nat /\ y \in Int /\ z \in Int
    BY <1>2, <1>3, <2>1
  <2>4. w = [v EXCEPT !.pages = x, !.growth = y, !.arena = z, !.txn = t, !.done = d]
    BY <1>5
  <2> HIDE DEF d, x, y, z, v
  <2>5. w \in Row
    BY <1>1, <2>2, <2>3, <2>4 DEF Row
  <2> QED BY <2>5, RowFields
<1> HIDE DEF k, v, c, grow
<1>8. RowFits(w)
  <2>1. w.growth >= 0 /\ w.arena >= 0
    BY <1>2, <1>3, <1>6
  <2>2. t.pd = q /\ t.pd >= 0
    BY <1>3, <1>4
  <2>3. t.from <= t.to
    BY <1>2, <1>4, <1>d DEF grow, c
  <2>4. t.kind = "grow" => t.pd <= w.growth /\ w.pages = t.to
    BY <1>2, <1>3, <1>4, <1>6 DEF grow
  <2>5. t.kind = "arena" => t.pd <= w.arena
    BY <1>2, <1>3, <1>4, <1>6 DEF grow
  <2> QED BY <1>6, <2>1, <2>2, <2>3, <2>4, <2>5 DEF RowFits
<1>9. charged(r, w) = charged(r, v) + q
  <2>1. \A x : charged(r, x) = k + x.growth + x.arena
    BY <1>1 DEF charged, k, c
  <2>2. charged(r, w) = k + w.growth + w.arena /\ charged(r, v) = k + v.growth + v.arena
    BY <2>1
  <2>3. w.growth + w.arena = v.growth + v.arena + q
    BY <1>2, <1>3, <1>6
  <2> HIDE DEF r
  <2> QED BY <1>2, <1>3, <1>6, <2>2, <2>3
<1> QED BY <1>3, <1>7, <1>8, <1>9 DEF c, v, w, q

\* A request to begin: what it costs is reserved before the row is written.
LEMMA BeginBudget ==
    ASSUME Inv, Inv', Budget, Clear, NEW p \in Pid, cl[p].res \in Memory, Begin(p, todo),
           UNCHANGED <<reg, bytes, up, minted>>, cl'[p].res = cl[p].res,
           cl'[p].kind = cl[p].kind, cl'[p].n = cl[p].n, cl'[p].seen = cl[p].seen
    PROVE  Budget'
<1> DEFINE c == cl[p]
           r == c.res
           q == Cost(p)
<1>0. StateOK /\ RowsFit /\ used \in Int /\ bytes \in Int /\ todo \in Seq(Frame)
  BY DEF Inv, StateOK, Budget, Balanced
<1>n. Charges(reg) \in Nat /\ ImageTotal(reg) \in Nat
  BY <1>0, RegFits, ChargesNat
<1>1. RowsFit'
  BY <1>0, KeptRows
<1>r. ASSUME NEW g, todo' = <<g>> \o todo
      PROVE  todo' # <<>> /\ Head(todo') = g /\ (Recounting => Recounting')
  <2> DEFINE S == Frame \cup {g}
  <2>1. todo \in Seq(S) /\ g \in S
    BY <1>0
  <2> HIDE DEF S
  <2>2. /\ Len(todo') = 1 + Len(todo) /\ Len(todo) \in Nat
        /\ todo' # <<>> /\ Head(todo') = g
        /\ \A i \in 2 .. 1 + Len(todo) : todo'[i] = todo[i - 1]
    BY <1>r, <2>1, Prepended
  <2>3. ASSUME NEW i \in 1 .. Len(todo), todo[i].op = "reconcile"
        PROVE  \E j \in 1 .. Len(todo') : todo'[j].op = "reconcile"
    <3> DEFINE j == i + 1
    <3>1. j \in 2 .. 1 + Len(todo) /\ j - 1 = i /\ j \in 1 .. Len(todo')
      BY <2>2
    <3>2. todo'[j] = todo[i]
      BY <2>2, <3>1
    <3> QED BY <2>3, <3>1, <3>2
  <2> QED BY <2>2, <2>3 DEF Recounting
<1>2. CASE transaction(p) = "start"
  <2> DEFINE g == [op |-> "txn", pid |-> p]
  <2>1. used' = used + q /\ todo' = <<g>> \o todo
    BY <1>2 DEF Begin
  <2>2. g.op = "txn" /\ g.pid = p
    OBVIOUS
  <2> HIDE DEF g
  <2>3. todo' # <<>> /\ Head(todo') = g /\ (Recounting => Recounting')
    BY <1>r, <2>1
  <2>4. reg[r] # None /\ (c.kind = "arena" => c.seen <= c.n)
    <3>1. Live(r) /\ (c.kind = "arena" => ~(arena[r] >= c.n) /\ arena[r] = c.seen)
      <4> DEFINE row == reg[r]
                 kept == row.done[p] # None /\ row.done[p].op = c.op
      <4>1. CASE ~Live(r)
        BY <1>2, <4>1 DEF transaction
      <4>2. CASE Live(r) /\ kept
        BY <1>2, <4>2 DEF transaction
      <4>3. CASE Live(r) /\ ~kept
        <5>1. transaction(p) =
             IF row.txn # None
             THEN IF row.txn.pid = p /\ row.txn.op = c.op THEN "resume" ELSE "queue"
             ELSE IF c.kind = "grow"
             THEN IF /\ row.pages + c.n <= MaxPages[c.res]
                     /\ AllFit(row, c.n)
                     /\ CanReserve(Cost(p))
                  THEN "start" ELSE "refused"
             ELSE IF arena[c.res] >= c.n THEN "covered"
             ELSE IF arena[c.res] # c.seen THEN "changed"
             ELSE IF CanReserve(Cost(p)) THEN "start" ELSE "refused"
          BY <4>3 DEF transaction
        <5> QED BY <1>2, <4>3, <5>1
      <4> QED BY <4>1, <4>2, <4>3
    <3>2. c.n \in Nat /\ c.seen \in Nat
      BY <1>0 DEF StateOK, Client
    <3> QED BY <3>1, <3>2 DEF Live
  <2>5. q \in Int /\ q >= 0
    <3>1. q \in Int /\ ((c.kind = "arena" => c.seen <= c.n) => q >= 0)
      BY <1>0, <2>4, CostFits
    <3> QED BY <2>4, <3>1
  <2>6. Cost(p)' = q
    BY DEF Cost
  <2>7. Owed' = q /\ OwedBytes' = 0
    BY <2>2, <2>3, <2>6 DEF Owed, OwedBytes
  <2>8. FramesFit'
    <3>1. Cost(p)' >= 0
      BY <2>5, <2>6
    <3>2. cl'[p].kind = "arena" => cl'[p].seen <= cl'[p].n
      BY <2>4
    <3> HIDE DEF q
    <3> QED BY <2>2, <2>3, <3>1, <3>2 DEF FramesFit
  <2> HIDE DEF q
  <2>9. /\ 0 \in Int /\ bytes' = bytes + 0 /\ Owed' \in Int /\ OwedBytes' \in Int
        /\ Charges(reg') + Owed' = Charges(reg) + q
        /\ ImageTotal(reg') + OwedBytes' = ImageTotal(reg) + 0
    BY <1>0, <1>n, <2>5, <2>7
  <2> QED BY <1>1, <2>1, <2>3, <2>5, <2>8, <2>9, Opens
<1>3. CASE transaction(p) # "start"
  <2>1. UNCHANGED used
    BY <1>3 DEF Begin
  <2>2. Clear' /\ (Recounting => Recounting')
    <3>1. CASE transaction(p) = "queue"
      <4>1. todo' = <<>> \o todo
        BY <3>1 DEF Begin
      <4>2. todo' = todo
        BY <1>0, <4>1
      <4> QED BY <4>2 DEF Clear, Recounting
    <3>2. CASE transaction(p) = "resume"
      <4> DEFINE g == [op |-> "grant", pid |-> p]
      <4>1. g.op = "grant" /\ todo' = <<g>> \o todo
        BY <3>2 DEF Begin, Grant
      <4> HIDE DEF g
      <4>2. todo' # <<>> /\ Head(todo') = g /\ (Recounting => Recounting')
        BY <1>r, <4>1
      <4> QED BY <4>1, <4>2 DEF Clear, Owing
    <3>3. CASE transaction(p) \in {"gone", "done", "refused", "covered", "changed"}
      <4> DEFINE g == [op |-> "reply", pid |-> p, res |-> transaction(p)]
      <4>1. g.op = "reply" /\ todo' = <<g>> \o todo
        BY <3>3 DEF Begin, Reply
      <4> HIDE DEF g
      <4>2. todo' # <<>> /\ Head(todo') = g /\ (Recounting => Recounting')
        BY <1>r, <4>1
      <4> QED BY <4>1, <4>2 DEF Clear, Owing
    <3> QED BY <1>3, <3>1, <3>2, <3>3, TransactionIs
  <2> QED BY <2>1, <2>2, Unbilled
<1> QED BY <1>2, <1>3

\* One member of a set of things to do is done, with one frame or none of its own.
LEMMA Rolls ==
    ASSUME Inv, todo # <<>>, Head(todo).op \notin Owing \cup {"reconcile"}, up' = up,
           NEW op \in Deferred, NEW S, NEW s, s = <<>> \/ \E g : g.op \notin Owing /\ s = <<g>>,
           Then(s \o Each(op, S))
    PROVE  Clear /\ Clear' /\ (Recounting => Recounting')
<1>0. Clear
  BY DEF Clear
<1>1. CASE s = <<>>
  <2>1. <<>> \o Each(op, S) = Each(op, S)
    <3> DEFINE b == [op |-> op, set |-> S]
    <3>1. Each(op, S) = IF S = {} THEN <<>> ELSE <<b>>
      BY DEF Each
    <3> HIDE DEF b
    <3>2. <<>> \o <<>> = <<>> /\ <<>> \o <<b>> = <<b>>
      <4>1. \A q \in Seq({b}) : <<>> \o q = q
        OBVIOUS
      <4>2. <<>> \in Seq({b}) /\ <<b>> \in Seq({b})
        OBVIOUS
      <4> QED BY <4>1, <4>2
    <3> QED BY <3>1, <3>2
  <2>2. Then(Each(op, S))
    BY <1>1, <2>1
  <2> QED BY <1>0, <2>2, GoesOn
<1>2. ASSUME NEW g, g.op \notin Owing, s = <<g>>
      PROVE  Clear' /\ (Recounting => Recounting')
  <2>1. Then(<<g>> \o Each(op, S))
    BY <1>2
  <2>2. todo' # <<>> /\ Head(todo') = g /\ (Recounting => Recounting')
    BY <2>1, GoesOn
  <2> QED BY <1>2, <2>2 DEF Clear
<1> QED BY <1>0, <1>1, <1>2

\* The outcomes kept in a row are not charged for.
LEMMA OutcomesFree ==
    ASSUME Inv, Inv', Budget, Clear, Clear', UNCHANGED <<used, bytes, minted>>,
           NEW r \in Res, NEW d \in [Pid -> Outcome \cup {None}], reg[r] # None,
           reg' = [reg EXCEPT ![r] = [reg[r] EXCEPT !.done = d]],
           Recounting => Recounting'
    PROVE  Budget'
<1> DEFINE w == [reg[r] EXCEPT !.done = d]
<1>1. reg[r] \in Row
  BY DEF Inv, StateOK
<1>2. w \in Row /\ w # None
  BY ZenonT(60), <1>1, RowFields
<1>3. w.pages = reg[r].pages /\ w.growth = reg[r].growth /\ w.arena = reg[r].arena
      /\ w.txn = reg[r].txn
  BY <1>1 DEF Row
<1>4. reg' = [reg EXCEPT ![r] = w]
  OBVIOUS
<1> HIDE DEF w
<1> QED BY <1>2, <1>3, <1>4, Retouched

\* A caller answered, a row written for its transaction, the next one taken.
LEMMA AnswerBudget ==
    ASSUME Inv, Inv', Budget, GrantStep \/ ReplyStep \/ TxnRow \/ NextTransaction
    PROVE  Budget'
<1> DEFINE f == Head(todo)
<1>0. StateOK /\ HeadOK /\ reg \in [Res -> Row \cup {None}]
  BY DEF Inv, StateOK
<1>f. RowsFit /\ FramesFit /\ used \in Int /\ bytes \in Int
  BY DEF Budget, Balanced
<1>n. Charges(reg) \in Nat /\ ImageTotal(reg) \in Nat /\ Fit(reg)
  BY <1>0, <1>f, RegFits, ChargesNat
<1>1. CASE GrantStep
  <2>1. up /\ todo # <<>> /\ f.op = "grant"
    BY <1>1, HeadFrame DEF GrantStep
  <2>2. Then(<<>>) /\ UNCHANGED <<reg, used, bytes, up, minted>>
    BY <1>1 DEF GrantStep, durable
  <2>3. Clear /\ Clear' /\ (Recounting => Recounting')
    BY <2>1, <2>2, GoesOn DEF Clear, Owing
  <2> QED BY <2>2, <2>3, Unbilled
<1>2. CASE ReplyStep
  <2>1. up /\ todo # <<>> /\ f.op = "reply"
    BY <1>2, HeadFrame DEF ReplyStep
  <2>2. Then(<<>>) /\ UNCHANGED <<reg, used, bytes, up, minted>>
    BY <1>2 DEF ReplyStep
  <2>3. Clear /\ Clear' /\ (Recounting => Recounting')
    BY <2>1, <2>2, GoesOn DEF Clear, Owing
  <2> QED BY <2>2, <2>3, Unbilled
<1>3. CASE TxnRow
  <2>1. up /\ todo # <<>> /\ f \in Frame /\ f.op = "txn"
    BY <1>3, HeadFrame DEF TxnRow
  <2>0. PICK p \in Pid : p = f.pid
    BY <2>1, FrameFields
  <2> DEFINE r == cl[p].res
             w == Started(p)
             g == [op |-> "grant", pid |-> p]
             q == Cost(p)
  <2>2. reg[r] # None /\ cl[p].ph \in {"begin", "queued"}
    BY <1>0, <2>0, <2>1 DEF HeadOK
  <2>3. r \in Memory /\ r \in Res
    BY <2>2, RowSets DEF Inv, WriterOK, WriterIs
  <2>4. q >= 0 /\ (cl[p].kind = "arena" => cl[p].seen <= cl[p].n)
    BY <1>f, <2>0, <2>1 DEF FramesFit
  <2>5. r \in minted /\ RowFits(reg[r]) /\ reg[r] \in Row
    BY <1>0, <1>f, <2>2, <2>3 DEF RowsFit
  <2>6. /\ q \in Nat /\ w # None /\ RowFits(w)
        /\ charged(r, w) = charged(r, reg[r]) + q
    BY <1>0, <2>2, <2>3, <2>4, <2>5, StartedFits
  <2>7. reg' = [reg EXCEPT ![r] = w] /\ Then(<<g>>)
        /\ UNCHANGED <<used, bytes, up, minted>>
    <3>1. Then(<<g>>) /\ UNCHANGED <<used, bytes, up, minted>>
      BY <1>3, <2>0 DEF TxnRow, callers, Grant
    <3>2. reg' = [reg EXCEPT ![r] = w]
      BY <1>3, <2>0 DEF TxnRow
    <3> QED BY <3>1, <3>2
  <2>8. Owed = q /\ OwedBytes = 0
    BY <2>0, <2>1 DEF Owed, OwedBytes
  <2>9. g.op = "grant"
    OBVIOUS
  <2> HIDE DEF w, g, q
  <2>10. todo' # <<>> /\ Head(todo') = g /\ (Recounting => Recounting')
    BY <2>1, <2>7, GoesOn
  <2>11. Clear'
    BY <2>9, <2>10 DEF Clear, Owing
  <2>12. reg'[r] = w /\ \A y \in Res \ {r} : reg'[y] = reg[y]
    BY <1>0, <2>3, <2>7, RowSet
  <2>13. RowsFit'
    BY <1>f, <2>3, <2>5, <2>6, <2>7, <2>12 DEF RowsFit
  <2>14. Charges(reg') = Charges(reg) - charged(r, reg[r]) + charged(r, w)
         /\ ImageTotal(reg') = ImageTotal(reg)
    <3>1. Fit(reg')
      BY <2>13, NextFits
    <3> QED BY <1>n, <2>2, <2>3, <2>6, <2>12, <3>1, ChargeMoved
  <2>15. charged(r, reg[r]) \in Nat
    BY <2>3, <2>5, ChargedNat
  <2>16. /\ 0 \in Int /\ used' = used + 0 /\ bytes' = bytes + 0
         /\ Charges(reg') = Charges(reg) + Owed + 0
         /\ ImageTotal(reg') = ImageTotal(reg) + OwedBytes + 0
    <3> DEFINE a == charged(r, reg[r])
               b == charged(r, w)
    <3>1. a \in Nat /\ b = a + q /\ Charges(reg') = Charges(reg) - a + b
      BY <2>6, <2>14, <2>15
    <3> HIDE DEF a, b
    <3> QED BY <1>f, <1>n, <2>6, <2>7, <2>8, <2>14, <3>1
  <2> QED BY <2>10, <2>11, <2>13, <2>16, Pays
<1>4. CASE NextTransaction
  <2>1. up /\ todo # <<>> /\ f \in Frame /\ f.op = "next"
    BY <1>4, HeadFrame DEF NextTransaction
  <2>0. PICK r \in Memory : r = f.res
    BY <2>1, FrameFields
  <2>2. UNCHANGED <<reg, bytes, up, minted, cl>>
    BY <1>4 DEF NextTransaction, callers
  <2>3. Clear
    BY <2>1 DEF Clear, Owing
  <2>4. CASE Then(<<>>) /\ UNCHANGED used
    <3>1. Clear' /\ (Recounting => Recounting')
      BY <2>1, <2>2, <2>4, GoesOn
    <3> QED BY <2>2, <2>3, <2>4, <3>1, Unbilled
  <2>5. CASE queued[r] # <<>> /\ Begin(Head(queued[r]), todo)
    <3>1. queued[r] \in Seq(Pid) /\ QueueOK
      BY DEF Inv, StateOK
    <3>2. PICK p \in Pid : p = Head(queued[r])
      BY <2>5, <3>1
    <3>3. 1 \in 1 .. Len(queued[r]) /\ queued[r][1] = p
      BY <2>5, <3>1, <3>2
    <3>4. cl[p].res \in Memory
      BY <3>1, <3>3 DEF QueueOK
    <3>5. Begin(p, todo)
      BY <2>5, <3>2
    <3>6. cl'[p] = cl[p]
      BY <2>2
    <3> QED BY <2>2, <2>3, <3>4, <3>5, <3>6, BeginBudget
  <2> QED BY <1>4, <2>0, <2>4, <2>5 DEF NextTransaction
<1> QED BY <1>1, <1>2, <1>3, <1>4

\* Recovery: dead writers, cleanups left half done, rows, orphan images and the
\* counters themselves.
LEMMA RecoveryBudget ==
    ASSUME Inv, Inv', Budget,
           WriterGone \/ FinishRetiring \/ RecoverRow \/ SweepImages \/ ReconcileCounters
    PROVE  Budget'
<1> DEFINE f == Head(todo)
<1>0. StateOK /\ HeadOK /\ reg \in [Res -> Row \cup {None}]
  BY DEF Inv, StateOK
<1>1. CASE WriterGone
  <2>1. up /\ todo # <<>> /\ f \in Frame /\ f.op = "gone"
    BY <1>1, HeadFrame DEF WriterGone
  <2>2. f.set \subseteq Memory \X Pid /\ UNCHANGED <<used, bytes, up, minted>>
        /\ f.op \notin Owing \cup {"reconcile"}
    BY <1>1, <2>1, FrameFields DEF WriterGone, callers, Owing
  <2>3. PICK x, s :
          /\ x \in f.set
          /\ s = <<>> \/ s = <<[op |-> "settle", res |-> x[1]]>>
          /\ \/ UNCHANGED reg /\ Then(Each("gone", f.set \ {x}))
             \/ /\ reg[x[1]] # None /\ reg' = [reg EXCEPT ![x[1]].done[x[2]] = None]
                /\ Then(s \o Each("gone", f.set \ {x}))
    BY <1>1 DEF WriterGone, Do
  <2>4. x[1] \in Res /\ x[2] \in Pid
    BY <2>2, <2>3, RowSets
  <2> DEFINE S == f.set \ {x}
  <2>d. "gone" \in Deferred
    BY DEF Deferred
  <2>5. CASE UNCHANGED reg /\ Then(Each("gone", S))
    <3>1. Clear' /\ (Recounting => Recounting')
      <4> HIDE DEF S
      <4> QED BY <2>1, <2>2, <2>5, <2>d, GoesOn
    <3>2. Clear
      BY <2>1 DEF Clear, Owing
    <3> QED BY <2>2, <2>5, <3>1, <3>2, Unbilled
  <2>6. CASE /\ reg[x[1]] # None /\ reg' = [reg EXCEPT ![x[1]].done[x[2]] = None]
             /\ Then(s \o Each("gone", S))
    <3>1. Clear /\ Clear' /\ (Recounting => Recounting')
      <4>1. s = <<>> \/ \E g : g.op \notin Owing /\ s = <<g>>
        <5> DEFINE g == [op |-> "settle", res |-> x[1]]
        <5>1. g.op \notin Owing /\ (s = <<>> \/ s = <<g>>)
          BY <2>3 DEF Owing
        <5> HIDE DEF g
        <5> QED BY <5>1
      <4> HIDE DEF S
      <4> QED BY <2>1, <2>2, <2>6, <2>d, <4>1, Rolls
    <3> DEFINE d == [reg[x[1]].done EXCEPT ![x[2]] = None]
    <3>2. reg[x[1]] \in Row
      BY <1>0, <2>4, <2>6
    <3>3. d \in [Pid -> Outcome \cup {None}]
      BY <2>4, <3>2, RowFields
    <3>4. reg' = [reg EXCEPT ![x[1]] = [reg[x[1]] EXCEPT !.done = d]]
      BY <2>6
    <3> HIDE DEF d
    <3> QED BY <2>2, <2>4, <2>6, <3>1, <3>3, <3>4, OutcomesFree
  <2> QED BY <2>3, <2>5, <2>6
<1>2. CASE FinishRetiring
  <2>1. up /\ todo # <<>> /\ f \in Frame /\ f.op = "retiring"
    BY <1>2, HeadFrame DEF FinishRetiring
  <2>2. UNCHANGED <<reg, used, bytes, up, minted>> /\ f.op \notin Owing \cup {"reconcile"}
        /\ "retiring" \in Deferred
    BY <1>2, <2>1 DEF FinishRetiring, durable, callers, Owing, Deferred
  <2>3. PICK r, s : /\ r \in f.set /\ (s = <<>> \/ s = <<[op |-> "forget", res |-> r]>>)
                  /\ Then(s \o Each("retiring", f.set \ {r}))
    BY <1>2 DEF FinishRetiring, Do
  <2> DEFINE S == f.set \ {r}
             g == [op |-> "forget", res |-> r]
  <2>4. g.op \notin Owing /\ (s = <<>> \/ s = <<g>>) /\ Then(s \o Each("retiring", S))
    BY <2>3 DEF Owing
  <2> HIDE DEF S, g
  <2>5. s = <<>> \/ \E y : y.op \notin Owing /\ s = <<y>>
    BY <2>4
  <2>6. Clear /\ Clear' /\ (Recounting => Recounting')
    BY <2>1, <2>2, <2>4, <2>5, Rolls
  <2> QED BY <2>2, <2>6, Unbilled
<1>3. CASE RecoverRow
  <2>1. up /\ todo # <<>> /\ f \in Frame /\ f.op = "recover"
    BY <1>3, HeadFrame DEF RecoverRow
  <2>2. f.set \subseteq Memory /\ UNCHANGED <<used, bytes, up, minted>>
        /\ f.op \notin Owing \cup {"reconcile"} /\ "recover" \in Deferred
    BY <1>3, <2>1, FrameFields DEF RecoverRow, callers, Owing, Deferred
  <2>3. PICK r, s :
          LET kept == {p \in alive : reg[r].done[p] # None} IN
          /\ r \in f.set
          /\ s = <<>> \/ s = <<[op |-> "settle", res |-> r]>>
          /\ \/ UNCHANGED reg /\ Then(Each("recover", f.set \ {r}))
             \/ /\ reg[r] # None
                /\ reg' = [reg EXCEPT ![r].done =
                             [p \in Pid |-> IF p \in kept THEN @[p] ELSE None]]
                /\ Then(s \o Each("recover", f.set \ {r}))
    BY <1>3 DEF RecoverRow, Do
  <2>4. r \in Res
    BY <2>2, <2>3, RowSets
  <2> DEFINE S == f.set \ {r}
  <2>5. CASE UNCHANGED reg /\ Then(Each("recover", S))
    <3>1. Clear' /\ (Recounting => Recounting')
      <4> HIDE DEF S
      <4> QED BY <2>1, <2>2, <2>5, GoesOn
    <3>2. Clear
      BY <2>1 DEF Clear, Owing
    <3> QED BY <2>2, <2>5, <3>1, <3>2, Unbilled
  <2> DEFINE kept == {p \in alive : reg[r].done[p] # None}
  <2>6. CASE /\ reg[r] # None
             /\ reg' = [reg EXCEPT ![r].done =
                             [p \in Pid |-> IF p \in kept THEN @[p] ELSE None]]
             /\ Then(s \o Each("recover", S))
    <3>1. Clear /\ Clear' /\ (Recounting => Recounting')
      <4>1. s = <<>> \/ \E g : g.op \notin Owing /\ s = <<g>>
        <5> DEFINE g == [op |-> "settle", res |-> r]
        <5>1. g.op \notin Owing /\ (s = <<>> \/ s = <<g>>)
          BY <2>3 DEF Owing
        <5> HIDE DEF g
        <5> QED BY <5>1
      <4> HIDE DEF S
      <4> QED BY <2>1, <2>2, <2>6, <4>1, Rolls
    <3> DEFINE e == reg[r].done
               d == [p \in Pid |-> IF p \in kept THEN e[p] ELSE None]
    <3>2. reg[r] \in Row
      BY <1>0, <2>4, <2>6
    <3>3. e \in [Pid -> Outcome \cup {None}]
      BY <3>2, RowFields
    <3>4. d \in [Pid -> Outcome \cup {None}]
      <4> HIDE DEF e, kept
      <4> QED BY <3>3
    <3>5. reg' = [reg EXCEPT ![r] = [reg[r] EXCEPT !.done = d]]
      BY <2>6
    <3> HIDE DEF d, e, kept
    <3> QED BY <2>2, <2>4, <2>6, <3>1, <3>4, <3>5, OutcomesFree
  <2> QED BY <2>3, <2>5, <2>6
<1>4. CASE SweepImages
  <2>1. up /\ todo # <<>> /\ f \in Frame /\ f.op = "sweep"
    BY <1>4, HeadFrame DEF SweepImages
  <2>2. f.set \subseteq Res /\ UNCHANGED <<used, bytes, up, minted>>
        /\ f.op \notin Owing \cup {"reconcile"} /\ "sweep" \in Deferred
    BY <1>4, <2>1, FrameFields DEF SweepImages, callers, Owing, Deferred
  <2>3. PICK i \in f.set :
          \/ UNCHANGED reg /\ Then(Each("sweep", f.set \ {i}))
          \/ /\ reg[i] # None /\ reg' = [reg EXCEPT ![i].state = "retiring"]
             /\ Then(<<[op |-> "forget", res |-> i]>> \o Each("sweep", f.set \ {i}))
    BY <1>4 DEF SweepImages, Do
  <2>4. i \in Res
    BY <2>2
  <2> DEFINE S == f.set \ {i}
             g == [op |-> "forget", res |-> i]
  <2>c. Clear
    BY <2>1 DEF Clear, Owing
  <2>5. CASE UNCHANGED reg /\ Then(Each("sweep", S))
    <3>1. Clear' /\ (Recounting => Recounting')
      <4> HIDE DEF S
      <4> QED BY <2>1, <2>2, <2>5, GoesOn
    <3> QED BY <2>2, <2>5, <2>c, <3>1, Unbilled
  <2>6. CASE /\ reg[i] # None /\ reg' = [reg EXCEPT ![i].state = "retiring"]
             /\ Then(<<g>> \o Each("sweep", S))
    <3> DEFINE w == [reg[i] EXCEPT !.state = "retiring"]
    <3>1. reg[i] \in Row
      BY <1>0, <2>4, <2>6
    <3>2. w.pages = reg[i].pages /\ w.growth = reg[i].growth /\ w.arena = reg[i].arena
          /\ w.txn = reg[i].txn /\ w # None
      <4>1. w \in Row
        BY <3>1, RowFields
      <4> QED BY <3>1, <4>1, RowSets DEF Row
    <3>3. reg' = [reg EXCEPT ![i] = w]
      BY <2>6
    <3>4. g.op \notin Owing
      BY DEF Owing
    <3> HIDE DEF w, g, S
    <3>5. todo' # <<>> /\ Head(todo') = g /\ (Recounting => Recounting')
      BY <2>1, <2>2, <2>6, GoesOn
    <3>6. Clear'
      BY <3>4, <3>5 DEF Clear
    <3> QED BY <2>2, <2>4, <2>6, <2>c, <3>2, <3>3, <3>5, <3>6, Retouched
  <2> QED BY <2>3, <2>5, <2>6
<1>5. CASE ReconcileCounters
  <2>1. up /\ todo # <<>> /\ f.op = "reconcile"
    BY <1>5, HeadFrame DEF ReconcileCounters
  <2>2. /\ used' = Charges(reg) /\ bytes' = ImageTotal(reg) /\ Then(<<>>)
        /\ UNCHANGED <<reg, minted>>
    BY <1>5 DEF ReconcileCounters, callers
  <2>3. Clear'
    <3>1. <<>> \in Seq({})
      OBVIOUS
    <3> QED BY <2>1, <2>2, <3>1, Popped
  <2>4. RowsFit' /\ FramesFit' /\ Owed' = 0 /\ OwedBytes' = 0
    BY <2>2, <2>3, KeptRows, NothingOwed DEF Budget
  <2>5. Charges(reg) \in Nat /\ ImageTotal(reg) \in Nat
    BY RegFits, ChargesNat DEF Inv, Budget
  <2>6. Charges(reg') = Charges(reg) /\ ImageTotal(reg') = ImageTotal(reg)
    BY <2>2
  <2>7. Balanced'
    <3> DEFINE a == Charges(reg)
               b == ImageTotal(reg)
    <3>1. /\ used' = a /\ bytes' = b /\ a \in Nat /\ b \in Nat
          /\ Charges(reg') = a /\ ImageTotal(reg') = b
      BY <2>2, <2>5, <2>6
    <3> HIDE DEF a, b
    <3> QED BY <2>4, <3>1 DEF Balanced
  <2> QED BY <2>4, <2>7 DEF Budget
<1> QED BY <1>1, <1>2, <1>3, <1>4, <1>5

-----------------------------------------------------------------------------
(* Messages, deaths and the callers' own steps.                            *)

\* A handler that starts with a frame that owes nothing.
LEMMA StartClear ==
    ASSUME NEW g, g.op \notin Owing, NEW S, NEW s \in Seq(S), todo' = <<g>> \o s
    PROVE  Clear'
<1> DEFINE T == S \cup {g}
<1>1. s \in Seq(T) /\ g \in T
  OBVIOUS
<1> HIDE DEF T
<1>2. todo' # <<>> /\ Head(todo') = g
  BY <1>1, Prepended
<1> QED BY <1>2 DEF Clear

\* A kept outcome forgotten.
LEMMA ForgetBudget ==
    ASSUME Inv, Inv', Budget, Clear, Clear', UNCHANGED <<used, bytes, minted>>,
           NEW p \in Pid, cl[p].res \in Memory, ForgetOutcome(p), Recounting => Recounting'
    PROVE  Budget'
<1> DEFINE r == cl[p].res
           d == [reg[r].done EXCEPT ![p] = None]
<1>1. CASE UNCHANGED reg
  BY <1>1, Unbilled
<1>2. CASE reg[r] # None /\ reg' = [reg EXCEPT ![r].done[p] = None]
  <2>1. r \in Res /\ reg[r] \in Row
    BY <1>2, RowSets DEF Inv, StateOK
  <2>2. d \in [Pid -> Outcome \cup {None}]
    BY <2>1, RowFields
  <2>3. reg' = [reg EXCEPT ![r] = [reg[r] EXCEPT !.done = d]]
    BY <1>2
  <2> HIDE DEF d
  <2> QED BY <1>2, <2>1, <2>2, <2>3, OutcomesFree
<1> QED BY <1>1, <1>2 DEF ForgetOutcome

\* A message from a caller.
LEMMA HandleBudget ==
    ASSUME Inv, Inv', Budget, NEW p \in Pid, Handle(p) PROVE Budget'
<1> DEFINE c == cl[p]
           r == c.res
<1>0. StateOK /\ WriterIs(p) /\ cl \in [Pid -> Client] /\ c \in Client
  BY DEF Inv, StateOK, WriterOK
<1>1. CASE HandleBegin(p)
  <2>1. up /\ todo = <<>> /\ c.ph = "begin" /\ Begin(p, todo) /\ Clear
    BY <1>1, FromIdle DEF HandleBegin, Idle
  <2>2. UNCHANGED <<reg, bytes, up, minted>>
    BY <1>1 DEF HandleBegin
  <2>3. r \in Memory
    BY <1>0, <2>1 DEF WriterIs
  <2>4. cl'[p].res = c.res /\ cl'[p].kind = c.kind /\ cl'[p].n = c.n /\ cl'[p].seen = c.seen
    <3>1. CASE UNCHANGED cl
      BY <3>1
    <3>2. CASE cl' = [cl EXCEPT ![p].ph = "queued"]
      <4>1. cl'[p] = [c EXCEPT !.ph = "queued"]
        BY <1>0, <3>2
      <4> HIDE DEF c
      <4> QED BY <1>0, <4>1 DEF Client
    <3> QED BY <1>1, <3>1, <3>2 DEF HandleBegin
  <2> QED BY <2>1, <2>2, <2>3, <2>4, BeginBudget
<1> DEFINE y(res) == [op |-> "reply", pid |-> p, res |-> res]
<1>y. \A res : y(res).op \notin Owing /\ Reply(p, res) = <<y(res)>> /\ Reply(p, res) \in Seq({y(res)})
  BY DEF Owing, Reply
<1>o. ASSUME NEW res, todo' = Reply(p, res) PROVE Clear'
  <2> DEFINE g == y(res)
  <2>1. g.op \notin Owing /\ todo' = <<g>>
    BY <1>o, <1>y
  <2> HIDE DEF g
  <2>2. todo' # <<>> /\ Head(todo') = g
    BY <2>1
  <2> QED BY <2>1, <2>2 DEF Clear
<1>2. CASE HandleCommit(p)
  <2>1. Idle /\ UNCHANGED <<reg, used, bytes, up, minted>>
    BY <1>2 DEF HandleCommit, durable, callers
  <2>2. Clear /\ ~Recounting
    BY <2>1, FromIdle
  <2>3. Clear'
    <3>1. CASE todo' = Reply(p, outcome(p))
      BY <1>o, <3>1
    <3>2. CASE todo' = <<[op |-> IF reg[r].txn.kind = "grow" THEN "chunks" ELSE "arena",
                          res |-> r, pid |-> p]>> \o Reply(p, "ok")
      <4> DEFINE g == [op |-> IF reg[r].txn.kind = "grow" THEN "chunks" ELSE "arena",
                       res |-> r, pid |-> p]
      <4>1. g.op \notin Owing /\ todo' = <<g>> \o Reply(p, "ok")
        BY <3>2 DEF Owing
      <4>2. Reply(p, "ok") \in Seq({y("ok")})
        BY <1>y
      <4> HIDE DEF g, y
      <4> QED BY <4>1, <4>2, StartClear
    <3> QED BY <1>2, <3>1, <3>2 DEF HandleCommit
  <2> QED BY <2>1, <2>2, <2>3, Unbilled
<1>3. CASE HandleAbort(p)
  <2>1. Idle /\ c.ph = "abort" /\ UNCHANGED <<used, bytes, up, minted>>
    BY <1>3 DEF HandleAbort, callers
  <2>2. Clear /\ ~Recounting
    BY <2>1, FromIdle
  <2>3. CASE todo' = Do("settle", r) \o Reply(p, "raised") /\ UNCHANGED reg
    <3> DEFINE g == [op |-> "settle", res |-> r]
    <3>1. g.op \notin Owing /\ todo' = <<g>> \o Reply(p, "raised")
      BY <2>3 DEF Owing, Do
    <3>2. Reply(p, "raised") \in Seq({y("raised")})
      BY <1>y
    <3> HIDE DEF g, y
    <3>3. Clear'
      BY <3>1, <3>2, StartClear
    <3> QED BY <2>1, <2>2, <2>3, <3>3, Unbilled
  <2>4. CASE todo' = Reply(p, "raised") /\ ForgetOutcome(p)
    <3>1. r \in Memory
      BY <1>0, <2>1 DEF WriterIs
    <3>2. Clear'
      BY <1>o, <2>4
    <3> QED BY <2>1, <2>2, <2>4, <3>1, <3>2, ForgetBudget
  <2> QED BY <1>3, <2>3, <2>4 DEF HandleAbort
<1>4. CASE HandleAck(p)
  <2>1. /\ Idle /\ c.ph = "ack" /\ ForgetOutcome(p)
        /\ UNCHANGED <<used, bytes, up, todo, minted>>
    BY <1>4 DEF HandleAck
  <2>2. Clear /\ ~Recounting /\ Clear'
    BY <2>1, FromIdle DEF Clear
  <2>3. r \in Memory
    BY <1>0, <2>1 DEF WriterIs
  <2> QED BY <2>1, <2>2, <2>3, ForgetBudget
<1>5. CASE HandleFree(p)
  <2>1. /\ Idle /\ c.ph = "free" /\ todo' = Each("drops", {<<c.res, c.tok>>})
        /\ UNCHANGED <<reg, used, bytes, up, minted>>
    BY <1>5 DEF HandleFree, durable
  <2>2. c.res \in Res /\ c.tok \in Token
    BY <2>1, RowSets DEF Inv, MakeOK
  <2>3. Tailable(Each("drops", {<<c.res, c.tok>>}))
    BY <2>2, TailEach
  <2>4. Clear /\ ~Recounting /\ Clear'
    BY <2>1, <2>3, FromIdle, TailClear
  <2> QED BY <2>1, <2>4, Unbilled
<1> QED BY <1>1, <1>2, <1>3, <1>4, <1>5 DEF Handle

\* The death of a process is heard of.
LEMMA DownBudget ==
    ASSUME Inv, Inv', Budget, NEW p \in Pid, Down(p) PROVE Budget'
<1>0. StateOK
  BY DEF Inv
<1>d. ASSUME Idle, NEW s, Tailable(s), todo' = s, UNCHANGED <<reg, used, bytes, minted>>
      PROVE  Budget'
  <2>1. Clear /\ Clear' /\ ~Recounting
    BY <1>d, FromIdle, TailClear
  <2> QED BY <1>d, <2>1, Unbilled
<1>1. CASE HolderDown(p)
  <2>1. Tailable(Each("drops", {x \in held : OwnerOf[x[2]] = p}))
    BY <1>0, TailEach DEF StateOK
  <2> QED BY <1>1, <2>1, <1>d DEF HolderDown, durable, callers
<1>2. CASE WriterDown(p)
  <2>1. Tailable(Each("gone", {<<r, p>> : r \in writers[p]}))
    BY <1>0, TailEach DEF StateOK
  <2> QED BY <1>2, <2>1, <1>d DEF WriterDown, durable, callers
<1> QED BY <1>1, <1>2 DEF Down

\* The callers' own steps charge nothing.
LEMMA CallerBudget ==
    ASSUME Inv, Inv', Budget, NEW p \in Pid,
           \/ Advance(p) \/ Die(p)
           \/ \E m \in Memory : \/ \E d \in Deltas[p] : Grow(p, m, d)
                                \/ \E n \in 1 .. MaxArena : NeedArena(p, m, n)
    PROVE  Budget'
<1>1. UNCHANGED <<todo, reg, used, bytes, up, minted>>
  BY DEF Advance, CreateMem, CreateFails, Look, Extend, ExtendFails, Die, Grow, NeedArena,
         durable
<1>2. cl \in [Pid -> Client]
  BY DEF Inv, StateOK
<1>3. \A q \in Pid : cl[q].ph \in {"begin", "queued"} => cl'[q] = cl[q]
  <2>1. CASE Die(p)
    BY <2>1 DEF Die
  <2>2. CASE ~Die(p)
    <3>1. /\ cl[p].ph \notin {"begin", "queued"}
          /\ \A q \in Pid \ {p} : cl'[q] = cl[q]
      BY <1>2, <2>2 DEF Advance, CreateMem, CreateFails, Look, Ask, Extend, ExtendFails,
                        Grow, NeedArena, Free
    <3> QED BY <3>1
  <2> QED BY <2>1, <2>2
<1> QED BY <1>1, <1>3, Aside

-----------------------------------------------------------------------------
(* A crash, and the end of it.                                             *)

\* The keeper is killed with one side of a handler written: the counters are
\* left ahead of the rows.
LEMMA CrashBudget ==
    ASSUME Inv, Inv', Budget, Crash PROVE Budget'
<1>1. ~up' /\ todo' = <<>> /\ UNCHANGED <<reg, used, bytes, minted>>
  BY DEF Crash, durable
<1>2. Clear' /\ Recounting'
  BY <1>1 DEF Clear, Recounting
<1>3. Owed' = 0 /\ OwedBytes' = 0 /\ FramesFit'
  BY <1>2, NothingOwed
<1>4. RowsFit'
  BY <1>1, KeptRows DEF Budget
<1>5. Owed \in Nat /\ OwedBytes \in Nat /\ Charges(reg) \in Nat /\ ImageTotal(reg) \in Nat
  BY OwedNat, RegFits, ChargesNat DEF Inv, Budget
<1>6. Charges(reg') = Charges(reg) /\ ImageTotal(reg') = ImageTotal(reg)
  BY <1>1
<1>7. Balanced'
  <2> DEFINE a == Charges(reg)
             b == ImageTotal(reg)
             o == Owed
             q == OwedBytes
  <2>1. /\ used \in Int /\ bytes \in Int /\ used >= a + o /\ bytes >= b + q
    BY DEF Budget, Balanced
  <2>2. /\ a \in Nat /\ b \in Nat /\ o \in Nat /\ q \in Nat
        /\ Charges(reg') = a /\ ImageTotal(reg') = b
    BY <1>5, <1>6
  <2> HIDE DEF a, b, o, q
  <2> QED BY <1>1, <1>2, <1>3, <2>1, <2>2 DEF Balanced
<1> QED BY <1>3, <1>4, <1>7 DEF Budget

\* Init starts, with the recount at the bottom of its stack.
LEMMA RestartBudget ==
    ASSUME Inv, Inv', Budget, Restart PROVE Budget'
<1> DEFINE R == {r \in Res : reg[r] # None /\ reg[r].state = "retiring"}
           a == Each("retiring", R)
           b == Each("recover", Memory)
           c == Each("sweep", Image)
           d == Do("reconcile", None)
           z == [op |-> "reconcile", res |-> None]
           D == {f \in Frame : f.op \in Deferred}
<1>1. todo' = a \o b \o c \o d /\ UNCHANGED <<reg, used, bytes, minted>>
  BY DEF Restart, durable, callers
<1>2. z \in D /\ z.op = "reconcile" /\ d = <<z>>
  BY DEF Frame, Deferred, Do
<1>3. a \in Seq(D) /\ b \in Seq(D) /\ c \in Seq(D)
  <2>1. [op |-> "retiring", set |-> R] \in D
    BY DEF Frame, Deferred
  <2>2. [op |-> "recover", set |-> Memory] \in D
    BY DEF Frame, Deferred
  <2>3. [op |-> "sweep", set |-> Image] \in D
    BY RowSets DEF Frame, Deferred
  <2> HIDE DEF D, R
  <2> QED BY <2>1, <2>2, <2>3 DEF Each
<1>o. \A f \in D : f.op \in Deferred
  OBVIOUS
<1> HIDE DEF a, b, c, d, z, D
<1>4. todo' \in Seq(D) /\ \E i \in 1 .. Len(todo') : todo'[i] = z
  <2> DEFINE s == a \o b \o c
  <2>1. s \in Seq(D) /\ Len(s) \in Nat
    BY <1>3
  <2>2. todo' = s \o <<z>>
    BY <1>1, <1>2
  <2> HIDE DEF s
  <2>3. todo' \in Seq(D) /\ Len(todo') = Len(s) + 1 /\ todo'[Len(s) + 1] = z
    BY <1>2, <2>1, <2>2
  <2> QED BY <2>1, <2>3
<1>5. Clear'
  <2>1. todo' # <<>> => Head(todo') \in D
    BY <1>4
  <2> QED BY <1>o, <2>1 DEF Clear, Deferred, Owing
<1>6. Recounting'
  BY <1>2, <1>4 DEF Recounting
<1>7. Owed' = 0 /\ OwedBytes' = 0 /\ FramesFit' /\ RowsFit'
  BY <1>1, <1>5, NothingOwed, KeptRows DEF Budget
<1>8. Owed \in Nat /\ OwedBytes \in Nat /\ Charges(reg) \in Nat /\ ImageTotal(reg) \in Nat
  BY OwedNat, RegFits, ChargesNat DEF Inv, Budget
<1>9. Charges(reg') = Charges(reg) /\ ImageTotal(reg') = ImageTotal(reg)
  BY <1>1
<1>10. Balanced'
  <2> DEFINE x == Charges(reg)
             y == ImageTotal(reg)
             o == Owed
             q == OwedBytes
  <2>1. /\ used \in Int /\ bytes \in Int /\ used >= x + o /\ bytes >= y + q
    BY DEF Budget, Balanced
  <2>2. /\ x \in Nat /\ y \in Nat /\ o \in Nat /\ q \in Nat
        /\ Charges(reg') = x /\ ImageTotal(reg') = y
    BY <1>8, <1>9
  <2> HIDE DEF x, y, o, q
  <2> QED BY <1>1, <1>6, <1>7, <2>1, <2>2 DEF Balanced
<1> QED BY <1>7, <1>10 DEF Budget

-----------------------------------------------------------------------------
(* The theorems.                                                           *)

\* Nothing is charged at first.
LEMMA InitBudget == ASSUME Init PROVE Budget
<1>1. Clear /\ ~Recounting /\ Owed = 0 /\ OwedBytes = 0 /\ FramesFit
  BY DEF Init, Clear, Recounting, Owed, OwedBytes, FramesFit
<1>2. RowsFit
  BY FS_EmptySet DEF Init, RowsFit
<1>3. Charges(reg) = 0 /\ ImageTotal(reg) = 0
  <2>1. Rows(reg) = {}
    BY DEF Init, Rows
  <2> DEFINE f == [r \in Rows(reg) |-> charged(r, reg[r])]
             h == [i \in Rows(reg) \cap Image |-> ImageBytes[i]]
  <2>2. f = [r \in {} |-> f[r]] /\ h = [r \in {} |-> h[r]]
    BY <2>1
  <2> HIDE DEF f, h
  <2>3. Total(f) = 0 /\ Total(h) = 0
    BY <2>2, TotalEmpty
  <2> QED BY <2>3 DEF Charges, ImageTotal, f, h
<1>4. Balanced
  BY <1>1, <1>3 DEF Init, Balanced
<1> QED BY <1>1, <1>2, <1>4 DEF Budget

\* Every step keeps the counters and the rows together.
LEMMA NextBudget == ASSUME Inv, Inv', Budget, [Next]_vars PROVE Budget'
<1>1. CASE UNCHANGED vars
  <2>1. /\ UNCHANGED <<todo, reg, used, bytes, up, minted>>
        /\ \A p \in Pid : cl[p].ph \in {"begin", "queued"} => cl'[p] = cl[p]
    BY <1>1 DEF vars, durable, callers
  <2> QED BY <2>1, Aside
<1>2. CASE Continue
  BY <1>2, HoldBudget, DropBudget, TransactionBudget, AnswerBudget, RecoveryBudget
     DEF Continue
<1>3. CASE Crash \/ Restart
  BY <1>3, CrashBudget, RestartBudget
<1>4. ASSUME NEW p \in Pid,
             \/ Request(p) \/ Handle(p) \/ Down(p) \/ Advance(p) \/ Die(p)
             \/ \E m \in Memory : \/ \E d \in Deltas[p] : Grow(p, m, d)
                                  \/ \E n \in 1 .. MaxArena : NeedArena(p, m, n)
      PROVE  Budget'
  BY <1>4, RequestBudget, HandleBudget, DownBudget, CallerBudget
<1> QED BY <1>1, <1>2, <1>3, <1>4 DEF Next

\* The page counter and the byte counter are what the rows are charged and
\* what the handler in progress has charged or not yet given back, and ahead
\* of that from a crash until init/1 has recounted (reserve before insert,
\* insert before release, reconcile_pages/0).
THEOREM BudgetKept == Spec => []Budget
<1>1. Init => Inv /\ Budget
  BY InitInv, InitBudget
<1>2. Inv /\ Budget /\ [Next]_vars => Inv' /\ Budget'
  BY NextInv, NextBudget
<1>3. Spec => [](Inv /\ Budget)
  BY <1>1, <1>2, PTL DEF Spec
<1> QED BY <1>3, PTL

\* At no moment, in the middle of any handler or after any crash, is a row
\* charged for pages or bytes that the node's counters do not have: a charge
\* let go of first could let the node pass its limit.
THEOREM BudgetCovered == Spec => []BudgetCovers
<1>1. Inv /\ Budget => BudgetCovers
  <2> SUFFICES ASSUME Inv, Budget PROVE BudgetCovers
    OBVIOUS
  <2>1. /\ Owed \in Nat /\ OwedBytes \in Nat /\ Charges(reg) \in Nat /\ ImageTotal(reg) \in Nat
        /\ used \in Int /\ bytes \in Int
    BY OwedNat, RegFits, ChargesNat DEF Inv, Budget, Balanced
  <2>2. used >= Charges(reg) + Owed /\ bytes >= ImageTotal(reg) + OwedBytes
    BY DEF Budget, Balanced
  <2> QED BY <2>1, <2>2 DEF BudgetCovers
<1> QED BY <1>1, Invariance, BudgetKept, PTL

\* Between two requests both counters are exactly what the rows add up to,
\* whichever handlers, deaths and restarts came before.
THEOREM BudgetIsExact == Spec => []BudgetExact
<1>1. Inv /\ Budget => BudgetExact
  <2> SUFFICES ASSUME Inv, Budget, Idle
               PROVE  used = Charges(reg) /\ bytes = ImageTotal(reg)
    BY DEF BudgetExact
  <2>1. ~Recounting /\ Owed = 0 /\ OwedBytes = 0
    BY FromIdle
  <2>2. Charges(reg) \in Nat /\ ImageTotal(reg) \in Nat
    BY RegFits, ChargesNat DEF Inv, Budget
  <2> QED BY <2>1, <2>2 DEF Budget, Balanced
<1> QED BY <1>1, Invariance, BudgetKept, PTL

\* What covers sums of natural numbers is one.
LEMMA CountersStay == ASSUME Inv, Budget PROVE used \in Nat /\ bytes \in Nat
<1>1. /\ Owed \in Nat /\ OwedBytes \in Nat /\ Charges(reg) \in Nat /\ ImageTotal(reg) \in Nat
      /\ used \in Int /\ bytes \in Int
  BY OwedNat, RegFits, ChargesNat DEF Inv, Budget, Balanced
<1>2. used >= Charges(reg) + Owed /\ bytes >= ImageTotal(reg) + OwedBytes
  BY DEF Budget, Balanced
<1> QED BY <1>1, <1>2

\* The counters the reservations are made from never go below zero, so no
\* reservation is granted against pages that are not there (wasm_engine adds
\* to and subtracts from one atomics word).
THEOREM CountersNat == Spec => [](used \in Nat /\ bytes \in Nat)
<1>1. Inv /\ Budget => used \in Nat /\ bytes \in Nat
  BY CountersStay
<1> QED BY <1>1, Invariance, BudgetKept, PTL
=============================================================================
