---------------------------- MODULE FileNifProofs ---------------------------
(***************************************************************************)
(* Proofs about wasi_file_nif.c for any number of threads, handles,        *)
(* descriptors and files, any tree, and any requests.                      *)
(***************************************************************************)
EXTENDS FileNifInv, SumProofs
-----------------------------------------------------------------------------
(* Numbers that are free                                                   *)

FdsType == fds \in [Fd -> Fd \cup {None}]

LEMMA NewFdFree ==
  ASSUME FdsType, FreeFds # {}
  PROVE  NewFd \in Fd /\ fds[NewFd] = None
BY MinIn, KernelAssumption DEF NewFd, FreeFds

\* With a free number there is a free description: there are as many.
LEMMA NewDescFree ==
  ASSUME FdsType, FreeFds # {}
  PROVE  NewDesc \in Fd /\ \A f \in Fd : fds[f] # NewDesc
<1> DEFINE Used == Fd \ FreeFds
           U == {fds[f] : f \in Used}
           F == {d \in Desc : \A f \in Fd : fds[f] # d}
<1>1. IsFiniteSet(Fd) /\ Fd \subseteq Nat /\ None \notin Fd
  BY KernelAssumption
<1>2. PICK x \in FreeFds : x \in Fd
  BY DEF FreeFds
<1>3. Used \subseteq Fd /\ x \notin Used
  BY <1>2
<1>4. /\ IsFiniteSet(Used)
      /\ Cardinality(Used) <= Cardinality(Fd)
      /\ Cardinality(Fd) = Cardinality(Used) => Fd = Used
  BY <1>1, <1>3, FS_Subset
<1>5. Cardinality(Used) \in Nat /\ Cardinality(Fd) \in Nat
  BY <1>1, <1>4, FS_CardinalityType
<1>6. Cardinality(Used) < Cardinality(Fd)
  BY <1>2, <1>3, <1>4, <1>5
<1>7. F # {}
  <2> SUFFICES ASSUME F = {} PROVE FALSE
    OBVIOUS
  <2> DEFINE g == [f \in Used |-> fds[f]]
  <2>1. \A d \in Fd : \E f \in Used : fds[f] = d
    BY <1>1 DEF Desc, FreeFds, FdsType
  <2>2. \A f \in Used : fds[f] \in Fd
    BY DEF FdsType, FreeFds
  <2>3. g \in Surjection(Used, Fd)
    BY <2>1, <2>2 DEF Surjection
  <2>4. Cardinality(Fd) <= Cardinality(Used)
    BY <2>3, <1>4, FS_Surjection
  <2> QED BY <2>4, <1>5, <1>6
<1>8. F \subseteq Nat
  BY <1>1 DEF Desc
<1>9. Min(F) \in F
  BY <1>7, <1>8, MinIn
<1> QED BY <1>9 DEF NewDesc, Desc

-----------------------------------------------------------------------------
(* The tree stays a tree of entries                                        *)

TreeType == tree \in [Node -> Entry]
DescType == descs \in [Desc -> [node : Node, mode : SUBSET {"rd", "wr"}, pos : Nat]]

LEMMA LookupType ==
  ASSUME TreeType, NEW n \in Node, NEW c
  PROVE  Lookup(n, c) \in Node \cup {None}
BY KernelAssumption DEF Lookup, TreeType, Entry

LEMMA NodeType ==
  ASSUME FdsType, DescType, NEW f \in Fd, fds[f] # None
  PROVE  NodeOf(f) \in Node
BY DEF NodeOf, FdsType, DescType, Desc

LEMMA NewNodeType ==
  ASSUME FreeNodes # {}
  PROVE  NewNode \in Node
BY DEF NewNode, FreeNodes

\* Entries with one part replaced.
LEMMA EntryParts ==
  ASSUME NEW x \in Entry
  PROVE  /\ \A c : \A v \in Node \cup {None} :
              [x EXCEPT !.at = [x.at EXCEPT ![c] = v]] \in Entry
         /\ \A k \in Kinds, u \in Node, p \in Seq(Comp) :
              [x EXCEPT !.kind = k, !.up = u, !.text = p] \in Entry
         /\ \A u \in Node : [x EXCEPT !.up = u] \in Entry
         /\ \A z \in 0 .. MaxSize : [x EXCEPT !.size = z] \in Entry
         /\ x.size \in 0 .. MaxSize
<1>1. ASSUME NEW c, NEW v \in Node \cup {None}
      PROVE  [x EXCEPT !.at = [x.at EXCEPT ![c] = v]] \in Entry
  BY DEF Entry
<1>2. ASSUME NEW k \in Kinds, NEW u \in Node, NEW p \in Seq(Comp)
      PROVE  [x EXCEPT !.kind = k, !.up = u, !.text = p] \in Entry
  BY DEF Entry
<1>3. ASSUME NEW u \in Node PROVE [x EXCEPT !.up = u] \in Entry
  BY DEF Entry
<1>4. ASSUME NEW z \in 0 .. MaxSize PROVE [x EXCEPT !.size = z] \in Entry
  BY DEF Entry
<1>5. x.size \in 0 .. MaxSize
  BY DEF Entry
<1> QED BY <1>1, <1>2, <1>3, <1>4, <1>5

LEMMA MadeType ==
  ASSUME TreeType, NEW d \in Node, NEW c, NEW k \in Kinds, NEW text \in Seq(Comp),
         FreeNodes # {}
  PROVE  Made(d, c, k, text) \in [Node -> Entry]
<1> DEFINE m == NewNode
           t1 == [tree EXCEPT ![d] = [tree[d] EXCEPT !.at = [tree[d].at EXCEPT ![c] = m]]]
           t2 == [t1 EXCEPT ![m] = [t1[m] EXCEPT !.kind = k, !.up = d, !.text = text]]
<1>1. m \in Node
  BY NewNodeType
<1>2. t1 \in [Node -> Entry]
  BY <1>1, EntryParts DEF TreeType
<1>3. t2 \in [Node -> Entry]
  <2>1. t1[m] \in Entry
    BY <1>1, <1>2
  <2> HIDE DEF t1, m
  <2>2. [t1[m] EXCEPT !.kind = k, !.up = d, !.text = text] \in Entry
    BY <2>1, EntryParts
  <2> QED BY <1>1, <1>2, <2>2
<1>4. Made(d, c, k, text) = t2
  BY DEF Made
<1> QED BY <1>3, <1>4

LEMMA MakeOk ==
  ASSUME NEW f, NEW c, MakeErr(f, c) = "ok"
  PROVE  fds[f] # None /\ FreeNodes # {}
BY DEF MakeErr

LEMMA OpenOk ==
  ASSUME FdsType, DescType, TreeType, NEW f \in Fd, NEW c, NEW fl,
         OpenErr(f, c, fl) = "ok"
  PROVE  /\ FreeFds # {} /\ fds[f] # None
         /\ OpenNode(f, c) \in Node
         /\ OpenTree(f, c, fl) \in [Node -> Entry]
<1> DEFINE n == Lookup(NodeOf(f), c)
<1>1. FreeFds # {} /\ fds[f] # None
  <2>1. FreeFds = {} => OpenErr(f, c, fl) # "ok"
    BY DEF OpenErr
  <2>2. fds[f] = None => OpenErr(f, c, fl) # "ok"
    BY DEF OpenErr
  <2> QED BY <2>1, <2>2
<1>2. NodeOf(f) \in Node
  BY <1>1, NodeType
<1>3. n \in Node \cup {None}
  BY <1>2, LookupType
<1>4. CASE n = None
  <2>1. MakeErr(f, c) = "ok"
    <3>1. MakeErr(f, c) # "ok" => OpenErr(f, c, fl) # "ok"
      BY <1>4 DEF OpenErr
    <3> QED BY <3>1
  <2>2. FreeNodes # {}
    BY <2>1, MakeOk
  <2>3. Made(NodeOf(f), c, "reg", <<>>) \in [Node -> Entry]
    <3>1. "reg" \in Kinds /\ <<>> \in Seq(Comp)
      BY DEF Kinds
    <3> QED BY <1>2, <2>2, <3>1, MadeType
  <2>4. OpenTree(f, c, fl) = Made(NodeOf(f), c, "reg", <<>>) /\ OpenNode(f, c) = NewNode
    BY <1>4 DEF OpenTree, OpenNode
  <2> QED BY <1>1, <2>2, <2>3, <2>4, NewNodeType
<1>5. CASE n # None
  <2>1. OpenNode(f, c) \in Node
    BY <1>3, <1>5 DEF OpenNode
  <2>2. [tree EXCEPT ![OpenNode(f, c)].size = 0] \in [Node -> Entry]
    <3>0. 0 \in 0 .. MaxSize /\ tree[OpenNode(f, c)] \in Entry
      BY <2>1, OpsAssumption DEF TreeType
    <3>1. [tree[OpenNode(f, c)] EXCEPT !.size = 0] \in Entry
      BY <3>0, EntryParts
    <3> QED BY <2>1, <3>1 DEF TreeType
  <2>3. OpenTree(f, c, fl) \in {tree, [tree EXCEPT ![OpenNode(f, c)].size = 0]}
    BY <1>5 DEF OpenTree
  <2> QED BY <1>1, <2>1, <2>2, <2>3 DEF TreeType
<1> QED BY <1>4, <1>5

LEMMA TimesType ==
  ASSUME NEW x \in Entry, NEW times, \E D \in SUBSET Stamps : times \in [D -> Time]
  PROVE  decode_times(x, times) \in Entry
BY DEF decode_times, Entry

LEMMA NameTreeType ==
  ASSUME FdsType, DescType, TreeType, NEW op, NEW f \in Fd, NEW c, NEW arg,
         op = "symlink" => arg \in Seq(Comp),
         op = "settimes" => \E D \in SUBSET Stamps : arg \in [D -> Time],
         NameErr(op, f, c) = "ok"
  PROVE  NameTree(op, f, c, arg) \in [Node -> Entry]
<1> DEFINE n == Lookup(NodeOf(f), c)
<1>1. CASE op \in {"mkdir", "symlink"}
  <2>1. MakeErr(f, c) = "ok"
    BY <1>1 DEF NameErr
  <2>2. FreeNodes # {} /\ NodeOf(f) \in Node
    BY <2>1, MakeOk, NodeType
  <2>3. CASE op = "mkdir"
    <3>1. "dir" \in Kinds /\ <<>> \in Seq(Comp)
      BY DEF Kinds
    <3>2. Made(NodeOf(f), c, "dir", <<>>) \in [Node -> Entry]
      BY <2>2, <3>1, MadeType
    <3> QED BY <2>3, <3>2 DEF NameTree
  <2>4. CASE op = "symlink"
    BY <2>2, <2>4, MadeType DEF NameTree, Kinds
  <2> QED BY <1>1, <2>3, <2>4
<1>2. CASE op \notin {"mkdir", "symlink"}
  <2>1. fds[f] # None /\ n # None
    BY <1>2 DEF NameErr
  <2>2. NodeOf(f) \in Node
    BY <2>1, NodeType
  <2>3. n \in Node
    BY <2>1, <2>2, LookupType
  <2>4. CASE op \in {"unlink", "rmdir"}
    <3>1. [tree EXCEPT ![NodeOf(f)].at[c] = None] \in [Node -> Entry]
      <4>1. [tree[NodeOf(f)] EXCEPT !.at = [tree[NodeOf(f)].at EXCEPT ![c] = None]] \in Entry
        BY <2>2, EntryParts DEF TreeType
      <4> QED BY <2>2, <4>1 DEF TreeType
    <3> QED BY <3>1, <2>4, <1>2 DEF NameTree
  <2>5. CASE op = "settimes"
    <3>1. decode_times(tree[n], arg) \in Entry
      BY <2>3, <2>5, TimesType DEF TreeType
    <3>2. [tree EXCEPT ![n] = decode_times(tree[n], arg)] \in [Node -> Entry]
      BY <3>1, <2>3 DEF TreeType
    <3> QED BY <3>2, <2>5 DEF NameTree
  <2>6. CASE op \notin {"unlink", "rmdir", "settimes"}
    BY <2>6, <1>2 DEF NameTree, TreeType
  <2> QED BY <2>4, <2>5, <2>6
<1> QED BY <1>1, <1>2

LEMMA PairTreeType ==
  ASSUME FdsType, DescType, TreeType, NEW op, NEW f \in Fd, NEW c, NEW g \in Fd, NEW b,
         PairErr(op, f, c, g, b) = "ok"
  PROVE  PairTree(op, f, c, g, b) \in [Node -> Entry]
<1> DEFINE n == Lookup(NodeOf(f), c)
           x == NodeOf(f)
           y == NodeOf(g)
           put == [tree EXCEPT ![y] = [tree[y] EXCEPT !.at = [tree[y].at EXCEPT ![b] = n]]]
           cut == [put EXCEPT ![x] = [put[x] EXCEPT !.at = [put[x].at EXCEPT ![c] = None]]]
           res == [cut EXCEPT ![n] = [cut[n] EXCEPT !.up =
                     IF tree[n].kind = "dir" THEN y ELSE tree[n].up]]
<1>1. fds[f] # None /\ fds[g] # None /\ n # None
  <2>1. fds[f] = None \/ fds[g] = None => PairErr(op, f, c, g, b) # "ok"
    BY DEF PairErr
  <2>2. n = None => PairErr(op, f, c, g, b) # "ok"
    BY DEF PairErr
  <2> QED BY <2>1, <2>2
<1>2. x \in Node /\ y \in Node /\ n \in Node
  BY <1>1, NodeType, LookupType
<1>6. PairTree(op, f, c, g, b) \in {put, tree, res}
  BY DEF PairTree
<1> HIDE DEF n, x, y
<1>3. put \in [Node -> Entry]
  BY <1>2, EntryParts DEF TreeType
<1> HIDE DEF put
<1>4. cut \in [Node -> Entry]
  BY <1>2, <1>3, EntryParts
<1> HIDE DEF cut
<1>5. res \in [Node -> Entry]
  <2>1. tree[n].up \in Node
    BY <1>2 DEF Entry, TreeType
  <2> QED BY <1>2, <1>4, <2>1, EntryParts
<1> QED BY <1>3, <1>5, <1>6 DEF TreeType

LEMMA OutcomeType ==
  ASSUME NEW r \in Request, r.op \in AccessOps, NEW n, NEW m, NEW x \in Entry
  PROVE  Outcome(r, n, m, x).entry \in Entry
<1>0. /\ r.len \in Nat /\ r.off \in Int /\ Chunk \in Nat /\ MaxSize \in Nat
      /\ r.op = "futimes" => \E D \in SUBSET Stamps : r.arg \in [D -> Time]
  BY RequestAssumption, OpsAssumption
<1>1. pread(r, n, m, x).entry = x /\ fstat(r, n, m, x).entry = x
      /\ fsync(r, n, m, x).entry = x
  BY DEF pread, fstat, fsync
<1>2. pwrite(r, n, m, x).entry \in Entry
  <2> DEFINE len == Lesser(r.len, Chunk)
             z == Greater(x.size, r.off + len)
  <2>1. len \in Nat /\ x.size \in 0 .. MaxSize
    BY <1>0, EntryParts DEF Lesser
  <2>2. r.off >= 0 /\ r.off + len <= MaxSize => z \in 0 .. MaxSize
    BY <1>0, <2>1 DEF Greater
  <2>3. \/ pwrite(r, n, m, x).entry = x
        \/ /\ r.off >= 0 /\ r.off + len <= MaxSize
           /\ pwrite(r, n, m, x).entry = [x EXCEPT !.size = z]
    BY <1>0, <2>1 DEF pwrite
  <2> QED BY <2>2, <2>3, EntryParts
<1>3. ftruncate(r, n, m, x).entry \in Entry
  <2>1. \/ ftruncate(r, n, m, x).entry = x
        \/ /\ r.len <= MaxSize
           /\ ftruncate(r, n, m, x).entry = [x EXCEPT !.size = r.len]
    BY <1>0 DEF ftruncate
  <2>2. r.len <= MaxSize => r.len \in 0 .. MaxSize
    BY <1>0
  <2> QED BY <2>1, <2>2, EntryParts
<1>4. r.op = "futimes" => futimes(r, n, m, x).entry \in Entry
  BY <1>0, TimesType DEF futimes
<1> QED BY <1>1, <1>2, <1>3, <1>4 DEF Outcome, AccessOps

LEMMA LinkTextType ==
  ASSUME FdsType, DescType, TreeType, NEW f \in Fd, NEW c
  PROVE  LinkText(f, c) \in Seq(Comp)
<1>1. CASE ~IsDir(f)
  BY <1>1 DEF LinkText
<1>2. CASE IsDir(f)
  <2>1. Lookup(NodeOf(f), c) \in Node \cup {None}
    BY <1>2, NodeType, LookupType DEF IsDir
  <2> QED BY <1>2, <2>1 DEF LinkText, TreeType, Entry
<1> QED BY <1>1, <1>2

LEMMA DentsType ==
  ASSUME NEW f, Dents(f) # {}
  PROVE  Max(Dents(f)) \in Nat
<1>1. DOMAIN Order = 1 .. Len(Order) /\ Len(Order) \in Nat
  BY KernelAssumption
<1>2. Dents(f) \subseteq DOMAIN Order
  BY DEF Dents, After, Present
<1>3. Max(Dents(f)) \in Dents(f)
  BY <1>1, <1>2, MaxIn
<1> QED BY <1>1, <1>2, <1>3

-----------------------------------------------------------------------------
(* The places of a call                                                    *)

LEMMA BasesGrow ==
  ASSUME NEW b \in Seq(Fd), NEW x \in Fd
  PROVE  /\ Bases(<<>>) = {} /\ BasesApart(<<>>)
         /\ Append(b, x) \in Seq(Fd) /\ Len(Append(b, x)) = Len(b) + 1
         /\ Bases(Append(b, x)) = Bases(b) \cup {x}
         /\ BasesApart(b) /\ x \notin Bases(b) => BasesApart(Append(b, x))
<1> DEFINE n == Len(b)
           a == Append(b, x)
<1>1. a \in Seq(Fd) /\ Len(a) = n + 1 /\ a[n + 1] = x /\ n \in Nat
      /\ \A i \in 1 .. n : a[i] = b[i]
  OBVIOUS
<1> HIDE DEF a
<1>2. Bases(a) = Bases(b) \cup {x}
  <2>1. \A i \in 1 .. n : i \in 1 .. n + 1
    BY <1>1
  <2>2. n + 1 \in 1 .. n + 1
    BY <1>1
  <2>3. \A i \in 1 .. n + 1 : i \in 1 .. n \/ i = n + 1
    BY <1>1
  <2>4. ASSUME NEW y \in Bases(a) PROVE y \in Bases(b) \cup {x}
    BY <1>1, <2>3 DEF Bases
  <2>5. ASSUME NEW y \in Bases(b) \cup {x} PROVE y \in Bases(a)
    BY <1>1, <2>1, <2>2 DEF Bases
  <2> QED BY <2>4, <2>5
<1>3. BasesApart(b) /\ x \notin Bases(b) => BasesApart(a)
  <2> SUFFICES ASSUME BasesApart(b), x \notin Bases(b),
                      NEW i \in 1 .. n + 1, NEW j \in 1 .. n + 1, a[i] = a[j]
               PROVE  i = j
    BY <1>1 DEF BasesApart
  <2>1. \A k \in 1 .. n : a[k] # x
    BY <1>1 DEF Bases
  <2>2. CASE i \in 1 .. n /\ j \in 1 .. n
    BY <1>1, <2>2 DEF BasesApart
  <2>3. CASE i \notin 1 .. n \/ j \notin 1 .. n
    <3>1. i = n + 1 \/ j = n + 1
      BY <1>1, <2>3
    <3>2. i \in 1 .. n \/ i = n + 1
      BY <1>1
    <3>3. j \in 1 .. n \/ j = n + 1
      BY <1>1
    <3> QED BY <1>1, <2>1, <3>1, <3>2, <3>3
  <2> QED BY <2>2, <2>3
<1>4. Bases(<<>>) = {} /\ BasesApart(<<>>)
  BY DEF Bases, BasesApart
<1> QED BY <1>1, <1>2, <1>3, <1>4 DEF a

LEMMA GottenGrow ==
  ASSUME NEW g \in Seq(Parents), NEW x \in Parents
  PROVE  /\ Gotten(<<>>) = {} /\ GotApart(<<>>)
         /\ Append(g, x) \in Seq(Parents) /\ Len(Append(g, x)) = Len(g) + 1
         /\ Gotten(Append(g, x)) = Gotten(g) \cup (IF x.own THEN {x.fd} ELSE {})
         /\ GotApart(g) /\ (x.own => x.fd \notin Gotten(g)) => GotApart(Append(g, x))
<1> DEFINE n == Len(g)
           a == Append(g, x)
<1>1. a \in Seq(Parents) /\ Len(a) = n + 1 /\ a[n + 1] = x /\ n \in Nat
      /\ \A i \in 1 .. n : a[i] = g[i]
  OBVIOUS
<1> HIDE DEF a
<1>0. \A i \in 1 .. n + 1 : i \in 1 .. n \/ i = n + 1
  BY <1>1
<1>2. Gotten(a) = Gotten(g) \cup (IF x.own THEN {x.fd} ELSE {})
  <2>1. \A i \in 1 .. n : i \in 1 .. n + 1
    BY <1>1
  <2>2. n + 1 \in 1 .. n + 1
    BY <1>1
  <2>4. ASSUME NEW y \in Gotten(a) PROVE y \in Gotten(g) \/ (x.own /\ y = x.fd)
    BY <1>1, <1>0 DEF Gotten
  <2>5. ASSUME NEW y \in Gotten(g) PROVE y \in Gotten(a)
    BY <1>1, <2>1 DEF Gotten
  <2>6. x.own => x.fd \in Gotten(a)
    BY <1>1, <2>2 DEF Gotten
  <2> QED BY <2>4, <2>5, <2>6
<1>3. GotApart(g) /\ (x.own => x.fd \notin Gotten(g)) => GotApart(a)
  <2> SUFFICES ASSUME GotApart(g), x.own => x.fd \notin Gotten(g),
                      NEW i \in 1 .. n + 1, NEW j \in 1 .. n + 1,
                      a[i].own, a[j].own, a[i].fd = a[j].fd
               PROVE  i = j
    BY <1>1 DEF GotApart
  <2>1. \A k \in 1 .. n : a[k].own /\ x.own => a[k].fd # x.fd
    BY <1>1 DEF Gotten
  <2>2. CASE i \in 1 .. n /\ j \in 1 .. n
    BY <1>1, <2>2 DEF GotApart
  <2>3. CASE i \notin 1 .. n \/ j \notin 1 .. n
    BY <1>0, <1>1, <2>1, <2>3
  <2> QED BY <2>2, <2>3
<1>4. Gotten(<<>>) = {} /\ GotApart(<<>>)
  BY DEF Gotten, GotApart
<1> QED BY <1>1, <1>2, <1>3, <1>4 DEF a

LEMMA WalkStart ==
  ASSUME NEW x \in Frame
  PROVE  /\ Walked(<<>>) = {} /\ WalkApart(<<>>)
         /\ <<x>> \in Seq(Frame) /\ Len(<<x>>) = 1 /\ <<x>>[1] = x /\ <<x>> # <<>>
         /\ ~x.own => Walked(<<x>>) = {}
         /\ WalkApart(<<x>>)
BY DEF Walked, WalkApart

\* The last frame moves to another directory.
LEMMA WalkMoves ==
  ASSUME NEW w \in Seq(Frame), w # <<>>, NEW x \in Frame, x.own,
         WalkApart(w), x.cur \notin Walked(w)
  PROVE  LET n == Len(w)
             a == [w EXCEPT ![n] = x] IN
         /\ a \in Seq(Frame) /\ Len(a) = n /\ a[n] = x
         /\ \A i \in 1 .. n - 1 : a[i] = w[i]
         /\ WalkApart(a)
         /\ Walked(a) = (Walked(w) \ (IF w[n].own THEN {w[n].cur} ELSE {})) \cup {x.cur}
<1> DEFINE n == Len(w)
           a == [w EXCEPT ![n] = x]
<1>1. /\ n \in Nat /\ n >= 1 /\ a \in Seq(Frame) /\ Len(a) = n /\ a[n] = x
      /\ \A i \in 1 .. n - 1 : a[i] = w[i]
  OBVIOUS
<1> HIDE DEF a
<1>2. \A i \in 1 .. n : i = n \/ i \in 1 .. n - 1
  BY <1>1
<1>3. \A i \in 1 .. n - 1 : i \in 1 .. n /\ i # n
  BY <1>1
<1>4. n \in 1 .. n
  BY <1>1
<1>5. ASSUME NEW y \in Walked(a)
      PROVE  y = x.cur \/ (y \in Walked(w) /\ (w[n].own => y # w[n].cur))
  <2>1. PICK i \in 1 .. n : a[i].own /\ y = a[i].cur
    BY <1>1, <1>5 DEF Walked
  <2>2. CASE i = n
    BY <1>1, <2>1, <2>2
  <2>3. CASE i \in 1 .. n - 1
    <3>1. w[i].own /\ y = w[i].cur /\ i \in 1 .. n /\ i # n
      BY <1>1, <1>3, <2>1, <2>3
    <3>2. y \in Walked(w)
      BY <3>1 DEF Walked
    <3>3. w[n].own => y # w[n].cur
      BY <1>4, <3>1 DEF WalkApart
    <3> QED BY <3>2, <3>3
  <2> QED BY <1>2, <2>2, <2>3
<1>6. x.cur \in Walked(a)
  BY <1>1, <1>4 DEF Walked
<1>7. ASSUME NEW y \in Walked(w), w[n].own => y # w[n].cur PROVE y \in Walked(a)
  <2>1. PICK i \in 1 .. n : w[i].own /\ y = w[i].cur
    BY <1>7 DEF Walked
  <2>2. i \in 1 .. n - 1
    BY <1>2, <1>7, <2>1
  <2> QED BY <1>1, <2>1, <2>2 DEF Walked
<1>8. WalkApart(a)
  <2> SUFFICES ASSUME NEW i \in 1 .. n, NEW j \in 1 .. n, a[i].own, a[j].own,
                      a[i].cur = a[j].cur
               PROVE  i = j
    BY <1>1 DEF WalkApart
  <2>1. \A k \in 1 .. n - 1 : w[k].own => w[k].cur # x.cur
    BY <1>3 DEF Walked
  <2>2. CASE i \in 1 .. n - 1 /\ j \in 1 .. n - 1
    BY <1>1, <1>3, <2>2 DEF WalkApart
  <2>3. CASE i = n \/ j = n
    BY <1>1, <1>2, <2>1, <2>3
  <2> QED BY <1>2, <2>2, <2>3
<1> QED BY <1>1, <1>5, <1>6, <1>7, <1>8 DEF a

\* A link's text is walked by a frame of its own.
LEMMA WalkLinks ==
  ASSUME NEW w \in Seq(Frame), NEW x \in Frame, ~x.own, WalkApart(w)
  PROVE  LET n == Len(w)
             a == Append(w, x) IN
         /\ a \in Seq(Frame) /\ Len(a) = n + 1 /\ a[n + 1] = x /\ n \in Nat
         /\ \A i \in 1 .. n : a[i] = w[i]
         /\ WalkApart(a) /\ Walked(a) = Walked(w)
<1> DEFINE n == Len(w)
           a == Append(w, x)
<1>1. a \in Seq(Frame) /\ Len(a) = n + 1 /\ a[n + 1] = x /\ n \in Nat
      /\ \A i \in 1 .. n : a[i] = w[i]
  OBVIOUS
<1> HIDE DEF a
<1>2. \A i \in 1 .. n + 1 : a[i].own => i \in 1 .. n
  BY <1>1
<1>3. \A i \in 1 .. n : i \in 1 .. n + 1
  BY <1>1
<1>4. Walked(a) = Walked(w)
  <2>1. ASSUME NEW y \in Walked(a) PROVE y \in Walked(w)
    BY <1>1, <1>2 DEF Walked
  <2>2. ASSUME NEW y \in Walked(w) PROVE y \in Walked(a)
    BY <1>1, <1>3 DEF Walked
  <2> QED BY <2>1, <2>2
<1>5. WalkApart(a)
  BY <1>1, <1>2 DEF WalkApart
<1> QED BY <1>1, <1>4, <1>5 DEF a

\* The caller of a walk goes on from where the walk ended.
Back(w, k, x) == Append(SubSeq(w, 1, k - 1), x)

LEMMA WalkReturns ==
  ASSUME NEW w \in Seq(Frame), NEW x \in Frame, x.own, WalkApart(w),
         NEW k \in Nat, k > 0, Len(w) = k + 1, w[k + 1].own, x.cur = w[k + 1].cur
  PROVE  /\ Back(w, k, x) \in Seq(Frame) /\ Len(Back(w, k, x)) = k
         /\ Back(w, k, x)[k] = x
         /\ \A i \in 1 .. k - 1 : Back(w, k, x)[i] = w[i]
         /\ WalkApart(Back(w, k, x))
         /\ Walked(Back(w, k, x)) = Walked(w) \ (IF w[k].own THEN {w[k].cur} ELSE {})
<1> DEFINE s == SubSeq(w, 1, k - 1)
           a == Append(s, x)
<1>0. s \in Seq(Frame) /\ Len(s) = k - 1 /\ \A i \in 1 .. k - 1 : s[i] = w[i]
  OBVIOUS
<1> HIDE DEF s
<1>1. a \in Seq(Frame) /\ Len(a) = k /\ a[k] = x /\ \A i \in 1 .. k - 1 : a[i] = w[i]
  BY <1>0
<1> HIDE DEF a
<1>2. \A i \in 1 .. k : i = k \/ i \in 1 .. k - 1
  OBVIOUS
<1>3. \A i \in 1 .. k - 1 : i \in 1 .. k /\ i \in 1 .. k + 1 /\ i # k /\ i # k + 1
  OBVIOUS
<1>4. k \in 1 .. k /\ k \in 1 .. k + 1 /\ k + 1 \in 1 .. k + 1 /\ k # k + 1
  OBVIOUS
<1>5. \A i \in 1 .. k + 1 : i = k + 1 \/ i = k \/ i \in 1 .. k - 1
  OBVIOUS
<1>6. ASSUME NEW y \in Walked(a)
      PROVE  y \in Walked(w) /\ (w[k].own => y # w[k].cur)
  <2>1. PICK i \in 1 .. k : a[i].own /\ y = a[i].cur
    BY <1>1, <1>6 DEF Walked
  <2>2. PICK j \in 1 .. k + 1 : w[j].own /\ y = w[j].cur /\ j # k
    BY <1>1, <1>2, <1>3, <1>4, <2>1
  <2>3. y \in Walked(w)
    BY <2>2 DEF Walked
  <2>4. w[k].own => y # w[k].cur
    BY <1>4, <2>2 DEF WalkApart
  <2> QED BY <2>3, <2>4
<1>7. ASSUME NEW y \in Walked(w), w[k].own => y # w[k].cur PROVE y \in Walked(a)
  <2>1. PICK i \in 1 .. k + 1 : w[i].own /\ y = w[i].cur
    BY <1>7 DEF Walked
  <2>2. PICK j \in 1 .. k : a[j].own /\ y = a[j].cur
    BY <1>1, <1>3, <1>4, <1>5, <1>7, <2>1
  <2> QED BY <1>1, <2>2 DEF Walked
<1>8. WalkApart(a)
  <2> SUFFICES ASSUME NEW i \in 1 .. k, NEW j \in 1 .. k, a[i].own, a[j].own,
                      a[i].cur = a[j].cur
               PROVE  i = j
    BY <1>1 DEF WalkApart
  <2>1. \A m \in 1 .. k - 1 : w[m].own => w[m].cur # x.cur
    BY <1>3, <1>4 DEF WalkApart
  <2>2. CASE i \in 1 .. k - 1 /\ j \in 1 .. k - 1
    BY <1>1, <1>3, <2>2 DEF WalkApart
  <2>3. CASE i = k \/ j = k
    BY <1>1, <1>2, <2>1, <2>3
  <2> QED BY <1>2, <2>2, <2>3
<1>9. Walked(a) = Walked(w) \ (IF w[k].own THEN {w[k].cur} ELSE {})
  BY <1>6, <1>7
<1>10. Back(w, k, x) = a
  BY DEF Back, a, s
<1> QED BY <1>1, <1>8, <1>9, <1>10

LEMMA OwnedIs ==
  ASSUME CallsOK, NEW t \in Thread
  PROVE  Owned(t) = Mine(call[t])
<1>1. call[t] \in CallRec
  BY DEF CallsOK
<1>2. /\ call[t].base \in Seq(Fd) /\ call[t].walk \in Seq(Frame)
      /\ call[t].got \in Seq(Parents)
  BY <1>1 DEF CallRec
<1>3. /\ DOMAIN call[t].base = 1 .. Len(call[t].base)
      /\ DOMAIN call[t].walk = 1 .. Len(call[t].walk)
      /\ DOMAIN call[t].got = 1 .. Len(call[t].got)
  BY <1>2
<1> QED BY <1>3 DEF Owned, Mine, Bases, Walked, Gotten

LEMMA IdleOK == Idle \in CallRec /\ Mine(Idle) = {} /\ \A q : CallOK(Idle, q)
<1>1. /\ Idle.pc = "idle" /\ Idle.base = <<>> /\ Idle.walk = <<>> /\ Idle.got = <<>>
      /\ Idle.fd = None
  BY DEF Idle
<1>2. Idle \in CallRec
  BY HandleAssumption DEF CallRec, Idle, Pcs
<1>3. /\ Bases(<<>>) = {} /\ Walked(<<>>) = {} /\ Gotten(<<>>) = {}
      /\ BasesApart(<<>>) /\ WalkApart(<<>>) /\ GotApart(<<>>)
  BY DEF Bases, Walked, Gotten, BasesApart, WalkApart, GotApart
<1>4. Mine(Idle) = {} /\ Apart(Idle)
  BY <1>1, <1>3 DEF Mine, Apart
<1>5. Len(Idle.base) <= 2
  BY <1>1
<1> QED BY <1>1, <1>2, <1>4, <1>5 DEF StageOK, CallOK

-----------------------------------------------------------------------------
(* What a step of a thread does to the numbers                             *)

\* Of the numbers it has it closes S, and it opens N.
Trades(t, S, N) ==
    /\ S \subseteq Mine(call[t]) /\ N \subseteq {f \in Fd : fds[f] = None}
    /\ fds' \in [Fd -> Fd \cup {None}]
    /\ \A f \in Fd : /\ f \in S => fds'[f] = None
                     /\ f \in N => fds'[f] # None
                     /\ f \notin S \cup N => fds'[f] = fds[f]
    /\ Mine(call'[t]) = (Mine(call[t]) \ S) \cup N

OthersStay(t) == \A u \in Thread : u # t => call'[u] = call[u]

\* The file behind an open description stays what it is.
DescsStay ==
    \A f \in Fd : fds[f] # None =>
        /\ descs'[fds[f]].node = descs[fds[f]].node
        /\ descs'[fds[f]].mode = descs[fds[f]].mode

Went(t) ==
    /\ CallsOK' /\ KernelTypeOK' /\ DescsStay /\ OthersStay(t)
    /\ \E S, N \in SUBSET Fd : Trades(t, S, N)

\* The parts of the types.
LEMMA TypesHave ==
  ASSUME Types
  PROVE  FdsType /\ DescType /\ TreeType /\ CallsOK /\ moved \in BOOLEAN
BY DEF Types, KernelTypeOK, FdsType, DescType, TreeType, Desc

LEMMA KernelHas ==
  ASSUME FdsType', DescType', TreeType', (moved \in BOOLEAN)'
  PROVE  KernelTypeOK'
BY DEF KernelTypeOK, FdsType, DescType, TreeType, Desc

LEMMA MineOpen ==
  ASSUME Inv, NEW t \in Thread
  PROVE  /\ Mine(call[t]) \subseteq Fd /\ Owned(t) = Mine(call[t])
         /\ \A f \in Mine(call[t]) : fds[f] # None
BY OwnedIs, TypesHave DEF Inv, Sole, IsOpen

\* What the stage of a call says about its request.
LEMMA ReqType ==
  ASSUME CallsOK, NEW t \in Thread, ~At(t, "idle")
  PROVE  /\ todo[t] # <<>> /\ Req(t) \in Request /\ Phase(call[t], Req(t))
         /\ call[t] \in CallRec /\ Apart(call[t]) /\ Len(call[t].base) <= 2
         /\ ~BadArgs(Req(t))
BY DEF CallsOK, CallOK, StageOK, At, Req

\* A call goes on with other local variables.
LEMMA Goes ==
  ASSUME CallsOK, NEW t \in Thread, NEW c, call' = [call EXCEPT ![t] = c],
         CallOK(c, todo[t]), UNCHANGED <<todo, last>>
  PROVE  CallsOK' /\ call'[t] = c /\ OthersStay(t)
<1>0. c \in CallRec
  BY DEF CallOK
<1>1. call' \in [Thread -> CallRec]
  BY <1>0 DEF CallsOK
<1>2. call'[t] = c /\ OthersStay(t)
  BY DEF CallsOK, OthersStay
<1>3. ASSUME NEW u \in Thread
      PROVE  /\ CallOK(call'[u], todo'[u])
             /\ last'[u] # None => last'[u].left = Len(todo'[u])
  BY <1>2 DEF CallsOK, OthersStay
<1> QED BY <1>1, <1>2, <1>3 DEF CallsOK

\* A call ends.
LEMMA Ends ==
  ASSUME CallsOK, NEW t \in Thread, NEW ans, todo[t] # <<>>, Return(t, ans)
  PROVE  /\ CallsOK' /\ call'[t] = Idle /\ OthersStay(t)
         /\ last' = [last EXCEPT ![t] = [req |-> Req(t), ans |-> ans,
                                         left |-> Len(todo[t]) - 1]]
         /\ last'[t] = [req |-> Req(t), ans |-> ans, left |-> Len(todo[t]) - 1]
         /\ \A u \in Thread : u # t => last'[u] = last[u]
<1>1. call' = [call EXCEPT ![t] = Idle]
  BY DEF Return
<1>2. todo' = [todo EXCEPT ![t] = Tail(todo[t])]
  BY DEF Return
<1>3. Tail(todo[t]) \in Seq(Request) /\ Len(Tail(todo[t])) = Len(todo[t]) - 1
  BY DEF CallsOK
<1>4. todo' \in [Thread -> Seq(Request)]
  BY <1>2, <1>3 DEF CallsOK
<1>5. last' = [u \in Thread |-> IF u = t
                 THEN [req |-> Req(t), ans |-> ans, left |-> Len(todo[t]) - 1]
                 ELSE last[u]]
  BY DEF Return, CallsOK
<1>6. call' \in [Thread -> CallRec] /\ call'[t] = Idle /\ OthersStay(t)
  BY <1>1, IdleOK DEF CallsOK, OthersStay
<1>7. ASSUME NEW u \in Thread
      PROVE  /\ CallOK(call'[u], todo'[u])
             /\ last'[u] # None => last'[u].left = Len(todo'[u])
  <2>1. CASE u = t
    <3>1. call'[u] = Idle /\ todo'[u] = Tail(todo[t])
      BY <1>2, <1>6, <2>1 DEF CallsOK
    <3>2. last'[u].left = Len(Tail(todo[t]))
      BY <1>3, <1>5, <2>1
    <3> QED BY <3>1, <3>2, IdleOK
  <2>2. CASE u # t
    BY <1>2, <1>5, <1>6, <2>2 DEF CallsOK, OthersStay
  <2> QED BY <2>1, <2>2
<1>8. last' = [last EXCEPT ![t] = [req |-> Req(t), ans |-> ans, left |-> Len(todo[t]) - 1]]
  BY DEF Return
<1> QED BY <1>4, <1>5, <1>6, <1>7, <1>8 DEF CallsOK

\* It closes what it has.
LEMMA EndsTrade ==
  ASSUME Inv, NEW t \in Thread, call'[t] = Idle, fds' = Shut(fds, Owned(t))
  PROVE  /\ FdsType'
         /\ Trades(t, Mine(call[t]), {}) /\ \E S, N \in SUBSET Fd : Trades(t, S, N)
<1>1. FdsType /\ Mine(call[t]) \subseteq Fd /\ Owned(t) = Mine(call[t])
  BY MineOpen, TypesHave DEF Inv
<1>2. /\ fds' \in [Fd -> Fd \cup {None}]
      /\ \A f \in Fd : fds'[f] = IF f \in Owned(t) THEN None ELSE fds[f]
  BY <1>1 DEF Shut, FdsType
<1>3. Trades(t, Mine(call[t]), {})
  BY <1>1, <1>2, IdleOK DEF Trades
<1> QED BY <1>1, <1>2, <1>3 DEF FdsType

\* It has nothing, or keeps what it has.
LEMMA NoTrade ==
  ASSUME Inv, NEW t \in Thread, Mine(call'[t]) = Mine(call[t]), fds' = fds
  PROVE  FdsType' /\ \E S, N \in SUBSET Fd : Trades(t, S, N)
<1>1. FdsType
  BY TypesHave DEF Inv
<1>2. Trades(t, {}, {})
  BY <1>1 DEF Trades, FdsType
<1>3. {} \in SUBSET Fd
  OBVIOUS
<1> QED BY <1>1, <1>2, <1>3 DEF FdsType

LEMMA DescsSame ==
  ASSUME UNCHANGED descs PROVE DescsStay
BY DEF DescsStay

LEMMA FailWent ==
  ASSUME Inv, NEW t \in Thread, NEW e, ~At(t, "idle"), Fail(t, e)
  PROVE  Went(t)
<1>1. Types /\ CallsOK /\ FdsType /\ DescType /\ TreeType /\ moved \in BOOLEAN
  BY TypesHave DEF Inv
<1>2. todo[t] # <<>> /\ Return(t, Err(e)) /\ fds' = Shut(fds, Owned(t))
      /\ UNCHANGED <<descs, tree, moved>>
  BY <1>1, ReqType DEF Fail
<1>3. CallsOK' /\ call'[t] = Idle /\ OthersStay(t)
  BY <1>1, <1>2, Ends
<1>4. FdsType' /\ \E S, N \in SUBSET Fd : Trades(t, S, N)
  BY <1>2, <1>3, EndsTrade
<1>5. KernelTypeOK'
  BY <1>1, <1>2, <1>4, KernelHas DEF DescType, TreeType
<1> QED BY <1>2, <1>3, <1>4, <1>5, DescsSame DEF Went

\* What a call has open is as it was, and so are the other threads.
LEMMA StillWent ==
  ASSUME Inv, NEW t \in Thread, CallsOK', OthersStay(t),
         Mine(call'[t]) = Mine(call[t]), UNCHANGED kvars
  PROVE  Went(t)
<1>1. FdsType /\ DescType /\ TreeType /\ moved \in BOOLEAN
  BY TypesHave DEF Inv
<1>2. fds' = fds /\ UNCHANGED <<descs, tree, moved>>
  BY DEF kvars
<1>3. FdsType' /\ \E S, N \in SUBSET Fd : Trades(t, S, N)
  BY <1>2, NoTrade
<1>4. KernelTypeOK'
  BY <1>1, <1>2, <1>3, KernelHas DEF DescType, TreeType
<1> QED BY <1>2, <1>3, <1>4, DescsSame DEF Went

\* Every owner of before or the number that was opened.
LEMMA TradeSole ==
  ASSUME Inv, NEW t \in Thread, Went(t),
         \A h \in Handle : handle'[h].fd = handle[h].fd /\ handle'[h].dirp = handle[h].dirp
  PROVE  Sole'
<1>1. PICK S \in SUBSET Fd, N \in SUBSET Fd : Trades(t, S, N)
  BY DEF Went
<1>2. \A h \in Handle : Holds(h)' = Holds(h)
  BY DEF Holds
<1>3. \A u \in Thread : u # t => Mine(call[u])' = Mine(call[u])
  BY DEF Went, OthersStay, Mine
<1>4. Mine(call[t])' = (Mine(call[t]) \ S) \cup N
  BY <1>1 DEF Trades, Mine
<1>5. \A f \in Fd : /\ f \in S => fds'[f] = None
                    /\ f \in N => fds'[f] # None /\ fds[f] = None
                    /\ f \notin S \cup N => fds'[f] = fds[f]
  BY <1>1 DEF Trades
<1>6. S \subseteq Mine(call[t])
  BY <1>1 DEF Trades
<1>7. Sole
  BY DEF Inv
<1>8. \A u \in Thread : \A f \in Mine(call[u])' : IsOpen(f)'
  <2>1. ASSUME NEW f \in Mine(call[t])' PROVE IsOpen(f)'
    BY <1>1, <1>4, <1>5, <1>7 DEF Sole, IsOpen
  <2>2. ASSUME NEW u \in Thread, u # t, NEW f \in Mine(call[u])' PROVE IsOpen(f)'
    <3>1. f \in Mine(call[u]) /\ f \notin Mine(call[t]) /\ IsOpen(f)
      BY <1>3, <1>7, <2>2 DEF Sole
    <3> QED BY <1>5, <1>6, <3>1 DEF IsOpen
  <2> QED BY <2>1, <2>2
<1>9. \A h \in Handle : \A f \in Holds(h)' : IsOpen(f)'
  <2> SUFFICES ASSUME NEW h \in Handle, NEW f \in Holds(h) PROVE IsOpen(f)'
    BY <1>2
  <2>1. f \notin Mine(call[t]) /\ IsOpen(f)
    BY <1>7 DEF Sole
  <2> QED BY <1>5, <1>6, <2>1 DEF IsOpen
<1>10. \A u, v \in Thread : u # v => Mine(call[u])' \cap Mine(call[v])' = {}
  <2>1. ASSUME NEW u \in Thread, u # t PROVE Mine(call[u])' \cap Mine(call[t])' = {}
    <3> SUFFICES ASSUME NEW f \in Mine(call[u]), f \in N PROVE FALSE
      BY <1>3, <1>4, <1>7, <2>1 DEF Sole
    <3> QED BY <1>5, <1>7 DEF Sole, IsOpen
  <2>2. ASSUME NEW u \in Thread, NEW v \in Thread, u # v, u # t, v # t
        PROVE  Mine(call[u])' \cap Mine(call[v])' = {}
    BY <1>3, <1>7, <2>2 DEF Sole
  <2>3. ASSUME NEW u \in Thread, NEW v \in Thread, u # v
        PROVE  Mine(call[u])' \cap Mine(call[v])' = {}
    <3>1. CASE u = t
      BY <2>1, <2>3, <3>1
    <3>2. CASE v = t
      BY <2>1, <2>3, <3>2
    <3> QED BY <2>2, <2>3, <3>1, <3>2
  <2> QED BY <2>3
<1>11. \A u \in Thread, h \in Handle : Mine(call[u])' \cap Holds(h)' = {}
  <2> SUFFICES ASSUME NEW u \in Thread, NEW h \in Handle,
                      NEW f \in Mine(call[u])', f \in Holds(h)
               PROVE  FALSE
    BY <1>2
  <2>1. IsOpen(f) /\ f \notin Mine(call[u])
    BY <1>7 DEF Sole
  <2>2. u = t /\ f \in N
    BY <1>3, <1>4, <2>1
  <2> QED BY <1>5, <2>1, <2>2 DEF IsOpen
<1>12. ASSUME NEW f \in Fd, fds'[f] # None
       PROVE  \/ \E u \in Thread : f \in Mine(call[u])'
              \/ \E h \in Handle : f \in Holds(h)'
  <2>1. CASE f \in N
    BY <1>4, <2>1
  <2>2. CASE f \notin N
    <3>1. fds[f] # None /\ f \notin S
      BY <1>5, <1>12, <2>2
    <3>2. CASE \E h \in Handle : f \in Holds(h)
      BY <1>2, <3>2
    <3>3. CASE \E u \in Thread : f \in Mine(call[u])
      BY <1>3, <1>4, <3>1, <3>3
    <3> QED BY <1>7, <3>1, <3>2, <3>3 DEF Sole
  <2> QED BY <2>1, <2>2
<1>13. \A g, h \in Handle : g # h => Holds(g)' \cap Holds(h)' = {}
  BY <1>2, <1>7 DEF Sole
<1>14. \A h \in Handle : handle'[h].fd = handle'[h].dirp => handle'[h].fd = None
  BY <1>7 DEF Sole
<1> QED BY <1>8, <1>9, <1>10, <1>11, <1>12, <1>13, <1>14 DEF Sole

-----------------------------------------------------------------------------
(* The calls on a handle                                                   *)

\* Local variables other than these are about nothing that is open.
LEMMA SamePlaces ==
  ASSUME NEW c, NEW e, c.base = e.base, c.walk = e.walk, c.got = e.got, c.fd = e.fd
  PROVE  Mine(c) = Mine(e) /\ (Apart(c) <=> Apart(e))
BY DEF Mine, Apart

\* A thread goes on without opening or closing anything.
LEMMA GoesOn ==
  ASSUME Inv, NEW t \in Thread, NEW c, call' = [call EXCEPT ![t] = c],
         c \in CallRec, StageOK(c, todo[t]), UNCHANGED <<kvars, todo, last>>,
         c.base = call[t].base, c.walk = call[t].walk, c.got = call[t].got,
         c.fd = call[t].fd
  PROVE  Went(t)
<1>1. CallsOK /\ call[t] \in CallRec /\ CallOK(call[t], todo[t])
  BY TypesHave DEF Inv, CallsOK
<1>2. Mine(c) = Mine(call[t]) /\ (Apart(c) <=> Apart(call[t]))
  BY SamePlaces
<1>3. CallOK(c, todo[t])
  BY <1>1, <1>2 DEF CallOK
<1>4. CallsOK' /\ call'[t] = c /\ OthersStay(t)
  BY <1>1, <1>3, Goes
<1> QED BY <1>2, <1>4, StillWent

LEMMA BeginWent ==
  ASSUME Inv, NEW t \in Thread, Begin(t)
  PROVE  Went(t)
<1> DEFINE r == Req(t)
<1>0. /\ CallsOK /\ todo[t] # <<>> /\ r \in Request /\ call[t] = Idle
      /\ Mine(call[t]) = {} /\ UNCHANGED kvars
  BY TypesHave, IdleOK DEF Inv, CallsOK, CallOK, StageOK, Begin, At, Req
<1>1. CASE BadArgs(r) \/ TooLong(r)
  <2>1. Return(t, Err(IF BadArgs(r) THEN "badarg" ELSE "enametoolong"))
    BY <1>1 DEF Begin
  <2>2. CallsOK' /\ call'[t] = Idle /\ OthersStay(t)
    BY <1>0, <2>1, Ends
  <2> QED BY <1>0, <2>2, StillWent
<1>2. CASE ~(BadArgs(r) \/ TooLong(r))
  <2> DEFINE pc == IF r.h = None THEN "root" ELSE "lock"
             c == [call[t] EXCEPT !.pc = pc]
  <2>1. call' = [call EXCEPT ![t] = c] /\ UNCHANGED <<todo, last>>
    BY <1>2 DEF Begin, Goto
  <2>2. c \in CallRec
    BY <1>0, IdleOK DEF CallRec, Pcs
  <2>3. Bare(c) /\ c.base = <<>> /\ c.pc = pc
    BY <1>0 DEF Bare, Idle
  <2>4. /\ r.h = None => r.op \in OpenOps
        /\ r.h # None => r.h \in Handle /\ r.op # "open_dir"
    <3>1. /\ r.h \in Handle \/ (r.h = None /\ r.op \in OpenOps)
          /\ r.op = "open_dir" => r.h = None
      BY <1>0, RequestAssumption
    <3>2. None \notin Handle
      BY HandleAssumption
    <3> QED BY <3>1, <3>2
  <2>5. StageOK(c, todo[t])
    BY <1>0, <1>2, <2>3, <2>4 DEF StageOK, Phase, Req
  <2>6. /\ c.base = call[t].base /\ c.walk = call[t].walk /\ c.got = call[t].got
        /\ c.fd = call[t].fd
    BY <1>0, IdleOK DEF CallRec
  <2> QED BY <1>0, <2>1, <2>2, <2>5, <2>6, GoesOn
<1> QED BY <1>1, <1>2

LEMMA LockWent ==
  ASSUME Inv, NEW t \in Thread, Lock(t)
  PROVE  Went(t)
<1> DEFINE r == Req(t)
           h == Target(t)
<1>0. /\ CallsOK /\ ~At(t, "idle") /\ call[t].pc = "lock" /\ Phase(call[t], r)
      /\ call[t] \in CallRec /\ r \in Request /\ r.op # "close"
      /\ todo[t] # <<>> /\ r = Head(todo[t]) /\ ~BadArgs(r)
  BY ReqType, TypesHave DEF Inv, Lock, At, Req
<1>1. CASE handle[h].fd = None
  BY <1>0, <1>1, FailWent DEF Lock
<1>2. CASE handle[h].fd # None
  <2> DEFINE c == [call[t] EXCEPT !.pc = "held", !.num = handle[h].fd]
  <2>1. call' = [call EXCEPT ![t] = c] /\ UNCHANGED <<kvars, todo, last>>
    BY <1>2 DEF Lock
  <2>2. h \in Handle
    <3>1. CASE call[t].base = <<>>
      BY <1>0, <3>1 DEF Target, Phase
    <3>2. CASE call[t].base # <<>>
      BY <1>0, <3>2, RequestAssumption DEF Target, Phase
    <3> QED BY <3>1, <3>2
  <2>3. handle[h].fd \in Fd
    BY <1>2, <2>2 DEF Inv, Types, HandleRec
  <2>4. c \in CallRec
    BY <1>0, <2>3 DEF CallRec, Pcs
  <2>5. /\ c.pc = "held" /\ c.num \in Fd /\ c.base = call[t].base
        /\ c.walk = call[t].walk /\ c.got = call[t].got /\ c.fd = call[t].fd
        /\ c.hop = call[t].hop
    BY <1>0, <2>3 DEF CallRec
  <2>6. StageOK(c, todo[t])
    BY <1>0, <2>5 DEF StageOK, Phase, Bare
  <2> QED BY <2>1, <2>4, <2>5, <2>6, GoesOn
<1> QED BY <1>1, <1>2

\* A call that has nothing open ends.
LEMMA EndsEmpty ==
  ASSUME Inv, NEW t \in Thread, NEW ans, ~At(t, "idle"), Return(t, ans),
         Mine(call[t]) = {}, fds' = fds
  PROVE  /\ CallsOK' /\ OthersStay(t) /\ FdsType'
         /\ \E S, N \in SUBSET Fd : Trades(t, S, N)
<1>1. CallsOK /\ todo[t] # <<>>
  BY TypesHave, ReqType DEF Inv
<1>2. CallsOK' /\ call'[t] = Idle /\ OthersStay(t)
  BY <1>1, Ends
<1> QED BY <1>2, IdleOK, NoTrade

LEMMA BareHas ==
  ASSUME NEW c, Bare(c), c.base = <<>>
  PROVE  Mine(c) = {}
BY DEF Bare, Mine, Bases, Walked, Gotten

LEMMA AccessWent ==
  ASSUME Inv, NEW t \in Thread, NoBinary(t) \/ Access(t)
  PROVE  Went(t)
<1> DEFINE r == Req(t)
<1>0. /\ Types /\ CallsOK /\ FdsType /\ DescType /\ TreeType /\ moved \in BOOLEAN
      /\ ~At(t, "idle") /\ call[t].pc \in {"lock", "held"} /\ r.op \in AccessOps
  BY TypesHave DEF Inv, NoBinary, Access, At, AccessOps
<1>1. /\ r \in Request /\ Bare(call[t]) /\ call[t].base = <<>> /\ call[t] \in CallRec
      /\ call[t].pc = "held" => call[t].num \in Fd
  BY <1>0, ReqType DEF Phase, AccessOps, PairOps
<1>2. Mine(call[t]) = {}
  BY <1>1, BareHas
<1>3. (\E ans : Return(t, ans)) /\ fds' = fds /\ UNCHANGED <<descs, moved>>
  BY DEF NoBinary, Access, kvars
<1>4. /\ CallsOK' /\ OthersStay(t) /\ FdsType'
      /\ \E S, N \in SUBSET Fd : Trades(t, S, N)
  BY <1>0, <1>2, <1>3, EndsEmpty
<1>5. TreeType'
  <2>1. CASE NoBinary(t)
    BY <1>0, <2>1 DEF NoBinary, kvars, TreeType
  <2>2. CASE Access(t)
    <3> DEFINE f == call[t].num
               n == NodeOf(f)
               e == Outcome(r, n, descs[fds[f]].mode, tree[n]).entry
    <3>1. tree' = IF fds[f] = None THEN tree ELSE [tree EXCEPT ![n] = e]
      BY <2>2 DEF Access
    <3>2. CASE fds[f] # None
      <4>1. f \in Fd
        BY <1>1, <2>2 DEF Access, At
      <4>2. n \in Node
        BY <1>0, <3>2, <4>1, NodeType
      <4>3. tree[n] \in Entry
        BY <1>0, <4>2 DEF TreeType
      <4>4. e \in Entry
        BY <1>0, <1>1, <4>3, OutcomeType
      <4> QED BY <1>0, <3>1, <3>2, <4>2, <4>4 DEF TreeType
    <3> QED BY <1>0, <3>1, <3>2 DEF TreeType
  <2> QED BY <2>1, <2>2
<1>6. KernelTypeOK'
  BY <1>0, <1>3, <1>4, <1>5, KernelHas DEF DescType
<1> QED BY <1>3, <1>4, <1>6, DescsSame DEF Went

-----------------------------------------------------------------------------
(* Numbers that are opened                                                 *)

\* The new number and the new description, and the table after some closes.
LEMMA OpensFds ==
  ASSUME FdsType, FreeFds # {}, NEW d \in Fd, NEW S, S \subseteq {f \in Fd : fds[f] # None}
  PROVE  LET n == NewFd
             tab == Shut(Opened(fds, d), S) IN
         /\ n \in Fd /\ fds[n] = None /\ n \notin S
         /\ tab \in [Fd -> Fd \cup {None}] /\ tab[n] = d
         /\ \A f \in Fd : f # n => tab[f] = IF f \in S THEN None ELSE fds[f]
<1>1. NewFd \in Fd /\ fds[NewFd] = None
  BY NewFdFree
<1>2. Opened(fds, d) = [fds EXCEPT ![NewFd] = d]
  BY DEF Opened
<1> DEFINE n == NewFd
<1>3. Opened(fds, d) \in [Fd -> Fd \cup {None}] /\ Opened(fds, d)[n] = d
      /\ \A f \in Fd : f # n => Opened(fds, d)[f] = fds[f]
  BY <1>1, <1>2 DEF FdsType
<1> HIDE DEF n
<1>4. n \in Fd /\ fds[n] = None /\ n \notin S
  BY <1>1 DEF n
<1> QED BY <1>3, <1>4 DEF Shut, n

LEMMA OpenedFds ==
  ASSUME FdsType, FreeFds # {}, NEW d \in Fd
  PROVE  /\ NewFd \in Fd /\ fds[NewFd] = None
         /\ Opened(fds, d) \in [Fd -> Fd \cup {None}] /\ Opened(fds, d)[NewFd] = d
         /\ \A f \in Fd : f # NewFd => Opened(fds, d)[f] = fds[f]
<1>1. NewFd \in Fd /\ fds[NewFd] = None
  BY NewFdFree
<1>2. Opened(fds, d) = [fds EXCEPT ![NewFd] = d]
  BY DEF Opened
<1> DEFINE n == NewFd
<1>3. n \in Fd /\ fds[n] = None /\ Opened(fds, d) = [fds EXCEPT ![n] = d]
  BY <1>1, <1>2
<1> HIDE DEF n
<1>4. /\ Opened(fds, d) \in [Fd -> Fd \cup {None}] /\ Opened(fds, d)[n] = d
      /\ \A f \in Fd : f # n => Opened(fds, d)[f] = fds[f]
  BY <1>3 DEF FdsType
<1> QED BY <1>1, <1>4 DEF n

\* A description is made for it.
LEMMA Describes ==
  ASSUME FdsType, DescType, FreeFds # {}, NEW n \in Node, NEW fl,
         descs' = Description(n, fl)
  PROVE  /\ NewDesc \in Fd /\ DescType' /\ DescsStay
         /\ descs'[NewDesc].node = n /\ descs'[NewDesc].mode = fl \cap {"rd", "wr"}
<1> DEFINE d == NewDesc
           e == [node |-> n, mode |-> fl \cap {"rd", "wr"}, pos |-> 0]
<1>1. d \in Fd /\ \A f \in Fd : fds[f] # d
  BY NewDescFree
<1>2. descs' = [descs EXCEPT ![d] = e]
  BY DEF Description
<1>3. e \in [node : Node, mode : SUBSET {"rd", "wr"}, pos : Nat]
  OBVIOUS
<1> HIDE DEF d
<1>4. DescType'
  BY <1>1, <1>2, <1>3 DEF DescType, Desc
<1>5. \A x \in Fd : x # d => descs'[x] = descs[x]
  BY <1>1, <1>2 DEF DescType, Desc
<1>6. DescsStay
  BY <1>1, <1>5 DEF DescsStay, FdsType
<1>7. descs'[d] = e
  BY <1>1, <1>2 DEF DescType, Desc
<1> QED BY <1>1, <1>4, <1>6, <1>7 DEF d

\* A call that goes on closes some of what it has, and opens one number.
LEMMA OpenWent ==
  ASSUME Inv, NEW t \in Thread, NEW c, call' = [call EXCEPT ![t] = c],
         CallOK(c, todo[t]), UNCHANGED <<todo, last>>,
         DescType', TreeType', (moved \in BOOLEAN)', DescsStay,
         FreeFds # {}, NEW d \in Fd, NEW S, S \subseteq Mine(call[t]),
         \/ fds' = Shut(Opened(fds, d), S)
         \/ S = {} /\ fds' = Opened(fds, d),
         Mine(c) = (Mine(call[t]) \ S) \cup {NewFd}
  PROVE  Went(t)
<1> DEFINE n == NewFd
<1>1. FdsType /\ d # None /\ Mine(call[t]) \subseteq Fd
      /\ \A f \in Mine(call[t]) : fds[f] # None
  BY TypesHave, MineOpen, KernelAssumption DEF Inv
<1>2. n \in Fd /\ fds[n] = None /\ n \notin S
      /\ fds' \in [Fd -> Fd \cup {None}] /\ fds'[n] = d
      /\ \A f \in Fd : f # n => fds'[f] = IF f \in S THEN None ELSE fds[f]
  <2>1. CASE fds' = Shut(Opened(fds, d), S)
    <3>1. S \subseteq {f \in Fd : fds[f] # None}
      BY <1>1
    <3> QED BY <1>1, <2>1, <3>1, OpensFds
  <2>2. CASE S = {} /\ fds' = Opened(fds, d)
    BY <1>1, <2>2, OpenedFds
  <2> QED BY <2>1, <2>2
<1>3. Mine(c) = (Mine(call[t]) \ S) \cup {n}
  OBVIOUS
<1> HIDE DEF n
<1>4. CallsOK' /\ call'[t] = c /\ OthersStay(t)
  BY Goes, TypesHave DEF Inv
<1>5. \A f \in Fd : /\ f \in S => fds'[f] = None
                    /\ f \in {n} => fds'[f] # None
                    /\ f \notin S \cup {n} => fds'[f] = fds[f]
  BY <1>1, <1>2
<1>6. S \in SUBSET Fd /\ {n} \in SUBSET Fd /\ {n} \subseteq {f \in Fd : fds[f] = None}
  BY <1>1, <1>2
<1>7. Mine(call'[t]) = (Mine(call[t]) \ S) \cup {n}
  BY <1>3, <1>4
<1>8. Trades(t, S, {n})
  BY <1>2, <1>5, <1>6, <1>7 DEF Trades
<1>9. KernelTypeOK'
  BY <1>2, KernelHas DEF FdsType
<1> QED BY <1>4, <1>6, <1>8, <1>9 DEF Went

\* It only closes.
LEMMA ShutWent ==
  ASSUME Inv, NEW t \in Thread, NEW c, call' = [call EXCEPT ![t] = c],
         CallOK(c, todo[t]), UNCHANGED <<todo, last, descs, tree, moved>>,
         NEW S, S \subseteq Mine(call[t]), fds' = Shut(fds, S),
         Mine(c) = Mine(call[t]) \ S
  PROVE  Went(t)
<1>1. FdsType /\ DescType /\ TreeType /\ moved \in BOOLEAN /\ Mine(call[t]) \subseteq Fd
  BY TypesHave, MineOpen DEF Inv
<1>2. CallsOK' /\ call'[t] = c /\ OthersStay(t)
  BY Goes, TypesHave DEF Inv
<1>3. /\ fds' \in [Fd -> Fd \cup {None}]
      /\ \A f \in Fd : fds'[f] = IF f \in S THEN None ELSE fds[f]
  BY <1>1 DEF Shut, FdsType
<1>4. Trades(t, S, {})
  BY <1>2, <1>3 DEF Trades
<1>5. KernelTypeOK'
  BY <1>1, <1>3, KernelHas DEF FdsType, DescType, TreeType
<1>6. S \in SUBSET Fd /\ {} \in SUBSET Fd
  BY <1>1
<1> QED BY <1>2, <1>4, <1>5, <1>6, DescsSame DEF Went

LEMMA DupOk ==
  ASSUME FdsType, NEW t, DupErr(t) = "ok", call[t].num \in Fd
  PROVE  /\ fds[call[t].num] \in Fd /\ FreeFds # {}
         /\ NewFd \in Fd /\ fds[NewFd] = None
<1>1. fds[call[t].num] # None /\ FreeFds # {}
  BY DEF DupErr
<1> QED BY <1>1, NewFdFree DEF FdsType

\* The duplicate, of which nothing was open before.
LEMMA DupWent ==
  ASSUME Inv, NEW t \in Thread, NEW c, call' = [call EXCEPT ![t] = c],
         CallOK(c, todo[t]), UNCHANGED <<todo, last, descs, tree, moved>>,
         DupErr(t) = "ok", call[t].num \in Fd, fds' = Duplicated(t),
         Mine(c) = Mine(call[t]) \cup {NewFd}
  PROVE  Went(t)
<1>1. FdsType /\ DescType /\ TreeType /\ moved \in BOOLEAN
  BY TypesHave DEF Inv
<1>2. fds[call[t].num] \in Fd /\ FreeFds # {}
  BY <1>1, DupOk
<1>3. DescType' /\ TreeType' /\ (moved \in BOOLEAN)' /\ DescsStay
  BY <1>1, DescsSame DEF DescType, TreeType
<1> DEFINE S == {}
           d == fds[call[t].num]
<1>4. fds' = Opened(fds, d) /\ S = {}
  BY DEF Duplicated
<1>5. Mine(c) = (Mine(call[t]) \ S) \cup {NewFd} /\ S \subseteq Mine(call[t])
  OBVIOUS
<1>6. d \in Fd /\ FreeFds # {}
  BY <1>2
<1> HIDE DEF S, d
<1> QED BY <1>3, <1>4, <1>5, <1>6, OpenWent

LEMMA DupHandleWent ==
  ASSUME Inv, NEW t \in Thread, DupHandle(t)
  PROVE  Went(t)
<1>0. /\ CallsOK /\ ~At(t, "idle") /\ call[t].pc = "held" /\ Phase(call[t], Req(t))
      /\ call[t] \in CallRec /\ Req(t).op = "dup" /\ FdsType /\ call[t].num \in Fd
      /\ todo[t] # <<>> /\ Req(t) = Head(todo[t]) /\ ~BadArgs(Req(t))
  BY ReqType, TypesHave DEF Inv, DupHandle, At, Phase, Req
<1>1. CASE DupErr(t) # "ok"
  BY <1>0, <1>1, FailWent DEF DupHandle
<1>2. CASE DupErr(t) = "ok"
  <2> DEFINE c == [call[t] EXCEPT !.pc = "made", !.fd = NewFd]
  <2>1. /\ call' = [call EXCEPT ![t] = c] /\ fds' = Duplicated(t)
        /\ UNCHANGED <<todo, last, descs, tree, moved>>
    BY <1>2 DEF DupHandle
  <2>2. NewFd \in Fd /\ NewFd # None
    BY <1>0, <1>2, DupOk, KernelAssumption
  <2>3. c \in CallRec
    BY <1>0, <2>2 DEF CallRec, Pcs
  <2>4. /\ c.pc = "made" /\ c.fd = NewFd /\ c.base = call[t].base
        /\ c.walk = call[t].walk /\ c.got = call[t].got
    BY <1>0 DEF CallRec
  <2>5. c.base = <<>> /\ c.walk = <<>> /\ c.got = <<>> /\ call[t].fd = None
    BY <1>0, <2>4 DEF Phase, Bare, PairOps
  <2>6. StageOK(c, todo[t])
    BY <1>0, <2>2, <2>4, <2>5 DEF StageOK, Phase
  <2>7. /\ Bases(<<>>) = {} /\ Walked(<<>>) = {} /\ Gotten(<<>>) = {}
        /\ BasesApart(<<>>) /\ WalkApart(<<>>) /\ GotApart(<<>>)
    BY DEF Bases, Walked, Gotten, BasesApart, WalkApart, GotApart
  <2>8. Apart(c) /\ Mine(c) = {NewFd} /\ Mine(call[t]) = {}
    BY <2>2, <2>4, <2>5, <2>7 DEF Apart, Mine
  <2>9. CallOK(c, todo[t])
    BY <2>3, <2>5, <2>6, <2>8 DEF CallOK
  <2> QED BY <1>0, <1>2, <2>1, <2>8, <2>9, DupWent
<1> QED BY <1>1, <1>2

\* A new duplicate is in none of the places.
LEMMA NewIsApart ==
  ASSUME Inv, NEW t \in Thread, FreeFds # {}
  PROVE  NewFd \in Fd /\ NewFd # None /\ NewFd \notin Mine(call[t])
<1>1. NewFd \in Fd /\ fds[NewFd] = None
  BY TypesHave, NewFdFree DEF Inv
<1> QED BY <1>1, MineOpen, KernelAssumption

LEMMA DirDupWent ==
  ASSUME Inv, NEW t \in Thread, DirDup(t)
  PROVE  Went(t)
<1> DEFINE r == Req(t)
           more == r.op \in PairOps /\ call[t].base = <<>>
<1>0. /\ CallsOK /\ ~At(t, "idle") /\ call[t].pc = "held" /\ Phase(call[t], r)
      /\ call[t] \in CallRec /\ r.op \in {"open_at"} \cup PathOps \cup PairOps
      /\ FdsType /\ r \in Request /\ call[t].num \in Fd /\ Apart(call[t])
      /\ todo[t] # <<>> /\ Req(t) = Head(todo[t]) /\ ~BadArgs(Req(t))
  BY ReqType, TypesHave DEF Inv, DirDup, At, Phase, Req
<1>1. CASE DupErr(t) # "ok"
  BY <1>0, <1>1, FailWent DEF DirDup
<1>2. CASE DupErr(t) = "ok"
  <2> DEFINE n == NewFd
             e == call[t]
             b == Append(e.base, n)
             pc == IF more THEN "lock" ELSE "enter"
             c == [call[t] EXCEPT !.pc = pc, !.base = b, !.path = r.path]
  <2>1. /\ call' = [call EXCEPT ![t] = c] /\ fds' = Duplicated(t)
        /\ UNCHANGED <<todo, last, descs, tree, moved>>
    BY <1>2 DEF DirDup
  <2>2. n \in Fd /\ n # None /\ n \notin Mine(e)
    BY <1>0, <1>2, DupOk, NewIsApart
  <2>3. /\ r.path \in Seq(Comp) /\ e.base \in Seq(Fd)
        /\ e.base = <<>> \/ (r.op \in PairOps /\ Len(e.base) = 1)
    BY <1>0, RequestAssumption DEF CallRec, Phase
  <2> HIDE DEF n
  <2>4. /\ b \in Seq(Fd) /\ Len(b) = Len(e.base) + 1 /\ Bases(b) = Bases(e.base) \cup {n}
        /\ BasesApart(e.base) /\ n \notin Bases(e.base) => BasesApart(b)
    BY <2>2, <2>3, BasesGrow
  <2>5. Len(b) = IF more THEN 1 ELSE IF r.op \in PairOps THEN 2 ELSE 1
    <3>1. CASE e.base = <<>>
      <4>1. Len(b) = 1
        BY <2>4, <3>1
      <4> QED BY <3>1, <4>1
    <3>2. CASE e.base # <<>>
      <4>1. r.op \in PairOps /\ Len(e.base) = 1
        BY <2>3, <3>2
      <4>2. Len(b) = 2
        BY <2>4, <4>1
      <4> QED BY <3>2, <4>1, <4>2
    <3> QED BY <3>1, <3>2
  <2>51. (Len(b) = 1 \/ Len(b) = 2) /\ (more => r.op \in PairOps)
    BY <2>5
  <2>52. Len(b) <= 2
    BY <2>51
  <2> HIDE DEF b, more
  <2>6. c \in CallRec
    BY <1>0, <2>3, <2>4 DEF CallRec, Pcs
  <2>7. /\ c.pc = pc /\ c.base = b /\ c.walk = e.walk /\ c.got = e.got /\ c.fd = e.fd
        /\ c.hop = e.hop
    BY <1>0 DEF CallRec
  <2>8. Bare(c) /\ Bare(e) /\ r.h \in Handle /\ r.op # "open_dir"
    BY <1>0, <2>7 DEF Phase, Bare
  <2>9. Phase(c, r)
    <3>1. CASE more
      <4>1. c.pc = "lock" /\ Len(c.base) = 1 /\ r.op \in PairOps
        BY <2>5, <2>51, <2>7, <3>1
      <4> QED BY <1>0, <2>8, <4>1 DEF Phase
    <3>2. CASE ~more
      <4>1. c.pc = "enter" /\ Len(c.base) = IF r.op \in PairOps THEN 2 ELSE 1
        BY <2>5, <2>7, <3>2
      <4>2. Based(c, r) /\ Found(c, r) /\ c.walk = <<>>
        BY <1>0, <2>8, <4>1 DEF Bare, Based, Found
      <4> QED BY <4>1, <4>2 DEF Phase
    <3> QED BY <3>1, <3>2
  <2>10. StageOK(c, todo[t])
    BY <1>0, <2>7, <2>9 DEF StageOK
  <2>11. Apart(c) /\ Mine(c) = Mine(e) \cup {n}
    BY <1>0, <2>2, <2>4, <2>7, <2>8 DEF Apart, Mine, Bare
  <2>12. CallOK(c, todo[t])
    <3>1. Len(c.base) <= 2
      BY <2>52, <2>7
    <3> HIDE DEF c
    <3> QED BY <2>6, <2>10, <2>11, <3>1 DEF CallOK
  <2> QED BY <1>0, <1>2, <2>1, <2>11, <2>12, DupWent DEF n
<1> QED BY <1>1, <1>2

-----------------------------------------------------------------------------
(* The start of a call, and of a walk                                      *)

LEMMA BaseOne ==
  ASSUME NEW x \in Fd
  PROVE  /\ <<x>> \in Seq(Fd) /\ Len(<<x>>) = 1 /\ Bases(<<x>>) = {x} /\ BasesApart(<<x>>)
         /\ Bases(<<>>) = {} /\ BasesApart(<<>>) /\ <<x>>[1] = x
<1>1. <<x>> \in Seq(Fd) /\ Len(<<x>>) = 1 /\ <<x>>[1] = x
  OBVIOUS
<1> DEFINE b == <<x>>
<1> HIDE DEF b
<1>2. \A i \in 1 .. Len(b) : i = 1 /\ b[i] = x
  BY <1>1 DEF b
<1>3. 1 \in 1 .. Len(b) /\ b[1] = x
  BY <1>1 DEF b
<1>4. Bases(b) = {x} /\ BasesApart(b)
  BY <1>2, <1>3 DEF Bases, BasesApart
<1>5. Bases(<<>>) = {} /\ BasesApart(<<>>)
  BY DEF Bases, BasesApart
<1> QED BY <1>1, <1>4, <1>5 DEF b

LEMMA OpenRootWent ==
  ASSUME Inv, NEW t \in Thread, OpenRoot(t)
  PROVE  Went(t)
<1> DEFINE r == Req(t)
           e == call[t]
           b == <<NewFd>>
           dir == r.op = "open_dir"
<1>0. /\ CallsOK /\ ~At(t, "idle") /\ e.pc = "root" /\ Bare(e) /\ e.base = <<>>
      /\ r.op \in OpenOps /\ r \in Request /\ e \in CallRec
      /\ FdsType /\ DescType /\ TreeType /\ moved \in BOOLEAN
      /\ todo[t] # <<>> /\ r = Head(todo[t]) /\ ~BadArgs(r)
  BY ReqType, TypesHave DEF Inv, OpenRoot, At, Phase, Req
<1>1. CASE FreeFds = {}
  BY <1>0, <1>1, FailWent DEF OpenRoot
<1>2. CASE FreeFds # {}
  <2> DEFINE pc == IF dir THEN "made" ELSE "enter"
             fd == IF dir THEN NewFd ELSE e.fd
             base == IF dir THEN e.base ELSE b
             c == [e EXCEPT !.pc = pc, !.fd = fd, !.base = base, !.path = r.path]
  <2>1. /\ call' = [call EXCEPT ![t] = c] /\ fds' = Opened(fds, NewDesc)
        /\ descs' = Description(Top, {"rd"})
        /\ UNCHANGED <<todo, last, tree, moved>>
    BY <1>2 DEF OpenRoot
  <2>2. NewFd \in Fd /\ NewFd # None
    BY <1>2, NewIsApart
  <2>3. /\ b \in Seq(Fd) /\ Len(b) = 1 /\ Bases(b) = {NewFd} /\ BasesApart(b)
        /\ Bases(<<>>) = {} /\ BasesApart(<<>>)
    BY <2>2, BaseOne
  <2>4. r.path \in Seq(Comp)
    BY <1>0, RequestAssumption
  <2> HIDE DEF b
  <2>5. c \in CallRec
    BY <1>0, <2>2, <2>3, <2>4 DEF CallRec, Pcs
  <2>6. /\ c.pc = pc /\ c.base = base /\ c.fd = fd
        /\ c.walk = <<>> /\ c.got = <<>> /\ e.fd = None /\ c.hop = 0
    BY <1>0 DEF CallRec, Bare
  <2> HIDE DEF c
  <2>7. Phase(c, r)
    <3>1. CASE dir
      BY <1>0, <2>2, <2>6, <3>1 DEF Phase
    <3>2. CASE ~dir
      <4>1. c.pc = "enter" /\ r.op = "open_at" /\ Len(c.base) = 1 /\ c.fd = None
        BY <1>0, <2>3, <2>6, <3>2 DEF OpenOps
      <4> QED BY <2>6, <4>1 DEF Phase, Based, Found, PairOps
    <3> QED BY <3>1, <3>2
  <2>8. StageOK(c, todo[t])
    BY <1>0, <2>6, <2>7 DEF StageOK
  <2>9. /\ Walked(<<>>) = {} /\ Gotten(<<>>) = {} /\ WalkApart(<<>>) /\ GotApart(<<>>)
    BY DEF Walked, Gotten, WalkApart, GotApart
  <2>10. Apart(c) /\ Mine(c) = {NewFd}
    BY <1>0, <2>2, <2>3, <2>6, <2>9 DEF Apart, Mine
  <2>11. Mine(e) = {}
    BY <1>0, BareHas
  <2>12. Len(c.base) <= 2
    <3>1. CASE dir
      <4>1. Len(c.base) = 0
        BY <1>0, <2>6, <3>1
      <4> QED BY <4>1
    <3>2. CASE ~dir
      <4>1. Len(c.base) = 1
        BY <2>3, <2>6, <3>2
      <4> QED BY <4>1
    <3> QED BY <3>1, <3>2
  <2>13. CallOK(c, todo[t])
    BY <2>5, <2>8, <2>10, <2>12 DEF CallOK
  <2>14. Top \in Node
    BY KernelAssumption
  <2>15. NewDesc \in Fd /\ DescType' /\ DescsStay
    BY <1>0, <1>2, <2>1, <2>14, Describes
  <2>16. TreeType' /\ (moved \in BOOLEAN)'
    BY <1>0, <2>1 DEF TreeType
  <2> DEFINE S == {}
             d == NewDesc
  <2>17. Mine(c) = (Mine(e) \ S) \cup {NewFd} /\ S \subseteq Mine(e) /\ S = {}
    BY <2>10, <2>11
  <2>18. d \in Fd /\ fds' = Opened(fds, d)
    BY <2>1, <2>15
  <2> HIDE DEF S, d
  <2> QED BY <1>2, <2>1, <2>13, <2>15, <2>16, <2>17, <2>18, OpenWent
<1> QED BY <1>1, <1>2

LEMMA NoMemoryWent ==
  ASSUME Inv, NEW t \in Thread, NoMemory(t)
  PROVE  Went(t)
BY FailWent DEF NoMemory, At

\* The path has a first component, and its walk owns nothing yet.
LEMMA PathOk ==
  ASSUME NEW p \in Seq(Comp), PathErr(p) = "ok"
  PROVE  p # <<>>
BY DEF PathErr

LEMMA EnterWent ==
  ASSUME Inv, NEW t \in Thread, Enter(t)
  PROVE  Went(t)
<1> DEFINE r == Req(t)
           e == call[t]
           er == IF r.op = "open_at" /\ r.bad THEN "badarg" ELSE PathErr(e.path)
<1>0. /\ CallsOK /\ ~At(t, "idle") /\ e.pc = "enter"
      /\ e.walk = <<>> /\ Based(e, r) /\ Found(e, r)
      /\ r \in Request /\ e \in CallRec /\ Apart(e) /\ Len(e.base) <= 2
      /\ todo[t] # <<>> /\ r = Head(todo[t]) /\ ~BadArgs(r)
  BY ReqType, TypesHave DEF Inv, Enter, At, Phase, Req
<1>1. CASE er # "ok"
  BY <1>0, <1>1, FailWent DEF Enter
<1>2. CASE er = "ok"
  <2> DEFINE x == [cur |-> From(t), own |-> FALSE, d |-> 0, rest |-> e.path,
                   fl |-> r.fl, fol |-> r.fol, bud |-> MaxLinks, par |-> r.op # "open_at"]
             w == <<x>>
             c == [e EXCEPT !.pc = "walk", !.walk = w]
  <2>1. call' = [call EXCEPT ![t] = c] /\ UNCHANGED <<kvars, todo, last>>
    BY <1>2 DEF Enter
  <2>2. e.path # <<>> /\ e.path \in Seq(Comp)
    <3>1. e.path \in Seq(Comp) /\ PathErr(e.path) = "ok"
      BY <1>0, <1>2 DEF CallRec
    <3> QED BY <3>1, PathOk
  <2>3. From(t) \in Fd
    <3>1. e.base \in Seq(Fd) /\ e.got \in Seq(Parents) /\ e.hop \in Nat
      BY <1>0, HandleAssumption DEF CallRec
    <3>2. CASE e.hop > 0
      <4>1. Len(e.got) = 1
        BY <1>0, <3>2 DEF Found
      <4>2. e.got[1] \in Parents
        BY <3>1, <4>1
      <4> QED BY <3>2, <4>2 DEF From, Parents
    <3>3. CASE ~(e.hop > 0)
      <4>1. Len(e.got) + 1 \in 1 .. Len(e.base)
        <5>1. CASE e.got = <<>>
          <6>1. Len(e.got) = 0 /\ (Len(e.base) = 1 \/ Len(e.base) = 2)
            BY <1>0, <5>1 DEF Based
          <6>2. CASE Len(e.base) = 1
            BY <6>1, <6>2
          <6>3. CASE Len(e.base) = 2
            BY <6>1, <6>3
          <6> QED BY <6>1, <6>2, <6>3
        <5>2. CASE e.got # <<>>
          <6>1. Len(e.got) = 1 /\ Len(e.base) = 2
            BY <1>0, <3>3, <5>2 DEF Found, Based
          <6> QED BY <6>1
        <5> QED BY <5>1, <5>2
      <4>2. e.base[Len(e.got) + 1] \in Fd
        BY <3>1, <4>1
      <4> QED BY <3>3, <4>2 DEF From
    <3> QED BY <3>2, <3>3
  <2>4. x \in Frame /\ ~x.own /\ x.rest = e.path /\ x.bud = MaxLinks
        /\ (x.par <=> r.op # "open_at")
    <3>1. r.fl \in SUBSET OpenFlags /\ r.fol \in BOOLEAN
      BY <1>0, RequestAssumption
    <3>2. MaxLinks \in 0 .. MaxLinks
      BY HandleAssumption
    <3>3. (r.op # "open_at") \in BOOLEAN
      OBVIOUS
    <3> QED BY <2>2, <2>3, <3>1, <3>2, <3>3 DEF Frame
  <2> HIDE DEF x
  <2>5. /\ w \in Seq(Frame) /\ Len(w) = 1 /\ w[1] = x /\ w # <<>>
        /\ Walked(w) = {} /\ WalkApart(w) /\ Walked(<<>>) = {}
    BY <2>4, WalkStart
  <2> HIDE DEF w
  <2>6. c \in CallRec
    BY <1>0, <2>5 DEF CallRec, Pcs
  <2>7. /\ c.pc = "walk" /\ c.base = e.base /\ c.fd = e.fd
        /\ c.walk = w /\ c.got = e.got /\ c.hop = e.hop
    BY <1>0 DEF CallRec
  <2> HIDE DEF c
  <2>8. FramesOK(c, r)
    <3>1. MaxLinks \in Nat
      BY HandleAssumption
    <3>2. \A i \in 1 .. Len(w) : i = 1
      BY <2>5
    <3>3. MaxLinks + 1 - 1 = MaxLinks
      BY <3>1
    <3>4. \A i \in 1 .. Len(c.walk) : i = 1 /\ c.walk[i] = x
      BY <2>5, <2>7, <3>2
    <3>5. c.pc # "link" /\ Len(c.walk) = 1
      BY <2>5, <2>7
    <3>6. \A i \in 1 .. Len(c.walk) : ~(i < Len(c.walk))
      BY <3>4, <3>5
    <3>7. \A i \in 1 .. Len(c.walk) : c.walk[i].bud = MaxLinks + 1 - i
      BY <2>4, <3>3, <3>4
    <3> QED BY <2>2, <2>4, <3>4, <3>5, <3>6, <3>7 DEF FramesOK
  <2>9. StageOK(c, todo[t])
    BY <1>0, <2>5, <2>7, <2>8 DEF StageOK, Phase, Based, Found
  <2>10. Mine(c) = Mine(e) /\ Apart(c)
    BY <1>0, <2>5, <2>7 DEF Mine, Apart
  <2>11. CallOK(c, todo[t])
    BY <1>0, <2>6, <2>7, <2>9, <2>10 DEF CallOK
  <2>12. CallsOK' /\ call'[t] = c /\ OthersStay(t)
    BY <1>0, <2>1, <2>11, Goes
  <2> QED BY <2>1, <2>10, <2>12, StillWent
<1> QED BY <1>1, <1>2
-----------------------------------------------------------------------------
(* The steps of a walk                                                     *)

\* What is known of a call that walks.
Walking0(t) ==
    LET e == call[t]
        r == Req(t) IN
    /\ Types /\ CallsOK /\ FdsType /\ DescType /\ TreeType /\ moved \in BOOLEAN
    /\ ~At(t, "idle") /\ r \in Request /\ ~BadArgs(r)
    /\ todo[t] # <<>> /\ r = Head(todo[t]) /\ e \in CallRec /\ Len(e.base) <= 2
    /\ Apart(e) /\ BasesApart(e.base) /\ WalkApart(e.walk) /\ GotApart(e.got)
    /\ Based(e, r) /\ Found(e, r) /\ FramesOK(e, r)
    /\ e.walk \in Seq(Frame) /\ e.walk # <<>>

LEMMA WalkHas ==
  ASSUME Inv, NEW t \in Thread, At(t, "walk") \/ At(t, "link")
  PROVE  /\ Walking0(t)
         /\ Depth(t) \in Nat /\ Depth(t) >= 1 /\ Depth(t) \in 1 .. Len(call[t].walk)
         /\ Frm(t) = call[t].walk[Depth(t)] /\ Frm(t) \in Frame
         /\ Frm(t).own => Frm(t).cur \in Walked(call[t].walk)
<1>0. ~At(t, "idle") /\ call[t].pc \in {"walk", "link"}
  BY DEF At
<1>1. Walking0(t)
  BY <1>0, ReqType, TypesHave DEF Inv, Walking0, Phase, CallRec, Apart, Req
<1>2. call[t].walk \in Seq(Frame) /\ call[t].walk # <<>>
  BY <1>1 DEF Walking0
<1>3. Depth(t) \in Nat /\ Depth(t) >= 1 /\ Depth(t) \in 1 .. Len(call[t].walk)
  BY <1>2 DEF Depth
<1>4. Frm(t) = call[t].walk[Depth(t)] /\ Frm(t) \in Frame
  BY <1>2, <1>3 DEF Frm
<1>5. Frm(t).own => Frm(t).cur \in Walked(call[t].walk)
  BY <1>3, <1>4 DEF Walked
<1> QED BY <1>1, <1>3, <1>4, <1>5

\* A sequence that is not empty and not of one element has a tail that is not empty.
LEMMA TailLeft ==
  ASSUME NEW s \in Seq(Comp), s # <<>>
  PROVE  /\ Tail(s) \in Seq(Comp) /\ Head(s) \in Comp
         /\ Len(s) # 1 => Tail(s) # <<>>
<1>1. Tail(s) \in Seq(Comp) /\ Head(s) \in Comp /\ Len(Tail(s)) = Len(s) - 1
  OBVIOUS
<1>2. ASSUME Len(s) # 1 PROVE Tail(s) # <<>>
  <2>1. Len(s) # 0 /\ Len(s) \in Nat
    OBVIOUS
  <2>2. Len(Tail(s)) # 0
    BY <1>1, <1>2, <2>1
  <2>3. Len(<<>>) = 0
    OBVIOUS
  <2> DEFINE u == Tail(s)
  <2>4. Len(u) # 0
    BY <2>2
  <2> HIDE DEF u
  <2>5. u # <<>>
    BY <2>3, <2>4
  <2> QED BY <2>5 DEF u
<1> QED BY <1>1, <1>2

\* The last frame moves to another directory: the frames stay as they should be.
LEMMA FramesMove ==
  ASSUME NEW e, NEW r, NEW c, FramesOK(e, r),
         NEW n \in Nat, n >= 1, Len(e.walk) = n, Len(c.walk) = n, c.pc = "walk",
         \A i \in 1 .. n - 1 : c.walk[i] = e.walk[i],
         c.walk[n].own, c.walk[n].par <=> e.walk[n].par, c.walk[n].bud = e.walk[n].bud,
         c.walk[n].par => c.walk[n].rest # <<>>
  PROVE  FramesOK(c, r)
<1>0. /\ \A i \in 1 .. n : i = n \/ i \in 1 .. n - 1
      /\ \A i \in 1 .. n - 1 : i \in 1 .. n /\ i < n
      /\ n \in 1 .. n /\ ~(n < n)
  OBVIOUS
<1>1. \A i \in 1 .. n :
         /\ c.walk[i].own \/ c.walk[i].rest # <<>>
         /\ c.walk[i].par <=> i = 1 /\ r.op # "open_at"
         /\ c.walk[i].par => c.walk[i].rest # <<>>
         /\ c.walk[i].bud = MaxLinks + 1 - i
  <2>1. CASE TRUE
    <3> SUFFICES ASSUME NEW i \in 1 .. n
                 PROVE  /\ c.walk[i].own \/ c.walk[i].rest # <<>>
                        /\ c.walk[i].par <=> i = 1 /\ r.op # "open_at"
                        /\ c.walk[i].par => c.walk[i].rest # <<>>
                        /\ c.walk[i].bud = MaxLinks + 1 - i
      OBVIOUS
    <3>1. /\ e.walk[i].own \/ e.walk[i].rest # <<>>
          /\ e.walk[i].par <=> i = 1 /\ r.op # "open_at"
          /\ e.walk[i].par => e.walk[i].rest # <<>>
          /\ e.walk[i].bud = MaxLinks + 1 - i
      BY DEF FramesOK
    <3>2. CASE i = n
      BY <3>1, <3>2
    <3>3. CASE i \in 1 .. n - 1
      BY <3>1, <3>3
    <3> QED BY <1>0, <3>2, <3>3
  <2> QED BY <2>1
<1>2. \A i \in 1 .. n : i < n \/ c.pc = "link" =>
         c.walk[i].rest # <<>> /\ (c.walk[i].par => Tail(c.walk[i].rest) # <<>>)
  <2> SUFFICES ASSUME NEW i \in 1 .. n, i < n
               PROVE  /\ c.walk[i].rest # <<>>
                      /\ c.walk[i].par => Tail(c.walk[i].rest) # <<>>
    OBVIOUS
  <2>1. i \in 1 .. n - 1
    OBVIOUS
  <2>2. e.walk[i].rest # <<>> /\ (e.walk[i].par => Tail(e.walk[i].rest) # <<>>)
    BY DEF FramesOK
  <2> QED BY <2>1, <2>2
<1> QED BY <1>1, <1>2 DEF FramesOK

LEMMA AdvanceWent ==
  ASSUME Inv, NEW t \in Thread, Stepping(t), NEW m, NEW fl, NEW dd \in Nat,
         OpenErr(Frm(t).cur, m, fl) = "ok", Advance(t, m, fl, dd)
  PROVE  Went(t)
<1> DEFINE e == call[t]
           r == Req(t)
           w == e.walk
           n == Depth(t)
           g == w[n]
           x == [Frm(t) EXCEPT !.cur = NewFd, !.own = TRUE, !.d = dd, !.rest = Tail(@)]
           a == [w EXCEPT ![n] = x]
           c == [e EXCEPT !.walk = a]
           S == IF g.own THEN {g.cur} ELSE {}
           d == NewDesc
<1>0. /\ At(t, "walk") /\ e.pc = "walk" /\ Walking0(t)
      /\ n \in Nat /\ n >= 1 /\ Len(w) = n /\ g = Frm(t) /\ g \in Frame
      /\ g.own => g.cur \in Walked(w)
  BY WalkHas DEF Stepping, At, Depth
<1>01. /\ Types /\ CallsOK /\ FdsType /\ DescType /\ TreeType /\ moved \in BOOLEAN
       /\ r \in Request /\ ~BadArgs(r) /\ Len(e.base) <= 2
       /\ todo[t] # <<>> /\ r = Head(todo[t]) /\ e \in CallRec
       /\ Apart(e) /\ WalkApart(w) /\ w \in Seq(Frame) /\ w # <<>>
       /\ Based(e, r) /\ Found(e, r) /\ FramesOK(e, r)
  BY <1>0 DEF Walking0
<1>1. /\ call' = [call EXCEPT ![t] = c] /\ fds' = Shut(Opened(fds, d), S)
      /\ descs' = Description(OpenNode(g.cur, m), fl)
      /\ tree' = OpenTree(g.cur, m, fl) /\ UNCHANGED <<moved, todo, last>>
  <2>1. call' = [call EXCEPT ![t] = c]
    BY DEF Advance
  <2>2. UNCHANGED <<moved, todo, last>> /\ g = Frm(t)
    BY <1>0 DEF Advance
  <2>3. fds' = Shut(Opened(fds, d), S)
    BY <2>2 DEF Advance
  <2>4. descs' = Description(OpenNode(g.cur, m), fl) /\ tree' = OpenTree(g.cur, m, fl)
    BY <2>2 DEF Advance
  <2> QED BY <2>1, <2>2, <2>3, <2>4
<1>2. g.cur \in Fd /\ g.rest \in Seq(Comp) /\ g.rest # <<>> /\ (g.par => Len(g.rest) # 1)
  BY <1>0 DEF Frame, Stepping, IsLast
<1>3. /\ FreeFds # {} /\ OpenNode(g.cur, m) \in Node
      /\ OpenTree(g.cur, m, fl) \in [Node -> Entry]
  BY <1>0, <1>01, <1>2, OpenOk
<1>4. d \in Fd /\ DescType' /\ DescsStay
  BY <1>01, <1>1, <1>3, Describes
<1>5. NewFd \in Fd /\ NewFd # None /\ NewFd \notin Mine(e)
  BY <1>3, NewIsApart
<1>6. Tail(g.rest) \in Seq(Comp) /\ (g.par => Tail(g.rest) # <<>>)
  BY <1>2, TailLeft
<1>7. /\ x \in Frame /\ x.own /\ x.cur = NewFd /\ x.par = g.par /\ x.bud = g.bud
      /\ x.rest = Tail(g.rest)
  BY <1>0, <1>5, <1>6 DEF Frame
<1>8. x.cur \notin Walked(w)
  BY <1>5, <1>7 DEF Mine
<1> HIDE DEF x, d
<1>9. /\ a \in Seq(Frame) /\ Len(a) = n /\ a[n] = x
      /\ \A i \in 1 .. n - 1 : a[i] = w[i]
      /\ WalkApart(a) /\ Walked(a) = (Walked(w) \ S) \cup {NewFd}
  BY <1>0, <1>01, <1>7, <1>8, WalkMoves
<1> HIDE DEF a
<1>10. c \in CallRec
  BY <1>01, <1>9 DEF CallRec
<1>11. /\ c.pc = "walk" /\ c.base = e.base /\ c.fd = e.fd /\ c.fd = None
       /\ c.walk = a /\ c.got = e.got /\ c.hop = e.hop
  BY <1>0, <1>01 DEF CallRec, Based
<1> HIDE DEF c
<1>12. FramesOK(c, r)
  BY <1>0, <1>01, <1>6, <1>7, <1>9, <1>11, FramesMove
<1>13. a # <<>>
  <2>1. Len(a) # 0
    BY <1>0, <1>9
  <2> QED BY <2>1
<1>14. StageOK(c, todo[t])
  BY <1>01, <1>11, <1>12, <1>13 DEF StageOK, Phase, Based, Found
<1>15. S \subseteq Walked(w)
  BY <1>0
<1>16. /\ Bases(e.base) \cap Walked(w) = {} /\ Bases(e.base) \cap Gotten(e.got) = {}
       /\ Walked(w) \cap Gotten(e.got) = {} /\ BasesApart(e.base) /\ GotApart(e.got)
       /\ NewFd \notin Bases(e.base) \cup Gotten(e.got)
       /\ None \notin Bases(e.base) \cup Walked(a) \cup Gotten(e.got)
  <2>1. /\ Bases(e.base) \cap Walked(w) = {} /\ Bases(e.base) \cap Gotten(e.got) = {}
        /\ Walked(w) \cap Gotten(e.got) = {} /\ BasesApart(e.base) /\ GotApart(e.got)
        /\ e.fd \notin Bases(e.base) \cup Walked(w) \cup Gotten(e.got)
    BY <1>01 DEF Apart
  <2>2. e.fd = None
    BY <1>11
  <2>3. NewFd \notin Bases(e.base) \cup Gotten(e.got)
    BY <1>5 DEF Mine
  <2> QED BY <1>5, <1>9, <2>1, <2>2, <2>3
<1> HIDE DEF S
<1>17. Apart(c) /\ Mine(c) = (Mine(e) \ S) \cup {NewFd} /\ S \subseteq Mine(e)
  <2>1. Apart(c)
    BY <1>9, <1>11, <1>15, <1>16 DEF Apart
  <2>2. Mine(e) = Bases(e.base) \cup Walked(w) \cup Gotten(e.got)
    BY <1>11 DEF Mine
  <2>3. Mine(c) = Bases(e.base) \cup Walked(a) \cup Gotten(e.got)
    BY <1>11 DEF Mine
  <2> QED BY <1>9, <1>15, <1>16, <2>1, <2>2, <2>3
<1>18. CallOK(c, todo[t])
  BY <1>01, <1>10, <1>11, <1>14, <1>17 DEF CallOK
<1>19. TreeType' /\ (moved \in BOOLEAN)'
  BY <1>01, <1>1, <1>3 DEF TreeType
<1> QED BY <1>1, <1>3, <1>4, <1>17, <1>18, <1>19, OpenWent

LEMMA ReopenWent ==
  ASSUME Inv, NEW t \in Thread, Stepping(t), NEW m, NEW dd \in Nat, Reopen(t, m, dd)
  PROVE  Went(t)
<1>0. ~At(t, "idle")
  BY DEF Stepping, At
<1> DEFINE er == OpenErr(Frm(t).cur, m, DirFlags)
<1>1. CASE er = "ok"
  <2>1. Advance(t, m, DirFlags, dd)
    BY <1>1 DEF Reopen
  <2> QED BY <1>1, <2>1, AdvanceWent
<1>2. CASE er # "ok"
  <2>1. Fail(t, er)
    BY <1>2 DEF Reopen
  <2> QED BY <1>0, <2>1, FailWent
<1> QED BY <1>1, <1>2

\* A call goes on to read a link, or comes from there.
LEMMA StepNameWent ==
  ASSUME Inv, NEW t \in Thread, StepName(t)
  PROVE  Went(t)
<1> DEFINE m == Component(t)
           er == OpenErr(Frm(t).cur, m, Flags(t))
           e == call[t]
           r == Req(t)
           n == Depth(t)
<1>0. /\ Stepping(t) /\ ~At(t, "idle") /\ e.pc = "walk"
      /\ \/ er = "ok" /\ Advance(t, m, Flags(t), Frm(t).d + 1)
         \/ \E y : Fail(t, y)
         \/ /\ call' = [call EXCEPT ![t].pc = "link", ![t].err = er]
            /\ er \in {"eloop", "enotdir", "enxio"} /\ MayFollow(t) /\ er # "ok"
            /\ UNCHANGED <<kvars, todo, last>>
  <2>1. Stepping(t) /\ ~At(t, "idle") /\ e.pc = "walk"
    BY DEF StepName, Stepping, At
  <2>2. CASE er = "ok"
    BY <2>1, <2>2 DEF StepName
  <2>3. CASE er \notin {"ok", "eloop", "enotdir", "enxio"}
    BY <2>1, <2>3 DEF StepName
  <2>4. CASE er \in {"eloop", "enotdir", "enxio"} /\ ~MayFollow(t)
    BY <2>1, <2>4 DEF StepName
  <2>5. CASE er \in {"eloop", "enotdir", "enxio"} /\ MayFollow(t)
    BY <2>1, <2>5 DEF StepName
  <2> QED BY <2>2, <2>3, <2>4, <2>5
<1>1. CASE er = "ok" /\ Advance(t, m, Flags(t), Frm(t).d + 1)
  <2>1. Frm(t).d + 1 \in Nat
    BY <1>0, WalkHas DEF Stepping, Frame
  <2> QED BY <1>0, <1>1, <2>1, AdvanceWent
<1>2. CASE \E y : Fail(t, y)
  BY <1>0, <1>2, FailWent
<1>3. CASE /\ call' = [call EXCEPT ![t].pc = "link", ![t].err = er]
           /\ er \in {"eloop", "enotdir", "enxio"} /\ MayFollow(t)
           /\ UNCHANGED <<kvars, todo, last>>
  <2> DEFINE c == [e EXCEPT !.pc = "link", !.err = er]
  <2>1. /\ Walking0(t) /\ n \in Nat /\ n >= 1 /\ Len(e.walk) = n
        /\ Frm(t) = e.walk[n] /\ Frm(t) \in Frame
    BY <1>0, WalkHas DEF Stepping, Depth
  <2>2. /\ r \in Request /\ ~BadArgs(r) /\ todo[t] # <<>> /\ r = Head(todo[t])
        /\ e \in CallRec /\ Based(e, r) /\ Found(e, r) /\ FramesOK(e, r)
        /\ e.walk # <<>>
    BY <2>1 DEF Walking0
  <2>3. /\ call' = [call EXCEPT ![t] = c] /\ er \in {"ok", "eloop", "enotdir", "enxio"}
        /\ UNCHANGED <<kvars, todo, last>>
    BY <1>3
  <2> HIDE DEF er
  <2>4. c \in CallRec
    BY <2>2, <2>3 DEF CallRec, Pcs
  <2>5. /\ c.pc = "link" /\ c.base = e.base /\ c.walk = e.walk /\ c.got = e.got
        /\ c.fd = e.fd /\ c.hop = e.hop
    BY <2>2 DEF CallRec
  <2>6. /\ Frm(t).rest # <<>> /\ Frm(t).rest \in Seq(Comp) /\ Frm(t).bud > 0
        /\ Frm(t).par => Len(Frm(t).rest) # 1
    BY <1>0, <1>3, <2>1 DEF Stepping, MayFollow, IsLast, Frame
  <2>7. Frm(t).par => Tail(Frm(t).rest) # <<>>
    BY <2>6, TailLeft
  <2> HIDE DEF c
  <2>8. FramesOK(c, r)
    <3>1. \A i \in 1 .. n : i < n \/ i = n
      BY <2>1
    <3>2. \A i \in 1 .. n :
             e.walk[i].rest # <<>> /\ (e.walk[i].par => Tail(e.walk[i].rest) # <<>>)
      BY <2>1, <2>2, <2>6, <2>7, <3>1 DEF FramesOK
    <3> QED BY <2>1, <2>2, <2>5, <3>2 DEF FramesOK
  <2>9. c.walk[Len(c.walk)].bud > 0
    BY <2>1, <2>5, <2>6
  <2>10. StageOK(c, todo[t])
    BY <2>2, <2>5, <2>8, <2>9 DEF StageOK, Phase, Based, Found
  <2> QED BY <2>3, <2>4, <2>5, <2>10, GoesOn DEF c
<1> QED BY <1>0, <1>1, <1>2, <1>3

LEMMA StepLinkWent ==
  ASSUME Inv, NEW t \in Thread, StepLink(t)
  PROVE  Went(t)
<1> DEFINE text == LinkText(Frm(t).cur, Component(t))
           e == call[t]
           r == Req(t)
           n == Depth(t)
           x == LinkFrame(t, text)
           w == Append(e.walk, x)
           c == [e EXCEPT !.pc = "walk", !.walk = w]
<1>0. /\ At(t, "link") /\ ~At(t, "idle") /\ e.pc = "link"
      /\ \/ \E y : Fail(t, y)
         \/ /\ call' = [call EXCEPT ![t] = c] /\ text # <<>>
            /\ UNCHANGED <<kvars, todo, last>>
  <2>1. At(t, "link") /\ ~At(t, "idle") /\ e.pc = "link"
    BY DEF StepLink, At
  <2>2. CASE text = <<>>
    BY <2>1, <2>2 DEF StepLink
  <2>3. CASE text # <<>> /\ PathErr(text) # "ok"
    BY <2>1, <2>3 DEF StepLink
  <2>4. CASE text # <<>> /\ PathErr(text) = "ok"
    BY <2>1, <2>4 DEF StepLink
  <2> QED BY <2>2, <2>3, <2>4
<1>1. CASE \E y : Fail(t, y)
  BY <1>0, <1>1, FailWent
<1>2. CASE /\ call' = [call EXCEPT ![t] = c] /\ text # <<>>
           /\ UNCHANGED <<kvars, todo, last>>
  <2>1. /\ Walking0(t) /\ n \in Nat /\ n >= 1 /\ Len(e.walk) = n
        /\ Frm(t) = e.walk[n] /\ Frm(t) \in Frame
    BY <1>0, WalkHas DEF Depth
  <2>2. /\ r \in Request /\ ~BadArgs(r) /\ todo[t] # <<>> /\ r = Head(todo[t])
        /\ e \in CallRec /\ Based(e, r) /\ Found(e, r) /\ FramesOK(e, r)
        /\ e.walk \in Seq(Frame) /\ WalkApart(e.walk) /\ Apart(e) /\ Len(e.base) <= 2
        /\ CallsOK /\ FdsType /\ DescType /\ TreeType
    BY <2>1 DEF Walking0
  <2>3. Frm(t).bud > 0 /\ Frm(t).bud = MaxLinks + 1 - n /\ Frm(t).bud \in 0 .. MaxLinks
    <3>1. Phase(e, r)
      BY <1>0, ReqType, TypesHave DEF Inv
    <3>2. e.walk[n].bud > 0
      BY <1>0, <2>1, <3>1 DEF Phase
    <3>3. n \in 1 .. Len(e.walk)
      BY <2>1
    <3> QED BY <2>1, <2>2, <3>2, <3>3 DEF FramesOK, Frame
  <2>4. text \in Seq(Comp)
    <3>1. Frm(t).cur \in Fd
      BY <2>1 DEF Frame
    <3> QED BY <2>2, <3>1, LinkTextType
  <2> HIDE DEF text
  <2>5. /\ x \in Frame /\ ~x.own /\ ~x.par /\ x.rest = text /\ x.bud = MaxLinks - n
    <3>1. Flags(t) \in SUBSET OpenFlags
      BY <2>1 DEF Flags, DirFlags, OpenFlags, Frame
    <3>2. Budget(t) \in 0 .. MaxLinks /\ Budget(t) = MaxLinks - n
      BY <2>1, <2>3, HandleAssumption DEF Budget
    <3>3. Frm(t).cur \in Fd /\ Frm(t).d \in Nat
      BY <2>1 DEF Frame
    <3> QED BY <2>4, <3>1, <3>2, <3>3 DEF LinkFrame, Frame
  <2> HIDE DEF x
  <2>6. /\ w \in Seq(Frame) /\ Len(w) = n + 1 /\ w[n + 1] = x
        /\ \A i \in 1 .. n : w[i] = e.walk[i]
        /\ WalkApart(w) /\ Walked(w) = Walked(e.walk)
    BY <2>1, <2>2, <2>5, WalkLinks
  <2> HIDE DEF w
  <2>7. c \in CallRec
    BY <2>2, <2>6 DEF CallRec, Pcs
  <2>8. /\ c.pc = "walk" /\ c.base = e.base /\ c.walk = w /\ c.got = e.got
        /\ c.fd = e.fd /\ c.hop = e.hop
    BY <2>2 DEF CallRec
  <2>9. call' = [call EXCEPT ![t] = c] /\ UNCHANGED <<kvars, todo, last>>
    BY <1>2
  <2> HIDE DEF c
  <2>10. FramesOK(c, r)
    <3>1. \A i \in 1 .. n + 1 : (i \in 1 .. n /\ i <= n) \/ i = n + 1
      BY <2>1
    <3>2. /\ x.own \/ x.rest # <<>>
          /\ x.par <=> n + 1 = 1 /\ r.op # "open_at"
          /\ x.par => x.rest # <<>>
          /\ x.bud = MaxLinks + 1 - (n + 1)
      BY <1>2, <2>1, <2>5, HandleAssumption DEF text
    <3>3. \A i \in 1 .. n :
            /\ e.walk[i].own \/ e.walk[i].rest # <<>>
            /\ e.walk[i].par <=> i = 1 /\ r.op # "open_at"
            /\ e.walk[i].par => e.walk[i].rest # <<>>
            /\ e.walk[i].bud = MaxLinks + 1 - i
            /\ e.walk[i].rest # <<>> /\ (e.walk[i].par => Tail(e.walk[i].rest) # <<>>)
      BY <1>0, <2>1, <2>2 DEF FramesOK
    <3>4. \A i \in 1 .. Len(c.walk) :
            /\ c.walk[i].own \/ c.walk[i].rest # <<>>
            /\ c.walk[i].par <=> i = 1 /\ r.op # "open_at"
            /\ c.walk[i].par => c.walk[i].rest # <<>>
            /\ c.walk[i].bud = MaxLinks + 1 - i
      <4> SUFFICES ASSUME NEW i \in 1 .. n + 1
                   PROVE  /\ w[i].own \/ w[i].rest # <<>>
                          /\ w[i].par <=> i = 1 /\ r.op # "open_at"
                          /\ w[i].par => w[i].rest # <<>>
                          /\ w[i].bud = MaxLinks + 1 - i
        BY <2>6, <2>8
      <4>1. CASE i \in 1 .. n
        BY <2>6, <3>3, <4>1
      <4>2. CASE i = n + 1
        BY <2>6, <3>2, <4>2
      <4> QED BY <3>1, <4>1, <4>2
    <3>5. \A i \in 1 .. Len(c.walk) : i < Len(c.walk) =>
            c.walk[i].rest # <<>> /\ (c.walk[i].par => Tail(c.walk[i].rest) # <<>>)
      <4>1. \A i \in 1 .. n + 1 : i < n + 1 => i \in 1 .. n
        BY <2>1
      <4> QED BY <2>6, <2>8, <3>3, <4>1
    <3> QED BY <2>8, <3>4, <3>5 DEF FramesOK
  <2>11. c.walk # <<>>
    <3>1. Len(w) # 0
      BY <2>1, <2>6
    <3> QED BY <2>8, <3>1
  <2>12. StageOK(c, todo[t])
    BY <2>2, <2>8, <2>10, <2>11 DEF StageOK, Phase, Based, Found
  <2>13. Mine(c) = Mine(e) /\ Apart(c)
    BY <2>2, <2>6, <2>8 DEF Mine, Apart
  <2>14. CallOK(c, todo[t])
    BY <2>2, <2>7, <2>8, <2>12, <2>13 DEF CallOK
  <2>15. CallsOK' /\ call'[t] = c /\ OthersStay(t)
    BY <2>2, <2>9, <2>14, Goes
  <2> QED BY <2>9, <2>13, <2>15, StillWent
<1> QED BY <1>0, <1>1, <1>2

LEMMA StepDotUpWent ==
  ASSUME Inv, NEW t \in Thread, StepDot(t) \/ StepUp(t)
  PROVE  Went(t)
<1>0. /\ Stepping(t) /\ ~At(t, "idle")
      /\ \/ Reopen(t, ".", Frm(t).d)
         \/ Fail(t, "enotcapable")
         \/ ~AtTop(t) /\ Reopen(t, "..", Frm(t).d - 1)
  BY DEF StepDot, StepUp, Stepping, At
<1>1. Frm(t).d \in Nat /\ (~AtTop(t) => Frm(t).d - 1 \in Nat)
  BY <1>0, WalkHas DEF Stepping, Frame, AtTop
<1> QED BY <1>0, <1>1, ReopenWent, FailWent

LEMMA StepBackWent ==
  ASSUME Inv, NEW t \in Thread, StepBack(t)
  PROVE  Went(t)
<1> DEFINE e == call[t]
           r == Req(t)
           k == Depth(t) - 1
           g == e.walk[k]
           f == e.walk[k + 1]
           x == Resumed(g, f)
           w == Back(e.walk, k, x)
           c == [e EXCEPT !.walk = w]
           S == IF g.own THEN {g.cur} ELSE {}
<1>0. /\ At(t, "walk") /\ ~At(t, "idle") /\ e.pc = "walk" /\ Walking0(t)
      /\ k \in Nat /\ k > 0 /\ Len(e.walk) = k + 1 /\ f = Frm(t) /\ f.rest = <<>>
      /\ k \in 1 .. Len(e.walk) /\ k + 1 \in 1 .. Len(e.walk) /\ k < Len(e.walk)
  <2>1. At(t, "walk") /\ ~At(t, "idle") /\ e.pc = "walk" /\ Frm(t).rest = <<>> /\ k > 0
    BY DEF StepBack, At
  <2>2. /\ Walking0(t) /\ Depth(t) \in Nat /\ Depth(t) >= 1 /\ Len(e.walk) = Depth(t)
        /\ Frm(t) = e.walk[Depth(t)]
    BY <2>1, WalkHas DEF Depth
  <2>3. k + 1 = Depth(t)
    BY <2>2
  <2> QED BY <2>1, <2>2, <2>3
<1>1. /\ r \in Request /\ ~BadArgs(r) /\ todo[t] # <<>> /\ r = Head(todo[t])
      /\ e \in CallRec /\ Based(e, r) /\ Found(e, r) /\ FramesOK(e, r)
      /\ e.walk \in Seq(Frame) /\ WalkApart(e.walk) /\ Apart(e) /\ Len(e.base) <= 2
      /\ CallsOK /\ FdsType /\ DescType /\ TreeType
  BY <1>0 DEF Walking0
<1>2. /\ call' = [call EXCEPT ![t] = c] /\ fds' = Shut(fds, S)
      /\ UNCHANGED <<descs, tree, moved, todo, last>>
  BY <1>0 DEF StepBack, Back
<1> HIDE DEF k
<1>3. /\ f.own /\ g.rest # <<>> /\ (g.par => Tail(g.rest) # <<>>)
      /\ g \in Frame /\ f \in Frame
  <2>1. f.own
    BY <1>0, <1>1 DEF FramesOK
  <2>2. g.rest # <<>> /\ (g.par => Tail(g.rest) # <<>>)
    BY <1>0, <1>1 DEF FramesOK
  <2>3. g \in Frame /\ f \in Frame
    BY <1>0, <1>1
  <2> QED BY <2>1, <2>2, <2>3
<1>4. /\ x \in Frame /\ x.own /\ x.cur = f.cur /\ x.par = g.par /\ x.bud = g.bud
      /\ x.rest = Tail(g.rest)
  <2>1. g.rest \in Seq(Comp) /\ f.d \in Nat /\ f.cur \in Fd
    BY <1>3 DEF Frame
  <2>2. Tail(g.rest) \in Seq(Comp)
    BY <1>3, <2>1, TailLeft
  <2> QED BY <1>3, <2>1, <2>2 DEF Resumed, Frame
<1> HIDE DEF x
<1>5. /\ w \in Seq(Frame) /\ Len(w) = k /\ w[k] = x
      /\ \A i \in 1 .. k - 1 : w[i] = e.walk[i]
      /\ WalkApart(w) /\ Walked(w) = Walked(e.walk) \ S
  <2>1. /\ e.walk \in Seq(Frame) /\ x \in Frame /\ x.own /\ WalkApart(e.walk)
        /\ k \in Nat /\ k > 0 /\ Len(e.walk) = k + 1 /\ e.walk[k + 1].own
        /\ x.cur = e.walk[k + 1].cur
    BY <1>0, <1>1, <1>3, <1>4
  <2> DEFINE v == e.walk
             a == Back(v, k, x)
             T == IF v[k].own THEN {v[k].cur} ELSE {}
  <2>2. /\ v \in Seq(Frame) /\ WalkApart(v) /\ Len(v) = k + 1 /\ v[k + 1].own
        /\ x.cur = v[k + 1].cur
    BY <2>1
  <2> HIDE DEF v
  <2>3. /\ a \in Seq(Frame) /\ Len(a) = k /\ a[k] = x
        /\ \A i \in 1 .. k - 1 : a[i] = v[i]
        /\ WalkApart(a) /\ Walked(a) = Walked(v) \ T
    BY <2>1, <2>2, WalkReturns
  <2> QED BY <2>3 DEF v
<1> HIDE DEF w
<1>6. c \in CallRec
  BY <1>1, <1>5 DEF CallRec
<1>7. /\ c.pc = "walk" /\ c.base = e.base /\ c.fd = e.fd /\ c.fd = None
      /\ c.walk = w /\ c.got = e.got /\ c.hop = e.hop
  BY <1>0, <1>1 DEF CallRec, Based
<1> HIDE DEF c
<1>8. FramesOK(c, r)
  <2>0. /\ \A i \in 1 .. k : i = k \/ i \in 1 .. k - 1
        /\ \A i \in 1 .. k : i \in 1 .. k + 1 /\ i < k + 1
        /\ \A i \in 1 .. k : i < k => i \in 1 .. k - 1
    BY <1>0
  <2>1. \A i \in 1 .. k :
            /\ e.walk[i].own \/ e.walk[i].rest # <<>>
            /\ e.walk[i].par <=> i = 1 /\ r.op # "open_at"
            /\ e.walk[i].par => e.walk[i].rest # <<>>
            /\ e.walk[i].bud = MaxLinks + 1 - i
            /\ e.walk[i].rest # <<>> /\ (e.walk[i].par => Tail(e.walk[i].rest) # <<>>)
    BY <1>0, <1>1, <2>0 DEF FramesOK
  <2>2. \A i \in 1 .. k :
            /\ w[i].own \/ w[i].rest # <<>>
            /\ w[i].par <=> i = 1 /\ r.op # "open_at"
            /\ w[i].par => w[i].rest # <<>>
            /\ w[i].bud = MaxLinks + 1 - i
    <3> SUFFICES ASSUME NEW i \in 1 .. k
                 PROVE  /\ w[i].own \/ w[i].rest # <<>>
                        /\ w[i].par <=> i = 1 /\ r.op # "open_at"
                        /\ w[i].par => w[i].rest # <<>>
                        /\ w[i].bud = MaxLinks + 1 - i
      OBVIOUS
    <3>1. CASE i = k
      BY <1>3, <1>4, <1>5, <2>1, <3>1
    <3>2. CASE i \in 1 .. k - 1
      BY <1>5, <2>1, <3>2
    <3> QED BY <2>0, <3>1, <3>2
  <2>3. \A i \in 1 .. k : i < k =>
            w[i].rest # <<>> /\ (w[i].par => Tail(w[i].rest) # <<>>)
    BY <1>5, <2>0, <2>1
  <2> QED BY <1>5, <1>7, <2>2, <2>3 DEF FramesOK
<1>9. w # <<>>
  <2>1. Len(w) # 0
    BY <1>0, <1>5
  <2> QED BY <2>1
<1>10. StageOK(c, todo[t])
  BY <1>1, <1>7, <1>8, <1>9 DEF StageOK, Phase, Based, Found
<1>11. S \subseteq Walked(e.walk)
  BY <1>0 DEF Walked
<1> HIDE DEF S
<1>12. /\ Bases(e.base) \cap Walked(e.walk) = {} /\ Bases(e.base) \cap Gotten(e.got) = {}
       /\ Walked(e.walk) \cap Gotten(e.got) = {} /\ BasesApart(e.base) /\ GotApart(e.got)
       /\ None \notin Bases(e.base) \cup Walked(e.walk) \cup Gotten(e.got)
  BY <1>1, <1>7 DEF Apart
<1>13. Apart(c) /\ Mine(c) = Mine(e) \ S /\ S \subseteq Mine(e)
  <2>1. Apart(c)
    BY <1>5, <1>7, <1>12 DEF Apart
  <2>2. Mine(e) = Bases(e.base) \cup Walked(e.walk) \cup Gotten(e.got)
    BY <1>7 DEF Mine
  <2>3. Mine(c) = Bases(e.base) \cup Walked(w) \cup Gotten(e.got)
    BY <1>7 DEF Mine
  <2> QED BY <1>5, <1>11, <1>12, <2>1, <2>2, <2>3
<1>14. CallOK(c, todo[t])
  BY <1>1, <1>6, <1>7, <1>10, <1>13 DEF CallOK
<1> QED BY <1>2, <1>13, <1>14, ShutWent

\* A sequence of one frame.
LEMMA WalkOne ==
  ASSUME NEW w \in Seq(Frame), Len(w) = 1
  PROVE  /\ Walked(w) = IF w[1].own THEN {w[1].cur} ELSE {}
         /\ w[1] \in Frame
<1>1. 1 .. Len(w) = {1} /\ w[1] \in Frame
  <2>1. 1 .. 1 = {1} /\ 1 \in 1 .. 1
    OBVIOUS
  <2> QED BY <2>1
<1> QED BY <1>1 DEF Walked

LEMMA BasesOne ==
  ASSUME NEW b \in Seq(Fd), Len(b) = 1
  PROVE  Bases(b) = {b[1]} /\ b[1] \in Fd
<1>1. 1 .. Len(b) = {1} /\ b[1] \in Fd
  <2>1. 1 .. 1 = {1} /\ 1 \in 1 .. 1
    OBVIOUS
  <2> QED BY <2>1
<1> QED BY <1>1 DEF Bases

LEMMA OpenDoneWent ==
  ASSUME Inv, NEW t \in Thread, OpenDone(t)
  PROVE  Went(t)
<1> DEFINE e == call[t]
           r == Req(t)
           g == Frm(t)
           c == [Idle EXCEPT !.pc = "made", !.fd = g.cur]
           S == {e.base[1]}
<1>0. /\ At(t, "walk") /\ ~At(t, "idle") /\ e.pc = "walk" /\ Walking0(t)
      /\ Len(e.walk) = 1 /\ g = e.walk[1] /\ g.rest = <<>> /\ 1 \in 1 .. Len(e.walk)
      /\ call' = [call EXCEPT ![t] = c] /\ fds' = Shut(fds, S)
      /\ UNCHANGED <<descs, tree, moved, todo, last>>
  <2>1. /\ At(t, "walk") /\ ~At(t, "idle") /\ e.pc = "walk" /\ g.rest = <<>>
        /\ Depth(t) = 1
        /\ call' = [call EXCEPT ![t] = c] /\ fds' = Shut(fds, S)
        /\ UNCHANGED <<descs, tree, moved, todo, last>>
    BY DEF OpenDone, At
  <2>2. Walking0(t) /\ Len(e.walk) = 1 /\ Frm(t) = e.walk[1] /\ 1 \in 1 .. Len(e.walk)
    BY <2>1, WalkHas DEF Depth
  <2> QED BY <2>1, <2>2
<1>1. /\ r \in Request /\ ~BadArgs(r) /\ todo[t] # <<>> /\ r = Head(todo[t])
      /\ e \in CallRec /\ Based(e, r) /\ Found(e, r) /\ FramesOK(e, r)
      /\ e.walk \in Seq(Frame) /\ Apart(e) /\ Len(e.base) <= 2 /\ CallsOK
  BY <1>0 DEF Walking0
<1>2. g.own /\ ~g.par
  BY <1>0, <1>1 DEF FramesOK
<1>3. r.op = "open_at"
  BY <1>0, <1>1, <1>2 DEF FramesOK
<1>4. Len(e.base) = 1 /\ e.fd = None /\ e.got = <<>> /\ e.base \in Seq(Fd)
  BY <1>1, <1>3 DEF Based, Found, PairOps, Follow, CallRec
<1>5. Bases(e.base) = S /\ Walked(e.walk) = {g.cur} /\ g \in Frame /\ Gotten(e.got) = {}
  <2>1. Gotten(<<>>) = {}
    BY DEF Gotten
  <2> QED BY <1>0, <1>1, <1>2, <1>4, <2>1, WalkOne, BasesOne
<1>6. g.cur \in Fd /\ g.cur # None
  BY <1>5, KernelAssumption DEF Frame
<1>7. Mine(e) = S \cup {g.cur} /\ g.cur \notin S
  BY <1>1, <1>4, <1>5 DEF Mine, Apart
<1>8. /\ c.pc = "made" /\ c.fd = g.cur /\ c.base = <<>> /\ c.walk = <<>> /\ c.got = <<>>
      /\ c \in CallRec
  BY <1>6, IdleOK DEF CallRec, Idle, Pcs
<1> HIDE DEF c
<1>9. /\ Bases(<<>>) = {} /\ Walked(<<>>) = {} /\ Gotten(<<>>) = {}
      /\ BasesApart(<<>>) /\ WalkApart(<<>>) /\ GotApart(<<>>) /\ Len(<<>>) <= 2
  BY DEF Bases, Walked, Gotten, BasesApart, WalkApart, GotApart
<1>10. Mine(c) = {g.cur} /\ Apart(c)
  BY <1>6, <1>8, <1>9 DEF Mine, Apart
<1>11. StageOK(c, todo[t])
  BY <1>1, <1>3, <1>6, <1>8 DEF StageOK, Phase, OpenOps
<1>12. CallOK(c, todo[t])
  BY <1>8, <1>9, <1>10, <1>11 DEF CallOK
<1>13. Mine(c) = Mine(e) \ S /\ S \subseteq Mine(e)
  BY <1>7, <1>10
<1> HIDE DEF S
<1> QED BY <1>0, <1>12, <1>13, ShutWent

LEMMA GotOne ==
  ASSUME NEW x \in Parents
  PROVE  /\ <<x>> \in Seq(Parents) /\ Len(<<x>>) = 1 /\ <<x>>[1] = x
         /\ Gotten(<<x>>) = (IF x.own THEN {x.fd} ELSE {}) /\ GotApart(<<x>>)
         /\ Gotten(<<>>) = {} /\ GotApart(<<>>)
<1>1. <<x>> \in Seq(Parents) /\ Len(<<x>>) = 1 /\ <<x>>[1] = x
  OBVIOUS
<1> DEFINE g == <<x>>
<1>2. g \in Seq(Parents) /\ Len(g) = 1 /\ g[1] = x
  BY <1>1
<1> HIDE DEF g
<1>3. 1 .. Len(g) = {1}
  <2>1. 1 .. 1 = {1}
    OBVIOUS
  <2> QED BY <1>2, <2>1
<1>4. Gotten(g) = (IF x.own THEN {x.fd} ELSE {}) /\ GotApart(g)
  BY <1>2, <1>3 DEF Gotten, GotApart
<1>5. Gotten(<<>>) = {} /\ GotApart(<<>>)
  BY DEF Gotten, GotApart
<1> QED BY <1>1, <1>4, <1>5 DEF g
-----------------------------------------------------------------------------
(* The ends of walks to a parent, and the calls on names                   *)

LEMMA ParentDoneWent ==
  ASSUME Inv, NEW t \in Thread, ParentDone(t)
  PROVE  Went(t)
<1> DEFINE e == call[t]
           r == Req(t)
           f == Frm(t)
           p == Parent(t)
           old == IF e.hop > 0 /\ e.got[1].own THEN {e.got[1].fd} ELSE {}
           got == IF r.op \in Follow THEN <<p>> ELSE Append(e.got, p)
           path == IF r.op \in PairOps THEN r.path2 ELSE e.path
           pc == CASE r.op \in Follow -> "final"
                   [] r.op \in PairOps /\ e.got = <<>> -> "enter"
                   [] OTHER -> "act"
           c == [e EXCEPT !.walk = <<>>, !.got = got, !.path = path, !.pc = pc]
<1>0. /\ At(t, "walk") /\ ~At(t, "idle") /\ e.pc = "walk" /\ f.par
  BY DEF ParentDone, At
<1>1. CASE Component(t) = ".."
  BY <1>0, <1>1, FailWent DEF ParentDone
<1>2. CASE Component(t) # ".."
  <2>1. /\ call' = [call EXCEPT ![t] = c] /\ fds' = Shut(fds, old)
        /\ UNCHANGED <<descs, tree, moved, todo, last>> /\ Len(f.rest) = 1
    BY <1>2 DEF ParentDone, IsLast
  <2>2. /\ Walking0(t) /\ Depth(t) \in 1 .. Len(e.walk) /\ f = e.walk[Depth(t)]
        /\ f \in Frame
    BY <1>0, WalkHas
  <2>3. /\ r \in Request /\ ~BadArgs(r) /\ todo[t] # <<>> /\ r = Head(todo[t])
        /\ e \in CallRec /\ Based(e, r) /\ Found(e, r) /\ FramesOK(e, r)
        /\ e.walk \in Seq(Frame) /\ Apart(e) /\ Len(e.base) <= 2 /\ CallsOK
    BY <2>2 DEF Walking0
  <2>4. Depth(t) = 1 /\ r.op # "open_at"
    BY <1>0, <2>2, <2>3 DEF FramesOK
  <2>5. Len(e.walk) = 1 /\ f = e.walk[1]
    BY <2>2, <2>4 DEF Depth
  <2>6. Walked(e.walk) = IF f.own THEN {f.cur} ELSE {}
    BY <2>3, <2>5, WalkOne
  <2>7. p \in Parents /\ p.own = f.own /\ p.fd = f.cur
    <3>0. f.rest # <<>>
      BY <1>0, <2>2, <2>3 DEF FramesOK
    <3>1. f.rest \in Seq(Comp) /\ f.rest # <<>> /\ f.cur \in Fd /\ f.own \in BOOLEAN
      BY <2>2, <3>0 DEF Frame
    <3>2. Component(t) \in Comp
      BY <3>1, TailLeft DEF Component
    <3> QED BY <3>1, <3>2 DEF Parent, Parents
  <2> HIDE DEF p
  <2>8. e.got \in Seq(Parents) /\ e.fd = None /\ e.hop \in Nat
    BY <2>3, HandleAssumption DEF CallRec, Based
  <2>9. /\ path \in Seq(Comp)
        /\ pc \in {"final", "enter", "act"}
    BY <2>3, RequestAssumption DEF CallRec
  \* The parents that it has then.
  <2>10. /\ got \in Seq(Parents) /\ GotApart(got)
         /\ old \subseteq Gotten(e.got)
         /\ Gotten(got) = (Gotten(e.got) \ old) \cup Walked(e.walk)
         /\ pc = "final" => Len(got) = 1 /\ r.op \in Follow
         /\ pc = "enter" => Len(got) = 1 /\ r.op \in PairOps /\ e.hop = 0
         /\ pc = "act" => Len(got) = IF r.op \in PairOps THEN 2 ELSE 1
    <3>1. CASE r.op \in Follow
      <4>0. r.op \notin PairOps
        BY <3>1 DEF Follow, PairOps
      <4>1. got = <<p>> /\ pc = "final"
        BY <3>1, <4>0
      <4>2. /\ got \in Seq(Parents) /\ GotApart(got) /\ Len(got) = 1
            /\ Gotten(got) = Walked(e.walk)
        BY <2>6, <2>7, <4>1, GotOne
      <4>3. old = Gotten(e.got)
        <5>1. CASE e.got = <<>> /\ e.hop = 0
          <6>1. ~(e.hop > 0)
            BY <5>1
          <6>2. old = {}
            BY <6>1
          <6> HIDE DEF old
          <6> QED BY <2>7, <5>1, <6>2, GotOne
        <5>2. CASE Len(e.got) = 1 /\ e.hop > 0
          <6>1. 1 .. Len(e.got) = {1}
            <7>1. 1 .. 1 = {1}
              OBVIOUS
            <7> QED BY <5>2, <7>1
          <6> QED BY <5>2, <6>1 DEF Gotten
        <5> QED BY <2>3, <3>1, <5>1, <5>2 DEF Found, PairOps, Follow
      <4> HIDE DEF got, old, pc
      <4> QED BY <3>1, <4>1, <4>2, <4>3
    <3>2. CASE r.op \notin Follow
      <4>1. got = Append(e.got, p) /\ old = {} /\ e.hop = 0
            /\ (e.got = <<>> \/ (r.op \in PairOps /\ Len(e.got) = 1))
        BY <2>3, <2>8, <3>2 DEF Found
      <4>2. p.own => p.fd \notin Gotten(e.got)
        <5>1. Walked(e.walk) \cap Gotten(e.got) = {}
          BY <2>3 DEF Apart
        <5> QED BY <2>6, <2>7, <5>1
      <4>3. GotApart(e.got)
        BY <2>3 DEF Apart
      <4> DEFINE v == e.got
                 b == Append(v, p)
      <4>4. /\ b \in Seq(Parents) /\ Len(b) = Len(v) + 1
            /\ Gotten(b) = Gotten(v) \cup (IF p.own THEN {p.fd} ELSE {}) /\ GotApart(b)
        BY <2>7, <2>8, <4>2, <4>3, GottenGrow
      <4>5. /\ pc = IF r.op \in PairOps /\ v = <<>> THEN "enter" ELSE "act"
            /\ v = <<>> => Len(v) = 0
            /\ Len(v) = 1 => v # <<>>
        BY <3>2
      <4>6. got = b
        BY <4>1
      <4> HIDE DEF got, old, pc, b, v
      <4>7. Gotten(got) = (Gotten(v) \ old) \cup Walked(e.walk) /\ old \subseteq Gotten(v)
        BY <2>6, <2>7, <4>1, <4>4, <4>6
      <4>8. v = <<>> => Len(b) = 1
        BY <4>4, <4>5
      <4>9. v # <<>> => Len(b) = 2 /\ r.op \in PairOps
        BY <4>1, <4>4, <4>5 DEF v
      <4>10. pc = "enter" => Len(got) = 1 /\ r.op \in PairOps /\ e.hop = 0
        BY <4>1, <4>5, <4>6, <4>8
      <4>11. pc = "act" => Len(got) = IF r.op \in PairOps THEN 2 ELSE 1
        BY <4>5, <4>6, <4>8, <4>9
      <4>12. pc # "final"
        BY <4>5
      <4> QED BY <4>4, <4>6, <4>7, <4>10, <4>11, <4>12 DEF v
    <3> QED BY <3>1, <3>2
  <2> HIDE DEF got, old, path, pc
  <2>11. c \in CallRec
    <3>1. <<>> \in Seq(Frame) /\ pc \in Pcs
      BY <2>9 DEF Pcs
    <3> QED BY <2>3, <2>9, <2>10, <3>1 DEF CallRec
  <2>12. /\ c.pc = pc /\ c.base = e.base /\ c.walk = <<>> /\ c.got = got /\ c.fd = None
         /\ c.hop = e.hop
    BY <2>3, <2>8 DEF CallRec
  <2> HIDE DEF c
  <2>13. Based(c, r)
    BY <2>3, <2>12 DEF Based
  <2>14. Phase(c, r)
    <3>1. CASE pc = "final"
      BY <2>10, <2>12, <2>13, <3>1 DEF Phase
    <3>2. CASE pc = "enter"
      <4>1. Found(c, r)
        BY <2>10, <2>12, <3>2 DEF Found
      <4> QED BY <2>12, <2>13, <3>2, <4>1 DEF Phase
    <3>3. CASE pc = "act"
      BY <2>4, <2>10, <2>12, <2>13, <3>3 DEF Phase
    <3> QED BY <2>9, <3>1, <3>2, <3>3
  <2>15. StageOK(c, todo[t])
    BY <2>3, <2>9, <2>12, <2>14 DEF StageOK
  <2>16. /\ Bases(e.base) \cap Walked(e.walk) = {} /\ Bases(e.base) \cap Gotten(e.got) = {}
         /\ Walked(e.walk) \cap Gotten(e.got) = {} /\ BasesApart(e.base)
         /\ None \notin Bases(e.base) \cup Walked(e.walk) \cup Gotten(e.got)
         /\ Walked(<<>>) = {} /\ WalkApart(<<>>)
    BY <2>3, <2>8 DEF Apart, Walked, WalkApart
  <2>17. Apart(c) /\ Mine(c) = Mine(e) \ old /\ old \subseteq Mine(e)
    <3>1. Mine(e) = Bases(e.base) \cup Walked(e.walk) \cup Gotten(e.got)
      BY <2>8 DEF Mine
    <3>2. Mine(c) = Bases(e.base) \cup Gotten(got)
      BY <2>12, <2>16 DEF Mine
    <3>3. Apart(c)
      BY <2>10, <2>12, <2>16 DEF Apart
    <3> QED BY <2>10, <2>16, <3>1, <3>2, <3>3
  <2>18. CallOK(c, todo[t])
    BY <2>3, <2>11, <2>12, <2>15, <2>17 DEF CallOK
  <2> QED BY <2>1, <2>17, <2>18, ShutWent
<1> QED BY <1>1, <1>2

\* The first parent of a call that has found one.
LEMMA GotFirst ==
  ASSUME NEW g \in Seq(Parents), Len(g) \in {1, 2}
  PROVE  /\ g[1] \in Parents /\ g[1].fd \in Fd /\ g[1].own \in BOOLEAN
         /\ Len(g) = 2 => g[2].fd \in Fd
         /\ g # <<>>
<1>1. g[1] \in Parents /\ (Len(g) = 2 => g[2] \in Parents)
  OBVIOUS
<1>2. g # <<>>
  <2>1. Len(g) # 0
    OBVIOUS
  <2> QED BY <2>1
<1> QED BY <1>1, <1>2 DEF Parents

LEMMA ResolveWent ==
  ASSUME Inv, NEW t \in Thread, Resolve(t)
  PROVE  Went(t)
<1> DEFINE e == call[t]
           r == Req(t)
           g == e.got[1]
           text == LinkText(g.fd, g.name)
<1>0. /\ ~At(t, "idle") /\ e.pc = "final" /\ CallsOK /\ FdsType /\ DescType /\ TreeType
      /\ r \in Request /\ ~BadArgs(r) /\ todo[t] # <<>> /\ r = Head(todo[t])
      /\ e \in CallRec /\ Apart(e) /\ Len(e.base) <= 2
      /\ e.walk = <<>> /\ Based(e, r) /\ Len(e.got) = 1 /\ r.op \in Follow
  BY ReqType, TypesHave DEF Inv, Resolve, At, Phase, Req
<1>1. e.got \in Seq(Parents) /\ g \in Parents /\ g.fd \in Fd /\ e.got # <<>>
  BY <1>0, GotFirst DEF CallRec
<1>01. e.hop \in 0 .. MaxLinks /\ MaxLinks \in Nat
  BY <1>0, HandleAssumption DEF CallRec
<1>2. CASE e.hop = MaxLinks
  <2>1. ~(e.hop < MaxLinks)
    BY <1>01, <1>2
  <2>2. Fail(t, "eloop")
    BY <1>2, <2>1 DEF Resolve
  <2> QED BY <1>0, <2>2, FailWent
<1>3. CASE e.hop < MaxLinks /\ text = <<>>
  <2>1. PICK name \in {g.name} \cup (IF e.hop = 0 THEN {} ELSE {None}) :
          call' = [call EXCEPT ![t].pc = "act", ![t].got[1].name = name]
    <3>1. e.hop # MaxLinks
      BY <1>01, <1>3
    <3> QED BY <1>3, <3>1 DEF Resolve
  <2> DEFINE y == [g EXCEPT !.name = name]
             got == [e.got EXCEPT ![1] = y]
             c == [e EXCEPT !.pc = "act", !.got = got]
  <2>2. call' = [call EXCEPT ![t] = c] /\ UNCHANGED <<kvars, todo, last>>
    <3>1. e.hop # MaxLinks
      BY <1>01, <1>3
    <3>2. UNCHANGED <<kvars, todo, last>>
      BY <1>3, <3>1 DEF Resolve
    <3>3. call' = [call EXCEPT ![t] = c]
      BY <2>1, <1>0 DEF CallsOK
    <3> QED BY <3>2, <3>3
  <2>3. y \in Parents /\ y.own = g.own /\ y.fd = g.fd
    BY <1>1 DEF Parents
  <2> HIDE DEF y
  <2>4. /\ got \in Seq(Parents) /\ Len(got) = Len(e.got)
        /\ got[1] = y /\ Len(got) = 1
    BY <1>0, <1>1, <2>3
  <2> HIDE DEF got
  <2>5. Gotten(got) = Gotten(e.got) /\ (GotApart(got) <=> GotApart(e.got))
    <3>1. 1 .. Len(got) = {1} /\ 1 .. Len(e.got) = {1}
      <4>1. 1 .. 1 = {1}
        OBVIOUS
      <4> QED BY <1>0, <2>4, <4>1
    <3>2. Gotten(got) = Gotten(e.got)
      BY <2>3, <2>4, <3>1 DEF Gotten
    <3>3. GotApart(got) /\ GotApart(e.got)
      BY <3>1 DEF GotApart
    <3> QED BY <3>2, <3>3
  <2>6. c \in CallRec
    BY <1>0, <2>4 DEF CallRec, Pcs
  <2>7. /\ c.pc = "act" /\ c.base = e.base /\ c.walk = e.walk /\ c.got = got
        /\ c.fd = e.fd /\ c.hop = e.hop
    BY <1>0 DEF CallRec
  <2> HIDE DEF c
  <2>8. StageOK(c, todo[t])
    <3>1. r.op # "open_at" /\ r.op \notin PairOps
      BY <1>0 DEF Follow, PairOps
    <3> QED BY <1>0, <2>4, <2>7, <3>1 DEF StageOK, Phase, Based
  <2>9. Mine(c) = Mine(e) /\ Apart(c)
    BY <1>0, <2>5, <2>7 DEF Mine, Apart
  <2>10. CallOK(c, todo[t])
    BY <1>0, <2>6, <2>7, <2>8, <2>9 DEF CallOK
  <2>11. CallsOK' /\ call'[t] = c /\ OthersStay(t)
    BY <1>0, <2>2, <2>10, Goes
  <2> QED BY <2>2, <2>9, <2>11, StillWent
<1>4. CASE e.hop # MaxLinks /\ ~(e.hop < MaxLinks /\ text = <<>>)
  <2> DEFINE c == [e EXCEPT !.pc = "enter", !.path = text, !.hop = e.hop + 1]
  <2>1. call' = [call EXCEPT ![t] = c] /\ UNCHANGED <<kvars, todo, last>>
    BY <1>4 DEF Resolve
  <2>2. text \in Seq(Comp)
    BY <1>0, <1>1, LinkTextType
  <2> HIDE DEF text
  <2>3. e.hop + 1 \in 0 .. MaxLinks /\ e.hop + 1 > 0
    <3>1. e.hop \in 0 .. MaxLinks /\ MaxLinks \in Nat
      BY <1>0, HandleAssumption DEF CallRec
    <3> QED BY <1>4, <3>1
  <2>4. c \in CallRec
    BY <1>0, <2>2, <2>3 DEF CallRec, Pcs
  <2>5. /\ c.pc = "enter" /\ c.base = e.base /\ c.walk = e.walk /\ c.got = e.got
        /\ c.fd = e.fd /\ c.hop = e.hop + 1
    BY <1>0 DEF CallRec
  <2> HIDE DEF c
  <2>6. StageOK(c, todo[t])
    BY <1>0, <2>3, <2>5 DEF StageOK, Phase, Based, Found
  <2> QED BY <2>1, <2>4, <2>5, <2>6, GoesOn DEF c
<1> QED BY <1>2, <1>3, <1>4

\* A call ends and closes what it has, and may have changed the tree.
LEMMA ActWent ==
  ASSUME Inv, NEW t \in Thread, ~At(t, "idle"), NEW ans, Return(t, ans),
         fds' = Shut(fds, Owned(t)), descs' = descs, TreeType', (moved \in BOOLEAN)'
  PROVE  Went(t)
<1>1. CallsOK /\ FdsType /\ DescType
  BY TypesHave DEF Inv
<1>2. CallsOK' /\ call'[t] = Idle /\ OthersStay(t)
  BY <1>1, ReqType, Ends
<1>3. FdsType' /\ \E S, N \in SUBSET Fd : Trades(t, S, N)
  BY <1>2, EndsTrade
<1>4. KernelTypeOK'
  BY <1>1, <1>3, KernelHas DEF DescType
<1> QED BY <1>2, <1>3, <1>4, DescsSame DEF Went

LEMMA PathActWent ==
  ASSUME Inv, NEW t \in Thread, PathAct(t)
  PROVE  Went(t)
<1> DEFINE r == Req(t)
           op == Plain(r.op)
           g == call[t].got[1]
           n == Lookup(NodeOf(g.fd), g.name)
           er == CASE op = "unknown" \/ (op = "settimes" /\ r.bad) -> "badarg"
                   [] OTHER -> NameErr(op, g.fd, g.name)
<1>0. /\ ~At(t, "idle") /\ call[t].pc = "act" /\ CallsOK
      /\ FdsType /\ DescType /\ TreeType /\ moved \in BOOLEAN
      /\ r \in Request /\ r.op \in PathOps /\ call[t] \in CallRec
      /\ Len(call[t].got) = IF r.op \in PairOps THEN 2 ELSE 1
  BY ReqType, TypesHave DEF Inv, PathAct, At, Phase
<1>1. CASE er # "ok"
  BY <1>0, <1>1, FailWent DEF PathAct
<1>2. CASE er = "ok"
  <2>1. PICK ans : /\ Return(t, ans)
                   /\ tree' = NameTree(op, g.fd, g.name, r.arg)
                   /\ fds' = Shut(fds, Owned(t)) /\ UNCHANGED <<descs, moved>>
    BY <1>2 DEF PathAct
  <2>2. g.fd \in Fd
    <3>1. call[t].got \in Seq(Parents) /\ Len(call[t].got) \in {1, 2}
      BY <1>0 DEF CallRec
    <3> QED BY <3>1, GotFirst
  <2>3. NameErr(op, g.fd, g.name) = "ok"
    BY <1>2
  <2>4. /\ op = "symlink" => r.arg \in Seq(Comp)
        /\ op = "settimes" => \E D \in SUBSET Stamps : r.arg \in [D -> Time]
    <3>1. /\ op = "symlink" => r.op = "symlink"
          /\ op = "settimes" => r.op \in {"settimes", "settimes_follow"}
      BY DEF Plain
    <3> QED BY <1>0, <3>1, RequestAssumption
  <2>5. NameTree(op, g.fd, g.name, r.arg) \in [Node -> Entry]
    BY <1>0, <2>2, <2>3, <2>4, NameTreeType
  <2>6. TreeType' /\ (moved \in BOOLEAN)'
    BY <1>0, <2>1, <2>5 DEF TreeType
  <2> QED BY <1>0, <2>1, <2>6, ActWent
<1> QED BY <1>1, <1>2

LEMMA PairActWent ==
  ASSUME Inv, NEW t \in Thread, PairAct(t)
  PROVE  Went(t)
<1> DEFINE r == Req(t)
           g == call[t].got[1]
           b == call[t].got[2]
           er == IF r.op = "unknown2" THEN "badarg"
                 ELSE PairErr(r.op, g.fd, g.name, b.fd, b.name)
<1>0. /\ ~At(t, "idle") /\ call[t].pc = "act" /\ CallsOK
      /\ FdsType /\ DescType /\ TreeType /\ moved \in BOOLEAN
      /\ r \in Request /\ r.op \in PairOps /\ call[t] \in CallRec
      /\ Len(call[t].got) = IF r.op \in PairOps THEN 2 ELSE 1
  BY ReqType, TypesHave DEF Inv, PairAct, At, Phase
<1>1. CASE er # "ok"
  BY <1>0, <1>1, FailWent DEF PairAct
<1>2. CASE er = "ok"
  <2>1. /\ Return(t, Ok(<<>>))
        /\ tree' = PairTree(r.op, g.fd, g.name, b.fd, b.name)
        /\ moved' = (moved \/ PairMoves(r.op, g.fd, g.name, b.fd))
        /\ fds' = Shut(fds, Owned(t)) /\ descs' = descs
    BY <1>2 DEF PairAct
  <2>2. g.fd \in Fd /\ b.fd \in Fd
    <3>1. call[t].got \in Seq(Parents) /\ Len(call[t].got) = 2
      BY <1>0 DEF CallRec
    <3> QED BY <3>1, GotFirst
  <2>3. PairErr(r.op, g.fd, g.name, b.fd, b.name) = "ok"
    BY <1>2
  <2>4. PairTree(r.op, g.fd, g.name, b.fd, b.name) \in [Node -> Entry]
    BY <1>0, <2>2, <2>3, PairTreeType
  <2>5. TreeType' /\ (moved \in BOOLEAN)'
    BY <1>0, <2>1, <2>4 DEF TreeType
  <2> QED BY <1>0, <2>1, <2>5, ActWent
<1> QED BY <1>1, <1>2
-----------------------------------------------------------------------------
(* Reading a directory                                                     *)

LEMMA NamesDupWent ==
  ASSUME Inv, NEW t \in Thread, NamesDup(t)
  PROVE  Went(t)
<1> DEFINE er == IF ~handle[Req(t).h].dir THEN "enotdir" ELSE DupErr(t)
           e == call[t]
           b == <<NewFd>>
           c == [e EXCEPT !.pc = "rewind", !.base = b]
<1>0. /\ CallsOK /\ ~At(t, "idle") /\ e.pc = "held" /\ Phase(e, Req(t))
      /\ e \in CallRec /\ Req(t).op = "names" /\ FdsType /\ e.num \in Fd
      /\ todo[t] # <<>> /\ Req(t) = Head(todo[t]) /\ ~BadArgs(Req(t))
  BY ReqType, TypesHave DEF Inv, NamesDup, At, Phase, Req
<1>1. CASE er # "ok"
  BY <1>0, <1>1, FailWent DEF NamesDup
<1>2. CASE er = "ok"
  <2>1. /\ call' = [call EXCEPT ![t] = c] /\ fds' = Duplicated(t)
        /\ UNCHANGED <<todo, last, descs, tree, moved>>
    BY <1>2 DEF NamesDup
  <2>2. DupErr(t) = "ok"
    BY <1>2
  <2>3. NewFd \in Fd /\ NewFd # None
    BY <1>0, <2>2, DupOk, KernelAssumption
  <2>4. /\ b \in Seq(Fd) /\ Len(b) = 1 /\ Bases(b) = {NewFd} /\ BasesApart(b)
    BY <2>3, BaseOne
  <2> HIDE DEF b
  <2>5. c \in CallRec
    BY <1>0, <2>4 DEF CallRec, Pcs
  <2>6. /\ c.pc = "rewind" /\ c.base = b /\ c.walk = e.walk /\ c.got = e.got
        /\ c.fd = e.fd /\ c.hop = e.hop
    BY <1>0 DEF CallRec
  <2>7. Bare(e) /\ e.base = <<>>
    BY <1>0 DEF Phase, PairOps
  <2> HIDE DEF c
  <2>8. Bare(c) /\ c.walk = <<>> /\ c.got = <<>> /\ c.fd = None
    BY <2>6, <2>7 DEF Bare
  <2>9. StageOK(c, todo[t])
    BY <1>0, <2>4, <2>6, <2>8 DEF StageOK, Phase
  <2>10. /\ Walked(<<>>) = {} /\ Gotten(<<>>) = {} /\ WalkApart(<<>>) /\ GotApart(<<>>)
    BY DEF Walked, Gotten, WalkApart, GotApart
  <2>11. Mine(c) = {NewFd} /\ Apart(c) /\ Mine(e) = {}
    <3>1. Mine(c) = {NewFd} /\ Apart(c)
      BY <2>3, <2>4, <2>6, <2>8, <2>10 DEF Mine, Apart
    <3> QED BY <2>7, <3>1, BareHas
  <2>12. CallOK(c, todo[t])
    <3>1. Len(c.base) <= 2
      <4>1. Len(c.base) = 1
        BY <2>4, <2>6
      <4> QED BY <4>1
    <3> QED BY <2>5, <2>9, <2>11, <3>1 DEF CallOK
  <2> QED BY <1>0, <2>1, <2>2, <2>11, <2>12, DupWent
<1> QED BY <1>1, <1>2

\* The position of a description moves.
LEMMA SoughtOK ==
  ASSUME FdsType, DescType, NEW d, NEW p \in Nat, descs' = Sought(d, p)
  PROVE  DescType' /\ DescsStay
<1>1. CASE d \notin Fd
  <2>1. descs' = descs
    BY <1>1 DEF Sought, DescType, Desc
  <2> QED BY <2>1, DescsSame DEF DescType
<1>2. CASE d \in Fd
  <2> DEFINE y == [descs[d] EXCEPT !.pos = p]
  <2>1. descs' = [descs EXCEPT ![d] = y]
    BY DEF Sought
  <2>2. /\ y \in [node : Node, mode : SUBSET {"rd", "wr"}, pos : Nat]
        /\ y.node = descs[d].node /\ y.mode = descs[d].mode
    BY <1>2 DEF DescType, Desc
  <2> HIDE DEF y
  <2>3. DescType'
    BY <1>2, <2>1, <2>2 DEF DescType, Desc
  <2>4. DescsStay
    BY <1>2, <2>1, <2>2 DEF DescsStay, FdsType, DescType, Desc
  <2> QED BY <2>3, <2>4
<1> QED BY <1>1, <1>2

\* A call has its position moved and goes on.
LEMMA SeekGoes ==
  ASSUME Inv, NEW t \in Thread, NEW c, call' = [call EXCEPT ![t] = c],
         c \in CallRec, StageOK(c, todo[t]), UNCHANGED <<fds, tree, moved, todo, last>>,
         c.base = call[t].base, c.walk = call[t].walk, c.got = call[t].got,
         c.fd = call[t].fd, DescType', DescsStay
  PROVE  Went(t)
<1>1. /\ CallsOK /\ call[t] \in CallRec /\ CallOK(call[t], todo[t])
      /\ FdsType /\ TreeType /\ moved \in BOOLEAN
  BY TypesHave DEF Inv, CallsOK
<1>2. Mine(c) = Mine(call[t]) /\ (Apart(c) <=> Apart(call[t]))
  BY SamePlaces
<1>3. CallOK(c, todo[t])
  BY <1>1, <1>2 DEF CallOK
<1>4. CallsOK' /\ call'[t] = c /\ OthersStay(t)
  BY <1>1, <1>3, Goes
<1>5. FdsType' /\ \E S, N \in SUBSET Fd : Trades(t, S, N)
  BY <1>2, <1>4, NoTrade
<1>6. KernelTypeOK'
  BY <1>1, <1>5, KernelHas DEF TreeType
<1> QED BY <1>4, <1>5, <1>6 DEF Went

LEMMA RewindWent ==
  ASSUME Inv, NEW t \in Thread, Rewind(t)
  PROVE  Went(t)
<1> DEFINE e == call[t]
           c == [e EXCEPT !.pc = "fill"]
<1>0. /\ CallsOK /\ ~At(t, "idle") /\ e.pc = "rewind" /\ Phase(e, Req(t))
      /\ e \in CallRec /\ FdsType /\ DescType
      /\ todo[t] # <<>> /\ Req(t) = Head(todo[t]) /\ ~BadArgs(Req(t))
  BY ReqType, TypesHave DEF Inv, Rewind, At, Req
<1>1. CASE Fail(t, "enomem")
  BY <1>0, <1>1, FailWent
<1>2. CASE /\ descs' = Sought(fds[Stream(t)], 0) /\ Goto(t, "fill")
           /\ UNCHANGED <<fds, tree, moved, todo, last>>
  <2>1. call' = [call EXCEPT ![t] = c]
    BY <1>2 DEF Goto
  <2>2. DescType' /\ DescsStay
    <3>1. 0 \in Nat
      OBVIOUS
    <3> QED BY <1>0, <1>2, <3>1, SoughtOK
  <2>3. c \in CallRec
    BY <1>0 DEF CallRec, Pcs
  <2>4. /\ c.pc = "fill" /\ c.base = e.base /\ c.walk = e.walk /\ c.got = e.got
        /\ c.fd = e.fd /\ c.hop = e.hop
    BY <1>0 DEF CallRec
  <2> HIDE DEF c
  <2>5. StageOK(c, todo[t])
    BY <1>0, <2>4 DEF StageOK, Phase, Bare
  <2> QED BY <1>2, <2>1, <2>2, <2>3, <2>4, <2>5, SeekGoes
<1> QED BY <1>1, <1>2 DEF Rewind

\* What is known of a call that reads.
LEMMA FillHas ==
  ASSUME Inv, NEW t \in Thread, At(t, "fill")
  PROVE  LET e == call[t] IN
         /\ CallsOK /\ ~At(t, "idle") /\ e.pc = "fill" /\ Phase(e, Req(t)) /\ Bare(e)
         /\ e \in CallRec /\ FdsType /\ DescType /\ TreeType /\ moved \in BOOLEAN
         /\ todo[t] # <<>> /\ Req(t) = Head(todo[t]) /\ ~BadArgs(Req(t))
         /\ Req(t) \in Request
         /\ \/ Req(t).op = "names" /\ Len(e.base) = 1
            \/ Req(t).op = "readdir" /\ e.base = <<>>
BY ReqType, TypesHave DEF Inv, At, Phase, Req

\* The entries it has are entries.
LEMMA BufHas ==
  ASSUME NEW b \in SUBSET DOMAIN Order, b # {}
  PROVE  /\ Min(b) \in DOMAIN Order /\ Order[Min(b)] \in Name \cup {".", ".."}
         /\ NameLen[Order[Min(b)]] \in Nat /\ Min(b) \in Nat
         /\ EntrySize(Order[Min(b)]) \in Nat
<1>1. DOMAIN Order \subseteq Nat
  BY KernelAssumption
<1>2. Min(b) \in b
  BY <1>1, MinIn
<1>3. Order[Min(b)] \in Name \cup {".", ".."}
  BY <1>2, KernelAssumption
<1>4. NameLen[Order[Min(b)]] \in Nat /\ Hdr \in Nat
  BY <1>3, ListAssumption
<1> QED BY <1>1, <1>2, <1>3, <1>4 DEF EntrySize

\* It goes on with other entries.
LEMMA FillGoes ==
  ASSUME Inv, NEW t \in Thread, At(t, "fill"), NEW c, call' = [call EXCEPT ![t] = c],
         c \in CallRec, c.pc = "fill", c.base = call[t].base, c.walk = call[t].walk,
         c.got = call[t].got, c.fd = call[t].fd, c.hop = call[t].hop,
         UNCHANGED <<fds, tree, moved, todo, last>>, DescType', DescsStay
  PROVE  Went(t)
<1>1. StageOK(c, todo[t])
  BY FillHas DEF StageOK, Phase, Bare
<1> QED BY <1>1, SeekGoes

LEMMA GetdentsWent ==
  ASSUME Inv, NEW t \in Thread, Getdents(t)
  PROVE  Went(t)
<1> DEFINE e == call[t]
           dents == Dents(Stream(t))
           c == [e EXCEPT !.buf = dents]
<1>1. /\ At(t, "fill") /\ dents # {} /\ call' = [call EXCEPT ![t] = c]
      /\ descs' = Sought(fds[Stream(t)], Max(dents))
      /\ UNCHANGED <<fds, tree, moved, todo, last>>
  BY DEF Getdents
<1>2. dents \in SUBSET DOMAIN Order /\ Max(dents) \in Nat
  BY <1>1, DentsType DEF Dents, After, Present
<1> HIDE DEF dents
<1>3. DescType' /\ DescsStay
  BY <1>1, <1>2, FillHas, SoughtOK
<1>4. /\ c \in CallRec /\ c.pc = "fill" /\ c.base = e.base /\ c.walk = e.walk
      /\ c.got = e.got /\ c.fd = e.fd /\ c.hop = e.hop
  BY <1>1, <1>2, FillHas DEF CallRec
<1> HIDE DEF c
<1> QED BY <1>1, <1>3, <1>4, FillGoes

LEMMA TakeNameWent ==
  ASSUME Inv, NEW t \in Thread, TakeName(t)
  PROVE  Went(t)
<1> DEFINE e == call[t]
           i == Min(e.buf)
           out == <<Order[i]>> \o e.out
           c == [e EXCEPT !.buf = e.buf \ {i}, !.out = out]
<1>1. /\ At(t, "fill") /\ e.buf # {} /\ call' = [call EXCEPT ![t] = c]
      /\ UNCHANGED <<kvars, todo, last>>
  BY DEF TakeName
<1>2. e \in CallRec /\ e.buf \in SUBSET DOMAIN Order /\ e.out \in Seq(Items)
  BY <1>1, FillHas DEF CallRec
<1>3. Order[i] \in Items
  BY <1>1, <1>2, BufHas DEF Items
<1>4. out \in Seq(Items)
  BY <1>2, <1>3
<1> HIDE DEF out, i
<1>5. /\ c \in CallRec /\ c.pc = "fill" /\ c.base = e.base /\ c.walk = e.walk
      /\ c.got = e.got /\ c.fd = e.fd /\ c.hop = e.hop
  BY <1>1, <1>2, <1>4, FillHas DEF CallRec
<1> HIDE DEF c
<1>6. UNCHANGED <<fds, descs, tree, moved, todo, last>>
  BY <1>1 DEF kvars
<1>7. DescType' /\ DescsStay
  BY <1>1, <1>6, FillHas, DescsSame DEF DescType
<1> QED BY <1>1, <1>5, <1>6, <1>7, FillGoes

\* Its end.
LEMMA FinishWent ==
  ASSUME Inv, NEW t \in Thread, At(t, "fill"), NEW out, NEW used, NEW er,
         Finish(t, out, used, er), UNCHANGED <<descs, tree, moved>>
  PROVE  Went(t)
<1>0. /\ ~At(t, "idle") /\ FdsType /\ DescType /\ TreeType /\ moved \in BOOLEAN
      /\ Bare(call[t])
      /\ \/ Req(t).op = "names" /\ Len(call[t].base) = 1
         \/ Req(t).op = "readdir" /\ call[t].base = <<>>
  BY FillHas
<1>00. TreeType' /\ (moved \in BOOLEAN)' /\ descs' = descs
  BY <1>0 DEF TreeType
<1>1. CASE Req(t).op = "names"
  <2>1. (\E ans : Return(t, ans)) /\ fds' = Shut(fds, Owned(t))
    BY <1>1 DEF Finish
  <2> QED BY <1>0, <1>00, <2>1, ActWent
<1>2. CASE Req(t).op = "readdir"
  <2>1. (\E ans : Return(t, ans)) /\ fds' = fds
    BY <1>2 DEF Finish
  <2>2. Mine(call[t]) = {}
    BY <1>0, <1>2, BareHas
  <2>3. /\ CallsOK' /\ OthersStay(t) /\ FdsType'
        /\ \E S, N \in SUBSET Fd : Trades(t, S, N)
    BY <1>0, <2>1, <2>2, EndsEmpty
  <2>4. KernelTypeOK'
    BY <1>0, <1>00, <2>3, KernelHas DEF DescType
  <2> QED BY <1>00, <2>3, <2>4, DescsSame DEF Went
<1> QED BY <1>0, <1>1, <1>2

LEMMA EndWent ==
  ASSUME Inv, NEW t \in Thread, EndOfDir(t) \/ ReadFails(t)
  PROVE  Went(t)
<1>1. At(t, "fill") /\ UNCHANGED <<descs, tree, moved>>
  BY DEF EndOfDir, ReadFails
<1>2. \E er : Finish(t, call[t].out, call[t].used, er)
  BY DEF EndOfDir, ReadFails
<1> QED BY <1>1, <1>2, FinishWent

LEMMA PackEntryWent ==
  ASSUME Inv, NEW t \in Thread, PackEntry(t)
  PROVE  Went(t)
<1> DEFINE r == Req(t)
           e == call[t]
           i == Min(e.buf)
           esz == EntrySize(Order[i])
           p == Packed(i, esz)
           out == Append(e.out, p)
           c == [e EXCEPT !.buf = e.buf \ {i}, !.used = e.used + esz, !.out = out]
<1>0. At(t, "fill") /\ e.buf # {} /\ UNCHANGED <<descs, tree, moved>>
  BY DEF PackEntry
<1>1. /\ e \in CallRec /\ e.buf \in SUBSET DOMAIN Order /\ e.out \in Seq(Items)
      /\ e.used \in Nat /\ r \in Request
  BY <1>0, FillHas DEF CallRec
<1>2. \/ /\ call' = [call EXCEPT ![t] = c]
         /\ UNCHANGED <<fds, handle, todo, last>>
      \/ \E o, u, er : Finish(t, o, u, er)
  <2>1. CASE e.used + esz <= r.len
    BY <2>1 DEF PackEntry
  <2>2. CASE e.used + esz > r.len /\ e.used < r.len /\ ~(e.used + esz <= r.len)
    BY <2>2 DEF PackEntry
  <2>3. CASE ~(e.used + esz <= r.len) /\ ~(e.used + esz > r.len /\ e.used < r.len)
    BY <2>3 DEF PackEntry
  <2>4. r.len \in Nat /\ esz \in Nat
    BY <1>0, <1>1, BufHas, RequestAssumption
  <2> HIDE DEF esz
  <2>5. e.used + esz <= r.len \/ e.used + esz > r.len
    BY <1>1, <2>4
  <2> QED BY <2>1, <2>2, <2>3, <2>5
<1>3. CASE \E o, u, er : Finish(t, o, u, er)
  BY <1>0, <1>3, FinishWent
<1>4. CASE /\ call' = [call EXCEPT ![t] = c]
           /\ UNCHANGED <<fds, handle, todo, last>>
  <2>1. /\ Order[i] \in Name \cup {".", ".."} /\ i \in Nat /\ esz \in Nat
    BY <1>0, <1>1, BufHas
  <2> HIDE DEF i, esz
  <2>2. p \in Items
    BY <2>1 DEF Packed, Items
  <2> HIDE DEF p
  <2>3. out \in Seq(Items) /\ e.used + esz \in Nat
    BY <1>1, <2>1, <2>2
  <2> HIDE DEF out
  <2>4. /\ c \in CallRec /\ c.pc = "fill" /\ c.base = e.base /\ c.walk = e.walk
        /\ c.got = e.got /\ c.fd = e.fd /\ c.hop = e.hop
    BY <1>0, <1>1, <2>3, FillHas DEF CallRec
  <2>5. call' = [call EXCEPT ![t] = c] /\ UNCHANGED <<fds, tree, moved, todo, last>>
    BY <1>0, <1>4
  <2> HIDE DEF c
  <2>6. DescType' /\ DescsStay
    BY <1>0, FillHas, DescsSame DEF DescType
  <2> QED BY <1>0, <2>4, <2>5, <2>6, FillGoes
<1> QED BY <1>2, <1>3, <1>4
-----------------------------------------------------------------------------
(* Steps that change what a handle has                                     *)

SameHandles == \A h \in Handle : /\ handle'[h].fd = handle[h].fd
                                 /\ handle'[h].dirp = handle[h].dirp
                                 /\ handle'[h].st = handle[h].st
                                 /\ handle'[h].file = handle[h].file

\* Only the lock of one handle changes, if anything does.
LockStep(h, k) == /\ handle' = [handle EXCEPT ![h].lock = k]
                  /\ h \in Handle /\ k \in Thread \cup {None}
                  /\ k # None => handle[h].fd # None

LEMMA LockKept ==
  ASSUME Inv, handle' = handle \/ \E h, k : LockStep(h, k)
  PROVE  /\ handle' \in [Handle -> HandleRec] /\ SameHandles /\ Unmade'
<1>1. handle \in [Handle -> HandleRec] /\ Unmade
  BY DEF Inv, Types
<1>2. CASE handle' = handle
  BY <1>1, <1>2 DEF SameHandles, Unmade
<1>3. CASE \E h, k : LockStep(h, k)
  <2>1. PICK h, k : LockStep(h, k)
    BY <1>3
  <2> DEFINE y == [handle[h] EXCEPT !.lock = k]
  <2>2. h \in Handle /\ k \in Thread \cup {None} /\ handle' = [handle EXCEPT ![h] = y]
    BY <2>1 DEF LockStep
  <2>3. /\ y \in HandleRec /\ y.fd = handle[h].fd /\ y.dirp = handle[h].dirp
        /\ y.st = handle[h].st /\ y.file = handle[h].file /\ y.dir = handle[h].dir
        /\ y.lock = k
    BY <1>1, <2>2 DEF HandleRec
  <2>4. handle[h].st = "none" => HasNothing(y)
    <3> SUFFICES ASSUME handle[h].st = "none" PROVE HasNothing(y)
      OBVIOUS
    <3>1. HasNothing(handle[h])
      BY <1>1, <2>2 DEF Unmade
    <3>2. k = None
      BY <2>1, <3>1 DEF LockStep, HasNothing
    <3> HIDE DEF y
    <3> QED BY <2>3, <3>1, <3>2 DEF HasNothing
  <2> HIDE DEF y
  <2>5. handle' \in [Handle -> HandleRec]
    BY <1>1, <2>2, <2>3
  <2>6. handle'[h] = y /\ \A g \in Handle : g # h => handle'[g] = handle[g]
    BY <1>1, <2>2
  <2>7. SameHandles
    BY <2>3, <2>6 DEF SameHandles
  <2>8. Unmade'
    BY <1>1, <2>3, <2>4, <2>6 DEF Unmade
  <2> QED BY <2>5, <2>7, <2>8
<1> QED BY <1>2, <1>3

\* A handle is left with nothing, and nothing else has changed hands.
LEMMA LeaveSole ==
  ASSUME Inv, NEW h \in Handle, \A u \in Thread : Mine(call'[u]) = Mine(call[u]),
         fds' = Shut(fds, {handle[h].fd, handle[h].dirp}),
         handle'[h].fd = None, handle'[h].dirp = None,
         \A g \in Handle : g # h => handle'[g] = handle[g]
  PROVE  /\ Sole' /\ FdsType'
         /\ \A f \in Fd : fds'[f] = IF f \in Holds(h) THEN None ELSE fds[f]
<1>1. FdsType /\ Sole /\ None \notin Fd
  BY TypesHave, KernelAssumption DEF Inv
<1>2. /\ fds' \in [Fd -> Fd \cup {None}]
      /\ \A f \in Fd : fds'[f] = IF f \in Holds(h) THEN None ELSE fds[f]
  BY <1>1 DEF Shut, FdsType, Holds
<1>3. /\ Holds(h)' = {}
      /\ \A g \in Handle : g # h => Holds(g)' = Holds(g)
  BY DEF Holds
<1>4. \A u \in Thread : Mine(call[u])' = Mine(call[u])
  BY DEF Mine
<1>5. \A u \in Thread : \A f \in Mine(call[u])' : IsOpen(f)'
  <2> SUFFICES ASSUME NEW u \in Thread, NEW f \in Mine(call[u]) PROVE IsOpen(f)'
    BY <1>4
  <2>1. f \in Fd /\ fds[f] # None /\ f \notin Holds(h)
    BY <1>1 DEF Sole, IsOpen
  <2> QED BY <1>2, <2>1 DEF IsOpen
<1>6. \A g \in Handle : \A f \in Holds(g)' : IsOpen(f)'
  <2> SUFFICES ASSUME NEW g \in Handle, g # h, NEW f \in Holds(g) PROVE IsOpen(f)'
    BY <1>3
  <2>1. f \in Fd /\ fds[f] # None /\ f \notin Holds(h)
    BY <1>1 DEF Sole, IsOpen
  <2> QED BY <1>2, <2>1 DEF IsOpen
<1>7. \A t, u \in Thread : t # u => Mine(call[t])' \cap Mine(call[u])' = {}
  BY <1>1, <1>4 DEF Sole
<1>8. \A g, k \in Handle : g # k => Holds(g)' \cap Holds(k)' = {}
  BY <1>1, <1>3 DEF Sole
<1>9. \A g \in Handle : handle'[g].fd = handle'[g].dirp => handle'[g].fd = None
  BY <1>1 DEF Sole
<1>10. \A t \in Thread, g \in Handle : Mine(call[t])' \cap Holds(g)' = {}
  <2> SUFFICES ASSUME NEW t \in Thread, NEW g \in Handle
               PROVE  Mine(call[t])' \cap Holds(g)' = {}
    OBVIOUS
  <2>1. CASE g = h
    BY <1>3, <2>1
  <2>2. CASE g # h
    BY <1>1, <1>3, <1>4, <2>2 DEF Sole
  <2> QED BY <2>1, <2>2
<1>11. ASSUME NEW f \in Fd, fds'[f] # None
       PROVE  \/ \E t \in Thread : f \in Mine(call[t])'
              \/ \E g \in Handle : f \in Holds(g)'
  <2>1. fds[f] # None /\ f \notin Holds(h)
    BY <1>2, <1>11
  <2>2. CASE \E t \in Thread : f \in Mine(call[t])
    BY <1>4, <2>2
  <2>3. CASE \E g \in Handle : f \in Holds(g)
    BY <1>3, <2>1, <2>3
  <2> QED BY <1>1, <2>1, <2>2, <2>3 DEF Sole
<1> QED BY <1>2, <1>5, <1>6, <1>7, <1>8, <1>9, <1>10, <1>11 DEF Sole, FdsType

\* A handle gets a number that nobody has yet, or that a call gives up.
LEMMA GetSole ==
  ASSUME Inv, NEW h \in Handle, NEW f \in Fd, f \notin Holds(h),
         \A g \in Handle : g # h => handle'[g] = handle[g],
         Holds(h)' = Holds(h) \cup {f},
         handle'[h].fd = handle'[h].dirp => handle'[h].fd = None,
         NEW t \in Thread, OthersStay(t), Mine(call'[t]) = Mine(call[t]) \ {f},
         \/ f \in Mine(call[t]) /\ fds' = fds
         \/ /\ fds[f] = None /\ fds'[f] # None
            /\ \A x \in Fd : x # f => fds'[x] = fds[x]
  PROVE  Sole'
<1>1. Sole /\ FdsType
  BY TypesHave DEF Inv
<1>2. /\ \A g \in Handle : g # h => Holds(g)' = Holds(g)
      /\ \A u \in Thread : u # t => Mine(call[u])' = Mine(call[u])
      /\ Mine(call[t])' = Mine(call[t]) \ {f}
  BY DEF Holds, Mine, OthersStay
<1>3. fds'[f] # None /\ \A x \in Fd : x # f => fds'[x] = fds[x]
  BY <1>1 DEF Sole, IsOpen
<1>4. /\ \A u \in Thread : u # t => f \notin Mine(call[u])
      /\ \A g \in Handle : f \notin Holds(g)
  <2>1. CASE f \in Mine(call[t])
    BY <1>1, <2>1 DEF Sole
  <2>2. CASE fds[f] = None
    BY <1>1, <2>2 DEF Sole, IsOpen
  <2> QED BY <2>1, <2>2
<1>5. \A x : IsOpen(x) => IsOpen(x)'
  BY <1>3 DEF IsOpen
<1>6. IsOpen(f)'
  BY <1>3 DEF IsOpen
<1>7. \A u \in Thread : \A x \in Mine(call[u])' : IsOpen(x)'
  <2> SUFFICES ASSUME NEW u \in Thread, NEW x \in Mine(call[u])' PROVE IsOpen(x)'
    OBVIOUS
  <2>1. x \in Mine(call[u])
    BY <1>2
  <2> QED BY <1>1, <1>5, <2>1 DEF Sole
<1>8. \A g \in Handle : \A x \in Holds(g)' : IsOpen(x)'
  <2> SUFFICES ASSUME NEW g \in Handle, NEW x \in Holds(g)' PROVE IsOpen(x)'
    OBVIOUS
  <2>1. x \in Holds(g) \/ x = f
    BY <1>2
  <2> QED BY <1>1, <1>5, <1>6, <2>1 DEF Sole
<1>9. \A u, v \in Thread : u # v => Mine(call[u])' \cap Mine(call[v])' = {}
  <2> SUFFICES ASSUME NEW u \in Thread, NEW v \in Thread, u # v
               PROVE  Mine(call[u])' \cap Mine(call[v])' = {}
    OBVIOUS
  <2>1. /\ Mine(call[u])' \subseteq Mine(call[u]) /\ Mine(call[v])' \subseteq Mine(call[v])
    BY <1>2
  <2> QED BY <1>1, <2>1 DEF Sole
<1>10. \A g, k \in Handle : g # k => Holds(g)' \cap Holds(k)' = {}
  <2>1. ASSUME NEW g \in Handle, g # h PROVE Holds(g)' \cap Holds(h)' = {}
    BY <1>1, <1>2, <1>4, <2>1 DEF Sole
  <2>2. ASSUME NEW g \in Handle, NEW k \in Handle, g # k, g # h, k # h
        PROVE Holds(g)' \cap Holds(k)' = {}
    BY <1>1, <1>2, <2>2 DEF Sole
  <2>3. ASSUME NEW g \in Handle, NEW k \in Handle, g # k
        PROVE Holds(g)' \cap Holds(k)' = {}
    <3>1. CASE g = h
      BY <2>1, <2>3, <3>1
    <3>2. CASE k = h
      BY <2>1, <2>3, <3>2
    <3> QED BY <2>2, <2>3, <3>1, <3>2
  <2> QED BY <2>3
<1>11. \A g \in Handle : handle'[g].fd = handle'[g].dirp => handle'[g].fd = None
  BY <1>1 DEF Sole
<1>12. \A u \in Thread, g \in Handle : Mine(call[u])' \cap Holds(g)' = {}
  <2> SUFFICES ASSUME NEW u \in Thread, NEW g \in Handle, NEW x \in Mine(call[u])',
                      x \in Holds(g)'
               PROVE  FALSE
    OBVIOUS
  <2>1. x \in Mine(call[u]) /\ x # f
    BY <1>2, <1>4
  <2>2. x \in Holds(g)
    BY <1>2, <2>1
  <2> QED BY <1>1, <2>1, <2>2 DEF Sole
<1>13. ASSUME NEW x \in Fd, fds'[x] # None
       PROVE  \/ \E u \in Thread : x \in Mine(call[u])'
              \/ \E g \in Handle : x \in Holds(g)'
  <2>1. CASE x = f
    BY <2>1
  <2>2. CASE x # f
    <3>1. fds[x] # None
      BY <1>3, <1>13, <2>2
    <3>2. CASE \E u \in Thread : x \in Mine(call[u])
      BY <1>2, <2>2, <3>2
    <3>3. CASE \E g \in Handle : x \in Holds(g)
      BY <1>2, <3>3
    <3> QED BY <1>1, <3>1, <3>2, <3>3 DEF Sole
  <2> QED BY <2>1, <2>2
<1> QED BY <1>7, <1>8, <1>9, <1>10, <1>11, <1>12, <1>13 DEF Sole

\* What every step has to leave: the types, the owners, and handles that are not made.
Kept == KernelTypeOK' /\ (handle \in [Handle -> HandleRec])' /\ CallsOK' /\ Sole' /\ Unmade'

\* A handle that has what other fields say.
LEMMA HandleSet ==
  ASSUME Inv, NEW h \in Handle, NEW y \in HandleRec, y.st = "none" => HasNothing(y),
         handle' = [handle EXCEPT ![h] = y]
  PROVE  /\ (handle \in [Handle -> HandleRec])' /\ Unmade' /\ handle'[h] = y
         /\ \A g \in Handle : g # h => handle'[g] = handle[g]
<1>1. handle \in [Handle -> HandleRec] /\ Unmade
  BY DEF Inv, Types
<1>2. /\ handle'[h] = y /\ handle' \in [Handle -> HandleRec]
      /\ \A g \in Handle : g # h => handle'[g] = handle[g]
  BY <1>1
<1> QED BY <1>1, <1>2 DEF Unmade

LEMMA LeftHandle ==
  ASSUME Inv, NEW h \in Handle
  PROVE  /\ LET y == [handle[h] EXCEPT !.fd = None, !.dirp = None] IN
              /\ y \in HandleRec /\ y.fd = None /\ y.dirp = None
              /\ y.st = "none" => HasNothing(y)
         /\ LET z == [handle[h] EXCEPT !.st = "gone", !.fd = None, !.dirp = None] IN
              z \in HandleRec /\ z.fd = None /\ z.dirp = None /\ z.st # "none"
<1>1. handle[h] \in HandleRec /\ (handle[h].st = "none" => HasNothing(handle[h]))
  BY DEF Inv, Types, Unmade
<1> DEFINE y == [handle[h] EXCEPT !.fd = None, !.dirp = None]
<1>2. /\ y \in HandleRec /\ y.fd = None /\ y.dirp = None /\ y.st = handle[h].st
      /\ y.dir = handle[h].dir /\ y.lock = handle[h].lock /\ y.file = handle[h].file
  BY <1>1 DEF HandleRec
<1>4. y.st = "none" => HasNothing(y)
  BY <1>1, <1>2 DEF HasNothing
<1>5. LET z == [handle[h] EXCEPT !.st = "gone", !.fd = None, !.dirp = None] IN
        z \in HandleRec /\ z.fd = None /\ z.dirp = None /\ z.st # "none"
  BY <1>1 DEF HandleRec
<1> QED BY <1>2, <1>4, <1>5

\* The handle that a call names, once the call has begun.
LEMMA MadeKept ==
  ASSUME Inv, NEW t \in Thread, Make(t)
  PROVE  Kept /\ DescsStay /\ OthersStay(t) /\ UNCHANGED kvars
<1> DEFINE r == Req(t)
           f == call[t].fd
           fl == [node |-> NodeOf(f), mode |-> descs[fds[f]].mode]
           dir == IF r.op = "dup" THEN handle[r.h].dir ELSE tree[NodeOf(f)].kind = "dir"
           y == [NewHandle EXCEPT !.st = "live", !.fd = f, !.dir = dir, !.file = fl]
<1>0. /\ ~At(t, "idle") /\ call[t].pc = "made" /\ CallsOK
      /\ FdsType /\ DescType /\ TreeType /\ moved \in BOOLEAN
      /\ r \in Request /\ call[t] \in CallRec /\ Apart(call[t]) /\ todo[t] # <<>>
      /\ call[t].base = <<>> /\ call[t].walk = <<>> /\ call[t].got = <<>> /\ f \in Fd
      /\ r.op \in OpenOps \cup {"dup"}
  BY ReqType, TypesHave DEF Inv, Make, At, Phase
<1>2. PICK h \in Handle : h = r.to
  BY <1>0, RequestAssumption
<1>1. /\ handle' = [handle EXCEPT ![h] = y] /\ handle[h].st = "none"
      /\ Return(t, Ok(<<h>>)) /\ UNCHANGED kvars
  BY <1>2 DEF Make
<1>3. CallsOK' /\ call'[t] = Idle /\ OthersStay(t)
  BY <1>0, <1>1, Ends
<1>4. Mine(call[t]) = {f}
  <2>1. Bases(<<>>) = {} /\ Walked(<<>>) = {} /\ Gotten(<<>>) = {}
    BY DEF Bases, Walked, Gotten
  <2> QED BY <1>0, <2>1, KernelAssumption DEF Mine
<1>5. fds[f] # None
  BY <1>4, MineOpen
<1>6. fl \in [node : Node, mode : SUBSET {"rd", "wr"}] /\ dir \in BOOLEAN
  <2>1. NodeOf(f) \in Node
    BY <1>0, <1>5, NodeType
  <2>2. descs[fds[f]].mode \in SUBSET {"rd", "wr"}
    BY <1>0, <1>5 DEF DescType, FdsType, Desc
  <2>3. dir \in BOOLEAN
    <3>1. CASE r.op = "dup"
      <4>1. r.h \in Handle
        BY <1>0, <3>1, RequestAssumption DEF OpenOps
      <4>2. handle[r.h] \in HandleRec
        BY <4>1 DEF Inv, Types
      <4> QED BY <3>1, <4>2 DEF HandleRec
    <3>2. CASE r.op # "dup"
      BY <3>2
    <3> QED BY <3>1, <3>2
  <2> HIDE DEF dir
  <2> QED BY <2>1, <2>2, <2>3
<1> HIDE DEF fl, dir
<1>7. /\ y \in HandleRec /\ y.st = "live" /\ y.fd = f /\ y.dirp = None
  BY <1>0, <1>6 DEF NewHandle, HandleRec
<1> HIDE DEF y
<1>8. /\ (handle \in [Handle -> HandleRec])' /\ Unmade' /\ handle'[h] = y
      /\ \A g \in Handle : g # h => handle'[g] = handle[g]
  BY <1>1, <1>2, <1>7, HandleSet
<1>9. HasNothing(handle[h])
  BY <1>1, <1>2 DEF Inv, Unmade
<1>10. Holds(h) = {} /\ Holds(h)' = {f}
  <2>1. Holds(h) = {}
    BY <1>9 DEF Holds, HasNothing
  <2>2. Holds(h)' = {y.fd, y.dirp} \ {None}
    BY <1>8 DEF Holds
  <2>3. f # None
    BY <1>0, KernelAssumption
  <2> QED BY <1>7, <2>1, <2>2, <2>3
<1>11. Sole'
  <2> DEFINE d == f
  <2>0. f # None
    BY <1>0, KernelAssumption
  <2>1. /\ d \in Fd /\ d \notin Holds(h)
        /\ Holds(h)' = Holds(h) \cup {d}
        /\ handle'[h].fd = handle'[h].dirp => handle'[h].fd = None
        /\ Mine(call'[t]) = Mine(call[t]) \ {d}
        /\ d \in Mine(call[t]) /\ fds' = fds
    BY <1>0, <1>1, <1>3, <1>4, <1>7, <1>8, <1>10, <2>0, IdleOK DEF kvars
  <2> HIDE DEF d
  <2> QED BY <1>3, <1>8, <2>1, GetSole
<1>12. KernelTypeOK'
  BY <1>1 DEF Inv, Types, KernelTypeOK, kvars
<1>13. DescsStay
  BY <1>1, DescsSame DEF kvars
<1> QED BY <1>1, <1>3, <1>8, <1>11, <1>12, <1>13 DEF Kept

LEMMA CloseKept ==
  ASSUME Inv, NEW t \in Thread, Close(t)
  PROVE  Kept /\ DescsStay /\ OthersStay(t) /\ \A u \in Thread : Mine(call'[u]) = Mine(call[u])
<1>0. /\ ~At(t, "idle") /\ call[t].pc = "lock" /\ CallsOK
      /\ FdsType /\ DescType /\ TreeType /\ moved \in BOOLEAN
      /\ Bare(call[t]) /\ call[t].base = <<>> /\ todo[t] # <<>> /\ Req(t).h \in Handle
  BY ReqType, TypesHave DEF Inv, Close, At, Phase, PairOps
<1>1. PICK h \in Handle : h = Req(t).h
  BY <1>0
<1> DEFINE y == [handle[h] EXCEPT !.fd = None, !.dirp = None]
<1>2. /\ handle' = [handle EXCEPT ![h] = y]
      /\ fds' = Shut(fds, {handle[h].fd, handle[h].dirp})
      /\ Return(t, Ok(<<>>)) /\ UNCHANGED <<descs, tree, moved>>
  BY <1>1 DEF Close
<1>3. y \in HandleRec /\ y.fd = None /\ y.dirp = None /\ (y.st = "none" => HasNothing(y))
  BY LeftHandle
<1> HIDE DEF y
<1>4. /\ (handle \in [Handle -> HandleRec])' /\ Unmade' /\ handle'[h] = y
      /\ \A g \in Handle : g # h => handle'[g] = handle[g]
  BY <1>2, <1>3, HandleSet
<1>5. CallsOK' /\ call'[t] = Idle /\ OthersStay(t)
  BY <1>0, <1>2, Ends
<1>6. \A u \in Thread : Mine(call'[u]) = Mine(call[u])
  <2>1. Mine(call[t]) = {}
    BY <1>0, BareHas
  <2> QED BY <1>5, <2>1, IdleOK DEF OthersStay
<1>7. Sole' /\ FdsType'
  BY <1>2, <1>3, <1>4, <1>6, LeaveSole
<1>8. KernelTypeOK'
  BY <1>0, <1>2, <1>7, KernelHas DEF DescType, TreeType
<1> QED BY <1>2, <1>4, <1>5, <1>6, <1>7, <1>8, DescsSame DEF Kept

LEMMA GcKept ==
  ASSUME Inv, NEW h \in Handle, Gc(h)
  PROVE  Kept /\ DescsStay
<1>0. CallsOK /\ FdsType /\ DescType /\ TreeType /\ moved \in BOOLEAN
  BY TypesHave DEF Inv
<1> DEFINE y == [handle[h] EXCEPT !.st = "gone", !.fd = None, !.dirp = None]
<1>2. /\ handle' = [handle EXCEPT ![h] = y]
      /\ fds' = Shut(fds, {handle[h].fd, handle[h].dirp})
      /\ UNCHANGED <<descs, tree, moved, call, todo, last>>
  BY DEF Gc
<1>3. y \in HandleRec /\ y.fd = None /\ y.dirp = None /\ y.st # "none"
  BY LeftHandle
<1> HIDE DEF y
<1>4. /\ (handle \in [Handle -> HandleRec])' /\ Unmade' /\ handle'[h] = y
      /\ \A g \in Handle : g # h => handle'[g] = handle[g]
  BY <1>2, <1>3, HandleSet
<1>5. CallsOK'
  BY <1>0, <1>2 DEF CallsOK
<1>6. \A u \in Thread : Mine(call'[u]) = Mine(call[u])
  BY <1>2
<1>7. Sole' /\ FdsType'
  BY <1>2, <1>3, <1>4, <1>6, LeaveSole
<1>8. KernelTypeOK'
  BY <1>0, <1>2, <1>7, KernelHas DEF DescType, TreeType
<1> QED BY <1>2, <1>4, <1>5, <1>7, <1>8, DescsSame DEF Kept

\* A thread that opens and closes only what it has itself.
LEMMA WentKept ==
  ASSUME Inv, NEW t \in Thread, Went(t), handle' = handle \/ \E h, k : LockStep(h, k)
  PROVE  Kept /\ SameHandles
<1>1. (handle \in [Handle -> HandleRec])' /\ SameHandles /\ Unmade'
  BY LockKept
<1>2. Sole'
  BY <1>1, TradeSole DEF SameHandles
<1> QED BY <1>1, <1>2 DEF Kept, Went

\* A name that a stream is opened for has a handle that is locked.
LEMMA StreamKept ==
  ASSUME Inv, NEW t \in Thread, OpenStream(t)
  PROVE  /\ Kept /\ DescsStay /\ OthersStay(t)
         /\ \A f \in Fd : fds[f] # None => fds'[f] = fds[f]
         /\ \A h \in Handle : /\ handle'[h].fd = handle[h].fd
                              /\ handle'[h].st = handle[h].st
                              /\ handle'[h].file = handle[h].file
                              /\ handle'[h].lock # handle[h].lock =>
                                   h = Req(t).h /\ call'[t].pc = "idle"
<1> DEFINE r == Req(t)
           e == call[t]
<1>0. /\ ~At(t, "idle") /\ e.pc = "held" /\ CallsOK /\ e.num \in Fd
      /\ FdsType /\ DescType /\ TreeType /\ moved \in BOOLEAN
      /\ r \in Request /\ e \in CallRec /\ Bare(e) /\ e.base = <<>>
      /\ todo[t] # <<>> /\ r = Head(todo[t]) /\ ~BadArgs(r) /\ r.h \in Handle
      /\ r.op = "readdir" /\ r.off \in Nat
  <2>1. e.pc = "held" /\ r.op = "readdir" /\ ~At(t, "idle")
    BY DEF OpenStream, At
  <2>2. r \in Request /\ Phase(e, r) /\ e \in CallRec /\ todo[t] # <<>> /\ ~BadArgs(r)
    BY <2>1, ReqType, TypesHave DEF Inv
  <2>3. Bare(e) /\ e.base = <<>> /\ r.h \in Handle /\ e.num \in Fd
    BY <2>1, <2>2 DEF Phase, PairOps
  <2> QED BY <2>1, <2>2, <2>3, TypesHave, RequestAssumption DEF Inv, Req
<1>1. PICK h \in Handle : h = r.h
  BY <1>0
<1> DEFINE x == handle[h]
           new == x.dirp = None
           er == CASE ~x.dir -> "enotdir"
                   [] fds[e.num] = None -> "ebadf"
                   [] new /\ FreeFds = {} -> "emfile"
                   [] OTHER -> "ok"
           dirp == IF new THEN NewFd ELSE x.dirp
           y == [x EXCEPT !.dirp = dirp]
           z == [x EXCEPT !.dirp = dirp, !.lock = None]
           c == [e EXCEPT !.pc = "fill"]
<1>2. /\ UNCHANGED <<tree, moved>>
      /\ \/ /\ handle' = [handle EXCEPT ![h].lock = None]
            /\ (\E ans : Return(t, ans)) /\ UNCHANGED <<fds, descs>>
         \/ /\ er = "ok"
            /\ fds' = IF new THEN Opened(fds, fds[e.num]) ELSE fds
            /\ \E d : descs' = Sought(d, r.off)
            /\ \/ /\ handle' = [handle EXCEPT ![h] = y]
                  /\ call' = [call EXCEPT ![t] = c] /\ UNCHANGED <<todo, last>>
               \/ /\ handle' = [handle EXCEPT ![h] = z] /\ \E ans : Return(t, ans)
  <2>0. r.h = h
    BY <1>1
  <2>1. UNCHANGED <<tree, moved>>
    BY DEF OpenStream
  <2>2. CASE \E ans : /\ handle' = Unlocked(r.h) /\ Return(t, ans)
                      /\ UNCHANGED <<fds, descs>>
    BY <2>0, <2>1, <2>2 DEF Unlocked
  <2>3. CASE /\ er = "ok"
             /\ fds' = IF new THEN Opened(fds, fds[e.num]) ELSE fds
             /\ descs' = Sought(fds[IF new THEN e.num ELSE x.dirp], r.off)
             /\ \/ handle' = [handle EXCEPT ![r.h].dirp = IF new THEN NewFd ELSE @]
                     /\ Goto(t, "fill") /\ UNCHANGED <<todo, last>>
                \/ /\ handle' = [[handle EXCEPT ![r.h].dirp = IF new THEN NewFd ELSE @]
                                   EXCEPT ![r.h].lock = None]
                   /\ Return(t, Err("enomem"))
    <3>1. CASE /\ handle' = [handle EXCEPT ![r.h].dirp = IF new THEN NewFd ELSE @]
               /\ Goto(t, "fill") /\ UNCHANGED <<todo, last>>
      <4>1. handle' = [handle EXCEPT ![h] = y]
        BY <2>0, <3>1
      <4>2. call' = [call EXCEPT ![t] = c]
        BY <3>1 DEF Goto
      <4> HIDE DEF er, y, c
      <4> QED BY <2>1, <2>3, <3>1, <4>1, <4>2
    <3>2. CASE /\ handle' = [[handle EXCEPT ![r.h].dirp = IF new THEN NewFd ELSE @]
                                   EXCEPT ![r.h].lock = None]
               /\ Return(t, Err("enomem"))
      <4>1. handle' = [handle EXCEPT ![h] = z]
        BY <2>0, <3>2 DEF Inv, Types
      <4> HIDE DEF er, z
      <4> QED BY <2>1, <2>3, <3>2, <4>1
    <3> QED BY <2>3, <3>1, <3>2
  <2> QED BY <2>0, <2>2, <2>3 DEF OpenStream
<1>3. Mine(e) = {}
  BY <1>0, BareHas
<1>4. x \in HandleRec
  BY DEF Inv, Types
<1>5. CASE /\ handle' = [handle EXCEPT ![h].lock = None]
           /\ (\E ans : Return(t, ans)) /\ UNCHANGED <<fds, descs>>
  <2>1. /\ CallsOK' /\ OthersStay(t) /\ FdsType'
        /\ \E S, N \in SUBSET Fd : Trades(t, S, N)
    BY <1>0, <1>3, <1>5, EndsEmpty
  <2>2. KernelTypeOK'
    BY <1>0, <1>2, <1>5, <2>1, KernelHas DEF DescType, TreeType
  <2>3. Went(t)
    BY <1>5, <2>1, <2>2, DescsSame DEF Went
  <2>4. LockStep(h, None)
    BY <1>5 DEF LockStep
  <2>5. Kept /\ SameHandles
    BY <2>3, <2>4, WentKept
  <2>6. call'[t].pc = "idle"
    <3>1. call'[t] = Idle
      BY <1>0, <1>5, Ends
    <3>2. Idle.pc = "idle"
      BY DEF Idle
    <3> QED BY <3>1, <3>2
  <2>7. \A g \in Handle : g # h => handle'[g] = handle[g]
    BY <1>5 DEF Inv, Types
  <2> QED BY <1>1, <1>5, <2>1, <2>5, <2>6, <2>7, DescsSame DEF SameHandles
<1>6. CASE /\ er = "ok"
           /\ fds' = IF new THEN Opened(fds, fds[e.num]) ELSE fds
           /\ \E d : descs' = Sought(d, r.off)
           /\ \/ /\ handle' = [handle EXCEPT ![h] = y]
                 /\ call' = [call EXCEPT ![t] = c] /\ UNCHANGED <<todo, last>>
              \/ /\ handle' = [handle EXCEPT ![h] = z] /\ \E ans : Return(t, ans)
  <2>1. x.dir /\ fds[e.num] # None /\ (new => FreeFds # {})
    BY <1>6
  <2>2. x.st # "none"
    BY <2>1 DEF Inv, Unmade, HasNothing
  <2>3. /\ new => /\ NewFd \in Fd /\ fds[NewFd] = None
                  /\ fds' \in [Fd -> Fd \cup {None}] /\ fds'[NewFd] # None
                  /\ \A f \in Fd : f # NewFd => fds'[f] = fds[f]
        /\ ~new => fds' = fds
    <3>1. CASE new
      <4>1. fds[e.num] \in Fd /\ FreeFds # {} /\ fds' = Opened(fds, fds[e.num])
        BY <1>0, <1>6, <2>1, <3>1 DEF FdsType
      <4>2. PICK d \in Fd : d = fds[e.num]
        BY <4>1
      <4>3. FreeFds # {} /\ FdsType /\ fds' = Opened(fds, d)
        BY <1>0, <4>1, <4>2
      <4>4. /\ NewFd \in Fd /\ fds[NewFd] = None /\ fds' \in [Fd -> Fd \cup {None}]
            /\ fds'[NewFd] = d /\ \A f \in Fd : f # NewFd => fds'[f] = fds[f]
        BY <4>3, OpenedFds
      <4>5. d # None
        BY KernelAssumption
      <4> QED BY <3>1, <4>4, <4>5
    <3>2. CASE ~new
      BY <1>6, <3>2
    <3> QED BY <3>1, <3>2
  <2>4. dirp \in Fd
    BY <1>4, <2>3 DEF HandleRec
  <2>5. DescType' /\ DescsStay
    BY <1>0, <1>6, SoughtOK
  <2>6. /\ y \in HandleRec /\ y.fd = x.fd /\ y.dirp = dirp /\ y.st = x.st
        /\ y.file = x.file /\ y.lock = x.lock
    BY <1>4, <2>4 DEF HandleRec
  <2>7. /\ z \in HandleRec /\ z.fd = x.fd /\ z.dirp = dirp /\ z.st = x.st
        /\ z.file = x.file
    BY <1>4, <2>4 DEF HandleRec
  <2> HIDE DEF er, y, z, dirp
  <2>8. PICK w \in HandleRec :
           /\ handle' = [handle EXCEPT ![h] = w] /\ w.fd = x.fd /\ w.dirp = dirp
           /\ w.st = x.st /\ w.file = x.file
           /\ \/ /\ call' = [call EXCEPT ![t] = c] /\ UNCHANGED <<todo, last>>
                 /\ w.lock = x.lock
              \/ \E ans : Return(t, ans)
    BY <1>6, <2>6, <2>7
  <2>9. /\ (handle \in [Handle -> HandleRec])' /\ Unmade' /\ handle'[h] = w
        /\ \A g \in Handle : g # h => handle'[g] = handle[g]
    BY <2>2, <2>8, HandleSet
  <2>10. CallsOK' /\ OthersStay(t) /\ Mine(call'[t]) = {}
         /\ (handle'[h].lock # handle[h].lock => call'[t].pc = "idle")
    <3>1. CASE \E ans : Return(t, ans)
      <4>1. CallsOK' /\ OthersStay(t) /\ call'[t] = Idle
        BY <1>0, <3>1, Ends
      <4>2. Idle.pc = "idle"
        BY DEF Idle
      <4> QED BY <4>1, <4>2, IdleOK
    <3>2. CASE /\ call' = [call EXCEPT ![t] = c] /\ UNCHANGED <<todo, last>>
               /\ w.lock = x.lock
      <4>1. c \in CallRec
        BY <1>0 DEF CallRec, Pcs
      <4>2. /\ c.pc = "fill" /\ c.base = e.base /\ c.walk = e.walk /\ c.got = e.got
            /\ c.fd = e.fd /\ c.hop = e.hop
        BY <1>0 DEF CallRec
      <4> HIDE DEF c
      <4>3. StageOK(c, todo[t])
        BY <1>0, <4>2 DEF StageOK, Phase, Bare
      <4>4. Mine(c) = Mine(e) /\ (Apart(c) <=> Apart(e))
        BY <4>2, SamePlaces
      <4>5. CallOK(c, todo[t])
        BY <1>0, <4>1, <4>2, <4>3, <4>4 DEF CallsOK, CallOK
      <4>6. CallsOK' /\ call'[t] = c /\ OthersStay(t)
        BY <1>0, <3>2, <4>5, Goes
      <4> QED BY <1>3, <2>9, <3>2, <4>4, <4>6
    <3> QED BY <2>8, <3>1, <3>2
  <2>11. FdsType' /\ \A f \in Fd : fds[f] # None => fds'[f] = fds[f]
    BY <1>0, <2>3 DEF FdsType
  <2>12. KernelTypeOK'
    BY <1>0, <1>2, <2>5, <2>11, KernelHas DEF TreeType
  <2>13. Sole'
    <3>1. CASE new
      <4> DEFINE d == dirp
      <4>1. d \in Fd /\ fds[d] = None /\ fds'[d] # None
            /\ \A f \in Fd : f # d => fds'[f] = fds[f]
        BY <2>3, <3>1 DEF dirp
      <4>2. Holds(h)' = {x.fd, d} \ {None} /\ Holds(h) = {x.fd} \ {None} /\ d # None
        BY <2>8, <2>9, <3>1, <4>1, KernelAssumption DEF Holds
      <4>3. d \notin Holds(h) /\ d # x.fd
        BY <4>1, <4>2 DEF Inv, Sole, IsOpen
      <4>4. Holds(h)' = Holds(h) \cup {d}
        BY <4>2
      <4>5. handle'[h].fd = handle'[h].dirp => handle'[h].fd = None
        BY <2>8, <2>9, <4>3
      <4>6. Mine(call'[t]) = Mine(call[t]) \ {d}
        BY <1>3, <2>10
      <4> HIDE DEF d
      <4> QED BY <2>9, <2>10, <4>1, <4>3, <4>4, <4>5, <4>6, GetSole
    <3>2. CASE ~new
      <4>1. \A g \in Handle : handle'[g].fd = handle[g].fd /\ handle'[g].dirp = handle[g].dirp
        BY <2>8, <2>9, <3>2 DEF dirp
      <4>2. Mine(call'[t]) = Mine(call[t]) /\ fds' = fds
        BY <1>3, <2>3, <2>10, <3>2
      <4>3. \E S, N \in SUBSET Fd : Trades(t, S, N)
        BY <4>2, NoTrade
      <4>4. Went(t)
        BY <2>5, <2>10, <2>12, <4>3 DEF Went
      <4> QED BY <4>1, <4>4, TradeSole
    <3> QED BY <3>1, <3>2
  <2>14. Kept
    BY <2>9, <2>10, <2>12, <2>13 DEF Kept
  <2>15. \A g \in Handle : /\ handle'[g].fd = handle[g].fd
                           /\ handle'[g].st = handle[g].st
                           /\ handle'[g].file = handle[g].file
                           /\ handle'[g].lock # handle[g].lock =>
                                g = r.h /\ call'[t].pc = "idle"
    BY <1>1, <2>8, <2>9, <2>10
  <2> QED BY <2>5, <2>10, <2>11, <2>14, <2>15
<1> HIDE DEF er, y, z, c, new
<1> QED BY <1>2, <1>5, <1>6
-----------------------------------------------------------------------------
(* What a step does to the locks and to the answers                        *)

\* It leaves the handles alone; it is not the step that locks one, or that makes the
\* duplicate of one.
Silent(t) ==
    /\ handle' = handle /\ call'[t].pc # "held"
    /\ call'[t].pc \in {"fill", "made"} => todo' = todo
    /\ call'[t].pc = "fill" => At(t, "fill") \/ Req(t).op = "names"
    /\ call'[t].pc = "made" => Req(t).op # "dup"

\* It locks a handle that is open.
Takes(t) ==
    /\ handle[Target(t)].lock = None /\ LockStep(Target(t), t)
    /\ call' = [call EXCEPT ![t].pc = "held", ![t].num = handle[Target(t)].fd]
    /\ UNCHANGED todo

\* It unlocks the one it has locked.
LockedBy(t, h) == \/ At(t, "held") /\ h = Target(t)
                  \/ At(t, "fill") /\ Req(t).op = "readdir" /\ h = Req(t).h
Gives(t) ==
    /\ \E h \in Handle : LockedBy(t, h) /\ LockStep(h, None)
    /\ call'[t].pc \notin {"held", "fill"}
    /\ call'[t].pc = "made" =>
         /\ At(t, "held") /\ call[t].base = <<>> /\ todo' = todo
         /\ fds[call[t].num] # None /\ fds'[call'[t].fd] = fds[call[t].num]

\* It answers nothing, or a call that is not on an open file.
Quiet(t) ==
    \/ last' = last
    \/ /\ Req(t).op \notin AccessOps /\ last'[t].req = Req(t)
       /\ \A u \in Thread : u # t => last'[u] = last[u]

LEMMA EndsQuiet ==
  ASSUME Inv, NEW t \in Thread, todo[t] # <<>>, NEW ans, Return(t, ans)
  PROVE  /\ call'[t].pc = "idle" /\ (Req(t).op \notin AccessOps => Quiet(t))
         /\ handle' = handle => Silent(t)
<1>1. /\ call'[t] = Idle
      /\ last'[t] = [req |-> Req(t), ans |-> ans, left |-> Len(todo[t]) - 1]
      /\ \A u \in Thread : u # t => last'[u] = last[u]
  BY TypesHave, Ends DEF Inv
<1>2. Idle.pc = "idle"
  BY DEF Idle
<1> QED BY <1>1, <1>2 DEF Quiet, Silent

LEMMA FailQuiet ==
  ASSUME Inv, NEW t \in Thread, ~At(t, "idle"), NEW e, Fail(t, e)
  PROVE  /\ call'[t].pc = "idle" /\ (Req(t).op \notin AccessOps => Quiet(t))
         /\ handle' = handle => Silent(t)
<1>1. todo[t] # <<>> /\ Return(t, Err(e))
  BY TypesHave, ReqType DEF Inv, Fail
<1> QED BY <1>1, EndsQuiet

\* Another stage that is not one of those with a lock or a file to hand on.
LEMMA SetsSilent ==
  ASSUME Inv, NEW t \in Thread, NEW c, call' = [call EXCEPT ![t] = c],
         c.pc \notin {"held", "fill", "made"}, UNCHANGED <<handle, last>>
  PROVE  Silent(t) /\ Quiet(t)
<1>1. call'[t] = c
  BY TypesHave DEF Inv, CallsOK
<1> QED BY <1>1 DEF Silent, Quiet

\* The steps of a walk, whose calls are none of those on an open file.
LEMMA PathStage ==
  ASSUME Inv, NEW t \in Thread,
         call[t].pc \in {"root", "enter", "walk", "link", "final", "act", "rewind", "fill",
                         "made"}
  PROVE  Req(t).op \notin AccessOps /\ ~At(t, "idle") /\ call[t] \in CallRec
<1>1. ~At(t, "idle") /\ call[t] \in CallRec /\ Phase(call[t], Req(t))
  BY TypesHave, ReqType DEF Inv, At
<1> QED BY <1>1 DEF Phase, Based, AccessOps, OpenOps, PathOps, PairOps, Follow

LEMMA EnterSilent ==
  ASSUME Inv, NEW t \in Thread, Enter(t)
  PROVE  Silent(t) /\ Quiet(t)
<1>1. Req(t).op \notin AccessOps /\ ~At(t, "idle") /\ call[t] \in CallRec
      /\ handle' = handle
  BY PathStage DEF Enter, At
<1>2. CASE \E e : Fail(t, e)
  BY <1>1, <1>2, FailQuiet
<1>3. CASE ~\E e : Fail(t, e)
  <2>1. PICK w : /\ call' = [call EXCEPT ![t].pc = "walk", ![t].walk = w]
                 /\ UNCHANGED <<kvars, todo, last>>
    BY <1>3 DEF Enter
  <2> DEFINE c == [call[t] EXCEPT !.pc = "walk", !.walk = w]
  <2>2. call' = [call EXCEPT ![t] = c] /\ c.pc = "walk"
    BY <1>1, <2>1 DEF CallRec
  <2> HIDE DEF c
  <2> QED BY <1>1, <2>1, <2>2, SetsSilent
<1> QED BY <1>2, <1>3

LEMMA AdvanceSilent ==
  ASSUME Inv, NEW t \in Thread, NEW m, NEW d, Reopen(t, m, d) \/
         \E fl : Advance(t, m, fl, d), At(t, "walk"), UNCHANGED handle
  PROVE  Silent(t) /\ Quiet(t)
<1>1. Req(t).op \notin AccessOps /\ ~At(t, "idle") /\ call[t] \in CallRec
  BY PathStage DEF At
<1>2. CASE \E e : Fail(t, e)
  BY <1>1, <1>2, FailQuiet
<1>3. CASE ~\E e : Fail(t, e)
  <2>1. \E fl : Advance(t, m, fl, d)
    BY <1>3 DEF Reopen
  <2>2. PICK x : call' = [call EXCEPT ![t].walk[Depth(t)] = x] /\ UNCHANGED last
    BY <2>1 DEF Advance
  <2> DEFINE c == [call[t] EXCEPT !.walk = [call[t].walk EXCEPT ![Depth(t)] = x]]
  <2>3. call' = [call EXCEPT ![t] = c] /\ c.pc = "walk"
    BY <1>1, <2>2 DEF CallRec, At
  <2> HIDE DEF c
  <2> QED BY <2>2, <2>3, SetsSilent
<1> QED BY <1>2, <1>3

LEMMA StepSilent ==
  ASSUME Inv, NEW t \in Thread, StepDot(t) \/ StepUp(t) \/ StepName(t)
  PROVE  Silent(t) /\ Quiet(t)
<1>1. /\ Req(t).op \notin AccessOps /\ ~At(t, "idle") /\ call[t] \in CallRec
      /\ handle' = handle /\ At(t, "walk")
  BY PathStage DEF StepDot, StepUp, StepName, Stepping, At
<1>2. CASE \E e : Fail(t, e)
  BY <1>1, <1>2, FailQuiet
<1>3. CASE \E m, d : Reopen(t, m, d) \/ \E fl : Advance(t, m, fl, d)
  BY <1>1, <1>3, AdvanceSilent
<1>4. CASE \E e : call' = [call EXCEPT ![t].pc = "link", ![t].err = e] /\ UNCHANGED last
  <2>1. PICK e : call' = [call EXCEPT ![t].pc = "link", ![t].err = e] /\ UNCHANGED last
    BY <1>4
  <2> DEFINE c == [call[t] EXCEPT !.pc = "link", !.err = e]
  <2>2. call' = [call EXCEPT ![t] = c] /\ c.pc = "link"
    BY <1>1, <2>1 DEF CallRec
  <2> HIDE DEF c
  <2> QED BY <1>1, <2>1, <2>2, SetsSilent
<1> QED BY <1>2, <1>3, <1>4 DEF StepDot, StepUp, StepName

LEMMA LinkSilent ==
  ASSUME Inv, NEW t \in Thread, StepLink(t) \/ StepBack(t)
  PROVE  Silent(t) /\ Quiet(t)
<1>1. /\ Req(t).op \notin AccessOps /\ ~At(t, "idle") /\ call[t] \in CallRec
      /\ handle' = handle
  BY PathStage DEF StepLink, StepBack, At
<1>2. CASE \E e : Fail(t, e)
  BY <1>1, <1>2, FailQuiet
<1>3. CASE \E w : call' = [call EXCEPT ![t].pc = "walk", ![t].walk = w] /\ UNCHANGED last
  <2>1. PICK w : call' = [call EXCEPT ![t].pc = "walk", ![t].walk = w] /\ UNCHANGED last
    BY <1>3
  <2> DEFINE c == [call[t] EXCEPT !.pc = "walk", !.walk = w]
  <2>2. call' = [call EXCEPT ![t] = c] /\ c.pc = "walk"
    BY <1>1, <2>1 DEF CallRec
  <2> HIDE DEF c
  <2> QED BY <1>1, <2>1, <2>2, SetsSilent
<1>4. CASE /\ \E w : call' = [call EXCEPT ![t].walk = w]
           /\ At(t, "walk") /\ UNCHANGED last
  <2>1. PICK w : call' = [call EXCEPT ![t].walk = w]
    BY <1>4
  <2> DEFINE c == [call[t] EXCEPT !.walk = w]
  <2>2. call' = [call EXCEPT ![t] = c] /\ c.pc = "walk"
    BY <1>1, <1>4, <2>1 DEF CallRec, At
  <2> HIDE DEF c
  <2> QED BY <1>1, <1>4, <2>1, <2>2, SetsSilent
<1>5. CASE StepLink(t)
  BY <1>2, <1>3, <1>5 DEF StepLink
<1>6. CASE StepBack(t)
  BY <1>4, <1>6 DEF StepBack
<1> QED BY <1>5, <1>6

LEMMA OpenDoneSilent ==
  ASSUME Inv, NEW t \in Thread, OpenDone(t)
  PROVE  Silent(t) /\ Quiet(t)
<1>1. At(t, "walk") /\ UNCHANGED <<handle, todo, last>>
  BY DEF OpenDone
<1>2. call[t] \in CallRec /\ Phase(call[t], Req(t))
  BY <1>1, TypesHave, ReqType DEF Inv, At
<1>3. Req(t).op # "dup"
  BY <1>1, <1>2 DEF Phase, Based, At, PathOps, PairOps, Follow
<1>4. call'[t].pc = "made"
  <2> DEFINE c == [Idle EXCEPT !.pc = "made", !.fd = Frm(t).cur]
  <2>1. call' = [call EXCEPT ![t] = c]
    BY DEF OpenDone
  <2>2. c.pc = "made"
    BY DEF Idle
  <2> HIDE DEF c
  <2> QED BY <2>1, <2>2, TypesHave DEF Inv, CallsOK
<1> QED BY <1>1, <1>3, <1>4 DEF Silent, Quiet

LEMMA ParentDoneSilent ==
  ASSUME Inv, NEW t \in Thread, ParentDone(t)
  PROVE  Silent(t) /\ Quiet(t)
<1>1. /\ Req(t).op \notin AccessOps /\ ~At(t, "idle") /\ call[t] \in CallRec
      /\ handle' = handle
  BY PathStage DEF ParentDone, At
<1>2. CASE \E e : Fail(t, e)
  BY <1>1, <1>2, FailQuiet
<1>3. CASE ~\E e : Fail(t, e)
  <2> DEFINE next == CASE Req(t).op \in Follow -> "final"
                       [] Req(t).op \in PairOps /\ call[t].got = <<>> -> "enter"
                       [] OTHER -> "act"
  <2>1. PICK got, path :
          /\ call' = [call EXCEPT ![t].walk = <<>>, ![t].got = got, ![t].path = path,
                                  ![t].pc = next]
          /\ UNCHANGED last
    BY <1>3 DEF ParentDone
  <2>2. next \in {"final", "enter", "act"}
    BY DEF Follow, PairOps
  <2> HIDE DEF next
  <2> DEFINE c == [call[t] EXCEPT !.walk = <<>>, !.got = got, !.path = path, !.pc = next]
  <2>3. call' = [call EXCEPT ![t] = c] /\ c.pc = next
    BY <1>1, <2>1 DEF CallRec
  <2> HIDE DEF c
  <2> QED BY <1>1, <2>1, <2>2, <2>3, SetsSilent
<1> QED BY <1>2, <1>3

LEMMA ResolveSilent ==
  ASSUME Inv, NEW t \in Thread, Resolve(t)
  PROVE  Silent(t) /\ Quiet(t)
<1>1. /\ Req(t).op \notin AccessOps /\ ~At(t, "idle") /\ call[t] \in CallRec
      /\ handle' = handle
  BY PathStage DEF Resolve, At
<1>2. CASE \E e : Fail(t, e)
  BY <1>1, <1>2, FailQuiet
<1>3. CASE ~\E e : Fail(t, e)
  <2>1. \/ \E name : /\ call' = [call EXCEPT ![t].pc = "act", ![t].got[1].name = name]
                     /\ UNCHANGED last
        \/ \E p : /\ call' = [call EXCEPT ![t].pc = "enter", ![t].path = p, ![t].hop = @ + 1]
                  /\ UNCHANGED last
    BY <1>3 DEF Resolve
  <2>2. ASSUME NEW name,
               call' = [call EXCEPT ![t].pc = "act", ![t].got[1].name = name],
               UNCHANGED last
        PROVE  Silent(t) /\ Quiet(t)
    <3> DEFINE c == [call[t] EXCEPT !.pc = "act",
                       !.got = [call[t].got EXCEPT ![1] =
                                  [call[t].got[1] EXCEPT !.name = name]]]
    <3>1. call' = [call EXCEPT ![t] = c] /\ c.pc = "act"
      BY <1>1, <2>2 DEF CallRec
    <3> HIDE DEF c
    <3> QED BY <1>1, <2>2, <3>1, SetsSilent
  <2>3. ASSUME NEW p,
               call' = [call EXCEPT ![t].pc = "enter", ![t].path = p, ![t].hop = @ + 1],
               UNCHANGED last
        PROVE  Silent(t) /\ Quiet(t)
    <3> DEFINE c == [call[t] EXCEPT !.pc = "enter", !.path = p, !.hop = call[t].hop + 1]
    <3>1. call' = [call EXCEPT ![t] = c] /\ c.pc = "enter"
      BY <1>1, <2>3 DEF CallRec
    <3> HIDE DEF c
    <3> QED BY <1>1, <2>3, <3>1, SetsSilent
  <2> QED BY <2>1, <2>2, <2>3
<1> QED BY <1>2, <1>3

LEMMA ActSilent ==
  ASSUME Inv, NEW t \in Thread, PathAct(t) \/ PairAct(t) \/ NoMemory(t)
  PROVE  Silent(t) /\ Quiet(t)
<1>1. /\ Req(t).op \notin AccessOps /\ ~At(t, "idle") /\ handle' = handle
  BY PathStage DEF PathAct, PairAct, NoMemory, At
<1>2. todo[t] # <<>>
  BY <1>1, TypesHave, ReqType DEF Inv
<1>3. \E ans : Return(t, ans)
  BY DEF PathAct, PairAct, NoMemory, Fail
<1> QED BY <1>1, <1>2, <1>3, EndsQuiet

LEMMA OpenRootSilent ==
  ASSUME Inv, NEW t \in Thread, OpenRoot(t)
  PROVE  Silent(t) /\ Quiet(t)
<1>1. /\ Req(t).op \notin AccessOps /\ ~At(t, "idle") /\ call[t] \in CallRec
      /\ handle' = handle
  BY PathStage DEF OpenRoot, At
<1>2. CASE \E e : Fail(t, e)
  BY <1>1, <1>2, FailQuiet
<1>3. CASE ~\E e : Fail(t, e)
  <2> DEFINE next == IF Req(t).op = "open_dir" THEN "made" ELSE "enter"
             fd == IF Req(t).op = "open_dir" THEN NewFd ELSE call[t].fd
             base == IF Req(t).op = "open_dir" THEN call[t].base ELSE <<NewFd>>
             c == [call[t] EXCEPT !.pc = next, !.fd = fd, !.base = base,
                                  !.path = Req(t).path]
  <2>1. call' = [call EXCEPT ![t] = c] /\ UNCHANGED <<todo, last>>
    BY <1>3 DEF OpenRoot
  <2>2. c.pc = next
    BY <1>1 DEF CallRec
  <2> HIDE DEF c
  <2>3. call'[t] = c
    BY <2>1, TypesHave DEF Inv, CallsOK
  <2>4. next = "made" => Req(t).op # "dup"
    OBVIOUS
  <2>5. next \in {"made", "enter"}
    OBVIOUS
  <2> HIDE DEF next
  <2> QED BY <1>1, <2>1, <2>2, <2>3, <2>4, <2>5 DEF Silent, Quiet
<1> QED BY <1>2, <1>3

\* The loop of a listing.
LEMMA FillSilent ==
  ASSUME Inv, NEW t \in Thread, At(t, "fill"), UNCHANGED <<handle, todo, last>>,
         NEW c, call' = [call EXCEPT ![t] = c], c.pc = "fill"
  PROVE  Silent(t) /\ Quiet(t)
<1>1. call'[t] = c
  BY TypesHave DEF Inv, CallsOK
<1> QED BY <1>1 DEF Silent, Quiet

LEMMA ListSilent ==
  ASSUME Inv, NEW t \in Thread, Rewind(t) \/ Getdents(t) \/ TakeName(t)
  PROVE  Silent(t) /\ Quiet(t)
<1>1. /\ Req(t).op \notin AccessOps /\ ~At(t, "idle") /\ call[t] \in CallRec
      /\ handle' = handle
  BY PathStage DEF Rewind, Getdents, TakeName, At
<1>2. CASE Rewind(t)
  <2>1. CASE \E e : Fail(t, e)
    BY <1>1, <2>1, FailQuiet
  <2>2. CASE Goto(t, "fill") /\ UNCHANGED <<todo, last>>
    <3> DEFINE c == [call[t] EXCEPT !.pc = "fill"]
    <3>1. call' = [call EXCEPT ![t] = c] /\ c.pc = "fill"
      BY <1>1, <2>2 DEF Goto, CallRec
    <3> HIDE DEF c
    <3>2. call'[t] = c
      BY <3>1, TypesHave DEF Inv, CallsOK
    <3>3. Req(t).op = "names"
      BY <1>1, <1>2, TypesHave, ReqType DEF Inv, Rewind, At, Phase
    <3> QED BY <1>1, <2>2, <3>1, <3>2, <3>3 DEF Silent, Quiet
  <2> QED BY <1>2, <2>1, <2>2 DEF Rewind
<1>3. CASE Getdents(t)
  <2> DEFINE c == [call[t] EXCEPT !.buf = Dents(Stream(t))]
  <2>1. call' = [call EXCEPT ![t] = c] /\ UNCHANGED <<todo, last>> /\ At(t, "fill")
    BY <1>3 DEF Getdents
  <2>2. c.pc = "fill"
    BY <1>1, <2>1 DEF CallRec, At
  <2> HIDE DEF c
  <2> QED BY <1>1, <2>1, <2>2, FillSilent
<1>4. CASE TakeName(t)
  <2> DEFINE i == Min(call[t].buf)
             c == [call[t] EXCEPT !.buf = call[t].buf \ {i},
                                  !.out = <<Order[i]>> \o call[t].out]
  <2>1. call' = [call EXCEPT ![t] = c] /\ UNCHANGED <<todo, last>> /\ At(t, "fill")
    BY <1>1, <1>4 DEF TakeName, CallRec
  <2>2. c.pc = "fill"
    BY <1>1, <2>1 DEF CallRec, At
  <2> HIDE DEF c
  <2> QED BY <1>1, <2>1, <2>2, FillSilent
<1> QED BY <1>2, <1>3, <1>4

LEMMA FinishQuiet ==
  ASSUME Inv, NEW t \in Thread, At(t, "fill"), NEW out, NEW used, NEW er,
         Finish(t, out, used, er)
  PROVE  Quiet(t) /\ (Silent(t) \/ Gives(t))
<1>1. /\ Req(t).op \notin AccessOps /\ ~At(t, "idle")
      /\ todo[t] # <<>> /\ (Req(t).op = "names" \/ Req(t).op = "readdir")
      /\ Req(t) \in Request
  BY PathStage, FillHas DEF At
<1>2. \E ans : Return(t, ans)
  BY DEF Finish
<1>3. /\ call'[t].pc = "idle" /\ Quiet(t)
      /\ handle' = handle => Silent(t)
  BY <1>1, <1>2, EndsQuiet
<1>4. CASE Req(t).op = "names"
  BY <1>3, <1>4 DEF Finish
<1>5. CASE Req(t).op = "readdir"
  <2>1. Req(t).h \in Handle /\ handle' = Unlocked(Req(t).h)
    BY <1>1, <1>5, RequestAssumption DEF Finish, OpenOps
  <2>2. LockStep(Req(t).h, None)
    BY <2>1 DEF LockStep, Unlocked
  <2>3. LockedBy(t, Req(t).h)
    BY <1>5 DEF LockedBy
  <2> QED BY <1>3, <2>1, <2>2, <2>3 DEF Gives
<1> QED BY <1>1, <1>4, <1>5

LEMMA FinishesQuiet ==
  ASSUME Inv, NEW t \in Thread, EndOfDir(t) \/ ReadFails(t) \/ PackEntry(t)
  PROVE  Quiet(t) /\ (Silent(t) \/ Gives(t))
<1>1. At(t, "fill") /\ call[t] \in CallRec
  BY PathStage DEF EndOfDir, ReadFails, PackEntry, At
<1>2. CASE \E out, used, er : Finish(t, out, used, er)
  BY <1>1, <1>2, FinishQuiet
<1>3. CASE PackEntry(t) /\ ~\E out, used, er : Finish(t, out, used, er)
  <2> DEFINE i == Min(call[t].buf)
             esz == EntrySize(Order[i])
             c == [call[t] EXCEPT !.buf = call[t].buf \ {i}, !.used = call[t].used + esz,
                                  !.out = Append(call[t].out, Packed(i, esz))]
  <2>0. /\ call' = [call EXCEPT ![t].buf = @ \ {i}, ![t].used = @ + esz,
                                ![t].out = Append(@, Packed(i, esz))]
        /\ UNCHANGED <<handle, todo, last>>
    BY <1>3 DEF PackEntry
  <2> HIDE DEF i, esz
  <2>1. call' = [call EXCEPT ![t] = c]
    BY <1>1, <2>0 DEF CallRec
  <2>2. c.pc = "fill"
    BY <1>1 DEF CallRec, At
  <2> HIDE DEF c
  <2> QED BY <1>1, <2>0, <2>1, <2>2, FillSilent
<1> QED BY <1>2, <1>3 DEF EndOfDir, ReadFails

\* The steps that take a lock or give it back.
LEMMA HeldHas ==
  ASSUME Inv, NEW t \in Thread, At(t, "lock") \/ At(t, "held")
  PROVE  /\ ~At(t, "idle") /\ call[t] \in CallRec /\ todo[t] # <<>>
         /\ Target(t) \in Handle /\ Target(t) \in Named(Head(todo[t]))
         /\ Req(t) \in Request /\ Req(t).h \in Handle /\ ~BadArgs(Req(t))
         /\ Req(t).op \notin PairOps => call[t].base = <<>> /\ Target(t) = Req(t).h
         /\ Mine(call[t]) = Bases(call[t].base)
<1>1. /\ ~At(t, "idle") /\ call[t] \in CallRec /\ todo[t] # <<>> /\ Phase(call[t], Req(t))
      /\ Req(t) \in Request /\ ~BadArgs(Req(t))
  BY TypesHave, ReqType DEF Inv, At
<1>2. /\ Req(t).h \in Handle /\ Bare(call[t])
      /\ call[t].base = <<>> \/ Req(t).op \in PairOps
  BY <1>1 DEF Phase, At
<1>3. Req(t).op \in PairOps => Req(t).h2 \in Handle
  BY <1>1, RequestAssumption
<1>4. None \notin Handle
  BY HandleAssumption
<1>5. Target(t) \in Handle /\ Target(t) \in Named(Head(todo[t]))
  BY <1>2, <1>3, <1>4 DEF Target, Named, Req
<1>6. Mine(call[t]) = Bases(call[t].base)
  BY <1>2 DEF Bare, Mine, Walked, Gotten
<1> QED BY <1>1, <1>2, <1>5, <1>6 DEF Target

\* A request with bad arguments is answered at once.
Refuses(t) == /\ Req(t).op \in AccessOps /\ BadArgs(Req(t)) /\ Return(t, Err("badarg"))
              /\ todo[t] # <<>> /\ UNCHANGED kvars

LEMMA BeginSilent ==
  ASSUME Inv, NEW t \in Thread, Begin(t)
  PROVE  Silent(t) /\ (Quiet(t) \/ Refuses(t))
<1>1. call[t] \in CallRec /\ todo[t] # <<>> /\ UNCHANGED <<kvars, handle>>
      /\ handle' = handle
  BY TypesHave DEF Inv, CallsOK, Begin
<1>2. CASE \E ans : Return(t, ans)
  <2>1. Silent(t) /\ (Req(t).op \notin AccessOps => Quiet(t))
    BY <1>1, <1>2, EndsQuiet
  <2>2. ASSUME Req(t).op \in AccessOps, Return(t, Err(IF BadArgs(Req(t)) THEN "badarg" ELSE "enametoolong")),
               BadArgs(Req(t)) \/ TooLong(Req(t))
        PROVE  Refuses(t)
    <3>1. ~TooLong(Req(t))
      BY <2>2 DEF TooLong, AccessOps, PathOps, PairOps, Follow
    <3> QED BY <1>1, <2>2, <3>1 DEF Refuses
  <2>3. CASE BadArgs(Req(t)) \/ TooLong(Req(t))
    BY <2>1, <2>2, <2>3 DEF Begin
  <2>4. CASE ~(BadArgs(Req(t)) \/ TooLong(Req(t)))
    BY <2>1, <2>4 DEF Begin, Quiet
  <2> QED BY <2>3, <2>4
<1>3. CASE ~\E ans : Return(t, ans)
  <2> DEFINE next == IF Req(t).h = None THEN "root" ELSE "lock"
             c == [call[t] EXCEPT !.pc = next]
  <2>1. call' = [call EXCEPT ![t] = c] /\ UNCHANGED last
    BY <1>1, <1>3 DEF Begin, Goto
  <2>2. c.pc = next /\ next \in {"root", "lock"}
    BY <1>1 DEF CallRec
  <2> HIDE DEF c, next
  <2> QED BY <1>1, <2>1, <2>2, SetsSilent
<1> QED BY <1>2, <1>3

\* A call on a handle that is closed.
Misses(t) == /\ handle[Target(t)].fd = None /\ handle' = handle /\ Fail(t, "ebadf")
             /\ ~At(t, "idle") /\ At(t, "lock")

LEMMA LockSilent ==
  ASSUME Inv, NEW t \in Thread, Lock(t)
  PROVE  \/ Takes(t) /\ Quiet(t) /\ UNCHANGED kvars
         \/ Silent(t) /\ Misses(t) /\ (Req(t).op \in AccessOps \/ Quiet(t))
<1>1. At(t, "lock") /\ handle[Target(t)].lock = None /\ Target(t) \in Handle /\ ~At(t, "idle")
  BY HeldHas DEF Lock
<1>2. CASE handle[Target(t)].fd = None
  <2>1. Fail(t, "ebadf") /\ handle' = handle
    BY <1>2 DEF Lock
  <2>2. Silent(t) /\ (Req(t).op \notin AccessOps => Quiet(t))
    BY <1>1, <2>1, FailQuiet
  <2> QED BY <1>1, <1>2, <2>1, <2>2 DEF Misses
<1>3. CASE handle[Target(t)].fd # None
  <2>1. LockStep(Target(t), t)
    BY <1>1, <1>3 DEF Lock, Locked, LockStep
  <2> QED BY <1>1, <1>3, <2>1 DEF Lock, Takes, Quiet
<1> QED BY <1>2, <1>3

LEMMA AccessGives ==
  ASSUME Inv, NEW t \in Thread, Access(t)
  PROVE  Gives(t)
<1>1. At(t, "held") /\ Req(t).op \in AccessOps /\ handle' = Unlocked(Req(t).h)
      /\ \E ans : Return(t, ans)
  BY DEF Access
<1>2. /\ Target(t) = Req(t).h /\ Target(t) \in Handle /\ todo[t] # <<>>
  BY <1>1, HeldHas DEF AccessOps, PairOps
<1>3. call'[t].pc = "idle"
  BY <1>1, <1>2, EndsQuiet
<1>4. LockStep(Target(t), None) /\ LockedBy(t, Target(t))
  BY <1>1, <1>2 DEF LockStep, LockedBy, Unlocked
<1> QED BY <1>2, <1>3, <1>4 DEF Gives

LEMMA NoBinarySilent ==
  ASSUME Inv, NEW t \in Thread, NoBinary(t)
  PROVE  Silent(t) /\ handle' = handle
<1>1. /\ handle' = handle /\ todo[t] # <<>> /\ \E ans : Return(t, ans)
  BY HeldHas DEF NoBinary
<1> QED BY <1>1, EndsQuiet

LEMMA DupGives ==
  ASSUME Inv, NEW t \in Thread, DupHandle(t) \/ DirDup(t) \/ NamesDup(t)
  PROVE  Gives(t) /\ Quiet(t)
<1>0. At(t, "held") /\ Req(t).op \notin AccessOps
  BY DEF DupHandle, DirDup, NamesDup, AccessOps, PathOps, PairOps, Follow
<1>1. /\ Target(t) \in Handle /\ todo[t] # <<>> /\ ~At(t, "idle") /\ call[t] \in CallRec
      /\ Req(t).op \notin PairOps => Target(t) = Req(t).h /\ call[t].base = <<>>
  BY <1>0, HeldHas
<1>2. handle' = Unlocked(Target(t))
  BY <1>1 DEF DupHandle, DirDup, NamesDup, PairOps
<1>3. LockedBy(t, Target(t)) /\ LockStep(Target(t), None)
  BY <1>0, <1>1, <1>2 DEF LockStep, LockedBy, Unlocked
<1>4. CASE \E e : Fail(t, e)
  <2>1. call'[t].pc = "idle" /\ Quiet(t)
    BY <1>0, <1>1, <1>4, FailQuiet
  <2> QED BY <1>1, <1>3, <2>1 DEF Gives
<1>5. CASE DupHandle(t) /\ ~\E e : Fail(t, e)
  <2>1. /\ DupErr(t) = "ok" /\ fds' = Duplicated(t) /\ UNCHANGED <<todo, last>>
        /\ call' = [call EXCEPT ![t].pc = "made", ![t].fd = NewFd]
    BY <1>5 DEF DupHandle
  <2> DEFINE c == [call[t] EXCEPT !.pc = "made", !.fd = NewFd]
  <2>2. call' = [call EXCEPT ![t] = c] /\ c.pc = "made" /\ c.fd = NewFd
    BY <1>1, <2>1 DEF CallRec
  <2> HIDE DEF c
  <2>3. call'[t] = c
    BY <2>2, TypesHave DEF Inv, CallsOK
  <2>4. FdsType /\ FdsType /\ call[t].num \in Fd
    BY <1>0, <1>1, TypesHave, ReqType DEF Inv, Phase, At
  <2>5. fds[call[t].num] \in Fd /\ FreeFds # {}
    BY <2>1, <2>4, DupOk
  <2>6. fds'[NewFd] = fds[call[t].num] /\ fds[call[t].num] # None
    BY <2>1, <2>4, <2>5, OpenedFds, KernelAssumption DEF Duplicated
  <2>7. call[t].base = <<>>
    BY <1>1, <1>5 DEF DupHandle, PairOps
  <2>8. Gives(t)
    BY <1>0, <1>1, <1>3, <2>1, <2>2, <2>3, <2>6, <2>7 DEF Gives
  <2> QED BY <2>1, <2>8 DEF Quiet
<1>6. CASE DirDup(t) /\ ~\E e : Fail(t, e)
  <2> DEFINE more == Req(t).op \in PairOps /\ call[t].base = <<>>
             next == IF more THEN "lock" ELSE "enter"
             c == [call[t] EXCEPT !.pc = next, !.base = Append(call[t].base, NewFd),
                                  !.path = Req(t).path]
  <2>1. /\ call' = [call EXCEPT ![t] = c] /\ UNCHANGED last
    BY <1>1, <1>6 DEF DirDup, CallRec
  <2>2. c.pc = next
    BY <1>1 DEF CallRec
  <2> HIDE DEF c
  <2>3. call'[t] = c
    BY <2>1, TypesHave DEF Inv, CallsOK
  <2> QED BY <1>1, <1>3, <2>1, <2>2, <2>3 DEF Gives, Quiet
<1>7. CASE NamesDup(t) /\ ~\E e : Fail(t, e)
  <2> DEFINE c == [call[t] EXCEPT !.pc = "rewind", !.base = <<NewFd>>]
  <2>1. /\ call' = [call EXCEPT ![t] = c] /\ UNCHANGED last
    BY <1>1, <1>7 DEF NamesDup, CallRec
  <2>2. c.pc = "rewind"
    BY <1>1 DEF CallRec
  <2> HIDE DEF c
  <2>3. call'[t] = c
    BY <2>1, TypesHave DEF Inv, CallsOK
  <2> QED BY <1>1, <1>3, <2>1, <2>2, <2>3 DEF Gives, Quiet
<1> QED BY <1>4, <1>5, <1>6, <1>7
-----------------------------------------------------------------------------
(* Handles are for files: what a thread knows of a handle while it has it  *)
(* locked, and what a handle and the duplicate of one stand for            *)

\* The script of a thread changes when its call ends.
TodoStay(t) ==
    /\ \A u \in Thread : u # t => todo'[u] = todo[u]
    /\ todo' = todo \/ call'[t].pc = "idle"

LEMMA EndsTodo ==
  ASSUME Inv, NEW t \in Thread, NEW ans, Return(t, ans)
  PROVE  TodoStay(t)
<1>1. todo' = [todo EXCEPT ![t] = Tail(todo[t])] /\ call' = [call EXCEPT ![t] = Idle]
  BY DEF Return
<1>2. call'[t] = Idle
  BY <1>1, TypesHave DEF Inv, CallsOK
<1>3. \A u \in Thread : u # t => todo'[u] = todo[u]
  BY <1>1, TypesHave DEF Inv, CallsOK
<1>4. Idle.pc = "idle"
  BY DEF Idle
<1> QED BY <1>2, <1>3, <1>4 DEF TodoStay

LEMMA IdleBegins ==
  ASSUME NEW t, At(t, "idle"), Step(t)
  PROVE  Begin(t)
BY DEF At, Step, HandleStep, WalkStep, ListStep, Lock, NoBinary, Access, Close, DupHandle, DirDup,
   OpenRoot, Make, NoMemory, Enter, StepDot, StepUp, StepName, Stepping, StepLink, StepBack,
   OpenDone, ParentDone, Resolve, PathAct, PairAct, OpenStream, NamesDup, Rewind, Getdents,
   EndOfDir, ReadFails, TakeName, PackEntry

\* A call ends with an answer, or it goes on.
Busy(t) == UNCHANGED <<todo, last>> /\ call'[t].pc # "idle"

LEMMA BusyOrEnds ==
  ASSUME Inv, NEW t \in Thread, ~At(t, "idle"), Step(t)
  PROVE  Busy(t) \/ \E ans : Return(t, ans)
<1>1. call \in [Thread -> CallRec] /\ call[t] \in CallRec /\ call[t].pc # "idle"
  BY TypesHave DEF Inv, CallsOK, At
<1>2. DOMAIN call = Thread /\ "pc" \in DOMAIN call[t]
  BY <1>1 DEF CallRec
<1>3. \A e : Fail(t, e) => \E ans : Return(t, ans)
  BY DEF Fail
<1>5. \A o, n, e : Finish(t, o, n, e) => \E ans : Return(t, ans)
  BY DEF Finish
<1>4. ASSUME NEW m, NEW d, NEW fl, Advance(t, m, fl, d) PROVE Busy(t)
  BY <1>1, <1>4 DEF Advance, Busy, CallRec
<1>6. ASSUME NEW m, NEW d, Reopen(t, m, d) PROVE Busy(t) \/ \E ans : Return(t, ans)
  BY <1>3, <1>4, <1>6 DEF Reopen
<1>7. CASE Lock(t)
  BY <1>1, <1>3, <1>7 DEF Lock, Busy, CallRec
<1>8. CASE Begin(t) \/ NoBinary(t) \/ Access(t) \/ Close(t) \/ Make(t) \/ NoMemory(t)
  BY <1>1, <1>3, <1>8 DEF Begin, NoBinary, Access, Close, Make, NoMemory, At
<1>9. CASE DupHandle(t)
  BY <1>1, <1>3, <1>9 DEF DupHandle, Busy, CallRec
<1>10. CASE DirDup(t)
  BY <1>1, <1>3, <1>10 DEF DirDup, Busy, CallRec
<1>11. CASE OpenRoot(t)
  BY <1>1, <1>3, <1>11 DEF OpenRoot, Busy, CallRec
<1>12. CASE Enter(t)
  BY <1>1, <1>3, <1>12 DEF Enter, Busy, CallRec
<1>13. CASE StepDot(t) \/ StepUp(t)
  BY <1>1, <1>3, <1>6, <1>13 DEF StepDot, StepUp
<1>14. CASE StepName(t)
  BY <1>1, <1>3, <1>4, <1>14 DEF StepName, Busy, CallRec
<1>15. CASE StepLink(t)
  BY <1>1, <1>3, <1>15 DEF StepLink, Busy, CallRec
<1>16. CASE StepBack(t)
  BY <1>1, <1>16 DEF StepBack, Busy, CallRec
<1>17. CASE OpenDone(t)
  BY <1>1, <1>17 DEF OpenDone, Busy, Idle
<1>18. CASE ParentDone(t)
  BY <1>1, <1>3, <1>18 DEF ParentDone, Busy, CallRec
<1>19. CASE Resolve(t)
  BY <1>1, <1>3, <1>19 DEF Resolve, Busy, CallRec
<1>20. CASE PathAct(t) \/ PairAct(t)
  BY <1>3, <1>20 DEF PathAct, PairAct
<1>21. CASE OpenStream(t)
  BY <1>1, <1>21 DEF OpenStream, Goto, Busy, CallRec
<1>22. CASE NamesDup(t)
  BY <1>1, <1>3, <1>22 DEF NamesDup, Busy, CallRec
<1>23. CASE Rewind(t)
  BY <1>1, <1>3, <1>23 DEF Rewind, Goto, Busy, CallRec
<1>24. CASE Getdents(t) \/ TakeName(t)
  BY <1>1, <1>24 DEF Getdents, TakeName, Busy, CallRec
<1>25. CASE EndOfDir(t) \/ ReadFails(t)
  BY <1>5, <1>25 DEF EndOfDir, ReadFails
<1>26. CASE PackEntry(t)
  BY <1>1, <1>5, <1>26 DEF PackEntry, Busy, CallRec
<1> QED BY <1>7, <1>8, <1>9, <1>10, <1>11, <1>12, <1>13, <1>14, <1>15, <1>16, <1>17, <1>18,
           <1>19, <1>20, <1>21, <1>22, <1>23, <1>24, <1>25, <1>26
        DEF Step, HandleStep, WalkStep, ListStep

LEMMA StepEnds ==
  ASSUME Inv, NEW t \in Thread, Step(t)
  PROVE  /\ todo[t] # <<>>
         /\ UNCHANGED <<todo, last>> \/ \E ans : Return(t, ans)
<1>1. CASE At(t, "idle")
  BY <1>1, IdleBegins DEF Begin
<1>2. CASE ~At(t, "idle")
  BY <1>2, BusyOrEnds, TypesHave, ReqType DEF Busy, Inv
<1> QED BY <1>1, <1>2

LEMMA StepTodo ==
  ASSUME Inv, NEW t \in Thread, Step(t)
  PROVE  TodoStay(t)
BY StepEnds, EndsTodo DEF TodoStay

LEMMA FileStays ==
  ASSUME Inv, DescsStay, NEW f \in Fd, fds[f] # None, NEW g, fds'[g] = fds[f]
  PROVE  FileOf(g)' = FileOf(f)
BY DEF FileOf, NodeOf, DescsStay

\* A thread that does nothing, and whose handles are left to it.
LEMMA ThreadKeeps ==
  ASSUME Full, NEW u \in Thread, call'[u] = call[u], todo'[u] = todo[u], DescsStay,
         \A f \in Mine(call[u]) : fds'[f] = fds[f],
         \A h \in Handle :
           ~At(u, "idle") /\ h \in Named(Req(u)) /\ handle[h].st = "live" =>
             /\ handle'[h].st = "live" /\ handle'[h].file = handle[h].file
             /\ handle[h].lock = u => handle'[h].lock = u /\ handle'[h].fd = handle[h].fd
  PROVE  Knows(u)'
<1>1. Inv /\ CallsOK /\ Held(u) /\ Copied(u) /\ Live(u)
  BY TypesHave DEF Full, Knows, Inv
<1>2. /\ Req(u)' = Req(u) /\ Target(u)' = Target(u) /\ \A p : At(u, p)' <=> At(u, p)
  BY DEF Req, Target, At
<1>3. ~At(u, "idle") => Named(Req(u)) \subseteq Handle
  <2> SUFFICES ASSUME ~At(u, "idle") PROVE Named(Req(u)) \subseteq Handle
    OBVIOUS
  <2>1. Req(u) \in Request
    BY <1>1, ReqType
  <2> QED BY <2>1, RequestAssumption DEF Named
<1>4. Live(u)'
  BY <1>1, <1>2, <1>3 DEF Live
<1>5. ASSUME At(u, "held")
      PROVE  handle'[Target(u)].lock = u /\ handle'[Target(u)].fd = call'[u].num
  <2>1. Target(u) \in Handle /\ Target(u) \in Named(Req(u)) /\ ~At(u, "idle")
    BY <1>1, <1>5, HeldHas DEF Req
  <2> QED BY <1>1, <1>5, <2>1 DEF Held, Live
<1>6. ASSUME At(u, "fill"), Req(u).op = "readdir"
      PROVE  handle'[Req(u).h].lock = u
  <2>1. Req(u).h \in Handle /\ ~At(u, "idle")
    BY <1>1, <1>6, FillHas, RequestAssumption DEF OpenOps
  <2>2. Req(u).h \in Named(Req(u))
    BY <2>1, HandleAssumption DEF Named
  <2> QED BY <1>1, <1>6, <2>1, <2>2 DEF Held, Live
<1>7. ASSUME At(u, "made"), Req(u).op = "dup"
      PROVE  handle'[Req(u).h].file = FileOf(call[u].fd)'
  <2>1. /\ ~At(u, "idle") /\ call[u].fd \in Fd /\ Req(u) \in Request
    BY <1>1, <1>7, ReqType DEF Phase, At
  <2>2. Req(u).h \in Handle
    BY <1>7, <2>1, RequestAssumption DEF OpenOps
  <2>3. Req(u).h \in Named(Req(u))
    BY <2>2, HandleAssumption DEF Named
  <2>4. call[u].fd \in Mine(call[u])
    BY <2>1, KernelAssumption DEF Mine
  <2>5. fds[call[u].fd] # None /\ fds'[call[u].fd] = fds[call[u].fd]
    BY <1>1, <2>4 DEF Inv, Sole, IsOpen
  <2>6. FileOf(call[u].fd)' = FileOf(call[u].fd)
    BY <1>1, <2>1, <2>5, FileStays DEF FileOf, NodeOf
  <2>7. handle'[Req(u).h].file = handle[Req(u).h].file
    BY <1>1, <2>1, <2>2, <2>3 DEF Live
  <2> QED BY <1>1, <1>7, <2>6, <2>7 DEF Copied
<1>8. Held(u)' /\ Copied(u)'
  BY <1>2, <1>5, <1>6, <1>7 DEF Held, Copied
<1> QED BY <1>4, <1>8 DEF Knows

\* The numbers of the others stay what they are.
LEMMA FdsKept ==
  ASSUME Inv, NEW t \in Thread, Went(t)
  PROVE  /\ \A u \in Thread : u # t => \A f \in Mine(call[u]) : fds'[f] = fds[f]
         /\ \A h \in Handle : \A f \in Holds(h) : fds'[f] = fds[f]
<1>1. PICK S \in SUBSET Fd, N \in SUBSET Fd : Trades(t, S, N)
  BY DEF Went
<1>2. \A f \in Fd : fds[f] # None /\ f \notin Mine(call[t]) => fds'[f] = fds[f]
  BY <1>1 DEF Trades
<1>3. Sole
  BY DEF Inv
<1> QED BY <1>2, <1>3 DEF Sole, IsOpen

LEMMA FilesKeep ==
  ASSUME Full, DescsStay,
         \A h \in Handle : handle'[h].fd # None =>
           /\ handle'[h].fd = handle[h].fd /\ handle'[h].file = handle[h].file
           /\ fds'[handle[h].fd] = fds[handle[h].fd]
  PROVE  ForFile'
<1> SUFFICES ASSUME NEW h \in Handle, handle'[h].fd # None
             PROVE  (handle[h].file = FileOf(handle[h].fd))'
  BY DEF ForFile, FileOf, NodeOf
<1>1. /\ handle'[h].fd = handle[h].fd /\ handle'[h].file = handle[h].file
      /\ fds'[handle[h].fd] = fds[handle[h].fd] /\ handle[h].fd # None
  OBVIOUS
<1>2. handle[h].fd \in Fd /\ fds[handle[h].fd] # None
  BY <1>1 DEF Full, Inv, Sole, IsOpen, Holds
<1>3. FileOf(handle[h].fd)' = FileOf(handle[h].fd)
  <2>1. PICK f \in Fd : f = handle[h].fd
    BY <1>2
  <2>2. FileOf(f)' = FileOf(f)
    BY <1>1, <1>2, <2>1, FileStays DEF Full
  <2>3. fds'[handle[h].fd] = fds[handle[h].fd] /\ fds[handle[h].fd] # None
    BY <1>1, <1>2
  <2>4. descs'[fds'[handle'[h].fd]] = descs'[fds'[f]]
    BY <1>1, <2>1
  <2> QED BY <1>1, <2>1, <2>2, <2>4 DEF FileOf, NodeOf
<1>4. handle[h].file = FileOf(handle[h].fd)
  BY <1>1 DEF Full, ForFile
<1> QED BY <1>1, <1>3, <1>4 DEF FileOf, NodeOf

Keeps == Kept /\ (\A u \in Thread : Knows(u)') /\ ForFile'

\* A thread has its target locked.
LEMMA LockedByOne ==
  ASSUME Full, NEW t \in Thread, NEW h \in Handle, LockedBy(t, h)
  PROVE  handle[h].lock = t
<1>1. Held(t)
  BY DEF Full, Knows
<1> QED BY <1>1 DEF Held, LockedBy

LEMMA WentKeeps ==
  ASSUME Full, NEW t \in Thread, Went(t), TodoStay(t),
         Silent(t) \/ Takes(t) \/ Gives(t),
         At(t, "idle") => \A h \in Named(Req(t)) : handle[h].st = "live"
  PROVE  Keeps /\ SameHandles
<1>0. Inv /\ Knows(t) /\ CallsOK /\ handle \in [Handle -> HandleRec]
  BY TypesHave DEF Full, Inv, Types
<1>1. Kept /\ SameHandles
  <2>1. handle' = handle \/ \E h, k : LockStep(h, k)
    BY DEF Silent, Takes, Gives
  <2> QED BY <1>0, <2>1, WentKept
<1>2. DescsStay /\ OthersStay(t)
  BY DEF Went
<1>3. /\ \A u \in Thread : u # t => \A f \in Mine(call[u]) : fds'[f] = fds[f]
      /\ \A h \in Handle : \A f \in Holds(h) : fds'[f] = fds[f]
  BY <1>0, FdsKept
<1>4. ForFile'
  <2>1. \A h \in Handle : handle'[h].fd # None =>
             /\ handle'[h].fd = handle[h].fd /\ handle'[h].file = handle[h].file
             /\ fds'[handle[h].fd] = fds[handle[h].fd]
    BY <1>1, <1>3 DEF SameHandles, Holds
  <2> QED BY <1>2, <2>1, FilesKeep
<1>5. ASSUME NEW u \in Thread, u # t, NEW h \in Handle, handle[h].lock = u
      PROVE  handle'[h].lock = u
  <2>1. None # u
    BY HandleAssumption
  <2>2. CASE Silent(t)
    BY <1>5, <2>2 DEF Silent
  <2>3. CASE Takes(t)
    <3>1. h # Target(t)
      BY <1>5, <2>1, <2>3 DEF Takes
    <3> QED BY <1>0, <1>5, <2>3, <3>1 DEF Takes, LockStep
  <2>4. CASE Gives(t)
    <3>1. PICK g \in Handle : LockedBy(t, g) /\ LockStep(g, None)
      BY <2>4 DEF Gives
    <3>2. handle[g].lock = t
      BY <3>1, LockedByOne
    <3>3. g # h
      BY <1>5, <3>2
    <3> QED BY <1>0, <1>5, <3>1, <3>3 DEF LockStep
  <2> QED BY <2>2, <2>3, <2>4
<1>6. ASSUME NEW u \in Thread, u # t PROVE Knows(u)'
  <2>1. call'[u] = call[u] /\ todo'[u] = todo[u]
    BY <1>2, <1>6 DEF OthersStay, TodoStay
  <2>2. \A h \in Handle :
             ~At(u, "idle") /\ h \in Named(Req(u)) /\ handle[h].st = "live" =>
               /\ handle'[h].st = "live" /\ handle'[h].file = handle[h].file
               /\ handle[h].lock = u => handle'[h].lock = u /\ handle'[h].fd = handle[h].fd
    BY <1>1, <1>5, <1>6 DEF SameHandles
  <2> QED BY <1>2, <1>3, <1>6, <2>1, <2>2, ThreadKeeps
<1>7. Knows(t)'
  <2>1. CASE call'[t].pc = "idle"
    BY <2>1 DEF Knows, Held, Copied, Live, At
  <2>2. CASE call'[t].pc # "idle"
    <3>1. todo' = todo
      BY <2>2 DEF TodoStay
    <3>2. Req(t)' = Req(t)
      BY <3>1 DEF Req
    <3>3. \A h \in Named(Req(t)) : handle[h].st = "live"
      BY <1>0 DEF Knows, Live
    <3>4. Live(t)'
      <4> SUFFICES ASSUME ~At(t, "idle")', NEW h \in Named(Req(t))
                   PROVE  handle'[h].st = "live"
        BY <3>2 DEF Live
      <4>1. h \in Handle
        <5>1. Head(todo'[t]) \in Request /\ todo'[t] # <<>>
          BY <1>1, <2>2 DEF Kept, CallsOK, CallOK, StageOK
        <5>2. Req(t) \in Request
          BY <3>1, <5>1 DEF Req
        <5> QED BY <5>2, RequestAssumption DEF Named
      <4> QED BY <1>1, <3>3, <4>1 DEF SameHandles
    <3>5. CASE Silent(t)
      <4>1. Held(t)'
        <5>1. call'[t].pc # "held" /\ handle' = handle
          BY <3>5 DEF Silent
        <5>2. call'[t].pc = "fill" /\ Req(t).op = "readdir" => At(t, "fill")
          BY <3>5 DEF Silent
        <5>3. call'[t].pc = "fill" /\ Req(t).op = "readdir" => handle[Req(t).h].lock = t
          BY <1>0, <5>2 DEF Knows, Held
        <5> QED BY <3>2, <5>1, <5>3 DEF Held, At
      <4>2. Copied(t)'
        BY <3>2, <3>5 DEF Silent, Copied, At
      <4> QED BY <3>4, <4>1, <4>2 DEF Knows
    <3>6. CASE Takes(t)
      <4> DEFINE c == [call[t] EXCEPT !.pc = "held", !.num = handle[Target(t)].fd]
      <4>1. /\ Target(t) \in Handle /\ handle' = [handle EXCEPT ![Target(t)].lock = t]
            /\ call' = [call EXCEPT ![t] = c]
        BY <3>6 DEF Takes, LockStep
      <4>2. call[t] \in CallRec
        BY <1>0 DEF CallsOK
      <4>3. /\ c.pc = "held" /\ c.num = handle[Target(t)].fd /\ c.base = call[t].base
        BY <4>2 DEF CallRec
      <4> HIDE DEF c
      <4>4. call'[t] = c
        BY <1>0, <4>1 DEF CallsOK
      <4>5. Target(t)' = Target(t)
        BY <3>2, <4>3, <4>4 DEF Target
      <4>6. handle'[Target(t)].lock = t /\ handle'[Target(t)].fd = handle[Target(t)].fd
        BY <1>0, <4>1 DEF HandleRec
      <4> QED BY <3>4, <4>3, <4>4, <4>5, <4>6 DEF Knows, Held, Copied, At
    <3>7. CASE Gives(t)
      <4>1. call'[t].pc \notin {"held", "fill"}
        BY <3>7 DEF Gives
      <4>2. ASSUME call'[t].pc = "made", Req(t).op = "dup"
            PROVE  handle'[Req(t).h].file = FileOf(call[t].fd)'
        <5>1. /\ At(t, "held") /\ call[t].base = <<>>
              /\ fds[call[t].num] # None /\ fds'[call'[t].fd] = fds[call[t].num]
          BY <3>7, <4>2 DEF Gives
        <5>2. Target(t) = Req(t).h /\ Target(t) \in Handle /\ ~At(t, "idle")
          BY <1>0, <5>1, HeldHas DEF Target
        <5>3. handle[Req(t).h].fd = call[t].num
          BY <1>0, <5>1, <5>2 DEF Knows, Held
        <5>4. call[t].num \in Fd
          BY <1>0, <5>1, <5>2, ReqType DEF Phase, At
        <5>5. handle[Req(t).h].file = FileOf(call[t].num)
          BY <5>2, <5>3, <5>4, KernelAssumption DEF Full, ForFile
        <5>6. PICK f \in Fd : f = call[t].num
          BY <5>4
        <5>7. PICK g : g = call'[t].fd
          OBVIOUS
        <5>8. fds[f] # None /\ fds'[g] = fds[f]
          BY <5>1, <5>6, <5>7
        <5>9. FileOf(g)' = FileOf(f)
          BY <1>0, <1>2, <5>8, FileStays
        <5>10. handle'[Req(t).h].file = handle[Req(t).h].file
          BY <1>1, <5>2 DEF SameHandles
        <5> QED BY <5>5, <5>6, <5>7, <5>9, <5>10 DEF FileOf, NodeOf
      <4>3. Held(t)' /\ Copied(t)'
        BY <3>2, <4>1, <4>2 DEF Held, Copied, At
      <4> QED BY <3>4, <4>3 DEF Knows
    <3> QED BY <3>5, <3>6, <3>7
  <2> QED BY <2>1, <2>2
<1> QED BY <1>1, <1>4, <1>6, <1>7 DEF Keeps

\* The steps that make a handle, open a stream for one, or close one.
LEMMA IdleKnows ==
  ASSUME NEW t \in Thread, call'[t].pc = "idle"
  PROVE  Knows(t)'
BY DEF Knows, Held, Copied, Live, At

LEMMA MakeKeeps ==
  ASSUME Full, NEW t \in Thread, Make(t), TodoStay(t)
  PROVE  /\ Keeps /\ UNCHANGED kvars
         /\ \E h \in Handle, f \in Fd : \E y :
              /\ h = Req(t).to /\ handle' = [handle EXCEPT ![h] = y]
              /\ y.file = FileOf(f) /\ y.fd = f /\ f = call[t].fd
<1>0. /\ Inv /\ CallsOK /\ handle \in [Handle -> HandleRec] /\ At(t, "made")
      /\ ~At(t, "idle") /\ handle[Req(t).to].st = "none"
  BY TypesHave DEF Full, Inv, Types, Make, At
<1>1. Kept /\ DescsStay /\ OthersStay(t) /\ UNCHANGED kvars /\ fds' = fds
  BY <1>0, MadeKept DEF kvars
<1>2. /\ Req(t) \in Request /\ Phase(call[t], Req(t)) /\ todo[t] # <<>>
  BY <1>0, ReqType
<1>3. Req(t).op \in OpenOps \cup {"dup"} /\ call[t].fd \in Fd
  BY <1>0, <1>2 DEF Phase, At
<1>4. PICK h \in Handle : h = Req(t).to
  BY <1>2, <1>3, RequestAssumption
<1>5. PICK f \in Fd : f = call[t].fd
  BY <1>3
<1> DEFINE y == [NewHandle EXCEPT !.st = "live", !.fd = f,
                   !.dir = IF Req(t).op = "dup" THEN handle[Req(t).h].dir
                           ELSE tree[NodeOf(f)].kind = "dir",
                   !.file = FileOf(f)]
<1>6. handle' = [handle EXCEPT ![h] = y]
  BY <1>4, <1>5 DEF Make, FileOf
<1>7. y.file = FileOf(f) /\ y.fd = f
  BY DEF NewHandle
<1> HIDE DEF y
<1>8. handle'[h] = y /\ \A g \in Handle : g # h => handle'[g] = handle[g]
  BY <1>0, <1>6
<1>9. FileOf(f)' = FileOf(f)
  BY <1>1 DEF FileOf, NodeOf, kvars
<1>10. ForFile'
  <2> SUFFICES ASSUME NEW g \in Handle, handle'[g].fd # None
               PROVE  (handle[g].file = FileOf(handle[g].fd))'
    BY DEF ForFile
  <2>1. CASE g = h
    BY <1>7, <1>8, <1>9, <2>1 DEF FileOf, NodeOf
  <2>2. CASE g # h
    <3>1. handle[g].file = FileOf(handle[g].fd) /\ handle'[g] = handle[g]
      BY <1>8, <2>2 DEF Full, ForFile
    <3> QED BY <1>1, <3>1 DEF FileOf, NodeOf, kvars
  <2> QED BY <2>1, <2>2
<1>11. call'[t].pc = "idle"
  <2>1. Return(t, Ok(<<Req(t).to>>))
    BY DEF Make
  <2> QED BY <1>0, <1>2, <2>1, EndsQuiet
<1>12. ASSUME NEW u \in Thread, u # t PROVE Knows(u)'
  <2>1. call'[u] = call[u] /\ todo'[u] = todo[u]
    BY <1>1, <1>12 DEF OthersStay, TodoStay
  <2>2. ASSUME NEW g \in Handle, handle[g].st = "live"
        PROVE  handle'[g] = handle[g]
    BY <1>0, <1>4, <1>8, <2>2
  <2> QED BY <1>1, <2>1, <2>2, ThreadKeeps
<1>13. \A u \in Thread : Knows(u)'
  BY <1>11, <1>12, IdleKnows
<1> QED BY <1>1, <1>4, <1>5, <1>6, <1>7, <1>10, <1>13 DEF Keeps

\* A handle that nobody has locked, or that nobody names, is left with nothing.
LEMMA LeftKeeps ==
  ASSUME Full, NEW h \in Handle, Kept, DescsStay,
         handle'[h].fd = None, \A g \in Handle : g # h => handle'[g] = handle[g],
         \A f \in Fd : fds'[f] = IF f \in Holds(h) THEN None ELSE fds[f]
  PROVE  /\ ForFile'
         /\ \A u \in Thread : \A f \in Mine(call[u]) : fds'[f] = fds[f]
<1>1. Sole
  BY DEF Full, Inv
<1>2. \A g \in Handle : handle'[g].fd # None =>
             /\ handle'[g].fd = handle[g].fd /\ handle'[g].file = handle[g].file
             /\ fds'[handle[g].fd] = fds[handle[g].fd]
  <2> SUFFICES ASSUME NEW g \in Handle, handle'[g].fd # None, g # h
               PROVE  fds'[handle[g].fd] = fds[handle[g].fd]
    OBVIOUS
  <2>1. handle[g].fd \in Holds(g)
    BY DEF Holds
  <2>2. handle[g].fd \in Fd /\ handle[g].fd \notin Holds(h)
    BY <1>1, <2>1 DEF Sole, IsOpen
  <2> QED BY <2>2
<1>3. ForFile'
  BY <1>2, FilesKeep
<1>4. ASSUME NEW u \in Thread, NEW f \in Mine(call[u]) PROVE fds'[f] = fds[f]
  <2>1. f \in Fd /\ f \notin Holds(h)
    BY <1>1 DEF Sole, IsOpen
  <2> QED BY <2>1
<1> QED BY <1>3, <1>4

LEMMA CloseKeeps ==
  ASSUME Full, NEW t \in Thread, Close(t), TodoStay(t)
  PROVE  Keeps
<1>0. Inv /\ handle \in [Handle -> HandleRec] /\ todo[t] # <<>>
  BY HeldHas DEF Full, Inv, Types, Close
<1>1. Kept /\ DescsStay /\ OthersStay(t)
  BY <1>0, CloseKept
<1>2. PICK h \in Handle : h = Req(t).h
  BY <1>0, HeldHas DEF Close
<1> DEFINE y == [handle[h] EXCEPT !.fd = None, !.dirp = None]
<1>3. /\ handle' = [handle EXCEPT ![h] = y] /\ handle[h].lock = None
      /\ fds' = Shut(fds, {handle[h].fd, handle[h].dirp})
  BY <1>2 DEF Close
<1>4. y.fd = None /\ y.st = handle[h].st /\ y.file = handle[h].file
  BY <1>0 DEF HandleRec
<1> HIDE DEF y
<1>5. handle'[h] = y /\ \A g \in Handle : g # h => handle'[g] = handle[g]
  BY <1>0, <1>3
<1>6. \A f \in Fd : fds'[f] = IF f \in Holds(h) THEN None ELSE fds[f]
  BY <1>3, KernelAssumption DEF Shut, Holds
<1>7. ForFile' /\ \A u \in Thread : \A f \in Mine(call[u]) : fds'[f] = fds[f]
  BY <1>1, <1>4, <1>5, <1>6, LeftKeeps
<1>8. call'[t].pc = "idle"
  <2>1. Return(t, Ok(<<>>))
    BY DEF Close
  <2> QED BY <1>0, <2>1, EndsQuiet
<1>9. ASSUME NEW u \in Thread, u # t PROVE Knows(u)'
  <2>1. call'[u] = call[u] /\ todo'[u] = todo[u]
    BY <1>1, <1>9 DEF OthersStay, TodoStay
  <2>2. None # u
    BY HandleAssumption
  <2>3. \A g \in Handle :
             ~At(u, "idle") /\ g \in Named(Req(u)) /\ handle[g].st = "live" =>
               /\ handle'[g].st = "live" /\ handle'[g].file = handle[g].file
               /\ handle[g].lock = u => handle'[g].lock = u /\ handle'[g].fd = handle[g].fd
    BY <1>3, <1>4, <1>5, <2>2
  <2> QED BY <1>1, <1>7, <2>1, <2>3, ThreadKeeps
<1> QED BY <1>1, <1>7, <1>8, <1>9, IdleKnows DEF Keeps

\* A handle that is dropped is named by no call.
LEMMA GcUnnamed ==
  ASSUME CallsOK, NEW h, Gc(h), NEW u \in Thread, ~At(u, "idle")
  PROVE  h \notin Named(Req(u))
<1>1. todo[u] # <<>> /\ todo[u] \in Seq(Request)
  BY ReqType DEF CallsOK
<1>2. 1 \in DOMAIN todo[u] /\ Req(u) = todo[u][1]
  BY <1>1 DEF Req
<1> QED BY <1>2 DEF Gc

LEMMA GcKeeps ==
  ASSUME Full, NEW h \in Handle, Gc(h)
  PROVE  Keeps
<1>0. Inv /\ handle \in [Handle -> HandleRec] /\ CallsOK
  BY TypesHave DEF Full, Inv, Types
<1>1. Kept /\ DescsStay
  BY <1>0, GcKept
<1> DEFINE y == [handle[h] EXCEPT !.st = "gone", !.fd = None, !.dirp = None]
<1>2. /\ handle' = [handle EXCEPT ![h] = y] /\ UNCHANGED <<call, todo>>
      /\ fds' = Shut(fds, {handle[h].fd, handle[h].dirp})
      /\ \A t \in Thread : \A i \in DOMAIN todo[t] : h \notin Named(todo[t][i])
  BY DEF Gc
<1>3. y.fd = None
  BY <1>0 DEF HandleRec
<1> HIDE DEF y
<1>4. handle'[h] = y /\ \A g \in Handle : g # h => handle'[g] = handle[g]
  BY <1>0, <1>2
<1>5. \A f \in Fd : fds'[f] = IF f \in Holds(h) THEN None ELSE fds[f]
  BY <1>2, KernelAssumption DEF Shut, Holds
<1>6. ForFile' /\ \A u \in Thread : \A f \in Mine(call[u]) : fds'[f] = fds[f]
  BY <1>1, <1>3, <1>4, <1>5, LeftKeeps
<1>7. ASSUME NEW u \in Thread PROVE Knows(u)'
  <2>1. ~At(u, "idle") => h \notin Named(Req(u))
    BY <1>0, GcUnnamed
  <2>2. \A g \in Handle : ~At(u, "idle") /\ g \in Named(Req(u)) => handle'[g] = handle[g]
    BY <1>4, <2>1
  <2> QED BY <1>1, <1>2, <1>6, <2>2, ThreadKeeps
<1> QED BY <1>1, <1>6, <1>7 DEF Keeps

LEMMA StreamSets ==
  ASSUME Inv, NEW t \in Thread, OpenStream(t)
  PROVE  Quiet(t) /\ call'[t].pc \in {"idle", "fill"} /\ Req(t).op = "readdir"
<1>1. /\ call[t] \in CallRec /\ todo[t] # <<>> /\ Req(t).op = "readdir"
  BY HeldHas DEF OpenStream
<1>2. CASE \E ans : Return(t, ans)
  <2>1. call'[t].pc = "idle" /\ (Req(t).op \notin AccessOps => Quiet(t))
    BY <1>1, <1>2, EndsQuiet
  <2> QED BY <1>1, <2>1 DEF AccessOps
<1>3. CASE Goto(t, "fill") /\ UNCHANGED last
  <2> DEFINE c == [call[t] EXCEPT !.pc = "fill"]
  <2>1. call' = [call EXCEPT ![t] = c] /\ c.pc = "fill"
    BY <1>1, <1>3 DEF Goto, CallRec
  <2> HIDE DEF c
  <2>2. call'[t] = c
    BY <2>1, TypesHave DEF Inv, CallsOK
  <2> QED BY <1>1, <1>3, <2>1, <2>2 DEF Quiet
<1> QED BY <1>2, <1>3 DEF OpenStream

LEMMA StreamKeeps ==
  ASSUME Full, NEW t \in Thread, OpenStream(t), TodoStay(t)
  PROVE  /\ Keeps /\ UNCHANGED tree
         /\ \A h \in Handle : /\ handle'[h].fd = handle[h].fd
                              /\ handle'[h].file = handle[h].file
<1>0. /\ Inv /\ CallsOK /\ At(t, "held") /\ Knows(t) /\ UNCHANGED tree
  BY TypesHave DEF Full, Inv, OpenStream
<1>1. /\ Kept /\ DescsStay /\ OthersStay(t)
      /\ \A f \in Fd : fds[f] # None => fds'[f] = fds[f]
      /\ \A h \in Handle : /\ handle'[h].fd = handle[h].fd
                           /\ handle'[h].st = handle[h].st
                           /\ handle'[h].file = handle[h].file
                           /\ handle'[h].lock # handle[h].lock =>
                                h = Req(t).h /\ call'[t].pc = "idle"
  BY <1>0, StreamKept
<1>2. call'[t].pc \in {"idle", "fill"} /\ Req(t).op = "readdir"
  BY <1>0, StreamSets
<1>3. /\ Target(t) = Req(t).h /\ Req(t).h \in Handle /\ ~At(t, "idle")
      /\ Req(t) \in Request
  BY <1>0, <1>2, HeldHas DEF PairOps
<1>4. handle[Req(t).h].lock = t
  BY <1>0, <1>3 DEF Knows, Held
<1>5. \A f : IsOpen(f) => fds'[f] = fds[f]
  BY <1>1 DEF IsOpen
<1>6. ForFile'
  <2>1. \A h \in Handle : handle'[h].fd # None =>
             /\ handle'[h].fd = handle[h].fd /\ handle'[h].file = handle[h].file
             /\ fds'[handle[h].fd] = fds[handle[h].fd]
    BY <1>0, <1>1, <1>5 DEF Inv, Sole, Holds
  <2> QED BY <1>1, <2>1, FilesKeep
<1>7. ASSUME NEW u \in Thread, u # t PROVE Knows(u)'
  <2>1. call'[u] = call[u] /\ todo'[u] = todo[u]
    BY <1>1, <1>7 DEF OthersStay, TodoStay
  <2>2. \A f \in Mine(call[u]) : fds'[f] = fds[f]
    BY <1>0, <1>5 DEF Inv, Sole
  <2>3. \A h \in Handle :
             ~At(u, "idle") /\ h \in Named(Req(u)) /\ handle[h].st = "live" =>
               /\ handle'[h].st = "live" /\ handle'[h].file = handle[h].file
               /\ handle[h].lock = u => handle'[h].lock = u /\ handle'[h].fd = handle[h].fd
    BY <1>1, <1>4, <1>7
  <2> QED BY <1>1, <2>1, <2>2, <2>3, ThreadKeeps
<1>8. Knows(t)'
  <2>1. CASE call'[t].pc = "idle"
    BY <2>1, IdleKnows
  <2>2. CASE call'[t].pc = "fill"
    <3>1. todo' = todo
      BY <2>2 DEF TodoStay
    <3>2. Req(t)' = Req(t)
      BY <3>1 DEF Req
    <3>3. handle'[Req(t).h].lock = t
      BY <1>1, <1>3, <1>4, <2>2
    <3>4. \A h \in Named(Req(t)) : h \in Handle /\ handle[h].st = "live"
      BY <1>0, <1>3, RequestAssumption DEF Knows, Live, Named
    <3> QED BY <1>1, <2>2, <3>2, <3>3, <3>4 DEF Knows, Held, Copied, Live, At
  <2> QED BY <1>2, <2>1, <2>2
<1> QED BY <1>0, <1>1, <1>6, <1>7, <1>8 DEF Keeps

\* Every other step of a thread.
OtherStep(t) == Step(t) /\ ~Make(t) /\ ~Close(t) /\ ~OpenStream(t)

LEMMA PlainWent ==
  ASSUME Inv, NEW t \in Thread, OtherStep(t)
  PROVE  /\ Went(t) /\ (Silent(t) \/ Takes(t) \/ Gives(t))
         /\ At(t, "idle") => \A h \in Named(Req(t)) : handle[h].st = "live"
         /\ \/ Quiet(t)
            \/ Access(t)
            \/ Misses(t) /\ Silent(t)
            \/ Refuses(t) /\ Silent(t)
            \/ NoBinary(t) /\ Silent(t)
<1>1. CASE Begin(t)
  <2>1. \A h \in Named(Req(t)) : handle[h].st = "live"
    BY <1>1 DEF Begin
  <2> QED BY <1>1, <2>1, BeginWent, BeginSilent
<1>2. ASSUME ~At(t, "idle"), Went(t), Silent(t) \/ Takes(t) \/ Gives(t), Quiet(t)
      PROVE  /\ Went(t) /\ (Silent(t) \/ Takes(t) \/ Gives(t))
             /\ At(t, "idle") => \A h \in Named(Req(t)) : handle[h].st = "live"
             /\ \/ Quiet(t)
                \/ Access(t)
                \/ Misses(t) /\ Silent(t)
                \/ Refuses(t) /\ Silent(t)
                \/ NoBinary(t) /\ Silent(t)
  BY <1>2
<1>3. CASE Lock(t)
  <2>1. ~At(t, "idle")
    BY <1>3 DEF Lock, At
  <2> QED BY <1>3, <2>1, LockWent, LockSilent
<1>4. CASE NoBinary(t)
  <2>1. ~At(t, "idle")
    BY <1>4 DEF NoBinary, At
  <2> QED BY <1>4, <2>1, AccessWent, NoBinarySilent
<1>5. CASE Access(t)
  <2>1. ~At(t, "idle")
    BY <1>5 DEF Access, At
  <2> QED BY <1>5, <2>1, AccessWent, AccessGives
<1>6. CASE DupHandle(t) \/ DirDup(t) \/ NamesDup(t)
  <2>1. ~At(t, "idle")
    BY <1>6 DEF DupHandle, DirDup, NamesDup, At
  <2> QED BY <1>6, <2>1, DupHandleWent, DirDupWent, NamesDupWent, DupGives
<1>7. CASE OpenRoot(t) \/ NoMemory(t) \/ PathAct(t) \/ PairAct(t)
  <2>1. ~At(t, "idle")
    BY <1>7 DEF OpenRoot, NoMemory, PathAct, PairAct, At
  <2>2. Went(t)
    BY <1>7, OpenRootWent, NoMemoryWent, PathActWent, PairActWent
  <2>3. Silent(t) /\ Quiet(t)
    BY <1>7, OpenRootSilent, ActSilent
  <2> QED BY <2>1, <2>2, <2>3
<1>8. CASE Enter(t) \/ StepDot(t) \/ StepUp(t) \/ StepName(t)
  <2>1. ~At(t, "idle")
    BY <1>8 DEF Enter, StepDot, StepUp, StepName, Stepping, At
  <2>2. Went(t)
    BY <1>8, EnterWent, StepDotUpWent, StepNameWent
  <2>3. Silent(t) /\ Quiet(t)
    BY <1>8, EnterSilent, StepSilent
  <2> QED BY <2>1, <2>2, <2>3
<1>9. CASE StepLink(t) \/ StepBack(t) \/ OpenDone(t) \/ ParentDone(t) \/ Resolve(t)
  <2>1. ~At(t, "idle")
    BY <1>9 DEF StepLink, StepBack, OpenDone, ParentDone, Resolve, At
  <2>2. Went(t)
    BY <1>9, StepLinkWent, StepBackWent, OpenDoneWent, ParentDoneWent, ResolveWent
  <2>3. Silent(t) /\ Quiet(t)
    BY <1>9, LinkSilent, OpenDoneSilent, ParentDoneSilent, ResolveSilent
  <2> QED BY <2>1, <2>2, <2>3
<1>10. CASE Rewind(t) \/ Getdents(t) \/ TakeName(t)
  <2>1. ~At(t, "idle")
    BY <1>10 DEF Rewind, Getdents, TakeName, At
  <2>2. Went(t)
    BY <1>10, RewindWent, GetdentsWent, TakeNameWent
  <2>3. Silent(t) /\ Quiet(t)
    BY <1>10, ListSilent
  <2> QED BY <2>1, <2>2, <2>3
<1>11. CASE EndOfDir(t) \/ ReadFails(t) \/ PackEntry(t)
  <2>1. ~At(t, "idle")
    BY <1>11 DEF EndOfDir, ReadFails, PackEntry, At
  <2>2. Went(t)
    BY <1>11, EndWent, PackEntryWent
  <2>3. (Silent(t) \/ Gives(t)) /\ Quiet(t)
    BY <1>11, FinishesQuiet
  <2> QED BY <2>1, <2>2, <2>3
<1> QED BY <1>1, <1>3, <1>4, <1>5, <1>6, <1>7, <1>8, <1>9, <1>10, <1>11
        DEF OtherStep, Step, HandleStep, WalkStep, ListStep
-----------------------------------------------------------------------------
(* The inductive invariant                                                 *)

LEMMA InitFull ==
  ASSUME Init PROVE Full
<1>1. /\ tree \in Tree /\ fds = [f \in Fd |-> None] /\ moved = FALSE
      /\ descs = [d \in Desc |-> [node |-> Top, mode |-> {}, pos |-> 0]]
      /\ handle = [h \in Handle |-> NewHandle] /\ call = [t \in Thread |-> Idle]
      /\ todo \in Scripts /\ last = [t \in Thread |-> None]
      /\ swapped = {} /\ calm = Thread
  BY DEF Init, KernelInit, HandleInit
<1>2. KernelTypeOK
  BY <1>1, KernelAssumption, TreeAssumption DEF KernelTypeOK
<1>3. NewHandle \in HandleRec /\ HasNothing(NewHandle) /\ NewHandle.st = "none"
      /\ NewHandle.fd = None /\ NewHandle.dirp = None
  BY DEF NewHandle, HandleRec, HasNothing
<1>4. handle \in [Handle -> HandleRec] /\ Unmade
  BY <1>1, <1>3 DEF Unmade
<1>5. CallsOK
  <2>1. todo \in [Thread -> Seq(Request)]
    BY <1>1, HandleAssumption
  <2> QED BY <1>1, <2>1, IdleOK DEF CallsOK
<1>6. Sole
  <2>1. \A t \in Thread : Mine(call[t]) = {}
    BY <1>1, IdleOK
  <2>2. \A h \in Handle : Holds(h) = {}
    BY <1>1, <1>3 DEF Holds
  <2>3. \A h \in Handle : handle[h].fd = None
    BY <1>1, <1>3
  <2> QED BY <1>1, <2>1, <2>2, <2>3 DEF Sole
<1>7. Inv
  BY <1>1, <1>2, <1>4, <1>5, <1>6 DEF Inv, Types
<1>8. \A t \in Thread : Knows(t)
  <2>1. Idle.pc = "idle"
    BY DEF Idle
  <2> QED BY <1>1, <2>1 DEF Knows, Held, Copied, Live, At
<1>9. ForFile
  BY <1>1, <1>3 DEF ForFile
<1> QED BY <1>7, <1>8, <1>9 DEF Full

LEMMA StepKeeps ==
  ASSUME Full, NEW t \in Thread, Step(t)
  PROVE  Keeps
<1>1. Inv /\ TodoStay(t)
  BY StepTodo DEF Full
<1>2. CASE OtherStep(t)
  BY <1>1, <1>2, PlainWent, WentKeeps
<1> QED BY <1>1, <1>2, MakeKeeps, CloseKeeps, StreamKeeps DEF OtherStep

LEMMA SwapKeeps ==
  ASSUME Full, NEW s \in Swaps, Swap(s)
  PROVE  Keeps
<1>1. /\ tree' = [tree EXCEPT ![s.dir].at[s.name] = s.node]
      /\ UNCHANGED <<fds, descs, moved, handle, call, todo, last>>
  BY DEF Swap, hvars
<1>2. Inv /\ Types /\ FdsType /\ DescType /\ TreeType /\ moved \in BOOLEAN /\ CallsOK
  BY TypesHave DEF Full, Inv
<1>3. s.dir \in Node /\ s.node \in Node \cup {None}
  BY SwapAssumption
<1>4. TreeType'
  <2> DEFINE y == [tree[s.dir] EXCEPT !.at = [tree[s.dir].at EXCEPT ![s.name] = s.node]]
  <2>1. tree[s.dir] \in Entry
    BY <1>2, <1>3 DEF TreeType
  <2>2. y \in Entry
    BY <1>3, <2>1, EntryParts
  <2>3. tree' = [tree EXCEPT ![s.dir] = y]
    BY <1>1
  <2> HIDE DEF y
  <2> QED BY <1>2, <2>2, <2>3 DEF TreeType
<1>5. KernelTypeOK'
  BY <1>1, <1>2, <1>4, KernelHas DEF FdsType, DescType
<1>6. (handle \in [Handle -> HandleRec])' /\ CallsOK' /\ Unmade'
  BY <1>1, <1>2 DEF Inv, Types, CallsOK, Unmade
<1>7. Sole'
  BY <1>1, <1>2 DEF Inv, Sole, Holds, IsOpen
<1>8. \A u \in Thread : Knows(u)'
  BY <1>1 DEF Full, Knows, Held, Copied, Live, At, Req, Target, FileOf, NodeOf
<1>9. ForFile'
  BY <1>1 DEF Full, ForFile, FileOf, NodeOf
<1> QED BY <1>5, <1>6, <1>7, <1>8, <1>9 DEF Keeps, Kept

LEMMA NextFull ==
  ASSUME Full, [Next]_vars PROVE Full'
<1>0. Inv /\ swapped \subseteq Swaps /\ calm \subseteq Thread
  BY DEF Full, Inv, Types
<1>1. ASSUME Keeps, swapped' \subseteq Swaps, calm' \subseteq Thread PROVE Full'
  BY <1>1 DEF Keeps, Kept, Full, Inv, Types
<1>2. CASE \E t \in Thread : ThreadStep(t)
  <2>1. PICK t \in Thread : ThreadStep(t)
    BY <1>2
  <2>2. Keeps
    BY <2>1, StepKeeps DEF ThreadStep
  <2>3. calm' \subseteq Thread /\ swapped' = swapped
    BY <1>0, <2>1 DEF ThreadStep
  <2> QED BY <1>0, <1>1, <2>2, <2>3
<1>3. CASE Elsewhere
  <2>1. calm' \subseteq Thread
    BY <1>0, <1>3 DEF Elsewhere
  <2>2. ASSUME NEW s \in Swaps, Swap(s) PROVE Keeps /\ swapped' \subseteq Swaps
    BY <1>0, <2>2, SwapKeeps DEF Swap
  <2>3. ASSUME NEW h \in Handle, Gc(h), UNCHANGED swapped
        PROVE  Keeps /\ swapped' \subseteq Swaps
    BY <1>0, <2>3, GcKeeps
  <2> QED BY <1>1, <1>3, <2>1, <2>2, <2>3 DEF Elsewhere
<1>4. CASE UNCHANGED vars
  <2>1. UNCHANGED <<fds, descs, tree, moved, handle, call, todo, last, swapped, calm>>
    BY <1>4 DEF vars, kvars, hvars
  <2>2. Types' /\ Unmade'
    BY <2>1 DEF Full, Inv, Types, KernelTypeOK, CallsOK, Unmade
  <2>3. Sole'
    BY <2>1 DEF Full, Inv, Sole, Holds, IsOpen
  <2>4. \A u \in Thread : Knows(u)'
    BY <2>1 DEF Full, Knows, Held, Copied, Live, At, Req, Target, FileOf, NodeOf
  <2>5. ForFile'
    BY <2>1 DEF Full, ForFile, FileOf, NodeOf
  <2> QED BY <2>2, <2>3, <2>4, <2>5 DEF Full, Inv
<1> QED BY <1>2, <1>3, <1>4 DEF Next

\* In every state of wasi_file_nif.c each number has its one owner, a call has what its
\* stage says, and a handle stands for the file behind its number.
THEOREM FullAlways == Spec => []Full
<1>1. Init => Full
  BY InitFull
<1>2. Full /\ [Next]_vars => Full'
  BY NextFull
<1> QED BY <1>1, <1>2, PTL DEF Spec

\* The variables keep their types, whatever the scripts, the tree and the other
\* processes are.
THEOREM FileTypes == Spec => []TypeOK
<1>1. Full => TypeOK
  <2> SUFFICES ASSUME Full PROVE TypeOK
    OBVIOUS
  <2>1. Types /\ CallsOK
    BY TypesHave DEF Full, Inv
  <2>2. KernelTypeOK /\ handle \in [Handle -> HandleRec]
        /\ swapped \subseteq Swaps /\ calm \subseteq Thread
    BY <2>1 DEF Types
  <2>3. ASSUME NEW t \in Thread
        PROVE  /\ call[t].pc \in Pcs
               /\ call[t].base \in Seq(Fd) /\ Len(call[t].base) <= 2
               /\ call[t].walk \in Seq(Frame) /\ call[t].got \in Seq(Parents)
               /\ call[t].hop \in 0 .. MaxLinks
               /\ call[t].num \in Fd \cup {None} /\ call[t].fd \in Fd \cup {None}
    <3>1. call[t] \in CallRec /\ Len(call[t].base) <= 2
      BY <2>1 DEF CallsOK, CallOK
    <3> QED BY <3>1 DEF CallRec
  <2>4. HandleTypeOK
    BY <2>2, <2>3 DEF HandleTypeOK, HandleRec, Pcs, Parents
  <2> QED BY <2>2, <2>4 DEF TypeOK
<1> QED BY <1>1, FullAlways, PTL
-----------------------------------------------------------------------------
(* What the handles promise                                                *)

Files == [h \in Handle |-> handle[h].file]
Opens == {h \in Handle : handle[h].fd # None}

LEMMA ApiVars == Api!vars = <<Files, Opens, tree, last>>
BY DEF Api!vars, Files, Opens

LEMMA ApiInit ==
  ASSUME Init PROVE Api!Init
<1>1. /\ handle = [h \in Handle |-> NewHandle] /\ last = [t \in Thread |-> None]
  BY DEF Init, HandleInit
<1>2. NewHandle.file = None /\ NewHandle.fd = None
  BY DEF NewHandle
<1> QED BY <1>1, <1>2 DEF Api!Init

LEMMA SameOutcome ==
  ASSUME NEW r, NEW n, NEW m, NEW x
  PROVE  Api!Outcome(r, n, m, x) = Outcome(r, n, m, x)
BY DEF Outcome, pread, pwrite, fstat, futimes, ftruncate, fsync, decode_times, stat_map,
       Ok, Err, Lesser, Greater,
       Api!Outcome, Api!pread, Api!pwrite, Api!fstat, Api!futimes, Api!ftruncate,
       Api!fsync, Api!decode_times, Api!stat_map, Api!Ok, Api!Err, Api!Lesser, Api!Greater

\* The answers of the calls on an open file are none of them None.
Codes == {"ok", "badarg", "enomem", "ebadf", "einval", "eisdir", "eof", "efbig"}

LEMMA PlainAnswers ==
  /\ \A e \in Codes : Err(e) \in AccessAnswer
  /\ Ok(<<>>) \in AccessAnswer
  /\ \A h \in Handle : Ok(<<h>>) \in AccessAnswer
  /\ \A n \in Node, k \in Nat : Ok(<<n, k>>) \in AccessAnswer
  /\ \A n \in Node : \A x \in Entry : Ok(stat_map(n, x)) \in AccessAnswer
<1> DEFINE V == {<<>>} \cup {<<h>> : h \in Handle} \cup (Node \X Nat)
                  \cup (Node \X Kinds \X Nat \X [Stamps -> Time])
<1>1. AccessAnswer = [e : Codes, v : V]
  BY DEF AccessAnswer, Codes
<1>2. <<>> \in V
  OBVIOUS
<1>3. \A h \in Handle : <<h>> \in V
  OBVIOUS
<1>4. \A n \in Node, k \in Nat : <<n, k>> \in V
  OBVIOUS
<1>5. ASSUME NEW n \in Node, NEW x \in Entry PROVE stat_map(n, x) \in V
  <2>1. x.kind \in Kinds /\ x.size \in Nat /\ x.time \in [Stamps -> Time]
    BY OpsAssumption DEF Entry
  <2> QED BY <2>1 DEF stat_map
<1> HIDE DEF V
<1>6. \A v \in V : Ok(v) \in AccessAnswer
  BY <1>1 DEF Ok, Codes
<1>7. \A e \in Codes : Err(e) \in AccessAnswer
  BY <1>1, <1>2 DEF Err
<1> QED BY <1>2, <1>3, <1>4, <1>5, <1>6, <1>7

LEMMA OutcomeAnswer ==
  ASSUME NEW r \in Request, r.op \in AccessOps, NEW n \in Node, NEW m, NEW x \in Entry
  PROVE  Outcome(r, n, m, x).ans \in AccessAnswer
<1>0. /\ r.len \in Nat /\ r.off \in Int /\ Chunk \in Nat /\ MaxSize \in Nat /\ x.size \in Nat
  BY RequestAssumption, OpsAssumption DEF Entry
<1>1. CASE r.op = "pread"
  <2> DEFINE got == Lesser(Lesser(r.len, Chunk), Greater(x.size - r.off, 0))
  <2>1. got \in Nat
    BY <1>0 DEF Lesser, Greater
  <2>2. Outcome(r, n, m, x).ans = CASE r.off < 0 -> Err("einval")
                   [] "rd" \notin m -> Err("ebadf")
                   [] x.kind = "dir" -> Err("eisdir")
                   [] got = 0 -> Err("eof")
                   [] OTHER -> Ok(<<n, got>>)
    BY <1>1 DEF Outcome, pread
  <2> HIDE DEF got
  <2> QED BY <2>1, <2>2, PlainAnswers DEF Codes
<1>2. CASE r.op = "pwrite"
  <2> DEFINE len == Lesser(r.len, Chunk)
             e == CASE r.off < 0 -> "einval"
                    [] "wr" \notin m -> "ebadf"
                    [] r.off + len > MaxSize -> "efbig"
                    [] OTHER -> "ok"
  <2>1. len \in Nat
    BY <1>0 DEF Lesser
  <2>2. Outcome(r, n, m, x).ans = IF e = "ok" THEN Ok(<<n, len>>) ELSE Err(e)
    BY <1>2 DEF Outcome, pwrite
  <2>3. e \in Codes
    BY DEF Codes
  <2> HIDE DEF e, len
  <2> QED BY <2>1, <2>2, <2>3, PlainAnswers
<1>3. CASE r.op = "fstat"
  BY <1>3, PlainAnswers DEF Outcome, fstat
<1>4. CASE r.op = "futimes"
  BY <1>4, PlainAnswers DEF Outcome, futimes
<1>5. CASE r.op = "ftruncate"
  <2> DEFINE e == CASE "wr" \notin m -> "einval"
                    [] r.len > MaxSize -> "efbig"
                    [] OTHER -> "ok"
  <2>1. Outcome(r, n, m, x).ans = IF e = "ok" THEN Ok(<<>>) ELSE Err(e)
    BY <1>5 DEF Outcome, ftruncate
  <2>2. e \in Codes
    BY DEF Codes
  <2> HIDE DEF e
  <2> QED BY <2>1, <2>2, PlainAnswers
<1>6. CASE r.op = "fsync"
  BY <1>6, PlainAnswers DEF Outcome, fsync
<1> QED BY <1>1, <1>2, <1>3, <1>4, <1>5, <1>6 DEF AccessOps

\* A reply can be told from the one before.
LEMMA Replied ==
  ASSUME Inv, NEW t \in Thread, Req(t) \in Request, todo[t] # <<>>,
         NEW ans \in AccessAnswer, Return(t, ans)
  PROVE  /\ last'[t] # last[t] /\ last'[t].req = Req(t)
         /\ Api!Answers(t, ans)
         /\ \A u \in Thread : u # t => last'[u] = last[u]
<1> DEFINE x == [req |-> Req(t), ans |-> ans, left |-> Len(todo[t]) - 1]
<1>1. /\ CallsOK /\ last' = [last EXCEPT ![t] = x] /\ last'[t] = x
      /\ \A u \in Thread : u # t => last'[u] = last[u]
  BY TypesHave, Ends DEF Inv
<1>2. Len(todo[t]) - 1 \in Nat /\ Len(todo[t]) \in Nat
  BY <1>1 DEF CallsOK
<1>3. x \in [req : Request, ans : AccessAnswer, left : Nat]
  BY <1>2
<1>4. x # None
  BY <1>3, NoneAssumption
<1>5. last[t] # None => last[t].left = Len(todo[t])
  BY <1>1 DEF CallsOK
<1>6. last'[t] # last[t]
  <2>1. x.left # Len(todo[t])
    BY <1>2
  <2> HIDE DEF x
  <2> QED BY <1>1, <1>4, <1>5, <2>1
<1>7. [x EXCEPT !.ans = ans] = x /\ x.req = Req(t)
  OBVIOUS
<1> HIDE DEF x
<1>8. Api!Answers(t, ans)
  BY <1>1, <1>7 DEF Api!Answers
<1> QED BY <1>1, <1>6, <1>7, <1>8

\* A step that changes no handle and answers no call on an open file.
LEMMA IsByName ==
  ASSUME NEW t \in Thread, Quiet(t),
         \A h \in Handle : /\ handle'[h].fd = handle[h].fd
                           /\ handle'[h].file = handle[h].file
  PROVE  Api!Next
<1>1. Files' = Files /\ Opens' = Opens
  BY DEF Files, Opens
<1>2. ~\E u \in Thread : Api!Answered(u, AccessOps)
  BY DEF Quiet, Api!Answered, AccessOps
<1>3. Api!AccessOps = AccessOps
  BY DEF AccessOps, Api!AccessOps
<1>4. Api!ByName
  BY <1>1, <1>2, <1>3 DEF Api!ByName, Files, Opens
<1> QED BY <1>4 DEF Api!Next

\* A call on a handle that answers ans and leaves the data as d.
LEMMA IsServe ==
  ASSUME Inv, NEW t \in Thread, Req(t) \in Request, todo[t] # <<>>,
         Req(t).op \in AccessOps, NEW ans \in AccessAnswer, Return(t, ans),
         \A h \in Handle : /\ handle'[h].fd = handle[h].fd
                           /\ handle'[h].file = handle[h].file,
         Req(t).h \in Handle,
         LET r == Req(t)
             f == handle[r.h].file
             res == Outcome(r, f.node, f.mode, tree[f.node])
         IN  \/ /\ ~r.bad /\ handle[r.h].fd # None /\ ans = res.ans
                /\ tree' = [tree EXCEPT ![f.node] = res.entry]
             \/ /\ ~r.bad /\ handle[r.h].fd = None /\ ans = Err("ebadf")
                /\ UNCHANGED tree
             \/ r.bad /\ ans = Err("badarg") /\ UNCHANGED tree
             \/ ~r.bad /\ r.op = "pread" /\ ans = Err("enomem") /\ UNCHANGED tree
  PROVE  Api!Next
<1> DEFINE r == Req(t)
           f == handle[r.h].file
<1>1. /\ last'[t] # last[t] /\ last'[t].req = r /\ Api!Answers(t, ans)
  BY Replied
<1>2. Files' = Files /\ Opens' = Opens /\ Files[r.h] = f
      /\ (r.h \in Opens <=> handle[r.h].fd # None)
  BY DEF Files, Opens
<1>3. Api!AccessOps = AccessOps /\ \A e : Api!Err(e) = Err(e)
  BY DEF AccessOps, Api!AccessOps, Err, Api!Err
<1>4. Api!Answered(t, Api!AccessOps)
  BY <1>1, <1>3 DEF Api!Answered
<1>5. Api!Outcome(r, f.node, f.mode, tree[f.node]) = Outcome(r, f.node, f.mode, tree[f.node])
  BY SameOutcome
<1> DEFINE x == last'[t].req
           res == Api!Outcome(x, Files[x.h].node, Files[x.h].mode, tree[Files[x.h].node])
<1>6. x = r /\ res = Outcome(r, f.node, f.mode, tree[f.node])
  BY <1>1, <1>2, <1>5
<1>7. \/ /\ ~x.bad /\ x.h \in Opens
         /\ Api!Answers(t, res.ans)
         /\ tree' = [tree EXCEPT ![Files[x.h].node] = res.entry]
      \/ /\ ~x.bad /\ x.h \notin Opens
         /\ Api!Answers(t, Api!Err("ebadf"))
         /\ UNCHANGED tree
      \/ /\ x.bad
         /\ Api!Answers(t, Api!Err("badarg"))
         /\ UNCHANGED tree
      \/ /\ ~x.bad /\ x.op = "pread"
         /\ Api!Answers(t, Api!Err("enomem"))
         /\ UNCHANGED tree
  <2> HIDE DEF x, res
  <2> QED BY <1>1, <1>2, <1>3, <1>6
<1>8. Api!Serve(t)
  BY <1>2, <1>4, <1>7 DEF Api!Serve, Files, Opens
<1> QED BY <1>8 DEF Api!Next

LEMMA AccessServes ==
  ASSUME Full, NEW t \in Thread, Access(t)
  PROVE  Api!Next
<1>0. /\ Inv /\ Knows(t) /\ At(t, "held") /\ Req(t).op \in AccessOps
      /\ handle \in [Handle -> HandleRec] /\ CallsOK /\ TreeType /\ DescType /\ FdsType
  BY TypesHave DEF Full, Inv, Types, Access
<1> DEFINE r == Req(t)
           f == call[t].num
           n == NodeOf(f)
           m == descs[fds[f]].mode
           res == Outcome(r, n, m, tree[n])
<1>1. /\ Target(t) = r.h /\ r.h \in Handle /\ todo[t] # <<>> /\ r \in Request
      /\ ~BadArgs(r) /\ ~At(t, "idle")
  BY <1>0, HeldHas DEF AccessOps, PairOps
<1>2. f \in Fd /\ handle[r.h].fd = f
  BY <1>0, <1>1, ReqType DEF Phase, At, Knows, Held
<1>3. f # None /\ fds[f] # None
  <2>1. f # None
    BY <1>2, KernelAssumption
  <2>2. f \in Holds(r.h)
    BY <1>2, <2>1 DEF Holds
  <2> QED BY <1>0, <1>1, <2>1, <2>2 DEF Inv, Sole, IsOpen
<1>4. handle[r.h].file = [node |-> n, mode |-> m]
  BY <1>1, <1>2, <1>3 DEF Full, ForFile, FileOf
<1>5. n \in Node /\ tree[n] \in Entry
  BY <1>0, <1>2, <1>3, NodeType DEF TreeType
<1>6. /\ handle' = Unlocked(r.h) /\ Return(t, res.ans)
      /\ tree' = [tree EXCEPT ![n] = res.entry]
  BY <1>3 DEF Access
<1>7. res.ans \in AccessAnswer
  BY <1>0, <1>1, <1>5, OutcomeAnswer
<1>8. ~r.bad
  BY <1>0, <1>1 DEF BadArgs
<1>9. \A h \in Handle : handle'[h].fd = handle[h].fd /\ handle'[h].file = handle[h].file
  BY <1>0, <1>6 DEF Unlocked, HandleRec
<1>10. handle[r.h].file.node = n /\ handle[r.h].file.mode = m
  BY <1>4
<1> DEFINE ans == res.ans
           g == handle[r.h].file
           out == Outcome(r, g.node, g.mode, tree[g.node])
<1>11. out = res
  BY <1>10
<1>12. /\ ans \in AccessAnswer /\ Return(t, ans) /\ ans = out.ans
       /\ tree' = [tree EXCEPT ![g.node] = out.entry]
  BY <1>6, <1>7, <1>10, <1>11
<1> HIDE DEF ans
<1>13. handle[r.h].fd # None
  BY <1>2, <1>3
<1> QED BY <1>0, <1>1, <1>8, <1>9, <1>12, <1>13, IsServe

\* The answers without an access.
LEMMA RefusalServes ==
  ASSUME Full, NEW t \in Thread, Req(t).op \in AccessOps, handle' = handle,
         Misses(t) \/ Refuses(t) \/ NoBinary(t)
  PROVE  Api!Next
<1>0. Inv /\ CallsOK
  BY TypesHave DEF Full, Inv
<1>1. /\ Req(t) \in Request /\ todo[t] # <<>> /\ Req(t).h \in Handle
      /\ Misses(t) \/ NoBinary(t) => ~BadArgs(Req(t)) /\ Target(t) = Req(t).h
  <2>1. CASE Misses(t) \/ NoBinary(t)
    BY <1>0, <2>1, HeldHas DEF Misses, NoBinary, AccessOps, PairOps
  <2>2. CASE Refuses(t) /\ ~Misses(t) /\ ~NoBinary(t)
    <3>1. todo[t] # <<>> /\ todo[t] \in Seq(Request)
      BY <1>0, <2>2 DEF Refuses, CallsOK
    <3>2. Req(t) \in Request
      BY <3>1 DEF Req
    <3> QED BY <2>2, <3>1, <3>2, RequestAssumption DEF AccessOps, OpenOps
  <2> QED BY <2>1, <2>2
<1>2. \A e \in Codes : Err(e) \in AccessAnswer
  BY PlainAnswers
<1>3. CASE Misses(t)
  <2>1. /\ ~Req(t).bad /\ handle[Req(t).h].fd = None /\ UNCHANGED tree
        /\ Return(t, Err("ebadf")) /\ Err("ebadf") \in AccessAnswer
    BY <1>1, <1>2, <1>3 DEF Misses, Fail, BadArgs, Codes
  <2> QED BY <1>0, <1>1, <2>1, IsServe
<1>4. CASE Refuses(t)
  <2>1. /\ Req(t).bad /\ UNCHANGED tree
        /\ Return(t, Err("badarg")) /\ Err("badarg") \in AccessAnswer
    BY <1>2, <1>4 DEF Refuses, BadArgs, Codes, kvars
  <2> QED BY <1>0, <1>1, <2>1, IsServe
<1>5. CASE NoBinary(t)
  <2>1. /\ ~Req(t).bad /\ UNCHANGED tree /\ Req(t).op = "pread"
        /\ Return(t, Err("enomem")) /\ Err("enomem") \in AccessAnswer
    BY <1>1, <1>2, <1>5 DEF NoBinary, BadArgs, Codes, kvars
  <2> QED BY <1>0, <1>1, <2>1, IsServe
<1> QED BY <1>3, <1>4, <1>5

LEMMA MakeGrants ==
  ASSUME Full, NEW t \in Thread, Make(t)
  PROVE  Api!Next
<1>0. Inv /\ CallsOK /\ At(t, "made") /\ ~At(t, "idle") /\ Knows(t)
  BY TypesHave DEF Full, Inv, Make, At
<1>1. /\ Req(t) \in Request /\ todo[t] # <<>> /\ Phase(call[t], Req(t))
  BY <1>0, ReqType
<1>2. Req(t).op \in {"open_at", "open_dir", "dup"}
  BY <1>0, <1>1 DEF Phase, At, OpenOps
<1>3. TodoStay(t)
  BY <1>0, EndsTodo DEF Make
<1>4. PICK h \in Handle, f \in Fd : UNCHANGED kvars /\ \E y :
                /\ h = Req(t).to /\ handle' = [handle EXCEPT ![h] = y]
                /\ y.file = FileOf(f) /\ y.fd = f /\ f = call[t].fd
  BY <1>3, MakeKeeps
<1>5. /\ handle[h].st = "none" /\ Return(t, Ok(<<h>>)) /\ h = Req(t).to
  BY <1>4 DEF Make
<1>6. Ok(<<h>>) \in AccessAnswer
  BY PlainAnswers
<1>7. /\ last'[t] # last[t] /\ last'[t].req = Req(t) /\ Api!Answers(t, Ok(<<h>>))
  BY <1>0, <1>1, <1>5, <1>6, Replied
<1>8. /\ handle'[h].file = FileOf(f) /\ handle'[h].fd = f
      /\ \A g \in Handle : g # h => handle'[g] = handle[g]
  BY <1>0, <1>4 DEF Inv, Types
<1>9. handle[h].file = None
  BY <1>0, <1>5 DEF Inv, Unmade, HasNothing
<1>10. Files[h] = None /\ Files' = [Files EXCEPT ![h] = Files'[h]]
  BY <1>8, <1>9 DEF Files
<1>11. Opens' = Opens \cup {h}
  BY <1>8, KernelAssumption DEF Opens
<1>12. Req(t).op = "dup" => Files'[h] = Files[Req(t).h]
  <2> SUFFICES ASSUME Req(t).op = "dup" PROVE Files'[h] = Files[Req(t).h]
    OBVIOUS
  <2>1. Req(t).h \in Handle
    BY <1>1, RequestAssumption DEF OpenOps
  <2>2. handle[Req(t).h].file = FileOf(call[t].fd)
    BY <1>0 DEF Knows, Copied
  <2>3. f = call[t].fd
    BY <1>4
  <2> QED BY <1>8, <2>1, <2>2, <2>3 DEF Files
<1>13. UNCHANGED tree
  BY <1>4 DEF kvars
<1>14. Api!Answered(t, {"open_at", "open_dir", "dup"})
  BY <1>2, <1>7 DEF Api!Answered
<1>15. Api!Ok(<<h>>) = Ok(<<h>>)
  BY DEF Ok, Api!Ok
<1> DEFINE x == last'[t].req
<1>16. x = Req(t) /\ x.to = h
  BY <1>5, <1>7
<1>17. /\ Api!Answers(t, Api!Ok(<<x.to>>)) /\ Files[x.to] = None
       /\ Files' = [Files EXCEPT ![x.to] = Files'[x.to]]
       /\ (x.op = "dup" => Files'[x.to] = Files[x.h])
       /\ Opens' = Opens \cup {x.to}
  <2> HIDE DEF x
  <2> QED BY <1>7, <1>10, <1>11, <1>12, <1>15, <1>16
<1>18. Api!Grant(t)
  BY <1>13, <1>14, <1>17 DEF Api!Grant, Files, Opens
<1> QED BY <1>18 DEF Api!Next

\* A handle is closed that was open, or nothing happens to it.
LEMMA IsClose ==
  ASSUME NEW h \in Handle, handle[h].fd # None, UNCHANGED tree,
         handle'[h].fd = None, handle'[h].file = handle[h].file,
         \A g \in Handle : g # h => handle'[g] = handle[g],
         \A u \in Thread : last'[u] # last[u] => last'[u].req.op = "close"
  PROVE  Api!Next
<1>1. Files' = Files
  BY DEF Files
<1>2. h \in Opens /\ Opens' = Opens \ {h}
  BY DEF Opens
<1>3. \A u \in Thread : last'[u] # last[u] => Api!Answered(u, {"close"})
  BY DEF Api!Answered
<1>4. Api!Close(h)
  BY <1>1, <1>2, <1>3 DEF Api!Close, Files, Opens
<1> QED BY <1>4 DEF Api!Next

\* Nothing happens to a handle, and no call on an open file is answered.
LEMMA IsNothing ==
  ASSUME \A h \in Handle : /\ handle'[h].fd = handle[h].fd
                           /\ handle'[h].file = handle[h].file,
         \A u \in Thread : last'[u] # last[u] => last'[u].req.op \notin AccessOps
  PROVE  Api!Next
<1>1. Files' = Files /\ Opens' = Opens
  BY DEF Files, Opens
<1>2. Api!AccessOps = AccessOps
  BY DEF AccessOps, Api!AccessOps
<1>3. Api!ByName
  BY <1>1, <1>2 DEF Api!ByName, Api!Answered, Files, Opens
<1> QED BY <1>3 DEF Api!Next

LEMMA CloseCloses ==
  ASSUME Full, NEW t \in Thread, Close(t)
  PROVE  Api!Next
<1>0. Inv /\ CallsOK /\ handle \in [Handle -> HandleRec] /\ UNCHANGED tree
  BY TypesHave DEF Full, Inv, Types, Close
<1>1. Req(t).h \in Handle /\ todo[t] # <<>> /\ Req(t).op = "close"
  BY <1>0, HeldHas DEF Close
<1>2. PICK h \in Handle : h = Req(t).h
  BY <1>1
<1> DEFINE y == [handle[h] EXCEPT !.fd = None, !.dirp = None]
<1>3. handle' = [handle EXCEPT ![h] = y] /\ Return(t, Ok(<<>>))
  BY <1>2 DEF Close
<1>4. y.fd = None /\ y.file = handle[h].file
  BY <1>0 DEF HandleRec
<1> HIDE DEF y
<1>5. handle'[h] = y /\ \A g \in Handle : g # h => handle'[g] = handle[g]
  BY <1>0, <1>3
<1>6. \A u \in Thread : last'[u] # last[u] => last'[u].req.op = "close"
  <2>1. /\ last'[t] = [req |-> Req(t), ans |-> Ok(<<>>), left |-> Len(todo[t]) - 1]
        /\ \A u \in Thread : u # t => last'[u] = last[u]
    BY <1>0, <1>1, <1>3, Ends
  <2> QED BY <1>1, <2>1
<1>7. CASE handle[h].fd # None
  BY <1>0, <1>4, <1>5, <1>6, <1>7, IsClose
<1>8. CASE handle[h].fd = None
  <2>1. \A g \in Handle : handle'[g].fd = handle[g].fd /\ handle'[g].file = handle[g].file
    BY <1>4, <1>5, <1>8
  <2>2. \A u \in Thread : last'[u] # last[u] => last'[u].req.op \notin AccessOps
    BY <1>6 DEF AccessOps
  <2> QED BY <2>1, <2>2, IsNothing
<1> QED BY <1>7, <1>8

LEMMA GcCloses ==
  ASSUME Full, NEW h \in Handle, Gc(h)
  PROVE  Api!Next
<1>0. handle \in [Handle -> HandleRec] /\ UNCHANGED <<tree, last>>
  BY DEF Full, Inv, Types, Gc
<1> DEFINE y == [handle[h] EXCEPT !.st = "gone", !.fd = None, !.dirp = None]
<1>1. handle' = [handle EXCEPT ![h] = y]
  BY DEF Gc
<1>2. y.fd = None /\ y.file = handle[h].file
  BY <1>0 DEF HandleRec
<1> HIDE DEF y
<1>3. handle'[h] = y /\ \A g \in Handle : g # h => handle'[g] = handle[g]
  BY <1>0, <1>1
<1>4. \A u \in Thread : last'[u] = last[u]
  BY <1>0
<1>5. CASE handle[h].fd # None
  BY <1>0, <1>2, <1>3, <1>4, <1>5, IsClose
<1>6. CASE handle[h].fd = None
  <2>1. \A g \in Handle : handle'[g].fd = handle[g].fd /\ handle'[g].file = handle[g].file
    BY <1>2, <1>3, <1>6
  <2> QED BY <1>4, <2>1, IsNothing
<1> QED BY <1>5, <1>6

LEMMA StepImplements ==
  ASSUME Full, NEW t \in Thread, Step(t)
  PROVE  Api!Next
<1>0. Inv /\ TodoStay(t)
  BY StepTodo DEF Full
<1>1. CASE OtherStep(t)
  <2>1. /\ Went(t) /\ (Silent(t) \/ Takes(t) \/ Gives(t))
        /\ At(t, "idle") => \A h \in Named(Req(t)) : handle[h].st = "live"
        /\ \/ Quiet(t)
           \/ Access(t)
           \/ Misses(t) /\ Silent(t)
           \/ Refuses(t) /\ Silent(t)
           \/ NoBinary(t) /\ Silent(t)
    BY <1>0, <1>1, PlainWent
  <2>2. SameHandles
    BY <1>0, <2>1, WentKeeps
  <2>3. CASE Quiet(t)
    BY <2>2, <2>3, IsByName DEF SameHandles
  <2>4. CASE Access(t)
    BY <2>4, AccessServes
  <2>5. CASE (Misses(t) \/ Refuses(t) \/ NoBinary(t)) /\ Silent(t)
    <3>1. handle' = handle
      BY <2>5 DEF Silent
    <3>2. CASE Req(t).op \in AccessOps
      BY <2>5, <3>1, <3>2, RefusalServes
    <3>3. CASE Req(t).op \notin AccessOps
      <4>1. Misses(t)
        BY <2>5, <3>3 DEF Refuses, NoBinary, AccessOps
      <4>2. Quiet(t)
        BY <1>0, <3>3, <4>1, FailQuiet DEF Misses
      <4> QED BY <2>3, <4>2
    <3> QED BY <3>2, <3>3
  <2> QED BY <2>1, <2>3, <2>4, <2>5
<1>2. CASE OpenStream(t)
  <2>1. Quiet(t)
    BY <1>0, <1>2, StreamSets
  <2>2. \A h \in Handle : handle'[h].fd = handle[h].fd /\ handle'[h].file = handle[h].file
    BY <1>0, <1>2, StreamKeeps
  <2> QED BY <2>1, <2>2, IsByName
<1> QED BY <1>1, <1>2, MakeGrants, CloseCloses DEF OtherStep

\* Each step of wasi_file_nif.c is a step of FileApi or leaves what FileApi sees.
LEMMA NextImplements ==
  ASSUME Full, [Next]_vars PROVE [Api!Next]_(Api!vars)
<1>1. CASE \E t \in Thread : ThreadStep(t)
  BY <1>1, StepImplements DEF ThreadStep
<1>2. CASE Elsewhere
  <2>1. ASSUME NEW s \in Swaps, Swap(s) PROVE Api!Next
    BY <2>1, IsNothing DEF Swap, hvars
  <2>2. ASSUME NEW h \in Handle, Gc(h) PROVE Api!Next
    BY <2>2, GcCloses
  <2> QED BY <1>2, <2>1, <2>2 DEF Elsewhere
<1>3. CASE UNCHANGED vars
  <2>1. UNCHANGED <<handle, tree, last>>
    BY <1>3 DEF vars, kvars, hvars
  <2>2. UNCHANGED <<Files, Opens, tree, last>>
    BY <2>1 DEF Files, Opens
  <2> QED BY <2>2, ApiVars DEF Files, Opens, Api!vars
<1> QED BY <1>1, <1>2, <1>3 DEF Next

\* Every call on a handle is one atomic access to the file that the handle was made
\* for, until it is closed: a number that is closed and handed out again is never used
\* through an old handle, whatever other threads and processes do meanwhile.
THEOREM HandlesAtomic == Spec => AtomicHandles
<1>1. Init => Api!Init
  BY ApiInit
<1>2. Full /\ [Next]_vars => [Api!Next]_(Api!vars)
  BY NextImplements
<1> QED BY <1>1, <1>2, FullAlways, PTL DEF Spec, AtomicHandles, Api!Spec
-----------------------------------------------------------------------------
(* Every open number has one owner                                         *)

HandlePlaces(f) ==
    {<<h, "fd">> : h \in {g \in Handle : handle[g].fd = f}}
    \cup {<<h, "dirp">> : h \in {g \in Handle : handle[g].dirp = f}}
Places(t, f) ==
    {<<t, "base", i>> : i \in {j \in DOMAIN call[t].base : call[t].base[j] = f}}
    \cup {<<t, "walk", i>> : i \in {j \in DOMAIN call[t].walk :
                                   call[t].walk[j].own /\ call[t].walk[j].cur = f}}
    \cup {<<t, "got", i>> : i \in {j \in DOMAIN call[t].got :
                                   call[t].got[j].own /\ call[t].got[j].fd = f}}
    \cup {<<t, "fd", 0>> : x \in {y \in {0} : call[t].fd = f}}

LEMMA OwnersAre ==
  ASSUME NEW f
  PROVE  Owners(f) = HandlePlaces(f) \cup UNION {Places(t, f) : t \in Thread}
BY DEF Owners, HandlePlaces, Places

LEMMA PlacesAre ==
  ASSUME Inv, NEW t \in Thread, NEW f \in Fd
  PROVE  /\ f \notin Mine(call[t]) => Places(t, f) = {}
         /\ f \in Mine(call[t]) => \E x : Places(t, f) = {x}
<1> DEFINE c == call[t]
           I == {i \in 1 .. Len(c.base) : c.base[i] = f}
           W == {i \in 1 .. Len(c.walk) : c.walk[i].own /\ c.walk[i].cur = f}
           G == {i \in 1 .. Len(c.got) : c.got[i].own /\ c.got[i].fd = f}
<1>1. c \in CallRec /\ Apart(c)
  BY TypesHave DEF Inv, CallsOK, CallOK
<1>2. /\ DOMAIN c.base = 1 .. Len(c.base) /\ DOMAIN c.walk = 1 .. Len(c.walk)
      /\ DOMAIN c.got = 1 .. Len(c.got)
  BY <1>1 DEF CallRec
<1>3. Places(t, f) = {<<t, "base", i>> : i \in I} \cup {<<t, "walk", i>> : i \in W}
                       \cup {<<t, "got", i>> : i \in G}
                       \cup (IF c.fd = f THEN {<<t, "fd", 0>>} ELSE {})
  BY <1>2 DEF Places
<1>4. /\ I # {} <=> f \in Bases(c.base)
      /\ W # {} <=> f \in Walked(c.walk)
      /\ G # {} <=> f \in Gotten(c.got)
  BY DEF Bases, Walked, Gotten
<1>5. /\ \A i, j \in I : i = j
      /\ \A i, j \in W : i = j
      /\ \A i, j \in G : i = j
  BY <1>1 DEF Apart, BasesApart, WalkApart, GotApart
<1>6. f # None
  BY KernelAssumption
<1>7. f \in Mine(c) <=> I # {} \/ W # {} \/ G # {} \/ c.fd = f
  BY <1>4, <1>6 DEF Mine
<1>8. /\ I # {} => W = {} /\ G = {} /\ c.fd # f
      /\ W # {} => I = {} /\ G = {} /\ c.fd # f
      /\ G # {} => I = {} /\ W = {} /\ c.fd # f
  BY <1>1, <1>4 DEF Apart
<1> HIDE DEF I, W, G
<1>9. CASE I # {}
  <2>1. PICK i : I = {i}
    BY <1>5, <1>9
  <2>2. Places(t, f) = {<<t, "base", i>>}
    BY <1>3, <1>8, <1>9, <2>1
  <2> QED BY <1>7, <1>9, <2>2
<1>10. CASE W # {}
  <2>1. PICK i : W = {i}
    BY <1>5, <1>10
  <2>2. Places(t, f) = {<<t, "walk", i>>}
    BY <1>3, <1>8, <1>10, <2>1
  <2> QED BY <1>7, <1>10, <2>2
<1>11. CASE G # {}
  <2>1. PICK i : G = {i}
    BY <1>5, <1>11
  <2>2. Places(t, f) = {<<t, "got", i>>}
    BY <1>3, <1>8, <1>11, <2>1
  <2> QED BY <1>7, <1>11, <2>2
<1>12. CASE I = {} /\ W = {} /\ G = {}
  <2>1. Places(t, f) = IF c.fd = f THEN {<<t, "fd", 0>>} ELSE {}
    BY <1>3, <1>12
  <2> QED BY <1>7, <1>12, <2>1
<1> QED BY <1>9, <1>10, <1>11, <1>12

LEMMA HandlePlacesAre ==
  ASSUME Inv, NEW f \in Fd
  PROVE  /\ (\A h \in Handle : f \notin Holds(h)) => HandlePlaces(f) = {}
         /\ \A h \in Handle : f \in Holds(h) => \E x : HandlePlaces(f) = {x}
<1>1. f # None
  BY KernelAssumption
<1>2. \A h \in Handle : f \in Holds(h) <=> handle[h].fd = f \/ handle[h].dirp = f
  BY <1>1 DEF Holds
<1>3. ASSUME NEW h \in Handle, f \in Holds(h)
      PROVE  \E x : HandlePlaces(f) = {x}
  <2>1. \A g \in Handle : g # h => handle[g].fd # f /\ handle[g].dirp # f
    BY <1>2, <1>3 DEF Inv, Sole
  <2>2. handle[h].fd = f => handle[h].dirp # f
    BY <1>1 DEF Inv, Sole
  <2>3. CASE handle[h].fd = f
    <3>1. HandlePlaces(f) = {<<h, "fd">>}
      BY <2>1, <2>2, <2>3 DEF HandlePlaces
    <3> QED BY <3>1
  <2>4. CASE handle[h].fd # f /\ handle[h].dirp = f
    <3>1. HandlePlaces(f) = {<<h, "dirp">>}
      BY <2>1, <2>4 DEF HandlePlaces
    <3> QED BY <3>1
  <2> QED BY <1>2, <1>3, <2>3, <2>4
<1>4. ASSUME \A h \in Handle : f \notin Holds(h) PROVE HandlePlaces(f) = {}
  BY <1>2, <1>4 DEF HandlePlaces
<1> QED BY <1>3, <1>4

\* Nothing is leaked and nothing is closed twice: a descriptor that is open is to be
\* closed by one owner, a handle, its stream or a call in progress, and one that is
\* closed by nobody, whatever the scripts, the names and the other processes do.
THEOREM SoleOwner == Spec => []OneOwner
<1>1. Full => OneOwner
  <2> SUFFICES ASSUME Full, NEW f \in Fd
               PROVE  Cardinality(Owners(f)) = IF fds[f] = None THEN 0 ELSE 1
    BY DEF OneOwner
  <2>1. Inv /\ Sole
    BY DEF Full, Inv
  <2>2. Owners(f) = HandlePlaces(f) \cup UNION {Places(t, f) : t \in Thread}
    BY OwnersAre
  <2>3. CASE fds[f] = None
    <3>1. /\ \A t \in Thread : f \notin Mine(call[t])
          /\ \A h \in Handle : f \notin Holds(h)
      BY <2>1, <2>3 DEF Sole, IsOpen
    <3>2. /\ \A t \in Thread : Places(t, f) = {}
          /\ HandlePlaces(f) = {}
      BY <2>1, <3>1, PlacesAre, HandlePlacesAre
    <3>3. Owners(f) = {}
      BY <2>2, <3>2
    <3> QED BY <2>3, <3>3, FS_EmptySet
  <2>4. CASE fds[f] # None
    <3>1. \E x : Owners(f) = {x}
      <4>1. CASE \E h \in Handle : f \in Holds(h)
        <5>1. PICK x : HandlePlaces(f) = {x}
          BY <2>1, <4>1, HandlePlacesAre
        <5>2. \A t \in Thread : f \notin Mine(call[t])
          BY <2>1, <4>1 DEF Sole
        <5>3. \A t \in Thread : Places(t, f) = {}
          BY <2>1, <5>2, PlacesAre
        <5>4. Owners(f) = {x}
          BY <2>2, <5>1, <5>3
        <5> QED BY <5>4
      <4>2. CASE ~\E h \in Handle : f \in Holds(h)
        <5>1. HandlePlaces(f) = {}
          BY <2>1, <4>2, HandlePlacesAre
        <5>2. PICK t \in Thread : f \in Mine(call[t])
          BY <2>1, <2>4, <4>2 DEF Sole
        <5>3. PICK x : Places(t, f) = {x}
          BY <2>1, <5>2, PlacesAre
        <5>4. \A u \in Thread : u # t => f \notin Mine(call[u])
          BY <2>1, <5>2 DEF Sole
        <5>5. \A u \in Thread : u # t => Places(u, f) = {}
          BY <2>1, <5>4, PlacesAre
        <5>6. UNION {Places(u, f) : u \in Thread} = {x}
          BY <5>3, <5>5
        <5> QED BY <2>2, <5>1, <5>6
      <4> QED BY <4>1, <4>2
    <3>2. \A x : Cardinality({x}) = 1
      BY FS_Singleton
    <3> QED BY <2>4, <3>1, <3>2
  <2> QED BY <2>3, <2>4
<1> QED BY <1>1, FullAlways, PTL

-----------------------------------------------------------------------------
(* How many descriptors a call has open                                    *)

\* The places of a call bound what it has open.
LEMMA MineAtMost ==
  ASSUME NEW c \in CallRec
  PROVE  /\ IsFiniteSet(Mine(c))
         /\ c.fd = None =>
              Cardinality(Mine(c)) <= Len(c.base) + Len(c.walk) + Len(c.got)
         /\ c.base = <<>> /\ c.walk = <<>> /\ c.got = <<>> =>
              Cardinality(Mine(c)) <= 1
<1> DEFINE b == c.base  w == c.walk  g == c.got  own == {c.fd} \ {None}
<1>1. Len(b) \in Nat /\ Len(w) \in Nat /\ Len(g) \in Nat
  BY DEF CallRec
<1>2. /\ IsFiniteSet(Bases(b)) /\ Cardinality(Bases(b)) \in Nat
      /\ Cardinality(Bases(b)) <= Len(b)
  BY <1>1, AtMost DEF Bases
<1>3. /\ IsFiniteSet(Walked(w)) /\ Cardinality(Walked(w)) \in Nat
      /\ Cardinality(Walked(w)) <= Len(w)
  <2> DEFINE at == [i \in 1 .. Len(w) |-> w[i].cur]
  <2>1. \A x \in Walked(w) : \E i \in 1 .. Len(w) : at[i] = x
    BY DEF Walked
  <2> HIDE DEF at
  <2> QED BY <1>1, <2>1, AtMost
<1>4. /\ IsFiniteSet(Gotten(g)) /\ Cardinality(Gotten(g)) \in Nat
      /\ Cardinality(Gotten(g)) <= Len(g)
  <2> DEFINE at == [i \in 1 .. Len(g) |-> g[i].fd]
  <2>1. \A x \in Gotten(g) : \E i \in 1 .. Len(g) : at[i] = x
    BY DEF Gotten
  <2> HIDE DEF at
  <2> QED BY <1>1, <2>1, AtMost
<1>5. IsFiniteSet(own) /\ Cardinality(own) \in Nat /\ Cardinality(own) <= 1
  <2> DEFINE at == [i \in 1 .. 1 |-> c.fd]
  <2>1. \A x \in own : \E i \in 1 .. 1 : at[i] = x
    OBVIOUS
  <2> HIDE DEF at, own
  <2> QED BY <2>1, AtMost
<1> DEFINE Two(S, T) == IsFiniteSet(S \cup T) /\ Cardinality(S \cup T) \in Nat
                          /\ Cardinality(S \cup T) <= Cardinality(S) + Cardinality(T)
<1>6. ASSUME NEW S, NEW T, IsFiniteSet(S), IsFiniteSet(T)
      PROVE  Two(S, T)
  <2>1. IsFiniteSet(S \cap T) /\ IsFiniteSet(S \cup T)
    BY <1>6, FS_Subset, FS_Union, S \cap T \in SUBSET S
  <2>2. /\ Cardinality(S \cap T) \in Nat /\ Cardinality(S \cup T) \in Nat
        /\ Cardinality(S) \in Nat /\ Cardinality(T) \in Nat
    BY <1>6, <2>1, FS_CardinalityType
  <2>3. Cardinality(S \cup T) = Cardinality(S) + Cardinality(T) - Cardinality(S \cap T)
    BY <1>6, FS_Union
  <2> QED BY <2>1, <2>2, <2>3
<1>7. Two(Bases(b), Walked(w))
  BY <1>2, <1>3, <1>6
<1>8. Two(Bases(b) \cup Walked(w), Gotten(g))
  BY <1>4, <1>6, <1>7
<1>9. Two(Bases(b) \cup Walked(w) \cup Gotten(g), own)
  BY <1>5, <1>6, <1>8
<1>10. Mine(c) = Bases(b) \cup Walked(w) \cup Gotten(g) \cup own
  BY DEF Mine
<1>11. CASE c.fd = None
  <2>1. Mine(c) = Bases(b) \cup Walked(w) \cup Gotten(g)
    BY <1>10, <1>11
  <2>2. IsFiniteSet(Mine(c)) /\ Cardinality(Mine(c)) <= Len(b) + Len(w) + Len(g)
    <3> HIDE DEF b, w, g, own
    <3> QED BY <1>1, <1>2, <1>3, <1>4, <1>7, <1>8, <2>1
  <2>3. ASSUME b = <<>>, w = <<>>, g = <<>>
        PROVE  Cardinality(Mine(c)) <= 1
    <3>1. Len(b) = 0 /\ Len(w) = 0 /\ Len(g) = 0
      BY <2>3
    <3>2. Cardinality(Mine(c)) \in Nat
      BY <2>2, FS_CardinalityType
    <3> HIDE DEF b, w, g, own
    <3> QED BY <2>2, <3>1, <3>2
  <2> QED BY <2>2, <2>3
<1>12. CASE c.fd # None
  <2>1. ASSUME b = <<>>, w = <<>>, g = <<>>
        PROVE  Mine(c) = own
    BY <1>10, <2>1 DEF Bases, Walked, Gotten
  <2> QED BY <1>5, <1>9, <1>10, <1>12, <2>1
<1> QED BY <1>11, <1>12

\* Where a call is tells how many frames its walk has.
LEMMA FramesAtMost ==
  ASSUME NEW c \in CallRec, NEW r,
         c = Idle \/ (c.pc # "idle" /\ Phase(c, r))
  PROVE  /\ Len(c.walk) <= MaxLinks + 1
         /\ c.fd = None \/ (c.base = <<>> /\ c.walk = <<>> /\ c.got = <<>>)
<1>0. Len(<<>>) = 0 /\ MaxLinks \in Nat
  BY HandleAssumption
<1>1. CASE c = Idle
  BY <1>0, <1>1 DEF Idle
<1>2. CASE Phase(c, r) /\ c.pc \in {"walk", "link"}
  <2>1. c.walk # <<>> /\ FramesOK(c, r) /\ c.fd = None
    BY <1>2 DEF Phase, Based
  <2>2. c.walk \in Seq(Frame)
    BY DEF CallRec
  <2>3. Len(c.walk) \in 1 .. Len(c.walk) /\ Len(c.walk) \in Nat
    BY <2>1, <2>2
  <2>4. c.walk[Len(c.walk)].bud \in 0 .. MaxLinks
    <3>1. c.walk[Len(c.walk)] \in Frame
      BY <2>2, <2>3
    <3> QED BY <3>1 DEF Frame
  <2>5. c.walk[Len(c.walk)].bud = MaxLinks + 1 - Len(c.walk)
    BY <2>1, <2>3 DEF FramesOK
  <2> QED BY <1>0, <2>1, <2>3, <2>4, <2>5
<1>3. CASE Phase(c, r) /\ c.pc \notin {"walk", "link", "idle"}
  <2>1. c.pc \in {"root", "lock", "held", "enter", "final", "act", "made", "rewind",
                  "fill"}
    BY <1>3 DEF CallRec, Pcs
  <2>2. c.fd = None \/ (c.base = <<>> /\ c.walk = <<>> /\ c.got = <<>>)
    BY <1>3, <2>1 DEF Phase, Bare, Based
  <2>3. c.walk = <<>>
    BY <1>3, <2>1 DEF Phase, Bare
  <2> QED BY <1>0, <2>2, <2>3
<1> QED BY <1>1, <1>2, <1>3

\* However links lead to links, and whatever is renamed meanwhile, a call has no more
\* descriptors open than it started from, the parents it has found, and one for the walk
\* and for each link that is inside another.
THEOREM WalksBounded == Spec => []WalkBounded
<1>1. Full => WalkBounded
  <2> SUFFICES ASSUME Full, NEW t \in Thread
               PROVE  Cardinality(Owned(t))
                        <= Len(call[t].base) + Len(call[t].got) + MaxLinks + 1
    BY DEF WalkBounded
  <2> DEFINE c == call[t]
  <2>1. CallsOK
    BY TypesHave DEF Full, Inv
  <2>2. Owned(t) = Mine(c)
    BY <2>1, OwnedIs
  <2>3. c \in CallRec /\ (c = Idle \/ (c.pc # "idle" /\ Phase(c, Head(todo[t]))))
    BY <2>1 DEF CallsOK, CallOK, StageOK
  <2> HIDE DEF c
  <2>4. MaxLinks \in Nat /\ Len(c.base) \in Nat /\ Len(c.walk) \in Nat
        /\ Len(c.got) \in Nat
    BY <2>3, HandleAssumption DEF CallRec
  <2>5. /\ Len(c.walk) <= MaxLinks + 1
        /\ c.fd = None \/ (c.base = <<>> /\ c.walk = <<>> /\ c.got = <<>>)
    BY <2>3, FramesAtMost
  <2>6. /\ IsFiniteSet(Mine(c))
        /\ c.fd = None =>
             Cardinality(Mine(c)) <= Len(c.base) + Len(c.walk) + Len(c.got)
        /\ c.base = <<>> /\ c.walk = <<>> /\ c.got = <<>> => Cardinality(Mine(c)) <= 1
    BY <2>3, MineAtMost
  <2>7. Cardinality(Mine(c)) \in Nat
    BY <2>6, FS_CardinalityType
  <2> DEFINE k == Cardinality(Mine(c))  nb == Len(c.base)  nw == Len(c.walk)
             ng == Len(c.got)
  <2>8. k <= nb + ng + MaxLinks + 1
    <3>0. MaxLinks \in Nat /\ nb \in Nat /\ nw \in Nat /\ ng \in Nat /\ k \in Nat
      BY <2>4, <2>7
    <3>1. CASE c.fd = None
      <4>1. k <= nb + nw + ng /\ nw <= MaxLinks + 1
        BY <2>5, <2>6, <3>1
      <4> HIDE DEF k, nb, nw, ng
      <4> QED BY <3>0, <4>1
    <3>2. CASE c.fd # None
      <4>1. k <= 1
        BY <2>5, <2>6, <3>2
      <4> HIDE DEF k, nb, nw, ng
      <4> QED BY <3>0, <4>1
    <3> QED BY <3>1, <3>2
  <2> QED BY <2>2, <2>8 DEF c
<1> QED BY <1>1, FullAlways, PTL

-----------------------------------------------------------------------------
(* Directories above one another                                           *)

LEMMA UpType ==
  ASSUME NEW T \in [Node -> Entry], NEW n \in Node
  PROVE  T[n].up \in Node
BY DEF Entry

\* Everything above a directory is a directory.
LEMMA AboveDirs ==
  ASSUME NEW T \in [Node -> Entry], NEW a, NEW b, NEW k \in Nat, NEW s,
         Climbs(T, s, a, b, k), T[a].kind = "dir",
         \A n \in Node : T[n].kind = "dir" => T[T[n].up].kind = "dir"
  PROVE  \A i \in 0 .. k : T[s[i]].kind = "dir"
<1> DEFINE S == {i \in 0 .. k : T[s[i]].kind # "dir"}
<1> SUFFICES ASSUME S # {} PROVE FALSE
  OBVIOUS
<1>1. PICK m \in S : m \in Nat /\ \A y \in S : m <= y
  <2>1. S \subseteq Nat
    OBVIOUS
  <2> HIDE DEF S
  <2> QED BY <2>1, LeastIs
<1>2. m # 0
  BY DEF Climbs
<1>3. m - 1 \in 0 .. k /\ m - 1 \in 0 .. k - 1 /\ m - 1 \notin S
  BY <1>1, <1>2
<1>4. T[s[m - 1]].kind = "dir" /\ s[m - 1] \in Node /\ s[m - 1 + 1] = T[s[m - 1]].up
  BY <1>3 DEF Climbs
<1>5. m - 1 + 1 = m
  BY <1>1
<1> QED BY <1>4, <1>5

\* The directories keep what is above them.
Grown(T, U) ==
    \A n \in Node : T[n].kind # "free" =>
      U[n].kind = T[n].kind /\ (T[n].kind = "dir" => U[n].up = T[n].up)

LEMMA AboveKept ==
  ASSUME NEW T \in [Node -> Entry], NEW U \in [Node -> Entry], Grown(T, U),
         \A n \in Node : T[n].kind = "dir" => T[T[n].up].kind = "dir",
         NEW a, T[a].kind = "dir", NEW b, NEW k \in Nat, Above(T, b, a, k)
  PROVE  Above(U, b, a, k)
<1>1. PICK s : Climbs(T, s, a, b, k)
  BY DEF Above
<1>2. \A i \in 0 .. k : T[s[i]].kind = "dir"
  BY <1>1, AboveDirs
<1>3. ASSUME NEW i \in 0 .. k - 1
      PROVE  s[i + 1] = U[s[i]].up
  <2>1. i \in 0 .. k
    OBVIOUS
  <2>2. s[i] \in Node /\ T[s[i]].kind = "dir" /\ s[i + 1] = T[s[i]].up
    BY <1>1, <1>2, <2>1 DEF Climbs
  <2>3. U[s[i]].up = T[s[i]].up
    BY <2>2 DEF Grown
  <2> QED BY <2>2, <2>3
<1>4. Climbs(U, s, a, b, k)
  BY <1>1, <1>3 DEF Climbs
<1> QED BY <1>4 DEF Above

LEMMA AboveHere ==
  ASSUME NEW T, NEW a \in Node
  PROVE  Above(T, a, a, 0)
<1> DEFINE s == [i \in 0 .. 0 |-> a]
<1>1. Climbs(T, s, a, a, 0)
  BY DEF Climbs
<1> QED BY <1>1 DEF Above

\* One down, and one up.
LEMMA AboveDown ==
  ASSUME NEW T, NEW a, NEW b, NEW k \in Nat, Above(T, b, a, k),
         NEW n \in Node, T[n].up = a
  PROVE  Above(T, b, n, k + 1)
<1>1. PICK s : Climbs(T, s, a, b, k)
  BY DEF Above
<1> DEFINE r == [i \in 0 .. k + 1 |-> IF i = 0 THEN n ELSE s[i - 1]]
<1>2. r \in [0 .. k + 1 -> Node]
  <2>1. \A i \in 0 .. k + 1 : i # 0 => i - 1 \in 0 .. k
    OBVIOUS
  <2> QED BY <1>1, <2>1 DEF Climbs
<1>3. r[0] = n /\ r[k + 1] = b
  <2>1. 0 \in 0 .. k + 1 /\ k + 1 \in 0 .. k + 1 /\ k + 1 # 0 /\ k + 1 - 1 = k
    OBVIOUS
  <2> QED BY <1>1, <2>1 DEF Climbs
<1>4. ASSUME NEW i \in 0 .. k + 1 - 1
      PROVE  r[i + 1] = T[r[i]].up
  <2>1. i \in 0 .. k + 1 /\ i + 1 \in 0 .. k + 1 /\ i + 1 # 0 /\ i + 1 - 1 = i
    OBVIOUS
  <2>2. r[i + 1] = s[i]
    BY <2>1
  <2>3. CASE i = 0
    BY <1>1, <2>1, <2>2, <2>3 DEF Climbs
  <2>4. CASE i # 0
    <3>1. i - 1 \in 0 .. k - 1 /\ i - 1 + 1 = i
      BY <2>1, <2>4
    <3>2. s[i] = T[s[i - 1]].up
      BY <1>1, <3>1 DEF Climbs
    <3>3. r[i] = s[i - 1]
      BY <2>1, <2>4
    <3> QED BY <2>2, <3>2, <3>3
  <2> QED BY <2>3, <2>4
<1> HIDE DEF r
<1>5. Climbs(T, r, n, b, k + 1)
  BY <1>2, <1>3, <1>4 DEF Climbs
<1> QED BY <1>5 DEF Above

LEMMA AboveUp ==
  ASSUME NEW T, NEW a, NEW b, NEW k \in Nat, k # 0, Above(T, b, a, k)
  PROVE  Above(T, b, T[a].up, k - 1)
<1>1. PICK s : Climbs(T, s, a, b, k)
  BY DEF Above
<1> DEFINE r == [i \in 0 .. k - 1 |-> s[i + 1]]
<1>2. k - 1 \in Nat /\ \A i \in 0 .. k - 1 : i + 1 \in 0 .. k
  OBVIOUS
<1>3. r \in [0 .. k - 1 -> Node]
  BY <1>1, <1>2 DEF Climbs
<1>4. r[0] = T[a].up /\ r[k - 1] = b
  <2>1. 0 \in 0 .. k - 1 /\ k - 1 \in 0 .. k - 1 /\ k - 1 + 1 = k /\ 0 + 1 = 1
    BY <1>2
  <2>2. s[0 + 1] = T[s[0]].up
    BY <1>1, <2>1 DEF Climbs
  <2> QED BY <1>1, <2>1, <2>2 DEF Climbs
<1>5. ASSUME NEW i \in 0 .. k - 1 - 1
      PROVE  r[i + 1] = T[r[i]].up
  <2>1. i \in 0 .. k - 1 /\ i + 1 \in 0 .. k - 1
    BY <1>2
  <2>2. s[i + 1 + 1] = T[s[i + 1]].up
    BY <1>1, <2>1 DEF Climbs
  <2> QED BY <2>1, <2>2
<1> HIDE DEF r
<1>6. Climbs(T, r, T[a].up, b, k - 1)
  BY <1>3, <1>4, <1>5 DEF Climbs
<1> QED BY <1>6 DEF Above

\* The way up without going round.
LEMMA AboveNear ==
  ASSUME IsFiniteSet(Node), NEW T, NEW a, NEW b, NEW k \in Nat, Above(T, b, a, k)
  PROVE  \E m \in 0 .. Cardinality(Node) : Above(T, b, a, m)
<1> DEFINE K == {x \in Nat : Above(T, b, a, x)}
<1>1. PICK m \in K : m \in Nat /\ \A y \in K : m <= y
  <2>1. K \subseteq Nat /\ K # {}
    OBVIOUS
  <2> HIDE DEF K
  <2> QED BY <2>1, LeastIs
<1>2. PICK s : Climbs(T, s, a, b, m)
  BY <1>1 DEF Above
<1>3. ASSUME NEW i \in 0 .. m, NEW j \in 0 .. m, s[i] = s[j], i < j
      PROVE  FALSE
  <2> DEFINE l == m - (j - i)
             r == [x \in 0 .. l |-> IF x <= i THEN s[x] ELSE s[x + (j - i)]]
  <2>1. l \in Nat /\ l < m /\ i <= l /\ i \in Nat /\ j \in Nat
    BY <1>1, <1>3
  <2>2. \A x \in 0 .. l : /\ x \in Nat /\ x \in 0 .. m /\ x + (j - i) \in 0 .. m
                          /\ r[x] = IF x <= i THEN s[x] ELSE s[x + (j - i)]
    BY <1>1, <1>3, <2>1
  <2>3. r \in [0 .. l -> Node]
    BY <1>2, <2>2 DEF Climbs
  <2>4. r[0] = a
    <3>1. 0 \in 0 .. l /\ 0 <= i
      BY <2>1
    <3> QED BY <1>2, <2>2, <3>1 DEF Climbs
  <2>5. r[l] = b
    <3>1. l \in 0 .. l /\ l + (j - i) = m
      BY <1>1, <2>1
    <3>2. l <= i => l = i /\ j = m
      BY <1>1, <1>3, <2>1
    <3>3. s[m] = b
      BY <1>2 DEF Climbs
    <3> QED BY <1>3, <2>2, <3>1, <3>2, <3>3
  <2>6. ASSUME NEW x \in 0 .. l - 1
        PROVE  r[x + 1] = T[r[x]].up
    <3>1. x \in 0 .. l /\ x + 1 \in 0 .. l /\ x \in Nat
      BY <2>1
    <3>2. CASE x + 1 <= i
      <4>1. x \in 0 .. m - 1 /\ x <= i
        BY <1>1, <1>3, <3>1, <3>2
      <4>2. s[x + 1] = T[s[x]].up
        BY <1>2, <4>1 DEF Climbs
      <4> QED BY <2>2, <3>1, <3>2, <4>1, <4>2
    <3>3. CASE ~(x + 1 <= i)
      <4>1. x + (j - i) \in 0 .. m - 1 /\ x + 1 + (j - i) = x + (j - i) + 1
        BY <1>1, <1>3, <2>1, <3>1, <3>3
      <4>2. s[x + (j - i) + 1] = T[s[x + (j - i)]].up
        BY <1>2, <4>1 DEF Climbs
      <4>3. r[x + 1] = T[s[x + (j - i)]].up
        BY <2>2, <3>1, <3>3, <4>1, <4>2
      <4>4. x <= i => x = i /\ s[x] = s[x + (j - i)]
        <5>1. x <= i => x = i
          BY <1>1, <1>3, <2>1, <3>1, <3>3
        <5>2. i + (j - i) = j
          BY <2>1
        <5> QED BY <1>3, <5>1, <5>2
      <4> QED BY <2>2, <3>1, <4>3, <4>4
    <3> QED BY <3>2, <3>3
  <2> HIDE DEF r, l
  <2>7. Climbs(T, r, a, b, l)
    BY <2>3, <2>4, <2>5, <2>6 DEF Climbs
  <2>8. l \in K
    BY <2>1, <2>7 DEF Above
  <2> QED BY <1>1, <2>1, <2>8
<1>4. \A i, j \in 0 .. m : s[i] = s[j] => i = j
  <2> SUFFICES ASSUME NEW i \in 0 .. m, NEW j \in 0 .. m, s[i] = s[j], i # j
               PROVE  FALSE
    OBVIOUS
  <2>1. i < j \/ j < i
    BY <1>1
  <2> QED BY <1>3, <2>1
<1>5. s \in Injection(0 .. m, Node)
  BY <1>2, <1>4 DEF Climbs, Injection, IsInjective
<1>6. IsFiniteSet(0 .. m) /\ Cardinality(0 .. m) = m + 1
  BY <1>1, FS_Interval
<1>7. Cardinality(0 .. m) <= Cardinality(Node)
  BY <1>5, FS_Injection
<1>8. Cardinality(Node) \in Nat
  BY FS_CardinalityType
<1>9. m \in 0 .. Cardinality(Node)
  BY <1>1, <1>6, <1>7, <1>8
<1> QED BY <1>1, <1>9

-----------------------------------------------------------------------------
(* What Under counts with                                                  *)

Ups(g, n) == g = [k \in Nat |-> IF k = 0 THEN n ELSE tree[g[k - 1]].up]

LEMMA UnderIs ==
  ASSUME NEW n, NEW m
  PROVE  Under(n, m)
           <=> \E k \in 0 .. Cardinality(Node) : (CHOOSE g : Ups(g, n))[k] = m
BY DEF Under, Ups

\* The first k steps of it.
First(s, n, k) ==
    /\ s \in [0 .. k -> Node] /\ s[0] = n
    /\ \A i \in 0 .. k - 1 : s[i + 1] = tree[s[i]].up

LEMMA FirstExists ==
  ASSUME TreeType, NEW n \in Node, NEW k \in Nat
  PROVE  \E s : First(s, n, k)
<1> DEFINE B == {x \in Nat : ~\E s : First(s, n, x)}
<1> SUFFICES ASSUME B # {} PROVE FALSE
  OBVIOUS
<1>1. PICK m \in B : m \in Nat /\ \A y \in B : m <= y
  <2>1. B \subseteq Nat
    OBVIOUS
  <2> HIDE DEF B
  <2> QED BY <2>1, LeastIs
<1>2. m # 0
  <2> DEFINE s == [i \in 0 .. 0 |-> n]
  <2>1. First(s, n, 0)
    BY DEF First
  <2> QED BY <2>1
<1>3. m - 1 \in Nat /\ m - 1 \notin B
  BY <1>1, <1>2
<1>4. PICK s : First(s, n, m - 1)
  BY <1>3
<1> DEFINE r == [i \in 0 .. m |-> IF i = m THEN tree[s[m - 1]].up ELSE s[i]]
<1>5. s[m - 1] \in Node /\ tree[s[m - 1]].up \in Node
  <2>1. m - 1 \in 0 .. m - 1
    BY <1>3
  <2>2. s[m - 1] \in Node
    BY <1>4, <2>1 DEF First
  <2> QED BY <2>2, UpType DEF TreeType
<1>6. \A i \in 0 .. m : i # m => i \in 0 .. m - 1
  BY <1>1
<1>7. r \in [0 .. m -> Node]
  BY <1>4, <1>5, <1>6 DEF First
<1>8. r[0] = n
  BY <1>1, <1>2, <1>4 DEF First
<1>9. ASSUME NEW i \in 0 .. m - 1
      PROVE  r[i + 1] = tree[r[i]].up
  <2>1. i \in 0 .. m /\ i + 1 \in 0 .. m /\ i # m /\ r[i] = s[i]
    BY <1>1
  <2>2. CASE i + 1 = m
    <3>1. i = m - 1
      BY <1>1, <2>2
    <3> QED BY <2>1, <2>2, <3>1
  <2>3. CASE i + 1 # m
    <3>1. i \in 0 .. m - 1 - 1
      BY <1>1, <2>3
    <3>2. s[i + 1] = tree[s[i]].up
      BY <1>4, <3>1 DEF First
    <3> QED BY <2>1, <2>3, <3>2
  <2> QED BY <2>2, <2>3
<1> HIDE DEF r
<1>10. First(r, n, m)
  BY <1>7, <1>8, <1>9 DEF First
<1> QED BY <1>1, <1>10

LEMMA FirstSame ==
  ASSUME NEW n, NEW k \in Nat, NEW s, First(s, n, k), NEW l \in Nat, k <= l,
         NEW r, First(r, n, l)
  PROVE  \A i \in 0 .. k : s[i] = r[i]
<1> DEFINE B == {i \in 0 .. k : s[i] # r[i]}
<1> SUFFICES ASSUME B # {} PROVE FALSE
  OBVIOUS
<1>1. PICK m \in B : m \in Nat /\ \A y \in B : m <= y
  <2>1. B \subseteq Nat
    OBVIOUS
  <2> HIDE DEF B
  <2> QED BY <2>1, LeastIs
<1>2. m # 0
  BY DEF First
<1>3. /\ m - 1 \in 0 .. k - 1 /\ m - 1 \in 0 .. l - 1 /\ m - 1 \in 0 .. k
      /\ m - 1 + 1 = m /\ m - 1 \notin B
  BY <1>1, <1>2
<1>4. s[m - 1 + 1] = tree[s[m - 1]].up /\ r[m - 1 + 1] = tree[r[m - 1]].up
  BY <1>3 DEF First
<1>5. s[m - 1] = r[m - 1]
  BY <1>3
<1> QED BY <1>3, <1>4, <1>5

LEMMA UpsExist ==
  ASSUME TreeType, NEW n \in Node
  PROVE  \E g : Ups(g, n)
<1> DEFINE S(k) == CHOOSE s : First(s, n, k)
           g == [k \in Nat |-> S(k)[k]]
<1>1. \A k \in Nat : First(S(k), n, k)
  BY FirstExists
<1> HIDE DEF S
<1>2. ASSUME NEW k \in Nat
      PROVE  g[k] = IF k = 0 THEN n ELSE tree[g[k - 1]].up
  <2>1. CASE k = 0
    BY <1>1, <2>1 DEF First
  <2>2. CASE k # 0
    <3>1. /\ k - 1 \in Nat /\ k - 1 \in 0 .. k - 1 /\ k - 1 <= k /\ k - 1 + 1 = k
      BY <2>2
    <3>2. First(S(k), n, k) /\ First(S(k - 1), n, k - 1)
      BY <1>1, <3>1
    <3>3. S(k)[k - 1 + 1] = tree[S(k)[k - 1]].up
      BY <3>1, <3>2 DEF First
    <3>4. S(k - 1)[k - 1] = S(k)[k - 1]
      BY <3>1, <3>2, FirstSame
    <3> QED BY <2>2, <3>1, <3>3, <3>4
  <2> QED BY <2>1, <2>2
<1>3. g = [k \in Nat |-> g[k]]
  OBVIOUS
<1> HIDE DEF g
<1>4. g = [k \in Nat |-> IF k = 0 THEN n ELSE tree[g[k - 1]].up]
  BY <1>2, <1>3
<1> QED BY <1>4 DEF Ups

\* What is above a node in some number of steps, it lies under.
LEMMA AboveUnder ==
  ASSUME TreeType, IsFiniteSet(Node), NEW n \in Node, NEW m, NEW l \in Nat,
         Above(tree, m, n, l)
  PROVE  Under(n, m)
<1> DEFINE g == CHOOSE x : Ups(x, n)
<1>1. Ups(g, n)
  BY UpsExist
<1>2. PICK k \in 0 .. Cardinality(Node) : Above(tree, m, n, k)
  BY AboveNear
<1>3. k \in Nat
  BY FS_CardinalityType
<1>4. PICK s : Climbs(tree, s, n, m, k)
  BY <1>2 DEF Above
<1> HIDE DEF g
<1>5. \A j \in Nat : g[j] = IF j = 0 THEN n ELSE tree[g[j - 1]].up
  BY <1>1 DEF Ups
<1>6. ASSUME NEW j \in Nat PROVE g[j] \in Node
  <2> DEFINE B == {x \in Nat : g[x] \notin Node}
  <2> SUFFICES ASSUME B # {} PROVE FALSE
    OBVIOUS
  <2>1. PICK x \in B : x \in Nat /\ \A y \in B : x <= y
    <3>1. B \subseteq Nat
      OBVIOUS
    <3> HIDE DEF B
    <3> QED BY <3>1, LeastIs
  <2>2. x # 0
    BY <1>5
  <2>3. x - 1 \in Nat /\ x - 1 \notin B
    BY <2>1, <2>2
  <2>4. g[x] = tree[g[x - 1]].up
    BY <1>5, <2>1, <2>2
  <2>5. g[x - 1] \in Node
    BY <2>3
  <2> QED BY <2>1, <2>4, <2>5, UpType DEF TreeType
<1> DEFINE r == [i \in 0 .. k |-> g[i]]
<1>7. First(r, n, k)
  <2>1. \A i \in 0 .. k : i \in Nat /\ r[i] = g[i]
    OBVIOUS
  <2>2. r \in [0 .. k -> Node]
    BY <1>6, <2>1
  <2>3. r[0] = n
    BY <1>3, <1>5
  <2>4. ASSUME NEW i \in 0 .. k - 1 PROVE r[i + 1] = tree[r[i]].up
    <3>1. i \in 0 .. k /\ i + 1 \in 0 .. k /\ i + 1 # 0 /\ i + 1 - 1 = i /\ i + 1 \in Nat
      BY <1>3
    <3>2. g[i + 1] = tree[g[i]].up
      BY <1>5, <3>1
    <3> QED BY <2>1, <3>1, <3>2
  <2> QED BY <2>2, <2>3, <2>4 DEF First
<1>8. First(s, n, k)
  BY <1>4 DEF First, Climbs
<1>9. r[k] = s[k]
  <2>1. k \in 0 .. k /\ k <= k
    BY <1>3
  <2> HIDE DEF r
  <2> QED BY <1>3, <1>7, <1>8, <2>1, FirstSame
<1>10. g[k] = m
  BY <1>3, <1>4, <1>9 DEF Climbs
<1> QED BY <1>2, <1>10, UnderIs DEF g

-----------------------------------------------------------------------------
(* What changes the tree                                                   *)

Grows(U) == U \in [Node -> Entry] /\ Grown(tree, U) /\ SoundTree(U)

WithAt(x, c, v) == [x EXCEPT !.at = [x.at EXCEPT ![c] = v]]
AsNew(x, k, u, p) == [x EXCEPT !.kind = k, !.up = u, !.text = p]

LEMMA AtLooks ==
  ASSUME NEW x \in Entry, NEW c, NEW v \in Node \cup {None}
  PROVE  /\ WithAt(x, c, v) \in Entry
         /\ WithAt(x, c, v).kind = x.kind /\ WithAt(x, c, v).up = x.up
         /\ \A b \in Name : WithAt(x, c, v).at[b] = IF b = c THEN v ELSE x.at[b]
<1>1. WithAt(x, c, v) \in Entry
  BY EntryParts DEF WithAt
<1>2. x.at \in [Name -> Node \cup {None}]
  BY DEF Entry
<1>3. /\ WithAt(x, c, v).kind = x.kind /\ WithAt(x, c, v).up = x.up
      /\ WithAt(x, c, v).at = [x.at EXCEPT ![c] = v]
  BY DEF WithAt, Entry
<1> QED BY <1>1, <1>2, <1>3

LEMMA NewLooks ==
  ASSUME NEW x \in Entry, NEW k \in Kinds, NEW u \in Node, NEW p \in Seq(Comp)
  PROVE  /\ AsNew(x, k, u, p) \in Entry
         /\ AsNew(x, k, u, p).kind = k /\ AsNew(x, k, u, p).up = u
         /\ AsNew(x, k, u, p).at = x.at
<1>1. AsNew(x, k, u, p) \in Entry
  BY EntryParts DEF AsNew
<1>2. /\ AsNew(x, k, u, p).kind = k /\ AsNew(x, k, u, p).up = u
      /\ AsNew(x, k, u, p).at = x.at
  BY DEF AsNew, Entry
<1> QED BY <1>1, <1>2

LEMMA GrowsBy ==
  ASSUME TreeType, SoundTree(tree), NEW U \in [Node -> Entry], Grown(tree, U),
         \A m \in Node, c \in Name :
           \/ U[m].at[c] \in {tree[m].at[c], None}
           \/ /\ U[U[m].at[c]].kind # "free"
              /\ U[U[m].at[c]].kind = "dir" => U[U[m].at[c]].up = m,
         \A n \in Node : U[n].kind = "dir" /\ tree[n].kind = "free" =>
           U[n].up \in Node /\ tree[U[n].up].kind = "dir"
  PROVE  Grows(U)
<1>1. U[Top].kind = "dir"
  BY KernelAssumption DEF SoundTree, Grown
<1>2. ASSUME NEW m \in Node, NEW c \in Name, U[m].at[c] # None
      PROVE  /\ U[U[m].at[c]].kind # "free"
             /\ U[U[m].at[c]].kind = "dir" => U[U[m].at[c]].up = m
  <2>1. CASE U[m].at[c] = tree[m].at[c]
    <3> DEFINE n == tree[m].at[c]
    <3>1. n \in Node
      <4>1. tree[m].at \in [Name -> Node \cup {None}]
        BY DEF TreeType, Entry
      <4> QED BY <1>2, <2>1, <4>1
    <3>2. tree[n].kind # "free" /\ (tree[n].kind = "dir" => tree[n].up = m)
      BY <1>2, <2>1 DEF SoundTree
    <3>3. U[n].kind = tree[n].kind /\ (tree[n].kind = "dir" => U[n].up = tree[n].up)
      BY <3>1, <3>2 DEF Grown
    <3> QED BY <2>1, <3>2, <3>3
  <2> QED BY <1>2, <2>1
<1>3. ASSUME NEW n \in Node, U[n].kind = "dir"
      PROVE  U[U[n].up].kind = "dir"
  <2>1. CASE tree[n].kind = "free"
    <3>1. U[n].up \in Node /\ tree[U[n].up].kind = "dir"
      BY <1>3, <2>1
    <3> QED BY <3>1 DEF Grown
  <2>2. CASE tree[n].kind # "free"
    <3>1. tree[n].kind = "dir" /\ U[n].up = tree[n].up
      BY <1>3, <2>2 DEF Grown
    <3>2. tree[n].up \in Node /\ tree[tree[n].up].kind = "dir"
      BY <3>1, UpType DEF SoundTree, TreeType
    <3> QED BY <3>1, <3>2 DEF Grown
  <2> QED BY <2>1, <2>2
<1> QED BY <1>1, <1>2, <1>3 DEF Grows, SoundTree

\* Nothing that is looked at changes.
LEMMA LooksSame ==
  ASSUME TreeType, SoundTree(tree), NEW U \in [Node -> Entry],
         \A n \in Node : /\ U[n].kind = tree[n].kind /\ U[n].up = tree[n].up
                         /\ U[n].at = tree[n].at
  PROVE  Grows(U)
<1>1. Grown(tree, U)
  BY DEF Grown
<1> QED BY <1>1, GrowsBy

LEMMA OneLooksSame ==
  ASSUME TreeType, SoundTree(tree), NEW n, NEW x \in Entry,
         n \in Node => x.kind = tree[n].kind /\ x.up = tree[n].up /\ x.at = tree[n].at
  PROVE  Grows([tree EXCEPT ![n] = x])
<1> DEFINE U == [tree EXCEPT ![n] = x]
<1>1. U \in [Node -> Entry] /\ \A i \in Node : U[i] = IF i = n THEN x ELSE tree[i]
  BY DEF TreeType
<1> HIDE DEF U
<1>2. Grows(U)
  BY <1>1, LooksSame
<1> QED BY <1>2 DEF U

\* An entry is set: to nothing, or to a file that may be there.
LEMMA EntryGrows ==
  ASSUME TreeType, SoundTree(tree), NEW d \in Node, NEW c, NEW v \in Node \cup {None},
         v # None => /\ tree[v].kind # "free"
                     /\ tree[v].kind = "dir" => tree[v].up = d
  PROVE  Grows([tree EXCEPT ![d] = [tree[d] EXCEPT !.at = [tree[d].at EXCEPT ![c] = v]]])
<1> DEFINE y == WithAt(tree[d], c, v)
           U == [tree EXCEPT ![d] = y]
<1>1. /\ y \in Entry /\ y.kind = tree[d].kind /\ y.up = tree[d].up
      /\ \A b \in Name : y.at[b] = IF b = c THEN v ELSE tree[d].at[b]
  <2>1. tree[d] \in Entry
    BY DEF TreeType
  <2> QED BY <2>1, AtLooks
<1> HIDE DEF y
<1>2. U \in [Node -> Entry] /\ \A i \in Node : U[i] = IF i = d THEN y ELSE tree[i]
  BY <1>1 DEF TreeType
<1> HIDE DEF U
<1>3. \A i \in Node : U[i].kind = tree[i].kind /\ U[i].up = tree[i].up
  BY <1>1, <1>2
<1>4. Grown(tree, U)
  BY <1>3 DEF Grown
<1>5. ASSUME NEW m \in Node, NEW b \in Name
      PROVE  \/ U[m].at[b] \in {tree[m].at[b], None}
             \/ /\ U[U[m].at[b]].kind # "free"
                /\ U[U[m].at[b]].kind = "dir" => U[U[m].at[b]].up = m
  <2>1. CASE m = d /\ b = c
    <3>1. U[m].at[b] = v
      BY <1>1, <1>2, <2>1
    <3> QED BY <1>3, <2>1, <3>1
  <2>2. CASE ~(m = d /\ b = c)
    <3>1. U[m].at[b] = tree[m].at[b]
      BY <1>1, <1>2, <2>2
    <3> QED BY <3>1
  <2> QED BY <2>1, <2>2
<1>6. Grows(U)
  BY <1>2, <1>3, <1>4, <1>5, GrowsBy
<1> QED BY <1>6 DEF U, y, WithAt

\* A new file, in a directory that exists.
LEMMA MadeGrows ==
  ASSUME TreeType, SoundTree(tree), NEW d \in Node, tree[d].kind = "dir", NEW c,
         NEW k \in {"dir", "reg", "link"}, NEW text \in Seq(Comp), FreeNodes # {}
  PROVE  /\ Grows(Made(d, c, k, text))
         /\ NewNode \in Node /\ Made(d, c, k, text)[NewNode].kind = k
<1> DEFINE m == NewNode
           z == WithAt(tree[d], c, m)
           t1 == [tree EXCEPT ![d] = z]
           y == AsNew(t1[m], k, d, text)
           U == [t1 EXCEPT ![m] = y]
<1>1. Made(d, c, k, text) = U
  BY DEF Made, WithAt, AsNew
<1>2. m \in Node /\ tree[m].kind = "free"
  BY DEF NewNode, FreeNodes
<1>3. m # d
  BY <1>2
<1> HIDE DEF m
<1>4. /\ z \in Entry /\ z.kind = tree[d].kind /\ z.up = tree[d].up
      /\ \A b \in Name : z.at[b] = IF b = c THEN m ELSE tree[d].at[b]
  <2>1. tree[d] \in Entry
    BY DEF TreeType
  <2> QED BY <1>2, <2>1, AtLooks
<1> HIDE DEF z
<1>5. t1 \in [Node -> Entry] /\ \A i \in Node : t1[i] = IF i = d THEN z ELSE tree[i]
  BY <1>4 DEF TreeType
<1> HIDE DEF t1
<1>6. y \in Entry /\ y.kind = k /\ y.up = d /\ y.at = tree[m].at
  <2>1. t1[m] \in Entry /\ t1[m] = tree[m]
    BY <1>2, <1>3, <1>5
  <2>2. k \in Kinds
    BY DEF Kinds
  <2> QED BY <2>1, <2>2, NewLooks
<1> HIDE DEF y
<1>7. /\ U \in [Node -> Entry]
      /\ \A i \in Node : U[i] = CASE i = m -> y [] i = d -> z [] OTHER -> tree[i]
  BY <1>3, <1>5, <1>6
<1> HIDE DEF U
<1>8. /\ \A i \in Node : i # m => U[i].kind = tree[i].kind /\ U[i].up = tree[i].up
      /\ U[m].kind = k /\ U[m].up = d
  BY <1>2, <1>4, <1>6, <1>7
<1>9. Grown(tree, U)
  BY <1>2, <1>8 DEF Grown
<1>10. ASSUME NEW i \in Node, NEW b \in Name
       PROVE  \/ U[i].at[b] \in {tree[i].at[b], None}
              \/ /\ U[U[i].at[b]].kind # "free"
                 /\ U[U[i].at[b]].kind = "dir" => U[U[i].at[b]].up = i
  <2>1. CASE i = d /\ b = c
    <3>1. U[i].at[b] = m
      BY <1>3, <1>4, <1>7, <2>1
    <3> QED BY <1>8, <2>1, <3>1
  <2>2. CASE ~(i = d /\ b = c)
    <3>1. U[i].at[b] = tree[i].at[b]
      BY <1>3, <1>4, <1>6, <1>7, <2>2
    <3> QED BY <3>1
  <2> QED BY <2>1, <2>2
<1>11. ASSUME NEW n \in Node, U[n].kind = "dir", tree[n].kind = "free"
       PROVE  U[n].up \in Node /\ tree[U[n].up].kind = "dir"
  BY <1>8, <1>11
<1>12. Grows(U)
  BY <1>7, <1>9, <1>10, <1>11, GrowsBy
<1> QED BY <1>1, <1>2, <1>8, <1>12 DEF m

\* What a name in a directory that exists leads to exists.
LEMMA LookupThere ==
  ASSUME TreeType, SoundTree(tree), NEW n \in Node, tree[n].kind = "dir", NEW c,
         Lookup(n, c) # None
  PROVE  /\ Lookup(n, c) \in Node /\ tree[Lookup(n, c)].kind # "free"
         /\ c \notin {".", ".."} => c \in Name
         /\ c \in Name /\ tree[Lookup(n, c)].kind = "dir" => tree[Lookup(n, c)].up = n
<1>1. Lookup(n, c) \in Node
  BY LookupType
<1>2. CASE c = "."
  BY <1>1, <1>2, KernelAssumption DEF Lookup
<1>3. CASE c = ".."
  <2>1. Lookup(n, c) = tree[n].up
    <3>1. c # "." /\ c \notin Name
      BY <1>3, KernelAssumption
    <3> QED BY <1>3, <3>1 DEF Lookup
  <2>2. tree[tree[n].up].kind = "dir"
    BY DEF SoundTree
  <2> QED BY <1>1, <1>3, <2>1, <2>2, KernelAssumption
<1>4. CASE c \notin {".", ".."}
  <2>1. c \in Name /\ Lookup(n, c) = tree[n].at[c]
    BY <1>4 DEF Lookup
  <2> QED BY <1>1, <1>4, <2>1 DEF SoundTree
<1> QED BY <1>2, <1>3, <1>4

LEMMA MakeDir ==
  ASSUME FdsType, DescType, NEW f \in Fd, NEW c, MakeErr(f, c) = "ok"
  PROVE  NodeOf(f) \in Node /\ tree[NodeOf(f)].kind = "dir" /\ FreeNodes # {}
<1>1. fds[f] # None /\ FreeNodes # {}
  BY MakeOk
<1>2. IsDir(f)
  BY DEF MakeErr
<1> QED BY <1>1, <1>2, NodeType DEF IsDir

LEMMA OpenGrows ==
  ASSUME FdsType, DescType, TreeType, SoundTree(tree), NEW f \in Fd, NEW c, NEW fl,
         OpenErr(f, c, fl) = "ok"
  PROVE  /\ Grows(OpenTree(f, c, fl))
         /\ OpenNode(f, c) \in Node /\ OpenTree(f, c, fl)[OpenNode(f, c)].kind # "free"
         /\ tree[NodeOf(f)].kind = "dir" /\ NodeOf(f) \in Node
         /\ \/ OpenTree(f, c, fl)[OpenNode(f, c)].kind # "dir"
            \/ OpenNode(f, c) = Lookup(NodeOf(f), c) /\ Lookup(NodeOf(f), c) # None
<1> DEFINE n == Lookup(NodeOf(f), c)
<1>1. IsDir(f) /\ fds[f] # None
  <2>1. ~IsDir(f) => OpenErr(f, c, fl) # "ok"
    BY DEF OpenErr, IsDir
  <2> QED BY <2>1 DEF IsDir
<1>2. NodeOf(f) \in Node /\ tree[NodeOf(f)].kind = "dir"
  BY <1>1, NodeType DEF IsDir
<1>3. CASE n = None
  <2>1. MakeErr(f, c) # "ok" => OpenErr(f, c, fl) # "ok"
    BY <1>3 DEF OpenErr
  <2>2. FreeNodes # {}
    BY <2>1, MakeOk
  <2>3. OpenTree(f, c, fl) = Made(NodeOf(f), c, "reg", <<>>) /\ OpenNode(f, c) = NewNode
    BY <1>3 DEF OpenTree, OpenNode
  <2>4. <<>> \in Seq(Comp)
    OBVIOUS
  <2>5. /\ Grows(Made(NodeOf(f), c, "reg", <<>>)) /\ NewNode \in Node
        /\ Made(NodeOf(f), c, "reg", <<>>)[NewNode].kind = "reg"
    BY <1>2, <2>2, <2>4, MadeGrows
  <2> QED BY <1>2, <2>3, <2>5
<1>4. CASE n # None
  <2>1. OpenNode(f, c) = n /\ n \in Node /\ tree[n].kind # "free"
    BY <1>2, <1>4, LookupThere DEF OpenNode
  <2> HIDE DEF n
  <2>2. Grows(tree)
    BY LooksSame DEF TreeType
  <2> DEFINE x == [tree[n] EXCEPT !.size = 0]
  <2>3. x \in Entry /\ x.kind = tree[n].kind /\ x.up = tree[n].up /\ x.at = tree[n].at
    <3>1. tree[n] \in Entry /\ 0 \in 0 .. MaxSize
      BY <2>1, OpsAssumption DEF TreeType
    <3>2. x \in Entry
      BY <3>1, EntryParts
    <3>3. x.kind = tree[n].kind /\ x.up = tree[n].up /\ x.at = tree[n].at
      BY <3>1 DEF Entry
    <3> QED BY <3>2, <3>3
  <2> HIDE DEF x
  <2>4. Grows([tree EXCEPT ![n] = x])
    BY <2>3, OneLooksSame
  <2>5. OpenTree(f, c, fl) \in {tree, [tree EXCEPT ![n] = x]}
    BY <1>4, <2>1 DEF OpenTree, n, x
  <2>6. /\ Grows(OpenTree(f, c, fl))
        /\ OpenTree(f, c, fl)[n].kind = tree[n].kind
    BY <2>1, <2>2, <2>3, <2>4, <2>5 DEF TreeType
  <2> QED BY <1>2, <1>4, <2>1, <2>6 DEF n
<1> QED BY <1>3, <1>4

LEMMA TimesLooks ==
  ASSUME NEW x \in Entry, NEW times
  PROVE  LET y == decode_times(x, times) IN
           y.kind = x.kind /\ y.up = x.up /\ y.at = x.at
BY DEF decode_times, Entry

LEMMA NameGrows ==
  ASSUME FdsType, DescType, TreeType, SoundTree(tree), NEW op, NEW f \in Fd, NEW c,
         NEW arg, op = "symlink" => arg \in Seq(Comp),
         op = "settimes" => \E D \in SUBSET Stamps : arg \in [D -> Time],
         NameErr(op, f, c) = "ok"
  PROVE  Grows(NameTree(op, f, c, arg))
<1> DEFINE n == Lookup(NodeOf(f), c)
<1>1. CASE op \in {"mkdir", "symlink"}
  <2>1. MakeErr(f, c) = "ok"
    BY <1>1 DEF NameErr
  <2>2. /\ NodeOf(f) \in Node /\ tree[NodeOf(f)].kind = "dir" /\ FreeNodes # {}
        /\ <<>> \in Seq(Comp)
    BY <2>1, MakeDir
  <2>3. CASE op = "mkdir"
    <3>1. Grows(Made(NodeOf(f), c, "dir", <<>>))
      BY <2>2, MadeGrows
    <3> QED BY <2>3, <3>1 DEF NameTree
  <2>4. CASE op = "symlink"
    <3>1. Grows(Made(NodeOf(f), c, "link", arg))
      BY <2>2, <2>4, MadeGrows
    <3> QED BY <2>4, <3>1 DEF NameTree
  <2> QED BY <1>1, <2>3, <2>4
<1>2. CASE op \notin {"mkdir", "symlink"}
  <2>1. fds[f] # None /\ n # None
    BY <1>2 DEF NameErr
  <2>2. NodeOf(f) \in Node
    BY <2>1, NodeType
  <2>3. n \in Node
    BY <2>1, <2>2, LookupType
  <2>4. CASE op \in {"unlink", "rmdir"}
    <3>1. NameTree(op, f, c, arg)
            = [tree EXCEPT ![NodeOf(f)] = [tree[NodeOf(f)] EXCEPT
                 !.at = [tree[NodeOf(f)].at EXCEPT ![c] = None]]]
      BY <2>4 DEF NameTree
    <3>2. Grows([tree EXCEPT ![NodeOf(f)] = [tree[NodeOf(f)] EXCEPT
                   !.at = [tree[NodeOf(f)].at EXCEPT ![c] = None]]])
      BY <2>2, EntryGrows
    <3> QED BY <3>1, <3>2
  <2>5. CASE op = "settimes"
    <3>1. tree[n] \in Entry
      BY <2>3 DEF TreeType
    <3>2. decode_times(tree[n], arg) \in Entry
      BY <2>5, <3>1, TimesType
    <3>3. NameTree(op, f, c, arg) = [tree EXCEPT ![n] = decode_times(tree[n], arg)]
      BY <2>5 DEF NameTree
    <3> DEFINE y == decode_times(tree[n], arg)
    <3>4. y \in Entry /\ y.kind = tree[n].kind /\ y.up = tree[n].up /\ y.at = tree[n].at
      BY <3>1, <3>2, TimesLooks
    <3> HIDE DEF y, n
    <3>5. Grows([tree EXCEPT ![n] = y])
      BY <3>4, OneLooksSame
    <3> QED BY <3>3, <3>5 DEF y
  <2>6. CASE op \notin {"unlink", "rmdir", "settimes"}
    <3>1. NameTree(op, f, c, arg) = tree
      BY <2>6, <1>2 DEF NameTree
    <3> QED BY <3>1, LooksSame DEF TreeType
  <2> QED BY <2>4, <2>5, <2>6
<1> QED BY <1>1, <1>2

LEMMA OutcomeLooks ==
  ASSUME NEW r, r.op \in AccessOps, NEW n, NEW m, NEW x \in Entry
  PROVE  LET y == Outcome(r, n, m, x).entry IN
           y.kind = x.kind /\ y.up = x.up /\ y.at = x.at
<1>1. pread(r, n, m, x).entry = x /\ fstat(r, n, m, x).entry = x
      /\ fsync(r, n, m, x).entry = x
  BY DEF pread, fstat, fsync
<1>2. \A z : LET y == [x EXCEPT !.size = z] IN
        y.kind = x.kind /\ y.up = x.up /\ y.at = x.at
  BY DEF Entry
<1>3. LET y == pwrite(r, n, m, x).entry IN
        y.kind = x.kind /\ y.up = x.up /\ y.at = x.at
  BY <1>2 DEF pwrite
<1>4. LET y == ftruncate(r, n, m, x).entry IN
        y.kind = x.kind /\ y.up = x.up /\ y.at = x.at
  BY <1>2 DEF ftruncate
<1>5. LET y == futimes(r, n, m, x).entry IN
        y.kind = x.kind /\ y.up = x.up /\ y.at = x.at
  BY TimesLooks DEF futimes
<1> QED BY <1>1, <1>3, <1>4, <1>5 DEF Outcome, AccessOps

LEMMA OutcomeGrows ==
  ASSUME TreeType, SoundTree(tree), NEW r \in Request, r.op \in AccessOps,
         NEW n \in Node, NEW m
  PROVE  Grows([tree EXCEPT ![n] = Outcome(r, n, m, tree[n]).entry])
<1>1. tree[n] \in Entry
  BY DEF TreeType
<1>2. Outcome(r, n, m, tree[n]).entry \in Entry
  BY <1>1, OutcomeType
<1> DEFINE y == Outcome(r, n, m, tree[n]).entry
<1>3. y \in Entry /\ y.kind = tree[n].kind /\ y.up = tree[n].up /\ y.at = tree[n].at
  BY <1>1, <1>2, OutcomeLooks
<1> HIDE DEF y
<1>4. Grows([tree EXCEPT ![n] = y])
  BY <1>3, OneLooksSame
<1> QED BY <1>4 DEF y

WithUp(x, u) == [x EXCEPT !.up = u]

LEMMA UpLooks ==
  ASSUME NEW x \in Entry, NEW u \in Node
  PROVE  /\ WithUp(x, u) \in Entry /\ WithUp(x, u).up = u
         /\ WithUp(x, u).kind = x.kind /\ WithUp(x, u).at = x.at
<1>1. WithUp(x, u) \in Entry
  BY EntryParts DEF WithUp
<1>2. /\ WithUp(x, u).up = u
      /\ WithUp(x, u).kind = x.kind /\ WithUp(x, u).at = x.at
  BY DEF WithUp, Entry
<1> QED BY <1>1, <1>2

\* A file gets a second name, or another name; a directory only where it is from.
LEMMA PairGrows ==
  ASSUME FdsType, DescType, TreeType, SoundTree(tree), NEW op \in {"rename", "link"},
         NEW f \in Fd, NEW c, NEW g \in Fd, NEW b, c # "..",
         PairErr(op, f, c, g, b) = "ok", ~PairMoves(op, f, c, g)
  PROVE  Grows(PairTree(op, f, c, g, b))
<1> DEFINE n == Lookup(NodeOf(f), c)
           x == NodeOf(f)
           y == NodeOf(g)
           put == [tree EXCEPT ![y].at[b] = n]
<1>1. /\ fds[f] # None /\ fds[g] # None /\ IsDir(f) /\ IsDir(g) /\ n # None
      /\ op = "rename" => c # "."
      /\ op = "link" => tree[n].kind # "dir"
  BY DEF PairErr
<1>2. x \in Node /\ y \in Node /\ tree[x].kind = "dir" /\ tree[y].kind = "dir"
  BY <1>1, NodeType DEF IsDir
<1>3. /\ n \in Node /\ tree[n].kind # "free"
      /\ c \notin {".", ".."} => c \in Name
      /\ c \in Name /\ tree[n].kind = "dir" => tree[n].up = x
  BY <1>1, <1>2, LookupThere
<1>4. CASE op = "link"
  <2>0. Lookup(y, b) = None /\ n # None
    BY <1>1, <1>4 DEF PairErr
  <2>1. PairTree(op, f, c, g, b) = put
    BY <1>4, <2>0 DEF PairTree
  <2> HIDE DEF n, x, y
  <2>2. Grows([tree EXCEPT ![y] = [tree[y] EXCEPT !.at = [tree[y].at EXCEPT ![b] = n]]])
    BY <1>1, <1>2, <1>3, <1>4, EntryGrows
  <2>3. put = [tree EXCEPT ![y] = [tree[y] EXCEPT !.at = [tree[y].at EXCEPT ![b] = n]]]
    OBVIOUS
  <2> QED BY <2>1, <2>2, <2>3
<1>5. CASE op = "rename" /\ Lookup(y, b) = n
  <2>1. PairTree(op, f, c, g, b) = tree
    BY <1>5 DEF PairTree
  <2> QED BY <2>1, LooksSame DEF TreeType
<1>6. CASE op = "rename" /\ Lookup(y, b) # n
  <2> DEFINE v == IF tree[n].kind = "dir" THEN y ELSE tree[n].up
             U == [put EXCEPT ![x].at[c] = None, ![n].up = v]
  <2>1. PairTree(op, f, c, g, b) = U
    BY <1>6 DEF PairTree
  <2>2. c \in Name
    BY <1>1, <1>3, <1>6
  <2>3. tree[n].kind = "dir" => x = y
    BY <1>6 DEF PairMoves
  <2>4. v = tree[n].up /\ v \in Node
    BY <1>2, <1>3, <2>2, <2>3, UpType DEF TreeType
  <2>5. n # None /\ None \in Node \cup {None} /\ n \in Node \cup {None}
    BY <1>1, <1>3
  <2> HIDE DEF n, x, y, v
  <2> DEFINE z1 == WithAt(tree[y], b, n)
             z2 == WithAt(put[x], c, None)
             t2 == [put EXCEPT ![x] = z2]
             z3 == WithUp(t2[n], v)
             t3 == [t2 EXCEPT ![n] = z3]
  <2>6. put = [tree EXCEPT ![y] = z1] /\ U = t3
    BY DEF WithAt, WithUp
  <2>7. /\ z1 \in Entry /\ z1.kind = tree[y].kind /\ z1.up = tree[y].up
        /\ \A a \in Name : z1.at[a] = IF a = b THEN n ELSE tree[y].at[a]
    <3>1. tree[y] \in Entry
      BY <1>2 DEF TreeType
    <3> QED BY <2>5, <3>1, AtLooks
  <2> HIDE DEF z1, U
  <2>8. /\ put \in [Node -> Entry]
        /\ \A i \in Node : put[i] = IF i = y THEN z1 ELSE tree[i]
    BY <1>2, <2>6, <2>7 DEF TreeType
  <2> HIDE DEF put
  <2>9. /\ z2 \in Entry /\ z2.kind = put[x].kind /\ z2.up = put[x].up
        /\ \A a \in Name : z2.at[a] = IF a = c THEN None ELSE put[x].at[a]
    <3>1. put[x] \in Entry
      BY <1>2, <2>8
    <3> QED BY <2>5, <3>1, AtLooks
  <2> HIDE DEF z2
  <2>10. /\ t2 \in [Node -> Entry]
         /\ \A i \in Node : t2[i] = IF i = x THEN z2 ELSE put[i]
    BY <1>2, <2>8, <2>9
  <2> HIDE DEF t2
  <2>11. /\ z3 \in Entry /\ z3.up = v /\ z3.kind = t2[n].kind /\ z3.at = t2[n].at
    <3>1. t2[n] \in Entry
      BY <1>3, <2>10
    <3> QED BY <2>4, <3>1, UpLooks
  <2> HIDE DEF z3
  <2>12. /\ t3 \in [Node -> Entry]
         /\ \A i \in Node : t3[i] = IF i = n THEN z3 ELSE t2[i]
    BY <1>3, <2>10, <2>11
  <2> HIDE DEF t3
  <2>13. \A i \in Node : /\ t2[i].kind = tree[i].kind /\ t2[i].up = tree[i].up
    BY <2>7, <2>8, <2>9, <2>10
  <2>14. \A i \in Node : /\ t3[i].kind = tree[i].kind /\ t3[i].up = tree[i].up
                         /\ t3[i].at = t2[i].at
    BY <2>4, <2>11, <2>12, <2>13
  <2>15. ASSUME NEW m \in Node, NEW a \in Name
         PROVE  t3[m].at[a] \in {tree[m].at[a], None} \/ (m = y /\ t3[m].at[a] = n)
    <3>1. put[m].at[a] = tree[m].at[a] \/ (m = y /\ put[m].at[a] = n)
      BY <2>7, <2>8
    <3>2. t2[m].at[a] \in {put[m].at[a], None}
      BY <2>9, <2>10
    <3> QED BY <2>14, <3>1, <3>2
  <2>16. ASSUME NEW m \in Node, NEW a \in Name
         PROVE  \/ t3[m].at[a] \in {tree[m].at[a], None}
                \/ /\ t3[t3[m].at[a]].kind # "free"
                   /\ t3[t3[m].at[a]].kind = "dir" => t3[t3[m].at[a]].up = m
    <3>1. CASE m = y /\ t3[m].at[a] = n
      <4>1. t3[n].kind # "free" /\ (t3[n].kind = "dir" => t3[n].up = y)
        BY <1>3, <2>2, <2>3, <2>14
      <4> QED BY <3>1, <4>1
    <3> QED BY <2>15, <3>1
  <2>17. Grown(tree, t3)
    BY <2>14 DEF Grown
  <2>18. \A i \in Node : t3[i].kind = "dir" /\ tree[i].kind = "free" =>
                           t3[i].up \in Node /\ tree[t3[i].up].kind = "dir"
    BY <2>14
  <2>19. Grows(t3)
    BY <2>12, <2>16, <2>17, <2>18, GrowsBy
  <2> QED BY <2>1, <2>6, <2>19
<1> QED BY <1>4, <1>5, <1>6

-----------------------------------------------------------------------------
(* Where a call is below the directories it was given                      *)

\* How many a call that follows no last link has.
LEMMA HasBase ==
  ASSUME NEW c \in CallRec, NEW r, Phase(c, r), c.pc # "idle", r.op \notin Follow
  PROVE  /\ Len(c.got) <= Len(c.base) /\ Len(c.base) \in Nat /\ Len(c.got) \in Nat
         /\ c.walk # <<>> \/ c.pc = "enter" => Len(c.got) + 1 <= Len(c.base)
         /\ c.walk # <<>> \/ c.pc = "enter" => c.hop = 0
         /\ c.pc \notin {"enter", "walk", "link", "act"} => c.walk = <<>> /\ c.got = <<>>
<1>1. Len(c.base) \in Nat /\ Len(c.got) \in Nat /\ (c.got = <<>> => Len(c.got) = 0)
  BY DEF CallRec
<1>2. c.pc \in Pcs
  BY DEF CallRec
<1>3. CASE c.pc \in {"enter", "walk", "link"}
  <2>1. Based(c, r) /\ Found(c, r)
    BY <1>3 DEF Phase
  <2>2. c.hop = 0 /\ (Len(c.got) = 0 \/ (r.op \in PairOps /\ Len(c.got) = 1))
    BY <1>1, <2>1 DEF Found
  <2>3. Len(c.base) = IF r.op \in PairOps THEN 2 ELSE 1
    BY <2>1 DEF Based
  <2>4. Len(c.got) + 1 <= Len(c.base)
    <3>1. CASE Len(c.got) = 0
      <4>1. Len(c.base) >= 1
        BY <2>3
      <4> QED BY <3>1, <4>1
    <3>2. CASE r.op \in PairOps /\ Len(c.got) = 1
      <4>1. Len(c.base) = 2
        BY <2>3, <3>2
      <4> QED BY <3>2, <4>1
    <3> QED BY <2>2, <3>1, <3>2
  <2>5. Len(c.got) <= Len(c.base)
    BY <1>1, <2>4
  <2> QED BY <1>1, <1>3, <2>2, <2>4, <2>5
<1>4. CASE c.pc = "act"
  <2>1. Based(c, r) /\ c.walk = <<>> /\ Len(c.got) = IF r.op \in PairOps THEN 2 ELSE 1
    BY <1>4 DEF Phase
  <2>2. Len(c.got) <= Len(c.base)
    BY <1>1, <2>1 DEF Based
  <2> QED BY <1>1, <1>4, <2>1, <2>2
<1>5. CASE c.pc \in {"root", "lock", "held", "made", "rewind", "fill"}
  <2>1. c.walk = <<>> /\ c.got = <<>>
    BY <1>5 DEF Phase, Bare
  <2> QED BY <1>1, <1>5, <2>1
<1>6. c.pc # "final"
  BY DEF Phase
<1> QED BY <1>2, <1>3, <1>4, <1>5, <1>6 DEF Pcs

\* The numbers that the places name are the call's own.
LEMMA PlacesMine ==
  ASSUME NEW c \in CallRec, Shape(c)
  PROVE  /\ \A i \in 1 .. Len(c.base) : c.base[i] \in Mine(c)
         /\ \A i \in 1 .. Len(c.walk) : c.walk[i].cur \in Mine(c)
         /\ \A i \in 1 .. Len(c.got) : c.got[i].fd \in Mine(c)
<1>1. \A i \in 1 .. Len(c.base) : c.base[i] \in Bases(c.base)
  BY DEF Bases
<1>2. ASSUME NEW i \in 1 .. Len(c.walk) PROVE c.walk[i].cur \in Mine(c)
  <2>1. CASE c.walk[i].cur \in Bases(c.base)
    BY <2>1 DEF Mine
  <2>2. CASE \E j \in 1 .. i : c.walk[j].own /\ c.walk[j].cur = c.walk[i].cur
    <3>1. PICK j \in 1 .. i : c.walk[j].own /\ c.walk[j].cur = c.walk[i].cur
      BY <2>2
    <3>2. j \in 1 .. Len(c.walk)
      <4>1. Len(c.walk) \in Nat
        BY DEF CallRec
      <4> QED BY <4>1
    <3>3. c.walk[i].cur \in Walked(c.walk)
      BY <3>1, <3>2 DEF Walked
    <3> QED BY <3>3 DEF Mine
  <2> QED BY <2>1, <2>2 DEF Shape
<1>3. ASSUME NEW i \in 1 .. Len(c.got) PROVE c.got[i].fd \in Mine(c)
  <2>1. CASE c.got[i].own
    <3>1. c.got[i].fd \in Gotten(c.got)
      BY <2>1 DEF Gotten
    <3> QED BY <3>1 DEF Mine
  <2> QED BY <2>1 DEF Shape, Mine
<1> QED BY <1>1, <1>2, <1>3 DEF Mine

\* A place stays below another when the tree only grows and their files stay.
LEMMA SitsKept ==
  ASSUME NEW T \in [Node -> Entry], NEW U \in [Node -> Entry], Grown(T, U),
         \A n \in Node : T[n].kind = "dir" => T[T[n].up].kind = "dir",
         NEW P, NEW Q, NEW g, NEW f, NEW k \in Nat, Sits(T, P, g, f, k),
         P[f] \in Node, T[P[f]].kind # "free", Q[f] = P[f], Q[g] = P[g]
  PROVE  Sits(U, Q, g, f, k)
<1> SUFFICES ASSUME U[P[f]].kind = "dir" PROVE Above(U, P[g], P[f], k)
  BY DEF Sits
<1>1. T[P[f]].kind = "dir"
  BY DEF Grown
<1>2. Above(T, P[g], P[f], k)
  BY <1>1 DEF Sits
<1> QED BY <1>1, <1>2, AboveKept

LEMMA NearKept ==
  ASSUME NEW T \in [Node -> Entry], NEW U \in [Node -> Entry], Grown(T, U),
         \A n \in Node : T[n].kind = "dir" => T[T[n].up].kind = "dir",
         NEW P, NEW Q, NEW c \in CallRec, Shape(c), Near(T, P, c),
         \A f \in Mine(c) : P[f] \in Node /\ T[P[f]].kind # "free" /\ Q[f] = P[f],
         Len(c.got) <= Len(c.base),
         c.walk # <<>> => Len(c.got) + 1 <= Len(c.base)
  PROVE  Near(U, Q, c)
<1>1. Len(c.got) \in Nat /\ Len(c.base) \in Nat /\ Len(c.walk) \in Nat
  BY DEF CallRec
<1>2. ASSUME NEW i \in 1 .. Len(c.walk)
      PROVE  Sits(U, Q, c.base[Len(c.got) + 1], c.walk[i].cur, c.walk[i].d)
  <2>1. c.walk # <<>> /\ Len(c.got) + 1 \in 1 .. Len(c.base)
    <3>1. c.walk # <<>>
      BY <1>1 DEF CallRec
    <3> QED BY <1>1, <3>1
  <2>2. c.walk[i] \in Frame /\ c.walk[i].d \in Nat
    <3>1. c.walk[i] \in Frame
      BY DEF CallRec
    <3> QED BY <3>1 DEF Frame
  <2>3. c.base[Len(c.got) + 1] \in Mine(c) /\ c.walk[i].cur \in Mine(c)
    BY <2>1, PlacesMine
  <2>4. Sits(T, P, c.base[Len(c.got) + 1], c.walk[i].cur, c.walk[i].d)
    BY DEF Near
  <2> QED BY <2>2, <2>3, <2>4, SitsKept
<1>3. ASSUME NEW i \in 1 .. Len(c.got)
      PROVE  \E k \in Nat : Sits(U, Q, c.base[i], c.got[i].fd, k)
  <2>1. i \in 1 .. Len(c.base)
    BY <1>1
  <2>2. c.base[i] \in Mine(c) /\ c.got[i].fd \in Mine(c)
    BY <2>1, PlacesMine
  <2>3. PICK k \in Nat : Sits(T, P, c.base[i], c.got[i].fd, k)
    BY DEF Near
  <2>4. Sits(U, Q, c.base[i], c.got[i].fd, k)
    BY <2>2, <2>3, SitsKept
  <2> QED BY <2>4
<1> QED BY <1>2, <1>3 DEF Near

\* A call without a walk and without a parent is nowhere.
LEMMA Nowhere ==
  ASSUME NEW T, NEW P, NEW c, c.walk = <<>>, c.got = <<>>
  PROVE  Shape(c) /\ Near(T, P, c)
<1>1. Len(c.walk) = 0 /\ Len(c.got) = 0
  OBVIOUS
<1> QED BY <1>1 DEF Shape, Near

-----------------------------------------------------------------------------
(* What a step does to the files behind the numbers                        *)

\* The tree stays, and no number is for a new description.
NoNew == \A f \in Fd : fds'[f] = None \/ \E g \in Fd : fds'[f] = fds[g]
Still == tree' = tree /\ NoNew

LEMMA ShutNoNew ==
  ASSUME FdsType, NEW S, fds' = Shut(fds, S) PROVE NoNew
BY DEF NoNew, Shut, FdsType

LEMMA SameNoNew ==
  ASSUME fds' = fds PROVE NoNew
BY DEF NoNew

LEMMA OpenedNoNew ==
  ASSUME FdsType, NEW x \in Fd, FreeFds # {}, fds[x] # None, fds' = Opened(fds, fds[x])
  PROVE  NoNew
<1>1. fds[x] \in Fd
  BY DEF FdsType
<1> DEFINE d == fds[x]
<1>2. d \in Fd /\ d = fds[x]
  BY <1>1
<1> HIDE DEF d
<1>3. fds' = Opened(fds, d)
  BY <1>2
<1>4. /\ fds'[NewFd] = d
      /\ \A f \in Fd : f # NewFd => fds'[f] = fds[f]
  BY <1>2, <1>3, OpenedFds
<1> QED BY <1>2, <1>4 DEF NoNew

LEMMA FailStill ==
  ASSUME FdsType, NEW t, NEW e, Fail(t, e) PROVE Still
<1>1. tree' = tree /\ fds' = Shut(fds, Owned(t))
  BY DEF Fail
<1> QED BY <1>1, ShutNoNew DEF Still

LEMMA DuplicatedNoNew ==
  ASSUME FdsType, NEW t, DupErr(t) = "ok", call[t].num \in Fd, fds' = Duplicated(t)
  PROVE  NoNew
<1>1. fds[call[t].num] # None /\ FreeFds # {}
  BY DupOk, KernelAssumption
<1> QED BY <1>1, OpenedNoNew DEF Duplicated

LEMMA HandleStill ==
  ASSUME Inv, NEW t \in Thread,
         Begin(t) \/ Lock(t) \/ NoBinary(t) \/ Close(t) \/ DupHandle(t) \/ DirDup(t)
           \/ Make(t) \/ NoMemory(t)
  PROVE  Still
<1>0. FdsType
  BY TypesHave DEF Inv
<1>1. ASSUME At(t, "held") PROVE call[t].num \in Fd
  <2>1. ~At(t, "idle") /\ call[t].pc = "held"
    BY <1>1 DEF At
  <2> QED BY <2>1, ReqType, TypesHave DEF Inv, Phase
<1>2. CASE Begin(t) \/ NoBinary(t) \/ Make(t)
  BY <1>2, SameNoNew DEF Begin, NoBinary, Make, kvars, Still
<1>3. CASE Lock(t)
  <2>1. (\E e : Fail(t, e)) \/ UNCHANGED kvars
    BY <1>3 DEF Lock
  <2> QED BY <1>0, <2>1, FailStill, SameNoNew DEF kvars, Still
<1>4. CASE Close(t)
  BY <1>0, <1>4, ShutNoNew DEF Close, Still
<1>5. CASE NoMemory(t)
  BY <1>0, <1>5, FailStill DEF NoMemory
<1>6. CASE DupHandle(t) \/ DirDup(t)
  <2>1. /\ At(t, "held")
        /\ \/ \E e : Fail(t, e)
           \/ DupErr(t) = "ok" /\ fds' = Duplicated(t) /\ tree' = tree
    BY <1>6 DEF DupHandle, DirDup
  <2> QED BY <1>0, <1>1, <2>1, FailStill, DuplicatedNoNew DEF Still
<1> QED BY <1>2, <1>3, <1>4, <1>5, <1>6

LEMMA WalkStill ==
  ASSUME Inv, NEW t \in Thread,
         Enter(t) \/ StepLink(t) \/ StepBack(t) \/ OpenDone(t) \/ ParentDone(t)
           \/ Resolve(t)
  PROVE  Still
<1>0. FdsType
  BY TypesHave DEF Inv
<1>1. CASE Enter(t)
  <2>1. (\E e : Fail(t, e)) \/ UNCHANGED kvars
    BY <1>1 DEF Enter
  <2> QED BY <1>0, <2>1, FailStill, SameNoNew DEF kvars, Still
<1>2. CASE StepLink(t)
  <2> DEFINE text == LinkText(Frm(t).cur, Component(t))
  <2>1. (\E e : Fail(t, e)) \/ UNCHANGED kvars
    <3>1. CASE text = <<>>
      BY <1>2, <3>1 DEF StepLink
    <3>2. CASE text # <<>> /\ PathErr(text) # "ok"
      BY <1>2, <3>2 DEF StepLink
    <3>3. CASE text # <<>> /\ PathErr(text) = "ok"
      BY <1>2, <3>3 DEF StepLink
    <3> QED BY <3>1, <3>2, <3>3
  <2> QED BY <1>0, <2>1, FailStill, SameNoNew DEF kvars, Still
<1>3. CASE StepBack(t) \/ OpenDone(t)
  <2>1. tree' = tree /\ \E S : fds' = Shut(fds, S)
    BY <1>3 DEF StepBack, OpenDone
  <2> QED BY <1>0, <2>1, ShutNoNew DEF Still
<1>4. CASE ParentDone(t)
  <2>1. (\E e : Fail(t, e)) \/ (tree' = tree /\ \E S : fds' = Shut(fds, S))
    BY <1>4 DEF ParentDone
  <2> QED BY <1>0, <2>1, FailStill, ShutNoNew DEF Still
<1>5. CASE Resolve(t)
  <2> DEFINE g == call[t].got[1]
             text == LinkText(g.fd, g.name)
  <2>1. (\E e : Fail(t, e)) \/ UNCHANGED kvars
    <3>1. CASE call[t].hop = MaxLinks /\ ~(call[t].hop < MaxLinks /\ text = <<>>)
      BY <1>5, <3>1 DEF Resolve
    <3>2. CASE call[t].hop < MaxLinks /\ text = <<>> /\ call[t].hop # MaxLinks
      BY <1>5, <3>2 DEF Resolve
    <3>3. CASE call[t].hop # MaxLinks /\ ~(call[t].hop < MaxLinks /\ text = <<>>)
      BY <1>5, <3>3 DEF Resolve
    <3>4. CASE call[t].hop < MaxLinks /\ call[t].hop = MaxLinks
      BY <3>4, HandleAssumption
    <3> QED BY <3>1, <3>2, <3>3, <3>4
  <2> QED BY <1>0, <2>1, FailStill, SameNoNew DEF kvars, Still
<1> QED BY <1>1, <1>2, <1>3, <1>4, <1>5

LEMMA FinishStill ==
  ASSUME FdsType, NEW t, NEW out, NEW used, NEW er, Finish(t, out, used, er), tree' = tree
  PROVE  Still
<1>1. fds' = fds \/ fds' = Shut(fds, Owned(t))
  BY DEF Finish
<1> QED BY <1>1, SameNoNew, ShutNoNew DEF Still

LEMMA ListStill ==
  ASSUME Inv, NEW t \in Thread, ListStep(t)
  PROVE  Still
<1>0. FdsType
  BY TypesHave DEF Inv
<1>1. ASSUME At(t, "held") PROVE call[t].num \in Fd
  <2>1. ~At(t, "idle") /\ call[t].pc = "held"
    BY <1>1 DEF At
  <2> QED BY <2>1, ReqType, TypesHave DEF Inv, Phase
<1>2. CASE OpenStream(t)
  <2> DEFINE h == handle[Req(t).h]
             new == h.dirp = None
             e == CASE ~h.dir -> "enotdir"
                    [] fds[call[t].num] = None -> "ebadf"
                    [] new /\ FreeFds = {} -> "emfile"
                    [] OTHER -> "ok"
  <2>1. /\ At(t, "held") /\ tree' = tree
        /\ \/ fds' = fds
           \/ e = "ok" /\ fds' = IF new THEN Opened(fds, fds[call[t].num]) ELSE fds
    BY <1>2 DEF OpenStream
  <2>2. CASE e = "ok" /\ fds' = IF new THEN Opened(fds, fds[call[t].num]) ELSE fds
    <3>1. fds[call[t].num] # None /\ (new => FreeFds # {})
      BY <2>2
    <3> QED BY <1>0, <1>1, <2>1, <2>2, <3>1, OpenedNoNew, SameNoNew DEF Still
  <2> QED BY <2>1, <2>2, SameNoNew DEF Still
<1>3. CASE NamesDup(t)
  <2>1. /\ At(t, "held")
        /\ \/ \E e : Fail(t, e)
           \/ DupErr(t) = "ok" /\ fds' = Duplicated(t) /\ tree' = tree
    BY <1>3 DEF NamesDup
  <2> QED BY <1>0, <1>1, <2>1, FailStill, DuplicatedNoNew DEF Still
<1>4. CASE Rewind(t)
  <2>1. Fail(t, "enomem") \/ (fds' = fds /\ tree' = tree)
    BY <1>4 DEF Rewind
  <2> QED BY <1>0, <2>1, FailStill, SameNoNew DEF Still
<1>5. CASE Getdents(t) \/ TakeName(t)
  BY <1>5, SameNoNew DEF Getdents, TakeName, kvars, Still
<1>6. CASE EndOfDir(t) \/ ReadFails(t)
  <2>1. tree' = tree /\ \E out, used, er : Finish(t, out, used, er)
    BY <1>6 DEF EndOfDir, ReadFails
  <2> QED BY <1>0, <2>1, FinishStill
<1>7. CASE PackEntry(t)
  <2>1. tree' = tree /\ (fds' = fds \/ \E out, used, er : Finish(t, out, used, er))
    <3> DEFINE used == call[t].used
               esz == EntrySize(Order[Min(call[t].buf)])
    <3>0. tree' = tree
      BY <1>7 DEF PackEntry
    <3>1. CASE used + esz <= Req(t).len /\ ~(used + esz > Req(t).len)
      BY <1>7, <3>1 DEF PackEntry
    <3>2. CASE used + esz > Req(t).len /\ used < Req(t).len /\ ~(used + esz <= Req(t).len)
      BY <1>7, <3>2 DEF PackEntry
    <3>3. CASE ~(used + esz <= Req(t).len) /\ ~(used + esz > Req(t).len /\ used < Req(t).len)
      BY <1>7, <3>3 DEF PackEntry
    <3>4. ~(used + esz <= Req(t).len /\ used + esz > Req(t).len)
      <4>1. used \in Nat /\ esz \in Nat /\ Req(t).len \in Nat
        <5>1. At(t, "fill") /\ call[t].buf # {}
          BY <1>7 DEF PackEntry
        <5>2. call[t] \in CallRec /\ Req(t) \in Request
          BY <5>1, FillHas
        <5>3. call[t].buf \in SUBSET DOMAIN Order /\ used \in Nat
          BY <5>2 DEF CallRec
        <5> QED BY <5>1, <5>2, <5>3, BufHas, RequestAssumption
      <4> HIDE DEF used, esz
      <4> QED BY <4>1
    <3> QED BY <3>0, <3>1, <3>2, <3>3, <3>4
  <2> QED BY <1>0, <2>1, FinishStill, SameNoNew DEF Still
<1> QED BY <1>2, <1>3, <1>4, <1>5, <1>6, <1>7 DEF ListStep

-----------------------------------------------------------------------------
(* The tree grows                                                          *)

LEMMA BehindKept ==
  ASSUME FdsType, DescType, TreeType, Behind, DescsStay, Grown(tree, tree'),
         \A f \in Fd :
           \/ fds'[f] = None
           \/ \E g \in Fd : fds'[f] = fds[g]
           \/ tree'[descs'[fds'[f]].node].kind # "free"
  PROVE  Behind'
<1> SUFFICES ASSUME NEW f \in Fd, fds'[f] # None
             PROVE  tree'[descs'[fds'[f]].node].kind # "free"
  BY DEF Behind, NodeOf
<1>1. CASE \E g \in Fd : fds'[f] = fds[g]
  <2>1. PICK g \in Fd : fds'[f] = fds[g]
    BY <1>1
  <2>2. fds[g] # None
    BY <2>1
  <2>3. tree[NodeOf(g)].kind # "free" /\ NodeOf(g) \in Node
    BY <2>2, NodeType DEF Behind
  <2>4. descs'[fds[g]].node = NodeOf(g)
    BY <2>2 DEF DescsStay, NodeOf
  <2>5. tree'[NodeOf(g)].kind # "free"
    BY <2>3 DEF Grown
  <2> QED BY <2>1, <2>4, <2>5
<1> QED BY <1>1

\* The tree grows and no number is for a file that does not exist.
Growing == Grows(tree') /\ Behind'

LEMMA StillGrows ==
  ASSUME FdsType, DescType, TreeType, SoundTree(tree), Behind, DescsStay, Still
  PROVE  Growing
<1>1. Grows(tree')
  <2>1. tree \in [Node -> Entry] /\ tree' = tree
    BY DEF TreeType, Still
  <2>2. Grows(tree)
    BY <2>1, LooksSame
  <2> QED BY <2>1, <2>2
<1>2. Grown(tree, tree')
  BY <1>1 DEF Grows
<1>3. Behind'
  BY <1>2, BehindKept DEF Still, NoNew
<1> QED BY <1>1, <1>3 DEF Growing

\* The same descriptions in a tree that has grown.
LEMMA TreeGrows ==
  ASSUME FdsType, DescType, TreeType, Behind, DescsStay, NoNew, Grows(tree')
  PROVE  Growing
<1>1. Grown(tree, tree')
  BY DEF Grows
<1>2. Behind'
  BY <1>1, BehindKept DEF NoNew
<1> QED BY <1>2 DEF Growing

LEMMA AccessGrows ==
  ASSUME Full, SoundTree(tree), Behind, NEW t \in Thread, Access(t)
  PROVE  Growing
<1> DEFINE r == Req(t)
           f == call[t].num
           n == NodeOf(f)
           m == descs[fds[f]].mode
<1>0. Inv /\ FdsType /\ DescType /\ TreeType
  BY TypesHave DEF Full, Inv
<1>1. /\ r \in Request /\ r.op \in AccessOps /\ f \in Fd
      /\ tree' = IF fds[f] = None THEN tree ELSE [tree EXCEPT ![n] = Outcome(r, n, m, tree[n]).entry]
      /\ UNCHANGED <<fds, descs>>
  <2>1. ~At(t, "idle") /\ call[t].pc = "held"
    BY DEF Access, At
  <2> QED BY <1>0, <2>1, ReqType, TypesHave DEF Inv, Phase, Access
<1>2. Grows(tree')
  <2>1. CASE fds[f] = None
    <3>1. tree' = tree /\ tree \in [Node -> Entry]
      BY <1>0, <1>1, <2>1 DEF TreeType
    <3>2. Grows(tree)
      BY <1>0, <3>1, LooksSame
    <3> QED BY <3>1, <3>2
  <2>2. CASE fds[f] # None
    <3>1. n \in Node
      BY <1>0, <1>1, <2>2, NodeType
    <3>2. Grows([tree EXCEPT ![n] = Outcome(r, n, m, tree[n]).entry])
      BY <1>0, <1>1, <3>1, OutcomeGrows
    <3> QED BY <1>1, <2>2, <3>2
  <2> QED BY <2>1, <2>2
<1> QED BY <1>0, <1>1, <1>2, TreeGrows, SameNoNew, DescsSame

LEMMA OpenRootGrows ==
  ASSUME Full, SoundTree(tree), Behind, NEW t \in Thread, OpenRoot(t)
  PROVE  Growing
<1>0. Inv /\ FdsType /\ DescType /\ TreeType
  BY TypesHave DEF Full, Inv
<1>1. CASE FreeFds = {}
  <2>1. Still /\ DescsStay
    <3>1. Fail(t, "emfile")
      BY <1>1 DEF OpenRoot
    <3>2. UNCHANGED descs
      BY <3>1 DEF Fail
    <3> QED BY <1>0, <3>1, <3>2, FailStill, DescsSame
  <2> QED BY <1>0, <2>1, StillGrows
<1>2. CASE FreeFds # {}
  <2>1. /\ fds' = Opened(fds, NewDesc) /\ descs' = Description(Top, {"rd"})
        /\ tree' = tree
    BY <1>2 DEF OpenRoot
  <2>2. NewDesc \in Fd /\ DescsStay /\ descs'[NewDesc].node = Top
    BY <1>0, <1>2, <2>1, Describes, KernelAssumption
  <2> DEFINE d == NewDesc
  <2>3. d \in Fd /\ fds' = Opened(fds, d) /\ descs'[d].node = Top
    BY <2>1, <2>2
  <2> HIDE DEF d
  <2>4. fds'[NewFd] = d /\ \A f \in Fd : f # NewFd => fds'[f] = fds[f]
    BY <1>0, <1>2, <2>3, OpenedFds
  <2>5. tree'[Top].kind # "free"
    BY <2>1 DEF SoundTree
  <2>6. Grows(tree')
    <3>1. Grows(tree)
      BY <1>0, LooksSame DEF TreeType
    <3> QED BY <2>1, <3>1
  <2>7. Grown(tree, tree')
    BY <2>6 DEF Grows
  <2>8. \A f \in Fd : \/ \E g \in Fd : fds'[f] = fds[g]
                      \/ tree'[descs'[fds'[f]].node].kind # "free"
    BY <2>3, <2>4, <2>5
  <2>9. Behind'
    BY <1>0, <2>2, <2>7, <2>8, BehindKept
  <2> QED BY <2>6, <2>9 DEF Growing
<1> QED BY <1>1, <1>2

LEMMA AdvanceGrows ==
  ASSUME Full, SoundTree(tree), Behind, NEW t \in Thread, At(t, "walk"), NEW m, NEW fl,
         NEW dd, OpenErr(Frm(t).cur, m, fl) = "ok", Advance(t, m, fl, dd)
  PROVE  Growing
<1> DEFINE c == Frm(t).cur
           S == IF Frm(t).own THEN {Frm(t).cur} ELSE {}
           d == NewDesc
           n == OpenNode(c, m)
<1>0. Inv /\ FdsType /\ DescType /\ TreeType
  BY TypesHave DEF Full, Inv
<1>1. /\ fds' = Shut(Opened(fds, d), S) /\ descs' = Description(n, fl)
      /\ tree' = OpenTree(c, m, fl)
  BY DEF Advance
<1>2. c \in Fd /\ S \subseteq {f \in Fd : fds[f] # None}
  <2>1. /\ Frm(t) \in Frame /\ (Frm(t).own => c \in Walked(call[t].walk))
    BY <1>0, WalkHas
  <2>2. c \in Fd
    BY <2>1 DEF Frame
  <2>3. Walked(call[t].walk) \subseteq Mine(call[t])
    BY DEF Mine
  <2> QED BY <1>0, <2>1, <2>2, <2>3, MineOpen
<1>3. FreeFds # {} /\ n \in Node
  BY <1>0, <1>2, OpenOk
<1>4. Grows(OpenTree(c, m, fl)) /\ OpenTree(c, m, fl)[n].kind # "free"
  BY <1>0, <1>2, OpenGrows
<1> HIDE DEF c, n
<1>5. d \in Fd /\ DescsStay /\ descs'[d].node = n
  BY <1>0, <1>1, <1>3, Describes
<1> HIDE DEF d, S
<1>6. fds'[NewFd] = d /\ \A f \in Fd : f # NewFd => fds'[f] = None \/ fds'[f] = fds[f]
  BY <1>0, <1>1, <1>2, <1>3, <1>5, OpensFds
<1>7. Grows(tree') /\ Grown(tree, tree') /\ tree'[n].kind # "free"
  BY <1>1, <1>4 DEF Grows
<1>8. \A f \in Fd : \/ fds'[f] = None
                    \/ \E g \in Fd : fds'[f] = fds[g]
                    \/ tree'[descs'[fds'[f]].node].kind # "free"
  BY <1>5, <1>6, <1>7
<1>9. Behind'
  BY <1>0, <1>5, <1>7, <1>8, BehindKept
<1> QED BY <1>7, <1>9 DEF Growing

LEMMA FailGrows ==
  ASSUME Full, SoundTree(tree), Behind, NEW t, NEW e, Fail(t, e)
  PROVE  Growing
<1>1. Inv /\ FdsType /\ DescType /\ TreeType
  BY TypesHave DEF Full, Inv
<1>2. Still /\ DescsStay
  BY <1>1, FailStill, DescsSame DEF Fail
<1> QED BY <1>1, <1>2, StillGrows

\* What a step on one component is.
LEMMA StepIs ==
  ASSUME NEW t, StepDot(t) \/ StepUp(t) \/ StepName(t)
  PROVE  /\ Stepping(t) /\ At(t, "walk")
         /\ \/ \E e : Fail(t, e)
            \/ /\ UNCHANGED kvars /\ StepName(t)
               /\ \E e : call' = [call EXCEPT ![t].pc = "link", ![t].err = e]
            \/ \E m, fl, dd :
                 /\ OpenErr(Frm(t).cur, m, fl) = "ok" /\ Advance(t, m, fl, dd)
                 /\ m = Component(t)
                 /\ \/ m = "." /\ dd = Frm(t).d
                    \/ m = ".." /\ Frm(t).d # 0 /\ dd = Frm(t).d - 1
                    \/ m \in Name /\ dd = Frm(t).d + 1
<1>1. Stepping(t) /\ At(t, "walk")
  BY DEF StepDot, StepUp, StepName, Stepping
<1>2. ASSUME NEW m, NEW dd, Reopen(t, m, dd)
      PROVE  \/ \E e : Fail(t, e)
             \/ OpenErr(Frm(t).cur, m, DirFlags) = "ok" /\ Advance(t, m, DirFlags, dd)
  BY <1>2 DEF Reopen
<1>3. CASE StepDot(t)
  <2>1. Reopen(t, ".", Frm(t).d) /\ Component(t) = "."
    BY <1>3 DEF StepDot
  <2>2. \/ \E e : Fail(t, e)
        \/ OpenErr(Frm(t).cur, ".", DirFlags) = "ok" /\ Advance(t, ".", DirFlags, Frm(t).d)
    BY <1>2, <2>1
  <2> QED BY <1>1, <2>1, <2>2
<1>4. CASE StepUp(t)
  <2>1. CASE AtTop(t)
    BY <1>1, <1>4, <2>1 DEF StepUp
  <2>2. CASE ~AtTop(t)
    <3>1. Reopen(t, "..", Frm(t).d - 1) /\ Component(t) = ".." /\ Frm(t).d # 0
      BY <1>4, <2>2 DEF StepUp, AtTop
    <3>2. \/ \E e : Fail(t, e)
          \/ /\ OpenErr(Frm(t).cur, "..", DirFlags) = "ok"
             /\ Advance(t, "..", DirFlags, Frm(t).d - 1)
      BY <1>2, <3>1
    <3> QED BY <1>1, <3>1, <3>2
  <2> QED BY <2>1, <2>2
<1>5. CASE StepName(t)
  <2> DEFINE m == Component(t)
             er == OpenErr(Frm(t).cur, m, Flags(t))
  <2>0. m \in Name
    BY <1>5 DEF StepName
  <2>1. CASE er = "ok"
    <3>1. Advance(t, m, Flags(t), Frm(t).d + 1)
      BY <1>5, <2>1 DEF StepName
    <3> QED BY <1>1, <2>0, <2>1, <3>1
  <2>2. CASE er \notin {"ok", "eloop", "enotdir", "enxio"}
    BY <1>1, <1>5, <2>2 DEF StepName
  <2>3. CASE er \in {"eloop", "enotdir", "enxio"} /\ ~MayFollow(t)
    BY <1>1, <1>5, <2>3 DEF StepName
  <2>4. CASE er \in {"eloop", "enotdir", "enxio"} /\ MayFollow(t)
    <3>1. /\ call' = [call EXCEPT ![t].pc = "link", ![t].err = er]
          /\ UNCHANGED kvars
      BY <1>5, <2>4 DEF StepName
    <3> QED BY <1>1, <1>5, <3>1
  <2> QED BY <2>1, <2>2, <2>3, <2>4
<1> QED BY <1>3, <1>4, <1>5

LEMMA StepsGrow ==
  ASSUME Full, SoundTree(tree), Behind, NEW t \in Thread,
         StepDot(t) \/ StepUp(t) \/ StepName(t)
  PROVE  Growing
<1>0. Inv /\ FdsType /\ DescType /\ TreeType
  BY TypesHave DEF Full, Inv
<1>1. CASE \E e : Fail(t, e)
  BY <1>1, FailGrows
<1>2. CASE UNCHANGED kvars
  <2>1. Still /\ DescsStay
    BY <1>2, SameNoNew, DescsSame DEF kvars, Still
  <2> QED BY <1>0, <2>1, StillGrows
<1>3. CASE \E m, fl, dd : OpenErr(Frm(t).cur, m, fl) = "ok" /\ Advance(t, m, fl, dd)
  BY <1>3, StepIs, AdvanceGrows
<1> QED BY <1>1, <1>2, <1>3, StepIs

LEMMA PathActGrows ==
  ASSUME Full, SoundTree(tree), Behind, NEW t \in Thread, PathAct(t)
  PROVE  Growing
<1> DEFINE r == Req(t)
           op == Plain(r.op)
           g == call[t].got[1]
           er == CASE op = "unknown" \/ (op = "settimes" /\ r.bad) -> "badarg"
                   [] OTHER -> NameErr(op, g.fd, g.name)
<1>0. Inv /\ FdsType /\ DescType /\ TreeType
  BY TypesHave DEF Full, Inv
<1>1. /\ r \in Request /\ r.op \in PathOps /\ g.fd \in Fd
  <2>1. /\ ~At(t, "idle") /\ call[t].pc = "act" /\ r \in Request /\ r.op \in PathOps
        /\ call[t] \in CallRec /\ Phase(call[t], r)
    BY <1>0, ReqType, TypesHave DEF Inv, PathAct, At
  <2>2. call[t].got \in Seq(Parents) /\ Len(call[t].got) \in {1, 2}
    BY <2>1 DEF CallRec, Phase
  <2> QED BY <2>1, <2>2, GotFirst
<1>2. CASE er # "ok"
  BY <1>2, FailGrows DEF PathAct
<1>3. CASE er = "ok"
  <2>1. /\ tree' = NameTree(op, g.fd, g.name, r.arg)
        /\ fds' = Shut(fds, Owned(t)) /\ UNCHANGED descs
    BY <1>3 DEF PathAct
  <2>2. NameErr(op, g.fd, g.name) = "ok"
    BY <1>3
  <2>3. /\ op = "symlink" => r.arg \in Seq(Comp)
        /\ op = "settimes" => \E D \in SUBSET Stamps : r.arg \in [D -> Time]
    <3>1. /\ op = "symlink" => r.op = "symlink"
          /\ op = "settimes" => r.op \in {"settimes", "settimes_follow"}
      BY DEF Plain
    <3> QED BY <1>1, <3>1, RequestAssumption
  <2> DEFINE arg == r.arg
             name == g.name
             f == g.fd
  <2>4. /\ f \in Fd /\ NameErr(op, f, name) = "ok" /\ tree' = NameTree(op, f, name, arg)
        /\ op = "symlink" => arg \in Seq(Comp)
        /\ op = "settimes" => \E D \in SUBSET Stamps : arg \in [D -> Time]
    BY <1>1, <2>1, <2>2, <2>3
  <2> HIDE DEF op, f, name, arg
  <2>5. Grows(tree')
    BY <1>0, <2>4, NameGrows
  <2> QED BY <1>0, <2>1, <2>5, TreeGrows, ShutNoNew, DescsSame
<1> QED BY <1>2, <1>3

LEMMA PairActGrows ==
  ASSUME Full, SoundTree(tree), Behind, NEW t \in Thread, PairAct(t), ~moved',
         Shape(call[t])
  PROVE  Growing
<1> DEFINE r == Req(t)
           g == call[t].got[1]
           b == call[t].got[2]
           er == IF r.op = "unknown2" THEN "badarg"
                 ELSE PairErr(r.op, g.fd, g.name, b.fd, b.name)
<1>0. Inv /\ FdsType /\ DescType /\ TreeType
  BY TypesHave DEF Full, Inv
<1>1. g.fd \in Fd /\ b.fd \in Fd /\ g.name # ".." /\ r.op \in PairOps
  <2>1. /\ ~At(t, "idle") /\ call[t].pc = "act" /\ r.op \in PairOps
        /\ call[t] \in CallRec /\ Phase(call[t], r)
    BY <1>0, ReqType, TypesHave DEF Inv, PairAct, At
  <2>2. call[t].got \in Seq(Parents) /\ Len(call[t].got) = 2
    BY <2>1 DEF CallRec, Phase
  <2>3. g.name # ".."
    <3>1. 1 \in 1 .. Len(call[t].got)
      BY <2>2
    <3> QED BY <3>1 DEF Shape
  <2> QED BY <2>1, <2>2, <2>3, GotFirst
<1>2. CASE er # "ok"
  BY <1>2, FailGrows DEF PairAct
<1>3. CASE er = "ok"
  <2>1. /\ tree' = PairTree(r.op, g.fd, g.name, b.fd, b.name)
        /\ moved' = (moved \/ PairMoves(r.op, g.fd, g.name, b.fd))
        /\ fds' = Shut(fds, Owned(t)) /\ UNCHANGED descs
    BY <1>3 DEF PairAct
  <2>2. /\ r.op \in {"rename", "link"} /\ ~PairMoves(r.op, g.fd, g.name, b.fd)
        /\ PairErr(r.op, g.fd, g.name, b.fd, b.name) = "ok"
    BY <1>1, <1>3, <2>1 DEF PairOps
  <2>3. Grows(tree')
    BY <1>0, <1>1, <2>1, <2>2, PairGrows
  <2> QED BY <1>0, <2>1, <2>3, TreeGrows, ShutNoNew, DescsSame
<1> QED BY <1>2, <1>3

\* The file behind an open description stays, whatever the step.
LEMMA StepDescs ==
  ASSUME Full, NEW t \in Thread, Step(t)
  PROVE  DescsStay
<1>1. Inv
  BY DEF Full
<1>2. CASE OtherStep(t)
  BY <1>1, <1>2, PlainWent DEF Went
<1>3. CASE Make(t) \/ Close(t)
  BY <1>1, <1>3, MadeKept, CloseKept
<1>4. CASE OpenStream(t)
  BY <1>1, <1>4, StreamKept
<1> QED BY <1>2, <1>3, <1>4 DEF OtherStep

LEMMA StepGrows ==
  ASSUME Full, SoundTree(tree), Behind, NEW t \in Thread, Step(t), ~moved',
         Shape(call[t])
  PROVE  Growing
<1>0. Inv /\ FdsType /\ DescType /\ TreeType /\ DescsStay
  BY TypesHave, StepDescs DEF Full, Inv
<1>1. CASE Still
  BY <1>0, <1>1, StillGrows
<1>2. CASE Access(t)
  BY <1>2, AccessGrows
<1>3. CASE OpenRoot(t)
  BY <1>3, OpenRootGrows
<1>4. CASE StepDot(t) \/ StepUp(t) \/ StepName(t)
  BY <1>4, StepsGrow
<1>5. CASE PathAct(t) \/ PairAct(t)
  BY <1>5, PathActGrows, PairActGrows
<1>6. HandleStep(t) => Still \/ Access(t) \/ OpenRoot(t)
  BY <1>0, HandleStill DEF HandleStep
<1>7. WalkStep(t) => Still \/ (StepDot(t) \/ StepUp(t) \/ StepName(t))
                       \/ (PathAct(t) \/ PairAct(t))
  BY <1>0, WalkStill DEF WalkStep
<1> QED BY <1>0, <1>1, <1>2, <1>3, <1>4, <1>5, <1>6, <1>7, ListStill DEF Step

-----------------------------------------------------------------------------
(* Calls stay below the directories they were given                        *)

LEMMA HasFiles ==
  ASSUME Full, Behind, NEW u \in Thread, NEW f \in Mine(call[u])
  PROVE  /\ f \in Fd /\ fds[f] # None /\ Nodes[f] = NodeOf(f)
         /\ Nodes[f] \in Node /\ tree[Nodes[f]].kind # "free"
<1>1. Inv /\ FdsType /\ DescType
  BY TypesHave DEF Full, Inv
<1>2. f \in Fd /\ fds[f] # None
  BY <1>1, MineOpen
<1>3. NodeOf(f) \in Node /\ tree[NodeOf(f)].kind # "free"
  BY <1>1, <1>2, NodeType DEF Behind
<1> QED BY <1>2, <1>3 DEF Nodes

LEMMA FilesStay ==
  ASSUME DescsStay, NEW f \in Fd, fds[f] # None, fds'[f] = fds[f]
  PROVE  Nodes'[f] = Nodes[f]
<1>1. descs'[fds[f]].node = descs[fds[f]].node
  BY DEF DescsStay
<1> QED BY <1>1 DEF Nodes, NodeOf

\* The request of a call that is running.
LEMMA Runs ==
  ASSUME Full, NoLinks, NEW t \in Thread, ~At(t, "idle")
  PROVE  /\ call[t] \in CallRec /\ Phase(call[t], Req(t)) /\ call[t].pc # "idle"
         /\ Req(t) \in Request /\ Req(t).op \notin Follow
         /\ call[t].pc # "final"
<1>1. /\ call[t] \in CallRec /\ Phase(call[t], Req(t)) /\ Req(t) \in Request
      /\ todo[t] # <<>> /\ todo[t] \in Seq(Request)
  BY ReqType, TypesHave DEF Full, Inv, CallsOK
<1>2. 1 \in DOMAIN todo[t] /\ Req(t) = todo[t][1]
  BY <1>1 DEF Req
<1>3. Req(t).op \notin Follow
  BY <1>2 DEF NoLinks
<1> QED BY <1>1, <1>3 DEF Phase, At

LEMMA BaseOf ==
  ASSUME Full, NoLinks, NEW u \in Thread
  PROVE  LET c == call[u] IN
         /\ c \in CallRec
         /\ Len(c.got) <= Len(c.base) /\ Len(c.base) \in Nat /\ Len(c.got) \in Nat
         /\ c.walk # <<>> => Len(c.got) + 1 <= Len(c.base)
         /\ c.pc \notin {"enter", "walk", "link", "act"} => c.walk = <<>> /\ c.got = <<>>
<1>1. CASE At(u, "idle")
  <2>1. call[u] = Idle /\ call[u] \in CallRec
    BY <1>1, TypesHave DEF At, Full, Inv, CallsOK, CallOK, StageOK
  <2>2. Idle.got = <<>> /\ Idle.walk = <<>> /\ Idle.base = <<>>
    BY DEF Idle
  <2> QED BY <2>1, <2>2
<1>2. CASE ~At(u, "idle")
  BY <1>2, Runs, HasBase
<1> QED BY <1>1, <1>2

\* A call that does nothing stays where it is.
LEMMA OthersTidy ==
  ASSUME Full, NoLinks, SoundTree(tree), Behind, DescsStay, Grows(tree'),
         NEW u \in Thread, Tidy(u), call'[u] = call[u],
         \A f \in Mine(call[u]) : fds'[f] = fds[f]
  PROVE  Shape(call'[u]) /\ Near(tree', Nodes', call'[u])
<1> DEFINE c == call[u]
           P == Nodes
           Q == Nodes'
           U == tree'
           T == tree
<1>1. /\ c \in CallRec /\ Len(c.got) <= Len(c.base)
      /\ c.walk # <<>> => Len(c.got) + 1 <= Len(c.base)
  BY BaseOf
<1>2. \A f \in Mine(c) : P[f] \in Node /\ T[P[f]].kind # "free" /\ Q[f] = P[f]
  BY HasFiles, FilesStay
<1>3. /\ T \in [Node -> Entry] /\ U \in [Node -> Entry] /\ Grown(T, U)
      /\ \A n \in Node : T[n].kind = "dir" => T[T[n].up].kind = "dir"
  BY TypesHave DEF Full, Inv, Grows, SoundTree, TreeType
<1>4. Shape(c) /\ Near(T, P, c)
  BY DEF Tidy
<1>5. call'[u] = c
  OBVIOUS
<1> HIDE DEF c, P, Q, U, T
<1>6. Near(U, Q, c)
  BY <1>1, <1>2, <1>3, <1>4, NearKept
<1> QED BY <1>4, <1>5, <1>6 DEF U, Q

\* A place of a call that takes a step stays, when its numbers do.
LEMMA SitsOn ==
  ASSUME Full, SoundTree(tree), Behind, DescsStay, Grows(tree'),
         NEW t \in Thread, NEW f \in Mine(call[t]), NEW g \in Mine(call[t]),
         fds'[f] = fds[f], fds'[g] = fds[g], NEW k \in Nat, Sits(tree, Nodes, g, f, k)
  PROVE  Sits(tree', Nodes', g, f, k)
<1> DEFINE P == Nodes
           Q == Nodes'
           U == tree'
           T == tree
<1>1. /\ P[f] \in Node /\ T[P[f]].kind # "free" /\ Q[f] = P[f] /\ Q[g] = P[g]
  BY HasFiles, FilesStay
<1>2. /\ T \in [Node -> Entry] /\ U \in [Node -> Entry] /\ Grown(T, U)
      /\ \A n \in Node : T[n].kind = "dir" => T[T[n].up].kind = "dir"
  BY TypesHave DEF Full, Inv, Grows, SoundTree, TreeType
<1>3. Sits(T, P, g, f, k)
  OBVIOUS
<1> HIDE DEF P, Q, U, T
<1>4. Sits(U, Q, g, f, k)
  BY <1>1, <1>2, <1>3, SitsKept
<1> QED BY <1>4 DEF U, Q

\* The calls on handles and the reads of directories walk no path.
LEMMA NoPlace ==
  ASSUME Full, NoLinks, NEW t \in Thread, HandleStep(t) \/ ListStep(t)
  PROVE  call'[t].walk = <<>> /\ call'[t].got = <<>>
<1> DEFINE e == call[t]
<1>0. Inv /\ CallsOK /\ call \in [Thread -> CallRec] /\ e \in CallRec
  BY TypesHave DEF Full, Inv, CallsOK
<1>1. e.pc \in {"idle", "lock", "held", "root", "made", "rewind", "fill"}
  BY DEF HandleStep, ListStep, At, Begin, Lock, NoBinary, Access, Close, DupHandle, DirDup,
         OpenRoot, Make, NoMemory, OpenStream, NamesDup, Rewind, Getdents, EndOfDir,
         ReadFails, TakeName, PackEntry
<1>2. e.walk = <<>> /\ e.got = <<>>
  BY <1>1, BaseOf
<1>3. Idle.walk = <<>> /\ Idle.got = <<>>
  BY DEF Idle
<1>4. ASSUME NEW ans, Return(t, ans)
      PROVE  call'[t].walk = <<>> /\ call'[t].got = <<>>
  BY <1>0, <1>3, <1>4 DEF Return
<1>5. ASSUME NEW er, Fail(t, er)
      PROVE  call'[t].walk = <<>> /\ call'[t].got = <<>>
  BY <1>4, <1>5 DEF Fail
<1>6. ASSUME NEW out, NEW used, NEW er, Finish(t, out, used, er)
      PROVE  call'[t].walk = <<>> /\ call'[t].got = <<>>
  BY <1>4, <1>6 DEF Finish
<1>7. ASSUME NEW c, call' = [call EXCEPT ![t] = c], c.walk = e.walk, c.got = e.got
      PROVE  call'[t].walk = <<>> /\ call'[t].got = <<>>
  BY <1>0, <1>2, <1>7
<1>8. CASE Begin(t)
  <2>1. ASSUME NEW p, Goto(t, p) PROVE call'[t].walk = <<>> /\ call'[t].got = <<>>
    BY <1>0, <1>2, <2>1 DEF Goto, CallRec
  <2> QED BY <1>4, <1>8, <2>1 DEF Begin
<1>9. CASE Lock(t)
  <2>1. CASE call' = [call EXCEPT ![t].pc = "held", ![t].num = handle[Target(t)].fd]
    BY <1>0, <1>2, <2>1 DEF CallRec
  <2> QED BY <1>5, <1>9, <2>1 DEF Lock
<1>10. CASE NoBinary(t) \/ Access(t) \/ Close(t) \/ Make(t) \/ NoMemory(t)
  BY <1>4, <1>5, <1>10 DEF NoBinary, Access, Close, Make, NoMemory
<1>11. CASE DupHandle(t)
  <2>1. CASE call' = [call EXCEPT ![t].pc = "made", ![t].fd = NewFd]
    BY <1>0, <1>2, <2>1 DEF CallRec
  <2> QED BY <1>5, <1>11, <2>1 DEF DupHandle
<1>12. CASE DirDup(t)
  <2>1. ASSUME NEW p, NEW b, NEW q,
               call' = [call EXCEPT ![t].pc = p, ![t].base = b, ![t].path = q]
        PROVE  call'[t].walk = <<>> /\ call'[t].got = <<>>
    BY <1>0, <1>2, <2>1 DEF CallRec
  <2> DEFINE p == IF Req(t).op \in PairOps /\ e.base = <<>> THEN "lock" ELSE "enter"
  <2>2. \/ \E er : Fail(t, er)
        \/ call' = [call EXCEPT ![t].pc = p, ![t].base = Append(e.base, NewFd),
                                ![t].path = Req(t).path]
    BY <1>12, Zenon DEF DirDup
  <2> QED BY <1>5, <2>1, <2>2, Zenon
<1>13. CASE OpenRoot(t)
  <2>1. CASE FreeFds = {}
    BY <1>5, <1>13, <2>1 DEF OpenRoot
  <2>2. CASE FreeFds # {}
    <3> DEFINE dir == Req(t).op = "open_dir"
               pc == IF dir THEN "made" ELSE "enter"
               fd == IF dir THEN NewFd ELSE e.fd
               base == IF dir THEN e.base ELSE <<NewFd>>
               c == [e EXCEPT !.pc = pc, !.fd = fd, !.base = base, !.path = Req(t).path]
    <3>1. call' = [call EXCEPT ![t] = c]
      BY <1>13, <2>2 DEF OpenRoot
    <3>2. c.walk = e.walk /\ c.got = e.got
      BY <1>0 DEF CallRec
    <3> HIDE DEF c
    <3> QED BY <1>7, <3>1, <3>2
  <2> QED BY <2>1, <2>2
<1>14. CASE OpenStream(t) \/ Rewind(t)
  <2>1. ASSUME NEW p, Goto(t, p) PROVE call'[t].walk = <<>> /\ call'[t].got = <<>>
    BY <1>0, <1>2, <2>1 DEF Goto, CallRec
  <2>2. (\E p : Goto(t, p)) \/ (\E ans : Return(t, ans)) \/ (\E er : Fail(t, er))
    BY <1>14 DEF OpenStream, Rewind
  <2> QED BY <1>4, <1>5, <2>1, <2>2
<1>15. CASE NamesDup(t)
  <2>1. CASE call' = [call EXCEPT ![t].pc = "rewind", ![t].base = <<NewFd>>]
    BY <1>0, <1>2, <2>1 DEF CallRec
  <2> QED BY <1>5, <1>15, <2>1 DEF NamesDup
<1>16. CASE Getdents(t) \/ TakeName(t)
  <2>1. ASSUME NEW b, call' = [call EXCEPT ![t].buf = b]
        PROVE  call'[t].walk = <<>> /\ call'[t].got = <<>>
    BY <1>0, <1>2, <2>1 DEF CallRec
  <2>2. ASSUME NEW b, NEW o, call' = [call EXCEPT ![t].buf = b, ![t].out = o]
        PROVE  call'[t].walk = <<>> /\ call'[t].got = <<>>
    BY <1>0, <1>2, <2>2 DEF CallRec
  <2> QED BY <1>16, <2>1, <2>2 DEF Getdents, TakeName
<1>17. CASE EndOfDir(t) \/ ReadFails(t)
  BY <1>6, <1>17 DEF EndOfDir, ReadFails
<1>18. CASE PackEntry(t)
  <2> DEFINE used == call[t].used
             esz == EntrySize(Order[Min(call[t].buf)])
             len == Req(t).len
             out == Append(call[t].out, Packed(Min(call[t].buf), esz))
             b == call[t].buf \ {Min(call[t].buf)}
  <2>1. ASSUME NEW x, NEW y, NEW z,
               call' = [call EXCEPT ![t].buf = x, ![t].used = y, ![t].out = z]
        PROVE  call'[t].walk = <<>> /\ call'[t].got = <<>>
    BY <1>0, <1>2, <2>1 DEF CallRec
  <2>2. used \in Nat /\ esz \in Nat /\ len \in Nat
    <3>1. At(t, "fill") /\ call[t].buf # {}
      BY <1>18 DEF PackEntry
    <3>2. call[t] \in CallRec /\ Req(t) \in Request
      BY <1>0, <3>1, FillHas
    <3>3. call[t].buf \in SUBSET DOMAIN Order /\ used \in Nat
      BY <3>2 DEF CallRec
    <3> QED BY <3>1, <3>2, <3>3, BufHas, RequestAssumption
  <2>3. CASE used + esz <= len
    <3>1. ~(used + esz > len)
      <4> HIDE DEF used, esz, len
      <4> QED BY <2>2, <2>3
    <3>2. call' = [call EXCEPT ![t].buf = b, ![t].used = used + esz, ![t].out = out]
      BY <1>18, <2>3, <3>1 DEF PackEntry
    <3> QED BY <2>1, <3>2
  <2>4. CASE ~(used + esz <= len)
    <3>1. \E x, y, z : Finish(t, x, y, z)
      <4>1. CASE used + esz > len /\ used < len
        BY <1>18, <2>4, <4>1 DEF PackEntry
      <4>2. CASE ~(used + esz > len /\ used < len)
        BY <1>18, <2>4, <4>2 DEF PackEntry
      <4> QED BY <4>1, <4>2
    <3> QED BY <1>6, <3>1
  <2> QED BY <2>3, <2>4
<1> QED BY <1>8, <1>9, <1>10, <1>11, <1>12, <1>13, <1>14, <1>15, <1>16, <1>17, <1>18
    DEF HandleStep, ListStep

\* What the step leaves of the call.
After0(t) == Shape(call'[t]) /\ Near(tree', Nodes', call'[t])

\* What a step of a call starts from and gives.
Going(t) == /\ Full /\ NoLinks /\ Hold /\ t \in Thread /\ ~At(t, "idle")
            /\ DescsStay /\ Growing

LEMMA GoingHas ==
  ASSUME NEW t, Going(t)
  PROVE  LET e == call[t]
             r == Req(t) IN
         /\ Inv /\ FdsType /\ DescType /\ TreeType /\ CallsOK /\ t \in Thread
         /\ e \in CallRec /\ Phase(e, r) /\ Apart(e) /\ r \in Request /\ r.op \notin Follow
         /\ Shape(e) /\ Near(tree, Nodes, e)
         /\ SoundTree(tree) /\ Behind /\ Grows(tree') /\ tree' \in [Node -> Entry]
         /\ Grown(tree, tree')
         /\ e.walk # <<>> \/ e.pc = "enter" =>
              Len(e.got) + 1 \in 1 .. Len(e.base) /\ e.hop = 0
         /\ \A i \in 1 .. Len(e.got) : i \in 1 .. Len(e.base)
<1>1. /\ Inv /\ FdsType /\ DescType /\ TreeType /\ CallsOK /\ t \in Thread
      /\ Full /\ NoLinks /\ ~At(t, "idle")
  BY TypesHave DEF Going, Full, Inv
<1>2. /\ call[t] \in CallRec /\ Phase(call[t], Req(t)) /\ call[t].pc # "idle"
      /\ Req(t) \in Request /\ Req(t).op \notin Follow /\ Apart(call[t])
  BY <1>1, Runs, ReqType
<1>3. /\ Len(call[t].got) <= Len(call[t].base) /\ Len(call[t].base) \in Nat
      /\ Len(call[t].got) \in Nat
      /\ call[t].walk # <<>> \/ call[t].pc = "enter" => Len(call[t].got) + 1 <= Len(call[t].base)
      /\ call[t].walk # <<>> \/ call[t].pc = "enter" => call[t].hop = 0
  BY <1>2, HasBase
<1>4. /\ Shape(call[t]) /\ Near(tree, Nodes, call[t])
      /\ SoundTree(tree) /\ Behind /\ Grows(tree')
  BY <1>1 DEF Going, Hold, Tidy, Growing
<1>5. call[t].walk # <<>> \/ call[t].pc = "enter" =>
        Len(call[t].got) + 1 \in 1 .. Len(call[t].base)
  BY <1>3
<1>6. \A i \in 1 .. Len(call[t].got) : i \in 1 .. Len(call[t].base)
  BY <1>3
<1> QED BY <1>1, <1>2, <1>3, <1>4, <1>5, <1>6 DEF Grows

\* The parents that a call has found stay where they are.
LEMMA GotOn ==
  ASSUME NEW t, Going(t), NEW c, c.base = call[t].base, c.got = call[t].got,
         \A f \in Bases(call[t].base) \cup Gotten(call[t].got) : fds'[f] = fds[f]
  PROVE  \A i \in 1 .. Len(c.got) :
           /\ c.got[i].own \/ c.got[i].fd \in Bases(c.base)
           /\ c.got[i].name # ".."
           /\ \E k \in Nat : Sits(tree', Nodes', c.base[i], c.got[i].fd, k)
<1> DEFINE e == call[t]
<1>1. /\ e \in CallRec /\ Shape(e) /\ Near(tree, Nodes, e) /\ t \in Thread
      /\ SoundTree(tree) /\ Behind /\ Grows(tree')
      /\ \A i \in 1 .. Len(e.got) : i \in 1 .. Len(e.base)
  BY GoingHas
<1>2. ASSUME NEW i \in 1 .. Len(e.got)
      PROVE  /\ e.got[i].own \/ e.got[i].fd \in Bases(e.base)
             /\ e.got[i].name # ".."
             /\ \E k \in Nat : Sits(tree', Nodes', e.base[i], e.got[i].fd, k)
  <2>1. (e.got[i].own \/ e.got[i].fd \in Bases(e.base)) /\ e.got[i].name # ".."
    BY <1>1 DEF Shape
  <2>2. PICK k \in Nat : Sits(tree, Nodes, e.base[i], e.got[i].fd, k)
    BY <1>1 DEF Near
  <2>3. e.base[i] \in Bases(e.base) /\ e.base[i] \in Mine(e) /\ e.got[i].fd \in Mine(e)
    BY <1>1, PlacesMine DEF Bases
  <2>4. e.got[i].fd \in Bases(e.base) \cup Gotten(e.got)
    BY <2>1 DEF Gotten
  <2>5. Sits(tree', Nodes', e.base[i], e.got[i].fd, k)
    BY <1>1, <2>2, <2>3, <2>4, SitsOn DEF Going
  <2> QED BY <2>1, <2>5
<1> QED BY <1>2

\* So does a frame of its walk.
LEMMA FrameOn ==
  ASSUME NEW t, Going(t), NEW i \in 1 .. Len(call[t].walk),
         \A f \in Bases(call[t].base) \cup {call[t].walk[i].cur} : fds'[f] = fds[f]
  PROVE  LET e == call[t] IN
         Sits(tree', Nodes', e.base[Len(e.got) + 1], e.walk[i].cur, e.walk[i].d)
<1> DEFINE e == call[t]
<1>1. /\ e \in CallRec /\ Shape(e) /\ Near(tree, Nodes, e) /\ t \in Thread
      /\ SoundTree(tree) /\ Behind /\ Grows(tree')
  BY GoingHas
<1>2. e.walk # <<>> /\ e.walk[i] \in Frame /\ e.walk[i].d \in Nat
  <2>1. e.walk \in Seq(Frame)
    BY <1>1 DEF CallRec
  <2>2. e.walk[i] \in Frame /\ e.walk # <<>>
    BY <2>1
  <2> QED BY <2>2 DEF Frame
<1>3. Len(e.got) + 1 \in 1 .. Len(e.base)
  BY <1>2, GoingHas
<1>4. /\ e.base[Len(e.got) + 1] \in Bases(e.base)
      /\ e.base[Len(e.got) + 1] \in Mine(e) /\ e.walk[i].cur \in Mine(e)
  BY <1>1, <1>3, PlacesMine DEF Bases
<1>5. Sits(tree, Nodes, e.base[Len(e.got) + 1], e.walk[i].cur, e.walk[i].d)
  BY <1>1 DEF Near
<1> QED BY <1>1, <1>2, <1>4, <1>5, SitsOn DEF Going

\* A number that one frame owns is in no place before it.
LEMMA OnlyThere ==
  ASSUME NEW e \in CallRec, Apart(e), Shape(e), NEW n \in 1 .. Len(e.walk), e.walk[n].own
  PROVE  /\ \A f \in Bases(e.base) \cup Gotten(e.got) : f # e.walk[n].cur
         /\ \A i \in 1 .. n - 1 : i \in 1 .. Len(e.walk) /\ e.walk[i].cur # e.walk[n].cur
         /\ \A j \in 1 .. Len(e.walk) : j # n /\ e.walk[j].own => e.walk[j].cur # e.walk[n].cur
<1>0. Len(e.walk) \in Nat
  BY DEF CallRec
<1>1. e.walk[n].cur \in Walked(e.walk)
  BY DEF Walked
<1>2. \A f \in Bases(e.base) \cup Gotten(e.got) : f # e.walk[n].cur
  BY <1>1 DEF Apart
<1>3. \A j \in 1 .. Len(e.walk) : j # n /\ e.walk[j].own => e.walk[j].cur # e.walk[n].cur
  BY DEF Apart, WalkApart
<1>4. ASSUME NEW i \in 1 .. n - 1
      PROVE  i \in 1 .. Len(e.walk) /\ e.walk[i].cur # e.walk[n].cur
  <2>1. i \in 1 .. Len(e.walk)
    BY <1>0
  <2>2. CASE \E j \in 1 .. i : e.walk[j].own /\ e.walk[j].cur = e.walk[i].cur
    <3>1. PICK j \in 1 .. i : e.walk[j].own /\ e.walk[j].cur = e.walk[i].cur
      BY <2>2
    <3>2. j \in 1 .. Len(e.walk) /\ j # n
      BY <1>0, <2>1
    <3> QED BY <1>3, <2>1, <3>1, <3>2
  <2> QED BY <1>2, <2>1, <2>2 DEF Shape
<1> QED BY <1>2, <1>3, <1>4

\* A walk starts at the directory the call was given.
LEMMA EnterAfter ==
  ASSUME NEW t, Going(t), Enter(t)
  PROVE  After0(t)
<1> DEFINE e == call[t]
           r == Req(t)
           b == e.base[Len(e.got) + 1]
           x == [cur |-> From(t), own |-> FALSE, d |-> 0, rest |-> e.path, fl |-> r.fl,
                 fol |-> r.fol, bud |-> MaxLinks, par |-> r.op # "open_at"]
           c == [e EXCEPT !.pc = "walk", !.walk = <<x>>]
<1>0. /\ Inv /\ e \in CallRec /\ t \in Thread /\ call \in [Thread -> CallRec]
      /\ e.pc = "enter" /\ SoundTree(tree) /\ Behind /\ Grows(tree') /\ Full /\ Shape(e)
  BY GoingHas DEF Enter, At, CallsOK, Going
<1>1. Len(e.got) + 1 \in 1 .. Len(e.base) /\ e.hop = 0
  BY <1>0, GoingHas
<1>2. CASE \E er : Fail(t, er)
  <2>1. call'[t] = Idle
    BY <1>0, <1>2 DEF Fail, Return
  <2> QED BY <2>1, Nowhere DEF After0, Idle
<1>3. CASE call' = [call EXCEPT ![t] = c] /\ UNCHANGED kvars
  <2>1. From(t) = b
    BY <1>1 DEF From
  <2>2. b \in Bases(e.base) /\ b \in Mine(e)
    BY <1>0, <1>1, PlacesMine DEF Bases
  <2>3. x.cur = b /\ x.d = 0
    BY <2>1
  <2> HIDE DEF x, b
  <2>4. call'[t] = c /\ c.walk = <<x>> /\ c.base = e.base /\ c.got = e.got
    BY <1>0, <1>3 DEF CallRec
  <2> HIDE DEF c
  <2>5. Len(c.walk) = 1 /\ c.walk[1] = x
    BY <2>4
  <2>6. fds' = fds
    BY <1>3 DEF kvars
  <2>7. Sits(tree', Nodes', b, b, 0)
    <3>1. Nodes[b] \in Node
      BY <1>0, <2>2, HasFiles
    <3>2. Sits(tree, Nodes, b, b, 0)
      BY <3>1, AboveHere DEF Sits
    <3>3. 0 \in Nat
      OBVIOUS
    <3> QED BY <1>0, <2>2, <2>6, <3>2, <3>3, SitsOn DEF Going
  <2>8. \A i \in 1 .. Len(c.got) :
             /\ c.got[i].own \/ c.got[i].fd \in Bases(c.base)
             /\ c.got[i].name # ".."
             /\ \E k \in Nat : Sits(tree', Nodes', c.base[i], c.got[i].fd, k)
    BY <2>4, <2>6, GotOn
  <2>9. \A i \in 1 .. Len(c.walk) : i = 1
    BY <2>5
  <2>10. Shape(c)
    BY <2>2, <2>3, <2>4, <2>5, <2>8, <2>9 DEF Shape
  <2>11. b = c.base[Len(c.got) + 1]
    BY <2>4 DEF b
  <2>12. Near(tree', Nodes', c)
    BY <2>3, <2>5, <2>7, <2>8, <2>9, <2>11 DEF Near
  <2> QED BY <2>4, <2>10, <2>12 DEF After0
<1> QED BY <1>2, <1>3 DEF Enter

\* Where a component leads that is opened in a directory.
LEMMA StepSits ==
  ASSUME FdsType, DescType, TreeType, SoundTree(tree), NEW f \in Fd, NEW m, NEW fl,
         OpenErr(f, m, fl) = "ok", NEW b, NEW k \in Nat, NEW l \in Nat,
         Sits(tree, Nodes, b, f, k),
         \/ m = "." /\ l = k
         \/ m = ".." /\ k # 0 /\ l = k - 1
         \/ m \in Name /\ l = k + 1
  PROVE  LET U == OpenTree(f, m, fl)
             n == OpenNode(f, m) IN
         U[n].kind = "dir" => Above(U, Nodes[b], n, l)
<1> DEFINE U == OpenTree(f, m, fl)
           n == OpenNode(f, m)
           x == NodeOf(f)
<1>1. /\ Grows(U) /\ n \in Node /\ U[n].kind # "free"
      /\ tree[x].kind = "dir" /\ x \in Node
      /\ U[n].kind # "dir" \/ (n = Lookup(x, m) /\ Lookup(x, m) # None)
  BY OpenGrows
<1> SUFFICES ASSUME U[n].kind = "dir" PROVE Above(U, Nodes[b], n, l)
  OBVIOUS
<1>2. n = Lookup(x, m) /\ Lookup(x, m) # None
  BY <1>1
<1>3. /\ tree[n].kind # "free"
      /\ m \in Name /\ tree[n].kind = "dir" => tree[n].up = x
  BY <1>1, <1>2, LookupThere
<1>4. Nodes[f] = x /\ Above(tree, Nodes[b], x, k)
  BY <1>1 DEF Sits, Nodes
<1>5. /\ tree \in [Node -> Entry] /\ U \in [Node -> Entry] /\ Grown(tree, U)
      /\ \A i \in Node : tree[i].kind = "dir" => tree[tree[i].up].kind = "dir"
  BY <1>1 DEF TreeType, Grows, SoundTree
<1>6. tree[n].kind = "dir"
  BY <1>1, <1>3, <1>5 DEF Grown
<1> DEFINE a == Nodes[b]
<1> HIDE DEF a, U, x, n
<1>7. Above(tree, a, n, l)
  <2>1. CASE m = "." /\ l = k
    <3>0. m # ".." /\ m \notin Name
      BY <2>1, KernelAssumption
    <3>1. Lookup(x, m) = x
      BY <2>1, <3>0 DEF Lookup
    <3> QED BY <1>2, <1>4, <2>1, <3>1 DEF a
  <2>2. CASE m = ".." /\ k # 0 /\ l = k - 1
    <3>1. m # "." /\ m \notin Name
      BY <2>2, KernelAssumption
    <3>2. Lookup(x, m) = tree[x].up
      BY <2>2, <3>1 DEF Lookup
    <3>3. Above(tree, a, tree[x].up, k - 1)
      BY <1>4, <2>2, AboveUp DEF a
    <3> QED BY <1>2, <2>2, <3>2, <3>3
  <2>3. CASE m \in Name /\ l = k + 1
    <3>1. tree[n].up = x
      BY <1>3, <1>6, <2>3
    <3>2. Above(tree, a, n, k + 1)
      BY <1>1, <1>4, <3>1, AboveDown DEF a, n
    <3> QED BY <2>3, <3>2
  <2> QED BY <2>1, <2>2, <2>3
<1>8. Above(U, a, n, l)
  BY <1>5, <1>6, <1>7, AboveKept
<1> QED BY <1>8 DEF a

LEMMA AdvanceAfter ==
  ASSUME NEW t, Going(t), At(t, "walk"), NEW m, NEW fl, NEW dd,
         OpenErr(Frm(t).cur, m, fl) = "ok", Advance(t, m, fl, dd),
         \/ m = "." /\ dd = Frm(t).d
         \/ m = ".." /\ Frm(t).d # 0 /\ dd = Frm(t).d - 1
         \/ m \in Name /\ dd = Frm(t).d + 1
  PROVE  After0(t)
<1> DEFINE e == call[t]
           n == Depth(t)
           g == Frm(t)
           x == [g EXCEPT !.cur = NewFd, !.own = TRUE, !.d = dd, !.rest = Tail(g.rest)]
           w == [e.walk EXCEPT ![n] = x]
           c == [e EXCEPT !.walk = w]
           S == IF g.own THEN {g.cur} ELSE {}
           b == e.base[Len(e.got) + 1]
           y == OpenNode(g.cur, m)
           U == OpenTree(g.cur, m, fl)
<1>0. /\ Inv /\ e \in CallRec /\ t \in Thread /\ call \in [Thread -> CallRec]
      /\ FdsType /\ DescType /\ TreeType /\ Apart(e) /\ Full
      /\ SoundTree(tree) /\ Behind /\ Grows(tree') /\ Shape(e) /\ Near(tree, Nodes, e)
  BY GoingHas DEF CallsOK, Going
<1>1. /\ n \in Nat /\ n >= 1 /\ n \in 1 .. Len(e.walk) /\ Len(e.walk) = n
      /\ g = e.walk[n] /\ g \in Frame /\ e.walk \in Seq(Frame) /\ e.walk # <<>>
  BY <1>0, WalkHas DEF Walking0, Depth
<1>2. /\ g.cur \in Fd /\ g.d \in Nat /\ dd \in Nat
  BY <1>1 DEF Frame
<1>3. /\ fds' = Shut(Opened(fds, NewDesc), S) /\ descs' = Description(y, fl)
      /\ tree' = U /\ call' = [call EXCEPT ![t] = c]
  BY <1>0, <1>1 DEF Advance
<1>4. x.cur = NewFd /\ x.own /\ x.d = dd
  BY <1>1 DEF Frame
<1> HIDE DEF x
<1>5. /\ Len(w) = n /\ w[n] = x
      /\ \A i \in 1 .. n - 1 : w[i] = e.walk[i]
  BY <1>1
<1> HIDE DEF w
<1>6. call'[t] = c /\ c.walk = w /\ c.base = e.base /\ c.got = e.got
  BY <1>0, <1>3 DEF CallRec
<1> HIDE DEF c
<1>7. Len(e.got) + 1 \in 1 .. Len(e.base) /\ b \in Bases(e.base) /\ b \in Mine(e)
  <2>1. Len(e.got) + 1 \in 1 .. Len(e.base)
    BY <1>1, GoingHas
  <2> QED BY <1>0, <2>1, PlacesMine DEF Bases
<1>8. FreeFds # {} /\ y \in Node /\ NewDesc \in Fd
  BY <1>0, <1>2, OpenOk, NewDescFree
<1>9. /\ S \subseteq {f \in Fd : fds[f] # None}
  BY <1>0, <1>1, PlacesMine, HasFiles
<1>10. descs'[NewDesc].node = y
  BY <1>0, <1>3, <1>8, Describes
<1>11. /\ NewFd \in Fd /\ fds'[NewFd] = NewDesc /\ fds[NewFd] = None
       /\ \A f \in Fd : f # NewFd /\ f \notin S => fds'[f] = fds[f]
  BY <1>0, <1>3, <1>8, <1>9, OpensFds
<1>12. \A f \in Mine(e) : f \notin S => fds'[f] = fds[f]
  BY <1>0, <1>11, HasFiles
<1>13. \A f \in Bases(e.base) \cup Gotten(e.got) : fds'[f] = fds[f]
  <2>1. \A f \in Bases(e.base) \cup Gotten(e.got) : f \in Mine(e)
    BY DEF Mine
  <2>2. g.own => \A f \in Bases(e.base) \cup Gotten(e.got) : f # g.cur
    BY <1>0, <1>1, OnlyThere
  <2> QED BY <1>12, <2>1, <2>2
<1>14. \A i \in 1 .. Len(c.got) :
             /\ c.got[i].own \/ c.got[i].fd \in Bases(c.base)
             /\ c.got[i].name # ".."
             /\ \E k \in Nat : Sits(tree', Nodes', c.base[i], c.got[i].fd, k)
  BY <1>6, <1>13, GotOn
<1>15. ASSUME NEW i \in 1 .. n - 1
       PROVE  /\ Sits(tree', Nodes', b, w[i].cur, w[i].d)
              /\ \/ w[i].cur \in Bases(e.base)
                 \/ \E j \in 1 .. i : w[j].own /\ w[j].cur = w[i].cur
  <2>1. i \in 1 .. Len(e.walk)
    BY <1>1
  <2>2. g.own => e.walk[i].cur # g.cur
    BY <1>0, <1>1, OnlyThere
  <2>3. e.walk[i].cur \in Mine(e)
    BY <1>0, <2>1, PlacesMine
  <2>4. fds'[e.walk[i].cur] = fds[e.walk[i].cur]
    BY <1>12, <2>2, <2>3
  <2>5. Sits(tree', Nodes', b, e.walk[i].cur, e.walk[i].d)
    BY <1>13, <2>1, <2>4, FrameOn
  <2>6. \A j \in 1 .. i : w[j] = e.walk[j]
    BY <1>1, <1>5
  <2>7. \/ e.walk[i].cur \in Bases(e.base)
        \/ \E j \in 1 .. i : e.walk[j].own /\ e.walk[j].cur = e.walk[i].cur
    BY <1>0, <2>1 DEF Shape
  <2> QED BY <1>5, <2>5, <2>6, <2>7
<1>16. Sits(tree', Nodes', b, w[n].cur, w[n].d)
  <2>1. Sits(tree, Nodes, b, g.cur, g.d)
    BY <1>0, <1>1 DEF Near
  <2>2. U[y].kind = "dir" => Above(U, Nodes[b], y, dd)
    <3> DEFINE f == g.cur
               k == g.d
    <3>1. f \in Fd /\ k \in Nat /\ Sits(tree, Nodes, b, f, k) /\ OpenErr(f, m, fl) = "ok"
          /\ \/ m = "." /\ dd = k
             \/ m = ".." /\ k # 0 /\ dd = k - 1
             \/ m \in Name /\ dd = k + 1
      BY <1>2, <2>1
    <3> HIDE DEF f, k, b
    <3>2. LET V == OpenTree(f, m, fl)
              z == OpenNode(f, m) IN
          V[z].kind = "dir" => Above(V, Nodes[b], z, dd)
      BY <1>0, <1>2, <3>1, StepSits
    <3> QED BY <3>2 DEF f
  <2>3. Nodes'[NewFd] = y
    BY <1>10, <1>11 DEF Nodes, NodeOf
  <2>4. Nodes'[b] = Nodes[b]
    BY <1>0, <1>7, <1>13, HasFiles, FilesStay DEF Going
  <2> HIDE DEF y, U, b
  <2> QED BY <1>3, <1>4, <1>5, <2>2, <2>3, <2>4 DEF Sits
<1>17. \A i \in 1 .. Len(c.walk) : i = n \/ i \in 1 .. n - 1
  BY <1>1, <1>5, <1>6
<1>18. Shape(c)
  <2>1. \E j \in 1 .. n : w[j].own /\ w[j].cur = w[n].cur
    BY <1>1, <1>4, <1>5
  <2> QED BY <1>6, <1>14, <1>15, <1>17, <2>1 DEF Shape
<1>19. Near(tree', Nodes', c)
  <2>1. b = c.base[Len(c.got) + 1]
    BY <1>6
  <2> HIDE DEF b
  <2> QED BY <1>6, <1>14, <1>15, <1>16, <1>17, <2>1 DEF Near
<1> QED BY <1>6, <1>18, <1>19 DEF After0

\* A link is looked at from where the walk is.
LEMMA ToLinkAfter ==
  ASSUME NEW t, Going(t), At(t, "walk"), UNCHANGED kvars, NEW er,
         call' = [call EXCEPT ![t].pc = "link", ![t].err = er]
  PROVE  After0(t)
<1> DEFINE e == call[t]
           c == [e EXCEPT !.pc = "link", !.err = er]
<1>0. /\ e \in CallRec /\ t \in Thread /\ call \in [Thread -> CallRec] /\ Shape(e)
      /\ Near(tree, Nodes, e)
  BY GoingHas DEF CallsOK
<1>1. call'[t] = c /\ c.walk = e.walk /\ c.base = e.base /\ c.got = e.got
  BY <1>0 DEF CallRec
<1> HIDE DEF c
<1>2. tree' = tree /\ Nodes' = Nodes
  BY DEF kvars, Nodes, NodeOf
<1>3. Shape(c)
  BY <1>0, <1>1 DEF Shape
<1>4. Near(tree, Nodes, c)
  BY <1>0, <1>1 DEF Near
<1> QED BY <1>1, <1>2, <1>3, <1>4 DEF After0

\* Its text is walked from there too.
LEMMA StepLinkAfter ==
  ASSUME NEW t, Going(t), StepLink(t)
  PROVE  After0(t)
<1> DEFINE text == LinkText(Frm(t).cur, Component(t))
           e == call[t]
           n == Depth(t)
           x == LinkFrame(t, text)
           w == Append(e.walk, x)
           c == [e EXCEPT !.pc = "walk", !.walk = w]
<1>0. /\ Inv /\ e \in CallRec /\ t \in Thread /\ call \in [Thread -> CallRec] /\ Shape(e)
      /\ Near(tree, Nodes, e) /\ At(t, "link")
  BY GoingHas DEF CallsOK, StepLink
<1>1. \/ \E er : Fail(t, er)
      \/ call' = [call EXCEPT ![t] = c] /\ UNCHANGED kvars
  <2>1. CASE text = <<>>
    BY <2>1 DEF StepLink
  <2>2. CASE text # <<>> /\ PathErr(text) # "ok"
    BY <2>2 DEF StepLink
  <2>3. CASE text # <<>> /\ PathErr(text) = "ok"
    BY <2>3 DEF StepLink
  <2> QED BY <2>1, <2>2, <2>3
<1>2. CASE \E er : Fail(t, er)
  <2>1. call'[t] = Idle
    BY <1>0, <1>2 DEF Fail, Return
  <2> QED BY <2>1, Nowhere DEF After0, Idle
<1>3. CASE call' = [call EXCEPT ![t] = c] /\ UNCHANGED kvars
  <2>1. /\ n \in Nat /\ n >= 1 /\ Len(e.walk) = n /\ n \in 1 .. Len(e.walk)
        /\ Frm(t) = e.walk[n] /\ e.walk \in Seq(Frame)
    BY <1>0, WalkHas DEF Depth, Walking0
  <2>2. x.cur = Frm(t).cur /\ x.d = Frm(t).d
    BY DEF LinkFrame
  <2> HIDE DEF x, text
  <2>3. /\ Len(w) = n + 1 /\ w[n + 1] = x /\ \A i \in 1 .. n : w[i] = e.walk[i]
    BY <2>1
  <2> HIDE DEF w
  <2>4. call'[t] = c /\ c.walk = w /\ c.base = e.base /\ c.got = e.got
    BY <1>0, <1>3 DEF CallRec
  <2> HIDE DEF c
  <2>5. tree' = tree /\ Nodes' = Nodes
    BY <1>3 DEF kvars, Nodes, NodeOf
  <2>6. \A i \in 1 .. Len(c.walk) : i \in 1 .. n \/ i = n + 1
    BY <2>1, <2>3, <2>4
  <2>7. ASSUME NEW i \in 1 .. Len(c.walk)
        PROVE  /\ \/ w[i].cur \in Bases(e.base)
                  \/ \E j \in 1 .. i : w[j].own /\ w[j].cur = w[i].cur
               /\ Sits(tree, Nodes, e.base[Len(e.got) + 1], w[i].cur, w[i].d)
    <3> DEFINE m == IF i = n + 1 THEN n ELSE i
    <3>1. m \in 1 .. n /\ m <= i /\ m \in 1 .. Len(e.walk)
      BY <2>1, <2>6
    <3>2. w[i].cur = e.walk[m].cur /\ w[i].d = e.walk[m].d
      BY <2>1, <2>2, <2>3, <2>6
    <3> HIDE DEF m
    <3>3. \/ e.walk[m].cur \in Bases(e.base)
          \/ \E j \in 1 .. m : e.walk[j].own /\ e.walk[j].cur = e.walk[m].cur
      BY <1>0, <3>1 DEF Shape
    <3>4. \A j \in 1 .. m : j \in 1 .. i /\ w[j] = e.walk[j]
      BY <2>1, <2>3, <3>1
    <3>5. Sits(tree, Nodes, e.base[Len(e.got) + 1], e.walk[m].cur, e.walk[m].d)
      BY <1>0, <3>1 DEF Near
    <3> QED BY <3>2, <3>3, <3>4, <3>5
  <2>8. Shape(c)
    BY <1>0, <2>4, <2>7 DEF Shape
  <2>9. Near(tree, Nodes, c)
    BY <1>0, <2>4, <2>7 DEF Near
  <2> QED BY <2>4, <2>5, <2>8, <2>9 DEF After0
<1> QED BY <1>1, <1>2, <1>3

\* The walk goes on where the text led.
LEMMA StepBackAfter ==
  ASSUME NEW t, Going(t), StepBack(t)
  PROVE  After0(t)
<1> DEFINE e == call[t]
           k == Depth(t) - 1
           g == e.walk[k]
           f == e.walk[k + 1]
           x == Resumed(g, f)
           w == Back(e.walk, k, x)
           c == [e EXCEPT !.walk = w]
           S == IF g.own THEN {g.cur} ELSE {}
           b == e.base[Len(e.got) + 1]
<1>0. /\ Inv /\ e \in CallRec /\ t \in Thread /\ call \in [Thread -> CallRec] /\ Shape(e)
      /\ Near(tree, Nodes, e) /\ At(t, "walk") /\ Apart(e) /\ FdsType
      /\ Frm(t).rest = <<>> /\ k > 0 /\ Full /\ Behind
  BY GoingHas DEF CallsOK, StepBack, Going
<1>1. /\ Depth(t) \in Nat /\ Depth(t) >= 1 /\ Len(e.walk) = Depth(t)
      /\ Frm(t) = e.walk[Depth(t)] /\ e.walk \in Seq(Frame) /\ FramesOK(e, Req(t))
  BY <1>0, WalkHas DEF Depth, Walking0
<1>2. /\ k \in Nat /\ k >= 1 /\ Len(e.walk) = k + 1 /\ f = Frm(t)
      /\ k \in 1 .. Len(e.walk) /\ k + 1 \in 1 .. Len(e.walk)
      /\ k < Len(e.walk) /\ f.rest = <<>>
  <2>1. k + 1 = Depth(t)
    BY <1>1
  <2> QED BY <1>0, <1>1, <2>1
<1>3. /\ call' = [call EXCEPT ![t] = c] /\ fds' = Shut(fds, S)
      /\ tree' = tree
  BY <1>0, <1>2 DEF StepBack, Back
<1> HIDE DEF k
<1>4. f.own /\ g \in Frame /\ f \in Frame
  <2>1. f.own
    BY <1>1, <1>2 DEF FramesOK
  <2>2. g \in Frame /\ f \in Frame
    <3>1. \A i \in 1 .. Len(e.walk) : e.walk[i] \in Frame
      BY <1>1
    <3> QED BY <1>2, <3>1
  <2> QED BY <2>1, <2>2
<1>5. x.cur = f.cur /\ x.d = f.d /\ x.own
  BY <1>4 DEF Resumed, Frame
<1> HIDE DEF x
<1>6. /\ Len(w) = k /\ w[k] = x /\ \A i \in 1 .. k - 1 : w[i] = e.walk[i]
  <2> DEFINE s == SubSeq(e.walk, 1, k - 1)
  <2>1. /\ s \in Seq(Frame) /\ Len(s) = k - 1
        /\ \A i \in 1 .. k - 1 : s[i] = e.walk[i]
    BY <1>1, <1>2
  <2> HIDE DEF s
  <2>2. Len(Append(s, x)) = k /\ Append(s, x)[k] = x
        /\ \A i \in 1 .. k - 1 : Append(s, x)[i] = s[i]
    BY <1>2, <2>1
  <2> QED BY <2>1, <2>2 DEF Back, s
<1> HIDE DEF w
<1>7. call'[t] = c /\ c.walk = w /\ c.base = e.base /\ c.got = e.got
  BY <1>0, <1>3 DEF CallRec
<1> HIDE DEF c
<1>8. \A y \in Mine(e) : y \notin S => fds'[y] = fds[y]
  BY <1>0, <1>3, HasFiles DEF Shut
<1>9. \A y \in Bases(e.base) \cup Gotten(e.got) : fds'[y] = fds[y]
  <2>1. \A y \in Bases(e.base) \cup Gotten(e.got) : y \in Mine(e)
    BY DEF Mine
  <2>2. g.own => \A y \in Bases(e.base) \cup Gotten(e.got) : y # g.cur
    BY <1>0, <1>2, OnlyThere
  <2> QED BY <1>8, <2>1, <2>2
<1>10. \A i \in 1 .. Len(c.got) :
             /\ c.got[i].own \/ c.got[i].fd \in Bases(c.base)
             /\ c.got[i].name # ".."
             /\ \E l \in Nat : Sits(tree', Nodes', c.base[i], c.got[i].fd, l)
  BY <1>7, <1>9, GotOn
<1>11. ASSUME NEW i \in 1 .. k - 1
       PROVE  /\ Sits(tree', Nodes', b, w[i].cur, w[i].d)
              /\ \/ w[i].cur \in Bases(e.base)
                 \/ \E j \in 1 .. i : w[j].own /\ w[j].cur = w[i].cur
  <2>1. i \in 1 .. Len(e.walk)
    BY <1>2
  <2>2. g.own => e.walk[i].cur # g.cur
    BY <1>0, <1>2, OnlyThere
  <2>3. e.walk[i].cur \in Mine(e)
    BY <1>0, <2>1, PlacesMine
  <2>4. fds'[e.walk[i].cur] = fds[e.walk[i].cur]
    BY <1>8, <2>2, <2>3
  <2>5. Sits(tree', Nodes', b, e.walk[i].cur, e.walk[i].d)
    BY <1>9, <2>1, <2>4, FrameOn
  <2>6. \A j \in 1 .. i : w[j] = e.walk[j]
    <3>1. \A j \in 1 .. i : j \in 1 .. k - 1
      BY <1>2
    <3> QED BY <1>6, <3>1
  <2>7. \/ e.walk[i].cur \in Bases(e.base)
        \/ \E j \in 1 .. i : e.walk[j].own /\ e.walk[j].cur = e.walk[i].cur
    BY <1>0, <2>1 DEF Shape
  <2> QED BY <1>6, <2>5, <2>6, <2>7
<1>12. Sits(tree', Nodes', b, w[k].cur, w[k].d)
  <2>1. g.own => f.cur # g.cur
    <3>1. k + 1 # k
      BY <1>2
    <3> QED BY <1>0, <1>2, <1>4, <3>1, OnlyThere
  <2>2. f.cur \in Mine(e)
    BY <1>0, <1>2, PlacesMine
  <2>3. fds'[f.cur] = fds[f.cur]
    BY <1>8, <2>1, <2>2
  <2>4. Sits(tree', Nodes', b, f.cur, f.d)
    BY <1>2, <1>9, <2>3, FrameOn
  <2> QED BY <1>5, <1>6, <2>4
<1>13. \A i \in 1 .. Len(c.walk) : i = k \/ i \in 1 .. k - 1
  BY <1>2, <1>6, <1>7
<1>14. Shape(c)
  <2>1. \E j \in 1 .. k : w[j].own /\ w[j].cur = w[k].cur
    BY <1>2, <1>5, <1>6
  <2> QED BY <1>7, <1>10, <1>11, <1>13, <2>1 DEF Shape
<1>15. Near(tree', Nodes', c)
  <2>1. b = c.base[Len(c.got) + 1]
    BY <1>7
  <2> HIDE DEF b
  <2> QED BY <1>7, <1>10, <1>11, <1>12, <1>13, <2>1 DEF Near
<1> QED BY <1>7, <1>14, <1>15 DEF After0

\* A parent is found.
LEMMA ParentDoneAfter ==
  ASSUME NEW t, Going(t), ParentDone(t)
  PROVE  After0(t)
<1> DEFINE e == call[t]
           r == Req(t)
           f == Frm(t)
           p == Parent(t)
           v == e.got
           got == Append(v, p)
           path == IF r.op \in PairOps THEN r.path2 ELSE e.path
           pc == CASE r.op \in Follow -> "final"
                   [] r.op \in PairOps /\ e.got = <<>> -> "enter"
                   [] OTHER -> "act"
           c == [e EXCEPT !.walk = <<>>, !.got = got, !.path = path, !.pc = pc]
           k == Len(v)
<1>0. /\ Inv /\ e \in CallRec /\ t \in Thread /\ call \in [Thread -> CallRec] /\ Shape(e)
      /\ Near(tree, Nodes, e) /\ At(t, "walk") /\ Full /\ Behind /\ FdsType
      /\ r.op \notin Follow /\ f.par
  BY GoingHas DEF CallsOK, ParentDone, Going
<1>1. /\ Depth(t) \in Nat /\ Depth(t) >= 1 /\ Len(e.walk) = Depth(t)
      /\ Depth(t) \in 1 .. Len(e.walk) /\ f = e.walk[Depth(t)] /\ FramesOK(e, r)
      /\ e.walk # <<>> /\ f \in Frame
  BY <1>0, WalkHas DEF Depth, Walking0
<1>2. /\ k + 1 \in 1 .. Len(e.base) /\ e.hop = 0 /\ e.got \in Seq(Parents) /\ k \in Nat
      /\ \A i \in 1 .. k : i \in 1 .. Len(e.base)
  <2>1. e.got \in Seq(Parents) /\ k \in Nat
    BY <1>0 DEF CallRec
  <2>2. k + 1 \in 1 .. Len(e.base) /\ e.hop = 0
    BY <1>1, GoingHas
  <2>3. \A i \in 1 .. k : i \in 1 .. Len(e.base)
    BY GoingHas
  <2> QED BY <2>1, <2>2, <2>3
<1>3. CASE \E er : Fail(t, er)
  <2>1. call'[t] = Idle
    BY <1>0, <1>3 DEF Fail, Return
  <2> QED BY <2>1, Nowhere DEF After0, Idle
<1>4. CASE ~\E er : Fail(t, er)
  <2>1. /\ Component(t) # ".." /\ tree' = tree
        /\ call' = [call EXCEPT ![t] = c] /\ fds' = Shut(fds, {})
    <3>1. ~(e.hop > 0)
      BY <1>2
    <3> HIDE DEF k
    <3>2. /\ Component(t) # ".." /\ tree' = tree /\ fds' = Shut(fds, {})
      BY <1>4, <3>1 DEF ParentDone
    <3>3. call' = [call EXCEPT ![t] = c]
      BY <1>0, <1>4, <3>2 DEF ParentDone
    <3> QED BY <3>2, <3>3
  <2>2. Depth(t) = 1
    BY <1>0, <1>1 DEF FramesOK
  <2>3. /\ Len(e.walk) = 1 /\ f = e.walk[1] /\ 1 \in 1 .. Len(e.walk)
    BY <1>1, <2>2
  <2>4. p.fd = f.cur /\ p.own = f.own /\ p.name # ".."
    BY <2>1 DEF Parent
  <2> HIDE DEF p
  <2>5. /\ Len(got) = k + 1 /\ got[k + 1] = p /\ \A i \in 1 .. k : got[i] = v[i]
    BY <1>2
  <2> HIDE DEF got
  <2>6. call'[t] = c /\ c.walk = <<>> /\ c.base = e.base /\ c.got = got
    BY <1>0, <2>1 DEF CallRec
  <2> HIDE DEF c
  <2>7. \A x \in Mine(e) : fds'[x] = fds[x]
    BY <1>0, <2>1, HasFiles DEF Shut
  <2>8. \A x \in Bases(e.base) \cup Gotten(e.got) \cup {f.cur} : fds'[x] = fds[x]
    <3>1. f.cur \in Mine(e)
      BY <1>0, <2>3, PlacesMine
    <3>2. \A x \in Bases(e.base) \cup Gotten(e.got) : x \in Mine(e)
      BY DEF Mine
    <3> QED BY <2>7, <3>1, <3>2
  <2>9. \A i \in 1 .. k :
             /\ v[i].own \/ v[i].fd \in Bases(e.base)
             /\ v[i].name # ".."
             /\ \E l \in Nat : Sits(tree', Nodes', e.base[i], v[i].fd, l)
    BY <2>8, GotOn
  <2>10. Sits(tree', Nodes', e.base[k + 1], f.cur, f.d)
    BY <2>3, <2>8, FrameOn
  <2>11. f.own \/ f.cur \in Bases(e.base)
    <3>1. \/ e.walk[1].cur \in Bases(e.base)
          \/ \E j \in 1 .. 1 : e.walk[j].own /\ e.walk[j].cur = e.walk[1].cur
      BY <1>0, <2>3 DEF Shape
    <3>2. \A j \in 1 .. 1 : j = 1
      OBVIOUS
    <3> QED BY <2>3, <3>1, <3>2
  <2>12. f.d \in Nat
    BY <1>1 DEF Frame
  <2>13. Len(c.walk) = 0 /\ \A i \in 1 .. Len(c.walk) : FALSE
    BY <2>6
  <2>14. \A i \in 1 .. Len(c.got) : i = k + 1 \/ i \in 1 .. k
    BY <1>2, <2>5, <2>6
  <2> HIDE DEF f, k, v
  <2>15. ASSUME NEW i \in 1 .. Len(c.got)
         PROVE  /\ c.got[i].own \/ c.got[i].fd \in Bases(c.base)
                /\ c.got[i].name # ".."
                /\ \E l \in Nat : Sits(tree', Nodes', c.base[i], c.got[i].fd, l)
    <3>1. CASE i = k + 1
      BY <2>4, <2>5, <2>6, <2>10, <2>11, <2>12, <3>1
    <3>2. CASE i \in 1 .. k
      BY <2>5, <2>6, <2>9, <3>2
    <3> QED BY <2>14, <3>1, <3>2
  <2>16. Shape(c) /\ Near(tree', Nodes', c)
    BY <2>13, <2>15 DEF Shape, Near
  <2> QED BY <2>6, <2>16 DEF After0
<1> QED BY <1>3, <1>4

\* What a step of a call leaves of it.
LEMMA StepAfter ==
  ASSUME Full, NoLinks, Hold, NEW t \in Thread, Step(t), ~moved'
  PROVE  After0(t)
<1>0. /\ SoundTree(tree) /\ Behind /\ Shape(call[t])
      /\ call \in [Thread -> CallRec]
  BY TypesHave DEF Full, Inv, CallsOK, Hold, Tidy
<1>1. DescsStay /\ Growing
  BY <1>0, StepDescs, StepGrows
<1>2. CASE HandleStep(t) \/ ListStep(t)
  BY <1>2, NoPlace, Nowhere DEF After0
<1>3. CASE WalkStep(t)
  <2>1. At(t, "enter") \/ At(t, "walk") \/ At(t, "link") \/ At(t, "act") \/ At(t, "final")
    BY <1>3 DEF WalkStep, Enter, StepDot, StepUp, StepName, Stepping, StepLink, StepBack,
         OpenDone, ParentDone, Resolve, PathAct, PairAct
  <2>2. ~At(t, "idle")
    BY <2>1 DEF At
  <2>3. Going(t)
    BY <1>1, <2>2 DEF Going
  <2>4. ~At(t, "final")
    BY <2>2, Runs DEF At
  <2>5. ASSUME call'[t].walk = <<>>, call'[t].got = <<>>
        PROVE  After0(t)
    BY <2>5, Nowhere DEF After0
  <2>6. ASSUME NEW er, Fail(t, er) PROVE After0(t)
    <3>1. call'[t] = Idle
      BY <1>0, <2>6 DEF Fail, Return
    <3> QED BY <2>5, <3>1 DEF Idle
  <2>7. CASE StepDot(t) \/ StepUp(t) \/ StepName(t)
    <3>1. At(t, "walk")
      BY <2>7, StepIs
    <3>2. CASE \E er : Fail(t, er)
      BY <2>6, <3>2
    <3>3. CASE UNCHANGED kvars /\ \E er : call' = [call EXCEPT ![t].pc = "link", ![t].err = er]
      BY <2>3, <3>1, <3>3, ToLinkAfter
    <3>4. CASE \E m, fl, dd :
                   /\ OpenErr(Frm(t).cur, m, fl) = "ok" /\ Advance(t, m, fl, dd)
                   /\ \/ m = "." /\ dd = Frm(t).d
                      \/ m = ".." /\ Frm(t).d # 0 /\ dd = Frm(t).d - 1
                      \/ m \in Name /\ dd = Frm(t).d + 1
      <4>1. PICK m, fl, dd :
                   /\ OpenErr(Frm(t).cur, m, fl) = "ok" /\ Advance(t, m, fl, dd)
                   /\ \/ m = "." /\ dd = Frm(t).d
                      \/ m = ".." /\ Frm(t).d # 0 /\ dd = Frm(t).d - 1
                      \/ m \in Name /\ dd = Frm(t).d + 1
        BY <3>4
      <4> QED BY <2>3, <3>1, <4>1, AdvanceAfter
    <3> QED BY <2>7, <3>2, <3>3, <3>4, StepIs
  <2>8. CASE OpenDone(t)
    <3> DEFINE c == [Idle EXCEPT !.pc = "made", !.fd = Frm(t).cur]
    <3>1. call'[t] = c
      BY <1>0, <2>8 DEF OpenDone
    <3>2. c.walk = <<>> /\ c.got = <<>>
      BY DEF Idle
    <3> QED BY <2>5, <3>1, <3>2
  <2>9. CASE PathAct(t) \/ PairAct(t)
    <3>1. \E ans : Return(t, ans)
      BY <2>9 DEF PathAct, PairAct, Fail
    <3>2. call'[t] = Idle
      BY <1>0, <3>1 DEF Return
    <3> QED BY <2>5, <3>2 DEF Idle
  <2>10. ~Resolve(t)
    BY <2>4 DEF Resolve
  <2> QED BY <1>3, <2>3, <2>7, <2>8, <2>9, <2>10, EnterAfter, StepLinkAfter, StepBackAfter,
             ParentDoneAfter DEF WalkStep
<1> QED BY <1>2, <1>3 DEF Step

-----------------------------------------------------------------------------
(* The steps of the others, and the invariant                              *)

\* A call ends with the first request of its script.
LEMMA LinksStay ==
  ASSUME Full, NoLinks, NEW t \in Thread, Step(t)
  PROVE  NoLinks'
<1>0. Inv /\ CallsOK /\ todo \in [Thread -> Seq(Request)]
  BY TypesHave DEF Full, Inv, CallsOK
<1>1. CASE todo' = todo
  BY <1>1 DEF NoLinks
<1>2. CASE \E ans : Return(t, ans)
  <2>1. todo' = [todo EXCEPT ![t] = Tail(todo[t])]
    BY <1>2 DEF Return
  <2>2. todo[t] # <<>>
    BY <1>0, StepEnds
  <2> SUFFICES ASSUME NEW u \in Thread, NEW i \in DOMAIN todo'[u]
               PROVE  todo'[u][i].op \notin Follow
    BY DEF NoLinks
  <2>3. CASE u = t
    <3> DEFINE s == todo[t]
    <3>1. s \in Seq(Request) /\ s # <<>> /\ todo'[u] = Tail(s)
      BY <1>0, <2>1, <2>2, <2>3
    <3>2. \A k \in DOMAIN s : s[k].op \notin Follow
      BY DEF NoLinks
    <3> HIDE DEF s
    <3>3. i \in DOMAIN Tail(s)
      BY <3>1
    <3>4. i + 1 \in DOMAIN s /\ Tail(s)[i] = s[i + 1]
      BY <3>1, <3>3
    <3> QED BY <3>1, <3>2, <3>4
  <2>4. CASE u # t
    <3>1. todo'[u] = todo[u]
      BY <1>0, <2>1, <2>4
    <3> QED BY <3>1 DEF NoLinks
  <2> QED BY <2>3, <2>4
<1> QED BY <1>0, <1>1, <1>2, StepEnds

\* Nothing that has been moved is moved back.
LEMMA StaysMoved ==
  ASSUME NEW t, Step(t), moved
  PROVE  moved'
<1>1. \A e : Fail(t, e) => moved' = moved
  BY DEF Fail
<1>2. \A m, d : Reopen(t, m, d) => moved' = moved
  BY <1>1 DEF Reopen, Advance
<1>4. CASE HandleStep(t)
  <2>1. CASE Begin(t) \/ Lock(t) \/ NoBinary(t) \/ Access(t) \/ Close(t)
    BY <1>1, <2>1 DEF Begin, Lock, NoBinary, Access, Close, kvars
  <2>2. CASE DupHandle(t) \/ DirDup(t) \/ OpenRoot(t) \/ Make(t) \/ NoMemory(t)
    BY <1>1, <2>2 DEF DupHandle, DirDup, OpenRoot, Make, NoMemory, kvars
  <2> QED BY <1>4, <2>1, <2>2 DEF HandleStep
<1>5. CASE WalkStep(t)
  <2>1. CASE Enter(t) \/ StepDot(t) \/ StepUp(t)
    BY <1>1, <1>2, <2>1 DEF Enter, StepDot, StepUp, kvars
  <2>2. CASE StepName(t) \/ StepLink(t) \/ StepBack(t) \/ OpenDone(t)
    BY <1>1, <2>2 DEF StepName, StepLink, StepBack, OpenDone, Advance, kvars
  <2>3. CASE ParentDone(t) \/ Resolve(t) \/ PathAct(t) \/ PairAct(t)
    BY <1>1, <2>3 DEF ParentDone, Resolve, PathAct, PairAct, kvars
  <2> QED BY <1>5, <2>1, <2>2, <2>3 DEF WalkStep
<1>6. CASE ListStep(t)
  <2>1. CASE OpenStream(t) \/ NamesDup(t) \/ Rewind(t) \/ Getdents(t)
    BY <1>1, <2>1 DEF OpenStream, NamesDup, Rewind, Getdents, kvars
  <2>2. CASE EndOfDir(t) \/ ReadFails(t) \/ TakeName(t) \/ PackEntry(t)
    BY <2>2 DEF EndOfDir, ReadFails, TakeName, PackEntry, kvars
  <2> QED BY <1>6, <2>1, <2>2 DEF ListStep
<1> QED BY <1>4, <1>5, <1>6 DEF Step

\* The numbers of a call that does nothing stay what they are.
LEMMA LeftAlone ==
  ASSUME Full, NEW u \in Thread, NEW h \in Handle,
         fds' = Shut(fds, {handle[h].fd, handle[h].dirp})
  PROVE  \A f \in Mine(call[u]) : fds'[f] = fds[f]
<1>1. Sole
  BY DEF Full, Inv
<1>2. ASSUME NEW f \in Mine(call[u]) PROVE fds'[f] = fds[f]
  <2>1. f \in Fd /\ f \notin Holds(h)
    BY <1>1 DEF Sole, IsOpen
  <2>2. f # None
    BY <2>1, KernelAssumption
  <2> QED BY <2>1, <2>2 DEF Shut, Holds
<1> QED BY <1>2

LEMMA OthersAlone ==
  ASSUME Full, NEW t \in Thread, Step(t), NEW u \in Thread, u # t
  PROVE  call'[u] = call[u] /\ \A f \in Mine(call[u]) : fds'[f] = fds[f]
<1>0. Inv /\ Sole /\ TodoStay(t)
  BY StepTodo DEF Full, Inv
<1>1. CASE OtherStep(t)
  <2>1. Went(t)
    BY <1>0, <1>1, PlainWent
  <2> QED BY <1>0, <2>1, FdsKept DEF Went, OthersStay
<1>2. CASE Make(t)
  <2>1. UNCHANGED kvars
    BY <1>0, <1>2, MakeKeeps
  <2>2. call'[u] = call[u]
    BY <1>2, TypesHave DEF Make, Return, Full, Inv, CallsOK
  <2> QED BY <2>1, <2>2 DEF kvars
<1>3. CASE Close(t)
  <2>1. OthersStay(t)
    BY <1>0, <1>3, CloseKept
  <2>2. Req(t).h \in Handle /\ fds' = Shut(fds, {handle[Req(t).h].fd, handle[Req(t).h].dirp})
    BY <1>0, <1>3, HeldHas DEF Close
  <2> QED BY <2>1, <2>2, LeftAlone DEF OthersStay
<1>4. CASE OpenStream(t)
  <2>1. OthersStay(t) /\ \A f \in Fd : fds[f] # None => fds'[f] = fds[f]
    BY <1>0, <1>4, StreamKept
  <2> QED BY <1>0, <2>1 DEF OthersStay, Sole, IsOpen
<1> QED BY <1>1, <1>2, <1>3, <1>4 DEF OtherStep

\* The swaps that are sound stay so.
LEMMA SwapsSound ==
  ASSUME SoundSwaps(tree), Grows(tree')
  PROVE  SoundTree(tree)' /\ SoundSwaps(tree)'
<1>1. SoundTree(tree') /\ Grown(tree, tree')
  BY DEF Grows
<1>2. SoundSwaps(tree')
  BY <1>1, SwapAssumption DEF SoundSwaps, Grown
<1> QED BY <1>1, <1>2 DEF SoundTree, SoundSwaps

LEMMA NextHold ==
  ASSUME Safe, [Next]_vars, ~moved' PROVE Hold'
<1>0. Full /\ NoLinks
  BY DEF Safe
<1>1. CASE \E t \in Thread : ThreadStep(t)
  <2>1. PICK t \in Thread : Step(t)
    BY <1>1 DEF ThreadStep
  <2>2. Hold
    BY <2>1, StaysMoved DEF Safe
  <2>3. /\ SoundTree(tree) /\ SoundSwaps(tree) /\ Behind
        /\ \A u \in Thread : Tidy(u)
    BY <2>2 DEF Hold
  <2>4. DescsStay /\ Growing
    BY <1>0, <2>1, <2>3, StepDescs, StepGrows DEF Tidy
  <2>5. SoundTree(tree)' /\ SoundSwaps(tree)' /\ Behind' /\ Grows(tree')
    BY <2>3, <2>4, SwapsSound DEF Growing
  <2>6. ASSUME NEW u \in Thread
        PROVE  Shape(call'[u]) /\ Near(tree', Nodes', call'[u])
    <3>1. CASE u = t
      BY <1>0, <2>1, <2>2, <3>1, StepAfter DEF After0
    <3>2. CASE u # t
      <4>1. call'[u] = call[u] /\ \A f \in Mine(call[u]) : fds'[f] = fds[f]
        BY <1>0, <2>1, <3>2, OthersAlone
      <4> QED BY <1>0, <2>3, <2>4, <2>5, <4>1, OthersTidy
    <3> QED BY <3>1, <3>2
  <2>7. \A u \in Thread : Tidy(u)'
    BY <2>6 DEF Tidy, Shape, Near
  <2> QED BY <2>5, <2>7 DEF Hold
<1>2. ASSUME Hold, DescsStay, Growing, call' = call,
             \A u \in Thread : \A f \in Mine(call[u]) : fds'[f] = fds[f]
      PROVE  Hold'
  <2>3. /\ SoundTree(tree) /\ SoundSwaps(tree) /\ Behind
        /\ \A u \in Thread : Tidy(u)
    BY <1>2 DEF Hold
  <2>5. SoundTree(tree)' /\ SoundSwaps(tree)' /\ Behind' /\ Grows(tree')
    BY <1>2, <2>3, SwapsSound DEF Growing
  <2>6. ASSUME NEW u \in Thread
        PROVE  Shape(call'[u]) /\ Near(tree', Nodes', call'[u])
    <3>1. call'[u] = call[u]
      BY <1>2
    <3> QED BY <1>0, <1>2, <2>3, <2>5, <3>1, OthersTidy
  <2>7. \A u \in Thread : Tidy(u)'
    BY <2>6 DEF Tidy, Shape, Near
  <2> QED BY <2>5, <2>7 DEF Hold
<1>3. Inv /\ FdsType /\ DescType /\ TreeType
  BY <1>0, TypesHave DEF Full, Inv
<1>4. ASSUME NEW s \in Swaps, Swap(s) PROVE Hold'
  <2>1. /\ tree' = [tree EXCEPT ![s.dir] = [tree[s.dir] EXCEPT !.at =
                                             [tree[s.dir].at EXCEPT ![s.name] = s.node]]]
        /\ UNCHANGED <<fds, descs, moved, call>>
    BY <1>4 DEF Swap, hvars
  <2>2. Hold /\ SoundTree(tree) /\ SoundSwaps(tree) /\ Behind
    BY <2>1 DEF Safe, Hold
  <2>3. s.dir \in Node /\ s.node \in Node \cup {None}
    BY SwapAssumption
  <2>4. s.node # None => /\ tree[s.node].kind # "free"
                         /\ tree[s.node].kind = "dir" => tree[s.node].up = s.dir
    BY <2>2 DEF SoundSwaps
  <2>5. Grows(tree')
    <3> DEFINE d == s.dir
               v == s.node
               U == [tree EXCEPT ![d] = [tree[d] EXCEPT !.at =
                                             [tree[d].at EXCEPT ![s.name] = v]]]
    <3>1. /\ d \in Node /\ v \in Node \cup {None}
          /\ v # None => /\ tree[v].kind # "free"
                         /\ tree[v].kind = "dir" => tree[v].up = d
      BY <2>3, <2>4
    <3>2. tree' = U
      BY <2>1
    <3> HIDE DEF d, v
    <3>3. Grows(U)
      BY <1>3, <2>2, <3>1, EntryGrows
    <3> QED BY <3>2, <3>3
  <2>6. DescsStay /\ NoNew
    BY <2>1, DescsSame, SameNoNew
  <2>7. Growing
    BY <1>3, <2>2, <2>5, <2>6, TreeGrows
  <2> QED BY <1>2, <2>1, <2>2, <2>6, <2>7
<1>5. ASSUME NEW h \in Handle, Gc(h) PROVE Hold'
  <2>1. /\ fds' = Shut(fds, {handle[h].fd, handle[h].dirp})
        /\ UNCHANGED <<descs, tree, moved, call>>
    BY <1>5 DEF Gc
  <2>2. Hold /\ SoundTree(tree) /\ Behind
    BY <2>1 DEF Safe, Hold
  <2>3. DescsStay /\ Still
    BY <1>3, <2>1, DescsSame, ShutNoNew DEF Still
  <2>4. Growing
    BY <1>3, <2>2, <2>3, StillGrows
  <2>5. \A u \in Thread : \A f \in Mine(call[u]) : fds'[f] = fds[f]
    BY <1>0, <2>1, LeftAlone
  <2> QED BY <1>2, <2>1, <2>2, <2>3, <2>4, <2>5
<1>6. CASE UNCHANGED vars
  <2>1. UNCHANGED <<fds, descs, tree, moved, call>>
    BY <1>6 DEF vars, kvars, hvars
  <2>2. Hold /\ SoundTree(tree) /\ Behind
    BY <2>1 DEF Safe, Hold
  <2>3. DescsStay /\ Still
    BY <2>1, DescsSame, SameNoNew DEF Still
  <2>4. Growing
    BY <1>3, <2>2, <2>3, StillGrows
  <2> QED BY <1>2, <2>1, <2>2, <2>3, <2>4
<1> QED BY <1>1, <1>4, <1>5, <1>6 DEF Next, Elsewhere

LEMMA NextSafe ==
  ASSUME Safe, [Next]_vars PROVE Safe'
<1>1. Full'
  BY NextFull DEF Safe
<1>2. NoLinks'
  <2>1. CASE \E t \in Thread : ThreadStep(t)
    BY <2>1, LinksStay DEF Safe, ThreadStep
  <2>2. CASE todo' = todo
    BY <2>2 DEF Safe, NoLinks
  <2>3. Elsewhere => todo' = todo
    BY DEF Elsewhere, Swap, Gc, hvars
  <2>4. UNCHANGED vars => todo' = todo
    BY DEF vars, hvars
  <2> QED BY <2>1, <2>2, <2>3, <2>4 DEF Next
<1> QED BY <1>1, <1>2, NextHold DEF Safe

LEMMA InitSafe ==
  ASSUME Init,
         \A s \in Scripts : \A t \in Thread : \A i \in DOMAIN s[t] : s[t][i].op \notin Follow
  PROVE  Safe
<1>1. /\ tree \in Tree /\ fds = [f \in Fd |-> None] /\ todo \in Scripts
      /\ call = [t \in Thread |-> Idle]
  BY DEF Init, KernelInit, HandleInit
<1>2. Full
  BY InitFull
<1>3. NoLinks
  BY <1>1 DEF NoLinks
<1>4. SoundTree(tree) /\ SoundSwaps(tree)
  BY <1>1, SoundAssumption
<1>5. Behind
  BY <1>1 DEF Behind
<1>6. ASSUME NEW u \in Thread PROVE Tidy(u)
  <2>1. call[u].walk = <<>> /\ call[u].got = <<>>
    BY <1>1 DEF Idle
  <2> QED BY <2>1, Nowhere DEF Tidy
<1> QED BY <1>2, <1>3, <1>4, <1>5, <1>6 DEF Safe, Hold

\* A call that is near its directory is in it or under it.
LEMMA SafeContained ==
  ASSUME Safe PROVE Contained
<1> SUFFICES ASSUME ~moved, NEW t \in Thread
             PROVE  /\ \A i \in DOMAIN call[t].walk :
                         Inside(call[t].walk[i].cur, Home(t, Walking(t)))
                    /\ \A i \in DOMAIN call[t].got : Inside(call[t].got[i].fd, Home(t, i))
  BY DEF Contained
<1> DEFINE e == call[t]
<1>1. /\ Full /\ NoLinks /\ Behind /\ Shape(e) /\ Near(tree, Nodes, e) /\ TreeType
  BY TypesHave DEF Safe, Hold, Tidy, Full, Inv
<1>2. /\ e \in CallRec /\ Len(e.got) <= Len(e.base) /\ Len(e.base) \in Nat
      /\ Len(e.got) \in Nat /\ e.walk # <<>> => Len(e.got) + 1 <= Len(e.base)
  BY <1>1, BaseOf
<1>3. e.walk \in Seq(Frame) /\ e.got \in Seq(Parents)
  BY <1>2 DEF CallRec
<1>4. ASSUME NEW f \in Mine(e), NEW g \in Mine(e), NEW k \in Nat, Sits(tree, Nodes, g, f, k)
      PROVE  Inside(f, NodeOf(g))
  <2>1. /\ Nodes[f] = NodeOf(f) /\ Nodes[g] = NodeOf(g) /\ NodeOf(f) \in Node
    BY <1>1, <1>4, HasFiles
  <2>2. tree[NodeOf(f)].kind = "dir" => Above(tree, NodeOf(g), NodeOf(f), k)
    BY <1>4, <2>1 DEF Sits
  <2>3. tree[NodeOf(f)].kind = "dir" => Under(NodeOf(f), NodeOf(g))
    <3> DEFINE n == NodeOf(f)
               m == NodeOf(g)
    <3>1. n \in Node /\ (tree[n].kind = "dir" => Above(tree, m, n, k))
      BY <2>1, <2>2
    <3> HIDE DEF n, m
    <3>2. tree[n].kind = "dir" => Under(n, m)
      BY <1>1, <3>1, AboveUnder, SoundAssumption
    <3> QED BY <3>2 DEF n, m
  <2> QED BY <2>3 DEF Inside
<1>5. ASSUME NEW i \in DOMAIN e.walk
      PROVE  Inside(e.walk[i].cur, Home(t, Walking(t)))
  <2>1. i \in 1 .. Len(e.walk) /\ e.walk # <<>> /\ e.walk[i] \in Frame
    BY <1>3
  <2>2. Len(e.got) + 1 \in 1 .. Len(e.base) /\ ~At(t, "idle")
    <3>1. Len(e.got) + 1 \in 1 .. Len(e.base)
      BY <1>2, <2>1
    <3>2. ~At(t, "idle")
      <4>1. At(t, "idle") => e.walk = <<>>
        BY <1>1, BaseOf DEF At
      <4> QED BY <2>1, <4>1
    <3> QED BY <3>1, <3>2
  <2>3. Walking(t) = Len(e.got) + 1
    <3>1. Req(t).op \notin Follow
      BY <1>1, <2>2, Runs
    <3>2. Lesser(Len(e.got) + 1, Len(e.base)) = Len(e.got) + 1
      BY <1>2, <2>1 DEF Lesser
    <3> QED BY <3>1, <3>2 DEF Walking
  <2>4. e.base[Len(e.got) + 1] \in Mine(e) /\ e.walk[i].cur \in Mine(e)
    BY <1>1, <1>2, <2>1, <2>2, PlacesMine
  <2>5. Sits(tree, Nodes, e.base[Len(e.got) + 1], e.walk[i].cur, e.walk[i].d)
    BY <1>1, <2>1 DEF Near
  <2>6. e.walk[i].d \in Nat
    BY <2>1 DEF Frame
  <2>7. Inside(e.walk[i].cur, NodeOf(e.base[Len(e.got) + 1]))
    BY <1>4, <2>4, <2>5, <2>6
  <2> QED BY <2>3, <2>7 DEF Home
<1>6. ASSUME NEW i \in DOMAIN e.got PROVE Inside(e.got[i].fd, Home(t, i))
  <2>1. i \in 1 .. Len(e.got) /\ i \in 1 .. Len(e.base)
    BY <1>2, <1>3
  <2>2. PICK k \in Nat : Sits(tree, Nodes, e.base[i], e.got[i].fd, k)
    BY <1>1, <2>1 DEF Near
  <2>3. e.base[i] \in Mine(e) /\ e.got[i].fd \in Mine(e)
    BY <1>1, <1>2, <2>1, PlacesMine
  <2>4. Inside(e.got[i].fd, NodeOf(e.base[i]))
    BY <1>4, <2>2, <2>3
  <2> QED BY <2>4 DEF Home
<1> QED BY <1>5, <1>6

\* Scripts without a call that follows the last link of its path: every directory in
\* which such a call looks up a name lies in or under the directory it was given, for any
\* number of threads, any links and any replacements between two of its steps, until a
\* directory is moved.
THEOREM WalksContained ==
  ASSUME \A s \in Scripts : \A t \in Thread : \A i \in DOMAIN s[t] :
           s[t][i].op \notin Follow
  PROVE  Spec => []Contained
<1>1. Init => Safe
  BY InitSafe
<1>2. Safe /\ [Next]_vars => Safe'
  BY NextSafe
<1>3. Safe => Contained
  BY SafeContained
<1> QED BY <1>1, <1>2, <1>3, PTL DEF Spec
-----------------------------------------------------------------------------
(* Pages of a directory: what a call has of the entries after its cookie,  *)
(* and what that makes of its answer                                       *)

Sizes(I) == [i \in I |-> EntrySize(Order[i])]

LEMMA EntrySizes ==
  ASSUME NEW I \in SUBSET DOMAIN Order
  PROVE  /\ IsFiniteSet(I) /\ I \subseteq Nat
         /\ \A i \in I : EntrySize(Order[i]) \in Nat \ {0}
         /\ Sizes(I) \in [I -> Nat] /\ Sizes(I) \in [I -> Int]
         /\ Bytes(I) = Total(Sizes(I)) /\ Bytes(I) \in Nat
<1>1. DOMAIN Order = 1 .. Len(Order) /\ Len(Order) \in Nat
  BY KernelAssumption
<1>2. IsFiniteSet(I)
  <2>1. 1 \in Int /\ Len(Order) \in Int
    BY <1>1
  <2>2. IsFiniteSet(1 .. Len(Order))
    BY <2>1, FS_Interval
  <2>3. I \in SUBSET (1 .. Len(Order))
    BY <1>1
  <2> QED BY <2>2, <2>3, FS_Subset
<1>3. \A i \in I : EntrySize(Order[i]) \in Nat \ {0}
  <2> TAKE i \in I
  <2>1. Order[i] \in Name \cup {".", ".."}
    BY KernelAssumption
  <2>2. NameLen[Order[i]] \in Nat \ {0} /\ Hdr \in Nat \ {0}
    BY <2>1, ListAssumption
  <2> QED BY <2>2 DEF EntrySize
<1>4. Sizes(I) \in [I -> Nat] /\ Sizes(I) \in [I -> Int]
  BY <1>3 DEF Sizes
<1>5. Bytes(I) = Total(Sizes(I))
  BY DEF Bytes, Sizes
<1>6. Total(Sizes(I)) \in Nat
  BY <1>2, <1>4, TotalNat
<1> QED BY <1>1, <1>2, <1>3, <1>4, <1>5, <1>6

LEMMA BytesNone == Bytes({}) = 0
<1>1. Sizes({}) = [x \in {} |-> Sizes({})[x]]
  BY DEF Sizes
<1>2. Total(Sizes({})) = 0
  BY <1>1, TotalEmpty
<1> QED BY <1>2, EntrySizes

\* One more entry adds its size.
LEMMA BytesMore ==
  ASSUME NEW I \in SUBSET DOMAIN Order, NEW i \in DOMAIN Order, i \notin I
  PROVE  Bytes(I \cup {i}) = Bytes(I) + EntrySize(Order[i])
<1> DEFINE J == I \cup {i}
<1>1. /\ IsFiniteSet(I) /\ Sizes(I) \in [I -> Int] /\ Bytes(I) = Total(Sizes(I))
  BY EntrySizes
<1>2. J \in SUBSET DOMAIN Order
  OBVIOUS
<1>3. Sizes(J) \in [J -> Int] /\ Bytes(J) = Total(Sizes(J))
  BY <1>2, EntrySizes
<1>4. Sizes(J)[i] = EntrySize(Order[i]) /\ \A y \in I : Sizes(J)[y] = Sizes(I)[y]
  BY DEF Sizes
<1> HIDE DEF J
<1>5. J = I \cup {i}
  BY DEF J
<1>6. Total(Sizes(J)) = Total(Sizes(I)) + Sizes(J)[i]
  BY <1>1, <1>3, <1>4, <1>5, TotalMore
<1> QED BY <1>1, <1>3, <1>4, <1>5, <1>6

\* Fewer entries are not larger.
LEMMA BytesLess ==
  ASSUME NEW I \in SUBSET DOMAIN Order, NEW J \in SUBSET I
  PROVE  Bytes(J) <= Bytes(I)
<1>1. /\ IsFiniteSet(I) /\ Sizes(I) \in [I -> Nat] /\ Bytes(I) = Total(Sizes(I))
  BY EntrySizes
<1>2. J \in SUBSET DOMAIN Order
  OBVIOUS
<1>3. Sizes(J) \in [J -> Nat] /\ Bytes(J) = Total(Sizes(J))
  BY <1>2, EntrySizes
<1>4. \A y \in J : Sizes(J)[y] = Sizes(I)[y]
  BY DEF Sizes
<1>5. \A y \in J : Sizes(J)[y] <= Sizes(I)[y]
  BY <1>1, <1>4
<1>6. Total(Sizes(J)) <= Total(Sizes(I))
  BY <1>1, <1>3, <1>5, TotalLess
<1> QED BY <1>1, <1>3, <1>6

\* What is cut off an entry that does not fit fills the room there is.
LEMMA CutFills ==
  ASSUME NEW i \in DOMAIN Order, NEW room \in Nat, room < EntrySize(Order[i])
  PROVE  CutSize(Order[i], room) = room
<1>1. Order[i] \in Name \cup {".", ".."}
  BY KernelAssumption
<1>2. NameLen[Order[i]] \in Nat /\ Hdr \in Nat
  BY <1>1, ListAssumption
<1> QED BY <1>2 DEF CutSize, EntrySize, Lesser

-----------------------------------------------------------------------------

LEMMA PageOfIs ==
  ASSUME NEW r, NEW ans, NEW all, all = After(handle[r.h].file.node, r.off)
  PROVE  PageOf(r, ans) <=> PageIs(ans.page, ans.used, all, r.len)
BY DEF PageOf, PageIs, Fits, Upto, Whole, Rising

\* Nothing is listed yet.
LEMMA ListsNone ==
  ASSUME NEW c, c.out = <<>>, c.buf = {}, c.used = 0, NEW len \in Nat,
         NEW p \in Nat, NEW all \in SUBSET DOMAIN Order, \A i \in all : i > p
  PROVE  Lists(c, all, p, len)
<1>1. Cookies(c.out) = {} /\ DOMAIN c.out = {}
  BY DEF Cookies
<1>2. \A i \in all : i \in Nat
  BY EntrySizes
<1>3. \A i \in all : ~(i <= p)
  BY <1>2
<1>4. Rising(c.out) /\ \A k \in DOMAIN c.out : Whole(c.out[k])
  BY <1>1, Zenon DEF Rising
<1>5. c.used = Bytes(Cookies(c.out)) /\ c.used <= len
  <2>1. Bytes(Cookies(c.out)) = Bytes({})
    BY <1>1, Zenon
  <2> QED BY <2>1, BytesNone
<1>6. \A i \in all : i <= p <=> i \in Cookies(c.out) \cup c.buf
  BY <1>1, <1>3
<1> QED BY <1>1, <1>4, <1>5, <1>6 DEF Lists

\* A batch that is read.
Rest(all, p) == {i \in all : i > p}
BatchOf(rest) == {i \in rest : Cardinality({j \in rest : j < i}) < Batch}

LEMMA BatchHas ==
  ASSUME NEW rest \in SUBSET DOMAIN Order
  PROVE  /\ rest # {} => BatchOf(rest) # {}
         /\ \A i \in BatchOf(rest), j \in rest : j <= i => j \in BatchOf(rest)
<1> DEFINE Below(i) == {j \in rest : j < i}
<1>1. IsFiniteSet(rest) /\ rest \subseteq Nat /\ Batch \in Nat \ {0}
  BY EntrySizes, KernelAssumption
<1>2. ASSUME rest # {} PROVE BatchOf(rest) # {}
  <2>1. Min(rest) \in rest /\ \A y \in rest : Min(rest) <= y
    BY <1>1, <1>2, MinIn
  <2>2. Below(Min(rest)) = {}
    BY <1>1, <2>1
  <2>3. Cardinality(Below(Min(rest))) = 0
    BY <2>2, FS_EmptySet
  <2>4. Cardinality({j \in rest : j < Min(rest)}) < Batch
    BY <1>1, <2>3
  <2> QED BY <2>1, <2>4 DEF BatchOf
<1>3. ASSUME NEW i \in BatchOf(rest), NEW j \in rest, j <= i PROVE j \in BatchOf(rest)
  <2>1. i \in rest /\ Cardinality(Below(i)) < Batch
    BY DEF BatchOf
  <2>2. Below(j) \subseteq Below(i) /\ Below(i) \subseteq rest
    BY <1>1, <1>3, <2>1
  <2>3. IsFiniteSet(Below(i)) /\ IsFiniteSet(Below(j))
    BY <1>1, <2>2, FS_Subset
  <2>4. Cardinality(Below(j)) <= Cardinality(Below(i))
    BY <2>2, <2>3, FS_Subset
  <2>5. Cardinality(Below(j)) \in Nat /\ Cardinality(Below(i)) \in Nat
    BY <2>3, FS_CardinalityType
  <2>6. Cardinality(Below(j)) < Batch
    <3> HIDE DEF Below
    <3> QED BY <1>1, <2>1, <2>4, <2>5
  <2> QED BY <2>6 DEF BatchOf
<1> QED BY <1>2, <1>3

LEMMA ListsBatch ==
  ASSUME NEW all \in SUBSET DOMAIN Order, NEW p \in Nat, NEW len \in Nat, NEW c,
         Lists(c, all, p, len), c.buf = {}, NEW d, d = BatchOf(Rest(all, p)), d # {},
         NEW b, b.buf = d, b.out = c.out, b.used = c.used
  PROVE  Lists(b, all, Max(d), len) /\ Max(d) >= p /\ Max(d) \in Nat
<1> DEFINE rest == Rest(all, p)
<1>1. rest \in SUBSET DOMAIN Order /\ rest \subseteq all /\ \A i \in all : i \in Nat
  BY EntrySizes DEF Rest
<1>2. d \subseteq rest
  BY DEF BatchOf
<1>3. DOMAIN Order = 1 .. Len(Order) /\ Len(Order) \in Nat
  BY KernelAssumption
<1>4. Max(d) \in d /\ \A y \in d : y <= Max(d)
  <2>1. d \subseteq 1 .. Len(Order)
    BY <1>1, <1>2, <1>3
  <2> QED BY <1>3, <2>1, MaxIn
<1>5. \A j \in rest : j <= Max(d) => j \in d
  BY <1>1, <1>4, BatchHas
<1>6. Max(d) \in Nat /\ Max(d) > p /\ \A i \in d : i > p
  BY <1>1, <1>2, <1>4 DEF Rest
<1> DEFINE q == Max(d)
           C == Cookies(c.out)
<1>7. /\ C \subseteq all /\ \A i \in all : i <= p <=> i \in C
  BY DEF Lists
<1> HIDE DEF q, C, rest
<1>8. q \in Nat /\ q > p /\ (\A y \in d : y <= q) /\ (\A j \in rest : j <= q => j \in d)
      /\ \A i \in d : i > p
  BY <1>4, <1>5, <1>6 DEF q
<1>9. \A i \in all : i > p => i \in rest
  BY DEF rest, Rest
<1>10. \A i \in all : i <= q <=> i \in C \cup d
  BY <1>1, <1>2, <1>7, <1>8, <1>9
<1>11. \A i \in C, j \in d : i < j
  BY <1>1, <1>2, <1>7, <1>8
<1>12. b.buf \subseteq all
  BY <1>1, <1>2
<1> QED BY <1>6, <1>10, <1>11, <1>12 DEF Lists, q, C

\* The next entry to pack is i.
NextUp(c, all, p, len, i) ==
    /\ Lists(c, all, p, len) /\ c.buf # {} /\ i = Min(c.buf)
    /\ all \subseteq DOMAIN Order

LEMMA NextHas ==
  ASSUME NEW all, NEW p \in Nat, NEW len \in Nat, NEW c, NEW i, NextUp(c, all, p, len, i)
  PROVE  /\ i \in c.buf /\ i \in all /\ i \in DOMAIN Order /\ i \in Nat /\ i \notin Cookies(c.out)
         /\ Cookies(c.out) \subseteq all /\ \A j \in Cookies(c.out) : j < i
         /\ \A j \in c.buf : i <= j
         /\ c.used \in Nat /\ EntrySize(Order[i]) \in Nat \ {0} /\ c.used = Bytes(Cookies(c.out))
<1> DEFINE C == Cookies(c.out)
<1>1. /\ all \in SUBSET DOMAIN Order /\ C \subseteq all /\ c.buf \subseteq all /\ c.buf # {}
      /\ \A j \in C, k \in c.buf : j < k
      /\ c.used = Bytes(C)
  BY DEF NextUp, Lists
<1>2. \A j \in all : j \in Nat
  BY <1>1, EntrySizes
<1>3. i \in c.buf /\ \A y \in c.buf : i <= y
  <2>1. c.buf \subseteq Nat
    BY <1>1, <1>2
  <2> QED BY <1>1, <2>1, MinIn DEF NextUp
<1>4. \A j \in C : j < i
  BY <1>1, <1>3
<1>5. i \in all /\ i \in DOMAIN Order /\ i \in Nat /\ i \notin C
  BY <1>1, <1>2, <1>3, <1>4
<1>6. C \in SUBSET DOMAIN Order
  BY <1>1
<1>8. Bytes(C) \in Nat
  BY <1>6, EntrySizes
<1>9. EntrySize(Order[i]) \in Nat \ {0}
  BY <1>1, <1>5, EntrySizes
<1> QED BY <1>1, <1>3, <1>4, <1>5, <1>8, <1>9

LEMMA NextBytes ==
  ASSUME NEW all, NEW p \in Nat, NEW len \in Nat, NEW c, NEW i, NextUp(c, all, p, len, i)
  PROVE  Bytes(Cookies(c.out) \cup {i}) = c.used + EntrySize(Order[i])
<1> DEFINE C == Cookies(c.out)
<1>1. C \in SUBSET DOMAIN Order /\ i \in DOMAIN Order /\ i \notin C /\ c.used = Bytes(C)
  BY NextHas DEF NextUp
<1> HIDE DEF C
<1>2. Bytes(C \cup {i}) = Bytes(C) + EntrySize(Order[i])
  BY <1>1, BytesMore
<1> QED BY <1>1, <1>2 DEF C

\* It is packed.
LEMMA CookiesMore ==
  ASSUME NEW s \in Seq(Items), NEW x \in Items
  PROVE  LET T == Append(s, x) IN
         /\ Cookies(T) = Cookies(s) \cup {x.next}
         /\ T \in Seq(Items) /\ Len(T) = Len(s) + 1 /\ T[Len(s) + 1] = x
         /\ \A k \in DOMAIN s : T[k] = s[k]
         /\ DOMAIN s = 1 .. Len(s) /\ DOMAIN T = 1 .. Len(s) + 1 /\ Len(s) \in Nat
<1> DEFINE T == Append(s, x)
<1>1. /\ T \in Seq(Items) /\ Len(T) = Len(s) + 1 /\ T[Len(s) + 1] = x
      /\ \A k \in DOMAIN s : T[k] = s[k]
      /\ DOMAIN s = 1 .. Len(s) /\ DOMAIN T = 1 .. Len(s) + 1 /\ Len(s) \in Nat
  OBVIOUS
<1> HIDE DEF T
<1>2. \A k \in DOMAIN T : k \in DOMAIN s \/ k = Len(s) + 1
  BY <1>1
<1>3. \A k \in DOMAIN s : k \in DOMAIN T
  BY <1>1
<1>4. Len(s) + 1 \in DOMAIN T
  BY <1>1
<1>5. Cookies(T) = Cookies(s) \cup {x.next}
  BY <1>1, <1>2, <1>3, <1>4 DEF Cookies
<1> QED BY <1>1, <1>5 DEF T

\* The cookies still rise when one that is greater is put behind them.
LEMMA RisesMore ==
  ASSUME NEW s \in Seq(Items), NEW x \in Items, Rising(s),
         \A j \in Cookies(s) : j < x.next
  PROVE  Rising(Append(s, x))
<1> DEFINE T == Append(s, x)
<1>1. /\ T[Len(s) + 1] = x /\ \A k \in DOMAIN s : T[k] = s[k]
      /\ DOMAIN s = 1 .. Len(s) /\ DOMAIN T = 1 .. Len(s) + 1 /\ Len(s) \in Nat
  BY CookiesMore
<1> HIDE DEF T
<1> SUFFICES ASSUME NEW k \in DOMAIN T, NEW m \in DOMAIN T, k < m
             PROVE  T[k].next < T[m].next
  BY DEF Rising, T
<1>2. k \in DOMAIN s
  BY <1>1
<1>3. CASE m \in DOMAIN s
  BY <1>1, <1>2, <1>3 DEF Rising
<1>4. CASE m = Len(s) + 1
  <2>1. s[k].next \in Cookies(s)
    BY <1>2 DEF Cookies
  <2> QED BY <1>1, <1>2, <1>4, <2>1
<1> QED BY <1>1, <1>3, <1>4

LEMMA PackedIs ==
  ASSUME NEW i \in DOMAIN Order, i \in Nat, NEW n \in Nat
  PROVE  LET x == Packed(i, n) IN
         /\ x \in Items /\ x.next = i /\ x.bytes = n /\ x.name = Order[i]
<1>1. Order[i] \in Name \cup {".", ".."}
  BY KernelAssumption
<1> QED BY <1>1 DEF Packed, Items

LEMMA ListsMore ==
  ASSUME NEW all, NEW p \in Nat, NEW len \in Nat, NEW c, NEW i, NextUp(c, all, p, len, i),
         c.out \in Seq(Items), c.used + EntrySize(Order[i]) <= len,
         NEW b, b.buf = c.buf \ {i}, b.used = c.used + EntrySize(Order[i]),
         b.out = Append(c.out, Packed(i, EntrySize(Order[i])))
  PROVE  Lists(b, all, p, len)
<1> DEFINE C == Cookies(c.out)
           D == Cookies(b.out)
           esz == EntrySize(Order[i])
           x == Packed(i, esz)
<1>1. /\ i \in c.buf /\ i \in all /\ i \in DOMAIN Order /\ i \in Nat /\ i \notin C
      /\ C \subseteq all /\ (\A j \in C : j < i) /\ (\A j \in c.buf : i <= j)
      /\ Bytes(C \cup {i}) = c.used + esz /\ esz \in Nat \ {0}
  <2>1. Bytes(C \cup {i}) = c.used + esz
    BY NextBytes
  <2>2. esz \in Nat \ {0} /\ i \in all /\ i \in DOMAIN Order /\ i \in Nat /\ i \in c.buf
    BY NextHas, Zenon
  <2>3. /\ i \notin C /\ C \subseteq all /\ (\A j \in C : j < i) /\ (\A j \in c.buf : i <= j)
    BY NextHas
  <2> QED BY <2>1, <2>2, <2>3
<1>2. x \in Items /\ x.next = i /\ x.bytes = esz /\ x.name = Order[i]
  BY <1>1, PackedIs
<1>3. b.out = Append(c.out, x)
  OBVIOUS
<1>4. /\ c.buf \subseteq all /\ \A j \in all : j <= p <=> j \in C \cup c.buf
      /\ \A j \in C, k \in c.buf : j < k
      /\ Rising(c.out) /\ \A k \in DOMAIN c.out : Whole(c.out[k])
      /\ all \in SUBSET DOMAIN Order
  BY DEF NextUp, Lists
<1> HIDE DEF x
<1>5. /\ D = C \cup {i} /\ b.out[Len(c.out) + 1] = x
      /\ \A k \in DOMAIN c.out : b.out[k] = c.out[k]
      /\ DOMAIN c.out = 1 .. Len(c.out) /\ DOMAIN b.out = 1 .. Len(c.out) + 1
      /\ Len(c.out) \in Nat
  BY <1>2, <1>3, CookiesMore
<1>6. Rising(b.out)
  BY <1>1, <1>2, <1>3, <1>4, RisesMore
<1>7. Whole(x)
  BY <1>2 DEF Whole
<1>8. ASSUME NEW k \in DOMAIN b.out PROVE Whole(b.out[k])
  <2>1. k \in DOMAIN c.out \/ k = Len(c.out) + 1
    BY <1>5
  <2> QED BY <1>4, <1>5, <1>7, <2>1
<1>9. b.used = Bytes(D) /\ b.used <= len
  BY <1>1, <1>5
<1> HIDE DEF C, D, esz
<1>10. \A j \in all : j \in Nat
  BY <1>4, EntrySizes
<1>11. D \subseteq all /\ b.buf \subseteq all /\ \A j \in all : j <= p <=> j \in D \cup b.buf
  BY <1>1, <1>4, <1>5
<1>12. \A j \in D, k \in b.buf : j < k
  BY <1>1, <1>4, <1>5, <1>10
<1> QED BY <1>6, <1>8, <1>9, <1>11, <1>12 DEF Lists, D
-----------------------------------------------------------------------------
(* What makes an answer                                                    *)

LEMMA WholeCookies ==
  ASSUME NEW s, \A k \in DOMAIN s : Whole(s[k])
  PROVE  {s[k].next : k \in {m \in DOMAIN s : Whole(s[m])}} = Cookies(s)
BY DEF Cookies

\* The end of the directory.
LEMMA PageEnds ==
  ASSUME NEW all \in SUBSET DOMAIN Order, NEW p \in Nat, NEW len \in Nat, NEW c,
         Lists(c, all, p, len), c.buf = {}, Rest(all, p) = {}
  PROVE  PageIs(c.out, c.used, all, len)
<1> DEFINE C == Cookies(c.out)
<1>1. /\ C \subseteq all /\ (\A i \in all : i <= p <=> i \in C) /\ Rising(c.out)
      /\ (\A k \in DOMAIN c.out : Whole(c.out[k])) /\ c.used = Bytes(C) /\ c.used <= len
  BY DEF Lists
<1>2. \A i \in all : i \in Nat
  BY EntrySizes
<1>3. \A i \in all : ~(i > p)
  BY DEF Rest
<1>4. \A i \in all : i <= p
  BY <1>2, <1>3
<1>5. C = all
  BY <1>1, <1>4
<1>6. Bytes(all) \in Nat /\ Bytes(all) <= len
  BY <1>1, <1>5, EntrySizes
<1>7. ASSUME NEW i \in all PROVE Bytes(Upto(all, i)) <= len
  <2>1. Upto(all, i) \in SUBSET all /\ Upto(all, i) \in SUBSET DOMAIN Order
    BY DEF Upto
  <2>2. Bytes(Upto(all, i)) <= Bytes(all) /\ Bytes(Upto(all, i)) \in Nat
    BY <2>1, BytesLess, EntrySizes
  <2> QED BY <1>6, <2>2
<1>8. Fits(all, len) = all
  BY <1>7 DEF Fits
<1>9. {c.out[k].next : k \in {m \in DOMAIN c.out : Whole(c.out[m])}} = C
  BY <1>1, WholeCookies
<1>10. c.used = Lesser(len, Bytes(all))
  BY <1>1, <1>5, <1>6 DEF Lesser
<1> QED BY <1>1, <1>5, <1>8, <1>9, <1>10 DEF PageIs

\* The next entry does not fit: those that do are those packed.
LEMMA FitsPacked ==
  ASSUME NEW all, NEW p \in Nat, NEW len \in Nat, NEW c, NEW i, NextUp(c, all, p, len, i),
         c.used + EntrySize(Order[i]) > len
  PROVE  Fits(all, len) = Cookies(c.out) /\ Lesser(len, Bytes(all)) = len
<1> DEFINE C == Cookies(c.out)
           esz == EntrySize(Order[i])
<1>1. /\ i \in c.buf /\ i \in all /\ i \in DOMAIN Order /\ i \in Nat /\ i \notin C
      /\ C \subseteq all /\ (\A j \in C : j < i) /\ (\A j \in c.buf : i <= j)
      /\ Bytes(C \cup {i}) = c.used + esz /\ esz \in Nat \ {0} /\ c.used \in Nat
      /\ c.used = Bytes(C)
  <2>1. Bytes(C \cup {i}) = c.used + esz
    BY NextBytes
  <2>5. c.used \in Nat
    BY NextHas
  <2>2. esz \in Nat \ {0} /\ i \in all /\ i \in DOMAIN Order /\ i \in Nat /\ i \in c.buf
    BY NextHas, Zenon
  <2>3. /\ i \notin C /\ C \subseteq all /\ (\A j \in C : j < i) /\ (\A j \in c.buf : i <= j)
    BY NextHas
  <2>4. c.used = Bytes(C)
    BY NextHas
  <2> QED BY <2>1, <2>2, <2>3, <2>4, <2>5
<1>2. /\ all \in SUBSET DOMAIN Order /\ (\A j \in all : j <= p <=> j \in C \cup c.buf)
      /\ c.used <= len /\ c.buf \subseteq all
  BY DEF NextUp, Lists
<1>3. \A j \in all : j \in Nat
  BY <1>2, EntrySizes
<1>4. c.used + esz > len
  OBVIOUS
<1> HIDE DEF C, esz
<1>5. ASSUME NEW j \in C PROVE j \in Fits(all, len)
  <2>1. Upto(all, j) \in SUBSET C
    <3> SUFFICES ASSUME NEW k \in all, k <= j PROVE k \in C
      BY DEF Upto
    <3>1. j \in Nat /\ k \in Nat /\ i \in Nat /\ j < i /\ j <= p
      BY <1>1, <1>2, <1>3
    <3>2. k <= p /\ ~(i <= k)
      BY <3>1
    <3> QED BY <1>1, <1>2, <3>2
  <2>2. Upto(all, j) \in SUBSET DOMAIN Order /\ C \in SUBSET DOMAIN Order
    BY <1>1, <1>2 DEF Upto
  <2>3. Bytes(Upto(all, j)) <= Bytes(C) /\ Bytes(Upto(all, j)) \in Nat
    BY <2>1, <2>2, BytesLess, EntrySizes
  <2>4. Bytes(Upto(all, j)) <= len
    BY <1>1, <1>2, <2>3
  <2> QED BY <1>1, <2>4 DEF Fits
<1>6. ASSUME NEW j \in all, j \notin C PROVE j \notin Fits(all, len)
  <2>1. C \cup {i} \in SUBSET Upto(all, j)
    <3>1. i <= j
      BY <1>1, <1>2, <1>3, <1>6
    <3>2. \A k \in C : k <= j
      BY <1>1, <1>3, <3>1
    <3> QED BY <1>1, <3>1, <3>2 DEF Upto
  <2>2. Upto(all, j) \in SUBSET DOMAIN Order
    BY <1>2 DEF Upto
  <2>3. Bytes(C \cup {i}) <= Bytes(Upto(all, j)) /\ Bytes(Upto(all, j)) \in Nat
    BY <2>1, <2>2, BytesLess, EntrySizes
  <2>4. ~(Bytes(Upto(all, j)) <= len)
    BY <1>1, <1>4, <2>3
  <2> QED BY <2>4 DEF Fits
<1>7. Fits(all, len) = C
  <2>1. Fits(all, len) \subseteq all
    BY DEF Fits
  <2> QED BY <1>1, <1>5, <1>6, <2>1
<1>8. Lesser(len, Bytes(all)) = len
  <2>1. C \cup {i} \in SUBSET all
    BY <1>1
  <2>2. Bytes(C \cup {i}) <= Bytes(all) /\ Bytes(all) \in Nat
    BY <1>2, <2>1, BytesLess, EntrySizes
  <2> QED BY <1>1, <1>4, <2>2 DEF Lesser
<1> QED BY <1>7, <1>8 DEF C

\* There is no room for any of it.
LEMMA PageFull ==
  ASSUME NEW all, NEW p \in Nat, NEW len \in Nat, NEW c, NEW i, NextUp(c, all, p, len, i),
         c.used + EntrySize(Order[i]) > len, ~(c.used < len)
  PROVE  PageIs(c.out, c.used, all, len)
<1>1. Fits(all, len) = Cookies(c.out) /\ Lesser(len, Bytes(all)) = len
  BY FitsPacked
<1>2. c.used \in Nat
  BY NextHas
<1>3. /\ Rising(c.out) /\ (\A k \in DOMAIN c.out : Whole(c.out[k])) /\ c.used <= len
  BY DEF NextUp, Lists
<1>4. {c.out[k].next : k \in {m \in DOMAIN c.out : Whole(c.out[m])}} = Cookies(c.out)
  BY <1>3, WholeCookies
<1>5. c.used = len
  BY <1>2, <1>3
<1> QED BY <1>1, <1>3, <1>4, <1>5 DEF PageIs

\* There is room for a part of it.
LEMMA PageCut ==
  ASSUME NEW all, NEW p \in Nat, NEW len \in Nat, NEW c, NEW i, NextUp(c, all, p, len, i),
         c.out \in Seq(Items), c.used + EntrySize(Order[i]) > len, c.used < len,
         NEW cut, cut = CutSize(Order[i], len - c.used),
         NEW page, page = Append(c.out, Packed(i, cut))
  PROVE  PageIs(page, c.used + cut, all, len)
<1> DEFINE esz == EntrySize(Order[i])
           x == Packed(i, cut)
           C == Cookies(c.out)
<1>1. Fits(all, len) = C /\ Lesser(len, Bytes(all)) = len
  BY FitsPacked
<1>2. /\ i \in DOMAIN Order /\ i \in Nat /\ (\A j \in C : j < i) /\ i \notin C
      /\ esz \in Nat \ {0} /\ c.used \in Nat
  BY NextHas
<1>3. /\ Rising(c.out) /\ \A k \in DOMAIN c.out : Whole(c.out[k])
  BY DEF NextUp, Lists
<1>4. len - c.used \in Nat /\ len - c.used < esz
  BY <1>2
<1>5. cut = len - c.used
  BY <1>2, <1>4, CutFills
<1>6. cut \in Nat /\ cut # esz /\ c.used + cut = len
  BY <1>2, <1>4, <1>5
<1>7. x \in Items /\ x.next = i /\ x.bytes = cut /\ x.name = Order[i]
  BY <1>2, <1>6, PackedIs
<1> HIDE DEF x
<1>8. ~Whole(x)
  BY <1>6, <1>7 DEF Whole
<1>9. page = Append(c.out, x)
  BY DEF x
<1>10. Rising(page)
  BY <1>2, <1>3, <1>7, <1>9, RisesMore
<1>11. /\ page[Len(c.out) + 1] = x /\ \A k \in DOMAIN c.out : page[k] = c.out[k]
       /\ DOMAIN c.out = 1 .. Len(c.out) /\ DOMAIN page = 1 .. Len(c.out) + 1
       /\ Len(c.out) \in Nat
  BY <1>7, <1>9, CookiesMore
<1>12. {m \in DOMAIN page : Whole(page[m])} = DOMAIN c.out
  <2>1. \A m \in DOMAIN page : m \in DOMAIN c.out \/ m = Len(c.out) + 1
    BY <1>11
  <2>2. \A m \in DOMAIN c.out : m \in DOMAIN page /\ Whole(page[m])
    BY <1>3, <1>11
  <2>3. ~Whole(page[Len(c.out) + 1])
    BY <1>8, <1>11
  <2> QED BY <2>1, <2>2, <2>3
<1>13. {page[k].next : k \in {m \in DOMAIN page : Whole(page[m])}} = C
  BY <1>11, <1>12 DEF Cookies
<1> QED BY <1>1, <1>6, <1>10, <1>13 DEF PageIs
-----------------------------------------------------------------------------
(* Calls that are running                                                  *)

\* A call of readdir_nif takes its lock, finds its stream and reads it.
LEMMA ReaderSteps ==
  ASSUME Inv, NEW t \in Thread, ~At(t, "idle"), Req(t).op = "readdir", Step(t)
  PROVE  \/ At(t, "lock") /\ Lock(t)
         \/ At(t, "held") /\ OpenStream(t)
         \/ At(t, "fill") /\ (Getdents(t) \/ EndOfDir(t) \/ ReadFails(t) \/ PackEntry(t))
<1>1. Phase(call[t], Req(t)) /\ call[t] \in CallRec
  BY TypesHave, ReqType DEF Inv
<1>2. call[t].pc \in {"lock", "held", "fill"}
  BY <1>1 DEF Phase, CallRec, Pcs, OpenOps, Based, PathOps, PairOps, Follow, At
<1>3. CASE HandleStep(t)
  BY <1>2, <1>3 DEF HandleStep, At, Begin, Lock, NoBinary, Access, Close, DupHandle, DirDup,
     OpenRoot, Make, NoMemory, AccessOps, PathOps, PairOps, Follow
<1>4. ~WalkStep(t)
  BY <1>2 DEF WalkStep, At, Enter, StepDot, StepUp, StepName, Stepping, StepLink, StepBack,
     OpenDone, ParentDone, Resolve, PathAct, PairAct
<1>5. CASE ListStep(t)
  BY <1>2, <1>5 DEF ListStep, At, OpenStream, NamesDup, Rewind, Getdents, EndOfDir, ReadFails,
     TakeName, PackEntry
<1> QED BY <1>3, <1>4, <1>5 DEF Step
-----------------------------------------------------------------------------
(* The streams of handles                                                  *)

\* What a step of a thread leaves of the handles: the file each is for, and the stream
\* of one that somebody else has locked.
Leaves(t) ==
    /\ \A h \in Handle : handle[h].st # "none" =>
         handle'[h].st # "none" /\ handle'[h].file = handle[h].file
    /\ \A h \in Handle : handle[h].dirp # None /\ handle[h].lock \notin {None, t} =>
         /\ handle'[h].dirp = handle[h].dirp
         /\ fds'[handle[h].dirp] = fds[handle[h].dirp]

LEMMA OtherLeaves ==
  ASSUME Full, Streams, NEW t \in Thread, OtherStep(t)
  PROVE  Streams' /\ Leaves(t)
<1>1. Inv /\ TodoStay(t)
  BY StepTodo DEF Full, OtherStep
<1>2. Went(t) /\ SameHandles
  BY <1>1, PlainWent, WentKeeps
<1>3. \A h \in Handle : \A f \in Holds(h) : fds'[f] = fds[f]
  BY <1>1, <1>2, FdsKept
<1>4. \A h \in Handle : /\ handle[h].dirp # None => fds'[handle[h].dirp] = fds[handle[h].dirp]
                        /\ handle[h].fd # None => fds'[handle[h].fd] = fds[handle[h].fd]
  BY <1>3 DEF Holds
<1> QED BY <1>2, <1>4 DEF Streams, Leaves, SameHandles

LEMMA MakeLeaves ==
  ASSUME Full, Streams, NEW t \in Thread, Make(t)
  PROVE  Streams' /\ Leaves(t)
<1>1. Inv /\ TodoStay(t) /\ handle \in [Handle -> HandleRec]
  BY StepTodo DEF Full, Inv, Types, Step, HandleStep
<1>2. PICK h \in Handle : h = Req(t).to /\ \E y : handle' = [handle EXCEPT ![h] = y]
  BY <1>1, MakeKeeps
<1>3. UNCHANGED kvars /\ handle[h].st = "none"
  BY <1>2 DEF Make
<1>4. handle'[h].dirp = None
  BY <1>1, <1>2 DEF Make, NewHandle
<1>5. \A g \in Handle : g # h => handle'[g] = handle[g]
  BY <1>1, <1>2
<1>6. Unmade
  BY <1>1 DEF Inv
<1> QED BY <1>3, <1>4, <1>5, <1>6 DEF Streams, Leaves, kvars, Unmade, HasNothing

\* A handle is left with nothing.
LEMMA GoneLeaves ==
  ASSUME Full, Streams, NEW h \in Handle, NEW y, handle' = [handle EXCEPT ![h] = y],
         y.dirp = None, fds' = Shut(fds, {handle[h].fd, handle[h].dirp})
  PROVE  /\ Streams' /\ \A g \in Handle : g # h => handle'[g] = handle[g]
         /\ \A g \in Handle : g # h /\ handle[g].dirp # None =>
              fds'[handle[g].dirp] = fds[handle[g].dirp]
         /\ handle'[h] = y
<1>1. Inv /\ Sole /\ handle \in [Handle -> HandleRec] /\ FdsType
  BY TypesHave DEF Full, Inv, Types
<1>2. handle'[h] = y /\ \A g \in Handle : g # h => handle'[g] = handle[g]
  BY <1>1
<1>3. \A f \in Fd : fds'[f] = IF f \in Holds(h) THEN None ELSE fds[f]
  BY KernelAssumption DEF Shut, Holds
<1>4. ASSUME NEW g \in Handle, g # h, NEW f \in Holds(g) PROVE fds'[f] = fds[f]
  <2>1. f \in Fd /\ f \notin Holds(h)
    BY <1>1, <1>4 DEF Sole, IsOpen
  <2> QED BY <1>3, <2>1
<1>5. \A g \in Handle : g # h =>
        /\ handle[g].dirp # None => fds'[handle[g].dirp] = fds[handle[g].dirp]
        /\ handle[g].fd # None => fds'[handle[g].fd] = fds[handle[g].fd]
  BY <1>4 DEF Holds
<1>6. Streams'
  BY <1>2, <1>5 DEF Streams
<1> QED BY <1>2, <1>5, <1>6

LEMMA CloseLeaves ==
  ASSUME Full, Streams, NEW t \in Thread, Close(t)
  PROVE  Streams' /\ Leaves(t)
<1>1. PICK h \in Handle : h = Req(t).h
  BY HeldHas DEF Full, Close
<1> DEFINE y == [handle[h] EXCEPT !.fd = None, !.dirp = None]
<1>2. /\ handle' = [handle EXCEPT ![h] = y] /\ handle[h].lock = None
      /\ fds' = Shut(fds, {handle[h].fd, handle[h].dirp})
  BY <1>1 DEF Close
<1>3. y.dirp = None /\ y.st = handle[h].st /\ y.file = handle[h].file
  BY DEF Full, Inv, Types, HandleRec
<1> HIDE DEF y
<1>4. /\ Streams' /\ \A g \in Handle : g # h => handle'[g] = handle[g]
      /\ \A g \in Handle : g # h /\ handle[g].dirp # None =>
           fds'[handle[g].dirp] = fds[handle[g].dirp]
      /\ handle'[h] = y
  BY <1>2, <1>3, GoneLeaves
<1> QED BY <1>2, <1>3, <1>4 DEF Leaves

LEMMA OpenLeaves ==
  ASSUME Full, Streams, NEW t \in Thread, OpenStream(t)
  PROVE  Streams' /\ Leaves(t)
<1>1. /\ Inv /\ handle \in [Handle -> HandleRec] /\ FdsType /\ At(t, "held") /\ Held(t)
      /\ Req(t).op = "readdir"
  BY TypesHave DEF Full, Knows, Inv, Types, OpenStream
<1>2. /\ \A f \in Fd : fds[f] # None => fds'[f] = fds[f]
      /\ \A h \in Handle : /\ handle'[h].fd = handle[h].fd
                           /\ handle'[h].st = handle[h].st
                           /\ handle'[h].file = handle[h].file
  BY <1>1, StreamKept
<1>3. PICK h \in Handle : h = Req(t).h /\ handle[h].lock = t /\ handle[h].fd = call[t].num
  BY <1>1, HeldHas DEF Held, PairOps
<1>4. /\ \A g \in Handle : g # h => handle'[g] = handle[g]
      /\ \/ handle'[h].dirp = handle[h].dirp
         \/ /\ handle[h].dirp = None /\ handle'[h].dirp = NewFd /\ fds[call[t].num] # None
            /\ FreeFds # {} /\ fds' = Opened(fds, fds[call[t].num])
  BY <1>1, <1>3 DEF OpenStream, Unlocked, HandleRec
<1>5. \A g \in Handle : /\ handle[g].dirp # None => fds'[handle[g].dirp] = fds[handle[g].dirp]
                        /\ handle[g].fd # None => fds'[handle[g].fd] = fds[handle[g].fd]
  BY <1>1, <1>2 DEF Inv, Sole, IsOpen, Holds
<1>6. CASE handle'[h].dirp = handle[h].dirp
  BY <1>2, <1>3, <1>4, <1>5, <1>6 DEF Streams, Leaves
<1>7. CASE /\ handle[h].dirp = None /\ handle'[h].dirp = NewFd /\ fds[call[t].num] # None
           /\ FreeFds # {} /\ fds' = Opened(fds, fds[call[t].num])
  <2>1. call[t].num \in Fd
    BY <1>1, TypesHave, ReqType DEF Inv, Phase, At
  <2>2. NewFd \in Fd
    BY <1>1, <1>7, NewFdFree
  <2>3. fds'[NewFd] = fds[call[t].num]
    BY <1>1, <1>7, <2>2 DEF Opened, FdsType
  <2>4. call[t].num # None /\ fds'[call[t].num] = fds[call[t].num]
    BY <1>2, <1>7, <2>1, KernelAssumption
  <2>5. Streams'
    <3> SUFFICES ASSUME NEW g \in Handle, handle'[g].dirp # None
                 PROVE  handle'[g].fd # None /\ fds'[handle'[g].dirp] = fds'[handle'[g].fd]
      BY DEF Streams
    <3>1. CASE g = h
      BY <1>2, <1>3, <1>7, <2>3, <2>4, <3>1
    <3>2. CASE g # h
      BY <1>4, <1>5, <3>2 DEF Streams
    <3> QED BY <3>1, <3>2
  <2> QED BY <1>2, <1>3, <1>4, <1>5, <1>7, <2>5 DEF Leaves
<1> QED BY <1>4, <1>6, <1>7

LEMMA StepLeaves ==
  ASSUME Full, Streams, NEW t \in Thread, Step(t)
  PROVE  Streams' /\ Leaves(t)
BY OtherLeaves, MakeLeaves, CloseLeaves, OpenLeaves DEF OtherStep
-----------------------------------------------------------------------------
(* What a call of readdir_nif has read                                     *)

LEMMA PagingExact ==
  ASSUME Paging PROVE PageExact
<1> SUFFICES ASSUME NEW t \in calm, At(t, "idle"), last[t] # None, last[t].req.op = "readdir",
                    last[t].ans.e = "ok", last[t].ans.err = "ok"
             PROVE  PageOf(last[t].req, last[t].ans)
  BY DEF PageExact
<1>1. t \in Thread
  BY DEF Paging, Full, Inv, Types
<1>2. PICK r, a, n, all : /\ r = last[t].req /\ a = last[t].ans
                          /\ n = handle[r.h].file.node /\ all = After(n, r.off)
  OBVIOUS
<1>3. PageIs(a.page, a.used, all, r.len)
  BY <1>1, <1>2 DEF Paging, Read, Exact, Paged, Entries
<1> QED BY <1>2, <1>3, PageOfIs

LEMMA AfterStays ==
  ASSUME tree' = tree, NEW n, NEW p PROVE After(n, p)' = After(n, p)
BY DEF After, Linked, Present, Lookup

\* The entries after a cookie.
LEMMA EntriesHas ==
  ASSUME NEW r, NEW n, NEW all, Entries(r, n, all)
  PROVE  all \in SUBSET DOMAIN Order /\ \A i \in all : i > r.off
BY DEF Entries, After, Present

LEMMA EntriesStay ==
  ASSUME tree' = tree, NEW r, handle'[r.h].file = handle[r.h].file,
         NEW n, NEW all, Entries(r, n, all)'
  PROVE  Entries(r, n, all)
BY AfterStays DEF Entries

\* A call that nobody disturbs keeps what it has.
LEMMA OthersRead ==
  ASSUME Paging, NEW u \in Thread, call'[u] = call[u], todo'[u] = todo[u],
         last'[u] = last[u],
         \A h \in Handle : handle[h].st # "none" =>
           handle'[h].st # "none" /\ handle'[h].file = handle[h].file,
         \A h \in Handle : handle[h].dirp # None /\ handle[h].lock = u
                           /\ h \in Named(Req(u)) /\ ~At(u, "idle") =>
           /\ handle'[h].dirp = handle[h].dirp
           /\ fds'[handle[h].dirp] = fds[handle[h].dirp],
         u \in calm' => u \in calm /\ ~Disturbed(u)
  PROVE  Read(u)'
<1>1. Full /\ Inv /\ Fresh(u) /\ Listing(u) /\ Past(u) /\ Exact(u) /\ Knows(u)
  BY DEF Paging, Full, Read
<1>2. Req(u)' = Req(u) /\ \A x : At(u, x)' <=> At(u, x)
  BY DEF Req, At
<1>3. u \in calm' => tree' = tree
  BY DEF Disturbed
<1>4. Fresh(u)'
  BY <1>1, <1>2 DEF Fresh, Reads
<1>5. Past(u)'
  BY <1>1 DEF Past, Paged
<1>6. Exact(u)'
  <2> SUFFICES ASSUME NEW r, NEW a, NEW n, NEW all, u \in calm', At(u, "idle")',
                      Paged(u, r, a)', a.e = "ok", a.err = "ok", Entries(r, n, all)'
               PROVE  PageIs(a.page, a.used, all, r.len)
    BY DEF Exact
  <2>1. Paged(u, r, a)
    BY DEF Paged
  <2>2. handle'[r.h].file = handle[r.h].file
    BY <1>1, <2>1 DEF Past
  <2>3. Entries(r, n, all)
    BY <1>3, <2>2, EntriesStay
  <2> QED BY <1>1, <1>2, <2>1, <2>3 DEF Exact
<1>7. Listing(u)'
  <2> SUFFICES ASSUME NEW r, NEW n, NEW all, NEW p, Reads(u, r)', At(u, "fill")'
               PROVE  /\ handle'[r.h].dirp # None
                      /\ u \in calm' /\ Entries(r, n, all)'
                           /\ p = descs'[fds'[handle'[r.h].dirp]].pos =>
                           p >= r.off /\ Lists(call'[u], all, p, r.len)
    BY DEF Listing
  <2>1. Reads(u, r) /\ At(u, "fill")
    BY <1>2 DEF Reads
  <2>2. r.h \in Handle /\ r.h \in Named(r) /\ handle[r.h].st = "live"
    <3>1. Req(u) \in Request /\ Req(u).op = "readdir" /\ r = Req(u) /\ ~At(u, "idle")
      BY <1>1, <2>1, FillHas DEF Reads
    <3>2. r.h \in Handle
      BY <3>1, RequestAssumption DEF OpenOps
    <3>3. r.h \in Named(r)
      BY <3>2, HandleAssumption DEF Named
    <3> QED BY <1>1, <3>1, <3>2, <3>3 DEF Knows, Live
  <2>3. handle[r.h].dirp # None /\ handle[r.h].lock = u
    BY <1>1, <2>1 DEF Listing, Knows, Held, Reads
  <2>4. /\ handle'[r.h].dirp = handle[r.h].dirp
        /\ fds'[handle[r.h].dirp] = fds[handle[r.h].dirp]
    BY <2>1, <2>2, <2>3 DEF Reads
  <2>5. handle'[r.h].file = handle[r.h].file
    BY <2>2
  <2>6. ASSUME u \in calm', Entries(r, n, all)', p = descs'[fds'[handle'[r.h].dirp]].pos
        PROVE  p >= r.off /\ Lists(call'[u], all, p, r.len)
    <3>1. Entries(r, n, all) /\ u \in calm /\ ~Disturbed(u)
      BY <1>3, <2>5, <2>6, EntriesStay
    <3>2. handle[r.h].dirp \in Holds(r.h)
      BY <2>3 DEF Holds
    <3>3. fds[handle[r.h].dirp] # None
      BY <1>1, <2>2, <3>2 DEF Inv, Sole, IsOpen
    <3>4. Stream(u) = handle[r.h].dirp
      BY <2>1 DEF Stream, Reads
    <3>5. fds[handle[r.h].dirp] \in StreamOf(u)
      BY <2>1, <3>3, <3>4 DEF StreamOf
    <3>6. descs'[fds[handle[r.h].dirp]].pos = descs[fds[handle[r.h].dirp]].pos
      BY <3>1, <3>5 DEF Disturbed
    <3>7. p = descs[fds[handle[r.h].dirp]].pos
      BY <2>4, <2>6, <3>6
    <3> QED BY <1>1, <2>1, <3>1, <3>7 DEF Listing
  <2> QED BY <2>3, <2>4, <2>6
<1> QED BY <1>4, <1>5, <1>6, <1>7 DEF Read
-----------------------------------------------------------------------------
(* A step of the call itself                                               *)

\* A page that is right, if the answer is a page.
Right(t, ans) ==
    \A r, n, all :
      t \in calm' /\ r = Req(t) /\ r.op = "readdir" /\ ans.e = "ok" /\ ans.err = "ok"
        /\ Entries(r, n, all)'
      => PageIs(ans.page, ans.used, all, r.len)

LEMMA AnswerReads ==
  ASSUME Inv, NEW t \in Thread, NEW ans, Return(t, ans), todo[t] # <<>>,
         Req(t).op = "readdir" =>
           Req(t).h \in Handle /\ handle'[Req(t).h].st # "none",
         Right(t, ans)
  PROVE  Read(t)'
<1>1. /\ call'[t] = Idle
      /\ last'[t] = [req |-> Req(t), ans |-> ans, left |-> Len(todo[t]) - 1]
  BY TypesHave, Ends DEF Inv
<1>2. At(t, "idle")'
  BY <1>1 DEF At, Idle
<1>3. last'[t].req = Req(t) /\ last'[t].ans = ans
  BY <1>1
<1>4. Fresh(t)' /\ Listing(t)'
  BY <1>2 DEF Fresh, Listing, Reads
<1>5. Past(t)'
  BY <1>3 DEF Past, Paged
<1>6. Exact(t)'
  BY <1>3 DEF Exact, Paged, Right
<1> QED BY <1>4, <1>5, <1>6 DEF Read

\* An error is not a page.
LEMMA ErrRight ==
  ASSUME NEW t, NEW e, e # "ok" PROVE Right(t, Err(e))
BY DEF Right, Err

\* The handle of a request has been made.
LEMMA HandleThere ==
  ASSUME Full, NEW t \in Thread, Leaves(t), todo[t] # <<>>, Req(t).op = "readdir",
         (Live(t) /\ ~At(t, "idle")) \/ \A h \in Named(Req(t)) : handle[h].st = "live"
  PROVE  /\ Req(t).h \in Handle /\ handle'[Req(t).h].st # "none"
         /\ handle'[Req(t).h].file = handle[Req(t).h].file
         /\ Req(t).len \in Nat /\ Req(t).off \in Nat
<1>1. todo \in [Thread -> Seq(Request)]
  BY DEF Full, Inv, Types, CallsOK
<1>2. Req(t) \in Request
  BY <1>1 DEF Req
<1>3. Req(t).h \in Handle /\ Req(t).len \in Nat /\ Req(t).off \in Nat
  BY <1>2, RequestAssumption DEF OpenOps
<1>4. Req(t).h \in Named(Req(t))
  BY <1>3, HandleAssumption DEF Named
<1>5. handle[Req(t).h].st = "live"
  BY <1>4 DEF Live
<1> QED BY <1>3, <1>5 DEF Leaves

LEMMA BeginReads ==
  ASSUME Paging, NEW t \in Thread, Begin(t), Leaves(t)
  PROVE  Read(t)'
<1>1. /\ Full /\ Inv /\ CallsOK /\ todo[t] # <<>> /\ At(t, "idle") /\ Past(t)
      /\ \A h \in Named(Req(t)) : handle[h].st = "live"
  BY TypesHave DEF Paging, Full, Inv, Begin, Read
<1>2. Req(t).op = "readdir" => Req(t).h \in Handle /\ handle'[Req(t).h].st # "none"
  BY <1>1, HandleThere
<1>3. CASE \E e : e # "ok" /\ Return(t, Err(e))
  BY <1>1, <1>2, <1>3, ErrRight, AnswerReads
<1>4. CASE ~\E e : e # "ok" /\ Return(t, Err(e))
  <2>1. PICK x : x \in {"root", "lock"} /\ Goto(t, x) /\ UNCHANGED <<todo, last>>
    BY <1>4 DEF Begin
  <2>2. call[t] = Idle /\ call \in [Thread -> CallRec]
    BY <1>1 DEF CallsOK, CallOK, StageOK, At
  <2>3. call'[t] = [Idle EXCEPT !.pc = x]
    BY <2>1, <2>2 DEF Goto
  <2>4. /\ call'[t].pc = x /\ call'[t].out = <<>> /\ call'[t].buf = {}
        /\ call'[t].used = 0
    BY <2>3 DEF Idle
  <2>5. ~At(t, "idle")' /\ ~At(t, "fill")'
    BY <2>1, <2>4 DEF At
  <2>6. Fresh(t)' /\ Listing(t)' /\ Exact(t)'
    BY <2>4, <2>5 DEF Fresh, Listing, Exact
  <2>7. Past(t)'
    BY <1>1, <2>1 DEF Past, Paged, Leaves
  <2> QED BY <2>6, <2>7 DEF Read
<1> QED BY <1>3, <1>4

\* Calls of other NIFs.
LEMMA OtherReads ==
  ASSUME Paging, NEW t \in Thread, Step(t), Leaves(t), ~At(t, "idle"),
         Req(t).op # "readdir"
  PROVE  Read(t)'
<1>1. Full /\ Inv /\ todo[t] # <<>> /\ Past(t)
  BY TypesHave, ReqType DEF Paging, Full, Inv, Read
<1>2. CASE \E ans : Return(t, ans)
  <2>1. PICK ans : Return(t, ans)
    BY <1>2
  <2>2. Right(t, ans)
    BY DEF Right
  <2> QED BY <1>1, <2>1, <2>2, AnswerReads
<1>3. CASE Busy(t)
  <2>1. Req(t)' = Req(t) /\ ~At(t, "idle")'
    BY <1>3 DEF Busy, Req, At
  <2>2. Fresh(t)' /\ Listing(t)' /\ Exact(t)'
    BY <2>1 DEF Fresh, Listing, Exact, Reads
  <2>3. Past(t)'
    BY <1>1, <1>3 DEF Past, Paged, Leaves, Busy
  <2> QED BY <2>2, <2>3 DEF Read
<1> QED BY <1>1, <1>2, <1>3, BusyOrEnds

\* What a call of readdir_nif has, whatever it does next.
Reader(t) == /\ Paging /\ t \in Thread /\ Leaves(t) /\ ~At(t, "idle")
             /\ Req(t).op = "readdir" /\ (t \in calm' => t \in calm)

LEMMA ReaderHas ==
  ASSUME NEW t, Reader(t)
  PROVE  /\ t \in Thread /\ Full /\ Inv /\ CallsOK /\ Read(t) /\ todo[t] # <<>>
         /\ call[t] \in CallRec /\ call \in [Thread -> CallRec]
         /\ handle \in [Handle -> HandleRec]
         /\ Req(t).h \in Handle /\ handle'[Req(t).h].st # "none"
         /\ handle'[Req(t).h].file = handle[Req(t).h].file
         /\ Req(t).len \in Nat /\ Req(t).off \in Nat
         /\ FdsType /\ DescType /\ Knows(t)
<1>1. /\ t \in Thread /\ Full /\ Inv /\ CallsOK /\ Read(t) /\ todo[t] # <<>> /\ Knows(t)
      /\ call[t] \in CallRec /\ call \in [Thread -> CallRec] /\ FdsType /\ DescType
      /\ handle \in [Handle -> HandleRec]
  BY TypesHave, ReqType DEF Reader, Paging, Full, Inv, Types, CallsOK
<1>2. Live(t)
  BY <1>1 DEF Knows
<1> QED BY <1>1, <1>2, HandleThere DEF Reader

\* It answers an error.
LEMMA ReaderFails ==
  ASSUME NEW t, Reader(t), NEW e, e # "ok", Return(t, Err(e))
  PROVE  Read(t)'
BY ReaderHas, ErrRight, AnswerReads

LEMMA LockReads ==
  ASSUME NEW t, Reader(t), At(t, "lock"), Lock(t)
  PROVE  Read(t)'
<1>1. /\ t \in Thread /\ call[t] \in CallRec /\ call \in [Thread -> CallRec] /\ Read(t)
  BY ReaderHas
<1>2. CASE handle[Target(t)].fd = None
  <2>1. Return(t, Err("ebadf"))
    BY <1>2 DEF Lock, Fail
  <2> QED BY <2>1, ReaderFails
<1>3. CASE handle[Target(t)].fd # None
  <2>1. /\ call' = [call EXCEPT ![t].pc = "held", ![t].num = handle[Target(t)].fd]
        /\ UNCHANGED <<todo, last>>
    BY <1>3 DEF Lock
  <2>2. /\ call'[t].pc = "held" /\ call'[t].out = call[t].out
        /\ call'[t].buf = call[t].buf /\ call'[t].used = call[t].used
    BY <1>1, <2>1 DEF CallRec
  <2>3. /\ Req(t)' = Req(t) /\ ~At(t, "idle")' /\ ~At(t, "fill")' /\ ~At(t, "fill")
        /\ ~At(t, "idle")
    BY <2>1, <2>2 DEF Req, At
  <2>4. Fresh(t)'
    BY <1>1, <2>2, <2>3 DEF Read, Fresh, Reads
  <2>5. Listing(t)' /\ Exact(t)'
    BY <2>3 DEF Listing, Exact
  <2>6. Past(t)'
    BY <1>1, <2>1 DEF Read, Past, Paged, Leaves, Reader
  <2> QED BY <2>4, <2>5, <2>6 DEF Read
<1> QED BY <1>2, <1>3

\* A call that goes on reading.
LEMMA ReaderGoes ==
  ASSUME NEW t, Reader(t), UNCHANGED <<todo, last, tree>>, call'[t].pc = "fill",
         handle'[Req(t).h].dirp # None,
         ASSUME NEW r, NEW n, NEW all, NEW p, r = Req(t), Entries(r, n, all), t \in calm,
                p = descs'[fds'[handle'[r.h].dirp]].pos
         PROVE  p >= r.off /\ Lists(call'[t], all, p, r.len)
  PROVE  Read(t)'
<1>1. Read(t) /\ handle'[Req(t).h].file = handle[Req(t).h].file
  BY ReaderHas
<1>2. Req(t)' = Req(t) /\ ~At(t, "idle")' /\ At(t, "fill")'
  BY DEF Req, At
<1>3. Fresh(t)' /\ Exact(t)'
  BY <1>2 DEF Fresh, Exact
<1>4. Past(t)'
  BY <1>1 DEF Read, Past, Paged, Leaves, Reader
<1>5. Listing(t)'
  <2> SUFFICES ASSUME NEW r, NEW n, NEW all, NEW p, Reads(t, r)', At(t, "fill")'
               PROVE  /\ handle'[r.h].dirp # None
                      /\ t \in calm' /\ Entries(r, n, all)'
                           /\ p = descs'[fds'[handle'[r.h].dirp]].pos =>
                           p >= r.off /\ Lists(call'[t], all, p, r.len)
    BY DEF Listing
  <2>1. r = Req(t)
    BY <1>2 DEF Reads
  <2>2. handle'[r.h].dirp # None /\ handle'[r.h].file = handle[r.h].file
    BY <1>1, <2>1
  <2>3. ASSUME t \in calm', Entries(r, n, all)', p = descs'[fds'[handle'[r.h].dirp]].pos
        PROVE  p >= r.off /\ Lists(call'[t], all, p, r.len)
    <3>1. Entries(r, n, all) /\ t \in calm
      BY <2>2, <2>3, EntriesStay DEF Reader
    <3> QED BY <2>1, <2>3, <3>1
  <2> QED BY <2>2, <2>3
<1> QED BY <1>3, <1>4, <1>5 DEF Read
-----------------------------------------------------------------------------
\* It has its stream, at the cookie.
LEMMA OpenReads ==
  ASSUME NEW t, Reader(t), OpenStream(t)
  PROVE  Read(t)'
<1> DEFINE r == Req(t)
           h == handle[r.h]
           new == h.dirp = None
           er == CASE ~h.dir -> "enotdir"
                   [] fds[call[t].num] = None -> "ebadf"
                   [] new /\ FreeFds = {} -> "emfile"
                   [] OTHER -> "ok"
           y == [h EXCEPT !.dirp = IF new THEN NewFd ELSE h.dirp]
           d == fds[IF new THEN call[t].num ELSE h.dirp]
<1>1. /\ t \in Thread /\ Full /\ Inv /\ Read(t) /\ call[t] \in CallRec
      /\ call \in [Thread -> CallRec] /\ handle \in [Handle -> HandleRec]
      /\ r.h \in Handle /\ r.len \in Nat /\ r.off \in Nat /\ FdsType /\ DescType
      /\ Knows(t) /\ At(t, "held") /\ r.op = "readdir" /\ ~At(t, "idle") /\ ~At(t, "fill")
  BY ReaderHas DEF OpenStream, Reader, At
<1>2. call[t].num \in Fd /\ tree' = tree
  BY <1>1, TypesHave, ReqType DEF Inv, Phase, At, OpenStream
<1>3. \/ er # "ok" /\ Return(t, Err(er))
      \/ Return(t, Err("enomem"))
      \/ /\ er = "ok"
         /\ fds' = IF new THEN Opened(fds, fds[call[t].num]) ELSE fds
         /\ descs' = Sought(d, r.off)
         /\ handle' = [handle EXCEPT ![r.h] = y]
         /\ Goto(t, "fill") /\ UNCHANGED <<todo, last>>
  BY DEF OpenStream
<1>4. CASE er # "ok" /\ Return(t, Err(er))
  <2> HIDE DEF er
  <2> QED BY <1>4, ReaderFails
<1>5. CASE Return(t, Err("enomem"))
  BY <1>5, ReaderFails
<1>6. CASE /\ er = "ok"
           /\ fds' = IF new THEN Opened(fds, fds[call[t].num]) ELSE fds
           /\ descs' = Sought(d, r.off)
           /\ handle' = [handle EXCEPT ![r.h] = y]
           /\ Goto(t, "fill") /\ UNCHANGED <<todo, last>>
  <2>1. fds[call[t].num] # None /\ (new => FreeFds # {})
    BY <1>6
  <2>2. handle'[r.h] = y /\ y.dirp = IF new THEN NewFd ELSE h.dirp
    BY <1>1, <1>6 DEF HandleRec
  <2>3. new => NewFd \in Fd /\ NewFd # None
    BY <1>1, <2>1, NewFdFree, KernelAssumption
  <2>4. y.dirp # None /\ fds'[y.dirp] = d
    BY <1>1, <1>6, <2>2, <2>3 DEF Opened, FdsType
  <2>5. d \in Fd
    <3>1. CASE new
      BY <1>1, <1>2, <2>1, <3>1 DEF FdsType
    <3>2. CASE ~new
      <4>1. h.dirp \in Holds(r.h)
        BY <3>2 DEF Holds
      <4> QED BY <1>1, <3>2, <4>1 DEF Inv, Sole, IsOpen, FdsType
    <3> QED BY <3>1, <3>2
  <2> HIDE DEF y, d
  <2>6. descs'[d].pos = r.off
    BY <1>1, <1>6, <2>5 DEF Sought, DescType, Desc
  <2>7. call'[t] = [call[t] EXCEPT !.pc = "fill"]
    BY <1>1, <1>6 DEF Goto
  <2>8. /\ call'[t].pc = "fill" /\ call'[t].out = call[t].out
        /\ call'[t].buf = call[t].buf /\ call'[t].used = call[t].used
    BY <1>1, <2>7 DEF CallRec
  <2>9. call[t].out = <<>> /\ call[t].buf = {} /\ call[t].used = 0
    BY <1>1 DEF Read, Fresh, Reads
  <2>10. ASSUME NEW q, NEW n, NEW all, NEW p, q = Req(t), Entries(q, n, all), t \in calm,
                p = descs'[fds'[handle'[q.h].dirp]].pos
         PROVE  p >= q.off /\ Lists(call'[t], all, p, q.len)
    <3>1. p = r.off /\ p \in Nat
      BY <1>1, <2>2, <2>4, <2>6, <2>10
    <3>2. all \in SUBSET DOMAIN Order /\ \A i \in all : i > p
      BY <2>10, <3>1, EntriesHas
    <3> QED BY <1>1, <2>8, <2>9, <2>10, <3>1, <3>2, ListsNone
  <2> QED BY <1>2, <1>6, <2>2, <2>4, <2>8, <2>10, ReaderGoes
<1> QED BY <1>3, <1>4, <1>5, <1>6

\* What a call that reads has, and what the kernel has for it.
LEMMA ReaderLists ==
  ASSUME NEW t, Reader(t), At(t, "fill")
  PROVE  LET h == handle[Req(t).h]
             d == fds[h.dirp]
         IN  /\ h.dirp # None /\ Stream(t) = h.dirp /\ d \in Fd
             /\ \A n, all : t \in calm /\ Entries(Req(t), n, all) =>
                  /\ all \in SUBSET DOMAIN Order /\ descs[d].pos \in Nat
                  /\ Lists(call[t], all, descs[d].pos, Req(t).len)
                  /\ Dents(Stream(t)) = BatchOf(Rest(all, descs[d].pos))
<1> DEFINE r == Req(t)
           h == handle[r.h]
           d == fds[h.dirp]
<1>1. /\ Full /\ Inv /\ Read(t) /\ r.h \in Handle /\ r.off \in Nat /\ FdsType /\ DescType
      /\ r.op = "readdir" /\ ~At(t, "idle") /\ Streams
  BY ReaderHas DEF Reader, Paging
<1>2. Reads(t, r)
  BY <1>1 DEF Reads
<1>3. h.dirp # None
  BY <1>1, <1>2 DEF Read, Listing
<1>4. h.dirp \in Fd /\ d \in Fd
  <2>1. h.dirp \in Holds(r.h)
    BY <1>3 DEF Holds
  <2> QED BY <1>1, <2>1 DEF Inv, Sole, IsOpen, FdsType
<1>5. Stream(t) = h.dirp
  BY <1>1 DEF Stream
<1>6. NodeOf(h.dirp) = h.file.node
  <2>1. h.fd # None /\ fds[h.dirp] = fds[h.fd]
    BY <1>1, <1>3 DEF Streams
  <2>2. h.file = FileOf(h.fd)
    BY <1>1, <2>1 DEF Full, ForFile
  <2> HIDE DEF h
  <2> QED BY <2>1, <2>2 DEF FileOf, NodeOf
<1>7. ASSUME NEW n, NEW all, t \in calm, Entries(r, n, all)
      PROVE  /\ all \in SUBSET DOMAIN Order /\ descs[d].pos \in Nat
             /\ Lists(call[t], all, descs[d].pos, r.len)
             /\ Dents(Stream(t)) = BatchOf(Rest(all, descs[d].pos))
  <2> DEFINE q == descs[d].pos
  <2>1. q \in Nat
    BY <1>1, <1>4 DEF DescType, Desc
  <2>2. q >= r.off /\ Lists(call[t], all, q, r.len)
    BY <1>1, <1>2, <1>7 DEF Read, Listing
  <2>3. all \in SUBSET DOMAIN Order
    BY <1>7, EntriesHas
  <2> HIDE DEF q
  <2>4. all = After(n, r.off) /\ n = NodeOf(h.dirp)
    BY <1>6, <1>7 DEF Entries
  <2>5. Present(n) \subseteq Nat
    BY EntrySizes DEF Present
  <2>6. After(n, q) = Rest(all, q)
    BY <1>1, <2>1, <2>2, <2>4, <2>5 DEF After, Rest
  <2>7. Dents(h.dirp) = BatchOf(After(n, q))
    BY <2>4 DEF Dents, BatchOf, q
  <2> QED BY <1>5, <2>1, <2>2, <2>3, <2>6, <2>7 DEF q
<1> QED BY <1>3, <1>4, <1>5, <1>7

LEMMA GetdentsReads ==
  ASSUME NEW t, Reader(t), Getdents(t)
  PROVE  Read(t)'
<1> DEFINE r == Req(t)
           h == handle[r.h]
           d == fds[h.dirp]
           b == call'[t]
<1>1. PICK dents : dents = Dents(Stream(t))
  OBVIOUS
<1>2. /\ At(t, "fill") /\ call[t].buf = {} /\ dents # {}
      /\ call' = [call EXCEPT ![t].buf = dents]
      /\ descs' = Sought(fds[Stream(t)], Max(dents))
      /\ UNCHANGED <<fds, tree, moved, handle, todo, last>>
  BY <1>1 DEF Getdents
<1>3. /\ t \in Thread /\ call[t] \in CallRec /\ call \in [Thread -> CallRec] /\ DescType
      /\ r.len \in Nat /\ r.off \in Nat
  BY ReaderHas
<1>4. /\ b.pc = "fill" /\ b.buf = dents /\ b.out = call[t].out /\ b.used = call[t].used
  BY <1>2, <1>3 DEF CallRec, At
<1>5. h.dirp # None /\ Stream(t) = h.dirp /\ d \in Fd
  BY <1>2, ReaderLists
<1>6. descs'[d].pos = Max(dents)
  BY <1>2, <1>3, <1>5 DEF Sought, DescType, Desc
<1>7. ASSUME NEW q, NEW n, NEW all, NEW p, q = Req(t), Entries(q, n, all), t \in calm,
             p = descs'[fds'[handle'[q.h].dirp]].pos
      PROVE  p >= q.off /\ Lists(call'[t], all, p, q.len)
  <2>1. PICK o : o = descs[d].pos
    OBVIOUS
  <2>2. /\ all \in SUBSET DOMAIN Order /\ o \in Nat /\ Lists(call[t], all, o, r.len)
        /\ dents = BatchOf(Rest(all, o))
    BY <1>1, <1>2, <1>7, <2>1, ReaderLists
  <2>3. p = Max(dents)
    BY <1>2, <1>6, <1>7
  <2>4. Lists(b, all, p, r.len) /\ p >= o /\ p \in Nat
    <3> HIDE DEF r, b
    <3> QED BY <1>2, <1>3, <1>4, <2>2, <2>3, ListsBatch
  <2>5. o >= r.off
    <3>1. Reads(t, r) /\ Read(t)
      BY ReaderHas DEF Reads, Reader
    <3> QED BY <1>2, <1>7, <2>1, <3>1 DEF Read, Listing
  <2> QED BY <1>3, <1>7, <2>2, <2>4, <2>5
<1> QED BY <1>2, <1>4, <1>5, <1>7, ReaderGoes

\* It answers the page it has.
LEMMA ReaderAnswers ==
  ASSUME NEW t, Reader(t), At(t, "fill"), NEW out, NEW used, Finish(t, out, used, "ok"),
         tree' = tree,
         ASSUME NEW n, NEW all, Entries(Req(t), n, all), t \in calm
         PROVE  PageIs(out, used, all, Req(t).len)
  PROVE  Read(t)'
<1>1. /\ t \in Thread /\ Inv /\ todo[t] # <<>> /\ Req(t).h \in Handle
      /\ handle'[Req(t).h].st # "none" /\ handle'[Req(t).h].file = handle[Req(t).h].file
  BY ReaderHas
<1>2. PICK ans : ans = [e |-> "ok", page |-> out, err |-> "ok", used |-> used]
  OBVIOUS
<1>3. Return(t, ans)
  BY <1>2 DEF Finish, Reader
<1>4. Right(t, ans)
  <2> SUFFICES ASSUME NEW q, NEW n, NEW all, t \in calm', q = Req(t), Entries(q, n, all)'
               PROVE  PageIs(ans.page, ans.used, all, q.len)
    BY DEF Right
  <2>1. handle'[q.h].file = handle[q.h].file
    BY <1>1
  <2>2. Entries(q, n, all)
    BY <2>1, EntriesStay
  <2> QED BY <1>2, <2>1, <2>2 DEF Reader
<1> QED BY <1>1, <1>3, <1>4, AnswerReads

LEMMA EndReads ==
  ASSUME NEW t, Reader(t), EndOfDir(t) \/ ReadFails(t)
  PROVE  Read(t)'
<1>1. At(t, "fill") /\ tree' = tree /\ call[t].buf = {}
  BY DEF EndOfDir, ReadFails
<1>2. /\ t \in Thread /\ Inv /\ todo[t] # <<>> /\ Req(t).h \in Handle
      /\ handle'[Req(t).h].st # "none" /\ Req(t).len \in Nat
  BY ReaderHas
<1>3. CASE EndOfDir(t)
  <2>1. Finish(t, call[t].out, call[t].used, "ok") /\ Dents(Stream(t)) = {}
    BY <1>3 DEF EndOfDir
  <2>2. ASSUME NEW n, NEW all, Entries(Req(t), n, all), t \in calm
        PROVE  PageIs(call[t].out, call[t].used, all, Req(t).len)
    <3>1. PICK p : p = descs[fds[handle[Req(t).h].dirp]].pos
      OBVIOUS
    <3>2. /\ all \in SUBSET DOMAIN Order /\ p \in Nat /\ Lists(call[t], all, p, Req(t).len)
          /\ BatchOf(Rest(all, p)) = {}
      BY <1>1, <2>1, <2>2, <3>1, ReaderLists
    <3>3. Rest(all, p) \in SUBSET DOMAIN Order
      BY <3>2 DEF Rest
    <3>4. Rest(all, p) = {}
      BY <3>2, <3>3, BatchHas
    <3> QED BY <1>1, <1>2, <3>2, <3>4, PageEnds
  <2> QED BY <1>1, <2>1, <2>2, ReaderAnswers
<1>4. CASE ReadFails(t)
  <2>1. PICK ans : /\ Return(t, ans)
                   /\ ans = IF call[t].used = 0 THEN Err("eio")
                            ELSE [e |-> "ok", page |-> call[t].out, err |-> "eio",
                                  used |-> call[t].used]
    BY <1>4 DEF ReadFails, Finish, Reader
  <2>2. Right(t, ans)
    BY <2>1 DEF Right, Err
  <2> QED BY <1>2, <2>1, <2>2, AnswerReads
<1> QED BY <1>3, <1>4

LEMMA PackReads ==
  ASSUME NEW t, Reader(t), PackEntry(t)
  PROVE  Read(t)'
<1> DEFINE r == Req(t)
           e == call[t]
           cut == CutSize(Order[Min(e.buf)], r.len - e.used)
<1>1. PICK i : i = Min(e.buf)
  OBVIOUS
<1> DEFINE esz == EntrySize(Order[i])
<1>2. /\ At(t, "fill") /\ e.buf # {} /\ UNCHANGED <<descs, tree, moved>>
  BY DEF PackEntry
<1>3. /\ t \in Thread /\ Inv /\ e \in CallRec /\ call \in [Thread -> CallRec]
      /\ r.len \in Nat /\ r.off \in Nat /\ e.used \in Nat /\ e.out \in Seq(Items)
      /\ e.buf \in SUBSET DOMAIN Order
  BY ReaderHas DEF CallRec
<1>4. esz \in Nat
  BY <1>1, <1>2, <1>3, BufHas
<1>5. PICK p : p = descs[fds[handle[r.h].dirp]].pos
  OBVIOUS
<1>6. ASSUME NEW n, NEW all, Entries(r, n, all), t \in calm
      PROVE  p \in Nat /\ NextUp(e, all, p, r.len, i)
  BY <1>1, <1>2, <1>5, <1>6, ReaderLists DEF NextUp
<1>7. CASE e.used + esz <= r.len
  <2> DEFINE k == Min(e.buf)
             z == EntrySize(Order[k])
             s == Append(e.out, Packed(k, z))
             c == [e EXCEPT !.buf = e.buf \ {k}, !.used = e.used + z, !.out = s]
  <2>0. i = k
    BY <1>1
  <2>5. e.used + z <= r.len /\ ~(e.used + z > r.len)
    <3>1. z = esz
      BY <2>0
    <3> HIDE DEF z, esz
    <3> QED BY <1>3, <1>4, <1>7, <3>1
  <2>1. call' = [call EXCEPT ![t] = c] /\ UNCHANGED <<fds, handle, todo, last>>
    BY <2>5 DEF PackEntry
  <2>2. /\ call'[t].pc = "fill" /\ call'[t].buf = e.buf \ {i} /\ call'[t].used = e.used + esz
        /\ call'[t].out = Append(e.out, Packed(i, esz))
    <3>1. z = esz /\ s = Append(e.out, Packed(i, esz))
      BY <2>0
    <3> HIDE DEF z, s, k, esz
    <3>2. call'[t] = c
      BY <1>3, <2>1
    <3>3. /\ c.pc = e.pc /\ c.buf = e.buf \ {k} /\ c.used = e.used + z /\ c.out = s
      BY <1>3 DEF CallRec
    <3> QED BY <1>2, <2>0, <3>1, <3>2, <3>3 DEF At
  <2>3. handle'[r.h].dirp # None
    BY <1>2, <2>1, ReaderLists
  <2>4. ASSUME NEW q, NEW n, NEW all, NEW o, q = Req(t), Entries(q, n, all), t \in calm,
               o = descs'[fds'[handle'[q.h].dirp]].pos
        PROVE  o >= q.off /\ Lists(call'[t], all, o, q.len)
    <3>1. o = p
      BY <1>2, <1>5, <2>1, <2>4
    <3>2. p \in Nat /\ NextUp(e, all, p, r.len, i)
      BY <1>6, <2>4
    <3>3. Lists(call'[t], all, p, r.len)
      <4> HIDE DEF e, r
      <4> QED BY <1>3, <1>7, <2>2, <3>2, ListsMore
    <3>4. p >= r.off
      <4>1. Reads(t, r) /\ Read(t)
        BY ReaderHas DEF Reads, Reader
      <4> QED BY <1>2, <1>5, <2>4, <4>1 DEF Read, Listing
    <3> QED BY <2>4, <3>1, <3>3, <3>4
  <2> QED BY <1>2, <2>1, <2>2, <2>3, <2>4, ReaderGoes
<1>8. CASE e.used + esz > r.len /\ e.used < r.len
  <2>1. PICK k : k = CutSize(Order[i], r.len - e.used)
    OBVIOUS
  <2>2. PICK page : page = Append(e.out, Packed(i, k))
    OBVIOUS
  <2>3. Finish(t, page, e.used + k, "ok")
    <3>1. ~(e.used + esz <= r.len)
      BY <1>3, <1>4, <1>8
    <3> QED BY <1>1, <1>8, <2>1, <2>2, <3>1 DEF PackEntry
  <2>4. ASSUME NEW n, NEW all, Entries(r, n, all), t \in calm
        PROVE  PageIs(page, e.used + k, all, r.len)
    <3>1. p \in Nat /\ NextUp(e, all, p, r.len, i)
      BY <1>6, <2>4
    <3> HIDE DEF e, r
    <3> QED BY <1>3, <1>8, <2>1, <2>2, <3>1, PageCut
  <2> QED BY <1>2, <2>3, <2>4, ReaderAnswers
<1>9. CASE e.used + esz > r.len /\ ~(e.used < r.len)
  <2>1. Finish(t, e.out, e.used, "ok")
    <3>1. ~(e.used + esz <= r.len)
      BY <1>3, <1>4, <1>9
    <3> QED BY <1>1, <1>9, <3>1 DEF PackEntry
  <2>2. ASSUME NEW n, NEW all, Entries(r, n, all), t \in calm
        PROVE  PageIs(e.out, e.used, all, r.len)
    <3>1. p \in Nat /\ NextUp(e, all, p, r.len, i)
      BY <1>6, <2>2
    <3> HIDE DEF e, r
    <3> QED BY <1>3, <1>9, <3>1, PageFull
  <2> QED BY <1>2, <2>1, <2>2, ReaderAnswers
<1>10. e.used + esz <= r.len \/ e.used + esz > r.len
  <2> HIDE DEF esz
  <2> QED BY <1>3, <1>4
<1> QED BY <1>7, <1>8, <1>9, <1>10

LEMMA ReadsOn ==
  ASSUME NEW t, Reader(t), Step(t)
  PROVE  Read(t)'
BY ReaderHas, ReaderSteps, LockReads, OpenReads, GetdentsReads, EndReads, PackReads DEF Reader
-----------------------------------------------------------------------------
(* Steps of any thread, and of nobody's                                    *)

\* What a step of a thread leaves of the last answers.
LEMMA LastStays ==
  ASSUME Inv, NEW t \in Thread, Step(t)
  PROVE  \A u \in Thread : u # t => last'[u] = last[u]
BY StepEnds, TypesHave, Ends DEF Inv

LEMMA ThreadReads ==
  ASSUME Paging, NEW t \in Thread, ThreadStep(t)
  PROVE  Streams' /\ \A u \in Thread : Read(u)'
<1>1. /\ Full /\ Inv /\ Streams /\ Step(t)
      /\ calm' = {u \in calm \ {t} : ~Disturbed(u)}
                 \cup IF At(t, "idle") \/ t \in calm THEN {t} ELSE {}
  BY DEF Paging, Full, ThreadStep
<1>2. Streams' /\ Leaves(t)
  BY <1>1, StepLeaves
<1>3. ASSUME NEW u \in Thread, u # t PROVE Read(u)'
  <2>1. call'[u] = call[u] /\ todo'[u] = todo[u] /\ last'[u] = last[u]
    <3>1. todo'[u] = todo[u]
      BY <1>1, <1>3, StepTodo DEF TodoStay
    <3>2. last'[u] = last[u]
      BY <1>1, <1>3, LastStays
    <3>3. call'[u] = call[u]
      BY <1>1, <1>3, OthersAlone
    <3> QED BY <3>1, <3>2, <3>3
  <2>2. u \in calm' => u \in calm /\ ~Disturbed(u)
    BY <1>1, <1>3
  <2>3. u # None
    BY HandleAssumption
  <2>4. /\ \A h \in Handle : handle[h].st # "none" =>
             handle'[h].st # "none" /\ handle'[h].file = handle[h].file
        /\ \A h \in Handle : handle[h].dirp # None /\ handle[h].lock = u
                             /\ h \in Named(Req(u)) /\ ~At(u, "idle") =>
             /\ handle'[h].dirp = handle[h].dirp
             /\ fds'[handle[h].dirp] = fds[handle[h].dirp]
    BY <1>2, <1>3, <2>3 DEF Leaves
  <2> QED BY <2>1, <2>2, <2>4, OthersRead
<1>4. Read(t)'
  <2>1. CASE At(t, "idle")
    <3>1. Begin(t)
      BY <1>1, <2>1 DEF At, Step, HandleStep, WalkStep, ListStep, Lock, NoBinary, Access,
           Close, DupHandle, DirDup, OpenRoot, Make, NoMemory, Enter, StepDot, StepUp,
           StepName, Stepping, StepLink, StepBack, OpenDone, ParentDone, Resolve, PathAct,
           PairAct, OpenStream, NamesDup, Rewind, Getdents, EndOfDir, ReadFails, TakeName,
           PackEntry
    <3> QED BY <1>2, <3>1, BeginReads
  <2>2. CASE ~At(t, "idle") /\ Req(t).op # "readdir"
    BY <1>1, <1>2, <2>2, OtherReads
  <2>3. CASE ~At(t, "idle") /\ Req(t).op = "readdir"
    <3>1. t \in calm' => t \in calm
      BY <1>1, <2>3
    <3> QED BY <1>1, <1>2, <2>3, <3>1, ReadsOn DEF Reader
  <2> QED BY <2>1, <2>2, <2>3
<1> QED BY <1>2, <1>3, <1>4

LEMMA GcReads ==
  ASSUME Paging, NEW h \in Handle, Gc(h), calm' = {u \in calm : ~Disturbed(u)}
  PROVE  Streams' /\ \A u \in Thread : Read(u)'
<1> DEFINE y == [handle[h] EXCEPT !.st = "gone", !.fd = None, !.dirp = None]
<1>1. /\ Full /\ Inv /\ Streams /\ CallsOK /\ handle \in [Handle -> HandleRec]
  BY TypesHave DEF Paging, Full, Inv, Types
<1>2. /\ handle' = [handle EXCEPT ![h] = y] /\ UNCHANGED <<call, todo, last>>
      /\ fds' = Shut(fds, {handle[h].fd, handle[h].dirp})
      /\ \A t \in Thread : \A i \in DOMAIN todo[t] : h \notin Named(todo[t][i])
  BY DEF Gc
<1>3. y.dirp = None /\ y.st = "gone" /\ y.file = handle[h].file
  BY <1>1 DEF HandleRec
<1> HIDE DEF y
<1>4. /\ Streams' /\ \A g \in Handle : g # h => handle'[g] = handle[g]
      /\ \A g \in Handle : g # h /\ handle[g].dirp # None =>
           fds'[handle[g].dirp] = fds[handle[g].dirp]
      /\ handle'[h] = y
  BY <1>1, <1>2, <1>3, GoneLeaves
<1>5. ASSUME NEW u \in Thread PROVE Read(u)'
  <2>1. ~At(u, "idle") => h \notin Named(Req(u))
    BY <1>1, GcUnnamed
  <2>2. \A g \in Handle : handle[g].st # "none" =>
          handle'[g].st # "none" /\ handle'[g].file = handle[g].file
    BY <1>3, <1>4
  <2>3. \A g \in Handle : handle[g].dirp # None /\ handle[g].lock = u
                          /\ g \in Named(Req(u)) /\ ~At(u, "idle") =>
          /\ handle'[g].dirp = handle[g].dirp
          /\ fds'[handle[g].dirp] = fds[handle[g].dirp]
    BY <1>4, <2>1
  <2> QED BY <1>2, <2>2, <2>3, OthersRead
<1> QED BY <1>4, <1>5

\* Nothing but the tree changes.
LEMMA StillReads ==
  ASSUME Paging, UNCHANGED <<fds, handle, call, todo, last>>,
         \A u \in Thread : u \in calm' => u \in calm /\ ~Disturbed(u)
  PROVE  Streams' /\ \A u \in Thread : Read(u)'
<1>1. Streams'
  BY DEF Paging, Streams
<1>2. ASSUME NEW u \in Thread PROVE Read(u)'
  BY OthersRead
<1> QED BY <1>1, <1>2

LEMMA InitPaging ==
  ASSUME Init PROVE Paging
<1>1. /\ handle = [h \in Handle |-> NewHandle] /\ call = [t \in Thread |-> Idle]
      /\ last = [t \in Thread |-> None]
  BY DEF Init, HandleInit
<1>2. Streams
  BY <1>1 DEF Streams, NewHandle
<1>3. ASSUME NEW t \in Thread PROVE Read(t)
  <2>1. At(t, "idle") /\ last[t] = None
    BY <1>1 DEF At, Idle
  <2> QED BY <2>1 DEF Read, Fresh, Listing, Past, Exact, Reads, Paged
<1> QED BY <1>2, <1>3, InitFull DEF Paging

LEMMA NextPaging ==
  ASSUME Paging, [Next]_vars PROVE Paging'
<1>1. Full /\ Full'
  BY NextFull DEF Paging
<1>2. CASE \E t \in Thread : ThreadStep(t)
  BY <1>1, <1>2, ThreadReads DEF Paging
<1>3. CASE Elsewhere
  <2>1. calm' = {u \in calm : ~Disturbed(u)}
    BY <1>3 DEF Elsewhere
  <2>2. ASSUME NEW s \in Swaps, Swap(s) PROVE Paging'
    <3>1. UNCHANGED <<fds, handle, call, todo, last>>
      BY <2>2 DEF Swap, hvars
    <3> QED BY <1>1, <2>1, <3>1, StillReads DEF Paging
  <2>3. ASSUME NEW h \in Handle, Gc(h) PROVE Paging'
    BY <1>1, <2>1, <2>3, GcReads DEF Paging
  <2> QED BY <1>3, <2>2, <2>3 DEF Elsewhere
<1>4. CASE UNCHANGED vars
  <2>1. UNCHANGED <<fds, descs, tree, handle, call, todo, last, calm>>
    BY <1>4 DEF vars, kvars, hvars
  <2>2. \A u \in Thread : ~Disturbed(u)
    BY <2>1 DEF Disturbed
  <2> QED BY <1>1, <2>1, <2>2, StillReads DEF Paging
<1> QED BY <1>2, <1>3, <1>4 DEF Next

\* A call of readdir_nif that nobody disturbs answers the entries after its cookie, in
\* order, as many as fit, and as much of the next one as there is room for, whatever the
\* batches in which the kernel hands them out.
THEOREM PagesExact == Spec => []PageExact
<1>1. Init => Paging
  BY InitPaging
<1>2. Paging /\ [Next]_vars => Paging'
  BY NextPaging
<1>3. Paging => PageExact
  BY PagingExact
<1> QED BY <1>1, <1>2, <1>3, PTL DEF Spec
=============================================================================
