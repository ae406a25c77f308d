----------------------------- MODULE FileNifInv -----------------------------
(***************************************************************************)
(* The inductive invariants of wasi_file_nif.c.  Full holds of every call  *)
(* with every request; Safe holds while no call follows a last link;       *)
(* Paging adds to Full what a call that reads a directory has.             *)
(***************************************************************************)
EXTENDS FileNif
-----------------------------------------------------------------------------
(* Where a call can be, and what it then has                               *)

Parents == [fd : Fd, own : BOOLEAN, name : Comp \cup {None}]
Pcs == {"idle", "root", "lock", "held", "enter", "walk", "link", "final", "act", "made",
        "rewind", "fill"}
Items == Name \cup {".", ".."}
           \cup [name : Name \cup {".", ".."}, next : Nat, bytes : Nat]

CallRec == [pc : Pcs, base : Seq(Fd), path : Seq(Comp), walk : Seq(Frame),
            got : Seq(Parents), hop : 0 .. MaxLinks, num : Fd \cup {None},
            fd : Fd \cup {None}, buf : SUBSET DOMAIN Order, out : Seq(Items), used : Nat,
            err : {"ok", "eloop", "enotdir", "enxio"}]

\* A frame that has not moved yet owns nothing and has somewhere to go; the frame of
\* walk_parent is the first and never takes its last component; each link inside
\* another leaves one less to follow.
FramesOK(c, r) ==
    /\ \A i \in 1 .. Len(c.walk) :
         /\ c.walk[i].own \/ c.walk[i].rest # <<>>
         /\ c.walk[i].par <=> i = 1 /\ r.op # "open_at"
         /\ c.walk[i].par => c.walk[i].rest # <<>>
         /\ c.walk[i].bud = MaxLinks + 1 - i
    /\ \A i \in 1 .. Len(c.walk) : i < Len(c.walk) \/ c.pc = "link" =>
         c.walk[i].rest # <<>> /\ (c.walk[i].par => Tail(c.walk[i].rest) # <<>>)

Bare(c) == c.walk = <<>> /\ c.got = <<>> /\ c.fd = None /\ c.hop = 0
Based(c, r) == /\ Len(c.base) = IF r.op \in PairOps THEN 2 ELSE 1
               /\ r.op \in {"open_at"} \cup PathOps \cup PairOps
               /\ c.fd = None
Found(c, r) == \/ c.got = <<>> /\ c.hop = 0
               \/ r.op \in PairOps /\ Len(c.got) = 1 /\ c.hop = 0
               \/ r.op \in Follow /\ Len(c.got) = 1 /\ c.hop > 0

Phase(c, r) ==
    /\ c.pc = "root" => Bare(c) /\ c.base = <<>> /\ r.op \in OpenOps
    /\ c.pc \in {"lock", "held"} =>
         /\ Bare(c) /\ r.h \in Handle /\ r.op # "open_dir"
         /\ c.base = <<>> \/ (r.op \in PairOps /\ Len(c.base) = 1)
    /\ c.pc = "held" => c.num \in Fd /\ r.op # "close"
    /\ c.pc = "enter" => c.walk = <<>> /\ Based(c, r) /\ Found(c, r)
    /\ c.pc \in {"walk", "link"} =>
         c.walk # <<>> /\ Based(c, r) /\ Found(c, r) /\ FramesOK(c, r)
    /\ c.pc = "link" => c.walk[Len(c.walk)].bud > 0
    /\ c.pc = "final" =>
         c.walk = <<>> /\ Based(c, r) /\ Len(c.got) = 1 /\ r.op \in Follow
    /\ c.pc = "act" =>
         /\ c.walk = <<>> /\ Based(c, r) /\ r.op # "open_at"
         /\ Len(c.got) = IF r.op \in PairOps THEN 2 ELSE 1
    /\ c.pc = "made" =>
         /\ c.base = <<>> /\ c.walk = <<>> /\ c.got = <<>> /\ c.fd \in Fd
         /\ r.op \in OpenOps \cup {"dup"}
    /\ c.pc = "rewind" => Bare(c) /\ Len(c.base) = 1 /\ r.op = "names"
    /\ c.pc = "fill" =>
         /\ Bare(c)
         /\ \/ r.op = "names" /\ Len(c.base) = 1
            \/ r.op = "readdir" /\ c.base = <<>>

\* The numbers that a call has open, each in one of its places.
Bases(b) == {b[i] : i \in 1 .. Len(b)}
Walked(w) == {w[i].cur : i \in {j \in 1 .. Len(w) : w[j].own}}
Gotten(g) == {g[i].fd : i \in {j \in 1 .. Len(g) : g[j].own}}
Mine(c) == Bases(c.base) \cup Walked(c.walk) \cup Gotten(c.got) \cup ({c.fd} \ {None})

BasesApart(b) == \A i, j \in 1 .. Len(b) : b[i] = b[j] => i = j
WalkApart(w) ==
    \A i, j \in 1 .. Len(w) : w[i].own /\ w[j].own /\ w[i].cur = w[j].cur => i = j
GotApart(g) ==
    \A i, j \in 1 .. Len(g) : g[i].own /\ g[j].own /\ g[i].fd = g[j].fd => i = j
Apart(c) ==
    /\ BasesApart(c.base) /\ WalkApart(c.walk) /\ GotApart(c.got)
    /\ Bases(c.base) \cap Walked(c.walk) = {}
    /\ Bases(c.base) \cap Gotten(c.got) = {}
    /\ Walked(c.walk) \cap Gotten(c.got) = {}
    /\ c.fd \notin Bases(c.base) \cup Walked(c.walk) \cup Gotten(c.got)

StageOK(c, q) ==
    /\ c.pc = "idle" => c = Idle
    /\ c.pc # "idle" => q # <<>> /\ Phase(c, Head(q)) /\ ~BadArgs(Head(q))

CallOK(c, q) == c \in CallRec /\ Len(c.base) <= 2 /\ Apart(c) /\ StageOK(c, q)

CallsOK ==
    /\ call \in [Thread -> CallRec]
    /\ last = [t \in Thread |-> last[t]]
    /\ todo \in [Thread -> Seq(Request)]
    /\ \A t \in Thread : /\ CallOK(call[t], todo[t])
                         /\ last[t] # None => last[t].left = Len(todo[t])

HandleRec == [st : {"none", "live", "gone"}, fd : Fd \cup {None}, dir : BOOLEAN,
              dirp : Fd \cup {None}, lock : Thread \cup {None},
              file : [node : Node, mode : SUBSET {"rd", "wr"}] \cup {None}]

Types == KernelTypeOK /\ handle \in [Handle -> HandleRec] /\ CallsOK
           /\ swapped \subseteq Swaps /\ calm \subseteq Thread

\* Every number that is open has one owner, and no number that is closed has any.
Holds(h) == {handle[h].fd, handle[h].dirp} \ {None}
IsOpen(f) == f \in Fd /\ fds[f] # None
Sole ==
    /\ \A t \in Thread : \A f \in Mine(call[t]) : IsOpen(f)
    /\ \A h \in Handle : \A f \in Holds(h) : IsOpen(f)
    /\ \A t, u \in Thread : t # u => Mine(call[t]) \cap Mine(call[u]) = {}
    /\ \A g, h \in Handle : g # h => Holds(g) \cap Holds(h) = {}
    /\ \A h \in Handle : handle[h].fd = handle[h].dirp => handle[h].fd = None
    /\ \A t \in Thread, h \in Handle : Mine(call[t]) \cap Holds(h) = {}
    /\ \A f \in Fd : fds[f] # None =>
         \/ \E t \in Thread : f \in Mine(call[t])
         \/ \E h \in Handle : f \in Holds(h)

\* A handle that is to be made has nothing.
HasNothing(x) ==
    x.fd = None /\ x.dirp = None /\ x.dir = FALSE /\ x.lock = None /\ x.file = None
Unmade == \A h \in Handle : handle[h].st = "none" => HasNothing(handle[h])

Inv == Types /\ Sole /\ Unmade
-----------------------------------------------------------------------------
(* Handles are for files: what a thread knows of a handle while it has it  *)
(* locked, and what a handle and the duplicate of one stand for            *)

FileOf(f) == [node |-> NodeOf(f), mode |-> descs[fds[f]].mode]

Held(t) ==
    /\ At(t, "held") => /\ handle[Target(t)].lock = t
                        /\ handle[Target(t)].fd = call[t].num
    /\ At(t, "fill") /\ Req(t).op = "readdir" => handle[Req(t).h].lock = t
Copied(t) ==
    At(t, "made") /\ Req(t).op = "dup" => handle[Req(t).h].file = FileOf(call[t].fd)
Live(t) == ~At(t, "idle") => \A h \in Named(Req(t)) : handle[h].st = "live"
ForFile ==
    \A h \in Handle : handle[h].fd # None => handle[h].file = FileOf(handle[h].fd)

Knows(t) == Held(t) /\ Copied(t) /\ Live(t)
Full == Inv /\ (\A t \in Thread : Knows(t)) /\ ForFile
-----------------------------------------------------------------------------
(* Where a call is below the directories it was given                      *)

\* s climbs from a to b in k steps.
Climbs(T, s, a, b, k) ==
    /\ s \in [0 .. k -> Node] /\ s[0] = a /\ s[k] = b
    /\ \A i \in 0 .. k - 1 : s[i + 1] = T[s[i]].up
Above(T, b, a, k) == \E s : Climbs(T, s, a, b, k)

\* The places of a call are among the numbers it has, and a frame that has not
\* moved is where a frame before it is, or at the start.
Shape(c) ==
    /\ \A i \in 1 .. Len(c.walk) :
         \/ c.walk[i].cur \in Bases(c.base)
         \/ \E j \in 1 .. i : c.walk[j].own /\ c.walk[j].cur = c.walk[i].cur
    /\ \A i \in 1 .. Len(c.got) :
         /\ c.got[i].own \/ c.got[i].fd \in Bases(c.base)
         /\ c.got[i].name # ".."

\* In the tree T, where P says which file each number is for: the directory of f is
\* k steps below that of g.
Sits(T, P, g, f, k) == T[P[f]].kind = "dir" => Above(T, P[g], P[f], k)
Near(T, P, c) ==
    /\ \A i \in 1 .. Len(c.walk) :
         Sits(T, P, c.base[Len(c.got) + 1], c.walk[i].cur, c.walk[i].d)
    /\ \A i \in 1 .. Len(c.got) :
         \E k \in Nat : Sits(T, P, c.base[i], c.got[i].fd, k)

\* A number that is open is of a file that exists.
Behind == \A f \in Fd : fds[f] # None => tree[NodeOf(f)].kind # "free"

\* No call follows the last link of its path.
NoLinks == \A t \in Thread : \A i \in DOMAIN todo[t] : todo[t][i].op \notin Follow

Nodes == [f \in Fd |-> NodeOf(f)]
Tidy(u) == Shape(call[u]) /\ Near(tree, Nodes, call[u])
Hold == SoundTree(tree) /\ SoundSwaps(tree) /\ Behind /\ \A u \in Thread : Tidy(u)

Safe == Full /\ NoLinks /\ (moved \/ Hold)
-----------------------------------------------------------------------------
(* What a call of readdir_nif has read, and what that makes of its answer  *)

\* The entries of all that a call has packed are those before the ones it has read, and
\* with these they are all up to the position p.
Cookies(out) == {out[k].next : k \in DOMAIN out}
Whole(x) == x.bytes = EntrySize(x.name)
Rising(out) == \A k, m \in DOMAIN out : k < m => out[k].next < out[m].next
Lists(c, all, p, len) ==
    /\ Cookies(c.out) \subseteq all /\ c.buf \subseteq all
    /\ \A i \in all : i <= p <=> i \in Cookies(c.out) \cup c.buf
    /\ \A i \in Cookies(c.out), j \in c.buf : i < j
    /\ Rising(c.out) /\ \A k \in DOMAIN c.out : Whole(c.out[k])
    /\ c.used = Bytes(Cookies(c.out)) /\ c.used <= len

\* What PageExact says of an answer.
Upto(all, i) == {j \in all : j <= i}
Fits(all, len) == {i \in all : Bytes(Upto(all, i)) <= len}
PageIs(page, used, all, len) ==
    /\ {page[k].next : k \in {m \in DOMAIN page : Whole(page[m])}} = Fits(all, len)
    /\ Rising(page)
    /\ used = Lesser(len, Bytes(all))

\* A stream shares the description of the handle's descriptor.
Streams ==
    \A h \in Handle : handle[h].dirp # None =>
      handle[h].fd # None /\ fds[handle[h].dirp] = fds[handle[h].fd]

Entries(r, n, all) == n = handle[r.h].file.node /\ all = After(n, r.off)
Reads(t, r) == ~At(t, "idle") /\ r = Req(t) /\ r.op = "readdir"

\* Before it reads it has nothing.
Fresh(t) ==
    \A r : Reads(t, r) /\ ~At(t, "fill") =>
      call[t].out = <<>> /\ call[t].buf = {} /\ call[t].used = 0

\* When nobody disturbs it, it has the entries up to the position of its stream.
Listing(t) ==
    \A r, n, all, p :
      Reads(t, r) /\ At(t, "fill") =>
        /\ handle[r.h].dirp # None
        /\ t \in calm /\ Entries(r, n, all) /\ p = descs[fds[handle[r.h].dirp]].pos =>
             p >= r.off /\ Lists(call[t], all, p, r.len)

\* The last call of a thread that has answered a page, and what the page was.
Paged(t, r, a) ==
    last[t] # None /\ r = last[t].req /\ a = last[t].ans /\ r.op = "readdir"
Past(t) == \A r, a : Paged(t, r, a) => r.h \in Handle /\ handle[r.h].st # "none"
Exact(t) ==
    \A r, a, n, all :
      t \in calm /\ At(t, "idle") /\ Paged(t, r, a) /\ a.e = "ok" /\ a.err = "ok"
        /\ Entries(r, n, all)
      => PageIs(a.page, a.used, all, r.len)
Read(t) == Fresh(t) /\ Listing(t) /\ Past(t) /\ Exact(t)

Paging == Full /\ Streams /\ \A t \in Thread : Read(t)
=============================================================================
