------------------------------- MODULE FileNif ------------------------------
(***************************************************************************)
(* wasi_file_nif.c as a whole: handles, path walks and directory reads of  *)
(* several threads over one kernel, and other operating system processes   *)
(* that replace entries of the tree under them.                            *)
(***************************************************************************)
EXTENDS PathWalk, DirList, Sums

CONSTANTS Swaps     \* what other processes may do, once each: dir, name, node

ASSUME SwapAssumption ==
    \A s \in Swaps : s.dir \in Node /\ s.name \in Name /\ s.node \in Node \cup {None}

\* A tree of files as a kernel keeps it: an entry is of a file that exists, a directory
\* has one entry, in the directory that is its parent, and that one exists too.
SoundTree(T) ==
    /\ T[Top].kind = "dir"
    /\ \A m \in Node, c \in Name : T[m].at[c] # None =>
         /\ T[T[m].at[c]].kind # "free"
         /\ T[T[m].at[c]].kind = "dir" => T[T[m].at[c]].up = m
    /\ \A n \in Node : T[n].kind = "dir" => T[T[n].up].kind = "dir"

\* The other processes put files that exist there, or nothing, and move no directory.
SoundSwaps(T) ==
    \A s \in Swaps : s.node # None =>
      /\ T[s.node].kind # "free"
      /\ T[s.node].kind = "dir" => T[s.node].up = s.dir

ASSUME SoundAssumption ==
    IsFiniteSet(Node) /\ \A T \in Tree : SoundTree(T) /\ SoundSwaps(T)

\* None is not the record of a call on an open file, nor of one that makes a handle.
AccessAnswer ==
    [e : {"ok", "badarg", "enomem", "ebadf", "einval", "eisdir", "eof", "efbig"},
     v : {<<>>} \cup {<<h>> : h \in Handle} \cup (Node \X Nat)
           \cup (Node \X Kinds \X Nat \X [Stamps -> Time])]
ASSUME NoneAssumption ==
    None \notin [req : Request, ans : AccessAnswer, left : Nat]

VARIABLES
    swapped,   \* those of Swaps that have happened
    calm       \* threads whose call nothing has disturbed since it began

vars == <<kvars, hvars, swapped, calm>>

TypeOK == KernelTypeOK /\ HandleTypeOK /\ swapped \subseteq Swaps /\ calm \subseteq Thread

Init == KernelInit /\ HandleInit /\ swapped = {} /\ calm = Thread

Swap(s) ==
    /\ s \notin swapped
    /\ swapped' = swapped \cup {s}
    /\ tree' = [tree EXCEPT ![s.dir].at[s.name] = s.node]
    /\ UNCHANGED <<fds, descs, moved, hvars>>

HandleStep(t) == \/ Begin(t) \/ Lock(t) \/ NoBinary(t) \/ Access(t) \/ Close(t)
                 \/ DupHandle(t) \/ DirDup(t) \/ OpenRoot(t) \/ Make(t) \/ NoMemory(t)
WalkStep(t) == \/ Enter(t) \/ StepDot(t) \/ StepUp(t) \/ StepName(t) \/ StepLink(t)
               \/ StepBack(t) \/ OpenDone(t) \/ ParentDone(t) \/ Resolve(t)
               \/ PathAct(t) \/ PairAct(t)
ListStep(t) == \/ OpenStream(t) \/ NamesDup(t) \/ Rewind(t) \/ Getdents(t) \/ EndOfDir(t)
               \/ ReadFails(t) \/ TakeName(t) \/ PackEntry(t)
Step(t) == HandleStep(t) \/ WalkStep(t) \/ ListStep(t)

\* A thread's call is disturbed when somebody else changes the tree, or moves the
\* position of the description it reads a directory from.
StreamOf(t) == IF At(t, "fill") /\ fds[Stream(t)] # None THEN {fds[Stream(t)]} ELSE {}
Disturbed(t) == \/ tree' # tree
                \/ \E d \in StreamOf(t) : descs'[d].pos # descs[d].pos

ThreadStep(t) ==
    /\ Step(t) /\ UNCHANGED swapped
    /\ calm' = {u \in calm \ {t} : ~Disturbed(u)}
               \cup IF At(t, "idle") \/ t \in calm THEN {t} ELSE {}
Elsewhere ==
    /\ \/ \E s \in Swaps : Swap(s)
       \/ \E h \in Handle : Gc(h) /\ UNCHANGED swapped
    /\ calm' = {u \in calm : ~Disturbed(u)}

Next == (\E t \in Thread : ThreadStep(t)) \/ Elsewhere

Spec == Init /\ [][Next]_vars
FairSpec == Spec /\ \A t \in Thread : WF_vars(ThreadStep(t))
-----------------------------------------------------------------------------
Api == INSTANCE FileApi WITH
    file <- [h \in Handle |-> handle[h].file],
    open <- {h \in Handle : handle[h].fd # None},
    data <- tree,
    reply <- last

\* Every call on a handle is one atomic access to the file the handle was made for,
\* until the handle is closed, whatever the other threads open and close meanwhile:
\* a number that is closed and handed out again is never used through an old handle.
AtomicHandles == Api!Spec

\* Every open descriptor is to be closed by exactly one owner, a handle, its stream
\* or a call in progress, on every path through the NIFs: nothing is leaked on an
\* error return and nothing is closed twice.
Owners(f) ==
    {<<h, "fd">> : h \in {g \in Handle : handle[g].fd = f}}
    \cup {<<h, "dirp">> : h \in {g \in Handle : handle[g].dirp = f}}
    \cup UNION {{<<t, "base", i>> : i \in {j \in DOMAIN call[t].base : call[t].base[j] = f}}
         \cup {<<t, "walk", i>> : i \in {j \in DOMAIN call[t].walk :
                                   call[t].walk[j].own /\ call[t].walk[j].cur = f}}
         \cup {<<t, "got", i>> : i \in {j \in DOMAIN call[t].got :
                                   call[t].got[j].own /\ call[t].got[j].fd = f}}
         \cup {<<t, "fd", 0>> : x \in {y \in {0} : call[t].fd = f}} : t \in Thread}
OneOwner == \A f \in Fd : Cardinality(Owners(f)) = IF fds[f] = None THEN 0 ELSE 1

\* The directory that a call was given, which its walk may not leave.
Home(t, i) == NodeOf(call[t].base[i])
Walking(t) == IF Req(t).op \in Follow THEN 1 ELSE Lesser(Len(call[t].got) + 1, Len(call[t].base))

\* Every directory in which a call looks up a name lies in or under the directory it
\* was given, also when entries are replaced by links between two of its steps, as
\* long as no directory is moved to another one.
Inside(f, n) == tree[NodeOf(f)].kind = "dir" => Under(NodeOf(f), n)
Contained ==
    moved \/ \A t \in Thread :
      /\ \A i \in DOMAIN call[t].walk : Inside(call[t].walk[i].cur, Home(t, Walking(t)))
      /\ \A i \in DOMAIN call[t].got : Inside(call[t].got[i].fd, Home(t, i))

\* The parent that resolve_final hands on is a descriptor the call has open.
Anchored ==
    \A t \in Thread : \A i \in DOMAIN call[t].got : call[t].got[i].fd \in Owned(t)

\* A call has a bounded number of descriptors open, however links lead to links: those
\* it started from, and one for the walk and for each link that is inside another.
WalkBounded ==
    \A t \in Thread :
      Cardinality(Owned(t)) <= Len(call[t].base) + Len(call[t].got) + MaxLinks + 1

\* A page of readdir_nif has the entries after the cookie, in order, as many as fit, and
\* of the next one as many bytes as there is room for: a guest that goes on from the
\* cookie of the last whole entry misses none and sees none twice, also when an entry
\* fills the buffer exactly.  It holds of calls that nobody disturbs.
Bytes(I) == Total([i \in I |-> EntrySize(Order[i])])
PageOf(r, ans) ==
    LET all == After(handle[r.h].file.node, r.off)
        fit == {i \in all : Bytes({j \in all : j <= i}) <= r.len}
        whole == {k \in DOMAIN ans.page : ans.page[k].bytes = EntrySize(ans.page[k].name)}
    IN  /\ {ans.page[k].next : k \in whole} = fit
        /\ \A k, m \in DOMAIN ans.page : k < m => ans.page[k].next < ans.page[m].next
        /\ ans.used = Lesser(r.len, Bytes(all))
PageExact ==
    \A t \in calm :
      At(t, "idle") /\ last[t] # None /\ last[t].req.op = "readdir"
        /\ last[t].ans.e = "ok" /\ last[t].ans.err = "ok"
      => PageOf(last[t].req, last[t].ans)

\* readdir_names_nif answers the whole of a directory, when nothing changes it.
NamesWhole ==
    \A t \in Thread :
      At(t, "idle") /\ last[t] # None /\ last[t].req.op = "names"
        /\ last[t].ans.e = "ok" /\ last[t].ans.err = "ok"
      => {last[t].ans.names[k] : k \in DOMAIN last[t].ans.names}
           = {Order[i] : i \in Present(handle[last[t].req.h].file.node)}

\* Every call returns: locks are given back on every path, and walks end.
CallsReturn == \A t \in Thread : ~At(t, "idle") ~> At(t, "idle")
=============================================================================
