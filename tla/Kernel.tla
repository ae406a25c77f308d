------------------------------- MODULE Kernel -------------------------------
(***************************************************************************)
(* The part of the operating system that wasi_file_nif.c uses: the table   *)
(* of descriptors of the VM, open file descriptions, and a tree of files.  *)
(*                                                                         *)
(* A descriptor is a small number that the kernel hands out again once it  *)
(* is closed.  dup(2) makes a second descriptor of one description, with   *)
(* which it shares the position.  A file is a node; its bytes are left     *)
(* out: a read names the node and how many bytes it got.  A path is a      *)
(* sequence of components, "/" first when it is absolute.                  *)
(***************************************************************************)
EXTENDS FileOps, Sequences, FiniteSets, FiniteSetsExt

CONSTANTS
    Fd,          \* descriptor numbers the VM may have open
    Node,        \* files, directories and links, those still to be made too
    Name,        \* names of directory entries
    Order,       \* every name, "." and "..", in the order a directory has them
    Tree,        \* the trees to start from
    Top,         \* the directory that the configured root path names
    Time,        \* values of a time stamp
    Batch,       \* entries that one getdents(2) answers
    None

Stamps == {"atim", "mtim"}
Kinds == {"dir", "reg", "link", "free"}
Comp == Name \cup {".", "..", "/"}

ASSUME KernelAssumption ==
    /\ IsFiniteSet(Fd) /\ Fd \subseteq Nat
    /\ Batch \in Nat \ {0} /\ Top \in Node
    /\ {Order[i] : i \in DOMAIN Order} = Name \cup {".", ".."}
    /\ Order \in Seq(Name \cup {".", ".."})
    /\ {".", "..", "/"} \cap Name = {}
    /\ None \notin Fd /\ None \notin Node /\ None \notin Name

\* Descriptions are as many as descriptors; one that no descriptor has is free.
Desc == Fd

Entry ==
    [kind : Kinds, at : [Name -> Node \cup {None}], up : Node, text : Seq(Comp),
     size : 0 .. MaxSize, time : [Stamps -> Time]]

ASSUME TreeAssumption == Tree \subseteq [Node -> Entry]

VARIABLES
    fds,       \* descriptor -> its description, None when closed
    descs,     \* description -> its node, the access it was opened for, position
    tree,      \* node -> what it is
    moved      \* a directory has been given another parent

kvars == <<fds, descs, tree, moved>>

KernelTypeOK ==
    /\ fds \in [Fd -> Desc \cup {None}]
    /\ descs \in [Desc -> [node : Node, mode : SUBSET {"rd", "wr"}, pos : Nat]]
    /\ tree \in [Node -> Entry]
    /\ moved \in BOOLEAN

KernelInit ==
    /\ tree \in Tree
    /\ fds = [f \in Fd |-> None]
    /\ descs = [d \in Desc |-> [node |-> Top, mode |-> {}, pos |-> 0]]
    /\ moved = FALSE
-----------------------------------------------------------------------------
(* Descriptors *)

FreeFds == {f \in Fd : fds[f] = None}
NewFd == Min(FreeFds)
NewDesc == Min({d \in Desc : \A f \in Fd : fds[f] # d})
NodeOf(f) == descs[fds[f]].node
IsDir(f) == fds[f] # None /\ tree[NodeOf(f)].kind = "dir"

\* The table after opening a description, and after close(2) of some numbers.
\* Closing a number that is not open does nothing.
Opened(tab, d) == [tab EXCEPT ![NewFd] = d]
Shut(tab, F) == [f \in Fd |-> IF f \in F THEN None ELSE tab[f]]
Description(n, fl) == [descs EXCEPT ![NewDesc] =
                         [node |-> n, mode |-> fl \cap {"rd", "wr"}, pos |-> 0]]
-----------------------------------------------------------------------------
(* Names *)

Lookup(n, c) ==
    CASE c = "."  -> n
      [] c = ".." -> tree[n].up
      [] c \in Name -> tree[n].at[c]
      [] OTHER -> None

FreeNodes == {n \in Node : tree[n].kind = "free"}
Linked(n) == \/ \E m \in Node, c \in Name : tree[m].at[c] = n
             \/ tree[n].up = n
             \/ n = Top

Blank == [c \in Name |-> None]
NewNode == CHOOSE n \in FreeNodes : TRUE

\* The tree with a new node of kind k under the name c of d.
Made(d, c, k, text) ==
    [tree EXCEPT ![d].at[c] = NewNode,
                 ![NewNode].kind = k, ![NewNode].up = d, ![NewNode].text = text]

\* Why an entry c cannot be made in the directory behind f.
MakeErr(f, c) ==
    CASE fds[f] = None -> "ebadf"
      [] ~IsDir(f) -> "enotdir"
      [] Lookup(NodeOf(f), c) # None -> "eexist"
      [] ~Linked(NodeOf(f)) -> "enoent"
      [] FreeNodes = {} -> "enospc"
      [] OTHER -> "ok"

\* openat(2) of the component c with O_NOFOLLOW and the flags fl.
OpenErr(f, c, fl) ==
    LET n == Lookup(NodeOf(f), c)
    IN  CASE FreeFds = {} -> "emfile"
          [] fds[f] = None -> "ebadf"
          [] ~IsDir(f) -> "enotdir"
          [] n = None /\ "creat" \notin fl -> "enoent"
          [] n = None /\ MakeErr(f, c) # "ok" -> MakeErr(f, c)
          [] n # None /\ {"creat", "excl"} \subseteq fl -> "eexist"
          [] n # None /\ tree[n].kind = "link" ->
               IF "dir" \in fl THEN "enotdir" ELSE "eloop"
          [] n # None /\ tree[n].kind = "dir" /\ fl \cap {"wr", "creat"} # {} -> "eisdir"
          [] n # None /\ tree[n].kind # "dir" /\ "dir" \in fl -> "enotdir"
          [] OTHER -> "ok"

\* The node that it opens and the tree it leaves.
OpenNode(f, c) ==
    LET n == Lookup(NodeOf(f), c) IN IF n = None THEN NewNode ELSE n
OpenTree(f, c, fl) ==
    CASE Lookup(NodeOf(f), c) = None -> Made(NodeOf(f), c, "reg", <<>>)
      [] Lookup(NodeOf(f), c) # None /\ "trunc" \in fl ->
           [tree EXCEPT ![OpenNode(f, c)].size = 0]
      [] OTHER -> tree

\* readlinkat(2): the text of the link, <<>> when there is none.
LinkText(f, c) ==
    IF ~IsDir(f) THEN <<>>
    ELSE LET n == Lookup(NodeOf(f), c)
         IN  IF n # None /\ tree[n].kind = "link" THEN tree[n].text ELSE <<>>
-----------------------------------------------------------------------------
(* Calls that act on one name: unlinkat, symlinkat, fstatat, utimensat ... *)

Empty(n) == \A c \in Name : tree[n].at[c] = None

NameErr(op, f, c) ==
    LET n == Lookup(NodeOf(f), c)
    IN  CASE op \in {"mkdir", "symlink"} -> MakeErr(f, c)
          [] fds[f] = None -> "ebadf"
          [] ~IsDir(f) -> "enotdir"
          [] op = "rmdir" /\ c = "." -> "einval"
          [] n = None -> "enoent"
          [] op = "unlink" /\ tree[n].kind = "dir" -> "eisdir"
          [] op = "rmdir" /\ tree[n].kind # "dir" -> "enotdir"
          [] op = "rmdir" /\ ~Empty(n) -> "enotempty"
          [] op = "readlink" /\ tree[n].kind # "link" -> "einval"
          [] OTHER -> "ok"

NameTree(op, f, c, arg) ==
    CASE op = "mkdir"   -> Made(NodeOf(f), c, "dir", <<>>)
      [] op = "symlink" -> Made(NodeOf(f), c, "link", arg)
      [] op \in {"unlink", "rmdir"} -> [tree EXCEPT ![NodeOf(f)].at[c] = None]
      [] op = "settimes" ->
           [tree EXCEPT ![Lookup(NodeOf(f), c)] = decode_times(@, arg)]
      [] OTHER -> tree
-----------------------------------------------------------------------------
(* renameat(2) and linkat(2) *)

\* n is m or lies under it.
Under(n, m) ==
    LET up[k \in Nat] == IF k = 0 THEN n ELSE tree[up[k - 1]].up
    IN  \E k \in 0 .. Cardinality(Node) : up[k] = m

PairErr(op, f, c, g, b) ==
    LET n == Lookup(NodeOf(f), c)
        m == Lookup(NodeOf(g), b)
        other == op = "rename" /\ m \notin {None, n}
    IN  CASE fds[f] = None \/ fds[g] = None -> "ebadf"
          [] ~IsDir(f) \/ ~IsDir(g) -> "enotdir"
          [] op = "rename" /\ "." \in {c, b} -> "ebusy"
          [] n = None -> "enoent"
          [] op = "link" /\ m # None -> "eexist"
          [] ~Linked(NodeOf(g)) -> "enoent"
          [] op = "link" /\ tree[n].kind = "dir" -> "eperm"
          [] op = "rename" /\ tree[n].kind = "dir" /\ Under(NodeOf(g), n) -> "einval"
          [] other /\ tree[n].kind = "dir" /\ tree[m].kind # "dir" -> "enotdir"
          [] other /\ tree[n].kind # "dir" /\ tree[m].kind = "dir" -> "eisdir"
          [] other /\ tree[m].kind = "dir" /\ ~Empty(m) -> "enotempty"
          [] OTHER -> "ok"

PairTree(op, f, c, g, b) ==
    LET n == Lookup(NodeOf(f), c)
        put == [tree EXCEPT ![NodeOf(g)].at[b] = n]
    IN  CASE op = "link" -> put
          [] Lookup(NodeOf(g), b) = n -> tree
          [] OTHER -> [put EXCEPT ![NodeOf(f)].at[c] = None,
                                  ![n].up = IF tree[n].kind = "dir"
                                            THEN NodeOf(g) ELSE tree[n].up]

PairMoves(op, f, c, g) ==
    /\ op = "rename"
    /\ tree[Lookup(NodeOf(f), c)].kind = "dir"
    /\ NodeOf(f) # NodeOf(g)
-----------------------------------------------------------------------------
(* getdents(2): the positions of up to Batch entries after the description's. *)

Present(n) == {i \in DOMAIN Order : Lookup(n, Order[i]) # None}
After(n, p) == IF Linked(n) THEN {i \in Present(n) : i > p} ELSE {}
Dents(f) ==
    LET rest == After(NodeOf(f), descs[fds[f]].pos)
    IN  {i \in rest : Cardinality({j \in rest : j < i}) < Batch}
=============================================================================
