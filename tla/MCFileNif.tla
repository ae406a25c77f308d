------------------------------ MODULE MCFileNif ------------------------------
(***************************************************************************)
(* A small tree, scripts for two threads, and a reference definition of    *)
(* what a path names.  The root that is granted has a directory "a", a     *)
(* file "f" and a link "l"; "a" has a file and a link of its own; above    *)
(* the root there is a directory with a file "f" that is not granted.      *)
(***************************************************************************)
EXTENDS FileNif, SequencesExt

\* The path p from the last of the directories in dirs, by substituting the text of
\* each link for its name, with fuel for so many links.
RECURSIVE Ref(_, _, _, _)
Ref(dirs, p, fuel, fol) ==
    LET here == dirs[Len(dirs)]
        c == Head(p)
        n == Lookup(here, c)
        Link == tree[n].kind = "link"
        No(e) == [e |-> e, node |-> None]
    IN  CASE p = <<>> -> [e |-> "ok", node |-> here]
          [] p # <<>> /\ c = "/" -> No("enotcapable")
          [] p # <<>> /\ tree[here].kind # "dir" -> No("enotdir")
          [] p # <<>> /\ c = "." -> Ref(dirs, Tail(p), fuel, fol)
          [] p # <<>> /\ c = ".." -> IF Len(dirs) = 1 THEN No("enotcapable")
                                     ELSE Ref(Front(dirs), Tail(p), fuel, fol)
          [] n = None -> No("enoent")
          [] Link /\ (fuel = 0 \/ (Len(p) = 1 /\ ~fol)) -> No("eloop")
          [] Link /\ Head(tree[n].text) = "/" -> No("enotcapable")
          [] Link -> Ref(dirs, tree[n].text \o Tail(p), fuel - 1, fol)
          [] OTHER -> Ref(Append(dirs, n), Tail(p), fuel, fol)

Means(n, p, fol) == Ref(<<n>>, p, MaxLinks, fol)

\* A path that nobody disturbs leads where substituting the links leads, for open_at
\* and for the parent that the other calls act in, and ".." out of the given directory
\* is refused exactly where it would leave it.  Paths with more than MaxLinks links in
\* all are left out: the code counts only links inside links.
GrantOf(t) == handle[Req(t).h].file.node
Agrees(ref, f) == ref.e = "eloop" \/ (ref.e = "ok" /\ ref.node = NodeOf(f))
Refused(r, ans) ==
    LET ref == Means(handle[r.h].file.node, r.path, r.fol)
    IN  \/ ref.e = "eloop"
        \/ ref.e # "ok" /\ (ans.e = "enotcapable" <=> ref.e = "enotcapable")
ResolvesRight ==
    \A t \in calm :
      /\ At(t, "made") /\ Req(t).op = "open_at" /\ Req(t).h # None =>
           Agrees(Means(GrantOf(t), Req(t).path, Req(t).fol), call[t].fd)
      /\ At(t, "act") /\ Req(t).op \in PathOps \ Follow =>
           Agrees(Means(GrantOf(t), Front(Req(t).path), TRUE), call[t].got[1].fd)
      /\ At(t, "idle") /\ last[t] # None /\ last[t].req.op = "open_at"
           /\ last[t].ans.e \in {"enoent", "enotdir", "eloop", "enotcapable"} =>
           Refused(last[t].req, last[t].ans)
-----------------------------------------------------------------------------
CONSTANTS World, Root, A, F, G, Out, L, M, S, N1, t1, t2, T0, T1

Names == {"a", "f", "l"}
TheOrder == <<".", "..", "f", "a", "l">>
TheLen == [c \in Names \cup {".", ".."} |-> CASE c = ".." -> 2 [] c = "l" -> 3 [] OTHER -> 1]

Plainly(kind, up) ==
    [kind |-> kind, at |-> [c \in Names |-> None], up |-> up, text |-> <<>>, size |-> 0,
     time |-> [s \in {"atim", "mtim"} |-> T0]]
Dir(up, a, f, l) ==
    [Plainly("dir", up) EXCEPT
       !.at = [c \in Names |-> CASE c = "a" -> a [] c = "f" -> f [] OTHER -> l]]
File(up, n) == [Plainly("reg", up) EXCEPT !.size = n]
Link(up, p) == [Plainly("link", up) EXCEPT !.text = p]

\* The link "l" of the root has the text p, the one of "a" the text q.
TreeWith(p, q) ==
    [n \in Node |->
       CASE n = World -> Dir(World, Root, Out, None)
         [] n = Root -> Dir(World, A, F, L)
         [] n = A -> Dir(Root, None, G, M)
         [] n = F -> File(Root, 2)
         [] n = G -> File(A, 1)
         [] n = Out -> File(World, 3)
         [] n = L -> Link(Root, p)
         [] n = M -> Link(A, q)
         [] n = S -> Link(World, <<"..">>)
         [] OTHER -> Plainly("free", World)]

Ask(op, h) ==
    [op |-> op, h |-> h, h2 |-> None, to |-> None, path |-> <<>>, path2 |-> <<>>,
     fl |-> {"rd"}, fol |-> FALSE, arg |-> <<>>, len |-> 1, off |-> 0, bad |-> FALSE]
Open(p, fl, fol, to) ==
    [Ask("open_at", "root") EXCEPT !.path = p, !.fl = fl, !.fol = fol, !.to = to]
Grant == [Ask("open_dir", None) EXCEPT !.to = "root"]
Path(op, p) == [Ask(op, "root") EXCEPT !.path = p]

Script(s1, s2) == [t \in Thread |-> IF t = t1 THEN s1 ELSE s2]

\* Paths: every path of up to three components, over every pair of link texts.
Comps == {"a", "f", "l", ".", ".."}
Paths == {<<>>, <<"/", "f">>} \cup {<<c>> : c \in Comps} \cup {<<c, d>> : c, d \in Comps}
           \cup {<<c, d, e>> : c, d, e \in Comps}
Texts == {<<"a">>, <<"f">>, <<"a", "l">>, <<"..", "l">>, <<"..">>, <<".">>, <<"a", "..", "f">>,
          <<"/", "f">>}
AllTrees == {TreeWith(p, q) : p, q \in Texts}
PathScripts ==
    {Script(<<Grant, Open(p, {"rd"}, fol, "h1")>>, <<>>) : p \in Paths, fol \in BOOLEAN}
    \cup {Script(<<Grant, Path("stat", p)>>, <<>>) : p \in Paths}

\* Another process replaces the directory "a" by a link to the directory above.
SwapA == {[dir |-> Root, name |-> "a", node |-> S]}
-----------------------------------------------------------------------------
(* Two threads: what one does to a handle or in the tree, while the other is at it. *)

TheTree == {TreeWith(<<"a", "f">>, <<"..", "f">>)}

OpenF == Open(<<"f">>, {"rd", "wr"}, FALSE, "h1")
Uses ==
    {[Ask("pread", "h1") EXCEPT !.len = n, !.off = o] : n \in {3}, o \in {-1, 0, 1, 2}}
    \cup {[Ask("pwrite", "h1") EXCEPT !.len = 3, !.off = o] : o \in {-1, 1, 2}}
    \cup {[Ask("ftruncate", "h1") EXCEPT !.len = n] : n \in {0, 4}}
    \cup {[Ask("futimes", "h1") EXCEPT !.arg = [s \in {"mtim"} |-> T1], !.bad = b] : b \in BOOLEAN}
    \cup {Ask(op, "h1") : op \in {"fstat", "fsync", "readdir", "names"}}
Reuse ==
    {<<Ask("close", "h1"), Open(<<"a", "f">>, {"rd"}, FALSE, "h2"), Ask("pread", "h2")>>,
     <<[Ask("dup", "h1") EXCEPT !.to = "h2"], Ask("close", "h1"), Ask("fstat", "h2")>>}
HandleScripts == {Script(<<Grant, OpenF, u>>, s) : u \in Uses, s \in Reuse}

Pages == {[Ask("readdir", "root") EXCEPT !.off = o, !.len = n] : o \in 0 .. 5, n \in 0 .. 18}
Beside ==
    {<<>>, <<Ask("close", "root")>>, <<Path("mkdir", <<"a", "a">>)>>}
PageScripts ==
    {Script(<<Grant, p>>, <<>>) : p \in Pages}
    \cup {Script(<<Grant, [p EXCEPT !.len = 9]>>, s) : p \in {q \in Pages : q.len = 1}, s \in Beside}

Changes ==
    {Path("mkdir", p) : p \in {<<"a", "a">>, <<"f">>, <<"a", "..">>}}
    \cup {Path("unlink", p) : p \in {<<"f">>, <<"a">>, <<"l">>}}
    \cup {Path("rmdir", p) : p \in {<<"a">>, <<".">>, <<"f">>}}
    \cup {[Path(op, <<"l">>) EXCEPT !.arg = [s \in {"mtim"} |-> T1], !.bad = b] :
            op \in {"settimes", "settimes_follow"}, b \in BOOLEAN}
    \cup {[Path("symlink", <<"a", "a">>) EXCEPT !.arg = <<"f">>], Path("readlink", <<"l">>),
          Path("readlink", <<"f">>), Path("stat_follow", <<"l">>), Path("stat_follow", <<"a", "l">>), Path("stat", <<".">>),
          Path("stat", <<"..", "f">>),
          Path("stat", <<"a", "a", "f", "f", "f">>), Path("unknown", <<"f">>)}
    \cup {[Path(op, p) EXCEPT !.h2 = "root", !.path2 = q] :
            op \in {"rename", "link", "unknown2"}, p \in {<<"f">>, <<"a">>},
            q \in {<<"a", "a">>, <<"l">>, <<"f">>, <<"a", "..">>}}
    \cup {Open(<<"a", "a">>, {"rd", "wr", "creat", "excl"}, FALSE, "h1"),
          Open(<<"f">>, {"wr", "creat", "trunc"}, TRUE, "h1"),
          [Open(<<"a">>, {"rd"}, TRUE, "h1") EXCEPT !.bad = TRUE],
          [Open(<<"a">>, {"rd"}, TRUE, "h1") EXCEPT !.h = None],
          [Ask("names", "root") EXCEPT !.to = None]}
Rivals ==
    {<<Ask("close", "root")>>, <<Open(<<"a", "f">>, {"rd"}, FALSE, "h2")>>,
     <<Path("unlink", <<"a", "f">>)>>, <<Path("rmdir", <<"a", "a">>)>>,
     <<[Path("rename", <<"l">>) EXCEPT !.h2 = "root", !.path2 = <<"f">>]>>}
ChangeScripts == {Script(<<Grant, c>>, s) : c \in Changes, s \in Rivals}

\* With most of the numbers taken.
DupTo(h, to) == [Ask("dup", h) EXCEPT !.to = to]
Scarce ==
    {<<DupTo("root", "h2"), Open(<<".">>, {"rd"}, FALSE, "h3")>>,
     <<Open(<<"a", "..">>, {"rd"}, FALSE, "h3")>>}
    \cup {<<DupTo("root", "h2"), Ask("readdir", "h2"), last1>> : last1 \in
            {DupTo("h1", "h3"), [Grant EXCEPT !.to = "h3"], Ask("names", "root"),
             Ask("readdir", "root"), Open(<<"f">>, {"rd"}, TRUE, "h3"),
             Path("stat", <<"f">>)}}
ScarceScripts == {Script(<<Grant, OpenF>> \o s, <<>>) : s \in Scarce}

\* A stat that follows the link of "a", whose text is one name; two listings at once.
FollowScripts == {Script(<<Grant, Path("stat_follow", <<"a", "l">>)>>, <<>>)}
ListScripts == {Script(<<Grant, Ask("names", "root")>>, <<Ask("names", "root")>>)}
FollowTree == {TreeWith(<<"f">>, <<"f">>)}

CallScripts == HandleScripts \cup PageScripts \cup ChangeScripts
                 \cup ScarceScripts

\* The requests of the scripts that a run starts with.
AllRequests == UNION {UNION {ToSet(s[t]) : t \in Thread} : s \in Scripts}
=============================================================================
