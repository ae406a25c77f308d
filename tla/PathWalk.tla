------------------------------ MODULE PathWalk ------------------------------
(***************************************************************************)
(* The path walk of wasi_file_nif.c and the NIFs built on it: open_at_nif, *)
(* path_op_nif and path_op2_nif.                                           *)
(*                                                                         *)
(* walk_from and step call each other for a symbolic link; the calls that  *)
(* are open are a stack of frames.  A frame has the directory the walk is  *)
(* in (cur, own), how far that is below the start (d), the components      *)
(* left, the flags and the choice to follow for the last of them, and how  *)
(* many links may still be followed.  The frame of walk_parent (par) stops *)
(* before its last component.                                              *)
(***************************************************************************)
EXTENDS FileHandle

PathErr(p) ==
    CASE p = <<>> -> "einval"
      [] Len(p) > MaxPath -> "enametoolong"
      [] Head(p) = "/" -> "enotcapable"
      [] OTHER -> "ok"

\* Where the next walk starts: a base, or in resolve_final the last parent.
From(t) == IF call[t].hop > 0 THEN call[t].got[1].fd
           ELSE call[t].base[Len(call[t].got) + 1]

Enter(t) ==
    LET r == Req(t)
        e == IF r.op = "open_at" /\ r.bad THEN "badarg" ELSE PathErr(call[t].path)
    IN  /\ At(t, "enter")
        /\ IF e # "ok"
           THEN Fail(t, e)
           ELSE /\ call' = [call EXCEPT ![t].pc = "walk", ![t].walk =
                     <<[cur |-> From(t), own |-> FALSE, d |-> 0,
                        rest |-> call[t].path, fl |-> r.fl, fol |-> r.fol,
                        bud |-> MaxLinks, par |-> r.op # "open_at"]>>]
                /\ UNCHANGED <<kvars, todo, last>>
        /\ UNCHANGED handle
-----------------------------------------------------------------------------
(* step: one component *)

Depth(t) == Len(call[t].walk)
Frm(t) == call[t].walk[Depth(t)]
Component(t) == Head(Frm(t).rest)
IsLast(t) == Len(Frm(t).rest) = 1
DirFlags == {"rd", "dir"}
Flags(t) == IF IsLast(t) THEN Frm(t).fl ELSE DirFlags

Stepping(t) == /\ At(t, "walk") /\ Frm(t).rest # <<>>
               /\ ~(Frm(t).par /\ IsLast(t))

\* The component is opened, and the directory it was found in is closed.
Advance(t, c, fl, d) ==
    /\ fds' = Shut(Opened(fds, NewDesc), IF Frm(t).own THEN {Frm(t).cur} ELSE {})
    /\ descs' = Description(OpenNode(Frm(t).cur, c), fl)
    /\ tree' = OpenTree(Frm(t).cur, c, fl)
    /\ call' = [call EXCEPT ![t].walk[Depth(t)] =
         [Frm(t) EXCEPT !.cur = NewFd, !.own = TRUE, !.d = d, !.rest = Tail(@)]]
    /\ UNCHANGED <<moved, todo, last>>

Reopen(t, c, d) ==
    LET e == OpenErr(Frm(t).cur, c, DirFlags)
    IN  IF e = "ok" THEN Advance(t, c, DirFlags, d) ELSE Fail(t, e)

StepDot(t) ==
    /\ Stepping(t) /\ Component(t) = "."
    /\ Reopen(t, ".", Frm(t).d)
    /\ UNCHANGED handle

\* At depth 0 there is no parent inside the capability.
MutAtTop(t) == FALSE
AtTop(t) == Frm(t).d = 0
StepUp(t) ==
    /\ Stepping(t) /\ Component(t) = ".."
    /\ IF AtTop(t) THEN Fail(t, "enotcapable")
       ELSE Reopen(t, "..", Frm(t).d - 1)
    /\ UNCHANGED handle

MayFollow(t) == (IsLast(t) => Frm(t).fol) /\ Frm(t).bud > 0
StepName(t) ==
    LET c == Component(t)
        e == OpenErr(Frm(t).cur, c, Flags(t))
    IN  /\ Stepping(t) /\ c \in Name
        /\ CASE e = "ok" -> Advance(t, c, Flags(t), Frm(t).d + 1)
             [] e \notin {"ok", "eloop", "enotdir", "enxio"} -> Fail(t, e)
             [] e \in {"eloop", "enotdir", "enxio"} /\ ~MayFollow(t) -> Fail(t, "eloop")
             [] OTHER -> /\ call' = [call EXCEPT ![t].pc = "link", ![t].err = e]
                         /\ UNCHANGED <<kvars, todo, last>>
        /\ UNCHANGED handle

\* Mutant: a link's text is walked as if from the start of the path.
MutLinkFrame(t, text) ==
    [cur |-> Frm(t).cur, own |-> FALSE, d |-> 0, rest |-> text,
     fl |-> Flags(t), fol |-> TRUE, bud |-> Frm(t).bud - 1, par |-> FALSE]

\* Mutant: a link inside a link has the whole budget again.
MutBudget(t) == Frm(t).bud
Budget(t) == Frm(t).bud - 1

\* A link's text is walked from the directory the link is in.
LinkFrame(t, text) ==
    [cur |-> Frm(t).cur, own |-> FALSE, d |-> Frm(t).d, rest |-> text,
     fl |-> Flags(t), fol |-> TRUE, bud |-> Budget(t), par |-> FALSE]
StepLink(t) ==
    LET text == LinkText(Frm(t).cur, Component(t))
    IN  /\ At(t, "link")
        /\ CASE text = <<>> -> Fail(t, call[t].err)
             [] text # <<>> /\ PathErr(text) # "ok" -> Fail(t, PathErr(text))
             [] OTHER -> /\ call' = [call EXCEPT ![t].pc = "walk",
                               ![t].walk = Append(@, LinkFrame(t, text))]
                         /\ UNCHANGED <<kvars, todo, last>>
        /\ UNCHANGED handle

\* Mutant: a link counts as one level down, wherever it leads.
MutResumed(g, f) ==
    [g EXCEPT !.cur = f.cur, !.own = TRUE, !.d = g.d + 1, !.rest = Tail(@)]

\* The walk of a link's text ends: its caller goes on from there, at the depth
\* that the walk reached.
Resumed(g, f) == [g EXCEPT !.cur = f.cur, !.own = TRUE, !.d = f.d, !.rest = Tail(@)]
StepBack(t) ==
    LET k == Depth(t) - 1
        g == call[t].walk[k]
    IN  /\ At(t, "walk") /\ Frm(t).rest = <<>> /\ k > 0
        /\ fds' = Shut(fds, IF g.own THEN {g.cur} ELSE {})
        /\ call' = [call EXCEPT ![t].walk =
                      Append(SubSeq(@, 1, k - 1), Resumed(g, Frm(t)))]
        /\ UNCHANGED <<descs, tree, moved, handle, todo, last>>

\* walk_open returns to open_at_nif, which closes its copy of the directory.
OpenDone(t) ==
    /\ At(t, "walk") /\ Frm(t).rest = <<>> /\ Depth(t) = 1
    /\ fds' = Shut(fds, {call[t].base[1]})
    /\ call' = [call EXCEPT ![t] = [Idle EXCEPT !.pc = "made", !.fd = Frm(t).cur]]
    /\ UNCHANGED <<descs, tree, moved, handle, todo, last>>
-----------------------------------------------------------------------------
(* walk_parent, resolve_final *)

Parent(t) == [fd |-> Frm(t).cur, own |-> Frm(t).own, name |-> Component(t)]

\* walk_parent returns.  In resolve_final the parent before is closed if it was
\* owned, although the new one is the same descriptor when the link's text has
\* one component.
ParentDone(t) ==
    LET r == Req(t)
        old == IF call[t].hop > 0 /\ call[t].got[1].own THEN {call[t].got[1].fd} ELSE {}
    IN  /\ At(t, "walk") /\ Frm(t).par /\ IsLast(t)
        /\ IF Component(t) = ".."
           THEN Fail(t, "enotcapable")
           ELSE /\ fds' = Shut(fds, old)
                /\ call' = [call EXCEPT
                     ![t].walk = <<>>,
                     ![t].got = IF r.op \in Follow THEN <<Parent(t)>>
                                ELSE Append(@, Parent(t)),
                     ![t].path = IF r.op \in PairOps THEN r.path2 ELSE @,
                     ![t].pc = CASE r.op \in Follow -> "final"
                                 [] r.op \in PairOps /\ call[t].got = <<>> -> "enter"
                                 [] OTHER -> "act"]
                /\ UNCHANGED <<descs, tree, moved, todo, last>>
        /\ UNCHANGED handle

\* The loop of resolve_final.  After a link the name it hands on lies in a
\* buffer of the function that has returned: it may still be there or not.
Resolve(t) ==
    LET g == call[t].got[1]
        text == LinkText(g.fd, g.name)
    IN  /\ At(t, "final")
        /\ CASE call[t].hop = MaxLinks -> Fail(t, "eloop")
             [] call[t].hop < MaxLinks /\ text = <<>> ->
                  /\ \E name \in {g.name} \cup IF call[t].hop = 0 THEN {} ELSE {None} :
                       call' = [call EXCEPT ![t].pc = "act", ![t].got[1].name = name]
                  /\ UNCHANGED <<kvars, todo, last>>
             [] OTHER ->
                  /\ call' = [call EXCEPT ![t].pc = "enter", ![t].path = text,
                                          ![t].hop = @ + 1]
                  /\ UNCHANGED <<kvars, todo, last>>
        /\ UNCHANGED handle
-----------------------------------------------------------------------------
(* The system call on the name, or the two names, and the closes after it. *)

Plain(op) == CASE op = "stat_follow" -> "stat"
               [] op = "settimes_follow" -> "settimes"
               [] OTHER -> op

PathAct(t) ==
    LET r == Req(t)
        op == Plain(r.op)
        g == call[t].got[1]
        n == Lookup(NodeOf(g.fd), g.name)
        e == CASE op = "unknown" \/ (op = "settimes" /\ r.bad) -> "badarg"
               [] OTHER -> NameErr(op, g.fd, g.name)
    IN  /\ At(t, "act") /\ r.op \in PathOps
        /\ IF e # "ok" THEN Fail(t, e)
           ELSE /\ Return(t, CASE op = "stat" -> Ok(stat_map(n, tree[n]))
                               [] op = "readlink" -> [e |-> "ok", text |-> tree[n].text]
                               [] OTHER -> Ok(<<>>))
                /\ tree' = NameTree(op, g.fd, g.name, r.arg)
                /\ fds' = Shut(fds, Owned(t))
                /\ UNCHANGED <<descs, moved>>
        /\ UNCHANGED handle

PairAct(t) ==
    LET r == Req(t)
        g == call[t].got[1]
        b == call[t].got[2]
        e == IF r.op = "unknown2" THEN "badarg"
             ELSE PairErr(r.op, g.fd, g.name, b.fd, b.name)
    IN  /\ At(t, "act") /\ r.op \in PairOps
        /\ IF e # "ok" THEN Fail(t, e)
           ELSE /\ Return(t, Ok(<<>>))
                /\ tree' = PairTree(r.op, g.fd, g.name, b.fd, b.name)
                /\ moved' = (moved \/ PairMoves(r.op, g.fd, g.name, b.fd))
                /\ fds' = Shut(fds, Owned(t))
                /\ UNCHANGED descs
        /\ UNCHANGED handle
=============================================================================
