----------------------------- MODULE FileHandle -----------------------------
(***************************************************************************)
(* The handles of wasi_file_nif.c: the resource that owns a descriptor,    *)
(* its lock, its destructor, and the NIFs that act on an open file.        *)
(*                                                                         *)
(* A NIF runs on a thread (a dirty I/O scheduler) for the Erlang process   *)
(* that called it.  Every wait for a lock and every system call outside    *)
(* one is a step; what a thread does between taking a lock and its system  *)
(* call touches nothing shared.  A thread works through a script of        *)
(* requests; a handle that a request creates is known by the name in its   *)
(* field "to", and a request waits until its handles exist.                *)
(***************************************************************************)
EXTENDS Kernel

CONSTANTS
    Thread,
    Handle,
    Request,     \* records: op, h, to, path, fl, fol, arg, len, off, bad, ...
    Scripts,     \* the scripts a behaviour may start with
    MaxPath,     \* MAX_PATH_LEN, in components
    MaxLinks     \* MAX_SYMLINKS, 8 in the code

ASSUME HandleAssumption ==
    /\ Scripts \subseteq [Thread -> Seq(Request)]
    /\ \A s \in Scripts : \A t, u \in Thread : \A i \in DOMAIN s[t], j \in DOMAIN s[u] :
         s[t][i].to # None /\ s[t][i].to = s[u][j].to => t = u /\ i = j
    /\ MaxPath \in Nat /\ MaxLinks \in Nat
    /\ Thread \cap Handle = {} /\ None \notin Thread \cup Handle

OpenOps == {"open_at", "open_dir"}
PairOps == {"rename", "link", "unknown2"}
Follow == {"stat_follow", "settimes_follow"}
PathOps == {"mkdir", "unlink", "rmdir", "symlink", "readlink", "stat", "settimes",
            "unknown"} \cup Follow
OpenFlags == {"rd", "wr", "creat", "excl", "trunc", "dir"}

\* Terms of the right kind where the calls of wasi_file_nif.erl have them.
ASSUME RequestAssumption ==
    \A r \in Request :
      /\ r.op \in OpenOps \cup PairOps \cup PathOps \cup AccessOps
                   \cup {"close", "dup", "readdir", "names"}
      /\ r.h \in Handle \/ (r.h = None /\ r.op \in OpenOps)
      /\ r.op = "open_dir" => r.h = None
      /\ r.op \in PairOps => r.h2 \in Handle
      /\ r.op \in OpenOps \cup {"dup"} => r.to \in Handle
      /\ r.path \in Seq(Comp) /\ r.path2 \in Seq(Comp)
      /\ r.fl \subseteq OpenFlags /\ r.fol \in BOOLEAN /\ r.bad \in BOOLEAN
      /\ r.len \in Nat /\ r.off \in Int
      /\ r.op = "readdir" => r.off \in Nat
      /\ r.op = "symlink" => r.arg \in Seq(Comp)
      /\ r.op \in {"futimes", "settimes", "settimes_follow"} =>
           \E D \in SUBSET Stamps : r.arg \in [D -> Time]

VARIABLES
    handle,    \* handle -> its file_handle
    call,      \* thread -> where its NIF is, and its local variables
    todo,      \* thread -> the requests it has left, the current one first
    last       \* thread -> its last request, the answer, and how many are left

hvars == <<handle, call, todo, last>>

\* "file" is not in the C structure: the file and access that the handle was
\* made for.  "st" says whether the resource exists.
NewHandle == [st |-> "none", fd |-> None, dir |-> FALSE, dirp |-> None,
              lock |-> None, file |-> None]

Idle == [pc |-> "idle", base |-> <<>>, path |-> <<>>, walk |-> <<>>,
         got |-> <<>>, hop |-> 0, num |-> None, fd |-> None, buf |-> {}, out |-> <<>>,
         used |-> 0, err |-> "ok"]

Frame == [cur : Fd, own : BOOLEAN, d : Nat, rest : Seq(Comp),
          fl : SUBSET OpenFlags, fol : BOOLEAN,
          bud : 0 .. MaxLinks, par : BOOLEAN]

HandleTypeOK ==
    /\ handle \in [Handle ->
         [st : {"none", "live", "gone"}, fd : Fd \cup {None}, dir : BOOLEAN,
          dirp : Fd \cup {None}, lock : Thread \cup {None},
          file : [node : Node, mode : SUBSET {"rd", "wr"}] \cup {None}]]
    /\ \A t \in Thread :
         /\ call[t].pc \in {"idle", "root", "lock", "held", "enter", "walk", "link",
                            "final", "act", "made", "rewind", "fill"}
         /\ call[t].base \in Seq(Fd) /\ Len(call[t].base) <= 2
         /\ call[t].walk \in Seq(Frame)
         /\ call[t].got \in Seq([fd : Fd, own : BOOLEAN, name : Comp \cup {None}])
         /\ call[t].hop \in 0 .. MaxLinks
         /\ call[t].num \in Fd \cup {None} /\ call[t].fd \in Fd \cup {None}

HandleInit ==
    /\ handle = [h \in Handle |-> NewHandle]
    /\ call = [t \in Thread |-> Idle]
    /\ todo \in Scripts
    /\ last = [t \in Thread |-> None]
-----------------------------------------------------------------------------
Req(t) == Head(todo[t])
At(t, pc) == call[t].pc = pc
Goto(t, pc) == call' = [call EXCEPT ![t].pc = pc]

\* The handle that a thread has to lock next.
Target(t) == IF call[t].base = <<>> THEN Req(t).h ELSE Req(t).h2

\* Mutant: an error return forgets the parents already found.
MutOwned(t) ==
    {call[t].base[i] : i \in DOMAIN call[t].base}
      \cup {call[t].walk[i].cur : i \in {j \in DOMAIN call[t].walk : call[t].walk[j].own}}
      \cup ({call[t].fd} \ {None})

\* The descriptors that a thread has to close before it answers an error.
Owned(t) ==
    {call[t].base[i] : i \in DOMAIN call[t].base}
      \cup {call[t].walk[i].cur : i \in {j \in DOMAIN call[t].walk : call[t].walk[j].own}}
      \cup {call[t].got[i].fd : i \in {j \in DOMAIN call[t].got : call[t].got[j].own}}
      \cup ({call[t].fd} \ {None})

Return(t, ans) ==
    /\ call' = [call EXCEPT ![t] = Idle]
    /\ todo' = [todo EXCEPT ![t] = Tail(@)]
    /\ last' = [last EXCEPT ![t] =
                  [req |-> Req(t), ans |-> ans, left |-> Len(todo[t]) - 1]]

\* The error returns: everything the call has opened is closed.
Fail(t, e) ==
    /\ Return(t, Err(e))
    /\ fds' = Shut(fds, Owned(t))
    /\ UNCHANGED <<descs, tree, moved>>

\* handle_lock: the lock, and EBADF without it when the handle is closed.  The
\* number in the handle is read here, and used by the system call that follows.
\* Mutants: calls on a file test the descriptor without the lock; no unlock.
MutLocked(h, t) == IF Req(t).op = "readdir" THEN [handle EXCEPT ![h].lock = t] ELSE handle
MutUnlocked(h) == handle
Locked(h, t) == [handle EXCEPT ![h].lock = t]
Unlocked(h) == [handle EXCEPT ![h].lock = None]
Lock(t) ==
    LET h == Target(t)
    IN  /\ At(t, "lock") /\ Req(t).op # "close"
        /\ handle[h].lock = None
        /\ IF handle[h].fd = None
           THEN Fail(t, "ebadf") /\ UNCHANGED handle
           ELSE /\ handle' = Locked(h, t)
                /\ call' = [call EXCEPT ![t].pc = "held", ![t].num = handle[h].fd]
                /\ UNCHANGED <<kvars, todo, last>>

\* The arguments of a call.  open_at_nif looks at its path and flags later.
TooLong(r) == \/ r.op \in PathOps \cup PairOps /\ Len(r.path) > MaxPath
              \/ r.op \in PairOps /\ Len(r.path2) > MaxPath
BadArgs(r) == r.bad /\ r.op \in AccessOps \cup {"readdir"}

Named(r) == ({r.h} \cup IF r.op \in PairOps THEN {r.h2} ELSE {}) \ {None}

Begin(t) ==
    LET r == Req(t)
    IN  /\ At(t, "idle") /\ todo[t] # <<>>
        /\ \A h \in Named(r) : handle[h].st = "live"
        /\ IF BadArgs(r) \/ TooLong(r)
           THEN Return(t, Err(IF BadArgs(r) THEN "badarg" ELSE "enametoolong"))
           ELSE Goto(t, IF r.h = None THEN "root" ELSE "lock") /\ UNCHANGED <<todo, last>>
        /\ UNCHANGED <<kvars, handle>>

\* pread_nif allocates its answer before it takes the lock.
NoBinary(t) ==
    /\ At(t, "lock") /\ Req(t).op = "pread"
    /\ Return(t, Err("enomem"))
    /\ UNCHANGED <<kvars, handle>>

\* The one system call of pread, pwrite, fstat, futimes, ftruncate and fsync,
\* and the unlock after it.
Access(t) ==
    LET r == Req(t)
        f == call[t].num
        n == NodeOf(f)
        res == Outcome(r, n, descs[fds[f]].mode, tree[n])
    IN  /\ At(t, "held") /\ r.op \in AccessOps
        /\ handle' = Unlocked(r.h)
        /\ Return(t, IF fds[f] = None THEN Err("ebadf") ELSE res.ans)
        /\ tree' = IF fds[f] = None THEN tree ELSE [tree EXCEPT ![n] = res.entry]
        /\ UNCHANGED <<fds, descs, moved>>

\* close_nif: the stream and the descriptor, under the lock.
Close(t) ==
    LET h == Req(t).h
    IN  /\ At(t, "lock") /\ Req(t).op = "close"
        /\ handle[h].lock = None
        /\ fds' = Shut(fds, {handle[h].fd, handle[h].dirp})
        /\ handle' = [handle EXCEPT ![h].fd = None, ![h].dirp = None]
        /\ Return(t, Ok(<<>>))
        /\ UNCHANGED <<descs, tree, moved>>

\* file_dtor: the last term that held the resource is gone.
Gc(h) ==
    /\ handle[h].st = "live"
    /\ \A t \in Thread : \A i \in DOMAIN todo[t] : h \notin Named(todo[t][i])
    /\ fds' = Shut(fds, {handle[h].fd, handle[h].dirp})
    /\ handle' = [handle EXCEPT ![h].st = "gone", ![h].fd = None, ![h].dirp = None]
    /\ UNCHANGED <<descs, tree, moved, call, todo, last>>

\* dup(2) of the handle's descriptor, between the lock and the unlock.
DupErr(t) == CASE fds[call[t].num] = None -> "ebadf"
               [] FreeFds = {} -> "emfile"
               [] OTHER -> "ok"
Duplicated(t) == Opened(fds, fds[call[t].num])

\* dup_nif: a handle is made of the duplicate.
DupHandle(t) ==
    /\ At(t, "held") /\ Req(t).op = "dup"
    /\ handle' = Unlocked(Target(t))
    /\ IF DupErr(t) # "ok"
       THEN Fail(t, DupErr(t))
       ELSE /\ fds' = Duplicated(t)
            /\ call' = [call EXCEPT ![t].pc = "made", ![t].fd = NewFd]
            /\ UNCHANGED <<descs, tree, moved, todo, last>>

\* dir_dup, and the same in open_at_nif: the walk starts from a copy, without the
\* lock.  path_op2_nif takes two of them, one after the other.
DirDup(t) ==
    LET r == Req(t)
        more == r.op \in PairOps /\ call[t].base = <<>>
    IN  /\ At(t, "held") /\ r.op \in {"open_at"} \cup PathOps \cup PairOps
        /\ handle' = Unlocked(Target(t))
        /\ IF DupErr(t) # "ok"
           THEN Fail(t, DupErr(t))
           ELSE /\ fds' = Duplicated(t)
                /\ call' = [call EXCEPT ![t].pc = IF more THEN "lock" ELSE "enter",
                              ![t].base = Append(@, NewFd), ![t].path = r.path]
                /\ UNCHANGED <<descs, tree, moved, todo, last>>

\* open(2) of a root by its path: all of open_dir_nif's, the start of open_at_nif's.
OpenRoot(t) ==
    LET r == Req(t)
    IN  /\ At(t, "root")
        /\ IF FreeFds = {}
           THEN Fail(t, "emfile")
           ELSE /\ fds' = Opened(fds, NewDesc)
                /\ descs' = Description(Top, {"rd"})
                /\ call' = [call EXCEPT
                     ![t].pc = IF r.op = "open_dir" THEN "made" ELSE "enter",
                     ![t].fd = IF r.op = "open_dir" THEN NewFd ELSE @,
                     ![t].base = IF r.op = "open_dir" THEN @ ELSE <<NewFd>>,
                     ![t].path = r.path]
                /\ UNCHANGED <<tree, moved, todo, last>>
        /\ UNCHANGED handle

\* new_handle, and the resource term as the answer.
Make(t) ==
    LET r == Req(t)
        f == call[t].fd
    IN  /\ At(t, "made") /\ handle[r.to].st = "none"
        /\ handle' = [handle EXCEPT ![r.to] =
             [NewHandle EXCEPT !.st = "live", !.fd = f,
                !.dir = IF r.op = "dup" THEN handle[r.h].dir
                        ELSE tree[NodeOf(f)].kind = "dir",
                !.file = [node |-> NodeOf(f), mode |-> descs[fds[f]].mode]]]
        /\ Return(t, Ok(<<r.to>>))
        /\ UNCHANGED kvars

\* enif_alloc_resource has no memory: the caller closes the descriptor.  That
\* enif_mutex_create never fails is assumed.
NoMemory(t) ==
    /\ At(t, "made")
    /\ Fail(t, "enomem")
    /\ UNCHANGED handle
=============================================================================
