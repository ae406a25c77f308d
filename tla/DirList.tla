------------------------------- MODULE DirList ------------------------------
(***************************************************************************)
(* Reading a directory: readdir_nif, one page of entries from a cookie     *)
(* under the lock of the handle, and readdir_names_nif, all the names from *)
(* a duplicate of the descriptor without the lock.                         *)
(*                                                                         *)
(* Both read a stream (DIR) of the C library, which takes entries from the *)
(* kernel in batches at the position of the open file description.  A      *)
(* cookie is such a position.                                              *)
(***************************************************************************)
EXTENDS FileHandle

CONSTANTS
    Hdr,        \* DIRENT_HDR, 24 in the code
    NameLen     \* name -> its length

ASSUME ListAssumption ==
    /\ Hdr \in Nat \ {0}
    /\ NameLen \in [Name \cup {".", ".."} -> Nat \ {0}]

Stream(t) == IF Req(t).op = "names" THEN call[t].base[1] ELSE handle[Req(t).h].dirp

Sought(d, pos) == [descs EXCEPT ![d].pos = pos]

\* readdir_nif up to its loop: the stream is opened once and kept on the handle,
\* then put at the cookie (0 rewinds).  fdopendir or the buffer may fail.
OpenStream(t) ==
    LET r == Req(t)
        h == handle[r.h]
        new == h.dirp = None
        e == CASE ~h.dir -> "enotdir"
               [] fds[call[t].num] = None -> "ebadf"
               [] new /\ FreeFds = {} -> "emfile"
               [] OTHER -> "ok"
        kept == [handle EXCEPT ![r.h].dirp = IF new THEN NewFd ELSE @]
    IN  /\ At(t, "held") /\ r.op = "readdir"
        /\ UNCHANGED <<tree, moved>>
        /\ \/ /\ e # "ok"
              /\ handle' = Unlocked(r.h)
              /\ Return(t, Err(e))
              /\ UNCHANGED <<fds, descs>>
           \/ /\ e = "ok" /\ new
              /\ handle' = Unlocked(r.h)
              /\ Return(t, Err("enomem"))
              /\ UNCHANGED <<fds, descs>>
           \/ /\ e = "ok"
              /\ fds' = IF new THEN Opened(fds, fds[call[t].num]) ELSE fds
              /\ descs' = Sought(fds[IF new THEN call[t].num ELSE h.dirp], r.off)
              /\ \/ handle' = kept /\ Goto(t, "fill") /\ UNCHANGED <<todo, last>>
                 \/ /\ handle' = [kept EXCEPT ![r.h].lock = None]
                    /\ Return(t, Err("enomem"))

\* readdir_names_nif: a duplicate under the lock, then fdopendir and rewinddir.
NamesDup(t) ==
    LET e == IF ~handle[Req(t).h].dir THEN "enotdir" ELSE DupErr(t)
    IN  /\ At(t, "held") /\ Req(t).op = "names"
        /\ handle' = Unlocked(Req(t).h)
        /\ IF e # "ok"
           THEN Fail(t, e)
           ELSE /\ fds' = Duplicated(t)
                /\ call' = [call EXCEPT ![t].pc = "rewind", ![t].base = <<NewFd>>]
                /\ UNCHANGED <<descs, tree, moved, todo, last>>
Rewind(t) ==
    /\ At(t, "rewind")
    /\ \/ Fail(t, "enomem")
       \/ /\ descs' = Sought(fds[Stream(t)], 0)
          /\ Goto(t, "fill")
          /\ UNCHANGED <<fds, tree, moved, todo, last>>
    /\ UNCHANGED handle

\* readdir(3) with its buffer used up: a batch from the kernel.
Getdents(t) ==
    LET dents == Dents(Stream(t))
    IN  /\ At(t, "fill") /\ call[t].buf = {} /\ dents # {}
        /\ call' = [call EXCEPT ![t].buf = dents]
        /\ descs' = Sought(fds[Stream(t)], Max(dents))
        /\ UNCHANGED <<fds, tree, moved, handle, todo, last>>

\* The end of the loop.  readdir_nif answers what it has, or the error of a read
\* if it has nothing; readdir_names_nif does not look at the error.
Finish(t, out, used, err) ==
    IF Req(t).op = "names"
    THEN /\ Return(t, [e |-> "ok", names |-> out, err |-> err])
         /\ fds' = Shut(fds, Owned(t))
         /\ UNCHANGED handle
    ELSE /\ Return(t, IF err # "ok" /\ used = 0 THEN Err(err)
                      ELSE [e |-> "ok", page |-> out, err |-> err, used |-> used])
         /\ handle' = Unlocked(Req(t).h)
         /\ UNCHANGED fds

EndOfDir(t) ==
    /\ At(t, "fill") /\ call[t].buf = {} /\ Dents(Stream(t)) = {}
    /\ Finish(t, call[t].out, call[t].used, "ok")
    /\ UNCHANGED <<descs, tree, moved>>

ReadFails(t) ==
    /\ At(t, "fill") /\ call[t].buf = {}
    /\ Finish(t, call[t].out, call[t].used, "eio")
    /\ UNCHANGED <<descs, tree, moved>>

\* readdir_names_nif puts each name in front of the list.
TakeName(t) ==
    LET i == Min(call[t].buf)
    IN  /\ At(t, "fill") /\ call[t].buf # {} /\ Req(t).op = "names"
        /\ call' = [call EXCEPT ![t].buf = @ \ {i}, ![t].out = <<Order[i]>> \o @]
        /\ UNCHANGED <<kvars, handle, todo, last>>

\* One entry of readdir_nif: all of it, or as much as there is room for as the last.
EntrySize(name) == Hdr + NameLen[name]
CutSize(name, room) ==
    LET take == Lesser(room, Hdr)
    IN  IF take = Hdr THEN Hdr + Lesser(room - Hdr, NameLen[name]) ELSE take
\* Mutant: an entry carries its own cookie, not that of the one after it.
MutPacked(i, bytes) == [name |-> Order[i], next |-> i - 1, bytes |-> bytes]
Packed(i, bytes) == [name |-> Order[i], next |-> i, bytes |-> bytes]

PackEntry(t) ==
    LET r == Req(t)
        i == Min(call[t].buf)
        esz == EntrySize(Order[i])
        used == call[t].used
        cut == CutSize(Order[i], r.len - used)
    IN  /\ At(t, "fill") /\ call[t].buf # {} /\ r.op = "readdir"
        /\ CASE used + esz <= r.len ->
                  /\ call' = [call EXCEPT ![t].buf = @ \ {i}, ![t].used = @ + esz,
                                ![t].out = Append(@, Packed(i, esz))]
                  /\ UNCHANGED <<fds, handle, todo, last>>
             [] used + esz > r.len /\ used < r.len ->
                  Finish(t, Append(call[t].out, Packed(i, cut)), used + cut, "ok")
             [] OTHER -> Finish(t, call[t].out, used, "ok")
        /\ UNCHANGED <<descs, tree, moved>>
=============================================================================
