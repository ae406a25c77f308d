------------------------------- MODULE FileApi ------------------------------
(***************************************************************************)
(* What wasi_file_nif promises of a handle: it stands for one file from    *)
(* the call that makes it until it is closed, every call on it is one      *)
(* atomic access to that file, and after the close there is only EBADF.    *)
(* There are no descriptors here, and no locks.                            *)
(***************************************************************************)
EXTENDS FileOps

CONSTANTS Thread, Handle, None

VARIABLES
    file,      \* handle -> the file and the access it was opened for
    open,      \* the handles that are open
    data,      \* file -> its entry
    reply      \* thread -> its last request and the answer

vars == <<file, open, data, reply>>

Init ==
    /\ file = [h \in Handle |-> None]
    /\ open = {}
    /\ reply = [t \in Thread |-> None]

\* The call of t ends, and no other call does; it is a call of one of ops.
Answered(t, ops) == reply'[t] # reply[t] /\ reply'[t].req.op \in ops
Answers(t, ans) ==
    reply' = [reply EXCEPT ![t] = [reply'[t] EXCEPT !.ans = ans]]

\* A call that makes a handle.  A duplicate stands for the same file.
Grant(t) ==
    LET r == reply'[t].req
    IN  /\ Answered(t, {"open_at", "open_dir", "dup"})
        /\ Answers(t, Ok(<<r.to>>))
        /\ file[r.to] = None
        /\ file' = [file EXCEPT ![r.to] = file'[r.to]]
        /\ r.op = "dup" => file'[r.to] = file[r.h]
        /\ open' = open \cup {r.to}
        /\ UNCHANGED data

\* A call on a handle.
Serve(t) ==
    LET r == reply'[t].req
        f == file[r.h]
        res == Outcome(r, f.node, f.mode, data[f.node])
    IN  /\ Answered(t, AccessOps)
        /\ \/ /\ ~r.bad /\ r.h \in open
              /\ Answers(t, res.ans)
              /\ data' = [data EXCEPT ![f.node] = res.entry]
           \/ /\ ~r.bad /\ r.h \notin open
              /\ Answers(t, Err("ebadf"))
              /\ UNCHANGED data
           \/ /\ r.bad
              /\ Answers(t, Err("badarg"))
              /\ UNCHANGED data
           \/ /\ ~r.bad /\ r.op = "pread"
              /\ Answers(t, Err("enomem"))
              /\ UNCHANGED data
        /\ UNCHANGED <<file, open>>

\* A close, by a call or by the garbage collector, of one handle and no other.
Close(h) ==
    /\ h \in open
    /\ open' = open \ {h}
    /\ \A t \in Thread : reply'[t] # reply[t] => Answered(t, {"close"})
    /\ UNCHANGED <<file, data>>

\* Calls that name files by paths, or list them, and other processes: they change
\* no handle.  They may make and remove names and files, and set sizes and times.
ByName ==
    /\ ~\E t \in Thread : Answered(t, AccessOps)
    /\ UNCHANGED <<file, open>>

Next == \/ \E t \in Thread : Grant(t) \/ Serve(t)
        \/ \E h \in Handle : Close(h)
        \/ ByName

Spec == Init /\ [][Next]_vars
=============================================================================
