------------------------------- MODULE FileOps ------------------------------
(***************************************************************************)
(* What the calls on an open file do to it and answer: the positional      *)
(* reads and writes, the size and the time stamps behind pread_nif,        *)
(* pwrite_nif, fstat_nif, futimes_nif, ftruncate_nif and fsync_nif.        *)
(*                                                                         *)
(* Each operator takes the request r, the file n, the access m the file    *)
(* was opened for and the entry x of the file, and gives the answer and    *)
(* the entry it leaves.                                                    *)
(***************************************************************************)
EXTENDS Integers

CONSTANTS
    Chunk,      \* MAX_IO_CHUNK
    MaxSize     \* bound: largest file

ASSUME OpsAssumption == Chunk \in Nat /\ MaxSize \in Nat

AccessOps == {"pread", "pwrite", "fstat", "futimes", "ftruncate", "fsync"}

Err(e) == [e |-> e, v |-> <<>>]
Ok(v) == [e |-> "ok", v |-> v]

Lesser(a, b) == IF a < b THEN a ELSE b
Greater(a, b) == IF a > b THEN a ELSE b

\* A mask says which stamps to set, the others are left (UTIME_OMIT).
decode_times(x, times) ==
    [x EXCEPT !.time = [s \in DOMAIN x.time |->
        IF s \in DOMAIN times THEN times[s] ELSE x.time[s]]]

stat_map(n, x) == <<n, x.kind, x.size, x.time>>

pread(r, n, m, x) ==
    LET got == Lesser(Lesser(r.len, Chunk), Greater(x.size - r.off, 0))
    IN  [ans |-> CASE r.off < 0 -> Err("einval")
                   [] "rd" \notin m -> Err("ebadf")
                   [] x.kind = "dir" -> Err("eisdir")
                   [] got = 0 -> Err("eof")
                   [] OTHER -> Ok(<<n, got>>),
         entry |-> x]

pwrite(r, n, m, x) ==
    LET len == Lesser(r.len, Chunk)
        e == CASE r.off < 0 -> "einval"
               [] "wr" \notin m -> "ebadf"
               [] r.off + len > MaxSize -> "efbig"
               [] OTHER -> "ok"
    IN  [ans |-> IF e = "ok" THEN Ok(<<n, len>>) ELSE Err(e),
         entry |-> IF e = "ok" /\ len > 0
                   THEN [x EXCEPT !.size = Greater(@, r.off + len)] ELSE x]

fstat(r, n, m, x) == [ans |-> Ok(stat_map(n, x)), entry |-> x]

futimes(r, n, m, x) == [ans |-> Ok(<<>>), entry |-> decode_times(x, r.arg)]

ftruncate(r, n, m, x) ==
    LET e == CASE "wr" \notin m -> "einval"
               [] r.len > MaxSize -> "efbig"
               [] OTHER -> "ok"
    IN  [ans |-> IF e = "ok" THEN Ok(<<>>) ELSE Err(e),
         entry |-> IF e = "ok" THEN [x EXCEPT !.size = r.len] ELSE x]

\* What cannot be synced (EINVAL, ENOTSUP) is not reported as a failure.
fsync(r, n, m, x) == [ans |-> Ok(<<>>), entry |-> x]

Outcome(r, n, m, x) ==
    CASE r.op = "pread" -> pread(r, n, m, x)
      [] r.op = "pwrite" -> pwrite(r, n, m, x)
      [] r.op = "fstat" -> fstat(r, n, m, x)
      [] r.op = "futimes" -> futimes(r, n, m, x)
      [] r.op = "ftruncate" -> ftruncate(r, n, m, x)
      [] r.op = "fsync" -> fsync(r, n, m, x)
=============================================================================
