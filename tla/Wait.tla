-------------------------------- MODULE Wait --------------------------------
(***************************************************************************)
(* wasm_wait: memory.atomic.wait and memory.atomic.notify.                 *)
(*                                                                         *)
(* A waiting agent is a process parked in a receive; a row of the public   *)
(* ETS table wasm_waiters says where to find it.  Every ETS call is one    *)
(* atomic step, and so is every send and receive; between two of them any  *)
(* other agent may run, and an agent may be killed.                        *)
(*                                                                         *)
(* References are numbered in the order make_ref/0 returns them, which is  *)
(* the order the rows are inserted: a lookup in a bag answers them so.     *)
(* The clock is left out: a finite timeout may expire at any moment.       *)
(***************************************************************************)
EXTENDS Naturals, FiniteSets, FiniteSetsExt

CONSTANTS
    Agent,        \* processes that run threaded guests
    Waiter,       \* those of Agent that call wait
    Notifier,     \* those of Agent that call notify
    Mortal,       \* those of Agent that may be killed
    Addr,         \* addresses of one shared memory
    Counts,       \* the Count arguments of notify
    MaxWaits,     \* bound: waits begun
    MaxNotifies,  \* bound: calls of notify by one agent
    None          \* no claimer, no answer, nobody watched

ASSUME WaitAssumption ==
    /\ Waiter \subseteq Agent /\ Notifier \subseteq Agent /\ Mortal \subseteq Agent
    /\ Counts \subseteq Nat
    /\ MaxWaits \in Nat /\ MaxNotifies \in Nat
    /\ None \notin Agent
    /\ None \notin {"woken", "not_equal", "timed_out", "trap"}

Ref == 1..MaxWaits
Entry == [key: Addr, pid: Agent, ref: Ref]
ASSUME NoneAssumption == None \notin Entry

Waiting == {"read", "parked", "lost", "awaiting", "watching",
            "unrow", "unclaim", "flush"}
Waking == {"filter", "wake", "named", "took", "sent", "unname", "done"}
Answer == {"woken", "not_equal", "timed_out", "trap"}

VARIABLES
    rows,      \* the waiters' rows {Key, Pid, Ref}
    claimed,   \* reference -> the process its row {claimed, Ref} names
    mail,      \* agent -> references of the {wasm_notify, Ref} it holds
    refs,      \* references made
    pc,        \* agent -> where it is in wait/4 or notify/3
    entry,     \* agent -> in wait its own row, in wake/3 the candidate
    timed,     \* agent -> does its wait have a timeout?
    watch,     \* agent -> the process lost_the_race/1 monitors
    list,      \* agent -> the rows notify/3 has still to offer
    left,      \* agent -> how many it may still wake
    calls      \* agent -> calls of notify made

(* History, read by no action: the rows notify looked up, the notifiers    *)
(* that count a wait as woken by them, and what each wait answered.        *)
VARIABLES saw, counted, answer

waitVars == <<timed, watch>>
notifyVars == <<list, left, calls, saw>>
vars == <<rows, claimed, mail, refs, pc, entry, waitVars, notifyVars,
          counted, answer>>

Alive(p) == pc[p] # "dead"
MyRef(p) == entry[p].ref

(* Between two calls: "done" is idle with a notify behind it.              *)
Free(p) == pc[p] \in {"idle", "done"}

Init ==
    /\ rows = {}
    /\ claimed = [r \in Ref |-> None]
    /\ mail = [p \in Agent |-> {}]
    /\ refs = 0
    /\ pc = [p \in Agent |-> "idle"]
    /\ entry = [p \in Agent |-> None]
    /\ timed = [p \in Agent |-> FALSE]
    /\ watch = [p \in Agent |-> None]
    /\ list = [p \in Agent |-> {}]
    /\ left = [p \in Agent |-> 0]
    /\ calls = [p \in Agent |-> 0]
    /\ saw = [p \in Agent |-> {}]
    /\ counted = [r \in Ref |-> {}]
    /\ answer = [r \in Ref |-> None]

----------------------------------------------------------------------------
(* Mutant: delete_object answers true whether or not the row was there.    *)
MutClaimAlways(e) == TRUE

(* claim/1: select_delete answers whether this caller removed the row.     *)
claim(e) == e \in rows

Goto(p, l) == pc' = [pc EXCEPT ![p] = l]
Delete(e) == rows' = rows \ {e}

(* The local variables of wait/4 go with the call, or with the process.    *)
ForgetCall(p) ==
    /\ entry' = [entry EXCEPT ![p] = None]
    /\ timed' = [timed EXCEPT ![p] = FALSE]
    /\ watch' = [watch EXCEPT ![p] = None]

(* The wait of p has its answer; what is left is its after clause.         *)
Answered(p, a) ==
    /\ answer' = [answer EXCEPT ![MyRef(p)] = a]
    /\ Goto(p, "unrow")

(* wait/4 up to the insert: the row is there before the cell is read.      *)
Register(p, a, t) ==
    /\ p \in Waiter /\ Free(p) /\ refs < MaxWaits
    /\ refs' = refs + 1
    /\ LET e == [key |-> a, pid |-> p, ref |-> refs + 1]
       IN  rows' = rows \cup {e} /\ entry' = [entry EXCEPT ![p] = e]
    /\ timed' = [timed EXCEPT ![p] = t]
    /\ Goto(p, "read")
    /\ UNCHANGED <<claimed, mail, watch, notifyVars, counted, answer>>

(* Read(): equal parks, not_equal answers 1, a load past the memory's end   *)
(* traps.  Which it is depends on what the other agents have stored.       *)
Read(p) ==
    /\ pc[p] = "read"
    /\ \/ Goto(p, "parked") /\ UNCHANGED answer
       \/ Answered(p, "not_equal")
       \/ Answered(p, "trap")
    /\ UNCHANGED <<rows, claimed, mail, refs, entry, waitVars, notifyVars,
                   counted>>

(* The receives of park/3 and lost_the_race/1 take the message.            *)
Receive(p) ==
    /\ pc[p] \in {"parked", "awaiting", "watching"}
    /\ MyRef(p) \in mail[p]
    /\ mail' = [mail EXCEPT ![p] = @ \ {MyRef(p)}]
    /\ Answered(p, "woken")
    /\ UNCHANGED <<rows, claimed, refs, entry, waitVars, notifyVars,
                   counted>>

(* Mutant: the waiter deletes its row without asking who removed it.       *)
MutTimeOut(p) ==
    /\ pc[p] = "parked" /\ timed[p]
    /\ MyRef(p) \notin mail[p]
    /\ Delete(entry[p])
    /\ Answered(p, "timed_out")
    /\ UNCHANGED <<claimed, mail, refs, entry, waitVars, notifyVars, counted>>

(* The timeout expires, and the waiter races the notifiers for its row.    *)
TimeOut(p) ==
    /\ pc[p] = "parked" /\ timed[p]
    /\ \/ /\ claim(entry[p])
          /\ Delete(entry[p])
          /\ Answered(p, "timed_out")
       \/ /\ ~claim(entry[p])
          /\ Goto(p, "lost")
          /\ UNCHANGED <<rows, answer>>
    /\ UNCHANGED <<claimed, mail, refs, entry, waitVars, notifyVars,
                   counted>>

(* Mutant: the loser waits for the message alone.                          *)
MutLostTheRace(p) ==
    /\ pc[p] = "lost"
    /\ Goto(p, "awaiting")
    /\ UNCHANGED <<rows, claimed, mail, refs, entry, waitVars, notifyVars,
                   counted, answer>>

(* lost_the_race/1: no name, receive; a name, monitor it and receive.      *)
LostTheRace(p) ==
    /\ pc[p] = "lost"
    /\ LET c == claimed[MyRef(p)]
       IN  /\ Goto(p, IF c = None THEN "awaiting" ELSE "watching")
           /\ watch' = [watch EXCEPT ![p] = c]
    /\ UNCHANGED <<rows, claimed, mail, refs, entry, timed,
                   notifyVars, counted, answer>>

(* The DOWN of the claimer.  What it sent before it died is ahead of it.   *)
ClaimerDown(p) ==
    /\ pc[p] = "watching"
    /\ MyRef(p) \notin mail[p]
    /\ ~Alive(watch[p])
    /\ Answered(p, "timed_out")
    /\ UNCHANGED <<rows, claimed, mail, refs, entry, waitVars,
                   notifyVars, counted>>

(* The after clause: the row, any name left for it, then the mailbox.      *)
Unrow(p) ==
    /\ pc[p] = "unrow"
    /\ Delete(entry[p])
    /\ Goto(p, "unclaim")
    /\ UNCHANGED <<claimed, mail, refs, entry, waitVars, notifyVars,
                   counted, answer>>

Unclaim(p) ==
    /\ pc[p] = "unclaim"
    /\ claimed' = [claimed EXCEPT ![MyRef(p)] = None]
    /\ Goto(p, "flush")
    /\ UNCHANGED <<rows, mail, refs, entry, waitVars, notifyVars,
                   counted, answer>>

Flush(p) ==
    /\ pc[p] = "flush"
    /\ mail' = [mail EXCEPT ![p] = @ \ {MyRef(p)}]
    /\ Goto(p, "idle")
    /\ ForgetCall(p)
    /\ UNCHANGED <<rows, claimed, refs, notifyVars, counted, answer>>

----------------------------------------------------------------------------
(* A lookup in a bag answers the rows in the order of their insertion.     *)
Oldest(e, es) == \A f \in es : e.ref <= f.ref

(* notify/3: the address is checked, then the waiters are looked up once.  *)
Notify(p, a, n) ==
    /\ p \in Notifier /\ Free(p) /\ calls[p] < MaxNotifies
    /\ calls' = [calls EXCEPT ![p] = @ + 1]
    /\ LET found == {e \in rows : e.key = a}
       IN  /\ list' = [list EXCEPT ![p] = found]
           /\ saw' = [saw EXCEPT ![p] = found]
    /\ left' = [left EXCEPT ![p] = n]
    /\ Goto(p, "filter")
    /\ UNCHANGED <<rows, claimed, mail, refs, entry, waitVars, counted,
                   answer>>

(* Mutant: only the first Count of the living waiters are offered.         *)
MutFilter(p) ==
    /\ pc[p] = "filter"
    /\ LET gone == {e \in list[p] : ~Alive(e.pid)}
           older(e) == {f \in list[p] \ gone : f.ref < e.ref}
       IN  /\ list' = [list EXCEPT ![p] =
                          {e \in @ \ gone : Cardinality(older(e)) < left[p]}]
           /\ rows' = rows \ gone
    /\ Goto(p, "wake")
    /\ UNCHANGED <<claimed, mail, refs, entry, waitVars, left, calls, saw,
                   counted, answer>>

(* live/1: the rows of dead waiters are dropped, the others offered.  The  *)
(* checks are one step: each depends on one process and concerns its row.  *)
Filter(p) ==
    /\ pc[p] = "filter"
    /\ LET gone == {e \in list[p] : ~Alive(e.pid)}
       IN  /\ list' = [list EXCEPT ![p] = @ \ gone]
           /\ rows' = rows \ gone
    /\ Goto(p, "wake")
    /\ UNCHANGED <<claimed, mail, refs, entry, waitVars, left, calls,
                   saw, counted, answer>>

(* Mutant: Count bounds the waiters tried as well as those woken.          *)
MutNameCounts(p) ==
    /\ pc[p] = "wake" /\ left[p] > 0 /\ list[p] # {}
    /\ \E e \in list[p] :
           /\ Oldest(e, list[p])
           /\ list' = [list EXCEPT ![p] = @ \ {e}]
           /\ left' = [left EXCEPT ![p] = @ - 1]
           /\ \/ /\ claimed[e.ref] # None
                 /\ UNCHANGED <<claimed, entry, pc>>
              \/ /\ claimed[e.ref] = None
                 /\ claimed' = [claimed EXCEPT ![e.ref] = p]
                 /\ entry' = [entry EXCEPT ![p] = e]
                 /\ Goto(p, "named")
    /\ UNCHANGED <<rows, mail, refs, waitVars, calls, saw, counted, answer>>

(* wake/3: insert_new of the name.  Who does not get it does not claim.    *)
Name(p) ==
    /\ pc[p] = "wake" /\ left[p] > 0 /\ list[p] # {}
    /\ \E e \in list[p] :
           /\ Oldest(e, list[p])
           /\ list' = [list EXCEPT ![p] = @ \ {e}]
           /\ \/ /\ claimed[e.ref] # None
                 /\ UNCHANGED <<claimed, entry, pc>>
              \/ /\ claimed[e.ref] = None
                 /\ claimed' = [claimed EXCEPT ![e.ref] = p]
                 /\ entry' = [entry EXCEPT ![p] = e]
                 /\ Goto(p, "named")
    /\ UNCHANGED <<rows, mail, refs, waitVars, left, calls, saw,
                   counted, answer>>

(* Mutant: the name is deleted once the row is claimed, before the send.   *)
MutClaimUnnames(p) ==
    /\ pc[p] = "named"
    /\ claimed' = [claimed EXCEPT ![MyRef(p)] = None]
    /\ \/ /\ claim(entry[p])
          /\ Delete(entry[p])
          /\ counted' = [counted EXCEPT ![MyRef(p)] = @ \cup {p}]
          /\ Goto(p, "took")
       \/ /\ ~claim(entry[p])
          /\ Goto(p, "unname")
          /\ UNCHANGED <<rows, counted>>
    /\ UNCHANGED <<mail, refs, entry, waitVars, notifyVars, answer>>

Claim(p) ==
    /\ pc[p] = "named"
    /\ \/ /\ claim(entry[p])
          /\ Delete(entry[p])
          /\ counted' = [counted EXCEPT ![MyRef(p)] = @ \cup {p}]
          /\ Goto(p, "took")
       \/ /\ ~claim(entry[p])
          /\ Goto(p, "unname")
          /\ UNCHANGED <<rows, counted>>
    /\ UNCHANGED <<claimed, mail, refs, entry, waitVars, notifyVars,
                   answer>>

(* The send, to a process that may be gone or may have left its wait.      *)
Send(p) ==
    /\ pc[p] = "took"
    /\ LET w == entry[p].pid
       IN  mail' = [mail EXCEPT ![w] = IF Alive(w) THEN @ \cup {MyRef(p)} ELSE @]
    /\ Goto(p, "sent")
    /\ UNCHANGED <<rows, claimed, refs, entry, waitVars, notifyVars,
                   counted, answer>>

(* The name is deleted by its key, whoever it names by now.                *)
Unname(p) ==
    /\ pc[p] \in {"sent", "unname"}
    /\ claimed' = [claimed EXCEPT ![MyRef(p)] = None]
    /\ left' = [left EXCEPT ![p] = IF pc[p] = "sent" THEN @ - 1 ELSE @]
    /\ entry' = [entry EXCEPT ![p] = None]
    /\ Goto(p, "wake")
    /\ UNCHANGED <<rows, mail, refs, waitVars, list, calls, saw,
                   counted, answer>>

(* wake/3 ends: Count are woken, or the whole list was offered.            *)
Woke(p) ==
    /\ pc[p] = "wake"
    /\ left[p] = 0 \/ list[p] = {}
    /\ list' = [list EXCEPT ![p] = {}]
    /\ Goto(p, "done")
    /\ UNCHANGED <<rows, claimed, mail, refs, entry, waitVars, left,
                   calls, saw, counted, answer>>

(* exit(Pid, kill), as a worker's timeout does: no after clause runs.      *)
Kill(p) ==
    /\ p \in Mortal /\ Alive(p)
    /\ Goto(p, "dead")
    /\ mail' = [mail EXCEPT ![p] = {}]
    /\ ForgetCall(p)
    /\ list' = [list EXCEPT ![p] = {}]
    /\ left' = [left EXCEPT ![p] = 0]
    /\ saw' = [saw EXCEPT ![p] = {}]
    /\ UNCHANGED <<rows, claimed, refs, calls, counted, answer>>

----------------------------------------------------------------------------
WaitStep(p) ==
    \/ Read(p) \/ Receive(p) \/ TimeOut(p) \/ LostTheRace(p) \/ ClaimerDown(p)
    \/ Unrow(p) \/ Unclaim(p) \/ Flush(p)

NotifyStep(p) ==
    \/ Filter(p) \/ Name(p) \/ Claim(p) \/ Send(p) \/ Unname(p)
    \/ Woke(p)

Next ==
    \E p \in Agent :
        \/ \E a \in Addr, t \in BOOLEAN : Register(p, a, t)
        \/ WaitStep(p)
        \/ \E a \in Addr, n \in Counts : Notify(p, a, n)
        \/ NotifyStep(p)
        \/ Kill(p)

Spec == Init /\ [][Next]_vars

(* A process that can run is scheduled, and a timer that runs expires.     *)
FairSpec ==
    /\ Spec
    /\ \A p \in Agent : WF_vars(WaitStep(p)) /\ WF_vars(NotifyStep(p))

----------------------------------------------------------------------------
(* Every variable holds a value of its kind. *)
TypeOK ==
    /\ rows \subseteq Entry
    /\ claimed \in [Ref -> Agent \cup {None}]
    /\ mail \in [Agent -> SUBSET Ref]
    /\ refs \in 0..MaxWaits
    /\ pc \in [Agent -> {"idle", "dead"} \cup Waiting \cup Waking]
    /\ entry \in [Agent -> Entry \cup {None}]
    /\ timed \in [Agent -> BOOLEAN]
    /\ watch \in [Agent -> Agent \cup {None}]
    /\ list \in [Agent -> SUBSET Entry]
    /\ left \in [Agent -> Nat]
    /\ calls \in [Agent -> Nat]
    /\ saw \in [Agent -> SUBSET Entry]
    /\ counted \in [Ref -> SUBSET Agent]
    /\ answer \in [Ref -> Answer \cup {None}]

(* No two notifiers count the same waiter, so the numbers two concurrent   *)
(* calls of notify return never add up to more than the waiters they ended. *)
OneWinner == \A r \in Ref : \A n, m \in counted[r] : n = m

(* Waiter and notifier agree on who won: a wait that answers "timed out"   *)
(* is counted by nobody, unless by a notifier that died before it sent,    *)
(* and one that answers "woken" is counted.                                *)
AnswersAgree ==
    \A r \in Ref :
        /\ answer[r] = "timed_out" => \A n \in counted[r] : ~Alive(n)
        /\ answer[r] = "woken" => counted[r] # {}

(* A waiter that lost the race and found no name receives without a        *)
(* timeout: the message must be in its mailbox already.                    *)
AwaitHasMail ==
    \A p \in Agent : pc[p] = "awaiting" => MyRef(p) \in mail[p]

(* A wait that parked leaves no message behind in its process's mailbox.   *)
SweptAfterPark ==
    \A p \in Agent : \A r \in mail[p] :
        answer[r] \notin {"woken", "timed_out"}

(* When notify returns having woken fewer than Count, no waiter that it    *)
(* looked up is still parked with its row in the table, but for one that   *)
(* another notifier is about to claim or whose row {claimed, Ref} names a  *)
(* notifier that was killed.                                               *)
LostOnlyToTheDead ==
    \A n \in Agent : pc[n] = "done" /\ left[n] > 0 =>
        \A e \in saw[n] \cap rows :
            \/ ~Alive(e.pid)
            \/ \E m \in Agent : /\ claimed[e.ref] = m
                                /\ Alive(m) => pc[m] = "named" /\ entry[m] = e

(* A wait with a timeout ends, whatever the notifiers do or die of.        *)
TimedWaitReturns ==
    \A p \in Waiter :
        (pc[p] \in Waiting /\ timed[p]) ~> (Free(p) \/ ~Alive(p))
=============================================================================
