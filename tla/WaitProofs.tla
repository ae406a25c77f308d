----------------------------- MODULE WaitProofs -----------------------------
(***************************************************************************)
(* Proofs about Wait: who ends a wait, that a waiter that lost the race    *)
(* has its message, that waiter and notifier agree, that a parked wait     *)
(* leaves no message behind, and that only a killed notifier makes notify  *)
(* pass over a parked waiter.                                              *)
(*                                                                         *)
(* The argument: a row is inserted once and removed by one process (RowsOK *)
(* and GoneOK); the name {claimed, Ref} belongs to one notifier for as     *)
(* long as the waiter is inside its wait (NamedOK); so a waiter whose row  *)
(* is gone has its message, or the process named for it has claimed the    *)
(* row and not sent, or died with it (WakeOK, WatchOK).                    *)
(***************************************************************************)
EXTENDS Wait, TLAPS

Holding == {"named", "took", "sent", "unname"}
InWait == {"read", "parked", "lost", "awaiting", "watching", "unrow", "unclaim"}
Parking == {"read", "parked", "lost", "awaiting", "watching"}

(* Whoever has a candidate or a wait of his own has its row at hand, and a  *)
(* candidate is only taken while there is one left to wake.                *)
PhaseOK ==
    \A p \in Agent :
        /\ pc[p] \in Waiting => entry[p] \in Entry /\ entry[p].pid = p
        /\ pc[p] \in Holding => entry[p] \in Entry /\ left[p] > 0

(* A reference belongs to one row, wherever copies of that row are.        *)
Known == {e \in Entry : \/ e \in rows
                        \/ \E p \in Agent : e = entry[p] \/ e \in list[p] \/ e \in saw[p]}
KnownOK ==
    \A e, f \in Known : e.ref <= refs /\ (e.ref = f.ref => e = f)

(* Nothing is said about a reference before it is made.                    *)
FreshOK ==
    \A r \in Ref : r > refs =>
        /\ counted[r] = {} /\ answer[r] = None /\ claimed[r] = None
        /\ \A p \in Agent : r \notin mail[p]

(* A row in the table: nobody counts it, and a living waiter is at it.     *)
RowsOK ==
    \A e \in rows :
        /\ counted[e.ref] = {}
        /\ answer[e.ref] \notin {"woken", "timed_out"}
        /\ Alive(e.pid) => entry[e.pid] = e /\ pc[e.pid] \in {"read", "parked", "unrow"}

(* A row that was removed does not come back.                              *)
GoneOK ==
    \A p \in Agent :
        pc[p] \in {"lost", "awaiting", "watching", "took", "sent", "unname",
                   "unclaim", "flush"} => entry[p] \notin rows

(* A name belongs to a notifier that holds the candidate or is dead, and a *)
(* notifier holds its candidate by name until the waiter leaves.           *)
NamedOK ==
    /\ \A r \in Ref : claimed[r] # None =>
          \/ ~Alive(claimed[r])
          \/ pc[claimed[r]] \in Holding /\ entry[claimed[r]].ref = r
    /\ \A n, p \in Agent :
          pc[n] \in Holding /\ pc[p] \in InWait /\ entry[n] = entry[p] =>
              claimed[entry[n].ref] = n

(* A waiter whose row is gone has its message, or its claimer has yet to   *)
(* send it, or died before it did.                                         *)
WakeOK ==
    \A p \in Agent :
        pc[p] \in Parking /\ entry[p] \notin rows =>
            \/ entry[p].ref \in mail[p]
            \/ /\ claimed[entry[p].ref] \in counted[entry[p].ref]
               /\ \/ ~Alive(claimed[entry[p].ref])
                  \/ /\ pc[claimed[entry[p].ref]] = "took"
                     /\ entry[claimed[entry[p].ref]] = entry[p]

(* A waiter watches the process its name names, until the message is there. *)
WatchOK ==
    \A p \in Agent :
        pc[p] = "watching" /\ entry[p].ref \notin mail[p] =>
            claimed[entry[p].ref] = watch[p]

(* A message is for the process that waits with its reference, and whoever *)
(* sent it counts it.                                                      *)
MailOK ==
    \A q \in Agent : \A r \in mail[q] :
        /\ counted[r] # {}
        /\ \A p \in Agent : pc[p] \in Waiting /\ entry[p].ref = r => p = q

(* A notifier about to send: it counts the waiter, and nobody sent before. *)
TookOK ==
    \A n \in Agent :
        /\ pc[n] \in {"took", "sent"} => n \in counted[entry[n].ref]
        /\ pc[n] = "took" => /\ answer[entry[n].ref] \notin {"woken", "timed_out"}
                             /\ \A q \in Agent : entry[n].ref \notin mail[q]

(* A row another process holds by name: a living notifier about to claim   *)
(* it, or a dead one.                                                      *)
Held(e) ==
    \E m \in Agent : /\ claimed[e.ref] = m
                     /\ Alive(m) => pc[m] = "named" /\ entry[m] = e

(* Every waiter notify looked up and has not reached is still on its list. *)
OfferedOK ==
    \A n \in Agent : \A e \in saw[n] \cap rows :
        /\ pc[n] = "filter" => e \in list[n]
        /\ pc[n] = "wake" \/ pc[n] \in Holding =>
              ~Alive(e.pid) \/ e \in list[n] \/ Held(e)
        /\ pc[n] = "done" /\ left[n] > 0 => ~Alive(e.pid) \/ Held(e)

Inv ==
    /\ TypeOK /\ PhaseOK /\ KnownOK /\ FreshOK
    /\ RowsOK /\ GoneOK /\ NamedOK /\ WakeOK /\ WatchOK /\ MailOK /\ TookOK
    /\ OneWinner /\ AwaitHasMail /\ AnswersAgree /\ SweptAfterPark
    /\ OfferedOK
----------------------------------------------------------------------------
(* The rows agents have at hand are rows of the table or once were, and a  *)
(* reference says which.                                                   *)
LEMMA AtHand ==
  ASSUME Inv, NEW p \in Agent, pc[p] \in Waiting \/ pc[p] \in Holding
  PROVE  /\ entry[p] \in Entry /\ entry[p] \in Known
         /\ entry[p].ref \in Ref /\ entry[p].pid \in Agent
         /\ entry[p].ref <= refs
<1>1. entry[p] \in Entry BY DEF Inv, PhaseOK
<1>2. entry[p] \in Known BY <1>1 DEF Known
<1>3. QED BY <1>1, <1>2 DEF Inv, KnownOK, Entry

(* Two agents with the same reference have the same row at hand.           *)
LEMMA SameRef ==
  ASSUME Inv, NEW p \in Agent, pc[p] \in Waiting \/ pc[p] \in Holding,
         NEW q \in Agent, pc[q] \in Waiting \/ pc[q] \in Holding,
         entry[p].ref = entry[q].ref
  PROVE  entry[p] = entry[q]
BY AtHand DEF Inv, KnownOK

(* So has an agent with the reference of a row of the table.               *)
LEMMA RowRef ==
  ASSUME Inv, NEW e \in rows, NEW q \in Agent,
         pc[q] \in Waiting \/ pc[q] \in Holding, e.ref = entry[q].ref
  PROVE  e = entry[q]
<1>1. e \in Known BY DEF Known, Inv, TypeOK
<1>2. QED BY <1>1, AtHand DEF Inv, KnownOK

(* wait/4 inserts a row under a reference nobody has seen.                 *)
LEMMA RegisterInv ==
  ASSUME Inv, NEW p \in Agent, NEW a \in Addr, NEW t \in BOOLEAN, Register(p, a, t)
  PROVE  Inv'
<1> USE DEF Inv, Register, Goto, Free, waitVars, notifyVars, Alive, MyRef,
      Waiting, Waking, Holding, InWait, Parking, Ref, Entry
<1> USE WaitAssumption
<1> refs + 1 \in Ref /\ refs \in Nat BY DEF TypeOK
<1>a. \A q \in Agent : pc[q] \in Waiting \/ pc[q] \in Holding =>
          entry[q] \in Entry /\ entry[q].ref <= refs
  BY AtHand
<1>b. \A q \in Agent : \A e \in saw[q] : e.ref <= refs
  BY DEF TypeOK, KnownOK, Known
<1>1. TypeOK' BY DEF TypeOK, Answer
<1>2. PhaseOK' BY DEF TypeOK, PhaseOK
<1>3. KnownOK'
  <2> DEFINE e == [key |-> a, pid |-> p, ref |-> refs + 1]
  <2>1. Known' \subseteq Known \cup {e} BY DEF Known, TypeOK
  <2>2. \A f \in Known : f.ref <= refs BY DEF KnownOK
  <2>3. QED BY <2>1, <2>2 DEF KnownOK, Known
<1>4. FreshOK' BY DEF TypeOK, FreshOK
<1>5. RowsOK' BY DEF TypeOK, PhaseOK, KnownOK, Known, FreshOK, RowsOK, GoneOK,
        MailOK
<1>6. GoneOK' BY <1>a DEF TypeOK, GoneOK
<1>7. NamedOK' BY <1>a DEF TypeOK, NamedOK
<1>8. WakeOK' BY DEF TypeOK, PhaseOK, WakeOK
<1>9. WatchOK' BY DEF TypeOK, PhaseOK, WatchOK
<1>10. MailOK' BY DEF TypeOK, PhaseOK, KnownOK, Known, FreshOK, MailOK, TookOK
<1>11. TookOK' BY DEF TypeOK, PhaseOK, TookOK
<1>12. OneWinner' BY DEF TypeOK, OneWinner
<1>13. AwaitHasMail' BY DEF TypeOK, AwaitHasMail
<1>14. AnswersAgree' BY DEF TypeOK, AnswersAgree
<1>15. SweptAfterPark' BY DEF TypeOK, SweptAfterPark
<1>16. OfferedOK' BY <1>b DEF TypeOK, OfferedOK, Held
<1>17. QED BY <1>1, <1>2, <1>3, <1>4, <1>5, <1>6, <1>7, <1>8, <1>9, <1>10,
        <1>11, <1>12, <1>13, <1>14, <1>15, <1>16

(* Read() answers equal and the waiter parks, its row perhaps already      *)
(* claimed.                                                                *)
LEMMA ReadParks ==
  ASSUME Inv, NEW p \in Agent,
         pc[p] = "read",
         pc' = [pc EXCEPT ![p] = "parked"],
         UNCHANGED <<rows, claimed, mail, refs, entry, timed, watch, list,
                    left, calls, saw, counted, answer>>
  PROVE  Inv'
<1> USE DEF Inv, Alive, MyRef, Waiting, Waking, Holding, InWait, Parking, Ref,
      Entry
<1> USE WaitAssumption
<1> entry[p] \in Entry /\ entry[p].ref \in Ref /\ entry[p].pid \in Agent
  BY AtHand
<1> entry[p].ref <= refs BY AtHand
<1>1. TypeOK' BY DEF TypeOK, Answer
<1>2. PhaseOK' BY DEF TypeOK, PhaseOK
<1>3. KnownOK' BY DEF TypeOK, KnownOK, Known
<1>4. FreshOK' BY DEF TypeOK, FreshOK
<1>5. RowsOK' BY DEF TypeOK, PhaseOK, RowsOK
<1>6. GoneOK' BY DEF TypeOK, GoneOK
<1>7. NamedOK' BY DEF TypeOK, PhaseOK, NamedOK
<1>8. WakeOK' BY DEF TypeOK, PhaseOK, WakeOK
<1>9. WatchOK' BY DEF TypeOK, PhaseOK, WatchOK
<1>10. MailOK' BY DEF TypeOK, PhaseOK, MailOK
<1>11. TookOK' BY DEF TypeOK, PhaseOK, TookOK
<1>12. OneWinner' BY DEF TypeOK, OneWinner
<1>13. AwaitHasMail' BY DEF TypeOK, AwaitHasMail
<1>14. AnswersAgree' BY DEF TypeOK, AnswersAgree
<1>15. SweptAfterPark' BY DEF TypeOK, SweptAfterPark
<1>16. OfferedOK' BY DEF TypeOK, OfferedOK, Held
<1>17. QED BY <1>1, <1>2, <1>3, <1>4, <1>5, <1>6, <1>7, <1>8, <1>9, <1>10,
        <1>11, <1>12, <1>13, <1>14, <1>15, <1>16

(* Read() answers not_equal, or traps: the wait ends with its row in the   *)
(* table or already a notifier's.                                          *)
LEMMA ReadEnds ==
  ASSUME Inv, NEW p \in Agent, NEW x \in {"not_equal", "trap"},
         pc[p] = "read",
         pc' = [pc EXCEPT ![p] = "unrow"],
         answer' = [answer EXCEPT ![entry[p].ref] = x],
         UNCHANGED <<rows, claimed, mail, refs, entry, timed, watch, list,
                    left, calls, saw, counted>>
  PROVE  Inv'
<1> USE DEF Inv, Alive, MyRef, Waiting, Waking, Holding, InWait, Parking, Ref,
      Entry
<1> USE WaitAssumption
<1> entry[p] \in Entry /\ entry[p].ref \in Ref /\ entry[p].pid \in Agent
  BY AtHand
<1> entry[p].ref <= refs BY AtHand
<1> entry[p] \in Known BY AtHand
<1>1. TypeOK' BY DEF TypeOK, Answer
<1>2. PhaseOK' BY DEF TypeOK, PhaseOK
<1>3. KnownOK' BY DEF TypeOK, KnownOK, Known
<1>4. FreshOK' BY DEF TypeOK, FreshOK
<1>5. RowsOK' BY DEF TypeOK, PhaseOK, RowsOK
<1>6. GoneOK' BY DEF TypeOK, GoneOK
<1>7. NamedOK' BY DEF TypeOK, PhaseOK, NamedOK
<1>8. WakeOK' BY DEF TypeOK, PhaseOK, WakeOK
<1>9. WatchOK' BY DEF TypeOK, PhaseOK, WatchOK
<1>10. MailOK' BY DEF TypeOK, PhaseOK, MailOK
<1>11. TookOK' BY DEF TypeOK, PhaseOK, TookOK
<1>12. OneWinner' BY DEF TypeOK, OneWinner
<1>13. AwaitHasMail' BY DEF TypeOK, AwaitHasMail
<1>14. AnswersAgree' BY DEF TypeOK, AnswersAgree
<1>15. SweptAfterPark' BY DEF TypeOK, SweptAfterPark
<1>16. OfferedOK' BY DEF TypeOK, OfferedOK, Held
<1>17. QED BY <1>1, <1>2, <1>3, <1>4, <1>5, <1>6, <1>7, <1>8, <1>9, <1>10,
        <1>11, <1>12, <1>13, <1>14, <1>15, <1>16

(* The waiter takes its message: a notifier counts it, and no second       *)
(* message can follow.                                                     *)
LEMMA ReceiveInv ==
  ASSUME Inv, NEW p \in Agent, Receive(p)
  PROVE  Inv'
<1> USE DEF Inv, Receive, Goto, Answered, waitVars, notifyVars, Alive, MyRef,
      Waiting, Waking, Holding, InWait, Parking, Ref, Entry
<1> USE WaitAssumption
<1> entry[p] \in Entry /\ entry[p].ref \in Ref /\ entry[p].pid \in Agent
  BY AtHand
<1> entry[p].ref <= refs BY AtHand
<1> entry[p] \in Known BY AtHand
<1>1. TypeOK' BY DEF TypeOK, Answer
<1>2. PhaseOK' BY DEF TypeOK, PhaseOK
<1>3. KnownOK' BY DEF TypeOK, KnownOK, Known
<1>4. FreshOK' BY DEF TypeOK, FreshOK
<1>5. RowsOK' BY DEF TypeOK, PhaseOK, KnownOK, Known, FreshOK, RowsOK, GoneOK,
        MailOK
<1>6. GoneOK' BY DEF TypeOK, GoneOK
<1>7. NamedOK'
  <2>1. entry' = entry /\ claimed' = claimed
    OBVIOUS
  <2>2. \A q \in Agent : /\ (pc'[q] \in Holding) <=> (pc[q] \in Holding)
                         /\ (pc'[q] \in InWait) <=> (pc[q] \in InWait)
                         /\ (pc'[q] = "dead") <=> (pc[q] = "dead")
    BY DEF TypeOK
  <2>3. \A r \in Ref : claimed[r] # None => claimed[r] \in Agent
    BY DEF TypeOK
  <2> HIDE DEF Receive, Holding, InWait, Ref
  <2>4. QED BY <2>1, <2>2, <2>3 DEF NamedOK
<1>8. WakeOK' BY DEF TypeOK, PhaseOK, WakeOK
<1>9. WatchOK' BY DEF TypeOK, PhaseOK, WatchOK
<1>10. MailOK' BY DEF TypeOK, PhaseOK, MailOK
<1>11. TookOK' BY DEF TypeOK, PhaseOK, TookOK
<1>12. OneWinner' BY DEF TypeOK, OneWinner
<1>13. AwaitHasMail' BY DEF TypeOK, AwaitHasMail
<1>14. AnswersAgree' BY DEF TypeOK, PhaseOK, RowsOK, MailOK, WakeOK, WatchOK,
        GoneOK, OneWinner, AnswersAgree
<1>15. SweptAfterPark' BY DEF TypeOK, PhaseOK, RowsOK, MailOK, TookOK,
        SweptAfterPark
<1>16. OfferedOK' BY DEF TypeOK, OfferedOK, Held
<1>17. QED BY <1>1, <1>2, <1>3, <1>4, <1>5, <1>6, <1>7, <1>8, <1>9, <1>10,
        <1>11, <1>12, <1>13, <1>14, <1>15, <1>16

(* The timeout removes the row: no notifier counts this waiter, and none   *)
(* ever will.                                                              *)
LEMMA TimeOutWins ==
  ASSUME Inv, NEW p \in Agent,
         pc[p] = "parked",
         entry[p] \in rows,
         rows' = rows \ {entry[p]},
         pc' = [pc EXCEPT ![p] = "unrow"],
         answer' = [answer EXCEPT ![entry[p].ref] = "timed_out"],
         UNCHANGED <<claimed, mail, refs, entry, timed, watch, list, left,
                    calls, saw, counted>>
  PROVE  Inv'
<1> USE DEF Inv, Alive, MyRef, Waiting, Waking, Holding, InWait, Parking, Ref,
      Entry
<1> USE WaitAssumption
<1> entry[p] \in Entry /\ entry[p].ref \in Ref /\ entry[p].pid \in Agent
  BY AtHand
<1> entry[p].ref <= refs BY AtHand
<1> entry[p] \in Known BY AtHand
<1>1. TypeOK' BY DEF TypeOK, Answer
<1>2. PhaseOK' BY DEF TypeOK, PhaseOK
<1>3. KnownOK' BY DEF TypeOK, KnownOK, Known
<1>4. FreshOK' BY DEF TypeOK, FreshOK
<1>5. RowsOK' BY DEF TypeOK, PhaseOK, KnownOK, Known, FreshOK, RowsOK, GoneOK,
        MailOK
<1>6. GoneOK' BY DEF TypeOK, GoneOK
<1>7. NamedOK' BY DEF TypeOK, PhaseOK, NamedOK
<1>8. WakeOK' BY DEF TypeOK, PhaseOK, WakeOK
<1>9. WatchOK' BY DEF TypeOK, PhaseOK, WatchOK
<1>10. MailOK' BY DEF TypeOK, PhaseOK, MailOK
<1>11. TookOK' BY DEF TypeOK, PhaseOK, KnownOK, Known, RowsOK, MailOK, TookOK
<1>12. OneWinner' BY DEF TypeOK, OneWinner
<1>13. AwaitHasMail' BY DEF TypeOK, AwaitHasMail
<1>14. AnswersAgree' BY DEF TypeOK, PhaseOK, RowsOK, MailOK, WakeOK, WatchOK,
        GoneOK, OneWinner, AnswersAgree
<1>15. SweptAfterPark' BY DEF TypeOK, PhaseOK, RowsOK, MailOK, TookOK,
        SweptAfterPark
<1>16. OfferedOK' BY DEF TypeOK, OfferedOK, Held
<1>17. QED BY <1>1, <1>2, <1>3, <1>4, <1>5, <1>6, <1>7, <1>8, <1>9, <1>10,
        <1>11, <1>12, <1>13, <1>14, <1>15, <1>16

(* The timeout finds the row gone.                                         *)
LEMMA TimeOutLoses ==
  ASSUME Inv, NEW p \in Agent,
         pc[p] = "parked",
         entry[p] \notin rows,
         pc' = [pc EXCEPT ![p] = "lost"],
         UNCHANGED <<rows, claimed, mail, refs, entry, timed, watch, list,
                    left, calls, saw, counted, answer>>
  PROVE  Inv'
<1> USE DEF Inv, Alive, MyRef, Waiting, Waking, Holding, InWait, Parking, Ref,
      Entry
<1> USE WaitAssumption
<1> entry[p] \in Entry /\ entry[p].ref \in Ref /\ entry[p].pid \in Agent
  BY AtHand
<1> entry[p].ref <= refs BY AtHand
<1>1. TypeOK' BY DEF TypeOK, Answer
<1>2. PhaseOK' BY DEF TypeOK, PhaseOK
<1>3. KnownOK' BY DEF TypeOK, KnownOK, Known
<1>4. FreshOK' BY DEF TypeOK, FreshOK
<1>5. RowsOK' BY DEF TypeOK, PhaseOK, RowsOK
<1>6. GoneOK' BY DEF TypeOK, GoneOK
<1>7. NamedOK' BY DEF TypeOK, PhaseOK, NamedOK
<1>8. WakeOK' BY DEF TypeOK, PhaseOK, WakeOK
<1>9. WatchOK' BY DEF TypeOK, PhaseOK, WatchOK
<1>10. MailOK' BY DEF TypeOK, PhaseOK, MailOK
<1>11. TookOK' BY DEF TypeOK, PhaseOK, TookOK
<1>12. OneWinner' BY DEF TypeOK, OneWinner
<1>13. AwaitHasMail' BY DEF TypeOK, AwaitHasMail
<1>14. AnswersAgree' BY DEF TypeOK, AnswersAgree
<1>15. SweptAfterPark' BY DEF TypeOK, SweptAfterPark
<1>16. OfferedOK' BY DEF TypeOK, OfferedOK, Held
<1>17. QED BY <1>1, <1>2, <1>3, <1>4, <1>5, <1>6, <1>7, <1>8, <1>9, <1>10,
        <1>11, <1>12, <1>13, <1>14, <1>15, <1>16

(* The loser looks for a name; finding none, its message is there by       *)
(* WakeOK.                                                                 *)
LEMMA LostTheRaceInv ==
  ASSUME Inv, NEW p \in Agent, LostTheRace(p)
  PROVE  Inv'
<1> USE DEF Inv, LostTheRace, Goto, notifyVars, Alive, MyRef, Waiting, Waking,
      Holding, InWait, Parking, Ref, Entry
<1> USE WaitAssumption
<1> entry[p] \in Entry /\ entry[p].ref \in Ref /\ entry[p].pid \in Agent
  BY AtHand
<1> entry[p].ref <= refs BY AtHand
<1>1. TypeOK' BY DEF TypeOK, Answer
<1>2. PhaseOK' BY DEF TypeOK, PhaseOK
<1>3. KnownOK' BY DEF TypeOK, KnownOK, Known
<1>4. FreshOK' BY DEF TypeOK, FreshOK
<1>5. RowsOK' BY DEF TypeOK, PhaseOK, RowsOK
<1>6. GoneOK' BY DEF TypeOK, GoneOK
<1>7. NamedOK' BY SMTT(40) DEF TypeOK, PhaseOK, NamedOK
<1>8. WakeOK' BY DEF TypeOK, PhaseOK, WakeOK
<1>9. WatchOK' BY DEF TypeOK, PhaseOK, WatchOK
<1>10. MailOK' BY DEF TypeOK, PhaseOK, MailOK
<1>11. TookOK' BY DEF TypeOK, PhaseOK, TookOK
<1>12. OneWinner' BY DEF TypeOK, OneWinner
<1>13. AwaitHasMail' BY DEF TypeOK, PhaseOK, GoneOK, WakeOK, AwaitHasMail
<1>14. AnswersAgree' BY DEF TypeOK, AnswersAgree
<1>15. SweptAfterPark' BY DEF TypeOK, SweptAfterPark
<1>16. OfferedOK' BY SMTT(40) DEF TypeOK, OfferedOK, Held
<1>17. QED BY <1>1, <1>2, <1>3, <1>4, <1>5, <1>6, <1>7, <1>8, <1>9, <1>10,
        <1>11, <1>12, <1>13, <1>14, <1>15, <1>16

(* The watched claimer is dead: it is the one process that counts this     *)
(* wait, by WatchOK and OneWinner.                                         *)
LEMMA ClaimerDownInv ==
  ASSUME Inv, NEW p \in Agent, ClaimerDown(p)
  PROVE  Inv'
<1> USE DEF Inv, ClaimerDown, Goto, Answered, waitVars, notifyVars, Alive,
      MyRef, Waiting, Waking, Holding, InWait, Parking, Ref, Entry
<1> USE WaitAssumption
<1> entry[p] \in Entry /\ entry[p].ref \in Ref /\ entry[p].pid \in Agent
  BY AtHand
<1> entry[p].ref <= refs BY AtHand
<1>a. \A e \in rows : e.ref # entry[p].ref BY RowRef DEF GoneOK
<1>b. watch[p] \in counted[entry[p].ref] BY DEF WakeOK, WatchOK, GoneOK
<1>c. \A n \in counted[entry[p].ref] : pc[n] = "dead" BY <1>b DEF OneWinner
<1>d. \A q \in Agent : entry[p].ref \notin mail[q] BY DEF MailOK
<1>1. TypeOK' BY DEF TypeOK, Answer
<1>2. PhaseOK' BY DEF TypeOK, PhaseOK
<1>3. KnownOK' BY DEF TypeOK, KnownOK, Known
<1>4. FreshOK' BY DEF TypeOK, FreshOK
<1>5. RowsOK' BY <1>a DEF TypeOK, RowsOK
<1>6. GoneOK' BY DEF TypeOK, GoneOK
<1>7. NamedOK' BY DEF TypeOK, PhaseOK, NamedOK
<1>8. WakeOK' BY DEF TypeOK, PhaseOK, WakeOK
<1>9. WatchOK' BY DEF TypeOK, PhaseOK, WatchOK
<1>10. MailOK' BY DEF TypeOK, PhaseOK, MailOK
<1>11. TookOK' BY <1>c DEF TypeOK, TookOK
<1>12. OneWinner' BY DEF TypeOK, OneWinner
<1>13. AwaitHasMail' BY DEF TypeOK, AwaitHasMail
<1>14. AnswersAgree' BY <1>c DEF TypeOK, AnswersAgree
<1>15. SweptAfterPark' BY <1>d DEF TypeOK, SweptAfterPark
<1>16. OfferedOK' BY DEF TypeOK, OfferedOK, Held
<1>17. QED BY <1>1, <1>2, <1>3, <1>4, <1>5, <1>6, <1>7, <1>8, <1>9, <1>10,
        <1>11, <1>12, <1>13, <1>14, <1>15, <1>16

(* The after clause of wait/4: the row,                                    *)
LEMMA UnrowInv ==
  ASSUME Inv, NEW p \in Agent, Unrow(p)
  PROVE  Inv'
<1> USE DEF Inv, Unrow, Goto, Delete, waitVars, notifyVars, Alive, MyRef,
      Waiting, Waking, Holding, InWait, Parking, Ref, Entry
<1> USE WaitAssumption
<1> entry[p] \in Entry /\ entry[p].ref \in Ref /\ entry[p].pid \in Agent
  BY AtHand
<1> entry[p].ref <= refs BY AtHand
<1>1. TypeOK' BY DEF TypeOK, Answer
<1>2. PhaseOK' BY DEF TypeOK, PhaseOK
<1>3. KnownOK' BY DEF TypeOK, KnownOK, Known
<1>4. FreshOK' BY DEF TypeOK, FreshOK
<1>5. RowsOK' BY DEF TypeOK, PhaseOK, RowsOK
<1>6. GoneOK' BY DEF TypeOK, GoneOK
<1>7. NamedOK' BY DEF TypeOK, PhaseOK, NamedOK
<1>8. WakeOK' BY DEF TypeOK, PhaseOK, WakeOK
<1>9. WatchOK' BY DEF TypeOK, PhaseOK, WatchOK
<1>10. MailOK' BY DEF TypeOK, PhaseOK, MailOK
<1>11. TookOK' BY DEF TypeOK, PhaseOK, TookOK
<1>12. OneWinner' BY DEF TypeOK, OneWinner
<1>13. AwaitHasMail' BY DEF TypeOK, AwaitHasMail
<1>14. AnswersAgree' BY DEF TypeOK, AnswersAgree
<1>15. SweptAfterPark' BY DEF TypeOK, SweptAfterPark
<1>16. OfferedOK' BY DEF TypeOK, OfferedOK, Held
<1>17. QED BY <1>1, <1>2, <1>3, <1>4, <1>5, <1>6, <1>7, <1>8, <1>9, <1>10,
        <1>11, <1>12, <1>13, <1>14, <1>15, <1>16

(* any name left for it, which no other waiter's reference shares,         *)
LEMMA UnclaimInv ==
  ASSUME Inv, NEW p \in Agent, Unclaim(p)
  PROVE  Inv'
<1> USE DEF Inv, Unclaim, Goto, waitVars, notifyVars, Alive, MyRef, Waiting,
      Waking, Holding, InWait, Parking, Ref, Entry
<1> USE WaitAssumption
<1> entry[p] \in Entry /\ entry[p].ref \in Ref /\ entry[p].pid \in Agent
  BY AtHand
<1> entry[p].ref <= refs BY AtHand
<1>a. \A q \in Agent : pc[q] \in Waiting /\ q # p => entry[q].ref # entry[p].ref
  BY SameRef DEF PhaseOK
<1>b. \A e \in rows : e.ref # entry[p].ref BY RowRef DEF GoneOK
<1>1. TypeOK' BY DEF TypeOK, Answer
<1>2. PhaseOK' BY DEF TypeOK, PhaseOK
<1>3. KnownOK' BY DEF TypeOK, KnownOK, Known
<1>4. FreshOK' BY DEF TypeOK, FreshOK
<1>5. RowsOK' BY DEF TypeOK, PhaseOK, RowsOK
<1>6. GoneOK' BY DEF TypeOK, GoneOK
<1>7. NamedOK' BY <1>a DEF TypeOK, NamedOK, PhaseOK
<1>8. WakeOK' BY <1>a DEF TypeOK, WakeOK
<1>9. WatchOK' BY <1>a DEF TypeOK, WatchOK
<1>10. MailOK' BY DEF TypeOK, PhaseOK, MailOK
<1>11. TookOK' BY DEF TypeOK, PhaseOK, TookOK
<1>12. OneWinner' BY DEF TypeOK, OneWinner
<1>13. AwaitHasMail' BY DEF TypeOK, AwaitHasMail
<1>14. AnswersAgree' BY DEF TypeOK, AnswersAgree
<1>15. SweptAfterPark' BY DEF TypeOK, SweptAfterPark
<1>16. OfferedOK' BY <1>b DEF TypeOK, OfferedOK, Held
<1>17. QED BY <1>1, <1>2, <1>3, <1>4, <1>5, <1>6, <1>7, <1>8, <1>9, <1>10,
        <1>11, <1>12, <1>13, <1>14, <1>15, <1>16

(* and the message, if one came.                                           *)
LEMMA FlushInv ==
  ASSUME Inv, NEW p \in Agent, Flush(p)
  PROVE  Inv'
<1> USE DEF Inv, Flush, Goto, ForgetCall, notifyVars, Alive, MyRef, Waiting,
      Waking, Holding, InWait, Parking, Ref, Entry
<1> USE WaitAssumption
<1> entry[p] \in Entry /\ entry[p].ref \in Ref /\ entry[p].pid \in Agent
  BY AtHand
<1> entry[p].ref <= refs BY AtHand
<1>1. TypeOK' BY DEF TypeOK, Answer
<1>2. PhaseOK' BY DEF TypeOK, PhaseOK
<1>3. KnownOK'
  <2>1. Known' \subseteq Known BY NoneAssumption DEF Known, TypeOK
  <2>2. QED BY <2>1 DEF KnownOK
<1>4. FreshOK' BY DEF TypeOK, FreshOK
<1>5. RowsOK' BY DEF TypeOK, PhaseOK, RowsOK
<1>6. GoneOK' BY DEF TypeOK, GoneOK
<1>7. NamedOK' BY DEF TypeOK, PhaseOK, NamedOK
<1>8. WakeOK' BY DEF TypeOK, PhaseOK, WakeOK
<1>9. WatchOK' BY DEF TypeOK, PhaseOK, WatchOK
<1>10. MailOK' BY DEF TypeOK, PhaseOK, MailOK
<1>11. TookOK' BY DEF TypeOK, PhaseOK, TookOK
<1>12. OneWinner' BY DEF TypeOK, OneWinner
<1>13. AwaitHasMail' BY DEF TypeOK, AwaitHasMail
<1>14. AnswersAgree' BY DEF TypeOK, AnswersAgree
<1>15. SweptAfterPark' BY DEF TypeOK, SweptAfterPark
<1>16. OfferedOK' BY DEF TypeOK, OfferedOK, Held
<1>17. QED BY <1>1, <1>2, <1>3, <1>4, <1>5, <1>6, <1>7, <1>8, <1>9, <1>10,
        <1>11, <1>12, <1>13, <1>14, <1>15, <1>16

(* notify/3 looks the waiters up.                                          *)
LEMMA NotifyInv ==
  ASSUME Inv, NEW p \in Agent, NEW a \in Addr, NEW n \in Counts, Notify(p, a, n)
  PROVE  Inv'
<1> USE DEF Inv, Notify, Goto, Free, waitVars, Alive, MyRef, Waiting, Waking,
      Holding, InWait, Parking, Ref, Entry
<1> USE WaitAssumption
<1>1. TypeOK' BY DEF TypeOK, Answer
<1>2. PhaseOK' BY DEF TypeOK, PhaseOK
<1>3. KnownOK' BY DEF TypeOK, KnownOK, Known
<1>4. FreshOK' BY DEF TypeOK, FreshOK
<1>5. RowsOK' BY DEF TypeOK, PhaseOK, RowsOK
<1>6. GoneOK' BY DEF TypeOK, GoneOK
<1>7. NamedOK' BY SMTT(40) DEF TypeOK, PhaseOK, NamedOK
<1>8. WakeOK' BY DEF TypeOK, PhaseOK, WakeOK
<1>9. WatchOK' BY DEF TypeOK, PhaseOK, WatchOK
<1>10. MailOK' BY DEF TypeOK, PhaseOK, MailOK
<1>11. TookOK' BY DEF TypeOK, PhaseOK, TookOK
<1>12. OneWinner' BY DEF TypeOK, OneWinner
<1>13. AwaitHasMail' BY DEF TypeOK, AwaitHasMail
<1>14. AnswersAgree' BY DEF TypeOK, AnswersAgree
<1>15. SweptAfterPark' BY DEF TypeOK, SweptAfterPark
<1>16. OfferedOK' BY DEF TypeOK, OfferedOK, Held
<1>17. QED BY <1>1, <1>2, <1>3, <1>4, <1>5, <1>6, <1>7, <1>8, <1>9, <1>10,
        <1>11, <1>12, <1>13, <1>14, <1>15, <1>16

(* live/1 removes rows of dead processes only.                             *)
LEMMA FilterInv ==
  ASSUME Inv, NEW p \in Agent, Filter(p)
  PROVE  Inv'
<1> USE DEF Inv, Filter, Goto, waitVars, Alive, MyRef, Waiting, Waking,
      Holding, InWait, Parking, Ref, Entry
<1> USE WaitAssumption
<1>1. TypeOK' BY DEF TypeOK, Answer
<1>2. PhaseOK' BY DEF TypeOK, PhaseOK
<1>3. KnownOK' BY DEF TypeOK, KnownOK, Known
<1>4. FreshOK' BY DEF TypeOK, FreshOK
<1>5. RowsOK' BY DEF TypeOK, PhaseOK, RowsOK
<1>6. GoneOK' BY DEF TypeOK, GoneOK
<1>7. NamedOK' BY DEF TypeOK, PhaseOK, NamedOK
<1>8. WakeOK' BY DEF TypeOK, PhaseOK, WakeOK
<1>9. WatchOK' BY DEF TypeOK, PhaseOK, WatchOK
<1>10. MailOK' BY DEF TypeOK, PhaseOK, MailOK
<1>11. TookOK' BY DEF TypeOK, PhaseOK, TookOK
<1>12. OneWinner' BY DEF TypeOK, OneWinner
<1>13. AwaitHasMail' BY DEF TypeOK, AwaitHasMail
<1>14. AnswersAgree' BY DEF TypeOK, AnswersAgree
<1>15. SweptAfterPark' BY DEF TypeOK, SweptAfterPark
<1>16. OfferedOK' BY DEF TypeOK, OfferedOK, Held
<1>17. QED BY <1>1, <1>2, <1>3, <1>4, <1>5, <1>6, <1>7, <1>8, <1>9, <1>10,
        <1>11, <1>12, <1>13, <1>14, <1>15, <1>16

(* A candidate somebody else named: by NamedOK he is about to claim it, or *)
(* is dead.                                                                *)
LEMMA NameSkips ==
  ASSUME Inv, NEW p \in Agent, NEW e \in list[p],
         pc[p] = "wake",
         claimed[e.ref] # None,
         list' = [list EXCEPT ![p] = @ \ {e}],
         UNCHANGED <<rows, claimed, mail, refs, pc, entry, timed, watch, left,
                    calls, saw, counted, answer>>
  PROVE  Inv'
<1> USE DEF Inv, Alive, MyRef, Waiting, Waking, Holding, InWait, Parking, Ref,
      Entry
<1> USE WaitAssumption
<1> e \in Entry /\ e.ref \in Ref /\ e.pid \in Agent BY DEF TypeOK, Entry
<1> e \in Known BY DEF Known
<1>1. TypeOK' BY DEF TypeOK, Answer
<1>2. PhaseOK' BY DEF TypeOK, PhaseOK
<1>3. KnownOK' BY DEF TypeOK, KnownOK, Known
<1>4. FreshOK' BY DEF TypeOK, FreshOK
<1>5. RowsOK' BY DEF TypeOK, PhaseOK, RowsOK
<1>6. GoneOK' BY DEF TypeOK, GoneOK
<1>7. NamedOK' BY DEF TypeOK, PhaseOK, NamedOK
<1>8. WakeOK' BY DEF TypeOK, PhaseOK, WakeOK
<1>9. WatchOK' BY DEF TypeOK, PhaseOK, WatchOK
<1>10. MailOK' BY DEF TypeOK, PhaseOK, MailOK
<1>11. TookOK' BY DEF TypeOK, PhaseOK, TookOK
<1>12. OneWinner' BY DEF TypeOK, OneWinner
<1>13. AwaitHasMail' BY DEF TypeOK, AwaitHasMail
<1>14. AnswersAgree' BY DEF TypeOK, AnswersAgree
<1>15. SweptAfterPark' BY DEF TypeOK, SweptAfterPark
<1>16. OfferedOK'
  <2>1. ASSUME e \in rows PROVE Held(e)
    <3> DEFINE m == claimed[e.ref]
    <3>1. m \in Agent BY DEF TypeOK
    <3>2. CASE ~Alive(m) BY <3>1, <3>2 DEF Held
    <3>3. CASE Alive(m)
      <4>1. pc[m] \in Holding /\ entry[m].ref = e.ref BY <3>3 DEF NamedOK
      <4>2. e = entry[m] BY <2>1, <3>1, <4>1, RowRef
      <4>3. pc[m] = "named" BY <2>1, <3>1, <4>1, <4>2 DEF GoneOK
      <4>4. QED BY <3>1, <4>2, <4>3 DEF Held
    <3>4. QED BY <3>2, <3>3
  <2>2. QED BY <2>1 DEF TypeOK, OfferedOK, Held
<1>17. QED BY <1>1, <1>2, <1>3, <1>4, <1>5, <1>6, <1>7, <1>8, <1>9, <1>10,
        <1>11, <1>12, <1>13, <1>14, <1>15, <1>16

(* insert_new succeeds: the notifier is the one process named for the      *)
(* candidate.                                                              *)
LEMMA NameTakes ==
  ASSUME Inv, NEW p \in Agent, NEW e \in list[p],
         pc[p] = "wake",
         left[p] > 0,
         claimed[e.ref] = None,
         list' = [list EXCEPT ![p] = @ \ {e}],
         claimed' = [claimed EXCEPT ![e.ref] = p],
         entry' = [entry EXCEPT ![p] = e],
         pc' = [pc EXCEPT ![p] = "named"],
         UNCHANGED <<rows, mail, refs, timed, watch, left, calls, saw,
                    counted, answer>>
  PROVE  Inv'
<1> USE DEF Inv, Alive, MyRef, Waiting, Waking, Holding, InWait, Parking, Ref,
      Entry
<1> USE WaitAssumption
<1> e \in Entry /\ e.ref \in Ref /\ e.pid \in Agent BY DEF TypeOK, Entry
<1> e \in Known BY DEF Known
<1>1. TypeOK' BY DEF TypeOK, Answer
<1>2. PhaseOK' BY DEF TypeOK, PhaseOK
<1>3. KnownOK' BY DEF TypeOK, KnownOK, Known
<1>4. FreshOK' BY DEF TypeOK, FreshOK, KnownOK
<1>5. RowsOK' BY DEF TypeOK, PhaseOK, RowsOK
<1>6. GoneOK' BY DEF TypeOK, GoneOK
<1>7. NamedOK' BY DEF TypeOK, PhaseOK, NamedOK
<1>8. WakeOK' BY DEF TypeOK, PhaseOK, WakeOK
<1>9. WatchOK' BY DEF TypeOK, PhaseOK, NamedOK, WakeOK, WatchOK, GoneOK
<1>10. MailOK' BY DEF TypeOK, PhaseOK, MailOK
<1>11. TookOK' BY DEF TypeOK, PhaseOK, TookOK
<1>12. OneWinner' BY DEF TypeOK, OneWinner
<1>13. AwaitHasMail' BY DEF TypeOK, AwaitHasMail
<1>14. AnswersAgree' BY DEF TypeOK, AnswersAgree
<1>15. SweptAfterPark' BY DEF TypeOK, SweptAfterPark
<1>16. OfferedOK'
  <2>1. ASSUME NEW n \in Agent, NEW f \in saw[n] \cap rows, f # e, Held(f)
        PROVE  Held(f)'
    BY <2>1 DEF Held, TypeOK
  <2>2. Held(e)' BY DEF Held, TypeOK
  <2>3. QED BY <2>1, <2>2 DEF TypeOK, OfferedOK
<1>17. QED BY <1>1, <1>2, <1>3, <1>4, <1>5, <1>6, <1>7, <1>8, <1>9, <1>10,
        <1>11, <1>12, <1>13, <1>14, <1>15, <1>16

(* The notifier removes the row and counts the waiter, which nobody        *)
(* counted before.                                                         *)
LEMMA ClaimWins ==
  ASSUME Inv, NEW p \in Agent,
         pc[p] = "named",
         entry[p] \in rows,
         rows' = rows \ {entry[p]},
         counted' = [counted EXCEPT ![entry[p].ref] = @ \cup {p}],
         pc' = [pc EXCEPT ![p] = "took"],
         UNCHANGED <<claimed, mail, refs, entry, timed, watch, list, left,
                    calls, saw, answer>>
  PROVE  Inv'
<1> USE DEF Inv, Alive, MyRef, Waiting, Waking, Holding, InWait, Parking, Ref,
      Entry
<1> USE WaitAssumption
<1> entry[p] \in Entry /\ entry[p].ref \in Ref /\ entry[p].pid \in Agent
  BY AtHand
<1> entry[p].ref <= refs BY AtHand
<1> entry[p] \in Known BY AtHand
<1>1. TypeOK' BY SMTT(40) DEF TypeOK, Answer
<1>2. PhaseOK' BY DEF TypeOK, PhaseOK
<1>3. KnownOK' BY DEF TypeOK, KnownOK, Known
<1>4. FreshOK' BY DEF TypeOK, FreshOK
<1>5. RowsOK' BY DEF TypeOK, PhaseOK, KnownOK, Known, FreshOK, RowsOK, GoneOK,
        MailOK
<1>6. GoneOK' BY DEF TypeOK, GoneOK
<1>7. NamedOK' BY SMTT(40) DEF TypeOK, PhaseOK, NamedOK
<1>8. WakeOK' BY DEF TypeOK, PhaseOK, RowsOK, NamedOK, WakeOK, TookOK, GoneOK
<1>9. WatchOK' BY DEF TypeOK, PhaseOK, WatchOK
<1>10. MailOK' BY DEF TypeOK, PhaseOK, MailOK
<1>11. TookOK' BY DEF TypeOK, PhaseOK, KnownOK, Known, RowsOK, MailOK, TookOK
<1>12. OneWinner' BY DEF TypeOK, RowsOK, OneWinner
<1>13. AwaitHasMail' BY DEF TypeOK, AwaitHasMail
<1>14. AnswersAgree' BY DEF TypeOK, PhaseOK, RowsOK, MailOK, WakeOK, WatchOK,
        GoneOK, OneWinner, AnswersAgree
<1>15. SweptAfterPark' BY DEF TypeOK, SweptAfterPark
<1>16. OfferedOK' BY DEF TypeOK, OfferedOK, Held
<1>17. QED BY <1>1, <1>2, <1>3, <1>4, <1>5, <1>6, <1>7, <1>8, <1>9, <1>10,
        <1>11, <1>12, <1>13, <1>14, <1>15, <1>16

(* The notifier finds the row gone.                                        *)
LEMMA ClaimLoses ==
  ASSUME Inv, NEW p \in Agent,
         pc[p] = "named",
         entry[p] \notin rows,
         pc' = [pc EXCEPT ![p] = "unname"],
         UNCHANGED <<rows, claimed, mail, refs, entry, timed, watch, list,
                    left, calls, saw, counted, answer>>
  PROVE  Inv'
<1> USE DEF Inv, Alive, MyRef, Waiting, Waking, Holding, InWait, Parking, Ref,
      Entry
<1> USE WaitAssumption
<1> entry[p] \in Entry /\ entry[p].ref \in Ref /\ entry[p].pid \in Agent
  BY AtHand
<1> entry[p].ref <= refs BY AtHand
<1>1. TypeOK' BY DEF TypeOK, Answer
<1>2. PhaseOK' BY DEF TypeOK, PhaseOK
<1>3. KnownOK' BY DEF TypeOK, KnownOK, Known
<1>4. FreshOK' BY DEF TypeOK, FreshOK
<1>5. RowsOK' BY DEF TypeOK, PhaseOK, RowsOK
<1>6. GoneOK' BY DEF TypeOK, GoneOK
<1>7. NamedOK' BY DEF TypeOK, NamedOK
<1>8. WakeOK' BY DEF TypeOK, PhaseOK, WakeOK
<1>9. WatchOK' BY DEF TypeOK, PhaseOK, WatchOK
<1>10. MailOK' BY DEF TypeOK, PhaseOK, MailOK
<1>11. TookOK' BY DEF TypeOK, PhaseOK, TookOK
<1>12. OneWinner' BY DEF TypeOK, OneWinner
<1>13. AwaitHasMail' BY DEF TypeOK, AwaitHasMail
<1>14. AnswersAgree' BY DEF TypeOK, AnswersAgree
<1>15. SweptAfterPark' BY DEF TypeOK, SweptAfterPark
<1>16. OfferedOK' BY DEF TypeOK, OfferedOK, Held
<1>17. QED BY <1>1, <1>2, <1>3, <1>4, <1>5, <1>6, <1>7, <1>8, <1>9, <1>10,
        <1>11, <1>12, <1>13, <1>14, <1>15, <1>16

(* The message goes to the process that waits with this reference, if any  *)
(* still does.                                                             *)
LEMMA SendInv ==
  ASSUME Inv, NEW p \in Agent, Send(p)
  PROVE  Inv'
<1> USE DEF Inv, Send, Goto, waitVars, notifyVars, Alive, MyRef, Waiting,
      Waking, Holding, InWait, Parking, Ref, Entry
<1> USE WaitAssumption
<1> entry[p] \in Entry /\ entry[p].ref \in Ref /\ entry[p].pid \in Agent
  BY AtHand
<1> entry[p].ref <= refs BY AtHand
<1>a. \A q \in Agent : pc[q] \in Waiting /\ entry[q].ref = entry[p].ref =>
          q = entry[p].pid
  BY SameRef DEF PhaseOK
<1>b. \A n \in counted[entry[p].ref] : n = p BY DEF TookOK, OneWinner
<1>1. TypeOK' BY DEF TypeOK, Answer
<1>2. PhaseOK' BY DEF TypeOK, PhaseOK
<1>3. KnownOK' BY DEF TypeOK, KnownOK, Known
<1>4. FreshOK' BY DEF TypeOK, FreshOK
<1>5. RowsOK' BY DEF TypeOK, PhaseOK, RowsOK
<1>6. GoneOK' BY DEF TypeOK, GoneOK
<1>7. NamedOK' BY DEF TypeOK, NamedOK
<1>8. WakeOK' BY SMTT(40) DEF TypeOK, PhaseOK, WakeOK
<1>9. WatchOK' BY DEF TypeOK, PhaseOK, WatchOK
<1>10. MailOK' BY <1>a DEF TypeOK, MailOK, TookOK
<1>11. TookOK' BY <1>b DEF TypeOK, TookOK
<1>12. OneWinner' BY DEF TypeOK, OneWinner
<1>13. AwaitHasMail' BY DEF TypeOK, AwaitHasMail
<1>14. AnswersAgree' BY DEF TypeOK, AnswersAgree
<1>15. SweptAfterPark' BY DEF TypeOK, PhaseOK, RowsOK, MailOK, TookOK,
        SweptAfterPark
<1>16. OfferedOK' BY DEF TypeOK, OfferedOK, Held
<1>17. QED BY <1>1, <1>2, <1>3, <1>4, <1>5, <1>6, <1>7, <1>8, <1>9, <1>10,
        <1>11, <1>12, <1>13, <1>14, <1>15, <1>16

(* The name goes: whoever still waits with this reference has its message. *)
LEMMA UnnameInv ==
  ASSUME Inv, NEW p \in Agent, Unname(p)
  PROVE  Inv'
<1> USE DEF Inv, Unname, Goto, waitVars, Alive, MyRef, Waiting, Waking,
      Holding, InWait, Parking, Ref, Entry
<1> USE WaitAssumption
<1> entry[p] \in Entry /\ entry[p].ref \in Ref /\ entry[p].pid \in Agent
  BY AtHand
<1> entry[p].ref <= refs BY AtHand
<1>a. \A q \in Agent : pc[q] \in Waiting \/ pc[q] \in Holding =>
          (entry[q].ref = entry[p].ref => entry[q] = entry[p])
  BY SameRef
<1>b. \A e \in rows : e.ref # entry[p].ref BY RowRef DEF GoneOK
<1>c. \A q \in Agent : pc[q] \in Parking /\ entry[q].ref = entry[p].ref =>
          entry[p].ref \in mail[q]
  BY <1>a DEF NamedOK, WakeOK, GoneOK
<1>1. TypeOK' BY DEF TypeOK, PhaseOK
<1>2. PhaseOK' BY DEF TypeOK, PhaseOK
<1>3. KnownOK'
  <2>1. Known' \subseteq Known BY NoneAssumption DEF Known, TypeOK
  <2>2. QED BY <2>1 DEF KnownOK
<1>4. FreshOK' BY DEF TypeOK, FreshOK
<1>5. RowsOK' BY DEF TypeOK, PhaseOK, RowsOK
<1>6. GoneOK' BY DEF TypeOK, GoneOK
<1>7. NamedOK'
  <2>1. ASSUME NEW r \in Ref, claimed'[r] # None
        PROVE  \/ ~Alive(claimed[r])'
               \/ pc'[claimed'[r]] \in Holding /\ entry'[claimed'[r]].ref = r
    <3>1. r # entry[p].ref /\ claimed'[r] = claimed[r] BY <2>1 DEF TypeOK
    <3>2. claimed[r] # p BY <2>1, <3>1 DEF NamedOK
    <3>3. claimed[r] \in Agent BY <2>1, <3>1 DEF TypeOK
    <3>4. QED BY <2>1, <3>1, <3>2, <3>3 DEF TypeOK, NamedOK
  <2>2. ASSUME NEW n \in Agent, NEW q \in Agent, pc'[n] \in Holding,
               pc'[q] \in InWait, entry'[n] = entry'[q]
        PROVE  claimed'[entry'[n].ref] = n
    <3>1. n # p /\ q # p BY <2>2 DEF TypeOK
    <3>2. pc[n] \in Holding /\ pc[q] \in InWait /\ entry[n] = entry[q]
      BY <2>2, <3>1 DEF TypeOK
    <3>3. claimed[entry[n].ref] = n BY <3>2 DEF NamedOK
    <3>4. entry[n].ref # entry[p].ref
      BY <1>a, <3>1, <3>2, <3>3 DEF NamedOK
    <3>5. QED BY <3>1, <3>3, <3>4 DEF TypeOK
  <2>3. QED BY <2>1, <2>2 DEF TypeOK, NamedOK
<1>8. WakeOK' BY <1>c DEF TypeOK, WakeOK
<1>9. WatchOK' BY <1>c DEF TypeOK, WatchOK
<1>10. MailOK' BY DEF TypeOK, PhaseOK, MailOK
<1>11. TookOK' BY DEF TypeOK, PhaseOK, TookOK
<1>12. OneWinner' BY DEF TypeOK, OneWinner
<1>13. AwaitHasMail' BY DEF TypeOK, AwaitHasMail
<1>14. AnswersAgree' BY DEF TypeOK, AnswersAgree
<1>15. SweptAfterPark' BY DEF TypeOK, SweptAfterPark
<1>16. OfferedOK' BY SMTT(40), <1>b DEF TypeOK, OfferedOK, Held
<1>17. QED BY <1>1, <1>2, <1>3, <1>4, <1>5, <1>6, <1>7, <1>8, <1>9, <1>10,
        <1>11, <1>12, <1>13, <1>14, <1>15, <1>16

(* wake/3 ends.                                                            *)
LEMMA WokeInv ==
  ASSUME Inv, NEW p \in Agent, Woke(p)
  PROVE  Inv'
<1> USE DEF Inv, Woke, Goto, waitVars, Alive, MyRef, Waiting, Waking, Holding,
      InWait, Parking, Ref, Entry
<1> USE WaitAssumption
<1>1. TypeOK' BY DEF TypeOK, Answer
<1>2. PhaseOK' BY DEF TypeOK, PhaseOK
<1>3. KnownOK' BY DEF TypeOK, KnownOK, Known
<1>4. FreshOK' BY DEF TypeOK, FreshOK
<1>5. RowsOK' BY DEF TypeOK, PhaseOK, RowsOK
<1>6. GoneOK' BY DEF TypeOK, GoneOK
<1>7. NamedOK' BY DEF TypeOK, PhaseOK, NamedOK
<1>8. WakeOK' BY DEF TypeOK, PhaseOK, WakeOK
<1>9. WatchOK' BY DEF TypeOK, PhaseOK, WatchOK
<1>10. MailOK' BY DEF TypeOK, PhaseOK, MailOK
<1>11. TookOK' BY DEF TypeOK, PhaseOK, TookOK
<1>12. OneWinner' BY DEF TypeOK, OneWinner
<1>13. AwaitHasMail' BY DEF TypeOK, AwaitHasMail
<1>14. AnswersAgree' BY DEF TypeOK, AnswersAgree
<1>15. SweptAfterPark' BY DEF TypeOK, SweptAfterPark
<1>16. OfferedOK' BY DEF TypeOK, OfferedOK, Held
<1>17. QED BY <1>1, <1>2, <1>3, <1>4, <1>5, <1>6, <1>7, <1>8, <1>9, <1>10,
        <1>11, <1>12, <1>13, <1>14, <1>15, <1>16

(* A killed agent leaves its row and its name behind.                      *)
LEMMA KillInv ==
  ASSUME Inv, NEW p \in Agent, Kill(p)
  PROVE  Inv'
<1> USE DEF Inv, Kill, Goto, ForgetCall, Alive, MyRef, Waiting, Waking,
      Holding, InWait, Parking, Ref, Entry
<1> USE WaitAssumption
<1>1. TypeOK' BY DEF TypeOK, Answer
<1>2. PhaseOK' BY DEF TypeOK, PhaseOK
<1>3. KnownOK'
  <2>1. Known' \subseteq Known BY NoneAssumption DEF Known, TypeOK
  <2>2. QED BY <2>1 DEF KnownOK
<1>4. FreshOK' BY DEF TypeOK, FreshOK
<1>5. RowsOK' BY DEF TypeOK, PhaseOK, RowsOK
<1>6. GoneOK' BY DEF TypeOK, GoneOK
<1>7. NamedOK' BY DEF TypeOK, PhaseOK, NamedOK
<1>8. WakeOK' BY DEF TypeOK, PhaseOK, WakeOK
<1>9. WatchOK' BY DEF TypeOK, PhaseOK, WatchOK
<1>10. MailOK' BY DEF TypeOK, PhaseOK, MailOK
<1>11. TookOK' BY DEF TypeOK, PhaseOK, TookOK
<1>12. OneWinner' BY DEF TypeOK, OneWinner
<1>13. AwaitHasMail' BY DEF TypeOK, AwaitHasMail
<1>14. AnswersAgree' BY DEF TypeOK, AnswersAgree
<1>15. SweptAfterPark' BY DEF TypeOK, SweptAfterPark
<1>16. OfferedOK' BY DEF TypeOK, OfferedOK, Held
<1>17. QED BY <1>1, <1>2, <1>3, <1>4, <1>5, <1>6, <1>7, <1>8, <1>9, <1>10,
        <1>11, <1>12, <1>13, <1>14, <1>15, <1>16

(* The empty table satisfies the invariant.                                *)
LEMMA InitInv == Init => Inv
<1> SUFFICES ASSUME Init PROVE Inv OBVIOUS
<1> USE WaitAssumption, NoneAssumption DEF Init
<1>1. TypeOK BY DEF TypeOK, Ref
<1>2. Known = {} BY DEF Known
<1>3. PhaseOK BY DEF PhaseOK, Waiting, Holding
<1>4. KnownOK BY <1>2 DEF KnownOK
<1>5. FreshOK BY DEF FreshOK
<1>6. RowsOK /\ GoneOK BY DEF RowsOK, GoneOK
<1>7. NamedOK BY DEF NamedOK, Holding
<1>8. WakeOK /\ WatchOK BY DEF WakeOK, WatchOK, Parking
<1>9. MailOK /\ TookOK BY DEF MailOK, TookOK
<1>10. OneWinner /\ AwaitHasMail BY DEF OneWinner, AwaitHasMail
<1>11. AnswersAgree /\ SweptAfterPark BY DEF AnswersAgree, SweptAfterPark
<1>12. OfferedOK BY DEF OfferedOK
<1>13. QED
  BY <1>1, <1>3, <1>4, <1>5, <1>6, <1>7, <1>8, <1>9, <1>10, <1>11, <1>12 DEF Inv

(* Read() with its three outcomes.                                         *)
LEMMA ReadInv ==
  ASSUME Inv, NEW p \in Agent, Read(p)
  PROVE  Inv'
BY ReadParks, ReadEnds DEF Read, Goto, Answered, MyRef, waitVars, notifyVars

(* The timeout of park/3, won or lost.                                     *)
LEMMA TimeOutInv ==
  ASSUME Inv, NEW p \in Agent, TimeOut(p)
  PROVE  Inv'
<1> USE DEF TimeOut, Goto, Answered, Delete, MyRef, claim, waitVars, notifyVars
<1>1. CASE entry[p] \in rows BY <1>1, TimeOutWins
<1>2. CASE entry[p] \notin rows BY <1>2, TimeOutLoses
<1>3. QED BY <1>1, <1>2

(* claim/1 of wake/3, won or lost.                                         *)
LEMMA ClaimInv ==
  ASSUME Inv, NEW p \in Agent, Claim(p)
  PROVE  Inv'
<1> USE DEF Claim, Goto, Delete, MyRef, claim, waitVars, notifyVars
<1>1. CASE entry[p] \in rows BY <1>1, ClaimWins
<1>2. CASE entry[p] \notin rows BY <1>2, ClaimLoses
<1>3. QED BY <1>1, <1>2

(* insert_new of wake/3.                                                   *)
LEMMA NameInv ==
  ASSUME Inv, NEW p \in Agent, Name(p)
  PROVE  Inv'
BY NameSkips, NameTakes DEF Name, Goto, waitVars

(* Every step of every agent preserves the invariant.                      *)
LEMMA NextInv == Inv /\ [Next]_vars => Inv'
<1> SUFFICES ASSUME Inv, [Next]_vars PROVE Inv' OBVIOUS
<1>1. CASE UNCHANGED vars
  <2> USE <1>1 DEF vars, waitVars, notifyVars, Inv, Alive, MyRef
  <2>1. (TypeOK /\ PhaseOK /\ FreshOK)' BY DEF TypeOK, PhaseOK, FreshOK
  <2>2. KnownOK' BY DEF KnownOK, Known
  <2>3. (RowsOK /\ GoneOK /\ NamedOK)' BY DEF RowsOK, GoneOK, NamedOK
  <2>4. (WakeOK /\ WatchOK)' BY DEF WakeOK, WatchOK
  <2>5. (MailOK /\ TookOK)' BY DEF MailOK, TookOK
  <2>6. (OneWinner /\ AwaitHasMail)' BY DEF OneWinner, AwaitHasMail
  <2>7. (AnswersAgree /\ SweptAfterPark)' BY DEF AnswersAgree, SweptAfterPark
  <2>8. OfferedOK' BY DEF OfferedOK, Held
  <2>9. QED BY <2>1, <2>2, <2>3, <2>4, <2>5, <2>6, <2>7, <2>8
<1>2. ASSUME NEW p \in Agent, WaitStep(p) PROVE Inv'
  BY <1>2, ReadInv, ReceiveInv, TimeOutInv, LostTheRaceInv, ClaimerDownInv,
     UnrowInv, UnclaimInv, FlushInv DEF WaitStep
<1>3. ASSUME NEW p \in Agent, NotifyStep(p) PROVE Inv'
  BY <1>3, FilterInv, NameInv, ClaimInv, SendInv, UnnameInv, WokeInv
     DEF NotifyStep
<1>4. QED
  BY <1>1, <1>2, <1>3, RegisterInv, NotifyInv, KillInv DEF Next

(* The invariant holds in every state of every behaviour of the code.      *)
THEOREM Invariance == Spec => []Inv
<1>1. Init => Inv BY InitInv
<1>2. Inv /\ [Next]_vars => Inv' BY NextInv
<1>3. QED BY <1>1, <1>2, PTL DEF Spec

(* Every variable keeps its type, for any number of agents, addresses and  *)
(* waits.                                                                  *)
THEOREM Typed == Spec => []TypeOK
<1>1. Inv => TypeOK BY DEF Inv
<1>2. QED BY <1>1, Invariance, PTL

(* wake/3: two calls of notify/3 never count the same waiter.              *)
THEOREM WokenOnce == Spec => []OneWinner
<1>1. Inv => OneWinner BY DEF Inv
<1>2. QED BY <1>1, Invariance, PTL

(* park/3 and wake/3: what a wait answers is what its notifier counts.     *)
THEOREM AnswersMatch == Spec => []AnswersAgree
<1>1. Inv => AnswersAgree BY DEF Inv
<1>2. QED BY <1>1, Invariance, PTL

(* lost_the_race/1: its receive without a timeout never blocks for good.   *)
THEOREM LoserHasMail == Spec => []AwaitHasMail
<1>1. Inv => AwaitHasMail BY DEF Inv
<1>2. QED BY <1>1, Invariance, PTL

(* park/3: a wait that parked leaves nothing in the mailbox.               *)
THEOREM ParkedSwept == Spec => []SweptAfterPark
<1>1. Inv => SweptAfterPark BY DEF Inv
<1>2. QED BY <1>1, Invariance, PTL

(* wake/3: notify/3 passes over a parked waiter only where a killed        *)
(* notifier left its name.                                                 *)
THEOREM OnlyTheDeadLose == Spec => []LostOnlyToTheDead
<1>1. Inv => LostOnlyToTheDead
  BY DEF Inv, OfferedOK, LostOnlyToTheDead, Held
<1>2. QED BY <1>1, Invariance, PTL
=============================================================================
