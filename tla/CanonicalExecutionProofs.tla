---------------------- MODULE CanonicalExecutionProofs ----------------------
(***************************************************************************)
(* What holds of the execution path for every set of keys, calls and       *)
(* accounts.  The argument: a claim has one winner (ClaimedOnce of the     *)
(* journal), only the winner of a claim reaches Send, and it gets there at *)
(* most once because every way out of the call gives the claim up without  *)
(* giving the row back.                                                    *)
(***************************************************************************)
EXTENDS CanonicalExecution, OrderJournalProofs

-----------------------------------------------------------------------------
(* The inductive invariant. *)

\* A call that won the claim and is not done with it; and one that has not sent.
Holds(s)    == pc[s] \in {"identity", "send", "reply"} \cup Gates
Prepares(s) == pc[s] \in {"identity", "send"} \cup Gates

Untouched(k) == journal[k].state \in {"ABSENT", "RESERVED"}

\* Who may send, and what was sent.
Claims ==
  /\ \A s \in Calls : Holds(s) => ~Untouched(KeyOf[s])
  /\ \A s, t \in Calls : Holds(s) /\ Holds(t) /\ KeyOf[s] = KeyOf[t] => s = t
  /\ \A s \in Calls : Prepares(s) => wire[KeyOf[s]] = "none"
  /\ \A k \in Keys : Untouched(k) => wire[k] = "none"

\* What the broker holds, and what it said of it.
Books ==
  /\ \A k \in Keys : orders[k] = IF wire[k] = "accepted" THEN 1 ELSE 0
  /\ \A k \in Keys : book[k] # NoOrder =>
       /\ wire[k] = "accepted" /\ Told(k, book[k]) \in feed
       /\ book[k].filled \in 0..journal[k].qty
  /\ \A e \in feed : e \in Evidence /\ \A k \in Keys : e.oid = OrderIdOf[k] => wire[k] = "accepted"
  /\ \A k \in Keys : Present(k) => journal[k].qty \in Quantities

Inv == ExecTypeOK /\ SoundRows /\ Claims /\ Books

(* The call steps, one by one, so that a proof can name them. *)
LEMMA JournalStep ==
  ASSUME Inv, ExecNext
  PROVE  [Next]_journal
<1> USE DEF Next, Settable
<1>1. ASSUME NEW s \in Calls, CallStep(s)
      PROVE  [Next]_journal
  <2>0. KeyOf[s] \in Keys /\ OrderIdOf[KeyOf[s]] \in OrderIds
    BY ExecAssumption
  <2>1. CASE ReserveNew(s)       BY <2>0, <2>1 DEF ReserveNew
  <2>2. CASE Claim(s)            BY <2>0, <2>2 DEF Claim, ClaimWon
  <2>3. CASE Withdraw(s)         BY <2>0, <2>3 DEF Withdraw
  <2>4. CASE Acknowledged(s)     BY <2>0, <2>4 DEF Acknowledged
  <2>5. CASE Refused(s)          BY <2>0, <2>5 DEF Refused
  <2>6. CASE TimedOut(s)         BY <2>0, <2>6 DEF TimedOut, Uncertain
  <2>7. CASE UNCHANGED journal   BY <2>7
  <2>8. QED
    BY <1>1, <2>1, <2>2, <2>3, <2>4, <2>5, <2>6, <2>7
       DEF CallStep, Admit, ReserveExisting, ReserveReturns, ClaimLost, Identified, Pass, Send,
           Flag, Crash
<1>2. ASSUME NEW k \in Keys, KeyStep(k)
      PROVE  [Next]_journal
  <2>1. CASE Deliver(k)
    <3>1. PICK e \in feed : ObserveOrder(k, e)
      BY <2>1 DEF Deliver
    <3>2. e \in Evidence
      BY <3>1 DEF Inv, Books
    <3>3. QED
      BY <3>1, <3>2
  <2>2. CASE Poll(k)
    <3>1. Told(k, book[k]) \in Evidence
      BY <2>2 DEF Poll, Inv, Books
    <3>2. QED
      BY <2>2, <3>1 DEF Poll
  <2>3. CASE Project(k)
    <3>1. journal[k].version \in 0..journal[k].version
      BY DEF Inv, ExecTypeOK, TypeOK, Row
    <3>2. QED
      BY <2>3, <3>1 DEF Project
  <2>4. CASE UNCHANGED journal
    BY <2>4
  <2>5. QED
    BY <1>2, <2>1, <2>2, <2>3, <2>4 DEF KeyStep, Accept, Refuse, Progress
<1>3. ASSUME NEW a \in Accounts, RecoveryStep(a)
      PROVE  [Next]_journal
  <2>1. CASE RecoveryExpire(a)
    BY <2>1 DEF RecoveryExpire, Inv, ExecTypeOK
  <2>2. CASE UNCHANGED journal
    BY <2>2
  <2>3. QED
    BY <1>3, <2>1, <2>2 DEF RecoveryStep, RecoveryStart, RecoveryAssess, RecoveryReread,
                            RecoveryClean, RecoveryStop
<1>4. ASSUME NEW x \in Switches, Engage(x) \/ Disengage(x)
      PROVE  [Next]_journal
  BY <1>4 DEF Engage, Disengage
<1>5. QED
  BY <1>1, <1>2, <1>3, <1>4 DEF ExecNext

(* What a journal step may do to any row, as far as the calls can tell. *)
LEMMA RowFacts ==
  ASSUME TypeOK, SoundRows, [Next]_journal, NEW k \in Keys
  PROVE  /\ ~Untouched(k) => ~Untouched(k)'
         /\ Present(k) => Present(k)' /\ journal'[k].qty = journal[k].qty
         /\ Present(k)' => Present(k) \/ journal'[k].qty \in Quantities
<1>1. CASE UNCHANGED journal
  BY <1>1 DEF Untouched, Present
<1>2. CASE Next
  <2>0. ~Untouched(k) => ~Untouched(k)'
    <3>1. [NeverReclaimed]_journal
      BY StepsRespectHistory
    <3>2. QED
      BY <3>1, <1>2 DEF NeverReclaimed, Untouched
  <2>1. PICK j \in Keys, r \in Row :
          Put(j, r) /\ (Fresh(j, r) \/ Relabelled(j, r) \/ Learned(j, r))
    BY <1>2, StepWritesOneRow
  <2>2. /\ journal'[j] = r
        /\ \A i \in Keys : i # j => journal'[i] = journal[i]
    BY <2>1 DEF Put, TypeOK
  <2>3. CASE k # j
    BY <2>0, <2>2, <2>3 DEF Present
  <2>4. CASE k = j
    <3>1. CASE Fresh(j, r)
      BY <2>0, <2>2, <2>4, <3>1 DEF Fresh, NewRow, Present
    <3>2. CASE Relabelled(j, r)
      BY <2>0, <2>2, <2>4, <3>2 DEF Relabelled, Present, Terminal
    <3>3. CASE Learned(j, r)
      <4>1. PICK e \in Evidence : r = Observed(journal[j], e)
        BY <3>3 DEF Learned
      <4>2. r.qty = journal[j].qty
        BY <4>1, ObservedKeeps DEF TypeOK
      <4>3. r.state = journal[j].state \/ r.state = Target(e)
        BY <4>1 DEF Observed
      <4>4. r.state # "ABSENT"
        BY <3>3, <4>3, Targets DEF Learned, Present
      <4>5. QED
        BY <2>0, <2>2, <2>4, <3>3, <4>2, <4>4 DEF Learned, Present
    <3>4. QED
      BY <2>1, <3>1, <3>2, <3>3
  <2>5. QED
    BY <2>3, <2>4
<1>3. QED
  BY <1>1, <1>2

(* A step that leaves the broker alone and lets nobody into the claim keeps the
   invariant, whatever it does to the journal. *)
LEMMA QuietStep ==
  ASSUME Inv, [Next]_journal, UNCHANGED brokerVars,
         \A s \in Calls : (Holds(s)' => Holds(s)) /\ (Prepares(s)' => Prepares(s))
  PROVE  Claims' /\ Books'
<1>0. \A k \in Keys : /\ ~Untouched(k) => ~Untouched(k)'
                      /\ Present(k) => Present(k)' /\ journal'[k].qty = journal[k].qty
                      /\ Present(k)' => Present(k) \/ journal'[k].qty \in Quantities
  BY RowFacts DEF Inv, ExecTypeOK
<1>1. Claims'
  BY <1>0, ExecAssumption DEF Inv, Claims, brokerVars
<1>2. Books'
  <2>1. \A k \in Keys : book[k] # NoOrder => Present(k)
    BY DEF Inv, Claims, Books, Untouched, Present
  <2>2. QED
    BY <1>0, <2>1 DEF Inv, Books, brokerVars, Told
<1>3. QED
  BY <1>1, <1>2

(* Where a call may be, and the claim given up on the way out. *)
LEMMA CallMoves ==
  ASSUME ExecTypeOK, NEW s \in Calls, CallStep(s), ~Claim(s), ~Send(s)
  PROVE  /\ UNCHANGED brokerVars
         /\ \A t \in Calls : (Holds(t)' => Holds(t)) /\ (Prepares(t)' => Prepares(t))
<1>0. pc \in [Calls -> CallStates]
  BY DEF ExecTypeOK
<1> USE <1>0 DEF Holds, Prepares, brokerVars, Return, Goto, At, Gates, CallStates
<1>1. CASE Admit(s)            BY <1>1 DEF Admit
<1>2. CASE ReserveNew(s)       BY <1>2 DEF ReserveNew
<1>3. CASE ReserveExisting(s)  BY <1>3 DEF ReserveExisting
<1>4. CASE ReserveReturns(s)   BY <1>4 DEF ReserveReturns
<1>5. CASE ClaimLost(s)        BY <1>5 DEF ClaimLost
<1>6. CASE Identified(s)       BY <1>6 DEF Identified
<1>7. CASE Pass(s)             BY <1>7 DEF Pass, After
<1>8. CASE Withdraw(s)         BY <1>8 DEF Withdraw
<1>9. CASE Acknowledged(s)     BY <1>9 DEF Acknowledged
<1>10. CASE Refused(s)         BY <1>10 DEF Refused
<1>11. CASE TimedOut(s)        BY <1>11 DEF TimedOut
<1>12. CASE Flag(s)            BY <1>12 DEF Flag
<1>13. CASE Crash(s)           BY <1>13 DEF Crash
<1>14. QED
  BY <1>1, <1>2, <1>3, <1>4, <1>5, <1>6, <1>7, <1>8, <1>9, <1>10, <1>11, <1>12, <1>13
     DEF CallStep

(* The winner of a claim is the only one past it. *)
LEMMA ClaimKeepsClaims ==
  ASSUME Inv, [Next]_journal, NEW s \in Calls, Claim(s)
  PROVE  Claims' /\ Books'
<1> DEFINE c == KeyOf[s]
<1>0. c \in Keys /\ journal[c].state = "RESERVED" /\ UNCHANGED brokerVars
  BY ExecAssumption DEF Claim, ClaimWon, ClaimSubmission, Claimable
<1>1. pc' = [pc EXCEPT ![s] = "identity"]
  BY DEF Claim
<1>2. /\ \A t \in Calls : Holds(t) => KeyOf[t] # c
      /\ wire[c] = "none"
  BY <1>0 DEF Inv, Claims, Untouched
<1>3. \A t \in Calls : t # s => (Holds(t)' <=> Holds(t)) /\ (Prepares(t)' <=> Prepares(t))
  BY <1>1 DEF Holds, Prepares, Inv, ExecTypeOK
<1>4. \A k \in Keys : /\ ~Untouched(k) => ~Untouched(k)'
                      /\ Present(k) => Present(k)' /\ journal'[k].qty = journal[k].qty
                      /\ Present(k)' => Present(k) \/ journal'[k].qty \in Quantities
  BY RowFacts DEF Inv, ExecTypeOK
<1>5. ~Untouched(c)'
  BY <1>0 DEF Claim, ClaimWon, ClaimSubmission, Put, Inv, ExecTypeOK, TypeOK, Row, Untouched
<1>6. Claims'
  <2>1. \A t \in Calls : Holds(t)' => ~Untouched(KeyOf[t])'
    BY <1>3, <1>4, <1>5, ExecAssumption DEF Inv, Claims
  <2>2. \A t, u \in Calls : Holds(t)' /\ Holds(u)' /\ KeyOf[t] = KeyOf[u] => t = u
    BY <1>2, <1>3 DEF Inv, Claims
  <2>3. \A t \in Calls : Prepares(t)' => wire'[KeyOf[t]] = "none"
    BY <1>0, <1>2, <1>3 DEF Inv, Claims, brokerVars
  <2>4. \A k \in Keys : Untouched(k)' => wire'[k] = "none"
    BY <1>0, <1>4 DEF Inv, Claims, brokerVars
  <2>5. QED
    BY <2>1, <2>2, <2>3, <2>4 DEF Claims
<1>7. Books'
  <2>1. \A k \in Keys : book[k] # NoOrder => Present(k)
    BY DEF Inv, Claims, Books, Untouched, Present
  <2>2. QED
    BY <1>0, <1>4, <2>1 DEF Inv, Books, brokerVars, Told
<1>8. QED
  BY <1>6, <1>7

(* Sending uses the claim up. *)
LEMMA SendKeepsClaims ==
  ASSUME Inv, NEW s \in Calls, Send(s)
  PROVE  Claims' /\ Books'
<1> DEFINE c == KeyOf[s]
<1>0. c \in Keys /\ UNCHANGED <<journal, orders, book, feed>> /\ Holds(s) /\ Prepares(s)
  BY ExecAssumption DEF Send, Holds, Prepares, At
<1>1. /\ wire' = [wire EXCEPT ![c] = "transit"] /\ wire[c] = "none"
      /\ wire \in [Keys -> {"none", "transit", "accepted", "refused", "lost"}]
  BY <1>0 DEF Send, Inv, Claims, ExecTypeOK
<1>2. \A t \in Calls : t # s => (Holds(t)' <=> Holds(t)) /\ (Prepares(t)' <=> Prepares(t))
  BY DEF Send, Goto, Holds, Prepares, Inv, ExecTypeOK
<1>3. ~Prepares(s)' /\ Holds(s)'
  BY DEF Send, Goto, Holds, Prepares, Inv, ExecTypeOK, Gates
<1>4. Claims'
  <2>1. \A t \in Calls : t # s /\ Prepares(t)' => KeyOf[t] # c
    BY <1>0, <1>2 DEF Inv, Claims, Prepares, Holds
  <2>2. \A k \in Keys : Untouched(k)' => k # c
    BY <1>0 DEF Inv, Claims, Untouched
  <2>3. QED
    BY <1>0, <1>1, <1>2, <1>3, <2>1, <2>2, ExecAssumption DEF Inv, Claims, Untouched
<1>5. Books'
  <2>1. \A k \in Keys : wire'[k] = "accepted" <=> wire[k] = "accepted"
    BY <1>1
  <2>2. QED
    BY <1>0, <2>1 DEF Inv, Books, Told, Present
<1>6. QED
  BY <1>4, <1>5

(* The broker executes a request once, and says only what is so. *)
LEMMA BrokerKeepsBooks ==
  ASSUME Inv, NEW k \in Keys, Accept(k) \/ Refuse(k) \/ Progress(k)
  PROVE  Claims' /\ Books'
<1>0. /\ wire \in [Keys -> {"none", "transit", "accepted", "refused", "lost"}]
      /\ orders \in [Keys -> Nat]
      /\ book \in [Keys -> {NoOrder} \cup [status : BrokerStatuses, filled : Nat]]
      /\ UNCHANGED <<journal, pc>>
  BY DEF Inv, ExecTypeOK, Accept, Refuse, Progress, callVars
<1>1. \A s \in Calls : (Holds(s)' <=> Holds(s)) /\ (Prepares(s)' <=> Prepares(s))
  BY <1>0 DEF Holds, Prepares
<1>2. \A j \in Keys : (Untouched(j)' <=> Untouched(j)) /\ (Present(j)' <=> Present(j))
  BY <1>0 DEF Untouched, Present
<1>3. wire[k] # "none" => Present(k) /\ journal[k].qty \in Quantities /\ journal[k].qty \in Nat
  BY AmountsAssumption DEF Inv, Claims, Books, Untouched, Present
<1>4. ASSUME wire[k] = "transit",
             NEW w \in {"accepted", "refused", "lost"}, wire' = [wire EXCEPT ![k] = w]
      PROVE  Claims'
  BY <1>0, <1>1, <1>2, <1>4, ExecAssumption DEF Inv, Claims
<1>5. ASSUME NEW b \in [status : BrokerStatuses, filled : 0..journal[k].qty], wire[k] # "none",
             Report(k, b), wire'[k] = "accepted", \A j \in Keys : j # k => wire'[j] = wire[j],
             orders'[k] = 1, \A j \in Keys : j # k => orders'[j] = orders[j]
      PROVE  Books'
  <2>1. Told(k, b) \in Evidence
    BY <1>3, <1>5, ReportsAssumption DEF Told
  <2>2. \A j \in Keys : Told(k, b).oid = OrderIdOf[j] => j = k
    BY ExecAssumption DEF Told
  <2>3. b \in [status : BrokerStatuses, filled : Nat]
    BY <1>3, <1>5
  <2>4. /\ book'[k] = b /\ \A j \in Keys : j # k => book'[j] = book[j]
        /\ feed' = feed \cup {Told(k, b)}
    BY <1>0, <1>5 DEF Report
  <2>5. \A j \in Keys : orders'[j] = IF wire'[j] = "accepted" THEN 1 ELSE 0
    BY <1>5 DEF Inv, Books
  <2>6. \A j \in Keys : book'[j] # NoOrder =>
          /\ wire'[j] = "accepted" /\ Told(j, book'[j]) \in feed'
          /\ book'[j].filled \in 0..journal'[j].qty
    BY <1>0, <1>5, <2>4 DEF Inv, Books
  <2>7. \A e \in feed' : e \in Evidence /\ \A j \in Keys : e.oid = OrderIdOf[j] => wire'[j] = "accepted"
    BY <1>5, <2>1, <2>2, <2>4 DEF Inv, Books
  <2>8. \A j \in Keys : Present(j)' => journal'[j].qty \in Quantities
    BY <1>0, <1>2 DEF Inv, Books
  <2>9. QED
    BY <2>5, <2>6, <2>7, <2>8 DEF Books, Told
<1>6. CASE Accept(k)
  <2>1. /\ wire[k] = "transit" /\ wire' = [wire EXCEPT ![k] = "accepted"]
        /\ orders' = [orders EXCEPT ![k] = @ + 1] /\ orders[k] = 0
        /\ Report(k, [status |-> "OPEN", filled |-> 0])
    BY <1>6 DEF Accept, Inv, Books
  <2>2. [status |-> "OPEN", filled |-> 0] \in [status : BrokerStatuses, filled : 0..journal[k].qty]
    BY <1>3, <2>1 DEF BrokerStatuses
  <2>3. Books'
    BY <1>0, <1>5, <2>1, <2>2
  <2>4. QED
    BY <1>4, <2>1, <2>3
<1>7. CASE Refuse(k)
  <2>1. PICK w \in {"refused", "lost"} : wire' = [wire EXCEPT ![k] = w]
    BY <1>7 DEF Refuse
  <2>2. wire[k] = "transit" /\ UNCHANGED <<orders, book, feed>>
    BY <1>7 DEF Refuse
  <2>3. \A j \in Keys : wire'[j] = "accepted" <=> wire[j] = "accepted"
    BY <1>0, <2>1, <2>2
  <2>4. Books'
    BY <1>0, <1>2, <2>2, <2>3 DEF Inv, Books, Told
  <2>5. QED
    BY <1>4, <2>1, <2>2, <2>4
<1>8. CASE Progress(k)
  <2>1. book[k] # NoOrder /\ UNCHANGED <<wire, orders>>
    BY <1>8 DEF Progress, NoOrder
  <2>2. wire[k] = "accepted" /\ book[k].filled \in 0..journal[k].qty
    BY <2>1 DEF Inv, Books
  <2>3. PICK b \in [status : BrokerStatuses, filled : 0..journal[k].qty] : Report(k, b)
    <3>1. PICK f \in book[k].filled..journal[k].qty :
            \E st \in BrokerStatuses : Report(k, [status |-> st, filled |-> f])
      BY <1>8 DEF Progress, BrokerStatuses
    <3>2. f \in 0..journal[k].qty
      BY <1>3, <2>2
    <3>3. QED
      BY <3>1, <3>2
  <2>4. Books'
    <3>1. orders[k] = 1
      BY <2>2 DEF Inv, Books
    <3>2. QED
      BY <1>5, <2>1, <2>2, <2>3, <3>1
  <2>5. Claims'
    BY <1>1, <1>2, <2>1, ExecAssumption DEF Inv, Claims
  <2>6. QED
    BY <2>4, <2>5
<1>9. QED
  BY <1>6, <1>7, <1>8

(* The types of what the calls, the broker, recovery and the operator write. *)
LEMMA ExecTypePreserved ==
  ASSUME Inv, ExecNext
  PROVE  ExecTypeOK'
<1>0. TypeOK'
  BY JournalStep, TypePreserved DEF Inv, ExecTypeOK
<1> USE DEF callVars, controlVars, brokerVars, recVars
<1>1. ASSUME NEW s \in Calls, CallStep(s)
      PROVE  ExecTypeOK'
  <2>0. ExecTypeOK /\ KeyOf[s] \in Keys /\ Account(s) \in Accounts
    BY ExecAssumption, NamesAssumption DEF Inv, Account
  <2> USE <1>0, <2>0 DEF ExecTypeOK, CallStates, Return, Goto, At, SetRecovery
  <2>1. CASE Admit(s)            BY <2>1 DEF Admit
  <2>2. CASE ReserveNew(s)       BY <2>2 DEF ReserveNew
  <2>3. CASE ReserveExisting(s)  BY <2>3 DEF ReserveExisting
  <2>4. CASE ReserveReturns(s)   BY <2>4 DEF ReserveReturns
  <2>5. CASE Claim(s)            BY <2>5 DEF Claim
  <2>6. CASE ClaimLost(s)        BY <2>6 DEF ClaimLost
  <2>7. CASE Identified(s)       BY <2>7 DEF Identified, Gates
  <2>8. CASE Pass(s)             BY <2>8 DEF Pass, Gates, After
  <2>9. CASE Withdraw(s)         BY <2>9 DEF Withdraw
  <2>10. CASE Send(s)            BY <2>10 DEF Send
  <2>11. CASE Acknowledged(s)    BY <2>11 DEF Acknowledged
  <2>12. CASE Refused(s)         BY <2>12 DEF Refused
  <2>13. CASE TimedOut(s)        BY <2>13 DEF TimedOut
  <2>14. CASE Flag(s)            BY <2>14 DEF Flag
  <2>15. CASE Crash(s)           BY <2>15 DEF Crash
  <2>16. QED
    BY <1>1, <2>1, <2>2, <2>3, <2>4, <2>5, <2>6, <2>7, <2>8, <2>9, <2>10, <2>11, <2>12,
       <2>13, <2>14, <2>15 DEF CallStep
<1>2. ASSUME NEW k \in Keys, KeyStep(k)
      PROVE  ExecTypeOK'
  <2>0. ExecTypeOK
    BY DEF Inv
  <2>1. CASE Accept(k) \/ Refuse(k) \/ Progress(k)
    <3>1. Books'
      BY <2>1, BrokerKeepsBooks
    <3>2. feed' \in SUBSET Evidence
      BY <3>1 DEF Books
    <3>3. wire' \in [Keys -> {"none", "transit", "accepted", "refused", "lost"}]
      BY <2>0, <2>1 DEF ExecTypeOK, Accept, Refuse, Progress
    <3>4. orders' \in [Keys -> Nat]
      BY <2>0, <2>1 DEF ExecTypeOK, Accept, Refuse, Progress
    <3>5. book' \in [Keys -> {NoOrder} \cup [status : BrokerStatuses, filled : Nat]]
      <4>1. CASE Accept(k)
        BY <2>0, <4>1 DEF ExecTypeOK, Accept, Report, BrokerStatuses
      <4>2. CASE Refuse(k)
        BY <2>0, <4>2 DEF ExecTypeOK, Refuse
      <4>3. CASE Progress(k)
        <5>1. book[k].filled \in Nat /\ journal[k].qty \in Nat
          BY <2>0, <4>3 DEF ExecTypeOK, TypeOK, Row, Progress, NoOrder
        <5>2. PICK f \in book[k].filled..journal[k].qty :
                \E st \in BrokerStatuses : Report(k, [status |-> st, filled |-> f])
          BY <4>3 DEF Progress, BrokerStatuses
        <5>3. f \in Nat
          BY <5>1
        <5>4. QED
          BY <2>0, <5>2, <5>3 DEF ExecTypeOK, Report
      <4>4. QED
        BY <2>1, <4>1, <4>2, <4>3
    <3>6. UNCHANGED <<callVars, controlVars, recVars>>
      BY <2>1 DEF Accept, Refuse, Progress
    <3>7. QED
      BY <1>0, <2>0, <3>2, <3>3, <3>4, <3>5, <3>6 DEF ExecTypeOK
  <2>2. CASE Deliver(k) \/ Poll(k) \/ Project(k)
    BY <1>0, <2>0, <2>2 DEF ExecTypeOK, Deliver, Poll, Project
  <2>3. QED
    BY <1>2, <2>1, <2>2 DEF KeyStep
<1>3. ASSUME NEW a \in Accounts, RecoveryStep(a)
      PROVE  ExecTypeOK'
  <2>0. ExecTypeOK
    BY DEF Inv
  <2> USE <1>0, <2>0 DEF ExecTypeOK, SetRecovery
  <2>1. CASE RecoveryStart(a)    BY <2>1 DEF RecoveryStart, UnresolvedOf
  <2>2. CASE RecoveryExpire(a)   BY <2>2 DEF RecoveryExpire
  <2>3. CASE RecoveryAssess(a)   BY <2>3 DEF RecoveryAssess
  <2>4. CASE RecoveryReread(a)   BY <2>4 DEF RecoveryReread
  <2>5. CASE RecoveryClean(a)    BY <2>5 DEF RecoveryClean
  <2>6. CASE RecoveryStop(a)     BY <2>6 DEF RecoveryStop
  <2>7. QED
    BY <1>3, <2>1, <2>2, <2>3, <2>4, <2>5, <2>6 DEF RecoveryStep
<1>4. ASSUME NEW x \in Switches, Engage(x) \/ Disengage(x)
      PROVE  ExecTypeOK'
  <2>0. ExecTypeOK
    BY DEF Inv
  <2>1. fresh' \in [Accounts -> BOOLEAN]
    BY <1>4, <2>0 DEF ExecTypeOK, Engage, Disengage, Touch
  <2>2. switches' \in SUBSET Switches /\ standing' \in [Calls -> SUBSET Switches]
    BY <1>4, <2>0 DEF ExecTypeOK, Engage, Disengage
  <2>3. pc' = pc /\ UNCHANGED <<journal, recovery, flagged, brokerVars, rec, todo>>
    BY <1>4 DEF Engage, Disengage, callVars
  <2>4. QED
    BY <1>0, <2>0, <2>1, <2>2, <2>3 DEF ExecTypeOK, brokerVars
<1>5. QED
  BY <1>1, <1>2, <1>3, <1>4 DEF ExecNext

(* The invariant is inductive. *)
LEMMA InvPreserved ==
  ASSUME Inv, [ExecNext]_vars
  PROVE  Inv'
<1>1. CASE UNCHANGED vars
  BY <1>1 DEF vars, callVars, controlVars, brokerVars, recVars, Inv, ExecTypeOK, TypeOK,
     SoundRows, Claims, Books, Holds, Prepares, Untouched, Present, Told
<1>2. CASE ExecNext
  <2>1. [Next]_journal
    BY <1>2, JournalStep
  <2>2. ExecTypeOK' /\ SoundRows'
    BY <1>2, <2>1, ExecTypePreserved, SoundPreserved DEF Inv, ExecTypeOK
  <2>3. Claims' /\ Books'
    <3>1. ASSUME NEW s \in Calls, CallStep(s)
          PROVE  Claims' /\ Books'
      <4>1. CASE Claim(s)
        BY <2>1, <4>1, ClaimKeepsClaims
      <4>2. CASE Send(s)
        BY <4>2, SendKeepsClaims
      <4>3. CASE ~Claim(s) /\ ~Send(s)
        BY <2>1, <3>1, <4>3, CallMoves, QuietStep DEF Inv
      <4>4. QED
        BY <4>1, <4>2, <4>3
    <3>2. ASSUME NEW k \in Keys, KeyStep(k)
          PROVE  Claims' /\ Books'
      <4>1. CASE Accept(k) \/ Refuse(k) \/ Progress(k)
        BY <4>1, BrokerKeepsBooks
      <4>2. CASE Deliver(k) \/ Poll(k) \/ Project(k)
        <5>1. UNCHANGED brokerVars /\ UNCHANGED pc
          BY <4>2 DEF Deliver, Poll, Project, callVars
        <5>2. QED
          BY <2>1, <5>1, QuietStep DEF Holds, Prepares
      <4>3. QED
        BY <3>2, <4>1, <4>2 DEF KeyStep
    <3>3. ASSUME NEW a \in Accounts, RecoveryStep(a)
          PROVE  Claims' /\ Books'
      <4>1. UNCHANGED brokerVars /\ UNCHANGED pc
        BY <3>3 DEF RecoveryStep, RecoveryStart, RecoveryExpire, RecoveryAssess, RecoveryReread,
                    RecoveryClean, RecoveryStop, callVars
      <4>2. QED
        BY <2>1, <4>1, QuietStep DEF Holds, Prepares
    <3>4. ASSUME NEW x \in Switches, Engage(x) \/ Disengage(x)
          PROVE  Claims' /\ Books'
      <4>1. UNCHANGED brokerVars /\ UNCHANGED pc
        BY <3>4 DEF Engage, Disengage, callVars
      <4>2. QED
        BY <2>1, <4>1, QuietStep DEF Holds, Prepares
    <3>5. QED
      BY <1>2, <3>1, <3>2, <3>3, <3>4 DEF ExecNext
  <2>4. QED
    BY <2>2, <2>3 DEF Inv
<1>3. QED
  BY <1>1, <1>2

(* The invariant holds. *)
LEMMA InvHolds == ExecSpec => []Inv
<1>1. ExecInit => Inv
  <2> SUFFICES ASSUME ExecInit PROVE Inv
    OBVIOUS
  <2>0. TypeOK /\ SoundRows
    BY DEF ExecInit, Init, TypeOK, SoundRows, SoundRow, NewRow, Row, States
  <2>1. ExecTypeOK
    BY <2>0 DEF ExecInit, ExecTypeOK, CallStates
  <2>2. Claims
    BY ExecAssumption DEF ExecInit, Init, NewRow, Claims, Holds, Prepares, Untouched, Gates
  <2>3. Books
    BY DEF ExecInit, Init, NewRow, Books, Present
  <2>4. QED
    BY <2>0, <2>1, <2>2, <2>3 DEF Inv
<1>2. Inv /\ [ExecNext]_vars => Inv'
  BY InvPreserved
<1>3. QED
  BY <1>1, <1>2, PTL DEF ExecSpec

(* Every run of the execution path is a run of the journal: all that is proved of
   the table in OrderJournalProofs holds of the table the calls share. *)
THEOREM UsesJournal == ExecSpec => Spec
<1>1. ExecInit => Init
  BY DEF ExecInit
<1>2. Inv /\ [ExecNext]_vars => [Next]_journal
  BY JournalStep DEF vars
<1>3. QED
  BY <1>1, <1>2, InvHolds, PTL DEF ExecSpec, Spec

(* The types. *)
THEOREM ExecTypeCorrect == ExecSpec => []ExecTypeOK
<1>1. Inv => ExecTypeOK
  BY DEF Inv
<1>2. QED
  BY <1>1, InvHolds, PTL

(* No intent ever becomes two broker orders. *)
THEOREM SentOnce == ExecSpec => []AtMostOneOrder
<1>1. Inv => AtMostOneOrder
  BY DEF Inv, Books, AtMostOneOrder
<1>2. QED
  BY <1>1, InvHolds, PTL

-----------------------------------------------------------------------------
(* One open increase. *)

Open(k) == journal[k].state \in {"SUBMITTING", "UNKNOWN"}

(* Only a claim opens a submission. *)
LEMMA StaysClosed ==
  ASSUME Inv, ExecNext, \A s \in Calls : ~Claim(s), NEW k \in Keys
  PROVE  Open(k)' => Open(k)
<1>0. journal \in [Keys -> Row]
  BY DEF Inv, ExecTypeOK, TypeOK
<1> USE DEF Open
<1>a. ASSUME NEW j \in Keys, NEW oid, NEW st \in {"REJECTED", "CANCELLED"}, Transition(j, st, oid)
      PROVE  Open(k)' => Open(k)
  BY <1>0, <1>a DEF Transition, Put, Row
<1>b. ASSUME NEW j \in Keys, NEW e \in Evidence, ObserveOrder(j, e)
      PROVE  Open(k)' => Open(k)
  <2>1. Observed(journal[j], e).state \in {journal[j].state, Target(e)}
    BY DEF Observed
  <2>2. QED
    BY <1>0, <1>b, <2>1, Targets DEF ObserveOrder, Put
<1>1. ASSUME NEW s \in Calls, CallStep(s)
      PROVE  Open(k)' => Open(k)
  <2>0. KeyOf[s] \in Keys
    BY ExecAssumption
  <2>1. CASE ReserveNew(s)
    BY <1>0, <2>0, <2>1 DEF ReserveNew, Reserve, Put, NewRow
  <2>2. CASE Withdraw(s)
    BY <1>a, <2>0, <2>2 DEF Withdraw
  <2>3. CASE Acknowledged(s)
    BY <1>0, <2>0, <2>3 DEF Acknowledged, Acknowledge, Put, Row
  <2>4. CASE Refused(s)
    BY <1>a, <2>0, <2>4 DEF Refused
  <2>5. CASE TimedOut(s)
    BY <1>0, <2>0, <2>5 DEF TimedOut, Uncertain, SubmissionUncertain, Put, Row
  <2>6. CASE UNCHANGED journal
    BY <2>6
  <2>7. QED
    BY <1>1, <2>1, <2>2, <2>3, <2>4, <2>5, <2>6
       DEF CallStep, Admit, ReserveExisting, ReserveReturns, ClaimLost, Identified, Pass, Send,
           Flag, Crash
<1>2. ASSUME NEW j \in Keys, KeyStep(j)
      PROVE  Open(k)' => Open(k)
  <2>1. CASE Deliver(j)
    BY <1>b, <2>1 DEF Deliver, Inv, Books
  <2>2. CASE Poll(j)
    BY <1>b, <2>2 DEF Poll, Inv, Books
  <2>3. CASE Project(j)
    BY <1>0, <2>3 DEF Project, MarkProjected, Put, Row
  <2>4. CASE UNCHANGED journal
    BY <2>4
  <2>5. QED
    BY <1>2, <2>1, <2>2, <2>3, <2>4 DEF KeyStep, Accept, Refuse, Progress
<1>3. ASSUME NEW a \in Accounts, RecoveryStep(a)
      PROVE  Open(k)' => Open(k)
  <2>1. CASE RecoveryExpire(a)
    BY <1>a, <2>1 DEF RecoveryExpire, Inv, ExecTypeOK
  <2>2. CASE UNCHANGED journal
    BY <2>2
  <2>3. QED
    BY <1>3, <2>1, <2>2 DEF RecoveryStep, RecoveryStart, RecoveryAssess, RecoveryReread,
                            RecoveryClean, RecoveryStop
<1>4. ASSUME NEW x \in Switches, Engage(x) \/ Disengage(x)
      PROVE  Open(k)' => Open(k)
  BY <1>4 DEF Engage, Disengage
<1>5. QED
  BY <1>1, <1>2, <1>3, <1>4 DEF ExecNext

\* The request of an intent is out, or a call of it that may send it has passed the
\* journal's gate.  Nothing that happens to the calls takes the first back.
Leaving(k) ==
  \/ wire[k] # "none"
  \/ \E s \in Calls : KeyOf[s] = k /\ pc[s] \in {"control", "kill_switch", "send"}

\* Of two increases of an account with an open outcome, one has not got that far.
TurnsInv ==
  \A j, k \in Increasing :
    j # k /\ AccountOf[j] = AccountOf[k] => ~(Leaving(j) /\ Open(j) /\ Leaving(k) /\ Open(k))

(* An increase gets past the journal's gate only by passing it. *)
LEMMA GetsPast ==
  ASSUME Inv, ExecNext, NEW k \in Increasing, Leaving(k)'
  PROVE  \/ Leaving(k)
         \/ \E s \in Calls : KeyOf[s] = k /\ pc[s] = "journal" /\ Pass(s)
<1>0. /\ pc \in [Calls -> CallStates] /\ k \in Keys
      /\ wire \in [Keys -> {"none", "transit", "accepted", "refused", "lost"}]
  BY ExecAssumption DEF Inv, ExecTypeOK
<1>1. CASE wire[k] # "none"
  BY <1>1 DEF Leaving
<1>2. CASE wire'[k] # wire[k] /\ wire[k] = "none"
  <2>1. PICK s \in Calls : CallStep(s)
    <3>1. \A j \in Keys : ~Accept(j) /\ ~Refuse(j)
      BY <1>0, <1>2 DEF Accept, Refuse
    <3>2. QED
      BY <1>2, <3>1 DEF ExecNext, KeyStep, RecoveryStep, Engage, Disengage, Progress, Deliver, Poll, Project,
         RecoveryStart, RecoveryExpire, RecoveryAssess, RecoveryReread, RecoveryClean, RecoveryStop, brokerVars
  <2>2. Send(s)
    BY <1>2, <2>1 DEF CallStep, Admit, ReserveNew, ReserveExisting, ReserveReturns, Claim, ClaimLost, Identified,
       Pass, Withdraw, Acknowledged, Refused, TimedOut, Flag, Crash, brokerVars
  <2>3. KeyOf[s] = k /\ pc[s] = "send"
    BY <1>0, <1>2, <2>2, ExecAssumption DEF Send, At
  <2>4. QED
    BY <2>3 DEF Leaving
<1>3. ASSUME NEW t \in Calls, KeyOf[t] = k, pc'[t] \in {"control", "kill_switch", "send"}, pc'[t] # pc[t]
      PROVE  Leaving(k) \/ \E s \in Calls : KeyOf[s] = k /\ pc[s] = "journal" /\ Pass(s)
  <2>1. PICK s \in Calls : CallStep(s)
    BY <1>3 DEF ExecNext, KeyStep, RecoveryStep, Engage, Disengage, Accept, Refuse, Progress,
                Deliver, Poll, Project, RecoveryStart, RecoveryExpire, RecoveryAssess,
                RecoveryReread, RecoveryClean, RecoveryStop, callVars
  <2>2. t = s
    BY <1>0, <1>3, <2>1 DEF CallStep, Admit, ReserveNew, ReserveExisting, ReserveReturns, Claim,
       ClaimLost, Identified, Pass, Withdraw, Send, Acknowledged, Refused, TimedOut, Flag, Crash,
       Return, Goto
  <2>3. CASE Pass(s)
    <3>1. pc'[s] = After[pc[s]] /\ pc[s] \in Gates
      BY <1>0, <2>3 DEF Pass, Goto
    <3>2. CASE pc[s] = "safe_mode"
      BY <1>3, <2>2, <3>1, <3>2 DEF After
    <3>3. CASE pc[s] = "journal"
      BY <1>3, <2>2, <2>3, <3>3
    <3>4. CASE pc[s] \in {"control", "kill_switch"}
      BY <1>3, <2>2, <3>4 DEF Leaving
    <3>5. QED
      BY <3>1, <3>2, <3>3, <3>4 DEF Gates
  <2>4. CASE Identified(s)
    BY <1>0, <1>3, <2>2, <2>4 DEF Identified, Goto
  <2>5. CASE ~Pass(s) /\ ~Identified(s)
    BY <1>0, <1>3, <2>1, <2>2, <2>5 DEF CallStep, Admit, ReserveNew, ReserveExisting, Send,
       ReserveReturns, Claim, ClaimLost, Withdraw, Acknowledged, Refused, TimedOut, Flag, Crash,
       Return, Goto
  <2>6. QED
    BY <2>3, <2>4, <2>5
<1>4. QED
  BY <1>1, <1>2, <1>3 DEF Leaving

(* What a claim opens has not left, and it moves nobody else. *)
LEMMA ClaimIsBehind ==
  ASSUME Inv, NEW s \in Calls, Claim(s), NEW i \in Keys, Leaving(i)', Open(i)'
  PROVE  Leaving(i) /\ Open(i)
<1>1. /\ pc' = [pc EXCEPT ![s] = "identity"] /\ pc \in [Calls -> CallStates]
      /\ journal[KeyOf[s]].state = "RESERVED" /\ KeyOf[s] \in Keys
      /\ \A j \in Keys : j # KeyOf[s] => journal'[j] = journal[j]
      /\ UNCHANGED wire
  BY ExecAssumption DEF Claim, ClaimWon, ClaimSubmission, Claimable, Put, Inv, ExecTypeOK, TypeOK, brokerVars
<1>2. ASSUME NEW t \in Calls, pc'[t] \in {"control", "kill_switch", "send"}
      PROVE  pc[t] = pc'[t]
  BY <1>1, <1>2
<1>3. Leaving(i)
  BY <1>1, <1>2 DEF Leaving
<1>4. i # KeyOf[s]
  <2>1. ~Untouched(i)
    <3>1. CASE wire[i] # "none"
      BY <3>1 DEF Inv, Claims
    <3>2. ASSUME NEW t \in Calls, KeyOf[t] = i, pc[t] \in {"control", "kill_switch", "send"}
          PROVE  ~Untouched(i)
      BY <3>2 DEF Inv, Claims, Holds, Gates
    <3>3. QED
      BY <1>3, <3>1, <3>2 DEF Leaving
  <2>2. QED
    BY <1>1, <2>1 DEF Untouched
<1>5. QED
  BY <1>1, <1>3, <1>4 DEF Open

LEMMA TurnsKept ==
  ASSUME Inv, TurnsInv, [ExecNext]_vars
  PROVE  TurnsInv'
<1>1. CASE UNCHANGED vars
  BY <1>1 DEF vars, callVars, brokerVars, TurnsInv, Leaving, Open
<1>2. ASSUME ExecNext,
             NEW j \in Increasing, NEW k \in Increasing, j # k, AccountOf[j] = AccountOf[k],
             Leaving(j)', Open(j)', Leaving(k)', Open(k)'
      PROVE  FALSE
  <2>0. j \in Keys /\ k \in Keys
    BY ExecAssumption
  <2>1. CASE \E s \in Calls : Claim(s)
    BY <1>2, <2>0, <2>1, ClaimIsBehind DEF TurnsInv
  <2>2. CASE \A s \in Calls : ~Claim(s)
    <3>1. Open(j) /\ Open(k)
      BY <1>2, <2>0, <2>2, StaysClosed
    <3>2. ASSUME NEW i \in Keys, NEW h \in Keys, i # h, AccountOf[i] = AccountOf[h], Open(h),
                 NEW s \in Calls, KeyOf[s] = i, pc[s] = "journal", Pass(s)
          PROVE  FALSE
      <4>1. h \in UnresolvedOf(AccountOf[i]) \ {i}
        BY <3>2 DEF UnresolvedOf, IsUnresolved, Unresolved, Open
      <4>2. QED
        BY <3>2, <4>1 DEF Pass, Clear, Blocks, Open
    <3>3. Leaving(j) /\ Leaving(k)
      BY <1>2, <2>0, <3>1, <3>2, GetsPast
    <3>4. QED
      BY <1>2, <3>1, <3>3 DEF TurnsInv
  <2>3. QED
    BY <2>1, <2>2
<1>3. QED
  BY <1>1, <1>2 DEF TurnsInv

(* No increase leaves while another one of the account has left and its outcome is open,
   whether or not its call still waits (submit_order step 5). *)
THEOREM IncreasesTakeTurns == ExecSpec => []OneOpenIncrease
<1>1. ExecInit => TurnsInv
  BY ExecAssumption DEF ExecInit, TurnsInv, Leaving
<1>2. Inv /\ TurnsInv /\ [ExecNext]_vars => TurnsInv'
  BY TurnsKept
<1>3. TurnsInv => OneOpenIncrease
  BY DEF TurnsInv, OneOpenIncrease, Outstanding, Leaving, Open
<1>4. QED
  BY <1>1, <1>2, <1>3, InvHolds, PTL DEF ExecSpec

-----------------------------------------------------------------------------
(* What is known of an order. *)

LEMMA Ranks ==
  /\ Rank["ABSENT"] = 0 /\ Rank["RESERVED"] = 1 /\ Rank["SUBMITTING"] = 2 /\ Rank["UNKNOWN"] = 3
  /\ Rank["SUBMITTED"] = 4 /\ Rank["PARTIAL"] = 5
  /\ Rank["FILLED"] = 6 /\ Rank["REJECTED"] = 6 /\ Rank["CANCELLED"] = 6
  BY DEF Rank

\* A step forward of a row, and what it leaves the row with.
Forward(q, r) ==
  /\ Rank[r.state] >= Rank[q.state]
  /\ q.oid # NoId => r.oid = q.oid
  /\ r.state = "PARTIAL" => r.filled > 0
  /\ r.state # "ABSENT"

\* A row that says PARTIAL has fills, so that evidence without fills is older than it; and
\* what is not there has no order.
RowsKnown ==
  \A k \in Keys :
    /\ journal[k].state = "PARTIAL" => journal[k].filled > 0
    /\ journal[k].state = "ABSENT" => journal[k].oid = NoId

(* Evidence that is accepted tells more than the row does. *)
LEMMA EvidenceForward ==
  ASSUME TypeOK, RowsKnown, NEW k \in Keys, NEW e \in Evidence, ObserveOrder(k, e)
  PROVE  Put(k, Observed(journal[k], e)) /\ Forward(journal[k], Observed(journal[k], e))
<1> DEFINE q == journal[k]
           r == Observed(q, e)
<1>0. /\ q \in Row /\ q.state \in States /\ q.state # "ABSENT" /\ IdFits(k, e.oid) /\ Put(k, r)
      /\ e.oid \in OrderIds /\ e.filled \in Nat /\ q.filled \in Nat
  BY EvidenceAssumption DEF ObserveOrder, Present, TypeOK, Row
<1>1. q.oid # NoId => r.oid = q.oid
  <2>1. q.oid # NoId => e.oid = q.oid
    BY <1>0, NamesAssumption DEF IdFits, BoundId
  <2>2. r.oid = e.oid \/ r.oid = q.oid
    BY DEF Observed
  <2>3. QED
    BY <2>1, <2>2
<1>2. ASSUME Accepted(q, e) PROVE Forward(q, r)
  <2>1. /\ q.state \notin Terminal /\ q.state # "RESERVED" /\ ~(e.filled < q.filled)
        /\ r.state = Target(e) /\ r.filled = e.filled
    BY <1>2 DEF Accepted, Conflict, Older, Observed
  <2>2. CASE IsFinal(e)
    <3>1. r.state \in Terminal
      BY <2>1, <2>2, Targets
    <3>2. QED
      BY <1>0, <1>1, <2>1, <3>1, Ranks DEF Forward, States, Terminal, Unresolved
  <2>3. CASE ~IsFinal(e)
    <3>1. r.state = IF e.filled > 0 THEN "PARTIAL" ELSE "SUBMITTED"
      BY <2>1, <2>3 DEF Target
    <3>2. q.state = "PARTIAL" => q.filled > 0
      BY DEF RowsKnown
    <3>3. q.state \in {"SUBMITTING", "UNKNOWN", "SUBMITTED", "PARTIAL"}
      BY <1>0, <2>1 DEF States, Unresolved
    <3> HIDE DEF q, r
    <3>4. QED
      BY <1>0, <1>1, <2>1, <3>1, <3>2, <3>3, Ranks DEF Forward
  <2>4. QED
    BY <2>2, <2>3
<1>3. ASSUME ~Accepted(q, e) PROVE Forward(q, r)
  <2>1. r.state = q.state /\ r.filled = q.filled
    BY <1>3 DEF Observed
  <2>2. q.state = "PARTIAL" => q.filled > 0
    BY DEF RowsKnown
  <2> HIDE DEF q, r
  <2>3. Rank[q.state] \in Nat
    BY <1>0, Ranks DEF States, Terminal, Unresolved
  <2>4. QED
    BY <1>0, <1>1, <2>1, <2>2, <2>3 DEF Forward
<1>4. QED
  BY <1>0, <1>2, <1>3

(* A final word on an intent is as much as can be known. *)
LEMMA FinalForward ==
  ASSUME TypeOK, NEW k \in Keys, NEW st \in {"REJECTED", "CANCELLED"}, Transition(k, st, NoId)
  PROVE  \E r : Put(k, r) /\ Forward(journal[k], r)
<1> DEFINE q == journal[k]
           r == [q EXCEPT !.state = st, !.oid = BoundId(k, NoId)]
<1>1. q \in Row /\ q.state \in States /\ Put(k, r)
  BY DEF Transition, TypeOK, Row
<1>2. r.state = st /\ r.oid = q.oid
  BY <1>1 DEF Row, BoundId
<1> HIDE DEF q, r
<1>3. Forward(q, r)
  BY <1>1, <1>2, Ranks DEF Forward, States, Terminal, Unresolved
<1>4. QED
  BY <1>1, <1>3 DEF q

(* What a call writes to its row tells more than the row did. *)
LEMMA CallForward ==
  ASSUME TypeOK, RowsKnown, NEW s \in Calls, CallStep(s)
  PROVE  UNCHANGED journal \/ \E r : Put(KeyOf[s], r) /\ Forward(journal[KeyOf[s]], r)
<1> DEFINE k == KeyOf[s]
           q == journal[k]
<1>0. /\ k \in Keys /\ q \in Row /\ OrderIdOf[k] \in OrderIds
      /\ q.state = "PARTIAL" => q.filled > 0
      /\ q.state = "ABSENT" => q.oid = NoId
  BY ExecAssumption DEF TypeOK, RowsKnown
<1>1. CASE ReserveNew(s)
  <2>1. PICK qty \in Quantities, c \in Capitals : Put(k, NewRow("RESERVED", qty, c)) /\ q.state = "ABSENT"
    BY <1>1 DEF ReserveNew, Reserve, Present
  <2>2. Forward(q, NewRow("RESERVED", qty, c))
    BY <1>0, <2>1, Ranks DEF Forward, NewRow
  <2>3. QED
    BY <2>1, <2>2
<1>2. ASSUME NEW st, Put(k, [q EXCEPT !.state = st]),
             \/ q.state = "RESERVED" /\ st = "SUBMITTING"
             \/ q.state = "SUBMITTING" /\ st = "UNKNOWN"
      PROVE  \E r : Put(k, r) /\ Forward(q, r)
  <2> DEFINE r == [q EXCEPT !.state = st]
  <2>1. r.state = st /\ r.oid = q.oid
    BY <1>0 DEF Row
  <2>2. Put(k, r)
    BY <1>2
  <2> HIDE DEF r
  <2>3. Forward(q, r)
    BY <1>2, <2>1, Ranks DEF Forward
  <2>4. QED
    BY <2>2, <2>3
<1>3. CASE Claim(s)
  BY <1>2, <1>3 DEF Claim, ClaimWon, ClaimSubmission, Claimable
<1>4. CASE TimedOut(s)
  BY <1>2, <1>4 DEF TimedOut, Uncertain, SubmissionUncertain
<1>5. CASE Withdraw(s)
  BY <1>0, <1>5, FinalForward DEF Withdraw
<1>6. CASE Refused(s)
  BY <1>0, <1>6, FinalForward DEF Refused
<1>7. CASE Acknowledged(s)
  <2> DEFINE st == IF q.state \in {"SUBMITTING", "UNKNOWN"} THEN "SUBMITTED" ELSE q.state
             r == [q EXCEPT !.state = st, !.oid = OrderIdOf[k]]
  <2>1. /\ Put(k, r) /\ q.state # "ABSENT"
        /\ q.oid # NoId => q.oid = OrderIdOf[k]
    BY <1>7, NamesAssumption DEF Acknowledged, Acknowledge, Present, IdFits, BoundId
  <2>2. r.state = st /\ r.oid = OrderIdOf[k] /\ r.filled = q.filled /\ q.state \in States
    BY <1>0 DEF Row
  <2> HIDE DEF r, q
  <2>3. Forward(q, r)
    BY <1>0, <2>1, <2>2, Ranks DEF Forward, States, Terminal, Unresolved
  <2>4. QED
    BY <2>1, <2>3 DEF q
<1>8. CASE UNCHANGED journal
  BY <1>8
<1>9. QED
  BY <1>1, <1>3, <1>4, <1>5, <1>6, <1>7, <1>8
     DEF CallStep, Admit, ReserveExisting, ReserveReturns, ClaimLost, Identified, Pass, Send, Flag, Crash

(* Every step of the path leaves a row as it is or takes it forward. *)
LEMMA StepForward ==
  ASSUME Inv, RowsKnown, ExecNext
  PROVE  \A i \in Keys : journal'[i] = journal[i] \/ Forward(journal[i], journal'[i])
<1>0. TypeOK
  BY DEF Inv, ExecTypeOK
<1>1. ASSUME NEW k \in Keys, NEW r, Put(k, r), Forward(journal[k], r)
      PROVE  \A i \in Keys : journal'[i] = journal[i] \/ Forward(journal[i], journal'[i])
  BY <1>0, <1>1 DEF Put, TypeOK
<1>2. ASSUME NEW s \in Calls, CallStep(s)
      PROVE  \A i \in Keys : journal'[i] = journal[i] \/ Forward(journal[i], journal'[i])
  BY <1>0, <1>1, <1>2, CallForward, ExecAssumption
<1>3. ASSUME NEW k \in Keys, KeyStep(k)
      PROVE  \A i \in Keys : journal'[i] = journal[i] \/ Forward(journal[i], journal'[i])
  <2>1. ASSUME NEW e \in Evidence, ObserveOrder(k, e)
        PROVE  \A i \in Keys : journal'[i] = journal[i] \/ Forward(journal[i], journal'[i])
    BY <1>0, <1>1, <2>1, EvidenceForward
  <2>2. CASE Deliver(k)
    BY <2>1, <2>2 DEF Deliver, Inv, Books
  <2>3. CASE Poll(k)
    BY <2>1, <2>3 DEF Poll, Inv, Books
  <2>4. CASE Project(k)
    <3> DEFINE q == journal[k]
               r == [q EXCEPT !.pending = FALSE]
    <3>1. Put(k, r) /\ q.state # "ABSENT"
      BY <2>4 DEF Project, MarkProjected, Present
    <3>2. r.state = q.state /\ r.oid = q.oid /\ r.filled = q.filled /\ q.state \in States
      BY <1>0 DEF TypeOK, Row
    <3>3. q.state = "PARTIAL" => q.filled > 0
      BY DEF RowsKnown
    <3> HIDE DEF r, q
    <3>4. Forward(q, r)
      BY <3>1, <3>2, <3>3, Ranks DEF Forward, States, Terminal, Unresolved
    <3>5. QED
      BY <1>1, <3>1, <3>4 DEF q
  <2>5. CASE UNCHANGED journal
    BY <2>5
  <2>6. QED
    BY <1>3, <2>2, <2>3, <2>4, <2>5 DEF KeyStep, Accept, Refuse, Progress
<1>4. ASSUME NEW a \in Accounts, RecoveryStep(a)
      PROVE  \A i \in Keys : journal'[i] = journal[i] \/ Forward(journal[i], journal'[i])
  <2>1. CASE RecoveryExpire(a)
    <3>1. PICK k \in todo[a] : Transition(k, "CANCELLED", NoId)
      BY <2>1 DEF RecoveryExpire
    <3>2. k \in Keys
      BY DEF Inv, ExecTypeOK
    <3>3. QED
      BY <1>0, <1>1, <3>1, <3>2, FinalForward
  <2>2. CASE UNCHANGED journal
    BY <2>2
  <2>3. QED
    BY <1>4, <2>1, <2>2 DEF RecoveryStep, RecoveryStart, RecoveryAssess, RecoveryReread,
                            RecoveryClean, RecoveryStop
<1>5. ASSUME NEW x \in Switches, Engage(x) \/ Disengage(x)
      PROVE  UNCHANGED journal
  BY <1>5 DEF Engage, Disengage
<1>6. QED
  BY <1>2, <1>3, <1>4, <1>5 DEF ExecNext

(* What is known of an order is not unlearned by a late reply, a timeout, another call or
   recovery (submission_uncertain, acknowledge, observe_order), in one process or several. *)
THEOREM KnowledgeGrows == ExecSpec => NothingUnlearnedProperty
<1>1. ExecInit => RowsKnown
  BY DEF ExecInit, Init, NewRow, RowsKnown
<1>2. Inv /\ RowsKnown /\ [ExecNext]_vars => RowsKnown'
  <2> SUFFICES ASSUME Inv, RowsKnown, [ExecNext]_vars PROVE RowsKnown'
    OBVIOUS
  <2>1. CASE UNCHANGED journal
    BY <2>1 DEF RowsKnown
  <2>2. CASE ExecNext
    BY <2>2, StepForward DEF RowsKnown, Forward
  <2>3. QED
    BY <2>1, <2>2 DEF vars
<1>3. Inv /\ RowsKnown /\ [ExecNext]_vars => [NothingUnlearned]_journal
  <2> SUFFICES ASSUME Inv, RowsKnown, ExecNext PROVE NothingUnlearned
    BY DEF vars
  <2>1. ASSUME NEW k \in Keys
        PROVE  /\ Rank[journal'[k].state] >= Rank[journal[k].state]
               /\ journal[k].oid # NoId => journal'[k].oid = journal[k].oid
    <3>1. CASE journal'[k] = journal[k]
      <4>1. journal[k].state \in States
        BY DEF Inv, ExecTypeOK, TypeOK, Row
      <4>2. Rank[journal[k].state] \in Nat
        BY <4>1, Ranks DEF States, Terminal, Unresolved
      <4>3. QED
        BY <3>1, <4>2
    <3>2. CASE Forward(journal[k], journal'[k])
      BY <3>2 DEF Forward
    <3>3. QED
      BY <3>1, <3>2, StepForward
  <2>2. QED
    BY <2>1 DEF NothingUnlearned
<1>4. QED
  BY <1>1, <1>2, <1>3, InvHolds, PTL DEF ExecSpec, NothingUnlearnedProperty

-----------------------------------------------------------------------------
(* The operator's switches. *)

\* What a call that has passed some of the gates knows of the switches that stood.
Standing ==
  \A s \in Calls :
    /\ standing[s] \subseteq switches
    /\ pc[s] \in {"journal", "control", "kill_switch"} => "safe_mode" \notin standing[s]
    /\ pc[s] = "kill_switch" => "operator" \notin standing[s]
    /\ pc[s] = "send" /\ KeyOf[s] \in Increasing => standing[s] = {}

(* Passing a gate, or any other step of a call, keeps what is known. *)
LEMMA CallKeepsStanding ==
  ASSUME ExecTypeOK, Standing, NEW s \in Calls, CallStep(s)
  PROVE  Standing'
<1>0. /\ pc \in [Calls -> CallStates]
      /\ standing \in [Calls -> SUBSET Switches] /\ UNCHANGED switches
  BY DEF ExecTypeOK, CallStep, Admit, ReserveNew, ReserveExisting, ReserveReturns, Claim, ClaimLost,
         Identified, Pass, Withdraw, Send, Acknowledged, Refused, TimedOut, Flag, Crash, controlVars
<1>1. CASE Pass(s)
  <2>1. /\ UNCHANGED standing /\ pc' = [pc EXCEPT ![s] = After[pc[s]]] /\ pc[s] \in Gates
        /\ pc[s] \notin switches /\ (pc[s] = "control" => "operator" \notin switches)
    BY <1>1 DEF Pass, Goto, Clear
  <2>2. standing[s] \subseteq switches /\ standing[s] \subseteq {"safe_mode", "operator", "kill_switch"}
    BY <1>0, ExecAssumption DEF Standing
  <2>3. CASE pc[s] = "safe_mode"
    BY <1>0, <2>1, <2>2, <2>3 DEF Standing, After
  <2>4. CASE pc[s] = "journal"
    BY <1>0, <2>1, <2>2, <2>4 DEF Standing, After
  <2>5. CASE pc[s] = "control"
    BY <1>0, <2>1, <2>2, <2>5 DEF Standing, After
  <2>6. CASE pc[s] = "kill_switch"
    <3>1. standing[s] = {}
      BY <2>1, <2>2, <2>6 DEF Standing
    <3>2. QED
      BY <1>0, <2>1, <2>6, <3>1 DEF Standing, After
  <2>7. QED
    BY <2>1, <2>3, <2>4, <2>5, <2>6 DEF Gates
<1>2. CASE Identified(s)
  BY <1>0, <1>2 DEF Identified, Goto, Standing
<1>3. CASE Claim(s)
  BY <1>0, <1>3 DEF Claim, Standing
<1>4. CASE \E l \in {"reserve", "claim", "reply", "flag"} : Goto(s, l)
  BY <1>0, <1>4 DEF Goto, Standing
<1>5. CASE Return(s)
  BY <1>0, <1>5 DEF Return, Standing
<1>6. QED
  BY <1>1, <1>2, <1>3, <1>4, <1>5
     DEF CallStep, Admit, ReserveNew, ReserveExisting, ReserveReturns, ClaimLost, Withdraw, Send,
         Acknowledged, Refused, TimedOut, Flag, Crash

(* No increase is sent under a switch that has stood since its claim. *)
THEOREM StopsHold == ExecSpec => []StopsAreRespected
<1>1. ExecInit => Standing
  BY DEF ExecInit, Standing
<1>2. Inv /\ Standing /\ [ExecNext]_vars => Standing'
  <2> SUFFICES ASSUME Inv, Standing, [ExecNext]_vars PROVE Standing'
    OBVIOUS
  <2>1. CASE UNCHANGED <<pc, standing, switches>>
    BY <2>1 DEF Standing
  <2>2. ASSUME NEW s \in Calls, CallStep(s)
        PROVE  Standing'
    BY <2>2, CallKeepsStanding DEF Inv
  <2>3. ASSUME NEW x \in Switches, Engage(x)
        PROVE  Standing'
    BY <2>3 DEF Engage, Standing, callVars
  <2>4. ASSUME NEW x \in Switches, Disengage(x)
        PROVE  Standing'
    BY <2>4 DEF Disengage, Standing, Inv, ExecTypeOK
  <2>5. QED
    BY <2>1, <2>2, <2>3, <2>4
       DEF ExecNext, vars, callVars, controlVars, KeyStep, RecoveryStep, Accept, Refuse, Progress,
           Deliver, Poll, Project, RecoveryStart, RecoveryExpire, RecoveryAssess, RecoveryReread,
           RecoveryClean, RecoveryStop
<1>3. Standing => StopsAreRespected
  BY DEF Standing, StopsAreRespected
<1>4. QED
  BY <1>1, <1>2, <1>3, InvHolds, PTL DEF ExecSpec

-----------------------------------------------------------------------------
(* The word CLEAN. *)

\* A submission that is over, or of unknown outcome: it will not be sent, and not become
\* unknown, again.
Past(k) == ~Untouched(k) /\ journal[k].state # "SUBMITTING"

LEMMA PastStays ==
  ASSUME Inv, ExecNext, NEW k \in Keys, Past(k)
  PROVE  Past(k)' /\ (journal'[k].state = "UNKNOWN" => journal[k].state = "UNKNOWN")
<1>1. Past(k)'
  <2>1. [NeverReclaimed]_journal
    BY JournalStep, StepsRespectHistory DEF Inv, ExecTypeOK
  <2>2. CASE NeverReclaimed
    BY <2>2 DEF NeverReclaimed, Past, Untouched
  <2>3. CASE UNCHANGED journal
    BY <2>3 DEF Past, Untouched
  <2>4. QED
    BY <2>1, <2>2, <2>3
<1>2. CASE \E s \in Calls : Claim(s)
  <2>1. PICK s \in Calls : Claim(s)
    BY <1>2
  <2>2. journal[KeyOf[s]].state = "RESERVED" /\ KeyOf[s] \in Keys
        /\ \A i \in Keys : i # KeyOf[s] => journal'[i] = journal[i]
    BY <2>1, ExecAssumption
       DEF Claim, ClaimWon, ClaimSubmission, Claimable, Put, Inv, ExecTypeOK, TypeOK
  <2>3. k # KeyOf[s]
    BY <2>2 DEF Past, Untouched
  <2>4. QED
    BY <1>1, <2>2, <2>3
<1>3. CASE \A s \in Calls : ~Claim(s)
  BY <1>1, <1>3, StaysClosed DEF Open, Past
<1>4. QED
  BY <1>2, <1>3

\* A call that got no answer has left its submission behind, and so has every intent
\* whose doubt reached the control row; a recovery that may write CLEAN has seen them
\* all resolved.
CleanInv ==
  /\ \A s \in Calls : pc[s] = "flag" => Past(KeyOf[s])
  /\ \A k \in flagged : Past(k)
  /\ CleanIsEarned
  /\ \A a \in Accounts : rec[a] = "clean" /\ fresh[a] =>
       \A k \in flagged : AccountOf[k] = a => journal[k].state # "UNKNOWN"

(* Only a call that times out goes on to write the control row. *)
LEMMA FlagAfterTimeout ==
  ASSUME Inv, ExecNext, NEW s \in Calls, pc'[s] = "flag"
  PROVE  pc[s] = "flag" \/ TimedOut(s)
<1>0. pc \in [Calls -> CallStates]
  BY DEF Inv, ExecTypeOK
<1>1. CASE pc' = pc
  BY <1>1
<1>2. CASE pc' # pc
  <2>1. PICK t \in Calls : CallStep(t)
    BY <1>2 DEF ExecNext, KeyStep, RecoveryStep, Engage, Disengage, Accept, Refuse, Progress,
                Deliver, Poll, Project, RecoveryStart, RecoveryExpire, RecoveryAssess,
                RecoveryReread, RecoveryClean, RecoveryStop, callVars
  <2>2. CASE Pass(t)
    BY <1>0, <2>2 DEF Pass, Goto, Gates, After
  <2>3. CASE ~Pass(t)
    BY <1>0, <2>1, <2>3 DEF CallStep, Admit, ReserveNew, ReserveExisting, ReserveReturns, Claim,
       ClaimLost, Identified, Withdraw, Send, Acknowledged, Refused, TimedOut, Flag, Crash,
       Return, Goto
  <2>4. QED
    BY <2>2, <2>3
<1>3. QED
  BY <1>1, <1>2

LEMMA CleanPreserved ==
  ASSUME Inv, Inv', CleanInv, ExecNext
  PROVE  CleanInv'
<1>0. /\ flagged \subseteq Keys /\ recovery \in [Accounts -> {"CLEAN", "RECOVERY_REQUIRED"}]
      /\ fresh \in [Accounts -> BOOLEAN]
      /\ rec \in [Accounts -> {"idle", "expire", "observe", "clean"}]
      /\ \A k \in Keys : AccountOf[k] \in Accounts
      /\ \A s \in Calls : KeyOf[s] \in Keys
  BY NamesAssumption, ExecAssumption DEF Inv, ExecTypeOK
<1>1. \A s \in Calls : pc'[s] = "flag" => Past(KeyOf[s])'
  <2> SUFFICES ASSUME NEW s \in Calls, pc'[s] = "flag" PROVE Past(KeyOf[s])'
    OBVIOUS
  <2>1. CASE pc[s] = "flag"
    BY <1>0, <2>1, PastStays DEF CleanInv
  <2>2. CASE TimedOut(s)
    <3>1. Holds(s) /\ KeyOf[s] \in Keys
      BY <1>0, <2>2 DEF TimedOut, At, Holds
    <3>2. ~Untouched(KeyOf[s])
      BY <3>1 DEF Inv, Claims
    <3>3. ~Untouched(KeyOf[s])'
      BY <3>1, <3>2, JournalStep, RowFacts DEF Inv, ExecTypeOK
    <3>4. journal'[KeyOf[s]].state # "SUBMITTING"
      <4>1. journal \in [Keys -> Row]
        BY DEF Inv, ExecTypeOK, TypeOK
      <4>2. CASE SubmissionUncertain(KeyOf[s])
        BY <3>1, <4>1, <4>2 DEF SubmissionUncertain, Put, Row
      <4>3. CASE journal[KeyOf[s]].state # "SUBMITTING" /\ UNCHANGED journal
        BY <4>3
      <4>4. QED
        BY <2>2, <4>2, <4>3 DEF TimedOut, Uncertain
    <3>5. QED
      BY <3>3, <3>4 DEF Past
  <2>3. QED
    BY <2>1, <2>2, FlagAfterTimeout
<1>2. \A k \in flagged : Past(k)' /\ (journal'[k].state = "UNKNOWN" => journal[k].state = "UNKNOWN")
  BY <1>0, PastStays DEF CleanInv
<1>3. ASSUME NEW s \in Calls, Flag(s) PROVE CleanInv'
  <2>1. pc[s] = "flag" /\ UNCHANGED <<journal, rec>>
    BY <1>3 DEF Flag, At
  <2>2. CASE UNCHANGED <<recovery, fresh, flagged>>
    BY <1>1, <1>2, <2>1, <2>2 DEF CleanInv, CleanIsEarned
  <2>3. CASE /\ SetRecovery(Account(s), "RECOVERY_REQUIRED")
             /\ fresh' = [fresh EXCEPT ![Account(s)] = FALSE]
             /\ flagged' = flagged \cup {KeyOf[s]}
    <3>1. /\ Account(s) = AccountOf[KeyOf[s]] /\ Account(s) \in Accounts
          /\ recovery'[Account(s)] = "RECOVERY_REQUIRED" /\ ~fresh'[Account(s)]
          /\ \A a \in Accounts : a # Account(s) => recovery'[a] = recovery[a] /\ fresh'[a] = fresh[a]
      BY <1>0, <2>3 DEF Account, SetRecovery
    <3>2. \A k \in flagged' : Past(k)'
      BY <1>1, <1>2, <2>1, <2>3 DEF Past, Untouched, CleanInv
    <3>3. CleanIsEarned'
      BY <1>0, <1>2, <2>3, <3>1 DEF CleanInv, CleanIsEarned
    <3>4. \A a \in Accounts : rec'[a] = "clean" /\ fresh'[a] =>
            \A k \in flagged' : AccountOf[k] = a => journal'[k].state # "UNKNOWN"
      BY <1>0, <1>2, <2>1, <2>3, <3>1 DEF CleanInv
    <3>5. QED
      BY <1>1, <3>2, <3>3, <3>4 DEF CleanInv
  <2>4. QED
    BY <1>3, <2>2, <2>3 DEF Flag
<1>4. ASSUME NEW a \in Accounts, RecoveryStep(a) PROVE CleanInv'
  <2>1. UNCHANGED flagged
    BY <1>4 DEF RecoveryStep, RecoveryStart, RecoveryExpire, RecoveryAssess, RecoveryReread,
                RecoveryClean, RecoveryStop, controlVars
  <2>2. CASE RecoveryStart(a)
    BY <1>0, <1>1, <1>2, <2>1, <2>2 DEF RecoveryStart, CleanInv, CleanIsEarned, controlVars
  <2>3. CASE RecoveryExpire(a)
    BY <1>0, <1>1, <1>2, <2>1, <2>3 DEF RecoveryExpire, CleanInv, CleanIsEarned, controlVars
  <2>4. CASE RecoveryAssess(a)
    <3>1. /\ rec' = [rec EXCEPT ![a] = "observe"]
          /\ \A b \in Accounts : /\ recovery'[b] \in {recovery[b], "RECOVERY_REQUIRED"}
                                 /\ b # a => fresh'[b] = fresh[b]
      BY <1>0, <2>4 DEF RecoveryAssess, SetRecovery
    <3>2. QED
      BY <1>0, <1>1, <1>2, <2>1, <3>1 DEF CleanInv, CleanIsEarned
  <2>5. CASE RecoveryReread(a)
    <3>1. \A k \in flagged : AccountOf[k] = a => journal[k].state # "UNKNOWN"
      BY <1>0, <2>5 DEF RecoveryReread, Doubtful, UnresolvedOf, IsUnresolved, Unresolved
    <3>2. QED
      BY <1>0, <1>1, <1>2, <2>1, <2>5, <3>1 DEF RecoveryReread, CleanInv, CleanIsEarned, controlVars
  <2>6. CASE RecoveryClean(a)
    <3>1. \A k \in flagged : AccountOf[k] = a => journal[k].state # "UNKNOWN"
      BY <2>6 DEF RecoveryClean, Unchallenged, CleanInv
    <3>2. QED
      BY <1>0, <1>1, <1>2, <2>1, <2>6, <3>1 DEF RecoveryClean, SetRecovery, CleanInv, CleanIsEarned
  <2>7. CASE RecoveryStop(a)
    BY <1>0, <1>1, <1>2, <2>1, <2>7 DEF RecoveryStop, CleanInv, CleanIsEarned, controlVars
  <2>8. QED
    BY <1>4, <2>2, <2>3, <2>4, <2>5, <2>6, <2>7 DEF RecoveryStep
<1>5. CASE UNCHANGED <<recovery, flagged, rec>> /\ \A a \in Accounts : fresh'[a] => fresh[a]
  BY <1>0, <1>1, <1>2, <1>5 DEF CleanInv, CleanIsEarned
<1>6. ASSUME NEW s \in Calls, CallStep(s), ~Flag(s)
      PROVE  UNCHANGED <<recovery, flagged, rec, fresh>>
  BY <1>6 DEF CallStep, Admit, ReserveNew, ReserveExisting, ReserveReturns, Claim, ClaimLost,
     Identified, Pass, Withdraw, Send, Acknowledged, Refused, TimedOut, Crash, controlVars, recVars
<1>7. ASSUME NEW k \in Keys, KeyStep(k)
      PROVE  UNCHANGED <<recovery, flagged, rec, fresh>>
  BY <1>7 DEF KeyStep, Accept, Refuse, Progress, Deliver, Poll, Project, controlVars, recVars
<1>8. ASSUME NEW x \in Switches, Engage(x) \/ Disengage(x)
      PROVE  UNCHANGED <<recovery, flagged, rec>> /\ \A a \in Accounts : fresh'[a] => fresh[a]
  BY <1>0, <1>8 DEF Engage, Disengage, Touch
<1>9. QED
  BY <1>3, <1>4, <1>5, <1>6, <1>7, <1>8 DEF ExecNext

(* The control row says CLEAN of no doubt that was written to it and still stands. *)
THEOREM CleanEarned == ExecSpec => []CleanIsEarned
<1>1. ExecInit => CleanInv
  <2> SUFFICES ASSUME ExecInit PROVE CleanInv
    OBVIOUS
  <2>1. flagged = {} /\ \A s \in Calls : pc[s] = "idle"
    BY DEF ExecInit
  <2>2. \A a \in Accounts : rec[a] = "idle"
    BY DEF ExecInit
  <2>3. QED
    BY <2>1, <2>2 DEF CleanInv, CleanIsEarned
<1>2. Inv /\ Inv' /\ CleanInv /\ [ExecNext]_vars => CleanInv'
  <2>1. CASE UNCHANGED vars
    BY <2>1 DEF vars, callVars, controlVars, recVars, CleanInv, CleanIsEarned, Past, Untouched
  <2>2. QED
    BY <2>1, CleanPreserved
<1>3. CleanInv => CleanIsEarned
  BY DEF CleanInv
<1>4. QED
  BY <1>1, <1>2, <1>3, InvHolds, PTL DEF ExecSpec

-----------------------------------------------------------------------------
(***************************************************************************)
(* The execution path keeps the promise of SingleEffect, when recovery and *)
(* the calls share one event loop.  The argument: the owner of a claim is  *)
(* the only one to give a verdict before there is an order, and after that *)
(* every verdict carries an order id that only the broker can have given.  *)
(***************************************************************************)

\* What a row says of the request that was, or was not, sent for it.
RowTrue(k, r) ==
  /\ r.oid # NoId => r.oid = OrderIdOf[k] /\ wire[k] = "accepted"
  /\ wire[k] = "transit" => r.state \in {"SUBMITTING", "UNKNOWN"}
  /\ r.state \in {"SUBMITTED", "PARTIAL", "FILLED"} => r.oid # NoId
  /\ r.state \in {"REJECTED", "CANCELLED"} /\ r.oid = NoId => wire[k] # "accepted"

Truth ==
  /\ \A k \in Keys : RowTrue(k, journal[k])
  /\ \A s \in Calls : Prepares(s) => journal[KeyOf[s]].state = "SUBMITTING"
  /\ \A a \in Accounts : \A k \in todo[a] :
       rec[a] = "expire" /\ AccountOf[k] = a /\ journal[k].state = "RESERVED"

\* The verdict on every key, as SingleEffect sees it.
Concluded == [k \in Keys |-> Verdict(journal[k])]

Promised == Single!Next \/ UNCHANGED <<Concluded, orders>>

(* Writing one row changes one verdict. *)
LEMMA PutVerdict ==
  ASSUME TypeOK, NEW k \in Keys, NEW r, Put(k, r)
  PROVE  /\ Concluded' = [Concluded EXCEPT ![k] = Verdict(r)]
         /\ Verdict(r) = Verdict(journal[k]) => UNCHANGED Concluded
         /\ journal'[k] = r
         /\ \A j \in Keys : j # k => journal'[j] = journal[j]
<1>1. /\ journal'[k] = r
      /\ \A j \in Keys : j # k => journal'[j] = journal[j]
  BY DEF TypeOK, Put
<1>2. \A j \in Keys : Verdict(journal'[j]) = IF j = k THEN Verdict(r) ELSE Verdict(journal[j])
  BY <1>1
<1>3. ASSUME Verdict(r) = Verdict(journal[k])
      PROVE  UNCHANGED Concluded
  <2>1. \A j \in Keys : Verdict(journal'[j]) = Verdict(journal[j])
    BY <1>2, <1>3
  <2>2. QED
    BY <2>1, Zenon DEF Concluded
<1>4. Concluded' = [Concluded EXCEPT ![k] = Verdict(r)]
  BY <1>2 DEF Concluded
<1>5. QED
  BY <1>1, <1>3, <1>4

(* A row written without a word from the broker: the calls and recovery do what
   Truth asks, if the row is true and no other call is preparing its order. *)
LEMMA TrueWrite ==
  ASSUME Inv, Truth, NEW k \in Keys, NEW r, Put(k, r), RowTrue(k, r), UNCHANGED wire,
         UNCHANGED <<todo, rec>>, \A a \in Accounts : k \notin todo[a],
         \A s \in Calls : /\ Prepares(s)' => Prepares(s) \/ r.state = "SUBMITTING"
                          /\ Prepares(s)' /\ KeyOf[s] = k => r.state = "SUBMITTING"
                          /\ Prepares(s)' /\ KeyOf[s] # k => Prepares(s)
  PROVE  Truth'
<1>1. journal'[k] = r /\ \A j \in Keys : j # k => journal'[j] = journal[j]
  BY PutVerdict DEF Inv, ExecTypeOK
<1>2. \A j \in Keys : RowTrue(j, journal[j])'
  BY <1>1 DEF Truth, RowTrue
<1>3. \A s \in Calls : Prepares(s)' => journal'[KeyOf[s]].state = "SUBMITTING"
  BY <1>1, ExecAssumption DEF Truth
<1>4. \A a \in Accounts : todo[a] \subseteq Keys
  BY DEF Inv, ExecTypeOK
<1>5. QED
  BY <1>1, <1>2, <1>3, <1>4 DEF Truth

(* A step that writes no row, sends nothing and leaves recovery's list alone. *)
LEMMA TrueStutter ==
  ASSUME Truth, UNCHANGED <<journal, wire, orders, todo>>,
         \A a \in Accounts : rec'[a] = rec[a] \/ todo[a] = {},
         \A s \in Calls : Prepares(s)' => Prepares(s)
  PROVE  Truth' /\ Promised
<1>1. UNCHANGED Concluded
  BY DEF Concluded
<1>2. QED
  BY <1>1 DEF Truth, RowTrue, Promised

(* What a call that is preparing, or waiting for the reply to, its order can count
   on. *)
LEMMA OwnersTruth ==
  ASSUME Inv, Truth, NEW s \in Calls
  PROVE  /\ KeyOf[s] \in Keys
         /\ Prepares(s) => /\ journal[KeyOf[s]].state = "SUBMITTING"
                           /\ journal[KeyOf[s]].oid = NoId
                           /\ wire[KeyOf[s]] = "none" /\ orders[KeyOf[s]] = 0
         /\ Holds(s) => \A t \in Calls : t # s /\ KeyOf[t] = KeyOf[s] => ~Prepares(t)
         /\ Holds(s) => \A a \in Accounts : KeyOf[s] \notin todo[a]
<1>1. KeyOf[s] \in Keys
  BY ExecAssumption
<1>2. Holds(s) => \A t \in Calls : t # s /\ KeyOf[t] = KeyOf[s] => ~Prepares(t)
  BY DEF Inv, Claims, Holds, Prepares
<1>3. Holds(s) => journal[KeyOf[s]].state # "RESERVED"
  BY DEF Inv, Claims, Untouched
<1>4. QED
  BY <1>1, <1>2, <1>3 DEF Inv, Claims, Books, Truth, RowTrue

(* Verdicts of the calls. *)
LEMMA CallKeepsPromise ==
  ASSUME OneProcess, Inv, Truth, NEW s \in Calls, CallStep(s)
  PROVE  Truth' /\ Promised
<1> DEFINE c == KeyOf[s]
<1>0. /\ c \in Keys /\ AccountOf[c] \in Accounts
      /\ TypeOK /\ pc \in [Calls -> CallStates] /\ orders \in [Keys -> Nat]
      /\ journal[c] \in Row
  BY OwnersTruth, NamesAssumption DEF Inv, ExecTypeOK, TypeOK
<1>1. CASE ReserveNew(s)
  <2>1. PICK q \in Quantities, m \in Capitals, f \in Funds : Reserve(c, q, m, f)
    BY <1>1 DEF ReserveNew
  <2> DEFINE r == NewRow("RESERVED", q, m)
  <2>2. Put(c, r) /\ journal[c].state = "ABSENT" /\ wire[c] = "none"
    BY <1>0, <2>1 DEF Reserve, Present, Inv, Claims, Untouched
  <2>3. RowTrue(c, r) /\ Verdict(r) = "unsent" /\ Verdict(journal[c]) = "unsent"
    BY <2>2 DEF NewRow, RowTrue, Verdict
  <2>4. /\ \A t \in Calls : (Prepares(t)' => Prepares(t)) /\ (Prepares(t) => KeyOf[t] # c)
        /\ \A a \in Accounts : c \notin todo[a]
        /\ UNCHANGED <<wire, orders, todo, rec>>
    BY <1>0, <1>1, <2>2 DEF ReserveNew, Goto, Prepares, Truth, brokerVars, recVars, Gates
  <2> HIDE DEF r
  <2>5. Truth'
    BY <1>0, <2>2, <2>3, <2>4, TrueWrite
  <2>6. UNCHANGED Concluded
    BY <1>0, <2>2, <2>3, PutVerdict
  <2>7. QED
    BY <2>4, <2>5, <2>6 DEF Promised
<1>2. CASE Claim(s)
  <2> DEFINE r == [journal[c] EXCEPT !.state = "SUBMITTING"]
  <2>1. /\ Put(c, r) /\ journal[c].state = "RESERVED" /\ wire[c] = "none"
        /\ UNCHANGED <<wire, orders, todo, rec>> /\ pc' = [pc EXCEPT ![s] = "identity"]
        /\ Free(AccountOf[c])
    BY <1>0, <1>2 DEF Claim, ClaimWon, ClaimSubmission, Claimable, At, Account, Inv, Claims,
                      Untouched, brokerVars, recVars
  <2>2. /\ r.state = "SUBMITTING" /\ r.oid = journal[c].oid
        /\ journal[c].oid = NoId
    BY <1>0, <2>1 DEF Row, Truth, RowTrue
  <2>3. RowTrue(c, r) /\ Verdict(r) = "inflight" /\ Verdict(journal[c]) = "unsent"
    BY <2>1, <2>2 DEF RowTrue, Verdict
  <2>4. /\ \A t \in Calls : Prepares(t)' /\ KeyOf[t] # c => Prepares(t)
        /\ \A a \in Accounts : c \notin todo[a]
    BY <1>0, <2>1 DEF Prepares, Free, Truth
  <2>5. Truth'
    <3> HIDE DEF r
    <3> QED BY <1>0, <2>1, <2>2, <2>3, <2>4, TrueWrite
  <2>6. Single!Start(c)
    <3> HIDE DEF r
    <3> QED BY <1>0, <2>1, <2>3, PutVerdict DEF Single!Start, Concluded
  <2>7. QED
    BY <1>0, <2>5, <2>6 DEF Promised, Single!Next
<1>3. CASE Withdraw(s) \/ Refused(s)
  <2>1. PICK r \in {[journal[c] EXCEPT !.state = "REJECTED", !.oid = journal[c].oid]} :
          /\ Put(c, r) /\ MayBecome(c, "REJECTED")
          /\ Holds(s) /\ ~Prepares(s)' /\ \A t \in Calls : Prepares(t)' => Prepares(t)
          /\ UNCHANGED <<wire, orders, todo, rec>>
          /\ wire[c] = "refused" \/ Prepares(s)
    BY <1>0, <1>3 DEF Withdraw, Refused, Transition, BoundId, Return, At, Holds, Prepares, Gates,
                      brokerVars, recVars
  <2>2. /\ journal[c].oid = NoId /\ orders[c] = 0 /\ wire[c] \in {"refused", "none"}
    BY <1>0, <2>1, OwnersTruth DEF Truth, RowTrue, Inv, Books
  <2>3. r.state = "REJECTED" /\ r.oid = NoId
    BY <1>0, <2>1, <2>2 DEF Row
  <2>4. RowTrue(c, r) /\ Verdict(r) = "none"
    BY <2>2, <2>3 DEF RowTrue, Verdict
  <2>5. Verdict(journal[c]) \in {"inflight", "none"}
    <3>1. journal[c].state \notin {"ABSENT", "RESERVED", "SUBMITTED", "PARTIAL", "FILLED"}
      BY <1>0, <2>1, <2>2 DEF Inv, Claims, Untouched, Truth, RowTrue
    <3>2. QED
      BY <2>2, <3>1 DEF Verdict
  <2>6. Truth'
    BY <1>0, <2>1, <2>4, OwnersTruth, TrueWrite
  <2>7. Single!Dismiss(c) \/ UNCHANGED <<Concluded, orders>>
    BY <1>0, <2>1, <2>2, <2>4, <2>5, PutVerdict DEF Single!Dismiss, Concluded
  <2>8. QED
    BY <1>0, <2>6, <2>7 DEF Promised, Single!Next
<1>4. CASE Acknowledged(s)
  <2> DEFINE st == IF journal[c].state \in {"SUBMITTING", "UNKNOWN"} THEN "SUBMITTED"
                   ELSE journal[c].state
             r  == [journal[c] EXCEPT !.state = st, !.oid = OrderIdOf[c]]
  <2>1. /\ Put(c, r) /\ Holds(s) /\ wire[c] = "accepted"
        /\ \A t \in Calls : Prepares(t)' => Prepares(t) /\ t # s
        /\ UNCHANGED <<wire, orders, todo, rec>>
    BY <1>0, <1>4 DEF Acknowledged, Acknowledge, Return, At, Holds, Prepares, Gates, brokerVars, recVars
  <2>2. r.state = st /\ r.oid = OrderIdOf[c] /\ OrderIdOf[c] # NoId
    <3> HIDE DEF st
    <3> QED BY <1>0, ExecAssumption, NamesAssumption DEF Row
  <2>3. /\ orders[c] = 1 /\ journal[c].state \notin {"ABSENT", "RESERVED"}
    BY <1>0, <2>1 DEF Inv, Books, Claims, Untouched
  <2>4. RowTrue(c, r) /\ Verdict(r) = "order"
    <3> HIDE DEF r
    <3> QED BY <2>1, <2>2, <2>3 DEF RowTrue, Verdict
  <2>5. Verdict(journal[c]) \in {"inflight", "order"}
    <3>1. journal[c].state \in {"REJECTED", "CANCELLED", "SUBMITTED", "PARTIAL", "FILLED"}
            => journal[c].oid # NoId
      BY <1>0, <2>1 DEF Truth, RowTrue
    <3>2. journal[c].state \in {"REJECTED", "CANCELLED", "SUBMITTED", "PARTIAL", "FILLED",
                                "SUBMITTING", "UNKNOWN"}
      BY <1>0, <2>3 DEF Row, States, Terminal, Unresolved
    <3>3. QED
      BY <3>1, <3>2 DEF Verdict
  <2> HIDE DEF r
  <2>6. Truth'
    BY <1>0, <2>1, <2>4, OwnersTruth, TrueWrite
  <2>7. Single!Confirm(c) \/ UNCHANGED <<Concluded, orders>>
    BY <1>0, <2>1, <2>3, <2>4, <2>5, PutVerdict DEF Single!Confirm, Concluded
  <2>8. QED
    BY <1>0, <2>6, <2>7 DEF Promised, Single!Next
<1>5. CASE TimedOut(s)
  <2>1. /\ Holds(s) /\ \A t \in Calls : Prepares(t)' => Prepares(t) /\ t # s
        /\ UNCHANGED <<wire, orders, todo, rec>>
    BY <1>0, <1>5 DEF TimedOut, Goto, At, Holds, Prepares, Gates, brokerVars, recVars
  <2>2. CASE UNCHANGED journal
    BY <2>1, <2>2, TrueStutter
  <2>3. CASE SubmissionUncertain(c)
    <3> DEFINE r == [journal[c] EXCEPT !.state = "UNKNOWN"]
    <3>1. Put(c, r) /\ journal[c].state = "SUBMITTING"
      BY <2>3 DEF SubmissionUncertain
    <3>2. r.state = "UNKNOWN" /\ r.oid = journal[c].oid
      BY <1>0 DEF Row
    <3>3. RowTrue(c, r) /\ Verdict(r) = Verdict(journal[c])
      <4> HIDE DEF r
      <4> QED BY <1>0, <3>1, <3>2 DEF Truth, RowTrue, Verdict
    <3> HIDE DEF r
    <3>4. Truth'
      BY <1>0, <2>1, <3>1, <3>3, OwnersTruth, TrueWrite
    <3>5. UNCHANGED Concluded
      BY <1>0, <3>1, <3>3, PutVerdict
    <3>6. QED
      BY <2>1, <3>4, <3>5 DEF Promised
  <2>4. QED
    BY <1>5, <2>2, <2>3 DEF TimedOut, Uncertain
<1>6. CASE Send(s)
  <2>1. /\ Prepares(s) /\ wire' = [wire EXCEPT ![c] = "transit"]
        /\ UNCHANGED <<journal, orders, todo, rec>>
        /\ \A t \in Calls : Prepares(t)' => Prepares(t)
    BY <1>0, <1>6 DEF Send, Goto, At, Prepares, Gates, recVars
  <2>2. journal[c].state = "SUBMITTING" /\ journal[c].oid = NoId
    BY <2>1, OwnersTruth
  <2>3. Truth'
    <3>1. \A k \in Keys : k # c => wire'[k] = wire[k]
      BY <2>1
    <3>2. \A k \in Keys : RowTrue(k, journal[k])'
      BY <2>1, <2>2, <3>1 DEF Truth, RowTrue
    <3>3. QED
      BY <2>1, <3>2 DEF Truth
  <2>4. UNCHANGED Concluded
    BY <2>1 DEF Concluded
  <2>5. QED
    BY <2>1, <2>3, <2>4 DEF Promised
<1>7. CASE /\ UNCHANGED journal /\ ~Send(s) /\ ~Claim(s)
  <2>1. UNCHANGED brokerVars /\ \A t \in Calls : Prepares(t)' => Prepares(t)
    BY <1>7, CallMoves DEF Inv
  <2>2. UNCHANGED <<rec, todo>>
    BY <1>7 DEF CallStep, Admit, ReserveNew, ReserveExisting, ReserveReturns, ClaimLost, Identified,
                Pass, Withdraw, Acknowledged, Refused, TimedOut, Flag, Crash, recVars
  <2>3. QED
    BY <1>7, <2>1, <2>2, TrueStutter DEF brokerVars
<1>8. QED
  BY <1>1, <1>2, <1>3, <1>4, <1>5, <1>6, <1>7
     DEF CallStep, Admit, ReserveExisting, ReserveReturns, ClaimLost, Identified, Pass, Flag, Crash

(* Verdicts the broker's evidence gives: it is evidence of an order that exists. *)
LEMMA EvidenceKeepsPromise ==
  ASSUME Inv, Truth, NEW k \in Keys, NEW e \in feed, e.oid = OrderIdOf[k], ObserveOrder(k, e),
         UNCHANGED <<pc, wire, orders, todo, rec>>
  PROVE  Truth' /\ Promised
<1> DEFINE r == Observed(journal[k], e)
<1>0. /\ TypeOK /\ journal[k] \in Row /\ orders \in [Keys -> Nat] /\ e \in Evidence
      /\ OrderIdOf[k] # NoId
  BY ExecAssumption, NamesAssumption DEF Inv, ExecTypeOK, TypeOK, Books
<1>1. /\ wire[k] = "accepted" /\ orders[k] = 1
      /\ journal[k].state \notin {"ABSENT", "RESERVED"}
  BY DEF Inv, Books, Claims, Untouched
<1>2. /\ Put(k, r)
      /\ \A s \in Calls : (Prepares(s)' => Prepares(s)) /\ (Prepares(s) => KeyOf[s] # k)
      /\ \A a \in Accounts : k \notin todo[a]
  BY <1>1 DEF ObserveOrder, Prepares, Truth, Inv, Claims
<1>3. \/ r.state = journal[k].state /\ r.oid = journal[k].oid
      \/ r.state = journal[k].state /\ r.oid = OrderIdOf[k]
      \/ r.state = Target(e) /\ r.oid = OrderIdOf[k]
  BY DEF Observed, Moves
<1>4. Target(e) \in {"SUBMITTED", "PARTIAL", "FILLED", "REJECTED", "CANCELLED"}
  BY <1>0, Targets, TargetType DEF States, Terminal, Unresolved
<1>5. journal[k].state \in {"SUBMITTED", "PARTIAL", "FILLED", "REJECTED", "CANCELLED"}
        => journal[k].oid # NoId
  BY <1>1 DEF Truth, RowTrue
<1>6. journal[k].state \in {"SUBMITTED", "PARTIAL", "FILLED", "REJECTED", "CANCELLED",
                            "SUBMITTING", "UNKNOWN"}
  BY <1>0, <1>1 DEF Row, States, Terminal, Unresolved
<1>7. RowTrue(k, r)
  <2>1. RowTrue(k, journal[k])
    BY DEF Truth
  <2>2. QED
    <3> HIDE DEF r
    <3> QED BY <1>0, <1>1, <1>3, <1>4, <1>5, <2>1 DEF RowTrue
<1> HIDE DEF r
<1>8. \/ Verdict(r) = Verdict(journal[k])
      \/ Verdict(r) = "order" /\ Verdict(journal[k]) = "inflight"
  <2>1. CASE r.state = journal[k].state /\ r.oid = journal[k].oid
    BY <2>1 DEF Verdict
  <2>2. CASE journal[k].state \in {"SUBMITTING", "UNKNOWN"}
    <3>1. Verdict(journal[k]) = "inflight"
      BY <2>2 DEF Verdict
    <3>2. CASE r.state = journal[k].state
      BY <2>2, <3>2 DEF Verdict
    <3>3. CASE r.state = Target(e) /\ r.oid = OrderIdOf[k]
      <4>1. Verdict(r) = "order"
        BY <1>0, <1>4, <3>3, NamesAssumption DEF Verdict
      <4>2. QED
        BY <3>1, <4>1
    <3>4. QED
      BY <1>3, <3>2, <3>3
  <2>3. CASE journal[k].state \notin {"SUBMITTING", "UNKNOWN"}
    <3>1. Verdict(journal[k]) = "order"
      BY <1>5, <1>6, <2>3 DEF Verdict
    <3>2. CASE r.state = journal[k].state /\ r.oid = OrderIdOf[k]
      BY <1>0, <1>6, <2>3, <3>1, <3>2, NamesAssumption DEF Verdict
    <3>3. CASE r.state = Target(e) /\ r.oid = OrderIdOf[k]
      <4>1. Verdict(r) = "order"
        BY <1>0, <1>4, <3>3, NamesAssumption DEF Verdict
      <4>2. QED
        BY <3>1, <4>1
    <3>4. QED
      BY <1>3, <2>1, <3>2, <3>3
  <2>4. QED
    BY <2>2, <2>3
<1>9. Truth'
  BY <1>2, <1>7, TrueWrite
<1>10. Single!Confirm(k) \/ UNCHANGED <<Concluded, orders>>
  BY <1>0, <1>1, <1>2, <1>8, PutVerdict DEF Single!Confirm, Concluded
<1>11. QED
  BY <1>9, <1>10 DEF Promised, Single!Next

(* What the broker does, and what is heard of it. *)
LEMMA KeyKeepsPromise ==
  ASSUME Inv, Truth, NEW k \in Keys, KeyStep(k)
  PROVE  Truth' /\ Promised
<1>0. /\ wire \in [Keys -> {"none", "transit", "accepted", "refused", "lost"}]
      /\ orders \in [Keys -> Nat] /\ journal[k] \in Row /\ TypeOK
      /\ UNCHANGED <<pc, todo, rec>>
  BY DEF Inv, ExecTypeOK, TypeOK, KeyStep, Accept, Refuse, Progress, Deliver, Poll, Project,
         callVars, recVars
<1>1. CASE Accept(k)
  <2>1. /\ wire[k] = "transit" /\ wire' = [wire EXCEPT ![k] = "accepted"]
        /\ orders[k] = 0 /\ orders' = [orders EXCEPT ![k] = 1] /\ UNCHANGED journal
    <3>1. orders[k] = 0 /\ orders[k] + 1 = 1
      BY <1>1 DEF Accept, Inv, Books
    <3>2. QED
      BY <1>1, <3>1 DEF Accept
  <2>2. journal[k].state \in {"SUBMITTING", "UNKNOWN"}
    BY <2>1 DEF Truth, RowTrue
  <2>3. \A j \in Keys : RowTrue(j, journal[j])'
    BY <1>0, <2>1, <2>2 DEF Truth, RowTrue
  <2>4. Truth'
    BY <1>0, <2>1, <2>3 DEF Truth, Prepares
  <2>5. Single!Take(k)
    BY <2>1, <2>2 DEF Single!Take, Concluded, Verdict
  <2>6. QED
    BY <2>4, <2>5 DEF Promised, Single!Next
<1>2. CASE Refuse(k)
  <2>1. /\ wire[k] = "transit" /\ UNCHANGED <<journal, orders>>
        /\ wire'[k] \in {"refused", "lost"} /\ \A j \in Keys : j # k => wire'[j] = wire[j]
    BY <1>0, <1>2 DEF Refuse
  <2>2. \A j \in Keys : RowTrue(j, journal[j])'
    BY <2>1 DEF Truth, RowTrue
  <2>3. Truth'
    BY <1>0, <2>1, <2>2 DEF Truth, Prepares
  <2>4. UNCHANGED Concluded
    BY <2>1 DEF Concluded
  <2>5. QED
    BY <2>1, <2>3, <2>4 DEF Promised
<1>3. CASE Progress(k)
  BY <1>0, <1>3, TrueStutter DEF Progress, Prepares
<1>4. CASE Deliver(k)
  BY <1>0, <1>4, EvidenceKeepsPromise DEF Deliver, brokerVars
<1>5. CASE Poll(k)
  <2>1. Told(k, book[k]) \in feed /\ Told(k, book[k]).oid = OrderIdOf[k]
    BY <1>5 DEF Poll, Inv, Books, Told
  <2>2. QED
    BY <1>0, <1>5, <2>1, EvidenceKeepsPromise DEF Poll, brokerVars
<1>6. CASE Project(k)
  <2> DEFINE r == [journal[k] EXCEPT !.pending = FALSE]
  <2>1. Put(k, r) /\ UNCHANGED <<wire, orders>>
    BY <1>6 DEF Project, MarkProjected, brokerVars
  <2>2. r.state = journal[k].state /\ r.oid = journal[k].oid
    BY <1>0 DEF Row
  <2> HIDE DEF r
  <2>3. Verdict(r) = Verdict(journal[k])
    BY <2>2 DEF Verdict
  <2>4. Truth'
    <3>1. journal'[k] = r /\ \A j \in Keys : j # k => journal'[j] = journal[j]
      BY <1>0, <2>1, PutVerdict
    <3>2. \A j \in Keys : journal'[j].state = journal[j].state /\ journal'[j].oid = journal[j].oid
      BY <2>2, <3>1
    <3>3. \A s \in Calls : KeyOf[s] \in Keys
      BY ExecAssumption
    <3>4. \A a \in Accounts : todo[a] \subseteq Keys
      BY DEF Inv, ExecTypeOK
    <3>5. \A j \in Keys : RowTrue(j, journal[j])'
      BY <2>1, <3>2 DEF Truth, RowTrue
    <3>6. QED
      BY <1>0, <3>2, <3>3, <3>4, <3>5 DEF Truth, Prepares
  <2>5. UNCHANGED Concluded
    BY <1>0, <2>1, <2>3, PutVerdict
  <2>6. QED
    BY <2>1, <2>4, <2>5 DEF Promised
<1>7. QED
  BY <1>1, <1>2, <1>3, <1>4, <1>5, <1>6 DEF KeyStep

(* Recovery cancels what nobody claimed. *)
LEMMA RecoveryKeepsPromise ==
  ASSUME Inv, Truth, NEW a \in Accounts, RecoveryStep(a)
  PROVE  Truth' /\ Promised
<1>0. /\ TypeOK /\ UNCHANGED <<pc, wire, orders>> /\ orders \in [Keys -> Nat]
      /\ todo \in [Accounts -> SUBSET Keys] /\ rec \in [Accounts -> {"idle", "expire", "observe", "clean"}]
  BY DEF RecoveryStep, RecoveryStart, RecoveryExpire, RecoveryAssess, RecoveryReread,
         RecoveryClean, RecoveryStop, callVars, brokerVars, Inv, ExecTypeOK
<1>1. CASE RecoveryExpire(a)
  <2>1. PICK k \in todo[a] : Transition(k, "CANCELLED", NoId) /\ todo' = [todo EXCEPT ![a] = @ \ {k}]
    BY <1>1 DEF RecoveryExpire
  <2>2. /\ k \in Keys /\ journal[k] \in Row /\ journal[k].state = "RESERVED"
        /\ AccountOf[k] = a /\ UNCHANGED rec
    BY <1>0, <1>1, <2>1 DEF TypeOK, Truth, RecoveryExpire
  <2>3. wire[k] = "none" /\ journal[k].oid = NoId
    BY <2>2 DEF Inv, Claims, Untouched, Truth, RowTrue
  <2> DEFINE r == [journal[k] EXCEPT !.state = "CANCELLED", !.oid = journal[k].oid]
  <2>4. Put(k, r)
    BY <2>1 DEF Transition, BoundId
  <2>5. r.state = "CANCELLED" /\ r.oid = NoId
    BY <2>2, <2>3 DEF Row
  <2> HIDE DEF r
  <2>6. journal'[k] = r /\ \A j \in Keys : j # k => journal'[j] = journal[j]
    BY <1>0, <2>2, <2>4, PutVerdict
  <2>7. \A j \in Keys : RowTrue(j, journal[j])'
    BY <1>0, <2>3, <2>5, <2>6 DEF Truth, RowTrue
  <2>8. \A s \in Calls : Prepares(s) => KeyOf[s] \in Keys /\ KeyOf[s] # k
    BY <2>2, ExecAssumption DEF Truth
  <2>9. \A b \in Accounts : \A j \in todo'[b] : j \in todo[b] /\ j \in Keys /\ j # k
    BY <1>0, <2>1, <2>2 DEF Truth
  <2>10. Truth'
    BY <1>0, <2>2, <2>6, <2>7, <2>8, <2>9 DEF Truth, Prepares
  <2>11. Verdict(r) = "none" /\ Verdict(journal[k]) = "unsent"
    BY <2>2, <2>5 DEF Verdict
  <2>12. Single!Abandon(k)
    BY <1>0, <2>2, <2>4, <2>11, PutVerdict DEF Single!Abandon, Concluded
  <2>13. QED
    BY <2>2, <2>10, <2>12 DEF Promised, Single!Next
<1>2. CASE RecoveryStart(a)
  <2>1. /\ todo' = [todo EXCEPT ![a] = {k \in UnresolvedOf(a) : journal[k].state = "RESERVED"}]
        /\ rec' = [rec EXCEPT ![a] = "expire"] /\ UNCHANGED journal
    BY <1>2 DEF RecoveryStart
  <2>2. \A b \in Accounts : \A k \in todo'[b] :
          rec'[b] = "expire" /\ AccountOf[k] = b /\ journal[k].state = "RESERVED"
    BY <1>0, <2>1 DEF Truth, UnresolvedOf
  <2>3. Truth'
    BY <1>0, <2>1, <2>2 DEF Truth, RowTrue, Prepares
  <2>4. UNCHANGED Concluded
    BY <2>1 DEF Concluded
  <2>5. QED
    BY <1>0, <2>3, <2>4 DEF Promised
<1>3. CASE RecoveryAssess(a) \/ RecoveryReread(a) \/ RecoveryClean(a)
  <2>1. UNCHANGED <<journal, todo>> /\ todo[a] = {} /\ \A b \in Accounts : b # a => rec'[b] = rec[b]
    BY <1>0, <1>3 DEF RecoveryAssess, RecoveryReread, RecoveryClean, Truth
  <2>2. QED
    BY <1>0, <2>1, TrueStutter DEF Prepares
<1>4. CASE RecoveryStop(a)
  <2>1. /\ UNCHANGED journal /\ todo'[a] = {}
        /\ \A b \in Accounts : b # a => rec'[b] = rec[b] /\ todo'[b] = todo[b]
    BY <1>0, <1>4 DEF RecoveryStop
  <2>2. \A b \in Accounts : \A k \in todo'[b] :
          rec'[b] = "expire" /\ AccountOf[k] = b /\ journal[k].state = "RESERVED"
    BY <2>1 DEF Truth
  <2>3. Truth'
    BY <1>0, <2>1, <2>2 DEF Truth, RowTrue, Prepares
  <2>4. UNCHANGED Concluded
    BY <2>1 DEF Concluded
  <2>5. QED
    BY <1>0, <2>3, <2>4 DEF Promised
<1>5. QED
  BY <1>1, <1>2, <1>3, <1>4 DEF RecoveryStep

(* Truth is kept, and every step of the path is one of the promise or a stutter. *)
LEMMA TruthKept ==
  ASSUME OneProcess, Inv, Truth, [ExecNext]_vars
  PROVE  Truth' /\ Promised
<1>1. CASE UNCHANGED <<pc, journal, wire, orders, todo, rec>>
  BY <1>1, TrueStutter DEF Prepares
<1>2. ASSUME NEW x \in Switches, Engage(x) \/ Disengage(x)
      PROVE  UNCHANGED <<pc, journal, wire, orders, todo, rec>>
  BY <1>2 DEF Engage, Disengage, callVars, brokerVars
<1>3. QED
  BY <1>1, <1>2, CallKeepsPromise, KeyKeepsPromise, RecoveryKeepsPromise
     DEF ExecNext, vars, callVars, brokerVars, recVars

LEMMA TruthHolds ==
  ASSUME OneProcess
  PROVE  ExecSpec => []Truth
<1>1. ExecInit => Truth
  BY NamesAssumption DEF ExecInit, Init, NewRow, Truth, RowTrue, Prepares, Gates
<1>2. Inv /\ Truth /\ [ExecNext]_vars => Truth'
  BY TruthKept
<1>3. QED
  BY <1>1, <1>2, InvHolds, PTL DEF ExecSpec

(* One order at most, only while in flight, and every verdict true: the execution
   path implements SingleEffect when recovery shares its process. *)
THEOREM KeepsThePromise ==
  ASSUME OneProcess
  PROVE  ExecSpec => ImplementsSingleEffect
<1>1. ExecInit => Single!Init
  BY DEF ExecInit, Init, NewRow, Single!Init, Verdict
<1>2. Inv /\ Truth /\ [ExecNext]_vars => Promised
  BY TruthKept
<1>3. Promised => [Single!Next]_<<Concluded, orders>>
  BY DEF Promised
<1>4. ExecSpec => []Truth
  BY TruthHolds
<1>5. QED
  BY <1>1, <1>2, <1>3, <1>4, InvHolds, PTL DEF ExecSpec, ImplementsSingleEffect, Single!Spec, Concluded

-----------------------------------------------------------------------------
(***************************************************************************)
(* An honest broker is never accused.  The argument: a row that is over    *)
(* while its order is at the broker is over the way the broker said, so no *)
(* later report can contradict it; a row that a call or recovery ended     *)
(* never had an order.                                                     *)
(***************************************************************************)

\* The row ended as the order did.
Ended(k) ==
  /\ book[k].status \in DOMAIN FinalState
  /\ journal[k].state = FinalState[book[k].status]
  /\ journal[k].filled = book[k].filled

\* What was reported of an order is no more than what has become of it, and a final
\* report is the last word.
Reported(k, e) ==
  /\ book[k] # NoOrder
  /\ e.filled <= book[k].filled /\ e.value = e.filled
  /\ IsFinal(e) => e.status = book[k].status /\ e.filled = book[k].filled
  /\ e.status = "COMPLETE" => e.filled = journal[k].qty

Honest ==
  /\ HonestBrokerTrusted
  /\ \A k \in Keys : journal[k].value = journal[k].filled
  /\ \A k \in Keys : wire[k] = "accepted" /\ journal[k].state \in Terminal => Ended(k)
  /\ \A k \in Keys : \A e \in feed : e.oid = OrderIdOf[k] => Reported(k, e)

(* What a write that carries no word of the broker keeps of a row. *)
WordOfCaller(k) ==
  /\ journal'[k].recon = journal[k].recon
  /\ journal'[k].filled = journal[k].filled /\ journal'[k].value = journal[k].value
  /\ journal'[k].state \in Terminal => journal'[k].state = journal[k].state \/ wire[k] # "accepted"

(* Writes of the calls and of recovery, while the broker is silent. *)
LEMMA CallersKeepHonest ==
  ASSUME Inv, Honest, [Next]_journal, UNCHANGED <<book, feed>>,
         \A k \in Keys : wire'[k] = "accepted" <=> wire[k] = "accepted",
         \A k \in Keys :
           \/ journal'[k] = journal[k] \/ WordOfCaller(k)
           \/ journal'[k] \in {NewRow("RESERVED", q, c) : q \in Quantities, c \in Capitals}
  PROVE  Honest'
<1>1. \A k \in Keys : Present(k) => journal'[k].qty = journal[k].qty
  BY RowFacts DEF Inv, ExecTypeOK
<1>2. \A k \in Keys : /\ ~journal'[k].recon
                      /\ journal'[k].value = journal'[k].filled
                      /\ journal'[k].state \in Terminal => journal'[k].state = journal[k].state \/ wire[k] # "accepted"
                      /\ journal'[k].state \in Terminal => journal'[k].filled = journal[k].filled
  BY DEF Honest, HonestBrokerTrusted, WordOfCaller, NewRow, Terminal
<1>3. \A k \in Keys : wire'[k] = "accepted" /\ journal'[k].state \in Terminal => Ended(k)'
  BY <1>2 DEF Honest, Ended
<1>4. ASSUME NEW k \in Keys, NEW e \in feed, e.oid = OrderIdOf[k]
      PROVE  Reported(k, e)'
  <2>1. wire[k] = "accepted"
    BY <1>4 DEF Inv, Books
  <2>2. journal'[k].qty = journal[k].qty
    BY <1>1, <2>1 DEF Inv, Claims, Untouched, Present
  <2>3. QED
    BY <1>4, <2>2 DEF Honest, Reported
<1>5. QED
  BY <1>2, <1>3, <1>4 DEF Honest, HonestBrokerTrusted

(* A row that is written in its state, its id or its pending flag only. *)
LEMMA RelabelledRow ==
  ASSUME TypeOK, NEW k \in Keys, NEW r, Put(k, r),
         r.recon = journal[k].recon, r.filled = journal[k].filled, r.value = journal[k].value,
         r.state \in Terminal => r.state = journal[k].state \/ wire[k] # "accepted"
  PROVE  \A j \in Keys : journal'[j] = journal[j] \/ WordOfCaller(j)
<1>1. journal'[k] = r /\ \A j \in Keys : j # k => journal'[j] = journal[j]
  BY DEF TypeOK, Put
<1>2. QED
  BY <1>1 DEF WordOfCaller

LEMMA CallKeepsHonest ==
  ASSUME Inv, Truth, Honest, NEW s \in Calls, CallStep(s)
  PROVE  Honest'
<1> DEFINE c == KeyOf[s]
<1>0. /\ c \in Keys /\ TypeOK /\ journal[c] \in Row
      /\ wire \in [Keys -> {"none", "transit", "accepted", "refused", "lost"}]
      /\ [Next]_journal
  BY ExecAssumption, JournalStep DEF Inv, ExecTypeOK, TypeOK, ExecNext
<1>1. Prepares(s) => wire[c] = "none"
  BY DEF Inv, Claims
<1>2. UNCHANGED <<book, feed>>
  BY DEF CallStep, Admit, ReserveNew, ReserveExisting, ReserveReturns, Claim, ClaimLost, Identified, Pass,
         Withdraw, Send, Acknowledged, Refused, TimedOut, Flag, Crash, brokerVars
<1>3. \A k \in Keys : wire'[k] = "accepted" <=> wire[k] = "accepted"
  <2>1. CASE Send(s)
    <3>1. wire' = [wire EXCEPT ![c] = "transit"] /\ Prepares(s)
      BY <2>1 DEF Send, At, Prepares
    <3>2. QED
      BY <1>0, <1>1, <3>1
  <2>2. CASE UNCHANGED wire
    BY <2>2
  <2>3. QED
    BY <2>1, <2>2 DEF CallStep, Admit, ReserveNew, ReserveExisting, ReserveReturns, Claim, ClaimLost, Identified,
         Pass, Withdraw, Acknowledged, Refused, TimedOut, Flag, Crash, brokerVars
<1>4. SUFFICES \A k \in Keys :
        journal'[k] = journal[k] \/ WordOfCaller(k)
        \/ journal'[k] \in {NewRow("RESERVED", q, m) : q \in Quantities, m \in Capitals}
  BY <1>0, <1>2, <1>3, CallersKeepHonest
<1>5. CASE ReserveNew(s)
  <2>1. PICK q \in Quantities, m \in Capitals, f \in Funds : Reserve(c, q, m, f)
    BY <1>5 DEF ReserveNew
  <2>2. /\ journal'[c] = NewRow("RESERVED", q, m)
        /\ \A j \in Keys : j # c => journal'[j] = journal[j]
    BY <1>0, <2>1 DEF Reserve, Put, TypeOK
  <2>3. QED
    BY <2>2
<1>6. ASSUME NEW r, Put(c, r),
             r.recon = journal[c].recon, r.filled = journal[c].filled, r.value = journal[c].value,
             r.state \in Terminal => r.state = journal[c].state \/ wire[c] # "accepted"
      PROVE  \A k \in Keys : journal'[k] = journal[k] \/ WordOfCaller(k)
  BY <1>0, <1>6, RelabelledRow
<1>7. ASSUME NEW st, NEW oid, Put(c, [journal[c] EXCEPT !.state = st, !.oid = oid]),
             st \in Terminal => wire[c] # "accepted"
      PROVE  \A k \in Keys : journal'[k] = journal[k] \/ WordOfCaller(k)
  <2> DEFINE r == [journal[c] EXCEPT !.state = st, !.oid = oid]
  <2>1. r.state = st /\ r.recon = journal[c].recon /\ r.filled = journal[c].filled /\ r.value = journal[c].value
    BY <1>0 DEF Row
  <2>2. Put(c, r)
    BY <1>7
  <2> HIDE DEF r
  <2>3. QED
    BY <1>6, <1>7, <2>1, <2>2
<1>8. ASSUME NEW st, Put(c, [journal[c] EXCEPT !.state = st]), st \notin Terminal
      PROVE  \A k \in Keys : journal'[k] = journal[k] \/ WordOfCaller(k)
  <2> DEFINE r == [journal[c] EXCEPT !.state = st]
  <2>1. r.state = st /\ r.recon = journal[c].recon /\ r.filled = journal[c].filled /\ r.value = journal[c].value
    BY <1>0 DEF Row
  <2>2. Put(c, r)
    BY <1>8
  <2> HIDE DEF r
  <2>3. QED
    BY <1>6, <1>8, <2>1, <2>2
<1>9. CASE Claim(s)
  BY <1>8, <1>9 DEF Claim, ClaimWon, ClaimSubmission, Terminal
<1>10. CASE Withdraw(s)
  <2>1. Prepares(s) /\ Transition(c, "REJECTED", NoId)
    BY <1>10 DEF Withdraw, Prepares
  <2>2. Put(c, [journal[c] EXCEPT !.state = "REJECTED", !.oid = BoundId(c, NoId)])
    BY <2>1 DEF Transition
  <2>3. wire[c] # "accepted"
    BY <1>1, <2>1
  <2>4. \A k \in Keys : journal'[k] = journal[k] \/ WordOfCaller(k)
    BY <1>7, <2>2, <2>3
  <2>5. QED
    BY <2>4
<1>11. CASE Refused(s)
  <2>1. wire[c] # "accepted" /\ Transition(c, "REJECTED", NoId)
    BY <1>11 DEF Refused
  <2>2. Put(c, [journal[c] EXCEPT !.state = "REJECTED", !.oid = BoundId(c, NoId)])
    BY <2>1 DEF Transition
  <2>3. wire[c] # "accepted"
    BY <2>1
  <2>4. \A k \in Keys : journal'[k] = journal[k] \/ WordOfCaller(k)
    BY <1>7, <2>2, <2>3
  <2>5. QED
    BY <2>4
<1>12. CASE Acknowledged(s)
  <2> DEFINE st == IF journal[c].state \in {"SUBMITTING", "UNKNOWN"} THEN "SUBMITTED" ELSE journal[c].state
             r == [journal[c] EXCEPT !.state = st, !.oid = OrderIdOf[c]]
  <2>1. Put(c, r)
    BY <1>12 DEF Acknowledged, Acknowledge
  <2>2. st \in Terminal => st = journal[c].state
    BY DEF Terminal
  <2>3. r.state = st /\ r.recon = journal[c].recon /\ r.filled = journal[c].filled /\ r.value = journal[c].value
    BY <1>0 DEF Row
  <2> HIDE DEF r, st
  <2>4. QED
    BY <1>6, <2>1, <2>2, <2>3
<1>13. CASE TimedOut(s)
  <2>1. \/ Put(c, [journal[c] EXCEPT !.state = "UNKNOWN"])
        \/ UNCHANGED journal
    BY <1>13 DEF TimedOut, Uncertain, SubmissionUncertain
  <2>2. "UNKNOWN" \notin Terminal
    BY DEF Terminal
  <2>3. CASE Put(c, [journal[c] EXCEPT !.state = "UNKNOWN"])
    <3>1. \A k \in Keys : journal'[k] = journal[k] \/ WordOfCaller(k)
      BY <1>8, <2>2, <2>3
    <3>2. QED
      BY <3>1
  <2>4. QED
    BY <2>1, <2>3
<1>14. CASE UNCHANGED journal
  BY <1>14
<1>15. QED
  BY <1>5, <1>9, <1>10, <1>11, <1>12, <1>13, <1>14
     DEF CallStep, Admit, ReserveExisting, ReserveReturns, ClaimLost, Identified, Pass, Send, Flag, Crash

(* The broker's own steps: an order goes on from where it was reported. *)
LEMMA BrokerKeepsHonest ==
  ASSUME Inv, Truth, Honest, NEW k \in Keys, Accept(k) \/ Refuse(k) \/ Progress(k)
  PROVE  Honest'
<1>0. /\ wire \in [Keys -> {"none", "transit", "accepted", "refused", "lost"}]
      /\ book \in [Keys -> {NoOrder} \cup [status : BrokerStatuses, filled : Nat]]
      /\ UNCHANGED journal /\ journal[k] \in Row
      /\ \A j \in Keys : \A e \in feed : e.oid = OrderIdOf[j] => e.filled \in Nat
  BY EvidenceAssumption DEF Inv, ExecTypeOK, TypeOK, Books, Accept, Refuse, Progress
<1>1. CASE Refuse(k)
  <2>1. PICK w \in {"refused", "lost"} : wire' = [wire EXCEPT ![k] = w]
    BY <1>1 DEF Refuse
  <2>2. wire[k] = "transit" /\ UNCHANGED <<journal, book, feed>>
    BY <1>1 DEF Refuse
  <2>3. \A j \in Keys : wire'[j] = "accepted" <=> wire[j] = "accepted"
    BY <1>0, <2>1, <2>2
  <2>4. QED
    BY <2>2, <2>3, CallersKeepHonest
<1>2. ASSUME NEW st \in BrokerStatuses, NEW f \in Nat, Report(k, [status |-> st, filled |-> f]),
             wire'[k] = "accepted", \A j \in Keys : j # k => wire'[j] = wire[j],
             journal[k].state \notin Terminal,
             \A e \in feed : e.oid = OrderIdOf[k] => e.filled <= f /\ ~IsFinal(e),
             st = "COMPLETE" => f = journal[k].qty
      PROVE  Honest'
  <2> DEFINE b == [status |-> st, filled |-> f]
  <2>1. /\ book'[k] = b /\ \A j \in Keys : j # k => book'[j] = book[j]
        /\ feed' = feed \cup {Told(k, b)}
    BY <1>0, <1>2 DEF Report
  <2>2. b # NoOrder /\ b.status = st /\ b.filled = f
    BY <1>2 DEF NoOrder, BrokerStatuses
  <2>3. /\ Told(k, b).oid = OrderIdOf[k] /\ Told(k, b).status = st
        /\ Told(k, b).filled = f /\ Told(k, b).value = f
    BY DEF Told
  <2> HIDE DEF b
  <2>4. \A j \in Keys : wire'[j] = "accepted" /\ journal[j].state \in Terminal => Ended(j)'
    BY <1>0, <1>2, <2>1 DEF Honest, Ended
  <2>5. ASSUME NEW j \in Keys, NEW e \in feed', e.oid = OrderIdOf[j]
        PROVE  Reported(j, e)'
    <3>1. CASE j # k
      <4>1. e \in feed
        BY <2>1, <2>3, <2>5, <3>1, ExecAssumption
      <4>2. QED
        BY <1>0, <2>1, <2>5, <3>1, <4>1 DEF Honest, Reported
    <3>2. CASE j = k /\ e \in feed
      <4>1. Reported(k, e)
        BY <2>5, <3>2 DEF Honest
      <4>2. ~IsFinal(e) /\ e.filled <= f
        BY <1>2, <2>5, <3>2
      <4>3. QED
        BY <1>0, <2>1, <2>2, <3>2, <4>1, <4>2 DEF Reported
    <3>3. CASE j = k /\ e = Told(k, b)
      BY <1>0, <1>2, <2>1, <2>2, <2>3, <3>3 DEF Reported
    <3>4. QED
      BY <2>1, <3>1, <3>2, <3>3
  <2>6. QED
    BY <1>0, <2>4, <2>5 DEF Honest, HonestBrokerTrusted
<1>3. CASE Accept(k)
  <2>1. /\ wire[k] = "transit" /\ wire' = [wire EXCEPT ![k] = "accepted"]
        /\ Report(k, [status |-> "OPEN", filled |-> 0])
    BY <1>3 DEF Accept
  <2>2. journal[k].state \notin Terminal
    BY <2>1 DEF Truth, RowTrue, Terminal
  <2>3. \A e \in feed : e.oid # OrderIdOf[k]
    BY <2>1 DEF Inv, Books
  <2>4. "OPEN" \in BrokerStatuses
    BY DEF BrokerStatuses
  <2>5. QED
    BY <1>0, <1>2, <2>1, <2>2, <2>3, <2>4
<1>4. CASE Progress(k)
  <2>1. book[k].status = "OPEN" /\ UNCHANGED wire
    BY <1>4 DEF Progress
  <2>2. book[k] # NoOrder
    BY <2>1 DEF NoOrder
  <2>3. wire[k] = "accepted" /\ book[k].filled \in Nat
    BY <1>0, <2>2 DEF Inv, Books
  <2>4. journal[k].state \notin Terminal
    BY <2>1, <2>3 DEF Honest, Ended, FinalState
  <2>5. \A e \in feed : e.oid = OrderIdOf[k] => e.filled <= book[k].filled /\ ~IsFinal(e)
    BY <2>1 DEF Honest, Reported, IsFinal, FinalState
  <2>6. PICK f \in book[k].filled..journal[k].qty :
          \E st \in BrokerStatuses : /\ Report(k, [status |-> st, filled |-> f])
                                     /\ st = "COMPLETE" => f = journal[k].qty
    BY <1>4 DEF Progress, BrokerStatuses
  <2>7. f \in Nat /\ book[k].filled <= f
    BY <1>0, <2>3 DEF Row
  <2>8. \A e \in feed : e.oid = OrderIdOf[k] => e.filled <= f /\ ~IsFinal(e)
    BY <1>0, <2>3, <2>5, <2>7
  <2>9. QED
    BY <1>2, <2>1, <2>3, <2>4, <2>6, <2>7, <2>8
<1>5. QED
  BY <1>1, <1>3, <1>4

(* A report that reaches the journal contradicts nothing, and ends the row only as the
   order has ended. *)
LEMMA EvidenceKeepsHonest ==
  ASSUME Inv, Truth, Honest, NEW k \in Keys, NEW e \in feed, e.oid = OrderIdOf[k], ObserveOrder(k, e),
         UNCHANGED <<wire, book, feed>>
  PROVE  Honest'
<1> DEFINE r == Observed(journal[k], e)
<1>0. /\ TypeOK /\ journal[k] \in Row /\ e \in Evidence
      /\ e.filled \in Nat /\ e.value \in Nat /\ e.status \in BrokerStatuses
      /\ wire[k] = "accepted" /\ journal[k].state \notin {"ABSENT", "RESERVED"}
      /\ Reported(k, e) /\ ~journal[k].recon /\ journal[k].value = journal[k].filled
      /\ journal[k].filled \in Nat /\ journal[k].qty \in Nat
  BY EvidenceAssumption DEF Inv, ExecTypeOK, TypeOK, Row, Books, Claims, Untouched, Honest, HonestBrokerTrusted
<1>1. /\ book[k].filled \in 0..journal[k].qty
      /\ e.filled <= book[k].filled /\ e.value = e.filled
      /\ IsFinal(e) => e.status = book[k].status /\ e.filled = book[k].filled
      /\ e.status = "COMPLETE" => e.filled = journal[k].qty
  BY <1>0 DEF Reported, Inv, Books
<1>2. journal[k].state \in Terminal => Ended(k)
  BY <1>0 DEF Honest
<1>3. ~TerminalConflict(journal[k], e)
  <2>1. ASSUME journal[k].state \in Terminal PROVE ~(e.filled > journal[k].filled)
    BY <1>0, <1>1, <1>2, <2>1 DEF Ended
  <2>2. ASSUME journal[k].state \in Terminal, IsFinal(e) PROVE FinalState[e.status] = journal[k].state
    BY <1>1, <1>2, <2>2 DEF Ended
  <2>3. QED
    BY <2>1, <2>2 DEF TerminalConflict
<1>4. ~Conflict(journal[k], e)
  <2>1. ~(e.filled > journal[k].qty)
    BY <1>0, <1>1
  <2>2. ~(e.filled = journal[k].filled /\ e.value # journal[k].value)
    BY <1>0, <1>1
  <2>3. ~(e.filled > journal[k].filled /\ e.value <= journal[k].value)
    BY <1>0, <1>1
  <2>4. QED
    BY <1>0, <1>1, <1>3, <2>1, <2>2, <2>3 DEF Conflict
<1>5. /\ ~r.recon /\ r.value = r.filled
      /\ \/ r.state = Target(e) /\ r.filled = e.filled
         \/ r.state = journal[k].state /\ r.filled = journal[k].filled
      /\ r.qty = journal[k].qty
  BY <1>0, <1>1, <1>4 DEF Observed
<1>6. /\ journal' = [journal EXCEPT ![k] = r]
      /\ journal'[k] = r /\ \A j \in Keys : j # k => journal'[j] = journal[j]
  BY <1>0 DEF ObserveOrder, Put, TypeOK
<1> HIDE DEF r
<1>7. r.state \in Terminal => Ended(k)'
  <2>1. CASE r.state = journal[k].state /\ r.filled = journal[k].filled
    BY <1>2, <1>6, <2>1 DEF Ended
  <2>2. CASE r.state = Target(e) /\ r.filled = e.filled
    <3>1. ASSUME r.state \in Terminal PROVE IsFinal(e)
      BY <2>2, <3>1 DEF Target, Terminal
    <3>2. IsFinal(e) => e.status \in DOMAIN FinalState /\ r.state = FinalState[e.status]
      BY <2>2 DEF IsFinal, Target
    <3>3. QED
      BY <1>1, <1>6, <2>2, <3>1, <3>2 DEF Ended
  <2>3. QED
    BY <1>5, <2>1, <2>2
<1>8. \A j \in Keys : wire'[j] = "accepted" /\ journal'[j].state \in Terminal => Ended(j)'
  BY <1>6, <1>7 DEF Honest, Ended
<1>9. \A j \in Keys : \A d \in feed' : d.oid = OrderIdOf[j] => Reported(j, d)'
  BY <1>5, <1>6 DEF Honest, Reported
<1>10. QED
  BY <1>5, <1>6, <1>8, <1>9 DEF Honest, HonestBrokerTrusted

LEMMA HonestPreserved ==
  ASSUME Inv, Truth, Honest, [ExecNext]_vars
  PROVE  Honest'
<1>0. TypeOK /\ (ExecNext => [Next]_journal)
  BY JournalStep DEF Inv, ExecTypeOK
<1>1. CASE UNCHANGED <<journal, wire, book, feed>>
  BY <1>1 DEF Honest, HonestBrokerTrusted, Ended, Reported
<1>2. ASSUME NEW k \in Keys, KeyStep(k) PROVE Honest'
  <2>1. CASE Deliver(k)
    BY <2>1, EvidenceKeepsHonest DEF Deliver, brokerVars
  <2>2. CASE Poll(k)
    <3>1. Told(k, book[k]) \in feed /\ Told(k, book[k]).oid = OrderIdOf[k]
      BY <2>2 DEF Poll, Inv, Books, Told
    <3>2. QED
      BY <2>2, <3>1, EvidenceKeepsHonest DEF Poll, brokerVars
  <2>3. CASE Project(k)
    <3> DEFINE r == [journal[k] EXCEPT !.pending = FALSE]
    <3>1. Put(k, r) /\ UNCHANGED <<wire, book, feed>>
      BY <2>3 DEF Project, MarkProjected, brokerVars
    <3>2. r.state = journal[k].state /\ r.recon = journal[k].recon /\ r.filled = journal[k].filled
          /\ r.value = journal[k].value
      BY <1>0 DEF TypeOK, Row
    <3> HIDE DEF r
    <3>3. \A j \in Keys : journal'[j] = journal[j] \/ WordOfCaller(j)
      BY <1>0, <3>1, <3>2, RelabelledRow
    <3>4. [Next]_journal
      BY <1>0, <1>2 DEF ExecNext
    <3>5. QED
      BY <3>1, <3>3, <3>4, CallersKeepHonest
  <2>4. QED
    BY <1>2, <2>1, <2>2, <2>3, BrokerKeepsHonest DEF KeyStep
<1>3. ASSUME NEW a \in Accounts, RecoveryStep(a), RecoveryExpire(a) PROVE Honest'
  <2>1. PICK k \in todo[a] : Transition(k, "CANCELLED", NoId)
    BY <1>3 DEF RecoveryExpire
  <2>2. /\ k \in Keys /\ journal[k] \in Row /\ journal[k].state = "RESERVED"
        /\ UNCHANGED <<wire, book, feed>>
    BY <1>0, <1>3, <2>1 DEF TypeOK, Truth, RecoveryExpire, brokerVars, Inv, ExecTypeOK
  <2>3. wire[k] = "none"
    BY <2>2 DEF Inv, Claims, Untouched
  <2> DEFINE r == [journal[k] EXCEPT !.state = "CANCELLED", !.oid = BoundId(k, NoId)]
  <2>4. Put(k, r)
    BY <2>1 DEF Transition
  <2>5. r.recon = journal[k].recon /\ r.filled = journal[k].filled /\ r.value = journal[k].value
    BY <2>2 DEF Row
  <2> HIDE DEF r
  <2>6. \A j \in Keys : journal'[j] = journal[j] \/ WordOfCaller(j)
    BY <1>0, <2>2, <2>3, <2>4, <2>5, RelabelledRow
  <2>7. [Next]_journal
    BY <1>0, <1>3 DEF ExecNext
  <2>8. QED
    BY <2>2, <2>6, <2>7, CallersKeepHonest
<1>4. ASSUME NEW a \in Accounts, RecoveryStep(a), ~RecoveryExpire(a)
      PROVE  UNCHANGED <<journal, wire, book, feed>>
  BY <1>4 DEF RecoveryStep, RecoveryStart, RecoveryAssess, RecoveryReread, RecoveryClean, RecoveryStop, brokerVars
<1>5. ASSUME NEW x \in Switches, Engage(x) \/ Disengage(x)
      PROVE  UNCHANGED <<journal, wire, book, feed>>
  BY <1>5 DEF Engage, Disengage, brokerVars
<1>6. QED
  BY <1>1, <1>2, <1>3, <1>4, <1>5, CallKeepsHonest DEF ExecNext, vars, brokerVars

(* Reports of one order that are duplicated, delayed or reordered never quarantine its
   intent, when recovery shares the process of the calls (order_journal.observe_order). *)
THEOREM HonestTrusted ==
  ASSUME OneProcess
  PROVE  ExecSpec => []HonestBrokerTrusted
<1>1. ExecInit => Honest
  BY DEF ExecInit, Init, NewRow, Honest, HonestBrokerTrusted
<1>2. ExecSpec => []Truth
  BY TruthHolds
<1>3. Inv /\ Truth /\ Honest /\ [ExecNext]_vars => Honest'
  BY HonestPreserved
<1>4. Honest => HonestBrokerTrusted
  BY DEF Honest
<1>5. QED
  BY <1>1, <1>2, <1>3, <1>4, InvHolds, PTL DEF ExecSpec
=============================================================================
