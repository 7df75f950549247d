------------------------- MODULE OrderJournalProofs -------------------------
(***************************************************************************)
(* What holds of the order journal for every set of keys, accounts, order  *)
(* ids and evidence, under any sequence of calls of its functions.         *)
(*                                                                         *)
(* Every action replaces one row (Put), so each lemma is about the row an  *)
(* action writes and the theorems only collect them.                       *)
(***************************************************************************)
EXTENDS OrderJournal, FoldLemmas

-----------------------------------------------------------------------------
(* Well-formed rows. *)

(* Replacing one row by a well-formed row keeps the table well formed. *)
LEMMA PutType ==
  ASSUME TypeOK, NEW k \in Keys, NEW r \in Row, Put(k, r)
  PROVE  TypeOK'
  BY DEF TypeOK, Put

(* The state accepted evidence leads to is a state of the table. *)
LEMMA TargetType ==
  ASSUME NEW e \in Evidence
  PROVE  Target(e) \in States
  BY DEF Target, FinalState, IsFinal, States, Terminal, Unresolved

(* observe_order yields a well-formed row. *)
LEMMA ObservedType ==
  ASSUME NEW r \in Row, NEW e \in Evidence
  PROVE  Observed(r, e) \in Row
<1>1. e \in [oid : OrderIds, status : BrokerStatuses, filled : Nat, value : Nat]
  BY EvidenceAssumption
<1>2. Target(e) \in States
  BY TargetType
<1>3. (r.recon \/ Conflict(r, e)) \in BOOLEAN /\ (r.pending \/ Moves(r, e)) \in BOOLEAN
  OBVIOUS
<1>4. QED
  BY <1>1, <1>2, <1>3 DEF Observed, Row

(* A well-formed table stays one whichever function is called. *)
LEMMA TypePreserved ==
  ASSUME TypeOK, [Next]_journal
  PROVE  TypeOK'
<1>1. CASE UNCHANGED journal
  BY <1>1 DEF TypeOK
<1> SUFFICES ASSUME NEW k \in Keys,
                    \/ \E q \in Quantities, c \in Capitals, f \in Funds : Reserve(k, q, c, f)
                    \/ ClaimSubmission(k)
                    \/ \E st \in Settable, oid \in OrderIds \cup {NoId} : Transition(k, st, oid)
                    \/ \E oid \in OrderIds : Acknowledge(k, oid)
                    \/ SubmissionUncertain(k)
                    \/ \E e \in Evidence : ObserveOrder(k, e)
                    \/ \E v \in 0..journal[k].version : MarkProjected(k, v)
             PROVE  TypeOK'
  BY <1>1 DEF Next
<1>0. journal[k] \in Row
  BY DEF TypeOK
<1>2. ASSUME NEW q \in Quantities, NEW c \in Capitals, NEW f \in Funds, Reserve(k, q, c, f)
      PROVE  TypeOK'
  <2>1. NewRow("RESERVED", q, c) \in Row
    BY AmountsAssumption DEF NewRow, Row, States, Unresolved
  <2>2. QED
    BY <1>2, <2>1, PutType DEF Reserve
<1>3. CASE ClaimSubmission(k)
  <2>1. [journal[k] EXCEPT !.state = "SUBMITTING"] \in Row
    BY <1>0 DEF Row, States, Unresolved
  <2>2. QED
    BY <1>3, <2>1, PutType DEF ClaimSubmission
<1>4. ASSUME NEW st \in Settable, NEW oid \in OrderIds \cup {NoId}, Transition(k, st, oid)
      PROVE  TypeOK'
  <2>1. st \in States /\ BoundId(k, oid) \in OrderIds \cup {NoId}
    BY <1>0 DEF Settable, States, Unresolved, Terminal, BoundId, Row
  <2>2. [journal[k] EXCEPT !.state = st, !.oid = BoundId(k, oid)] \in Row
    BY <1>0, <2>1 DEF Row
  <2>3. QED
    BY <1>4, <2>2, PutType DEF Transition
<1>5. ASSUME NEW oid \in OrderIds, Acknowledge(k, oid)
      PROVE  TypeOK'
  <2> DEFINE st == IF journal[k].state \in {"SUBMITTING", "UNKNOWN"} THEN "SUBMITTED"
                   ELSE journal[k].state
  <2>1. st \in States
    BY <1>0 DEF Row, States, Unresolved
  <2>2. [journal[k] EXCEPT !.state = st, !.oid = oid] \in Row
    <3> HIDE DEF st
    <3> QED BY <1>0, <2>1 DEF Row
  <2>3. Put(k, [journal[k] EXCEPT !.state = st, !.oid = oid])
    BY <1>5 DEF Acknowledge
  <2>4. QED
    BY <2>2, <2>3, PutType
<1>6. CASE SubmissionUncertain(k)
  <2>1. [journal[k] EXCEPT !.state = "UNKNOWN"] \in Row
    BY <1>0 DEF Row, States, Unresolved
  <2>2. QED
    BY <1>6, <2>1, PutType DEF SubmissionUncertain
<1>7. ASSUME NEW e \in Evidence, ObserveOrder(k, e)
      PROVE  TypeOK'
  BY <1>0, <1>7, ObservedType, PutType DEF ObserveOrder
<1>8. ASSUME NEW v \in 0..journal[k].version, MarkProjected(k, v)
      PROVE  TypeOK'
  <2>1. [journal[k] EXCEPT !.pending = FALSE] \in Row
    BY <1>0 DEF Row
  <2>2. QED
    BY <1>8, <2>1, PutType DEF MarkProjected
<1>9. QED
  BY <1>2, <1>3, <1>4, <1>5, <1>6, <1>7, <1>8

(* The table is well formed in every reachable state. *)
THEOREM TypeCorrect == Spec => []TypeOK
<1>1. Init => TypeOK
  BY DEF Init, TypeOK, NewRow, Row, States
<1>2. TypeOK /\ [Next]_journal => TypeOK'
  BY TypePreserved
<1>3. QED
  BY <1>1, <1>2, PTL DEF Spec

-----------------------------------------------------------------------------
(* What a step does to the row it writes. *)

\* reserve
Fresh(k, r) ==
  /\ ~Present(k)
  /\ \E q \in Quantities, c \in Capitals, f \in Funds :
       /\ c > 0 => c + Held(AccountOf[k]) <= f
       /\ r = NewRow("RESERVED", q, c)

\* claim_submission, transition, acknowledge, submission_uncertain, mark_projected:
\* no evidence is touched, and only an unfinished row changes its state.
Relabelled(k, r) ==
  /\ Present(k)
  /\ r.qty = journal[k].qty /\ r.cap = journal[k].cap /\ r.seen = journal[k].seen /\ r.recon = journal[k].recon
  /\ r.filled = journal[k].filled /\ r.value = journal[k].value
  /\ r.oid # journal[k].oid =>
       journal[k].oid = NoId /\ \A j \in Mates(k) : journal[j].oid # r.oid
  /\ r.state # journal[k].state =>
       /\ journal[k].state \notin Terminal
       /\ \/ r.state = "SUBMITTING" /\ journal[k].state = "RESERVED"
          \/ r.state \in {"UNKNOWN", "SUBMITTED", "REJECTED", "CANCELLED"}

\* observe_order
Learned(k, r) ==
  /\ Present(k)
  /\ \E e \in Evidence : IdFits(k, e.oid) /\ r = Observed(journal[k], e)

(* The table of allowed transitions leads out of no finished state and into none
   that transition may not set. *)
LEMMA AllowedMoves ==
  ASSUME NEW st \in DOMAIN Allowed, NEW new \in Allowed[st]
  PROVE  st \notin Terminal /\ new \in {"UNKNOWN", "SUBMITTED", "REJECTED", "CANCELLED"}
<1>1. st \in {"RESERVED", "SUBMITTING", "UNKNOWN", "SUBMITTED", "PARTIAL"}
  BY DEF Allowed
<1>2. CASE st = "RESERVED"   BY <1>2 DEF Allowed, Terminal
<1>3. CASE st = "SUBMITTING" BY <1>3 DEF Allowed, Terminal
<1>4. CASE st = "UNKNOWN"    BY <1>4 DEF Allowed, Terminal
<1>5. CASE st = "SUBMITTED"  BY <1>5 DEF Allowed, Terminal
<1>6. CASE st = "PARTIAL"    BY <1>6 DEF Allowed, Terminal
<1>7. QED
  BY <1>1, <1>2, <1>3, <1>4, <1>5, <1>6

(* Every step writes one well-formed row in one of these three ways. *)
LEMMA StepWritesOneRow ==
  ASSUME TypeOK, Next
  PROVE  \E k \in Keys, r \in Row :
           Put(k, r) /\ (Fresh(k, r) \/ Relabelled(k, r) \/ Learned(k, r))
<1> PICK k \in Keys :
           \/ \E q \in Quantities, c \in Capitals, f \in Funds : Reserve(k, q, c, f)
           \/ ClaimSubmission(k)
           \/ \E st \in Settable, oid \in OrderIds \cup {NoId} : Transition(k, st, oid)
           \/ \E oid \in OrderIds : Acknowledge(k, oid)
           \/ SubmissionUncertain(k)
           \/ \E e \in Evidence : ObserveOrder(k, e)
           \/ \E v \in 0..journal[k].version : MarkProjected(k, v)
  BY DEF Next
<1>0. journal[k] \in Row
  BY DEF TypeOK
<1> SUFFICES \E r \in Row : Put(k, r) /\ (Fresh(k, r) \/ Relabelled(k, r) \/ Learned(k, r))
  OBVIOUS
<1>2. ASSUME NEW q \in Quantities, NEW c \in Capitals, NEW f \in Funds, Reserve(k, q, c, f)
      PROVE  \E r \in Row : Put(k, r) /\ Fresh(k, r)
  <2>1. NewRow("RESERVED", q, c) \in Row
    BY AmountsAssumption DEF NewRow, Row, States, Unresolved
  <2>2. QED
    BY <1>2, <2>1 DEF Reserve, Fresh
<1>3. CASE ClaimSubmission(k)
  <2> DEFINE s == [journal[k] EXCEPT !.state = "SUBMITTING"]
  <2>1. s \in Row
    BY <1>0 DEF Row, States, Unresolved
  <2>2. Relabelled(k, s)
    BY <1>0, <1>3 DEF ClaimSubmission, Claimable, Relabelled, Present, Row, Terminal
  <2>3. QED
    BY <1>3, <2>1, <2>2 DEF ClaimSubmission
<1>4. ASSUME NEW st \in Settable, NEW oid \in OrderIds \cup {NoId}, Transition(k, st, oid)
      PROVE  \E r \in Row : Put(k, r) /\ Relabelled(k, r)
  <2> DEFINE s == [journal[k] EXCEPT !.state = st, !.oid = BoundId(k, oid)]
  <2>1. st \in States /\ BoundId(k, oid) \in OrderIds \cup {NoId}
    BY <1>0 DEF Settable, States, Unresolved, Terminal, BoundId, Row
  <2>2. /\ s \in Row /\ s.state = st /\ s.oid = BoundId(k, oid) /\ s.qty = journal[k].qty
        /\ s.cap = journal[k].cap /\ s.seen = journal[k].seen /\ s.recon = journal[k].recon
        /\ s.filled = journal[k].filled /\ s.value = journal[k].value
    BY <1>0, <2>1 DEF Row
  <2>3. st # journal[k].state =>
          /\ journal[k].state \notin Terminal
          /\ st \in {"UNKNOWN", "SUBMITTED", "REJECTED", "CANCELLED"}
    BY <1>4, AllowedMoves DEF Transition, MayBecome
  <2>4. BoundId(k, oid) # journal[k].oid =>
          journal[k].oid = NoId /\ \A j \in Mates(k) : journal[j].oid # BoundId(k, oid)
    BY <1>4 DEF Transition, IdFits, BoundId
  <2>5. Relabelled(k, s)
    <3> HIDE DEF s
    <3> QED BY <1>4, <2>2, <2>3, <2>4 DEF Relabelled, Transition
  <2>6. QED
    BY <1>4, <2>2, <2>5 DEF Transition
<1>5. ASSUME NEW oid \in OrderIds, Acknowledge(k, oid)
      PROVE  \E r \in Row : Put(k, r) /\ Relabelled(k, r)
  <2> DEFINE st == IF journal[k].state \in {"SUBMITTING", "UNKNOWN"} THEN "SUBMITTED"
                   ELSE journal[k].state
             s  == [journal[k] EXCEPT !.state = st, !.oid = oid]
  <2>1. st \in States /\ (st # journal[k].state => st = "SUBMITTED" /\ journal[k].state \notin Terminal)
    BY <1>0 DEF Row, States, Unresolved, Terminal
  <2>2. /\ s \in Row /\ s.state = st /\ s.oid = oid /\ s.qty = journal[k].qty
        /\ s.cap = journal[k].cap /\ s.seen = journal[k].seen /\ s.recon = journal[k].recon
        /\ s.filled = journal[k].filled /\ s.value = journal[k].value
    <3> HIDE DEF st
    <3> QED BY <1>0, <2>1 DEF Row
  <2>3. oid # journal[k].oid =>
          journal[k].oid = NoId /\ \A j \in Mates(k) : journal[j].oid # oid
    BY <1>5, NamesAssumption DEF Acknowledge, IdFits, BoundId
  <2>4. Put(k, s)
    BY <1>5 DEF Acknowledge
  <2>5. Relabelled(k, s)
    <3> HIDE DEF s, st
    <3> QED BY <1>5, <2>1, <2>2, <2>3 DEF Relabelled, Acknowledge
  <2>6. QED
    <3> HIDE DEF s
    <3> QED BY <2>2, <2>4, <2>5
<1>6. CASE SubmissionUncertain(k)
  <2> DEFINE s == [journal[k] EXCEPT !.state = "UNKNOWN"]
  <2>1. s \in Row
    BY <1>0 DEF Row, States, Unresolved
  <2>2. Relabelled(k, s)
    BY <1>0, <1>6 DEF SubmissionUncertain, Relabelled, Present, Row, Terminal
  <2>3. QED
    BY <1>6, <2>1, <2>2 DEF SubmissionUncertain
<1>7. ASSUME NEW e \in Evidence, ObserveOrder(k, e)
      PROVE  \E r \in Row : Put(k, r) /\ Learned(k, r)
  BY <1>0, <1>7, ObservedType DEF ObserveOrder, Learned
<1>8. ASSUME NEW v \in 0..journal[k].version, MarkProjected(k, v)
      PROVE  \E r \in Row : Put(k, r) /\ Relabelled(k, r)
  <2> DEFINE s == [journal[k] EXCEPT !.pending = FALSE]
  <2>1. s \in Row
    BY <1>0 DEF Row
  <2>2. Relabelled(k, s)
    BY <1>0, <1>8 DEF Relabelled, MarkProjected, Row
  <2>3. QED
    BY <1>8, <2>1, <2>2 DEF MarkProjected
<1>9. QED
  BY <1>2, <1>3, <1>4, <1>5, <1>6, <1>7, <1>8

-----------------------------------------------------------------------------
(* One owner per order. *)

(* Binding an id to a row keeps the owners of an account's orders distinct. *)
LEMMA OwnersPreserved ==
  ASSUME TypeOK, OneOwnerPerOrder, [Next]_journal
  PROVE  OneOwnerPerOrder'
<1>1. CASE UNCHANGED journal
  BY <1>1 DEF OneOwnerPerOrder
<1>2. CASE Next
  <2>1. PICK k \in Keys, r \in Row :
          Put(k, r) /\ (Fresh(k, r) \/ Relabelled(k, r) \/ Learned(k, r))
    BY <1>2, StepWritesOneRow
  <2>2. /\ journal'[k] = r
        /\ \A j \in Keys : j # k => journal'[j] = journal[j]
    BY <2>1 DEF Put, TypeOK
  <2>3. \/ r.oid = NoId \/ r.oid = journal[k].oid
        \/ \A j \in Mates(k) : journal[j].oid # r.oid
    <3>1. CASE Fresh(k, r)
      BY <3>1 DEF Fresh, NewRow
    <3>2. CASE Relabelled(k, r)
      BY <3>2 DEF Relabelled
    <3>3. CASE Learned(k, r)
      <4>1. PICK e \in Evidence : IdFits(k, e.oid) /\ r = Observed(journal[k], e)
        BY <3>3 DEF Learned
      <4>2. r.oid = e.oid \/ r.oid = journal[k].oid
        BY <4>1 DEF Observed
      <4>3. e.oid \in OrderIds /\ e.oid # NoId
        BY EvidenceAssumption, NamesAssumption
      <4>4. QED
        BY <4>1, <4>2, <4>3 DEF IdFits, BoundId
    <3>4. QED
      BY <2>1, <3>1, <3>2, <3>3
  <2>4. QED
    BY <2>2, <2>3, NamesAssumption DEF OneOwnerPerOrder, Mates
<1>3. QED
  BY <1>1, <1>2

(* A broker order belongs to at most one intent of its account, for every set of
   keys and ids and every order of acknowledgements, transitions and postbacks. *)
THEOREM OwnershipUnique == Spec => []OneOwnerPerOrder
<1>1. Init => OneOwnerPerOrder
  BY DEF Init, OneOwnerPerOrder, NewRow
<1>2. TypeOK /\ OneOwnerPerOrder /\ [Next]_journal => OneOwnerPerOrder'
  BY OwnersPreserved
<1>3. QED
  BY <1>1, <1>2, TypeCorrect, PTL DEF Spec

-----------------------------------------------------------------------------
(* Evidence. *)

\* A row with its evidence: the inductive form of EvidenceNeverLost and
\* FillsAreEvidenced, with what they need to know of a missing row.
SoundRow(r) ==
  /\ r.state = "ABSENT" => r.filled = 0 /\ r.value = 0 /\ ~r.recon
  /\ r.filled <= r.qty
  /\ r.filled > 0 => \E e \in r.seen : e.filled = r.filled /\ e.value = r.value
  /\ r.state = "FILLED" => r.filled = r.qty
  /\ \A e \in r.seen :
       r.recon \/
       ( /\ e.filled <= r.filled
         /\ e.filled = r.filled => e.value = r.value
         /\ IsFinal(e) /\ e.filled = r.filled => r.state = FinalState[e.status] )

SoundRows == \A k \in Keys : SoundRow(journal[k])

(* The three ways a piece of evidence can be received. *)
LEMMA Verdicts ==
  ASSUME NEW r \in Row, NEW e \in Evidence
  PROVE  \/ /\ Conflict(r, e)
            /\ Observed(r, e).recon
            /\ Observed(r, e).state = r.state
            /\ Observed(r, e).filled = r.filled /\ Observed(r, e).value = r.value
         \/ /\ Accepted(r, e) /\ ~r.recon /\ ~Observed(r, e).recon
            /\ r.state \notin Terminal
            /\ Observed(r, e).state = Target(e)
            /\ Observed(r, e).filled = e.filled /\ Observed(r, e).value = e.value
            /\ e.filled <= r.qty /\ e.filled >= r.filled
            /\ e.status = "COMPLETE" => e.filled = r.qty
            /\ e.filled = r.filled => e.value = r.value
            /\ e.filled > r.filled => e.value > r.value
         \/ /\ ~r.recon /\ ~Observed(r, e).recon
            /\ Observed(r, e).state = r.state
            /\ Observed(r, e).filled = r.filled /\ Observed(r, e).value = r.value
            /\ \/ e.filled < r.filled
               \/ /\ e.filled = r.filled /\ e.value = r.value
                  /\ IsFinal(e) => r.state = FinalState[e.status]
<1>1. e \in [oid : OrderIds, status : BrokerStatuses, filled : Nat, value : Nat]
  BY EvidenceAssumption
<1>2. r.filled \in Nat /\ r.value \in Nat /\ r.qty \in Nat /\ r.recon \in BOOLEAN
  BY DEF Row
<1>3. CASE Conflict(r, e)
  BY <1>3, <1>2 DEF Observed, Accepted
<1>4. CASE Accepted(r, e)
  <2>1. ~Conflict(r, e) /\ ~Older(r, e) /\ r.state \notin Terminal
    BY <1>4 DEF Accepted
  <2>2. /\ ~r.recon /\ ~(e.filled > r.qty)
        /\ ~(e.status = "COMPLETE" /\ e.filled # r.qty)
        /\ ~(e.filled = r.filled /\ e.value # r.value)
        /\ ~(e.filled > r.filled /\ e.value <= r.value)
    BY <2>1 DEF Conflict
  <2>3. /\ e.filled <= r.qty /\ e.filled >= r.filled
        /\ e.filled > r.filled => e.value > r.value
    BY <1>1, <1>2, <2>1, <2>2 DEF Older
  <2>4. /\ ~Observed(r, e).recon /\ Observed(r, e).state = Target(e)
        /\ Observed(r, e).filled = e.filled /\ Observed(r, e).value = e.value
    BY <1>4, <2>1, <2>2 DEF Observed
  <2>5. QED
    BY <1>4, <2>1, <2>2, <2>3, <2>4
<1>5. CASE ~Conflict(r, e) /\ ~Accepted(r, e)
  <2>1. ~r.recon
    BY <1>5 DEF Conflict
  <2>2. /\ ~Observed(r, e).recon /\ Observed(r, e).state = r.state
        /\ Observed(r, e).filled = r.filled /\ Observed(r, e).value = r.value
    BY <1>5, <2>1 DEF Observed
  <2>3. CASE Older(r, e)
    BY <2>1, <2>2, <2>3 DEF Older
  <2>4. CASE ~Older(r, e)
    <3>1. r.state \in Terminal
      BY <1>5, <2>4 DEF Accepted
    <3>2. /\ ~(e.filled = r.filled /\ e.value # r.value)
          /\ ~TerminalConflict(r, e)
      BY <1>5, <2>4 DEF Conflict
    <3>3. /\ ~(e.filled > r.filled)
          /\ IsFinal(e) => r.state = FinalState[e.status]
      BY <3>1, <3>2 DEF TerminalConflict
    <3>4. e.filled = r.filled
      BY <1>1, <1>2, <2>4, <3>3 DEF Older
    <3>5. QED
      BY <2>1, <2>2, <3>2, <3>3, <3>4
  <2>5. QED
    BY <2>3, <2>4
<1>6. QED
  BY <1>3, <1>4, <1>5

(* What is unchanged by any evidence. *)
LEMMA ObservedKeeps ==
  ASSUME NEW r \in Row, NEW e \in Evidence
  PROVE  /\ Observed(r, e).qty = r.qty
         /\ Observed(r, e).cap = r.cap
         /\ Observed(r, e).seen = r.seen \cup {e}
  BY DEF Observed

(* The state a final status leads to is a finished state; any other is not. *)
LEMMA Targets ==
  ASSUME NEW e \in Evidence
  PROVE  /\ IsFinal(e) => Target(e) = FinalState[e.status] /\ Target(e) \in Terminal
         /\ Target(e) = "FILLED" => e.status = "COMPLETE"
         /\ Target(e) \notin {"ABSENT", "RESERVED", "SUBMITTING", "UNKNOWN"}
<1>1. CASE IsFinal(e)
  <2>1. e.status \in {"COMPLETE", "CANCELLED", "REJECTED"}
    BY <1>1 DEF IsFinal, FinalState
  <2>2. Target(e) = FinalState[e.status]
    BY <1>1 DEF Target
  <2>3. CASE e.status = "COMPLETE"
    BY <2>2, <2>3 DEF FinalState, Terminal
  <2>4. CASE e.status = "CANCELLED"
    BY <2>2, <2>4 DEF FinalState, Terminal
  <2>5. CASE e.status = "REJECTED"
    BY <2>2, <2>5 DEF FinalState, Terminal
  <2>6. QED
    BY <2>1, <2>2, <2>3, <2>4, <2>5
<1>2. CASE ~IsFinal(e)
  BY <1>2 DEF Target
<1>3. QED
  BY <1>1, <1>2

(* A final status names a finished state. *)
LEMMA FinalStates ==
  ASSUME NEW e \in Evidence, IsFinal(e)
  PROVE  FinalState[e.status] \in Terminal
  BY Targets

(* A new row is sound. *)
LEMMA FreshSound ==
  ASSUME NEW k \in Keys, NEW r \in Row, Fresh(k, r)
  PROVE  SoundRow(r)
  BY AmountsAssumption DEF Fresh, NewRow, SoundRow

(* A row whose evidence no call touched stays sound: only an unfinished row moves,
   and a final status it had covered would have finished it. *)
LEMMA RelabelledSound ==
  ASSUME NEW k \in Keys, journal[k] \in Row, SoundRow(journal[k]),
         NEW r \in Row, Relabelled(k, r)
  PROVE  SoundRow(r)
<1>1. /\ r.qty = journal[k].qty /\ r.seen = journal[k].seen /\ r.recon = journal[k].recon
      /\ r.filled = journal[k].filled /\ r.value = journal[k].value
  BY DEF Relabelled
<1>2. r.state # "ABSENT"
  BY DEF Relabelled, Present
<1>3. r.state = "FILLED" => journal[k].state = "FILLED"
  BY DEF Relabelled
<1>4. ASSUME NEW e \in r.seen, ~r.recon
      PROVE  /\ e.filled <= r.filled
             /\ e.filled = r.filled => e.value = r.value
             /\ IsFinal(e) /\ e.filled = r.filled => r.state = FinalState[e.status]
  <2>1. /\ e.filled <= r.filled
        /\ e.filled = r.filled => e.value = r.value
        /\ IsFinal(e) /\ e.filled = r.filled => journal[k].state = FinalState[e.status]
    BY <1>1, <1>4 DEF SoundRow
  <2>2. e \in Evidence
    BY <1>1, <1>4 DEF Row
  <2>3. r.state # journal[k].state => journal[k].state \notin Terminal
    BY DEF Relabelled
  <2>4. QED
    BY <2>1, <2>2, <2>3, FinalStates
<1>5. QED
  BY <1>1, <1>2, <1>3, <1>4 DEF SoundRow

(* A sound row that receives evidence stays sound. *)
LEMMA LearnedSound ==
  ASSUME NEW r \in Row, SoundRow(r), r.state # "ABSENT", NEW e \in Evidence
  PROVE  SoundRow(Observed(r, e))
<1> DEFINE s == Observed(r, e)
<1>0. s.qty = r.qty /\ s.seen = r.seen \cup {e} /\ s \in Row
  BY ObservedKeeps, ObservedType
<1>1. /\ r.filled \in Nat /\ r.value \in Nat /\ r.qty \in Nat /\ r.seen \subseteq Evidence
      /\ e.filled \in Nat /\ e.value \in Nat
  BY EvidenceAssumption DEF Row
<1>2. /\ r.filled <= r.qty
      /\ r.filled > 0 => \E d \in r.seen : d.filled = r.filled /\ d.value = r.value
      /\ r.state = "FILLED" => r.filled = r.qty
  BY DEF SoundRow
<1>3. ASSUME ~r.recon, NEW d \in r.seen
      PROVE  /\ d.filled <= r.filled /\ d.filled \in Nat /\ d \in Evidence
             /\ d.filled = r.filled => d.value = r.value
             /\ IsFinal(d) /\ d.filled = r.filled => r.state = FinalState[d.status]
  BY <1>1, <1>3, EvidenceAssumption DEF SoundRow
<1> SUFFICES SoundRow(s)
  OBVIOUS
<1> HIDE DEF s
<1>4. CASE /\ s.recon /\ s.state = r.state
           /\ s.filled = r.filled /\ s.value = r.value
  BY <1>0, <1>2, <1>4 DEF SoundRow
<1>5. CASE /\ ~r.recon /\ ~s.recon
           /\ r.state \notin Terminal /\ s.state = Target(e)
           /\ s.filled = e.filled /\ s.value = e.value
           /\ e.filled <= r.qty /\ e.filled >= r.filled
           /\ e.status = "COMPLETE" => e.filled = r.qty
           /\ e.filled = r.filled => e.value = r.value
  <2>1. ASSUME NEW d \in s.seen
        PROVE  /\ d.filled <= s.filled
               /\ d.filled = s.filled => d.value = s.value
               /\ IsFinal(d) /\ d.filled = s.filled => s.state = FinalState[d.status]
    <3>1. CASE d = e
      BY <1>1, <1>5, <3>1, Targets
    <3>2. CASE d \in r.seen
      <4>1. /\ d.filled <= r.filled /\ d.filled \in Nat /\ d \in Evidence
            /\ d.filled = r.filled => d.value = r.value
            /\ IsFinal(d) /\ d.filled = r.filled => r.state = FinalState[d.status]
        BY <1>3, <1>5, <3>2
      <4>2. d.filled <= s.filled /\ (d.filled = s.filled => d.filled = r.filled /\ e.filled = r.filled)
        BY <1>1, <1>5, <4>1
      <4>3. ~(IsFinal(d) /\ d.filled = r.filled)
        BY <1>5, <4>1, FinalStates
      <4>4. QED
        BY <1>5, <4>1, <4>2, <4>3
    <3>3. QED
      BY <1>0, <2>1, <3>1, <3>2
  <2>2. s.filled <= s.qty
    BY <1>0, <1>5
  <2>3. s.state # "ABSENT" /\ (s.state = "FILLED" => s.filled = s.qty)
    BY <1>0, <1>5, Targets
  <2>4. e \in s.seen
    BY <1>0
  <2>5. QED
    BY <1>5, <2>1, <2>2, <2>3, <2>4 DEF SoundRow
<1>6. CASE /\ ~r.recon /\ ~s.recon
           /\ s.state = r.state /\ s.filled = r.filled /\ s.value = r.value
           /\ \/ e.filled < r.filled
              \/ /\ e.filled = r.filled /\ e.value = r.value
                 /\ IsFinal(e) => r.state = FinalState[e.status]
  <2>1. ASSUME NEW d \in s.seen
        PROVE  /\ d.filled <= s.filled
               /\ d.filled = s.filled => d.value = s.value
               /\ IsFinal(d) /\ d.filled = s.filled => s.state = FinalState[d.status]
    <3>1. CASE d = e
      BY <1>1, <1>6, <3>1
    <3>2. CASE d \in r.seen
      BY <1>3, <1>6, <3>2
    <3>3. QED
      BY <1>0, <2>1, <3>1, <3>2
  <2>2. QED
    BY <1>0, <1>2, <1>6, <2>1 DEF SoundRow
<1>7. QED
  BY <1>4, <1>5, <1>6, Verdicts DEF s

(* Soundness of the rows is inductive. *)
LEMMA SoundPreserved ==
  ASSUME TypeOK, SoundRows, [Next]_journal
  PROVE  SoundRows'
<1>1. CASE UNCHANGED journal
  BY <1>1 DEF SoundRows
<1>2. CASE Next
  <2>1. PICK k \in Keys, r \in Row :
          Put(k, r) /\ (Fresh(k, r) \/ Relabelled(k, r) \/ Learned(k, r))
    BY <1>2, StepWritesOneRow
  <2>2. /\ journal'[k] = r
        /\ \A j \in Keys : j # k => journal'[j] = journal[j]
    BY <2>1 DEF Put, TypeOK
  <2>3. journal[k] \in Row /\ SoundRow(journal[k])
    BY DEF TypeOK, SoundRows
  <2>4. SoundRow(r)
    BY <2>1, <2>3, FreshSound, RelabelledSound, LearnedSound DEF Learned, Present
  <2>5. QED
    BY <2>2, <2>4 DEF SoundRows
<1>3. QED
  BY <1>1, <1>2

(* The rows are sound in every reachable state. *)
LEMMA RowsSound == Spec => []SoundRows
<1>1. Init => SoundRows
  BY DEF Init, SoundRows, SoundRow, NewRow
<1>2. TypeOK /\ SoundRows /\ [Next]_journal => SoundRows'
  BY SoundPreserved
<1>3. QED
  BY <1>1, <1>2, TypeCorrect, PTL DEF Spec

(* Nothing the broker said is lost: it is in the row, or the row is quarantined. *)
THEOREM EvidenceKept == Spec => []EvidenceNeverLost
<1>1. SoundRows => EvidenceNeverLost
  BY DEF SoundRows, SoundRow, EvidenceNeverLost
<1>2. QED
  BY <1>1, RowsSound, PTL

(* The journal reports no fill the broker did not report. *)
THEOREM FillsEvidenced == Spec => []FillsAreEvidenced
<1>1. SoundRows => FillsAreEvidenced
  BY DEF SoundRows, SoundRow, FillsAreEvidenced
<1>2. QED
  BY <1>1, RowsSound, PTL

-----------------------------------------------------------------------------
(* Histories. *)

(* No step lowers a fill, reopens a claim or rewrites a finished row. *)
LEMMA StepsRespectHistory ==
  ASSUME TypeOK, SoundRows, [Next]_journal
  PROVE  [FillsOnlyGrow]_journal /\ [NeverReclaimed]_journal /\ [HistoryStands]_journal
<1>1. CASE UNCHANGED journal
  BY <1>1
<1>2. CASE Next
  <2>1. PICK k \in Keys, r \in Row :
          Put(k, r) /\ (Fresh(k, r) \/ Relabelled(k, r) \/ Learned(k, r))
    BY <1>2, StepWritesOneRow
  <2>2. /\ journal'[k] = r
        /\ \A j \in Keys : j # k => journal'[j] = journal[j]
    BY <2>1 DEF Put, TypeOK
  <2>3. \A j \in Keys : journal[j] \in Row /\ journal[j].filled \in Nat /\ journal[j].value \in Nat
    BY DEF TypeOK, Row
  <2> DEFINE Good(o) ==
        /\ r.filled >= o.filled
        /\ r.filled > o.filled => r.value > o.value
        /\ r.filled = o.filled => r.value = o.value
        /\ o.state \notin {"ABSENT", "RESERVED"} =>
             /\ r.state \notin {"ABSENT", "RESERVED"}
             /\ r.state = "SUBMITTING" => o.state = "SUBMITTING"
        /\ o.state \in Terminal => r.state = o.state /\ r.filled = o.filled
        /\ o.recon => r.recon /\ r.filled = o.filled
  <2>4. Good(journal[k])
    <3>1. CASE Fresh(k, r)
      <4>1. journal[k].state = "ABSENT" /\ journal[k].filled = 0 /\ journal[k].value = 0
            /\ ~journal[k].recon
        BY <3>1 DEF Fresh, Present, SoundRows, SoundRow
      <4>2. r.filled = 0 /\ r.value = 0
        BY <3>1 DEF Fresh, NewRow
      <4>3. QED
        BY <4>1, <4>2 DEF Terminal
    <3>2. CASE Relabelled(k, r)
      BY <2>3, <3>2 DEF Relabelled
    <3>3. CASE Learned(k, r)
      <4>1. PICK e \in Evidence : r = Observed(journal[k], e)
        BY <3>3 DEF Learned
      <4>2. e.filled \in Nat /\ e.value \in Nat
        BY EvidenceAssumption
      <4>3. journal[k].recon => Conflict(journal[k], e)
        BY DEF Conflict
      <4>4. Target(e) \notin {"ABSENT", "RESERVED", "SUBMITTING"}
        BY Targets
      <4>5. \/ /\ r.recon /\ r.state = journal[k].state
               /\ r.filled = journal[k].filled /\ r.value = journal[k].value
            \/ /\ ~journal[k].recon /\ journal[k].state \notin Terminal
               /\ r.state = Target(e) /\ r.filled = e.filled /\ r.value = e.value
               /\ e.filled >= journal[k].filled
               /\ e.filled = journal[k].filled => e.value = journal[k].value
               /\ e.filled > journal[k].filled => e.value > journal[k].value
            \/ /\ ~journal[k].recon /\ r.state = journal[k].state
               /\ r.filled = journal[k].filled /\ r.value = journal[k].value
        BY <2>3, <4>1, Verdicts
      <4>6. QED
        BY <2>3, <4>2, <4>4, <4>5
    <3>4. QED
      BY <2>1, <3>1, <3>2, <3>3
  <2>5. ASSUME NEW j \in Keys
        PROVE  /\ journal'[j].filled >= journal[j].filled
               /\ journal'[j].filled > journal[j].filled => journal'[j].value > journal[j].value
               /\ journal'[j].filled = journal[j].filled => journal'[j].value = journal[j].value
    BY <2>2, <2>3, <2>4
  <2>6. NeverReclaimed /\ HistoryStands
    BY <2>2, <2>4 DEF NeverReclaimed, HistoryStands
  <2>7. QED
    BY <2>5, <2>6 DEF FillsOnlyGrow
<1>3. QED
  BY <1>1, <1>2

(* Filled quantity and value never shrink, whatever order evidence arrives in. *)
THEOREM FillsGrow == Spec => FillsOnlyGrowProperty
<1>1. TypeOK /\ SoundRows /\ [Next]_journal => [FillsOnlyGrow]_journal
  BY StepsRespectHistory
<1>2. QED
  BY <1>1, TypeCorrect, RowsSound, PTL DEF Spec, FillsOnlyGrowProperty

(* An intent is claimed at most once in its life. *)
THEOREM ClaimedOnce == Spec => NeverReclaimedProperty
<1>1. TypeOK /\ SoundRows /\ [Next]_journal => [NeverReclaimed]_journal
  BY StepsRespectHistory
<1>2. QED
  BY <1>1, TypeCorrect, RowsSound, PTL DEF Spec, NeverReclaimedProperty

(* Finished and quarantined rows keep what they recorded. *)
THEOREM HistoryKept == Spec => HistoryStandsProperty
<1>1. TypeOK /\ SoundRows /\ [Next]_journal => [HistoryStands]_journal
  BY StepsRespectHistory
<1>2. QED
  BY <1>1, TypeCorrect, RowsSound, PTL DEF Spec, HistoryStandsProperty

-----------------------------------------------------------------------------
(* Capital. *)

\* The intents of account a that may still become, or are, an order.
Live(a) == {k \in Keys : AccountOf[k] = a /\ journal[k].state \in Unresolved}

(* The amounts added up are natural numbers, and of finitely many rows. *)
LEMMA CapitalTypes ==
  ASSUME TypeOK
  PROVE  /\ \A k \in Keys : [j \in Keys |-> journal[j].cap][k] \in Nat
         /\ \A S \in SUBSET Keys : IsFiniteSet(S) /\ Capital(S) \in Nat
<1>1. \A k \in Keys : [j \in Keys |-> journal[j].cap][k] \in Nat
  BY DEF TypeOK, Row
<1>2. \A S \in SUBSET Keys : IsFiniteSet(S)
  BY FiniteAssumption, FS_Subset
<1>3. \A S \in SUBSET Keys : Capital(S) \in Nat
  BY <1>1, <1>2, SumNonNegative DEF Capital
<1>4. QED
  BY <1>1, <1>2, <1>3

(* Fewer rows hold at most as much. *)
LEMMA CapitalMonotone ==
  ASSUME TypeOK, NEW S \in SUBSET Keys, NEW T \in SUBSET S
  PROVE  Capital(T) <= Capital(S)
<1>1. IsFiniteSet(S) /\ \A k \in S : [j \in Keys |-> journal[j].cap][k] \in Nat
  BY CapitalTypes
<1>2. QED
  BY <1>1, SumMonotone DEF Capital

(* A step leaves the live intents of an account as they are or fewer, each with
   its amount, except a reservation, which adds one. *)
LEMMA LiveSteps ==
  ASSUME TypeOK, Next, NEW a \in Accounts
  PROVE  \/ /\ Live(a)' \subseteq Live(a)
            /\ \A k \in Live(a)' : journal'[k].cap = journal[k].cap
         \/ \E k \in Keys \ Live(a), f \in Funds :
              /\ Live(a)' = Live(a) \cup {k}
              /\ \A j \in Live(a) : journal'[j].cap = journal[j].cap
              /\ journal'[k].cap = 0 \/ journal'[k].cap + Held(a) <= f
<1>1. PICK k \in Keys, r \in Row :
        Put(k, r) /\ (Fresh(k, r) \/ Relabelled(k, r) \/ Learned(k, r))
  BY StepWritesOneRow
<1>2. /\ journal'[k] = r
      /\ \A j \in Keys : j # k => journal'[j] = journal[j]
  BY <1>1 DEF Put, TypeOK
<1>3. journal[k] \in Row
  BY DEF TypeOK
<1>4. CASE Fresh(k, r) /\ AccountOf[k] = a
  <2>1. PICK q \in Quantities, c \in Capitals, f \in Funds :
          /\ c > 0 => c + Held(a) <= f
          /\ r = NewRow("RESERVED", q, c)
    BY <1>4 DEF Fresh
  <2>2. r.cap = c /\ r.state = "RESERVED" /\ c \in Nat
    BY <2>1, AmountsAssumption DEF NewRow
  <2>3. journal[k].state \notin Unresolved
    BY <1>4 DEF Fresh, Present, Unresolved
  <2>4. k \notin Live(a) /\ Live(a)' = Live(a) \cup {k}
    BY <1>2, <1>4, <2>2, <2>3 DEF Live, Unresolved
  <2>5. r.cap = 0 \/ r.cap + Held(a) <= f
    BY <2>1, <2>2
  <2>6. \A j \in Live(a) : journal'[j].cap = journal[j].cap
    BY <1>2, <2>4 DEF Live
  <2>7. QED
    BY <1>2, <2>4, <2>5, <2>6
<1>5. CASE Fresh(k, r) /\ AccountOf[k] # a
  BY <1>2, <1>5 DEF Live
<1>6. CASE ~Fresh(k, r)
  <2>1. r.cap = journal[k].cap /\ (r.state \in Unresolved => journal[k].state \in Unresolved)
    <3>1. CASE Relabelled(k, r)
      BY <1>3, <3>1 DEF Relabelled, Present, Row, States
    <3>2. CASE Learned(k, r)
      <4>1. PICK e \in Evidence : r = Observed(journal[k], e)
        BY <3>2 DEF Learned
      <4>2. r.state = journal[k].state \/ journal[k].state \notin Terminal
        BY <1>3, <4>1, Verdicts
      <4>3. QED
        BY <1>3, <3>2, <4>1, <4>2, ObservedKeeps DEF Learned, Present, Row, States
    <3>3. QED
      BY <1>1, <1>6, <3>1, <3>2
  <2>2. QED
    BY <1>2, <2>1 DEF Live
<1>7. QED
  BY <1>4, <1>5, <1>6

(* The capital of the live intents stays within the most any request presented. *)
LEMMA CapitalPreserved ==
  ASSUME TypeOK, CapitalNeverOversubscribed, [Next]_journal
  PROVE  CapitalNeverOversubscribed'
<1>1. CASE UNCHANGED journal
  BY <1>1 DEF CapitalNeverOversubscribed, Capital
<1>2. CASE Next
  <2> DEFINE most == Max(Funds)
  <2> SUFFICES ASSUME NEW a \in Accounts PROVE Capital(Live(a))' <= most
    BY DEF CapitalNeverOversubscribed, Live
  <2> DEFINE F == [j \in Keys |-> journal[j].cap]
             G == [j \in Keys |-> journal'[j].cap]
  <2>1. Capital(Live(a)) <= most
    BY DEF CapitalNeverOversubscribed, Live
  <2>2. most \in Nat /\ \A f \in Funds : f \in Nat /\ f <= most
    BY FiniteAssumption, AmountsAssumption DEF Max
  <2>3. /\ Live(a) \in SUBSET UnresolvedOf(a) /\ UnresolvedOf(a) \in SUBSET Keys
        /\ Live(a) \in SUBSET Keys
    BY DEF Live, UnresolvedOf, IsUnresolved
  <2>4. \A k \in Keys : F[k] = journal[k].cap /\ G[k] = journal'[k].cap
                         /\ F[k] \in Nat /\ G[k] \in Nat
    <3>1. TypeOK'
      BY TypePreserved
    <3>2. QED
      BY <3>1 DEF TypeOK, Row
  <2>5. Capital(Live(a))' = SumFunctionOnSet(G, Live(a)')
    BY DEF Capital
  <2>6. \A S \in SUBSET Keys : Capital(S) = SumFunctionOnSet(F, S)
    BY DEF Capital
  <2> HIDE DEF F, G, most
  <2>7. ASSUME NEW S \in SUBSET Keys, \A k \in S : journal'[k].cap = journal[k].cap
        PROVE  SumFunctionOnSet(G, S) = Capital(S)
    <3>1. IsFiniteSet(S) /\ \A k \in S : F[k] \in Int /\ F[k] = G[k]
      BY <2>4, <2>7, CapitalTypes
    <3>2. SumFunctionOnSet(F, S) = SumFunctionOnSet(G, S)
      BY <3>1, SumCongruence, Zenon
    <3>3. QED
      BY <2>6, <3>2
  <2>8. CASE /\ Live(a)' \subseteq Live(a)
             /\ \A k \in Live(a)' : journal'[k].cap = journal[k].cap
    <3>1. Live(a)' \in SUBSET Keys
      BY <2>3, <2>8
    <3>2. SumFunctionOnSet(G, Live(a)') = Capital(Live(a)')
      BY <2>7, <2>8, <3>1, Zenon
    <3>3. Capital(Live(a)') <= Capital(Live(a))
      BY <2>3, <2>8, CapitalMonotone
    <3>4. Capital(Live(a)') \in Nat /\ Capital(Live(a)) \in Nat
      BY <2>3, <3>1, CapitalTypes
    <3>5. QED
      BY <2>1, <2>2, <2>5, <3>2, <3>3, <3>4
  <2>9. ASSUME NEW k \in Keys \ Live(a), NEW f \in Funds,
               Live(a)' = Live(a) \cup {k},
               \A j \in Live(a) : journal'[j].cap = journal[j].cap,
               journal'[k].cap = 0 \/ journal'[k].cap + Held(a) <= f
        PROVE  Capital(Live(a))' <= most
    <3>1. IsFiniteSet(Live(a)) /\ \A j \in Live(a) \cup {k} : G[j] \in Int
      BY <2>3, <2>4, <2>9, CapitalTypes
    <3>2. SumFunctionOnSet(G, Live(a) \cup {k}) = G[k] + SumFunctionOnSet(G, Live(a))
      BY <2>9, <3>1, SumInsert
    <3>3. SumFunctionOnSet(G, Live(a)) = Capital(Live(a))
      BY <2>3, <2>7, <2>9, Zenon
    <3>4. Capital(Live(a)) <= Held(a)
      BY <2>3, CapitalMonotone DEF Held
    <3>5. Capital(Live(a)) \in Nat /\ Held(a) \in Nat /\ G[k] \in Nat /\ G[k] = journal'[k].cap
      BY <2>3, <2>4, <2>9, CapitalTypes DEF Held
    <3>6. G[k] + Capital(Live(a)) <= most
      BY <2>1, <2>2, <2>9, <3>4, <3>5
    <3>7. QED
      BY <2>5, <2>9, <3>2, <3>3, <3>6
  <2>10. QED
    BY <1>2, <2>8, <2>9, LiveSteps
<1>3. QED
  BY <1>1, <1>2

(* Capital is never promised twice, for any number of signals and accounts. *)
THEOREM CapitalSafe == Spec => []CapitalNeverOversubscribed
<1>1. Init => CapitalNeverOversubscribed
  <2> SUFFICES ASSUME Init, NEW a \in Accounts PROVE Capital(Live(a)) <= Max(Funds)
    BY DEF CapitalNeverOversubscribed, Live
  <2>1. Live(a) = {}
    BY DEF Init, Live, NewRow, Unresolved
  <2>2. Capital({}) = 0
    BY SumEmpty DEF Capital
  <2>3. Max(Funds) \in Nat
    BY FiniteAssumption, AmountsAssumption DEF Max
  <2>4. QED
    BY <2>1, <2>2, <2>3
<1>2. TypeOK /\ CapitalNeverOversubscribed /\ [Next]_journal => CapitalNeverOversubscribed'
  BY CapitalPreserved
<1>3. QED
  BY <1>1, <1>2, TypeCorrect, PTL DEF Spec
=============================================================================
