---------------------------- MODULE OrderJournal ----------------------------
(***************************************************************************)
(* The durable order-intent table of kite_engine/order_journal.py.  Every  *)
(* function of that file is one SQLite transaction under BEGIN IMMEDIATE,  *)
(* so every function is one atomic action here.                            *)
(*                                                                         *)
(* A row is addressed by its intent key: the hash of user, account,        *)
(* strategy, signal, exchange, symbol and side.  The configuration         *)
(* generation is not part of it, so one key is one signal.                 *)
(*                                                                         *)
(* The module says nothing of who calls the functions, or when: Next calls *)
(* any of them with any argument.  CanonicalExecution composes them with   *)
(* submitters, a broker, postbacks and crashes.                            *)
(***************************************************************************)
EXTENDS Integers, FiniteSetsExt

CONSTANTS
  Keys,        \* intent keys
  Accounts,    \* broker accounts
  AccountOf,   \* the account of a key
  OrderIds,    \* ids the broker gives its orders
  NoId,        \* the empty order id of a row
  Quantities,  \* order quantities a request may carry
  Capitals,    \* capital_required a request may carry
  Funds,       \* available_capital a request may present
  Evidence     \* what the broker may report about an order

BrokerStatuses == {"OPEN", "COMPLETE", "CANCELLED", "REJECTED"}

ASSUME NamesAssumption ==
  /\ AccountOf \in [Keys -> Accounts]
  /\ NoId \notin OrderIds

ASSUME AmountsAssumption ==
  /\ Quantities \subseteq Nat \ {0}
  /\ Capitals \subseteq Nat
  /\ Funds \subseteq Nat

\* A key is a hash, so there are finitely many; and some request presents the
\* most capital.
ASSUME FiniteAssumption ==
  /\ IsFiniteSet(Keys)
  /\ \E most \in Funds : \A f \in Funds : f <= most

\* observe_order refuses a fill without a positive price, and computes the value
\* of no fill as 0.
ASSUME EvidenceAssumption ==
  /\ Evidence \subseteq [oid : OrderIds, status : BrokerStatuses,
                         filled : Nat, value : Nat]
  /\ \A e \in Evidence : e.filled = 0 <=> e.value = 0

VARIABLE journal

-----------------------------------------------------------------------------
(* The rows. *)

Terminal   == {"FILLED", "REJECTED", "CANCELLED"}
Unresolved == {"RESERVED", "SUBMITTING", "UNKNOWN", "SUBMITTED", "PARTIAL"}

\* A key without a row has the state "ABSENT".
States == Terminal \cup Unresolved \cup {"ABSENT"}

\* `seen` is the set of rows of kite_order_observations: a fingerprint is the
\* hash of exactly the fields of the evidence.
Row == [state : States, qty : Nat, cap : Nat, oid : OrderIds \cup {NoId},
        filled : Nat, value : Nat, recon : BOOLEAN, pending : BOOLEAN,
        version : Nat, seen : SUBSET Evidence]

NewRow(st, q, c) ==
  [state |-> st, qty |-> q, cap |-> c, oid |-> NoId, filled |-> 0, value |-> 0,
   recon |-> FALSE, pending |-> FALSE, version |-> 0, seen |-> {}]

Present(k) == journal[k].state # "ABSENT"

Mates(k) == {j \in Keys \ {k} : AccountOf[j] = AccountOf[k]}

IsUnresolved(k) == journal[k].state \in Unresolved \/ journal[k].recon

\* unresolved(uid, account_id) and pending_projection(uid, account_id).
UnresolvedOf(a) == {k \in Keys : AccountOf[k] = a /\ IsUnresolved(k)}
PendingOf(a)    == {k \in Keys : AccountOf[k] = a /\ journal[k].pending}

Capital(S) == SumFunctionOnSet([k \in Keys |-> journal[k].cap], S)

\* Mutant: a reservation nobody claimed yet holds no capital.
Held_SkipReserved(a) == Capital({k \in UnresolvedOf(a) : journal[k].state # "RESERVED"})

Held(a) == Capital(UnresolvedOf(a))

Init == journal = [k \in Keys |-> NewRow("ABSENT", 0, 0)]

-----------------------------------------------------------------------------
(* One action per function. *)

\* The UPDATE or INSERT that ends a transaction.
Put(k, r) == journal' = [journal EXCEPT ![k] = r]

\* An existing row is returned as it is, or the call raises: nothing changes.
Reserve(k, q, c, available) ==
  /\ ~Present(k)
  /\ c > 0 => c + Held(AccountOf[k]) <= available
  /\ Put(k, NewRow("RESERVED", q, c))

Claimable(k) == journal[k].state = "RESERVED" /\ ~journal[k].recon

ClaimSubmission(k) ==
  /\ Claimable(k)
  /\ Put(k, [journal[k] EXCEPT !.state = "SUBMITTING"])

\* _check_order_id: the id the row would carry, and whether it may.
BoundId(k, oid) == IF oid = NoId THEN journal[k].oid ELSE oid

\* Mutant: the id is compared with the row's own id only.
IdFits_OwnRowOnly(k, oid) == journal[k].oid # NoId => BoundId(k, oid) = journal[k].oid

IdFits(k, oid) ==
  /\ journal[k].oid # NoId => BoundId(k, oid) = journal[k].oid
  /\ BoundId(k, oid) # NoId => \A j \in Mates(k) : journal[j].oid # BoundId(k, oid)

\* Mutant: an unknown submission is put back for another attempt.
Allowed_Retry == [RESERVED   |-> {"CANCELLED"},
                  SUBMITTING |-> {"SUBMITTED", "UNKNOWN", "REJECTED"},
                  UNKNOWN    |-> {"RESERVED", "SUBMITTED", "REJECTED", "CANCELLED"},
                  SUBMITTED  |-> {"REJECTED", "CANCELLED", "UNKNOWN"},
                  PARTIAL    |-> {"CANCELLED", "UNKNOWN"}]

Allowed == [RESERVED   |-> {"CANCELLED"},
            SUBMITTING |-> {"SUBMITTED", "UNKNOWN", "REJECTED"},
            UNKNOWN    |-> {"SUBMITTED", "REJECTED", "CANCELLED"},
            SUBMITTED  |-> {"REJECTED", "CANCELLED", "UNKNOWN"},
            PARTIAL    |-> {"CANCELLED", "UNKNOWN"}]

Settable == {"RESERVED", "UNKNOWN", "SUBMITTED", "REJECTED", "CANCELLED"}

MayBecome(k, st) ==
  \/ st = journal[k].state
  \/ journal[k].state \in DOMAIN Allowed /\ st \in Allowed[journal[k].state]

Transition(k, st, oid) ==
  /\ Present(k)
  /\ st \in Settable
  /\ MayBecome(k, st)
  /\ IdFits(k, oid)
  /\ st = "SUBMITTED" => BoundId(k, oid) # NoId
  /\ Put(k, [journal[k] EXCEPT !.state = st, !.oid = BoundId(k, oid)])

Acknowledge(k, oid) ==
  /\ Present(k) /\ journal[k].state # "RESERVED"
  /\ oid # NoId
  /\ IdFits(k, oid)
  /\ Put(k, [journal[k] EXCEPT
               !.state = IF @ \in {"SUBMITTING", "UNKNOWN"} THEN "SUBMITTED" ELSE @,
               !.oid = oid])

\* In any other state the call changes nothing.
SubmissionUncertain(k) ==
  /\ journal[k].state = "SUBMITTING"
  /\ Put(k, [journal[k] EXCEPT !.state = "UNKNOWN"])

-----------------------------------------------------------------------------
(* observe_order: cumulative evidence e about the order of row r. *)

\* Mutant: the broker's word is stored untranslated.
FinalState_Raw == [COMPLETE |-> "COMPLETE", CANCELLED |-> "CANCELLED", REJECTED |-> "REJECTED"]

FinalState == [COMPLETE |-> "FILLED", CANCELLED |-> "CANCELLED", REJECTED |-> "REJECTED"]
IsFinal(e) == e.status \in DOMAIN FinalState

Older(r, e) == e.filled < r.filled

\* Mutant: a late final status never contradicts a finished row.
TerminalConflict_Never(r, e) == FALSE

\* Mutant: late word that the order is open contradicts a finished row, too.
TerminalConflict_NotFinal(r, e) ==
  /\ r.state \in Terminal
  /\ e.filled > r.filled \/ ~IsFinal(e) \/ FinalState[e.status] # r.state

TerminalConflict(r, e) ==
  /\ r.state \in Terminal
  /\ e.filled > r.filled \/ (IsFinal(e) /\ FinalState[e.status] # r.state)

\* The reasons that quarantine the row, in the order the code tries them.
Conflict(r, e) ==
  \/ r.recon                                                \* reconciliation_pending
  \/ r.state = "RESERVED"                                   \* unclaimed_order_evidence
  \/ e.filled > r.qty                                       \* overfilled_order
  \/ e.status = "COMPLETE" /\ e.filled # r.qty              \* incomplete_complete_status
  \/ /\ ~Older(r, e)
     /\ \/ e.filled = r.filled /\ e.value # r.value         \* cumulative_price_correction
        \/ e.filled > r.filled /\ e.value <= r.value        \* nonpositive_incremental_fill_value
        \/ TerminalConflict(r, e)                           \* terminal_order_conflict

\* Mutant: evidence that contradicts nothing is applied to finished rows too.
Accepted_AnyState(r, e) == ~Conflict(r, e) /\ ~Older(r, e)

Accepted(r, e) == ~Conflict(r, e) /\ ~Older(r, e) /\ r.state \notin Terminal

Target(e) ==
  IF IsFinal(e) THEN FinalState[e.status]
  ELSE IF e.filled > 0 THEN "PARTIAL" ELSE "SUBMITTED"

\* Evidence that changes the row leaves it pending projection under a new version;
\* benign evidence is only remembered.
Moves(r, e) == Accepted(r, e) \/ Conflict(r, e)

\* Mutant: the cumulative quantity is added up as if it were one fill.
Observed_Adds(r, e) ==
  [state   |-> IF Accepted(r, e) THEN Target(e) ELSE r.state,
   qty     |-> r.qty,
   cap     |-> r.cap,
   oid     |-> IF Moves(r, e) THEN e.oid ELSE r.oid,
   filled  |-> IF Accepted(r, e) THEN r.filled + e.filled ELSE r.filled,
   value   |-> IF Accepted(r, e) THEN r.value + e.value ELSE r.value,
   recon   |-> r.recon \/ Conflict(r, e),
   pending |-> r.pending \/ Moves(r, e),
   version |-> IF Moves(r, e) THEN r.version + 1 ELSE r.version,
   seen    |-> r.seen \cup {e}]

Observed(r, e) ==
  [state   |-> IF Accepted(r, e) THEN Target(e) ELSE r.state,
   qty     |-> r.qty,
   cap     |-> r.cap,
   oid     |-> IF Moves(r, e) THEN e.oid ELSE r.oid,
   filled  |-> IF Accepted(r, e) THEN e.filled ELSE r.filled,
   value   |-> IF Accepted(r, e) THEN e.value ELSE r.value,
   recon   |-> r.recon \/ Conflict(r, e),
   pending |-> r.pending \/ Moves(r, e),
   version |-> IF Moves(r, e) THEN r.version + 1 ELSE r.version,
   seen    |-> r.seen \cup {e}]

\* Evidence already seen is a duplicate: nothing changes.
ObserveOrder(k, e) ==
  /\ Present(k)
  /\ IdFits(k, e.oid)
  /\ e \notin journal[k].seen
  /\ Put(k, Observed(journal[k], e))

MarkProjected(k, v) ==
  /\ Present(k)
  /\ journal[k].pending /\ journal[k].version = v
  /\ Put(k, [journal[k] EXCEPT !.pending = FALSE])

-----------------------------------------------------------------------------
Next ==
  \E k \in Keys :
    \/ \E q \in Quantities, c \in Capitals, f \in Funds : Reserve(k, q, c, f)
    \/ ClaimSubmission(k)
    \/ \E st \in Settable, oid \in OrderIds \cup {NoId} : Transition(k, st, oid)
    \/ \E oid \in OrderIds : Acknowledge(k, oid)
    \/ SubmissionUncertain(k)
    \/ \E e \in Evidence : ObserveOrder(k, e)
    \/ \E v \in 0..journal[k].version : MarkProjected(k, v)

Spec == Init /\ [][Next]_journal

-----------------------------------------------------------------------------
(* Correctness. *)

\* The table holds one well-formed row per key.
TypeOK == journal \in [Keys -> Row]

\* A broker order is attributed to at most one intent of its account, whatever
\* mixture of acknowledgements, transitions and postbacks binds the ids
\* (order_journal._check_order_id).
OneOwnerPerOrder ==
  \A j, k \in Keys :
    /\ j # k /\ AccountOf[j] = AccountOf[k]
    /\ journal[j].oid # NoId
    => journal[j].oid # journal[k].oid

\* No broker evidence is lost (order_journal.observe_order).  Everything the
\* broker ever said of an order is either contained in the row - its quantity is
\* covered, and a final status at the row's quantity is the row's state - or the
\* row is quarantined for a person to look at.
EvidenceNeverLost ==
  \A k \in Keys : \A e \in journal[k].seen :
    journal[k].recon \/
    ( /\ e.filled <= journal[k].filled
      /\ e.filled = journal[k].filled => e.value = journal[k].value
      /\ IsFinal(e) /\ e.filled = journal[k].filled
           => journal[k].state = FinalState[e.status] )

\* The journal never claims a fill the broker did not report: the quantity and
\* the value of a row are those of one piece of evidence it has seen, and a
\* FILLED row is filled to its last unit (order_journal.observe_order).
FillsAreEvidenced ==
  \A k \in Keys :
    LET r == journal[k] IN
    /\ r.filled <= r.qty
    /\ r.filled > 0 => \E e \in r.seen : e.filled = r.filled /\ e.value = r.value
    /\ r.state = "FILLED" => r.filled = r.qty

\* Capital is never promised twice: if no request ever presents more than
\* the largest of Funds, the unresolved intents of an account together
\* never hold more (order_journal.reserve, "pending account capital").
CapitalNeverOversubscribed ==
  \A a \in Accounts :
    Capital({k \in Keys : AccountOf[k] = a /\ journal[k].state \in Unresolved}) <= Max(Funds)

\* Filled quantity and value only grow, and together, whatever order evidence
\* arrives in (order_journal.observe_order: "Lower cumulative quantity is older
\* evidence").
FillsOnlyGrow ==
  \A k \in Keys :
    /\ journal'[k].filled >= journal[k].filled
    /\ journal'[k].filled > journal[k].filled => journal'[k].value > journal[k].value
    /\ journal'[k].filled = journal[k].filled => journal'[k].value = journal[k].value
FillsOnlyGrowProperty == [][FillsOnlyGrow]_journal

\* An intent is claimed once in its life: after the claim no function brings it
\* back to RESERVED or SUBMITTING, which would let a second sender win
\* (order_journal.claim_submission and transition).
NeverReclaimed ==
  \A k \in Keys :
    journal[k].state \notin {"ABSENT", "RESERVED"} =>
      /\ journal'[k].state \notin {"ABSENT", "RESERVED"}
      /\ journal'[k].state = "SUBMITTING" => journal[k].state = "SUBMITTING"
NeverReclaimedProperty == [][NeverReclaimed]_journal

\* A finished intent stays as it finished, and a quarantined one keeps its state
\* of fill until someone outside the journal acts: late evidence and late callers
\* cannot rewrite history (order_journal.transition and observe_order).
HistoryStands ==
  \A k \in Keys :
    /\ journal[k].state \in Terminal =>
         /\ journal'[k].state = journal[k].state
         /\ journal'[k].filled = journal[k].filled
    /\ journal[k].recon => journal'[k].recon /\ journal'[k].filled = journal[k].filled
HistoryStandsProperty == [][HistoryStands]_journal
=============================================================================
