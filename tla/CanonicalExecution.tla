------------------------- MODULE CanonicalExecution -------------------------
(***************************************************************************)
(* The one path to the broker: CanonicalExecutionService.submit_order, its *)
(* startup_recovery, the broker evidence that execution_lifecycle consumes *)
(* and the operator's switches, composed over the order journal.           *)
(*                                                                         *)
(* A call is one running submit_order, in any process; when it is over the *)
(* same call may be made again.  Its pc is the next durable read, write or *)
(* broker request it makes.  Calls, broker, postbacks, operator and        *)
(* recovery interleave at those points, and a crash forgets everything but *)
(* the journal, the control row, the switches and what is at, or on its    *)
(* way to, the broker.                                                     *)
(***************************************************************************)
EXTENDS OrderJournal

CONSTANTS
  Calls,        \* concurrent calls of submit_order
  KeyOf,        \* the intent key of a call
  Increasing,   \* the keys verify_exposure_effect finds to increase exposure
  OrderIdOf,    \* the id the broker gives the order of a key
  Switches,     \* the operator's switches that may be used
  OneProcess    \* recovery and the calls share one event loop

ASSUME ExecAssumption ==
  /\ KeyOf \in [Calls -> Keys]
  /\ Increasing \subseteq Keys
  /\ OrderIdOf \in [Keys -> OrderIds]
  /\ \A j, k \in Keys : j # k => OrderIdOf[j] # OrderIdOf[k]
  /\ Switches \subseteq {"safe_mode", "operator", "kill_switch"}
  /\ OneProcess \in BOOLEAN

\* What an honest broker reports of an order: price 1, no more than was asked for.
ASSUME ReportsAssumption ==
  \A k \in Keys, st \in BrokerStatuses, q \in Quantities : \A f \in 0..q :
    [oid |-> OrderIdOf[k], status |-> st, filled |-> f, value |-> f] \in Evidence

VARIABLES
  pc,           \* where a call is
  standing,     \* history: the switches on without a break since the call's claim
  switches,     \* the switches that are on
  recovery,     \* recovery_state of an account's execution_control row
  wire,         \* the last place_order request of a key
  orders,       \* how many orders the broker accepted for a key
  book,         \* the broker's order of a key
  feed,         \* everything the broker ever reported, as evidence
  rec,          \* startup_recovery of an account: where it is
  todo,         \* ... the reservations it listed and has not expired yet
  fresh,        \* ... nobody wrote the control row since it read the revision
  flagged       \* history: the keys whose uncertainty reached the control row

callVars    == <<pc, standing>>
controlVars == <<switches, recovery, flagged>>
brokerVars  == <<wire, orders, book, feed>>
recVars     == <<rec, todo, fresh>>
vars == <<journal, callVars, controlVars, brokerVars, recVars>>

NoOrder == [status |-> "none", filled |-> 0]

\* A first startup recovery has found nothing and written CLEAN: without a row of its
\* own the control plane reports RECOVERY_REQUIRED.
ExecInit ==
  /\ Init
  /\ pc = [s \in Calls |-> "idle"]
  /\ standing = [s \in Calls |-> {}]
  /\ switches = {}
  /\ recovery = [a \in Accounts |-> "CLEAN"]
  /\ wire = [k \in Keys |-> "none"]
  /\ orders = [k \in Keys |-> 0]
  /\ book = [k \in Keys |-> NoOrder]
  /\ feed = {}
  /\ rec = [a \in Accounts |-> "idle"]
  /\ todo = [a \in Accounts |-> {}]
  /\ fresh = [a \in Accounts |-> FALSE]
  /\ flagged = {}

Account(s) == AccountOf[KeyOf[s]]

\* The loop of startup_recovery that expires reservations never awaits: in its
\* own process nothing else runs until it has ended.
Free(a) == OneProcess => rec[a] # "expire"

\* Call s is at l and goes on from there.
At(s, l) == pc[s] = l /\ Free(Account(s))

Goto(s, l) == pc' = [pc EXCEPT ![s] = l] /\ UNCHANGED standing

Return(s) ==
  /\ pc' = [pc EXCEPT ![s] = "idle"]
  /\ standing' = [standing EXCEPT ![s] = {}]

-----------------------------------------------------------------------------
(* submit_order. *)

\* An unfinished submission blocks every increase of the account.
Blocks(j) == journal[j].state \in {"SUBMITTING", "UNKNOWN"} \/ journal[j].recon

\* is_trading_allowed, asked at the top of the call.
MayIncrease(k) ==
  /\ switches = {}
  /\ recovery[AccountOf[k]] = "CLEAN"
  /\ \A j \in UnresolvedOf(AccountOf[k]) : ~Blocks(j)

\* Effect, approval, admission and capital evidence are in order; a call that
\* fails one of them returns without a trace.
Admit(s) ==
  /\ At(s, "idle")
  /\ KeyOf[s] \in Increasing => MayIncrease(KeyOf[s])
  /\ Goto(s, "reserve")
  /\ UNCHANGED <<journal, controlVars, brokerVars, recVars>>

\* reserve: a new row, or the existing one; an exception ends the call.
ReserveNew(s) ==
  /\ At(s, "reserve")
  /\ \E q \in Quantities, c \in Capitals, f \in Funds : Reserve(KeyOf[s], q, c, f)
  /\ Goto(s, "claim")
  /\ UNCHANGED <<controlVars, brokerVars, recVars>>

ReserveExisting(s) ==
  /\ At(s, "reserve")
  /\ Present(KeyOf[s])
  /\ journal[KeyOf[s]].state \notin {"SUBMITTED", "FILLED", "PARTIAL"}
  /\ Goto(s, "claim")
  /\ UNCHANGED <<journal, controlVars, brokerVars, recVars>>

ReserveReturns(s) ==
  /\ At(s, "reserve")
  /\ Return(s)
  /\ UNCHANGED <<journal, controlVars, brokerVars, recVars>>

\* Mutant: whoever finds the submission unfinished goes on to send it.
ClaimWon_Any(k) == ClaimSubmission(k) \/ (Blocks(k) /\ UNCHANGED journal)

ClaimWon(k) == ClaimSubmission(k)

Claim(s) ==
  /\ At(s, "claim")
  /\ ClaimWon(KeyOf[s])
  /\ pc' = [pc EXCEPT ![s] = "identity"]
  /\ standing' = [standing EXCEPT ![s] = switches]
  /\ UNCHANGED <<controlVars, brokerVars, recVars>>

ClaimLost(s) ==
  /\ At(s, "claim")
  /\ ~Claimable(KeyOf[s])
  /\ Return(s)
  /\ UNCHANGED <<journal, controlVars, brokerVars, recVars>>

\* The client is there and belongs to the account.
Identified(s) ==
  /\ At(s, "identity")
  /\ Goto(s, IF KeyOf[s] \in Increasing THEN "safe_mode" ELSE "send")
  /\ UNCHANGED <<journal, controlVars, brokerVars, recVars>>

\* The second is_trading_allowed: assert_safe_to_trade reads one store after the
\* other and says no at the first that does.  Its pc names the store.
Gates == {"safe_mode", "journal", "control", "kill_switch"}

After == [safe_mode   |-> "journal",
          journal     |-> "control",
          control     |-> "kill_switch",
          kill_switch |-> "send"]

\* Mutant: the second look at the journal asks for submissions under way only, and
\* leaves uncertain ones to the control row.
Clear_UnknownIgnored(g, k) ==
  /\ g \notin switches
  /\ g = "journal" => \A j \in UnresolvedOf(AccountOf[k]) \ {k} :
       ~(journal[j].state = "SUBMITTING" \/ journal[j].recon)
  /\ g = "control" => "operator" \notin switches /\ recovery[AccountOf[k]] = "CLEAN"

\* Mutant: only the durable stores are asked again.
Clear_DurableOnly(g, k) ==
  /\ g = "safe_mode" => "safe_mode" \notin switches
  /\ g = "journal" => \A j \in UnresolvedOf(AccountOf[k]) \ {k} : ~Blocks(j)
  /\ g = "control" => "operator" \notin switches /\ recovery[AccountOf[k]] = "CLEAN"

Clear(g, k) ==
  /\ g \notin switches
  /\ g = "journal" => \A j \in UnresolvedOf(AccountOf[k]) \ {k} : ~Blocks(j)
  /\ g = "control" => "operator" \notin switches /\ recovery[AccountOf[k]] = "CLEAN"

Pass(s) ==
  /\ pc[s] \in Gates /\ Free(Account(s))
  /\ Clear(pc[s], KeyOf[s])
  /\ Goto(s, After[pc[s]])
  /\ UNCHANGED <<journal, controlVars, brokerVars, recVars>>

\* No client, a client of another account, or a gate that says no.
Withdraw(s) ==
  /\ \/ pc[s] = "identity"
     \/ pc[s] \in Gates /\ ~Clear(pc[s], KeyOf[s])
  /\ Free(Account(s))
  /\ Transition(KeyOf[s], "REJECTED", NoId)
  /\ Return(s)
  /\ UNCHANGED <<controlVars, brokerVars, recVars>>

\* place_order leaves the process.
Send(s) ==
  /\ At(s, "send")
  /\ wire' = [wire EXCEPT ![KeyOf[s]] = "transit"]
  /\ Goto(s, "reply")
  /\ UNCHANGED <<journal, controlVars, orders, book, feed, recVars>>

\* The order id came back.
Acknowledged(s) ==
  /\ At(s, "reply")
  /\ wire[KeyOf[s]] = "accepted"
  /\ Acknowledge(KeyOf[s], OrderIdOf[KeyOf[s]])
  /\ Return(s)
  /\ UNCHANGED <<controlVars, brokerVars, recVars>>

\* A definite rejection came back.
Refused(s) ==
  /\ At(s, "reply")
  /\ wire[KeyOf[s]] = "refused"
  /\ Transition(KeyOf[s], "REJECTED", NoId)
  /\ Return(s)
  /\ UNCHANGED <<controlVars, brokerVars, recVars>>

\* Mutant: a timeout is taken for a rejection.
Uncertain_Rejected(k) == Transition(k, "REJECTED", NoId)

\* Mutant: a timeout makes the intent uncertain, whatever the broker said meanwhile.
Uncertain_TakesBack(k) == Transition(k, "UNKNOWN", NoId)

\* Weaker than what the broker said meanwhile.
Uncertain(k) == SubmissionUncertain(k) \/ (journal[k].state # "SUBMITTING" /\ UNCHANGED journal)

\* Any other failure, at any time: the request may be lost, pending or done.
TimedOut(s) ==
  /\ At(s, "reply")
  /\ Uncertain(KeyOf[s])
  /\ Goto(s, "flag")
  /\ UNCHANGED <<controlVars, brokerVars, recVars>>

\* A write of the account's execution_control row raises its revision.
SetRecovery(a, state) == recovery' = [recovery EXCEPT ![a] = state]

\* set_recovery_state("RECOVERY_REQUIRED"); a failure of it is only logged.
Flag(s) ==
  /\ At(s, "flag")
  /\ \/ /\ SetRecovery(Account(s), "RECOVERY_REQUIRED")
        /\ fresh' = [fresh EXCEPT ![Account(s)] = FALSE]
        /\ flagged' = flagged \cup {KeyOf[s]}
     \/ UNCHANGED <<recovery, fresh, flagged>>
  /\ Return(s)
  /\ UNCHANGED <<journal, switches, brokerVars, rec, todo>>

\* The process of the call dies; the durable rows and the request stay.
Crash(s) ==
  /\ pc[s] # "idle"
  /\ Return(s)
  /\ UNCHANGED <<journal, controlVars, brokerVars, recVars>>

-----------------------------------------------------------------------------
(* The broker, as submit_order and consume_order rely on it: a request is   *)
(* accepted, refused or lost once, perhaps long after its caller gave up.   *)

Told(k, b) == [oid |-> OrderIdOf[k], status |-> b.status, filled |-> b.filled,
               value |-> b.filled]

Report(k, b) ==
  /\ book' = [book EXCEPT ![k] = b]
  /\ feed' = feed \cup {Told(k, b)}

Accept(k) ==
  /\ wire[k] = "transit"
  /\ wire' = [wire EXCEPT ![k] = "accepted"]
  /\ orders' = [orders EXCEPT ![k] = @ + 1]
  /\ Report(k, [status |-> "OPEN", filled |-> 0])
  /\ UNCHANGED <<journal, callVars, controlVars, recVars>>

Refuse(k) ==
  /\ wire[k] = "transit"
  /\ \E w \in {"refused", "lost"} : wire' = [wire EXCEPT ![k] = w]
  /\ UNCHANGED <<journal, callVars, controlVars, orders, book, feed, recVars>>

Progress(k) ==
  /\ book[k].status = "OPEN"
  /\ \E f \in book[k].filled..journal[k].qty :
       \/ f > book[k].filled /\ Report(k, [status |-> "OPEN", filled |-> f])
       \/ f = journal[k].qty /\ Report(k, [status |-> "COMPLETE", filled |-> f])
       \/ f = book[k].filled /\ Report(k, [status |-> "CANCELLED", filled |-> f])
       \/ f = 0 /\ Report(k, [status |-> "REJECTED", filled |-> f])
  /\ UNCHANGED <<journal, callVars, controlVars, wire, orders, recVars>>

-----------------------------------------------------------------------------
(* consume_order, for a postback or an entry of the order book: find matches *)
(* the tag until the id is known, so evidence may overtake the reply.        *)

\* Any report, at any time, any number of times, in any order.
Deliver(k) ==
  /\ Free(AccountOf[k])
  /\ \E e \in feed : e.oid = OrderIdOf[k] /\ ObserveOrder(k, e)
  /\ UNCHANGED <<callVars, controlVars, brokerVars, recVars>>

\* Mutant: only rows that know their order id are looked up.
Candidate_ById(k) == journal[k].oid # NoId /\ (IsUnresolved(k) \/ journal[k].pending)

\* What recover looks for in the order book; a reservation has no order.
Candidate(k) ==
  /\ IsUnresolved(k) \/ journal[k].pending
  /\ journal[k].state # "RESERVED"

Poll(k) ==
  /\ Free(AccountOf[k])
  /\ Candidate(k)
  /\ book[k] # NoOrder
  /\ ObserveOrder(k, Told(k, book[k]))
  /\ UNCHANGED <<callVars, controlVars, brokerVars, recVars>>

\* The end of consume_order, after the registry and the ledger were written: this
\* run's, or a replay's, since evidence stays pending until it is projected.
Project(k) ==
  /\ Free(AccountOf[k])
  /\ ~journal[k].recon
  /\ MarkProjected(k, journal[k].version)
  /\ UNCHANGED <<callVars, controlVars, brokerVars, recVars>>

-----------------------------------------------------------------------------
(* startup_recovery of an account. *)

\* The revision is read, then the unresolved intents.
RecoveryStart(a) ==
  /\ rec[a] = "idle"
  /\ rec' = [rec EXCEPT ![a] = "expire"]
  /\ todo' = [todo EXCEPT ![a] = {k \in UnresolvedOf(a) : journal[k].state = "RESERVED"}]
  /\ fresh' = [fresh EXCEPT ![a] = TRUE]
  /\ UNCHANGED <<journal, callVars, controlVars, brokerVars>>

\* Nobody sent these: they are cancelled one by one.
RecoveryExpire(a) ==
  /\ rec[a] = "expire"
  /\ \E k \in todo[a] :
       /\ Transition(k, "CANCELLED", NoId)
       /\ todo' = [todo EXCEPT ![a] = @ \ {k}]
  /\ UNCHANGED <<callVars, controlVars, brokerVars, rec, fresh>>

Doubtful(a) == UnresolvedOf(a) \cup PendingOf(a)

\* Doubt is written to the control row, and the new revision kept; a failure of it is
\* only logged.
RecoveryAssess(a) ==
  /\ rec[a] = "expire" /\ todo[a] = {}
  /\ rec' = [rec EXCEPT ![a] = "observe"]
  /\ \/ /\ Doubtful(a) # {}
        /\ SetRecovery(a, "RECOVERY_REQUIRED")
        /\ fresh' = [fresh EXCEPT ![a] = TRUE]
     \/ UNCHANGED <<recovery, fresh>>
  /\ UNCHANGED <<journal, callVars, switches, flagged, brokerVars, todo>>

\* recover has polled what it could (Poll); the stores are read again.
RecoveryReread(a) ==
  /\ rec[a] = "observe"
  /\ Doubtful(a) = {}
  /\ rec' = [rec EXCEPT ![a] = "clean"]
  /\ UNCHANGED <<journal, callVars, controlVars, brokerVars, todo, fresh>>

\* Mutant: the write of CLEAN does not compare the revision.
Unchallenged_Always(a) == TRUE

Unchallenged(a) == fresh[a]

RecoveryClean(a) ==
  /\ rec[a] = "clean"
  /\ Unchallenged(a)
  /\ SetRecovery(a, "CLEAN")
  /\ rec' = [rec EXCEPT ![a] = "idle"]
  /\ fresh' = [fresh EXCEPT ![a] = FALSE]
  /\ UNCHANGED <<journal, callVars, switches, flagged, brokerVars, todo>>

\* It finds doubt, loses the revision, raises on an intent it may not cancel, or
\* its process dies.
RecoveryStop(a) ==
  /\ rec[a] # "idle"
  /\ rec' = [rec EXCEPT ![a] = "idle"]
  /\ todo' = [todo EXCEPT ![a] = {}]
  /\ fresh' = [fresh EXCEPT ![a] = FALSE]
  /\ UNCHANGED <<journal, callVars, controlVars, brokerVars>>

-----------------------------------------------------------------------------
(* The operator. *)

\* The operator state lives in the row of the recovery state: it raises the
\* revision.
Touch(x) == fresh' = IF x = "operator" THEN [a \in Accounts |-> FALSE] ELSE fresh

Engage(x) ==
  /\ x \notin switches
  /\ switches' = switches \cup {x}
  /\ Touch(x)
  /\ UNCHANGED <<journal, callVars, recovery, flagged, brokerVars, rec, todo>>

Disengage(x) ==
  /\ x \in switches
  /\ switches' = switches \ {x}
  /\ standing' = [s \in Calls |-> standing[s] \ {x}]
  /\ Touch(x)
  /\ UNCHANGED <<journal, pc, recovery, flagged, brokerVars, rec, todo>>

-----------------------------------------------------------------------------
CallStep(s) ==
  \/ Admit(s)
  \/ ReserveNew(s) \/ ReserveExisting(s) \/ ReserveReturns(s)
  \/ Claim(s) \/ ClaimLost(s)
  \/ Identified(s) \/ Pass(s) \/ Withdraw(s)
  \/ Send(s) \/ Acknowledged(s) \/ Refused(s) \/ TimedOut(s) \/ Flag(s)
  \/ Crash(s)

KeyStep(k) == Accept(k) \/ Refuse(k) \/ Progress(k) \/ Deliver(k) \/ Poll(k) \/ Project(k)

RecoveryStep(a) ==
  \/ RecoveryStart(a) \/ RecoveryExpire(a) \/ RecoveryAssess(a)
  \/ RecoveryReread(a) \/ RecoveryClean(a) \/ RecoveryStop(a)

ExecNext ==
  \/ \E s \in Calls : CallStep(s)
  \/ \E k \in Keys : KeyStep(k)
  \/ \E a \in Accounts : RecoveryStep(a)
  \/ \E x \in Switches : Engage(x) \/ Disengage(x)

ExecSpec == ExecInit /\ [][ExecNext]_vars

\* The service polls the order book of an account for ever, and a loop that never
\* awaits ends.  The first is strong fairness because that loop can delay a poll but
\* not starve it.  Nothing else is promised to happen.
Fairness ==
  /\ \A k \in Keys : SF_vars(Poll(k))
  /\ \A a \in Accounts : WF_vars(RecoveryExpire(a) \/ RecoveryAssess(a))

FairExecSpec == ExecSpec /\ Fairness

-----------------------------------------------------------------------------
(* Correctness. *)

CallStates == {"idle", "reserve", "claim", "identity", "send", "reply", "flag"} \cup Gates

\* Types of everything but the journal, which has its own.
ExecTypeOK ==
  /\ TypeOK
  /\ pc \in [Calls -> CallStates]
  /\ standing \in [Calls -> SUBSET Switches] /\ switches \in SUBSET Switches
  /\ recovery \in [Accounts -> {"CLEAN", "RECOVERY_REQUIRED"}]
  /\ wire \in [Keys -> {"none", "transit", "accepted", "refused", "lost"}]
  /\ orders \in [Keys -> Nat]
  /\ book \in [Keys -> {NoOrder} \cup [status : BrokerStatuses, filled : Nat]]
  /\ feed \in SUBSET Evidence
  /\ rec \in [Accounts -> {"idle", "expire", "observe", "clean"}]
  /\ todo \in [Accounts -> SUBSET Keys]
  /\ fresh \in [Accounts -> BOOLEAN]
  /\ flagged \in SUBSET Keys

\* An intent becomes at most one broker order, however often, and by however many
\* calls, it is submitted, and wherever they time out or die
\* (order_journal.claim_submission, execution_service.submit_order).
AtMostOneOrder == \A k \in Keys : orders[k] <= 1

\* A request left for the broker, and what became of it is not known: its call is
\* waiting, or gave up, or died.
Outstanding(k) == wire[k] # "none" /\ journal[k].state \in {"SUBMITTING", "UNKNOWN"}

\* An increase does not leave while the outcome of another one of the account is open,
\* even if its caller timed out or died and the control row was never told: each
\* records its claim before it looks for the other's, and the journal keeps the doubt
\* (submit_order step 5, assert_safe_to_trade with ignore_intent_keys).
OneOpenIncrease ==
  \A j, k \in Increasing :
    j # k /\ AccountOf[j] = AccountOf[k] => ~(Outstanding(j) /\ Outstanding(k))

\* No increase leaves under a switch that has been on since before its claim
\* (submit_order: "an operator who engages SAFE_MODE during that window expects no
\* order to follow").
StopsAreRespected ==
  \A s \in Calls : pc[s] = "send" /\ KeyOf[s] \in Increasing => standing[s] = {}

\* The control row never says CLEAN about an intent whose uncertainty was written
\* to it and is still not resolved, whatever recovery was doing at the time
\* (startup_recovery's compare-and-set on the revision).
CleanIsEarned ==
  \A k \in flagged :
    journal[k].state = "UNKNOWN" => recovery[AccountOf[k]] = "RECOVERY_REQUIRED"

\* A broker that tells the truth is never accused: duplicated, delayed and
\* reordered reports of one order do not quarantine its intent
\* (order_journal.observe_order, its benign dispositions).
HonestBrokerTrusted == \A k \in Keys : ~journal[k].recon

\* How much of the life of an intent a state of its row tells.
Rank == [ABSENT |-> 0, RESERVED |-> 1, SUBMITTING |-> 2, UNKNOWN |-> 3, SUBMITTED |-> 4,
         PARTIAL |-> 5, FILLED |-> 6, REJECTED |-> 6, CANCELLED |-> 6]

\* What is known of an order is not unlearned: a postback that overtook the reply, the
\* timeout handler, another call or recovery is not taken back by them, although the
\* journal's own transition would let them (submission_uncertain: "Timeout cannot erase
\* stronger broker evidence delivered concurrently"; acknowledge: "without regressing a
\* postback that arrived first").
NothingUnlearned ==
  \A k \in Keys :
    /\ Rank[journal'[k].state] >= Rank[journal[k].state]
    /\ journal[k].oid # NoId => journal'[k].oid = journal[k].oid
NothingUnlearnedProperty == [][NothingUnlearned]_journal

Verdict(r) ==
  IF r.state \in {"ABSENT", "RESERVED"} THEN "unsent"
  ELSE IF r.state \in {"SUBMITTING", "UNKNOWN"} THEN "inflight"
  ELSE IF r.oid = NoId THEN "none" ELSE "order"

Single == INSTANCE SingleEffect WITH
            verdict <- [k \in Keys |-> Verdict(journal[k])], effect <- orders

\* The promise: one order at most, only while the journal has the intent in flight,
\* and no conclusion about it that is not true, ever
\* (EXECUTION_AUTHORITY.md, "UNKNOWN NEVER transitions back to RESERVED or triggers
\* an automatic re-submission").
ImplementsSingleEffect == Single!Spec

\* An order the broker accepted and whose reply was lost, by a timeout or a crash,
\* is found and its id bound, without anyone sending it again
\* (execution_lifecycle.recover).
LostReplyRecovered ==
  \A k \in Keys :
    orders[k] = 1 /\ journal[k].state \in {"SUBMITTING", "UNKNOWN"}
      ~> journal[k].oid = OrderIdOf[k]

\* What became of an order at the broker becomes known, if every postback is lost
\* (execution_lifecycle.recover, order_journal.observe_order).
OutcomeRecorded ==
  \A k \in Keys :
    book[k].status \in DOMAIN FinalState
      ~> \E st \in DOMAIN FinalState :
           /\ book[k].status = st /\ journal[k].state = FinalState[st]
           /\ journal[k].filled = book[k].filled
=============================================================================
