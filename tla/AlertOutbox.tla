----------------------------- MODULE AlertOutbox -----------------------------
(***************************************************************************)
(* How an operational fault becomes a message to a person: the dispatcher  *)
(* of snapback_alerts.py, which decides what is an alert; the durable      *)
(* outbox of snapback_alert_outbox.py, which holds it; and the loop of     *)
(* snapback_ops_scheduler.py, which calls both and sends by Telegram.      *)
(*                                                                         *)
(* The dispatcher's memory dies with the process, the outbox does not.     *)
(* The loop is sequential, but a send is a request to a service that may   *)
(* fail, and the process may die, or the database refuse a write, between  *)
(* the claim of an alert, its sending and the record of what happened.     *)
(***************************************************************************)
EXTENDS Integers, FiniteSets

CONSTANTS
  Faults,       \* codes of the alerts that the dispatcher is given
  Polled,       \* those that a health poll derives; the rest only the post-market chain
  Logins,       \* codes of the morning login alerts, which do not pass the dispatcher
  Sessions,     \* trading sessions, one after the other
  MaxAttempts,  \* MAX_ATTEMPTS
  Limit,        \* the limit of one claim
  MaxErrors     \* bound: crashes and refused writes

ASSUME OutboxAssumption ==
  /\ Polled \subseteq Faults /\ Faults \cap Logins = {}
  /\ Sessions \in Nat /\ Sessions > 0
  /\ MaxAttempts \in Nat /\ MaxAttempts > 0
  /\ Limit \in Nat /\ Limit > 0
  /\ MaxErrors \in Nat

\* dedupe_key_for: one fault, one session.
Keys == (Faults \cup Logins) \X (1..Sessions)

VARIABLES
  active,    \* the faults there are
  session,   \* the current session
  lastSent,  \* the dispatcher: the codes it sent less than repeat_after ago
  outbox,    \* the table: one row per dedupe key
  worker,    \* the loop: what it does next, what it has claimed and sends
  heard,     \* history: how often an alert has reached somebody
  errors     \* history: crashes and refused writes

vars == <<active, session, lastSent, outbox, worker, heard, errors>>

NoRow  == [status |-> "none", attempts |-> 0, due |-> FALSE]
Idle   == [pc |-> "poll", batch |-> {}, sending |-> {}, raised |-> FALSE]

Init ==
  /\ active \in SUBSET Faults
  /\ session = 1
  /\ lastSent = {}
  /\ outbox = [k \in Keys |-> NoRow]
  /\ worker = Idle
  /\ heard = [k \in Keys |-> 0]
  /\ errors = 0

-----------------------------------------------------------------------------

Error == errors < MaxErrors /\ errors' = errors + 1
Goto(pc) == worker' = [worker EXCEPT !.pc = pc]

\* Mutant: one row per code, in whatever session.
Enqueued_ByCode(C) ==
  [k \in Keys |->
     IF k[1] \in C /\ k[2] = session /\ \A n \in 1..Sessions : outbox[<<k[1], n>>].status = "none"
     THEN [status |-> "PENDING", attempts |-> 0, due |-> TRUE]
     ELSE outbox[k]]

\* enqueue of codes C: one row per code and session, whatever has become of it.
Enqueued(C) ==
  [k \in Keys |->
     IF k[1] \in C /\ k[2] = session /\ outbox[k].status = "none"
     THEN [status |-> "PENDING", attempts |-> 0, due |-> TRUE]
     ELSE outbox[k]]

\* dispatch(alerts A).  CompositeAlertSink logs the exception of an enqueue that fails,
\* so the dispatcher counts that code as sent too.
Dispatch(A, pc) ==
  LET sent == {c \in A : c \notin lastSent} IN
  /\ \E lost \in SUBSET sent :
       /\ outbox' = Enqueued(sent \ lost)
       /\ IF lost = {} THEN errors' = errors ELSE Error
  /\ lastSent' = A
  /\ Goto(pc)
  /\ UNCHANGED <<active, session, heard>>

PollHealth == worker.pc = "poll" /\ Dispatch(active \cap Polled, "due")

\* The post-market chain is not due, or it dispatches all it has found.
RunDue ==
  /\ worker.pc = "due"
  /\ \/ Goto("login") /\ UNCHANGED <<active, session, lastSent, outbox, heard, errors>>
     \/ Dispatch(active, "login")

\* morning_login_alert, by the time of day.  If it raises, deliver_alerts ends.
MorningLogin ==
  /\ worker.pc = "login"
  /\ \/ \E C \in {{}} \cup {{c} : c \in Logins} : outbox' = Enqueued(C) /\ Goto("claim") /\ errors' = errors
     \/ outbox' = outbox /\ Goto("poll") /\ Error
  /\ UNCHANGED <<active, session, lastSent, heard>>

-----------------------------------------------------------------------------
(* process *)

\* Mutant: an alert that somebody has claimed, and not finished, is claimed again.
Claimable_Again(k) ==
  outbox[k].status = "DELIVERING" \/ (outbox[k].status \in {"PENDING", "RETRY"} /\ outbox[k].due)

\* Mutant: only new alerts are looked for.
Claimable_New(k) == outbox[k].status = "PENDING" /\ outbox[k].due

Claimable(k) == outbox[k].status \in {"PENDING", "RETRY"} /\ outbox[k].due

\* As many of the due alerts as the limit allows.  The code takes the oldest first; here
\* any may come first, in the claim and in the loop over the batch.
Batches ==
  LET all == {k \in Keys : Claimable(k)} IN
  {B \in SUBSET all :
     Cardinality(B) = IF Cardinality(all) < Limit THEN Cardinality(all) ELSE Limit}

ClaimDue ==
  /\ worker.pc = "claim"
  /\ \/ /\ \E B \in Batches :
             /\ outbox' = [k \in Keys |-> IF k \in B THEN [outbox[k] EXCEPT !.status = "DELIVERING"] ELSE outbox[k]]
             /\ worker' = [worker EXCEPT !.pc = IF B = {} THEN "poll" ELSE "send", !.batch = B]
        /\ errors' = errors
     \/ outbox' = outbox /\ Goto("poll") /\ Error
  /\ UNCHANGED <<active, session, lastSent, heard>>

\* The loop over the batch after k was sent.
Outcome(k, raised) == [pc |-> "record", batch |-> worker.batch \ {k}, sending |-> {k}, raised |-> raised]

\* Mutant: a request that timed out raises, although the message may have arrived.
Send_TimesOut(k) ==
  /\ worker.pc = "send" /\ k \in worker.batch
  /\ worker' = Outcome(k, TRUE)
  /\ heard' \in {heard, [heard EXCEPT ![k] = @ + 1]}
  /\ UNCHANGED <<active, session, lastSent, outbox, errors>>

\* send: without a Telegram target it raises; with one, send_via reports a failure by
\* its result, which nobody reads.
Send(k) ==
  /\ worker.pc = "send" /\ k \in worker.batch
  /\ \/ worker' = Outcome(k, TRUE) /\ heard' = heard
     \/ /\ worker' = Outcome(k, FALSE)
        /\ heard' \in {heard, [heard EXCEPT ![k] = @ + 1]}
  /\ UNCHANGED <<active, session, lastSent, outbox, errors>>

\* _record_failure, with a time to wait.
Failed(row) ==
  [row EXCEPT !.attempts = @ + 1, !.due = FALSE,
              !.status = IF row.attempts + 1 < MaxAttempts THEN "RETRY" ELSE "DEAD"]

\* _record_success
Succeeded(row) == [row EXCEPT !.attempts = @ + 1, !.status = "DELIVERED"]

\* What happened is recorded; if that raises, the rest of the batch is left as it is.
Record(k) ==
  /\ worker.pc = "record" /\ k \in worker.sending
  /\ \/ /\ outbox' = [outbox EXCEPT ![k] = IF worker.raised THEN Failed(@) ELSE Succeeded(@)]
        /\ worker' = IF worker.batch = {} THEN Idle ELSE [Idle EXCEPT !.pc = "send", !.batch = worker.batch]
        /\ errors' = errors
     \/ outbox' = outbox /\ worker' = Idle /\ Error
  /\ UNCHANGED <<active, session, lastSent, heard>>

-----------------------------------------------------------------------------
(* The process and the world *)

\* The process dies, or stop cancels the task; the next one starts with no memory.
Crash ==
  /\ Error
  /\ worker' = Idle /\ lastSent' = {}
  /\ UNCHANGED <<active, session, outbox, heard>>

Appear(c)  == c \notin active /\ active' = active \cup {c} /\ UNCHANGED <<session, lastSent, outbox, worker, heard, errors>>
Recover(c) == c \in active /\ active' = active \ {c} /\ UNCHANGED <<session, lastSent, outbox, worker, heard, errors>>

\* repeat_after has passed.
RepeatDue(c) ==
  /\ c \in lastSent /\ lastSent' = lastSent \ {c}
  /\ UNCHANGED <<active, session, outbox, worker, heard, errors>>

\* The time to wait has passed.
BackoffOver(k) ==
  /\ outbox[k].status = "RETRY" /\ ~outbox[k].due
  /\ outbox' = [outbox EXCEPT ![k].due = TRUE]
  /\ UNCHANGED <<active, session, lastSent, worker, heard, errors>>

NextSession ==
  /\ session < Sessions /\ session' = session + 1
  /\ UNCHANGED <<active, lastSent, outbox, worker, heard, errors>>

Loop == PollHealth \/ RunDue \/ MorningLogin \/ ClaimDue \/ \E k \in Keys : Send(k) \/ Record(k)
Next ==
  \/ Loop \/ Crash \/ NextSession
  \/ \E c \in Faults : Appear(c) \/ Recover(c) \/ RepeatDue(c)
  \/ \E k \in Keys : BackoffOver(k)

Spec == Init /\ [][Next]_vars

\* The loop runs for ever, and time passes.
FairSpec ==
  /\ Spec /\ WF_vars(Loop)
  /\ WF_vars(\E c \in Faults : RepeatDue(c))
  /\ WF_vars(\E k \in Keys : BackoffOver(k))

-----------------------------------------------------------------------------
(* Properties *)

RowType == [status : {"none", "PENDING", "DELIVERING", "RETRY", "DELIVERED", "DEAD"},
            attempts : 0..MaxAttempts, due : BOOLEAN]

\* Types: in particular no alert is attempted more often than the bound of the code, and
\* the one that uses it up is DEAD or DELIVERED.
OutboxTypeOK ==
  /\ active \in SUBSET Faults /\ session \in 1..Sessions
  /\ lastSent \in SUBSET Faults
  /\ outbox \in [Keys -> RowType]
  /\ \A k \in Keys : outbox[k].attempts = MaxAttempts => outbox[k].status \in {"DEAD", "DELIVERED"}
  /\ worker \in [pc : {"poll", "due", "login", "claim", "send", "record"},
                 batch : SUBSET Keys, sending : SUBSET Keys, raised : BOOLEAN]
  /\ heard \in [Keys -> Nat] /\ errors \in 0..MaxErrors

\* dedupe_key_for: "One fault, one session, one entity: one alert".  Whatever crashes,
\* fails and starts again between claim and record, nobody hears of it twice.
HeardOnce == \A k \in Keys : heard[k] <= 1

\* An alert that waits for another attempt, or was given up, has reached nobody.
FailureIsHonest ==
  \A k \in Keys : outbox[k].status \in {"PENDING", "RETRY", "DEAD"} => heard[k] = 0

\* The outbox is drained again and again: every alert in it ends DELIVERED or DEAD,
\* unless a crash or a refused write left it claimed.
Drained ==
  \A k \in Keys :
    \/ outbox[k].status \in {"none", "DELIVERED", "DEAD"}
    \/ outbox[k].status = "DELIVERING" /\ errors > 0
EventuallySettled == []<>Drained

\* A fault that lasts is in the outbox of the session in the end, although an enqueue
\* that failed counts as sent (AlertDispatcher: "re-sending only after repeat_after").
FaultRecorded ==
  \A c \in Polled :
    c \in active ~> (c \notin active \/ outbox[<<c, session>>].status # "none")

\* snapback_alert_outbox.py: "only marked DELIVERED when the transport actually said so".
DeliveredMeansHeard == \A k \in Keys : outbox[k].status = "DELIVERED" => heard[k] > 0
=============================================================================
