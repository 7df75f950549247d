------------------------- MODULE AlertOutboxProofs -------------------------
(* Proofs about AlertOutbox: whatever dies or fails between the claim of an *)
(* alert and the record of its sending, nobody hears of it twice.           *)
EXTENDS AlertOutbox, TLAPS

\* An alert that is claimed has been heard of only if it is the one being recorded, and
\* its send did not raise.
Claimed ==
  /\ \A k \in worker.batch \cup worker.sending : outbox[k].status = "DELIVERING"
  /\ \A k \in worker.batch : heard[k] = 0
  /\ worker.batch \cap worker.sending = {}
  /\ worker.pc = "record" /\ worker.raised => \A k \in worker.sending : heard[k] = 0

Unheard == \A k \in Keys : outbox[k].status \in {"none", "PENDING", "RETRY", "DEAD"} => heard[k] = 0

OutboxInv == OutboxTypeOK /\ Claimed /\ Unheard /\ HeardOnce

LEMMA OutboxInit == Init => OutboxInv
<1> SUFFICES ASSUME Init PROVE OutboxInv
  OBVIOUS
<1>1. OutboxTypeOK
  BY OutboxAssumption DEF Init, OutboxTypeOK, RowType, NoRow, Idle
<1>2. Claimed /\ Unheard /\ HeardOnce
  BY DEF Init, Claimed, Unheard, HeardOnce, Idle
<1>3. QED
  BY <1>1, <1>2 DEF OutboxInv

\* enqueue: a row that exists stays as it is.
LEMMA EnqueuedRows ==
  ASSUME OutboxInv, NEW C
  PROVE  /\ Enqueued(C) \in [Keys -> RowType]
         /\ \A k \in Keys : /\ Enqueued(C)[k].attempts = MaxAttempts => Enqueued(C)[k].status \in {"DEAD", "DELIVERED"}
                            /\ Enqueued(C)[k] = outbox[k] \/ (outbox[k].status = "none" /\ Enqueued(C)[k].status = "PENDING")
BY OutboxAssumption DEF OutboxInv, OutboxTypeOK, RowType, Enqueued

\* A step that only adds rows, and goes on or starts again.
LEMMA Adds ==
  ASSUME OutboxInv, NEW C, outbox' \in {outbox, Enqueued(C)}, heard' = heard,
         NEW pc \in {"poll", "due", "login", "claim"}, Goto(pc),
         active' \in SUBSET Faults, session' \in 1..Sessions, lastSent' \in SUBSET Faults,
         errors' \in 0..MaxErrors
  PROVE  OutboxInv'
<1>1. /\ outbox' \in [Keys -> RowType]
      /\ \A k \in Keys : /\ outbox'[k].attempts = MaxAttempts => outbox'[k].status \in {"DEAD", "DELIVERED"}
                         /\ outbox'[k] = outbox[k] \/ (outbox[k].status = "none" /\ outbox'[k].status = "PENDING")
  BY EnqueuedRows DEF OutboxInv, OutboxTypeOK
<1>2. worker'.pc = pc /\ worker'.batch = worker.batch /\ worker'.sending = worker.sending /\ worker'.raised = worker.raised
  BY DEF Goto, OutboxInv, OutboxTypeOK
<1>3. worker' \in [pc : {"poll", "due", "login", "claim", "send", "record"},
                   batch : SUBSET Keys, sending : SUBSET Keys, raised : BOOLEAN]
  BY DEF Goto, OutboxInv, OutboxTypeOK
<1>4. OutboxTypeOK'
  BY <1>1, <1>3 DEF OutboxInv, OutboxTypeOK
<1>5. Claimed'
  BY <1>1, <1>2 DEF OutboxInv, OutboxTypeOK, Claimed
<1>6. Unheard' /\ HeardOnce'
  BY <1>1 DEF OutboxInv, Unheard, HeardOnce
<1>7. QED
  BY <1>4, <1>5, <1>6 DEF OutboxInv

\* A step that leaves the table, and goes on or starts again.
LEMMA Leaves ==
  ASSUME OutboxInv, outbox' = outbox, heard' = heard, worker' \in {worker, Idle},
         active' \in SUBSET Faults, session' \in 1..Sessions, lastSent' \in SUBSET Faults,
         errors' \in 0..MaxErrors
  PROVE  OutboxInv'
<1>1. Idle \in [pc : {"poll", "due", "login", "claim", "send", "record"},
               batch : SUBSET Keys, sending : SUBSET Keys, raised : BOOLEAN]
  BY DEF Idle
<1>2. OutboxTypeOK'
  BY <1>1 DEF OutboxInv, OutboxTypeOK
<1>3. Claimed' /\ Unheard' /\ HeardOnce'
  BY DEF OutboxInv, Claimed, Unheard, HeardOnce, Idle
<1>4. QED
  BY <1>2, <1>3 DEF OutboxInv

LEMMA Recorded ==
  ASSUME NEW row \in RowType, row.attempts # MaxAttempts
  PROVE  /\ Failed(row) \in RowType /\ Succeeded(row) \in RowType
         /\ Failed(row).attempts = MaxAttempts => Failed(row).status = "DEAD"
         /\ Succeeded(row).status = "DELIVERED"
<1>1. row.attempts + 1 \in 0..MaxAttempts
  BY OutboxAssumption DEF RowType
<1>2. /\ Failed(row) \in RowType
      /\ Failed(row).attempts = row.attempts + 1
      /\ row.attempts + 1 = MaxAttempts => Failed(row).status = "DEAD"
  <2>1. PICK n \in 0..MaxAttempts, t \in {"RETRY", "DEAD"} :
          /\ n = row.attempts + 1 /\ t = IF row.attempts + 1 < MaxAttempts THEN "RETRY" ELSE "DEAD"
    BY <1>1
  <2>2. Failed(row) = [row EXCEPT !.attempts = n, !.due = FALSE, !.status = t]
    BY <2>1 DEF Failed
  <2>3. n = MaxAttempts => t = "DEAD"
    BY <2>1, OutboxAssumption
  <2>4. QED
    BY <2>1, <2>2, <2>3 DEF RowType
<1>3. Succeeded(row) \in RowType /\ Succeeded(row).status = "DELIVERED"
  BY <1>1 DEF Succeeded, RowType
<1>4. QED
  BY <1>2, <1>3

LEMMA DispatchStep ==
  ASSUME OutboxInv, NEW A \in SUBSET Faults, NEW pc \in {"due", "login"}, Dispatch(A, pc)
  PROVE  OutboxInv'
<1> DEFINE sent == {c \in A : c \notin lastSent}
<1>1. PICK lost \in SUBSET sent : outbox' = Enqueued(sent \ lost) /\ (errors' = errors \/ Error)
  BY DEF Dispatch
<1>2. errors' \in 0..MaxErrors
  BY <1>1, OutboxAssumption DEF Error, OutboxInv, OutboxTypeOK
<1>3. /\ Goto(pc) /\ heard' = heard /\ lastSent' \in SUBSET Faults
      /\ active' \in SUBSET Faults /\ session' \in 1..Sessions
  BY DEF Dispatch, OutboxInv, OutboxTypeOK
<1>4. QED
  BY <1>1, <1>2, <1>3, Adds

LEMMA OutboxNext == OutboxInv /\ [Next]_vars => OutboxInv'
<1> SUFFICES ASSUME OutboxInv, [Next]_vars PROVE OutboxInv'
  OBVIOUS
<1>0. /\ OutboxTypeOK /\ Claimed /\ Unheard /\ HeardOnce
      /\ active \in SUBSET Faults /\ session \in 1..Sessions /\ lastSent \in SUBSET Faults
      /\ errors \in 0..MaxErrors
      /\ Error => errors' \in 0..MaxErrors
  BY OutboxAssumption DEF OutboxInv, OutboxTypeOK, Error
<1>1. CASE PollHealth
  BY <1>0, <1>1, DispatchStep DEF PollHealth
<1>2. CASE RunDue
  <2>1. CASE Dispatch(active, "login")
    BY <1>0, <2>1, DispatchStep
  <2>2. CASE Goto("login") /\ UNCHANGED <<active, session, lastSent, outbox, heard, errors>>
    BY <1>0, <2>2, Adds
  <2>3. QED
    BY <1>2, <2>1, <2>2 DEF RunDue
<1>3. CASE MorningLogin
  <2>1. UNCHANGED <<active, session, lastSent, heard>>
    BY <1>3 DEF MorningLogin
  <2>2. ASSUME NEW C, outbox' = Enqueued(C), Goto("claim"), errors' = errors PROVE OutboxInv'
    BY <1>0, <2>1, <2>2, Adds
  <2>3. CASE outbox' = outbox /\ Goto("poll") /\ Error
    BY <1>0, <2>1, <2>3, Adds
  <2>4. QED
    BY <1>3, <2>2, <2>3 DEF MorningLogin
<1>4. CASE ClaimDue
  <2>0. UNCHANGED <<active, session, lastSent, heard>>
    BY <1>4 DEF ClaimDue
  <2>1. CASE outbox' = outbox /\ Goto("poll") /\ Error
    BY <1>0, <2>0, <2>1, Adds
  <2>2. ASSUME NEW B \in Batches, errors' = errors,
               outbox' = [k \in Keys |-> IF k \in B THEN [outbox[k] EXCEPT !.status = "DELIVERING"] ELSE outbox[k]],
               worker' = [worker EXCEPT !.pc = IF B = {} THEN "poll" ELSE "send", !.batch = B]
        PROVE  OutboxInv'
    <3>1. B \in SUBSET Keys /\ \A k \in B : Claimable(k)
      BY DEF Batches
    <3>2. \A k \in B : outbox[k].status \in {"PENDING", "RETRY"} /\ heard[k] = 0
      BY <1>0, <3>1 DEF Claimable, Unheard
    <3>3. /\ worker'.batch = B /\ worker'.sending = worker.sending
          /\ worker'.pc \in {"poll", "send"}
          /\ worker' \in [pc : {"poll", "due", "login", "claim", "send", "record"},
                          batch : SUBSET Keys, sending : SUBSET Keys, raised : BOOLEAN]
      BY <1>0, <2>2, <3>1 DEF OutboxTypeOK
    <3>4. \A k \in Keys :
            /\ outbox'[k] \in RowType
            /\ k \notin B => outbox'[k] = outbox[k]
            /\ k \in B => outbox'[k].status = "DELIVERING" /\ outbox'[k].attempts = outbox[k].attempts
      BY <1>0, <2>2 DEF OutboxTypeOK, RowType
    <3>5. OutboxTypeOK'
      <4>1. outbox' \in [Keys -> RowType]
        BY <2>2, <3>4
      <4>2. \A k \in Keys : outbox'[k].attempts = MaxAttempts => outbox'[k].status \in {"DEAD", "DELIVERED"}
        BY <1>0, <3>2, <3>4 DEF OutboxTypeOK
      <4>3. QED
        BY <1>0, <2>0, <2>2, <3>3, <4>1, <4>2 DEF OutboxTypeOK
    <3>6. Claimed'
      BY <1>0, <2>0, <3>1, <3>2, <3>3, <3>4 DEF Claimed, OutboxTypeOK
    <3>7. Unheard' /\ HeardOnce'
      BY <1>0, <2>0, <3>2, <3>4 DEF Unheard, HeardOnce
    <3>8. QED
      BY <3>5, <3>6, <3>7 DEF OutboxInv
  <2>3. QED
    BY <1>4, <2>1, <2>2 DEF ClaimDue
<1>5. ASSUME NEW k \in Keys, Send(k) PROVE OutboxInv'
  <2>1. PICK raised \in BOOLEAN : /\ worker' = Outcome(k, raised)
                                  /\ heard' \in {heard, [heard EXCEPT ![k] = @ + 1]}
                                  /\ raised => heard' = heard
    BY <1>5 DEF Send
  <2>2. k \in worker.batch /\ heard[k] = 0 /\ UNCHANGED <<active, session, lastSent, outbox, errors>>
    BY <1>0, <1>5 DEF Send, Claimed
  <2>3. heard' \in [Keys -> Nat] /\ heard'[k] <= 1 /\ \A l \in Keys \ {k} : heard'[l] = heard[l]
    BY <1>0, <2>1, <2>2 DEF OutboxTypeOK
  <2>4. worker' = [pc |-> "record", batch |-> worker.batch \ {k}, sending |-> {k}, raised |-> raised]
    BY <2>1 DEF Outcome
  <2>5. OutboxTypeOK'
    BY <1>0, <2>2, <2>3, <2>4 DEF OutboxTypeOK
  <2>6. Claimed'
    BY <1>0, <2>1, <2>2, <2>3, <2>4 DEF Claimed, OutboxTypeOK
  <2>7. Unheard' /\ HeardOnce'
    BY <1>0, <2>2, <2>3 DEF Unheard, HeardOnce, Claimed
  <2>8. QED
    BY <2>5, <2>6, <2>7 DEF OutboxInv
<1>6. ASSUME NEW k \in Keys, Record(k) PROVE OutboxInv'
  <2>0. UNCHANGED <<active, session, lastSent, heard>> /\ worker.pc = "record" /\ k \in worker.sending
    BY <1>6 DEF Record
  <2>1. CASE outbox' = outbox /\ worker' = Idle /\ Error
    BY <1>0, <2>0, <2>1, Leaves
  <2>2. CASE /\ outbox' = [outbox EXCEPT ![k] = IF worker.raised THEN Failed(@) ELSE Succeeded(@)]
             /\ worker' = IF worker.batch = {} THEN Idle ELSE [Idle EXCEPT !.pc = "send", !.batch = worker.batch]
             /\ errors' = errors
    <3>1. /\ worker'.batch = worker.batch /\ worker'.sending = {} /\ worker'.pc \in {"poll", "send"}
          /\ worker' \in [pc : {"poll", "due", "login", "claim", "send", "record"},
                          batch : SUBSET Keys, sending : SUBSET Keys, raised : BOOLEAN]
      BY <1>0, <2>2 DEF Idle, OutboxTypeOK
    <3>2. /\ outbox[k].status = "DELIVERING" /\ k \notin worker.batch
          /\ outbox[k] \in RowType /\ outbox[k].attempts # MaxAttempts
      <4>1. outbox[k].status = "DELIVERING" /\ k \notin worker.batch
        BY <1>0, <2>0 DEF Claimed
      <4>2. QED
        BY <1>0, <4>1 DEF OutboxTypeOK
    <3>3. /\ Failed(outbox[k]) \in RowType /\ Succeeded(outbox[k]) \in RowType
          /\ Failed(outbox[k]).attempts = MaxAttempts => Failed(outbox[k]).status = "DEAD"
          /\ Succeeded(outbox[k]).status = "DELIVERED"
      BY <3>2, Recorded
    <3>4. /\ outbox' \in [Keys -> RowType]
          /\ \A l \in Keys \ {k} : outbox'[l] = outbox[l]
          /\ outbox'[k].attempts = MaxAttempts => outbox'[k].status \in {"DEAD", "DELIVERED"}
          /\ ~worker.raised => outbox'[k].status = "DELIVERED"
      BY <1>0, <2>2, <3>3 DEF OutboxTypeOK
    <3>5. OutboxTypeOK'
      BY <1>0, <2>0, <2>2, <3>1, <3>4 DEF OutboxTypeOK
    <3>6. Claimed'
      BY <1>0, <2>0, <3>1, <3>2, <3>4 DEF Claimed, OutboxTypeOK
    <3>7. Unheard' /\ HeardOnce'
      BY <1>0, <2>0, <3>4 DEF Unheard, HeardOnce, Claimed
    <3>8. QED
      BY <3>5, <3>6, <3>7 DEF OutboxInv
  <2>3. QED
    BY <1>6, <2>1, <2>2 DEF Record
<1>7. CASE Crash
  BY <1>0, <1>7, Leaves DEF Crash
<1>8. CASE NextSession
  <2>1. session' \in 1..Sessions
    BY <1>0, <1>8, OutboxAssumption DEF NextSession
  <2>2. QED
    BY <1>0, <1>8, <2>1, Leaves DEF NextSession
<1>9. ASSUME NEW c \in Faults, Appear(c) \/ Recover(c) \/ RepeatDue(c) PROVE OutboxInv'
  BY <1>0, <1>9, Leaves DEF Appear, Recover, RepeatDue
<1>10. ASSUME NEW k \in Keys, BackoffOver(k) PROVE OutboxInv'
  <2>1. UNCHANGED <<active, session, lastSent, worker, heard, errors>>
    BY <1>10 DEF BackoffOver
  <2>2. outbox' \in [Keys -> RowType]
        /\ \A l \in Keys : outbox'[l].status = outbox[l].status /\ outbox'[l].attempts = outbox[l].attempts
    BY <1>0, <1>10 DEF BackoffOver, OutboxTypeOK, RowType
  <2>3. OutboxTypeOK'
    BY <1>0, <2>1, <2>2 DEF OutboxTypeOK
  <2>4. Claimed' /\ Unheard' /\ HeardOnce'
    BY <1>0, <2>1, <2>2 DEF Claimed, Unheard, HeardOnce, OutboxTypeOK
  <2>5. QED
    BY <2>3, <2>4 DEF OutboxInv
<1>11. CASE UNCHANGED vars
  BY <1>0, <1>11, Leaves DEF vars
<1>12. QED
  BY <1>1, <1>2, <1>3, <1>4, <1>5, <1>6, <1>7, <1>8, <1>9, <1>10, <1>11 DEF Next, Loop

LEMMA OutboxInvariance == Spec => []OutboxInv
BY OutboxInit, OutboxNext, PTL DEF Spec

\* Types; no alert is attempted more often than MAX_ATTEMPTS (AlertOutbox.process).
THEOREM OutboxTypesHold == Spec => []OutboxTypeOK
BY OutboxInvariance, PTL DEF OutboxInv

\* Nobody hears of one fault of one session twice, however often the loop dies or the
\* database refuses a write between claim and record (AlertOutbox, dedupe_key_for).
THEOREM NobodyHearsTwice == Spec => []HeardOnce
BY OutboxInvariance, PTL DEF OutboxInv

\* What waits for another attempt, or was given up, has reached nobody, so that a retry
\* repeats nothing (AlertOutbox._record_failure).
THEOREM FailuresAreHonest == Spec => []FailureIsHonest
<1>1. OutboxInv => FailureIsHonest
  BY DEF OutboxInv, Unheard, FailureIsHonest
<1>2. QED
  BY <1>1, OutboxInvariance, PTL
=============================================================================
