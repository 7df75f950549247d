------------------------ MODULE OrderProjectionProofs ------------------------
(* Proofs about OrderProjection: wherever the process dies between the      *)
(* journal, the registry and the ledger, and whatever they refuse, a fill   *)
(* is booked or flagged, and a row that is over stays over.                 *)
EXTENDS OrderProjection, TLAPS

TaskType == [pc : {"idle", "register", "save", "book", "flag", "mark"}, id : Intents, bad : BOOLEAN]

\* The row in memory is never behind the one in the store in what matters here.
Rows ==
  /\ saved.flagged => row.flagged
  /\ saved.flagged => saved.status # "none"
  /\ saved.status # "none" => row.status # "none"
  /\ saved.status \in {"CLOSED", "REJECTED"} => row.status = saved.status
  /\ row.status = "REJECTED" => journal["entry"].filled = 0 /\ journal["entry"].state = "DONE"

\* What the journal, the ledger and the store know of each other.
Known ==
  /\ \A i \in Intents : journal[i].state \in {"none", "SENT"} => journal[i].filled = 0
  /\ order["exit"].state = "none" => journal["exit"].state = "none"
  /\ order["exit"].state # "none" => booked["entry"] > 0
  /\ booked["entry"] > 0 => saved.status # "none"

\* How far the task is.
Doing ==
  /\ task.pc # "idle" /\ task.id = "exit" => order["exit"].state # "none"
  /\ task.id = "entry" /\ task.pc \in {"book", "flag", "mark"} => saved.status # "none"
  /\ task.id = "entry" /\ task.pc = "save" => row.status = "PENDING"
  /\ task.id = "exit" /\ task.pc = "save" /\ ~task.bad => booked["exit"] = journal["exit"].filled
  /\ task.pc = "mark" => Settled(task.id)

ProjectionInv == ProjectionTypeOK /\ Rows /\ Known /\ Doing /\ BookedOrFlagged

-----------------------------------------------------------------------------
LEMMA ProjectionInit == Init => ProjectionInv
<1> SUFFICES ASSUME Init PROVE ProjectionInv
  OBVIOUS
<1>1. ProjectionTypeOK
  BY LotsAssumption, FaultsAssumption DEF Init, ProjectionTypeOK, RowType, NoRow, Idle, Intents
<1>2. Rows /\ Known /\ Doing /\ BookedOrFlagged
  BY DEF Init, Rows, Known, Doing, BookedOrFlagged, Settled, NoRow, Idle, Intents
<1>3. QED
  BY <1>1, <1>2 DEF ProjectionInv

\* A fault is counted, up to the bound.
LEMMA FaultCounted ==
  ASSUME ProjectionTypeOK, Fault
  PROVE  faults' \in 0..MaxFaults
BY FaultsAssumption DEF ProjectionTypeOK, Fault

LEMMA NewRowType == NewRow \in RowType
BY LotsAssumption DEF NewRow, RowType

LEMMA EntryRowType ==
  ASSUME ProjectionTypeOK
  PROVE  /\ EntryRow \in RowType
         /\ EntryRow.flagged = row.flagged
         /\ EntryRow.status \in {"OPEN", "PENDING", "REJECTED"}
         /\ EntryRow.status = "REJECTED" => journal["entry"].filled = 0 /\ journal["entry"].state = "DONE"
<1> DEFINE j == journal["entry"]
           st == IF j.filled > 0 THEN "OPEN" ELSE IF j.state # "DONE" THEN "PENDING" ELSE "REJECTED"
<1>1. row \in RowType /\ j.filled \in 0..Lots
  BY DEF ProjectionTypeOK, Intents
<1>2. /\ st \in {"OPEN", "PENDING", "REJECTED"}
      /\ st = "REJECTED" => j.filled = 0 /\ j.state = "DONE"
  BY <1>1
<1>3. EntryRow = [row EXCEPT !.qty = j.filled, !.entry = (j.state # "DONE"), !.status = st]
  BY DEF EntryRow
<1> HIDE DEF st
<1>4. (j.state # "DONE") \in BOOLEAN
  OBVIOUS
<1>5. QED
  BY <1>1, <1>2, <1>3, <1>4 DEF RowType

LEMMA ExitRowType ==
  ASSUME ProjectionTypeOK
  PROVE  /\ ExitRow \in RowType
         /\ ExitRow.flagged = row.flagged
         /\ ExitRow.status \in {row.status, "CLOSED"}
<1> DEFINE st == IF Net = 0 /\ journal["exit"].state = "DONE" THEN "CLOSED" ELSE row.status
<1>1. row \in RowType
  BY DEF ProjectionTypeOK
<1>2. Abs(Net) \in 0..Lots
  BY LotsAssumption DEF ProjectionTypeOK, Net, Abs, Intents
<1>3. ExitRow = [row EXCEPT !.qty = Abs(Net), !.status = st]
  BY DEF ExitRow
<1>4. st \in {row.status, "CLOSED"}
  OBVIOUS
<1> HIDE DEF st
<1>5. QED
  BY <1>1, <1>2, <1>3, <1>4 DEF RowType

\* persist_strict: the row is in memory, and in the store if the task goes on.
LEMMA Saves ==
  ASSUME ProjectionTypeOK, NEW r \in RowType, NEW pc \in {"save", "book", "flag", "mark"}, SaveStrict(r, pc)
  PROVE  /\ row' = r /\ saved' \in {saved, r} /\ saved' \in RowType
         /\ faults' \in 0..MaxFaults
         /\ task' \in TaskType
         /\ \/ saved' = r /\ task'.pc = pc /\ task'.id = task.id /\ task'.bad = task.bad
            \/ saved' = saved /\ task' = Idle
<1>1. Idle \in TaskType /\ task \in TaskType /\ faults \in 0..MaxFaults /\ saved \in RowType
  BY DEF Idle, TaskType, Intents, ProjectionTypeOK
<1>2. CASE saved' = r /\ Goto(pc) /\ faults' = faults
  <2>1. task' = [task EXCEPT !.pc = pc]
    BY <1>2 DEF Goto
  <2>2. QED
    BY <1>1, <1>2, <2>1 DEF SaveStrict, TaskType
<1>3. CASE saved' = saved /\ task' = Idle /\ Fault
  BY <1>1, <1>3, FaultCounted DEF SaveStrict
<1>4. QED
  BY <1>2, <1>3 DEF SaveStrict

-----------------------------------------------------------------------------
(* The evidence *)

\* What a postback or the order book says is true, and final evidence is complete.
LEMMA ToldIsTrue ==
  ASSUME ProjectionTypeOK, NEW i \in Intents, NEW s \in Told(i)
  PROVE  /\ s.filled \in 0..order[i].filled /\ s.final \in BOOLEAN
         /\ s.final => s.filled = order[i].filled
         /\ order[i].state # "none"
<1>1. order[i].filled \in 0..Lots
  BY DEF ProjectionTypeOK
<1>2. order[i].state # "none"
  BY DEF Told
<1>3. \/ s = [filled |-> order[i].filled, final |-> Final(order[i])]
      \/ \E f \in 0..order[i].filled : s = [filled |-> f, final |-> FALSE]
  BY <1>2 DEF Told
<1>4. Final(order[i]) \in BOOLEAN
  BY DEF Final
<1>5. CASE s = [filled |-> order[i].filled, final |-> Final(order[i])]
  BY <1>1, <1>2, <1>4, <1>5
<1>6. CASE \E f \in 0..order[i].filled : s = [filled |-> f, final |-> FALSE]
  <2>1. PICK f \in 0..order[i].filled : s = [filled |-> f, final |-> FALSE]
    BY <1>6
  <2>2. QED
    BY <1>2, <2>1
<1>7. QED
  BY <1>3, <1>5, <1>6

LEMMA Consumes ==
  ASSUME ProjectionInv, NEW i \in Intents, NEW s, Consume(i, s),
         s.filled \in 0..order[i].filled, s.final => s.filled = order[i].filled,
         order[i].state # "none"
  PROVE  ProjectionInv'
<1>0. /\ ProjectionTypeOK /\ Rows /\ Known /\ BookedOrFlagged
      /\ task = Idle /\ UNCHANGED <<order, booked, saved, row, faults, slips>>
      /\ journal' = Observed(i, s)
  BY DEF ProjectionInv, Consume
<1> DEFINE j == [state |-> IF s.final THEN "DONE" ELSE "WORKING", filled |-> s.filled, pending |-> TRUE]
<1>1. /\ j \in [state : {"none", "SENT", "WORKING", "DONE"}, filled : 0..Lots, pending : BOOLEAN]
      /\ j.state \in {"WORKING", "DONE"} /\ j.filled = s.filled /\ j.pending
  <2>1. order[i].filled \in 0..Lots
    BY <1>0 DEF ProjectionTypeOK
  <2>2. s.filled \in 0..Lots
    BY <2>1, LotsAssumption
  <2>3. QED
    BY <2>2
<1>2. journal' = journal \/ (Fresh(i, s) /\ journal' = [journal EXCEPT ![i] = j])
  BY <1>0 DEF Observed
<1> HIDE DEF j
<1>3. Fresh(i, s) => journal[i].filled <= s.filled /\ journal[i].state # "DONE"
  BY <1>0 DEF Fresh, Known, ProjectionTypeOK
<1>4. task' \in TaskType /\ (task'.pc # "idle" => task'.id = i) /\ task'.pc \in {"idle", "book", "register"}
      /\ (task'.pc = "book" => i = "exit")
  <2>1. \/ i = "exit" /\ task' = [Idle EXCEPT !.pc = "book", !.id = i]
        \/ i = "entry" /\ task' = [Idle EXCEPT !.pc = "register", !.id = i]
        \/ task' = Idle
    BY DEF Consume, Intents
  <2>2. CASE i = "exit" /\ task' = [Idle EXCEPT !.pc = "book", !.id = i]
    <3>1. i = "exit" /\ task' = [pc |-> "book", id |-> "exit", bad |-> FALSE]
      BY <2>2 DEF Idle
    <3>2. QED
      BY <3>1 DEF TaskType, Intents
  <2>3. CASE i = "entry" /\ task' = [Idle EXCEPT !.pc = "register", !.id = i]
    <3>1. i = "entry" /\ task' = [pc |-> "register", id |-> "entry", bad |-> FALSE]
      BY <2>3 DEF Idle
    <3>2. QED
      BY <3>1 DEF TaskType, Intents
  <2>4. CASE task' = Idle
    BY <2>4 DEF Idle, TaskType, Intents
  <2>5. QED
    BY <2>1, <2>2, <2>3, <2>4
<1>5. ProjectionTypeOK'
  <2>1. journal' \in [Intents -> [state : {"none", "SENT", "WORKING", "DONE"}, filled : 0..Lots, pending : BOOLEAN]]
    BY <1>0, <1>1, <1>2 DEF ProjectionTypeOK
  <2>2. \A k \in Intents : booked[k] <= journal'[k].filled /\ journal'[k].filled <= order[k].filled
    BY <1>0, <1>1, <1>2, <1>3 DEF ProjectionTypeOK
  <2>3. QED
    BY <1>0, <1>4, <2>1, <2>2 DEF ProjectionTypeOK, TaskType
<1>6. Rows'
  BY <1>0, <1>2, <1>3 DEF Rows, ProjectionTypeOK, Intents
<1>7. Known'
  BY <1>0, <1>1, <1>2 DEF Known, ProjectionTypeOK, Intents
<1>8. Doing'
  BY <1>0, <1>4 DEF Doing
<1>9. BookedOrFlagged'
  BY <1>0, <1>1, <1>2 DEF BookedOrFlagged, Settled, ProjectionTypeOK
<1>10. QED
  BY <1>5, <1>6, <1>7, <1>8, <1>9 DEF ProjectionInv

-----------------------------------------------------------------------------
(* The steps of the task *)

\* A row that is saved while the evidence of its entry stands: the registry's part of
\* the invariant, and what the ledger and the journal know.
LEMMA SavedRows ==
  ASSUME ProjectionInv, NEW r \in RowType, row' = r, saved' \in {saved, r},
         UNCHANGED <<order, journal, booked>>,
         r.flagged \in {row.flagged, TRUE} \/ saved.status = "none",
         r.status # "none",
         saved.status \in {"CLOSED", "REJECTED"} => r.status = saved.status,
         r.status = "REJECTED" => journal["entry"].filled = 0 /\ journal["entry"].state = "DONE"
  PROVE  /\ Rows' /\ Known'
         /\ saved.flagged => saved'.flagged
         /\ saved.status # "none" => saved'.status # "none"
         /\ saved.status \in {"CLOSED", "REJECTED"} => saved'.status = saved.status
<1>1. /\ Rows /\ Known /\ saved \in RowType /\ row \in RowType
      /\ saved.flagged \in BOOLEAN /\ row.flagged \in BOOLEAN /\ r.flagged \in BOOLEAN
  BY DEF ProjectionInv, ProjectionTypeOK, RowType
<1>2. saved.flagged => r.flagged
  BY <1>1 DEF Rows
<1>3. Rows'
  BY <1>1, <1>2 DEF Rows
<1>4. Known'
  BY <1>1 DEF Known
<1>5. QED
  BY <1>1, <1>2, <1>3, <1>4

\* A step of persist_strict: all but the place where the task goes on.
LEMMA SavesInv ==
  ASSUME ProjectionInv, NEW r \in RowType, NEW pc \in {"save", "book", "flag", "mark"}, SaveStrict(r, pc),
         UNCHANGED <<order, journal, booked>>, "skipped" \in slips => "skipped" \in slips',
         r.flagged \in {row.flagged, TRUE} \/ saved.status = "none",
         r.status # "none",
         saved.status \in {"CLOSED", "REJECTED"} => r.status = saved.status,
         r.status = "REJECTED" => journal["entry"].filled = 0 /\ journal["entry"].state = "DONE",
         saved' = r /\ task'.pc = pc /\ task'.id = task.id /\ task'.bad = task.bad => Doing'
  PROVE  ProjectionInv'
<1>0. ProjectionTypeOK /\ BookedOrFlagged
  BY DEF ProjectionInv
<1>1. /\ row' = r /\ saved' \in {saved, r} /\ saved' \in RowType
      /\ faults' \in 0..MaxFaults /\ task' \in TaskType
      /\ \/ saved' = r /\ task'.pc = pc /\ task'.id = task.id /\ task'.bad = task.bad
         \/ saved' = saved /\ task' = Idle
  BY <1>0, Saves
<1>2. Rows' /\ Known' /\ (saved.flagged => saved'.flagged)
  BY <1>1, SavedRows
<1>3. ProjectionTypeOK'
  BY <1>0, <1>1 DEF ProjectionTypeOK, TaskType
<1>4. BookedOrFlagged'
  BY <1>0, <1>2 DEF BookedOrFlagged, Settled
<1>5. Doing'
  <2>1. CASE task' = Idle
    BY <2>1 DEF Doing, Idle
  <2>2. QED
    BY <1>1, <2>1
<1>6. QED
  BY <1>2, <1>3, <1>4, <1>5 DEF ProjectionInv

\* A step that leaves the evidence, the rows and the ledger.
LEMMA Moves ==
  ASSUME ProjectionInv, UNCHANGED <<order, journal, booked, saved, row, slips>>,
         task' \in TaskType, faults' \in 0..MaxFaults, Doing'
  PROVE  ProjectionInv'
<1>1. ProjectionTypeOK' /\ Rows' /\ Known' /\ BookedOrFlagged'
  BY DEF ProjectionInv, ProjectionTypeOK, TaskType, Rows, Known, BookedOrFlagged, Settled
<1>2. QED
  BY <1>1 DEF ProjectionInv

-----------------------------------------------------------------------------
LEMMA ProjectionNext == ProjectionInv /\ [Next]_vars => ProjectionInv'
<1> SUFFICES ASSUME ProjectionInv, [Next]_vars PROVE ProjectionInv'
  OBVIOUS
<1>0. /\ ProjectionTypeOK /\ Rows /\ Known /\ Doing /\ BookedOrFlagged
      /\ task \in TaskType /\ row \in RowType /\ saved \in RowType
      /\ faults \in 0..MaxFaults /\ (Fault => faults' \in 0..MaxFaults)
      /\ Idle \in TaskType
  BY FaultCounted DEF ProjectionInv, ProjectionTypeOK, TaskType, Idle, Intents
<1>1. ASSUME NEW i \in Intents, Postback(i) PROVE ProjectionInv'
  <2>1. PICK s \in Told(i) : Consume(i, s)
    BY <1>1 DEF Postback
  <2>2. QED
    BY <1>0, <2>1, ToldIsTrue, Consumes
<1>2. ASSUME NEW i \in Intents, Recover(i) PROVE ProjectionInv'
  <2> DEFINE s == [filled |-> order[i].filled, final |-> Final(order[i])]
  <2>1. s \in Told(i) /\ Consume(i, s)
    BY <1>2 DEF Recover, Told
  <2> HIDE DEF s
  <2>2. QED
    BY <1>0, <2>1, ToldIsTrue, Consumes
<1>3. ASSUME NEW i \in Intents, Fill(i) \/ Die(i) PROVE ProjectionInv'
  <2>0. order[i].state = "OPEN" /\ UNCHANGED <<journal, booked, saved, row, task, faults, slips>>
    BY <1>3 DEF Fill, Die
  <2>1. /\ order' \in [Intents -> [state : {"none", "OPEN", "COMPLETE", "DEAD"}, qty : 0..Lots, filled : 0..Lots]]
        /\ \A k \in Intents : /\ order'[k].state = "OPEN" => order'[k].filled < order'[k].qty
                              /\ order[k].filled <= order'[k].filled
                              /\ order'[k].state # "none" => order[k].state # "none"
                              /\ order[k].state # "none" => order'[k].state # "none"
    <3>1. CASE Die(i)
      BY <1>0, <3>1 DEF Die, ProjectionTypeOK
    <3>2. CASE Fill(i)
      <4> DEFINE n == order[i].filled + 1
                 st == IF order[i].filled + 1 = order[i].qty THEN "COMPLETE" ELSE order[i].state
                 o == [order[i] EXCEPT !.filled = n, !.state = st]
      <4>0. order[i] \in [state : {"none", "OPEN", "COMPLETE", "DEAD"}, qty : 0..Lots, filled : 0..Lots]
        BY <1>0 DEF ProjectionTypeOK
      <4>1. order[i].filled < order[i].qty
        BY <1>0, <2>0 DEF ProjectionTypeOK
      <4>2. /\ n \in 0..Lots /\ order[i].filled <= n /\ st \in {"OPEN", "COMPLETE"}
            /\ st = "OPEN" => n < order[i].qty
        BY <2>0, <4>0, <4>1, LotsAssumption
      <4>3. order' = [order EXCEPT ![i] = o]
        BY <3>2 DEF Fill
      <4> HIDE DEF n, st
      <4>4. /\ o \in [state : {"none", "OPEN", "COMPLETE", "DEAD"}, qty : 0..Lots, filled : 0..Lots]
            /\ o.state = st /\ o.qty = order[i].qty /\ o.filled = n
        BY <4>0, <4>2
      <4> HIDE DEF o
      <4>5. QED
        BY <1>0, <2>0, <4>2, <4>3, <4>4 DEF ProjectionTypeOK
    <3>3. QED
      BY <1>3, <3>1, <3>2
  <2>2. ProjectionTypeOK'
    BY <1>0, <2>0, <2>1 DEF ProjectionTypeOK
  <2>3. Rows' /\ Known' /\ Doing' /\ BookedOrFlagged'
    BY <1>0, <2>0, <2>1 DEF Rows, Known, Doing, BookedOrFlagged, Settled, Intents
  <2>4. QED
    BY <2>2, <2>3 DEF ProjectionInv
<1>4. CASE Acknowledge
  <2>1. /\ task = Idle /\ row.status = "none" /\ row' = NewRow /\ saved' \in {saved, NewRow}
        /\ faults' \in 0..MaxFaults /\ UNCHANGED <<order, journal, booked, task, slips>>
    BY <1>0, <1>4 DEF Acknowledge
  <2>2. saved.status = "none" /\ ~saved.flagged
    BY <1>0, <2>1 DEF Rows
  <2>3. NewRow.status = "PENDING"
    BY DEF NewRow
  <2>4. Rows' /\ Known'
    BY <2>1, <2>2, <2>3, NewRowType, SavedRows
  <2>5. ProjectionTypeOK'
    BY <1>0, <2>1, NewRowType DEF ProjectionTypeOK
  <2>6. Doing' /\ BookedOrFlagged'
    BY <1>0, <2>1, <2>2 DEF Doing, Idle, BookedOrFlagged, Settled
  <2>7. QED
    BY <2>4, <2>5, <2>6 DEF ProjectionInv
<1>5. CASE Register
  <2>1. /\ task.id = "entry" /\ row.status = "none" /\ SaveStrict(NewRow, "save")
        /\ UNCHANGED <<order, journal, booked, slips>>
    BY <1>5 DEF Register, At
  <2>2. saved.status = "none" /\ NewRow.status = "PENDING"
    BY <1>0, <2>1 DEF Rows, NewRow
  <2>3. row' = NewRow
    BY <2>1 DEF SaveStrict
  <2>4. saved' = NewRow /\ task'.pc = "save" /\ task'.id = task.id => Doing'
    BY <2>1, <2>2, <2>3 DEF Doing
  <2>5. QED
    BY <2>1, <2>2, <2>4, NewRowType, SavesInv
<1>6. CASE Skip
  <2>1. /\ journal' = [journal EXCEPT !["entry"].pending = FALSE] /\ task' = Idle
        /\ Slip("skipped", booked["entry"] < journal["entry"].filled)
        /\ UNCHANGED <<order, booked, saved, row, faults>>
    BY <1>6 DEF Skip
  <2>2. /\ journal' \in [Intents -> [state : {"none", "SENT", "WORKING", "DONE"}, filled : 0..Lots, pending : BOOLEAN]]
        /\ \A i \in Intents : /\ journal'[i].state = journal[i].state /\ journal'[i].filled = journal[i].filled
                              /\ i # "entry" => journal'[i] = journal[i]
    BY <1>0, <2>1 DEF ProjectionTypeOK, Intents
  <2>3. ProjectionTypeOK'
    BY <1>0, <2>1, <2>2 DEF ProjectionTypeOK, TaskType
  <2>4. Rows' /\ Known' /\ Doing'
    BY <1>0, <2>1, <2>2 DEF Rows, Known, Doing, Idle, Intents
  <2>5. "skipped" \notin slips' => booked["entry"] = journal["entry"].filled /\ "skipped" \notin slips
    BY <1>0, <2>1 DEF Slip, ProjectionTypeOK, Intents
  <2>6. BookedOrFlagged'
    BY <1>0, <2>1, <2>2, <2>5 DEF BookedOrFlagged, Settled, Intents
  <2>7. QED
    BY <2>3, <2>4, <2>6 DEF ProjectionInv
<1>7. CASE Project
  <2>1. /\ task.id = "entry" /\ row.status # "none" /\ SaveStrict(EntryRow, "book")
        /\ task.pc = "save" \/ (task.pc = "register" /\ ~Over)
        /\ UNCHANGED <<order, journal, booked>>
        /\ "skipped" \in slips => "skipped" \in slips'
    BY <1>7 DEF Project, Slip
  <2>2. saved.status \notin {"CLOSED", "REJECTED"}
    BY <1>0, <2>1 DEF Doing, Rows, Over
  <2>3. /\ EntryRow \in RowType /\ EntryRow.flagged = row.flagged
        /\ EntryRow.status \in {"OPEN", "PENDING", "REJECTED"}
        /\ EntryRow.status = "REJECTED" => journal["entry"].filled = 0 /\ journal["entry"].state = "DONE"
    BY <1>0, EntryRowType
  <2>4. saved' = EntryRow /\ task'.pc = "book" /\ task'.id = task.id => Doing'
    BY <2>1, <2>3 DEF Doing
  <2>5. QED
    BY <2>1, <2>2, <2>3, <2>4, SavesInv
<1>8. CASE Book
  <2> DEFINE d == task.id
  <2>1. /\ task.pc = "book" /\ d \in Intents /\ booked' = [booked EXCEPT ![d] = journal[d].filled]
        /\ Goto(After(d)) /\ UNCHANGED <<order, journal, saved, row, faults, slips>>
    BY <1>0, <1>8 DEF Book, TaskType
  <2>2. /\ task' \in TaskType /\ task'.id = d /\ task'.pc = After(d)
        /\ After(d) = IF d = "entry" THEN "mark" ELSE "save"
    BY <1>0, <2>1 DEF Goto, TaskType, After
  <2>3. /\ booked'[d] = journal[d].filled /\ \A i \in Intents : i # d => booked'[i] = booked[i]
        /\ booked' \in [Intents -> 0..Lots] /\ \A i \in Intents : booked[i] <= booked'[i]
        /\ booked["entry"] \in Nat /\ booked'["entry"] \in Nat
    BY <1>0, <2>1 DEF ProjectionTypeOK, Intents
  <2>4. ProjectionTypeOK'
    BY <1>0, <2>1, <2>2, <2>3 DEF ProjectionTypeOK, TaskType
  <2>5. Rows' /\ Known'
    BY <1>0, <2>1, <2>3 DEF Rows, Known, Doing, Intents
  <2>6. Doing'
    BY <1>0, <2>1, <2>2, <2>3 DEF Doing, Settled, Intents
  <2>7. BookedOrFlagged'
    BY <1>0, <2>1, <2>3 DEF BookedOrFlagged, Settled
  <2>8. QED
    BY <2>4, <2>5, <2>6, <2>7 DEF ProjectionInv
<1>9. CASE BookRefused
  <2>1. /\ task.pc = "book" /\ faults' \in 0..MaxFaults
        /\ task' = [task EXCEPT !.pc = IF task.id = "entry" THEN "flag" ELSE "save", !.bad = TRUE]
        /\ UNCHANGED <<order, journal, booked, saved, row, slips>>
    BY <1>0, <1>9 DEF BookRefused
  <2>2. /\ task' \in TaskType /\ task'.id = task.id /\ task'.bad
        /\ task'.pc = IF task.id = "entry" THEN "flag" ELSE "save"
    BY <1>0, <2>1 DEF TaskType
  <2>3. Doing'
    BY <1>0, <2>1, <2>2 DEF Doing
  <2>4. QED
    BY <2>1, <2>2, <2>3, Moves
<1>10. CASE Flag
  <2> DEFINE r == [row EXCEPT !.flagged = TRUE]
  <2>1. task.pc = "flag" /\ UNCHANGED <<order, journal, booked, slips>>
    BY <1>10 DEF Flag
  <2>2. row.status # "none"
    BY <1>0, <2>1 DEF Doing, Known, Rows, TaskType, Intents
  <2>3. SaveStrict(r, "mark")
    BY <1>10, <2>2 DEF Flag
  <2>4. r \in RowType /\ r.status = row.status /\ r.flagged = TRUE
    BY <1>0 DEF RowType
  <2> HIDE DEF r
  <2>5. row' = r
    BY <2>3 DEF SaveStrict
  <2>6. saved' = r /\ task'.pc = "mark" /\ task'.id = task.id => Doing'
    BY <1>0, <2>1, <2>2, <2>4 DEF Doing, Settled
  <2>7. QED
    BY <1>0, <2>1, <2>2, <2>3, <2>4, <2>6, SavesInv DEF Rows
<1>11. CASE Mark
  <2>1. PICK d \in Intents :
        /\ d = task.id /\ task.pc = "mark" /\ journal' = [journal EXCEPT ![d].pending = FALSE] /\ task' = Idle
        /\ UNCHANGED <<order, booked, saved, row, faults, slips>>
    BY <1>0, <1>11 DEF Mark, TaskType
  <2>2. /\ journal' \in [Intents -> [state : {"none", "SENT", "WORKING", "DONE"}, filled : 0..Lots, pending : BOOLEAN]]
        /\ \A i \in Intents : /\ journal'[i].state = journal[i].state /\ journal'[i].filled = journal[i].filled
                              /\ i # d => journal'[i] = journal[i]
    <3>1. journal \in [Intents -> [state : {"none", "SENT", "WORKING", "DONE"}, filled : 0..Lots, pending : BOOLEAN]]
      BY <1>0 DEF ProjectionInv, ProjectionTypeOK
    <3>2. journal' = [journal EXCEPT ![d].pending = FALSE]
      BY <2>1
    <3>3. QED
      BY <3>1, <3>2
  <2>3. ProjectionTypeOK'
    BY <1>0, <2>1, <2>2 DEF ProjectionTypeOK, TaskType
  <2>4. Rows' /\ Known' /\ Doing'
    BY <1>0, <2>1, <2>2 DEF Rows, Known, Doing, Idle, Intents
  <2>5. Settled(d)
    BY <1>0, <2>1 DEF Doing
  <2>6. BookedOrFlagged'
    BY <1>0, <2>1, <2>2, <2>5 DEF BookedOrFlagged, Settled
  <2>7. QED
    BY <2>3, <2>4, <2>6 DEF ProjectionInv
<1>12. CASE ProjectExit
  <2> DEFINE pc == IF task.bad THEN "flag" ELSE "mark"
  <2>1. task.pc = "save" /\ task.id = "exit" /\ UNCHANGED <<order, journal, booked, slips>>
    BY <1>12 DEF ProjectExit, At
  <2>2. row.status # "none" /\ saved.status # "none" /\ booked["entry"] > 0
    BY <1>0, <2>1 DEF Doing, Known, Rows
  <2>3. SaveStrict(ExitRow, pc) /\ pc \in {"flag", "mark"}
    BY <1>12, <2>2 DEF ProjectExit
  <2>4. row.status # "REJECTED"
    BY <1>0, <2>2 DEF Rows, ProjectionTypeOK, Intents
  <2>5. ExitRow \in RowType /\ ExitRow.flagged = row.flagged /\ ExitRow.status \in {row.status, "CLOSED"}
    BY <1>0, ExitRowType
  <2>6. task.bad \/ booked["exit"] = journal["exit"].filled
    BY <1>0, <2>1 DEF Doing
  <2>7. pc = "mark" => booked["exit"] = journal["exit"].filled
    BY <2>6
  <2> HIDE DEF pc
  <2>8. saved' = ExitRow /\ task'.pc = pc /\ task'.id = task.id => Doing'
    BY <1>0, <2>1, <2>3, <2>7 DEF Doing, Settled
  <2>9. saved.status \in {"CLOSED", "REJECTED"} => ExitRow.status = saved.status
    BY <1>0, <2>4, <2>5 DEF Rows
  <2>10. ExitRow.status # "none" /\ ExitRow.status # "REJECTED"
    BY <2>2, <2>4, <2>5
  <2>11. QED
    BY <2>1, <2>3, <2>5, <2>8, <2>9, <2>10, SavesInv
<1>13. CASE PlaceExit
  <2>1. PICK q \in 1..Net : order' = [order EXCEPT !["exit"] = [state |-> "OPEN", qty |-> q, filled |-> 0]]
    BY <1>13 DEF PlaceExit
  <2>2. /\ order["exit"].state = "none" /\ journal' = [journal EXCEPT !["exit"].state = "SENT"]
        /\ UNCHANGED <<booked, saved, row, task, faults, slips>>
    BY <1>13 DEF PlaceExit
  <2>3. q \in 1..Lots /\ booked["entry"] > 0
    BY <1>0, <2>1, LotsAssumption DEF Net, ProjectionTypeOK, Intents
  <2>4. /\ journal' \in [Intents -> [state : {"none", "SENT", "WORKING", "DONE"}, filled : 0..Lots, pending : BOOLEAN]]
        /\ \A i \in Intents : journal'[i].filled = journal[i].filled /\ journal'[i].pending = journal[i].pending
        /\ journal'["entry"] = journal["entry"]
    BY <1>0, <2>2 DEF ProjectionTypeOK, Intents
  <2>5. /\ order' \in [Intents -> [state : {"none", "OPEN", "COMPLETE", "DEAD"}, qty : 0..Lots, filled : 0..Lots]]
        /\ \A i \in Intents : order'[i].state = "OPEN" => order'[i].filled < order'[i].qty
        /\ order'["entry"] = order["entry"]
        /\ order'["exit"].filled = 0 /\ order'["exit"].state = "OPEN"
    BY <1>0, <2>1, <2>3, LotsAssumption DEF ProjectionTypeOK, Intents
  <2>6. journal["exit"].filled = 0
    BY <1>0, <2>2 DEF ProjectionTypeOK, Intents, Known
  <2>7. ProjectionTypeOK'
    BY <1>0, <2>2, <2>4, <2>5, <2>6 DEF ProjectionTypeOK, Intents
  <2>8. Rows' /\ Known' /\ Doing' /\ BookedOrFlagged'
    BY <1>0, <2>2, <2>3, <2>4, <2>5, <2>6 DEF Rows, Known, Doing, BookedOrFlagged, Settled, Intents
  <2>9. QED
    BY <2>7, <2>8 DEF ProjectionInv
<1>14. CASE Crash
  <2>1. row' = saved /\ task' = Idle /\ faults' \in 0..MaxFaults /\ UNCHANGED <<order, journal, booked, saved, slips>>
    BY <1>0, <1>14 DEF Crash
  <2>2. ProjectionTypeOK'
    BY <1>0, <2>1 DEF ProjectionTypeOK, TaskType
  <2>3. Rows' /\ Known' /\ Doing' /\ BookedOrFlagged'
    BY <1>0, <2>1 DEF Rows, Known, Doing, Idle, BookedOrFlagged, Settled
  <2>4. QED
    BY <2>2, <2>3 DEF ProjectionInv
<1>15. CASE UNCHANGED vars
  BY <1>0, <1>15, Moves DEF vars, Doing, Settled
<1>16. QED
  BY <1>1, <1>2, <1>3, <1>4, <1>5, <1>6, <1>7, <1>8, <1>9, <1>10, <1>11, <1>12, <1>13, <1>14, <1>15
     DEF Next, Step, Work

LEMMA ProjectionInvariance == Spec => []ProjectionInv
BY ProjectionInit, ProjectionNext, PTL DEF Spec

-----------------------------------------------------------------------------
\* The tables, the registry and the task of consume_order are well formed; nothing is
\* booked that the journal does not know, nor known that the broker did not do.
THEOREM ProjectionTypesHold == Spec => []ProjectionTypeOK
BY ProjectionInvariance, PTL DEF ProjectionInv

\* No fill whose projection is acknowledged is missing from the ledger without a flag on
\* the row, wherever the process died and whatever was refused (execution_lifecycle.py,
\* consume_order).
THEOREM FillsAreBookedOrFlagged == Spec => []BookedOrFlagged
BY ProjectionInvariance, PTL DEF ProjectionInv

\* A row that is over is over in memory too, and no step changes its status.
LEMMA OverKept ==
  ASSUME ProjectionInv, [Next]_vars, saved.status \in {"CLOSED", "REJECTED"}
  PROVE  saved'.status = saved.status
<1>0. ProjectionTypeOK /\ Rows /\ Known /\ Doing /\ row.status = saved.status
  BY DEF ProjectionInv, Rows
<1>1. ASSUME NEW r, NEW pc, SaveStrict(r, pc), r.status = saved.status PROVE saved'.status = saved.status
  BY <1>1 DEF SaveStrict
<1>2. CASE Acknowledge
  BY <1>0, <1>2 DEF Acknowledge
<1>3. CASE Register
  BY <1>0, <1>3 DEF Register
<1>4. CASE Project
  BY <1>0, <1>4 DEF Project, Over, Doing
<1>5. CASE Flag
  <2> DEFINE r == [row EXCEPT !.flagged = TRUE]
  <2>1. saved' = saved \/ SaveStrict(r, "mark")
    BY <1>5 DEF Flag
  <2>2. r.status = row.status
    BY <1>0 DEF ProjectionTypeOK, RowType
  <2> HIDE DEF r
  <2>3. QED
    BY <1>0, <1>1, <2>1, <2>2
<1>6. CASE ProjectExit
  <2>1. task.pc = "save" /\ task.id = "exit"
    BY <1>6 DEF ProjectExit, At
  <2>2. booked["entry"] > 0
    BY <1>0, <2>1 DEF Doing, Known
  <2>3. row.status = "CLOSED"
    BY <1>0, <2>2 DEF Rows, ProjectionTypeOK, Intents
  <2>4. ExitRow.status = saved.status
    BY <1>0, <2>3, ExitRowType
  <2>5. \E pc : SaveStrict(ExitRow, pc)
    BY <2>3, <1>6 DEF ProjectExit
  <2>6. QED
    BY <1>1, <2>4, <2>5
<1>7. QED
  BY <1>2, <1>3, <1>4, <1>5, <1>6
     DEF Next, Step, Work, Postback, Recover, Consume, Fill, Die, Skip, Book, BookRefused, Mark, PlaceExit, Crash, vars

\* Replayed evidence does not reopen a row that is over (execution_lifecycle.py,
\* consume_order).
THEOREM OverIsOver == Spec => NeverReopened
<1>1. ProjectionInv /\ [Next]_vars =>
        [saved.status \in {"CLOSED", "REJECTED"} => saved'.status = saved.status]_vars
  BY OverKept
<1>2. QED
  BY <1>1, ProjectionInvariance, PTL DEF Spec, NeverReopened

-----------------------------------------------------------------------------
(* The row in the store *)

\* An exit takes no more than the ledger holds of its entry.
Covered ==
  /\ \A i \in Intents : order[i].filled <= order[i].qty
  /\ order["exit"].state # "none" => order["exit"].qty <= booked["entry"]

\* No row holds more than the entry has bought, and one that is closed has been sold out.
Bounded ==
  /\ row.qty <= journal["entry"].filled /\ saved.qty <= journal["entry"].filled
  /\ saved.status = "none" => saved.qty = 0
  /\ saved.status = "CLOSED" => saved.qty = 0
  /\ row.status = "CLOSED" => row.qty = 0 /\ journal["exit"].state = "DONE" /\ Net = 0
  /\ task.id = "entry" /\ task.pc \in {"save", "book", "flag"} => row.status # "CLOSED"

\* The row in the store is what projecting the exit makes of it.
ExitSaved ==
  /\ saved.qty = Net
  /\ Net = 0 /\ journal["exit"].state = "DONE" => saved.status = "CLOSED"

\* Until an exit fills, a row whose entry is projected holds the entry; from then on, and
\* once the exit is projected, it holds what the ledger does.
Mirrored ==
  slips = {} /\ ~saved.flagged =>
    /\ journal["exit"].filled = 0 /\ journal["entry"].state # "SENT" /\ ~journal["entry"].pending
         => saved.qty = journal["entry"].filled
    /\ journal["exit"].filled > 0 /\ ~journal["exit"].pending => ExitSaved
    /\ task.id = "entry" /\ task.pc \in {"book", "mark"}
         => journal["exit"].filled = 0 /\ saved.qty = journal["entry"].filled
    /\ task.id = "exit" /\ task.pc = "mark" => ExitSaved

RowInv == Covered /\ Bounded /\ Mirrored

-----------------------------------------------------------------------------
LEMMA RowInit == Init => RowInv
BY LotsAssumption DEF Init, RowInv, Covered, Bounded, Mirrored, ExitSaved, Net, NoRow, Idle, Intents

\* The quantities are numbers, and the ledger holds what an exit has taken.
LEMMA Quantities ==
  ASSUME ProjectionInv, Covered
  PROVE  /\ \A i \in Intents : /\ order[i].qty \in Nat /\ order[i].filled \in Nat
                               /\ journal[i].filled \in Nat /\ booked[i] \in Nat
                               /\ booked[i] <= journal[i].filled /\ journal[i].filled <= order[i].filled
         /\ row.qty \in Nat /\ saved.qty \in Nat /\ Lots \in Nat
         /\ journal["exit"].filled <= booked["entry"]
         /\ Net \in Nat /\ Net = booked["entry"] - booked["exit"] /\ Net <= journal["entry"].filled
         /\ Abs(Net) = Net
<1>1. /\ \A i \in Intents : /\ order[i].qty \in Nat /\ order[i].filled \in Nat
                            /\ journal[i].filled \in Nat /\ booked[i] \in Nat
                            /\ booked[i] <= journal[i].filled /\ journal[i].filled <= order[i].filled
      /\ row.qty \in Nat /\ saved.qty \in Nat /\ Lots \in Nat
  BY LotsAssumption DEF ProjectionInv, ProjectionTypeOK, RowType
<1>2. journal["exit"].filled <= booked["entry"]
  <2>1. CASE order["exit"].state = "none"
    BY <1>1, <2>1 DEF ProjectionInv, Known, Intents
  <2>2. CASE order["exit"].state # "none"
    BY <1>1, <2>2 DEF Covered, Intents
  <2>3. QED
    BY <2>1, <2>2
<1>3. Net \in Nat /\ Net = booked["entry"] - booked["exit"] /\ Net <= journal["entry"].filled
  BY <1>1, <1>2 DEF Net, Intents
<1>4. QED
  BY <1>1, <1>2, <1>3 DEF Abs

LEMMA EntryRowFields ==
  ASSUME ProjectionInv
  PROVE  EntryRow.qty = journal["entry"].filled /\ EntryRow.flagged = row.flagged
         /\ EntryRow.status \in {"OPEN", "PENDING", "REJECTED"}
<1>1. row \in RowType /\ ProjectionTypeOK
  BY DEF ProjectionInv, ProjectionTypeOK
<1>2. EntryRow.qty = journal["entry"].filled
  BY <1>1 DEF EntryRow, RowType
<1>3. QED
  BY <1>1, <1>2, EntryRowType

LEMMA ExitRowFields ==
  ASSUME ProjectionInv, Covered
  PROVE  /\ ExitRow.qty = Net /\ ExitRow.flagged = row.flagged
         /\ ExitRow.status = IF Net = 0 /\ journal["exit"].state = "DONE" THEN "CLOSED" ELSE row.status
<1>1. row \in RowType
  BY DEF ProjectionInv, ProjectionTypeOK
<1>2. ExitRow.qty = Abs(Net) /\ ExitRow.flagged = row.flagged
         /\ ExitRow.status = IF Net = 0 /\ journal["exit"].state = "DONE" THEN "CLOSED" ELSE row.status
  BY <1>1 DEF ExitRow, RowType
<1>3. QED
  BY <1>2, Quantities

\* An exit can only have been sent once the entry was booked.
LEMMA ExitKnown ==
  ASSUME ProjectionInv
  PROVE  /\ journal["exit"].state # "none" => booked["entry"] > 0
         /\ journal["exit"].filled > 0 => journal["exit"].state \notin {"none", "SENT"}
         /\ saved.status = "none" => order["exit"].state = "none" /\ booked["entry"] = 0
         /\ saved.status = "none" => journal["exit"].filled = 0 /\ journal["exit"].state = "none"
BY DEF ProjectionInv, Known, ProjectionTypeOK, Intents

\* New evidence is pending, and never less than what was known.
LEMMA ConsumedRow ==
  ASSUME ProjectionInv, RowInv, NEW i \in Intents, NEW s, Consume(i, s),
         s.filled \in 0..order[i].filled, s.final => s.filled = order[i].filled
  PROVE  RowInv'
<1>0. /\ ProjectionTypeOK /\ Known /\ Covered /\ Bounded /\ Mirrored
      /\ task = Idle /\ UNCHANGED <<order, booked, saved, row, faults, slips>>
      /\ journal' = Observed(i, s)
  BY DEF ProjectionInv, RowInv, Consume
<1>1. Fresh(i, s) => journal[i].filled <= s.filled /\ journal[i].state # "DONE"
  <2>1. s.filled \in Nat /\ journal[i].filled \in Nat /\ journal[i].filled <= order[i].filled /\ order[i].filled \in Nat
    BY <1>0, Quantities
  <2>2. s.filled <= order[i].filled
    BY <2>1
  <2>3. journal[i].state = "SENT" => journal[i].filled = 0
    BY <1>0 DEF Known
  <2>4. s.final => s.filled = order[i].filled
    OBVIOUS
  <2>5. QED
    BY <2>1, <2>2, <2>3, <2>4 DEF Fresh
<1>2. \A k \in Intents :
        \/ journal'[k] = journal[k]
        \/ journal'[k].pending /\ journal[k].state # "DONE" /\ journal[k].filled <= journal'[k].filled
  BY <1>0, <1>1 DEF Observed, ProjectionTypeOK
<1>3. task'.pc = "idle" \/ (task'.pc = "book" /\ task'.id = "exit") \/ (task'.pc = "register" /\ task'.id = "entry")
  <2>1. \/ i = "exit" /\ task' = [Idle EXCEPT !.pc = "book", !.id = i]
        \/ i = "entry" /\ task' = [Idle EXCEPT !.pc = "register", !.id = i]
        \/ task' = Idle
    BY DEF Consume, Intents
  <2>2. CASE i = "exit" /\ task' = [Idle EXCEPT !.pc = "book", !.id = i]
    <3>1. task' = [pc |-> "book", id |-> "exit", bad |-> FALSE]
      BY <2>2 DEF Idle
    <3>2. QED
      BY <3>1
  <2>3. CASE i = "entry" /\ task' = [Idle EXCEPT !.pc = "register", !.id = i]
    <3>1. task' = [pc |-> "register", id |-> "entry", bad |-> FALSE]
      BY <2>3 DEF Idle
    <3>2. QED
      BY <3>1
  <2>4. CASE task' = Idle
    BY <2>4 DEF Idle
  <2>5. QED
    BY <2>1, <2>2, <2>3, <2>4
<1>4. Covered'
  BY <1>0 DEF Covered
<1>5. /\ journal["entry"].filled <= journal'["entry"].filled
      /\ ~journal'["entry"].pending => journal'["entry"] = journal["entry"]
      /\ ~journal'["exit"].pending => journal'["exit"] = journal["exit"]
      /\ journal["exit"].state = "DONE" => journal'["exit"] = journal["exit"]
      /\ journal["exit"].filled <= journal'["exit"].filled
      /\ journal["exit"].filled \in Nat /\ journal'["exit"].filled \in Nat
      /\ journal["entry"].filled \in Nat /\ journal'["entry"].filled \in Nat
      /\ row.qty \in Nat /\ saved.qty \in Nat
  <2>1. \A k \in Intents : journal[k].filled \in Nat
    BY <1>0, Quantities DEF ProjectionInv
  <2>2. \A k \in Intents : journal'[k].filled \in Nat
    <3>1. s.filled \in Nat
      BY <1>0, Quantities
    <3>2. QED
      BY <1>0, <2>1, <3>1 DEF Observed, ProjectionTypeOK
  <2>3. "entry" \in Intents /\ "exit" \in Intents
    BY DEF Intents
  <2>4. QED
    BY <1>0, <1>2, <2>1, <2>2, <2>3, Quantities
<1>6. Net' = Net
  BY <1>0 DEF Net
<1>7. Bounded'
  BY <1>0, <1>3, <1>5, <1>6 DEF Bounded
<1>8. Mirrored'
  BY <1>0, <1>3, <1>5, <1>6 DEF Mirrored, ExitSaved
<1>9. QED
  BY <1>4, <1>7, <1>8 DEF RowInv

\* A row that is written while nothing new is known: in memory, and in the store if the
\* task goes on.
LEMMA WrittenRow ==
  ASSUME ProjectionInv, RowInv, NEW r, row' = r, saved' \in {saved, r}, r.qty \in Nat,
         UNCHANGED <<order, journal, booked>>, slips \subseteq slips',
         r.qty <= journal["entry"].filled, r.status # "none",
         saved.flagged => r.flagged,
         r.status = "CLOSED" =>
           r.qty = 0 /\ journal["exit"].state = "DONE" /\ Net = 0,
         task'.id = "entry" /\ task'.pc \in {"save", "book", "flag"} => r.status # "CLOSED",
         \* what the store owes to the two orders
         slips' = {} /\ saved' = r /\ ~r.flagged =>
           /\ journal["exit"].filled = 0 /\ journal["entry"].state # "SENT" /\ ~journal["entry"].pending
                => r.qty = journal["entry"].filled
           /\ journal["exit"].filled > 0 /\ ~journal["exit"].pending => ExitSaved',
         slips' = {} /\ ~saved'.flagged /\ task'.pc \in {"book", "mark"} /\ task'.id = "entry" =>
           journal["exit"].filled = 0 /\ saved'.qty = journal["entry"].filled,
         slips' = {} /\ ~saved'.flagged /\ task'.pc = "mark" /\ task'.id = "exit" => ExitSaved'
  PROVE  RowInv'
<1>0. Covered /\ Bounded /\ Mirrored
  BY DEF RowInv
<1>1. Covered'
  BY <1>0 DEF Covered
<1>2. Net' = Net
  BY DEF Net
<1>3. Bounded'
  <2>1. saved'.qty <= journal["entry"].filled
    BY <1>0 DEF Bounded
  <2>2. saved'.status = "none" => saved'.qty = 0
    BY <1>0 DEF Bounded
  <2>3. saved'.status = "CLOSED" => saved'.qty = 0
    BY <1>0 DEF Bounded
  <2>4. QED
    BY <1>2, <2>1, <2>2, <2>3 DEF Bounded
<1>4. slips' = {} => slips = {}
  OBVIOUS
<1>5. CASE saved' = saved
  <2>1. ExitSaved' <=> ExitSaved
    BY <1>2, <1>5 DEF ExitSaved
  <2>2. QED
    BY <1>0, <1>1, <1>3, <1>4, <1>5, <2>1 DEF RowInv, Mirrored
<1>6. CASE saved' = r
  <2>1. Mirrored'
    BY <1>6 DEF Mirrored
  <2>2. QED
    BY <1>1, <1>3, <2>1 DEF RowInv
<1>7. QED
  BY <1>5, <1>6

LEMMA RowNext == ProjectionInv /\ ProjectionInv' /\ RowInv /\ [Next]_vars => RowInv'
<1> SUFFICES ASSUME ProjectionInv, ProjectionInv', RowInv, [Next]_vars PROVE RowInv'
  OBVIOUS
<1>0. /\ ProjectionTypeOK /\ Rows /\ Known /\ Doing /\ BookedOrFlagged
      /\ Covered /\ Bounded /\ Mirrored
      /\ task \in TaskType /\ row \in RowType /\ saved \in RowType
  BY DEF ProjectionInv, RowInv, ProjectionTypeOK, TaskType
<1>q. /\ \A i \in Intents : /\ order[i].qty \in Nat /\ order[i].filled \in Nat
                            /\ journal[i].filled \in Nat /\ booked[i] \in Nat
                            /\ booked[i] <= journal[i].filled /\ journal[i].filled <= order[i].filled
      /\ row.qty \in Nat /\ saved.qty \in Nat /\ Lots \in Nat
      /\ journal["exit"].filled <= booked["entry"]
      /\ Net \in Nat /\ Net = booked["entry"] - booked["exit"] /\ Net <= journal["entry"].filled
      /\ "entry" \in Intents /\ "exit" \in Intents
  BY <1>0, Quantities DEF Intents
<1>k. /\ journal["exit"].state # "none" => booked["entry"] > 0
      /\ journal["exit"].filled > 0 => journal["exit"].state \notin {"none", "SENT"}
      /\ saved.status = "none" => order["exit"].state = "none" /\ booked["entry"] = 0
      /\ saved.status = "none" => journal["exit"].filled = 0 /\ journal["exit"].state = "none"
  BY ExitKnown
<1>1. ASSUME NEW i \in Intents, Postback(i) PROVE RowInv'
  <2>1. PICK s \in Told(i) : Consume(i, s)
    BY <1>1 DEF Postback
  <2>2. s.filled \in 0..order[i].filled /\ (s.final => s.filled = order[i].filled)
    BY <1>0, <2>1, ToldIsTrue
  <2>3. QED
    BY <2>1, <2>2, ConsumedRow
<1>2. ASSUME NEW i \in Intents, Recover(i) PROVE RowInv'
  <2> DEFINE s == [filled |-> order[i].filled, final |-> Final(order[i])]
  <2>1. Consume(i, s)
    BY <1>2 DEF Recover
  <2>2. s.filled \in 0..order[i].filled /\ (s.final => s.filled = order[i].filled)
    BY <1>q
  <2> HIDE DEF s
  <2>3. QED
    BY <2>1, <2>2, ConsumedRow
<1>3. ASSUME NEW i \in Intents, Fill(i) \/ Die(i) PROVE RowInv'
  <2>0. order[i].state = "OPEN" /\ UNCHANGED <<journal, booked, saved, row, task, faults, slips>>
    BY <1>3 DEF Fill, Die
  <2>1. /\ \A k \in Intents : order'[k].qty = order[k].qty /\ order'[k].filled <= order[k].qty
        /\ order'["exit"].state # "none" => order["exit"].state # "none"
    <3>1. CASE Die(i)
      BY <1>0, <1>q, <3>1 DEF Die, ProjectionTypeOK, Covered
    <3>2. CASE Fill(i)
      <4>1. order[i].filled < order[i].qty
        BY <1>0, <2>0 DEF ProjectionTypeOK
      <4>2. PICK st : order' = [order EXCEPT ![i].filled = order[i].filled + 1, ![i].state = st]
        BY <3>2 DEF Fill
      <4>3. order'[i].filled = order[i].filled + 1 /\ order'[i].qty = order[i].qty
            /\ \A k \in Intents : k # i => order'[k] = order[k]
        BY <1>0, <4>2 DEF ProjectionTypeOK
      <4>4. \A k \in Intents : order'[k].qty = order[k].qty /\ order'[k].filled <= order[k].qty
        BY <1>0, <1>q, <4>1, <4>3 DEF Covered
      <4>5. order'["exit"].state # "none" => order["exit"].state # "none"
        BY <2>0, <4>3, <1>q
      <4>6. QED
        BY <4>4, <4>5
    <3>3. QED
      BY <1>3, <3>1, <3>2
  <2>2. Covered'
    BY <1>0, <1>q, <2>0, <2>1 DEF Covered
  <2>3. Bounded' /\ Mirrored'
    BY <1>0, <2>0 DEF Bounded, Mirrored, ExitSaved, Net
  <2>4. QED
    BY <2>2, <2>3 DEF RowInv
<1>4. CASE Acknowledge
  <2>1. /\ task = Idle /\ row.status = "none" /\ row' = NewRow /\ saved' \in {saved, NewRow}
        /\ UNCHANGED <<order, journal, booked, task, slips>>
    BY <1>4 DEF Acknowledge
  <2>2. saved.status = "none" /\ ~saved.flagged /\ saved.qty = 0
    BY <1>0, <2>1 DEF Rows, Bounded
  <2>3. NewRow.status = "PENDING" /\ NewRow.qty = 0 /\ ~NewRow.flagged
    BY DEF NewRow
  <2>4. task'.pc = "idle"
    BY <2>1 DEF Idle
  <2>5. slips = {} /\ journal["exit"].filled = 0 /\ journal["entry"].state # "SENT" /\ ~journal["entry"].pending
          => 0 = journal["entry"].filled
    BY <1>0, <2>2 DEF Mirrored
  <2>6. QED
    BY <1>q, <1>k, <2>1, <2>2, <2>3, <2>4, <2>5, WrittenRow
<1>5. CASE Register
  <2>1. /\ task.id = "entry" /\ row.status = "none" /\ SaveStrict(NewRow, "save")
        /\ UNCHANGED <<order, journal, booked, slips>>
    BY <1>5 DEF Register, At
  <2>2. saved.status = "none" /\ ~saved.flagged /\ saved.qty = 0
    BY <1>0, <2>1 DEF Rows, Bounded
  <2>3. NewRow.status = "PENDING" /\ NewRow.qty = 0 /\ ~NewRow.flagged /\ NewRow \in RowType
    BY NewRowType DEF NewRow
  <2>4. row' = NewRow /\ saved' \in {saved, NewRow} /\ task'.pc \in {"idle", "save"}
    BY <1>0, <2>1, <2>3, Saves DEF Idle
  <2>5. slips = {} /\ journal["exit"].filled = 0 /\ journal["entry"].state # "SENT" /\ ~journal["entry"].pending
          => 0 = journal["entry"].filled
    BY <1>0, <2>2 DEF Mirrored
  <2>6. QED
    BY <1>q, <1>k, <2>1, <2>2, <2>3, <2>4, <2>5, WrittenRow
<1>6. CASE Skip
  <2>1. /\ journal' = [journal EXCEPT !["entry"].pending = FALSE] /\ task' = Idle
        /\ Slip("skipped", booked["entry"] < journal["entry"].filled)
        /\ row.status \in {"CLOSED", "REJECTED"}
        /\ UNCHANGED <<order, booked, saved, row, faults>>
    BY <1>6 DEF Skip, Over
  <2>2. /\ journal'["exit"] = journal["exit"]
        /\ journal'["entry"].state = journal["entry"].state /\ journal'["entry"].filled = journal["entry"].filled
    BY <1>0, <2>1 DEF ProjectionTypeOK, Intents
  <2>3. slips' = {} => slips = {}
    BY <2>1 DEF Slip
  <2>4. Covered' /\ Bounded'
    BY <1>0, <2>1, <2>2 DEF Covered, Bounded, Idle, Net
  <2>5. journal["exit"].filled = 0 => saved.qty = journal["entry"].filled
    <3>1. CASE row.status = "CLOSED"
      <4>1. Net = 0 /\ journal["exit"].state # "none"
        BY <1>0, <3>1 DEF Bounded
      <4>2. booked["entry"] > 0 /\ booked["exit"] = booked["entry"]
        BY <1>q, <1>k, <4>1
      <4>3. booked["exit"] <= journal["exit"].filled
        BY <1>q
      <4>4. journal["exit"].filled # 0
        BY <1>q, <4>2, <4>3
      <4>5. QED
        BY <4>4
    <3>2. CASE row.status = "REJECTED"
      BY <1>0, <1>q, <3>2 DEF Rows, Bounded
    <3>3. QED
      BY <2>1, <3>1, <3>2
  <2>6. Net' = Net
    BY <2>1 DEF Net
  <2>7. Mirrored'
    BY <1>0, <2>1, <2>2, <2>3, <2>5, <2>6 DEF Mirrored, ExitSaved, Idle
  <2>8. QED
    BY <2>4, <2>7 DEF RowInv
<1>7. CASE Project
  <2>1. /\ task.id = "entry" /\ row.status # "none" /\ SaveStrict(EntryRow, "book")
        /\ UNCHANGED <<order, journal, booked>>
        /\ Slip("overwritten", journal["exit"].filled > 0)
    BY <1>7 DEF Project
  <2>2. EntryRow \in RowType /\ EntryRow.qty = journal["entry"].filled /\ EntryRow.flagged = row.flagged
         /\ EntryRow.status \in {"OPEN", "PENDING", "REJECTED"}
    BY <1>0, EntryRowType, EntryRowFields
  <2>3. /\ row' = EntryRow /\ saved' \in {saved, EntryRow}
        /\ \/ saved' = EntryRow /\ task'.pc = "book"
           \/ task'.pc = "idle"
    BY <1>0, <2>1, <2>2, Saves DEF Idle
  <2>4. slips \subseteq slips' /\ (slips' = {} => ~(journal["exit"].filled > 0))
    BY <2>1 DEF Slip
  <2>5. slips' = {} => journal["exit"].filled = 0
    BY <1>q, <2>4
  <2>6. saved.flagged => EntryRow.flagged
    BY <1>0, <2>2 DEF Rows
  <2>7. QED
    BY <1>q, <2>1, <2>2, <2>3, <2>4, <2>5, <2>6, WrittenRow
<1>8. CASE Book
  <2>1. PICK d \in Intents :
        /\ task.pc = "book" /\ d = task.id /\ booked' = [booked EXCEPT ![d] = journal[d].filled]
        /\ Goto(After(d)) /\ UNCHANGED <<order, journal, saved, row, faults, slips>>
    BY <1>0, <1>8 DEF Book, TaskType
  <2>2. task'.id = d /\ task'.pc = IF d = "entry" THEN "mark" ELSE "save"
    BY <1>0, <2>1 DEF Goto, TaskType, After
  <2>3. /\ booked'[d] = journal[d].filled /\ \A i \in Intents : i # d => booked'[i] = booked[i]
    BY <1>0, <2>1 DEF ProjectionTypeOK, Intents
  <2>4. d = "entry" \/ d = "exit"
    BY DEF Intents
  <2>5. booked["entry"] <= booked'["entry"] /\ booked'["entry"] \in Nat /\ (d = "exit" => booked'["entry"] = booked["entry"])
    BY <1>q, <2>3, <2>4
  <2>6. Covered'
    BY <1>0, <1>q, <2>1, <2>5 DEF Covered
  <2>7. Bounded'
    <3>1. row.status = "CLOSED" => d = "exit" /\ Net' = 0
      <4>1. row.status = "CLOSED" => d = "exit" /\ Net = 0
        BY <1>0, <2>1, <2>4 DEF Bounded
      <4>2. d = "exit" /\ Net = 0 => booked'["exit"] = booked["exit"]
        BY <1>q, <2>3
      <4>3. d = "exit" /\ Net = 0 => Net' = Net
        BY <1>q, <2>5, <4>2 DEF Net
      <4>4. QED
        BY <4>1, <4>3
    <3>2. QED
      BY <1>0, <2>1, <2>2, <2>4, <3>1 DEF Bounded
  <2>8. CASE d = "entry"
    <3>1. slips = {} /\ ~saved.flagged => journal["exit"].filled = 0 /\ saved.qty = journal["entry"].filled
      BY <1>0, <2>1, <2>8 DEF Mirrored
    <3>2. Mirrored'
      BY <1>0, <2>1, <2>2, <2>8, <3>1 DEF Mirrored
    <3>3. QED
      BY <2>6, <2>7, <3>2 DEF RowInv
  <2>9. CASE d = "exit"
    <3>1. slips = {} /\ ~saved.flagged /\ ~journal["exit"].pending => booked["exit"] = journal["exit"].filled
      BY <1>0, <1>q DEF BookedOrFlagged, Settled
    <3>2. slips = {} /\ ~saved.flagged /\ ~journal["exit"].pending => Net' = Net
      BY <1>q, <2>3, <2>5, <2>9, <3>1 DEF Net
    <3>3. Mirrored'
      BY <1>0, <2>1, <2>2, <2>9, <3>2 DEF Mirrored, ExitSaved
    <3>4. QED
      BY <2>6, <2>7, <3>3 DEF RowInv
  <2>10. QED
    BY <2>4, <2>8, <2>9
<1>9. CASE BookRefused
  <2>1. /\ task' = [task EXCEPT !.pc = IF task.id = "entry" THEN "flag" ELSE "save", !.bad = TRUE]
        /\ task.pc = "book" /\ UNCHANGED <<order, journal, booked, saved, row, slips>>
    BY <1>9 DEF BookRefused
  <2>2. task'.id = task.id /\ task'.pc = IF task.id = "entry" THEN "flag" ELSE "save"
    BY <1>0, <2>1 DEF TaskType
  <2>3. Covered' /\ Bounded'
    BY <1>0, <2>1, <2>2 DEF Covered, Bounded, Net
  <2>4. Mirrored'
    BY <1>0, <2>1, <2>2 DEF Mirrored, ExitSaved, Net
  <2>5. QED
    BY <2>3, <2>4 DEF RowInv
<1>10. CASE Flag
  <2> DEFINE r == [row EXCEPT !.flagged = TRUE]
  <2>1. task.pc = "flag" /\ UNCHANGED <<order, journal, booked, slips>>
    BY <1>10 DEF Flag
  <2>2. row.status # "none"
    BY <1>0, <2>1 DEF Doing, Known, Rows, TaskType, Intents
  <2>3. SaveStrict(r, "mark")
    BY <1>10, <2>2 DEF Flag
  <2>4. r \in RowType /\ r.status = row.status /\ r.flagged = TRUE /\ r.qty = row.qty
    BY <1>0 DEF RowType
  <2> HIDE DEF r
  <2>5. row' = r /\ saved' \in {saved, r} /\ ((saved' = r /\ task'.pc = "mark") \/ task'.pc = "idle")
    BY <1>0, <2>3, <2>4, Saves DEF Idle
  <2>6. /\ r.qty <= journal["entry"].filled
        /\ r.status = "CLOSED" =>
             r.qty = 0 /\ journal["exit"].state = "DONE" /\ Net = 0
    BY <1>0, <2>4 DEF Bounded
  <2>7. QED
    BY <1>q, <2>1, <2>2, <2>4, <2>5, <2>6, WrittenRow
<1>11. CASE Mark
  <2>1. PICK d \in Intents :
        /\ d = task.id /\ task.pc = "mark" /\ journal' = [journal EXCEPT ![d].pending = FALSE] /\ task' = Idle
        /\ UNCHANGED <<order, booked, saved, row, faults, slips>>
    BY <1>0, <1>11 DEF Mark, TaskType
  <2>2. \A i \in Intents : /\ journal'[i].state = journal[i].state /\ journal'[i].filled = journal[i].filled
                           /\ i # d => journal'[i] = journal[i]
    BY <1>0, <2>1 DEF ProjectionTypeOK
  <2>3. Covered' /\ Bounded'
    BY <1>0, <1>q, <2>1, <2>2 DEF Covered, Bounded, Idle, Net
  <2>4. d = "entry" \/ d = "exit"
    BY DEF Intents
  <2>5. Net' = Net /\ task'.pc = "idle"
    BY <2>1 DEF Net, Idle
  <2>6. /\ slips = {} /\ ~saved.flagged /\ d = "entry" => journal["exit"].filled = 0 /\ saved.qty = journal["entry"].filled
        /\ slips = {} /\ ~saved.flagged /\ d = "exit" => ExitSaved
    BY <1>0, <2>1 DEF Mirrored
  <2>7. Mirrored'
    BY <1>0, <1>q, <2>1, <2>2, <2>4, <2>5, <2>6 DEF Mirrored, ExitSaved
  <2>8. QED
    BY <2>3, <2>7 DEF RowInv
<1>12. CASE ProjectExit
  <2> DEFINE pc == IF task.bad THEN "flag" ELSE "mark"
  <2>1. task.pc = "save" /\ task.id = "exit" /\ UNCHANGED <<order, journal, booked, slips>>
    BY <1>12 DEF ProjectExit, At
  <2>2. row.status # "none" /\ saved.status # "none" /\ booked["entry"] > 0
    BY <1>0, <2>1 DEF Doing, Known, Rows
  <2>3. SaveStrict(ExitRow, pc) /\ pc \in {"flag", "mark"}
    BY <1>12, <2>2 DEF ProjectExit
  <2> HIDE DEF pc
  <2>4. /\ ExitRow \in RowType /\ ExitRow.qty = Net /\ ExitRow.flagged = row.flagged
        /\ ExitRow.status = IF Net = 0 /\ journal["exit"].state = "DONE" THEN "CLOSED" ELSE row.status
    BY <1>0, ExitRowType, ExitRowFields
  <2>5. /\ row' = ExitRow /\ saved' \in {saved, ExitRow}
        /\ \/ saved' = ExitRow /\ task'.id = "exit"
           \/ task'.pc = "idle"
    BY <1>0, <2>1, <2>3, <2>4, Saves DEF Idle
  <2>6. Net' = Net
    BY <2>1 DEF Net
  <2>7. saved' = ExitRow => ExitSaved'
    BY <2>1, <2>4, <2>6 DEF ExitSaved
  <2>8. saved.flagged => ExitRow.flagged
    BY <1>0, <2>4 DEF Rows
  <2>9. row.status = "CLOSED" => Net = 0 /\ journal["exit"].state = "DONE"
    BY <1>0 DEF Bounded
  <2>10. Net <= journal["entry"].filled
    BY <1>q
  <2>11. ExitRow.status # "none"
    BY <2>2, <2>4
  <2>12. ExitRow.status = "CLOSED" => ExitRow.qty = 0 /\ journal["exit"].state = "DONE" /\ Net = 0
    BY <2>4, <2>9
  <2>13. ~ExitRow.flagged /\ slips = {} /\ journal["exit"].filled = 0 /\ ~journal["entry"].pending
           => Net = journal["entry"].filled
    <3>1. ~ExitRow.flagged /\ slips = {} /\ ~journal["entry"].pending => booked["entry"] = journal["entry"].filled
      BY <1>0, <1>q, <2>8 DEF BookedOrFlagged, Settled
    <3>2. journal["exit"].filled = 0 => booked["exit"] = 0
      BY <1>q
    <3>3. QED
      BY <1>q, <3>1, <3>2
  <2>14. QED
    BY <1>q, <2>1, <2>4, <2>5, <2>7, <2>8, <2>10, <2>11, <2>12, <2>13, WrittenRow
<1>13. CASE PlaceExit
  <2>1. PICK q \in 1..Net : order' = [order EXCEPT !["exit"] = [state |-> "OPEN", qty |-> q, filled |-> 0]]
    BY <1>13 DEF PlaceExit
  <2>2. /\ order["exit"].state = "none" /\ journal' = [journal EXCEPT !["exit"].state = "SENT"]
        /\ UNCHANGED <<booked, saved, row, task, faults, slips>>
    BY <1>13 DEF PlaceExit
  <2>3. q \in Nat /\ q <= booked["entry"]
    BY <1>q, <2>1
  <2>4. /\ \A i \in Intents : journal'[i].filled = journal[i].filled /\ journal'[i].pending = journal[i].pending
        /\ journal'["entry"] = journal["entry"]
        /\ journal["exit"].filled = 0 /\ journal["exit"].state = "none"
    BY <1>0, <2>2 DEF ProjectionTypeOK, Intents, Known
  <2>5. /\ order'["entry"] = order["entry"]
        /\ order'["exit"].filled = 0 /\ order'["exit"].qty = q
    BY <1>0, <2>1 DEF ProjectionTypeOK, Intents
  <2>6. Covered'
    BY <1>0, <2>2, <2>3, <2>5 DEF Covered, Intents
  <2>7. row.status # "CLOSED"
    BY <1>0, <2>4 DEF Bounded
  <2>8. Net' = Net
    BY <2>2 DEF Net
  <2>9. Bounded'
    BY <1>0, <1>q, <2>2, <2>4, <2>7 DEF Bounded
  <2>10. ~(task.pc = "mark" /\ task.id = "exit")
    BY <1>0, <2>2 DEF Doing
  <2>11. Mirrored'
    BY <1>0, <1>q, <2>2, <2>4, <2>10 DEF Mirrored
  <2>12. QED
    BY <2>6, <2>9, <2>11 DEF RowInv
<1>14. CASE Crash
  <2>1. row' = saved /\ task' = Idle /\ UNCHANGED <<order, journal, booked, saved, slips>>
    BY <1>14 DEF Crash
  <2>2. saved.status = "CLOSED" => row.status = "CLOSED"
    BY <1>0 DEF Rows
  <2>3. Covered' /\ Bounded'
    BY <1>0, <2>1, <2>2 DEF Covered, Bounded, Idle, Net
  <2>4. Mirrored'
    BY <1>0, <2>1 DEF Mirrored, ExitSaved, Net, Idle
  <2>5. QED
    BY <2>3, <2>4 DEF RowInv
<1>15. CASE UNCHANGED vars
  BY <1>0, <1>15 DEF vars, RowInv, Covered, Bounded, Mirrored, ExitSaved, Net
<1>16. QED
  BY <1>1, <1>2, <1>3, <1>4, <1>5, <1>6, <1>7, <1>8, <1>9, <1>10, <1>11, <1>12, <1>13, <1>14, <1>15
     DEF Next, Step, Work

LEMMA RowInvariance == Spec => [](ProjectionInv /\ RowInv)
<1>1. Init => ProjectionInv /\ RowInv
  BY ProjectionInit, RowInit
<1>2. (ProjectionInv /\ RowInv) /\ [Next]_vars => (ProjectionInv /\ RowInv)'
  BY ProjectionNext, RowNext
<1>3. QED
  BY <1>1, <1>2, PTL DEF Spec

\* What the two parts say once nothing is pending.
LEMMA RowImplied == ProjectionInv /\ RowInv => RowIsRight
<1> SUFFICES ASSUME ProjectionInv, RowInv,
                    slips = {}, ~saved.flagged, journal["entry"].state # "SENT",
                    \A i \in Intents : ~journal[i].pending
             PROVE  /\ saved.qty = Left
                    /\ saved.status = "CLOSED" => Left = 0
                    /\ saved.status = "OPEN" => Left > 0 \/ journal["exit"].state # "DONE"
  BY DEF RowIsRight
<1>0. Covered /\ Bounded /\ Mirrored /\ Rows /\ BookedOrFlagged
      /\ "entry" \in Intents /\ "exit" \in Intents
  BY DEF RowInv, ProjectionInv, Intents
<1>1. booked["entry"] = journal["entry"].filled /\ booked["exit"] = journal["exit"].filled
  BY <1>0 DEF BookedOrFlagged, Settled
<1>2. /\ journal["entry"].filled \in Nat /\ journal["exit"].filled \in Nat /\ Net \in Nat
      /\ Net = booked["entry"] - booked["exit"]
  BY <1>0, Quantities
<1>3. Left = Net
  BY <1>1, <1>2 DEF Left
<1>4. saved.status = "CLOSED" => Net = 0
  BY <1>0 DEF Rows, Bounded
<1>5. CASE journal["exit"].filled = 0
  <2>1. saved.qty = journal["entry"].filled
    BY <1>0, <1>5 DEF Mirrored
  <2>2. Net = journal["entry"].filled
    BY <1>1, <1>2, <1>5
  <2>3. journal["exit"].state = "DONE" => Net > 0
    BY <1>1, <2>2, ExitKnown
  <2>4. QED
    BY <1>3, <1>4, <2>1, <2>2, <2>3
<1>6. CASE journal["exit"].filled > 0
  <2>1. ExitSaved
    BY <1>0, <1>6 DEF Mirrored
  <2>2. QED
    BY <1>2, <1>3, <1>4, <2>1 DEF ExitSaved
<1>7. QED
  BY <1>2, <1>5, <1>6

\* With nothing pending, and outside the two cases the code does not settle, the row in
\* the store holds exactly what the two orders left, and is over only when that is
\* nothing (execution_lifecycle.py, consume_order).
THEOREM RowsAreRight == Spec => []RowIsRight
BY RowInvariance, RowImplied, PTL
=============================================================================
