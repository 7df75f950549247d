-------------------------- MODULE OrderProjection --------------------------
(***************************************************************************)
(* What becomes of the broker's evidence of a live entry and of a          *)
(* canonical exit of the same holding: consume_order and recover of        *)
(* kite_engine/execution_lifecycle.py.                                     *)
(*                                                                         *)
(* One piece of evidence is journaled, then projected: to the registry     *)
(* row, to the signed ledger, and only then is the journal told that it    *)
(* has been.  Each of these is a commit of its own, so the process may die *)
(* between any two of them; the ledger may refuse a booking and the store  *)
(* a save.  The lock of consume_order lets one projection run at a time;   *)
(* the broker goes on meanwhile, and its postbacks come late, twice, out   *)
(* of order or not at all.                                                 *)
(***************************************************************************)
EXTENDS Integers

CONSTANTS
  Lots,        \* what was asked for at entry
  MaxFaults,   \* bound: crashes, refused bookings and refused saves
  Slips        \* which of the two cases that the code does not settle may happen

ASSUME LotsAssumption == Lots \in Nat /\ Lots > 0
ASSUME FaultsAssumption == MaxFaults \in Nat

Intents == {"entry", "exit"}

VARIABLES
  order,    \* the broker's orders
  journal,  \* the intents: how far their evidence is known, and whether it is projected
  booked,   \* the ledger: the cumulative quantity of each order
  saved,    \* the registry row in the store
  row,      \* the registry row in memory
  task,     \* consume_order: what it does next, for which intent, and whether a booking failed
  faults,   \* history: crashes and refusals
  slips     \* history: "skipped" (evidence of a row that is over counts as projected unbooked)
            \* and "overwritten" (the entry's quantity replaces what an exit has left)

vars == <<order, journal, booked, saved, row, task, faults, slips>>

NoRow  == [status |-> "none", qty |-> 0, entry |-> FALSE, flagged |-> FALSE]
NewRow == [status |-> "PENDING", qty |-> 0, entry |-> TRUE, flagged |-> FALSE]
Idle   == [pc |-> "idle", id |-> "entry", bad |-> FALSE]

\* The entry has been accepted by the broker and nothing is known of it yet.
Init ==
  /\ order = [i \in Intents |-> [state |-> IF i = "entry" THEN "OPEN" ELSE "none",
                                 qty |-> IF i = "entry" THEN Lots ELSE 0, filled |-> 0]]
  /\ journal = [i \in Intents |-> [state |-> IF i = "entry" THEN "SENT" ELSE "none",
                                   filled |-> 0, pending |-> FALSE]]
  /\ booked = [i \in Intents |-> 0]
  /\ saved = NoRow /\ row = NoRow
  /\ task = Idle /\ faults = 0 /\ slips = {}

-----------------------------------------------------------------------------

Final(o) == o.state \in {"COMPLETE", "DEAD"}
Net == booked["entry"] - booked["exit"]
Abs(n) == IF n < 0 THEN -n ELSE n
Fault == faults < MaxFaults /\ faults' = faults + 1
Slip(s, happened) == slips' = IF happened THEN slips \cup {s} ELSE slips
Goto(pc) == task' = [task EXCEPT !.pc = pc]
At(pc, id) == task.pc = pc /\ task.id = id

\* What a postback may say: where the order stands, or an earlier partial fill.
Told(i) ==
  IF order[i].state = "none" THEN {}
  ELSE {[filled |-> order[i].filled, final |-> Final(order[i])]}
         \cup {[filled |-> f, final |-> FALSE] : f \in 0..order[i].filled}

\* observe_order accepts evidence it has not seen, unless it is older.
Fresh(i, s) ==
  \/ journal[i].state = "SENT"
  \/ journal[i].state = "WORKING" /\ (s.filled > journal[i].filled \/ s.final)

Observed(i, s) ==
  IF Fresh(i, s)
  THEN [journal EXCEPT ![i] = [state |-> IF s.final THEN "DONE" ELSE "WORKING",
                               filled |-> s.filled, pending |-> TRUE]]
  ELSE journal

\* consume_order with evidence s.  Known evidence of an entry that is projected changes
\* nothing here; known evidence of an exit is projected again.
Consume(i, s) ==
  /\ task = Idle
  /\ journal' = Observed(i, s)
  /\ IF i = "exit" THEN task' = [Idle EXCEPT !.pc = "book", !.id = i]
     ELSE IF journal'[i].pending THEN task' = [Idle EXCEPT !.pc = "register", !.id = i]
     ELSE task' = Idle
  /\ UNCHANGED <<order, booked, saved, row, faults, slips>>

Postback(i) == \E s \in Told(i) : Consume(i, s)

\* Mutant: recover looks for orders that may still fill, not for evidence to project.
Candidate_Unresolved(i) == journal[i].state \in {"SENT", "WORKING"}

\* recover: the order book is asked for every intent that is unresolved, or whose
\* evidence is not projected.
Candidate(i) == journal[i].state \in {"SENT", "WORKING"} \/ journal[i].pending
Recover(i) ==
  /\ Candidate(i) /\ order[i].state # "none"
  /\ Consume(i, [filled |-> order[i].filled, final |-> Final(order[i])])

\* persist_strict of row r: the row is saved, or the exception ends the task and leaves
\* memory ahead of the store.
SaveStrict(r, pc) ==
  /\ row' = r
  /\ \/ saved' = r /\ Goto(pc) /\ faults' = faults
     \/ saved' = saved /\ task' = Idle /\ Fault

-----------------------------------------------------------------------------
(* The entry *)

\* register_pending after the acknowledgement of the entry, unless evidence came first.
\* The save of register may have worked where the strict one has not.
Acknowledge ==
  /\ task = Idle /\ row.status = "none" /\ row' = NewRow
  /\ \/ saved' = NewRow /\ faults' = faults
     \/ saved' \in {saved, NewRow} /\ Fault
  /\ UNCHANGED <<order, journal, booked, task, slips>>

Register ==
  /\ At("register", "entry") /\ row.status = "none"
  /\ SaveStrict(NewRow, "save")
  /\ UNCHANGED <<order, journal, booked, slips>>

\* Replayed evidence must not reopen a row that is over: it counts as projected.
Over == row.status \in {"CLOSED", "REJECTED"}
Skip ==
  /\ At("register", "entry") /\ Over
  /\ journal' = [journal EXCEPT !["entry"].pending = FALSE]
  /\ task' = Idle
  /\ Slip("skipped", booked["entry"] < journal["entry"].filled)
  /\ UNCHANGED <<order, booked, saved, row, faults>>

\* The row takes the entry's cumulative quantity, whatever has been sold since.
EntryRow ==
  LET j == journal["entry"] IN
  [row EXCEPT !.qty = j.filled, !.entry = (j.state # "DONE"),
              !.status = IF j.filled > 0 THEN "OPEN" ELSE IF j.state # "DONE" THEN "PENDING" ELSE "REJECTED"]
Project ==
  /\ task.id = "entry" /\ row.status # "none"
  /\ task.pc = "save" \/ (task.pc = "register" /\ ~Over)
  /\ SaveStrict(EntryRow, "book")
  /\ Slip("overwritten", journal["exit"].filled > 0)
  /\ UNCHANGED <<order, journal, booked>>

-----------------------------------------------------------------------------
(* The ledger and the journal, for both *)

After(id) == IF id = "entry" THEN "mark" ELSE "save"

\* The ledger derives the increment itself, so a repeated booking changes nothing.
Book ==
  /\ task.pc = "book"
  /\ booked' = [booked EXCEPT ![task.id] = journal[task.id].filled]
  /\ Goto(After(task.id))
  /\ UNCHANGED <<order, journal, saved, row, faults, slips>>

\* Mutant: a refused booking is logged and left at that.
BookRefused_Unflagged ==
  /\ task.pc = "book" /\ journal[task.id].filled > 0 /\ Fault /\ Goto(After(task.id))
  /\ UNCHANGED <<order, journal, booked, saved, row, slips>>

\* A booking that is refused flags the row: an entry at once, an exit after its row.
BookRefused ==
  /\ task.pc = "book" /\ journal[task.id].filled > 0 /\ Fault
  /\ task' = [task EXCEPT !.pc = IF task.id = "entry" THEN "flag" ELSE "save", !.bad = TRUE]
  /\ UNCHANGED <<order, journal, booked, saved, row, slips>>

Flag ==
  /\ task.pc = "flag"
  /\ IF row.status = "none" THEN Goto("mark") /\ UNCHANGED <<saved, row, faults>>
     ELSE SaveStrict([row EXCEPT !.flagged = TRUE], "mark")
  /\ UNCHANGED <<order, journal, booked, slips>>

\* mark_projected
Mark ==
  /\ task.pc = "mark"
  /\ journal' = [journal EXCEPT ![task.id].pending = FALSE]
  /\ task' = Idle
  /\ UNCHANGED <<order, booked, saved, row, faults, slips>>

-----------------------------------------------------------------------------
(* The exit *)

\* Mutant: the row is reduced by the cumulative quantity of the exit.
ExitRow_Subtracts ==
  LET q == IF row.qty > journal["exit"].filled THEN row.qty - journal["exit"].filled ELSE 0 IN
  [row EXCEPT !.qty = q,
              !.status = IF q = 0 /\ journal["exit"].state = "DONE" THEN "CLOSED" ELSE @]

\* The row takes the ledger's quantity: an exit is only admitted for what the ledger
\* holds, so that there is one.
ExitRow ==
  [row EXCEPT !.qty = Abs(Net),
              !.status = IF Net = 0 /\ journal["exit"].state = "DONE" THEN "CLOSED" ELSE @]
ProjectExit ==
  /\ At("save", "exit")
  /\ IF row.status = "none" THEN Goto(IF task.bad THEN "flag" ELSE "mark") /\ UNCHANGED <<saved, row, faults>>
     ELSE SaveStrict(ExitRow, IF task.bad THEN "flag" ELSE "mark")
  /\ UNCHANGED <<order, journal, booked, slips>>

-----------------------------------------------------------------------------
(* The broker, the caller of an exit, and the crash *)

\* submit_order admits a reduction only of what the ledger holds.
PlaceExit ==
  /\ order["exit"].state = "none"
  /\ \E q \in 1..Net :
       order' = [order EXCEPT !["exit"] = [state |-> "OPEN", qty |-> q, filled |-> 0]]
  /\ journal' = [journal EXCEPT !["exit"].state = "SENT"]
  /\ UNCHANGED <<booked, saved, row, task, faults, slips>>

Fill(i) ==
  /\ order[i].state = "OPEN"
  /\ order' = [order EXCEPT ![i].filled = @ + 1,
                            ![i].state = IF order[i].filled + 1 = order[i].qty THEN "COMPLETE" ELSE @]
  /\ UNCHANGED <<journal, booked, saved, row, task, faults, slips>>

Die(i) ==
  /\ order[i].state = "OPEN" /\ order' = [order EXCEPT ![i].state = "DEAD"]
  /\ UNCHANGED <<journal, booked, saved, row, task, faults, slips>>

Crash ==
  /\ Fault /\ row' = saved /\ task' = Idle
  /\ UNCHANGED <<order, journal, booked, saved, slips>>

Work == Register \/ Skip \/ Project \/ Book \/ BookRefused \/ Flag \/ Mark \/ ProjectExit
Step ==
  \/ \E i \in Intents : Postback(i) \/ Recover(i) \/ Fill(i) \/ Die(i)
  \/ Acknowledge \/ Work \/ PlaceExit \/ Crash

Next == Step /\ slips' \subseteq Slips

\* The engine's loop calls recover again and again, and a task that is not killed runs.
Spec == Init /\ [][Next]_vars
FairSpec == Spec /\ WF_vars(Work) /\ \A i \in Intents : SF_vars(Recover(i))

-----------------------------------------------------------------------------
(* Properties *)

RowType == [status : {"none", "PENDING", "OPEN", "CLOSED", "REJECTED"}, qty : 0..Lots,
            entry : BOOLEAN, flagged : BOOLEAN]

ProjectionTypeOK ==
  /\ order \in [Intents -> [state : {"none", "OPEN", "COMPLETE", "DEAD"}, qty : 0..Lots, filled : 0..Lots]]
  /\ \A i \in Intents : order[i].state = "OPEN" => order[i].filled < order[i].qty
  /\ journal \in [Intents -> [state : {"none", "SENT", "WORKING", "DONE"}, filled : 0..Lots, pending : BOOLEAN]]
  /\ \A i \in Intents : booked[i] <= journal[i].filled /\ journal[i].filled <= order[i].filled
  /\ booked \in [Intents -> 0..Lots]
  /\ row \in RowType /\ saved \in RowType
  /\ task \in [pc : {"idle", "register", "save", "book", "flag", "mark"}, id : Intents, bad : BOOLEAN]
  /\ faults \in 0..MaxFaults

\* Evidence that counts as projected is in the ledger, or the row in the store is flagged
\* for reconciliation: neither a crash between two commits nor a refusal loses money.
Settled(i) == booked[i] = journal[i].filled \/ saved.flagged
BookedOrFlagged == "skipped" \notin slips => \A i \in Intents : ~journal[i].pending => Settled(i)

\* Once nothing is pending, the row in the store holds what the two orders left, and it is
\* over exactly when that is nothing.
Left == journal["entry"].filled - journal["exit"].filled
RowIsRight ==
  /\ slips = {} /\ ~saved.flagged /\ journal["entry"].state # "SENT"
  /\ \A i \in Intents : ~journal[i].pending
  => /\ saved.qty = Left
     /\ saved.status = "CLOSED" => Left = 0
     /\ saved.status = "OPEN" => Left > 0 \/ journal["exit"].state # "DONE"

\* A row that is over stays over, whatever is replayed.
NeverReopened == [][saved.status \in {"CLOSED", "REJECTED"} => saved'.status = saved.status]_vars

\* Whatever the broker ends up saying of an order reaches the journal, and is projected.
EventuallyProjected ==
  \A i \in Intents : Final(order[i]) ~> (journal[i].state = "DONE" /\ ~journal[i].pending)

\* execution_lifecycle.py: recovery replays this same cumulative evidence and the ledger
\* books it exactly once.
BookedOnReplay == \A i \in Intents : ~journal[i].pending => Settled(i)
=============================================================================
