---------------------------- MODULE PositionExit ----------------------------
(***************************************************************************)
(* How one live long holding is sold: the exit of kite_engine/monitor.py,  *)
(* the broker's own trigger (protective_stop.py), the arming of triggers   *)
(* (execution_lifecycle.py) and the repairs that every scan makes          *)
(* (service.py), over one row of the position registry (positions.py), in  *)
(* the one process run_backend.sh starts.                                  *)
(*                                                                         *)
(* A step is what one coroutine does between two awaits.  exit is the      *)
(* coroutine of _exit_position, which its claim makes unique; tasks holds  *)
(* the rest of every other coroutine that awaits the broker.  The broker   *)
(* acts in between: it fills, kills and triggers, it loses requests and    *)
(* replies; postbacks come late, out of order, twice or never.  The        *)
(* process may die at every await, and a save that is not strict may fail  *)
(* unnoticed.                                                              *)
(***************************************************************************)
EXTENDS Integers, FiniteSets

CONSTANTS
  Attempts,    \* ids of our exit orders, which are also their tags
  Triggers,    \* ids of broker triggers, which are also those of their child orders
  Foreign,     \* ids of orders somebody else places in the broker's application
  Lots,        \* what was asked for at entry
  Armed,       \* stop_mode is "broker" or "both"
  StoreFails,  \* _persist may fail, silently
  Slips,       \* what may happen of the things the code does not keep apart from an exit
  MaxTasks,    \* bound: coroutines that await the broker at a time
  None

ASSUME LotsAssumption == Lots \in Nat /\ Lots > 0
ASSUME SwitchAssumption == Armed \in BOOLEAN /\ StoreFails \in BOOLEAN
ASSUME IdsAssumption ==
  /\ Attempts \cap Triggers = {} /\ Attempts \cap Foreign = {} /\ Triggers \cap Foreign = {}
  /\ \A x \in Attempts \cup Triggers \cup Foreign : x \notin {None, "none", "submitting", "unknown"}
  /\ None \notin {"entry", "exit", "recover"}

Orders == Attempts \cup Triggers \cup Foreign

VARIABLES
  held,    \* the broker's net quantity
  entry,   \* the broker's entry order: filled so far, and whether more may come
  trig,    \* the broker's triggers
  order,   \* the broker's exit orders
  seen,    \* the journal's evidence of the entry order
  saved,   \* the registry row in the store
  row,     \* the registry row in memory
  exit,    \* _exit_position
  tasks,   \* the coroutines of postbacks, arming and scan that await the broker
  scan,    \* the quantity _reconcile_closed_positions has read, or None
  slips    \* history: what has happened that the code does not keep apart from an exit

broker == <<held, entry, trig, order>>
vars   == <<broker, seen, saved, row, exit, tasks, scan, slips>>

NoOrder   == [state |-> "none", qty |-> 0, filled |-> 0]
NoTrigger == [state |-> "none", qty |-> 0]
NoExit    == [pc |-> "idle", old |-> None, sure |-> TRUE]

\* The entry is filled, or may go on filling; its trigger is armed if the mode asks
\* for one.
Init ==
  /\ entry \in {[filled |-> Lots, open |-> FALSE], [filled |-> 1, open |-> TRUE]}
  /\ held = entry.filled
  /\ order = [x \in Orders |-> NoOrder]
  /\ seen = entry
  /\ \E g \in IF Armed THEN Triggers ELSE {None} :
       /\ trig = [t \in Triggers |-> IF t = g THEN [state |-> "active", qty |-> held] ELSE NoTrigger]
       /\ saved = [status |-> "OPEN", qty |-> held, exitId |-> "none", tag |-> None, gtt |-> g,
                   pending |-> FALSE, entry |-> entry.open, fills |-> [x \in Orders |-> 0]]
  /\ row = saved
  /\ exit = NoExit
  /\ tasks = {}
  /\ scan = None
  /\ slips = {}

-----------------------------------------------------------------------------
(* The store, the broker's answers *)

\* _persist swallows every error.
Save(r) == row' = r /\ saved' \in {r} \cup IF StoreFails THEN {saved} ELSE {}

\* persist_strict either writes the row or raises before the next effect.
SaveStrict(r) == row' = r /\ saved' = r

\* An order of ours that the broker may still fill.
Working(x) == order[x].state \in {"transit", "OPEN"}

\* What a postback, the order history or the order book may say of an order: where it
\* stands, or an earlier partial fill.
Told(x) ==
  IF order[x].state \in {"OPEN", "COMPLETE", "DEAD"}
  THEN {[state |-> order[x].state, filled |-> order[x].filled]}
         \cup {[state |-> "OPEN", filled |-> f] : f \in 1..order[x].filled}
  ELSE {}

\* _exit_order_is_working: any sell of the symbol today that is not dead.
SellOnBook == \E x \in Orders : order[x].state \in {"OPEN", "COMPLETE"}

\* Mutant: a trigger that is not on the book is absent, whatever the order book says.
SaysAbsent_BookOnly(t) == t # None => trig[t].state \in {"gone", "fired"}

\* The verdicts of stop_status that let a caller act.  Every other one makes it stand
\* down, and so does the cached one of _broker_stop_status: an absent trigger stays
\* absent.
SaysAbsent(t) ==
  t # None => (trig[t].state = "gone" \/ (trig[t].state = "fired" /\ ~SellOnBook))
SaysTriggered(t) ==
  t # None /\ (trig[t].state = "fired" \/ (trig[t].state = "gone" /\ SellOnBook))

\* delete_gtt on trigger t: whether it is out, and whether the caller knows.
Deleted(t) == [trig EXCEPT ![t].state = IF @ = "active" THEN "gone" ELSE @]
CancelOutcomes(t) ==
  IF t # None /\ trig[t].state = "active"
  THEN {[trig |-> Deleted(t), sure |-> TRUE], [trig |-> Deleted(t), sure |-> FALSE],
        [trig |-> trig, sure |-> FALSE]}
  ELSE {[trig |-> trig, sure |-> FALSE]}

Task(kind, id, n) == [kind |-> kind, id |-> id, n |-> n, by |-> None]
Room == Cardinality(tasks) < MaxTasks
Busy(kinds) == \E k \in tasks : k.kind \in kinds
Arming == {"place", "placed", "move"}   \* these hold the PROTECTION lease
Slip(s, happened) == slips' = IF happened THEN slips \cup {s} ELSE slips

-----------------------------------------------------------------------------
(* on_order_update *)

Matched(x) == x = row.exitId \/ (row.exitId \in {"submitting", "unknown"} /\ x = row.tag)

\* Mutant: the cumulative quantity is taken for the increment.
Consumed_Adds(r, x, s) ==
  IF r.status # "OPEN" \/ s.filled \notin 1..r.qty THEN r
  ELSE IF s.filled = r.qty THEN [r EXCEPT !.fills[x] = s.filled, !.status = "CLOSED"]
  ELSE [r EXCEPT !.fills[x] = s.filled, !.qty = @ - s.filled, !.exitId = IF s.state = "OPEN" THEN @ ELSE "none"]

\* The row after the cumulative evidence s of exit order x.
Consumed(r, x, s) ==
  LET delta == s.filled - r.fills[x]
      over  == s.state = "DEAD" /\ (s.filled = 0 \/ (r.status = "OPEN" /\ delta <= 0))
      freed == [r EXCEPT !.exitId = IF over THEN "none" ELSE @]
  IN IF r.status # "OPEN" \/ delta \notin 1..r.qty THEN freed
     ELSE IF delta = r.qty THEN [r EXCEPT !.fills[x] = s.filled, !.status = "CLOSED"]
     ELSE [r EXCEPT !.fills[x] = s.filled, !.qty = @ - delta, !.exitId = IF s.state = "OPEN" THEN @ ELSE "none"]

\* A smaller holding resizes its trigger, a closed one cancels it.
Follow(r, q) ==
  IF r.gtt = None \/ r.status # "OPEN" THEN {}
  ELSE IF q.status = "CLOSED" THEN {Task("cancel", r.gtt, 0)}
  ELSE IF q.qty # r.qty THEN {Task("resize", r.gtt, q.qty)} ELSE {}

ConsumeExit(r, x, s) ==
  LET q == Consumed(r, x, s) IN
  /\ Save(q)
  /\ tasks' = tasks \cup Follow(r, q)
  /\ slips' = slips

\* A postback of an exit order the row knows.
Postback(x) ==
  /\ Matched(x)
  /\ \E s \in Told(x) : ConsumeExit(row, x, s)
  /\ UNCHANGED <<broker, seen, exit, scan>>

\* A completed sell the row does not know: is it the child order of its trigger?
AttributeStart(x) ==
  /\ Room /\ ~Matched(x) /\ order[x].state = "COMPLETE"
  /\ row.gtt # None /\ row.status = "OPEN" /\ order[x].filled <= row.qty
  /\ tasks' = tasks \cup {Task("attribute", x, order[x].filled)}
  /\ UNCHANGED <<broker, seen, saved, row, exit, scan, slips>>

\* It is if the trigger has fired and exactly this much is gone; then it is the exit.
\* Otherwise the row is only flagged for reconciliation.
AttributeEnd(k) ==
  /\ k.kind = "attribute"
  /\ \/ /\ SaysTriggered(row.gtt) /\ held = row.qty - k.n
        /\ LET r == [row EXCEPT !.exitId = k.id]
               q == Consumed(r, k.id, [state |-> "COMPLETE", filled |-> k.n]) IN
           /\ Save(q)
           /\ tasks' = (tasks \ {k}) \cup Follow(r, q)
           /\ Slip("attributed", row.exitId # "none")
     \/ tasks' = tasks \ {k} /\ UNCHANGED <<saved, row, slips>>
  /\ UNCHANGED <<broker, seen, exit, scan>>

\* move_stop rewrites the whole trigger, quantity included, or fails and is logged.
Resize(k) ==
  /\ k.kind = "resize"
  /\ tasks' = tasks \ {k}
  /\ trig' \in {trig, [trig EXCEPT ![k.id].qty = IF trig[k.id].state = "active" THEN k.n ELSE @]}
  /\ UNCHANGED <<held, entry, order, seen, saved, row, exit, scan, slips>>

\* The trigger of a closed row is cancelled and forgotten, also when the cancel failed:
\* then the operator is told.  "close" closes the row only after the cancel.
Cleanup(k) ==
  /\ k.kind \in {"cancel", "close"}
  /\ tasks' = tasks \ {k}
  /\ \E c \in CancelOutcomes(k.id) :
       /\ trig' = c.trig
       /\ slips' = slips
  /\ Save([row EXCEPT !.gtt = None, !.status = IF k.kind = "close" THEN "CLOSED" ELSE @])
  /\ UNCHANGED <<held, entry, order, seen, exit, scan>>

-----------------------------------------------------------------------------
(* consume_order of the entry, _protect and _place_protection *)

\* consume_order holds its lock until its _protect returns.
Locked == \E k \in tasks : k.by \in {"entry", "exit"}

\* _protect looks at quantity and status, subscribes to ticks, and only then arms.
Protect(r, by) ==
  IF r.status = "OPEN" /\ r.qty > 0
  THEN {[kind |-> "subscribe", id |-> None, n |-> 0, by |-> by]} ELSE {}

\* New evidence rewrites the quantity; old evidence only asks for a missing trigger.  A
\* closed row is not reopened.
ConsumeEntry(s, by) ==
  IF s.filled > seen.filled \/ (seen.open /\ ~s.open)
  THEN LET r == IF row.status = "OPEN" THEN [row EXCEPT !.qty = s.filled, !.entry = s.open] ELSE row IN
       seen' = s /\ SaveStrict(r) /\ tasks' = tasks \cup Protect(r, by)
  ELSE /\ UNCHANGED <<seen, saved, row>>
       /\ tasks' = tasks \cup IF row.gtt = None THEN Protect(row, by) ELSE {}

\* A postback of the entry order, or recover's look into the order book.
EntryUpdate ==
  /\ Room /\ ~Locked
  /\ \E s \in {entry} \cup {[filled |-> f, open |-> TRUE] : f \in 1..entry.filled} : ConsumeEntry(s, "entry")
  /\ UNCHANGED <<broker, exit, scan, slips>>

\* The first thing recover does.
Recover ==
  /\ Room /\ row.gtt = None /\ ~row.pending
  /\ tasks' = tasks \cup Protect(row, "recover")
  /\ UNCHANGED <<broker, seen, saved, row, exit, scan, slips>>

\* Nothing in the arming of a trigger asks whether the holding is being, or has been, sold.
Rival(k) == row.exitId # "none" \/ row.status = "CLOSED" \/ (k.by # "exit" /\ exit.pc # "idle")

\* Mutant: the grown holding gets a trigger of its own.
Arm_Anew(k) ==
  /\ k.kind = "subscribe" /\ Armed /\ ~row.pending /\ ~Busy(Arming)
  /\ \E t \in Triggers :
       /\ trig[t].state = "none"
       /\ tasks' = (tasks \ {k}) \cup {[kind |-> "place", id |-> t, n |-> row.qty, by |-> k.by]}
  /\ SaveStrict([row EXCEPT !.pending = TRUE]) /\ Slip("rearm", Rival(k))
  /\ UNCHANGED <<broker, seen, exit, scan>>

\* An unknown trigger, or another arming, leaves it at that; a known trigger is moved; a
\* missing one is placed, after a note in the store that its outcome is unknown.
Arm(k) ==
  /\ k.kind = "subscribe"
  /\ IF ~Armed \/ row.pending \/ Busy(Arming)
     THEN tasks' = tasks \ {k} /\ UNCHANGED <<saved, row, slips>>
     ELSE IF row.gtt # None
     THEN /\ tasks' = (tasks \ {k}) \cup {[kind |-> "move", id |-> row.gtt, n |-> row.qty, by |-> k.by]}
          /\ UNCHANGED <<saved, row, slips>>
     ELSE \E t \in Triggers :
            /\ trig[t].state = "none"
            /\ tasks' = (tasks \ {k}) \cup {[kind |-> "place", id |-> t, n |-> row.qty, by |-> k.by]}
            /\ SaveStrict([row EXCEPT !.pending = TRUE]) /\ Slip("rearm", Rival(k))
  /\ UNCHANGED <<broker, seen, exit, scan>>

\* The broker arms the trigger.
PlaceArrives(k) ==
  /\ k.kind = "place"
  /\ tasks' = (tasks \ {k}) \cup {[k EXCEPT !.kind = "placed"]}
  /\ trig' = [trig EXCEPT ![k.id] = [state |-> "active", qty |-> k.n]]
  /\ Slip("rearm", Rival(k))
  /\ UNCHANGED <<held, entry, order, seen, saved, row, exit, scan>>

\* The reply names the trigger, or there is none and the outcome stays unknown.
PlaceReply(k) ==
  /\ k.kind \in {"place", "placed"}
  /\ tasks' = tasks \ {k}
  /\ \/ k.kind = "placed" /\ SaveStrict([row EXCEPT !.gtt = k.id, !.pending = FALSE])
     \/ UNCHANGED <<saved, row>>
  /\ UNCHANGED <<broker, seen, exit, scan, slips>>

Move(k) ==
  /\ k.kind = "move"
  /\ tasks' = tasks \ {k}
  /\ \/ /\ trig[k.id].state = "active"
        /\ trig' = [trig EXCEPT ![k.id].qty = k.n]
        /\ \E lost \in BOOLEAN : SaveStrict([row EXCEPT !.pending = lost])
     \/ trig' = trig /\ SaveStrict([row EXCEPT !.pending = TRUE])
  /\ UNCHANGED <<held, entry, order, seen, exit, scan, slips>>

-----------------------------------------------------------------------------
(* _exit_position *)

Live == row.status = "OPEN"
Goto(pc) == exit' = [exit EXCEPT !.pc = pc]
Bail == exit' = NoExit /\ UNCHANGED <<held, entry, order, trig, saved, row, tasks, slips>>

\* Mutant: the claim is the coroutine's alone, the row's exit order does not count.
Start_Again ==
  /\ exit.pc = "idle" /\ Live /\ ~row.pending
  /\ SaveStrict(row)
  /\ Goto(IF row.entry THEN "cancel_entry" ELSE "look")
  /\ UNCHANGED <<broker, seen, row, tasks, scan, slips>>

\* The claim, and the checks before the first await.
Start ==
  /\ exit.pc = "idle" /\ row.exitId = "none" /\ Live /\ ~row.pending
  /\ SaveStrict(row)
  /\ Goto(IF row.entry THEN "cancel_entry" ELSE "look")
  /\ UNCHANGED <<broker, seen, row, tasks, scan, slips>>

\* The entry may be cancelled, or not, or have filled: history decides.
CancelEntry ==
  /\ exit.pc = "cancel_entry"
  /\ entry' \in {entry, [entry EXCEPT !.open = FALSE]}
  /\ Goto("history")
  /\ UNCHANGED <<held, trig, order, seen, saved, row, tasks, scan, slips>>

\* Only a terminal entry lets the exit go on, after its fills are consumed.
History ==
  /\ exit.pc = "history"
  /\ \/ Bail /\ UNCHANGED <<seen, scan>>
     \/ /\ ~entry.open /\ ~Locked
        /\ ConsumeEntry(entry, "exit")
        /\ Goto("protect")
        /\ UNCHANGED <<broker, scan, slips>>

Protected ==
  /\ exit.pc = "protect" /\ ~\E k \in tasks : k.by = "exit"
  /\ IF Live /\ row.qty > 0 /\ ~row.entry THEN Goto("look") ELSE exit' = NoExit
  /\ UNCHANGED <<broker, seen, saved, row, tasks, scan, slips>>

\* Fresh holdings: no answer and a short holding end the attempt.
Look ==
  /\ exit.pc = "look"
  /\ \/ Bail
     \/ /\ held >= 0
        /\ exit' = [NoExit EXCEPT !.pc = IF row.gtt = None THEN "look2" ELSE "cancel", !.old = row.gtt]
        /\ UNCHANGED <<broker, saved, row, tasks, slips>>
  /\ UNCHANGED <<seen, scan>>

Cancel ==
  /\ exit.pc = "cancel"
  /\ \E c \in CancelOutcomes(exit.old) :
       /\ trig' = c.trig
       /\ exit' = [exit EXCEPT !.pc = IF c.sure THEN "look2" ELSE "status", !.sure = c.sure]
  /\ UNCHANGED <<held, entry, order, seen, saved, row, tasks, scan, slips>>

\* An unconfirmed cancel: only a trigger that is provably absent lets the exit go on.
Status ==
  /\ exit.pc = "status"
  /\ \/ Bail
     \/ SaysAbsent(row.gtt) /\ Goto("look2") /\ UNCHANGED <<broker, saved, row, tasks, slips>>
  /\ UNCHANGED <<seen, scan>>

Forget(r) == IF exit.old # None /\ exit.sure THEN [r EXCEPT !.gtt = None] ELSE r

\* No answer to the second look: the confirmed cancel is noted, so that recover re-arms.
Unanswered ==
  /\ exit.pc = "look2" /\ exit' = NoExit
  /\ Save([Forget(row) EXCEPT !.pending = IF exit.old # None /\ exit.sure THEN FALSE ELSE @])
  /\ UNCHANGED <<broker, seen, tasks, scan, slips>>

\* Nothing left, or less than nothing.
NothingHeld ==
  /\ exit.pc = "look2" /\ held <= 0 /\ exit' = NoExit
  /\ tasks' = tasks \cup IF held = 0 THEN {Task("close", IF exit.sure THEN None ELSE exit.old, 0)} ELSE {}
  /\ UNCHANGED <<broker, seen, saved, row, scan, slips>>

\* Mutant: the registry's quantity is sold, whatever the second look says.
Shrunk_Not == row

\* The quantity shrinks to what is held, the row is looked at again, the intent is
\* saved, and the order goes out.  If the intent cannot be saved nothing goes out.
Shrunk == IF held < row.qty THEN [row EXCEPT !.status = "OPEN", !.qty = held] ELSE row

\* Mutant: the intent is saved as everything else is, and may be lost.
Submit_Unsaved ==
  /\ exit.pc = "look2" /\ held > 0 /\ Shrunk.status = "OPEN" /\ exit' = [exit EXCEPT !.pc = "reply"]
  /\ \E x \in Attempts : order[x].state = "none"
       /\ Save([Shrunk EXCEPT !.exitId = "submitting", !.tag = x])
       /\ order' = [order EXCEPT ![x] = [state |-> "transit", qty |-> Shrunk.qty, filled |-> 0]]
  /\ UNCHANGED <<held, entry, trig, seen, tasks, scan, slips>>

Submit ==
  /\ exit.pc = "look2" /\ held > 0
  /\ \/ /\ Shrunk.status # "OPEN"
        /\ exit' = NoExit /\ UNCHANGED <<order, saved, row, slips>>
     \/ /\ Shrunk.status = "OPEN"
        /\ \E x \in Attempts :
             LET r == [Shrunk EXCEPT !.exitId = "submitting", !.tag = x] IN
             /\ order[x].state = "none"
             /\ \/ /\ SaveStrict(r)
                   /\ order' = [order EXCEPT ![x] = [state |-> "transit", qty |-> r.qty, filled |-> 0]]
                   /\ exit' = [exit EXCEPT !.pc = "reply"]
                \/ /\ row' = r /\ saved' \in {saved, Shrunk}
                   /\ exit' = NoExit /\ order' = order
        /\ slips' = slips \cup (IF row.pending THEN {"blind"} ELSE {})
                          \cup (IF held < row.qty /\ row.exitId # "none" THEN {"shrunk"} ELSE {})
                          \cup (IF ~Live THEN {"reopened"} ELSE {})
  /\ UNCHANGED <<held, entry, trig, seen, tasks, scan>>

\* The reply names the order, or there is none and the outcome is unknown.
Reply ==
  /\ exit.pc = "reply" /\ exit' = NoExit
  /\ \E id \in {"unknown"} \cup {x \in Attempts : x = row.tag /\ order[x].state # "transit"} :
       Save(Forget(IF Live THEN [row EXCEPT !.exitId = id] ELSE row))
  /\ UNCHANGED <<broker, seen, tasks, scan, slips>>

-----------------------------------------------------------------------------
(* Every scan *)

\* _reconcile_pending_positions: an exit of unknown outcome is found by its tag, a known
\* one by its id.
PollExit ==
  /\ Live /\ row.exitId # "none"
  /\ LET x == IF row.exitId \in {"submitting", "unknown"} THEN row.tag ELSE row.exitId IN
     /\ x \in Orders /\ order[x].state \in {"OPEN", "COMPLETE", "DEAD"}
     /\ ConsumeExit([row EXCEPT !.exitId = x], x, [state |-> order[x].state, filled |-> order[x].filled])
  /\ UNCHANGED <<broker, seen, exit, scan>>

\* _reconcile_closed_positions reads all holdings once, then goes through the rows that
\* were open before.
ScanRead ==
  /\ Live /\ scan = None
  /\ scan' = IF held < 0 THEN -held ELSE held
  /\ UNCHANGED <<broker, seen, saved, row, exit, tasks, slips>>

ScanApply ==
  /\ scan # None /\ scan' = None
  /\ \/ scan = 0 /\ tasks' = tasks \cup {Task("close", row.gtt, 0)} /\ UNCHANGED <<saved, row>>
     \/ /\ scan > 0 /\ scan < row.qty
        /\ Save([row EXCEPT !.status = "OPEN", !.qty = scan]) /\ tasks' = tasks
     \/ scan >= row.qty /\ UNCHANGED <<saved, row, tasks>>
  /\ slips' = slips \cup (IF scan < row.qty /\ (row.exitId # "none" \/ scan # held) THEN {"shrunk"} ELSE {})
                    \cup (IF scan \in 1..(row.qty - 1) /\ ~Live THEN {"reopened"} ELSE {})
  /\ UNCHANGED <<broker, seen, exit>>

\* _update_open_position_trails moves the trigger, for the quantity of the row.
Trail ==
  /\ Room /\ Armed /\ Live /\ row.gtt # None
  /\ tasks' = tasks \cup {Task("resize", row.gtt, row.qty)}
  /\ UNCHANGED <<broker, seen, saved, row, exit, scan, slips>>

-----------------------------------------------------------------------------
(* The broker and the operator *)

Engine == <<seen, saved, row, exit, tasks, scan, slips>>

EntryFill ==
  /\ entry.open /\ entry.filled < Lots
  /\ entry' = [filled |-> entry.filled + 1, open |-> entry.filled + 1 < Lots]
  /\ held' = held + 1
  /\ Slip("refill", \E x \in Orders : order[x].filled > 0)
  /\ UNCHANGED <<trig, order, seen, saved, row, exit, tasks, scan>>

EntryEnd ==
  /\ entry.open /\ entry' = [entry EXCEPT !.open = FALSE]
  /\ UNCHANGED <<held, trig, order>> /\ UNCHANGED Engine

\* A request of ours is accepted, or never arrives.
Accept(x) ==
  /\ order[x].state = "transit"
  /\ \E s \in {"OPEN", "lost"} : order' = [order EXCEPT ![x].state = s]
  /\ UNCHANGED <<held, entry, trig>> /\ UNCHANGED Engine

Fill(x) ==
  /\ order[x].state = "OPEN"
  /\ order' = [order EXCEPT ![x].filled = @ + 1,
                            ![x].state = IF order[x].filled + 1 = order[x].qty THEN "COMPLETE" ELSE @]
  /\ held' = held - 1
  /\ UNCHANGED <<entry, trig>> /\ UNCHANGED Engine

Die(x) ==
  /\ order[x].state = "OPEN" /\ order' = [order EXCEPT ![x].state = "DEAD"]
  /\ UNCHANGED <<held, entry, trig>> /\ UNCHANGED Engine

Fire(t) ==
  /\ trig[t].state = "active"
  /\ trig' = [trig EXCEPT ![t].state = "fired"]
  /\ order' = [order EXCEPT ![t] = [state |-> "OPEN", qty |-> trig[t].qty, filled |-> 0]]
  /\ UNCHANGED <<held, entry>> /\ UNCHANGED Engine

\* Somebody sells a lot, or deletes a trigger, in the broker's own application.
Sell(x) ==
  /\ order[x].state = "none" /\ held > 0
  /\ order' = [order EXCEPT ![x] = [state |-> "COMPLETE", qty |-> 1, filled |-> 1]]
  /\ held' = held - 1 /\ slips' = slips \cup {"outside"}
  /\ UNCHANGED <<entry, trig, seen, saved, row, exit, tasks, scan>>

Delete(t) ==
  /\ Foreign # {} /\ trig[t].state = "active"
  /\ trig' = Deleted(t) /\ slips' = slips \cup {"outside"}
  /\ UNCHANGED <<held, entry, order, seen, saved, row, exit, tasks, scan>>

\* The process dies and starts again from the store.
Crash ==
  /\ row' = saved /\ exit' = NoExit /\ tasks' = {} /\ scan' = None
  /\ UNCHANGED <<broker, seen, saved, slips>>

Broker == \/ EntryFill \/ EntryEnd
          \/ \E x \in Attempts : Accept(x)
          \/ \E x \in Orders : Fill(x) \/ Die(x)
          \/ \E t \in Triggers : Fire(t) \/ Delete(t)
          \/ \E x \in Foreign : Sell(x)

Step ==
  \/ \E x \in Orders : Postback(x) \/ AttributeStart(x)
  \/ \E k \in tasks : \/ AttributeEnd(k) \/ Resize(k) \/ Cleanup(k) \/ Arm(k)
                       \/ PlaceArrives(k) \/ PlaceReply(k) \/ Move(k)
  \/ EntryUpdate \/ Recover
  \/ Start \/ CancelEntry \/ History \/ Protected \/ Look \/ Cancel \/ Status
  \/ Unanswered \/ NothingHeld \/ Submit \/ Reply
  \/ PollExit \/ ScanRead \/ ScanApply \/ Trail
  \/ Broker \/ Crash

Next == Step /\ slips' \subseteq Slips

Spec == Init /\ [][Next]_vars

-----------------------------------------------------------------------------
(* Properties *)

Ids      == {None} \cup Triggers
RowType  == [status : {"OPEN", "CLOSED"}, qty : 1..Lots, exitId : {"none", "submitting", "unknown"} \cup Orders,
             tag : {None} \cup Attempts, gtt : Ids, pending : BOOLEAN, entry : BOOLEAN,
             fills : [Orders -> 0..Lots]]
TaskType == [kind : {"attribute"}, id : Orders, n : 0..Lots, by : {None}]
              \cup [kind : {"cancel", "close"}, id : Ids, n : {0}, by : {None}]
              \cup [kind : {"subscribe"}, id : {None}, n : {0}, by : {"entry", "exit", "recover"}]
              \cup [kind : {"resize"} \cup Arming, id : Triggers, n : 1..Lots, by : {None, "entry", "exit", "recover"}]
States   == {"none", "transit", "lost", "OPEN", "COMPLETE", "DEAD"}
Steps    == {"cancel_entry", "history", "protect", "look", "cancel", "status", "look2"}

\* The type invariant: every quantity of the registry, of an order and of a trigger that
\* works is positive and at most what was asked for at entry.
ExitTypeOK ==
  /\ held \in Int
  /\ entry \in [filled : 1..Lots, open : BOOLEAN] /\ seen \in [filled : 1..Lots, open : BOOLEAN]
  /\ trig \in [Triggers -> [state : {"none", "active", "fired", "gone"}, qty : 0..Lots]]
  /\ \A t \in Triggers : trig[t].state = "active" => trig[t].qty > 0
  /\ order \in [Orders -> [state : States, qty : 0..Lots, filled : 0..Lots]]
  /\ \A x \in Orders : order[x].filled <= order[x].qty
  /\ \A x \in Orders : Working(x) => order[x].filled < order[x].qty
  /\ row \in RowType /\ saved \in RowType
  /\ exit \in [pc : {"idle", "reply"} \cup Steps, old : Ids, sure : BOOLEAN]
  /\ tasks \subseteq TaskType
  /\ scan \in {None} \cup Nat

\* While an exit order of ours may still fill, the row in memory and the row in the store
\* both hold the claim: its id, or an unresolved one with its tag.  So no crash, lost
\* save, late reply or early postback makes the engine forget it.
Claims(r, x) == r.tag = x /\ r.exitId \in {"submitting", "unknown", x}
Fenced == "attributed" \notin slips => \A x \in Attempts : Working(x) => Claims(row, x) /\ Claims(saved, x)

\* At most one exit order of ours may still fill.
OneExit == "attributed" \notin slips => \A x, y \in Attempts : Working(x) /\ Working(y) => x = y

\* The broker's stop gets out of the way first: an exit order of ours and a trigger, or
\* the order of one, are never at work together.
AtWork(t) == trig[t].state = "active" \/ order[t].state = "OPEN"
OneSeller == slips \cap {"rearm", "blind", "attributed", "reopened"} = {} =>
               \A x \in Attempts, t \in Triggers : ~(Working(x) /\ AtWork(t))

\* No two triggers guard one holding: a second one is armed only while the holding is
\* sold, or after a scan has opened a closed row again.
OneTrigger == slips \cap {"rearm", "reopened"} = {} =>
                \A t, u \in Triggers : trig[t].state = "active" /\ trig[u].state = "active" => t = u

\* The holding is never sold twice: nothing but a sale outside the engine or one taken
\* for our exit, a trigger armed while the holding is sold or one of unknown outcome, or
\* a closed row that a scan opens again leads to a short position.
NeverShort == slips \cap {"outside", "rearm", "blind", "attributed", "reopened"} = {} => held >= 0

\* A row is closed only if nothing is left: nothing but a quantity taken from holdings
\* that already count an own exit, an outside sale that replaces the claim of one, or an
\* entry that fills on after a sale leaves lots that no row guards.
ClosedMeansFlat ==
  slips \cap {"shrunk", "refill", "attributed"} = {} /\ row.status = "CLOSED" => held <= 0

\* monitor.py: never sell what we do not hold.
NeverSoldShort == "outside" \notin slips => held >= 0
=============================================================================
