------------------------- MODULE PositionExitProofs -------------------------
(***************************************************************************)
(* Proofs about PositionExit, for all sets of orders and triggers, all     *)
(* quantities and all sets of slips.                                       *)
(***************************************************************************)
EXTENDS PositionExit, TLAPS

(***************************************************************************)
(* Rows: what the updates of the code leave of the row's type.             *)
(***************************************************************************)

ExitIds == {"none", "submitting", "unknown"} \cup Orders

LEMMA RowFields ==
  ASSUME NEW r \in RowType
  PROVE  /\ r.status \in {"OPEN", "CLOSED"} /\ r.qty \in 1..Lots /\ r.exitId \in ExitIds
         /\ r.tag \in {None} \cup Attempts /\ r.gtt \in Ids /\ r.pending \in BOOLEAN
         /\ r.entry \in BOOLEAN /\ r.fills \in [Orders -> 0..Lots]
BY DEF RowType, ExitIds

LEMMA WithExitId == ASSUME NEW r \in RowType, NEW e \in ExitIds PROVE [r EXCEPT !.exitId = e] \in RowType
BY DEF RowType, ExitIds

LEMMA WithStatus ==
  ASSUME NEW r \in RowType, NEW s \in {"OPEN", "CLOSED"} PROVE [r EXCEPT !.status = s] \in RowType
BY DEF RowType

LEMMA WithQty == ASSUME NEW r \in RowType, NEW q \in 1..Lots PROVE [r EXCEPT !.qty = q] \in RowType
BY DEF RowType

LEMMA WithGtt == ASSUME NEW r \in RowType, NEW g \in Ids PROVE [r EXCEPT !.gtt = g] \in RowType
BY DEF RowType

LEMMA WithPending == ASSUME NEW r \in RowType, NEW p \in BOOLEAN PROVE [r EXCEPT !.pending = p] \in RowType
BY DEF RowType

LEMMA WithFill ==
  ASSUME NEW r \in RowType, NEW x \in Orders, NEW f \in 0..Lots
  PROVE  [r EXCEPT !.fills[x] = f] \in RowType
<1>1. [r.fills EXCEPT ![x] = f] \in [Orders -> 0..Lots]
  BY DEF RowType
<1>2. [r EXCEPT !.fills[x] = f] = [r EXCEPT !.fills = [r.fills EXCEPT ![x] = f]]
  BY DEF RowType
<1> QED BY <1>1, <1>2 DEF RowType

(* Evidence of an exit order, a smaller or larger holding, a claim. *)

LEMMA ConsumedType ==
  ASSUME NEW r \in RowType, NEW x \in Orders,
         NEW s \in [state : States, filled : 0..Lots]
  PROVE  Consumed(r, x, s) \in RowType
<1> DEFINE delta == s.filled - r.fills[x]
           e == IF s.state = "OPEN" THEN r.exitId ELSE "none"
           a == [r EXCEPT !.fills[x] = s.filled]
<1>1. /\ r.fills \in [Orders -> 0..Lots] /\ r.qty \in 1..Lots /\ r.status \in {"OPEN", "CLOSED"}
      /\ r.exitId \in ExitIds /\ e \in ExitIds /\ "none" \in ExitIds
  BY RowFields DEF ExitIds
<1>2. s.filled \in 0..Lots /\ r.fills[x] \in 0..Lots
  BY <1>1
<1>3. delta \in Int /\ r.qty \in Int
  BY <1>1, <1>2, LotsAssumption
<1>4. a \in RowType
  BY <1>2, WithFill
<1>5. CASE r.status # "OPEN" \/ delta \notin 1..r.qty
  <2>1. PICK f \in ExitIds : Consumed(r, x, s) = [r EXCEPT !.exitId = f]
    BY <1>1, <1>5 DEF Consumed
  <2> QED BY <2>1, WithExitId
<1>6. CASE r.status = "OPEN" /\ delta \in 1..r.qty /\ delta # r.qty
  <2>1. r.qty - delta \in 1..Lots
    BY <1>1, <1>3, <1>6, LotsAssumption
  <2>2. [a EXCEPT !.qty = r.qty - delta] \in RowType
    BY <1>4, <2>1, WithQty
  <2>3. [[a EXCEPT !.qty = r.qty - delta] EXCEPT !.exitId = e] \in RowType
    BY <1>1, <2>2, WithExitId
  <2>4. Consumed(r, x, s) = [[a EXCEPT !.qty = r.qty - delta] EXCEPT !.exitId = e]
    BY <1>3, <1>6 DEF Consumed, RowType
  <2> QED BY <2>3, <2>4
<1>7. CASE r.status = "OPEN" /\ delta \in 1..r.qty /\ delta = r.qty
  <2>1. Consumed(r, x, s) = [a EXCEPT !.status = "CLOSED"]
    BY <1>3, <1>7 DEF Consumed, RowType
  <2> QED BY <1>4, <2>1, WithStatus
<1> QED BY <1>1, <1>3, <1>5, <1>6, <1>7

LEMMA GrownType ==
  ASSUME NEW r \in RowType, NEW q \in 1..Lots, NEW o \in BOOLEAN
  PROVE  [r EXCEPT !.qty = q, !.entry = o] \in RowType
BY DEF RowType

LEMMA ClaimedType ==
  ASSUME NEW r \in RowType, NEW x \in Attempts
  PROVE  [r EXCEPT !.exitId = "submitting", !.tag = x] \in RowType
BY DEF RowType

LEMMA ForgetType == ASSUME NEW r \in RowType PROVE Forget(r) \in RowType
BY WithGtt DEF Forget, Ids

LEMMA ShrunkType ==
  ASSUME row \in RowType, held \in Int, held > 0
  PROVE  Shrunk \in RowType
<1>1. row.qty \in 1..Lots
  BY RowFields
<1>2. CASE held < row.qty
  <2>1. held \in 1..Lots
    BY <1>1, <1>2, LotsAssumption
  <2> QED BY <1>2, <2>1 DEF Shrunk, RowType
<1>3. CASE ~(held < row.qty)
  BY <1>3 DEF Shrunk
<1> QED BY <1>2, <1>3

LEMMA SaveTypes ==
  ASSUME NEW r \in RowType, saved \in RowType, Save(r) \/ SaveStrict(r)
  PROVE  row' \in RowType /\ saved' \in RowType
BY DEF Save, SaveStrict

(***************************************************************************)
(* Tasks                                                                   *)
(***************************************************************************)

LEMMA FollowType ==
  ASSUME NEW r \in RowType, NEW q \in RowType
  PROVE  Follow(r, q) \subseteq TaskType
BY DEF Follow, Task, RowType, TaskType, Ids

LEMMA ProtectType ==
  ASSUME NEW r, NEW by \in {"entry", "exit", "recover"}
  PROVE  Protect(r, by) \subseteq TaskType
BY DEF Protect, TaskType

LEMMA TaskFields ==
  ASSUME NEW k \in TaskType
  PROVE  /\ k.kind = "attribute" => k.id \in Orders /\ k.n \in 0..Lots
         /\ k.kind \in {"cancel", "close"} => k.id \in Ids
         /\ k.kind \in {"resize", "place", "placed", "move"} => k.id \in Triggers /\ k.n \in 1..Lots
         /\ k.kind \in {"place", "placed", "move"} => k.by \in {None, "entry", "exit", "recover"}
         /\ k.kind = "subscribe" => k.by \in {"entry", "exit", "recover"}
BY DEF TaskType, Arming

(***************************************************************************)
(* The two halves of the type invariant                                    *)
(***************************************************************************)

TrigType  == [Triggers -> [state : {"none", "active", "fired", "gone"}, qty : 0..Lots]]
EntryType == [filled : 1..Lots, open : BOOLEAN]
OrderType == [Orders -> [state : States, qty : 0..Lots, filled : 0..Lots]]

HeldOK   == held \in Int /\ entry \in EntryType
TrigOK   == trig \in TrigType /\ \A t \in Triggers : trig[t].state = "active" => trig[t].qty > 0
OrderOK  == /\ order \in OrderType
            /\ \A x \in Orders : order[x].filled <= order[x].qty
            /\ \A x \in Orders : Working(x) => order[x].filled < order[x].qty
RowsOK   == row \in RowType /\ saved \in RowType
FlowOK   == /\ seen \in EntryType
            /\ exit \in [pc : {"idle", "reply"} \cup Steps, old : Ids, sure : BOOLEAN]
            /\ scan \in {None} \cup Nat
TasksOK  == tasks \subseteq TaskType

Parts == HeldOK /\ TrigOK /\ OrderOK /\ RowsOK /\ FlowOK /\ TasksOK

LEMMA TypeParts == (ExitTypeOK <=> Parts) /\ (ExitTypeOK' <=> Parts')
<1>1. ExitTypeOK <=> Parts
  BY DEF ExitTypeOK, Parts, HeldOK, TrigOK, OrderOK, RowsOK, FlowOK, TasksOK, TrigType, EntryType, OrderType
<1>2. ExitTypeOK' <=> Parts'
  BY DEF ExitTypeOK, Parts, HeldOK, TrigOK, OrderOK, RowsOK, FlowOK, TasksOK, TrigType, EntryType, OrderType
<1> QED BY <1>1, <1>2

LEMMA Kept ==
  /\ HeldOK /\ UNCHANGED <<held, entry>> => HeldOK'
  /\ TrigOK /\ UNCHANGED trig => TrigOK'
  /\ OrderOK /\ UNCHANGED order => OrderOK'
  /\ RowsOK /\ UNCHANGED <<row, saved>> => RowsOK'
  /\ FlowOK /\ UNCHANGED <<seen, exit, scan>> => FlowOK'
  /\ TasksOK /\ UNCHANGED tasks => TasksOK'
BY DEF HeldOK, TrigOK, OrderOK, Working, RowsOK, FlowOK, TasksOK

LEMMA Fewer == ASSUME TasksOK, NEW k, tasks' = tasks \ {k} PROVE TasksOK'
BY DEF TasksOK

LEMMA More == ASSUME TasksOK, NEW S, S \subseteq TaskType, NEW k, tasks' = tasks \cup S \/ tasks' = (tasks \ {k}) \cup S
              PROVE TasksOK'
BY DEF TasksOK

LEMMA ToldType ==
  ASSUME OrderOK, NEW x \in Orders, NEW s \in Told(x)
  PROVE  s \in [state : States, filled : 0..Lots]
BY LotsAssumption DEF Told, OrderOK, OrderType, States

(***************************************************************************)
(* The initial states, and one lemma per action or kind of action.         *)
(***************************************************************************)

LEMMA EvidenceType == \A f \in 1..Lots, o \in BOOLEAN : [filled |-> f, open |-> o] \in EntryType
BY DEF EntryType

LEMMA TypeInit == ASSUME Init PROVE ExitTypeOK
<1>1. entry \in EntryType /\ held = entry.filled /\ seen = entry /\ held \in 1..Lots
  <2>1. /\ entry \in {[filled |-> Lots, open |-> FALSE], [filled |-> 1, open |-> TRUE]}
        /\ held = entry.filled /\ seen = entry
    BY DEF Init
  <2>2. entry \in EntryType
    <3>1. Lots \in 1..Lots /\ 1 \in 1..Lots
      BY LotsAssumption
    <3> QED BY <2>1, <3>1, EvidenceType
  <2> QED BY <2>1, <2>2 DEF EntryType
<1>2. PICK g \in Ids :
        /\ trig = [t \in Triggers |-> IF t = g THEN [state |-> "active", qty |-> held] ELSE NoTrigger]
        /\ saved = [status |-> "OPEN", qty |-> held, exitId |-> "none", tag |-> None, gtt |-> g,
                    pending |-> FALSE, entry |-> entry.open, fills |-> [x \in Orders |-> 0]]
  <2>1. (IF Armed THEN Triggers ELSE {None}) \subseteq Ids
    BY DEF Ids
  <2> QED BY <2>1, Zenon DEF Init
<1>3. [x \in Orders |-> 0] \in [Orders -> 0..Lots] /\ entry.open \in BOOLEAN
  BY <1>1, LotsAssumption DEF EntryType
<1>4. RowsOK
  BY <1>1, <1>2, <1>3 DEF Init, RowType, RowsOK
<1>5. \A t \in Triggers : /\ trig[t] \in [state : {"none", "active", "fired", "gone"}, qty : 0..Lots]
                          /\ trig[t].state = "active" => trig[t].qty > 0
  BY <1>1, <1>2, LotsAssumption DEF NoTrigger
<1>6. TrigOK
  BY <1>2, <1>5 DEF TrigOK, TrigType
<1>7. NoOrder \in [state : States, qty : 0..Lots, filled : 0..Lots]
  BY LotsAssumption DEF NoOrder, States
<1>8. order \in OrderType /\ \A x \in Orders : order[x] = NoOrder
  BY <1>7 DEF Init, OrderType
<1>9. OrderOK
  BY <1>8 DEF OrderOK, NoOrder, Working
<1>10. HeldOK /\ FlowOK /\ TasksOK
  BY <1>1, LotsAssumption DEF Init, HeldOK, FlowOK, TasksOK, NoExit, Ids
<1> QED BY <1>4, <1>6, <1>9, <1>10, TypeParts DEF Parts

LEMMA ConsumeExitType ==
  ASSUME RowsOK, TasksOK, NEW r \in RowType, NEW x \in Orders,
         NEW s \in [state : States, filled : 0..Lots], ConsumeExit(r, x, s)
  PROVE  RowsOK' /\ TasksOK'
<1>1. Consumed(r, x, s) \in RowType
  BY ConsumedType
<1>2. RowsOK'
  BY <1>1, SaveTypes DEF ConsumeExit, RowsOK
<1>3. TasksOK'
  BY <1>1, FollowType DEF ConsumeExit, TasksOK
<1> QED BY <1>2, <1>3

LEMMA PostbackType == ASSUME ExitTypeOK, NEW x \in Orders, Postback(x) PROVE ExitTypeOK'
<1> USE TypeParts DEF Parts
<1>1. RowsOK' /\ TasksOK'
  BY ToldType, ConsumeExitType DEF Postback, RowsOK
<1>2. HeldOK' /\ TrigOK' /\ OrderOK' /\ FlowOK'
  BY Kept DEF Postback, broker
<1> QED BY <1>1, <1>2

LEMMA PollExitType == ASSUME ExitTypeOK, PollExit PROVE ExitTypeOK'
<1> USE TypeParts DEF Parts
<1>1. PICK x \in Orders :
        /\ order[x].state \in {"OPEN", "COMPLETE", "DEAD"}
        /\ ConsumeExit([row EXCEPT !.exitId = x], x, [state |-> order[x].state, filled |-> order[x].filled])
  BY DEF PollExit
<1>2. [row EXCEPT !.exitId = x] \in RowType
  BY WithExitId DEF RowsOK, ExitIds
<1>3. [state |-> order[x].state, filled |-> order[x].filled] \in [state : States, filled : 0..Lots]
  BY DEF OrderOK, OrderType
<1>4. RowsOK' /\ TasksOK'
  BY <1>1, <1>2, <1>3, ConsumeExitType
<1>5. HeldOK' /\ TrigOK' /\ OrderOK' /\ FlowOK'
  BY Kept DEF PollExit, broker
<1> QED BY <1>4, <1>5

LEMMA AttributeStartType == ASSUME ExitTypeOK, NEW x \in Orders, AttributeStart(x) PROVE ExitTypeOK'
<1> USE TypeParts DEF Parts
<1>1. order[x].filled \in 0..Lots
  BY DEF OrderOK, OrderType
<1>2. {Task("attribute", x, order[x].filled)} \subseteq TaskType
  BY <1>1 DEF Task, TaskType
<1>3. TasksOK'
  BY <1>2, More DEF AttributeStart
<1>4. HeldOK' /\ TrigOK' /\ OrderOK' /\ RowsOK' /\ FlowOK'
  BY Kept DEF AttributeStart, broker
<1> QED BY <1>3, <1>4

LEMMA AttributeEndType == ASSUME ExitTypeOK, NEW k \in tasks, AttributeEnd(k) PROVE ExitTypeOK'
<1> USE TypeParts DEF Parts
<1>1. k.id \in Orders /\ k.n \in 0..Lots
  BY TaskFields DEF AttributeEnd, TasksOK
<1> DEFINE r == [row EXCEPT !.exitId = k.id]
           q == Consumed(r, k.id, [state |-> "COMPLETE", filled |-> k.n])
<1>2. row \in RowType /\ r \in RowType
  BY <1>1, WithExitId DEF RowsOK, ExitIds
<1>3. q \in RowType
  <2>1. [state |-> "COMPLETE", filled |-> k.n] \in [state : States, filled : 0..Lots]
    BY <1>1 DEF States
  <2> QED BY <1>1, <1>2, <2>1, ConsumedType
<1>4. RowsOK' /\ TasksOK'
  <2>1. CASE Save(q) /\ tasks' = (tasks \ {k}) \cup Follow(r, q)
    BY <1>2, <1>3, <2>1, SaveTypes, FollowType, More DEF RowsOK
  <2>2. CASE tasks' = tasks \ {k} /\ UNCHANGED <<saved, row>>
    BY <2>2, Fewer, Kept
  <2> QED BY <2>1, <2>2 DEF AttributeEnd
<1>5. HeldOK' /\ TrigOK' /\ OrderOK' /\ FlowOK'
  BY Kept DEF AttributeEnd, broker
<1> QED BY <1>4, <1>5

LEMMA TrigWith ==
  ASSUME TrigOK, NEW t \in Triggers, NEW s \in {"none", "active", "fired", "gone"}, NEW n \in 0..Lots,
         s = "active" => n > 0, trig' = [trig EXCEPT ![t] = [state |-> s, qty |-> n]]
  PROVE  TrigOK'
BY DEF TrigOK, TrigType

LEMMA DeletedType ==
  ASSUME TrigOK, NEW t, trig' \in {trig, Deleted(t)}
  PROVE  TrigOK'
<1>1. CASE trig' = trig
  BY <1>1 DEF TrigOK
<1>2. CASE trig' = Deleted(t)
  <2>1. \A u \in Triggers : /\ trig[u] \in [state : {"none", "active", "fired", "gone"}, qty : 0..Lots]
                            /\ trig'[u] \in {trig[u], [trig[u] EXCEPT !.state = "gone"]}
    BY <1>2 DEF Deleted, TrigOK, TrigType
  <2>2. DOMAIN trig' = Triggers /\ trig' = [u \in DOMAIN trig' |-> trig'[u]]
    BY <1>2 DEF Deleted, TrigOK, TrigType
  <2> QED BY <2>1, <2>2 DEF TrigOK, TrigType
<1> QED BY <1>1, <1>2

LEMMA OutcomeFields ==
  ASSUME NEW t, NEW c \in CancelOutcomes(t)
  PROVE  c.trig \in {trig, Deleted(t)} /\ c.sure \in BOOLEAN
<1>1. \/ c = [trig |-> Deleted(t), sure |-> TRUE] \/ c = [trig |-> Deleted(t), sure |-> FALSE]
      \/ c = [trig |-> trig, sure |-> FALSE]
  BY Zenon DEF CancelOutcomes
<1>2. c.trig = trig \/ c.trig = Deleted(t)
  BY <1>1
<1>3. c \in [trig : {trig, Deleted(t)}, sure : BOOLEAN]
  <2>1. \A g \in {trig, Deleted(t)}, s \in BOOLEAN :
          [trig |-> g, sure |-> s] \in [trig : {trig, Deleted(t)}, sure : BOOLEAN]
    OBVIOUS
  <2> QED BY <1>1, <2>1
<1> QED BY <1>2, <1>3

LEMMA CancelType ==
  ASSUME TrigOK, NEW t, NEW c \in CancelOutcomes(t), trig' = c.trig
  PROVE  TrigOK'
BY OutcomeFields, DeletedType

LEMMA ResizeType == ASSUME ExitTypeOK, NEW k \in tasks, Resize(k) PROVE ExitTypeOK'
<1> USE TypeParts DEF Parts
<1>1. k.id \in Triggers /\ k.n \in 1..Lots
  BY TaskFields DEF Resize, TasksOK
<1>2. TrigOK'
  <2>1. CASE trig' = trig
    BY <2>1, Kept
  <2>2. CASE trig' = [trig EXCEPT ![k.id].qty = IF trig[k.id].state = "active" THEN k.n ELSE @]
    BY <1>1, <2>2, LotsAssumption DEF TrigOK, TrigType
  <2> QED BY <2>1, <2>2 DEF Resize
<1>3. TasksOK'
  BY Fewer DEF Resize
<1>4. HeldOK' /\ OrderOK' /\ RowsOK' /\ FlowOK'
  BY Kept DEF Resize
<1> QED BY <1>2, <1>3, <1>4

LEMMA CleanupType == ASSUME ExitTypeOK, NEW k \in tasks, Cleanup(k) PROVE ExitTypeOK'
<1> USE TypeParts DEF Parts
<1>1. TrigOK'
  BY CancelType DEF Cleanup
<1>2. TasksOK'
  BY Fewer DEF Cleanup
<1>3. RowsOK'
  <2> DEFINE r == [row EXCEPT !.gtt = None]
             s == IF k.kind = "close" THEN "CLOSED" ELSE row.status
  <2>1. row \in RowType /\ saved \in RowType /\ s \in {"OPEN", "CLOSED"} /\ None \in Ids
    BY RowFields DEF RowsOK, Ids
  <2>2. [r EXCEPT !.status = s] \in RowType
    BY <2>1, WithGtt, WithStatus
  <2>3. [row EXCEPT !.gtt = None, !.status = IF k.kind = "close" THEN "CLOSED" ELSE @] = [r EXCEPT !.status = s]
    BY <2>1 DEF RowType
  <2> QED BY <2>1, <2>2, <2>3, SaveTypes DEF Cleanup, RowsOK
<1>4. HeldOK' /\ OrderOK' /\ FlowOK'
  BY Kept DEF Cleanup
<1> QED BY <1>1, <1>2, <1>3, <1>4

LEMMA ConsumeEntryType ==
  ASSUME RowsOK, TasksOK, seen \in EntryType, NEW s \in EntryType, NEW by \in {"entry", "exit", "recover"},
         ConsumeEntry(s, by)
  PROVE  RowsOK' /\ TasksOK' /\ seen' \in EntryType
<1> DEFINE r == IF row.status = "OPEN" THEN [row EXCEPT !.qty = s.filled, !.entry = s.open] ELSE row
<1>1. r \in RowType
  BY GrownType DEF RowsOK, EntryType
<1>2. CASE seen' = s /\ SaveStrict(r) /\ tasks' = tasks \cup Protect(r, by)
  BY <1>1, <1>2, SaveTypes, ProtectType DEF RowsOK, TasksOK
<1>3. CASE UNCHANGED <<seen, saved, row>> /\ tasks' = tasks \cup IF row.gtt = None THEN Protect(row, by) ELSE {}
  BY <1>3, ProtectType DEF RowsOK, TasksOK
<1> QED BY <1>2, <1>3 DEF ConsumeEntry

LEMMA EntryUpdateType == ASSUME ExitTypeOK, EntryUpdate PROVE ExitTypeOK'
<1> USE TypeParts DEF Parts
<1>1. PICK s \in {entry} \cup {[filled |-> f, open |-> TRUE] : f \in 1..entry.filled} : ConsumeEntry(s, "entry")
  BY DEF EntryUpdate
<1>2. s \in EntryType
  <2>1. entry.filled \in 1..Lots /\ entry \in EntryType
    BY DEF HeldOK, EntryType
  <2>2. 1..entry.filled \subseteq 1..Lots
    BY <2>1, LotsAssumption
  <2> QED BY <2>1, <2>2, EvidenceType
<1>3. RowsOK' /\ TasksOK' /\ seen' \in EntryType
  BY <1>1, <1>2, ConsumeEntryType DEF FlowOK
<1>4. HeldOK' /\ TrigOK' /\ OrderOK'
  BY Kept DEF EntryUpdate, broker
<1>5. FlowOK'
  BY <1>3 DEF EntryUpdate, FlowOK
<1> QED BY <1>3, <1>4, <1>5

LEMMA HistoryType == ASSUME ExitTypeOK, History PROVE ExitTypeOK'
<1> USE TypeParts DEF Parts
<1>1. CASE Bail /\ UNCHANGED <<seen, scan>>
  <2>1. FlowOK'
    BY <1>1 DEF Bail, FlowOK, NoExit, Ids
  <2> QED BY <1>1, <2>1, Kept DEF Bail
<1>2. CASE ConsumeEntry(entry, "exit") /\ Goto("protect") /\ UNCHANGED <<broker, scan, slips>>
  <2>1. RowsOK' /\ TasksOK' /\ seen' \in EntryType
    BY <1>2, ConsumeEntryType DEF HeldOK, FlowOK
  <2>2. FlowOK'
    BY <1>2, <2>1 DEF Goto, FlowOK, Steps
  <2>3. HeldOK' /\ TrigOK' /\ OrderOK'
    BY <1>2, Kept DEF broker
  <2> QED BY <2>1, <2>2, <2>3
<1> QED BY <1>1, <1>2 DEF History

LEMMA RecoverType == ASSUME ExitTypeOK, Recover PROVE ExitTypeOK'
<1> USE TypeParts DEF Parts
<1>1. TasksOK'
  BY ProtectType DEF Recover, TasksOK
<1> QED BY <1>1, Kept DEF Recover, broker

LEMMA ArmType == ASSUME ExitTypeOK, NEW k \in tasks, Arm(k) PROVE ExitTypeOK'
<1> USE TypeParts DEF Parts
<1>1. k.by \in {"entry", "exit", "recover"}
  BY TaskFields DEF Arm, TasksOK
<1>2. /\ row \in RowType /\ row.qty \in 1..Lots /\ row.gtt \in Ids
      /\ [row EXCEPT !.pending = TRUE] \in RowType
  BY RowFields, WithPending DEF RowsOK
<1>3. RowsOK' /\ TasksOK'
  <2>1. CASE tasks' = tasks \ {k} /\ UNCHANGED <<saved, row, slips>>
    BY <2>1, Fewer, Kept
  <2>2. CASE /\ row.gtt # None /\ UNCHANGED <<saved, row>>
             /\ tasks' = (tasks \ {k}) \cup {[kind |-> "move", id |-> row.gtt, n |-> row.qty, by |-> k.by]}
    <3>1. {[kind |-> "move", id |-> row.gtt, n |-> row.qty, by |-> k.by]} \subseteq TaskType
      BY <1>1, <1>2, <2>2 DEF TaskType, Arming, Ids
    <3> QED BY <2>2, <3>1, More, Kept
  <2>3. ASSUME NEW t \in Triggers, SaveStrict([row EXCEPT !.pending = TRUE]),
               tasks' = (tasks \ {k}) \cup {[kind |-> "place", id |-> t, n |-> row.qty, by |-> k.by]}
        PROVE  RowsOK' /\ TasksOK'
    <3>1. {[kind |-> "place", id |-> t, n |-> row.qty, by |-> k.by]} \subseteq TaskType
      BY <1>1, <1>2 DEF TaskType, Arming
    <3> QED BY <1>2, <2>3, <3>1, More, SaveTypes DEF RowsOK
  <2> QED BY <2>1, <2>2, <2>3 DEF Arm
<1>4. HeldOK' /\ TrigOK' /\ OrderOK' /\ FlowOK'
  BY Kept DEF Arm, broker
<1> QED BY <1>3, <1>4

LEMMA PlaceArrivesType == ASSUME ExitTypeOK, NEW k \in tasks, PlaceArrives(k) PROVE ExitTypeOK'
<1> USE TypeParts DEF Parts
<1>1. k \in TaskType /\ k.id \in Triggers /\ k.n \in 1..Lots
  BY TaskFields DEF PlaceArrives, TasksOK
<1>2. {[k EXCEPT !.kind = "placed"]} \subseteq TaskType
  BY <1>1 DEF PlaceArrives, TaskType, Arming
<1>3. TasksOK'
  BY <1>2, More DEF PlaceArrives
<1>4. TrigOK'
  <2>1. k.n \in 0..Lots /\ k.n > 0
    BY <1>1, LotsAssumption
  <2>2. trig' = [trig EXCEPT ![k.id] = [state |-> "active", qty |-> k.n]]
    BY DEF PlaceArrives
  <2> QED BY <1>1, <2>1, <2>2, TrigWith
<1>5. HeldOK' /\ OrderOK' /\ RowsOK' /\ FlowOK'
  BY Kept DEF PlaceArrives
<1> QED BY <1>3, <1>4, <1>5

LEMMA PlaceReplyType == ASSUME ExitTypeOK, NEW k \in tasks, PlaceReply(k) PROVE ExitTypeOK'
<1> USE TypeParts DEF Parts
<1>1. k.id \in Ids
  BY TaskFields DEF PlaceReply, TasksOK, Ids
<1>2. RowsOK'
  <2> DEFINE r == [row EXCEPT !.gtt = k.id]
  <2>1. r \in RowType /\ [r EXCEPT !.pending = FALSE] \in RowType
    BY <1>1, WithGtt, WithPending DEF RowsOK
  <2>2. [row EXCEPT !.gtt = k.id, !.pending = FALSE] = [r EXCEPT !.pending = FALSE]
    BY DEF RowsOK, RowType
  <2> QED BY <2>1, <2>2, SaveTypes DEF PlaceReply, RowsOK
<1>3. TasksOK'
  BY Fewer DEF PlaceReply
<1> QED BY <1>2, <1>3, Kept DEF PlaceReply, broker

LEMMA MoveType == ASSUME ExitTypeOK, NEW k \in tasks, Move(k) PROVE ExitTypeOK'
<1> USE TypeParts DEF Parts
<1>1. k.id \in Triggers /\ k.n \in 1..Lots
  BY TaskFields DEF Move, TasksOK
<1>2. TrigOK'
  <2>1. CASE trig' = trig
    BY <2>1, Kept
  <2>2. CASE trig' = [trig EXCEPT ![k.id].qty = k.n]
    BY <1>1, <2>2, LotsAssumption DEF TrigOK, TrigType
  <2> QED BY <2>1, <2>2 DEF Move
<1>3. RowsOK'
  <2>1. \A p \in BOOLEAN : [row EXCEPT !.pending = p] \in RowType
    BY WithPending DEF RowsOK
  <2> QED BY <2>1, SaveTypes DEF Move, RowsOK
<1>4. TasksOK'
  BY Fewer DEF Move
<1> QED BY <1>2, <1>3, <1>4, Kept DEF Move

(* The steps of _exit_position. *)

LEMMA GotoType ==
  ASSUME FlowOK, UNCHANGED <<seen, scan>>, NEW pc \in {"idle", "reply"} \cup Steps, Goto(pc)
  PROVE  FlowOK'
BY DEF FlowOK, Goto

LEMMA IdleType == ASSUME FlowOK, UNCHANGED <<seen, scan>>, exit' = NoExit PROVE FlowOK'
BY DEF FlowOK, NoExit, Ids

LEMMA BailType == ASSUME ExitTypeOK, Bail, UNCHANGED <<seen, scan>> PROVE ExitTypeOK'
BY TypeParts, IdleType, Kept DEF Parts, Bail

LEMMA StartType == ASSUME ExitTypeOK, Start PROVE ExitTypeOK'
<1> USE TypeParts DEF Parts
<1>1. FlowOK'
  <2>1. "cancel_entry" \in Steps /\ "look" \in Steps
    BY DEF Steps
  <2> QED BY <2>1, GotoType DEF Start
<1>2. RowsOK'
  BY DEF Start, SaveStrict, RowsOK
<1> QED BY <1>1, <1>2, Kept DEF Start, broker

LEMMA CancelEntryType == ASSUME ExitTypeOK, CancelEntry PROVE ExitTypeOK'
<1> USE TypeParts DEF Parts
<1>1. FlowOK'
  <2>1. "history" \in Steps
    BY DEF Steps
  <2> QED BY <2>1, GotoType DEF CancelEntry
<1>2. HeldOK'
  BY DEF CancelEntry, HeldOK, EntryType
<1> QED BY <1>1, <1>2, Kept DEF CancelEntry

LEMMA ProtectedType == ASSUME ExitTypeOK, Protected PROVE ExitTypeOK'
<1> USE TypeParts DEF Parts
<1>1. FlowOK'
  <2>1. "look" \in Steps
    BY DEF Steps
  <2> QED BY <2>1, GotoType, IdleType DEF Protected
<1> QED BY <1>1, Kept DEF Protected, broker

LEMMA LookType == ASSUME ExitTypeOK, Look PROVE ExitTypeOK'
<1> USE TypeParts DEF Parts
<1>1. CASE Bail
  BY <1>1, BailType DEF Look
<1>2. CASE /\ exit' = [NoExit EXCEPT !.pc = IF row.gtt = None THEN "look2" ELSE "cancel", !.old = row.gtt]
           /\ UNCHANGED <<broker, saved, row, tasks, slips>>
  <2>1. row.gtt \in Ids
    BY RowFields DEF RowsOK
  <2>2. FlowOK'
    BY <1>2, <2>1 DEF Look, FlowOK, NoExit, Steps
  <2> QED BY <1>2, <2>2, Kept DEF broker
<1> QED BY <1>1, <1>2 DEF Look

LEMMA CancelStepType == ASSUME ExitTypeOK, Cancel PROVE ExitTypeOK'
<1> USE TypeParts DEF Parts
<1>1. PICK c \in CancelOutcomes(exit.old) :
        /\ trig' = c.trig
        /\ exit' = [exit EXCEPT !.pc = IF c.sure THEN "look2" ELSE "status", !.sure = c.sure]
  BY DEF Cancel
<1>2. TrigOK'
  BY <1>1, CancelType
<1>3. FlowOK'
  <2>1. c.sure \in BOOLEAN
    BY OutcomeFields
  <2> QED BY <1>1, <2>1 DEF Cancel, FlowOK, Steps
<1> QED BY <1>2, <1>3, Kept DEF Cancel

LEMMA StatusType == ASSUME ExitTypeOK, Status PROVE ExitTypeOK'
<1> USE TypeParts DEF Parts
<1>1. CASE Bail
  BY <1>1, BailType DEF Status
<1>2. CASE Goto("look2") /\ UNCHANGED <<broker, saved, row, tasks, slips>>
  <2>1. "look2" \in Steps
    BY DEF Steps
  <2> QED BY <1>2, <2>1, GotoType, Kept DEF Status, broker
<1> QED BY <1>1, <1>2 DEF Status

LEMMA UnansweredType == ASSUME ExitTypeOK, Unanswered PROVE ExitTypeOK'
<1> USE TypeParts DEF Parts
<1>1. RowsOK'
  <2> DEFINE p == IF exit.old # None /\ exit.sure THEN FALSE ELSE Forget(row).pending
  <2>1. Forget(row) \in RowType
    BY ForgetType DEF RowsOK
  <2>2. p \in BOOLEAN
    BY <2>1, RowFields
  <2>3. [Forget(row) EXCEPT !.pending = p] \in RowType
    BY <2>1, <2>2, WithPending
  <2> QED BY <2>3, SaveTypes DEF Unanswered, RowsOK
<1>2. FlowOK'
  BY IdleType DEF Unanswered
<1> QED BY <1>1, <1>2, Kept DEF Unanswered, broker

LEMMA NothingHeldType == ASSUME ExitTypeOK, NothingHeld PROVE ExitTypeOK'
<1> USE TypeParts DEF Parts
<1>1. TasksOK'
  <2> DEFINE g == IF exit.sure THEN None ELSE exit.old
  <2>1. g \in Ids
    BY DEF FlowOK, Ids
  <2> HIDE DEF g
  <2>2. {Task("close", g, 0)} \subseteq TaskType
    BY <2>1 DEF Task, TaskType
  <2> QED BY <2>2 DEF NothingHeld, TasksOK, g
<1>2. FlowOK'
  BY IdleType DEF NothingHeld
<1> QED BY <1>1, <1>2, Kept DEF NothingHeld, broker

LEMMA SubmitType == ASSUME ExitTypeOK, Submit PROVE ExitTypeOK'
<1> USE TypeParts DEF Parts
<1>1. Shrunk \in RowType
  BY ShrunkType DEF Submit, RowsOK, HeldOK
<1>2. CASE exit' = NoExit /\ UNCHANGED <<order, saved, row, slips>>
  BY <1>2, IdleType, Kept DEF Submit
<1>3. ASSUME NEW x \in Attempts, SaveStrict([Shrunk EXCEPT !.exitId = "submitting", !.tag = x]),
             order' = [order EXCEPT ![x] = [state |-> "transit",
                         qty |-> [Shrunk EXCEPT !.exitId = "submitting", !.tag = x].qty, filled |-> 0]],
             exit' = [exit EXCEPT !.pc = "reply"]
      PROVE  ExitTypeOK'
  <2> DEFINE r == [Shrunk EXCEPT !.exitId = "submitting", !.tag = x]
  <2>1. r \in RowType /\ r.qty \in 1..Lots
    BY <1>1, ClaimedType, RowFields
  <2>2. RowsOK'
    BY <1>3, <2>1, SaveTypes DEF RowsOK
  <2>3. OrderOK'
    <3>1. x \in Orders /\ [state |-> "transit", qty |-> r.qty, filled |-> 0] \in [state : States, qty : 0..Lots, filled : 0..Lots]
      BY <2>1, LotsAssumption DEF Orders, States
    <3> HIDE DEF r
    <3>2. r.qty > 0 /\ r.qty \in Int 
      BY <2>1, LotsAssumption
    <3>3. order' \in OrderType /\ order' = [order EXCEPT ![x] = [state |-> "transit", qty |-> r.qty, filled |-> 0]]
      BY <1>3, <3>1 DEF OrderOK, OrderType, r
    <3>4. \A y \in Orders : order'[y] = IF y = x THEN [state |-> "transit", qty |-> r.qty, filled |-> 0] ELSE order[y]
      BY <3>3 DEF OrderOK, OrderType
    <3> QED BY <3>2, <3>3, <3>4 DEF OrderOK, Working
  <2>4. FlowOK'
    BY <1>3 DEF Submit, FlowOK
  <2> QED BY <2>2, <2>3, <2>4, Kept DEF Submit
<1>4. ASSUME NEW x \in Attempts, row' = [Shrunk EXCEPT !.exitId = "submitting", !.tag = x],
             saved' \in {saved, Shrunk}, exit' = NoExit, order' = order
      PROVE  ExitTypeOK'
  <2>1. RowsOK'
    BY <1>1, <1>4, ClaimedType DEF RowsOK
  <2>2. FlowOK'
    BY <1>4, IdleType DEF Submit
  <2> QED BY <1>4, <2>1, <2>2, Kept DEF Submit
<1> QED BY <1>2, <1>3, <1>4 DEF Submit

LEMMA ReplyType == ASSUME ExitTypeOK, Reply PROVE ExitTypeOK'
<1> USE TypeParts DEF Parts
<1>1. PICK id \in {"unknown"} \cup Attempts : Save(Forget(IF Live THEN [row EXCEPT !.exitId = id] ELSE row))
  BY DEF Reply
<1>2. (IF Live THEN [row EXCEPT !.exitId = id] ELSE row) \in RowType
  <2>1. id \in ExitIds
    BY DEF ExitIds, Orders
  <2> QED BY <2>1, WithExitId DEF RowsOK
<1>3. RowsOK'
  BY <1>1, <1>2, ForgetType, SaveTypes DEF RowsOK
<1>4. FlowOK'
  BY IdleType DEF Reply
<1> QED BY <1>3, <1>4, Kept DEF Reply, broker

(* The scan, the broker, the operator and the crash. *)

LEMMA ScanReadType == ASSUME ExitTypeOK, ScanRead PROVE ExitTypeOK'
<1> USE TypeParts DEF Parts
<1>1. FlowOK'
  BY DEF ScanRead, FlowOK, HeldOK
<1> QED BY <1>1, Kept DEF ScanRead, broker

LEMMA ScanApplyType == ASSUME ExitTypeOK, ScanApply PROVE ExitTypeOK'
<1> USE TypeParts DEF Parts
<1>1. row \in RowType /\ row.gtt \in Ids /\ row.qty \in 1..Lots /\ scan \in Nat
  BY RowFields DEF ScanApply, RowsOK, FlowOK
<1>2. RowsOK' /\ TasksOK'
  <2>1. CASE tasks' = tasks \cup {Task("close", row.gtt, 0)} /\ UNCHANGED <<saved, row>>
    <3>1. {Task("close", row.gtt, 0)} \subseteq TaskType
      BY <1>1 DEF Task, TaskType
    <3> QED BY <2>1, <3>1, Kept DEF TasksOK
  <2>2. CASE scan > 0 /\ scan < row.qty /\ Save([row EXCEPT !.status = "OPEN", !.qty = scan]) /\ tasks' = tasks
    <3>1. scan \in 1..Lots
      BY <1>1, <2>2, LotsAssumption
    <3>2. [row EXCEPT !.status = "OPEN", !.qty = scan] \in RowType
      BY <1>1, <3>1 DEF RowType
    <3> QED BY <2>2, <3>2, SaveTypes DEF RowsOK, TasksOK
  <2>3. CASE UNCHANGED <<saved, row, tasks>>
    BY <2>3, Kept
  <2> QED BY <2>1, <2>2, <2>3 DEF ScanApply
<1>3. FlowOK'
  BY DEF ScanApply, FlowOK
<1> QED BY <1>2, <1>3, Kept DEF ScanApply, broker

LEMMA TrailType == ASSUME ExitTypeOK, Trail PROVE ExitTypeOK'
<1> USE TypeParts DEF Parts
<1>1. row.gtt \in Triggers /\ row.qty \in 1..Lots
  BY RowFields DEF Trail, RowsOK, Ids
<1>2. {Task("resize", row.gtt, row.qty)} \subseteq TaskType
  BY <1>1 DEF Task, TaskType
<1>3. TasksOK'
  BY <1>2 DEF Trail, TasksOK
<1> QED BY <1>3, Kept DEF Trail, broker

LEMMA EntryFillType == ASSUME ExitTypeOK, EntryFill PROVE ExitTypeOK'
<1> USE TypeParts DEF Parts
<1>1. HeldOK'
  <2>1. entry.filled + 1 \in 1..Lots /\ (entry.filled + 1 < Lots) \in BOOLEAN
    BY LotsAssumption DEF EntryFill, HeldOK, EntryType
  <2>2. entry' \in EntryType
    BY <2>1, EvidenceType DEF EntryFill
  <2> QED BY <2>2 DEF EntryFill, HeldOK
<1> QED BY <1>1, Kept DEF EntryFill

LEMMA EntryEndType == ASSUME ExitTypeOK, EntryEnd PROVE ExitTypeOK'
<1> USE TypeParts DEF Parts
<1>1. HeldOK'
  BY DEF EntryEnd, HeldOK, EntryType
<1> QED BY <1>1, Kept DEF EntryEnd, Engine

LEMMA OrderFields ==
  ASSUME OrderOK, NEW x \in Orders
  PROVE  /\ order[x] = [state |-> order[x].state, qty |-> order[x].qty, filled |-> order[x].filled]
         /\ order[x].state \in States /\ order[x].qty \in 0..Lots /\ order[x].filled \in 0..Lots
         /\ order[x].filled <= order[x].qty
         /\ Working(x) => order[x].filled < order[x].qty
BY DEF OrderOK, OrderType

LEMMA OrderState ==
  ASSUME OrderOK, NEW x \in Orders, NEW s
  PROVE  [order[x] EXCEPT !.state = s] = [state |-> s, qty |-> order[x].qty, filled |-> order[x].filled]
BY DEF OrderOK, OrderType

LEMMA OrderProgress ==
  ASSUME OrderOK, NEW x \in Orders, NEW s, NEW f
  PROVE  [[order[x] EXCEPT !.filled = f] EXCEPT !.state = s] = [state |-> s, qty |-> order[x].qty, filled |-> f]
<1>1. [order[x] EXCEPT !.filled = f] = [state |-> order[x].state, qty |-> order[x].qty, filled |-> f]
  BY DEF OrderOK, OrderType
<1>2. \A q : [[state |-> order[x].state, qty |-> q, filled |-> f] EXCEPT !.state = s] = [state |-> s, qty |-> q, filled |-> f]
  OBVIOUS
<1> QED BY <1>1, <1>2

LEMMA OrderWith ==
  ASSUME OrderOK, NEW x \in Orders, NEW s \in States, NEW q \in 0..Lots, NEW f \in 0..Lots,
         f <= q, s \in {"transit", "OPEN"} => f < q,
         order' = [order EXCEPT ![x] = [state |-> s, qty |-> q, filled |-> f]]
  PROVE  OrderOK'
<1> DEFINE o == [state |-> s, qty |-> q, filled |-> f]
<1>1. o \in [state : States, qty : 0..Lots, filled : 0..Lots]
  OBVIOUS
<1>2. order' \in OrderType /\ \A y \in Orders : order'[y] = IF y = x THEN o ELSE order[y]
  BY <1>1 DEF OrderOK, OrderType
<1>3. \A y \in Orders : y # x => order'[y] = order[y]
  BY <1>2
<1>4. order'[x].state = s /\ order'[x].qty = q /\ order'[x].filled = f
  BY <1>2
<1> QED BY <1>2, <1>3, <1>4 DEF OrderOK, Working

LEMMA AcceptType == ASSUME ExitTypeOK, NEW x \in Attempts, Accept(x) PROVE ExitTypeOK'
<1> USE TypeParts DEF Parts
<1>1. x \in Orders
  BY DEF Orders
<1>2. PICK s \in {"OPEN", "lost"} : order' = [order EXCEPT ![x].state = s]
  BY DEF Accept
<1>3. order' = [order EXCEPT ![x] = [state |-> s, qty |-> order[x].qty, filled |-> order[x].filled]]
  <2>1. order' = [order EXCEPT ![x] = [order[x] EXCEPT !.state = s]]
    BY <1>1, <1>2
  <2> QED BY <1>1, <2>1, OrderState
<1>4. OrderOK'
  <2>1. s \in States /\ order[x].filled < order[x].qty
    BY <1>1, OrderFields DEF States, Accept, Working
  <2> QED BY <1>1, <1>3, <2>1, OrderFields, OrderWith
<1> QED BY <1>4, Kept DEF Accept, Engine

LEMMA DieType == ASSUME ExitTypeOK, NEW x \in Orders, Die(x) PROVE ExitTypeOK'
<1> USE TypeParts DEF Parts
<1>1. order' = [order EXCEPT ![x] = [state |-> "DEAD", qty |-> order[x].qty, filled |-> order[x].filled]]
  <2>1. order' = [order EXCEPT ![x] = [order[x] EXCEPT !.state = "DEAD"]]
    BY DEF Die
  <2> QED BY <2>1, OrderState
<1>2. "DEAD" \in States
  BY DEF States
<1>3. OrderOK'
  BY <1>1, <1>2, OrderFields, OrderWith
<1> QED BY <1>3, Kept DEF Die, Engine

LEMMA FillType == ASSUME ExitTypeOK, NEW x \in Orders, Fill(x) PROVE ExitTypeOK'
<1> USE TypeParts DEF Parts
<1> DEFINE f == order[x].filled + 1
           s == IF f = order[x].qty THEN "COMPLETE" ELSE order[x].state
<1>1. order[x].filled < order[x].qty /\ order[x].qty \in 0..Lots /\ order[x].filled \in 0..Lots
  BY OrderFields DEF Fill, Working
<1>2. f \in 0..Lots /\ f <= order[x].qty /\ (f # order[x].qty => f < order[x].qty)
  BY <1>1, LotsAssumption
<1>3. order' = [order EXCEPT ![x] = [state |-> s, qty |-> order[x].qty, filled |-> f]]
  <2>1. order' = [order EXCEPT ![x] = [[order[x] EXCEPT !.filled = f] EXCEPT !.state = s]]
    BY DEF Fill, OrderOK, OrderType
  <2> HIDE DEF f, s
  <2>2. [[order[x] EXCEPT !.filled = f] EXCEPT !.state = s] = [state |-> s, qty |-> order[x].qty, filled |-> f]
    BY OrderProgress
  <2> QED BY <2>1, <2>2
<1>4. s \in States /\ (s \in {"transit", "OPEN"} => f # order[x].qty)
  BY OrderFields DEF States
<1>5. OrderOK'
  <2> HIDE DEF f, s
  <2> QED BY <1>1, <1>2, <1>3, <1>4, OrderWith
<1>6. HeldOK'
  BY DEF Fill, HeldOK
<1> QED BY <1>5, <1>6, Kept DEF Fill, Engine

LEMMA TriggerOrders == Triggers \subseteq Orders /\ Attempts \subseteq Orders /\ Foreign \subseteq Orders
BY DEF Orders

LEMMA FireType == ASSUME ExitTypeOK, NEW t \in Triggers, Fire(t) PROVE ExitTypeOK'
<1> USE TypeParts DEF Parts
<1>1. /\ trig[t].qty \in 0..Lots /\ trig[t].qty > 0
      /\ trig[t] = [state |-> trig[t].state, qty |-> trig[t].qty]
  BY DEF Fire, TrigOK, TrigType
<1>2. TrigOK'
  <2>1. trig' = [trig EXCEPT ![t] = [trig[t] EXCEPT !.state = "fired"]]
    BY DEF Fire
  <2>2. [trig[t] EXCEPT !.state = "fired"] = [state |-> "fired", qty |-> trig[t].qty]
    BY DEF TrigOK, TrigType
  <2> QED BY <1>1, <2>1, <2>2, TrigWith
<1>3. OrderOK'
  <2>1. "OPEN" \in States /\ 0 \in 0..Lots /\ 0 <= trig[t].qty /\ 0 < trig[t].qty
    BY <1>1, LotsAssumption DEF States
  <2>2. order' = [order EXCEPT ![t] = [state |-> "OPEN", qty |-> trig[t].qty, filled |-> 0]]
    BY DEF Fire
  <2> QED BY <1>1, <2>1, <2>2, TriggerOrders, OrderWith
<1> QED BY <1>2, <1>3, Kept DEF Fire, Engine

LEMMA SellType == ASSUME ExitTypeOK, NEW x \in Foreign, Sell(x) PROVE ExitTypeOK'
<1> USE TypeParts DEF Parts
<1>1. OrderOK'
  <2>1. "COMPLETE" \in States /\ 1 \in 0..Lots /\ 1 <= 1
    BY LotsAssumption DEF States
  <2>2. order' = [order EXCEPT ![x] = [state |-> "COMPLETE", qty |-> 1, filled |-> 1]]
    BY DEF Sell
  <2> QED BY <2>1, <2>2, TriggerOrders, OrderWith
<1>2. HeldOK'
  BY DEF Sell, HeldOK
<1> QED BY <1>1, <1>2, Kept DEF Sell

LEMMA DeleteType == ASSUME ExitTypeOK, NEW t \in Triggers, Delete(t) PROVE ExitTypeOK'
BY TypeParts, DeletedType, Kept DEF Parts, Delete

LEMMA CrashType == ASSUME ExitTypeOK, Crash PROVE ExitTypeOK'
<1> USE TypeParts DEF Parts
<1>1. RowsOK' /\ FlowOK' /\ TasksOK'
  BY DEF Crash, RowsOK, FlowOK, TasksOK, NoExit, Ids
<1> QED BY <1>1, Kept DEF Crash, broker

LEMMA TypeStep == ASSUME ExitTypeOK, [Next]_vars PROVE ExitTypeOK'
<1>1. CASE Step
  <2>1. ASSUME NEW x \in Orders, Postback(x) \/ AttributeStart(x) PROVE ExitTypeOK'
    BY <2>1, PostbackType, AttributeStartType
  <2>2. ASSUME NEW k \in tasks,
               \/ AttributeEnd(k) \/ Resize(k) \/ Cleanup(k) \/ Arm(k)
               \/ PlaceArrives(k) \/ PlaceReply(k) \/ Move(k)
        PROVE  ExitTypeOK'
    BY <2>2, AttributeEndType, ResizeType, CleanupType, ArmType, PlaceArrivesType, PlaceReplyType, MoveType
  <2>3. CASE \/ EntryUpdate \/ Recover \/ Start \/ CancelEntry \/ History \/ Protected \/ Look
             \/ Cancel \/ Status \/ Unanswered \/ NothingHeld \/ Submit \/ Reply
    BY <2>3, EntryUpdateType, RecoverType, StartType, CancelEntryType, HistoryType, ProtectedType, LookType,
       CancelStepType, StatusType, UnansweredType, NothingHeldType, SubmitType, ReplyType
  <2>4. CASE PollExit \/ ScanRead \/ ScanApply \/ Trail \/ Crash
    BY <2>4, PollExitType, ScanReadType, ScanApplyType, TrailType, CrashType
  <2>5. CASE Broker
    BY <2>5, EntryFillType, EntryEndType, AcceptType, FillType, DieType, FireType, DeleteType, SellType DEF Broker
  <2> QED BY <1>1, <2>1, <2>2, <2>3, <2>4, <2>5 DEF Step
<1>2. CASE UNCHANGED vars
  BY <1>2, TypeParts, Kept DEF Parts, vars, broker
<1> QED BY <1>1, <1>2 DEF Next

\* The type invariant: whatever order the coroutines, the broker and crashes take, no
\* quantity of the registry, of an order or of a working trigger leaves what was asked
\* for at entry, and none of them is zero while it works.
THEOREM ExitTypesHold == Spec => []ExitTypeOK
<1>1. Init => ExitTypeOK
  BY TypeInit
<1>2. ExitTypeOK /\ [Next]_vars => ExitTypeOK'
  BY TypeStep
<1> QED BY <1>1, <1>2, PTL DEF Spec

(***************************************************************************)
(* The claim.  Fenced alone is not inductive: that Start finds no order at *)
(* work follows from the claim it does not find, and has to be remembered  *)
(* until Submit, over every await of _exit_position.                       *)
(***************************************************************************)

Fence == /\ \A x \in Attempts : Working(x) => Claims(row, x) /\ Claims(saved, x)
         /\ exit.pc \in Steps => \A x \in Attempts : ~Working(x)
FenceInv == "attributed" \notin slips => Fence

LEMMA KeepClaims ==
  ASSUME FenceInv, slips \subseteq slips',
         \A x \in Attempts : Working(x)' => Working(x),
         row'.tag = row.tag, row'.exitId = row.exitId, saved' \in {saved, row'},
         exit'.pc \in Steps => exit.pc \in Steps
  PROVE  FenceInv'
BY DEF FenceInv, Fence, Claims

LEMMA SameOrders == ASSUME UNCHANGED order PROVE \A x \in Attempts : Working(x)' => Working(x)
BY DEF Working

LEMMA IdleStep == ASSUME exit' = NoExit PROVE exit'.pc \notin Steps
BY DEF NoExit, Steps

\* An order at work is the only one the row can match, and its evidence is not final.
LEMMA ClaimIsMatched ==
  ASSUME NEW r, NEW x \in Attempts, NEW y \in Orders, Claims(r, x),
         y = r.exitId \/ (r.exitId \in {"submitting", "unknown"} /\ y = r.tag)
  PROVE  y = x
BY IdsAssumption DEF Claims, Orders

LEMMA ConsumedClaim ==
  ASSUME NEW r \in RowType, NEW x \in Orders, NEW s, s.state = "OPEN"
  PROVE  Consumed(r, x, s).tag = r.tag /\ Consumed(r, x, s).exitId = r.exitId
BY DEF Consumed, RowType

LEMMA FinalEvidence ==
  ASSUME NEW x, NEW s \in Told(x), Working(x)
  PROVE  s.state = "OPEN"
BY DEF Told, Working

LEMMA NobodyWorks ==
  ASSUME \A x \in Attempts : ~Working(x), \A x \in Attempts : Working(x)' => Working(x)
  PROVE  FenceInv'
BY DEF FenceInv, Fence

LEMMA FenceInit == ASSUME Init PROVE FenceInv
<1>1. \A x \in Attempts : order[x].state = "none"
  BY DEF Init, NoOrder, Orders
<1> QED BY <1>1 DEF FenceInv, Fence, Working

LEMMA PostbackFence == ASSUME ExitTypeOK, FenceInv, NEW x \in Orders, Postback(x) PROVE FenceInv'
<1>1. PICK s \in Told(x) : ConsumeExit(row, x, s)
  BY DEF Postback
<1> DEFINE q == Consumed(row, x, s)
<1>2. UNCHANGED <<order, exit, slips>> /\ row' = q /\ saved' \in {q, saved} /\ row \in RowType
  BY <1>1 DEF Postback, ConsumeExit, Save, broker, ExitTypeOK
<1>3. SUFFICES ASSUME "attributed" \notin slips, NEW y \in Attempts, Working(y) PROVE FenceInv'
  BY <1>2, SameOrders, NobodyWorks DEF FenceInv
<1>4. Claims(row, y) /\ Claims(saved, y)
  BY <1>3 DEF FenceInv, Fence
<1>5. x = y
  BY <1>4, ClaimIsMatched DEF Postback, Matched
<1>6. q.tag = row.tag /\ q.exitId = row.exitId
  BY <1>2, <1>3, <1>5, FinalEvidence, ConsumedClaim
<1> QED BY <1>2, <1>6, SameOrders, KeepClaims

LEMMA PollExitFence == ASSUME ExitTypeOK, FenceInv, PollExit PROVE FenceInv'
<1>1. PICK x \in Orders :
        /\ x = IF row.exitId \in {"submitting", "unknown"} THEN row.tag ELSE row.exitId
        /\ ConsumeExit([row EXCEPT !.exitId = x], x, [state |-> order[x].state, filled |-> order[x].filled])
        /\ order[x].state \in {"OPEN", "COMPLETE", "DEAD"}
  BY DEF PollExit
<1> DEFINE r == [row EXCEPT !.exitId = x]
           s == [state |-> order[x].state, filled |-> order[x].filled]
           q == Consumed(r, x, s)
<1>2. /\ UNCHANGED <<order, exit, slips>> /\ row' = q /\ saved' \in {q, saved} /\ row \in RowType
      /\ r \in RowType /\ r.tag = row.tag /\ r.exitId = x
  BY <1>1, WithExitId DEF PollExit, ConsumeExit, Save, broker, ExitTypeOK, ExitIds, RowType
<1>3. SUFFICES ASSUME "attributed" \notin slips, NEW y \in Attempts, Working(y) PROVE FenceInv'
  BY <1>2, SameOrders, NobodyWorks DEF FenceInv
<1>4. Claims(row, y) /\ Claims(saved, y)
  BY <1>3 DEF FenceInv, Fence
<1>5. x = y
  BY <1>1, <1>4, ClaimIsMatched
<1>6. q.tag = y /\ q.exitId = y
  <2>1. s.state = "OPEN"
    BY <1>1, <1>3, <1>5 DEF Working
  <2> HIDE DEF r, s
  <2>2. q.tag = r.tag /\ q.exitId = r.exitId
    BY <1>2, <2>1, ConsumedClaim
  <2> QED BY <1>2, <1>4, <1>5, <2>2 DEF Claims
<1>7. \A z \in Attempts : Working(z) => z = y
  BY <1>3, <1>4 DEF FenceInv, Fence, Claims
<1> HIDE DEF q
<1>8. \A z \in Attempts : Working(z)' => Claims(row', z) /\ Claims(saved', z)
  BY <1>2, <1>4, <1>6, <1>7, SameOrders DEF Claims
<1>9. exit.pc \notin Steps
  BY <1>3 DEF FenceInv, Fence
<1> QED BY <1>2, <1>8, <1>9 DEF FenceInv, Fence, Claims

LEMMA AttributeEndFence == ASSUME ExitTypeOK, FenceInv, NEW k \in tasks, AttributeEnd(k) PROVE FenceInv'
<1>1. UNCHANGED <<order, exit>>
  BY DEF AttributeEnd, broker
<1>2. CASE UNCHANGED <<saved, row, slips>>
  BY <1>1, <1>2, SameOrders, KeepClaims
<1>3. CASE Slip("attributed", row.exitId # "none")
  <2>1. CASE row.exitId # "none"
    BY <1>3, <2>1 DEF Slip, FenceInv
  <2>2. CASE row.exitId = "none"
    <3>1. slips' = slips
      BY <1>3, <2>2 DEF Slip
    <3>2. "attributed" \notin slips => \A x \in Attempts : ~Working(x)
      BY <2>2, IdsAssumption DEF FenceInv, Fence, Claims
    <3> QED BY <1>1, <3>1, <3>2, SameOrders, NobodyWorks DEF FenceInv
  <2> QED BY <2>1, <2>2
<1> QED BY <1>2, <1>3 DEF AttributeEnd

LEMMA ConsumeEntryFence ==
  ASSUME ExitTypeOK, NEW s, NEW by, ConsumeEntry(s, by)
  PROVE  row'.tag = row.tag /\ row'.exitId = row.exitId /\ saved' \in {saved, row'}
BY DEF ConsumeEntry, SaveStrict, ExitTypeOK, RowType

LEMMA TaskFence ==
  ASSUME ExitTypeOK, FenceInv, NEW k \in tasks, Resize(k) \/ Cleanup(k) \/ PlaceArrives(k) \/ PlaceReply(k) \/ Move(k)
  PROVE  FenceInv'
<1>1. UNCHANGED <<order, exit>> /\ slips \subseteq slips'
  <2>1. CASE Resize(k) \/ Cleanup(k)
    BY <2>1 DEF Resize, Cleanup
  <2>2. CASE PlaceArrives(k)
    BY <2>2 DEF PlaceArrives, Slip
  <2>3. CASE PlaceReply(k) \/ Move(k)
    BY <2>3 DEF PlaceReply, Move, broker
  <2> QED BY <2>1, <2>2, <2>3
<1>2. row'.tag = row.tag /\ row'.exitId = row.exitId /\ saved' \in {saved, row'}
  <2>1. CASE UNCHANGED <<row, saved>>
    BY <2>1
  <2>2. CASE Cleanup(k)
    BY <2>2 DEF Cleanup, Save, ExitTypeOK, RowType
  <2>3. CASE PlaceReply(k)
    BY <2>3 DEF PlaceReply, SaveStrict, ExitTypeOK, RowType
  <2>4. CASE Move(k)
    BY <2>4 DEF Move, SaveStrict, ExitTypeOK, RowType
  <2> QED BY <2>1, <2>2, <2>3, <2>4 DEF Resize, PlaceArrives
<1> QED BY <1>1, <1>2, SameOrders, KeepClaims

LEMMA ArmFence == ASSUME ExitTypeOK, FenceInv, NEW k \in tasks, Arm(k) PROVE FenceInv'
<1>1. UNCHANGED <<order, exit>> /\ slips \subseteq slips'
  BY DEF Arm, broker, Slip
<1>2. row'.tag = row.tag /\ row'.exitId = row.exitId /\ saved' \in {saved, row'}
  BY DEF Arm, SaveStrict, ExitTypeOK, RowType
<1> QED BY <1>1, <1>2, SameOrders, KeepClaims

LEMMA StartFence == ASSUME ExitTypeOK, FenceInv, Start PROVE FenceInv'
<1>1. "attributed" \notin slips => \A x \in Attempts : ~Working(x)
  BY IdsAssumption DEF Start, FenceInv, Fence, Claims
<1>2. UNCHANGED <<order, slips>>
  BY DEF Start, broker
<1> QED BY <1>1, <1>2, SameOrders, NobodyWorks DEF FenceInv

LEMMA WalkFence ==
  ASSUME ExitTypeOK, FenceInv,
         CancelEntry \/ History \/ Protected \/ Look \/ Cancel \/ Status \/ Unanswered \/ NothingHeld
  PROVE  FenceInv'
<1>1. UNCHANGED <<order, slips>>
  BY DEF CancelEntry, History, Protected, Look, Cancel, Status, Unanswered, NothingHeld, Bail, broker
<1>2. exit.pc \in Steps
  BY DEF CancelEntry, History, Protected, Look, Cancel, Status, Unanswered, NothingHeld, Steps
<1> QED BY <1>1, <1>2, SameOrders, NobodyWorks DEF FenceInv, Fence

LEMMA SubmitFence == ASSUME ExitTypeOK, FenceInv, Submit PROVE FenceInv'
<1>1. slips \subseteq slips' /\ exit.pc \in Steps
  BY DEF Submit, Steps
<1>2. SUFFICES ASSUME "attributed" \notin slips', \A y \in Attempts : ~Working(y) PROVE Fence'
  BY <1>1 DEF FenceInv, Fence
<1>3. CASE order' = order
  BY <1>2, <1>3, SameOrders, NobodyWorks DEF FenceInv
<1>4. ASSUME NEW x \in Attempts, SaveStrict([Shrunk EXCEPT !.exitId = "submitting", !.tag = x]),
             order' = [order EXCEPT ![x] = [state |-> "transit",
                         qty |-> [Shrunk EXCEPT !.exitId = "submitting", !.tag = x].qty, filled |-> 0]],
             exit' = [exit EXCEPT !.pc = "reply"]
      PROVE  Fence'
  <2>1. Shrunk \in RowType
    BY ShrunkType DEF Submit, ExitTypeOK
  <2>2. Claims(row', x) /\ Claims(saved', x)
    BY <1>4, <2>1 DEF SaveStrict, RowType, Claims
  <2>3. \A y \in Attempts : y # x => ~Working(y)'
    BY <1>2, <1>4 DEF Working, ExitTypeOK
  <2>4. exit'.pc \notin Steps
    BY <1>4 DEF ExitTypeOK, Steps
  <2> QED BY <2>2, <2>3, <2>4 DEF Fence, Claims
<1> QED BY <1>3, <1>4 DEF Submit

LEMMA ReplyFence == ASSUME ExitTypeOK, FenceInv, Reply PROVE FenceInv'
<1>1. PICK id \in {"unknown", row.tag} : Save(Forget(IF Live THEN [row EXCEPT !.exitId = id] ELSE row))
  BY DEF Reply
<1>2. UNCHANGED <<order, slips>> /\ exit'.pc \notin Steps
  BY IdleStep DEF Reply, broker
<1>3. SUFFICES ASSUME "attributed" \notin slips, NEW x \in Attempts, Working(x)
               PROVE  Claims(row', x) /\ Claims(saved', x)
  BY <1>2, SameOrders DEF FenceInv, Fence, Claims
<1>4. Claims(row, x) /\ Claims(saved, x)
  BY <1>3 DEF FenceInv, Fence
<1>5. Claims(IF Live THEN [row EXCEPT !.exitId = id] ELSE row, x)
  BY <1>4 DEF ExitTypeOK, RowType, Claims
<1>6. (IF Live THEN [row EXCEPT !.exitId = id] ELSE row) \in RowType
  BY <1>3, <1>4, WithExitId DEF ExitTypeOK, ExitIds, Orders, Claims
<1>7. Claims(row', x)
  BY <1>1, <1>5, <1>6 DEF Forget, Save, RowType, Claims
<1> QED BY <1>1, <1>4, <1>7 DEF Save

LEMMA ScanFence == ASSUME ExitTypeOK, FenceInv, ScanRead \/ ScanApply \/ Trail PROVE FenceInv'
<1>1. UNCHANGED <<order, exit>> /\ slips \subseteq slips'
  BY DEF ScanRead, ScanApply, Trail, broker, Slip
<1>2. row'.tag = row.tag /\ row'.exitId = row.exitId /\ saved' \in {saved, row'}
  BY DEF ScanRead, ScanApply, Trail, Save, ExitTypeOK, RowType
<1> QED BY <1>1, <1>2, SameOrders, KeepClaims

\* What the broker does never puts an attempt to work that was not.
LEMMA BrokerFence == ASSUME ExitTypeOK, FenceInv, Broker PROVE FenceInv'
<1>1. UNCHANGED <<row, saved, exit>> /\ slips \subseteq slips'
  BY DEF Broker, EntryFill, EntryEnd, Accept, Fill, Die, Fire, Delete, Sell, Engine, Slip
<1>2. \A x \in Attempts : Working(x)' => Working(x)
  <2>1. CASE EntryFill \/ EntryEnd \/ \E t \in Triggers : Delete(t)
    BY <2>1 DEF EntryFill, EntryEnd, Delete, Working
  <2>2. ASSUME NEW y \in Orders, (y \in Attempts /\ Accept(y)) \/ Fill(y) \/ Die(y)
        PROVE  \A x \in Attempts : Working(x)' => Working(x)
    BY <2>2 DEF Accept, Fill, Die, Working, ExitTypeOK, Orders
  <2>3. ASSUME NEW t \in Triggers, Fire(t) PROVE \A x \in Attempts : Working(x)' => Working(x)
    BY <2>3, IdsAssumption DEF Fire, Working, ExitTypeOK, Orders
  <2>4. ASSUME NEW f \in Foreign, Sell(f) PROVE \A x \in Attempts : Working(x)' => Working(x)
    BY <2>4, IdsAssumption DEF Sell, Working, ExitTypeOK, Orders
  <2> QED BY <2>1, <2>2, <2>3, <2>4, TriggerOrders DEF Broker
<1> QED BY <1>1, <1>2, KeepClaims

LEMMA CrashFence == ASSUME FenceInv, Crash PROVE FenceInv'
<1>1. UNCHANGED <<order, slips, saved>> /\ row' = saved /\ exit'.pc \notin Steps
  BY IdleStep DEF Crash, broker
<1> QED BY <1>1, SameOrders DEF FenceInv, Fence, Claims

LEMMA FenceStep == ASSUME ExitTypeOK, FenceInv, [Next]_vars PROVE FenceInv'
<1>1. CASE Step
  <2>1. ASSUME NEW x \in Orders, AttributeStart(x) PROVE FenceInv'
    BY <2>1, SameOrders, KeepClaims DEF AttributeStart, broker
  <2>2. ASSUME NEW k \in tasks,
               \/ AttributeEnd(k) \/ Resize(k) \/ Cleanup(k) \/ Arm(k)
               \/ PlaceArrives(k) \/ PlaceReply(k) \/ Move(k)
        PROVE  FenceInv'
    BY <2>2, AttributeEndFence, TaskFence, ArmFence
  <2>3. CASE EntryUpdate \/ Recover
    <3>1. UNCHANGED <<order, exit, slips>>
      BY <2>3 DEF EntryUpdate, Recover, broker
    <3>2. row'.tag = row.tag /\ row'.exitId = row.exitId /\ saved' \in {saved, row'}
      BY <2>3, ConsumeEntryFence DEF EntryUpdate, Recover
    <3> QED BY <3>1, <3>2, SameOrders, KeepClaims
  <2>4. CASE \/ Start \/ CancelEntry \/ History \/ Protected \/ Look
             \/ Cancel \/ Status \/ Unanswered \/ NothingHeld \/ Submit \/ Reply
    BY <2>4, StartFence, WalkFence, SubmitFence, ReplyFence
  <2>5. CASE PollExit \/ ScanRead \/ ScanApply \/ Trail \/ Broker \/ Crash
    BY <2>5, PollExitFence, ScanFence, BrokerFence, CrashFence
  <2> QED BY <1>1, <2>1, <2>2, <2>3, <2>4, <2>5, PostbackFence DEF Step
<1>2. CASE UNCHANGED vars
  BY <1>2, SameOrders, KeepClaims DEF vars, broker
<1> QED BY <1>1, <1>2 DEF Next

THEOREM FenceHolds == Spec => []FenceInv
<1>1. Init => FenceInv
  BY FenceInit
<1>2. ExitTypeOK /\ FenceInv /\ [Next]_vars => FenceInv'
  BY FenceStep
<1> QED BY <1>1, <1>2, ExitTypesHold, PTL DEF Spec

\* While an exit order may still fill, memory and store hold its claim: through crashes,
\* lost saves, late replies, early and repeated postbacks, for any number of attempts.
THEOREM ExitsAreFenced == Spec => []Fenced
<1>1. FenceInv => Fenced
  BY DEF FenceInv, Fence, Fenced
<1> QED BY <1>1, FenceHolds, PTL

\* At most one exit order of ours may still fill.
THEOREM OneExitAtATime == Spec => []OneExit
<1>1. FenceInv => OneExit
  BY DEF FenceInv, Fence, OneExit, Claims
<1> QED BY <1>1, FenceHolds, PTL

(***************************************************************************)
(* The triggers.  A trigger that has not been cancelled is the one the row *)
(* names, or the one a placement of unknown outcome may have left, or the  *)
(* row is closed; and this is so for both copies of the row.  What the     *)
(* coroutines hold about triggers is part of the invariant: the task that  *)
(* arms one, and the exit from its cancel to the reply.                    *)
(***************************************************************************)

Alive(t)     == trig[t].state \in {"active", "fired"}
Guards(r, t) == r.gtt = t \/ (r.gtt = None /\ r.pending) \/ r.status = "CLOSED"
Placing      == {"place", "placed"}
Selling      == {"cancel", "status", "look2", "reply"}

Unfired   == \A t \in Triggers : trig[t].state # "fired" => order[t] = NoOrder
OneArming == \A j, k \in tasks : j.kind \in Arming /\ k.kind \in Arming => j = k
ByExit    == \A k \in tasks : k.by = "exit" => exit.pc = "protect"
Fresh     == \A k \in tasks : k.kind = "place" => trig[k.id].state = "none"
Unsure    == exit.pc = "status" => ~exit.sure

Watched   == \A t \in Triggers : Alive(t) => Guards(row, t) /\ Guards(saved, t)
OneAlive  == \A t, u \in Triggers : Alive(t) /\ Alive(u) => t = u
PlaceKept(k) ==
  /\ row.pending /\ saved.pending /\ row.gtt = None /\ saved.gtt = None
  /\ exit.pc = "idle" \/ (k.by = "exit" /\ exit.pc = "protect")
  /\ \A t \in Triggers : Alive(t) => k.kind = "placed" /\ t = k.id
MoveKept  == \A t \in Triggers : Alive(t) => row.gtt = t \/ row.status = "CLOSED"
TasksKept == \A k \in tasks : /\ k.kind \in Placing => PlaceKept(k)
                              /\ k.kind = "move" => MoveKept
                              /\ k.kind = "cancel" => row.status = "CLOSED"
SellKept  ==
  /\ exit.pc \in Selling /\ row.status = "OPEN" => row.gtt = exit.old
  /\ exit.pc \in {"look2", "reply"} /\ exit.sure /\ exit.old # None => trig[exit.old].state = "gone"

StopSteps == Unfired /\ OneArming /\ ByExit /\ Fresh /\ Unsure
StopState == Watched /\ OneAlive /\ TasksKept /\ SellKept
Unarmed(s) == s \cap {"rearm", "reopened"} = {}
StopInv   == StopSteps /\ (Unarmed(slips) => StopState)

LEMMA KindsApart == /\ Arming = {"place", "placed", "move"} /\ Placing \subseteq Arming
                    /\ {"cancel", "close", "attribute", "subscribe", "resize"} \cap Arming = {}
BY DEF Arming, Placing

LEMMA StopInit == ASSUME Init PROVE StopInv
<1>1. PICK g \in Ids :
        /\ trig = [t \in Triggers |-> IF t = g THEN [state |-> "active", qty |-> held] ELSE NoTrigger]
        /\ saved = [status |-> "OPEN", qty |-> held, exitId |-> "none", tag |-> None, gtt |-> g,
                    pending |-> FALSE, entry |-> entry.open, fills |-> [x \in Orders |-> 0]]
  <2>1. (IF Armed THEN Triggers ELSE {None}) \subseteq Ids
    BY DEF Ids
  <2> QED BY <2>1, Zenon DEF Init
<1>2. \A t \in Triggers : trig[t].state = IF t = g THEN "active" ELSE "none"
  BY <1>1 DEF NoTrigger
<1>3. row.gtt = g /\ saved.gtt = g
  BY <1>1 DEF Init
<1>4. StopSteps
  BY DEF Init, NoExit, StopSteps, Unfired, OneArming, ByExit, Fresh, Unsure, Orders
<1>5. StopState
  BY <1>2, <1>3 DEF Init, NoExit, StopState, Watched, OneAlive, TasksKept, SellKept, Alive, Guards, Selling
<1> QED BY <1>4, <1>5 DEF StopInv

(* Most steps close the row at most, and leave its trigger to the tasks. *)

SameStop(r, q) == r.gtt = q.gtt /\ r.pending = q.pending
StopRow(r, q)  == SameStop(q, r) /\ q.status \in {r.status, "CLOSED"}

\* No trigger comes to life.
Quieter == \A t \in Triggers : /\ Alive(t)' => Alive(t)
                               /\ trig[t].state \in {"none", "gone"} => trig'[t].state = trig[t].state

\* The tasks a step adds arm nothing, and cancel only for a closed row.
Harmless(k) == /\ k.kind \notin Arming
               /\ k.kind = "cancel" => row'.status = "CLOSED"
               /\ k.by = "exit" => exit'.pc = "protect"

\* Where the exit goes on, it does not take part in the arming of a trigger.
StopWalk ==
  \/ exit' = exit
  \/ exit.pc \notin {"idle", "protect"} /\ exit'.pc \notin Selling
  \/ exit.pc = "look2" /\ exit'.pc = "reply" /\ exit'.old = exit.old /\ exit'.sure = exit.sure

LEMMA StopKept ==
  ASSUME ExitTypeOK, StopInv, slips \subseteq slips', Unfired',
         Unarmed(slips') => StopRow(row, row') /\ (saved' = saved \/ (SameStop(saved', row') /\ saved'.status = row'.status)),
         Quieter, \A k \in tasks' : k \in tasks \/ Harmless(k), StopWalk
  PROVE  StopInv'
<1>1. OneArming'
  BY DEF StopInv, StopSteps, OneArming, Harmless
<1>2. ByExit'
  BY DEF StopInv, StopSteps, ByExit, Harmless, StopWalk
<1>3. Unsure' /\ Fresh'
  <2>1. Unsure'
    BY DEF StopInv, StopSteps, Unsure, StopWalk, Selling
  <2>2. \A k \in tasks : k.kind = "place" => k.id \in Triggers
    BY TaskFields DEF ExitTypeOK
  <2>3. Fresh'
    BY <2>2, KindsApart DEF StopInv, StopSteps, Fresh, Quieter, Harmless
  <2> QED BY <2>1, <2>3
<1>4. SUFFICES ASSUME Unarmed(slips') PROVE StopState'
  BY <1>1, <1>2, <1>3 DEF StopInv, StopSteps
<1>5. StopState /\ StopRow(row, row') /\ (saved' = saved \/ (SameStop(saved', row') /\ saved'.status = row'.status))
  BY <1>4 DEF StopInv, Unarmed
<1>6. Watched'
  BY <1>5 DEF StopState, Watched, Guards, StopRow, SameStop, Quieter
<1>7. OneAlive'
  BY <1>5 DEF StopState, OneAlive, Quieter
<1>8. ASSUME NEW k \in tasks'
      PROVE  /\ k.kind \in Placing => PlaceKept(k)'
             /\ k.kind = "move" => MoveKept'
             /\ k.kind = "cancel" => row'.status = "CLOSED"
  <2>1. CASE k \in tasks
    <3>1. k.kind \in Placing => PlaceKept(k)'
      <4>1. SUFFICES ASSUME k.kind \in Placing PROVE PlaceKept(k)'
        OBVIOUS
      <4>2. PlaceKept(k) /\ k.kind \in {"place", "placed"}
        BY <1>5, <2>1, <4>1 DEF StopState, TasksKept, Placing
      <4>3. row'.pending /\ saved'.pending /\ row'.gtt = None /\ saved'.gtt = None
        BY <1>5, <4>2 DEF PlaceKept, StopRow, SameStop
      <4>4. exit' = exit
        BY <4>2, <2>1 DEF StopWalk, PlaceKept
      <4>5. \A t \in Triggers : Alive(t)' => k.kind = "placed" /\ t = k.id
        BY <4>2 DEF PlaceKept, Quieter
      <4> QED BY <4>2, <4>3, <4>4, <4>5 DEF PlaceKept
    <3>2. k.kind = "move" => MoveKept'
      BY <1>5, <2>1 DEF StopState, TasksKept, MoveKept, StopRow, SameStop, Quieter
    <3>3. k.kind = "cancel" => row'.status = "CLOSED"
      BY <1>5, <2>1 DEF StopState, TasksKept, StopRow
    <3> QED BY <3>1, <3>2, <3>3
  <2>2. CASE Harmless(k)
    BY <2>2, KindsApart DEF Harmless, Placing
  <2> QED BY <2>1, <2>2
<1>9. SellKept'
  <2>1. exit.old = None \/ exit.old \in Triggers
    BY DEF ExitTypeOK, Ids
  <2> QED BY <1>5, <2>1 DEF StopState, SellKept, StopWalk, StopRow, SameStop, Quieter, Selling
<1> QED BY <1>6, <1>7, <1>8, <1>9 DEF StopState, TasksKept

LEMMA SameTrig == ASSUME UNCHANGED trig PROVE Quieter
BY DEF Quieter, Alive

LEMMA SameUnfired == ASSUME StopInv, UNCHANGED <<trig, order>> PROVE Unfired'
BY DEF StopInv, StopSteps, Unfired

LEMMA FollowHarmless ==
  ASSUME NEW r, NEW q, NEW k \in Follow(r, q), row'.status = q.status
  PROVE  Harmless(k)
<1>1. k.kind \in {"cancel", "resize"} /\ k.by = None /\ (k.kind = "cancel" => q.status = "CLOSED")
  BY DEF Follow, Task
<1> QED BY <1>1, IdsAssumption, KindsApart DEF Harmless

LEMMA ConsumedStop ==
  ASSUME NEW r \in RowType, NEW x \in Orders, NEW s
  PROVE  StopRow(r, Consumed(r, x, s))
BY DEF Consumed, RowType, StopRow, SameStop

LEMMA ConsumeExitStop ==
  ASSUME ExitTypeOK, StopInv, NEW r \in RowType, SameStop(r, row), r.status = row.status,
         NEW x \in Orders, NEW s, Save(Consumed(r, x, s)),
         \A k \in tasks' : k \in tasks \/ k \in Follow(r, Consumed(r, x, s)),
         UNCHANGED <<trig, order, exit>>, slips \subseteq slips'
  PROVE  StopInv'
<1> DEFINE q == Consumed(r, x, s)
<1>1. StopRow(r, q)
  BY ConsumedStop
<1> HIDE DEF q
<1>2. row' = q /\ saved' \in {q, saved}
  BY DEF Save, q
<1>3. \A k \in tasks' : k \in tasks \/ Harmless(k)
  BY <1>2, FollowHarmless DEF q
<1>4. StopRow(row, row') /\ (saved' = saved \/ (SameStop(saved', row') /\ saved'.status = row'.status))
  BY <1>1, <1>2 DEF StopRow, SameStop
<1>5. StopWalk
  BY DEF StopWalk
<1> QED BY <1>3, <1>4, <1>5, SameTrig, SameUnfired, StopKept

LEMMA PostbackStop == ASSUME ExitTypeOK, StopInv, NEW x \in Orders, Postback(x) PROVE StopInv'
<1>1. PICK s \in Told(x) : ConsumeExit(row, x, s)
  BY DEF Postback
<1>2. /\ Save(Consumed(row, x, s)) /\ tasks' = tasks \cup Follow(row, Consumed(row, x, s))
      /\ UNCHANGED <<trig, order, exit>> /\ slips' = slips /\ row \in RowType /\ SameStop(row, row)
  BY <1>1 DEF Postback, ConsumeExit, broker, ExitTypeOK, SameStop
<1>3. \A k \in tasks' : k \in tasks \/ k \in Follow(row, Consumed(row, x, s))
  BY <1>2
<1> QED BY <1>2, <1>3, ConsumeExitStop

LEMMA PollExitStop == ASSUME ExitTypeOK, StopInv, PollExit PROVE StopInv'
<1>1. PICK x \in Orders :
        ConsumeExit([row EXCEPT !.exitId = x], x, [state |-> order[x].state, filled |-> order[x].filled])
  BY DEF PollExit
<1> DEFINE r == [row EXCEPT !.exitId = x]
           s == [state |-> order[x].state, filled |-> order[x].filled]
<1>2. r \in RowType /\ SameStop(r, row) /\ r.status = row.status
  BY WithExitId DEF ExitTypeOK, ExitIds, RowType, SameStop
<1> HIDE DEF r, s
<1>3. /\ Save(Consumed(r, x, s)) /\ tasks' = tasks \cup Follow(r, Consumed(r, x, s))
      /\ UNCHANGED <<trig, order, exit>> /\ slips' = slips
  BY <1>1 DEF PollExit, ConsumeExit, broker, r, s
<1>4. \A k \in tasks' : k \in tasks \/ k \in Follow(r, Consumed(r, x, s))
  BY <1>3
<1> QED BY <1>2, <1>3, <1>4, ConsumeExitStop

LEMMA AttributeEndStop == ASSUME ExitTypeOK, StopInv, NEW k \in tasks, AttributeEnd(k) PROVE StopInv'
<1> DEFINE r == [row EXCEPT !.exitId = k.id]
           s == [state |-> "COMPLETE", filled |-> k.n]
<1>1. k.id \in Orders
  BY TaskFields DEF AttributeEnd, ExitTypeOK
<1>2. r \in RowType /\ SameStop(r, row) /\ r.status = row.status
  BY <1>1, WithExitId DEF ExitTypeOK, ExitIds, RowType, SameStop
<1>3. UNCHANGED <<trig, order, exit>>
  BY DEF AttributeEnd, broker
<1>4. CASE /\ Save(Consumed(r, k.id, s)) /\ tasks' = (tasks \ {k}) \cup Follow(r, Consumed(r, k.id, s))
           /\ Slip("attributed", row.exitId # "none")
  <2> HIDE DEF r, s
  <2>1. \A j \in tasks' : j \in tasks \/ j \in Follow(r, Consumed(r, k.id, s))
    BY <1>4
  <2>2. slips \subseteq slips'
    BY <1>4 DEF Slip
  <2> QED BY <1>1, <1>2, <1>3, <1>4, <2>1, <2>2, ConsumeExitStop
<1>5. CASE tasks' = tasks \ {k} /\ UNCHANGED <<saved, row, slips>>
  BY <1>3, <1>5, SameTrig, SameUnfired, StopKept DEF StopRow, SameStop, StopWalk
<1> QED BY <1>4, <1>5 DEF AttributeEnd

LEMMA AttributeStartStop == ASSUME ExitTypeOK, StopInv, NEW x \in Orders, AttributeStart(x) PROVE StopInv'
<1>1. \A k \in tasks' : k \in tasks \/ Harmless(k)
  BY IdsAssumption, KindsApart DEF AttributeStart, Task, Harmless
<1>2. UNCHANGED <<trig, order, row, saved, exit, slips>>
  BY DEF AttributeStart, broker
<1> QED BY <1>1, <1>2, SameTrig, SameUnfired, StopKept DEF StopRow, SameStop, StopWalk

\* What moves a trigger changes its quantity alone.
LEMMA MovedTrig ==
  ASSUME ExitTypeOK, NEW u \in Triggers, NEW n, trig' \in {trig, [trig EXCEPT ![u].qty = n]}
  PROVE  \A t \in Triggers : trig'[t].state = trig[t].state
BY DEF ExitTypeOK

LEMMA ResizeStates ==
  ASSUME ExitTypeOK, NEW k \in tasks, Resize(k)
  PROVE  \A t \in Triggers : trig'[t].state = trig[t].state
<1>1. k.id \in Triggers
  BY TaskFields DEF Resize, ExitTypeOK
<1> QED BY <1>1 DEF Resize, ExitTypeOK

LEMMA ResizeStop == ASSUME ExitTypeOK, StopInv, NEW k \in tasks, Resize(k) PROVE StopInv'
<1>1. Quieter /\ Unfired'
  BY ResizeStates DEF Resize, Quieter, Alive, StopInv, StopSteps, Unfired
<1>2. UNCHANGED <<order, row, saved, exit, slips>> /\ tasks' \subseteq tasks
  BY DEF Resize
<1> QED BY <1>1, <1>2, StopKept DEF StopRow, SameStop, StopWalk

LEMMA ProtectHarmless ==
  ASSUME NEW r, NEW by, NEW k \in Protect(r, by), by = "exit" => exit'.pc = "protect"
  PROVE  Harmless(k)
<1>1. k.kind = "subscribe" /\ k.by = by
  BY DEF Protect
<1> QED BY <1>1, KindsApart DEF Harmless

LEMMA ConsumeEntryRow ==
  ASSUME ExitTypeOK, NEW s, NEW by, ConsumeEntry(s, by)
  PROVE  /\ StopRow(row, row') /\ (saved' = saved \/ saved' = row')
         /\ \A k \in tasks' : k \in tasks \/ \E r : k \in Protect(r, by)
<1>1. CASE /\ SaveStrict(IF row.status = "OPEN" THEN [row EXCEPT !.qty = s.filled, !.entry = s.open] ELSE row)
           /\ tasks' = tasks \cup Protect(IF row.status = "OPEN" THEN [row EXCEPT !.qty = s.filled, !.entry = s.open] ELSE row, by)
  <2>1. StopRow(row, row') /\ saved' = row'
    BY <1>1 DEF SaveStrict, ExitTypeOK, RowType, StopRow, SameStop
  <2> QED BY <1>1, <2>1
<1>2. CASE /\ UNCHANGED <<saved, row>>
           /\ tasks' = tasks \cup IF row.gtt = None THEN Protect(row, by) ELSE {}
  BY <1>2 DEF StopRow, SameStop
<1> QED BY <1>1, <1>2 DEF ConsumeEntry

LEMMA EntryUpdateStop == ASSUME ExitTypeOK, StopInv, EntryUpdate PROVE StopInv'
<1>1. PICK s : ConsumeEntry(s, "entry")
  BY DEF EntryUpdate
<1>2. UNCHANGED <<trig, order, exit, slips>>
  BY DEF EntryUpdate, broker
<1>3. \A k \in tasks' : k \in tasks \/ Harmless(k)
  BY <1>1, ConsumeEntryRow, ProtectHarmless
<1> QED BY <1>1, <1>2, <1>3, ConsumeEntryRow, SameTrig, SameUnfired, StopKept DEF SameStop, StopWalk

LEMMA RecoverStop == ASSUME ExitTypeOK, StopInv, Recover PROVE StopInv'
<1>1. UNCHANGED <<trig, order, row, saved, exit, slips>>
  BY DEF Recover, broker
<1>2. \A k \in tasks' : k \in tasks \/ Harmless(k)
  BY ProtectHarmless DEF Recover
<1> QED BY <1>1, <1>2, SameTrig, SameUnfired, StopKept DEF StopRow, SameStop, StopWalk

LEMMA BailStop == ASSUME ExitTypeOK, StopInv, Bail, exit.pc \notin {"idle", "protect"} PROVE StopInv'
<1>1. StopWalk
  BY DEF Bail, NoExit, StopWalk, Selling
<1> QED BY <1>1, SameTrig, SameUnfired, StopKept DEF Bail, StopRow, SameStop

LEMMA HistoryStop == ASSUME ExitTypeOK, StopInv, History PROVE StopInv'
<1>1. CASE Bail
  BY <1>1, BailStop DEF History
<1>2. CASE ConsumeEntry(entry, "exit") /\ Goto("protect") /\ UNCHANGED <<broker, scan, slips>>
  <2>1. exit'.pc = "protect" /\ StopWalk
    BY <1>2 DEF History, Goto, ExitTypeOK, StopWalk, Selling
  <2>2. \A k \in tasks' : k \in tasks \/ Harmless(k)
    BY <1>2, <2>1, ConsumeEntryRow, ProtectHarmless
  <2> QED BY <1>2, <2>1, <2>2, ConsumeEntryRow, SameTrig, SameUnfired, StopKept DEF broker, SameStop
<1> QED BY <1>1, <1>2 DEF History

LEMMA CancelEntryStop == ASSUME ExitTypeOK, StopInv, CancelEntry PROVE StopInv'
<1>1. StopWalk
  BY DEF CancelEntry, Goto, ExitTypeOK, StopWalk, Selling
<1> QED BY <1>1, SameTrig, SameUnfired, StopKept DEF CancelEntry, StopRow, SameStop

LEMMA NothingHeldStop == ASSUME ExitTypeOK, StopInv, NothingHeld PROVE StopInv'
<1>1. StopWalk
  BY DEF NothingHeld, NoExit, StopWalk, Selling
<1>2. \A k \in tasks' : k \in tasks \/ Harmless(k)
  BY IdsAssumption, KindsApart DEF NothingHeld, Task, Harmless
<1>3. UNCHANGED <<trig, order, row, saved, slips>>
  BY DEF NothingHeld, broker
<1> QED BY <1>1, <1>2, <1>3, SameTrig, SameUnfired, StopKept DEF StopRow, SameStop

LEMMA ScanStop == ASSUME ExitTypeOK, StopInv, ScanRead \/ Trail PROVE StopInv'
<1>1. UNCHANGED <<trig, order, row, saved, exit, slips>>
  BY DEF ScanRead, Trail, broker
<1>2. \A k \in tasks' : k \in tasks \/ Harmless(k)
  BY IdsAssumption, KindsApart DEF ScanRead, Trail, Task, Harmless
<1> QED BY <1>1, <1>2, SameTrig, SameUnfired, StopKept DEF StopRow, SameStop, StopWalk

LEMMA ScanApplyStop == ASSUME ExitTypeOK, StopInv, ScanApply PROVE StopInv'
<1>1. UNCHANGED <<trig, order, exit>> /\ slips \subseteq slips'
  BY DEF ScanApply, broker
<1>2. \A k \in tasks' : k \in tasks \/ Harmless(k)
  BY IdsAssumption, KindsApart DEF ScanApply, Task, Harmless
<1>3. ASSUME Unarmed(slips')
      PROVE  StopRow(row, row') /\ (saved' = saved \/ (SameStop(saved', row') /\ saved'.status = row'.status))
  <2>1. CASE UNCHANGED <<saved, row>>
    BY <2>1 DEF StopRow, SameStop
  <2>2. CASE scan > 0 /\ scan < row.qty /\ Save([row EXCEPT !.status = "OPEN", !.qty = scan])
    <3>1. scan \in 1..(row.qty - 1)
      BY <2>2 DEF ScanApply, ExitTypeOK, RowType
    <3>2. row.status = "OPEN"
      BY <1>3, <3>1 DEF ScanApply, Live, Unarmed
    <3> QED BY <2>2, <3>2 DEF Save, ExitTypeOK, RowType, StopRow, SameStop
  <2> QED BY <2>1, <2>2 DEF ScanApply
<1> QED BY <1>1, <1>2, <1>3, SameTrig, SameUnfired, StopKept DEF StopWalk

LEMMA ShrunkStop ==
  ASSUME ExitTypeOK
  PROVE  /\ SameStop(Shrunk, row)
         /\ Shrunk.status = "OPEN" => row.status = "OPEN" \/ (row.status = "CLOSED" /\ held < row.qty)
BY DEF Shrunk, ExitTypeOK, RowType, SameStop

LEMMA SubmitStop == ASSUME ExitTypeOK, StopInv, Submit PROVE StopInv'
<1>1. UNCHANGED <<trig, tasks>> /\ slips \subseteq slips' /\ exit.pc = "look2"
  BY DEF Submit
<1>2. CASE exit' = NoExit /\ UNCHANGED <<order, saved, row, slips>>
  <2>1. StopWalk
    BY <1>1, <1>2 DEF NoExit, StopWalk, Selling
  <2> QED BY <1>1, <1>2, <2>1, SameTrig, SameUnfired, StopKept DEF StopRow, SameStop
<1>3. ASSUME NEW x \in Attempts, Shrunk.status = "OPEN",
             row' = [Shrunk EXCEPT !.exitId = "submitting", !.tag = x], saved' \in {row', saved, Shrunk},
             Unarmed(slips'), slips' = slips \cup (IF row.pending THEN {"blind"} ELSE {})
                          \cup (IF held < row.qty /\ row.exitId # "none" THEN {"shrunk"} ELSE {})
                          \cup (IF ~Live THEN {"reopened"} ELSE {})
      PROVE  StopRow(row, row') /\ (saved' = saved \/ (SameStop(saved', row') /\ saved'.status = row'.status))
  <2>1. row.status = "OPEN"
    BY <1>3 DEF Unarmed, Live
  <2>2. Shrunk \in RowType
    BY ShrunkType DEF Submit, ExitTypeOK
  <2>3. SameStop(row', Shrunk) /\ row'.status = "OPEN"
    BY <1>3, <2>2 DEF RowType, SameStop
  <2> QED BY <1>3, <2>1, <2>3, ShrunkStop DEF StopRow, SameStop
<1>4. ASSUME NEW x \in Attempts, SaveStrict([Shrunk EXCEPT !.exitId = "submitting", !.tag = x]),
             order' = [order EXCEPT ![x] = [state |-> "transit",
                         qty |-> [Shrunk EXCEPT !.exitId = "submitting", !.tag = x].qty, filled |-> 0]],
             exit' = [exit EXCEPT !.pc = "reply"], Shrunk.status = "OPEN"
      PROVE  StopInv'
  <2>1. Unfired'
    BY <1>1, <1>4, IdsAssumption DEF StopInv, StopSteps, Unfired, ExitTypeOK, Orders
  <2>2. StopWalk
    BY <1>1, <1>4 DEF StopWalk, ExitTypeOK
  <2>3. Unarmed(slips') => StopRow(row, row') /\ (saved' = saved \/ (SameStop(saved', row') /\ saved'.status = row'.status))
    BY <1>3, <1>4 DEF Submit, SaveStrict
  <2> QED BY <1>1, <2>1, <2>2, <2>3, SameTrig, StopKept
<1>5. ASSUME NEW x \in Attempts, row' = [Shrunk EXCEPT !.exitId = "submitting", !.tag = x],
             saved' \in {saved, Shrunk}, exit' = NoExit, order' = order, Shrunk.status = "OPEN"
      PROVE  StopInv'
  <2>1. StopWalk
    BY <1>1, <1>5 DEF NoExit, StopWalk, Selling
  <2>2. Unarmed(slips') => StopRow(row, row') /\ (saved' = saved \/ (SameStop(saved', row') /\ saved'.status = row'.status))
    BY <1>3, <1>5 DEF Submit
  <2> QED BY <1>1, <1>5, <2>1, <2>2, SameTrig, SameUnfired, StopKept
<1> QED BY <1>2, <1>4, <1>5 DEF Submit

(* The steps that arm, cancel or forget a trigger. *)

LEMMA DeletedStates ==
  ASSUME ExitTypeOK, StopInv, NEW u, NEW c \in CancelOutcomes(u), trig' = c.trig, UNCHANGED order
  PROVE  /\ Quieter /\ Unfired'
         /\ c.sure => u # None /\ trig[u].state = "active" /\ (u \in Triggers => trig'[u].state = "gone")
<1>1. /\ trig' \in {trig, Deleted(u)}
      /\ c.sure => u # None /\ trig[u].state = "active" /\ trig' = Deleted(u)
  BY DEF CancelOutcomes
<1>2. \A t \in Triggers : /\ trig'[t].state = trig[t].state \/ (trig[t].state = "active" /\ trig'[t].state = "gone")
                          /\ t = u /\ trig' = Deleted(u) /\ trig[u].state = "active" => trig'[t].state = "gone"
  BY <1>1 DEF Deleted, ExitTypeOK
<1>3. Quieter
  BY <1>2 DEF Quieter, Alive
<1>4. Unfired'
  BY <1>2 DEF StopInv, StopSteps, Unfired
<1> QED BY <1>1, <1>2, <1>3, <1>4

LEMMA CleanupStop == ASSUME ExitTypeOK, StopInv, NEW k \in tasks, Cleanup(k) PROVE StopInv'
<1>1. PICK c \in CancelOutcomes(k.id) : trig' = c.trig
  BY DEF Cleanup
<1>2. UNCHANGED <<order, exit, slips>> /\ tasks' = tasks \ {k}
  BY <1>1 DEF Cleanup
<1>3. Quieter /\ Unfired'
  BY <1>1, <1>2, DeletedStates
<1>4. StopSteps'
  <2>1. \A j \in tasks : j.kind = "place" => j.id \in Triggers
    BY TaskFields DEF ExitTypeOK
  <2> QED BY <1>2, <1>3, <2>1 DEF StopInv, StopSteps, OneArming, ByExit, Fresh, Unsure, Quieter
<1>5. SUFFICES ASSUME Unarmed(slips) PROVE StopState'
  BY <1>2, <1>4 DEF StopInv
<1>6. StopState /\ k.kind \in {"cancel", "close"}
  BY <1>5 DEF StopInv, Cleanup
<1>7. row'.status = "CLOSED" /\ row'.gtt = None /\ row'.pending = row.pending /\ saved' \in {saved, row'}
  BY <1>6 DEF Cleanup, Save, StopState, TasksKept, ExitTypeOK, RowType
<1>8. Watched' /\ OneAlive' /\ SellKept'
  <2>1. exit.old = None \/ exit.old \in Triggers
    BY DEF ExitTypeOK, Ids
  <2> QED BY <1>2, <1>3, <1>6, <1>7, <2>1 DEF StopState, Watched, OneAlive, SellKept, Guards, Quieter
<1>9. ASSUME NEW j \in tasks'
      PROVE  /\ j.kind \in Placing => PlaceKept(j)'
             /\ j.kind = "move" => MoveKept'
             /\ j.kind = "cancel" => row'.status = "CLOSED"
  <2>1. j.kind \in Placing => PlaceKept(j) /\ j.id \in Triggers
    BY <1>2, <1>6, TaskFields DEF StopState, TasksKept, Placing, ExitTypeOK
  <2> QED BY <1>2, <1>3, <1>7, <2>1 DEF MoveKept, PlaceKept, Quieter
<1> QED BY <1>8, <1>9 DEF StopState, TasksKept

LEMMA ArmStop == ASSUME ExitTypeOK, StopInv, NEW k \in tasks, Arm(k) PROVE StopInv'
<1>1. UNCHANGED <<trig, order, exit>>
  BY DEF Arm, broker
<1>2. CASE tasks' = tasks \ {k} /\ UNCHANGED <<saved, row, slips>>
  BY <1>1, <1>2, SameTrig, SameUnfired, StopKept DEF StopRow, SameStop, StopWalk
<1>3. ASSUME ~Busy(Arming), NEW j, j.kind \in {"move", "place"}, j.by = k.by, tasks' = (tasks \ {k}) \cup {j},
             j.kind = "place" => trig[j.id].state = "none"
      PROVE  StopSteps'
  BY <1>1, <1>3, SameUnfired DEF StopInv, StopSteps, OneArming, ByExit, Fresh, Unsure, Busy
<1>4. CASE /\ ~Busy(Arming) /\ row.gtt # None /\ UNCHANGED <<saved, row, slips>>
           /\ tasks' = (tasks \ {k}) \cup {[kind |-> "move", id |-> row.gtt, n |-> row.qty, by |-> k.by]}
  <2>1. PICK j : j.kind = "move" /\ j.by = k.by /\ tasks' = (tasks \ {k}) \cup {j}
    BY <1>4
  <2>2. StopSteps'
    BY <1>3, <1>4, <2>1
  <2>3. SUFFICES ASSUME Unarmed(slips) PROVE StopState'
    BY <1>4, <2>2 DEF StopInv
  <2>4. StopState
    BY <2>3 DEF StopInv
  <2>5. Watched' /\ OneAlive' /\ SellKept'
    BY <1>1, <1>4, <2>4 DEF StopState, Watched, OneAlive, SellKept, Alive
  <2>6. MoveKept'
    BY <1>1, <1>4, <2>4 DEF StopState, Watched, Guards, MoveKept, Alive
  <2>7. TasksKept'
    BY <1>1, <1>4, <2>1, <2>4, <2>6 DEF StopState, TasksKept, PlaceKept, Placing, Alive
  <2> QED BY <2>5, <2>7 DEF StopState
<1>5. ASSUME NEW t \in Triggers, trig[t].state = "none", ~Busy(Arming), ~row.pending, row.gtt = None,
             tasks' = (tasks \ {k}) \cup {[kind |-> "place", id |-> t, n |-> row.qty, by |-> k.by]},
             SaveStrict([row EXCEPT !.pending = TRUE]), Slip("rearm", Rival(k))
      PROVE  StopInv'
  <2>1. PICK j : j.kind = "place" /\ j.by = k.by /\ j.id = t /\ tasks' = (tasks \ {k}) \cup {j}
    BY <1>5
  <2>2. StopSteps'
    BY <1>3, <1>5, <2>1
  <2>3. SUFFICES ASSUME Unarmed(slips') PROVE StopState'
    BY <2>2 DEF StopInv
  <2>4. StopState /\ ~Rival(k)
    BY <1>5, <2>3 DEF StopInv, Unarmed, Slip
  <2>5. /\ row'.pending /\ row'.gtt = None /\ row'.status = row.status /\ saved' = row' /\ row.status = "OPEN"
    BY <1>5, <2>4 DEF SaveStrict, Rival, ExitTypeOK, RowType
  <2>6. \A u \in Triggers : ~Alive(u)
    BY <1>5, <2>4, <2>5, IdsAssumption DEF StopState, Watched, Guards
  <2>7. exit.pc = "idle" \/ (k.by = "exit" /\ exit.pc = "protect")
    BY <2>2, <2>4 DEF StopInv, StopSteps, ByExit, Rival
  <2>8. Watched' /\ OneAlive' /\ SellKept'
    BY <1>1, <2>6, <2>7 DEF Watched, OneAlive, SellKept, Alive, Selling
  <2>9. PlaceKept(j)'
    BY <1>1, <1>5, <2>1, <2>5, <2>6, <2>7 DEF PlaceKept, Alive
  <2>10. ASSUME NEW i \in tasks', i # j
         PROVE  i.kind \notin Arming /\ (i.kind = "cancel" => row'.status = "CLOSED")
    BY <1>5, <2>1, <2>4, <2>5, <2>10 DEF Busy, StopState, TasksKept
  <2>11. TasksKept'
    BY <2>1, <2>9, <2>10, KindsApart DEF TasksKept
  <2> QED BY <2>8, <2>11 DEF StopState
<1> QED BY <1>2, <1>4, <1>5 DEF Arm

LEMMA PlaceArrivesStop == ASSUME ExitTypeOK, StopInv, NEW k \in tasks, PlaceArrives(k) PROVE StopInv'
<1>1. k.id \in Triggers /\ k.kind = "place" /\ k \in TaskType
  BY TaskFields DEF PlaceArrives, ExitTypeOK
<1> DEFINE j == [k EXCEPT !.kind = "placed"]
<1>2. j.kind = "placed" /\ j.id = k.id /\ j.by = k.by /\ tasks' = (tasks \ {k}) \cup {j}
  BY <1>1 DEF PlaceArrives, TaskType
<1> HIDE DEF j
<1>3. UNCHANGED <<row, saved, order, exit>> /\ slips \subseteq slips'
  BY DEF PlaceArrives, Slip
<1>4. \A t \in Triggers : trig'[t].state = IF t = k.id THEN "active" ELSE trig[t].state
  BY <1>1 DEF PlaceArrives, ExitTypeOK
<1>5. \A i \in tasks' : i # j => i \in tasks /\ i.kind \notin Arming
  BY <1>1, <1>2, KindsApart DEF StopInv, StopSteps, OneArming
<1>6. OneArming' /\ ByExit' /\ Unsure'
  BY <1>2, <1>3, <1>5 DEF StopInv, StopSteps, OneArming, ByExit, Unsure
<1>7. Fresh' /\ trig[k.id].state = "none"
  BY <1>1, <1>2, <1>5, KindsApart DEF StopInv, StopSteps, Fresh
<1>8. ASSUME StopState PROVE StopState'
  <2>1. PlaceKept(k)
    BY <1>1, <1>8 DEF StopState, TasksKept, Placing
  <2>2. \A t \in Triggers : Alive(t)' => t = k.id
    BY <1>1, <1>4, <2>1 DEF PlaceKept, Alive
  <2>3. PlaceKept(j)'
    BY <1>2, <1>3, <2>1, <2>2 DEF PlaceKept
  <2>4. Watched' /\ OneAlive'
    BY <1>3, <2>1, <2>2 DEF Watched, Guards, PlaceKept, OneAlive, Alive
  <2>5. SellKept'
    BY <1>3, <2>1 DEF PlaceKept, SellKept, Selling
  <2>6. TasksKept'
    BY <1>2, <1>3, <1>5, <1>8, <2>3, KindsApart DEF TasksKept, StopState
  <2> QED BY <2>4, <2>5, <2>6 DEF StopState
<1>9. Unfired'
  BY <1>3, <1>4, <1>7 DEF StopInv, StopSteps, Unfired
<1> QED BY <1>3, <1>6, <1>7, <1>8, <1>9 DEF StopInv, StopSteps, Unarmed

LEMMA PlaceReplyStop == ASSUME ExitTypeOK, StopInv, NEW k \in tasks, PlaceReply(k) PROVE StopInv'
<1>1. UNCHANGED <<trig, order, exit, slips>> /\ tasks' = tasks \ {k} /\ k.kind \in Placing
  BY DEF PlaceReply, broker, Placing
<1>2. CASE UNCHANGED <<saved, row>>
  BY <1>1, <1>2, SameTrig, SameUnfired, StopKept DEF StopRow, SameStop, StopWalk
<1>3. CASE k.kind = "placed" /\ SaveStrict([row EXCEPT !.gtt = k.id, !.pending = FALSE])
  <2>1. StopSteps'
    BY <1>1, SameUnfired DEF StopInv, StopSteps, OneArming, ByExit, Fresh, Unsure
  <2>2. SUFFICES ASSUME Unarmed(slips) PROVE StopState'
    BY <1>1, <2>1 DEF StopInv
  <2>3. StopState /\ PlaceKept(k)
    BY <1>1, <2>2 DEF StopInv, StopState, TasksKept
  <2>4. row'.gtt = k.id /\ saved' = row' /\ row'.status = row.status
    BY <1>3 DEF SaveStrict, ExitTypeOK, RowType
  <2>5. Watched' /\ OneAlive'
    BY <1>1, <2>3, <2>4 DEF StopState, Watched, OneAlive, Guards, PlaceKept, Alive
  <2>6. SellKept'
    BY <1>1, <2>3 DEF SellKept, PlaceKept, Selling
  <2>7. \A j \in tasks' : j.kind \notin Arming
    BY <1>1, KindsApart DEF StopInv, StopSteps, OneArming
  <2>8. TasksKept'
    BY <1>1, <2>3, <2>4, <2>7, KindsApart DEF StopState, TasksKept
  <2> QED BY <2>5, <2>6, <2>8 DEF StopState
<1> QED BY <1>2, <1>3 DEF PlaceReply

LEMMA MoveFields ==
  ASSUME ExitTypeOK, NEW k \in tasks, Move(k)
  PROVE  /\ \A t \in Triggers : trig'[t].state = trig[t].state
         /\ row'.gtt = row.gtt /\ row'.status = row.status /\ saved' = row'
         /\ row'.pending \/ trig[k.id].state = "active"
         /\ k.id \in Triggers
<1>1. k.id \in Triggers
  BY TaskFields DEF Move, ExitTypeOK
<1>2. \A t \in Triggers : trig'[t].state = trig[t].state
  BY <1>1, MovedTrig DEF Move
<1>3. PICK p \in BOOLEAN : SaveStrict([row EXCEPT !.pending = p]) /\ (p \/ trig[k.id].state = "active")
  BY DEF Move
<1> QED BY <1>1, <1>2, <1>3 DEF SaveStrict, ExitTypeOK, RowType

LEMMA MoveStop == ASSUME ExitTypeOK, StopInv, NEW k \in tasks, Move(k) PROVE StopInv'
<1>1. UNCHANGED <<order, exit, slips>> /\ tasks' = tasks \ {k} /\ k.kind = "move"
  BY DEF Move
<1>2. Unfired' /\ Fresh'
  <2>1. \A j \in tasks : j.kind = "place" => j.id \in Triggers
    BY TaskFields DEF ExitTypeOK
  <2> QED BY <1>1, <2>1, MoveFields DEF StopInv, StopSteps, Unfired, Fresh
<1>3. StopSteps'
  BY <1>1, <1>2 DEF StopInv, StopSteps, OneArming, ByExit, Unsure
<1>4. SUFFICES ASSUME Unarmed(slips) PROVE StopState'
  BY <1>1, <1>3 DEF StopInv
<1>5. StopState /\ MoveKept
  BY <1>1, <1>4 DEF StopInv, StopState, TasksKept
<1>6. Watched' /\ OneAlive'
  BY <1>5, MoveFields DEF StopState, Watched, OneAlive, Guards, MoveKept, Alive
<1>7. SellKept'
  <2>1. exit.old = None \/ exit.old \in Triggers
    BY DEF ExitTypeOK, Ids
  <2> QED BY <1>1, <1>5, <2>1, MoveFields DEF StopState, SellKept
<1>8. \A j \in tasks' : j.kind \notin Arming
  BY <1>1, KindsApart DEF StopInv, StopSteps, OneArming
<1>9. TasksKept'
  BY <1>1, <1>5, <1>8, MoveFields, KindsApart DEF StopState, TasksKept
<1> QED BY <1>6, <1>7, <1>9 DEF StopState

(* The exit's own steps, where it does take part. *)

\* Outside of its idle state and of its own arming, an exit shares nothing with a placement.
LEMMA NoPlacing ==
  ASSUME StopInv, Unarmed(slips), exit.pc \notin {"idle", "protect"} \/ ~row.pending
  PROVE  \A k \in tasks : k.kind \notin Placing
BY DEF StopInv, StopState, TasksKept, PlaceKept

LEMMA ExitMoves ==
  ASSUME ExitTypeOK, StopInv, UNCHANGED <<order, tasks>>, slips \subseteq slips', Quieter, Unfired',
         \A k \in tasks : k.by # "exit", Unsure',
         Unarmed(slips) => /\ row'.status = row.status /\ (saved' = saved \/ saved' = row')
                           /\ \A k \in tasks : k.kind \notin Placing
                           /\ SameStop(row', row) \/ (row'.gtt = None /\ \A t \in Triggers : ~Alive(t) \/ row.status = "CLOSED")
                           /\ SellKept'
  PROVE  StopInv'
<1>1. \A k \in tasks : k.kind = "place" => k.id \in Triggers
  BY TaskFields DEF ExitTypeOK
<1>2. StopSteps'
  BY <1>1 DEF StopInv, StopSteps, OneArming, ByExit, Fresh, Quieter
<1>3. SUFFICES ASSUME Unarmed(slips') PROVE StopState'
  BY <1>2 DEF StopInv
<1>4. StopState /\ Unarmed(slips)
  BY <1>3 DEF StopInv, Unarmed
<1>5. Watched'
  BY <1>4 DEF StopState, Watched, Guards, SameStop, Quieter
<1>6. OneAlive'
  BY <1>4 DEF StopState, OneAlive, Quieter
<1>7. TasksKept'
  BY <1>4 DEF StopState, TasksKept, MoveKept, SameStop, Quieter
<1> QED BY <1>4, <1>5, <1>6, <1>7 DEF StopState

LEMMA StartStop == ASSUME ExitTypeOK, StopInv, Start PROVE StopInv'
<1>1. /\ UNCHANGED <<trig, order, row, tasks, slips>> /\ saved' = row' /\ ~row.pending
      /\ exit.pc = "idle" /\ exit'.pc \in {"cancel_entry", "look"}
  BY DEF Start, broker, SaveStrict, Goto, ExitTypeOK
<1>2. \A k \in tasks : k.by # "exit"
  BY <1>1 DEF StopInv, StopSteps, ByExit
<1>3. Unsure' /\ SellKept'
  BY <1>1 DEF Unsure, SellKept, Selling
<1> QED BY <1>1, <1>2, <1>3, SameTrig, SameUnfired, NoPlacing, ExitMoves DEF SameStop

LEMMA ProtectedStop == ASSUME ExitTypeOK, StopInv, Protected PROVE StopInv'
<1>1. /\ UNCHANGED <<trig, order, row, saved, tasks, slips>>
      /\ exit.pc = "protect" /\ exit'.pc \in {"idle", "look"} /\ \A k \in tasks : k.by # "exit"
  BY DEF Protected, broker, Goto, NoExit, ExitTypeOK
<1>2. Unarmed(slips) => \A k \in tasks : k.kind \notin Placing
  BY <1>1 DEF StopInv, StopState, TasksKept, PlaceKept
<1>3. Unsure' /\ SellKept'
  BY <1>1 DEF Unsure, SellKept, Selling
<1> QED BY <1>1, <1>2, <1>3, SameTrig, SameUnfired, ExitMoves DEF SameStop

LEMMA LookStop == ASSUME ExitTypeOK, StopInv, Look PROVE StopInv'
<1>1. CASE Bail
  BY <1>1, BailStop DEF Look
<1>2. CASE /\ exit' = [NoExit EXCEPT !.pc = IF row.gtt = None THEN "look2" ELSE "cancel", !.old = row.gtt]
           /\ UNCHANGED <<broker, saved, row, tasks, slips>>
  <2>1. exit.pc = "look" /\ UNCHANGED <<trig, order, row, saved, tasks, slips>>
    BY <1>2 DEF Look, broker
  <2>2. exit'.pc = (IF row.gtt = None THEN "look2" ELSE "cancel") /\ exit'.old = row.gtt
    BY <1>2 DEF NoExit
  <2>3. Unsure' /\ SellKept'
    BY <2>1, <2>2 DEF Unsure, SellKept
  <2>4. \A k \in tasks : k.by # "exit"
    BY <2>1 DEF StopInv, StopSteps, ByExit
  <2> QED BY <2>1, <2>3, <2>4, SameTrig, SameUnfired, NoPlacing, ExitMoves DEF SameStop
<1> QED BY <1>1, <1>2 DEF Look

LEMMA CancelStop == ASSUME ExitTypeOK, StopInv, Cancel PROVE StopInv'
<1>1. PICK c \in CancelOutcomes(exit.old) :
        /\ trig' = c.trig
        /\ exit' = [exit EXCEPT !.pc = IF c.sure THEN "look2" ELSE "status", !.sure = c.sure]
  BY DEF Cancel
<1>2. UNCHANGED <<order, row, saved, tasks, slips>> /\ exit.pc = "cancel"
  BY DEF Cancel
<1>3. /\ exit'.pc = (IF c.sure THEN "look2" ELSE "status") /\ exit'.old = exit.old /\ exit'.sure = c.sure
      /\ exit.old = None \/ exit.old \in Triggers
  BY <1>1 DEF ExitTypeOK, Ids
<1>4. Quieter /\ Unfired' /\ (c.sure => trig'[exit.old].state = "gone")
  BY <1>1, <1>2, <1>3, DeletedStates
<1>5. Unsure' /\ (Unarmed(slips) => SellKept')
  BY <1>2, <1>3, <1>4 DEF StopInv, StopState, Unsure, SellKept, Selling
<1>6. \A k \in tasks : k.by # "exit"
  BY <1>2 DEF StopInv, StopSteps, ByExit
<1> QED BY <1>2, <1>4, <1>5, <1>6, NoPlacing, ExitMoves DEF SameStop

LEMMA StatusStop == ASSUME ExitTypeOK, StopInv, Status PROVE StopInv'
<1>1. CASE Bail
  BY <1>1, BailStop DEF Status
<1>2. CASE Goto("look2") /\ UNCHANGED <<broker, saved, row, tasks, slips>>
  <2>1. /\ exit.pc = "status" /\ UNCHANGED <<trig, order, row, saved, tasks, slips>>
        /\ exit'.pc = "look2" /\ exit'.old = exit.old /\ ~exit'.sure
    BY <1>2 DEF Status, broker, Goto, ExitTypeOK, StopInv, StopSteps, Unsure
  <2>2. Unsure' /\ (Unarmed(slips) => SellKept')
    BY <2>1 DEF StopInv, StopState, Unsure, SellKept, Selling
  <2>3. \A k \in tasks : k.by # "exit"
    BY <2>1 DEF StopInv, StopSteps, ByExit
  <2> QED BY <2>1, <2>2, <2>3, SameTrig, SameUnfired, NoPlacing, ExitMoves DEF SameStop
<1> QED BY <1>1, <1>2 DEF Status

\* The trigger is forgotten only after a confirmed cancel: then none is left.
LEMMA ForgetStop ==
  ASSUME ExitTypeOK, StopInv, Unarmed(slips), exit.pc \in {"look2", "reply"}, exit.old # None, exit.sure
  PROVE  \A t \in Triggers : ~Alive(t) \/ row.status = "CLOSED"
<1>1. StopState /\ exit.old \in Triggers
  BY DEF StopInv, ExitTypeOK, Ids
<1>2. trig[exit.old].state = "gone" /\ (row.status = "OPEN" => row.gtt = exit.old)
  BY <1>1 DEF StopState, SellKept, Selling
<1> QED BY <1>1, <1>2 DEF StopState, Watched, Guards, Alive, ExitTypeOK, RowType

LEMMA UnansweredStop == ASSUME ExitTypeOK, StopInv, Unanswered PROVE StopInv'
<1>1. UNCHANGED <<trig, order, tasks, slips>> /\ exit.pc = "look2" /\ exit'.pc = "idle"
  BY DEF Unanswered, broker, NoExit
<1>2. /\ row'.status = row.status /\ saved' \in {saved, row'}
      /\ IF exit.old # None /\ exit.sure THEN row'.gtt = None ELSE SameStop(row', row)
  BY DEF Unanswered, Save, Forget, SameStop, ExitTypeOK, RowType
<1>3. Unsure' /\ SellKept'
  BY <1>1 DEF Unsure, SellKept, Selling
<1>4. \A k \in tasks : k.by # "exit"
  BY <1>1 DEF StopInv, StopSteps, ByExit
<1> QED BY <1>1, <1>2, <1>3, <1>4, SameTrig, SameUnfired, NoPlacing, ForgetStop, ExitMoves

LEMMA ReplyStop == ASSUME ExitTypeOK, StopInv, Reply PROVE StopInv'
<1>1. UNCHANGED <<trig, order, tasks, slips>> /\ exit.pc = "reply" /\ exit'.pc = "idle"
  BY DEF Reply, broker, NoExit
<1>2. PICK id : Save(Forget(IF Live THEN [row EXCEPT !.exitId = id] ELSE row))
  BY DEF Reply
<1>3. /\ row'.status = row.status /\ saved' \in {saved, row'}
      /\ IF exit.old # None /\ exit.sure THEN row'.gtt = None ELSE SameStop(row', row)
  BY <1>2 DEF Save, Forget, SameStop, ExitTypeOK, RowType
<1>4. Unsure' /\ SellKept'
  BY <1>1 DEF Unsure, SellKept, Selling
<1>5. \A k \in tasks : k.by # "exit"
  BY <1>1 DEF StopInv, StopSteps, ByExit
<1> QED BY <1>1, <1>3, <1>4, <1>5, SameTrig, SameUnfired, NoPlacing, ForgetStop, ExitMoves

LEMMA CrashStop == ASSUME StopInv, Crash PROVE StopInv'
<1>1. UNCHANGED <<trig, order, saved, slips>> /\ row' = saved /\ exit'.pc = "idle" /\ tasks' = {}
  BY DEF Crash, broker, NoExit
<1>2. StopSteps'
  BY <1>1, SameUnfired DEF StopSteps, OneArming, ByExit, Fresh, Unsure
<1>3. StopState => StopState'
  BY <1>1 DEF StopState, Watched, Guards, OneAlive, TasksKept, SellKept, Selling, Alive
<1> QED BY <1>1, <1>2, <1>3 DEF StopInv

\* The broker fires a trigger, or somebody deletes it: no trigger comes to life.
LEMMA BrokerStop == ASSUME ExitTypeOK, StopInv, Broker PROVE StopInv'
<1>1. UNCHANGED <<row, saved, exit, tasks>> /\ slips \subseteq slips'
  BY DEF Broker, EntryFill, EntryEnd, Accept, Fill, Die, Fire, Delete, Sell, Engine, Slip
<1>2. Quieter /\ Unfired'
  <2>1. CASE EntryFill \/ EntryEnd
    BY <2>1, SameTrig, SameUnfired DEF EntryFill, EntryEnd
  <2>2. ASSUME NEW x \in Orders, (x \in Attempts /\ Accept(x)) \/ Fill(x) \/ Die(x) \/ (x \in Foreign /\ Sell(x))
        PROVE  Quieter /\ Unfired'
    <3>1. UNCHANGED trig /\ (x \in Foreign \/ order[x].state # "none")
      BY <2>2 DEF Accept, Fill, Die, Sell
    <3>2. \A y \in Orders : y # x => order'[y] = order[y]
      BY <2>2 DEF Accept, Fill, Die, Sell, ExitTypeOK
    <3>3. \A t \in Triggers : t \in Orders /\ (t = x => trig[t].state = "fired")
      BY <3>1, IdsAssumption DEF Orders, StopInv, StopSteps, Unfired, NoOrder
    <3> QED BY <3>1, <3>2, <3>3, SameTrig DEF StopInv, StopSteps, Unfired
  <2>3. ASSUME NEW t \in Triggers, Fire(t) PROVE Quieter /\ Unfired'
    <3>1. \A u \in Triggers : /\ u # t => trig'[u] = trig[u] /\ order'[u] = order[u]
                              /\ u = t => trig[u].state = "active" /\ trig'[u].state = "fired"
      BY <2>3 DEF Fire, ExitTypeOK, Orders
    <3> QED BY <3>1 DEF Quieter, Alive, StopInv, StopSteps, Unfired
  <2>4. ASSUME NEW t \in Triggers, Delete(t) PROVE Quieter /\ Unfired'
    <3>1. \A u \in Triggers : /\ u # t => trig'[u] = trig[u]
                              /\ u = t => trig[u].state = "active" /\ trig'[u].state = "gone"
      BY <2>4 DEF Delete, Deleted, ExitTypeOK
    <3> QED BY <2>4, <3>1 DEF Delete, Quieter, Alive, StopInv, StopSteps, Unfired
  <2> QED BY <2>1, <2>2, <2>3, <2>4 DEF Broker, Orders
<1> QED BY <1>1, <1>2, StopKept DEF StopRow, SameStop, StopWalk

LEMMA StopStep == ASSUME ExitTypeOK, StopInv, [Next]_vars PROVE StopInv'
<1>1. CASE Step
  <2>1. ASSUME NEW x \in Orders, Postback(x) \/ AttributeStart(x) PROVE StopInv'
    BY <2>1, PostbackStop, AttributeStartStop
  <2>2. ASSUME NEW k \in tasks,
               \/ AttributeEnd(k) \/ Resize(k) \/ Cleanup(k) \/ Arm(k)
               \/ PlaceArrives(k) \/ PlaceReply(k) \/ Move(k)
        PROVE  StopInv'
    BY <2>2, AttributeEndStop, ResizeStop, CleanupStop, ArmStop, PlaceArrivesStop, PlaceReplyStop, MoveStop
  <2>3. CASE \/ EntryUpdate \/ Recover \/ Start \/ CancelEntry \/ History \/ Protected \/ Look
             \/ Cancel \/ Status \/ Unanswered \/ NothingHeld \/ Submit \/ Reply
    BY <2>3, EntryUpdateStop, RecoverStop, StartStop, CancelEntryStop, HistoryStop, ProtectedStop, LookStop,
       CancelStop, StatusStop, UnansweredStop, NothingHeldStop, SubmitStop, ReplyStop
  <2>4. CASE PollExit \/ ScanRead \/ ScanApply \/ Trail \/ Crash \/ Broker
    BY <2>4, PollExitStop, ScanStop, ScanApplyStop, CrashStop, BrokerStop
  <2> QED BY <1>1, <2>1, <2>2, <2>3, <2>4 DEF Step
<1>2. CASE UNCHANGED vars
  BY <1>2, SameTrig, SameUnfired, StopKept DEF vars, broker, StopRow, SameStop, StopWalk
<1> QED BY <1>1, <1>2 DEF Next

THEOREM StopsHold == Spec => []StopInv
<1>1. Init => StopInv
  BY StopInit
<1>2. ExitTypeOK /\ StopInv /\ [Next]_vars => StopInv'
  BY StopStep
<1> QED BY <1>1, <1>2, ExitTypesHold, PTL DEF Spec

\* No two triggers guard one holding, whatever postbacks, cancels, lost replies and
\* crashes do, unless one is armed while the holding is sold, or a closed row is opened.
THEOREM TriggersAreAlone == Spec => []OneTrigger
<1>1. StopInv => OneTrigger
  BY DEF StopInv, StopState, OneAlive, Alive, Unarmed, OneTrigger
<1> QED BY <1>1, StopsHold, PTL

(***************************************************************************)
(* One seller.  Between the cancel and the order that it makes room for    *)
(* nothing is at work; that this is still so when the order goes out is    *)
(* what the invariant carries over the second look at the holdings.        *)
(***************************************************************************)

Undisturbed(s) == s \cap {"rearm", "blind", "attributed", "reopened"} = {}
Known(r)       == r.status = "OPEN" /\ (r.gtt # None \/ ~r.pending)
NobodySells    == \A t \in Triggers : ~AtWork(t)
Apart          == \A x \in Attempts, t \in Triggers : ~(Working(x) /\ AtWork(t))
Cleared        == exit.pc = "look2" /\ Known(row) => NobodySells
SellerInv      == Undisturbed(slips) => Apart /\ Cleared

LEMMA SellerInit == ASSUME Init PROVE SellerInv
BY DEF Init, SellerInv, Apart, Cleared, Working, NoOrder, NoExit, Orders

LEMMA SellerKept ==
  ASSUME SellerInv, slips \subseteq slips',
         Undisturbed(slips') => /\ \A x \in Attempts : Working(x)' => Working(x)
                                /\ \A t \in Triggers : AtWork(t)' => AtWork(t)
                                /\ exit'.pc = "look2" /\ Known(row') => exit.pc = "look2" /\ Known(row)
  PROVE  SellerInv'
BY DEF SellerInv, Undisturbed, Apart, Cleared, NobodySells

\* Where no trigger is alive, none is at work: the order of a trigger means it has fired.
LEMMA WorkAlive ==
  ASSUME StopInv, NEW t \in Triggers, AtWork(t)
  PROVE  Alive(t)
BY DEF StopInv, StopSteps, Unfired, AtWork, Alive, NoOrder

LEMMA SameWork == ASSUME UNCHANGED <<trig, order>>
                  PROVE  (\A x \in Attempts : Working(x)' => Working(x)) /\ (\A t \in Triggers : AtWork(t)' => AtWork(t))
BY DEF Working, AtWork

LEMMA StopKnown == ASSUME NEW r, NEW q, StopRow(r, q), Known(q) PROVE Known(r)
BY DEF StopRow, SameStop, Known

(* Steps that leave the exit where it is. *)

LEMMA ConsumeExitSeller ==
  ASSUME ExitTypeOK, SellerInv, PollExit \/ \E x \in Orders : Postback(x)
  PROVE  SellerInv'
<1>1. UNCHANGED <<trig, order, exit>> /\ slips' = slips
  BY DEF PollExit, Postback, ConsumeExit, broker
<1>2. StopRow(row, row')
  <2>1. ASSUME NEW x \in Orders, Postback(x) PROVE StopRow(row, row')
    BY <2>1, ConsumedStop DEF Postback, ConsumeExit, Save, ExitTypeOK
  <2>2. ASSUME PollExit PROVE StopRow(row, row')
    <3>1. PICK x \in Orders :
            ConsumeExit([row EXCEPT !.exitId = x], x, [state |-> order[x].state, filled |-> order[x].filled])
      BY <2>2 DEF PollExit
    <3> DEFINE r == [row EXCEPT !.exitId = x]
    <3>2. r \in RowType /\ SameStop(r, row) /\ r.status = row.status
      BY WithExitId DEF ExitTypeOK, ExitIds, RowType, SameStop
    <3> HIDE DEF r
    <3>3. StopRow(r, row')
      BY <3>1, <3>2, ConsumedStop DEF ConsumeExit, Save, r
    <3> QED BY <3>2, <3>3 DEF StopRow, SameStop
  <2> QED BY <2>1, <2>2
<1> QED BY <1>1, <1>2, SameWork, StopKnown, SellerKept

LEMMA AttributeEndSeller == ASSUME ExitTypeOK, SellerInv, NEW k \in tasks, AttributeEnd(k) PROVE SellerInv'
<1>1. UNCHANGED <<trig, order, exit>> /\ slips \subseteq slips'
  BY DEF AttributeEnd, broker, Slip
<1>2. CASE UNCHANGED row
  BY <1>1, <1>2, SameWork, SellerKept
<1>3. CASE Save(Consumed([row EXCEPT !.exitId = k.id], k.id, [state |-> "COMPLETE", filled |-> k.n]))
  <2> DEFINE r == [row EXCEPT !.exitId = k.id]
  <2>1. k.id \in Orders
    BY TaskFields DEF AttributeEnd, ExitTypeOK
  <2>2. r \in RowType /\ SameStop(r, row) /\ r.status = row.status
    BY <2>1, WithExitId DEF ExitTypeOK, ExitIds, RowType, SameStop
  <2> HIDE DEF r
  <2>3. StopRow(r, row')
    BY <1>3, <2>1, <2>2, ConsumedStop DEF Save, r
  <2>4. StopRow(row, row')
    BY <2>2, <2>3 DEF StopRow, SameStop
  <2> QED BY <1>1, <2>4, SameWork, StopKnown, SellerKept
<1> QED BY <1>2, <1>3 DEF AttributeEnd

LEMMA EntrySeller == ASSUME ExitTypeOK, SellerInv, EntryUpdate \/ Recover PROVE SellerInv'
<1>1. UNCHANGED <<trig, order, exit, slips>>
  BY DEF EntryUpdate, Recover, broker
<1>2. StopRow(row, row')
  BY ConsumeEntryRow DEF EntryUpdate, Recover, StopRow, SameStop
<1> QED BY <1>1, <1>2, SameWork, StopKnown, SellerKept

LEMMA TaskSeller ==
  ASSUME ExitTypeOK, StopInv, SellerInv, NEW k \in tasks, Resize(k) \/ Cleanup(k) \/ Arm(k) \/ PlaceReply(k)
  PROVE  SellerInv'
<1>1. UNCHANGED <<order, exit>> /\ slips \subseteq slips'
  BY DEF Resize, Cleanup, Arm, PlaceReply, broker, Slip
<1>2. \A t \in Triggers : AtWork(t)' => AtWork(t)
  <2>1. CASE Resize(k)
    BY <1>1, <2>1, ResizeStates DEF AtWork
  <2>2. CASE Cleanup(k)
    <3>1. PICK c \in CancelOutcomes(k.id) : trig' = c.trig
      BY <2>2 DEF Cleanup
    <3>2. \A t \in Triggers : trig'[t].state = "active" => trig[t].state = "active"
      BY <3>1 DEF CancelOutcomes, Deleted, ExitTypeOK
    <3> QED BY <1>1, <3>2 DEF AtWork
  <2>3. CASE UNCHANGED trig
    BY <1>1, <2>3 DEF AtWork
  <2> QED BY <2>1, <2>2, <2>3 DEF Arm, PlaceReply, broker
<1>3. ASSUME Undisturbed(slips'), exit.pc = "look2", Known(row') PROVE Known(row)
  <2>1. StopState
    BY <1>1, <1>3 DEF StopInv, Undisturbed, Unarmed
  <2>2. CASE Resize(k)
    BY <1>3, <2>2 DEF Resize
  <2>3. CASE Cleanup(k)
    <3>1. row'.status = "CLOSED"
      BY <2>1, <2>3 DEF Cleanup, Save, StopState, TasksKept, ExitTypeOK, RowType
    <3> QED BY <1>3, <3>1 DEF Known
  <2>4. CASE Arm(k)
    <3>1. CASE UNCHANGED row
      BY <1>3, <3>1
    <3>2. CASE SaveStrict([row EXCEPT !.pending = TRUE]) /\ row.gtt = None
      BY <1>3, <3>2 DEF Known, SaveStrict, ExitTypeOK, RowType
    <3> QED BY <2>4, <3>1, <3>2 DEF Arm
  <2>5. CASE PlaceReply(k)
    BY <1>3, <2>1, <2>5 DEF PlaceReply, StopState, TasksKept, PlaceKept, Placing
  <2> QED BY <2>2, <2>3, <2>4, <2>5
<1> QED BY <1>1, <1>2, <1>3, SellerKept DEF Working

LEMMA MoveSeller == ASSUME ExitTypeOK, StopInv, SellerInv, NEW k \in tasks, Move(k) PROVE SellerInv'
<1>1. UNCHANGED <<order, exit, slips>> /\ k.kind = "move"
  BY DEF Move
<1>2. ASSUME Undisturbed(slips), Known(row') PROVE Known(row)
  <2>1. MoveKept
    BY <1>1, <1>2 DEF StopInv, StopState, TasksKept, Undisturbed, Unarmed
  <2> QED BY <1>2, <2>1, MoveFields, IdsAssumption DEF MoveKept, Known, Alive
<1> QED BY <1>1, <1>2, MoveFields, SellerKept DEF Working, AtWork

LEMMA PlaceArrivesSeller ==
  ASSUME ExitTypeOK, FenceInv, StopInv, SellerInv, NEW k \in tasks, PlaceArrives(k)
  PROVE  SellerInv'
<1>1. UNCHANGED <<order, exit, row>>
  BY DEF PlaceArrives
<1>2. SUFFICES ASSUME Undisturbed(slips') PROVE Apart' /\ Cleared'
  BY DEF SellerInv
<1>3. ~Rival(k) /\ Undisturbed(slips)
  BY <1>2 DEF PlaceArrives, Slip, Undisturbed
<1>4. exit.pc # "look2"
  BY <1>3 DEF StopInv, StopState, TasksKept, PlaceKept, Placing, PlaceArrives, Undisturbed, Unarmed
<1>5. \A x \in Attempts : ~Working(x)
  BY <1>3, IdsAssumption DEF FenceInv, Fence, Claims, Rival, Undisturbed
<1> QED BY <1>1, <1>4, <1>5 DEF Apart, Cleared, Working

LEMMA ScanSeller == ASSUME ExitTypeOK, SellerInv, ScanRead \/ ScanApply \/ Trail PROVE SellerInv'
<1>1. UNCHANGED <<trig, order, exit>> /\ slips \subseteq slips'
  BY DEF ScanRead, ScanApply, Trail, broker
<1>2. ASSUME Undisturbed(slips'), Known(row') PROVE Known(row)
  <2>1. CASE UNCHANGED row
    BY <1>2, <2>1
  <2>2. CASE ScanApply /\ scan > 0 /\ scan < row.qty /\ Save([row EXCEPT !.status = "OPEN", !.qty = scan])
    <3>1. scan \in 1..(row.qty - 1)
      BY <2>2 DEF ScanApply, ExitTypeOK, RowType
    <3>2. row.status = "OPEN"
      BY <1>2, <2>2, <3>1 DEF ScanApply, Live, Undisturbed
    <3> QED BY <1>2, <2>2, <3>2 DEF Save, ExitTypeOK, RowType, Known
  <2> QED BY <2>1, <2>2 DEF ScanRead, ScanApply, Trail
<1> QED BY <1>1, <1>2, SameWork, SellerKept

(* The exit. *)

LEMMA LeaveSeller ==
  ASSUME SellerInv, exit'.pc # "look2", UNCHANGED <<trig, order>>, slips \subseteq slips'
  PROVE  SellerInv'
BY SameWork, SellerKept

LEMMA WalkSeller ==
  ASSUME ExitTypeOK, SellerInv,
         Bail \/ Start \/ CancelEntry \/ History \/ Protected \/ Unanswered \/ NothingHeld \/ Reply
  PROVE  SellerInv'
<1>1. exit'.pc # "look2"
  BY DEF Bail, Start, CancelEntry, History, Protected, Unanswered, NothingHeld, Reply, Goto, NoExit, ExitTypeOK
<1>2. UNCHANGED <<trig, order, slips>>
  BY DEF Bail, Start, CancelEntry, History, Protected, Unanswered, NothingHeld, Reply, broker
<1> QED BY <1>1, <1>2, LeaveSeller

\* On the way to the second look nothing of ours is at work, so only triggers matter.
LEMMA ArriveSeller ==
  ASSUME SellerInv, UNCHANGED <<order, slips>>, \A t \in Triggers : AtWork(t)' => AtWork(t),
         Undisturbed(slips) /\ Known(row') => NobodySells'
  PROVE  SellerInv'
BY DEF SellerInv, Apart, Cleared, Working

LEMMA LookSeller == ASSUME ExitTypeOK, StopInv, SellerInv, Look PROVE SellerInv'
<1>1. CASE Bail
  BY <1>1, WalkSeller
<1>2. CASE /\ exit' = [NoExit EXCEPT !.pc = IF row.gtt = None THEN "look2" ELSE "cancel", !.old = row.gtt]
           /\ UNCHANGED <<broker, saved, row, tasks, slips>>
  <2>1. UNCHANGED <<trig, order, row, slips>> /\ exit'.pc = IF row.gtt = None THEN "look2" ELSE "cancel"
    BY <1>2 DEF broker, NoExit
  <2>2. CASE row.gtt # None
    BY <2>1, <2>2, LeaveSeller
  <2>3. ASSUME row.gtt = None, Undisturbed(slips), Known(row) PROVE NobodySells
    <3>1. \A t \in Triggers : ~Alive(t)
      BY <2>3, IdsAssumption DEF StopInv, StopState, Watched, Guards, Known, Undisturbed, Unarmed
    <3> QED BY <3>1, WorkAlive DEF NobodySells
  <2> QED BY <2>1, <2>2, <2>3, SameWork, ArriveSeller DEF NobodySells, AtWork
<1> QED BY <1>1, <1>2 DEF Look

LEMMA CancelSeller == ASSUME ExitTypeOK, StopInv, SellerInv, Cancel PROVE SellerInv'
<1>1. PICK c \in CancelOutcomes(exit.old) :
        /\ trig' = c.trig
        /\ exit' = [exit EXCEPT !.pc = IF c.sure THEN "look2" ELSE "status", !.sure = c.sure]
  BY DEF Cancel
<1>2. UNCHANGED <<order, row, slips>> /\ exit.pc = "cancel" /\ exit'.pc = (IF c.sure THEN "look2" ELSE "status")
  BY <1>1 DEF Cancel, ExitTypeOK
<1>3. \A t \in Triggers : trig'[t].state = "active" => trig[t].state = "active"
  BY <1>1 DEF CancelOutcomes, Deleted, ExitTypeOK
<1>4. ASSUME c.sure, Undisturbed(slips), Known(row), NEW t \in Triggers, AtWork(t)' PROVE FALSE
  <2>1. exit.old \in Triggers /\ trig[exit.old].state = "active" /\ trig'[exit.old].state = "gone"
    BY <1>1, <1>2, <1>4, DeletedStates DEF ExitTypeOK, Ids
  <2>2. AtWork(t)
    BY <1>2, <1>3, <1>4 DEF AtWork
  <2>3. row.gtt = exit.old
    BY <1>2, <1>4 DEF StopInv, StopState, SellKept, Selling, Known, Undisturbed, Unarmed
  <2>4. t = exit.old
    BY <1>4, <2>1, <2>2, <2>3, WorkAlive, IdsAssumption DEF StopInv, StopState, Watched, Guards, Known, Undisturbed, Unarmed
  <2>5. order[t] = NoOrder
    BY <2>1, <2>4 DEF StopInv, StopSteps, Unfired
  <2> QED BY <1>2, <1>4, <2>1, <2>4, <2>5 DEF AtWork, NoOrder
<1>5. \A t \in Triggers : AtWork(t)' => AtWork(t)
  BY <1>2, <1>3 DEF AtWork
<1>6. CASE c.sure
  BY <1>2, <1>4, <1>5, <1>6, ArriveSeller DEF NobodySells
<1>7. CASE ~c.sure
  BY <1>2, <1>5, <1>7, SellerKept DEF Working
<1> QED BY <1>6, <1>7

LEMMA StatusSeller == ASSUME ExitTypeOK, StopInv, SellerInv, Status PROVE SellerInv'
<1>1. CASE Bail
  BY <1>1, WalkSeller
<1>2. CASE SaysAbsent(row.gtt) /\ UNCHANGED <<broker, saved, row, tasks, slips>>
  <2>1. UNCHANGED <<trig, order, row, slips>>
    BY <1>2 DEF broker
  <2>2. ASSUME Undisturbed(slips), Known(row), NEW t \in Triggers, AtWork(t) PROVE FALSE
    <3>1. row.gtt = t
      BY <2>2, WorkAlive DEF StopInv, StopState, Watched, Guards, Known, Undisturbed, Unarmed
    <3>2. t # None /\ t \in Orders
      BY IdsAssumption DEF Orders
    <3>3. trig[t].state = "fired" /\ ~SellOnBook
      BY <1>2, <2>2, <3>1, <3>2, WorkAlive DEF SaysAbsent, Alive
    <3> QED BY <2>2, <3>2, <3>3 DEF AtWork, SellOnBook
  <2> QED BY <2>1, <2>2, SameWork, ArriveSeller DEF NobodySells, AtWork
<1> QED BY <1>1, <1>2 DEF Status

\* The order goes out over a trigger of known fate, and its row is open.
LEMMA SubmitSeller == ASSUME ExitTypeOK, SellerInv, Submit PROVE SellerInv'
<1>1. UNCHANGED trig /\ slips \subseteq slips' /\ exit.pc = "look2" /\ exit'.pc # "look2"
  <2>1. exit' = NoExit \/ exit' = [exit EXCEPT !.pc = "reply"]
    BY DEF Submit
  <2>2. exit'.pc # "look2"
    BY <2>1 DEF NoExit, ExitTypeOK
  <2> QED BY <2>2 DEF Submit
<1>2. CASE order' = order
  BY <1>1, <1>2, LeaveSeller
<1>3. ASSUME NEW x \in Attempts, NEW o, order' = [order EXCEPT ![x] = o], Shrunk.status = "OPEN",
             slips' = slips \cup (IF row.pending THEN {"blind"} ELSE {})
                          \cup (IF held < row.qty /\ row.exitId # "none" THEN {"shrunk"} ELSE {})
                          \cup (IF ~Live THEN {"reopened"} ELSE {}),
             Undisturbed(slips')
      PROVE  Apart' /\ Cleared'
  <2>1. ~row.pending /\ row.status = "OPEN" /\ Undisturbed(slips)
    BY <1>3 DEF Undisturbed, Live
  <2>2. NobodySells
    BY <1>1, <2>1 DEF SellerInv, Cleared, Known
  <2>3. \A t \in Triggers : order'[t] = order[t]
    BY <1>3, IdsAssumption DEF ExitTypeOK, Orders
  <2> QED BY <1>1, <2>2, <2>3 DEF Apart, Cleared, NobodySells, AtWork
<1> QED BY <1>2, <1>3 DEF Submit, SellerInv

LEMMA BrokerSeller == ASSUME ExitTypeOK, StopInv, SellerInv, Broker PROVE SellerInv'
<1>1. UNCHANGED <<row, exit>> /\ slips \subseteq slips'
  BY DEF Broker, EntryFill, EntryEnd, Accept, Fill, Die, Fire, Delete, Sell, Engine, Slip
<1>2. /\ \A x \in Attempts : Working(x)' => Working(x)
      /\ \A t \in Triggers : AtWork(t)' => AtWork(t)
  <2>1. CASE EntryFill \/ EntryEnd
    BY <2>1, SameWork DEF EntryFill, EntryEnd
  <2>2. ASSUME NEW x \in Attempts, Accept(x)
        PROVE  (\A y \in Attempts : Working(y)' => Working(y)) /\ (\A t \in Triggers : AtWork(t)' => AtWork(t))
    BY <2>2, IdsAssumption DEF Accept, Working, AtWork, ExitTypeOK, Orders
  <2>3. ASSUME NEW x \in Orders, Fill(x) \/ Die(x)
        PROVE  (\A y \in Attempts : Working(y)' => Working(y)) /\ (\A t \in Triggers : AtWork(t)' => AtWork(t))
    <3>1. \A y \in Orders : order'[y].state = "OPEN" => order[y].state = "OPEN"
      BY <2>3 DEF Fill, Die, ExitTypeOK
    <3>2. \A y \in Orders : order'[y].state = "transit" => order[y].state = "transit"
      BY <2>3 DEF Fill, Die, ExitTypeOK
    <3> QED BY <2>3, <3>1, <3>2 DEF Fill, Die, Working, AtWork, Orders
  <2>4. ASSUME NEW t \in Triggers, Fire(t)
        PROVE  (\A y \in Attempts : Working(y)' => Working(y)) /\ (\A u \in Triggers : AtWork(u)' => AtWork(u))
    BY <2>4, IdsAssumption DEF Fire, Working, AtWork, ExitTypeOK, Orders
  <2>5. ASSUME NEW t \in Triggers, Delete(t)
        PROVE  (\A y \in Attempts : Working(y)' => Working(y)) /\ (\A u \in Triggers : AtWork(u)' => AtWork(u))
    BY <2>5 DEF Delete, Deleted, Working, AtWork, ExitTypeOK
  <2>6. ASSUME NEW f \in Foreign, Sell(f)
        PROVE  (\A y \in Attempts : Working(y)' => Working(y)) /\ (\A u \in Triggers : AtWork(u)' => AtWork(u))
    BY <2>6, IdsAssumption DEF Sell, Working, AtWork, ExitTypeOK, Orders
  <2> QED BY <2>1, <2>2, <2>3, <2>4, <2>5, <2>6 DEF Broker
<1> QED BY <1>1, <1>2, SellerKept

LEMMA SellerStep == ASSUME ExitTypeOK, FenceInv, StopInv, SellerInv, [Next]_vars PROVE SellerInv'
<1>1. CASE Step
  <2>1. ASSUME NEW x \in Orders, AttributeStart(x) PROVE SellerInv'
    BY <2>1, SameWork, SellerKept DEF AttributeStart, broker
  <2>2. ASSUME NEW k \in tasks,
               \/ AttributeEnd(k) \/ Resize(k) \/ Cleanup(k) \/ Arm(k)
               \/ PlaceArrives(k) \/ PlaceReply(k) \/ Move(k)
        PROVE  SellerInv'
    BY <2>2, AttributeEndSeller, TaskSeller, PlaceArrivesSeller, MoveSeller
  <2>3. CASE \/ EntryUpdate \/ Recover \/ Start \/ CancelEntry \/ History \/ Protected \/ Look
             \/ Cancel \/ Status \/ Unanswered \/ NothingHeld \/ Submit \/ Reply
    BY <2>3, EntrySeller, WalkSeller, LookSeller, CancelSeller, StatusSeller, SubmitSeller
  <2>4. CASE ScanRead \/ ScanApply \/ Trail \/ Broker
    BY <2>4, ScanSeller, BrokerSeller
  <2>5. CASE PollExit \/ \E x \in Orders : Postback(x)
    BY <2>5, ConsumeExitSeller
  <2>6. CASE Crash
    BY <2>6, LeaveSeller DEF Crash, NoExit, broker
  <2> QED BY <1>1, <2>1, <2>2, <2>3, <2>4, <2>5, <2>6 DEF Step
<1>2. CASE UNCHANGED vars
  BY <1>2, SameWork, SellerKept DEF vars, broker
<1> QED BY <1>1, <1>2 DEF Next

THEOREM SellersHold == Spec => []SellerInv
<1>1. Init => SellerInv
  BY SellerInit
<1>2. ExitTypeOK /\ FenceInv /\ StopInv /\ SellerInv /\ [Next]_vars => SellerInv'
  BY SellerStep
<1> QED BY <1>1, <1>2, ExitTypesHold, FenceHolds, StopsHold, PTL DEF Spec

\* The broker's stop gets out of the way of an exit first: the two never sell together.
THEOREM ExitsSellAlone == Spec => []OneSeller
<1>1. SellerInv => OneSeller
  BY DEF SellerInv, Apart, Undisturbed, OneSeller
<1> QED BY <1>1, SellersHold, PTL

(***************************************************************************)
(* The books.  How the broker's fills, the journal's evidence and the two  *)
(* copies of the row bound each other, whatever slips: no copy of the row  *)
(* has more than the journal has seen or consumed more than an order has   *)
(* filled, and nothing of ours is sold before the entry is final.          *)
(***************************************************************************)

Done(e, s)       == s = e /\ ~e.open
Accounted(r, e, s, o) ==
  /\ ~r.entry => Done(e, s)
  /\ r.qty <= s.filled
  /\ \A x \in Orders : r.fills[x] <= o[x].filled
Exiting == {"look"} \cup Selling

Balance  == held <= entry.filled /\ ((\A x \in Orders : order[x].filled = 0) => held = entry.filled)
Fills    == \A x \in Orders : /\ order[x].state \in {"none", "transit", "lost"} => order[x].filled = 0
                              /\ order[x].state = "COMPLETE" => order[x].filled > 0
Evidence == /\ seen.filled <= entry.filled
            /\ \A k \in tasks : k.kind = "attribute" => order[k.id].state = "COMPLETE" /\ order[k.id].filled = k.n
EntryEnds == /\ exit.pc \in Exiting => Done(entry, seen)
             /\ \A x \in Attempts : order[x].state # "none" => Done(entry, seen)
BookInv  == /\ Balance /\ Fills /\ Evidence /\ EntryEnds
            /\ Accounted(row, entry, seen, order) /\ Accounted(saved, entry, seen, order)

LEMMA BookInit == ASSUME Init PROVE BookInv
<1>1. entry \in EntryType /\ held = entry.filled /\ seen = entry
  BY TypeInit DEF ExitTypeOK, EntryType, Init
<1>2. /\ row = saved /\ row.qty = held /\ row.entry = entry.open /\ \A x \in Orders : row.fills[x] = 0
  <2>1. row = saved
    BY DEF Init
  <2>2. PICK g : saved = [status |-> "OPEN", qty |-> held, exitId |-> "none", tag |-> None, gtt |-> g,
                          pending |-> FALSE, entry |-> entry.open, fills |-> [x \in Orders |-> 0]]
    BY Zenon DEF Init
  <2> QED BY <2>1, <2>2
<1>3. \A x \in Orders : order[x].state = "none" /\ order[x].filled = 0
  BY DEF Init, NoOrder
<1>4. exit.pc = "idle" /\ tasks = {}
  BY DEF Init, NoExit
<1>5. Accounted(row, entry, seen, order)
  BY <1>1, <1>2, <1>3 DEF Accounted, Done, EntryType
<1>6. Balance /\ Fills /\ Evidence
  BY <1>1, <1>3, <1>4 DEF Balance, Fills, Evidence, EntryType
<1>7. EntryEnds
  BY <1>3, <1>4 DEF EntryEnds, Exiting, Selling, Orders
<1> QED BY <1>2, <1>5, <1>6, <1>7 DEF BookInv

(* What an update leaves of the holding a row describes. *)

SameHolding(r, q) == /\ q.status = r.status /\ q.qty = r.qty /\ q.exitId = r.exitId /\ q.tag = r.tag
                     /\ q.entry = r.entry /\ q.fills = r.fills

\* A step of the engine that leaves the holding alone.
Touch == /\ UNCHANGED <<held, order, seen>> /\ entry' \in {entry, [entry EXCEPT !.open = FALSE]}
         /\ SameHolding(row, row') /\ (saved' = saved \/ SameHolding(row, saved'))
         /\ slips \subseteq slips'

LEMMA TaskTouch ==
  ASSUME ExitTypeOK, NEW k \in tasks, Resize(k) \/ Arm(k) \/ PlaceArrives(k) \/ PlaceReply(k) \/ Move(k)
  PROVE  Touch /\ UNCHANGED <<entry, exit>>
<1>1. UNCHANGED <<held, entry, order, seen, exit>> /\ slips \subseteq slips'
  BY DEF Resize, Arm, PlaceArrives, PlaceReply, Move, broker, Slip
<1>2. SameHolding(row, row') /\ (saved' = saved \/ SameHolding(row, saved'))
  <2>1. CASE UNCHANGED <<row, saved>>
    BY <2>1 DEF SameHolding
  <2>2. CASE SaveStrict([row EXCEPT !.pending = TRUE])
    BY <2>2 DEF SaveStrict, ExitTypeOK, RowType, SameHolding
  <2>3. CASE PlaceReply(k)
    BY <2>3 DEF PlaceReply, SaveStrict, ExitTypeOK, RowType, SameHolding
  <2>4. CASE Move(k)
    BY <2>4 DEF Move, SaveStrict, ExitTypeOK, RowType, SameHolding
  <2> QED BY <2>1, <2>2, <2>3, <2>4 DEF Resize, Arm, PlaceArrives
<1> QED BY <1>1, <1>2 DEF Touch

LEMMA WalkTouch ==
  ASSUME ExitTypeOK,
         \/ Recover \/ (Bail /\ UNCHANGED seen) \/ Start \/ CancelEntry \/ Protected \/ Look \/ Cancel \/ Status
         \/ Unanswered \/ NothingHeld \/ ScanRead \/ Trail \/ \E x \in Orders : AttributeStart(x)
  PROVE  Touch
<1>1. UNCHANGED <<held, order, seen, slips>> /\ entry' \in {entry, [entry EXCEPT !.open = FALSE]}
  BY DEF Recover, Bail, Start, CancelEntry, Protected, Look, Cancel, Status, Unanswered, NothingHeld,
         ScanRead, Trail, AttributeStart, broker
<1>2. SameHolding(row, row') /\ (saved' = saved \/ SameHolding(row, saved'))
  <2>1. CASE UNCHANGED <<row, saved>>
    BY <2>1 DEF SameHolding
  <2>2. CASE Start
    BY <2>2 DEF Start, SaveStrict, SameHolding
  <2>3. CASE Unanswered
    <3>1. PICK p : Save([Forget(row) EXCEPT !.pending = p])
      BY <2>3 DEF Unanswered
    <3> QED BY <3>1 DEF Save, Forget, ExitTypeOK, RowType, SameHolding
  <2> QED BY <2>1, <2>2, <2>3 DEF Recover, Bail, CancelEntry, Protected, Look, Cancel, Status, NothingHeld,
                                  ScanRead, Trail, AttributeStart
<1> QED BY <1>1, <1>2 DEF Touch

(* Rows and evidence, whatever the update. *)

LEMMA AccountedSame ==
  ASSUME NEW r, NEW q, NEW e, NEW s, NEW o, Accounted(r, e, s, o), SameHolding(r, q)
  PROVE  Accounted(q, e, s, o)
BY DEF Accounted, SameHolding

\* The evidence an update consumes is a state of the order the row has known, or an earlier
\* fill of it; only its last state is final.
Sound(s, o, x) == /\ s.filled \in 0..o[x].filled
                  /\ s.state # "OPEN" => s.filled = o[x].filled
Claimed(r, x)  == x = r.exitId \/ (r.exitId \in {"submitting", "unknown"} /\ x = r.tag)

LEMMA ConsumedCases ==
  ASSUME NEW r \in RowType, NEW x \in Orders, NEW s, s.filled \in Int
  PROVE  LET q == Consumed(r, x, s)
             d == s.filled - r.fills[x]
         IN /\ q.tag = r.tag /\ q.entry = r.entry /\ q.gtt = r.gtt /\ q.pending = r.pending
            /\ \A y \in Orders : y # x => q.fills[y] = r.fills[y]
            /\ \/ /\ q.status = r.status /\ q.qty = r.qty /\ q.fills = r.fills
                  /\ q.exitId = r.exitId \/ (q.exitId = "none" /\ s.state = "DEAD" /\ (s.filled = 0 \/ (r.status = "OPEN" /\ d <= 0)))
               \/ /\ r.status = "OPEN" /\ d = r.qty /\ q.status = "CLOSED" /\ q.qty = r.qty /\ q.exitId = r.exitId
                  /\ q.fills[x] = s.filled
               \/ /\ r.status = "OPEN" /\ d \in 1..(r.qty - 1) /\ q.status = "OPEN" /\ q.qty = r.qty - d
                  /\ q.fills[x] = s.filled
                  /\ q.exitId = IF s.state = "OPEN" THEN r.exitId ELSE "none"
<1> DEFINE d == s.filled - r.fills[x]
           q == Consumed(r, x, s)
<1>1. r.fills[x] \in Int /\ d \in Int /\ r.qty \in Int /\ r.fills \in [Orders -> 0..Lots]
  BY LotsAssumption DEF RowType
<1>2. CASE r.status # "OPEN" \/ d \notin 1..r.qty
  <2>1. q = [r EXCEPT !.exitId = IF s.state = "DEAD" /\ (s.filled = 0 \/ (r.status = "OPEN" /\ d <= 0)) THEN "none" ELSE @]
    BY <1>2 DEF Consumed
  <2> HIDE DEF q
  <2> QED BY <2>1 DEF RowType, q
<1>3. CASE r.status = "OPEN" /\ d \in 1..r.qty /\ d = r.qty
  <2>1. q = [r EXCEPT !.fills[x] = s.filled, !.status = "CLOSED"]
    BY <1>1, <1>3 DEF Consumed
  <2> HIDE DEF q
  <2> QED BY <1>1, <1>3, <2>1 DEF RowType, q
<1>4. CASE r.status = "OPEN" /\ d \in 1..r.qty /\ d # r.qty
  <2>1. q = [r EXCEPT !.fills[x] = s.filled, !.qty = r.qty - d, !.exitId = IF s.state = "OPEN" THEN r.exitId ELSE "none"]
    BY <1>1, <1>4 DEF Consumed
  <2>2. d \in 1..(r.qty - 1)
    BY <1>1, <1>4
  <2> HIDE DEF q
  <2> QED BY <1>1, <1>4, <2>1, <2>2 DEF RowType, q
<1> QED BY <1>1, <1>2, <1>3, <1>4

LEMMA AccountedConsumed ==
  ASSUME NEW r \in RowType, NEW x \in Orders, NEW v, v.filled \in Int, NEW e, NEW s, NEW o,
         v.filled <= o[x].filled, s.filled \in Int, Accounted(r, e, s, o)
  PROVE  Accounted(Consumed(r, x, v), e, s, o)
<1> DEFINE q == Consumed(r, x, v)
<1>1. r.qty \in Int
  BY LotsAssumption DEF RowType
<1>2. q.entry = r.entry /\ (q.qty = r.qty \/ \E d \in 1..(r.qty - 1) : q.qty = r.qty - d)
  BY ConsumedCases
<1>3. \A y \in Orders : q.fills[y] = r.fills[y] \/ (y = x /\ q.fills[y] = v.filled)
  BY ConsumedCases
<1> HIDE DEF q
<1>4. q.qty <= s.filled
  BY <1>1, <1>2 DEF Accounted
<1>5. \A y \in Orders : q.fills[y] <= o[y].filled
  BY <1>3 DEF Accounted
<1>6. Accounted(q, e, s, o)
  BY <1>2, <1>4, <1>5 DEF Accounted
<1> QED BY <1>6 DEF q

LEMMA ToldSound ==
  ASSUME OrderOK, NEW x \in Orders, NEW s \in Told(x)
  PROVE  Sound(s, order, x) /\ s.filled \in Int
<1>1. order[x].filled \in Int /\ order[x].filled >= 0
  BY LotsAssumption DEF OrderOK, OrderType
<1>2. s.filled \in 0..order[x].filled /\ (s.state # "OPEN" => s.filled = order[x].filled)
  BY <1>1 DEF Told
<1> QED BY <1>1, <1>2 DEF Sound

LEMMA KnownSound ==
  ASSUME OrderOK, NEW x \in Orders
  PROVE  LET s == [state |-> order[x].state, filled |-> order[x].filled]
         IN  Sound(s, order, x) /\ s.filled \in Int
<1>1. order[x].filled \in Int /\ order[x].filled >= 0
  BY LotsAssumption DEF OrderOK, OrderType
<1> QED BY <1>1 DEF Sound

\* What a step of the engine must leave true; the broker's part it leaves alone.
LEMMA BookKept ==
  ASSUME BookInv, UNCHANGED <<held, order>>, entry'.filled = entry.filled,
         Done(entry, seen) => Done(entry', seen'), seen'.filled <= entry'.filled,
         Accounted(row', entry', seen', order), Accounted(saved', entry', seen', order),
         exit'.pc \in Exiting => exit.pc \in Exiting \/ Done(entry', seen'),
         \A k \in tasks' : k.kind = "attribute" =>
            k \in tasks \/ (order[k.id].state = "COMPLETE" /\ order[k.id].filled = k.n)
  PROVE  BookInv'
<1>1. Balance' /\ Fills' /\ Evidence' /\ EntryEnds'
  BY DEF BookInv, Balance, Fills, Evidence, EntryEnds
<1> QED BY <1>1 DEF BookInv

LEMMA TouchDone ==
  ASSUME ExitTypeOK, BookInv, Touch
  PROVE  /\ entry'.filled = entry.filled /\ (Done(entry, seen) => Done(entry', seen')) /\ seen'.filled <= entry'.filled
         /\ Accounted(row', entry', seen', order) /\ Accounted(saved', entry', seen', order)
<1>1. /\ entry'.filled = entry.filled /\ (Done(entry, seen) => Done(entry', seen')) /\ seen' = seen
      /\ Done(entry, seen) => entry' = entry
  BY DEF Touch, ExitTypeOK, Done
<1>2. \A r : Accounted(r, entry, seen, order) => Accounted(r, entry', seen', order)
  BY <1>1 DEF Accounted
<1>3. Accounted(row', entry, seen, order) /\ Accounted(saved', entry, seen, order)
  BY AccountedSame DEF Touch, BookInv
<1> QED BY <1>1, <1>2, <1>3 DEF BookInv, Evidence

LEMMA TouchBook ==
  ASSUME ExitTypeOK, BookInv, Touch,
         exit'.pc \in Exiting => exit.pc \in Exiting \/ Done(entry, seen),
         \A k \in tasks' : k.kind = "attribute" =>
            k \in tasks \/ (order[k.id].state = "COMPLETE" /\ order[k.id].filled = k.n)
  PROVE  BookInv'
BY TouchDone, BookKept DEF Touch

LEMMA TaskBook ==
  ASSUME ExitTypeOK, BookInv, NEW k \in tasks, Resize(k) \/ Arm(k) \/ PlaceArrives(k) \/ PlaceReply(k) \/ Move(k)
  PROVE  BookInv'
<1>1. Touch /\ UNCHANGED exit
  BY TaskTouch
<1>2. \A j \in tasks' : j.kind = "attribute" => j \in tasks
  <2>1. CASE Resize(k) \/ PlaceReply(k) \/ Move(k)
    BY <2>1 DEF Resize, PlaceReply, Move
  <2>2. CASE Arm(k)
    BY <2>2 DEF Arm
  <2>3. CASE PlaceArrives(k)
    <3>1. k \in TaskType
      BY DEF ExitTypeOK
    <3> QED BY <2>3, <3>1 DEF PlaceArrives, TaskType
  <2> QED BY <2>1, <2>2, <2>3
<1> QED BY <1>1, <1>2, TouchBook

LEMMA WalkBook ==
  ASSUME ExitTypeOK, BookInv,
         \/ Recover \/ (Bail /\ UNCHANGED seen) \/ Start \/ CancelEntry \/ Protected \/ Look \/ Cancel \/ Status
         \/ Unanswered \/ NothingHeld \/ ScanRead \/ Trail \/ \E x \in Orders : AttributeStart(x)
  PROVE  BookInv'
<1>1. Touch
  BY WalkTouch
<1>2. exit'.pc \in Exiting => exit.pc \in Exiting \/ Done(entry, seen)
  <2>1. CASE UNCHANGED exit
    BY <2>1
  <2>2. CASE Start \/ Protected
    BY <2>2 DEF Start, Protected, Goto, NoExit, Exiting, Selling, ExitTypeOK, BookInv, Accounted
  <2>3. CASE Bail \/ CancelEntry \/ Unanswered \/ NothingHeld
    BY <2>3 DEF Bail, CancelEntry, Unanswered, NothingHeld, Goto, NoExit, Exiting, Selling, ExitTypeOK
  <2>4. CASE Look \/ Cancel \/ Status
    BY <2>4 DEF Look, Cancel, Status, Exiting, Selling
  <2> QED BY <2>1, <2>2, <2>3, <2>4 DEF Recover, ScanRead, Trail, AttributeStart
<1>3. \A k \in tasks' : k.kind = "attribute" =>
         k \in tasks \/ (order[k.id].state = "COMPLETE" /\ order[k.id].filled = k.n)
  <2>1. CASE Recover
    BY <2>1 DEF Recover, Protect
  <2>2. CASE NothingHeld \/ Trail
    BY <2>2 DEF NothingHeld, Trail, Task
  <2>3. ASSUME NEW x \in Orders, AttributeStart(x)
        PROVE  \A k \in tasks' : k.kind = "attribute" =>
                 k \in tasks \/ (order[k.id].state = "COMPLETE" /\ order[k.id].filled = k.n)
    BY <2>3 DEF AttributeStart, Task
  <2> QED BY <2>1, <2>2, <2>3 DEF Bail, Start, CancelEntry, Protected, Look, Cancel, Status, Unanswered, ScanRead
<1> QED BY <1>1, <1>2, <1>3, TouchBook

LEMMA CleanupBook == ASSUME ExitTypeOK, BookInv, NEW k \in tasks, Cleanup(k) PROVE BookInv'
<1>1. UNCHANGED <<held, entry, order, seen, exit>> /\ tasks' \subseteq tasks
  BY DEF Cleanup
<1>2. /\ row'.qty = row.qty /\ row'.entry = row.entry /\ row'.fills = row.fills /\ saved' \in {saved, row'}
  BY DEF Cleanup, Save, ExitTypeOK, RowType
<1>3. Accounted(row', entry, seen, order) /\ Accounted(saved', entry, seen, order)
  BY <1>2 DEF BookInv, Accounted
<1> QED BY <1>1, <1>3, BookKept DEF BookInv, Evidence

LEMMA ConsumeExitBook ==
  ASSUME ExitTypeOK, BookInv, NEW r \in RowType, SameHolding([row EXCEPT !.exitId = r.exitId], r), NEW x \in Orders, NEW v,
         v.filled \in Int, Sound(v, order, x), Save(Consumed(r, x, v)), UNCHANGED <<held, entry, order, seen, exit>>,
         \A k \in tasks' : k \in tasks \/ k \in Follow(r, Consumed(r, x, v))
  PROVE  BookInv'
<1>1. Accounted(r, entry, seen, order)
  BY DEF SameHolding, Accounted, BookInv, ExitTypeOK, RowType
<1>2. v.filled <= order[x].filled /\ seen.filled \in Int
  BY LotsAssumption DEF Sound, ExitTypeOK
<1> DEFINE q == Consumed(r, x, v)
<1>3. Accounted(q, entry, seen, order)
  BY <1>1, <1>2, AccountedConsumed
<1>4. \A k \in tasks' : k.kind = "attribute" => k \in tasks
  BY DEF Follow, Task
<1> HIDE DEF q
<1>5. Accounted(row', entry, seen, order) /\ Accounted(saved', entry, seen, order)
  BY <1>3 DEF Save, BookInv, q
<1> QED BY <1>4, <1>5, BookKept DEF BookInv, Evidence

\* The three ways to consume the evidence of an exit order.
Consumption(r, x, v) ==
  /\ r \in RowType /\ SameHolding([row EXCEPT !.exitId = r.exitId], r) /\ SameStop(r, row)
  /\ x \in Orders /\ v.filled \in Int /\ Sound(v, order, x) /\ Claimed(r, x)
  /\ Save(Consumed(r, x, v)) /\ UNCHANGED <<held, entry, order, seen, exit, trig>>
  /\ slips \subseteq slips'
  /\ \A k \in tasks' : k \in tasks \/ k \in Follow(r, Consumed(r, x, v))

LEMMA PostbackConsumes ==
  ASSUME ExitTypeOK, NEW x \in Orders, Postback(x)
  PROVE  \E v : Consumption(row, x, v) /\ slips' = slips
<1>1. PICK v \in Told(x) : ConsumeExit(row, x, v)
  BY DEF Postback
<1>2. Sound(v, order, x) /\ v.filled \in Int
  BY ToldSound, TypeParts DEF Parts
<1>3. SameHolding([row EXCEPT !.exitId = row.exitId], row)
  BY DEF SameHolding, ExitTypeOK, RowType
<1>4. \A k \in tasks' : k \in tasks \/ k \in Follow(row, Consumed(row, x, v))
  BY <1>1 DEF ConsumeExit
<1>5. Consumption(row, x, v)
  BY <1>1, <1>2, <1>3, <1>4 DEF Consumption, Postback, ConsumeExit, Matched, Claimed, SameStop, broker, ExitTypeOK
<1> QED BY <1>1, <1>5 DEF ConsumeExit

LEMMA PollExitConsumes ==
  ASSUME ExitTypeOK, PollExit
  PROVE  \E r, x, v : /\ Consumption(r, x, v) /\ slips' = slips
                      /\ r.exitId = x /\ Claimed(row, x)
<1>1. PICK x \in Orders :
        /\ ConsumeExit([row EXCEPT !.exitId = x], x, [state |-> order[x].state, filled |-> order[x].filled])
        /\ x = IF row.exitId \in {"submitting", "unknown"} THEN row.tag ELSE row.exitId
  BY DEF PollExit
<1> DEFINE r == [row EXCEPT !.exitId = x]
           v == [state |-> order[x].state, filled |-> order[x].filled]
<1>2. r \in RowType /\ r.exitId = x /\ SameStop(r, row) /\ SameHolding([row EXCEPT !.exitId = r.exitId], r)
  BY WithExitId DEF ExitTypeOK, ExitIds, RowType, SameStop, SameHolding
<1>3. Sound(v, order, x) /\ v.filled \in Int
  BY KnownSound, TypeParts DEF Parts
<1> HIDE DEF r, v
<1>4. /\ Save(Consumed(r, x, v)) /\ UNCHANGED <<held, entry, order, seen, exit, trig, slips>>
      /\ \A k \in tasks' : k \in tasks \/ k \in Follow(r, Consumed(r, x, v))
  BY <1>1 DEF PollExit, ConsumeExit, broker, r, v
<1>5. Consumption(r, x, v)
  BY <1>2, <1>3, <1>4 DEF Consumption, Claimed
<1> QED BY <1>1, <1>2, <1>4, <1>5 DEF Claimed

\* A sale that is attributed is the whole of its order.
LEMMA AttributeEndConsumes ==
  ASSUME ExitTypeOK, BookInv, NEW k \in tasks, AttributeEnd(k)
  PROVE  \/ Touch /\ UNCHANGED <<entry, exit, trig, row, saved>> /\ tasks' \subseteq tasks
         \/ \E r, x, v : /\ Consumption(r, x, v) /\ v.state = "COMPLETE" /\ r.exitId = x
                         /\ order[x].state = "COMPLETE" /\ held = row.qty - order[x].filled
                         /\ "attributed" \in slips' \/ row.exitId = "none"
<1> DEFINE r == [row EXCEPT !.exitId = k.id]
           v == [state |-> "COMPLETE", filled |-> k.n]
<1>1. k.id \in Orders /\ order[k.id].state = "COMPLETE" /\ order[k.id].filled = k.n
  BY TaskFields DEF AttributeEnd, ExitTypeOK, BookInv, Evidence
<1>2. UNCHANGED <<held, entry, order, seen, exit, trig>>
  BY DEF AttributeEnd, broker
<1>3. CASE tasks' = tasks \ {k} /\ UNCHANGED <<saved, row, slips>>
  BY <1>2, <1>3 DEF Touch, SameHolding
<1>4. CASE /\ Save(Consumed(r, k.id, v)) /\ tasks' = (tasks \ {k}) \cup Follow(r, Consumed(r, k.id, v))
           /\ held = row.qty - k.n /\ Slip("attributed", row.exitId # "none")
  <2>1. r \in RowType /\ r.exitId = k.id /\ SameStop(r, row) /\ SameHolding([row EXCEPT !.exitId = r.exitId], r)
    BY <1>1, WithExitId DEF ExitTypeOK, ExitIds, RowType, SameStop, SameHolding
  <2>2. v.filled = k.n /\ v.state = "COMPLETE" /\ k.n \in Int /\ k.n >= 0
    BY <1>1, LotsAssumption DEF ExitTypeOK
  <2> HIDE DEF r, v
  <2>3. Sound(v, order, k.id)
    BY <1>1, <2>2 DEF Sound
  <2>4. Consumption(r, k.id, v)
    BY <1>1, <1>2, <1>4, <2>1, <2>2, <2>3 DEF Consumption, Claimed, Slip
  <2> QED BY <1>1, <1>4, <2>1, <2>2, <2>4 DEF Slip
<1> QED BY <1>3, <1>4 DEF AttributeEnd

LEMMA ConsumptionBook ==
  ASSUME ExitTypeOK, BookInv, NEW r, NEW x, NEW v, Consumption(r, x, v)
  PROVE  BookInv'
BY ConsumeExitBook DEF Consumption

(* New evidence of the entry, the scan, the order that goes out, its reply. *)

\* Either nothing changes, or the evidence is new, the entry was not final, and an open
\* row in both copies takes the quantity of the evidence.
LEMMA ConsumeEntryCases ==
  ASSUME ExitTypeOK, BookInv, NEW by, NEW s \in EntryType, s.filled <= entry.filled, s.open \/ s = entry,
         ConsumeEntry(s, by)
  PROVE  /\ UNCHANGED <<seen, row, saved>> \/
            /\ ~Done(entry, seen) /\ seen' = s /\ seen.filled <= s.filled /\ saved' = row'
            /\ row.status = "OPEN" \/ row' = row
            /\ row.status = "OPEN" => /\ row'.qty = s.filled /\ row'.entry = s.open /\ row'.status = "OPEN"
                                      /\ row'.exitId = row.exitId /\ row'.tag = row.tag /\ row'.fills = row.fills
         /\ \A k \in tasks' : k \in tasks \/ (k.kind = "subscribe" /\ k.by = by)
<1>1. CASE UNCHANGED <<seen, saved, row>> /\ tasks' = tasks \cup IF row.gtt = None THEN Protect(row, by) ELSE {}
  BY <1>1 DEF Protect
<1>2. CASE /\ s.filled > seen.filled \/ (seen.open /\ ~s.open)
           /\ seen' = s /\ SaveStrict(IF row.status = "OPEN" THEN [row EXCEPT !.qty = s.filled, !.entry = s.open] ELSE row)
           /\ tasks' = tasks \cup Protect(IF row.status = "OPEN" THEN [row EXCEPT !.qty = s.filled, !.entry = s.open] ELSE row, by)
  <2>1. seen.filled \in Int /\ s.filled \in Int /\ entry.filled \in Int /\ seen.filled <= entry.filled
    BY LotsAssumption DEF ExitTypeOK, EntryType, BookInv, Evidence
  <2>2. ~Done(entry, seen) /\ seen.filled <= s.filled
    BY <1>2, <2>1 DEF Done
  <2>3. saved' = row' /\ (row.status = "OPEN" \/ row' = row)
    BY <1>2 DEF SaveStrict
  <2>4. row.status = "OPEN" => /\ row'.qty = s.filled /\ row'.entry = s.open /\ row'.status = "OPEN"
                               /\ row'.exitId = row.exitId /\ row'.tag = row.tag /\ row'.fills = row.fills
    BY <1>2 DEF SaveStrict, ExitTypeOK, RowType
  <2>5. \A k \in tasks' : k \in tasks \/ (k.kind = "subscribe" /\ k.by = by)
    BY <1>2 DEF Protect
  <2> QED BY <1>2, <2>2, <2>3, <2>4, <2>5
<1> QED BY <1>1, <1>2 DEF ConsumeEntry

LEMMA ConsumeEntryBook ==
  ASSUME ExitTypeOK, BookInv, NEW by, NEW s \in EntryType, s.filled <= entry.filled, s.open \/ s = entry,
         ConsumeEntry(s, by), UNCHANGED <<held, entry, order>>, exit'.pc \in Exiting => exit.pc \in Exiting
  PROVE  BookInv'
<1>1. \A k \in tasks' : k.kind = "attribute" => k \in tasks
  BY ConsumeEntryCases
<1>2. CASE UNCHANGED <<seen, row, saved>>
  BY <1>1, <1>2, BookKept DEF BookInv, Evidence
<1>3. CASE /\ ~Done(entry, seen) /\ seen' = s /\ seen.filled <= s.filled /\ saved' = row'
           /\ row.status = "OPEN" \/ row' = row
           /\ row.status = "OPEN" => /\ row'.qty = s.filled /\ row'.entry = s.open /\ row'.status = "OPEN"
                                      /\ row'.exitId = row.exitId /\ row'.tag = row.tag /\ row'.fills = row.fills
  <2>1. s.filled \in Int /\ seen.filled \in Int /\ row.qty \in Int
    BY LotsAssumption DEF EntryType, ExitTypeOK, RowType
  <2>2. Accounted(row', entry, s, order)
    BY <1>3, <2>1 DEF Accounted, Done, BookInv
  <2> QED BY <1>1, <1>3, <2>2, BookKept
<1> QED BY <1>2, <1>3, ConsumeEntryCases

LEMMA EntryEvidence ==
  ASSUME ExitTypeOK, NEW s \in {entry} \cup {[filled |-> f, open |-> TRUE] : f \in 1..entry.filled}
  PROVE  s \in EntryType /\ s.filled <= entry.filled /\ (s.open \/ s = entry)
<1>1. entry.filled \in 1..Lots /\ entry \in EntryType
  BY DEF ExitTypeOK, EntryType
<1>2. CASE s = entry
  BY <1>1, <1>2, LotsAssumption
<1>3. ASSUME NEW f \in 1..entry.filled, s = [filled |-> f, open |-> TRUE]
      PROVE  s \in EntryType /\ s.filled <= entry.filled /\ s.open
  <2>1. f \in 1..Lots /\ f <= entry.filled
    BY <1>1, LotsAssumption
  <2>2. [filled |-> f, open |-> TRUE] \in EntryType
    BY <2>1, EvidenceType
  <2>3. s.filled = f /\ s.open
    BY <1>3
  <2> QED BY <1>3, <2>1, <2>2, <2>3
<1> QED BY <1>2, <1>3

LEMMA EntryUpdateBook == ASSUME ExitTypeOK, BookInv, EntryUpdate PROVE BookInv'
<1>1. PICK s \in {entry} \cup {[filled |-> f, open |-> TRUE] : f \in 1..entry.filled} : ConsumeEntry(s, "entry")
  BY DEF EntryUpdate
<1> QED BY <1>1, EntryEvidence, ConsumeEntryBook DEF EntryUpdate, broker

LEMMA HistoryBook == ASSUME ExitTypeOK, BookInv, History PROVE BookInv'
<1>1. CASE Bail /\ UNCHANGED <<seen, scan>>
  BY <1>1, WalkBook
<1>2. CASE ConsumeEntry(entry, "exit") /\ Goto("protect") /\ UNCHANGED <<broker, scan, slips>>
  <2>1. exit'.pc \notin Exiting
    BY <1>2 DEF Goto, Exiting, Selling, ExitTypeOK
  <2>2. entry \in EntryType /\ entry.filled <= entry.filled
    BY LotsAssumption DEF ExitTypeOK, EntryType
  <2> QED BY <1>2, <2>1, <2>2, ConsumeEntryBook DEF broker
<1> QED BY <1>1, <1>2 DEF History

\* A scan only shrinks a row.
LEMMA ScanApplyCases ==
  ASSUME ExitTypeOK, ScanApply
  PROVE  /\ UNCHANGED <<row, saved>> \/
            /\ scan \in 1..(row.qty - 1) /\ row'.qty = scan /\ row'.status = "OPEN" /\ saved' \in {saved, row'}
            /\ row'.exitId = row.exitId /\ row'.tag = row.tag /\ row'.fills = row.fills /\ row'.entry = row.entry
            /\ row.exitId # "none" \/ scan # held => "shrunk" \in slips'
            /\ row.status # "OPEN" => "reopened" \in slips'
         /\ UNCHANGED <<held, entry, order, trig, seen, exit>> /\ slips \subseteq slips'
         /\ \A k \in tasks' : k \in tasks \/ k = Task("close", row.gtt, 0)
         /\ \A k \in tasks' : k \in tasks \/ (scan = 0 /\ (scan # held \/ row.exitId # "none" => "shrunk" \in slips'))
<1>1. row.qty \in 1..Lots /\ (scan = None \/ scan \in Nat) /\ scan # None
  BY DEF ExitTypeOK, RowType, ScanApply
<1>2. UNCHANGED <<held, entry, order, trig, seen, exit>> /\ slips \subseteq slips'
  BY DEF ScanApply, broker
<1>3. CASE scan = 0 /\ tasks' = tasks \cup {Task("close", row.gtt, 0)} /\ UNCHANGED <<saved, row>>
  <2>1. scan < row.qty
    BY <1>1, <1>3, LotsAssumption
  <2> QED BY <1>2, <1>3, <2>1 DEF ScanApply
<1>4. CASE scan > 0 /\ scan < row.qty /\ Save([row EXCEPT !.status = "OPEN", !.qty = scan]) /\ tasks' = tasks
  <2>1. scan \in 1..(row.qty - 1)
    BY <1>1, <1>4, LotsAssumption
  <2>2. /\ row'.qty = scan /\ row'.status = "OPEN" /\ saved' \in {saved, row'}
        /\ row'.exitId = row.exitId /\ row'.tag = row.tag /\ row'.fills = row.fills /\ row'.entry = row.entry
    BY <1>4 DEF Save, ExitTypeOK, RowType
  <2>3. /\ row.exitId # "none" \/ scan # held => "shrunk" \in slips'
        /\ row.status # "OPEN" => "reopened" \in slips'
    BY <1>4, <2>1 DEF ScanApply, Live
  <2> QED BY <1>2, <1>4, <2>1, <2>2, <2>3
<1>5. CASE UNCHANGED <<saved, row, tasks>>
  BY <1>2, <1>5
<1> QED BY <1>3, <1>4, <1>5 DEF ScanApply

LEMMA ScanApplyBook == ASSUME ExitTypeOK, BookInv, ScanApply PROVE BookInv'
<1>1. /\ \A k \in tasks' : k.kind = "attribute" => k \in tasks
      /\ UNCHANGED <<held, entry, order, seen, exit>>
  BY ScanApplyCases DEF Task
<1>2. CASE UNCHANGED <<row, saved>>
  BY <1>1, <1>2, BookKept DEF BookInv, Evidence
<1>3. CASE /\ scan \in 1..(row.qty - 1) /\ row'.qty = scan /\ saved' \in {saved, row'}
           /\ row'.fills = row.fills /\ row'.entry = row.entry
  <2>1. row.qty \in Int /\ seen.filled \in Int
    BY LotsAssumption DEF ExitTypeOK, RowType
  <2>2. Accounted(row', entry, seen, order)
    BY <1>3, <2>1 DEF BookInv, Accounted
  <2> QED BY <1>1, <1>3, <2>2, BookKept DEF BookInv, Evidence
<1> QED BY <1>2, <1>3, ScanApplyCases

\* The order goes out for no more than is held, after a look at an open row.
LEMMA SubmitCases ==
  ASSUME ExitTypeOK, BookInv, Submit
  PROVE  /\ exit.pc = "look2" /\ held > 0 /\ slips \subseteq slips'
         /\ UNCHANGED <<held, entry, trig, seen, tasks>>
         /\ \/ UNCHANGED <<order, row, saved, slips>> /\ exit'.pc = "idle"
            \/ \E x \in Attempts :
                 /\ Shrunk.status = "OPEN" /\ Shrunk \in RowType
                 /\ order[x].state = "none"
                 /\ row'.status = "OPEN" /\ row'.qty = Shrunk.qty /\ row'.exitId = "submitting" /\ row'.tag = x
                 /\ row'.entry = row.entry /\ row'.fills = row.fills
                 /\ \/ /\ saved' = row' /\ exit'.pc = "reply"
                       /\ order' = [order EXCEPT ![x] = [state |-> "transit", qty |-> Shrunk.qty, filled |-> 0]]
                    \/ saved' \in {saved, Shrunk} /\ exit'.pc = "idle" /\ UNCHANGED order
                 /\ row.pending => "blind" \in slips'
                 /\ held < row.qty /\ row.exitId # "none" => "shrunk" \in slips'
                 /\ row.status # "OPEN" => "reopened" \in slips'
<1>1. /\ exit.pc = "look2" /\ held > 0 /\ slips \subseteq slips' /\ UNCHANGED <<held, entry, trig, seen, tasks>>
  BY DEF Submit
<1>2. Shrunk \in RowType
  BY <1>1, ShrunkType DEF ExitTypeOK
<1>3. Shrunk.entry = row.entry /\ Shrunk.fills = row.fills
  BY DEF Shrunk, ExitTypeOK, RowType
<1>4. CASE exit' = NoExit /\ UNCHANGED <<order, saved, row, slips>>
  BY <1>1, <1>4 DEF NoExit
<1>5. ASSUME NEW x \in Attempts, order[x].state = "none", Shrunk.status = "OPEN",
             LET r == [Shrunk EXCEPT !.exitId = "submitting", !.tag = x] IN
             \/ /\ SaveStrict(r)
                /\ order' = [order EXCEPT ![x] = [state |-> "transit", qty |-> r.qty, filled |-> 0]]
                /\ exit' = [exit EXCEPT !.pc = "reply"]
             \/ /\ row' = r /\ saved' \in {saved, Shrunk}
                /\ exit' = NoExit /\ order' = order,
             slips' = slips \cup (IF row.pending THEN {"blind"} ELSE {})
                          \cup (IF held < row.qty /\ row.exitId # "none" THEN {"shrunk"} ELSE {})
                          \cup (IF ~Live THEN {"reopened"} ELSE {})
      PROVE  /\ row'.status = "OPEN" /\ row'.qty = Shrunk.qty /\ row'.exitId = "submitting" /\ row'.tag = x
             /\ row'.entry = row.entry /\ row'.fills = row.fills
             /\ \/ /\ saved' = row' /\ exit'.pc = "reply"
                   /\ order' = [order EXCEPT ![x] = [state |-> "transit", qty |-> Shrunk.qty, filled |-> 0]]
                \/ saved' \in {saved, Shrunk} /\ exit'.pc = "idle" /\ UNCHANGED order
             /\ row.pending => "blind" \in slips'
             /\ held < row.qty /\ row.exitId # "none" => "shrunk" \in slips'
             /\ row.status # "OPEN" => "reopened" \in slips'
  <2> DEFINE r == [Shrunk EXCEPT !.exitId = "submitting", !.tag = x]
  <2>1. /\ r.status = "OPEN" /\ r.qty = Shrunk.qty /\ r.exitId = "submitting" /\ r.tag = x
        /\ r.entry = row.entry /\ r.fills = row.fills
    BY <1>2, <1>3, <1>5 DEF RowType
  <2> HIDE DEF r
  <2>2. row' = r
    BY <1>5 DEF SaveStrict, r
  <2>3. \/ /\ saved' = row' /\ exit'.pc = "reply"
           /\ order' = [order EXCEPT ![x] = [state |-> "transit", qty |-> Shrunk.qty, filled |-> 0]]
        \/ saved' \in {saved, Shrunk} /\ exit'.pc = "idle" /\ UNCHANGED order
    <3>1. CASE /\ SaveStrict(r) /\ exit' = [exit EXCEPT !.pc = "reply"]
               /\ order' = [order EXCEPT ![x] = [state |-> "transit", qty |-> r.qty, filled |-> 0]]
      BY <2>1, <3>1 DEF SaveStrict, ExitTypeOK
    <3>2. CASE saved' \in {saved, Shrunk} /\ exit' = NoExit /\ order' = order
      BY <3>2 DEF NoExit
    <3> QED BY <1>5, <3>1, <3>2 DEF r
  <2>4. /\ row.pending => "blind" \in slips'
        /\ held < row.qty /\ row.exitId # "none" => "shrunk" \in slips'
        /\ row.status # "OPEN" => "reopened" \in slips'
    BY <1>5 DEF Live
  <2> QED BY <2>1, <2>2, <2>3, <2>4
<1>6. CASE ~(exit' = NoExit /\ UNCHANGED <<order, saved, row, slips>>)
  <2>1. PICK x \in Attempts :
          /\ order[x].state = "none" /\ Shrunk.status = "OPEN"
          /\ LET r == [Shrunk EXCEPT !.exitId = "submitting", !.tag = x] IN
             \/ /\ SaveStrict(r)
                /\ order' = [order EXCEPT ![x] = [state |-> "transit", qty |-> r.qty, filled |-> 0]]
                /\ exit' = [exit EXCEPT !.pc = "reply"]
             \/ /\ row' = r /\ saved' \in {saved, Shrunk}
                /\ exit' = NoExit /\ order' = order
          /\ slips' = slips \cup (IF row.pending THEN {"blind"} ELSE {})
                          \cup (IF held < row.qty /\ row.exitId # "none" THEN {"shrunk"} ELSE {})
                          \cup (IF ~Live THEN {"reopened"} ELSE {})
    BY <1>6 DEF Submit
  <2> QED BY <1>1, <1>2, <1>5, <2>1
<1> QED BY <1>4, <1>6

LEMMA SubmitBook == ASSUME ExitTypeOK, BookInv, Submit PROVE BookInv'
<1>1. UNCHANGED <<held, entry, seen, tasks>> /\ Done(entry, seen)
  BY SubmitCases DEF BookInv, EntryEnds, Exiting, Selling
<1>2. CASE UNCHANGED <<order, row, saved, slips>> /\ exit'.pc = "idle"
  BY <1>1, <1>2, BookKept DEF BookInv, Evidence
<1>3. ASSUME NEW x \in Attempts, order[x].state = "none", Shrunk \in RowType,
             row'.qty = Shrunk.qty, row'.entry = row.entry, row'.fills = row.fills,
             \/ /\ saved' = row' /\ exit'.pc = "reply"
                /\ order' = [order EXCEPT ![x] = [state |-> "transit", qty |-> Shrunk.qty, filled |-> 0]]
             \/ saved' \in {saved, Shrunk} /\ exit'.pc = "idle" /\ UNCHANGED order
      PROVE  BookInv'
  <2>1. x \in Orders /\ order[x].filled = 0
    BY <1>3 DEF Orders, BookInv, Fills
  <2>2. \A y \in Orders : order'[y].filled = order[y].filled /\ (y # x => order'[y] = order[y])
    BY <1>3, <2>1 DEF ExitTypeOK
  <2>3. order'[x] = order[x] \/ order'[x].state = "transit"
    BY <1>3, <2>1 DEF ExitTypeOK
  <2>4. Shrunk.qty <= row.qty /\ Shrunk.entry = row.entry /\ Shrunk.fills = row.fills
    BY LotsAssumption DEF Shrunk, ExitTypeOK, RowType
  <2>5. Accounted(Shrunk, entry, seen, order) /\ Accounted(row', entry, seen, order)
    <3>1. row.qty \in Int /\ Shrunk.qty \in Int /\ seen.filled \in Int
      BY <1>3, LotsAssumption DEF ExitTypeOK, RowType
    <3> QED BY <1>3, <2>4, <3>1 DEF BookInv, Accounted
  <2>6. Accounted(saved', entry, seen, order)
    BY <1>3, <2>5 DEF BookInv
  <2>7. Accounted(row', entry, seen, order') /\ Accounted(saved', entry, seen, order')
    BY <2>2, <2>5, <2>6 DEF Accounted
  <2>8. Balance' /\ Fills'
    BY <1>1, <2>1, <2>2, <2>3 DEF BookInv, Balance, Fills
  <2>9. Evidence'
    <3>1. \A k \in tasks : k.kind = "attribute" => k.id \in Orders /\ k.id # x
      BY <1>3, TaskFields DEF ExitTypeOK, BookInv, Evidence
    <3> QED BY <1>1, <2>2, <3>1 DEF BookInv, Evidence
  <2>10. EntryEnds'
    BY <1>1 DEF EntryEnds
  <2> QED BY <1>1, <2>7, <2>8, <2>9, <2>10 DEF BookInv
<1> QED BY <1>2, <1>3, SubmitCases

\* The reply writes into an open row which order it is that was sent.
LEMMA ReplyCases ==
  ASSUME ExitTypeOK, Reply
  PROVE  /\ UNCHANGED <<held, entry, order, trig, seen, tasks, slips>> /\ exit.pc = "reply" /\ exit'.pc = "idle"
         /\ saved' \in {saved, row'}
         /\ row'.status = row.status /\ row'.qty = row.qty /\ row'.tag = row.tag
         /\ row'.entry = row.entry /\ row'.fills = row.fills
         /\ row'.exitId \in {row.exitId, "unknown", row.tag}
         /\ row.status = "OPEN" => row'.exitId \in {"unknown", row.tag}
<1>1. PICK id \in {"unknown", row.tag} : Save(Forget(IF Live THEN [row EXCEPT !.exitId = id] ELSE row))
  BY DEF Reply
<1>2. UNCHANGED <<held, entry, order, trig, seen, tasks, slips>> /\ exit.pc = "reply" /\ exit'.pc = "idle"
  BY DEF Reply, broker, NoExit
<1> QED BY <1>1, <1>2 DEF Save, Forget, Live, ExitTypeOK, RowType

LEMMA ReplyBook == ASSUME ExitTypeOK, BookInv, Reply PROVE BookInv'
<1>1. Accounted(row', entry, seen, order) /\ Accounted(saved', entry, seen, order)
  BY ReplyCases DEF BookInv, Accounted
<1> QED BY <1>1, ReplyCases, BookKept DEF BookInv, Evidence, Exiting, Selling

LEMMA CrashBook == ASSUME BookInv, Crash PROVE BookInv'
<1>1. UNCHANGED <<held, entry, order, seen, saved>> /\ row' = saved /\ exit'.pc = "idle" /\ tasks' = {}
  BY DEF Crash, broker, NoExit
<1> QED BY <1>1, BookKept DEF BookInv, Evidence, Exiting, Selling

(* The broker. *)

LEMMA EntryFillBook == ASSUME ExitTypeOK, BookInv, EntryFill PROVE BookInv'
<1>1. /\ entry'.filled = entry.filled + 1 /\ held' = held + 1 /\ entry.open
      /\ UNCHANGED <<order, seen, saved, row, exit, tasks>>
  BY DEF EntryFill
<1>2. entry.filled \in Int /\ seen.filled \in Int /\ held \in Int
  BY LotsAssumption DEF ExitTypeOK
<1>3. ~Done(entry, seen)
  BY <1>1 DEF Done
<1>4. Balance' /\ Fills' /\ Evidence' /\ EntryEnds'
  BY <1>1, <1>2, <1>3 DEF BookInv, Balance, Fills, Evidence, EntryEnds
<1>5. Accounted(row, entry', seen, order) /\ Accounted(saved, entry', seen, order)
  BY <1>3 DEF BookInv, Accounted
<1> QED BY <1>1, <1>4, <1>5 DEF BookInv

LEMMA EntryEndBook == ASSUME ExitTypeOK, BookInv, EntryEnd PROVE BookInv'
<1>1. /\ entry'.filled = entry.filled /\ entry.open
      /\ UNCHANGED <<held, order, seen, saved, row, exit, tasks>>
  BY DEF EntryEnd, Engine, ExitTypeOK
<1>2. ~Done(entry, seen)
  BY <1>1 DEF Done
<1>3. Accounted(row, entry', seen, order) /\ Accounted(saved, entry', seen, order)
  BY <1>2 DEF BookInv, Accounted
<1> QED BY <1>1, <1>2, <1>3, BookKept DEF BookInv, Evidence

\* What the broker does to an exit order, whoever placed it: the order and what is held.
Traded(x) ==
  /\ UNCHANGED <<entry, seen, saved, row, exit, tasks>> /\ slips \subseteq slips'
  /\ \A y \in Orders : y # x => order'[y] = order[y]
  /\ order'[x].filled \in {order[x].filled, order[x].filled + 1}
  /\ held' = held - (order'[x].filled - order[x].filled)
  /\ order'[x].state \in {"none", "transit", "lost"} => order'[x].filled = 0
  /\ order'[x].state = "COMPLETE" => order'[x].filled > 0
  /\ order[x].state # "COMPLETE"
  /\ order[x].state = "none" => x \notin Attempts
  /\ order'[x].filled # order[x].filled => order[x].state = "OPEN" \/ (x \in Foreign /\ "outside" \in slips')

LEMMA TradeBook == ASSUME ExitTypeOK, BookInv, NEW x \in Orders, Traded(x) PROVE BookInv'
<1>1. order[x].filled \in Int /\ order[x].filled >= 0 /\ held \in Int /\ entry.filled \in Int
  BY LotsAssumption DEF ExitTypeOK
<1>2. \A y \in Orders : order[y].filled <= order'[y].filled
  BY <1>1, LotsAssumption DEF Traded, ExitTypeOK
<1>3. Balance'
  <2>1. (\A y \in Orders : order'[y].filled = 0) => \A y \in Orders : order[y].filled = 0
    <3>1. order'[x].filled = 0 => order[x].filled = 0
      BY <1>1 DEF Traded
    <3> QED BY <3>1 DEF Traded
  <2> QED BY <1>1, <2>1 DEF BookInv, Balance, Traded
<1>4. Fills'
  BY DEF BookInv, Fills, Traded
<1>5. Evidence'
  <2>1. \A k \in tasks : k.kind = "attribute" => k.id \in Orders /\ k.id # x
    BY TaskFields DEF ExitTypeOK, BookInv, Evidence, Traded
  <2> QED BY <2>1 DEF BookInv, Evidence, Traded
<1>6. EntryEnds'
  BY DEF BookInv, EntryEnds, Traded, Orders
<1>7. Accounted(row, entry, seen, order') /\ Accounted(saved, entry, seen, order')
  <2>1. \A y \in Orders : row.fills[y] \in Int /\ saved.fills[y] \in Int /\ order[y].filled \in Int /\ order'[y].filled \in Int
    BY <1>1, LotsAssumption DEF ExitTypeOK, RowType, Traded
  <2> QED BY <1>2, <2>1 DEF BookInv, Accounted
<1> QED BY <1>3, <1>4, <1>5, <1>6, <1>7 DEF BookInv, Traded

LEMMA Trades ==
  ASSUME ExitTypeOK, BookInv, StopInv, NEW x \in Orders,
         (x \in Attempts /\ Accept(x)) \/ Fill(x) \/ Die(x) \/ (x \in Triggers /\ Fire(x)) \/ (x \in Foreign /\ Sell(x))
  PROVE  Traded(x)
<1>1. /\ UNCHANGED <<entry, seen, saved, row, exit, tasks>> /\ slips \subseteq slips'
      /\ \A y \in Orders : y # x => order'[y] = order[y]
  BY DEF Accept, Fill, Die, Fire, Sell, Engine, ExitTypeOK
<1>2. order[x].filled \in Int /\ order[x].filled >= 0 /\ order[x].qty \in Int /\ held \in Int
  BY LotsAssumption DEF ExitTypeOK
<1>3. order[x].state \in {"none", "transit", "lost"} => order[x].filled = 0
  BY DEF BookInv, Fills
<1>4. CASE x \in Attempts /\ Accept(x)
  <2>1. order[x].state = "transit" /\ order'[x].state \in {"OPEN", "lost"} /\ order'[x].filled = order[x].filled /\ held' = held
    BY <1>4 DEF Accept, ExitTypeOK
  <2> QED BY <1>1, <1>2, <1>3, <2>1 DEF Traded
<1>5. CASE Fill(x)
  <2>1. /\ order[x].state = "OPEN" /\ order'[x].filled = order[x].filled + 1
        /\ order'[x].state \in {"OPEN", "COMPLETE"} /\ held' = held - 1
    BY <1>5 DEF Fill, ExitTypeOK
  <2> QED BY <1>1, <1>2, <2>1 DEF Traded
<1>6. CASE Die(x)
  <2>1. order[x].state = "OPEN" /\ order'[x].state = "DEAD" /\ order'[x].filled = order[x].filled /\ held' = held
    BY <1>6 DEF Die, ExitTypeOK
  <2> QED BY <1>1, <1>2, <2>1 DEF Traded
<1>7. CASE x \in Triggers /\ Fire(x)
  <2>1. order'[x].state = "OPEN" /\ order'[x].filled = 0 /\ held' = held /\ trig[x].state = "active"
    BY <1>7 DEF Fire, ExitTypeOK
  <2>2. order[x].state = "none" /\ order[x].filled = 0
    BY <1>7, <2>1 DEF StopInv, StopSteps, Unfired, NoOrder
  <2> QED BY <1>1, <1>2, <1>7, <2>1, <2>2, IdsAssumption DEF Traded
<1>8. CASE x \in Foreign /\ Sell(x)
  <2>1. order[x].state = "none" /\ order'[x].state = "COMPLETE" /\ order'[x].filled = 1 /\ held' = held - 1 /\ "outside" \in slips'
    BY <1>8 DEF Sell, ExitTypeOK
  <2> QED BY <1>1, <1>2, <1>3, <1>8, <2>1, IdsAssumption DEF Traded
<1> QED BY <1>4, <1>5, <1>6, <1>7, <1>8

LEMMA BrokerBook == ASSUME ExitTypeOK, StopInv, BookInv, Broker PROVE BookInv'
<1>1. ASSUME NEW x \in Orders,
             (x \in Attempts /\ Accept(x)) \/ Fill(x) \/ Die(x) \/ (x \in Triggers /\ Fire(x)) \/ (x \in Foreign /\ Sell(x))
      PROVE  BookInv'
  BY <1>1, Trades, TradeBook
<1>2. ASSUME NEW t \in Triggers, Delete(t) PROVE BookInv'
  BY <1>2, BookKept DEF Delete, BookInv, Evidence
<1> QED BY <1>1, <1>2, EntryFillBook, EntryEndBook DEF Broker, Orders

LEMMA BookStep == ASSUME ExitTypeOK, StopInv, BookInv, [Next]_vars PROVE BookInv'
<1>1. CASE Step
  <2>1. ASSUME NEW x \in Orders, Postback(x) \/ AttributeStart(x) PROVE BookInv'
    BY <2>1, PostbackConsumes, ConsumptionBook, WalkBook
  <2>2. ASSUME NEW k \in tasks,
               \/ AttributeEnd(k) \/ Resize(k) \/ Cleanup(k) \/ Arm(k)
               \/ PlaceArrives(k) \/ PlaceReply(k) \/ Move(k)
        PROVE  BookInv'
    <3>1. CASE AttributeEnd(k)
      BY <3>1, AttributeEndConsumes, ConsumptionBook, TouchBook
    <3> QED BY <2>2, <3>1, CleanupBook, TaskBook
  <2>3. CASE \/ EntryUpdate \/ Recover \/ Start \/ CancelEntry \/ History \/ Protected \/ Look
             \/ Cancel \/ Status \/ Unanswered \/ NothingHeld \/ Submit \/ Reply
    BY <2>3, EntryUpdateBook, WalkBook, HistoryBook, SubmitBook, ReplyBook
  <2>4. CASE PollExit \/ ScanRead \/ ScanApply \/ Trail \/ Crash \/ Broker
    BY <2>4, PollExitConsumes, ConsumptionBook, WalkBook, ScanApplyBook, CrashBook, BrokerBook
  <2> QED BY <1>1, <2>1, <2>2, <2>3, <2>4 DEF Step
<1>2. CASE UNCHANGED vars
  BY <1>2, BookKept DEF vars, broker, BookInv, Evidence
<1> QED BY <1>1, <1>2 DEF Next

THEOREM BooksHold == Spec => []BookInv
<1>1. Init => BookInv
  BY BookInit
<1>2. ExitTypeOK /\ StopInv /\ BookInv /\ [Next]_vars => BookInv'
  BY BookStep
<1> QED BY <1>1, <1>2, ExitTypesHold, StopsHold, PTL DEF Spec

(***************************************************************************)
(* A closed row is flat.  For each copy of the row: once what its claimed  *)
(* order has filled is consumed, no more is held than the row says, plus   *)
(* what of the entry the journal has not seen; a claim is given up only    *)
(* when nothing of it is left to consume.                                  *)
(***************************************************************************)

Covered(r, h, lag, o) ==
  /\ h <= r.qty + lag
  /\ \A x \in Orders : Claimed(r, x) /\ o[x].filled > r.fills[x] => h + o[x].filled - r.fills[x] <= r.qty
  /\ r.tag # None /\ ~Claimed(r, r.tag) => o[r.tag].filled <= r.fills[r.tag]
  /\ \A x \in Orders : Claimed(r, x) /\ x \notin Attempts => o[x].state = "COMPLETE"
Flat(r, h, lag, o) == /\ r.status = "CLOSED" => h <= 0
                      /\ r.status = "OPEN" => Covered(r, h, lag, o)

Lag        == entry.filled - seen.filled
Unmixed(s) == s \cap {"shrunk", "refill", "attributed"} = {}
Closing    == \A k \in tasks : k.kind = "close" => held <= 0
FlatInv    == Unmixed(slips) => Flat(row, held, Lag, order) /\ Flat(saved, held, Lag, order) /\ Closing

LEMMA FlatSame ==
  ASSUME NEW r, NEW q, NEW h, NEW lag, NEW o, Flat(r, h, lag, o), SameHolding(r, q)
  PROVE  Flat(q, h, lag, o)
BY DEF Flat, Covered, SameHolding, Claimed

LEMMA FlatInit == ASSUME Init PROVE FlatInv
<1>1. entry \in EntryType /\ held = entry.filled /\ seen = entry
  BY TypeInit DEF ExitTypeOK, EntryType, Init
<1>2. PICK g : saved = [status |-> "OPEN", qty |-> held, exitId |-> "none", tag |-> None, gtt |-> g,
                        pending |-> FALSE, entry |-> entry.open, fills |-> [x \in Orders |-> 0]]
  BY Zenon DEF Init
<1>3. saved.status = "OPEN" /\ saved.qty = held /\ saved.exitId = "none" /\ saved.tag = None
  BY <1>2
<1>4. \A x \in Orders : ~Claimed(saved, x)
  BY <1>3, IdsAssumption DEF Claimed, Orders
<1>5. Covered(saved, held, Lag, order)
  BY <1>1, <1>3, <1>4 DEF Covered, Lag, EntryType
<1>6. row = saved /\ tasks = {}
  BY DEF Init
<1> QED BY <1>3, <1>5, <1>6 DEF FlatInv, Flat, Closing

(* The row takes the evidence of its order. *)

LEMMA OneClaim ==
  ASSUME NEW r, NEW x \in Orders, NEW y \in Orders, Claimed(r, x), Claimed(r, y)
  PROVE  x = y
BY IdsAssumption DEF Claimed, Orders

LEMMA NoneClaims == ASSUME NEW r, NEW x \in Orders, r.exitId = "none" PROVE ~Claimed(r, x)
BY IdsAssumption DEF Claimed, Orders

LEMMA FlatConsumed ==
  ASSUME NEW r \in RowType, NEW x \in Orders, NEW v, v.filled \in Int, NEW h \in Int, NEW lag \in Int, lag >= 0,
         NEW o \in OrderType, Sound(v, o, x), Claimed(r, x), \A y \in Orders : r.fills[y] <= o[y].filled,
         Flat(r, h, lag, o)
  PROVE  Flat(Consumed(r, x, v), h, lag, o)
<1> DEFINE q == Consumed(r, x, v)
           d == v.filled - r.fills[x]
<1>1. /\ r.qty \in Int /\ \A y \in Orders : r.fills[y] \in Int /\ r.fills[y] >= 0 /\ o[y].filled \in Int
      /\ r.status \in {"OPEN", "CLOSED"} /\ (r.tag = None \/ (r.tag \in Attempts /\ r.tag \in Orders))
  BY LotsAssumption DEF RowType, OrderType, Orders
<1>2. /\ q.tag = r.tag /\ \A y \in Orders : y # x => q.fills[y] = r.fills[y]
      /\ \/ /\ q.status = r.status /\ q.qty = r.qty /\ q.fills = r.fills
            /\ q.exitId = r.exitId \/ (q.exitId = "none" /\ v.state = "DEAD" /\ (v.filled = 0 \/ (r.status = "OPEN" /\ d <= 0)))
         \/ /\ r.status = "OPEN" /\ d = r.qty /\ q.status = "CLOSED"
         \/ /\ r.status = "OPEN" /\ d \in 1..(r.qty - 1) /\ q.status = "OPEN" /\ q.qty = r.qty - d
            /\ q.fills[x] = v.filled
            /\ q.exitId = IF v.state = "OPEN" THEN r.exitId ELSE "none"
  BY ConsumedCases
<1> HIDE DEF q
<1>3. d \in Int /\ v.filled <= o[x].filled /\ v.filled >= 0 /\ (v.state # "OPEN" => v.filled = o[x].filled)
  BY <1>1 DEF Sound
<1>4. CASE r.status # "OPEN"
  BY <1>1, <1>2, <1>4 DEF Flat, q
<1>5. CASE r.status = "OPEN"
  <2>1. Covered(r, h, lag, o)
    BY <1>5 DEF Flat
  <2>2. CASE q.status = r.status /\ q.qty = r.qty /\ q.fills = r.fills /\ q.exitId = r.exitId
    <3>1. \A y : Claimed(q, y) <=> Claimed(r, y)
      BY <1>2, <2>2 DEF Claimed
    <3>2. Covered(q, h, lag, o)
      BY <1>2, <2>1, <2>2, <3>1 DEF Covered
    <3> QED BY <2>2, <1>5, <3>2 DEF Flat, q
  <2>3. CASE /\ q.status = r.status /\ q.qty = r.qty /\ q.fills = r.fills
             /\ q.exitId = "none" /\ v.state = "DEAD" /\ (v.filled = 0 \/ d <= 0)
    <3>1. o[x].filled <= r.fills[x]
      BY <1>1, <1>3, <2>3
    <3>2. r.tag # None => o[r.tag].filled <= r.fills[r.tag]
      BY <1>1, <2>1, <3>1, OneClaim DEF Covered
    <3>3. \A y \in Orders : ~Claimed(q, y)
      BY <2>3, NoneClaims
    <3>4. Covered(q, h, lag, o)
      BY <1>2, <2>1, <2>3, <3>2, <3>3 DEF Covered
    <3> QED BY <2>3, <1>5, <3>4 DEF Flat, q
  <2>4. CASE d = r.qty /\ q.status = "CLOSED"
    <3>1. r.qty >= 1
      BY LotsAssumption DEF RowType
    <3>2. o[x].filled > r.fills[x]
      BY <1>1, <1>3, <2>4, <3>1
    <3>3. h + o[x].filled - r.fills[x] <= r.qty
      BY <2>1, <3>2 DEF Covered
    <3>4. h <= 0
      BY <1>1, <1>3, <2>4, <3>3
    <3> QED BY <2>4, <3>4 DEF Flat, q
  <2>5. CASE /\ d \in 1..(r.qty - 1) /\ q.status = "OPEN" /\ q.qty = r.qty - d
             /\ q.fills[x] = v.filled /\ q.exitId = IF v.state = "OPEN" THEN r.exitId ELSE "none"
    <3>1. o[x].filled > r.fills[x]
      BY <1>1, <1>3, <2>5
    <3>2. h + o[x].filled - r.fills[x] <= r.qty
      BY <2>1, <3>1 DEF Covered
    <3>3. h <= q.qty + lag
      BY <1>1, <1>3, <2>5, <3>2
    <3>4. ASSUME NEW y \in Orders, Claimed(q, y) PROVE y = x /\ Claimed(r, y) /\ q.exitId = r.exitId
      <4>1. q.exitId = r.exitId
        BY <2>5, <3>4, NoneClaims
      <4>2. Claimed(r, y)
        BY <1>2, <3>4, <4>1 DEF Claimed
      <4> QED BY <4>1, <4>2, OneClaim
    <3>5. \A y \in Orders : Claimed(q, y) /\ o[y].filled > q.fills[y] => h + o[y].filled - q.fills[y] <= q.qty
      <4>1. h + o[x].filled - q.fills[x] <= q.qty
        BY <1>1, <1>3, <2>5, <3>2
      <4> QED BY <3>4, <4>1
    <3>6. q.tag # None /\ ~Claimed(q, q.tag) => o[q.tag].filled <= q.fills[q.tag]
      <4>1. CASE r.tag = x
        <5>1. v.state = "OPEN" => Claimed(q, x)
          BY <1>2, <2>5 DEF Claimed
        <5> QED BY <1>2, <1>3, <2>5, <4>1, <5>1
      <4>2. CASE r.tag # None /\ r.tag # x
        BY <1>1, <1>2, <2>1, <4>2, OneClaim DEF Covered
      <4> QED BY <1>2, <4>1, <4>2
    <3>7. \A y \in Orders : Claimed(q, y) /\ y \notin Attempts => o[y].state = "COMPLETE"
      BY <2>1, <3>4 DEF Covered
    <3>8. Covered(q, h, lag, o)
      BY <3>3, <3>5, <3>6, <3>7 DEF Covered
    <3> QED BY <2>5, <3>8 DEF Flat, q
  <2> QED BY <1>2, <1>5, <2>2, <2>3, <2>4, <2>5
<1> QED BY <1>4, <1>5

LEMMA LagType == ASSUME ExitTypeOK, BookInv PROVE Lag \in Int /\ Lag >= 0 /\ (Done(entry, seen) => Lag = 0)
BY LotsAssumption DEF ExitTypeOK, BookInv, Evidence, Lag, Done

LEMMA ConsumptionFlat ==
  ASSUME ExitTypeOK, BookInv, FlatInv, NEW r, NEW x, NEW v, Consumption(r, x, v),
         Unmixed(slips') => Flat(r, held, Lag, order)
  PROVE  FlatInv'
<1>1. SUFFICES ASSUME Unmixed(slips')
               PROVE  Flat(row', held, Lag, order) /\ Flat(saved', held, Lag, order) /\ Closing'
  BY DEF FlatInv, Consumption, Lag
<1>2. Flat(saved, held, Lag, order) /\ Closing
  BY <1>1 DEF FlatInv, Unmixed, Consumption
<1>3. \A y \in Orders : r.fills[y] <= order[y].filled
  BY DEF Consumption, SameHolding, BookInv, Accounted, ExitTypeOK, RowType
<1>4. Flat(Consumed(r, x, v), held, Lag, order)
  <2>1. /\ r \in RowType /\ x \in Orders /\ v.filled \in Int /\ Sound(v, order, x) /\ Claimed(r, x)
        /\ held \in Int /\ order \in OrderType
    BY DEF Consumption, ExitTypeOK, OrderType
  <2> QED BY <1>1, <1>3, <2>1, LagType, FlatConsumed
<1>5. Closing'
  BY <1>2 DEF Closing, Consumption, Follow, Task
<1> QED BY <1>2, <1>4, <1>5 DEF Consumption, Save

LEMMA PostbackFlat == ASSUME ExitTypeOK, BookInv, FlatInv, NEW x \in Orders, Postback(x) PROVE FlatInv'
<1>1. PICK v : Consumption(row, x, v) /\ slips' = slips
  BY PostbackConsumes
<1>2. Unmixed(slips') => Flat(row, held, Lag, order)
  BY <1>1 DEF FlatInv
<1> QED BY <1>1, <1>2, ConsumptionFlat

\* A poll resolves the claim to the order that has it.
LEMMA PollExitFlat == ASSUME ExitTypeOK, BookInv, FlatInv, PollExit PROVE FlatInv'
<1>1. PICK r, x, v : Consumption(r, x, v) /\ slips' = slips /\ r.exitId = x /\ Claimed(row, x)
  BY PollExitConsumes
<1>2. /\ r.status = row.status /\ r.qty = row.qty /\ r.tag = row.tag /\ r.fills = row.fills /\ x \in Orders
      /\ Claimed(r, x)
  BY <1>1 DEF Consumption, SameHolding, ExitTypeOK, RowType
<1>3. ASSUME Flat(row, held, Lag, order) PROVE Flat(r, held, Lag, order)
  <2>1. SUFFICES ASSUME row.status = "OPEN" PROVE Covered(r, held, Lag, order)
    BY <1>2, <1>3 DEF Flat
  <2>2. Covered(row, held, Lag, order)
    BY <1>3, <2>1 DEF Flat
  <2>3. \A y \in Orders : Claimed(r, y) <=> y = x
    BY <1>2, OneClaim
  <2>4. row.tag # None /\ ~Claimed(r, row.tag) => ~Claimed(row, row.tag)
    <3>1. row.tag # None => row.tag \in Orders
      BY DEF ExitTypeOK, RowType, Orders
    <3> QED BY <1>1, <1>2, <2>3, <3>1, OneClaim
  <2> QED BY <1>1, <1>2, <2>2, <2>3, <2>4 DEF Covered
<1> QED BY <1>1, <1>3, ConsumptionFlat DEF FlatInv

LEMMA TouchFlat ==
  ASSUME ExitTypeOK, FlatInv, Touch, \A k \in tasks' : k.kind = "close" => k \in tasks \/ held <= 0
  PROVE  FlatInv'
<1>1. UNCHANGED <<held, order, Lag>>
  BY DEF Touch, Lag, ExitTypeOK
<1>2. ASSUME Unmixed(slips') PROVE Flat(row', held, Lag, order) /\ Flat(saved', held, Lag, order) /\ Closing'
  <2>1. Flat(row, held, Lag, order) /\ Flat(saved, held, Lag, order) /\ Closing
    BY <1>2 DEF FlatInv, Unmixed, Touch
  <2>2. Flat(row', held, Lag, order) /\ Flat(saved', held, Lag, order)
    BY <2>1, FlatSame DEF Touch
  <2> QED BY <1>1, <2>1, <2>2 DEF Closing
<1> QED BY <1>1, <1>2 DEF FlatInv

LEMMA AttributeEndFlat == ASSUME ExitTypeOK, BookInv, FlatInv, NEW k \in tasks, AttributeEnd(k) PROVE FlatInv'
<1>1. CASE Touch /\ tasks' \subseteq tasks
  BY <1>1, TouchFlat
<1>2. ASSUME NEW r, NEW x, NEW v, Consumption(r, x, v), r.exitId = x,
             order[x].state = "COMPLETE", held = row.qty - order[x].filled, "attributed" \in slips' \/ row.exitId = "none"
      PROVE  FlatInv'
  <2>1. /\ r.status = row.status /\ r.qty = row.qty /\ r.tag = row.tag /\ r.fills = row.fills /\ x \in Orders
    BY <1>2 DEF Consumption, SameHolding, ExitTypeOK, RowType
  <2>2. ASSUME Unmixed(slips') PROVE Flat(r, held, Lag, order)
    <3>1. Flat(row, held, Lag, order) /\ row.exitId = "none"
      BY <1>2, <2>2 DEF FlatInv, Unmixed, Consumption
    <3>2. SUFFICES ASSUME row.status = "OPEN" PROVE Covered(r, held, Lag, order)
      BY <2>1, <3>1 DEF Flat
    <3>3. Covered(row, held, Lag, order)
      BY <3>1, <3>2 DEF Flat
    <3>4. \A y \in Orders : Claimed(r, y) <=> y = x
      BY <1>2, <2>1, OneClaim DEF Claimed
    <3>5. row.tag # None => row.tag \in Orders /\ ~Claimed(row, row.tag)
      BY <3>1, NoneClaims DEF ExitTypeOK, RowType, Orders
    <3>6. /\ row.fills[x] \in Int /\ row.fills[x] >= 0 /\ order[x].filled \in Int /\ row.qty \in Int
      BY <2>1, LotsAssumption DEF ExitTypeOK, RowType
    <3>7. held + order[x].filled - r.fills[x] <= r.qty
      BY <1>2, <2>1, <3>6
    <3> QED BY <1>2, <2>1, <3>3, <3>4, <3>5, <3>7 DEF Covered
  <2> QED BY <1>2, <2>2, ConsumptionFlat
<1> QED BY <1>1, <1>2, AttributeEndConsumes

LEMMA TaskFlat ==
  ASSUME ExitTypeOK, FlatInv, NEW k \in tasks, Resize(k) \/ Arm(k) \/ PlaceArrives(k) \/ PlaceReply(k) \/ Move(k)
  PROVE  FlatInv'
<1>1. \A j \in tasks' : j.kind = "close" => j \in tasks
  <2>1. CASE Resize(k) \/ PlaceReply(k) \/ Move(k)
    BY <2>1 DEF Resize, PlaceReply, Move
  <2>2. CASE Arm(k)
    BY <2>2 DEF Arm
  <2>3. CASE PlaceArrives(k)
    <3>1. k \in TaskType
      BY DEF ExitTypeOK
    <3> QED BY <2>3, <3>1 DEF PlaceArrives, TaskType
  <2> QED BY <2>1, <2>2, <2>3
<1> QED BY <1>1, TaskTouch, TouchFlat

LEMMA WalkFlat ==
  ASSUME ExitTypeOK, FlatInv,
         \/ Recover \/ (Bail /\ UNCHANGED seen) \/ Start \/ CancelEntry \/ Protected \/ Look \/ Cancel \/ Status
         \/ Unanswered \/ NothingHeld \/ ScanRead \/ Trail \/ \E x \in Orders : AttributeStart(x)
  PROVE  FlatInv'
<1>1. \A k \in tasks' : k.kind = "close" => k \in tasks \/ held <= 0
  <2>1. CASE Recover
    BY <2>1 DEF Recover, Protect
  <2>2. CASE NothingHeld \/ Trail \/ \E x \in Orders : AttributeStart(x)
    BY <2>2 DEF NothingHeld, Trail, AttributeStart, Task
  <2> QED BY <2>1, <2>2 DEF Bail, Start, CancelEntry, Protected, Look, Cancel, Status, Unanswered, ScanRead
<1> QED BY <1>1, WalkTouch, TouchFlat

LEMMA CleanupFlat == ASSUME ExitTypeOK, FlatInv, NEW k \in tasks, Cleanup(k) PROVE FlatInv'
<1>1. CASE k.kind = "cancel"
  <2>1. Touch /\ tasks' \subseteq tasks
    BY <1>1 DEF Cleanup, Save, ExitTypeOK, RowType, Touch, SameHolding
  <2> QED BY <2>1, TouchFlat
<1>2. CASE k.kind = "close"
  <2>1. /\ UNCHANGED <<held, entry, order, seen, slips>> /\ tasks' \subseteq tasks
        /\ row'.status = "CLOSED" /\ saved' \in {saved, row'}
    BY <1>2 DEF Cleanup, Save, ExitTypeOK, RowType
  <2> QED BY <1>2, <2>1 DEF FlatInv, Flat, Closing, Lag
<1> QED BY <1>1, <1>2 DEF Cleanup

\* New evidence of the entry only raises what the row says.
LEMMA ConsumeEntryFlat ==
  ASSUME ExitTypeOK, BookInv, FlatInv, NEW by, NEW s \in EntryType, s.filled <= entry.filled, s.open \/ s = entry,
         ConsumeEntry(s, by), by \in {"entry", "exit"}, UNCHANGED <<held, entry, order, slips>>
  PROVE  FlatInv'
<1>1. \A k \in tasks' : k.kind = "close" => k \in tasks
  BY ConsumeEntryCases
<1>2. CASE UNCHANGED <<seen, row, saved>>
  BY <1>1, <1>2 DEF FlatInv, Lag, Closing
<1>3. CASE /\ seen' = s /\ seen.filled <= s.filled /\ saved' = row'
           /\ row.status = "OPEN" \/ row' = row
           /\ row.status = "OPEN" => /\ row'.qty = s.filled /\ row'.status = "OPEN"
                                      /\ row'.exitId = row.exitId /\ row'.tag = row.tag /\ row'.fills = row.fills
  <2>1. SUFFICES ASSUME Unmixed(slips) PROVE Flat(row', held, Lag', order)
    BY <1>1, <1>3 DEF FlatInv, Closing
  <2>2. Flat(row, held, Lag, order)
    BY <2>1 DEF FlatInv
  <2>3. CASE row.status # "OPEN"
    BY <1>3, <2>2, <2>3 DEF Flat
  <2>4. CASE row.status = "OPEN"
    <3>1. Covered(row, held, Lag, order)
      BY <2>2, <2>4 DEF Flat
    <3>2. Lag' = entry.filled - s.filled
      BY <1>3 DEF Lag
    <3>3. /\ held \in Int /\ entry.filled \in Int /\ s.filled \in Int /\ seen.filled \in Int /\ row.qty \in Int
          /\ \A x \in Orders : order[x].filled \in Int /\ row.fills[x] \in Int
      BY LotsAssumption DEF ExitTypeOK, EntryType, RowType
    <3>4. held <= entry.filled /\ row.qty <= s.filled
      BY <1>3, <3>3 DEF BookInv, Balance, Accounted
    <3>5. \A y : Claimed(row', y) <=> Claimed(row, y)
      BY <1>3, <2>4 DEF Claimed
    <3>6. \A x \in Orders : Claimed(row, x) /\ order[x].filled > row.fills[x]
                              => held + order[x].filled - row.fills[x] <= s.filled
      BY <3>1, <3>3, <3>4 DEF Covered
    <3>7. held <= s.filled + Lag'
      BY <3>2, <3>3, <3>4
    <3>8. row'.qty = s.filled /\ row'.tag = row.tag /\ row'.fills = row.fills /\ row'.status = "OPEN"
      BY <1>3, <2>4
    <3>9. Covered(row', held, Lag', order)
      BY <3>1, <3>5, <3>6, <3>7, <3>8 DEF Covered
    <3> QED BY <3>8, <3>9 DEF Flat
  <2> QED BY <2>3, <2>4
<1> QED BY <1>2, <1>3, ConsumeEntryCases

LEMMA EntryUpdateFlat == ASSUME ExitTypeOK, BookInv, FlatInv, EntryUpdate PROVE FlatInv'
<1>1. PICK s \in {entry} \cup {[filled |-> f, open |-> TRUE] : f \in 1..entry.filled} : ConsumeEntry(s, "entry")
  BY DEF EntryUpdate
<1> QED BY <1>1, EntryEvidence, ConsumeEntryFlat DEF EntryUpdate, broker

LEMMA HistoryFlat == ASSUME ExitTypeOK, BookInv, FlatInv, History PROVE FlatInv'
<1>1. CASE Bail /\ UNCHANGED <<seen, scan>>
  BY <1>1, WalkFlat
<1>2. CASE ConsumeEntry(entry, "exit") /\ UNCHANGED <<broker, scan, slips>>
  <2>1. entry \in EntryType /\ entry.filled <= entry.filled
    BY LotsAssumption DEF ExitTypeOK, EntryType
  <2> QED BY <1>2, <2>1, ConsumeEntryFlat DEF broker
<1> QED BY <1>1, <1>2 DEF History

\* A scan that finds less than the row says has seen a sale nobody claimed.
LEMMA ScanApplyFlat == ASSUME ExitTypeOK, BookInv, FlatInv, ScanApply PROVE FlatInv'
<1>1. SUFFICES ASSUME Unmixed(slips')
               PROVE  Flat(row', held, Lag, order) /\ Flat(saved', held, Lag, order) /\ Closing'
  BY ScanApplyCases DEF FlatInv, Lag
<1>2. Flat(row, held, Lag, order) /\ Flat(saved, held, Lag, order) /\ Closing /\ "shrunk" \notin slips'
  BY <1>1, ScanApplyCases DEF FlatInv, Unmixed
<1>3. Closing'
  <2>1. UNCHANGED held /\ \A k \in tasks' : k \in tasks \/ (scan = held /\ scan = 0)
    BY <1>2, ScanApplyCases
  <2> QED BY <1>2, <2>1 DEF Closing
<1>4. CASE UNCHANGED <<row, saved>>
  BY <1>2, <1>3, <1>4
<1>5. CASE /\ scan \in 1..(row.qty - 1) /\ row'.qty = scan /\ row'.status = "OPEN" /\ saved' \in {saved, row'}
           /\ row'.exitId = row.exitId /\ row'.tag = row.tag /\ row'.fills = row.fills
           /\ row.exitId # "none" \/ scan # held => "shrunk" \in slips'
  <2>1. held = scan /\ row.exitId = "none" /\ held \in Int /\ held > 0 /\ row.qty \in Int
    BY <1>2, <1>5, LotsAssumption DEF ExitTypeOK, RowType
  <2>2. row.status = "OPEN"
    BY <1>2, <2>1 DEF Flat, ExitTypeOK, RowType
  <2>3. Covered(row, held, Lag, order)
    BY <1>2, <2>2 DEF Flat
  <2>4. \A y \in Orders : ~Claimed(row', y) /\ ~Claimed(row, y)
    BY <1>5, <2>1, NoneClaims
  <2>5. row.tag # None => row.tag \in Orders
    BY DEF ExitTypeOK, RowType, Orders
  <2>6. held <= row'.qty + Lag
    BY <1>5, <2>1, LagType
  <2>7. Covered(row', held, Lag, order)
    BY <1>5, <2>3, <2>4, <2>5, <2>6 DEF Covered
  <2> QED BY <1>2, <1>3, <1>5, <2>7 DEF Flat
<1> QED BY <1>4, <1>5, ScanApplyCases

\* The reply puts the name of the order, or that it is unknown, where the claim was.
LEMMA ReplyFlat == ASSUME ExitTypeOK, FlatInv, Reply PROVE FlatInv'
<1>1. SUFFICES ASSUME Unmixed(slips)
               PROVE  Flat(row', held, Lag, order)
  BY ReplyCases DEF FlatInv, Lag, Closing
<1>2. Flat(row, held, Lag, order)
  BY <1>1 DEF FlatInv
<1>3. CASE row.status # "OPEN"
  BY <1>2, <1>3, ReplyCases DEF Flat
<1>4. CASE row.status = "OPEN"
  <2>1. Covered(row, held, Lag, order)
    BY <1>2, <1>4 DEF Flat
  <2>2. row'.status = "OPEN" /\ row'.qty = row.qty /\ row'.tag = row.tag /\ row'.fills = row.fills
        /\ row'.exitId \in {"unknown", row.tag}
    BY <1>4, ReplyCases
  <2>3. row.tag = None \/ (row.tag \in Attempts /\ row.tag \in Orders)
    BY DEF ExitTypeOK, RowType, Orders
  <2>4. \A y \in Orders : Claimed(row', y) => y = row.tag
    BY <2>2, IdsAssumption DEF Claimed, Orders
  <2>5. row.tag # None => Claimed(row', row'.tag)
    BY <2>2 DEF Claimed
  <2>6. None \notin Orders
    BY IdsAssumption DEF Orders
  <2>7. \A y \in Orders : Claimed(row', y) => y \in Attempts /\ (Claimed(row, y) \/ order[y].filled <= row.fills[y])
    BY <2>1, <2>3, <2>4, <2>6 DEF Covered
  <2>8. \A y \in Orders : order[y].filled \in Int /\ row.fills[y] \in Int
    BY LotsAssumption DEF ExitTypeOK, RowType
  <2>9. Covered(row', held, Lag, order)
    BY <2>1, <2>2, <2>5, <2>7, <2>8 DEF Covered
  <2> QED BY <2>2, <2>9 DEF Flat
<1> QED BY <1>3, <1>4

LEMMA CrashFlat == ASSUME FlatInv, Crash PROVE FlatInv'
<1>1. UNCHANGED <<held, entry, order, seen, saved, slips>> /\ row' = saved /\ tasks' = {}
  BY DEF Crash, broker
<1> QED BY <1>1 DEF FlatInv, Closing, Lag

\* The order goes out for what is held, and nothing of it is filled yet.
LEMMA SubmitFlat == ASSUME ExitTypeOK, BookInv, FlatInv, Submit PROVE FlatInv'
<1>1. SUFFICES ASSUME Unmixed(slips')
               PROVE  Flat(row', held, Lag, order') /\ Flat(saved', held, Lag, order') /\ Closing
  BY SubmitCases DEF FlatInv, Lag, Closing
<1>2. Flat(row, held, Lag, order) /\ Flat(saved, held, Lag, order) /\ Closing /\ "shrunk" \notin slips'
  BY <1>1, SubmitCases DEF FlatInv, Unmixed
<1>3. Lag = 0 /\ held > 0 /\ held \in Int /\ row.qty \in Int
  BY LagType, SubmitCases, LotsAssumption DEF BookInv, EntryEnds, Exiting, Selling, ExitTypeOK, RowType
<1>4. ASSUME NEW x \in Attempts, order[x].state = "none", Shrunk \in RowType, Shrunk.status = "OPEN",
             row'.status = "OPEN", row'.qty = Shrunk.qty, row'.exitId = "submitting", row'.tag = x, row'.fills = row.fills,
             \/ /\ saved' = row'
                /\ order' = [order EXCEPT ![x] = [state |-> "transit", qty |-> Shrunk.qty, filled |-> 0]]
             \/ saved' \in {saved, Shrunk} /\ UNCHANGED order,
             held < row.qty /\ row.exitId # "none" => "shrunk" \in slips'
      PROVE  Flat(row', held, Lag, order') /\ Flat(saved', held, Lag, order')
  <2>1. x \in Orders /\ order[x].filled = 0
    BY <1>4 DEF Orders, BookInv, Fills
  <2>2. \A y \in Orders : order'[y].filled = order[y].filled /\ (y # x => order'[y] = order[y])
    BY <1>4, <2>1 DEF ExitTypeOK
  <2>3. \A r \in RowType : Flat(r, held, Lag, order) => Flat(r, held, Lag, order')
    <3>1. ASSUME NEW r \in RowType, Covered(r, held, Lag, order) PROVE Covered(r, held, Lag, order')
      <4>1. \A y \in Orders : Claimed(r, y) /\ y \notin Attempts => order'[y].state = "COMPLETE"
        BY <1>4, <2>2, <3>1 DEF Covered
      <4>2. r.tag # None /\ ~Claimed(r, r.tag) => order'[r.tag].filled <= r.fills[r.tag]
        <5>1. r.tag = None \/ r.tag \in Orders
          BY DEF RowType, Orders
        <5> QED BY <2>2, <3>1, <5>1 DEF Covered
      <4> QED BY <2>2, <3>1, <4>1, <4>2 DEF Covered
    <3> QED BY <3>1 DEF Flat
  <2>4. held <= Shrunk.qty + Lag
    <3>1. row.status = "OPEN" => held <= row.qty + Lag
      BY <1>2 DEF Flat, Covered
    <3>2. row.status = "OPEN"
      BY <1>2, <1>3 DEF Flat, ExitTypeOK, RowType
    <3> QED BY <1>3, <3>1, <3>2, LotsAssumption DEF Shrunk, ExitTypeOK, RowType
  <2>5. Flat(Shrunk, held, Lag, order)
    <3>1. row.status = "OPEN"
      BY <1>2, <1>3 DEF Flat, ExitTypeOK, RowType
    <3>2. CASE held < row.qty
      <4>1. row.exitId = "none" /\ Shrunk.exitId = "none" /\ Shrunk.tag = row.tag /\ Shrunk.fills = row.fills
        BY <1>2, <1>4, <3>2 DEF Shrunk, ExitTypeOK, RowType
      <4>2. \A y \in Orders : ~Claimed(Shrunk, y) /\ ~Claimed(row, y)
        BY <4>1, NoneClaims
      <4>3. row.tag # None => row.tag \in Orders
        BY DEF ExitTypeOK, RowType, Orders
      <4>4. Covered(row, held, Lag, order)
        BY <1>2, <3>1 DEF Flat
      <4>5. Covered(Shrunk, held, Lag, order)
        BY <2>4, <4>1, <4>2, <4>3, <4>4 DEF Covered
      <4> QED BY <1>4, <4>5 DEF Flat
    <3>3. CASE ~(held < row.qty)
      BY <1>2, <3>3 DEF Shrunk
    <3> QED BY <3>2, <3>3
  <2>6. Flat(row', held, Lag, order')
    <3>1. \A y \in Orders : Claimed(row', y) => y = x
      BY <1>4, IdsAssumption DEF Claimed, Orders
    <3>2. Claimed(row', x)
      BY <1>4 DEF Claimed
    <3>3. row'.fills[x] >= 0 /\ row'.fills[x] \in Int
      BY <1>4, <2>1, LotsAssumption DEF ExitTypeOK, RowType
    <3>4. ~(order'[x].filled > row'.fills[x])
      BY <2>1, <2>2, <3>3
    <3>5. Covered(row', held, Lag, order')
      BY <1>4, <2>4, <3>1, <3>2, <3>4 DEF Covered
    <3> QED BY <1>4, <3>5 DEF Flat
  <2> QED BY <1>2, <1>4, <2>3, <2>5, <2>6 DEF ExitTypeOK
<1>5. CASE UNCHANGED <<order, row, saved, slips>>
  BY <1>2, <1>5
<1> QED BY <1>2, <1>4, <1>5, SubmitCases

(* The broker. *)

\* More of the entry than the journal has seen; a row is then not closed, for all that was
\* filled is still held.
LEMMA EntryFillFlat == ASSUME ExitTypeOK, BookInv, FlatInv, EntryFill PROVE FlatInv'
<1>1. /\ entry'.filled = entry.filled + 1 /\ held' = held + 1
      /\ UNCHANGED <<order, seen, saved, row, tasks>>
      /\ slips \subseteq slips' /\ ((\E x \in Orders : order[x].filled > 0) => "refill" \in slips')
  BY DEF EntryFill, Slip
<1>2. /\ entry.filled \in 1..Lots /\ seen.filled \in Int /\ held \in Int /\ \A x \in Orders : order[x].filled \in Nat
      /\ row \in RowType /\ saved \in RowType
  BY DEF ExitTypeOK
<1>3. SUFFICES ASSUME Unmixed(slips')
               PROVE  Flat(row, held', Lag', order) /\ Flat(saved, held', Lag', order) /\ Closing'
  BY <1>1 DEF FlatInv
<1>4. \A x \in Orders : order[x].filled = 0
  BY <1>1, <1>2, <1>3 DEF Unmixed
<1>5. held > 0 /\ Flat(row, held, Lag, order) /\ Flat(saved, held, Lag, order) /\ Closing
  BY <1>1, <1>2, <1>3, <1>4, LotsAssumption DEF FlatInv, Unmixed, BookInv, Balance
<1>6. Lag' = Lag + 1 /\ Lag \in Int
  BY <1>1, <1>2, LotsAssumption DEF Lag
<1>7. ASSUME NEW r \in RowType, Flat(r, held, Lag, order) PROVE Flat(r, held', Lag', order)
  <2>1. r.status = "OPEN" /\ Covered(r, held, Lag, order)
    BY <1>2, <1>5, <1>7 DEF Flat, RowType
  <2>2. r.qty \in Int /\ \A x \in Orders : r.fills[x] \in Int /\ r.fills[x] >= 0
    BY LotsAssumption DEF RowType
  <2>3. held' <= r.qty + Lag'
    BY <1>1, <1>2, <1>6, <2>1, <2>2 DEF Covered
  <2>4. \A x \in Orders : ~(order[x].filled > r.fills[x])
    BY <1>4, <2>2
  <2>5. Covered(r, held', Lag', order)
    BY <2>1, <2>3, <2>4 DEF Covered
  <2> QED BY <2>1, <2>5 DEF Flat
<1>8. Closing'
  BY <1>1, <1>2, <1>5 DEF Closing
<1> QED BY <1>2, <1>5, <1>7, <1>8

\* A fill that the row claims is what the row still has to consume; one that it does not
\* claim is the order of a trigger, or somebody else's.
LEMMA CoveredTrade ==
  ASSUME NEW r \in RowType, NEW h \in Int, NEW h2 \in Int, NEW lag \in Int, lag >= 0, NEW o \in OrderType, NEW o2 \in OrderType,
         NEW x \in Orders, Flat(r, h, lag, o), \A y \in Orders : r.fills[y] <= o[y].filled,
         \A y \in Orders : y # x => o2[y] = o[y],
         o2[x].filled \in {o[x].filled, o[x].filled + 1}, h2 = h - (o2[x].filled - o[x].filled),
         o[x].state # "COMPLETE",
         x \in Attempts /\ o2[x].filled # o[x].filled => lag = 0 /\ Claimed(r, x)
  PROVE  Flat(r, h2, lag, o2)
<1>1. /\ r.qty \in Int /\ \A y \in Orders : r.fills[y] \in Int /\ o[y].filled \in Int /\ o2[y].filled \in Int
      /\ r.tag = None \/ (r.tag \in Attempts /\ r.tag \in Orders)
  BY LotsAssumption DEF RowType, OrderType, Orders
<1>2. h2 <= h
  BY <1>1
<1>3. CASE r.status # "OPEN"
  BY <1>2, <1>3 DEF Flat
<1>4. CASE r.status = "OPEN"
  <2>1. Covered(r, h, lag, o)
    BY <1>4 DEF Flat
  <2>2. h2 <= r.qty + lag
    BY <1>1, <1>2, <2>1 DEF Covered
  <2>3. \A y \in Orders : Claimed(r, y) /\ y \notin Attempts => o2[y].state = "COMPLETE"
    BY <2>1 DEF Covered
  <2>4. r.tag # None /\ ~Claimed(r, r.tag) => o2[r.tag].filled <= r.fills[r.tag]
    BY <1>1, <2>1 DEF Covered
  <2>5. ASSUME NEW y \in Orders, Claimed(r, y), o2[y].filled > r.fills[y]
        PROVE  h2 + o2[y].filled - r.fills[y] <= r.qty
    <3>1. CASE y # x
      <4>1. h + o[y].filled - r.fills[y] <= r.qty
        BY <2>1, <2>5, <3>1 DEF Covered
      <4> QED BY <1>1, <1>2, <3>1, <4>1
    <3>2. CASE y = x
      <4>1. x \in Attempts
        BY <2>1, <2>5, <3>2 DEF Covered
      <4>2. CASE o[x].filled > r.fills[x]
        <5>1. h + o[x].filled - r.fills[x] <= r.qty
          BY <2>1, <2>5, <3>2, <4>2 DEF Covered
        <5> QED BY <1>1, <3>2, <5>1
      <4>3. CASE o[x].filled = r.fills[x]
        <5>1. lag = 0 /\ o2[x].filled = o[x].filled + 1
          BY <1>1, <2>5, <3>2, <4>1, <4>3
        <5>2. h <= r.qty
          BY <2>1, <5>1, <1>1 DEF Covered
        <5> QED BY <1>1, <3>2, <4>3, <5>1, <5>2
      <4> QED BY <1>1, <4>2, <4>3
    <3> QED BY <3>1, <3>2
  <2>6. Covered(r, h2, lag, o2)
    BY <2>2, <2>3, <2>4, <2>5 DEF Covered
  <2> QED BY <1>4, <2>6 DEF Flat
<1> QED BY <1>3, <1>4

LEMMA TradeFlat ==
  ASSUME ExitTypeOK, ExitTypeOK', FenceInv, BookInv, FlatInv, NEW x \in Orders, Traded(x)
  PROVE  FlatInv'
<1>1. /\ UNCHANGED <<entry, seen, saved, row, tasks, Lag>> /\ slips \subseteq slips'
  BY DEF Traded, Lag
<1>2. SUFFICES ASSUME Unmixed(slips')
               PROVE  Flat(row, held', Lag, order') /\ Flat(saved, held', Lag, order') /\ Closing'
  BY <1>1 DEF FlatInv
<1>3. Flat(row, held, Lag, order) /\ Flat(saved, held, Lag, order) /\ Closing /\ "attributed" \notin slips
  BY <1>1, <1>2 DEF FlatInv, Unmixed
<1>4. x \in Attempts /\ order'[x].filled # order[x].filled => Lag = 0 /\ Claimed(row, x) /\ Claimed(saved, x)
  <2>1. SUFFICES ASSUME x \in Attempts, order'[x].filled # order[x].filled
                 PROVE  Lag = 0 /\ Claimed(row, x) /\ Claimed(saved, x)
    OBVIOUS
  <2>2. order[x].state = "OPEN"
    BY <2>1, IdsAssumption DEF Traded
  <2>3. Claims(row, x) /\ Claims(saved, x)
    BY <1>3, <2>1, <2>2 DEF FenceInv, Fence, Working
  <2>4. Done(entry, seen)
    BY <2>1, <2>2 DEF BookInv, EntryEnds
  <2> QED BY <2>3, <2>4, LagType DEF Claims, Claimed
<1>5. /\ held \in Int /\ held' \in Int /\ Lag \in Int /\ Lag >= 0 /\ order \in OrderType /\ order' \in OrderType
      /\ row \in RowType /\ saved \in RowType
  BY LagType DEF ExitTypeOK, OrderType
<1>6. /\ \A y \in Orders : row.fills[y] <= order[y].filled /\ saved.fills[y] <= order[y].filled
      /\ \A y \in Orders : y # x => order'[y] = order[y]
      /\ order'[x].filled \in {order[x].filled, order[x].filled + 1}
      /\ held' = held - (order'[x].filled - order[x].filled) /\ order[x].state # "COMPLETE"
  BY DEF BookInv, Accounted, Traded
<1>7. Flat(row, held', Lag, order') /\ Flat(saved, held', Lag, order')
  BY <1>3, <1>4, <1>5, <1>6, CoveredTrade
<1>8. Closing'
  <2>1. order[x].filled \in Int
    BY LotsAssumption DEF ExitTypeOK
  <2> QED BY <1>1, <1>3, <1>5, <1>6, <2>1 DEF Closing
<1> QED BY <1>7, <1>8

LEMMA BrokerFlat == ASSUME ExitTypeOK, ExitTypeOK', FenceInv, StopInv, BookInv, FlatInv, Broker PROVE FlatInv'
<1>1. ASSUME NEW x \in Orders,
             (x \in Attempts /\ Accept(x)) \/ Fill(x) \/ Die(x) \/ (x \in Triggers /\ Fire(x)) \/ (x \in Foreign /\ Sell(x))
      PROVE  FlatInv'
  BY <1>1, Trades, TradeFlat
<1>2. ASSUME NEW t \in Triggers, Delete(t) PROVE FlatInv'
  BY <1>2 DEF Delete, FlatInv, Unmixed, Closing, Lag
<1>3. ASSUME EntryEnd PROVE FlatInv'
  <2>1. entry'.filled = entry.filled
    BY <1>3 DEF EntryEnd, ExitTypeOK
  <2> QED BY <1>3, <2>1 DEF EntryEnd, Engine, FlatInv, Closing, Lag
<1> QED BY <1>1, <1>2, <1>3, EntryFillFlat DEF Broker, Orders

LEMMA FlatStep == ASSUME ExitTypeOK, ExitTypeOK', FenceInv, StopInv, BookInv, FlatInv, [Next]_vars PROVE FlatInv'
<1>1. CASE Step
  <2>1. ASSUME NEW x \in Orders, Postback(x) \/ AttributeStart(x) PROVE FlatInv'
    BY <2>1, PostbackFlat, WalkFlat
  <2>2. ASSUME NEW k \in tasks,
               \/ AttributeEnd(k) \/ Resize(k) \/ Cleanup(k) \/ Arm(k)
               \/ PlaceArrives(k) \/ PlaceReply(k) \/ Move(k)
        PROVE  FlatInv'
    BY <2>2, AttributeEndFlat, CleanupFlat, TaskFlat
  <2>3. CASE \/ EntryUpdate \/ Recover \/ Start \/ CancelEntry \/ History \/ Protected \/ Look
             \/ Cancel \/ Status \/ Unanswered \/ NothingHeld \/ Submit \/ Reply
    BY <2>3, EntryUpdateFlat, WalkFlat, HistoryFlat, SubmitFlat, ReplyFlat
  <2>4. CASE PollExit \/ ScanRead \/ ScanApply \/ Trail \/ Crash \/ Broker
    BY <2>4, PollExitFlat, WalkFlat, ScanApplyFlat, CrashFlat, BrokerFlat
  <2> QED BY <1>1, <2>1, <2>2, <2>3, <2>4 DEF Step
<1>2. CASE UNCHANGED vars
  BY <1>2 DEF vars, broker, FlatInv, Closing, Lag
<1> QED BY <1>1, <1>2 DEF Next

\* Whatever dies, is lost or comes late, and for every number of lots and coroutines: a
\* closed row is flat.  Only the three slips the property names can break it.
THEOREM ClosedRowsAreFlat == Spec => []ClosedMeansFlat
<1>1. Init => FlatInv
  BY FlatInit
<1>2. ExitTypeOK /\ ExitTypeOK' /\ FenceInv /\ StopInv /\ BookInv /\ FlatInv /\ [Next]_vars => FlatInv'
  BY FlatStep
<1>3. FlatInv => ClosedMeansFlat
  BY DEF FlatInv, Unmixed, Flat, ClosedMeansFlat

<1> QED BY <1>1, <1>2, <1>3, FenceHolds, ExitTypesHold, StopsHold, BooksHold, PTL DEF Spec

(***************************************************************************)
(* The holding is not sold twice.  Until an order of a trigger fills, a    *)
(* row says no more than is held, or than was held before its own claimed  *)
(* order filled; so what is placed, moved or submitted next is covered,    *)
(* and every order or trigger at work is covered by what is held.          *)
(***************************************************************************)

Marked == /\ row.gtt # None => trig[row.gtt].state # "none"
          /\ saved.gtt # None => trig[saved.gtt].state # "none"
          /\ \A k \in tasks : k.kind \in {"placed", "move", "resize"} => trig[k.id].state # "none"

Clean(s)  == s \cap {"outside", "rearm", "blind", "attributed", "reopened"} = {}
Virgin(o) == \A t \in Triggers : o[t].filled = 0
Unsold(r, h, o) ==
  /\ r.exitId \in {"none", "submitting", "unknown", r.tag}
  /\ \/ r.qty <= h
     \/ r.tag \in Attempts /\ Claimed(r, r.tag) /\ r.qty <= h + o[r.tag].filled - r.fills[r.tag]
Backed(r, h, o) == Virgin(o) /\ r.status = "OPEN" => Unsold(r, h, o)

Guarded == (\E t \in Triggers : trig[t].state = "active") \/ (\E k \in tasks : k.kind = "place")
Within  == Guarded => row.qty <= held /\ saved.qty <= held
Plans   == \A k \in tasks : /\ k.kind = "place" => k.n <= held /\ \A x \in Attempts : ~Working(x)
                            /\ k.kind \in {"move", "resize"} /\ trig[k.id].state = "active" => k.n <= held
Enough  == /\ held >= 0
           /\ \A x \in Attempts : Working(x) => order[x].qty - order[x].filled <= held
           /\ \A t \in Triggers : /\ order[t].state = "OPEN" => order[t].qty - order[t].filled <= held
                                  /\ trig[t].state = "active" => trig[t].qty <= held
Inside  == \A x \in Foreign : order[x].state = "none"
Stock   == Inside /\ Backed(row, held, order) /\ Backed(saved, held, order) /\ Within /\ Plans /\ Enough
StockInv == Clean(slips) => Stock

(* Marked: what is named has been placed. *)

LEMMA MarkedInit == ASSUME Init PROVE Marked
<1>1. PICK g \in Ids :
        /\ g \in IF Armed THEN Triggers ELSE {None}
        /\ trig = [t \in Triggers |-> IF t = g THEN [state |-> "active", qty |-> held] ELSE NoTrigger]
        /\ saved = [status |-> "OPEN", qty |-> held, exitId |-> "none", tag |-> None, gtt |-> g,
                    pending |-> FALSE, entry |-> entry.open, fills |-> [x \in Orders |-> 0]]
  <2>1. (IF Armed THEN Triggers ELSE {None}) \subseteq Ids
    BY DEF Ids
  <2> QED BY <2>1, Zenon DEF Init
<1>2. row.gtt = g /\ saved.gtt = g /\ tasks = {}
  BY <1>1 DEF Init
<1>3. g # None => trig[g].state = "active"
  BY <1>1 DEF Ids
<1> QED BY <1>2, <1>3 DEF Marked

LEMMA MarkedKept ==
  ASSUME ExitTypeOK, Marked, \A t \in Triggers : trig[t].state # "none" => trig'[t].state # "none",
         row'.gtt \in {None, row.gtt}, saved'.gtt \in {None, saved.gtt, row.gtt},
         \A k \in tasks' : k.kind \in {"placed", "move", "resize"} => k \in tasks \/ (k.id = row.gtt /\ row.gtt # None)
  PROVE  Marked'
<1>1. /\ row.gtt = None \/ row.gtt \in Triggers
      /\ saved.gtt = None \/ saved.gtt \in Triggers
  BY DEF ExitTypeOK, RowType, Ids
<1>2. \A k \in tasks : k.kind \in {"placed", "move", "resize"} => k.id \in Triggers
  BY TaskFields DEF ExitTypeOK
<1> QED BY <1>1, <1>2 DEF Marked

LEMMA ConsumptionMarked ==
  ASSUME ExitTypeOK, Marked, NEW r, NEW x, NEW v, Consumption(r, x, v)
  PROVE  Marked'
<1>1. /\ Consumed(r, x, v).gtt = row.gtt /\ r.gtt = row.gtt
  BY ConsumedCases DEF Consumption, SameStop
<1>2. row'.gtt = row.gtt /\ saved'.gtt \in {saved.gtt, row.gtt} /\ UNCHANGED trig
  BY <1>1 DEF Consumption, Save
<1>3. \A k \in tasks' : k.kind \in {"placed", "move", "resize"} => k \in tasks \/ (k.id = row.gtt /\ row.gtt # None)
  BY <1>1 DEF Consumption, Follow, Task
<1> QED BY <1>2, <1>3, MarkedKept

LEMMA ConsumeEntryMarked ==
  ASSUME ExitTypeOK, Marked, UNCHANGED trig, NEW s, NEW by, ConsumeEntry(s, by)
  PROVE  Marked'
<1>1. row'.gtt = row.gtt /\ saved'.gtt \in {saved.gtt, row.gtt}
  BY ConsumeEntryRow DEF StopRow, SameStop
<1>2. \A k \in tasks' : k \in tasks \/ k.kind = "subscribe"
  BY ConsumeEntryRow DEF Protect
<1> QED BY <1>1, <1>2, MarkedKept

LEMMA CancelStates ==
  ASSUME ExitTypeOK, NEW u, NEW c \in CancelOutcomes(u), trig' = c.trig
  PROVE  \A t \in Triggers : /\ trig[t].state # "none" => trig'[t].state # "none"
                             /\ trig'[t].state = "active" => trig[t].state = "active" /\ trig'[t].qty = trig[t].qty
BY DEF CancelOutcomes, Deleted, ExitTypeOK

LEMMA TaskMarked ==
  ASSUME ExitTypeOK, Marked, NEW k \in tasks,
         Resize(k) \/ Cleanup(k) \/ Arm(k) \/ PlaceArrives(k) \/ PlaceReply(k) \/ Move(k)
  PROVE  Marked'
<1>1. CASE Resize(k)
  <2>1. UNCHANGED <<row, saved>> /\ tasks' \subseteq tasks
    BY <1>1 DEF Resize
  <2> QED BY <1>1, <2>1, ResizeStates, MarkedKept
<1>2. CASE Cleanup(k)
  <2>1. PICK c \in CancelOutcomes(k.id) : trig' = c.trig
    BY <1>2 DEF Cleanup
  <2>2. row'.gtt = None /\ saved'.gtt \in {saved.gtt, None} /\ tasks' \subseteq tasks
    BY <1>2 DEF Cleanup, Save, ExitTypeOK, RowType
  <2> QED BY <2>1, <2>2, CancelStates, MarkedKept
<1>3. CASE Arm(k)
  <2>1. row'.gtt = row.gtt /\ saved'.gtt \in {saved.gtt, row.gtt} /\ UNCHANGED trig
    BY <1>3 DEF Arm, SaveStrict, ExitTypeOK, RowType, broker
  <2>2. \A j \in tasks' : j.kind \in {"placed", "move", "resize"} => j \in tasks \/ (j.id = row.gtt /\ row.gtt # None)
    BY <1>3 DEF Arm
  <2> QED BY <2>1, <2>2, MarkedKept
<1>4. CASE PlaceArrives(k)
  <2>1. k \in TaskType /\ k.id \in Triggers
    BY <1>4, TaskFields DEF PlaceArrives, ExitTypeOK
  <2>2. \A t \in Triggers : trig'[t].state = IF t = k.id THEN "active" ELSE trig[t].state
    BY <1>4, <2>1 DEF PlaceArrives, ExitTypeOK
  <2>3. \A j \in tasks' : j \in tasks \/ j.id = k.id
    BY <1>4, <2>1 DEF PlaceArrives, TaskType
  <2>4. \A j \in tasks' : j.kind \in {"placed", "move", "resize"} => trig'[j.id].state # "none"
    BY <2>1, <2>2, <2>3, TaskFields DEF Marked, ExitTypeOK
  <2>5. UNCHANGED <<row, saved>> /\ row.gtt \in Ids /\ saved.gtt \in Ids
    BY <1>4 DEF PlaceArrives, ExitTypeOK, RowType
  <2> QED BY <2>2, <2>4, <2>5 DEF Marked, Ids
<1>5. CASE PlaceReply(k)
  <2>1. UNCHANGED trig /\ tasks' \subseteq tasks
    BY <1>5 DEF PlaceReply, broker
  <2>2. CASE UNCHANGED <<row, saved>>
    BY <2>1, <2>2, MarkedKept
  <2>3. CASE k.kind = "placed" /\ SaveStrict([row EXCEPT !.gtt = k.id, !.pending = FALSE])
    <3>1. row'.gtt = k.id /\ saved'.gtt = k.id /\ trig[k.id].state # "none"
      BY <2>3 DEF SaveStrict, ExitTypeOK, RowType, Marked
    <3> QED BY <2>1, <3>1 DEF Marked
  <2> QED BY <1>5, <2>2, <2>3 DEF PlaceReply
<1>6. CASE Move(k)
  <2>1. tasks' \subseteq tasks
    BY <1>6 DEF Move
  <2> QED BY <1>6, <2>1, MoveFields, MarkedKept
<1> QED BY <1>1, <1>2, <1>3, <1>4, <1>5, <1>6

LEMMA WalkMarked ==
  ASSUME ExitTypeOK, Marked,
         \/ Recover \/ (Bail /\ UNCHANGED seen) \/ Start \/ CancelEntry \/ Protected \/ Look \/ Cancel \/ Status
         \/ Unanswered \/ NothingHeld \/ Submit \/ Reply \/ ScanRead \/ ScanApply \/ Trail \/ \E x \in Orders : AttributeStart(x)
  PROVE  Marked'
<1>1. \A t \in Triggers : trig[t].state # "none" => trig'[t].state # "none"
  <2>1. CASE Cancel
    <3>1. PICK c \in CancelOutcomes(exit.old) : trig' = c.trig
      BY <2>1 DEF Cancel
    <3> QED BY <3>1, CancelStates
  <2>2. CASE UNCHANGED trig
    BY <2>2
  <2> QED BY <2>1, <2>2 DEF Recover, Bail, Start, CancelEntry, Protected, Look, Status, Unanswered, NothingHeld,
                            Submit, Reply, ScanRead, ScanApply, Trail, AttributeStart, broker
<1>2. row'.gtt \in {None, row.gtt} /\ saved'.gtt \in {None, saved.gtt, row.gtt}
  <2>1. CASE UNCHANGED <<row, saved>>
    BY <2>1
  <2>2. CASE Start \/ Unanswered
    BY <2>2 DEF Start, Unanswered, SaveStrict, Save, Forget, ExitTypeOK, RowType
  <2>3. CASE Submit
    <3>1. Shrunk \in RowType /\ Shrunk.gtt = row.gtt
      BY <2>3, ShrunkType DEF Submit, Shrunk, ExitTypeOK, RowType
    <3>2. \A x \in Attempts : [Shrunk EXCEPT !.exitId = "submitting", !.tag = x].gtt = row.gtt
      BY <3>1 DEF RowType
    <3> QED BY <2>3, <3>1, <3>2 DEF Submit, SaveStrict
  <2>4. CASE Reply
    <3>1. PICK id : Save(Forget(IF Live THEN [row EXCEPT !.exitId = id] ELSE row))
      BY <2>4 DEF Reply
    <3> QED BY <3>1 DEF Save, Forget, ExitTypeOK, RowType
  <2>5. CASE ScanApply
    BY <2>5 DEF ScanApply, Save, ExitTypeOK, RowType
  <2> QED BY <2>1, <2>2, <2>3, <2>4, <2>5 DEF Recover, Bail, CancelEntry, Protected, Look, Cancel, Status, NothingHeld,
                                             ScanRead, Trail, AttributeStart
<1>3. \A k \in tasks' : k.kind \in {"placed", "move", "resize"} => k \in tasks \/ (k.id = row.gtt /\ row.gtt # None)
  <2>1. CASE Recover
    BY <2>1 DEF Recover, Protect
  <2>2. CASE NothingHeld \/ ScanApply \/ Trail \/ \E x \in Orders : AttributeStart(x)
    BY <2>2 DEF NothingHeld, ScanApply, Trail, AttributeStart, Task
  <2> QED BY <2>1, <2>2 DEF Bail, Start, CancelEntry, Protected, Look, Cancel, Status, Unanswered, Submit, Reply, ScanRead
<1> QED BY <1>1, <1>2, <1>3, MarkedKept

LEMMA BrokerMarked == ASSUME ExitTypeOK, Marked, Broker PROVE Marked'
<1>1. UNCHANGED <<row, saved, tasks>>
  BY DEF Broker, EntryFill, EntryEnd, Accept, Fill, Die, Fire, Delete, Sell, Engine
<1>2. \A t \in Triggers : trig[t].state # "none" => trig'[t].state # "none"
  <2>1. CASE UNCHANGED trig
    BY <2>1
  <2>2. ASSUME NEW u \in Triggers, Fire(u) \/ Delete(u)
        PROVE  \A t \in Triggers : trig[t].state # "none" => trig'[t].state # "none"
    BY <2>2 DEF Fire, Delete, Deleted, ExitTypeOK
  <2> QED BY <2>1, <2>2 DEF Broker, EntryFill, EntryEnd, Accept, Fill, Die, Sell
<1> QED BY <1>1, <1>2, MarkedKept

LEMMA MarkedStep == ASSUME ExitTypeOK, BookInv, Marked, [Next]_vars PROVE Marked'
<1>1. CASE Step
  <2>1. ASSUME NEW x \in Orders, Postback(x) \/ AttributeStart(x) PROVE Marked'
    BY <2>1, PostbackConsumes, ConsumptionMarked, WalkMarked
  <2>2. ASSUME NEW k \in tasks,
               \/ AttributeEnd(k) \/ Resize(k) \/ Cleanup(k) \/ Arm(k)
               \/ PlaceArrives(k) \/ PlaceReply(k) \/ Move(k)
        PROVE  Marked'
    <3>1. CASE AttributeEnd(k)
      BY <3>1, AttributeEndConsumes, ConsumptionMarked, MarkedKept
    <3> QED BY <2>2, <3>1, TaskMarked
  <2>3. CASE EntryUpdate \/ History
    BY <2>3, ConsumeEntryMarked, WalkMarked DEF EntryUpdate, History, broker
  <2>4. CASE \/ Recover \/ Start \/ CancelEntry \/ Protected \/ Look
             \/ Cancel \/ Status \/ Unanswered \/ NothingHeld \/ Submit \/ Reply \/ ScanRead \/ ScanApply \/ Trail
    BY <2>4, WalkMarked
  <2>5. CASE PollExit \/ Crash \/ Broker
    <3>1. CASE Crash
      BY <3>1 DEF Crash, broker, Marked
    <3> QED BY <2>5, <3>1, PollExitConsumes, ConsumptionMarked, BrokerMarked
  <2> QED BY <1>1, <2>1, <2>2, <2>3, <2>4, <2>5 DEF Step
<1>2. CASE UNCHANGED vars
  BY <1>2, MarkedKept DEF vars, broker
<1> QED BY <1>1, <1>2 DEF Next

THEOREM MarksHold == Spec => []Marked
<1>1. Init => Marked
  BY MarkedInit
<1>2. ExitTypeOK /\ BookInv /\ Marked /\ [Next]_vars => Marked'
  BY MarkedStep
<1> QED BY <1>1, <1>2, ExitTypesHold, BooksHold, PTL DEF Spec

(* Stock: what may still be sold is held. *)

LEMMA StockInit == ASSUME Init PROVE StockInv
<1>1. PICK g \in Ids :
        /\ trig = [t \in Triggers |-> IF t = g THEN [state |-> "active", qty |-> held] ELSE NoTrigger]
        /\ saved = [status |-> "OPEN", qty |-> held, exitId |-> "none", tag |-> None, gtt |-> g,
                    pending |-> FALSE, entry |-> entry.open, fills |-> [x \in Orders |-> 0]]
  <2>1. (IF Armed THEN Triggers ELSE {None}) \subseteq Ids
    BY DEF Ids
  <2> QED BY <2>1, Zenon DEF Init
<1>2. row = saved /\ row.qty = held /\ row.exitId = "none" /\ tasks = {}
  BY <1>1 DEF Init
<1>3. held \in Int /\ held >= 0
  BY TypeInit, LotsAssumption DEF Init, ExitTypeOK
<1>4. \A x \in Orders : order[x].state = "none" /\ order[x].filled = 0
  BY DEF Init, NoOrder
<1>5. \A t \in Triggers : trig[t].state = "active" => trig[t].qty = held
  BY <1>1 DEF NoTrigger
<1>6. Enough
  BY <1>3, <1>4, <1>5 DEF Enough, Working, Orders
<1>7. Backed(row, held, order) /\ Within /\ Plans /\ Inside
  BY <1>2, <1>3, <1>4 DEF Backed, Unsold, Within, Plans, Inside, Orders
<1> QED BY <1>2, <1>6, <1>7 DEF StockInv, Stock

\* A trigger that is active, or about to be, is the only one, so that none has sold.
LEMMA GuardedVirgin ==
  ASSUME StopInv, Unarmed(slips), Guarded
  PROVE  Virgin(order)
<1>1. \A t \in Triggers : trig[t].state # "fired"
  BY DEF Guarded, StopInv, StopState, OneAlive, TasksKept, PlaceKept, Placing, Alive
<1> QED BY <1>1 DEF StopInv, StopSteps, Unfired, NoOrder, Virgin

\* Where no trigger is alive, none has sold either.
LEMMA DeadVirgin == ASSUME StopInv, \A t \in Triggers : ~Alive(t) PROVE Virgin(order)
BY DEF StopInv, StopSteps, Unfired, NoOrder, Virgin, Alive

LEMMA BackedSame ==
  ASSUME NEW r, NEW q, NEW h, NEW o, Backed(r, h, o), SameHolding(r, q)
  PROVE  Backed(q, h, o)
BY DEF Backed, Unsold, SameHolding, Claimed

\* A row without a claim is covered by what is held, one that has not sold at all.
LEMMA Unclaimed ==
  ASSUME NEW r \in RowType, NEW h, NEW o, Unsold(r, h, o), r.exitId = "none"
  PROVE  r.qty <= h
BY NoneClaims DEF Unsold, Orders

(* What a step of the engine must leave true: the broker's orders it leaves alone. *)

LEMMA StockKept ==
  ASSUME ExitTypeOK, Stock, UNCHANGED <<held, order>>,
         Backed(row', held, order), Backed(saved', held, order),
         Guarded => row'.qty <= held /\ saved'.qty <= held,
         \A t \in Triggers : trig'[t].state = "active" => trig[t].state = "active" /\ trig'[t].qty <= held,
         \A k \in tasks' : \/ k \in tasks
                           \/ k.kind # "place" /\ (k.kind \in {"move", "resize"} /\ trig'[k.id].state = "active" => k.n <= held)
  PROVE  Stock'
<1>1. Guarded' => Guarded
  BY DEF Guarded
<1>2. Inside' /\ Enough' /\ Within'
  BY <1>1 DEF Stock, Inside, Enough, Within, Working
<1>3. Plans'
  <2>1. \A k \in tasks : k.kind \in {"move", "resize"} => k.id \in Triggers
    BY TaskFields DEF ExitTypeOK
  <2> QED BY <2>1 DEF Stock, Plans, Working
<1> QED BY <1>2, <1>3 DEF Stock

LEMMA TouchStock ==
  ASSUME ExitTypeOK, Stock, Touch,
         \A t \in Triggers : trig'[t].state = "active" => trig[t].state = "active" /\ trig'[t].qty <= held,
         \A k \in tasks' : \/ k \in tasks
                           \/ k.kind # "place" /\ (k.kind \in {"move", "resize"} /\ trig'[k.id].state = "active" => k.n <= held)
  PROVE  Stock'
<1>1. Backed(row', held, order) /\ Backed(saved', held, order)
  BY BackedSame DEF Touch, Stock
<1>2. Guarded => row'.qty <= held /\ saved'.qty <= held
  BY DEF Touch, SameHolding, Stock, Within
<1> QED BY <1>1, <1>2, StockKept DEF Touch

\* The claim that is resolved or made is the one the row has had, and consuming it takes
\* from the row what it took from the holding.
LEMMA BackedConsumed ==
  ASSUME NEW r \in RowType, NEW x \in Orders, NEW v, v.filled \in Int, NEW h \in Int, NEW o \in OrderType,
         Sound(v, o, x), Claimed(r, x), \A y \in Orders : r.fills[y] <= o[y].filled, Backed(r, h, o)
  PROVE  Backed(Consumed(r, x, v), h, o)
<1> DEFINE q == Consumed(r, x, v)
           d == v.filled - r.fills[x]
<1>1. /\ r.qty \in Int /\ \A y \in Orders : r.fills[y] \in Int /\ r.fills[y] >= 0 /\ o[y].filled \in Int
      /\ r.status \in {"OPEN", "CLOSED"} /\ (r.tag = None \/ (r.tag \in Attempts /\ r.tag \in Orders))
  BY LotsAssumption DEF RowType, OrderType, Orders
<1>2. /\ q.tag = r.tag
      /\ \/ /\ q.status = r.status /\ q.qty = r.qty /\ q.fills = r.fills
            /\ q.exitId = r.exitId \/ (q.exitId = "none" /\ v.state = "DEAD" /\ (v.filled = 0 \/ (r.status = "OPEN" /\ d <= 0)))
         \/ /\ q.status = "CLOSED"
         \/ /\ r.status = "OPEN" /\ d \in 1..(r.qty - 1) /\ q.status = "OPEN" /\ q.qty = r.qty - d
            /\ q.fills[x] = v.filled
            /\ q.exitId = IF v.state = "OPEN" THEN r.exitId ELSE "none"
  BY ConsumedCases
<1> HIDE DEF q
<1>3. d \in Int /\ v.filled <= o[x].filled /\ v.filled >= 0 /\ (v.state # "OPEN" => v.filled = o[x].filled)
  BY <1>1 DEF Sound
<1>4. SUFFICES ASSUME Virgin(o), q.status = "OPEN" PROVE Unsold(q, h, o)
  BY DEF Backed, q
<1>5. r.status = "OPEN" /\ Unsold(r, h, o)
  BY <1>2, <1>4 DEF Backed
<1>6. x = r.tag /\ x \in Attempts
  BY <1>1, <1>5, IdsAssumption DEF Unsold, Claimed, Orders
<1>7. CASE q.qty = r.qty /\ q.fills = r.fills /\ q.exitId = r.exitId
  BY <1>2, <1>5, <1>7 DEF Unsold, Claimed
<1>8. CASE /\ q.qty = r.qty /\ q.exitId = "none" /\ v.state = "DEAD" /\ (v.filled = 0 \/ d <= 0)
  <2>1. o[x].filled <= r.fills[x]
    BY <1>1, <1>3, <1>8
  <2>2. r.qty <= h
    BY <1>1, <1>5, <1>6, <2>1 DEF Unsold
  <2> QED BY <1>8, <2>2 DEF Unsold
<1>9. CASE /\ d \in 1..(r.qty - 1) /\ q.qty = r.qty - d /\ q.fills[x] = v.filled
           /\ q.exitId = IF v.state = "OPEN" THEN r.exitId ELSE "none"
  <2>1. r.qty <= h \/ r.qty <= h + o[x].filled - r.fills[x]
    BY <1>5, <1>6 DEF Unsold
  <2>2. q.qty <= h + o[x].filled - q.fills[x]
    BY <1>1, <1>3, <1>9, <2>1
  <2>3. CASE v.state = "OPEN"
    <3>1. q.exitId = r.exitId /\ Claimed(q, x)
      BY <1>2, <1>6, <1>9, <2>3 DEF Claimed
    <3> QED BY <1>2, <1>5, <1>6, <2>2, <3>1 DEF Unsold
  <2>4. CASE v.state # "OPEN"
    <3>1. q.qty <= h
      BY <1>1, <1>3, <1>9, <2>2, <2>4
    <3> QED BY <1>9, <2>4, <3>1 DEF Unsold
  <2> QED BY <2>3, <2>4
<1> QED BY <1>2, <1>4, <1>7, <1>8, <1>9

LEMMA ConsumptionStock ==
  ASSUME ExitTypeOK, BookInv, Stock, NEW r, NEW x, NEW v, Consumption(r, x, v), Backed(r, held, order)
  PROVE  Stock'
<1>1. /\ r \in RowType /\ x \in Orders /\ v.filled \in Int /\ Sound(v, order, x) /\ Claimed(r, x)
      /\ held \in Int /\ order \in OrderType /\ r.qty = row.qty /\ r.gtt = row.gtt
      /\ \A y \in Orders : r.fills[y] <= order[y].filled
  BY DEF Consumption, SameHolding, SameStop, BookInv, Accounted, ExitTypeOK, OrderType, RowType
<1> DEFINE q == Consumed(r, x, v)
<1>2. Backed(q, held, order)
  BY <1>1, BackedConsumed
<1>3. q.qty = row.qty \/ \E d \in 1..(row.qty - 1) : q.qty = row.qty - d
  BY <1>1, ConsumedCases
<1> HIDE DEF q
<1>4. row.qty \in Int /\ (q.qty <= row.qty)
  BY <1>3, LotsAssumption DEF ExitTypeOK, RowType
<1>5. Guarded => q.qty <= held /\ saved.qty <= held
  <2>1. q.qty \in Int
    BY <1>3, <1>4
  <2> QED BY <1>1, <1>4, <2>1 DEF Stock, Within
<1>6. row' = q /\ saved' \in {q, saved} /\ UNCHANGED <<held, order, trig>>
  BY DEF Consumption, Save, q
<1>7. \A k \in tasks' : \/ k \in tasks
                        \/ k.kind # "place" /\ (k.kind \in {"move", "resize"} /\ trig'[k.id].state = "active" => k.n <= held)
  <2>1. \A k \in tasks' : k \in tasks \/ (k.kind = "cancel" \/ (k.kind = "resize" /\ k.id = row.gtt /\ row.gtt # None /\ k.n = q.qty))
    BY <1>1 DEF Consumption, Follow, Task, q
  <2>2. row.gtt # None => row.gtt \in Triggers
    BY DEF ExitTypeOK, RowType, Ids
  <2> QED BY <1>5, <1>6, <2>1, <2>2 DEF Guarded
<1>8. \A t \in Triggers : trig'[t].state = "active" => trig[t].state = "active" /\ trig'[t].qty <= held
  BY <1>6 DEF Stock, Enough
<1> QED BY <1>2, <1>5, <1>6, <1>7, <1>8, StockKept DEF Stock

LEMMA PostbackStock ==
  ASSUME ExitTypeOK, BookInv, StockInv, NEW x \in Orders, Postback(x) PROVE StockInv'
BY PostbackConsumes, ConsumptionStock DEF StockInv, Stock

LEMMA PollExitStock == ASSUME ExitTypeOK, BookInv, StockInv, PollExit PROVE StockInv'
<1>1. PICK r, x, v : Consumption(r, x, v) /\ slips' = slips /\ r.exitId = x /\ Claimed(row, x)
  BY PollExitConsumes
<1>2. /\ r.status = row.status /\ r.qty = row.qty /\ r.tag = row.tag /\ r.fills = row.fills /\ x \in Orders
      /\ r.tag = None \/ r.tag \in Orders
  BY <1>1 DEF Consumption, SameHolding, ExitTypeOK, RowType, Orders
<1>3. ASSUME Backed(row, held, order) PROVE Backed(r, held, order)
  <2>1. SUFFICES ASSUME Virgin(order), row.status = "OPEN" PROVE Unsold(r, held, order)
    BY <1>2 DEF Backed
  <2>2. Unsold(row, held, order)
    BY <1>3, <2>1 DEF Backed
  <2>3. x = row.tag
    BY <1>1, <1>2, <2>2, IdsAssumption DEF Unsold, Claimed, Orders
  <2> QED BY <1>1, <1>2, <2>2, <2>3 DEF Unsold, Claimed
<1> QED BY <1>1, <1>3, ConsumptionStock DEF StockInv, Stock

\* A sale without a claim took the holding below the row, which no order of a trigger did:
\* so one of them has filled.
LEMMA AttributeEndStock == ASSUME ExitTypeOK, BookInv, StockInv, NEW k \in tasks, AttributeEnd(k) PROVE StockInv'
<1>1. SUFFICES ASSUME Clean(slips') PROVE Stock'
  BY DEF StockInv
<1>2. Stock
  BY <1>1 DEF StockInv, Clean, AttributeEnd, Slip
<1>3. CASE Touch /\ UNCHANGED <<entry, exit, trig, row, saved>> /\ tasks' \subseteq tasks
  BY <1>2, <1>3, TouchStock DEF Stock, Enough
<1>4. ASSUME NEW r, NEW x, NEW v, Consumption(r, x, v), r.exitId = x, order[x].state = "COMPLETE",
             held = row.qty - order[x].filled, "attributed" \in slips' \/ row.exitId = "none"
      PROVE  Stock'
  <2>1. /\ row.exitId = "none" /\ r.status = row.status /\ x \in Orders
        /\ order[x].filled > 0 /\ order[x].filled \in Int /\ row.qty \in Int /\ row \in RowType
    BY <1>1, <1>4, LotsAssumption DEF Clean, Consumption, SameHolding, BookInv, Fills, ExitTypeOK, RowType
  <2>2. ~(row.qty <= held)
    BY <1>4, <2>1
  <2>3. ~Unsold(row, held, order)
    BY <2>1, <2>2, Unclaimed
  <2>4. Backed(r, held, order)
    BY <1>2, <2>1, <2>3 DEF Stock, Backed
  <2> QED BY <1>2, <1>4, <2>4, ConsumptionStock
<1> QED BY <1>3, <1>4, AttributeEndConsumes

(* The tasks. *)

LEMMA MovedStock ==
  ASSUME ExitTypeOK, StockInv, NEW k \in tasks, Resize(k) \/ Move(k)
  PROVE  StockInv'
<1>1. SUFFICES ASSUME Clean(slips') PROVE Stock'
  BY DEF StockInv
<1>2. Stock
  BY <1>1 DEF StockInv, Resize, Move
<1>3. k.id \in Triggers /\ k.kind \in {"resize", "move"} /\ k \in TaskType
  BY TaskFields DEF Resize, Move, ExitTypeOK
<1>4. tasks' \subseteq tasks
  BY DEF Resize, Move
<1>5. \A t \in Triggers : trig'[t].state = trig[t].state
                          /\ (trig'[t].qty = trig[t].qty \/ (t = k.id /\ trig[t].state = "active" /\ trig'[t].qty = k.n))
  BY <1>3 DEF Resize, Move, ExitTypeOK
<1>6. \A t \in Triggers : trig'[t].state = "active" => trig[t].state = "active" /\ trig'[t].qty <= held
  BY <1>2, <1>3, <1>5 DEF Stock, Enough, Plans
<1> QED BY <1>2, <1>4, <1>6, TaskTouch, TouchStock

LEMMA CleanupStock == ASSUME ExitTypeOK, StockInv, NEW k \in tasks, Cleanup(k) PROVE StockInv'
<1>1. SUFFICES ASSUME Clean(slips') PROVE Stock'
  BY DEF StockInv
<1>2. Stock
  BY <1>1 DEF StockInv, Cleanup
<1>3. /\ UNCHANGED <<held, order>> /\ tasks' \subseteq tasks
      /\ \E c \in CancelOutcomes(k.id) : trig' = c.trig
  BY DEF Cleanup
<1>4. /\ row'.status \in {row.status, "CLOSED"} /\ row'.qty = row.qty /\ row'.exitId = row.exitId /\ row'.tag = row.tag
      /\ row'.fills = row.fills /\ saved' \in {saved, row'}
  BY DEF Cleanup, Save, ExitTypeOK, RowType
<1>5. Backed(row', held, order) /\ Backed(saved', held, order)
  BY <1>2, <1>4 DEF Stock, Backed, Unsold, Claimed
<1>6. \A t \in Triggers : trig'[t].state = "active" => trig[t].state = "active" /\ trig'[t].qty <= held
  BY <1>2, <1>3, CancelStates DEF Stock, Enough
<1>7. Guarded => row'.qty <= held /\ saved'.qty <= held
  BY <1>2, <1>4 DEF Stock, Within
<1> QED BY <1>2, <1>3, <1>5, <1>6, <1>7, StockKept

\* What is placed is the whole of a row that has neither sold nor is being sold.
LEMMA ArmStock == ASSUME ExitTypeOK, FenceInv, StopInv, StockInv, NEW k \in tasks, Arm(k) PROVE StockInv'
<1>1. SUFFICES ASSUME Clean(slips') PROVE Stock'
  BY DEF StockInv
<1>2. slips \subseteq slips' /\ UNCHANGED <<held, order, trig>>
  BY DEF Arm, Slip, broker
<1>3. Stock /\ "attributed" \notin slips /\ Unarmed(slips)
  BY <1>1, <1>2 DEF StockInv, Clean, Unarmed
<1>4. Touch
  BY TaskTouch
<1>5. \A t \in Triggers : trig'[t].state = "active" => trig[t].state = "active" /\ trig'[t].qty <= held
  BY <1>2, <1>3 DEF Stock, Enough
<1>6. CASE tasks' = tasks \ {k}
  BY <1>3, <1>4, <1>5, <1>6, TouchStock
<1>7. CASE row.gtt # None /\ tasks' = (tasks \ {k}) \cup {[kind |-> "move", id |-> row.gtt, n |-> row.qty, by |-> k.by]}
  <2>1. row.gtt \in Triggers
    BY <1>7 DEF ExitTypeOK, RowType, Ids
  <2>2. trig[row.gtt].state = "active" => row.qty <= held
    BY <1>3, <2>1 DEF Stock, Within, Guarded
  <2>3. \A j \in tasks' : j \in tasks \/ (j.kind = "move" /\ j.id = row.gtt /\ j.n = row.qty)
    BY <1>7
  <2> QED BY <1>2, <1>3, <1>4, <1>5, <2>2, <2>3, TouchStock
<1>8. ASSUME NEW u \in Triggers, row.gtt = None, ~row.pending,
             tasks' = (tasks \ {k}) \cup {[kind |-> "place", id |-> u, n |-> row.qty, by |-> k.by]},
             SaveStrict([row EXCEPT !.pending = TRUE]), Slip("rearm", Rival(k))
      PROVE  Stock'
  <2>1. ~Rival(k)
    BY <1>1, <1>8 DEF Slip, Clean
  <2>2. row.exitId = "none" /\ row.status = "OPEN"
    BY <2>1 DEF Rival, ExitTypeOK, RowType
  <2>3. \A t \in Triggers : ~Alive(t)
    BY <1>3, <1>8, <2>2, IdsAssumption DEF StopInv, StopState, Watched, Guards
  <2>4. row.qty <= held
    BY <1>3, <2>2, <2>3, DeadVirgin, Unclaimed DEF Stock, Backed, ExitTypeOK
  <2>5. \A x \in Attempts : ~Working(x)
    BY <1>3, <2>2, IdsAssumption DEF FenceInv, Fence, Claims
  <2>6. row'.qty = row.qty /\ saved' = row'
    BY <1>8 DEF SaveStrict, ExitTypeOK, RowType
  <2>7. Backed(row', held, order) /\ Backed(saved', held, order)
    BY <1>3, <1>4, BackedSame DEF Touch, Stock
  <2>8. Within' /\ Inside' /\ Enough'
    BY <1>2, <1>3, <2>4, <2>6 DEF Stock, Within, Inside, Enough, Working
  <2>9. Plans'
    <3>1. \A j \in tasks' : j \in tasks \/ (j.kind = "place" /\ j.n = row.qty)
      BY <1>8
    <3> QED BY <1>2, <1>3, <2>4, <2>5, <3>1 DEF Stock, Plans, Working
  <2> QED BY <1>2, <2>7, <2>8, <2>9 DEF Stock
<1> QED BY <1>6, <1>7, <1>8 DEF Arm

LEMMA PlaceArrivesStock ==
  ASSUME ExitTypeOK, StopInv, Marked, StockInv, NEW k \in tasks, PlaceArrives(k)
  PROVE  StockInv'
<1>1. SUFFICES ASSUME Clean(slips') PROVE Stock'
  BY DEF StockInv
<1>2. k.kind = "place" /\ UNCHANGED <<held, order, row, saved>> /\ slips \subseteq slips'
  BY DEF PlaceArrives, Slip
<1>3. Stock /\ k.n <= held /\ Guarded /\ row.qty <= held /\ saved.qty <= held
  BY <1>1, <1>2 DEF StockInv, Clean, Stock, Plans, Within, Guarded
<1>4. k \in TaskType /\ k.id \in Triggers
  BY <1>2, TaskFields DEF ExitTypeOK
<1>5. /\ \A t \in Triggers : t # k.id => trig'[t] = trig[t]
      /\ trig'[k.id].state = "active" /\ trig'[k.id].qty = k.n
  BY <1>4 DEF PlaceArrives, ExitTypeOK
<1>6. \A j \in tasks' : j \in tasks \/ j.kind = "placed"
  BY <1>4 DEF PlaceArrives, TaskType
<1>7. \A j \in tasks : j.kind \in {"move", "resize"} => j.id \in Triggers /\ j.id # k.id
  BY <1>2, TaskFields DEF ExitTypeOK, Marked, StopInv, StopSteps, Fresh
<1>8. Plans'
  BY <1>2, <1>3, <1>5, <1>6, <1>7 DEF Stock, Plans, Working
<1>9. Enough' /\ Within' /\ Inside'
  BY <1>2, <1>3, <1>4, <1>5 DEF Stock, Enough, Within, Inside, Working
<1> QED BY <1>2, <1>3, <1>8, <1>9 DEF Stock

LEMMA PlaceReplyStock == ASSUME ExitTypeOK, StockInv, NEW k \in tasks, PlaceReply(k) PROVE StockInv'
<1>1. tasks' \subseteq tasks /\ UNCHANGED <<trig, slips>>
  BY DEF PlaceReply, broker
<1> QED BY <1>1, TaskTouch, TouchStock DEF StockInv, Stock, Enough

(* The walk of the exit, the entry, the scan. *)

LEMMA WalkStock ==
  ASSUME ExitTypeOK, StockInv,
         \/ Recover \/ (Bail /\ UNCHANGED seen) \/ Start \/ CancelEntry \/ Protected \/ Look \/ Cancel \/ Status
         \/ Unanswered \/ NothingHeld \/ ScanRead \/ Trail \/ \E x \in Orders : AttributeStart(x)
  PROVE  StockInv'
<1>1. SUFFICES ASSUME Clean(slips') PROVE Stock'
  BY DEF StockInv
<1>2. Touch
  BY WalkTouch
<1>3. Stock
  BY <1>1, <1>2 DEF StockInv, Touch, Clean
<1>4. \A t \in Triggers : trig'[t].state = "active" => trig[t].state = "active" /\ trig'[t].qty <= held
  <2>1. CASE Cancel
    <3>1. PICK c \in CancelOutcomes(exit.old) : trig' = c.trig
      BY <2>1 DEF Cancel
    <3> QED BY <1>3, <3>1, CancelStates DEF Stock, Enough
  <2>2. CASE UNCHANGED trig
    BY <1>3, <2>2 DEF Stock, Enough
  <2> QED BY <2>1, <2>2 DEF Recover, Bail, Start, CancelEntry, Protected, Look, Status, Unanswered, NothingHeld,
                            ScanRead, Trail, AttributeStart, broker
<1>5. \A k \in tasks' : \/ k \in tasks
                        \/ k.kind # "place" /\ (k.kind \in {"move", "resize"} /\ trig'[k.id].state = "active" => k.n <= held)
  <2>1. CASE Recover
    BY <2>1 DEF Recover, Protect
  <2>2. CASE NothingHeld \/ \E x \in Orders : AttributeStart(x)
    BY <2>2 DEF NothingHeld, AttributeStart, Task
  <2>3. CASE Trail
    <3>1. row.gtt \in Triggers /\ UNCHANGED trig
      BY <2>3 DEF Trail, ExitTypeOK, RowType, Ids, broker
    <3>2. trig'[row.gtt].state = "active" => row.qty <= held
      BY <1>3, <3>1 DEF Stock, Within, Guarded
    <3>3. \A k \in tasks' : k \in tasks \/ (k.kind = "resize" /\ k.id = row.gtt /\ k.n = row.qty)
      BY <2>3 DEF Trail, Task
    <3> QED BY <3>2, <3>3
  <2> QED BY <2>1, <2>2, <2>3 DEF Bail, Start, CancelEntry, Protected, Look, Cancel, Status, Unanswered, ScanRead
<1> QED BY <1>2, <1>3, <1>4, <1>5, TouchStock

\* New evidence of the entry comes before anything of ours is ordered: unless an order of a
\* trigger has filled, all that was filled is held.
LEMMA ConsumeEntryStock ==
  ASSUME ExitTypeOK, BookInv, StopInv, StockInv, NEW by, NEW s \in EntryType, s.filled <= entry.filled, s.open \/ s = entry,
         ConsumeEntry(s, by), UNCHANGED <<held, entry, order, trig, slips>>
  PROVE  StockInv'
<1>1. SUFFICES ASSUME Clean(slips) PROVE Stock'
  BY DEF StockInv
<1>2. Stock /\ Unarmed(slips)
  BY <1>1 DEF StockInv, Clean, Unarmed
<1>3. \A k \in tasks' : k \in tasks \/ k.kind = "subscribe"
  BY ConsumeEntryCases
<1>4. \A t \in Triggers : trig'[t].state = "active" => trig[t].state = "active" /\ trig'[t].qty <= held
  BY <1>2 DEF Stock, Enough
<1>5. CASE UNCHANGED <<seen, row, saved>>
  BY <1>2, <1>3, <1>4, <1>5, StockKept DEF Stock, Within
<1>6. CASE /\ ~Done(entry, seen) /\ saved' = row'
           /\ row.status = "OPEN" \/ row' = row
           /\ row.status = "OPEN" => /\ row'.qty = s.filled /\ row'.status = "OPEN"
                                      /\ row'.exitId = row.exitId /\ row'.tag = row.tag /\ row'.fills = row.fills
  <2>1. \A x \in Attempts \cup Foreign : order[x].filled = 0
    BY <1>2, <1>6 DEF BookInv, EntryEnds, Fills, Stock, Inside, Orders
  <2>2. Virgin(order) => s.filled <= held
    BY <2>1 DEF Virgin, BookInv, Balance, Orders
  <2>3. Backed(row', held, order)
    BY <1>2, <1>6, <2>2 DEF Stock, Backed, Unsold
  <2>4. Guarded => row'.qty <= held
    BY <1>2, <1>6, <2>2, GuardedVirgin DEF Stock, Within
  <2> QED BY <1>2, <1>3, <1>4, <1>6, <2>3, <2>4, StockKept
<1> QED BY <1>5, <1>6, ConsumeEntryCases

LEMMA EntryUpdateStock == ASSUME ExitTypeOK, BookInv, StopInv, StockInv, EntryUpdate PROVE StockInv'
<1>1. PICK s \in {entry} \cup {[filled |-> f, open |-> TRUE] : f \in 1..entry.filled} : ConsumeEntry(s, "entry")
  BY DEF EntryUpdate
<1> QED BY <1>1, EntryEvidence, ConsumeEntryStock DEF EntryUpdate, broker

LEMMA HistoryStock == ASSUME ExitTypeOK, BookInv, StopInv, StockInv, History PROVE StockInv'
<1>1. CASE Bail /\ UNCHANGED <<seen, scan>>
  BY <1>1, WalkStock
<1>2. CASE ConsumeEntry(entry, "exit") /\ UNCHANGED <<broker, scan, slips>>
  <2>1. entry \in EntryType /\ entry.filled <= entry.filled
    BY LotsAssumption DEF ExitTypeOK, EntryType
  <2> QED BY <1>2, <2>1, ConsumeEntryStock DEF broker
<1> QED BY <1>1, <1>2 DEF History

LEMMA ScanApplyStock == ASSUME ExitTypeOK, StockInv, ScanApply PROVE StockInv'
<1>1. SUFFICES ASSUME Clean(slips') PROVE Stock'
  BY DEF StockInv
<1>2. UNCHANGED <<held, order, trig>> /\ slips \subseteq slips' /\ \A k \in tasks' : k \in tasks \/ k = Task("close", row.gtt, 0)
  BY ScanApplyCases
<1>3. Stock
  BY <1>1, <1>2 DEF StockInv, Clean
<1>4. \A t \in Triggers : trig'[t].state = "active" => trig[t].state = "active" /\ trig'[t].qty <= held
  BY <1>2, <1>3 DEF Stock, Enough
<1>5. CASE UNCHANGED <<row, saved>>
  BY <1>2, <1>3, <1>4, <1>5, StockKept DEF Stock, Within, Task
<1>6. CASE /\ scan \in 1..(row.qty - 1) /\ row'.qty = scan /\ row'.status = "OPEN" /\ saved' \in {saved, row'}
           /\ row'.exitId = row.exitId /\ row'.tag = row.tag /\ row'.fills = row.fills
           /\ row.status # "OPEN" => "reopened" \in slips'
  <2>1. row'.qty \in Int /\ row.qty \in Int /\ row'.qty <= row.qty /\ held \in Int /\ row.status = "OPEN"
    BY <1>1, <1>6, LotsAssumption DEF Clean, ExitTypeOK, RowType
  <2>2. Guarded => row'.qty <= held /\ saved'.qty <= held
    BY <1>3, <1>6, <2>1 DEF Stock, Within
  <2>3. Backed(row', held, order)
    <3>1. SUFFICES ASSUME Virgin(order) PROVE Unsold(row', held, order)
      BY DEF Backed
    <3>2. Unsold(row, held, order)
      BY <1>3, <2>1, <3>1 DEF Stock, Backed
    <3>3. row.tag \in Attempts => order[row.tag].filled \in Int /\ row.fills[row.tag] \in Int
      BY LotsAssumption DEF ExitTypeOK, RowType, Orders
    <3>4. row'.qty <= held \/ (row.tag \in Attempts /\ Claimed(row, row.tag) /\ row'.qty <= held + order[row.tag].filled - row.fills[row.tag])
      BY <2>1, <3>2, <3>3 DEF Unsold
    <3> QED BY <1>6, <3>2, <3>4 DEF Unsold, Claimed
  <2> QED BY <1>2, <1>3, <1>4, <1>6, <2>2, <2>3, StockKept DEF Stock, Task
<1> QED BY <1>5, <1>6, ScanApplyCases

LEMMA ReplyStock == ASSUME ExitTypeOK, StockInv, Reply PROVE StockInv'
<1>1. SUFFICES ASSUME Clean(slips) PROVE Stock'
  BY ReplyCases DEF StockInv
<1>2. Stock
  BY <1>1 DEF StockInv
<1>3. Backed(row', held, order)
  <2>1. SUFFICES ASSUME Virgin(order), row.status = "OPEN" PROVE Unsold(row', held, order)
    BY ReplyCases DEF Backed
  <2>2. Unsold(row, held, order)
    BY <1>2, <2>1 DEF Stock, Backed
  <2>3. row'.qty = row.qty /\ row'.tag = row.tag /\ row'.fills = row.fills /\ row'.exitId \in {"unknown", row.tag}
    BY <2>1, ReplyCases
  <2>4. Claimed(row', row'.tag)
    BY <2>3 DEF Claimed
  <2> QED BY <2>2, <2>3, <2>4 DEF Unsold
<1>4. Guarded => row'.qty <= held /\ saved'.qty <= held
  BY <1>2, ReplyCases DEF Stock, Within
<1>5. \A t \in Triggers : trig'[t].state = "active" => trig[t].state = "active" /\ trig'[t].qty <= held
  BY <1>2, ReplyCases DEF Stock, Enough
<1> QED BY <1>2, <1>3, <1>4, <1>5, ReplyCases, StockKept DEF Stock

LEMMA CrashStock == ASSUME StockInv, Crash PROVE StockInv'
<1>1. UNCHANGED <<held, order, trig, slips, saved>> /\ row' = saved /\ tasks' = {}
  BY DEF Crash, broker
<1>2. Guarded' => Guarded
  BY <1>1 DEF Guarded
<1> QED BY <1>1, <1>2 DEF StockInv, Stock, Within, Plans, Enough, Inside, Working

\* What goes out is at most what is held, and no trigger is being placed then.
LEMMA SubmitStock == ASSUME ExitTypeOK, BookInv, StopInv, StockInv, Submit PROVE StockInv'
<1>1. SUFFICES ASSUME Clean(slips') PROVE Stock'
  BY DEF StockInv
<1>2. /\ exit.pc = "look2" /\ held > 0 /\ slips \subseteq slips' /\ UNCHANGED <<held, entry, trig, seen, tasks>>
  BY SubmitCases
<1>3. Stock /\ Unarmed(slips) /\ held \in Int
  BY <1>1, <1>2 DEF StockInv, Clean, Unarmed, ExitTypeOK
<1>4. \A k \in tasks : k.kind # "place"
  BY <1>2, <1>3, NoPlacing DEF Placing
<1>5. \A t \in Triggers : trig'[t].state = "active" => trig[t].state = "active" /\ trig'[t].qty <= held
  BY <1>2, <1>3 DEF Stock, Enough
<1>6. CASE UNCHANGED <<order, row, saved, slips>>
  BY <1>2, <1>3, <1>5, <1>6, StockKept DEF Stock, Within
<1>7. ASSUME NEW x \in Attempts, order[x].state = "none", Shrunk \in RowType, Shrunk.status = "OPEN",
             row'.status = "OPEN", row'.qty = Shrunk.qty, row'.exitId = "submitting", row'.tag = x, row'.fills = row.fills,
             \/ /\ saved' = row'
                /\ order' = [order EXCEPT ![x] = [state |-> "transit", qty |-> Shrunk.qty, filled |-> 0]]
             \/ saved' \in {saved, Shrunk} /\ UNCHANGED order,
             row.status # "OPEN" => "reopened" \in slips'
      PROVE  Stock'
  <2>1. x \in Orders /\ x \notin Triggers /\ x \notin Foreign /\ order[x].filled = 0
    BY <1>7, IdsAssumption DEF Orders, BookInv, Fills
  <2>2. \A y \in Orders : order'[y].filled = order[y].filled /\ (y # x => order'[y] = order[y])
    BY <1>7, <2>1 DEF ExitTypeOK
  <2>3. order'[x] = order[x] \/ (order'[x].qty = Shrunk.qty /\ order'[x].filled = 0)
    BY <1>7, <2>1 DEF ExitTypeOK
  <2>4. Shrunk.qty <= held /\ Shrunk.qty <= row.qty /\ Shrunk.qty \in Int /\ row.qty \in Int
    BY <1>3, LotsAssumption DEF Shrunk, ExitTypeOK, RowType
  <2>5. \A r \in RowType : Backed(r, held, order) => Backed(r, held, order')
    <3>1. Virgin(order') => Virgin(order)
      BY <2>2 DEF Virgin, Orders
    <3>2. \A y \in Attempts : order'[y].filled = order[y].filled
      BY <2>2 DEF Orders
    <3> QED BY <3>1, <3>2 DEF Backed, Unsold
  <2>6. Backed(Shrunk, held, order)
    <3>1. row.status = "OPEN"
      BY <1>1, <1>7 DEF Clean
    <3>2. Shrunk.exitId = row.exitId /\ Shrunk.tag = row.tag
      BY DEF Shrunk, ExitTypeOK, RowType
    <3> QED BY <1>3, <2>4, <3>1, <3>2 DEF Stock, Backed, Unsold
  <2>7. Backed(row', held, order')
    BY <1>7, <2>4 DEF Backed, Unsold
  <2>8. Backed(saved', held, order')
    <3>1. saved \in RowType
      BY DEF ExitTypeOK
    <3> QED BY <1>3, <1>7, <2>5, <2>6, <2>7, <3>1 DEF Stock
  <2>9. Within'
    BY <1>2, <1>3, <1>7, <2>4 DEF Stock, Within, Guarded
  <2>10. Plans'
    BY <1>2, <1>3, <1>4 DEF Stock, Plans
  <2>11. Enough'
    <3>1. \A t \in Triggers : order'[t] = order[t]
      BY <2>1, <2>2 DEF Orders
    <3>2. \A y \in Attempts : y # x => order'[y] = order[y]
      BY <2>2 DEF Orders
    <3>3. Working(x)' => order'[x].qty - order'[x].filled <= held
      BY <1>7, <2>3, <2>4 DEF Working
    <3> QED BY <1>2, <1>3, <3>1, <3>2, <3>3 DEF Stock, Enough, Working
  <2>12. Inside'
    BY <1>3, <2>1, <2>2 DEF Stock, Inside, Orders
  <2> QED BY <1>2, <2>7, <2>8, <2>9, <2>10, <2>11, <2>12 DEF Stock
<1> QED BY <1>6, <1>7, SubmitCases

(* The broker. *)

LEMMA EntryFillStock == ASSUME ExitTypeOK, StockInv, EntryFill PROVE StockInv'
<1>1. SUFFICES ASSUME Clean(slips') PROVE Stock'
  BY DEF StockInv
<1>2. held' = held + 1 /\ UNCHANGED <<trig, order, saved, row, tasks>> /\ slips \subseteq slips'
  BY DEF EntryFill, Slip
<1>3. Stock
  BY <1>1, <1>2 DEF StockInv, Clean
<1>4. /\ held \in Int /\ row.qty \in Int /\ saved.qty \in Int /\ \A k \in tasks : k.kind \in {"place", "move", "resize"} => k.n \in Int
      /\ \A x \in Orders : order[x].qty \in Int /\ order[x].filled \in Int /\ row.fills[x] \in Int /\ saved.fills[x] \in Int
      /\ \A t \in Triggers : trig[t].qty \in Int
  BY TaskFields, LotsAssumption DEF ExitTypeOK, RowType
<1>5. Enough'
  BY <1>2, <1>3, <1>4 DEF Stock, Enough, Working, Orders
<1>6. Plans'
  BY <1>2, <1>3, <1>4 DEF Stock, Plans, Working
<1>7. Within' /\ Inside'
  BY <1>2, <1>3, <1>4 DEF Stock, Within, Guarded, Inside
<1>8. Backed(row, held', order) /\ Backed(saved, held', order)
  BY <1>2, <1>3, <1>4 DEF Stock, Backed, Unsold, Orders
<1> QED BY <1>2, <1>5, <1>6, <1>7, <1>8 DEF Stock

\* Of all that is at work, only one can fill.
LEMMA OneFills ==
  ASSUME FenceInv, StopInv, SellerInv, Stock, Clean(slips), NEW x \in Orders, order[x].state = "OPEN"
  PROVE  /\ \A y \in Attempts : Working(y) => y = x
         /\ \A t \in Triggers : order[t].state = "OPEN" => t = x
         /\ ~Guarded
         /\ x \in Attempts => Claims(row, x) /\ Claims(saved, x)
         /\ x \in Attempts \/ x \in Triggers
<1>1. "attributed" \notin slips /\ Unarmed(slips) /\ Undisturbed(slips)
  BY DEF Clean, Unarmed, Undisturbed
<1>2. x \in Attempts \/ x \in Triggers
  BY DEF Stock, Inside, Orders
<1>3. CASE x \in Attempts
  <2>1. Working(x)
    BY DEF Working
  <2>2. \A t \in Triggers : ~AtWork(t)
    BY <1>1, <1>3, <2>1 DEF SellerInv, Apart
  <2>3. \A y \in Attempts : Working(y) => y = x
    BY <1>1, <1>3, <2>1 DEF FenceInv, Fence, Claims
  <2>4. ~Guarded
    BY <1>3, <2>1, <2>2 DEF Guarded, AtWork, Stock, Plans
  <2> QED BY <1>1, <1>2, <1>3, <2>1, <2>2, <2>3, <2>4 DEF AtWork, FenceInv, Fence
<1>4. CASE x \in Triggers
  <2>1. trig[x].state = "fired" /\ AtWork(x)
    BY <1>4 DEF StopInv, StopSteps, Unfired, NoOrder, AtWork
  <2>2. \A t \in Triggers : AtWork(t) => t = x
    BY <1>1, <1>4, <2>1, WorkAlive DEF StopInv, StopState, OneAlive
  <2>3. \A y \in Attempts : ~Working(y)
    BY <1>1, <1>4, <2>1 DEF SellerInv, Apart
  <2>4. \A k \in tasks : k.kind # "place"
    BY <1>1, <1>4, <2>1 DEF StopInv, StopState, TasksKept, PlaceKept, Placing, Alive
  <2>5. \A t \in Triggers : trig[t].state # "active"
    BY <2>1, <2>2 DEF AtWork
  <2>6. ~Guarded
    BY <2>4, <2>5 DEF Guarded
  <2> QED BY <1>2, <1>4, <2>2, <2>3, <2>6, IdsAssumption DEF AtWork
<1> QED BY <1>2, <1>3, <1>4

LEMMA FillStock ==
  ASSUME ExitTypeOK, FenceInv, StopInv, SellerInv, BookInv, StockInv, NEW x \in Orders, Fill(x)
  PROVE  StockInv'
<1>1. SUFFICES ASSUME Clean(slips') PROVE Stock'
  BY DEF StockInv
<1>2. /\ order[x].state = "OPEN" /\ held' = held - 1 /\ UNCHANGED <<trig, saved, row, tasks, slips>>
      /\ order'[x].filled = order[x].filled + 1 /\ order'[x].qty = order[x].qty
      /\ \A y \in Orders : y # x => order'[y] = order[y]
      /\ order'[x].state \in {"OPEN", "COMPLETE"}
  BY DEF Fill, Engine, ExitTypeOK
<1>3. Stock /\ Clean(slips)
  BY <1>1, <1>2 DEF StockInv
<1>4. /\ \A y \in Attempts : Working(y) => y = x
      /\ \A t \in Triggers : order[t].state = "OPEN" => t = x
      /\ ~Guarded
      /\ x \in Attempts => Claims(row, x) /\ Claims(saved, x)
      /\ x \in Attempts \/ x \in Triggers
  BY <1>2, <1>3, OneFills
<1>5. /\ held \in Int /\ order[x].qty \in Int /\ order[x].filled \in Int /\ order[x].filled < order[x].qty /\ order[x].filled >= 0
      /\ order[x].qty - order[x].filled <= held
  BY <1>2, <1>3, <1>4, LotsAssumption DEF ExitTypeOK, Working, Stock, Enough
<1>6. ~Guarded'
  BY <1>2, <1>4 DEF Guarded
<1>7. Within'
  BY <1>6 DEF Within
<1>8. Plans'
  <2>1. \A k \in tasks : k.kind \in {"move", "resize"} => k.id \in Triggers
    BY TaskFields DEF ExitTypeOK
  <2> QED BY <1>2, <1>4, <2>1 DEF Plans, Guarded
<1>9. Inside'
  BY <1>2, <1>3, <1>4, IdsAssumption DEF Stock, Inside, Orders
<1>10. Enough'
  <2>1. held' >= 0 /\ order'[x].qty - order'[x].filled <= held'
    BY <1>2, <1>5
  <2>2. \A y \in Attempts : Working(y)' => y = x
    BY <1>2, <1>4 DEF Working, Orders
  <2>3. \A t \in Triggers : /\ order'[t].state = "OPEN" => t = x
                            /\ trig'[t].state # "active"
    BY <1>2, <1>4 DEF Guarded, Orders
  <2> QED BY <2>1, <2>2, <2>3 DEF Enough
<1>11. ASSUME NEW r \in RowType, Backed(r, held, order), x \in Attempts => Claims(r, x), r.fills[x] <= order[x].filled
       PROVE  Backed(r, held', order')
  <2>1. SUFFICES ASSUME Virgin(order'), r.status = "OPEN" PROVE Unsold(r, held', order')
    BY DEF Backed
  <2>2. x \in Attempts /\ x \notin Triggers
    BY <1>2, <1>4, <1>5, <2>1, IdsAssumption DEF Virgin
  <2>3. Unsold(r, held, order)
    BY <1>2, <1>11, <2>1, <2>2 DEF Virgin, Backed, Orders
  <2>4. r.tag = x /\ Claimed(r, x)
    BY <1>11, <2>2 DEF Claims, Claimed
  <2>5. r.qty \in Int /\ r.fills[x] \in Int
    BY LotsAssumption DEF RowType
  <2>6. r.qty <= held' + order'[x].filled - r.fills[x]
    BY <1>2, <1>5, <1>11, <2>3, <2>4, <2>5 DEF Unsold
  <2> QED BY <2>2, <2>3, <2>4, <2>6 DEF Unsold
<1>12. Backed(row, held', order') /\ Backed(saved, held', order')
  <2>1. row.fills[x] <= order[x].filled /\ saved.fills[x] <= order[x].filled /\ row \in RowType /\ saved \in RowType
    BY DEF BookInv, Accounted, ExitTypeOK
  <2> QED BY <1>3, <1>4, <1>11, <2>1 DEF Stock
<1> QED BY <1>2, <1>7, <1>8, <1>9, <1>10, <1>12 DEF Stock

LEMMA BrokerStock ==
  ASSUME ExitTypeOK, FenceInv, StopInv, SellerInv, BookInv, StockInv, Broker
  PROVE  StockInv'
<1>1. ASSUME EntryEnd PROVE StockInv'
  BY <1>1 DEF EntryEnd, Engine, StockInv, Stock, Within, Plans, Guarded, Enough, Inside, Working
<1>2. ASSUME NEW x \in Orders, (x \in Attempts /\ Accept(x)) \/ Die(x) PROVE StockInv'
  <2>1. SUFFICES ASSUME Clean(slips') PROVE Stock'
    BY DEF StockInv
  <2>2. /\ UNCHANGED <<held, trig, saved, row, tasks, slips>>
        /\ \A y \in Orders : /\ order'[y].filled = order[y].filled /\ order'[y].qty = order[y].qty
                             /\ Working(y)' => Working(y)
                             /\ y # x => order'[y] = order[y]
        /\ order[x].state \in {"transit", "OPEN"} /\ (order'[x].state = "OPEN" => x \in Attempts)
    BY <1>2 DEF Accept, Die, Engine, Working, ExitTypeOK
  <2>3. Stock
    BY <2>1, <2>2 DEF StockInv
  <2>4. \A r : Backed(r, held, order) => Backed(r, held, order')
    BY <2>2 DEF Backed, Unsold, Virgin, Orders
  <2>5. Within' /\ Plans'
    BY <2>2, <2>3 DEF Stock, Within, Guarded, Plans, Orders
  <2>6. Enough'
    <3>1. \A t \in Triggers : order'[t].state = "OPEN" => order[t].state = "OPEN"
      BY <2>2, IdsAssumption DEF Orders
    <3> QED BY <2>2, <2>3, <3>1 DEF Stock, Enough, Orders
  <2>7. Inside'
    BY <2>2, <2>3 DEF Stock, Inside, Orders
  <2> QED BY <2>2, <2>3, <2>4, <2>5, <2>6, <2>7 DEF Stock
<1>3. ASSUME NEW t \in Triggers, Fire(t) PROVE StockInv'
  <2>1. SUFFICES ASSUME Clean(slips') PROVE Stock'
    BY DEF StockInv
  <2>2. /\ UNCHANGED <<held, saved, row, tasks, slips>> /\ trig[t].state = "active"
        /\ \A u \in Triggers : u # t => trig'[u] = trig[u]
        /\ trig'[t].state = "fired"
        /\ \A y \in Orders : y # t => order'[y] = order[y]
        /\ order'[t].state = "OPEN" /\ order'[t].filled = 0 /\ order'[t].qty = trig[t].qty
    BY <1>3 DEF Fire, Engine, ExitTypeOK, Orders
  <2>3. Stock /\ order[t].filled = 0 /\ trig[t].qty \in Int
    BY <2>1, <2>2, LotsAssumption DEF StockInv, StopInv, StopSteps, Unfired, NoOrder, ExitTypeOK
  <2>4. \A y \in Attempts \cup Foreign : order'[y] = order[y]
    BY <2>2, IdsAssumption DEF Orders
  <2>5. \A r : Backed(r, held, order) => Backed(r, held, order')
    BY <2>2, <2>3, <2>4 DEF Backed, Unsold, Virgin, Orders
  <2>6. Guarded' => Guarded
    BY <2>2 DEF Guarded
  <2>7. Within' /\ Inside'
    BY <2>2, <2>3, <2>4, <2>6 DEF Stock, Within, Inside
  <2>8. Plans'
    <3>1. \A k \in tasks : k.kind \in {"move", "resize"} => k.id \in Triggers
      BY TaskFields DEF ExitTypeOK
    <3> QED BY <2>2, <2>3, <2>4, <3>1 DEF Stock, Plans, Working
  <2>9. Enough'
    <3>1. order'[t].qty - order'[t].filled <= held
      BY <2>2, <2>3 DEF Stock, Enough
    <3>2. \A u \in Triggers : u # t => order'[u] = order[u]
      BY <2>2 DEF Orders
    <3> QED BY <2>2, <2>3, <2>4, <3>1, <3>2 DEF Stock, Enough, Working
  <2> QED BY <2>2, <2>3, <2>5, <2>7, <2>8, <2>9 DEF Stock
<1>4. ASSUME (\E t \in Triggers : Delete(t)) \/ \E x \in Foreign : Sell(x) PROVE StockInv'
  BY <1>4 DEF Delete, Sell, StockInv, Clean
<1> QED BY <1>1, <1>2, <1>3, <1>4, EntryFillStock, FillStock DEF Broker, Orders

LEMMA StockStep ==
  ASSUME ExitTypeOK, FenceInv, StopInv, SellerInv, BookInv, Marked, StockInv, [Next]_vars
  PROVE  StockInv'
<1>1. CASE Step
  <2>1. ASSUME NEW x \in Orders, Postback(x) \/ AttributeStart(x) PROVE StockInv'
    BY <2>1, PostbackStock, WalkStock
  <2>2. ASSUME NEW k \in tasks,
               \/ AttributeEnd(k) \/ Resize(k) \/ Cleanup(k) \/ Arm(k)
               \/ PlaceArrives(k) \/ PlaceReply(k) \/ Move(k)
        PROVE  StockInv'
    BY <2>2, AttributeEndStock, MovedStock, CleanupStock, ArmStock, PlaceArrivesStock, PlaceReplyStock
  <2>3. CASE \/ EntryUpdate \/ Recover \/ Start \/ CancelEntry \/ History \/ Protected \/ Look
             \/ Cancel \/ Status \/ Unanswered \/ NothingHeld \/ Submit \/ Reply
    BY <2>3, EntryUpdateStock, WalkStock, HistoryStock, SubmitStock, ReplyStock
  <2>4. CASE PollExit \/ ScanRead \/ ScanApply \/ Trail \/ Crash \/ Broker
    BY <2>4, PollExitStock, WalkStock, ScanApplyStock, CrashStock, BrokerStock
  <2> QED BY <1>1, <2>1, <2>2, <2>3, <2>4 DEF Step
<1>2. CASE UNCHANGED vars
  BY <1>2 DEF vars, broker, StockInv, Stock, Within, Plans, Guarded, Enough, Inside, Working
<1> QED BY <1>1, <1>2 DEF Next

\* The holding is never sold twice, however many attempts, triggers, lots and coroutines
\* there are, and whatever is lost, late or repeated: only the slips the property names
\* can lead to a short position.
THEOREM NeverSoldTwice == Spec => []NeverShort
<1>1. Init => StockInv
  BY StockInit
<1>2. /\ ExitTypeOK /\ FenceInv /\ StopInv /\ SellerInv /\ BookInv /\ Marked /\ StockInv /\ [Next]_vars
      => StockInv'
  BY StockStep
<1>3. StockInv => NeverShort
  BY DEF StockInv, Clean, Stock, Enough, NeverShort
<1> QED BY <1>1, <1>2, <1>3, ExitTypesHold, FenceHolds, StopsHold, SellersHold, BooksHold, MarksHold, PTL DEF Spec

=============================================================================
