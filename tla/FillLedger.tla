----------------------------- MODULE FillLedger -----------------------------
(***************************************************************************)
(* The signed execution ledger of one account, kite_engine/fill_ledger.py. *)
(* Every write is one transaction under BEGIN IMMEDIATE that appends or    *)
(* updates increments and derives the inventory of the holding by          *)
(* replaying all of its increments, so every write is one action.          *)
(*                                                                         *)
(* A holding stands for (uid, symbol).  Prices and averages are exact      *)
(* rationals; the code's are floats, compared with a tolerance.            *)
(***************************************************************************)
EXTENDS Integers, FiniteSetsExt, Folds

CONSTANTS
  Holdings,   \* what is held
  Orders,     \* broker order ids
  Reports,    \* the cumulative evidence callers may forward about an order
  Charges,    \* what the broker may say an order cost
  Notes       \* what an operator may write when resolving a holding

ASSUME ReportsAreCumulative ==
  Reports \subseteq [order : Orders, holding : Holdings, side : {1, -1},
                     cum : Nat, value : Nat, at : Nat]

ASSUME ChargesAreCosts == Charges \subseteq Nat /\ Notes \subseteq STRING

VARIABLES
  rows,       \* kite_execution_increments
  inv,        \* kite_inventory
  conflicts,  \* kite_execution_conflicts
  heard,      \* history: every report that was forwarded
  doubts,     \* history: conflicts of a holding nobody resolved
  charged     \* history: the last charges of an order

vars == <<rows, inv, conflicts, heard, doubts, charged>>

-----------------------------------------------------------------------------
(* Rational amounts: <<numerator, denominator>>, reduced. *)

Abs(n) == IF n < 0 THEN -n ELSE n

Frac(n, d) ==
  LET g == Max({i \in 1..d : d % i = 0 /\ n % i = 0}) IN <<n \div g, d \div g>>

Plus(x, y)  == Frac(x[1] * y[2] + y[1] * x[2], x[2] * y[2])
Minus(x, y) == Frac(x[1] * y[2] - y[1] * x[2], x[2] * y[2])
Scale(x, n) == Frac(x[1] * n, x[2])
Over(x, n)  == Frac(x[1], x[2] * n)
Amount(n)      == <<n, 1>>

-----------------------------------------------------------------------------
(* Replay. *)

\* An increment: `at` is the exchange's time of it, or that of its arrival where the
\* exchange gave none; the id is the order of arrival.
RowsOf(o)     == {r \in rows : r.order = o}
RowsIn(S, h)  == {r \in S : r.holding = h}

\* Mutant: increments are replayed as they arrived.
Earlier_Arrival(r, t) == r.id < t.id

Earlier(r, t) == r.at < t.at \/ (r.at = t.at /\ r.id < t.id)

Latest(S) == CHOOSE r \in S : \A t \in S \ {r} : Earlier(t, r)

Flat == [net |-> 0, avg |-> Amount(0), realized |-> Amount(0)]

Opens(acc, r) == acc.net = 0 \/ (acc.net > 0) = (r.qty > 0)

Closing(acc, r) == IF Abs(acc.net) < Abs(r.qty) THEN Abs(acc.net) ELSE Abs(r.qty)

\* What increment r adds to the realized value.
Gain(acc, r) ==
  IF Opens(acc, r) THEN Amount(-r.fees)
  ELSE Plus(Amount(-r.fees),
            Scale(Minus(r.price, acc.avg), Closing(acc, r) * (IF acc.net > 0 THEN 1 ELSE -1)))

\* Mutant: what is left after crossing zero keeps the old average cost.
Average_Kept(acc, r) ==
  IF Opens(acc, r)
  THEN Over(Plus(Scale(acc.avg, Abs(acc.net)), Scale(r.price, Abs(r.qty))),
            Abs(acc.net) + Abs(r.qty))
  ELSE IF acc.net + r.qty = 0 THEN Amount(0) ELSE acc.avg

Average(acc, r) ==
  IF Opens(acc, r)
  THEN Over(Plus(Scale(acc.avg, Abs(acc.net)), Scale(r.price, Abs(r.qty))),
            Abs(acc.net) + Abs(r.qty))
  ELSE IF Abs(r.qty) > Abs(acc.net) THEN r.price
  ELSE IF acc.net + r.qty = 0 THEN Amount(0) ELSE acc.avg

Booked(r, acc) == [net      |-> acc.net + r.qty,
                   avg      |-> Average(acc, r),
                   realized |-> Plus(acc.realized, Gain(acc, r))]

\* The holding after the increments S, the latest last.
Replay(S) == MapThenFoldSet(Booked, Flat, LAMBDA r : r, Latest, S)

Before(S, r) == {t \in S : Earlier(t, r)}

-----------------------------------------------------------------------------
(* _project: the row of a holding, and the realized_delta of its increments. *)

Unknown == [present |-> FALSE, net |-> 0, avg |-> Amount(0), realized |-> Amount(0),
            costed |-> FALSE, reason |-> ""]

Init ==
  /\ rows = {}
  /\ inv = [h \in Holdings |-> Unknown]
  /\ conflicts = {}
  /\ heard = {}
  /\ doubts = [h \in Holdings |-> {}]
  /\ charged = [o \in Orders |-> 0]

\* Mutant: only the increment that arrived last has its realized value computed.
Restated_NewOnly(S, r) ==
  IF \E t \in S : t.id > r.id THEN r
  ELSE [r EXCEPT !.realized = Gain(Replay(Before(S, r)), r)]

Restated(S, r) == [r EXCEPT !.realized = Gain(Replay(Before(S, r)), r)]

Derived(S, reason) ==
  LET total == Replay(S) IN
  [present |-> TRUE, net |-> total.net, avg |-> total.avg, realized |-> total.realized,
   costed |-> S # {} /\ \A r \in S : r.costed, reason |-> reason]

\* Mutant: good evidence afterwards clears the flag.
Project_Clears(S, h, flag, kept) ==
  LET mine == RowsIn(S, h) IN
  /\ rows' = (S \ mine) \cup {Restated(mine, r) : r \in mine}
  /\ inv' = [inv EXCEPT ![h] = Derived(mine, flag)]

\* The increments become S; a reason is kept unless a new one is given.
Project(S, h, flag, kept) ==
  LET mine == RowsIn(S, h) IN
  /\ rows' = (S \ mine) \cup {Restated(mine, r) : r \in mine}
  /\ inv' = [inv EXCEPT ![h] = Derived(mine, IF flag # "" THEN flag ELSE kept)]

Flagged(h) == inv[h].reason # ""

-----------------------------------------------------------------------------
(* record. *)

\* The highest increment of the order, if any.
Tops(o)     == {r \in RowsOf(o) : \A t \in RowsOf(o) : t.cum <= r.cum}
PriorCum(o) == Max({0} \cup {r.cum : r \in RowsOf(o)})
PriorVal(o) == Max({0} \cup {r.value : r \in Tops(o)})

Stranger(e) == \E r \in Tops(e.order) : r.holding # e.holding \/ r.side # e.side

Same(e) == {r \in RowsOf(e.order) : r.cum = e.cum}

\* Mutant: an order id is taken for whatever contract and side it comes with.
Contradicts_AnyContract(e) ==
  /\ e.cum # 0
  /\ \/ \E r \in Same(e) : r.value # e.value
     \/ /\ Same(e) = {}
        /\ \/ e.cum < PriorCum(e.order) /\ e.value >= PriorVal(e.order)
           \/ e.cum > PriorCum(e.order) /\ e.value <= PriorVal(e.order)

\* Mutant: only the quantities are looked at.
Contradicts_AnyValue(e) == Stranger(e)

\* order_identity_conflict, cumulative_value_correction, nonmonotonic_cumulative_value
\* and nonpositive_incremental_value, in the order of the code.
Contradicts(e) ==
  \/ Stranger(e)
  \/ /\ e.cum # 0
     /\ \/ \E r \in Same(e) : r.value # e.value
        \/ /\ Same(e) = {}
           /\ \/ e.cum < PriorCum(e.order) /\ e.value >= PriorVal(e.order)
              \/ e.cum > PriorCum(e.order) /\ e.value <= PriorVal(e.order)

\* no_quantity, duplicate and older_cumulative are not news.
News(e) == ~Contradicts(e) /\ e.cum > PriorCum(e.order)

NewId == Cardinality(rows) + 1

\* Mutant: the whole cumulative quantity is booked as if it were one fill.
Increment_Cumulative(e) ==
  [id |-> NewId, order |-> e.order, holding |-> e.holding, side |-> e.side,
   cum |-> e.cum, value |-> e.value, qty |-> e.side * e.cum,
   price |-> Frac(e.value, e.cum), at |-> e.at, fees |-> 0, costed |-> FALSE,
   realized |-> Amount(0)]

Increment(e) ==
  LET q == e.cum - PriorCum(e.order)
      v == e.value - PriorVal(e.order)
  IN [id |-> NewId, order |-> e.order, holding |-> e.holding, side |-> e.side,
      cum |-> e.cum, value |-> e.value, qty |-> e.side * q, price |-> Frac(v, q),
      at |-> e.at, fees |-> 0, costed |-> FALSE, realized |-> Amount(0)]

RecordFill(e) ==
  /\ News(e)
  /\ Project(rows \cup {Increment(e)}, e.holding, "", inv[e.holding].reason)
  /\ heard' = heard \cup {e}
  /\ UNCHANGED <<conflicts, doubts, charged>>

\* _quarantine: remembered and flagged, never booked.
Quarantine(e) ==
  /\ Contradicts(e)
  /\ conflicts' = conflicts \cup {e}
  /\ doubts' = [doubts EXCEPT ![e.holding] = @ \cup {e}]
  /\ Project(rows, e.holding, "conflict", inv[e.holding].reason)
  /\ heard' = heard \cup {e}
  /\ UNCHANGED charged

RecordBenign(e) ==
  /\ ~Contradicts(e) /\ ~News(e)
  /\ heard' = heard \cup {e}
  /\ UNCHANGED <<rows, inv, conflicts, doubts, charged>>

-----------------------------------------------------------------------------
(* apply_fees and resolve. *)

\* Mutant: the charges are put on the last increment and earlier ones are left alone.
Costed_LastOnly(r, o, fees) ==
  [r EXCEPT !.fees = IF r.cum = PriorCum(o) THEN fees ELSE @, !.costed = TRUE]

\* The whole charge of an order rests on its last increment.
Costed(r, o, fees) ==
  [r EXCEPT !.fees = IF r.cum = PriorCum(o) THEN fees ELSE 0, !.costed = TRUE]

ApplyFees(o, h, fees) ==
  LET mine == RowsIn(RowsOf(o), h) IN
  /\ mine # {}
  /\ Project((rows \ mine) \cup {Costed(r, o, fees) : r \in mine}, h, "", inv[h].reason)
  /\ charged' = [charged EXCEPT ![o] = fees]
  /\ UNCHANGED <<conflicts, heard, doubts>>

\* The note takes the place of the reason before the holding is projected.
Resolve(h, note) ==
  /\ inv[h].present
  /\ Project(rows, h, "", note)
  /\ doubts' = [doubts EXCEPT ![h] = {}]
  /\ UNCHANGED <<conflicts, heard, charged>>

-----------------------------------------------------------------------------
Next ==
  \/ \E e \in Reports : RecordFill(e) \/ Quarantine(e) \/ RecordBenign(e)
  \/ \E o \in Orders, h \in Holdings, fees \in Charges : ApplyFees(o, h, fees)
  \/ \E h \in Holdings, note \in Notes : Resolve(h, note)

Spec == Init /\ [][Next]_vars

-----------------------------------------------------------------------------
(* Correctness. *)

Positive == Nat \ {0}

Increments ==
  [id : Nat, order : Orders, holding : Holdings, side : {1, -1}, cum : Nat, value : Nat,
   qty : Int, price : Positive \X Positive, at : Nat, fees : Nat, costed : BOOLEAN,
   realized : Int \X Int]

Reasons == Notes \cup {"", "conflict"}

\* Types of the tables; a fill has a positive price.
LedgerTypeOK ==
  /\ rows \subseteq Increments
  /\ inv \in [Holdings -> [present : BOOLEAN, net : Int, avg : Int \X Int, realized : Int \X Int,
                           costed : BOOLEAN, reason : Reasons]]
  /\ conflicts \subseteq Reports
  /\ doubts \in [Holdings -> SUBSET Reports]
  /\ charged \in [Orders -> Nat]

\* The increments of an order are one ladder: one holding and side, and quantity and
\* value grow together (fill_ledger.record).
OneLadder ==
  \A r, t \in rows :
    r.order = t.order =>
      /\ r.holding = t.holding /\ r.side = t.side
      /\ r.cum = t.cum => r = t
      /\ r.cum < t.cum <=> r.value < t.value

Sum(S, F) == FoldFunctionOnSet(Plus, Amount(0), F, S)
Worth(r) == Scale(r.price, r.qty)

\* No fill is lost or booked twice: the increments of an order add up to the last
\* cumulative figures of the broker, and no report that was not quarantined says more,
\* or something else (fill_ledger.record, "never compute a delta themselves").
BooksMatchBroker ==
  /\ \A r \in rows : \A t \in Tops(r.order) :
       /\ Sum(RowsOf(r.order), [x \in rows |-> Amount(x.qty)]) = Amount(t.side * t.cum)
       /\ Sum(RowsOf(r.order), [x \in rows |-> Worth(x)]) = Amount(t.side * t.value)
  /\ \A e \in heard \ conflicts :
       e.cum <= PriorCum(e.order) /\ \A r \in Same(e) : r.value = e.value

\* The double entry of average cost: realized value is what came in, less what was
\* paid and charged, plus what the holding stands for at its average - through
\* partial exits, closes and flips (fill_ledger._replay).
BooksBalance ==
  \A h \in Holdings :
    LET mine == RowsIn(rows, h) IN
    inv[h].realized =
      Minus(Scale(inv[h].avg, inv[h].net),
            Plus(Sum(mine, [r \in rows |-> Worth(r)]), Sum(mine, [r \in rows |-> Amount(r.fees)])))

\* What the daily-loss breaker adds up over the increments is what the inventory says:
\* a late increment restates the ones after it
\* (fill_ledger.realized_pnl, _project).
DayTotalsAgree ==
  \A h \in Holdings : Sum(RowsIn(rows, h), [r \in rows |-> r.realized]) = inv[h].realized

\* An order is charged once: charges that are restated, or come before the last fill,
\* are replaced and never added up (fill_ledger.apply_fees).
ChargedOnce ==
  \A r \in rows : Sum(RowsOf(r.order), [x \in rows |-> Amount(x.fees)]) = Amount(charged[r.order])

\* A contradiction is not forgotten: a holding with quarantined evidence that nobody
\* resolved is flagged, whatever is booked on it meanwhile
\* (fill_ledger._project, "must keep the holding flagged until an operator resolves it").
DoubtIsFlagged == \A h \in Holdings : doubts[h] # {} => Flagged(h)

\* The only report of its order, of a fill that has the exchange's time for itself.
Alone(e) ==
  /\ e.cum > 0 /\ e.value > 0
  /\ \A d \in heard : d.order = e.order \/ (d.holding = e.holding /\ d.at = e.at) => d = e

\* Such a report as an increment that came when the exchange had it.
OnTime(e) ==
  [id |-> e.at, qty |-> e.side * e.cum, price |-> Frac(e.value, e.cum), at |-> e.at,
   fees |-> charged[e.order]]

\* The books of h are those of the same reports on time.
AsOnTime(h) ==
  LET onTime == Replay({OnTime(e) : e \in {d \in heard : d.holding = h}}) IN
  /\ inv[h].net = onTime.net
  /\ inv[h].avg = onTime.avg
  /\ inv[h].realized = onTime.realized

\* Orders of a holding that are each heard of once, of different times, may be heard of,
\* and charged, in any order: a late one goes where the exchange had it and restates the
\* books after it (fill_ledger._canonical, "lets a late increment for an earlier fill land in its true place").
WholeOrdersCommute ==
  \A h \in Holdings : (\A e \in heard : e.holding = h => Alone(e)) => AsOnTime(h)
=============================================================================
