--------------------------- MODULE MCOrderJournal ---------------------------
(* Two signals of one account, two broker orders, evidence that is honest, *)
(* late, contradictory, overfilled or too little.                         *)
EXTENDS OrderJournal, TLC

CONSTANTS k1, k2, a1, o1, o2

MCAccountOf == [k \in Keys |-> a1]

Ev(o, st, f, v) == [oid |-> o, status |-> st, filled |-> f, value |-> v]

MCEvidence ==
  {Ev(o1, "OPEN", 0, 0), Ev(o1, "OPEN", 1, 1), Ev(o1, "COMPLETE", 2, 2),
   Ev(o1, "COMPLETE", 2, 1), Ev(o1, "CANCELLED", 1, 1), Ev(o1, "OPEN", 3, 4),
   Ev(o2, "COMPLETE", 1, 1), Ev(o2, "REJECTED", 0, 0)}

\* Bound of the model: the observations one row accumulates.
MaxObservations == 3
Bounded == \A k \in Keys : Cardinality(journal[k].seen) <= MaxObservations
=============================================================================
