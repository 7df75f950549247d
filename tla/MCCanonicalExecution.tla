------------------------ MODULE MCCanonicalExecution ------------------------
(* Values for the constants of CanonicalExecution: one account, honest      *)
(* evidence at a price of 1.                                                *)
EXTENDS CanonicalExecution, TLC

CONSTANTS k1, k2, s1, s2, s3, a1, o1, o2

MCAccountOf == [k \in Keys |-> a1]
MCOrderIdOf == [k \in Keys |-> IF k = k1 THEN o1 ELSE o2]

\* Two calls race for k1, a third increases the same account with k2.
MCKeyOf == [s \in Calls |-> IF s = s3 THEN k2 ELSE k1]

MCEvidence ==
  {e \in [oid : OrderIds, status : BrokerStatuses, filled : 0..Max(Quantities),
          value : 0..Max(Quantities)] : e.value = e.filled}

\* The two calls for k1 are interchangeable.
SameIntent == Permutations({s1, s2})

\* Bounds of the runs: recovery meets no more than one call for each intent, and the
\* broker reports no more of the order of k2 than that it is open.
OneCallMeetsRecovery ==
  (\E a \in Accounts : rec[a] # "idle") => \E s \in {s1, s2} : pc[s] = "idle"
SecondWaits == k2 \in Keys => book[k2].status \in {"none", "OPEN"}
=============================================================================
