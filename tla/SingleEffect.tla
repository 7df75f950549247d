---------------------------- MODULE SingleEffect ----------------------------
(***************************************************************************)
(* What the execution path promises, without journal, gates or recovery:   *)
(* an intent reaches the broker at most once, only while Sterling records  *)
(* it as in flight, and what Sterling concludes about it is the truth.     *)
(*                                                                         *)
(* docs/architecture/EXECUTION_AUTHORITY.md states the promise; the source *)
(* is the life of a row of kite_order_intents, order_journal.py, and the   *)
(* one call of the broker in execution_service.submit_order.               *)
(***************************************************************************)
EXTENDS Naturals

CONSTANT Keys

VARIABLES
  verdict,   \* what Sterling records: unsent, in flight, an order exists, or none does
  effect     \* the orders the broker holds for the intent

Verdicts == {"unsent", "inflight", "order", "none"}

Init ==
  /\ verdict = [k \in Keys |-> "unsent"]
  /\ effect  = [k \in Keys |-> 0]

\* The submission is claimed.
Start(k) ==
  /\ verdict[k] = "unsent"
  /\ verdict' = [verdict EXCEPT ![k] = "inflight"]
  /\ UNCHANGED effect

\* The intent is given up before anything was sent.
Abandon(k) ==
  /\ verdict[k] = "unsent"
  /\ verdict' = [verdict EXCEPT ![k] = "none"]
  /\ UNCHANGED effect

\* The broker accepts the order.
Take(k) ==
  /\ verdict[k] = "inflight" /\ effect[k] = 0
  /\ effect' = [effect EXCEPT ![k] = 1]
  /\ UNCHANGED verdict

\* Sterling learns that there is an order.
Confirm(k) ==
  /\ verdict[k] = "inflight" /\ effect[k] = 1
  /\ verdict' = [verdict EXCEPT ![k] = "order"]
  /\ UNCHANGED effect

\* Sterling concludes that there is no order and never will be one.
Dismiss(k) ==
  /\ verdict[k] = "inflight" /\ effect[k] = 0
  /\ verdict' = [verdict EXCEPT ![k] = "none"]
  /\ UNCHANGED effect

Next == \E k \in Keys : Start(k) \/ Abandon(k) \/ Take(k) \/ Confirm(k) \/ Dismiss(k)

Spec == Init /\ [][Next]_<<verdict, effect>>
=============================================================================
