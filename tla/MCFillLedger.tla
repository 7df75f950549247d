---------------------------- MODULE MCFillLedger ----------------------------
(* Reports for FillLedger. *)
EXTENDS FillLedger

CONSTANTS h1, h2, o1, o2, o3

Rep(o, h, s, c, v, t) ==
  [order |-> o, holding |-> h, side |-> s, cum |-> c, value |-> v, at |-> t]

\* A buy in parts, sold beyond flat by an order the exchange filled in between, and a
\* buy that makes the short smaller, or closes or flips it; the whole quantity again with
\* another value, which is less than that of a part; and another contract under the same
\* order id.
Contradictory ==
  {Rep(o1, h1, 1, 1, 10, 1), Rep(o1, h1, 1, 3, 24, 4), Rep(o1, h1, 1, 3, 9, 4),
   Rep(o1, h2, 1, 3, 24, 4), Rep(o2, h1, -1, 4, 46, 3), Rep(o3, h1, 1, 2, 30, 5)}
=============================================================================
