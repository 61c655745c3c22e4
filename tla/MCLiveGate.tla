----------------------------- MODULE MCLiveGate -----------------------------
(***************************************************************************)
(* LiveGate on a small instance: interchangeable threads, orders on the    *)
(* notional limit, above it and without a price, shadow orders with and    *)
(* without a valid side, and profits above and on the loss limit.          *)
(***************************************************************************)
EXTENDS LiveGate, TLC

Symmetry == Permutations(Client)

Preflight(q, p) ==
    [kind |-> "preflight", order_key |-> "k", quantity |-> q, price |-> p, side |-> "BUY"]
Shadow(side) ==
    [kind |-> "shadow", order_key |-> "k", quantity |-> 1, price |-> 1, side |-> side]

RequestSet == {Preflight(1, 2), Preflight(2, 2), Preflight(1, 0),
               [kind |-> "readiness", order_key |-> "k"], Shadow("SELL"), Shadow("HOLD")}
PnlSet == {-1, 0}
=============================================================================
