-------------------------------- MODULE Portfolio --------------------------------
(***************************************************************************)
(* The account of src/portfolio/portfolio.hpp, with a tick value of one    *)
(* cent as the program sets it.  realized_pnl_ is never written.           *)
(***************************************************************************)
EXTENDS Types

VARIABLES position, cash   \* position_ and cash_

Init == position = 0 /\ cash = 0

ApplyFill(fill) ==
  \/ /\ fill.side = Bid
     /\ cash' = cash - fill.qty * fill.price
     /\ position' = position + fill.qty
  \/ /\ fill.side = Ask
     /\ cash' = cash + fill.qty * fill.price
     /\ position' = position - fill.qty

Abs(n) == IF n < 0 THEN -n ELSE n

\* what the risk checks read of the account at a reference price
Snapshot(price) == [position |-> position, exposure |-> Abs(position) * price]
=============================================================================
