------------------------------- MODULE RiskEngine -------------------------------
(***************************************************************************)
(* The pre-trade checks of src/risk/risk_engine.hpp, in their order.  The  *)
(* engine keeps nothing but two counters, which are left out.  Quantities, *)
(* positions and limits are far from the width of their integers here.     *)
(***************************************************************************)
EXTENDS Types

CONSTANTS max_position, max_order_qty, max_notional, price_collar_ticks

Distance(a, b) == IF a < b THEN b - a ELSE a - b

NewPosition(order, position) ==
  IF order.side = Bid THEN position + order.qty ELSE position - order.qty

\* mutant: only the long limit is checked
WithinPositionLong(order, position) == NewPosition(order, position) <= max_position

WithinPosition(order, position) ==
  /\ NewPosition(order, position) <= max_position
  /\ NewPosition(order, position) >= -max_position

\* the collar is off when it is 0 or there is no reference price
WithinCollar(order, reference_price) ==
  \/ reference_price = INVALID_PRICE
  \/ price_collar_ticks = 0
  \/ Distance(order.price, reference_price) <= price_collar_ticks

\* validate; portfolio is a snapshot [position, exposure]
Validate(order, portfolio, reference_price) ==
  IF order.qty > max_order_qty THEN "RejectQty"
  ELSE IF ~WithinPosition(order, portfolio.position) THEN "RejectPosition"
  ELSE IF portfolio.exposure + order.qty * order.price > max_notional THEN "RejectNotional"
  ELSE IF ~WithinCollar(order, reference_price) THEN "RejectPriceCollar"
  ELSE "Accept"
=============================================================================
