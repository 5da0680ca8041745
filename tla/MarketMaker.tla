------------------------------- MODULE MarketMaker -------------------------------
(***************************************************************************)
(* The market-making strategy of src/strategy/market_maker.hpp.  Its state *)
(* is inventory_; the rest is a function of it and of the best bid and     *)
(* offer.  risk_skew_factor is one half, the value no option changes.      *)
(***************************************************************************)
EXTENDS Types

CONSTANTS base_spread_ticks, lot_size, max_position

VARIABLE inventory   \* inventory_

Init == inventory = 0

Signed(side, qty) == IF side = Bid THEN qty ELSE -qty

OnFill(fill) == inventory' = inventory + Signed(fill.side, fill.qty)

\* (best_bid + best_ask) / 2
Fair(top) == (top[Bid].px + top[Ask].px) \div 2

\* mutant: the factor is lost
SkewWhole == inventory

\* inventory_ * 0.5, truncated towards zero by the cast to int64_t
Skew == IF inventory >= 0 THEN inventory \div 2 ELSE -((-inventory) \div 2)

BidPx(top) == Fair(top) - base_spread_ticks - Skew
AskPx(top) == Fair(top) + base_spread_ticks - Skew

\* mutant: half a lot while there is inventory
QuoteHalf(side, px) ==
  [action |-> New, side |-> side, price |-> px % U32,
   qty |-> IF inventory = 0 THEN lot_size ELSE lot_size \div 2, orig |-> 0]

\* a new order of one lot; its price is cast to uint32_t
Quote(side, px) ==
  [action |-> New, side |-> side, price |-> px % U32, qty |-> lot_size, orig |-> 0]

\* The quotes for a new best bid and offer: none when a side is empty or a
\* price would not be positive; no bid at the long limit, no ask at the short.
OnBbo(top) ==
  IF \/ \E s \in Sides : top[s].px = INVALID_PRICE
     \/ BidPx(top) <= 0 \/ AskPx(top) <= 0
  THEN << >>
  ELSE (IF inventory < max_position THEN <<Quote(Bid, BidPx(top))>> ELSE << >>)
       \o (IF inventory > -max_position THEN <<Quote(Ask, AskPx(top))>> ELSE << >>)
=============================================================================
