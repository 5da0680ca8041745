------------------------------ MODULE LadderBook ------------------------------
(***************************************************************************)
(* The order book with a PriceLevelMap per side beside its two std::maps:  *)
(* the replacement that docs/benchmarks.md measured and that               *)
(* price_level_map.hpp still offers.  The ladders get the calls            *)
(* order_book.hpp makes on bids_ and asks_.                                *)
(***************************************************************************)
EXTENDS OrderBook, PriceLevelMap

\* A ladder cannot hold a level at its hash map's empty key: where it stands
\* for a std::map, no order may have that price.
LadderFits == EMPTY_LEVEL \notin Prices

VARIABLE ladders   \* side -> the price level map

LadderInit == Init /\ ladders = [s \in Sides |-> NewLadder]

OnAdd(id, price, qty, side) ==
  ladders' = IF id \in DOMAIN orders THEN ladders
             ELSE [ladders EXCEPT ![side] = LadderAdd(side, @, price, qty)]

OnModify(id, price, qty) ==
  ladders' = IF id \notin DOMAIN orders THEN ladders
             ELSE LET o == orders[id]
                  IN  [ladders EXCEPT ![o.side] =
                         LadderAdd(o.side, LadderRemove(o.side, @, o.price, o.qty), price, qty)]

OnRemove(id, qty) ==
  ladders' = LET o == orders[id]
             IN  [ladders EXCEPT ![o.side] = LadderRemove(o.side, @, o.price, qty)]

LadderNext ==
  \/ \E id \in OrderIds, p \in Prices, q \in Qtys, s \in Sides :
        AddOrder(id, p, q, s) /\ OnAdd(id, p, q, s)
  \/ \E id \in OrderIds, p \in Prices, q \in Qtys :
        ModifyOrder(id, p, q) /\ OnModify(id, p, q)
  \/ \E id \in DOMAIN orders : CancelOrder(id) /\ OnRemove(id, orders[id].qty)
  \/ \E id \in DOMAIN orders, q \in Qtys : ApplyTrade(id, q) /\ OnRemove(id, q)
  \/ \E id \in OrderIds \ DOMAIN orders, q \in Qtys :
        (CancelOrder(id) \/ ApplyTrade(id, q)) /\ UNCHANGED ladders
  \/ Clear /\ ladders' = [s \in Sides |-> NewLadder]

LadderSpec == LadderInit /\ [][LadderNext]_<<vars, ladders>>
-----------------------------------------------------------------------------
\* Whatever the feed does, a price level map holds the levels of the std::map
\* it would stand for, and the best price and quantity it keeps beside them,
\* which only some removals look for again, are the book's cached ones.
LaddersAgree ==
  \A s \in Sides :
    ladders[s] = [levels |-> levels[s], best_price |-> cached[s].px, best_qty |-> cached[s].qty]
=============================================================================
