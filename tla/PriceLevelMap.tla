----------------------------- MODULE PriceLevelMap -----------------------------
(***************************************************************************)
(* One side of a book as src/common/price_level_map.hpp keeps it: a hash   *)
(* map from prices to quantities and, since a hash map has no order, the   *)
(* best price and its quantity beside it.  A removal that takes the best   *)
(* level away looks for the next one among all levels.                     *)
(*                                                                         *)
(* The template's ForBids is the side.  The hash map is a partial function *)
(* that refuses its empty key, price 0; add() ignores the refusal.         *)
(***************************************************************************)
EXTENDS Types

EMPTY_LEVEL == 0

NewLadder == [levels |-> [p \in {} |-> 0], best_price |-> INVALID_PRICE, best_qty |-> 0]

is_better(side, price, ladder) ==
  ladder.best_price = INVALID_PRICE \/ Better(side, price, ladder.best_price)

\* levels_.insert, and an existing level's new quantity
WithLevel(levels, price, qty) ==
  IF price = EMPTY_LEVEL THEN levels
  ELSE [p \in DOMAIN levels \cup {price} |-> IF p = price THEN qty ELSE levels[p]]

\* the loop of rescan(): whatever the order of the slots, the best price
Rescan(side, levels) ==
  IF DOMAIN levels = {} THEN NewLadder
  ELSE LET best == BestOf(side, DOMAIN levels)
       IN  [levels |-> levels, best_price |-> best, best_qty |-> levels[best]]

\* an existing level's quantity, and best_qty_ with it
SetQty(ladder, price, qty) ==
  [ladder EXCEPT !.levels = WithLevel(@, price, qty),
                 !.best_qty = IF price = ladder.best_price THEN qty ELSE @]

LadderAdd(side, ladder, price, qty) ==
  IF price \in DOMAIN ladder.levels
  THEN SetQty(ladder, price, (ladder.levels[price] + qty) % U32)
  ELSE LET inserted == [ladder EXCEPT !.levels = WithLevel(@, price, qty)]
       IN  IF is_better(side, price, ladder)
           THEN [inserted EXCEPT !.best_price = price, !.best_qty = qty]
           ELSE inserted

\* mutant: a level that disappears leaves the cached best price alone
LadderRemoveNoRescan(side, ladder, price, qty) ==
  IF price \notin DOMAIN ladder.levels THEN ladder
  ELSE IF ladder.levels[price] > qty THEN SetQty(ladder, price, ladder.levels[price] - qty)
  ELSE [ladder EXCEPT !.levels = Restrict(@, DOMAIN @ \ {price})]

LadderRemove(side, ladder, price, qty) ==
  IF price \notin DOMAIN ladder.levels THEN ladder
  ELSE IF ladder.levels[price] > qty THEN SetQty(ladder, price, ladder.levels[price] - qty)
  ELSE LET rest == Restrict(ladder.levels, DOMAIN ladder.levels \ {price})
       IN  IF price = ladder.best_price THEN Rescan(side, rest)
           ELSE [ladder EXCEPT !.levels = rest]
=============================================================================
