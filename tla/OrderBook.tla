------------------------------ MODULE OrderBook ------------------------------
(***************************************************************************)
(* The Level 2 order book of src/book/order_book.hpp: aggregated quantity  *)
(* per price on each side (bids_, asks_), the state of every live order    *)
(* (orders_), and a cache of the best price and quantity of each side,     *)
(* which add_order maintains incrementally and every other operation       *)
(* recomputes.                                                             *)
(*                                                                         *)
(* orders_ is a FlatHashMap; here it is a partial function, and the one    *)
(* visible quirk of the hash map, that key 0 (EmptyKey) is never found and *)
(* never stored, is kept.  Quantities are uint32_t: sums wrap modulo U32.  *)
(***************************************************************************)
EXTENDS Types

CONSTANTS OrderIds,  \* exchange order ids a feed may carry
          Prices,    \* prices a feed may carry
          Qtys       \* quantities a feed may carry

EmptyKey == 0

\* Nothing in the program keeps a feed from using the price UINT32_MAX, which
\* the book reserves: it is left out of the feed here (see the README).
ASSUME BookAssumption ==
  /\ OrderIds \subseteq Nat
  /\ Prices \subseteq 0 .. (INVALID_PRICE - 1)
  /\ Qtys \subseteq 0 .. (U32 - 1)

VARIABLES levels,  \* bids_ and asks_: side -> (price -> aggregated quantity)
          orders,  \* orders_: order id -> [price, qty, side]
          cached,  \* cached_bb_, cached_bbq_, cached_ba_, cached_baq_
          bbo      \* the optional BboUpdate the last operation returned

vars == <<levels, orders, cached, bbo>>

Add32(a, b) == (a + b) % U32
-----------------------------------------------------------------------------
(* One side of the book.                                                   *)

EmptyTop == [px |-> INVALID_PRICE, qty |-> 0]

\* the pair invalidate_cache computes for a side
TopOf(side, m) ==
  IF DOMAIN m = {} THEN EmptyTop
  ELSE [px |-> BestOf(side, DOMAIN m), qty |-> m[BestOf(side, DOMAIN m)]]

\* bids_[price] += qty; operator[] starts a new level at 0
AddToSide(m, price, qty) ==
  [p \in DOMAIN m \cup {price} |->
     IF p # price THEN m[p]
     ELSE Add32(IF price \in DOMAIN m THEN m[price] ELSE 0, qty)]

\* remove_from_side
RemoveFromSide(m, price, qty) ==
  IF price \notin DOMAIN m THEN m
  ELSE IF m[price] <= qty THEN Restrict(m, DOMAIN m \ {price})
  ELSE [m EXCEPT ![price] = @ - qty]
-----------------------------------------------------------------------------
(* The operations.                                                         *)

Init ==
  /\ levels = [s \in Sides |-> [p \in {} |-> 0]]
  /\ orders = [id \in {} |-> 0]
  /\ cached = [s \in Sides |-> EmptyTop]
  /\ bbo = None

\* mutant: only the prices are compared
MaybeBboUpdatePriceOnly ==
  bbo' = IF \A s \in Sides : cached'[s].px = cached[s].px THEN None ELSE {cached'}
\* mutant: the update is built from the values before the operation
MaybeBboUpdateOld == bbo' = IF cached' = cached THEN None ELSE {cached}

\* maybe_bbo_update: an update only when some cached field changed
MaybeBboUpdate == bbo' = IF cached' = cached THEN None ELSE {cached'}

\* invalidate_cache
InvalidateCache == cached' = [s \in Sides |-> TopOf(s, levels'[s])]

\* the early return of every operation: nothing changes, nullopt
Ignore == bbo' = None /\ UNCHANGED <<levels, orders, cached>>

\* mutant: the sentinel of an empty side is compared like a price
CacheOnAddNoSentinel(side, price, qty) ==
  IF Better(side, price, cached[side].px)
  THEN [px |-> price, qty |-> qty]
  ELSE IF price = cached[side].px
       THEN [px |-> price, qty |-> Add32(cached[side].qty, qty)]
       ELSE cached[side]

\* add_order's update of the cached best price and quantity of a side
CacheOnAdd(side, price, qty) ==
  IF Better(side, price, cached[side].px) \/ cached[side].px = INVALID_PRICE
  THEN [px |-> price, qty |-> qty]
  ELSE IF price = cached[side].px
       THEN [px |-> price, qty |-> Add32(cached[side].qty, qty)]
       ELSE cached[side]

\* mutant: key EmptyKey is stored like any other
InsertOrderAnyKey(id, o) ==
  [x \in DOMAIN orders \cup {id} |-> IF x = id THEN o ELSE orders[x]]

\* orders_.insert: key EmptyKey is refused, and add_order ignores the refusal
InsertOrder(id, o) ==
  IF id = EmptyKey THEN orders
  ELSE [x \in DOMAIN orders \cup {id} |-> IF x = id THEN o ELSE orders[x]]

AddOrder(id, price, qty, side) ==
  \/ id \in DOMAIN orders /\ Ignore
  \/ /\ id \notin DOMAIN orders
     /\ orders' = InsertOrder(id, [price |-> price, qty |-> qty, side |-> side])
     /\ levels' = [levels EXCEPT ![side] = AddToSide(@, price, qty)]
     /\ cached' = [cached EXCEPT ![side] = CacheOnAdd(side, price, qty)]
     /\ MaybeBboUpdate

ModifyOrder(id, price, qty) ==
  \/ id \notin DOMAIN orders /\ Ignore
  \/ /\ id \in DOMAIN orders
     /\ LET o == orders[id] IN
          levels' = [levels EXCEPT ![o.side] =
                       AddToSide(RemoveFromSide(@, o.price, o.qty), price, qty)]
     /\ orders' = [orders EXCEPT ![id].price = price, ![id].qty = qty]
     /\ InvalidateCache
     /\ MaybeBboUpdate

CancelOrder(id) ==
  \/ id \notin DOMAIN orders /\ Ignore
  \/ /\ id \in DOMAIN orders
     /\ LET o == orders[id] IN
          levels' = [levels EXCEPT ![o.side] = RemoveFromSide(@, o.price, o.qty)]
     /\ orders' = Restrict(orders, DOMAIN orders \ {id})
     /\ InvalidateCache
     /\ MaybeBboUpdate

\* mutant: the order forgets to shrink on a partial execution
OrdersAfterTradeKeepsQty(id, qty) ==
  IF qty >= orders[id].qty THEN Restrict(orders, DOMAIN orders \ {id})
  ELSE orders

\* the order is erased when fully traded, otherwise it shrinks
OrdersAfterTrade(id, qty) ==
  IF qty >= orders[id].qty THEN Restrict(orders, DOMAIN orders \ {id})
  ELSE [orders EXCEPT ![id].qty = @ - qty]

\* The level loses the traded quantity as reported, even when it is more than
\* the order had left.
ApplyTrade(id, qty) ==
  \/ id \notin DOMAIN orders /\ Ignore
  \/ /\ id \in DOMAIN orders
     /\ LET o == orders[id] IN
          levels' = [levels EXCEPT ![o.side] = RemoveFromSide(@, o.price, qty)]
     /\ orders' = OrdersAfterTrade(id, qty)
     /\ InvalidateCache
     /\ MaybeBboUpdate

\* clear() returns void: its caller never sees an update
Clear ==
  /\ levels' = [s \in Sides |-> [p \in {} |-> 0]]
  /\ orders' = [id \in {} |-> 0]
  /\ cached' = [s \in Sides |-> EmptyTop]
  /\ bbo' = None

\* is_valid and midprice, which the trading loop reads
IsValid == \A s \in Sides : DOMAIN levels[s] # {}
Midprice == IF IsValid THEN (cached[Bid].px + cached[Ask].px) \div 2 ELSE 0
-----------------------------------------------------------------------------
(* The book driven by any feed.                                            *)

Next ==
  \/ \E id \in OrderIds, p \in Prices, q \in Qtys, s \in Sides :
        AddOrder(id, p, q, s)
  \/ \E id \in OrderIds, p \in Prices, q \in Qtys : ModifyOrder(id, p, q)
  \/ \E id \in OrderIds : CancelOrder(id)
  \/ \E id \in OrderIds, q \in Qtys : ApplyTrade(id, q)
  \/ Clear

Spec == Init /\ [][Next]_vars
-----------------------------------------------------------------------------
(* Properties.                                                             *)

\* The types of bids_, asks_, orders_, the cache and the returned update.
OrderStates == [price : Prices, qty : Uint32, side : Sides]
Tops == [Sides -> [px : Prices \cup {INVALID_PRICE}, qty : Uint32]]

TypeOK ==
  /\ levels = [s \in Sides |-> levels[s]]
  /\ \A s \in Sides : \E P \in SUBSET Prices : levels[s] \in [P -> Uint32]
  /\ \E I \in SUBSET (OrderIds \ {EmptyKey}) : orders \in [I -> OrderStates]
  /\ cached \in Tops
  /\ \A a, b \in bbo : a \in Tops /\ a = b

\* The cached best prices and quantities are those of the levels, for any
\* feed whatever: the incremental update of add_order agrees with the
\* recomputation of invalidate_cache (README "Cached BBO"), also when a
\* level's quantity wraps.
CacheCoherent == \A s \in Sides : cached[s] = TopOf(s, levels[s])

\* Every level holds exactly the quantity of the live orders at its price, and
\* there is no level without an order (docs/architecture.md:81 "price ->
\* aggregated qty").  This takes a feed whose trades are no larger than their
\* orders; NativeFeed and ItchFeed are such feeds.
OrdersAt(s, p) == {id \in DOMAIN orders : orders[id].side = s /\ orders[id].price = p}
LevelsMatchOrders ==
  \A s \in Sides :
    /\ DOMAIN levels[s] = {orders[id].price : id \in {i \in DOMAIN orders : orders[i].side = s}}
    /\ \A p \in DOMAIN levels[s] :
         levels[s][p] = SumFunctionOnSet([id \in DOMAIN orders |-> orders[id].qty], OrdersAt(s, p))
=============================================================================
