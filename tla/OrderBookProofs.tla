---------------------------- MODULE OrderBookProofs ----------------------------
(***************************************************************************)
(* Proofs about OrderBook driven by any feed (Spec): its types, and that   *)
(* the cached best bid and offer are always those of the levels; and about *)
(* LadderBook: that a price level map per side agrees with them.           *)
(***************************************************************************)
EXTENDS LadderBook, TypesProofs

-----------------------------------------------------------------------------
(* Levels, and the best price of one.                                      *)

\* The types of a side, and of both, as sets.
Levels == UNION {[P -> Uint32] : P \in SUBSET Prices}

LEMMA LevelsType == TypeOK => levels \in [Sides -> Levels]
<1>1. TypeOK => \A s \in Sides : levels[s] \in Levels
  BY DEF TypeOK, Levels
<1> QED BY <1>1 DEF TypeOK

LEMMA LevelsTypePrimed ==
  ASSUME levels' \in [Sides -> Levels]
  PROVE  /\ levels' = [s \in Sides |-> levels'[s]]
         /\ \A s \in Sides : \E P \in SUBSET Prices : levels'[s] \in [P -> Uint32]
<1>1. \A s \in Sides : levels'[s] \in Levels
  OBVIOUS
<1> QED BY <1>1 DEF Levels

\* The prices of a side are naturals below the sentinel.
LEMMA LevelPrices ==
  ASSUME NEW m \in Levels
  PROVE  /\ DOMAIN m \in SUBSET Nat
         /\ \A p \in DOMAIN m : p \in Nat /\ p < INVALID_PRICE /\ p <= U32
<1>1. DOMAIN m \subseteq Prices
  BY DEF Levels
<1>2. \A p \in Prices : p \in Nat /\ p < INVALID_PRICE /\ p <= U32
  BY BookAssumption, U32Assumption DEF INVALID_PRICE
<1> QED BY <1>1, <1>2

\* The price the book calls best is a price of the side and none is better.
LEMMA BestPriceIsBest ==
  ASSUME NEW s \in Sides, NEW m \in Levels, DOMAIN m # {}
  PROVE  /\ BestOf(s, DOMAIN m) \in DOMAIN m
         /\ \A q \in DOMAIN m : ~Better(s, q, BestOf(s, DOMAIN m))
<1>1. DOMAIN m \in SUBSET Uint32
  BY LevelPrices, U32Assumption DEF Uint32, INVALID_PRICE
<1> QED BY <1>1, BestIsBest

\* It is the only such price.
LEMMA BestPriceUnique ==
  ASSUME NEW s \in Sides, NEW m \in Levels, NEW p \in DOMAIN m,
         \A q \in DOMAIN m : ~Better(s, q, p)
  PROVE  BestOf(s, DOMAIN m) = p
<1>1. /\ BestOf(s, DOMAIN m) \in DOMAIN m
      /\ ~Better(s, p, BestOf(s, DOMAIN m))
  BY BestPriceIsBest
<1>2. DOMAIN m \in SUBSET Nat
  BY LevelPrices
<1>3. p >= BestOf(s, DOMAIN m) /\ p <= BestOf(s, DOMAIN m)
  BY <1>1, <1>2 DEF Better
<1> QED BY <1>1, <1>2, <1>3
-----------------------------------------------------------------------------
(* Types of the helpers.                                                   *)

LEMMA AddToSideType ==
  ASSUME NEW m \in Levels, NEW p \in Prices, NEW q \in Qtys
  PROVE  /\ AddToSide(m, p, q) \in Levels
         /\ DOMAIN AddToSide(m, p, q) = DOMAIN m \cup {p}
<1>1. \A a, b \in Uint32 : Add32(a, b) \in Uint32
  BY BookAssumption, U32Assumption, SMTT(30) DEF Uint32, Add32
<1>2. q \in Uint32 /\ 0 \in Uint32
  BY BookAssumption, U32Assumption DEF Uint32
<1>3. \A x \in DOMAIN m : m[x] \in Uint32 /\ x \in Prices
  BY DEF Levels
<1>4. \A x \in DOMAIN m \cup {p} : AddToSide(m, p, q)[x] \in Uint32
  BY <1>1, <1>2, <1>3 DEF AddToSide
<1>5. AddToSide(m, p, q) \in [DOMAIN m \cup {p} -> Uint32]
  BY <1>4 DEF AddToSide
<1> QED BY <1>3, <1>5 DEF Levels

LEMMA RemoveFromSideType ==
  ASSUME NEW m \in Levels, NEW p, NEW q \in Uint32
  PROVE  RemoveFromSide(m, p, q) \in Levels
<1>1. \A x \in DOMAIN m : m[x] \in Uint32 /\ x \in Prices
  BY DEF Levels
<1>2. Restrict(m, DOMAIN m \ {p}) \in [DOMAIN m \ {p} -> Uint32]
  BY <1>1 DEF Restrict
<1>3. ASSUME p \in DOMAIN m, ~(m[p] <= q)
      PROVE  [m EXCEPT ![p] = @ - q] \in [DOMAIN m -> Uint32]
  <2>1. m[p] - q \in Uint32
    BY <1>1, <1>3, BookAssumption, U32Assumption DEF Uint32
  <2>2. m \in [DOMAIN m -> Uint32]
    BY DEF Levels
  <2> QED BY <2>1, <2>2
<1> QED BY <1>1, <1>2, <1>3 DEF RemoveFromSide, Levels

LEMMA TopOfType ==
  ASSUME NEW s \in Sides, NEW m \in Levels
  PROVE  TopOf(s, m) \in [px : Prices \cup {INVALID_PRICE}, qty : Uint32]
<1>1. CASE DOMAIN m = {}
  BY <1>1, BookAssumption, U32Assumption DEF TopOf, EmptyTop, Uint32
<1>2. CASE DOMAIN m # {}
  <2>1. BestOf(s, DOMAIN m) \in DOMAIN m
    BY <1>2, BestPriceIsBest
  <2>2. BestOf(s, DOMAIN m) \in Prices /\ m[BestOf(s, DOMAIN m)] \in Uint32
    BY <2>1 DEF Levels
  <2> QED BY <1>2, <2>2 DEF TopOf
<1> QED BY <1>1, <1>2
-----------------------------------------------------------------------------
(* The incremental update of the cache agrees with a recomputation.        *)

\* The best level after an addition, from the best level before it.
LEMMA TopAfterAdd ==
  ASSUME NEW s \in Sides, NEW m \in Levels, NEW p \in Prices, NEW q \in Qtys
  PROVE  TopOf(s, AddToSide(m, p, q)) =
           IF Better(s, p, TopOf(s, m).px) \/ TopOf(s, m).px = INVALID_PRICE
           THEN [px |-> p, qty |-> q]
           ELSE IF p = TopOf(s, m).px
                THEN [px |-> p, qty |-> Add32(TopOf(s, m).qty, q)]
                ELSE TopOf(s, m)
<1> DEFINE n == AddToSide(m, p, q)
<1>1. n \in Levels /\ DOMAIN n = DOMAIN m \cup {p}
  BY AddToSideType
<1>2. /\ \A x \in DOMAIN m : x # p => n[x] = m[x]
      /\ p \in DOMAIN m => n[p] = Add32(m[p], q)
      /\ p \notin DOMAIN m => n[p] = Add32(0, q)
  BY DEF AddToSide
<1>3. /\ p \in Nat /\ p < INVALID_PRICE /\ q \in Nat
      /\ Add32(0, q) = q
  BY BookAssumption, U32Assumption, SMTT(30) DEF Add32, INVALID_PRICE
<1>4. DOMAIN m \in SUBSET Nat /\ \A x \in DOMAIN m : x < INVALID_PRICE
  BY LevelPrices
<1>5. CASE DOMAIN m = {}
  <2>1. TopOf(s, m).px = INVALID_PRICE
    BY <1>5 DEF TopOf, EmptyTop
  <2>2. BestOf(s, DOMAIN n) = p
    <3>1. DOMAIN n = {p} /\ ~Better(s, p, p)
      BY <1>1, <1>3, <1>5 DEF Better
    <3> QED BY <1>1, <3>1, BestPriceUnique
  <2>3. n[p] = q
    BY <1>2, <1>3, <1>5
  <2>4. TopOf(s, n) = [px |-> p, qty |-> q]
    BY <1>1, <2>2, <2>3 DEF TopOf
  <2> QED BY <2>1, <2>4
<1>6. CASE DOMAIN m # {}
  <2> DEFINE b == BestOf(s, DOMAIN m)
  <2>1. b \in DOMAIN m /\ \A x \in DOMAIN m : ~Better(s, x, b)
    BY <1>6, BestPriceIsBest
  <2>2. TopOf(s, m) = [px |-> b, qty |-> m[b]] /\ b # INVALID_PRICE
    BY <1>3, <1>4, <1>6, <2>1, BookAssumption, U32Assumption DEF TopOf, INVALID_PRICE
  <2>3. CASE Better(s, p, b)
    <3>1. p \notin DOMAIN m
      BY <2>1, <2>3
    <3>2. \A x \in DOMAIN n : ~Better(s, x, p)
      BY <1>1, <1>3, <1>4, <2>1, <2>3 DEF Better
    <3>3. BestOf(s, DOMAIN n) = p
      BY <1>1, <3>2, BestPriceUnique
    <3>4. TopOf(s, n) = [px |-> p, qty |-> q]
      BY <1>1, <1>2, <1>3, <3>1, <3>3 DEF TopOf
    <3> QED BY <2>2, <2>3, <3>4
  <2>4. CASE ~Better(s, p, b)
    <3>1. \A x \in DOMAIN n : ~Better(s, x, b)
      BY <1>1, <2>1, <2>4
    <3>2. BestOf(s, DOMAIN n) = b
      BY <1>1, <2>1, <3>1, BestPriceUnique
    <3>3. TopOf(s, n) = [px |-> b, qty |-> n[b]]
      BY <1>1, <2>1, <3>2 DEF TopOf
    <3>4. CASE p = b
      BY <1>2, <2>1, <2>2, <2>4, <3>3, <3>4
    <3>5. CASE p # b
      BY <1>2, <2>1, <2>2, <2>4, <3>3, <3>5
    <3> QED BY <3>4, <3>5
  <2> QED BY <2>3, <2>4
<1> QED BY <1>5, <1>6

\* add_order's update of one side of the cache.
LEMMA CacheOnAddIsTop ==
  ASSUME NEW s \in Sides, NEW p \in Prices, NEW q \in Qtys,
         levels[s] \in Levels, cached[s] = TopOf(s, levels[s])
  PROVE  CacheOnAdd(s, p, q) = TopOf(s, AddToSide(levels[s], p, q))
  BY TopAfterAdd DEF CacheOnAdd
-----------------------------------------------------------------------------
(* The invariant.                                                          *)

IInv == TypeOK /\ CacheCoherent

\* What invalidate_cache establishes, whatever the levels have become.
LEMMA InvalidateCacheEstablishes ==
  ASSUME levels' \in [Sides -> Levels], InvalidateCache
  PROVE  cached' \in Tops /\ CacheCoherent'
<1>1. \A s \in Sides : TopOf(s, levels'[s]) \in [px : Prices \cup {INVALID_PRICE}, qty : Uint32]
  BY TopOfType
<1> QED BY <1>1 DEF InvalidateCache, Tops, CacheCoherent

\* maybe_bbo_update returns a well-typed update.
LEMMA MaybeBboUpdateType ==
  ASSUME cached' \in Tops, MaybeBboUpdate
  PROVE  \A a, b \in bbo' : a \in Tops /\ a = b
  BY DEF MaybeBboUpdate, None

\* An early return keeps the invariant.
LEMMA IgnoreKeeps == ASSUME IInv, Ignore PROVE IInv'
  BY DEF IInv, TypeOK, CacheCoherent, Ignore, None

LEMMA AddOrderKeeps ==
  ASSUME IInv, NEW id \in OrderIds, NEW p \in Prices, NEW q \in Qtys, NEW s \in Sides,
         AddOrder(id, p, q, s)
  PROVE  IInv'
<1>1. CASE id \in DOMAIN orders
  BY <1>1, IgnoreKeeps DEF AddOrder
<1>2. CASE id \notin DOMAIN orders
  <2> DEFINE o == [price |-> p, qty |-> q, side |-> s]
  <2>1. /\ orders' = InsertOrder(id, o)
        /\ levels' = [levels EXCEPT ![s] = AddToSide(levels[s], p, q)]
        /\ cached' = [cached EXCEPT ![s] = CacheOnAdd(s, p, q)]
        /\ MaybeBboUpdate
    BY <1>2 DEF AddOrder
  <2>2. levels \in [Sides -> Levels] /\ cached \in Tops
    BY LevelsType DEF IInv, TypeOK
  <2>3. levels' \in [Sides -> Levels]
    BY <2>1, <2>2, AddToSideType
  <2>4. CacheCoherent'
    <3>1. \A x \in Sides : cached[x] = TopOf(x, levels[x])
      BY DEF IInv, CacheCoherent
    <3>2. CacheOnAdd(s, p, q) = TopOf(s, AddToSide(levels[s], p, q))
      BY <2>2, <3>1, CacheOnAddIsTop
    <3>3. \A x \in Sides : cached'[x] = TopOf(x, levels'[x])
      BY <2>1, <2>2, <3>1, <3>2 DEF Tops
    <3> QED BY <3>3 DEF CacheCoherent
  <2>5. cached' \in Tops
    <3>1. \A x \in Sides : cached'[x] \in [px : Prices \cup {INVALID_PRICE}, qty : Uint32]
      BY <2>3, <2>4, TopOfType DEF CacheCoherent
    <3>2. DOMAIN cached' = Sides /\ cached' = [x \in Sides |-> cached'[x]]
      BY <2>1, <2>2 DEF Tops
    <3> QED BY <3>1, <3>2 DEF Tops
  <2>6. \E I \in SUBSET (OrderIds \ {EmptyKey}) : orders' \in [I -> OrderStates]
    <3>1. PICK I \in SUBSET (OrderIds \ {EmptyKey}) : orders \in [I -> OrderStates]
      BY DEF IInv, TypeOK
    <3>2. CASE id = EmptyKey
      BY <2>1, <3>1, <3>2 DEF InsertOrder
    <3>3. CASE id # EmptyKey
      <4>1. o \in OrderStates
        BY BookAssumption, U32Assumption DEF OrderStates, Uint32
      <4>2. orders' = [x \in I \cup {id} |-> IF x = id THEN o ELSE orders[x]]
        BY <2>1, <3>1, <3>3 DEF InsertOrder
      <4>3. orders' \in [I \cup {id} -> OrderStates]
        BY <3>1, <4>1, <4>2
      <4> QED BY <3>3, <4>3
    <3> QED BY <3>2, <3>3
  <2> QED BY <2>1, <2>3, <2>4, <2>5, <2>6, MaybeBboUpdateType, LevelsTypePrimed DEF IInv, TypeOK
<1> QED BY <1>1, <1>2

LEMMA ModifyOrderKeeps ==
  ASSUME IInv, NEW id \in OrderIds, NEW p \in Prices, NEW q \in Qtys,
         ModifyOrder(id, p, q)
  PROVE  IInv'
<1>1. CASE id \notin DOMAIN orders
  BY <1>1, IgnoreKeeps DEF ModifyOrder
<1>2. CASE id \in DOMAIN orders
  <2> DEFINE o == orders[id]
             m == RemoveFromSide(levels[o.side], o.price, o.qty)
  <2>1. /\ levels' = [levels EXCEPT ![o.side] = AddToSide(m, p, q)]
        /\ orders' = [orders EXCEPT ![id].price = p, ![id].qty = q]
        /\ InvalidateCache
        /\ MaybeBboUpdate
    BY <1>2 DEF ModifyOrder
  <2>2. PICK I \in SUBSET (OrderIds \ {EmptyKey}) : orders \in [I -> OrderStates]
    BY DEF IInv, TypeOK
  <2>3. levels \in [Sides -> Levels] /\ o \in OrderStates /\ q \in Uint32
    BY <1>2, <2>2, LevelsType, BookAssumption, U32Assumption DEF IInv, Uint32
  <2>4. levels' \in [Sides -> Levels]
    BY <2>1, <2>3, AddToSideType, RemoveFromSideType DEF OrderStates
  <2>5. orders' \in [I -> OrderStates]
    BY <2>1, <2>2, <2>3 DEF OrderStates
  <2>6. cached' \in Tops /\ CacheCoherent'
    BY <2>1, <2>4, InvalidateCacheEstablishes
  <2> QED BY <2>1, <2>4, <2>5, <2>6, MaybeBboUpdateType, LevelsTypePrimed DEF IInv, TypeOK
<1> QED BY <1>1, <1>2

LEMMA CancelOrderKeeps ==
  ASSUME IInv, NEW id \in OrderIds, CancelOrder(id)
  PROVE  IInv'
<1>1. CASE id \notin DOMAIN orders
  BY <1>1, IgnoreKeeps DEF CancelOrder
<1>2. CASE id \in DOMAIN orders
  <2> DEFINE o == orders[id]
  <2>1. /\ levels' = [levels EXCEPT ![o.side] = RemoveFromSide(levels[o.side], o.price, o.qty)]
        /\ orders' = Restrict(orders, DOMAIN orders \ {id})
        /\ InvalidateCache
        /\ MaybeBboUpdate
    BY <1>2 DEF CancelOrder
  <2>2. PICK I \in SUBSET (OrderIds \ {EmptyKey}) : orders \in [I -> OrderStates]
    BY DEF IInv, TypeOK
  <2>3. levels \in [Sides -> Levels] /\ o \in OrderStates
    BY <1>2, <2>2, LevelsType DEF IInv
  <2>4. levels' \in [Sides -> Levels]
    BY <2>1, <2>3, RemoveFromSideType DEF OrderStates
  <2>5. orders' \in [I \ {id} -> OrderStates]
    BY <2>1, <2>2 DEF Restrict
  <2>6. cached' \in Tops /\ CacheCoherent'
    BY <2>1, <2>4, InvalidateCacheEstablishes
  <2> QED BY <2>1, <2>4, <2>5, <2>6, MaybeBboUpdateType, LevelsTypePrimed DEF IInv, TypeOK
<1> QED BY <1>1, <1>2

LEMMA ApplyTradeKeeps ==
  ASSUME IInv, NEW id \in OrderIds, NEW q \in Qtys, ApplyTrade(id, q)
  PROVE  IInv'
<1>1. CASE id \notin DOMAIN orders
  BY <1>1, IgnoreKeeps DEF ApplyTrade
<1>2. CASE id \in DOMAIN orders
  <2> DEFINE o == orders[id]
  <2>1. /\ levels' = [levels EXCEPT ![o.side] = RemoveFromSide(levels[o.side], o.price, q)]
        /\ orders' = OrdersAfterTrade(id, q)
        /\ InvalidateCache
        /\ MaybeBboUpdate
    BY <1>2 DEF ApplyTrade
  <2>2. PICK I \in SUBSET (OrderIds \ {EmptyKey}) : orders \in [I -> OrderStates]
    BY DEF IInv, TypeOK
  <2>3. levels \in [Sides -> Levels] /\ o \in OrderStates /\ q \in Uint32
    BY <1>2, <2>2, LevelsType, BookAssumption, U32Assumption DEF IInv, Uint32
  <2>4. levels' \in [Sides -> Levels]
    BY <2>1, <2>3, RemoveFromSideType DEF OrderStates
  <2>5. \E J \in SUBSET (OrderIds \ {EmptyKey}) : orders' \in [J -> OrderStates]
    <3>1. CASE q >= o.qty
      <4>1. orders' \in [I \ {id} -> OrderStates]
        BY <2>1, <2>2, <3>1 DEF Restrict, OrdersAfterTrade
      <4> QED BY <4>1
    <3>2. CASE ~(q >= o.qty)
      <4>1. o.qty - q \in Uint32
        BY <2>3, <3>2, BookAssumption, U32Assumption DEF OrderStates, Uint32
      <4>2. orders' = [orders EXCEPT ![id].qty = o.qty - q]
        BY <2>1, <3>2 DEF OrdersAfterTrade
      <4>3. orders' \in [I -> OrderStates]
        BY <2>2, <2>3, <4>1, <4>2 DEF OrderStates
      <4> QED BY <4>3
    <3> QED BY <3>1, <3>2
  <2>6. cached' \in Tops /\ CacheCoherent'
    BY <2>1, <2>4, InvalidateCacheEstablishes
  <2> QED BY <2>1, <2>4, <2>5, <2>6, MaybeBboUpdateType, LevelsTypePrimed DEF IInv, TypeOK
<1> QED BY <1>1, <1>2

\* An empty book: the initial state, and the state after clear().
LEMMA EmptyBookOK ==
  /\ [s \in Sides |-> [p \in {} |-> 0]] \in [Sides -> Levels]
  /\ [id \in {} |-> 0] \in [{} -> OrderStates]
  /\ [s \in Sides |-> EmptyTop] \in Tops
  /\ \A s \in Sides : TopOf(s, [p \in {} |-> 0]) = EmptyTop
<1>1. [p \in {} |-> 0] \in Levels
  BY DEF Levels
<1>2. EmptyTop \in [px : Prices \cup {INVALID_PRICE}, qty : Uint32]
  BY BookAssumption, U32Assumption DEF EmptyTop, Uint32
<1> QED BY <1>1, <1>2 DEF Tops, TopOf

LEMMA InitEstablishes == Init => IInv
  BY EmptyBookOK DEF Init, IInv, TypeOK, CacheCoherent, None

LEMMA ClearKeeps == Clear => IInv'
  BY EmptyBookOK DEF Clear, IInv, TypeOK, CacheCoherent, None

LEMMA NextKeeps == IInv /\ [Next]_vars => IInv'
<1> SUFFICES ASSUME IInv, [Next]_vars PROVE IInv'
  OBVIOUS
<1>1. ASSUME NEW id \in OrderIds, NEW p \in Prices, NEW q \in Qtys, NEW s \in Sides,
             AddOrder(id, p, q, s)
      PROVE  IInv'
  BY <1>1, AddOrderKeeps
<1>2. ASSUME NEW id \in OrderIds, NEW p \in Prices, NEW q \in Qtys, ModifyOrder(id, p, q)
      PROVE  IInv'
  BY <1>2, ModifyOrderKeeps
<1>3. ASSUME NEW id \in OrderIds, CancelOrder(id)
      PROVE  IInv'
  BY <1>3, CancelOrderKeeps
<1>4. ASSUME NEW id \in OrderIds, NEW q \in Qtys, ApplyTrade(id, q)
      PROVE  IInv'
  BY <1>4, ApplyTradeKeeps
<1>5. ASSUME UNCHANGED vars PROVE IInv'
  BY <1>5 DEF vars, IInv, TypeOK, CacheCoherent
<1> QED BY <1>1, <1>2, <1>3, <1>4, <1>5, ClearKeeps DEF Next

\* The types of the book's state, for every feed.
THEOREM TypeCorrect == Spec => []TypeOK
<1>1. IInv => TypeOK
  BY DEF IInv
<1> QED BY <1>1, InitEstablishes, NextKeeps, PTL DEF Spec

\* The cached best bid and offer never differ from the levels', for every
\* feed: the incremental update of add_order is right whatever came before it.
THEOREM CacheIsCoherent == Spec => []CacheCoherent
<1>1. IInv => CacheCoherent
  BY DEF IInv
<1> QED BY <1>1, InitEstablishes, NextKeeps, PTL DEF Spec
-----------------------------------------------------------------------------
(* A price level map can stand for a side's std::map: what it holds, and   *)
(* the best level it keeps beside, are those of the book for every feed.   *)

\* the price level map of a side with levels m
LadderOf(s, m) == [levels |-> m, best_price |-> TopOf(s, m).px, best_qty |-> TopOf(s, m).qty]

LEMMA LadderOfEmpty ==
  ASSUME NEW s \in Sides PROVE NewLadder = LadderOf(s, [p \in {} |-> 0])
  BY DEF NewLadder, LadderOf, TopOf, EmptyTop

\* add() on a price level map does what += does on a std::map.
LEMMA AddKeepsLadder ==
  ASSUME LadderFits, NEW s \in Sides, NEW m \in Levels, NEW p \in Prices, NEW q \in Qtys
  PROVE  LadderAdd(s, LadderOf(s, m), p, q) = LadderOf(s, AddToSide(m, p, q))
<1> DEFINE n == AddToSide(m, p, q)
           l == LadderOf(s, m)
           t == TopOf(s, m)
<1>1. /\ p # EMPTY_LEVEL /\ p \in Nat /\ p < INVALID_PRICE
      /\ Add32(0, q) = q
  BY BookAssumption, U32Assumption, SMTT(30) DEF LadderFits, Add32, INVALID_PRICE
<1>2. n = WithLevel(m, p, IF p \in DOMAIN m THEN (m[p] + q) % U32 ELSE q)
  BY <1>1 DEF AddToSide, WithLevel, Add32
<1>3. l.levels = m /\ l.best_price = t.px /\ l.best_qty = t.qty
  BY DEF LadderOf
<1>4. CASE p \in DOMAIN m
  <2>1. BestOf(s, DOMAIN m) \in DOMAIN m /\ ~Better(s, p, BestOf(s, DOMAIN m))
    BY <1>4, BestPriceIsBest
  <2>2. t = [px |-> BestOf(s, DOMAIN m), qty |-> m[BestOf(s, DOMAIN m)]] /\ t.px # INVALID_PRICE
    BY <1>4, <2>1, LevelPrices, U32Assumption DEF TopOf, INVALID_PRICE
  <2>3. TopOf(s, n) = IF p = t.px THEN [px |-> p, qty |-> Add32(m[p], q)] ELSE t
    BY <2>1, <2>2, TopAfterAdd
  <2>4. LadderAdd(s, l, p, q) =
          [levels |-> n, best_price |-> t.px,
           best_qty |-> IF p = t.px THEN (m[p] + q) % U32 ELSE t.qty]
    BY <1>2, <1>3, <1>4 DEF LadderAdd, SetQty, LadderOf
  <2> QED BY <2>2, <2>3, <2>4 DEF LadderOf, Add32
<1>5. CASE p \notin DOMAIN m
  <2>1. t.px # p
    <3>1. CASE DOMAIN m = {}
      BY <1>1, <3>1 DEF TopOf, EmptyTop
    <3>2. CASE DOMAIN m # {}
      BY <1>5, <3>2, BestPriceIsBest DEF TopOf
    <3> QED BY <3>1, <3>2
  <2>2. TopOf(s, n) = IF Better(s, p, t.px) \/ t.px = INVALID_PRICE
                      THEN [px |-> p, qty |-> q] ELSE t
    BY <2>1, TopAfterAdd
  <2>3. LadderAdd(s, l, p, q) =
          IF Better(s, p, t.px) \/ t.px = INVALID_PRICE
          THEN [levels |-> n, best_price |-> p, best_qty |-> q]
          ELSE [levels |-> n, best_price |-> t.px, best_qty |-> t.qty]
    <3>1. [l EXCEPT !.levels = n] = [levels |-> n, best_price |-> t.px, best_qty |-> t.qty]
      BY DEF LadderOf
    <3>2. LadderAdd(s, l, p, q) =
            IF is_better(s, p, l)
            THEN [[l EXCEPT !.levels = n] EXCEPT !.best_price = p, !.best_qty = q]
            ELSE [l EXCEPT !.levels = n]
      BY <1>2, <1>3, <1>5 DEF LadderAdd
    <3>3. is_better(s, p, l) = (Better(s, p, t.px) \/ t.px = INVALID_PRICE)
      BY <1>3 DEF is_better
    <3> QED BY <3>1, <3>2, <3>3
  <2> QED BY <2>2, <2>3 DEF LadderOf
<1> QED BY <1>4, <1>5

\* Two fields of a ladder replaced.
LEMMA RecordSet ==
  ASSUME NEW m, NEW px, NEW qty, NEW n, NEW x
  PROVE  [[levels |-> m, best_price |-> px, best_qty |-> qty] EXCEPT !.levels = n, !.best_qty = x]
           = [levels |-> n, best_price |-> px, best_qty |-> x]
<1> DEFINE r == [levels |-> m, best_price |-> px, best_qty |-> qty]
           w == [levels |-> n, best_price |-> px, best_qty |-> qty]
<1>1. [r EXCEPT !.levels = n] = w
  OBVIOUS
<1>2. [w EXCEPT !.best_qty = x] = [levels |-> n, best_price |-> px, best_qty |-> x]
  OBVIOUS
<1>3. [r EXCEPT !.levels = n, !.best_qty = x] = [[r EXCEPT !.levels = n] EXCEPT !.best_qty = x]
  OBVIOUS
<1> QED BY <1>1, <1>2, <1>3

\* remove() on a price level map does what remove_from_side does on a std::map:
\* only a best level that disappears takes another look at the rest.
LEMMA RemoveKeepsLadder ==
  ASSUME LadderFits, NEW s \in Sides, NEW m \in Levels, NEW p \in Prices, NEW q \in Uint32
  PROVE  LadderRemove(s, LadderOf(s, m), p, q) = LadderOf(s, RemoveFromSide(m, p, q))
<1> DEFINE l == LadderOf(s, m)
           t == TopOf(s, m)
           b == BestOf(s, DOMAIN m)
<1>1. l.levels = m /\ l.best_price = t.px /\ l.best_qty = t.qty
  BY DEF LadderOf
<1>2. CASE p \notin DOMAIN m
  BY <1>1, <1>2 DEF LadderRemove, RemoveFromSide
<1>3. CASE p \in DOMAIN m
  <2>1. /\ b \in DOMAIN m /\ \A x \in DOMAIN m : ~Better(s, x, b)
        /\ t = [px |-> b, qty |-> m[b]]
    BY <1>3, BestPriceIsBest DEF TopOf
  <2>2. m[p] \in Uint32 /\ Uint32 \subseteq Int
    BY <1>3, U32Assumption DEF Levels, Uint32
  <2>3. CASE m[p] > q
    <3> DEFINE n == [m EXCEPT ![p] = m[p] - q]
    <3>1. RemoveFromSide(m, p, q) = n /\ DOMAIN n = DOMAIN m
      BY <1>3, <2>2, <2>3 DEF RemoveFromSide
    <3>2. n = WithLevel(m, p, m[p] - q)
      <4>1. p # EMPTY_LEVEL /\ DOMAIN m \cup {p} = DOMAIN m
        BY <1>3 DEF LadderFits
      <4> QED BY <4>1 DEF WithLevel
    <3>3. TopOf(s, n) = [px |-> b, qty |-> IF p = b THEN m[p] - q ELSE m[b]]
      BY <1>3, <2>1, <3>1 DEF TopOf
    <3>4. LadderRemove(s, l, p, q) = SetQty(l, p, m[p] - q)
      BY <1>1, <1>3, <2>3 DEF LadderRemove
    <3>5. SetQty(l, p, m[p] - q) =
            [levels |-> n, best_price |-> t.px, best_qty |-> IF p = t.px THEN m[p] - q ELSE t.qty]
      <4>1. SetQty(l, p, m[p] - q) =
              [l EXCEPT !.levels = n, !.best_qty = IF p = t.px THEN m[p] - q ELSE t.qty]
        BY <1>1, <3>2 DEF SetQty
      <4> QED BY <4>1, RecordSet DEF LadderOf
    <3> QED BY <2>1, <3>1, <3>3, <3>4, <3>5 DEF LadderOf
  <2>4. CASE ~(m[p] > q)
    <3> DEFINE n == Restrict(m, DOMAIN m \ {p})
    <3>1. RemoveFromSide(m, p, q) = n
      BY <1>3, <2>2, <2>4 DEF RemoveFromSide
    <3>2. n \in Levels /\ DOMAIN n = DOMAIN m \ {p} /\ \A x \in DOMAIN n : n[x] = m[x]
      <4>1. n \in Levels
        BY <3>1, RemoveFromSideType
      <4> QED BY <4>1 DEF Restrict
    <3>3. LadderRemove(s, l, p, q) =
            IF p = t.px THEN Rescan(s, n) ELSE [l EXCEPT !.levels = n]
      BY <1>1, <1>3, <2>4 DEF LadderRemove
    <3>4. CASE p = b
      <4>1. Rescan(s, n) = LadderOf(s, n)
        <5>1. CASE DOMAIN n = {}
          <6>1. n = [x \in {} |-> 0]
            BY <5>1, <3>2 DEF Levels
          <6> QED BY <5>1, <6>1, LadderOfEmpty DEF Rescan
        <5>2. CASE DOMAIN n # {}
          BY <5>2 DEF Rescan, LadderOf, TopOf
        <5> QED BY <5>1, <5>2
      <4> QED BY <2>1, <3>1, <3>3, <3>4, <4>1
    <3>5. CASE p # b
      <4>1. b \in DOMAIN n /\ \A x \in DOMAIN n : ~Better(s, x, b)
        BY <2>1, <3>2, <3>5
      <4>2. BestOf(s, DOMAIN n) = b
        BY <3>2, <4>1, BestPriceUnique
      <4>3. TopOf(s, n) = t
        BY <2>1, <3>2, <4>1, <4>2 DEF TopOf
      <4>4. [l EXCEPT !.levels = n] = LadderOf(s, n)
        BY <4>3 DEF LadderOf
      <4> QED BY <2>1, <3>1, <3>3, <3>5, <4>4
    <3> QED BY <3>4, <3>5
  <2> QED BY <2>3, <2>4
<1> QED BY <1>2, <1>3
-----------------------------------------------------------------------------
(* The invariant: the book's own, and what the ladders are.                *)

LadderInv == IInv /\ ladders = [s \in Sides |-> LadderOf(s, levels[s])]

\* The facts about an order that its removal needs.
LEMMA OrderTypes ==
  ASSUME IInv, NEW id \in DOMAIN orders
  PROVE  /\ id \in OrderIds
         /\ orders[id].side \in Sides /\ orders[id].price \in Prices /\ orders[id].qty \in Uint32
         /\ levels \in [Sides -> Levels]
<1>1. PICK I \in SUBSET (OrderIds \ {EmptyKey}) : orders \in [I -> OrderStates]
  BY DEF IInv, TypeOK
<1>2. id \in OrderIds /\ orders[id] \in OrderStates
  BY <1>1
<1> QED BY <1>2, LevelsType DEF IInv, OrderStates

\* A removal of one order's quantity, in whole or in part.
LEMMA OnRemoveKeeps ==
  ASSUME LadderFits, LadderInv, NEW id \in DOMAIN orders, NEW q \in Uint32, OnRemove(id, q),
         levels' = [levels EXCEPT ![orders[id].side] =
                      RemoveFromSide(levels[orders[id].side], orders[id].price, q)]
  PROVE  ladders' = [s \in Sides |-> LadderOf(s, levels'[s])]
<1> DEFINE o == orders[id]
           m == levels[o.side]
<1>1. o.side \in Sides /\ o.price \in Prices /\ m \in Levels /\ levels \in [Sides -> Levels]
  BY OrderTypes DEF LadderInv
<1>2. LadderRemove(o.side, LadderOf(o.side, m), o.price, q) =
        LadderOf(o.side, RemoveFromSide(m, o.price, q))
  BY <1>1, RemoveKeepsLadder
<1>3. ladders' = [ladders EXCEPT ![o.side] = LadderRemove(o.side, ladders[o.side], o.price, q)]
  BY DEF OnRemove
<1>4. ladders[o.side] = LadderOf(o.side, m) /\ ladders = [s \in Sides |-> LadderOf(s, levels[s])]
  BY <1>1 DEF LadderInv
<1> QED BY <1>1, <1>2, <1>3, <1>4

LEMMA OnAddKeeps ==
  ASSUME LadderFits, LadderInv, NEW id \in OrderIds, NEW p \in Prices, NEW q \in Qtys, NEW s \in Sides,
         AddOrder(id, p, q, s), OnAdd(id, p, q, s)
  PROVE  ladders' = [x \in Sides |-> LadderOf(x, levels'[x])]
<1>1. CASE id \in DOMAIN orders
  BY <1>1 DEF AddOrder, OnAdd, Ignore, LadderInv
<1>2. CASE id \notin DOMAIN orders
  <2>1. levels \in [Sides -> Levels]
    BY LevelsType DEF LadderInv, IInv
  <2>2. levels' = [levels EXCEPT ![s] = AddToSide(levels[s], p, q)]
    BY <1>2 DEF AddOrder
  <2>3. ladders' = [ladders EXCEPT ![s] = LadderAdd(s, ladders[s], p, q)]
    BY <1>2 DEF OnAdd
  <2>4. LadderAdd(s, LadderOf(s, levels[s]), p, q) = LadderOf(s, AddToSide(levels[s], p, q))
    BY <2>1, AddKeepsLadder
  <2>5. ladders = [x \in Sides |-> LadderOf(x, levels[x])]
    BY DEF LadderInv
  <2> QED BY <2>1, <2>2, <2>3, <2>4, <2>5
<1> QED BY <1>1, <1>2

LEMMA OnModifyKeeps ==
  ASSUME LadderFits, LadderInv, NEW id \in OrderIds, NEW p \in Prices, NEW q \in Qtys,
         ModifyOrder(id, p, q), OnModify(id, p, q)
  PROVE  ladders' = [x \in Sides |-> LadderOf(x, levels'[x])]
<1>1. CASE id \notin DOMAIN orders
  BY <1>1 DEF ModifyOrder, OnModify, Ignore, LadderInv
<1>2. CASE id \in DOMAIN orders
  <2> DEFINE o == orders[id]
             m == levels[o.side]
             r == RemoveFromSide(m, o.price, o.qty)
  <2>1. /\ o.side \in Sides /\ o.price \in Prices /\ o.qty \in Uint32
        /\ levels \in [Sides -> Levels] /\ m \in Levels
    BY <1>2, OrderTypes DEF LadderInv
  <2>2. r \in Levels
    BY <2>1, RemoveFromSideType
  <2>3. LadderAdd(o.side, LadderRemove(o.side, LadderOf(o.side, m), o.price, o.qty), p, q) =
          LadderOf(o.side, AddToSide(r, p, q))
    BY <2>1, <2>2, RemoveKeepsLadder, AddKeepsLadder
  <2>4. levels' = [levels EXCEPT ![o.side] = AddToSide(r, p, q)]
    BY <1>2 DEF ModifyOrder
  <2>5. ladders' = [ladders EXCEPT ![o.side] =
                      LadderAdd(o.side, LadderRemove(o.side, ladders[o.side], o.price, o.qty), p, q)]
    BY <1>2 DEF OnModify
  <2>6. ladders = [x \in Sides |-> LadderOf(x, levels[x])]
    BY DEF LadderInv
  <2> QED BY <2>1, <2>3, <2>4, <2>5, <2>6
<1> QED BY <1>1, <1>2

LEMMA LadderInitEstablishes == LadderInit => LadderInv
  BY InitEstablishes, LadderOfEmpty DEF LadderInit, Init, LadderInv

\* A step of the book with its ladders is a step of the book.
LEMMA LadderStepIsBookStep ==
  ASSUME LadderInv, LadderNext PROVE Next
<1>1. \A id \in DOMAIN orders : id \in OrderIds
  BY OrderTypes DEF LadderInv
<1> QED BY <1>1 DEF LadderNext, Next

LEMMA LadderNextKeeps ==
  ASSUME LadderFits, LadderInv, [LadderNext]_<<vars, ladders>>
  PROVE  LadderInv'
<1> USE DEF LadderInv
<1>1. IInv'
  BY LadderStepIsBookStep, NextKeeps
<1>2. ASSUME NEW id \in OrderIds, NEW p \in Prices, NEW q \in Qtys, NEW s \in Sides,
             AddOrder(id, p, q, s), OnAdd(id, p, q, s)
      PROVE  LadderInv'
  BY <1>1, <1>2, OnAddKeeps
<1>3. ASSUME NEW id \in OrderIds, NEW p \in Prices, NEW q \in Qtys,
             ModifyOrder(id, p, q), OnModify(id, p, q)
      PROVE  LadderInv'
  BY <1>1, <1>3, OnModifyKeeps
<1>4. ASSUME NEW id \in DOMAIN orders, CancelOrder(id), OnRemove(id, orders[id].qty)
      PROVE  LadderInv'
  <2>1. levels' = [levels EXCEPT ![orders[id].side] =
                     RemoveFromSide(levels[orders[id].side], orders[id].price, orders[id].qty)]
    BY <1>4 DEF CancelOrder
  <2> QED BY <1>1, <1>4, <2>1, OrderTypes, OnRemoveKeeps
<1>5. ASSUME NEW id \in DOMAIN orders, NEW q \in Qtys, ApplyTrade(id, q), OnRemove(id, q)
      PROVE  LadderInv'
  <2>1. levels' = [levels EXCEPT ![orders[id].side] =
                     RemoveFromSide(levels[orders[id].side], orders[id].price, q)]
    BY <1>5 DEF ApplyTrade
  <2>2. q \in Uint32
    BY BookAssumption DEF Uint32
  <2> QED BY <1>1, <1>5, <2>1, <2>2, OnRemoveKeeps
<1>6. ASSUME NEW id \in OrderIds \ DOMAIN orders, NEW q \in Qtys,
             CancelOrder(id) \/ ApplyTrade(id, q), UNCHANGED ladders
      PROVE  LadderInv'
  BY <1>1, <1>6 DEF CancelOrder, ApplyTrade, Ignore
<1>7. ASSUME Clear, ladders' = [s \in Sides |-> NewLadder] PROVE LadderInv'
  BY <1>1, <1>7, LadderOfEmpty DEF Clear
<1>8. ASSUME UNCHANGED <<vars, ladders>> PROVE LadderInv'
  BY <1>1, <1>8 DEF vars
<1> QED BY <1>2, <1>3, <1>4, <1>5, <1>6, <1>7, <1>8 DEF LadderNext

\* For every feed without price 0, a price level map agrees with the levels and
\* the cached best prices of the book it would serve.
THEOREM LaddersAlwaysAgree == LadderFits => (LadderSpec => []LaddersAgree)
<1>1. LadderInv => LaddersAgree
  BY DEF LadderInv, IInv, CacheCoherent, LaddersAgree, LadderOf
<1>2. LadderFits /\ LadderInv /\ [LadderNext]_<<vars, ladders>> => (LadderFits /\ LadderInv)'
  BY LadderNextKeeps DEF LadderFits
<1>3. LadderInit => LadderInv
  BY LadderInitEstablishes
<1> QED BY <1>1, <1>2, <1>3, PTL DEF LadderSpec
=============================================================================
