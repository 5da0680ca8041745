--------------------------- MODULE TradingLoopProofs ---------------------------
(***************************************************************************)
(* Proofs about TradingLoop: for every feed, spread, lot size and limits,  *)
(* the position stays within its limit, the arrays of reports and fills    *)
(* never overflow, and quotes are checked against the price they were made *)
(* around.  Under a condition on spread, lot and limits the strategy never *)
(* locks itself in.  What OrderBookProofs and OrderGatewayProofs show of   *)
(* the book and of the gateway is used for the loop's book and gateway.    *)
(***************************************************************************)
EXTENDS TradingLoop, TypesProofs, SequenceTheorems

B == INSTANCE OrderBookProofs WITH ladders <- {}   \* the loop has none
G == INSTANCE OrderGatewayProofs WITH OrderPrices <- Uint32, OrderQtys <- {lot_size}

-----------------------------------------------------------------------------
(* The operations the two modules speak of are the loop's: they come from  *)
(* two instances of one module.                                            *)

LEMMA BookAssumptionHolds == B!BookAssumption /\ B!U32Assumption
BY LoopAssumption, U32Assumption
   DEF B!BookAssumption, B!U32Assumption, Uint32, B!INVALID_PRICE, INVALID_PRICE

LEMMA GatewayAssumptionHolds == G!GatewayAssumption /\ G!U32Assumption
BY LoopAssumption, U32Assumption DEF G!GatewayAssumption, G!U32Assumption, G!Uint32, Uint32

USE DEF Sides, Bid, Ask, Book!Sides, Book!Bid, Book!Ask, B!Sides, B!Bid, B!Ask,
        Gateway!Sides, Gateway!Bid, Gateway!Ask, G!Sides, G!Bid, G!Ask,
        Gateway!Sim!Sides, Gateway!Sim!Bid, Gateway!Sim!Ask, G!Sim!Sides, G!Sim!Bid, G!Sim!Ask,
        None, Book!None, B!None, Gateway!None, G!None, Gateway!Sim!None, G!Sim!None

LEMMA SideOperations ==
  /\ \A m, p, q : B!AddToSide(m, p, q) = Book!AddToSide(m, p, q)
  /\ \A m, p, q : B!RemoveFromSide(m, p, q) = Book!RemoveFromSide(m, p, q)
<1>1. \A m, p, q : B!AddToSide(m, p, q) = Book!AddToSide(m, p, q)
  BY DEF B!AddToSide, Book!AddToSide, B!Add32, Book!Add32
<1>2. \A m, p, q : B!RemoveFromSide(m, p, q) = Book!RemoveFromSide(m, p, q)
  BY DEF B!RemoveFromSide, Book!RemoveFromSide, B!Restrict, Book!Restrict
<1> QED BY <1>1, <1>2

LEMMA CacheOperations ==
  /\ \A s, p, q : B!CacheOnAdd(s, p, q) = Book!CacheOnAdd(s, p, q)
  /\ B!InvalidateCache <=> Book!InvalidateCache
  /\ B!MaybeBboUpdate <=> Book!MaybeBboUpdate
  /\ B!Ignore <=> Book!Ignore
<1>1. \A s, p, q : B!CacheOnAdd(s, p, q) = Book!CacheOnAdd(s, p, q)
  BY DEF B!CacheOnAdd, Book!CacheOnAdd, B!Add32, Book!Add32, B!Better, Book!Better,
         B!INVALID_PRICE, Book!INVALID_PRICE
<1>2. B!InvalidateCache <=> Book!InvalidateCache
  BY DEF B!InvalidateCache, Book!InvalidateCache, B!TopOf, Book!TopOf, B!EmptyTop, Book!EmptyTop,
         B!BestOf, Book!BestOf, B!Max, Book!Max, B!Min, Book!Min,
         B!INVALID_PRICE, Book!INVALID_PRICE
<1>3. (B!MaybeBboUpdate <=> Book!MaybeBboUpdate) /\ (B!Ignore <=> Book!Ignore)
  BY DEF B!MaybeBboUpdate, Book!MaybeBboUpdate, B!Ignore, Book!Ignore
<1> QED BY <1>1, <1>2, <1>3

LEMMA BookOperations == B!Next <=> Book!Next
<1>1. \A id, p, q, s : B!AddOrder(id, p, q, s) <=> Book!AddOrder(id, p, q, s)
  <2>1. \A id, o : B!InsertOrder(id, o) = Book!InsertOrder(id, o)
    BY DEF B!InsertOrder, Book!InsertOrder, B!EmptyKey, Book!EmptyKey
  <2> QED BY <2>1, SideOperations, CacheOperations DEF B!AddOrder, Book!AddOrder
<1>2. \A id, p, q : B!ModifyOrder(id, p, q) <=> Book!ModifyOrder(id, p, q)
  BY SideOperations, CacheOperations DEF B!ModifyOrder, Book!ModifyOrder
<1>3. \A id : B!CancelOrder(id) <=> Book!CancelOrder(id)
  BY SideOperations, CacheOperations DEF B!CancelOrder, Book!CancelOrder, B!Restrict, Book!Restrict
<1>4. \A id, q : B!ApplyTrade(id, q) <=> Book!ApplyTrade(id, q)
  <2>1. \A id, q : B!OrdersAfterTrade(id, q) = Book!OrdersAfterTrade(id, q)
    BY DEF B!OrdersAfterTrade, Book!OrdersAfterTrade, B!Restrict, Book!Restrict
  <2> QED BY <2>1, SideOperations, CacheOperations DEF B!ApplyTrade, Book!ApplyTrade
<1>5. B!Clear <=> Book!Clear
  BY DEF B!Clear, Book!Clear, B!EmptyTop, Book!EmptyTop, B!INVALID_PRICE, Book!INVALID_PRICE
<1> QED BY <1>1, <1>2, <1>3, <1>4, <1>5 DEF B!Next, Book!Next

LEMMA GatewaySubmits == \A i : G!SubmitNew(i) <=> Gateway!SubmitNew(i)
BY DEF G!SubmitNew, Gateway!SubmitNew, G!Enter, Gateway!Enter, G!Sim!Submit, Gateway!Sim!Submit,
       G!Sim!Report, Gateway!Sim!Report, G!Sim!Ack, Gateway!Sim!Ack, G!New, Gateway!New

LEMMA GatewaySweeps == G!SimSweep <=> Gateway!SimSweep
BY DEF G!SimSweep, Gateway!SimSweep, G!gwVars, Gateway!gwVars, G!Sim!Sweep, Gateway!Sim!Sweep,
       G!Sim!Opposite, Gateway!Sim!Opposite, G!Sim!BestOf, Gateway!Sim!BestOf,
       G!Sim!Max, Gateway!Sim!Max, G!Sim!Min, Gateway!Sim!Min,
       G!Sim!CanMatch, Gateway!Sim!CanMatch, G!Sim!Marketable, Gateway!Sim!Marketable,
       G!Sim!Better, Gateway!Sim!Better, G!Sim!PushBack, Gateway!Sim!PushBack,
       G!Sim!kMaxReports, Gateway!Sim!kMaxReports, G!Sim!Report, Gateway!Sim!Report,
       G!Sim!Fill, Gateway!Sim!Fill, G!Sim!Restrict, Gateway!Sim!Restrict, G!Sim!New, Gateway!Sim!New

LEMMA GatewaySimReturns == G!SimReturn <=> Gateway!SimReturn
BY DEF G!SimReturn, Gateway!SimReturn, G!Sim!Finish, Gateway!Sim!Finish,
       G!Sim!FinishNew, Gateway!Sim!FinishNew, G!Sim!FinishCancel, Gateway!Sim!FinishCancel,
       G!Sim!RestOn, Gateway!Sim!RestOn, G!Sim!Index, Gateway!Sim!Index,
       G!Sim!Opposite, Gateway!Sim!Opposite, G!Sim!BestOf, Gateway!Sim!BestOf,
       G!Sim!Max, Gateway!Sim!Max, G!Sim!Min, Gateway!Sim!Min,
       G!Sim!CanMatch, Gateway!Sim!CanMatch, G!Sim!Marketable, Gateway!Sim!Marketable,
       G!Sim!Better, Gateway!Sim!Better, G!Sim!PushBack, Gateway!Sim!PushBack,
       G!Sim!kMaxReports, Gateway!Sim!kMaxReports, G!Sim!Report, Gateway!Sim!Report,
       G!Sim!Cancelled, Gateway!Sim!Cancelled, G!Sim!Cancel, Gateway!Sim!Cancel,
       G!Sim!Restrict, Gateway!Sim!Restrict, G!Sim!New, Gateway!Sim!New

LEMMA GatewayProcesses ==
  /\ G!ProcessReport <=> Gateway!ProcessReport
  /\ G!Return <=> Gateway!Return
<1>1. G!ProcessReport <=> Gateway!ProcessReport
  BY DEF G!ProcessReport, Gateway!ProcessReport, G!simVars, Gateway!simVars,
         G!ActiveAfter, Gateway!ActiveAfter, G!FillsAfter, Gateway!FillsAfter,
         G!Forget, Gateway!Forget, G!Restrict, Gateway!Restrict, G!PushBack, Gateway!PushBack,
         G!kMaxReports, Gateway!kMaxReports, G!Fill, Gateway!Fill, G!Cancelled, Gateway!Cancelled
<1>2. G!Return <=> Gateway!Return
  BY DEF G!Return, Gateway!Return, G!simVars, Gateway!simVars
<1> QED BY <1>1, <1>2

LEMMA GatewayRuns == G!Running <=> Gateway!Running
BY GatewaySweeps, GatewaySimReturns, GatewayProcesses DEF G!Running, Gateway!Running
-----------------------------------------------------------------------------
(* What is therefore known of the book and of the gateway.                 *)

BookOK == B!IInv
GatewayOK == G!IInv

LEMMA BookKeeps == BookOK /\ (Book!Next \/ UNCHANGED bookVars) => BookOK'
<1>1. B!IInv /\ [B!Next]_(B!vars) => B!IInv'
  BY B!NextKeeps, BookAssumptionHolds DEF B!BookAssumption, B!U32Assumption
<1>2. UNCHANGED bookVars => UNCHANGED B!vars
  BY DEF bookVars, B!vars
<1> QED BY <1>1, <1>2, BookOperations DEF BookOK

LEMMA GatewayRunKeeps == GatewayOK /\ (Gateway!Running \/ UNCHANGED gatewayVars) => GatewayOK'
<1>1. G!IInv /\ [G!Next]_(G!vars) => G!IInv'
  BY G!StepKeeps, GatewayAssumptionHolds DEF G!GatewayAssumption, G!U32Assumption
<1>2. UNCHANGED gatewayVars => UNCHANGED G!vars
  BY DEF gatewayVars, G!vars
<1> QED BY <1>1, <1>2, GatewayRuns DEF GatewayOK, G!Next

LEMMA GatewaySubmitKeeps ==
  ASSUME GatewayOK, NEW i, i.side \in Sides, i.price \in Uint32, i.qty \in Uint32,
         Gateway!SubmitNew(i)
  PROVE  GatewayOK'
<1>1. G!SubmitNew(i)
  BY GatewaySubmits
<1>2. i.price \in G!Uint32 /\ i.qty \in G!Uint32 /\ i.side \in G!Sides
  BY DEF G!Uint32, Uint32
<1> QED BY <1>1, <1>2, G!SubmitNewKeeps, GatewayAssumptionHolds
        DEF GatewayOK, G!GatewayAssumption, G!U32Assumption
-----------------------------------------------------------------------------
(* One lot.  Every order is of one lot, so the simulator's book holds lots *)
(* only, an order that meets another takes it whole, and a call makes one  *)
(* fill at most: the one the position check made room for.                 *)

Quotes == [action : {New}, side : Sides, price : Uint32, qty : {lot_size}, orig : {0}]
LotFills == [side : Sides, qty : {lot_size}, price : Uint32]
-----------------------------------------------------------------------------
(* When the strategy can always come back to a flat position.              *)

Size(q) == IF q < 0 THEN -q ELSE q
InLots(q) == \E k \in Int : q = k * lot_size

\* The collar lets a quote pass that leads from q further away from zero.
AwayPasses(q) == price_collar_ticks = 0 \/ base_spread_ticks + Size(q) \div 2 <= price_collar_ticks

\* The collar lets the quote back from q pass, and had let pass one at zero.
BackPasses(q) ==
  \/ price_collar_ticks = 0
  \/ /\ base_spread_ticks <= price_collar_ticks
     /\ Size(q) \div 2 <= base_spread_ticks + price_collar_ticks

\* The condition on the parameters: quotes have room in 32 bits and below the
\* notional limit, and wherever the collar lets the inventory grow by a lot,
\* it lets the quote back from there pass.
LeadsHome ==
  /\ lot_size <= max_order_qty
  /\ \A p \in Prices :
       /\ p + base_spread_ticks + max_position < U32
       /\ max_position * p + lot_size * (p + base_spread_ticks + max_position) <= max_notional
  /\ \A q \in Nat :
       InLots(q) /\ q + lot_size <= max_position /\ AwayPasses(q) => BackPasses(q + lot_size)

\* the inventories the strategy gets to under this condition
Reached == {q \in -max_position .. max_position : InLots(q) /\ (q # 0 => BackPasses(q))}

Step(side) == IF side = Bid THEN lot_size ELSE -lot_size

\* a quote made at inventory q, in a book whose middle is ref_price
OfferedAt(q, i) ==
  i.price = ref_price + (IF i.side = Bid THEN -base_spread_ticks ELSE base_spread_ticks)
                      - (IF q >= 0 THEN q \div 2 ELSE -((-q) \div 2))

\* An ask left over may be one made before the bid filled.
LastAsk(i) ==
  /\ i.side = Ask
  /\ \E q \in Reached :
       /\ OfferedAt(q, i) /\ position \in {q, q + lot_size}
       /\ stage = "gateway" \/ (stage = "fills" /\ applied = 0) => position = q

QuotesLeft ==
  \/ intents = << >>
  \/ \E i \in Quotes : intents = <<i>> /\ LastAsk(i)
  \/ /\ stage = "intents"
     /\ \E i \in Quotes : intents = <<i>> /\ i.side = Bid /\ OfferedAt(position, i)
  \/ /\ stage = "intents"
     /\ \E i, j \in Quotes : /\ intents = <<i, j>> /\ i.side = Bid /\ j.side = Ask
                             /\ OfferedAt(position, i) /\ OfferedAt(position, j)

OnWayHome ==
  LeadsHome =>
    /\ position \in Reached
    /\ stage \in {"intents", "gateway", "fills"} => QuotesLeft

LEMMA HomeConstants ==
  /\ lot_size \in Nat /\ lot_size > 0 /\ max_position \in Nat
  /\ base_spread_ticks \in Nat /\ price_collar_ticks \in Nat
  /\ max_order_qty \in Nat /\ max_notional \in Nat
BY LoopAssumption DEF Uint32

LEMMA ProductsGrow ==
  ASSUME NEW a \in Nat, NEW b \in Nat, NEW c \in Nat, NEW d \in Nat, a <= c, b <= d
  PROVE  a * b <= c * d
<1>1. a * b <= c * b
  <2>1. (c - a) * b >= 0 /\ (c - a) * b = c * b - a * b
    OBVIOUS
  <2> QED BY <2>1
<1>2. c * b <= c * d
  <2>1. c * (d - b) >= 0 /\ c * (d - b) = c * d - c * b
    OBVIOUS
  <2> QED BY <2>1
<1>3. a * b \in Int /\ c * b \in Int /\ c * d \in Int
  OBVIOUS
<1> QED BY <1>1, <1>2, <1>3

\* Multiples of the lot: the next one on either side, and how far they are.
LEMMA LotsApart ==
  ASSUME NEW q \in Int, InLots(q)
  PROVE  /\ InLots(q + lot_size) /\ InLots(q - lot_size) /\ InLots(-q)
         /\ q > 0 => q >= lot_size
         /\ q < 0 => q <= -lot_size
<1>1. PICK k \in Int : q = k * lot_size
  BY DEF InLots
<1>2. lot_size \in Nat /\ lot_size > 0
  BY HomeConstants
<1>3. /\ k + 1 \in Int /\ q + lot_size = (k + 1) * lot_size
      /\ k - 1 \in Int /\ q - lot_size = (k - 1) * lot_size
      /\ -k \in Int /\ -q = (-k) * lot_size
  BY <1>1, <1>2
<1>4. /\ k >= 1 => k * lot_size >= lot_size
      /\ k <= -1 => k * lot_size <= -lot_size
      /\ k = 0 => k * lot_size = 0
  BY <1>2
<1>5. k >= 1 \/ k <= -1 \/ k = 0
  OBVIOUS
<1>6. q > 0 => q >= lot_size
  BY <1>1, <1>2, <1>4, <1>5
<1>7. q < 0 => q <= -lot_size
  BY <1>1, <1>2, <1>4, <1>5
<1> QED BY <1>3, <1>6, <1>7 DEF InLots

\* Where the collar lets the inventory go, it stays where it leads back from.
LEMMA AwayIsReached ==
  ASSUME LeadsHome, NEW q \in Reached, AwayPasses(q)
  PROVE  /\ q >= 0 /\ q + lot_size <= max_position => q + lot_size \in Reached
         /\ q <= 0 /\ q - lot_size >= -max_position => q - lot_size \in Reached
<1>1. q \in Int /\ -max_position <= q /\ q <= max_position /\ InLots(q)
  BY HomeConstants DEF Reached
<1>2. ASSUME q >= 0, q + lot_size <= max_position PROVE q + lot_size \in Reached
  <2>1. BackPasses(q + lot_size)
    BY <1>1, <1>2 DEF LeadsHome
  <2>2. q + lot_size \in -max_position .. max_position
    BY <1>1, <1>2, HomeConstants
  <2> QED BY <1>1, <2>1, <2>2, LotsApart DEF Reached
<1>3. ASSUME q <= 0, q - lot_size >= -max_position PROVE q - lot_size \in Reached
  <2>1. Size(-q) = Size(q) /\ -q \in Nat /\ InLots(-q) /\ -q + lot_size <= max_position
    BY <1>1, <1>3, HomeConstants, LotsApart DEF Size
  <2>2. AwayPasses(-q)
    BY <2>1 DEF AwayPasses
  <2>3. BackPasses(-q + lot_size)
    BY <2>1, <2>2 DEF LeadsHome
  <2>4. Size(q - lot_size) = Size(-q + lot_size)
    BY <1>1, <1>3, HomeConstants DEF Size
  <2>5. BackPasses(q - lot_size)
    BY <2>3, <2>4 DEF BackPasses
  <2>6. q - lot_size \in -max_position .. max_position
    BY <1>1, <1>3, HomeConstants
  <2> QED BY <1>1, <2>5, <2>6, LotsApart DEF Reached
<1> QED BY <1>2, <1>3

LEMMA BackIsReached ==
  ASSUME NEW q \in Reached
  PROVE  /\ q > 0 => q - lot_size \in Reached
         /\ q < 0 => q + lot_size \in Reached
<1>1. q \in Int /\ -max_position <= q /\ q <= max_position /\ InLots(q)
  BY HomeConstants DEF Reached
<1>2. q # 0 => BackPasses(q)
  BY DEF Reached
<1>3. ASSUME NEW r \in Int, Size(r) <= Size(q), q # 0 PROVE BackPasses(r)
  <2>1. Size(r) \in Nat /\ Size(q) \in Nat
    BY <1>1 DEF Size
  <2>2. Size(r) \div 2 <= Size(q) \div 2
    BY <1>3, <2>1
  <2>3. Size(r) \div 2 \in Nat /\ Size(q) \div 2 \in Nat
    BY <2>1
  <2> HIDE DEF Size
  <2> QED BY <1>2, <1>3, <2>2, <2>3, HomeConstants DEF BackPasses
<1>4. ASSUME q > 0 PROVE q - lot_size \in Reached
  <2>1. Size(q - lot_size) <= Size(q) /\ q - lot_size \in -max_position .. max_position
    BY <1>1, <1>4, HomeConstants, LotsApart DEF Size
  <2> QED BY <1>1, <1>3, <1>4, <2>1, LotsApart DEF Reached
<1>5. ASSUME q < 0 PROVE q + lot_size \in Reached
  <2>1. Size(q + lot_size) <= Size(q) /\ q + lot_size \in -max_position .. max_position
    BY <1>1, <1>5, HomeConstants, LotsApart DEF Size
  <2> QED BY <1>1, <1>3, <1>5, <2>1, LotsApart DEF Reached
<1> QED BY <1>4, <1>5

\* what the check of quote i has to find for that
StaysOnWay(i) ==
  LeadsHome => /\ position + Step(i.side) \in Reached
               /\ Tail(intents) # << >> => i.side = Bid
-----------------------------------------------------------------------------
(* The state of the loop inside and outside a call of the gateway.         *)

\* One lot more on this side stays within the limits, and leaves a way home;
\* what is quoted after the order in flight is an ask.
CanTake(side) ==
  /\ position + Step(side) \in -max_position .. max_position
  /\ LeadsHome => /\ position + Step(side) \in Reached
                  /\ intents # << >> => side = Bid

OrderOf(i) == [id |-> next_order_id - 1, side |-> i.side, price |-> i.price,
               qty |-> lot_size, action |-> New]

Unfilled == Len(reports) = 1 /\ reports[1].type = Ack
Filled ==
  /\ Len(reports) = 2 /\ reports[1].type = Ack /\ reports[2].type = Fill
  /\ reports[2].id = next_order_id - 1 /\ reports[2].filled = lot_size

\* no fill, or one of a lot on the side of the order
NoFill == fills = << >>
OneFill == \E f \in LotFills : fills = <<f>>

RestingLots == \A s \in Sides : \A p \in DOMAIN resting[s] : resting[s][p].qty = lot_size

Accounts == position \in -max_position .. max_position /\ inventory = position /\ cash \in Int

\* inside submit_intent
InSim(i) ==
  /\ call = {OrderOf(i)} /\ NoFill /\ handled = 0
  /\ \/ remaining = lot_size /\ Unfilled
     \/ remaining = 0 /\ Filled
InReports(i) ==
  /\ Unfilled \/ Filled
  /\ \/ handled \in {0, 1} /\ NoFill
     \/ handled = 2 /\ \/ NoFill
                       \/ \E f \in LotFills : fills = <<f>> /\ f.side = i.side
Inside(i) ==
  /\ CanTake(i.side)
  /\ next_order_id - 1 \in DOMAIN active => active[next_order_id - 1] = i.side
  /\ pc = "sim" => InSim(i)
  /\ pc = "reports" => InReports(i)

InGateway ==
  /\ pc = "idle" <=> stage # "gateway"
  /\ stage = "gateway" =>
       /\ applied = 0
       /\ pc \in {"sim", "reports"}
       /\ \E i \in Quotes : Inside(i)

\* the fills of a call that has returned
InFills ==
  /\ \/ NoFill /\ applied = 0
     \/ OneFill /\ applied \in {0, 1}
     \/ stage = "gateway"
  /\ stage = "fills" /\ applied = 0 => \A f \in LotFills : fills = <<f>> => CanTake(f.side)

Pending ==
  /\ stage \in {"read", "quote", "intents", "gateway", "fills"}
  /\ \/ intents = << >>
     \/ \E i \in Quotes : intents = <<i>>
     \/ \E i, j \in Quotes : intents = <<i, j>>

Lots == RestingLots /\ Len(reports) <= 2 /\ Accounts /\ InGateway /\ InFills /\ Pending
-----------------------------------------------------------------------------
(* The steps of the loop itself.                                           *)

\* Taking the head of the pending quotes.
LEMMA TakeQuote ==
  ASSUME Pending, intents # << >>
  PROVE  /\ Head(intents) \in Quotes
         /\ \/ Tail(intents) = << >>
            \/ \E i \in Quotes : Tail(intents) = <<i>>
<1>1. CASE \E i \in Quotes : intents = <<i>>
  <2>1. PICK i \in Quotes : intents = <<i>>
    BY <1>1
  <2>2. Head(intents) = i /\ Tail(intents) = << >>
    BY <2>1
  <2> QED BY <2>1, <2>2
<1>2. CASE \E i, j \in Quotes : intents = <<i, j>>
  <2>1. PICK i \in Quotes, j \in Quotes : intents = <<i, j>>
    BY <1>2
  <2>2. Head(intents) = i /\ Tail(intents) = <<j>>
    BY <2>1
  <2> QED BY <2>1, <2>2
<1> QED BY <1>1, <1>2 DEF Pending

LEMMA QuotePricesInt ==
  ASSUME NEW top, \A s \in Sides : top[s].px \in Nat, inventory \in Int
  PROVE  Strategy!BidPx(top) \in Int /\ Strategy!AskPx(top) \in Int
<1>1. Strategy!Fair(top) \in Int
  BY DEF Strategy!Fair, Strategy!Bid, Strategy!Ask
<1>2. Strategy!Skew \in Int
  BY DEF Strategy!Skew
<1> QED BY <1>1, <1>2, LoopAssumption DEF Strategy!BidPx, Strategy!AskPx, Uint32

\* The strategy quotes one lot on each side at most.
LEMMA OnBboIs ==
  ASSUME NEW top, \A s \in Sides : top[s].px \in Nat, inventory \in Int
  PROVE  LET b == Strategy!Quote(Bid, Strategy!BidPx(top))
             a == Strategy!Quote(Ask, Strategy!AskPx(top))
         IN  /\ b \in Quotes /\ a \in Quotes
             /\ Strategy!OnBbo(top) \in {<< >>, <<b>>, <<a>>, <<b, a>>}
<1>1. ASSUME NEW s \in Sides, NEW px \in Int
      PROVE  Strategy!Quote(s, px) \in Quotes
  <2>1. px % U32 \in Uint32
    BY U32Assumption DEF Uint32
  <2> QED BY <2>1 DEF Strategy!Quote, Quotes, Strategy!New, New
<1>2. Strategy!BidPx(top) \in Int /\ Strategy!AskPx(top) \in Int
  BY QuotePricesInt
<1> DEFINE b == Strategy!Quote(Bid, Strategy!BidPx(top))
           a == Strategy!Quote(Ask, Strategy!AskPx(top))
<1>3. b \in Quotes /\ a \in Quotes
  BY <1>1, <1>2
<1>4. \/ Strategy!OnBbo(top) = << >>
      \/ Strategy!OnBbo(top) = << >> \o << >>
      \/ Strategy!OnBbo(top) = <<b>> \o << >>
      \/ Strategy!OnBbo(top) = << >> \o <<a>>
      \/ Strategy!OnBbo(top) = <<b>> \o <<a>>
  BY DEF Strategy!OnBbo, Strategy!Bid, Strategy!Ask
<1> HIDE DEF a, b
<1>5. /\ << >> \o << >> = << >> /\ <<b>> \o << >> = <<b>>
      /\ << >> \o <<a>> = <<a>> /\ <<b>> \o <<a>> = <<b, a>>
  <2>1. <<b>> \in Seq(Quotes) /\ <<a>> \in Seq(Quotes)
    BY <1>3
  <2>2. <<b>> \o <<a>> = <<b, a>>
    <3>1. /\ <<b>> \o <<a>> \in Seq(Quotes) /\ Len(<<b>> \o <<a>>) = 2
          /\ \A n \in 1 .. 2 : (<<b>> \o <<a>>)[n] = IF n <= 1 THEN <<b>>[n] ELSE <<a>>[n - 1]
      BY <2>1, ConcatProperties
    <3>2. <<b, a>> \in Seq(Quotes) /\ Len(<<b, a>>) = 2
      BY <1>3
    <3>3. \A n \in 1 .. 2 : (<<b>> \o <<a>>)[n] = <<b, a>>[n]
      BY <3>1
    <3> QED BY <3>1, <3>2, <3>3, SeqEqual
  <2>3. << >> \o << >> = << >> /\ <<b>> \o << >> = <<b>> /\ << >> \o <<a>> = <<a>>
    BY <2>1, ConcatEmptySeq, EmptySeq
  <2> QED BY <2>2, <2>3
<1> QED BY <1>3, <1>4, <1>5 DEF a, b

LEMMA OnBboQuotes ==
  ASSUME NEW top, \A s \in Sides : top[s].px \in Nat, inventory \in Int
  PROVE  \/ Strategy!OnBbo(top) = << >>
         \/ \E i \in Quotes : Strategy!OnBbo(top) = <<i>>
         \/ \E i, j \in Quotes : Strategy!OnBbo(top) = <<i, j>>
BY OnBboIs

\* What the loop does outside the gateway changes no order.
LEMMA OutsideKeeps ==
  ASSUME Lots, UNCHANGED gatewayVars, UNCHANGED accountVars, Pending',
         pc = "idle", stage' \notin {"gateway", "fills"}, applied' = applied
  PROVE  Lots'
<1>1. /\ RestingLots' /\ Len(reports') <= 2 /\ Accounts'
  BY DEF Lots, RestingLots, Accounts, gatewayVars, accountVars
<1>2. InGateway' /\ stage # "gateway"
  BY DEF Lots, InGateway, gatewayVars
<1>3. InFills'
  BY <1>2 DEF Lots, InFills, NoFill, OneFill, CanTake, gatewayVars, accountVars
<1> QED BY <1>1, <1>2, <1>3 DEF Lots

LEMMA ReadKeepsLots ==
  ASSUME Lots, Read
  PROVE  Lots'
<1>1. Pending' /\ pc = "idle"
  BY DEF Read, Lots, Pending, InGateway
<1> QED BY <1>1, OutsideKeeps DEF Read

LEMMA OnUpdateKeepsLots ==
  ASSUME Lots, BookOK, OnUpdate
  PROVE  Lots'
<1>1. pc = "idle" /\ inventory \in Int
  BY LoopAssumption DEF OnUpdate, Lots, InGateway, Accounts
<1>2. CASE bbo = None /\ stage' = "read" /\ UNCHANGED intents
  <2>1. Pending'
    BY <1>2 DEF Lots, Pending
  <2> QED BY <1>1, <1>2, <2>1, OutsideKeeps DEF OnUpdate
<1>3. ASSUME NEW top \in bbo, intents' = Strategy!OnBbo(top), stage' = "intents"
      PROVE  Lots'
  <2>1. \A s \in Sides : top[s].px \in Nat
    <3>1. top \in B!Tops
      BY DEF BookOK, B!IInv, B!TypeOK
    <3>2. Prices \cup {B!INVALID_PRICE} \subseteq Nat
      BY LoopAssumption, U32Assumption DEF B!INVALID_PRICE, INVALID_PRICE
    <3> QED BY <3>1, <3>2 DEF B!Tops
  <2>2. Pending'
    BY <1>1, <1>3, <2>1, OnBboQuotes DEF Pending
  <2> QED BY <1>1, <1>3, <2>2, OutsideKeeps DEF OnUpdate
<1> QED BY <1>2, <1>3 DEF OnUpdate

LEMMA RejectKeepsLots ==
  ASSUME Lots, Reject
  PROVE  Lots'
<1>1. pc = "idle"
  BY DEF Reject, Lots, InGateway
<1>2. Pending'
  BY TakeQuote DEF Reject, Lots, Pending
<1> QED BY <1>1, <1>2, OutsideKeeps DEF Reject

LEMMA NextIntentKeepsLots ==
  ASSUME Lots, NextIntent
  PROVE  Lots'
<1>1. pc = "idle" /\ Pending'
  BY DEF NextIntent, Lots, Pending, InGateway
<1> QED BY <1>1, OutsideKeeps DEF NextIntent

LEMMA ContinueKeepsLots ==
  ASSUME Lots, Continue
  PROVE  Lots'
<1>1. pc = "idle" /\ Pending'
  BY DEF Continue, Lots, Pending, InGateway
<1> QED BY <1>1, OutsideKeeps DEF Continue
-----------------------------------------------------------------------------
(* The steps of the gateway.                                               *)

\* A quote the risk checks accept is one the limits have room for.
LEMMA AcceptMeansRoom ==
  ASSUME NEW i \in Quotes, Verdict(i) = "Accept", position \in Int
  PROVE  position + Step(i.side) \in -max_position .. max_position
<1>1. Risk!WithinPosition(i, position)
  BY DEF Verdict, Risk!Validate, Account!Snapshot
<1>2. i.qty = lot_size /\ lot_size \in Int /\ max_position \in Int
  BY LoopAssumption DEF Quotes, Uint32
<1> QED BY <1>1, <1>2 DEF Risk!WithinPosition, Risk!NewPosition, Risk!Bid, Step

LEMMA SubmitKeepsLots ==
  ASSUME Lots, GatewayOK, Submit, StaysOnWay(Head(intents))
  PROVE  Lots'
<1>0. PICK i \in Quotes : i = Head(intents)
  BY TakeQuote DEF Lots, Submit
<1>1. /\ i \in Quotes
      /\ \/ Tail(intents) = << >>
         \/ \E j \in Quotes : Tail(intents) = <<j>>
  BY TakeQuote DEF Lots, Submit
<1>2. position + Step(i.side) \in -max_position .. max_position
  BY <1>0, AcceptMeansRoom, LoopAssumption DEF Submit, Lots, Accounts
<1>3. next_order_id \in Nat
  BY DEF GatewayOK, G!IInv, G!Shape
<1>4. Gateway!SubmitNew(i)
  BY <1>0 DEF Submit
<1>5. /\ call' = {[id |-> next_order_id, side |-> i.side, price |-> i.price,
                   qty |-> i.qty, action |-> New]}
      /\ remaining' = i.qty /\ resting' = resting
      /\ reports' = <<[id |-> next_order_id, type |-> Ack, filled |-> 0,
                       remaining |-> i.qty, price |-> 0]>>
  BY <1>4 DEF Gateway!SubmitNew, Gateway!Sim!Submit, Gateway!Sim!Report, Gateway!New, New,
              Gateway!Sim!Ack, Ack
<1>6. /\ active' = [id \in DOMAIN active \cup {next_order_id} |->
                      IF id = next_order_id THEN i.side ELSE active[id]]
      /\ next_order_id' = next_order_id + 1
      /\ pc' = "sim" /\ handled' = 0 /\ fills' = << >>
  BY <1>4 DEF Gateway!SubmitNew, Gateway!Enter
<1>7. stage' = "gateway" /\ applied' = 0 /\ intents' = Tail(intents) /\ UNCHANGED accountVars
  BY DEF Submit
<1>8. next_order_id' - 1 = next_order_id /\ i.qty = lot_size
  BY <1>1, <1>3, <1>6 DEF Quotes
<1>9. InSim(i)'
  <2>1. call' = {OrderOf(i)'}
    BY <1>5, <1>8 DEF OrderOf
  <2>2. Unfilled'
    BY <1>5 DEF Unfilled
  <2> QED BY <1>5, <1>6, <1>8, <2>1, <2>2 DEF InSim, NoFill
<1>10. Inside(i)'
  <2>1. CanTake(i.side)'
    BY <1>0, <1>2, <1>7 DEF CanTake, StaysOnWay, accountVars
  <2> QED BY <1>6, <1>8, <1>9, <2>1 DEF Inside
<1>11. InGateway'
  BY <1>1, <1>6, <1>7, <1>10 DEF InGateway
<1>12. InFills' /\ Pending'
  BY <1>1, <1>7 DEF InFills, Pending
<1>13. RestingLots' /\ Len(reports') <= 2 /\ Accounts'
  BY <1>5, <1>7 DEF Lots, RestingLots, Accounts, accountVars
<1> QED BY <1>11, <1>12, <1>13 DEF Lots

\* What Append does to a sequence, and to one of length 1.
LEMMA AppendIs ==
  ASSUME NEW S, NEW a \in Seq(S), NEW x \in S
  PROVE  /\ Append(a, x) \in Seq(S) /\ Len(Append(a, x)) = Len(a) + 1
         /\ \A n \in 1 .. Len(a) + 1 : Append(a, x)[n] = IF n <= Len(a) THEN a[n] ELSE x
OBVIOUS

LEMMA AppendToOne ==
  ASSUME NEW S, NEW a \in Seq(S), NEW x \in S, Len(a) = 1
  PROVE  Len(Append(a, x)) = 2 /\ Append(a, x)[1] = a[1] /\ Append(a, x)[2] = x
<1> DEFINE b == Append(a, x)
<1>1. /\ Len(b) = Len(a) + 1
      /\ \A n \in 1 .. Len(a) + 1 : b[n] = IF n <= Len(a) THEN a[n] ELSE x
  BY AppendIs, Zenon
<1> HIDE DEF b
<1>2. Len(b) = 2 /\ b[1] = a[1] /\ b[2] = x
  BY <1>1
<1> QED BY <1>2 DEF b

\* What a step inside submit_intent leaves alone, and what is left to show.
LEMMA InsideKeeps ==
  ASSUME Lots, RunGateway, pc' # "idle", RestingLots', Len(reports') <= 2,
         NEW i \in Quotes, Inside(i)'
  PROVE  Lots'
<1>1. /\ stage = "gateway" /\ stage' = "gateway" /\ applied' = applied /\ intents' = intents
      /\ UNCHANGED accountVars
  BY DEF RunGateway
<1>2. pc' \in {"sim", "reports"}
  BY DEF RunGateway, Gateway!Running, Gateway!SimSweep, Gateway!SimReturn,
         Gateway!ProcessReport, Gateway!Return, Gateway!gwVars
<1>3. Accounts' /\ Pending'
  BY <1>1 DEF Lots, Accounts, Pending, accountVars
<1>4. InGateway'
  BY <1>1, <1>2 DEF Lots, InGateway
<1>5. InFills'
  BY <1>1 DEF InFills
<1> QED BY <1>3, <1>4, <1>5 DEF Lots

LEMMA SweepKeepsLots ==
  ASSUME Lots, GatewayOK, RunGateway, Gateway!SimSweep
  PROVE  Lots'
<1>1. /\ pc = "sim" /\ stage = "gateway" /\ UNCHANGED <<accountVars, intents>>
      /\ UNCHANGED <<active, next_order_id, pc, handled, fills>>
  BY DEF RunGateway, Gateway!SimSweep, Gateway!gwVars
<1>2. PICK i \in Quotes : Inside(i)
  BY <1>1 DEF Lots, InGateway
<1>3. InSim(i) /\ CanTake(i.side)
  BY <1>1, <1>2 DEF Inside
<1>4. G!Shape
  BY DEF GatewayOK, G!IInv
<1>5. G!Sim!Sweep
  BY GatewaySweeps DEF G!SimSweep
<1>6. PICK ord \in G!Orders, s0 \in Sides : \E p, f : G!SweepStep(ord, s0, p, f)
  BY <1>4, <1>5, G!SweepIsStep, GatewayAssumptionHolds DEF G!GatewayAssumption, G!U32Assumption
<1>7. PICK p0, filled : G!SweepStep(ord, s0, p0, filled)
  BY <1>6
<1>8. remaining = lot_size /\ Unfilled /\ ord = OrderOf(i) /\ NoFill
  <2>1. remaining # 0 /\ call = {ord}
    BY <1>7, G!SweepStepTakes, GatewayAssumptionHolds DEF G!GatewayAssumption, G!U32Assumption
  <2>2. call = {OrderOf(i)} /\ NoFill /\ (remaining = 0 \/ (remaining = lot_size /\ Unfilled))
    BY <1>3 DEF InSim
  <2> QED BY <2>1, <2>2
<1>9. filled = lot_size /\ remaining' = 0 /\ ~(filled < resting[s0][p0].qty)
  <2>1. p0 \in DOMAIN resting[s0] /\ resting[s0][p0].qty = lot_size
    BY <1>7 DEF G!SweepStep, Lots, RestingLots
  <2>2. /\ remaining' = remaining - filled
        /\ filled = IF remaining < resting[s0][p0].qty THEN remaining ELSE resting[s0][p0].qty
    BY <1>7 DEF G!SweepStep
  <2> QED BY <1>8, <2>1, <2>2, LoopAssumption DEF Uint32
<1>10. RestingLots'
  <2>1. /\ resting' = [resting EXCEPT ![s0] = G!Restrict(@, DOMAIN @ \ {p0})]
        /\ resting \in [Sides -> G!RestingLevels]
    BY <1>4, <1>7, <1>9 DEF G!SweepStep, G!Shape
  <2>2. /\ DOMAIN G!Restrict(resting[s0], DOMAIN resting[s0] \ {p0}) = DOMAIN resting[s0] \ {p0}
        /\ \A y \in DOMAIN resting[s0] \ {p0} :
             G!Restrict(resting[s0], DOMAIN resting[s0] \ {p0})[y] = resting[s0][y]
    BY <2>1, G!LevelRestrict, GatewayAssumptionHolds DEF G!GatewayAssumption, G!U32Assumption
  <2> QED BY <2>1, <2>2 DEF Lots, RestingLots
<1>11. Filled' /\ Len(reports') = 2
  <2>1. reports \in Seq(G!Reports) /\ Len(reports) = 1 /\ reports[1].type = Ack
    BY <1>4, <1>8 DEF G!Shape, Unfilled
  <2>2. reports' = Append(reports, G!SweepReport(ord, p0, filled))
    <3>1. reports' = G!PushBack(reports, G!SweepReport(ord, p0, filled))
      BY <1>7, G!SweepStepTakes, GatewayAssumptionHolds DEF G!GatewayAssumption, G!U32Assumption
    <3> QED BY <2>1, <3>1 DEF G!PushBack, G!kMaxReports
  <2>3. Len(reports') = 2 /\ reports'[1] = reports[1]
        /\ reports'[2] = G!SweepReport(ord, p0, filled)
    <3>1. G!SweepReport(ord, p0, filled) \in G!Reports
      BY <1>4, <1>7, G!SweepTypes, GatewayAssumptionHolds DEF G!GatewayAssumption, G!U32Assumption
    <3>2. PICK rep \in G!Reports : rep = G!SweepReport(ord, p0, filled)
      BY <3>1
    <3> QED BY <2>1, <2>2, <3>2, AppendToOne
  <2>4. /\ reports'[2].type = Fill /\ reports'[2].id = next_order_id - 1
        /\ reports'[2].filled = lot_size
    BY <1>8, <1>9, <2>3 DEF G!SweepReport, G!Fill, Fill, OrderOf
  <2> QED BY <1>1, <2>1, <2>3, <2>4 DEF Filled
<1>12. Inside(i)'
  <2>1. call' = {OrderOf(i)'}
    BY <1>1, <1>3, <1>7 DEF InSim, OrderOf, G!SweepStep
  <2>2. InSim(i)'
    BY <1>1, <1>3, <1>9, <1>11, <2>1 DEF InSim, NoFill
  <2> QED BY <1>1, <1>2, <2>2 DEF Inside, CanTake, accountVars
<1> QED BY <1>1, <1>10, <1>11, <1>12, InsideKeeps

LEMMA SimReturnKeepsLots ==
  ASSUME Lots, GatewayOK, RunGateway, Gateway!SimReturn
  PROVE  Lots'
<1>1. /\ pc = "sim" /\ pc' = "reports" /\ stage = "gateway" /\ UNCHANGED <<accountVars, intents>>
      /\ UNCHANGED <<active, next_order_id, handled, fills>>
  BY DEF RunGateway, Gateway!SimReturn
<1>2. PICK i \in Quotes : Inside(i)
  BY <1>1 DEF Lots, InGateway
<1>3. InSim(i) /\ CanTake(i.side)
  BY <1>1, <1>2 DEF Inside
<1> DEFINE ord == OrderOf(i)
<1>4. call = {ord} /\ ord.action = New /\ ord.side \in Sides
  BY <1>3 DEF InSim, OrderOf, Quotes
<1>5. Gateway!Sim!FinishNew(ord)
  BY <1>4 DEF Gateway!SimReturn, Gateway!Sim!Finish, Gateway!Sim!FinishCancel,
              Gateway!Sim!Cancel, New
<1> HIDE DEF ord
<1>6. RestingLots'
  <2>1. CASE remaining > 0 /\ resting' = [resting EXCEPT ![ord.side] = Gateway!Sim!RestOn(ord)]
    <3>1. remaining = lot_size
      BY <1>3, <2>1 DEF InSim
    <3>2. resting \in [Sides -> G!RestingLevels]
      BY DEF GatewayOK, G!IInv, G!Shape
    <3> QED BY <1>4, <2>1, <3>1, <3>2 DEF Gateway!Sim!RestOn, Lots, RestingLots
  <2>2. CASE UNCHANGED resting
    BY <2>2 DEF Lots, RestingLots
  <2> QED BY <1>5, <2>1, <2>2 DEF Gateway!Sim!FinishNew
<1>7. UNCHANGED reports /\ Len(reports') <= 2
  BY <1>5 DEF Gateway!Sim!FinishNew, Lots
<1>8. Inside(i)'
  <2>1. InReports(i)'
    BY <1>1, <1>3, <1>7 DEF InReports, InSim, Unfilled, Filled, NoFill
  <2> QED BY <1>1, <1>2, <2>1 DEF Inside, CanTake, accountVars
<1> QED BY <1>1, <1>6, <1>7, <1>8, InsideKeeps

\* The Ack changes nothing; the fill, if there is one, is the order's lot.
LEMMA ProcessReportKeepsLots ==
  ASSUME Lots, GatewayOK, RunGateway, Gateway!ProcessReport
  PROVE  Lots'
<1>1. /\ pc = "reports" /\ stage = "gateway" /\ UNCHANGED <<accountVars, intents>>
      /\ handled < Len(reports) /\ handled' = handled + 1
      /\ UNCHANGED <<resting, reports, next_order_id, pc>>
  BY DEF RunGateway, Gateway!ProcessReport, Gateway!simVars
<1>2. PICK i \in Quotes : Inside(i)
  BY <1>1 DEF Lots, InGateway
<1>3. InReports(i) /\ CanTake(i.side)
  BY <1>1, <1>2 DEF Inside
<1>4. active \in G!ActiveMaps /\ reports \in Seq(G!Reports) /\ handled \in Nat
  BY DEF GatewayOK, G!IInv, G!Shape
<1>5. /\ active' = Gateway!ActiveAfter(reports[handled + 1])
      /\ fills' = Gateway!FillsAfter(reports[handled + 1])
  BY <1>1 DEF Gateway!ProcessReport
<1>6. handled \in {0, 1} /\ NoFill
  <2>1. handled # 2
    BY <1>1 DEF Lots
  <2> QED BY <1>3, <2>1 DEF InReports
<1>7. RestingLots' /\ Len(reports') <= 2 /\ CanTake(i.side)'
  BY <1>1, <1>3 DEF Lots, RestingLots, CanTake, accountVars
<1>8. CASE handled = 0
  <2>1. reports[handled + 1].type = Ack
    BY <1>3, <1>8 DEF InReports, Unfilled, Filled
  <2>2. active' = active /\ fills' = fills
    BY <1>5, <2>1 DEF Gateway!ActiveAfter, Gateway!FillsAfter, Gateway!Cancelled, Gateway!Fill, Ack
  <2>3. Inside(i)'
    <3>1. InReports(i)'
      BY <1>1, <1>3, <1>6, <1>8, <2>2 DEF InReports, Unfilled, Filled, NoFill
    <3> QED BY <1>1, <1>2, <1>7, <2>2, <3>1 DEF Inside
  <2> QED BY <1>1, <1>7, <2>3, InsideKeeps
<1>9. CASE handled = 1
  <2> DEFINE r == reports[2]
  <2>1. /\ Filled /\ handled + 1 = 2 /\ r.type = Fill
        /\ r.id = next_order_id - 1 /\ r.filled = lot_size
    BY <1>1, <1>3, <1>9 DEF InReports, Unfilled, Filled
  <2>2. r.price \in Uint32
    <3>1. \A n \in 1 .. Len(reports) : reports[n] \in G!Reports
      BY <1>4
    <3>2. Len(reports) = 2
      BY <2>1 DEF Filled
    <3>3. reports[2] \in G!Reports
      BY <3>1, <3>2
    <3> QED BY <3>3 DEF G!Reports, G!Uint32, Uint32
  <2>3. active' = Gateway!ActiveAfter(r) /\ fills' = Gateway!FillsAfter(r)
    BY <1>5, <2>1
  <2> HIDE DEF r
  <2>4. next_order_id - 1 \in DOMAIN active' =>
          next_order_id - 1 \in DOMAIN active /\ active'[next_order_id - 1] = active[next_order_id - 1]
    <3>1. CASE active' = Gateway!Forget(r.id)
      <4>1. active' = [x \in DOMAIN active \ {r.id} |-> active[x]]
        BY <3>1 DEF Gateway!Forget, Gateway!Restrict
      <4> QED BY <4>1
    <3>2. CASE active' = active
      BY <3>2
    <3> QED BY <2>3, <3>1, <3>2 DEF Gateway!ActiveAfter
  <2>5. fills' = << >> \/ \E f \in LotFills : fills' = <<f>> /\ f.side = i.side
    <3>1. CASE r.id \in DOMAIN active
      <4> DEFINE f == [side |-> active[r.id], qty |-> r.filled, price |-> r.price]
      <4>1. f \in LotFills /\ f.side = i.side
        BY <1>2, <2>1, <2>2, <3>1 DEF Inside, LotFills, Quotes
      <4>2. fills' = <<f>>
        BY <1>6, <2>1, <2>3, <3>1
           DEF Gateway!FillsAfter, Gateway!PushBack, Gateway!kMaxReports, NoFill, Gateway!Fill, Fill
      <4> QED BY <4>1, <4>2
    <3>2. CASE r.id \notin DOMAIN active
      BY <1>6, <2>3, <3>2 DEF Gateway!FillsAfter, NoFill
    <3> QED BY <3>1, <3>2
  <2>6. InReports(i)'
    BY <1>1, <1>9, <2>1, <2>5 DEF InReports, Filled, NoFill
  <2>7. Inside(i)'
    BY <1>1, <1>2, <1>7, <2>4, <2>6 DEF Inside
  <2> QED BY <1>1, <1>7, <2>7, InsideKeeps
<1> QED BY <1>6, <1>8, <1>9

LEMMA ReturnKeepsLots ==
  ASSUME Lots, RunGateway, Gateway!Return
  PROVE  Lots'
<1>1. /\ pc = "reports" /\ pc' = "idle" /\ stage = "gateway" /\ stage' = "fills"
      /\ handled = Len(reports) /\ applied' = applied /\ intents' = intents
      /\ UNCHANGED accountVars /\ UNCHANGED <<resting, reports, fills>>
  BY DEF RunGateway, Gateway!Return, Gateway!simVars
<1>2. PICK i \in Quotes : InReports(i) /\ CanTake(i.side)
  BY <1>1 DEF Lots, InGateway, Inside
<1>3. RestingLots' /\ Len(reports') <= 2 /\ Accounts' /\ Pending'
  BY <1>1 DEF Lots, RestingLots, Accounts, Pending, accountVars
<1>4. InGateway'
  BY <1>1 DEF InGateway
<1>5. fills = << >> \/ \E f \in LotFills : fills = <<f>> /\ f.side = i.side
  BY <1>2 DEF InReports, NoFill
<1>6. applied = 0
  BY <1>1 DEF Lots, InGateway
<1>7. InFills'
  <2>1. CASE fills = << >>
    <3>1. \A f : fills' # <<f>>
      BY <1>1, <2>1
    <3> QED BY <1>1, <1>6, <2>1, <3>1 DEF InFills, NoFill
  <2>2. CASE \E f \in LotFills : fills = <<f>> /\ f.side = i.side
    <3>1. PICK f \in LotFills : fills = <<f>> /\ f.side = i.side
      BY <2>2
    <3>2. \A g : fills' = <<g>> => g = f
      BY <1>1, <3>1
    <3>3. OneFill' /\ applied' \in {0, 1}
      BY <1>1, <1>6, <3>1 DEF OneFill
    <3>4. \A g \in LotFills : fills' = <<g>> => CanTake(g.side)'
      BY <1>1, <1>2, <3>1, <3>2 DEF CanTake, accountVars
    <3> QED BY <3>3, <3>4 DEF InFills
  <2> QED BY <1>5, <2>1, <2>2
<1> QED BY <1>3, <1>4, <1>7 DEF Lots

LEMMA RunGatewayKeepsLots ==
  ASSUME Lots, GatewayOK, RunGateway
  PROVE  Lots'
<1>1. Gateway!SimSweep \/ Gateway!SimReturn \/ Gateway!ProcessReport \/ Gateway!Return
  BY DEF RunGateway, Gateway!Running
<1> QED BY <1>1, SweepKeepsLots, SimReturnKeepsLots, ProcessReportKeepsLots, ReturnKeepsLots

LEMMA FillMoves ==
  ASSUME Lots, BookFill
  PROVE  \E f \in LotFills :
           /\ applied = 0 /\ fills = <<f>> /\ CanTake(f.side)
           /\ Account!ApplyFill(f) /\ Strategy!OnFill(f)
           /\ position' = position + Step(f.side)
<1>1. /\ stage = "fills" /\ stage' = stage /\ applied' = applied + 1
      /\ UNCHANGED gatewayVars /\ intents' = intents
  BY DEF BookFill
<1>2. OneFill /\ applied = 0
  <2>1. applied < Len(fills)
    BY DEF BookFill
  <2>2. ~NoFill \/ applied # 0
    BY <2>1 DEF NoFill
  <2>3. OneFill /\ applied \in {0, 1}
    BY <1>1, <2>2 DEF Lots, InFills
  <2>4. Len(fills) = 1
    BY <2>3 DEF OneFill
  <2> QED BY <2>1, <2>3, <2>4
<1>3. PICK f \in LotFills : fills = <<f>> /\ CanTake(f.side)
  BY <1>1, <1>2 DEF Lots, InFills, OneFill
<1>4. fills[applied'] = f
  BY <1>1, <1>2, <1>3
<1>5. Account!ApplyFill(f) /\ Strategy!OnFill(f)
  BY <1>4 DEF BookFill
<1>6. f.side \in Sides /\ f.qty = lot_size /\ lot_size \in Int /\ position \in Int
  BY <1>3, LoopAssumption DEF LotFills, Uint32, Lots, Accounts
<1>7. position' = position + Step(f.side)
  BY <1>5, <1>6 DEF Account!ApplyFill, Account!Bid, Account!Ask, Step
<1> QED BY <1>2, <1>3, <1>5, <1>7

\* Booking the lot that was filled uses the room the check had found.
LEMMA BookFillKeepsLots ==
  ASSUME Lots, BookFill
  PROVE  Lots'
<1>1. /\ stage = "fills" /\ stage' = stage /\ applied' = applied + 1
      /\ UNCHANGED gatewayVars /\ intents' = intents
  BY DEF BookFill
<1>2. PICK f \in LotFills : /\ applied = 0 /\ fills = <<f>> /\ CanTake(f.side)
                            /\ Account!ApplyFill(f) /\ Strategy!OnFill(f)
                            /\ position' = position + Step(f.side)
  BY FillMoves
<1>3. f.side \in Sides /\ f.qty = lot_size /\ f.price \in Int /\ lot_size \in Int
  BY <1>2, LoopAssumption DEF LotFills, Uint32
<1>4. f.qty * f.price \in Int
  BY <1>3
<1>5. Accounts'
  <2>1. inventory' = inventory + Step(f.side)
    BY <1>2, <1>3 DEF Strategy!OnFill, Strategy!Signed, Strategy!Bid, Step
  <2>2. cash' = cash - f.qty * f.price \/ cash' = cash + f.qty * f.price
    BY <1>2 DEF Account!ApplyFill
  <2>3. cash' \in Int
    BY <1>4, <2>2 DEF Lots, Accounts
  <2> QED BY <1>2, <2>1, <2>3 DEF Lots, Accounts, CanTake
<1>6. RestingLots' /\ Len(reports') <= 2 /\ Pending' /\ InGateway'
  BY <1>1 DEF Lots, RestingLots, Pending, InGateway, gatewayVars
<1>7. InFills'
  BY <1>1, <1>2 DEF InFills, OneFill, gatewayVars
<1> QED BY <1>5, <1>6, <1>7 DEF Lots
-----------------------------------------------------------------------------
(* The reference price.  The update in hand is the book's own cache, and   *)
(* there are quotes only when it had two prices.                           *)

UpdateIsCache == \A top \in bbo : top = cached

Quoting ==
  stage \in {"intents", "gateway", "fills"} /\ intents # << >> =>
    \E top \in bbo : \A s \in Sides : top[s].px # INVALID_PRICE

Priced == UpdateIsCache /\ Quoting

LEMMA ReadKeepsPriced ==
  ASSUME Read
  PROVE  Priced'
<1>1. Book!Next /\ stage' = "quote"
  BY DEF Read
<1>2. bbo' = None \/ bbo' = {cached'}
  BY <1>1 DEF Book!Next, Book!AddOrder, Book!ModifyOrder, Book!CancelOrder, Book!ApplyTrade,
              Book!Clear, Book!Ignore, Book!MaybeBboUpdate
<1> QED BY <1>1, <1>2 DEF Priced, UpdateIsCache, Quoting

LEMMA OnUpdateKeepsPriced ==
  ASSUME Priced, OnUpdate
  PROVE  Priced'
<1>1. UNCHANGED <<cached, bbo>>
  BY DEF OnUpdate, bookVars
<1>2. CASE stage' = "read"
  BY <1>1, <1>2 DEF Priced, UpdateIsCache, Quoting
<1>3. ASSUME NEW top \in bbo, intents' = Strategy!OnBbo(top)
      PROVE  Quoting'
  <2>1. intents' # << >> => \A s \in Sides : top[s].px # INVALID_PRICE
    BY <1>3 DEF Strategy!OnBbo, Strategy!Sides, Strategy!Bid, Strategy!Ask,
                Strategy!INVALID_PRICE, INVALID_PRICE
  <2> QED BY <1>1, <1>3, <2>1 DEF Quoting
<1> QED BY <1>1, <1>2, <1>3 DEF OnUpdate, Priced, UpdateIsCache

\* The other steps change neither the book nor the update, and no step but
\* OnUpdate brings quotes where there were none.
LEMMA OtherStepsKeepPriced ==
  ASSUME Priced,
         Reject \/ Submit \/ RunGateway \/ BookFill \/ NextIntent \/ Continue \/ UNCHANGED vars
  PROVE  Priced'
<1>1. UNCHANGED <<cached, bbo>>
  BY DEF Reject, Submit, RunGateway, BookFill, NextIntent, Continue, vars, bookVars
<1>2. /\ intents' # << >> => intents # << >>
      /\ stage' \in {"intents", "gateway", "fills"} => stage \in {"intents", "gateway", "fills"}
  BY DEF Reject, Submit, RunGateway, BookFill, NextIntent, Continue, vars
<1> QED BY <1>1, <1>2 DEF Priced, UpdateIsCache, Quoting

\* A book whose cache has two prices has two sides, and its midprice is the
\* middle of the two.
LEMMA MidpriceIsFair ==
  ASSUME BookOK, NEW top \in bbo, top = cached, \A s \in Sides : top[s].px # INVALID_PRICE
  PROVE  Book!IsValid /\ ref_price = Strategy!Fair(top)
<1>1. /\ cached \in [Sides -> [px : Prices \cup {INVALID_PRICE}, qty : B!Uint32]]
      /\ \A s \in Sides : cached[s] = B!TopOf(s, levels[s])
  BY DEF BookOK, B!IInv, B!TypeOK, B!Tops, B!CacheCoherent, B!INVALID_PRICE, INVALID_PRICE
<1>2. Book!IsValid
  <2>1. \A s \in Sides : DOMAIN levels[s] = {} => cached[s].px = INVALID_PRICE
    BY <1>1 DEF B!TopOf, B!EmptyTop, B!INVALID_PRICE, INVALID_PRICE
  <2> QED BY <2>1 DEF Book!IsValid
<1>3. \A s \in Sides : cached[s].px \in Nat /\ cached[s].px < U32
  <2>1. \A s \in Sides : cached[s].px \in Prices
    BY <1>1
  <2>2. \A p \in Prices : p \in Nat /\ p < U32
    BY LoopAssumption, U32Assumption DEF INVALID_PRICE
  <2> QED BY <2>1, <2>2
<1> DEFINE bid == cached[Bid].px
           ask == cached[Ask].px
<1>4. bid \in Nat /\ bid < U32 /\ ask \in Nat /\ ask < U32
  BY <1>3
<1>5. Book!Midprice = (bid + ask) \div 2 /\ Strategy!Fair(top) = (bid + ask) \div 2
  BY <1>2 DEF Book!Midprice, Strategy!Fair, Strategy!Bid, Strategy!Ask
<1> HIDE DEF bid, ask
<1>6. (bid + ask) \div 2 \in Nat /\ (bid + ask) \div 2 < U32
  BY <1>4, U32Assumption
<1>7. ((bid + ask) \div 2) % U32 = (bid + ask) \div 2
  BY <1>6, U32Assumption
<1> QED BY <1>2, <1>5, <1>7 DEF ref_price
-----------------------------------------------------------------------------
(* The way home.                                                           *)

\* The middle of two prices of the feed is no greater than one of them.
LEMMA FairIs ==
  ASSUME BookOK, NEW top \in bbo, top = cached, \A s \in Sides : top[s].px # INVALID_PRICE
  PROVE  /\ Strategy!Fair(top) \in Nat /\ Strategy!Fair(top) < INVALID_PRICE
         /\ \E p \in Prices : Strategy!Fair(top) <= p
<1>1. cached \in [Sides -> [px : Prices \cup {INVALID_PRICE}, qty : B!Uint32]]
  BY DEF BookOK, B!IInv, B!TypeOK, B!Tops, B!INVALID_PRICE, INVALID_PRICE
<1> DEFINE bid == cached[Bid].px
           ask == cached[Ask].px
<1>2. bid \in Prices /\ ask \in Prices
  BY <1>1
<1>3. Strategy!Fair(top) = (bid + ask) \div 2
  BY DEF Strategy!Fair, Strategy!Bid, Strategy!Ask
<1>4. \A p \in Prices : p \in Nat /\ p < INVALID_PRICE
  BY LoopAssumption, U32Assumption DEF INVALID_PRICE
<1> HIDE DEF bid, ask
<1>5. bid \in Nat /\ ask \in Nat /\ bid < INVALID_PRICE /\ ask < INVALID_PRICE
      /\ INVALID_PRICE \in Int
  BY <1>2, <1>4, U32Assumption DEF INVALID_PRICE
<1>6. (bid + ask) \div 2 \in Nat /\ ((bid + ask) \div 2 <= bid \/ (bid + ask) \div 2 <= ask)
  BY <1>5
<1>7. (bid + ask) \div 2 < INVALID_PRICE
  BY <1>5, <1>6
<1>8. \E p \in Prices : (bid + ask) \div 2 <= p
  BY <1>2, <1>6
<1> QED BY <1>3, <1>6, <1>7, <1>8

LEMMA ReferenceIs ==
  ASSUME BookOK, Priced, stage \in {"intents", "gateway", "fills"}, intents # << >>
  PROVE  /\ ref_price \in Nat /\ ref_price < INVALID_PRICE
         /\ \E p \in Prices : ref_price <= p
<1>1. PICK top \in bbo : top = cached /\ \A s \in Sides : top[s].px # INVALID_PRICE
  BY DEF Priced, UpdateIsCache, Quoting
<1>2. ref_price = Strategy!Fair(top)
  BY <1>1, MidpriceIsFair
<1> QED BY <1>1, <1>2, FairIs

\* How far a quote made at inventory q is from the reference price.
LEMMA OfferIs ==
  ASSUME NEW i \in Quotes, NEW q \in Int, OfferedAt(q, i), ref_price \in Nat
  PROVE  LET d == Risk!Distance(i.price, ref_price)
             h == Size(q) \div 2
             away == (i.side = Bid) = (q >= 0)
         IN  /\ h \in Nat /\ d \in Nat
             /\ away \/ q = 0 => d = base_spread_ticks + h
             /\ ~away /\ q # 0 => d = base_spread_ticks - h \/ d = h - base_spread_ticks
             /\ i.price <= ref_price + base_spread_ticks + h
<1> DEFINE h == Size(q) \div 2
           d == Risk!Distance(i.price, ref_price)
<1>1. base_spread_ticks \in Nat /\ i.price \in Nat /\ i.side \in {Bid, Ask}
  BY HomeConstants, U32Assumption DEF Quotes, Uint32
<1>2. h \in Nat /\ (IF q >= 0 THEN q \div 2 ELSE -((-q) \div 2)) = IF q >= 0 THEN h ELSE -h
  BY DEF Size
<1>3. i.price = ref_price + (IF i.side = Bid THEN -base_spread_ticks ELSE base_spread_ticks)
                          - (IF q >= 0 THEN h ELSE -h)
  BY <1>2 DEF OfferedAt
<1>4. q = 0 => h = 0
  BY DEF Size
<1>5. d = IF i.price < ref_price THEN ref_price - i.price ELSE i.price - ref_price
  BY DEF Risk!Distance
<1> HIDE DEF h, d
<1>6. /\ i.side = Bid /\ q >= 0 => d = base_spread_ticks + h
      /\ i.side = Ask /\ q <= 0 => d = base_spread_ticks + h
      /\ i.side = Bid /\ q < 0 => d = base_spread_ticks - h \/ d = h - base_spread_ticks
      /\ i.side = Ask /\ q > 0 => d = base_spread_ticks - h \/ d = h - base_spread_ticks
      /\ i.side = Bid /\ q = 0 => d = base_spread_ticks + h
  <2>1. CASE i.side = Bid
    BY <1>1, <1>2, <1>3, <1>4, <1>5, <2>1
  <2>2. CASE i.side = Ask
    BY <1>1, <1>2, <1>3, <1>4, <1>5, <2>2
  <2> QED BY <1>1, <2>1, <2>2
<1>7. d \in Nat /\ i.price <= ref_price + base_spread_ticks + h
  BY <1>1, <1>2, <1>3, <1>5
<1>8. /\ (i.side = Bid) = (q >= 0) \/ q = 0 => d = base_spread_ticks + h
      /\ ~((i.side = Bid) = (q >= 0)) /\ q # 0
           => d = base_spread_ticks - h \/ d = h - base_spread_ticks
  BY <1>1, <1>6
<1>9. h \in Nat /\ d \in Nat
  BY <1>2, <1>7
<1> QED BY <1>7, <1>8, <1>9 DEF h, d

\* What the collar lets pass leads no further from zero than AwayPasses says.
LEMMA CollarMeans ==
  ASSUME NEW i \in Quotes, NEW q \in Int, OfferedAt(q, i),
         ref_price \in Nat, ref_price < INVALID_PRICE, Verdict(i) = "Accept",
         (i.side = Bid) = (q >= 0) \/ q = 0
  PROVE  AwayPasses(q)
<1>1. Risk!WithinCollar(i, ref_price)
  BY DEF Verdict, Risk!Validate
<1>2. price_collar_ticks = 0 \/ Risk!Distance(i.price, ref_price) <= price_collar_ticks
  BY <1>1, U32Assumption DEF Risk!WithinCollar, Risk!INVALID_PRICE, INVALID_PRICE
<1> QED BY <1>2, OfferIs DEF AwayPasses
\* The position after the fill of an accepted quote is one that leads back.
LEMMA BidStaysOnWay ==
  ASSUME LeadsHome, position \in Reached, NEW i \in Quotes, i.side = Bid, OfferedAt(position, i),
         ref_price \in Nat, ref_price < INVALID_PRICE, Verdict(i) = "Accept"
  PROVE  position + Step(i.side) \in Reached
<1>1. position \in Int /\ Step(i.side) = lot_size
  BY HomeConstants DEF Reached, Step
<1>2. CASE position < 0
  BY <1>1, <1>2, BackIsReached
<1>3. CASE position >= 0
  <2>1. AwayPasses(position)
    BY <1>1, <1>3, CollarMeans
  <2>2. position + lot_size <= max_position
    BY <1>1, AcceptMeansRoom, HomeConstants
  <2> QED BY <1>1, <1>3, <2>1, <2>2, AwayIsReached
<1> QED BY <1>1, <1>2, <1>3

LEMMA AskStaysOnWay ==
  ASSUME LeadsHome, position \in Reached, NEW i \in Quotes, LastAsk(i),
         ref_price \in Nat, ref_price < INVALID_PRICE, Verdict(i) = "Accept"
  PROVE  position + Step(i.side) \in Reached
<1>1. PICK q \in Reached : OfferedAt(q, i) /\ position \in {q, q + lot_size}
  BY DEF LastAsk
<1>2. position \in Int /\ q \in Int /\ i.side = Ask /\ Step(i.side) = -lot_size
  BY HomeConstants DEF Reached, Step, LastAsk
<1>3. CASE position = q + lot_size
  <2>1. position + Step(i.side) = q
    BY <1>2, <1>3, HomeConstants
  <2> QED BY <2>1
<1>4. CASE position = q /\ q > 0
  <2>1. position + Step(i.side) = q - lot_size
    BY <1>2, <1>4, HomeConstants
  <2> QED BY <1>4, <2>1, BackIsReached
<1>5. CASE position = q /\ q <= 0
  <2>1. AwayPasses(q)
    BY <1>1, <1>2, <1>5, CollarMeans
  <2>2. position + Step(i.side) = q - lot_size
    BY <1>2, <1>5, HomeConstants
  <2>3. q - lot_size >= -max_position
    BY <1>2, <2>2, AcceptMeansRoom, HomeConstants
  <2> QED BY <1>5, <2>1, <2>2, <2>3, AwayIsReached
<1> QED BY <1>1, <1>2, <1>3, <1>4, <1>5

LEMMA SubmitStaysOnWay ==
  ASSUME BookOK, Lots, Priced, OnWayHome, Submit
  PROVE  StaysOnWay(Head(intents))
<1> SUFFICES ASSUME LeadsHome
             PROVE  /\ position + Step(Head(intents).side) \in Reached
                    /\ Tail(intents) # << >> => Head(intents).side = Bid
  BY DEF StaysOnWay
<1>1. /\ stage = "intents" /\ intents # << >> /\ Verdict(Head(intents)) = "Accept"
      /\ position \in Reached /\ QuotesLeft
  BY DEF Submit, OnWayHome
<1>2. ref_price \in Nat /\ ref_price < INVALID_PRICE
  BY <1>1, ReferenceIs
<1>3. CASE \E i \in Quotes : intents = <<i>> /\ LastAsk(i)
  <2>1. PICK i \in Quotes : intents = <<i>> /\ LastAsk(i)
    BY <1>3
  <2>2. Head(intents) = i /\ Tail(intents) = << >>
    BY <2>1
  <2> QED BY <1>1, <1>2, <2>1, <2>2, AskStaysOnWay
<1>4. CASE \E i \in Quotes : intents = <<i>> /\ i.side = Bid /\ OfferedAt(position, i)
  <2>1. PICK i \in Quotes : intents = <<i>> /\ i.side = Bid /\ OfferedAt(position, i)
    BY <1>4
  <2>2. Head(intents) = i /\ Tail(intents) = << >>
    BY <2>1
  <2> QED BY <1>1, <1>2, <2>1, <2>2, BidStaysOnWay
<1>5. CASE \E i, j \in Quotes : intents = <<i, j>> /\ i.side = Bid /\ OfferedAt(position, i)
  <2>1. PICK i \in Quotes, j \in Quotes : intents = <<i, j>> /\ i.side = Bid /\ OfferedAt(position, i)
    BY <1>5
  <2>2. Head(intents) = i
    BY <2>1
  <2> QED BY <1>1, <1>2, <2>1, <2>2, BidStaysOnWay
<1> QED BY <1>1, <1>3, <1>4, <1>5 DEF QuotesLeft

\* The state a quote was offered in does not change while it is pending.
LEMMA OfferLasts ==
  ASSUME UNCHANGED bookVars
  PROVE  ref_price' = ref_price /\ \A q, i : OfferedAt(q, i)' <=> OfferedAt(q, i)
<1>1. ref_price' = ref_price
  BY DEF ref_price, Book!Midprice, Book!IsValid, bookVars
<1> QED BY <1>1 DEF OfferedAt

LEMMA TakingKeepsHome ==
  ASSUME OnWayHome, Reject \/ Submit
  PROVE  OnWayHome'
<1>1. /\ stage = "intents" /\ intents # << >> /\ intents' = Tail(intents) /\ stage' \in {"intents", "gateway"}
      /\ UNCHANGED bookVars /\ UNCHANGED accountVars
  BY DEF Reject, Submit
<1> SUFFICES ASSUME LeadsHome PROVE position' \in Reached /\ QuotesLeft'
  BY DEF OnWayHome
<1>2. QuotesLeft /\ position \in Reached /\ position' = position
  BY <1>1 DEF OnWayHome, accountVars
<1>3. CASE \E i \in Quotes : intents = <<i>>
  <2>1. intents' = << >>
    BY <1>1, <1>3
  <2> QED BY <1>2, <2>1 DEF QuotesLeft
<1>4. CASE \E i, j \in Quotes : /\ intents = <<i, j>> /\ i.side = Bid /\ j.side = Ask
                                /\ OfferedAt(position, i) /\ OfferedAt(position, j)
  <2>1. PICK i \in Quotes, j \in Quotes : intents = <<i, j>> /\ j.side = Ask /\ OfferedAt(position, j)
    BY <1>4
  <2>2. intents' = <<j>>
    BY <1>1, <2>1
  <2>3. LastAsk(j)'
    BY <1>1, <1>2, <2>1, OfferLasts DEF LastAsk
  <2> QED BY <1>2, <2>2, <2>3 DEF QuotesLeft
<1> QED BY <1>1, <1>2, <1>3, <1>4 DEF QuotesLeft

LEMMA RunGatewayKeepsHome ==
  ASSUME OnWayHome, RunGateway, Lots
  PROVE  OnWayHome'
<1>1. /\ stage = "gateway" /\ intents' = intents /\ stage' \in {"gateway", "fills"}
      /\ UNCHANGED bookVars /\ UNCHANGED accountVars
  BY DEF RunGateway
<1> SUFFICES ASSUME LeadsHome PROVE position' \in Reached /\ QuotesLeft'
  BY DEF OnWayHome
<1>2. QuotesLeft /\ position \in Reached /\ position' = position
  BY <1>1 DEF OnWayHome, accountVars
<1>3. ASSUME NEW i \in Quotes, intents = <<i>>, LastAsk(i)
      PROVE  LastAsk(i)'
  BY <1>1, <1>2, <1>3, OfferLasts DEF LastAsk
<1> QED BY <1>1, <1>2, <1>3 DEF QuotesLeft
\* A fill takes the position on to where the check found it could go; the
\* quote that may still be pending is the ask offered before it.
LEMMA BookFillKeepsHome ==
  ASSUME OnWayHome, BookFill, Lots
  PROVE  OnWayHome'
<1> SUFFICES ASSUME LeadsHome PROVE position' \in Reached /\ QuotesLeft'
  BY DEF OnWayHome
<1>1. /\ stage = "fills" /\ stage' = "fills" /\ applied' = applied + 1 /\ intents' = intents
      /\ UNCHANGED bookVars /\ QuotesLeft /\ position \in Reached
  BY DEF BookFill, OnWayHome
<1>2. PICK f \in LotFills : /\ applied = 0 /\ CanTake(f.side)
                            /\ position' = position + Step(f.side)
  BY FillMoves
<1>3. position' \in Reached /\ (intents # << >> => f.side = Bid)
  BY <1>2 DEF CanTake
<1>4. ASSUME NEW i \in Quotes, intents = <<i>>, LastAsk(i)
      PROVE  LastAsk(i)'
  <2>1. PICK q \in Reached : OfferedAt(q, i) /\ position = q
    BY <1>1, <1>2, <1>4 DEF LastAsk
  <2>2. position' = q + lot_size
    BY <1>2, <1>3, <1>4, <2>1 DEF Step
  <2>3. applied' # 0
    BY <1>1, <1>2
  <2> QED BY <1>1, <1>4, <2>1, <2>2, <2>3, OfferLasts DEF LastAsk
<1> QED BY <1>1, <1>3, <1>4 DEF QuotesLeft

\* New quotes are made around the reference price at the inventory in hand, and
\* no cast changes their prices.
LEMMA QuotesAreOffered ==
  ASSUME BookOK, LeadsHome, position \in Reached, inventory = position,
         NEW top \in bbo, top = cached, \A s \in Sides : top[s].px # INVALID_PRICE,
         Strategy!BidPx(top) > 0, Strategy!AskPx(top) > 0
  PROVE  /\ OfferedAt(position, Strategy!Quote(Bid, Strategy!BidPx(top)))
         /\ OfferedAt(position, Strategy!Quote(Ask, Strategy!AskPx(top)))
<1> DEFINE fair == Strategy!Fair(top)
           bid == Strategy!BidPx(top)
           ask == Strategy!AskPx(top)
<1>1. ref_price = fair /\ fair \in Nat
  BY MidpriceIsFair, FairIs
<1>2. PICK p \in Prices : fair <= p
  BY FairIs
<1>3. p \in Nat /\ p + base_spread_ticks + max_position < U32
  BY LoopAssumption, U32Assumption DEF LeadsHome, INVALID_PRICE
<1>4. position \in Int /\ -max_position <= position /\ position <= max_position
  BY HomeConstants DEF Reached
<1> DEFINE skew == IF position >= 0 THEN position \div 2 ELSE -((-position) \div 2)
<1>5. bid = fair - base_spread_ticks - skew /\ ask = fair + base_spread_ticks - skew
  BY DEF Strategy!BidPx, Strategy!AskPx, Strategy!Skew
<1>6. skew \in Int /\ -max_position <= skew /\ skew <= max_position
  BY <1>4, HomeConstants
<1> HIDE DEF fair, bid, ask, skew
<1>7. bid \in Int /\ bid > 0 /\ bid < U32 /\ ask \in Int /\ ask > 0 /\ ask < U32
  <2>1. bid > 0 /\ ask > 0
    BY DEF bid, ask
  <2> QED BY <1>1, <1>2, <1>3, <1>5, <1>6, <2>1, HomeConstants, U32Assumption
<1>8. bid % U32 = bid /\ ask % U32 = ask
  BY <1>7, U32Assumption
<1>9. /\ Strategy!Quote(Bid, bid).price = ref_price + (-base_spread_ticks) - skew
      /\ Strategy!Quote(Ask, ask).price = ref_price + base_spread_ticks - skew
  <2>1. Strategy!Quote(Bid, bid).price = bid /\ Strategy!Quote(Ask, ask).price = ask
    BY <1>8 DEF Strategy!Quote
  <2> QED BY <1>1, <1>5, <1>6, <2>1, HomeConstants
<1>10. Strategy!Quote(Bid, bid).side = Bid /\ Strategy!Quote(Ask, ask).side = Ask
  BY DEF Strategy!Quote
<1> QED BY <1>9, <1>10 DEF OfferedAt, bid, ask, skew

LEMMA OnUpdateKeepsHome ==
  ASSUME OnWayHome, BookOK, Lots, Priced, OnUpdate
  PROVE  OnWayHome'
<1> SUFFICES ASSUME LeadsHome
             PROVE  position' \in Reached /\ (stage' = "intents" => QuotesLeft')
  BY DEF OnWayHome, OnUpdate
<1>1. /\ UNCHANGED bookVars /\ position' = position /\ position \in Reached
      /\ inventory = position /\ inventory \in Int
  BY HomeConstants DEF OnUpdate, accountVars, OnWayHome, Lots, Accounts
<1>2. ASSUME NEW top \in bbo, intents' = Strategy!OnBbo(top), stage' = "intents"
      PROVE  QuotesLeft'
  <2>1. top = cached /\ \A s \in Sides : top[s].px \in Nat
    <3>1. top \in B!Tops /\ top = cached
      BY DEF BookOK, B!IInv, B!TypeOK, Priced, UpdateIsCache
    <3>2. Prices \cup {B!INVALID_PRICE} \subseteq Nat
      BY LoopAssumption, U32Assumption DEF B!INVALID_PRICE, INVALID_PRICE
    <3> QED BY <3>1, <3>2 DEF B!Tops
  <2> DEFINE b == Strategy!Quote(Bid, Strategy!BidPx(top))
             a == Strategy!Quote(Ask, Strategy!AskPx(top))
  <2>2. b \in Quotes /\ a \in Quotes /\ b.side = Bid /\ a.side = Ask
        /\ \/ Strategy!OnBbo(top) \in {<< >>, <<b>>, <<a>>, <<b, a>>}
    BY <1>1, <2>1, OnBboIs DEF Strategy!Quote
  <2>3. CASE Strategy!OnBbo(top) = << >>
    BY <1>2, <2>3 DEF QuotesLeft
  <2>4. CASE Strategy!OnBbo(top) # << >>
    <3>1. /\ \A s \in Sides : top[s].px # INVALID_PRICE
          /\ Strategy!BidPx(top) > 0 /\ Strategy!AskPx(top) > 0
      <4>1. /\ \A s \in Sides : top[s].px # INVALID_PRICE
            /\ ~(Strategy!BidPx(top) <= 0) /\ ~(Strategy!AskPx(top) <= 0)
        BY <2>4 DEF Strategy!OnBbo, Strategy!Sides, Strategy!Bid, Strategy!Ask,
                    Strategy!INVALID_PRICE, INVALID_PRICE
      <4>2. Strategy!BidPx(top) \in Int /\ Strategy!AskPx(top) \in Int
        BY <1>1, <2>1, QuotePricesInt
      <4> QED BY <4>1, <4>2
    <3>2. OfferedAt(position, b) /\ OfferedAt(position, a)
      BY <1>1, <2>1, <3>1, QuotesAreOffered
    <3>3. PICK i \in Quotes, j \in Quotes :
                 /\ i.side = Bid /\ j.side = Ask
                 /\ OfferedAt(position, i) /\ OfferedAt(position, j)
                 /\ intents' \in {<<i>>, <<j>>, <<i, j>>}
      BY <1>2, <2>2, <2>4, <3>2
    <3>4. OfferedAt(position, i)' /\ OfferedAt(position, j)'
      BY <1>1, <3>3, OfferLasts
    <3>5. LastAsk(j)'
      BY <1>1, <1>2, <3>3, <3>4 DEF LastAsk
    <3> QED BY <1>2, <3>3, <3>4, <3>5 DEF QuotesLeft
  <2> QED BY <2>3, <2>4
<1>3. CASE stage' = "read"
  BY <1>1, <1>3
<1> QED BY <1>1, <1>2, <1>3 DEF OnUpdate

\* The steps that neither change the book nor add quotes.
LEMMA OtherStepsKeepHome ==
  ASSUME OnWayHome, Lots, Read \/ NextIntent \/ Continue \/ UNCHANGED vars
  PROVE  OnWayHome'
<1>1. position' = position
  BY DEF Read, NextIntent, Continue, vars, accountVars
<1>2. CASE Read \/ Continue
  BY <1>1, <1>2 DEF Read, Continue, OnWayHome
<1>3. CASE NextIntent \/ UNCHANGED vars
  <2>1. /\ UNCHANGED bookVars /\ intents' = intents /\ applied' = applied
        /\ stage' = stage \/ (stage = "fills" /\ stage' = "intents")
    BY <1>3 DEF NextIntent, vars
  <2> QED BY <1>1, <2>1, OfferLasts DEF OnWayHome, QuotesLeft, LastAsk
<1> QED BY <1>2, <1>3

\* The quote that reduces the position passes every check, whichever of the two
\* it is and whether or not the other one filled before it.
LEMMA ReducingPasses ==
  ASSUME BookOK, Lots, Priced, OnWayHome, LeadsHome, stage = "intents", intents # << >>,
         NEW i \in Quotes, NEW q \in Reached, OfferedAt(q, i),
         \/ i.side = Bid /\ position < 0 /\ q = position
         \/ i.side = Ask /\ position > 0 /\ position \in {q, q + lot_size}
  PROVE  Verdict(i) = "Accept"
<1>1. /\ position \in Reached /\ position \in Int /\ -max_position <= position
      /\ position <= max_position /\ InLots(position) /\ position # 0 /\ BackPasses(position)
  BY HomeConstants DEF OnWayHome, Reached
<1>2. q \in Int /\ -max_position <= q /\ q <= max_position /\ InLots(q)
  BY HomeConstants DEF Reached
<1>3. i.qty = lot_size /\ i.price \in Nat
  BY U32Assumption DEF Quotes, Uint32
<1>4. Risk!WithinPosition(i, position)
  <2>1. (position > 0 => position >= lot_size) /\ (position < 0 => position <= -lot_size)
    BY <1>1, LotsApart
  <2> QED BY <1>1, <1>3, <2>1, HomeConstants
          DEF Risk!WithinPosition, Risk!NewPosition, Risk!Bid
<1>5. ref_price \in Nat /\ \E p \in Prices : ref_price <= p
  BY ReferenceIs
<1> DEFINE h == Size(q) \div 2
           d == Risk!Distance(i.price, ref_price)
<1>6. q = position \/ (q >= 0 /\ position = q + lot_size)
  <2>1. CASE position = q + lot_size /\ position > 0 /\ q < 0
    <3>1. q <= -lot_size
      BY <1>2, <2>1, LotsApart
    <3> QED BY <1>2, <2>1, <3>1, HomeConstants
  <2> QED BY <1>1, <1>2, <2>1
<1>7. Size(q) \in Nat /\ Size(q) <= Size(position) /\ Size(position) \in Nat
      /\ Size(position) <= max_position
  BY <1>1, <1>2, <1>6, HomeConstants DEF Size
<1>8. h \in Nat /\ h <= Size(position) \div 2 /\ h <= max_position
  BY <1>7, HomeConstants
<1>9. Risk!WithinCollar(i, ref_price)
  <2>1. /\ d \in Nat
        /\ d = base_spread_ticks - h \/ d = h - base_spread_ticks \/ (d = base_spread_ticks + h /\ h = 0)
    <3>1. d \in Nat
      BY <1>2, <1>5, OfferIs
    <3>2. ~((i.side = Bid) = (q >= 0)) /\ q # 0
            => d = base_spread_ticks - h \/ d = h - base_spread_ticks
      BY <1>2, <1>5, OfferIs
    <3>3. q = 0 => d = base_spread_ticks + h /\ h = 0
      BY <1>2, <1>5, OfferIs DEF Size
    <3>4. q # 0 => ~((i.side = Bid) = (q >= 0))
      BY <1>1, <1>2, <1>6, HomeConstants
    <3> QED BY <3>1, <3>2, <3>3, <3>4
  <2>2. \/ price_collar_ticks = 0
        \/ /\ base_spread_ticks <= price_collar_ticks
           /\ Size(position) \div 2 <= base_spread_ticks + price_collar_ticks
    BY <1>1 DEF BackPasses
  <2> HIDE DEF h, d
  <2>3. Size(position) \div 2 \in Int
    BY <1>7
  <2>4. price_collar_ticks = 0 \/ d <= price_collar_ticks
    BY <1>8, <2>1, <2>2, <2>3, HomeConstants
  <2> QED BY <2>4 DEF Risk!WithinCollar, d
<1>10. Account!Abs(position) * ref_price + i.qty * i.price <= max_notional
  <2>1. PICK p \in Prices : ref_price <= p
    BY <1>5
  <2>2. /\ p \in Nat
        /\ max_position * p + lot_size * (p + base_spread_ticks + max_position) <= max_notional
    BY LoopAssumption, U32Assumption DEF LeadsHome, INVALID_PRICE
  <2>3. Account!Abs(position) \in Nat /\ Account!Abs(position) <= max_position
    BY <1>1, HomeConstants DEF Account!Abs
  <2>4. i.price <= p + base_spread_ticks + max_position
    <3>1. i.price <= ref_price + base_spread_ticks + h
      BY <1>2, <1>5, OfferIs
    <3> HIDE DEF h
    <3> QED BY <1>3, <1>5, <1>8, <2>1, <2>2, <3>1, HomeConstants
  <2>5. Account!Abs(position) * ref_price <= max_position * p
    BY <1>5, <2>1, <2>2, <2>3, HomeConstants, ProductsGrow
  <2>6. lot_size * i.price <= lot_size * (p + base_spread_ticks + max_position)
    BY <1>3, <2>2, <2>4, HomeConstants, ProductsGrow
  <2>7. /\ Account!Abs(position) * ref_price \in Int /\ lot_size * i.price \in Int
        /\ max_position * p \in Int /\ lot_size * (p + base_spread_ticks + max_position) \in Int
    BY <1>3, <1>5, <2>2, <2>3, HomeConstants
  <2> QED BY <1>3, <2>2, <2>5, <2>6, <2>7, HomeConstants
<1>11. ~(i.qty > max_order_qty)
  BY <1>3, HomeConstants DEF LeadsHome
<1> DEFINE exposure == Account!Abs(position) * ref_price
<1>12. ~(exposure + i.qty * i.price > max_notional)
  <2>1. exposure \in Int /\ i.qty * i.price \in Int
    BY <1>1, <1>3, <1>5, HomeConstants DEF Account!Abs
  <2> QED BY <1>10, <2>1, HomeConstants
<1> QED BY <1>4, <1>9, <1>11, <1>12 DEF Verdict, Risk!Validate, Account!Snapshot

-----------------------------------------------------------------------------
(* The inductive argument, and what follows from it.                       *)

IInv == BookOK /\ GatewayOK /\ Lots /\ Priced /\ OnWayHome

LEMMA InitEstablishes == Init => IInv
<1> SUFFICES ASSUME Init PROVE IInv
  OBVIOUS
<1>1. BookOK
  <2>1. B!Init
    BY DEF Init, Book!Init, B!Init, Book!EmptyTop, B!EmptyTop, Book!INVALID_PRICE, B!INVALID_PRICE
  <2> QED BY <2>1, B!InitEstablishes, BookAssumptionHolds
          DEF BookOK, B!BookAssumption, B!U32Assumption
<1>2. GatewayOK
  <2>1. G!Init
    BY DEF Init, Gateway!Init, G!Init, Gateway!Sim!Init, G!Sim!Init
  <2> QED BY <2>1, G!InitEstablishes, GatewayAssumptionHolds
          DEF GatewayOK, G!GatewayAssumption, G!U32Assumption
<1>3. /\ resting = [s \in Sides |-> [p \in {} |-> 0]] /\ reports = << >> /\ fills = << >>
      /\ pc = "idle" /\ stage = "read" /\ intents = << >> /\ applied = 0 /\ bbo = None
      /\ position = 0 /\ cash = 0 /\ inventory = 0
  BY DEF Init, Gateway!Init, Gateway!Sim!Init, Book!Init, Account!Init, Strategy!Init
<1>4. Lots
  <2>1. RestingLots /\ Len(reports) <= 2
    BY <1>3 DEF RestingLots
  <2>2. Accounts
    BY <1>3, LoopAssumption DEF Accounts
  <2>3. InGateway /\ InFills /\ Pending
    BY <1>3 DEF InGateway, InFills, NoFill, Pending
  <2> QED BY <2>1, <2>2, <2>3 DEF Lots
<1>5. Priced
  BY <1>3 DEF Priced, UpdateIsCache, Quoting
<1>6. OnWayHome
  <2>1. 0 = 0 * lot_size
    BY HomeConstants
  <2> QED BY <1>3, <2>1, HomeConstants DEF OnWayHome, Reached, InLots
<1> QED BY <1>1, <1>2, <1>4, <1>5, <1>6 DEF IInv

\* The book changes with a message only, the simulator and the gateway's
\* orders in submit_intent only.
LEMMA NextKeepsParts ==
  ASSUME IInv, [Next]_vars
  PROVE  BookOK' /\ GatewayOK'
<1>1. Book!Next \/ UNCHANGED bookVars
  BY DEF Next, Work, Read, OnUpdate, Reject, Submit, RunGateway, BookFill, NextIntent, Continue, vars
<1>2. BookOK'
  BY <1>1, BookKeeps DEF IInv
<1>3. CASE Submit
  <2>1. /\ Head(intents) \in Quotes /\ Gateway!SubmitNew(Head(intents))
    BY <1>3, TakeQuote DEF Submit, IInv, Lots
  <2>2. PICK i \in Quotes : Gateway!SubmitNew(i)
    BY <2>1
  <2>3. i.side \in Sides /\ i.price \in Uint32 /\ i.qty \in Uint32
    BY LoopAssumption DEF Quotes
  <2>4. GatewayOK
    BY DEF IInv
  <2> QED BY <1>2, <2>2, <2>3, <2>4, GatewaySubmitKeeps
<1>4. CASE ~Submit
  <2>1. Gateway!Running \/ UNCHANGED gatewayVars
    BY <1>4 DEF Next, Work, Read, OnUpdate, Reject, RunGateway, BookFill, NextIntent, Continue, vars
  <2>2. GatewayOK
    BY DEF IInv
  <2> QED BY <1>2, <2>1, <2>2, GatewayRunKeeps
<1> QED BY <1>2, <1>3, <1>4

LEMMA NextKeeps == IInv /\ [Next]_vars => IInv'
<1> SUFFICES ASSUME IInv, [Next]_vars PROVE IInv'
  OBVIOUS
<1>0. BookOK /\ GatewayOK /\ Lots /\ Priced /\ OnWayHome
  BY DEF IInv
<1>1. Lots' /\ Priced' /\ OnWayHome'
  <2>1. CASE Read
    BY <1>0, <2>1, ReadKeepsLots, ReadKeepsPriced, OtherStepsKeepHome
  <2>2. CASE OnUpdate
    BY <1>0, <2>2, OnUpdateKeepsLots, OnUpdateKeepsPriced, OnUpdateKeepsHome
  <2>3. CASE Reject
    BY <1>0, <2>3, RejectKeepsLots, OtherStepsKeepPriced, TakingKeepsHome
  <2>4. CASE Submit
    BY <1>0, <2>4, SubmitStaysOnWay, SubmitKeepsLots, OtherStepsKeepPriced, TakingKeepsHome
  <2>5. CASE RunGateway
    BY <1>0, <2>5, RunGatewayKeepsLots, OtherStepsKeepPriced, RunGatewayKeepsHome
  <2>6. CASE BookFill
    BY <1>0, <2>6, BookFillKeepsLots, OtherStepsKeepPriced, BookFillKeepsHome
  <2>7. CASE NextIntent
    BY <1>0, <2>7, NextIntentKeepsLots, OtherStepsKeepPriced, OtherStepsKeepHome
  <2>8. CASE Continue
    BY <1>0, <2>8, ContinueKeepsLots, OtherStepsKeepPriced, OtherStepsKeepHome
  <2>9. CASE UNCHANGED vars
    <3>1. Lots'
      BY <1>0, <2>9 DEF vars, gatewayVars, accountVars, Lots, RestingLots, Accounts, InGateway,
         Inside, InSim, InReports, Unfilled, Filled, OrderOf, CanTake, InFills, NoFill, OneFill, Pending
    <3> QED BY <1>0, <2>9, <3>1, OtherStepsKeepPriced, OtherStepsKeepHome
  <2> QED BY <2>1, <2>2, <2>3, <2>4, <2>5, <2>6, <2>7, <2>8, <2>9 DEF Next, Work
<1> QED BY <1>1, NextKeepsParts DEF IInv

LEMMA Inductive == Spec => []IInv
<1> QED BY InitEstablishes, NextKeeps, PTL DEF Spec

LEMMA InvariantImpliesTypes == IInv => TypeOK
<1> SUFFICES ASSUME IInv PROVE TypeOK
  OBVIOUS
<1>1. Book!TypeOK
  <2>1. B!TypeOK
    BY DEF IInv, BookOK, B!IInv
  <2> QED BY <2>1 DEF B!TypeOK, Book!TypeOK, B!Tops, Book!Tops, B!OrderStates, Book!OrderStates,
             B!Uint32, Book!Uint32, B!INVALID_PRICE, Book!INVALID_PRICE, B!EmptyKey, Book!EmptyKey
<1>2. Gateway!TypeOK
  <2>1. G!TypeOK
    BY G!InvariantImpliesTypes, GatewayAssumptionHolds
       DEF IInv, GatewayOK, G!GatewayAssumption, G!U32Assumption
  <2> QED BY <2>1 DEF G!TypeOK, Gateway!TypeOK, G!ClientIds, Gateway!ClientIds,
             G!Uint32, Gateway!Uint32, G!kMaxReports, Gateway!kMaxReports
<1>3. /\ stage \in {"read", "quote", "intents", "gateway", "fills"}
      /\ (pc = "idle") = (stage # "gateway")
      /\ position \in Int /\ cash \in Int
  BY LoopAssumption DEF IInv, Lots, Pending, InGateway, Accounts
<1>4. Len(intents) <= 2 /\ \A n \in DOMAIN intents : intents[n] \in Quotes
  <2>1. CASE intents = << >>
    BY <2>1
  <2>2. CASE \E i \in Quotes : intents = <<i>>
    BY <2>2
  <2>3. CASE \E i, j \in Quotes : intents = <<i, j>>
    BY <2>3
  <2> QED BY <2>1, <2>2, <2>3 DEF IInv, Lots, Pending
<1>5. applied \in 0 .. Len(fills)
  <2>1. CASE stage = "gateway"
    BY <2>1 DEF IInv, Lots, InGateway, Inside, InSim, InReports, NoFill
  <2>2. CASE stage # "gateway"
    BY <2>2 DEF IInv, Lots, InFills, NoFill, OneFill
  <2> QED BY <2>1, <2>2
<1> QED BY <1>1, <1>2, <1>3, <1>4, <1>5 DEF TypeOK, Quotes

\* Whatever the feed, the quotes and the fills, the loop and its components
\* keep their types: one quote of a lot a side, and never a fill applied twice.
THEOREM LoopTypes == Spec => []TypeOK
<1> QED BY Inductive, InvariantImpliesTypes, PTL

\* The position stays within +-max_position and the strategy's inventory is
\* the portfolio's: validate() checks the position an order would make, and no
\* other fill can come between the check and the booking.
THEOREM PositionStaysWithinLimits == Spec => []PositionWithinLimits
<1>1. IInv => PositionWithinLimits
  BY DEF IInv, Lots, Accounts, PositionWithinLimits
<1> QED BY <1>1, Inductive, PTL

\* No call of the loop makes more than an Ack and a fill, so the arrays of
\* four reports and four fills never drop one.
THEOREM ReportsAlwaysFit == Spec => []ReportsNeverDropped
<1>1. IInv => ReportsNeverDropped
  BY DEF IInv, Lots, RestingLots, ReportsNeverDropped
<1> QED BY <1>1, Inductive, PTL

\* Quotes are checked against the midprice they were made around: the book
\* does not change while they are pending, its cache is that of its levels,
\* and the sum of two prices halved does not overflow a Price.
THEOREM QuotesMeetTheirReference == Spec => []ReferenceIsFair
<1>1. IInv => ReferenceIsFair
  <2> SUFFICES ASSUME IInv, stage \in {"intents", "gateway", "fills"}, intents # << >>
               PROVE  \E top \in bbo : Book!IsValid /\ ref_price = Strategy!Fair(top)
    BY DEF ReferenceIsFair
  <2>1. PICK top \in bbo : top = cached /\ \A s \in Sides : top[s].px # INVALID_PRICE
    BY DEF IInv, Priced, UpdateIsCache, Quoting
  <2> QED BY <2>1, MidpriceIsFair DEF IInv
<1> QED BY <1>1, Inductive, PTL

\* Where the parameters lead home, the quote that would bring the inventory
\* back towards zero is never refused: not by the collar, although a quote's
\* distance from the reference grows with the inventory, nor by any other check.
THEOREM ReducingQuotePasses == LeadsHome => (Spec => []ReducingQuoteAccepted)
<1> SUFFICES ASSUME LeadsHome PROVE Spec => []ReducingQuoteAccepted
  OBVIOUS
<1>1. IInv => ReducingQuoteAccepted
  <2> SUFFICES ASSUME IInv, stage = "intents", NEW n \in DOMAIN intents,
                      inventory * Strategy!Signed(intents[n].side, 1) < 0
               PROVE  Verdict(intents[n]) = "Accept"
    BY DEF ReducingQuoteAccepted
  <2>1. BookOK /\ Lots /\ Priced /\ OnWayHome /\ QuotesLeft /\ inventory = position
        /\ position \in Reached /\ position \in Int
    BY HomeConstants DEF IInv, Lots, Accounts, OnWayHome
  <2>2. /\ intents[n].side = Bid => position < 0
        /\ intents[n].side = Ask => position > 0
    BY <2>1 DEF Strategy!Signed, Strategy!Bid
  <2>3. CASE \E i \in Quotes : intents = <<i>> /\ LastAsk(i)
    <3>1. PICK i \in Quotes : intents = <<i>> /\ LastAsk(i)
      BY <2>3
    <3>2. intents[n] = i /\ intents # << >>
      BY <3>1
    <3>3. PICK q \in Reached : OfferedAt(q, i) /\ position \in {q, q + lot_size}
      BY <3>1 DEF LastAsk
    <3> QED BY <2>1, <2>2, <3>1, <3>2, <3>3, ReducingPasses DEF LastAsk
  <2>4. CASE \E i \in Quotes : intents = <<i>> /\ i.side = Bid /\ OfferedAt(position, i)
    <3>1. PICK i \in Quotes : intents = <<i>> /\ i.side = Bid /\ OfferedAt(position, i)
      BY <2>4
    <3>2. intents[n] = i /\ intents # << >>
      BY <3>1
    <3> QED BY <2>1, <2>2, <3>1, <3>2, ReducingPasses
  <2>5. CASE \E i, j \in Quotes : /\ intents = <<i, j>> /\ i.side = Bid /\ j.side = Ask
                                  /\ OfferedAt(position, i) /\ OfferedAt(position, j)
    <3>1. PICK i \in Quotes, j \in Quotes :
                 /\ intents = <<i, j>> /\ i.side = Bid /\ j.side = Ask
                 /\ OfferedAt(position, i) /\ OfferedAt(position, j)
      BY <2>5
    <3>2. intents[n] \in {i, j} /\ intents # << >>
      BY <3>1
    <3>3. CASE intents[n] = i
      BY <2>1, <2>2, <3>1, <3>2, <3>3, ReducingPasses
    <3>4. CASE intents[n] = j
      BY <2>1, <2>2, <3>1, <3>2, <3>4, ReducingPasses
    <3> QED BY <3>2, <3>3, <3>4
  <2>6. intents # << >>
    OBVIOUS
  <2> QED BY <2>1, <2>3, <2>4, <2>5, <2>6 DEF QuotesLeft
<1> QED BY <1>1, Inductive, PTL
===============================================================================
