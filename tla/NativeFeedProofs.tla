---------------------------- MODULE NativeFeedProofs ----------------------------
(***************************************************************************)
(* Proofs about NativeFeed: for every generator, every kind and number of  *)
(* faults and however many messages, the book's levels are its orders'     *)
(* sums as long as no trade is too large, no level is ever empty, a        *)
(* recording without a gap gives the book of the exchange, and the book    *)
(* implements L2View.                                                      *)
(***************************************************************************)
EXTENDS NativeFeed, TypesProofs, SequenceTheorems

ActiveOrders == [price : Prices, qty : Uint32 \ {0}, side : Sides]

\* a damaged price is 0
FeedPrices == Prices \cup {0}

\* what may be in the recording, damaged or not
RawMessages ==
  [type : {"AddOrder", "ModifyOrder", "CancelOrder", "Trade", "Clear", "unknown"},
   length : Int, seq : Nat, id : Nat, price : FeedPrices, qty : Uint32,
   side : {"Bid", "Ask", "neither"}]

Recordable(m) ==
  /\ m.seq \in 1 .. seq
  /\ m.id \in 0 .. next_order_id - 1
  /\ m.type = "AddOrder" => m.id # 0

\* The types of the generator's state, of the recording and of the program's.
GeneratorShape ==
  /\ seq \in Nat /\ seq <= (IF ended THEN MaxMessages + 1 ELSE MaxMessages)
  /\ next_order_id \in Nat \ {0} /\ next_order_id <= MaxIds + 1
  /\ DOMAIN active_orders \subseteq 1 .. next_order_id - 1
  /\ \A id \in DOMAIN active_orders : active_orders[id] \in ActiveOrders
  /\ part_cancels \subseteq 1 .. next_order_id - 1
RecordingShape ==
  unread \in Seq(RawMessages) /\ \A n \in 1 .. Len(unread) : Recordable(unread[n])
ReaderShape ==
  /\ last_seq_no \in 0 .. seq /\ first_seq \in 0 .. seq
  /\ gap_count \in Nat /\ has_prev_seq \in BOOLEAN
  /\ ~has_prev_seq => last_seq_no = 0 /\ first_seq = 0
LoopShape ==
  /\ DOMAIN orders \subseteq 1 .. next_order_id - 1 /\ BookOrders(orders)
  /\ msgs_processed \in 0 .. max_msgs
Shape == GeneratorShape /\ RecordingShape /\ ReaderShape /\ LoopShape

LEMMA ShapeGivesTypeOK == Shape => TypeOK
<1> SUFFICES ASSUME Shape PROVE TypeOK
  OBVIOUS
<1>1. ASSUME NEW n \in DOMAIN unread PROVE unread[n].seq \in 1 .. seq
  BY <1>1 DEF Shape, RecordingShape, Recordable
<1> QED BY <1>1, NativeFeedAssumption
        DEF TypeOK, Shape, GeneratorShape, ReaderShape, LoopShape, ActiveOrders
-----------------------------------------------------------------------------
(* The recording: what is in it was there, or has just been written.       *)

LEMMA WireSizes ==
  /\ MsgTypes = {"AddOrder", "ModifyOrder", "CancelOrder", "Trade", "Clear"}
  /\ \A t \in MsgTypes : WireSize[t] \in Int /\ WireSize[t] >= Gaps!SeqSize
BY DEF MsgTypes, WireSize, Gaps!SeqSize

LEMMA DamageIs ==
  ASSUME NEW m \in RawMessages, NEW d \in Damage(m)
  PROVE  /\ d \in RawMessages
         /\ d.seq = m.seq /\ d.id = m.id
         /\ d.type \in {m.type, "unknown"}
         /\ d.qty \in {m.qty, 0}
BY U32Assumption DEF Damage, RawMessages, FeedPrices, Gaps!SeqSize, Uint32

\* the entries of the recording after a step
Recorded(m) ==
  \A n \in 1 .. Len(unread') :
    \/ \E k \in 1 .. Len(unread) : unread'[n] = unread[k]
    \/ unread'[n] = m
    \/ m.id \in damaged' /\ unread'[n] \in Damage(m)
Kept == \A n \in 1 .. Len(unread') : \E k \in 1 .. Len(unread) : unread'[n] = unread[k]

LEMMA WriteIs ==
  ASSUME RecordingShape, NEW m \in RawMessages, Write(m)
  PROVE  /\ unread' \in Seq(RawMessages) /\ Recorded(m)
         /\ seq' = seq + 1 /\ damaged \subseteq damaged' /\ UNCHANGED loopVars
<1>1. unread \in Seq(RawMessages)
  BY DEF RecordingShape
<1>2. CASE unread' = Append(unread, m)
  BY <1>1, <1>2 DEF Write, Recorded, Fault
<1>3. CASE unread' = unread
  BY <1>1, <1>3 DEF Write, Recorded, Fault
<1>4. CASE unread' = unread \o <<m, m>> /\ UNCHANGED damaged
  <2>1. <<m, m>> \in Seq(RawMessages) /\ Len(<<m, m>>) = 2 /\ \A k \in 1 .. 2 : <<m, m>>[k] = m
    OBVIOUS
  <2>2. PICK two : two = <<m, m>>
    OBVIOUS
  <2>3. /\ unread' \in Seq(RawMessages) /\ Len(unread') = Len(unread) + Len(two)
        /\ \A n \in 1 .. Len(unread') :
             unread'[n] = IF n <= Len(unread) THEN unread[n] ELSE two[n - Len(unread)]
    BY <1>1, <1>4, <2>1, <2>2, ConcatProperties
  <2>4. Recorded(m)
    BY <1>1, <2>1, <2>2, <2>3 DEF Recorded
  <2> QED BY <1>4, <2>3, <2>4 DEF Write, Fault
<1>5. ASSUME NEW d \in Damage(m), unread' = Append(unread, d), m.id \in damaged'
      PROVE  unread' \in Seq(RawMessages) /\ Recorded(m)
  <2>1. d \in RawMessages
    BY DamageIs
  <2> QED BY <1>1, <1>5, <2>1 DEF Recorded
<1> QED BY <1>2, <1>3, <1>4, <1>5 DEF Write, Fault

LEMMA SwapKeepsEntries ==
  ASSUME RecordingShape, Swap
  PROVE  unread' \in Seq(RawMessages) /\ Kept
BY DEF RecordingShape, Swap, Kept

LEMMA TailKeepsEntries ==
  ASSUME RecordingShape, unread # << >>
  PROVE  /\ Tail(unread) \in Seq(RawMessages)
         /\ \A n \in 1 .. Len(Tail(unread)) : \E k \in 1 .. Len(unread) : Tail(unread)[n] = unread[k]
         /\ Head(unread) \in RawMessages /\ Recordable(Head(unread))
         /\ \E k \in 1 .. Len(unread) : Head(unread) = unread[k]
BY DEF RecordingShape
-----------------------------------------------------------------------------
(* The generator's steps.                                                  *)

LEMMA Qualities ==
  /\ \A p \in Prices : p \in FeedPrices /\ p # 0
  /\ \A q \in Qtys : q \in Uint32 \ {0}
  /\ 0 \in FeedPrices /\ FeedPrices \subseteq Uint32 \ {INVALID_PRICE} /\ 0 \in Uint32 /\ Uint32 \subseteq Nat
  /\ MaxIds \in Nat /\ MaxMessages \in Nat /\ max_msgs \in Nat
BY NativeFeedAssumption, U32Assumption DEF Uint32, FeedPrices, INVALID_PRICE

LEMMA HandedOutStays ==
  ASSUME NEW a \in Nat, NEW b \in Nat, b >= a, NEW x \in 0 .. a - 1
  PROVE  x \in 0 .. b - 1
OBVIOUS

\* What every message of the generator does but for its own list.
LEMMA MessageKeepsShape ==
  ASSUME Shape, NEW m \in RawMessages, Write(m), m.seq = seq + 1,
         next_order_id' \in {next_order_id, next_order_id + 1}, next_order_id' <= MaxIds + 1,
         m.id \in 0 .. next_order_id' - 1, m.type = "AddOrder" => m.id # 0,
         ~ended, seq + 1 <= (IF ended' THEN MaxMessages + 1 ELSE MaxMessages),
         DOMAIN active_orders' \subseteq 1 .. next_order_id' - 1,
         \A id \in DOMAIN active_orders' : active_orders'[id] \in ActiveOrders,
         part_cancels' \subseteq 1 .. next_order_id' - 1
  PROVE  Shape'
<1>1. /\ unread' \in Seq(RawMessages) /\ Recorded(m)
      /\ seq' = seq + 1 /\ UNCHANGED loopVars
  BY WriteIs DEF Shape
<1>2. seq \in Nat /\ next_order_id \in Nat \ {0}
  BY DEF Shape, GeneratorShape
<1>3. next_order_id' \in Nat \ {0} /\ next_order_id' >= next_order_id
  BY <1>2
<1>4. \A x \in 0 .. next_order_id - 1 : x \in 0 .. next_order_id' - 1
  BY <1>2, <1>3, HandedOutStays
<1>5. GeneratorShape'
  <2>1. seq' \in Nat /\ seq' <= (IF ended' THEN MaxMessages + 1 ELSE MaxMessages)
    BY <1>1, <1>2
  <2> QED BY <1>3, <2>1 DEF GeneratorShape
<1>6. ASSUME NEW n \in 1 .. Len(unread'), NEW r, r = unread'[n]
      PROVE  Recordable(r)'
  <2>1. ASSUME NEW x, x.seq \in 1 .. seq, x.id \in 0 .. next_order_id - 1,
               x.type = "AddOrder" => x.id # 0
        PROVE  Recordable(x)'
    BY <1>1, <1>2, <1>4, <2>1 DEF Recordable
  <2>2. CASE \E k \in 1 .. Len(unread) : unread'[n] = unread[k]
    BY <1>6, <2>1, <2>2 DEF Shape, RecordingShape, Recordable
  <2>3. ASSUME r.seq = m.seq, r.id = m.id, r.type = m.type \/ r.type = "unknown"
        PROVE  Recordable(r)'
    BY <1>1, <1>2, <2>3 DEF Recordable
  <2>4. CASE unread'[n] = m
    BY <1>6, <2>3, <2>4
  <2>5. CASE unread'[n] \in Damage(m)
    BY <1>6, <2>3, <2>5, DamageIs
  <2> QED BY <1>1, <2>2, <2>4, <2>5 DEF Recorded
<1>7. RecordingShape'
  BY <1>1, <1>6 DEF RecordingShape
<1>8. ReaderShape'
  BY <1>1, <1>2 DEF Shape, ReaderShape, loopVars, gapVars
<1>9. LoopShape'
  <2>1. orders' = orders /\ msgs_processed' = msgs_processed /\ DOMAIN orders \subseteq 1 .. next_order_id - 1
    BY <1>1 DEF Shape, LoopShape, loopVars, bookVars
  <2>2. DOMAIN orders' \subseteq 1 .. next_order_id' - 1
    BY <1>2, <1>3, <2>1
  <2> QED BY <2>1, <2>2 DEF Shape, LoopShape
<1> QED BY <1>5, <1>7, <1>8, <1>9 DEF Shape

\* an order of the generator's list
LEMMA ListedIs ==
  ASSUME Shape, NEW id \in DOMAIN active_orders
  PROVE  /\ id \in 1 .. next_order_id - 1 /\ id \in Nat \ {0} /\ next_order_id \in Nat \ {0}
         /\ active_orders[id] \in ActiveOrders
         /\ active_orders[id].price \in Prices /\ active_orders[id].side \in Sides
         /\ active_orders[id].qty \in Uint32 \ {0} /\ active_orders[id].qty \in Nat \ {0}
         /\ \A q \in 1 .. active_orders[id].qty : q \in Uint32 \ {0}
<1>1. id \in 1 .. next_order_id - 1 /\ active_orders[id] \in ActiveOrders /\ next_order_id \in Nat \ {0}
  BY DEF Shape, GeneratorShape
<1> QED BY <1>1, U32Assumption DEF ActiveOrders, Uint32

LEMMA ReducedType ==
  ASSUME Shape, NEW id \in DOMAIN active_orders, NEW q \in 1 .. active_orders[id].qty
  PROVE  /\ DOMAIN Reduced(id, q) \subseteq DOMAIN active_orders
         /\ \A x \in DOMAIN Reduced(id, q) : Reduced(id, q)[x] \in ActiveOrders
<1>1. /\ active_orders[id] \in ActiveOrders
      /\ \A x \in DOMAIN active_orders : active_orders[x] \in ActiveOrders
  BY DEF Shape, GeneratorShape
<1>2. CASE q >= active_orders[id].qty
  BY <1>1, <1>2 DEF Reduced, Restrict
<1>3. CASE ~(q >= active_orders[id].qty)
  <2>1. Reduced(id, q) = [active_orders EXCEPT ![id].qty = active_orders[id].qty - q]
    BY <1>3 DEF Reduced
  <2>2. active_orders[id].qty - q \in Uint32 \ {0}
    BY <1>1, <1>3, U32Assumption DEF ActiveOrders, Uint32
  <2> QED BY <1>1, <2>1, <2>2 DEF ActiveOrders
<1> QED BY <1>2, <1>3

\* A message of the generator has the types of one.
LEMMA MessageIs ==
  ASSUME Shape, NEW type \in {"AddOrder", "ModifyOrder", "CancelOrder", "Trade", "Clear"},
         NEW id \in Nat, NEW p \in FeedPrices, NEW q \in Uint32, NEW s \in Sides
  PROVE  /\ Message(type, id, p, q, s) \in RawMessages
         /\ Message(type, id, p, q, s).type = type /\ Message(type, id, p, q, s).id = id
         /\ Message(type, id, p, q, s).price = p /\ Message(type, id, p, q, s).qty = q
         /\ Message(type, id, p, q, s).side = s
         /\ Message(type, id, p, q, s).seq = seq + 1
         /\ Message(type, id, p, q, s).length = WireSize[type]
<1>1. WireSize[type] \in Int /\ seq + 1 \in Nat /\ s \in {"Bid", "Ask", "neither"}
  BY WireSizes DEF Shape, GeneratorShape, Sides, Bid, Ask
<1> QED BY <1>1 DEF Message, RawMessages

LEMMA AddKeepsShape == ASSUME Shape, GenerateAdd PROVE Shape'
<1>1. PICK p \in Prices, q \in Qtys, s \in Sides :
        /\ active_orders' = Listed(next_order_id, [price |-> p, qty |-> q, side |-> s])
        /\ Write(Message("AddOrder", next_order_id, p, q, s))
  BY DEF GenerateAdd
<1>2. /\ ~ended /\ seq < MaxMessages /\ next_order_id' = next_order_id + 1
      /\ ended' = ended /\ part_cancels' = part_cancels
  BY DEF GenerateAdd, Generating
<1>3. PICK m : m = Message("AddOrder", next_order_id, p, q, s)
  OBVIOUS
<1>4. GeneratorShape /\ next_order_id \in Nat \ {0} /\ seq \in Nat
  BY DEF Shape, GeneratorShape
<1>5. m \in RawMessages /\ m.id = next_order_id /\ m.seq = seq + 1
  <2>1. next_order_id \in Nat /\ p \in FeedPrices /\ q \in Uint32
    BY <1>4, Qualities
  <2> QED BY <1>3, <2>1, MessageIs
<1>6. /\ DOMAIN active_orders' \subseteq 1 .. next_order_id' - 1
      /\ \A id \in DOMAIN active_orders' : active_orders'[id] \in ActiveOrders
  <2>1. [price |-> p, qty |-> q, side |-> s] \in ActiveOrders
    BY Qualities DEF ActiveOrders
  <2> QED BY <1>1, <1>2, <1>4, <2>1 DEF Listed, GeneratorShape
<1>7. part_cancels' \subseteq 1 .. next_order_id' - 1
  BY <1>2, <1>4 DEF GeneratorShape
<1>8. seq + 1 <= (IF ended' THEN MaxMessages + 1 ELSE MaxMessages)
  BY <1>2, <1>4, Qualities
<1>9. m.id \in 0 .. next_order_id' - 1 /\ m.id # 0
  BY <1>2, <1>4, <1>5
<1>10. next_order_id' <= MaxIds + 1
  BY <1>2, <1>4, Qualities DEF GenerateAdd
<1> QED BY <1>1, <1>2, <1>3, <1>5, <1>6, <1>7, <1>8, <1>9, <1>10, MessageKeepsShape

LEMMA ModifyKeepsShape == ASSUME Shape, GenerateModify PROVE Shape'
<1>1. PICK id \in DOMAIN active_orders, p \in Prices, q \in Qtys :
        /\ active_orders' = [active_orders EXCEPT ![id].price = p, ![id].qty = q]
        /\ Write(Message("ModifyOrder", id, p, q, Bid))
  BY DEF GenerateModify
<1>2. /\ ~ended /\ seq < MaxMessages /\ next_order_id' = next_order_id
      /\ ended' = ended /\ part_cancels' = part_cancels
  BY DEF GenerateModify, Generating
<1>3. PICK m : m = Message("ModifyOrder", id, p, q, Bid)
  OBVIOUS
<1>4. GeneratorShape /\ next_order_id \in Nat \ {0} /\ seq \in Nat
  BY DEF Shape, GeneratorShape
<1>5. m \in RawMessages /\ m.id = id /\ m.seq = seq + 1 /\ m.type = "ModifyOrder"
  <2>1. id \in Nat /\ p \in FeedPrices /\ q \in Uint32 /\ Bid \in Sides
    BY ListedIs, Qualities DEF Sides
  <2> QED BY <1>3, <2>1, MessageIs
<1>6. /\ DOMAIN active_orders' \subseteq 1 .. next_order_id' - 1
      /\ \A x \in DOMAIN active_orders' : active_orders'[x] \in ActiveOrders
  BY <1>1, <1>2, <1>4, Qualities DEF GeneratorShape, ActiveOrders
<1>7. part_cancels' \subseteq 1 .. next_order_id' - 1
  BY <1>2, <1>4 DEF GeneratorShape
<1>8. seq + 1 <= (IF ended' THEN MaxMessages + 1 ELSE MaxMessages)
  BY <1>2, <1>4, Qualities
<1>9. m.id \in 0 .. next_order_id' - 1
  BY <1>2, <1>4, <1>5, ListedIs
<1>10. next_order_id' <= MaxIds + 1
  BY <1>2, <1>4 DEF GeneratorShape
<1> QED BY <1>1, <1>2, <1>3, <1>5, <1>6, <1>7, <1>8, <1>9, <1>10, MessageKeepsShape

LEMMA CancelKeepsShape == ASSUME Shape, GenerateCancel PROVE Shape'
<1>1. PICK id \in DOMAIN active_orders : \E q \in 1 .. active_orders[id].qty :
        /\ active_orders' = Reduced(id, q)
        /\ part_cancels' = IF q < active_orders[id].qty THEN part_cancels \cup {id} ELSE part_cancels
        /\ Write(Message("CancelOrder", id, 0, q, Bid))
  BY DEF GenerateCancel
<1>1a. PICK q \in 1 .. active_orders[id].qty :
        /\ active_orders' = Reduced(id, q)
        /\ part_cancels' = IF q < active_orders[id].qty THEN part_cancels \cup {id} ELSE part_cancels
        /\ Write(Message("CancelOrder", id, 0, q, Bid))
  BY <1>1
<1>2. ~ended /\ seq < MaxMessages /\ next_order_id' = next_order_id /\ ended' = ended
  BY DEF GenerateCancel, Generating
<1>3. PICK m : m = Message("CancelOrder", id, 0, q, Bid)
  OBVIOUS
<1>4. GeneratorShape /\ next_order_id \in Nat \ {0} /\ seq \in Nat
  BY DEF Shape, GeneratorShape
<1>5. m \in RawMessages /\ m.id = id /\ m.seq = seq + 1 /\ m.type = "CancelOrder"
  <2>1. id \in Nat /\ q \in Uint32 /\ 0 \in FeedPrices /\ 0 \in Uint32 /\ Bid \in Sides
    BY ListedIs, Qualities DEF Sides
  <2> QED BY <1>3, <2>1, MessageIs
<1>6. /\ DOMAIN active_orders' \subseteq 1 .. next_order_id' - 1
      /\ \A x \in DOMAIN active_orders' : active_orders'[x] \in ActiveOrders
  BY <1>1a, <1>2, <1>4, ReducedType DEF GeneratorShape
<1>7. part_cancels' \subseteq 1 .. next_order_id' - 1
  BY <1>1a, <1>2, <1>4, ListedIs DEF GeneratorShape
<1>8. seq + 1 <= (IF ended' THEN MaxMessages + 1 ELSE MaxMessages)
  BY <1>2, <1>4, Qualities
<1>9. m.id \in 0 .. next_order_id' - 1
  BY <1>2, <1>4, <1>5, ListedIs
<1>10. next_order_id' <= MaxIds + 1
  BY <1>2, <1>4 DEF GeneratorShape
<1> QED BY <1>1a, <1>2, <1>3, <1>5, <1>6, <1>7, <1>8, <1>9, <1>10, MessageKeepsShape

LEMMA TradeKeepsShape == ASSUME Shape, GenerateTrade PROVE Shape'
<1>1. PICK id \in DOMAIN active_orders : \E q \in 1 .. active_orders[id].qty :
        /\ active_orders' = Reduced(id, q)
        /\ Write(Message("Trade", id, active_orders[id].price, q, active_orders[id].side))
  BY DEF GenerateTrade
<1>1a. PICK q \in 1 .. active_orders[id].qty :
        /\ active_orders' = Reduced(id, q)
        /\ Write(Message("Trade", id, active_orders[id].price, q, active_orders[id].side))
  BY <1>1
<1>2. /\ ~ended /\ seq < MaxMessages /\ next_order_id' = next_order_id /\ ended' = ended
      /\ part_cancels' = part_cancels
  BY DEF GenerateTrade, Generating
<1>3. PICK m : m = Message("Trade", id, active_orders[id].price, q, active_orders[id].side)
  OBVIOUS
<1>4. GeneratorShape /\ next_order_id \in Nat \ {0} /\ seq \in Nat
  BY DEF Shape, GeneratorShape
<1>5. m \in RawMessages /\ m.id = id /\ m.seq = seq + 1 /\ m.type = "Trade"
  <2>1. PICK p, s : p = active_orders[id].price /\ s = active_orders[id].side
    OBVIOUS
  <2>2. id \in Nat /\ q \in Uint32 /\ p \in FeedPrices /\ s \in Sides
    BY <2>1, ListedIs, Qualities
  <2>3. m = Message("Trade", id, p, q, s)
    BY <1>3, <2>1
  <2> QED BY <2>2, <2>3, MessageIs
<1>6. /\ DOMAIN active_orders' \subseteq 1 .. next_order_id' - 1
      /\ \A x \in DOMAIN active_orders' : active_orders'[x] \in ActiveOrders
  BY <1>1a, <1>2, <1>4, ReducedType DEF GeneratorShape
<1>7. part_cancels' \subseteq 1 .. next_order_id' - 1
  BY <1>2, <1>4 DEF GeneratorShape
<1>8. seq + 1 <= (IF ended' THEN MaxMessages + 1 ELSE MaxMessages)
  BY <1>2, <1>4, Qualities
<1>9. m.id \in 0 .. next_order_id' - 1
  BY <1>2, <1>4, <1>5, ListedIs
<1>10. next_order_id' <= MaxIds + 1
  BY <1>2, <1>4 DEF GeneratorShape
<1> QED BY <1>1a, <1>2, <1>3, <1>5, <1>6, <1>7, <1>8, <1>9, <1>10, MessageKeepsShape

LEMMA ClearKeepsShape == ASSUME Shape, GenerateClear PROVE Shape'
<1>1. /\ ~ended /\ ended' = TRUE /\ Write(Message("Clear", 0, 0, 0, Bid))
      /\ UNCHANGED <<next_order_id, active_orders, part_cancels>>
  BY DEF GenerateClear
<1>2. PICK m : m = Message("Clear", 0, 0, 0, Bid)
  OBVIOUS
<1>3. GeneratorShape /\ next_order_id \in Nat \ {0} /\ seq \in Nat /\ seq <= MaxMessages
  BY <1>1 DEF Shape, GeneratorShape
<1>4. m \in RawMessages /\ m.id = 0 /\ m.seq = seq + 1 /\ m.type = "Clear"
  <2>1. 0 \in Nat /\ 0 \in FeedPrices /\ 0 \in Uint32 /\ Bid \in Sides
    BY Qualities DEF Sides
  <2> QED BY <1>2, <2>1, MessageIs
<1>5. seq + 1 <= (IF ended' THEN MaxMessages + 1 ELSE MaxMessages)
  BY <1>1, <1>3, Qualities
<1>6. m.id \in 0 .. next_order_id' - 1
  BY <1>1, <1>3, <1>4
<1>7. next_order_id' <= MaxIds + 1
  BY <1>1, <1>3 DEF GeneratorShape
<1> QED BY <1>1, <1>2, <1>3, <1>4, <1>5, <1>6, <1>7, MessageKeepsShape DEF GeneratorShape
-----------------------------------------------------------------------------
(* What the loop makes of a message.                                       *)

\* orders and levels after a message was read and parsed
Unaffected == orders' = orders /\ levels' = levels
Adds(m) ==
  /\ m.type = "AddOrder" /\ m.id \notin DOMAIN orders /\ m.id # 0
  /\ m.qty \in Uint32 \ {0} /\ m.side \in Sides
  /\ orders' = WithOrder(orders, m.id, [price |-> m.price, qty |-> m.qty, side |-> m.side])
  /\ levels' = [levels EXCEPT ![m.side] = Raise(levels[m.side], m.price, m.qty)]
Modifies(m) ==
  /\ m.type = "ModifyOrder" /\ m.id \in DOMAIN orders /\ m.qty \in Uint32 \ {0}
  /\ orders' = Repriced(orders, m.id, m.price, m.qty)
  /\ levels' = [levels EXCEPT ![orders[m.id].side] =
                  Raise(Lower(levels[orders[m.id].side], orders[m.id].price, orders[m.id].qty),
                        m.price, m.qty)]
Drops(m) ==
  /\ m.type = "CancelOrder" /\ m.id \in DOMAIN orders
  /\ orders' = WithoutOrder(orders, m.id)
  /\ levels' = [levels EXCEPT ![orders[m.id].side] =
                  Lower(levels[orders[m.id].side], orders[m.id].price, orders[m.id].qty)]
Trades(m) ==
  /\ m.type = "Trade" /\ m.id \in DOMAIN orders
  /\ orders' = Traded(orders, m.id, m.qty)
  /\ levels' = [levels EXCEPT ![orders[m.id].side] =
                  Lower(levels[orders[m.id].side], orders[m.id].price, m.qty)]
Clears(m) ==
  /\ m.type = "Clear"
  /\ orders' = [id \in {} |-> 0] /\ levels' = [s \in Sides |-> [p \in {} |-> 0]]

Effect(m) == Unaffected \/ Adds(m) \/ Modifies(m) \/ Drops(m) \/ Trades(m) \/ Clears(m)

LEMMA SideOperations ==
  ASSUME NEW m, NEW p, NEW q
  PROVE  /\ Book!AddToSide(m, p, q) = Raise(m, p, q)
         /\ Book!RemoveFromSide(m, p, q) = Lower(m, p, q)
BY DEF Book!AddToSide, Book!Add32, Raise, Book!RemoveFromSide, Book!Restrict, Restrict, Lower

LEMMA BookAdds ==
  ASSUME NEW m, m.type = "AddOrder", m.id # 0, m.qty \in Uint32 \ {0}, m.side \in Sides,
         Book!AddOrder(m.id, m.price, m.qty, m.side)
  PROVE  IF m.id \in DOMAIN orders THEN Unaffected ELSE Adds(m)
<1>1. CASE m.id \in DOMAIN orders
  BY <1>1 DEF Book!AddOrder, Book!Ignore, Unaffected
<1>2. CASE m.id \notin DOMAIN orders
  <2>1. orders' = WithOrder(orders, m.id, [price |-> m.price, qty |-> m.qty, side |-> m.side])
    BY <1>2 DEF Book!AddOrder, Book!InsertOrder, Book!EmptyKey, WithOrder
  <2>2. levels' = [levels EXCEPT ![m.side] = Raise(levels[m.side], m.price, m.qty)]
    BY <1>2, SideOperations DEF Book!AddOrder
  <2> QED BY <1>2, <2>1, <2>2 DEF Adds
<1> QED BY <1>1, <1>2

LEMMA BookModifies ==
  ASSUME NEW m, m.type = "ModifyOrder", m.qty \in Uint32 \ {0},
         Book!ModifyOrder(m.id, m.price, m.qty)
  PROVE  IF m.id \in DOMAIN orders THEN Modifies(m) ELSE Unaffected
<1>1. CASE m.id \notin DOMAIN orders
  BY <1>1 DEF Book!ModifyOrder, Book!Ignore, Unaffected
<1>2. CASE m.id \in DOMAIN orders
  <2>1. orders' = Repriced(orders, m.id, m.price, m.qty)
    BY <1>2 DEF Book!ModifyOrder, Repriced
  <2>2. levels' = [levels EXCEPT ![orders[m.id].side] =
                     Raise(Lower(levels[orders[m.id].side], orders[m.id].price, orders[m.id].qty),
                           m.price, m.qty)]
    BY <1>2, SideOperations DEF Book!ModifyOrder
  <2> QED BY <1>2, <2>1, <2>2 DEF Modifies
<1> QED BY <1>1, <1>2

LEMMA BookCancels ==
  ASSUME NEW m, m.type = "CancelOrder", Book!CancelOrder(m.id)
  PROVE  IF m.id \in DOMAIN orders THEN Drops(m) ELSE Unaffected
<1>1. CASE m.id \notin DOMAIN orders
  BY <1>1 DEF Book!CancelOrder, Book!Ignore, Unaffected
<1>2. CASE m.id \in DOMAIN orders
  <2>1. orders' = WithoutOrder(orders, m.id)
    BY <1>2 DEF Book!CancelOrder, Book!Restrict, Restrict, WithoutOrder
  <2>2. levels' = [levels EXCEPT ![orders[m.id].side] =
                     Lower(levels[orders[m.id].side], orders[m.id].price, orders[m.id].qty)]
    BY <1>2, SideOperations DEF Book!CancelOrder
  <2> QED BY <1>2, <2>1, <2>2 DEF Drops
<1> QED BY <1>1, <1>2

LEMMA BookTrades ==
  ASSUME NEW m, m.type = "Trade", Book!ApplyTrade(m.id, m.qty)
  PROVE  IF m.id \in DOMAIN orders THEN Trades(m) ELSE Unaffected
<1>1. CASE m.id \notin DOMAIN orders
  BY <1>1 DEF Book!ApplyTrade, Book!Ignore, Unaffected
<1>2. CASE m.id \in DOMAIN orders
  <2>1. orders' = Traded(orders, m.id, m.qty)
    BY <1>2 DEF Book!ApplyTrade, Book!OrdersAfterTrade, Book!Restrict, Restrict, Traded, WithoutOrder
  <2>2. levels' = [levels EXCEPT ![orders[m.id].side] =
                     Lower(levels[orders[m.id].side], orders[m.id].price, m.qty)]
    BY <1>2, SideOperations DEF Book!ApplyTrade
  <2> QED BY <1>2, <2>1, <2>2 DEF Trades
<1> QED BY <1>1, <1>2

LEMMA BookClears ==
  ASSUME NEW m, m.type = "Clear", Book!Clear
  PROVE  Clears(m)
BY DEF Book!Clear, Clears, Book!Sides, Sides, Book!Bid, Bid, Book!Ask, Ask

\* One message through the parser and into the book.
LEMMA ReadHas ==
  ASSUME NEW raw \in RawMessages, Recordable(raw), ApplyToBook(Parse(raw))
  PROVE  Effect(raw) /\ raw.price \in Uint32 /\ raw.qty \in Uint32 /\ raw.id \in 0 .. next_order_id - 1
<1>0. /\ raw.price \in Uint32 /\ raw.qty \in Uint32 /\ raw.id \in 0 .. next_order_id - 1
      /\ raw.type = "AddOrder" => raw.id # 0
  BY Qualities DEF RawMessages, Recordable
<1>1. CASE ~Accepts(raw)
  <2>1. Parse(raw) = {}
    BY <1>1 DEF Parse, None
  <2>2. Book!Ignore
    BY <2>1 DEF ApplyToBook
  <2> QED BY <1>0, <2>2 DEF Book!Ignore, Effect, Unaffected
<1>2. CASE Accepts(raw)
  <2>1. Parse(raw) = {raw}
    BY <1>2 DEF Parse
  <2>2. \/ raw.type = "AddOrder" /\ Book!AddOrder(raw.id, raw.price, raw.qty, raw.side)
        \/ raw.type = "ModifyOrder" /\ Book!ModifyOrder(raw.id, raw.price, raw.qty)
        \/ raw.type = "CancelOrder" /\ Book!CancelOrder(raw.id)
        \/ raw.type = "Trade" /\ Book!ApplyTrade(raw.id, raw.qty)
        \/ raw.type = "Clear" /\ Book!Clear
    BY <2>1 DEF ApplyToBook, None
  <2>3. /\ raw.type = "AddOrder" => raw.qty \in Uint32 \ {0} /\ raw.side \in Sides
        /\ raw.type = "ModifyOrder" => raw.qty \in Uint32 \ {0}
    BY <1>0, <1>2 DEF Accepts
  <2>4. CASE raw.type = "AddOrder" /\ Book!AddOrder(raw.id, raw.price, raw.qty, raw.side)
    BY <1>0, <2>3, <2>4, BookAdds DEF Effect
  <2>5. CASE raw.type = "ModifyOrder" /\ Book!ModifyOrder(raw.id, raw.price, raw.qty)
    BY <1>0, <2>3, <2>5, BookModifies DEF Effect
  <2>6. CASE raw.type = "CancelOrder" /\ Book!CancelOrder(raw.id)
    BY <1>0, <2>6, BookCancels DEF Effect
  <2>7. CASE raw.type = "Trade" /\ Book!ApplyTrade(raw.id, raw.qty)
    BY <1>0, <2>7, BookTrades DEF Effect
  <2>8. CASE raw.type = "Clear" /\ Book!Clear
    BY <1>0, <2>8, BookClears DEF Effect
  <2> QED BY <2>2, <2>4, <2>5, <2>6, <2>7, <2>8
<1> QED BY <1>1, <1>2

LEMMA EffectKeepsOrders ==
  ASSUME BookOrders(orders), NEW m, Effect(m), m.price \in Uint32, m.qty \in Uint32,
         NEW D, DOMAIN orders \subseteq D, m.id # 0 => m.id \in D
  PROVE  BookOrders(orders') /\ DOMAIN orders' \subseteq D
<1>1. CASE Unaffected
  BY <1>1 DEF Unaffected
<1>2. CASE Adds(m)
  <2>1. PICK o : o = [price |-> m.price, qty |-> m.qty, side |-> m.side]
    OBVIOUS
  <2>2. o \in LiveStates
    BY <1>2, <2>1 DEF Adds, LiveStates
  <2>3. orders' = WithOrder(orders, m.id, o) /\ m.id \notin DOMAIN orders
    BY <1>2, <2>1 DEF Adds
  <2>4. DOMAIN orders' = DOMAIN orders \cup {m.id}
    BY <2>3 DEF WithOrder
  <2> QED BY <1>2, <2>2, <2>3, <2>4, WithOrderIs DEF Adds
<1>3. CASE Modifies(m)
  <2>1. /\ m.id \in DOMAIN orders /\ m.qty \in Uint32 \ {0}
        /\ orders' = Repriced(orders, m.id, m.price, m.qty)
    BY <1>3 DEF Modifies
  <2>2. PICK O2 : O2 = Repriced(orders, m.id, m.price, m.qty)
    OBVIOUS
  <2>3. /\ DOMAIN O2 = DOMAIN orders /\ \A x \in DOMAIN orders : x # m.id => O2[x] = orders[x]
        /\ O2[m.id] = [price |-> m.price, qty |-> m.qty, side |-> orders[m.id].side]
        /\ BookOrders(O2)
    BY <2>1, <2>2, RepricedIs
  <2> QED BY <2>1, <2>2, <2>3
<1>4. CASE Drops(m)
  <2>1. DOMAIN WithoutOrder(orders, m.id) \subseteq DOMAIN orders
    BY DEF WithoutOrder, Restrict
  <2> QED BY <1>4, <2>1, WithoutOrderIs DEF Drops
<1>5. CASE Trades(m)
  <2>1. m.qty \in Nat
    BY U32Assumption DEF Uint32
  <2> QED BY <1>5, <2>1, TradedIs DEF Trades
<1>6. CASE Clears(m)
  BY <1>6, FS_EmptySet DEF Clears, BookOrders
<1> QED BY <1>1, <1>2, <1>3, <1>4, <1>5, <1>6 DEF Effect

\* The two ways a message is read.
LEMMA ReadIs ==
  ASSUME Shape, Read
  PROVE  \E raw \in RawMessages :
           /\ Recordable(raw) /\ \E k \in 1 .. Len(unread) : raw = unread[k]
           /\ raw = Head(unread) /\ unread' = Tail(unread) /\ unread # << >> /\ running
           /\ Gaps!Count(Gaps!SeqOf(raw))
           /\ first_seq' = IF has_prev_seq THEN first_seq ELSE Gaps!SeqOf(raw)
           /\ UNCHANGED <<generatorVars, damaged>>
           /\ \/ /\ LimitReached
                 /\ running' = FALSE
                 /\ UNCHANGED <<bookVars, msgs_processed, overtraded>>
              \/ /\ ~LimitReached
                 /\ msgs_processed' = msgs_processed + 1
                 /\ overtraded' = (overtraded \/ \E m \in Parse(raw) : TradesTooMuch(m))
                 /\ ApplyToBook(Parse(raw))
                 /\ UNCHANGED running
<1>1. unread # << >>
  BY DEF Read
<1>2. /\ Head(unread) \in RawMessages /\ Recordable(Head(unread))
      /\ \E k \in 1 .. Len(unread) : Head(unread) = unread[k]
  BY <1>1, TailKeepsEntries DEF Shape
<1> QED BY <1>2 DEF Read

\* the entries are some of the entries there were
LEMMA KeptKeepsRecording ==
  ASSUME RecordingShape, unread' \in Seq(RawMessages), Kept, UNCHANGED <<seq, next_order_id>>
  PROVE  RecordingShape'
<1>1. ASSUME NEW n \in 1 .. Len(unread'), NEW r, r = unread'[n]
      PROVE  Recordable(r)'
  <2>1. Recordable(r)
    BY <1>1 DEF Kept, RecordingShape
  <2> QED BY <2>1 DEF Recordable
<1> QED BY <1>1 DEF RecordingShape

LEMMA ReadKeepsShape == ASSUME Shape, Read PROVE Shape'
<1>1. PICK raw \in RawMessages :
           /\ Recordable(raw) /\ unread' = Tail(unread) /\ unread # << >>
           /\ Gaps!Count(Gaps!SeqOf(raw))
           /\ first_seq' = IF has_prev_seq THEN first_seq ELSE Gaps!SeqOf(raw)
           /\ UNCHANGED <<generatorVars, damaged>>
           /\ \/ /\ LimitReached
                 /\ UNCHANGED <<bookVars, msgs_processed, overtraded>>
              \/ /\ ~LimitReached
                 /\ msgs_processed' = msgs_processed + 1
                 /\ ApplyToBook(Parse(raw))
  BY ReadIs
<1>2. UNCHANGED <<seq, next_order_id, active_orders, ended, part_cancels>>
  BY <1>1 DEF generatorVars
<1>3. GeneratorShape'
  BY <1>2 DEF Shape, GeneratorShape
<1>4. RecordingShape'
  <2>1. unread' \in Seq(RawMessages) /\ Kept
    BY <1>1, TailKeepsEntries DEF Shape, Kept
  <2> QED BY <1>2, <2>1, KeptKeepsRecording DEF Shape
<1>5. ReaderShape'
  <2>1. Gaps!SeqOf(raw) \in 0 .. seq /\ seq \in Nat
    BY <1>1 DEF Gaps!SeqOf, Recordable, Shape, GeneratorShape
  <2> QED BY <1>1, <1>2, <2>1 DEF Gaps!Count, Shape, ReaderShape
<1>6. LoopShape'
  <2>1. CASE UNCHANGED <<bookVars, msgs_processed>>
    BY <1>2, <2>1 DEF Shape, LoopShape, bookVars
  <2>2. CASE ~LimitReached /\ msgs_processed' = msgs_processed + 1 /\ ApplyToBook(Parse(raw))
    <3>1. /\ Effect(raw) /\ raw.price \in Uint32 /\ raw.qty \in Uint32
          /\ raw.id \in 0 .. next_order_id - 1
      BY <1>1, <2>2, ReadHas
    <3>2. raw.id # 0 => raw.id \in 1 .. next_order_id - 1
      BY <3>1
    <3>3. BookOrders(orders') /\ DOMAIN orders' \subseteq 1 .. next_order_id - 1
      BY <3>1, <3>2, EffectKeepsOrders DEF Shape, LoopShape
    <3>4. msgs_processed' \in 0 .. max_msgs
      BY <2>2, Qualities DEF LimitReached, Shape, LoopShape
    <3> QED BY <1>2, <3>3, <3>4 DEF LoopShape
  <2> QED BY <1>1, <2>1, <2>2
<1> QED BY <1>3, <1>4, <1>5, <1>6 DEF Shape

LEMMA OtherStepsKeepShape == ASSUME Shape, Swap \/ End \/ UNCHANGED vars PROVE Shape'
<1>1. /\ UNCHANGED <<seq, next_order_id, active_orders, ended, part_cancels>>
      /\ UNCHANGED <<gapVars, bookVars, msgs_processed, first_seq>>
  BY DEF Swap, End, vars, generatorVars, loopVars
<1>2. RecordingShape'
  <2>1. CASE Swap
    BY <1>1, <2>1, SwapKeepsEntries, KeptKeepsRecording DEF Shape
  <2>2. CASE End \/ UNCHANGED vars
    <3>1. unread' = unread
      BY <2>2 DEF End, vars
    <3> QED BY <1>1, <3>1 DEF Shape, RecordingShape, Recordable
  <2> QED BY <2>1, <2>2
<1>3. GeneratorShape' /\ ReaderShape' /\ LoopShape'
  BY <1>1 DEF Shape, GeneratorShape, ReaderShape, LoopShape, gapVars, bookVars
<1> QED BY <1>2, <1>3 DEF Shape

LEMMA NextKeepsShape == Shape /\ [Next]_vars => Shape'
BY AddKeepsShape, ModifyKeepsShape, CancelKeepsShape, TradeKeepsShape, ClearKeepsShape,
   ReadKeepsShape, OtherStepsKeepShape DEF Next

LEMMA InitHasShape == Init => Shape
<1> SUFFICES ASSUME Init PROVE Shape
  OBVIOUS
<1>1. DOMAIN active_orders = {} /\ DOMAIN orders = {} /\ unread = << >> /\ part_cancels = {}
  BY DEF Init, Book!Init
<1>2. BookOrders(orders)
  BY <1>1, FS_EmptySet DEF BookOrders
<1>3. GeneratorShape
  BY <1>1, Qualities DEF Init, GeneratorShape
<1>4. RecordingShape
  BY <1>1 DEF RecordingShape
<1>5. ReaderShape
  <2>1. seq = 0 /\ first_seq = 0
    BY DEF Init
  <2>2. last_seq_no = 0 /\ gap_count = 0 /\ has_prev_seq = FALSE
    BY DEF Init, Gaps!Init
  <2>3. 0 \in 0 .. seq /\ gap_count \in Nat
    BY <2>1, <2>2
  <2> QED BY <2>1, <2>2, <2>3, Zenon DEF ReaderShape
<1>6. LoopShape
  BY <1>1, <1>2, Qualities DEF Init, LoopShape
<1> QED BY <1>3, <1>4, <1>5, <1>6 DEF Shape

LEMMA AlwaysShape == Spec => []Shape
BY InitHasShape, NextKeepsShape, PTL DEF Spec

\* The feed and the loop keep their types, whatever is lost, repeated, swapped
\* or damaged: no order the generator never wrote appears in the book, and no
\* more messages are processed than --max-msgs allows.
THEOREM FeedTypes == Spec => []TypeOK
BY AlwaysShape, ShapeGivesTypeOK, PTL
-----------------------------------------------------------------------------
(* The levels and the orders.  Effect gives one case for each operation of *)
(* the book, and TypesProofs a lemma for each.                             *)

NoLevelOverflows == RoomIn(orders)

LEMMA RefusedIsIgnored ==
  ASSUME NEW raw, ApplyToBook(Parse(raw)), ~Accepts(raw)
  PROVE  Unaffected
BY DEF ApplyToBook, Parse, None, Book!Ignore, Unaffected

LEMMA EffectKeepsCover ==
  ASSUME CoverWith(levels, orders), RoomIn(orders'), NEW m, Effect(m),
         m.price \in Uint32, m.qty \in Uint32
  PROVE  CoverWith(levels', orders')
<1>1. CASE Unaffected
  BY <1>1 DEF Unaffected
<1>2. CASE Adds(m)
  BY <1>2, AddKeepsCover DEF Adds
<1>3. CASE Modifies(m)
  BY <1>3, ModifyKeepsCover DEF Modifies
<1>4. CASE Drops(m)
  <2>1. m.id \in DOMAIN orders /\ BookOrders(orders)
    BY <1>4 DEF Drops, CoverWith
  <2>2. orders[m.id].qty \in Nat /\ orders[m.id].qty >= orders[m.id].qty
    BY <2>1, BookOrdersLive
  <2> QED BY <1>4, <2>1, <2>2, CancelKeepsCover DEF Drops
<1>5. CASE Trades(m)
  <2>1. m.qty \in Nat
    BY U32Assumption DEF Uint32
  <2> QED BY <1>5, <2>1, TradeKeepsCover DEF Trades
<1>6. CASE Clears(m)
  BY <1>6, EmptyIsCovered DEF Clears
<1> QED BY <1>1, <1>2, <1>3, <1>4, <1>5, <1>6 DEF Effect

LEMMA EffectKeepsStep ==
  ASSUME StepWith(levels, orders), RoomIn(orders'), NEW m, Effect(m),
         m.price \in Uint32, m.qty \in Uint32, ~TradesTooMuch(m)
  PROVE  StepWith(levels', orders')
<1>1. CASE Unaffected
  BY <1>1 DEF Unaffected
<1>2. CASE Adds(m)
  BY <1>2, AddKeepsStep DEF Adds
<1>3. CASE Modifies(m)
  BY <1>3, ModifyKeepsStep DEF Modifies
<1>4. CASE Drops(m)
  BY <1>4, CancelKeepsStep DEF Drops
<1>5. CASE Trades(m)
  <2>1. m.id \in DOMAIN orders /\ BookOrders(orders) /\ ~(m.qty > orders[m.id].qty)
    BY <1>5 DEF Trades, StepWith, TradesTooMuch
  <2>2. m.qty \in Nat /\ orders[m.id].qty \in Nat
    BY <2>1, BookOrdersLive, U32Assumption DEF Uint32
  <2>3. m.qty <= orders[m.id].qty
    BY <2>1, <2>2
  <2> QED BY <1>5, <2>1, <2>2, <2>3, TradeKeepsStep DEF Trades
<1>6. CASE Clears(m)
  BY <1>6, EmptyInStep DEF Clears
<1> QED BY <1>1, <1>2, <1>3, <1>4, <1>5, <1>6 DEF Effect

\* No level holds more than its orders or nothing at all, and without a trade
\* that is too large, no less either.
Covered == CoverWith(levels, orders)
InStep == ~overtraded => StepWith(levels, orders)


LEMMA WriteLeavesBook ==
  ASSUME GenerateAdd \/ GenerateModify \/ GenerateCancel \/ GenerateTrade \/ GenerateClear
         \/ Swap \/ End \/ UNCHANGED vars
  PROVE  UNCHANGED <<bookVars, overtraded>>
BY DEF GenerateAdd, GenerateModify, GenerateCancel, GenerateTrade, GenerateClear, Write, Swap, End,
       vars, loopVars

LEMMA NextKeepsCover ==
  Shape /\ Covered /\ NoLevelOverflows' /\ [Next]_vars => Covered'
<1> SUFFICES ASSUME Shape, Covered, NoLevelOverflows', [Next]_vars PROVE Covered'
  OBVIOUS
<1>1. CASE Read
  <2>1. PICK raw \in RawMessages :
          /\ Recordable(raw)
          /\ UNCHANGED bookVars \/ ApplyToBook(Parse(raw))
    BY <1>1, ReadIs
  <2>2. CASE UNCHANGED bookVars
    BY <2>2 DEF bookVars, Covered
  <2>3. CASE ApplyToBook(Parse(raw))
    <3>1. Effect(raw) /\ raw.price \in Uint32 /\ raw.qty \in Uint32
      BY <2>1, <2>3, ReadHas
    <3> QED BY <3>1, EffectKeepsCover DEF Covered, NoLevelOverflows
  <2> QED BY <2>1, <2>2, <2>3
<1>2. CASE ~Read
  <2>1. UNCHANGED <<bookVars, overtraded>>
    BY <1>2, WriteLeavesBook DEF Next
  <2> QED BY <2>1 DEF bookVars, Covered
<1> QED BY <1>1, <1>2

LEMMA NextKeepsStep ==
  Shape /\ InStep /\ NoLevelOverflows' /\ [Next]_vars => InStep'
<1> SUFFICES ASSUME Shape, InStep, NoLevelOverflows', [Next]_vars PROVE InStep'
  OBVIOUS
<1>1. CASE Read
  <2>1. PICK raw \in RawMessages :
          /\ Recordable(raw)
          /\ \/ UNCHANGED <<bookVars, overtraded>>
             \/ /\ overtraded' = (overtraded \/ \E m \in Parse(raw) : TradesTooMuch(m))
                /\ ApplyToBook(Parse(raw))
    BY <1>1, ReadIs
  <2>2. CASE UNCHANGED <<bookVars, overtraded>>
    BY <2>2 DEF bookVars, InStep
  <2>3. CASE /\ overtraded' = (overtraded \/ \E m \in Parse(raw) : TradesTooMuch(m))
             /\ ApplyToBook(Parse(raw))
    <3>1. Effect(raw) /\ raw.price \in Uint32 /\ raw.qty \in Uint32
      BY <2>1, <2>3, ReadHas
    <3>2. CASE ~Accepts(raw)
      BY <2>3, <3>2, RefusedIsIgnored DEF Unaffected, InStep
    <3>3. CASE Accepts(raw)
      <4>1. Parse(raw) = {raw}
        BY <3>3 DEF Parse
      <4>2. ASSUME ~overtraded'
            PROVE  ~TradesTooMuch(raw) /\ StepWith(levels, orders)
        BY <2>3, <4>1, <4>2 DEF InStep
      <4>3. ASSUME ~overtraded' PROVE StepWith(levels', orders')
        BY <3>1, <4>2, <4>3, EffectKeepsStep DEF NoLevelOverflows
      <4> QED BY <4>3 DEF InStep
    <3> QED BY <3>2, <3>3
  <2> QED BY <2>1, <2>2, <2>3
<1>2. CASE ~Read
  <2>1. UNCHANGED <<bookVars, overtraded>>
    BY <1>2, WriteLeavesBook DEF Next
  <2> QED BY <2>1 DEF bookVars, InStep
<1> QED BY <1>1, <1>2

LEMMA InitIsCovered == Init => Covered /\ InStep
<1> SUFFICES ASSUME Init PROVE Covered /\ InStep
  OBVIOUS
<1>1. orders = [id \in {} |-> 0] /\ levels = [s \in Sides |-> [p \in {} |-> 0]]
  BY DEF Init, Book!Init, Book!Sides, Sides, Book!Bid, Bid, Book!Ask, Ask
<1>2. DOMAIN orders = {}
  BY <1>1
<1> QED BY <1>1, <1>2, EmptyInStep, EmptyIsCovered DEF Covered, InStep

LEMMA CoveredGivesNoEmptyLevels == Covered => NoEmptyLevels
<1> SUFFICES ASSUME Covered PROVE NoEmptyLevels
  OBVIOUS
<1>1. ASSUME NEW id \in DOMAIN orders PROVE orders[id].qty > 0
  <2>1. orders[id].qty \in Nat \ {0}
    BY BookOrdersLive DEF Covered, CoverWith
  <2> QED BY <2>1
<1>2. ASSUME NEW s \in Sides, NEW p \in DOMAIN levels[s] PROVE levels[s][p] > 0
  <2>1. levels[s][p] \in Nat \ {0}
    BY DEF Covered, CoverWith, CoveredAt
  <2> QED BY <2>1
<1> QED BY <1>1, <1>2 DEF NoEmptyLevels

LEMMA InStepGivesLevelsMatchOrders == InStep => LevelsMatchOrders
<1> SUFFICES ASSUME InStep, ~overtraded PROVE Book!LevelsMatchOrders
  BY DEF LevelsMatchOrders
<1>0. StepWith(levels, orders)
  BY DEF InStep
<1>1. ASSUME NEW s \in Sides
      PROVE  DOMAIN levels[s] = {orders[id].price : id \in {i \in DOMAIN orders : orders[i].side = s}}
  BY <1>0, StepGivesSums
<1>2. ASSUME NEW s \in Sides, NEW p \in DOMAIN levels[s]
      PROVE  levels[s][p] = Book!SumFunctionOnSet([id \in DOMAIN orders |-> orders[id].qty],
                                                  Book!OrdersAt(s, p))
  <2>1. levels[s][p] = SumAt(orders, s, p)
    BY <1>0, StepGivesSums
  <2>2. SumAt(orders, s, p) = Book!SumFunctionOnSet([id \in DOMAIN orders |-> orders[id].qty],
                                                    Book!OrdersAt(s, p))
    BY DEF SumAt, At, QtyOf, Book!OrdersAt, Book!SumFunctionOnSet, SumFunctionOnSet,
           Book!FoldFunctionOnSet, FoldFunctionOnSet, Book!MapThenFoldSet, MapThenFoldSet
  <2> QED BY <2>1, <2>2
<1> QED BY <1>1, <1>2 DEF Book!LevelsMatchOrders, Book!Sides, Sides, Book!Bid, Bid, Book!Ask, Ask

\* However faulty the recording, no order and no level of the book is empty, as
\* long as no level's orders add up to more than 32 bits hold.  A trade that is
\* larger than the book's order leaves its level short, but never at 0.
THEOREM LevelsAreNeverEmpty == Spec /\ []NoLevelOverflows => []NoEmptyLevels
<1>1. Shape /\ Covered /\ NoLevelOverflows' /\ [Next]_vars => Covered'
  BY NextKeepsCover
<1> QED BY <1>1, InitIsCovered, CoveredGivesNoEmptyLevels, AlwaysShape, PTL DEF Spec

\* However faulty the recording, the levels are the sums of the orders until a
\* trade is larger than the book's order or a level's orders add up to more
\* than 32 bits hold.
THEOREM LevelsKeepUp == Spec /\ []NoLevelOverflows => []LevelsMatchOrders
<1>1. Shape /\ InStep /\ NoLevelOverflows' /\ [Next]_vars => InStep'
  BY NextKeepsStep
<1> QED BY <1>1, InitIsCovered, InStepGivesLevelsMatchOrders, AlwaysShape, PTL DEF Spec
-----------------------------------------------------------------------------
(* Quantities so small that no level can overflow.                         *)

RoomFor(B) == MaxIds * B < U32 /\ \A q \in Qtys : q <= B

SmallMessage(B, m) == m.type \in {"AddOrder", "ModifyOrder"} => m.qty \in 0 .. B
SmallOrders(B) == \A id \in DOMAIN orders : orders[id].qty \in 0 .. B
Small(B) ==
  /\ SmallOrders(B)
  /\ \A n \in 1 .. Len(unread) : SmallMessage(B, unread[n])

LEMMA EffectStaysSmall ==
  ASSUME NEW B \in Nat, BookOrders(orders), SmallOrders(B), NEW m, Effect(m),
         m.qty \in Uint32, SmallMessage(B, m)
  PROVE  SmallOrders(B)'
<1>0. \A id \in DOMAIN orders : orders[id] \in LiveStates /\ orders[id].qty \in 0 .. B
  BY DEF BookOrders, SmallOrders
<1>1. CASE Unaffected
  BY <1>1 DEF Unaffected, SmallOrders
<1>2. CASE Adds(m)
  <2>1. PICK o : o = [price |-> m.price, qty |-> m.qty, side |-> m.side]
    OBVIOUS
  <2>2. orders' = WithOrder(orders, m.id, o) /\ o.qty \in 0 .. B
    BY <1>2, <2>1 DEF Adds, SmallMessage
  <2> QED BY <2>2 DEF WithOrder, SmallOrders
<1>3. CASE Modifies(m)
  <2>1. orders' = [orders EXCEPT ![m.id].price = m.price, ![m.id].qty = m.qty] /\ m.qty \in 0 .. B
    BY <1>3 DEF Modifies, SmallMessage, Repriced
  <2> QED BY <1>0, <2>1 DEF SmallOrders, LiveStates
<1>4. CASE Drops(m)
  BY <1>4 DEF Drops, WithoutOrder, Restrict, SmallOrders
<1>5. CASE Trades(m)
  <2>1. m.qty \in Nat /\ orders' = Traded(orders, m.id, m.qty) /\ m.id \in DOMAIN orders
    BY <1>5, U32Assumption DEF Trades, Uint32
  <2> QED BY <1>0, <2>1 DEF Traded, WithoutOrder, Restrict, SmallOrders, LiveStates
<1>6. CASE Clears(m)
  BY <1>6 DEF Clears, SmallOrders
<1> QED BY <1>1, <1>2, <1>3, <1>4, <1>5, <1>6 DEF Effect

LEMMA WriteStaysSmall ==
  ASSUME NEW B \in Nat, Shape, Small(B), NEW m \in RawMessages, Write(m), SmallMessage(B, m)
  PROVE  Small(B)'
<1>1. Recorded(m) /\ orders' = orders
  BY WriteIs DEF Shape, loopVars, bookVars
<1>2. ASSUME NEW n \in 1 .. Len(unread'), NEW r, r = unread'[n]
      PROVE  SmallMessage(B, r)
  <2>1. CASE \E k \in 1 .. Len(unread) : r = unread[k]
    BY <2>1 DEF Small
  <2>2. CASE r \in Damage(m)
    BY <2>2, DamageIs DEF SmallMessage
  <2> QED BY <1>1, <1>2, <2>1, <2>2 DEF Recorded
<1> QED BY <1>1, <1>2 DEF Small, SmallOrders, SmallMessage

LEMMA GeneratorStaysSmall ==
  ASSUME NEW B \in Nat, RoomFor(B), Shape, Small(B),
         GenerateAdd \/ GenerateModify \/ GenerateCancel \/ GenerateTrade \/ GenerateClear
  PROVE  Small(B)'
<1>0. next_order_id \in Nat \ {0} /\ \A q \in Qtys : q \in 0 .. B
  BY Qualities, U32Assumption DEF Shape, GeneratorShape, Small, RoomFor, Uint32
<1>1. CASE GenerateAdd
  <2>1. PICK p \in Prices, q \in Qtys, s \in Sides : Write(Message("AddOrder", next_order_id, p, q, s))
    BY <1>1 DEF GenerateAdd
  <2>2. PICK m : m = Message("AddOrder", next_order_id, p, q, s)
    OBVIOUS
  <2>3. next_order_id \in Nat /\ p \in FeedPrices /\ q \in Uint32 /\ q \in 0 .. B
    BY <1>0, Qualities
  <2>4. m \in RawMessages /\ m.qty = q
    <3>1. Message("AddOrder", next_order_id, p, q, s) \in RawMessages
      BY <2>3, MessageIs
    <3>2. Message("AddOrder", next_order_id, p, q, s).qty = q
      BY <2>3, MessageIs
    <3> QED BY <2>2, <3>1, <3>2
  <2> QED BY <2>1, <2>2, <2>3, <2>4, WriteStaysSmall DEF SmallMessage
<1>2. CASE GenerateModify
  <2>1. PICK id \in DOMAIN active_orders, p \in Prices, q \in Qtys :
          Write(Message("ModifyOrder", id, p, q, Bid))
    BY <1>2 DEF GenerateModify
  <2>2. PICK m : m = Message("ModifyOrder", id, p, q, Bid)
    OBVIOUS
  <2>3. id \in Nat /\ p \in FeedPrices /\ q \in Uint32 /\ q \in 0 .. B /\ Bid \in Sides
    BY <1>0, ListedIs, Qualities DEF Sides
  <2>4. m \in RawMessages /\ m.qty = q
    BY <2>2, <2>3, MessageIs
  <2> QED BY <2>1, <2>2, <2>3, <2>4, WriteStaysSmall DEF SmallMessage
<1>3. CASE GenerateCancel
  <2>1. PICK id \in DOMAIN active_orders : \E q \in 1 .. active_orders[id].qty :
          Write(Message("CancelOrder", id, 0, q, Bid))
    BY <1>3 DEF GenerateCancel
  <2>2. PICK q \in 1 .. active_orders[id].qty : Write(Message("CancelOrder", id, 0, q, Bid))
    BY <2>1
  <2>3. PICK m : m = Message("CancelOrder", id, 0, q, Bid)
    OBVIOUS
  <2>4. id \in Nat /\ 0 \in FeedPrices /\ 0 \in Uint32 /\ q \in Uint32 /\ Bid \in Sides
    BY ListedIs, Qualities DEF Sides
  <2>5. m \in RawMessages /\ m.type = "CancelOrder"
    BY <2>3, <2>4, MessageIs
  <2> QED BY <2>2, <2>3, <2>5, WriteStaysSmall DEF SmallMessage
<1>4. CASE GenerateTrade
  <2>1. PICK id \in DOMAIN active_orders : \E q \in 1 .. active_orders[id].qty :
          Write(Message("Trade", id, active_orders[id].price, q, active_orders[id].side))
    BY <1>4 DEF GenerateTrade
  <2>2. PICK q \in 1 .. active_orders[id].qty :
          Write(Message("Trade", id, active_orders[id].price, q, active_orders[id].side))
    BY <2>1
  <2>3. PICK p, s : p = active_orders[id].price /\ s = active_orders[id].side
    OBVIOUS
  <2>4. PICK m : m = Message("Trade", id, p, q, s)
    OBVIOUS
  <2>5. id \in Nat /\ p \in FeedPrices /\ q \in Uint32 /\ s \in Sides
    BY <2>3, ListedIs, Qualities
  <2>6. m \in RawMessages /\ m.type = "Trade"
    BY <2>4, <2>5, MessageIs
  <2> QED BY <2>2, <2>3, <2>4, <2>6, WriteStaysSmall DEF SmallMessage
<1>5. CASE GenerateClear
  <2>1. PICK m : m = Message("Clear", 0, 0, 0, Bid)
    OBVIOUS
  <2>2. 0 \in Nat /\ 0 \in FeedPrices /\ 0 \in Uint32 /\ Bid \in Sides
    BY Qualities DEF Sides
  <2>3. m \in RawMessages /\ m.type = "Clear"
    BY <2>1, <2>2, MessageIs
  <2>4. Write(m)
    BY <1>5, <2>1 DEF GenerateClear
  <2> QED BY <2>3, <2>4, WriteStaysSmall DEF SmallMessage
<1> QED BY <1>1, <1>2, <1>3, <1>4, <1>5

LEMMA ReadStaysSmall ==
  ASSUME NEW B \in Nat, Shape, Small(B), Read
  PROVE  Small(B)'
<1>1. PICK raw \in RawMessages :
        /\ Recordable(raw) /\ \E k \in 1 .. Len(unread) : raw = unread[k]
        /\ unread' = Tail(unread) /\ unread # << >>
        /\ UNCHANGED bookVars \/ ApplyToBook(Parse(raw))
  BY ReadIs
<1>2. SmallMessage(B, raw)
  BY <1>1 DEF Small
<1>3. SmallOrders(B)'
  <2>1. CASE UNCHANGED bookVars
    BY <2>1 DEF bookVars, Small, SmallOrders
  <2>2. CASE ApplyToBook(Parse(raw))
    <3>1. Effect(raw) /\ raw.qty \in Uint32
      BY <1>1, <2>2, ReadHas
    <3> QED BY <1>2, <3>1, EffectStaysSmall DEF Shape, LoopShape, Small
  <2> QED BY <1>1, <2>1, <2>2
<1>4. ASSUME NEW n \in 1 .. Len(unread'), NEW r, r = unread'[n]
      PROVE  SmallMessage(B, r)
  <2>1. \E k \in 1 .. Len(unread) : r = unread[k]
    BY <1>1, <1>4, TailKeepsEntries DEF Shape
  <2> QED BY <2>1 DEF Small
<1> QED BY <1>3, <1>4 DEF Small, SmallMessage

LEMMA NextStaysSmall ==
  ASSUME NEW B \in Nat, RoomFor(B), Shape, Small(B), [Next]_vars
  PROVE  Small(B)'
<1>1. CASE Swap \/ End \/ UNCHANGED vars
  <2>1. orders' = orders
    BY <1>1 DEF Swap, End, vars, loopVars, bookVars
  <2>2. ASSUME NEW n \in 1 .. Len(unread'), NEW r, r = unread'[n]
        PROVE  SmallMessage(B, r)
    <3>1. CASE Swap
      <4>1. \E k \in 1 .. Len(unread) : r = unread[k]
        BY <2>2, <3>1, SwapKeepsEntries DEF Shape, Kept
      <4> QED BY <4>1 DEF Small
    <3>2. CASE End \/ UNCHANGED vars
      BY <2>2, <3>2 DEF End, vars, Small
    <3> QED BY <1>1, <3>1, <3>2
  <2> QED BY <2>1, <2>2 DEF Small, SmallOrders, SmallMessage
<1> QED BY <1>1, GeneratorStaysSmall, ReadStaysSmall DEF Next

LEMMA SmallGivesRoom ==
  ASSUME NEW B \in Nat, RoomFor(B), Shape, Small(B)
  PROVE  NoLevelOverflows
<1>1. next_order_id \in Nat /\ next_order_id <= MaxIds + 1 /\ DOMAIN orders \subseteq 1 .. next_order_id - 1
  BY DEF Shape, GeneratorShape, LoopShape, Small
<1>2. DOMAIN orders \subseteq 1 .. MaxIds
  BY <1>1, Qualities
<1> QED BY <1>2, RoomByCount, Qualities DEF RoomFor, Small, SmallOrders, NoLevelOverflows

LEMMA InitIsSmall == ASSUME NEW B \in Nat, Init PROVE Small(B)
BY Qualities DEF Init, Book!Init, Small, SmallOrders

\* When no order is for more than B and all of them together would fit in 32
\* bits, neither needs a proviso: the runs' own constants are such.
THEOREM LevelsAreNeverEmptyWithRoom ==
  ASSUME NEW B \in Nat, RoomFor(B)
  PROVE  Spec => []NoEmptyLevels
<1>1. Init => Small(B)
  BY InitIsSmall
<1>2. Shape /\ Small(B) /\ [Next]_vars => Small(B)'
  BY NextStaysSmall
<1>3. Shape /\ Small(B) => NoLevelOverflows
  BY SmallGivesRoom
<1> QED BY <1>1, <1>2, <1>3, LevelsAreNeverEmpty, AlwaysShape, PTL DEF Spec

\* The same of the sums.
THEOREM LevelsKeepUpWithRoom ==
  ASSUME NEW B \in Nat, RoomFor(B)
  PROVE  Spec => []LevelsMatchOrders
<1>1. Init => Small(B)
  BY InitIsSmall
<1>2. Shape /\ Small(B) /\ [Next]_vars => Small(B)'
  BY NextStaysSmall
<1>3. Shape /\ Small(B) => NoLevelOverflows
  BY SmallGivesRoom
<1> QED BY <1>1, <1>2, <1>3, LevelsKeepUp, AlwaysShape, PTL DEF Spec
-----------------------------------------------------------------------------
(* The history of the feed.  A stage is the generator's list, the orders it *)
(* cancelled in part and whether it had ended, after a message, together    *)
(* with the message.  Wrote says how a message makes a stage of the one     *)
(* before it.  The orders are compared one by one, since a damaged message  *)
(* concerns the order it names and no other.                                *)

Stage(L, P, e, m) == [list |-> L, parts |-> P, over |-> e, msg |-> m]

Wrote(a, b) ==
  /\ BookOrders(a.list) /\ ~a.over
  /\ b.msg \in RawMessages /\ Accepts(b.msg)
  /\ \/ /\ b.msg.type = "AddOrder" /\ ~b.over /\ b.parts = a.parts
        /\ b.msg.id \notin DOMAIN a.list \cup a.parts \cup {0}
        /\ b.list = WithOrder(a.list, b.msg.id,
                              [price |-> b.msg.price, qty |-> b.msg.qty, side |-> b.msg.side])
     \/ /\ b.msg.type = "ModifyOrder" /\ ~b.over /\ b.parts = a.parts
        /\ b.msg.id \in DOMAIN a.list
        /\ b.list = Repriced(a.list, b.msg.id, b.msg.price, b.msg.qty)
     \/ /\ b.msg.type = "CancelOrder" /\ ~b.over /\ b.msg.id \in DOMAIN a.list
        /\ b.list = Traded(a.list, b.msg.id, b.msg.qty)
        /\ b.parts = IF b.msg.qty >= a.list[b.msg.id].qty THEN a.parts ELSE a.parts \cup {b.msg.id}
     \/ /\ b.msg.type = "Trade" /\ ~b.over /\ b.parts = a.parts
        /\ b.msg.id \in DOMAIN a.list /\ ~(b.msg.qty > a.list[b.msg.id].qty)
        /\ b.list = Traded(a.list, b.msg.id, b.msg.qty)
     \/ b.msg.type = "Clear" /\ b.msg.id = 0 /\ b.over /\ b.parts = a.parts /\ b.list = a.list

\* Of order x, the orders O are what the book should hold at the stage.
Shows(O, a, x) ==
  /\ x \in DOMAIN O <=> ~a.over /\ x \in DOMAIN a.list \ a.parts
  /\ x \in DOMAIN O => O[x] = a.list[x]

\* Of order x, O and F are the same.
Alike(O, F, x) == (x \in DOMAIN O <=> x \in DOMAIN F) /\ (x \in DOMAIN O => O[x] = F[x])

LEMMA AlikeShows ==
  ASSUME NEW O, NEW F, NEW a, NEW x, Alike(O, F, x), Shows(F, a, x)
  PROVE  Shows(O, a, x)
BY DEF Alike, Shows

\* An operation on one order leaves the others alone.
LEMMA OthersAlike ==
  ASSUME NEW O, BookOrders(O), NEW id, NEW x, x # id
  PROVE  /\ \A o : Alike(WithOrder(O, id, o), O, x)
         /\ Alike(WithoutOrder(O, id), O, x)
         /\ id \in DOMAIN O => \A p \in Uint32, q \in Uint32 \ {0} : Alike(Repriced(O, id, p, q), O, x)
         /\ id \in DOMAIN O => \A q \in Nat : Alike(Traded(O, id, q), O, x)
<1>1. \A o : Alike(WithOrder(O, id, o), O, x)
  BY DEF Alike, WithOrder
<1>2. Alike(WithoutOrder(O, id), O, x)
  BY DEF Alike, WithoutOrder, Restrict
<1>3. ASSUME id \in DOMAIN O, NEW p \in Uint32, NEW q \in Uint32 \ {0}
      PROVE  Alike(Repriced(O, id, p, q), O, x)
  BY <1>3 DEF Alike, Repriced
<1>4. ASSUME id \in DOMAIN O, NEW q \in Nat
      PROVE  Alike(Traded(O, id, q), O, x)
  <2>1. CASE q >= O[id].qty
    BY <1>2, <2>1 DEF Traded
  <2>2. CASE ~(q >= O[id].qty)
    <3>1. PICK F : F = Traded(O, id, q)
      OBVIOUS
    <3>2. DOMAIN F = DOMAIN O /\ \A y \in DOMAIN O : y # id => F[y] = O[y]
      BY <1>4, <2>2, <3>1, ShrunkIs
    <3> QED BY <3>1, <3>2 DEF Alike
  <2> QED BY <2>1, <2>2
<1> QED BY <1>1, <1>2, <1>3, <1>4

\* A message of another order leaves what the book should hold of x as it was.
LEMMA OthersStillShow ==
  ASSUME NEW a, NEW b, Wrote(a, b), b.msg.type # "Clear",
         NEW x, x # b.msg.id, NEW O, Shows(O, a, x)
  PROVE  Shows(O, b, x)
<1>1. PICK m : m = b.msg /\ m \in RawMessages /\ Accepts(m)
  BY DEF Wrote
<1>1a. /\ m.price \in Uint32 /\ m.qty \in Nat
       /\ m.type = "ModifyOrder" => m.qty \in Uint32 \ {0}
  BY <1>1, Qualities DEF RawMessages, Accepts
<1>2. BookOrders(a.list) /\ ~a.over /\ ~b.over
  BY DEF Wrote
<1>3. x \in a.parts <=> x \in b.parts
  BY DEF Wrote
<1>4. Alike(b.list, a.list, x)
  BY <1>1, <1>1a, <1>2, OthersAlike DEF Wrote
<1> QED BY <1>2, <1>3, <1>4 DEF Shows, Alike

\* What an accepted message does, by its type.
LEMMA AcceptedHas ==
  ASSUME NEW raw \in RawMessages, Recordable(raw), Accepts(raw), ApplyToBook(Parse(raw))
  PROVE  /\ Parse(raw) = {raw} /\ raw.price \in Uint32 /\ raw.qty \in Uint32
         /\ raw.type = "AddOrder" => IF raw.id \in DOMAIN orders THEN Unaffected ELSE Adds(raw)
         /\ raw.type = "ModifyOrder" => IF raw.id \in DOMAIN orders THEN Modifies(raw) ELSE Unaffected
         /\ raw.type = "CancelOrder" => IF raw.id \in DOMAIN orders THEN Drops(raw) ELSE Unaffected
         /\ raw.type = "Trade" => IF raw.id \in DOMAIN orders THEN Trades(raw) ELSE Unaffected
         /\ raw.type = "Clear" => Clears(raw)
<1>1. Parse(raw) = {raw}
  BY DEF Parse
<1>2. \/ raw.type = "AddOrder" /\ Book!AddOrder(raw.id, raw.price, raw.qty, raw.side)
      \/ raw.type = "ModifyOrder" /\ Book!ModifyOrder(raw.id, raw.price, raw.qty)
      \/ raw.type = "CancelOrder" /\ Book!CancelOrder(raw.id)
      \/ raw.type = "Trade" /\ Book!ApplyTrade(raw.id, raw.qty)
      \/ raw.type = "Clear" /\ Book!Clear
  BY <1>1 DEF ApplyToBook, None
<1>3. /\ raw.price \in Uint32 /\ raw.qty \in Uint32
      /\ raw.type = "AddOrder" => raw.qty \in Uint32 \ {0} /\ raw.side \in Sides /\ raw.id # 0
      /\ raw.type = "ModifyOrder" => raw.qty \in Uint32 \ {0}
  BY Qualities DEF Accepts, RawMessages, Recordable
<1>4. raw.type = "AddOrder" => IF raw.id \in DOMAIN orders THEN Unaffected ELSE Adds(raw)
  <2>1. ASSUME raw.type = "AddOrder"
        PROVE  IF raw.id \in DOMAIN orders THEN Unaffected ELSE Adds(raw)
    <3>1. Book!AddOrder(raw.id, raw.price, raw.qty, raw.side)
      BY <1>2, <2>1
    <3> QED BY <1>3, <2>1, <3>1, BookAdds
  <2> QED BY <2>1
<1>5. raw.type = "ModifyOrder" => IF raw.id \in DOMAIN orders THEN Modifies(raw) ELSE Unaffected
  <2>1. ASSUME raw.type = "ModifyOrder"
        PROVE  IF raw.id \in DOMAIN orders THEN Modifies(raw) ELSE Unaffected
    <3>1. Book!ModifyOrder(raw.id, raw.price, raw.qty)
      BY <1>2, <2>1
    <3> QED BY <1>3, <2>1, <3>1, BookModifies
  <2> QED BY <2>1
<1>6. raw.type = "CancelOrder" => IF raw.id \in DOMAIN orders THEN Drops(raw) ELSE Unaffected
  <2>1. ASSUME raw.type = "CancelOrder"
        PROVE  IF raw.id \in DOMAIN orders THEN Drops(raw) ELSE Unaffected
    <3>1. Book!CancelOrder(raw.id)
      BY <1>2, <2>1
    <3> QED BY <2>1, <3>1, BookCancels
  <2> QED BY <2>1
<1>7. raw.type = "Trade" => IF raw.id \in DOMAIN orders THEN Trades(raw) ELSE Unaffected
  <2>1. ASSUME raw.type = "Trade"
        PROVE  IF raw.id \in DOMAIN orders THEN Trades(raw) ELSE Unaffected
    <3>1. Book!ApplyTrade(raw.id, raw.qty)
      BY <1>2, <2>1
    <3> QED BY <2>1, <3>1, BookTrades
  <2> QED BY <2>1
<1>8. raw.type = "Clear" => Clears(raw)
  BY <1>2, BookClears
<1> QED BY <1>1, <1>3, <1>4, <1>5, <1>6, <1>7, <1>8

\* Whatever the parser makes of it, a message touches its own order only.
LEMMA MessageLeavesOthers ==
  ASSUME BookOrders(orders), NEW raw \in RawMessages, Recordable(raw), raw.type # "Clear",
         ApplyToBook(Parse(raw)), NEW x, x # raw.id
  PROVE  Alike(orders', orders, x)
<1>1. CASE ~Accepts(raw)
  BY <1>1 DEF ApplyToBook, Parse, None, Book!Ignore, Alike
<1>2. CASE Accepts(raw)
  <2>1. /\ raw.price \in Uint32 /\ raw.qty \in Nat
        /\ raw.type = "ModifyOrder" => raw.qty \in Uint32 \ {0}
    BY <1>2, AcceptedHas, U32Assumption DEF Uint32, Accepts
  <2>2. Unaffected \/ Adds(raw) \/ Modifies(raw) \/ Drops(raw) \/ Trades(raw)
    BY <1>2, AcceptedHas DEF Accepts, MsgTypes, WireSize
  <2>3. CASE Unaffected
    BY <2>3 DEF Unaffected, Alike
  <2>4. CASE Adds(raw)
    BY <2>4, OthersAlike DEF Adds
  <2>5. CASE Modifies(raw)
    BY <2>1, <2>5, OthersAlike DEF Modifies
  <2>6. CASE Drops(raw)
    BY <2>6, OthersAlike DEF Drops
  <2>7. CASE Trades(raw)
    BY <2>1, <2>7, OthersAlike DEF Trades
  <2> QED BY <2>2, <2>3, <2>4, <2>5, <2>6, <2>7
<1> QED BY <1>1, <1>2

\* A message that arrives as it was written does to its order in the book what
\* the generator did to its list.
LEMMA IntactMessageFollows ==
  ASSUME NEW a, NEW b, Wrote(a, b), b.msg.type # "Clear", BookOrders(orders),
         NEW raw \in RawMessages, Recordable(raw), raw = b.msg, ApplyToBook(Parse(raw)),
         Shows(orders, a, raw.id)
  PROVE  Shows(orders', b, raw.id) /\ ~\E m \in Parse(raw) : TradesTooMuch(m)
<1>1. BookOrders(a.list) /\ ~a.over /\ ~b.over /\ Accepts(raw)
  BY DEF Wrote
<1>2. Parse(raw) = {raw} /\ raw.price \in Uint32 /\ raw.qty \in Uint32 /\ raw.qty \in Nat
  BY <1>1, AcceptedHas, U32Assumption DEF Uint32
<1>3. PICK L, id : L = a.list /\ id = raw.id
  OBVIOUS
<1>4. /\ id \in DOMAIN orders <=> id \in DOMAIN L \ a.parts
      /\ id \in DOMAIN orders => orders[id] = L[id]
  BY <1>1, <1>3 DEF Shows
<1>5. CASE /\ raw.type = "AddOrder" /\ b.parts = a.parts
           /\ id \notin DOMAIN L \cup a.parts
           /\ b.list = WithOrder(L, id, [price |-> raw.price, qty |-> raw.qty, side |-> raw.side])
  <2>1. Adds(raw)
    BY <1>1, <1>3, <1>4, <1>5, AcceptedHas
  <2>2. PICK o : o = [price |-> raw.price, qty |-> raw.qty, side |-> raw.side]
    OBVIOUS
  <2>3. orders' = WithOrder(orders, id, o) /\ b.list = WithOrder(L, id, o)
    BY <1>3, <1>5, <2>1, <2>2 DEF Adds
  <2>4. Shows(orders', b, id)
    BY <1>1, <1>5, <2>3 DEF Shows, WithOrder
  <2> QED BY <1>2, <1>3, <1>5, <2>4 DEF TradesTooMuch
<1>6. CASE /\ raw.type = "ModifyOrder" /\ b.parts = a.parts /\ id \in DOMAIN L
           /\ b.list = Repriced(L, id, raw.price, raw.qty)
  <2>1. IF id \in DOMAIN orders THEN Modifies(raw) ELSE Unaffected
    BY <1>1, <1>3, <1>6, AcceptedHas
  <2>2. raw.qty \in Uint32 \ {0}
    BY <1>1, <1>2, <1>6 DEF Accepts
  <2>3. /\ DOMAIN b.list = DOMAIN L
        /\ b.list[id] = [price |-> raw.price, qty |-> raw.qty, side |-> L[id].side]
    BY <1>1, <1>2, <1>3, <1>6, <2>2, RepricedIs
  <2>4. ASSUME id \in DOMAIN orders PROVE Shows(orders', b, id)
    <3>1. orders' = Repriced(orders, id, raw.price, raw.qty)
      BY <1>3, <2>1, <2>4 DEF Modifies
    <3>2. /\ DOMAIN orders' = DOMAIN orders
          /\ orders'[id] = [price |-> raw.price, qty |-> raw.qty, side |-> orders[id].side]
      BY <1>2, <2>2, <2>4, <3>1, RepricedIs
    <3> QED BY <1>1, <1>4, <1>6, <2>3, <2>4, <3>2 DEF Shows
  <2>5. ASSUME id \notin DOMAIN orders PROVE Shows(orders', b, id)
    BY <1>1, <1>4, <1>6, <2>1, <2>3, <2>5 DEF Shows, Unaffected
  <2>6. Shows(orders', b, id)
    BY <2>4, <2>5
  <2> QED BY <1>2, <1>3, <1>6, <2>6 DEF TradesTooMuch
<1>7. CASE /\ raw.type = "CancelOrder" /\ id \in DOMAIN L
           /\ b.list = Traded(L, id, raw.qty)
           /\ b.parts = IF raw.qty >= L[id].qty THEN a.parts ELSE a.parts \cup {id}
  <2>1. IF id \in DOMAIN orders THEN Drops(raw) ELSE Unaffected
    BY <1>1, <1>3, <1>7, AcceptedHas
  <2>2. id \notin DOMAIN orders'
    BY <1>3, <2>1 DEF Drops, Unaffected, WithoutOrder, Restrict
  <2>3. id \notin DOMAIN b.list \ b.parts
    <3>1. CASE raw.qty >= L[id].qty
      BY <1>7, <3>1 DEF Traded, WithoutOrder, Restrict
    <3>2. CASE ~(raw.qty >= L[id].qty)
      BY <1>7, <3>2
    <3> QED BY <3>1, <3>2
  <2>4. Shows(orders', b, id)
    BY <2>2, <2>3 DEF Shows
  <2> QED BY <1>2, <1>3, <1>7, <2>4 DEF TradesTooMuch
<1>8. CASE /\ raw.type = "Trade" /\ b.parts = a.parts
           /\ id \in DOMAIN L /\ ~(raw.qty > L[id].qty)
           /\ b.list = Traded(L, id, raw.qty)
  <2>1. IF id \in DOMAIN orders THEN Trades(raw) ELSE Unaffected
    BY <1>1, <1>3, <1>8, AcceptedHas
  <2>2. DOMAIN b.list \subseteq DOMAIN L
    BY <1>1, <1>2, <1>3, <1>8, TradedIs
  <2>3. ASSUME id \in DOMAIN orders PROVE Shows(orders', b, id)
    <3>1. orders' = Traded(orders, id, raw.qty) /\ orders[id] = L[id] /\ id \notin a.parts
      BY <1>3, <1>4, <2>1, <2>3 DEF Trades
    <3>2. CASE raw.qty >= L[id].qty
      <4>1. orders' = WithoutOrder(orders, id) /\ b.list = WithoutOrder(L, id)
        BY <1>8, <3>1, <3>2 DEF Traded
      <4> QED BY <4>1 DEF Shows, WithoutOrder, Restrict
    <3>3. CASE ~(raw.qty >= L[id].qty)
      <4>1. /\ DOMAIN b.list = DOMAIN L
            /\ b.list[id] = [price |-> L[id].price, qty |-> L[id].qty - raw.qty, side |-> L[id].side]
        BY <1>1, <1>2, <1>3, <1>8, <3>3, ShrunkIs
      <4>2. /\ DOMAIN orders' = DOMAIN orders
            /\ orders'[id] = [price |-> orders[id].price, qty |-> orders[id].qty - raw.qty,
                              side |-> orders[id].side]
        BY <1>2, <2>3, <3>1, <3>3, ShrunkIs
      <4> QED BY <1>1, <1>4, <1>8, <2>3, <3>1, <4>1, <4>2 DEF Shows
    <3> QED BY <3>2, <3>3
  <2>4. ASSUME id \notin DOMAIN orders PROVE Shows(orders', b, id)
    BY <1>4, <1>8, <2>1, <2>2, <2>4 DEF Shows, Unaffected
  <2>5. ~TradesTooMuch(raw)
    BY <1>3, <1>4, <1>8 DEF TradesTooMuch
  <2> QED BY <1>2, <1>3, <2>3, <2>4, <2>5
<1> QED BY <1>3, <1>5, <1>6, <1>7, <1>8 DEF Wrote

\* What of the recording a message may be, that was written as m: the same, or
\* one damaged.
Arrives(r, m) ==
  \/ r = m
  \/ r.id = m.id /\ r.id \in damaged /\ r.type \in {m.type, "unknown"}

\* The book, apart from the damaged orders, is what it should be at the stage.
Follows(a) == 0 \notin damaged => \A x : x \notin damaged => Shows(orders, a, x)

\* The loop reads the next stage's message: the book follows.
LEMMA BookFollowsStage ==
  ASSUME NEW a, NEW b, Wrote(a, b), BookOrders(orders), Follows(a), overtraded => damaged # {},
         NEW raw \in RawMessages, Recordable(raw), Arrives(raw, b.msg), ApplyToBook(Parse(raw)),
         damaged' = damaged,
         overtraded' = (overtraded \/ \E m \in Parse(raw) : TradesTooMuch(m))
  PROVE  Follows(b)' /\ (overtraded' => damaged' # {})
<1>1. raw.id = b.msg.id
  BY DEF Arrives
<1>2. CASE damaged = {}
  <2>1. raw = b.msg
    BY <1>2 DEF Arrives
  <2>2. \A x : Shows(orders, a, x)
    BY <1>2 DEF Follows
  <2>3. CASE raw.type = "Clear"
    <3>1. Accepts(raw) /\ b.over
      BY <2>1, <2>3 DEF Wrote
    <3>2. Clears(raw) /\ Parse(raw) = {raw}
      BY <2>3, <3>1, AcceptedHas
    <3>3. \A x : Shows(orders', b, x)
      BY <3>1, <3>2 DEF Clears, Shows
    <3> QED BY <1>2, <2>3, <3>2, <3>3 DEF Follows, TradesTooMuch
  <2>4. CASE raw.type # "Clear"
    <3>1. Shows(orders', b, raw.id) /\ ~\E m \in Parse(raw) : TradesTooMuch(m)
      BY <2>1, <2>2, <2>4, IntactMessageFollows
    <3>2. ASSUME NEW x, x # raw.id PROVE Shows(orders', b, x)
      BY <1>1, <2>1, <2>2, <2>4, <3>2, MessageLeavesOthers, OthersStillShow, AlikeShows
    <3> QED BY <1>2, <3>1, <3>2 DEF Follows
  <2> QED BY <2>3, <2>4
<1>3. CASE damaged # {}
  <2>1. ASSUME 0 \notin damaged, NEW x, x \notin damaged PROVE Shows(orders', b, x)
    <3>1. Shows(orders, a, x)
      BY <2>1 DEF Follows
    <3>2. CASE b.msg.type = "Clear"
      <4>1. b.msg.id = 0 /\ b.over /\ Accepts(b.msg)
        BY <3>2 DEF Wrote
      <4>2. raw = b.msg
        BY <1>1, <2>1, <4>1 DEF Arrives
      <4>3. Clears(raw)
        BY <3>2, <4>1, <4>2, AcceptedHas
      <4> QED BY <4>1, <4>3 DEF Clears, Shows
    <3>3. CASE b.msg.type # "Clear"
      <4>1. raw.type # "Clear"
        BY <3>3 DEF Arrives
      <4>2. CASE x = raw.id
        <5>1. raw = b.msg
          BY <2>1, <4>2 DEF Arrives
        <5> QED BY <3>1, <3>3, <4>2, <5>1, IntactMessageFollows
      <4>3. CASE x # raw.id
        BY <1>1, <3>1, <3>3, <4>1, <4>3, MessageLeavesOthers, OthersStillShow, AlikeShows
      <4> QED BY <4>2, <4>3
    <3> QED BY <3>2, <3>3
  <2> QED BY <1>3, <2>1 DEF Follows
<1> QED BY <1>2, <1>3

\* The loop has read, without a sign of a fault, as far as it has processed.
Synced(h) ==
  /\ overtraded => damaged # {}
  /\ msgs_processed \in 0 .. seq
  /\ Follows(h[msgs_processed])
  /\ running => msgs_processed = last_seq_no

\* h is a history of the feed, from before its first message to its latest.
History(h) ==
  /\ \A k \in 1 .. seq : Wrote(h[k - 1], h[k])
  /\ h[seq].list = active_orders /\ h[seq].parts = part_cancels /\ h[seq].over = ended
  /\ \A n \in 1 .. Len(unread) : Arrives(unread[n], h[unread[n].seq].msg)
  /\ InSync => Synced(h)

LEMMA HistoryGrows ==
  ASSUME Shape, NEW h, History(h), NEW m \in RawMessages, Write(m), m.seq = seq + 1,
         NEW b, b.list = active_orders', b.parts = part_cancels', b.over = ended', b.msg = m,
         Wrote(h[seq], b)
  PROVE  \E g : History(g)'
<1>1. PICK n : n = seq
  OBVIOUS
<1>2. PICK g : g = [k \in 0 .. n + 1 |-> IF k = n + 1 THEN b ELSE h[k]]
  OBVIOUS
<1>3. /\ seq' = n + 1 /\ n \in Nat /\ UNCHANGED loopVars
      /\ Recorded(m) /\ damaged \subseteq damaged'
  BY <1>1, WriteIs DEF Shape, GeneratorShape
<1>4. g[n + 1] = b /\ \A k \in 0 .. n : g[k] = h[k]
  BY <1>2, <1>3
<1>5. \A k \in 1 .. seq' : Wrote(g[k - 1], g[k])
  <2>1. ASSUME NEW k \in 1 .. n + 1 PROVE Wrote(g[k - 1], g[k])
    <3>1. CASE k = n + 1
      <4>1. k - 1 = n /\ n \in 0 .. n
        BY <1>3, <3>1
      <4>2. g[k - 1] = h[seq] /\ g[k] = b
        BY <1>1, <1>4, <3>1, <4>1
      <4> QED BY <4>2
    <3>2. CASE k # n + 1
      <4>1. k \in 1 .. n /\ k \in 0 .. n /\ k - 1 \in 0 .. n
        BY <1>3, <3>2
      <4>2. g[k - 1] = h[k - 1] /\ g[k] = h[k]
        BY <1>4, <4>1
      <4>3. Wrote(h[k - 1], h[k])
        BY <1>1, <4>1 DEF History
      <4> QED BY <4>2, <4>3
    <3> QED BY <3>1, <3>2
  <2> QED BY <1>3, <2>1
<1>6. g[seq'].list = active_orders' /\ g[seq'].parts = part_cancels' /\ g[seq'].over = ended'
  BY <1>3, <1>4
<1>7. ASSUME NEW i \in 1 .. Len(unread'), NEW r, r = unread'[i]
      PROVE  Arrives(r, g[r.seq].msg)'
  <2>1. CASE r = m \/ (m.id \in damaged' /\ r \in Damage(m))
    <3>1. r.seq = n + 1 /\ g[r.seq].msg = m
      BY <1>1, <1>4, <2>1, DamageIs
    <3> QED BY <2>1, <3>1, DamageIs DEF Arrives
  <2>2. CASE \E k \in 1 .. Len(unread) : r = unread[k]
    <3>1. r.seq \in 1 .. n
      BY <1>1, <2>2 DEF Shape, RecordingShape, Recordable
    <3>2. Arrives(r, h[r.seq].msg)
      BY <2>2 DEF History
    <3>3. g[r.seq] = h[r.seq]
      BY <1>3, <1>4, <3>1
    <3> QED BY <1>3, <3>2, <3>3 DEF Arrives
  <2> QED BY <1>3, <1>7, <2>1, <2>2 DEF Recorded
<1>8. ASSUME InSync' PROVE Synced(g)'
  <2>1. UNCHANGED <<overtraded, msgs_processed, orders, running, last_seq_no>>
    BY <1>3 DEF loopVars, gapVars, bookVars
  <2>2. InSync
    BY <1>3, <1>8 DEF InSync, loopVars, gapVars
  <2>3. Synced(h)
    BY <2>2 DEF History
  <2>4. msgs_processed \in 0 .. n /\ msgs_processed \in 0 .. seq'
    BY <1>1, <1>3, <2>3 DEF Synced
  <2>5. g[msgs_processed] = h[msgs_processed]
    BY <1>4, <2>4
  <2>6. Follows(g[msgs_processed])'
    BY <1>3, <2>1, <2>3, <2>5 DEF Synced, Follows
  <2>7. overtraded' => damaged' # {}
    BY <1>3, <2>1, <2>3 DEF Synced
  <2> QED BY <2>1, <2>3, <2>4, <2>6, <2>7 DEF Synced
<1>9. History(g)'
  BY <1>5, <1>6, <1>7, <1>8 DEF History
<1> QED BY <1>9

\* The loop's step: a number that follows the last one is the next stage's.
LEMMA ReadKeepsHistory ==
  ASSUME Shape, NEW h, History(h), Read
  PROVE  History(h)'
<1>1. PICK raw \in RawMessages :
           /\ Recordable(raw) /\ \E k \in 1 .. Len(unread) : raw = unread[k]
           /\ unread' = Tail(unread) /\ unread # << >> /\ running
           /\ Gaps!Count(Gaps!SeqOf(raw))
           /\ first_seq' = IF has_prev_seq THEN first_seq ELSE Gaps!SeqOf(raw)
           /\ UNCHANGED <<generatorVars, damaged>>
           /\ \/ /\ LimitReached
                 /\ running' = FALSE
                 /\ UNCHANGED <<bookVars, msgs_processed, overtraded>>
              \/ /\ ~LimitReached
                 /\ msgs_processed' = msgs_processed + 1
                 /\ overtraded' = (overtraded \/ \E m \in Parse(raw) : TradesTooMuch(m))
                 /\ ApplyToBook(Parse(raw))
                 /\ UNCHANGED running
  BY ReadIs
<1>2. UNCHANGED <<seq, active_orders, ended, part_cancels>> /\ damaged' = damaged
  BY <1>1 DEF generatorVars
<1>3. ASSUME NEW i \in 1 .. Len(unread'), NEW r, r = unread'[i]
      PROVE  Arrives(r, h[r.seq].msg)'
  <2>1. \E k \in 1 .. Len(unread) : r = unread[k]
    BY <1>1, <1>3, TailKeepsEntries DEF Shape
  <2> QED BY <1>2, <2>1 DEF History, Arrives
<1>4. ASSUME InSync' PROVE Synced(h)'
  <2>1. seq \in Nat /\ seq <= MaxMessages + 1 /\ last_seq_no \in 0 .. seq /\ gap_count \in Nat
    BY Qualities DEF Shape, GeneratorShape, ReaderShape
  <2>2. gap_count' = 0 /\ (has_prev_seq' => first_seq' = 1)
    BY <1>4 DEF InSync
  <2>3. /\ U64 \in Nat /\ U64 > MaxMessages + 2 /\ MaxMessages \in Nat
        /\ last_seq_no + 1 \in Nat /\ last_seq_no + 1 < U64
    BY <2>1, NativeFeedAssumption
  <2>4. Gaps!SeqOf(raw) = last_seq_no + 1 /\ InSync
    <3>1. CASE has_prev_seq
      <4>1. first_seq' = first_seq /\ has_prev_seq' /\ gap_count = 0
        BY <1>1, <2>1, <2>2, <3>1 DEF Gaps!Count
      <4>2. Gaps!SeqOf(raw) = (last_seq_no + 1) % U64
        BY <1>1, <2>1, <2>2, <3>1 DEF Gaps!Count, Gaps!Follows
      <4>3. (last_seq_no + 1) % U64 = last_seq_no + 1
        BY <2>3
      <4> QED BY <2>2, <4>1, <4>2, <4>3 DEF InSync
    <3>2. CASE ~has_prev_seq
      <4>1. last_seq_no = 0 /\ first_seq' = Gaps!SeqOf(raw) /\ has_prev_seq' /\ gap_count = 0
        BY <1>1, <2>2, <3>2 DEF Shape, ReaderShape, Gaps!Count
      <4> QED BY <2>2, <3>2, <4>1 DEF InSync
    <3> QED BY <3>1, <3>2
  <2>5. raw.seq = last_seq_no + 1 /\ raw.seq \in 1 .. seq
    BY <1>1, <2>1, <2>4 DEF Gaps!SeqOf, Recordable
  <2>6. Wrote(h[raw.seq - 1], h[raw.seq]) /\ Arrives(raw, h[raw.seq].msg)
    BY <1>1, <2>5 DEF History
  <2>8. Synced(h) /\ msgs_processed = last_seq_no
    BY <1>1, <2>4 DEF History, Synced
  <2>9. last_seq_no' = last_seq_no + 1
    BY <1>1, <2>4 DEF Gaps!Count
  <2>10. CASE running' = FALSE /\ UNCHANGED <<bookVars, msgs_processed, overtraded>>
    <3>1. UNCHANGED <<orders, msgs_processed, overtraded, seq>> /\ ~running'
      BY <1>2, <2>10 DEF bookVars
    <3> QED BY <1>2, <2>8, <3>1 DEF Synced, Follows
  <2>11. CASE /\ msgs_processed' = msgs_processed + 1
              /\ overtraded' = (overtraded \/ \E m \in Parse(raw) : TradesTooMuch(m))
              /\ ApplyToBook(Parse(raw))
    <3>1. PICK a, b : a = h[raw.seq - 1] /\ b = h[raw.seq]
      OBVIOUS
    <3>2. raw.seq - 1 = msgs_processed /\ msgs_processed' = raw.seq /\ msgs_processed' = last_seq_no'
      BY <2>1, <2>5, <2>8, <2>9, <2>11
    <3>3. Follows(a) /\ Wrote(a, b) /\ Arrives(raw, b.msg) /\ (overtraded => damaged # {})
      BY <2>6, <2>8, <3>1, <3>2 DEF Synced
    <3>4. BookOrders(orders)
      BY DEF Shape, LoopShape
    <3>5. Follows(b)' /\ (overtraded' => damaged' # {})
      BY <1>1, <1>2, <2>11, <3>3, <3>4, BookFollowsStage
    <3>6. Follows(h[msgs_processed])'
      BY <3>1, <3>2, <3>5 DEF Follows
    <3>7. msgs_processed' \in 0 .. seq'
      BY <1>2, <2>1, <2>5, <3>2
    <3> QED BY <3>2, <3>5, <3>6, <3>7 DEF Synced
  <2> QED BY <1>1, <2>10, <2>11
<1> QED BY <1>2, <1>3, <1>4 DEF History

LEMMA OtherStepsKeepHistory ==
  ASSUME Shape, NEW h, History(h), Swap \/ End \/ UNCHANGED vars
  PROVE  History(h)'
<1>1. UNCHANGED <<seq, active_orders, part_cancels, ended, damaged, overtraded, msgs_processed,
                  orders, last_seq_no, gap_count, has_prev_seq, first_seq>>
  BY DEF Swap, End, vars, generatorVars, loopVars, gapVars, bookVars
<1>2. running' => running
  BY DEF Swap, End, vars, loopVars
<1>3. ASSUME NEW i \in 1 .. Len(unread'), NEW r, r = unread'[i]
      PROVE  Arrives(r, h[r.seq].msg)'
  <2>1. \E k \in 1 .. Len(unread) : r = unread[k]
    <3>1. CASE Swap
      BY <1>3, <3>1, SwapKeepsEntries DEF Shape, Kept
    <3>2. CASE End \/ UNCHANGED vars
      BY <1>3, <3>2 DEF End, vars
    <3> QED BY <3>1, <3>2
  <2> QED BY <1>1, <2>1 DEF History, Arrives
<1>4. ASSUME InSync' PROVE Synced(h)'
  BY <1>1, <1>2, <1>4 DEF InSync, History, Synced, Follows
<1> QED BY <1>1, <1>3, <1>4 DEF History

\* The latest stage, for the generator to add to.
LEMMA LatestStage ==
  ASSUME Shape, NEW h, History(h), NEW a, a = h[seq]
  PROVE  a.list = active_orders /\ a.parts = part_cancels /\ a.over = ended
BY DEF History

LEMMA ActiveIsBook == Shape => BookOrders(active_orders)
<1> SUFFICES ASSUME Shape PROVE BookOrders(active_orders)
  OBVIOUS
<1>1. DOMAIN active_orders \subseteq 1 .. next_order_id - 1 /\ next_order_id \in Nat
  BY DEF Shape, GeneratorShape
<1>2. IsFiniteSet(DOMAIN active_orders)
  <2>1. 1 \in Int /\ next_order_id - 1 \in Int
    BY <1>1
  <2>2. IsFiniteSet(1 .. next_order_id - 1)
    BY <2>1, FS_Interval
  <2> QED BY <1>1, <2>2, FS_Subset
<1>3. \A id \in DOMAIN active_orders : active_orders[id] \in LiveStates
  BY Qualities DEF Shape, GeneratorShape, ActiveOrders, LiveStates
<1> QED BY <1>2, <1>3 DEF BookOrders

LEMMA StageHas ==
  ASSUME NEW L, NEW P, NEW e, NEW m
  PROVE  /\ Stage(L, P, e, m).list = L /\ Stage(L, P, e, m).parts = P
         /\ Stage(L, P, e, m).over = e /\ Stage(L, P, e, m).msg = m
BY DEF Stage

LEMMA GeneratorListIs ==
  ASSUME NEW id \in DOMAIN active_orders, NEW o, NEW p, NEW q, NEW x
  PROVE  /\ Listed(x, o) = WithOrder(active_orders, x, o)
         /\ Reduced(id, q) = Traded(active_orders, id, q)
BY DEF Listed, WithOrder, Reduced, Traded, WithoutOrder, Restrict

LEMMA AddKeepsHistory ==
  ASSUME Shape, NEW h, History(h), GenerateAdd
  PROVE  \E g : History(g)'
<1>1. PICK p \in Prices, q \in Qtys, s \in Sides :
        /\ active_orders' = Listed(next_order_id, [price |-> p, qty |-> q, side |-> s])
        /\ Write(Message("AddOrder", next_order_id, p, q, s))
  BY DEF GenerateAdd
<1>2. ~ended /\ ended' = ended /\ part_cancels' = part_cancels
  BY DEF GenerateAdd, Generating
<1>3. PICK m : m = Message("AddOrder", next_order_id, p, q, s)
  OBVIOUS
<1>4. next_order_id \in Nat /\ p \in FeedPrices \ {0} /\ q \in Uint32 \ {0}
  BY Qualities, NativeFeedAssumption DEF Shape, GeneratorShape
<1>5. /\ m \in RawMessages /\ m.type = "AddOrder" /\ m.id = next_order_id /\ m.price = p
      /\ m.qty = q /\ m.side = s /\ m.seq = seq + 1 /\ m.length = WireSize["AddOrder"]
  BY <1>3, <1>4, MessageIs
<1>6. PICK a, b : a = h[seq] /\ b = Stage(active_orders', part_cancels', ended', m)
  OBVIOUS
<1>7. a.list = active_orders /\ a.parts = part_cancels /\ a.over = ended
  BY <1>6, LatestStage
<1>8. b.list = active_orders' /\ b.parts = part_cancels' /\ b.over = ended' /\ b.msg = m
  BY <1>6, StageHas
<1>9. Accepts(m)
  BY <1>4, <1>5, WireSizes DEF Accepts
<1>10. m.id \notin DOMAIN a.list \cup a.parts \cup {0}
  <2>1. /\ DOMAIN active_orders \subseteq 1 .. next_order_id - 1
        /\ part_cancels \subseteq 1 .. next_order_id - 1 /\ next_order_id \in Nat \ {0}
    BY DEF Shape, GeneratorShape
  <2>2. next_order_id \notin 1 .. next_order_id - 1
    BY <2>1
  <2> QED BY <1>5, <1>7, <2>1, <2>2
<1>11. b.list = WithOrder(a.list, m.id, [price |-> m.price, qty |-> m.qty, side |-> m.side])
  <2>1. active_orders' = WithOrder(active_orders, next_order_id, [price |-> p, qty |-> q, side |-> s])
    BY <1>1 DEF Listed, WithOrder
  <2> QED BY <1>5, <1>7, <1>8, <2>1
<1>12. Wrote(a, b)
  BY <1>2, <1>5, <1>7, <1>8, <1>9, <1>10, <1>11, ActiveIsBook DEF Wrote
<1> QED BY <1>1, <1>3, <1>5, <1>6, <1>8, <1>12, HistoryGrows

LEMMA ModifyKeepsHistory ==
  ASSUME Shape, NEW h, History(h), GenerateModify
  PROVE  \E g : History(g)'
<1>1. PICK id \in DOMAIN active_orders, p \in Prices, q \in Qtys :
        /\ active_orders' = [active_orders EXCEPT ![id].price = p, ![id].qty = q]
        /\ Write(Message("ModifyOrder", id, p, q, Bid))
  BY DEF GenerateModify
<1>2. ~ended /\ ended' = ended /\ part_cancels' = part_cancels
  BY DEF GenerateModify, Generating
<1>3. PICK m : m = Message("ModifyOrder", id, p, q, Bid)
  OBVIOUS
<1>4. id \in Nat /\ p \in FeedPrices /\ q \in Uint32 \ {0} /\ Bid \in Sides
  BY ListedIs, Qualities DEF Sides
<1>5. /\ m \in RawMessages /\ m.type = "ModifyOrder" /\ m.id = id /\ m.price = p
      /\ m.qty = q /\ m.seq = seq + 1 /\ m.length = WireSize["ModifyOrder"]
  BY <1>3, <1>4, MessageIs
<1>6. PICK a, b : a = h[seq] /\ b = Stage(active_orders', part_cancels', ended', m)
  OBVIOUS
<1>7. a.list = active_orders /\ a.parts = part_cancels /\ a.over = ended
  BY <1>6, LatestStage
<1>8. b.list = active_orders' /\ b.parts = part_cancels' /\ b.over = ended' /\ b.msg = m
  BY <1>6, StageHas
<1>9. Accepts(m)
  BY <1>4, <1>5, WireSizes DEF Accepts
<1>10. m.id \in DOMAIN a.list /\ b.list = Repriced(a.list, m.id, m.price, m.qty)
  BY <1>1, <1>5, <1>7, <1>8 DEF Repriced
<1>11. Wrote(a, b)
  BY <1>2, <1>5, <1>7, <1>8, <1>9, <1>10, ActiveIsBook DEF Wrote
<1> QED BY <1>1, <1>3, <1>5, <1>6, <1>8, <1>11, HistoryGrows

LEMMA CancelKeepsHistory ==
  ASSUME Shape, NEW h, History(h), GenerateCancel
  PROVE  \E g : History(g)'
<1>1. PICK id \in DOMAIN active_orders : \E q \in 1 .. active_orders[id].qty :
        /\ active_orders' = Reduced(id, q)
        /\ part_cancels' = IF q < active_orders[id].qty THEN part_cancels \cup {id} ELSE part_cancels
        /\ Write(Message("CancelOrder", id, 0, q, Bid))
  BY DEF GenerateCancel
<1>1a. PICK q \in 1 .. active_orders[id].qty :
        /\ active_orders' = Reduced(id, q)
        /\ part_cancels' = IF q < active_orders[id].qty THEN part_cancels \cup {id} ELSE part_cancels
        /\ Write(Message("CancelOrder", id, 0, q, Bid))
  BY <1>1
<1>2. ~ended /\ ended' = ended
  BY DEF GenerateCancel, Generating
<1>3. PICK m : m = Message("CancelOrder", id, 0, q, Bid)
  OBVIOUS
<1>4. id \in Nat /\ 0 \in FeedPrices /\ 0 \in Uint32 /\ q \in Uint32 \ {0} /\ Bid \in Sides /\ active_orders[id].qty \in Nat
  BY ListedIs, Qualities DEF Sides
<1>5. /\ m \in RawMessages /\ m.type = "CancelOrder" /\ m.id = id
      /\ m.qty = q /\ m.seq = seq + 1 /\ m.length = WireSize["CancelOrder"]
  BY <1>3, <1>4, MessageIs
<1>6. PICK a, b : a = h[seq] /\ b = Stage(active_orders', part_cancels', ended', m)
  OBVIOUS
<1>7. a.list = active_orders /\ a.parts = part_cancels /\ a.over = ended
  BY <1>6, LatestStage
<1>8. b.list = active_orders' /\ b.parts = part_cancels' /\ b.over = ended' /\ b.msg = m
  BY <1>6, StageHas
<1>9. Accepts(m)
  BY <1>4, <1>5, WireSizes DEF Accepts
<1>10. m.id \in DOMAIN a.list /\ b.list = Traded(a.list, m.id, m.qty)
  BY <1>1a, <1>5, <1>7, <1>8, GeneratorListIs
<1>11. b.parts = IF m.qty >= a.list[m.id].qty THEN a.parts ELSE a.parts \cup {m.id}
  <2>1. (q < active_orders[id].qty) <=> ~(q >= active_orders[id].qty)
    BY <1>4
  <2> QED BY <1>1a, <1>5, <1>7, <1>8, <2>1
<1>12. Wrote(a, b)
  BY <1>2, <1>5, <1>7, <1>8, <1>9, <1>10, <1>11, ActiveIsBook DEF Wrote
<1> QED BY <1>1a, <1>3, <1>5, <1>6, <1>8, <1>12, HistoryGrows

LEMMA TradeKeepsHistory ==
  ASSUME Shape, NEW h, History(h), GenerateTrade
  PROVE  \E g : History(g)'
<1>1. PICK id \in DOMAIN active_orders : \E q \in 1 .. active_orders[id].qty :
        /\ active_orders' = Reduced(id, q)
        /\ Write(Message("Trade", id, active_orders[id].price, q, active_orders[id].side))
  BY DEF GenerateTrade
<1>1a. PICK q \in 1 .. active_orders[id].qty :
        /\ active_orders' = Reduced(id, q)
        /\ Write(Message("Trade", id, active_orders[id].price, q, active_orders[id].side))
  BY <1>1
<1>2. ~ended /\ ended' = ended /\ part_cancels' = part_cancels
  BY DEF GenerateTrade, Generating
<1>3. PICK p, s : p = active_orders[id].price /\ s = active_orders[id].side
  OBVIOUS
<1>3a. PICK m : m = Message("Trade", id, p, q, s)
  OBVIOUS
<1>4. /\ id \in Nat /\ p \in FeedPrices /\ q \in Uint32 \ {0} /\ s \in Sides
      /\ active_orders[id].qty \in Nat /\ ~(q > active_orders[id].qty)
  BY <1>3, ListedIs, Qualities
<1>5. /\ m \in RawMessages /\ m.type = "Trade" /\ m.id = id
      /\ m.qty = q /\ m.seq = seq + 1 /\ m.length = WireSize["Trade"]
  BY <1>3a, <1>4, MessageIs
<1>6. PICK a, b : a = h[seq] /\ b = Stage(active_orders', part_cancels', ended', m)
  OBVIOUS
<1>7. a.list = active_orders /\ a.parts = part_cancels /\ a.over = ended
  BY <1>6, LatestStage
<1>8. b.list = active_orders' /\ b.parts = part_cancels' /\ b.over = ended' /\ b.msg = m
  BY <1>6, StageHas
<1>9. Accepts(m)
  BY <1>4, <1>5, WireSizes DEF Accepts
<1>10. m.id \in DOMAIN a.list /\ b.list = Traded(a.list, m.id, m.qty)
  BY <1>1a, <1>5, <1>7, <1>8, GeneratorListIs
<1>11. ~(m.qty > a.list[m.id].qty)
  BY <1>4, <1>5, <1>7
<1>12. Wrote(a, b)
  BY <1>2, <1>5, <1>7, <1>8, <1>9, <1>10, <1>11, ActiveIsBook DEF Wrote
<1> QED BY <1>1a, <1>3, <1>3a, <1>5, <1>6, <1>8, <1>12, HistoryGrows

LEMMA ClearKeepsHistory ==
  ASSUME Shape, NEW h, History(h), GenerateClear
  PROVE  \E g : History(g)'
<1>1. /\ ~ended /\ ended' = TRUE /\ Write(Message("Clear", 0, 0, 0, Bid))
      /\ active_orders' = active_orders /\ part_cancels' = part_cancels
  BY DEF GenerateClear
<1>2. PICK m : m = Message("Clear", 0, 0, 0, Bid)
  OBVIOUS
<1>3. 0 \in Nat /\ 0 \in FeedPrices /\ 0 \in Uint32 /\ Bid \in Sides
  BY Qualities DEF Sides
<1>4. /\ m \in RawMessages /\ m.type = "Clear" /\ m.id = 0
      /\ m.seq = seq + 1 /\ m.length = WireSize["Clear"]
  BY <1>2, <1>3, MessageIs
<1>5. PICK a, b : a = h[seq] /\ b = Stage(active_orders', part_cancels', ended', m)
  OBVIOUS
<1>6. a.list = active_orders /\ a.parts = part_cancels /\ a.over = ended
  BY <1>5, LatestStage
<1>7. b.list = active_orders' /\ b.parts = part_cancels' /\ b.over = ended' /\ b.msg = m
  BY <1>5, StageHas
<1>8. Accepts(m)
  BY <1>4, WireSizes DEF Accepts
<1>9. Wrote(a, b)
  BY <1>1, <1>4, <1>6, <1>7, <1>8, ActiveIsBook DEF Wrote
<1> QED BY <1>1, <1>2, <1>4, <1>5, <1>7, <1>9, HistoryGrows

HasHistory == \E h : History(h)

LEMMA NextKeepsHistory == Shape /\ HasHistory /\ [Next]_vars => HasHistory'
<1> SUFFICES ASSUME Shape, HasHistory, [Next]_vars PROVE HasHistory'
  OBVIOUS
<1>1. PICK h : History(h)
  BY DEF HasHistory
<1>2. \E g : History(g)'
  BY <1>1, AddKeepsHistory, ModifyKeepsHistory, CancelKeepsHistory, TradeKeepsHistory,
     ClearKeepsHistory, ReadKeepsHistory, OtherStepsKeepHistory DEF Next
<1> QED BY <1>2 DEF HasHistory

LEMMA InitHasHistory == Init => HasHistory
<1> SUFFICES ASSUME Init PROVE HasHistory
  OBVIOUS
<1>1. PICK L : L = [id \in {} |-> 0]
  OBVIOUS
<1>2. PICK e : e = FALSE
  OBVIOUS
<1>2a. PICK h : h = [k \in {0} |-> Stage(L, {}, e, 0)]
  OBVIOUS
<1>3. h[0].list = L /\ h[0].parts = {} /\ h[0].over = FALSE
  <2>1. PICK a : a = Stage(L, {}, e, 0)
    OBVIOUS
  <2>2. a.list = L /\ a.parts = {} /\ a.over = e
    BY <2>1, StageHas
  <2>3. h[0] = a
    BY <1>2a, <2>1
  <2> QED BY <1>2, <2>2, <2>3, Zenon
<1>4. /\ seq = 0 /\ active_orders = L /\ part_cancels = {} /\ ended = FALSE /\ unread = << >>
      /\ orders = L /\ msgs_processed = 0 /\ overtraded = FALSE
  BY <1>1 DEF Init, Book!Init
<1>5. last_seq_no = 0
  BY DEF Init, Gaps!Init
<1>6. Follows(h[0])
  BY <1>1, <1>3, <1>4 DEF Follows, Shows
<1>7. Synced(h)
  <2>1. msgs_processed \in 0 .. seq
    BY <1>4
  <2> QED BY <1>4, <1>5, <1>6, <2>1 DEF Synced
<1>8. /\ \A k \in 1 .. seq : Wrote(h[k - 1], h[k])
      /\ \A n \in 1 .. Len(unread) : Arrives(unread[n], h[unread[n].seq].msg)
  BY <1>4
<1>9. History(h)
  BY <1>3, <1>4, <1>7, <1>8 DEF History
<1> QED BY <1>9 DEF HasHistory

LEMMA HistoryGivesBookFollowsFeed == HasHistory => BookFollowsFeed
<1> SUFFICES ASSUME HasHistory, InSync
             PROVE  /\ overtraded => damaged # {}
                    /\ msgs_processed = seq /\ 0 \notin damaged =>
                         \A id \in (1 .. MaxIds) \ damaged :
                           /\ id \in DOMAIN orders <=> OnBook(id)
                           /\ OnBook(id) => orders[id] = active_orders[id]
  BY DEF BookFollowsFeed
<1>1. PICK h : History(h)
  BY DEF HasHistory
<1>2. Synced(h)
  BY <1>1 DEF History
<1>3. PICK a : a = h[seq]
  OBVIOUS
<1>4. a.list = active_orders /\ a.parts = part_cancels /\ a.over = ended
  BY <1>1, <1>3 DEF History
<1>5. msgs_processed = seq /\ 0 \notin damaged => \A x : x \notin damaged => Shows(orders, a, x)
  BY <1>2, <1>3 DEF Synced, Follows
<1> QED BY <1>2, <1>4, <1>5 DEF Synced, Shows, OnBook

\* What a gap count of 0 is worth, from the first message on: a damaged message
\* does no harm to another order, and apart from the damaged orders the book
\* ends with the orders of the exchange but those cancelled, wholly or in part.
THEOREM BookFollows == Spec => []BookFollowsFeed
<1>1. Shape /\ HasHistory /\ [Next]_vars => HasHistory'
  BY NextKeepsHistory
<1> QED BY <1>1, InitHasHistory, HistoryGivesBookFollowsFeed, AlwaysShape, PTL DEF Spec
-----------------------------------------------------------------------------
(* The book as an L2View.  The cache is right for any feed: that is what    *)
(* OrderBookProofs shows of the book, here the feed's.                      *)

AnyBook == INSTANCE OrderBookProofs WITH
  OrderIds <- Nat, Prices <- Uint32 \ {INVALID_PRICE}, Qtys <- Uint32, ladders <- {}

CacheOK == AnyBook!IInv

LEMMA AnyBookAssumptionHolds == AnyBook!BookAssumption /\ AnyBook!U32Assumption
BY U32Assumption
   DEF AnyBook!BookAssumption, AnyBook!U32Assumption, Uint32, INVALID_PRICE, AnyBook!INVALID_PRICE

\* The operations of the two instances are the same.
LEMMA SidesAre ==
  /\ Sides = {"Bid", "Ask"} /\ Book!Sides = Sides /\ AnyBook!Sides = Sides
  /\ Book!Bid = "Bid" /\ AnyBook!Bid = "Bid" /\ Book!None = {} /\ AnyBook!None = {}
BY DEF Sides, Bid, Ask, Book!Sides, Book!Bid, Book!Ask, AnyBook!Sides, AnyBook!Bid, AnyBook!Ask,
       Book!None, AnyBook!None

LEMMA SameSideOperations ==
  /\ \A m, p, q : AnyBook!AddToSide(m, p, q) = Book!AddToSide(m, p, q)
  /\ \A m, p, q : AnyBook!RemoveFromSide(m, p, q) = Book!RemoveFromSide(m, p, q)
<1>1. \A m, p, q : AnyBook!AddToSide(m, p, q) = Book!AddToSide(m, p, q)
  BY DEF AnyBook!AddToSide, Book!AddToSide, AnyBook!Add32, Book!Add32
<1>2. \A m, p, q : AnyBook!RemoveFromSide(m, p, q) = Book!RemoveFromSide(m, p, q)
  BY DEF AnyBook!RemoveFromSide, Book!RemoveFromSide, AnyBook!Restrict, Book!Restrict
<1> QED BY <1>1, <1>2

LEMMA SameCacheOperations ==
  /\ \A s, p, q : AnyBook!CacheOnAdd(s, p, q) = Book!CacheOnAdd(s, p, q)
  /\ Book!InvalidateCache => AnyBook!InvalidateCache
  /\ Book!MaybeBboUpdate => AnyBook!MaybeBboUpdate
  /\ Book!Ignore => AnyBook!Ignore
<1>1. \A s, p, q : AnyBook!CacheOnAdd(s, p, q) = Book!CacheOnAdd(s, p, q)
  BY SidesAre DEF AnyBook!CacheOnAdd, Book!CacheOnAdd, AnyBook!Add32, Book!Add32, AnyBook!Better,
     Book!Better, AnyBook!INVALID_PRICE, Book!INVALID_PRICE
<1>2. Book!InvalidateCache => AnyBook!InvalidateCache
  BY SidesAre DEF AnyBook!InvalidateCache, Book!InvalidateCache, AnyBook!TopOf, Book!TopOf,
     AnyBook!EmptyTop, Book!EmptyTop, AnyBook!BestOf, Book!BestOf, AnyBook!Max, Book!Max,
     AnyBook!Min, Book!Min, AnyBook!INVALID_PRICE, Book!INVALID_PRICE
<1>3. /\ Book!MaybeBboUpdate => AnyBook!MaybeBboUpdate
      /\ Book!Ignore => AnyBook!Ignore
  BY SidesAre DEF AnyBook!MaybeBboUpdate, Book!MaybeBboUpdate, AnyBook!Ignore, Book!Ignore
<1> QED BY <1>1, <1>2, <1>3

LEMMA SameOperations ==
  /\ \A id, p, q, s : Book!AddOrder(id, p, q, s) => AnyBook!AddOrder(id, p, q, s)
  /\ \A id, p, q : Book!ModifyOrder(id, p, q) => AnyBook!ModifyOrder(id, p, q)
  /\ \A id : Book!CancelOrder(id) => AnyBook!CancelOrder(id)
  /\ \A id, q : Book!ApplyTrade(id, q) => AnyBook!ApplyTrade(id, q)
  /\ Book!Clear => AnyBook!Clear
<1>1. \A id, p, q, s : Book!AddOrder(id, p, q, s) => AnyBook!AddOrder(id, p, q, s)
  <2>1. \A id, o : AnyBook!InsertOrder(id, o) = Book!InsertOrder(id, o)
    BY DEF AnyBook!InsertOrder, Book!InsertOrder, AnyBook!EmptyKey, Book!EmptyKey
  <2> QED BY <2>1, SameSideOperations, SameCacheOperations DEF AnyBook!AddOrder, Book!AddOrder
<1>2. \A id, p, q : Book!ModifyOrder(id, p, q) => AnyBook!ModifyOrder(id, p, q)
  BY SameSideOperations, SameCacheOperations DEF AnyBook!ModifyOrder, Book!ModifyOrder
<1>3. \A id : Book!CancelOrder(id) => AnyBook!CancelOrder(id)
  BY SameSideOperations, SameCacheOperations
     DEF AnyBook!CancelOrder, Book!CancelOrder, AnyBook!Restrict, Book!Restrict
<1>4. \A id, q : Book!ApplyTrade(id, q) => AnyBook!ApplyTrade(id, q)
  <2>1. \A id, q : AnyBook!OrdersAfterTrade(id, q) = Book!OrdersAfterTrade(id, q)
    BY DEF AnyBook!OrdersAfterTrade, Book!OrdersAfterTrade, AnyBook!Restrict, Book!Restrict
  <2> QED BY <2>1, SameSideOperations, SameCacheOperations DEF AnyBook!ApplyTrade, Book!ApplyTrade
<1>5. Book!Clear => AnyBook!Clear
  BY SidesAre DEF AnyBook!Clear, Book!Clear, AnyBook!EmptyTop, Book!EmptyTop,
     AnyBook!INVALID_PRICE, Book!INVALID_PRICE
<1> QED BY <1>1, <1>2, <1>3, <1>4, <1>5

LEMMA InitIsCached == Init => CacheOK
<1>1. Init => AnyBook!Init
  BY SidesAre DEF Init, Book!Init, AnyBook!Init, Book!EmptyTop, AnyBook!EmptyTop,
     Book!INVALID_PRICE, AnyBook!INVALID_PRICE
<1> QED BY <1>1, AnyBook!InitEstablishes, AnyBookAssumptionHolds
        DEF CacheOK, AnyBook!BookAssumption, AnyBook!U32Assumption

LEMMA MessageKeepsCache ==
  ASSUME CacheOK, NEW raw \in RawMessages, Recordable(raw), ApplyToBook(Parse(raw))
  PROVE  CacheOK'
<1>1. /\ raw.price \in Uint32 \ {INVALID_PRICE} /\ raw.qty \in Uint32 /\ raw.id \in Nat
      /\ Accepts(raw) /\ raw.type = "AddOrder" => raw.side \in AnyBook!Sides
  BY Qualities, SidesAre DEF RawMessages, Recordable, Accepts
<1>2. CASE ~Accepts(raw)
  <2>1. AnyBook!Ignore
    BY <1>2, SameCacheOperations DEF ApplyToBook, Parse, None
  <2> QED BY <2>1, AnyBook!IgnoreKeeps, AnyBookAssumptionHolds
          DEF CacheOK, AnyBook!BookAssumption, AnyBook!U32Assumption
<1>3. CASE Accepts(raw)
  <2>1. \/ raw.type = "AddOrder" /\ Book!AddOrder(raw.id, raw.price, raw.qty, raw.side)
        \/ raw.type = "ModifyOrder" /\ Book!ModifyOrder(raw.id, raw.price, raw.qty)
        \/ raw.type = "CancelOrder" /\ Book!CancelOrder(raw.id)
        \/ raw.type = "Trade" /\ Book!ApplyTrade(raw.id, raw.qty)
        \/ raw.type = "Clear" /\ Book!Clear
    BY <1>3 DEF ApplyToBook, Parse, None
  <2>2. AnyBook!Next
    <3>1. CASE raw.type = "AddOrder" /\ Book!AddOrder(raw.id, raw.price, raw.qty, raw.side)
      <4>1. AnyBook!AddOrder(raw.id, raw.price, raw.qty, raw.side)
        BY <3>1, SameOperations
      <4> QED BY <1>1, <1>3, <3>1, <4>1 DEF AnyBook!Next
    <3>2. CASE raw.type = "ModifyOrder" /\ Book!ModifyOrder(raw.id, raw.price, raw.qty)
      <4>1. AnyBook!ModifyOrder(raw.id, raw.price, raw.qty)
        BY <3>2, SameOperations
      <4> QED BY <1>1, <4>1 DEF AnyBook!Next
    <3>3. CASE raw.type = "CancelOrder" /\ Book!CancelOrder(raw.id)
      <4>1. AnyBook!CancelOrder(raw.id)
        BY <3>3, SameOperations
      <4> QED BY <1>1, <4>1 DEF AnyBook!Next
    <3>4. CASE raw.type = "Trade" /\ Book!ApplyTrade(raw.id, raw.qty)
      <4>1. AnyBook!ApplyTrade(raw.id, raw.qty)
        BY <3>4, SameOperations
      <4> QED BY <1>1, <4>1 DEF AnyBook!Next
    <3>5. CASE raw.type = "Clear" /\ Book!Clear
      BY <3>5, SameOperations DEF AnyBook!Next
    <3> QED BY <2>1, <3>1, <3>2, <3>3, <3>4, <3>5
  <2> QED BY <2>2, AnyBook!NextKeeps, AnyBookAssumptionHolds
          DEF CacheOK, AnyBook!BookAssumption, AnyBook!U32Assumption
<1> QED BY <1>2, <1>3

LEMMA NextKeepsCache == Shape /\ CacheOK /\ [Next]_vars => CacheOK'
<1> SUFFICES ASSUME Shape, CacheOK, [Next]_vars PROVE CacheOK'
  OBVIOUS
<1>1. CASE UNCHANGED bookVars
  <2>1. UNCHANGED AnyBook!vars
    BY <1>1 DEF bookVars, AnyBook!vars
  <2> QED BY <2>1, AnyBook!NextKeeps, AnyBookAssumptionHolds
          DEF CacheOK, AnyBook!BookAssumption, AnyBook!U32Assumption
<1>2. CASE Read
  <2>1. PICK raw \in RawMessages : Recordable(raw) /\ (UNCHANGED bookVars \/ ApplyToBook(Parse(raw)))
    BY <1>2, ReadIs
  <2> QED BY <1>1, <2>1, MessageKeepsCache
<1>3. CASE ~Read
  BY <1>1, <1>3, WriteLeavesBook DEF Next
<1> QED BY <1>1, <1>2, <1>3

\* The best bid and offer of the orders are the best levels, when these are
\* the orders' sums.
LEMMA InsideIsTop ==
  ASSUME NEW L, NEW O, StepWith(L, O), NEW s \in Sides
  PROVE  View!Inside(O, s) = Book!TopOf(s, L[s])
<1>1. View!PricesOf(O, s) = DOMAIN L[s]
  BY StepGivesSums DEF View!PricesOf, View!OnSide
<1>2. CASE DOMAIN L[s] = {}
  BY <1>1, <1>2 DEF View!Inside, Book!TopOf, Book!EmptyTop, Book!INVALID_PRICE, INVALID_PRICE
<1>3. CASE DOMAIN L[s] # {}
  <2>1. PICK p : p = Book!BestOf(s, DOMAIN L[s])
    OBVIOUS
  <2>2. p = IF s = "Bid" THEN View!Max(DOMAIN L[s]) ELSE View!Min(DOMAIN L[s])
    BY <2>1, SidesAre DEF Book!BestOf, Book!Max, Book!Min, View!Max, View!Min
  <2>3. p \in DOMAIN L[s]
    <3>1. DOMAIN L[s] \in SUBSET Uint32
      BY StepGivesSums, BookOrdersLive DEF StepWith
    <3>2. BestOf(s, DOMAIN L[s]) \in DOMAIN L[s]
      BY <1>3, <3>1, BestIsBest
    <3>3. Book!BestOf(s, DOMAIN L[s]) = BestOf(s, DOMAIN L[s])
      BY SidesAre DEF Book!BestOf, BestOf, Book!Max, Max, Book!Min, Min, Bid
    <3> QED BY <2>1, <3>2, <3>3
  <2>4. L[s][p] = View!QtyAt(O, s, p)
    <3>1. L[s][p] = SumAt(O, s, p)
      BY <2>3, StepGivesSums
    <3>2. SumAt(O, s, p) = View!QtyAt(O, s, p)
      BY DEF SumAt, At, QtyOf, View!QtyAt, View!OnSide, View!SumFunctionOnSet, SumFunctionOnSet,
             View!FoldFunctionOnSet, FoldFunctionOnSet, View!MapThenFoldSet, MapThenFoldSet
    <3> QED BY <3>1, <3>2
  <2> QED BY <1>1, <1>3, <2>1, <2>2, <2>4 DEF View!Inside, Book!TopOf
<1> QED BY <1>2, <1>3

\* the cache that goes with levels
CacheOf(L) == [s \in Sides |-> Book!TopOf(s, L[s])]

LEMMA CacheIsInside ==
  ASSUME NEW L, NEW O, StepWith(L, O)
  PROVE  View!BestBidOffer(O) = CacheOf(L)
<1>1. \A s \in Sides : View!Inside(O, s) = Book!TopOf(s, L[s])
  BY InsideIsTop
<1> QED BY <1>1, SidesAre DEF View!BestBidOffer, CacheOf

LEMMA CacheFollowsLevels ==
  /\ CacheOK => cached = CacheOf(levels)
  /\ CacheOK' => cached' = CacheOf(levels)'
<1>1. \A s, m : AnyBook!TopOf(s, m) = Book!TopOf(s, m)
  BY SidesAre DEF AnyBook!TopOf, Book!TopOf, AnyBook!EmptyTop, Book!EmptyTop, AnyBook!BestOf,
     Book!BestOf, AnyBook!Max, Book!Max, AnyBook!Min, Book!Min, AnyBook!INVALID_PRICE,
     Book!INVALID_PRICE
<1>2. ASSUME NEW C \in AnyBook!Tops, NEW L, \A s \in AnyBook!Sides : C[s] = AnyBook!TopOf(s, L[s])
      PROVE  C = CacheOf(L)
  <2>1. C = [s \in Sides |-> C[s]]
    BY SidesAre DEF AnyBook!Tops
  <2>2. \A s \in Sides : C[s] = Book!TopOf(s, L[s])
    BY <1>1, <1>2, SidesAre
  <2> QED BY <2>1, <2>2 DEF CacheOf
<1>3. CacheOK => cached = CacheOf(levels)
  BY <1>2 DEF CacheOK, AnyBook!IInv, AnyBook!TypeOK, AnyBook!CacheCoherent
<1>4. CacheOK' => cached' = CacheOf(levels')
  BY <1>2 DEF CacheOK, AnyBook!IInv, AnyBook!TypeOK, AnyBook!CacheCoherent
<1>5. CacheOf(levels)' = CacheOf(levels')
  BY DEF CacheOf, Book!TopOf, Book!EmptyTop, Book!BestOf, Book!INVALID_PRICE
<1> QED BY <1>3, <1>4, <1>5

\* what the caller of every operation but Clear is told
Told == bbo' = IF cached' = cached THEN {} ELSE {cached'}

LEMMA MessageIsTold ==
  ASSUME NEW raw, ApplyToBook(Parse(raw))
  PROVE  IF Accepts(raw) /\ raw.type = "Clear" THEN bbo' = {} ELSE Told
<1>1. Book!Ignore => Told
  BY DEF Book!Ignore, Book!None, Told
<1>2. Book!MaybeBboUpdate => Told
  BY DEF Book!MaybeBboUpdate, Book!None, Told
<1>3. CASE ~Accepts(raw)
  BY <1>1, <1>3 DEF ApplyToBook, Parse, None
<1>4. CASE Accepts(raw)
  <2>1. \/ raw.type = "AddOrder" /\ Book!AddOrder(raw.id, raw.price, raw.qty, raw.side)
        \/ raw.type = "ModifyOrder" /\ Book!ModifyOrder(raw.id, raw.price, raw.qty)
        \/ raw.type = "CancelOrder" /\ Book!CancelOrder(raw.id)
        \/ raw.type = "Trade" /\ Book!ApplyTrade(raw.id, raw.qty)
        \/ raw.type = "Clear" /\ Book!Clear
    BY <1>4 DEF ApplyToBook, Parse, None
  <2>2. CASE raw.type = "AddOrder" /\ Book!AddOrder(raw.id, raw.price, raw.qty, raw.side)
    BY <1>1, <1>2, <2>2 DEF Book!AddOrder
  <2>3. CASE raw.type = "ModifyOrder" /\ Book!ModifyOrder(raw.id, raw.price, raw.qty)
    BY <1>1, <1>2, <2>3 DEF Book!ModifyOrder
  <2>4. CASE raw.type = "CancelOrder" /\ Book!CancelOrder(raw.id)
    BY <1>1, <1>2, <2>4 DEF Book!CancelOrder
  <2>5. CASE raw.type = "Trade" /\ Book!ApplyTrade(raw.id, raw.qty)
    BY <1>1, <1>2, <2>5 DEF Book!ApplyTrade
  <2>6. CASE raw.type = "Clear" /\ Book!Clear
    BY <1>4, <2>6 DEF Book!Clear, Book!None
  <2> QED BY <2>1, <2>2, <2>3, <2>4, <2>5, <2>6
<1> QED BY <1>3, <1>4

\* Telling of a change of the cache is publishing a change of the inside.
LEMMA ToldIsPublished ==
  ASSUME CacheOK, CacheOK', StepWith(levels, orders), StepWith(levels', orders'), Told
  PROVE  View!Publish /\ (orders' = orders => View!Disregard)
<1>1. View!BestBidOffer(orders) = cached
  BY CacheIsInside, CacheFollowsLevels
<1>2. View!BestBidOffer(orders') = cached'
  <2>1. CacheOf(levels)' = CacheOf(levels')
    BY DEF CacheOf, Book!TopOf, Book!EmptyTop, Book!BestOf, Book!INVALID_PRICE
  <2> QED BY <2>1, CacheIsInside, CacheFollowsLevels
<1> QED BY <1>1, <1>2 DEF Told, View!Publish, View!Disregard

\* One message is one step of the view, or none.
LEMMA MessageIsViewed ==
  ASSUME Shape, CacheOK, CacheOK', StepWith(levels, orders), StepWith(levels', orders'),
         NEW raw \in RawMessages, Recordable(raw), ApplyToBook(Parse(raw)),
         ~\E m \in Parse(raw) : TradesTooMuch(m)
  PROVE  View!Next
<1>1. /\ raw.price \in Prices \cup {0} /\ raw.qty \in Uint32
      /\ raw.id # 0 => raw.id \in 1 .. MaxIds
      /\ DOMAIN orders \subseteq 1 .. MaxIds
  BY Qualities DEF Shape, GeneratorShape, LoopShape, RawMessages, FeedPrices, Recordable
<1>2. ASSUME ~Accepts(raw) \/ raw.type # "Clear" PROVE Told
  BY <1>2, MessageIsTold
<1>3. CASE Unaffected
  <2>1. CASE Accepts(raw) /\ raw.type = "Clear"
    <3>1. bbo' = {} /\ orders' = orders
      BY <1>3, <2>1, MessageIsTold DEF Unaffected
    <3> QED BY <3>1 DEF View!Next, View!Disregard
  <2>2. CASE ~(Accepts(raw) /\ raw.type = "Clear")
    BY <1>2, <1>3, <2>2, ToldIsPublished DEF Unaffected, View!Next
  <2> QED BY <2>1, <2>2
<1>4. CASE Accepts(raw) /\ ~Unaffected
  <2>1. Parse(raw) = {raw}
    BY <1>4, AcceptedHas
  <2>2. CASE raw.type = "AddOrder"
    <3>1. Adds(raw) /\ raw.id # 0
      BY <1>4, <2>2, AcceptedHas DEF Recordable
    <3>2. PICK o : o = [price |-> raw.price, qty |-> raw.qty, side |-> raw.side]
      OBVIOUS
    <3>3. /\ raw.id \notin DOMAIN orders
          /\ orders' = [i \in DOMAIN orders \cup {raw.id} |-> IF i = raw.id THEN o ELSE orders[i]]
      BY <3>1, <3>2 DEF Adds, WithOrder
    <3>4. View!Publish
      BY <1>2, <2>2, ToldIsPublished
    <3>5. View!Place(raw.id, o)
      BY <3>3, <3>4 DEF View!Place
    <3>6. raw.qty \in Uint32 \ {0} /\ raw.side \in {"Bid", "Ask"}
      BY <3>1, SidesAre DEF Adds
    <3> QED BY <1>1, <3>1, <3>2, <3>5, <3>6 DEF View!Next
  <2>3. CASE raw.type = "ModifyOrder"
    <3>1. Modifies(raw)
      BY <1>4, <2>3, AcceptedHas
    <3>2. View!Publish
      BY <1>2, <2>3, ToldIsPublished
    <3>3. View!Replace(raw.id, raw.price, raw.qty)
      BY <3>1, <3>2 DEF View!Replace, Modifies, Repriced
    <3>4. raw.id \in 1 .. MaxIds /\ raw.qty \in Uint32 \ {0}
      BY <1>1, <3>1 DEF Modifies
    <3> QED BY <1>1, <3>3, <3>4 DEF View!Next
  <2>4. CASE raw.type = "CancelOrder"
    <3>1. Drops(raw)
      BY <1>4, <2>4, AcceptedHas
    <3>2. View!Publish
      BY <1>2, <2>4, ToldIsPublished
    <3>3. View!Withdraw(raw.id) /\ raw.id \in 1 .. MaxIds
      BY <1>1, <3>1, <3>2 DEF View!Withdraw, Drops, WithoutOrder, Restrict, View!Restrict
    <3> QED BY <3>3 DEF View!Next
  <2>5. CASE raw.type = "Trade"
    <3>1. Trades(raw) /\ raw.id \in 1 .. MaxIds
      BY <1>1, <1>4, <2>5, AcceptedHas DEF Trades
    <3>2. View!Publish
      BY <1>2, <2>5, ToldIsPublished
    <3>3. CASE raw.qty >= orders[raw.id].qty
      <4>1. View!Withdraw(raw.id)
        BY <3>1, <3>2, <3>3 DEF View!Withdraw, Trades, Traded, WithoutOrder, Restrict, View!Restrict
      <4> QED BY <3>1, <4>1 DEF View!Next
    <3>4. CASE ~(raw.qty >= orders[raw.id].qty)
      <4>1. /\ raw.id \in DOMAIN orders
            /\ orders' = [orders EXCEPT ![raw.id].qty = orders[raw.id].qty - raw.qty]
        BY <3>1, <3>4 DEF Trades, Traded
      <4>2. orders[raw.id].qty \in Nat /\ raw.qty \in Nat
        BY <1>1, <4>1, BookOrdersLive, U32Assumption DEF StepWith, Uint32
      <4>3. orders[raw.id].qty > raw.qty
        BY <3>4, <4>2
      <4>4. View!Execute(raw.id, raw.qty)
        BY <3>2, <4>1, <4>3 DEF View!Execute
      <4>5. raw.qty \in Uint32 \ {0}
        BY <1>1, <1>4, <2>5 DEF Accepts
      <4> QED BY <3>1, <4>4, <4>5 DEF View!Next
    <3> QED BY <3>3, <3>4
  <2>6. CASE raw.type = "Clear"
    <3>1. Clears(raw) /\ bbo' = {}
      BY <1>4, <2>6, AcceptedHas, MessageIsTold
    <3> QED BY <3>1 DEF View!Next, View!Reset, Clears
  <2> QED BY <1>4, <2>2, <2>3, <2>4, <2>5, <2>6 DEF Accepts, MsgTypes, WireSize
<1> QED BY <1>3, <1>4, RefusedIsIgnored

LEMMA NextIsViewed ==
  Shape /\ CacheOK /\ InStep /\ NoLevelOverflows' /\ [Next]_vars
    => [~overtraded' => View!Next]_(View!vars)
<1> SUFFICES ASSUME Shape, CacheOK, InStep, NoLevelOverflows', [Next]_vars, ~overtraded'
             PROVE  View!Next \/ UNCHANGED View!vars
  OBVIOUS
<1>1. CASE UNCHANGED bookVars
  BY <1>1 DEF bookVars, View!vars
<1>2. CASE Read
  <2>1. PICK raw \in RawMessages :
          /\ Recordable(raw)
          /\ \/ UNCHANGED bookVars
             \/ /\ overtraded' = (overtraded \/ \E m \in Parse(raw) : TradesTooMuch(m))
                /\ ApplyToBook(Parse(raw))
    BY <1>2, ReadIs
  <2>2. CASE /\ overtraded' = (overtraded \/ \E m \in Parse(raw) : TradesTooMuch(m))
             /\ ApplyToBook(Parse(raw))
    <3>1. ~overtraded /\ ~\E m \in Parse(raw) : TradesTooMuch(m)
      BY <2>2
    <3>2. StepWith(levels, orders)
      BY <3>1 DEF InStep
    <3>3. CacheOK' /\ InStep'
      BY NextKeepsCache, NextKeepsStep
    <3>4. StepWith(levels', orders')
      BY <3>3 DEF InStep
    <3> QED BY <2>1, <2>2, <3>1, <3>2, <3>3, <3>4, MessageIsViewed
  <2> QED BY <1>1, <2>1, <2>2
<1>3. CASE ~Read
  BY <1>1, <1>3, WriteLeavesBook DEF Next
<1> QED BY <1>1, <1>2, <1>3

LEMMA InitIsViewed == Init => View!Init
BY DEF Init, Book!Init, Book!None, View!Init

\* Through its live orders and the updates it returns, the book is an L2View,
\* however faulty the recording, until a trade is larger than the book's order
\* or a level's orders add up to more than 32 bits hold: the loop is told the
\* best bid and offer of the live orders exactly when they change.
THEOREM FeedActsAsL2View == Spec /\ []NoLevelOverflows => ActsAsL2View
<1>1. Shape /\ CacheOK /\ [Next]_vars => CacheOK'
  BY NextKeepsCache
<1>2. Shape /\ InStep /\ NoLevelOverflows' /\ [Next]_vars => InStep'
  BY NextKeepsStep
<1>3. Shape /\ CacheOK /\ InStep /\ NoLevelOverflows' /\ [Next]_vars
        => [~overtraded' => View!Next]_(View!vars)
  BY NextIsViewed
<1> QED BY <1>1, <1>2, <1>3, InitIsCached, InitIsCovered, InitIsViewed, AlwaysShape, PTL
        DEF Spec, ActsAsL2View

\* The same where the orders' number and size leave room in every level.
THEOREM FeedActsAsL2ViewWithRoom ==
  ASSUME NEW B \in Nat, RoomFor(B)
  PROVE  Spec => ActsAsL2View
<1>1. Init => Small(B)
  BY InitIsSmall
<1>2. Shape /\ Small(B) /\ [Next]_vars => Small(B)'
  BY NextStaysSmall
<1>3. Shape /\ Small(B) => NoLevelOverflows
  BY SmallGivesRoom
<1> QED BY <1>1, <1>2, <1>3, FeedActsAsL2View, AlwaysShape, PTL DEF Spec
===============================================================================
