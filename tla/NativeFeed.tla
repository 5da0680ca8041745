------------------------------ MODULE NativeFeed ------------------------------
(***************************************************************************)
(* A native feed, from its generator (scripts/generate_feed.py) through a  *)
(* recording that may miss, repeat, swap or damage messages, to the loop   *)
(* of src/app/main_replay.cpp that reads it: the reader's watch on the     *)
(* sequence numbers, the parser, and the order book.  One step of the loop *)
(* is one message; what the loop does with the book's update is the        *)
(* subject of TradingLoop, and how a message is cut out of the file that   *)
(* of Replay.                                                              *)
(*                                                                         *)
(* The generator and the faults are outside the program.  unread is the    *)
(* part of the recording the loop has not read yet: the loop sees only a   *)
(* prefix, so that it does not matter how far the generator is ahead.      *)
(***************************************************************************)
EXTENDS Parser

CONSTANTS Prices, Qtys,  \* what the generator chooses from
          U64,
          MaxIds,        \* bound: orders added
          MaxMessages,   \* bound: --num-messages
          MaxUnread,     \* bound: messages the loop is behind
          MaxFaults,     \* bound: faults of the recording
          max_msgs       \* --max-msgs

VARIABLES seq, next_order_id, active_orders, ended,   \* the generator's
          unread, faults,                             \* the recording's
          last_seq_no, gap_count, has_prev_seq,       \* the reader's
          levels, orders, cached, bbo,                \* the order book's
          msgs_processed, running,                    \* the loop's
          damaged,      \* history: the orders with a damaged message, 0 for a Clear
          first_seq,    \* history: the sequence number read first
          part_cancels, \* history: the orders cancelled in part
          overtraded    \* history: a trade was larger than the book's order

generatorVars == <<seq, next_order_id, active_orders, ended, part_cancels>>
gapVars == <<last_seq_no, gap_count, has_prev_seq>>
bookVars == <<levels, orders, cached, bbo>>
loopVars == <<gapVars, bookVars, msgs_processed, running, first_seq, overtraded>>
vars == <<generatorVars, unread, faults, damaged, loopVars>>

Gaps == INSTANCE SequenceGaps
Book == INSTANCE OrderBook WITH OrderIds <- 1 .. MaxIds

\* The types and bounds of what the generator writes.
ASSUME NativeFeedAssumption ==
  /\ {MaxIds, MaxMessages, MaxUnread, MaxFaults, max_msgs} \subseteq Nat
  /\ U64 \in Nat /\ U64 > MaxMessages + 2
  /\ Prices \subseteq Uint32 \ {0, INVALID_PRICE}
  /\ Qtys \subseteq Uint32 \ {0}

Init ==
  /\ seq = 0 /\ next_order_id = 1 /\ ended = FALSE
  /\ active_orders = [id \in {} |-> 0]
  /\ unread = << >> /\ faults = 0
  /\ Gaps!Init
  /\ Book!Init
  /\ msgs_processed = 0 /\ running = TRUE
  /\ damaged = {} /\ first_seq = 0 /\ part_cancels = {} /\ overtraded = FALSE
-----------------------------------------------------------------------------
(* The recording of a message, and what can go wrong with it.              *)

Message(type, id, price, qty, side) ==
  [type |-> type, length |-> WireSize[type], seq |-> seq + 1,
   id |-> id, price |-> price, qty |-> qty, side |-> side]

\* a payload written short, or with a field that cannot be meant
Damage(m) ==
  {[m EXCEPT !.length = @ - 1], [m EXCEPT !.length = Gaps!SeqSize - 1],
   [m EXCEPT !.type = "unknown"], [m EXCEPT !.qty = 0],
   [m EXCEPT !.price = 0], [m EXCEPT !.side = "neither"]}

Fault == faults < MaxFaults /\ faults' = faults + 1

Write(m) ==
  /\ Len(unread) < MaxUnread
  /\ seq' = seq + 1
  /\ \/ unread' = Append(unread, m) /\ UNCHANGED <<faults, damaged>>
     \/ Fault /\ UNCHANGED <<unread, damaged>>
     \/ Fault /\ unread' = unread \o <<m, m>> /\ UNCHANGED damaged
     \/ /\ Fault
        /\ damaged' = damaged \cup {m.id}
        /\ \E d \in Damage(m) : unread' = Append(unread, d)
  /\ UNCHANGED loopVars

Swap ==
  /\ Fault
  /\ Len(unread) > 1
  /\ unread' = [unread EXCEPT ![1] = unread[2], ![2] = unread[1]]
  /\ UNCHANGED <<generatorVars, damaged, loopVars>>
-----------------------------------------------------------------------------
(* The generator: one iteration of its loop per message.                   *)

Generating == ~ended /\ seq < MaxMessages

Listed(id, o) ==
  [x \in DOMAIN active_orders \cup {id} |-> IF x = id THEN o ELSE active_orders[x]]

\* an order after qty of it is gone
Reduced(id, qty) ==
  IF qty >= active_orders[id].qty THEN Restrict(active_orders, DOMAIN active_orders \ {id})
  ELSE [active_orders EXCEPT ![id].qty = @ - qty]

GenerateAdd ==
  /\ Generating /\ next_order_id <= MaxIds
  /\ \E p \in Prices, q \in Qtys, s \in Sides :
       /\ active_orders' = Listed(next_order_id, [price |-> p, qty |-> q, side |-> s])
       /\ Write(Message("AddOrder", next_order_id, p, q, s))
  /\ next_order_id' = next_order_id + 1
  /\ UNCHANGED <<ended, part_cancels>>

GenerateModify ==
  /\ Generating
  /\ \E id \in DOMAIN active_orders, p \in Prices, q \in Qtys :
       /\ active_orders' = [active_orders EXCEPT ![id].price = p, ![id].qty = q]
       /\ Write(Message("ModifyOrder", id, p, q, Bid))
  /\ UNCHANGED <<next_order_id, ended, part_cancels>>

GenerateCancel ==
  /\ Generating
  /\ \E id \in DOMAIN active_orders : \E q \in 1 .. active_orders[id].qty :
       /\ active_orders' = Reduced(id, q)
       /\ part_cancels' = IF q < active_orders[id].qty THEN part_cancels \cup {id} ELSE part_cancels
       /\ Write(Message("CancelOrder", id, 0, q, Bid))
  /\ UNCHANGED <<next_order_id, ended>>

GenerateTrade ==
  /\ Generating
  /\ \E id \in DOMAIN active_orders : \E q \in 1 .. active_orders[id].qty :
       /\ active_orders' = Reduced(id, q)
       /\ Write(Message("Trade", id, active_orders[id].price, q, active_orders[id].side))
  /\ UNCHANGED <<next_order_id, ended, part_cancels>>

\* every feed ends with a Clear; the generator keeps its list
GenerateClear ==
  /\ ~ended
  /\ ended' = TRUE
  /\ Write(Message("Clear", 0, 0, 0, Bid))
  /\ UNCHANGED <<next_order_id, active_orders, part_cancels>>
-----------------------------------------------------------------------------
(* The loop.                                                               *)

\* the book operation for what was parsed; a cancel has no quantity
ApplyToBook(parsed) ==
  \/ parsed = None /\ Book!Ignore
  \/ \E m \in parsed :
       \/ m.type = "AddOrder" /\ Book!AddOrder(m.id, m.price, m.qty, m.side)
       \/ m.type = "ModifyOrder" /\ Book!ModifyOrder(m.id, m.price, m.qty)
       \/ m.type = "CancelOrder" /\ Book!CancelOrder(m.id)
       \/ m.type = "Trade" /\ Book!ApplyTrade(m.id, m.qty)
       \/ m.type = "Clear" /\ Book!Clear

TradesTooMuch(m) == m.type = "Trade" /\ m.id \in DOMAIN orders /\ m.qty > orders[m.id].qty

\* mutant: one message more than asked for is processed
LimitReachedLate == msgs_processed > max_msgs

LimitReached == msgs_processed >= max_msgs

\* The reader has already counted the message the limit stops the loop at.
Read ==
  /\ running
  /\ unread # << >>
  /\ unread' = Tail(unread)
  /\ LET raw == Head(unread) IN
       /\ Gaps!Count(Gaps!SeqOf(raw))
       /\ first_seq' = IF has_prev_seq THEN first_seq ELSE Gaps!SeqOf(raw)
       /\ \/ /\ LimitReached
             /\ running' = FALSE
             /\ UNCHANGED <<bookVars, msgs_processed, overtraded>>
          \/ /\ ~LimitReached
             /\ msgs_processed' = msgs_processed + 1
             /\ overtraded' = (overtraded \/ \E m \in Parse(raw) : TradesTooMuch(m))
             /\ ApplyToBook(Parse(raw))
             /\ UNCHANGED running
  /\ UNCHANGED <<generatorVars, faults, damaged>>

\* the end of the file
End ==
  /\ running /\ ended /\ unread = << >>
  /\ running' = FALSE
  /\ UNCHANGED <<generatorVars, unread, faults, damaged, gapVars, bookVars,
                 msgs_processed, first_seq, overtraded>>

Next ==
  \/ GenerateAdd \/ GenerateModify \/ GenerateCancel \/ GenerateTrade \/ GenerateClear
  \/ Swap
  \/ Read \/ End

Spec == Init /\ [][Next]_vars
-----------------------------------------------------------------------------
(* Properties.                                                             *)

\* the book as its reader sees it; a modify may bring in price 0
View == INSTANCE L2View WITH
  OrderIds <- 1 .. MaxIds, Prices <- Prices \cup {0}, Qtys <- Uint32 \ {0},
  NoPrice <- INVALID_PRICE, live <- orders, published <- bbo

\* The types of the feed and of the loop; no more messages are processed than
\* --max-msgs allows, though one more is read.
TypeOK ==
  /\ DOMAIN active_orders \cup DOMAIN orders \subseteq 1 .. next_order_id - 1
  /\ \A id \in DOMAIN active_orders :
       active_orders[id] \in [price : Prices, qty : Uint32 \ {0}, side : Sides]
  /\ \A n \in DOMAIN unread : unread[n].seq \in 1 .. seq
  /\ {last_seq_no, first_seq} \subseteq 0 .. seq
  /\ msgs_processed <= max_msgs

\* No sign of a fault: the summary's "Sequence gaps" (main_replay.cpp:283) is
\* 0, and the first message read was the first written.
InSync == gap_count = 0 /\ (has_prev_seq => first_seq = 1)

\* What the book should list: a cancel, even of a part, takes its order off.
OnBook(id) == ~ended /\ id \in DOMAIN active_orders \ part_cancels

\* What a gap count of 0 is worth.  A damaged message is not a gap: the parser
\* may refuse it and the loop goes on, or take it with a wrong price.  It does
\* no harm to any other order: once all that was written is processed, the book
\* holds every other order of the exchange as the exchange has it and no other,
\* none that was cancelled in part among them.  And without a damaged message no
\* trade was larger than the book's order.
BookFollowsFeed ==
  InSync =>
    /\ overtraded => damaged # {}
    /\ msgs_processed = seq /\ 0 \notin damaged =>
         \A id \in (1 .. MaxIds) \ damaged :
           /\ id \in DOMAIN orders <=> OnBook(id)
           /\ OnBook(id) => orders[id] = active_orders[id]

\* Whatever is lost, repeated, swapped or damaged, the levels are the sums of
\* the book's orders as long as no trade was larger than its order.
LevelsMatchOrders == ~overtraded => Book!LevelsMatchOrders

\* No recording, however faulty, gives the book an order or a level with
\* nothing in it: the best quantity the strategy sees is never 0.
NoEmptyLevels ==
  /\ \A id \in DOMAIN orders : orders[id].qty > 0
  /\ \A s \in Sides : \A p \in DOMAIN levels[s] : levels[s][p] > 0

\* The book, seen through its live orders and the updates it returns, is an
\* L2View as long as no trade is larger than its order, whatever else is wrong
\* with the feed: it publishes the best bid and offer of its live orders
\* exactly when they change, and Clear alone changes them in silence.
ActsAsL2View == View!Init /\ [][~overtraded' => View!Next]_(View!vars)
=============================================================================
