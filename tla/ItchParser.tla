------------------------------ MODULE ItchParser ------------------------------
(***************************************************************************)
(* The ITCH 5.0 feed handler of src/feed/itch_parser.cpp.  ITCH names      *)
(* orders by reference number, so parse() keeps the orders it has seen     *)
(* (orders_) and turns each message into one for the order book, or skips  *)
(* it.  One action per group of message types that are handled alike.      *)
(*                                                                         *)
(* Every message starts with the locate code of its stock.  Unsupported    *)
(* covers what is too short or of another type.  Sequence numbers,         *)
(* timestamps and statistics decide nothing and are left out.              *)
(***************************************************************************)
EXTENDS Types

CONSTANT FilterLocate   \* filter_locate_: the stock to keep, or 0 for all

EmptyKey == 0
TickSize == 100   \* ITCH prices are in 1/10000 dollar, ticks in cents

VARIABLES known,   \* orders_: reference number -> [price, qty, side]
          parsed   \* the message made of the last one, an optional

vars == <<known, parsed>>

\* static_cast<uint32_t>(price_raw / 100): division truncates towards 0
TicksOf(raw) ==
  IF raw >= 0 THEN raw \div TickSize ELSE (U32 - (-raw) \div TickSize) % U32

CheckLocate(locate) == FilterLocate = 0 \/ locate \in {FilterLocate, 0}

Init == known = [id \in {} |-> 0] /\ parsed = None

Skip == parsed' = None /\ known' = known

Unsupported == Skip

\* orders_.insert and erase
Remember(m, id, o) ==
  IF id = EmptyKey THEN m
  ELSE [x \in DOMAIN m \cup {id} |-> IF x = id THEN o ELSE m[x]]
Erase(m, id) == Restrict(m, DOMAIN m \ {id})

\* mutant: an order used up stays, with quantity 0
ReducedToZero(id, qty) ==
  IF qty > known[id].qty THEN Erase(known, id)
  ELSE [known EXCEPT ![id].qty = @ - qty]

\* mutant: the order keeps its quantity
ReducedNot(id, qty) == IF qty >= known[id].qty THEN Erase(known, id) ELSE known

\* an execution or a cancel of part of an order, or of all of it
Reduced(id, qty) ==
  IF qty >= known[id].qty THEN Erase(known, id)
  ELSE [known EXCEPT ![id].qty = @ - qty]

TradeOf(id, qty) == [type |-> "Trade", id |-> id, qty |-> qty]

\* 'A' and 'F'
Add(locate, id, side, qty, raw) ==
  \/ (~CheckLocate(locate) \/ qty = 0 \/ TicksOf(raw) = 0) /\ Skip
  \/ /\ CheckLocate(locate) /\ qty # 0 /\ TicksOf(raw) # 0
     /\ known' = Remember(known, id, [price |-> TicksOf(raw), qty |-> qty, side |-> side])
     /\ parsed' = {[type |-> "Add", id |-> id, price |-> TicksOf(raw),
                    qty |-> qty, side |-> side]}

\* 'E'
Executed(locate, id, qty) ==
  \/ (~CheckLocate(locate) \/ id \notin DOMAIN known) /\ Skip
  \/ /\ CheckLocate(locate) /\ id \in DOMAIN known
     /\ known' = Reduced(id, qty)
     /\ parsed' = {TradeOf(id, qty)}

\* 'C': an unknown order makes a trade all the same
ExecutedWithPrice(locate, id, qty) ==
  \/ ~CheckLocate(locate) /\ Skip
  \/ /\ CheckLocate(locate)
     /\ known' = IF id \in DOMAIN known THEN Reduced(id, qty) ELSE known
     /\ parsed' = {TradeOf(id, qty)}

\* 'X': the book is sent a cancel, which has no use for the quantity
CancelPart(locate, id, qty) ==
  \/ (~CheckLocate(locate) \/ id \notin DOMAIN known) /\ Skip
  \/ /\ CheckLocate(locate) /\ id \in DOMAIN known
     /\ known' = Reduced(id, qty)
     /\ parsed' = {[type |-> "Cancel", id |-> id]}

\* 'D'
Delete(locate, id) ==
  \/ (~CheckLocate(locate) \/ id \notin DOMAIN known) /\ Skip
  \/ /\ CheckLocate(locate) /\ id \in DOMAIN known
     /\ known' = Erase(known, id)
     /\ parsed' = {[type |-> "Cancel", id |-> id]}

\* mutant: the original order stays known
ReplacedBeside(id, new, o) == Remember(known, new, o)

\* the new order takes the place of the original
Replaced(id, new, o) == Remember(Erase(known, id), new, o)

\* 'U': the new order is known by its new number; the book, sent the original
\* one, goes on with that
Replace(locate, id, new, qty, raw) ==
  \/ (~CheckLocate(locate) \/ id \notin DOMAIN known) /\ Skip
  \/ /\ CheckLocate(locate) /\ id \in DOMAIN known
     /\ known' = Replaced(id, new, [price |-> TicksOf(raw), qty |-> qty,
                                    side |-> known[id].side])
     /\ parsed' = {[type |-> "Modify", id |-> id, price |-> TicksOf(raw), qty |-> qty]}

\* 'P': a trade against an order that was never displayed
HiddenTrade(locate, id, qty, raw) ==
  \/ (~CheckLocate(locate) \/ qty = 0 \/ TicksOf(raw) = 0) /\ Skip
  \/ /\ CheckLocate(locate) /\ qty # 0 /\ TicksOf(raw) # 0
     /\ parsed' = {TradeOf(id, qty)}
     /\ known' = known
=============================================================================
