-------------------------------- MODULE ItchFeed --------------------------------
(***************************************************************************)
(* An exchange, the ITCH parser and the order book it feeds: one step is   *)
(* one message, from the exchange's change to its book, through parse() to *)
(* the book operation that process_itch of src/app/main_replay.cpp selects *)
(* for the result.  What the loop does with the book's update is the       *)
(* subject of TradingLoop.                                                 *)
(*                                                                         *)
(* The exchange is outside the program.  It hands out reference numbers    *)
(* once each, never executes or cancels more than an order has left, and   *)
(* sends messages of the kinds in Kinds only.                              *)
(***************************************************************************)
EXTENDS Types

CONSTANTS Kinds,        \* the message types the exchange uses
          Locates,      \* its stocks
          FilterLocate, \* the stock the program keeps, 0 for all
          RawPrices, Qtys,
          MaxRefs       \* bound: reference numbers handed out

VARIABLES listed,    \* the exchange's book: reference -> [locate, raw, qty, side]
          next_ref,  \* its next reference number
          known, parsed,                 \* the parser's
          levels, orders, cached, bbo,   \* the order book's
          diverged   \* history: orders partly cancelled, or replaced

bookVars == <<levels, orders, cached, bbo>>
vars == <<listed, next_ref, known, parsed, levels, orders, cached, bbo, diverged>>

Parser == INSTANCE ItchParser
Book == INSTANCE OrderBook WITH OrderIds <- 1 .. MaxRefs, Prices <- {}

\* The types and bounds of what the exchange sends.
ASSUME FeedAssumption ==
  /\ MaxRefs \in Nat
  /\ RawPrices \subseteq Int
  /\ \A raw \in RawPrices : Parser!TicksOf(raw) \in Uint32   \* raw is an int32_t
  /\ Qtys \subseteq Uint32 \ {0}
  /\ Locates \subseteq Nat \ {0}
  /\ FilterLocate \in Nat

Init ==
  /\ listed = [id \in {} |-> 0]
  /\ next_ref = 1
  /\ diverged = {}
  /\ Parser!Init
  /\ Book!Init

\* process_itch: the book operation for what was parsed; nothing for Skipped
ApplyToBook ==
  \/ parsed' = None /\ UNCHANGED bookVars
  \/ \E m \in parsed' :
       \/ m.type = "Add" /\ Book!AddOrder(m.id, m.price, m.qty, m.side)
       \/ m.type = "Modify" /\ Book!ModifyOrder(m.id, m.price, m.qty)
       \/ m.type = "Cancel" /\ Book!CancelOrder(m.id)
       \/ m.type = "Trade" /\ Book!ApplyTrade(m.id, m.qty)
-----------------------------------------------------------------------------
(* The exchange.                                                           *)

List(m, id, o) ==
  [x \in DOMAIN m \cup {id} |-> IF x = id THEN o ELSE m[x]]
Unlist(id) == Restrict(listed, DOMAIN listed \ {id})

\* what is left of an order after qty of it is gone
Left(id, qty) ==
  IF qty = listed[id].qty THEN Unlist(id) ELSE [listed EXCEPT ![id].qty = @ - qty]

Entry ==
  /\ next_ref <= MaxRefs
  /\ next_ref' = next_ref + 1
  /\ \E l \in Locates, s \in Sides, q \in Qtys, raw \in RawPrices :
       /\ listed' = List(listed, next_ref, [locate |-> l, raw |-> raw, qty |-> q, side |-> s])
       /\ Parser!Add(l, next_ref, s, q, raw)
  /\ ApplyToBook
  /\ UNCHANGED diverged

Execution ==
  /\ \E id \in DOMAIN listed, q \in Qtys :
       /\ q <= listed[id].qty
       /\ listed' = Left(id, q)
       /\ \/ "E" \in Kinds /\ Parser!Executed(listed[id].locate, id, q)
          \/ "C" \in Kinds /\ Parser!ExecutedWithPrice(listed[id].locate, id, q)
  /\ ApplyToBook
  /\ UNCHANGED <<next_ref, diverged>>

PartialCancel ==
  /\ "X" \in Kinds
  /\ \E id \in DOMAIN listed, q \in Qtys :
       /\ q <= listed[id].qty
       /\ listed' = Left(id, q)
       /\ Parser!CancelPart(listed[id].locate, id, q)
       /\ diverged' = IF q < listed[id].qty THEN diverged \cup {id} ELSE diverged
  /\ ApplyToBook
  /\ UNCHANGED next_ref

Deletion ==
  /\ "D" \in Kinds
  /\ \E id \in DOMAIN listed :
       listed' = Unlist(id) /\ Parser!Delete(listed[id].locate, id)
  /\ ApplyToBook
  /\ UNCHANGED <<next_ref, diverged>>

Replacement ==
  /\ "U" \in Kinds
  /\ next_ref <= MaxRefs
  /\ next_ref' = next_ref + 1
  /\ \E id \in DOMAIN listed, q \in Qtys, raw \in RawPrices :
       /\ listed' = List(Unlist(id), next_ref,
                         [locate |-> listed[id].locate, raw |-> raw, qty |-> q,
                          side |-> listed[id].side])
       /\ Parser!Replace(listed[id].locate, id, next_ref, q, raw)
       /\ diverged' = diverged \cup {id, next_ref}
  /\ ApplyToBook

\* a trade names an order that is not displayed; the messages of other types
HiddenExecution ==
  /\ \/ "P" \in Kinds /\ \E l \in Locates, q \in Qtys, raw \in RawPrices :
          Parser!HiddenTrade(l, 0, q, raw)
     \/ Parser!Unsupported
  /\ ApplyToBook
  /\ UNCHANGED <<listed, next_ref, diverged>>

Next ==
  \/ Entry \/ Execution \/ PartialCancel \/ Deletion \/ Replacement
  \/ HiddenExecution

Spec == Init /\ [][Next]_vars
-----------------------------------------------------------------------------
(* Properties.                                                             *)

\* The parser's orders and what it makes of a message have their types; every
\* reference number was handed out.
TypeOK ==
  /\ DOMAIN listed \cup DOMAIN known \cup DOMAIN orders \cup diverged \subseteq 1 .. next_ref - 1
  /\ \A id \in DOMAIN known : known[id] \in [price : Uint32, qty : Uint32 \ {0}, side : Sides]
  /\ \A a, b \in parsed : a = b /\ a.type \in {"Add", "Modify", "Cancel", "Trade"}

\* Every order the parser knows is on the exchange's book, with this quantity,
\* side and price in ticks, and of the stock asked for: parsing each message
\* alone, it keeps up with partial cancels, executions and replacements
\* (README:21 "order-state tracking").
KnownOrdersAreListed ==
  \A id \in DOMAIN known :
    /\ id \in DOMAIN listed
    /\ known[id] = [price |-> Parser!TicksOf(listed[id].raw), qty |-> listed[id].qty,
                    side |-> listed[id].side]
    /\ Parser!CheckLocate(listed[id].locate)

\* Apart from orders partly cancelled and replaced, the book holds exactly the
\* orders the parser knows, and as it knows them.
BookFollowsParser ==
  \A id \in (DOMAIN known \cup DOMAIN orders) \ diverged :
    id \in DOMAIN known /\ id \in DOMAIN orders /\ orders[id] = known[id]

\* Whatever the parser makes of the feed, the book's levels stay the sums of
\* the book's orders: no trade it is sent is larger than its order.
LevelsMatchOrders == Book!LevelsMatchOrders

\* The book shows, at every price, the quantity of the orders the parser knows
\* there: after a partial cancel (README:173 "Cancel (partial)") and after a
\* replacement (README:175 "tracks new order ID") as well.
BookShowsKnownOrders ==
  LET KnownAt(s, p) == {id \in DOMAIN known : known[id].side = s /\ known[id].price = p}
  IN  \A s \in Sides :
        /\ \A id \in DOMAIN known : known[id].side = s => known[id].price \in DOMAIN levels[s]
        /\ \A p \in DOMAIN levels[s] :
             levels[s][p] = SumFunctionOnSet([id \in DOMAIN known |-> known[id].qty], KnownAt(s, p))
=============================================================================
