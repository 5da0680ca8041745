-------------------------------- MODULE L2View --------------------------------
(***************************************************************************)
(* What an order book promises its reader, with no levels and no cache:    *)
(* there is a set of live orders, and after every message the reader gets  *)
(* the best bid and offer of those orders if, and only if, they changed.   *)
(* OrderBook implements it while no trade is larger than its order         *)
(* (NativeFeed).                                                           *)
(***************************************************************************)
EXTENDS Integers, FiniteSetsExt, Functions

CONSTANTS OrderIds, Prices, Qtys,
          NoPrice   \* the price quoted for an empty side

VARIABLES live,      \* order id -> [price, qty, side]
          published  \* what the last message published: {} or {best bid and offer}

vars == <<live, published>>

OnSide(o, s) == {id \in DOMAIN o : o[id].side = s}
PricesOf(o, s) == {o[id].price : id \in OnSide(o, s)}
QtyAt(o, s, p) ==
  SumFunctionOnSet([id \in DOMAIN o |-> o[id].qty],
                   {id \in OnSide(o, s) : o[id].price = p})

Inside(o, s) ==
  IF PricesOf(o, s) = {} THEN [px |-> NoPrice, qty |-> 0]
  ELSE LET best == IF s = "Bid" THEN Max(PricesOf(o, s)) ELSE Min(PricesOf(o, s))
       IN  [px |-> best, qty |-> QtyAt(o, s, best)]

BestBidOffer(o) == [s \in {"Bid", "Ask"} |-> Inside(o, s)]

Publish ==
  published' = IF BestBidOffer(live') = BestBidOffer(live) THEN {}
               ELSE {BestBidOffer(live')}

Init == live = [id \in {} |-> 0] /\ published = {}

Place(id, o) ==
  /\ id \notin DOMAIN live
  /\ live' = [i \in DOMAIN live \cup {id} |-> IF i = id THEN o ELSE live[i]]
  /\ Publish

Replace(id, price, qty) ==
  /\ id \in DOMAIN live
  /\ live' = [live EXCEPT ![id].price = price, ![id].qty = qty]
  /\ Publish

Withdraw(id) ==
  /\ id \in DOMAIN live
  /\ live' = Restrict(live, DOMAIN live \ {id})
  /\ Publish

Execute(id, qty) ==
  /\ id \in DOMAIN live
  /\ live[id].qty > qty
  /\ live' = [live EXCEPT ![id].qty = @ - qty]
  /\ Publish

\* a message about an order that is gone, or an id already in use
Disregard == live' = live /\ published' = {}

\* the whole book is dropped, and nobody is told
Reset == live' = [id \in {} |-> 0] /\ published' = {}

Next ==
  \/ \E id \in OrderIds, p \in Prices, q \in Qtys, s \in {"Bid", "Ask"} :
        Place(id, [price |-> p, qty |-> q, side |-> s])
  \/ \E id \in OrderIds, p \in Prices, q \in Qtys : Replace(id, p, q)
  \/ \E id \in OrderIds : Withdraw(id)
  \/ \E id \in OrderIds, q \in Qtys : Execute(id, q)
  \/ Disregard
  \/ Reset

Spec == Init /\ [][Next]_vars
=============================================================================
