------------------------------ MODULE ExchangeSim ------------------------------
(***************************************************************************)
(* The exchange simulator of src/exchange/exchange_sim.hpp.  It holds only *)
(* the orders the gateway sends it: one resting order per price on each    *)
(* side (bids_, asks_), and an index of orders by client id (by_id_).      *)
(*                                                                         *)
(* submit() is one call; its matching loop is taken one iteration at a     *)
(* time (Sweep), between Submit, which enters it, and Finish, which        *)
(* returns.  Submit starts with the Ack every call reports.                *)
(***************************************************************************)
EXTENDS Types

VARIABLES resting,    \* bids_ and asks_: side -> (price -> [id, qty])
          by_id,      \* by_id_: client id -> [side, price]
          call,       \* the OutboundOrder being submitted, an optional
          remaining,  \* its quantity left to match
          reports     \* the ExecutionReports of the current or last call

vars == <<resting, by_id, call, remaining, reports>>

Report(id, type, filled, left, price) ==
  [id |-> id, type |-> type, filled |-> filled, remaining |-> left, price |-> price]

Init ==
  /\ resting = [s \in Sides |-> [p \in {} |-> 0]]
  /\ by_id = [id \in {} |-> 0]
  /\ call = None
  /\ remaining = 0
  /\ reports = << >>

Submit(ord) ==
  /\ call = None
  /\ call' = {ord}
  /\ remaining' = ord.qty
  /\ reports' = <<Report(ord.id, Ack, 0, ord.qty, 0)>>
  /\ UNCHANGED <<resting, by_id>>
-----------------------------------------------------------------------------
(* The matching loop of a New order.                                       *)

\* mutants: a resting price equal to the limit does not match; the comparison
\* is the other side's
MarketableStrictly(ord, p) == Better(ord.side, ord.price, p)
MarketableSwapped(ord, p) == ~Better(ord.side, ord.price, p)

\* the order's limit reaches price p of the other side
Marketable(ord, p) == ~Better(ord.side, p, ord.price)

\* the condition of the while loop
CanMatch(ord) ==
  LET prices == DOMAIN resting[Opposite(ord.side)] IN
    /\ ord.action = New
    /\ remaining > 0
    /\ prices # {}
    /\ Marketable(ord, BestOf(Opposite(ord.side), prices))

\* the best resting order is filled, and leaves the book when it is used up
Sweep ==
  \E ord \in call :
    LET opp == Opposite(ord.side)
        p == BestOf(opp, DOMAIN resting[opp])
        r == resting[opp][p]
        filled == IF remaining < r.qty THEN remaining ELSE r.qty
    IN  /\ CanMatch(ord)
        /\ reports' = PushBack(reports, Report(ord.id, Fill, filled, remaining - filled, p))
        /\ remaining' = remaining - filled
        /\ \/ /\ filled = r.qty
              /\ resting' = [resting EXCEPT ![opp] = Restrict(@, DOMAIN @ \ {p})]
              /\ by_id' = Restrict(by_id, DOMAIN by_id \ {r.id})
           \/ /\ filled < r.qty
              /\ resting' = [resting EXCEPT ![opp][p] = [id |-> r.id, qty |-> r.qty - filled]]
              /\ by_id' = by_id
        /\ call' = call
-----------------------------------------------------------------------------
(* What is left of a New order rests, in the place of any order already at *)
(* its price; that order keeps its entry in by_id_.                        *)

\* mutant: what rests is the order's full quantity
RestFullQty(ord) ==
  [p \in DOMAIN resting[ord.side] \cup {ord.price} |->
     IF p = ord.price THEN [id |-> ord.id, qty |-> ord.qty] ELSE resting[ord.side][p]]

RestOn(ord) ==
  [p \in DOMAIN resting[ord.side] \cup {ord.price} |->
     IF p = ord.price THEN [id |-> ord.id, qty |-> remaining] ELSE resting[ord.side][p]]

\* mutant: the index is left alone when the price level existed already
IndexIfLevelIsNew(ord) ==
  IF ord.price \in DOMAIN resting[ord.side] THEN by_id
  ELSE [id \in DOMAIN by_id \cup {ord.id} |->
          IF id = ord.id THEN [side |-> ord.side, price |-> ord.price] ELSE by_id[id]]

\* by_id_.insert
Index(ord) ==
  [id \in DOMAIN by_id \cup {ord.id} |->
     IF id = ord.id THEN [side |-> ord.side, price |-> ord.price] ELSE by_id[id]]

FinishNew(ord) ==
  /\ ord.action = New
  /\ ~CanMatch(ord)
  /\ \/ /\ remaining > 0
        /\ resting' = [resting EXCEPT ![ord.side] = RestOn(ord)]
        /\ by_id' = Index(ord)
     \/ remaining = 0 /\ UNCHANGED <<resting, by_id>>
  /\ UNCHANGED reports

\* A known id takes away whatever rests at the price it was placed at.
FinishCancel(ord) ==
  /\ ord.action = Cancel
  /\ \/ /\ ord.id \in DOMAIN by_id
        /\ LET o == by_id[ord.id] IN
             resting' = [resting EXCEPT ![o.side] = Restrict(@, DOMAIN @ \ {o.price})]
        /\ by_id' = Restrict(by_id, DOMAIN by_id \ {ord.id})
        /\ reports' = PushBack(reports, Report(ord.id, Cancelled, 0, 0, 0))
     \/ ord.id \notin DOMAIN by_id /\ UNCHANGED <<resting, by_id, reports>>

Finish ==
  /\ \E ord \in call : FinishNew(ord) \/ FinishCancel(ord)
  /\ call' = None
  /\ remaining' = 0
-----------------------------------------------------------------------------
(* What the properties speak of.                                           *)

RestingIds == UNION {{resting[s][p].id : p \in DOMAIN resting[s]} : s \in Sides}

\* The simulator never holds a bid at or above an ask: an order rests only
\* after the sweep has taken every price it reaches.
NeverCrossed ==
  \A b \in DOMAIN resting[Bid], a \in DOMAIN resting[Ask] : b < a

\* Every resting order can be found by its id, at the price where it rests.
RestingIsIndexed ==
  \A s \in Sides : \A p \in DOMAIN resting[s] :
    LET id == resting[s][p].id IN
      id \in DOMAIN by_id /\ by_id[id] = [side |-> s, price |-> p]
=============================================================================
