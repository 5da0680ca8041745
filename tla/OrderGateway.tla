------------------------------ MODULE OrderGateway ------------------------------
(***************************************************************************)
(* The order gateway of src/gateway/order_gateway.hpp and the exchange     *)
(* simulator it calls.  The gateway gives every new order the next client  *)
(* id, keeps the orders it believes open (active_orders_), and turns the   *)
(* execution reports of a call into the fills it returns.                  *)
(*                                                                         *)
(* submit_intent() is one call: it enters the simulator (SubmitNew,        *)
(* SubmitCancel), runs it (SimSweep, SimReturn), goes through the reports  *)
(* one by one (ProcessReport) and returns (Return).  The statistics, which *)
(* nothing reads before the program ends, are left out.                    *)
(***************************************************************************)
EXTENDS Types

CONSTANTS OrderPrices,  \* prices of the intents
          OrderQtys,    \* quantities of the intents
          MaxOrders     \* bound: new orders sent

ASSUME GatewayAssumption ==
  /\ OrderPrices \subseteq Uint32
  /\ OrderQtys \subseteq Uint32
  /\ MaxOrders \in Nat

VARIABLES resting, by_id, call, remaining, reports,  \* the simulator's
          active,         \* active_orders_: client id -> its side
          next_order_id,  \* next_order_id_
          pc,             \* where submit_intent is: "idle", "sim" or "reports"
          intent,         \* the intent of the current or last call, an optional
          handled,        \* reports processed so far
          fills           \* the FillResults of the current or last call

simVars == <<resting, by_id, call, remaining, reports>>
gwVars == <<active, next_order_id, pc, intent, handled, fills>>
vars == <<resting, by_id, call, remaining, reports,
          active, next_order_id, pc, intent, handled, fills>>

Sim == INSTANCE ExchangeSim

Init ==
  /\ Sim!Init
  /\ active = [id \in {} |-> Bid]
  /\ next_order_id = 1
  /\ pc = "idle"
  /\ intent = None
  /\ handled = 0
  /\ fills = << >>

Enter(i) ==
  /\ pc = "idle"
  /\ pc' = "sim"
  /\ intent' = {i}
  /\ handled' = 0
  /\ fills' = << >>

\* mutant: the id is not advanced
SubmitNewSameId(i) ==
  /\ Enter(i)
  /\ Sim!Submit([id |-> next_order_id, side |-> i.side, price |-> i.price,
                 qty |-> i.qty, action |-> New])
  /\ active' = [id \in DOMAIN active \cup {next_order_id} |->
                  IF id = next_order_id THEN i.side ELSE active[id]]
  /\ UNCHANGED next_order_id

SubmitNew(i) ==
  /\ Enter(i)
  /\ Sim!Submit([id |-> next_order_id, side |-> i.side, price |-> i.price,
                 qty |-> i.qty, action |-> New])
  /\ active' = [id \in DOMAIN active \cup {next_order_id} |->
                  IF id = next_order_id THEN i.side ELSE active[id]]
  /\ next_order_id' = next_order_id + 1

\* orig_client_order_id names the order to cancel
SubmitCancel(i) ==
  /\ Enter(i)
  /\ Sim!Submit([id |-> i.orig, side |-> i.side, price |-> i.price,
                 qty |-> i.qty, action |-> Cancel])
  /\ UNCHANGED <<active, next_order_id>>

SimSweep == pc = "sim" /\ Sim!Sweep /\ UNCHANGED gwVars

SimReturn ==
  /\ pc = "sim"
  /\ Sim!Finish
  /\ pc' = "reports"
  /\ UNCHANGED <<active, next_order_id, intent, handled, fills>>

Forget(id) == Restrict(active, DOMAIN active \ {id})

\* mutant: any fill closes the order
ActiveAfterAnyFill(r) == IF r.type \in {Fill, Cancelled} THEN Forget(r.id) ELSE active

\* an order is forgotten once it is filled or cancelled
ActiveAfter(r) ==
  IF r.type = Cancelled \/ (r.type = Fill /\ r.remaining = 0) THEN Forget(r.id)
  ELSE active

\* a fill of an order that is not active is dropped
FillsAfter(r) ==
  IF r.type = Fill /\ r.id \in DOMAIN active
  THEN PushBack(fills, [side |-> active[r.id], qty |-> r.filled, price |-> r.price])
  ELSE fills

\* one iteration of process_reports; an Ack changes nothing
ProcessReport ==
  /\ pc = "reports"
  /\ handled < Len(reports)
  /\ handled' = handled + 1
  /\ LET r == reports[handled'] IN active' = ActiveAfter(r) /\ fills' = FillsAfter(r)
  /\ UNCHANGED <<simVars, next_order_id, pc, intent>>

Return ==
  /\ pc = "reports"
  /\ handled = Len(reports)
  /\ pc' = "idle"
  /\ UNCHANGED <<simVars, active, next_order_id, intent, handled, fills>>

\* what runs once submit_intent has been called
Running == SimSweep \/ SimReturn \/ ProcessReport \/ Return

Call ==
  \/ /\ next_order_id <= MaxOrders
     /\ \E s \in Sides, p \in OrderPrices, q \in OrderQtys :
          SubmitNew([action |-> New, side |-> s, price |-> p, qty |-> q, orig |-> 0])
  \/ \E id \in 1 .. MaxOrders :
       SubmitCancel([action |-> Cancel, side |-> Bid, price |-> 0, qty |-> 0, orig |-> id])

Next == Call \/ Running

Spec == Init /\ [][Next]_vars
-----------------------------------------------------------------------------
(* Properties.                                                             *)

ClientIds == 1 .. next_order_id - 1

\* The types of the simulator's and the gateway's state; client ids are
\* handed out once each, from 1.
TypeOK ==
  /\ \A s \in Sides : \A p \in DOMAIN resting[s] :
       p \in Uint32 /\ resting[s][p] \in [id : ClientIds, qty : Uint32 \ {0}]
  /\ DOMAIN by_id \subseteq ClientIds
  /\ DOMAIN active \subseteq ClientIds
  /\ \A id \in DOMAIN by_id : by_id[id] \in [side : Sides, price : Uint32]
  /\ \A id \in DOMAIN active : active[id] \in Sides
  /\ pc \in {"idle", "sim", "reports"}
  /\ (call = None) = (pc # "sim")
  /\ handled \in 0 .. Len(reports) /\ Len(reports) <= kMaxReports

\* The simulator's book is never crossed, through any sequence of new orders
\* and cancels.
NeverCrossed == Sim!NeverCrossed

\* by_id_ leads from the id of every resting order to it, so that a cancel
\* of a resting order always takes it off.
RestingIsIndexed == Sim!RestingIsIndexed

\* Every order that rests in the simulator is one the gateway still tracks,
\* on the same side (docs/architecture.md:145 "Maintains active_orders_ map
\* for fill reconciliation").
RestingIsActive ==
  \A s \in Sides : \A p \in DOMAIN resting[s] :
    LET id == resting[s][p].id IN id \in DOMAIN active /\ active[id] = s

\* When a new order's call returns, the fills handed to the portfolio are the
\* order but for what its last report says is left, and that is what rests.
\* Only if the report array is full may less rest: the fills of the levels
\* behind are lost (types.hpp:176), but no quantity is booked twice.
FilledQty == SumFunctionOnSet([n \in DOMAIN fills |-> fills[n].qty], DOMAIN fills)
RestingAs(id) ==
  {sp \in Sides \X Uint32 :
     sp[2] \in DOMAIN resting[sp[1]] /\ resting[sp[1]][sp[2]].id = id}
RestingQty(id) ==
  SumFunctionOnSet([sp \in RestingAs(id) |-> resting[sp[1]][sp[2]].qty], RestingAs(id))
LeftOnReport == reports[Len(reports)].remaining
FillsAndRestAddUp ==
  \A i \in intent :
    pc = "idle" /\ i.action = New =>
      /\ FilledQty + LeftOnReport = i.qty
      /\ RestingQty(next_order_id - 1) <= LeftOnReport
      /\ Len(reports) < kMaxReports => RestingQty(next_order_id - 1) = LeftOnReport

\* Every fill handed to the portfolio is at the intent's limit or better, and
\* the prices of a sweep only get worse from one fill to the next.
FillsWithinLimit ==
  \A i \in intent : \A n \in DOMAIN fills :
    /\ fills[n].side = i.side
    /\ ~Better(i.side, fills[n].price, i.price)
    /\ n > 1 => Better(Opposite(i.side), fills[n - 1].price, fills[n].price)

\* An order leaves the simulator's book only by being filled by an order of
\* the other side, or by its own cancel (docs/architecture.md:156 "Unfilled
\* quantity rests").
OrdersLeaveByFillOrCancel ==
  [][\A id \in Sim!RestingIds \ Sim!RestingIds' :
       \E ord \in call :
         \/ ord.action = New /\ ord.side # active[id]
         \/ ord.action = Cancel /\ ord.id = id]_vars
=============================================================================
