------------------------------- MODULE TradingLoop -------------------------------
(***************************************************************************)
(* The loop of src/app/main_replay.cpp: one thread takes a message of the  *)
(* feed into the order book and, when the best bid and offer changed, asks *)
(* the strategy for quotes, passes each through the risk checks to the     *)
(* gateway, and books the fills in the portfolio and the strategy.         *)
(*                                                                         *)
(* The components are the modules of the same names; stage says which of   *)
(* them the loop is in.  A message the parser refuses changes nothing and  *)
(* is not a step; the latency tracker and the fill log are left out.       *)
(***************************************************************************)
EXTENDS Types

CONSTANTS OrderIds, Prices, Qtys,     \* what the feed carries
          base_spread_ticks, lot_size, max_position,
          max_order_qty, max_notional, price_collar_ticks,
          MaxOrders                   \* bound: new orders sent

ASSUME LoopAssumption ==
  /\ OrderIds \subseteq Nat
  /\ Prices \subseteq 0 .. (INVALID_PRICE - 1)
  /\ Qtys \subseteq Uint32
  /\ base_spread_ticks \in Uint32
  /\ lot_size \in Uint32 \ {0}
  /\ {max_position, max_order_qty, max_notional, price_collar_ticks, MaxOrders} \subseteq Nat

VARIABLES levels, orders, cached, bbo,                     \* OrderBook
          inventory,                                       \* MarketMaker
          position, cash,                                  \* Portfolio
          resting, by_id, call, remaining, reports,        \* ExchangeSim
          active, next_order_id, pc, intent, handled, fills,   \* OrderGateway
          stage,     \* "read", "quote", "intents", "gateway" or "fills"
          intents,   \* the quotes still to be sent
          applied    \* fills of the last submission applied so far

bookVars == <<levels, orders, cached, bbo>>
accountVars == <<inventory, position, cash>>
gatewayVars == <<resting, by_id, call, remaining, reports,
                 active, next_order_id, pc, intent, handled, fills>>
vars == <<bookVars, accountVars, gatewayVars, stage, intents, applied>>

Book == INSTANCE OrderBook
Strategy == INSTANCE MarketMaker
Risk == INSTANCE RiskEngine
Account == INSTANCE Portfolio
Gateway == INSTANCE OrderGateway WITH OrderPrices <- Uint32, OrderQtys <- {lot_size}

Init ==
  /\ Book!Init
  /\ Strategy!Init
  /\ Account!Init
  /\ Gateway!Init
  /\ stage = "read"
  /\ intents = << >>
  /\ applied = 0

\* A message of the feed reaches the book.  The bound leaves room for the two
\* quotes it may cause.
Read ==
  /\ stage = "read"
  /\ next_order_id < MaxOrders
  /\ Book!Next
  /\ stage' = "quote"
  /\ UNCHANGED <<accountVars, gatewayVars, intents, applied>>

\* if (!bbo_update) continue; otherwise strategy.on_bbo
OnUpdate ==
  /\ stage = "quote"
  /\ \/ bbo = None /\ stage' = "read" /\ UNCHANGED intents
     \/ \E top \in bbo : intents' = Strategy!OnBbo(top) /\ stage' = "intents"
  /\ UNCHANGED <<bookVars, accountVars, gatewayVars, applied>>

ref_price == Book!Midprice % U32

Verdict(i) == Risk!Validate(i, Account!Snapshot(ref_price), ref_price)

\* mutant: a refused quote stays at the head of the list
RejectAgain ==
  /\ stage = "intents" /\ intents # << >>
  /\ Verdict(Head(intents)) # "Accept"
  /\ UNCHANGED vars

\* a quote that fails a check is skipped
Reject ==
  /\ stage = "intents" /\ intents # << >>
  /\ Verdict(Head(intents)) # "Accept"
  /\ intents' = Tail(intents)
  /\ UNCHANGED <<bookVars, accountVars, gatewayVars, stage, applied>>

Submit ==
  /\ stage = "intents" /\ intents # << >>
  /\ Verdict(Head(intents)) = "Accept"
  /\ Gateway!SubmitNew(Head(intents))
  /\ intents' = Tail(intents)
  /\ stage' = "gateway"
  /\ applied' = 0
  /\ UNCHANGED <<bookVars, accountVars>>

\* inside gateway.submit_intent
RunGateway ==
  /\ stage = "gateway"
  /\ Gateway!Running
  /\ stage' = IF pc' = "idle" THEN "fills" ELSE "gateway"
  /\ UNCHANGED <<bookVars, accountVars, intents, applied>>

BookFill ==
  /\ stage = "fills"
  /\ applied < Len(fills)
  /\ applied' = applied + 1
  /\ Account!ApplyFill(fills[applied'])
  /\ Strategy!OnFill(fills[applied'])
  /\ UNCHANGED <<bookVars, gatewayVars, stage, intents>>

NextIntent ==
  /\ stage = "fills"
  /\ applied = Len(fills)
  /\ stage' = "intents"
  /\ UNCHANGED <<bookVars, accountVars, gatewayVars, intents, applied>>

Continue ==
  /\ stage = "intents" /\ intents = << >>
  /\ stage' = "read"
  /\ UNCHANGED <<bookVars, accountVars, gatewayVars, intents, applied>>

\* the work one message causes
Work == OnUpdate \/ Reject \/ Submit \/ RunGateway \/ BookFill \/ NextIntent \/ Continue

Next == Read \/ Work

\* The loop is one thread that never waits: once it has read a message, it
\* goes on.  Whether another message comes is up to the feed.
Spec == Init /\ [][Next]_vars /\ WF_vars(Work)
-----------------------------------------------------------------------------
(* Properties.                                                             *)

\* The types of the loop and of its components.
TypeOK ==
  /\ Book!TypeOK
  /\ Gateway!TypeOK
  /\ stage \in {"read", "quote", "intents", "gateway", "fills"}
  /\ (pc = "idle") = (stage # "gateway")
  /\ Len(intents) <= 2
  /\ \A n \in DOMAIN intents : intents[n] \in
       [action : {New}, side : Sides, price : Uint32, qty : {lot_size}, orig : {0}]
  /\ position \in Int /\ cash \in Int
  /\ applied \in 0 .. Len(fills)

\* The portfolio's position never passes the limit, and the strategy's own
\* count of it never differs: whatever the feed does, whichever of the two
\* quotes of a message fills, and though the second was priced before the
\* first one filled.
PositionWithinLimits ==
  /\ position \in -max_position .. max_position
  /\ inventory = position

\* The fixed arrays of reports and fills never overflow here: every order is
\* of one lot, so that it rests whole or fills whole against one other.
ReportsNeverDropped ==
  /\ \A s \in Sides : \A p \in DOMAIN resting[s] : resting[s][p].qty = lot_size
  /\ Len(reports) <= 2

\* The risk checks measure a quote from the price the strategy quoted around:
\* while quotes are pending, the book has both sides and its midprice is the
\* fair price of the update that caused them.
ReferenceIsFair ==
  stage \in {"intents", "gateway", "fills"} /\ intents # << >> =>
    \E top \in bbo : Book!IsValid /\ ref_price = Strategy!Fair(top)

\* The quote that would bring the inventory back towards zero is never
\* refused: the strategy cannot lock itself out of its way home.
ReducingQuoteAccepted ==
  stage = "intents" =>
    \A n \in DOMAIN intents :
      inventory * Strategy!Signed(intents[n].side, 1) < 0 => Verdict(intents[n]) = "Accept"

\* Every message is worked off: the loop comes back for the next one.
EveryMessageEnds == stage # "read" ~> stage = "read"
=============================================================================
