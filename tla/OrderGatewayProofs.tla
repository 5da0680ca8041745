--------------------------- MODULE OrderGatewayProofs ---------------------------
(***************************************************************************)
(* Proofs about OrderGateway and the exchange simulator it calls: types,   *)
(* the simulator's book is never crossed, its index finds every resting    *)
(* order, the gateway tracks every resting order, and the fills of an      *)
(* order are within its limit and add up with what rests of it.            *)
(***************************************************************************)
EXTENDS OrderGateway, TypesProofs

-----------------------------------------------------------------------------
(* The inductive invariant.                                                *)

RestingOrders == [id : Nat, qty : Uint32 \ {0}]
RestingLevels == PartialMaps(Uint32, RestingOrders)
IndexEntries == [side : Sides, price : Uint32]
Indices == PartialMaps(Nat, IndexEntries)
ActiveMaps == PartialMaps(Nat, Sides)
Orders == [id : Nat, side : Sides, price : Uint32, qty : Uint32, action : {New, Cancel}]
Reports == [id : Nat, type : {Ack, Fill, Cancelled}, filled : Uint32,
            remaining : Uint32, price : Uint32]

Shape ==
  /\ resting \in [Sides -> RestingLevels]
  /\ by_id \in Indices
  /\ active \in ActiveMaps
  /\ next_order_id \in Nat \ {0}
  /\ call = None \/ \E ord \in Orders : call = {ord}
  /\ remaining \in Uint32
  /\ reports \in Seq(Reports) /\ Len(reports) <= kMaxReports
  /\ handled \in 0 .. Len(reports)
  /\ pc \in {"idle", "sim", "reports"}
  /\ (call = None) = (pc # "sim")

\* Ids are handed out once.
IdsKnown == DOMAIN by_id \subseteq ClientIds /\ DOMAIN active \subseteq ClientIds

\* A report after which the gateway forgets its order.
Closes(r) == r.type = Cancelled \/ (r.type = Fill /\ r.remaining = 0)

\* Inside the simulator: a new order is tracked and does not rest yet, and
\* only its own fill that used it up has closed it.
InCall ==
  \A ord \in call :
    /\ ord.action = New =>
         /\ ord.id \in DOMAIN active /\ active[ord.id] = ord.side
         /\ ord.id \notin Sim!RestingIds
    /\ \A n \in DOMAIN reports :
         Closes(reports[n]) => ord.action = New /\ reports[n].id = ord.id /\ remaining = 0

\* Back in the gateway: no report closes an order that rests.
AfterCall ==
  pc = "reports" =>
    \A n \in DOMAIN reports : Closes(reports[n]) => reports[n].id \notin Sim!RestingIds

IInv ==
  /\ Shape
  /\ IdsKnown
  /\ NeverCrossed
  /\ RestingIsIndexed
  /\ RestingIsActive
  /\ InCall
  /\ AfterCall
-----------------------------------------------------------------------------
(* The maps of the simulator and of the gateway.                           *)

LEMMA LevelRestrict ==
  ASSUME NEW m \in RestingLevels, NEW x
  PROVE  /\ Restrict(m, DOMAIN m \ {x}) \in RestingLevels
         /\ DOMAIN Restrict(m, DOMAIN m \ {x}) = DOMAIN m \ {x}
         /\ \A y \in DOMAIN m \ {x} : Restrict(m, DOMAIN m \ {x})[y] = m[y]
<1> DOMAIN m \ {x} \in SUBSET DOMAIN m
  OBVIOUS
<1> QED BY PartialMapRestrict DEF RestingLevels

LEMMA LevelReplace ==
  ASSUME NEW m \in RestingLevels, NEW x \in DOMAIN m, NEW o \in RestingOrders
  PROVE  /\ [m EXCEPT ![x] = o] \in RestingLevels
         /\ m \in [DOMAIN m -> RestingOrders]
<1>1. PICK D \in SUBSET Uint32 : m \in [D -> RestingOrders]
  BY DEF RestingLevels, PartialMaps
<1>2. [m EXCEPT ![x] = o] \in [D -> RestingOrders]
  BY <1>1
<1> QED BY <1>1, <1>2 DEF RestingLevels, PartialMaps

LEMMA IndexRestrict ==
  ASSUME NEW m \in Indices, NEW x
  PROVE  /\ Restrict(m, DOMAIN m \ {x}) \in Indices
         /\ DOMAIN Restrict(m, DOMAIN m \ {x}) = DOMAIN m \ {x}
         /\ \A y \in DOMAIN m \ {x} : Restrict(m, DOMAIN m \ {x})[y] = m[y]
<1> DOMAIN m \ {x} \in SUBSET DOMAIN m
  OBVIOUS
<1> QED BY PartialMapRestrict DEF Indices

LEMMA ActiveRestrict ==
  ASSUME NEW m \in ActiveMaps, NEW x
  PROVE  /\ Restrict(m, DOMAIN m \ {x}) \in ActiveMaps
         /\ DOMAIN Restrict(m, DOMAIN m \ {x}) = DOMAIN m \ {x}
         /\ \A y \in DOMAIN m \ {x} : Restrict(m, DOMAIN m \ {x})[y] = m[y]
<1> DOMAIN m \ {x} \in SUBSET DOMAIN m
  OBVIOUS
<1> QED BY PartialMapRestrict DEF ActiveMaps

LEMMA IndexApply ==
  ASSUME NEW m \in Indices, NEW id \in DOMAIN m
  PROVE  m[id] \in IndexEntries
  BY PartialMapApply DEF Indices
-----------------------------------------------------------------------------
(* What is true of every resting order.                                    *)

\* The sides of the simulator are those of the gateway.
USE DEF Sides, Bid, Ask, Sim!Sides, Sim!Bid, Sim!Ask

LEMMA RestingIdsAre ==
  /\ \A id : id \in Sim!RestingIds <=>
       \E s \in Sides : \E p \in DOMAIN resting[s] : id = resting[s][p].id
  /\ \A id : id \in Sim!RestingIds' <=>
       \E s \in Sides : \E p \in DOMAIN resting'[s] : id = resting'[s][p].id
<1>1. \A id : id \in Sim!RestingIds <=>
        \E s \in Sides : \E p \in DOMAIN resting[s] : id = resting[s][p].id
  BY DEF Sim!RestingIds
<1>2. \A id : id \in Sim!RestingIds' <=>
        \E s \in Sides : \E p \in DOMAIN resting'[s] : id = resting'[s][p].id
  BY DEF Sim!RestingIds
<1> QED BY <1>1, <1>2

LEMMA RestingTypes ==
  ASSUME Shape, NEW s \in Sides
  PROVE  /\ resting[s] \in RestingLevels
         /\ DOMAIN resting[s] \in SUBSET Uint32
         /\ \A p \in DOMAIN resting[s] : resting[s][p] \in RestingOrders
<1>1. resting[s] \in RestingLevels
  BY DEF Shape
<1> QED BY <1>1, PartialMapApply DEF RestingLevels

\* The invariant implies the types the model checker sees.
LEMMA InvariantImpliesTypes == IInv => TypeOK
<1> SUFFICES ASSUME IInv PROVE TypeOK
  OBVIOUS
<1>1. ASSUME NEW s \in Sides, NEW p \in DOMAIN resting[s]
      PROVE  p \in Uint32 /\ resting[s][p] \in [id : ClientIds, qty : Uint32 \ {0}]
  <2>1. p \in Uint32 /\ resting[s][p] \in RestingOrders
    BY <1>1, RestingTypes DEF IInv
  <2>2. resting[s][p].id \in ClientIds
    BY <1>1 DEF IInv, RestingIsIndexed, Sim!RestingIsIndexed, IdsKnown
  <2> QED BY <2>1, <2>2 DEF RestingOrders
<1>2. ASSUME NEW id \in DOMAIN by_id PROVE by_id[id] \in [side : Sides, price : Uint32]
  BY <1>2, IndexApply DEF IInv, Shape, IndexEntries
<1>3. ASSUME NEW id \in DOMAIN active PROVE active[id] \in Sides
  BY <1>3, PartialMapApply DEF IInv, Shape, ActiveMaps
<1> QED BY <1>1, <1>2, <1>3 DEF IInv, Shape, IdsKnown, TypeOK

-----------------------------------------------------------------------------
(* Steps that only take orders, or parts of them, off the simulator's book *)

Shrunk ==
  \A s \in Sides :
    /\ DOMAIN resting'[s] \subseteq DOMAIN resting[s]
    /\ \A p \in DOMAIN resting'[s] : resting'[s][p].id = resting[s][p].id

LEMMA ShrunkKeeps ==
  ASSUME Shrunk, NeverCrossed
  PROVE  /\ NeverCrossed'
         /\ Sim!RestingIds' \subseteq Sim!RestingIds
<1>1. NeverCrossed'
  BY DEF Shrunk, NeverCrossed, Sim!NeverCrossed, Sides
<1>2. ASSUME NEW id \in Sim!RestingIds' PROVE id \in Sim!RestingIds
  BY <1>2, RestingIdsAre DEF Shrunk
<1> QED BY <1>1, <1>2

\* One order goes, from price p0 of side s0, and its index entry with it.
LEMMA RemovalKeepsIndex ==
  ASSUME RestingIsIndexed, Shape, NEW s0 \in Sides, NEW p0, NEW id0,
         resting' = [resting EXCEPT ![s0] = Restrict(@, DOMAIN @ \ {p0})],
         by_id' = Restrict(by_id, DOMAIN by_id \ {id0}),
         id0 \in DOMAIN by_id, by_id[id0] = [side |-> s0, price |-> p0]
  PROVE  /\ Shrunk /\ RestingIsIndexed'
         /\ resting' \in [Sides -> RestingLevels] /\ by_id' \in Indices
         /\ DOMAIN by_id' \subseteq DOMAIN by_id
         /\ id0 \notin Sim!RestingIds'
<1>1. /\ Restrict(resting[s0], DOMAIN resting[s0] \ {p0}) \in RestingLevels
      /\ DOMAIN Restrict(resting[s0], DOMAIN resting[s0] \ {p0}) = DOMAIN resting[s0] \ {p0}
      /\ \A p \in DOMAIN resting[s0] \ {p0} :
           Restrict(resting[s0], DOMAIN resting[s0] \ {p0})[p] = resting[s0][p]
  BY RestingTypes, LevelRestrict
<1>2. resting \in [Sides -> RestingLevels]
  BY DEF Shape
<1>3. \A s \in Sides : \A p \in DOMAIN resting'[s] :
        p \in DOMAIN resting[s] /\ resting'[s][p] = resting[s][p] /\ (s # s0 \/ p # p0)
  BY <1>1, <1>2
<1>4. Shrunk
  BY <1>3 DEF Shrunk
<1>5. resting' \in [Sides -> RestingLevels]
  BY <1>1, <1>2
<1>6. /\ by_id' \in Indices /\ DOMAIN by_id' = DOMAIN by_id \ {id0}
      /\ \A id \in DOMAIN by_id \ {id0} : by_id'[id] = by_id[id]
  BY ZenonT(60), IndexRestrict DEF Shape
<1>7. ASSUME NEW s \in Sides, NEW p \in DOMAIN resting'[s]
      PROVE  /\ resting'[s][p].id # id0
             /\ resting'[s][p].id \in DOMAIN by_id'
             /\ by_id'[resting'[s][p].id] = [side |-> s, price |-> p]
  <2>1. /\ p \in DOMAIN resting[s] /\ resting'[s][p] = resting[s][p]
        /\ s # s0 \/ p # p0
    BY <1>3, <1>7
  <2>2. /\ resting[s][p].id \in DOMAIN by_id
        /\ by_id[resting[s][p].id] = [side |-> s, price |-> p]
    BY <2>1 DEF RestingIsIndexed, Sim!RestingIsIndexed
  <2>3. resting[s][p].id # id0
    BY <2>1, <2>2
  <2> QED BY <2>1, <2>2, <2>3, <1>6
<1>8. RestingIsIndexed'
  BY <1>7 DEF RestingIsIndexed, Sim!RestingIsIndexed
<1>9. id0 \notin Sim!RestingIds'
  <2>1. ~ \E s \in Sides : \E p \in DOMAIN resting'[s] : id0 = resting'[s][p].id
    BY ZenonT(60), <1>7
  <2> QED BY <2>1, RestingIdsAre, Zenon
<1> QED BY <1>4, <1>5, <1>6, <1>8, <1>9

\* The partial fill of an order leaves its id where it was.
LEMMA ReductionKeepsIndex ==
  ASSUME RestingIsIndexed, Shape, NEW s0 \in Sides, NEW p0 \in DOMAIN resting[s0],
         NEW q \in Uint32 \ {0},
         resting' = [resting EXCEPT ![s0][p0] = [id |-> resting[s0][p0].id, qty |-> q]],
         by_id' = by_id
  PROVE  Shrunk /\ RestingIsIndexed' /\ resting' \in [Sides -> RestingLevels]
<1>1. /\ resting[s0] \in RestingLevels /\ resting[s0][p0] \in RestingOrders
      /\ p0 \in Uint32
  BY RestingTypes
<1>2. [id |-> resting[s0][p0].id, qty |-> q] \in RestingOrders
  BY <1>1 DEF RestingOrders
<1>3. resting \in [Sides -> RestingLevels]
  BY DEF Shape
<1>4. /\ [resting[s0] EXCEPT ![p0] = [id |-> resting[s0][p0].id, qty |-> q]] \in RestingLevels
      /\ resting[s0] \in [DOMAIN resting[s0] -> RestingOrders]
  BY <1>1, <1>2, LevelReplace
<1>5. resting' \in [Sides -> RestingLevels]
  BY <1>3, <1>4
<1>6. Shrunk
  BY <1>3, <1>4 DEF Shrunk
<1>7. RestingIsIndexed'
  BY <1>6 DEF Shrunk, RestingIsIndexed, Sim!RestingIsIndexed
<1> QED BY <1>5, <1>6, <1>7
-----------------------------------------------------------------------------
(* One iteration of the matching loop.                                     *)

LEMMA SimOperators ==
  /\ \A f, D : Sim!Restrict(f, D) = Restrict(f, D)
  /\ \A s, P : Sim!BestOf(s, P) = BestOf(s, P)
  /\ \A s, x, y : Sim!Better(s, x, y) <=> Better(s, x, y)
  /\ \A a, x : Sim!PushBack(a, x) = PushBack(a, x)
  /\ \A s : Sim!Opposite(s) = Opposite(s)
  BY DEF Sim!Restrict, Restrict, Sim!BestOf, BestOf, Sim!Max, Max, Sim!Min, Min,
         Sim!Better, Better, Sim!PushBack, PushBack, Sim!kMaxReports, kMaxReports,
         Sim!Opposite, Opposite

SweepReport(ord, p0, filled) ==
  [id |-> ord.id, type |-> Fill, filled |-> filled,
   remaining |-> remaining - filled, price |-> p0]

\* The order ord takes filled from what rests at price p0 of side s0.
SweepStep(ord, s0, p0, filled) ==
  /\ call = {ord} /\ call' = call /\ ord.action = New
  /\ s0 = Opposite(ord.side) /\ p0 = BestOf(s0, DOMAIN resting[s0])
  /\ p0 \in DOMAIN resting[s0] /\ ~Better(ord.side, p0, ord.price)
  /\ remaining > 0 /\ remaining' = remaining - filled
  /\ filled = IF remaining < resting[s0][p0].qty THEN remaining ELSE resting[s0][p0].qty
  /\ reports' = PushBack(reports, SweepReport(ord, p0, filled))
  /\ \/ /\ resting' = [resting EXCEPT ![s0] = Restrict(@, DOMAIN @ \ {p0})]
        /\ by_id' = Restrict(by_id, DOMAIN by_id \ {resting[s0][p0].id})
     \/ /\ filled < resting[s0][p0].qty
        /\ resting' = [resting EXCEPT ![s0][p0] =
                         [id |-> resting[s0][p0].id, qty |-> resting[s0][p0].qty - filled]]
        /\ by_id' = by_id

LEMMA SweepStepTakes ==
  ASSUME NEW ord, NEW s0, NEW p0, NEW filled, SweepStep(ord, s0, p0, filled)
  PROVE  /\ call = {ord} /\ remaining # 0
         /\ reports' = PushBack(reports, SweepReport(ord, p0, filled))
<1>1. /\ call = {ord} /\ remaining > 0
      /\ reports' = PushBack(reports, SweepReport(ord, p0, filled))
  BY Zenon DEF SweepStep
<1>2. remaining # 0
  BY <1>1
<1> QED BY <1>1, <1>2

LEMMA SweepIsStep ==
  ASSUME Shape, Sim!Sweep
  PROVE  \E ord \in Orders, s0 \in Sides : \E p0, filled : SweepStep(ord, s0, p0, filled)
<1>1. PICK ord \in Orders : call = {ord} /\ Sim!CanMatch(ord)
  BY DEF Shape, Sim!Sweep, None
<1> DEFINE s0 == Opposite(ord.side)
           p0 == BestOf(s0, DOMAIN resting[s0])
           filled == IF remaining < resting[s0][p0].qty THEN remaining ELSE resting[s0][p0].qty
<1>2. s0 \in Sides
  BY DEF Opposite
<1>3. DOMAIN resting[s0] # {} /\ remaining > 0 /\ ord.action = New
  BY <1>1, SimOperators DEF Sim!CanMatch, Sim!New, New
<1>4. p0 \in DOMAIN resting[s0]
  BY <1>2, <1>3, RestingTypes, BestIsBest
<1>5. SweepStep(ord, s0, p0, filled)
  BY ZenonT(60), <1>1, <1>2, <1>3, <1>4, SimOperators
     DEF Sim!Sweep, Sim!Report, Sim!Fill, Fill, SweepStep, SweepReport, Sim!CanMatch, Sim!Marketable
<1> QED BY <1>2, <1>5

\* What Append does to a sequence, and push_back to a fixed array.
LEMMA AppendIs ==
  ASSUME NEW S, NEW a \in Seq(S), NEW x \in S
  PROVE  /\ Append(a, x) \in Seq(S) /\ Len(Append(a, x)) = Len(a) + 1
         /\ \A n \in 1 .. Len(a) : Append(a, x)[n] = a[n]
         /\ Append(a, x)[Len(a) + 1] = x
OBVIOUS

LEMMA PushBackIs ==
  ASSUME NEW S, NEW a \in Seq(S), Len(a) <= kMaxReports, NEW x \in S
  PROVE  /\ PushBack(a, x) \in Seq(S) /\ Len(PushBack(a, x)) <= kMaxReports
         /\ Len(a) <= Len(PushBack(a, x))
         /\ \A n \in DOMAIN PushBack(a, x) :
              \/ n \in DOMAIN a /\ PushBack(a, x)[n] = a[n]
              \/ n = Len(a) + 1 /\ PushBack(a, x)[n] = x
<1>1. CASE Len(a) < kMaxReports
  <2>1. /\ Append(a, x) \in Seq(S) /\ Len(Append(a, x)) = Len(a) + 1
        /\ \A n \in 1 .. Len(a) + 1 :
             Append(a, x)[n] = IF n <= Len(a) THEN a[n] ELSE x
    OBVIOUS
  <2>2. DOMAIN Append(a, x) = 1 .. Len(a) + 1 /\ DOMAIN a = 1 .. Len(a)
    BY <2>1
  <2> QED BY <1>1, <2>1, <2>2 DEF PushBack, kMaxReports
<1>2. CASE ~(Len(a) < kMaxReports)
  BY <1>2 DEF PushBack
<1> QED BY <1>1, <1>2

\* Orders that stay where they were are still tracked.
LEMMA ShrunkKeepsActive ==
  ASSUME Shrunk, RestingIsActive, active' = active
  PROVE  RestingIsActive'
  BY DEF Shrunk, RestingIsActive

LEMMA SweepTypes ==
  ASSUME Shape, NEW ord \in Orders, NEW s0 \in Sides, NEW p0, NEW filled,
         SweepStep(ord, s0, p0, filled)
  PROVE  /\ resting[s0][p0] \in RestingOrders
         /\ filled \in Uint32 /\ remaining' \in Uint32
         /\ SweepReport(ord, p0, filled) \in Reports
         /\ filled < resting[s0][p0].qty => resting[s0][p0].qty - filled \in Uint32 \ {0}
<1>1. p0 \in Uint32 /\ resting[s0][p0] \in RestingOrders
  BY RestingTypes DEF SweepStep
<1>2. remaining \in Uint32 /\ resting[s0][p0].qty \in Uint32
  BY <1>1 DEF Shape, RestingOrders
<1>3. filled \in Uint32 /\ remaining - filled \in Uint32
  <2>1. filled = IF remaining < resting[s0][p0].qty THEN remaining ELSE resting[s0][p0].qty
    BY DEF SweepStep
  <2> QED BY <1>2, <2>1, U32Assumption DEF Uint32
<1>4. ASSUME filled < resting[s0][p0].qty
      PROVE  resting[s0][p0].qty - filled \in Uint32 \ {0}
  BY <1>2, <1>3, <1>4, U32Assumption DEF Uint32
<1>5. SweepReport(ord, p0, filled) \in Reports
  BY <1>1, <1>3 DEF SweepReport, Reports, Orders
<1> QED BY <1>1, <1>3, <1>4, <1>5 DEF SweepStep

LEMMA SweepKeepsBook ==
  ASSUME Shape, RestingIsIndexed, NEW ord \in Orders, NEW s0 \in Sides, NEW p0, NEW filled,
         SweepStep(ord, s0, p0, filled)
  PROVE  /\ Shrunk /\ RestingIsIndexed'
         /\ resting' \in [Sides -> RestingLevels] /\ by_id' \in Indices
         /\ DOMAIN by_id' \subseteq DOMAIN by_id
<1>1. CASE /\ resting' = [resting EXCEPT ![s0] = Restrict(@, DOMAIN @ \ {p0})]
           /\ by_id' = Restrict(by_id, DOMAIN by_id \ {resting[s0][p0].id})
  <2>1. /\ resting[s0][p0].id \in DOMAIN by_id
        /\ by_id[resting[s0][p0].id] = [side |-> s0, price |-> p0]
    BY DEF RestingIsIndexed, Sim!RestingIsIndexed, SweepStep
  <2> QED BY <1>1, <2>1, RemovalKeepsIndex
<1>2. CASE /\ filled < resting[s0][p0].qty
           /\ resting' = [resting EXCEPT ![s0][p0] =
                            [id |-> resting[s0][p0].id, qty |-> resting[s0][p0].qty - filled]]
           /\ by_id' = by_id
  <2>1. resting[s0][p0].qty - filled \in Uint32 \ {0} /\ p0 \in DOMAIN resting[s0]
    BY <1>2, SweepTypes DEF SweepStep
  <2>2. Shrunk /\ RestingIsIndexed' /\ resting' \in [Sides -> RestingLevels]
    BY <1>2, <2>1, ReductionKeepsIndex
  <2> QED BY <1>2, <2>2 DEF Shape
<1> QED BY <1>1, <1>2 DEF SweepStep

LEMMA SweepKeeps ==
  ASSUME IInv, SimSweep
  PROVE  IInv'
<1>0. /\ Shape /\ IdsKnown /\ NeverCrossed /\ RestingIsIndexed /\ RestingIsActive
      /\ InCall /\ AfterCall
  BY DEF IInv
<1>1. PICK ord \in Orders, s0 \in Sides : \E p, f : SweepStep(ord, s0, p, f)
  BY <1>0, SweepIsStep DEF SimSweep
<1>2. PICK p0, filled : SweepStep(ord, s0, p0, filled)
  BY <1>1
<1>3. UNCHANGED gwVars /\ pc = "sim"
  BY DEF SimSweep
<1>4. /\ Shrunk /\ RestingIsIndexed'
      /\ resting' \in [Sides -> RestingLevels] /\ by_id' \in Indices
      /\ DOMAIN by_id' \subseteq DOMAIN by_id
  BY <1>0, <1>2, SweepKeepsBook
<1>5. NeverCrossed' /\ Sim!RestingIds' \subseteq Sim!RestingIds
  BY <1>0, <1>4, ShrunkKeeps
<1>6. RestingIsActive'
  BY <1>0, <1>3, <1>4, ShrunkKeepsActive DEF gwVars
<1> DEFINE rep == SweepReport(ord, p0, filled)
<1>7. remaining' \in Uint32 /\ rep \in Reports
  BY <1>0, <1>2, SweepTypes
<1>8. reports \in Seq(Reports) /\ Len(reports) <= kMaxReports /\ reports' = PushBack(reports, rep)
  BY <1>0, <1>2 DEF Shape, SweepStep
<1>9. /\ reports' \in Seq(Reports) /\ Len(reports') <= kMaxReports
      /\ Len(reports) <= Len(reports')
      /\ \A n \in DOMAIN reports' :
           \/ n \in DOMAIN reports /\ reports'[n] = reports[n]
           \/ reports'[n] = rep
  <2> HIDE DEF rep
  <2> QED BY <1>7, <1>8, PushBackIs
<1>10. call = {ord} /\ call' = {ord}
  BY <1>2 DEF SweepStep
<1>11. Shape'
  <2>1. handled' \in 0 .. Len(reports')
    BY <1>0, <1>3, <1>8, <1>9 DEF Shape, gwVars
  <2> QED BY <1>0, <1>3, <1>4, <1>7, <1>9, <1>10, <2>1 DEF Shape, gwVars
<1>12. IdsKnown'
  BY <1>0, <1>3, <1>4 DEF IdsKnown, ClientIds, gwVars
<1>13. InCall'
  <2>1. ord.id \in DOMAIN active /\ active[ord.id] = ord.side /\ ord.id \notin Sim!RestingIds
    BY <1>0, <1>2, <1>10 DEF InCall, SweepStep
  <2>2. ASSUME NEW n \in DOMAIN reports', Closes(reports'[n])
        PROVE  reports'[n].id = ord.id /\ remaining' = 0
    <3>1. remaining # 0
      BY <1>2, SweepStepTakes
    <3>2. reports'[n] = rep
      BY <1>0, <1>9, <1>10, <2>2, <3>1 DEF InCall
    <3>3. rep.id = ord.id /\ rep.type = Fill /\ rep.remaining = remaining'
      BY <1>2 DEF SweepReport, SweepStep
    <3> QED BY <2>2, <3>2, <3>3 DEF Closes, Fill, Cancelled
  <2>3. ord.action = New
    BY <1>2 DEF SweepStep
  <2> QED BY <1>3, <1>5, <1>10, <2>1, <2>2, <2>3 DEF InCall, gwVars
<1>14. AfterCall'
  BY <1>3 DEF AfterCall, gwVars
<1> QED BY <1>4, <1>5, <1>6, <1>11, <1>12, <1>13, <1>14 DEF IInv
-----------------------------------------------------------------------------
(* The steps outside the matching loop.                                    *)

LEMMA RestingIdsKnown ==
  ASSUME IdsKnown, RestingIsIndexed
  PROVE  /\ Sim!RestingIds \subseteq DOMAIN by_id
         /\ next_order_id \in Nat => next_order_id \notin Sim!RestingIds
<1>1. ASSUME NEW id \in Sim!RestingIds PROVE id \in DOMAIN by_id
  <2>1. PICK s \in Sides : \E p \in DOMAIN resting[s] : id = resting[s][p].id
    BY <1>1, RestingIdsAre, Zenon
  <2> QED BY ZenonT(60), <2>1 DEF RestingIsIndexed, Sim!RestingIsIndexed
<1>2. next_order_id \in Nat => next_order_id \notin ClientIds
  BY DEF ClientIds
<1> QED BY <1>1, <1>2 DEF IdsKnown

\* What a step keeps that leaves the simulator's book alone.
LEMMA BookUnchanged ==
  ASSUME NeverCrossed, RestingIsIndexed, resting' = resting, by_id' = by_id
  PROVE  NeverCrossed' /\ RestingIsIndexed' /\ Sim!RestingIds' = Sim!RestingIds
<1>1. NeverCrossed'
  BY DEF NeverCrossed, Sim!NeverCrossed
<1>2. RestingIsIndexed'
  BY DEF RestingIsIndexed, Sim!RestingIsIndexed
<1>3. Sim!RestingIds' = Sim!RestingIds
  BY DEF Sim!RestingIds
<1> QED BY <1>1, <1>2, <1>3

\* The report array after Submit: the Ack alone.
LEMMA AckOnly ==
  ASSUME NEW ord \in Orders, Sim!Submit(ord)
  PROVE  /\ call' = {ord} /\ remaining' \in Uint32
         /\ reports' \in Seq(Reports) /\ Len(reports') = 1
         /\ \A n \in DOMAIN reports' : ~Closes(reports'[n])
         /\ resting' = resting /\ by_id' = by_id
<1> DEFINE ack == [id |-> ord.id, type |-> Ack, filled |-> 0,
                   remaining |-> ord.qty, price |-> 0]
<1>1. 0 \in Uint32
  BY U32Assumption DEF Uint32
<1>2. ack \in Reports /\ ~Closes(ack)
  BY <1>1 DEF Orders, Reports, Closes, Ack, Fill, Cancelled
<1>3. reports' = <<ack>>
  BY DEF Sim!Submit, Sim!Report, Sim!Ack, Ack
<1>4. reports' \in Seq(Reports) /\ Len(reports') = 1 /\ \A n \in DOMAIN reports' : reports'[n] = ack
  BY <1>2, <1>3
<1> QED BY <1>2, <1>4 DEF Sim!Submit, Orders

LEMMA SubmitNewKeeps ==
  ASSUME IInv, NEW i, i.side \in Sides, i.price \in Uint32, i.qty \in Uint32, SubmitNew(i)
  PROVE  IInv'
<1>0. /\ Shape /\ IdsKnown /\ NeverCrossed /\ RestingIsIndexed /\ RestingIsActive
  BY DEF IInv
<1> DEFINE ord == [id |-> next_order_id, side |-> i.side, price |-> i.price,
                   qty |-> i.qty, action |-> New]
<1>1. ord \in Orders /\ next_order_id \in Nat \ {0}
  BY <1>0 DEF Orders, Shape
<1>2. Sim!Submit(ord)
  BY DEF SubmitNew
<1>3. /\ call' = {ord} /\ remaining' \in Uint32
      /\ reports' \in Seq(Reports) /\ Len(reports') = 1
      /\ \A n \in DOMAIN reports' : ~Closes(reports'[n])
      /\ resting' = resting /\ by_id' = by_id
  <2> HIDE DEF ord
  <2> QED BY <1>1, <1>2, AckOnly
<1>4. /\ active' = [id \in DOMAIN active \cup {next_order_id} |->
                      IF id = next_order_id THEN i.side ELSE active[id]]
      /\ next_order_id' = next_order_id + 1 /\ pc' = "sim" /\ handled' = 0
  BY DEF SubmitNew, Enter
<1>5. NeverCrossed' /\ RestingIsIndexed' /\ Sim!RestingIds' = Sim!RestingIds
  BY <1>0, <1>3, BookUnchanged
<1>6. next_order_id \notin Sim!RestingIds
  BY <1>0, <1>1, RestingIdsKnown
<1>7. active' \in ActiveMaps
  <2>1. active \in ActiveMaps
    BY <1>0 DEF Shape
  <2> QED BY <1>1, <1>4, <2>1, PartialMapPut DEF ActiveMaps
<1>8. Shape'
  BY <1>0, <1>1, <1>3, <1>4, <1>7 DEF Shape, kMaxReports, None
<1>9. IdsKnown'
  BY <1>0, <1>1, <1>3, <1>4 DEF IdsKnown, ClientIds
<1>10. RestingIsActive'
  <2>1. ASSUME NEW s \in Sides, NEW p \in DOMAIN resting[s]
        PROVE  resting[s][p].id # next_order_id
    BY <1>6, <2>1, RestingIdsAre
  <2> QED BY <1>0, <1>3, <1>4, <2>1 DEF RestingIsActive
<1>11. InCall'
  <2>1. ord.id \in DOMAIN active' /\ active'[ord.id] = ord.side /\ ord.id \notin Sim!RestingIds'
    BY <1>4, <1>5, <1>6
  <2> QED BY <1>3, <2>1 DEF InCall
<1>12. AfterCall'
  BY <1>4 DEF AfterCall
<1> QED BY <1>5, <1>8, <1>9, <1>10, <1>11, <1>12 DEF IInv

LEMMA SubmitCancelKeeps ==
  ASSUME IInv, NEW i, i.orig \in Nat, i.side \in Sides, i.price \in Uint32,
         i.qty \in Uint32, SubmitCancel(i)
  PROVE  IInv'
<1>0. /\ Shape /\ IdsKnown /\ NeverCrossed /\ RestingIsIndexed /\ RestingIsActive
  BY DEF IInv
<1> DEFINE ord == [id |-> i.orig, side |-> i.side, price |-> i.price,
                   qty |-> i.qty, action |-> Cancel]
<1>1. ord \in Orders
  BY DEF Orders
<1>2. Sim!Submit(ord)
  BY DEF SubmitCancel
<1>3. /\ call' = {ord} /\ remaining' \in Uint32
      /\ reports' \in Seq(Reports) /\ Len(reports') = 1
      /\ \A n \in DOMAIN reports' : ~Closes(reports'[n])
      /\ resting' = resting /\ by_id' = by_id
  <2> HIDE DEF ord
  <2> QED BY <1>1, <1>2, AckOnly
<1>4. active' = active /\ next_order_id' = next_order_id /\ pc' = "sim" /\ handled' = 0
  BY DEF SubmitCancel, Enter
<1>5. NeverCrossed' /\ RestingIsIndexed' /\ Sim!RestingIds' = Sim!RestingIds
  BY <1>0, <1>3, BookUnchanged
<1>6. Shape'
  BY <1>0, <1>1, <1>3, <1>4 DEF Shape, kMaxReports, None
<1>7. IdsKnown' /\ RestingIsActive'
  BY <1>0, <1>3, <1>4 DEF IdsKnown, ClientIds, RestingIsActive
<1>8. InCall'
  BY <1>3 DEF InCall, Cancel, New
<1>9. AfterCall'
  BY <1>4 DEF AfterCall
<1> QED BY <1>5, <1>6, <1>7, <1>8, <1>9 DEF IInv

LEMMA ProcessReportKeeps ==
  ASSUME IInv, ProcessReport
  PROVE  IInv'
<1>0. /\ Shape /\ IdsKnown /\ NeverCrossed /\ RestingIsIndexed /\ RestingIsActive
      /\ AfterCall
  BY DEF IInv
<1> DEFINE r == reports[handled + 1]
<1>1. /\ pc = "reports" /\ handled < Len(reports) /\ handled' = handled + 1
      /\ active' = ActiveAfter(r)
      /\ UNCHANGED <<simVars, next_order_id, pc, intent>>
  BY DEF ProcessReport
<1>2. handled + 1 \in DOMAIN reports /\ handled' \in 0 .. Len(reports)
  BY <1>0, <1>1 DEF Shape
<1>3. call = None /\ call' = None
  BY <1>0, <1>1 DEF Shape, simVars
<1>4. NeverCrossed' /\ RestingIsIndexed' /\ Sim!RestingIds' = Sim!RestingIds
  BY <1>0, <1>1, BookUnchanged DEF simVars
<1>5. /\ active' \in ActiveMaps
      /\ DOMAIN active' \subseteq DOMAIN active
      /\ \A id \in DOMAIN active :
           ~(Closes(r) /\ id = r.id) => id \in DOMAIN active' /\ active'[id] = active[id]
  <2>1. active \in ActiveMaps
    BY <1>0 DEF Shape
  <2>2. CASE Closes(r)
    <3>1. active' = Restrict(active, DOMAIN active \ {r.id})
      BY <1>1, <2>2 DEF ActiveAfter, Forget, Closes
    <3>2. /\ active' \in ActiveMaps /\ DOMAIN active' = DOMAIN active \ {r.id}
          /\ \A id \in DOMAIN active \ {r.id} : active'[id] = active[id]
      <4> HIDE DEF r
      <4> QED BY <2>1, <3>1, ActiveRestrict, Zenon
    <3> QED BY <2>2, <3>2
  <2>3. CASE ~Closes(r)
    BY <1>1, <2>1, <2>3 DEF ActiveAfter, Closes
  <2> QED BY <2>2, <2>3
<1>6. RestingIsActive'
  <2>1. ASSUME NEW s \in Sides, NEW p \in DOMAIN resting[s]
        PROVE  ~(Closes(r) /\ resting[s][p].id = r.id)
    <3>1. resting[s][p].id \in Sim!RestingIds
      BY <2>1, RestingIdsAre
    <3> QED BY <1>0, <1>1, <1>2, <3>1 DEF AfterCall
  <2> QED BY <1>0, <1>1, <1>5, <2>1 DEF RestingIsActive, simVars
<1>7. Shape'
  BY <1>0, <1>1, <1>2, <1>3, <1>5 DEF Shape, simVars
<1>8. IdsKnown'
  BY <1>0, <1>1, <1>5 DEF IdsKnown, ClientIds, simVars
<1>9. InCall'
  BY <1>3 DEF InCall, None
<1>10. AfterCall'
  BY <1>0, <1>1, <1>4 DEF AfterCall, simVars
<1> QED BY <1>4, <1>6, <1>7, <1>8, <1>9, <1>10 DEF IInv

\* A step that only moves pc from "reports" to "idle", or changes nothing.
LEMMA IdleKeeps ==
  ASSUME IInv, UNCHANGED <<simVars, active, next_order_id, handled>>,
         pc' = pc \/ (pc = "reports" /\ pc' = "idle")
  PROVE  IInv'
<1>0. /\ Shape /\ IdsKnown /\ NeverCrossed /\ RestingIsIndexed /\ RestingIsActive
      /\ InCall /\ AfterCall
  BY DEF IInv
<1>1. NeverCrossed' /\ RestingIsIndexed' /\ Sim!RestingIds' = Sim!RestingIds
  BY <1>0, BookUnchanged DEF simVars
<1>2. Shape'
  BY <1>0 DEF Shape, simVars
<1>3. IdsKnown' /\ RestingIsActive'
  BY <1>0 DEF IdsKnown, ClientIds, RestingIsActive, simVars
<1>4. InCall' /\ AfterCall'
  BY <1>0, <1>1 DEF InCall, AfterCall, simVars
<1> QED BY <1>1, <1>2, <1>3, <1>4 DEF IInv
-----------------------------------------------------------------------------
(* The simulator returns.                                                  *)

\* Not being able to match is having nothing, or nothing good enough, opposite.
LEMMA CannotMatch ==
  ASSUME Shape, NEW ord \in Orders, ord.action = New, remaining > 0, ~Sim!CanMatch(ord)
  PROVE  /\ ord.side = Bid => \A a \in DOMAIN resting[Ask] : ord.price < a
         /\ ord.side = Ask => \A b \in DOMAIN resting[Bid] : b < ord.price
<1> DEFINE opp == Opposite(ord.side)
           P == DOMAIN resting[opp]
<1>1. opp \in Sides /\ ord.side \in Sides /\ ord.price \in Uint32
  BY DEF Opposite, Orders
<1>2. P \in SUBSET Uint32
  BY <1>1, RestingTypes
<1>3. P = {} \/ Better(ord.side, BestOf(opp, P), ord.price)
  BY SimOperators DEF Sim!CanMatch, Sim!Marketable, Sim!New, New
<1>4. P # {} => BestOf(opp, P) \in P /\ \A q \in P : ~Better(opp, q, BestOf(opp, P))
  <2> HIDE DEF P, opp
  <2> QED BY <1>1, <1>2, BestIsBest
<1>5. \A q \in P : q \in Nat
  BY <1>2, U32Assumption DEF Uint32
<1>6. ord.price \in Nat
  BY <1>1, U32Assumption DEF Uint32
<1>7. \A q \in P : Better(ord.side, q, ord.price)
  <2>1. SUFFICES ASSUME NEW q \in P PROVE Better(ord.side, q, ord.price)
    OBVIOUS
  <2>2. PICK b \in P : Better(ord.side, b, ord.price) /\ ~Better(opp, q, b)
    BY <1>3, <1>4
  <2> QED BY <1>1, <1>5, <1>6, <2>2 DEF Better, Opposite
<1> QED BY <1>7 DEF Better, Opposite

\* What is left of a new order that does not rest yet rests.
LEMMA RestKeepsBook ==
  ASSUME Shape, NeverCrossed, RestingIsIndexed, NEW ord \in Orders,
         ord.action = New, remaining > 0, ~Sim!CanMatch(ord), ord.id \notin Sim!RestingIds,
         resting' = [resting EXCEPT ![ord.side] = Sim!RestOn(ord)],
         by_id' = Sim!Index(ord)
  PROVE  /\ resting' \in [Sides -> RestingLevels] /\ by_id' \in Indices
         /\ DOMAIN by_id' = DOMAIN by_id \cup {ord.id}
         /\ NeverCrossed' /\ RestingIsIndexed'
         /\ \A s \in Sides : \A p \in DOMAIN resting'[s] :
              \/ s = ord.side /\ resting'[s][p].id = ord.id
              \/ p \in DOMAIN resting[s] /\ resting'[s][p] = resting[s][p]
<1> DEFINE s0 == ord.side
           o == [id |-> ord.id, qty |-> remaining]
           e == [side |-> ord.side, price |-> ord.price]
<1>1. /\ s0 \in Sides /\ ord.price \in Uint32 /\ ord.id \in Nat
      /\ o \in RestingOrders /\ e \in IndexEntries
  BY DEF Orders, RestingOrders, IndexEntries, Shape
<1>2. resting \in [Sides -> RestingLevels] /\ resting[s0] \in RestingLevels /\ by_id \in Indices
  BY <1>1, RestingTypes DEF Shape
<1>3. Sim!RestOn(ord) = [p \in DOMAIN resting[s0] \cup {ord.price} |->
                           IF p = ord.price THEN o ELSE resting[s0][p]]
  BY DEF Sim!RestOn
<1>4. Sim!RestOn(ord) \in RestingLevels
  <2> HIDE DEF o, s0
  <2> QED BY <1>1, <1>2, <1>3, PartialMapPut DEF RestingLevels
<1>5. resting' \in [Sides -> RestingLevels]
  BY <1>1, <1>2, <1>4
<1>6. by_id' = [id \in DOMAIN by_id \cup {ord.id} |-> IF id = ord.id THEN e ELSE by_id[id]]
  BY DEF Sim!Index
<1>7. by_id' \in Indices
  <2> HIDE DEF e
  <2> QED BY <1>1, <1>2, <1>6, PartialMapPut DEF Indices
<1>8. ASSUME NEW s \in Sides, NEW p \in DOMAIN resting'[s]
      PROVE  \/ s = s0 /\ p = ord.price /\ resting'[s][p] = o
             \/ p \in DOMAIN resting[s] /\ resting'[s][p] = resting[s][p]
  <2>1. CASE s = s0
    <3>1. resting'[s] = [x \in DOMAIN resting[s] \cup {ord.price} |->
                           IF x = ord.price THEN o ELSE resting[s][x]]
      <4>1. resting'[s] = Sim!RestOn(ord)
        BY <1>1, <1>2, <2>1
      <4> QED BY <1>3, <2>1, <4>1
    <3> QED BY <1>8, <2>1, <3>1
  <2>2. CASE s # s0
    BY <1>2, <1>8, <2>2
  <2> QED BY <2>1, <2>2
<1>9. NeverCrossed'
  <2>1. SUFFICES ASSUME NEW b \in DOMAIN resting'[Bid], NEW a \in DOMAIN resting'[Ask]
                 PROVE  b < a
    BY DEF NeverCrossed, Sim!NeverCrossed
  <2>2. /\ s0 = Bid => \A x \in DOMAIN resting[Ask] : ord.price < x
        /\ s0 = Ask => \A x \in DOMAIN resting[Bid] : x < ord.price
    BY CannotMatch
  <2>3. /\ b \in DOMAIN resting[Bid] \/ (s0 = Bid /\ b = ord.price)
        /\ a \in DOMAIN resting[Ask] \/ (s0 = Ask /\ a = ord.price)
    BY <1>8
  <2> QED BY <2>2, <2>3 DEF NeverCrossed, Sim!NeverCrossed
<1>10. RestingIsIndexed'
  <2>1. SUFFICES ASSUME NEW s \in Sides, NEW p \in DOMAIN resting'[s]
                 PROVE  /\ resting'[s][p].id \in DOMAIN by_id'
                        /\ by_id'[resting'[s][p].id] = [side |-> s, price |-> p]
    BY DEF RestingIsIndexed, Sim!RestingIsIndexed
  <2>2. CASE s = s0 /\ p = ord.price /\ resting'[s][p] = o
    BY <1>6, <2>2
  <2>3. CASE p \in DOMAIN resting[s] /\ resting'[s][p] = resting[s][p]
    <3>1. resting[s][p].id # ord.id
      BY <2>3, RestingIdsAre
    <3>2. /\ resting[s][p].id \in DOMAIN by_id
          /\ by_id[resting[s][p].id] = [side |-> s, price |-> p]
      BY <2>3 DEF RestingIsIndexed, Sim!RestingIsIndexed
    <3> QED BY <1>6, <2>3, <3>1, <3>2
  <2> QED BY <1>8, <2>2, <2>3
<1> QED BY <1>5, <1>6, <1>7, <1>8, <1>9, <1>10

\* A new order ends: what is left of it, if anything, rests.
LEMMA FinishNewKeeps ==
  ASSUME IInv, SimReturn, NEW ord \in Orders, call = {ord}, Sim!FinishNew(ord)
  PROVE  IInv'
<1>0. /\ Shape /\ IdsKnown /\ NeverCrossed /\ RestingIsIndexed /\ RestingIsActive
      /\ InCall
  BY DEF IInv
<1>1. /\ call' = None /\ remaining' = 0 /\ pc' = "reports"
      /\ UNCHANGED <<active, next_order_id, handled, reports>>
  BY DEF SimReturn, Sim!Finish, Sim!None, None, Sim!FinishNew
<1>2. ord.action = New /\ ~Sim!CanMatch(ord)
  BY DEF Sim!FinishNew, Sim!New, New
<1>3. /\ ord.id \in DOMAIN active /\ active[ord.id] = ord.side
      /\ ord.id \notin Sim!RestingIds
      /\ \A n \in DOMAIN reports :
           Closes(reports[n]) => reports[n].id = ord.id /\ remaining = 0
  BY <1>0, <1>2 DEF InCall
<1>4. remaining' \in Uint32 /\ InCall'
  BY <1>1, U32Assumption DEF Uint32, InCall, None
<1>5. CASE remaining = 0 /\ UNCHANGED <<resting, by_id>>
  <2>1. NeverCrossed' /\ RestingIsIndexed' /\ Sim!RestingIds' = Sim!RestingIds
    BY <1>0, <1>5, BookUnchanged
  <2>2. Shape'
    BY <1>0, <1>1, <1>4, <1>5 DEF Shape
  <2>3. IdsKnown' /\ RestingIsActive'
    BY <1>0, <1>1, <1>5 DEF IdsKnown, ClientIds, RestingIsActive
  <2>4. AfterCall'
    BY <1>1, <1>3, <2>1 DEF AfterCall
  <2> QED BY <1>4, <2>1, <2>2, <2>3, <2>4 DEF IInv
<1>6. CASE /\ remaining > 0
           /\ resting' = [resting EXCEPT ![ord.side] = Sim!RestOn(ord)]
           /\ by_id' = Sim!Index(ord)
  <2>1. /\ resting' \in [Sides -> RestingLevels] /\ by_id' \in Indices
        /\ DOMAIN by_id' = DOMAIN by_id \cup {ord.id}
        /\ NeverCrossed' /\ RestingIsIndexed'
        /\ \A s \in Sides : \A p \in DOMAIN resting'[s] :
             \/ s = ord.side /\ resting'[s][p].id = ord.id
             \/ p \in DOMAIN resting[s] /\ resting'[s][p] = resting[s][p]
    BY <1>0, <1>2, <1>3, <1>6, RestKeepsBook
  <2>2. Shape'
    BY <1>0, <1>1, <1>4, <2>1 DEF Shape
  <2>3. IdsKnown'
    BY <1>0, <1>1, <1>3, <2>1 DEF IdsKnown, ClientIds
  <2>4. RestingIsActive'
    BY <1>0, <1>1, <1>3, <2>1 DEF RestingIsActive
  <2>5. AfterCall'
    BY <1>1, <1>3, <1>6 DEF AfterCall
  <2> QED BY <1>4, <2>1, <2>2, <2>3, <2>4, <2>5 DEF IInv
<1> QED BY <1>5, <1>6 DEF Sim!FinishNew

\* A cancel ends: its order, if the simulator knows it, leaves the book.
LEMMA FinishCancelKeeps ==
  ASSUME IInv, SimReturn, NEW ord \in Orders, call = {ord}, Sim!FinishCancel(ord)
  PROVE  IInv'
<1>0. /\ Shape /\ IdsKnown /\ NeverCrossed /\ RestingIsIndexed /\ RestingIsActive
      /\ InCall
  BY DEF IInv
<1>1. /\ call' = None /\ remaining' = 0 /\ pc' = "reports"
      /\ UNCHANGED <<active, next_order_id, handled>>
  BY DEF SimReturn, Sim!Finish, Sim!None, None
<1>2. ord.action # New
  BY DEF Sim!FinishCancel, Sim!Cancel, New
<1>3. \A n \in DOMAIN reports : ~Closes(reports[n])
  BY <1>0, <1>2 DEF InCall
<1>4. remaining' \in Uint32 /\ InCall'
  BY <1>1, U32Assumption DEF Uint32, InCall, None
<1>5. CASE UNCHANGED <<resting, by_id, reports>>
  <2>1. NeverCrossed' /\ RestingIsIndexed' /\ Sim!RestingIds' = Sim!RestingIds
    BY <1>0, <1>5, BookUnchanged
  <2>2. Shape'
    BY <1>0, <1>1, <1>4, <1>5 DEF Shape
  <2>3. IdsKnown' /\ RestingIsActive'
    BY <1>0, <1>1, <1>5 DEF IdsKnown, ClientIds, RestingIsActive
  <2>4. AfterCall'
    BY <1>3, <1>5 DEF AfterCall
  <2> QED BY <1>4, <2>1, <2>2, <2>3, <2>4 DEF IInv
<1>6. CASE /\ ord.id \in DOMAIN by_id
           /\ resting' = [resting EXCEPT ![by_id[ord.id].side] =
                            Sim!Restrict(@, DOMAIN @ \ {by_id[ord.id].price})]
           /\ by_id' = Sim!Restrict(by_id, DOMAIN by_id \ {ord.id})
           /\ reports' = Sim!PushBack(reports, Sim!Report(ord.id, Sim!Cancelled, 0, 0, 0))
  <2> DEFINE s0 == by_id[ord.id].side
             p0 == by_id[ord.id].price
             rep == Sim!Report(ord.id, Sim!Cancelled, 0, 0, 0)
  <2>1. by_id[ord.id] \in IndexEntries
    BY <1>0, <1>6, IndexApply DEF Shape
  <2>2. s0 \in Sides /\ by_id[ord.id] = [side |-> s0, price |-> p0]
    BY <2>1 DEF IndexEntries
  <2>3. /\ Shrunk /\ RestingIsIndexed'
        /\ resting' \in [Sides -> RestingLevels] /\ by_id' \in Indices
        /\ DOMAIN by_id' \subseteq DOMAIN by_id
        /\ ord.id \notin Sim!RestingIds'
    <3>1. /\ resting' = [resting EXCEPT ![s0] = Restrict(@, DOMAIN @ \ {p0})]
          /\ by_id' = Restrict(by_id, DOMAIN by_id \ {ord.id})
      BY <1>6, SimOperators
    <3> HIDE DEF s0, p0
    <3> QED BY <1>0, <1>6, <2>2, <3>1, RemovalKeepsIndex
  <2>4. NeverCrossed'
    BY <1>0, <2>3, ShrunkKeeps
  <2>5. RestingIsActive'
    BY <1>0, <1>1, <2>3, ShrunkKeepsActive
  <2>6. rep \in Reports /\ rep.id = ord.id
    <3>1. 0 \in Uint32
      BY U32Assumption DEF Uint32
    <3> QED BY <3>1 DEF Reports, Orders, Sim!Report, Sim!Cancelled, Cancelled
  <2>7. reports \in Seq(Reports) /\ Len(reports) <= kMaxReports /\ reports' = PushBack(reports, rep)
    BY <1>0, <1>6, SimOperators DEF Shape
  <2>8. /\ reports' \in Seq(Reports) /\ Len(reports') <= kMaxReports
        /\ Len(reports) <= Len(reports')
        /\ \A n \in DOMAIN reports' :
             \/ n \in DOMAIN reports /\ reports'[n] = reports[n]
             \/ reports'[n] = rep
    <3> HIDE DEF rep
    <3> QED BY <2>6, <2>7, PushBackIs
  <2>9. handled' \in 0 .. Len(reports')
    BY <1>0, <1>1, <2>7, <2>8 DEF Shape
  <2>10. Shape'
    BY <1>0, <1>1, <1>4, <2>3, <2>8, <2>9 DEF Shape
  <2>11. IdsKnown'
    BY <1>0, <1>1, <2>3 DEF IdsKnown, ClientIds
  <2>12. AfterCall'
    BY <1>3, <2>3, <2>6, <2>8 DEF AfterCall
  <2> QED BY <1>4, <2>3, <2>4, <2>5, <2>10, <2>11, <2>12 DEF IInv
<1> QED BY <1>5, <1>6 DEF Sim!FinishCancel

LEMMA SimReturnKeeps ==
  ASSUME IInv, SimReturn
  PROVE  IInv'
<1>1. PICK ord \in Orders : call = {ord}
  BY DEF IInv, Shape, SimReturn, Sim!Finish, None
<1>2. Sim!FinishNew(ord) \/ Sim!FinishCancel(ord)
  BY <1>1 DEF SimReturn, Sim!Finish
<1> QED BY <1>1, <1>2, FinishNewKeeps, FinishCancelKeeps
-----------------------------------------------------------------------------
(* The prices of a call's fills.  A sweep takes the other side's prices    *)
(* from the best on and stops at the order's limit; a price that was taken *)
(* and left is gone, so that what still rests there is worse than every    *)
(* fill so far.  The fills handed back are those of the reports gone       *)
(* through so far, in their order.                                         *)

Intents == [action : {New, Cancel}, side : Sides, price : Uint32, qty : Uint32, orig : Nat]
FillResults == [side : Sides, qty : Uint32, price : Uint32]

Reaches(i, p) == ~Better(i.side, p, i.price)
Worse(i, p, q) == Better(Opposite(i.side), p, q)   \* q is worse than p for the order

\* The order in the simulator is the intent's.
Asked(i) ==
  \A ord \in call :
    /\ ord.action = i.action /\ ord.side = i.side /\ ord.price = i.price
    /\ i.action = New => ord.id = next_order_id - 1

OwnSide(i) ==
  i.action = New /\ next_order_id - 1 \in DOMAIN active => active[next_order_id - 1] = i.side

\* What the report number m says, if it is a fill.
Worsening(i) ==
  \A m \in DOMAIN reports : reports[m].type = Fill =>
    /\ i.action = New /\ reports[m].id = next_order_id - 1 /\ Reaches(i, reports[m].price)
    /\ \A k \in DOMAIN reports : k < m /\ reports[k].type = Fill =>
         Worse(i, reports[k].price, reports[m].price)

StillWorse(i) ==
  \A m \in DOMAIN reports : reports[m].type = Fill =>
    \A p \in DOMAIN resting[Opposite(i.side)] : Worse(i, reports[m].price, p)

\* The fills so far come before the reports not yet gone through.
Unhandled(i) ==
  \A m \in DOMAIN reports : reports[m].type = Fill /\ handled < m =>
    \A n \in DOMAIN fills : Worse(i, fills[n].price, reports[m].price)

GoodFills(i) ==
  \A n \in DOMAIN fills :
    /\ fills[n].side = i.side /\ Reaches(i, fills[n].price)
    /\ \A k \in DOMAIN fills : k < n => Worse(i, fills[k].price, fills[n].price)

PricesInOrder(i) ==
  /\ pc = "sim" => /\ fills = << >> /\ handled = 0 /\ Asked(i)
                   /\ remaining > 0 => StillWorse(i)
  /\ pc # "idle" => Worsening(i) /\ OwnSide(i)
  /\ pc = "reports" => Unhandled(i)
  /\ GoodFills(i)

FillInv ==
  /\ fills \in Seq(FillResults) /\ Len(fills) <= kMaxReports
  /\ \A i \in intent : i \in Intents /\ PricesInOrder(i)

\* Nothing was filled yet: there are no fills, and no report of one.
LEMMA NothingFilled ==
  ASSUME NEW i, fills' = << >>, \A m \in DOMAIN reports' : reports'[m].type # Fill
  PROVE  StillWorse(i)' /\ Worsening(i)' /\ Unhandled(i)' /\ GoodFills(i)'
<1>1. \A n : n \notin DOMAIN fills'
  OBVIOUS
<1> QED BY <1>1 DEF StillWorse, Worsening, Unhandled, GoodFills

LEMMA EnterKeepsFills ==
  ASSUME IInv, NEW i \in Intents,
         \/ SubmitNew(i) /\ i.action = New
         \/ SubmitCancel(i) /\ i.action = Cancel
  PROVE  FillInv'
<1>1. /\ pc' = "sim" /\ intent' = {i} /\ handled' = 0 /\ fills' = << >>
  BY DEF SubmitNew, SubmitCancel, Enter
<1>2. \A m \in DOMAIN reports' : reports'[m].type # Fill
  <2>1. \E x : reports' = <<x>> /\ x.type = Ack
    BY DEF SubmitNew, SubmitCancel, Sim!Submit, Sim!Report, Sim!Ack, Ack
  <2> QED BY <2>1 DEF Ack, Fill
<1>3. Asked(i)' /\ OwnSide(i)'
  <2>1. CASE SubmitNew(i) /\ i.action = New
    <3>1. next_order_id \in Nat
      BY DEF IInv, Shape
    <3>2. /\ next_order_id' - 1 = next_order_id
          /\ call' = {[id |-> next_order_id, side |-> i.side, price |-> i.price,
                       qty |-> i.qty, action |-> New]}
          /\ active' = [id \in DOMAIN active \cup {next_order_id} |->
                          IF id = next_order_id THEN i.side ELSE active[id]]
      BY <2>1, <3>1 DEF SubmitNew, Sim!Submit
    <3> QED BY <2>1, <3>2 DEF Asked, OwnSide
  <2>2. CASE SubmitCancel(i) /\ i.action = Cancel
    <3>1. call' = {[id |-> i.orig, side |-> i.side, price |-> i.price,
                    qty |-> i.qty, action |-> Cancel]}
      BY <2>2 DEF SubmitCancel, Sim!Submit
    <3> QED BY <2>2, <3>1 DEF Asked, OwnSide, New, Cancel
  <2> QED BY <2>1, <2>2
<1>4. PricesInOrder(i)'
  BY <1>1, <1>2, <1>3, NothingFilled DEF PricesInOrder
<1>5. fills' \in Seq(FillResults) /\ Len(fills') <= kMaxReports
  BY <1>1 DEF kMaxReports
<1> QED BY <1>1, <1>4, <1>5 DEF FillInv

\* What is left at the other side's prices is worse than the price just taken.
LEMMA BestIsTakenFirst ==
  ASSUME Shape, NEW i \in Intents, NEW p0 \in DOMAIN resting[Opposite(i.side)],
         p0 = BestOf(Opposite(i.side), DOMAIN resting[Opposite(i.side)])
  PROVE  \A p \in DOMAIN resting[Opposite(i.side)] : p = p0 \/ Worse(i, p0, p)
<1> DEFINE s == Opposite(i.side)
           P == DOMAIN resting[s]
<1>1. s \in Sides /\ i.side \in Sides
  BY DEF Opposite, Intents
<1>2. P \in SUBSET Uint32
  BY <1>1, RestingTypes
<1>3. \A q \in P : ~Better(s, q, p0)
  <2> HIDE DEF P, s
  <2> QED BY <1>1, <1>2, BestIsBest DEF P, s
<1>4. \A q \in P : q \in Nat
  BY <1>2, U32Assumption DEF Uint32
<1> QED BY <1>1, <1>3, <1>4 DEF Better, Worse

LEMMA SweepKeepsFills ==
  ASSUME IInv, FillInv, SimSweep
  PROVE  FillInv'
<1>1. Shape
  BY DEF IInv
<1>2. PICK ord \in Orders, s0 \in Sides : \E p, f : SweepStep(ord, s0, p, f)
  BY <1>1, SweepIsStep DEF SimSweep
<1>3. PICK p0, filled : SweepStep(ord, s0, p0, filled)
  BY <1>2
<1>4. pc = "sim" /\ UNCHANGED <<active, next_order_id, pc, intent, handled, fills>>
  BY DEF SimSweep, gwVars
<1>5. SUFFICES ASSUME NEW i \in intent PROVE PricesInOrder(i)'
  BY <1>4 DEF FillInv
<1>6. /\ i \in Intents /\ fills = << >> /\ handled = 0 /\ Asked(i)
      /\ remaining > 0 => StillWorse(i)
      /\ Worsening(i) /\ OwnSide(i)
  BY <1>4, <1>5 DEF FillInv, PricesInOrder
<1>7. /\ call = {ord} /\ call' = call /\ ord.action = New /\ remaining > 0
      /\ s0 = Opposite(ord.side) /\ p0 = BestOf(s0, DOMAIN resting[s0])
      /\ p0 \in DOMAIN resting[s0] /\ ~Better(ord.side, p0, ord.price)
  BY <1>3 DEF SweepStep
<1>8. /\ i.action = New /\ ord.id = next_order_id - 1
      /\ s0 = Opposite(i.side) /\ Reaches(i, p0)
  BY <1>6, <1>7 DEF Asked, Reaches
<1> DEFINE rep == SweepReport(ord, p0, filled)
<1>9. /\ rep \in Reports /\ rep.type = Fill /\ rep.id = next_order_id - 1 /\ rep.price = p0
  BY <1>1, <1>3, <1>8, SweepTypes DEF SweepReport
<1>10. \A n \in DOMAIN reports' :
         \/ n \in DOMAIN reports /\ reports'[n] = reports[n]
         \/ n = Len(reports) + 1 /\ reports'[n] = rep
  <2>1. reports \in Seq(Reports) /\ Len(reports) <= kMaxReports /\ reports' = PushBack(reports, rep)
    BY <1>1, <1>3 DEF Shape, SweepStep
  <2> HIDE DEF rep
  <2> QED BY <1>9, <2>1, PushBackIs
<1> HIDE DEF rep
<1>11. \A k \in DOMAIN reports : k \in Nat /\ k < Len(reports) + 1
  BY <1>1 DEF Shape
<1>12. Worsening(i)'
  <2> SUFFICES ASSUME NEW m \in DOMAIN reports', reports'[m].type = Fill
               PROVE  /\ reports'[m].id = next_order_id - 1 /\ Reaches(i, reports'[m].price)
                      /\ \A k \in DOMAIN reports' : k < m /\ reports'[k].type = Fill =>
                           Worse(i, reports'[k].price, reports'[m].price)
    BY <1>4, <1>8 DEF Worsening, Reaches, Worse
  <2>1. CASE m \in DOMAIN reports /\ reports'[m] = reports[m]
    <3>1. ASSUME NEW k \in DOMAIN reports', k < m, reports'[k].type = Fill
          PROVE  k \in DOMAIN reports /\ reports'[k] = reports[k]
      BY <1>10, <1>11, <2>1, <3>1
    <3> QED BY <1>6, <2>1, <3>1 DEF Worsening
  <2>2. CASE m = Len(reports) + 1 /\ reports'[m] = rep
    <3>1. ASSUME NEW k \in DOMAIN reports', k < m, reports'[k].type = Fill
          PROVE  Worse(i, reports'[k].price, p0)
      <4>1. k \in DOMAIN reports /\ reports'[k] = reports[k]
        BY <1>10, <2>2, <3>1
      <4> QED BY <1>6, <1>7, <1>8, <3>1, <4>1 DEF StillWorse
    <3> QED BY <1>8, <1>9, <2>2, <3>1
  <2> QED BY <1>10, <2>1, <2>2
<1>13. ASSUME remaining' > 0
       PROVE  StillWorse(i)'
  <2>1. ~(filled < resting[s0][p0].qty)
    <3>1. /\ remaining' = remaining - filled
          /\ filled = IF remaining < resting[s0][p0].qty THEN remaining ELSE resting[s0][p0].qty
      BY <1>3 DEF SweepStep
    <3>2. remaining \in Nat /\ resting[s0][p0].qty \in Nat
      BY <1>1, <1>3, SweepTypes, U32Assumption DEF Shape, Uint32, RestingOrders
    <3> QED BY <1>13, <3>1, <3>2
  <2>2. resting' = [resting EXCEPT ![s0] = Restrict(@, DOMAIN @ \ {p0})]
    BY <1>3, <2>1 DEF SweepStep
  <2>3. DOMAIN resting'[s0] = DOMAIN resting[s0] \ {p0}
    <3>1. resting \in [Sides -> RestingLevels] /\ resting[s0] \in RestingLevels
      BY <1>1, RestingTypes DEF Shape
    <3>2. DOMAIN Restrict(resting[s0], DOMAIN resting[s0] \ {p0}) = DOMAIN resting[s0] \ {p0}
      BY <3>1, LevelRestrict
    <3> QED BY <2>2, <3>1, <3>2
  <2>4. \A p \in DOMAIN resting'[s0] : p \in DOMAIN resting[s0] /\ Worse(i, p0, p)
    BY <1>1, <1>6, <1>7, <1>8, <2>3, BestIsTakenFirst
  <2>5. ASSUME NEW m \in DOMAIN reports', reports'[m].type = Fill, NEW p \in DOMAIN resting'[s0]
        PROVE  Worse(i, reports'[m].price, p)
    <3>1. CASE m \in DOMAIN reports /\ reports'[m] = reports[m]
      BY <1>6, <1>7, <1>8, <2>4, <2>5, <3>1 DEF StillWorse
    <3>2. CASE reports'[m] = rep
      BY <1>9, <2>4, <2>5, <3>2
    <3> QED BY <1>10, <3>1, <3>2
  <2> QED BY <1>8, <2>5 DEF StillWorse, Worse
<1>14. Asked(i)' /\ OwnSide(i)' /\ GoodFills(i)'
  <2>1. \A n : n \notin DOMAIN fills'
    BY <1>4, <1>6
  <2> QED BY <1>4, <1>6, <1>7, <2>1 DEF Asked, OwnSide, GoodFills
<1> QED BY <1>4, <1>6, <1>12, <1>13, <1>14 DEF PricesInOrder

\* The simulator's return adds no fill to the reports.
LEMMA SimReturnKeepsFills ==
  ASSUME IInv, FillInv, SimReturn
  PROVE  FillInv'
<1>1. Shape
  BY DEF IInv
<1>2. /\ pc = "sim" /\ pc' = "reports"
      /\ UNCHANGED <<active, next_order_id, intent, handled, fills>>
  BY DEF SimReturn
<1>3. SUFFICES ASSUME NEW i \in intent PROVE PricesInOrder(i)'
  BY <1>2 DEF FillInv
<1>4. i \in Intents /\ fills = << >> /\ Worsening(i) /\ OwnSide(i)
  BY <1>2, <1>3 DEF FillInv, PricesInOrder
<1>5. \A n \in DOMAIN reports' :
        \/ n \in DOMAIN reports /\ reports'[n] = reports[n]
        \/ reports'[n].type = Cancelled
  <2>1. PICK ord \in Orders : Sim!FinishNew(ord) \/ Sim!FinishCancel(ord)
    BY <1>1 DEF SimReturn, Sim!Finish, Shape, None
  <2> DEFINE rep == Sim!Report(ord.id, Sim!Cancelled, 0, 0, 0)
  <2>2. reports' = reports \/ reports' = PushBack(reports, rep)
    BY <2>1, SimOperators DEF Sim!FinishNew, Sim!FinishCancel
  <2>3. rep \in Reports /\ rep.type = Cancelled
    <3>1. 0 \in Uint32
      BY U32Assumption DEF Uint32
    <3> QED BY <3>1 DEF Reports, Orders, Sim!Report, Sim!Cancelled, Cancelled
  <2> HIDE DEF rep
  <2>4. reports \in Seq(Reports) /\ Len(reports) <= kMaxReports
    BY <1>1 DEF Shape
  <2>5. CASE reports' = PushBack(reports, rep)
    BY <2>3, <2>4, <2>5, PushBackIs
  <2> QED BY <2>2, <2>5
<1>6. Worsening(i)'
  <2>1. \A n \in DOMAIN reports' : reports'[n].type = Fill =>
          n \in DOMAIN reports /\ reports'[n] = reports[n]
    BY <1>5 DEF Fill, Cancelled
  <2> QED BY <1>2, <1>4, <2>1 DEF Worsening, Reaches, Worse
<1>7. \A n : n \notin DOMAIN fills'
  BY <1>2, <1>4
<1> QED BY <1>2, <1>4, <1>6, <1>7 DEF PricesInOrder, OwnSide, Unhandled, GoodFills

\* A fill handed back is that of the report gone through, and worse than those
\* before it.
LEMMA ProcessReportKeepsFills ==
  ASSUME IInv, FillInv, ProcessReport
  PROVE  FillInv'
<1>1. Shape
  BY DEF IInv
<1>2. PICK m0 : m0 = handled + 1
  OBVIOUS
<1> DEFINE r == reports[m0]
           f == [side |-> active[r.id], qty |-> r.filled, price |-> r.price]
<1>3. /\ pc = "reports" /\ handled' = m0
      /\ active' = ActiveAfter(r) /\ fills' = FillsAfter(r)
      /\ UNCHANGED <<reports, next_order_id, pc, intent>>
  BY <1>2 DEF ProcessReport, simVars
<1>4. m0 \in DOMAIN reports /\ r \in Reports /\ handled < m0 /\ handled \in Nat
  <2>1. handled \in 0 .. Len(reports) /\ handled < Len(reports) /\ reports \in Seq(Reports)
    BY <1>1 DEF ProcessReport, Shape
  <2> QED BY <1>2, <2>1
<1>5. DOMAIN reports \subseteq Nat /\ fills \in Seq(FillResults) /\ Len(fills) <= kMaxReports
  BY <1>1 DEF Shape, FillInv
<1>6. CASE ~(r.type = Fill /\ r.id \in DOMAIN active)
  <2>1. fills' = fills
    BY <1>3, <1>6 DEF FillsAfter
  <2> SUFFICES ASSUME NEW i \in intent PROVE PricesInOrder(i)'
    BY <1>3, <2>1 DEF FillInv
  <2>2. Worsening(i) /\ OwnSide(i) /\ Unhandled(i) /\ GoodFills(i)
    BY <1>3 DEF FillInv, PricesInOrder
  <2>3. Worsening(i)' /\ GoodFills(i)'
    BY <1>3, <2>1, <2>2 DEF Worsening, GoodFills, Reaches, Worse
  <2>4. OwnSide(i)'
    BY <1>3, <2>2 DEF OwnSide, ActiveAfter, Forget, Restrict
  <2>5. Unhandled(i)'
    <3>1. \A m \in DOMAIN reports : m0 < m => handled < m
      BY <1>4, <1>5
    <3> QED BY <1>3, <2>1, <2>2, <3>1 DEF Unhandled, Worse
  <2> QED BY <1>3, <2>3, <2>4, <2>5 DEF PricesInOrder
<1>7. CASE r.type = Fill /\ r.id \in DOMAIN active
  <2>1. fills' = PushBack(fills, f)
    BY <1>3, <1>7 DEF FillsAfter
  <2>2. f \in FillResults /\ f.side = active[r.id] /\ f.price = r.price
    <3>1. active[r.id] \in Sides
      BY <1>1, <1>7, PartialMapApply DEF Shape, ActiveMaps
    <3> QED BY <1>4, <3>1 DEF FillResults, Reports
  <2> HIDE DEF f
  <2>3. /\ fills' \in Seq(FillResults) /\ Len(fills') <= kMaxReports
        /\ \A n \in DOMAIN fills' :
             \/ n \in DOMAIN fills /\ fills'[n] = fills[n]
             \/ n = Len(fills) + 1 /\ fills'[n] = f
    BY <1>5, <2>1, <2>2, PushBackIs
  <2>4. \A n \in DOMAIN fills : n \in Nat /\ n < Len(fills) + 1
    BY <1>5
  <2>5. SUFFICES ASSUME NEW i \in intent PROVE PricesInOrder(i)'
    BY <1>3, <2>3 DEF FillInv
  <2>6. Worsening(i) /\ OwnSide(i) /\ Unhandled(i) /\ GoodFills(i)
    BY <1>3 DEF FillInv, PricesInOrder
  <2>7. /\ i.action = New /\ r.id = next_order_id - 1 /\ Reaches(i, r.price)
        /\ \A n \in DOMAIN fills : Worse(i, fills[n].price, r.price)
        /\ \A m \in DOMAIN reports : reports[m].type = Fill /\ m0 < m =>
             Worse(i, r.price, reports[m].price)
    BY <1>4, <1>7, <2>6 DEF Worsening, Unhandled
  <2>8. f.side = i.side
    BY <1>7, <2>2, <2>6, <2>7 DEF OwnSide
  <2>9. Worsening(i)' /\ OwnSide(i)'
    BY <1>3, <2>6 DEF Worsening, Reaches, Worse, OwnSide, ActiveAfter, Forget, Restrict
  <2>10. GoodFills(i)'
    <3> SUFFICES ASSUME NEW n \in DOMAIN fills'
                 PROVE  /\ fills'[n].side = i.side /\ Reaches(i, fills'[n].price)
                        /\ \A k \in DOMAIN fills' : k < n =>
                             Worse(i, fills'[k].price, fills'[n].price)
      BY DEF GoodFills, Reaches, Worse
    <3>1. CASE n \in DOMAIN fills /\ fills'[n] = fills[n]
      <4>1. ASSUME NEW k \in DOMAIN fills', k < n
            PROVE  k \in DOMAIN fills /\ fills'[k] = fills[k]
        BY <2>3, <2>4, <3>1, <4>1
      <4> QED BY <2>6, <3>1, <4>1 DEF GoodFills
    <3>2. CASE n = Len(fills) + 1 /\ fills'[n] = f
      <4>1. ASSUME NEW k \in DOMAIN fills', k < n
            PROVE  k \in DOMAIN fills /\ fills'[k] = fills[k]
        BY <2>3, <3>2, <4>1
      <4> QED BY <2>2, <2>7, <2>8, <3>2, <4>1
    <3> QED BY <2>3, <3>1, <3>2
  <2>11. Unhandled(i)'
    <3> SUFFICES ASSUME NEW m \in DOMAIN reports, reports[m].type = Fill, m0 < m,
                        NEW n \in DOMAIN fills'
                 PROVE  Worse(i, fills'[n].price, reports[m].price)
      BY <1>3 DEF Unhandled, Worse
    <3>1. handled < m
      BY <1>4, <1>5
    <3> QED BY <2>2, <2>3, <2>6, <2>7, <3>1 DEF Unhandled
  <2> QED BY <1>3, <2>9, <2>10, <2>11 DEF PricesInOrder
<1> QED BY <1>6, <1>7

LEMMA OtherStepsKeepFills ==
  ASSUME FillInv, Return \/ UNCHANGED vars
  PROVE  FillInv'
<1>1. /\ UNCHANGED <<resting, call, remaining, reports, active, next_order_id,
                     intent, handled, fills>>
      /\ pc' = pc \/ pc' = "idle"
  BY DEF Return, simVars, vars
<1>2. ASSUME NEW i \in intent PROVE PricesInOrder(i)'
  BY <1>1 DEF FillInv, PricesInOrder, Asked, OwnSide, Worsening, StillWorse, Unhandled,
              GoodFills, Reaches, Worse
<1> QED BY <1>1, <1>2 DEF FillInv
-----------------------------------------------------------------------------
(* The quantities of a new order's call.  What its reports say was filled  *)
(* and what is left to match, or has come to rest, add up to the order;    *)
(* the fills handed back add up to the reports gone through.  For the      *)
(* gateway to make a fill of every such report, the order must stay active *)
(* until the last of them: only the last one closes it.                    *)

ReportQtys == [m \in DOMAIN reports |-> IF reports[m].type = Fill THEN reports[m].filled ELSE 0]
Reported(n) == SumFunctionOnSet(ReportQtys, 1 .. n)
FillQtys == [n \in DOMAIN fills |-> fills[n].qty]

\* No fill is reported after the report that closes the order.
LastCloses ==
  \A m, k \in DOMAIN reports : Closes(reports[m]) /\ m < k => reports[k].type # Fill

ActiveToTheLast ==
  \A m \in DOMAIN reports :
    handled < m /\ reports[m].type = Fill => next_order_id - 1 \in DOMAIN active

\* what is left of the order: to match, or to rest
LeftNow == IF pc = "sim" THEN remaining ELSE RestingQty(next_order_id - 1)

Adds(i) ==
  /\ LeftOnReport \in Nat /\ LeftNow <= LeftOnReport
  /\ Len(reports) < kMaxReports => LeftNow = LeftOnReport
  /\ Reported(Len(reports)) + LeftOnReport = i.qty
  /\ FilledQty = Reported(handled) /\ Len(fills) <= handled
  /\ LastCloses
  /\ pc # "idle" => ActiveToTheLast
  /\ pc = "idle" => handled = Len(reports)

AddInv == \A i \in intent : i.action = New => Adds(i)

\* The order in the simulator has the intent's quantity to begin with; what
\* the reports and the fills sum are naturals.
LEMMA QtysAreNaturals ==
  ASSUME Shape, fills \in Seq(FillResults)
  PROVE  /\ DOMAIN reports = 1 .. Len(reports) /\ Len(reports) \in Nat
         /\ \A m \in 1 .. Len(reports) : ReportQtys[m] \in Nat
         /\ DOMAIN fills = 1 .. Len(fills) /\ Len(fills) \in Nat
         /\ \A n \in 1 .. Len(fills) : FillQtys[n] \in Nat
<1>1. Uint32 \subseteq Nat
  BY U32Assumption DEF Uint32
<1>2. /\ DOMAIN reports = 1 .. Len(reports) /\ Len(reports) \in Nat
      /\ \A m \in 1 .. Len(reports) : reports[m] \in Reports
      /\ DOMAIN fills = 1 .. Len(fills) /\ Len(fills) \in Nat
      /\ \A n \in 1 .. Len(fills) : fills[n] \in FillResults
  BY DEF Shape
<1>3. (\A r \in Reports : r.filled \in Nat) /\ (\A f \in FillResults : f.qty \in Nat)
  BY <1>1 DEF Reports, FillResults
<1> QED BY <1>2, <1>3 DEF ReportQtys, FillQtys

\* The reports and fills are as they were; so are the sums.
LEMMA SameSums ==
  ASSUME UNCHANGED reports, UNCHANGED fills
  PROVE  /\ \A n : Reported(n)' = Reported(n)
         /\ FilledQty' = FilledQty
         /\ LastCloses' = LastCloses
BY DEF Reported, ReportQtys, FilledQty, LastCloses, Closes

LEMMA EnterKeepsSums ==
  ASSUME IInv, NEW i \in Intents,
         \/ SubmitNew(i) /\ i.action = New
         \/ SubmitCancel(i) /\ i.action = Cancel
  PROVE  AddInv'
<1>1. intent' = {i}
  BY DEF SubmitNew, SubmitCancel, Enter
<1>2. CASE i.action = Cancel
  BY <1>1, <1>2 DEF AddInv, New, Cancel
<1>3. CASE SubmitNew(i)
  <2>1. /\ pc' = "sim" /\ handled' = 0 /\ fills' = << >> /\ remaining' = i.qty
        /\ \E x : reports' = <<x>> /\ x.type = Ack /\ x.remaining = i.qty
    BY <1>3 DEF SubmitNew, Enter, Sim!Submit, Sim!Report, Sim!Ack, Ack
  <2>2. /\ DOMAIN reports' = {1} /\ Len(reports') = 1
        /\ reports'[1].type = Ack /\ reports'[1].remaining = i.qty
    BY <2>1
  <2>3. ReportQtys'[1] = 0
    BY <2>2 DEF ReportQtys, Ack, Fill
  <2>4. Reported(1)' = 0 /\ Reported(0)' = 0
    <3>1. 1 .. 1 = {1} /\ 1 .. 0 = {}
      OBVIOUS
    <3> QED BY <2>3, <3>1, SumOfNoneOrOne DEF Reported
  <2>5. FilledQty' = 0 /\ Len(fills') = 0
    <3>1. DOMAIN fills' = {}
      BY <2>1
    <3> QED BY <2>1, <3>1, SumOfNoneOrOne DEF FilledQty
  <2>6. LastCloses' /\ ActiveToTheLast'
    BY <2>2 DEF LastCloses, ActiveToTheLast, Ack, Fill
  <2>7. i.qty \in Nat
    BY U32Assumption DEF Intents, Uint32
  <2>8. LeftOnReport' = i.qty /\ LeftNow' = i.qty
    BY <2>1, <2>2 DEF LeftOnReport, LeftNow
  <2>9. Adds(i)'
    BY <2>1, <2>2, <2>4, <2>5, <2>6, <2>7, <2>8 DEF Adds
  <2> QED BY <1>1, <2>9 DEF AddInv
<1> QED BY <1>2, <1>3

LEMMA SweepKeepsSums ==
  ASSUME IInv, FillInv, AddInv, SimSweep
  PROVE  AddInv'
<1>1. Shape /\ InCall
  BY DEF IInv
<1>2. PICK ord \in Orders, s0 \in Sides : \E p, f : SweepStep(ord, s0, p, f)
  BY <1>1, SweepIsStep DEF SimSweep
<1>3. PICK p0, filled : SweepStep(ord, s0, p0, filled)
  BY <1>2
<1>4. pc = "sim" /\ UNCHANGED <<active, next_order_id, pc, intent, handled, fills>>
  BY DEF SimSweep, gwVars
<1>5. SUFFICES ASSUME NEW i \in intent, i.action = New PROVE Adds(i)'
  BY <1>4 DEF AddInv
<1>6. i \in Intents /\ fills = << >> /\ handled = 0 /\ Asked(i) /\ fills \in Seq(FillResults)
  BY <1>4, <1>5 DEF FillInv, PricesInOrder
<1>7. /\ LeftOnReport \in Nat /\ remaining <= LeftOnReport
      /\ Len(reports) < kMaxReports => remaining = LeftOnReport
      /\ Reported(Len(reports)) + LeftOnReport = i.qty
      /\ FilledQty = Reported(handled) /\ Len(fills) <= handled
      /\ LastCloses
  BY <1>4, <1>5 DEF AddInv, Adds, LeftNow
<1>8. /\ call = {ord} /\ ord.action = New /\ remaining > 0 /\ remaining' = remaining - filled
  BY <1>3 DEF SweepStep
<1> DEFINE rep == SweepReport(ord, p0, filled)
<1>9. /\ rep \in Reports /\ rep.type = Fill /\ rep.filled = filled /\ rep.remaining = remaining - filled
      /\ filled \in Nat /\ remaining \in Nat /\ remaining' \in Nat
  BY <1>1, <1>3, SweepTypes, U32Assumption DEF SweepReport, Shape, Uint32
<1>10. reports \in Seq(Reports) /\ Len(reports) <= kMaxReports /\ reports' = PushBack(reports, rep)
  BY <1>1, <1>3 DEF Shape, SweepStep
<1>11. /\ reports' \in Seq(Reports) /\ Len(reports) <= Len(reports')
       /\ \A n \in DOMAIN reports' :
            \/ n \in DOMAIN reports /\ reports'[n] = reports[n]
            \/ n = Len(reports) + 1 /\ reports'[n] = rep
  <2> HIDE DEF rep
  <2> QED BY <1>9, <1>10, PushBackIs
<1>12. Len(reports) < kMaxReports =>
         Len(reports') = Len(reports) + 1 /\ reports'[Len(reports) + 1] = rep
  <2> HIDE DEF rep
  <2> QED BY <1>9, <1>10, AppendIs DEF PushBack
<1> HIDE DEF rep
<1>13. /\ DOMAIN reports = 1 .. Len(reports) /\ Len(reports) \in Nat
       /\ \A m \in 1 .. Len(reports) : ReportQtys[m] \in Nat
       /\ DOMAIN reports' = 1 .. Len(reports') /\ Len(reports') \in Nat
  BY <1>1, <1>6, <1>11, QtysAreNaturals
<1>14. /\ LeftOnReport' \in Nat /\ remaining' <= LeftOnReport'
       /\ Len(reports') < kMaxReports => remaining' = LeftOnReport'
       /\ Reported(Len(reports))' + LeftOnReport' = i.qty
  <2>1. CASE Len(reports) < kMaxReports
    <3>1. Len(reports') = Len(reports) + 1 /\ reports'[Len(reports) + 1] = rep
      BY <1>12, <2>1
    <3>2. \A m \in 1 .. Len(reports) : ReportQtys'[m] = ReportQtys[m]
      BY <1>11, <1>13, <3>1 DEF ReportQtys
    <3>3. ReportQtys'[Len(reports) + 1] = filled
      BY <1>9, <1>13, <3>1 DEF ReportQtys
    <3>4. \A m \in 1 .. Len(reports) + 1 : ReportQtys'[m] \in Nat
      BY <1>9, <1>13, <3>2, <3>3
    <3>5. /\ SumFunctionOnSet(ReportQtys, 1 .. Len(reports)) \in Nat
          /\ SumFunctionOnSet(ReportQtys', 1 .. Len(reports) + 1) =
               SumFunctionOnSet(ReportQtys, 1 .. Len(reports)) + ReportQtys'[Len(reports) + 1]
      BY <1>13, <3>2, <3>4, SumExtend
    <3>6. Reported(Len(reports)) \in Nat /\ Reported(Len(reports))' = Reported(Len(reports)) + filled
      BY <3>1, <3>3, <3>5 DEF Reported
    <3>7. LeftOnReport' = remaining - filled /\ remaining = LeftOnReport
      BY <1>7, <1>9, <2>1, <3>1 DEF LeftOnReport
    <3> QED BY <1>7, <1>8, <1>9, <3>6, <3>7
  <2>2. CASE ~(Len(reports) < kMaxReports)
    <3>1. reports' = reports
      BY <1>10, <2>2 DEF PushBack
    <3>2. /\ LeftOnReport' = LeftOnReport
          /\ Reported(Len(reports))' = Reported(Len(reports))
      BY <3>1 DEF LeftOnReport, Reported, ReportQtys
    <3> QED BY <1>7, <1>8, <1>9, <2>2, <3>1, <3>2
  <2> QED BY <2>1, <2>2
<1>15. FilledQty' = Reported(handled)' /\ Len(fills') <= handled'
  <2>1. FilledQty' = FilledQty
    BY <1>4 DEF FilledQty
  <2>2. \A f : SumFunctionOnSet(f, 1 .. 0) = 0
    <3>1. 1 .. 0 = {}
      OBVIOUS
    <3> QED BY <3>1, SumOfNoneOrOne
  <2> QED BY <1>4, <1>6, <1>7, <2>1, <2>2 DEF Reported
<1>16. LastCloses'
  <2>1. \A m \in DOMAIN reports : ~Closes(reports[m])
    BY <1>1, <1>8, <1>9 DEF InCall
  <2>2. ASSUME NEW m \in DOMAIN reports', NEW k \in DOMAIN reports', Closes(reports'[m]), m < k
        PROVE  FALSE
    BY <1>11, <1>13, <2>1, <2>2
  <2> QED BY <2>2 DEF LastCloses, Closes
<1>17. ActiveToTheLast'
  <2>1. next_order_id - 1 \in DOMAIN active
    BY <1>1, <1>5, <1>6, <1>8 DEF InCall, Asked
  <2> QED BY <1>4, <2>1 DEF ActiveToTheLast
<1> QED BY <1>4, <1>14, <1>15, <1>16, <1>17 DEF Adds, LeftNow

\* What rests of an order that rests nowhere, and of one that rests in one place.
LEMMA RestingQtyIs ==
  ASSUME NEW id
  PROVE  /\ (\A s \in Sides : \A p \in DOMAIN resting'[s] : resting'[s][p].id # id)
              => RestingQty(id)' = 0
         /\ \A s \in Sides, p \in Uint32 :
              /\ p \in DOMAIN resting'[s]
              /\ resting'[s][p].id = id /\ resting'[s][p].qty \in Nat
              /\ \A t \in Sides : \A q \in DOMAIN resting'[t] :
                   resting'[t][q].id = id => t = s /\ q = p
              => RestingQty(id)' = resting'[s][p].qty
<1> DEFINE own == {sp \in Sides \X Uint32 :
                     sp[2] \in DOMAIN resting'[sp[1]] /\ resting'[sp[1]][sp[2]].id = id}
           f == [sp \in own |-> resting'[sp[1]][sp[2]].qty]
<1>1. RestingQty(id)' = SumFunctionOnSet(f, own)
  BY DEF RestingQty, RestingAs
<1>2. ASSUME \A s \in Sides : \A p \in DOMAIN resting'[s] : resting'[s][p].id # id
      PROVE  own = {}
  BY <1>2
<1>3. ASSUME NEW s \in Sides, NEW p \in Uint32, p \in DOMAIN resting'[s],
             resting'[s][p].id = id, resting'[s][p].qty \in Nat,
             \A t \in Sides : \A q \in DOMAIN resting'[t] :
               resting'[t][q].id = id => t = s /\ q = p
      PROVE  own = {<<s, p>>} /\ f[<<s, p>>] = resting'[s][p].qty
  <2>1. own = {<<s, p>>}
    BY <1>3
  <2> QED BY <2>1
<1> HIDE DEF own, f
<1>4. own = {} => SumFunctionOnSet(f, own) = 0
  BY SumOfNoneOrOne
<1>5. \A x : own = {x} /\ f[x] \in Nat => SumFunctionOnSet(f, own) = f[x]
  BY SumOfNoneOrOne
<1> QED BY <1>1, <1>2, <1>3, <1>4, <1>5

LEMMA SimReturnKeepsSums ==
  ASSUME IInv, FillInv, AddInv, SimReturn
  PROVE  AddInv'
<1>1. Shape /\ InCall
  BY DEF IInv
<1>2. /\ pc = "sim" /\ pc' = "reports" /\ remaining' = 0
      /\ UNCHANGED <<active, next_order_id, intent, handled, fills>>
  BY DEF SimReturn, Sim!Finish
<1>3. SUFFICES ASSUME NEW i \in intent, i.action = New PROVE Adds(i)'
  BY <1>2 DEF AddInv
<1>4. Asked(i)
  BY <1>2, <1>3 DEF FillInv, PricesInOrder
<1>5. PICK ord \in Orders : call = {ord} /\ (Sim!FinishNew(ord) \/ Sim!FinishCancel(ord))
  BY <1>1 DEF SimReturn, Sim!Finish, Shape, None
<1>6. ord.action = New /\ ord.id = next_order_id - 1 /\ Sim!FinishNew(ord)
  BY <1>3, <1>4, <1>5 DEF Asked, Sim!FinishCancel, Sim!Cancel, New
<1>7. ord.side \in Sides /\ ord.price \in Uint32 /\ remaining \in Nat
  BY <1>1, U32Assumption DEF Shape, Orders, Uint32
<1>8. \A s \in Sides : \A p \in DOMAIN resting[s] : resting[s][p].id # ord.id
  BY <1>1, <1>5, <1>6, RestingIdsAre DEF InCall
<1>9. RestingQty(ord.id)' = remaining
  <2>1. CASE remaining = 0 /\ UNCHANGED resting
    BY <1>8, <2>1, RestingQtyIs
  <2>2. CASE remaining > 0 /\ resting' = [resting EXCEPT ![ord.side] = Sim!RestOn(ord)]
    <3>1. resting \in [Sides -> RestingLevels]
      BY <1>1 DEF Shape
    <3>2. /\ \A s \in Sides \ {ord.side} : resting'[s] = resting[s]
          /\ DOMAIN resting'[ord.side] = DOMAIN resting[ord.side] \cup {ord.price}
          /\ resting'[ord.side][ord.price] = [id |-> ord.id, qty |-> remaining]
          /\ \A p \in DOMAIN resting[ord.side] \ {ord.price} :
               resting'[ord.side][p] = resting[ord.side][p]
      BY <1>7, <2>2, <3>1 DEF Sim!RestOn
    <3>3. \A t \in Sides : \A q \in DOMAIN resting'[t] :
            resting'[t][q].id = ord.id => t = ord.side /\ q = ord.price
      BY <1>8, <3>2
    <3>4. /\ ord.price \in DOMAIN resting'[ord.side]
          /\ resting'[ord.side][ord.price].id = ord.id
          /\ resting'[ord.side][ord.price].qty = remaining
      BY <3>2
    <3> QED BY <1>7, <3>3, <3>4, RestingQtyIs
  <2> QED BY <1>6, <2>1, <2>2 DEF Sim!FinishNew
<1>10. UNCHANGED reports
  BY <1>6 DEF Sim!FinishNew
<1>11. /\ \A n : Reported(n)' = Reported(n)
       /\ FilledQty' = FilledQty /\ LastCloses' = LastCloses
  BY <1>2, <1>10, SameSums
<1>12. ActiveToTheLast'
  <2>1. next_order_id - 1 \in DOMAIN active
    BY <1>1, <1>5, <1>6 DEF InCall
  <2> QED BY <1>2, <2>1 DEF ActiveToTheLast
<1>13. Adds(i)
  BY <1>3 DEF AddInv
<1>14. RestingQty(next_order_id - 1)' = remaining
  <2>1. RestingQty(next_order_id - 1)' = RestingQty(ord.id)'
    BY <1>2, <1>6 DEF RestingQty, RestingAs
  <2> QED BY <1>9, <2>1
<1>15. /\ LeftOnReport' \in Nat /\ LeftNow' <= LeftOnReport'
       /\ Len(reports') < kMaxReports => LeftNow' = LeftOnReport'
       /\ Reported(Len(reports))' + LeftOnReport' = i.qty
  <2>1. Reported(Len(reports))' = Reported(Len(reports)) /\ LeftOnReport' = LeftOnReport
    BY <1>10 DEF Reported, ReportQtys, LeftOnReport
  <2>2. LeftNow' = LeftNow
    BY <1>2, <1>14 DEF LeftNow
  <2> QED BY <1>10, <1>13, <2>1, <2>2 DEF Adds
<1>16. FilledQty' = Reported(handled)' /\ Len(fills') <= handled'
  <2>1. Reported(handled)' = Reported(handled)
    BY <1>2, <1>10 DEF Reported, ReportQtys
  <2> QED BY <1>2, <1>11, <1>13, <2>1 DEF Adds
<1> QED BY <1>2, <1>11, <1>12, <1>13, <1>15, <1>16 DEF Adds

\* A report gone through is a fill handed back, of the same quantity, or none.
LEMMA ProcessReportKeepsSums ==
  ASSUME IInv, FillInv, AddInv, ProcessReport
  PROVE  AddInv'
<1>1. Shape /\ fills \in Seq(FillResults)
  BY DEF IInv, FillInv
<1>2. PICK m0 : m0 = handled + 1
  OBVIOUS
<1> DEFINE r == reports[m0]
           f == [side |-> active[r.id], qty |-> r.filled, price |-> r.price]
<1>3. /\ pc = "reports" /\ handled < Len(reports) /\ handled' = m0
      /\ active' = ActiveAfter(r) /\ fills' = FillsAfter(r)
      /\ UNCHANGED <<resting, reports, next_order_id, pc, intent>>
  BY <1>2 DEF ProcessReport, simVars
<1>4. SUFFICES ASSUME NEW i \in intent, i.action = New PROVE Adds(i)'
  BY <1>3 DEF AddInv
<1>5. /\ LeftOnReport \in Nat /\ LeftNow <= LeftOnReport
      /\ Len(reports) < kMaxReports => LeftNow = LeftOnReport
      /\ Reported(Len(reports)) + LeftOnReport = i.qty
      /\ FilledQty = Reported(handled) /\ Len(fills) <= handled
      /\ LastCloses /\ ActiveToTheLast
  BY <1>3, <1>4 DEF AddInv, Adds
<1>6. Worsening(i)
  BY <1>3, <1>4 DEF FillInv, PricesInOrder
<1>7. /\ DOMAIN reports = 1 .. Len(reports) /\ Len(reports) \in Nat
      /\ \A m \in 1 .. Len(reports) : ReportQtys[m] \in Nat
      /\ DOMAIN fills = 1 .. Len(fills) /\ Len(fills) \in Nat
      /\ \A n \in 1 .. Len(fills) : FillQtys[n] \in Nat
  BY <1>1, QtysAreNaturals
<1>8. /\ handled \in Nat /\ m0 \in DOMAIN reports /\ m0 \in 1 .. Len(reports) /\ handled < m0
      /\ \A x \in 1 .. handled + 1 : x \in 1 .. Len(reports)
      /\ Len(reports) <= kMaxReports
  <2>1. handled \in 0 .. Len(reports) /\ Len(reports) <= kMaxReports
    BY <1>1 DEF Shape
  <2> QED BY <1>2, <1>3, <1>7, <2>1
<1>9. SumFunctionOnSet(ReportQtys, 1 .. m0) = Reported(handled) + ReportQtys[m0]
  <2>1. \A x \in 1 .. handled + 1 : ReportQtys[x] \in Nat
    BY <1>7, <1>8
  <2> QED BY <1>2, <1>8, <2>1, SumExtend DEF Reported
<1>10. Reported(handled)' = Reported(handled) + ReportQtys[m0]
  BY <1>3, <1>9 DEF Reported, ReportQtys
<1>11. FilledQty' = Reported(handled)' /\ Len(fills') <= handled'
  <2>1. CASE ~(r.type = Fill)
    <3>1. fills' = fills
      BY <1>3, <2>1 DEF FillsAfter
    <3>2. ReportQtys[m0] = 0
      BY <1>8, <2>1 DEF ReportQtys
    <3>3. FilledQty' = FilledQty
      BY <3>1 DEF FilledQty
    <3>4. Reported(handled) \in Nat
      BY <1>7, <1>8, SumExtend DEF Reported
    <3> QED BY <1>2, <1>3, <1>5, <1>7, <1>8, <1>10, <3>1, <3>2, <3>3, <3>4
  <2>2. CASE r.type = Fill
    <3>1. r.id = next_order_id - 1 /\ r.id \in DOMAIN active
      BY <1>5, <1>6, <1>8, <2>2 DEF Worsening, ActiveToTheLast
    <3>2. f \in FillResults /\ f.qty = r.filled
      <4>1. active[r.id] \in Sides
        BY <1>1, <3>1, PartialMapApply DEF Shape, ActiveMaps
      <4>2. r \in Reports
        BY <1>1, <1>7, <1>8 DEF Shape
      <4> QED BY <4>1, <4>2 DEF FillResults, Reports
    <3>3. Len(fills) < kMaxReports
      BY <1>3, <1>5, <1>7, <1>8 DEF kMaxReports
    <3>4. fills' = Append(fills, f)
      BY <1>3, <2>2, <3>1, <3>3 DEF FillsAfter, PushBack
    <3> HIDE DEF f
    <3>5. /\ fills' \in Seq(FillResults) /\ Len(fills') = Len(fills) + 1
          /\ \A n \in 1 .. Len(fills) : fills'[n] = fills[n]
          /\ fills'[Len(fills) + 1] = f
      BY <1>1, <3>2, <3>4, AppendIs
    <3> HIDE DEF r
    <3>6. /\ DOMAIN fills' = 1 .. Len(fills) + 1
          /\ \A n \in 1 .. Len(fills) : FillQtys'[n] = FillQtys[n]
          /\ FillQtys'[Len(fills) + 1] = r.filled
      <4>1. DOMAIN fills' = 1 .. Len(fills')
        BY <3>5
      <4>2. DOMAIN fills' = 1 .. Len(fills) + 1
        BY <3>5, <4>1
      <4> QED BY <1>7, <3>2, <3>5, <4>2 DEF FillQtys
    <3>7. ReportQtys[m0] = r.filled /\ r.filled \in Nat
      BY <1>7, <1>8, <2>2 DEF ReportQtys, r
    <3>8. \A n \in 1 .. Len(fills) + 1 : FillQtys'[n] \in Nat
      BY <1>7, <3>6, <3>7
    <3>9. SumFunctionOnSet(FillQtys', 1 .. Len(fills) + 1) =
            SumFunctionOnSet(FillQtys, 1 .. Len(fills)) + FillQtys'[Len(fills) + 1]
      BY <1>7, <3>6, <3>8, SumExtend
    <3>10. /\ FilledQty = SumFunctionOnSet(FillQtys, 1 .. Len(fills))
           /\ FilledQty' = SumFunctionOnSet(FillQtys', 1 .. Len(fills) + 1)
      BY <1>7, <3>6 DEF FilledQty, FillQtys
    <3>11. FilledQty' = Reported(handled)'
      BY <1>5, <1>10, <3>6, <3>7, <3>9, <3>10
    <3> QED BY <1>2, <1>3, <1>5, <1>7, <1>8, <3>5, <3>11
  <2> QED BY <2>1, <2>2
<1>12. ActiveToTheLast'
  <2> SUFFICES ASSUME NEW m \in DOMAIN reports, m0 < m, reports[m].type = Fill
               PROVE  next_order_id - 1 \in DOMAIN active'
    BY <1>3 DEF ActiveToTheLast
  <2>1. handled < m
    BY <1>7, <1>8
  <2>2. next_order_id - 1 \in DOMAIN active
    BY <1>5, <2>1 DEF ActiveToTheLast
  <2>3. ~Closes(r)
    BY <1>5, <1>8 DEF LastCloses
  <2> QED BY <1>3, <2>2, <2>3 DEF ActiveAfter, Closes
<1>13. LastCloses'
  BY <1>3, <1>5 DEF LastCloses, Closes
<1>14. /\ LeftOnReport' \in Nat /\ LeftNow' <= LeftOnReport'
       /\ Len(reports') < kMaxReports => LeftNow' = LeftOnReport'
       /\ Reported(Len(reports))' + LeftOnReport' = i.qty
  <2>1. Reported(Len(reports))' = Reported(Len(reports)) /\ LeftOnReport' = LeftOnReport
    BY <1>3 DEF Reported, ReportQtys, LeftOnReport
  <2>2. LeftNow' = LeftNow
    BY <1>3 DEF LeftNow, RestingQty, RestingAs
  <2> QED BY <1>3, <1>5, <2>1, <2>2
<1> QED BY <1>3, <1>11, <1>12, <1>13, <1>14 DEF Adds

LEMMA OtherStepsKeepSums ==
  ASSUME AddInv, Return \/ UNCHANGED vars
  PROVE  AddInv'
<1>1. /\ UNCHANGED <<resting, remaining, reports, active, next_order_id, intent, handled, fills>>
      /\ \/ pc' = pc
         \/ pc = "reports" /\ pc' = "idle" /\ handled = Len(reports)
  BY DEF Return, simVars, vars
<1>2. ASSUME NEW i \in intent, i.action = New PROVE Adds(i)'
  <2>1. Adds(i)
    BY <1>2 DEF AddInv
  <2>2. /\ Reported(Len(reports))' = Reported(Len(reports))
        /\ Reported(handled)' = Reported(handled)
        /\ LeftNow' = LeftNow /\ LeftOnReport' = LeftOnReport
        /\ FilledQty' = FilledQty
    BY <1>1 DEF Reported, ReportQtys, LeftNow, LeftOnReport, RestingQty, RestingAs, FilledQty
  <2>3. LastCloses' = LastCloses /\ ActiveToTheLast' = ActiveToTheLast
    BY <1>1 DEF LastCloses, Closes, ActiveToTheLast
  <2> QED BY <1>1, <2>1, <2>2, <2>3 DEF Adds
<1> QED BY <1>1, <1>2 DEF AddInv
-----------------------------------------------------------------------------
(* The inductive argument, and what follows from it.                       *)

LEMMA InitEstablishes == Init => IInv
<1> SUFFICES ASSUME Init PROVE IInv
  OBVIOUS
<1>1. /\ resting = [s \in Sides |-> [p \in {} |-> 0]] /\ by_id = [id \in {} |-> 0]
      /\ active = [id \in {} |-> Bid] /\ call = None /\ remaining = 0 /\ reports = << >>
      /\ next_order_id = 1 /\ pc = "idle" /\ handled = 0
  BY DEF Init, Sim!Init, Sim!None, None
<1>2. [p \in {} |-> 0] \in RestingLevels /\ by_id \in Indices /\ active \in ActiveMaps
  BY <1>1, PartialMapEmpty DEF RestingLevels, Indices, ActiveMaps
<1>3. DOMAIN by_id = {} /\ DOMAIN active = {} /\ \A s \in Sides : DOMAIN resting[s] = {}
  BY <1>1
<1>4. Shape
  BY <1>1, <1>2, U32Assumption DEF Shape, Uint32, kMaxReports
<1>5. IdsKnown
  BY <1>3 DEF IdsKnown
<1>6. NeverCrossed /\ RestingIsIndexed /\ RestingIsActive
  BY <1>3 DEF NeverCrossed, Sim!NeverCrossed, RestingIsIndexed, Sim!RestingIsIndexed,
              RestingIsActive
<1>7. InCall /\ AfterCall
  BY <1>1 DEF InCall, AfterCall, None
<1> QED BY <1>4, <1>5, <1>6, <1>7 DEF IInv

LEMMA StepKeeps == IInv /\ [Next]_vars => IInv'
<1> SUFFICES ASSUME IInv, [Next]_vars PROVE IInv'
  OBVIOUS
<1>1. CASE Call
  <2>1. CASE \E s \in Sides, p \in OrderPrices, q \in OrderQtys :
               SubmitNew([action |-> New, side |-> s, price |-> p, qty |-> q, orig |-> 0])
    <3>1. PICK s \in Sides, p \in OrderPrices, q \in OrderQtys :
            SubmitNew([action |-> New, side |-> s, price |-> p, qty |-> q, orig |-> 0])
      BY <2>1
    <3>2. p \in Uint32 /\ q \in Uint32
      BY GatewayAssumption
    <3> DEFINE i == [action |-> New, side |-> s, price |-> p, qty |-> q, orig |-> 0]
    <3>3. i.side \in Sides /\ i.price \in Uint32 /\ i.qty \in Uint32 /\ SubmitNew(i)
      BY <3>1, <3>2
    <3> HIDE DEF i
    <3> QED BY <3>3, SubmitNewKeeps
  <2>2. CASE \E id \in 1 .. MaxOrders :
               SubmitCancel([action |-> Cancel, side |-> Bid, price |-> 0, qty |-> 0, orig |-> id])
    <3>1. PICK id \in 1 .. MaxOrders :
            SubmitCancel([action |-> Cancel, side |-> Bid, price |-> 0, qty |-> 0, orig |-> id])
      BY <2>2
    <3> DEFINE i == [action |-> Cancel, side |-> Bid, price |-> 0, qty |-> 0, orig |-> id]
    <3>2. id \in Nat /\ 0 \in Uint32
      BY GatewayAssumption, U32Assumption DEF Uint32
    <3>3. /\ i.orig \in Nat /\ i.side \in Sides /\ i.price \in Uint32 /\ i.qty \in Uint32
          /\ SubmitCancel(i)
      BY <3>1, <3>2
    <3> HIDE DEF i
    <3> QED BY <3>3, SubmitCancelKeeps
  <2> QED BY <1>1, <2>1, <2>2 DEF Call
<1>2. CASE SimSweep
  BY <1>2, SweepKeeps
<1>3. CASE SimReturn
  BY <1>3, SimReturnKeeps
<1>4. CASE ProcessReport
  BY <1>4, ProcessReportKeeps
<1>5. CASE Return
  BY <1>5, IdleKeeps DEF Return
<1>6. CASE UNCHANGED vars
  BY <1>6, IdleKeeps DEF vars, simVars
<1> QED BY <1>1, <1>2, <1>3, <1>4, <1>5, <1>6 DEF Next, Running

LEMMA Inductive == Spec => []IInv
<1> QED BY InitEstablishes, StepKeeps, PTL DEF Spec

\* Client ids are handed out once, and the maps, the reports and the order in
\* hand have the types the code gives them, whatever is sent and cancelled.
THEOREM GatewayTypes == Spec => []TypeOK
<1> QED BY Inductive, InvariantImpliesTypes, PTL

\* The simulator's book is never crossed: submit() lets an order rest only
\* after its sweep has taken every price it reaches.
THEOREM BookNeverCrossed == Spec => []NeverCrossed
<1>1. IInv => NeverCrossed
  BY DEF IInv
<1> QED BY <1>1, Inductive, PTL

\* by_id_ leads from every resting order's id to its side and price, so a
\* cancel of a resting order takes off that order and no other.
THEOREM IndexFindsResting == Spec => []RestingIsIndexed
<1>1. IInv => RestingIsIndexed
  BY DEF IInv
<1> QED BY <1>1, Inductive, PTL

\* Every order that rests in the simulator is in the gateway's active_orders_,
\* on the same side: no report makes the gateway forget an order still open.
THEOREM RestingIsTracked == Spec => []RestingIsActive
<1>1. IInv => RestingIsActive
  BY DEF IInv
<1> QED BY <1>1, Inductive, PTL

LEMMA FillStepKeeps == IInv /\ FillInv /\ [Next]_vars => FillInv'
<1> SUFFICES ASSUME IInv, FillInv, [Next]_vars PROVE FillInv'
  OBVIOUS
<1>1. CASE Call
  <2>1. ASSUME NEW s \in Sides, NEW p \in OrderPrices, NEW q \in OrderQtys,
               SubmitNew([action |-> New, side |-> s, price |-> p, qty |-> q, orig |-> 0])
        PROVE  FillInv'
    <3> DEFINE i == [action |-> New, side |-> s, price |-> p, qty |-> q, orig |-> 0]
    <3>1. i \in Intents /\ i.action = New /\ SubmitNew(i)
      BY <2>1, GatewayAssumption DEF Intents
    <3> HIDE DEF i
    <3> QED BY <3>1, EnterKeepsFills
  <2>2. ASSUME NEW id \in 1 .. MaxOrders,
               SubmitCancel([action |-> Cancel, side |-> Bid, price |-> 0, qty |-> 0, orig |-> id])
        PROVE  FillInv'
    <3> DEFINE i == [action |-> Cancel, side |-> Bid, price |-> 0, qty |-> 0, orig |-> id]
    <3>1. i \in Intents /\ i.action = Cancel /\ SubmitCancel(i)
      <4>1. id \in Nat /\ 0 \in Uint32
        BY GatewayAssumption, U32Assumption DEF Uint32
      <4> QED BY <2>2, <4>1 DEF Intents
    <3> HIDE DEF i
    <3> QED BY <3>1, EnterKeepsFills
  <2> QED BY <1>1, <2>1, <2>2 DEF Call
<1>2. CASE SimSweep
  BY <1>2, SweepKeepsFills
<1>3. CASE SimReturn
  BY <1>3, SimReturnKeepsFills
<1>4. CASE ProcessReport
  BY <1>4, ProcessReportKeepsFills
<1>5. CASE Return \/ UNCHANGED vars
  BY <1>5, OtherStepsKeepFills
<1> QED BY <1>1, <1>2, <1>3, <1>4, <1>5 DEF Next, Running

\* A fill is never worse than its order's limit, and of two fills of one call
\* the later is the worse: the sweep takes the best price first, and what it
\* has taken is gone before the next.
THEOREM FillsAreWithinLimit == Spec => []FillsWithinLimit
<1>1. Init => FillInv
  BY DEF Init, FillInv, None, kMaxReports
<1>2. FillInv => FillsWithinLimit
  <2> SUFFICES ASSUME FillInv, NEW i \in intent, NEW n \in DOMAIN fills
               PROVE  /\ fills[n].side = i.side
                      /\ ~Better(i.side, fills[n].price, i.price)
                      /\ n > 1 => Better(Opposite(i.side), fills[n - 1].price, fills[n].price)
    BY DEF FillsWithinLimit
  <2>1. fills \in Seq(FillResults) /\ GoodFills(i)
    BY DEF FillInv, PricesInOrder
  <2>2. n > 1 => n - 1 \in DOMAIN fills /\ n - 1 < n
    BY <2>1
  <2> QED BY <2>1, <2>2 DEF GoodFills, Reaches, Worse
<1>3. Spec => [](IInv /\ FillInv)
  <2>1. Init => IInv /\ FillInv
    BY <1>1, InitEstablishes
  <2>2. IInv /\ FillInv /\ [Next]_vars => (IInv /\ FillInv)'
    BY StepKeeps, FillStepKeeps
  <2> QED BY <2>1, <2>2, PTL DEF Spec
<1> QED BY <1>2, <1>3, PTL

LEMMA SumStepKeeps == IInv /\ FillInv /\ AddInv /\ [Next]_vars => AddInv'
<1> SUFFICES ASSUME IInv, FillInv, AddInv, [Next]_vars PROVE AddInv'
  OBVIOUS
<1>1. CASE Call
  <2>1. ASSUME NEW s \in Sides, NEW p \in OrderPrices, NEW q \in OrderQtys,
               SubmitNew([action |-> New, side |-> s, price |-> p, qty |-> q, orig |-> 0])
        PROVE  AddInv'
    <3> DEFINE i == [action |-> New, side |-> s, price |-> p, qty |-> q, orig |-> 0]
    <3>1. i \in Intents /\ i.action = New /\ SubmitNew(i)
      BY <2>1, GatewayAssumption DEF Intents
    <3> HIDE DEF i
    <3> QED BY <3>1, EnterKeepsSums
  <2>2. ASSUME NEW id \in 1 .. MaxOrders,
               SubmitCancel([action |-> Cancel, side |-> Bid, price |-> 0, qty |-> 0, orig |-> id])
        PROVE  AddInv'
    <3> DEFINE i == [action |-> Cancel, side |-> Bid, price |-> 0, qty |-> 0, orig |-> id]
    <3>1. i \in Intents /\ i.action = Cancel /\ SubmitCancel(i)
      <4>1. id \in Nat /\ 0 \in Uint32
        BY GatewayAssumption, U32Assumption DEF Uint32
      <4> QED BY <2>2, <4>1 DEF Intents
    <3> HIDE DEF i
    <3> QED BY <3>1, EnterKeepsSums
  <2> QED BY <1>1, <2>1, <2>2 DEF Call
<1>2. CASE SimSweep
  BY <1>2, SweepKeepsSums
<1>3. CASE SimReturn
  BY <1>3, SimReturnKeepsSums
<1>4. CASE ProcessReport
  BY <1>4, ProcessReportKeepsSums
<1>5. CASE Return \/ UNCHANGED vars
  BY <1>5, OtherStepsKeepSums
<1> QED BY <1>1, <1>2, <1>3, <1>4, <1>5 DEF Next, Running

\* When a new order's call returns, the fills handed to the portfolio and what
\* the last report leaves add up to the order's quantity, and no more than that
\* rests, exactly that if the report array has room: nothing is filled twice,
\* lost between the simulator's reports and active_orders_, or rested and filled
\* at once, and what a full array loses is never booked.
THEOREM FillsAndRestAreTheOrder == Spec => []FillsAndRestAddUp
<1>1. Init => FillInv /\ AddInv
  BY DEF Init, FillInv, AddInv, None, kMaxReports
<1>2. AddInv => FillsAndRestAddUp
  <2> SUFFICES ASSUME AddInv, NEW i \in intent, pc = "idle", i.action = New
               PROVE  /\ FilledQty + LeftOnReport = i.qty
                      /\ RestingQty(next_order_id - 1) <= LeftOnReport
                      /\ Len(reports) < kMaxReports =>
                           RestingQty(next_order_id - 1) = LeftOnReport
    BY DEF FillsAndRestAddUp
  <2>1. Adds(i)
    BY DEF AddInv
  <2> QED BY <2>1 DEF Adds, LeftNow
<1>3. Spec => [](IInv /\ FillInv /\ AddInv)
  <2>1. Init => IInv /\ FillInv /\ AddInv
    BY <1>1, InitEstablishes
  <2>2. IInv /\ FillInv /\ AddInv /\ [Next]_vars => (IInv /\ FillInv /\ AddInv)'
    BY StepKeeps, FillStepKeeps, SumStepKeeps
  <2> QED BY <2>1, <2>2, PTL DEF Spec
<1> QED BY <1>2, <1>3, PTL
===============================================================================
