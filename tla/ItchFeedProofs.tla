----------------------------- MODULE ItchFeedProofs -----------------------------
(***************************************************************************)
(* Proofs about ItchFeed: for every set of stocks, prices and quantities,  *)
(* and however many orders the exchange lists, the parser's orders are     *)
(* those of the exchange, the book's are the parser's, and the book's      *)
(* levels are the sums of its orders.                                      *)
(***************************************************************************)
EXTENDS ItchFeed, TypesProofs

ListedOrders == [locate : Locates, raw : RawPrices, qty : Uint32 \ {0}, side : Sides]
KnownOrders == [price : Uint32, qty : Uint32 \ {0}, side : Sides]

Ids == DOMAIN listed \cup DOMAIN known \cup DOMAIN orders \cup diverged

\* Everything that is claimed of one reference number.
ListedAt(x) == x \in DOMAIN listed => listed[x] \in ListedOrders
KnownAt(x) ==
  x \in DOMAIN known =>
    /\ known[x] \in KnownOrders
    /\ x \in DOMAIN listed
    /\ known[x] = [price |-> Parser!TicksOf(listed[x].raw), qty |-> listed[x].qty,
                   side |-> listed[x].side]
    /\ Parser!CheckLocate(listed[x].locate)
BookAt(x) ==
  x \notin diverged /\ x \in DOMAIN known \cup DOMAIN orders =>
    x \in DOMAIN known /\ x \in DOMAIN orders /\ orders[x] = known[x]

\* The inductive invariant.
IInv ==
  /\ next_ref \in Nat \ {0}
  /\ Ids \subseteq 1 .. next_ref - 1
  /\ \A a, b \in parsed : a = b /\ a.type \in {"Add", "Modify", "Cancel", "Trade"}
  /\ \A x \in Ids : ListedAt(x) /\ KnownAt(x) /\ BookAt(x)

LEMMA IInvGivesTypeOK == IInv => TypeOK
BY DEF IInv, TypeOK, Ids, KnownAt, KnownOrders

LEMMA IInvGivesKnownOrdersAreListed == IInv => KnownOrdersAreListed
BY DEF IInv, KnownOrdersAreListed, Ids, KnownAt

LEMMA IInvGivesBookFollowsParser == IInv => BookFollowsParser
BY DEF IInv, BookFollowsParser, Ids, BookAt
-----------------------------------------------------------------------------
(* What the maps look like after an operation.                             *)

\* an order without qty, and a map in which the order id has lost qty, as the
\* exchange, the parser and the book all compute it
Gone(o, qty) == qty >= o.qty
Rest(o, qty) == [o EXCEPT !.qty = o.qty - qty]
Less(m, id, qty) ==
  IF Gone(m[id], qty) THEN Restrict(m, DOMAIN m \ {id})
  ELSE [m EXCEPT ![id] = Rest(m[id], qty)]

LEMMA LessIs ==
  ASSUME NEW m, NEW id \in DOMAIN m, NEW qty
  PROVE  /\ Gone(m[id], qty) => id \notin DOMAIN Less(m, id, qty)
         /\ ~Gone(m[id], qty) => /\ id \in DOMAIN Less(m, id, qty)
                                 /\ Less(m, id, qty)[id] = Rest(m[id], qty)
         /\ \A x : x # id => (x \in DOMAIN Less(m, id, qty) <=> x \in DOMAIN m)
         /\ \A x \in DOMAIN m : x # id => Less(m, id, qty)[x] = m[x]
BY DEF Less, Restrict

LEMMA RestrictIs ==
  ASSUME NEW m, NEW id
  PROVE  /\ DOMAIN Restrict(m, DOMAIN m \ {id}) = DOMAIN m \ {id}
         /\ \A x \in DOMAIN m \ {id} : Restrict(m, DOMAIN m \ {id})[x] = m[x]
BY DEF Restrict
-----------------------------------------------------------------------------
(* What a message does to the book's orders.                               *)

BookIgnores(id) == id \notin DOMAIN orders /\ orders' = orders

LEMMA BookSkips ==
  ASSUME ApplyToBook, parsed' = None
  PROVE  orders' = orders
BY DEF ApplyToBook, None, bookVars

LEMMA BookDoes ==
  ASSUME ApplyToBook, NEW m, parsed' = {m}
  PROVE  \/ m.type = "Add" /\ Book!AddOrder(m.id, m.price, m.qty, m.side)
         \/ m.type = "Modify" /\ Book!ModifyOrder(m.id, m.price, m.qty)
         \/ m.type = "Cancel" /\ Book!CancelOrder(m.id)
         \/ m.type = "Trade" /\ Book!ApplyTrade(m.id, m.qty)
BY DEF ApplyToBook, None

LEMMA BookAdds ==
  ASSUME ApplyToBook, NEW id, NEW p, NEW q, NEW s, id # 0, id \notin DOMAIN orders,
         parsed' = {[type |-> "Add", id |-> id, price |-> p, qty |-> q, side |-> s]}
  PROVE  /\ DOMAIN orders' = DOMAIN orders \cup {id}
         /\ orders'[id] = [price |-> p, qty |-> q, side |-> s]
         /\ \A x \in DOMAIN orders : x # id => orders'[x] = orders[x]
<1> DEFINE m == [type |-> "Add", id |-> id, price |-> p, qty |-> q, side |-> s]
<1>1. m.type = "Add" /\ m.id = id /\ m.price = p /\ m.qty = q /\ m.side = s
  OBVIOUS
<1>2. parsed' = {m}
  OBVIOUS
<1> HIDE DEF m
<1>3. Book!AddOrder(id, p, q, s)
  BY <1>1, <1>2, BookDoes
<1>4. orders' = Book!InsertOrder(id, [price |-> p, qty |-> q, side |-> s])
  BY <1>3 DEF Book!AddOrder
<1> QED BY <1>4 DEF Book!InsertOrder, Book!EmptyKey

LEMMA BookModifies ==
  ASSUME ApplyToBook, NEW id, NEW p, NEW q,
         parsed' = {[type |-> "Modify", id |-> id, price |-> p, qty |-> q]}
  PROVE  DOMAIN orders' = DOMAIN orders /\ \A x \in DOMAIN orders : x # id => orders'[x] = orders[x]
<1> DEFINE m == [type |-> "Modify", id |-> id, price |-> p, qty |-> q]
<1>1. m.type = "Modify" /\ m.id = id /\ m.price = p /\ m.qty = q
  OBVIOUS
<1>2. parsed' = {m}
  OBVIOUS
<1> HIDE DEF m
<1>3. Book!ModifyOrder(id, p, q)
  BY <1>1, <1>2, BookDoes
<1> QED BY <1>3 DEF Book!ModifyOrder, Book!Ignore

LEMMA BookCancels ==
  ASSUME ApplyToBook, NEW id, parsed' = {[type |-> "Cancel", id |-> id]}
  PROVE  \/ BookIgnores(id)
         \/ id \in DOMAIN orders /\ orders' = Restrict(orders, DOMAIN orders \ {id})
<1> DEFINE m == [type |-> "Cancel", id |-> id]
<1>1. m.type = "Cancel" /\ m.id = id /\ parsed' = {m}
  OBVIOUS
<1> HIDE DEF m
<1>2. Book!CancelOrder(id)
  BY <1>1, BookDoes
<1> QED BY <1>2 DEF Book!CancelOrder, Book!Ignore, BookIgnores, Book!Restrict, Restrict

LEMMA BookTrades ==
  ASSUME ApplyToBook, NEW id, NEW q, parsed' = {Parser!TradeOf(id, q)}
  PROVE  \/ BookIgnores(id)
         \/ id \in DOMAIN orders /\ orders' = Less(orders, id, q)
<1> DEFINE m == Parser!TradeOf(id, q)
<1>1. m.type = "Trade" /\ m.id = id /\ m.qty = q
  BY DEF Parser!TradeOf
<1> HIDE DEF m
<1>2. Book!ApplyTrade(id, q)
  BY <1>1, BookDoes DEF m
<1> QED BY <1>2 DEF Book!ApplyTrade, Book!Ignore, Book!OrdersAfterTrade, BookIgnores, Less,
                    Gone, Rest, Book!Restrict, Restrict
-----------------------------------------------------------------------------
(* A step touches the order of its message, and no other.                  *)

SameAt(x) ==
  /\ x \in DOMAIN listed' <=> x \in DOMAIN listed
  /\ x \in DOMAIN listed => listed'[x] = listed[x]
  /\ x \in DOMAIN known' <=> x \in DOMAIN known
  /\ x \in DOMAIN known => known'[x] = known[x]
  /\ x \in DOMAIN orders' <=> x \in DOMAIN orders
  /\ x \in DOMAIN orders => orders'[x] = orders[x]
  /\ x \in diverged' <=> x \in diverged

ParsedType == \A a, b \in parsed : a = b /\ a.type \in {"Add", "Modify", "Cancel", "Trade"}

LEMMA SameIsKept ==
  ASSUME IInv, NEW x, SameAt(x)
  PROVE  ListedAt(x)' /\ KnownAt(x)' /\ BookAt(x)'
<1>1. ListedAt(x) /\ KnownAt(x) /\ BookAt(x)
  BY DEF IInv, Ids, ListedAt, KnownAt, BookAt
<1>2. ListedAt(x)'
  BY <1>1 DEF SameAt, ListedAt
<1>3. KnownAt(x)'
  BY <1>1 DEF SameAt, KnownAt, Parser!CheckLocate, Parser!TicksOf
<1>4. BookAt(x)'
  BY <1>1 DEF SameAt, BookAt
<1> QED BY <1>2, <1>3, <1>4

LEMMA HandedOutStays ==
  ASSUME NEW a \in Nat, NEW b \in Nat, b >= a, NEW x \in 1 .. a - 1
  PROVE  x \in 1 .. b - 1
OBVIOUS

LEMMA StepKeeps ==
  ASSUME IInv, ParsedType', next_ref' \in Nat, next_ref' >= next_ref, NEW T,
         \A x : x \notin T => SameAt(x),
         \A x \in T : /\ x \in 1 .. next_ref' - 1
                      /\ ListedAt(x)' /\ KnownAt(x)' /\ BookAt(x)'
  PROVE  IInv'
<1>1. next_ref \in Nat \ {0} /\ Ids \subseteq 1 .. next_ref - 1
  BY DEF IInv
<1>2. next_ref' \in Nat \ {0}
  BY <1>1
<1>3. ASSUME NEW x \in Ids'
      PROVE  x \in 1 .. next_ref' - 1 /\ ListedAt(x)' /\ KnownAt(x)' /\ BookAt(x)'
  <2>1. CASE x \in T
    BY <2>1
  <2>2. CASE x \notin T
    <3>1. SameAt(x)
      BY <2>2
    <3>2. x \in Ids
      BY <3>1 DEF SameAt, Ids
    <3>3. x \in 1 .. next_ref - 1
      BY <1>1, <3>2
    <3>4. x \in 1 .. next_ref' - 1
      BY <1>1, <3>3, HandedOutStays
    <3> QED BY <3>1, <3>4, SameIsKept
  <2> QED BY <2>1, <2>2
<1> QED BY <1>2, <1>3 DEF IInv, ParsedType

\* The parser takes from its order what the exchange took from its own.
LEMMA BothLess ==
  ASSUME IInv, NEW id \in DOMAIN listed, NEW q \in Uint32 \ {0}, q <= listed[id].qty,
         listed' = Less(listed, id, q),
         \/ id \in DOMAIN known /\ known' = Less(known, id, q)
         \/ id \notin DOMAIN known /\ known' = known
  PROVE  ListedAt(id)' /\ KnownAt(id)'
<1>1. ListedAt(id) /\ KnownAt(id)
  BY DEF IInv, Ids
<1>2. CASE Gone(listed[id], q)
  <2>1. id \notin DOMAIN listed'
    BY <1>2, LessIs
  <2>2. ASSUME id \in DOMAIN known PROVE Gone(known[id], q)
    BY <1>1, <1>2, <2>2 DEF KnownAt, Gone
  <2>3. id \notin DOMAIN known'
    BY <2>2, LessIs
  <2> QED BY <2>1, <2>3 DEF ListedAt, KnownAt
<1>3. CASE ~Gone(listed[id], q)
  <2>1. id \in DOMAIN listed' /\ listed'[id] = Rest(listed[id], q)
    BY <1>3, LessIs
  <2>2. /\ Rest(listed[id], q) \in ListedOrders
        /\ Rest(listed[id], q).qty = listed[id].qty - q
        /\ listed[id].qty - q \in Uint32 \ {0}
        /\ Rest(listed[id], q).raw = listed[id].raw
        /\ Rest(listed[id], q).side = listed[id].side
        /\ Rest(listed[id], q).locate = listed[id].locate
    <3>1. listed[id] \in ListedOrders /\ listed[id].qty - q \in Uint32 \ {0}
      BY <1>1, <1>3, U32Assumption DEF ListedAt, ListedOrders, Uint32, Gone
    <3> QED BY <3>1 DEF Rest, ListedOrders
  <2>3. ASSUME id \in DOMAIN known'
        PROVE  /\ known'[id] \in KnownOrders
               /\ known'[id] = [price |-> Parser!TicksOf(listed[id].raw),
                                qty |-> listed[id].qty - q, side |-> listed[id].side]
               /\ Parser!CheckLocate(listed[id].locate)
    <3>1. id \in DOMAIN known
      BY <2>3
    <3>2. /\ known[id] \in KnownOrders
          /\ known[id] = [price |-> Parser!TicksOf(listed[id].raw), qty |-> listed[id].qty,
                          side |-> listed[id].side]
          /\ Parser!CheckLocate(listed[id].locate)
      BY <1>1, <3>1 DEF KnownAt
    <3>3. ~Gone(known[id], q)
      BY <1>3, <3>2 DEF Gone
    <3>4. known'[id] = Rest(known[id], q)
      BY <3>1, <3>3, LessIs
    <3>5. Rest(known[id], q) = [price |-> Parser!TicksOf(listed[id].raw),
                                qty |-> listed[id].qty - q, side |-> listed[id].side]
      BY <3>2 DEF Rest
    <3>6. Parser!TicksOf(listed[id].raw) \in Uint32 /\ listed[id].side \in Sides
      BY <3>2 DEF KnownOrders
    <3> QED BY <2>2, <3>2, <3>4, <3>5, <3>6 DEF KnownOrders
  <2> QED BY <2>1, <2>2, <2>3 DEF ListedAt, KnownAt, Parser!CheckLocate, Parser!TicksOf
<1> QED BY <1>2, <1>3

\* So does the book, when its order is the parser's.
LEMMA BookLess ==
  ASSUME IInv, NEW id \in DOMAIN listed, NEW q, diverged' = diverged,
         \/ BookIgnores(id)
         \/ id \in DOMAIN orders /\ orders' = Less(orders, id, q),
         \/ id \in DOMAIN known /\ known' = Less(known, id, q)
         \/ id \notin DOMAIN known /\ known' = known
  PROVE  BookAt(id)'
<1>1. BookAt(id)
  BY DEF IInv, Ids
<1>2. CASE id \in diverged
  BY <1>2 DEF BookAt
<1>3. CASE id \notin diverged /\ id \notin DOMAIN known
  <2>1. id \notin DOMAIN orders
    BY <1>1, <1>3 DEF BookAt
  <2> QED BY <1>3, <2>1 DEF BookAt, BookIgnores
<1>4. CASE id \notin diverged /\ id \in DOMAIN known
  <2>1. id \in DOMAIN orders /\ orders[id] = known[id]
    BY <1>1, <1>4 DEF BookAt
  <2>2. known' = Less(known, id, q) /\ orders' = Less(orders, id, q)
    BY <1>4, <2>1 DEF BookIgnores
  <2>3. CASE Gone(known[id], q)
    <3>1. id \notin DOMAIN known' /\ id \notin DOMAIN orders'
      BY <1>4, <2>1, <2>2, <2>3, LessIs
    <3> QED BY <3>1 DEF BookAt
  <2>4. CASE ~Gone(known[id], q)
    <3>1. /\ id \in DOMAIN known' /\ known'[id] = Rest(known[id], q)
          /\ id \in DOMAIN orders' /\ orders'[id] = Rest(orders[id], q)
      BY <1>4, <2>1, <2>2, <2>4, LessIs
    <3> QED BY <2>1, <3>1 DEF BookAt
  <2> QED BY <2>3, <2>4
<1> QED BY <1>2, <1>3, <1>4
-----------------------------------------------------------------------------
(* Each of the exchange's actions keeps the invariant.                     *)

\* what every action starts from
LEMMA AtId ==
  ASSUME IInv, NEW id \in DOMAIN listed
  PROVE  /\ ListedAt(id) /\ KnownAt(id) /\ BookAt(id)
         /\ id \in 1 .. next_ref - 1 /\ id # 0
         /\ listed[id] \in ListedOrders
         /\ id \in DOMAIN known => Parser!CheckLocate(listed[id].locate)
<1>1. id \in Ids /\ id \in 1 .. next_ref - 1 /\ next_ref \in Nat
  BY DEF IInv, Ids
<1>2. ListedAt(id) /\ KnownAt(id) /\ BookAt(id)
  BY <1>1 DEF IInv
<1>3. id # 0
  BY <1>1
<1> QED BY <1>1, <1>2, <1>3 DEF ListedAt, KnownAt

\* The exchange's own arithmetic, q being no more than the order has.
LEMMA LeftIsLess ==
  ASSUME IInv, NEW id \in DOMAIN listed, NEW q \in Qtys, q <= listed[id].qty
  PROVE  Left(id, q) = Less(listed, id, q) /\ q \in Uint32 \ {0}
<1>1. q \in Uint32 \ {0}
  BY FeedAssumption
<1>2. listed[id].qty \in Uint32
  BY AtId DEF ListedOrders
<1>3. Gone(listed[id], q) <=> q = listed[id].qty
  BY <1>1, <1>2, U32Assumption DEF Gone, Uint32
<1>4. [listed EXCEPT ![id].qty = @ - q] = [listed EXCEPT ![id] = Rest(listed[id], q)]
  BY DEF Rest
<1> QED BY <1>1, <1>3, <1>4 DEF Left, Unlist, Less

\* Executions and partial cancels: the exchange and the parser take q off, the
\* book does what is said, and nothing else is touched.
LEMMA ReductionKeeps ==
  ASSUME IInv, NEW id \in DOMAIN listed, NEW q \in Qtys, q <= listed[id].qty,
         listed' = Left(id, q), next_ref' = next_ref, ParsedType',
         \/ id \in DOMAIN known /\ known' = Less(known, id, q)
         \/ id \notin DOMAIN known /\ known' = known,
         \A x : x # id => /\ x \in DOMAIN orders' <=> x \in DOMAIN orders
                          /\ x \in DOMAIN orders => orders'[x] = orders[x],
         diverged \subseteq diverged', diverged' \subseteq diverged \cup {id},
         BookAt(id)'
  PROVE  IInv'
<1>1. listed' = Less(listed, id, q) /\ q \in Uint32 \ {0}
  BY LeftIsLess
<1>2. ListedAt(id)' /\ KnownAt(id)'
  BY <1>1, BothLess
<1>3. ASSUME NEW x, x # id PROVE SameAt(x)
  BY <1>1, <1>3, LessIs DEF SameAt
<1>4. next_ref \in Nat /\ id \in 1 .. next_ref - 1
  BY AtId DEF IInv
<1> DEFINE T == {id}
<1>5. /\ \A x : x \notin T => SameAt(x)
      /\ \A x \in T : /\ x \in 1 .. next_ref' - 1
                      /\ ListedAt(x)' /\ KnownAt(x)' /\ BookAt(x)'
  BY <1>2, <1>3, <1>4
<1> HIDE DEF T
<1>6. next_ref' \in Nat /\ next_ref' >= next_ref
  BY <1>4
<1> QED BY <1>5, <1>6, StepKeeps

\* What the parser hands to the book has one of the types it acts on.
LEMMA SkipGivesType ==
  ASSUME parsed' = None
  PROVE  ParsedType'
BY DEF ParsedType, None

LEMMA OneMessageType ==
  ASSUME NEW m, parsed' = {m}, m.type \in {"Add", "Modify", "Cancel", "Trade"}
  PROVE  ParsedType'
BY DEF ParsedType

LEMMA TradeKeepsType ==
  ASSUME NEW id, NEW q, parsed' = {Parser!TradeOf(id, q)}
  PROVE  ParsedType'
<1>1. Parser!TradeOf(id, q).type = "Trade"
  BY DEF Parser!TradeOf
<1> QED BY <1>1, OneMessageType

LEMMA CancelKeepsType ==
  ASSUME NEW id, parsed' = {[type |-> "Cancel", id |-> id]}
  PROVE  ParsedType'
<1>1. [type |-> "Cancel", id |-> id].type = "Cancel"
  OBVIOUS
<1> QED BY <1>1, OneMessageType

\* The parser's reduction is Less.
LEMMA ReducedIsLess ==
  ASSUME NEW id, NEW q
  PROVE  Parser!Reduced(id, q) = Less(known, id, q)
BY DEF Parser!Reduced, Parser!Erase, Parser!Restrict, Restrict, Less, Gone, Rest

\* A trade touches no other order of the book.
LEMMA TradeTouchesOne ==
  ASSUME NEW id, NEW q, ApplyToBook, parsed' = {Parser!TradeOf(id, q)}
  PROVE  \A x : x # id => /\ x \in DOMAIN orders' <=> x \in DOMAIN orders
                          /\ x \in DOMAIN orders => orders'[x] = orders[x]
BY BookTrades, LessIs DEF BookIgnores

LEMMA ExecutionKeeps ==
  ASSUME IInv, Execution
  PROVE  IInv'
<1>1. PICK id \in DOMAIN listed, q \in Qtys :
        /\ q <= listed[id].qty
        /\ listed' = Left(id, q)
        /\ \/ "E" \in Kinds /\ Parser!Executed(listed[id].locate, id, q)
           \/ "C" \in Kinds /\ Parser!ExecutedWithPrice(listed[id].locate, id, q)
  BY DEF Execution
<1>2. ApplyToBook /\ next_ref' = next_ref /\ diverged' = diverged
  BY DEF Execution
<1>3. \/ id \notin DOMAIN known /\ known' = known /\ parsed' = None
      \/ /\ \/ id \in DOMAIN known /\ known' = Less(known, id, q)
            \/ id \notin DOMAIN known /\ known' = known
         /\ parsed' = {Parser!TradeOf(id, q)}
  BY <1>1, AtId, ReducedIsLess DEF Parser!Executed, Parser!ExecutedWithPrice, Parser!Skip, Parser!None, None
<1>4. CASE id \notin DOMAIN known /\ known' = known /\ parsed' = None
  <2>1. orders' = orders
    BY <1>2, <1>4, BookSkips
  <2>2. BookAt(id)'
    BY <1>2, <1>4, <2>1, AtId DEF BookAt
  <2>3. ParsedType'
    BY <1>4, SkipGivesType
  <2> QED BY <1>1, <1>2, <1>4, <2>1, <2>2, <2>3, ReductionKeeps
<1>5. CASE /\ \/ id \in DOMAIN known /\ known' = Less(known, id, q)
              \/ id \notin DOMAIN known /\ known' = known
           /\ parsed' = {Parser!TradeOf(id, q)}
  <2>1. BookAt(id)'
    BY <1>2, <1>5, BookTrades, BookLess
  <2>2. ParsedType'
    BY <1>5, TradeKeepsType
  <2>3. \A x : x # id => /\ x \in DOMAIN orders' <=> x \in DOMAIN orders
                         /\ x \in DOMAIN orders => orders'[x] = orders[x]
    BY <1>2, <1>5, TradeTouchesOne
  <2> QED BY <1>1, <1>2, <1>5, <2>1, <2>2, <2>3, ReductionKeeps
<1> QED BY <1>3, <1>4, <1>5

\* After a cancel the book does not have the order, and has the others.
LEMMA CancelTouchesOne ==
  ASSUME NEW id, ApplyToBook, parsed' = {[type |-> "Cancel", id |-> id]}
  PROVE  /\ id \notin DOMAIN orders'
         /\ \A x : x # id => /\ x \in DOMAIN orders' <=> x \in DOMAIN orders
                             /\ x \in DOMAIN orders => orders'[x] = orders[x]
<1>1. CASE BookIgnores(id)
  BY <1>1 DEF BookIgnores
<1>2. CASE id \in DOMAIN orders /\ orders' = Restrict(orders, DOMAIN orders \ {id})
  <2>1. DOMAIN orders' = DOMAIN orders \ {id}
    BY <1>2, RestrictIs
  <2>2. \A x \in DOMAIN orders \ {id} : orders'[x] = orders[x]
    BY <1>2, RestrictIs
  <2> QED BY <2>1, <2>2
<1> QED BY <1>1, <1>2, BookCancels

LEMMA PartialCancelKeeps ==
  ASSUME IInv, PartialCancel
  PROVE  IInv'
<1>1. PICK id \in DOMAIN listed, q \in Qtys :
        /\ q <= listed[id].qty
        /\ listed' = Left(id, q)
        /\ Parser!CancelPart(listed[id].locate, id, q)
        /\ diverged' = IF q < listed[id].qty THEN diverged \cup {id} ELSE diverged
  BY DEF PartialCancel
<1>2. ApplyToBook /\ next_ref' = next_ref
  BY DEF PartialCancel
<1>3. \/ id \notin DOMAIN known /\ known' = known /\ parsed' = None
      \/ /\ id \in DOMAIN known /\ known' = Less(known, id, q)
         /\ parsed' = {[type |-> "Cancel", id |-> id]}
  BY <1>1, AtId, ReducedIsLess DEF Parser!CancelPart, Parser!Skip, Parser!None, None
<1>4. diverged \subseteq diverged' /\ diverged' \subseteq diverged \cup {id}
  BY <1>1
<1>5. CASE id \notin DOMAIN known /\ known' = known /\ parsed' = None
  <2>1. orders' = orders
    BY <1>2, <1>5, BookSkips
  <2>2. BookAt(id)'
    BY <1>4, <1>5, <2>1, AtId DEF BookAt
  <2>3. ParsedType'
    BY <1>5, SkipGivesType
  <2> QED BY <1>1, <1>2, <1>4, <1>5, <2>1, <2>2, <2>3, ReductionKeeps
<1>6. CASE /\ id \in DOMAIN known /\ known' = Less(known, id, q)
           /\ parsed' = {[type |-> "Cancel", id |-> id]}
  <2>1. /\ id \notin DOMAIN orders'
        /\ \A x : x # id => /\ x \in DOMAIN orders' <=> x \in DOMAIN orders
                            /\ x \in DOMAIN orders => orders'[x] = orders[x]
    BY <1>2, <1>6, CancelTouchesOne
  <2>2. BookAt(id)'
    <3>1. CASE q < listed[id].qty
      BY <1>1, <3>1 DEF BookAt
    <3>2. CASE ~(q < listed[id].qty)
      <4>1. known[id].qty = listed[id].qty
        <5>1. KnownAt(id)
          BY AtId
        <5>2. known[id] = [price |-> Parser!TicksOf(listed[id].raw), qty |-> listed[id].qty,
                           side |-> listed[id].side]
          BY <1>6, <5>1 DEF KnownAt
        <5> QED BY <5>2
      <4>2. q \in Uint32 /\ listed[id].qty \in Uint32
        BY LeftIsLess, AtId, <1>1 DEF ListedOrders
      <4>3. Gone(known[id], q)
        BY <3>2, <4>1, <4>2, U32Assumption DEF Gone, Uint32
      <4>4. id \notin DOMAIN known'
        BY <1>6, <4>3, LessIs
      <4> QED BY <2>1, <4>4 DEF BookAt
    <3> QED BY <3>1, <3>2
  <2>3. ParsedType'
    BY <1>6, CancelKeepsType
  <2> QED BY <1>1, <1>2, <1>4, <1>6, <2>1, <2>2, <2>3, ReductionKeeps
<1> QED BY <1>3, <1>5, <1>6

LEMMA RememberIsList ==
  ASSUME NEW m, NEW n \in Nat \ {0}, NEW o
  PROVE  Parser!Remember(m, n, o) = List(m, n, o)
BY DEF Parser!Remember, Parser!EmptyKey, List

LEMMA EraseIs ==
  ASSUME NEW m, NEW id
  PROVE  /\ DOMAIN Parser!Erase(m, id) = DOMAIN m \ {id}
         /\ \A x \in DOMAIN m \ {id} : Parser!Erase(m, id)[x] = m[x]
BY DEF Parser!Erase, Parser!Restrict, Restrict

LEMMA DeletionKeeps ==
  ASSUME IInv, Deletion
  PROVE  IInv'
<1>1. PICK id \in DOMAIN listed :
        listed' = Unlist(id) /\ Parser!Delete(listed[id].locate, id)
  BY DEF Deletion
<1>2. ApplyToBook /\ next_ref' = next_ref /\ diverged' = diverged
  BY DEF Deletion
<1>3. \/ id \notin DOMAIN known /\ known' = known /\ parsed' = None
      \/ known' = Parser!Erase(known, id) /\ parsed' = {[type |-> "Cancel", id |-> id]}
  BY <1>1, AtId DEF Parser!Delete, Parser!Skip, Parser!None, None
<1>4. /\ DOMAIN listed' = DOMAIN listed \ {id}
      /\ \A x \in DOMAIN listed \ {id} : listed'[x] = listed[x]
  BY <1>1, RestrictIs DEF Unlist
<1>5. /\ DOMAIN known' = DOMAIN known \ {id}
      /\ \A x \in DOMAIN known \ {id} : known'[x] = known[x]
  <2>1. CASE id \notin DOMAIN known /\ known' = known
    BY <2>1
  <2>2. CASE known' = Parser!Erase(known, id)
    BY <2>2, EraseIs
  <2> QED BY <1>3, <2>1, <2>2
<1>6. /\ ParsedType'
      /\ \A x : x # id => /\ x \in DOMAIN orders' <=> x \in DOMAIN orders
                          /\ x \in DOMAIN orders => orders'[x] = orders[x]
      /\ BookAt(id)'
  <2>1. CASE id \notin DOMAIN known /\ known' = known /\ parsed' = None
    <3>1. orders' = orders
      BY <1>2, <2>1, BookSkips
    <3>2. ParsedType'
      BY <2>1, SkipGivesType
    <3>3. BookAt(id)'
      BY <1>2, <2>1, <3>1, AtId DEF BookAt
    <3> QED BY <3>1, <3>2, <3>3
  <2>2. CASE known' = Parser!Erase(known, id) /\ parsed' = {[type |-> "Cancel", id |-> id]}
    <3>1. /\ id \notin DOMAIN orders'
          /\ \A x : x # id => /\ x \in DOMAIN orders' <=> x \in DOMAIN orders
                              /\ x \in DOMAIN orders => orders'[x] = orders[x]
      BY <1>2, <2>2, CancelTouchesOne
    <3>2. ParsedType'
      BY <2>2, CancelKeepsType
    <3>3. BookAt(id)'
      BY <1>5, <3>1 DEF BookAt
    <3> QED BY <3>1, <3>2, <3>3
  <2> QED BY <1>3, <2>1, <2>2
<1>7. ListedAt(id)' /\ KnownAt(id)'
  BY <1>4, <1>5 DEF ListedAt, KnownAt
<1>8. ASSUME NEW x, x # id PROVE SameAt(x)
  BY <1>2, <1>4, <1>5, <1>6, <1>8 DEF SameAt
<1>9. next_ref \in Nat /\ id \in 1 .. next_ref - 1
  BY AtId DEF IInv
<1> DEFINE T == {id}
<1>10. /\ \A x : x \notin T => SameAt(x)
       /\ \A x \in T : /\ x \in 1 .. next_ref' - 1
                       /\ ListedAt(x)' /\ KnownAt(x)' /\ BookAt(x)'
  BY <1>2, <1>6, <1>7, <1>8, <1>9
<1> HIDE DEF T
<1>11. next_ref' \in Nat /\ next_ref' >= next_ref
  BY <1>2, <1>9
<1> QED BY <1>6, <1>10, <1>11, StepKeeps

\* The next reference number is nobody's yet.
LEMMA NextIsFresh ==
  ASSUME IInv
  PROVE  next_ref \notin Ids /\ next_ref \in Nat \ {0}
<1>1. next_ref \in Nat \ {0} /\ Ids \subseteq 1 .. next_ref - 1
  BY DEF IInv
<1> QED BY <1>1

\* A message about an order that is not displayed: the book has no order 0.
LEMMA HiddenExecutionKeeps ==
  ASSUME IInv, HiddenExecution
  PROVE  IInv'
<1>1. ApplyToBook /\ listed' = listed /\ next_ref' = next_ref /\ diverged' = diverged
  BY DEF HiddenExecution
<1>2. \/ known' = known /\ parsed' = None
      \/ \E q \in Qtys : known' = known /\ parsed' = {Parser!TradeOf(0, q)}
  BY DEF HiddenExecution, Parser!HiddenTrade, Parser!Unsupported, Parser!Skip, Parser!None, None
<1>3. known' = known
  BY <1>2
<1>4. next_ref \in Nat \ {0} /\ Ids \subseteq 1 .. next_ref - 1
  BY DEF IInv
<1>5. 0 \notin DOMAIN orders
  BY <1>4 DEF Ids
<1>6. ParsedType' /\ orders' = orders
  <2>1. CASE parsed' = None
    BY <1>1, <2>1, BookSkips, SkipGivesType
  <2>2. ASSUME NEW q \in Qtys, parsed' = {Parser!TradeOf(0, q)}
        PROVE  ParsedType' /\ orders' = orders
    BY <1>1, <1>5, <2>2, BookTrades, TradeKeepsType DEF BookIgnores
  <2> QED BY <1>2, <2>1, <2>2
<1>7. ASSUME NEW x PROVE SameAt(x)
  BY <1>1, <1>3, <1>6 DEF SameAt
<1> DEFINE T == {}
<1>8. /\ \A x : x \notin T => SameAt(x)
      /\ \A x \in T : /\ x \in 1 .. next_ref' - 1
                      /\ ListedAt(x)' /\ KnownAt(x)' /\ BookAt(x)'
  BY <1>7
<1> HIDE DEF T
<1>9. next_ref' \in Nat /\ next_ref' >= next_ref
  BY <1>1, <1>4
<1> QED BY <1>6, <1>8, <1>9, StepKeeps

\* The exchange's new order, and the parser's and the book's record of it.
LEMMA NewOrderIs ==
  ASSUME NEW l \in Locates, NEW raw \in RawPrices, NEW q \in Qtys, NEW s \in Sides,
         NEW n, NEW o, o = [locate |-> l, raw |-> raw, qty |-> q, side |-> s],
         n \in DOMAIN listed', listed'[n] = o,
         \/ n \notin DOMAIN known'
         \/ /\ Parser!CheckLocate(l)
            /\ known'[n] = [price |-> Parser!TicksOf(raw), qty |-> q, side |-> s]
  PROVE  ListedAt(n)' /\ KnownAt(n)'
<1>1. q \in Uint32 \ {0} /\ Parser!TicksOf(raw) \in Uint32
  BY FeedAssumption
<1>2. o \in ListedOrders
  BY <1>1 DEF ListedOrders
<1>3. o.locate = l /\ o.raw = raw /\ o.qty = q /\ o.side = s
  OBVIOUS
<1>4. ListedAt(n)'
  BY <1>2 DEF ListedAt
<1>5. CASE n \notin DOMAIN known'
  BY <1>5, <1>4 DEF KnownAt
<1>6. CASE /\ Parser!CheckLocate(l)
           /\ known'[n] = [price |-> Parser!TicksOf(raw), qty |-> q, side |-> s]
  <2>1. known'[n] \in KnownOrders
    BY <1>1, <1>6 DEF KnownOrders
  <2>2. known'[n] = [price |-> Parser!TicksOf(listed'[n].raw), qty |-> listed'[n].qty,
                     side |-> listed'[n].side]
    BY <1>3, <1>6
  <2>3. Parser!CheckLocate(listed'[n].locate)
    BY <1>3, <1>6
  <2> QED BY <1>4, <2>1, <2>2, <2>3 DEF KnownAt, Parser!CheckLocate, Parser!TicksOf
<1> QED BY <1>5, <1>6

LEMMA EntryKeeps ==
  ASSUME IInv, Entry
  PROVE  IInv'
<1>0. PICK n : n = next_ref
  OBVIOUS
<1>1. PICK l \in Locates, s \in Sides, q \in Qtys, raw \in RawPrices :
        /\ listed' = List(listed, n, [locate |-> l, raw |-> raw, qty |-> q, side |-> s])
        /\ Parser!Add(l, n, s, q, raw)
  BY <1>0 DEF Entry
<1>2. ApplyToBook /\ next_ref' = n + 1 /\ diverged' = diverged
  BY <1>0 DEF Entry
<1>3. n \in Nat \ {0} /\ n # 0 /\ n \notin Ids
  BY <1>0, NextIsFresh
<1> DEFINE o == [price |-> Parser!TicksOf(raw), qty |-> q, side |-> s]
<1>4. \/ known' = known /\ parsed' = None
      \/ /\ Parser!CheckLocate(l)
         /\ known' = Parser!Remember(known, n, o)
         /\ parsed' = {[type |-> "Add", id |-> n, price |-> Parser!TicksOf(raw),
                        qty |-> q, side |-> s]}
  BY <1>1 DEF Parser!Add, Parser!Skip, Parser!None, None
<1>5. n \in DOMAIN listed' /\ listed'[n] = [locate |-> l, raw |-> raw, qty |-> q, side |-> s]
  BY <1>1 DEF List
<1>6. /\ \A x : x # n => (x \in DOMAIN listed' <=> x \in DOMAIN listed)
      /\ \A x \in DOMAIN listed : x # n => listed'[x] = listed[x]
  BY <1>1 DEF List
<1> HIDE DEF o
<1>7. n \notin DOMAIN known /\ n \notin DOMAIN orders
  BY <1>3 DEF Ids
<1>8. /\ ListedAt(n)' /\ KnownAt(n)' /\ BookAt(n)' /\ ParsedType'
      /\ \A x : x # n => /\ x \in DOMAIN known' <=> x \in DOMAIN known
                         /\ x \in DOMAIN known => known'[x] = known[x]
                         /\ x \in DOMAIN orders' <=> x \in DOMAIN orders
                         /\ x \in DOMAIN orders => orders'[x] = orders[x]
  <2>1. CASE known' = known /\ parsed' = None
    <3>1. orders' = orders
      BY <1>2, <2>1, BookSkips
    <3>2. ListedAt(n)' /\ KnownAt(n)'
      BY <1>5, <1>7, <2>1, NewOrderIs
    <3>3. BookAt(n)'
      BY <1>7, <2>1, <3>1 DEF BookAt
    <3>4. ParsedType'
      BY <2>1, SkipGivesType
    <3> QED BY <2>1, <3>1, <3>2, <3>3, <3>4
  <2>2. CASE /\ Parser!CheckLocate(l)
             /\ known' = Parser!Remember(known, n, o)
             /\ parsed' = {[type |-> "Add", id |-> n, price |-> Parser!TicksOf(raw),
                            qty |-> q, side |-> s]}
    <3>1. known' = List(known, n, o)
      BY <1>3, <2>2, RememberIsList
    <3>2. /\ DOMAIN known' = DOMAIN known \cup {n} /\ known'[n] = o
          /\ \A x \in DOMAIN known : x # n => known'[x] = known[x]
      BY <3>1 DEF List
    <3>3. ApplyToBook
      BY <1>2
    <3>4. /\ DOMAIN orders' = DOMAIN orders \cup {n}
          /\ orders'[n] = o
          /\ \A x \in DOMAIN orders : x # n => orders'[x] = orders[x]
      BY <1>3, <1>7, <2>2, <3>3, BookAdds DEF o
    <3>5. ListedAt(n)' /\ KnownAt(n)'
      BY <1>5, <2>2, <3>2, NewOrderIs DEF o
    <3>6. BookAt(n)'
      BY <3>2, <3>4 DEF BookAt
    <3>7. ParsedType'
      BY <2>2, OneMessageType
    <3> QED BY <3>2, <3>4, <3>5, <3>6, <3>7
  <2> QED BY <1>4, <2>1, <2>2
<1>9. ASSUME NEW x, x # n PROVE SameAt(x)
  BY <1>2, <1>6, <1>8, <1>9 DEF SameAt
<1> DEFINE T == {n}
<1>10. next_ref' \in Nat /\ next_ref' >= next_ref /\ n \in 1 .. next_ref' - 1
  BY <1>0, <1>2, <1>3
<1>11. /\ \A x : x \notin T => SameAt(x)
       /\ \A x \in T : /\ x \in 1 .. next_ref' - 1
                       /\ ListedAt(x)' /\ KnownAt(x)' /\ BookAt(x)'
  BY <1>8, <1>9, <1>10
<1> HIDE DEF T
<1> QED BY <1>8, <1>10, <1>11, StepKeeps

\* The original order goes and the new one comes; the book is not asked to
\* agree about either.
LEMMA ReplacementKeeps ==
  ASSUME IInv, Replacement
  PROVE  IInv'
<1>0. PICK n : n = next_ref
  OBVIOUS
<1>1. PICK id \in DOMAIN listed, q \in Qtys, raw \in RawPrices :
        /\ listed' = List(Unlist(id), n, [locate |-> listed[id].locate, raw |-> raw, qty |-> q,
                                          side |-> listed[id].side])
        /\ Parser!Replace(listed[id].locate, id, n, q, raw)
        /\ diverged' = diverged \cup {id, n}
  BY <1>0 DEF Replacement
<1>2. ApplyToBook /\ next_ref' = n + 1
  BY <1>0 DEF Replacement
<1>3. n \in Nat \ {0} /\ n \notin Ids /\ n # id
  BY <1>0, NextIsFresh DEF Ids
<1>4. PICK l, s : l = listed[id].locate /\ s = listed[id].side
  OBVIOUS
<1> DEFINE o == [price |-> Parser!TicksOf(raw), qty |-> q, side |-> s]
<1>5. \/ id \notin DOMAIN known /\ known' = known /\ parsed' = None
      \/ /\ Parser!CheckLocate(l) /\ id \in DOMAIN known
         /\ known[id].side = s
         /\ known' = Parser!Remember(Parser!Erase(known, id), n, o)
         /\ parsed' = {[type |-> "Modify", id |-> id, price |-> Parser!TicksOf(raw), qty |-> q]}
  <2>1. CASE id \notin DOMAIN known
    BY <1>1, <2>1 DEF Parser!Replace, Parser!Skip, Parser!None, None
  <2>2. CASE id \in DOMAIN known
    <3>1. Parser!CheckLocate(l) /\ KnownAt(id)
      BY <1>4, <2>2, AtId
    <3>2. known[id] = [price |-> Parser!TicksOf(listed[id].raw), qty |-> listed[id].qty,
                       side |-> listed[id].side]
      BY <2>2, <3>1 DEF KnownAt
    <3>3. known[id].side = s
      BY <1>4, <3>2
    <3>4. Parser!CheckLocate(listed[id].locate) /\ id \in DOMAIN known
      BY <1>4, <2>2, <3>1
    <3>5. /\ known' = Parser!Replaced(id, n, [price |-> Parser!TicksOf(raw), qty |-> q,
                                             side |-> known[id].side])
          /\ parsed' = {[type |-> "Modify", id |-> id, price |-> Parser!TicksOf(raw), qty |-> q]}
      BY <1>1, <3>4 DEF Parser!Replace
    <3>6. known' = Parser!Replaced(id, n, o)
      BY <3>3, <3>5
    <3> QED BY <2>2, <3>1, <3>3, <3>5, <3>6 DEF Parser!Replaced
  <2> QED BY <2>1, <2>2
<1>6. listed[id] \in ListedOrders
  BY AtId
<1>7. l \in Locates /\ s \in Sides
  BY <1>4, <1>6 DEF ListedOrders
<1>8. /\ DOMAIN listed' = (DOMAIN listed \ {id}) \cup {n}
      /\ listed'[n] = [locate |-> l, raw |-> raw, qty |-> q, side |-> s]
      /\ \A x \in DOMAIN listed \ {id} : x # n => listed'[x] = listed[x]
  BY <1>1, <1>4 DEF List, Unlist, Restrict
<1> HIDE DEF o
<1>9. n \notin DOMAIN known /\ n \notin DOMAIN orders
  BY <1>3 DEF Ids
<1>10. /\ ListedAt(n)' /\ KnownAt(n)' /\ ParsedType' /\ id \notin DOMAIN known'
       /\ \A x : x # n /\ x # id => /\ x \in DOMAIN known' <=> x \in DOMAIN known
                                    /\ x \in DOMAIN known => known'[x] = known[x]
                                    /\ x \in DOMAIN orders' <=> x \in DOMAIN orders
                                    /\ x \in DOMAIN orders => orders'[x] = orders[x]
  <2>1. CASE id \notin DOMAIN known /\ known' = known /\ parsed' = None
    <3>1. orders' = orders
      BY <1>2, <2>1, BookSkips
    <3>2. ListedAt(n)' /\ KnownAt(n)'
      BY <1>7, <1>8, <1>9, <2>1, NewOrderIs
    <3>3. ParsedType'
      BY <2>1, SkipGivesType
    <3> QED BY <2>1, <3>1, <3>2, <3>3
  <2>2. CASE /\ Parser!CheckLocate(l)
             /\ known' = Parser!Remember(Parser!Erase(known, id), n, o)
             /\ parsed' = {[type |-> "Modify", id |-> id, price |-> Parser!TicksOf(raw), qty |-> q]}
    <3>1. known' = List(Parser!Erase(known, id), n, o)
      BY <1>3, <2>2, RememberIsList
    <3>2. /\ DOMAIN known' = (DOMAIN known \ {id}) \cup {n} /\ known'[n] = o
          /\ \A x \in DOMAIN known \ {id} : x # n => known'[x] = known[x]
      BY <3>1 DEF List, Parser!Erase, Parser!Restrict, Restrict
    <3>3. /\ DOMAIN orders' = DOMAIN orders
          /\ \A x \in DOMAIN orders : x # id => orders'[x] = orders[x]
      BY <1>2, <2>2, BookModifies
    <3>4. ListedAt(n)' /\ KnownAt(n)'
      BY <1>7, <1>8, <2>2, <3>2, NewOrderIs DEF o
    <3>5. ParsedType'
      BY <2>2, OneMessageType
    <3> QED BY <1>3, <3>2, <3>3, <3>4, <3>5
  <2> QED BY <1>5, <2>1, <2>2
<1>11. ASSUME NEW x, x # n, x # id PROVE SameAt(x)
  BY <1>1, <1>8, <1>10, <1>11 DEF SameAt
<1>12. /\ ListedAt(id)' /\ KnownAt(id)' /\ BookAt(id)' /\ BookAt(n)'
  <2>1. id \notin DOMAIN listed' /\ id \in diverged' /\ n \in diverged'
    BY <1>1, <1>3, <1>8
  <2> QED BY <1>10, <2>1 DEF ListedAt, KnownAt, BookAt
<1> DEFINE T == {id, n}
<1>13. next_ref \in Nat /\ id \in 1 .. next_ref - 1
  BY AtId DEF IInv
<1>14. /\ next_ref' \in Nat /\ next_ref' >= next_ref
       /\ n \in 1 .. next_ref' - 1 /\ id \in 1 .. next_ref' - 1
  BY <1>0, <1>2, <1>3, <1>13
<1>15. /\ \A x : x \notin T => SameAt(x)
       /\ \A x \in T : /\ x \in 1 .. next_ref' - 1
                       /\ ListedAt(x)' /\ KnownAt(x)' /\ BookAt(x)'
  BY <1>10, <1>11, <1>12, <1>14
<1> HIDE DEF T
<1> QED BY <1>10, <1>14, <1>15, StepKeeps
-----------------------------------------------------------------------------
(* The theorems.                                                           *)

LEMMA InitEstablishes == Init => IInv
BY DEF Init, IInv, Ids, Parser!Init, Book!Init, Parser!None, None

LEMMA NextKeeps == IInv /\ [Next]_vars => IInv'
<1> SUFFICES ASSUME IInv, [Next]_vars PROVE IInv'
  OBVIOUS
<1>1. CASE Entry
  BY <1>1, EntryKeeps
<1>2. CASE Execution
  BY <1>2, ExecutionKeeps
<1>3. CASE PartialCancel
  BY <1>3, PartialCancelKeeps
<1>4. CASE Deletion
  BY <1>4, DeletionKeeps
<1>5. CASE Replacement
  BY <1>5, ReplacementKeeps
<1>6. CASE HiddenExecution
  BY <1>6, HiddenExecutionKeeps
<1>7. CASE UNCHANGED vars
  BY <1>7 DEF vars, IInv, Ids, ListedAt, KnownAt, BookAt, Parser!CheckLocate, Parser!TicksOf
<1> QED BY <1>1, <1>2, <1>3, <1>4, <1>5, <1>6, <1>7 DEF Next

LEMMA Inductive == Spec => []IInv
BY InitEstablishes, NextKeeps, PTL DEF Spec

\* The parser's table and its messages keep their types, and it knows no
\* reference number that was not handed out, whatever the exchange sends.
THEOREM ItchTypes == Spec => []TypeOK
BY Inductive, IInvGivesTypeOK, PTL

\* The parser's orders always are the exchange's, with the quantity left, after
\* any sequence of executions, partial cancels, deletions and replacements.
THEOREM ParserKeepsUp == Spec => []KnownOrdersAreListed
BY Inductive, IInvGivesKnownOrdersAreListed, PTL

\* The book holds the orders the parser knows, as it knows them, but for those
\* partly cancelled or replaced: the two messages are the only ones that make
\* book and parser disagree.
THEOREM BookKeepsUp == Spec => []BookFollowsParser
BY Inductive, IInvGivesBookFollowsParser, PTL
-----------------------------------------------------------------------------
(* The book's levels.  Nothing keeps a level's quantity from passing 32    *)
(* bits, and then it wraps: the theorem is about the behaviours in which   *)
(* none does, by what the orders themselves say.                           *)

NoLevelOverflows == RoomIn(orders)

\* Levels and orders in step.
InStep == StepWith(levels, orders)

\* An order that is still listed, but whose copy in the book is out of date,
\* has left the book: no execution can reach it there.
StaleIsGone == \A id \in DOMAIN listed : id \in diverged => id \notin DOMAIN orders

\* The book's operations are those of the lemmas about orders and levels.
LEMMA SideOperations ==
  ASSUME NEW m, NEW p, NEW q
  PROVE  /\ Book!AddToSide(m, p, q) = Raise(m, p, q)
         /\ Book!RemoveFromSide(m, p, q) = Lower(m, p, q)
BY DEF Book!AddToSide, Book!Add32, Raise, Book!RemoveFromSide, Book!Restrict, Restrict, Lower

LEMMA BookAddKeepsStep ==
  ASSUME InStep, NoLevelOverflows', NEW id, NEW p \in Uint32, NEW q \in Uint32 \ {0}, NEW s \in Sides,
         id # 0, Book!AddOrder(id, p, q, s)
  PROVE  InStep'
<1>1. CASE id \in DOMAIN orders
  <2>1. levels' = levels /\ orders' = orders
    BY <1>1 DEF Book!AddOrder, Book!Ignore
  <2> QED BY <2>1 DEF InStep
<1>2. CASE id \notin DOMAIN orders
  <2>1. orders' = WithOrder(orders, id, [price |-> p, qty |-> q, side |-> s])
    BY <1>2 DEF Book!AddOrder, Book!InsertOrder, Book!EmptyKey, WithOrder
  <2>2. levels' = [levels EXCEPT ![s] = Raise(levels[s], p, q)]
    BY <1>2, SideOperations DEF Book!AddOrder
  <2> QED BY <1>2, <2>1, <2>2, AddKeepsStep DEF InStep, NoLevelOverflows
<1> QED BY <1>1, <1>2

LEMMA BookModifyKeepsStep ==
  ASSUME InStep, NoLevelOverflows', NEW id, NEW p \in Uint32, NEW q \in Uint32 \ {0}, Book!ModifyOrder(id, p, q)
  PROVE  InStep'
<1>1. CASE id \notin DOMAIN orders
  <2>1. levels' = levels /\ orders' = orders
    BY <1>1 DEF Book!ModifyOrder, Book!Ignore
  <2> QED BY <2>1 DEF InStep
<1>2. CASE id \in DOMAIN orders
  <2>1. orders' = Repriced(orders, id, p, q)
    BY <1>2 DEF Book!ModifyOrder, Repriced
  <2>2. levels' = [levels EXCEPT ![orders[id].side] =
                     Raise(Lower(levels[orders[id].side], orders[id].price, orders[id].qty), p, q)]
    BY <1>2, SideOperations DEF Book!ModifyOrder
  <2> QED BY <1>2, <2>1, <2>2, ModifyKeepsStep DEF InStep, NoLevelOverflows
<1> QED BY <1>1, <1>2

LEMMA BookCancelKeepsStep ==
  ASSUME InStep, NEW id, Book!CancelOrder(id)
  PROVE  InStep'
<1>1. CASE id \notin DOMAIN orders
  <2>1. levels' = levels /\ orders' = orders
    BY <1>1 DEF Book!CancelOrder, Book!Ignore
  <2> QED BY <2>1 DEF InStep
<1>2. CASE id \in DOMAIN orders
  <2>1. orders' = WithoutOrder(orders, id)
    BY <1>2 DEF Book!CancelOrder, Book!Restrict, Restrict, WithoutOrder
  <2>2. levels' = [levels EXCEPT ![orders[id].side] =
                     Lower(levels[orders[id].side], orders[id].price, orders[id].qty)]
    BY <1>2, SideOperations DEF Book!CancelOrder
  <2> QED BY <1>2, <2>1, <2>2, CancelKeepsStep DEF InStep
<1> QED BY <1>1, <1>2

LEMMA BookTradeKeepsStep ==
  ASSUME InStep, NEW id, NEW q \in Uint32, id \in DOMAIN orders => q <= orders[id].qty,
         Book!ApplyTrade(id, q)
  PROVE  InStep'
<1>1. CASE id \notin DOMAIN orders
  <2>1. levels' = levels /\ orders' = orders
    BY <1>1 DEF Book!ApplyTrade, Book!Ignore
  <2> QED BY <2>1 DEF InStep
<1>2. CASE id \in DOMAIN orders
  <2>1. orders' = Traded(orders, id, q)
    BY <1>2 DEF Book!ApplyTrade, Book!OrdersAfterTrade, Book!Restrict, Restrict, Traded, WithoutOrder
  <2>2. levels' = [levels EXCEPT ![orders[id].side] =
                     Lower(levels[orders[id].side], orders[id].price, q)]
    BY <1>2, SideOperations DEF Book!ApplyTrade
  <2>3. q \in Nat
    BY U32Assumption DEF Uint32
  <2> QED BY <1>2, <2>1, <2>2, <2>3, TradeKeepsStep DEF InStep
<1> QED BY <1>1, <1>2

\* What ApplyToBook does with each message keeps the two in step.
LEMMA SkippedKeepsStep ==
  ASSUME InStep, ApplyToBook, parsed' = None
  PROVE  InStep'
<1>1. levels' = levels /\ orders' = orders
  BY DEF ApplyToBook, None, bookVars
<1> QED BY <1>1 DEF InStep

LEMMA AddedKeepsStep ==
  ASSUME InStep, NoLevelOverflows', ApplyToBook,
         NEW id, NEW p \in Uint32, NEW q \in Uint32 \ {0}, NEW s \in Sides, id # 0,
         parsed' = {[type |-> "Add", id |-> id, price |-> p, qty |-> q, side |-> s]}
  PROVE  InStep'
<1> DEFINE m == [type |-> "Add", id |-> id, price |-> p, qty |-> q, side |-> s]
<1>1. m.type = "Add" /\ m.id = id /\ m.price = p /\ m.qty = q /\ m.side = s /\ parsed' = {m}
  OBVIOUS
<1> HIDE DEF m
<1>2. Book!AddOrder(id, p, q, s)
  BY <1>1, BookDoes
<1> QED BY <1>2, BookAddKeepsStep

LEMMA ModifiedKeepsStep ==
  ASSUME InStep, NoLevelOverflows', ApplyToBook,
         NEW id, NEW p \in Uint32, NEW q \in Uint32 \ {0},
         parsed' = {[type |-> "Modify", id |-> id, price |-> p, qty |-> q]}
  PROVE  InStep'
<1> DEFINE m == [type |-> "Modify", id |-> id, price |-> p, qty |-> q]
<1>1. m.type = "Modify" /\ m.id = id /\ m.price = p /\ m.qty = q /\ parsed' = {m}
  OBVIOUS
<1> HIDE DEF m
<1>2. Book!ModifyOrder(id, p, q)
  BY <1>1, BookDoes
<1> QED BY <1>2, BookModifyKeepsStep

LEMMA CancelledKeepsStep ==
  ASSUME InStep, ApplyToBook, NEW id, parsed' = {[type |-> "Cancel", id |-> id]}
  PROVE  InStep'
<1> DEFINE m == [type |-> "Cancel", id |-> id]
<1>1. m.type = "Cancel" /\ m.id = id /\ parsed' = {m}
  OBVIOUS
<1> HIDE DEF m
<1>2. Book!CancelOrder(id)
  BY <1>1, BookDoes
<1> QED BY <1>2, BookCancelKeepsStep

LEMMA TradedKeepsStep ==
  ASSUME InStep, ApplyToBook, NEW id, NEW q \in Uint32,
         id \in DOMAIN orders => q <= orders[id].qty, parsed' = {Parser!TradeOf(id, q)}
  PROVE  InStep'
<1> DEFINE m == Parser!TradeOf(id, q)
<1>1. m.type = "Trade" /\ m.id = id /\ m.qty = q /\ parsed' = {m}
  BY DEF Parser!TradeOf
<1> HIDE DEF m
<1>2. Book!ApplyTrade(id, q)
  BY <1>1, BookDoes
<1> QED BY <1>2, BookTradeKeepsStep

\* An order that may be executed is, in the book, what it is on the exchange.
LEMMA ExecutableIsListed ==
  ASSUME IInv, StaleIsGone, NEW id \in DOMAIN listed, id \in DOMAIN orders
  PROVE  orders[id].qty = listed[id].qty
<1>1. KnownAt(id) /\ BookAt(id)
  BY AtId
<1>2. id \in DOMAIN known /\ orders[id] = known[id]
  BY <1>1 DEF BookAt, StaleIsGone
<1>3. known[id] = [price |-> Parser!TicksOf(listed[id].raw), qty |-> listed[id].qty,
                   side |-> listed[id].side]
  BY <1>1, <1>2 DEF KnownAt
<1> QED BY <1>2, <1>3

\* What a message must not do for stale orders to stay out of reach.
LEMMA StaleStaysGone ==
  ASSUME StaleIsGone, NEW T,
         \A x : x \notin T => /\ x \in DOMAIN listed' => x \in DOMAIN listed
                              /\ x \in diverged' => x \in diverged
                              /\ x \in DOMAIN orders' => x \in DOMAIN orders,
         \A x \in T : x \notin DOMAIN listed' \/ x \notin diverged' \/ x \notin DOMAIN orders'
  PROVE  StaleIsGone'
BY DEF StaleIsGone

LEMMA EntryKeepsStep ==
  ASSUME IInv, InStep, StaleIsGone, NoLevelOverflows', Entry
  PROVE  InStep' /\ StaleIsGone'
<1>0. PICK n : n = next_ref
  OBVIOUS
<1>1. PICK l \in Locates, s \in Sides, q \in Qtys, raw \in RawPrices :
        /\ listed' = List(listed, n, [locate |-> l, raw |-> raw, qty |-> q, side |-> s])
        /\ Parser!Add(l, n, s, q, raw)
  BY <1>0 DEF Entry
<1>2. ApplyToBook /\ diverged' = diverged
  BY DEF Entry
<1>3. n # 0 /\ n \notin DOMAIN orders /\ n \notin diverged
  BY <1>0, NextIsFresh DEF Ids
<1>4. PICK p : p = Parser!TicksOf(raw)
  OBVIOUS
<1>5. p \in Uint32 /\ q \in Uint32 \ {0}
  BY <1>4, FeedAssumption
<1>6. \/ parsed' = None
      \/ parsed' = {[type |-> "Add", id |-> n, price |-> p, qty |-> q, side |-> s]}
  BY <1>1, <1>4 DEF Parser!Add, Parser!Skip, Parser!None, None
<1>7. InStep' /\ \A x : x # n => (x \in DOMAIN orders' => x \in DOMAIN orders)
  <2>1. CASE parsed' = None
    BY <1>2, <2>1, SkippedKeepsStep, BookSkips
  <2>2. CASE parsed' = {[type |-> "Add", id |-> n, price |-> p, qty |-> q, side |-> s]}
    <3>1. InStep'
      BY <1>2, <1>3, <1>5, <2>2, AddedKeepsStep
    <3>2. DOMAIN orders' = DOMAIN orders \cup {n}
      BY <1>2, <1>3, <2>2, BookAdds
    <3> QED BY <3>1, <3>2
  <2> QED BY <1>6, <2>1, <2>2
<1>8. \A x : x # n => (x \in DOMAIN listed' => x \in DOMAIN listed)
  BY <1>1 DEF List
<1> DEFINE T == {n}
<1>9. /\ \A x : x \notin T => /\ x \in DOMAIN listed' => x \in DOMAIN listed
                              /\ x \in diverged' => x \in diverged
                              /\ x \in DOMAIN orders' => x \in DOMAIN orders
      /\ \A x \in T : x \notin diverged'
  BY <1>2, <1>3, <1>7, <1>8
<1> HIDE DEF T
<1> QED BY <1>7, <1>9, StaleStaysGone

LEMMA ExecutionKeepsStep ==
  ASSUME IInv, InStep, StaleIsGone, Execution
  PROVE  InStep' /\ StaleIsGone'
<1>1. PICK id \in DOMAIN listed, q \in Qtys :
        /\ q <= listed[id].qty
        /\ listed' = Left(id, q)
        /\ \/ "E" \in Kinds /\ Parser!Executed(listed[id].locate, id, q)
           \/ "C" \in Kinds /\ Parser!ExecutedWithPrice(listed[id].locate, id, q)
  BY DEF Execution
<1>2. ApplyToBook /\ diverged' = diverged
  BY DEF Execution
<1>3. parsed' = None \/ parsed' = {Parser!TradeOf(id, q)}
  BY <1>1 DEF Parser!Executed, Parser!ExecutedWithPrice, Parser!Skip, Parser!None, None
<1>4. listed' = Less(listed, id, q) /\ q \in Uint32
  BY <1>1, LeftIsLess
<1>5. id \in DOMAIN orders => q <= orders[id].qty
  BY <1>1, ExecutableIsListed
<1>6. InStep' /\ DOMAIN orders' \subseteq DOMAIN orders
  <2>1. CASE parsed' = None
    BY <1>2, <2>1, SkippedKeepsStep, BookSkips
  <2>2. CASE parsed' = {Parser!TradeOf(id, q)}
    <3>1. InStep'
      BY <1>2, <1>4, <1>5, <2>2, TradedKeepsStep
    <3>2. DOMAIN orders' \subseteq DOMAIN orders
      BY <1>2, <2>2, BookTrades DEF BookIgnores, Less, Restrict
    <3> QED BY <3>1, <3>2
  <2> QED BY <1>3, <2>1, <2>2
<1>7. DOMAIN listed' \subseteq DOMAIN listed
  BY <1>4 DEF Less, Restrict
<1> QED BY <1>2, <1>6, <1>7 DEF StaleIsGone

LEMMA PartialCancelKeepsStep ==
  ASSUME IInv, InStep, StaleIsGone, PartialCancel
  PROVE  InStep' /\ StaleIsGone'
<1>1. PICK id \in DOMAIN listed, q \in Qtys :
        /\ q <= listed[id].qty
        /\ listed' = Left(id, q)
        /\ Parser!CancelPart(listed[id].locate, id, q)
        /\ diverged' = IF q < listed[id].qty THEN diverged \cup {id} ELSE diverged
  BY DEF PartialCancel
<1>2. ApplyToBook /\ diverged' \subseteq diverged \cup {id}
  BY <1>1 DEF PartialCancel
<1>3. \/ id \notin DOMAIN known /\ parsed' = None
      \/ parsed' = {[type |-> "Cancel", id |-> id]}
  BY <1>1, AtId DEF Parser!CancelPart, Parser!Skip, Parser!None, None
<1>4. listed' = Less(listed, id, q)
  BY <1>1, LeftIsLess
<1>5. DOMAIN listed' \subseteq DOMAIN listed
  BY <1>4 DEF Less, Restrict
<1>6. /\ InStep'
      /\ id \notin DOMAIN orders'
      /\ \A x : x \in DOMAIN orders' => x \in DOMAIN orders
  <2>1. CASE id \notin DOMAIN known /\ parsed' = None
    <3>1. id \notin DOMAIN orders
      BY <2>1, AtId DEF StaleIsGone, BookAt
    <3> QED BY <1>2, <2>1, <3>1, SkippedKeepsStep, BookSkips
  <2>2. CASE parsed' = {[type |-> "Cancel", id |-> id]}
    <3>1. InStep'
      BY <1>2, <2>2, CancelledKeepsStep
    <3>2. /\ id \notin DOMAIN orders'
          /\ \A x : x # id => (x \in DOMAIN orders' <=> x \in DOMAIN orders)
      BY <1>2, <2>2, CancelTouchesOne
    <3> QED BY <3>1, <3>2
  <2> QED BY <1>3, <2>1, <2>2
<1> QED BY <1>2, <1>5, <1>6 DEF StaleIsGone

LEMMA DeletionKeepsStep ==
  ASSUME IInv, InStep, StaleIsGone, Deletion
  PROVE  InStep' /\ StaleIsGone'
<1>1. PICK id \in DOMAIN listed :
        listed' = Unlist(id) /\ Parser!Delete(listed[id].locate, id)
  BY DEF Deletion
<1>2. ApplyToBook /\ diverged' = diverged
  BY DEF Deletion
<1>3. parsed' = None \/ parsed' = {[type |-> "Cancel", id |-> id]}
  BY <1>1 DEF Parser!Delete, Parser!Skip, Parser!None, None
<1>4. DOMAIN listed' \subseteq DOMAIN listed
  BY <1>1, RestrictIs DEF Unlist
<1>5. InStep' /\ \A x : x \in DOMAIN orders' => x \in DOMAIN orders
  <2>1. CASE parsed' = None
    BY <1>2, <2>1, SkippedKeepsStep, BookSkips
  <2>2. CASE parsed' = {[type |-> "Cancel", id |-> id]}
    BY <1>2, <2>2, CancelledKeepsStep, CancelTouchesOne
  <2> QED BY <1>3, <2>1, <2>2
<1> QED BY <1>2, <1>4, <1>5 DEF StaleIsGone

LEMMA ReplacementKeepsStep ==
  ASSUME IInv, InStep, StaleIsGone, NoLevelOverflows', Replacement
  PROVE  InStep' /\ StaleIsGone'
<1>0. PICK n : n = next_ref
  OBVIOUS
<1>1. PICK id \in DOMAIN listed, q \in Qtys, raw \in RawPrices :
        /\ listed' = List(Unlist(id), n, [locate |-> listed[id].locate, raw |-> raw, qty |-> q,
                                          side |-> listed[id].side])
        /\ Parser!Replace(listed[id].locate, id, n, q, raw)
        /\ diverged' = diverged \cup {id, n}
  BY <1>0 DEF Replacement
<1>2. ApplyToBook
  BY DEF Replacement
<1>3. n \notin DOMAIN orders /\ n # id
  BY <1>0, NextIsFresh DEF Ids
<1>4. PICK p : p = Parser!TicksOf(raw)
  OBVIOUS
<1>5. p \in Uint32 /\ q \in Uint32 \ {0}
  BY <1>4, FeedAssumption
<1>6. \/ parsed' = None
      \/ parsed' = {[type |-> "Modify", id |-> id, price |-> p, qty |-> q]}
  BY <1>1, <1>4 DEF Parser!Replace, Parser!Skip, Parser!None, None
<1>7. InStep' /\ DOMAIN orders' = DOMAIN orders
  <2>1. CASE parsed' = None
    BY <1>2, <2>1, SkippedKeepsStep, BookSkips
  <2>2. CASE parsed' = {[type |-> "Modify", id |-> id, price |-> p, qty |-> q]}
    BY <1>2, <1>5, <2>2, ModifiedKeepsStep, BookModifies
  <2> QED BY <1>6, <2>1, <2>2
<1>8. /\ id \notin DOMAIN listed'
      /\ \A x : x # n => (x \in DOMAIN listed' => x \in DOMAIN listed)
  BY <1>1, <1>3 DEF List, Unlist, Restrict
<1> DEFINE T == {id, n}
<1>9. /\ \A x : x \notin T => /\ x \in DOMAIN listed' => x \in DOMAIN listed
                              /\ x \in diverged' => x \in diverged
                              /\ x \in DOMAIN orders' => x \in DOMAIN orders
      /\ \A x \in T : x \notin DOMAIN listed' \/ x \notin DOMAIN orders'
  BY <1>1, <1>3, <1>7, <1>8
<1> HIDE DEF T
<1> QED BY <1>7, <1>9, StaleStaysGone

LEMMA HiddenExecutionKeepsStep ==
  ASSUME IInv, InStep, StaleIsGone, HiddenExecution
  PROVE  InStep' /\ StaleIsGone'
<1>1. ApplyToBook /\ listed' = listed /\ diverged' = diverged
  BY DEF HiddenExecution
<1>2. parsed' = None \/ \E q \in Qtys : parsed' = {Parser!TradeOf(0, q)}
  BY DEF HiddenExecution, Parser!HiddenTrade, Parser!Unsupported, Parser!Skip, Parser!None, None
<1>3. 0 \notin DOMAIN orders
  BY DEF IInv, Ids
<1>4. InStep' /\ orders' = orders
  <2>1. CASE parsed' = None
    BY <1>1, <2>1, SkippedKeepsStep, BookSkips
  <2>2. ASSUME NEW q \in Qtys, parsed' = {Parser!TradeOf(0, q)}
        PROVE  InStep' /\ orders' = orders
    <3>1. q \in Uint32
      BY FeedAssumption
    <3>2. InStep'
      BY <1>1, <1>3, <2>2, <3>1, TradedKeepsStep
    <3>3. orders' = orders
      BY <1>1, <1>3, <2>2, BookTrades DEF BookIgnores
    <3> QED BY <3>2, <3>3
  <2> QED BY <1>2, <2>1, <2>2
<1> QED BY <1>1, <1>4 DEF StaleIsGone

LEMMA NextKeepsStep ==
  IInv /\ InStep /\ StaleIsGone /\ NoLevelOverflows' /\ [Next]_vars => InStep' /\ StaleIsGone'
<1> SUFFICES ASSUME IInv, InStep, StaleIsGone, NoLevelOverflows', [Next]_vars
             PROVE  InStep' /\ StaleIsGone'
  OBVIOUS
<1>1. CASE Entry
  BY <1>1, EntryKeepsStep
<1>2. CASE Execution
  BY <1>2, ExecutionKeepsStep
<1>3. CASE PartialCancel
  BY <1>3, PartialCancelKeepsStep
<1>4. CASE Deletion
  BY <1>4, DeletionKeepsStep
<1>5. CASE Replacement
  BY <1>5, ReplacementKeepsStep
<1>6. CASE HiddenExecution
  BY <1>6, HiddenExecutionKeepsStep
<1>7. CASE UNCHANGED vars
  BY <1>7 DEF vars, InStep, StaleIsGone
<1> QED BY <1>1, <1>2, <1>3, <1>4, <1>5, <1>6, <1>7 DEF Next

LEMMA InitInStep == Init => InStep /\ StaleIsGone
<1> SUFFICES ASSUME Init PROVE InStep /\ StaleIsGone
  OBVIOUS
<1>1. /\ orders = [id \in {} |-> 0] /\ listed = [id \in {} |-> 0]
      /\ levels = [s \in Sides |-> [p \in {} |-> 0]]
  BY DEF Init, Book!Init, Book!Sides, Sides, Book!Bid, Bid, Book!Ask, Ask
<1>2. DOMAIN orders = {} /\ DOMAIN listed = {}
  BY <1>1
<1> QED BY <1>1, <1>2, EmptyInStep DEF InStep, StaleIsGone

LEMMA InStepGivesLevelsMatchOrders == InStep => LevelsMatchOrders
<1> SUFFICES ASSUME InStep PROVE Book!LevelsMatchOrders
  BY DEF LevelsMatchOrders
<1>1. ASSUME NEW s \in Sides
      PROVE  DOMAIN levels[s] = {orders[id].price : id \in {i \in DOMAIN orders : orders[i].side = s}}
  BY StepGivesSums DEF InStep
<1>2. ASSUME NEW s \in Sides, NEW p \in DOMAIN levels[s]
      PROVE  levels[s][p] = Book!SumFunctionOnSet([id \in DOMAIN orders |-> orders[id].qty],
                                                  Book!OrdersAt(s, p))
  <2>1. levels[s][p] = SumAt(orders, s, p)
    BY StepGivesSums DEF InStep
  <2>2. SumAt(orders, s, p) = Book!SumFunctionOnSet([id \in DOMAIN orders |-> orders[id].qty],
                                                    Book!OrdersAt(s, p))
    BY DEF SumAt, At, QtyOf, Book!OrdersAt, Book!SumFunctionOnSet, SumFunctionOnSet,
           Book!FoldFunctionOnSet, FoldFunctionOnSet, Book!MapThenFoldSet, MapThenFoldSet
  <2> QED BY <2>1, <2>2
<1> QED BY <1>1, <1>2 DEF Book!LevelsMatchOrders, Book!Sides, Sides, Book!Bid, Bid, Book!Ask, Ask

\* As long as no level's orders add up to more than 32 bits hold, the book's
\* levels are the sums of its orders, after any messages the exchange sends:
\* partial cancels and replacements, which leave the book with orders of its
\* own, included.
THEOREM LevelsKeepUp == Spec /\ []NoLevelOverflows => []LevelsMatchOrders
<1>1. Init => InStep /\ StaleIsGone
  BY InitInStep
<1>2. IInv /\ InStep /\ StaleIsGone /\ NoLevelOverflows' /\ [Next]_vars => InStep' /\ StaleIsGone'
  BY NextKeepsStep
<1>3. InStep => LevelsMatchOrders
  BY InStepGivesLevelsMatchOrders
<1> QED BY <1>1, <1>2, <1>3, Inductive, PTL DEF Spec
-----------------------------------------------------------------------------
(* Quantities so small that no level can overflow.                         *)

RoomFor(B) == MaxRefs * B < U32 /\ \A q \in Qtys : q <= B

Small(B) == next_ref <= MaxRefs + 1 /\ \A id \in DOMAIN orders : orders[id].qty \in 0 .. B

LEMMA BookStaysSmall ==
  ASSUME NEW B \in Nat, RoomFor(B), ApplyToBook, InStep,
         \A id \in DOMAIN orders : orders[id].qty \in 0 .. B,
         \A m \in parsed' : m.type \in {"Add", "Modify", "Trade"} => m.qty \in Qtys
  PROVE  \A id \in DOMAIN orders' : orders'[id].qty \in 0 .. B
<1>0. \A q \in Qtys : q \in 0 .. B
  BY FeedAssumption, U32Assumption DEF RoomFor, Uint32
<1>1. CASE orders' = orders
  BY <1>1
<1>2. ASSUME NEW m \in parsed', m.type = "Add", Book!AddOrder(m.id, m.price, m.qty, m.side)
      PROVE  \A id \in DOMAIN orders' : orders'[id].qty \in 0 .. B
  <2>1. m.qty \in 0 .. B
    BY <1>0, <1>2
  <2>2. PICK o : o = [price |-> m.price, qty |-> m.qty, side |-> m.side]
    OBVIOUS
  <2>3. orders' = orders \/ orders' = Book!InsertOrder(m.id, o)
    BY <1>2, <2>2 DEF Book!AddOrder, Book!Ignore
  <2>4. o.qty \in 0 .. B
    BY <2>1, <2>2
  <2> QED BY <1>1, <2>3, <2>4 DEF Book!InsertOrder
<1>3. ASSUME NEW m \in parsed', m.type = "Modify", Book!ModifyOrder(m.id, m.price, m.qty)
      PROVE  \A id \in DOMAIN orders' : orders'[id].qty \in 0 .. B
  <2>1. m.qty \in 0 .. B
    BY <1>0, <1>3
  <2>2. orders' = orders \/ orders' = [orders EXCEPT ![m.id].price = m.price, ![m.id].qty = m.qty]
    BY <1>3 DEF Book!ModifyOrder, Book!Ignore
  <2>3. \A id \in DOMAIN orders : orders[id] \in LiveStates
    BY DEF InStep, StepWith, BookOrders
  <2> QED BY <1>1, <2>1, <2>2, <2>3 DEF LiveStates
<1>4. ASSUME NEW m \in parsed', m.type = "Cancel", Book!CancelOrder(m.id)
      PROVE  \A id \in DOMAIN orders' : orders'[id].qty \in 0 .. B
  BY <1>4 DEF Book!CancelOrder, Book!Ignore, Book!Restrict
<1>5. ASSUME NEW m \in parsed', m.type = "Trade", Book!ApplyTrade(m.id, m.qty)
      PROVE  \A id \in DOMAIN orders' : orders'[id].qty \in 0 .. B
  <2>1. m.qty \in 0 .. B
    BY <1>0, <1>5
  <2>2. \/ orders' = orders
        \/ m.id \in DOMAIN orders /\ orders' = Book!OrdersAfterTrade(m.id, m.qty)
    BY <1>5 DEF Book!ApplyTrade, Book!Ignore
  <2>3. CASE m.id \in DOMAIN orders /\ orders' = Book!OrdersAfterTrade(m.id, m.qty)
    BY <2>1, <2>3 DEF Book!OrdersAfterTrade, Book!Restrict
  <2> QED BY <1>1, <2>2, <2>3
<1> QED BY <1>1, <1>2, <1>3, <1>4, <1>5 DEF ApplyToBook, bookVars

LEMMA ParsedQtys ==
  ASSUME Next
  PROVE  \A m \in parsed' : m.type \in {"Add", "Modify", "Trade"} => m.qty \in Qtys
<1>1. CASE Entry
  BY <1>1 DEF Entry, Parser!Add, Parser!Skip, Parser!None
<1>2. CASE Execution
  BY <1>2 DEF Execution, Parser!Executed, Parser!ExecutedWithPrice, Parser!Skip, Parser!None,
              Parser!TradeOf
<1>3. CASE PartialCancel
  BY <1>3 DEF PartialCancel, Parser!CancelPart, Parser!Skip, Parser!None
<1>4. CASE Deletion
  BY <1>4 DEF Deletion, Parser!Delete, Parser!Skip, Parser!None
<1>5. CASE Replacement
  BY <1>5 DEF Replacement, Parser!Replace, Parser!Skip, Parser!None
<1>6. CASE HiddenExecution
  BY <1>6 DEF HiddenExecution, Parser!HiddenTrade, Parser!Unsupported, Parser!Skip, Parser!None,
              Parser!TradeOf
<1> QED BY <1>1, <1>2, <1>3, <1>4, <1>5, <1>6 DEF Next

LEMMA NextStaysSmall ==
  ASSUME NEW B \in Nat, RoomFor(B), IInv, InStep, Small(B), [Next]_vars
  PROVE  Small(B)'
<1>1. CASE UNCHANGED vars
  BY <1>1 DEF vars, Small
<1>2. CASE Next
  <2>1. ApplyToBook
    BY <1>2 DEF Next, Entry, Execution, PartialCancel, Deletion, Replacement, HiddenExecution
  <2>2. \A id \in DOMAIN orders' : orders'[id].qty \in 0 .. B
    BY <1>2, <2>1, ParsedQtys, BookStaysSmall DEF Small
  <2>3. next_ref' = next_ref \/ (next_ref <= MaxRefs /\ next_ref' = next_ref + 1)
    BY <1>2 DEF Next, Entry, Execution, PartialCancel, Deletion, Replacement, HiddenExecution
  <2>4. next_ref' <= MaxRefs + 1
    BY <2>3, FeedAssumption DEF Small, IInv
  <2> QED BY <2>2, <2>4 DEF Small
<1> QED BY <1>1, <1>2

LEMMA SmallGivesRoom ==
  ASSUME NEW B \in Nat, RoomFor(B), IInv, Small(B)
  PROVE  NoLevelOverflows
<1>1. DOMAIN orders \subseteq 1 .. MaxRefs
  BY FeedAssumption DEF IInv, Ids, Small
<1> QED BY <1>1, RoomByCount, FeedAssumption DEF RoomFor, Small, NoLevelOverflows

\* When no order is for more than B and all of them together would fit in 32
\* bits, the levels are the sums of the orders, without a proviso: the runs'
\* own constants are such.
THEOREM LevelsKeepUpWithRoom ==
  ASSUME NEW B \in Nat, RoomFor(B)
  PROVE  Spec => []LevelsMatchOrders
<1>1. Init => Small(B)
  BY FeedAssumption DEF Init, Book!Init, Small
<1>2. IInv /\ InStep /\ Small(B) /\ [Next]_vars => Small(B)'
  BY NextStaysSmall
<1>3. IInv /\ Small(B) => NoLevelOverflows
  BY SmallGivesRoom
<1>4. Init => InStep /\ StaleIsGone
  BY InitInStep
<1>5. IInv /\ InStep /\ StaleIsGone /\ NoLevelOverflows' /\ [Next]_vars => InStep' /\ StaleIsGone'
  BY NextKeepsStep
<1>6. InStep => LevelsMatchOrders
  BY InStepGivesLevelsMatchOrders
<1> QED BY <1>1, <1>2, <1>3, <1>4, <1>5, <1>6, Inductive, PTL DEF Spec
===============================================================================
