----------------------------- MODULE ContainerProofs -----------------------------
(***************************************************************************)
(* Proofs about the two containers of src/common: FlatHashMap, for every   *)
(* set of keys and every hash, and SPSCRingBuffer, for every capacity.     *)
(***************************************************************************)
EXTENDS FlatHashMap, SPSCRingBuffer, FiniteSetTheorems, WellFoundedInduction,
        NaturalsInduction, Sequences, TLAPS

\* A set of naturals that is not empty has a least element.
LEMMA LeastNat ==
  ASSUME NEW T \in SUBSET Nat, T # {}
  PROVE  \E x \in T : \A y \in T : x <= y
<1>1. PICK x \in T : \A y \in T : ~ (<<y, x>> \in OpToRel(<, Nat))
  BY NatLessThanWellFounded, WFMin, Zenon
<1>2. \A a, b \in Nat : a < b => <<a, b>> \in OpToRel(<, Nat)
  BY DEF OpToRel
<1>3. \A y \in T : ~(y < x)
  BY <1>1, <1>2, Zenon
<1> QED BY <1>3
-----------------------------------------------------------------------------
(* Numbers.                                                                *)

\* the remainder, for the numbers a probe computes
LEMMA Remainder ==
  ASSUME NEW c \in Nat \ {0}, NEW i \in 0 .. 2 * c - 1
  PROVE  /\ i % c = IF i < c THEN i ELSE i - c
         /\ i % c \in 0 .. c - 1
<1>1. CASE i < c
  BY <1>1
<1>2. CASE i >= c
  BY <1>2
<1> QED BY <1>1, <1>2

LEMMA HomeIsSlot ==
  ASSUME NEW c \in Nat \ {0}, NEW n \in Nat
  PROVE  n % c \in 0 .. c - 1
OBVIOUS

\* The double of a power of two is one: an odd divisor of it divides its half.
LEMMA DoubleOfPower ==
  ASSUME NEW c \in Nat \ {0}, PowerOfTwo(c)
  PROVE  PowerOfTwo(2 * c)
<1> SUFFICES ASSUME NEW d \in 2 .. 2 * c, (2 * c) % d = 0, d % 2 # 0
             PROVE  FALSE
  BY DEF PowerOfTwo
<1> DEFINE q == (2 * c) \div d
           a == d \div 2
           b == q \div 2
<1>1. 2 * c = d * q /\ q \in Nat
  OBVIOUS
<1>2. d = 2 * a + 1 /\ a \in Nat
  OBVIOUS
<1>3. b \in Nat /\ (q = 2 * b \/ q = 2 * b + 1)
  BY <1>1
<1> HIDE DEF q, a, b
<1>4. CASE q = 2 * b
  <2>1. c = d * b
    BY <1>1, <1>3, <1>4
  <2>2. c % d = 0 /\ d <= c
    BY <2>1, <1>3
  <2> QED BY <2>2 DEF PowerOfTwo
<1>5. CASE q = 2 * b + 1
  <2>1. 2 * c = 2 * (2 * (a * b) + a + b) + 1
    BY <1>1, <1>2, <1>3, <1>5
  <2>2. a * b \in Nat
    BY <1>2, <1>3
  <2> QED BY <2>1, <2>2, <1>2, <1>3
<1> QED BY <1>3, <1>4, <1>5
-----------------------------------------------------------------------------
(* Tables of c slots, and probing them without the remainder.              *)

Tables(c) == [0 .. c - 1 -> {Vacant} \cup (Keys \X Values)]

\* slot s is on the way from slot h, round the table, to slot p
OnWay(h, s, p) == IF h <= p THEN h <= s /\ s < p ELSE h <= s \/ s < p

Next1(c, i) == IF i = c - 1 THEN 0 ELSE i + 1   \* the slot after i

\* a probe of t for k ends at slot p
EndsAt(t, c, k, p) ==
  /\ p \in 0 .. c - 1
  /\ t[p] = Vacant \/ t[p][1] = k
  /\ \A s \in 0 .. c - 1 : OnWay(Hash[k] % c, s, p) => t[s] # Vacant /\ t[s][1] # k

HasVacancy(t, c) == \E i \in 0 .. c - 1 : t[i] = Vacant

LEMMA TableFacts ==
  ASSUME NEW c \in Nat \ {0}, NEW t \in Tables(c)
  PROVE  /\ DOMAIN t = 0 .. c - 1
         /\ Capacity(t) = c
         /\ \A i \in 0 .. c - 1 : t[i] # Vacant => t[i] \in Keys \X Values
<1>1. DOMAIN t = 0 .. c - 1
  BY DEF Tables
<1>2. Cardinality(0 .. c - 1) = c
  BY FS_Interval
<1>3. \A i \in 0 .. c - 1 : t[i] \in {Vacant} \cup (Keys \X Values)
  BY DEF Tables
<1> QED BY <1>1, <1>2, <1>3 DEF Capacity

LEMMA SlotIsFull ==
  ASSUME NEW k, NEW v
  PROVE  Slot(k, v) # Vacant /\ Slot(k, v)[1] = k /\ Slot(k, v)[2] = v
BY DEF Slot, Vacant

LEMMA HomeOf ==
  ASSUME NEW c \in Nat \ {0}, NEW k \in Keys
  PROVE  Hash[k] % c \in 0 .. c - 1
BY FlatHashMapAssumption, HomeIsSlot

\* A probe for any key ends, as long as there is a vacant slot.
LEMMA ProbeEnds ==
  ASSUME NEW c \in Nat \ {0}, NEW t \in Tables(c), NEW k \in Keys, HasVacancy(t, c)
  PROVE  EndsAt(t, c, k, ProbeSlot(t, k))
<1> DEFINE h == Hash[k] % c
           Stops == {i \in DOMAIN t : ProbeStops(t, k, i)}
           Far(s) == IF h <= s THEN s - h ELSE s - h + c
<1>1. h \in 0 .. c - 1
  BY HomeOf
<1>2. DOMAIN t = 0 .. c - 1 /\ Capacity(t) = c /\ Home(t, k) = h
  BY TableFacts DEF Home
<1> HIDE DEF h
<1>3. ASSUME NEW i \in 0 .. c - 1
      PROVE  /\ Probe(t, k, i) = IF h + i < c THEN h + i ELSE h + i - c
             /\ Probe(t, k, i) \in 0 .. c - 1
  <2>1. h + i \in 0 .. 2 * c - 1
    BY <1>1
  <2>2. /\ (h + i) % c = IF h + i < c THEN h + i ELSE h + i - c
        /\ (h + i) % c \in 0 .. c - 1
    <3> DEFINE x == h + i
    <3>1. x \in 0 .. 2 * c - 1
      BY <2>1
    <3> HIDE DEF x
    <3>2. x % c = (IF x < c THEN x ELSE x - c) /\ x % c \in 0 .. c - 1
      BY <3>1, Remainder
    <3> QED BY <3>2, <1>1 DEF x
  <2>3. Probe(t, k, i) = (h + i) % c
    BY <1>2 DEF Probe
  <2> QED BY <2>2, <2>3
<1>4. ASSUME NEW s \in 0 .. c - 1
      PROVE  Far(s) \in 0 .. c - 1 /\ Probe(t, k, Far(s)) = s
  <2>1. Far(s) \in 0 .. c - 1 /\ (IF h + Far(s) < c THEN h + Far(s) ELSE h + Far(s) - c) = s
    BY <1>1
  <2> QED BY <2>1, <1>3
<1>5. Stops \in SUBSET Nat /\ Stops # {}
  <2>1. PICK s \in 0 .. c - 1 : t[s] = Vacant
    BY DEF HasVacancy
  <2>2. Far(s) \in Stops
    BY <2>1, <1>2, <1>4 DEF ProbeStops
  <2> QED BY <2>2, <1>2
<1>6. PICK m \in Stops : \A y \in Stops : m <= y
  BY <1>5, LeastNat
<1>7. Min(Stops) \in Stops /\ \A y \in Stops : Min(Stops) <= y
  BY <1>6, Zenon DEF Min
<1> DEFINE n == Min(Stops)
           p == ProbeSlot(t, k)
<1>8. p = Probe(t, k, n) /\ n \in 0 .. c - 1 /\ ProbeStops(t, k, n)
  BY <1>2, <1>7 DEF ProbeSlot
<1>9. ASSUME NEW i \in 0 .. c - 1, i < n PROVE ~ProbeStops(t, k, i)
  <2>1. i \notin Stops
    BY <1>2, <1>5, <1>7, <1>9
  <2> QED BY <2>1, <1>2
<1> HIDE DEF n, p, Stops
<1>10. p \in 0 .. c - 1 /\ (t[p] = Vacant \/ t[p][1] = k)
  BY <1>3, <1>8 DEF ProbeStops, Holds
<1>11. ASSUME NEW s \in 0 .. c - 1, OnWay(h, s, p)
       PROVE  t[s] # Vacant /\ t[s][1] # k
  <2>1. p = IF h + n < c THEN h + n ELSE h + n - c
    BY <1>3, <1>8
  <2>2. Far(s) < n
    BY <2>1, <1>1, <1>8, <1>11 DEF OnWay
  <2>3. ~ProbeStops(t, k, Far(s)) /\ Probe(t, k, Far(s)) = s
    BY <2>2, <1>4, <1>9
  <2> QED BY <2>3 DEF ProbeStops, Holds
<1> QED BY <1>10, <1>11 DEF EndsAt, h, p

\* It ends in one place only.
LEMMA OneEnd ==
  ASSUME NEW c \in Nat \ {0}, NEW t, NEW k \in Keys, NEW p, NEW q,
         EndsAt(t, c, k, p), EndsAt(t, c, k, q)
  PROVE  p = q
<1> DEFINE h == Hash[k] % c
<1>1. h \in 0 .. c - 1 /\ p \in 0 .. c - 1 /\ q \in 0 .. c - 1
  BY HomeOf DEF EndsAt
<1>2. p # q => OnWay(h, p, q) \/ OnWay(h, q, p)
  BY <1>1 DEF OnWay
<1> QED BY <1>1, <1>2 DEF EndsAt

LEMMA ProbeIs ==
  ASSUME NEW c \in Nat \ {0}, NEW t \in Tables(c), NEW k \in Keys, NEW p, EndsAt(t, c, k, p),
         HasVacancy(t, c)
  PROVE  ProbeSlot(t, k) = p
BY ProbeEnds, OneEnd
-----------------------------------------------------------------------------
(* Counting slots.                                                         *)

LEMMA OccupiedFinite ==
  ASSUME NEW c \in Nat \ {0}, NEW t \in Tables(c)
  PROVE  /\ IsFiniteSet(Occupied(t)) /\ Occupied(t) \subseteq 0 .. c - 1
         /\ Cardinality(Occupied(t)) \in 0 .. c
         /\ HasVacancy(t, c) <=> Cardinality(Occupied(t)) < c
<1>1. IsFiniteSet(0 .. c - 1) /\ Cardinality(0 .. c - 1) = c
  BY FS_Interval
<1>2. Occupied(t) \subseteq 0 .. c - 1
  BY TableFacts DEF Occupied
<1>3. IsFiniteSet(Occupied(t)) /\ Cardinality(Occupied(t)) <= c
  BY <1>1, <1>2, FS_Subset
<1>4. Cardinality(Occupied(t)) = c => Occupied(t) = 0 .. c - 1
  BY <1>1, <1>2, FS_Subset
<1>5. HasVacancy(t, c) <=> Occupied(t) # 0 .. c - 1
  BY <1>2, TableFacts DEF HasVacancy, Occupied
<1>6. Cardinality(Occupied(t)) \in Nat
  BY <1>3, FS_CardinalityType
<1> QED BY <1>1, <1>2, <1>3, <1>4, <1>5, <1>6

LEMMA EmptyTableIs ==
  ASSUME NEW c \in Nat \ {0}
  PROVE  /\ EmptyTable(c) \in Tables(c) /\ Occupied(EmptyTable(c)) = {}
         /\ Cardinality(Occupied(EmptyTable(c))) = 0
<1>1. EmptyTable(c) \in Tables(c)
  BY DEF EmptyTable, Tables
<1>2. Occupied(EmptyTable(c)) = {}
  BY DEF EmptyTable, Occupied
<1> QED BY <1>1, <1>2, FS_EmptySet

\* Present asks whether the probe ended at an occupied slot.
LEMMA PresentIs ==
  ASSUME NEW c \in Nat \ {0}, NEW t \in Tables(c), NEW k \in Keys, HasVacancy(t, c)
  PROVE  /\ ProbeSlot(t, k) \in 0 .. c - 1
         /\ Present(t, k) <=> t[ProbeSlot(t, k)] # Vacant
         /\ t[ProbeSlot(t, k)] # Vacant => t[ProbeSlot(t, k)][1] = k
BY ProbeEnds DEF EndsAt, Present, Holds

\* insert fills one slot, or gives one a new value.
LEMMA PutIs ==
  ASSUME NEW c \in Nat \ {0}, NEW t \in Tables(c), NEW k \in Keys, NEW v \in Values,
         HasVacancy(t, c)
  PROVE  /\ Put(t, k, v) \in Tables(c)
         /\ Put(t, k, v)[ProbeSlot(t, k)] = Slot(k, v)
         /\ \A i \in 0 .. c - 1 : i # ProbeSlot(t, k) => Put(t, k, v)[i] = t[i]
         /\ Occupied(Put(t, k, v)) = Occupied(t) \cup {ProbeSlot(t, k)}
         /\ Cardinality(Occupied(Put(t, k, v))) =
              IF Present(t, k) THEN Cardinality(Occupied(t)) ELSE Cardinality(Occupied(t)) + 1
<1> DEFINE p == ProbeSlot(t, k)
           u == Put(t, k, v)
<1>1. p \in 0 .. c - 1 /\ (Present(t, k) <=> t[p] # Vacant)
  BY PresentIs
<1>2. DOMAIN t = 0 .. c - 1
  BY TableFacts
<1>3. Slot(k, v) \in Keys \X Values /\ Slot(k, v) # Vacant
  BY SlotIsFull DEF Slot
<1>4. u = [t EXCEPT ![p] = Slot(k, v)]
  BY DEF Put
<1> HIDE DEF p, u
<1>5. u \in Tables(c) /\ u[p] = Slot(k, v) /\ \A i \in 0 .. c - 1 : i # p => u[i] = t[i]
  BY <1>1, <1>2, <1>3, <1>4 DEF Tables
<1>6. Occupied(u) = Occupied(t) \cup {p}
  <2>1. DOMAIN u = 0 .. c - 1
    BY <1>5, TableFacts
  <2> QED BY <2>1, <1>1, <1>2, <1>3, <1>5 DEF Occupied
<1>7. Cardinality(Occupied(u)) =
        IF Present(t, k) THEN Cardinality(Occupied(t)) ELSE Cardinality(Occupied(t)) + 1
  <2>1. IsFiniteSet(Occupied(t)) /\ Cardinality(Occupied(t)) \in Nat
    BY OccupiedFinite
  <2>2. Present(t, k) <=> p \in Occupied(t)
    BY <1>1, <1>2 DEF Occupied
  <2> QED BY <2>1, <2>2, <1>6, FS_AddElement
<1> QED BY <1>5, <1>6, <1>7 DEF p, u
-----------------------------------------------------------------------------
(* Tidy tables, in which every key is where a probe for it ends, and what  *)
(* is in them.                                                             *)

Tidy(t, c) == \A i \in 0 .. c - 1 : t[i] # Vacant => EndsAt(t, c, t[i][1], i)

Contents(t) == {t[i] : i \in Occupied(t)}

\* In a tidy table a key is in one slot only.
LEMMA TidyMeansOneEach ==
  ASSUME NEW c \in Nat \ {0}, NEW t \in Tables(c), Tidy(t, c),
         NEW i \in 0 .. c - 1, NEW j \in 0 .. c - 1,
         t[i] # Vacant, t[j] # Vacant, t[i][1] = t[j][1]
  PROVE  i = j
<1>1. t[i][1] \in Keys
  BY TableFacts
<1>2. EndsAt(t, c, t[i][1], i) /\ EndsAt(t, c, t[i][1], j)
  BY DEF Tidy
<1> QED BY <1>1, <1>2, OneEnd

\* insert leaves a tidy table tidy, whatever the hash.
LEMMA PutKeepsTidy ==
  ASSUME NEW c \in Nat \ {0}, NEW t \in Tables(c), NEW k \in Keys, NEW v \in Values,
         HasVacancy(t, c), Tidy(t, c)
  PROVE  Tidy(Put(t, k, v), c)
<1> DEFINE p == ProbeSlot(t, k)
           u == Put(t, k, v)
<1>1. EndsAt(t, c, k, p)
  BY ProbeEnds
<1>2. u \in Tables(c) /\ u[p] = Slot(k, v) /\ \A i \in 0 .. c - 1 : i # p => u[i] = t[i]
  BY PutIs
<1>3. u[p] # Vacant /\ u[p][1] = k
  BY <1>2, SlotIsFull
<1> HIDE DEF p, u
<1> SUFFICES ASSUME NEW i \in 0 .. c - 1, u[i] # Vacant
             PROVE  EndsAt(u, c, u[i][1], i)
  BY DEF Tidy, u
<1>4. \A x \in Keys : Hash[x] % c \in 0 .. c - 1
  BY HomeOf
<1>5. p \in 0 .. c - 1
  BY <1>1 DEF EndsAt
<1>6. CASE i = p
  <2>1. \A s \in 0 .. c - 1 : OnWay(Hash[k] % c, s, p) => s # p
    BY <1>4, <1>5 DEF OnWay
  <2> QED BY <2>1, <1>1, <1>2, <1>3, <1>6 DEF EndsAt
<1>7. CASE i # p
  <2> DEFINE x == t[i][1]
  <2>1. u[i] = t[i] /\ EndsAt(t, c, x, i) /\ x \in Keys
    BY <1>2, <1>7, TableFacts DEF Tidy
  <2>2. ASSUME NEW s \in 0 .. c - 1, OnWay(Hash[x] % c, s, i)
        PROVE  u[s] # Vacant /\ u[s][1] # x
    <3>1. t[s] # Vacant /\ t[s][1] # x
      BY <2>1, <2>2 DEF EndsAt
    <3>2. CASE s # p
      BY <3>1, <3>2, <1>2
    <3>3. CASE s = p
      <4>1. t[p] # Vacant /\ t[p][1] = k
        BY <3>1, <3>3, <1>1 DEF EndsAt
      <4> QED BY <4>1, <3>1, <3>3, <1>3
    <3> QED BY <3>2, <3>3
  <2> QED BY <2>1, <2>2 DEF EndsAt
<1> QED BY <1>6, <1>7

\* What a tidy table holds after insert.
LEMMA PutContents ==
  ASSUME NEW c \in Nat \ {0}, NEW t \in Tables(c), NEW k \in Keys, NEW v \in Values,
         HasVacancy(t, c), Tidy(t, c)
  PROVE  Contents(Put(t, k, v)) = {x \in Contents(t) : x[1] # k} \cup {Slot(k, v)}
<1> DEFINE p == ProbeSlot(t, k)
           u == Put(t, k, v)
<1>1. /\ p \in 0 .. c - 1 /\ (t[p] # Vacant => t[p][1] = k)
      /\ u[p] = Slot(k, v) /\ \A i \in 0 .. c - 1 : i # p => u[i] = t[i]
      /\ Occupied(u) = Occupied(t) \cup {p}
      /\ Occupied(t) \subseteq 0 .. c - 1
      /\ \A i \in Occupied(t) : t[i] # Vacant
  <2>1. p \in 0 .. c - 1 /\ (t[p] # Vacant => t[p][1] = k)
    BY PresentIs
  <2>2. /\ u[p] = Slot(k, v) /\ \A i \in 0 .. c - 1 : i # p => u[i] = t[i]
        /\ Occupied(u) = Occupied(t) \cup {p}
    BY PutIs
  <2>3. Occupied(t) \subseteq 0 .. c - 1 /\ \A i \in Occupied(t) : t[i] # Vacant
    BY OccupiedFinite DEF Occupied
  <2> QED BY <2>1, <2>2, <2>3
<1>2. \A i \in Occupied(t) : t[i][1] = k => i = p
  <2>1. ASSUME NEW i \in Occupied(t), t[i][1] = k PROVE i = p
    <3>1. EndsAt(t, c, k, i)
      BY <1>1, <2>1 DEF Tidy
    <3>2. EndsAt(t, c, k, p)
      BY ProbeEnds
    <3> QED BY <3>1, <3>2, OneEnd
  <2> QED BY <2>1
<1> HIDE DEF p, u
<1>3. Contents(u) \subseteq {x \in Contents(t) : x[1] # k} \cup {Slot(k, v)}
  <2>1. ASSUME NEW i \in Occupied(u) PROVE u[i] = Slot(k, v) \/ (u[i] \in Contents(t) /\ u[i][1] # k)
    BY <2>1, <1>1, <1>2 DEF Contents
  <2> QED BY <2>1 DEF Contents
<1>4. {x \in Contents(t) : x[1] # k} \cup {Slot(k, v)} \subseteq Contents(u)
  <2>1. ASSUME NEW i \in Occupied(t), t[i][1] # k PROVE t[i] \in Contents(u)
    <3>1. i # p
      BY <2>1, <1>1
    <3> QED BY <3>1, <1>1 DEF Contents
  <2> QED BY <2>1, <1>1 DEF Contents
<1> QED BY <1>3, <1>4 DEF u
-----------------------------------------------------------------------------
(* Growth.  f[n] is the new table after the first n slots of t; the step   *)
(* from n - 1 to n is the definition of "after" in Grown.                  *)

CopyStep(t, f, n) ==
  IF n = 0 THEN EmptyTable(2 * Capacity(t))
  ELSE IF t[n - 1] = Vacant THEN f[n - 1]
  ELSE Put(f[n - 1], t[n - 1][1], t[n - 1][2])
Copies(t, f, n) == \A m \in 0 .. n : f[m] = CopyStep(t, f, m)
Copying(t, f) == f = [n \in 0 .. Capacity(t) |-> CopyStep(t, f, n)]

LEMMA GrownChooses ==
  ASSUME NEW t
  PROVE  Grown(t) = (CHOOSE f : Copying(t, f))[Capacity(t)]
BY DEF Grown, Copying, CopyStep

\* There is a function that computes it: otherwise there is a least number of
\* slots for which there is none, and one slot less has one.
LEMMA CopyExists ==
  ASSUME NEW t, NEW c \in Nat, Capacity(t) = c
  PROVE  \E f : Copying(t, f)
<1> DEFINE Stuck == {n \in 0 .. c : ~ \E f : f = [m \in 0 .. n |-> f[m]] /\ Copies(t, f, n)}
<1>1. CASE Stuck = {}
  <2>1. c \notin Stuck /\ c \in 0 .. c
    BY <1>1
  <2>2. PICK f : f = [m \in 0 .. c |-> f[m]] /\ Copies(t, f, c)
    BY <2>1
  <2>3. f = [n \in 0 .. c |-> CopyStep(t, f, n)]
    BY <2>2 DEF Copies
  <2> QED BY <2>3 DEF Copying
<1>2. CASE Stuck # {}
  <2>1. PICK n \in Stuck : \A m \in Stuck : n <= m
    <3>1. Stuck \in SUBSET Nat
      OBVIOUS
    <3> HIDE DEF Stuck
    <3> QED BY <3>1, <1>2, LeastNat
  <2>2. CASE n = 0
    <3> DEFINE f == [m \in 0 .. 0 |-> EmptyTable(2 * Capacity(t))]
    <3>1. f[0] = CopyStep(t, f, 0)
      BY DEF CopyStep
    <3>2. f = [m \in 0 .. n |-> f[m]] /\ Copies(t, f, n)
      BY <2>2, <3>1 DEF Copies
    <3> QED BY <3>2
  <2>3. CASE n # 0
    <3>1. n - 1 \in 0 .. c /\ n - 1 \notin Stuck
      BY <2>1, <2>3
    <3>2. PICK g : g = [m \in 0 .. n - 1 |-> g[m]] /\ Copies(t, g, n - 1)
      BY <3>1
    <3> DEFINE f == [m \in 0 .. n |-> IF m = n THEN CopyStep(t, g, n) ELSE g[m]]
    <3>3. n \in Nat /\ \A m \in 0 .. n - 1 : f[m] = g[m]
      BY <2>1
    <3>4. f[n] = CopyStep(t, g, n)
      BY <3>3
    <3>5. f = [m \in 0 .. n |-> f[m]]
      OBVIOUS
    <3> HIDE DEF f
    <3>6. ASSUME NEW m \in 0 .. n PROVE f[m] = CopyStep(t, f, m)
      <4>1. CopyStep(t, f, m) = CopyStep(t, g, m)
        BY <3>3 DEF CopyStep
      <4>2. m \in 0 .. n - 1 => g[m] = CopyStep(t, g, m)
        BY <3>2 DEF Copies
      <4> QED BY <4>1, <4>2, <3>3, <3>4
    <3> QED BY <3>5, <3>6, <2>1 DEF Copies
  <2> QED BY <2>2, <2>3
<1> QED BY <1>1, <1>2

LEMMA GrownIs ==
  ASSUME NEW t, NEW c \in Nat, Capacity(t) = c
  PROVE  \E f : Copies(t, f, c) /\ Grown(t) = f[c]
<1> DEFINE f == CHOOSE f : Copying(t, f)
<1>1. Copying(t, f)
  BY CopyExists
<1>2. Grown(t) = f[c]
  BY GrownChooses
<1> HIDE DEF f
<1>3. Copies(t, f, c)
  BY <1>1 DEF Copying, Copies
<1> QED BY <1>2, <1>3

\* What the new table u is after n slots of t: tidy, though t need not be, and
\* with what was in those slots, if t had each key once.
OneEach(t, c) ==
  \A i, j \in 0 .. c - 1 : t[i] # Vacant /\ t[j] # Vacant /\ t[i][1] = t[j][1] => i = j
FullBefore(t, n) == {i \in 0 .. n - 1 : t[i] # Vacant}
Partway(t, c, u, n) ==
  /\ u \in Tables(2 * c)
  /\ Cardinality(Occupied(u)) <= n
  /\ Tidy(u, 2 * c)
  /\ OneEach(t, c) => Contents(u) = {t[i] : i \in FullBefore(t, n)}

LEMMA EmptyIsPartway ==
  ASSUME NEW c \in Nat \ {0}, NEW t \in Tables(c)
  PROVE  Partway(t, c, EmptyTable(2 * c), 0)
<1>1. 2 * c \in Nat \ {0}
  OBVIOUS
<1> DEFINE u == EmptyTable(2 * c)
<1>2. u \in Tables(2 * c) /\ Occupied(u) = {} /\ Cardinality(Occupied(u)) = 0
  BY <1>1, EmptyTableIs
<1>3. Tidy(u, 2 * c)
  <2>1. DOMAIN u = 0 .. 2 * c - 1
    BY <1>2 DEF Tables
  <2> QED BY <2>1, <1>2 DEF Tidy, Occupied
<1>4. Contents(u) = {} /\ FullBefore(t, 0) = {}
  BY <1>2 DEF Contents, FullBefore
<1> QED BY <1>2, <1>3, <1>4 DEF Partway

LEMMA PartwayGoesOn ==
  ASSUME NEW c \in Nat \ {0}, NEW t \in Tables(c), NEW n \in 1 .. c, NEW u,
         Partway(t, c, u, n - 1), t[n - 1] # Vacant
  PROVE  Partway(t, c, Put(u, t[n - 1][1], t[n - 1][2]), n)
<1> DEFINE k == t[n - 1][1]
           v == t[n - 1][2]
           w == Put(u, k, v)
<1>1. k \in Keys /\ v \in Values /\ Slot(k, v) = t[n - 1] /\ n - 1 \in 0 .. c - 1
  BY TableFacts DEF Slot
<1>2. 2 * c \in Nat \ {0} /\ u \in Tables(2 * c) /\ Tidy(u, 2 * c)
  BY DEF Partway
<1>3. HasVacancy(u, 2 * c) /\ Cardinality(Occupied(u)) \in 0 .. n - 1
  BY <1>2, OccupiedFinite DEF Partway
<1>4. w \in Tables(2 * c) /\ Cardinality(Occupied(w)) <= n
  BY <1>1, <1>2, <1>3, PutIs
<1>5. Tidy(w, 2 * c)
  BY <1>1, <1>2, <1>3, PutKeepsTidy
<1>6. ASSUME OneEach(t, c) PROVE Contents(w) = {t[i] : i \in FullBefore(t, n)}
  <2>1. Contents(u) = {t[i] : i \in FullBefore(t, n - 1)}
    BY <1>6 DEF Partway
  <2>2. Contents(w) = {x \in Contents(u) : x[1] # k} \cup {t[n - 1]}
    BY <1>1, <1>2, <1>3, PutContents
  <2>3. FullBefore(t, n) = FullBefore(t, n - 1) \cup {n - 1}
    BY <1>1 DEF FullBefore
  <2>4. \A i \in FullBefore(t, n - 1) : t[i][1] # k
    BY <1>1, <1>6 DEF FullBefore, OneEach
  <2> HIDE DEF k, v, w
  <2> QED BY <2>1, <2>2, <2>3, <2>4
<1> QED BY <1>4, <1>5, <1>6 DEF Partway

\* Grown returns a tidy table with a vacancy.
LEMMA GrownIsTidy ==
  ASSUME NEW c \in Nat \ {0}, NEW t \in Tables(c)
  PROVE  Partway(t, c, Grown(t), c)
<1>1. Capacity(t) = c
  BY TableFacts
<1>2. PICK f : Copies(t, f, c) /\ Grown(t) = f[c]
  BY <1>1, GrownIs
<1> DEFINE Wrong == {n \in 0 .. c : ~Partway(t, c, f[n], n)}
<1> SUFFICES ASSUME Wrong # {} PROVE FALSE
  BY <1>2
<1>3. PICK n \in Wrong : \A m \in Wrong : n <= m
  <2>1. Wrong \in SUBSET Nat
    OBVIOUS
  <2> HIDE DEF Wrong
  <2> QED BY <2>1, LeastNat
<1>4. n \in 0 .. c /\ f[n] = CopyStep(t, f, n)
  BY <1>2 DEF Copies
<1>5. CASE n = 0
  BY <1>1, <1>4, <1>5, EmptyIsPartway DEF CopyStep
<1>6. CASE n # 0
  <2>1. n \in 1 .. c /\ n - 1 \in 0 .. c /\ n - 1 \notin Wrong
    BY <1>3, <1>4, <1>6
  <2>2. Partway(t, c, f[n - 1], n - 1)
    BY <2>1
  <2>3. CASE t[n - 1] # Vacant
    BY <2>1, <2>2, <2>3, <1>4, <1>6, PartwayGoesOn DEF CopyStep
  <2>4. CASE t[n - 1] = Vacant
    <3>1. f[n] = f[n - 1]
      BY <2>4, <1>4, <1>6 DEF CopyStep
    <3>2. FullBefore(t, n) = FullBefore(t, n - 1)
      BY <2>1, <2>4 DEF FullBefore
    <3>3. Cardinality(Occupied(f[n])) <= n
      <4>1. Cardinality(Occupied(f[n])) \in Nat
        BY <2>2, <3>1, OccupiedFinite DEF Partway
      <4> QED BY <4>1, <2>1, <2>2, <3>1 DEF Partway
    <3> QED BY <2>2, <3>1, <3>2, <3>3 DEF Partway
  <2> QED BY <2>3, <2>4
<1> QED BY <1>5, <1>6
-----------------------------------------------------------------------------
(* The backward shift.  It moves the slots from e to last back by one and  *)
(* vacates last.                                                           *)

StopsAfter(t, c, i) ==
  \/ t[Next1(c, i)] = Vacant
  \/ Next1(c, i) = Hash[t[Next1(c, i)][1]] % c

Shifted(t, c, e, last, u) ==
  /\ last \in 0 .. c - 1 /\ u \in Tables(c)
  /\ StopsAfter(t, c, last) /\ u[last] = Vacant
  /\ \A s \in 0 .. c - 1 : OnWay(e, s, last) => ~StopsAfter(t, c, s) /\ u[s] = t[Next1(c, s)]
  /\ \A s \in 0 .. c - 1 : ~OnWay(e, s, last) /\ s # last => u[s] = t[s]

LEMMA NextIs ==
  ASSUME NEW c \in Nat \ {0}, NEW i \in 0 .. c - 1
  PROVE  (i + 1) % c = Next1(c, i) /\ Next1(c, i) \in 0 .. c - 1
<1>1. CASE i = c - 1
  BY <1>1 DEF Next1
<1>2. CASE i # c - 1
  BY <1>2 DEF Next1
<1> QED BY <1>1, <1>2

\* the slot before i
Last1(c, i) == IF i = 0 THEN c - 1 ELSE i - 1

LEMMA LastIs ==
  ASSUME NEW c \in Nat \ {0}, NEW i \in 0 .. c - 1
  PROVE  /\ Last1(c, i) \in 0 .. c - 1 /\ Next1(c, Last1(c, i)) = i
         /\ Last1(c, Next1(c, i)) = i
BY DEF Last1, Next1

LEMMA ShiftIs ==
  ASSUME NEW c \in Nat \ {0}, NEW t \in Tables(c), HasVacancy(t, c),
         NEW e \in 0 .. c - 1, t[e] # Vacant
  PROVE  \E last : Shifted(t, c, e, last, BackwardShift(t, e))
<1> DEFINE At(n) == (e + n) % c
           Around(n) == IF e + n < c THEN e + n ELSE e + n - c
           Far(s) == IF e <= s THEN s - e ELSE s - e + c
           Ends == {n \in 0 .. c - 1 : ShiftStopsAfter(t, At(n))}
           run == Min(Ends)
           moved == {At(n) : n \in 0 .. run - 1}
           u == BackwardShift(t, e)
<1>1. Capacity(t) = c /\ DOMAIN t = 0 .. c - 1
  BY TableFacts
<1>2. u = [j \in DOMAIN t |-> IF j \in moved THEN t[(j + 1) % c]
                              ELSE IF j = At(run) THEN Vacant ELSE t[j]]
  BY <1>1 DEF BackwardShift
<1>3. \A n \in 0 .. c - 1 : At(n) = Around(n) /\ At(n) \in 0 .. c - 1
  <2>1. ASSUME NEW n \in 0 .. c - 1 PROVE At(n) = Around(n) /\ At(n) \in 0 .. c - 1
    <3> DEFINE x == e + n
    <3>1. x \in 0 .. 2 * c - 1
      OBVIOUS
    <3> HIDE DEF x
    <3>2. x % c = (IF x < c THEN x ELSE x - c) /\ x % c \in 0 .. c - 1
      BY <3>1, Remainder
    <3> QED BY <3>2 DEF x
  <2> QED BY <2>1
<1> HIDE DEF At
<1>4. \A s \in 0 .. c - 1 : Far(s) \in 0 .. c - 1 /\ Around(Far(s)) = s
  OBVIOUS
<1>5. \A i \in 0 .. c - 1 : ShiftStopsAfter(t, i) <=> StopsAfter(t, c, i)
  <2>1. ASSUME NEW i \in 0 .. c - 1 PROVE ShiftStopsAfter(t, i) <=> StopsAfter(t, c, i)
    BY <1>1, NextIs DEF ShiftStopsAfter, StopsAfter, Home
  <2> QED BY <2>1
<1>6. Ends \in SUBSET Nat /\ Ends # {}
  <2>1. PICK v \in 0 .. c - 1 : t[v] = Vacant
    BY DEF HasVacancy
  <2>2. Last1(c, v) \in 0 .. c - 1 /\ Next1(c, Last1(c, v)) = v
    BY LastIs
  <2>3. StopsAfter(t, c, Last1(c, v))
    BY <2>1, <2>2 DEF StopsAfter
  <2>4. Far(Last1(c, v)) \in 0 .. c - 1 /\ At(Far(Last1(c, v))) = Last1(c, v)
    BY <2>2, <1>3, <1>4
  <2>5. Far(Last1(c, v)) \in Ends
    BY <2>2, <2>3, <2>4, <1>5
  <2> QED BY <2>5
<1>7. run \in Ends /\ \A y \in Ends : run <= y
  <2>1. PICK m \in Ends : \A y \in Ends : m <= y
    BY <1>6, LeastNat
  <2> QED BY <2>1, Zenon DEF Min
<1>8. run \in 0 .. c - 1 /\ ShiftStopsAfter(t, At(run))
  BY <1>7
<1>9. ASSUME NEW n \in 0 .. c - 1, n < run PROVE ~ShiftStopsAfter(t, At(n))
  <2>1. n \notin Ends
    BY <1>6, <1>7, <1>9
  <2> QED BY <2>1
<1> DEFINE last == At(run)
<1>10. last = Around(run) /\ last \in 0 .. c - 1 /\ StopsAfter(t, c, last)
  BY <1>3, <1>5, <1>8
<1> HIDE DEF run, Ends
<1>11. ASSUME NEW s \in 0 .. c - 1
       PROVE  /\ s \in moved <=> OnWay(e, s, last)
              /\ s \in moved => ~StopsAfter(t, c, s)
  <2>1. s \in moved => OnWay(e, s, last) /\ ~StopsAfter(t, c, s)
    <3>1. ASSUME s \in moved PROVE OnWay(e, s, last) /\ ~StopsAfter(t, c, s)
      <4>1. PICK n \in 0 .. run - 1 : s = At(n)
        BY <3>1
      <4>2. n \in 0 .. c - 1 /\ n < run /\ s = Around(n)
        BY <4>1, <1>3, <1>8
      <4>3. OnWay(e, s, last)
        BY <4>2, <1>8, <1>10 DEF OnWay
      <4>4. ~StopsAfter(t, c, s)
        BY <4>1, <4>2, <1>5, <1>9
      <4> QED BY <4>3, <4>4
    <3> QED BY <3>1
  <2>2. OnWay(e, s, last) => s \in moved
    <3>1. ASSUME OnWay(e, s, last) PROVE s \in moved
      <4>1. Far(s) \in 0 .. run - 1
        BY <3>1, <1>8, <1>10 DEF OnWay
      <4>2. s = At(Far(s))
        BY <1>3, <1>4
      <4> HIDE DEF Far
      <4> QED BY <4>1, <4>2
    <3> QED BY <3>1
  <2> QED BY <2>1, <2>2
<1>12. ~OnWay(e, last, last)
  BY <1>10 DEF OnWay
<1> HIDE DEF last, moved, Around
<1>13. /\ DOMAIN u = 0 .. c - 1 /\ u[last] = Vacant
       /\ \A s \in 0 .. c - 1 : OnWay(e, s, last) => u[s] = t[Next1(c, s)]
       /\ \A s \in 0 .. c - 1 : ~OnWay(e, s, last) /\ s # last => u[s] = t[s]
  <2>1. ASSUME NEW s \in 0 .. c - 1
        PROVE  u[s] = IF OnWay(e, s, last) THEN t[Next1(c, s)] ELSE IF s = last THEN Vacant ELSE t[s]
    <3>1. u[s] = IF s \in moved THEN t[(s + 1) % c] ELSE IF s = last THEN Vacant ELSE t[s]
      BY <1>1, <1>2 DEF last
    <3>2. (s + 1) % c = Next1(c, s)
      BY NextIs
    <3> QED BY <3>1, <3>2, <1>11
  <2>2. DOMAIN u = 0 .. c - 1
    BY <1>1, <1>2
  <2> HIDE DEF u
  <2> QED BY <2>1, <2>2, <1>10, <1>12
<1>14. u \in Tables(c)
  <2>1. ASSUME NEW s \in 0 .. c - 1 PROVE u[s] \in {Vacant} \cup (Keys \X Values)
    <3>1. Next1(c, s) \in 0 .. c - 1
      BY NextIs
    <3>2. u[s] = t[Next1(c, s)] \/ u[s] = Vacant \/ u[s] = t[s]
      BY <1>13
    <3> HIDE DEF u
    <3> QED BY <3>1, <3>2 DEF Tables
  <2>2. u = [s \in 0 .. c - 1 |-> u[s]]
    BY <1>1, <1>2
  <2> HIDE DEF u
  <2> QED BY <2>1, <2>2 DEF Tables
<1> HIDE DEF u
<1>15. Shifted(t, c, e, last, u)
  BY <1>10, <1>11, <1>13, <1>14 DEF Shifted
<1> QED BY <1>15 DEF u

\* What is shifted is occupied, and so is the slot that is vacated: erase frees
\* one slot.
LEMMA ShiftFreesOne ==
  ASSUME NEW c \in Nat \ {0}, NEW t \in Tables(c), NEW e \in 0 .. c - 1, t[e] # Vacant,
         NEW last, NEW u, Shifted(t, c, e, last, u)
  PROVE  /\ t[last] # Vacant
         /\ \A s \in 0 .. c - 1 : OnWay(e, s, last) => t[s] # Vacant
         /\ Occupied(u) = Occupied(t) \ {last}
         /\ Cardinality(Occupied(u)) = Cardinality(Occupied(t)) - 1
<1>1. last \in 0 .. c - 1 /\ u \in Tables(c) /\ u[last] = Vacant
  BY DEF Shifted
<1>2. ASSUME NEW s \in 0 .. c - 1, OnWay(e, s, last) \/ s = last, s # e
      PROVE  t[s] # Vacant
  <2>1. /\ Last1(c, s) \in 0 .. c - 1 /\ Next1(c, Last1(c, s)) = s
    BY LastIs
  <2>2. OnWay(e, Last1(c, s), last)
    BY <1>1, <1>2 DEF OnWay, Last1
  <2>3. ~StopsAfter(t, c, Last1(c, s))
    BY <2>1, <2>2 DEF Shifted
  <2> QED BY <2>1, <2>3 DEF StopsAfter
<1>3. t[last] # Vacant /\ \A s \in 0 .. c - 1 : OnWay(e, s, last) => t[s] # Vacant
  BY <1>1, <1>2
<1>4. \A s \in 0 .. c - 1 : OnWay(e, s, last) => u[s] # Vacant
  <2>1. ASSUME NEW s \in 0 .. c - 1, OnWay(e, s, last) PROVE u[s] # Vacant
    BY <2>1 DEF Shifted, StopsAfter
  <2> QED BY <2>1
<1>5. \A s \in 0 .. c - 1 : ~OnWay(e, s, last) /\ s # last => u[s] = t[s]
  BY DEF Shifted
<1>6. DOMAIN t = 0 .. c - 1 /\ DOMAIN u = 0 .. c - 1
  BY <1>1, TableFacts
<1>7. Occupied(u) = Occupied(t) \ {last}
  BY <1>1, <1>3, <1>4, <1>5, <1>6 DEF Occupied
<1>8. IsFiniteSet(Occupied(t)) /\ last \in Occupied(t)
  BY <1>1, <1>3, <1>6, OccupiedFinite DEF Occupied
<1>9. Cardinality(Occupied(u)) = Cardinality(Occupied(t)) - 1
  BY <1>7, <1>8, FS_RemoveElement
<1> QED BY <1>3, <1>7, <1>9

\* Everything but the erased entry is still in the table.
LEMMA ShiftContents ==
  ASSUME NEW c \in Nat \ {0}, NEW t \in Tables(c), NEW e \in 0 .. c - 1, t[e] # Vacant,
         NEW last, NEW u, Shifted(t, c, e, last, u), OneEach(t, c)
  PROVE  Contents(u) = {x \in Contents(t) : x[1] # t[e][1]}
<1>1. /\ last \in 0 .. c - 1 /\ u \in Tables(c)
      /\ \A s \in 0 .. c - 1 : OnWay(e, s, last) => u[s] = t[Next1(c, s)]
      /\ \A s \in 0 .. c - 1 : ~OnWay(e, s, last) /\ s # last => u[s] = t[s]
  BY DEF Shifted
<1>2. /\ Occupied(u) = Occupied(t) \ {last}
      /\ \A s \in 0 .. c - 1 : OnWay(e, s, last) => t[s] # Vacant
      /\ t[last] # Vacant
  BY ShiftFreesOne
<1>3. \A s : s \in Occupied(t) <=> s \in 0 .. c - 1 /\ t[s] # Vacant
  BY TableFacts DEF Occupied
<1>4. ASSUME NEW s \in Occupied(u)
      PROVE  \E j \in Occupied(t) : j # e /\ u[s] = t[j]
  <2>1. s \in 0 .. c - 1 /\ s # last /\ t[s] # Vacant
    BY <1>2, <1>3, <1>4
  <2>2. CASE OnWay(e, s, last)
    <3>1. Next1(c, s) \in 0 .. c - 1 /\ Next1(c, s) # e
          /\ (OnWay(e, Next1(c, s), last) \/ Next1(c, s) = last)
      BY <1>1, <2>1, <2>2 DEF OnWay, Next1
    <3>2. Next1(c, s) \in Occupied(t)
      BY <3>1, <1>2, <1>3
    <3> QED BY <3>1, <3>2, <2>1, <2>2, <1>1
  <2>3. CASE ~OnWay(e, s, last)
    <3>1. s # e
      BY <2>1, <2>3, <1>1 DEF OnWay
    <3> QED BY <3>1, <2>1, <2>3, <1>1, <1>3
  <2> QED BY <2>2, <2>3
<1>5. ASSUME NEW j \in Occupied(t), j # e
      PROVE  \E s \in Occupied(u) : u[s] = t[j]
  <2>1. j \in 0 .. c - 1 /\ t[j] # Vacant
    BY <1>3, <1>5
  <2>2. CASE OnWay(e, j, last) \/ j = last
    <3>1. Last1(c, j) \in 0 .. c - 1 /\ Next1(c, Last1(c, j)) = j
      BY <2>1, LastIs
    <3>2. OnWay(e, Last1(c, j), last) /\ Last1(c, j) # last
      BY <1>1, <1>5, <2>1, <2>2 DEF OnWay, Last1
    <3>3. Last1(c, j) \in Occupied(u) /\ u[Last1(c, j)] = t[j]
      BY <3>1, <3>2, <1>1, <1>2, <1>3
    <3> QED BY <3>3
  <2>3. CASE ~(OnWay(e, j, last) \/ j = last)
    BY <2>1, <2>3, <1>1, <1>2, <1>5
  <2> QED BY <2>2, <2>3
<1>6. e \in Occupied(t) /\ \A j \in Occupied(t) : t[j][1] = t[e][1] => j = e
  BY <1>3 DEF OneEach
<1>7. Contents(u) \subseteq {x \in Contents(t) : x[1] # t[e][1]}
  <2>1. ASSUME NEW s \in Occupied(u) PROVE u[s] \in {x \in Contents(t) : x[1] # t[e][1]}
    <3>1. PICK j \in Occupied(t) : j # e /\ u[s] = t[j]
      BY <1>4
    <3> QED BY <3>1, <1>6 DEF Contents
  <2> QED BY <2>1 DEF Contents
<1>8. {x \in Contents(t) : x[1] # t[e][1]} \subseteq Contents(u)
  <2>1. ASSUME NEW j \in Occupied(t), t[j][1] # t[e][1] PROVE t[j] \in Contents(u)
    <3>1. j # e
      BY <2>1
    <3>2. PICK s \in Occupied(u) : u[s] = t[j]
      BY <3>1, <1>5
    <3> QED BY <3>2 DEF Contents
  <2> QED BY <2>1 DEF Contents
<1> QED BY <1>7, <1>8

\* A shift that ends at a vacant slot leaves a tidy table tidy: the entries it
\* moves were not at home, and no entry it leaves behind passed the vacant slot.
LEMMA ShiftKeepsTidy ==
  ASSUME NEW c \in Nat \ {0}, NEW t \in Tables(c), NEW e \in 0 .. c - 1, t[e] # Vacant,
         NEW last, NEW u, Shifted(t, c, e, last, u), Tidy(t, c),
         t[Next1(c, last)] = Vacant
  PROVE  Tidy(u, c)
<1>1. /\ last \in 0 .. c - 1 /\ u \in Tables(c) /\ u[last] = Vacant
      /\ \A s \in 0 .. c - 1 : OnWay(e, s, last) => ~StopsAfter(t, c, s) /\ u[s] = t[Next1(c, s)]
      /\ \A s \in 0 .. c - 1 : ~OnWay(e, s, last) /\ s # last => u[s] = t[s]
  BY DEF Shifted
<1>2. \A s \in 0 .. c - 1 : OnWay(e, s, last) => t[s] # Vacant
  BY ShiftFreesOne
<1>3. Next1(c, last) \in 0 .. c - 1 /\ Next1(c, last) # e
  BY <1>1, NextIs
<1> SUFFICES ASSUME NEW i \in 0 .. c - 1, u[i] # Vacant
             PROVE  EndsAt(u, c, u[i][1], i)
  BY DEF Tidy
\* from the entry's slot in t
<1> DEFINE from == IF OnWay(e, i, last) THEN Next1(c, i) ELSE i
           k == u[i][1]
           h == Hash[k] % c
<1>4. from \in 0 .. c - 1 /\ u[i] = t[from] /\ i # last
  BY <1>1, NextIs
<1>5. EndsAt(t, c, k, from) /\ k \in Keys /\ h \in 0 .. c - 1
  <2>1. EndsAt(t, c, k, from) /\ k \in Keys
    BY <1>4, TableFacts DEF Tidy
  <2> QED BY <2>1, HomeOf
<1>6. \A s \in 0 .. c - 1 : OnWay(h, s, from) => t[s] # Vacant /\ t[s][1] # k
  BY <1>5 DEF EndsAt
<1>7. OnWay(e, i, last) => from # h
  <2>1. ASSUME OnWay(e, i, last) PROVE from # h
    <3>1. ~StopsAfter(t, c, i) /\ from = Next1(c, i)
      BY <2>1, <1>1
    <3> QED BY <3>1, <1>4 DEF StopsAfter
  <2> QED BY <2>1
<1> HIDE DEF h, k
<1>8. ASSUME NEW s \in 0 .. c - 1, OnWay(h, s, i)
      PROVE  u[s] # Vacant /\ u[s][1] # k
  <2>1. OnWay(h, s, from)
    BY <1>1, <1>5, <1>7, <1>8 DEF OnWay, Next1
  <2>2. s # last
    <3>1. ASSUME s = last PROVE FALSE
      <4>1. OnWay(h, Next1(c, last), from) \/ Next1(c, last) = from
        BY <2>1, <3>1, <1>1, <1>5 DEF OnWay, Next1
      <4>2. Next1(c, last) # from
        BY <1>4, <1>5
      <4> QED BY <4>1, <4>2, <1>3, <1>6
    <3> QED BY <3>1
  <2>3. CASE ~OnWay(e, s, last)
    BY <2>1, <2>2, <2>3, <1>1, <1>6
  <2>4. CASE OnWay(e, s, last)
    <3>1. u[s] = t[Next1(c, s)] /\ Next1(c, s) \in 0 .. c - 1 /\ t[Next1(c, s)] # Vacant
      BY <2>4, <1>1, NextIs DEF StopsAfter
    <3>2. Next1(c, s) # from
      BY <2>4, <1>1, <1>5, <1>8 DEF OnWay, Next1
    <3>3. t[Next1(c, s)][1] = k => Next1(c, s) = from
      BY <3>1, <1>4, TidyMeansOneEach DEF k
    <3> QED BY <3>1, <3>2, <3>3
  <2> QED BY <2>3, <2>4
<1> QED BY <1>8 DEF EndsAt, k, h
-----------------------------------------------------------------------------
(* What holds for every hash.                                              *)

\* A table of the right kind with a vacancy, and its number of entries.
Sound(t, n) ==
  LET c == Capacity(t) IN
    /\ c \in Nat /\ c >= InitialCapacity /\ PowerOfTwo(c)
    /\ t \in Tables(c) /\ HasVacancy(t, c)
    /\ n = Cardinality(Occupied(t))

HashInv == Sound(slots, size)

LEMMA SoundIs ==
  ASSUME NEW c \in Nat \ {0}, c >= InitialCapacity, PowerOfTwo(c), NEW t \in Tables(c),
         Cardinality(Occupied(t)) < c
  PROVE  Sound(t, Cardinality(Occupied(t))) /\ Capacity(t) = c
BY TableFacts, OccupiedFinite DEF Sound

LEMMA SoundGives ==
  ASSUME NEW t, NEW n, Sound(t, n)
  PROVE  LET c == Capacity(t) IN
           /\ c \in Nat \ {0} /\ c >= InitialCapacity /\ c >= 4 /\ PowerOfTwo(c)
           /\ t \in Tables(c) /\ HasVacancy(t, c) /\ DOMAIN t = 0 .. c - 1
           /\ n = Cardinality(Occupied(t)) /\ n \in 0 .. c
<1> DEFINE c == Capacity(t)
<1>1. /\ c \in Nat /\ c >= InitialCapacity /\ PowerOfTwo(c) /\ t \in Tables(c)
      /\ HasVacancy(t, c) /\ n = Cardinality(Occupied(t))
  BY DEF Sound
<1> HIDE DEF c
<1>2. c >= 4 /\ c \in Nat \ {0}
  BY <1>1, FlatHashMapAssumption
<1>3. DOMAIN t = 0 .. c - 1 /\ n \in 0 .. c
  BY <1>1, <1>2, TableFacts, OccupiedFinite
<1> QED BY <1>1, <1>2, <1>3 DEF c

LEMMA HashInvGives ==
  ASSUME HashInv
  PROVE  LET c == Capacity(slots) IN
           /\ c \in Nat \ {0} /\ c >= InitialCapacity /\ c >= 4 /\ PowerOfTwo(c)
           /\ slots \in Tables(c) /\ HasVacancy(slots, c) /\ DOMAIN slots = 0 .. c - 1
           /\ size = Cardinality(Occupied(slots)) /\ size \in 0 .. c
BY SoundGives DEF HashInv

\* The invariant is what the runs check of every hash.
LEMMA HashInvMeans == HashInv => TypeOK /\ SizeCountsSlots /\ ProbesTerminate
<1> SUFFICES ASSUME HashInv PROVE TypeOK /\ SizeCountsSlots /\ ProbesTerminate
  OBVIOUS
<1> DEFINE c == Capacity(slots)
<1>1. /\ c \in Nat \ {0} /\ c >= InitialCapacity /\ c >= 4 /\ PowerOfTwo(c)
      /\ slots \in Tables(c) /\ HasVacancy(slots, c) /\ DOMAIN slots = 0 .. c - 1
      /\ size = Cardinality(Occupied(slots)) /\ size \in 0 .. c
  BY HashInvGives
<1>2. TypeOK
  BY <1>1 DEF TypeOK, Tables
<1> HIDE DEF c
<1>3. SizeCountsSlots /\ ProbesTerminate
  BY <1>1 DEF SizeCountsSlots, ProbesTerminate, HasVacancy
<1> QED BY <1>2, <1>3

\* What insert puts its key into: the table or, of twice the size, its copy.
LEMMA RoomIs ==
  ASSUME HashInv
  PROVE  LET t == GrowIfLoaded(slots, size)
             n == IF t = slots THEN size ELSE Cardinality(Occupied(t))
         IN  \E c \in Nat \ {0} :
               /\ c >= InitialCapacity /\ PowerOfTwo(c) /\ t \in Tables(c)
               /\ n = Cardinality(Occupied(t)) /\ n + 1 < c
               /\ t = slots \/ Partway(slots, Capacity(slots), t, Capacity(slots))
<1> DEFINE c == Capacity(slots)
           t == GrowIfLoaded(slots, size)
           n == IF t = slots THEN size ELSE Cardinality(Occupied(t))
<1>1. /\ c \in Nat \ {0} /\ c >= InitialCapacity /\ c >= 4 /\ PowerOfTwo(c)
      /\ slots \in Tables(c) /\ size = Cardinality(Occupied(slots)) /\ size \in 0 .. c
  BY HashInvGives
<1> HIDE DEF c
<1>2. n = Cardinality(Occupied(t))
  BY <1>1
<1> HIDE DEF n
<1>3. CASE size * 10 >= c * 7
  <2>1. t = Grown(slots)
    BY <1>3 DEF GrowIfLoaded, c
  <2>2. Partway(slots, c, t, c)
    BY <1>1, <2>1, GrownIsTidy
  <2> HIDE DEF t
  <2>3. 2 * c \in Nat \ {0} /\ 2 * c >= InitialCapacity /\ PowerOfTwo(2 * c)
    BY <1>1, DoubleOfPower, FlatHashMapAssumption
  <2>4. t \in Tables(2 * c) /\ n <= c
    BY <2>2, <1>2 DEF Partway
  <2>5. n \in Nat
    BY <2>3, <2>4, <1>2, OccupiedFinite
  <2>6. n + 1 < 2 * c
    BY <2>4, <2>5, <1>1
  <2> QED BY <2>2, <2>3, <2>4, <2>6, <1>2 DEF c, t, n
<1>4. CASE ~(size * 10 >= c * 7)
  <2>1. t = slots /\ n = size
    BY <1>4 DEF GrowIfLoaded, c, n
  <2>2. size + 1 < c
    BY <1>1, <1>4
  <2> HIDE DEF t
  <2> QED BY <1>1, <1>2, <2>1, <2>2 DEF t, n
<1> QED BY <1>3, <1>4

\* The entries of a table after erase has taken k out of it, and after insert
\* has put k into it.
Without(S, k) == {x \in S : x[1] # k}
Given(S, k, v) == Without(S, k) \cup {Slot(k, v)}

LEMMA InsertDoes ==
  ASSUME HashInv, NEW k \in Keys, NEW v \in Values, Insert(k, v)
  PROVE  /\ Sound(slots', size')
         /\ Tidy(slots, Capacity(slots)) =>
              /\ Tidy(slots', Capacity(slots'))
              /\ Contents(slots') = Given(Contents(slots), k, v)
<1> DEFINE d == Capacity(slots)
           t == GrowIfLoaded(slots, size)
           n == IF t = slots THEN size ELSE Cardinality(Occupied(t))
           u == Put(t, k, v)
<1>1. slots' = u /\ size' = IF Present(t, k) THEN n ELSE n + 1
  BY DEF Insert
<1>2. PICK c \in Nat \ {0} :
        /\ c >= InitialCapacity /\ PowerOfTwo(c) /\ t \in Tables(c)
        /\ n = Cardinality(Occupied(t)) /\ n + 1 < c
        /\ t = slots \/ Partway(slots, d, t, d)
  BY RoomIs
<1>3. d \in Nat \ {0} /\ slots \in Tables(d)
  BY HashInvGives
<1> HIDE DEF d, t, n
<1>4. n \in Nat
  BY <1>2, OccupiedFinite
<1>5. HasVacancy(t, c)
  BY <1>2, <1>4, OccupiedFinite
<1>6. /\ u \in Tables(c)
      /\ Cardinality(Occupied(u)) = IF Present(t, k) THEN n ELSE n + 1
  BY <1>2, <1>5, PutIs
<1> HIDE DEF u
<1>7. Cardinality(Occupied(u)) < c /\ size' = Cardinality(Occupied(u))
  BY <1>1, <1>2, <1>4, <1>6
<1>8. Sound(u, Cardinality(Occupied(u))) /\ Capacity(u) = c
  BY <1>2, <1>6, <1>7, SoundIs
<1>9. ASSUME Tidy(slots, d)
      PROVE  Tidy(u, c) /\ Contents(u) = Given(Contents(slots), k, v)
  <2>1. Tidy(t, c) /\ Contents(t) = Contents(slots)
    <3>1. CASE t = slots
      <4>1. d = c
        BY <3>1, <1>2, TableFacts DEF d
      <4> QED BY <3>1, <4>1, <1>9
    <3>2. CASE Partway(slots, d, t, d)
      <4>1. t \in Tables(2 * d) /\ Tidy(t, 2 * d) /\ 2 * d \in Nat \ {0}
        BY <3>2, <1>3 DEF Partway
      <4>2. c = 2 * d
        BY <4>1, <1>2, TableFacts
      <4>3. OneEach(slots, d)
        BY <1>3, <1>9, TidyMeansOneEach DEF OneEach
      <4>4. FullBefore(slots, d) = Occupied(slots)
        BY <1>3, TableFacts DEF FullBefore, Occupied
      <4> QED BY <3>2, <4>1, <4>2, <4>3, <4>4 DEF Partway, Contents
    <3> QED BY <3>1, <3>2, <1>2
  <2>2. Tidy(u, c)
    BY <2>1, <1>2, <1>5, PutKeepsTidy DEF u
  <2>3. Contents(u) = Given(Contents(t), k, v)
    BY <2>1, <1>2, <1>5, PutContents DEF u, Given, Without
  <2> QED BY <2>1, <2>2, <2>3
<1> QED BY <1>1, <1>7, <1>8, <1>9 DEF d

\* The shift of erase(k) vacates a slot that an occupied one follows.
ShortErase(k) ==
  /\ Erase(k) /\ Present(slots, k)
  /\ \E i \in DOMAIN slots :
       /\ slots[i] # Vacant /\ slots'[i] = Vacant
       /\ slots[(i + 1) % Capacity(slots)] # Vacant

LEMMA EraseDoes ==
  ASSUME HashInv, NEW k \in Keys, Erase(k)
  PROVE  /\ Sound(slots', size') /\ Capacity(slots') = Capacity(slots)
         /\ Tidy(slots, Capacity(slots)) =>
              /\ Contents(slots') = Without(Contents(slots), k)
              /\ ShortErase(k) \/ Tidy(slots', Capacity(slots))
<1> DEFINE c == Capacity(slots)
           e == ProbeSlot(slots, k)
<1>1. /\ c \in Nat \ {0} /\ c >= InitialCapacity /\ PowerOfTwo(c)
      /\ slots \in Tables(c) /\ HasVacancy(slots, c) /\ DOMAIN slots = 0 .. c - 1
      /\ size = Cardinality(Occupied(slots)) /\ size \in 0 .. c
  BY HashInvGives
<1> HIDE DEF c
<1>2. /\ e \in 0 .. c - 1 /\ (Present(slots, k) <=> slots[e] # Vacant)
      /\ slots[e] # Vacant => slots[e][1] = k
  BY <1>1, PresentIs
<1>3. CASE Present(slots, k)
  <2>1. slots' = BackwardShift(slots, e) /\ size' = size - 1
    BY <1>3 DEF Erase
  <2>2. PICK last : Shifted(slots, c, e, last, slots')
    BY <1>1, <1>2, <1>3, <2>1, ShiftIs
  <2> HIDE DEF e
  <2>3. slots' \in Tables(c) /\ last \in 0 .. c - 1 /\ slots'[last] = Vacant
    BY <2>2 DEF Shifted
  <2>4. slots[last] # Vacant /\ Cardinality(Occupied(slots')) = size - 1
    BY <1>1, <1>2, <1>3, <2>2, ShiftFreesOne
  <2>5. Sound(slots', size') /\ Capacity(slots') = c
    BY <1>1, <2>1, <2>3, <2>4, SoundIs
  <2>6. ASSUME Tidy(slots, c)
        PROVE  /\ Contents(slots') = Without(Contents(slots), k)
               /\ ShortErase(k) \/ Tidy(slots', c)
    <3>1. OneEach(slots, c)
      BY <1>1, <2>6, TidyMeansOneEach DEF OneEach
    <3>2. Contents(slots') = Without(Contents(slots), k)
      BY <1>1, <1>2, <1>3, <2>2, <3>1, ShiftContents DEF Without
    <3>3. CASE slots[Next1(c, last)] = Vacant
      BY <1>1, <1>2, <1>3, <2>2, <2>6, <3>2, <3>3, ShiftKeepsTidy
    <3>4. CASE slots[Next1(c, last)] # Vacant
      <4>1. slots[(last + 1) % c] # Vacant
        BY <3>4, <1>1, <2>3, NextIs
      <4> QED BY <3>2, <4>1, <1>1, <1>3, <2>3, <2>4 DEF ShortErase, c
    <3> QED BY <3>3, <3>4
  <2> QED BY <2>5, <2>6 DEF c
<1>4. CASE ~Present(slots, k)
  <2>1. slots' = slots /\ size' = size
    BY <1>4 DEF Erase
  <2>2. Tidy(slots, c) => \A x \in Contents(slots) : x[1] # k
    <3>1. ASSUME Tidy(slots, c), NEW i \in Occupied(slots), slots[i][1] = k PROVE FALSE
      <4>1. i \in 0 .. c - 1 /\ slots[i] # Vacant
        BY <3>1, <1>1 DEF Occupied
      <4>2. EndsAt(slots, c, k, i)
        BY <3>1, <4>1 DEF Tidy
      <4>3. e = i
        BY <4>2, <1>1, ProbeIs
      <4> QED BY <4>1, <4>3, <1>2, <1>4
    <3> QED BY <3>1 DEF Contents
  <2>3. Contents(slots) = Without(Contents(slots), k) \/ ~Tidy(slots, c)
    BY <2>2 DEF Without
  <2> QED BY <2>1, <2>3 DEF HashInv, c
<1> QED BY <1>3, <1>4

LEMMA ClearDoes ==
  ASSUME NEW c \in Nat \ {0}, c >= InitialCapacity, PowerOfTwo(c)
  PROVE  /\ Sound(EmptyTable(c), 0) /\ Capacity(EmptyTable(c)) = c
         /\ Tidy(EmptyTable(c), c) /\ Contents(EmptyTable(c)) = {}
<1> DEFINE t == EmptyTable(c)
<1>1. t \in Tables(c) /\ Occupied(t) = {} /\ Cardinality(Occupied(t)) = 0
  BY EmptyTableIs
<1> HIDE DEF t
<1>2. Sound(t, 0) /\ Capacity(t) = c
  BY <1>1, SoundIs
<1>3. Tidy(t, c) /\ Contents(t) = {}
  BY <1>1, TableFacts DEF Tidy, Contents, Occupied
<1> QED BY <1>2, <1>3 DEF t

LEMMA HashInvHolds == Spec => []HashInv
<1>1. Init => HashInv
  <2>1. ASSUME Init PROVE HashInv
    <3>1. InitialCapacity \in Nat \ {0} /\ PowerOfTwo(InitialCapacity)
      BY FlatHashMapAssumption
    <3> QED BY <3>1, <2>1, ClearDoes, FlatHashMapAssumption DEF Init, HashInv
  <2> QED BY <2>1
<1>2. HashInv /\ [Next]_vars => HashInv'
  <2> SUFFICES ASSUME HashInv, [Next]_vars PROVE Sound(slots', size')
    BY DEF HashInv
  <2>1. ASSUME NEW k \in Keys, Find(k) PROVE Sound(slots', size')
    BY <2>1 DEF Find, HashInv
  <2>2. ASSUME NEW k \in Keys, Erase(k) PROVE Sound(slots', size')
    BY <2>2, EraseDoes
  <2>3. ASSUME NEW k \in Keys, NEW v \in Values, Insert(k, v) PROVE Sound(slots', size')
    BY <2>3, InsertDoes
  <2>4. CASE Size
    BY <2>4 DEF Size, HashInv
  <2>5. CASE Clear
    BY <2>5, HashInvGives, ClearDoes DEF Clear
  <2>6. CASE UNCHANGED vars
    BY <2>6 DEF vars, HashInv
  <2> QED BY <2>1, <2>2, <2>3, <2>4, <2>5, <2>6 DEF Next
<1> QED BY <1>1, <1>2, PTL DEF Spec

\* The arrays keep their types and their capacity stays a power of two, for
\* every hash and every sequence of calls (FlatHashMap, grow and the mask).
THEOREM TableTypes == Spec => []TypeOK
BY HashInvHolds, HashInvMeans, PTL

\* find, insert and erase end for every key, whatever the hash: insert's load
\* check keeps a slot vacant.
THEOREM ProbesEnd == Spec => []ProbesTerminate
BY HashInvHolds, HashInvMeans, PTL

\* size_ is the number of occupied slots even after entries were lost to a
\* shift that stopped short, and were inserted again.
THEOREM SizeIsExact == Spec => []SizeCountsSlots
BY HashInvHolds, HashInvMeans, PTL
-----------------------------------------------------------------------------
(* Reachability.  An erase whose shift stops short can hide a key; nothing *)
(* else can.                                                               *)

LEMMA TidyIsReachable ==
  ASSUME NEW t, NEW n, Sound(t, n)
  PROVE  (\A i \in Occupied(t) : ProbeSlot(t, t[i][1]) = i) <=> Tidy(t, Capacity(t))
<1> DEFINE c == Capacity(t)
<1>1. /\ c \in Nat \ {0} /\ t \in Tables(c) /\ HasVacancy(t, c) /\ DOMAIN t = 0 .. c - 1
  BY SoundGives
<1> HIDE DEF c
<1>2. ASSUME NEW i \in 0 .. c - 1, t[i] # Vacant
      PROVE  ProbeSlot(t, t[i][1]) = i <=> EndsAt(t, c, t[i][1], i)
  <2>1. t[i][1] \in Keys
    BY <1>1, <1>2, TableFacts
  <2> QED BY <1>1, <2>1, ProbeEnds, ProbeIs
<1> QED BY <1>1, <1>2 DEF Tidy, Occupied, c

\* Only a shift that stops short hides a key, whatever the hash: insert, growth,
\* clear and every other erase leave each key where a probe for it ends.
OnlyShortErasesHide == EveryKeyReachable => EveryKeyReachable' \/ \E k \in Keys : ShortErase(k)

LEMMA StepHides ==
  ASSUME HashInv, HashInv', [Next]_vars, Tidy(slots, Capacity(slots))
  PROVE  Tidy(slots', Capacity(slots')) \/ \E k \in Keys : ShortErase(k)
<1>1. ASSUME NEW k \in Keys, Find(k) PROVE slots' = slots
  BY <1>1 DEF Find
<1>2. ASSUME NEW k \in Keys, Erase(k) PROVE Tidy(slots', Capacity(slots')) \/ ShortErase(k)
  BY <1>2, EraseDoes
<1>3. ASSUME NEW k \in Keys, NEW v \in Values, Insert(k, v) PROVE Tidy(slots', Capacity(slots'))
  BY <1>3, InsertDoes
<1>4. CASE Size
  BY <1>4 DEF Size
<1>5. CASE Clear
  <2>1. Capacity(slots) \in Nat \ {0} /\ Capacity(slots) >= InitialCapacity /\ PowerOfTwo(Capacity(slots))
    BY HashInvGives
  <2> QED BY <2>1, <1>5, ClearDoes DEF Clear
<1>6. CASE UNCHANGED vars
  BY <1>6 DEF vars
<1> QED BY <1>1, <1>2, <1>3, <1>4, <1>5, <1>6 DEF Next

THEOREM OnlyShortShiftsHideKeys == Spec => [][OnlyShortErasesHide]_vars
<1>1. HashInv /\ HashInv' /\ [Next]_vars => [OnlyShortErasesHide]_vars
  <2> SUFFICES ASSUME HashInv, HashInv', [Next]_vars, EveryKeyReachable,
                      ~ \E k \in Keys : ShortErase(k)
               PROVE  EveryKeyReachable'
    BY DEF OnlyShortErasesHide
  <2>1. Tidy(slots, Capacity(slots))
    BY TidyIsReachable DEF HashInv, EveryKeyReachable
  <2>2. Tidy(slots', Capacity(slots'))
    BY <2>1, StepHides
  <2> QED BY <2>2, TidyIsReachable DEF HashInv, EveryKeyReachable
<1> QED BY <1>1, HashInvHolds, PTL DEF Spec

NoShortErase == \A k \in Keys : ~ShortErase(k)
TidyInv == HashInv /\ Tidy(slots, Capacity(slots))

LEMMA TidyFirst == Init => TidyInv
<1> SUFFICES ASSUME Init PROVE TidyInv
  OBVIOUS
<1>1. InitialCapacity \in Nat \ {0} /\ PowerOfTwo(InitialCapacity)
  BY FlatHashMapAssumption
<1> QED BY <1>1, ClearDoes, FlatHashMapAssumption DEF Init, HashInv, TidyInv

LEMMA TidyKept == Spec /\ [][NoShortErase]_vars => []TidyInv
<1>1. TidyInv /\ HashInv' /\ [Next]_vars /\ [NoShortErase]_vars => TidyInv'
  <2> SUFFICES ASSUME TidyInv, HashInv', [Next]_vars, [NoShortErase]_vars PROVE TidyInv'
    OBVIOUS
  <2>1. CASE UNCHANGED vars
    BY <2>1 DEF vars, TidyInv
  <2>2. CASE NoShortErase
    BY <2>2, StepHides DEF TidyInv, NoShortErase
  <2> QED BY <2>1, <2>2
<1> QED BY <1>1, TidyFirst, HashInvHolds, PTL DEF Spec

\* As long as every erase shifts up to a vacant slot, every key is found where
\* a probe for it ends and is in no other slot, whatever the hash.
THEOREM KeysStayReachable == Spec /\ [][NoShortErase]_vars => []EveryKeyReachable
<1>1. TidyInv => EveryKeyReachable
  BY TidyIsReachable DEF TidyInv, HashInv, EveryKeyReachable
<1> QED BY <1>1, TidyKept, PTL
-----------------------------------------------------------------------------
(* What the callers see: the entries of a tidy table as a function.        *)

MapOf(t) == [k \in {k \in Keys : Present(t, k)} |-> t[ProbeSlot(t, k)][2]]

LEMMA MapIs ==
  ASSUME NEW t, NEW n, Sound(t, n), Tidy(t, Capacity(t))
  PROVE  /\ DOMAIN MapOf(t) = {x[1] : x \in Contents(t)}
         /\ \A x \in Contents(t) : MapOf(t)[x[1]] = x[2] /\ x \in Keys \X Values
         /\ Cardinality(DOMAIN MapOf(t)) = n
<1> DEFINE c == Capacity(t)
           m == MapOf(t)
<1>1. /\ c \in Nat \ {0} /\ t \in Tables(c) /\ HasVacancy(t, c) /\ DOMAIN t = 0 .. c - 1
      /\ n = Cardinality(Occupied(t)) /\ Tidy(t, c)
  BY SoundGives
<1> HIDE DEF c
<1>2. ASSUME NEW i \in Occupied(t)
      PROVE  t[i] \in Keys \X Values /\ t[i][1] \in Keys /\ ProbeSlot(t, t[i][1]) = i
             /\ Present(t, t[i][1])
  <2>1. i \in 0 .. c - 1 /\ t[i] # Vacant
    BY <1>1 DEF Occupied
  <2>2. t[i] \in Keys \X Values /\ t[i][1] \in Keys
    BY <2>1, <1>1, TableFacts
  <2>3. ProbeSlot(t, t[i][1]) = i
    BY <2>1, <2>2, <1>1, ProbeIs DEF Tidy
  <2> QED BY <2>1, <2>2, <2>3 DEF Present, Holds
<1>3. ASSUME NEW k \in Keys, Present(t, k)
      PROVE  ProbeSlot(t, k) \in Occupied(t) /\ t[ProbeSlot(t, k)][1] = k
  BY <1>1, <1>3, PresentIs DEF Occupied
<1>4. DOMAIN m = {x[1] : x \in Contents(t)}
  <2>1. \A k \in DOMAIN m : \E i \in Occupied(t) : t[i][1] = k
    BY <1>3 DEF MapOf
  <2>2. \A i \in Occupied(t) : t[i][1] \in DOMAIN m
    BY <1>2 DEF MapOf
  <2> HIDE DEF m
  <2> QED BY <2>1, <2>2 DEF Contents
<1>5. ASSUME NEW x \in Contents(t) PROVE m[x[1]] = x[2] /\ x \in Keys \X Values
  <2>1. PICK i \in Occupied(t) : x = t[i]
    BY DEF Contents
  <2> QED BY <2>1, <1>2 DEF MapOf
<1>6. Cardinality(DOMAIN m) = n
  <2> DEFINE f == [i \in Occupied(t) |-> t[i][1]]
  <2>1. f \in Bijection(Occupied(t), DOMAIN m)
    <3>1. \A i \in Occupied(t) : f[i] \in DOMAIN m
      BY <1>2 DEF MapOf
    <3>2. \A i, j \in Occupied(t) : f[i] = f[j] => i = j
      <4>1. \A i \in Occupied(t) : ProbeSlot(t, f[i]) = i
        BY <1>2
      <4> QED BY <4>1
    <3>3. \A k \in DOMAIN m : \E i \in Occupied(t) : f[i] = k
      BY <1>3 DEF MapOf
    <3> HIDE DEF m
    <3>4. f \in [Occupied(t) -> DOMAIN m]
      BY <3>1
    <3> HIDE DEF f
    <3> QED BY <3>2, <3>3, <3>4 DEF Bijection, Injection, Surjection, IsInjective
  <2>2. IsFiniteSet(Occupied(t))
    BY <1>1, OccupiedFinite
  <2> QED BY <1>1, <2>1, <2>2, FS_Bijection DEF ExistsBijection
<1> QED BY <1>4, <1>5, <1>6

\* insert and erase as operations on that function.
LEMMA MapAfterInsert ==
  ASSUME NEW t, NEW n, Sound(t, n), Tidy(t, Capacity(t)),
         NEW u, NEW l, Sound(u, l), Tidy(u, Capacity(u)),
         NEW k \in Keys, NEW v \in Values, Contents(u) = Given(Contents(t), k, v)
  PROVE  MapOf(u) = [x \in DOMAIN MapOf(t) \cup {k} |-> IF x = k THEN v ELSE MapOf(t)[x]]
<1> DEFINE old == MapOf(t)
           new == MapOf(u)
<1>1. /\ DOMAIN old = {x[1] : x \in Contents(t)} /\ \A x \in Contents(t) : old[x[1]] = x[2]
      /\ DOMAIN new = {x[1] : x \in Contents(u)} /\ \A x \in Contents(u) : new[x[1]] = x[2]
  BY MapIs
<1>2. new = [x \in DOMAIN new |-> new[x]]
  BY DEF MapOf
<1> HIDE DEF old, new
<1>3. Slot(k, v)[1] = k /\ Slot(k, v)[2] = v /\ Slot(k, v) \in Contents(u)
  BY SlotIsFull DEF Given, Without
<1>4. \A x \in Contents(u) : x = Slot(k, v) \/ (x \in Contents(t) /\ x[1] # k)
  BY DEF Given, Without
<1>5. \A x \in Contents(t) : x[1] # k => x \in Contents(u)
  BY DEF Given, Without
<1>6. DOMAIN new = DOMAIN old \cup {k}
  BY <1>1, <1>3, <1>4, <1>5
<1>7. \A x \in DOMAIN new : new[x] = IF x = k THEN v ELSE old[x]
  BY <1>1, <1>3, <1>4, <1>5
<1> QED BY <1>2, <1>6, <1>7 DEF old, new

LEMMA MapAfterErase ==
  ASSUME NEW t, NEW n, Sound(t, n), Tidy(t, Capacity(t)),
         NEW u, NEW l, Sound(u, l), Tidy(u, Capacity(u)),
         NEW k \in Keys, Contents(u) = Without(Contents(t), k)
  PROVE  MapOf(u) = [x \in DOMAIN MapOf(t) \ {k} |-> MapOf(t)[x]]
<1> DEFINE old == MapOf(t)
           new == MapOf(u)
<1>1. /\ DOMAIN old = {x[1] : x \in Contents(t)} /\ \A x \in Contents(t) : old[x[1]] = x[2]
      /\ DOMAIN new = {x[1] : x \in Contents(u)} /\ \A x \in Contents(u) : new[x[1]] = x[2]
  BY MapIs
<1>2. new = [x \in DOMAIN new |-> new[x]]
  BY DEF MapOf
<1> HIDE DEF old, new
<1>3. DOMAIN new = DOMAIN old \ {k}
  BY <1>1 DEF Without
<1>4. \A x \in DOMAIN new : new[x] = old[x]
  BY <1>1 DEF Without
<1> QED BY <1>2, <1>3, <1>4 DEF old, new

LEMMA MapEmpty ==
  ASSUME NEW t, NEW n, Sound(t, n), Tidy(t, Capacity(t)), Contents(t) = {}
  PROVE  MapOf(t) = [k \in {} |-> 0]
<1>1. DOMAIN MapOf(t) = {}
  BY MapIs
<1> QED BY <1>1 DEF MapOf

LEMMA AbstractMapIs ==
  [k \in Reachable |-> slots[ProbeSlot(slots, k)][2]] = MapOf(slots)
BY DEF Reachable, MapOf

\* Every operation on the table is that operation on the function.
LEMMA StepRefines ==
  ASSUME TidyInv, TidyInv', Next
  PROVE  Abstract!Next
<1> DEFINE m == MapOf(slots)
           w == MapOf(slots')
<1>0. /\ Sound(slots, size) /\ Tidy(slots, Capacity(slots))
      /\ Sound(slots', size') /\ Tidy(slots', Capacity(slots'))
  BY DEF TidyInv, HashInv
<1>1. /\ [k \in Reachable |-> slots[ProbeSlot(slots, k)][2]] = m
      /\ [k \in Reachable' |-> slots'[ProbeSlot(slots', k)][2]] = w
  BY DEF Reachable, MapOf
<1>2. DOMAIN m = {k \in Keys : Present(slots, k)}
  BY DEF MapOf
<1>3. ASSUME NEW k \in Keys, Find(k) PROVE Abstract!Find(k)
  <2>1. slots' = slots /\ returned' = <<"find", IF Present(slots, k) THEN {slots[ProbeSlot(slots, k)][2]} ELSE {}>>
    BY <1>3 DEF Find
  <2>2. {m[x] : x \in {k} \cap DOMAIN m} =
          IF Present(slots, k) THEN {slots[ProbeSlot(slots, k)][2]} ELSE {}
    BY <1>2 DEF MapOf
  <2> HIDE DEF m
  <2> QED BY <2>1, <2>2, <1>1 DEF Abstract!Find, m
<1>4. ASSUME NEW k \in Keys, Erase(k) PROVE Abstract!Erase(k)
  <2>1. Contents(slots') = Without(Contents(slots), k)
    BY <1>0, <1>4, EraseDoes DEF TidyInv, HashInv
  <2>2. w = [x \in DOMAIN m \ {k} |-> m[x]]
    BY <1>0, <2>1, MapAfterErase
  <2>3. k \in DOMAIN m <=> Present(slots, k)
    BY <1>2
  <2> HIDE DEF m, w
  <2>4. CASE Present(slots, k)
    <3>1. returned' = <<"erase", {TRUE}>>
      BY <1>4, <2>4 DEF Erase
    <3>2. (k \in DOMAIN m) = TRUE
      BY <2>3, <2>4
    <3> QED BY <2>2, <3>1, <3>2, <1>1 DEF Abstract!Erase, Abstract!Restrict
  <2>5. CASE ~Present(slots, k)
    <3>1. returned' = <<"erase", {FALSE}>>
      BY <1>4, <2>5 DEF Erase
    <3>2. (k \in DOMAIN m) = FALSE
      BY <2>3, <2>5
    <3> QED BY <2>2, <3>1, <3>2, <1>1 DEF Abstract!Erase, Abstract!Restrict
  <2> QED BY <2>4, <2>5
<1>5. ASSUME NEW k \in Keys, NEW v \in Values, Insert(k, v) PROVE Abstract!Insert(k, v)
  <2>1. Contents(slots') = Given(Contents(slots), k, v)
    BY <1>0, <1>5, InsertDoes DEF TidyInv, HashInv
  <2>2. w = [x \in DOMAIN m \cup {k} |-> IF x = k THEN v ELSE m[x]]
    BY <1>0, <2>1, MapAfterInsert
  <2>3. returned' = <<"insert", {TRUE}>>
    BY <1>5 DEF Insert
  <2> HIDE DEF m, w
  <2> QED BY <2>2, <2>3, <1>1 DEF Abstract!Insert
<1>6. ASSUME Size PROVE Abstract!Size
  <2>1. Cardinality(DOMAIN m) = size
    BY <1>0, MapIs
  <2>2. w = m /\ returned' = <<"size", {size}>>
    BY <1>6 DEF Size
  <2> HIDE DEF m, w
  <2> QED BY <2>1, <2>2, <1>1 DEF Abstract!Size, Abstract!Cardinality, Cardinality
<1>7. ASSUME Clear PROVE Abstract!Clear
  <2>1. Capacity(slots) \in Nat \ {0} /\ Capacity(slots) >= InitialCapacity /\ PowerOfTwo(Capacity(slots))
    BY HashInvGives DEF TidyInv
  <2>2. Contents(slots') = {}
    BY <2>1, <1>7, ClearDoes DEF Clear
  <2>3. w = [k \in {} |-> 0]
    BY <1>0, <2>2, MapEmpty
  <2> HIDE DEF w
  <2> QED BY <2>3, <1>1, <1>7 DEF Clear, Abstract!Clear
<1> QED BY <1>3, <1>4, <1>5, <1>6, <1>7 DEF Next, Abstract!Next

\* As long as every erase shifts up to a vacant slot, the callers see a partial
\* function: every operation returns and does what AbstractMap says.
THEOREM ActsAsMap == Spec /\ [][NoShortErase]_vars => ImplementsMap
<1>1. Init => Abstract!Init
  <2> SUFFICES ASSUME Init PROVE Abstract!Init
    OBVIOUS
  <2>1. Contents(slots) = {}
    <3>1. InitialCapacity \in Nat \ {0} /\ PowerOfTwo(InitialCapacity)
      BY FlatHashMapAssumption
    <3> QED BY <3>1, ClearDoes, FlatHashMapAssumption DEF Init
  <2>2. MapOf(slots) = [k \in {} |-> 0]
    BY <2>1, TidyFirst, MapEmpty DEF TidyInv, HashInv
  <2> QED BY <2>2, AbstractMapIs DEF Init, Abstract!Init
<1>2. TidyInv /\ TidyInv' /\ [Next]_vars => [Abstract!Next]_(Abstract!vars)
  <2>1. ASSUME UNCHANGED vars PROVE UNCHANGED Abstract!vars
    BY <2>1 DEF vars, Abstract!vars, Reachable
  <2> QED BY <2>1, StepRefines
<1> QED BY <1>1, <1>2, TidyKept, PTL DEF Spec, ImplementsMap, Abstract!Spec
-----------------------------------------------------------------------------
(* Hashes for which no shift stops short.                                  *)

\* how far slot s is from slot h, going up and round the table of c slots
Far(c, h, s) == IF h <= s THEN s - h ELSE s - h + c

HomeIn(c, k) == Hash[k] % c
Sharers(c, k) == {x \in Keys : HomeIn(c, x) = HomeIn(c, k)}

\* From one home slot to the next one used there is room for all the keys of
\* the first, and for a vacant slot after them, in a table of c slots.
ApartIn(c) ==
  \A k, x \in Keys :
    HomeIn(c, k) # HomeIn(c, x) =>
      Cardinality(Sharers(c, k)) < Far(c, HomeIn(c, k), HomeIn(c, x))

HashesApart ==
  /\ IsFiniteSet(Keys)
  /\ \A c \in Nat : c >= InitialCapacity /\ PowerOfTwo(c) => ApartIn(c)

\* In a tidy table the keys of a home slot are then in the room kept for them:
\* otherwise take, of the keys that are not, one whose home comes first after a
\* vacant slot.  The slots kept for its sharers are full, one of them has a key
\* of another home in it, which comes earlier and is not in its room either.
LEMMA EachInItsRoom ==
  ASSUME NEW c \in Nat \ {0}, NEW t \in Tables(c), HasVacancy(t, c), Tidy(t, c),
         IsFiniteSet(Keys), ApartIn(c),
         NEW i \in 0 .. c - 1, t[i] # Vacant
  PROVE  Far(c, HomeIn(c, t[i][1]), i) < Cardinality(Sharers(c, t[i][1]))
<1>1. PICK v \in 0 .. c - 1 : t[v] = Vacant
  BY DEF HasVacancy
<1> DEFINE Pos(s) == IF s > v THEN s - v - 1 ELSE s - v - 1 + c
           h(j) == HomeIn(c, t[j][1])
           room(j) == Cardinality(Sharers(c, t[j][1]))
           Out == {j \in 0 .. c - 1 : t[j] # Vacant /\ ~(Far(c, h(j), j) < room(j))}
           Starts == {Pos(h(j)) : j \in Out}
<1>2. \A k \in Keys : /\ HomeIn(c, k) \in 0 .. c - 1 /\ Cardinality(Sharers(c, k)) \in Nat
                      /\ IsFiniteSet(Sharers(c, k))
  <2>1. ASSUME NEW k \in Keys
        PROVE  /\ HomeIn(c, k) \in 0 .. c - 1 /\ Cardinality(Sharers(c, k)) \in Nat
               /\ IsFiniteSet(Sharers(c, k))
    <3>1. IsFiniteSet(Sharers(c, k))
      BY FS_Subset DEF Sharers
    <3> QED BY <3>1, HomeOf, FS_CardinalityType DEF HomeIn
  <2> QED BY <2>1
<1>3. ASSUME NEW j \in 0 .. c - 1, t[j] # Vacant
      PROVE  /\ t[j][1] \in Keys /\ h(j) \in 0 .. c - 1 /\ room(j) \in Nat
             /\ Pos(h(j)) <= Pos(j) /\ Far(c, h(j), j) = Pos(j) - Pos(h(j))
             /\ \A s \in 0 .. c - 1 : OnWay(h(j), s, j) => t[s] # Vacant /\ t[s][1] # t[j][1]
  <2>1. t[j][1] \in Keys /\ EndsAt(t, c, t[j][1], j)
    BY <1>3, TableFacts DEF Tidy
  <2>2. h(j) \in 0 .. c - 1 /\ room(j) \in Nat
    BY <2>1, <1>2
  <2>3. \A s \in 0 .. c - 1 : OnWay(h(j), s, j) => t[s] # Vacant /\ t[s][1] # t[j][1]
    BY <2>1 DEF EndsAt, HomeIn
  <2>4. ~OnWay(h(j), v, j) /\ v # j
    BY <2>3, <1>1, <1>3
  <2> HIDE DEF h, room
  <2>5. Pos(h(j)) <= Pos(j) /\ Far(c, h(j), j) = Pos(j) - Pos(h(j))
    BY <2>2, <2>4 DEF OnWay, Far
  <2> QED BY <2>1, <2>2, <2>3, <2>5
<1> SUFFICES ASSUME Out # {} PROVE FALSE
  OBVIOUS
<1>4. Starts \in SUBSET Nat /\ Starts # {}
  <2>1. \A j \in Out : Pos(h(j)) \in Nat
    <3>1. ASSUME NEW j \in Out PROVE Pos(h(j)) \in Nat
      <4>1. h(j) \in 0 .. c - 1
        BY <1>3
      <4> HIDE DEF h
      <4> QED BY <4>1
    <3> QED BY <3>1
  <2> HIDE DEF Out, Pos, h
  <2> QED BY <2>1
<1>5. PICK p \in Starts : \A q \in Starts : p <= q
  <2> HIDE DEF Starts
  <2> QED BY <1>4, LeastNat
<1>6. PICK j \in Out : p = Pos(h(j))
  OBVIOUS
<1>7. \A l \in Out : Pos(h(j)) <= Pos(h(l))
  BY <1>5, <1>6
<1> DEFINE x == t[j][1]
           g == h(j)
           m == room(j)
           W == {s \in 0 .. c - 1 : Pos(g) <= Pos(s) /\ Pos(s) < Pos(g) + m}
<1>8. /\ j \in 0 .. c - 1 /\ t[j] # Vacant /\ x \in Keys /\ g \in 0 .. c - 1 /\ m \in Nat
      /\ g = HomeIn(c, x) /\ m = Cardinality(Sharers(c, x))
      /\ Pos(g) <= Pos(j) /\ m <= Pos(j) - Pos(g)
      /\ \A s \in 0 .. c - 1 : OnWay(g, s, j) => t[s] # Vacant /\ t[s][1] # x
  <2>1. j \in 0 .. c - 1 /\ t[j] # Vacant /\ ~(Far(c, h(j), j) < room(j))
    OBVIOUS
  <2>2. /\ t[j][1] \in Keys /\ h(j) \in 0 .. c - 1 /\ room(j) \in Nat
        /\ Pos(h(j)) <= Pos(j) /\ Far(c, h(j), j) = Pos(j) - Pos(h(j))
        /\ \A s \in 0 .. c - 1 : OnWay(h(j), s, j) => t[s] # Vacant /\ t[s][1] # t[j][1]
    BY <2>1, <1>3
  <2>3. \A s \in 0 .. c - 1 : Pos(s) \in Int
    OBVIOUS
  <2>4. m <= Pos(j) - Pos(g)
    <3> HIDE DEF Pos, h, room
    <3> QED BY <2>1, <2>2, <2>3
  <2> QED BY <2>1, <2>2, <2>4
<1> HIDE DEF Out, Starts, h, room, x, g, m
\* the slots kept for the sharers of x are full, and x is not in them
<1>9. ASSUME NEW s \in W PROVE s \in 0 .. c - 1 /\ t[s] # Vacant /\ t[s][1] # x
  <2>1. s \in 0 .. c - 1 /\ Pos(g) <= Pos(s) /\ Pos(s) < Pos(j)
    BY <1>8
  <2>2. OnWay(g, s, j)
    BY <2>1, <1>8 DEF OnWay
  <2> QED BY <2>1, <2>2, <1>8
<1>10. PICK s \in W : t[s][1] \notin Sharers(c, x)
  <2> SUFFICES ASSUME \A s \in W : t[s][1] \in Sharers(c, x) PROVE FALSE
    OBVIOUS
  <2>1. Cardinality(W) = m /\ IsFiniteSet(W)
    <3> DEFINE f == [n \in 1 .. m |-> IF g + n - 1 < c THEN g + n - 1 ELSE g + n - 1 - c]
    <3>1. Pos(g) + m <= c - 1 /\ Pos(g) \in Nat
      BY <1>8
    <3>0. g \in 0 .. c - 1 /\ m \in Nat
      BY <1>8
    <3>2. ASSUME NEW n \in 1 .. m PROVE f[n] \in W /\ Pos(f[n]) = Pos(g) + n - 1
      <4>1. f[n] = IF g + n - 1 < c THEN g + n - 1 ELSE g + n - 1 - c
        OBVIOUS
      <4> HIDE DEF f
      <4>2. f[n] \in 0 .. c - 1 /\ Pos(f[n]) = Pos(g) + n - 1
        BY <4>1, <3>0, <3>1
      <4> QED BY <4>2, <3>0, <3>1
    <3>3. ASSUME NEW s \in W PROVE Pos(s) - Pos(g) + 1 \in 1 .. m /\ f[Pos(s) - Pos(g) + 1] = s
      <4>1. Pos(s) - Pos(g) + 1 \in 1 .. m
        BY <3>0, <3>1
      <4>2. f[Pos(s) - Pos(g) + 1] = IF g + Pos(s) - Pos(g) < c THEN g + Pos(s) - Pos(g)
                                     ELSE g + Pos(s) - Pos(g) - c
        BY <4>1, <3>0
      <4>3. (IF g + Pos(s) - Pos(g) < c THEN g + Pos(s) - Pos(g) ELSE g + Pos(s) - Pos(g) - c) = s
        BY <3>0, <3>1
      <4> QED BY <4>1, <4>2, <4>3
    <3>4. \A a, b \in 1 .. m : f[a] = f[b] => a = b
      <4>1. ASSUME NEW a \in 1 .. m, NEW b \in 1 .. m, f[a] = f[b] PROVE a = b
        <5>1. Pos(g) + a - 1 = Pos(g) + b - 1
          BY <4>1, <3>2
        <5> HIDE DEF f
        <5> QED BY <5>1, <3>1
      <4> QED BY <4>1
    <3>5. f \in [1 .. m -> W]
      BY <3>2
    <3> HIDE DEF f, W
    <3>6. f \in Bijection(1 .. m, W)
      BY <3>3, <3>4, <3>5 DEF Bijection, Injection, Surjection, IsInjective
    <3>7. IsFiniteSet(1 .. m) /\ Cardinality(1 .. m) = m
      <4>1. m \in Int /\ 1 \in Int
        BY <3>0
      <4>2. IsFiniteSet(1 .. m) /\ Cardinality(1 .. m) = IF 1 > m THEN 0 ELSE m - 1 + 1
        BY <4>1, FS_Interval, Zenon
      <4> QED BY <4>2, <3>0
    <3> QED BY <3>6, <3>7, FS_Bijection DEF ExistsBijection
  <2> DEFINE S == Sharers(c, x) \ {x}
             k == [s \in W |-> t[s][1]]
  <2>2. x \in Sharers(c, x) /\ IsFiniteSet(Sharers(c, x))
    BY <1>2, <1>8 DEF Sharers
  <2>3. IsFiniteSet(S) /\ Cardinality(S) = m - 1
    BY <2>2, <1>8, FS_RemoveElement
  <2>4. k \in [W -> S]
    <3>1. \A s \in W : t[s][1] \in S
      BY <1>9
    <3> HIDE DEF S, W
    <3> QED BY <3>1
  <2>5. \A a, b \in W : k[a] = k[b] => a = b
    BY <1>9, TidyMeansOneEach
  <2> HIDE DEF W, S, k
  <2>6. k \in Injection(W, S)
    BY <2>4, <2>5 DEF Injection, IsInjective
  <2>7. Cardinality(W) <= Cardinality(S)
    BY <2>1, <2>3, <2>6, FS_Injection DEF ExistsInjection
  <2> QED BY <2>1, <2>3, <2>7, <1>8
\* so one of them has a key of an earlier home, which is farther still from it
<1>11. s \in 0 .. c - 1 /\ t[s] # Vacant /\ Pos(g) <= Pos(s) /\ Pos(s) < Pos(g) + m
  BY <1>9
<1>12. /\ t[s][1] \in Keys /\ h(s) \in 0 .. c - 1 /\ room(s) \in Nat
       /\ Pos(h(s)) <= Pos(s) /\ Far(c, h(s), s) = Pos(s) - Pos(h(s))
  BY <1>3, <1>11
<1>13. h(s) = HomeIn(c, t[s][1]) /\ room(s) = Cardinality(Sharers(c, t[s][1]))
  BY DEF h, room
<1>14. h(s) # g
  BY <1>8, <1>10, <1>12, <1>13 DEF Sharers
<1>15. m < Far(c, g, h(s)) /\ room(s) < Far(c, h(s), g)
  BY <1>8, <1>12, <1>13, <1>14 DEF ApartIn
<1>16. Pos(h(s)) < Pos(g)
  BY <1>8, <1>11, <1>12, <1>14, <1>15 DEF Far
<1>17. ~(Far(c, h(s), s) < room(s))
  BY <1>8, <1>11, <1>12, <1>15, <1>16 DEF Far
<1>18. s \in Out
  BY <1>11, <1>17 DEF Out
<1> HIDE DEF W
<1>19. Pos(h(j)) <= Pos(h(s))
  BY <1>18, <1>7
<1> QED BY <1>8, <1>12, <1>16, <1>19 DEF g

\* The slot after an occupied one is then nobody's home, unless it is vacant.
LEMMA ShiftsGoOn ==
  ASSUME NEW c \in Nat \ {0}, NEW t \in Tables(c), HasVacancy(t, c), Tidy(t, c),
         IsFiniteSet(Keys), ApartIn(c),
         NEW i \in 0 .. c - 1, t[i] # Vacant, StopsAfter(t, c, i)
  PROVE  t[Next1(c, i)] = Vacant
<1> DEFINE n == Next1(c, i)
           x == t[i][1]
           y == t[n][1]
<1> SUFFICES ASSUME t[n] # Vacant PROVE FALSE
  OBVIOUS
<1>1. n \in 0 .. c - 1 /\ n = IF i = c - 1 THEN 0 ELSE i + 1
  BY NextIs DEF Next1
<1>2. x \in Keys /\ y \in Keys /\ n = HomeIn(c, y)
  BY <1>1, TableFacts DEF StopsAfter, HomeIn
<1>3. HomeIn(c, x) \in 0 .. c - 1 /\ Far(c, HomeIn(c, x), i) < Cardinality(Sharers(c, x))
  BY <1>2, EachInItsRoom, HomeOf DEF HomeIn
<1>4. IsFiniteSet(Sharers(c, x)) /\ Cardinality(Sharers(c, x)) \in Nat
  BY FS_Subset, FS_CardinalityType DEF Sharers
<1>5. CASE n # HomeIn(c, x)
  <2>1. Cardinality(Sharers(c, x)) < Far(c, HomeIn(c, x), n)
    BY <1>2, <1>5 DEF ApartIn
  <2> HIDE DEF n, x
  <2> QED BY <2>1, <1>1, <1>3, <1>4, <1>5 DEF Far
<1>6. CASE n = HomeIn(c, x)
  <2>1. EndsAt(t, c, x, i)
    BY DEF Tidy
  <2>2. PICK v \in 0 .. c - 1 : t[v] = Vacant
    BY DEF HasVacancy
  <2>3. v # i /\ ~OnWay(n, v, i)
    BY <2>1, <2>2, <1>6 DEF EndsAt, HomeIn
  <2> HIDE DEF n
  <2> QED BY <2>3, <1>1 DEF OnWay
<1> QED BY <1>5, <1>6

LEMMA NoShortEraseApart ==
  ASSUME TidyInv, HashesApart
  PROVE  NoShortErase
<1> SUFFICES ASSUME NEW k \in Keys, ShortErase(k) PROVE FALSE
  BY DEF NoShortErase
<1> DEFINE c == Capacity(slots)
           e == ProbeSlot(slots, k)
<1>1. /\ c \in Nat \ {0} /\ c >= InitialCapacity /\ PowerOfTwo(c) /\ c \in Nat
      /\ slots \in Tables(c) /\ HasVacancy(slots, c) /\ DOMAIN slots = 0 .. c - 1 /\ Tidy(slots, c)
  BY HashInvGives DEF TidyInv
<1>2. Present(slots, k) /\ slots' = BackwardShift(slots, e)
  BY DEF ShortErase, Erase
<1>3. PICK i \in 0 .. c - 1 :
        slots[i] # Vacant /\ slots'[i] = Vacant /\ slots[(i + 1) % c] # Vacant
  BY <1>1 DEF ShortErase
<1> HIDE DEF c
<1>4. ApartIn(c) /\ IsFiniteSet(Keys)
  BY <1>1 DEF HashesApart
<1>5. e \in 0 .. c - 1 /\ slots[e] # Vacant
  BY <1>1, <1>2, PresentIs
<1> HIDE DEF e
<1>6. PICK last : Shifted(slots, c, e, last, slots')
  BY <1>1, <1>2, <1>5, ShiftIs
<1>7. i = last
  <2>1. CASE OnWay(e, i, last)
    BY <1>3, <1>6, <2>1 DEF Shifted, StopsAfter
  <2>2. CASE ~OnWay(e, i, last) /\ i # last
    BY <1>3, <1>6, <2>2 DEF Shifted
  <2> QED BY <2>1, <2>2
<1>8. StopsAfter(slots, c, i)
  BY <1>6, <1>7 DEF Shifted
<1>9. slots[Next1(c, i)] = Vacant
  BY <1>1, <1>3, <1>4, <1>8, ShiftsGoOn
<1> QED BY <1>1, <1>3, <1>9, NextIs

LEMMA NeverShortApart == HashesApart => (Spec => [][NoShortErase]_vars)
<1> SUFFICES ASSUME HashesApart PROVE Spec => [][NoShortErase]_vars
  OBVIOUS
<1>1. TidyInv /\ HashInv' /\ [Next]_vars => TidyInv'
  <2> SUFFICES ASSUME TidyInv, HashInv', [Next]_vars PROVE TidyInv'
    OBVIOUS
  <2> QED BY NoShortEraseApart, StepHides DEF TidyInv, NoShortErase
<1>2. TidyInv => NoShortErase
  BY NoShortEraseApart
<1> QED BY <1>1, <1>2, TidyFirst, HashInvHolds, PTL DEF Spec

\* If the keys' homes leave room for the keys that share them, every key stays
\* reachable; the run hash_apart has such a hash.
THEOREM KeysStayReachableApart == HashesApart => (Spec => []EveryKeyReachable)
BY NeverShortApart, KeysStayReachable, PTL

\* And the table does what AbstractMap says.
THEOREM ActsAsMapApart == HashesApart => (Spec => ImplementsMap)
BY NeverShortApart, ActsAsMap, PTL
-----------------------------------------------------------------------------
(* The ring buffer: indices around the ring, without the remainder.        *)

LEMMA WrapIs ==
  ASSUME NEW i \in Int, -RingCapacity < i, i < 2 * RingCapacity
  PROVE  Wrap(i) = IF i < 0 THEN i + RingCapacity ELSE IF i < RingCapacity THEN i ELSE i - RingCapacity
<1>1. RingCapacity \in Nat \ {0}
  BY RingAssumption
<1>2. CASE i < 0
  BY <1>1, <1>2 DEF Wrap
<1>3. CASE i >= 0 /\ i < RingCapacity
  BY <1>1, <1>3 DEF Wrap
<1>4. CASE i >= RingCapacity
  BY <1>1, <1>4 DEF Wrap
<1> QED BY <1>1, <1>2, <1>3, <1>4

LEMMA NextSlot ==
  ASSUME NEW i \in Slots
  PROVE  /\ Wrap(i + 1) = IF i + 1 = RingCapacity THEN 0 ELSE i + 1
         /\ Wrap(i + 1) \in Slots
<1>1. RingCapacity \in Nat \ {0} /\ i \in Int /\ 0 <= i /\ i < RingCapacity
  BY RingAssumption DEF Slots
<1>2. (i + 1 \in Int /\ -RingCapacity < i + 1 /\ i + 1 < 2 * RingCapacity) \/ RingCapacity = 1
  BY <1>1
<1>3. CASE RingCapacity # 1
  BY <1>1, <1>2, <1>3, WrapIs DEF Slots
<1>4. CASE RingCapacity = 1
  BY <1>1, <1>4 DEF Wrap, Slots
<1> QED BY <1>3, <1>4

LEMMA DistanceIs ==
  ASSUME NEW i \in Slots, NEW j \in Slots
  PROVE  /\ Distance(i, j) = IF i <= j THEN j - i ELSE j - i + RingCapacity
         /\ Distance(i, j) \in 0 .. RingCapacity - 1
<1>1. RingCapacity \in Nat \ {0} /\ j - i \in Int /\ -RingCapacity < j - i /\ j - i < 2 * RingCapacity
  BY RingAssumption DEF Slots
<1>2. Wrap(j - i) = IF j - i < 0 THEN j - i + RingCapacity
                    ELSE IF j - i < RingCapacity THEN j - i ELSE j - i - RingCapacity
  BY <1>1, WrapIs
<1> QED BY <1>1, <1>2 DEF Distance, Slots

\* The slot k steps further on.
LEMMA StepsOn ==
  ASSUME NEW i \in Slots, NEW k \in 0 .. RingCapacity - 1
  PROVE  /\ Wrap(i + k) = IF i + k < RingCapacity THEN i + k ELSE i + k - RingCapacity
         /\ Wrap(i + k) \in Slots
<1>1. /\ RingCapacity \in Nat \ {0} /\ i + k \in Int
      /\ -RingCapacity < i + k /\ i + k < 2 * RingCapacity /\ 0 <= i + k
  BY RingAssumption DEF Slots
<1> QED BY <1>1, WrapIs DEF Slots
-----------------------------------------------------------------------------
(* The inductive invariant.                                                *)

\* Around the ring, each thread's picture of the other's index is behind that
\* index: tail_seen, tail, head lie in this order, and tail, head_seen, head.
SeenIsBehind ==
  /\ Distance(tail_seen, tail) <= Distance(tail_seen, head)
  /\ Distance(tail, head_seen) <= Distance(tail, head)

\* A thread inside the buffer has seen room, or an item.
Admitted ==
  /\ ppc # "idle" => Wrap(head + 1) # tail_seen
  /\ cpc # "idle" => tail # head_seen

\* The item to publish is in its slot.
Written ==
  /\ ppc # "idle" => item \in Items
  /\ ppc = "publish" => buf[head] = item

RingInv == RingTypeOK /\ SeenIsBehind /\ Admitted /\ Written

LEMMA Indices ==
  ASSUME RingTypeOK
  PROVE  head \in Slots /\ tail \in Slots /\ tail_seen \in Slots /\ head_seen \in Slots
  BY DEF RingTypeOK

\* What a late load may return lies between what was seen and what is.
LEMMA LoadedTail ==
  ASSUME RingTypeOK, SeenIsBehind, NEW t \in TailValues
  PROVE  /\ t \in Slots
         /\ Distance(t, tail) <= Distance(t, head)
         /\ Distance(t, head) >= Distance(tail, head)
<1>1. PICK k \in 0 .. Distance(tail_seen, tail) : t = Wrap(tail_seen + k)
  BY DEF TailValues
<1>2. Distance(tail_seen, tail) \in 0 .. RingCapacity - 1
  BY Indices, DistanceIs
<1>3. k \in 0 .. RingCapacity - 1
  BY <1>1, <1>2, RingAssumption
<1>4. t \in Slots /\ t = IF tail_seen + k < RingCapacity THEN tail_seen + k ELSE tail_seen + k - RingCapacity
  BY <1>1, <1>3, Indices, StepsOn
<1>5. /\ Distance(t, tail) = IF t <= tail THEN tail - t ELSE tail - t + RingCapacity
      /\ Distance(t, head) = IF t <= head THEN head - t ELSE head - t + RingCapacity
      /\ Distance(tail, head) = IF tail <= head THEN head - tail ELSE head - tail + RingCapacity
      /\ Distance(tail_seen, tail) =
           IF tail_seen <= tail THEN tail - tail_seen ELSE tail - tail_seen + RingCapacity
      /\ Distance(tail_seen, head) =
           IF tail_seen <= head THEN head - tail_seen ELSE head - tail_seen + RingCapacity
  BY <1>4, Indices, DistanceIs
<1> QED BY <1>1, <1>3, <1>4, <1>5, Indices, RingAssumption DEF Slots, SeenIsBehind

LEMMA LoadedHead ==
  ASSUME RingTypeOK, SeenIsBehind, NEW h \in HeadValues
  PROVE  h \in Slots /\ Distance(tail, h) <= Distance(tail, head)
<1>1. PICK k \in 0 .. Distance(head_seen, head) : h = Wrap(head_seen + k)
  BY DEF HeadValues
<1>2. Distance(head_seen, head) \in 0 .. RingCapacity - 1
  BY Indices, DistanceIs
<1>3. k \in 0 .. RingCapacity - 1
  BY <1>1, <1>2, RingAssumption
<1>4. h \in Slots /\ h = IF head_seen + k < RingCapacity THEN head_seen + k ELSE head_seen + k - RingCapacity
  BY <1>1, <1>3, Indices, StepsOn
<1>5. /\ Distance(tail, h) = IF tail <= h THEN h - tail ELSE h - tail + RingCapacity
      /\ Distance(tail, head) = IF tail <= head THEN head - tail ELSE head - tail + RingCapacity
      /\ Distance(tail, head_seen) =
           IF tail <= head_seen THEN head_seen - tail ELSE head_seen - tail + RingCapacity
      /\ Distance(head_seen, head) =
           IF head_seen <= head THEN head - head_seen ELSE head - head_seen + RingCapacity
  BY <1>4, Indices, DistanceIs
<1> QED BY <1>1, <1>3, <1>4, <1>5, Indices, RingAssumption DEF Slots, SeenIsBehind

\* Two threads inside the buffer are at different slots.
LEMMA SlotsApart ==
  ASSUME RingTypeOK, SeenIsBehind, Admitted, cpc # "idle"
  PROVE  tail # head
<1>1. /\ Distance(tail, head) = IF tail <= head THEN head - tail ELSE head - tail + RingCapacity
      /\ Distance(tail, head_seen) =
           IF tail <= head_seen THEN head_seen - tail ELSE head_seen - tail + RingCapacity
  BY Indices, DistanceIs
<1> QED BY <1>1, Indices, RingAssumption DEF Slots, SeenIsBehind, Admitted

LEMMA InvariantImplies == RingInv => RingTypeOK /\ NoDataRace /\ SizeIsSafe
<1> SUFFICES ASSUME RingInv PROVE NoDataRace /\ SizeIsSafe
  BY DEF RingInv
<1>1. NoDataRace
  BY SlotsApart DEF RingInv, NoDataRace
<1>2. SizeIsSafe
  BY LoadedTail, LoadedHead DEF RingInv, SizeIsSafe
<1> QED BY <1>1, <1>2
-----------------------------------------------------------------------------
(* The steps.                                                              *)

LEMMA InitEstablishes == RingInit => RingInv
<1> SUFFICES ASSUME RingInit PROVE RingInv
  OBVIOUS
<1>1. RingTypeOK
  BY RingAssumption DEF RingInit, RingTypeOK, Slots
<1>2. SeenIsBehind /\ Admitted /\ Written
  BY <1>1, Indices, DistanceIs DEF RingInit, SeenIsBehind, Admitted, Written
<1> QED BY <1>1, <1>2 DEF RingInv

LEMMA TryPushKeeps ==
  ASSUME RingInv, NEW x \in Items, TryPush(x)
  PROVE  RingInv'
<1>1. PICK t \in TailValues :
        /\ tail_seen' = t
        /\ \/ Full(t) /\ UNCHANGED <<ppc, item>>
           \/ ~Full(t) /\ ppc' = "write" /\ item' = x
  BY DEF TryPush
<1>2. ppc = "idle" /\ UNCHANGED <<buf, head, tail, consumerVars>>
  BY DEF TryPush
<1>3. t \in Slots /\ Distance(t, tail) <= Distance(t, head)
  BY LoadedTail DEF RingInv
<1>4. RingTypeOK'
  BY <1>1, <1>2, <1>3 DEF RingInv, RingTypeOK, consumerVars
<1>5. SeenIsBehind'
  BY <1>1, <1>2, <1>3 DEF RingInv, SeenIsBehind, Distance, consumerVars
<1>6. Admitted' /\ Written'
  BY <1>1, <1>2 DEF RingInv, Admitted, Written, Full, Wrap, consumerVars
<1> QED BY <1>4, <1>5, <1>6 DEF RingInv

LEMMA WriteSlotKeeps ==
  ASSUME RingInv, WriteSlot
  PROVE  RingInv'
<1>1. RingTypeOK'
  BY DEF RingInv, RingTypeOK, WriteSlot, consumerVars
<1>2. SeenIsBehind' /\ Admitted'
  BY DEF RingInv, SeenIsBehind, Admitted, Distance, Wrap, WriteSlot, consumerVars
<1>3. Written'
  BY Indices DEF RingInv, Written, RingTypeOK, WriteSlot, consumerVars
<1> QED BY <1>1, <1>2, <1>3 DEF RingInv

LEMMA PublishHeadKeeps ==
  ASSUME RingInv, PublishHead
  PROVE  RingInv'
<1>1. /\ head' = Wrap(head + 1) /\ ppc' = "idle" /\ ppc = "publish"
      /\ UNCHANGED <<buf, tail, tail_seen, item, consumerVars>>
  BY DEF PublishHead
<1>2. head' \in Slots /\ head' = IF head + 1 = RingCapacity THEN 0 ELSE head + 1
  BY <1>1, NextSlot, Indices DEF RingInv
<1>3. RingTypeOK'
  BY <1>1, <1>2 DEF RingInv, RingTypeOK, consumerVars
<1>4. head' # tail_seen
  BY <1>1 DEF RingInv, Admitted
<1>5. SeenIsBehind'
  <2>1. /\ Distance(tail_seen, tail) <= Distance(tail_seen, head')
        /\ Distance(tail, head_seen) <= Distance(tail, head')
    <3>1. /\ Distance(tail_seen, head') =
               IF tail_seen <= head' THEN head' - tail_seen ELSE head' - tail_seen + RingCapacity
          /\ Distance(tail_seen, head) =
               IF tail_seen <= head THEN head - tail_seen ELSE head - tail_seen + RingCapacity
          /\ Distance(tail_seen, tail) =
               IF tail_seen <= tail THEN tail - tail_seen ELSE tail - tail_seen + RingCapacity
          /\ Distance(tail, head) = IF tail <= head THEN head - tail ELSE head - tail + RingCapacity
          /\ Distance(tail, head') =
               IF tail <= head' THEN head' - tail ELSE head' - tail + RingCapacity
          /\ Distance(tail, head_seen) =
               IF tail <= head_seen THEN head_seen - tail ELSE head_seen - tail + RingCapacity
      BY <1>2, Indices, DistanceIs DEF RingInv
    <3> QED BY <1>2, <1>4, <3>1, Indices, RingAssumption DEF RingInv, SeenIsBehind, Slots
  <2> QED BY <1>1, <2>1 DEF SeenIsBehind, Distance, Wrap, consumerVars
<1>6. Admitted' /\ Written'
  BY <1>1 DEF RingInv, Admitted, Written, consumerVars
<1> QED BY <1>3, <1>5, <1>6 DEF RingInv

LEMMA TryPopKeeps ==
  ASSUME RingInv, TryPop
  PROVE  RingInv'
<1>1. PICK h \in HeadValues : head_seen' = h /\ cpc' = IF tail = h THEN "idle" ELSE "read"
  BY DEF TryPop
<1>2. cpc = "idle" /\ UNCHANGED <<buf, head, tail, out, producerVars>>
  BY DEF TryPop
<1>3. h \in Slots /\ Distance(tail, h) <= Distance(tail, head)
  BY LoadedHead DEF RingInv
<1>4. RingTypeOK'
  BY <1>1, <1>2, <1>3 DEF RingInv, RingTypeOK, producerVars
<1>5. SeenIsBehind'
  BY <1>1, <1>2, <1>3 DEF RingInv, SeenIsBehind, Distance, producerVars
<1>6. Admitted' /\ Written'
  BY <1>1, <1>2 DEF RingInv, Admitted, Written, producerVars
<1> QED BY <1>4, <1>5, <1>6 DEF RingInv

LEMMA ReadSlotKeeps ==
  ASSUME RingInv, ReadSlot
  PROVE  RingInv'
<1>1. RingTypeOK'
  BY Indices DEF RingInv, RingTypeOK, ReadSlot, producerVars
<1>2. SeenIsBehind' /\ Admitted'
  BY DEF RingInv, SeenIsBehind, Admitted, Distance, Wrap, ReadSlot, producerVars
<1>3. tail # head
  BY SlotsApart DEF RingInv, ReadSlot
<1>4. Written'
  BY <1>3, Indices DEF RingInv, Written, RingTypeOK, ReadSlot, producerVars
<1> QED BY <1>1, <1>2, <1>4 DEF RingInv

LEMMA ReleaseTailKeeps ==
  ASSUME RingInv, ReleaseTail
  PROVE  RingInv'
<1>1. /\ tail' = Wrap(tail + 1) /\ cpc' = "idle" /\ cpc = "release"
      /\ UNCHANGED <<buf, head, head_seen, out, producerVars>>
  BY DEF ReleaseTail
<1>2. tail' \in Slots /\ tail' = IF tail + 1 = RingCapacity THEN 0 ELSE tail + 1
  BY <1>1, NextSlot, Indices DEF RingInv
<1>3. RingTypeOK'
  BY <1>1, <1>2 DEF RingInv, RingTypeOK, producerVars
<1>4. tail # head_seen /\ tail # head
  BY <1>1, SlotsApart DEF RingInv, Admitted
<1>5. SeenIsBehind'
  <2>1. /\ Distance(tail_seen, tail') <= Distance(tail_seen, head)
        /\ Distance(tail', head_seen) <= Distance(tail', head)
    <3>1. /\ Distance(tail_seen, tail') =
               IF tail_seen <= tail' THEN tail' - tail_seen ELSE tail' - tail_seen + RingCapacity
          /\ Distance(tail_seen, head) =
               IF tail_seen <= head THEN head - tail_seen ELSE head - tail_seen + RingCapacity
          /\ Distance(tail_seen, tail) =
               IF tail_seen <= tail THEN tail - tail_seen ELSE tail - tail_seen + RingCapacity
          /\ Distance(tail, head) = IF tail <= head THEN head - tail ELSE head - tail + RingCapacity
          /\ Distance(tail', head) =
               IF tail' <= head THEN head - tail' ELSE head - tail' + RingCapacity
          /\ Distance(tail, head_seen) =
               IF tail <= head_seen THEN head_seen - tail ELSE head_seen - tail + RingCapacity
          /\ Distance(tail', head_seen) =
               IF tail' <= head_seen THEN head_seen - tail' ELSE head_seen - tail' + RingCapacity
      BY <1>2, Indices, DistanceIs DEF RingInv
    <3> QED BY <1>2, <1>4, <3>1, Indices, RingAssumption DEF RingInv, SeenIsBehind, Slots
  <2> QED BY <1>1, <2>1 DEF SeenIsBehind, Distance, Wrap, producerVars
<1>6. Admitted' /\ Written'
  BY <1>1 DEF RingInv, Admitted, Written, Wrap, producerVars
<1> QED BY <1>3, <1>5, <1>6 DEF RingInv

LEMMA StepKeeps == RingInv /\ [RingNext]_ringVars => RingInv'
<1> SUFFICES ASSUME RingInv, [RingNext]_ringVars PROVE RingInv'
  OBVIOUS
<1>1. CASE UNCHANGED ringVars
  BY <1>1 DEF ringVars, RingInv, RingTypeOK, SeenIsBehind, Admitted, Written, Distance, Wrap
<1> QED BY <1>1, TryPushKeeps, WriteSlotKeeps, PublishHeadKeeps, TryPopKeeps, ReadSlotKeeps,
           ReleaseTailKeeps DEF RingNext, Producer, Consumer

LEMMA Inductive == RingSpec => []RingInv
<1> QED BY InitEstablishes, StepKeeps, PTL DEF RingSpec

\* The indices stay inside the array, and slots hold items or nothing.
THEOREM RingTypes == RingSpec => []RingTypeOK
<1> QED BY Inductive, InvariantImplies, PTL

\* try_push and try_pop never touch one slot at the same time, for any
\* capacity and however late the threads learn of each other's progress.
THEOREM RaceFree == RingSpec => []NoDataRace
<1> QED BY Inductive, InvariantImplies, PTL

\* size() errs on the side of its caller: never too little for the producer,
\* never too much for the consumer.
THEOREM SizeErrsSafely == RingSpec => []SizeIsSafe
<1> QED BY Inductive, InvariantImplies, PTL
-----------------------------------------------------------------------------
(* The ring buffer implements the bounded queue.                           *)

\* The i-th slot in use, and what is in use.
SlotAt(first, i) == Wrap(first + (i - 1))
InUse(b, first, h) == [i \in 1 .. Distance(first, h) |-> b[SlotAt(first, i)]]

LEMMA SlotAtIs ==
  ASSUME NEW f \in Slots, NEW h \in Slots, NEW i \in 1 .. Distance(f, h)
  PROVE  /\ SlotAt(f, i) = IF f + (i - 1) < RingCapacity THEN f + (i - 1) ELSE f + (i - 1) - RingCapacity
         /\ SlotAt(f, i) \in Slots
         /\ SlotAt(f, i) # h
         /\ i # 1 => SlotAt(f, i) # f
<1>1. /\ Distance(f, h) = IF f <= h THEN h - f ELSE h - f + RingCapacity
      /\ Distance(f, h) \in 0 .. RingCapacity - 1
  BY DistanceIs
<1>2. i - 1 \in 0 .. RingCapacity - 1
  BY <1>1, RingAssumption DEF Slots
<1>3. /\ SlotAt(f, i) = IF f + (i - 1) < RingCapacity THEN f + (i - 1) ELSE f + (i - 1) - RingCapacity
      /\ SlotAt(f, i) \in Slots
  BY <1>2, StepsOn DEF SlotAt
<1> QED BY <1>1, <1>2, <1>3, RingAssumption DEF Slots

LEMMA FirstSlotIs ==
  ASSUME RingInv
  PROVE  /\ FirstSlot \in Slots
         /\ Queue = InUse(buf, FirstSlot, head)
         /\ cpc # "release" => FirstSlot = tail
         /\ cpc = "release" => FirstSlot = Wrap(tail + 1)
<1>1. FirstSlot \in Slots
  BY Indices, NextSlot DEF RingInv, FirstSlot
<1>2. \A i \in 1 .. Distance(FirstSlot, head) : FirstSlot + i - 1 = FirstSlot + (i - 1)
  BY <1>1, Indices, DistanceIs, RingAssumption DEF RingInv, Slots
<1> QED BY <1>1, <1>2 DEF FirstSlot, Queue, InUse, SlotAt

\* The same for the next state.
LEMMA FirstSlotIsNext ==
  ASSUME RingInv'
  PROVE  /\ FirstSlot' \in Slots
         /\ Queue' = InUse(buf', FirstSlot', head')
         /\ cpc' # "release" => FirstSlot' = tail'
         /\ cpc' = "release" => FirstSlot' = Wrap(tail' + 1)
<1>0. RingTypeOK'
  BY DEF RingInv
<1>1. tail' \in Slots /\ head' \in Slots
  BY <1>0 DEF RingTypeOK
<1>2. FirstSlot' = IF cpc' = "release" THEN Wrap(tail' + 1) ELSE tail'
  BY DEF FirstSlot, Wrap
<1>3. FirstSlot' \in Slots
  BY <1>1, <1>2, NextSlot
<1>4. \A i \in 1 .. Distance(FirstSlot', head') : FirstSlot' + i - 1 = FirstSlot' + (i - 1)
  BY <1>1, <1>3, DistanceIs, RingAssumption DEF Slots
<1>5. Queue' = [i \in 1 .. Distance(FirstSlot', head') |-> buf'[Wrap(FirstSlot' + i - 1)]]
  BY DEF Queue, Distance, Wrap
<1> QED BY <1>2, <1>3, <1>4, <1>5 DEF InUse, SlotAt

\* The slot after the head is never the first one in use.
LEMMA RoomBehindHead ==
  ASSUME RingInv, ppc # "idle"
  PROVE  /\ Wrap(head + 1) # FirstSlot
         /\ Distance(FirstSlot, Wrap(head + 1)) = Distance(FirstSlot, head) + 1
<1> DEFINE next == Wrap(head + 1)
<1>1. next \in Slots /\ next = IF head + 1 = RingCapacity THEN 0 ELSE head + 1
  BY NextSlot, Indices DEF RingInv
<1>2. next # tail_seen
  BY DEF RingInv, Admitted
<1>3. /\ Distance(tail_seen, head) =
           IF tail_seen <= head THEN head - tail_seen ELSE head - tail_seen + RingCapacity
      /\ Distance(tail_seen, tail) =
           IF tail_seen <= tail THEN tail - tail_seen ELSE tail - tail_seen + RingCapacity
  BY Indices, DistanceIs DEF RingInv
<1>4. next # tail
  BY <1>1, <1>2, <1>3, Indices, RingAssumption DEF RingInv, SeenIsBehind, Slots
<1>5. FirstSlot # next
  <2>1. CASE cpc # "release"
    BY <1>4, <2>1, FirstSlotIs
  <2>2. CASE cpc = "release"
    <3>1. tail # head
      BY <2>2, SlotsApart DEF RingInv
    <3>2. FirstSlot = IF tail + 1 = RingCapacity THEN 0 ELSE tail + 1
      BY <2>2, FirstSlotIs, NextSlot, Indices DEF RingInv
    <3> QED BY <1>1, <3>1, <3>2, Indices, RingAssumption DEF RingInv, Slots
  <2> QED BY <2>1, <2>2
<1>6. /\ Distance(FirstSlot, head) =
           IF FirstSlot <= head THEN head - FirstSlot ELSE head - FirstSlot + RingCapacity
      /\ Distance(FirstSlot, next) =
           IF FirstSlot <= next THEN next - FirstSlot ELSE next - FirstSlot + RingCapacity
  BY <1>1, FirstSlotIs, Indices, DistanceIs DEF RingInv
<1> QED BY <1>1, <1>5, <1>6, FirstSlotIs, Indices, RingAssumption DEF RingInv, Slots

LEMMA WriteSlotStutters ==
  ASSUME RingInv, RingInv', WriteSlot
  PROVE  Queue' = Queue /\ out' = out
<1>1. /\ buf' = [buf EXCEPT ![head] = item]
      /\ UNCHANGED <<head, tail, tail_seen, item, consumerVars>>
  BY DEF WriteSlot
<1>2. FirstSlot' = FirstSlot /\ FirstSlot \in Slots /\ head \in Slots
  BY <1>1, FirstSlotIs, FirstSlotIsNext, Indices DEF RingInv, consumerVars
<1>3. \A i \in 1 .. Distance(FirstSlot, head) :
        SlotAt(FirstSlot, i) # head /\ SlotAt(FirstSlot, i) \in Slots
  BY <1>2, SlotAtIs
<1>4. buf \in [Slots -> Items \cup {NoItem}]
  BY DEF RingInv, RingTypeOK
<1>5. InUse(buf', FirstSlot, head) = InUse(buf, FirstSlot, head)
  BY <1>1, <1>3, <1>4 DEF InUse
<1> QED BY <1>1, <1>2, <1>5, FirstSlotIs, FirstSlotIsNext DEF consumerVars

LEMMA PublishHeadPuts ==
  ASSUME RingInv, RingInv', PublishHead
  PROVE  Fifo!Put(item) /\ item \in Items
<1> DEFINE d == Distance(FirstSlot, head)
<1>1. /\ head' = Wrap(head + 1) /\ ppc = "publish"
      /\ UNCHANGED <<buf, tail, tail_seen, item, consumerVars>>
  BY DEF PublishHead
<1>2. FirstSlot' = FirstSlot /\ FirstSlot \in Slots /\ head \in Slots /\ head' \in Slots
  BY <1>1, FirstSlotIs, FirstSlotIsNext, Indices, NextSlot DEF RingInv, consumerVars
<1>3. Distance(FirstSlot, head') = d + 1
  BY <1>1, RoomBehindHead
<1>4. d \in Nat /\ d + 1 \in 0 .. RingCapacity - 1
  BY <1>2, <1>3, DistanceIs, RingAssumption
<1>5. SlotAt(FirstSlot, d + 1) = head
  <2>1. d + 1 \in 1 .. Distance(FirstSlot, head')
    BY <1>3, <1>4
  <2>2. SlotAt(FirstSlot, d + 1) =
          IF FirstSlot + d < RingCapacity THEN FirstSlot + d ELSE FirstSlot + d - RingCapacity
    <3> DEFINE n == d + 1
    <3>1. n \in 1 .. Distance(FirstSlot, head') /\ n - 1 = d
      BY <1>4, <2>1
    <3>2. SlotAt(FirstSlot, n) =
            IF FirstSlot + (n - 1) < RingCapacity THEN FirstSlot + (n - 1)
            ELSE FirstSlot + (n - 1) - RingCapacity
      <4> HIDE DEF n, d
      <4> QED BY <1>2, <3>1, SlotAtIs
    <3> QED BY <3>1, <3>2
  <2>3. d = IF FirstSlot <= head THEN head - FirstSlot ELSE head - FirstSlot + RingCapacity
    BY <1>2, DistanceIs
  <2> HIDE DEF d
  <2> QED BY <1>2, <2>2, <2>3, RingAssumption DEF Slots
<1>6. buf[head] = item /\ item \in Items
  BY <1>1 DEF RingInv, Written
<1>7. /\ Queue = [i \in 1 .. d |-> buf[SlotAt(FirstSlot, i)]]
      /\ Queue' = [i \in 1 .. d + 1 |-> buf[SlotAt(FirstSlot, i)]]
  BY <1>1, <1>2, <1>3, FirstSlotIs, FirstSlotIsNext DEF InUse
<1>8. Queue' = Append(Queue, item) /\ Len(Queue) = d
  <2> HIDE DEF d
  <2> QED BY <1>4, <1>5, <1>6, <1>7
<1>9. Len(Queue) < RingCapacity - 1
  BY <1>4, <1>8, RingAssumption
<1> QED BY <1>1, <1>6, <1>8, <1>9 DEF Fifo!Put, consumerVars

LEMMA ReadSlotGets ==
  ASSUME RingInv, RingInv', ReadSlot
  PROVE  Fifo!Get
<1> DEFINE d == Distance(tail, head)
           second == Wrap(tail + 1)
<1>1. /\ out' = buf[tail] /\ buf' = [buf EXCEPT ![tail] = NoItem]
      /\ cpc = "read" /\ cpc' = "release"
      /\ UNCHANGED <<head, tail, head_seen, producerVars>>
  BY DEF ReadSlot
<1>2. tail \in Slots /\ head \in Slots /\ tail # head
  BY <1>1, Indices, SlotsApart DEF RingInv
<1>3. FirstSlot = tail /\ FirstSlot' = second
  BY <1>1, FirstSlotIs, FirstSlotIsNext
<1>4. second \in Slots /\ second = IF tail + 1 = RingCapacity THEN 0 ELSE tail + 1
  BY <1>2, NextSlot
<1>5. d \in Nat \ {0} /\ d < RingCapacity /\ Distance(second, head) = d - 1
  <2>1. /\ d = IF tail <= head THEN head - tail ELSE head - tail + RingCapacity
        /\ Distance(second, head) =
             IF second <= head THEN head - second ELSE head - second + RingCapacity
    BY <1>2, <1>4, DistanceIs
  <2> HIDE DEF d
  <2> QED BY <1>2, <1>4, <2>1, RingAssumption DEF Slots
<1>6. /\ Queue = [i \in 1 .. d |-> buf[SlotAt(tail, i)]]
      /\ Queue' = [i \in 1 .. d - 1 |-> buf'[SlotAt(second, i)]]
  BY <1>1, <1>3, <1>5, FirstSlotIs, FirstSlotIsNext DEF InUse
<1>7. SlotAt(tail, 1) = tail
  <2>1. SlotAt(tail, 1) = Wrap(tail + 0)
    BY <1>2 DEF SlotAt, Slots
  <2>2. 0 \in 0 .. RingCapacity - 1
    BY RingAssumption
  <2>3. Wrap(tail + 0) = IF tail + 0 < RingCapacity THEN tail + 0 ELSE tail + 0 - RingCapacity
    BY <1>2, <2>2, StepsOn
  <2> QED BY <1>2, <2>1, <2>3, RingAssumption DEF Slots
<1>8. ASSUME NEW i \in 1 .. d - 1
      PROVE  buf'[SlotAt(second, i)] = buf[SlotAt(tail, i + 1)]
  <2>1. i \in 1 .. Distance(second, head) /\ i + 1 \in 1 .. Distance(tail, head) /\ i + 1 # 1
    BY <1>5
  <2>2. SlotAt(second, i) =
          IF second + (i - 1) < RingCapacity THEN second + (i - 1) ELSE second + (i - 1) - RingCapacity
    BY <1>2, <1>4, <2>1, SlotAtIs
  <2>3. /\ SlotAt(tail, i + 1) =
             IF tail + (i + 1 - 1) < RingCapacity THEN tail + (i + 1 - 1)
             ELSE tail + (i + 1 - 1) - RingCapacity
        /\ SlotAt(tail, i + 1) \in Slots /\ SlotAt(tail, i + 1) # tail
    BY <1>2, <2>1, SlotAtIs
  <2>4. SlotAt(second, i) = SlotAt(tail, i + 1)
    <3> HIDE DEF second, d
    <3> QED BY <1>2, <1>4, <1>5, <2>1, <2>2, <2>3, RingAssumption DEF Slots
  <2>5. buf \in [Slots -> Items \cup {NoItem}]
    BY DEF RingInv, RingTypeOK
  <2> QED BY <1>1, <2>3, <2>4, <2>5
<1>9. Queue # << >> /\ Head(Queue) = buf[tail] /\ Queue' = Tail(Queue)
  <2> HIDE DEF d, second
  <2>1. Len(Queue) = d /\ DOMAIN Queue = 1 .. d
    BY <1>5, <1>6
  <2>2. Head(Queue) = buf[tail]
    BY <1>5, <1>6, <1>7, <2>1
  <2>3. Tail(Queue) = [i \in 1 .. d - 1 |-> Queue[i + 1]]
    BY <1>5, <1>6, <2>1
  <2>4. Queue' = [i \in 1 .. d - 1 |-> buf[SlotAt(tail, i + 1)]]
    BY <1>6, <1>8
  <2>5. \A i \in 1 .. d - 1 : Queue[i + 1] = buf[SlotAt(tail, i + 1)]
    BY <1>5, <1>6
  <2> QED BY <1>5, <2>1, <2>2, <2>3, <2>4, <2>5
<1> QED BY <1>1, <1>9 DEF Fifo!Get

\* Steps that change neither the slots in use nor what was popped last.
LEMMA OthersStutter ==
  ASSUME RingInv, RingInv', TryPop \/ ReleaseTail \/ UNCHANGED ringVars \/ \E x \in Items : TryPush(x)
  PROVE  Queue' = Queue /\ out' = out
<1>1. UNCHANGED <<buf, head, out>>
  BY DEF TryPop, ReleaseTail, TryPush, ringVars, consumerVars, producerVars
<1>2. FirstSlot' = FirstSlot
  <2>1. CASE ReleaseTail
    BY <2>1, FirstSlotIs, FirstSlotIsNext DEF ReleaseTail
  <2>2. CASE TryPop \/ UNCHANGED ringVars \/ \E x \in Items : TryPush(x)
    <3>1. tail' = tail /\ (cpc' = "release" <=> cpc = "release")
      BY <2>2 DEF TryPop, TryPush, ringVars, consumerVars
    <3> QED BY <3>1 DEF FirstSlot, Wrap
  <2> QED BY <2>1, <2>2
<1> QED BY <1>1, <1>2, FirstSlotIs, FirstSlotIsNext

LEMMA StepImplements == RingInv /\ RingInv' /\ [RingNext]_ringVars => [Fifo!Next]_(Fifo!vars)
<1> SUFFICES ASSUME RingInv, RingInv', [RingNext]_ringVars PROVE [Fifo!Next]_(Fifo!vars)
  OBVIOUS
<1>1. CASE WriteSlot
  BY <1>1, WriteSlotStutters DEF Fifo!vars
<1>2. CASE PublishHead
  BY <1>2, PublishHeadPuts DEF Fifo!Next
<1>3. CASE ReadSlot
  BY <1>3, ReadSlotGets DEF Fifo!Next
<1>4. CASE TryPop \/ ReleaseTail \/ UNCHANGED ringVars \/ \E x \in Items : TryPush(x)
  BY <1>4, OthersStutter DEF Fifo!vars
<1> QED BY <1>1, <1>2, <1>3, <1>4 DEF RingNext, Producer, Consumer

LEMMA InitImplements == RingInit => Fifo!Init
<1> SUFFICES ASSUME RingInit PROVE Fifo!Init
  OBVIOUS
<1>1. RingInv
  BY InitEstablishes
<1>2. FirstSlot = 0 /\ head = 0 /\ 0 \in Slots /\ out = NoItem
  BY RingAssumption DEF RingInit, FirstSlot, Slots
<1>3. Distance(0, 0) = 0
  BY <1>2, DistanceIs
<1>4. Queue = << >>
  BY <1>1, <1>2, <1>3, FirstSlotIs DEF InUse
<1> QED BY <1>2, <1>4 DEF Fifo!Init

\* The ring buffer is a bounded first-in first-out queue, for every capacity:
\* head_'s release store is the moment an item goes in, the read of its slot
\* the moment it comes out, and no other step shows.
THEOREM IsFifo == RingSpec => ImplementsFifo
<1> QED BY Inductive, InitImplements, StepImplements, PTL
        DEF RingSpec, ImplementsFifo, Fifo!Spec
===============================================================================
