------------------------------ MODULE FlatHashMap ------------------------------
(***************************************************************************)
(* src/common/flat_hash_map.hpp: open addressing with linear probing,      *)
(* deletion by shifting the following entries back, and growth by doubling *)
(* at a load of 7/10.  The order book, the gateway, the exchange simulator *)
(* and the ITCH parser keep their orders in it.                            *)
(*                                                                         *)
(* A slot is Vacant (keys_[i] is EmptyKey; its value is never read) or a   *)
(* key with its value.  Hash is the 64-bit hash before it is masked, so    *)
(* that the home slot of a key moves when the table grows.                 *)
(***************************************************************************)
EXTENDS Integers, FiniteSets, FiniteSetsExt, Functions

CONSTANTS Keys,             \* the keys used, without EmptyKey
          Values,
          Hash,             \* key -> its unmasked hash
          InitialCapacity   \* slots after construction, a power of two

Vacant == << >>             \* a slot that holds nothing
Slot(k, v) == <<k, v>>

\* no odd number but 1 divides it
PowerOfTwo(c) == \A d \in 2 .. c : c % d = 0 => d % 2 = 0

\* With one or two slots the table can fill up, and a probe for an absent key
\* never ends.  The maps of the program start with 128 slots at least.
ASSUME FlatHashMapAssumption ==
  /\ Hash \in [Keys -> Nat]
  /\ InitialCapacity \in Nat /\ InitialCapacity >= 4 /\ PowerOfTwo(InitialCapacity)

VARIABLES slots,     \* keys_ and vals_: index -> Vacant or a Slot
          size,      \* size_
          returned   \* the last operation and what it returned, {} for nullptr

vars == <<slots, size, returned>>
-----------------------------------------------------------------------------
(* Probing a table t, the function slots or the one grow is building.      *)

Capacity(t) == Cardinality(DOMAIN t)
Home(t, k) == Hash[k] % Capacity(t)                          \* hash(k)
Holds(t, i, k) == t[i] # Vacant /\ t[i][1] = k
Occupied(t) == {i \in DOMAIN t : t[i] # Vacant}

\* the i-th slot from the home of k
Probe(t, k, i) == (Home(t, k) + i) % Capacity(t)

\* how many slots the probing loop passes over: it stops at k or at a vacancy
ProbeStops(t, k, i) == t[Probe(t, k, i)] = Vacant \/ Holds(t, Probe(t, k, i), k)
ProbeSlot(t, k) == Probe(t, k, Min({i \in DOMAIN t : ProbeStops(t, k, i)}))

Present(t, k) == Holds(t, ProbeSlot(t, k), k)

\* mutant: insert takes the home slot without probing for a free one
PutAtHome(t, k, v) == [t EXCEPT ![Home(t, k)] = Slot(k, v)]

Put(t, k, v) == [t EXCEPT ![ProbeSlot(t, k)] = Slot(k, v)]

EmptyTable(c) == [i \in 0 .. c - 1 |-> Vacant]

\* mutants: grow copies the slots to their old indices instead of rehashing;
\* grow adds half the capacity, which is no longer a power of two
GrownByCopy(t) ==
  [i \in 0 .. 2 * Capacity(t) - 1 |-> IF i \in DOMAIN t THEN t[i] ELSE Vacant]
GrownByHalf(t) ==
  [i \in 0 .. (3 * Capacity(t)) \div 2 - 1 |-> IF i \in DOMAIN t THEN t[i] ELSE Vacant]

\* grow: the old slots reinserted, in the order of their indices, into a
\* table of twice the size
Grown(t) ==
  LET c == Capacity(t)
      after[n \in 0 .. c] ==
        IF n = 0 THEN EmptyTable(2 * c)
        ELSE IF t[n - 1] = Vacant THEN after[n - 1]
        ELSE Put(after[n - 1], t[n - 1][1], t[n - 1][2])
  IN  after[c]

\* mutant: the load check is dropped, so the table fills up
GrowNever(t, n) == t

\* insert grows first when size * 10 >= capacity * 7
GrowIfLoaded(t, n) == IF n * 10 >= Capacity(t) * 7 THEN Grown(t) ELSE t
-----------------------------------------------------------------------------
(* backward_shift.                                                         *)

\* the slot after i is vacant, or its key sits in its home slot
ShiftStopsAfter(t, i) ==
  LET next == (i + 1) % Capacity(t) IN
    t[next] = Vacant \/ next = Home(t, t[next][1])

\* mutant: the erased slot is vacated and nothing is moved
VacateOnly(t, i) == [t EXCEPT ![i] = Vacant]

\* The slots after i move back by one up to the first place where the shift
\* stops; the last of them becomes vacant.
BackwardShift(t, i) ==
  LET c == Capacity(t)
      At(n) == (i + n) % c
      run == Min({n \in 0 .. c - 1 : ShiftStopsAfter(t, At(n))})
      moved == {At(n) : n \in 0 .. run - 1}
  IN  [j \in DOMAIN t |->
         IF j \in moved THEN t[(j + 1) % c]
         ELSE IF j = At(run) THEN Vacant ELSE t[j]]
-----------------------------------------------------------------------------
(* The operations.                                                         *)

Init ==
  /\ slots = EmptyTable(InitialCapacity)
  /\ size = 0
  /\ returned = <<"clear", {}>>

Find(k) ==
  /\ returned' = <<"find", IF Present(slots, k) THEN {slots[ProbeSlot(slots, k)][2]} ELSE {}>>
  /\ UNCHANGED <<slots, size>>

Insert(k, v) ==
  LET t == GrowIfLoaded(slots, size)
      n == IF t = slots THEN size ELSE Cardinality(Occupied(t))   \* grow counts anew
  IN  /\ slots' = Put(t, k, v)
      /\ size' = IF Present(t, k) THEN n ELSE n + 1
      /\ returned' = <<"insert", {TRUE}>>

Erase(k) ==
  \/ /\ Present(slots, k)
     /\ slots' = BackwardShift(slots, ProbeSlot(slots, k))
     /\ size' = size - 1
     /\ returned' = <<"erase", {TRUE}>>
  \/ /\ ~Present(slots, k)
     /\ returned' = <<"erase", {FALSE}>>
     /\ UNCHANGED <<slots, size>>

Size == returned' = <<"size", {size}>> /\ UNCHANGED <<slots, size>>

\* clear() keeps the capacity
Clear ==
  /\ slots' = EmptyTable(Capacity(slots))
  /\ size' = 0
  /\ returned' = <<"clear", {}>>

Next ==
  \/ \E k \in Keys : Find(k) \/ Erase(k)
  \/ \E k \in Keys, v \in Values : Insert(k, v)
  \/ Size
  \/ Clear

Spec == Init /\ [][Next]_vars
-----------------------------------------------------------------------------
(* Properties.                                                             *)

\* The types of the arrays and of the size; the capacity, which every mask
\* relies on, stays a power of two.
TypeOK ==
  /\ Capacity(slots) \in Nat /\ Capacity(slots) >= InitialCapacity
  /\ PowerOfTwo(Capacity(slots))
  /\ slots \in [0 .. Capacity(slots) - 1 -> {Vacant} \cup (Keys \X Values)]
  /\ size \in 0 .. Capacity(slots)

\* find, insert and erase loop until they meet the key or a vacant slot: the
\* load check of insert keeps one vacant, so that they end for any key.
ProbesTerminate == \E i \in DOMAIN slots : slots[i] = Vacant

\* size_ counts the occupied slots: erase, which counts down before it shifts, and
\* grow, which counts anew, agree with insert, that counts a slot it fills.
SizeCountsSlots == size = Cardinality(Occupied(slots))

\* A key that is in the table is where a probe for it ends, and in no other slot:
\* erase's backward shift leaves every later key of the cluster reachable
\* (README:46 "open addressing, linear probing, backward-shift deletion").
EveryKeyReachable == \A i \in Occupied(slots) : ProbeSlot(slots, slots[i][1]) = i

\* Callers see a partial function: what was inserted and not erased is found,
\* with the value it was last given.
Reachable == {k \in Keys : Present(slots, k)}
Abstract == INSTANCE AbstractMap WITH
  map <- [k \in Reachable |-> slots[ProbeSlot(slots, k)][2]]
ImplementsMap == Abstract!Spec
=============================================================================
