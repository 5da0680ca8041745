------------------------------ MODULE AbstractMap ------------------------------
(***************************************************************************)
(* What the callers of a hash map rely on: a partial function from keys to *)
(* values.  An operation records its name and the set holding its result.  *)
(***************************************************************************)
EXTENDS Integers, FiniteSets, Functions

CONSTANTS Keys, Values

VARIABLES map, returned

vars == <<map, returned>>

Init == map = [k \in {} |-> 0] /\ returned = <<"clear", {}>>

Find(k) ==
  /\ returned' = <<"find", {map[x] : x \in {k} \cap DOMAIN map}>>
  /\ map' = map

Insert(k, v) ==
  /\ map' = [x \in DOMAIN map \cup {k} |-> IF x = k THEN v ELSE map[x]]
  /\ returned' = <<"insert", {TRUE}>>

Erase(k) ==
  /\ map' = Restrict(map, DOMAIN map \ {k})
  /\ returned' = <<"erase", {(k \in DOMAIN map)}>>

Size ==
  /\ returned' = <<"size", {Cardinality(DOMAIN map)}>>
  /\ map' = map

Clear == map' = [k \in {} |-> 0] /\ returned' = <<"clear", {}>>

Next ==
  \/ \E k \in Keys : Find(k) \/ Erase(k)
  \/ \E k \in Keys, v \in Values : Insert(k, v)
  \/ Size
  \/ Clear

Spec == Init /\ [][Next]_vars
=============================================================================
