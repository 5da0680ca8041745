----------------------------- MODULE MCFlatHashMap -----------------------------
(***************************************************************************)
(* FlatHashMap for TLC, from four slots, with one growth to eight.         *)
(***************************************************************************)
EXTENDS FlatHashMap

CONSTANT Homes   \* the hashes of the keys, as a sequence
MCKeys == DOMAIN Homes
MCHash == Homes

\* Keys of one home slot at four slots, of two home slots with a gap after
\* them at eight; the clusters wrap around the end of both tables.
ApartHomes == <<3, 11, 7, 15>>

\* Two keys share a home slot and a third lives next door.
AdjacentHomes == <<0, 0, 1>>
=============================================================================
