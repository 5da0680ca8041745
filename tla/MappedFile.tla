------------------------------ MODULE MappedFile ------------------------------
(***************************************************************************)
(* What src/feed/replay_reader.cpp and src/feed/itch_replay_reader.cpp     *)
(* share: a feed file mapped into memory and a position in it.             *)
(*                                                                         *)
(* A file is the sequence of frames it was written as, each a header of    *)
(* Header bytes and a payload, and the number of its bytes that are there: *)
(* it may end anywhere.  The operating system is outside the program:      *)
(* mappings counts the mmaps not yet undone.                               *)
(***************************************************************************)
EXTENDS Integers, FiniteSetsExt

CONSTANT Header

VARIABLES data,       \* data_: "null" or "file"
          size, pos,  \* size_ and pos_, in bytes
          msg_count,
          mappings

fileVars == <<data, size, pos, msg_count, mappings>>

Init == data = "null" /\ size = 0 /\ pos = 0 /\ msg_count = 0 /\ mappings = 0

\* a new reader, in the place of one that was closed
Construct ==
  /\ data' = "null" /\ size' = 0 /\ pos' = 0 /\ msg_count' = 0
  /\ UNCHANGED mappings

\* A failed mmap leaves size_ behind; an empty file is not mapped.
Open(outcome, bytes) ==
  \/ /\ outcome \in {"no_file", "no_stat"}
     /\ UNCHANGED fileVars
  \/ /\ outcome = "no_map" /\ bytes > 0
     /\ data' = "null" /\ size' = bytes
     /\ UNCHANGED <<pos, msg_count, mappings>>
  \/ /\ outcome = "ok"
     /\ data' = IF bytes > 0 THEN "file" ELSE data
     /\ mappings' = IF bytes > 0 THEN mappings + 1 ELSE mappings
     /\ size' = bytes /\ pos' = 0 /\ msg_count' = 0

Close ==
  /\ mappings' = IF data = "file" /\ size > 0 THEN mappings - 1 ELSE mappings
  /\ data' = "null" /\ size' = 0 /\ pos' = 0
  /\ UNCHANGED msg_count

\* the first byte of the n-th frame
Start(file, n) == MapThenSumSet(LAMBDA k : Header + file[k].length, 1 .. n - 1)

HeaderFits == pos + Header <= size
Frame(file) == file[CHOOSE n \in DOMAIN file : Start(file, n) = pos]
Truncated(file) == pos + Header + Frame(file).length > size

\* next() touches memory that was never mapped
ReadsNull == HeaderFits /\ data = "null"

Advance(file) ==
  /\ pos' = pos + Header + Frame(file).length
  /\ msg_count' = msg_count + 1
  /\ UNCHANGED <<data, size, mappings>>
=============================================================================
