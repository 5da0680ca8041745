----------------------------- MODULE SequenceGaps -----------------------------
(***************************************************************************)
(* How src/feed/replay_reader.cpp watches the sequence numbers of the      *)
(* messages it hands out: a number that does not follow the last one is a  *)
(* gap, whichever way it is off.                                           *)
(***************************************************************************)
EXTENDS Integers

CONSTANT U64   \* the number of uint64_t values

VARIABLES last_seq_no, gap_count, has_prev_seq

SeqSize == 8   \* sizeof(uint64_t), at the start of every payload

\* a payload too short for a sequence number counts as number 0
SeqOf(raw) == IF raw.length >= SeqSize THEN raw.seq ELSE 0

Init == last_seq_no = 0 /\ gap_count = 0 /\ has_prev_seq = FALSE

\* mutant: only numbers that were skipped are a gap
FollowsForwardOnly(seq) == seq <= (last_seq_no + 1) % U64

Follows(seq) == seq = (last_seq_no + 1) % U64

Count(seq) ==
  /\ gap_count' = IF has_prev_seq /\ ~Follows(seq) THEN gap_count + 1 ELSE gap_count
  /\ last_seq_no' = seq
  /\ has_prev_seq' = TRUE
=============================================================================
