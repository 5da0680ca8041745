----------------------------- MODULE ReplayReader -----------------------------
(***************************************************************************)
(* The reader of native feeds, src/feed/replay_reader.cpp: it cuts the     *)
(* file into messages and watches their sequence numbers.                  *)
(***************************************************************************)
EXTENDS Types

CONSTANT U64

VARIABLES data, size, pos, msg_count, mappings,
          last_seq_no, gap_count, has_prev_seq

kWireHeaderSize == 3

Mapping == INSTANCE MappedFile WITH Header <- kWireHeaderSize
Gaps == INSTANCE SequenceGaps

fileVars == <<data, size, pos, msg_count, mappings>>
gapVars == <<last_seq_no, gap_count, has_prev_seq>>

Init == Mapping!Init /\ Gaps!Init

Construct ==
  /\ Mapping!Construct
  /\ last_seq_no' = 0 /\ gap_count' = 0 /\ has_prev_seq' = FALSE

Open(outcome, bytes) ==
  /\ Mapping!Open(outcome, bytes)
  /\ IF outcome = "ok"
     THEN last_seq_no' = 0 /\ gap_count' = 0 /\ has_prev_seq' = FALSE
     ELSE UNCHANGED gapVars

\* mutant: a last message that ends with the file counts as truncated
TruncatedAtEnd(file) ==
  pos + kWireHeaderSize + Mapping!Frame(file).length >= size

Truncated(file) == Mapping!Truncated(file)

\* nullopt: no room for a header, or for the payload it announces
EndOfFile(file) == Mapping!HeaderFits => Truncated(file)

\* mutant: a truncated message makes next() try again
NextMsgSpins(file, m) ==
  \/ /\ ~Mapping!HeaderFits /\ m = None
     /\ UNCHANGED <<fileVars, gapVars>>
  \/ /\ ~EndOfFile(file)
     /\ m = {Mapping!Frame(file)}
     /\ Mapping!Advance(file)
     /\ Gaps!Count(Gaps!SeqOf(Mapping!Frame(file)))

\* next(), which returns m
NextMsg(file, m) ==
  \/ /\ EndOfFile(file) /\ m = None
     /\ UNCHANGED <<fileVars, gapVars>>
  \/ /\ ~EndOfFile(file)
     /\ m = {Mapping!Frame(file)}
     /\ Mapping!Advance(file)
     /\ Gaps!Count(Gaps!SeqOf(Mapping!Frame(file)))
=============================================================================
