--------------------------- MODULE ItchReplayReader ---------------------------
(***************************************************************************)
(* The reader of ITCH feeds, src/feed/itch_replay_reader.cpp.              *)
(***************************************************************************)
EXTENDS Types

VARIABLES data, size, pos, msg_count, mappings

fileVars == <<data, size, pos, msg_count, mappings>>

kItchHeaderSize == 2   \* the big-endian length before every payload

Mapping == INSTANCE MappedFile WITH Header <- kItchHeaderSize

Open(outcome, bytes) == Mapping!Open(outcome, bytes)

EndOfFile(file) == Mapping!HeaderFits => Mapping!Truncated(file)

\* next(), which returns m; a frame without a payload is counted and ends the
\* file like a truncated one
NextMsg(file, m) ==
  \/ /\ EndOfFile(file) /\ m = None
     /\ UNCHANGED fileVars
  \/ /\ ~EndOfFile(file)
     /\ m = IF Mapping!Frame(file).length < 1 THEN None ELSE {Mapping!Frame(file)}
     /\ Mapping!Advance(file)
=============================================================================
