------------------------------- MODULE MCReplay -------------------------------
(***************************************************************************)
(* Replay for TLC: files of up to two frames, with and without a sequence  *)
(* number, whole or cut in the last payload or header.                     *)
(***************************************************************************)
EXTENDS Replay

MCFrames == {[length |-> 0, seq |-> 0]} \cup {[length |-> 8, seq |-> s] : s \in 1 .. 2}
MCFiles == UNION {[1 .. n -> MCFrames] : n \in 0 .. 2}

MCCycles == [l \in {"MdIngress", "BookUpdate", "Strategy", "Risk", "Gateway"} |->
               CASE l = "MdIngress" -> {0, 1} [] l = "Risk" -> {1, 2} [] OTHER -> {1}]
=============================================================================
