--------------------------------- MODULE Replay ---------------------------------
(***************************************************************************)
(* The two programs from their start to their end: mini_trader             *)
(* (src/app/main_replay.cpp) replays a file once, mini_trader_bench        *)
(* (src/app/main_bench.cpp) several times with everything built anew.      *)
(* They open the file in either format, read it to its end, record how     *)
(* long each stage of each message took, and print a summary.              *)
(*                                                                         *)
(* What the stages do to a message is the subject of NativeFeed, ItchFeed  *)
(* and TradingLoop; here a message only takes one of the paths through     *)
(* them (Paths).                                                           *)
(***************************************************************************)
EXTENDS Types

CONSTANTS U64,
          Files,        \* the feeds, as sequences of frames [length, seq]
          Cuts,         \* bytes that may be missing at the end
          Cycles,       \* stage -> the durations it may take
          Iterations,   \* the benchmark's argument
          max_msgs,     \* --max-msgs, of mini_trader only
          kCap, Second, tsc_freq

VARIABLES program, format, file, bytes,                    \* the command line, and the file
          data, size, pos, msg_count, mappings,            \* the readers'
          last_seq_no, gap_count, has_prev_seq,
          heap, trackers, summary,                         \* LatencyTracker
          phase, iter, opened, msgs, pending, results,     \* the programs'
          taken     \* history: label -> the durations measured in this run

inputVars == <<program, format, file, bytes>>
gapVars == <<last_seq_no, gap_count, has_prev_seq>>
fileVars == <<data, size, pos, msg_count, mappings>>
readerVars == <<fileVars, gapVars>>
trackerVars == <<heap, trackers, summary>>
vars == <<inputVars, readerVars, trackerVars, phase, iter, opened, msgs, pending, results, taken>>

Native == INSTANCE ReplayReader
Itch == INSTANCE ItchReplayReader
Latency == INSTANCE LatencyTracker

\* The bounds and types of the command line, the files and the clock.
ASSUME ReplayAssumption ==
  /\ Iterations \in Nat \ {0} /\ max_msgs \in Nat
  /\ kCap \in Nat \ {0} /\ Second \in Nat /\ tsc_freq \in Nat \ {0}
  /\ Cuts \subseteq Nat
  /\ Files \subseteq Seq([length : Nat, seq : 0 .. U64 - 1])
  /\ \A l \in Latency!Labels \ {"TickToAck"} : Cycles[l] \subseteq Nat

HeaderSize == IF format = "native" THEN Native!kWireHeaderSize ELSE Itch!kItchHeaderSize

\* the bytes of the first n frames
BytesOf(n) == MapThenSumSet(LAMBDA k : HeaderSize + file[k].length, 1 .. n)

Init ==
  /\ program \in {"mini_trader", "mini_trader_bench"}
  /\ format \in {"native", "itch"}
  /\ file \in Files
  /\ \E c \in Cuts : c <= BytesOf(Len(file)) /\ bytes = BytesOf(Len(file)) - c
  /\ Native!Init
  /\ Latency!Init
  /\ phase = "begin" /\ iter = 0 /\ opened = FALSE
  /\ msgs = 0 /\ pending = << >> /\ results = << >>
  /\ taken = [l \in Latency!Labels |-> << >>]

Bench == program = "mini_trader_bench"

\* the tracker whose summary is printed
Printed == IF Bench THEN "best_lat" ELSE "lat"
-----------------------------------------------------------------------------
(* The setup of a run.                                                     *)

\* best_lat, which the benchmark has before its first iteration
Begin ==
  /\ phase = "begin"
  /\ phase' = "iterate"
  /\ IF Bench THEN Latency!Construct("best_lat") ELSE UNCHANGED trackerVars
  /\ UNCHANGED <<inputVars, readerVars, iter, opened, msgs, pending, results, taken>>

Iterate ==
  /\ phase = "iterate"
  /\ iter < Iterations
  /\ Latency!Construct("lat")
  /\ Native!Construct
  /\ phase' = "open" /\ msgs' = 0
  /\ taken' = [l \in Latency!Labels |-> << >>]
  /\ UNCHANGED <<inputVars, iter, opened, pending, results>>

\* mutant: mini_trader goes on without its file, too
AfterOpenUnchecked(ok) == "loop"

\* only mini_trader looks at what open() returned
AfterOpen(ok) == IF Bench \/ ok THEN "loop" ELSE "close"

OpenReader ==
  /\ phase = "open"
  /\ \E outcome \in {"ok", "no_file", "no_stat", "no_map"} :
       /\ \/ format = "native" /\ Native!Open(outcome, bytes)
          \/ format = "itch" /\ Itch!Open(outcome, bytes) /\ UNCHANGED gapVars
       /\ opened' = (outcome = "ok")
       /\ phase' = AfterOpen(opened')
  /\ UNCHANGED <<inputVars, trackerVars, iter, msgs, pending, results, taken>>
-----------------------------------------------------------------------------
(* The loop.                                                               *)

PerIntent == {<<"Risk">>, <<"Risk", "Gateway">>}   \* refused, or sent
Quoted == <<"MdIngress", "BookUpdate", "Strategy">>

\* the stages that record a duration: a message refused or skipped, one that
\* changes no best price, one that brings no quote, one that brings one (the
\* other is not made at the maximum inventory), one that brings both
Paths == {<<"MdIngress">>, <<"MdIngress", "BookUpdate">>, Quoted}
           \cup {Quoted \o i : i \in PerIntent}
           \cup {Quoted \o i[1] \o i[2] : i \in PerIntent \X PerIntent}

ReadsNull == IF format = "native" THEN Native!Mapping!ReadsNull ELSE Itch!Mapping!ReadsNull

LimitReached == ~Bench /\ msgs >= max_msgs

ReadMessage ==
  /\ phase = "loop" /\ ~ReadsNull
  /\ \E m \in {None} \cup {{file[n]} : n \in DOMAIN file} :
       /\ \/ format = "native" /\ Native!NextMsg(file, m)
          \/ format = "itch" /\ Itch!NextMsg(file, m) /\ UNCHANGED gapVars
       /\ \/ /\ m = None \/ LimitReached
             /\ phase' = "close"
             /\ UNCHANGED <<msgs, pending>>
          \/ /\ m # None /\ ~LimitReached
             /\ phase' = "stages"
             /\ msgs' = msgs + 1
             /\ pending' \in Paths
  /\ UNCHANGED <<inputVars, trackerVars, iter, opened, results, taken>>

RecordStage ==
  /\ phase = "stages" /\ pending # << >>
  /\ \E c \in Cycles[Head(pending)] :
       /\ Latency!Record("lat", Head(pending), c)
       /\ taken' = IF c = 0 THEN taken ELSE [taken EXCEPT ![Head(pending)] = Append(@, c)]
  /\ pending' = Tail(pending)
  /\ UNCHANGED <<inputVars, readerVars, phase, iter, opened, msgs, results>>

MessageDone ==
  /\ phase = "stages" /\ pending = << >>
  /\ phase' = "loop"
  /\ UNCHANGED <<inputVars, readerVars, trackerVars, iter, opened, msgs, pending, results, taken>>

\* The benchmark reads at a null pointer, and is killed.
Crash ==
  /\ phase = "loop" /\ ReadsNull
  /\ phase' = "crashed"
  /\ UNCHANGED <<inputVars, readerVars, trackerVars, iter, opened, msgs, pending, results, taken>>
-----------------------------------------------------------------------------
(* The end of a run, and of the program.                                   *)

\* the reader's destructor
CloseReader ==
  /\ phase = "close"
  /\ Native!Mapping!Close
  /\ phase' = IF Bench THEN "result" ELSE IF opened THEN "print" ELSE "return"
  /\ UNCHANGED <<inputVars, gapVars, trackerVars, iter, opened, msgs, pending, results, taken>>

\* results.push_back, and best_lat = std::move(lat) in the last iteration
PushResult ==
  /\ phase = "result"
  /\ results' = Append(results, msgs)
  /\ IF iter = Iterations - 1 THEN Latency!MoveAssign("best_lat", "lat") ELSE UNCHANGED trackerVars
  /\ phase' = "destroy"
  /\ UNCHANGED <<inputVars, readerVars, iter, opened, msgs, pending, taken>>

\* the destructor of an iteration's tracker
EndIteration ==
  /\ phase = "destroy"
  /\ Latency!Destroy("lat")
  /\ iter' = iter + 1
  /\ phase' = IF iter' < Iterations THEN "iterate" ELSE "print"
  /\ UNCHANGED <<inputVars, readerVars, opened, msgs, pending, results, taken>>

ShowSummary ==
  /\ phase = "print"
  /\ Latency!PrintSummary(Printed)
  /\ phase' = "return"
  /\ UNCHANGED <<inputVars, readerVars, iter, opened, msgs, pending, results, taken>>

Return ==
  /\ phase = "return"
  /\ Latency!Destroy(Printed)
  /\ phase' = "exit"
  /\ UNCHANGED <<inputVars, readerVars, iter, opened, msgs, pending, results, taken>>

Next ==
  \/ Begin \/ Iterate \/ OpenReader
  \/ ReadMessage \/ RecordStage \/ MessageDone \/ Crash
  \/ CloseReader \/ PushResult \/ EndIteration \/ ShowSummary \/ Return

\* One thread that never waits.
Spec == Init /\ [][Next]_vars /\ WF_vars(Next)
-----------------------------------------------------------------------------
(* Properties.                                                             *)

\* The types of the readers, the trackers and the programs.
TypeOK ==
  /\ data \in {"null", "file"}
  /\ pos \in 0 .. size /\ size \in {0, bytes}
  /\ msg_count \in 0 .. Len(file)
  /\ \A t \in DOMAIN trackers : \A l \in Latency!Labels :
       /\ trackers[t].count[l] \in 0 .. kCap
       /\ trackers[t].total[l] >= trackers[t].count[l]
  /\ Len(results) <= iter + 1

\* A replay hands every message that is whole in the file to the pipeline,
\* once, and nothing of a message cut off at its end: a native one up to the
\* limit asked for, an ITCH one up to a frame without a payload.  The gap count
\* is the number of places where what was read breaks the sequence.
DeliversWholeFrames ==
  LET whole == IF data = "null" THEN 0 ELSE Max({n \in 0 .. Len(file) : BytesOf(n) <= size})
      readable == IF format = "native" THEN whole
                  ELSE Max({n \in 0 .. whole : \A k \in 1 .. n : file[k].length > 0})
      number(n) == IF file[n].length >= 8 THEN file[n].seq ELSE 0
  IN  phase = "close" =>
        /\ msgs = IF Bench THEN readable ELSE Min({readable, max_msgs})
        /\ format = "native" /\ opened =>
             gap_count = Cardinality({n \in 2 .. msg_count : number(n) # (number(n - 1) + 1) % U64})

\* Memory that was never mapped is read only by the benchmark, which does not
\* look at what open() returned (main_bench.cpp:105, 168).
CrashesOnlyUnchecked == phase = "crashed" => Bench /\ ~opened

\* Every block of the heap has exactly one tracker that will free it, through
\* the move of the last iteration too, and every mapping a reader; nothing is
\* left when the program returns.
OneOwner ==
  /\ \A b \in DOMAIN heap : \E t \in DOMAIN trackers : trackers[t].samples = b
  /\ \A t \in DOMAIN trackers :
       trackers[t].samples # Latency!NullBlock =>
         /\ trackers[t].samples \in DOMAIN heap
         /\ \A u \in DOMAIN trackers : trackers[u].samples = trackers[t].samples => u = t
  /\ mappings = IF data = "file" THEN 1 ELSE 0
  /\ phase = "exit" => DOMAIN heap = {} /\ mappings = 0

\* The summary is that of the last run: a row for every stage that took any
\* time, counting all its durations, with the least, the greatest and the
\* percentiles in order, of the first kCap of them.
SummaryIsOfLastRun ==
  phase \in {"return", "exit"} /\ (Bench \/ opened) =>
    /\ DOMAIN summary = {l \in Latency!Labels : taken[l] # << >>}
    /\ \A l \in DOMAIN summary :
         LET row == summary[l]
             n == Min({kCap, Len(taken[l])})
             time(i) == Latency!ns(taken[l][i])
             rank(t) == Cardinality({i \in 1 .. n : time(i) <= t})
         IN  /\ row.count = Len(taken[l])
             /\ row.min = Min({time(i) : i \in 1 .. n})
             /\ row.max = Max({time(i) : i \in 1 .. n})
             /\ row.min <= row.p50 /\ row.p50 <= row.p90 /\ row.p90 <= row.p99
             /\ row.p99 <= row.p999 /\ row.p999 <= row.max
             /\ 2 * rank(row.p50) >= n /\ 10 * rank(row.p90) >= 9 * (n - 1)

\* Whatever file it is given, wherever it ends, the program comes to an end.
ReplayEnds == <>(phase \in {"exit", "crashed"})
=============================================================================
