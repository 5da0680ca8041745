------------------------------ MODULE ReplayProofs ------------------------------
(***************************************************************************)
(* Proofs about Replay: for every file, cut anywhere, every outcome of     *)
(* opening it, and any number of iterations, each array of samples and     *)
(* each mapping has one owner, memory that was not mapped is read by the   *)
(* unchecked benchmark only, the messages handed to the pipeline are those *)
(* that are whole in the file, and the summary is that of the last run.    *)
(***************************************************************************)
EXTENDS Replay, TypesProofs, SequenceTheorems

Phases == {"begin", "iterate", "open", "loop", "stages", "close", "result", "destroy",
           "print", "return", "exit", "crashed"}
-----------------------------------------------------------------------------
(* The trackers and their blocks of samples.                               *)

\* a tracker, which has counted all it measured and kept at most kCap of it
TrackerStates ==
  {r \in [samples : Nat, count : [Latency!Labels -> 0 .. kCap], total : [Latency!Labels -> Nat]] :
     \A l \in Latency!Labels : r.total[l] >= r.count[l]}

TrackersOK == \A t \in DOMAIN trackers : trackers[t] \in TrackerStates

Owned ==
  /\ 0 \notin DOMAIN heap /\ IsFiniteSet(DOMAIN heap)
  /\ \A b \in DOMAIN heap : \E t \in DOMAIN trackers : trackers[t].samples = b
  /\ \A t \in DOMAIN trackers :
       trackers[t].samples # 0 =>
         /\ trackers[t].samples \in DOMAIN heap
         /\ \A u \in DOMAIN trackers : trackers[u].samples = trackers[t].samples => u = t

\* A finite set of numbers leaves out one of the first, one more than it has.
LEMMA FreeBlock ==
  ASSUME NEW S, IsFiniteSet(S)
  PROVE  \E b \in 1 .. Cardinality(S) + 1 : b \notin S
<1> SUFFICES ASSUME 1 .. Cardinality(S) + 1 \subseteq S PROVE FALSE
  OBVIOUS
<1>1. Cardinality(S) \in Nat
  BY FS_CardinalityType
<1>2. Cardinality(1 .. Cardinality(S) + 1) <= Cardinality(S)
  BY FS_Subset
<1>3. Cardinality(1 .. Cardinality(S) + 1) = Cardinality(S) + 1
  BY <1>1, FS_Interval
<1> QED BY <1>1, <1>2, <1>3

LEMMA ZerosAre ==
  /\ Latency!Zeros \in [Latency!Labels -> 0 .. kCap] /\ Latency!Zeros \in [Latency!Labels -> Nat]
  /\ \A l \in Latency!Labels : Latency!Zeros[l] = 0
BY ReplayAssumption DEF Latency!Zeros

LEMMA FreshTracker ==
  ASSUME NEW b \in Nat
  PROVE  [samples |-> b, count |-> Latency!Zeros, total |-> Latency!Zeros] \in TrackerStates
BY ZerosAre DEF TrackerStates

LEMMA ConstructKeeps ==
  ASSUME Owned, TrackersOK, NEW t, t \notin DOMAIN trackers, Latency!Construct(t)
  PROVE  Owned' /\ TrackersOK' /\ DOMAIN trackers' = DOMAIN trackers \cup {t}
<1>1. PICK b : b = CHOOSE c \in 1 .. Cardinality(DOMAIN heap) + 1 : c \notin DOMAIN heap
  OBVIOUS
<1>2. b \in Nat \ {0} /\ b \notin DOMAIN heap
  <2>1. Cardinality(DOMAIN heap) \in Nat
    BY FS_CardinalityType DEF Owned
  <2>2. b \in 1 .. Cardinality(DOMAIN heap) + 1 /\ b \notin DOMAIN heap
    BY <1>1, FreeBlock DEF Owned
  <2> QED BY <2>1, <2>2
<1>3. PICK r : r = [samples |-> b, count |-> Latency!Zeros, total |-> Latency!Zeros]
  OBVIOUS
<1>4. PICK x : /\ heap' = [z \in DOMAIN heap \cup {b} |-> IF z = b THEN x ELSE heap[z]]
               /\ trackers' = [z \in DOMAIN trackers \cup {t} |-> IF z = t THEN r ELSE trackers[z]]
  <2>1. Latency!Cardinality(DOMAIN heap) = Cardinality(DOMAIN heap)
    BY DEF Latency!Cardinality, Cardinality
  <2> QED BY <1>1, <1>3, <2>1 DEF Latency!Construct, Latency!With
<1>5. DOMAIN trackers' = DOMAIN trackers \cup {t} /\ DOMAIN heap' = DOMAIN heap \cup {b}
  BY <1>4
<1>6. TrackersOK'
  BY <1>2, <1>3, <1>4, FreshTracker DEF TrackersOK
<1>7. IsFiniteSet(DOMAIN heap')
  BY <1>5, FS_AddElement DEF Owned
<1>8. r.samples = b
  BY <1>3
<1> QED BY <1>2, <1>4, <1>5, <1>6, <1>7, <1>8 DEF Owned

LEMMA DestroyKeeps ==
  ASSUME Owned, TrackersOK, NEW t \in DOMAIN trackers, Latency!Destroy(t)
  PROVE  Owned' /\ TrackersOK' /\ DOMAIN trackers' = DOMAIN trackers \ {t}
<1>1. /\ DOMAIN heap' = DOMAIN heap \ {trackers[t].samples}
      /\ DOMAIN trackers' = DOMAIN trackers \ {t}
      /\ \A u \in DOMAIN trackers' : trackers'[u] = trackers[u]
  BY DEF Latency!Destroy, Latency!Freed, Latency!Restrict
<1>2. IsFiniteSet(DOMAIN heap')
  BY <1>1, FS_Subset DEF Owned
<1> QED BY <1>1, <1>2 DEF Owned, TrackersOK

LEMMA MoveKeeps ==
  ASSUME Owned, TrackersOK, NEW dst \in DOMAIN trackers, NEW src \in DOMAIN trackers, dst # src,
         Latency!MoveAssign(dst, src)
  PROVE  Owned' /\ TrackersOK' /\ DOMAIN trackers' = DOMAIN trackers
<1>1. PICK r : r = [samples |-> 0, count |-> Latency!Zeros, total |-> Latency!Zeros]
  OBVIOUS
<1>2. /\ DOMAIN heap' = DOMAIN heap \ {trackers[dst].samples}
      /\ DOMAIN trackers' = DOMAIN trackers
      /\ trackers'[dst] = trackers[src] /\ trackers'[src] = r
      /\ \A u \in DOMAIN trackers \ {src, dst} : trackers'[u] = trackers[u]
  BY <1>1 DEF Latency!MoveAssign, Latency!Freed, Latency!Restrict, Latency!MovedFrom, Latency!NullBlock
<1>3. IsFiniteSet(DOMAIN heap')
  BY <1>2, FS_Subset DEF Owned
<1>4. r \in TrackerStates /\ r.samples = 0
  BY <1>1, FreshTracker
<1> QED BY <1>2, <1>3, <1>4 DEF Owned, TrackersOK

\* blocks and trackers that only change inside
LEMMA SameBlocksKeep ==
  ASSUME Owned, DOMAIN heap' = DOMAIN heap, DOMAIN trackers' = DOMAIN trackers,
         \A t \in DOMAIN trackers : trackers'[t].samples = trackers[t].samples
  PROVE  Owned'
BY DEF Owned

LEMMA CountedIs ==
  ASSUME NEW r \in TrackerStates, NEW label \in Latency!Labels
  PROVE  /\ Latency!Counted(r, label) \in TrackerStates
         /\ Latency!Counted(r, label).samples = r.samples
         /\ \A l \in Latency!Labels :
              /\ Latency!Counted(r, label).count[l]
                   = IF l = label THEN Latency!CountAfter(r.count[l]) ELSE r.count[l]
              /\ Latency!Counted(r, label).total[l]
                   = IF l = label THEN r.total[l] + 1 ELSE r.total[l]
<1>1. PICK a, k, m : /\ r = [samples |-> a, count |-> k, total |-> m]
                     /\ a \in Nat /\ k \in [Latency!Labels -> 0 .. kCap] /\ m \in [Latency!Labels -> Nat]
                     /\ \A l \in Latency!Labels : m[l] >= k[l]
  BY DEF TrackerStates
<1>2. PICK n : n = Latency!CountAfter(k[label])
  OBVIOUS
<1>3. n \in 0 .. kCap /\ n <= k[label] + 1
  BY <1>1, <1>2, ReplayAssumption DEF Latency!CountAfter
<1>4. PICK k2, m2 : k2 = [k EXCEPT ![label] = n] /\ m2 = [m EXCEPT ![label] = m[label] + 1]
  OBVIOUS
<1>5. PICK x : x = [samples |-> a, count |-> k2, total |-> m]
  OBVIOUS
<1>6. PICK y : y = [samples |-> a, count |-> k2, total |-> m2]
  OBVIOUS
<1>7. Latency!Counted(r, label) = y
  <2>1. [[samples |-> a, count |-> k, total |-> m] EXCEPT !.count[label] = Latency!CountAfter(@)] = x
    BY <1>2, <1>4, <1>5
  <2>2. [[samples |-> a, count |-> k2, total |-> m] EXCEPT !.total[label] = @ + 1] = y
    BY <1>4, <1>6
  <2> QED BY <1>1, <1>5, <2>1, <2>2 DEF Latency!Counted
<1>8. k2 \in [Latency!Labels -> 0 .. kCap] /\ m2 \in [Latency!Labels -> Nat]
  BY <1>1, <1>3, <1>4
<1>9. ASSUME NEW l \in Latency!Labels PROVE m2[l] >= k2[l]
  <2>1. k[label] \in Nat /\ m[label] \in Nat /\ m[label] >= k[label] /\ n \in Nat
    BY <1>1, <1>3, ReplayAssumption
  <2>2. m[label] + 1 >= n
    BY <1>3, <2>1
  <2> QED BY <1>1, <1>4, <2>2
<1>10. ASSUME NEW l \in Latency!Labels
       PROVE  /\ y.count[l] = IF l = label THEN Latency!CountAfter(r.count[l]) ELSE r.count[l]
              /\ y.total[l] = IF l = label THEN r.total[l] + 1 ELSE r.total[l]
  BY <1>1, <1>2, <1>4, <1>6
<1> QED BY <1>1, <1>6, <1>7, <1>8, <1>9, <1>10 DEF TrackerStates

LEMMA RecordKeeps ==
  ASSUME Owned, TrackersOK, NEW t \in DOMAIN trackers, NEW label \in Latency!Labels, NEW c,
         Latency!Record(t, label, c)
  PROVE  Owned' /\ TrackersOK' /\ DOMAIN trackers' = DOMAIN trackers
<1>1. CASE UNCHANGED <<heap, trackers>>
  BY <1>1 DEF Owned, TrackersOK
<1>2. CASE ~UNCHANGED <<heap, trackers>>
  <2>1. PICK r : r = Latency!Counted(trackers[t], label)
    OBVIOUS
  <2>2. DOMAIN heap' = DOMAIN heap /\ trackers' = [trackers EXCEPT ![t] = r]
    BY <1>2, <2>1 DEF Latency!Record
  <2>3. r \in TrackerStates /\ r.samples = trackers[t].samples
    BY <2>1, CountedIs DEF TrackersOK
  <2> QED BY <2>2, <2>3, SameBlocksKeep DEF TrackersOK
<1> QED BY <1>1, <1>2

LEMMA PrintKeeps ==
  ASSUME Owned, TrackersOK, NEW t, Latency!PrintSummary(t)
  PROVE  Owned' /\ TrackersOK' /\ DOMAIN trackers' = DOMAIN trackers
<1>1. DOMAIN heap' = DOMAIN heap /\ trackers' = trackers
  BY DEF Latency!PrintSummary
<1> QED BY <1>1, SameBlocksKeep DEF TrackersOK
-----------------------------------------------------------------------------
(* The frames of a file, and where they begin.                             *)

Frames == [length : Nat, seq : 0 .. U64 - 1]

\* g is the table of the sums of all subsets of S (see TypesProofs), the
\* number k standing for a header of H bytes and the k-th payload of f.
SizesOver(H, f, S, g) ==
  g = [T \in SUBSET S |-> IF T = {} THEN 0 ELSE (H + f[Chosen(T)].length) + g[Others(T)]]

SizesTable(H, f, S) == CHOOSE g : SizesOver(H, f, S, g)

LEMMA SizesAre ==
  ASSUME NEW H, NEW f, NEW S, IsFiniteSet(S), NEW w, \A x \in S : w[x] = H + f[x].length
  PROVE  SizesTable(H, f, S)[S] = SumFunctionOnSet(w, S)
<1>1. ASSUME NEW g PROVE SizesOver(H, f, S, g) <=> SumsOver(w, S, g)
  <2>1. ASSUME NEW T \in SUBSET S, T # {} PROVE w[Chosen(T)] = H + f[Chosen(T)].length
    BY <2>1, OthersIsLess
  <2>2. [T \in SUBSET S |-> IF T = {} THEN 0 ELSE (H + f[Chosen(T)].length) + g[Others(T)]]
          = [T \in SUBSET S |-> IF T = {} THEN 0 ELSE w[Chosen(T)] + g[Others(T)]]
    BY <2>1
  <2> QED BY <2>2 DEF SizesOver, SumsOver
<1>2. PICK k : k = CHOOSE g : SizesOver(H, f, S, g)
  OBVIOUS
<1>3. SizesOver(H, f, S, k)
  BY <1>1, <1>2, SumsExist
<1>4. PICK j : j = CHOOSE g : SumsOver(w, S, g)
  OBVIOUS
<1>5. SumsOver(w, S, k) /\ SumsOver(w, S, j)
  BY <1>1, <1>3, <1>4, SumsExist
<1>6. k[S] = j[S]
  BY <1>5, SumsAreUnique
<1> QED BY <1>2, <1>4, <1>6, SumIs DEF SizesTable

\* the bytes of the first n frames of f
BytesIn(f, H, n) == SumFunctionOnSet([k \in DOMAIN f |-> H + f[k].length], 1 .. n)

LEMMA BytesOfIs ==
  ASSUME NEW n, n \in 0 .. Len(file), file \in Files
  PROVE  BytesOf(n) = BytesIn(file, HeaderSize, n)
<1>1. BytesOf(n) = SizesTable(HeaderSize, file, 1 .. n)[1 .. n]
  BY DEF SizesTable, BytesOf, MapThenSumSet, MapThenFoldSet, SizesOver, Chosen, Others
<1>2. IsFiniteSet(1 .. n)
  BY FS_Interval
<1>3. PICK w : w = [k \in DOMAIN file |-> HeaderSize + file[k].length]
  OBVIOUS
<1>4. \A x \in 1 .. n : w[x] = HeaderSize + file[x].length
  <2>1. file \in Seq(Frames)
    BY ReplayAssumption DEF Frames
  <2>2. 1 .. n \subseteq DOMAIN file
    BY <2>1
  <2> QED BY <1>3, <2>2
<1>5. SizesTable(HeaderSize, file, 1 .. n)[1 .. n] = SumFunctionOnSet(w, 1 .. n)
  BY <1>2, <1>4, SizesAre
<1> QED BY <1>1, <1>3, <1>5 DEF BytesIn

LEMMA BytesStep ==
  ASSUME NEW f \in Seq(Frames), NEW H \in Nat, NEW n \in Nat, n <= Len(f)
  PROVE  /\ BytesIn(f, H, n) \in Nat
         /\ n < Len(f) => BytesIn(f, H, n + 1) = BytesIn(f, H, n) + H + f[n + 1].length
         /\ BytesIn(f, H, 0) = 0
<1> DEFINE w == [k \in DOMAIN f |-> H + f[k].length]
<1>1. DOMAIN f = 1 .. Len(f) /\ Len(f) \in Nat /\ \A k \in 1 .. Len(f) : f[k] \in Frames
  OBVIOUS
<1>2. \A k \in 1 .. Len(f) : w[k] \in Nat /\ w[k] = H + f[k].length /\ f[k].length \in Nat
  BY <1>1 DEF Frames
<1> HIDE DEF w
<1>3. SumFunctionOnSet(w, 1 .. n) \in Nat
  <2>1. IsFiniteSet(1 .. n) /\ \A k \in 1 .. n : w[k] \in Nat
    BY <1>1, <1>2, FS_Interval
  <2> QED BY <2>1, SumType
<1>4. ASSUME n < Len(f)
      PROVE  SumFunctionOnSet(w, 1 .. n + 1) = SumFunctionOnSet(w, 1 .. n) + w[n + 1]
  <2>1. (\A x \in 1 .. n : w[x] = w[x]) /\ \A x \in 1 .. n + 1 : w[x] \in Nat
    BY <1>1, <1>2, <1>4
  <2> QED BY <2>1, SumExtend
<1>5. n < Len(f) => w[n + 1] = H + f[n + 1].length /\ f[n + 1].length \in Nat
  BY <1>1, <1>2
<1>6. SumFunctionOnSet(w, 1 .. 0) = 0
  <2>1. 1 .. 0 = {}
    OBVIOUS
  <2> QED BY <2>1, SumOfNoneOrOne
<1>7. \A m : BytesIn(f, H, m) = SumFunctionOnSet(w, 1 .. m)
  BY DEF BytesIn, w
<1>8. PICK a, b : a = SumFunctionOnSet(w, 1 .. n) /\ b = SumFunctionOnSet(w, 1 .. n + 1)
  OBVIOUS
<1>9. n < Len(f) => b = a + H + f[n + 1].length
  BY <1>3, <1>4, <1>5, <1>8
<1> QED BY <1>3, <1>6, <1>7, <1>8, <1>9

\* A later frame ends after an earlier one, and a header's length after it.
LEMMA BytesGrow ==
  ASSUME NEW f \in Seq(Frames), NEW H \in Nat, NEW m \in 0 .. Len(f), NEW n \in 0 .. Len(f), m < n
  PROVE  BytesIn(f, H, m + 1) <= BytesIn(f, H, n)
<1> DEFINE C == {k \in m + 1 .. n : ~(BytesIn(f, H, m + 1) <= BytesIn(f, H, k))}
<1>0. Len(f) \in Nat
  OBVIOUS
<1>1. \A k \in 0 .. Len(f) : BytesIn(f, H, k) \in Nat
  BY <1>0, BytesStep
<1>2. SUFFICES ASSUME C # {} PROVE FALSE
  <2>1. n \in m + 1 .. n
    BY <1>0
  <2> QED BY <2>1
<1>3. PICK k \in C : \A j \in C : k <= j
  <2>1. C \in SUBSET Nat
    BY <1>0
  <2> HIDE DEF C
  <2> QED BY <1>2, <2>1, LeastNat
<1>4. k # m + 1 /\ k \in m + 1 .. n /\ m + 1 \in 0 .. Len(f)
  BY <1>0, <1>1, <1>3
<1>5. k - 1 \in m + 1 .. n /\ k - 1 \notin C
  BY <1>0, <1>3, <1>4
<1>6. BytesIn(f, H, m + 1) <= BytesIn(f, H, k - 1)
  BY <1>5
<1>7. PICK j \in Nat : j = k - 1 /\ j + 1 = k /\ j < Len(f) /\ j \in 0 .. Len(f) /\ k \in 0 .. Len(f)
  BY <1>0, <1>4, <1>5
<1>8. BytesIn(f, H, k) = BytesIn(f, H, j) + H + f[k].length
  <2>1. BytesIn(f, H, j + 1) = BytesIn(f, H, j) + H + f[j + 1].length
    BY <1>7, BytesStep
  <2> QED BY <1>7, <2>1
<1>9. f[k].length \in Nat
  <2>1. k \in 1 .. Len(f)
    BY <1>7
  <2>2. f[k] \in Frames
    BY <2>1
  <2> QED BY <2>2 DEF Frames
<1>10. BytesIn(f, H, k) >= BytesIn(f, H, j) /\ BytesIn(f, H, j) >= BytesIn(f, H, m + 1)
  <2>1. BytesIn(f, H, k) \in Nat /\ BytesIn(f, H, j) \in Nat /\ BytesIn(f, H, m + 1) \in Nat
    BY <1>1, <1>4, <1>7
  <2> QED BY <1>6, <1>7, <1>8, <1>9, <2>1
<1>11. BytesIn(f, H, k) \in Nat /\ BytesIn(f, H, j) \in Nat /\ BytesIn(f, H, m + 1) \in Nat
  BY <1>1, <1>4, <1>7
<1> QED BY <1>3, <1>10, <1>11

\* A header that fits is that of a frame, and a frame fits with its header.
LEMMA HeaderAhead ==
  ASSUME NEW f \in Seq(Frames), NEW H \in Nat \ {0}, NEW k \in 0 .. Len(f), NEW p, NEW z \in Nat,
         p = BytesIn(f, H, k), z <= BytesIn(f, H, Len(f))
  PROVE  /\ p \in Nat
         /\ p + H <= z => k < Len(f)
         /\ k < Len(f) => /\ BytesIn(f, H, k + 1) = p + H + f[k + 1].length
                          /\ f[k + 1] \in Frames /\ BytesIn(f, H, k + 1) \in Nat
                          /\ ~(p + H <= z) => BytesIn(f, H, k + 1) > z
<1>1. Len(f) \in Nat /\ k \in Nat /\ k <= Len(f) /\ H \in Nat
  OBVIOUS
<1>2. p \in Nat /\ (k < Len(f) => BytesIn(f, H, k + 1) = p + H + f[k + 1].length)
  BY <1>1, BytesStep
<1>3. k < Len(f) => f[k + 1] \in Frames
  <2>1. k < Len(f) => k + 1 \in 1 .. Len(f)
    BY <1>1
  <2> QED BY <2>1
<1>4. k < Len(f) => f[k + 1].length \in Nat
  BY <1>3 DEF Frames
<1>5. ASSUME p + H <= z PROVE k < Len(f)
  <2>1. CASE k = Len(f)
    BY <1>2, <1>5, <2>1
  <2> QED BY <1>1, <2>1
<1> QED BY <1>2, <1>3, <1>4, <1>5

\* Frames have different beginnings, since headers are not empty.
LEMMA OneFrameBegins ==
  ASSUME NEW f \in Seq(Frames), NEW H \in Nat \ {0}, NEW m \in 0 .. Len(f), NEW n \in 0 .. Len(f),
         BytesIn(f, H, m) = BytesIn(f, H, n)
  PROVE  m = n
<1>1. ASSUME NEW a \in 0 .. Len(f), NEW b \in 0 .. Len(f), a < b
      PROVE  BytesIn(f, H, a) # BytesIn(f, H, b)
  <2>1. BytesIn(f, H, a + 1) <= BytesIn(f, H, b)
    BY <1>1, BytesGrow
  <2>2. /\ a \in Nat /\ b \in Nat /\ a < Len(f) /\ b <= Len(f) /\ a + 1 \in Nat /\ a + 1 <= Len(f)
        /\ a + 1 \in 1 .. Len(f)
    BY <1>1
  <2>3. /\ BytesIn(f, H, a) \in Nat /\ BytesIn(f, H, b) \in Nat /\ BytesIn(f, H, a + 1) \in Nat
        /\ BytesIn(f, H, a + 1) = BytesIn(f, H, a) + H + f[a + 1].length
    BY <2>2, BytesStep
  <2>4. f[a + 1].length \in Nat
    <3>1. f[a + 1] \in Frames
      BY <2>2
    <3> QED BY <3>1 DEF Frames
  <2> QED BY <2>1, <2>3, <2>4
<1> QED BY <1>1

LEMMA NativeFrame ==
  ASSUME file \in Files, NEW k \in 0 .. Len(file), k < Len(file),
         pos = BytesIn(file, Native!kWireHeaderSize, k)
  PROVE  Native!Mapping!Frame(file) = file[k + 1]
<1>1. file \in Seq(Frames) /\ Native!kWireHeaderSize \in Nat \ {0}
  <2>1. file \in Seq(Frames)
    BY ReplayAssumption DEF Frames
  <2>2. Native!kWireHeaderSize \in Nat \ {0}
    BY DEF Native!kWireHeaderSize
  <2> QED BY <2>1, <2>2
<1>2. ASSUME NEW n \in DOMAIN file
      PROVE  Native!Mapping!Start(file, n) = BytesIn(file, Native!kWireHeaderSize, n - 1)
  <2>1. Native!Mapping!Start(file, n) = SizesTable(Native!kWireHeaderSize, file, 1 .. n - 1)[1 .. n - 1]
    BY DEF Native!Mapping!Start, Native!Mapping!MapThenSumSet, Native!Mapping!MapThenFoldSet,
           SizesTable, SizesOver, Chosen, Others
  <2>2. PICK w : w = [j \in DOMAIN file |-> Native!kWireHeaderSize + file[j].length]
    OBVIOUS
  <2>3. IsFiniteSet(1 .. n - 1) /\ \A x \in 1 .. n - 1 : w[x] = Native!kWireHeaderSize + file[x].length
    <3>1. 1 .. n - 1 \subseteq DOMAIN file /\ n - 1 \in Int
      BY <1>1
    <3>2. IsFiniteSet(1 .. n - 1)
      BY <3>1, FS_Interval
    <3>3. \A x \in DOMAIN file : w[x] = Native!kWireHeaderSize + file[x].length
      BY <2>2
    <3> QED BY <3>1, <3>2, <3>3
  <2>4. SizesTable(Native!kWireHeaderSize, file, 1 .. n - 1)[1 .. n - 1] = SumFunctionOnSet(w, 1 .. n - 1)
    BY <2>3, SizesAre
  <2> QED BY <2>1, <2>2, <2>4 DEF BytesIn
<1>3. /\ k + 1 \in DOMAIN file /\ k + 1 - 1 = k
      /\ \A n \in DOMAIN file : n - 1 \in 0 .. Len(file) /\ (n - 1 = k => n = k + 1)
  BY <1>1
<1>4. \A n \in DOMAIN file : Native!Mapping!Start(file, n) = pos <=> n = k + 1
  <2>1. Native!Mapping!Start(file, k + 1) = pos
    BY <1>2, <1>3
  <2>2. ASSUME NEW n \in DOMAIN file, Native!Mapping!Start(file, n) = pos PROVE n = k + 1
    <3>1. n - 1 \in 0 .. Len(file)
          /\ BytesIn(file, Native!kWireHeaderSize, n - 1) = BytesIn(file, Native!kWireHeaderSize, k)
      BY <1>2, <1>3, <2>2
    <3>2. n - 1 = k
      BY <1>1, <3>1, OneFrameBegins
    <3> QED BY <1>3, <3>2
  <2> QED BY <2>1, <2>2
<1>5. (CHOOSE n \in DOMAIN file : Native!Mapping!Start(file, n) = pos) = k + 1
  BY <1>3, <1>4
<1> QED BY <1>5 DEF Native!Mapping!Frame

LEMMA ItchFrame ==
  ASSUME file \in Files, NEW k \in 0 .. Len(file), k < Len(file),
         pos = BytesIn(file, Itch!kItchHeaderSize, k)
  PROVE  Itch!Mapping!Frame(file) = file[k + 1]
<1>1. file \in Seq(Frames) /\ Itch!kItchHeaderSize \in Nat \ {0}
  <2>1. file \in Seq(Frames)
    BY ReplayAssumption DEF Frames
  <2>2. Itch!kItchHeaderSize \in Nat \ {0}
    BY DEF Itch!kItchHeaderSize
  <2> QED BY <2>1, <2>2
<1>2. ASSUME NEW n \in DOMAIN file
      PROVE  Itch!Mapping!Start(file, n) = BytesIn(file, Itch!kItchHeaderSize, n - 1)
  <2>1. Itch!Mapping!Start(file, n) = SizesTable(Itch!kItchHeaderSize, file, 1 .. n - 1)[1 .. n - 1]
    BY DEF Itch!Mapping!Start, Itch!Mapping!MapThenSumSet, Itch!Mapping!MapThenFoldSet,
           SizesTable, SizesOver, Chosen, Others
  <2>2. PICK w : w = [j \in DOMAIN file |-> Itch!kItchHeaderSize + file[j].length]
    OBVIOUS
  <2>3. IsFiniteSet(1 .. n - 1) /\ \A x \in 1 .. n - 1 : w[x] = Itch!kItchHeaderSize + file[x].length
    <3>1. 1 .. n - 1 \subseteq DOMAIN file /\ n - 1 \in Int
      BY <1>1
    <3>2. IsFiniteSet(1 .. n - 1)
      BY <3>1, FS_Interval
    <3>3. \A x \in DOMAIN file : w[x] = Itch!kItchHeaderSize + file[x].length
      BY <2>2
    <3> QED BY <3>1, <3>2, <3>3
  <2>4. SizesTable(Itch!kItchHeaderSize, file, 1 .. n - 1)[1 .. n - 1] = SumFunctionOnSet(w, 1 .. n - 1)
    BY <2>3, SizesAre
  <2> QED BY <2>1, <2>2, <2>4 DEF BytesIn
<1>3. /\ k + 1 \in DOMAIN file /\ k + 1 - 1 = k
      /\ \A n \in DOMAIN file : n - 1 \in 0 .. Len(file) /\ (n - 1 = k => n = k + 1)
  BY <1>1
<1>4. \A n \in DOMAIN file : Itch!Mapping!Start(file, n) = pos <=> n = k + 1
  <2>1. Itch!Mapping!Start(file, k + 1) = pos
    BY <1>2, <1>3
  <2>2. ASSUME NEW n \in DOMAIN file, Itch!Mapping!Start(file, n) = pos PROVE n = k + 1
    <3>1. n - 1 \in 0 .. Len(file)
          /\ BytesIn(file, Itch!kItchHeaderSize, n - 1) = BytesIn(file, Itch!kItchHeaderSize, k)
      BY <1>2, <1>3, <2>2
    <3>2. n - 1 = k
      BY <1>1, <3>1, OneFrameBegins
    <3> QED BY <1>3, <3>2
  <2> QED BY <2>1, <2>2
<1>5. (CHOOSE n \in DOMAIN file : Itch!Mapping!Start(file, n) = pos) = k + 1
  BY <1>3, <1>4
<1> QED BY <1>5 DEF Itch!Mapping!Frame
-----------------------------------------------------------------------------
(* One call of next().                                                     *)

AtFrame(H) ==
  /\ file \in Files /\ msg_count \in 0 .. Len(file)
  /\ pos = BytesIn(file, H, msg_count)
  /\ size \in Nat /\ size <= BytesIn(file, H, Len(file))

\* nothing more that is whole
NoneAhead(H) == msg_count < Len(file) => BytesIn(file, H, msg_count + 1) > size

TakesFrame(H) ==
  /\ msg_count < Len(file) /\ msg_count' = msg_count + 1
  /\ pos' = BytesIn(file, H, msg_count + 1) /\ BytesIn(file, H, msg_count + 1) <= size
  /\ UNCHANGED <<data, size, mappings>>

LEMMA NativeNext ==
  ASSUME AtFrame(Native!kWireHeaderSize), NEW m, Native!NextMsg(file, m)
  PROVE  \/ m = None /\ UNCHANGED readerVars /\ NoneAhead(Native!kWireHeaderSize)
         \/ /\ TakesFrame(Native!kWireHeaderSize)
            /\ m = {file[msg_count + 1]}
            /\ Native!Gaps!Count(Native!Gaps!SeqOf(file[msg_count + 1]))
<1> DEFINE H == Native!kWireHeaderSize
<1>1. file \in Seq(Frames) /\ H \in Nat \ {0}
  <2>1. file \in Seq(Frames)
    BY ReplayAssumption DEF Frames, AtFrame
  <2>2. H \in Nat \ {0}
    BY DEF Native!kWireHeaderSize
  <2> QED BY <2>1, <2>2
<1>2. /\ pos \in Nat
      /\ pos + H <= size => msg_count < Len(file)
      /\ msg_count < Len(file) => /\ BytesIn(file, H, msg_count + 1) = pos + H + file[msg_count + 1].length
                                  /\ BytesIn(file, H, msg_count + 1) \in Nat
                                  /\ ~(pos + H <= size) => BytesIn(file, H, msg_count + 1) > size
  <2> HIDE DEF H
  <2>1. msg_count \in 0 .. Len(file) /\ pos = BytesIn(file, H, msg_count)
        /\ size \in Nat /\ size <= BytesIn(file, H, Len(file))
    BY DEF AtFrame, H
  <2> QED BY <1>1, <2>1, HeaderAhead
<1>3. msg_count < Len(file) => Native!Mapping!Frame(file) = file[msg_count + 1]
  BY NativeFrame DEF AtFrame
<1>4. Native!Mapping!HeaderFits <=> pos + H <= size
  BY DEF Native!Mapping!HeaderFits
<1>5. Native!Truncated(file) <=> pos + H + Native!Mapping!Frame(file).length > size
  BY DEF Native!Truncated, Native!Mapping!Truncated
<1>6. CASE Native!EndOfFile(file) /\ m = None /\ UNCHANGED <<Native!fileVars, Native!gapVars>>
  <2>1. NoneAhead(H)
    <3> SUFFICES ASSUME msg_count < Len(file) PROVE BytesIn(file, H, msg_count + 1) > size
      BY DEF NoneAhead
    <3> HIDE DEF H
    <3>1. CASE pos + H <= size
      <4>1. pos + H + Native!Mapping!Frame(file).length > size
        BY <1>4, <1>5, <1>6, <3>1 DEF Native!EndOfFile
      <4> QED BY <1>2, <1>3, <4>1
    <3>2. CASE ~(pos + H <= size)
      BY <1>2, <3>2
    <3> QED BY <3>1, <3>2
  <2> QED BY <1>6, <2>1 DEF readerVars, fileVars, gapVars, Native!fileVars, Native!gapVars
<1>7. CASE /\ ~Native!EndOfFile(file) /\ m = {Native!Mapping!Frame(file)}
           /\ Native!Mapping!Advance(file)
           /\ Native!Gaps!Count(Native!Gaps!SeqOf(Native!Mapping!Frame(file)))
  <2>1. pos + H <= size /\ ~(pos + H + Native!Mapping!Frame(file).length > size)
    BY <1>4, <1>5, <1>7 DEF Native!EndOfFile
  <2>2. msg_count < Len(file) /\ Native!Mapping!Frame(file) = file[msg_count + 1]
    BY <1>2, <1>3, <2>1
  <2>3. BytesIn(file, H, msg_count + 1) = pos + H + file[msg_count + 1].length
        /\ BytesIn(file, H, msg_count + 1) \in Nat
    BY <1>2, <2>2
  <2>4. TakesFrame(H)
    <3>1. /\ pos' = pos + H + file[msg_count + 1].length /\ msg_count' = msg_count + 1
          /\ UNCHANGED <<data, size, mappings>>
      BY <1>7, <2>2 DEF Native!Mapping!Advance
    <3>2. size \in Nat
      BY DEF AtFrame
    <3>3. ~(BytesIn(file, H, msg_count + 1) > size)
      BY <2>1, <2>2, <2>3
    <3> HIDE DEF H
    <3>4. BytesIn(file, H, msg_count + 1) <= size
      BY <2>3, <3>2, <3>3
    <3> QED BY <2>2, <2>3, <3>1, <3>4 DEF TakesFrame
  <2> QED BY <1>7, <2>2, <2>4
<1> QED BY <1>6, <1>7 DEF Native!NextMsg, None, Native!None

LEMMA ItchNext ==
  ASSUME AtFrame(Itch!kItchHeaderSize), NEW m, Itch!NextMsg(file, m)
  PROVE  \/ m = None /\ UNCHANGED fileVars /\ NoneAhead(Itch!kItchHeaderSize)
         \/ /\ TakesFrame(Itch!kItchHeaderSize)
            /\ m = IF file[msg_count + 1].length < 1 THEN None ELSE {file[msg_count + 1]}
<1> DEFINE H == Itch!kItchHeaderSize
<1>1. file \in Seq(Frames) /\ H \in Nat \ {0}
  <2>1. file \in Seq(Frames)
    BY ReplayAssumption DEF Frames, AtFrame
  <2>2. H \in Nat \ {0}
    BY DEF Itch!kItchHeaderSize
  <2> QED BY <2>1, <2>2
<1>2. /\ pos \in Nat
      /\ pos + H <= size => msg_count < Len(file)
      /\ msg_count < Len(file) => /\ BytesIn(file, H, msg_count + 1) = pos + H + file[msg_count + 1].length
                                  /\ BytesIn(file, H, msg_count + 1) \in Nat
                                  /\ ~(pos + H <= size) => BytesIn(file, H, msg_count + 1) > size
  <2> HIDE DEF H
  <2>1. msg_count \in 0 .. Len(file) /\ pos = BytesIn(file, H, msg_count)
        /\ size \in Nat /\ size <= BytesIn(file, H, Len(file))
    BY DEF AtFrame, H
  <2> QED BY <1>1, <2>1, HeaderAhead
<1>3. msg_count < Len(file) => Itch!Mapping!Frame(file) = file[msg_count + 1]
  BY ItchFrame DEF AtFrame
<1>4. Itch!Mapping!HeaderFits <=> pos + H <= size
  BY DEF Itch!Mapping!HeaderFits
<1>5. Itch!Mapping!Truncated(file) <=> pos + H + Itch!Mapping!Frame(file).length > size
  BY DEF Itch!Mapping!Truncated
<1>6. CASE Itch!EndOfFile(file) /\ m = None /\ UNCHANGED Itch!fileVars
  <2>1. NoneAhead(H)
    <3> SUFFICES ASSUME msg_count < Len(file) PROVE BytesIn(file, H, msg_count + 1) > size
      BY DEF NoneAhead
    <3> HIDE DEF H
    <3>1. CASE pos + H <= size
      <4>1. pos + H + Itch!Mapping!Frame(file).length > size
        BY <1>4, <1>5, <1>6, <3>1 DEF Itch!EndOfFile
      <4> QED BY <1>2, <1>3, <4>1
    <3>2. CASE ~(pos + H <= size)
      BY <1>2, <3>2
    <3> QED BY <3>1, <3>2
  <2> QED BY <1>6, <2>1 DEF fileVars, Itch!fileVars
<1>7. CASE /\ ~Itch!EndOfFile(file) /\ Itch!Mapping!Advance(file)
           /\ m = IF Itch!Mapping!Frame(file).length < 1 THEN None ELSE {Itch!Mapping!Frame(file)}
  <2>1. pos + H <= size /\ ~(pos + H + Itch!Mapping!Frame(file).length > size)
    BY <1>4, <1>5, <1>7 DEF Itch!EndOfFile
  <2>2. msg_count < Len(file) /\ Itch!Mapping!Frame(file) = file[msg_count + 1]
    BY <1>2, <1>3, <2>1
  <2>3. BytesIn(file, H, msg_count + 1) = pos + H + file[msg_count + 1].length
        /\ BytesIn(file, H, msg_count + 1) \in Nat
    BY <1>2, <2>2
  <2>4. TakesFrame(H)
    <3>1. /\ pos' = pos + H + file[msg_count + 1].length /\ msg_count' = msg_count + 1
          /\ UNCHANGED <<data, size, mappings>>
      BY <1>7, <2>2 DEF Itch!Mapping!Advance
    <3>2. size \in Nat
      BY DEF AtFrame
    <3>3. ~(BytesIn(file, H, msg_count + 1) > size)
      BY <2>1, <2>2, <2>3
    <3> HIDE DEF H
    <3>4. BytesIn(file, H, msg_count + 1) <= size
      BY <2>3, <3>2, <3>3
    <3> QED BY <2>2, <2>3, <3>1, <3>4 DEF TakesFrame
  <2> QED BY <1>7, <2>2, <2>4
<1> QED BY <1>6, <1>7 DEF Itch!NextMsg, None, Itch!None
-----------------------------------------------------------------------------
(* The inductive invariant.                                                *)

\* the stages a path through the pipeline has
Stages == Latency!Labels \ {"TickToAck"}

LiveTrackers ==
  {t \in {"lat", "best_lat"} :
     IF t = "lat"
     THEN \/ phase \in {"open", "loop", "stages", "close", "result", "destroy", "crashed"}
          \/ ~Bench /\ phase \in {"print", "return"}
     ELSE Bench /\ phase \notin {"begin", "exit"}}

\* where the programs are, and which trackers live
Control ==
  /\ phase \in Phases /\ format \in {"native", "itch"}
  /\ phase \in {"result", "destroy"} => Bench
  /\ iter \in Nat /\ msgs \in Nat
  /\ results \in Seq(Nat) /\ Len(results) = (IF phase = "destroy" THEN iter + 1 ELSE iter)
  /\ pending \in Seq(Stages)
  /\ DOMAIN trackers = LiveTrackers

\* a file is mapped only while it is read
Mapped ==
  /\ data \in {"null", "file"}
  /\ mappings = IF data = "file" THEN 1 ELSE 0
  /\ data = "file" => phase \in {"loop", "stages", "close"}

\* what is open where nobody has looked
Checked ==
  /\ phase \in {"loop", "stages"} /\ ~Bench => opened
  /\ phase \in {"loop", "stages"} /\ data = "null" /\ opened => size = 0
  /\ phase = "stages" => data = "file"
  /\ phase = "crashed" => Bench /\ ~opened

\* The breaks in the first n numbers of the file f.
NumberOf(raw) == IF raw.length >= 8 THEN raw.seq ELSE 0
BreaksIn(f, n) == {k \in 2 .. n : NumberOf(f[k]) # (NumberOf(f[k - 1]) + 1) % U64}

GapsCounted ==
  /\ gap_count = Cardinality(BreaksIn(file, msg_count))
  /\ has_prev_seq = (msg_count > 0)
  /\ msg_count > 0 => last_seq_no = NumberOf(file[msg_count])

\* The reader is between two frames of the file.
Readable(n) == format = "itch" => file[n].length > 0
Reading ==
  /\ pos = BytesIn(file, HeaderSize, msg_count)
  /\ pos <= size /\ size = bytes
  /\ ~Bench => msgs <= max_msgs
  /\ \A k \in 1 .. msgs : Readable(k)
  /\ phase \in {"loop", "stages"} => msgs = msg_count
  /\ phase = "close" => \/ msgs = msg_count /\ NoneAhead(HeaderSize)
                        \/ msgs + 1 = msg_count /\ ~Readable(msg_count)
                        \/ msgs + 1 = msg_count /\ Readable(msg_count) /\ ~Bench /\ msgs = max_msgs
  /\ format = "native" => GapsCounted

\* Nothing was read.
Unread ==
  /\ pos = 0 /\ msg_count = 0 /\ msgs = 0
  /\ gap_count = 0 /\ has_prev_seq = FALSE

ReaderOK ==
  /\ file \in Files /\ bytes \in Nat /\ bytes <= BytesIn(file, HeaderSize, Len(file))
  /\ msg_count \in 0 .. Len(file)
  /\ pos \in Nat /\ pos <= size /\ size \in {0, bytes}
  /\ data = "file" => bytes > 0 /\ Reading
  /\ data = "null" /\ phase \in {"open", "loop", "close"} => Unread
  /\ phase = "open" => size = 0

IInv == Control /\ Owned /\ TrackersOK /\ Mapped /\ Checked /\ ReaderOK

LEMMA InitEstablishes == Init => IInv
<1> SUFFICES ASSUME Init PROVE IInv
  OBVIOUS
<1>1. /\ phase = "begin" /\ iter = 0 /\ opened = FALSE /\ msgs = 0 /\ pending = << >> /\ results = << >>
      /\ format \in {"native", "itch"} /\ file \in Files
      /\ \E c \in Cuts : c <= BytesOf(Len(file)) /\ bytes = BytesOf(Len(file)) - c
  BY DEF Init
<1>2. heap = << >> /\ trackers = << >>
  BY DEF Init, Latency!Init
<1>3. data = "null" /\ size = 0 /\ pos = 0 /\ msg_count = 0 /\ mappings = 0
  BY DEF Init, Native!Init, Native!Mapping!Init
<1>4. DOMAIN heap = {} /\ DOMAIN trackers = {}
  BY <1>2
<1>5. Control
  <2>1. LiveTrackers = {}
    BY <1>1 DEF LiveTrackers
  <2>2. << >> \in Seq(Nat) /\ << >> \in Seq(Stages) /\ Len(<< >>) = 0
    OBVIOUS
  <2> QED BY <1>1, <1>4, <2>1, <2>2 DEF Control, Phases
<1>6. Owned /\ TrackersOK
  BY <1>4, FS_EmptySet DEF Owned, TrackersOK
<1>7. Mapped /\ Checked
  BY <1>1, <1>3 DEF Mapped, Checked
<1>8. ReaderOK
  <2>1. file \in Seq(Frames) /\ HeaderSize \in Nat
    BY <1>1, ReplayAssumption DEF Frames, HeaderSize, Native!kWireHeaderSize, Itch!kItchHeaderSize
  <2>2. Len(file) \in Nat
    BY <2>1
  <2>3. BytesOf(Len(file)) = BytesIn(file, HeaderSize, Len(file))
    BY <1>1, <2>2, BytesOfIs
  <2>4. BytesIn(file, HeaderSize, Len(file)) \in Nat
    BY <2>1, <2>2, BytesStep
  <2>5. bytes \in Nat /\ bytes <= BytesIn(file, HeaderSize, Len(file))
    <3>1. Cuts \subseteq Nat
      BY ReplayAssumption
    <3> QED BY <1>1, <2>3, <2>4, <3>1
  <2> QED BY <1>1, <1>3, <2>2, <2>5 DEF ReaderOK
<1> QED BY <1>5, <1>6, <1>7, <1>8 DEF IInv
-----------------------------------------------------------------------------
(* The programs' control, and their trackers.                              *)

LEMMA PathsAre == Paths \subseteq Seq(Stages)
<1>1. /\ <<"MdIngress">> \in Seq(Stages) /\ <<"MdIngress", "BookUpdate">> \in Seq(Stages)
      /\ Quoted \in Seq(Stages)
  BY DEF Quoted, Stages, Latency!Labels
<1>2. <<"Risk">> \in Seq(Stages) /\ <<"Risk", "Gateway">> \in Seq(Stages)
  BY DEF Stages, Latency!Labels
<1>3. PICK S : S = Seq(Stages)
  OBVIOUS
<1>4. PerIntent \subseteq S
  BY <1>2, <1>3, Zenon DEF PerIntent
<1>5. ASSUME NEW a \in PerIntent, NEW b \in PerIntent PROVE (Quoted \o a) \o b \in S
  <2>1. a \in Seq(Stages) /\ b \in Seq(Stages)
    BY <1>3, <1>4, Zenon
  <2>2. Quoted \o a \in Seq(Stages)
    BY <1>1, <2>1
  <2> QED BY <1>3, <2>1, <2>2
<1>6. ASSUME NEW i \in PerIntent \X PerIntent PROVE (Quoted \o i[1]) \o i[2] \in S
  <2>1. i[1] \in PerIntent /\ i[2] \in PerIntent
    OBVIOUS
  <2> QED BY <1>5, <2>1, Zenon
<1>7. ASSUME NEW i \in PerIntent PROVE Quoted \o i \in S
  <2>1. i \in Seq(Stages)
    BY <1>3, <1>4, Zenon
  <2> QED BY <1>1, <1>3, <2>1
<1>8. <<"MdIngress">> \in S /\ <<"MdIngress", "BookUpdate">> \in S /\ Quoted \in S
  BY <1>1, <1>3, Zenon
<1>9. Paths \subseteq S
  BY <1>6, <1>7, <1>8, Zenon DEF Paths
<1> QED BY <1>3, <1>9, Zenon

LEMMA BeginKeeps ==
  ASSUME Control, Owned, TrackersOK, Begin
  PROVE  Control' /\ Owned' /\ TrackersOK'
<1>1. phase = "begin" /\ phase' = "iterate"
      /\ UNCHANGED <<program, format, iter, msgs, pending, results>>
  BY DEF Begin, inputVars
<1>2. DOMAIN trackers = {}
  BY <1>1 DEF Control, LiveTrackers
<1>3. CASE Bench
  <2>1. Latency!Construct("best_lat")
    BY <1>3 DEF Begin
  <2>2. Owned' /\ TrackersOK' /\ DOMAIN trackers' = {"best_lat"}
    BY <1>2, <2>1, ConstructKeeps
  <2>3. LiveTrackers' = {"best_lat"}
    BY <1>1, <1>3 DEF LiveTrackers, Bench
  <2> QED BY <1>1, <2>2, <2>3 DEF Control, Phases, Bench
<1>4. CASE ~Bench
  <2>1. UNCHANGED <<heap, trackers>>
    BY <1>4 DEF Begin, trackerVars
  <2>2. Owned' /\ TrackersOK'
    BY <2>1 DEF Owned, TrackersOK
  <2>3. LiveTrackers' = {}
    BY <1>1, <1>4 DEF LiveTrackers, Bench
  <2> QED BY <1>1, <1>2, <2>1, <2>2, <2>3 DEF Control, Phases, Bench
<1> QED BY <1>3, <1>4

LEMMA IterateKeeps ==
  ASSUME Control, Owned, TrackersOK, Iterate
  PROVE  Control' /\ Owned' /\ TrackersOK'
<1>1. phase = "iterate" /\ phase' = "open" /\ msgs' = 0 /\ Latency!Construct("lat")
      /\ UNCHANGED <<program, format, iter, pending, results>>
  BY DEF Iterate, inputVars
<1>2. DOMAIN trackers = LiveTrackers /\ "lat" \notin LiveTrackers
  BY <1>1 DEF Control, LiveTrackers
<1>3. Owned' /\ TrackersOK' /\ DOMAIN trackers' = DOMAIN trackers \cup {"lat"}
  BY <1>1, <1>2, ConstructKeeps
<1>4. LiveTrackers' = LiveTrackers \cup {"lat"}
  BY <1>1 DEF LiveTrackers, Bench
<1> QED BY <1>1, <1>2, <1>3, <1>4 DEF Control, Phases, Bench

\* What keeps the trackers, and goes on in the same run.
LEMMA SameTrackersKeep ==
  ASSUME Control, Owned, TrackersOK, UNCHANGED trackerVars, UNCHANGED inputVars, UNCHANGED <<iter, results>>,
         phase \in {"open", "loop", "stages", "close"},
         \/ phase' \in {"open", "loop", "stages", "close", "crashed"}
         \/ Bench /\ phase' = "result"
         \/ ~Bench /\ phase' \in {"print", "return"},
         msgs' \in Nat, pending' \in Seq(Stages)
  PROVE  Control' /\ Owned' /\ TrackersOK'
<1>1. UNCHANGED <<heap, trackers, program, format>>
  BY DEF trackerVars, inputVars
<1>2. Owned' /\ TrackersOK'
  BY <1>1 DEF Owned, TrackersOK
<1>3. LiveTrackers' = LiveTrackers
  BY <1>1 DEF LiveTrackers, Bench
<1> QED BY <1>1, <1>2, <1>3 DEF Control, Phases, Bench

LEMMA RunKeeps ==
  ASSUME Control, Owned, TrackersOK, OpenReader \/ ReadMessage \/ MessageDone \/ Crash \/ CloseReader
  PROVE  Control' /\ Owned' /\ TrackersOK'
<1>0. msgs \in Nat /\ pending \in Seq(Stages)
  BY DEF Control
<1>1. CASE OpenReader
  <2>1. phase = "open" /\ phase' \in {"loop", "close"} /\ UNCHANGED <<msgs, pending>>
    BY <1>1 DEF OpenReader, AfterOpen
  <2> QED BY <1>0, <1>1, <2>1, SameTrackersKeep DEF OpenReader
<1>2. CASE ReadMessage
  <2>1. /\ phase = "loop" /\ phase' \in {"close", "stages"}
        /\ msgs' \in {msgs, msgs + 1} /\ pending' \in {pending} \cup Paths
    BY <1>2 DEF ReadMessage
  <2>2. msgs' \in Nat /\ pending' \in Seq(Stages)
    BY <1>0, <2>1, PathsAre
  <2> QED BY <1>2, <2>1, <2>2, SameTrackersKeep DEF ReadMessage
<1>3. CASE MessageDone \/ Crash
  BY <1>0, <1>3, SameTrackersKeep DEF MessageDone, Crash
<1>4. CASE CloseReader
  <2>1. /\ phase = "close" /\ UNCHANGED <<msgs, pending>>
        /\ phase' = IF Bench THEN "result" ELSE IF opened THEN "print" ELSE "return"
    BY <1>4 DEF CloseReader
  <2> QED BY <1>0, <1>4, <2>1, SameTrackersKeep DEF CloseReader
<1> QED BY <1>1, <1>2, <1>3, <1>4

LEMMA RecordStageKeeps ==
  ASSUME Control, Owned, TrackersOK, RecordStage
  PROVE  Control' /\ Owned' /\ TrackersOK'
<1>1. /\ phase = "stages" /\ pending # << >> /\ pending' = Tail(pending)
      /\ UNCHANGED <<phase, program, format, iter, msgs, results>>
  BY DEF RecordStage, inputVars
<1>2. Head(pending) \in Latency!Labels /\ pending' \in Seq(Stages)
  BY <1>1 DEF Control, Stages
<1>3. PICK c : Latency!Record("lat", Head(pending), c)
  BY DEF RecordStage
<1>4. "lat" \in DOMAIN trackers
  BY <1>1 DEF Control, LiveTrackers
<1>5. Owned' /\ TrackersOK' /\ DOMAIN trackers' = DOMAIN trackers
  BY <1>2, <1>3, <1>4, RecordKeeps
<1>6. LiveTrackers' = LiveTrackers
  BY <1>1 DEF LiveTrackers, Bench
<1> QED BY <1>1, <1>2, <1>5, <1>6 DEF Control, Bench

LEMMA PushResultKeeps ==
  ASSUME Control, Owned, TrackersOK, PushResult
  PROVE  Control' /\ Owned' /\ TrackersOK'
<1>1. /\ phase = "result" /\ phase' = "destroy" /\ results' = Append(results, msgs)
      /\ UNCHANGED <<program, format, iter, msgs, pending>>
  BY DEF PushResult, inputVars
<1>2. Bench /\ DOMAIN trackers = LiveTrackers /\ LiveTrackers = {"lat", "best_lat"}
  BY <1>1 DEF Control, LiveTrackers
<1>3. Owned' /\ TrackersOK' /\ DOMAIN trackers' = DOMAIN trackers
  <2>1. CASE iter = Iterations - 1
    <3>1. Latency!MoveAssign("best_lat", "lat")
      BY <2>1 DEF PushResult
    <3> QED BY <1>2, <3>1, MoveKeeps
  <2>2. CASE iter # Iterations - 1
    <3>1. UNCHANGED <<heap, trackers>>
      BY <2>2 DEF PushResult, trackerVars
    <3> QED BY <3>1 DEF Owned, TrackersOK
  <2> QED BY <2>1, <2>2
<1>4. LiveTrackers' = {"lat", "best_lat"}
  BY <1>1, <1>2 DEF LiveTrackers, Bench
<1>5. results' \in Seq(Nat) /\ Len(results') = iter + 1
  BY <1>1 DEF Control
<1> QED BY <1>1, <1>2, <1>3, <1>4, <1>5 DEF Control, Phases, Bench

LEMMA EndIterationKeeps ==
  ASSUME Control, Owned, TrackersOK, EndIteration
  PROVE  Control' /\ Owned' /\ TrackersOK'
<1>1. /\ phase = "destroy" /\ phase' \in {"iterate", "print"} /\ iter' = iter + 1
      /\ Latency!Destroy("lat") /\ UNCHANGED <<program, format, msgs, pending, results>>
  BY DEF EndIteration, inputVars
<1>2. Bench /\ DOMAIN trackers = {"lat", "best_lat"}
  BY <1>1 DEF Control, LiveTrackers
<1>3. Owned' /\ TrackersOK' /\ DOMAIN trackers' = {"best_lat"}
  BY <1>1, <1>2, DestroyKeeps
<1>4. LiveTrackers' = {"best_lat"}
  BY <1>1, <1>2 DEF LiveTrackers, Bench
<1> QED BY <1>1, <1>2, <1>3, <1>4 DEF Control, Phases, Bench

LEMMA ExitKeeps ==
  ASSUME Control, Owned, TrackersOK, ShowSummary \/ Return
  PROVE  Control' /\ Owned' /\ TrackersOK'
<1>1. UNCHANGED <<program, format, iter, msgs, pending, results>>
  BY DEF ShowSummary, Return, inputVars
<1>2. CASE ShowSummary
  <2>1. phase = "print" /\ phase' = "return" /\ Latency!PrintSummary(Printed)
    BY <1>2 DEF ShowSummary
  <2>2. Owned' /\ TrackersOK' /\ DOMAIN trackers' = DOMAIN trackers
    BY <2>1, PrintKeeps
  <2>3. LiveTrackers' = LiveTrackers
    BY <1>1, <2>1 DEF LiveTrackers, Bench
  <2> QED BY <1>1, <2>1, <2>2, <2>3 DEF Control, Phases, Bench
<1>3. CASE Return
  <2>1. phase = "return" /\ phase' = "exit" /\ Latency!Destroy(Printed)
    BY <1>3 DEF Return
  <2>2. Printed \in DOMAIN trackers /\ DOMAIN trackers = {Printed}
    BY <2>1 DEF Control, LiveTrackers, Printed
  <2>3. Owned' /\ TrackersOK' /\ DOMAIN trackers' = {}
    <3>1. PICK t : t = Printed
      OBVIOUS
    <3> QED BY <2>1, <2>2, <3>1, DestroyKeeps
  <2>4. LiveTrackers' = {}
    BY <1>1, <2>1 DEF LiveTrackers, Bench
  <2> QED BY <1>1, <2>1, <2>3, <2>4 DEF Control, Phases, Bench
<1> QED BY <1>2, <1>3

LEMMA NextKeepsTrackers ==
  ASSUME Control, Owned, TrackersOK, [Next]_vars
  PROVE  Control' /\ Owned' /\ TrackersOK'
<1>1. CASE UNCHANGED vars
  <2>1. UNCHANGED <<heap, trackers, phase, program, format, iter, msgs, pending, results>>
    BY <1>1 DEF vars, inputVars, trackerVars
  <2> QED BY <2>1 DEF Owned, TrackersOK, Control, LiveTrackers, Bench
<1> QED BY <1>1, BeginKeeps, IterateKeeps, RunKeeps, RecordStageKeeps, PushResultKeeps,
           EndIterationKeeps, ExitKeeps DEF Next
-----------------------------------------------------------------------------
(* The reader.                                                             *)

LEMMA FilesAre ==
  ASSUME file \in Files
  PROVE  /\ file \in Seq(Frames) /\ Len(file) \in Nat /\ DOMAIN file = 1 .. Len(file)
         /\ \A k \in 1 .. Len(file) : file[k] \in Frames
<1>1. file \in Seq(Frames)
  BY ReplayAssumption DEF Frames
<1> QED BY <1>1

LEMMA HeaderIs ==
  /\ format = "native" => HeaderSize = Native!kWireHeaderSize
  /\ format # "native" => HeaderSize = Itch!kItchHeaderSize
  /\ HeaderSize \in Nat \ {0}
BY DEF HeaderSize, Native!kWireHeaderSize, Itch!kItchHeaderSize

\* what only moves the program from phase to phase, reading or not
LEMMA SameReaderKeeps ==
  ASSUME Mapped, Checked, ReaderOK, UNCHANGED <<inputVars, readerVars, opened, msgs>>,
         \/ phase' = phase
         \/ phase = "stages" /\ phase' = "loop"
         \/ phase \notin {"loop", "stages", "close"}
            /\ phase' \notin {"open", "loop", "stages", "close", "crashed"}
  PROVE  Mapped' /\ Checked' /\ ReaderOK'
<1>1. /\ UNCHANGED <<program, format, file, bytes, data, size, pos, msg_count, mappings>>
      /\ UNCHANGED <<last_seq_no, gap_count, has_prev_seq, opened, msgs>>
  BY DEF inputVars, readerVars, fileVars, gapVars
<1>2. Mapped' /\ Checked'
  BY <1>1 DEF Mapped, Checked, Bench
<1>3. HeaderSize' = HeaderSize
  BY <1>1 DEF HeaderSize
<1>4. GapsCounted => GapsCounted'
  BY <1>1 DEF GapsCounted
<1>5. ASSUME data = "file" PROVE Reading'
  <2>1. Reading /\ phase \in {"loop", "stages", "close"}
    BY <1>5 DEF ReaderOK, Mapped
  <2>2. NoneAhead(HeaderSize) => NoneAhead(HeaderSize)'
    BY <1>1, <1>3 DEF NoneAhead
  <2>3. \A k : Readable(k)' <=> Readable(k)
    BY <1>1 DEF Readable
  <2> QED BY <1>1, <1>3, <1>4, <2>1, <2>2, <2>3 DEF Reading, Readable, Bench
<1>6. ASSUME data = "null", phase' \in {"open", "loop", "close"} PROVE Unread'
  BY <1>1, <1>6 DEF ReaderOK, Unread, Checked
<1> QED BY <1>1, <1>2, <1>3, <1>5, <1>6 DEF ReaderOK

LEMMA CrashKeeps ==
  ASSUME Mapped, Checked, ReaderOK, Crash
  PROVE  Mapped' /\ Checked' /\ ReaderOK'
<1>1. /\ phase = "loop" /\ phase' = "crashed" /\ ReadsNull
      /\ UNCHANGED <<program, format, file, bytes, data, size, pos, msg_count, mappings, opened>>
  BY DEF Crash, inputVars, readerVars, fileVars
<1>2. data = "null" /\ pos + HeaderSize <= size
  BY <1>1 DEF ReadsNull, HeaderSize, Native!Mapping!ReadsNull, Native!Mapping!HeaderFits,
              Itch!Mapping!ReadsNull, Itch!Mapping!HeaderFits
<1>3. ~opened
  <2>1. pos \in Nat /\ HeaderSize \in Nat \ {0}
    BY HeaderIs DEF ReaderOK
  <2>2. size # 0
    BY <1>2, <2>1
  <2> QED BY <1>1, <1>2, <2>2 DEF Checked
<1>4. Bench
  BY <1>1, <1>3 DEF Checked
<1>5. HeaderSize' = HeaderSize
  BY <1>1 DEF HeaderSize
<1> QED BY <1>1, <1>2, <1>3, <1>4, <1>5 DEF Mapped, Checked, ReaderOK, Bench

LEMMA IterateReads ==
  ASSUME Mapped, Checked, ReaderOK, Iterate
  PROVE  Mapped' /\ Checked' /\ ReaderOK'
<1>1. /\ phase = "iterate" /\ phase' = "open" /\ msgs' = 0
      /\ UNCHANGED <<program, format, file, bytes, opened>>
  BY DEF Iterate, inputVars
<1>2. /\ data' = "null" /\ size' = 0 /\ pos' = 0 /\ msg_count' = 0 /\ mappings' = mappings
      /\ gap_count' = 0 /\ has_prev_seq' = FALSE
  BY DEF Iterate, Native!Construct, Native!Mapping!Construct
<1>3. HeaderSize' = HeaderSize
  BY <1>1 DEF HeaderSize
<1>4. Mapped' /\ Checked'
  BY <1>1, <1>2 DEF Mapped, Checked
<1>5. 0 \in 0 .. Len(file)
  BY FilesAre DEF ReaderOK
<1> QED BY <1>1, <1>2, <1>3, <1>4, <1>5 DEF ReaderOK, Unread

LEMMA CloseKeeps ==
  ASSUME Mapped, Checked, ReaderOK, CloseReader
  PROVE  Mapped' /\ Checked' /\ ReaderOK'
<1>1. /\ phase = "close" /\ phase' \in {"result", "print", "return"}
      /\ UNCHANGED <<program, format, file, bytes, opened, msgs>>
  BY DEF CloseReader, inputVars
<1>2. /\ data' = "null" /\ size' = 0 /\ pos' = 0 /\ msg_count' = msg_count
      /\ mappings' = IF data = "file" /\ size > 0 THEN mappings - 1 ELSE mappings
  BY DEF CloseReader, Native!Mapping!Close
<1>3. data = "file" => size > 0
  BY DEF ReaderOK, Reading
<1>4. mappings' = 0
  BY <1>2, <1>3 DEF Mapped
<1>5. HeaderSize' = HeaderSize
  BY <1>1 DEF HeaderSize
<1>6. Mapped' /\ Checked'
  BY <1>1, <1>2, <1>4 DEF Mapped, Checked
<1> QED BY <1>1, <1>2, <1>5, <1>6 DEF ReaderOK

LEMMA NoBreaks ==
  ASSUME NEW f PROVE Cardinality(BreaksIn(f, 0)) = 0
<1>1. BreaksIn(f, 0) = {}
  BY DEF BreaksIn
<1> QED BY <1>1, FS_EmptySet

LEMMA OpenReads ==
  ASSUME Mapped, Checked, ReaderOK, OpenReader
  PROVE  Mapped' /\ Checked' /\ ReaderOK'
<1>1. /\ phase = "open" /\ phase' = AfterOpen(opened')
      /\ UNCHANGED <<program, format, file, bytes, msgs>>
  BY DEF OpenReader, inputVars
<1>2. /\ data = "null" /\ mappings = 0 /\ size = 0 /\ pos = 0 /\ msg_count = 0 /\ msgs = 0
      /\ gap_count = 0 /\ has_prev_seq = FALSE /\ bytes \in Nat
  BY <1>1 DEF Mapped, ReaderOK, Unread
<1>3. PICK outcome \in {"ok", "no_file", "no_stat", "no_map"} :
        /\ \/ format = "native" /\ Native!Open(outcome, bytes)
           \/ format = "itch" /\ Itch!Open(outcome, bytes) /\ UNCHANGED gapVars
        /\ opened' = (outcome = "ok")
  BY DEF OpenReader
<1>4. /\ \/ outcome \in {"no_file", "no_stat"} /\ UNCHANGED <<data, size, pos, msg_count, mappings>>
         \/ /\ outcome = "no_map" /\ bytes > 0 /\ data' = "null" /\ size' = bytes
            /\ UNCHANGED <<pos, msg_count, mappings>>
         \/ /\ outcome = "ok"
            /\ data' = IF bytes > 0 THEN "file" ELSE data
            /\ mappings' = IF bytes > 0 THEN mappings + 1 ELSE mappings
            /\ size' = bytes /\ pos' = 0 /\ msg_count' = 0
      /\ gap_count' = 0 /\ has_prev_seq' = FALSE
  BY <1>2, <1>3 DEF Native!Open, Native!Mapping!Open, Native!gapVars, Itch!Open, Itch!Mapping!Open,
                    gapVars, Native!Mapping!fileVars, Itch!Mapping!fileVars
<1>5. Len(file) \in Nat /\ file \in Seq(Frames) /\ HeaderSize \in Nat /\ HeaderSize' = HeaderSize
  BY <1>1, FilesAre, HeaderIs DEF ReaderOK, HeaderSize
<1>6. BytesIn(file, HeaderSize, 0) = 0
  <2>1. 0 \in Nat /\ 0 <= Len(file)
    BY <1>5
  <2> QED BY <1>5, <2>1, BytesStep
<1>7. phase' = (IF Bench \/ opened' THEN "loop" ELSE "close") /\ phase' \in {"loop", "close"}
  BY <1>1 DEF AfterOpen
<1>8. /\ msg_count' = 0 /\ pos' = 0 /\ size' \in {0, bytes} /\ data' \in {"null", "file"}
      /\ mappings' = (IF data' = "file" THEN 1 ELSE 0)
      /\ data' = "file" => outcome = "ok" /\ bytes > 0 /\ size' = bytes
      /\ data' = "null" /\ outcome = "ok" => size' = 0
  <2>1. CASE outcome \in {"no_file", "no_stat"} /\ UNCHANGED <<data, size, pos, msg_count, mappings>>
    BY <1>2, <2>1
  <2>2. CASE /\ outcome = "no_map" /\ bytes > 0 /\ data' = "null" /\ size' = bytes
             /\ UNCHANGED <<pos, msg_count, mappings>>
    BY <1>2, <2>2
  <2>3. CASE /\ outcome = "ok"
             /\ data' = IF bytes > 0 THEN "file" ELSE data
             /\ mappings' = IF bytes > 0 THEN mappings + 1 ELSE mappings
             /\ size' = bytes /\ pos' = 0 /\ msg_count' = 0
    <3>1. CASE bytes > 0
      BY <1>2, <2>3, <3>1
    <3>2. CASE bytes = 0
      BY <1>2, <2>3, <3>2
    <3> QED BY <1>2, <3>1, <3>2
  <2> QED BY <1>4, <2>1, <2>2, <2>3
<1>9. Mapped'
  <2>1. data' = "file" => opened'
    BY <1>3, <1>8
  <2> QED BY <1>7, <1>8, <2>1 DEF Mapped
<1>10. Checked'
  <2>1. data' = "null" /\ opened' => size' = 0
    BY <1>3, <1>8
  <2> QED BY <1>1, <1>7, <2>1 DEF Checked, Bench
<1>11. ASSUME data' = "file" PROVE Reading' /\ bytes' > 0
  <2>1. outcome = "ok" /\ bytes > 0 /\ size' = bytes /\ phase' = "loop"
    BY <1>3, <1>7, <1>8, <1>11
  <2>2. GapsCounted'
    <3>1. Cardinality(BreaksIn(file', 0)) = 0
      BY NoBreaks
    <3>2. gap_count' = Cardinality(BreaksIn(file', msg_count'))
      BY <1>4, <1>8, <3>1
    <3>3. ~(msg_count' > 0) /\ (0 > 0) = FALSE
      BY <1>8
    <3> QED BY <1>4, <1>8, <3>2, <3>3 DEF GapsCounted
  <2>3. max_msgs \in Nat
    BY ReplayAssumption
  <2>5. 1 .. 0 = {}
    OBVIOUS
  <2>4. pos' = BytesIn(file', HeaderSize', msg_count')
    BY <1>1, <1>5, <1>6, <1>8
  <2> QED BY <1>1, <1>2, <1>8, <2>1, <2>2, <2>3, <2>4, <2>5 DEF Reading
<1>12. Unread'
  BY <1>1, <1>2, <1>4, <1>8 DEF Unread
<1>13. file' \in Files /\ bytes' \in Nat /\ bytes' <= BytesIn(file', HeaderSize', Len(file'))
       /\ msg_count' \in 0 .. Len(file')
  <2>1. 0 \in 0 .. Len(file)
    BY <1>5
  <2> QED BY <1>1, <1>5, <1>8, <2>1 DEF ReaderOK
<1>14. pos' \in Nat /\ pos' <= size' /\ size' \in {0, bytes'} /\ phase' # "open"
  BY <1>1, <1>2, <1>7, <1>8
<1>15. (data' = "file" => bytes' > 0 /\ Reading')
       /\ (data' = "null" /\ phase' \in {"open", "loop", "close"} => Unread')
  BY <1>11, <1>12
<1> QED BY <1>9, <1>10, <1>13, <1>14, <1>15, Zenon DEF ReaderOK

\* The next number breaks the sequence, or does not.
LEMMA BreaksGrow ==
  ASSUME NEW f, NEW n \in Nat
  PROVE  /\ IsFiniteSet(BreaksIn(f, n))
         /\ Cardinality(BreaksIn(f, n + 1)) =
              IF n > 0 /\ NumberOf(f[n + 1]) # (NumberOf(f[n]) + 1) % U64
              THEN Cardinality(BreaksIn(f, n)) + 1 ELSE Cardinality(BreaksIn(f, n))
<1> DEFINE Breaks(k) == NumberOf(f[k]) # (NumberOf(f[k - 1]) + 1) % U64
<1>1. \A m : BreaksIn(f, m) = {k \in 2 .. m : Breaks(k)}
  BY DEF BreaksIn
<1>2. n + 1 - 1 = n
  OBVIOUS
<1>3. Breaks(n + 1) <=> NumberOf(f[n + 1]) # (NumberOf(f[n]) + 1) % U64
  BY <1>2
<1> HIDE DEF Breaks
<1>4. IsFiniteSet(2 .. n)
  BY FS_Interval
<1>5. IsFiniteSet(BreaksIn(f, n)) /\ n + 1 \notin BreaksIn(f, n)
  BY <1>1, <1>4, FS_Subset
<1>6. CASE n > 0 /\ Breaks(n + 1)
  <2>1. {k \in 2 .. n + 1 : Breaks(k)} = {k \in 2 .. n : Breaks(k)} \cup {n + 1}
    BY <1>6
  <2>2. Cardinality(BreaksIn(f, n) \cup {n + 1}) = Cardinality(BreaksIn(f, n)) + 1
    BY <1>5, FS_AddElement
  <2> QED BY <1>1, <1>3, <1>5, <1>6, <2>1, <2>2
<1>7. CASE ~(n > 0 /\ Breaks(n + 1))
  <2>1. {k \in 2 .. n + 1 : Breaks(k)} = {k \in 2 .. n : Breaks(k)}
    BY <1>7
  <2> QED BY <1>1, <1>3, <1>5, <1>7, <2>1
<1> QED BY <1>6, <1>7

LEMMA GapStep ==
  ASSUME file \in Files, msg_count \in 0 .. Len(file), GapsCounted,
         Native!Gaps!Count(Native!Gaps!SeqOf(file[msg_count + 1])),
         file' = file, msg_count' = msg_count + 1
  PROVE  GapsCounted'
<1>1. PICK n \in Nat : n = msg_count
  BY FilesAre
<1>2. /\ gap_count' = IF has_prev_seq /\ ~(NumberOf(file[n + 1]) = (last_seq_no + 1) % U64)
                       THEN gap_count + 1 ELSE gap_count
      /\ last_seq_no' = NumberOf(file[n + 1]) /\ has_prev_seq' = TRUE
  BY <1>1 DEF Native!Gaps!Count, Native!Gaps!Follows, Native!Gaps!SeqOf, Native!Gaps!SeqSize, NumberOf
<1>3. gap_count = Cardinality(BreaksIn(file, n)) /\ (n > 0 => last_seq_no = NumberOf(file[n]))
      /\ has_prev_seq = (n > 0)
  BY <1>1 DEF GapsCounted
<1>4. gap_count' = Cardinality(BreaksIn(file, n + 1))
  BY <1>2, <1>3, BreaksGrow
<1>5. file' = file /\ msg_count' = n + 1 /\ (n + 1 > 0) = TRUE
  BY <1>1
<1> QED BY <1>2, <1>4, <1>5 DEF GapsCounted

\* What ReadMessage makes of what next() returned.
Hands(m) ==
  \/ /\ m = None \/ LimitReached
     /\ phase' = "close" /\ UNCHANGED msgs
  \/ /\ m # None /\ ~LimitReached
     /\ phase' = "stages" /\ msgs' = msgs + 1

\* The reader found another frame.
Took ==
  /\ UNCHANGED <<data, size, mappings>>
  /\ msg_count' = msg_count + 1 /\ msg_count < Len(file)
  /\ pos' = BytesIn(file, HeaderSize, msg_count + 1) /\ pos' <= size
  /\ format = "native" => GapsCounted'

LEMMA NextIs ==
  ASSUME ReaderOK, Reading, phase = "loop", format \in {"native", "itch"}, file' = file, NEW m,
         \/ format = "native" /\ Native!NextMsg(file, m)
         \/ format = "itch" /\ Itch!NextMsg(file, m) /\ UNCHANGED gapVars
  PROVE  \/ m = None /\ UNCHANGED readerVars /\ NoneAhead(HeaderSize)
         \/ Took /\ m = IF Readable(msg_count + 1) THEN {file[msg_count + 1]} ELSE None
<1>1. AtFrame(HeaderSize)
  <2>1. size \in Nat /\ size <= BytesIn(file, HeaderSize, Len(file))
    BY DEF ReaderOK, Reading
  <2> QED BY <2>1 DEF AtFrame, ReaderOK, Reading
<1>2. CASE format = "native" /\ Native!NextMsg(file, m)
  <2>1. HeaderSize = Native!kWireHeaderSize
    BY <1>2, HeaderIs
  <2>2. CASE m = None /\ UNCHANGED readerVars /\ NoneAhead(Native!kWireHeaderSize)
    BY <2>1, <2>2
  <2>3. CASE /\ TakesFrame(Native!kWireHeaderSize) /\ m = {file[msg_count + 1]}
             /\ Native!Gaps!Count(Native!Gaps!SeqOf(file[msg_count + 1]))
    <3>1. GapsCounted /\ msg_count \in 0 .. Len(file) /\ file \in Files
      BY <1>2 DEF Reading, ReaderOK
    <3>2. GapsCounted'
      BY <2>3, <3>1, GapStep DEF TakesFrame
    <3>3. Took
      BY <2>1, <2>3, <3>2 DEF TakesFrame, Took
    <3> QED BY <1>2, <2>3, <3>3 DEF Readable
  <2> QED BY <1>1, <1>2, <2>1, <2>2, <2>3, NativeNext
<1>3. CASE format = "itch" /\ Itch!NextMsg(file, m) /\ UNCHANGED gapVars
  <2>1. HeaderSize = Itch!kItchHeaderSize
    BY <1>3, HeaderIs
  <2>2. CASE m = None /\ UNCHANGED fileVars /\ NoneAhead(Itch!kItchHeaderSize)
    BY <1>3, <2>1, <2>2 DEF readerVars
  <2>3. CASE /\ TakesFrame(Itch!kItchHeaderSize)
             /\ m = IF file[msg_count + 1].length < 1 THEN None ELSE {file[msg_count + 1]}
    <3>1. Took
      BY <1>3, <2>1, <2>3 DEF TakesFrame, Took
    <3>2. Readable(msg_count + 1) <=> ~(file[msg_count + 1].length < 1)
      <4>1. msg_count \in Nat /\ msg_count + 1 \in 1 .. Len(file)
        BY <2>3, FilesAre DEF ReaderOK, TakesFrame
      <4>2. file[msg_count + 1].length \in Nat
        BY <4>1, FilesAre DEF ReaderOK, Frames
      <4> QED BY <1>3, <4>2 DEF Readable
    <3> QED BY <2>3, <3>1, <3>2
  <2> QED BY <1>1, <1>3, <2>1, <2>2, <2>3, ItchNext
<1> QED BY <1>2, <1>3

LEMMA NullNext ==
  ASSUME ~ReadsNull, data = "null", format \in {"native", "itch"}, NEW m,
         \/ format = "native" /\ Native!NextMsg(file, m)
         \/ format = "itch" /\ Itch!NextMsg(file, m) /\ UNCHANGED gapVars
  PROVE  m = None /\ UNCHANGED readerVars
<1>1. CASE format = "native" /\ Native!NextMsg(file, m)
  <2>1. Native!EndOfFile(file)
    BY <1>1 DEF ReadsNull, Native!Mapping!ReadsNull, Native!EndOfFile
  <2> QED BY <1>1, <2>1 DEF Native!NextMsg, Native!fileVars, Native!gapVars, readerVars, fileVars, gapVars,
                            None, Native!None
<1>2. CASE format = "itch" /\ Itch!NextMsg(file, m) /\ UNCHANGED gapVars
  <2>1. Itch!EndOfFile(file)
    BY <1>2 DEF ReadsNull, Itch!Mapping!ReadsNull, Itch!EndOfFile
  <2> QED BY <1>2, <2>1 DEF Itch!NextMsg, Itch!fileVars, readerVars, fileVars, None, Itch!None
<1> QED BY <1>1, <1>2

LEMMA ReadReads ==
  ASSUME Control, Mapped, Checked, ReaderOK, ReadMessage
  PROVE  Mapped' /\ Checked' /\ ReaderOK'
<1>1. /\ phase = "loop" /\ ~ReadsNull /\ format \in {"native", "itch"} /\ msgs \in Nat
      /\ UNCHANGED <<program, format, file, bytes, opened>>
  BY DEF ReadMessage, inputVars, Control
<1>2. PICK m : /\ \/ format = "native" /\ Native!NextMsg(file, m)
                  \/ format = "itch" /\ Itch!NextMsg(file, m) /\ UNCHANGED gapVars
               /\ Hands(m)
  BY DEF ReadMessage, Hands
<1>3. HeaderSize' = HeaderSize /\ file \in Files
  BY <1>1 DEF HeaderSize, ReaderOK
<1>4. phase' \in {"close", "stages"}
  BY <1>2 DEF Hands
<1>5. CASE data = "null"
  <2>1. m = None /\ UNCHANGED readerVars
    BY <1>1, <1>2, <1>5, NullNext
  <2>2. phase' = "close" /\ UNCHANGED msgs
    BY <1>2, <2>1 DEF Hands
  <2>3. UNCHANGED <<data, size, pos, msg_count, mappings, gap_count, has_prev_seq>>
    BY <2>1 DEF readerVars, fileVars, gapVars
  <2>4. Unread
    BY <1>1, <1>5 DEF ReaderOK
  <2>5. Unread'
    BY <2>2, <2>3, <2>4 DEF Unread
  <2>6. Mapped' /\ Checked'
    BY <1>5, <2>2, <2>3 DEF Mapped, Checked
  <2> QED BY <1>1, <1>3, <1>5, <2>2, <2>3, <2>5, <2>6 DEF ReaderOK
<1>6. CASE data = "file"
  <2>1. Reading /\ msgs = msg_count /\ bytes > 0
    BY <1>1, <1>6 DEF ReaderOK, Reading
  <2>2. \A k : Readable(k)' <=> Readable(k)
    BY <1>1 DEF Readable
  <2>3. max_msgs \in Nat /\ (~Bench => msgs <= max_msgs)
    BY <2>1, ReplayAssumption DEF Reading
  <2>4. \A k \in 1 .. msgs : Readable(k)
    BY <2>1 DEF Reading
  <2>5. CASE m = None /\ UNCHANGED readerVars /\ NoneAhead(HeaderSize)
    <3>1. phase' = "close" /\ UNCHANGED msgs
      BY <1>2, <2>5 DEF Hands
    <3>2. /\ UNCHANGED <<data, size, pos, msg_count, mappings>>
          /\ UNCHANGED <<last_seq_no, gap_count, has_prev_seq>>
      BY <2>5 DEF readerVars, fileVars, gapVars
    <3>3. Mapped' /\ Checked'
      BY <1>1, <1>6, <3>1, <3>2 DEF Mapped, Checked
    <3>4. GapsCounted => GapsCounted'
      BY <1>1, <3>2 DEF GapsCounted
    <3>5. NoneAhead(HeaderSize)'
      BY <1>1, <1>3, <2>5, <3>2 DEF NoneAhead
    <3>6. Reading'
      BY <1>1, <1>3, <2>1, <2>2, <3>1, <3>2, <3>4, <3>5 DEF Reading, Readable, Bench
    <3> QED BY <1>1, <1>3, <1>6, <2>1, <3>1, <3>2, <3>3, <3>6 DEF ReaderOK
  <2>6. CASE Took /\ m = IF Readable(msg_count + 1) THEN {file[msg_count + 1]} ELSE None
    <3>1. /\ UNCHANGED <<data, size, mappings>>
          /\ msg_count' = msg_count + 1 /\ msg_count < Len(file)
          /\ pos' = BytesIn(file, HeaderSize, msg_count + 1) /\ pos' <= size
          /\ format = "native" => GapsCounted'
      BY <2>6 DEF Took
    <3>2. Mapped' /\ Checked'
      BY <1>1, <1>4, <1>6, <3>1 DEF Mapped, Checked, Bench
    <3>3. msg_count \in Nat /\ Len(file) \in Nat /\ msg_count' \in 0 .. Len(file)
      BY <3>1, FilesAre DEF ReaderOK
    <3>4. pos' \in Nat
      <4>1. BytesIn(file, HeaderSize, msg_count + 1) \in Nat
        BY <1>3, <3>1, <3>3, FilesAre, HeaderIs, BytesStep
      <4> QED BY <3>1, <4>1
    <3>5. /\ \A k \in 1 .. msgs' : Readable(k)
          /\ ~Bench => msgs' <= max_msgs
          /\ phase' = "stages" => msgs' = msg_count'
          /\ phase' = "close" => \/ msgs' + 1 = msg_count' /\ ~Readable(msg_count')
                                 \/ msgs' + 1 = msg_count' /\ Readable(msg_count') /\ ~Bench /\ msgs' = max_msgs
      <4>1. CASE phase' = "close" /\ UNCHANGED msgs /\ ~Readable(msg_count + 1)
        BY <2>1, <2>3, <2>4, <3>1, <4>1
      <4>2. CASE phase' = "close" /\ UNCHANGED msgs /\ Readable(msg_count + 1)
        <5>1. LimitReached
          BY <1>2, <2>6, <4>2 DEF Hands, None
        <5>2. ~Bench /\ msgs = max_msgs
          BY <1>1, <2>3, <5>1 DEF LimitReached
        <5> QED BY <2>1, <2>3, <2>4, <3>1, <4>2, <5>2
      <4>3. CASE phase' = "stages" /\ msgs' = msgs + 1 /\ m # None /\ ~LimitReached
        <5>1. Readable(msgs + 1)
          BY <2>1, <2>6, <4>3
        <5>2. \A k \in 1 .. msgs + 1 : Readable(k)
          BY <1>1, <2>4, <5>1
        <5>3. ~Bench => msgs + 1 <= max_msgs
          BY <1>1, <2>3, <4>3 DEF LimitReached
        <5> QED BY <2>1, <3>1, <4>3, <5>2, <5>3
      <4> QED BY <1>2, <4>1, <4>2, <4>3 DEF Hands
    <3>6. Bench' <=> Bench
      BY <1>1 DEF Bench
    <3>7. Reading'
      BY <1>1, <1>3, <1>4, <2>1, <2>2, <3>1, <3>5, <3>6 DEF Reading
    <3> QED BY <1>1, <1>3, <1>4, <1>6, <2>1, <3>1, <3>2, <3>3, <3>4, <3>7 DEF ReaderOK
  <2> QED BY <1>1, <1>2, <2>1, <2>5, <2>6, NextIs
<1> QED BY <1>5, <1>6 DEF Mapped

LEMMA IInvHolds == Spec => []IInv
<1>1. IInv /\ [Next]_vars => IInv'
  <2> SUFFICES ASSUME IInv, [Next]_vars PROVE IInv'
    OBVIOUS
  <2>1. Control /\ Owned /\ TrackersOK /\ Mapped /\ Checked /\ ReaderOK
    BY DEF IInv
  <2>2. Control' /\ Owned' /\ TrackersOK'
    BY <2>1, NextKeepsTrackers
  <2>3. Mapped' /\ Checked' /\ ReaderOK'
    <3>1. CASE UNCHANGED vars
      BY <2>1, <3>1, SameReaderKeeps DEF vars
    <3>2. CASE Begin
      <4>1. /\ phase = "begin" /\ phase' = "iterate"
            /\ UNCHANGED <<inputVars, readerVars, opened, msgs>>
        BY <3>2 DEF Begin
      <4> QED BY <2>1, <4>1, SameReaderKeeps
    <3>3. CASE Iterate \/ OpenReader \/ ReadMessage \/ Crash \/ CloseReader
      BY <2>1, <3>3, IterateReads, OpenReads, ReadReads, CrashKeeps, CloseKeeps
    <3>4. CASE RecordStage
      BY <2>1, <3>4, SameReaderKeeps DEF RecordStage
    <3>5. CASE MessageDone
      BY <2>1, <3>5, SameReaderKeeps DEF MessageDone
    <3>6. CASE PushResult
      <4>1. /\ phase = "result" /\ phase' = "destroy"
            /\ UNCHANGED <<inputVars, readerVars, opened, msgs>>
        BY <3>6 DEF PushResult
      <4> QED BY <2>1, <4>1, SameReaderKeeps
    <3>7. CASE EndIteration
      <4>1. /\ phase = "destroy" /\ phase' \in {"iterate", "print"}
            /\ UNCHANGED <<inputVars, readerVars, opened, msgs>>
        BY <3>7 DEF EndIteration
      <4> QED BY <2>1, <4>1, SameReaderKeeps
    <3>8. CASE ShowSummary \/ Return
      <4>1. /\ phase \in {"print", "return"} /\ phase' \in {"return", "exit"}
            /\ UNCHANGED <<inputVars, readerVars, opened, msgs>>
        BY <3>8 DEF ShowSummary, Return
      <4> QED BY <2>1, <4>1, SameReaderKeeps
    <3> QED BY <3>1, <3>2, <3>3, <3>4, <3>5, <3>6, <3>7, <3>8 DEF Next
  <2> QED BY <2>2, <2>3 DEF IInv
<1> QED BY <1>1, InitEstablishes, PTL DEF Spec
-----------------------------------------------------------------------------
(* What the invariant says of a replay.                                    *)

LEMMA MaxIs ==
  ASSUME NEW B \in Nat, NEW S \in SUBSET (0 .. B), S # {}
  PROVE  /\ Max(S) \in S /\ \A x \in S : x <= Max(S)
         /\ \A m \in S : (\A x \in S : x <= m) => Max(S) = m
<1>1. S \in SUBSET Nat /\ \A x \in S : x <= B
  OBVIOUS
<1>2. \E x \in S : \A y \in S : x >= y
  BY <1>1, GreatestNat
<1>3. Max(S) \in S /\ \A y \in S : Max(S) >= y
  BY <1>2, Zenon DEF Max
<1>4. PICK g : g = Max(S)
  OBVIOUS
<1>5. g \in S /\ g \in Nat /\ \A y \in S : y \in Nat /\ y <= g
  BY <1>1, <1>3, <1>4
<1>6. ASSUME NEW m \in S, \A x \in S : x <= m PROVE g = m
  BY <1>5, <1>6
<1> QED BY <1>4, <1>5, <1>6

LEMMA MinOfTwo ==
  ASSUME NEW m \in Nat, NEW n \in Nat
  PROVE  (m <= n => Min({m, n}) = m) /\ (n <= m => Min({m, n}) = n)
<1>1. \E x \in {m, n} : \A y \in {m, n} : x =< y
  OBVIOUS
<1>2. Min({m, n}) \in {m, n} /\ \A y \in {m, n} : Min({m, n}) =< y
  BY <1>1, Zenon DEF Min
<1> QED BY <1>2

\* the frames that are whole in the file
Whole == {n \in 0 .. Len(file) : BytesOf(n) <= size}

LEMMA WholeIs ==
  ASSUME ReaderOK, data = "file"
  PROVE  /\ msg_count \in Whole /\ msg_count <= Max(Whole) /\ Max(Whole) \in 0 .. Len(file)
         /\ NoneAhead(HeaderSize) => Max(Whole) = msg_count
<1>1. /\ file \in Seq(Frames) /\ Len(file) \in Nat /\ HeaderSize \in Nat /\ msg_count \in 0 .. Len(file)
      /\ size \in Nat /\ Reading
  BY FilesAre, HeaderIs DEF ReaderOK
<1>2. \A n \in 0 .. Len(file) : BytesOf(n) = BytesIn(file, HeaderSize, n)
  BY BytesOfIs DEF ReaderOK
<1>3. msg_count \in Whole
  BY <1>1, <1>2 DEF Whole, Reading
<1>4. Whole \in SUBSET (0 .. Len(file))
  BY DEF Whole
<1>5. Max(Whole) \in Whole /\ \A x \in Whole : x <= Max(Whole)
  BY <1>1, <1>3, <1>4, MaxIs
<1>6. ASSUME NoneAhead(HeaderSize) PROVE Max(Whole) = msg_count
  <2>1. PICK n : n = Max(Whole)
    OBVIOUS
  <2>2. n \in 0 .. Len(file) /\ BytesIn(file, HeaderSize, n) <= size /\ msg_count <= n
    BY <1>2, <1>3, <1>5, <2>1 DEF Whole
  <2>3. ASSUME msg_count < n PROVE FALSE
    <3>1. msg_count < Len(file) /\ msg_count + 1 \in Nat /\ msg_count + 1 <= Len(file) /\ n \in Nat /\ n <= Len(file)
      BY <1>1, <2>2, <2>3
    <3>2. BytesIn(file, HeaderSize, msg_count + 1) <= BytesIn(file, HeaderSize, n)
      BY <1>1, <2>2, <2>3, BytesGrow
    <3>3. BytesIn(file, HeaderSize, msg_count + 1) > size
      BY <1>6, <3>1 DEF NoneAhead
    <3>4. BytesIn(file, HeaderSize, msg_count + 1) \in Nat /\ BytesIn(file, HeaderSize, n) \in Nat
      BY <1>1, <3>1, BytesStep
    <3> QED BY <1>1, <2>2, <3>2, <3>3, <3>4
  <2> QED BY <1>1, <2>1, <2>2, <2>3
<1> QED BY <1>3, <1>4, <1>5, <1>6

\* what the ITCH reader can hand out of the first w frames
WithPayload(w) == {n \in 0 .. w : \A k \in 1 .. n : file[k].length > 0}

\* what a reader can hand out of a file with w whole frames
Given(w) == IF format = "native" THEN w ELSE Max(WithPayload(w))

LEMMA PayloadsAre ==
  ASSUME NEW w \in Nat
  PROVE  /\ Max(WithPayload(w)) \in WithPayload(w) /\ \A x \in WithPayload(w) : x <= Max(WithPayload(w))
         /\ \A m \in WithPayload(w) : (\A x \in WithPayload(w) : x <= m) => Max(WithPayload(w)) = m
<1>1. WithPayload(w) \in SUBSET (0 .. w) /\ 0 \in WithPayload(w)
  BY DEF WithPayload
<1> QED BY <1>1, MaxIs

LEMMA GivenAre ==
  ASSUME ReaderOK, Control, data = "file", phase = "close"
  PROVE  msgs = IF Bench THEN Given(Max(Whole)) ELSE Min({Given(Max(Whole)), max_msgs})
<1>1. /\ Reading /\ msgs \in Nat /\ msg_count \in Nat /\ Len(file) \in Nat /\ format \in {"native", "itch"}
      /\ max_msgs \in Nat
  BY FilesAre, ReplayAssumption DEF ReaderOK, Control
<1>2. PICK w : w = Max(Whole)
  OBVIOUS
<1>3. w \in Nat /\ msg_count <= w /\ (NoneAhead(HeaderSize) => w = msg_count)
  BY <1>1, <1>2, WholeIs
<1>4. PICK g : g = Max(WithPayload(w))
  OBVIOUS
<1>5. /\ g \in WithPayload(w) /\ \A x \in WithPayload(w) : x <= g
      /\ \A m \in WithPayload(w) : (\A x \in WithPayload(w) : x <= m) => g = m
  BY <1>3, <1>4, PayloadsAre
<1>6. g \in Nat /\ \A x \in WithPayload(w) : x \in Nat /\ x <= w
  BY <1>3, <1>5 DEF WithPayload
<1>7. \A n \in 0 .. w : format = "itch" => (n \in WithPayload(w) <=> \A k \in 1 .. n : Readable(k))
  BY DEF WithPayload, Readable
<1>8. Given(w) = (IF format = "native" THEN w ELSE g) /\ Given(w) \in Nat
  BY <1>3, <1>4, <1>6 DEF Given
<1>9. (\A k \in 1 .. msgs : Readable(k)) /\ (~Bench => msgs <= max_msgs)
  BY <1>1 DEF Reading
<1>10. CASE msgs = msg_count /\ NoneAhead(HeaderSize)
  <2>1. w = msgs
    BY <1>3, <1>10
  <2>2. format = "itch" => g = msgs
    <3>1. format = "itch" => msgs \in WithPayload(w)
      BY <1>1, <1>3, <1>7, <1>9, <2>1
    <3> QED BY <1>5, <1>6, <2>1, <3>1
  <2>3. Given(w) = msgs
    BY <1>1, <1>8, <2>1, <2>2
  <2> QED BY <1>1, <1>2, <1>9, <2>3, MinOfTwo
<1>11. CASE msgs + 1 = msg_count /\ ~Readable(msg_count)
  <2>1. format = "itch" /\ msgs \in 0 .. w /\ msg_count \in 1 .. msg_count
    BY <1>1, <1>3, <1>11 DEF Readable
  <2>2. msgs \in WithPayload(w)
    BY <1>7, <1>9, <2>1
  <2>3. ASSUME NEW x \in WithPayload(w) PROVE x <= msgs
    <3>1. x \in 0 .. w /\ \A k \in 1 .. x : Readable(k)
      BY <1>7, <2>1 DEF WithPayload
    <3>2. msg_count \notin 1 .. x
      BY <1>11, <3>1
    <3> QED BY <1>1, <1>3, <1>11, <3>1, <3>2
  <2>4. Given(w) = msgs
    BY <1>5, <1>8, <2>1, <2>2, <2>3
  <2> QED BY <1>1, <1>2, <1>9, <2>4, MinOfTwo
<1>12. CASE msgs + 1 = msg_count /\ Readable(msg_count) /\ ~Bench /\ msgs = max_msgs
  <2>1. format = "itch" => msg_count \in WithPayload(w)
    <3>1. \A k \in 1 .. msg_count : Readable(k)
      BY <1>1, <1>9, <1>12
    <3> QED BY <1>1, <1>3, <1>7, <3>1
  <2>2. msg_count <= Given(w)
    BY <1>1, <1>3, <1>5, <1>8, <2>1
  <2>3. max_msgs <= Given(w)
    BY <1>1, <1>8, <1>12, <2>2
  <2> QED BY <1>1, <1>2, <1>8, <1>12, <2>3, MinOfTwo
<1> QED BY <1>1, <1>10, <1>11, <1>12 DEF Reading

LEMMA NothingGiven == Given(0) = 0
<1>1. 0 \in WithPayload(0) /\ \A x \in WithPayload(0) : x <= 0
  BY DEF WithPayload
<1>2. Max(WithPayload(0)) = 0
  BY <1>1, PayloadsAre
<1> QED BY <1>2 DEF Given

\* The states of the programs have their types.
THEOREM ReplayTypes == Spec => []TypeOK
<1>1. IInv => TypeOK
  <2> SUFFICES ASSUME IInv PROVE TypeOK
    OBVIOUS
  <2>1. Control /\ TrackersOK /\ Mapped /\ ReaderOK
    BY DEF IInv
  <2>2. pos \in 0 .. size /\ size \in {0, bytes} /\ msg_count \in 0 .. Len(file) /\ data \in {"null", "file"}
    BY <2>1 DEF ReaderOK, Mapped
  <2>3. ASSUME NEW t \in DOMAIN trackers, NEW l \in Latency!Labels
        PROVE  trackers[t].count[l] \in 0 .. kCap /\ trackers[t].total[l] >= trackers[t].count[l]
    <3>1. trackers[t] \in TrackerStates
      BY <2>1 DEF TrackersOK
    <3> QED BY <3>1 DEF TrackerStates
  <2>4. Len(results) <= iter + 1
    BY <2>1 DEF Control
  <2> QED BY <2>2, <2>3, <2>4 DEF TypeOK
<1> QED BY <1>1, IInvHolds, PTL

\* Each array of samples and each mapping has one owner through every move,
\* however often the benchmark runs, and nothing is left when main() returns.
THEOREM SamplesHaveOneOwner == Spec => []OneOwner
<1>1. IInv => OneOwner
  <2> SUFFICES ASSUME IInv PROVE OneOwner
    OBVIOUS
  <2>1. Control /\ Owned /\ Mapped
    BY DEF IInv
  <2>2. phase = "exit" => DOMAIN heap = {} /\ mappings = 0
    <3> SUFFICES ASSUME phase = "exit" PROVE DOMAIN heap = {} /\ mappings = 0
      OBVIOUS
    <3>1. DOMAIN trackers = {}
      BY <2>1 DEF Control, LiveTrackers
    <3> QED BY <2>1, <3>1 DEF Owned, Mapped
  <2> QED BY <2>1, <2>2 DEF OneOwner, Owned, Mapped, Latency!NullBlock
<1> QED BY <1>1, IInvHolds, PTL

\* Whichever way opening the file fails, only the benchmark, which does not
\* look at what open() returned, goes on to read memory that was not mapped.
THEOREM OnlyUncheckedCrashes == Spec => []CrashesOnlyUnchecked
<1>1. IInv => CrashesOnlyUnchecked
  BY DEF IInv, Checked, CrashesOnlyUnchecked
<1> QED BY <1>1, IInvHolds, PTL

\* For every file, cut off anywhere, next() hands out the frames that are
\* whole, each once and in order, up to the limit of the command line or the
\* frame without a payload, and the gap count is that of the breaks.
THEOREM WholeFramesAreDelivered == Spec => []DeliversWholeFrames
<1>1. IInv => DeliversWholeFrames
  <2> SUFFICES ASSUME IInv, phase = "close"
               PROVE  /\ msgs = IF Bench THEN Given(IF data = "null" THEN 0 ELSE Max(Whole))
                                ELSE Min({Given(IF data = "null" THEN 0 ELSE Max(Whole)), max_msgs})
                      /\ format = "native" /\ opened => gap_count = Cardinality(BreaksIn(file, msg_count))
    BY DEF DeliversWholeFrames, Given, Whole, WithPayload, BreaksIn, NumberOf
  <2>1. Control /\ Mapped /\ ReaderOK
    BY DEF IInv
  <2>2. CASE data = "file"
    <3>1. msgs = IF Bench THEN Given(Max(Whole)) ELSE Min({Given(Max(Whole)), max_msgs})
      BY <2>1, <2>2, GivenAre
    <3>2. format = "native" => gap_count = Cardinality(BreaksIn(file, msg_count))
      BY <2>1, <2>2 DEF ReaderOK, Reading, GapsCounted
    <3> QED BY <2>2, <3>1, <3>2
  <2>3. CASE data = "null"
    <3>1. msgs = 0 /\ msg_count = 0 /\ gap_count = 0
      BY <2>1, <2>3 DEF ReaderOK, Unread
    <3>2. Given(0) = 0 /\ Min({0, max_msgs}) = 0
      BY NothingGiven, MinOfTwo, ReplayAssumption
    <3>3. Cardinality(BreaksIn(file, 0)) = 0
      BY NoBreaks
    <3> QED BY <2>3, <3>1, <3>2, <3>3
  <2> QED BY <2>1, <2>2, <2>3 DEF Mapped
<1> QED BY <1>1, IInvHolds, PTL
-----------------------------------------------------------------------------
(* Sorting.  Latency!Sorted chooses an arrangement in ascending order; that *)
(* there is one is shown by inserting the samples one after the other.     *)

\* the arrangements of 1 .. n
Orders(n) == {p \in [1 .. n -> 1 .. n] : \A w \in 1 .. n : \E v \in 1 .. n : p[v] = w}

\* p takes the first n of f in ascending order
Ascends(f, n, p) == \A i, j \in 1 .. n : i < j => f[p[i]] <= f[p[j]]

LEMMA OrderIs ==
  ASSUME NEW n \in Nat, NEW p \in Orders(n)
  PROVE  /\ p \in [1 .. n -> 1 .. n] /\ \A w \in 1 .. n : \E v \in 1 .. n : p[v] = w
         /\ \A i \in 1 .. n : p[i] \in 1 .. n
         /\ \A m \in Nat : n <= m => \A i \in 1 .. n : p[i] \in 1 .. m
<1>1. p \in [1 .. n -> 1 .. n] /\ \A w \in 1 .. n : \E v \in 1 .. n : p[v] = w
  BY DEF Orders
<1>2. ASSUME NEW i \in 1 .. n PROVE p[i] \in 1 .. n
  BY <1>1, Zenon
<1>3. ASSUME NEW m \in Nat, n <= m PROVE 1 .. n \subseteq 1 .. m
  BY <1>3
<1>4. ASSUME NEW m \in Nat, n <= m, NEW i \in 1 .. n PROVE p[i] \in 1 .. m
  BY <1>2, <1>3, <1>4, Zenon
<1> QED BY <1>1, <1>2, <1>4, Zenon

\* The next element goes before the first that is greater.
LEMMA OneMoreSorted ==
  ASSUME NEW k \in Nat, NEW f \in [1 .. k + 1 -> Nat], NEW p \in Orders(k), Ascends(f, k, p)
  PROVE  \E q \in Orders(k + 1) : Ascends(f, k + 1, q)
<1>1. /\ p \in [1 .. k -> 1 .. k] /\ \A w \in 1 .. k : \E v \in 1 .. k : p[v] = w
      /\ \A i \in 1 .. k : p[i] \in 1 .. k
  BY OrderIs, Zenon
<1>10. \A i \in 1 .. k : p[i] \in 1 .. k + 1
  <2>1. k + 1 \in Nat /\ k <= k + 1
    OBVIOUS
  <2> QED BY <2>1, OrderIs, Zenon
<1> DEFINE After == {m \in 1 .. k + 1 : m = k + 1 \/ f[p[m]] > f[k + 1]}
<1>2. PICK m \in After : \A x \in After : m <= x
  <2>1. k + 1 \in After /\ After \in SUBSET Nat
    OBVIOUS
  <2> HIDE DEF After
  <2> QED BY <2>1, LeastNat
<1>3. m \in 1 .. k + 1 /\ (m # k + 1 => f[p[m]] > f[k + 1])
  BY <1>2
<1>4. ASSUME NEW i \in 1 .. k, i < m PROVE f[p[i]] <= f[k + 1]
  <2>1. i \notin After /\ i \in 1 .. k + 1 /\ i # k + 1
    BY <1>2, <1>3, <1>4
  <2>2. ~(f[p[i]] > f[k + 1])
    BY <2>1
  <2>3. p[i] \in 1 .. k + 1 /\ k + 1 \in 1 .. k + 1
    BY <1>10
  <2>4. f[p[i]] \in Nat /\ f[k + 1] \in Nat
    BY <2>3
  <2> QED BY <2>2, <2>4
<1>5. ASSUME NEW i \in 1 .. k, m <= i PROVE f[k + 1] <= f[p[i]]
  <2>1. m \in 1 .. k /\ f[p[m]] > f[k + 1]
    BY <1>3, <1>5
  <2>2. f[p[m]] <= f[p[i]]
    <3>1. CASE m = i
      <4>1. p[i] \in 1 .. k + 1
        BY <1>10
      <4>2. f[p[i]] \in Nat
        BY <4>1
      <4> QED BY <3>1, <4>2
    <3>2. CASE m # i
      BY <1>5, <2>1, <3>2 DEF Ascends
    <3> QED BY <3>1, <3>2
  <2>3. p[m] \in 1 .. k + 1 /\ p[i] \in 1 .. k + 1 /\ k + 1 \in 1 .. k + 1
    BY <1>10, <2>1
  <2>4. f[p[m]] \in Nat /\ f[p[i]] \in Nat /\ f[k + 1] \in Nat
    BY <2>3
  <2> QED BY <2>1, <2>2, <2>4
<1> HIDE DEF After
<1>6. PICK q : q = [i \in 1 .. k + 1 |-> IF i < m THEN p[i] ELSE IF i = m THEN k + 1 ELSE p[i - 1]]
  OBVIOUS
<1>7. ASSUME NEW i \in 1 .. k + 1
      PROVE  \/ i < m /\ i \in 1 .. k /\ q[i] = p[i]
             \/ i = m /\ q[i] = k + 1
             \/ m < i /\ i - 1 \in 1 .. k /\ m <= i - 1 /\ q[i] = p[i - 1]
  BY <1>3, <1>6
<1>8. q \in Orders(k + 1)
  <2>1. ASSUME NEW i \in 1 .. k + 1 PROVE q[i] \in 1 .. k + 1
    <3>1. k + 1 \in 1 .. k + 1
      OBVIOUS
    <3> QED BY <1>10, <1>7, <3>1, Zenon
  <2>2. q \in [1 .. k + 1 -> 1 .. k + 1]
    BY <1>6, <2>1
  <2>3. ASSUME NEW w \in 1 .. k + 1 PROVE \E v \in 1 .. k + 1 : q[v] = w
    <3>1. CASE w = k + 1
      BY <1>3, <1>6, <3>1
    <3>2. CASE w # k + 1
      <4>1. PICK v \in 1 .. k : p[v] = w
        BY <1>1, <3>2
      <4>2. CASE v < m
        <5>1. v \in 1 .. k + 1 /\ q[v] = p[v]
          BY <1>6, <4>2
        <5> QED BY <4>1, <5>1
      <4>3. CASE m <= v
        <5>1. v + 1 \in 1 .. k + 1 /\ ~(v + 1 < m) /\ v + 1 # m /\ v + 1 - 1 = v
          BY <1>3, <4>3
        <5>2. q[v + 1] = p[v]
          BY <1>6, <5>1
        <5> QED BY <4>1, <5>1, <5>2
      <4> QED BY <1>3, <4>2, <4>3
    <3> QED BY <3>1, <3>2
  <2> QED BY <2>2, <2>3 DEF Orders
<1>9. ASSUME NEW i \in 1 .. k + 1, NEW j \in 1 .. k + 1, i < j PROVE f[q[i]] <= f[q[j]]
  <2>1. CASE i < m /\ j < m
    <3>1. i \in 1 .. k /\ j \in 1 .. k /\ q[i] = p[i] /\ q[j] = p[j]
      BY <1>3, <1>7, <2>1
    <3> QED BY <1>9, <3>1 DEF Ascends
  <2>2. CASE i < m /\ j = m
    <3>1. i \in 1 .. k /\ q[i] = p[i] /\ q[j] = k + 1
      BY <1>3, <1>7, <2>2
    <3> QED BY <1>4, <2>2, <3>1
  <2>3. CASE i < m /\ m < j
    <3>1. i \in 1 .. k /\ j - 1 \in 1 .. k /\ i < j - 1 /\ q[i] = p[i] /\ q[j] = p[j - 1]
      BY <1>3, <1>7, <2>3
    <3> QED BY <3>1 DEF Ascends
  <2>4. CASE i = m
    <3>1. j - 1 \in 1 .. k /\ m <= j - 1 /\ q[i] = k + 1 /\ q[j] = p[j - 1]
      BY <1>3, <1>7, <1>9, <2>4
    <3> QED BY <1>5, <3>1
  <2>5. CASE m < i
    <3>1. /\ i - 1 \in 1 .. k /\ j - 1 \in 1 .. k /\ i - 1 < j - 1
          /\ q[i] = p[i - 1] /\ q[j] = p[j - 1]
      BY <1>3, <1>7, <1>9, <2>5
    <3> QED BY <3>1 DEF Ascends
  <2> QED BY <1>3, <1>9, <2>1, <2>2, <2>3, <2>4, <2>5
<1> QED BY <1>8, <1>9 DEF Ascends

\* Samples can be put in order: the least number of them that could not would
\* be one more than some that can.
LEMMA CanBeSorted ==
  ASSUME NEW n \in Nat, NEW f \in [1 .. n -> Nat]
  PROVE  \E p \in Orders(n) : Ascends(f, n, p)
<1> DEFINE C == {k \in 0 .. n : ~ \E p \in Orders(k) : Ascends(f, k, p)}
<1>1. SUFFICES ASSUME C # {} PROVE FALSE
  <2>1. n \in 0 .. n
    OBVIOUS
  <2>2. n \notin C => \E p \in Orders(n) : Ascends(f, n, p)
    BY <2>1
  <2> QED BY <2>2
<1>2. PICK k \in C : \A j \in C : k <= j
  <2>1. C \in SUBSET Nat
    OBVIOUS
  <2> HIDE DEF C
  <2> QED BY <1>1, <2>1, LeastNat
<1>3. k \in 0 .. n /\ ~ \E p \in Orders(k) : Ascends(f, k, p)
  BY <1>2
<1>4. k # 0
  <2>1. ASSUME k = 0 PROVE FALSE
    <3>1. 1 .. k = {}
      BY <2>1
    <3>2. [i \in 1 .. k |-> i] \in Orders(k) /\ Ascends(f, k, [i \in 1 .. k |-> i])
      BY <3>1 DEF Orders, Ascends
    <3> QED BY <1>3, <3>2
  <2> QED BY <2>1
<1>5. PICK j \in 0 .. n : j + 1 = k /\ j \in Nat /\ j \notin C
  <2>1. k - 1 \in 0 .. n /\ k - 1 + 1 = k /\ k - 1 \in Nat /\ ~(k <= k - 1)
    BY <1>3, <1>4
  <2> QED BY <1>2, <2>1
<1>6. PICK p \in Orders(j) : Ascends(f, j, p)
  BY <1>5
<1>7. PICK g : g = [i \in 1 .. j + 1 |-> f[i]]
  OBVIOUS
<1>8. g \in [1 .. j + 1 -> Nat] /\ \A i \in 1 .. j + 1 : g[i] = f[i]
  BY <1>3, <1>5, <1>7
<1>9. ASSUME NEW m \in {j, j + 1}, NEW q \in Orders(m) PROVE Ascends(g, m, q) <=> Ascends(f, m, q)
  <2>1. m \in Nat /\ j + 1 \in Nat /\ m <= j + 1
    BY <1>5, <1>9
  <2>2. \A i \in 1 .. m : q[i] \in 1 .. j + 1
    BY <1>9, <2>1, OrderIs, Zenon
  <2>3. \A i \in 1 .. m : g[q[i]] = f[q[i]]
    BY <1>8, <2>2
  <2> QED BY <2>3, Zenon DEF Ascends
<1>10. \E q \in Orders(j + 1) : Ascends(g, j + 1, q)
  BY <1>5, <1>6, <1>8, <1>9, OneMoreSorted
<1> QED BY <1>3, <1>5, <1>9, <1>10

LEMMA SortedIs ==
  ASSUME NEW n \in Nat, NEW f \in [1 .. n -> Nat]
  PROVE  \E p \in Orders(n) : Latency!Sorted(f) = [i \in 1 .. n |-> f[p[i]]] /\ Ascends(f, n, p)
<1>1. DOMAIN f = 1 .. n
  OBVIOUS
<1>2. Latency!Surjection(1 .. n, 1 .. n) = Orders(n)
  BY DEF Latency!Surjection, Orders
<1>3. PICK S : S = {[i \in 1 .. n |-> f[p[i]]] : p \in Orders(n)}
  OBVIOUS
<1>4. PICK t : t = CHOOSE s \in S : \A i, j \in DOMAIN s : i < j => s[i] <= s[j]
  OBVIOUS
<1>5. Latency!Sorted(f) = t
  <2>1. S = {[i \in DOMAIN f |-> f[p[i]]] : p \in Latency!Surjection(DOMAIN f, DOMAIN f)}
    BY <1>1, <1>2, <1>3
  <2> QED BY <1>4, <2>1, Zenon DEF Latency!Sorted
<1>6. ASSUME NEW p \in Orders(n), NEW s, s = [i \in 1 .. n |-> f[p[i]]]
      PROVE  (\A i, j \in DOMAIN s : i < j => s[i] <= s[j]) <=> Ascends(f, n, p)
  <2>1. DOMAIN s = 1 .. n /\ \A i \in 1 .. n : s[i] = f[p[i]]
    BY <1>6
  <2>2. (\A i, j \in DOMAIN s : i < j => s[i] <= s[j])
          <=> \A i, j \in 1 .. n : i < j => s[i] <= s[j]
    BY <2>1, Zenon
  <2>3. \A i, j \in 1 .. n : s[i] <= s[j] <=> f[p[i]] <= f[p[j]]
    BY <2>1, Zenon
  <2> QED BY <2>2, <2>3, Zenon DEF Ascends
<1>7. PICK p0 \in Orders(n) : Ascends(f, n, p0)
  BY CanBeSorted
<1>8. \E s \in S : \A i, j \in DOMAIN s : i < j => s[i] <= s[j]
  <2>1. PICK s : s = [i \in 1 .. n |-> f[p0[i]]]
    OBVIOUS
  <2>2. s \in S
    BY <1>3, <2>1
  <2> QED BY <1>6, <1>7, <2>1, <2>2
<1>9. t \in S /\ \A i, j \in DOMAIN t : i < j => t[i] <= t[j]
  BY <1>4, <1>8, Zenon
<1>10. PICK p \in Orders(n) : t = [i \in 1 .. n |-> f[p[i]]]
  BY <1>3, <1>9
<1> QED BY <1>5, <1>6, <1>9, <1>10

\* At least as many samples are in G as the first K in order.
LEMMA RankOf ==
  ASSUME NEW n \in Nat, NEW p \in Orders(n), NEW G \in SUBSET (1 .. n), NEW K \in 1 .. n,
         \A k \in 1 .. K : p[k] \in G
  PROVE  Cardinality(G) \in Nat /\ Cardinality(G) >= K
<1>1. IsFiniteSet(1 .. n) /\ IsFiniteSet(G) /\ Cardinality(G) \in Nat
  <2>1. IsFiniteSet(1 .. n)
    BY FS_Interval
  <2>2. IsFiniteSet(G)
    BY <2>1, FS_Subset
  <2> QED BY <2>1, <2>2, FS_CardinalityType
<1>2. p \in [1 .. n -> 1 .. n] /\ \A w \in 1 .. n : \E v \in 1 .. n : p[v] = w
  BY DEF Orders
<1>3. ASSUME NEW a \in 1 .. n, NEW b \in 1 .. n, p[a] = p[b] PROVE a = b
  <2>1. p \in Surjection(1 .. n, 1 .. n)
    BY <1>2 DEF Surjection
  <2>2. p \in Injection(1 .. n, 1 .. n)
    BY <1>1, <2>1, FS_Surjection
  <2> QED BY <1>3, <2>2 DEF Injection, IsInjective
<1>4. PICK q : q = [k \in 1 .. K |-> p[k]]
  OBVIOUS
<1>5. q \in Injection(1 .. K, G)
  <2>1. \A k \in 1 .. K : k \in 1 .. n /\ q[k] = p[k]
    BY <1>4
  <2>2. q \in [1 .. K -> G]
    BY <1>4, <2>1
  <2>3. ASSUME NEW a \in 1 .. K, NEW b \in 1 .. K, q[a] = q[b] PROVE a = b
    BY <1>3, <2>1, <2>3
  <2> QED BY <2>2, <2>3 DEF Injection, IsInjective
<1>6. Cardinality(1 .. K) <= Cardinality(G)
  BY <1>1, <1>5, FS_Injection
<1>7. Cardinality(1 .. K) = K
  BY FS_Interval
<1> QED BY <1>1, <1>6, <1>7

\* A longer time is not fewer nanoseconds.
LEMMA DivGrows ==
  ASSUME NEW x \in Nat, NEW y \in Nat, NEW d \in Nat \ {0}, x <= y
  PROVE  x \div d \in Nat /\ x \div d <= y \div d
OBVIOUS

LEMMA NsGrows ==
  ASSUME NEW x \in Nat, NEW y \in Nat, x <= y
  PROVE  Latency!ns(x) \in Nat /\ Latency!ns(x) <= Latency!ns(y)
<1>1. x * Second \in Nat /\ y * Second \in Nat /\ x * Second <= y * Second
  BY ReplayAssumption
<1> QED BY <1>1, DivGrows, ReplayAssumption DEF Latency!ns
-----------------------------------------------------------------------------
(* A row of the summary.                                                   *)

Kept(n) == IF n < kCap THEN n ELSE kCap

\* what SummaryIsOfLastRun says of a row, for the durations q
RowIsOf(row, q) ==
  LET n == Min({kCap, Len(q)})
      time(i) == Latency!ns(q[i])
      rank(t) == Cardinality({i \in 1 .. n : time(i) <= t})
  IN  /\ row.count = Len(q)
      /\ row.min = Min({time(i) : i \in 1 .. n})
      /\ row.max = Max({time(i) : i \in 1 .. n})
      /\ row.min <= row.p50 /\ row.p50 <= row.p90 /\ row.p90 <= row.p99
      /\ row.p99 <= row.p999 /\ row.p999 <= row.max
      /\ 2 * rank(row.p50) >= n /\ 10 * rank(row.p90) >= 9 * (n - 1)

LEMMA KeptIs ==
  ASSUME NEW n \in Nat
  PROVE  /\ Kept(n) \in 0 .. kCap /\ Kept(n) <= n /\ Kept(n) = Min({kCap, n})
         /\ n > 0 => Kept(n) > 0
<1>1. kCap \in Nat \ {0}
  BY ReplayAssumption
<1>2. Kept(n) = Min({kCap, n})
  <2>1. CASE n <= kCap
    BY <1>1, <2>1, MinOfTwo DEF Kept
  <2>2. CASE kCap <= n
    BY <1>1, <2>2, MinOfTwo DEF Kept
  <2> QED BY <1>1, <2>1, <2>2
<1> QED BY <1>1, <1>2 DEF Kept

\* the place of the percentile p, in thousandths, among n samples in order
Place(p, n) == 1 + (p * (n - 1)) \div 1000

LEMMA Places ==
  ASSUME NEW n \in Nat \ {0}
  PROVE  \E a, b, c, d \in 1 .. n :
           /\ a = Place(500, n) /\ b = Place(900, n) /\ c = Place(990, n) /\ d = Place(999, n)
           /\ a <= b /\ b <= c /\ c <= d /\ 2 * a >= n /\ 10 * b >= 9 * (n - 1)
BY SMT DEF Place

\* u is T[1], ..., T[n] in ascending order
Arranged(n, T, u) ==
  /\ T \in [1 .. n -> Nat]
  /\ \E p \in Orders(n) : u = [i \in 1 .. n |-> T[p[i]]]
  /\ \A i, j \in 1 .. n : i <= j => u[i] <= u[j]

\* The first and the last of a rearrangement in ascending order are the least
\* and the greatest.
LEMMA EndsAre ==
  ASSUME NEW n \in Nat \ {0}, NEW T, NEW u, Arranged(n, T, u)
  PROVE  Min({T[i] : i \in 1 .. n}) = u[1] /\ Max({T[i] : i \in 1 .. n}) = u[n]
<1>0. /\ T \in [1 .. n -> Nat] /\ \E p \in Orders(n) : u = [i \in 1 .. n |-> T[p[i]]]
      /\ \A i, j \in 1 .. n : i <= j => u[i] <= u[j]
  BY DEF Arranged
<1> PICK p \in Orders(n) : u = [i \in 1 .. n |-> T[p[i]]]
  BY <1>0
<1>1. PICK S : S = {T[i] : i \in 1 .. n}
  OBVIOUS
<1>2. /\ \A i \in 1 .. n : p[i] \in 1 .. n
      /\ \A w \in 1 .. n : \E v \in 1 .. n : p[v] = w
  BY OrderIs, Zenon
<1>3. 1 \in 1 .. n /\ n \in 1 .. n /\ \A i \in 1 .. n : 1 <= i /\ i <= n
  OBVIOUS
<1>4. \A i \in 1 .. n : u[i] = T[p[i]] /\ T[i] \in Nat
  BY <1>0
<1>5. u[1] \in S /\ u[n] \in S
  BY <1>1, <1>2, <1>3, <1>4, Zenon
<1>6. ASSUME NEW x \in S PROVE u[1] <= x /\ x <= u[n]
  <2>1. PICK i \in 1 .. n : x = T[i]
    BY <1>1, Zenon
  <2>2. PICK v \in 1 .. n : p[v] = i
    BY <1>2, Zenon
  <2>3. u[v] = x
    BY <1>4, <2>1, <2>2, Zenon
  <2> QED BY <1>0, <1>3, <2>2, <2>3, Zenon
<1>7. \A x \in S : x \in Nat
  BY <1>1, <1>4, Zenon
<1>8. Min(S) \in S /\ \A y \in S : Min(S) =< y
  <2>1. \E x \in S : \A y \in S : x =< y
    BY <1>5, <1>6, Zenon
  <2> QED BY <2>1, Zenon DEF Min
<1>9. Max(S) \in S /\ \A y \in S : Max(S) >= y
  <2>1. \A y \in S : u[n] >= y
    BY <1>5, <1>6, <1>7
  <2>2. \E x \in S : \A y \in S : x >= y
    BY <1>5, <2>1, Zenon
  <2> QED BY <2>2, Zenon DEF Max
<1>10. PICK lo, hi : lo = Min(S) /\ hi = Max(S)
  OBVIOUS
<1>11. /\ lo \in Nat /\ hi \in Nat /\ u[1] \in Nat /\ u[n] \in Nat
       /\ lo <= u[1] /\ u[1] <= lo /\ hi >= u[n] /\ hi <= u[n]
  BY <1>5, <1>6, <1>7, <1>8, <1>9, <1>10
<1>12. lo = u[1] /\ hi = u[n]
  BY <1>11
<1> QED BY <1>1, <1>10, <1>12

LEMMA SequenceOf ==
  ASSUME NEW n \in Nat, NEW s \in [1 .. n -> Nat]
  PROVE  s \in Seq(Nat) /\ Len(s) = n
OBVIOUS

\* The times of sorted samples are the times of the samples, rearranged.
LEMMA TimesAre ==
  ASSUME NEW n \in Nat, NEW f \in [1 .. n -> Nat]
  PROVE  /\ Len(Latency!Sorted(f)) = n
         /\ Arranged(n, [i \in 1 .. n |-> Latency!ns(f[i])],
                     [i \in 1 .. n |-> Latency!ns(Latency!Sorted(f)[i])])
<1>0. PICK s, T, u : /\ s = Latency!Sorted(f) /\ T = [i \in 1 .. n |-> Latency!ns(f[i])]
                     /\ u = [i \in 1 .. n |-> Latency!ns(s[i])]
  OBVIOUS
<1>1. PICK p \in Orders(n) : Latency!Sorted(f) = [i \in 1 .. n |-> f[p[i]]] /\ Ascends(f, n, p)
  BY SortedIs
<1>2. \A i \in 1 .. n : p[i] \in 1 .. n
  BY OrderIs, Zenon
<1>3. \A i \in 1 .. n : f[i] \in Nat
  OBVIOUS
<1>4. ASSUME NEW i \in 1 .. n PROVE s[i] = f[p[i]] /\ s[i] \in Nat
  <2>1. s[i] = f[p[i]]
    BY <1>0, <1>1
  <2> QED BY <1>2, <1>3, <2>1, Zenon
<1>5. Len(s) = n
  <2>1. s \in [1 .. n -> Nat]
    BY <1>0, <1>1, <1>4
  <2> QED BY <2>1, SequenceOf, Zenon
<1>6. ASSUME NEW x \in Nat PROVE Latency!ns(x) \in Nat
  <2>1. x <= x
    OBVIOUS
  <2> QED BY <2>1, NsGrows, Zenon
<1>7. T \in [1 .. n -> Nat]
  <2>1. \A i \in 1 .. n : Latency!ns(f[i]) \in Nat
    BY <1>3, <1>6, Zenon
  <2> QED BY <1>0, <2>1
<1>8. u = [i \in 1 .. n |-> T[p[i]]]
  <2>1. ASSUME NEW i \in 1 .. n PROVE Latency!ns(s[i]) = T[p[i]]
    <3>1. T[p[i]] = Latency!ns(f[p[i]])
      BY <1>0, <1>2
    <3> QED BY <1>4, <3>1, Zenon
  <2> QED BY <1>0, <2>1
<1>9. ASSUME NEW i \in 1 .. n, NEW j \in 1 .. n, i <= j PROVE u[i] <= u[j]
  <2>1. s[i] <= s[j]
    <3>1. CASE i = j
      <4>1. s[i] \in Nat
        BY <1>4
      <4> QED BY <3>1, <4>1
    <3>2. CASE i # j
      <4>1. i < j
        BY <1>9, <3>2
      <4>2. f[p[i]] <= f[p[j]]
        BY <1>1, <4>1, Zenon DEF Ascends
      <4> QED BY <1>4, <4>2, Zenon
    <3> QED BY <3>1, <3>2
  <2>2. Latency!ns(s[i]) <= Latency!ns(s[j])
    BY <1>4, <2>1, NsGrows, Zenon
  <2> QED BY <1>0, <2>2
<1>10. Arranged(n, T, u)
  BY <1>7, <1>8, <1>9, Zenon DEF Arranged
<1> QED BY <1>0, <1>5, <1>10, Zenon

LEMMA RanksAre ==
  ASSUME NEW n \in Nat \ {0}, NEW T, NEW u, Arranged(n, T, u), NEW K \in 1 .. n
  PROVE  /\ Cardinality({i \in 1 .. n : T[i] <= u[K]}) \in Nat
         /\ Cardinality({i \in 1 .. n : T[i] <= u[K]}) >= K
<1>0. /\ T \in [1 .. n -> Nat] /\ \E p \in Orders(n) : u = [i \in 1 .. n |-> T[p[i]]]
      /\ \A i, j \in 1 .. n : i <= j => u[i] <= u[j]
  BY DEF Arranged
<1> PICK p \in Orders(n) : u = [i \in 1 .. n |-> T[p[i]]]
  BY <1>0
<1>1. PICK G : G = {i \in 1 .. n : T[i] <= u[K]}
  OBVIOUS
<1>2. ASSUME NEW k \in 1 .. K PROVE p[k] \in G
  <2>1. k \in 1 .. n /\ k <= K
    OBVIOUS
  <2>2. p[k] \in 1 .. n
    BY <2>1, OrderIs, Zenon
  <2>3. u[k] = T[p[k]]
    BY <2>1
  <2>4. T[p[k]] <= u[K]
    BY <1>0, <2>1, <2>3, Zenon
  <2> QED BY <1>1, <2>2, <2>4, Zenon
<1>3. G \in SUBSET (1 .. n)
  BY <1>1
<1>4. Cardinality(G) \in Nat /\ Cardinality(G) >= K
  <2>1. n \in Nat
    OBVIOUS
  <2> QED BY <1>2, <1>3, <2>1, RankOf
<1> QED BY <1>1, <1>4, Zenon

\* the row print_summary writes for n samples, s in ascending order
RowFor(total, s, n) ==
  [count |-> total, min |-> Latency!ns(s[1]),
   p50 |-> Latency!ns(s[Place(500, n)]), p90 |-> Latency!ns(s[Place(900, n)]),
   p99 |-> Latency!ns(s[Place(990, n)]), p999 |-> Latency!ns(s[Place(999, n)]),
   max |-> Latency!ns(s[n])]

\* A row is that of the times T[1], ..., T[n].
RowOfTimes(row, T, n) ==
  /\ row.min = Min({T[i] : i \in 1 .. n}) /\ row.max = Max({T[i] : i \in 1 .. n})
  /\ row.min <= row.p50 /\ row.p50 <= row.p90 /\ row.p90 <= row.p99
  /\ row.p99 <= row.p999 /\ row.p999 <= row.max
  /\ 2 * Cardinality({i \in 1 .. n : T[i] <= row.p50}) >= n
  /\ 10 * Cardinality({i \in 1 .. n : T[i] <= row.p90}) >= 9 * (n - 1)

LEMMA RowOfSorted ==
  ASSUME NEW n \in Nat \ {0}, NEW s, NEW T, NEW u, Arranged(n, T, u),
         \A i \in 1 .. n : u[i] = Latency!ns(s[i]), NEW total
  PROVE  RowFor(total, s, n).count = total /\ RowOfTimes(RowFor(total, s, n), T, n)
<1>0. PICK row : row = RowFor(total, s, n)
  OBVIOUS
<1>1. PICK a, b, c, d \in 1 .. n :
        /\ a = Place(500, n) /\ b = Place(900, n) /\ c = Place(990, n) /\ d = Place(999, n)
        /\ a <= b /\ b <= c /\ c <= d /\ 2 * a >= n /\ 10 * b >= 9 * (n - 1)
  BY Places
<1>2. /\ a <= b /\ b <= c /\ c <= d /\ 1 \in 1 .. n /\ n \in 1 .. n /\ 1 <= a /\ d <= n
      /\ 2 * a >= n /\ 10 * b >= 9 * (n - 1)
  BY <1>1
<1>3. row = [count |-> total, min |-> Latency!ns(s[1]), p50 |-> Latency!ns(s[a]),
             p90 |-> Latency!ns(s[b]), p99 |-> Latency!ns(s[c]), p999 |-> Latency!ns(s[d]),
             max |-> Latency!ns(s[n])]
  BY <1>0, <1>1 DEF RowFor
<1>4. /\ row.count = total /\ row.min = u[1] /\ row.p50 = u[a] /\ row.p90 = u[b]
      /\ row.p99 = u[c] /\ row.p999 = u[d] /\ row.max = u[n]
  <2>1. /\ row.count = total /\ row.min = Latency!ns(s[1]) /\ row.p50 = Latency!ns(s[a])
        /\ row.p90 = Latency!ns(s[b]) /\ row.p99 = Latency!ns(s[c]) /\ row.p999 = Latency!ns(s[d])
        /\ row.max = Latency!ns(s[n])
    BY <1>3
  <2>2. /\ u[1] = Latency!ns(s[1]) /\ u[a] = Latency!ns(s[a]) /\ u[b] = Latency!ns(s[b])
        /\ u[c] = Latency!ns(s[c]) /\ u[d] = Latency!ns(s[d]) /\ u[n] = Latency!ns(s[n])
    BY <1>2
  <2> QED BY <2>1, <2>2
<1>5. \A i, j \in 1 .. n : i <= j => u[i] <= u[j]
  BY DEF Arranged
<1>6. u[1] <= u[a] /\ u[a] <= u[b] /\ u[b] <= u[c] /\ u[c] <= u[d] /\ u[d] <= u[n]
  BY <1>2, <1>5
<1>7. Min({T[i] : i \in 1 .. n}) = u[1] /\ Max({T[i] : i \in 1 .. n}) = u[n]
  BY EndsAre, Zenon
<1>8. ASSUME NEW K \in 1 .. n, NEW k, k = Cardinality({i \in 1 .. n : T[i] <= u[K]})
      PROVE  k \in Nat /\ k >= K
  <2>1. /\ Cardinality({i \in 1 .. n : T[i] <= u[K]}) \in Nat
        /\ Cardinality({i \in 1 .. n : T[i] <= u[K]}) >= K
    BY RanksAre, Zenon
  <2> QED BY <1>8, <2>1, Zenon
<1>9. PICK j, k : /\ j = Cardinality({i \in 1 .. n : T[i] <= u[a]})
                  /\ k = Cardinality({i \in 1 .. n : T[i] <= u[b]})
  OBVIOUS
<1>10. j \in Nat /\ j >= a /\ k \in Nat /\ k >= b
  BY <1>8, <1>9, Zenon
<1>11. 2 * j >= n /\ 10 * k >= 9 * (n - 1)
  BY <1>2, <1>10
<1>12. /\ row.min = Min({T[i] : i \in 1 .. n}) /\ row.max = Max({T[i] : i \in 1 .. n})
       /\ j = Cardinality({i \in 1 .. n : T[i] <= row.p50})
       /\ k = Cardinality({i \in 1 .. n : T[i] <= row.p90})
  BY <1>4, <1>7, <1>9, Zenon
<1>13. /\ 2 * Cardinality({i \in 1 .. n : T[i] <= row.p50}) >= n
       /\ 10 * Cardinality({i \in 1 .. n : T[i] <= row.p90}) >= 9 * (n - 1)
  BY <1>11, <1>12
<1>14. /\ row.min <= row.p50 /\ row.p50 <= row.p90 /\ row.p90 <= row.p99
       /\ row.p99 <= row.p999 /\ row.p999 <= row.max
  BY <1>4, <1>6
<1>15. RowOfTimes(row, T, n)
  BY <1>12, <1>13, <1>14, Zenon DEF RowOfTimes
<1> QED BY <1>0, <1>4, <1>15, Zenon

\* What print_summary computes from the first durations is a row of them all.
LEMMA RowOfDurations ==
  ASSUME NEW q \in Seq(Nat), q # << >>, NEW n, n = Kept(Len(q)),
         NEW s, s = Latency!Sorted([i \in 1 .. n |-> q[i]])
  PROVE  Len(s) = n /\ RowIsOf(RowFor(Len(q), s, n), q)
<1>1. Len(q) \in Nat \ {0} /\ \A i \in 1 .. Len(q) : q[i] \in Nat
  OBVIOUS
<1>2. n \in Nat \ {0} /\ n <= Len(q) /\ n = Min({kCap, Len(q)})
  <2>1. PICK m : m = Len(q)
    OBVIOUS
  <2>2. m \in Nat /\ m > 0
    BY <1>1, <2>1
  <2>3. Kept(m) \in 0 .. kCap /\ Kept(m) <= m /\ Kept(m) = Min({kCap, m}) /\ Kept(m) > 0
    BY <2>2, KeptIs, Zenon
  <2>4. n = Kept(m)
    BY <2>1
  <2>5. n \in Nat \ {0} /\ n <= m
    BY <2>3, <2>4
  <2> QED BY <2>1, <2>3, <2>4, <2>5, Zenon
<1>3. PICK f : f = [i \in 1 .. n |-> q[i]]
  OBVIOUS
<1>4. f \in [1 .. n -> Nat] /\ \A i \in 1 .. n : f[i] = q[i]
  <2>1. \A i \in 1 .. n : q[i] \in Nat
    BY <1>1, <1>2
  <2> QED BY <1>3, <2>1
<1>5. PICK T, u : T = [i \in 1 .. n |-> Latency!ns(f[i])] /\ u = [i \in 1 .. n |-> Latency!ns(s[i])]
  OBVIOUS
<1>6. s = Latency!Sorted(f)
  BY <1>3
<1>7. Len(s) = n /\ Arranged(n, T, u)
  <2>1. n \in Nat
    BY <1>2
  <2> QED BY <1>4, <1>5, <1>6, <2>1, TimesAre, Zenon
<1>8. (\A i \in 1 .. n : u[i] = Latency!ns(s[i])) /\ \A i \in 1 .. n : T[i] = Latency!ns(q[i])
  BY <1>4, <1>5
<1>9. PICK row : row = RowFor(Len(q), s, n)
  OBVIOUS
<1>10. n \in Nat \ {0}
  BY <1>2
<1>11. row.count = Len(q) /\ RowOfTimes(row, T, n)
  <2>1. Arranged(n, T, u) /\ \A i \in 1 .. n : u[i] = Latency!ns(s[i])
    BY <1>7, <1>8, Zenon
  <2>2. RowFor(Len(q), s, n).count = Len(q) /\ RowOfTimes(RowFor(Len(q), s, n), T, n)
    BY <1>10, <2>1, RowOfSorted
  <2> QED BY <1>9, <2>2, Zenon
<1>12. /\ {T[i] : i \in 1 .. n} = {Latency!ns(q[i]) : i \in 1 .. n}
       /\ \A t : {i \in 1 .. n : T[i] <= t} = {i \in 1 .. n : Latency!ns(q[i]) <= t}
  BY <1>8
<1>13. RowIsOf(row, q)
  BY <1>2, <1>11, <1>12, Zenon DEF RowOfTimes, RowIsOf
<1> QED BY <1>7, <1>9, <1>13, Zenon
-----------------------------------------------------------------------------
(* The durations measured, and the arrays that hold the first of them.     *)

\* A tracker r with the arrays block holds the durations q: it has counted
\* them all, and kept the first.
KeepsAll(block, r, q) ==
  /\ block \in [Latency!Labels -> [1 .. kCap -> Nat]]
  /\ \A l \in Latency!Labels :
       /\ r.total[l] = Len(q[l])
       /\ r.count[l] = Kept(Len(q[l]))
       /\ \A i \in 1 .. Kept(Len(q[l])) : block[l][i] = q[l][i]

Durations == [Latency!Labels -> Seq(Nat)]

LEMMA NothingKept ==
  ASSUME NEW b
  PROVE  /\ KeepsAll([l \in Latency!Labels |-> [i \in 1 .. kCap |-> 0]],
                     [samples |-> b, count |-> Latency!Zeros, total |-> Latency!Zeros],
                     [l \in Latency!Labels |-> << >>])
         /\ [l \in Latency!Labels |-> << >>] \in Durations
<1>1. PICK q : q = [l \in Latency!Labels |-> << >>]
  OBVIOUS
<1>2. \A l \in Latency!Labels : q[l] = << >> /\ q[l] \in Seq(Nat) /\ Len(q[l]) = 0
  BY <1>1
<1>3. PICK r : r = [samples |-> b, count |-> Latency!Zeros, total |-> Latency!Zeros]
  OBVIOUS
<1>4. \A l \in Latency!Labels : r.count[l] = 0 /\ r.total[l] = 0
  BY <1>3, ZerosAre
<1>5. PICK block : block = [l \in Latency!Labels |-> [i \in 1 .. kCap |-> 0]]
  OBVIOUS
<1>6. block \in [Latency!Labels -> [1 .. kCap -> Nat]]
  BY <1>5
<1>7. Kept(0) = 0 /\ 1 .. 0 = {}
  BY ReplayAssumption DEF Kept
<1>8. KeepsAll(block, r, q)
  BY <1>2, <1>4, <1>6, <1>7 DEF KeepsAll
<1>9. q \in Durations
  BY <1>1, <1>2 DEF Durations
<1> QED BY <1>1, <1>3, <1>5, <1>8, <1>9, Zenon

LEMMA OneMoreKept ==
  ASSUME NEW block, NEW r \in TrackerStates, NEW q \in Durations, KeepsAll(block, r, q),
         NEW label \in Latency!Labels, NEW c \in Nat
  PROVE  /\ [q EXCEPT ![label] = Append(@, c)] \in Durations
         /\ KeepsAll(IF r.count[label] < kCap
                     THEN [block EXCEPT ![label][r.count[label] + 1] = c] ELSE block,
                     Latency!Counted(r, label), [q EXCEPT ![label] = Append(@, c)])
<1>0. PICK block2, q2 :
        /\ block2 = (IF r.count[label] < kCap
                     THEN [block EXCEPT ![label][r.count[label] + 1] = c] ELSE block)
        /\ q2 = [q EXCEPT ![label] = Append(@, c)]
  OBVIOUS
<1>1. /\ block \in [Latency!Labels -> [1 .. kCap -> Nat]] /\ q \in [Latency!Labels -> Seq(Nat)]
      /\ \A l \in Latency!Labels :
           /\ r.total[l] = Len(q[l]) /\ r.count[l] = Kept(Len(q[l]))
           /\ \A i \in 1 .. Kept(Len(q[l])) : block[l][i] = q[l][i]
  BY DEF KeepsAll, Durations
<1>2. kCap \in Nat \ {0}
  BY ReplayAssumption
<1>3. PICK m, n : m = Len(q[label]) /\ n = r.count[label]
  OBVIOUS
<1>4. q[label] \in Seq(Nat) /\ m \in Nat /\ n = Kept(m)
  BY <1>1, <1>3
<1>5. n \in 0 .. kCap /\ (n < kCap => n = m) /\ (n = kCap => m >= kCap)
  BY <1>2, <1>4 DEF Kept
<1>6. /\ q2[label] = Append(q[label], c) /\ q2[label] \in Seq(Nat) /\ Len(q2[label]) = m + 1
      /\ \A i \in 1 .. m : q2[label][i] = q[label][i]
      /\ q2[label][m + 1] = c
      /\ \A l \in Latency!Labels : l # label => q2[l] = q[l]
  BY <1>0, <1>1, <1>3, <1>4
<1>7. q2 \in Durations
  BY <1>0, <1>1, <1>6 DEF Durations
<1>8. block2 \in [Latency!Labels -> [1 .. kCap -> Nat]]
  <2>1. CASE n < kCap
    BY <1>0, <1>1, <1>3, <1>5, <2>1
  <2>2. CASE ~(n < kCap)
    BY <1>0, <1>1, <1>3, <2>2
  <2> QED BY <2>1, <2>2
<1>9. \A l \in Latency!Labels : l # label => block2[l] = block[l]
  BY <1>0, <1>1
<1>10. PICK r2 : r2 = Latency!Counted(r, label)
  OBVIOUS
<1>11. \A l \in Latency!Labels :
         /\ r2.count[l] = IF l = label THEN Latency!CountAfter(r.count[l]) ELSE r.count[l]
         /\ r2.total[l] = IF l = label THEN r.total[l] + 1 ELSE r.total[l]
  BY <1>10, CountedIs
<1>12. Kept(m + 1) = Latency!CountAfter(n)
  BY <1>2, <1>4, <1>5 DEF Kept, Latency!CountAfter
<1>13. ASSUME NEW l \in Latency!Labels
       PROVE  /\ r2.total[l] = Len(q2[l]) /\ r2.count[l] = Kept(Len(q2[l]))
              /\ \A i \in 1 .. Kept(Len(q2[l])) : block2[l][i] = q2[l][i]
  <2>1. CASE l # label
    <3>1. q2[l] = q[l] /\ block2[l] = block[l] /\ r2.count[l] = r.count[l] /\ r2.total[l] = r.total[l]
      BY <1>6, <1>9, <1>11, <2>1, Zenon
    <3> QED BY <1>1, <3>1, Zenon
  <2>2. CASE l = label
    <3>1. r2.total[l] = m + 1 /\ r2.count[l] = Kept(m + 1)
      BY <1>1, <1>3, <1>11, <1>12, <2>2
    <3>2. ASSUME NEW i \in 1 .. Kept(m + 1) PROVE block2[label][i] = q2[label][i]
      <4>1. CASE n < kCap
        <5>1. /\ n = m /\ Kept(m) = m /\ Kept(m + 1) = m + 1 /\ m \in Nat
              /\ m + 1 \in 1 .. kCap
          <6>1. n = m /\ Kept(m) = m /\ n < kCap /\ m \in Nat
            BY <1>4, <1>5, <4>1
          <6>2. Latency!CountAfter(n) = n + 1
            BY <6>1, Zenon DEF Latency!CountAfter
          <6> QED BY <1>2, <1>12, <6>1, <6>2
        <5>2. PICK array : array = block[label] /\ array \in [1 .. kCap -> Nat]
          BY <1>1
        <5>3. block2[label] = [array EXCEPT ![m + 1] = c]
          BY <1>0, <1>1, <1>3, <4>1, <5>1, <5>2
        <5>4. CASE i = m + 1
          <6>1. block2[label][m + 1] = c
            BY <5>1, <5>2, <5>3
          <6> QED BY <1>6, <5>4, <6>1
        <5>5. CASE i # m + 1
          <6>1. i \in 1 .. m + 1
            BY <3>2, <5>1
          <6>2. i \in 1 .. m /\ i \in 1 .. Kept(m) /\ i \in 1 .. kCap
            BY <1>2, <5>1, <5>5, <6>1
          <6>3. block[label][i] = q[label][i] /\ q2[label][i] = q[label][i]
            BY <1>1, <1>3, <1>6, <6>2
          <6> QED BY <5>2, <5>3, <5>5, <6>2, <6>3
        <5> QED BY <5>4, <5>5
      <4>2. CASE n = kCap
        <5>1. block2 = block /\ Kept(m + 1) = n /\ i \in 1 .. n /\ i \in 1 .. m
          BY <1>0, <1>2, <1>3, <1>4, <1>5, <1>12, <4>2 DEF Latency!CountAfter
        <5>2. block[label][i] = q[label][i] /\ q2[label][i] = q[label][i]
          BY <1>1, <1>3, <1>4, <1>6, <5>1
        <5> QED BY <5>1, <5>2
      <4>3. n < kCap \/ n = kCap
        BY <1>2, <1>5
      <4> QED BY <4>1, <4>2, <4>3
    <3> QED BY <1>6, <2>2, <3>1, <3>2
  <2> QED BY <2>1, <2>2
<1>14. KeepsAll(block2, r2, q2)
  BY <1>8, <1>13 DEF KeepsAll
<1> QED BY <1>0, <1>7, <1>10, <1>14, Zenon

\* the tracker t, of the durations taken
Holds(t) ==
  /\ t \in DOMAIN trackers /\ trackers[t].samples \in DOMAIN heap
  /\ KeepsAll(heap[trackers[t].samples], trackers[t], taken)

LEMMA SameHolds ==
  ASSUME NEW t, Holds(t), UNCHANGED <<heap, trackers, taken>>
  PROVE  Holds(t)'
BY DEF Holds

LEMMA ConstructHolds ==
  ASSUME Owned, NEW t, Latency!Construct(t), taken' = [l \in Latency!Labels |-> << >>]
  PROVE  Holds(t)' /\ taken' \in Durations
<1>1. PICK b, x, r : /\ b = CHOOSE c \in 1 .. Cardinality(DOMAIN heap) + 1 : c \notin DOMAIN heap
                     /\ x = [l \in Latency!Labels |-> [i \in 1 .. kCap |-> 0]]
                     /\ r = [samples |-> b, count |-> Latency!Zeros, total |-> Latency!Zeros]
  OBVIOUS
<1>2. /\ heap' = [z \in DOMAIN heap \cup {b} |-> IF z = b THEN x ELSE heap[z]]
      /\ trackers' = [z \in DOMAIN trackers \cup {t} |-> IF z = t THEN r ELSE trackers[z]]
  <2>1. Latency!Cardinality(DOMAIN heap) = Cardinality(DOMAIN heap)
    BY DEF Latency!Cardinality, Cardinality
  <2> QED BY <1>1, <2>1 DEF Latency!Construct, Latency!With
<1>3. KeepsAll(x, r, taken') /\ taken' \in Durations
  BY <1>1, NothingKept
<1>4. t \in DOMAIN trackers' /\ trackers'[t] = r /\ r.samples = b /\ b \in DOMAIN heap' /\ heap'[b] = x
  BY <1>1, <1>2
<1>5. Holds(t)'
  BY <1>3, <1>4, Zenon DEF Holds
<1> QED BY <1>3, <1>5

LEMMA RecordHolds ==
  ASSUME TrackersOK, NEW t, Holds(t), taken \in Durations,
         NEW label \in Latency!Labels, NEW c \in Nat, Latency!Record(t, label, c),
         taken' = IF c = 0 THEN taken ELSE [taken EXCEPT ![label] = Append(@, c)]
  PROVE  Holds(t)' /\ taken' \in Durations
<1>1. CASE c = 0
  <2>1. UNCHANGED <<heap, trackers, taken>>
    BY <1>1 DEF Latency!Record
  <2> QED BY <2>1, SameHolds
<1>2. CASE c # 0
  <2>1. PICK h, w, q, q2 : h = heap /\ w = trackers /\ q = taken /\ q2 = taken'
    OBVIOUS
  <2>2. PICK b, r : r = w[t] /\ b = r.samples
    OBVIOUS
  <2>3. t \in DOMAIN w /\ b \in DOMAIN h /\ KeepsAll(h[b], r, q) /\ r \in TrackerStates /\ q \in Durations
    BY <2>1, <2>2 DEF Holds, TrackersOK
  <2>4. PICK n : n = r.count[label]
    OBVIOUS
  <2>5. PICK block2 : block2 = IF n < kCap THEN [h[b] EXCEPT ![label][n + 1] = c] ELSE h[b]
    OBVIOUS
  <2>6. trackers' = [w EXCEPT ![t] = Latency!Counted(r, label)]
    BY <1>2, <2>1, <2>2 DEF Latency!Record
  <2>7. heap' = IF n < kCap THEN [h EXCEPT ![b][label][n + 1] = c] ELSE h
    BY <1>2, <2>1, <2>2, <2>4 DEF Latency!Record
  <2>8. b \in DOMAIN heap' /\ heap'[b] = block2
    BY <2>3, <2>5, <2>7
  <2>9. q2 = [q EXCEPT ![label] = Append(@, c)]
    BY <1>2, <2>1
  <2>10. q2 \in Durations /\ KeepsAll(block2, Latency!Counted(r, label), q2)
    <3>1. block2 = (IF r.count[label] < kCap
                    THEN [h[b] EXCEPT ![label][r.count[label] + 1] = c] ELSE h[b])
      BY <2>4, <2>5
    <3>2. q2 = [q EXCEPT ![label] = Append(q[label], c)]
      BY <2>9
    <3> QED BY <2>3, <3>1, <3>2, OneMoreKept, Zenon
  <2>11. /\ t \in DOMAIN trackers' /\ trackers'[t] = Latency!Counted(r, label)
         /\ trackers'[t].samples = b
    BY <2>2, <2>3, <2>6, CountedIs
  <2>12. Holds(t)'
    BY <2>1, <2>8, <2>10, <2>11, Zenon DEF Holds
  <2> QED BY <2>1, <2>10, <2>12
<1> QED BY <1>1, <1>2

LEMMA MoveHolds ==
  ASSUME Owned, NEW dst \in DOMAIN trackers, NEW src, dst # src, Holds(src),
         Latency!MoveAssign(dst, src), UNCHANGED taken
  PROVE  Holds(dst)'
<1>1. PICK b : b = trackers[src].samples
  OBVIOUS
<1>2. src \in DOMAIN trackers /\ b \in DOMAIN heap /\ KeepsAll(heap[b], trackers[src], taken)
  BY <1>1 DEF Holds
<1>3. b # 0 /\ b # trackers[dst].samples
  BY <1>1, <1>2 DEF Owned
<1>4. b \in DOMAIN heap' /\ heap'[b] = heap[b]
  BY <1>2, <1>3 DEF Latency!MoveAssign, Latency!Freed, Latency!Restrict
<1>5. dst \in DOMAIN trackers' /\ trackers'[dst] = trackers[src]
  BY DEF Latency!MoveAssign
<1> QED BY <1>1, <1>2, <1>4, <1>5 DEF Holds

LEMMA DestroyHolds ==
  ASSUME Owned, NEW t \in DOMAIN trackers, NEW u, t # u, Holds(u), Latency!Destroy(t), UNCHANGED taken
  PROVE  Holds(u)'
<1>1. PICK b : b = trackers[u].samples
  OBVIOUS
<1>2. u \in DOMAIN trackers /\ b \in DOMAIN heap /\ KeepsAll(heap[b], trackers[u], taken)
  BY <1>1 DEF Holds
<1>3. b # trackers[t].samples
  BY <1>1, <1>2 DEF Owned
<1>4. b \in DOMAIN heap' /\ heap'[b] = heap[b]
  BY <1>2, <1>3 DEF Latency!Destroy, Latency!Freed, Latency!Restrict
<1>5. u \in DOMAIN trackers' /\ trackers'[u] = trackers[u]
  BY <1>2 DEF Latency!Destroy, Latency!Restrict
<1> QED BY <1>1, <1>2, <1>4, <1>5 DEF Holds

\* The summary is that of the durations taken.
SummaryOf ==
  /\ DOMAIN summary = {l \in Latency!Labels : taken[l] # << >>}
  /\ \A l \in DOMAIN summary : RowIsOf(summary[l], taken[l])

LEMMA PrintedRow ==
  ASSUME NEW t, Holds(t), taken \in Durations, NEW l \in Latency!Labels, taken[l] # << >>
  PROVE  RowIsOf(Latency!Row(t, l), taken[l])
<1>1. PICK q, n, block : q = taken[l] /\ n = Kept(Len(q)) /\ block = heap[trackers[t].samples]
  OBVIOUS
<1>2. /\ trackers[t].total[l] = Len(q) /\ trackers[t].count[l] = n
      /\ \A i \in 1 .. n : block[l][i] = q[i]
  BY <1>1 DEF Holds, KeepsAll
<1>3. q \in Seq(Nat) /\ q # << >>
  BY <1>1 DEF Durations
<1>4. PICK s : s = Latency!Sorted([i \in 1 .. n |-> q[i]])
  OBVIOUS
<1>5. Latency!SortedSamples(t, l) = s
  <2>1. [i \in 1 .. n |-> block[l][i]] = [i \in 1 .. n |-> q[i]]
    BY <1>2
  <2> QED BY <1>1, <1>2, <1>4, <2>1, Zenon DEF Latency!SortedSamples
<1>6. Len(s) = n /\ RowIsOf(RowFor(Len(q), s, n), q)
  BY <1>1, <1>3, <1>4, RowOfDurations
<1>7. Latency!Row(t, l) = RowFor(Len(q), s, n)
  BY <1>2, <1>5, <1>6 DEF Latency!Row, RowFor, Place
<1> QED BY <1>1, <1>6, <1>7

LEMMA PrintHolds ==
  ASSUME NEW t, Holds(t), taken \in Durations, Latency!PrintSummary(t), UNCHANGED taken
  PROVE  SummaryOf'
<1>1. PICK S : S = {l \in Latency!Labels : trackers[t].count[l] # 0 \/ trackers[t].total[l] # 0}
  OBVIOUS
<1>2. summary' = [l \in S |-> Latency!Row(t, l)]
  BY <1>1 DEF Latency!PrintSummary
<1>3. ASSUME NEW l \in Latency!Labels
      PROVE  (trackers[t].count[l] # 0 \/ trackers[t].total[l] # 0) <=> taken[l] # << >>
  <2>1. PICK q : q = taken[l]
    OBVIOUS
  <2>2. q \in Seq(Nat)
    BY <2>1 DEF Durations
  <2>3. trackers[t].total[l] = Len(q) /\ trackers[t].count[l] = Kept(Len(q))
    BY <2>1 DEF Holds, KeepsAll
  <2>4. Len(q) \in Nat /\ (Len(q) = 0 <=> q = << >>)
    BY <2>2
  <2>5. Len(q) = 0 => Kept(Len(q)) = 0
    BY ReplayAssumption DEF Kept
  <2> QED BY <2>1, <2>3, <2>4, <2>5
<1>4. S = {l \in Latency!Labels : taken[l] # << >>}
  BY <1>1, <1>3
<1>5. ASSUME NEW l \in S PROVE RowIsOf(summary'[l], taken[l])
  <2>1. l \in Latency!Labels /\ taken[l] # << >>
    BY <1>4
  <2>2. RowIsOf(Latency!Row(t, l), taken[l])
    BY <2>1, PrintedRow
  <2> QED BY <1>2, <2>2
<1>6. DOMAIN summary' = S
  BY <1>2
<1> QED BY <1>4, <1>5, <1>6 DEF SummaryOf
-----------------------------------------------------------------------------
(* The summary is that of the last run.                                    *)

\* Who holds the durations taken: the tracker of the iteration, then the one
\* it was moved to in the last, and then the summary.
Filled ==
  /\ taken \in Durations
  /\ phase \in {"open", "loop", "stages", "close", "result"} => Holds("lat")
  /\ phase \in {"open", "loop", "stages", "close", "result", "destroy"} => iter < Iterations
  /\ phase = "destroy" /\ iter = Iterations - 1 => Holds("best_lat")
  /\ phase = "print" => Holds(Printed)
  /\ phase \in {"return", "exit"} /\ (Bench \/ opened) => SummaryOf

\* What keeps the durations, and those who hold them.
LEMMA SameRunFilled ==
  ASSUME Filled, Control, UNCHANGED <<heap, trackers, taken, program, iter>>,
         phase \in {"open", "loop", "stages", "close"},
         \/ phase' \in {"open", "loop", "stages", "close", "crashed"}
         \/ Bench /\ phase' = "result"
         \/ ~Bench /\ phase' = "print"
         \/ ~Bench /\ ~opened' /\ phase' = "return"
  PROVE  Filled'
<1>1. taken' \in Durations /\ iter' < Iterations /\ Holds("lat")'
  <2>1. taken \in Durations /\ iter < Iterations /\ Holds("lat")
    BY DEF Filled
  <2> QED BY <2>1, SameHolds
<1>2. Bench' = Bench /\ (~Bench => Printed' = "lat")
  BY DEF Bench, Printed
<1>3. phase' = "print" => Holds(Printed)'
  <2>1. ASSUME phase' = "print" PROVE Printed' = "lat"
    BY <1>2, <2>1
  <2> QED BY <1>1, <2>1 DEF Holds
<1> QED BY <1>1, <1>2, <1>3 DEF Filled

LEMMA PathsFilled ==
  ASSUME Filled, Control, OpenReader \/ ReadMessage \/ MessageDone \/ Crash \/ CloseReader
  PROVE  Filled'
<1>1. UNCHANGED <<heap, trackers, taken, program, iter>>
  BY DEF OpenReader, ReadMessage, MessageDone, Crash, CloseReader, inputVars, trackerVars
<1>2. CASE OpenReader
  BY <1>1, <1>2, SameRunFilled DEF OpenReader, AfterOpen
<1>3. CASE ReadMessage
  <2>1. phase = "loop" /\ phase' \in {"close", "stages"}
    BY <1>3 DEF ReadMessage
  <2> QED BY <1>1, <2>1, SameRunFilled
<1>4. CASE MessageDone \/ Crash
  BY <1>1, <1>4, SameRunFilled DEF MessageDone, Crash
<1>5. CASE CloseReader
  <2>1. /\ phase = "close" /\ UNCHANGED opened
        /\ phase' = IF Bench THEN "result" ELSE IF opened THEN "print" ELSE "return"
    BY <1>5 DEF CloseReader
  <2>2. CASE Bench
    BY <1>1, <2>1, <2>2, SameRunFilled
  <2>3. CASE ~Bench /\ opened
    BY <1>1, <2>1, <2>3, SameRunFilled
  <2>4. CASE ~Bench /\ ~opened
    BY <1>1, <2>1, <2>4, SameRunFilled
  <2> QED BY <2>2, <2>3, <2>4
<1> QED BY <1>2, <1>3, <1>4, <1>5

LEMMA RecordFilled ==
  ASSUME Filled, Control, TrackersOK, RecordStage
  PROVE  Filled'
<1>1. phase = "stages" /\ UNCHANGED <<phase, program, iter>>
  BY DEF RecordStage, inputVars
<1>2. PICK label : label = Head(pending)
  OBVIOUS
<1>3. label \in Stages /\ label \in Latency!Labels
  <2>1. pending # << >> /\ pending \in Seq(Stages)
    BY DEF RecordStage, Control
  <2> QED BY <1>2, <2>1 DEF Stages
<1>4. PICK c \in Cycles[label] :
        /\ Latency!Record("lat", label, c)
        /\ taken' = IF c = 0 THEN taken ELSE [taken EXCEPT ![label] = Append(@, c)]
  BY <1>2 DEF RecordStage
<1>5. c \in Nat
  BY <1>3, <1>4, ReplayAssumption DEF Stages
<1>6. taken \in Durations /\ Holds("lat") /\ iter < Iterations
  BY <1>1 DEF Filled
<1>7. Holds("lat")' /\ taken' \in Durations
  BY <1>3, <1>4, <1>5, <1>6, RecordHolds
<1> QED BY <1>1, <1>6, <1>7 DEF Filled

LEMMA IterationFilled ==
  ASSUME Filled, Control, Owned, Iterate \/ PushResult \/ EndIteration
  PROVE  Filled'
<1>1. CASE Iterate
  <2>1. /\ phase' = "open" /\ iter < Iterations /\ UNCHANGED iter /\ Latency!Construct("lat")
        /\ taken' = [l \in Latency!Labels |-> << >>]
    BY <1>1 DEF Iterate
  <2>2. Holds("lat")' /\ taken' \in Durations
    BY <2>1, ConstructHolds
  <2> QED BY <2>1, <2>2 DEF Filled
<1>2. CASE PushResult
  <2>1. phase = "result" /\ phase' = "destroy" /\ UNCHANGED <<iter, taken>>
    BY <1>2 DEF PushResult
  <2>2. taken \in Durations /\ Holds("lat") /\ iter < Iterations
    BY <2>1 DEF Filled
  <2>3. "best_lat" \in DOMAIN trackers
    BY <2>1 DEF Control, LiveTrackers
  <2>4. ASSUME iter = Iterations - 1 PROVE Holds("best_lat")'
    <3>1. Latency!MoveAssign("best_lat", "lat")
      BY <1>2, <2>4 DEF PushResult
    <3> QED BY <2>1, <2>2, <2>3, <3>1, MoveHolds
  <2> QED BY <2>1, <2>2, <2>4 DEF Filled
<1>3. CASE EndIteration
  <2>1. /\ phase = "destroy" /\ iter' = iter + 1 /\ Latency!Destroy("lat") /\ UNCHANGED <<taken, program>>
        /\ phase' = IF iter' < Iterations THEN "iterate" ELSE "print"
    BY <1>3 DEF EndIteration, inputVars
  <2>2. taken \in Durations /\ iter < Iterations /\ (iter = Iterations - 1 => Holds("best_lat"))
    BY <2>1 DEF Filled
  <2>3. "lat" \in DOMAIN trackers /\ Bench /\ iter \in Nat
    BY <2>1 DEF Control, LiveTrackers
  <2>4. ASSUME phase' = "print" PROVE Holds(Printed)'
    <3>1. iter = Iterations - 1
      BY <2>1, <2>2, <2>3, <2>4, ReplayAssumption
    <3>2. Holds("best_lat")'
      BY <2>1, <2>2, <2>3, <3>1, DestroyHolds
    <3>3. Printed' = "best_lat"
      BY <2>1, <2>3 DEF Printed, Bench
    <3> QED BY <3>2, <3>3 DEF Holds
  <2>5. phase' \in {"iterate", "print"}
    BY <2>1
  <2> QED BY <2>1, <2>2, <2>4, <2>5 DEF Filled
<1> QED BY <1>1, <1>2, <1>3

LEMMA ExitFilled ==
  ASSUME Filled, Control, ShowSummary \/ Return
  PROVE  Filled'
<1>1. CASE ShowSummary
  <2>1. /\ phase = "print" /\ phase' = "return" /\ UNCHANGED taken
        /\ Latency!PrintSummary(Printed)
    BY <1>1 DEF ShowSummary
  <2>2. taken \in Durations /\ Holds(Printed)
    BY <2>1 DEF Filled
  <2>3. SummaryOf'
    <3>1. PICK t : t = Printed
      OBVIOUS
    <3> QED BY <2>1, <2>2, <3>1, PrintHolds
  <2> QED BY <2>1, <2>2, <2>3 DEF Filled
<1>2. CASE Return
  <2>1. /\ phase = "return" /\ phase' = "exit" /\ UNCHANGED <<taken, opened, program, summary>>
    BY <1>2 DEF Return, inputVars, Latency!Destroy
  <2>2. Bench' = Bench /\ (SummaryOf => SummaryOf')
    BY <2>1 DEF Bench, SummaryOf
  <2> QED BY <2>1, <2>2 DEF Filled
<1> QED BY <1>1, <1>2

LEMMA NextFilled ==
  ASSUME IInv, Filled, [Next]_vars
  PROVE  Filled'
<1>1. Control /\ Owned /\ TrackersOK
  BY DEF IInv
<1>2. CASE UNCHANGED vars
  <2>1. UNCHANGED <<heap, trackers, summary, taken, phase, iter, opened, program>>
    BY <1>2 DEF vars, inputVars, trackerVars
  <2>2. /\ Holds("lat") => Holds("lat")'
        /\ Holds("best_lat") => Holds("best_lat")'
        /\ Holds(Printed) => Holds(Printed)'
        /\ SummaryOf => SummaryOf'
        /\ Bench' = Bench
    BY <2>1 DEF Holds, SummaryOf, Bench, Printed
  <2> QED BY <2>1, <2>2 DEF Filled
<1>3. CASE Begin
  <2>1. phase' = "iterate" /\ UNCHANGED taken
    BY <1>3 DEF Begin
  <2> QED BY <2>1 DEF Filled
<1> QED BY <1>1, <1>2, <1>3, PathsFilled, RecordFilled, IterationFilled, ExitFilled DEF Next

\* Whatever stages the messages passed and however long each took, the summary
\* has a row for every stage that took time in the last run, counting all its
\* durations, with the extremes and the percentiles of those kept; neither a
\* full array nor the move of the last iteration's tracker loses any.
THEOREM SummaryOfLastRun == Spec => []SummaryIsOfLastRun
<1>1. Init => Filled
  BY NothingKept DEF Init, Filled
<1>2. IInv /\ Filled /\ [Next]_vars => Filled'
  BY NextFilled
<1>3. Filled => SummaryIsOfLastRun
  <2> SUFFICES ASSUME Filled, phase \in {"return", "exit"}, Bench \/ opened PROVE SummaryOf
    BY Zenon DEF SummaryIsOfLastRun, SummaryOf, RowIsOf
  <2> QED BY DEF Filled
<1> QED BY <1>1, <1>2, <1>3, IInvHolds, PTL DEF Spec
=============================================================================
