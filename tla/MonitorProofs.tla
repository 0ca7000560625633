--------------------------- MODULE MonitorProofs ---------------------------
(***************************************************************************)
(* Theorems about the threads of a server benchmark, for every number of   *)
(* workers, every number of operations, every kind of benchmark, with and  *)
(* without failures: what the bits of workerConnectionStatus mean, what    *)
(* the logger concludes from them, and what the counters are worth.        *)
(*                                                                         *)
(* IInv is inductive.  Its parts: the types (Typed); how far the main      *)
(* thread's loop is (Pushed) and who may have been born by then (Born);    *)
(* that nobody ever loads or stores a bit no worker owns (Unowned); the    *)
(* meaning of the bits; what the logger has established half-way through   *)
(* a scan (Scanned); what the copy push_back is making is worth (Copied);  *)
(* that the counters stay within their bounds (Bounded); and what the sum  *)
(* of a row is worth half-way (Summed).                                    *)
(*                                                                         *)
(* The sum is a fold over the set of workers.  What it does is proved by   *)
(* induction over that set, with the library's well-founded induction for  *)
(* sets (WFMin) in place of the principle for predicates.                  *)
(***************************************************************************)
EXTENDS Monitor, FiniteSetTheorems, TLAPS

Typed ==
    /\ style \in {"threads", "inline", "late", "saturation"}
    /\ word \in Words
    /\ size \in 0..Threads
    /\ mainPc \in MainPcs
    /\ mainReg \in Words
    /\ wpc \in [1..LatencyWorker -> WorkerPcs]
    /\ reg \in [1..Threads -> Words]
    /\ lphase \in {"off", "await", "measure", "row", "done"}
    /\ lidx \in Nat \ {0}
    /\ lagg \in BOOLEAN
    /\ lost \in BOOLEAN
    /\ counter \in [1..Threads -> Nat]
    /\ moved \in [1..Threads -> Nat]
    /\ begun \in [1..Threads -> Nat]
    /\ exposed \in [1..Threads -> Nat]

\* Every worker has its status and its counter.
AllPushed == size \in Workers /\ size + 1 \notin Workers

Pushed ==
    /\ size # 0 => size \in Workers
    /\ mainPc \in {"load", "store"} => size + 1 \in Workers
    /\ mainPc \in {"count", "move"} => size \in Workers
    /\ mainPc \in {"startLogger", "joinWorkers", "joinLogger", "done"} => AllPushed
    /\ mainPc \in {"load", "store", "count", "move", "startLogger"} => lphase = "off"
    /\ lphase # "off" => AllPushed

Born ==
    /\ \A w \in 1..Threads : wpc[w] # "unborn" =>
           /\ w \in Workers
           /\ w <= size
           /\ mainPc \in {"count", "move"} => w # size
    /\ wpc[LatencyWorker] \in {"unborn", "connect", "running", "ended", "returned"}

Unowned ==
    \A v \in (1..Threads) \ Workers :
        /\ ~ word[v]
        /\ ~ mainReg[v]
        /\ \A w \in 1..Threads : ~ reg[w][v]

Scanned ==
    /\ lphase = "off" => lidx = 1
    /\ ~ lost =>
           /\ lphase = "await" /\ lagg =>
                  \A w \in Workers : w < lidx => HasConnected(w)
           /\ lphase = "measure" /\ ~ lagg => \E w \in Workers : wpc[w] = "ended"

Copied ==
    mainPc = "move" =>
        \A w \in 1..Threads :
            /\ moved[w] <= begun[w]
            /\ begun[w] <= moved[w] + exposed[w]

Control == Typed /\ Pushed /\ Born
Bits == Unowned /\ StatusTrue
Scan == Scanned /\ MeasuresConnected /\ StopsForReason
Counts == OpsTrue /\ Copied

Bounded ==
    /\ missed \in BOOLEAN
    /\ lidx <= size + 1
    /\ epoch \in Nat /\ epoch <= size
    /\ mainPc \in {"count", "move"} => epoch < size
    /\ addr \in [1..Threads -> Nat]
    /\ \A w \in 1..Threads :
          /\ addr[w] <= epoch
          /\ begun[w] <= MaxOps
          /\ wpc[w] = "op" => begun[w] < MaxOps
          /\ wpc[w] = "unborn" => begun[w] = 0
          /\ exposed[w] <= begun[w]
          /\ moved[w] <= MaxOps

\* What the counters read so far may be worth at most, and by how much those
\* read and those not read yet may fall short of what is counted by now.
Credit == [w \in 1..Threads |-> IF w < lidx THEN begun[w] ELSE 0]
Slack == [w \in 1..Threads |-> IF w < lidx THEN exposed[w] ELSE begun[w]]

Summed ==
    /\ lsum \in Nat
    /\ rowFrom \in Nat
    /\ lphase # "row" => lsum = 0 /\ rowFrom = 0
    /\ lphase = "row" =>
           /\ lsum <= Total(Credit)
           /\ rowFrom <= lsum + Total(Slack)
           /\ rowFrom <= Total(begun)

IInv == Control /\ Bits /\ Scan /\ Counts /\ Bounded /\ Summed

-----------------------------------------------------------------------------
\* The workers with a status are among the threads asked for, and the first
\* is always one of them.
LEMMA WorkersAre ==
    /\ Threads \in Nat \ {0}
    /\ Workers = 1..Threads \/ Workers = {1}
    /\ Workers \subseteq 1..Threads
    /\ 1 \in Workers
    /\ LatencyWorker \notin 1..Threads
    /\ LatencyWorker \in 1..LatencyWorker
    /\ 1..Threads \subseteq 1..LatencyWorker
    /\ AllWorkers \subseteq 1..LatencyWorker
    /\ AllWorkers \ Workers \subseteq {LatencyWorker}
    /\ Workers \subseteq AllWorkers
  BY MonitorAssumption DEF MonitorAssumption, Workers, AllWorkers, LatencyWorker

\* The library's induction theorems, for a set in place of an operator.
LEMMA CountingUp ==
  ASSUME NEW S, 0 \in S, \A n \in Nat : n \in S => n + 1 \in S
  PROVE  Nat \subseteq S
<1> SUFFICES ASSUME Nat \ S # {} PROVE FALSE
  OBVIOUS
<1>1. PICK n \in Nat \ S : \A k \in Nat \ S : <<k, n>> \notin OpToRel(<, Nat)
  <2>1. Nat \ S \subseteq Nat
    OBVIOUS
  <2> QED
    BY <2>1, NatLessThanWellFounded, WFMin
<1>2. n \in Nat /\ n \notin S /\ n # 0
  OBVIOUS
<1>3. n - 1 \in Nat /\ (n - 1) + 1 = n
  BY <1>2
<1>4. n - 1 \in Nat \ S
  BY <1>2, <1>3
<1>5. <<n - 1, n>> \in OpToRel(<, Nat)
  BY <1>2, <1>3 DEF OpToRel
<1> QED
  BY <1>1, <1>4, <1>5

LEMMA SubsetsUp ==
  ASSUME NEW S, IsFiniteSet(S), NEW T, {} \in T,
         \A s \in SUBSET S : s # {} /\ (\A x \in s : s \ {x} \in T) => s \in T
  PROVE  SUBSET S \subseteq T
<1> DEFINE N == {n \in Nat : \A s \in SUBSET S : Cardinality(s) = n => s \in T}
<1>0. \A s \in SUBSET S : IsFiniteSet(s) /\ Cardinality(s) \in Nat
  BY FS_Subset, FS_CardinalityType
<1>1. 0 \in N
  BY <1>0, FS_EmptySet
<1>2. ASSUME NEW n \in Nat, n \in N
      PROVE  n + 1 \in N
  <2>1. ASSUME NEW s \in SUBSET S, Cardinality(s) = n + 1
        PROVE  s \in T
    <3>1. s # {}
      BY <1>0, <2>1, FS_EmptySet
    <3>2. ASSUME NEW x \in s
          PROVE  s \ {x} \in T
      <4>1. IsFiniteSet(s) /\ s \ {x} \in SUBSET S
        BY <1>0
      <4>2. Cardinality(s \ {x}) = Cardinality(s) - 1
        BY <4>1, FS_RemoveElement
      <4> QED
        BY <1>2, <2>1, <4>1, <4>2
    <3> QED
      BY <3>1, <3>2
  <2> QED
    BY <2>1
<1> HIDE DEF N
<1>3. Nat \subseteq N
  BY <1>1, <1>2, CountingUp
<1> QED
  BY <1>0, <1>3 DEF N


\* What MapThenSumSet takes from a set next.
Pick(s) == CHOOSE x \in s : TRUE

LEMMA PickIn ==
  ASSUME NEW s, s # {}
  PROVE  Pick(s) \in s
  BY DEF Pick

\* The function it computes: the sum of f over each subset of S.
SumOver(f, S) ==
  LET iter[s \in SUBSET S] == IF s = {} THEN 0 ELSE f[Pick(s)] + iter[s \ {Pick(s)}]
  IN  iter

LEMMA TotalIs ==
  ASSUME NEW f
  PROVE  Total(f) = SumOver(f, 1..Threads)[1..Threads]
  BY DEF Total, MapThenSumSet, MapThenFoldSet, SumOver, Pick

IsSum(g, f, S) ==
  g = [s \in SUBSET S |-> IF s = {} THEN 0 ELSE f[Pick(s)] + g[s \ {Pick(s)}]]

LEMMA SumExists ==
  ASSUME NEW S, IsFiniteSet(S), NEW f
  PROVE  \E g : IsSum(g, f, S)
<1> DEFINE D(n) == {s \in SUBSET S : Cardinality(s) <= n}
           Level(g, s) == IF s = {} THEN 0 ELSE f[Pick(s)] + g[s \ {Pick(s)}]
           N == {n \in Nat : \E g : g = [s \in D(n) |-> Level(g, s)]}
<1>0. \A s \in SUBSET S : IsFiniteSet(s) /\ Cardinality(s) \in Nat
  BY FS_Subset, FS_CardinalityType
<1>1. 0 \in N
  <2>1. \A s \in D(0) : s = {}
    BY <1>0, FS_EmptySet
  <2> DEFINE g == [s \in D(0) |-> 0]
  <2>2. g = [s \in D(0) |-> Level(g, s)]
    BY <2>1
  <2> QED
    BY <2>2
<1>2. ASSUME NEW n \in Nat, n \in N
      PROVE  n + 1 \in N
  <2>1. PICK g : g = [s \in D(n) |-> Level(g, s)]
    BY <1>2
  <2> DEFINE h == [s \in D(n + 1) |-> Level(g, s)]
  <2>2. ASSUME NEW s \in D(n)
        PROVE  s \in D(n + 1) /\ g[s] = h[s]
    <3>1. s \in D(n + 1)
      BY <1>0
    <3>2. g[s] = Level(g, s)
      BY <2>1
    <3> QED
      BY <3>1, <3>2
  <2>3. ASSUME NEW s \in D(n + 1), s # {}
        PROVE  s \ {Pick(s)} \in D(n)
    <3>1. Pick(s) \in s /\ IsFiniteSet(s) /\ Cardinality(s) \in Nat /\ Cardinality(s) <= n + 1
      BY <1>0, <2>3, PickIn
    <3>2. Cardinality(s \ {Pick(s)}) = Cardinality(s) - 1
      BY <3>1, FS_RemoveElement
    <3> QED
      BY <3>1, <3>2
  <2>4. \A s \in D(n + 1) : Level(g, s) = Level(h, s)
    BY <2>2, <2>3
  <2> HIDE DEF D
  <2>5. h = [s \in D(n + 1) |-> Level(h, s)]
    BY <2>4
  <2> HIDE DEF h, Level
  <2> QED
    BY <2>5
<1>3. Cardinality(S) \in N
  <2> HIDE DEF N
  <2>1. Nat \subseteq N
    BY <1>1, <1>2, CountingUp
  <2> QED
    BY <2>1, FS_CardinalityType
<1>4. D(Cardinality(S)) = SUBSET S
  BY FS_Subset
<1> QED
  BY <1>3, <1>4 DEF IsSum

LEMMA SumOverIs ==
  ASSUME NEW S, IsFiniteSet(S), NEW f, NEW s \in SUBSET S
  PROVE  SumOver(f, S)[s] =
           IF s = {} THEN 0 ELSE f[Pick(s)] + SumOver(f, S)[s \ {Pick(s)}]
<1>1. SumOver(f, S) = CHOOSE g : IsSum(g, f, S)
  BY DEF SumOver, IsSum
<1>2. IsSum(SumOver(f, S), f, S)
  BY <1>1, SumExists
<1> QED
  BY <1>2 DEF IsSum

\* Sums of natural numbers: a natural number, at most what each is at most
\* times their number; more when one of them is; and at most the sum of
\* numbers that are not less.
LEMMA SumBound ==
  ASSUME NEW S, IsFiniteSet(S), NEW B \in Nat, NEW f, \A x \in S : f[x] \in 0..B
  PROVE  SumOver(f, S)[S] \in 0..(Cardinality(S) * B)
<1> DEFINE T == {s \in SUBSET S : SumOver(f, S)[s] \in 0..(Cardinality(s) * B)}
<1>0. \A s \in SUBSET S : IsFiniteSet(s) /\ Cardinality(s) \in Nat
  BY FS_Subset, FS_CardinalityType
<1>1. {} \in T
  <2>1. SumOver(f, S)[{}] = 0 /\ Cardinality({}) = 0
    BY SumOverIs, FS_EmptySet
  <2> QED
    BY <2>1
<1>2. ASSUME NEW s \in SUBSET S, s # {}, s \ {Pick(s)} \in T
      PROVE  s \in T
  <2>1. Pick(s) \in s /\ Cardinality(s \ {Pick(s)}) = Cardinality(s) - 1
    BY <1>0, <1>2, PickIn, FS_RemoveElement
  <2>2. SumOver(f, S)[s] = f[Pick(s)] + SumOver(f, S)[s \ {Pick(s)}]
    BY <1>2, SumOverIs
  <2> DEFINE c == Cardinality(s)
             r == SumOver(f, S)[s \ {Pick(s)}]
             v == f[Pick(s)]
  <2>3. c \in Nat /\ r \in 0..((c - 1) * B) /\ v \in 0..B
    BY <1>0, <1>2, <2>1
  <2> HIDE DEF c, r, v
  <2>4. v + r \in 0..(c * B)
    <3>1. (c - 1) * B + B = c * B
      BY <2>3
    <3>2. (c - 1) * B \in Int /\ c * B \in Int
      BY <2>3
    <3> QED
      BY <2>3, <3>1, <3>2
  <2> QED
    BY <2>2, <2>4 DEF c, r, v
<1> HIDE DEF T
<1>3. ASSUME NEW s \in SUBSET S, s # {}, \A x \in s : s \ {x} \in T
      PROVE  s \in T
  BY <1>2, <1>3, PickIn
<1>4. SUBSET S \subseteq T
  BY <1>1, <1>3, SubsetsUp
<1> QED
  BY <1>4 DEF T

LEMMA SumMore ==
  ASSUME NEW S, IsFiniteSet(S), NEW f, NEW g,
         \A x \in S : f[x] \in Nat /\ g[x] \in Nat /\ f[x] <= g[x]
  PROVE  /\ SumOver(f, S)[S] \in Nat /\ SumOver(g, S)[S] \in Nat
         /\ SumOver(f, S)[S] <= SumOver(g, S)[S]
<1> DEFINE T == {s \in SUBSET S : /\ SumOver(f, S)[s] \in Nat
                                  /\ SumOver(g, S)[s] \in Nat
                                  /\ SumOver(f, S)[s] <= SumOver(g, S)[s]}
<1>1. {} \in T
  <2>1. SumOver(f, S)[{}] = 0 /\ SumOver(g, S)[{}] = 0
    BY SumOverIs
  <2> QED
    BY <2>1
<1>2. ASSUME NEW s \in SUBSET S, s # {}, s \ {Pick(s)} \in T
      PROVE  s \in T
  <2>1. Pick(s) \in S
    BY <1>2, PickIn
  <2>2. /\ SumOver(f, S)[s] = f[Pick(s)] + SumOver(f, S)[s \ {Pick(s)}]
        /\ SumOver(g, S)[s] = g[Pick(s)] + SumOver(g, S)[s \ {Pick(s)}]
    BY <1>2, SumOverIs
  <2> QED
    BY <1>2, <2>1, <2>2
<1> HIDE DEF T
<1>3. ASSUME NEW s \in SUBSET S, s # {}, \A x \in s : s \ {x} \in T
      PROVE  s \in T
  BY <1>2, <1>3, PickIn
<1>4. SUBSET S \subseteq T
  BY <1>1, <1>3, SubsetsUp
<1> QED
  BY <1>4 DEF T

LEMMA SumPoint ==
  ASSUME NEW S, IsFiniteSet(S), NEW f, NEW g, NEW w \in S,
         \A x \in S : f[x] \in Nat /\ g[x] \in Nat /\ (x # w => f[x] = g[x])
  PROVE  SumOver(g, S)[S] = SumOver(f, S)[S] + (g[w] - f[w])
<1> DEFINE d == g[w] - f[w]
           T == {s \in SUBSET S :
                    /\ SumOver(f, S)[s] \in Nat
                    /\ SumOver(g, S)[s] =
                          SumOver(f, S)[s] + IF w \in s THEN d ELSE 0}
<1>0. d \in Int
  OBVIOUS
<1> HIDE DEF d
<1>1. {} \in T
  <2>1. SumOver(f, S)[{}] = 0 /\ SumOver(g, S)[{}] = 0
    BY SumOverIs
  <2> QED
    BY <2>1
<1>2. ASSUME NEW s \in SUBSET S, s # {}, s \ {Pick(s)} \in T
      PROVE  s \in T
  <2>1. Pick(s) \in S /\ Pick(s) \in s
    BY <1>2, PickIn
  <2>2. /\ SumOver(f, S)[s] = f[Pick(s)] + SumOver(f, S)[s \ {Pick(s)}]
        /\ SumOver(g, S)[s] = g[Pick(s)] + SumOver(g, S)[s \ {Pick(s)}]
    BY <1>2, SumOverIs
  <2>3. CASE Pick(s) = w
    <3>1. w \in s /\ w \notin s \ {Pick(s)} /\ g[Pick(s)] = f[Pick(s)] + d
      BY <2>1, <2>3 DEF d
    <3> QED
      BY <1>0, <1>2, <2>1, <2>2, <3>1
  <2>4. CASE Pick(s) # w
    <3>1. (w \in s <=> w \in s \ {Pick(s)}) /\ g[Pick(s)] = f[Pick(s)]
      BY <2>1, <2>4
    <3> QED
      BY <1>0, <1>2, <2>1, <2>2, <3>1
  <2> QED
    BY <2>3, <2>4
<1> HIDE DEF T
<1>3. ASSUME NEW s \in SUBSET S, s # {}, \A x \in s : s \ {x} \in T
      PROVE  s \in T
  BY <1>2, <1>3, PickIn
<1>4. SUBSET S \subseteq T
  BY <1>1, <1>3, SubsetsUp
<1> QED
  BY <1>4 DEF T, d

\* The same of the aggregates over all workers.
LEMMA TotalBound ==
  ASSUME NEW B \in Nat, NEW f, \A w \in 1..Threads : f[w] \in 0..B
  PROVE  Total(f) \in 0..(Threads * B)
<1>1. IsFiniteSet(1..Threads) /\ Cardinality(1..Threads) = Threads
  BY MonitorAssumption, FS_Interval DEF MonitorAssumption
<1> QED
  BY <1>1, SumBound, TotalIs

LEMMA TotalMore ==
  ASSUME NEW f, NEW g,
         \A w \in 1..Threads : f[w] \in Nat /\ g[w] \in Nat /\ f[w] <= g[w]
  PROVE  Total(f) \in Nat /\ Total(g) \in Nat /\ Total(f) <= Total(g)
<1>1. IsFiniteSet(1..Threads)
  BY MonitorAssumption, FS_Interval DEF MonitorAssumption
<1> QED
  BY <1>1, SumMore, TotalIs

LEMMA TotalPoint ==
  ASSUME NEW f, NEW g, NEW v \in 1..Threads,
         \A w \in 1..Threads : f[w] \in Nat /\ g[w] \in Nat /\ (w # v => f[w] = g[w])
  PROVE  Total(g) = Total(f) + (g[v] - f[v])
<1> DEFINE S == 1..Threads
<1>1. IsFiniteSet(S)
  BY MonitorAssumption, FS_Interval DEF MonitorAssumption
<1>2. v \in S /\ \A w \in S : f[w] \in Nat /\ g[w] \in Nat /\ (w # v => f[w] = g[w])
  OBVIOUS
<1>3. Total(g) = SumOver(g, S)[S] /\ Total(f) = SumOver(f, S)[S]
  BY TotalIs
<1> HIDE DEF S
<1>4. SumOver(g, S)[S] = SumOver(f, S)[S] + (g[v] - f[v])
  BY <1>1, <1>2, SumPoint
<1> QED
  BY <1>3, <1>4
-----------------------------------------------------------------------------
\* The initial states satisfy the inductive invariant.
LEMMA InitIInv == Init => IInv
<1> SUFFICES ASSUME Init PROVE IInv
  OBVIOUS
<1>1. Control
  <2>1. Typed
    <3>1. AllFalse \in Words /\ [w \in 1..Threads |-> AllFalse] \in [1..Threads -> Words]
      BY DEF AllFalse, Words
    <3>2. Zeros \in [1..Threads -> Nat]
      BY DEF Zeros
    <3>3. 0 \in 0..Threads
      BY WorkersAre
    <3>4. /\ word \in Words /\ mainReg \in Words
          /\ reg \in [1..Threads -> Words]
      BY <3>1 DEF Init
    <3>5. /\ counter \in [1..Threads -> Nat] /\ moved \in [1..Threads -> Nat]
          /\ begun \in [1..Threads -> Nat] /\ exposed \in [1..Threads -> Nat]
      BY <3>2 DEF Init
    <3>6. /\ mainPc \in MainPcs
          /\ wpc \in [1..LatencyWorker -> WorkerPcs]
      BY DEF Init, MainPcs, WorkerPcs
    <3>7. lagg \in BOOLEAN /\ lost \in BOOLEAN
      BY DEF Init
    <3>8. lidx \in Nat \ {0} /\ size \in 0..Threads
      BY <3>3 DEF Init
    <3>9. /\ style \in {"threads", "inline", "late", "saturation"}
          /\ lphase \in {"off", "await", "measure", "row", "done"}
      BY DEF Init
    <3> QED
      BY <3>4, <3>5, <3>6, <3>7, <3>8, <3>9 DEF Typed
  <2>2. Pushed
    <3>1. 0 + 1 \in Workers
      BY WorkersAre
    <3> QED
      BY <3>1 DEF Init, Pushed
  <2>3. Born
    BY WorkersAre DEF Init, Born
  <2> QED
    BY <2>1, <2>2, <2>3 DEF Control
<1>2. Bits
  BY WorkersAre DEF Init, Bits, Unowned, StatusTrue, HasConnected, AllFalse
<1>3. Scan
  BY DEF Init, Scan, Scanned, MeasuresConnected, StopsForReason
<1>4. Counts
  BY DEF Init, Counts, OpsTrue, Copied, Zeros
<1>5. Bounded
  <2>1. lidx = 1 /\ size = 0 /\ epoch = 0 /\ missed = FALSE /\ mainPc = "load"
    BY DEF Init
  <2>2. addr = Zeros /\ begun = Zeros /\ exposed = Zeros /\ moved = Zeros
    BY DEF Init
  <2>3. \A w \in 1..Threads : wpc[w] = "unborn"
    BY WorkersAre DEF Init
  <2>4. Zeros \in [1..Threads -> Nat] /\ \A w \in 1..Threads : Zeros[w] = 0
    BY DEF Zeros
  <2>5. MaxOps \in Nat /\ 0 <= MaxOps
    BY MonitorAssumption DEF MonitorAssumption
  <2>6. missed \in BOOLEAN /\ lidx <= size + 1 /\ epoch \in Nat /\ epoch <= size
    <3>1. missed \in BOOLEAN
      BY <2>1
    <3>2. lidx <= size + 1 /\ epoch \in Nat /\ epoch <= size
      BY <2>1
    <3> QED
      BY <3>1, <3>2
  <2>7. mainPc \notin {"count", "move"}
    BY <2>1
  <2>8. addr \in [1..Threads -> Nat]
    BY <2>2, <2>4
  <2>9. ASSUME NEW w \in 1..Threads
        PROVE  /\ addr[w] <= epoch /\ begun[w] <= MaxOps /\ begun[w] = 0
               /\ exposed[w] <= begun[w] /\ moved[w] <= MaxOps
               /\ wpc[w] # "op"
    BY <2>1, <2>2, <2>3, <2>4, <2>5
  <2> QED
    BY <2>6, <2>7, <2>8, <2>9 DEF Bounded
<1>6. Summed
  BY DEF Init, Summed
<1> QED
  BY <1>1, <1>2, <1>3, <1>4, <1>5, <1>6 DEF IInv
-----------------------------------------------------------------------------
\* What a step can be; only workers with a status assign to it and count.
LEMMA NextIs ==
  Control /\ [Next]_vars =>
    \/ Main \/ Logger \/ CounterFileMissing \/ UNCHANGED vars
    \/ \E w \in AllWorkers : Connect(w) \/ TimeUp(w) \/ EarlyReturn(w)
    \/ \E w \in Workers : \/ LoadStatus(w) \/ StoreTrue(w) \/ StoreFalse(w)
                          \/ Op(w) \/ Increment(w) \/ Exit(w)
<1> SUFFICES ASSUME Control, \E w \in AllWorkers : Worker(w)
             PROVE  \/ \E w \in AllWorkers : Connect(w) \/ TimeUp(w) \/ EarlyReturn(w)
                    \/ \E w \in Workers : \/ LoadStatus(w) \/ StoreTrue(w) \/ StoreFalse(w)
                                          \/ Op(w) \/ Increment(w) \/ Exit(w)
  BY DEF Next, Terminated
<1>1. PICK w \in AllWorkers : Worker(w)
  OBVIOUS
<1>2. CASE w \in Workers
  BY <1>1, <1>2 DEF Worker
<1>3. CASE w \notin Workers
  <2>1. w = LatencyWorker
    BY <1>3, WorkersAre
  <2>2. wpc[w] \in {"unborn", "connect", "running", "ended", "returned"}
    BY <2>1 DEF Control, Born
  <2> QED
    BY <1>1, <1>3, <2>2 DEF Worker, LoadStatus, StoreTrue, StoreFalse, Exit
<1> QED
  BY <1>2, <1>3

(***************************************************************************)
(* The types, the order of the main thread's loop, and who is born.        *)
(***************************************************************************)
LEMMA SpawnBirths ==
  ASSUME Control, mainPc \in {"count", "move"}, Spawn, UNCHANGED <<style, size, lphase>>
  PROVE  /\ wpc' \in [1..LatencyWorker -> WorkerPcs]
         /\ mainPc' \in MainPcs
         /\ Pushed'
         /\ Born'
         /\ \A w \in 1..Threads : wpc'[w] = IF w = size THEN "connect" ELSE wpc[w]
<1>1. size \in Workers /\ size \in 1..Threads /\ lphase = "off"
  BY WorkersAre DEF Control, Pushed
<1>2. \A w \in 1..Threads : wpc'[w] = IF w = size THEN "connect" ELSE wpc[w]
  BY WorkersAre, <1>1 DEF Spawn
<1>3. wpc' \in [1..LatencyWorker -> WorkerPcs]
  BY DEF Spawn, Control, Typed, WorkerPcs
<1>4. wpc'[LatencyWorker] \in {"unborn", "connect", "running", "ended", "returned"}
  BY WorkersAre, <1>1 DEF Spawn, Control, Born, LatencyWorker
<1>5. /\ size + 1 \in Workers => mainPc' = "load"
      /\ size + 1 \notin Workers => mainPc' \in {"startLogger", "joinWorkers"}
  BY DEF Spawn
<1>6. Workers' = Workers
  BY DEF Workers
<1>7. Pushed'
  BY <1>1, <1>5, <1>6 DEF Pushed, AllPushed
<1>8. Born'
  BY <1>1, <1>2, <1>4, <1>5, <1>6 DEF Born, Control, Typed, LatencyWorker
<1> QED
  BY <1>2, <1>3, <1>5, <1>7, <1>8 DEF MainPcs
\* A step of a worker that leaves the loop of the main thread alone.
LEMMA WorkerMoves ==
  ASSUME Control, NEW w \in AllWorkers, wpc[w] # "unborn",
         NEW p \in WorkerPcs, p # "unborn",
         w = LatencyWorker => p \in {"running", "ended", "returned"},
         wpc' = [wpc EXCEPT ![w] = p],
         mainPc' \in {mainPc, "exited"},
         UNCHANGED <<style, size, lphase>>
  PROVE  wpc' \in [1..LatencyWorker -> WorkerPcs] /\ mainPc' \in MainPcs /\ Pushed' /\ Born'
<1>1. Workers' = Workers
  BY DEF Workers
<1>2. wpc' \in [1..LatencyWorker -> WorkerPcs] /\ mainPc' \in MainPcs
  BY DEF Control, Typed, MainPcs
<1>3. Pushed'
  BY <1>1 DEF Control, Pushed, AllPushed
<1>4. \A v \in 1..LatencyWorker : wpc'[v] = IF v = w THEN p ELSE wpc[v]
  BY WorkersAre DEF Control, Typed
<1>5. Born'
  BY <1>1, <1>4, WorkersAre DEF Control, Born, LatencyWorker
<1> QED
  BY <1>2, <1>3, <1>5

LEMMA ControlStep == Control /\ [Next]_vars => Control'
<1> SUFFICES ASSUME Control, [Next]_vars
             PROVE  Control'
  OBVIOUS
<1> USE DEF Control
<1>0. style' = style /\ Workers' = Workers
  BY NextIs
  DEF vars, Workers, Main, Logger, PushLoad, PushStore, PushCount, MoveCounters,
      StartLogger, JoinWorkers, JoinLogger, ReadBit, EndScan, ReadCounter,
      EndRow, CounterFileMissing, Enter, Connect, TimeUp, EarlyReturn,
      LoadStatus, StoreTrue, StoreFalse, Op, Increment, Exit, Becomes
<1>1. CASE Main
  <2>1. CASE PushLoad
    BY <2>1, <1>0 DEF PushLoad, Typed, Pushed, Born, AllPushed, MainPcs,
       status, logger, storage, ops, row
  <2>2. CASE PushStore
    <3>1. size + 1 \in Workers /\ size + 1 \in 1..Threads
      BY <2>2, WorkersAre DEF PushStore, Pushed
    <3>2. Typed'
      BY <2>2, <3>1, <1>0 DEF PushStore, StoreBit, Typed, MainPcs, Words,
         logger, storage, ops, row
    <3>3. Pushed'
      BY <2>2, <3>1, <1>0 DEF PushStore, Pushed, AllPushed, logger
    <3>4. Born'
      BY <2>2, <3>1, <1>0 DEF PushStore, Born, Typed, LatencyWorker
    <3> QED
      BY <3>2, <3>3, <3>4
  <2>3. CASE PushCount
    <3>1. CASE Full(size - 1)
      BY <2>3, <3>1, <1>0 DEF PushCount, Typed, Pushed, Born, AllPushed, MainPcs,
         status, logger, ops, row
    <3>2. CASE ~ Full(size - 1)
      <4>1. wpc' \in [1..LatencyWorker -> WorkerPcs] /\ mainPc' \in MainPcs /\ Pushed' /\ Born'
        BY <2>3, <3>2, SpawnBirths DEF PushCount, status, logger
      <4> QED
        BY <2>3, <3>2, <4>1 DEF PushCount, Typed, status, logger, ops, row
    <3> QED
      BY <3>1, <3>2
  <2>4. CASE MoveCounters
    <3>1. wpc' \in [1..LatencyWorker -> WorkerPcs] /\ mainPc' \in MainPcs /\ Pushed' /\ Born'
      BY <2>4, SpawnBirths DEF MoveCounters, status, logger
    <3> QED
      BY <2>4, <3>1 DEF MoveCounters, Typed, status, logger, ops, row
  <2>5. CASE StartLogger
    BY <2>5, <1>0 DEF StartLogger, Typed, Pushed, Born, AllPushed, MainPcs,
       status, storage, ops, row
  <2>6. CASE JoinWorkers \/ JoinLogger
    BY <2>6, <1>0 DEF JoinWorkers, JoinLogger, Typed, Pushed, Born, AllPushed,
       MainPcs, status, logger, storage, ops, row
  <2> QED
    BY <1>1, <2>1, <2>2, <2>3, <2>4, <2>5, <2>6 DEF Main
<1>2. CASE Logger
  <2>1. CASE ReadBit
    BY <2>1, <1>0 DEF ReadBit, Typed, Pushed, Born, AllPushed, Words,
       status, storage, ops, row
  <2>2. CASE EndScan \/ EndRow
    <3>1. /\ lphase # "off" /\ lphase' \in {"await", "measure", "row", "done"}
          /\ lidx' = 1 /\ lagg' = TRUE
          /\ UNCHANGED <<style, mainPc, mainReg, wpc, status, storage, ops>>
      BY <2>2 DEF EndScan, EndRow, Enter
    <3>2. Typed'
      BY <3>1 DEF Typed, status, storage, ops
    <3>3. Pushed' /\ Born'
      BY <3>1, <1>0 DEF Pushed, Born, AllPushed, status
    <3> QED
      BY <3>2, <3>3
  <2>3. CASE ReadCounter
    BY <2>3, <1>0 DEF ReadCounter, Typed, Pushed, Born, AllPushed,
       status, storage, ops, row
  <2> QED
    BY <1>2, <2>1, <2>2, <2>3 DEF Logger
<1>3. CASE CounterFileMissing
  BY <1>3, <1>0 DEF CounterFileMissing, Typed, Pushed, Born, AllPushed, MainPcs,
     status, logger, storage, ops, row
<1>4. ASSUME NEW w \in AllWorkers, Connect(w) \/ TimeUp(w) \/ EarlyReturn(w)
      PROVE  Control'
  <2>1. PICK p \in WorkerPcs :
            /\ p # "unborn"
            /\ wpc[w] # "unborn"
            /\ w = LatencyWorker => p \in {"running", "ended", "returned"}
            /\ wpc' = [wpc EXCEPT ![w] = p]
    BY <1>4, WorkersAre DEF Connect, TimeUp, EarlyReturn, Becomes, WorkerPcs
  <2>2. /\ mainPc' \in {mainPc, "exited"}
        /\ UNCHANGED <<style, size, lphase, status, logger, storage, ops, mainReg>>
    BY <1>4 DEF Connect, TimeUp, EarlyReturn, Becomes, status, logger
  <2>3. wpc' \in [1..LatencyWorker -> WorkerPcs] /\ mainPc' \in MainPcs /\ Pushed' /\ Born'
    BY <2>1, <2>2, WorkerMoves
  <2> QED
    BY <2>2, <2>3 DEF Typed, status, logger, storage, ops
<1>5. ASSUME NEW w \in Workers, LoadStatus(w) \/ StoreTrue(w) \/ StoreFalse(w)
                                 \/ Op(w) \/ Increment(w)
      PROVE  Control'
  <2>1. PICK p \in WorkerPcs :
            /\ p # "unborn"
            /\ wpc[w] # "unborn"
            /\ wpc' = [wpc EXCEPT ![w] = p]
    BY <1>5 DEF LoadStatus, StoreTrue, StoreFalse, Op, Increment, Becomes, WorkerPcs
  <2>2. /\ mainPc' \in {mainPc, "exited"}
        /\ UNCHANGED <<style, size, logger, mainReg>>
    BY <1>5 DEF LoadStatus, StoreTrue, StoreFalse, Op, Increment, Becomes, status
  <2>3. w \in AllWorkers /\ w # LatencyWorker /\ w \in 1..Threads
    BY WorkersAre
  <2>4. wpc' \in [1..LatencyWorker -> WorkerPcs] /\ mainPc' \in MainPcs /\ Pushed' /\ Born'
    BY <2>1, <2>2, <2>3, WorkerMoves DEF logger
  <2>5. word' \in Words /\ reg' \in [1..Threads -> Words] /\ lost' \in BOOLEAN
    <3>1. CASE LoadStatus(w)
      BY <3>1, <2>3 DEF LoadStatus, Typed
    <3>2. CASE StoreTrue(w) \/ StoreFalse(w)
      <4>1. PICK b \in BOOLEAN : StoreBit(reg[w], w, b) /\ reg' = reg
        BY <3>2 DEF StoreTrue, StoreFalse
      <4>2. reg[w] \in Words
        BY <2>3 DEF Typed
      <4>3. [reg[w] EXCEPT ![w] = b] \in Words
        BY <4>2 DEF Words
      <4>4. lost' \in BOOLEAN
        BY <4>1 DEF StoreBit
      <4> QED
        BY <4>1, <4>3, <4>4 DEF StoreBit, Typed
    <3>3. CASE Op(w) \/ Increment(w)
      BY <3>3 DEF Op, Increment, status, Typed
    <3> QED
      BY <1>5, <3>1, <3>2, <3>3
  <2>6. /\ counter' \in [1..Threads -> Nat] /\ begun' \in [1..Threads -> Nat]
        /\ exposed' \in [1..Threads -> Nat] /\ moved' \in [1..Threads -> Nat]
    <3>1. CASE LoadStatus(w) \/ StoreTrue(w) \/ StoreFalse(w) \/ Op(w)
      BY <3>1 DEF LoadStatus, StoreTrue, StoreFalse, Op, Becomes, ops, storage, Typed
    <3>2. CASE Increment(w)
      <4>1. /\ counter' = counter \/ counter' = [counter EXCEPT ![w] = @ + 1]
            /\ begun' = [begun EXCEPT ![w] = @ + 1]
            /\ exposed' = exposed \/ exposed' = [exposed EXCEPT ![w] = @ + 1]
            /\ moved' = moved
        BY <3>2 DEF Increment
      <4>2. /\ counter[w] + 1 \in Nat /\ begun[w] + 1 \in Nat /\ exposed[w] + 1 \in Nat
        BY <2>3 DEF Typed
      <4> QED
        BY <4>1, <4>2 DEF Typed
    <3> QED
      BY <1>5, <3>1, <3>2
  <2> QED
    BY <2>2, <2>4, <2>5, <2>6 DEF Typed, logger
<1>6. ASSUME NEW w \in Workers, Exit(w)
      PROVE  Control'
  BY <1>6, <1>0 DEF Exit, Typed, Pushed, Born, AllPushed, MainPcs,
     status, logger, storage, ops, row
<1>7. CASE UNCHANGED vars
  BY <1>7, <1>0 DEF vars, Typed, Pushed, Born, AllPushed, status, logger, storage, ops, row
<1> QED
  BY <1>1, <1>2, <1>3, <1>4, <1>5, <1>6, <1>7, NextIs

-----------------------------------------------------------------------------
\* A store that undoes nothing changes the worker's own bit only; none
\* touches a bit that no worker owns.
LEMMA StoreOwn ==
  ASSUME NEW r \in Words, NEW w \in Workers, NEW b \in BOOLEAN, StoreBit(r, w, b),
         word \in Words, \A v \in (1..Threads) \ Workers : ~ r[v] /\ ~ word[v]
  PROVE  /\ \A v \in (1..Threads) \ Workers : ~ word'[v]
         /\ lost => lost'
         /\ ~ lost' => \A v \in 1..Threads : word'[v] = IF v = w THEN b ELSE word[v]
<1>1. \A v \in 1..Threads : word'[v] = IF v = w THEN b ELSE r[v]
  BY WorkersAre DEF StoreBit, Words
<1>2. lost => lost'
  BY DEF StoreBit
<1>3. ASSUME ~ lost', NEW v \in 1..Threads, v # w
      PROVE  r[v] = word[v]
  <2>1. CASE v \in Workers
    BY <1>3, <2>1 DEF StoreBit
  <2>2. CASE v \notin Workers
    <3>1. r[v] = FALSE /\ word[v] = FALSE
      BY <2>2, <1>3 DEF Words
    <3> QED
      BY <3>1
  <2> QED
    BY <2>1, <2>2
<1>4. \A v \in (1..Threads) \ Workers : ~ word'[v]
  BY <1>1
<1> QED
  BY <1>1, <1>2, <1>3, <1>4

(***************************************************************************)
(* Every step keeps the meaning of the bits: the store of a worker is the  *)
(* step after which its bit means something new, and the steps between     *)
(* leave bit and meaning alone.                                            *)
(***************************************************************************)
LEMMA BitsStep == Control /\ Bits /\ [Next]_vars => Bits'
<1> SUFFICES ASSUME Control, Bits, [Next]_vars
             PROVE  Bits'
  OBVIOUS
<1> DEFINE Means(v) == HasConnected(v) /\ wpc[v] # "ended"
<1>0. /\ word \in Words /\ mainReg \in Words /\ reg \in [1..Threads -> Words]
      /\ wpc \in [1..LatencyWorker -> WorkerPcs]
      /\ Unowned
      /\ ~ lost => \A v \in 1..Threads : word[v] <=> Means(v)
  BY DEF Control, Typed, Bits, StatusTrue
<1>a. ASSUME Unowned',
             ~ lost' => \A v \in 1..Threads : word'[v] <=> Means(v)'
      PROVE  Bits'
  BY <1>a DEF Bits, StatusTrue
<1> HIDE DEF Means
<1>1. ASSUME UNCHANGED <<style, status, mainReg, wpc>>
      PROVE  Bits'
  BY <1>1 DEF Bits, Unowned, StatusTrue, HasConnected, Workers, status
<1>2. CASE Main
  <2>1. CASE PushLoad
    <3>1. UNCHANGED <<style, word, reg, lost, wpc>> /\ mainReg' = word
      BY <2>1 DEF PushLoad, status
    <3>2. \A v \in 1..Threads : Means(v)' <=> Means(v)
      BY <3>1 DEF Means, HasConnected
    <3>3. Unowned'
      BY <1>0, <3>1 DEF Unowned, Workers
    <3> QED
      BY <1>0, <3>1, <3>2, <3>3, <1>a
  <2>2. CASE PushStore
    <3>1. size + 1 \in Workers /\ UNCHANGED <<style, reg, mainReg, wpc>>
          /\ StoreBit(mainReg, size + 1, FALSE)
      BY <2>2 DEF PushStore, Control, Pushed
    <3>2. ~ Means(size + 1)
      <4>1. wpc[size + 1] = "unborn"
        BY <3>1, WorkersAre DEF Control, Born, Typed
      <4> QED
        BY <4>1 DEF Means, HasConnected
    <3>3. /\ \A v \in (1..Threads) \ Workers : ~ word'[v]
          /\ lost => lost'
          /\ ~ lost' => \A v \in 1..Threads :
                word'[v] = IF v = size + 1 THEN FALSE ELSE word[v]
      BY <1>0, <3>1, StoreOwn DEF Unowned
    <3>4. \A v \in 1..Threads : Means(v)' <=> Means(v)
      BY <3>1 DEF Means, HasConnected
    <3>5. Unowned'
      BY <1>0, <3>1, <3>3 DEF Unowned, Workers
    <3> QED
      BY <1>0, <3>2, <3>3, <3>4, <3>5, <1>a
  <2>3. CASE PushCount \/ MoveCounters
    <3>1. /\ UNCHANGED <<style, word, reg, lost, mainReg>>
          /\ wpc' = wpc \/ Spawn
          /\ mainPc \in {"count", "move"}
      BY <2>3 DEF PushCount, MoveCounters, status
    <3>2. \A v \in 1..Threads : Means(v)' <=> Means(v)
      <4>1. CASE wpc' = wpc
        BY <4>1 DEF Means, HasConnected
      <4>2. CASE Spawn
        <5>1. \A w \in 1..Threads : wpc'[w] = IF w = size THEN "connect" ELSE wpc[w]
          BY <2>3, <4>2, SpawnBirths DEF PushCount, MoveCounters, status, logger
        <5>2. size \in 1..Threads => wpc[size] = "unborn"
          BY <3>1 DEF Control, Born
        <5> QED
          BY <5>1, <5>2 DEF Means, HasConnected
      <4> QED
        BY <3>1, <4>1, <4>2
    <3> QED
      BY <1>0, <3>1, <3>2, <1>a DEF Unowned, Workers
  <2>4. CASE StartLogger \/ JoinWorkers \/ JoinLogger
    BY <2>4, <1>1 DEF StartLogger, JoinWorkers, JoinLogger
  <2> QED
    BY <1>2, <2>1, <2>2, <2>3, <2>4, <1>a DEF Main
<1>3. CASE Logger \/ CounterFileMissing
  BY <1>3, <1>1 DEF Logger, CounterFileMissing, ReadBit, EndScan, ReadCounter, EndRow, Enter
<1>4. ASSUME NEW w \in AllWorkers, Connect(w) \/ TimeUp(w) \/ EarlyReturn(w)
      PROVE  Bits'
  <2>1. UNCHANGED <<style, word, reg, lost, mainReg>>
    BY <1>4 DEF Connect, TimeUp, EarlyReturn, Becomes, status
  <2>2. ASSUME NEW v \in 1..Threads
        PROVE  Means(v)' <=> Means(v)
    <3>1. v = w => w \in Workers
      BY WorkersAre
    <3> QED
      BY <1>0, <1>4, <3>1, WorkersAre
      DEF Connect, TimeUp, EarlyReturn, Becomes, Means, HasConnected
  <2> QED
    BY <1>0, <2>1, <2>2, <1>a DEF Unowned, Workers
<1>5. ASSUME NEW w \in Workers, LoadStatus(w) \/ Op(w) \/ Increment(w) \/ Exit(w)
      PROVE  Bits'
  <2>1. /\ UNCHANGED <<style, word, lost, mainReg>>
        /\ reg' = reg \/ reg' = [reg EXCEPT ![w] = word]
    BY <1>5 DEF LoadStatus, Op, Increment, Exit, Becomes, status
  <2>2. ASSUME NEW v \in 1..Threads
        PROVE  Means(v)' <=> Means(v)
    BY <1>0, <1>5, WorkersAre DEF LoadStatus, Op, Increment, Exit, Becomes, Means, HasConnected
  <2>3. Unowned'
    BY <1>0, <2>1, WorkersAre DEF Unowned, Workers
  <2> QED
    BY <1>0, <2>1, <2>2, <2>3, <1>a
<1>6. ASSUME NEW w \in Workers, NEW p \in {"running", "ended"},
             UNCHANGED <<style, reg, mainReg>>, wpc' = [wpc EXCEPT ![w] = p],
             \A v \in (1..Threads) \ Workers : ~ word'[v],
             lost => lost',
             ~ lost' => \A v \in 1..Threads :
                 word'[v] <=> IF v = w THEN p = "running" ELSE word[v]
      PROVE  Bits'
  <2>1. w \in 1..Threads /\ w \in 1..LatencyWorker
    BY WorkersAre
  <2>2. \A v \in 1..Threads : Means(v)' <=> IF v = w THEN p = "running" ELSE Means(v)
    BY <1>0, <1>6, <2>1, WorkersAre DEF Means, HasConnected
  <2>3. Unowned'
    BY <1>0, <1>6 DEF Unowned, Workers
  <2> QED
    BY <1>0, <1>6, <2>2, <2>3, <1>a
<1>7. ASSUME NEW w \in Workers, StoreTrue(w) \/ StoreFalse(w)
      PROVE  Bits'
  <2>1. UNCHANGED <<style, reg, mainReg>>
    BY <1>7 DEF StoreTrue, StoreFalse, Becomes
  <2>2. /\ reg[w] \in Words
        /\ \A v \in (1..Threads) \ Workers : ~ reg[w][v] /\ ~ word[v]
    BY <1>0, WorkersAre DEF Unowned
  <2>3. CASE StoreTrue(w)
    <3>1. StoreBit(reg[w], w, TRUE) /\ wpc' = [wpc EXCEPT ![w] = "running"]
      BY <2>3 DEF StoreTrue, Becomes
    <3>2. /\ \A v \in (1..Threads) \ Workers : ~ word'[v]
          /\ lost => lost'
          /\ ~ lost' => \A v \in 1..Threads : word'[v] = IF v = w THEN TRUE ELSE word[v]
      BY <1>0, <2>2, <3>1, StoreOwn
    <3> QED
      BY <1>6, <2>1, <3>1, <3>2
  <2>4. CASE StoreFalse(w)
    <3>1. StoreBit(reg[w], w, FALSE) /\ wpc' = [wpc EXCEPT ![w] = "ended"]
      BY <2>4 DEF StoreFalse, Becomes
    <3>2. /\ \A v \in (1..Threads) \ Workers : ~ word'[v]
          /\ lost => lost'
          /\ ~ lost' => \A v \in 1..Threads : word'[v] = IF v = w THEN FALSE ELSE word[v]
      BY <1>0, <2>2, <3>1, StoreOwn
    <3> QED
      BY <1>6, <2>1, <3>1, <3>2
  <2> QED
    BY <1>7, <2>3, <2>4
<1>8. CASE UNCHANGED vars
  BY <1>8, <1>1 DEF vars
<1> QED
  BY <1>2, <1>3, <1>4, <1>5, <1>7, <1>8, NextIs
-----------------------------------------------------------------------------
\* Connected once, ended once, lost once: for good.
LEMMA ForGood ==
  Control /\ [Next]_vars =>
    /\ Workers' = Workers
    /\ \A w \in Workers : HasConnected(w) => HasConnected(w)'
    /\ \A w \in Workers : wpc[w] = "ended" => wpc'[w] = "ended"
    /\ lost => lost'
<1> SUFFICES ASSUME Control, [Next]_vars
             PROVE  /\ style' = style
                    /\ \A w \in Workers : HasConnected(w) => HasConnected(w)'
                    /\ \A w \in Workers : wpc[w] = "ended" => wpc'[w] = "ended"
                    /\ lost => lost'
  BY DEF Workers
<1> USE DEF HasConnected
<1>1. CASE PushCount \/ MoveCounters
  <2>1. UNCHANGED <<style, lost, size, lphase>> /\ mainPc \in {"count", "move"}
    BY <1>1 DEF PushCount, MoveCounters, status, logger
  <2>2. CASE wpc' = wpc
    BY <2>1, <2>2
  <2>3. CASE Spawn
    <3>1. \A w \in 1..Threads : wpc'[w] = IF w = size THEN "connect" ELSE wpc[w]
      BY <2>1, <2>3, SpawnBirths
    <3>2. \A w \in Workers : w = size => wpc[w] = "unborn"
      BY <2>1, WorkersAre DEF Control, Born
    <3> QED
      BY <2>1, <3>1, <3>2, WorkersAre
  <2> QED
    BY <1>1, <2>2, <2>3 DEF PushCount, MoveCounters
<1>2. CASE PushStore
  BY <1>2 DEF PushStore, StoreBit
<1>3. CASE UNCHANGED <<style, wpc, lost>>
  BY <1>3
<1>4. CASE PushLoad \/ StartLogger \/ JoinWorkers \/ JoinLogger \/ Logger \/ CounterFileMissing
  BY <1>3, <1>4
  DEF PushLoad, StartLogger, JoinWorkers, JoinLogger, Logger, ReadBit, EndScan,
      ReadCounter, EndRow, Enter, CounterFileMissing, status
<1>5. ASSUME NEW w \in AllWorkers, Connect(w) \/ TimeUp(w) \/ EarlyReturn(w)
      PROVE  UNCHANGED <<style, lost>> /\ \A v \in Workers :
                /\ HasConnected(v) => HasConnected(v)'
                /\ wpc[v] = "ended" => wpc'[v] = "ended"
  BY <1>5, WorkersAre
  DEF Connect, TimeUp, EarlyReturn, Becomes, status, Control, Typed
<1>6. ASSUME NEW w \in Workers,
             LoadStatus(w) \/ StoreTrue(w) \/ StoreFalse(w) \/ Op(w) \/ Increment(w) \/ Exit(w)
      PROVE  style' = style /\ (lost => lost') /\ \A v \in Workers :
                /\ HasConnected(v) => HasConnected(v)'
                /\ wpc[v] = "ended" => wpc'[v] = "ended"
  <2>0. style' = style
    BY <1>6 DEF LoadStatus, StoreTrue, StoreFalse, Op, Increment, Exit, Becomes
  <2>1. lost => lost'
    <3>1. CASE StoreTrue(w) \/ StoreFalse(w)
      BY <3>1 DEF StoreTrue, StoreFalse, StoreBit
    <3>2. CASE LoadStatus(w) \/ Op(w) \/ Increment(w) \/ Exit(w)
      BY <3>2 DEF LoadStatus, Op, Increment, Exit, status
    <3> QED
      BY <1>6, <3>1, <3>2
  <2> QED
    BY <1>6, <2>0, <2>1, WorkersAre
    DEF LoadStatus, StoreTrue, StoreFalse, Op, Increment, Exit, Becomes, Control, Typed
<1>7. CASE UNCHANGED vars
  BY <1>7, <1>3 DEF vars, status
<1> QED
  BY <1>1, <1>2, <1>4, <1>5, <1>6, <1>7, NextIs DEF Main

(***************************************************************************)
(* What the logger knows stays true: the bit it reads means what StatusTrue *)
(* says, and what it means is for good.                                    *)
(***************************************************************************)
LEMMA ScanStep == Control /\ Bits /\ Scan /\ [Next]_vars => Scan'
<1> SUFFICES ASSUME Control, Bits, Scan, [Next]_vars
             PROVE  Scan'
  OBVIOUS
<1>0. /\ Workers' = Workers
      /\ \A w \in Workers : HasConnected(w) => HasConnected(w)'
      /\ \A w \in Workers : wpc[w] = "ended" => wpc'[w] = "ended"
      /\ lost => lost'
  BY ForGood
<1>1. ASSUME UNCHANGED logger
      PROVE  Scan'
  BY <1>0, <1>1 DEF Scan, Scanned, MeasuresConnected, StopsForReason, logger
<1>2. CASE StartLogger
  <2>1. lphase = "off" /\ lphase' = "await" /\ lidx' = lidx
    BY <1>2 DEF StartLogger, Control, Pushed
  <2>2. \A w \in Workers : ~ w < lidx'
    BY <2>1, WorkersAre DEF Scan, Scanned
  <2> QED
    BY <2>1, <2>2, <1>0 DEF Scan, Scanned, MeasuresConnected, StopsForReason
<1>3. CASE ReadBit
  <2>1. /\ lphase \in {"await", "measure"} /\ lphase' = lphase
        /\ lidx \in Workers /\ lidx' = lidx + 1
        /\ lagg' = (lagg /\ word[lidx])
        /\ lost' = lost /\ wpc' = wpc
    <3>1. lphase \in {"await", "measure"} /\ lidx <= size
      BY <1>3 DEF ReadBit
    <3>2. size \in Workers /\ lidx \in Nat \ {0}
      BY <3>1 DEF Control, Typed, Pushed, AllPushed
    <3>3. lidx \in Workers
      BY <3>1, <3>2, WorkersAre
    <3> QED
      BY <1>3, <3>1, <3>3 DEF ReadBit, status
  <2>2. ~ lost => (word[lidx] <=> HasConnected(lidx) /\ wpc[lidx] # "ended")
    BY <2>1, WorkersAre DEF Bits, StatusTrue
  <2>3. MeasuresConnected' /\ StopsForReason'
    BY <2>1, <1>0 DEF Scan, MeasuresConnected, StopsForReason
  <2>4. CASE lphase = "await"
    <3>1. ASSUME ~ lost, lagg', NEW w \in Workers, w < lidx'
          PROVE  HasConnected(w)
      <4>1. lagg /\ word[lidx]
        BY <2>1, <3>1
      <4>2. w = lidx \/ w < lidx
        BY <2>1, <3>1, WorkersAre
      <4>3. \A v \in Workers : v < lidx => HasConnected(v)
        BY <2>4, <3>1, <4>1 DEF Scan, Scanned
      <4> QED
        BY <2>2, <3>1, <4>1, <4>2, <4>3
    <3>2. /\ lphase' = "await" /\ lost' = lost
          /\ \A w \in Workers : HasConnected(w) => HasConnected(w)'
          /\ Workers' = Workers
      BY <2>1, <2>4, <1>0
    <3>3. Scanned'
      BY <3>1, <3>2 DEF Scanned
    <3> QED
      BY <2>3, <3>3 DEF Scan
  <2>5. CASE lphase = "measure"
    <3>1. ~ lost => HasConnected(lidx)
      BY <2>1, <2>5 DEF Scan, MeasuresConnected
    <3>2. ~ lost /\ ~ lagg' => \E w \in Workers : wpc[w] = "ended"
      BY <2>1, <2>2, <2>5, <3>1 DEF Scan, Scanned
    <3> QED
      BY <2>1, <2>3, <2>5, <3>2, <1>0 DEF Scan, Scanned
  <2> QED
    BY <2>1, <2>4, <2>5
<1>4. CASE EndScan
  <2>1. lidx' = 1 /\ lagg' = TRUE /\ wpc' = wpc /\ lost' = lost
    BY <1>4 DEF EndScan, Enter, status
  <2>2. Scanned'
    <3>1. \A w \in Workers : ~ w < lidx'
      BY <2>1, WorkersAre
    <3> QED
      BY <2>1, <3>1, <1>0 DEF Scanned
  <2>3. CASE lphase = "await" /\ ~ lagg
    <3>1. lphase' = "await"
      BY <1>4, <2>3 DEF EndScan, Enter
    <3> QED
      BY <2>2, <3>1 DEF Scan, MeasuresConnected, StopsForReason
  <2>4. CASE lphase = "await" /\ lagg
    <3>1. lphase' = "measure"
      BY <1>4, <2>4 DEF EndScan, Enter
    <3>2. \A w \in Workers : w < lidx
      <4>1. size \in Workers /\ size + 1 \notin Workers /\ lidx \in Nat /\ size < lidx
        BY <1>4, <2>4 DEF EndScan, Control, Pushed, AllPushed, Typed
      <4> QED
        BY <4>1, WorkersAre
    <3>3. ~ lost => \A w \in Workers : HasConnected(w)
      BY <2>4, <3>2 DEF Scan, Scanned
    <3> QED
      BY <2>1, <2>2, <3>1, <3>3, <1>0 DEF Scan, MeasuresConnected, StopsForReason
  <2>5. CASE lphase = "measure" /\ lagg
    <3>1. lphase' = "row"
      BY <1>4, <2>5 DEF EndScan, Enter
    <3> QED
      BY <2>1, <2>2, <2>5, <3>1, <1>0 DEF Scan, MeasuresConnected, StopsForReason
  <2>6. CASE lphase = "measure" /\ ~ lagg
    <3>1. lphase' = "done"
      BY <1>4, <2>6 DEF EndScan, Enter
    <3> QED
      BY <2>1, <2>2, <2>6, <3>1, <1>0 DEF Scan, Scanned, MeasuresConnected, StopsForReason
  <2> QED
    BY <1>4, <2>3, <2>4, <2>5, <2>6 DEF EndScan
<1>5. CASE ReadCounter
  <2>1. lphase = "row" /\ UNCHANGED <<lphase, wpc, lost>>
    BY <1>5 DEF ReadCounter, status
  <2> QED
    BY <2>1, <1>0 DEF Scan, Scanned, MeasuresConnected, StopsForReason
<1>6. CASE EndRow
  <2>1. /\ lphase = "row" /\ lphase' = "measure" /\ lidx' = 1 /\ lagg' = TRUE
        /\ UNCHANGED <<wpc, lost>>
    BY <1>6 DEF EndRow, Enter, status
  <2> QED
    BY <2>1, <1>0 DEF Scan, Scanned, MeasuresConnected, StopsForReason
<1>7. CASE PushLoad \/ PushStore \/ PushCount \/ MoveCounters \/ JoinWorkers
           \/ JoinLogger \/ CounterFileMissing \/ UNCHANGED vars
  BY <1>7, <1>1
  DEF PushLoad, PushStore, PushCount, MoveCounters, JoinWorkers, JoinLogger,
      CounterFileMissing, vars
<1>8. ASSUME NEW w, \/ Connect(w) \/ TimeUp(w) \/ EarlyReturn(w) \/ LoadStatus(w)
                    \/ StoreTrue(w) \/ StoreFalse(w) \/ Op(w) \/ Increment(w) \/ Exit(w)
      PROVE  Scan'
  BY <1>8, <1>1
  DEF Connect, TimeUp, EarlyReturn, LoadStatus, StoreTrue, StoreFalse, Op,
      Increment, Exit, Becomes
<1> QED
  BY <1>2, <1>3, <1>4, <1>5, <1>6, <1>7, <1>8, NextIs DEF Main, Logger
-----------------------------------------------------------------------------
(***************************************************************************)
(* An increment is counted in both the counter and begun, or it meets the  *)
(* move and exposed makes up for it; the copy takes over what it copied.   *)
(***************************************************************************)
LEMMA CountsStep == Control /\ Counts /\ [Next]_vars => Counts'
<1> SUFFICES ASSUME Control, Counts, [Next]_vars
             PROVE  Counts'
  OBVIOUS
<1>0. /\ counter \in [1..Threads -> Nat] /\ moved \in [1..Threads -> Nat]
      /\ begun \in [1..Threads -> Nat] /\ exposed \in [1..Threads -> Nat]
  BY DEF Control, Typed
<1>1. ASSUME UNCHANGED <<counter, moved, begun, exposed>>, mainPc' = "move" => mainPc = "move"
      PROVE  Counts'
  BY <1>1 DEF Counts, OpsTrue, Copied
<1>2. CASE PushCount
  <2>1. UNCHANGED <<counter, begun, exposed>> /\ (moved' = counter \/ mainPc' # "move")
    BY <1>2 DEF PushCount, Spawn, ops
  <2> QED
    BY <2>1 DEF Counts, OpsTrue, Copied
<1>3. CASE MoveCounters
  <2>1. /\ mainPc = "move" /\ mainPc' # "move"
        /\ counter' = moved /\ UNCHANGED <<begun, exposed>>
    BY <1>3 DEF MoveCounters, Spawn, ops
  <2> QED
    BY <2>1 DEF Counts, OpsTrue, Copied
<1>4. CASE PushLoad \/ PushStore \/ StartLogger \/ JoinWorkers \/ JoinLogger
           \/ Logger \/ CounterFileMissing \/ UNCHANGED vars
  BY <1>4, <1>1
  DEF PushLoad, PushStore, StartLogger, JoinWorkers, JoinLogger, Logger, ReadBit,
      EndScan, ReadCounter, EndRow, Enter, CounterFileMissing, storage, ops, vars
<1>5. ASSUME NEW w, \/ Connect(w) \/ TimeUp(w) \/ EarlyReturn(w) \/ LoadStatus(w)
                    \/ StoreTrue(w) \/ StoreFalse(w) \/ Op(w) \/ Exit(w)
      PROVE  Counts'
  BY <1>5, <1>1
  DEF Connect, TimeUp, EarlyReturn, LoadStatus, StoreTrue, StoreFalse, Op, Exit,
      Becomes, storage, ops
<1>6. ASSUME NEW w \in Workers, Increment(w)
      PROVE  Counts'
  <2>1. w \in 1..Threads
    BY WorkersAre
  <2>2. /\ begun' = [begun EXCEPT ![w] = @ + 1] /\ moved' = moved
        /\ mainPc' = "move" => mainPc = "move"
        /\ \/ /\ counter' = [counter EXCEPT ![w] = @ + 1]
              /\ mainPc' = mainPc
              /\ mainPc = "move" => exposed' = [exposed EXCEPT ![w] = @ + 1]
              /\ mainPc # "move" => exposed' = exposed
           \/ /\ counter' = counter
              /\ exposed' = [exposed EXCEPT ![w] = @ + 1]
    BY <1>6 DEF Increment
  <2>3. ASSUME NEW v \in 1..Threads
        PROVE  /\ begun'[v] = IF v = w THEN begun[v] + 1 ELSE begun[v]
               /\ counter'[v] \in {counter[v], IF v = w THEN counter[v] + 1 ELSE counter[v]}
               /\ exposed'[v] \in {exposed[v], IF v = w THEN exposed[v] + 1 ELSE exposed[v]}
               /\ v = w => counter'[v] = counter[v] + 1 \/ exposed'[v] = exposed[v] + 1
               /\ v = w /\ mainPc' = "move" => exposed'[v] = exposed[v] + 1
    <3>1. CASE /\ counter' = [counter EXCEPT ![w] = @ + 1]
               /\ mainPc' = mainPc
               /\ mainPc = "move" => exposed' = [exposed EXCEPT ![w] = @ + 1]
               /\ mainPc # "move" => exposed' = exposed
      BY <1>0, <2>2, <3>1
    <3>2. CASE counter' = counter /\ exposed' = [exposed EXCEPT ![w] = @ + 1]
      BY <1>0, <2>2, <3>2
    <3> QED
      BY <2>2, <3>1, <3>2
  <2>4. ASSUME NEW v \in 1..Threads
        PROVE  /\ counter'[v] <= begun'[v]
               /\ begun'[v] <= counter'[v] + exposed'[v]
    <3>1. counter[v] <= begun[v] /\ begun[v] <= counter[v] + exposed[v]
      BY DEF Counts, OpsTrue
    <3>2. counter[v] \in Nat /\ begun[v] \in Nat /\ exposed[v] \in Nat
      BY <1>0
    <3> QED
      BY <2>3, <3>1, <3>2
  <2>5. ASSUME mainPc' = "move", NEW v \in 1..Threads
        PROVE  /\ moved'[v] <= begun'[v]
               /\ begun'[v] <= moved'[v] + exposed'[v]
    <3>1. moved[v] <= begun[v] /\ begun[v] <= moved[v] + exposed[v]
      BY <2>2, <2>5 DEF Counts, Copied
    <3>2. moved[v] \in Nat /\ begun[v] \in Nat /\ exposed[v] \in Nat
      BY <1>0
    <3> QED
      BY <2>2, <2>3, <2>5, <3>1, <3>2
  <2> QED
    BY <2>4, <2>5 DEF Counts, OpsTrue, Copied
<1> QED
  BY <1>2, <1>3, <1>4, <1>5, <1>6, NextIs DEF Main

(***************************************************************************)
(* No counter leaves its bounds: the vectors are moved once per push_back  *)
(* at most, and no worker counts more than MaxOps.                         *)
(***************************************************************************)
LEMMA BoundedStep == Control /\ Counts /\ Bounded /\ [Next]_vars => Bounded'
<1> SUFFICES ASSUME Control, Counts, Bounded, [Next]_vars
             PROVE  Bounded'
  OBVIOUS
<1>0. /\ size \in Nat /\ lidx \in Nat /\ MaxOps \in Nat
      /\ counter \in [1..Threads -> Nat] /\ moved \in [1..Threads -> Nat]
      /\ begun \in [1..Threads -> Nat] /\ exposed \in [1..Threads -> Nat]
      /\ wpc \in [1..LatencyWorker -> WorkerPcs] /\ 1..Threads \subseteq 1..LatencyWorker
      /\ addr \in [1..Threads -> Nat] /\ epoch \in Nat
  <2>1. /\ size \in 0..Threads /\ lidx \in Nat
        /\ counter \in [1..Threads -> Nat] /\ moved \in [1..Threads -> Nat]
        /\ begun \in [1..Threads -> Nat] /\ exposed \in [1..Threads -> Nat]
        /\ wpc \in [1..LatencyWorker -> WorkerPcs]
    BY DEF Control, Typed
  <2>2. addr \in [1..Threads -> Nat] /\ epoch \in Nat
    BY DEF Bounded
  <2>3. MaxOps \in Nat /\ Threads \in Nat /\ 1..Threads \subseteq 1..LatencyWorker
    BY MonitorAssumption, WorkersAre DEF MonitorAssumption
  <2>4. size \in Nat
    BY <2>1, <2>3
  <2> QED
    BY <2>1, <2>2, <2>3, <2>4
\* A step that counts nothing.
<1>1. ASSUME missed' \in BOOLEAN,
             UNCHANGED <<size, epoch, addr, begun, exposed, moved>>,
             lidx' <= size + 1,
             mainPc' \in {"count", "move"} => mainPc \in {"count", "move"},
             \A w \in 1..Threads : /\ wpc'[w] = "op" => wpc[w] = "op"
                                   /\ wpc'[w] = "unborn" => wpc[w] = "unborn"
      PROVE  Bounded'
  BY <1>1 DEF Bounded
<1>2. CASE PushLoad \/ StartLogger \/ JoinWorkers \/ JoinLogger \/ CounterFileMissing
           \/ UNCHANGED vars
  <2>1. /\ UNCHANGED <<missed, lidx, size, epoch, addr, begun, exposed, moved, wpc>>
        /\ mainPc' \in {"count", "move"} => mainPc \in {"count", "move"}
    BY <1>2 DEF PushLoad, StartLogger, JoinWorkers, JoinLogger, CounterFileMissing,
       vars, status, logger, storage, ops
  <2> QED
    BY <2>1, <1>1 DEF Bounded
<1>3. CASE PushStore
  <2>1. /\ UNCHANGED <<missed, lidx, epoch, addr, begun, exposed, moved, wpc>>
        /\ size' = size + 1
    BY <1>3 DEF PushStore, logger, storage, ops
  <2>2. lidx <= size' + 1 /\ epoch < size' /\ epoch <= size'
    BY <1>0, <2>1 DEF Bounded
  <2> QED
    BY <2>1, <2>2 DEF Bounded
<1>4. CASE PushCount \/ MoveCounters
  <2>1. mainPc \in {"count", "move"} /\ epoch < size
    BY <1>4 DEF PushCount, MoveCounters, Bounded
  <2>2. UNCHANGED <<style, missed, size, lidx, lphase, addr, begun, exposed>>
    BY <1>4 DEF PushCount, MoveCounters, status, logger, ops
  <2>3. wpc' = wpc \/ Spawn
    BY <1>4 DEF PushCount, MoveCounters
  <2>4. \A w \in 1..Threads : /\ wpc'[w] = "op" => wpc[w] = "op"
                              /\ wpc'[w] = "unborn" => wpc[w] = "unborn"
    <3>1. CASE Spawn
      <4>1. \A w \in 1..Threads : wpc'[w] = IF w = size THEN "connect" ELSE wpc[w]
        BY <2>1, <2>2, <3>1, SpawnBirths
      <4> QED
        BY <4>1
    <3> QED
      BY <2>3, <3>1
  <2>5. \A w \in 1..Threads : moved'[w] <= MaxOps
    <3>1. \A w \in 1..Threads : counter[w] <= MaxOps
      BY <1>0 DEF Counts, OpsTrue, Bounded
    <3>2. moved' = moved \/ moved' = counter
      BY <1>4 DEF PushCount, MoveCounters
    <3> QED
      BY <3>1, <3>2 DEF Bounded
  <2>6. /\ epoch' \in Nat /\ epoch' <= size /\ epoch <= epoch'
        /\ mainPc' \in {"count", "move"} => epoch' < size
    <3>1. CASE PushCount
      BY <1>0, <2>1, <3>1 DEF PushCount, storage
    <3>2. CASE MoveCounters
      <4>1. epoch' = epoch + 1 /\ mainPc' \notin {"count", "move"}
        BY <3>2 DEF MoveCounters, Spawn
      <4> QED
        BY <1>0, <2>1, <4>1
    <3> QED
      BY <1>4, <3>1, <3>2
  <2>7. \A w \in 1..Threads : addr[w] <= epoch'
    BY <1>0, <2>6 DEF Bounded
  <2> QED
    BY <2>2, <2>4, <2>5, <2>6, <2>7 DEF Bounded
<1>5. CASE Logger
  <2>1. UNCHANGED <<missed, size, epoch, addr, begun, exposed, moved, wpc, mainPc>>
    BY <1>5 DEF Logger, ReadBit, EndScan, ReadCounter, EndRow, Enter, status, storage, ops
  <2>2. lidx' = 1 \/ (lidx <= size /\ lidx' = lidx + 1)
    BY <1>5 DEF Logger, ReadBit, EndScan, ReadCounter, EndRow, Enter
  <2>3. lidx' <= size + 1
    BY <1>0, <2>2
  <2> QED
    BY <1>1, <2>1, <2>3 DEF Bounded
<1>6. ASSUME NEW w \in AllWorkers, Connect(w) \/ TimeUp(w) \/ EarlyReturn(w)
      PROVE  Bounded'
  <2>1. /\ UNCHANGED <<missed, lidx, size, epoch, addr, begun, exposed, moved>>
        /\ mainPc' \in {mainPc, "exited"}
    BY <1>6 DEF Connect, TimeUp, EarlyReturn, Becomes, status, logger, storage, ops
  <2>2. PICK p \in WorkerPcs \ {"op", "unborn"} : wpc' = [wpc EXCEPT ![w] = p]
    BY <1>6 DEF Connect, TimeUp, EarlyReturn, Becomes, WorkerPcs
  <2>3. \A v \in 1..Threads : wpc'[v] \in {wpc[v], p}
    BY <1>0, <2>2
  <2> QED
    BY <1>1, <2>1, <2>3 DEF Bounded
<1>7. ASSUME NEW w \in Workers, LoadStatus(w) \/ StoreTrue(w) \/ StoreFalse(w) \/ Exit(w)
      PROVE  Bounded'
  <2>1. /\ UNCHANGED <<lidx, size, epoch, addr, begun, exposed, moved>>
        /\ mainPc' \in {mainPc, "exited"}
    BY <1>7 DEF LoadStatus, StoreTrue, StoreFalse, Exit, Becomes, status, logger, storage, ops
  <2>2. \A v \in 1..Threads : wpc'[v] \in {wpc[v], "storeTrue", "storeFalse", "running", "ended"}
    BY <1>0, <1>7 DEF LoadStatus, StoreTrue, StoreFalse, Exit, Becomes
  <2>3. missed' \in BOOLEAN
    <3>1. CASE StoreFalse(w)
      BY <3>1 DEF StoreFalse
    <3>2. CASE LoadStatus(w) \/ StoreTrue(w) \/ Exit(w)
      BY <3>2 DEF LoadStatus, StoreTrue, Exit, Bounded
    <3> QED
      BY <1>7, <3>1, <3>2
  <2> QED
    BY <1>1, <2>1, <2>2, <2>3 DEF Bounded
<1>8. ASSUME NEW w \in Workers, Op(w)
      PROVE  Bounded'
  <2>1. /\ UNCHANGED <<missed, lidx, size, epoch, begun, exposed, moved, mainPc>>
        /\ addr' = [addr EXCEPT ![w] = epoch]
        /\ wpc' = [wpc EXCEPT ![w] = "op"]
        /\ begun[w] < MaxOps /\ wpc[w] = "running" /\ w \in 1..Threads
    BY <1>8, WorkersAre DEF Op, Becomes, status, logger, storage
  <2>2. addr' \in [1..Threads -> Nat] /\ \A v \in 1..Threads : addr'[v] <= epoch
    BY <1>0, <2>1 DEF Bounded
  <2>3. \A v \in 1..Threads : wpc'[v] = IF v = w THEN "op" ELSE wpc[v]
    BY <1>0, <2>1
  <2> QED
    BY <2>1, <2>2, <2>3 DEF Bounded
<1>9. ASSUME NEW w \in Workers, Increment(w)
      PROVE  Bounded'
  <2>1. /\ UNCHANGED <<missed, lidx, size, epoch, addr, moved>>
        /\ mainPc' \in {mainPc, "exited"}
        /\ begun' = [begun EXCEPT ![w] = @ + 1]
        /\ exposed' \in {exposed, [exposed EXCEPT ![w] = @ + 1]}
        /\ wpc' = [wpc EXCEPT ![w] = "running"]
        /\ wpc[w] = "op" /\ w \in 1..Threads
    BY <1>9, WorkersAre DEF Increment, status, logger
  <2>2. \A v \in 1..Threads : wpc'[v] = IF v = w THEN "running" ELSE wpc[v]
    BY <1>0, <2>1
  <2>3. ASSUME NEW v \in 1..Threads
        PROVE  /\ begun'[v] = IF v = w THEN begun[v] + 1 ELSE begun[v]
               /\ exposed'[v] = exposed[v] \/ (v = w /\ exposed'[v] = exposed[v] + 1)
    BY <1>0, <2>1
  <2>4. ASSUME NEW v \in 1..Threads
        PROVE  /\ begun'[v] <= MaxOps
               /\ wpc'[v] = "op" => begun'[v] < MaxOps
               /\ wpc'[v] = "unborn" => begun'[v] = 0
               /\ exposed'[v] <= begun'[v]
    <3>1. /\ begun[v] \in Nat /\ exposed[v] \in Nat /\ exposed[v] <= begun[v]
          /\ begun[v] <= MaxOps /\ (wpc[v] = "op" => begun[v] < MaxOps)
          /\ wpc[v] = "unborn" => begun[v] = 0
      BY <1>0 DEF Bounded
    <3>2. CASE v = w
      BY <1>0, <2>1, <2>2, <2>3, <3>1, <3>2
    <3>3. CASE v # w
      BY <1>0, <2>2, <2>3, <3>1, <3>3
    <3> QED
      BY <3>2, <3>3
  <2> QED
    BY <2>1, <2>4 DEF Bounded
<1> QED
  BY <1>2, <1>3, <1>4, <1>5, <1>6, <1>7, <1>8, <1>9, NextIs DEF Main

(***************************************************************************)
(* Half-way through a row: what has been summed is not more than what the  *)
(* counters read stand for, and with what is exposed or still to be read   *)
(* not less than what was counted when the row began.                      *)
(***************************************************************************)
LEMMA SummedStep == Control /\ Counts /\ Bounded /\ Summed /\ [Next]_vars => Summed'
<1> SUFFICES ASSUME Control, Counts, Bounded, Summed, [Next]_vars
             PROVE  Summed'
  OBVIOUS
<1>0. /\ counter \in [1..Threads -> Nat] /\ begun \in [1..Threads -> Nat]
      /\ exposed \in [1..Threads -> Nat] /\ lidx \in Nat \ {0}
      /\ lsum \in Nat /\ rowFrom \in Nat
  BY DEF Control, Typed, Summed
<1>1. ASSUME UNCHANGED <<lsum, rowFrom, lphase, lidx, begun, exposed>>
      PROVE  Summed'
  BY <1>1 DEF Summed, Credit, Slack
<1>2. CASE Main \/ CounterFileMissing \/ UNCHANGED vars
  <2>1. CASE StartLogger
    <3>1. /\ lphase = "off" /\ lphase' = "await" /\ UNCHANGED <<lsum, rowFrom>>
      BY <2>1 DEF StartLogger, row, Control, Pushed
    <3> QED
      BY <3>1 DEF Summed
  <2>2. CASE PushLoad \/ PushStore \/ PushCount \/ MoveCounters \/ JoinWorkers \/ JoinLogger
             \/ CounterFileMissing \/ UNCHANGED vars
    BY <2>2, <1>1 DEF PushLoad, PushStore, PushCount, MoveCounters, JoinWorkers,
       JoinLogger, CounterFileMissing, vars, logger, ops, row
  <2> QED
    BY <1>2, <2>1, <2>2 DEF Main
<1>3. CASE ReadBit
  <2>1. lphase # "row" /\ UNCHANGED <<lphase, lsum, rowFrom>>
    BY <1>3 DEF ReadBit, row
  <2> QED
    BY <2>1 DEF Summed
<1>4. CASE EndScan \/ EndRow
  <2>1. PICK phase : Enter(phase)
    BY <1>4 DEF EndScan, EndRow
  <2>2. /\ lphase' = phase /\ lidx' = 1 /\ lsum' = 0 /\ UNCHANGED <<begun, exposed>>
        /\ rowFrom' = IF phase = "row" THEN Total(begun) ELSE 0
    BY <2>1 DEF Enter, ops
  <2>3. \A w \in 1..Threads : Credit'[w] = 0 /\ Slack'[w] = begun[w]
    BY <2>2 DEF Credit, Slack
  <2>4. Total(Credit') \in Nat
    BY <2>3, TotalMore
  <2>5. /\ Total(begun) \in Nat /\ Total(Slack') \in Nat
        /\ Total(begun) <= Total(Slack')
    <3>1. \A w \in 1..Threads :
              begun[w] \in Nat /\ Slack'[w] \in Nat /\ begun[w] <= Slack'[w]
      BY <1>0, <2>3
    <3> QED
      BY <3>1, TotalMore
  <2> QED
    BY <2>2, <2>4, <2>5 DEF Summed
<1>5. CASE ReadCounter
  <2>1. /\ lphase = "row" /\ lidx <= size /\ lsum' = lsum + counter[lidx] /\ lidx' = lidx + 1
        /\ UNCHANGED <<lphase, rowFrom, begun, exposed>>
    BY <1>5 DEF ReadCounter, ops
  <2>2. lidx \in 1..Threads
    <3>1. size \in 0..Threads /\ Threads \in Nat
      BY WorkersAre DEF Control, Typed
    <3> QED
      BY <1>0, <2>1, <3>1
  <2>3. PICK i \in 1..Threads : i = lidx
    BY <2>2
  <2>4. ASSUME NEW w \in 1..Threads
        PROVE  /\ Credit[w] = IF w < i THEN begun[w] ELSE 0
               /\ Credit'[w] = IF w < i + 1 THEN begun[w] ELSE 0
               /\ Slack[w] = IF w < i THEN exposed[w] ELSE begun[w]
               /\ Slack'[w] = IF w < i + 1 THEN exposed[w] ELSE begun[w]
    BY <2>1, <2>3 DEF Credit, Slack
  <2>5. /\ Credit[i] = 0 /\ Credit'[i] = begun[i]
        /\ Slack[i] = begun[i] /\ Slack'[i] = exposed[i]
    BY <2>4
  <2>6. \A w \in 1..Threads : /\ Credit[w] \in Nat /\ Credit'[w] \in Nat
                              /\ Slack[w] \in Nat /\ Slack'[w] \in Nat
                              /\ w # i => Credit[w] = Credit'[w] /\ Slack[w] = Slack'[w]
    BY <1>0, <2>4
  <2>7. /\ Total(Credit') = Total(Credit) + (Credit'[i] - Credit[i])
        /\ Total(Slack') = Total(Slack) + (Slack'[i] - Slack[i])
    BY <2>6, TotalPoint
  <2>8. Total(Credit) \in Nat /\ Total(Slack) \in Nat
    BY <2>6, TotalMore
  <2>9. /\ lsum <= Total(Credit) /\ rowFrom <= lsum + Total(Slack) /\ rowFrom <= Total(begun)
    BY <2>1 DEF Summed
  <2>10. /\ counter[i] <= begun[i] /\ begun[i] <= counter[i] + exposed[i]
         /\ counter[i] \in Nat /\ begun[i] \in Nat /\ exposed[i] \in Nat
    BY <1>0 DEF Counts, OpsTrue
  <2>11. lsum' <= Total(Credit') /\ rowFrom <= lsum' + Total(Slack') /\ lsum' \in Nat
    BY <1>0, <2>1, <2>3, <2>5, <2>7, <2>8, <2>9, <2>10
  <2> QED
    BY <1>0, <2>1, <2>9, <2>11 DEF Summed
<1>6. ASSUME NEW w, \/ Connect(w) \/ TimeUp(w) \/ EarlyReturn(w) \/ LoadStatus(w)
                    \/ StoreTrue(w) \/ StoreFalse(w) \/ Op(w) \/ Exit(w)
      PROVE  Summed'
  BY <1>6, <1>1
  DEF Connect, TimeUp, EarlyReturn, LoadStatus, StoreTrue, StoreFalse, Op, Exit,
      Becomes, logger, ops, row
<1>7. ASSUME NEW w \in Workers, Increment(w)
      PROVE  Summed'
  <2>1. /\ UNCHANGED <<lphase, lidx, lsum, rowFrom>>
        /\ begun' = [begun EXCEPT ![w] = @ + 1]
        /\ exposed' \in {exposed, [exposed EXCEPT ![w] = @ + 1]}
    BY <1>7 DEF Increment, logger, row
  <2>2. ASSUME NEW v \in 1..Threads
        PROVE  /\ begun[v] \in Nat /\ begun'[v] \in Nat /\ begun[v] <= begun'[v]
               /\ exposed[v] \in Nat /\ exposed'[v] \in Nat /\ exposed[v] <= exposed'[v]
    <3>1. begun[v] \in Nat /\ exposed[v] \in Nat
      BY <1>0
    <3>2. begun'[v] = IF v = w THEN begun[v] + 1 ELSE begun[v]
      BY <1>0, <2>1
    <3>3. exposed'[v] \in {exposed[v], IF v = w THEN exposed[v] + 1 ELSE exposed[v]}
      <4>1. CASE exposed' = exposed
        BY <4>1
      <4>2. CASE exposed' = [exposed EXCEPT ![w] = @ + 1]
        BY <1>0, <4>2
      <4> QED
        BY <2>1, <4>1, <4>2
    <3> QED
      BY <3>1, <3>2, <3>3
  <2>3. \A v \in 1..Threads :
            /\ Credit[v] \in Nat /\ Credit'[v] \in Nat /\ Credit[v] <= Credit'[v]
            /\ Slack[v] \in Nat /\ Slack'[v] \in Nat /\ Slack[v] <= Slack'[v]
    BY <2>1, <2>2 DEF Credit, Slack
  <2>4. /\ Total(Credit) \in Nat /\ Total(Credit') \in Nat /\ Total(Credit) <= Total(Credit')
        /\ Total(Slack) \in Nat /\ Total(Slack') \in Nat /\ Total(Slack) <= Total(Slack')
        /\ Total(begun) \in Nat /\ Total(begun') \in Nat /\ Total(begun) <= Total(begun')
    BY <2>2, <2>3, TotalMore
  <2>5. lphase = "row" =>
            lsum <= Total(Credit) /\ rowFrom <= lsum + Total(Slack) /\ rowFrom <= Total(begun)
    BY DEF Summed
  <2>6. lphase = "row" =>
            lsum <= Total(Credit') /\ rowFrom <= lsum + Total(Slack') /\ rowFrom <= Total(begun')
    BY <1>0, <2>4, <2>5
  <2> QED
    BY <2>1, <2>6 DEF Summed
<1> QED
  BY <1>2, <1>3, <1>4, <1>5, <1>6, <1>7, NextIs DEF Logger

\* Every step of the process keeps the inductive invariant.
LEMMA NextIInv == IInv /\ [Next]_vars => IInv'
  BY ControlStep, BitsStep, ScanStep, CountsStep, BoundedStep, SummedStep DEF IInv

\* The inductive invariant holds in every reachable state.
THEOREM Inductive == Spec => []IInv
  BY InitIInv, NextIInv, PTL DEF Spec

(***************************************************************************)
(* For every number of workers: unless an assignment to the unguarded      *)
(* vector was undone, the bit of each worker that is not assigning to it   *)
(* says whether the worker runs (workerConnectionStatus).                  *)
(***************************************************************************)
THEOREM StatusTrueHolds == Spec => []StatusTrue
<1>1. IInv => StatusTrue
  BY DEF IInv, Bits
<1> QED
  BY <1>1, Inductive, PTL

(***************************************************************************)
(* For every number of workers: the logger measures only when all of them  *)
(* have connected (CsvLogger::loggerTask), although it reads bit by bit    *)
(* while they are being set.                                               *)
(***************************************************************************)
THEOREM MeasuresConnectedHolds == Spec => []MeasuresConnected
<1>1. IInv => MeasuresConnected
  BY DEF IInv, Scan
<1> QED
  BY <1>1, Inductive, PTL

\* For every number of workers: it stops only when one of them has ended.
THEOREM StopsForReasonHolds == Spec => []StopsForReason
<1>1. IInv => StopsForReason
  BY DEF IInv, Scan
<1> QED
  BY <1>1, Inductive, PTL

(***************************************************************************)
(* For every number of workers and of operations: a counter is never more  *)
(* than what its worker counted, and less only by increments that met the  *)
(* move of workerOperationCounter to new storage.                          *)
(***************************************************************************)
THEOREM OpsTrueHolds == Spec => []OpsTrue
<1>1. IInv => OpsTrue
  BY DEF IInv, Counts
<1> QED
  BY <1>1, Inductive, PTL

(***************************************************************************)
(* For every number of workers and of operations: the variables keep their *)
(* types; the counters are moved at most once for each worker.             *)
(***************************************************************************)
THEOREM TypeOKHolds == Spec => []TypeOK
<1>1. IInv => TypeOK
  <2> SUFFICES ASSUME IInv PROVE TypeOK
    OBVIOUS
  <2>1. Typed /\ Bounded /\ Summed /\ OpsTrue /\ size \in 0..Threads
    BY DEF IInv, Control, Counts, Typed
  <2>2. Threads \in Nat /\ MaxOps \in Nat
    BY MonitorAssumption DEF MonitorAssumption
  <2>3. lidx \in 1..(Threads + 1) /\ epoch \in 0..Threads
    BY <2>1, <2>2 DEF Typed, Bounded
  <2>4. \A w \in 1..Threads : /\ counter[w] \in 0..MaxOps /\ moved[w] \in 0..MaxOps
                              /\ begun[w] \in 0..MaxOps /\ exposed[w] \in 0..MaxOps
                              /\ addr[w] \in 0..epoch
    BY <2>1, <2>2 DEF Typed, Bounded, OpsTrue
  <2>5. /\ counter \in [1..Threads -> 0..MaxOps] /\ moved \in [1..Threads -> 0..MaxOps]
        /\ begun \in [1..Threads -> 0..MaxOps] /\ exposed \in [1..Threads -> 0..MaxOps]
        /\ addr \in [1..Threads -> 0..epoch]
    BY <2>1, <2>4 DEF Typed, Bounded
  <2>6. \A f \in {counter, moved, begun, exposed} : f \in [1..Threads -> 0..MaxOps]
    BY <2>5
  <2>7. lsum \in 0..(Threads * MaxOps) /\ rowFrom \in 0..(Threads * MaxOps)
    <3>1. \A w \in 1..Threads : Credit[w] \in 0..MaxOps
      BY <2>2, <2>4 DEF Credit
    <3>2. Total(Credit) \in 0..(Threads * MaxOps) /\ Total(begun) \in 0..(Threads * MaxOps)
      BY <2>2, <2>4, <3>1, TotalBound
    <3>3. Threads * MaxOps \in Nat
      BY <2>2
    <3> QED
      BY <2>1, <3>2, <3>3 DEF Summed
  <2>8. lagg \in BOOLEAN /\ lost \in BOOLEAN /\ missed \in BOOLEAN
    BY <2>1 DEF Typed, Bounded
  <2> QED
    BY <2>1, <2>3, <2>5, <2>6, <2>7, <2>8 DEF Typed, TypeOK
<1> QED
  BY <1>1, Inductive, PTL

(***************************************************************************)
(* For every number of workers and of operations: the aggregate in a row   *)
(* of the log (getAggregateOpsCounter), summed while the workers go on, is *)
(* not less than what was counted when the summing began, but for the      *)
(* increments that met a move, and not more than what is counted now.      *)
(***************************************************************************)
THEOREM RowsTrueHolds == Spec => []RowsTrue
<1>1. IInv => RowsTrue
  <2> SUFFICES ASSUME IInv, lphase = "row", lidx > size
               PROVE  rowFrom <= lsum + Total(exposed) /\ lsum <= Total(begun)
    BY DEF RowsTrue
  <2>1. /\ begun \in [1..Threads -> Nat] /\ exposed \in [1..Threads -> Nat]
        /\ size \in Nat /\ lidx \in Nat /\ lsum \in Nat /\ rowFrom \in Nat
    BY DEF IInv, Control, Typed, Summed
  <2>2. lsum <= Total(Credit) /\ rowFrom <= lsum + Total(Slack)
    BY DEF IInv, Summed
  <2>3. \A w \in 1..Threads : ~ w < lidx => begun[w] = 0
    <3>1. \A w \in 1..Threads : w > size => wpc[w] = "unborn"
      BY <2>1 DEF IInv, Control, Born
    <3> QED
      BY <2>1, <3>1 DEF IInv, Bounded
  <2>4. \A w \in 1..Threads : /\ Credit[w] \in Nat /\ Credit[w] <= begun[w]
                              /\ Slack[w] \in Nat /\ Slack[w] <= exposed[w]
                              /\ begun[w] \in Nat /\ exposed[w] \in Nat
    BY <2>1, <2>3 DEF Credit, Slack
  <2>5. /\ Total(Credit) \in Nat /\ Total(begun) \in Nat /\ Total(Credit) <= Total(begun)
        /\ Total(Slack) \in Nat /\ Total(exposed) \in Nat /\ Total(Slack) <= Total(exposed)
    BY <2>4, TotalMore
  <2> QED
    BY <2>1, <2>2, <2>5
<1> QED
  BY <1>1, Inductive, PTL
=============================================================================
