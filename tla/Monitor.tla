------------------------------ MODULE Monitor ------------------------------
(***************************************************************************)
(* A server benchmark as a process of threads: the main thread that spawns *)
(* the workers and joins them, the workers, and the CsvLogger thread, all  *)
(* over the vector common::workerConnectionStatus.                         *)
(*                                                                         *)
(* The vector is a std::vector<bool> and nothing guards it.  Its bits      *)
(* share one machine word, so each assignment to a bit is a load of the    *)
(* word and a later store of all of it; both are steps here.  The logger   *)
(* reads bit by bit.  Nothing guards common::workerOperationCounter        *)
(* either: the main thread's push_back may move it to new storage while    *)
(* the workers already started increment their elements, and the logger    *)
(* sums it element by element.                                             *)
(*                                                                         *)
(* In the threaded benchmarks (pingPong, batch, batchSelectiveCompletion,  *)
(* rma) the workers are threads.  In the inline ones the only worker is    *)
(* the main thread itself; pingPongInject starts the logger before it      *)
(* connects, the others (inject, the large buffers, RMA with selective     *)
(* completions) when the status is already true.  saturationLatency has no *)
(* logger, and one worker more that has neither status nor counter.        *)
(***************************************************************************)
EXTENDS Integers, FiniteSetsExt

CONSTANTS
    Threads,      \* --threads
    MaxOps,       \* bound: operations of a worker within the run time
    MayFail       \* TRUE: operations, and readings of a counter file, may fail

ASSUME MonitorAssumption ==
    /\ Threads \in Nat \ {0}
    /\ MaxOps \in Nat \ {0}
    /\ MayFail \in BOOLEAN

VARIABLES
    style,        \* "threads", "inline", "late", "saturation": the kinds above
    word,         \* the bits of workerConnectionStatus
    size,         \* its size()
    mainPc,       \* where the main thread is
    mainReg,      \* the word as its push_back loaded it
    wpc,          \* where each worker is
    reg,          \* the word as each worker loaded it
    lphase,       \* the logger's loop: "off", "await", "measure", "row", "done"
    lidx,         \* the bit, or the counter, the logger reads next
    lagg,         \* its aggregateState
    counter,      \* workerOperationCounter, the storage in use
    moved,        \* the storage a push_back fills to replace it
    epoch,        \* how often it was replaced: which storage is in use
    addr,         \* the storage of which each worker holds an address
    lsum,         \* the logger's aggregateOps
    lost,         \* ghost: a store has undone another thread's assignment
    missed,       \* ghost: a worker ended before the logger saw all connected
    begun,        \* ghost: operations each worker has counted
    exposed,      \* ghost: those counted while push_back was moving the counters
    rowFrom       \* ghost: operations counted when the logger began to sum

status == <<word, size, reg, lost>>
logger == <<lphase, lidx, lagg>>
storage == <<counter, moved, epoch>>
ops == <<addr, begun, exposed>>
row == <<lsum, rowFrom>>
vars == <<style, mainPc, mainReg, wpc, missed, status, logger, storage, ops, row>>

Logged == style # "saturation"

\* The workers with a status and a counter, and the latency worker.
Workers == IF style \in {"threads", "saturation"} THEN 1..Threads ELSE {1}

LatencyWorker == Threads + 1

AllWorkers == IF Logged THEN Workers ELSE Workers \cup {LatencyWorker}

MainPcs == {"load", "store", "count", "move", "startLogger", "joinWorkers",
            "joinLogger", "done", "exited"}

\* Before the status is true, while it is, and after.
WorkerPcs == {"unborn", "connect", "loadTrue", "storeTrue", "running", "op",
              "loadFalse", "storeFalse", "ended", "returned"}

Words == [1..Threads -> BOOLEAN]

AllFalse == [w \in 1..Threads |-> FALSE]

Zeros == [w \in 1..Threads |-> 0]

Init ==
    /\ style \in {"threads", "inline", "late", "saturation"}
    /\ word = AllFalse
    /\ size = 0
    /\ mainPc = "load"
    /\ mainReg = AllFalse
    /\ wpc = [w \in 1..LatencyWorker |-> "unborn"]
    /\ reg = [w \in 1..Threads |-> AllFalse]
    /\ lphase = "off"
    /\ lidx = 1
    /\ lagg = TRUE
    /\ counter = Zeros
    /\ moved = Zeros
    /\ epoch = 0
    /\ addr = Zeros
    /\ lsum = 0
    /\ lost = FALSE
    /\ missed = FALSE
    /\ begun = Zeros
    /\ exposed = Zeros
    /\ rowFrom = 0

\* exit(1), or std::terminate, has not ended the process.
Alive == mainPc # "exited"

\* The store of a loaded word r with bit w set to b, over the word as it is.
StoreBit(r, w, b) ==
    /\ word' = [r EXCEPT ![w] = b]
    /\ lost' = (lost \/ \E v \in Workers \ {w} : r[v] # word[v])

\* std::vector doubles its storage when it is full: with the first element
\* there is nothing to move.
Full(n) == \E k \in 0..n : n = 2^k

Total(f) == MapThenSumSet(LAMBDA w : f[w], 1..Threads)

-----------------------------------------------------------------------------
(***************************************************************************)
(* The main thread: push_back(false), push_back(0) and a new thread for    *)
(* each worker, logger.start(), join of the workers, logger.stop().        *)
(***************************************************************************)
PushLoad ==
    /\ mainPc = "load"
    /\ mainReg' = word
    /\ mainPc' = "store"
    /\ UNCHANGED <<style, wpc, missed, status, logger, storage, ops, row>>

PushStore ==
    /\ mainPc = "store"
    /\ StoreBit(mainReg, size + 1, FALSE)
    /\ size' = size + 1
    /\ mainPc' = "count"
    /\ UNCHANGED <<style, mainReg, wpc, missed, reg, logger, storage, ops, row>>

\* Variant, used by no specification: the loop makes one worker too many.
SpawnOneMore ==
    /\ wpc' = [wpc EXCEPT ![size] = "connect"]
    /\ mainPc' = IF size \in Workers THEN "load" ELSE "startLogger"

\* The counter of worker size is there, and its thread starts; with the last
\* one also the latency worker's.
Spawn ==
    LET last == size + 1 \notin Workers
        born == {size} \cup IF last THEN AllWorkers \ Workers ELSE {}
    IN /\ wpc' = [w \in 1..LatencyWorker |-> IF w \in born THEN "connect" ELSE wpc[w]]
       /\ mainPc' = CASE ~ last -> "load"
                      [] last /\ Logged -> "startLogger"
                      [] OTHER -> "joinWorkers"

\* push_back(0) of worker size: there is room for it, or the counters are
\* copied first ...
PushCount ==
    /\ mainPc = "count"
    /\ IF Full(size - 1)
       THEN /\ mainPc' = "move"
            /\ moved' = counter
            /\ UNCHANGED wpc
       ELSE /\ Spawn
            /\ UNCHANGED moved
    /\ UNCHANGED <<style, mainReg, missed, status, logger, counter, epoch, ops, row>>

\* Variant, used by no specification: the new storage starts from nothing.
MoveCountersEmpty ==
    /\ mainPc = "move"
    /\ counter' = Zeros
    /\ epoch' = epoch + 1
    /\ Spawn
    /\ UNCHANGED <<style, mainReg, missed, status, logger, moved, ops, row>>

\* ... and the copy then takes the place of the old storage, which is freed.
MoveCounters ==
    /\ mainPc = "move"
    /\ counter' = moved
    /\ epoch' = epoch + 1
    /\ Spawn
    /\ UNCHANGED <<style, mainReg, missed, status, logger, moved, ops, row>>

StartLogger ==
    /\ mainPc = "startLogger"
    /\ style = "late" => wpc[1] = "running"
    /\ lphase' = "await"
    /\ mainPc' = "joinWorkers"
    /\ UNCHANGED <<style, mainReg, wpc, missed, status, lidx, lagg, storage, ops, row>>

JoinWorkers ==
    /\ mainPc = "joinWorkers"
    /\ \A w \in AllWorkers : wpc[w] \in {"ended", "returned"}
    /\ mainPc' = IF Logged THEN "joinLogger" ELSE "done"
    /\ UNCHANGED <<style, mainReg, wpc, missed, status, logger, storage, ops, row>>

JoinLogger ==
    /\ mainPc = "joinLogger"
    /\ lphase = "done"
    /\ mainPc' = "done"
    /\ UNCHANGED <<style, mainReg, wpc, missed, status, logger, storage, ops, row>>

Main ==
    \/ PushLoad \/ PushStore \/ PushCount \/ MoveCounters
    \/ StartLogger \/ JoinWorkers \/ JoinLogger

(***************************************************************************)
(* A worker: init and sync, status = true, the benchmark, status = false.  *)
(***************************************************************************)
MayStep(w) ==
    /\ Alive
    /\ \/ style \in {"threads", "saturation"}
       \/ mainPc = "joinWorkers"
       \/ style = "late" /\ mainPc = "startLogger" /\ wpc[w] # "running"

Becomes(w, pc) ==
    /\ wpc' = [wpc EXCEPT ![w] = pc]
    /\ UNCHANGED <<style, mainReg, logger, storage, row>>

\* Variant, used by no specification: the status is not set.
ConnectOnly(w) ==
    /\ wpc[w] = "connect"
    /\ Becomes(w, "running")
    /\ UNCHANGED <<mainPc, missed, status, ops>>

Connect(w) ==
    /\ wpc[w] = "connect"
    /\ Becomes(w, IF w \in Workers THEN "loadTrue" ELSE "running")
    /\ UNCHANGED <<mainPc, missed, status, ops>>

LoadStatus(w) ==
    /\ wpc[w] \in {"loadTrue", "loadFalse"}
    /\ reg' = [reg EXCEPT ![w] = word]
    /\ Becomes(w, IF wpc[w] = "loadTrue" THEN "storeTrue" ELSE "storeFalse")
    /\ UNCHANGED <<mainPc, missed, word, size, lost, ops>>

StoreTrue(w) ==
    /\ wpc[w] = "storeTrue"
    /\ StoreBit(reg[w], w, TRUE)
    /\ Becomes(w, "running")
    /\ UNCHANGED <<mainPc, missed, size, reg, ops>>

\* workerOperationCounter[w]++: the address of the element ...
Op(w) ==
    /\ w \in Workers
    /\ wpc[w] = "running"
    /\ begun[w] < MaxOps
    /\ addr' = [addr EXCEPT ![w] = epoch]
    /\ Becomes(w, "op")
    /\ UNCHANGED <<mainPc, missed, status, begun, exposed>>

\* ... and the increment of what is there.  If that is storage already freed
\* the effect is undefined: the process is killed, or nothing here changes.
Increment(w) ==
    /\ wpc[w] = "op"
    /\ IF addr[w] = epoch
       THEN counter' = [counter EXCEPT ![w] = @ + 1] /\ UNCHANGED mainPc
       ELSE mainPc' \in {mainPc, "exited"} /\ UNCHANGED counter
    /\ begun' = [begun EXCEPT ![w] = @ + 1]
    /\ exposed' = IF addr[w] # epoch \/ mainPc = "move"
                  THEN [exposed EXCEPT ![w] = @ + 1] ELSE exposed
    /\ wpc' = [wpc EXCEPT ![w] = "running"]
    /\ UNCHANGED <<style, mainReg, logger, moved, epoch, row, missed, status, addr>>

\* Variant, used by no specification: the status is not cleared.
TimeUpOnly(w) ==
    /\ wpc[w] = "running"
    /\ w \in Workers => begun[w] > 0
    /\ Becomes(w, "ended")
    /\ UNCHANGED <<mainPc, missed, status, ops>>

\* The run time is tested at the foot of the loop.
TimeUp(w) ==
    /\ wpc[w] = "running"
    /\ w \in Workers => begun[w] > 0
    /\ Becomes(w, IF w \in Workers THEN "loadFalse" ELSE "ended")
    /\ UNCHANGED <<mainPc, missed, status, ops>>

StoreFalse(w) ==
    /\ wpc[w] = "storeFalse"
    /\ StoreBit(reg[w], w, FALSE)
    /\ Becomes(w, "ended")
    /\ missed' = (missed \/ lphase \in {"off", "await"})
    /\ UNCHANGED <<mainPc, size, reg, ops>>

\* "if (ret) return;": the status stays true.  The inline worker's return
\* destroys a CsvLogger whose thread is joinable: std::terminate.
EarlyReturn(w) ==
    /\ MayFail
    /\ wpc[w] = "running"
    /\ Becomes(w, "returned")
    /\ mainPc' = IF style \in {"inline", "late"} THEN "exited" ELSE mainPc
    /\ UNCHANGED <<missed, status, ops>>

\* A failed getNTxCompletion: exit(1).
Exit(w) ==
    /\ MayFail
    /\ w \in Workers
    /\ wpc[w] = "running"
    /\ mainPc' = "exited"
    /\ UNCHANGED <<style, mainReg, wpc, missed, status, logger, storage, ops, row>>

Worker(w) ==
    /\ MayStep(w)
    /\ \/ Connect(w) \/ LoadStatus(w) \/ StoreTrue(w)
       \/ w \in Workers /\ (Op(w) \/ Increment(w))
       \/ TimeUp(w) \/ StoreFalse(w)
       \/ EarlyReturn(w) \/ Exit(w)

-----------------------------------------------------------------------------
\* Variant, used by no specification: the last worker speaks for all.
ReadBitLast ==
    /\ Alive
    /\ lphase \in {"await", "measure"}
    /\ lidx <= size
    /\ lagg' = word[lidx]
    /\ lidx' = lidx + 1
    /\ UNCHANGED <<style, mainPc, mainReg, wpc, missed, status, lphase, storage, ops, row>>

(***************************************************************************)
(* loggerTask: getAggregateConnectionStatus, one bit at a time ...         *)
(***************************************************************************)
ReadBit ==
    /\ Alive
    /\ lphase \in {"await", "measure"}
    /\ lidx <= size
    /\ lagg' = (lagg /\ word[lidx])
    /\ lidx' = lidx + 1
    /\ UNCHANGED <<style, mainPc, mainReg, wpc, missed, status, lphase, storage, ops, row>>

\* The logger begins the loop over the vector of its next phase.
Enter(phase) ==
    /\ lphase' = phase
    /\ lidx' = 1
    /\ lagg' = TRUE
    /\ lsum' = 0
    /\ rowFrom' = IF phase = "row" THEN Total(begun) ELSE 0
    /\ UNCHANGED <<style, mainPc, mainReg, wpc, missed, status, storage, ops>>

\* Variant, used by no specification: one look, and no wait.
EndScanAtOnce ==
    /\ Alive
    /\ lphase \in {"await", "measure"}
    /\ lidx > size
    /\ Enter(IF lphase = "await" THEN "measure" ELSE IF lagg THEN "row" ELSE "done")

(***************************************************************************)
(* ... until all are connected, and then, a row a second, until one is     *)
(* not.                                                                    *)
(***************************************************************************)
EndScan ==
    /\ Alive
    /\ lphase \in {"await", "measure"}
    /\ lidx > size
    /\ Enter(CASE lphase = "await" /\ ~ lagg -> "await"
               [] lphase = "await" /\ lagg -> "measure"
               [] lphase = "measure" /\ lagg -> "row"
               [] OTHER -> "done")

\* Variant, used by no specification: it takes the first counter for all.
ReadCounterFirst ==
    /\ Alive
    /\ lphase = "row"
    /\ lidx <= size
    /\ lsum' = lsum + counter[1]
    /\ lidx' = lidx + 1
    /\ UNCHANGED <<style, mainPc, mainReg, wpc, missed, status, lphase, lagg,
                   storage, ops, rowFrom>>

\* getAggregateOpsCounter.
ReadCounter ==
    /\ Alive
    /\ lphase = "row"
    /\ lidx <= size
    /\ lsum' = lsum + counter[lidx]
    /\ lidx' = lidx + 1
    /\ UNCHANGED <<style, mainPc, mainReg, wpc, missed, status, lphase, lagg,
                   storage, ops, rowFrom>>

EndRow ==
    /\ Alive
    /\ lphase = "row"
    /\ lidx > size
    /\ Enter("measure")

\* getCounter of a file that is not there: std::stoull is given a buffer that
\* nothing was written to, and may throw, which ends the process.
CounterFileMissing ==
    /\ MayFail
    /\ Alive
    /\ lphase \in {"measure", "row"}
    /\ lidx = 1
    /\ mainPc' = "exited"
    /\ UNCHANGED <<style, mainReg, wpc, missed, status, logger, storage, ops, row>>

Logger == ReadBit \/ EndScan \/ ReadCounter \/ EndRow

Terminated == mainPc \in {"done", "exited"} /\ UNCHANGED vars

Next ==
    \/ Main
    \/ Logger \/ CounterFileMissing
    \/ \E w \in AllWorkers : Worker(w)
    \/ Terminated

Spec == Init /\ [][Next]_vars

\* Every thread is scheduled, clients connect, and the run time passes.
FairSpec ==
    /\ Spec
    /\ WF_vars(Main)
    /\ WF_vars(Logger)
    /\ \A w \in 1..LatencyWorker : WF_vars(w \in AllWorkers /\ Worker(w))

-----------------------------------------------------------------------------
TypeOK ==
    /\ style \in {"threads", "inline", "late", "saturation"}
    /\ word \in Words
    /\ size \in 0..Threads
    /\ mainPc \in MainPcs
    /\ mainReg \in Words
    /\ wpc \in [1..LatencyWorker -> WorkerPcs]
    /\ reg \in [1..Threads -> Words]
    /\ lphase \in {"off", "await", "measure", "row", "done"}
    /\ lidx \in 1..(Threads + 1)
    /\ lagg \in BOOLEAN
    /\ epoch \in 0..Threads
    /\ \A f \in {counter, moved, begun, exposed} : f \in [1..Threads -> 0..MaxOps]
    /\ addr \in [1..Threads -> 0..epoch]
    /\ lsum \in 0..(Threads * MaxOps)
    /\ rowFrom \in 0..(Threads * MaxOps)
    /\ lost \in BOOLEAN
    /\ missed \in BOOLEAN

HasConnected(w) ==
    wpc[w] \in {"running", "op", "loadFalse", "storeFalse", "ended", "returned"}

(***************************************************************************)
(* As long as no assignment was undone, the bit of every worker that is    *)
(* not in the middle of one is what it last wrote.                         *)
(***************************************************************************)
StatusTrue == ~ lost =>
    \A w \in 1..Threads : word[w] <=> HasConnected(w) /\ wpc[w] # "ended"

(***************************************************************************)
(* Then the rows of the log start only when every worker has connected     *)
(* (CsvLogger.cpp:82) ...                                                  *)
(***************************************************************************)
MeasuresConnected ==
    ~ lost /\ lphase \in {"measure", "row", "done"} =>
        \A w \in Workers : HasConnected(w)

(***************************************************************************)
(* ... and stop only when some worker's run is over (CsvLogger.cpp:124):   *)
(* no row is missing while all of them run.                                *)
(***************************************************************************)
StopsForReason ==
    ~ lost /\ lphase = "done" => \E w \in Workers : wpc[w] = "ended"

(***************************************************************************)
(* A counter is the number of operations its worker has counted, less at   *)
(* most those whose increment met push_back moving the vector              *)
(* (SendRecvServer.cpp:24, :53): an increment between two moves is kept.   *)
(***************************************************************************)
OpsTrue ==
    \A w \in 1..Threads :
        /\ counter[w] <= begun[w]
        /\ begun[w] <= counter[w] + exposed[w]

(***************************************************************************)
(* So the aggregate in a row of the log (CsvLogger.cpp:136), summed while  *)
(* the workers go on, is not less than what had been counted when the      *)
(* summing began and not more than what is counted now.                    *)
(***************************************************************************)
RowsTrue ==
    lphase = "row" /\ lidx > size =>
        /\ rowFrom <= lsum + Total(exposed)
        /\ lsum <= Total(begun)

(***************************************************************************)
(* The benchmark ends for good, unless it has a logger and a bit was lost, *)
(* a worker was over before the logger saw all of them connected, or a     *)
(* worker returned early.  There is no fourth reason.                      *)
(***************************************************************************)
Ends == <>(mainPc \in {"done", "exited"})

EndsUnlessDesync ==
    \/ Ends
    \/ Logged /\ <>(lost \/ missed \/ \E w \in Workers : wpc[w] = "returned")
=============================================================================
