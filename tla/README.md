# efa-libfabric-bench in TLA+

`efa-bench` measures the throughput and latency of a libfabric provider (AWS EFA,
or `sockets`, the default) between a server and a client process. `libefa` is the
library under it: a C++ wrapper (`Node`, `Client`, `Server`) over `shared.c`, which
descends from fabtests. The numbers it prints mean something only if its
completion accounting is right, if its two processes stay in step, and if it ends.
That is what these modules are about.

Contents: the inventory of the code, the modules and how they correspond to it,
the runs, bounds and fairness, what is proved and how, what the
checks found, what is left out, and the plan for extending the work.

## 1. Inventory

Paths are relative to `src/`; `shared.c` is `libefa/src/libefa/ftlib/shared.c`, and
`SendRecvServer.cpp` and the like are in `efa-bench/src/`.

| Component | State | Operations | Hard behaviour | What makes it correct |
|---|---|---|---|---|
| Transmit counters and CQ (`shared.c` 1972-2158, 2449-2690, 2824; `Node.cpp`) | `tx_seq`, `tx_cq_cntr` of the `ConnectionContext`; the provider's queue and CQ | `FT_POST`, `ft_sendmsg`, inject and selective posts, `ft_progress`, `ft_spin_for_comp`, `ft_cq_readerr`, `fiCqRead` | `-FI_EAGAIN`; completions read behind the caller's back; a wait for *equality* on unsigned counters; error entries that are counted too | `tx_seq - tx_cq_cntr` is what is outstanding; nobody waits for more than can come |
| Batch send server (`SendRecvServer::_batchWorker`) | `outstandingOps` | post, read completions, drain | a count of its own beside the counters; two endpoints with different retry paths | window kept, exact drain, exact statistics, it ends |
| Counting workers (`RmaServer::_batchWorker`, both `batchLargeBuffer`, `_trafficGenerator`) | `opsCounter`, `numCqObtained` | post, wait for `cqTry`, drain | counted before posted; results overwritten | the same |
| Selective and inject workers | `numPendingRequests` | signalled and silent posts, wait | self-counted completions; no drain | counters keep a meaning, signals keep coming |
| Threads and logger (`SendRecvServer::batch` ..., `saturationLatency`, `CsvLogger`) | `workers`, `workerConnectionStatus`, `workerOperationCounter`, the logger's thread | spawn, status true/false, count, scan, sum, join | an unguarded `vector<bool>`; counters that move while they are incremented; early returns; `exit(1)` | rows only while all workers run, with sums that were once true; the process ends |
| Session (`ft_exchange_keys`, `ft_sync`, `ft_rx`, the client and server workers) | receive counters, messages on their way, TCP connection | address and key exchange, sync, tx/rx, RMA | untyped messages; one posted receive; two clocks; ignored failures; datagram loss | every call gets its own message; exchanges are meetings; both sides end |
| Resources (`ft_open_fabric_res`, `ft_alloc_*`, `ft_free_res`) | handles | open, allocate, free | a failure half-way, then the destructor | everything opened is closed, and never before what depends on it |
| Out-of-band sockets (`ft_init_oob`, `ft_sock_*`) | listener, connection | listen, accept, connect, send, recv | descriptor numbers shared by all threads; partial transfers | a connection belongs to one node; a FIFO of whole messages |
| Multi-receive (`shared.c` 4012-4134, `SendRecvClient::multiRecvBatch`) | chunk contexts, a count local to each call | allocate, wait, repost | several completions per buffer; calls that end inside a chunk; 64 entries read into one | a chunk is reposted exactly once per use, and the count is right |
| Tags (`--tagged`, `ft_tag_is_valid`) | the two counters | number, match, test | two processes count on their own, also failed calls | a message is awaited under the number it carries |
| Flags, hints, dispatch; CSV rows; HMEM; atomics, CM and data verification of fabtests; scripts | static or none | - | - | - |

How they interact. `main` builds a `BenchmarkNode`, which dispatches on
`--mode` and `--benchmark_type` to a method of `SendRecvServer`, `SendRecvClient`,
`RmaServer` or `RmaClient`. The threaded benchmarks start one worker thread
per `--threads`, each with its own `Node` (endpoint, CQs, `ConnectionContext`) on its
own port: workers share nothing but the three vectors in `Common.h`. The server
process also runs the `CsvLogger` thread, which learns of the workers from those
vectors alone. A worker and its peer share the fabric and, with provider `efa`, a TCP
connection that carries addresses and sync bytes; with every other provider these
travel over the fabric. The asynchronous party everywhere is the provider: it
completes, fails, delivers and loses on its own.

Two facts about the build matter for the models. It is a CMake `Debug` build
without `-O`, so the logger's empty loop on unguarded data is executed as written
and not hoisted; and `std::vector<bool>` packs its bits, so that assigning
one of them is a load of a word followed by a store.

The hazards this gives, each with its line, are the `hazards` of `PROJECT.json`.

## 2. Modules

| Module | What it models | Composes |
|---|---|---|
| `TxContext` | the two transmit counters, the provider's queue and CQ, and the pieces of `FT_POST`, `ft_progress`, `ft_spin_for_comp` and `ft_cq_readerr` as action operators | - |
| `FlowControl` | the abstract promise of every batch benchmark | - |
| `BatchWorker` | `SendRecvServer::_batchWorker`, both endpoints | `TxContext`; implements `FlowControl` |
| `WindowWorker` | `RmaServer::_batchWorker`, `RmaServer::batchLargeBuffer`, `SendRecvServer::batchLargeBuffer`, `_trafficGenerator` | `TxContext`; implements `FlowControl` |
| `SelectiveWorker` | `_batchSelectiveCompletionWorker`, `RmaServer::batchSelectiveCompletion`, `RmaServer::inject` | `TxContext` |
| `Monitor` | main thread, workers and `CsvLogger` over `workerConnectionStatus` and `workerOperationCounter` | - |
| `Session` | one client worker and one server worker, from `Node::init` to the end of their processes | - |
| `ResourceTree` | what libfabric asks of its users: objects are opened after what they are made from and closed before it | - |
| `Lifecycle` | the nodes of one process from `Node::Node` to `Node::~Node`, each in a thread of its own | implements `ResourceTree` |
| `MultiRecv` | the client that receives many messages into two chunks of one buffer | - |
| `BatchWorkerProofs`, `WindowWorkerProofs`, `SelectiveWorkerProofs`, `MonitorProofs`, `SessionProofs`, `LifecycleProofs`, `MultiRecvProofs` | theorems and proofs | the module each is named after |
| `MeetingProofs` | theorems and proofs: the conversation of the two sides | `SessionProofs`, `Session` |

Each worker carries a `pc`: a step is what happens between two points at which
the provider could do something the worker would notice. Where a module holds several
workers (`kind`, `style`), they are the same loop in the code up to the
differences the guards spell out, and the initial state chooses one. An
operator called a *Variant* in its comment is a plausible mistake in the operator
that follows it. It belongs to no specification; substituting it for the original
shows that a property notices.

### TxContext
`tx_seq` and `tx_cq_cntr` are the fields of `ConnectionContext`. Operations are anonymous:
what is left of the provider is four numbers, `inflight` (will write an entry),
`quiet` (writes one only on failure), `cq` and `cqErr`. `PostAccepted`,
`PostSilent`, `PostRefused` and `PostError` are the outcomes of a post with the counter
updates that follow; `Progress` is one `ft_progress`; `SpinAgain` and `SpinDone`
are the iterations of `ft_spin_for_comp` with timeout -1. The latter's
`total - *cur > 0` is on unsigned numbers: it is an inequality test, and the model
compares with `#`, not `<`. A spin on an empty CQ changes nothing and is no step.

An operation keeps its place in the endpoint (`TxDepth`, that is `tx_attr->size`) until its
entry is read; with `EarlyAgain` the provider may also refuse a post sooner, but only
while something is outstanding.

### BatchWorker
`post` is the head of the loop. With `fiMore` (rdm endpoint) `ft_sendmsg` returns
`-FI_EAGAIN` to the worker, which reads completions itself (`again`); without it (dgram)
`FT_POST` does (`progress`), and `outstandingOps` is not told. `full` is the
read loop on a full batch, `drain` the last `getNTxCompletion`. `ReadMax` is the 10
entries of `fiCqRead`: entries are `FI_CQ_FORMAT_CONTEXT`, so ten of them fit in
the `fi_cq_err_entry` the caller passes. (With `--tagged` the CQ format is `TAGGED`, and ten
entries of 48 bytes do not fit; the model is of the run without it.)

### WindowWorker
The head of the loop counts an operation before posting it (`BeginRound`), then
posts through `FT_POST`, waits for `cqTry` completions when its own count says that
`Batch` are missing, and drains. The RMA workers overwrite the result of the post.
The ghost `drift` counts the completions these workers rely on although they will
not come.

### SelectiveWorker
`Signals` is `numPendingRequests == cqTry - 1`. Every other operation is counted as
completed when posted. Ghosts: `lastSignal`, when a completion was last asked
for, and `overcount`, the error entries of operations already counted.

### Monitor
`word` is the storage of `workerConnectionStatus`. `LoadStatus` followed by `StoreTrue` or
`StoreFalse`, and `PushLoad` followed by `PushStore`, are the assignments and the
`push_back` of the main thread while earlier workers already run. `EarlyReturn` leaves
the status true; `Exit` is `exit(1)`.

`counter` is the storage of `workerOperationCounter`. `workerOperationCounter[w]++` is `Op`,
which forms the address of the element in the storage in use (`epoch`), and `Increment`.
`PushCount` copies the counters when the vector is full (`Full`: the capacity doubles),
`MoveCounters` puts the copy in the place of the old storage. An increment between the two is
lost, one through an address taken before them goes to freed memory: nothing here
changes, or the process is killed.

The logger scans the bits (`ReadBit`, `EndScan`), and for a row sums the counters
(`ReadCounter`, `EndRow`). `CounterFileMissing` is `getCounter` on a file that is not
there. `style` tells the threaded benchmarks from those whose worker is
the main thread (`inline`, and `late` where the logger starts only after the status
is true) and from `saturationLatency`, which has no logger and one worker more, without
a status or a counter.

Ghosts: `lost`, a store has undone another thread's assignment; `missed`, a worker ended
before the logger began to measure; `begun`, what a worker has counted; `exposed`,
the part of it that met a move; `rowFrom`, what had been counted when a sum began.

### Session
Each side goes through the stages `boot`, `addr`, `keys` (RMA only), `sync`, `loop`,
`last`, `closed`, `exited`; `step` is the call it is in. `rx()` is two actions,
`Receive` (`ft_get_rx_comp`) and `PostRx` (`ft_post_rx`), because the time between
them is one without a posted receive. `ReceiveFails` counts the failed receive as the
code does and leaves it unposted, after which the next `rx()` finds
`rx_cq_cntr = rx_seq` and returns without a message. What each loop exchanges with the
peer is in `FirstStep`, `AfterSend` and `AfterReceive`; the completions of the sender's
own operations are the business of the worker modules.

`mode` is `plain`, `tagged` or `writedata`. With `--tagged` a message carries its sender's
`tx_seq` (`Tag`), a receive takes the message with the number it was posted for
(`Matching`), and `ft_tag_is_valid` tests the tag of the completion: as every `Node` sets
`FT_OPT_BW` (`Node.cpp:11`), not for equality but for being less than `window_size` (`WindowSize`, 64)
off. So that the numbers are equal is a property (`TagsAgree`), which the test in the code would
not show. Tags are `uint64_t`, which no session exhausts. `ft_post_tx_selective_comp` alone sends
without a tag. With `--rma_op=writedata` the data word of an operation takes a receive at the
client (`FI_RX_CQ_DATA`), so an in-band client takes the first of them for
the answer to its last sync: `Unanswered` is that exception, stated where a property needs it.

`OverTcp` sends addresses and syncs over TCP, an address in two parts (`Parts`,
`NextPart`): the socket does not block, and `ft_sock_send` and `ft_sock_recv` loop.
`timeout` is `ctx->timeout`, which `FT_POST` sets to 0 and does not restore when it
fails; a later receive of that side may then give up (`ReceiveTimesOut`).
`MaxFaults` bounds the failed calls (`faults`) and lost messages (`losses`) together.

### MultiRecv
`rx_size` and `comp_per_buf` are computed as `alloc_ep_res_multi_recv` does. `posted` is the
queue of chunks at the provider, the first being filled; the last message that fits
completes it. `apart` is the provider's choice to report `FI_MULTI_RECV` with that
message or on an entry of its own. `Read` is one round of `wait_for_multi_recv_completion`;
`ReadTooMany` the case in which `fi_cq_sread`, which is asked for 64 entries and given
room for one, returns more. `postMultiRecv`'s result is ignored, so a chunk that a failed
call did not post again is `forgotten`. The module models the code as it would run:
no benchmark name selects `multiRecvBatch`, the CQ it waits on is created with
`FI_WAIT_NONE`, and `ft_free_res` releases neither `mr_multi_recv` nor the buffers.

### Lifecycle
`stage` is where a node is; `held` its open fabric resources. `SetUp` is the order of
`ft_init_fabric`, of which any step may fail (`ObtainFails`, `OobFails`,
`ConnectFails`, the second outcomes of `Enable` and others), and `TearDown` that of
`ft_free_res`. `table` is the process' descriptor table, from which the threads'
`socket` and `accept` take numbers. `caller` says who uses the node: a benchmark
worker, which ignores the result of `init()`; a user of the library who looks at it and
destroys the node; or `--fabinfo`. A worker whose endpoint was never opened runs into a NULL
handle (`Crash`). `Session` begins where the endpoint is up.

## 3. Runs

| Run | Bounds | Distinct states | Shows |
|---|---|---|---|
| `batch` | `TxDepth` 4, `Batch` 3, `ReadMax` 2, `MaxOps` 8, faults and early refusals | 1200 | window, exact drain and statistics, termination of a sole reader, refinement |
| `batch_hang` | `TxDepth` 2 < `Batch` 3, no faults | - | violated: `Terminates` |
| `window` | `TxDepth` 5, `Batch` 4, `CqTry` 3, `MaxOps` 8, all four workers | 4704 | window, the drift law, exact statistics, termination without drift, refinement |
| `selective` | `TxDepth` 3, `Batch` 4, `CqTry` 3, `MaxOps` 10, all three workers | 47115 | the counters' meaning, one signal at a time, steady signals, termination without overcount |
| `selective_silent` | `CqTry` 2 = `Batch`/2 | - | violated: `BatchSignals` |
| `selective_sync` | `CqTry` 3, no faults | - | violated: `SyncAfterRma` |
| `monitor` | 2 threads, 2 operations each, four styles, failures | 152256 | what bits, counters and rows mean; the only three reasons not to end |
| `session` | all seven kinds, three modes, in-band and TCP, 2 rounds, up to 2 losses and faults | 427705 | right message, agreeing tags, meetings, memory's life, lock-step, agreed end |
| `multi_recv` | 3 messages a chunk, calls of 3, 4 and 6 messages, up to 4 calls, 4 CQ entries, failures | 29950 | each chunk in one place and reposted when read; when the count is right; the two reasons not to end |
| `lifecycle` | 2 nodes, 3 descriptors, every failure point, efa and in-band, with and without registration | 1627268 | everything released, in an order libfabric accepts; sockets stay with their node |
| `ping_pong_hang` | 2 rounds, no loss, no faults | - | violated: `BothEnd` |
| `rma_hang` | 2 rounds, no loss, no faults | - | violated: `LastSyncReturns` |

The properties worth a second look:

- `DrainExact`, `DriftLaw`, `CountLaw` say what the *final* wait waits for in terms of
  what the provider holds, after any mixture of refused posts, partial reads and
  failures. They are what decides between ending and hanging.
- `SoleReaderTerminates`, `EndsUnlessDrift`, `EndsUnlessOvercount` and
  `EndsUnlessDesync` each name the complete list of reasons for which a benchmark does
  not end. The violation runs show that the reasons are real.
- `RightMessage` holds although the messages carry no type: order and the discipline of
  one receive are all that keeps a sync byte from being taken for a memory key.
- `Meeting` and `MemoryThere` relate the two processes: no side is past an exchange
  before the other has begun it, and RMA happens while the client is there.
- `ImplementsTree` compares two orders written down far from each other
  (`ft_init_fabric` and `ft_close_fids`) for every subset of resources a failure leaves.
- `SocketKept` excepts nodes whose `connect()` failed: such a node keeps the number of a
  closed descriptor in `oob_sock` (`shared.c:841`), another thread may be given it, and the
  worker, which ignores the failure, would sync over the other's connection. It also
  shows that `ft_free_res` leaves the connection open until the process ends.
- `OpsTrue` and `RowsTrue` say what the printed numbers are worth although nothing guards
  the counters: nothing is ever added, and only what met a reallocation is missing.
- `TagsAgree`: a message is completed under the very number that is due, whatever fails,
  while the code would accept and count one up to 63 off; and as long as nothing fails, the numbers
  of two processes that count alone run in step.
- `ChunkLaw` holds for every size and failure. `NoMismatch` names the four conditions under
  which the client's count is right, of which the default `--batch` (1000 * 10 messages a
  call, 64 a chunk) meets not even the last.
- `ReceivePosted` is the comment at `shared.c:2410` in the presence of the moment
  between the two halves of `rx()`.

Bounds. `MaxOps` (worker modules) and `Rounds` (`Session`) stand for the run time: the
clock may run out at any earlier round. The worker modules' behaviour depends
on differences of counters only, so a run of two or three windows shows every
combination of window, CQ and endpoint; the unbounded counters are covered by the
theorems. `Batch` is larger than `ReadMax` in `batch`, so that reads are partial;
`CqTry` is smaller than `Batch` and greater than its half in `window` and
`selective`, as 0.8 makes it; `TxDepth` is larger than the batch where early refusals
are on, and smaller in `batch_hang` and in `selective`. Two threads suffice for a lost assignment;
two rounds of a loop show one that follows another. Two operations a worker let one be lost
in a move and one be counted after it. `Sizes` has a call that ends with a chunk (3), one
that ends inside the next (4) and one of two chunks (6); four calls let a count go wrong twice, which
forgets both chunks. Three descriptors for two nodes
make one node wait for, or be given, a number that the other has closed.

Deadlock. A spin that finds nothing is no step, so a worker that waits for ever is a
deadlock in the models. It is reported as a violation of a liveness property where the
code should not wait, and `CHECK_DEADLOCK FALSE` is set in the
worker, session and multi-receive runs. In `monitor`, where the logger's scan is made of steps, and
in `lifecycle` deadlock is checked.

Fairness. Threads are scheduled by the kernel (`WF` on each); the provider
completes or fails every operation it accepted (`WF_vars(Provider)`); in `Session` a
message that is not lost is delivered once there is a receive for it. No fault
has to happen: in `Session` the failing calls (`Fault`) carry no fairness, and in
the workers a post that may fail may also succeed. A completion may be a failure, as it
may on the fabric.

Assumptions. `CqTry` is in `1..Batch`, that is, `0 < --cq_try <= 1` and a batch for which the
product is not below one. The fabric keeps the order of messages between two
endpoints. With `writedata` a data word consumes a receive, as `FI_RX_CQ_DATA` asks.
A loop starts when its sync has retrieved its own operations, so
that counters can be counted from there. The worker modules' RMA
operations are write and read (`FT_RMA_WRITEDATA` would be refused by the selective post). In `Session` TCP set-up succeeds.

## 4. What the checks found

1. `batch_hang`: with the dgram endpoint, `ft_progress` inside `FT_POST`
   (`shared.c:2014`) counts completions in `tx_cq_cntr` that `outstandingOps` never
   sees. If the endpoint holds fewer operations than the batch, the worker ends up
   waiting for completions it has already consumed. The same mechanism is the
   `drift` of the counting workers.
2. `selective_silent`: with `--cq_try` at most one half, `numPendingRequests` restarts at or above
   the value at which a completion is asked for, so after the first round none is,
   and the factor no longer determines retrievals as `GFlagsConfig.cpp:30` says.
3. `selective_sync`: `RmaServer::batchSelectiveCompletion` has no drain between its loop
   and the "Sync after RMA ops are complete" (`RmaServer.cpp:269`).
4. `ping_pong_hang`: both sides stop by clocks of their own; the side that stops later
   waits for a message for ever.
5. `rma_hang`: the client shared by all RMA benchmarks syncs twice, the server of `rma`
   once. In-band, the client never returns. With `efa` the end of the server's
   process closes the TCP connection and releases it.

`EndsUnlessDesync` lists three more ways not to end, as conditions of a property that
holds: an undone status bit, a worker that is over before the last one
connects, and a worker that returns on an error and leaves its status true.

Exceptions that properties name because they fail without them: the sync that
a `writedata` word answers (`RmaClient.cpp:23`), the untagged data of the selective
completions under `--tagged` (`shared.c:2112`), the multi-receive count of calls that end
inside a chunk (`shared.c:4119`), and the 64 entries read into one (`shared.c:4092`).

## 5. What is proved

TLAPS checks, for every value of the constants that satisfies the modules' named
assumptions:

| Module | Theorems |
|---|---|
| `BatchWorkerProofs` | `TypeCorrect`, `WindowHolds`, `DrainWaitsExactly`, `StatsAreExact`, `Refines` |
| `WindowWorkerProofs` | `TypeCorrect`, `WindowHolds`, `DriftIsExact`, `StatsAreExact`, `Refines` |
| `SelectiveWorkerProofs` | `TypeCorrect`, `CountLawHolds`, `OneSignalledHolds`, `SteadySignalsHold` |
| `MonitorProofs` | `StatusTrueHolds`, `MeasuresConnectedHolds`, `StopsForReasonHolds`, `OpsTrueHolds`, `TypeOKHolds`, `RowsTrueHolds` |
| `SessionProofs` | `TagsAgreeHolds`, `NoMismatchReported`, `TypeOKHolds` |
| `MeetingProofs` | `MeetingHolds`, `MemoryThereHolds`, `RightMessageHolds`, `LockStepHolds`, `ReceivePostedHolds`, `NeverBothWaitHolds`, `NobodyAbandonedHolds` |
| `LifecycleProofs` | `TypeCorrect`, `ReleasedHolds`, `SocketKeptHolds`, `Refines` |
| `MultiRecvProofs` | `TypeOKHolds`, `ChunkLawHolds`, `NoMismatchHolds` |

That is every invariant, every action property and every refinement that a passing run
checks, and three that no run needs (`NeverBothWait` and `NobodyAbandoned` of `MeetingProofs`,
`NoMismatchReported`); what is left to TLC is the liveness.

Each module proves `Init => IInv`, `IInv /\ [Next]_vars => IInv'` (one step per action)
and derives its theorems from `Spec => []IInv`.

`WindowKept` alone is not inductive: a step is allowed or refused by the
worker's *local* count, so the invariant must tie that count to the truth.
- Batch: `outstandingOps` is never below `tx_seq - tx_cq_cntr`, and equals it
  when nobody else reads the CQ (`SoleReader`). The first part gives the window, the second the
  exact drain. The conservation law `tx_seq - tx_cq_cntr = inflight + quiet + cq + cqErr`
  turns counters into operations.
- Window: `opsCounter - numCqObtained = tx_seq - tx_cq_cntr + drift` between rounds, one
  more between counting and posting, and at the wait and the drain the corresponding
  equation for `target`. At the end `tx_cq_cntr = target = tx_seq + drift` together with
  conservation forces `drift = 0`: statistics are only printed from clean books.
- Selective: `tx_seq - tx_cq_cntr` is at most 1, and at most 0 before a round's
  signal; past the signal `opsCounter - lastSignal` is the position in the round.
- Monitor: `StatusTrue` is inductive once it is known that a worker exists only after its
  `push_back` (`Born`) and that no register holds a bit nobody owns (`Unowned`):
  a store that undoes nothing then changes one bit, at the moment its meaning changes
  (`StoreOwn`). `MeasuresConnected` and `StopsForReason` need what the logger knows half-way
  through a scan (`Scanned`): being connected and having ended are for good (`ForGood`).
  `OpsTrue` needs the same bounds for the copy that `push_back` is making (`Copied`). For
  `RowsTrue`, half-way through a row the sum is at most what the counters read so far may be
  worth (`Credit`), and what had been counted when it began exceeds it by at most what those read have
  exposed to a move and those unread have counted (`Slack`, `Summed`). The sum is a fold over the set
  of workers; its laws (`SumOverIs`, `TotalBound`, `TotalMore`, `TotalPoint`) are proved by
  induction over sets, from the library's `WFMin`.
- Session: a side has at most one receive outstanding, and none between the two halves of
  `rx()` (`OneReceive`); so what arrives carries the number that is due, whatever fails
  (`FirstTag`), and as long as nothing does the messages to a side continue its count
  (`Numbered`). The window of `ft_tag_is_valid`, of any size, then never refuses one
  (`NoMismatchReported`).
  For the types, `tx_seq` never exceeds the messages a side can have posted where it is
  (`Most`): at most one an exchange and one a round, and one more before its answer.
- Conversation: messages carry no type and, without `--tagged`, no number, so whether a call
  gets the message it is for is a matter of counting. the invariant has three parts.
  `At`: what a side has sent and received, over the fabric and over TCP, is a function of its
  place in its program (`Sent`, `Received`, `TcpSent`, `TcpReceived`), apart from `tx_seq`,
  which in the RMA benchmarks counts operations that are no messages. `Between`: what lies on
  the fabric and on the connection is what is missing between those counts. No more is received than
  was sent (`NoneMade`), whatever is lost; as long as nothing is, the `k`-th message to arrive
  is the `k`-th of the session (`Nth`, `Ordered`), and TCP loses nothing (`TcpLaw`).
  `Solo`, `ByTag` and `OnlyData` say what still identifies a message when earlier ones were lost: before
  data stream there is one at a time, with `--tagged` its number names it, and out-of-band
  only data are on the fabric. And the client speaks first: a side that has received
  the message of an exchange knows that the other has begun it. `Meeting` and
  `LockStep` compare two places through their counts, `RightMessage` a place with the message
  that has arrived, `ReceivePosted` the messages under way with the receives posted. `RmaEnd`
  adds the one place where a side leaves without an answer: the last sync of `rma`, which the
  end of the server's process releases.
- Nobody waits in vain: the safety half of `AgreedEnd`, stated in `MeetingProofs` alone. A side
  `Waits` if it is in `ft_get_rx_comp` or `ft_sock_recv` with nothing to take, nothing on its
  way, and its connection open. If nothing has failed or been lost, it has then received all
  that the other has sent (`WaitingFor`). So the other has not got past its exchange
  (`NobodyBehind`); if both wait, they are in the same place, and there the counts say
  that the client has sent one message more than the server has received
  (`NeverBothWait`). A side that has left made all its rounds (`Rounded`) and, where the benchmark has
  one, the last sync, which is more than the other has received (`NobodyAbandoned`). Together: a session whose sides
  agree on the last message has, until both processes have ended, a side that can go on.
  `Untagged` keeps the data of the selective completions, which no receive takes, apart from
  the exchanges before them.
- Multi-receive: the release of a chunk is the last completion of it in the CQ
  (`LastOfChunk`), and without one posted none is being filled; that places the chunks. In the
  sessions `NoMismatch` speaks of, the count, the CQ and the fill of the chunk are
  congruent modulo the messages of a chunk, and an entry carries the flag exactly when it makes the
  count a multiple (`InStep`).
- Lifecycle: half-way up a node holds at least what came before `next` in `SetUp`, half-way
  down nothing of what came before it in `TearDown` (`Progress`); every resource is in
  `TearDown`. Which descriptors a node owns is known at each stage, and what it opens was
  nobody's (`Owning`).

The refinement of `FlowControl` (`Refines`) maps `posted` and `retrieved` to the counters
and `phase` to the `pc`. Each step maps to one abstract step or to a stutter;
`IInv` supplies the guards. That of `ResourceTree` keeps `held`: `NeedsHeld` and
`NobodyNeeds` compare the two orders, step by step.

Only model-checked: every liveness property, since fairness and `ENABLED` are out of the
prover's reach, and the properties that the code violates (section 4).

The theorems assume of the constants what the modules' named assumptions say, and nothing
else. Those of `MeetingProofs` keep the conditions of their properties: no failure was
ignored, and the sync that a `writedata` word answers (`Unanswered`) is excepted where the
property excepts it.

## 6. Not modelled

- Waits by file descriptors and `fi_cntr`, which the benchmarks do not use: they spin
  (`FT_COMP_SPIN`). The timeout is -1 except where `FT_POST` left it at 0 (`Session`).
- CQ overrun on dgram with `FI_RM_DISABLED`; the average of the saturated bandwidth
  (sequential floating-point arithmetic).
- `FI_MORE`: with rdm, batch and capability test post every message with it, after which
  nothing tells the provider to send what it holds back. How long it may is the provider's.
- Tags of a caller's own (`ctx->ft_tag`), which no benchmark sets.
- `workerConnectionStatus` is one word in `Monitor`: with more than 64 threads its bits are in
  several, and `push_back` may move them.
- What becomes of a worker that ignored a failure, of a session whose message was lost, of a
  node that ignored a failed `connect()`, and of a process that `std::terminate` ended in
  `getCounter`: these are actions of the models, but the code promises nothing about them, and the
  properties except them or count them as an end (but for `TagsAgree`, which survives an ignored
  failure). `PROJECT.json` lists them as hazards with a note.
- Shared CQs, event queues, passive endpoints and several memory regions per node.
- Formatting of CSV rows, latency statistics, HMEM back ends, static configuration,
  scripts; the atomics, connection management and verification code that no
  benchmark reaches.

## 7. Plan

In order of importance; the first eleven are done.

1. `TxContext`, `FlowControl`, `BatchWorker` with its proofs.
2. `WindowWorker` with its proofs.
3. `SelectiveWorker` with its proofs.
4. `Monitor`, its counters and `saturationLatency`, with its proofs.
5. `Session` with tags, `writedata`, partial transfers and the stale timeout.
6. `ResourceTree`, `Lifecycle`.
7. `MultiRecv`.
8. Type correctness of all worker modules as theorems.
9. `SessionProofs`, `MeetingProofs`.
10. `LifecycleProofs`.
11. `MultiRecvProofs`; the types and sums of `Monitor`; the conversation of `Session`.
12. What the liveness properties rest on, as far as it is safety. Done for the session
    (`NeverBothWait`, `NobodyAbandoned`). Left: for each way to stop that the others except
    (`drift`, a desynchronised logger, a starved receiver), that a state in which the worker
    waits and nothing is left to come is one of those, stated over counters and queues
    without `ENABLED`.
