---------------------------- MODULE BatchWorker ----------------------------
(***************************************************************************)
(* SendRecvServer::_batchWorker, the "batch" benchmark: the loop that      *)
(* posts sends and keeps at most Batch of them outstanding, and the drain  *)
(* after it.                                                               *)
(*                                                                         *)
(* The worker keeps its own count, outstandingOps, beside the counters of  *)
(* the connection context.  With the rdm endpoint (FI_MORE) ft_sendmsg     *)
(* hands -FI_EAGAIN back to the loop.  With the dgram endpoint the post    *)
(* goes through FT_POST, which answers -FI_EAGAIN by reading completions   *)
(* on its own: they reach tx_cq_cntr and never outstandingOps.             *)
(***************************************************************************)
EXTENDS TxContext

CONSTANTS
    Batch,        \* --batch
    ReadMax,      \* entries one fiCqRead asks for: 10 in the code
    MaxOps        \* bound: the run time ends when MaxOps sends were posted

ASSUME BatchAssumption ==
    /\ Batch \in Nat \ {0}
    /\ ReadMax \in Nat \ {0}
    /\ MaxOps \in Nat \ {0}

VARIABLES
    fiMore,           \* option FT_OPT_FI_MORE: endpoint rdm, not dgram
    pc,               \* where the worker is
    outstandingOps,   \* the local of that name
    target,           \* "total" of the final getNTxCompletion
    opsCounter,       \* workerOperationCounter[workerId]
    connected         \* workerConnectionStatus[workerId]

workerVars == <<fiMore, pc, outstandingOps, target, opsCounter, connected>>
vars == <<tx_seq, tx_cq_cntr, inflight, quiet, cq, cqErr,
          fiMore, pc, outstandingOps, target, opsCounter, connected>>

Running == {"post", "progress", "again", "full", "clock"}
Final == {"done", "returned", "exited"}

Init ==
    /\ TxInit
    /\ fiMore \in BOOLEAN
    /\ pc = "post"
    /\ outstandingOps = 0
    /\ target = 0
    /\ opsCounter = 0
    /\ connected = TRUE

Min2(a, b) == IF a < b THEN a ELSE b

\* Variant, used by no specification: the window is one too wide.
PostTxOneMore ==
    /\ pc = "post"
    /\ PostAccepted
    /\ opsCounter' = opsCounter + 1
    /\ outstandingOps' = outstandingOps + 1
    /\ pc' = IF outstandingOps' > Batch THEN "full" ELSE "clock"
    /\ UNCHANGED <<fiMore, target, connected>>

(***************************************************************************)
(* server.postTx().  The head of the loop is only reached with             *)
(* outstandingOps < FLAGS_batch (WindowOpen below), so the branch that     *)
(* skips the post has no action: a worker in it would have no step.        *)
(***************************************************************************)
PostTx ==
    /\ pc = "post"
    /\ outstandingOps < Batch
    /\ PostAccepted
    /\ opsCounter' = opsCounter + 1
    /\ outstandingOps' = outstandingOps + 1
    /\ pc' = IF outstandingOps' = Batch THEN "full" ELSE "clock"
    /\ UNCHANGED <<fiMore, target, connected>>

\* Variant, used by no specification: an attempt is counted as a send.
PostAgainCounted ==
    /\ pc = "post"
    /\ outstandingOps < Batch
    /\ PostRefused
    /\ opsCounter' = opsCounter + 1
    /\ pc' = IF fiMore THEN "again" ELSE "progress"
    /\ UNCHANGED <<fiMore, outstandingOps, target, connected>>

\* -FI_EAGAIN: the worker's own read loop, or the one inside FT_POST.
PostAgain ==
    /\ pc = "post"
    /\ outstandingOps < Batch
    /\ PostRefused
    /\ pc' = IF fiMore THEN "again" ELSE "progress"
    /\ UNCHANGED <<fiMore, outstandingOps, target, opsCounter, connected>>

\* Any other error: return from the worker.
PostFails ==
    /\ pc = "post"
    /\ outstandingOps < Batch
    /\ PostError
    /\ pc' = "returned"
    /\ UNCHANGED <<fiMore, outstandingOps, target, opsCounter, connected>>

(***************************************************************************)
(* FT_POST: ft_progress, then the post is tried again.                     *)
(***************************************************************************)
RetryPost ==
    /\ pc = "progress"
    /\ Progress
    /\ pc' = "post"
    /\ UNCHANGED <<fiMore, outstandingOps, target, opsCounter, connected>>

RetryFails ==
    /\ pc = "progress"
    /\ ReadErr
    /\ pc' = "returned"
    /\ UNCHANGED <<fiMore, outstandingOps, target, opsCounter, connected>>

\* Variant, used by no specification: only the full-window loop gives the
\* completions back to the window.
ReadCompletionsUncounted ==
    /\ pc \in {"again", "full"}
    /\ \E n \in 1..Min2(ReadMax, cq) :
          /\ ReadOk(n)
          /\ outstandingOps' = outstandingOps - (IF pc = "full" THEN n ELSE 0)
    /\ pc' = "clock"
    /\ UNCHANGED <<fiMore, target, opsCounter, connected>>

(***************************************************************************)
(* The two "while (true) fiCqRead" loops: after a refused post, and when   *)
(* the batch is full.  A read that finds nothing changes nothing.          *)
(***************************************************************************)
ReadCompletions ==
    /\ pc \in {"again", "full"}
    /\ \E n \in 1..Min2(ReadMax, cq) :
          /\ ReadOk(n)
          /\ outstandingOps' = outstandingOps - n
    /\ pc' = IF outstandingOps' = Batch THEN "full" ELSE "clock"
    /\ UNCHANGED <<fiMore, target, opsCounter, connected>>

ReadFails ==
    /\ pc \in {"again", "full"}
    /\ SeeErr
    /\ pc' = "returned"
    /\ UNCHANGED <<fiMore, outstandingOps, target, opsCounter, connected>>

(***************************************************************************)
(* The clock at the foot of the loop: it may always have run out, and has  *)
(* when MaxOps sends were posted.  The break leads to                      *)
(* getNTxCompletion(outstandingOps).                                       *)
(***************************************************************************)
GoOn ==
    /\ pc = "clock"
    /\ tx_seq < MaxOps
    /\ pc' = "post"
    /\ UNCHANGED <<txVars, fiMore, outstandingOps, target, opsCounter, connected>>

\* Variant, used by no specification: waits for one completion too many.
TimeUpOneMore ==
    /\ pc = "clock"
    /\ pc' = "drain"
    /\ target' = tx_cq_cntr + outstandingOps + 1
    /\ UNCHANGED <<txVars, fiMore, outstandingOps, opsCounter, connected>>

TimeUp ==
    /\ pc = "clock"
    /\ pc' = "drain"
    /\ target' = tx_cq_cntr + outstandingOps
    /\ UNCHANGED <<txVars, fiMore, outstandingOps, opsCounter, connected>>

(***************************************************************************)
(* The drain: ft_get_tx_comp spins for target.                             *)
(***************************************************************************)
Drain ==
    /\ pc = "drain"
    /\ SpinAgain(target)
    /\ UNCHANGED workerVars

\* Variant, used by no specification: one read, whatever it finds.
DrainEndsEarly ==
    /\ pc = "drain"
    /\ Progress
    /\ pc' = "done"
    /\ connected' = FALSE
    /\ UNCHANGED <<fiMore, outstandingOps, target, opsCounter>>

DrainEnds ==
    /\ pc = "drain"
    /\ SpinDone(target)
    /\ pc' = "done"
    /\ connected' = FALSE
    /\ UNCHANGED <<fiMore, outstandingOps, target, opsCounter>>

\* An error completion: exit(1), which ends the whole process.
DrainFails ==
    /\ pc = "drain"
    /\ ReadErr
    /\ pc' = "exited"
    /\ UNCHANGED <<fiMore, outstandingOps, target, opsCounter, connected>>

Worker ==
    \/ PostTx \/ PostAgain \/ PostFails
    \/ RetryPost \/ RetryFails
    \/ ReadCompletions \/ ReadFails
    \/ GoOn \/ TimeUp
    \/ Drain \/ DrainEnds \/ DrainFails

Provider == (Complete \/ Fail) /\ UNCHANGED workerVars

\* The worker's thread has ended; the provider has nothing left to do.
Terminated == pc \in Final /\ UNCHANGED vars

Next == Worker \/ Provider \/ Terminated

Spec == Init /\ [][Next]_vars

\* The thread is scheduled, and an accepted operation completes or fails.
FairSpec == Spec /\ WF_vars(Worker) /\ WF_vars(Provider)

-----------------------------------------------------------------------------
(***************************************************************************)
(* Types.  outstandingOps stays in 0..Batch, so its comparison with the    *)
(* unsigned FLAGS_batch (SendRecvServer.cpp:212) never sees a negative     *)
(* number turned into a huge one.                                          *)
(***************************************************************************)
TypeOK ==
    /\ TxTypeOK
    /\ fiMore \in BOOLEAN
    /\ pc \in Running \cup {"drain"} \cup Final
    /\ outstandingOps \in 0..Batch
    /\ target \in Nat
    /\ opsCounter \in Nat
    /\ connected \in BOOLEAN

(***************************************************************************)
(* Flow control: no more than Batch operations are ever in the endpoint    *)
(* and its CQ (SendRecvServer.cpp:212, :244), through refused posts,       *)
(* completions read inside FT_POST, partial reads and errors.              *)
(***************************************************************************)
WindowKept == inflight + quiet + cq + cqErr <= Batch

(***************************************************************************)
(* The context's counters say what the provider still holds: every         *)
(* operation posted is in flight, in the CQ, or counted.                   *)
(***************************************************************************)
Conserved == tx_seq - tx_cq_cntr = inflight + quiet + cq + cqErr

(***************************************************************************)
(* Nobody reads the CQ but the worker's own loops: the endpoint hands      *)
(* -FI_EAGAIN back to them, or never has a reason to refuse a post.        *)
(***************************************************************************)
NeverRefused == Batch <= TxDepth /\ ~ EarlyAgain

SoleReader == fiMore \/ NeverRefused

(***************************************************************************)
(* Then the final getNTxCompletion(outstandingOps) (SendRecvServer.cpp:269)*)
(* waits for exactly the operations still outstanding: never for more than *)
(* can arrive, and never, by unsigned wrap-around, from beyond them.       *)
(***************************************************************************)
DrainExact ==
    SoleReader /\ pc = "drain" => target - tx_cq_cntr = inflight + cq + cqErr

(***************************************************************************)
(* The transfer statistics are printed only when every send has been       *)
(* retrieved, and they count exactly the sends posted; the logger stops    *)
(* then (SendRecvServer.cpp:276-280).                                      *)
(***************************************************************************)
StatsExact ==
    ~ connected => /\ pc = "done"
                   /\ inflight + cq + cqErr = 0
                   /\ tx_cq_cntr = tx_seq
                   /\ opsCounter = tx_seq

(***************************************************************************)
(* The inductive invariant behind these: what the worker believes never    *)
(* falls below the truth, and is the truth when it is the only reader.     *)
(***************************************************************************)
IInv ==
    /\ TypeOK
    /\ quiet = 0
    /\ Conserved
    /\ tx_seq - tx_cq_cntr <= Batch
    /\ opsCounter = tx_seq
    /\ pc \in {"post", "progress", "clock"} => outstandingOps < Batch
    /\ pc = "again" => fiMore
    /\ pc = "progress" => ~ SoleReader
    /\ pc \in Running => tx_seq - tx_cq_cntr <= outstandingOps
    /\ pc = "drain" => tx_seq <= target
    /\ SoleReader => /\ pc \in Running => outstandingOps = tx_seq - tx_cq_cntr
                     /\ pc = "drain" => target = tx_seq
    /\ ~ connected => pc = "done"
    /\ pc = "done" => tx_cq_cntr = tx_seq

(***************************************************************************)
(* "Benchmark run-time in seconds" (GFlagsConfig.cpp:27): the benchmark    *)
(* ends.  It does when the worker is the sole reader of its CQ.            *)
(***************************************************************************)
Terminates == <>(pc \in Final)

SoleReaderTerminates == SoleReader => Terminates

(***************************************************************************)
(* The worker implements the batch promise, refused posts or not.          *)
(***************************************************************************)
AbstractPhase ==
    CASE pc \in Running -> "running"
      [] pc = "drain" -> "draining"
      [] pc = "done" -> "stopped"
      [] OTHER -> "aborted"

Flow == INSTANCE FlowControl WITH
    Window <- Batch,
    posted <- tx_seq,
    retrieved <- tx_cq_cntr,
    phase <- AbstractPhase

ImplementsFlow == Flow!Spec
=============================================================================
