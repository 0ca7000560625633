---------------------------- MODULE WindowWorker ----------------------------
(***************************************************************************)
(* The four benchmarks that count retrieved completions in numCqObtained:  *)
(*   rma_batch    RmaServer::_batchWorker                                  *)
(*   rma_large    RmaServer::batchLargeBuffer                              *)
(*   send_large   SendRecvServer::batchLargeBuffer                         *)
(*   traffic      SendRecvServer::_trafficGenerator                        *)
(* Each posts through FT_POST, waits for cqTry completions whenever batch  *)
(* operations are unretrieved by its own count, and drains at the end.     *)
(*                                                                         *)
(* The count is opsCounter - numCqObtained, and opsCounter is incremented  *)
(* before the post.  Two things part it from what is really outstanding:   *)
(* a completion that FT_POST read to make room, and, in the RMA workers,   *)
(* a failed post whose return value is overwritten.  The ghost variable    *)
(* drift adds them up.                                                     *)
(***************************************************************************)
EXTENDS TxContext

CONSTANTS
    Batch,        \* --batch; traffic: override_batch_size, 10
    CqTry,        \* the integer FLAGS_batch * FLAGS_cq_try, at least 1
    MaxOps        \* bound: the run time ends when MaxOps rounds were begun

ASSUME WindowAssumption ==
    /\ Batch \in Nat \ {0}
    /\ CqTry \in 1..Batch
    /\ MaxOps \in Nat \ {0}

VARIABLES
    kind,             \* which of the four workers this is
    pc,               \* where it is
    opsCounter,       \* workerOperationCounter[workerId]
    numCqObtained,    \* the local of that name
    target,           \* "total" of the getNTxCompletion it is in
    connected,        \* workerConnectionStatus[workerId]
    drift             \* ghost: completions counted on that will not come

workerVars == <<kind, pc, opsCounter, numCqObtained, target, connected, drift>>
vars == <<tx_seq, tx_cq_cntr, inflight, quiet, cq, cqErr,
          kind, pc, opsCounter, numCqObtained, target, connected, drift>>

RmaKinds == {"rma_batch", "rma_large"}
Kinds == RmaKinds \cup {"send_large", "traffic"}

Running == {"begin", "post", "progress", "check", "wait", "clock"}
Final == {"done", "returned", "exited"}

\* Variant, used by no specification: the traffic override is one too large.
cqTryOneMore == IF kind = "traffic" THEN Batch + 1 ELSE CqTry

cqTry == IF kind = "traffic" THEN Batch ELSE CqTry

Init ==
    /\ TxInit
    /\ kind \in Kinds
    /\ pc = "begin"
    /\ opsCounter = 0
    /\ numCqObtained = 0
    /\ target = 0
    /\ connected = TRUE
    /\ drift = 0

-----------------------------------------------------------------------------
(***************************************************************************)
(* The head of the loop counts the operation before posting it.            *)
(***************************************************************************)
BeginRound ==
    /\ pc = "begin"
    /\ opsCounter' = opsCounter + 1
    /\ pc' = "post"
    /\ UNCHANGED <<txVars, kind, numCqObtained, target, connected, drift>>

(***************************************************************************)
(* postRma, postTxBuffer and postTx: one round of FT_POST at a time.       *)
(***************************************************************************)
PostOp ==
    /\ pc = "post"
    /\ PostAccepted
    /\ pc' = "check"
    /\ UNCHANGED <<kind, opsCounter, numCqObtained, target, connected, drift>>

PostAgain ==
    /\ pc = "post"
    /\ PostRefused
    /\ pc' = "progress"
    /\ UNCHANGED <<kind, opsCounter, numCqObtained, target, connected, drift>>

\* ft_progress found a completion, or nothing; the post is tried again.
RetryPost ==
    /\ pc = "progress"
    /\ Progress
    /\ drift' = drift + (tx_cq_cntr' - tx_cq_cntr)
    /\ pc' = "post"
    /\ UNCHANGED <<kind, opsCounter, numCqObtained, target, connected>>

\* A failed post makes the send workers return ...
SendPostFails ==
    /\ kind \notin RmaKinds
    /\ \/ pc = "post" /\ PostError
       \/ pc = "progress" /\ ReadErr
    /\ pc' = "returned"
    /\ UNCHANGED <<kind, opsCounter, numCqObtained, target, connected, drift>>

\* ... and goes unnoticed in the RMA workers: the next use of ret is the
\* result of getNTxCompletion.
RmaPostFails ==
    /\ kind \in RmaKinds
    /\ \/ pc = "post" /\ PostError
       \/ pc = "progress" /\ ReadErr
    /\ drift' = drift + 1 + (tx_cq_cntr' - tx_cq_cntr)
    /\ pc' = "check"
    /\ UNCHANGED <<kind, opsCounter, numCqObtained, target, connected>>

\* Variant, used by no specification: > for >=.
CheckWindowLate ==
    /\ pc = "check"
    /\ IF opsCounter - numCqObtained > Batch
       THEN pc' = "wait" /\ target' = tx_cq_cntr + cqTry
       ELSE pc' = "clock" /\ UNCHANGED target
    /\ UNCHANGED <<txVars, kind, opsCounter, numCqObtained, connected, drift>>

(***************************************************************************)
(* A full window: getNTxCompletion(cqTry).                                 *)
(***************************************************************************)
CheckWindow ==
    /\ pc = "check"
    /\ IF opsCounter - numCqObtained >= Batch
       THEN pc' = "wait" /\ target' = tx_cq_cntr + cqTry
       ELSE pc' = "clock" /\ UNCHANGED target
    /\ UNCHANGED <<txVars, kind, opsCounter, numCqObtained, connected, drift>>

\* Variant, used by no specification: adds the counter, not its increment.
WaitEndsTotal ==
    /\ pc = "wait"
    /\ SpinDone(target)
    /\ numCqObtained' = numCqObtained + tx_cq_cntr'
    /\ pc' = "clock"
    /\ UNCHANGED <<kind, opsCounter, target, connected, drift>>

WaitEnds ==
    /\ pc = "wait"
    /\ SpinDone(target)
    /\ numCqObtained' = numCqObtained + cqTry
    /\ pc' = "clock"
    /\ UNCHANGED <<kind, opsCounter, target, connected, drift>>

(***************************************************************************)
(* The clock, as in BatchWorker, and the break to the last                 *)
(* getNTxCompletion(opsCounter - numCqObtained).                           *)
(***************************************************************************)
GoOn ==
    /\ pc = "clock"
    /\ opsCounter < MaxOps
    /\ pc' = "begin"
    /\ UNCHANGED <<txVars, kind, opsCounter, numCqObtained, target, connected, drift>>

\* Variants, used by no specification: the last wait is for every operation
\* posted, ...
TimeUpForAll ==
    /\ pc = "clock"
    /\ pc' = "drain"
    /\ target' = tx_cq_cntr + opsCounter
    /\ UNCHANGED <<txVars, kind, opsCounter, numCqObtained, connected, drift>>

\* ... or there is none.
TimeUpNoDrain ==
    /\ pc = "clock"
    /\ pc' = "done"
    /\ connected' = FALSE
    /\ UNCHANGED <<txVars, kind, opsCounter, numCqObtained, target, drift>>

TimeUp ==
    /\ pc = "clock"
    /\ pc' = "drain"
    /\ target' = tx_cq_cntr + (opsCounter - numCqObtained)
    /\ UNCHANGED <<txVars, kind, opsCounter, numCqObtained, connected, drift>>

\* Variant, used by no specification: one read, whatever it finds.
DrainEndsEarly ==
    /\ pc = "drain"
    /\ Progress
    /\ pc' = "done"
    /\ connected' = FALSE
    /\ UNCHANGED <<kind, opsCounter, numCqObtained, target, drift>>

DrainEnds ==
    /\ pc = "drain"
    /\ SpinDone(target)
    /\ pc' = "done"
    /\ connected' = FALSE
    /\ UNCHANGED <<kind, opsCounter, numCqObtained, target, drift>>

(***************************************************************************)
(* Both waits: one more completion; or an error completion and exit(1).    *)
(***************************************************************************)
SpinOn ==
    /\ pc \in {"wait", "drain"}
    /\ SpinAgain(target)
    /\ UNCHANGED workerVars

SpinFails ==
    /\ pc \in {"wait", "drain"}
    /\ ReadErr
    /\ pc' = "exited"
    /\ UNCHANGED <<kind, opsCounter, numCqObtained, target, connected, drift>>

Worker ==
    \/ BeginRound
    \/ PostOp \/ PostAgain \/ RetryPost
    \/ SendPostFails \/ RmaPostFails
    \/ CheckWindow \/ WaitEnds
    \/ GoOn \/ TimeUp \/ DrainEnds
    \/ SpinOn \/ SpinFails

Provider == (Complete \/ Fail) /\ UNCHANGED workerVars

Terminated == pc \in Final /\ UNCHANGED vars

Next == Worker \/ Provider \/ Terminated

Spec == Init /\ [][Next]_vars

\* The thread is scheduled, and an accepted operation completes or fails.
FairSpec == Spec /\ WF_vars(Worker) /\ WF_vars(Provider)

-----------------------------------------------------------------------------
TypeOK ==
    /\ TxTypeOK
    /\ kind \in Kinds
    /\ pc \in Running \cup {"drain"} \cup Final
    /\ opsCounter \in Nat
    /\ numCqObtained \in 0..opsCounter
    /\ target \in Nat
    /\ connected \in BOOLEAN
    /\ drift \in Nat

Conserved == tx_seq - tx_cq_cntr = inflight + quiet + cq + cqErr

(***************************************************************************)
(* The window is real: opsCounter - numCqObtained bounds what is           *)
(* outstanding, so no more than batch operations ever are                  *)
(* (RmaServer.cpp:98, :341; SendRecvServer.cpp:529, :594), whatever        *)
(* FT_POST reads and whatever fails.                                       *)
(***************************************************************************)
WindowKept == inflight + quiet + cq + cqErr <= Batch

(***************************************************************************)
(* The law of the drift: at the drain the worker waits for the operations  *)
(* outstanding, and for drift more, which no provider will deliver.        *)
(***************************************************************************)
DriftLaw ==
    pc = "drain" => target - tx_cq_cntr = inflight + cq + cqErr + drift

(***************************************************************************)
(* Statistics are printed, and the RMA workers' last sync                  *)
(* ("Sync after RMA ops are complete", RmaServer.cpp:123) is reached, only *)
(* when every operation counted was posted and has completed.              *)
(***************************************************************************)
StatsExact ==
    ~ connected => /\ pc = "done"
                   /\ inflight + cq + cqErr = 0
                   /\ opsCounter = tx_seq
                   /\ drift = 0

IInv ==
    /\ TypeOK
    /\ quiet = 0
    /\ Conserved
    /\ tx_seq - tx_cq_cntr <= Batch
    /\ tx_seq <= opsCounter
    /\ numCqObtained <= tx_cq_cntr
    /\ pc \in {"begin", "clock"} =>
          /\ opsCounter - numCqObtained < Batch
          /\ opsCounter - numCqObtained = tx_seq - tx_cq_cntr + drift
    /\ pc \in {"post", "progress"} =>
          /\ tx_seq < opsCounter
          /\ opsCounter - numCqObtained <= Batch
          /\ opsCounter - numCqObtained = tx_seq - tx_cq_cntr + drift + 1
    /\ pc = "check" =>
          /\ opsCounter - numCqObtained <= Batch
          /\ opsCounter - numCqObtained = tx_seq - tx_cq_cntr + drift
    /\ pc = "wait" =>
          /\ opsCounter - numCqObtained = Batch
          /\ tx_cq_cntr < target
          /\ numCqObtained + cqTry <= target
          /\ Batch = tx_seq - target + drift + cqTry
    /\ pc \in {"drain", "done"} =>
          /\ target = tx_seq + drift
          /\ opsCounter - numCqObtained <= Batch
          /\ opsCounter - tx_seq <= drift
    /\ pc = "done" => tx_cq_cntr = target
    /\ ~ connected => pc = "done"

(***************************************************************************)
(* The benchmark ends, unless its books have drifted.                      *)
(***************************************************************************)
EndsUnlessDrift == <>(pc \in Final \/ drift > 0)

(***************************************************************************)
(* "Benchmark run-time in seconds" (GFlagsConfig.cpp:27).                  *)
(***************************************************************************)
Terminates == <>(pc \in Final)

AbstractPhase ==
    CASE pc \in Running -> "running"
      [] pc = "drain" -> "draining"
      [] pc = "done" -> "stopped"
      [] OTHER -> "aborted"

Flow == INSTANCE FlowControl WITH
    Window <- Batch,
    posted <- tx_seq,
    retrieved <- tx_cq_cntr,
    phase <- AbstractPhase

(***************************************************************************)
(* The four workers implement the batch promise.                           *)
(***************************************************************************)
ImplementsFlow == Flow!Spec
=============================================================================
