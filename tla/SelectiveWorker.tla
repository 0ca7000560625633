-------------------------- MODULE SelectiveWorker --------------------------
(***************************************************************************)
(* The benchmarks whose operations mostly complete in silence:             *)
(*   send    SendRecvServer::_batchSelectiveCompletionWorker               *)
(*   rma     RmaServer::batchSelectiveCompletion                           *)
(*   inject  RmaServer::inject                                             *)
(* The first two ask for one completion when numPendingRequests is         *)
(* cqTry - 1, wait for it when numPendingRequests exceeds the batch, and   *)
(* ignore every return value.  The third never waits.                      *)
(*                                                                         *)
(* An operation posted without a completion is counted in tx_cq_cntr as it *)
(* is posted.  If it fails after all, its error entry is counted once      *)
(* more: the ghost variable overcount adds those up.                       *)
(***************************************************************************)
EXTENDS TxContext

CONSTANTS
    Batch,        \* --batch
    CqTry,        \* the integer FLAGS_batch * FLAGS_cq_try, at least 1
    MaxOps        \* bound: the run time ends when MaxOps rounds were begun

ASSUME SelectiveAssumption ==
    /\ Batch \in Nat \ {0}
    /\ CqTry \in 1..Batch
    /\ MaxOps \in Nat \ {0}

VARIABLES
    kind,                 \* which of the three workers this is
    pc,                   \* where it is
    numPendingRequests,   \* the local of that name
    opsCounter,           \* workerOperationCounter[workerId]
    target,               \* "total" of the getTxCompletion it is in
    connected,            \* workerConnectionStatus[workerId]
    lastSignal,           \* ghost: opsCounter when a completion was last asked for
    overcount             \* ghost: error entries of silent operations

workerVars == <<kind, pc, numPendingRequests, opsCounter, target, connected,
                lastSignal, overcount>>
vars == <<tx_seq, tx_cq_cntr, inflight, quiet, cq, cqErr,
          kind, pc, numPendingRequests, opsCounter, target, connected,
          lastSignal, overcount>>

Kinds == {"send", "rma", "inject"}

Running == {"post", "progress", "check", "wait", "clock"}
Final == {"done", "returned"}

Init ==
    /\ TxInit
    /\ kind \in Kinds
    /\ pc = "post"
    /\ numPendingRequests = 0
    /\ opsCounter = 0
    /\ target = 0
    /\ connected = TRUE
    /\ lastSignal = 0
    /\ overcount = 0

-----------------------------------------------------------------------------
\* Variant, used by no specification: >= for ==.
SignalsFromThen == kind # "inject" /\ numPendingRequests >= CqTry - 1

\* enable_completion of this round.
Signals == kind # "inject" /\ numPendingRequests = CqTry - 1

\* The increments behind the post, whatever the post returned.
CountRound ==
    /\ opsCounter' = opsCounter + 1
    /\ numPendingRequests' = numPendingRequests + 1
    /\ lastSignal' = IF Signals THEN opsCounter + 1 ELSE lastSignal

(***************************************************************************)
(* postTxSelectiveComp and postRmaSelectiveComp, by way of FT_POST.        *)
(***************************************************************************)
SelectivePost ==
    /\ kind # "inject"
    /\ pc = "post"
    /\ IF Signals THEN PostAccepted ELSE PostSilent
    /\ CountRound
    /\ pc' = "check"
    /\ UNCHANGED <<kind, target, connected, overcount>>

PostAgain ==
    /\ pc = "post"
    /\ PostRefused
    /\ pc' = "progress"
    /\ UNCHANGED <<kind, numPendingRequests, opsCounter, target, connected,
                   lastSignal, overcount>>

RetryPost ==
    /\ pc = "progress"
    /\ Progress
    /\ pc' = "post"
    /\ UNCHANGED <<kind, numPendingRequests, opsCounter, target, connected,
                   lastSignal, overcount>>

\* A failed post is counted like any other.
SelectivePostFails ==
    /\ kind # "inject"
    /\ \/ pc = "post" /\ PostError
       \/ pc = "progress" /\ ReadErr
    /\ CountRound
    /\ pc' = "check"
    /\ UNCHANGED <<kind, target, connected, overcount>>

(***************************************************************************)
(* getTxCompletion waits for tx_seq as it stands at the call; an error is  *)
(* ignored too.                                                            *)
(***************************************************************************)
CheckPending ==
    /\ pc = "check"
    /\ IF numPendingRequests > Batch
       THEN pc' = "wait" /\ target' = tx_seq
       ELSE pc' = "clock" /\ UNCHANGED target
    /\ UNCHANGED <<txVars, kind, numPendingRequests, opsCounter, connected,
                   lastSignal, overcount>>

SpinOn ==
    /\ pc = "wait"
    /\ SpinAgain(target)
    /\ UNCHANGED workerVars

\* Variants, used by no specification: the round is not restarted, ...
WaitReturnsFull ==
    /\ pc = "wait"
    /\ SpinDone(target) \/ ReadErr
    /\ pc' = "clock"
    /\ UNCHANGED <<kind, numPendingRequests, opsCounter, target, connected,
                   lastSignal, overcount>>

\* ... or restarted from nothing.
WaitReturnsEmpty ==
    /\ pc = "wait"
    /\ SpinDone(target) \/ ReadErr
    /\ numPendingRequests' = 0
    /\ pc' = "clock"
    /\ UNCHANGED <<kind, opsCounter, target, connected, lastSignal, overcount>>

WaitReturns ==
    /\ pc = "wait"
    /\ SpinDone(target) \/ ReadErr
    /\ numPendingRequests' = Batch - CqTry
    /\ pc' = "clock"
    /\ UNCHANGED <<kind, opsCounter, target, connected, lastSignal, overcount>>

(***************************************************************************)
(* RmaServer::inject: postRmaInject, and a return on its error.            *)
(***************************************************************************)
InjectPost ==
    /\ kind = "inject"
    /\ pc = "post"
    /\ PostSilent
    /\ opsCounter' = opsCounter + 1
    /\ pc' = "clock"
    /\ UNCHANGED <<kind, numPendingRequests, target, connected, lastSignal, overcount>>

InjectFails ==
    /\ kind = "inject"
    /\ \/ pc = "post" /\ PostError
       \/ pc = "progress" /\ ReadErr
    /\ opsCounter' = opsCounter + 1
    /\ pc' = "returned"
    /\ UNCHANGED <<kind, numPendingRequests, target, connected, lastSignal, overcount>>

(***************************************************************************)
(* The clock.  After it there is no drain: the RMA workers go to their     *)
(* last sync, the send worker to its statistics.                           *)
(***************************************************************************)
GoOn ==
    /\ pc = "clock"
    /\ opsCounter < MaxOps
    /\ pc' = "post"
    /\ UNCHANGED <<txVars, kind, numPendingRequests, opsCounter, target, connected,
                   lastSignal, overcount>>

TimeUp ==
    /\ pc = "clock"
    /\ pc' = IF kind = "send" THEN "done" ELSE "sync"
    /\ connected' = FALSE
    /\ UNCHANGED <<txVars, kind, numPendingRequests, opsCounter, target,
                   lastSignal, overcount>>

LastSync ==
    /\ pc = "sync"
    /\ pc' = "done"
    /\ UNCHANGED <<txVars, kind, numPendingRequests, opsCounter, target, connected,
                   lastSignal, overcount>>

Worker ==
    \/ SelectivePost \/ PostAgain \/ RetryPost \/ SelectivePostFails
    \/ CheckPending \/ SpinOn \/ WaitReturns
    \/ InjectPost \/ InjectFails
    \/ GoOn \/ TimeUp \/ LastSync

Provider ==
    \/ (Complete \/ CompleteQuiet \/ Fail) /\ UNCHANGED workerVars
    \/ /\ FailQuiet
       /\ overcount' = overcount + 1
       /\ UNCHANGED <<kind, pc, numPendingRequests, opsCounter, target, connected,
                      lastSignal>>

Terminated == pc \in Final /\ UNCHANGED vars

Next == Worker \/ Provider \/ Terminated

Spec == Init /\ [][Next]_vars

\* The thread is scheduled, and an accepted operation completes or fails.
FairSpec == Spec /\ WF_vars(Worker) /\ WF_vars(Provider)

-----------------------------------------------------------------------------
TypeOK ==
    /\ TxTypeOK
    /\ kind \in Kinds
    /\ pc \in Running \cup {"sync"} \cup Final
    /\ numPendingRequests \in 0..(Batch + 1)
    /\ opsCounter \in Nat
    /\ target \in Nat
    /\ connected \in BOOLEAN
    /\ lastSignal \in 0..opsCounter
    /\ overcount \in Nat

(***************************************************************************)
(* What the self-counted completions do to the books: tx_seq - tx_cq_cntr  *)
(* is the number of completions still to come, less the silent operations  *)
(* that failed ("No completion will be generated for this request",        *)
(* shared.c:2115, is true of those that succeed).                          *)
(***************************************************************************)
CountLaw == tx_seq - tx_cq_cntr = inflight + cq + cqErr - overcount

(***************************************************************************)
(* Never more than one completion is on its way: the one asked for in the  *)
(* round, retrieved before the next is asked for.                          *)
(***************************************************************************)
OneSignalled == inflight + cq + cqErr <= 1 + overcount

(***************************************************************************)
(* With a factor above one half a completion is asked for again and again: *)
(* never more than CqTry operations pass without one.  (The round is one   *)
(* longer than cqTry, since the test at SendRecvServer.cpp:347 is >, not   *)
(* >=.)                                                                    *)
(***************************************************************************)
SteadySignals ==
    2 * CqTry > Batch /\ kind # "inject" => opsCounter - lastSignal <= CqTry

(***************************************************************************)
(* "Factor used in combination with batch size to determine CQ retrievals" *)
(* (GFlagsConfig.cpp:30), whatever the factor: completions are retrieved   *)
(* at least once in a batch.                                               *)
(***************************************************************************)
BatchSignals == kind # "inject" => opsCounter - lastSignal <= Batch

(***************************************************************************)
(* "Sync after RMA ops are complete" (RmaServer.cpp:269).                  *)
(***************************************************************************)
SyncAfterRma == kind = "rma" /\ pc = "sync" => Outstanding = 0

(***************************************************************************)
(* The inductive invariant behind these.  Before its signal a round owes   *)
(* nothing; from then on it owes at most the one completion.               *)
(***************************************************************************)
IInv ==
    /\ TypeOK
    /\ CountLaw
    /\ kind = "inject" => numPendingRequests = 0
    /\ pc \in {"post", "progress", "clock"} => numPendingRequests <= Batch
    /\ pc = "wait" => numPendingRequests = Batch + 1 /\ target = tx_seq
    /\ tx_seq - tx_cq_cntr <= 1
    /\ numPendingRequests < CqTry =>
          /\ tx_seq - tx_cq_cntr <= 0
          /\ kind # "inject" => opsCounter - lastSignal <= numPendingRequests + 1
    /\ numPendingRequests >= CqTry /\ 2 * CqTry > Batch =>
          opsCounter - lastSignal = numPendingRequests - CqTry

(***************************************************************************)
(* The benchmark ends, unless a silent operation has failed.               *)
(***************************************************************************)
EndsUnlessOvercount == <>(pc \in Final \/ overcount > 0)
=============================================================================
