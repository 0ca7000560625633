----------------------- MODULE SelectiveWorkerProofs -----------------------
(***************************************************************************)
(* Theorems about the selective-completion and inject benchmarks, for      *)
(* every batch size, cqTry <= batch, endpoint depth and run length, with   *)
(* refused posts and with faults.                                          *)
(***************************************************************************)
EXTENDS SelectiveWorker, TLAPS

\* The initial states satisfy the inductive invariant.
LEMMA InitIInv == Init => IInv
  BY SelectiveAssumption
  DEF SelectiveAssumption, Init, TxInit, IInv, TypeOK, TxTypeOK, CountLaw,
      Kinds, Running, Final

(***************************************************************************)
(* Every action of the worker and of the provider keeps it.                *)
(***************************************************************************)
LEMMA NextIInv == IInv /\ [Next]_vars => IInv'
<1> SUFFICES ASSUME IInv, [Next]_vars
             PROVE  IInv'
  OBVIOUS
<1>0. Batch \in Nat \ {0} /\ CqTry \in 1..Batch
  BY SelectiveAssumption DEF SelectiveAssumption
<1> USE <1>0 DEF IInv, TypeOK, TxTypeOK, CountLaw, Kinds, Running, Final
<1>1. CASE SelectivePost
  <2>1. CASE Signals
    BY <1>1, <2>1 DEF SelectivePost, Signals, PostAccepted, CountRound
  <2>2. CASE ~ Signals
    BY <1>1, <2>2 DEF SelectivePost, Signals, PostSilent, CountRound
  <2> QED
    BY <2>1, <2>2
<1>2. CASE PostAgain
  BY <1>2 DEF PostAgain, PostRefused, txVars
<1>3. CASE RetryPost
  BY <1>3 DEF RetryPost, Progress, ReadOk, txVars
<1>4. CASE SelectivePostFails
  <2>1. CASE pc = "post" /\ PostError /\ Signals
    BY <1>4, <2>1 DEF SelectivePostFails, Signals, PostError, txVars, CountRound
  <2>2. CASE pc = "post" /\ PostError /\ ~ Signals
    BY <1>4, <2>2 DEF SelectivePostFails, Signals, PostError, txVars, CountRound
  <2>3. CASE pc = "progress" /\ ReadErr /\ Signals
    BY <1>4, <2>3 DEF SelectivePostFails, Signals, ReadErr, CountRound
  <2>4. CASE pc = "progress" /\ ReadErr /\ ~ Signals
    BY <1>4, <2>4 DEF SelectivePostFails, Signals, ReadErr, CountRound
  <2> QED
    BY <1>4, <2>1, <2>2, <2>3, <2>4 DEF SelectivePostFails
<1>5. CASE CheckPending
  BY <1>5 DEF CheckPending, txVars
<1>6. CASE SpinOn
  BY <1>6 DEF SpinOn, SpinAgain, ReadOk, workerVars
<1>7. CASE WaitReturns
  <2>1. CASE ReadOk(1) /\ tx_cq_cntr' = target
    BY <1>7, <2>1 DEF WaitReturns, ReadOk
  <2>2. CASE CqEmpty /\ UNCHANGED txVars /\ tx_cq_cntr' = target
    BY <1>7, <2>2 DEF WaitReturns, txVars
  <2>3. CASE ReadErr
    BY <1>7, <2>3 DEF WaitReturns, ReadErr
  <2> QED
    BY <1>7, <2>1, <2>2, <2>3 DEF WaitReturns, SpinDone, Progress
<1>8. CASE InjectPost
  BY <1>8 DEF InjectPost, PostSilent
<1>9. CASE InjectFails
  BY <1>9 DEF InjectFails, PostError, ReadErr, txVars
<1>10. CASE GoOn
  BY <1>10 DEF GoOn, txVars
<1>11. CASE TimeUp
  <2> /\ pc = "clock" /\ pc' \in {"done", "sync"} /\ connected' \in BOOLEAN
      /\ UNCHANGED <<txVars, kind, numPendingRequests, opsCounter, target,
                     lastSignal, overcount>>
    BY <1>11 DEF TimeUp
  <2> QED
    BY DEF txVars
<1>12. CASE LastSync
  BY <1>12 DEF LastSync, txVars
<1>13. CASE Provider
  BY <1>13 DEF Provider, Complete, CompleteQuiet, Fail, FailQuiet, workerVars
<1>14. CASE UNCHANGED vars
  BY <1>14 DEF vars
<1> QED
  BY <1>1, <1>2, <1>3, <1>4, <1>5, <1>6, <1>7, <1>8, <1>9, <1>10, <1>11,
     <1>12, <1>13, <1>14
  DEF Next, Worker, Terminated

\* The inductive invariant holds in every reachable state.
THEOREM Inductive == Spec => []IInv
  BY InitIInv, NextIInv, PTL DEF Spec

\* Its first conjunct: every counter and control state keeps its type, for
\* every size of the windows and every length of the run.
THEOREM TypeCorrect == Spec => []TypeOK
<1>1. IInv => TypeOK
  BY DEF IInv
<1> QED
  BY <1>1, Inductive, PTL

\* The books are wrong by exactly the silent operations that failed.
THEOREM CountLawHolds == Spec => []CountLaw
<1>1. IInv => CountLaw
  BY DEF IInv
<1> QED
  BY <1>1, Inductive, PTL

\* At most one completion is owed by operations that did not fail silently.
THEOREM OneSignalledHolds == Spec => []OneSignalled
<1>1. IInv => OneSignalled
  BY DEF IInv, TypeOK, TxTypeOK, CountLaw, OneSignalled
<1> QED
  BY <1>1, Inductive, PTL

\* With a factor above one half, completions are asked for steadily.
THEOREM SteadySignalsHold == Spec => []SteadySignals
<1>1. IInv => SteadySignals
  BY SelectiveAssumption
  DEF SelectiveAssumption, IInv, TypeOK, TxTypeOK, SteadySignals
<1> QED
  BY <1>1, Inductive, PTL
=============================================================================
