------------------------- MODULE WindowWorkerProofs -------------------------
(***************************************************************************)
(* Theorems about the benchmarks that count completions in numCqObtained,  *)
(* for every batch size, cqTry <= batch, endpoint depth and run length,    *)
(* with refused posts and with faults.                                     *)
(***************************************************************************)
EXTENDS WindowWorker, TLAPS

\* What is waited for in a full window lies within the batch.
LEMMA CqTryBounds == Batch \in Nat \ {0} /\ cqTry \in 1..Batch
  BY WindowAssumption DEF WindowAssumption, cqTry

\* The initial states satisfy the inductive invariant.
LEMMA InitIInv == Init => IInv
  BY CqTryBounds
  DEF Init, TxInit, IInv, TypeOK, TxTypeOK, Conserved, Kinds, RmaKinds,
      Running, Final

(***************************************************************************)
(* Every action of the worker and of the provider keeps it.                *)
(***************************************************************************)
LEMMA NextIInv == IInv /\ [Next]_vars => IInv'
<1> SUFFICES ASSUME IInv, [Next]_vars
             PROVE  IInv'
  OBVIOUS
<1> USE CqTryBounds DEF IInv, TypeOK, TxTypeOK, Conserved, Running, Final
<1>0. kind' = kind => cqTry' = cqTry
  BY DEF cqTry
<1>1. CASE BeginRound
  BY <1>0, <1>1 DEF BeginRound, txVars
<1>2. CASE PostOp
  BY <1>0, <1>2 DEF PostOp, PostAccepted
<1>3. CASE PostAgain
  BY <1>0, <1>3 DEF PostAgain, PostRefused, txVars
<1>4. CASE RetryPost
  <2>1. CASE ReadOk(1)
    BY <1>0, <1>4, <2>1 DEF RetryPost, ReadOk
  <2>2. CASE CqEmpty /\ UNCHANGED txVars
    BY <1>0, <1>4, <2>2 DEF RetryPost, txVars
  <2> QED
    BY <1>4, <2>1, <2>2 DEF RetryPost, Progress
<1>5. CASE SendPostFails
  <2>1. CASE PostError
    BY <1>0, <1>5, <2>1 DEF SendPostFails, PostError, txVars
  <2>2. CASE ReadErr
    BY <1>0, <1>5, <2>2 DEF SendPostFails, ReadErr
  <2> QED
    BY <1>5, <2>1, <2>2 DEF SendPostFails
<1>6. CASE RmaPostFails
  <2>1. CASE pc = "post" /\ PostError
    BY <1>0, <1>6, <2>1 DEF RmaPostFails, PostError, txVars
  <2>2. CASE pc = "progress" /\ ReadErr
    BY <1>0, <1>6, <2>2 DEF RmaPostFails, ReadErr
  <2> QED
    BY <1>6, <2>1, <2>2 DEF RmaPostFails
<1>7. CASE CheckWindow
  <2>1. CASE opsCounter - numCqObtained >= Batch
    BY <1>0, <1>7, <2>1 DEF CheckWindow, txVars
  <2>2. CASE ~ (opsCounter - numCqObtained >= Batch)
    BY <1>0, <1>7, <2>2 DEF CheckWindow, txVars
  <2> QED
    BY <2>1, <2>2
<1>8. CASE WaitEnds
  <2>1. CASE ReadOk(1)
    BY <1>0, <1>8, <2>1 DEF WaitEnds, SpinDone, ReadOk
  <2>2. CASE CqEmpty /\ UNCHANGED txVars
    BY <1>0, <1>8, <2>2 DEF WaitEnds, SpinDone, txVars
  <2> QED
    BY <1>8, <2>1, <2>2 DEF WaitEnds, SpinDone, Progress
<1>9. CASE GoOn
  BY <1>0, <1>9 DEF GoOn, txVars
<1>10. CASE TimeUp
  BY <1>0, <1>10 DEF TimeUp, txVars
<1>11. CASE DrainEnds
  <2> /\ pc = "drain" /\ pc' = "done" /\ connected' \in BOOLEAN
      /\ UNCHANGED <<kind, opsCounter, numCqObtained, target, drift>>
    BY <1>11 DEF DrainEnds
  <2>1. CASE ReadOk(1)
    BY <1>0, <1>11, <2>1 DEF DrainEnds, SpinDone, ReadOk
  <2>2. CASE CqEmpty /\ UNCHANGED txVars
    BY <1>0, <1>11, <2>2 DEF DrainEnds, SpinDone, txVars
  <2> QED
    BY <1>11, <2>1, <2>2 DEF DrainEnds, SpinDone, Progress
<1>12. CASE SpinOn
  BY <1>0, <1>12 DEF SpinOn, SpinAgain, ReadOk, workerVars
<1>13. CASE SpinFails
  BY <1>0, <1>13 DEF SpinFails, ReadErr
<1>14. CASE Provider
  BY <1>0, <1>14 DEF Provider, Complete, Fail, workerVars
<1>15. CASE UNCHANGED vars
  BY <1>0, <1>15 DEF vars
<1> QED
  BY <1>1, <1>2, <1>3, <1>4, <1>5, <1>6, <1>7, <1>8, <1>9, <1>10, <1>11,
     <1>12, <1>13, <1>14, <1>15
  DEF Next, Worker, Terminated

\* The inductive invariant holds in every reachable state.
THEOREM Inductive == Spec => []IInv
  BY InitIInv, NextIInv, PTL DEF Spec

\* Its first conjunct: every counter and control state keeps its type, for
\* every size of the windows and every length of the run.
THEOREM TypeCorrect == Spec => []TypeOK
<1>1. IInv => TypeOK
  BY DEF IInv
<1> QED
  BY <1>1, Inductive, PTL

\* No more than Batch operations are ever outstanding.
THEOREM WindowHolds == Spec => []WindowKept
<1>1. IInv => WindowKept
  BY CqTryBounds DEF IInv, TypeOK, TxTypeOK, Conserved, WindowKept
<1> QED
  BY <1>1, Inductive, PTL

\* The drain waits for drift completions too many, exactly.
THEOREM DriftIsExact == Spec => []DriftLaw
<1>1. IInv => DriftLaw
  BY CqTryBounds DEF IInv, TypeOK, TxTypeOK, Conserved, DriftLaw
<1> QED
  BY <1>1, Inductive, PTL

\* What is printed at the end covers only completed operations, exactly.
THEOREM StatsAreExact == Spec => []StatsExact
<1>1. IInv => StatsExact
  BY CqTryBounds DEF IInv, TypeOK, TxTypeOK, Conserved, StatsExact
<1> QED
  BY <1>1, Inductive, PTL

-----------------------------------------------------------------------------
(***************************************************************************)
(* Refinement of FlowControl.                                              *)
(***************************************************************************)
\* The initial states map to the initial state of FlowControl.
LEMMA FlowInit == Init => Flow!Init
  BY DEF Init, TxInit, Flow!Init, AbstractPhase, Running

\* Every step maps to a step of FlowControl, or to none.
LEMMA FlowNext == IInv /\ [Next]_vars => [Flow!Next]_(Flow!vars)
<1> SUFFICES ASSUME IInv, [Next]_vars
             PROVE  Flow!Next \/ UNCHANGED Flow!vars
  OBVIOUS
<1> USE CqTryBounds
    DEF IInv, TypeOK, TxTypeOK, Conserved, Running, Final, AbstractPhase
<1>1. CASE BeginRound
  BY <1>1 DEF BeginRound, txVars, Flow!vars
<1>2. CASE PostOp
  <2>1. tx_seq - tx_cq_cntr < Batch
    BY <1>2 DEF PostOp
  <2> QED
    BY <1>2, <2>1 DEF PostOp, PostAccepted, Flow!Next, Flow!Post
<1>3. CASE PostAgain
  BY <1>3 DEF PostAgain, PostRefused, txVars, Flow!vars
<1>4. CASE RetryPost
  BY <1>4 DEF RetryPost, Progress, ReadOk, txVars, Flow!vars, Flow!Next, Flow!Retrieve
<1>5. CASE SendPostFails
  BY <1>5 DEF SendPostFails, PostError, ReadErr, txVars, Flow!Next, Flow!Abort
<1>6. CASE RmaPostFails
  BY <1>6 DEF RmaPostFails, PostError, ReadErr, txVars, Flow!vars, Flow!Next,
              Flow!Retrieve
<1>7. CASE CheckWindow
  BY <1>7 DEF CheckWindow, txVars, Flow!vars
<1>8. CASE WaitEnds
  BY <1>8 DEF WaitEnds, SpinDone, Progress, ReadOk, txVars, Flow!vars, Flow!Next,
              Flow!Retrieve
<1>9. CASE GoOn
  BY <1>9 DEF GoOn, txVars, Flow!vars
<1>10. CASE TimeUp
  BY <1>10 DEF TimeUp, txVars, Flow!Next, Flow!Expire
<1>11. CASE DrainEnds
  <2>1. tx_cq_cntr' = tx_seq /\ tx_seq' = tx_seq
    <3>1. CASE ReadOk(1)
      BY <1>11, <3>1 DEF DrainEnds, SpinDone, ReadOk
    <3>2. CASE CqEmpty /\ UNCHANGED txVars
      BY <1>11, <3>2 DEF DrainEnds, SpinDone, txVars
    <3> QED
      BY <1>11, <3>1, <3>2 DEF DrainEnds, SpinDone, Progress
  <2> QED
    BY <1>11, <2>1 DEF DrainEnds, Flow!Next, Flow!Stop
<1>12. CASE SpinOn
  BY <1>12 DEF SpinOn, SpinAgain, ReadOk, workerVars, Flow!Next, Flow!Retrieve
<1>13. CASE SpinFails
  BY <1>13 DEF SpinFails, ReadErr, Flow!Next, Flow!Abort
<1>14. CASE Provider
  BY <1>14 DEF Provider, Complete, Fail, workerVars, Flow!vars
<1>15. CASE UNCHANGED vars
  BY <1>15 DEF vars, Flow!vars
<1> QED
  BY <1>1, <1>2, <1>3, <1>4, <1>5, <1>6, <1>7, <1>8, <1>9, <1>10, <1>11,
     <1>12, <1>13, <1>14, <1>15
  DEF Next, Worker, Terminated

\* The four workers implement the batch promise.
THEOREM Refines == Spec => ImplementsFlow
  BY Inductive, FlowInit, FlowNext, PTL DEF Spec, ImplementsFlow, Flow!Spec
=============================================================================
