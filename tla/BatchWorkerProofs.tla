------------------------- MODULE BatchWorkerProofs -------------------------
(***************************************************************************)
(* Theorems about the batch benchmark for every batch size, endpoint       *)
(* depth, read size and run length, with and without faults.               *)
(*                                                                         *)
(* IInv is inductive.  Each safety property is one of its consequences,    *)
(* and it carries the refinement proof: the guards of the abstract actions *)
(* are facts about the counters that only IInv supplies.                   *)
(***************************************************************************)
EXTENDS BatchWorker, TLAPS

\* The initial states satisfy the inductive invariant.
LEMMA InitIInv == Init => IInv
  BY BatchAssumption
  DEF Init, TxInit, IInv, TypeOK, TxTypeOK, Conserved, Running, Final

(***************************************************************************)
(* Every action of the worker and of the provider keeps it.                *)
(***************************************************************************)
LEMMA NextIInv == IInv /\ [Next]_vars => IInv'
<1> SUFFICES ASSUME IInv, [Next]_vars
             PROVE  IInv'
  OBVIOUS
<1>0. Batch \in Nat \ {0}
  BY BatchAssumption DEF BatchAssumption
<1> USE <1>0 DEF IInv, TypeOK, TxTypeOK, Conserved, Running, Final
<1>1. CASE PostTx
  BY <1>1 DEF PostTx, PostAccepted, SoleReader, NeverRefused
<1>2. CASE PostAgain
  <2>1. ~ fiMore => ~ SoleReader
    <3> SUFFICES ASSUME NeverRefused PROVE FALSE
      BY DEF SoleReader
    <3>1. Outstanding < Batch
      BY <1>2 DEF PostAgain, Outstanding
    <3>2. Outstanding \in Nat
      BY DEF Outstanding
    <3> QED
      BY <1>2, <3>1, <3>2, TxContextAssumption
      DEF TxContextAssumption, PostAgain, PostRefused, MayRefuse, HasRoom, NeverRefused
  <2> QED
    BY <1>2, <2>1 DEF PostAgain, PostRefused, txVars, SoleReader, NeverRefused
<1>3. CASE PostFails
  BY <1>3 DEF PostFails, PostError, txVars, SoleReader, NeverRefused
<1>4. CASE RetryPost
  BY <1>4 DEF RetryPost, Progress, ReadOk, CqEmpty, txVars, SoleReader, NeverRefused
<1>5. CASE RetryFails
  BY <1>5 DEF RetryFails, ReadErr, SoleReader, NeverRefused
<1>6. CASE ReadCompletions
  <2>1. PICK n \in 1..Min2(ReadMax, cq) :
               ReadOk(n) /\ outstandingOps' = outstandingOps - n
    BY <1>6 DEF ReadCompletions
  <2>2. n \in Nat /\ n >= 1 /\ n <= cq
    BY <2>1 DEF Min2, ReadOk
  <2>3. n <= outstandingOps
    BY <1>6, <2>2 DEF ReadCompletions
  <2> QED
    BY <1>6, <2>1, <2>2, <2>3
    DEF ReadCompletions, ReadOk, SoleReader, NeverRefused
<1>7. CASE ReadFails
  BY <1>7 DEF ReadFails, SeeErr, txVars, SoleReader, NeverRefused
<1>8. CASE GoOn
  BY <1>8 DEF GoOn, txVars, SoleReader, NeverRefused
<1>9. CASE TimeUp
  BY <1>9 DEF TimeUp, txVars, SoleReader, NeverRefused
<1>10. CASE Drain
  BY <1>10 DEF Drain, SpinAgain, ReadOk, workerVars, SoleReader, NeverRefused
<1>11. CASE DrainEnds
  <2> pc = "drain" /\ pc' = "done" /\ connected' \in BOOLEAN
      /\ UNCHANGED <<fiMore, outstandingOps, target, opsCounter>>
    BY <1>11 DEF DrainEnds
  <2>1. CASE ReadOk(1)
    <3>1. tx_cq_cntr + 1 = tx_seq
      BY <1>11, <2>1 DEF DrainEnds, SpinDone, ReadOk
    <3> QED
      BY <2>1, <3>1 DEF ReadOk, SoleReader, NeverRefused
  <2>2. CASE CqEmpty /\ UNCHANGED txVars
    <3>1. tx_cq_cntr = tx_seq
      BY <1>11, <2>2 DEF DrainEnds, SpinDone, CqEmpty, txVars
    <3> QED
      BY <2>2, <3>1 DEF txVars, SoleReader, NeverRefused
  <2> QED
    BY <1>11, <2>1, <2>2 DEF DrainEnds, SpinDone, Progress
<1>12. CASE DrainFails
  BY <1>12 DEF DrainFails, ReadErr, SoleReader, NeverRefused
<1>13. CASE Provider
  BY <1>13 DEF Provider, Complete, Fail, workerVars, SoleReader, NeverRefused
<1>14. CASE UNCHANGED vars
  BY <1>14 DEF vars, SoleReader, NeverRefused
<1> QED
  BY <1>1, <1>2, <1>3, <1>4, <1>5, <1>6, <1>7, <1>8, <1>9, <1>10, <1>11,
     <1>12, <1>13, <1>14
  DEF Next, Worker, Terminated

\* The inductive invariant holds in every reachable state.
THEOREM Inductive == Spec => []IInv
  BY InitIInv, NextIInv, PTL DEF Spec

\* Types, among them that outstandingOps never leaves 0..Batch.
THEOREM TypeCorrect == Spec => []TypeOK
<1>1. IInv => TypeOK
  BY DEF IInv
<1> QED
  BY <1>1, Inductive, PTL

\* The endpoint and its CQ never hold more than Batch operations.
THEOREM WindowHolds == Spec => []WindowKept
<1>1. IInv => WindowKept
  BY DEF IInv, TypeOK, TxTypeOK, Conserved, WindowKept
<1> QED
  BY <1>1, Inductive, PTL

\* A sole reader's final wait is for exactly what is outstanding.
THEOREM DrainWaitsExactly == Spec => []DrainExact
<1>1. IInv => DrainExact
  BY DEF IInv, TypeOK, TxTypeOK, Conserved, DrainExact
<1> QED
  BY <1>1, Inductive, PTL

\* The statistics are printed over a drained endpoint and are exact.
THEOREM StatsAreExact == Spec => []StatsExact
<1>1. IInv => StatsExact
  BY DEF IInv, TypeOK, TxTypeOK, Conserved, StatsExact
<1> QED
  BY <1>1, Inductive, PTL

-----------------------------------------------------------------------------
(***************************************************************************)
(* Refinement.                                                             *)
(***************************************************************************)
\* The initial states map to the initial state of FlowControl.
LEMMA FlowInit == Init => Flow!Init
  BY DEF Init, TxInit, Flow!Init, AbstractPhase, Running

\* Every step maps to a step of FlowControl, or to none.
LEMMA FlowNext == IInv /\ [Next]_vars => [Flow!Next]_(Flow!vars)
<1> SUFFICES ASSUME IInv, [Next]_vars
             PROVE  Flow!Next \/ UNCHANGED Flow!vars
  OBVIOUS
<1>0. Batch \in Nat \ {0}
  BY BatchAssumption DEF BatchAssumption
<1> USE <1>0 DEF IInv, TypeOK, TxTypeOK, Conserved, Running, Final, AbstractPhase
<1>1. CASE PostTx
  BY <1>1 DEF PostTx, PostAccepted, Flow!Next, Flow!Post
<1>2. CASE PostAgain
  BY <1>2 DEF PostAgain, PostRefused, txVars, Flow!vars
<1>3. CASE PostFails
  BY <1>3 DEF PostFails, PostError, txVars, Flow!Next, Flow!Abort
<1>4. CASE RetryPost
  BY <1>4 DEF RetryPost, Progress, ReadOk, txVars, Flow!vars, Flow!Next, Flow!Retrieve
<1>5. CASE RetryFails
  BY <1>5 DEF RetryFails, ReadErr, Flow!Next, Flow!Abort
<1>6. CASE ReadCompletions
  <2>1. PICK n \in 1..Min2(ReadMax, cq) : ReadOk(n)
    BY <1>6 DEF ReadCompletions
  <2>2. n \in Nat /\ n >= 1 /\ n <= cq
    BY <2>1 DEF Min2, ReadOk
  <2> QED
    BY <1>6, <2>1, <2>2 DEF ReadCompletions, ReadOk, Flow!Next, Flow!Retrieve
<1>7. CASE ReadFails
  BY <1>7 DEF ReadFails, SeeErr, txVars, Flow!Next, Flow!Abort
<1>8. CASE GoOn
  BY <1>8 DEF GoOn, txVars, Flow!vars
<1>9. CASE TimeUp
  BY <1>9 DEF TimeUp, txVars, Flow!Next, Flow!Expire
<1>10. CASE Drain
  BY <1>10 DEF Drain, SpinAgain, ReadOk, workerVars, Flow!Next, Flow!Retrieve
<1>11. CASE DrainEnds
  <2>1. tx_cq_cntr' = tx_seq /\ tx_seq' = tx_seq
    BY <1>11 DEF DrainEnds, SpinDone, Progress, ReadOk, CqEmpty, txVars
  <2> QED
    BY <1>11, <2>1 DEF DrainEnds, Flow!Next, Flow!Stop
<1>12. CASE DrainFails
  BY <1>12 DEF DrainFails, ReadErr, Flow!Next, Flow!Abort
<1>13. CASE Provider
  BY <1>13 DEF Provider, Complete, Fail, workerVars, Flow!vars
<1>14. CASE UNCHANGED vars
  BY <1>14 DEF vars, Flow!vars
<1> QED
  BY <1>1, <1>2, <1>3, <1>4, <1>5, <1>6, <1>7, <1>8, <1>9, <1>10, <1>11,
     <1>12, <1>13, <1>14
  DEF Next, Worker, Terminated

\* The batch worker implements the batch promise.
THEOREM Refines == Spec => ImplementsFlow
  BY Inductive, FlowInit, FlowNext, PTL DEF Spec, ImplementsFlow, Flow!Spec
=============================================================================
