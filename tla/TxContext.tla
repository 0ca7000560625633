----------------------------- MODULE TxContext -----------------------------
(***************************************************************************)
(* The transmit side of one libefa::Node: the two counters of its          *)
(* ConnectionContext, and the endpoint and transmit completion queue (CQ)  *)
(* of the libfabric provider behind it.                                    *)
(*                                                                         *)
(* The provider is external code.  What src/ relies on is modelled: a post *)
(* is accepted or refused with -FI_EAGAIN, an accepted operation completes *)
(* or fails later on its own, and the CQ holds the entries until the       *)
(* application reads them.  Operations are anonymous, so their numbers are *)
(* enough; the order in which good and error entries are read is left      *)
(* open.                                                                   *)
(*                                                                         *)
(* The operators below are the pieces of ft_post_tx, ft_progress and       *)
(* ft_spin_for_comp that the benchmark workers are put together from.      *)
(***************************************************************************)
EXTENDS Integers

CONSTANTS
    TxDepth,      \* fi->tx_attr->size: operations the endpoint can hold
    EarlyAgain,   \* TRUE: a post may be refused before the endpoint is full
    Faulty        \* TRUE: posts and operations may fail

ASSUME TxContextAssumption ==
    /\ TxDepth \in Nat \ {0}
    /\ EarlyAgain \in BOOLEAN
    /\ Faulty \in BOOLEAN

VARIABLES
    tx_seq,       \* ctx->tx_seq: operations posted
    tx_cq_cntr,   \* ctx->tx_cq_cntr: completions accounted for
    inflight,     \* accepted operations that will write a CQ entry
    quiet,        \* accepted operations that write one only if they fail
    cq,           \* good entries waiting in the CQ
    cqErr         \* error entries waiting in the CQ

ctxVars == <<tx_seq, tx_cq_cntr>>
provVars == <<inflight, quiet, cq, cqErr>>
txVars == <<tx_seq, tx_cq_cntr, inflight, quiet, cq, cqErr>>

TxTypeOK ==
    /\ tx_seq \in Nat
    /\ tx_cq_cntr \in Nat
    /\ inflight \in Nat
    /\ quiet \in Nat
    /\ cq \in Nat
    /\ cqErr \in Nat

(***************************************************************************)
(* Every benchmark loop starts after ft_sync, whose own operations have    *)
(* been waited for: the counters agree, and are counted from there.        *)
(***************************************************************************)
TxInit ==
    /\ tx_seq = 0
    /\ tx_cq_cntr = 0
    /\ inflight = 0
    /\ quiet = 0
    /\ cq = 0
    /\ cqErr = 0

(***************************************************************************)
(* Room in the endpoint.  An operation holds its place until its entry is  *)
(* read (a quiet one: until it ends).  A provider may also refuse earlier, *)
(* for a resource that an outstanding operation holds.                     *)
(***************************************************************************)
Outstanding == inflight + quiet + cq + cqErr

HasRoom == Outstanding < TxDepth

MayRefuse == IF EarlyAgain THEN Outstanding > 0 ELSE ~ HasRoom

(***************************************************************************)
(* The outcomes of fi_send, fi_sendmsg, fi_write, ... and the counter      *)
(* updates that follow an accepted post.                                   *)
(***************************************************************************)
\* Variant, used by no specification: the completion is counted at the post,
\* as if none were to come.
PostAcceptedCounted ==
    /\ HasRoom
    /\ inflight' = inflight + 1
    /\ tx_seq' = tx_seq + 1
    /\ tx_cq_cntr' = tx_cq_cntr + 1
    /\ UNCHANGED <<quiet, cq, cqErr>>

\* Accepted, and a completion will be generated: seq++ of FT_POST and of
\* ft_sendmsg.
PostAccepted ==
    /\ HasRoom
    /\ inflight' = inflight + 1
    /\ tx_seq' = tx_seq + 1
    /\ UNCHANGED <<tx_cq_cntr, quiet, cq, cqErr>>

\* Variant, used by no specification: the silent operation is not counted.
PostSilentUncounted ==
    /\ HasRoom
    /\ quiet' = quiet + 1
    /\ tx_seq' = tx_seq + 1
    /\ UNCHANGED <<tx_cq_cntr, inflight, cq, cqErr>>

\* Accepted, and no completion will be generated: ft_post_tx_selective_comp
\* without FI_COMPLETION, ft_post_inject and their RMA twins count the
\* completion themselves.
PostSilent ==
    /\ HasRoom
    /\ quiet' = quiet + 1
    /\ tx_seq' = tx_seq + 1
    /\ tx_cq_cntr' = tx_cq_cntr + 1
    /\ UNCHANGED <<inflight, cq, cqErr>>

\* Refused with -FI_EAGAIN.
PostRefused == MayRefuse /\ UNCHANGED txVars

\* Refused with another error.
PostError == Faulty /\ UNCHANGED txVars

(***************************************************************************)
(* Reading the CQ.                                                         *)
(***************************************************************************)
CqEmpty == cq = 0 /\ cqErr = 0

\* fi_cq_read returns n good entries, and the caller counts them.
ReadOk(n) ==
    /\ n <= cq
    /\ cq' = cq - n
    /\ tx_cq_cntr' = tx_cq_cntr + n
    /\ UNCHANGED <<tx_seq, inflight, quiet, cqErr>>

\* fi_cq_read returns -FI_EAVAIL; ft_cq_readerr takes the entry, which is
\* counted as a completion too.
ReadErr ==
    /\ cqErr > 0
    /\ cqErr' = cqErr - 1
    /\ tx_cq_cntr' = tx_cq_cntr + 1
    /\ UNCHANGED <<tx_seq, inflight, quiet, cq>>

\* fi_cq_read returns -FI_EAVAIL and the caller leaves the entry there.
SeeErr == cqErr > 0 /\ UNCHANGED txVars

\* One call of ft_progress that is not a failure.
Progress ==
    \/ ReadOk(1)
    \/ CqEmpty /\ UNCHANGED txVars

(***************************************************************************)
(* ft_spin_for_comp(ctx, txcq, &tx_cq_cntr, total, -1): it reads at least  *)
(* once, and goes on while the unsigned "total - *cur > 0", that is, until *)
(* the counter EQUALS total.                                               *)
(***************************************************************************)
SpinAgain(total) == ReadOk(1) /\ tx_cq_cntr' # total

SpinDone(total) ==
    /\ Progress
    /\ tx_cq_cntr' = total

(***************************************************************************)
(* The provider's own steps.                                               *)
(***************************************************************************)
Complete ==
    /\ inflight > 0
    /\ inflight' = inflight - 1
    /\ cq' = cq + 1
    /\ UNCHANGED <<tx_seq, tx_cq_cntr, quiet, cqErr>>

CompleteQuiet ==
    /\ quiet > 0
    /\ quiet' = quiet - 1
    /\ UNCHANGED <<tx_seq, tx_cq_cntr, inflight, cq, cqErr>>

Fail ==
    /\ Faulty
    /\ inflight > 0
    /\ inflight' = inflight - 1
    /\ cqErr' = cqErr + 1
    /\ UNCHANGED <<tx_seq, tx_cq_cntr, quiet, cq>>

FailQuiet ==
    /\ Faulty
    /\ quiet > 0
    /\ quiet' = quiet - 1
    /\ cqErr' = cqErr + 1
    /\ UNCHANGED <<tx_seq, tx_cq_cntr, inflight, cq>>
=============================================================================
