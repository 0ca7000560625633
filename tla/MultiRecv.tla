----------------------------- MODULE MultiRecv -----------------------------
(***************************************************************************)
(* The client that receives many messages into one buffer:                 *)
(* SendRecvClient::multiRecvBatch over Node::initMultiRecv and             *)
(* wait_for_multi_recv_completion.                                         *)
(*                                                                         *)
(* rx_buf is posted as two chunks.  The provider fills the chunk posted    *)
(* first; its last message completes it, and FI_MULTI_RECV, on the entry   *)
(* of that message or on an entry of its own, gives it back.  The client   *)
(* counts the messages between two such flags and posts the chunk again -  *)
(* if the count is right, and the count is local to the call.              *)
(*                                                                         *)
(* The result of postMultiRecv is ignored: a chunk that a failed call did  *)
(* not post again is forgotten.                                            *)
(***************************************************************************)
EXTENDS Integers, SequencesExt

CONSTANTS
    TransferSize, \* --payload
    MaxXferSize,  \* MAX_XFER_SIZE
    Sizes,        \* the values of --batch * 10 considered
    CqSize,       \* bound: entries in the receive CQ when a message comes
    MaxCalls,     \* bound: calls of postMultiRecv within the run time
    MayFail       \* TRUE: fi_cq_sread and fi_recv may fail, lengths be wrong

\* alloc_ep_res_multi_recv: two chunks, of 64 messages each if they are small.
rx_size == Min({TransferSize * 128, MaxXferSize * 4})

comp_per_buf == (rx_size \div 2) \div TransferSize

ASSUME MultiRecvAssumption ==
    /\ TransferSize \in Nat \ {0}
    /\ MaxXferSize \in Nat
    /\ TransferSize <= MaxXferSize
    /\ Sizes \subseteq Nat \ {0}
    /\ CqSize \in Nat \ {0}
    /\ MaxCalls \in Nat \ {0}
    /\ MayFail \in BOOLEAN

VARIABLES
    size,              \* --batch * 10
    apart,             \* the provider's FI_MULTI_RECV comes on an entry of its own
    posted,            \* the chunks posted, the one being filled first
    fill,              \* messages in that one
    cq,                \* the receive CQ
    pc,                \* "loop", "call", "done"; "killed" after undefined behaviour
    calls,             \* calls begun
    num_completions,   \* what the call still waits for
    per_buf_cnt,       \* what it has received since it began or last reposted
    forgotten,         \* ghost: chunks no one will post again
    mismatch,          \* ghost: "Received %d completions per buffer, expected %d"
    undefined,         \* ghost: entries were written past the end of comp
    failed             \* ghost: one of these has happened

provider == <<posted, fill, cq>>
client == <<pc, calls, num_completions, per_buf_cnt>>
ghosts == <<forgotten, mismatch, undefined, failed>>
vars == <<size, apart, provider, client, ghosts>>

Chunks == {0, 1}

Entries == [chunk : Chunks, recv : BOOLEAN, multi_recv : BOOLEAN]

\* initMultiRecv has posted both chunks; the benchmark begins.
Init ==
    /\ size \in Sizes
    /\ apart \in BOOLEAN
    /\ posted = <<0, 1>>
    /\ fill = 0
    /\ cq = << >>
    /\ pc = "loop"
    /\ calls = 0
    /\ num_completions = 0
    /\ per_buf_cnt = 0
    /\ forgotten = {}
    /\ mismatch = FALSE
    /\ undefined = FALSE
    /\ failed = FALSE

-----------------------------------------------------------------------------
(***************************************************************************)
(* A message of transfer_size comes.  When no other fits, less than        *)
(* FI_OPT_MIN_MULTI_RECV is left, and the provider lets the chunk go.      *)
(***************************************************************************)
Arrive ==
    /\ posted # << >>
    /\ Len(cq) < CqSize
    /\ LET c == Head(posted)
           full == fill + 1 = comp_per_buf
           message == [chunk |-> c, recv |-> TRUE, multi_recv |-> full /\ ~ apart]
           release == [chunk |-> c, recv |-> FALSE, multi_recv |-> TRUE]
       IN /\ cq' = cq \o IF full /\ apart THEN <<message, release>> ELSE <<message>>
          /\ fill' = IF full THEN 0 ELSE fill + 1
          /\ posted' = IF full THEN Tail(posted) ELSE posted
    /\ UNCHANGED <<size, apart, client, ghosts>>

-----------------------------------------------------------------------------
Call ==
    /\ pc = "loop"
    /\ calls < MaxCalls
    /\ pc' = "call"
    /\ calls' = calls + 1
    /\ num_completions' = size
    /\ per_buf_cnt' = 0
    /\ UNCHANGED <<size, apart, provider, ghosts>>

TimeUp ==
    /\ pc = "loop"
    /\ calls > 0
    /\ pc' = "done"
    /\ UNCHANGED <<size, apart, calls, num_completions, per_buf_cnt, provider, ghosts>>

\* The call has read e.  A message is counted.
Counted(e) == per_buf_cnt + IF e.recv THEN 1 ELSE 0

Wanted(e) == num_completions - IF e.recv THEN 1 ELSE 0

\* Variant, used by no specification: one message more than it waits for.
ReturnLate(error) == pc' = IF error \/ num_completions' < 0 THEN "loop" ELSE "call"

\* The call returns: it has what it waited for, or an error.
Return(error) == pc' = IF error \/ num_completions' = 0 THEN "loop" ELSE "call"

\* A message that is not the last of its chunk.
TakeMessage(e) ==
    /\ ~ e.multi_recv
    /\ num_completions' = Wanted(e)
    /\ per_buf_cnt' = Counted(e)
    /\ Return(FALSE)
    /\ UNCHANGED <<posted, mismatch>>

\* Variants, used by no specification: the count goes on, ...
RepostUncleared(e) ==
    /\ e.multi_recv
    /\ Counted(e) = comp_per_buf
    /\ num_completions' = Wanted(e)
    /\ per_buf_cnt' = Counted(e)
    /\ posted' = Append(posted, e.chunk)
    /\ Return(FALSE)
    /\ UNCHANGED mismatch

\* ... the other chunk is posted, ...
RepostOther(e) ==
    /\ e.multi_recv
    /\ Counted(e) = comp_per_buf
    /\ num_completions' = Wanted(e)
    /\ per_buf_cnt' = 0
    /\ posted' = Append(posted, 1 - e.chunk)
    /\ Return(FALSE)
    /\ UNCHANGED mismatch

\* ... or none.
RepostNone(e) ==
    /\ e.multi_recv
    /\ Counted(e) = comp_per_buf
    /\ num_completions' = Wanted(e)
    /\ per_buf_cnt' = 0
    /\ Return(FALSE)
    /\ UNCHANGED <<posted, mismatch>>

\* The chunk is complete, and posted again.
Repost(e) ==
    /\ e.multi_recv
    /\ Counted(e) = comp_per_buf
    /\ num_completions' = Wanted(e)
    /\ per_buf_cnt' = 0
    /\ posted' = Append(posted, e.chunk)
    /\ Return(FALSE)
    /\ UNCHANGED mismatch

\* -FI_EIO, although nothing failed.
Mismatch(e) ==
    /\ e.multi_recv
    /\ Counted(e) # comp_per_buf
    /\ num_completions' = Wanted(e)
    /\ per_buf_cnt' = Counted(e)
    /\ mismatch' = TRUE
    /\ Return(TRUE)
    /\ UNCHANGED posted

Released(entries) == {e.chunk : e \in {x \in ToSet(entries) : x.multi_recv}}

\* fi_cq_sread returns one entry.
Read ==
    /\ pc = "call"
    /\ cq # << >>
    /\ LET e == Head(cq)
       IN /\ cq' = Tail(cq)
          /\ \/ (TakeMessage(e) \/ Repost(e)) /\ UNCHANGED forgotten
             \/ Mismatch(e) /\ forgotten' = forgotten \cup {e.chunk}
    /\ UNCHANGED <<size, apart, fill, calls, undefined, failed>>

(***************************************************************************)
(* It is asked for up to 64 entries and given room for one.  What it       *)
(* writes past that is lost, or destroys what the process needs.           *)
(***************************************************************************)
ReadTooMany ==
    /\ pc = "call"
    /\ \E n \in 2..Len(cq) :
          LET e == Head(cq)
              others == Released(SubSeq(cq, 2, n))
          IN /\ cq' = SubSeq(cq, n + 1, Len(cq))
             /\ \/ /\ TakeMessage(e) \/ Repost(e)
                   /\ forgotten' = forgotten \cup others
                \/ /\ Mismatch(e)
                   /\ forgotten' = forgotten \cup others \cup {e.chunk}
                \/ /\ pc' = "killed"
                   /\ forgotten' = forgotten \cup others \cup Released(<<e>>)
                   /\ UNCHANGED <<num_completions, per_buf_cnt, posted, mismatch>>
    /\ undefined' = TRUE
    /\ UNCHANGED <<size, apart, fill, calls, failed>>

\* The call returns the error.
ReadFails ==
    /\ MayFail
    /\ pc = "call"
    /\ failed' = TRUE
    /\ pc' = "loop"
    /\ UNCHANGED <<size, apart, provider, calls, num_completions, per_buf_cnt,
                   forgotten, mismatch, undefined>>

\* -FI_EIO for a message that is not of transfer_size.
WrongLength ==
    /\ MayFail
    /\ pc = "call"
    /\ cq # << >>
    /\ Head(cq).recv
    /\ cq' = Tail(cq)
    /\ pc' = "loop"
    /\ forgotten' = forgotten \cup Released(<<Head(cq)>>)
    /\ failed' = TRUE
    /\ UNCHANGED <<size, apart, posted, fill, calls, num_completions, per_buf_cnt,
                   mismatch, undefined>>

\* fi_recv fails: the call returns its error.
RepostFails ==
    /\ MayFail
    /\ pc = "call"
    /\ cq # << >>
    /\ Head(cq).multi_recv
    /\ Counted(Head(cq)) = comp_per_buf
    /\ num_completions' = Wanted(Head(cq))
    /\ per_buf_cnt' = 0
    /\ cq' = Tail(cq)
    /\ pc' = "loop"
    /\ forgotten' = forgotten \cup {Head(cq).chunk}
    /\ failed' = TRUE
    /\ UNCHANGED <<size, apart, posted, fill, calls, mismatch, undefined>>

Client == Call \/ TimeUp \/ Read \/ ReadTooMany

Terminated == pc \in {"done", "killed"} /\ UNCHANGED vars

Next == Arrive \/ Client \/ ReadFails \/ WrongLength \/ RepostFails \/ Terminated

Spec == Init /\ [][Next]_vars

\* The client is scheduled, its run time passes, and the server sends on.
FairSpec == Spec /\ WF_vars(Client) /\ WF_vars(Arrive)

-----------------------------------------------------------------------------
TypeOK ==
    /\ size \in Sizes
    /\ apart \in BOOLEAN
    /\ posted \in Seq(Chunks)
    /\ fill \in 0..(comp_per_buf - 1)
    /\ cq \in Seq(Entries)
    /\ pc \in {"loop", "call", "done", "killed"}
    /\ calls \in 0..MaxCalls
    /\ num_completions \in 0..size
    /\ pc = "call" => num_completions > 0
    /\ per_buf_cnt \in 0..(size - num_completions)
    /\ forgotten \subseteq Chunks
    /\ \A ghost \in {mismatch, undefined, failed} : ghost \in BOOLEAN

Unread(c) == Cardinality({i \in 1..Len(cq) : cq[i].chunk = c /\ cq[i].recv})

(***************************************************************************)
(* Each chunk is in one place: posted, once; or given back in the CQ; or   *)
(* forgotten (shared.c:4128).  And it is posted again only when all its    *)
(* messages have been read: those still in the CQ came since.              *)
(***************************************************************************)
ChunkLaw == \A c \in Chunks :
    LET isPosted == c \in ToSet(posted)
        isReleased == c \in Released(cq)
    IN /\ isPosted \/ isReleased \/ c \in forgotten
       /\ ~ (isPosted /\ isReleased)
       /\ c \in forgotten => ~ isPosted /\ ~ isReleased
       /\ isPosted => Unread(c) <= IF c = Head(posted) THEN fill ELSE 0
       /\ IsInjective(posted)

(***************************************************************************)
(* "Received %d completions per buffer, expected %d" (shared.c:4121) is    *)
(* not reported, and no chunk forgotten, as long as nothing fails, the     *)
(* provider hands out one entry at a time, puts its flag on the last       *)
(* message, and --batch * 10 is a multiple of what a chunk holds.          *)
(***************************************************************************)
NoMismatch ==
    ~ failed /\ ~ undefined /\ ~ apart /\ size % comp_per_buf = 0 =>
        ~ mismatch /\ forgotten = {}

(***************************************************************************)
(* The benchmark ends, unless both chunks are forgotten, or entries were   *)
(* overwritten: there is no other way to wait for a message that cannot    *)
(* come.                                                                   *)
(***************************************************************************)
Ends == <>(pc \in {"done", "killed"})

EndsUnlessStarved == Ends \/ <>(undefined \/ forgotten = Chunks)
=============================================================================
