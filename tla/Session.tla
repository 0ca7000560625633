------------------------------- MODULE Session -------------------------------
(***************************************************************************)
(* One client worker and one server worker of the same benchmark, from     *)
(* Node::init to the end of their processes: address exchange, exchange of *)
(* memory keys, ft_sync, the benchmark loop, the last sync.                *)
(*                                                                         *)
(* With provider efa, addresses and syncs travel over the out-of-band TCP  *)
(* connection; with any other provider they travel over the fabric like    *)
(* the keys and the data.  Fabric messages keep their order; a dgram       *)
(* endpoint may lose them.  A side has at most one receive posted: it is   *)
(* taken by a message, and posted again by the rx() that retrieved the     *)
(* message.  With --tagged each message carries its sender's tx_seq, and   *)
(* the receive takes the one that carries the receiver's rx_seq.           *)
(*                                                                         *)
(* The results of init(), exchangeKeys() and sync() are ignored: a side    *)
(* where one of them fails goes on with the next.                          *)
(***************************************************************************)
EXTENDS Integers, SequencesExt

CONSTANTS
    Kinds,        \* the benchmarks considered
    Rounds,       \* --iterations; bound: the run time ends after that many rounds
    Dgram,        \* TRUE: fabric messages may be lost
    WindowSize,   \* opts.window_size: 64
    MaxFaults     \* bound: calls that fail and messages that are lost

RmaKinds == {"rma", "rma_batch"}
LockStepKinds == {"ping_pong", "latency"}

\* Data flow from server to client alone: batch, also of large buffers and of
\* the traffic generators; the selective completions; capability_test.
OneWayKinds == {"batch", "selective", "capability"}

\* Both sides count their --iterations.
CountedKinds == {"latency", "capability"}

ASSUME SessionAssumption ==
    /\ Kinds \subseteq RmaKinds \cup LockStepKinds \cup OneWayKinds
    /\ Rounds \in Nat \ {0}
    /\ Dgram \in BOOLEAN
    /\ WindowSize \in Nat \ {0}
    /\ MaxFaults \in Nat

VARIABLES
    kind,         \* --benchmark_type
    mode,         \* "tagged": --tagged; "writedata": --rma_op
    oob,          \* FT_OPT_OOB_SYNC, FT_OPT_OOB_ADDR_EXCH: provider efa
    stage,        \* which part of its worker each side is in
    step,         \* and which call of that part
    rounds,       \* rounds of the loop finished
    tx_seq,       \* ctx->tx_seq: messages and RMA operations posted
    rx_seq,       \* ctx->rx_seq: receives posted
    rx_cq_cntr,   \* ctx->rx_cq_cntr: receives completed
    arrived,      \* messages whose completion waits in the receive CQ
    net,          \* fabric messages on their way to each side
    tcp,          \* parts of messages on their way over the TCP connection
    part,         \* parts of its message that ft_sock_send or _recv is done with
    timeout,      \* ctx->timeout
    faults,       \* ghost: calls that have failed
    losses        \* ghost: messages that were lost

control == <<stage, step, rounds>>
receives == <<rx_seq, rx_cq_cntr, arrived>>
channels == <<net, tcp>>
fixed == <<kind, oob, mode>>
vars == <<kind, oob, mode, stage, step, rounds, tx_seq, rx_seq, rx_cq_cntr,
          arrived, net, tcp, part, timeout, faults, losses>>

Sides == {"client", "server"}

Peer(s) == IF s = "client" THEN "server" ELSE "client"

Exchanges == {"addr", "keys", "sync", "last"}
Stages == {"boot"} \cup Exchanges \cup {"loop", "closed", "exited"}
Ended == {"closed", "exited"}

Init ==
    /\ kind \in Kinds
    /\ oob \in BOOLEAN
    /\ mode \in {"plain", IF kind \in RmaKinds THEN "writedata" ELSE "tagged"}
    /\ stage = [s \in Sides |-> "boot"]
    /\ step = [s \in Sides |-> "send"]
    /\ rounds = [s \in Sides |-> 0]
    /\ tx_seq = [s \in Sides |-> 0]
    /\ rx_seq = [s \in Sides |-> 0]
    /\ rx_cq_cntr = [s \in Sides |-> 0]
    /\ arrived = [s \in Sides |-> << >>]
    /\ net = [s \in Sides |-> << >>]
    /\ tcp = [s \in Sides |-> << >>]
    /\ part = [s \in Sides |-> 0]
    /\ timeout = [s \in Sides |-> -1]
    /\ faults = 0
    /\ losses = 0

-----------------------------------------------------------------------------
(***************************************************************************)
(* The program of each side.                                               *)
(***************************************************************************)
OverTcp(s) == oob /\ stage[s] \in {"addr", "sync", "last"}

\* Its endpoint is enabled and not closed.
Up(s) == stage[s] \notin {"boot"} \cup Ended

Posted(s) == rx_seq[s] - rx_cq_cntr[s] - Len(arrived[s])

\* What a side sends, and so expects to receive, in a stage.
Label(st) == CASE st \in {"sync", "last"} -> "sync"
               [] st = "loop" -> "data"
               [] OTHER -> st

\* ft_post_tx_selective_comp sends its data without a tag all the same.
NoTag == -1

Tag(s) == CASE mode # "tagged" -> 0
            [] kind = "selective" /\ stage[s] = "loop" -> NoTag
            [] OTHER -> tx_seq[s]

\* "A tag is valid if it's within the current window", as Node::Node asks for
\* FT_OPT_BW: so is one that is not the tag due.
ft_tag_is_valid(comp, tag) == mode = "tagged" =>
    /\ tag < comp.tag + WindowSize
    /\ comp.tag < tag + WindowSize

\* An address fills FT_MAX_CTRL_MSG bytes, which TCP may deliver in parts.
Parts(label) == IF label = "addr" THEN 2 ELSE 1

\* The client speaks first, and both do when they swap addresses over TCP.
\* In the loops, batch flows from server to client, and the RMA client has
\* none.
FirstStep(s, st) ==
    CASE st = "loop" /\ kind \in RmaKinds -> "rma"
      [] st = "loop" /\ kind \in OneWayKinds -> IF s = "server" THEN "send" ELSE "recv"
      [] OTHER -> IF s = "client" \/ (st = "addr" /\ oob) THEN "send" ELSE "recv"

\* Variant, used by no specification: nobody makes the last sync.
NextStageNoLast(s) ==
    CASE stage[s] = "addr" -> IF kind \in RmaKinds THEN "keys" ELSE "sync"
      [] stage[s] = "keys" -> "sync"
      [] stage[s] = "sync" -> IF s = "client" /\ kind \in RmaKinds
                              THEN "closed" ELSE "loop"
      [] OTHER -> "closed"

NextStage(s) ==
    CASE stage[s] = "addr" -> IF kind \in RmaKinds THEN "keys" ELSE "sync"
      [] stage[s] = "keys" -> "sync"
      [] stage[s] = "sync" -> IF s = "client" /\ kind \in RmaKinds
                              THEN "last" ELSE "loop"
      [] stage[s] = "loop" -> IF kind = "rma_batch" THEN "last" ELSE "closed"
      [] OTHER -> "closed"

GoTo(s, st) ==
    /\ stage' = [stage EXCEPT ![s] = st]
    /\ step' = [step EXCEPT ![s] = FirstStep(s, st)]
    /\ UNCHANGED rounds

Continue(s, next) ==
    /\ step' = [step EXCEPT ![s] = next]
    /\ UNCHANGED <<stage, rounds>>

\* The exchange, or the round of the loop, is complete.
Finish(s) ==
    IF stage[s] = "loop"
    THEN /\ rounds' = [rounds EXCEPT ![s] = @ + 1]
         /\ step' = [step EXCEPT ![s] = "clock"]
         /\ UNCHANGED stage
    ELSE GoTo(s, NextStage(s))

SendsFirst(s) == FirstStep(s, stage[s]) = "send"

OneWay(s) == stage[s] = "loop" /\ kind \in OneWayKinds

\* Variant, used by no specification: no answer is waited for.
AfterSendNoAnswer(s) == Finish(s)

AfterSend(s) ==
    IF SendsFirst(s) /\ ~ OneWay(s) THEN Continue(s, "recv") ELSE Finish(s)

AfterReceive(s) ==
    IF SendsFirst(s) \/ OneWay(s) THEN Finish(s) ELSE Continue(s, "send")

\* An error is ignored in an exchange and ends the worker in the loop.
Leave(s) == GoTo(s, IF stage[s] = "loop" THEN "closed" ELSE NextStage(s))

\* FT_POST does not restore the timeout if it fails between two attempts.
Abandon(s) ==
    /\ Leave(s)
    /\ faults + losses < MaxFaults
    /\ faults' = faults + 1
    /\ part' = [part EXCEPT ![s] = 0]
    /\ \/ UNCHANGED timeout
       \/ /\ step[s] \in {"send", "post"} /\ ~ OverTcp(s)
          /\ timeout' = [timeout EXCEPT ![s] = 0]
    /\ UNCHANGED <<losses, fixed>>

\* What most steps leave alone.
Quiet == UNCHANGED <<timeout, faults, losses, fixed>>

-----------------------------------------------------------------------------
\* ft_enable_ep_recv: the endpoint is up and the first receive posted.
Enable(s) ==
    /\ stage[s] = "boot"
    /\ GoTo(s, "addr")
    /\ rx_seq' = [rx_seq EXCEPT ![s] = 1]
    /\ Quiet
    /\ UNCHANGED <<tx_seq, rx_cq_cntr, arrived, channels, part>>

\* The message leaves, and is counted.
Post(s, label) ==
    /\ net' = [net EXCEPT ![Peer(s)] = Append(@, [label |-> label, tag |-> Tag(s)])]
    /\ tx_seq' = [tx_seq EXCEPT ![s] = @ + 1]

\* Variant, used by no specification: counted here and by FT_POST.
SendCountedTwice(s) ==
    /\ step[s] = "send"
    /\ Up(s)
    /\ ~ OverTcp(s)
    /\ net' = [net EXCEPT ![Peer(s)] =
                  Append(@, [label |-> Label(stage[s]), tag |-> Tag(s)])]
    /\ tx_seq' = [tx_seq EXCEPT ![s] = @ + 2]
    /\ AfterSend(s)
    /\ Quiet
    /\ UNCHANGED <<receives, tcp, part>>

\* ft_tx, ft_inject, Node::tx, postTx, postTxSelectiveComp.
Send(s) ==
    /\ step[s] = "send"
    /\ Up(s)
    /\ ~ OverTcp(s)
    /\ Post(s, Label(stage[s]))
    /\ AfterSend(s)
    /\ Quiet
    /\ UNCHANGED <<receives, tcp, part>>

\* The post fails, or it is the operation that does, and the message is on its
\* way.
SendFails(s) ==
    /\ step[s] = "send"
    /\ Up(s)
    /\ ~ OverTcp(s)
    /\ Abandon(s)
    /\ Post(s, Label(stage[s])) \/ UNCHANGED <<net, tx_seq>>
    /\ UNCHANGED <<receives, tcp>>

\* Variant, used by no specification: returns at once, message or not.
ReceiveNoWait(s) ==
    /\ step[s] = "recv"
    /\ Up(s)
    /\ ~ OverTcp(s)
    /\ IF arrived[s] # << >>
       THEN /\ arrived' = [arrived EXCEPT ![s] = Tail(@)]
            /\ rx_cq_cntr' = [rx_cq_cntr EXCEPT ![s] = @ + 1]
       ELSE UNCHANGED <<arrived, rx_cq_cntr>>
    /\ Continue(s, "post")
    /\ Quiet
    /\ UNCHANGED <<tx_seq, rx_seq, channels, part>>

\* ft_get_rx_comp(rx_seq): it waits until rx_cq_cntr is rx_seq.  With no
\* receive posted that is so from the start, and nothing is received.  It
\* fails if a completion's tag is not in the window of the one that is due.
Receive(s) ==
    /\ step[s] = "recv"
    /\ Up(s)
    /\ ~ OverTcp(s)
    /\ arrived[s] # << >> \/ rx_cq_cntr[s] = rx_seq[s]
    /\ IF arrived[s] # << >> /\ ~ ft_tag_is_valid(Head(arrived[s]), rx_cq_cntr[s])
       THEN /\ arrived' = [arrived EXCEPT ![s] = Tail(@)]
            /\ UNCHANGED rx_cq_cntr
            /\ Leave(s)
       ELSE /\ IF arrived[s] # << >>
               THEN /\ arrived' = [arrived EXCEPT ![s] = Tail(@)]
                    /\ rx_cq_cntr' = [rx_cq_cntr EXCEPT ![s] = @ + 1]
               ELSE UNCHANGED <<arrived, rx_cq_cntr>>
            /\ Continue(s, IF rx_cq_cntr'[s] = rx_seq[s] THEN "post" ELSE "recv")
    /\ Quiet
    /\ UNCHANGED <<tx_seq, rx_seq, channels, part>>

\* Variant, used by no specification: counted here and by ft_cq_readerr.
ReceiveFailsTwice(s) ==
    /\ step[s] = "recv"
    /\ Up(s)
    /\ ~ OverTcp(s)
    /\ Posted(s) > 0
    /\ rx_cq_cntr' = [rx_cq_cntr EXCEPT ![s] = @ + 2]
    /\ Abandon(s)
    /\ UNCHANGED <<tx_seq, rx_seq, arrived, channels>>

\* Its receive completed in error, which is counted as a completion too.
ReceiveFails(s) ==
    /\ step[s] = "recv"
    /\ Up(s)
    /\ ~ OverTcp(s)
    /\ Posted(s) > 0
    /\ rx_cq_cntr' = [rx_cq_cntr EXCEPT ![s] = @ + 1]
    /\ Abandon(s)
    /\ UNCHANGED <<tx_seq, rx_seq, arrived, channels>>

\* -FI_ENODATA: the wait is over after a second, without a completion.
ReceiveTimesOut(s) ==
    /\ step[s] = "recv"
    /\ Up(s)
    /\ ~ OverTcp(s)
    /\ timeout[s] = 0
    /\ arrived[s] = << >>
    /\ rx_cq_cntr[s] # rx_seq[s]
    /\ Leave(s)
    /\ Quiet
    /\ UNCHANGED <<tx_seq, receives, channels, part>>

\* Variant, used by no specification: the receive is not posted again.
NoPostRx(s) ==
    /\ step[s] = "post"
    /\ AfterReceive(s)
    /\ Quiet
    /\ UNCHANGED <<tx_seq, receives, channels, part>>

\* ft_post_rx: for the next message, whatever it is.
PostRx(s) ==
    /\ step[s] = "post"
    /\ rx_seq' = [rx_seq EXCEPT ![s] = @ + 1]
    /\ AfterReceive(s)
    /\ Quiet
    /\ UNCHANGED <<tx_seq, rx_cq_cntr, arrived, channels, part>>

PostRxFails(s) ==
    /\ step[s] = "post"
    /\ Abandon(s)
    /\ UNCHANGED <<tx_seq, receives, channels>>

-----------------------------------------------------------------------------
(***************************************************************************)
(* The loops of ft_sock_send and ft_sock_recv over a socket that does not  *)
(* block: a part at a time, until the message is whole.                    *)
(***************************************************************************)
NextPart(s, rest) ==
    IF part[s] + 1 = Parts(Label(stage[s]))
    THEN /\ part' = [part EXCEPT ![s] = 0]
         /\ rest
    ELSE /\ part' = [part EXCEPT ![s] = @ + 1]
         /\ UNCHANGED control

SockSend(s) ==
    /\ step[s] = "send"
    /\ OverTcp(s)
    /\ tcp' = [tcp EXCEPT ![Peer(s)] = Append(@, Label(stage[s]))]
    /\ NextPart(s, AfterSend(s))
    /\ Quiet
    /\ UNCHANGED <<tx_seq, receives, net>>

\* Variant, used by no specification: what one recv returns is the message.
SockReceiveOnce(s) ==
    /\ step[s] = "recv"
    /\ OverTcp(s)
    /\ tcp[s] # << >>
    /\ tcp' = [tcp EXCEPT ![s] = Tail(@)]
    /\ AfterReceive(s)
    /\ Quiet
    /\ UNCHANGED <<tx_seq, receives, net, part>>

SockReceive(s) ==
    /\ step[s] = "recv"
    /\ OverTcp(s)
    /\ tcp[s] # << >>
    /\ tcp' = [tcp EXCEPT ![s] = Tail(@)]
    /\ NextPart(s, AfterReceive(s))
    /\ Quiet
    /\ UNCHANGED <<tx_seq, receives, net>>

SockFails(s) ==
    /\ step[s] \in {"send", "recv"}
    /\ OverTcp(s)
    /\ Abandon(s)
    /\ UNCHANGED <<tx_seq, receives, channels>>

\* -FI_ENOTCONN: the peer has closed the connection.
PeerGone(s) ==
    /\ step[s] = "recv"
    /\ OverTcp(s)
    /\ tcp[s] = << >>
    /\ stage[Peer(s)] = "exited"
    /\ Leave(s)
    /\ part' = [part EXCEPT ![s] = 0]
    /\ Quiet
    /\ UNCHANGED <<tx_seq, receives, channels>>

-----------------------------------------------------------------------------
(***************************************************************************)
(* One RMA operation, and for rma_batch the drain that follows the last    *)
(* one, as far as the peer is concerned.  The data word of fi_writedata    *)
(* takes the peer's receive, as a message does.                            *)
(***************************************************************************)
Rma(s) ==
    /\ step[s] = "rma"
    /\ stage[s] = "loop"
    /\ IF mode = "writedata"
       THEN Post(s, "data")
       ELSE /\ tx_seq' = [tx_seq EXCEPT ![s] = @ + 1]
            /\ UNCHANGED net
    /\ Finish(s)
    /\ Quiet
    /\ UNCHANGED <<receives, tcp, part>>

RmaFails(s) ==
    /\ step[s] = "rma"
    /\ stage[s] = "loop"
    /\ Abandon(s)
    /\ UNCHANGED <<tx_seq, receives, channels>>

\* The foot of the loop.  Each side has a clock of its own; latency and
\* capability_test count iterations instead.
GoOn(s) ==
    /\ step[s] = "clock"
    /\ rounds[s] < Rounds
    /\ Continue(s, FirstStep(s, "loop"))
    /\ Quiet
    /\ UNCHANGED <<tx_seq, receives, channels, part>>

\* Variant, used by no specification: the server runs one iteration less.
TimeUpUneven(s) ==
    /\ step[s] = "clock"
    /\ kind \in CountedKinds => \/ rounds[s] = Rounds
                                \/ s = "server" /\ rounds[s] = Rounds - 1
    /\ GoTo(s, NextStage(s))
    /\ Quiet
    /\ UNCHANGED <<tx_seq, receives, channels, part>>

TimeUp(s) ==
    /\ step[s] = "clock"
    /\ kind \in CountedKinds => rounds[s] = Rounds
    /\ GoTo(s, NextStage(s))
    /\ Quiet
    /\ UNCHANGED <<tx_seq, receives, channels, part>>

\* The workers are joined and the process ends: its sockets are closed.
ProcessEnds(s) ==
    /\ stage[s] = "closed"
    /\ GoTo(s, "exited")
    /\ Quiet
    /\ UNCHANGED <<tx_seq, receives, channels, part>>

\* A step of the program of side s, ...
Work(s) ==
    \/ Enable(s)
    \/ Send(s)
    \/ Receive(s) \/ ReceiveTimesOut(s)
    \/ PostRx(s)
    \/ SockSend(s) \/ SockReceive(s) \/ PeerGone(s)
    \/ Rma(s)
    \/ GoOn(s) \/ TimeUp(s)
    \/ ProcessEnds(s)

\* ... and a call of it that fails.
Fault(s) ==
    \/ SendFails(s)
    \/ ReceiveFails(s)
    \/ PostRxFails(s)
    \/ SockFails(s)
    \/ RmaFails(s)

(***************************************************************************)
(* The fabric.                                                             *)
(***************************************************************************)
\* Which messages the receive posted last would take.
Matching(s) ==
    {i \in DOMAIN net[s] : mode = "tagged" => net[s][i].tag = rx_seq[s] - 1}

Deliver(s) ==
    /\ Up(s)
    /\ Posted(s) > 0
    /\ \E first \in Matching(s) :
          /\ \A i \in Matching(s) : first <= i
          /\ arrived' = [arrived EXCEPT ![s] = Append(@, net[s][first])]
          /\ net' = [net EXCEPT ![s] = RemoveAt(@, first)]
    /\ Quiet
    /\ UNCHANGED <<control, tx_seq, rx_seq, rx_cq_cntr, tcp, part>>

Lose(s) ==
    /\ Dgram
    /\ \E i \in DOMAIN net[s] : net' = [net EXCEPT ![s] = RemoveAt(@, i)]
    /\ faults + losses < MaxFaults
    /\ losses' = losses + 1
    /\ UNCHANGED <<control, tx_seq, receives, tcp, part, timeout, faults, fixed>>

Terminated == (\A s \in Sides : stage[s] = "exited") /\ UNCHANGED vars

Next ==
    \/ \E s \in Sides : Work(s) \/ Fault(s) \/ Deliver(s) \/ Lose(s)
    \/ Terminated

Spec == Init /\ [][Next]_vars

\* Both processes are scheduled, and a message not lost finds its receive.
\* Nothing has to fail.
FairSpec ==
    /\ Spec
    /\ \A s \in Sides : WF_vars(Work(s)) /\ WF_vars(Deliver(s))

-----------------------------------------------------------------------------
Labels == {"addr", "keys", "sync", "data"}

failed == faults > 0
lost == losses > 0

Messages == [label : Labels, tag : -1..(Rounds + 3)]

TypeOK ==
    /\ kind \in Kinds
    /\ oob \in BOOLEAN
    /\ mode \in {"plain", "tagged", "writedata"}
    /\ stage \in [Sides -> Stages]
    /\ step \in [Sides -> {"send", "recv", "post", "rma", "clock"}]
    /\ rounds \in [Sides -> 0..Rounds]
    /\ \A s \in Sides :
          /\ tx_seq[s] \in 0..(Rounds + 4)
          /\ rx_cq_cntr[s] \in 0..rx_seq[s]
          /\ Posted(s) \in 0..1
          /\ arrived[s] \in Seq(Messages)
          /\ net[s] \in Seq(Messages)
          /\ tcp[s] \in Seq(Labels)
    /\ part \in [Sides -> 0..1]
    /\ timeout \in [Sides -> {-1, 0}]
    /\ faults \in 0..MaxFaults
    /\ losses \in 0..MaxFaults

\* The data word of the first writedata takes the receive that the client's
\* last sync waits for, as if it were the server's answer.
Unanswered == mode = "writedata" /\ ~ oob

\* The server's data follow its sync message without a question.
Unasked == mode = "writedata" \/ (kind \in OneWayKinds /\ mode = "plain")

(***************************************************************************)
(* The messages carry no type.  Each call gets the message it is for all   *)
(* the same, the keys never a sync byte, a sync never a data packet or the *)
(* rest of an address (shared.c:1628, :2860, :3781), as long as no failure *)
(* was ignored.  (There are two exceptions.  Where untagged data follow    *)
(* the server's sync message unasked, and that message is lost, the        *)
(* client's sync takes the first of them.  And the client's last sync      *)
(* takes the data word of a writedata.)                                    *)
(***************************************************************************)
RightMessage == ~ failed /\ (Unasked /\ ~ oob => ~ lost) =>
    \A s \in Sides : Up(s) /\ step[s] = "recv" /\ ~ (Unanswered /\ stage[s] = "last") =>
        /\ ~ OverTcp(s) /\ arrived[s] # << >> => Head(arrived[s]).label = Label(stage[s])
        /\ OverTcp(s) /\ tcp[s] # << >> => Head(tcp[s]) = Label(stage[s])

(***************************************************************************)
(* "The recvs posted are always for the next incoming message"             *)
(* (shared.c:2410): except in the one-way benchmarks, where nothing holds  *)
(* the sender back, and for the first message to a side that is not up     *)
(* yet, a message on its way finds a receive posted, although between      *)
(* ft_get_rx_comp and ft_post_rx there is none.                            *)
(***************************************************************************)
ReceivePosted == ~ failed /\ kind \notin OneWayKinds /\ mode # "writedata" =>
    \A s \in Sides :
        Up(s) => Len(net[s]) <= Posted(s)

(***************************************************************************)
(* With --tagged the message of a completion carries the very number that  *)
(* is due, whatever fails or is lost.  ft_tag_is_valid would not tell: it  *)
(* accepts, and counts, any that is less than the window off               *)
(* (shared.c:2430).  As long as nothing fails or is lost, the two sides    *)
(* count alike: the messages to a side carry the numbers it will ask for,  *)
(* in order, and the next one follows on (except for the untagged data of  *)
(* the selective completions, shared.c:2112, which the peer's receive      *)
(* never takes).                                                           *)
(***************************************************************************)
TagsAgree == mode = "tagged" => \A s \in Sides :
    LET coming == arrived[s] \o net[s]
    IN /\ arrived[s] # << >> => Head(arrived[s]).tag = rx_cq_cntr[s]
       /\ ~ failed /\ ~ lost =>
             /\ tx_seq[Peer(s)] = rx_cq_cntr[s] + Len(coming)
             /\ \A i \in DOMAIN coming :
                   coming[i].tag \in {rx_cq_cntr[s] + i - 1} \cup
                       IF kind = "selective" THEN {NoTag} ELSE {}

(***************************************************************************)
(* An exchange is a meeting: neither side is past it before the other has  *)
(* begun it.  For the keys and the last sync this is what keeps RMA within *)
(* the life of the client's memory ("Sync after RMA ops are complete",     *)
(* RmaServer.cpp:123, RmaClient.cpp:22) - unless the operations are        *)
(* writedata and the sync is in-band.                                      *)
(***************************************************************************)
Runs(s, x) ==
    CASE x = "keys" -> kind \in RmaKinds
      [] x = "last" -> ~ Unanswered /\ (kind = "rma_batch" \/ (kind = "rma" /\ s = "client"))
      [] OTHER -> TRUE

Rank(st) ==
    CASE st = "boot" -> 0 [] st = "addr" -> 1 [] st = "keys" -> 2
      [] st = "sync" -> 3 [] st = "loop" -> 4 [] st = "last" -> 5
      [] OTHER -> 6

Meeting == ~ failed =>
    \A s \in Sides : \A x \in Exchanges :
        Runs(s, x) /\ Runs(Peer(s), x) /\ Rank(stage[s]) > Rank(x) =>
            Rank(stage[Peer(s)]) >= Rank(x)

(***************************************************************************)
(* The memory the RMA server writes to is registered as long as it does:   *)
(* the client is still there - with the same exception.                    *)
(***************************************************************************)
MemoryThere == ~ failed /\ ~ Unanswered =>
    (stage["server"] = "loop" /\ kind \in RmaKinds => stage["client"] \notin Ended)

(***************************************************************************)
(* Ping-pong and latency proceed in lock-step, whatever is lost: the       *)
(* server's rounds are the client's, or one more.                          *)
(***************************************************************************)
LockStep == ~ failed /\ kind \in LockStepKinds =>
    /\ rounds["client"] <= rounds["server"]
    /\ rounds["server"] <= rounds["client"] + 1

(***************************************************************************)
(* "Benchmark run-time in seconds" (GFlagsConfig.cpp:27): both sides end.  *)
(***************************************************************************)
BothEnd == <>(\A s \in Sides : stage[s] \in Ended)

(***************************************************************************)
(* Where both sides agree on the last message, by counting or by a last    *)
(* sync, both end, unless something was lost or failed.  (The client of    *)
(* "rma" waits for a sync that the server does not make; with provider efa *)
(* the end of the server's process releases it, and in-band with writedata *)
(* the first of the data.)                                                 *)
(***************************************************************************)
Agreed ==
    kind \in CountedKinds \cup {"rma_batch"} \/ (kind = "rma" /\ (oob \/ mode = "writedata"))

AgreedEnd == Agreed => BothEnd \/ <>(failed \/ lost)

(***************************************************************************)
(* "Sync after RMA ops are complete" (RmaClient.cpp:22): the client's last *)
(* sync meets one of the server's, and returns.                            *)
(***************************************************************************)
LastSyncReturns == stage["client"] = "last" ~> stage["client"] \in Ended
=============================================================================
