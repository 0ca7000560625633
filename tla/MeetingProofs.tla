--------------------------- MODULE MeetingProofs ---------------------------
(***************************************************************************)
(* A session is one conversation, for every benchmark and every number of  *)
(* rounds.                                                                 *)
(*                                                                         *)
(* The messages carry no type and mostly no number: that each call gets    *)
(* the one it is for is a matter of counting.  The argument has three      *)
(* parts.                                                                  *)
(*                                                                         *)
(* Each side counts what it does (At): how many messages it has sent and   *)
(* received, over the fabric and over TCP, is a function of its place in   *)
(* its program (Sent, Received, TcpSent, TcpReceived).                     *)
(*                                                                         *)
(* What lies between the sides is accounted for (Between): no more is      *)
(* received than was sent, the parts on the connection are what is left    *)
(* of those sent, and as long as nothing is lost the k-th message of a     *)
(* session to be received is its k-th message (Nth).  What holds under     *)
(* losses too is stated apart: before data stream at most one message is   *)
(* under way, and it is the last one sent (Solo).                          *)
(*                                                                         *)
(* And the client speaks first: a side that has received a message knows   *)
(* where the other is, because each count determines a place.              *)
(*                                                                         *)
(* All of it is the invariant Conversation, as long as no failure has been *)
(* ignored; IInv and Bounds come from SessionProofs.                       *)
(*                                                                         *)
(* The last part shows that nobody waits in vain as long as nothing fails  *)
(* or is lost.  A side that waits with nothing on its way has had all that *)
(* the other has sent (WaitingFor).  So neither waits in an exchange that  *)
(* the other is past, two sides that both wait are in the same place, and  *)
(* there the client, which speaks first, has sent what the server is       *)
(* waiting for.                                                            *)
(***************************************************************************)
EXTENDS SessionProofs

-----------------------------------------------------------------------------
\* Exchanges over the fabric: the addresses and the syncs when they are not
\* out-of-band, and the keys; Base of them before the loop.
Inband == IF oob THEN 0 ELSE 1
Keyed == IF kind \in RmaKinds THEN 1 ELSE 0
Base == Inband + Keyed + Inband

RunsLast(s) == kind = "rma_batch" \/ (kind = "rma" /\ s = "client")

\* What side s has completed of them, and what parts of those over TCP.
Done(s) ==
    CASE stage[s] \in {"boot", "addr"} -> 0
      [] stage[s] = "keys" -> Inband
      [] stage[s] = "sync" -> Inband + Keyed
      [] stage[s] \in {"loop", "last"} -> Base
      [] OTHER -> IF RunsLast(s) THEN Base + Inband ELSE Base

TcpDone(s) ==
    CASE ~ oob \/ stage[s] \in {"boot", "addr"} -> 0
      [] oob /\ stage[s] \in {"keys", "sync"} -> 2
      [] oob /\ stage[s] \in {"loop", "last"} -> 3
      [] OTHER -> IF RunsLast(s) THEN 4 ELSE 3

\* Its messages of the rounds it has finished, sent and received.
SendsRound(s) ==
    \/ kind \in LockStepKinds
    \/ s = "server" /\ (kind \in OneWayKinds \/ mode = "writedata")

TakesRound(s) == kind \in LockStepKinds \/ (s = "client" /\ kind \in OneWayKinds)

SentRounds(s) == IF SendsRound(s) THEN rounds[s] ELSE 0
TakenRounds(s) == IF TakesRound(s) THEN rounds[s] ELSE 0

\* And of the exchange, or round, it is in the middle of.
Fabric(s) == Up(s) /\ ~ OverTcp(s) /\ step[s] \in {"send", "recv", "post"}

SentNow(s) == IF Fabric(s) /\ step[s] # "send" /\ SendsFirst(s) THEN 1 ELSE 0

ReceivedNow(s) ==
    IF Fabric(s) /\ (step[s] = "post" \/ (step[s] = "send" /\ ~ SendsFirst(s)))
    THEN 1 ELSE 0

TcpSentNow(s) ==
    CASE ~ OverTcp(s) -> 0
      [] OverTcp(s) /\ step[s] = "send" -> part[s]
      [] OTHER -> IF SendsFirst(s) THEN Parts(Label(stage[s])) ELSE 0

TcpReceivedNow(s) ==
    CASE ~ OverTcp(s) -> 0
      [] OverTcp(s) /\ step[s] = "recv" -> part[s]
      [] OTHER -> IF ~ SendsFirst(s) THEN Parts(Label(stage[s])) ELSE 0

Sent(s) == Done(s) + SentRounds(s) + SentNow(s)
Received(s) == Done(s) + TakenRounds(s) + ReceivedNow(s)
TcpSent(s) == TcpDone(s) + TcpSentNow(s)
TcpReceived(s) == TcpDone(s) + TcpReceivedNow(s)

\* Where a side can be.
Shape(s) ==
    /\ stage[s] = "keys" => kind \in RmaKinds
    /\ stage[s] = "loop" /\ s = "client" => kind \notin RmaKinds
    /\ stage[s] = "last" => RunsLast(s)
    /\ stage[s] = "loop" /\ kind \in RmaKinds => step[s] \in {"rma", "clock"}
    /\ step[s] = "rma" => stage[s] = "loop"
    /\ OneWay(s) => step[s] \in IF s = "server" THEN {"send", "clock"}
                                ELSE {"recv", "post", "clock"}

At(s) ==
    /\ Shape(s)
    /\ timeout[s] = -1
    /\ stage[s] # "boot" /\ step[s] # "post" => rx_seq[s] = rx_cq_cntr[s] + 1
    /\ rx_cq_cntr[s] = Received(s)
    /\ mode = "tagged" => tx_seq[s] = Sent(s)

-----------------------------------------------------------------------------
\* The kinds exclude each other.
LEMMA OneKind ==
  ASSUME Typed
  PROVE  /\ kind \in RmaKinds => kind \notin LockStepKinds /\ kind \notin OneWayKinds
         /\ kind \in LockStepKinds => kind \notin RmaKinds /\ kind \notin OneWayKinds
         /\ kind \in RmaKinds \/ kind \in LockStepKinds \/ kind \in OneWayKinds
         /\ mode = "tagged" => kind \notin RmaKinds
         /\ kind \in RmaKinds <=> kind \in {"rma", "rma_batch"}
BY SessionAssumption DEF SessionAssumption, Typed, RmaKinds, LockStepKinds, OneWayKinds

LEMMA CountsAre ==
  ASSUME Typed, part \in [Sides -> 0..1], NEW s \in Sides
  PROVE  /\ Inband \in {0, 1} /\ Keyed \in {0, 1} /\ Base \in Nat /\ Done(s) \in Nat
         /\ TcpDone(s) \in Nat /\ SentRounds(s) \in Nat /\ TakenRounds(s) \in Nat
         /\ SentNow(s) \in {0, 1} /\ ReceivedNow(s) \in {0, 1}
         /\ TcpSentNow(s) \in {0, 1, 2} /\ TcpReceivedNow(s) \in {0, 1, 2}
         /\ Sent(s) \in Nat /\ Received(s) \in Nat /\ TcpSent(s) \in Nat /\ TcpReceived(s) \in Nat
<1>1. Inband \in {0, 1} /\ Keyed \in {0, 1} /\ Base \in Nat
  BY DEF Inband, Keyed, Base
<1>2. Done(s) \in Nat /\ TcpDone(s) \in Nat
  BY <1>1 DEF Done, TcpDone
<1>3. SentRounds(s) \in Nat /\ TakenRounds(s) \in Nat
  <2>1. rounds[s] \in Nat
    BY DEF Typed
  <2> QED
    BY <2>1 DEF SentRounds, TakenRounds
<1>4. SentNow(s) \in {0, 1} /\ ReceivedNow(s) \in {0, 1}
  BY DEF SentNow, ReceivedNow
<1>5. TcpSentNow(s) \in {0, 1, 2} /\ TcpReceivedNow(s) \in {0, 1, 2}
  <2>1. part[s] \in 0..1
    OBVIOUS
  <2> QED
    BY <2>1 DEF TcpSentNow, TcpReceivedNow, Parts
<1> QED
  BY <1>1, <1>2, <1>3, <1>4, <1>5 DEF Sent, Received, TcpSent, TcpReceived

\* At the first call of a stage nothing of it is done.
LEMMA Freshly ==
  ASSUME Typed, NEW s \in Sides, NEW st, stage'[s] = st, step'[s] = FirstStep(s, st),
         part'[s] = 0, UNCHANGED fixed
  PROVE  /\ SentNow(s)' = 0 /\ ReceivedNow(s)' = 0
         /\ TcpSentNow(s)' = 0 /\ TcpReceivedNow(s)' = 0
<1>1. SendsFirst(s)' <=> step'[s] = "send"
  BY DEF SendsFirst, FirstStep, fixed
<1>2. step'[s] \in {"send", "recv", "rma"}
  BY FirstStepIs
<1>3. step'[s] = "rma" => ~ OverTcp(s)'
  BY DEF FirstStep, OverTcp
<1>4. SentNow(s)' = 0 /\ ReceivedNow(s)' = 0
  BY <1>1, <1>2 DEF SentNow, ReceivedNow, Fabric
<1>5. TcpSentNow(s)' = 0 /\ TcpReceivedNow(s)' = 0
  BY <1>1, <1>2, <1>3 DEF TcpSentNow, TcpReceivedNow
<1> QED
  BY <1>4, <1>5

\* The calls of a side in the loop.
LEMMA LoopIs ==
  ASSUME Typed, NEW s \in Sides, Shape(s), stage[s] = "loop", step[s] \in {"send", "recv", "post"}
  PROVE  /\ kind \notin RmaKinds
         /\ kind \in LockStepKinds => ~ OneWay(s) /\ SendsRound(s) /\ TakesRound(s)
                                      /\ (SendsFirst(s) <=> s = "client")
         /\ kind \in OneWayKinds => /\ OneWay(s) /\ (SendsRound(s) <=> s = "server")
                                    /\ (TakesRound(s) <=> s = "client")
                                    /\ (SendsFirst(s) <=> s = "server")
                                    /\ (s = "server" <=> step[s] = "send")
         /\ kind \in LockStepKinds \/ kind \in OneWayKinds
<1>1. s = "client" \/ s = "server"
  BY DEF Sides
<1>2. kind \notin RmaKinds
  BY DEF Shape
<1>4. kind \in LockStepKinds => ~ OneWay(s) /\ SendsRound(s) /\ TakesRound(s)
                                      /\ (SendsFirst(s) <=> s = "client")
  BY <1>1, OneKind DEF OneWay, SendsRound, TakesRound, SendsFirst, FirstStep
<1> QED
  BY <1>1, <1>2, <1>4, OneKind DEF Shape, OneWay, SendsRound, TakesRound, SendsFirst, FirstStep
-----------------------------------------------------------------------------
\* What a side has completed grows by the exchange, or the round, it finishes.
OverFabric(s) == IF OverTcp(s) THEN 0 ELSE 1

LEMMA DoneNext ==
  ASSUME Typed, NEW s \in Sides, Shape(s), stage[s] \in Exchanges, UNCHANGED fixed,
         stage'[s] = NextStage(s)
  PROVE  /\ Done(s)' = Done(s) + OverFabric(s)
         /\ TcpDone(s)' = TcpDone(s) + IF OverTcp(s) THEN Parts(Label(stage[s])) ELSE 0
<1>1. /\ Inband \in {0, 1} /\ (oob <=> Inband = 0) /\ Keyed \in {0, 1}
      /\ (kind \in RmaKinds <=> Keyed = 1) /\ Base = Inband + Keyed + Inband
      /\ UNCHANGED <<Inband, Keyed, Base>>
  BY DEF Inband, Keyed, Base, fixed
<1>2. stage[s] \in {"addr", "keys", "sync", "last"}
  BY DEF Exchanges
<1>3. RunsLast(s)' = RunsLast(s)
  BY DEF RunsLast, fixed
<1>4. CASE stage[s] = "addr"
  BY <1>1, <1>4 DEF NextStage, Done, TcpDone, OverFabric, OverTcp, fixed, Parts, Label
<1>5. CASE stage[s] = "keys"
  BY <1>1, <1>5 DEF NextStage, Done, TcpDone, OverFabric, OverTcp, fixed, Shape
<1>6. CASE stage[s] = "sync"
  BY <1>1, <1>6 DEF NextStage, Done, TcpDone, OverFabric, OverTcp, fixed, Parts, Label
<1>7. CASE stage[s] = "last"
  BY <1>1, <1>3, <1>7 DEF NextStage, Done, TcpDone, OverFabric, OverTcp, fixed, Shape, Parts, Label
<1> QED
  BY <1>2, <1>4, <1>5, <1>6, <1>7

\* The first call of the next stage.
LEMMA ShapeNext ==
  ASSUME Typed, NEW s \in Sides, Shape(s), stage[s] \in Exchanges \cup {"boot", "loop", "closed"},
         UNCHANGED fixed, step'[s] = FirstStep(s, stage'[s]),
         \/ stage[s] \in Exchanges \cup {"loop"} /\ stage'[s] = NextStage(s)
         \/ stage[s] = "boot" /\ stage'[s] = "addr"
         \/ stage[s] = "closed" /\ stage'[s] = "exited"
  PROVE  Shape(s)'
<1>1. (s = "client" \/ s = "server") /\ s' = s
  BY DEF Sides
<1>2. stage'[s] = "keys" => kind \in RmaKinds
  BY DEF NextStage, Exchanges
<1>3. stage'[s] = "loop" => stage[s] = "sync" /\ (s = "client" => kind \notin RmaKinds)
  BY DEF NextStage, Exchanges
<1>4. stage'[s] = "last" => RunsLast(s)
  BY OneKind DEF NextStage, Exchanges, RunsLast
<1>5. \A st : FirstStep(s, st) = "rma" <=> st = "loop" /\ kind \in RmaKinds
  <2>1. ASSUME NEW st, st = "loop" /\ kind \in RmaKinds
        PROVE  FirstStep(s, st) = "rma"
    BY <2>1, OneKind DEF FirstStep
  <2>2. ASSUME NEW st, ~ (st = "loop" /\ kind \in RmaKinds)
        PROVE  FirstStep(s, st) \in {"send", "recv"}
    BY <2>2 DEF FirstStep
  <2> QED
    BY <2>1, <2>2
<1>6. \A st : st = "loop" /\ kind \in OneWayKinds =>
         FirstStep(s, st) = IF s = "server" THEN "send" ELSE "recv"
  BY OneKind DEF FirstStep
<1> QED
  BY <1>1, <1>2, <1>3, <1>4, <1>5, <1>6 DEF Shape, RunsLast, OneWay, fixed

\* A side is done with an exchange, or with a round.
LEMMA FinishAdds ==
  ASSUME Typed, NEW s \in Sides, Within(s), Shape(s), Up(s), Finish(s), UNCHANGED fixed,
         part'[s] = 0
  PROVE  /\ Shape(s)'
         /\ Sent(s)' = Done(s) + SentRounds(s)
               + IF stage[s] = "loop" THEN (IF SendsRound(s) THEN 1 ELSE 0) ELSE OverFabric(s)
         /\ Received(s)' = Done(s) + TakenRounds(s)
               + IF stage[s] = "loop" THEN (IF TakesRound(s) THEN 1 ELSE 0) ELSE OverFabric(s)
         /\ TcpSent(s)' = TcpDone(s) + IF OverTcp(s) THEN Parts(Label(stage[s])) ELSE 0
         /\ TcpReceived(s)' = TcpDone(s) + IF OverTcp(s) THEN Parts(Label(stage[s])) ELSE 0
         /\ stage'[s] # "boot" /\ step'[s] # "post"
<1>1. SendsRound(s)' = SendsRound(s) /\ TakesRound(s)' = TakesRound(s) /\ RunsLast(s)' = RunsLast(s)
  BY DEF SendsRound, TakesRound, RunsLast, fixed
<1>2. rounds[s] \in Nat /\ Done(s) \in Nat /\ TcpDone(s) \in Nat /\ OverFabric(s) \in Nat
      /\ Parts(Label(stage[s])) \in Nat
  BY DEF Typed, Done, TcpDone, Inband, Keyed, Base, OverFabric, Parts
<1>3. CASE stage[s] = "loop"
  <2>1. stage'[s] = "loop" /\ step'[s] = "clock" /\ rounds'[s] = rounds[s] + 1
    BY <1>3 DEF Finish, Typed
  <2>2. Done(s)' = Done(s) /\ TcpDone(s)' = TcpDone(s) /\ ~ OverTcp(s)
    BY <1>3, <2>1 DEF Done, TcpDone, Base, Inband, Keyed, fixed, OverTcp
  <2>3. SentNow(s)' = 0 /\ ReceivedNow(s)' = 0 /\ TcpSentNow(s)' = 0 /\ TcpReceivedNow(s)' = 0
    BY <2>1 DEF SentNow, ReceivedNow, TcpSentNow, TcpReceivedNow, Fabric, OverTcp
  <2>4. /\ SentRounds(s)' = SentRounds(s) + (IF SendsRound(s) THEN 1 ELSE 0)
        /\ TakenRounds(s)' = TakenRounds(s) + (IF TakesRound(s) THEN 1 ELSE 0)
        /\ SentRounds(s) \in Nat /\ TakenRounds(s) \in Nat
    BY <1>1, <1>2, <2>1 DEF SentRounds, TakenRounds
  <2>5. Shape(s)'
    BY <1>3, <2>1 DEF Shape, OneWay, fixed
  <2>6. /\ Sent(s)' = Done(s) + SentRounds(s) + (IF SendsRound(s) THEN 1 ELSE 0)
        /\ Received(s)' = Done(s) + TakenRounds(s) + (IF TakesRound(s) THEN 1 ELSE 0)
    BY <1>2, <2>2, <2>3, <2>4 DEF Sent, Received
  <2>7. TcpSent(s)' = TcpDone(s) + 0 /\ TcpReceived(s)' = TcpDone(s) + 0
    BY <1>2, <2>2, <2>3 DEF TcpSent, TcpReceived
  <2> QED
    BY <1>3, <2>1, <2>2, <2>5, <2>6, <2>7
<1>4. CASE stage[s] # "loop"
  <2>1. GoTo(s, NextStage(s)) /\ stage[s] \in Exchanges
    BY <1>4, UpIs DEF Finish
  <2>2. stage'[s] = NextStage(s) /\ step'[s] = FirstStep(s, NextStage(s)) /\ rounds'[s] = rounds[s]
    BY <2>1 DEF GoTo, Typed
  <2>3. Shape(s)'
    BY <2>1, <2>2, ShapeNext
  <2>4. SentNow(s)' = 0 /\ ReceivedNow(s)' = 0 /\ TcpSentNow(s)' = 0 /\ TcpReceivedNow(s)' = 0
    BY <2>2, Freshly
  <2>5. SentRounds(s)' = SentRounds(s) /\ TakenRounds(s)' = TakenRounds(s)
        /\ SentRounds(s) \in Nat /\ TakenRounds(s) \in Nat
    BY <1>1, <1>2, <2>2 DEF SentRounds, TakenRounds
  <2>6. /\ Done(s)' = Done(s) + OverFabric(s)
        /\ TcpDone(s)' = TcpDone(s) + IF OverTcp(s) THEN Parts(Label(stage[s])) ELSE 0
    BY <2>1, <2>2, DoneNext
  <2>7. Sent(s)' = Done(s) + SentRounds(s) + OverFabric(s)
        /\ Received(s)' = Done(s) + TakenRounds(s) + OverFabric(s)
    BY <1>2, <2>4, <2>5, <2>6 DEF Sent, Received
  <2>8. /\ TcpSent(s)' = TcpDone(s) + IF OverTcp(s) THEN Parts(Label(stage[s])) ELSE 0
        /\ TcpReceived(s)' = TcpDone(s) + IF OverTcp(s) THEN Parts(Label(stage[s])) ELSE 0
    BY <1>2, <2>4, <2>6 DEF TcpSent, TcpReceived
  <2>9. stage'[s] # "boot" /\ step'[s] # "post"
    BY <2>2, NextStageIs, FirstStepIs
  <2> QED
    BY <1>4, <2>3, <2>7, <2>8, <2>9
<1> QED
  BY <1>3, <1>4

\* A side goes on with the other half of it.
LEMMA ContinueAdds ==
  ASSUME Typed, NEW s \in Sides, Shape(s), Up(s),
         NEW p \in {"send", "recv", "post"}, Continue(s, p), OneWay(s) => p = "post" /\ step[s] = "recv",
         step[s] \in {"send", "recv", "post"}, UNCHANGED fixed
  PROVE  /\ Shape(s)'
         /\ Sent(s)' = Done(s) + SentRounds(s) + SentNow(s)'
         /\ Received(s)' = Done(s) + TakenRounds(s) + ReceivedNow(s)'
         /\ TcpSent(s)' = TcpDone(s) + TcpSentNow(s)'
         /\ TcpReceived(s)' = TcpDone(s) + TcpReceivedNow(s)'
         /\ stage'[s] = stage[s] /\ step'[s] = p /\ Up(s)'
         /\ (SendsFirst(s)' <=> SendsFirst(s)) /\ (OverTcp(s)' <=> OverTcp(s))
<1>1. stage'[s] = stage[s] /\ step'[s] = p /\ rounds'[s] = rounds[s] /\ Up(s)'
  BY DEF Continue, Typed, Up
<1>2. /\ Done(s)' = Done(s) /\ TcpDone(s)' = TcpDone(s)
      /\ SentRounds(s)' = SentRounds(s) /\ TakenRounds(s)' = TakenRounds(s)
  BY <1>1 DEF Done, TcpDone, Base, Inband, Keyed, fixed, SentRounds, TakenRounds,
     SendsRound, TakesRound, RunsLast
<1>3. (SendsFirst(s)' <=> SendsFirst(s)) /\ (OverTcp(s)' <=> OverTcp(s))
  BY <1>1 DEF SendsFirst, FirstStep, OverTcp, fixed
<1>4. Shape(s)'
  BY <1>1 DEF Shape, OneWay, RunsLast, fixed
<1> QED
  BY <1>1, <1>2, <1>3, <1>4 DEF Sent, Received, TcpSent, TcpReceived
-----------------------------------------------------------------------------
\* A step of side s that sends and receives so much.
Counts(s, ds, dr, dts, dtr) ==
    /\ Shape(s)'
    /\ Sent(s)' = Sent(s) + ds
    /\ Received(s)' = Received(s) + dr
    /\ TcpSent(s)' = TcpSent(s) + dts
    /\ TcpReceived(s)' = TcpReceived(s) + dtr

\* Its own part of the invariant.
Placed(s) == Typed /\ part \in [Sides -> 0..1] /\ Within(s) /\ Parted(s) /\ Shape(s)

\* The calls of a side, one by one: what they send and receive.
LEMMA SendCounts ==
  ASSUME NEW s \in Sides, Placed(s), Send(s)
  PROVE  Counts(s, 1, 0, 0, 0) /\ stage'[s] # "boot" /\ step'[s] # "post"
<1>0. /\ step[s] = "send" /\ Up(s) /\ ~ OverTcp(s) /\ AfterSend(s) /\ UNCHANGED fixed
      /\ part' = part /\ Typed /\ Within(s) /\ Shape(s) /\ Fabric(s)
  BY DEF Send, Quiet, Placed, Fabric
<1>1. part[s] = 0
  <2>1. part[s] \in 0..1
    BY DEF Placed
  <2> QED
    BY <1>0, <2>1 DEF Placed, Parted, OverTcp
<1>2. /\ Done(s) \in Nat /\ SentRounds(s) \in Nat /\ TakenRounds(s) \in Nat /\ TcpDone(s) \in Nat
  BY CountsAre DEF Placed
<1>3. /\ SentNow(s) = 0 /\ ReceivedNow(s) = (IF SendsFirst(s) THEN 0 ELSE 1)
      /\ TcpSentNow(s) = 0 /\ TcpReceivedNow(s) = 0
  BY <1>0 DEF SentNow, ReceivedNow, TcpSentNow, TcpReceivedNow
<1>4. stage[s] # "boot" /\ OverFabric(s) = 1
  BY <1>0 DEF Up, OverFabric
<1>5. CASE SendsFirst(s) /\ ~ OneWay(s)
  <2>1. Continue(s, "recv")
    BY <1>0, <1>5 DEF AfterSend
  <2>2. /\ Shape(s)'
        /\ Sent(s)' = Done(s) + SentRounds(s) + SentNow(s)'
        /\ Received(s)' = Done(s) + TakenRounds(s) + ReceivedNow(s)'
        /\ TcpSent(s)' = TcpDone(s) + TcpSentNow(s)'
        /\ TcpReceived(s)' = TcpDone(s) + TcpReceivedNow(s)'
        /\ stage'[s] = stage[s] /\ step'[s] = "recv" /\ Up(s)'
        /\ (SendsFirst(s)' <=> SendsFirst(s)) /\ ~ OverTcp(s)'
    BY <1>0, <1>5, <2>1, ContinueAdds
  <2>3. SentNow(s)' = 1 /\ ReceivedNow(s)' = 0 /\ TcpSentNow(s)' = 0 /\ TcpReceivedNow(s)' = 0
    BY <1>5, <2>2 DEF SentNow, ReceivedNow, TcpSentNow, TcpReceivedNow, Fabric
  <2> QED
    BY <1>2, <1>3, <1>4, <1>5, <2>2, <2>3 DEF Counts, Sent, Received, TcpSent, TcpReceived
<1>6. CASE ~ (SendsFirst(s) /\ ~ OneWay(s))
  <2>1. Finish(s)
    BY <1>0, <1>6 DEF AfterSend
  <2>2. /\ Shape(s)'
        /\ Sent(s)' = Done(s) + SentRounds(s)
              + IF stage[s] = "loop" THEN (IF SendsRound(s) THEN 1 ELSE 0) ELSE 1
        /\ Received(s)' = Done(s) + TakenRounds(s)
              + IF stage[s] = "loop" THEN (IF TakesRound(s) THEN 1 ELSE 0) ELSE 1
        /\ TcpSent(s)' = TcpDone(s) + 0
        /\ TcpReceived(s)' = TcpDone(s) + 0
        /\ stage'[s] # "boot" /\ step'[s] # "post"
    BY <1>0, <1>1, <1>4, <2>1, FinishAdds
  <2>3. CASE stage[s] # "loop"
    <3>1. ~ SendsFirst(s)
      BY <1>6, <2>3 DEF OneWay
    <3> QED
      BY <1>2, <1>3, <2>2, <2>3, <3>1 DEF Counts, Sent, Received, TcpSent, TcpReceived
  <2>4. CASE stage[s] = "loop"
    <3>1. SendsRound(s) /\ (TakesRound(s) <=> ~ SendsFirst(s))
      BY <1>0, <1>6, <2>4, LoopIs DEF Sides
    <3> QED
      BY <1>2, <1>3, <2>2, <2>4, <3>1 DEF Counts, Sent, Received, TcpSent, TcpReceived
  <2> QED
    BY <2>3, <2>4
<1> QED
  BY <1>5, <1>6

LEMMA ReceiveCounts ==
  ASSUME NEW s \in Sides, Placed(s), step[s] = "recv", Up(s), ~ OverTcp(s), Continue(s, "post"),
         UNCHANGED <<fixed, part>>
  PROVE  Counts(s, 0, 1, 0, 0)
<1>0. Typed /\ Within(s) /\ Shape(s) /\ Fabric(s) /\ UNCHANGED fixed
  BY DEF Placed, Fabric
<1>2. /\ Done(s) \in Nat /\ SentRounds(s) \in Nat /\ TakenRounds(s) \in Nat /\ TcpDone(s) \in Nat
  BY CountsAre DEF Placed
<1>3. /\ Shape(s)'
      /\ Sent(s)' = Done(s) + SentRounds(s) + SentNow(s)'
      /\ Received(s)' = Done(s) + TakenRounds(s) + ReceivedNow(s)'
      /\ TcpSent(s)' = TcpDone(s) + TcpSentNow(s)'
      /\ TcpReceived(s)' = TcpDone(s) + TcpReceivedNow(s)'
      /\ stage'[s] = stage[s] /\ step'[s] = "post" /\ Up(s)'
      /\ (SendsFirst(s)' <=> SendsFirst(s)) /\ ~ OverTcp(s)'
  BY <1>0, ContinueAdds
<1>4. /\ SentNow(s)' = SentNow(s) /\ ReceivedNow(s) = 0 /\ ReceivedNow(s)' = 1
      /\ TcpSentNow(s)' = 0 /\ TcpReceivedNow(s)' = 0 /\ TcpSentNow(s) = 0 /\ TcpReceivedNow(s) = 0
      /\ SentNow(s) \in {0, 1}
  BY <1>0, <1>3 DEF SentNow, ReceivedNow, TcpSentNow, TcpReceivedNow, Fabric
<1> QED
  BY <1>2, <1>3, <1>4 DEF Counts, Sent, Received, TcpSent, TcpReceived

LEMMA PostRxCounts ==
  ASSUME NEW s \in Sides, Placed(s), PostRx(s)
  PROVE  Counts(s, 0, 0, 0, 0) /\ stage'[s] # "boot" /\ step'[s] # "post"
<1>0. /\ step[s] = "post" /\ Up(s) /\ ~ OverTcp(s) /\ AfterReceive(s) /\ UNCHANGED fixed
      /\ part' = part /\ Typed /\ Within(s) /\ Shape(s) /\ Fabric(s)
  BY DEF PostRx, Quiet, Placed, Fabric, Within
<1>1. part[s] = 0
  <2>1. part[s] \in 0..1
    BY DEF Placed
  <2> QED
    BY <1>0, <2>1 DEF Placed, Parted
<1>2. /\ Done(s) \in Nat /\ SentRounds(s) \in Nat /\ TakenRounds(s) \in Nat /\ TcpDone(s) \in Nat
  BY CountsAre DEF Placed
<1>3. /\ SentNow(s) = (IF SendsFirst(s) THEN 1 ELSE 0) /\ ReceivedNow(s) = 1
      /\ TcpSentNow(s) = 0 /\ TcpReceivedNow(s) = 0
  BY <1>0 DEF SentNow, ReceivedNow, TcpSentNow, TcpReceivedNow
<1>4. stage[s] # "boot" /\ OverFabric(s) = 1
  BY <1>0 DEF Up, OverFabric
<1>5. CASE ~ SendsFirst(s) /\ ~ OneWay(s)
  <2>1. Continue(s, "send")
    BY <1>0, <1>5 DEF AfterReceive
  <2>2. /\ Shape(s)'
        /\ Sent(s)' = Done(s) + SentRounds(s) + SentNow(s)'
        /\ Received(s)' = Done(s) + TakenRounds(s) + ReceivedNow(s)'
        /\ TcpSent(s)' = TcpDone(s) + TcpSentNow(s)'
        /\ TcpReceived(s)' = TcpDone(s) + TcpReceivedNow(s)'
        /\ stage'[s] = stage[s] /\ step'[s] = "send" /\ Up(s)'
        /\ (SendsFirst(s)' <=> SendsFirst(s)) /\ ~ OverTcp(s)'
    BY <1>0, <1>5, <2>1, ContinueAdds
  <2>3. SentNow(s)' = 0 /\ ReceivedNow(s)' = 1 /\ TcpSentNow(s)' = 0 /\ TcpReceivedNow(s)' = 0
    BY <1>5, <2>2 DEF SentNow, ReceivedNow, TcpSentNow, TcpReceivedNow, Fabric
  <2> QED
    BY <1>2, <1>3, <1>4, <1>5, <2>2, <2>3 DEF Counts, Sent, Received, TcpSent, TcpReceived
<1>6. CASE SendsFirst(s) \/ OneWay(s)
  <2>1. Finish(s)
    BY <1>0, <1>6 DEF AfterReceive
  <2>2. /\ Shape(s)'
        /\ Sent(s)' = Done(s) + SentRounds(s)
              + IF stage[s] = "loop" THEN (IF SendsRound(s) THEN 1 ELSE 0) ELSE 1
        /\ Received(s)' = Done(s) + TakenRounds(s)
              + IF stage[s] = "loop" THEN (IF TakesRound(s) THEN 1 ELSE 0) ELSE 1
        /\ TcpSent(s)' = TcpDone(s) + 0
        /\ TcpReceived(s)' = TcpDone(s) + 0
        /\ stage'[s] # "boot" /\ step'[s] # "post"
    BY <1>0, <1>1, <1>4, <2>1, FinishAdds
  <2>3. CASE stage[s] # "loop"
    <3>1. SendsFirst(s)
      BY <1>6, <2>3 DEF OneWay
    <3> QED
      BY <1>2, <1>3, <2>2, <2>3, <3>1 DEF Counts, Sent, Received, TcpSent, TcpReceived
  <2>4. CASE stage[s] = "loop"
    <3>1. TakesRound(s) /\ (SendsRound(s) <=> SendsFirst(s))
      BY <1>0, <1>6, <2>4, LoopIs DEF Sides
    <3> QED
      BY <1>2, <1>3, <2>2, <2>4, <3>1 DEF Counts, Sent, Received, TcpSent, TcpReceived
  <2> QED
    BY <2>3, <2>4
<1> QED
  BY <1>5, <1>6

\* The sockets: a part of a message at a time.
LEMMA NotOverFabric ==
  ASSUME NEW s \in Sides, Placed(s), OverTcp(s)
  PROVE  /\ stage[s] \in {"addr", "sync", "last"} /\ ~ OneWay(s) /\ Up(s) /\ OverFabric(s) = 0
         /\ oob /\ SentNow(s) = 0 /\ ReceivedNow(s) = 0
         /\ Parts(Label(stage[s])) \in {1, 2} /\ part[s] \in {0, 1}
         /\ Done(s) \in Nat /\ SentRounds(s) \in Nat /\ TakenRounds(s) \in Nat /\ TcpDone(s) \in Nat
<1>1. part[s] \in 0..1
  BY DEF Placed
<1>2. stage[s] \in {"addr", "sync", "last"} /\ Up(s) /\ oob
  BY DEF OverTcp, Up, Ended
<1> QED
  BY <1>1, <1>2, CountsAre DEF Placed, OneWay, OverFabric, SentNow, ReceivedNow, Fabric, Parts

\* The part is not the last.
LEMMA PartCounts ==
  ASSUME NEW s \in Sides, Placed(s), OverTcp(s), step[s] \in {"send", "recv"},
         part' = [part EXCEPT ![s] = @ + 1], UNCHANGED <<control, fixed>>
  PROVE  IF step[s] = "send" THEN Counts(s, 0, 0, 1, 0) ELSE Counts(s, 0, 0, 0, 1)
<1>0. /\ stage[s] \in {"addr", "sync", "last"} /\ oob /\ SentNow(s) = 0 /\ ReceivedNow(s) = 0
      /\ part[s] \in {0, 1}
      /\ Done(s) \in Nat /\ SentRounds(s) \in Nat /\ TakenRounds(s) \in Nat /\ TcpDone(s) \in Nat
  BY NotOverFabric
<1>1. part'[s] = part[s] + 1
  BY DEF Placed
<1>2. /\ Done(s)' = Done(s) /\ TcpDone(s)' = TcpDone(s)
      /\ SentRounds(s)' = SentRounds(s) /\ TakenRounds(s)' = TakenRounds(s)
  BY DEF control, Done, TcpDone, Base, Inband, Keyed, fixed, SentRounds, TakenRounds,
     SendsRound, TakesRound, RunsLast
<1>3. Shape(s)'
  BY DEF Placed, control, Shape, OneWay, RunsLast, fixed
<1>4. SentNow(s)' = 0 /\ ReceivedNow(s)' = 0
  BY <1>0 DEF control, fixed, SentNow, ReceivedNow, Fabric, OverTcp
<1>5. /\ step[s] = "send" => /\ TcpSentNow(s) = part[s] /\ TcpSentNow(s)' = part[s] + 1
                             /\ TcpReceivedNow(s)' = TcpReceivedNow(s)
      /\ step[s] # "send" => /\ TcpReceivedNow(s) = part[s] /\ TcpReceivedNow(s)' = part[s] + 1
                             /\ TcpSentNow(s)' = TcpSentNow(s)
  BY <1>0, <1>1 DEF control, fixed, TcpSentNow, TcpReceivedNow, OverTcp, SendsFirst, FirstStep
<1>6. TcpSentNow(s) \in Nat /\ TcpReceivedNow(s) \in Nat
  BY CountsAre DEF Placed
<1> QED
  BY <1>0, <1>2, <1>3, <1>4, <1>5, <1>6 DEF Counts, Sent, Received, TcpSent, TcpReceived

LEMMA SockSendCounts ==
  ASSUME NEW s \in Sides, Placed(s), SockSend(s)
  PROVE  Counts(s, 0, 0, 1, 0) /\ stage'[s] # "boot" /\ step'[s] # "post"
<1>0. /\ step[s] = "send" /\ OverTcp(s) /\ UNCHANGED fixed /\ Typed /\ Within(s) /\ Shape(s)
      /\ NextPart(s, AfterSend(s))
  BY DEF SockSend, Quiet, Placed
<1>1. /\ stage[s] \in {"addr", "sync", "last"} /\ ~ OneWay(s) /\ Up(s) /\ OverFabric(s) = 0
      /\ oob /\ SentNow(s) = 0 /\ ReceivedNow(s) = 0
      /\ Parts(Label(stage[s])) \in {1, 2} /\ part[s] \in {0, 1}
      /\ Done(s) \in Nat /\ SentRounds(s) \in Nat /\ TakenRounds(s) \in Nat /\ TcpDone(s) \in Nat
  BY <1>0, NotOverFabric
<1>2. CASE part' = [part EXCEPT ![s] = @ + 1] /\ UNCHANGED control
  <2>1. Counts(s, 0, 0, 1, 0)
    BY <1>0, <1>2, PartCounts
  <2> QED
    BY <1>0, <1>1, <1>2, <2>1 DEF control
<1>3. CASE /\ part[s] + 1 = Parts(Label(stage[s]))
           /\ part' = [part EXCEPT ![s] = 0]
           /\ AfterSend(s)
  <2>1. part'[s] = 0
    BY <1>3 DEF Placed
  <2>2. /\ TcpSentNow(s) = part[s]
        /\ TcpReceivedNow(s) = (IF SendsFirst(s) THEN 0 ELSE Parts(Label(stage[s])))
    BY <1>0 DEF TcpSentNow, TcpReceivedNow
  <2>3. CASE SendsFirst(s)
    <3>1. Continue(s, "recv")
      BY <1>1, <1>3, <2>3 DEF AfterSend
    <3>2. /\ Shape(s)'
          /\ Sent(s)' = Done(s) + SentRounds(s) + SentNow(s)'
          /\ Received(s)' = Done(s) + TakenRounds(s) + ReceivedNow(s)'
          /\ TcpSent(s)' = TcpDone(s) + TcpSentNow(s)'
          /\ TcpReceived(s)' = TcpDone(s) + TcpReceivedNow(s)'
          /\ stage'[s] = stage[s] /\ step'[s] = "recv" /\ Up(s)'
          /\ (SendsFirst(s)' <=> SendsFirst(s)) /\ (OverTcp(s)' <=> OverTcp(s))
      BY <1>0, <1>1, <3>1, ContinueAdds
    <3>3. SentNow(s)' = 0 /\ ReceivedNow(s)' = 0
      BY <1>0, <3>2 DEF SentNow, ReceivedNow, Fabric
    <3>4. TcpSentNow(s)' = Parts(Label(stage[s])) /\ TcpReceivedNow(s)' = 0
      BY <1>0, <2>1, <2>3, <3>2 DEF TcpSentNow, TcpReceivedNow
    <3>5. stage'[s] # "boot" /\ step'[s] # "post"
      BY <1>1, <3>2
    <3> QED
      BY <1>1, <1>3, <2>2, <2>3, <3>2, <3>3, <3>4, <3>5 DEF Counts, Sent, Received, TcpSent, TcpReceived
  <2>4. CASE ~ SendsFirst(s)
    <3>1. Finish(s)
      BY <1>1, <1>3, <2>4 DEF AfterSend
    <3>2. /\ Shape(s)'
          /\ Sent(s)' = Done(s) + SentRounds(s) + 0
          /\ Received(s)' = Done(s) + TakenRounds(s) + 0
          /\ TcpSent(s)' = TcpDone(s) + Parts(Label(stage[s]))
          /\ TcpReceived(s)' = TcpDone(s) + Parts(Label(stage[s]))
          /\ stage'[s] # "boot" /\ step'[s] # "post"
      BY <1>0, <1>1, <2>1, <3>1, FinishAdds
    <3> QED
      BY <1>1, <1>3, <2>2, <2>4, <3>2 DEF Counts, Sent, Received, TcpSent, TcpReceived
  <2> QED
    BY <2>3, <2>4
<1> QED
  BY <1>0, <1>2, <1>3 DEF NextPart

LEMMA SockReceiveCounts ==
  ASSUME NEW s \in Sides, Placed(s), SockReceive(s)
  PROVE  Counts(s, 0, 0, 0, 1) /\ stage'[s] # "boot" /\ step'[s] # "post"
<1>0. /\ step[s] = "recv" /\ OverTcp(s) /\ UNCHANGED fixed /\ Typed /\ Within(s) /\ Shape(s)
      /\ NextPart(s, AfterReceive(s))
  BY DEF SockReceive, Quiet, Placed
<1>1. /\ stage[s] \in {"addr", "sync", "last"} /\ ~ OneWay(s) /\ Up(s) /\ OverFabric(s) = 0
      /\ oob /\ SentNow(s) = 0 /\ ReceivedNow(s) = 0
      /\ Parts(Label(stage[s])) \in {1, 2} /\ part[s] \in {0, 1}
      /\ Done(s) \in Nat /\ SentRounds(s) \in Nat /\ TakenRounds(s) \in Nat /\ TcpDone(s) \in Nat
  BY <1>0, NotOverFabric
<1>2. CASE part' = [part EXCEPT ![s] = @ + 1] /\ UNCHANGED control
  <2>1. Counts(s, 0, 0, 0, 1)
    BY <1>0, <1>2, PartCounts
  <2> QED
    BY <1>0, <1>1, <1>2, <2>1 DEF control
<1>3. CASE /\ part[s] + 1 = Parts(Label(stage[s]))
           /\ part' = [part EXCEPT ![s] = 0]
           /\ AfterReceive(s)
  <2>1. part'[s] = 0
    BY <1>3 DEF Placed
  <2>2. /\ TcpReceivedNow(s) = part[s]
        /\ TcpSentNow(s) = (IF SendsFirst(s) THEN Parts(Label(stage[s])) ELSE 0)
    BY <1>0 DEF TcpSentNow, TcpReceivedNow
  <2>3. CASE ~ SendsFirst(s)
    <3>1. Continue(s, "send")
      BY <1>1, <1>3, <2>3 DEF AfterReceive
    <3>2. /\ Shape(s)'
          /\ Sent(s)' = Done(s) + SentRounds(s) + SentNow(s)'
          /\ Received(s)' = Done(s) + TakenRounds(s) + ReceivedNow(s)'
          /\ TcpSent(s)' = TcpDone(s) + TcpSentNow(s)'
          /\ TcpReceived(s)' = TcpDone(s) + TcpReceivedNow(s)'
          /\ stage'[s] = stage[s] /\ step'[s] = "send" /\ Up(s)'
          /\ (SendsFirst(s)' <=> SendsFirst(s)) /\ (OverTcp(s)' <=> OverTcp(s))
      BY <1>0, <1>1, <3>1, ContinueAdds
    <3>3. SentNow(s)' = 0 /\ ReceivedNow(s)' = 0
      BY <1>0, <3>2 DEF SentNow, ReceivedNow, Fabric
    <3>4. TcpReceivedNow(s)' = Parts(Label(stage[s])) /\ TcpSentNow(s)' = 0
      BY <1>0, <2>1, <2>3, <3>2 DEF TcpSentNow, TcpReceivedNow
    <3>5. stage'[s] # "boot" /\ step'[s] # "post"
      BY <1>1, <3>2
    <3> QED
      BY <1>1, <1>3, <2>2, <2>3, <3>2, <3>3, <3>4, <3>5 DEF Counts, Sent, Received, TcpSent, TcpReceived
  <2>4. CASE SendsFirst(s)
    <3>1. Finish(s)
      BY <1>1, <1>3, <2>4 DEF AfterReceive
    <3>2. /\ Shape(s)'
          /\ Sent(s)' = Done(s) + SentRounds(s) + 0
          /\ Received(s)' = Done(s) + TakenRounds(s) + 0
          /\ TcpSent(s)' = TcpDone(s) + Parts(Label(stage[s]))
          /\ TcpReceived(s)' = TcpDone(s) + Parts(Label(stage[s]))
          /\ stage'[s] # "boot" /\ step'[s] # "post"
      BY <1>0, <1>1, <2>1, <3>1, FinishAdds
    <3> QED
      BY <1>1, <1>3, <2>2, <2>4, <3>2 DEF Counts, Sent, Received, TcpSent, TcpReceived
  <2> QED
    BY <2>3, <2>4
<1> QED
  BY <1>0, <1>2, <1>3 DEF NextPart

\* The data word of an operation is a message.
LEMMA RmaCounts ==
  ASSUME NEW s \in Sides, Placed(s), Rma(s), kind \in RmaKinds
  PROVE  /\ Counts(s, IF mode = "writedata" THEN 1 ELSE 0, 0, 0, 0)
         /\ s = "server" /\ stage'[s] # "boot" /\ step'[s] # "post" /\ stage'[s] = "loop"
<1>0. /\ step[s] = "rma" /\ stage[s] = "loop" /\ Up(s) /\ ~ OverTcp(s) /\ Finish(s)
      /\ UNCHANGED fixed /\ part' = part /\ Typed /\ Within(s) /\ Shape(s)
  BY DEF Rma, Quiet, Placed, Up, Ended, OverTcp
<1>1. part[s] = 0
  <2>1. part[s] \in 0..1
    BY DEF Placed
  <2> QED
    BY <1>0, <2>1 DEF Placed, Parted
<1>2. s = "server" /\ (SendsRound(s) <=> mode = "writedata") /\ ~ TakesRound(s)
  BY <1>0, OneKind DEF Shape, SendsRound, TakesRound, Sides
<1>3. /\ Done(s) \in Nat /\ SentRounds(s) \in Nat /\ TakenRounds(s) \in Nat /\ TcpDone(s) \in Nat
  BY CountsAre DEF Placed
<1>4. SentNow(s) = 0 /\ ReceivedNow(s) = 0 /\ TcpSentNow(s) = 0 /\ TcpReceivedNow(s) = 0
  BY <1>0 DEF SentNow, ReceivedNow, TcpSentNow, TcpReceivedNow, Fabric
<1>5. /\ Shape(s)'
      /\ Sent(s)' = Done(s) + SentRounds(s) + (IF SendsRound(s) THEN 1 ELSE 0)
      /\ Received(s)' = Done(s) + TakenRounds(s) + (IF TakesRound(s) THEN 1 ELSE 0)
      /\ TcpSent(s)' = TcpDone(s) + 0
      /\ TcpReceived(s)' = TcpDone(s) + 0
      /\ stage'[s] # "boot" /\ step'[s] # "post"
  BY <1>0, <1>1, FinishAdds
<1>6. stage'[s] = "loop"
  BY <1>0 DEF Finish
<1> QED
  BY <1>2, <1>3, <1>4, <1>5, <1>6 DEF Counts, Sent, Received, TcpSent, TcpReceived

\* The rest of the program sends and receives nothing.
LEMMA IdleCounts ==
  ASSUME NEW s \in Sides, Placed(s), Enable(s) \/ GoOn(s) \/ TimeUp(s) \/ ProcessEnds(s),
         stage[s] = "boot" => step[s] = "send"
  PROVE  Counts(s, 0, 0, 0, 0) /\ stage'[s] # "boot" /\ step'[s] # "post"
<1>0. UNCHANGED fixed /\ part' = part /\ Typed /\ Within(s) /\ Shape(s) /\ rounds' = rounds
  BY DEF Enable, GoOn, TimeUp, ProcessEnds, GoTo, Continue, Quiet, Placed
<1>1. part[s] = 0
  <2>1. part[s] \in 0..1
    BY DEF Placed
  <2> QED
    BY <1>0, <2>1 DEF Placed, Parted, Enable, GoOn, TimeUp, ProcessEnds
<1>2. PICK st \in {"addr", "loop", "last", "closed", "exited"} :
          /\ stage'[s] = st /\ step'[s] = FirstStep(s, st)
          /\ \/ stage[s] = "boot" /\ st = "addr" /\ step[s] = "send"
             \/ stage[s] = "loop" /\ st = "loop" /\ step[s] = "clock"
             \/ stage[s] = "loop" /\ st = NextStage(s) /\ st # "loop" /\ step[s] = "clock"
             \/ stage[s] = "closed" /\ st = "exited"
  <2>1. CASE Enable(s)
    BY <1>0, <2>1 DEF Enable, GoTo, Typed
  <2>2. CASE GoOn(s)
    BY <1>0, <2>2 DEF GoOn, Continue, Typed, Within
  <2>3. CASE TimeUp(s)
    <3>1. stage[s] = "loop" /\ step[s] = "clock" /\ NextStage(s) \in {"last", "closed"}
      BY <1>0, <2>3 DEF TimeUp, Within, NextStage
    <3> QED
      BY <1>0, <2>3, <3>1 DEF TimeUp, GoTo, Typed
  <2>4. CASE ProcessEnds(s)
    BY <1>0, <2>4 DEF ProcessEnds, GoTo, Typed
  <2> QED
    BY <2>1, <2>2, <2>3, <2>4
<1>3. SentNow(s)' = 0 /\ ReceivedNow(s)' = 0 /\ TcpSentNow(s)' = 0 /\ TcpReceivedNow(s)' = 0
  BY <1>0, <1>1, <1>2, Freshly
<1>4. SentNow(s) = 0 /\ ReceivedNow(s) = 0 /\ TcpSentNow(s) = 0 /\ TcpReceivedNow(s) = 0
  BY <1>2 DEF SentNow, ReceivedNow, TcpSentNow, TcpReceivedNow, Fabric, Up, Ended, OverTcp
<1>5. SentRounds(s)' = SentRounds(s) /\ TakenRounds(s)' = TakenRounds(s)
  BY <1>0 DEF SentRounds, TakenRounds, SendsRound, TakesRound, fixed
<1>6. stage[s] = "loop" /\ NextStage(s) # "last" => ~ RunsLast(s)
  BY <1>0, OneKind DEF NextStage, RunsLast, Shape
<1>7. UNCHANGED <<Base, Inband, Keyed, RunsLast(s)>>
  BY <1>0 DEF Base, Inband, Keyed, RunsLast, fixed
<1>8. Done(s)' = Done(s) /\ TcpDone(s)' = TcpDone(s)
  <2>1. stage'[s] = st /\ UNCHANGED oob
    BY <1>0, <1>2 DEF fixed
  <2>2. CASE stage[s] = "loop" /\ st = NextStage(s) /\ st # "loop"
    <3>1. st \in {"last", "closed"}
      BY <2>2 DEF NextStage
    <3> QED
      BY <1>6, <1>7, <2>1, <2>2, <3>1 DEF Done, TcpDone
  <2>3. CASE stage[s] = "boot" \/ st = "loop" \/ stage[s] = "closed"
    BY <1>2, <1>7, <2>1, <2>3 DEF Done, TcpDone
  <2> QED
    BY <1>2, <2>2, <2>3
<1>9. Shape(s)'
  <2>1. CASE stage'[s] = "loop" /\ stage[s] = "loop"
    <3>1. kind \in RmaKinds => FirstStep(s, "loop") = "rma"
      BY <1>0, OneKind DEF FirstStep
    <3>2. kind \in OneWayKinds => FirstStep(s, "loop") = IF s = "server" THEN "send" ELSE "recv"
      BY OneKind, <1>0 DEF FirstStep
    <3> QED
      BY <1>0, <1>2, <2>1, <3>1, <3>2, FirstStepIs DEF Shape, OneWay, fixed
  <2>2. CASE ~ (stage'[s] = "loop" /\ stage[s] = "loop")
    BY <1>0, <1>2, <2>2, ShapeNext
  <2> QED
    BY <2>1, <2>2
<1>10. stage'[s] # "boot" /\ step'[s] # "post"
  BY <1>2, FirstStepIs
<1>11. /\ Done(s) \in Nat /\ SentRounds(s) \in Nat /\ TakenRounds(s) \in Nat /\ TcpDone(s) \in Nat
  BY CountsAre DEF Placed
<1> QED
  BY <1>3, <1>4, <1>5, <1>8, <1>9, <1>10, <1>11 DEF Counts, Sent, Received, TcpSent, TcpReceived

\* The client of "rma" is released from its last sync without an answer.
LEMMA PeerGoneCounts ==
  ASSUME NEW s \in Sides, Placed(s), PeerGone(s), stage[s] = "last", s = "client", kind = "rma"
  PROVE  Counts(s, 0, 0, 0, 1) /\ stage'[s] = "closed" /\ step'[s] # "post"
<1>0. /\ step[s] = "recv" /\ OverTcp(s) /\ UNCHANGED fixed /\ Typed /\ Within(s) /\ Shape(s)
      /\ Leave(s) /\ part' = [part EXCEPT ![s] = 0]
  BY DEF PeerGone, Quiet, Placed
<1>1. /\ Up(s) /\ OverFabric(s) = 0 /\ oob /\ SentNow(s) = 0 /\ ReceivedNow(s) = 0
      /\ Parts(Label(stage[s])) = 1
      /\ Done(s) \in Nat /\ SentRounds(s) \in Nat /\ TakenRounds(s) \in Nat /\ TcpDone(s) \in Nat
  BY <1>0, NotOverFabric DEF Parts, Label
<1>2. part[s] = 0 /\ part'[s] = 0
  <2>1. part[s] \in 0..1 /\ part \in [Sides -> 0..1]
    BY DEF Placed
  <2> QED
    BY <1>0, <2>1 DEF Placed, Parted
<1>3. Finish(s)
  BY <1>0 DEF Leave, Finish
<1>4. /\ Shape(s)'
      /\ Sent(s)' = Done(s) + SentRounds(s) + 0
      /\ Received(s)' = Done(s) + TakenRounds(s) + 0
      /\ TcpSent(s)' = TcpDone(s) + 1
      /\ TcpReceived(s)' = TcpDone(s) + 1
  BY <1>0, <1>1, <1>2, <1>3, FinishAdds
<1>5. SendsFirst(s)
  BY DEF SendsFirst, FirstStep
<1>6. TcpSentNow(s) = 1 /\ TcpReceivedNow(s) = 0
  BY <1>0, <1>1, <1>2, <1>5 DEF TcpSentNow, TcpReceivedNow
<1>7. stage'[s] = "closed" /\ step'[s] # "post"
  BY <1>0, <1>3, FirstStepIs DEF Finish, GoTo, NextStage, Typed
<1> QED
  BY <1>1, <1>4, <1>6, <1>7 DEF Counts, Sent, Received, TcpSent, TcpReceived
-----------------------------------------------------------------------------
(***************************************************************************)
(* What lies between the sides.                                            *)
(***************************************************************************)
\* What the k-th message of a session is, over the fabric and over TCP.
Nth(kd, o, k) ==
    LET n == IF o THEN 0 ELSE 1
    IN CASE k <= n -> "addr"
         [] k = n + 1 /\ kd \in RmaKinds -> "keys"
         [] OTHER -> IF kd \in RmaKinds \/ k <= n + n THEN "sync" ELSE "data"

TcpNth(k) == IF k <= 2 THEN "addr" ELSE "sync"

\* The server's data follow each other unasked.
Streams(s) ==
    /\ s = "server"
    /\ kind \in OneWayKinds \/ mode = "writedata"
    /\ stage[s] \notin {"boot", "addr", "keys", "sync"}

\* The client of "rma" may have left without an answer.
Left(s) == kind = "rma" /\ s = "client" /\ stage[s] \in Ended

\* No message is received that was not sent.
NoneMade(s) == rx_cq_cntr[s] + Len(arrived[s]) + Len(net[s]) <= Sent(Peer(s))

\* On the connection nothing is lost.
TcpLaw(s) == ~ Left(s) =>
    /\ TcpReceived(s) + Len(tcp[s]) = TcpSent(Peer(s))
    /\ \A i \in 1..Len(tcp[s]) : tcp[s][i] = TcpNth(TcpReceived(s) + i)

\* Nor on the fabric, if nothing was: the messages come in the order sent.
Ordered(s) == mode # "tagged" /\ ~ lost =>
    /\ rx_cq_cntr[s] + Len(arrived[s]) + Len(net[s]) = Sent(Peer(s))
    /\ \A i \in 1..Len(arrived[s]) : rx_cq_cntr[s] + i <= Base \/ kind \notin RmaKinds =>
          arrived[s][i].label = Nth(kind, oob, rx_cq_cntr[s] + i)
    /\ \A i \in 1..Len(net[s]) :
          rx_cq_cntr[s] + Len(arrived[s]) + i <= Base \/ kind \notin RmaKinds =>
             net[s][i].label = Nth(kind, oob, rx_cq_cntr[s] + Len(arrived[s]) + i)

\* Before data stream, a message under way is the last one the peer has sent.
Solo(s) == mode # "tagged" /\ ~ Streams(Peer(s)) =>
    /\ \A i \in 1..Len(arrived[s]) : arrived[s][i].label = Nth(kind, oob, Sent(Peer(s)))
    /\ \A i \in 1..Len(net[s]) : net[s][i].label = Nth(kind, oob, Sent(Peer(s)))

\* With --tagged its number tells which message it is.
Own(m) == (m.tag = NoTag /\ m.label = "data") \/ m.label = Nth(kind, oob, m.tag + 1)

ByTag(s) == mode = "tagged" =>
    /\ \A i \in 1..Len(arrived[s]) : Own(arrived[s][i])
    /\ \A i \in 1..Len(net[s]) : Own(net[s][i])

\* Out-of-band, the fabric carries nothing but data, and keys.
OnlyData(s) == oob /\ kind \notin RmaKinds =>
    /\ \A i \in 1..Len(arrived[s]) : arrived[s][i].label = "data"
    /\ \A i \in 1..Len(net[s]) : net[s][i].label = "data"

Between(s) ==
    NoneMade(s) /\ TcpLaw(s) /\ Ordered(s) /\ Solo(s) /\ ByTag(s) /\ OnlyData(s)

-----------------------------------------------------------------------------
\* How much of what is between them a step leaves alone.
LEMMA BetweenStays ==
  ASSUME NEW s \in Sides, Between(s), UNCHANGED <<fixed, losses>>,
         rx_cq_cntr'[s] = rx_cq_cntr[s], arrived'[s] = arrived[s],
         net'[s] = net[s], tcp'[s] = tcp[s],
         Sent(Peer(s))' = Sent(Peer(s)), TcpSent(Peer(s))' = TcpSent(Peer(s)),
         TcpReceived(s)' = TcpReceived(s) \/ Left(s)', Left(s) => Left(s)',
         Streams(Peer(s)) => Streams(Peer(s))'
  PROVE  Between(s)'
<1>0. UNCHANGED <<Base, kind, oob, mode, lost>>
  BY DEF Base, Inband, Keyed, fixed, lost
<1>1. NoneMade(s)'
  BY DEF Between, NoneMade
<1>2. TcpLaw(s)'
  BY DEF Between, TcpLaw
<1>3. Ordered(s)'
  BY <1>0 DEF Between, Ordered
<1>4. Solo(s)'
  BY <1>0 DEF Between, Solo
<1>5. ByTag(s)'
  BY <1>0 DEF Between, ByTag, Own
<1>6. OnlyData(s)'
  BY <1>0 DEF Between, OnlyData
<1> QED
  BY <1>1, <1>2, <1>3, <1>4, <1>5, <1>6 DEF Between

\* Counting.
LEMMA OneMore ==
  /\ \A a, b, c \in Nat : a + b + (c + 1) = (a + b + c) + 1
  /\ \A a, b \in Nat : a + 0 + (b + 1) = a + 1 + b
  OBVIOUS

\* The peer posts a message.
LEMMA BetweenPost ==
  ASSUME Typed, NEW s \in Sides, Between(s), UNCHANGED <<fixed, losses>>,
         rx_cq_cntr'[s] = rx_cq_cntr[s], arrived'[s] = arrived[s], tcp'[s] = tcp[s],
         NEW m \in AnyMessage, net'[s] = Append(net[s], m),
         Sent(Peer(s)) \in Nat, Sent(Peer(s))' = Sent(Peer(s)) + 1,
         TcpSent(Peer(s))' = TcpSent(Peer(s)),
         TcpReceived(s)' = TcpReceived(s), Left(s) => Left(s)',
         Streams(Peer(s)) => Streams(Peer(s))',
         \/ m.label = Nth(kind, oob, Sent(Peer(s)) + 1)
         \/ kind \in RmaKinds /\ Sent(Peer(s)) >= Base /\ Streams(Peer(s)),
         mode # "tagged" /\ ~ Streams(Peer(s)) => rx_cq_cntr[s] >= Sent(Peer(s)),
         mode = "tagged" => Own(m),
         oob /\ kind \notin RmaKinds => m.label = "data"
  PROVE  Between(s)'
<1> DEFINE a == Len(arrived[s])
           n == Len(net[s])
           x == Sent(Peer(s))
<1>0. /\ UNCHANGED <<Base, kind, oob, mode, lost>> /\ Base \in Nat
      /\ a \in Nat /\ n \in Nat /\ rx_cq_cntr[s] \in Nat /\ x \in Nat
  BY LenProperties DEF Base, Inband, Keyed, fixed, lost, Typed
<1>1. /\ Len(net'[s]) = n + 1
      /\ \A i \in 1..n : net'[s][i] = net[s][i]
      /\ net'[s][n + 1] = m
  BY AppendProperties DEF Typed
<1>2. 1..(n + 1) = 1..n \cup {n + 1}
  BY <1>0
<1>3. NoneMade(s)'
  <2>1. rx_cq_cntr[s] + a + n <= x
    BY DEF Between, NoneMade
  <2>2. NoneMade(s)' <=> rx_cq_cntr[s] + a + (n + 1) <= x + 1
    BY <1>1 DEF NoneMade
  <2> HIDE DEF a, n, x
  <2> QED
    BY <1>0, <2>1, <2>2
<1>4. TcpLaw(s)'
  BY DEF Between, TcpLaw
<1>5. Ordered(s)'
  <2> SUFFICES ASSUME mode # "tagged", ~ lost
               PROVE  Ordered(s)'
    BY <1>0 DEF Ordered
  <2>1. /\ rx_cq_cntr[s] + a + n = x
        /\ \A i \in 1..a : rx_cq_cntr[s] + i <= Base \/ kind \notin RmaKinds =>
              arrived[s][i].label = Nth(kind, oob, rx_cq_cntr[s] + i)
        /\ \A i \in 1..n : rx_cq_cntr[s] + a + i <= Base \/ kind \notin RmaKinds =>
              net[s][i].label = Nth(kind, oob, rx_cq_cntr[s] + a + i)
    BY DEF Between, Ordered
  <2>2. rx_cq_cntr[s] + a + (n + 1) = x + 1
    <3>1. rx_cq_cntr[s] + a + n = x
      BY <2>1
    <3>2. a \in Nat
      BY <1>0
    <3>3. n \in Nat
      BY <1>0
    <3>4. rx_cq_cntr[s] \in Nat
      BY <1>0
    <3> HIDE DEF a, n, x
    <3> QED
      BY <3>1, <3>2, <3>3, <3>4, OneMore
  <2>3. x + 1 <= Base \/ kind \notin RmaKinds => m.label = Nth(kind, oob, x + 1)
    <3>1. ~ (x + 1 <= Base /\ x >= Base)
      <4> HIDE DEF x
      <4> QED
        BY <1>0
    <3> QED
      BY <3>1
  <2>4. ASSUME NEW i \in 1..(n + 1), rx_cq_cntr[s] + a + i <= Base \/ kind \notin RmaKinds
        PROVE  net'[s][i].label = Nth(kind, oob, rx_cq_cntr[s] + a + i)
    <3>1. CASE i \in 1..n
      BY <1>1, <2>1, <2>4, <3>1
    <3>2. CASE i = n + 1
      BY <1>1, <2>2, <2>3, <2>4, <3>2
    <3> QED
      BY <1>2, <3>1, <3>2
  <2> HIDE DEF x
  <2>5. rx_cq_cntr'[s] + Len(arrived'[s]) + Len(net'[s]) = Sent(Peer(s))'
    BY <1>1, <2>2 DEF x
  <2> QED
    BY <1>0, <1>1, <2>1, <2>4, <2>5 DEF Ordered
<1>6. Solo(s)'
  <2> SUFFICES ASSUME mode # "tagged", ~ Streams(Peer(s))
               PROVE  /\ \A i \in 1..a : arrived[s][i].label = Nth(kind, oob, x + 1)
                      /\ \A i \in 1..(n + 1) : net'[s][i].label = Nth(kind, oob, x + 1)
    BY <1>0, <1>1 DEF Solo
  <2>1. a = 0 /\ n = 0
    <3>1. rx_cq_cntr[s] + a + n <= x /\ rx_cq_cntr[s] >= x
      BY DEF Between, NoneMade
    <3> HIDE DEF a, n, x
    <3> QED
      BY <1>0, <3>1
  <2> HIDE DEF a, n
  <2>2. 1..a = {} /\ 1..(n + 1) = {1}
    BY <2>1
  <2> QED
    BY <1>1, <2>1, <2>2
<1>7. ByTag(s)'
  <2>1. \A w : Own(w)' <=> Own(w)
    BY <1>0 DEF Own
  <2> QED
    BY <1>0, <1>1, <1>2, <2>1 DEF Between, ByTag, Own
<1>8. OnlyData(s)'
  BY <1>0, <1>1, <1>2 DEF Between, OnlyData
<1> QED
  BY <1>3, <1>4, <1>5, <1>6, <1>7, <1>8 DEF Between

\* The first half of rx(): the one message that has arrived is taken.
LEMMA BetweenTake ==
  ASSUME Typed, NEW s \in Sides, Between(s), UNCHANGED <<fixed, losses>>,
         Len(arrived[s]) = 1, rx_cq_cntr'[s] = rx_cq_cntr[s] + 1, arrived'[s] = << >>,
         net'[s] = net[s], tcp'[s] = tcp[s],
         Sent(Peer(s))' = Sent(Peer(s)), TcpSent(Peer(s))' = TcpSent(Peer(s)),
         TcpReceived(s)' = TcpReceived(s), Left(s) => Left(s)',
         Streams(Peer(s)) => Streams(Peer(s))'
  PROVE  Between(s)'
<1> DEFINE n == Len(net[s])
<1>0. /\ UNCHANGED <<Base, kind, oob, mode, lost>> /\ Base \in Nat
      /\ n \in Nat /\ rx_cq_cntr[s] \in Nat /\ Len(arrived'[s]) = 0
  BY LenProperties, EmptySeq DEF Base, Inband, Keyed, fixed, lost, Typed
<1>1. \A k \in Nat : rx_cq_cntr'[s] + 0 + k = rx_cq_cntr[s] + 1 + k
  BY <1>0
<1>2. 1..Len(arrived'[s]) = {}
  BY <1>0
<1>3. NoneMade(s)'
  BY <1>0, <1>1 DEF Between, NoneMade
<1>4. TcpLaw(s)'
  BY DEF Between, TcpLaw
<1>5. Ordered(s)'
  <2> SUFFICES ASSUME mode # "tagged", ~ lost
               PROVE  Ordered(s)'
    BY <1>0 DEF Ordered
  <2>1. /\ rx_cq_cntr[s] + 1 + n = Sent(Peer(s))
        /\ \A i \in 1..n : rx_cq_cntr[s] + 1 + i <= Base \/ kind \notin RmaKinds =>
              net[s][i].label = Nth(kind, oob, rx_cq_cntr[s] + 1 + i)
    BY DEF Between, Ordered
  <2>2. rx_cq_cntr'[s] + Len(arrived'[s]) = rx_cq_cntr[s] + 1
    BY <1>0
  <2>3. Len(net'[s]) = n
    OBVIOUS
  <2> HIDE DEF n
  <2> QED
    BY <1>0, <1>2, <2>1, <2>2, <2>3 DEF Ordered
<1>6. Solo(s)'
  BY <1>0, <1>2 DEF Between, Solo
<1>7. ByTag(s)'
  BY <1>0, <1>2 DEF Between, ByTag, Own
<1>8. OnlyData(s)'
  BY <1>0, <1>2 DEF Between, OnlyData
<1> QED
  BY <1>3, <1>4, <1>5, <1>6, <1>7, <1>8 DEF Between

\* A message finds the receive: the first there is, and without --tagged the
\* first on its way.
LEMMA BetweenDeliver ==
  ASSUME Typed, NEW s \in Sides, Between(s), UNCHANGED <<fixed, losses>>,
         rx_cq_cntr'[s] = rx_cq_cntr[s], tcp'[s] = tcp[s], Len(arrived[s]) = 0,
         NEW i \in 1..Len(net[s]), mode # "tagged" => i = 1,
         arrived'[s] = Append(arrived[s], net[s][i]), net'[s] = RemoveAt(net[s], i),
         Sent(Peer(s))' = Sent(Peer(s)), TcpSent(Peer(s))' = TcpSent(Peer(s)),
         TcpReceived(s)' = TcpReceived(s), Left(s) => Left(s)',
         Streams(Peer(s)) => Streams(Peer(s))'
  PROVE  Between(s)'
<1> DEFINE n == Len(net[s])
<1>0. /\ UNCHANGED <<Base, kind, oob, mode, lost>> /\ Base \in Nat
      /\ n \in Nat \ {0} /\ rx_cq_cntr[s] \in Nat /\ i \in 1..n
  BY LenProperties DEF Base, Inband, Keyed, fixed, lost, Typed
<1>1. net[s] \in Seq(AnyMessage) /\ net[s][i] \in AnyMessage /\ arrived[s] \in Seq(AnyMessage)
  BY ElementOfSeq DEF Typed
<1>2. /\ Len(net'[s]) = n - 1
      /\ \A j \in 1..(n - 1) : net'[s][j] = IF j < i THEN net[s][j] ELSE net[s][j + 1]
  <2>1. /\ Len(RemoveAt(net[s], i)) = Len(net[s]) - 1
        /\ \A j \in 1..(Len(net[s]) - 1) :
              RemoveAt(net[s], i)[j] = IF j < i THEN net[s][j] ELSE net[s][j + 1]
    BY <1>1, MessageRemoved
  <2> QED
    BY <2>1
<1>3. Len(arrived'[s]) = 1 /\ arrived'[s][1] = net[s][i]
  <2>1. Len(Append(arrived[s], net[s][i])) = 1 /\ Append(arrived[s], net[s][i])[1] = net[s][i]
    BY <1>1, AppendProperties
  <2> QED
    BY <2>1
<1> HIDE DEF n
<1>4. /\ \A j \in 1..Len(arrived'[s]) : arrived'[s][j] = net[s][i] /\ i \in 1..n
      /\ \A j \in 1..Len(net'[s]) : \E k \in 1..n : net'[s][j] = net[s][k]
  <2>1. \A j \in 1..(n - 1) : j \in 1..n /\ j + 1 \in 1..n
    BY <1>0
  <2>2. 1..1 = {1}
    OBVIOUS
  <2> QED
    BY <1>0, <1>2, <1>3, <2>1, <2>2
<1>5. rx_cq_cntr[s] + Len(arrived'[s]) + Len(net'[s]) = rx_cq_cntr[s] + Len(arrived[s]) + Len(net[s])
  BY <1>0, <1>2, <1>3 DEF n
<1>6. NoneMade(s)'
  BY <1>5 DEF Between, NoneMade
<1>7. TcpLaw(s)'
  BY DEF Between, TcpLaw
<1>8. Ordered(s)'
  <2> SUFFICES ASSUME mode # "tagged", ~ lost
               PROVE  Ordered(s)'
    BY <1>0 DEF Ordered
  <2>1. /\ rx_cq_cntr[s] + Len(arrived[s]) + Len(net[s]) = Sent(Peer(s))
        /\ \A k \in 1..n : rx_cq_cntr[s] + 0 + k <= Base \/ kind \notin RmaKinds =>
              net[s][k].label = Nth(kind, oob, rx_cq_cntr[s] + 0 + k)
    BY DEF Between, Ordered, n
  <2>2. i = 1 /\ 1 \in 1..n
    BY <1>0
  <2>3. rx_cq_cntr[s] + 1 <= Base \/ kind \notin RmaKinds =>
          arrived'[s][1].label = Nth(kind, oob, rx_cq_cntr[s] + 1)
    <3>1. rx_cq_cntr[s] + 0 + 1 = rx_cq_cntr[s] + 1
      BY <1>0
    <3> QED
      BY <1>3, <2>1, <2>2, <3>1
  <2>4. ASSUME NEW j \in 1..(n - 1), rx_cq_cntr[s] + 1 + j <= Base \/ kind \notin RmaKinds
        PROVE  net'[s][j].label = Nth(kind, oob, rx_cq_cntr[s] + 1 + j)
    <3>0. j \in Nat /\ rx_cq_cntr[s] \in Nat
      BY <1>0
    <3>1. j + 1 \in 1..n
      BY <1>0
    <3>3. rx_cq_cntr[s] + 0 + (j + 1) = rx_cq_cntr[s] + 1 + j
      BY <3>0, OneMore
    <3>4. ~ (j < i)
      BY <2>2
    <3>2. net'[s][j] = net[s][j + 1]
      BY <1>2, <3>4
    <3> QED
      BY <2>1, <2>4, <3>1, <3>2, <3>3
  <2>5. \A j \in 1..Len(arrived'[s]) : j = 1
    BY <1>3
  <2>6. rx_cq_cntr[s] + Len(arrived'[s]) + Len(net'[s]) = Sent(Peer(s))'
    BY <1>5, <2>1
  <2> QED
    BY <1>0, <1>2, <1>3, <2>3, <2>4, <2>5, <2>6 DEF Ordered
<1>9. Solo(s)'
  <2> SUFFICES ASSUME mode # "tagged", ~ Streams(Peer(s))
               PROVE  Solo(s)'
    BY <1>0 DEF Solo
  <2>1. \A k \in 1..n : net[s][k].label = Nth(kind, oob, Sent(Peer(s)))
    BY DEF Between, Solo, n
  <2> QED
    BY <1>0, <1>4, <2>1 DEF Solo
<1>10. ByTag(s)'
  <2>1. \A w : Own(w)' <=> Own(w)
    BY <1>0 DEF Own
  <2>2. mode = "tagged" => \A k \in 1..n : Own(net[s][k])
    BY DEF Between, ByTag, n
  <2> QED
    BY <1>0, <1>4, <2>1, <2>2 DEF ByTag, Own
<1>11. OnlyData(s)'
  <2>1. oob /\ kind \notin RmaKinds => \A k \in 1..n : net[s][k].label = "data"
    BY DEF Between, OnlyData, n
  <2> QED
    BY <1>0, <1>4, <2>1 DEF OnlyData
<1> QED
  BY <1>6, <1>7, <1>8, <1>9, <1>10, <1>11 DEF Between

\* A message is lost: the order counts no more, all else stays.
LEMMA BetweenLose ==
  ASSUME Typed, NEW s \in Sides, Between(s), UNCHANGED fixed, lost', Sent(Peer(s)) \in Nat,
         rx_cq_cntr'[s] = rx_cq_cntr[s], arrived'[s] = arrived[s], tcp'[s] = tcp[s],
         NEW i \in 1..Len(net[s]), net'[s] = RemoveAt(net[s], i),
         Sent(Peer(s))' = Sent(Peer(s)), TcpSent(Peer(s))' = TcpSent(Peer(s)),
         TcpReceived(s)' = TcpReceived(s), Left(s) => Left(s)',
         Streams(Peer(s)) => Streams(Peer(s))'
  PROVE  Between(s)'
<1> DEFINE n == Len(net[s])
           a == Len(arrived[s])
           x == Sent(Peer(s))
<1>0. /\ UNCHANGED <<Base, kind, oob, mode>>
      /\ n \in Nat \ {0} /\ a \in Nat /\ rx_cq_cntr[s] \in Nat /\ i \in 1..n
  BY LenProperties DEF Base, Inband, Keyed, fixed, Typed
<1>1. /\ Len(net'[s]) = n - 1
      /\ \A j \in 1..(n - 1) : net'[s][j] = IF j < i THEN net[s][j] ELSE net[s][j + 1]
  BY MessageRemoved DEF Typed
<1>2. NoneMade(s)'
  <2>1. rx_cq_cntr[s] + a + n <= x
    BY DEF Between, NoneMade
  <2>2. NoneMade(s)' <=> rx_cq_cntr[s] + a + (n - 1) <= x
    BY <1>1 DEF NoneMade
  <2>3. x \in Int
    OBVIOUS
  <2> HIDE DEF a, n, x
  <2> QED
    BY <1>0, <2>1, <2>2, <2>3
<1> HIDE DEF n, a, x
<1>3. \A j \in 1..Len(net'[s]) : \E k \in 1..n : net'[s][j] = net[s][k]
  <2>1. \A j \in 1..(n - 1) : j \in 1..n /\ j + 1 \in 1..n
    BY <1>0
  <2> QED
    BY <1>0, <1>1, <2>1
<1>4. TcpLaw(s)'
  BY DEF Between, TcpLaw
<1>5. Ordered(s)'
  BY DEF Ordered
<1>6. Solo(s)'
  BY <1>0, <1>3 DEF Between, Solo, n
<1>7. ByTag(s)'
  <2>1. \A w : Own(w)' <=> Own(w)
    BY <1>0 DEF Own
  <2> QED
    BY <1>0, <1>3, <2>1 DEF Between, ByTag, n, Own
<1>8. OnlyData(s)'
  BY <1>0, <1>3 DEF Between, OnlyData, n
<1> QED
  BY <1>2, <1>4, <1>5, <1>6, <1>7, <1>8 DEF Between

\* A part of a message enters the connection.
LEMMA BetweenTcpPost ==
  ASSUME NEW s \in Sides, Between(s), UNCHANGED <<fixed, losses>>, tcp[s] \in Seq(Labels),
         rx_cq_cntr'[s] = rx_cq_cntr[s], arrived'[s] = arrived[s], net'[s] = net[s],
         NEW l \in Labels, l = TcpNth(TcpSent(Peer(s)) + 1), tcp'[s] = Append(tcp[s], l),
         Sent(Peer(s))' = Sent(Peer(s)),
         TcpSent(Peer(s)) \in Nat, TcpSent(Peer(s))' = TcpSent(Peer(s)) + 1,
         TcpReceived(s) \in Nat, TcpReceived(s)' = TcpReceived(s), Left(s) => Left(s)',
         Streams(Peer(s)) => Streams(Peer(s))'
  PROVE  Between(s)'
<1> DEFINE n == Len(tcp[s])
<1>0. UNCHANGED <<Base, kind, oob, mode, lost>>
  BY DEF Base, Inband, Keyed, fixed, lost
<1>1. NoneMade(s)'
  BY DEF Between, NoneMade
<1>2. TcpLaw(s)'
  <2> SUFFICES ASSUME ~ Left(s)
               PROVE  TcpLaw(s)'
    BY DEF TcpLaw
  <2>1. n \in Nat
    BY LenProperties
  <2>2. /\ Len(tcp'[s]) = n + 1
        /\ \A i \in 1..n : tcp'[s][i] = tcp[s][i]
        /\ tcp'[s][n + 1] = l
    BY AppendProperties
  <2>3. /\ TcpReceived(s) + n = TcpSent(Peer(s))
        /\ \A i \in 1..n : tcp[s][i] = TcpNth(TcpReceived(s) + i)
    BY DEF Between, TcpLaw
  <2> HIDE DEF n
  <2>4. TcpReceived(s) + (n + 1) = TcpSent(Peer(s)) + 1 /\ 1..(n + 1) = 1..n \cup {n + 1}
    BY <2>1, <2>3
  <2>5. \A i \in 1..(n + 1) : tcp'[s][i] = TcpNth(TcpReceived(s) + i)
    BY <2>2, <2>3, <2>4
  <2> QED
    BY <2>2, <2>4, <2>5 DEF TcpLaw
<1>3. Ordered(s)'
  BY <1>0 DEF Between, Ordered
<1>4. Solo(s)'
  BY <1>0 DEF Between, Solo
<1>5. ByTag(s)'
  BY <1>0 DEF Between, ByTag, Own
<1>6. OnlyData(s)'
  BY <1>0 DEF Between, OnlyData
<1> QED
  BY <1>1, <1>2, <1>3, <1>4, <1>5, <1>6 DEF Between

\* And leaves it.
LEMMA BetweenTcpTake ==
  ASSUME NEW s \in Sides, Between(s), UNCHANGED <<fixed, losses>>, tcp[s] \in Seq(Labels),
         rx_cq_cntr'[s] = rx_cq_cntr[s], arrived'[s] = arrived[s], net'[s] = net[s],
         tcp[s] # << >>, tcp'[s] = Tail(tcp[s]),
         Sent(Peer(s))' = Sent(Peer(s)), TcpSent(Peer(s))' = TcpSent(Peer(s)),
         TcpReceived(s) \in Nat, TcpReceived(s)' = TcpReceived(s) + 1, Left(s) => Left(s)',
         Streams(Peer(s)) => Streams(Peer(s))'
  PROVE  Between(s)'
<1> DEFINE n == Len(tcp[s])
<1>0. UNCHANGED <<Base, kind, oob, mode, lost>>
  BY DEF Base, Inband, Keyed, fixed, lost
<1>1. NoneMade(s)'
  BY DEF Between, NoneMade
<1>2. TcpLaw(s)'
  <2> SUFFICES ASSUME ~ Left(s)
               PROVE  TcpLaw(s)'
    BY DEF TcpLaw
  <2>1. n \in Nat \ {0}
    BY LenProperties, EmptySeq
  <2>2. /\ Len(tcp'[s]) = n - 1
        /\ \A i \in 1..(n - 1) : tcp'[s][i] = tcp[s][i + 1]
    BY HeadTailProperties
  <2>3. /\ TcpReceived(s) + n = TcpSent(Peer(s))
        /\ \A i \in 1..n : tcp[s][i] = TcpNth(TcpReceived(s) + i)
    BY DEF Between, TcpLaw
  <2> HIDE DEF n
  <2>4. (TcpReceived(s) + 1) + (n - 1) = TcpSent(Peer(s))
    BY <2>1, <2>3
  <2>5. ASSUME NEW i \in 1..(n - 1)
        PROVE  tcp'[s][i] = TcpNth((TcpReceived(s) + 1) + i)
    <3>1. i + 1 \in 1..n /\ TcpReceived(s) + (i + 1) = (TcpReceived(s) + 1) + i
      BY <2>1
    <3> QED
      BY <2>2, <2>3, <3>1
  <2> QED
    BY <2>2, <2>4, <2>5 DEF TcpLaw
<1>3. Ordered(s)'
  BY <1>0 DEF Between, Ordered
<1>4. Solo(s)'
  BY <1>0 DEF Between, Solo
<1>5. ByTag(s)'
  BY <1>0 DEF Between, ByTag, Own
<1>6. OnlyData(s)'
  BY <1>0 DEF Between, OnlyData
<1> QED
  BY <1>1, <1>2, <1>3, <1>4, <1>5, <1>6 DEF Between

-----------------------------------------------------------------------------
\* What a side sends, or waits for, is the next message of the session.
LEMMA StageLabel ==
  ASSUME NEW s \in Sides, Placed(s), Up(s), ~ OverTcp(s), oob \in BOOLEAN, NEW r \in Nat,
         stage[s] \in {"addr", "keys", "sync"} => r = 0,
         stage[s] = "loop" => kind \notin RmaKinds
  PROVE  Label(stage[s]) = Nth(kind, oob, Done(s) + r + 1)
<1>1. /\ Inband \in {0, 1} /\ (oob <=> Inband = 0) /\ Keyed \in {0, 1}
      /\ (kind \in RmaKinds <=> Keyed = 1) /\ Base = Inband + Keyed + Inband
  BY DEF Inband, Keyed, Base
<1>2. stage[s] \in {"addr", "keys", "sync", "loop", "last"}
  BY UpIs DEF Placed, Exchanges
<1>3. CASE stage[s] = "addr"
  BY <1>1, <1>3 DEF Done, Label, Nth, OverTcp
<1>4. CASE stage[s] = "keys"
  BY <1>1, <1>4 DEF Done, Label, Nth, Placed, Shape
<1>5. CASE stage[s] = "sync"
  BY <1>1, <1>5 DEF Done, Label, Nth, OverTcp
<1>6. CASE stage[s] = "loop"
  BY <1>1, <1>6 DEF Done, Label, Nth
<1>7. CASE stage[s] = "last"
  <2>1. kind \in RmaKinds
    BY <1>7 DEF Placed, Shape, RunsLast, RmaKinds
  <2> QED
    BY <1>1, <1>7, <2>1 DEF Done, Label, Nth, OverTcp
<1> QED
  BY <1>2, <1>3, <1>4, <1>5, <1>6, <1>7

LEMMA SendLabel ==
  ASSUME NEW s \in Sides, Placed(s), Up(s), ~ OverTcp(s), oob \in BOOLEAN, step[s] = "send"
  PROVE  Label(stage[s]) = Nth(kind, oob, Sent(s) + 1)
<1>1. SentNow(s) = 0
  BY DEF SentNow
<1>2. SentRounds(s) \in Nat /\ Done(s) \in Nat
  BY CountsAre DEF Placed
<1>3. stage[s] \in {"addr", "keys", "sync"} => SentRounds(s) = 0
  BY DEF Placed, Within, SentRounds
<1>4. stage[s] = "loop" => kind \notin RmaKinds
  BY LoopIs DEF Placed
<1>5. Sent(s) + 1 = Done(s) + SentRounds(s) + 1
  BY <1>1, <1>2 DEF Sent
<1> QED
  BY <1>2, <1>3, <1>4, <1>5, StageLabel

LEMMA ReceiveLabel ==
  ASSUME NEW s \in Sides, Placed(s), Up(s), ~ OverTcp(s), oob \in BOOLEAN, step[s] = "recv"
  PROVE  Label(stage[s]) = Nth(kind, oob, Received(s) + 1)
<1>1. ReceivedNow(s) = 0
  BY DEF ReceivedNow
<1>2. TakenRounds(s) \in Nat /\ Done(s) \in Nat
  BY CountsAre DEF Placed
<1>3. stage[s] \in {"addr", "keys", "sync"} => TakenRounds(s) = 0
  BY DEF Placed, Within, TakenRounds
<1>4. stage[s] = "loop" => kind \notin RmaKinds
  BY LoopIs DEF Placed
<1>5. Received(s) + 1 = Done(s) + TakenRounds(s) + 1
  BY <1>1, <1>2 DEF Received
<1> QED
  BY <1>2, <1>3, <1>4, <1>5, StageLabel

LEMMA TcpLabel ==
  ASSUME NEW s \in Sides, Placed(s), OverTcp(s)
  PROVE  /\ Label(stage[s]) \in Labels
         /\ step[s] = "send" => Label(stage[s]) = TcpNth(TcpSent(s) + 1)
         /\ step[s] = "recv" => Label(stage[s]) = TcpNth(TcpReceived(s) + 1)
<1>1. stage[s] \in {"addr", "sync", "last"} /\ oob /\ part[s] \in {0, 1}
  BY NotOverFabric
<1>2. Label(stage[s]) = TcpNth(TcpDone(s) + part[s] + 1)
  <2>1. stage[s] # "addr" => part[s] = 0
    BY <1>1 DEF Placed, Parted
  <2>2. TcpDone(s) = CASE stage[s] = "addr" -> 0 [] stage[s] = "sync" -> 2 [] OTHER -> 3
    BY <1>1 DEF TcpDone
  <2> QED
    BY <1>1, <2>1, <2>2 DEF Label, TcpNth
<1>3. step[s] = "send" => TcpSent(s) = TcpDone(s) + part[s]
  BY DEF TcpSent, TcpSentNow
<1>4. step[s] = "recv" => TcpReceived(s) = TcpDone(s) + part[s]
  BY DEF TcpReceived, TcpReceivedNow
<1>5. Label(stage[s]) \in Labels
  BY <1>1 DEF Label, Labels
<1> QED
  BY <1>2, <1>3, <1>4, <1>5
-----------------------------------------------------------------------------
\* Nothing of a side moves.
LEMMA CountsStay ==
  ASSUME NEW s \in Sides, Placed(s), UNCHANGED fixed, stage'[s] = stage[s], step'[s] = step[s],
         rounds'[s] = rounds[s], part'[s] = part[s]
  PROVE  Counts(s, 0, 0, 0, 0)
<1>1. UNCHANGED <<Base, Inband, Keyed, RunsLast(s), SendsRound(s), TakesRound(s), kind, oob, mode>>
  BY DEF Base, Inband, Keyed, RunsLast, fixed, SendsRound, TakesRound
<1>2. Done(s)' = Done(s) /\ TcpDone(s)' = TcpDone(s)
  BY <1>1 DEF Done, TcpDone
<1>3. SentRounds(s)' = SentRounds(s) /\ TakenRounds(s)' = TakenRounds(s)
  BY <1>1 DEF SentRounds, TakenRounds
<1>4. (SendsFirst(s)' <=> SendsFirst(s)) /\ (OverTcp(s)' <=> OverTcp(s)) /\ (Fabric(s)' <=> Fabric(s))
  BY <1>1 DEF SendsFirst, FirstStep, OverTcp, Fabric, Up
<1>5. SentNow(s)' = SentNow(s) /\ ReceivedNow(s)' = ReceivedNow(s)
  BY <1>4 DEF SentNow, ReceivedNow
<1>6. TcpSentNow(s)' = TcpSentNow(s) /\ TcpReceivedNow(s)' = TcpReceivedNow(s)
  BY <1>4 DEF TcpSentNow, TcpReceivedNow
<1>7. Shape(s)'
  BY <1>1 DEF Placed, Shape, OneWay
<1>8. Sent(s) \in Nat /\ Received(s) \in Nat /\ TcpSent(s) \in Nat /\ TcpReceived(s) \in Nat
  BY CountsAre DEF Placed
<1> QED
  BY <1>2, <1>3, <1>5, <1>6, <1>7, <1>8 DEF Counts, Sent, Received, TcpSent, TcpReceived

\* A worker goes on, and ends once.
LEMMA Onward ==
  ASSUME NEW s \in Sides, Placed(s), Work(s), UNCHANGED fixed
  PROVE  /\ Streams(s) => Streams(s)'
         /\ Left(s) => Left(s)'
         /\ stage[s] # "exited"
         /\ stage'[s] \in Ended /\ kind = "rma" /\ s = "client" => stage[s] \in {"last", "closed"}
<1>0. Typed /\ Within(s) /\ Shape(s)
  BY DEF Placed
<1>1. \/ stage'[s] = stage[s] /\ Up(s)
      \/ stage[s] = "boot" /\ stage'[s] = "addr"
      \/ stage[s] \in Exchanges /\ stage'[s] = NextStage(s)
      \/ stage[s] = "loop" /\ stage'[s] \in {"loop", "last", "closed"}
      \/ stage[s] = "closed" /\ stage'[s] = "exited"
  <2> DEFINE Goes == \/ stage'[s] = stage[s] /\ Up(s)
                     \/ stage[s] \in Exchanges /\ stage'[s] = NextStage(s)
                     \/ stage[s] = "loop" /\ stage'[s] \in {"loop", "last", "closed"}
  <2>1. Finish(s) /\ Up(s) => Goes
    BY <1>0, UpIs DEF Finish, GoTo, Typed
  <2>2. Leave(s) /\ Up(s) => Goes
    BY <1>0, UpIs DEF Leave, GoTo, Typed
  <2>3. ASSUME NEW p, Continue(s, p), Up(s)
        PROVE  Goes
    BY <2>3 DEF Continue
  <2>4. OverTcp(s) => Up(s)
    BY DEF OverTcp, Up, Ended
  <2>5. step[s] \in {"post", "clock"} => Up(s)
    BY <1>0 DEF Within, Up, Ended
  <2>6. Enable(s) => stage[s] = "boot" /\ stage'[s] = "addr"
    BY <1>0 DEF Enable, GoTo, Typed
  <2>7. ProcessEnds(s) => stage[s] = "closed" /\ stage'[s] = "exited"
    BY <1>0 DEF ProcessEnds, GoTo, Typed
  <2>8. Send(s) => Goes
    BY <2>1, <2>3 DEF Send, AfterSend
  <2>9. Receive(s) \/ ReceiveTimesOut(s) => Goes
    BY <2>2, <2>3 DEF Receive, ReceiveTimesOut
  <2>10. PostRx(s) => Goes
    BY <2>1, <2>3, <2>5 DEF PostRx, AfterReceive
  <2>11. SockSend(s) \/ SockReceive(s) \/ PeerGone(s) => Goes
    BY <2>1, <2>2, <2>3, <2>4 DEF SockSend, SockReceive, PeerGone, NextPart, AfterSend, AfterReceive, control
  <2>12. Rma(s) => Goes
    <3>1. stage[s] = "loop" => Up(s)
      BY DEF Up, Ended
    <3> QED
      BY <2>1, <3>1 DEF Rma
  <2>13. GoOn(s) => Goes
    BY <2>3, <2>5 DEF GoOn
  <2>14. TimeUp(s) => Goes
    <3>1. step[s] = "clock" => stage[s] = "loop"
      BY <1>0 DEF Within
    <3> QED
      BY <1>0, <3>1 DEF TimeUp, GoTo, Typed, NextStage
  <2> QED
    BY <2>6, <2>7, <2>8, <2>9, <2>10, <2>11, <2>12, <2>13, <2>14 DEF Work
<1>2. stage[s] # "exited"
  BY <1>1 DEF Up, Exchanges, Ended
<1>3. Streams(s) => Streams(s)'
  BY <1>1 DEF Streams, fixed, Exchanges, NextStage
<1>4. Left(s) => Left(s)'
  BY <1>1 DEF Left, fixed, Exchanges, Ended, Up
<1>5. stage'[s] \in Ended /\ kind = "rma" /\ s = "client" => stage[s] \in {"last", "closed"}
  <2> SUFFICES ASSUME stage'[s] \in Ended, kind = "rma", s = "client"
               PROVE  stage[s] \in {"last", "closed"}
    OBVIOUS
  <2>1. kind \in RmaKinds
    BY DEF RmaKinds
  <2>2. stage[s] # "loop"
    BY <1>0, <2>1 DEF Shape
  <2>3. stage[s] \in Exchanges /\ NextStage(s) \in Ended => stage[s] = "last"
    BY <2>1 DEF Exchanges, NextStage, Ended
  <2> QED
    BY <1>1, <2>2, <2>3 DEF Up, Ended
<1> QED
  BY <1>2, <1>3, <1>4, <1>5

-----------------------------------------------------------------------------
\* Who is ahead of whom.  The server has never sent more than it received,
\* until its data stream.
LEMMA ServerCounts ==
  ASSUME NEW s \in Sides, s = "server", Placed(s)
  PROVE  /\ SentNow(s) = 0
         /\ ~ Streams(s) => /\ Sent(s) <= Received(s)
                            /\ step[s] = "post" => Received(s) = Sent(s) + 1
                            /\ Fabric(s) /\ step[s] = "send" => Received(s) = Sent(s) + 1
         /\ Streams(s) => Received(s) >= Base
<1>0. Typed /\ Within(s) /\ Shape(s)
  BY DEF Placed
<1>1. /\ SentNow(s) \in {0, 1} /\ ReceivedNow(s) \in {0, 1} /\ Done(s) \in Nat
      /\ SentRounds(s) \in Nat /\ TakenRounds(s) \in Nat /\ Inband \in {0, 1} /\ Base \in Nat
  BY CountsAre DEF Placed
<1>2. SendsFirst(s) /\ Fabric(s) => OneWay(s)
  BY OneKind, UpIs, <1>0 DEF SendsFirst, FirstStep, Fabric, OverTcp, OneWay
<1>3. OneWay(s) => step[s] \in {"send", "clock"} /\ Streams(s)
  BY <1>0 DEF Shape, OneWay, Streams
<1>4. SentNow(s) = 0
  BY <1>2, <1>3 DEF SentNow, Fabric
<1>5. ~ Streams(s) => SentRounds(s) = TakenRounds(s)
  <2>1. ~ Streams(s) /\ kind \notin LockStepKinds => SentRounds(s) = 0 /\ TakenRounds(s) = 0
    BY <1>0 DEF Streams, SentRounds, TakenRounds, SendsRound, TakesRound, Within
  <2>2. kind \in LockStepKinds => SentRounds(s) = TakenRounds(s)
    BY DEF SentRounds, TakenRounds, SendsRound, TakesRound
  <2> QED
    BY <2>1, <2>2
<1>6. ~ Streams(s) => Sent(s) <= Received(s)
  BY <1>1, <1>4, <1>5 DEF Sent, Received
<1>7. step[s] = "post" => Fabric(s)
  BY <1>0 DEF Within, Fabric
<1>8. ~ Streams(s) /\ Fabric(s) /\ step[s] \in {"post", "send"} => ReceivedNow(s) = 1
  BY <1>2, <1>3 DEF ReceivedNow
<1>9. ~ Streams(s) /\ Fabric(s) /\ step[s] \in {"post", "send"} => Received(s) = Sent(s) + 1
  BY <1>1, <1>4, <1>5, <1>8 DEF Sent, Received
<1>10. Streams(s) => Received(s) >= Base
  <2>1. Streams(s) => Done(s) >= Base
    BY <1>0, <1>1 DEF Streams, Done, Typed, Stages, Exchanges
  <2> QED
    BY <1>1, <2>1 DEF Received
<1> QED
  BY <1>4, <1>6, <1>7, <1>9, <1>10

\* The client is one message ahead, at most.
LEMMA ClientCounts ==
  ASSUME NEW s \in Sides, s = "client", Placed(s)
  PROVE  /\ ~ Streams(s)
         /\ Sent(s) <= Received(s) + 1
         /\ step[s] = "post" => Sent(s) <= Received(s)
         /\ Fabric(s) /\ step[s] = "send" => /\ Sent(s) <= Received(s)
                                             /\ kind \notin LockStepKinds => Sent(s) <= Base
<1>0. Typed /\ Within(s) /\ Shape(s)
  BY DEF Placed
<1>1. /\ SentNow(s) \in {0, 1} /\ ReceivedNow(s) \in {0, 1} /\ Done(s) \in Nat
      /\ SentRounds(s) \in Nat /\ TakenRounds(s) \in Nat /\ Inband \in {0, 1} /\ Base \in Nat
  BY CountsAre DEF Placed
<1>2. SentRounds(s) <= TakenRounds(s) /\ (kind \notin LockStepKinds => SentRounds(s) = 0)
  <2>1. SendsRound(s) => TakesRound(s) /\ kind \in LockStepKinds
    BY DEF SendsRound, TakesRound
  <2>2. rounds[s] \in Nat
    BY <1>0 DEF Typed
  <2> QED
    BY <2>1, <2>2 DEF SentRounds, TakenRounds
<1>3. step[s] = "post" => ReceivedNow(s) = 1
  BY <1>0 DEF Within, Fabric, ReceivedNow
<1>4. step[s] = "send" => SentNow(s) = 0
  BY DEF SentNow
<1>5. Fabric(s) => Done(s) <= Base
  BY <1>0, UpIs, CountsAre DEF Fabric, Done, Exchanges, Base, Placed
<1>6. ~ Streams(s)
  BY DEF Streams
<1>7. Sent(s) <= Received(s) + 1
  BY <1>1, <1>2 DEF Sent, Received
<1>8. step[s] = "post" => Sent(s) <= Received(s)
  BY <1>1, <1>2, <1>3 DEF Sent, Received
<1>9. Fabric(s) /\ step[s] = "send" => Sent(s) <= Received(s)
  BY <1>1, <1>2, <1>4 DEF Sent, Received
<1>10. Fabric(s) /\ step[s] = "send" /\ kind \notin LockStepKinds => Sent(s) <= Base
  BY <1>1, <1>2, <1>4, <1>5 DEF Sent
<1> QED
  BY <1>6, <1>7, <1>8, <1>9, <1>10
-----------------------------------------------------------------------------
(***************************************************************************)
(* The invariant: as long as nothing fails.                                *)
(***************************************************************************)
\* The client of "rma" leaves its last sync when the server has ended.
RmaEnd ==
    kind = "rma" /\ ~ Unanswered /\ stage["client"] \in Ended => stage["server"] = "exited"

InStep ==
    /\ mode = "writedata" => kind \in RmaKinds
    /\ \A s \in Sides : At(s) /\ Between(s)
    /\ RmaEnd

InConversation == IInv /\ Bounds /\ InStep

Conversation == ~ failed => InStep

LEMMA ConversationPlaces ==
  ASSUME InConversation, NEW s \in Sides
  PROVE  Placed(s)
  BY DEF InConversation, InStep, IInv, Bounds, Placed, At

LEMMA ReceivedIsSent ==
  ASSUME InConversation, NEW s \in Sides
  PROVE  /\ Received(s) <= Sent(Peer(s))
         /\ arrived[s] # << >> => Received(s) + 1 <= Sent(Peer(s))
<1> DEFINE a == Len(arrived[s])
           n == Len(net[s])
           x == Sent(Peer(s))
           r == Received(s)
<1>1. Peer(s) \in Sides /\ Placed(s) /\ Placed(Peer(s))
  BY TwoSides, ConversationPlaces
<1>2. x \in Nat /\ r \in Nat
  BY <1>1, CountsAre DEF Placed
<1>3. a \in Nat /\ n \in Nat
  BY <1>1, LenProperties DEF Placed, Typed
<1>4. arrived[s] # << >> => a # 0
  BY <1>1, EmptySeq DEF Placed, Typed
<1>5. r + a + n <= x
  BY DEF InConversation, InStep, At, Between, NoneMade
<1> HIDE DEF a, n, x, r
<1>6. r <= x /\ (a # 0 => r + 1 <= x)
  BY <1>2, <1>3, <1>5
<1> QED
  BY <1>4, <1>6 DEF r, x

\* What one side may send the other has room for.
LEMMA PairCounts ==
  ASSUME InConversation, NEW s \in Sides
  PROVE  /\ ~ Streams(s) /\ Fabric(s) /\ step[s] = "send" => Sent(s) <= Received(Peer(s))
         /\ ~ Streams(s) /\ ~ Streams(Peer(s)) /\ Up(s) => Sent(Peer(s)) <= rx_seq[s]
<1> DEFINE t == Peer(s)
<1>0. /\ t \in Sides /\ Peer(t) = s /\ Placed(s) /\ Placed(t)
      /\ (s = "server" /\ t = "client") \/ (s = "client" /\ t = "server")
  BY TwoSides, ConversationPlaces DEF Peer, Sides
<1>1. /\ Sent(s) \in Nat /\ Received(s) \in Nat /\ Sent(t) \in Nat /\ Received(t) \in Nat
      /\ Base \in Nat
  BY <1>0, CountsAre DEF Placed
<1>2. Received(s) <= Sent(t) /\ Received(t) <= Sent(s)
  BY <1>0, ReceivedIsSent
<1>3. /\ rx_cq_cntr[s] = Received(s) /\ rx_seq[s] \in Nat
      /\ Up(s) /\ step[s] # "post" => rx_seq[s] = Received(s) + 1
      /\ step[s] = "post" => rx_seq[s] = Received(s)
  BY DEF InConversation, InStep, At, IInv, OneReceive, Typed, Up
<1> HIDE DEF t
<1>4. CASE s = "server" /\ t = "client"
  <2>1. ~ Streams(t) /\ Sent(t) <= Received(t) + 1
    BY <1>0, <1>4, ClientCounts
  <2>2. ~ Streams(s) => /\ Sent(s) <= Received(s)
                        /\ step[s] = "post" => Received(s) = Sent(s) + 1
                        /\ Fabric(s) /\ step[s] = "send" => Received(s) = Sent(s) + 1
    BY <1>0, <1>4, ServerCounts
  <2>3. ~ Streams(s) /\ Fabric(s) /\ step[s] = "send" => Sent(s) <= Received(t)
    BY <1>1, <1>2, <2>1, <2>2
  <2>4. ~ Streams(s) /\ Up(s) => Sent(t) <= rx_seq[s]
    BY <1>1, <1>2, <1>3, <2>1, <2>2
  <2> QED
    BY <2>3, <2>4 DEF t
<1>5. CASE s = "client" /\ t = "server"
  <2>1. /\ Sent(s) <= Received(s) + 1
        /\ step[s] = "post" => Sent(s) <= Received(s)
        /\ Fabric(s) /\ step[s] = "send" => /\ Sent(s) <= Received(s)
                                            /\ kind \notin LockStepKinds => Sent(s) <= Base
    BY <1>0, <1>5, ClientCounts
  <2>2. /\ ~ Streams(t) => Sent(t) <= Received(t)
        /\ Streams(t) => Received(t) >= Base
    BY <1>0, <1>5, ServerCounts
  <2>3. Streams(t) => kind \notin LockStepKinds
    <3>1. mode = "writedata" => kind \in RmaKinds
      BY DEF InConversation, InStep
    <3> QED
      BY <3>1, <1>0, OneKind DEF Streams, Placed
  <2>4. Fabric(s) /\ step[s] = "send" => Sent(s) <= Received(t)
    BY <1>1, <1>2, <2>1, <2>2, <2>3
  <2>5. ~ Streams(t) /\ Up(s) => Sent(t) <= rx_seq[s]
    BY <1>1, <1>2, <1>3, <2>1, <2>2
  <2> QED
    BY <2>4, <2>5 DEF t
<1> QED
  BY <1>0, <1>4, <1>5
-----------------------------------------------------------------------------
\* What a step of one side leaves of the other.
LEMMA OtherSide ==
  ASSUME InConversation, NEW s \in Sides, NEW t \in Sides, t # s, Work(s)
  PROVE  /\ UNCHANGED <<fixed, losses, faults, timeout>>
         /\ At(t)'
         /\ Sent(t)' = Sent(t) /\ Received(t)' = Received(t)
         /\ TcpSent(t)' = TcpSent(t) /\ TcpReceived(t)' = TcpReceived(t)
         /\ Streams(t) => Streams(t)'
         /\ Left(t) => Left(t)'
         /\ Streams(s) => Streams(s)'
         /\ Left(s) => Left(s)'
<1>0. Placed(s) /\ Placed(t) /\ At(t) /\ Typed /\ part \in [Sides -> 0..1]
  BY ConversationPlaces DEF InConversation, InStep, Placed
<1>1. /\ UNCHANGED fixed
      /\ stage'[t] = stage[t] /\ step'[t] = step[t] /\ rounds'[t] = rounds[t]
      /\ tx_seq'[t] = tx_seq[t] /\ rx_seq'[t] = rx_seq[t] /\ rx_cq_cntr'[t] = rx_cq_cntr[t]
  BY <1>0, OtherStays
<1>2. UNCHANGED <<losses, faults, timeout>>
  BY DEF Work, Enable, Send, Receive, ReceiveTimesOut, PostRx, SockSend, SockReceive,
     PeerGone, Rma, GoOn, TimeUp, ProcessEnds, Quiet
<1>3. part'[t] = part[t]
  BY <1>0 DEF Work, Enable, Send, Receive, ReceiveTimesOut, PostRx, SockSend, SockReceive,
     PeerGone, Rma, GoOn, TimeUp, ProcessEnds, NextPart
<1>4. Counts(t, 0, 0, 0, 0)
  BY <1>0, <1>1, <1>3, CountsStay
<1>5. /\ Sent(t) \in Nat /\ Received(t) \in Nat /\ TcpSent(t) \in Nat /\ TcpReceived(t) \in Nat
  BY <1>0, CountsAre
<1>6. /\ Sent(t)' = Sent(t) /\ Received(t)' = Received(t)
      /\ TcpSent(t)' = TcpSent(t) /\ TcpReceived(t)' = TcpReceived(t)
  BY <1>4, <1>5 DEF Counts
<1>7. At(t)'
  BY <1>0, <1>1, <1>2, <1>4, <1>6 DEF At, Counts, fixed
<1>8. (Streams(t) => Streams(t)') /\ (Left(t) => Left(t)')
  BY <1>1 DEF Streams, Left, fixed
<1>9. (Streams(s) => Streams(s)') /\ (Left(s) => Left(s)')
  BY <1>0, <1>1, Onward
<1> QED
  BY <1>1, <1>2, <1>6, <1>7, <1>8, <1>9

\* And of the side itself, if it counts what it does.
LEMMA OwnSide ==
  ASSUME InConversation, NEW s \in Sides, Work(s), NEW ds \in {0, 1}, NEW dr \in {0, 1},
         NEW dts \in {0, 1}, NEW dtr \in {0, 1}, Counts(s, ds, dr, dts, dtr),
         rx_cq_cntr'[s] = rx_cq_cntr[s] + dr,
         mode = "tagged" => tx_seq'[s] = tx_seq[s] + ds,
         step'[s] # "post" => rx_seq'[s] = rx_cq_cntr'[s] + 1,
         UNCHANGED <<fixed, timeout>>
  PROVE  /\ At(s)'
         /\ ds = 0 => Sent(s)' = Sent(s)
         /\ ds = 1 => Sent(s)' = Sent(s) + 1
         /\ dts = 0 => TcpSent(s)' = TcpSent(s)
         /\ dts = 1 => TcpSent(s)' = TcpSent(s) + 1
         /\ dtr = 0 => TcpReceived(s)' = TcpReceived(s)
         /\ dtr = 1 => TcpReceived(s)' = TcpReceived(s) + 1
         /\ Sent(s) \in Nat /\ TcpSent(s) \in Nat /\ TcpReceived(s) \in Nat
<1>0. Placed(s) /\ At(s)
  BY ConversationPlaces DEF InConversation, InStep
<1>1. /\ Sent(s) \in Nat /\ Received(s) \in Nat /\ TcpSent(s) \in Nat /\ TcpReceived(s) \in Nat
  BY <1>0, CountsAre DEF Placed
<1>2. Shape(s)' /\ timeout'[s] = -1
  BY <1>0 DEF Counts, At
<1>3. rx_cq_cntr'[s] = Received(s)'
  BY <1>0 DEF Counts, At
<1>4. mode' = "tagged" => tx_seq'[s] = Sent(s)'
  BY <1>0 DEF Counts, At, fixed
<1>5. At(s)'
  BY <1>2, <1>3, <1>4 DEF At
<1> QED
  BY <1>1, <1>5 DEF Counts

\* With one side moving, both are in step.
Both(s) == At(s) /\ Between(s) /\ At(Peer(s)) /\ Between(Peer(s))

-----------------------------------------------------------------------------
LEMMA SendInStep ==
  ASSUME InConversation, NEW s \in Sides, Send(s)
  PROVE  Both(s)'
<1> DEFINE t == Peer(s)
           m == [label |-> Label(stage[s]), tag |-> Tag(s)]
<1>0. /\ t \in Sides /\ Peer(t) = s /\ t # s /\ Placed(s) /\ Work(s) /\ Typed
      /\ Between(s) /\ Between(t) /\ At(s) /\ oob \in BOOLEAN
      /\ tcp[s] \in Seq(Labels) /\ tcp[t] \in Seq(Labels)
  BY TwoSides, ConversationPlaces DEF Work, InConversation, InStep, IInv, Bounds
<1>1. /\ step[s] = "send" /\ Up(s) /\ ~ OverTcp(s) /\ Fabric(s)
      /\ UNCHANGED <<rx_seq, rx_cq_cntr, arrived, tcp>>
      /\ net' = [net EXCEPT ![t] = Append(@, m)]
      /\ tx_seq' = [tx_seq EXCEPT ![s] = @ + 1]
  BY DEF Send, Post, receives, Fabric
<1>2. /\ UNCHANGED <<fixed, losses, timeout>> /\ At(t)' /\ Sent(t)' = Sent(t)
      /\ TcpSent(t)' = TcpSent(t) /\ TcpReceived(t)' = TcpReceived(t)
      /\ (Streams(t) => Streams(t)') /\ (Left(t) => Left(t)')
      /\ (Streams(s) => Streams(s)') /\ (Left(s) => Left(s)')
  BY <1>0, OtherSide
<1>3. net'[t] = Append(net[t], m) /\ net'[s] = net[s] /\ tx_seq'[s] = tx_seq[s] + 1
  BY <1>0, <1>1 DEF Typed
<1>4. m \in AnyMessage /\ m.label = Label(stage[s]) /\ m.tag = Tag(s)
  <2>1. Label(stage[s]) \in Labels
    BY <1>0, <1>1, LabelIs
  <2>2. Tag(s) \in Int
    <3>1. tx_seq[s] \in Int
      BY <1>0 DEF Typed
    <3> QED
      BY <3>1 DEF Tag, NoTag
  <2> QED
    BY <2>1, <2>2 DEF AnyMessage
<1> HIDE DEF t, m
<1>5. Counts(s, 1, 0, 0, 0) /\ stage'[s] # "boot" /\ step'[s] # "post"
  BY <1>0, SendCounts
<1>6. rx_seq[s] = rx_cq_cntr[s] + 1 /\ rx_cq_cntr[s] \in Nat
  BY <1>0, <1>1 DEF At, Up, Typed
<1>7. /\ At(s)' /\ Sent(s)' = Sent(s) + 1 /\ TcpSent(s)' = TcpSent(s)
      /\ TcpReceived(s)' = TcpReceived(s) /\ Sent(s) \in Nat
  BY <1>0, <1>1, <1>2, <1>3, <1>5, <1>6, OwnSide
<1>8. Between(s)'
  BY <1>0, <1>1, <1>2, <1>3, <1>7, BetweenStays DEF t
<1>9. m.label = Nth(kind, oob, Sent(s) + 1)
  BY <1>0, <1>1, <1>4, SendLabel
<1>10. mode = "tagged" => Own(m)
  BY <1>0, <1>4, <1>9 DEF Own, Tag, At, Label
<1>11. oob /\ kind \notin RmaKinds => m.label = "data"
  BY <1>0, <1>1, <1>4, UpIs DEF OverTcp, Label, Placed, Shape, Exchanges
<1>12. ~ Streams(s) => rx_cq_cntr[t] >= Sent(s)
  <2>1. ~ Streams(s) => Sent(s) <= Received(t)
    BY <1>0, <1>1, PairCounts DEF t
  <2>2. rx_cq_cntr[t] = Received(t)
    BY <1>0 DEF InConversation, InStep, At
  <2> QED
    BY <2>1, <2>2
<1>13. Between(t)'
  BY <1>0, <1>1, <1>2, <1>3, <1>4, <1>7, <1>9, <1>10, <1>11, <1>12, BetweenPost
<1> QED
  BY <1>2, <1>7, <1>8, <1>13 DEF Both, t

LEMMA ReceiveInStep ==
  ASSUME InConversation, NEW s \in Sides, Receive(s)
  PROVE  Both(s)'
<1> DEFINE t == Peer(s)
<1>0. /\ t \in Sides /\ Peer(t) = s /\ t # s /\ Placed(s) /\ Work(s) /\ Typed /\ IInv
      /\ Between(s) /\ Between(t) /\ At(s)
  BY TwoSides, ConversationPlaces DEF Work, InConversation, InStep, IInv
<1>1. /\ step[s] = "recv" /\ Up(s) /\ ~ OverTcp(s)
      /\ arrived[s] # << >> \/ rx_cq_cntr[s] = rx_seq[s]
      /\ UNCHANGED <<rx_seq, tx_seq, net, tcp, part>>
  BY DEF Receive, channels
<1>2. /\ UNCHANGED <<fixed, losses, timeout>> /\ At(t)' /\ Sent(t)' = Sent(t)
      /\ TcpSent(t)' = TcpSent(t) /\ TcpReceived(t)' = TcpReceived(t)
      /\ (Streams(t) => Streams(t)') /\ (Left(t) => Left(t)')
      /\ (Streams(s) => Streams(s)') /\ (Left(s) => Left(s)')
  BY <1>0, OtherSide
<1>3. rx_seq[s] = rx_cq_cntr[s] + 1 /\ rx_cq_cntr[s] \in Nat
  BY <1>0, <1>1 DEF At, Up, Typed
<1>4. arrived[s] # << >>
  BY <1>1, <1>3
<1>5. /\ arrived' = [arrived EXCEPT ![s] = Tail(@)]
      /\ rx_cq_cntr' = [rx_cq_cntr EXCEPT ![s] = @ + 1]
      /\ Continue(s, IF rx_cq_cntr'[s] = rx_seq[s] THEN "post" ELSE "recv")
  BY <1>0, <1>4, TagValid DEF Receive
<1>6. Len(arrived[s]) = 1 /\ Tail(arrived[s]) = << >>
  BY <1>0, <1>4, OneArrived
<1> HIDE DEF t
<1>7. /\ rx_cq_cntr'[s] = rx_cq_cntr[s] + 1 /\ rx_cq_cntr'[t] = rx_cq_cntr[t]
      /\ arrived'[s] = << >> /\ arrived'[t] = arrived[t]
  BY <1>0, <1>5, <1>6 DEF Typed
<1>8. Continue(s, "post")
  BY <1>3, <1>5, <1>7
<1>9. Counts(s, 0, 1, 0, 0)
  BY <1>0, <1>1, <1>2, <1>8, ReceiveCounts
<1>10. step'[s] = "post"
  BY <1>0, <1>8 DEF Continue, Typed
<1>11. tx_seq'[s] = tx_seq[s] + 0
  BY <1>0, <1>1 DEF Typed
<1>12. /\ At(s)' /\ Sent(s)' = Sent(s) /\ TcpSent(s)' = TcpSent(s)
       /\ TcpReceived(s)' = TcpReceived(s)
  BY <1>0, <1>2, <1>7, <1>9, <1>10, <1>11, OwnSide
<1>13. Between(s)'
  BY <1>0, <1>1, <1>2, <1>6, <1>7, <1>12, BetweenTake DEF t
<1>14. Between(t)'
  BY <1>0, <1>1, <1>2, <1>7, <1>12, BetweenStays
<1> QED
  BY <1>2, <1>12, <1>13, <1>14 DEF Both, t

LEMMA PostRxInStep ==
  ASSUME InConversation, NEW s \in Sides, PostRx(s)
  PROVE  Both(s)'
<1> DEFINE t == Peer(s)
<1>0. /\ t \in Sides /\ Peer(t) = s /\ t # s /\ Placed(s) /\ Work(s) /\ Typed
      /\ Between(s) /\ Between(t) /\ At(s)
  BY TwoSides, ConversationPlaces DEF Work, InConversation, InStep, IInv
<1>1. /\ step[s] = "post" /\ UNCHANGED <<rx_cq_cntr, arrived, tx_seq, net, tcp>>
      /\ rx_seq' = [rx_seq EXCEPT ![s] = @ + 1]
  BY DEF PostRx, channels
<1>2. /\ UNCHANGED <<fixed, losses, timeout>> /\ At(t)' /\ Sent(t)' = Sent(t)
      /\ TcpSent(t)' = TcpSent(t) /\ TcpReceived(t)' = TcpReceived(t)
      /\ (Streams(t) => Streams(t)') /\ (Left(t) => Left(t)')
      /\ (Streams(s) => Streams(s)') /\ (Left(s) => Left(s)')
  BY <1>0, OtherSide
<1>3. rx_seq[s] = rx_cq_cntr[s] /\ rx_cq_cntr[s] \in Nat /\ tx_seq[s] \in Nat
  BY <1>1 DEF InConversation, IInv, OneReceive, Typed
<1>4. rx_seq'[s] = rx_cq_cntr'[s] + 1 /\ rx_cq_cntr'[s] = rx_cq_cntr[s] + 0 /\ tx_seq'[s] = tx_seq[s] + 0
  BY <1>0, <1>1, <1>3 DEF Typed
<1> HIDE DEF t
<1>5. Counts(s, 0, 0, 0, 0)
  BY <1>0, PostRxCounts
<1>6. /\ At(s)' /\ Sent(s)' = Sent(s) /\ TcpSent(s)' = TcpSent(s)
      /\ TcpReceived(s)' = TcpReceived(s)
  BY <1>0, <1>2, <1>4, <1>5, OwnSide
<1>7. Between(s)'
  BY <1>0, <1>1, <1>2, <1>6, BetweenStays DEF t
<1>8. Between(t)'
  BY <1>0, <1>1, <1>2, <1>6, BetweenStays
<1> QED
  BY <1>2, <1>6, <1>7, <1>8 DEF Both, t

LEMMA SockSendInStep ==
  ASSUME InConversation, NEW s \in Sides, SockSend(s)
  PROVE  Both(s)'
<1> DEFINE t == Peer(s)
           l == Label(stage[s])
<1>0. /\ t \in Sides /\ Peer(t) = s /\ t # s /\ Placed(s) /\ Work(s) /\ Typed
      /\ Between(s) /\ Between(t) /\ At(s)
      /\ tcp \in [Sides -> Seq(Labels)]
  BY TwoSides, ConversationPlaces DEF Work, InConversation, InStep, IInv, Bounds
<1>1. /\ step[s] = "send" /\ OverTcp(s)
      /\ UNCHANGED <<rx_seq, rx_cq_cntr, arrived, net, tx_seq>>
      /\ tcp' = [tcp EXCEPT ![t] = Append(@, l)]
  BY DEF SockSend, receives
<1>2. /\ UNCHANGED <<fixed, losses, timeout>> /\ At(t)' /\ Sent(t)' = Sent(t)
      /\ TcpSent(t)' = TcpSent(t) /\ TcpReceived(t)' = TcpReceived(t)
      /\ (Streams(t) => Streams(t)') /\ (Left(t) => Left(t)')
      /\ (Streams(s) => Streams(s)') /\ (Left(s) => Left(s)')
  BY <1>0, OtherSide
<1>3. tcp'[t] = Append(tcp[t], l) /\ tcp'[s] = tcp[s] /\ tcp[t] \in Seq(Labels)
  BY <1>0, <1>1
<1>4. l \in Labels /\ l = TcpNth(TcpSent(s) + 1)
  BY <1>0, <1>1, TcpLabel
<1> HIDE DEF t, l
<1>5. Counts(s, 0, 0, 1, 0) /\ stage'[s] # "boot" /\ step'[s] # "post"
  BY <1>0, SockSendCounts
<1>6. rx_seq[s] = rx_cq_cntr[s] + 1 /\ rx_cq_cntr[s] \in Nat /\ tx_seq[s] \in Nat
  BY <1>0, <1>1, UpIs DEF At, Typed
<1>7. rx_cq_cntr'[s] = rx_cq_cntr[s] + 0 /\ tx_seq'[s] = tx_seq[s] + 0
  BY <1>1, <1>6
<1>8. /\ At(s)' /\ Sent(s)' = Sent(s) /\ TcpSent(s)' = TcpSent(s) + 1
      /\ TcpReceived(s)' = TcpReceived(s) /\ TcpSent(s) \in Nat
  BY <1>0, <1>1, <1>2, <1>5, <1>6, <1>7, OwnSide
<1>9. Between(s)'
  BY <1>0, <1>1, <1>2, <1>3, <1>8, BetweenStays DEF t
<1>10. TcpReceived(t) \in Nat
  BY <1>0, CountsAre, ConversationPlaces DEF Placed
<1>11. Between(t)'
  BY <1>0, <1>1, <1>2, <1>3, <1>4, <1>8, <1>10, BetweenTcpPost
<1> QED
  BY <1>2, <1>8, <1>9, <1>11 DEF Both, t

LEMMA SockReceiveInStep ==
  ASSUME InConversation, NEW s \in Sides, SockReceive(s)
  PROVE  Both(s)'
<1> DEFINE t == Peer(s)
<1>0. /\ t \in Sides /\ Peer(t) = s /\ t # s /\ Placed(s) /\ Work(s) /\ Typed
      /\ Between(s) /\ Between(t) /\ At(s)
      /\ tcp \in [Sides -> Seq(Labels)]
  BY TwoSides, ConversationPlaces DEF Work, InConversation, InStep, IInv, Bounds
<1>1. /\ step[s] = "recv" /\ OverTcp(s) /\ tcp[s] # << >>
      /\ UNCHANGED <<rx_seq, rx_cq_cntr, arrived, net, tx_seq>>
      /\ tcp' = [tcp EXCEPT ![s] = Tail(@)]
  BY DEF SockReceive, receives
<1>2. /\ UNCHANGED <<fixed, losses, timeout>> /\ At(t)' /\ Sent(t)' = Sent(t)
      /\ TcpSent(t)' = TcpSent(t) /\ TcpReceived(t)' = TcpReceived(t)
      /\ (Streams(t) => Streams(t)') /\ (Left(t) => Left(t)')
      /\ (Streams(s) => Streams(s)') /\ (Left(s) => Left(s)')
  BY <1>0, OtherSide
<1>3. tcp'[s] = Tail(tcp[s]) /\ tcp'[t] = tcp[t] /\ tcp[s] \in Seq(Labels)
  BY <1>0, <1>1
<1> HIDE DEF t
<1>5. Counts(s, 0, 0, 0, 1) /\ stage'[s] # "boot" /\ step'[s] # "post"
  BY <1>0, SockReceiveCounts
<1>6. rx_seq[s] = rx_cq_cntr[s] + 1 /\ rx_cq_cntr[s] \in Nat /\ tx_seq[s] \in Nat
  BY <1>0, <1>1, UpIs DEF At, Typed
<1>7. rx_cq_cntr'[s] = rx_cq_cntr[s] + 0 /\ tx_seq'[s] = tx_seq[s] + 0
  BY <1>1, <1>6
<1>8. /\ At(s)' /\ Sent(s)' = Sent(s) /\ TcpSent(s)' = TcpSent(s)
      /\ TcpReceived(s)' = TcpReceived(s) + 1 /\ TcpReceived(s) \in Nat
  BY <1>0, <1>1, <1>2, <1>5, <1>6, <1>7, OwnSide
<1>9. Between(s)'
  BY <1>0, <1>1, <1>2, <1>3, <1>8, BetweenTcpTake DEF t
<1>10. Between(t)'
  BY <1>0, <1>1, <1>2, <1>3, <1>8, BetweenStays
<1> QED
  BY <1>2, <1>8, <1>9, <1>10 DEF Both, t

\* Only the client of "rma" finds its peer gone: from any other exchange a
\* message that it has not taken would be left.
LEMMA GoneIs ==
  ASSUME InConversation, NEW s \in Sides, PeerGone(s)
  PROVE  stage[s] = "last" /\ s = "client" /\ kind = "rma"
<1> DEFINE t == Peer(s)
<1>0. t \in Sides /\ Placed(s) /\ Placed(t) /\ Between(s) /\ (s = "client" \/ s = "server")
  BY TwoSides, ConversationPlaces DEF InConversation, InStep, Sides
<1>1. step[s] = "recv" /\ OverTcp(s) /\ tcp[s] = << >> /\ stage[t] = "exited" /\ oob
  BY DEF PeerGone, OverTcp
<1>2. stage[s] \in {"addr", "sync", "last"} /\ part[s] \in {0, 1} /\ Up(s)
  BY <1>0, <1>1, NotOverFabric
<1>3. ~ Left(s)
  BY <1>2 DEF Left, Up
<1>4. TcpReceived(s) \in Nat /\ Len(tcp[s]) = 0
  BY <1>0, <1>1, CountsAre, EmptySeq DEF Placed
<1>5. TcpReceived(s) = TcpSent(t)
  BY <1>0, <1>3, <1>4 DEF Between, TcpLaw
<1> HIDE DEF t
<1>6. TcpSent(t) = IF RunsLast(t) THEN 4 ELSE 3
  BY <1>1 DEF TcpSent, TcpDone, TcpSentNow, OverTcp
<1>7. TcpReceived(s) = CASE stage[s] = "addr" -> part[s] [] stage[s] = "sync" -> 2 + part[s]
                          [] OTHER -> 3 + part[s]
  BY <1>1, <1>2 DEF TcpReceived, TcpDone, TcpReceivedNow
<1>8. stage[s] # "addr" => part[s] = 0
  BY <1>0, <1>2 DEF Placed, Parted
<1>9. stage[s] = "last" /\ ~ RunsLast(t)
  BY <1>2, <1>5, <1>6, <1>7, <1>8
<1>10. RunsLast(s)
  BY <1>0, <1>9 DEF Placed, Shape
<1> QED
  BY <1>9, <1>10 DEF RunsLast

LEMMA PeerGoneInStep ==
  ASSUME InConversation, NEW s \in Sides, PeerGone(s)
  PROVE  Both(s)'
<1> DEFINE t == Peer(s)
<1>0. /\ t \in Sides /\ Peer(t) = s /\ t # s /\ Placed(s) /\ Work(s) /\ Typed
      /\ Between(s) /\ Between(t) /\ At(s)
  BY TwoSides, ConversationPlaces DEF Work, InConversation, InStep, IInv, Bounds
<1>1. /\ step[s] = "recv" /\ OverTcp(s)
      /\ UNCHANGED <<rx_seq, rx_cq_cntr, arrived, net, tcp, tx_seq>>
  BY DEF PeerGone, receives, channels
<1>2. /\ UNCHANGED <<fixed, losses, timeout>> /\ At(t)' /\ Sent(t)' = Sent(t)
      /\ TcpSent(t)' = TcpSent(t) /\ TcpReceived(t)' = TcpReceived(t)
      /\ (Streams(t) => Streams(t)') /\ (Left(t) => Left(t)')
      /\ (Streams(s) => Streams(s)') /\ (Left(s) => Left(s)')
  BY <1>0, OtherSide
<1> HIDE DEF t
<1>4. stage[s] = "last" /\ s = "client" /\ kind = "rma"
  BY GoneIs
<1>5. Counts(s, 0, 0, 0, 1) /\ stage'[s] = "closed" /\ step'[s] # "post"
  BY <1>0, <1>4, PeerGoneCounts
<1>6. rx_seq[s] = rx_cq_cntr[s] + 1 /\ rx_cq_cntr[s] \in Nat /\ tx_seq[s] \in Nat
  BY <1>0, <1>1, UpIs DEF At, Typed
<1>7. rx_cq_cntr'[s] = rx_cq_cntr[s] + 0 /\ tx_seq'[s] = tx_seq[s] + 0
  BY <1>1, <1>6
<1>8. At(s)' /\ Sent(s)' = Sent(s) /\ TcpSent(s)' = TcpSent(s)
  BY <1>0, <1>1, <1>2, <1>5, <1>6, <1>7, OwnSide
<1>9. Left(s)'
  BY <1>2, <1>4, <1>5 DEF Left, fixed, Ended
<1>10. Between(s)'
  BY <1>0, <1>1, <1>2, <1>8, <1>9, BetweenStays DEF t
<1>11. Between(t)'
  BY <1>0, <1>1, <1>2, <1>8, BetweenStays
<1> QED
  BY <1>2, <1>8, <1>10, <1>11 DEF Both, t

\* A data word follows on the last exchange, unasked.
LEMMA RmaInStep ==
  ASSUME InConversation, NEW s \in Sides, Rma(s)
  PROVE  Both(s)'
<1> DEFINE t == Peer(s)
           m == [label |-> "data", tag |-> Tag(s)]
<1>0. /\ t \in Sides /\ Peer(t) = s /\ t # s /\ Placed(s) /\ Work(s) /\ Typed
      /\ Between(s) /\ Between(t) /\ At(s) /\ OneReceive
  BY TwoSides, ConversationPlaces DEF Work, InConversation, InStep, IInv, Bounds
<1>1. /\ step[s] = "rma" /\ stage[s] = "loop" /\ UNCHANGED <<rx_seq, rx_cq_cntr, arrived, tcp>>
      /\ IF mode = "writedata" THEN net' = [net EXCEPT ![t] = Append(@, m)] ELSE UNCHANGED net
  BY DEF Rma, Post, receives
<1>2. /\ UNCHANGED <<fixed, losses, timeout>> /\ At(t)' /\ Sent(t)' = Sent(t)
      /\ TcpSent(t)' = TcpSent(t) /\ TcpReceived(t)' = TcpReceived(t)
      /\ (Streams(t) => Streams(t)') /\ (Left(t) => Left(t)')
      /\ (Streams(s) => Streams(s)') /\ (Left(s) => Left(s)')
  BY <1>0, OtherSide
<1>3. net'[s] = net[s]
  BY <1>0, <1>1 DEF Typed
<1>4. kind \in RmaKinds /\ mode # "tagged"
  BY <1>0, <1>1 DEF OneReceive, Typed
<1>5. m \in AnyMessage
  <2>1. Tag(s) = 0
    BY <1>4 DEF Tag, RmaKinds
  <2> QED
    BY <2>1 DEF AnyMessage, Labels
<1> HIDE DEF t, m
<1>6. /\ Counts(s, IF mode = "writedata" THEN 1 ELSE 0, 0, 0, 0)
      /\ s = "server" /\ stage'[s] # "boot" /\ step'[s] # "post"
  BY <1>0, <1>4, RmaCounts
<1>7. rx_seq[s] = rx_cq_cntr[s] + 1 /\ rx_cq_cntr[s] \in Nat
  BY <1>0, <1>1 DEF At, Typed
<1>8. rx_cq_cntr'[s] = rx_cq_cntr[s] + 0
  BY <1>1, <1>7
<1>9. /\ At(s)' /\ TcpSent(s)' = TcpSent(s) /\ TcpReceived(s)' = TcpReceived(s) /\ Sent(s) \in Nat
      /\ mode = "writedata" => Sent(s)' = Sent(s) + 1
      /\ mode # "writedata" => Sent(s)' = Sent(s)
  <2>1. CASE mode = "writedata"
    <3>1. Counts(s, 1, 0, 0, 0)
      BY <1>6, <2>1
    <3> QED
      BY <1>0, <1>1, <1>2, <1>4, <1>6, <1>7, <1>8, <2>1, <3>1, OwnSide
  <2>2. CASE mode # "writedata"
    <3>1. Counts(s, 0, 0, 0, 0)
      BY <1>6, <2>2
    <3> QED
      BY <1>0, <1>1, <1>2, <1>4, <1>6, <1>7, <1>8, <2>2, <3>1, OwnSide
  <2> QED
    BY <2>1, <2>2
<1>10. Between(s)'
  BY <1>0, <1>1, <1>2, <1>3, <1>9, BetweenStays DEF t
<1>11. CASE mode # "writedata"
  <2>1. net'[t] = net[t]
    BY <1>1, <1>11
  <2>2. Between(t)'
    BY <1>0, <1>1, <1>2, <1>9, <1>11, <2>1, BetweenStays
  <2> QED
    BY <1>2, <1>9, <1>10, <2>2 DEF Both, t
<1>12. CASE mode = "writedata"
  <2>1. net'[t] = Append(net[t], m)
    BY <1>0, <1>1, <1>12 DEF Typed
  <2>2. Streams(s)
    BY <1>1, <1>6, <1>12 DEF Streams
  <2>3. Sent(s) >= Base
    <3>1. /\ Done(s) = Base /\ Base \in Nat /\ SentRounds(s) \in Nat /\ SentNow(s) \in {0, 1}
      BY <1>0, <1>1, CountsAre DEF Done, Placed
    <3> QED
      BY <3>1 DEF Sent
  <2>4. Between(t)'
    BY <1>0, <1>1, <1>2, <1>4, <1>5, <1>9, <1>12, <2>1, <2>2, <2>3, BetweenPost
  <2> QED
    BY <1>2, <1>9, <1>10, <2>4 DEF Both, t
<1> QED
  BY <1>11, <1>12

LEMMA IdleInStep ==
  ASSUME InConversation, NEW s \in Sides, Enable(s) \/ GoOn(s) \/ TimeUp(s) \/ ProcessEnds(s)
  PROVE  Both(s)'
<1> DEFINE t == Peer(s)
<1>0. /\ t \in Sides /\ Peer(t) = s /\ t # s /\ Placed(s) /\ Work(s) /\ Typed /\ OneReceive
      /\ Between(s) /\ Between(t) /\ At(s)
  BY TwoSides, ConversationPlaces DEF Work, InConversation, InStep, IInv, Bounds
<1>1. /\ UNCHANGED <<rx_cq_cntr, arrived, net, tcp, tx_seq>>
      /\ \/ stage[s] = "boot" /\ rx_seq' = [rx_seq EXCEPT ![s] = 1]
         \/ stage[s] # "boot" /\ step[s] # "post" /\ rx_seq' = rx_seq
  <2>1. step[s] = "clock" => stage[s] # "boot"
    BY <1>0 DEF Placed, Within
  <2>2. stage[s] = "closed" => step[s] # "post"
    BY <1>0 DEF Placed, Within, Up, Ended
  <2> QED
    BY <2>1, <2>2 DEF Enable, GoOn, TimeUp, ProcessEnds, receives, channels
<1>2. /\ UNCHANGED <<fixed, losses, timeout>> /\ At(t)' /\ Sent(t)' = Sent(t)
      /\ TcpSent(t)' = TcpSent(t) /\ TcpReceived(t)' = TcpReceived(t)
      /\ (Streams(t) => Streams(t)') /\ (Left(t) => Left(t)')
      /\ (Streams(s) => Streams(s)') /\ (Left(s) => Left(s)')
  BY <1>0, OtherSide
<1> HIDE DEF t
<1>3. Counts(s, 0, 0, 0, 0) /\ stage'[s] # "boot" /\ step'[s] # "post"
  BY <1>0, IdleCounts DEF OneReceive
<1>4. rx_cq_cntr[s] \in Nat /\ tx_seq[s] \in Nat /\ rx_seq \in [Sides -> Nat]
  BY <1>0 DEF Typed
<1>5. rx_cq_cntr'[s] = rx_cq_cntr[s] + 0 /\ tx_seq'[s] = tx_seq[s] + 0
  BY <1>1, <1>4
<1>6. rx_seq'[s] = rx_cq_cntr'[s] + 1
  BY <1>0, <1>1, <1>4 DEF At, OneReceive
<1>7. /\ At(s)' /\ Sent(s)' = Sent(s) /\ TcpSent(s)' = TcpSent(s)
      /\ TcpReceived(s)' = TcpReceived(s)
  BY <1>0, <1>2, <1>3, <1>5, <1>6, OwnSide
<1>8. Between(s)'
  BY <1>0, <1>1, <1>2, <1>7, BetweenStays DEF t
<1>9. Between(t)'
  BY <1>0, <1>1, <1>2, <1>7, BetweenStays
<1> QED
  BY <1>2, <1>7, <1>8, <1>9 DEF Both, t

-----------------------------------------------------------------------------
\* The fabric moves no side.
LEMMA NobodyMoves ==
  ASSUME InConversation, NEW s \in Sides,
         UNCHANGED <<control, tx_seq, rx_seq, rx_cq_cntr, part, timeout, fixed>>
  PROVE  /\ At(s)'
         /\ Sent(s)' = Sent(s) /\ TcpSent(s)' = TcpSent(s) /\ TcpReceived(s)' = TcpReceived(s)
         /\ Streams(s) => Streams(s)'
         /\ Left(s) => Left(s)'
<1>0. /\ Placed(s) /\ At(s) /\ Typed
      /\ stage' = stage /\ step' = step /\ rounds' = rounds /\ mode' = mode
  BY ConversationPlaces DEF InConversation, InStep, Placed, control, fixed
<1>1. Counts(s, 0, 0, 0, 0)
  BY <1>0, CountsStay
<1>2. /\ Sent(s) \in Nat /\ Received(s) \in Nat /\ TcpSent(s) \in Nat /\ TcpReceived(s) \in Nat
  BY <1>0, CountsAre DEF Placed
<1>3. /\ Sent(s)' = Sent(s) /\ Received(s)' = Received(s)
      /\ TcpSent(s)' = TcpSent(s) /\ TcpReceived(s)' = TcpReceived(s)
  BY <1>1, <1>2 DEF Counts
<1>4. At(s)'
  BY <1>0, <1>1, <1>3 DEF At, Counts
<1>5. (Streams(s) => Streams(s)') /\ (Left(s) => Left(s)')
  BY <1>0 DEF Streams, Left, fixed
<1> QED
  BY <1>3, <1>4, <1>5

LEMMA DeliverInStep ==
  ASSUME InConversation, NEW s \in Sides, Deliver(s)
  PROVE  Both(s)'
<1> DEFINE t == Peer(s)
<1>0. /\ t \in Sides /\ Peer(t) = s /\ t # s /\ Typed /\ OneReceive
      /\ Between(s) /\ Between(t)
  BY TwoSides DEF InConversation, InStep, IInv
<1>1. PICK first \in DOMAIN net[s] :
        /\ mode # "tagged" => \A i \in DOMAIN net[s] : first <= i
        /\ arrived' = [arrived EXCEPT ![s] = Append(@, net[s][first])]
        /\ net' = [net EXCEPT ![s] = RemoveAt(@, first)]
  BY DEF Deliver, Matching
<1>2. UNCHANGED <<control, tx_seq, rx_seq, rx_cq_cntr, part, timeout, fixed, losses, tcp>>
  BY DEF Deliver, Quiet
<1>3. /\ net[s] \in Seq(AnyMessage) /\ Len(net[s]) \in Nat /\ DOMAIN net[s] = 1..Len(net[s])
      /\ net \in [Sides -> Seq(AnyMessage)] /\ arrived \in [Sides -> Seq(AnyMessage)]
  BY <1>0, LenProperties DEF Typed
<1>4. first \in 1..Len(net[s])
  BY <1>3
<1>5. mode # "tagged" => first = 1
  <2> DEFINE n == Len(net[s])
  <2>1. first \in 1..n /\ n \in Nat /\ (mode # "tagged" => \A i \in 1..n : first <= i)
    BY <1>1, <1>3, <1>4
  <2> HIDE DEF n
  <2> QED
    BY <2>1
<1>6. Len(arrived[s]) = 0
  <2> DEFINE a == Len(arrived[s])
  <2>1. a \in Nat
    BY <1>0, LenProperties DEF Typed
  <2>2. rx_seq[s] - rx_cq_cntr[s] - a > 0
    BY DEF Deliver, Posted
  <2>3. rx_seq[s] \in Nat /\ rx_cq_cntr[s] \in Nat /\ rx_seq[s] <= rx_cq_cntr[s] + 1
    BY <1>0 DEF Typed, OneReceive
  <2> HIDE DEF a
  <2>4. a = 0
    BY <2>1, <2>2, <2>3
  <2> QED
    BY <2>4 DEF a
<1>7. /\ arrived'[s] = Append(arrived[s], net[s][first]) /\ arrived'[t] = arrived[t]
      /\ net'[s] = RemoveAt(net[s], first) /\ net'[t] = net[t]
  BY <1>0, <1>1, <1>3
<1> HIDE DEF t
<1>8. \A u \in Sides :
        /\ At(u)'
        /\ Sent(u)' = Sent(u) /\ TcpSent(u)' = TcpSent(u) /\ TcpReceived(u)' = TcpReceived(u)
        /\ (Streams(u) => Streams(u)') /\ (Left(u) => Left(u)')
  BY <1>2, NobodyMoves
<1>9. Between(s)'
  <2>1. /\ Sent(t)' = Sent(t) /\ TcpSent(t)' = TcpSent(t) /\ (Streams(t) => Streams(t)')
        /\ TcpReceived(s)' = TcpReceived(s) /\ (Left(s) => Left(s)')
    BY <1>0, <1>8
  <2> QED
    BY <1>0, <1>2, <1>4, <1>5, <1>6, <1>7, <2>1, BetweenDeliver DEF t
<1>10. Between(t)'
  <2>1. /\ Sent(s)' = Sent(s) /\ TcpSent(s)' = TcpSent(s) /\ (Streams(s) => Streams(s)')
        /\ TcpReceived(t)' = TcpReceived(t) /\ (Left(t) => Left(t)')
    BY <1>0, <1>8
  <2> QED
    BY <1>0, <1>2, <1>7, <2>1, BetweenStays
<1> QED
  BY <1>0, <1>8, <1>9, <1>10 DEF Both, t

LEMMA LoseInStep ==
  ASSUME InConversation, NEW s \in Sides, Lose(s)
  PROVE  Both(s)'
<1> DEFINE t == Peer(s)
<1>0. /\ t \in Sides /\ Peer(t) = s /\ t # s /\ Typed /\ Between(s) /\ Between(t)
  BY TwoSides DEF InConversation, InStep, IInv
<1>1. PICK i \in DOMAIN net[s] : net' = [net EXCEPT ![s] = RemoveAt(@, i)]
  BY DEF Lose
<1>2. /\ UNCHANGED <<control, tx_seq, rx_seq, rx_cq_cntr, arrived, part, timeout, fixed, tcp>>
      /\ losses' = losses + 1
  BY DEF Lose, receives
<1>3. i \in 1..Len(net[s]) /\ net'[s] = RemoveAt(net[s], i) /\ net'[t] = net[t]
  BY <1>0, <1>1, LenProperties DEF Typed
<1>4. lost'
  BY <1>0, <1>2 DEF lost, Typed
<1> HIDE DEF t
<1>5. \A u \in Sides :
        /\ At(u)'
        /\ Sent(u)' = Sent(u) /\ TcpSent(u)' = TcpSent(u) /\ TcpReceived(u)' = TcpReceived(u)
        /\ (Streams(u) => Streams(u)') /\ (Left(u) => Left(u)')
  BY <1>2, NobodyMoves
<1>6. Between(s)'
  <2>1. /\ Sent(t)' = Sent(t) /\ TcpSent(t)' = TcpSent(t) /\ (Streams(t) => Streams(t)')
        /\ TcpReceived(s)' = TcpReceived(s) /\ (Left(s) => Left(s)') /\ Sent(t) \in Nat
    BY <1>0, <1>5, CountsAre, ConversationPlaces DEF Placed
  <2> QED
    BY <1>0, <1>2, <1>3, <1>4, <2>1, BetweenLose DEF t
<1>7. Between(t)'
  <2>1. /\ Sent(s)' = Sent(s) /\ TcpSent(s)' = TcpSent(s)
        /\ TcpReceived(t)' = TcpReceived(t) /\ UNCHANGED <<Base, kind, oob, mode>>
        /\ (Left(t) => Left(t)') /\ (Streams(s) => Streams(s)')
    BY <1>0, <1>2, <1>5 DEF fixed, Base, Inband, Keyed
  <2>2. rx_cq_cntr'[t] = rx_cq_cntr[t] /\ arrived'[t] = arrived[t] /\ tcp'[t] = tcp[t]
    BY <1>2
  <2>3. NoneMade(t)'
    BY <1>0, <1>3, <2>1, <2>2 DEF Between, NoneMade
  <2>4. TcpLaw(t)'
    BY <1>0, <2>1, <2>2 DEF Between, TcpLaw
  <2>5. Ordered(t)'
    BY <1>4 DEF Ordered
  <2>6. Solo(t)'
    BY <1>0, <1>3, <2>1, <2>2 DEF Between, Solo
  <2>7. ByTag(t)'
    BY <1>0, <1>3, <2>1, <2>2 DEF Between, ByTag, Own
  <2>8. OnlyData(t)'
    BY <1>0, <1>3, <2>1, <2>2 DEF Between, OnlyData
  <2> QED
    BY <2>3, <2>4, <2>5, <2>6, <2>7, <2>8 DEF Between
<1> QED
  BY <1>0, <1>5, <1>6, <1>7 DEF Both, t

-----------------------------------------------------------------------------
\* The client of "rma" gets no answer to its last sync: the server has made
\* no such exchange.
LEMMA NoAnswer ==
  ASSUME InConversation, kind = "rma", ~ Unanswered, NEW s \in Sides, s = "client",
         stage[s] = "last"
  PROVE  step[s] # "post" /\ ~ SockReceive(s)
<1> DEFINE t == Peer(s)
<1>0. /\ t \in Sides /\ t = "server" /\ Placed(s) /\ Placed(t) /\ Between(s) /\ oob \in BOOLEAN
      /\ kind \in RmaKinds /\ kind \notin LockStepKinds /\ kind \notin OneWayKinds
  BY TwoSides, ConversationPlaces, OneKind DEF InConversation, InStep, Bounds, Peer, RmaKinds, Placed
<1>1. /\ Base \in Nat /\ Done(s) \in Nat /\ TakenRounds(s) \in Nat /\ SentRounds(t) \in Nat
      /\ Done(t) \in Nat
  BY <1>0, CountsAre DEF Placed
<1>2. ~ RunsLast(t)
  BY <1>0 DEF RunsLast
<1>3. step[s] # "post"
  <2> SUFFICES ASSUME step[s] = "post"
               PROVE  FALSE
    OBVIOUS
  <2>1. Up(s) /\ ~ OverTcp(s)
    BY <1>0 DEF Placed, Within
  <2>2. mode # "writedata"
    BY <1>0, <2>1 DEF OverTcp, Unanswered
  <2>3. Done(s) = Base /\ ReceivedNow(s) = 1
    BY <2>1 DEF Done, ReceivedNow, Fabric
  <2>4. Done(t) <= Base
    BY <1>0, <1>1, <1>2, CountsAre DEF Done, Base, Placed
  <2>5. SentRounds(t) = 0
    BY <1>0, <2>2 DEF SentRounds, SendsRound
  <2>6. SentNow(t) = 0
    BY <1>0, ServerCounts
  <2>7. Sent(t) <= Base /\ Received(s) >= Base + 1
    BY <1>1, <2>3, <2>4, <2>5, <2>6 DEF Sent, Received
  <2>8. Received(s) <= Sent(t)
    BY ReceivedIsSent
  <2>9. Sent(t) \in Nat /\ Received(s) \in Nat
    BY <1>0, CountsAre DEF Placed
  <2> QED
    BY <1>1, <2>7, <2>8, <2>9
<1>4. ~ SockReceive(s)
  <2> SUFFICES ASSUME SockReceive(s)
               PROVE  FALSE
    OBVIOUS
  <2> DEFINE n == Len(tcp[s])
  <2>1. step[s] = "recv" /\ oob /\ OverTcp(s) /\ n \in Nat \ {0}
    <3>1. tcp[s] \in Seq(Labels) /\ tcp[s] # << >>
      BY DEF SockReceive, InConversation, Bounds
    <3> QED
      BY <3>1, LenProperties, EmptySeq DEF SockReceive, OverTcp
  <2>2. TcpReceived(s) + n = TcpSent(t)
    BY <1>0 DEF Between, TcpLaw, Left, Ended
  <2>3. TcpReceived(s) = 3 + part[s] /\ part[s] \in {0, 1}
    BY <1>0, <2>1, NotOverFabric DEF TcpReceived, TcpDone, TcpReceivedNow
  <2>4. TcpSent(t) \in Nat /\ TcpSent(t) <= 3
    <3>1. part[t] \in {0, 1} /\ stage[t] # "last"
      BY <1>0, <1>2 DEF Placed, Shape
    <3>2. CASE OverTcp(t)
      <4>1. stage[t] \in {"addr", "sync"}
        BY <3>1, <3>2 DEF OverTcp
      <4>2. TcpSentNow(t) <= Parts(Label(stage[t])) /\ TcpSentNow(t) \in Nat
        <5>1. stage[t] # "addr" => part[t] = 0
          BY <1>0, <3>1 DEF Placed, Parted
        <5> QED
          BY <3>1, <3>2, <4>1, <5>1 DEF TcpSentNow, Parts, Label
      <4>3. CASE stage[t] = "addr"
        BY <4>2, <4>3 DEF TcpSent, TcpDone, Parts, Label
      <4>4. CASE stage[t] = "sync"
        BY <2>1, <4>2, <4>4 DEF TcpSent, TcpDone, Parts, Label
      <4> QED
        BY <4>1, <4>3, <4>4
    <3>3. CASE ~ OverTcp(t)
      BY <1>2, <2>1, <3>3 DEF TcpSent, TcpDone, TcpSentNow
    <3> QED
      BY <3>2, <3>3
  <2> HIDE DEF n, t
  <2> QED
    BY <2>1, <2>2, <2>3, <2>4
<1> QED
  BY <1>3, <1>4

\* So it leaves when the server has ended.
LEMMA RmaEndStep ==
  ASSUME InConversation, NEW s \in Sides, Work(s)
  PROVE  RmaEnd'
<1> SUFFICES ASSUME kind = "rma", ~ Unanswered, stage'["client"] \in Ended
             PROVE  stage'["server"] = "exited"
  <2>1. UNCHANGED <<kind, mode, oob>>
    BY OtherSide, TwoSides DEF fixed
  <2> QED
    BY <2>1 DEF RmaEnd, Unanswered
<1>0. /\ "client" \in Sides /\ "server" \in Sides /\ s \in {"client", "server"}
      /\ Placed(s) /\ Typed /\ IInv
  BY ConversationPlaces DEF Sides, InConversation, IInv
<1>1. CASE s = "server"
  <2>1. stage'["client"] = stage["client"]
    BY <1>0, <1>1, OtherStays
  <2>2. stage["server"] = "exited"
    BY <2>1 DEF InConversation, InStep, RmaEnd
  <2>3. stage["server"] # "exited"
    BY <1>0, <1>1, Onward, OtherStays
  <2> QED
    BY <2>2, <2>3
<1>2. CASE s = "client"
  <2>0. stage'["server"] = stage["server"] /\ UNCHANGED fixed
    BY <1>0, <1>2, OtherStays
  <2>1. stage["client"] \in {"last", "closed"}
    BY <1>0, <1>2, <2>0, Onward
  <2>2. CASE stage["client"] = "closed"
    BY <2>0, <2>2 DEF InConversation, InStep, RmaEnd, Ended
  <2>3. CASE stage[s] = "last"
    <3>0. /\ stage'[s] \in Ended /\ At(s) /\ SendsFirst(s) /\ ~ OneWay(s)
      BY <1>2, <2>3 DEF InConversation, InStep, SendsFirst, FirstStep, OneWay
    <3>1. step[s] # "post" /\ ~ SockReceive(s)
      BY <1>2, <2>3, NoAnswer
    <3>2. ASSUME NEW p, Continue(s, p)
          PROVE  FALSE
      BY <2>3, <3>0, <3>2 DEF Continue, Ended
    <3>3. ~ AfterSend(s)
      BY <3>0, <3>2 DEF AfterSend
    <3>4. ~ Send(s) /\ ~ SockSend(s)
      BY <2>3, <3>0, <3>3 DEF Send, SockSend, NextPart, control, Ended
    <3>5. ~ Receive(s)
      <4> SUFFICES ASSUME Receive(s)
                   PROVE  FALSE
        OBVIOUS
      <4>1. rx_seq[s] = rx_cq_cntr[s] + 1 /\ rx_cq_cntr[s] \in Nat
        BY <1>0, <2>3, <3>0 DEF Receive, At, Typed
      <4>2. arrived[s] # << >>
        BY <4>1 DEF Receive
      <4>3. ft_tag_is_valid(Head(arrived[s]), rx_cq_cntr[s])
        BY <1>0, <4>2, TagValid
      <4> QED
        BY <3>2, <4>2, <4>3 DEF Receive
    <3>6. ~ ReceiveTimesOut(s)
      BY <3>0 DEF ReceiveTimesOut, At
    <3>7. ~ PostRx(s)
      BY <3>1 DEF PostRx
    <3>8. ~ Enable(s) /\ ~ Rma(s) /\ ~ ProcessEnds(s)
      BY <2>3 DEF Enable, Rma, ProcessEnds
    <3>9. ~ GoOn(s) /\ ~ TimeUp(s)
      BY <1>0, <2>3 DEF Placed, Within, GoOn, TimeUp
    <3>10. PeerGone(s)
      BY <3>1, <3>4, <3>5, <3>6, <3>7, <3>8, <3>9 DEF Work
    <3> QED
      BY <1>2, <2>0, <3>10 DEF PeerGone, Peer
  <2> QED
    BY <1>2, <2>1, <2>2, <2>3
<1> QED
  BY <1>0, <1>1, <1>2

-----------------------------------------------------------------------------
LEMMA InitConversation == Init => Conversation
<1> SUFFICES ASSUME Init
             PROVE  InStep
  BY DEF Conversation
<1>0. ASSUME NEW s \in Sides
      PROVE  /\ stage[s] = "boot" /\ step[s] = "send" /\ rounds[s] = 0 /\ timeout[s] = -1
             /\ tx_seq[s] = 0 /\ rx_cq_cntr[s] = 0 /\ part[s] = 0
             /\ arrived[s] = << >> /\ net[s] = << >> /\ tcp[s] = << >>
  BY <1>0 DEF Init
<1>1. mode = "writedata" => kind \in RmaKinds
  BY DEF Init
<1>2. RmaEnd
  BY <1>0 DEF RmaEnd, Ended, Sides
<1>3. ASSUME NEW s \in Sides
      PROVE  Sent(s) = 0 /\ Received(s) = 0 /\ TcpSent(s) = 0 /\ TcpReceived(s) = 0
  <2>1. Done(s) = 0 /\ TcpDone(s) = 0 /\ SentRounds(s) = 0 /\ TakenRounds(s) = 0
    BY <1>0 DEF Done, TcpDone, SentRounds, TakenRounds
  <2>2. SentNow(s) = 0 /\ ReceivedNow(s) = 0 /\ TcpSentNow(s) = 0 /\ TcpReceivedNow(s) = 0
    BY <1>0 DEF SentNow, ReceivedNow, TcpSentNow, TcpReceivedNow, Fabric, Up, OverTcp
  <2> QED
    BY <2>1, <2>2 DEF Sent, Received, TcpSent, TcpReceived
<1>4. ASSUME NEW s \in Sides
      PROVE  At(s) /\ Between(s)
  <2>1. Shape(s)
    BY <1>0 DEF Shape, OneWay
  <2>2. At(s)
    BY <1>0, <1>3, <2>1 DEF At
  <2>3. /\ Len(arrived[s]) = 0 /\ Len(net[s]) = 0 /\ Len(tcp[s]) = 0 /\ 1..0 = {}
        /\ Peer(s) \in Sides /\ Sent(Peer(s)) = 0 /\ TcpSent(Peer(s)) = 0 /\ TcpReceived(s) = 0
        /\ rx_cq_cntr[s] = 0
    <3>1. Len(<< >>) = 0
      BY EmptySeq
    <3> QED
      BY <1>0, <1>3, <3>1, TwoSides
  <2>4. Between(s)
    <3>1. NoneMade(s) /\ TcpLaw(s)
      BY <2>3 DEF NoneMade, TcpLaw
    <3>2. Ordered(s) /\ Solo(s) /\ ByTag(s) /\ OnlyData(s)
      BY <2>3 DEF Ordered, Solo, ByTag, OnlyData
    <3> QED
      BY <3>1, <3>2 DEF Between
  <2> QED
    BY <2>2, <2>4
<1> QED
  BY <1>1, <1>2, <1>4 DEF InStep

LEMMA WorkInStep ==
  ASSUME InConversation, NEW s \in Sides, Work(s)
  PROVE  Both(s)'
<1>1. ~ ReceiveTimesOut(s)
  BY DEF InConversation, InStep, At, ReceiveTimesOut
<1> QED
  BY <1>1, SendInStep, ReceiveInStep, PostRxInStep, SockSendInStep, SockReceiveInStep,
     PeerGoneInStep, RmaInStep, IdleInStep DEF Work

LEMMA NextConversation ==
  IInv /\ Bounds /\ Conversation /\ [Next]_vars => Conversation'
<1> SUFFICES ASSUME IInv, Bounds, Conversation, [Next]_vars, ~ failed'
             PROVE  InStep'
  BY DEF Conversation
<1>1. \A s \in Sides : ~ Fault(s)
  <2>1. faults \in Nat
    BY DEF IInv, Typed
  <2> QED
    BY <2>1 DEF Fault, SendFails, ReceiveFails, PostRxFails, SockFails, RmaFails, Abandon, failed
<1>2. UNCHANGED <<faults, fixed>>
  BY <1>1 DEF Next, Work, Enable, Send, Receive, ReceiveTimesOut, PostRx, SockSend,
         SockReceive, PeerGone, Rma, GoOn, TimeUp, ProcessEnds, Deliver, Lose, Terminated,
         vars, Quiet, fixed
<1>3. InConversation
  BY <1>2 DEF Conversation, InConversation, failed
<1>4. ASSUME NEW s \in Sides, Both(s)', RmaEnd'
      PROVE  InStep'
  <2>1. mode' = "writedata" => kind' \in RmaKinds
    BY <1>2, <1>3 DEF InConversation, InStep, fixed
  <2>2. \A u \in Sides : At(u)' /\ Between(u)'
    <3>1. ASSUME NEW u \in Sides
          PROVE  At(u)' /\ Between(u)'
      <4>1. u = s \/ u = Peer(s)
        BY TwoSides
      <4> QED
        BY <1>4, <4>1 DEF Both
    <3> QED
      BY <3>1
  <2> QED
    BY <1>4, <2>1, <2>2 DEF InStep
<1>5. UNCHANGED <<stage, fixed>> => RmaEnd'
  BY <1>3 DEF InConversation, InStep, RmaEnd, Unanswered, fixed
<1>6. ASSUME NEW s \in Sides, Work(s)
      PROVE  InStep'
  BY <1>3, <1>4, <1>6, WorkInStep, RmaEndStep
<1>7. ASSUME NEW s \in Sides, Deliver(s)
      PROVE  InStep'
  BY <1>2, <1>3, <1>4, <1>5, <1>7, DeliverInStep DEF Deliver, control
<1>8. ASSUME NEW s \in Sides, Lose(s)
      PROVE  InStep'
  BY <1>2, <1>3, <1>4, <1>5, <1>8, LoseInStep DEF Lose, control
<1>9. CASE UNCHANGED vars
  <2>1. "client" \in Sides
    BY DEF Sides
  <2>2. ASSUME NEW s \in Sides
        PROVE  At(s)' /\ Between(s)'
    <3>1. /\ At(s)' /\ Peer(s) \in Sides
          /\ \A u \in Sides :
               /\ Sent(u)' = Sent(u) /\ TcpSent(u)' = TcpSent(u) /\ TcpReceived(u)' = TcpReceived(u)
               /\ (Streams(u) => Streams(u)') /\ (Left(u) => Left(u)')
      BY <1>3, <1>9, NobodyMoves, TwoSides DEF vars, control, fixed
    <3>2. Between(s)
      BY <1>3 DEF InConversation, InStep
    <3>3. /\ Sent(Peer(s))' = Sent(Peer(s)) /\ TcpSent(Peer(s))' = TcpSent(Peer(s))
          /\ (Streams(Peer(s)) => Streams(Peer(s))')
          /\ TcpReceived(s)' = TcpReceived(s) /\ (Left(s) => Left(s)')
      BY <3>1
    <3>4. /\ UNCHANGED <<fixed, losses>> /\ rx_cq_cntr'[s] = rx_cq_cntr[s]
          /\ arrived'[s] = arrived[s] /\ net'[s] = net[s] /\ tcp'[s] = tcp[s]
      BY <1>9 DEF vars, fixed
    <3> QED
      BY <3>1, <3>2, <3>3, <3>4, BetweenStays
  <2>3. mode' = "writedata" => kind' \in RmaKinds
    BY <1>2, <1>3 DEF InConversation, InStep, fixed
  <2> QED
    BY <1>5, <1>9, <2>2, <2>3 DEF InStep, vars, fixed
<1> QED
  BY <1>1, <1>6, <1>7, <1>8, <1>9 DEF Next, Terminated

LEMMA Conversing == Spec => [](IInv /\ Bounds /\ Conversation)
<1>1. Init => IInv /\ Bounds /\ Conversation
  BY InitIInv, InitBounds, InitConversation
<1>2. (IInv /\ Bounds /\ Conversation) /\ [Next]_vars => (IInv /\ Bounds /\ Conversation)'
  BY NextIInv, BoundsStep, NextConversation
<1> QED
  BY <1>1, <1>2, PTL DEF Spec

-----------------------------------------------------------------------------
(***************************************************************************)
(* What follows from the counts.                                           *)
(***************************************************************************)
\* A side that has begun no exchange has sent nothing of it.
LEMMA NotThere ==
  ASSUME NEW s \in Sides, Placed(s)
  PROVE  /\ stage[s] = "boot" => Sent(s) = 0 /\ TcpSent(s) = 0
         /\ stage[s] = "addr" => Sent(s) <= Inband /\ TcpSent(s) <= 2
         /\ stage[s] = "keys" => Sent(s) <= Inband + 1 /\ TcpSent(s) <= 2
         /\ stage[s] = "sync" => Sent(s) <= Base /\ TcpSent(s) <= 3
         /\ stage[s] = "loop" /\ kind \in RmaKinds =>
               /\ mode # "writedata" => Sent(s) <= Base
               /\ TcpSent(s) <= 3
<1>0. Typed /\ Within(s) /\ Shape(s) /\ part[s] \in {0, 1}
  <2>1. part[s] \in 0..1
    BY DEF Placed
  <2> QED
    BY <2>1 DEF Placed
<1>1. /\ Inband \in {0, 1} /\ (oob <=> Inband = 0) /\ Keyed \in {0, 1}
      /\ (kind \in RmaKinds <=> Keyed = 1) /\ Base = Inband + Keyed + Inband
      /\ SentNow(s) \in {0, 1}
  BY CountsAre DEF Inband, Keyed, Base, Placed
<1>2. stage[s] \in {"boot", "addr", "keys", "sync"} => SentRounds(s) = 0
  BY <1>0 DEF Within, SentRounds
<1>3. CASE stage[s] = "boot"
  BY <1>2, <1>3 DEF Sent, TcpSent, Done, TcpDone, SentNow, TcpSentNow, Fabric, Up, OverTcp
<1>4. CASE stage[s] = "addr"
  <2>1. oob => SentNow(s) = 0
    BY <1>4 DEF SentNow, Fabric, OverTcp
  <2>2. TcpSentNow(s) \in {0, 1, 2}
    BY <1>0, CountsAre DEF Placed
  <2> QED
    BY <1>1, <1>2, <1>4, <2>1, <2>2 DEF Sent, TcpSent, Done, TcpDone
<1>5. CASE stage[s] = "keys"
  BY <1>1, <1>2, <1>5 DEF Sent, TcpSent, Done, TcpDone, TcpSentNow, OverTcp
<1>6. CASE stage[s] = "sync"
  <2>1. oob => SentNow(s) = 0
    BY <1>6 DEF SentNow, Fabric, OverTcp
  <2>2. TcpSentNow(s) \in {0, 1}
    BY <1>0, <1>6 DEF TcpSentNow, Parts, Label
  <2> QED
    BY <1>1, <1>2, <1>6, <2>1, <2>2 DEF Sent, TcpSent, Done, TcpDone
<1>7. CASE stage[s] = "loop" /\ kind \in RmaKinds
  <2>1. s = "server"
    BY <1>0, <1>7 DEF Shape, Sides
  <2>2. SentNow(s) = 0
    BY <2>1, ServerCounts
  <2>3. mode # "writedata" => SentRounds(s) = 0
    BY <1>0, <1>7, OneKind DEF SentRounds, SendsRound
  <2>4. TcpSent(s) <= 3
    BY <1>7 DEF TcpSent, TcpDone, TcpSentNow, OverTcp
  <2> QED
    BY <1>1, <1>7, <2>2, <2>3, <2>4 DEF Sent, Done
<1> QED
  BY <1>3, <1>4, <1>5, <1>6, <1>7

\* One that is past it has received the other's part.
LEMMA PastIt ==
  ASSUME NEW s \in Sides, Placed(s)
  PROVE  /\ stage[s] \notin {"boot", "addr"} => /\ Received(s) >= Inband
                                                /\ oob => TcpReceived(s) >= 2
         /\ stage[s] \notin {"boot", "addr", "keys"} /\ kind \in RmaKinds =>
               Received(s) >= Inband + 1
         /\ stage[s] \notin {"boot", "addr", "keys", "sync"} => /\ Received(s) >= Base
                                                                /\ oob => TcpReceived(s) >= 3
         /\ stage[s] \in Ended /\ RunsLast(s) => /\ Received(s) >= Base + Inband
                                                 /\ oob => TcpReceived(s) >= 4
<1>1. /\ Inband \in {0, 1} /\ Keyed \in {0, 1}
      /\ (kind \in RmaKinds <=> Keyed = 1) /\ Base = Inband + Keyed + Inband
      /\ ReceivedNow(s) \in {0, 1} /\ TakenRounds(s) \in Nat /\ TcpReceivedNow(s) \in {0, 1, 2}
      /\ Done(s) \in Nat /\ TcpDone(s) \in Nat
  BY CountsAre DEF Inband, Keyed, Base, Placed
<1>2. Received(s) >= Done(s) /\ TcpReceived(s) >= TcpDone(s)
  BY <1>1 DEF Received, TcpReceived
<1>3. Received(s) \in Nat /\ TcpReceived(s) \in Nat
  BY CountsAre DEF Placed
<1>4. stage[s] \in {"boot", "addr", "keys", "sync", "loop", "last", "closed", "exited"}
  BY DEF Placed, Typed, Stages, Exchanges
<1>5. /\ stage[s] \notin {"boot", "addr"} => Done(s) >= Inband /\ (oob => TcpDone(s) >= 2)
      /\ stage[s] \notin {"boot", "addr", "keys"} => Done(s) >= Inband + Keyed
      /\ stage[s] \notin {"boot", "addr", "keys", "sync"} => Done(s) >= Base /\ (oob => TcpDone(s) >= 3)
      /\ stage[s] \in Ended /\ RunsLast(s) => Done(s) >= Base + Inband /\ (oob => TcpDone(s) >= 4)
  BY <1>1, <1>4 DEF Done, TcpDone, Ended
<1> QED
  BY <1>1, <1>2, <1>3, <1>5

\* No side is past an exchange that the other has not begun.
LEMMA MeetingFollows == InConversation => Meeting
<1> SUFFICES ASSUME InConversation, NEW s \in Sides, NEW x \in Exchanges,
                    Runs(s, x), Runs(Peer(s), x), Rank(stage[s]) > Rank(x),
                    ~ (Rank(stage[Peer(s)]) >= Rank(x))
             PROVE  FALSE
  BY DEF Meeting
<1> DEFINE t == Peer(s)
<1>0. /\ t \in Sides /\ Placed(s) /\ Placed(t) /\ Between(s)
      /\ (s = "client" /\ t = "server") \/ (s = "server" /\ t = "client")
  BY TwoSides, ConversationPlaces DEF InConversation, InStep, Peer, Sides
<1>1. /\ Sent(t) \in Nat /\ Received(s) \in Nat /\ TcpSent(t) \in Nat /\ TcpReceived(s) \in Nat
      /\ Inband \in {0, 1} /\ (oob <=> Inband = 0) /\ Keyed \in {0, 1}
      /\ (kind \in RmaKinds <=> Keyed = 1) /\ Base = Inband + Keyed + Inband
  BY <1>0, CountsAre DEF Inband, Keyed, Base, Placed
<1>2. Received(s) <= Sent(t)
  BY ReceivedIsSent
<1>3. ~ Left(s) => TcpReceived(s) <= TcpSent(t)
  <2> DEFINE n == Len(tcp[s])
  <2>1. n \in Nat
    BY LenProperties DEF InConversation, Bounds
  <2>2. ~ Left(s) => TcpReceived(s) + n = TcpSent(t)
    BY <1>0 DEF Between, TcpLaw
  <2> HIDE DEF n, t
  <2> QED
    BY <1>1, <2>1, <2>2
<1>4. Left(s) /\ oob => stage[t] = "exited"
  BY <1>0 DEF Left, InConversation, InStep, RmaEnd, Unanswered
<1> HIDE DEF t
<1>5. Rank(stage[t]) < Rank(x) /\ stage[s] \in Stages /\ stage[t] \in Stages
  <2>1. stage[s] \in Stages /\ stage[t] \in Stages
    BY <1>0 DEF Placed, Typed
  <2> QED
    BY <2>1 DEF Rank, Stages, Exchanges, t
<1>6. ~ (Left(s) /\ oob)
  BY <1>4, <1>5 DEF Rank, Exchanges
<1>7. CASE x = "addr"
  <2>1. stage[t] = "boot" /\ stage[s] \notin {"boot", "addr"}
    BY <1>5, <1>7 DEF Rank, Stages, Exchanges
  <2> QED
    BY <1>0, <1>1, <1>2, <1>3, <1>6, <2>1, NotThere, PastIt
<1>8. CASE x = "keys"
  <2>1. stage[t] \in {"boot", "addr"} /\ stage[s] \notin {"boot", "addr", "keys"} /\ kind \in RmaKinds
    BY <1>5, <1>8 DEF Rank, Stages, Exchanges, Runs
  <2> QED
    BY <1>0, <1>1, <1>2, <2>1, NotThere, PastIt
<1>9. CASE x = "sync"
  <2>1. stage[t] \in {"boot", "addr", "keys"} /\ stage[s] \notin {"boot", "addr", "keys", "sync"}
    BY <1>5, <1>9 DEF Rank, Stages, Exchanges
  <2>2. stage[t] = "keys" => kind \in RmaKinds
    BY <1>0 DEF Placed, Shape
  <2>3. CASE oob
    BY <1>0, <1>1, <1>3, <1>6, <2>1, <2>3, NotThere, PastIt
  <2>4. CASE ~ oob
    BY <1>0, <1>1, <1>2, <2>1, <2>2, <2>4, NotThere, PastIt
  <2> QED
    BY <2>3, <2>4
<1>10. CASE x = "last"
  <2>1. /\ kind = "rma_batch" /\ kind \in RmaKinds /\ ~ Unanswered
        /\ RunsLast(s) /\ ~ Left(s)
    BY <1>0, <1>10 DEF Runs, RunsLast, Left, RmaKinds, t
  <2>2. stage[t] \in {"boot", "addr", "keys", "sync", "loop"} /\ stage[s] \in Ended
    BY <1>5, <1>10 DEF Rank, Stages, Exchanges, Ended
  <2>3. CASE oob
    <3>1. TcpSent(t) <= 3
      BY <1>0, <1>1, <2>1, <2>2, NotThere
    <3>2. TcpReceived(s) >= 4
      BY <1>0, <2>1, <2>2, <2>3, PastIt
    <3> QED
      BY <1>1, <1>3, <2>1, <3>1, <3>2
  <2>4. CASE ~ oob
    <3>1. mode # "writedata"
      BY <2>1, <2>4 DEF Unanswered
    <3>2. Sent(t) <= Base
      BY <1>0, <1>1, <2>1, <2>2, <3>1, NotThere
    <3>3. Received(s) >= Base + 1
      BY <1>0, <1>1, <2>1, <2>2, <2>4, PastIt
    <3> QED
      BY <1>1, <1>2, <3>2, <3>3
  <2> QED
    BY <2>3, <2>4
<1> QED
  BY <1>7, <1>8, <1>9, <1>10 DEF Exchanges

\* So the client's memory outlives the server's loop.
LEMMA MemoryThereFollows == InConversation => MemoryThere
<1> SUFFICES ASSUME InConversation, ~ Unanswered, ~ failed, stage["server"] = "loop",
                    kind \in RmaKinds, stage["client"] \in Ended
             PROVE  FALSE
  BY DEF MemoryThere
<1>1. CASE kind = "rma"
  BY <1>1 DEF InConversation, InStep, RmaEnd
<1>2. CASE kind = "rma_batch"
  <2>1. "client" \in Sides /\ Peer("client") = "server" /\ "last" \in Exchanges
    BY DEF Sides, Peer, Exchanges
  <2>2. Runs("client", "last") /\ Runs("server", "last")
    BY <1>2 DEF Runs
  <2>3. Rank(stage["client"]) = 6 /\ Rank("last") = 5 /\ Rank(stage["server"]) = 4
    BY DEF Rank, Ended
  <2>4. Rank(stage["server"]) >= Rank("last")
    BY MeetingFollows, <2>1, <2>2, <2>3 DEF Meeting
  <2> QED
    BY <2>3, <2>4
<1> QED
  BY <1>1, <1>2 DEF RmaKinds

\* The message that has arrived is the one that is due, over the fabric ...
LEMMA FabricMessageIsRight ==
  ASSUME InConversation, ~ failed, Unasked /\ ~ oob => ~ lost, NEW s \in Sides, Up(s), step[s] = "recv",
         ~ OverTcp(s), arrived[s] # << >>, ~ (Unanswered /\ stage[s] = "last")
  PROVE  arrived[s][1].label = Label(stage[s])
<1> DEFINE t == Peer(s)
           r == Received(s)
<1>0. /\ t \in Sides /\ Peer(t) = s /\ Placed(s) /\ Placed(t) /\ Between(s) /\ At(s) /\ At(t)
      /\ (s = "client" /\ t = "server") \/ (s = "server" /\ t = "client")
      /\ oob \in BOOLEAN /\ Typed /\ Shape(s)
      /\ mode = "writedata" => kind \in RmaKinds
  BY TwoSides, ConversationPlaces
  DEF InConversation, InStep, IInv, Bounds, Peer, Sides, Placed
<1>1. /\ r \in Nat /\ Sent(s) \in Nat /\ Sent(t) \in Nat /\ Received(t) \in Nat /\ Base \in Nat
      /\ rx_cq_cntr[s] = r
  BY <1>0, CountsAre DEF Placed, At
<1>2. Label(stage[s]) = Nth(kind, oob, r + 1)
  BY <1>0, ReceiveLabel
<1>3. Len(arrived[s]) = 1 /\ 1 \in 1..Len(arrived[s]) /\ Fabric(s)
  <2>1. Len(arrived[s]) = 1
    BY OneArrived DEF InConversation
  <2> QED
    BY <2>1 DEF Fabric
<1>4. r + 1 <= Sent(t) /\ Received(t) <= Sent(s)
  BY <1>0, ReceivedIsSent
<1>5. stage[s] \in {"addr", "keys", "sync", "loop", "last"}
  BY <1>0, UpIs DEF Exchanges
<1> HIDE DEF t, r
<1>6. CASE mode = "tagged"
  <2>1. Own(arrived[s][1])
    BY <1>0, <1>3, <1>6 DEF Between, ByTag
  <2>2. arrived[s][1].tag = r
    BY <1>1, <1>6 DEF InConversation, IInv, FirstTag
  <2> QED
    BY <1>1, <1>2, <2>1, <2>2 DEF Own, NoTag
<1>7. CASE mode # "tagged" /\ ~ Streams(t)
  <2>1. arrived[s][1].label = Nth(kind, oob, Sent(t))
    BY <1>0, <1>3, <1>7 DEF Between, Solo, t
  <2>2. Sent(t) <= r + 1
    <3>1. CASE s = "client" /\ t = "server"
      <4>1. Sent(t) <= Received(t)
        BY <1>0, <1>7, <3>1, ServerCounts
      <4>2. Sent(s) <= r + 1
        BY <1>0, <3>1, ClientCounts DEF r
      <4> QED
        BY <1>1, <1>4, <4>1, <4>2
    <3>2. CASE s = "server" /\ t = "client"
      <4>1. Sent(t) <= Received(t) + 1
        BY <1>0, <3>2, ClientCounts
      <4>2. ~ Streams(s)
        <5>1. SUFFICES ASSUME Streams(s)
                       PROVE  FALSE
          OBVIOUS
        <5>2. stage[s] \in {"loop", "last"} /\ (kind \in OneWayKinds \/ mode = "writedata")
          BY <1>5, <5>1 DEF Streams
        <5>3. stage[s] # "loop"
          BY <1>0, <3>2, <5>2 DEF Shape, OneWay
        <5>4. kind \in RmaKinds
          BY <1>0, <5>2, <5>3 DEF Shape, RunsLast, RmaKinds
        <5> QED
          BY <1>0, <5>2, <5>3, <5>4, OneKind DEF OverTcp, Unanswered
      <4>3. Sent(s) <= r
        BY <1>0, <3>2, <4>2, ServerCounts DEF r
      <4> QED
        BY <1>1, <1>4, <4>1, <4>3
    <3> QED
      BY <1>0, <3>1, <3>2
  <2>3. Sent(t) = r + 1
    BY <1>1, <1>4, <2>2
  <2> QED
    BY <1>2, <2>1, <2>3
<1>8. CASE mode # "tagged" /\ Streams(t)
  <2>0. s = "client" /\ t = "server" /\ (kind \in OneWayKinds \/ mode = "writedata")
    BY <1>0, <1>8 DEF Streams
  <2>1. CASE kind \in OneWayKinds
    <3>1. kind \notin RmaKinds /\ mode = "plain"
      BY <1>0, <1>8, <2>1, OneKind DEF Typed
    <3>2. CASE oob
      <4>1. arrived[s][1].label = "data"
        BY <1>0, <1>3, <3>1, <3>2 DEF Between, OnlyData
      <4>2. stage[s] = "loop"
        BY <1>0, <1>5, <3>1, <3>2 DEF OverTcp, Shape
      <4> QED
        BY <4>1, <4>2 DEF Label
    <3>3. CASE ~ oob
      <4>1. ~ lost
        BY <2>1, <3>1, <3>3 DEF Unasked
      <4> QED
        BY <1>0, <1>1, <1>2, <1>3, <1>8, <3>1, <4>1 DEF Between, Ordered
    <3> QED
      BY <3>2, <3>3
  <2>2. CASE mode = "writedata"
    <3>1. kind \in RmaKinds /\ stage[s] # "loop"
      BY <1>0, <2>0, <2>2 DEF Shape
    <3>2. CASE oob
      <4>1. stage[s] = "keys"
        BY <1>5, <3>1, <3>2 DEF OverTcp
      <4>2. Rank(stage[t]) > Rank("sync") /\ ~ (Rank(stage[s]) >= Rank("sync"))
        <5>1. stage[t] \in Stages \ {"boot", "addr", "keys", "sync"}
          BY <1>0, <1>8 DEF Streams, Placed, Typed
        <5> QED
          BY <4>1, <5>1 DEF Rank, Stages, Exchanges
      <4>3. Runs(t, "sync") /\ Runs(Peer(t), "sync") /\ "sync" \in Exchanges
        BY DEF Runs, Exchanges
      <4> QED
        BY <1>0, <4>2, <4>3, MeetingFollows DEF Meeting
    <3>3. CASE ~ oob
      <4>1. ~ lost
        BY <2>2, <3>3 DEF Unasked
      <4>2. stage[s] \in {"addr", "keys", "sync"}
        BY <1>5, <2>2, <3>1, <3>3 DEF Unanswered
      <4>3. r + 1 <= Base
        <5>1. ReceivedNow(s) = 0 /\ TakenRounds(s) = 0
          BY <1>0, <4>2 DEF ReceivedNow, TakenRounds, Placed, Within
        <5>2. Inband = 1 /\ Keyed = 1 /\ Base = 3
          BY <3>1, <3>3 DEF Inband, Keyed, Base
        <5>3. Done(s) \in {0, 1, 2}
          BY <4>2, <5>2 DEF Done
        <5> QED
          BY <5>1, <5>2, <5>3 DEF Received, r
      <4> QED
        BY <1>0, <1>1, <1>2, <1>3, <1>8, <4>1, <4>3 DEF Between, Ordered
    <3> QED
      BY <3>2, <3>3
  <2> QED
    BY <2>0, <2>1, <2>2
<1> QED
  BY <1>6, <1>7, <1>8

\* ... and over the connection.
LEMMA TcpMessageIsRight ==
  ASSUME InConversation, NEW s \in Sides, step[s] = "recv", OverTcp(s), tcp[s] # << >>
  PROVE  Head(tcp[s]) = Label(stage[s])
<1>0. Placed(s) /\ Between(s) /\ tcp[s] \in Seq(Labels)
  BY ConversationPlaces DEF InConversation, InStep, Bounds
<1>1. Label(stage[s]) = TcpNth(TcpReceived(s) + 1)
  BY <1>0, TcpLabel
<1>2. ~ Left(s)
  BY DEF Left, OverTcp, Ended
<1>3. Len(tcp[s]) \in Nat \ {0} /\ Head(tcp[s]) = tcp[s][1]
  BY <1>0, LenProperties, EmptySeq, HeadTailProperties
<1>4. 1 \in 1..Len(tcp[s])
  BY <1>3
<1>5. tcp[s][1] = TcpNth(TcpReceived(s) + 1)
  BY <1>0, <1>2, <1>4 DEF Between, TcpLaw
<1> QED
  BY <1>1, <1>3, <1>5

LEMMA RightMessageFollows == InConversation => RightMessage
<1> SUFFICES ASSUME InConversation, ~ failed, Unasked /\ ~ oob => ~ lost,
                    NEW s \in Sides, Up(s), step[s] = "recv", ~ (Unanswered /\ stage[s] = "last")
             PROVE  /\ ~ OverTcp(s) /\ arrived[s] # << >> => Head(arrived[s]).label = Label(stage[s])
                    /\ OverTcp(s) /\ tcp[s] # << >> => Head(tcp[s]) = Label(stage[s])
  BY DEF RightMessage
<1>1. ASSUME ~ OverTcp(s), arrived[s] # << >>
      PROVE  Head(arrived[s]).label = Label(stage[s])
  <2>1. Head(arrived[s]) = arrived[s][1]
    BY <1>1, HeadTailProperties DEF InConversation, IInv, Typed
  <2> QED
    BY <1>1, <2>1, FabricMessageIsRight
<1>2. ASSUME OverTcp(s), tcp[s] # << >>
      PROVE  Head(tcp[s]) = Label(stage[s])
  BY <1>2, TcpMessageIsRight
<1> QED
  BY <1>1, <1>2

\* The peer has never sent more than a side has posted receives for.
LEMMA ReceivePostedFollows == InConversation => ReceivePosted
<1> SUFFICES ASSUME InConversation, kind \notin OneWayKinds, mode # "writedata",
                    NEW s \in Sides, Up(s)
             PROVE  Len(net[s]) <= Posted(s)
  BY DEF ReceivePosted
<1>1. Peer(s) \in Sides /\ ~ Streams(s) /\ ~ Streams(Peer(s))
  BY TwoSides DEF Streams
<1>2. Sent(Peer(s)) <= rx_seq[s] /\ Sent(Peer(s)) \in Nat /\ Received(s) \in Nat
  BY <1>1, PairCounts, CountsAre, ConversationPlaces DEF Placed
<1> DEFINE a == Len(arrived[s])
           n == Len(net[s])
           x == Sent(Peer(s))
<1>3. /\ rx_seq[s] \in Nat /\ rx_cq_cntr[s] \in Nat /\ a \in Nat /\ n \in Nat
  BY LenProperties DEF InConversation, IInv, Typed
<1>4. rx_cq_cntr[s] + a + n <= x
  BY DEF InConversation, InStep, Between, NoneMade
<1>5. (Len(net[s]) <= Posted(s)) <=> n <= rx_seq[s] - rx_cq_cntr[s] - a
  BY DEF Posted
<1>6. x <= rx_seq[s] /\ x \in Nat
  BY <1>2
<1> HIDE DEF a, n, x
<1> QED
  BY <1>3, <1>4, <1>5, <1>6

\* What the counts of the two sides say of their rounds.
LEMMA LockStepFollows == InConversation => LockStep
<1> DEFINE c == "client"
           v == "server"
<1> SUFFICES ASSUME InConversation, kind \in LockStepKinds
             PROVE  rounds[c] <= rounds[v] /\ rounds[v] <= rounds[c] + 1
  BY DEF LockStep
<1>0. /\ c \in Sides /\ v \in Sides /\ Peer(c) = v /\ Peer(v) = c /\ Placed(c) /\ Placed(v)
  BY ConversationPlaces DEF Sides, Peer
<1>1. rounds[c] \in Nat /\ rounds[v] \in Nat /\ Base \in Nat
  BY <1>0, CountsAre DEF Placed, Typed
<1>2. Received(c) <= Sent(v) /\ Received(v) <= Sent(c)
  BY <1>0, ReceivedIsSent
<1>3. ASSUME NEW s \in Sides, Placed(s)
      PROVE  /\ Done(s) \in Nat /\ Done(s) <= Base
             /\ rounds[s] # 0 => Done(s) = Base
             /\ Sent(s) = Done(s) + rounds[s] + SentNow(s) /\ SentNow(s) \in {0, 1}
             /\ Received(s) = Done(s) + rounds[s] + ReceivedNow(s) /\ ReceivedNow(s) \in {0, 1}
  <2>1. ~ RunsLast(s) /\ SendsRound(s) /\ TakesRound(s)
    BY <1>3, OneKind DEF RunsLast, SendsRound, TakesRound, Placed, RmaKinds
  <2>2. Inband \in {0, 1} /\ Keyed \in {0, 1} /\ Base = Inband + Keyed + Inband /\ Done(s) \in Nat
        /\ SentNow(s) \in {0, 1} /\ ReceivedNow(s) \in {0, 1}
    BY <1>3, CountsAre DEF Base, Placed
  <2>3. Done(s) <= Base
    BY <2>1, <2>2 DEF Done
  <2>4. rounds[s] # 0 => stage[s] \notin {"boot", "addr", "keys", "sync"}
    BY <1>3 DEF Placed, Within
  <2>5. rounds[s] # 0 => Done(s) = Base
    BY <2>1, <2>4 DEF Done
  <2> QED
    BY <2>1, <2>2, <2>3, <2>5 DEF Sent, Received, SentRounds, TakenRounds
<1>4. SentNow(v) = 0
  BY <1>0, ServerCounts
<1> HIDE DEF c, v
<1>5. rounds[c] <= rounds[v]
  BY <1>0, <1>1, <1>2, <1>3, <1>4
<1>6. rounds[v] <= rounds[c] + 1
  BY <1>0, <1>1, <1>2, <1>3
<1> QED
  BY <1>5, <1>6

-----------------------------------------------------------------------------
(***************************************************************************)
(* An exchange is a meeting, for every benchmark, over the fabric and      *)
(* out-of-band, whatever is lost: no side is past the addresses, the keys, *)
(* a sync, before the other has begun it (ft_exchange_keys, ft_sync and    *)
(* ft_init_av, shared.c).                                                  *)
(***************************************************************************)
THEOREM MeetingHolds == Spec => []Meeting
<1>1. IInv /\ Bounds /\ Conversation => Meeting
  BY MeetingFollows DEF Conversation, InConversation, Meeting
<1> QED
  BY <1>1, Conversing, PTL

(***************************************************************************)
(* The client's memory is registered for as long as the RMA server writes  *)
(* to it (RmaServer.cpp:123, RmaClient.cpp:22), for every number of        *)
(* operations, unless they are writedata and the sync is in-band.          *)
(***************************************************************************)
THEOREM MemoryThereHolds == Spec => []MemoryThere
<1>1. IInv /\ Bounds /\ Conversation => MemoryThere
  BY MemoryThereFollows DEF Conversation, InConversation, MemoryThere
<1> QED
  BY <1>1, Conversing, PTL

(***************************************************************************)
(* Each call that receives gets the message it is for (shared.c:1628,      *)
(* :2860, :3781), although the messages carry no type: for every benchmark *)
(* and every number of iterations, as long as no failure was ignored.      *)
(***************************************************************************)
THEOREM RightMessageHolds == Spec => []RightMessage
<1>1. IInv /\ Bounds /\ Conversation => RightMessage
  BY RightMessageFollows DEF Conversation, InConversation, RightMessage
<1> QED
  BY <1>1, Conversing, PTL

(***************************************************************************)
(* Ping-pong and latency (Server::pingPong, Server::latency and the        *)
(* client's) proceed in lock-step for every number of iterations, in-band  *)
(* or out-of-band, tagged or not, and whatever messages are lost: the      *)
(* server's rounds are the client's, or one more.                          *)
(***************************************************************************)
THEOREM LockStepHolds == Spec => []LockStep
<1>1. IInv /\ Bounds /\ Conversation => LockStep
  BY LockStepFollows DEF Conversation, InConversation, LockStep
<1> QED
  BY <1>1, Conversing, PTL

(***************************************************************************)
(* "The recvs posted are always for the next incoming message"             *)
(* (shared.c:2410), in every benchmark but the one-way ones: a message on  *)
(* its way to a side that is up finds a receive posted, however many       *)
(* iterations there are and whatever messages are lost.                    *)
(***************************************************************************)
THEOREM ReceivePostedHolds == Spec => []ReceivePosted
<1>1. IInv /\ Bounds /\ Conversation => ReceivePosted
  BY ReceivePostedFollows DEF Conversation, InConversation, ReceivePosted
<1> QED
  BY <1>1, Conversing, PTL
-----------------------------------------------------------------------------
(***************************************************************************)
(* Nobody waits in vain: the part of it that is safety.                    *)
(***************************************************************************)
\* In ft_get_rx_comp or ft_sock_recv, and nothing is coming.
Waits(s) ==
    /\ Up(s)
    /\ step[s] = "recv"
    /\ IF OverTcp(s) THEN tcp[s] = << >> /\ stage[Peer(s)] # "exited"
       ELSE arrived[s] = << >> /\ Matching(s) = {}

\* The two sides never wait for each other.
NeverBothWait == ~ failed /\ ~ lost => \E s \in Sides : ~ Waits(s)

\* Where they agree on the last message, nobody waits for one that has left.
NobodyAbandoned == Agreed /\ ~ failed /\ ~ lost =>
    \A s \in Sides : Waits(s) => stage[Peer(s)] # "exited"

\* How many rounds a loop had that is over.
Rounded(s) ==
    /\ step[s] = "clock" => rounds[s] # 0
    /\ kind \in CountedKinds /\ stage[s] \in Ended => rounds[s] = Rounds
    /\ kind \in RmaKinds /\ s = "server" /\ stage[s] \in {"last"} \cup Ended => rounds[s] # 0

\* Only data go without a tag.
Untagged(s) == mode = "tagged" =>
    \A i \in 1..Len(net[s]) :
        rx_cq_cntr[s] + Len(arrived[s]) + i <= Base => net[s][i].tag # NoTag

Countable == ~ failed /\ ~ lost => \A s \in Sides : Rounded(s) /\ Untagged(s)

\* The clock is only read after a round, and ends the loop that counts when
\* all its rounds are done.
LEMMA RoundedStep ==
  ASSUME InConversation, NEW s \in Sides, Rounded(s), Work(s)
  PROVE  Rounded(s)'
<1>0. /\ Placed(s) /\ Typed /\ Within(s) /\ Shape(s) /\ At(s) /\ UNCHANGED fixed
      /\ rounds[s] \in Nat /\ Rounds \in Nat \ {0}
  <2>1. Placed(s) /\ Typed /\ At(s) /\ rounds[s] \in Nat
    BY ConversationPlaces DEF InConversation, InStep, Placed, Typed
  <2>2. Peer(s) \in Sides /\ Peer(s) # s
    BY TwoSides
  <2> QED
    BY <2>1, <2>2, OtherStays, SessionAssumption DEF Placed, SessionAssumption
<1>1. ASSUME rounds'[s] = rounds[s], step'[s] # "clock",
             \/ stage'[s] \notin {"last"} \cup Ended
             \/ stage[s] \in {"last"} \cup Ended /\ kind \notin CountedKinds
             \/ stage[s] \in Ended
             \/ s = "client" /\ kind \in RmaKinds
             \/ stage[s] = "loop" /\ step[s] = "clock" /\ (kind \in CountedKinds => rounds[s] = Rounds)
      PROVE  Rounded(s)'
  <2>1. kind' = kind /\ (kind \in RmaKinds => kind \notin CountedKinds)
    BY <1>0, OneKind DEF fixed, CountedKinds, RmaKinds
  <2> QED
    BY <1>0, <1>1, <2>1 DEF Rounded
<1>2. ASSUME NEW p \in {"send", "recv", "post", "rma"}, Continue(s, p), Up(s)
      PROVE  Rounded(s)'
  <2>1. rounds'[s] = rounds[s] /\ step'[s] # "clock" /\ stage'[s] = stage[s]
    BY <1>0, <1>2 DEF Continue, Typed
  <2>2. stage[s] = "last" => kind \notin CountedKinds
    BY <1>0, OneKind DEF Shape, RunsLast, CountedKinds
  <2> QED
    BY <1>1, <1>2, <2>1, <2>2 DEF Up
<1>3. ASSUME NEW st, GoTo(s, st)
      PROVE  rounds'[s] = rounds[s] /\ step'[s] # "clock" /\ stage'[s] = st
  BY <1>0, <1>3, FirstStepIs DEF GoTo, Typed
<1>4. ASSUME Finish(s), Up(s)
      PROVE  Rounded(s)'
  <2>1. CASE stage[s] = "loop"
    <3>1. stage'[s] = "loop" /\ rounds'[s] = rounds[s] + 1
      BY <1>0, <1>4, <2>1 DEF Finish, Typed
    <3> QED
      BY <1>0, <3>1 DEF Rounded, Ended
  <2>2. CASE stage[s] # "loop"
    <3>1. GoTo(s, NextStage(s)) /\ stage[s] \in Exchanges
      BY <1>0, <1>4, <2>2, UpIs DEF Finish
    <3>2. stage[s] = "last" => kind \notin CountedKinds
      BY <1>0, OneKind DEF Shape, RunsLast, CountedKinds
    <3>3. stage[s] # "last" =>
             NextStage(s) \notin {"last"} \cup Ended \/ (s = "client" /\ kind \in RmaKinds)
      BY <3>1 DEF NextStage, Exchanges, Ended
    <3> QED
      BY <1>1, <1>3, <3>1, <3>2, <3>3
  <2> QED
    BY <2>1, <2>2
<1>5. CASE Enable(s)
  BY <1>1, <1>3, <1>5 DEF Enable, Ended
<1>6. CASE Send(s)
  BY <1>2, <1>4, <1>6 DEF Send, AfterSend
<1>7. CASE Receive(s)
  <2>1. arrived[s] # << >> => ft_tag_is_valid(Head(arrived[s]), rx_cq_cntr[s])
    BY TagValid DEF InConversation
  <2> QED
    BY <1>2, <1>7, <2>1 DEF Receive
<1>8. CASE PostRx(s)
  <2>1. Up(s)
    BY <1>0, <1>8 DEF PostRx, Within
  <2> QED
    BY <1>2, <1>4, <1>8, <2>1 DEF PostRx, AfterReceive
<1>9. CASE SockSend(s) \/ SockReceive(s)
  <2>1. Up(s) /\ step[s] \in {"send", "recv"}
    BY <1>9 DEF SockSend, SockReceive, OverTcp, Up, Ended
  <2>2. CASE UNCHANGED control
    <3>1. Continue(s, step[s])
      BY <1>0, <2>2 DEF control, Continue, Typed
    <3> QED
      BY <1>2, <2>1, <3>1
  <2> QED
    BY <1>2, <1>4, <1>9, <2>1, <2>2 DEF SockSend, SockReceive, NextPart, AfterSend, AfterReceive
<1>10. CASE PeerGone(s)
  <2>1. stage[s] = "last" /\ s = "client" /\ kind = "rma"
    BY <1>10, GoneIs
  <2> QED
    BY <1>1, <1>3, <1>10, <2>1 DEF PeerGone, Leave, RmaKinds
<1>11. CASE Rma(s)
  <2>1. Up(s)
    BY <1>11 DEF Rma, Up, Ended
  <2> QED
    BY <1>4, <1>11, <2>1 DEF Rma
<1>12. CASE GoOn(s)
  <2>1. Up(s)
    BY <1>0, <1>12 DEF GoOn, Within, Up, Ended
  <2> QED
    BY <1>2, <1>12, <2>1, FirstStepIs DEF GoOn
<1>13. CASE TimeUp(s)
  <2>1. stage[s] = "loop"
    BY <1>0, <1>13 DEF TimeUp, Within
  <2> QED
    BY <1>1, <1>3, <1>13, <2>1 DEF TimeUp
<1>14. CASE ProcessEnds(s)
  BY <1>1, <1>3, <1>14 DEF ProcessEnds, Ended
<1>15. ~ ReceiveTimesOut(s)
  BY <1>0 DEF At, ReceiveTimesOut
<1> QED
  BY <1>5, <1>6, <1>7, <1>8, <1>9, <1>10, <1>11, <1>12, <1>13, <1>14, <1>15 DEF Work

\* The count of what a side has had, and what comes next, stay.
LEMMA UntaggedStays ==
  ASSUME NEW s \in Sides, Untagged(s), UNCHANGED fixed, net'[s] = net[s],
         rx_cq_cntr'[s] + Len(arrived'[s]) = rx_cq_cntr[s] + Len(arrived[s])
  PROVE  Untagged(s)'
<1>1. UNCHANGED <<Base, mode>>
  BY DEF Base, Inband, Keyed, fixed
<1> QED
  BY <1>1 DEF Untagged

\* A message without a tag comes after Base others.
LEMMA UntaggedSend ==
  ASSUME InConversation, ~ failed, ~ lost, NEW s \in Sides, Send(s), Untagged(Peer(s))
  PROVE  Untagged(Peer(s))'
<1> DEFINE t == Peer(s)
           m == [label |-> Label(stage[s]), tag |-> Tag(s)]
           n == Len(net[t])
           a == Len(arrived[t])
<1>0. /\ t \in Sides /\ Peer(t) = s /\ Placed(s) /\ Typed /\ At(s) /\ IInv
  BY TwoSides, ConversationPlaces DEF InConversation, InStep, IInv
<1>1. /\ UNCHANGED <<rx_cq_cntr, arrived>> /\ UNCHANGED fixed /\ UNCHANGED <<Base, mode>>
      /\ net' = [net EXCEPT ![t] = Append(@, m)]
  BY DEF Send, Post, receives, Quiet, fixed, Base, Inband, Keyed
<1>2. n \in Nat /\ a \in Nat /\ rx_cq_cntr[t] \in Nat /\ tx_seq[s] \in Nat /\ Base \in Nat
  BY <1>0, LenProperties, CountsAre DEF Typed, Placed
<1>3. /\ Len(net'[t]) = n + 1 /\ net'[t][n + 1] = m
      /\ \A i \in 1..n : net'[t][i] = net[t][i]
  <2>1. net[t] \in Seq(AnyMessage) /\ net'[t] = Append(net[t], m)
    BY <1>0, <1>1 DEF Typed
  <2>2. m \in AnyMessage
    <3>1. Label(stage[s]) \in Labels
      BY <1>0, LabelIs DEF Send
    <3>2. Tag(s) \in Int
      BY <1>2 DEF Tag, NoTag
    <3> QED
      BY <3>1, <3>2 DEF AnyMessage
  <2> HIDE DEF m, t
  <2> QED
    BY <2>1, <2>2, AppendProperties DEF n
<1>4. ASSUME mode = "tagged", rx_cq_cntr[t] + a + (n + 1) <= Base
      PROVE  Tag(s) # NoTag
  <2>1. tx_seq[s] = rx_cq_cntr[t] + a + n
    BY <1>0, <1>4 DEF IInv, Numbered
  <2>2. Sent(s) = tx_seq[s]
    BY <1>0, <1>4 DEF At
  <2>3. stage[s] = "loop" => Sent(s) >= Base
    <3>1. /\ Done(s) \in Nat /\ SentRounds(s) \in Nat /\ SentNow(s) \in Nat
      BY <1>0, CountsAre DEF Placed
    <3>2. stage[s] = "loop" => Done(s) = Base
      BY DEF Done
    <3> QED
      BY <1>2, <3>1, <3>2 DEF Sent
  <2> HIDE DEF n, a, t
  <2>4. stage[s] # "loop"
    BY <1>2, <1>4, <2>1, <2>2, <2>3
  <2> QED
    BY <1>2, <1>4, <2>4 DEF Tag, NoTag
<1>5. ASSUME mode = "tagged", NEW i \in 1..(n + 1), rx_cq_cntr[t] + a + i <= Base
      PROVE  net'[t][i].tag # NoTag
  <2>1. CASE i = n + 1
    BY <1>3, <1>4, <1>5, <2>1
  <2>2. CASE i # n + 1
    <3>1. i \in 1..n
      BY <1>2, <2>2
    <3> QED
      BY <1>3, <1>5, <3>1 DEF Untagged
  <2> QED
    BY <2>1, <2>2
<1> QED
  BY <1>1, <1>3, <1>5 DEF Untagged

LEMMA UntaggedWork ==
  ASSUME InConversation, ~ failed, ~ lost, NEW s \in Sides, Work(s),
         \A u \in Sides : Untagged(u)
  PROVE  \A u \in Sides : Untagged(u)'
<1> DEFINE t == Peer(s)
<1>0. /\ t \in Sides /\ t # s /\ Typed /\ IInv /\ At(s)
      /\ \A u \in Sides : u = s \/ u = t
  BY TwoSides DEF InConversation, InStep, IInv
<1>1. UNCHANGED fixed
  BY <1>0, OtherStays
<1>2. CASE Send(s)
  <2>1. net'[s] = net[s] /\ UNCHANGED <<rx_cq_cntr, arrived>>
    BY <1>0, <1>2 DEF Send, Post, receives, Typed
  <2> QED
    BY <1>0, <1>1, <1>2, <2>1, UntaggedSend, UntaggedStays
<1>3. CASE Receive(s)
  <2>1. UNCHANGED net /\ rx_cq_cntr'[t] = rx_cq_cntr[t] /\ arrived'[t] = arrived[t]
    BY <1>0, <1>3 DEF Receive, channels, Typed
  <2>2. CASE arrived[s] # << >>
    <3>1. ft_tag_is_valid(Head(arrived[s]), rx_cq_cntr[s]) /\ Len(arrived[s]) = 1 /\ Tail(arrived[s]) = << >>
      BY <1>0, <2>2, TagValid, OneArrived
    <3>2. rx_cq_cntr'[s] = rx_cq_cntr[s] + 1 /\ arrived'[s] = << >> /\ rx_cq_cntr[s] \in Nat
      BY <1>0, <1>3, <2>2, <3>1 DEF Receive, Typed
    <3>3. rx_cq_cntr'[s] + Len(arrived'[s]) = rx_cq_cntr[s] + Len(arrived[s])
      BY <3>1, <3>2
    <3> QED
      BY <1>0, <1>1, <2>1, <3>3, UntaggedStays
  <2>3. CASE arrived[s] = << >>
    <3>1. UNCHANGED <<arrived, rx_cq_cntr>>
      BY <1>3, <2>3 DEF Receive
    <3> QED
      BY <1>0, <1>1, <2>1, <3>1, UntaggedStays
  <2> QED
    BY <2>2, <2>3
<1>4. CASE Rma(s)
  <2>1. UNCHANGED <<rx_cq_cntr, arrived>> /\ UNCHANGED mode
    BY <1>4 DEF Rma, receives, Quiet, fixed
  <2>2. mode = "tagged" => UNCHANGED net
    BY <1>4 DEF Rma
  <2>3. mode = "tagged" => \A u \in Sides : Untagged(u)'
    BY <1>1, <2>1, <2>2, UntaggedStays
  <2> QED
    BY <2>1, <2>3 DEF Untagged
<1>5. CASE ~ Send(s) /\ ~ Receive(s) /\ ~ Rma(s)
  <2>1. UNCHANGED <<rx_cq_cntr, arrived, net>>
    BY <1>5 DEF Work, Enable, ReceiveTimesOut, PostRx, SockSend, SockReceive, PeerGone, GoOn,
       TimeUp, ProcessEnds, receives, channels
  <2> QED
    BY <1>1, <2>1, UntaggedStays
<1> QED
  BY <1>2, <1>3, <1>4, <1>5

LEMMA UntaggedDeliver ==
  ASSUME InConversation, NEW s \in Sides, Deliver(s), \A u \in Sides : Untagged(u)
  PROVE  \A u \in Sides : Untagged(u)'
<1> DEFINE t == Peer(s)
           n == Len(net[s])
           a == Len(arrived[s])
<1>0. /\ t \in Sides /\ t # s /\ Typed /\ \A u \in Sides : u = s \/ u = t
  BY TwoSides DEF InConversation, IInv
<1>1. PICK i \in DOMAIN net[s] :
        /\ arrived' = [arrived EXCEPT ![s] = Append(@, net[s][i])]
        /\ net' = [net EXCEPT ![s] = RemoveAt(@, i)]
  BY DEF Deliver, Matching
<1>2. UNCHANGED fixed /\ UNCHANGED <<rx_cq_cntr, Base, mode>>
  BY DEF Deliver, Quiet, fixed, Base, Inband, Keyed
<1>3. /\ net[s] \in Seq(AnyMessage) /\ n \in Nat /\ i \in 1..n /\ net[s][i] \in AnyMessage
      /\ arrived[s] \in Seq(AnyMessage) /\ a \in Nat /\ rx_cq_cntr[s] \in Nat /\ Base \in Nat
  BY <1>0, <1>1, LenProperties, ElementOfSeq DEF Typed, Base, Inband, Keyed
<1>4. /\ net'[s] = RemoveAt(net[s], i) /\ net'[t] = net[t]
      /\ arrived'[s] = Append(arrived[s], net[s][i]) /\ arrived'[t] = arrived[t]
  BY <1>0, <1>1 DEF Typed
<1>5. /\ Len(net'[s]) = n - 1 /\ Len(arrived'[s]) = a + 1
      /\ \A j \in 1..(n - 1) : net'[s][j] = IF j < i THEN net[s][j] ELSE net[s][j + 1]
  <2>1. Len(arrived'[s]) = a + 1
    BY <1>3, <1>4, AppendProperties
  <2> QED
    BY <1>3, <1>4, <2>1, MessageRemoved
<1>6. Untagged(t)'
  BY <1>0, <1>2, <1>4, UntaggedStays
<1>7. ASSUME mode = "tagged", NEW j \in 1..(n - 1), rx_cq_cntr[s] + (a + 1) + j <= Base
      PROVE  net'[s][j].tag # NoTag
  <2>1. \A k \in 1..n : rx_cq_cntr[s] + a + k <= Base => net[s][k].tag # NoTag
    BY <1>7 DEF Untagged
  <2> HIDE DEF n, a
  <2>2. /\ j \in 1..n /\ j + 1 \in 1..n
        /\ rx_cq_cntr[s] + a + j <= Base /\ rx_cq_cntr[s] + a + (j + 1) <= Base
    BY <1>3, <1>7
  <2> QED
    BY <1>5, <2>1, <2>2
<1>8. Untagged(s)'
  BY <1>2, <1>5, <1>7 DEF Untagged
<1> QED
  BY <1>0, <1>6, <1>8

\* So both can be counted on as long as nothing fails or is lost.
LEMMA Counting == Spec => []Countable
<1>1. Init => Countable
  <2>1. ASSUME Init, NEW s \in Sides
        PROVE  Rounded(s) /\ Untagged(s)
    <3>1. step[s] = "send" /\ stage[s] = "boot" /\ Len(net[s]) = 0
      <4>1. net[s] = << >>
        BY <2>1 DEF Init
      <4> QED
        BY <2>1, <4>1, EmptySeq DEF Init
    <3> QED
      BY <3>1 DEF Rounded, Untagged, Ended
  <2> QED
    BY <2>1 DEF Countable
<1>2. (IInv /\ Bounds /\ Conversation) /\ Countable /\ [Next]_vars => Countable'
  <2> SUFFICES ASSUME IInv, Bounds, Conversation, Countable, [Next]_vars, ~ failed', ~ lost'
               PROVE  \A u \in Sides : Rounded(u)' /\ Untagged(u)'
    BY DEF Countable
  <2>1. /\ \A s \in Sides : ~ Fault(s) /\ ~ Lose(s)
        /\ faults' = faults /\ losses' = losses
    <3>1. faults \in Nat /\ losses \in Nat
      BY DEF IInv, Typed
    <3>2. \A s \in Sides : ~ Fault(s)
      BY <3>1 DEF Fault, SendFails, ReceiveFails, PostRxFails, SockFails, RmaFails, Abandon, failed
    <3>3. \A s \in Sides : ~ Lose(s)
      BY <3>1 DEF Lose, lost
    <3> QED
      BY <3>2, <3>3 DEF Next, Work, Enable, Send, Receive, ReceiveTimesOut, PostRx, SockSend,
         SockReceive, PeerGone, Rma, GoOn, TimeUp, ProcessEnds, Deliver, Terminated, vars, Quiet
  <2>2. /\ InConversation /\ ~ failed /\ ~ lost /\ Typed
        /\ \A u \in Sides : Rounded(u) /\ Untagged(u)
    BY <2>1 DEF Conversation, InConversation, Countable, failed, lost, IInv
  <2>3. ASSUME NEW s \in Sides, Work(s)
        PROVE  \A u \in Sides : Rounded(u)' /\ Untagged(u)'
    <3>1. \A u \in Sides : Untagged(u)'
      BY <2>2, <2>3, UntaggedWork
    <3>2. Rounded(s)'
      BY <2>2, <2>3, RoundedStep
    <3>3. ASSUME NEW t \in Sides, t # s
          PROVE  Rounded(t)'
      BY <2>2, <2>3, <3>3, OtherStays DEF Rounded, fixed
    <3> QED
      BY <3>1, <3>2, <3>3
  <2>4. UNCHANGED <<control, fixed>> => \A u \in Sides : Rounded(u)'
    BY <2>2 DEF Rounded, control, fixed
  <2>5. ASSUME NEW s \in Sides, Deliver(s)
        PROVE  \A u \in Sides : Rounded(u)' /\ Untagged(u)'
    BY <2>2, <2>4, <2>5, UntaggedDeliver DEF Deliver, Quiet
  <2>6. CASE UNCHANGED vars
    BY <2>2, <2>4, <2>6, UntaggedStays DEF vars, control, fixed
  <2> QED
    BY <2>1, <2>3, <2>5, <2>6 DEF Next, Terminated
<1> QED
  BY <1>1, <1>2, Conversing, PTL DEF Spec

-----------------------------------------------------------------------------
\* The places of a session, and what a side past one has sent at least.
LEMMA SentAtLeast ==
  ASSUME NEW s \in Sides, Placed(s)
  PROVE  /\ stage[s] \notin {"boot", "addr"} => Sent(s) >= Inband /\ (oob => TcpSent(s) >= 2)
         /\ stage[s] \notin {"boot", "addr", "keys"} => Sent(s) >= Inband + Keyed
         /\ stage[s] \notin {"boot", "addr", "keys", "sync"} =>
               Sent(s) >= Base /\ (oob => TcpSent(s) >= 3)
<1>1. /\ Inband \in {0, 1} /\ Keyed \in {0, 1} /\ Base = Inband + Keyed + Inband
      /\ SentNow(s) \in {0, 1} /\ SentRounds(s) \in Nat /\ TcpSentNow(s) \in {0, 1, 2}
      /\ Done(s) \in Nat /\ TcpDone(s) \in Nat /\ Sent(s) \in Nat /\ TcpSent(s) \in Nat
  BY CountsAre DEF Base, Placed
<1>2. Sent(s) >= Done(s) /\ TcpSent(s) >= TcpDone(s)
  BY <1>1 DEF Sent, TcpSent
<1>3. stage[s] \in {"boot", "addr", "keys", "sync", "loop", "last", "closed", "exited"}
  BY DEF Placed, Typed, Stages, Exchanges
<1>4. /\ stage[s] \notin {"boot", "addr"} => Done(s) >= Inband /\ (oob => TcpDone(s) >= 2)
      /\ stage[s] \notin {"boot", "addr", "keys"} => Done(s) >= Inband + Keyed
      /\ stage[s] \notin {"boot", "addr", "keys", "sync"} => Done(s) >= Base /\ (oob => TcpDone(s) >= 3)
  BY <1>1, <1>3 DEF Done, TcpDone
<1> QED
  BY <1>1, <1>2, <1>4

\* What a side that receives has received so far.
LEMMA ReceivedSoFar ==
  ASSUME NEW s \in Sides, Placed(s), Up(s), step[s] = "recv", oob \in BOOLEAN, Parted(s)
  PROVE  /\ stage[s] \in {"addr", "keys", "sync", "loop", "last"}
         /\ ~ OverTcp(s) =>
               /\ Inband = 1 \/ stage[s] \in {"keys", "loop"}
               /\ stage[s] = "addr" => Received(s) = 0
               /\ stage[s] = "keys" => Received(s) = Inband /\ Keyed = 1
               /\ stage[s] = "sync" => Received(s) = Inband + Keyed
               /\ stage[s] = "loop" => Received(s) = Base + TakenRounds(s)
               /\ stage[s] = "last" => Received(s) = Base
         /\ OverTcp(s) =>
               /\ oob /\ stage[s] \in {"addr", "sync", "last"}
               /\ stage[s] = "addr" => TcpReceived(s) <= 1
               /\ stage[s] = "sync" => TcpReceived(s) = 2
               /\ stage[s] = "last" => TcpReceived(s) = 3
<1>0. Typed /\ Within(s) /\ Shape(s) /\ part[s] \in {0, 1}
  <2>1. part[s] \in 0..1
    BY DEF Placed
  <2> QED
    BY <2>1 DEF Placed
<1>1. /\ Inband \in {0, 1} /\ (oob <=> Inband = 0) /\ Keyed \in {0, 1}
      /\ (kind \in RmaKinds <=> Keyed = 1) /\ Base \in Nat /\ TakenRounds(s) \in Nat
  BY CountsAre DEF Inband, Keyed, Placed
<1>2. stage[s] \in {"addr", "keys", "sync", "loop", "last"}
  BY <1>0, UpIs DEF Exchanges
<1>3. stage[s] # "loop" => TakenRounds(s) = 0
  <2>1. stage[s] \in {"addr", "keys", "sync"} => rounds[s] = 0
    BY <1>0 DEF Within
  <2>2. stage[s] = "last" => ~ TakesRound(s)
    BY <1>0, OneKind DEF Shape, RunsLast, TakesRound
  <2> QED
    BY <1>2, <2>1, <2>2 DEF TakenRounds
<1>4. ReceivedNow(s) = 0
  BY DEF ReceivedNow
<1>5. stage[s] # "addr" => part[s] = 0
  BY <1>0 DEF Parted
<1>6. OverTcp(s) => TcpReceivedNow(s) = part[s]
  BY DEF TcpReceivedNow
<1>7. stage[s] = "keys" => Keyed = 1
  BY <1>0, <1>1 DEF Shape
<1>8. ~ OverTcp(s) => Inband = 1 \/ stage[s] \in {"keys", "loop"}
  BY <1>1, <1>2 DEF OverTcp
<1>9. ~ OverTcp(s) =>
         /\ stage[s] = "addr" => Received(s) = 0
         /\ stage[s] = "keys" => Received(s) = Inband
         /\ stage[s] = "sync" => Received(s) = Inband + Keyed
         /\ stage[s] = "loop" => Received(s) = Base + TakenRounds(s)
         /\ stage[s] = "last" => Received(s) = Base
  BY <1>1, <1>3, <1>4 DEF Received, Done
<1>10. OverTcp(s) =>
         /\ oob /\ stage[s] \in {"addr", "sync", "last"}
         /\ stage[s] = "addr" => TcpReceived(s) <= 1
         /\ stage[s] = "sync" => TcpReceived(s) = 2
         /\ stage[s] = "last" => TcpReceived(s) = 3
  BY <1>0, <1>5, <1>6 DEF TcpReceived, TcpDone, OverTcp
<1> QED
  BY <1>2, <1>7, <1>8, <1>9, <1>10

\* Nothing is coming: a side that waits has had all the other has sent.
LEMMA WaitingFor ==
  ASSUME InConversation, ~ failed, ~ lost, NEW s \in Sides, Untagged(s), Waits(s)
  PROVE  /\ OverTcp(s) => TcpReceived(s) = TcpSent(Peer(s))
         /\ ~ OverTcp(s) /\ (Received(s) < Base \/ kind # "selective") =>
               Received(s) = Sent(Peer(s))
<1> DEFINE t == Peer(s)
           n == Len(net[s])
<1>0. /\ t \in Sides /\ Placed(s) /\ Placed(t) /\ Typed /\ At(s) /\ At(t) /\ Between(s) /\ IInv
      /\ Up(s) /\ step[s] = "recv"
  BY TwoSides, ConversationPlaces DEF InConversation, InStep, IInv, Waits
<1>1. /\ Received(s) = rx_cq_cntr[s] /\ rx_seq[s] = rx_cq_cntr[s] + 1
      /\ rx_cq_cntr[s] \in Nat /\ n \in Nat /\ Base \in Nat /\ Sent(t) \in Nat
      /\ DOMAIN net[s] = 1..n
  BY <1>0, CountsAre, LenProperties DEF At, Up, Typed, Placed
<1>2. ASSUME OverTcp(s)
      PROVE  TcpReceived(s) = TcpSent(t)
  <2>1. TcpReceived(s) + Len(tcp[s]) = TcpSent(t)
    BY <1>0 DEF Between, TcpLaw, Left, Up
  <2>2. Len(tcp[s]) = 0
    <3>1. tcp[s] = << >>
      BY <1>2 DEF Waits
    <3> QED
      BY <3>1, EmptySeq
  <2>3. TcpReceived(s) \in Nat
    BY <1>0, CountsAre DEF Placed
  <2> QED
    BY <2>1, <2>2, <2>3
<1>3. ASSUME ~ OverTcp(s), Received(s) < Base \/ kind # "selective"
      PROVE  Received(s) = Sent(t)
  <2>1. arrived[s] = << >> /\ Len(arrived[s]) = 0 /\ Matching(s) = {}
    <3>1. arrived[s] = << >> /\ Matching(s) = {}
      BY <1>3 DEF Waits
    <3> QED
      BY <3>1, EmptySeq
  <2>2. CASE mode # "tagged"
    <3>1. 1..n = {}
      BY <1>1, <2>1, <2>2 DEF Matching
    <3>2. rx_cq_cntr[s] + 0 + n = Sent(t)
      BY <1>0, <2>1, <2>2 DEF Between, Ordered
    <3> HIDE DEF n
    <3>3. n = 0
      BY <1>1, <3>1
    <3> QED
      BY <1>1, <3>2, <3>3
  <2>3. CASE mode = "tagged"
    <3>1. /\ tx_seq[t] = rx_cq_cntr[s] + 0 + n
          /\ \A i \in 1..n : \/ net[s][i].tag = rx_cq_cntr[s] + 0 + i - 1
                             \/ kind = "selective" /\ net[s][i].tag = NoTag
      BY <1>0, <2>1, <2>3 DEF IInv, Numbered
    <3>2. tx_seq[t] = Sent(t)
      BY <1>0, <2>3 DEF At
    <3>3. \A i \in 1..n : rx_cq_cntr[s] + 0 + i <= Base => net[s][i].tag # NoTag
      BY <2>1, <2>3 DEF Untagged
    <3>4. 1 \notin 1..n
      <4> SUFFICES ASSUME 1 \in 1..n
                   PROVE  FALSE
        OBVIOUS
      <4>1. net[s][1].tag # rx_seq[s] - 1
        BY <1>1, <2>1, <2>3 DEF Matching
      <4>2. net[s][1].tag # rx_cq_cntr[s] + 0 + 1 - 1
        BY <1>1, <4>1
      <4>3. kind = "selective" /\ net[s][1].tag = NoTag
        BY <3>1, <4>2
      <4>4. rx_cq_cntr[s] + 0 + 1 <= Base
        BY <1>1, <1>3, <4>3
      <4> QED
        BY <3>3, <4>3, <4>4
    <3> HIDE DEF n
    <3>5. n = 0
      BY <1>1, <3>4
    <3> QED
      BY <1>1, <3>1, <3>2, <3>5
  <2> QED
    BY <2>2, <2>3
<1> QED
  BY <1>2, <1>3

\* So nobody waits in an exchange that the other is past.
LEMMA NobodyBehind ==
  ASSUME InConversation, ~ failed, ~ lost, NEW s \in Sides, Untagged(s), Waits(s)
  PROVE  /\ stage[s] = "addr" => stage[Peer(s)] \in {"boot", "addr"}
         /\ stage[s] = "keys" => stage[Peer(s)] \in {"boot", "addr", "keys"}
         /\ stage[s] = "sync" => stage[Peer(s)] \in {"boot", "addr", "keys", "sync"}
<1> DEFINE t == Peer(s)
<1>0. /\ t \in Sides /\ Placed(s) /\ Placed(t) /\ Up(s) /\ step[s] = "recv"
      /\ oob \in BOOLEAN /\ Parted(s)
  BY TwoSides, ConversationPlaces DEF InConversation, Bounds, Waits
<1>1. /\ Inband \in {0, 1} /\ (oob <=> Inband = 0) /\ Keyed \in {0, 1}
      /\ Base = Inband + Keyed + Inband /\ Received(s) \in Nat /\ TcpReceived(s) \in Nat
      /\ Sent(t) \in Nat /\ TcpSent(t) \in Nat
  BY <1>0, CountsAre DEF Inband, Keyed, Base, Placed
<1>2. /\ OverTcp(s) => TcpReceived(s) = TcpSent(t)
      /\ ~ OverTcp(s) /\ Received(s) < Base => Received(s) = Sent(t)
  BY WaitingFor
<1>3. /\ stage[t] \notin {"boot", "addr"} => Sent(t) >= Inband /\ (oob => TcpSent(t) >= 2)
      /\ stage[t] \notin {"boot", "addr", "keys"} => Sent(t) >= Inband + Keyed
      /\ stage[t] \notin {"boot", "addr", "keys", "sync"} =>
            Sent(t) >= Base /\ (oob => TcpSent(t) >= 3)
  BY <1>0, SentAtLeast
<1> HIDE DEF t
<1>4. CASE OverTcp(s)
  <2>1. /\ oob /\ stage[s] \in {"addr", "sync", "last"}
        /\ stage[s] = "addr" => TcpReceived(s) <= 1
        /\ stage[s] = "sync" => TcpReceived(s) = 2
    BY <1>0, <1>4, ReceivedSoFar
  <2> QED
    BY <1>1, <1>2, <1>3, <1>4, <2>1 DEF t
<1>5. CASE ~ OverTcp(s)
  <2>1. /\ Inband = 1 \/ stage[s] \in {"keys", "loop"}
        /\ stage[s] = "addr" => Received(s) = 0
        /\ stage[s] = "keys" => Received(s) = Inband /\ Keyed = 1
        /\ stage[s] = "sync" => Received(s) = Inband + Keyed
    BY <1>0, <1>5, ReceivedSoFar
  <2>2. stage[s] = "addr" => stage[t] \in {"boot", "addr"}
    BY <1>1, <1>2, <1>3, <1>5, <2>1
  <2>3. stage[s] = "keys" => stage[t] \in {"boot", "addr", "keys"}
    BY <1>1, <1>2, <1>3, <1>5, <2>1
  <2>4. stage[s] = "sync" => stage[t] \in {"boot", "addr", "keys", "sync"}
    BY <1>1, <1>2, <1>3, <1>5, <2>1
  <2> QED
    BY <2>2, <2>3, <2>4 DEF t
<1> QED
  BY <1>4, <1>5

-----------------------------------------------------------------------------
\* Two sides that both receive are not in the same place: the client has sent
\* what the server waits for.
LEMMA NotInOnePlace ==
  ASSUME InConversation, ~ failed, ~ lost, \A s \in Sides : Untagged(s) /\ Waits(s),
         stage["client"] = stage["server"]
  PROVE  FALSE
<1> DEFINE c == "client"
           v == "server"
<1>0. /\ c \in Sides /\ v \in Sides /\ Peer(c) = v /\ Peer(v) = c
      /\ Placed(c) /\ Placed(v) /\ Typed /\ Up(c) /\ Up(v) /\ step[c] = "recv" /\ step[v] = "recv"
      /\ oob \in BOOLEAN /\ Parted(c) /\ Parted(v) /\ stage[c] = stage[v]
  BY ConversationPlaces DEF InConversation, IInv, Bounds, Waits, Sides, Peer
<1>1. /\ Inband \in {0, 1} /\ (oob <=> Inband = 0) /\ Keyed \in {0, 1}
      /\ Base = Inband + Keyed + Inband
      /\ Done(c) \in Nat /\ SentRounds(c) \in Nat /\ TcpDone(c) \in Nat
      /\ Sent(c) \in Nat /\ Received(c) \in Nat /\ Received(v) \in Nat /\ Sent(v) \in Nat
      /\ TakenRounds(c) \in Nat /\ TakenRounds(v) \in Nat
  BY <1>0, CountsAre DEF Inband, Keyed, Base, Placed
<1>2. /\ OverTcp(v) => TcpReceived(v) = TcpSent(c)
      /\ ~ OverTcp(v) /\ (Received(v) < Base \/ kind # "selective") => Received(v) = Sent(c)
      /\ ~ OverTcp(c) /\ (Received(c) < Base \/ kind # "selective") => Received(c) = Sent(v)
  BY <1>0, WaitingFor
<1>3. stage[v] \in {"addr", "keys", "sync", "loop", "last"}
  BY <1>0, ReceivedSoFar
<1>4. (OverTcp(c) <=> OverTcp(v)) /\ (Done(c) = Done(v) \/ stage[v] = "exited")
      /\ TcpDone(c) = TcpDone(v)
  BY <1>0, <1>3 DEF OverTcp, Done, TcpDone
<1>5. stage[v] # "loop" => SendsFirst(c)
  BY <1>0 DEF SendsFirst, FirstStep
<1>6. CASE OverTcp(v)
  <2>1. stage[v] \in {"addr", "sync", "last"} /\ SendsFirst(c)
    BY <1>5, <1>6 DEF OverTcp
  <2>2. TcpSentNow(c) = Parts(Label(stage[c])) /\ TcpReceivedNow(v) = part[v]
    BY <1>0, <1>4, <1>6, <2>1 DEF TcpSentNow, TcpReceivedNow
  <2>3. part[v] \in {0, 1} /\ (part[v] = 1 => stage[v] = "addr")
    <3>1. part[v] \in 0..1
      BY <1>0 DEF Placed
    <3> QED
      BY <1>0, <3>1 DEF Parted
  <2>4. Parts(Label(stage[c])) \in Nat /\ part[v] < Parts(Label(stage[c]))
    BY <1>0, <2>1, <2>3 DEF Parts, Label
  <2> QED
    BY <1>1, <1>2, <1>4, <1>6, <2>2, <2>3, <2>4 DEF TcpSent, TcpReceived
<1>7. CASE ~ OverTcp(v) /\ stage[v] # "loop"
  <2>1. SentNow(c) = 1 /\ ReceivedNow(v) = 0
    BY <1>0, <1>4, <1>5, <1>7 DEF SentNow, ReceivedNow, Fabric
  <2>2. TakenRounds(v) = 0 /\ (Received(v) < Base \/ kind # "selective")
    <3>1. stage[v] \in {"addr", "keys", "sync"} => rounds[v] = 0
      BY <1>0 DEF Placed, Within
    <3>2. stage[v] = "last" => kind \in RmaKinds /\ kind # "selective" /\ ~ TakesRound(v)
      BY <1>0, OneKind DEF Placed, Shape, RunsLast, TakesRound, RmaKinds
    <3>3. TakenRounds(v) = 0
      BY <1>3, <1>7, <3>1, <3>2 DEF TakenRounds
    <3>4. stage[v] \in {"addr", "keys", "sync"} => Received(v) < Base
      BY <1>0, <1>1, <1>7, ReceivedSoFar
    <3> QED
      BY <1>3, <1>7, <3>2, <3>3, <3>4
  <2>3. Received(v) = Done(v)
    BY <1>1, <1>4, <2>1, <2>2, <1>3 DEF Received
  <2>4. Sent(c) >= Done(c) + 1
    BY <1>1, <2>1 DEF Sent
  <2> QED
    BY <1>1, <1>2, <1>3, <1>4, <1>7, <2>2, <2>3, <2>4
<1>8. CASE stage[v] = "loop"
  <2>1. /\ kind \in LockStepKinds /\ kind # "selective"
        /\ SendsRound(c) /\ TakesRound(c) /\ SendsRound(v) /\ TakesRound(v)
        /\ SendsFirst(c) /\ ~ SendsFirst(v) /\ ~ OverTcp(c) /\ ~ OverTcp(v)
    <3>1. Shape(c) /\ Shape(v)
      BY <1>0 DEF Placed
    <3>2. kind \in LockStepKinds
      BY <1>0, <1>8, <3>1, LoopIs
    <3> QED
      BY <1>0, <1>8, <3>1, <3>2, LoopIs DEF OverTcp, LockStepKinds
  <2>2. SentNow(c) = 1 /\ ReceivedNow(c) = 0 /\ SentNow(v) = 0 /\ ReceivedNow(v) = 0
    BY <1>0, <2>1 DEF SentNow, ReceivedNow, Fabric
  <2>3. /\ SentRounds(c) = rounds[c] /\ TakenRounds(c) = rounds[c]
        /\ SentRounds(v) = rounds[v] /\ TakenRounds(v) = rounds[v]
        /\ rounds[c] \in Nat /\ rounds[v] \in Nat
        /\ Done(c) = Base /\ Done(v) = Base
    BY <1>0, <1>8, <2>1 DEF SentRounds, TakenRounds, Typed, Done
  <2>4. Received(v) = Base + rounds[v] /\ Sent(c) = Base + rounds[c] + 1
    BY <1>1, <2>2, <2>3 DEF Received, Sent
  <2>5. Received(c) = Base + rounds[c] /\ Sent(v) = Base + rounds[v]
    BY <1>1, <2>2, <2>3 DEF Received, Sent
  <2>6. Received(v) = Sent(c) /\ Received(c) = Sent(v)
    BY <1>2, <2>1
  <2> QED
    BY <1>1, <2>3, <2>4, <2>5, <2>6
<1> QED
  BY <1>6, <1>7, <1>8

\* And two that both receive are in the same place, as neither is past the other.
LEMMA NeverBothWaitFollows ==
  ASSUME InConversation, Countable
  PROVE  NeverBothWait
<1> SUFFICES ASSUME ~ failed, ~ lost, \A s \in Sides : Waits(s)
             PROVE  FALSE
  BY DEF NeverBothWait
<1> DEFINE c == "client"
           v == "server"
<1>0. /\ c \in Sides /\ v \in Sides /\ Peer(c) = v /\ Peer(v) = c
      /\ Placed(c) /\ Placed(v) /\ Up(c) /\ Up(v) /\ step[c] = "recv" /\ step[v] = "recv"
      /\ oob \in BOOLEAN /\ Parted(c) /\ Parted(v) /\ \A s \in Sides : Untagged(s)
  BY ConversationPlaces DEF InConversation, Bounds, Waits, Sides, Peer, Countable
<1>1. /\ stage[c] \in {"addr", "keys", "sync", "loop", "last"}
      /\ stage[v] \in {"addr", "keys", "sync", "loop", "last"}
  BY <1>0, ReceivedSoFar
<1>2. /\ stage[c] = "addr" => stage[v] \in {"boot", "addr"}
      /\ stage[c] = "keys" => stage[v] \in {"boot", "addr", "keys"}
      /\ stage[c] = "sync" => stage[v] \in {"boot", "addr", "keys", "sync"}
  BY <1>0, NobodyBehind
<1>3. /\ stage[v] = "addr" => stage[c] \in {"boot", "addr"}
      /\ stage[v] = "keys" => stage[c] \in {"boot", "addr", "keys"}
      /\ stage[v] = "sync" => stage[c] \in {"boot", "addr", "keys", "sync"}
  BY <1>0, NobodyBehind
<1>4. /\ stage[c] = "loop" => stage[v] # "last"
      /\ stage[v] = "loop" => stage[c] # "last"
  <2>1. Shape(c) /\ Shape(v)
    BY <1>0 DEF Placed
  <2> QED
    BY <1>0, <2>1 DEF Shape, RunsLast, RmaKinds
<1>5. stage[c] = stage[v]
  BY <1>1, <1>2, <1>3, <1>4
<1> QED
  BY <1>0, <1>5, NotInOnePlace

\* One that has left made all the rounds, and the last sync, that the other
\* waits for.
LEMMA NobodyAbandonedFollows ==
  ASSUME InConversation, Countable
  PROVE  NobodyAbandoned
<1> SUFFICES ASSUME Agreed, ~ failed, ~ lost, NEW s \in Sides, Waits(s), stage[Peer(s)] = "exited"
             PROVE  FALSE
  BY DEF NobodyAbandoned
<1> DEFINE t == Peer(s)
<1>0. /\ t \in Sides /\ t # s /\ Placed(s) /\ Placed(t) /\ Typed /\ Up(s) /\ step[s] = "recv"
      /\ oob \in BOOLEAN /\ Parted(s) /\ Untagged(s) /\ Rounded(t) /\ ~ OverTcp(s)
      /\ Shape(s) /\ Within(s) /\ Rounds \in Nat
      /\ (s = "client" /\ t = "server") \/ (s = "server" /\ t = "client")
  BY TwoSides, ConversationPlaces, SessionAssumption
     DEF InConversation, IInv, Bounds, Waits, Countable, Placed, Sides, Peer, SessionAssumption
<1>1. /\ Inband \in {0, 1} /\ (oob <=> Inband = 0) /\ Base \in Nat
      /\ Received(s) \in Nat /\ SentRounds(t) \in Nat /\ rounds[t] \in Nat /\ rounds[s] \in Nat
  BY <1>0, CountsAre DEF Inband, Placed, Typed
<1>2. kind # "selective" /\ (kind \in CountedKinds => kind \notin RmaKinds)
  BY DEF Agreed, CountedKinds, RmaKinds
<1>3. Received(s) = Sent(t)
  BY <1>0, <1>2, WaitingFor
<1>4. Sent(t) = (IF RunsLast(t) THEN Base + Inband ELSE Base) + SentRounds(t)
  <2>1. SentNow(t) = 0
    BY DEF SentNow, Fabric, Up, Ended
  <2>2. Done(t) = IF RunsLast(t) THEN Base + Inband ELSE Base
    BY DEF Done
  <2> HIDE DEF t
  <2> QED
    BY <1>1, <2>1, <2>2 DEF Sent
<1>5. stage[s] \in {"loop", "last"}
  BY <1>0, ReceivedSoFar, NobodyBehind
<1>6. CASE stage[s] = "loop"
  <2>1. kind \in CountedKinds
    BY <1>0, <1>6 DEF Shape, Agreed, RmaKinds
  <2>2. TakesRound(s) /\ SendsRound(t) /\ ~ RunsLast(t)
    <3>1. /\ kind \in LockStepKinds => TakesRound(s) /\ SendsRound(t)
          /\ kind \in OneWayKinds => TakesRound(s) /\ SendsRound(t)
      BY <1>0, <1>6, LoopIs DEF TakesRound, SendsRound
    <3>2. kind = "latency" \/ kind = "capability"
      BY <2>1 DEF CountedKinds
    <3> QED
      BY <3>1, <3>2 DEF LockStepKinds, OneWayKinds, RunsLast
  <2>3. Received(s) = Base + rounds[s]
    BY <1>0, <1>6, <2>2, ReceivedSoFar DEF TakenRounds
  <2>4. rounds[t] = Rounds /\ rounds[s] < Rounds
    BY <1>0, <1>6, <2>1 DEF Rounded, Within, Ended
  <2> HIDE DEF t
  <2>5. Sent(t) = Base + Rounds
    BY <1>1, <1>4, <2>2, <2>4 DEF SentRounds
  <2>6. Base + rounds[s] = Base + Rounds
    BY <1>3, <2>3, <2>5
  <2>7. Rounds \in Nat
    BY <1>0
  <2> QED
    BY <1>1, <2>4, <2>6, <2>7
<1>7. CASE stage[s] = "last"
  <2>1. /\ RunsLast(s) /\ Inband = 1 /\ ~ oob /\ Received(s) = Base
    BY <1>0, <1>1, <1>7, ReceivedSoFar DEF Shape
  <2>2. CASE kind = "rma_batch"
    <3>1. RunsLast(t)
      BY <2>2 DEF RunsLast
    <3> HIDE DEF t
    <3> QED
      BY <1>1, <1>3, <1>4, <2>1, <3>1
  <2>3. CASE kind = "rma"
    <3>1. s = "client" /\ t = "server" /\ mode = "writedata" /\ ~ RunsLast(t)
      BY <1>0, <2>1, <2>3 DEF RunsLast, Agreed, CountedKinds
    <3>2. SendsRound(t)
      BY <3>1 DEF SendsRound
    <3>3. rounds[t] # 0
      BY <1>0, <2>3, <3>1 DEF Rounded, RmaKinds, Ended
    <3> HIDE DEF t
    <3> QED
      BY <1>1, <1>3, <1>4, <2>1, <3>1, <3>2, <3>3 DEF SentRounds
  <2> QED
    BY <2>1, <2>2, <2>3 DEF RunsLast
<1> QED
  BY <1>5, <1>6, <1>7

(***************************************************************************)
(* The two sides never wait for each other, in any benchmark and however   *)
(* many iterations there are, as long as nothing fails or is lost: when    *)
(* both are in ft_get_rx_comp or ft_sock_recv (shared.c:2652, :3781), one  *)
(* of them has its message, or it is on its way.                           *)
(***************************************************************************)
THEOREM NeverBothWaitHolds == Spec => []NeverBothWait
<1>1. (IInv /\ Bounds /\ Conversation) /\ Countable => NeverBothWait
  <2>1. failed => NeverBothWait
    BY DEF NeverBothWait
  <2> QED
    BY <2>1, NeverBothWaitFollows DEF Conversation, InConversation
<1> QED
  BY <1>1, Conversing, Counting, PTL

(***************************************************************************)
(* Where the sides agree on the last message, neither waits for one that   *)
(* has left: what it needs was sent before (the counted loops of latency   *)
(* and capability_test, the last ft_sync of rma_batch).  With the theorem  *)
(* before, such a session has a side that can go on until both processes   *)
(* have ended.                                                             *)
(***************************************************************************)
THEOREM NobodyAbandonedHolds == Spec => []NobodyAbandoned
<1>1. (IInv /\ Bounds /\ Conversation) /\ Countable => NobodyAbandoned
  <2>1. failed => NobodyAbandoned
    BY DEF NobodyAbandoned
  <2> QED
    BY <2>1, NobodyAbandonedFollows DEF Conversation, InConversation
<1> QED
  BY <1>1, Conversing, Counting, PTL
=============================================================================
