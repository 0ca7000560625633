--------------------------- MODULE SessionProofs ---------------------------
(***************************************************************************)
(* Theorems about a session of a client and a server, for every number of  *)
(* rounds, every number of failed calls and lost messages, over the fabric *)
(* and over the out-of-band connection.                                    *)
(*                                                                         *)
(* IInv is inductive.  Its parts: the types (Typed); that a side has at    *)
(* most one receive outstanding, and none between the two halves of rx()   *)
(* (OneReceive); and that the numbers of --tagged messages agree           *)
(* (FirstTag whatever happens, Numbered as long as nothing fails or is     *)
(* lost).                                                                  *)
(*                                                                         *)
(* Bounds is what the type invariant needs beside it: how many messages a  *)
(* side can have posted follows from where it is in its program.           *)
(***************************************************************************)
EXTENDS Session, SequenceTheorems, TLAPS

Steps == {"send", "recv", "post", "rma", "clock"}

AnyMessage == [label : Labels, tag : Int]

Typed ==
    /\ kind \in Kinds
    /\ mode \in {"plain", "tagged", "writedata"}
    /\ mode = "tagged" => kind \notin RmaKinds
    /\ stage \in [Sides -> Stages]
    /\ step \in [Sides -> Steps]
    /\ rounds \in [Sides -> Nat]
    /\ tx_seq \in [Sides -> Nat]
    /\ rx_seq \in [Sides -> Nat]
    /\ rx_cq_cntr \in [Sides -> Nat]
    /\ arrived \in [Sides -> Seq(AnyMessage)]
    /\ net \in [Sides -> Seq(AnyMessage)]
    /\ faults \in Nat
    /\ losses \in Nat

OneReceive == \A s \in Sides :
    /\ rx_cq_cntr[s] + Len(arrived[s]) <= rx_seq[s]
    /\ rx_seq[s] <= rx_cq_cntr[s] + 1
    /\ step[s] = "post" => rx_cq_cntr[s] = rx_seq[s]
    /\ step[s] = "rma" => kind \in RmaKinds
    /\ stage[s] = "boot" => step[s] = "send" /\ rx_seq[s] = 0 /\ rx_cq_cntr[s] = 0

FirstTag == mode = "tagged" =>
    \A s \in Sides : arrived[s] # << >> => arrived[s][1].tag = rx_cq_cntr[s]

Numbered == mode = "tagged" /\ ~ failed /\ ~ lost => \A s \in Sides :
    /\ tx_seq[Peer(s)] = rx_cq_cntr[s] + Len(arrived[s]) + Len(net[s])
    /\ \A i \in 1..Len(net[s]) :
          \/ net[s][i].tag = rx_cq_cntr[s] + Len(arrived[s]) + i - 1
          \/ kind = "selective" /\ net[s][i].tag = NoTag

IInv == Typed /\ OneReceive /\ FirstTag /\ Numbered

-----------------------------------------------------------------------------
\* What RemoveAt of the community modules leaves.
LEMMA RemoveAtLeaves ==
  ASSUME NEW S, NEW q \in Seq(S), NEW i \in 1..Len(q)
  PROVE  /\ RemoveAt(q, i) \in Seq(S)
         /\ Len(RemoveAt(q, i)) = Len(q) - 1
         /\ \A j \in 1..(Len(q) - 1) :
               RemoveAt(q, i)[j] = IF j < i THEN q[j] ELSE q[j + 1]
<1> DEFINE a == SubSeq(q, 1, i - 1)
           b == SubSeq(q, i + 1, Len(q))
<1>0. Len(q) \in Nat /\ i \in Nat
  BY LenProperties
<1>1. /\ a \in Seq(S) /\ Len(a) = i - 1
      /\ \A j \in 1..(i - 1) : a[j] = q[j]
  <2>1. \A j \in 1..(i - 1) : q[j] \in S
    BY <1>0, ElementOfSeq
  <2> QED
    BY <1>0, <2>1, SubSeqProperties
<1>2. /\ b \in Seq(S) /\ Len(b) = Len(q) - i
      /\ \A j \in 1..(Len(q) - i) : b[j] = q[i + j]
  <2>1. \A j \in (i + 1)..Len(q) : q[j] \in S
    BY <1>0, ElementOfSeq
  <2> QED
    BY <1>0, <2>1, SubSeqProperties
<1>3. RemoveAt(q, i) = a \o b
  BY DEF RemoveAt
<1> HIDE DEF a, b
<1>4. /\ a \o b \in Seq(S)
      /\ Len(a \o b) = Len(a) + Len(b)
      /\ \A j \in 1..(Len(a) + Len(b)) :
            (a \o b)[j] = IF j <= Len(a) THEN a[j] ELSE b[j - Len(a)]
  BY <1>1, <1>2, ConcatProperties
<1> QED
  BY <1>0, <1>1, <1>2, <1>3, <1>4

\* The same of messages.
LEMMA MessageRemoved ==
  ASSUME NEW q \in Seq(AnyMessage), NEW i \in 1..Len(q)
  PROVE  /\ RemoveAt(q, i) \in Seq(AnyMessage)
         /\ Len(RemoveAt(q, i)) = Len(q) - 1
         /\ \A j \in 1..(Len(q) - 1) :
               RemoveAt(q, i)[j] = IF j < i THEN q[j] ELSE q[j + 1]
BY RemoveAtLeaves

\* Sides.
LEMMA TwoSides ==
  /\ \A s \in Sides : Peer(s) \in Sides /\ Peer(s) # s /\ Peer(Peer(s)) = s
  /\ \A s, t \in Sides : t # s => t = Peer(s)
  BY DEF Sides, Peer

-----------------------------------------------------------------------------
\* The program of side s goes on, to a call that is not the second half of rx().
Moved(s) ==
    /\ stage' \in [Sides -> Stages]
    /\ step' \in [Sides -> Steps]
    /\ rounds' \in [Sides -> Nat]
    /\ stage'[s] # "boot"
    /\ step'[s] # "post"
    /\ step'[s] = "rma" => kind \in RmaKinds
    /\ \A t \in Sides \ {s} :
          stage'[t] = stage[t] /\ step'[t] = step[t] /\ rounds'[t] = rounds[t]

LEMMA FirstStepIs ==
  ASSUME NEW s \in Sides, NEW st
  PROVE  /\ FirstStep(s, st) \in {"send", "recv", "rma"}
         /\ FirstStep(s, st) = "rma" => kind \in RmaKinds
  BY DEF FirstStep

LEMMA GoToMoves ==
  ASSUME Typed, NEW s \in Sides, NEW st \in Stages \ {"boot"}, GoTo(s, st)
  PROVE  Moved(s)
  BY FirstStepIs DEF GoTo, Moved, Typed, Steps

LEMMA NextStageIs ==
  ASSUME NEW s \in Sides
  PROVE  NextStage(s) \in Stages \ {"boot"}
  BY DEF NextStage, Stages, Exchanges

LEMMA ContinueMoves ==
  ASSUME Typed, NEW s \in Sides, stage[s] # "boot",
         NEW p \in {"send", "recv", "rma", "clock"}, Continue(s, p),
         p = "rma" => kind \in RmaKinds
  PROVE  Moved(s)
  BY DEF Continue, Moved, Typed, Steps

LEMMA FinishMoves ==
  ASSUME Typed, NEW s \in Sides, stage[s] # "boot", Finish(s)
  PROVE  Moved(s)
<1>1. CASE stage[s] = "loop"
  <2>1. /\ rounds' = [rounds EXCEPT ![s] = @ + 1]
        /\ step' = [step EXCEPT ![s] = "clock"]
        /\ stage' = stage
    BY <1>1 DEF Finish
  <2>2. /\ rounds' \in [Sides -> Nat]
        /\ \A t \in Sides \ {s} : rounds'[t] = rounds[t]
    BY <2>1 DEF Typed
  <2>3. /\ step' \in [Sides -> Steps] /\ step'[s] = "clock"
        /\ \A t \in Sides \ {s} : step'[t] = step[t]
    BY <2>1 DEF Typed, Steps
  <2> QED
    BY <1>1, <2>1, <2>2, <2>3 DEF Moved, Typed
<1>2. CASE stage[s] # "loop"
  BY <1>2, GoToMoves, NextStageIs DEF Finish
<1> QED
  BY <1>1, <1>2

LEMMA AfterMoves ==
  ASSUME Typed, NEW s \in Sides, stage[s] # "boot", AfterSend(s) \/ AfterReceive(s)
  PROVE  Moved(s)
  BY FinishMoves, ContinueMoves DEF AfterSend, AfterReceive

LEMMA LeaveMoves ==
  ASSUME Typed, NEW s \in Sides, Leave(s)
  PROVE  Moved(s)
<1>1. "closed" \in Stages \ {"boot"}
  BY DEF Stages, Exchanges
<1> QED
  BY <1>1, GoToMoves, NextStageIs DEF Leave

LEMMA AbandonMoves ==
  ASSUME Typed, NEW s \in Sides, Abandon(s)
  PROVE  /\ Moved(s)
         /\ faults' \in Nat /\ failed' /\ UNCHANGED <<kind, mode, losses>>
  BY LeaveMoves DEF Abandon, Typed, fixed, failed
-----------------------------------------------------------------------------
\* A step that only moves the program on.
LEMMA IdleStep ==
  ASSUME IInv, NEW s \in Sides, Moved(s), stage[s] # "boot",
         UNCHANGED <<kind, mode, tx_seq, receives, net>>,
         faults' \in Nat, losses' \in Nat, failed => failed', lost => lost'
  PROVE  IInv'
<1> USE DEF receives
<1>1. Typed'
  BY DEF IInv, Typed, Moved
<1>2. OneReceive'
  BY DEF IInv, OneReceive, Moved
<1>3. FirstTag'
  BY DEF IInv, FirstTag
<1>4. Numbered'
  BY DEF IInv, Numbered
<1> QED
  BY <1>1, <1>2, <1>3, <1>4 DEF IInv

\* A step that does not even do that.
LEMMA StillStep ==
  ASSUME IInv, UNCHANGED <<kind, mode, control, tx_seq, receives, net, faults, losses>>
  PROVE  IInv'
  BY DEF IInv, Typed, OneReceive, FirstTag, Numbered, control, receives, failed, lost

\* A message is posted under the number the peer will ask for.
LEMMA PostStep ==
  ASSUME IInv, NEW s \in Sides, NEW label \in Labels, Post(s, label), Moved(s),
         stage[s] # "boot", UNCHANGED <<kind, mode, receives>>,
         faults' \in Nat, losses' \in Nat, failed => failed', lost => lost'
  PROVE  IInv'
<1> USE DEF receives
<1> DEFINE t == Peer(s)
           m == [label |-> label, tag |-> Tag(s)]
<1>0. t \in Sides /\ t # s /\ Peer(t) = s /\ \A u \in Sides : u = s \/ u = t
  BY TwoSides
<1>1. m \in AnyMessage /\ m.tag = Tag(s)
  BY DEF AnyMessage, Tag, NoTag, IInv, Typed
<1> HIDE DEF m, t
<1>2. /\ net' = [net EXCEPT ![t] = Append(@, m)]
      /\ tx_seq' = [tx_seq EXCEPT ![s] = @ + 1]
  BY DEF Post, m, t
<1>3. /\ net \in [Sides -> Seq(AnyMessage)] /\ tx_seq \in [Sides -> Nat]
      /\ rx_cq_cntr \in [Sides -> Nat] /\ arrived \in [Sides -> Seq(AnyMessage)]
  BY DEF IInv, Typed
<1>4. /\ net'[t] = Append(net[t], m) /\ net'[s] = net[s]
      /\ tx_seq'[s] = tx_seq[s] + 1 /\ tx_seq'[t] = tx_seq[t]
  BY <1>0, <1>2, <1>3
<1>5. /\ Append(net[t], m) \in Seq(AnyMessage)
      /\ Len(Append(net[t], m)) = Len(net[t]) + 1
      /\ \A i \in 1..Len(net[t]) : Append(net[t], m)[i] = net[t][i]
      /\ Append(net[t], m)[Len(net[t]) + 1] = m
  BY <1>0, <1>1, <1>3, AppendProperties
<1>6. Typed'
  <2>1. net' \in [Sides -> Seq(AnyMessage)]
    BY <1>0, <1>2, <1>3, <1>5
  <2>2. tx_seq' \in [Sides -> Nat]
    BY <1>2, <1>3
  <2> QED
    BY <2>1, <2>2 DEF IInv, Typed, Moved
<1>7. OneReceive'
  BY DEF IInv, OneReceive, Moved
<1>8. FirstTag'
  BY DEF IInv, FirstTag
<1>9. Numbered'
  <2> SUFFICES ASSUME mode = "tagged", ~ failed, ~ lost
               PROVE  \A u \in Sides :
                  /\ tx_seq'[Peer(u)] = rx_cq_cntr[u] + Len(arrived[u]) + Len(net'[u])
                  /\ \A i \in 1..Len(net'[u]) :
                        \/ net'[u][i].tag = rx_cq_cntr[u] + Len(arrived[u]) + i - 1
                        \/ kind = "selective" /\ net'[u][i].tag = NoTag
    BY DEF Numbered
  <2>1. \A u \in Sides :
          /\ tx_seq[Peer(u)] = rx_cq_cntr[u] + Len(arrived[u]) + Len(net[u])
          /\ \A i \in 1..Len(net[u]) :
                \/ net[u][i].tag = rx_cq_cntr[u] + Len(arrived[u]) + i - 1
                \/ kind = "selective" /\ net[u][i].tag = NoTag
    BY DEF IInv, Numbered
  <2>2. m.tag = tx_seq[s] \/ (kind = "selective" /\ m.tag = NoTag)
    BY <1>1 DEF Tag
  <2>3. Len(net[t]) \in Nat /\ Len(arrived[t]) \in Nat /\ rx_cq_cntr[t] \in Nat
    BY <1>0, <1>3, LenProperties
  <2>4. tx_seq[s] = rx_cq_cntr[t] + Len(arrived[t]) + Len(net[t])
    BY <1>0, <2>1
  <2>5. tx_seq'[s] = rx_cq_cntr[t] + Len(arrived[t]) + Len(net'[t])
    BY <1>3, <1>4, <1>5, <2>3, <2>4
  <2>6. ASSUME NEW i \in 1..Len(net'[t])
        PROVE  \/ net'[t][i].tag = rx_cq_cntr[t] + Len(arrived[t]) + i - 1
               \/ kind = "selective" /\ net'[t][i].tag = NoTag
    <3>1. CASE i = Len(net[t]) + 1
      BY <1>4, <1>5, <2>2, <2>3, <2>4, <3>1
    <3>2. CASE i \in 1..Len(net[t])
      BY <1>0, <1>4, <1>5, <2>1, <3>2
    <3> QED
      BY <1>4, <1>5, <2>3, <3>1, <3>2
  <2>7. Peer(s) = t
    BY DEF t
  <2>8. \A u \in Sides : u = s \/ u = t
    BY <1>0
  <2>9. Peer(t) = s
    BY <1>0
  <2>10. /\ tx_seq'[Peer(s)] = rx_cq_cntr[s] + Len(arrived[s]) + Len(net'[s])
         /\ \A i \in 1..Len(net'[s]) :
               \/ net'[s][i].tag = rx_cq_cntr[s] + Len(arrived[s]) + i - 1
               \/ kind = "selective" /\ net'[s][i].tag = NoTag
    BY <1>4, <2>1, <2>7
  <2> QED
    BY <2>5, <2>6, <2>8, <2>9, <2>10
<1> QED
  BY <1>6, <1>7, <1>8, <1>9 DEF IInv

\* The endpoint is enabled: the first receive is outstanding.
LEMMA EnableStep == IInv /\ (\E s \in Sides : Enable(s)) => IInv'
<1> SUFFICES ASSUME IInv, NEW s \in Sides, Enable(s)
             PROVE  IInv'
  OBVIOUS
<1>1. Moved(s)
  BY GoToMoves DEF Enable, IInv, Stages, Exchanges
<1>2. /\ stage[s] = "boot" /\ rx_seq' = [rx_seq EXCEPT ![s] = 1]
      /\ UNCHANGED <<kind, mode, tx_seq, rx_cq_cntr, arrived, net, faults, losses>>
  BY DEF Enable, Quiet, channels, fixed
<1>3. Typed'
  BY <1>1, <1>2 DEF IInv, Typed, Moved
<1>4. OneReceive'
  <2>1. \A t \in Sides : /\ rx_seq'[t] = IF t = s THEN 1 ELSE rx_seq[t]
                         /\ arrived[t] \in Seq(AnyMessage) /\ Len(arrived[t]) \in Nat
    BY <1>2, LenProperties DEF IInv, Typed
  <2>2. rx_seq[s] = 0 /\ rx_cq_cntr[s] = 0
    BY <1>2 DEF IInv, OneReceive
  <2> QED
    BY <1>1, <1>2, <2>1, <2>2 DEF IInv, OneReceive, Moved
<1>5. FirstTag'
  BY <1>2 DEF IInv, FirstTag
<1>6. Numbered'
  BY <1>2 DEF IInv, Numbered, failed, lost
<1> QED
  BY <1>3, <1>4, <1>5, <1>6 DEF IInv

\* A message that has arrived carries the number that is due ...
LEMMA TagIsDue ==
  ASSUME IInv, mode = "tagged", NEW s \in Sides, arrived[s] # << >>
  PROVE  Head(arrived[s]).tag = rx_cq_cntr[s]
<1>1. Head(arrived[s]) = arrived[s][1]
  BY HeadTailProperties DEF IInv, Typed
<1> QED
  BY <1>1 DEF IInv, FirstTag

\* ... and so one within the window, however small that is.
LEMMA TagValid ==
  ASSUME IInv, NEW s \in Sides, arrived[s] # << >>
  PROVE  ft_tag_is_valid(Head(arrived[s]), rx_cq_cntr[s])
<1>1. rx_cq_cntr[s] \in Nat /\ WindowSize \in Nat \ {0}
  BY SessionAssumption DEF SessionAssumption, IInv, Typed
<1>2. mode = "tagged" => Head(arrived[s]).tag = rx_cq_cntr[s]
  BY TagIsDue
<1> QED
  BY <1>1, <1>2 DEF ft_tag_is_valid

\* One receive at most: what has arrived is the one message.
LEMMA OneArrived ==
  ASSUME IInv, NEW s \in Sides
  PROVE  /\ Len(arrived[s]) \in Nat
         /\ arrived[s] # << >> => /\ Len(arrived[s]) = 1
                                  /\ Tail(arrived[s]) = << >>
                                  /\ rx_seq[s] = rx_cq_cntr[s] + 1
<1>0. arrived[s] \in Seq(AnyMessage) /\ rx_seq[s] \in Nat /\ rx_cq_cntr[s] \in Nat
  BY DEF IInv, Typed
<1>1. /\ Len(arrived[s]) \in Nat
      /\ rx_cq_cntr[s] + Len(arrived[s]) <= rx_seq[s] /\ rx_seq[s] <= rx_cq_cntr[s] + 1
  BY <1>0, LenProperties DEF IInv, OneReceive
<1>2. ASSUME arrived[s] # << >>
      PROVE  /\ Len(arrived[s]) = 1 /\ Tail(arrived[s]) = << >>
             /\ rx_seq[s] = rx_cq_cntr[s] + 1
  <2>1. Len(arrived[s]) \in Nat \ {0}
    BY <1>0, <1>2, EmptySeq
  <2>2. Len(arrived[s]) = 1 /\ rx_seq[s] = rx_cq_cntr[s] + 1
    <3> DEFINE n == Len(arrived[s])
    <3> HIDE DEF n
    <3>1. /\ n \in Nat \ {0} /\ rx_seq[s] \in Nat /\ rx_cq_cntr[s] \in Nat
          /\ rx_cq_cntr[s] + n <= rx_seq[s] /\ rx_seq[s] <= rx_cq_cntr[s] + 1
      BY <1>0, <1>1, <2>1 DEF n
    <3>2. n = 1 /\ rx_seq[s] = rx_cq_cntr[s] + 1
      BY <3>1
    <3> QED
      BY <3>2 DEF n
  <2>3. Tail(arrived[s]) \in Seq(AnyMessage) /\ Len(Tail(arrived[s])) = 0
    BY <1>0, <1>2, <2>2, HeadTailProperties
  <2>4. Tail(arrived[s]) = << >>
    BY <2>3, EmptySeq
  <2> QED
    BY <2>2, <2>4
<1> QED
  BY <1>1, <1>2

\* The first half of rx().
LEMMA ReceiveStep == IInv /\ (\E s \in Sides : Receive(s)) => IInv'
<1> SUFFICES ASSUME IInv, NEW s \in Sides, Receive(s)
             PROVE  IInv'
  OBVIOUS
<1>0. /\ stage[s] # "boot" /\ step[s] = "recv"
      /\ arrived[s] # << >> \/ rx_cq_cntr[s] = rx_seq[s]
      /\ UNCHANGED <<kind, mode, tx_seq, rx_seq, net, faults, losses>>
  BY DEF Receive, Up, Quiet, channels, fixed
<1>1. CASE arrived[s] # << >>
  <2>1. /\ arrived' = [arrived EXCEPT ![s] = Tail(@)]
        /\ rx_cq_cntr' = [rx_cq_cntr EXCEPT ![s] = @ + 1]
        /\ Continue(s, IF rx_cq_cntr'[s] = rx_seq[s] THEN "post" ELSE "recv")
    BY <1>1, TagValid DEF Receive
  <2>2. Len(arrived[s]) = 1 /\ Tail(arrived[s]) = << >> /\ rx_seq[s] = rx_cq_cntr[s] + 1
    BY <1>1, OneArrived
  <2>3. \A t \in Sides :
          /\ rx_cq_cntr'[t] = IF t = s THEN rx_cq_cntr[s] + 1 ELSE rx_cq_cntr[t]
          /\ arrived'[t] = IF t = s THEN << >> ELSE arrived[t]
    <3>1. rx_cq_cntr \in [Sides -> Nat] /\ arrived \in [Sides -> Seq(AnyMessage)]
      BY DEF IInv, Typed
    <3>2. arrived' = [arrived EXCEPT ![s] = << >>]
      BY <2>1, <2>2
    <3> QED
      BY <2>1, <3>1, <3>2
  <2>4. stage' = stage /\ rounds' = rounds /\ step' = [step EXCEPT ![s] = "post"]
    BY <2>1, <2>2, <2>3 DEF Continue
  <2>5. /\ arrived' \in [Sides -> Seq(AnyMessage)] /\ rx_cq_cntr' \in [Sides -> Nat]
        /\ step' \in [Sides -> Steps]
    <3>1. << >> \in Seq(AnyMessage)
      BY EmptySeq
    <3>2. arrived' = [arrived EXCEPT ![s] = << >>]
      BY <2>1, <2>2
    <3>3. arrived' \in [Sides -> Seq(AnyMessage)]
      BY <3>1, <3>2 DEF IInv, Typed
    <3>4. rx_cq_cntr' \in [Sides -> Nat]
      BY <2>1 DEF IInv, Typed
    <3>5. step' \in [Sides -> Steps]
      BY <2>4 DEF IInv, Typed, Steps
    <3> QED
      BY <3>3, <3>4, <3>5
  <2>6. Len(<< >>) = 0 /\ \A t \in Sides : Len(arrived[t]) \in Nat
    BY OneArrived
  <2>7. Typed'
    BY <1>0, <2>4, <2>5 DEF IInv, Typed
  <2>8. OneReceive'
    <3>1. ASSUME NEW t \in Sides, t # s
          PROVE  step'[t] = step[t]
      BY <2>4, <3>1 DEF IInv, Typed
    <3>2. step'[s] = "post"
      BY <2>4 DEF IInv, Typed
    <3>3. rx_cq_cntr[s] \in Nat /\ rx_seq[s] \in Nat
      BY DEF IInv, Typed
    <3> QED
      BY <1>0, <2>2, <2>3, <2>4, <2>6, <3>1, <3>2, <3>3 DEF IInv, OneReceive
  <2>9. FirstTag'
    BY <1>0, <2>3 DEF IInv, FirstTag
  <2>10. Numbered'
    <3>1. ASSUME NEW t \in Sides
          PROVE  rx_cq_cntr'[t] + Len(arrived'[t]) = rx_cq_cntr[t] + Len(arrived[t])
      <4>1. rx_cq_cntr[t] \in Nat
        BY DEF IInv, Typed
      <4>2. CASE t = s
        <5>1. rx_cq_cntr'[s] = rx_cq_cntr[s] + 1 /\ arrived'[s] = << >>
          BY <2>3
        <5>2. Len(arrived'[s]) = 0 /\ Len(arrived[s]) = 1
          BY <2>2, <2>6, <5>1
        <5> QED
          BY <4>1, <4>2, <5>1, <5>2
      <4>3. CASE t # s
        BY <2>3, <4>3
      <4> QED
        BY <4>2, <4>3
    <3> QED
      BY <1>0, <3>1 DEF IInv, Numbered, failed, lost
  <2> QED
    BY <2>7, <2>8, <2>9, <2>10 DEF IInv
<1>2. CASE arrived[s] = << >>
  <2>1. /\ UNCHANGED <<arrived, rx_cq_cntr, stage, rounds>>
        /\ rx_cq_cntr[s] = rx_seq[s]
        /\ step' = [step EXCEPT ![s] = "post"]
    BY <1>0, <1>2 DEF Receive, Continue
  <2>2. /\ step' \in [Sides -> Steps]
        /\ \A t \in Sides : step'[t] = IF t = s THEN "post" ELSE step[t]
    BY <2>1 DEF IInv, Typed, Steps
  <2>3. Typed' /\ FirstTag' /\ Numbered'
    BY <1>0, <2>1, <2>2 DEF IInv, Typed, FirstTag, Numbered, failed, lost
  <2>4. OneReceive'
    BY <1>0, <2>1, <2>2 DEF IInv, OneReceive
  <2> QED
    BY <2>3, <2>4 DEF IInv
<1> QED
  BY <1>1, <1>2
-----------------------------------------------------------------------------
\* What a side that is up sends is one of the labels.
LEMMA LabelIs ==
  ASSUME Typed, NEW s \in Sides, Up(s)
  PROVE  Label(stage[s]) \in Labels /\ stage[s] # "boot"
<1>1. stage[s] \in {"addr", "keys", "sync", "last", "loop"}
  BY DEF Up, Typed, Stages, Exchanges, Ended
<1> QED
  BY <1>1 DEF Label, Labels

\* Sending, in both outcomes.
LEMMA SendStep == IInv /\ (\E s \in Sides : Send(s) \/ SendFails(s)) => IInv'
<1> SUFFICES ASSUME IInv, NEW s \in Sides, Send(s) \/ SendFails(s)
             PROVE  IInv'
  OBVIOUS
<1>0. Typed /\ Label(stage[s]) \in Labels /\ stage[s] # "boot"
  BY LabelIs DEF IInv, Send, SendFails
<1>1. CASE Send(s)
  <2>1. Post(s, Label(stage[s])) /\ UNCHANGED <<kind, mode, receives, faults, losses>>
    BY <1>1 DEF Send, Quiet, fixed
  <2>2. Moved(s)
    BY <1>0, <1>1, AfterMoves DEF Send
  <2>3. faults' \in Nat /\ losses' \in Nat /\ (failed => failed') /\ (lost => lost')
    BY <1>0, <2>1 DEF Typed, failed, lost
  <2> QED
    BY <1>0, <2>1, <2>2, <2>3, PostStep
<1>2. CASE SendFails(s)
  <2>1. /\ Moved(s) /\ UNCHANGED <<kind, mode, receives, losses>>
        /\ faults' \in Nat /\ failed'
    BY <1>0, <1>2, AbandonMoves DEF SendFails
  <2>2. losses' \in Nat /\ (lost => lost')
    BY <1>0, <2>1 DEF Typed, lost
  <2>3. CASE Post(s, Label(stage[s]))
    BY <1>0, <2>1, <2>2, <2>3, PostStep
  <2>4. CASE UNCHANGED <<net, tx_seq>>
    BY <1>0, <2>1, <2>2, <2>4, IdleStep
  <2> QED
    BY <1>2, <2>3, <2>4 DEF SendFails
<1> QED
  BY <1>1, <1>2

\* A receive that fails is counted all the same; nothing else arrived then.
LEMMA ReceiveFailsStep == IInv /\ (\E s \in Sides : ReceiveFails(s)) => IInv'
<1> SUFFICES ASSUME IInv, NEW s \in Sides, ReceiveFails(s)
             PROVE  IInv'
  OBVIOUS
<1>0. /\ Moved(s) /\ UNCHANGED <<kind, mode, tx_seq, rx_seq, arrived, net, losses>>
      /\ faults' \in Nat /\ failed'
      /\ rx_cq_cntr' = [rx_cq_cntr EXCEPT ![s] = @ + 1]
      /\ rx_seq[s] - rx_cq_cntr[s] - Len(arrived[s]) > 0
  BY AbandonMoves DEF ReceiveFails, IInv, channels, Posted
<1>1. /\ rx_cq_cntr \in [Sides -> Nat] /\ rx_seq[s] \in Nat
      /\ arrived[s] \in Seq(AnyMessage) /\ Len(arrived[s]) \in Nat
      /\ rx_seq[s] <= rx_cq_cntr[s] + 1
  BY OneArrived DEF IInv, Typed, OneReceive
<1>2. arrived[s] = << >> /\ rx_seq[s] = rx_cq_cntr[s] + 1
  <2>1. arrived[s] # << >> => Len(arrived[s]) = 1 /\ rx_seq[s] = rx_cq_cntr[s] + 1
    BY OneArrived
  <2>2. arrived[s] = << >>
    BY <1>0, <1>1, <2>1
  <2>3. Len(arrived[s]) = 0
    BY <1>1, <2>2, EmptySeq
  <2> QED
    BY <1>0, <1>1, <2>2, <2>3
<1>3. \A t \in Sides : rx_cq_cntr'[t] = IF t = s THEN rx_seq[s] ELSE rx_cq_cntr[t]
  BY <1>0, <1>1, <1>2
<1>4. Typed'
  <2>1. rx_cq_cntr' \in [Sides -> Nat]
    BY <1>0, <1>1
  <2> QED
    BY <1>0, <2>1 DEF IInv, Typed, Moved
<1>5. OneReceive'
  <2>1. stage[s] # "boot"
    BY <1>1, <1>2 DEF IInv, OneReceive
  <2>2. rx_seq'[s] = rx_seq[s] /\ rx_cq_cntr'[s] = rx_seq[s] /\ Len(arrived'[s]) = 0
    BY <1>0, <1>2, <1>3, EmptySeq
  <2>3. ASSUME NEW t \in Sides
        PROVE  /\ rx_cq_cntr'[t] + Len(arrived'[t]) <= rx_seq'[t]
               /\ rx_seq'[t] <= rx_cq_cntr'[t] + 1
               /\ step'[t] = "post" => rx_cq_cntr'[t] = rx_seq'[t]
               /\ step'[t] = "rma" => kind' \in RmaKinds
               /\ stage'[t] = "boot" => step'[t] = "send" /\ rx_seq'[t] = 0 /\ rx_cq_cntr'[t] = 0
    <3>1. CASE t = s
      BY <1>0, <1>1, <2>2, <3>1 DEF Moved
    <3>2. CASE t # s
      BY <1>0, <1>3, <3>2 DEF IInv, OneReceive, Moved
    <3> QED
      BY <3>1, <3>2
  <2> QED
    BY <2>3 DEF OneReceive
<1>6. FirstTag'
  BY <1>0, <1>2, <1>3 DEF IInv, FirstTag
<1>7. Numbered'
  BY <1>0 DEF Numbered
<1> QED
  BY <1>4, <1>5, <1>6, <1>7 DEF IInv

\* The second half of rx().
LEMMA PostRxStep == IInv /\ (\E s \in Sides : PostRx(s)) => IInv'
<1> SUFFICES ASSUME IInv, NEW s \in Sides, PostRx(s)
             PROVE  IInv'
  OBVIOUS
<1>0. /\ step[s] = "post" /\ rx_seq' = [rx_seq EXCEPT ![s] = @ + 1]
      /\ UNCHANGED <<kind, mode, tx_seq, rx_cq_cntr, arrived, net, faults, losses>>
  BY DEF PostRx, Quiet, channels, fixed
<1>1. /\ Typed /\ stage[s] # "boot" /\ rx_cq_cntr[s] = rx_seq[s]
      /\ rx_seq \in [Sides -> Nat] /\ Len(arrived[s]) \in Nat
  BY <1>0, OneArrived DEF IInv, OneReceive, Typed
<1>2. Moved(s)
  BY <1>1, AfterMoves DEF PostRx
<1>3. \A t \in Sides : rx_seq'[t] = IF t = s THEN rx_cq_cntr[s] + 1 ELSE rx_seq[t]
  BY <1>0, <1>1
<1>4. Typed'
  <2>1. rx_seq' \in [Sides -> Nat]
    BY <1>0, <1>1
  <2> QED
    BY <1>0, <1>2, <2>1 DEF IInv, Typed, Moved
<1>5. OneReceive'
  <2>1. rx_cq_cntr[s] \in Nat /\ rx_cq_cntr[s] + Len(arrived[s]) <= rx_cq_cntr[s]
    BY <1>1 DEF IInv, Typed, OneReceive
  <2>2. ASSUME NEW t \in Sides
        PROVE  /\ rx_cq_cntr'[t] + Len(arrived'[t]) <= rx_seq'[t]
               /\ rx_seq'[t] <= rx_cq_cntr'[t] + 1
               /\ step'[t] = "post" => rx_cq_cntr'[t] = rx_seq'[t]
               /\ step'[t] = "rma" => kind' \in RmaKinds
               /\ stage'[t] = "boot" => step'[t] = "send" /\ rx_seq'[t] = 0 /\ rx_cq_cntr'[t] = 0
    <3>1. CASE t = s
      BY <1>0, <1>1, <1>2, <1>3, <2>1, <3>1 DEF Moved
    <3>2. CASE t # s
      BY <1>0, <1>2, <1>3, <3>2 DEF IInv, OneReceive, Moved
    <3> QED
      BY <3>1, <3>2
  <2> QED
    BY <2>2 DEF OneReceive
<1>6. FirstTag' /\ Numbered'
  BY <1>0 DEF IInv, FirstTag, Numbered, failed, lost
<1> QED
  BY <1>4, <1>5, <1>6 DEF IInv
\* Every call that fails without touching the fabric, and the wait that ends
\* without a completion.
LEMMA IdleFaults ==
  IInv /\ (\E s \in Sides : PostRxFails(s) \/ SockFails(s) \/ RmaFails(s)) => IInv'
<1> SUFFICES ASSUME IInv, NEW s \in Sides, PostRxFails(s) \/ SockFails(s) \/ RmaFails(s)
             PROVE  IInv'
  OBVIOUS
<1>1. Abandon(s) /\ UNCHANGED <<tx_seq, receives, net>>
  BY DEF PostRxFails, SockFails, RmaFails, channels
<1>2. /\ Moved(s) /\ faults' \in Nat /\ failed' /\ UNCHANGED <<kind, mode, losses>>
  BY <1>1, AbandonMoves DEF IInv
<1>3. stage[s] # "boot"
  BY DEF PostRxFails, SockFails, RmaFails, OverTcp, IInv, OneReceive
<1>4. losses' \in Nat /\ (lost => lost')
  BY <1>2 DEF IInv, Typed, lost
<1> QED
  BY <1>1, <1>2, <1>3, <1>4, IdleStep

LEMMA IdleWork ==
  IInv /\ (\E s \in Sides : \/ ReceiveTimesOut(s) \/ PeerGone(s)
                            \/ GoOn(s) \/ TimeUp(s) \/ ProcessEnds(s)) => IInv'
<1> SUFFICES ASSUME IInv, NEW s \in Sides,
                    \/ ReceiveTimesOut(s) \/ PeerGone(s)
                    \/ GoOn(s) \/ TimeUp(s) \/ ProcessEnds(s)
             PROVE  IInv'
  OBVIOUS
<1>1. UNCHANGED <<kind, mode, tx_seq, receives, net, faults, losses>>
  BY DEF ReceiveTimesOut, PeerGone, GoOn, TimeUp, ProcessEnds, Quiet, channels, fixed
<1>2. stage[s] # "boot"
  BY DEF ReceiveTimesOut, Up, PeerGone, OverTcp, GoOn, TimeUp, ProcessEnds, IInv, OneReceive
<1>3. Moved(s)
  <2>1. CASE ReceiveTimesOut(s) \/ PeerGone(s)
    BY <2>1, LeaveMoves DEF ReceiveTimesOut, PeerGone, IInv
  <2>2. CASE GoOn(s)
    BY <1>2, <2>2, FirstStepIs, ContinueMoves DEF GoOn, IInv
  <2>3. CASE TimeUp(s)
    BY <2>3, NextStageIs, GoToMoves DEF TimeUp, IInv
  <2>4. CASE ProcessEnds(s)
    BY <2>4, GoToMoves DEF ProcessEnds, IInv, Stages
  <2> QED
    BY <2>1, <2>2, <2>3, <2>4
<1>4. faults' \in Nat /\ losses' \in Nat /\ (failed => failed') /\ (lost => lost')
  BY <1>1 DEF IInv, Typed, failed, lost
<1> QED
  BY <1>1, <1>2, <1>3, <1>4, IdleStep

\* The out-of-band connection carries no numbers.
LEMMA SockStep == IInv /\ (\E s \in Sides : SockSend(s) \/ SockReceive(s)) => IInv'
<1> SUFFICES ASSUME IInv, NEW s \in Sides, SockSend(s) \/ SockReceive(s)
             PROVE  IInv'
  OBVIOUS
<1>1. UNCHANGED <<kind, mode, tx_seq, receives, net, faults, losses>>
  BY DEF SockSend, SockReceive, Quiet, fixed
<1>2. stage[s] # "boot"
  BY DEF SockSend, SockReceive, OverTcp
<1>3. AfterSend(s) \/ AfterReceive(s) \/ UNCHANGED control
  BY DEF SockSend, SockReceive, NextPart
<1>4. faults' \in Nat /\ losses' \in Nat /\ (failed => failed') /\ (lost => lost')
  BY <1>1 DEF IInv, Typed, failed, lost
<1>5. CASE AfterSend(s) \/ AfterReceive(s)
  <2>1. Moved(s)
    BY <1>2, <1>5, AfterMoves DEF IInv
  <2> QED
    BY <1>1, <1>2, <1>4, <2>1, IdleStep
<1>6. CASE UNCHANGED control
  BY <1>1, <1>6, StillStep
<1> QED
  BY <1>3, <1>5, <1>6

\* No operation of the RMA benchmarks is tagged.
LEMMA RmaStep == IInv /\ (\E s \in Sides : Rma(s)) => IInv'
<1> SUFFICES ASSUME IInv, NEW s \in Sides, Rma(s)
             PROVE  IInv'
  OBVIOUS
<1>1. stage[s] # "boot" /\ UNCHANGED <<kind, mode, receives, faults, losses>>
  BY DEF Rma, Quiet, fixed
<1>2. Moved(s)
  BY <1>1, FinishMoves DEF Rma, IInv
<1>3. faults' \in Nat /\ losses' \in Nat /\ (failed => failed') /\ (lost => lost')
  BY <1>1 DEF IInv, Typed, failed, lost
<1>4. CASE mode = "writedata"
  <2>1. Post(s, "data") /\ "data" \in Labels
    BY <1>4 DEF Rma, Labels
  <2> QED
    BY <1>1, <1>2, <1>3, <2>1, PostStep
<1>5. CASE mode # "writedata"
  <2>1. tx_seq' = [tx_seq EXCEPT ![s] = @ + 1] /\ net' = net
    BY <1>5 DEF Rma
  <2>2. mode # "tagged"
    BY DEF Rma, IInv, Typed, OneReceive
  <2>3. tx_seq' \in [Sides -> Nat]
    BY <2>1 DEF IInv, Typed
  <2>4. Typed'
    BY <1>1, <1>2, <1>3, <2>1, <2>3 DEF IInv, Typed, Moved, receives
  <2>5. OneReceive'
    BY <1>1, <1>2 DEF IInv, OneReceive, Moved, receives
  <2>6. FirstTag' /\ Numbered'
    BY <1>1, <2>2 DEF FirstTag, Numbered
  <2> QED
    BY <2>4, <2>5, <2>6 DEF IInv
<1> QED
  BY <1>4, <1>5
-----------------------------------------------------------------------------
\* A message finds its receive.  Among the messages that carry the number
\* asked for it is the first; as long as nothing failed or was lost, it is the
\* first of all.
LEMMA DeliverStep == IInv /\ (\E s \in Sides : Deliver(s)) => IInv'
<1> SUFFICES ASSUME IInv, NEW s \in Sides, Deliver(s)
             PROVE  IInv'
  OBVIOUS
<1>0. UNCHANGED <<kind, mode, stage, step, rounds, tx_seq, rx_seq, rx_cq_cntr, faults, losses>>
  BY DEF Deliver, Quiet, control, fixed
<1>1. PICK first \in Matching(s) :
        /\ arrived' = [arrived EXCEPT ![s] = Append(@, net[s][first])]
        /\ net' = [net EXCEPT ![s] = RemoveAt(@, first)]
  BY DEF Deliver
<1>2. /\ net \in [Sides -> Seq(AnyMessage)] /\ arrived \in [Sides -> Seq(AnyMessage)]
      /\ rx_cq_cntr[s] \in Nat /\ rx_seq[s] \in Nat
  BY DEF IInv, Typed
<1>3. /\ first \in 1..Len(net[s])
      /\ mode = "tagged" => net[s][first].tag = rx_seq[s] - 1
  BY <1>2, LenProperties DEF Matching
<1>4. arrived[s] = << >> /\ Len(arrived[s]) = 0 /\ rx_seq[s] = rx_cq_cntr[s] + 1
  <2>1. rx_seq[s] - rx_cq_cntr[s] - Len(arrived[s]) > 0
    BY DEF Deliver, Posted
  <2>2. arrived[s] # << >> => Len(arrived[s]) = 1 /\ rx_seq[s] = rx_cq_cntr[s] + 1
    BY OneArrived
  <2>3. arrived[s] = << >>
    BY <1>2, <2>1, <2>2
  <2>4. Len(arrived[s]) = 0
    BY <1>2, <2>3, EmptySeq
  <2>5. rx_seq[s] <= rx_cq_cntr[s] + 1
    BY DEF IInv, OneReceive
  <2> QED
    BY <1>2, <2>1, <2>3, <2>4, <2>5
<1> DEFINE m == net[s][first]
           rest == RemoveAt(net[s], first)
<1>5. m \in AnyMessage
  BY <1>2, <1>3, ElementOfSeq
<1>6. /\ rest \in Seq(AnyMessage) /\ Len(rest) = Len(net[s]) - 1
      /\ \A j \in 1..(Len(net[s]) - 1) :
            rest[j] = IF j < first THEN net[s][j] ELSE net[s][j + 1]
  BY <1>2, <1>3, RemoveAtLeaves
<1>7. /\ Append(arrived[s], m) \in Seq(AnyMessage)
      /\ Len(Append(arrived[s], m)) = 1
      /\ Append(arrived[s], m)[1] = m
  BY <1>2, <1>4, <1>5, AppendProperties
<1> HIDE DEF rest
<1>8. /\ net'[s] = rest /\ \A t \in Sides \ {s} : net'[t] = net[t]
      /\ arrived'[s] = Append(arrived[s], m)
      /\ \A t \in Sides \ {s} : arrived'[t] = arrived[t]
  BY <1>1, <1>2 DEF rest
<1>9. /\ net' \in [Sides -> Seq(AnyMessage)]
      /\ arrived' \in [Sides -> Seq(AnyMessage)]
  BY <1>1, <1>2, <1>6, <1>7 DEF rest
<1> HIDE DEF m
<1>10. Len(arrived'[s]) = 1 /\ arrived'[s][1] = m
  BY <1>7, <1>8
<1>11. Typed'
  BY <1>0, <1>9 DEF IInv, Typed
<1>12. OneReceive'
  <2>1. stage[s] # "boot"
    BY DEF Deliver, Up
  <2>2. step[s] # "post"
    BY <1>2, <1>4 DEF IInv, OneReceive
  <2>3. ASSUME NEW t \in Sides
        PROVE  /\ rx_cq_cntr'[t] + Len(arrived'[t]) <= rx_seq'[t]
               /\ rx_seq'[t] <= rx_cq_cntr'[t] + 1
               /\ step'[t] = "post" => rx_cq_cntr'[t] = rx_seq'[t]
               /\ step'[t] = "rma" => kind' \in RmaKinds
               /\ stage'[t] = "boot" => step'[t] = "send" /\ rx_seq'[t] = 0 /\ rx_cq_cntr'[t] = 0
    <3>1. CASE t = s
      BY <1>0, <1>2, <1>4, <1>10, <2>1, <2>2, <3>1 DEF IInv, OneReceive
    <3>2. CASE t # s
      BY <1>0, <1>8, <3>2 DEF IInv, OneReceive
    <3> QED
      BY <3>1, <3>2
  <2> QED
    BY <2>3 DEF OneReceive
<1>13. FirstTag'
  <2> SUFFICES ASSUME mode = "tagged", NEW t \in Sides, arrived'[t] # << >>
               PROVE  arrived'[t][1].tag = rx_cq_cntr[t]
    BY <1>0 DEF FirstTag
  <2>1. CASE t = s
    <3>1. m.tag = rx_seq[s] - 1
      BY <1>3 DEF m
    <3> QED
      BY <1>2, <1>4, <1>10, <2>1, <3>1
  <2>2. CASE t # s
    BY <1>8, <2>2 DEF IInv, FirstTag
  <2> QED
    BY <2>1, <2>2
<1>14. Numbered'
  <2> SUFFICES ASSUME mode = "tagged", ~ failed, ~ lost
               PROVE  \A u \in Sides :
                  /\ tx_seq[Peer(u)] = rx_cq_cntr[u] + Len(arrived'[u]) + Len(net'[u])
                  /\ \A i \in 1..Len(net'[u]) :
                        \/ net'[u][i].tag = rx_cq_cntr[u] + Len(arrived'[u]) + i - 1
                        \/ kind = "selective" /\ net'[u][i].tag = NoTag
    BY <1>0 DEF Numbered, failed, lost
  <2>1. \A u \in Sides :
          /\ tx_seq[Peer(u)] = rx_cq_cntr[u] + Len(arrived[u]) + Len(net[u])
          /\ \A i \in 1..Len(net[u]) :
                \/ net[u][i].tag = rx_cq_cntr[u] + Len(arrived[u]) + i - 1
                \/ kind = "selective" /\ net[u][i].tag = NoTag
    BY DEF IInv, Numbered
  <2>2. Len(net[s]) \in Nat
    BY <1>2, LenProperties
  <2>3. first = 1
    <3>1. net[s][first].tag = rx_cq_cntr[s]
      BY <1>2, <1>3, <1>4
    <3>2. net[s][first].tag # NoTag
      BY <1>2, <3>1 DEF NoTag
    <3>3. net[s][first].tag = rx_cq_cntr[s] + 0 + first - 1
      BY <1>3, <1>4, <2>1, <3>2
    <3>4. first \in Nat
      BY <1>3, <2>2
    <3> QED
      BY <1>2, <3>1, <3>3, <3>4
  <2>4. tx_seq[Peer(s)] = rx_cq_cntr[s] + Len(arrived'[s]) + Len(net'[s])
    <3>1. tx_seq[Peer(s)] = rx_cq_cntr[s] + 0 + Len(net[s])
      BY <1>4, <2>1
    <3>2. Len(arrived'[s]) = 1 /\ Len(net'[s]) = Len(net[s]) - 1
      BY <1>6, <1>8, <1>10
    <3>3. \A c, n \in Nat : c + 0 + n = c + 1 + (n - 1)
      OBVIOUS
    <3>4. rx_cq_cntr[s] + 0 + Len(net[s]) = rx_cq_cntr[s] + 1 + (Len(net[s]) - 1)
      BY <1>2, <2>2, <3>3
    <3> QED
      BY <3>1, <3>2, <3>4
  <2>5. ASSUME NEW i \in 1..Len(net'[s])
        PROVE  \/ net'[s][i].tag = rx_cq_cntr[s] + Len(arrived'[s]) + i - 1
               \/ kind = "selective" /\ net'[s][i].tag = NoTag
    <3>1. i \in 1..(Len(net[s]) - 1) /\ i \in Nat /\ i + 1 \in 1..Len(net[s])
      BY <1>6, <1>8, <2>2
    <3>2. net'[s][i] = net[s][i + 1]
      BY <1>6, <1>8, <2>3, <3>1
    <3>3. \/ net[s][i + 1].tag = rx_cq_cntr[s] + 0 + (i + 1) - 1
          \/ kind = "selective" /\ net[s][i + 1].tag = NoTag
      BY <1>4, <2>1, <3>1
    <3>4. rx_cq_cntr[s] + 0 + (i + 1) - 1 = rx_cq_cntr[s] + Len(arrived'[s]) + i - 1
      BY <1>2, <1>10, <3>1
    <3> QED
      BY <3>2, <3>3, <3>4
  <2>6. ASSUME NEW u \in Sides, u # s
        PROVE  arrived'[u] = arrived[u] /\ net'[u] = net[u]
    BY <1>8, <2>6
  <2> QED
    BY <2>1, <2>4, <2>5, <2>6
<1> QED
  BY <1>11, <1>12, <1>13, <1>14 DEF IInv

\* A message is lost: the numbers agree no more, the tags still do.
LEMMA LoseStep == IInv /\ (\E s \in Sides : Lose(s)) => IInv'
<1> SUFFICES ASSUME IInv, NEW s \in Sides, Lose(s)
             PROVE  IInv'
  OBVIOUS
<1>0. /\ UNCHANGED <<kind, mode, control, tx_seq, receives, faults>>
      /\ losses' = losses + 1
  BY DEF Lose, fixed
<1>1. PICK i \in DOMAIN net[s] : net' = [net EXCEPT ![s] = RemoveAt(@, i)]
  BY DEF Lose
<1>2. net \in [Sides -> Seq(AnyMessage)] /\ losses \in Nat
  BY DEF IInv, Typed
<1>3. i \in 1..Len(net[s])
  BY <1>2, LenProperties
<1>4. RemoveAt(net[s], i) \in Seq(AnyMessage)
  BY <1>2, <1>3, RemoveAtLeaves
<1>5. net' \in [Sides -> Seq(AnyMessage)] /\ losses' \in Nat /\ lost'
  BY <1>0, <1>1, <1>2, <1>4 DEF lost
<1>6. Typed' /\ OneReceive' /\ FirstTag' /\ Numbered'
  BY <1>0, <1>5 DEF IInv, Typed, OneReceive, FirstTag, Numbered, control, receives
<1> QED
  BY <1>6 DEF IInv
-----------------------------------------------------------------------------
LEMMA InitIInv == Init => IInv
<1> SUFFICES ASSUME Init
             PROVE  IInv
  OBVIOUS
<1>0. << >> \in Seq(AnyMessage) /\ Len(<< >>) = 0
  BY EmptySeq
<1>1. Typed
  BY <1>0, SessionAssumption
  DEF Init, Typed, Stages, Exchanges, Steps
<1>2. OneReceive
  BY <1>0 DEF Init, OneReceive
<1>3. FirstTag
  BY DEF Init, FirstTag
<1>4. Numbered
  BY <1>0, TwoSides DEF Init, Numbered
<1> QED
  BY <1>1, <1>2, <1>3, <1>4 DEF IInv

LEMMA NextIInv == IInv /\ [Next]_vars => IInv'
<1> SUFFICES ASSUME IInv, [Next]_vars
             PROVE  IInv'
  OBVIOUS
<1>1. CASE \E s \in Sides : Work(s)
  BY <1>1, EnableStep, SendStep, ReceiveStep, PostRxStep, SockStep, RmaStep, IdleWork
  DEF Work
<1>2. CASE \E s \in Sides : Fault(s)
  BY <1>2, SendStep, ReceiveFailsStep, IdleFaults DEF Fault
<1>3. CASE \E s \in Sides : Deliver(s) \/ Lose(s)
  BY <1>3, DeliverStep, LoseStep
<1>4. CASE UNCHANGED vars
  BY <1>4, StillStep DEF vars, control, receives
<1> QED
  BY <1>1, <1>2, <1>3, <1>4 DEF Next, Terminated

\* The invariant of every session.
LEMMA Inductive == Spec => []IInv
  BY InitIInv, NextIInv, PTL DEF Spec

\* What has arrived and what is on its way, in one sequence, is what TagsAgree
\* speaks of.
LEMMA TagsAgreeFollows == IInv => TagsAgree
<1> SUFFICES ASSUME IInv, mode = "tagged", NEW s \in Sides
             PROVE  /\ arrived[s] # << >> => Head(arrived[s]).tag = rx_cq_cntr[s]
                    /\ ~ failed /\ ~ lost =>
                       /\ tx_seq[Peer(s)] = rx_cq_cntr[s] + Len(arrived[s] \o net[s])
                       /\ \A i \in DOMAIN (arrived[s] \o net[s]) :
                             (arrived[s] \o net[s])[i].tag \in
                                {rx_cq_cntr[s] + i - 1} \cup
                                IF kind = "selective" THEN {NoTag} ELSE {}
  BY DEF TagsAgree
<1> DEFINE coming == arrived[s] \o net[s]
           a == Len(arrived[s])
           n == Len(net[s])
<1>0. /\ arrived[s] \in Seq(AnyMessage) /\ net[s] \in Seq(AnyMessage)
      /\ a \in Nat /\ n \in Nat /\ rx_cq_cntr[s] \in Nat
  BY LenProperties DEF IInv, Typed
<1>1. /\ coming \in Seq(AnyMessage) /\ Len(coming) = a + n /\ DOMAIN coming = 1..(a + n)
      /\ \A i \in 1..(a + n) :
            coming[i] = IF i <= a THEN arrived[s][i] ELSE net[s][i - a]
  <2>1. /\ coming \in Seq(AnyMessage) /\ Len(coming) = a + n
        /\ \A i \in 1..(a + n) :
              coming[i] = IF i <= a THEN arrived[s][i] ELSE net[s][i - a]
    BY <1>0, ConcatProperties
  <2>2. DOMAIN coming = 1..Len(coming)
    BY <2>1, LenProperties
  <2> QED
    BY <2>1, <2>2
<1>2. arrived[s] # << >> => Head(arrived[s]).tag = rx_cq_cntr[s]
  BY TagIsDue
<1> HIDE DEF coming
<1>3. ASSUME ~ failed, ~ lost
      PROVE  /\ tx_seq[Peer(s)] = rx_cq_cntr[s] + Len(coming)
             /\ \A i \in DOMAIN coming :
                   coming[i].tag \in {rx_cq_cntr[s] + i - 1} \cup
                      IF kind = "selective" THEN {NoTag} ELSE {}
  <2>1. /\ tx_seq[Peer(s)] = rx_cq_cntr[s] + a + n
        /\ \A i \in 1..n :
              \/ net[s][i].tag = rx_cq_cntr[s] + a + i - 1
              \/ kind = "selective" /\ net[s][i].tag = NoTag
    BY <1>3 DEF IInv, Numbered
  <2>2. a > 0 => a = 1 /\ arrived[s][1].tag = rx_cq_cntr[s]
    <3>1. arrived[s] = << >> => a = 0
      BY EmptySeq
    <3>2. arrived[s] # << >> => a = 1
      BY OneArrived
    <3> QED
      BY <1>0, <3>1, <3>2 DEF IInv, FirstTag
  <2> HIDE DEF a, n
  <2>3. tx_seq[Peer(s)] = rx_cq_cntr[s] + Len(coming)
    BY <1>0, <1>1, <2>1
  <2>4. ASSUME NEW i \in 1..(a + n)
        PROVE  \/ coming[i].tag = rx_cq_cntr[s] + i - 1
               \/ kind = "selective" /\ coming[i].tag = NoTag
    <3>1. CASE i <= a
      <4>1. i = 1 /\ a = 1
        BY <1>0, <2>2, <3>1
      <4> QED
        BY <1>0, <1>1, <2>2, <4>1
    <3>2. CASE ~ (i <= a)
      <4>1. i - a \in 1..n /\ coming[i] = net[s][i - a]
        BY <1>0, <1>1, <3>2
      <4>2. rx_cq_cntr[s] + a + (i - a) - 1 = rx_cq_cntr[s] + i - 1
        BY <1>0
      <4> QED
        BY <2>1, <4>1, <4>2
    <3> QED
      BY <3>1, <3>2
  <2> QED
    BY <1>1, <2>3, <2>4
<1> QED
  BY <1>2, <1>3 DEF coming

(***************************************************************************)
(* With --tagged no side is ever given a message of another number than    *)
(* the one due, in any benchmark, whatever fails or is lost, although      *)
(* ft_tag_is_valid (shared.c:2430) would accept the numbers around it; and *)
(* as long as nothing is, the messages to a side are numbered as it will   *)
(* ask for them.                                                           *)
(***************************************************************************)
THEOREM TagsAgreeHolds == Spec => []TagsAgree
  BY Inductive, TagsAgreeFollows, PTL

\* "Tag mismatch!" (shared.c:2440) would be reported.
Mismatch(s) ==
    arrived[s] # << >> /\ ~ ft_tag_is_valid(Head(arrived[s]), rx_cq_cntr[s])

(***************************************************************************)
(* So the test of ft_tag_is_valid never fails, whatever the size of its    *)
(* window: no rx() ends with -FI_EOTHER for a tag.                         *)
(***************************************************************************)
THEOREM NoMismatchReported == Spec => [](\A s \in Sides : ~ Mismatch(s))
<1>1. IInv => \A s \in Sides : ~ Mismatch(s)
  BY TagValid DEF Mismatch
<1> QED
  BY <1>1, Inductive, PTL
-----------------------------------------------------------------------------
(***************************************************************************)
(* The bounds of TypeOK.  A side posts one message at most in each of its  *)
(* four exchanges and in each round, whether its calls succeed or fail     *)
(* (Most); what it has posted in the exchange it is in shows in where it   *)
(* is.                                                                     *)
(***************************************************************************)
Behind(st) == CASE st \in {"boot", "addr"} -> 0
                [] st = "keys" -> 1
                [] st = "sync" -> 2
                [] st \in {"loop", "last"} -> 3
                [] OTHER -> 4

Most(s) ==
    Behind(stage[s]) + rounds[s]
    + IF stage[s] \notin Ended /\ step[s] \in {"recv", "post"} /\ SendsFirst(s) THEN 1 ELSE 0

Within(s) ==
    /\ rounds[s] \in 0..Rounds
    /\ stage[s] \in {"boot", "addr", "keys", "sync"} => rounds[s] = 0
    /\ stage[s] = "loop" /\ step[s] # "clock" => rounds[s] < Rounds
    /\ step[s] = "clock" => stage[s] = "loop"
    /\ step[s] = "post" => Up(s) /\ ~ OverTcp(s)
    /\ tx_seq[s] <= Most(s)

\* Only an address has parts.
Parted(s) == part[s] = 1 => oob /\ stage[s] = "addr" /\ step[s] \in {"send", "recv"}

Bounds ==
    /\ oob \in BOOLEAN
    /\ timeout \in [Sides -> {-1, 0}]
    /\ part \in [Sides -> 0..1]
    /\ tcp \in [Sides -> Seq(Labels)]
    /\ arrived \in [Sides -> Seq(Messages)]
    /\ net \in [Sides -> Seq(Messages)]
    /\ faults + losses <= MaxFaults
    /\ \A s \in Sides : Within(s) /\ Parted(s)

-----------------------------------------------------------------------------
\* A side goes from one part of its worker to a later one, with at most one
\* message more than it had behind it.
LEMMA GoToWithin ==
  ASSUME Typed, NEW s \in Sides, Within(s), NEW st, GoTo(s, st),
         \/ stage[s] \in Exchanges \cup {"loop"} /\ st = NextStage(s)
         \/ stage[s] = "loop" /\ st = "closed"
         \/ stage[s] = "closed" /\ st = "exited"
         \/ stage[s] = "boot" /\ st = "addr",
         tx_seq'[s] \in Nat, tx_seq'[s] <= Behind(st) + rounds[s], UNCHANGED <<kind, oob>>
  PROVE  Within(s)'
<1>1. /\ stage'[s] = st /\ step'[s] = FirstStep(s, st) /\ rounds'[s] = rounds[s]
      /\ rounds[s] \in Nat /\ Rounds \in Nat \ {0}
  BY SessionAssumption DEF GoTo, Typed, SessionAssumption
<1>2. step'[s] \notin {"clock", "post"}
  BY <1>1, FirstStepIs
<1>3. /\ Behind(st) \in Nat
      /\ Most(s)' \in Nat /\ Behind(st) + rounds[s] <= Most(s)'
  BY <1>1 DEF Most, Behind
<1>4. st # "boot" /\ (st \in {"addr", "keys", "sync", "loop"} => rounds[s] = 0)
  BY DEF Within, Exchanges, NextStage
<1>5. tx_seq'[s] <= Most(s)'
  BY <1>1, <1>3
<1>6. rounds[s] \in 0..Rounds /\ (rounds[s] = 0 => rounds[s] < Rounds)
  BY <1>1 DEF Within
<1> QED
  BY <1>1, <1>2, <1>4, <1>5, <1>6 DEF Within

LEMMA FinishWithin ==
  ASSUME Typed, NEW s \in Sides, Within(s), Finish(s), UNCHANGED <<kind, oob>>,
         stage[s] \in Exchanges \cup {"loop"}, step[s] # "clock",
         tx_seq'[s] \in Nat, tx_seq'[s] <= Behind(stage[s]) + rounds[s] + 1
  PROVE  Within(s)'
<1>1. rounds[s] \in Nat /\ Rounds \in Nat \ {0}
  BY SessionAssumption DEF Typed, SessionAssumption
<1>2. CASE stage[s] = "loop"
  <2>1. stage'[s] = "loop" /\ step'[s] = "clock" /\ rounds'[s] = rounds[s] + 1
    BY <1>2 DEF Finish, Typed
  <2>2. rounds[s] < Rounds
    BY <1>2 DEF Within
  <2>3. Most(s)' = 3 + (rounds[s] + 1) /\ Behind(stage[s]) = 3
    BY <1>1, <1>2, <2>1 DEF Most, Behind
  <2> QED
    BY <1>1, <2>1, <2>2, <2>3 DEF Within
<1>3. CASE stage[s] # "loop"
  <2>1. GoTo(s, NextStage(s))
    BY <1>3 DEF Finish
  <2>2. Behind(NextStage(s)) \in Nat /\ Behind(NextStage(s)) >= Behind(stage[s]) + 1
    BY <1>3 DEF Behind, NextStage, Exchanges
  <2>3. Behind(stage[s]) \in Nat
    BY DEF Behind
  <2>4. tx_seq'[s] <= Behind(NextStage(s)) + rounds[s]
    BY <1>1, <2>2, <2>3
  <2> QED
    BY <2>1, <2>4, GoToWithin
<1> QED
  BY <1>2, <1>3

LEMMA LeaveWithin ==
  ASSUME Typed, NEW s \in Sides, Within(s), Leave(s), UNCHANGED <<kind, oob>>,
         stage[s] \in Exchanges \cup {"loop"}, step[s] # "clock",
         tx_seq'[s] \in Nat, tx_seq'[s] <= Behind(stage[s]) + rounds[s] + 1
  PROVE  Within(s)'
<1>1. rounds[s] \in Nat
  BY DEF Typed
<1>2. CASE stage[s] = "loop"
  <2>1. GoTo(s, "closed")
    BY <1>2 DEF Leave
  <2>2. Behind(stage[s]) = 3 /\ Behind("closed") = 4
    BY <1>2 DEF Behind
  <2>3. tx_seq'[s] <= Behind("closed") + rounds[s]
    BY <1>1, <2>2
  <2> QED
    BY <1>2, <2>1, <2>3, GoToWithin
<1>3. CASE stage[s] # "loop"
  BY <1>3, FinishWithin DEF Leave, Finish
<1> QED
  BY <1>2, <1>3

\* A side that is up is in an exchange or in the loop.
LEMMA UpIs ==
  ASSUME Typed, NEW s \in Sides, Up(s) \/ OverTcp(s)
  PROVE  stage[s] \in Exchanges \cup {"loop"} /\ stage[s] \notin Ended /\ stage[s] # "boot"
BY DEF Up, OverTcp, Typed, Stages, Exchanges, Ended

\* What a side has posted before it sends, and before it receives.
LEMMA PostedSoFar ==
  ASSUME Typed, NEW s \in Sides, Within(s)
  PROVE  /\ tx_seq[s] \in Nat /\ rounds[s] \in Nat /\ Behind(stage[s]) \in Nat
         /\ tx_seq[s] <= Behind(stage[s]) + rounds[s] + 1
         /\ step[s] \notin {"recv", "post"} \/ ~ SendsFirst(s) =>
               tx_seq[s] <= Behind(stage[s]) + rounds[s]
<1>1. tx_seq[s] \in Nat /\ rounds[s] \in Nat /\ Behind(stage[s]) \in Nat
  BY DEF Typed, Behind
<1> QED
  BY <1>1 DEF Within, Most

LEMMA AfterSendWithin ==
  ASSUME Typed, NEW s \in Sides, Within(s), AfterSend(s), UNCHANGED <<kind, oob>>,
         stage[s] \in Exchanges \cup {"loop"}, step[s] = "send",
         tx_seq'[s] \in Nat, tx_seq'[s] <= tx_seq[s] + 1
  PROVE  Within(s)'
<1>1. /\ tx_seq[s] \in Nat /\ rounds[s] \in Nat /\ Behind(stage[s]) \in Nat
      /\ tx_seq[s] <= Behind(stage[s]) + rounds[s]
  BY PostedSoFar
<1>2. tx_seq'[s] <= Behind(stage[s]) + rounds[s] + 1
  BY <1>1
<1>3. CASE Finish(s)
  BY <1>2, <1>3, FinishWithin
<1>4. CASE SendsFirst(s) /\ Continue(s, "recv")
  <2>1. stage'[s] = stage[s] /\ rounds'[s] = rounds[s] /\ step'[s] = "recv" /\ SendsFirst(s)'
    BY <1>4 DEF Continue, Typed, SendsFirst, FirstStep
  <2>2. stage[s] \notin Ended
    BY DEF Ended, Exchanges
  <2>3. Most(s)' = Behind(stage[s]) + rounds[s] + 1
    BY <2>1, <2>2 DEF Most
  <2> QED
    BY <1>2, <2>1, <2>3 DEF Within
<1> QED
  BY <1>3, <1>4 DEF AfterSend

LEMMA AfterReceiveWithin ==
  ASSUME Typed, NEW s \in Sides, Within(s), AfterReceive(s), UNCHANGED <<kind, oob>>,
         stage[s] \in Exchanges \cup {"loop"}, step[s] \in {"recv", "post"},
         tx_seq'[s] = tx_seq[s]
  PROVE  Within(s)'
<1>1. /\ tx_seq[s] \in Nat /\ rounds[s] \in Nat /\ Behind(stage[s]) \in Nat
      /\ tx_seq[s] <= Behind(stage[s]) + rounds[s] + 1
      /\ ~ SendsFirst(s) => tx_seq[s] <= Behind(stage[s]) + rounds[s]
  BY PostedSoFar
<1>2. CASE Finish(s)
  BY <1>1, <1>2, FinishWithin
<1>3. CASE ~ SendsFirst(s) /\ Continue(s, "send")
  <2>1. stage'[s] = stage[s] /\ rounds'[s] = rounds[s] /\ step'[s] = "send"
    BY <1>3 DEF Continue, Typed
  <2>2. Most(s)' = Behind(stage[s]) + rounds[s]
    BY <1>1, <2>1 DEF Most
  <2> QED
    BY <1>1, <1>3, <2>1, <2>2 DEF Within
<1> QED
  BY <1>2, <1>3 DEF AfterReceive

-----------------------------------------------------------------------------
\* What a step of a side's own program does to its numbers.
LEMMA WorkWithin ==
  ASSUME IInv, NEW s \in Sides, Within(s), Work(s)
  PROVE  Within(s)'
<1>0. /\ Typed /\ UNCHANGED <<kind, oob>> /\ stage \in [Sides -> Stages] /\ step \in [Sides -> Steps]
      /\ rounds \in [Sides -> Nat] /\ tx_seq \in [Sides -> Nat] /\ rounds[s] \in Nat /\ tx_seq[s] \in Nat
  BY DEF IInv, Typed, Work, Enable, Send, Receive, ReceiveTimesOut, PostRx, SockSend, SockReceive,
         PeerGone, Rma, GoOn, TimeUp, ProcessEnds, Quiet, fixed
<1>b. UNCHANGED fixed
  BY DEF Work, Enable, Send, Receive, ReceiveTimesOut, PostRx, SockSend, SockReceive,
     PeerGone, Rma, GoOn, TimeUp, ProcessEnds, Quiet
<1>a. tx_seq' = tx_seq /\ UNCHANGED control => Within(s)'
  BY <1>b DEF fixed, control, Within, Most, SendsFirst, FirstStep, Up, OverTcp
<1>1. CASE Enable(s)
  <2>1. /\ stage[s] = "boot" /\ step[s] = "send" /\ GoTo(s, "addr") /\ tx_seq'[s] = tx_seq[s]
    BY <1>1 DEF Enable, IInv, OneReceive
  <2>2. tx_seq[s] <= Behind("addr") + rounds[s]
    BY <1>0, <2>1, PostedSoFar DEF Behind
  <2> QED
    BY <1>0, <2>1, <2>2, GoToWithin
<1>2. CASE Send(s) \/ SockSend(s)
  <2>1. /\ stage[s] \in Exchanges \cup {"loop"} /\ step[s] = "send"
        /\ AfterSend(s) \/ (tx_seq' = tx_seq /\ UNCHANGED control)
    BY <1>0, <1>2, UpIs DEF Send, SockSend, NextPart
  <2>2. tx_seq'[s] \in Nat /\ tx_seq'[s] <= tx_seq[s] + 1
    BY <1>0, <1>2 DEF Send, Post, SockSend
  <2>3. CASE AfterSend(s)
    BY <1>0, <2>1, <2>2, <2>3, AfterSendWithin
  <2>4. CASE tx_seq' = tx_seq /\ UNCHANGED control
    BY <1>a, <2>4
  <2> QED
    BY <2>1, <2>3, <2>4
<1>3. CASE PostRx(s) \/ SockReceive(s)
  <2>1. stage[s] \in Exchanges \cup {"loop"} /\ step[s] \in {"recv", "post"}
    BY <1>0, <1>3, UpIs DEF PostRx, SockReceive, Within
  <2>2. tx_seq' = tx_seq /\ (AfterReceive(s) \/ UNCHANGED control)
    BY <1>3 DEF PostRx, SockReceive, NextPart
  <2>3. CASE AfterReceive(s)
    BY <1>0, <2>1, <2>2, <2>3, AfterReceiveWithin
  <2>4. CASE UNCHANGED control
    BY <1>a, <2>2, <2>4
  <2> QED
    BY <2>2, <2>3, <2>4
<1>4. CASE Receive(s)
  <2>1. /\ stage[s] \in Exchanges \cup {"loop"} /\ step[s] = "recv" /\ tx_seq' = tx_seq
        /\ Up(s) /\ ~ OverTcp(s)
    BY <1>0, <1>4, UpIs DEF Receive
  <2>2. PICK p \in {"post", "recv"} : Continue(s, p)
    BY <1>4, TagValid DEF Receive
  <2>3. /\ stage'[s] = stage[s] /\ rounds'[s] = rounds[s] /\ step'[s] \in {"post", "recv"}
        /\ Up(s)' /\ ~ OverTcp(s)'
    BY <1>0, <2>1, <2>2 DEF Continue, Up, OverTcp
  <2>4. Most(s)' = Most(s)
    BY <1>0, <2>1, <2>3 DEF Most, SendsFirst, FirstStep
  <2> QED
    BY <1>0, <2>1, <2>3, <2>4 DEF Within
<1>5. CASE ReceiveTimesOut(s) \/ PeerGone(s)
  <2>1. /\ stage[s] \in Exchanges \cup {"loop"} /\ step[s] = "recv" /\ tx_seq' = tx_seq
        /\ Leave(s)
    BY <1>0, <1>5, UpIs DEF ReceiveTimesOut, PeerGone
  <2> QED
    BY <1>0, <2>1, LeaveWithin, PostedSoFar
<1>6. CASE Rma(s)
  <2>1. /\ stage[s] = "loop" /\ step[s] = "rma" /\ Finish(s)
        /\ tx_seq'[s] = tx_seq[s] + 1
    BY <1>0, <1>6 DEF Rma, Post
  <2>2. tx_seq'[s] <= Behind(stage[s]) + rounds[s] + 1
    BY <1>0, <2>1, PostedSoFar
  <2> QED
    BY <1>0, <2>1, <2>2, FinishWithin
<1>7. CASE GoOn(s)
  <2>1. /\ step[s] = "clock" /\ rounds[s] < Rounds /\ tx_seq' = tx_seq
        /\ Continue(s, FirstStep(s, "loop")) /\ stage[s] = "loop"
    BY <1>7 DEF GoOn, Within
  <2>2. stage'[s] = "loop" /\ rounds'[s] = rounds[s] /\ step'[s] \in {"send", "recv", "rma"}
    BY <1>0, <2>1, FirstStepIs DEF Continue
  <2>3. tx_seq[s] <= 3 + rounds[s]
    BY <1>0, <2>1, PostedSoFar DEF Behind
  <2>4. Most(s)' \in Nat /\ 3 + rounds[s] <= Most(s)'
    BY <1>0, <2>2 DEF Most, Behind
  <2> QED
    BY <1>0, <2>1, <2>2, <2>3, <2>4 DEF Within
<1>8. CASE TimeUp(s) \/ ProcessEnds(s)
  <2>1. /\ tx_seq' = tx_seq
        /\ \/ stage[s] = "loop" /\ step[s] = "clock" /\ GoTo(s, NextStage(s))
           \/ stage[s] = "closed" /\ GoTo(s, "exited")
    BY <1>8 DEF TimeUp, ProcessEnds, Within
  <2>2. CASE stage[s] = "loop" /\ step[s] = "clock" /\ GoTo(s, NextStage(s))
    <3>1. Behind(NextStage(s)) \in {3, 4} /\ tx_seq[s] <= 3 + rounds[s]
      BY <1>0, <2>2, PostedSoFar DEF Behind, NextStage
    <3>2. tx_seq'[s] <= Behind(NextStage(s)) + rounds[s]
      BY <1>0, <2>1, <3>1
    <3> QED
      BY <1>0, <2>1, <2>2, <3>2, GoToWithin
  <2>3. CASE stage[s] = "closed" /\ GoTo(s, "exited")
    <3>1. Behind("exited") = 4 /\ tx_seq[s] <= 4 + rounds[s]
      BY <1>0, <2>3 DEF Behind, Within, Most, Ended
    <3> QED
      BY <1>0, <2>1, <2>3, <3>1, GoToWithin
  <2> QED
    BY <2>1, <2>2, <2>3
<1> QED
  BY <1>1, <1>2, <1>3, <1>4, <1>5, <1>6, <1>7, <1>8 DEF Work

\* A call that fails costs one message at most.
LEMMA FaultWithin ==
  ASSUME IInv, NEW s \in Sides, Within(s), Fault(s)
  PROVE  Within(s)'
<1>0. /\ Typed /\ UNCHANGED <<kind, oob>> /\ Leave(s)
      /\ tx_seq \in [Sides -> Nat] /\ rounds[s] \in Nat /\ tx_seq[s] \in Nat
  BY DEF IInv, Typed, Fault, SendFails, ReceiveFails, PostRxFails, SockFails, RmaFails,
     Abandon, fixed
<1>1. stage[s] \in Exchanges \cup {"loop"} /\ step[s] # "clock"
  BY <1>0, UpIs DEF Fault, SendFails, ReceiveFails, PostRxFails, SockFails, RmaFails, Within
<1>2. \/ tx_seq' = tx_seq
      \/ step[s] = "send" /\ tx_seq' = [tx_seq EXCEPT ![s] = @ + 1]
  BY DEF Fault, SendFails, ReceiveFails, PostRxFails, SockFails, RmaFails, Post
<1>3. tx_seq'[s] \in Nat /\ tx_seq'[s] <= Behind(stage[s]) + rounds[s] + 1
  BY <1>0, <1>2, PostedSoFar
<1> QED
  BY <1>0, <1>1, <1>3, LeaveWithin
-----------------------------------------------------------------------------
\* The other side's numbers stay.
LEMMA OtherStays ==
  ASSUME Typed, NEW s \in Sides, NEW t \in Sides, t # s, Work(s) \/ Fault(s)
  PROVE  /\ UNCHANGED fixed
         /\ stage'[t] = stage[t] /\ step'[t] = step[t] /\ rounds'[t] = rounds[t]
         /\ tx_seq'[t] = tx_seq[t] /\ rx_seq'[t] = rx_seq[t] /\ rx_cq_cntr'[t] = rx_cq_cntr[t]
<1>0. /\ stage \in [Sides -> Stages] /\ step \in [Sides -> Steps] /\ rounds \in [Sides -> Nat]
      /\ tx_seq \in [Sides -> Nat] /\ rx_seq \in [Sides -> Nat] /\ rx_cq_cntr \in [Sides -> Nat]
  BY DEF Typed
<1>1. UNCHANGED fixed
  BY DEF Work, Enable, Send, Receive, ReceiveTimesOut, PostRx, SockSend, SockReceive,
     PeerGone, Rma, GoOn, TimeUp, ProcessEnds, Fault, SendFails, ReceiveFails, PostRxFails,
     SockFails, RmaFails, Abandon, Quiet
<1>2. tx_seq'[t] = tx_seq[t]
  BY <1>0 DEF Work, Enable, Send, Receive, ReceiveTimesOut, PostRx, SockSend, SockReceive,
     PeerGone, Rma, GoOn, TimeUp, ProcessEnds, Fault, SendFails, ReceiveFails, PostRxFails,
     SockFails, RmaFails, Post
<1>3. rx_seq'[t] = rx_seq[t] /\ rx_cq_cntr'[t] = rx_cq_cntr[t]
  BY <1>0 DEF Work, Enable, Send, Receive, ReceiveTimesOut, PostRx, SockSend, SockReceive,
     PeerGone, Rma, GoOn, TimeUp, ProcessEnds, Fault, SendFails, ReceiveFails, PostRxFails,
     SockFails, RmaFails, receives
<1> DEFINE Stays == stage'[t] = stage[t] /\ step'[t] = step[t] /\ rounds'[t] = rounds[t]
<1>4. ASSUME NEW p, Continue(s, p) PROVE Stays
  BY <1>0, <1>4 DEF Continue
<1>5. ASSUME NEW st, GoTo(s, st) PROVE Stays
  BY <1>0, <1>5 DEF GoTo
<1>6. ASSUME Finish(s) PROVE Stays
  BY <1>0, <1>5, <1>6 DEF Finish
<1>7. Stays
  <2>1. CASE \/ Enable(s) \/ ReceiveTimesOut(s) \/ PeerGone(s)
             \/ GoOn(s) \/ TimeUp(s) \/ ProcessEnds(s) \/ Fault(s)
    BY <1>4, <1>5, <2>1 DEF Enable, ReceiveTimesOut, PeerGone, GoOn, TimeUp, ProcessEnds,
       Leave, Fault, SendFails, ReceiveFails, PostRxFails, SockFails, RmaFails, Abandon
  <2>2. CASE Send(s) \/ PostRx(s) \/ Rma(s)
    BY <1>4, <1>6, <2>2 DEF Send, PostRx, Rma, AfterSend, AfterReceive
  <2>3. CASE SockSend(s) \/ SockReceive(s)
    BY <1>4, <1>6, <2>3 DEF SockSend, SockReceive, NextPart, AfterSend, AfterReceive, control
  <2>4. CASE Receive(s)
    BY <1>4, <1>5, <2>4 DEF Receive, Leave
  <2> QED
    BY <2>1, <2>2, <2>3, <2>4 DEF Work
<1> QED
  BY <1>1, <1>2, <1>3, <1>7
-----------------------------------------------------------------------------
\* The parts of an address.
LEMMA PartedStep ==
  ASSUME Typed, part \in [Sides -> 0..1], NEW s \in Sides, \A u \in Sides : Parted(u),
         Work(s) \/ Fault(s)
  PROVE  part' \in [Sides -> 0..1] /\ \A u \in Sides : Parted(u)'
<1>0. /\ stage \in [Sides -> Stages] /\ step \in [Sides -> Steps] /\ UNCHANGED oob
      /\ \A t \in Sides : t # s => stage'[t] = stage[t] /\ step'[t] = step[t]
  <2>1. Peer(s) \in Sides /\ Peer(s) # s
    BY TwoSides
  <2> QED
    BY <2>1, OtherStays DEF Typed, fixed
<1>1. ASSUME part' \in [Sides -> 0..1], \A t \in Sides : t # s => part'[t] = part[t],
             part'[s] = 1 => oob /\ stage'[s] = "addr" /\ step'[s] \in {"send", "recv"}
      PROVE  part' \in [Sides -> 0..1] /\ \A u \in Sides : Parted(u)'
  BY <1>0, <1>1 DEF Parted
<1>2. CASE part' = [part EXCEPT ![s] = 0]
  BY <1>1, <1>2
<1>3. CASE part' = part /\ (~ OverTcp(s) \/ step[s] \notin {"send", "recv"})
  BY <1>1, <1>3 DEF OverTcp, Parted
<1>4. CASE SockSend(s) \/ SockReceive(s)
  <2>1. CASE part' = [part EXCEPT ![s] = 0]
    BY <1>2, <2>1
  <2>2. CASE part[s] + 1 # Parts(Label(stage[s])) /\ part' = [part EXCEPT ![s] = @ + 1]
             /\ UNCHANGED control
    <3>1. /\ step[s] \in {"send", "recv"} /\ OverTcp(s)
          /\ stage'[s] = stage[s] /\ step'[s] = step[s]
      BY <1>4, <2>2 DEF SockSend, SockReceive, control
    <3>2. part[s] \in 0..1
      OBVIOUS
    <3>3. part[s] = 0 /\ stage[s] = "addr"
      BY <2>2, <3>1, <3>2 DEF Parted, Parts, Label, OverTcp
    <3>4. part' = [part EXCEPT ![s] = 1]
      BY <2>2, <3>3
    <3> QED
      BY <1>1, <3>1, <3>3, <3>4 DEF OverTcp
  <2> QED
    BY <1>4, <2>1, <2>2 DEF SockSend, SockReceive, NextPart
<1>5. CASE Fault(s) \/ PeerGone(s)
  BY <1>2, <1>5 DEF Fault, SendFails, ReceiveFails, PostRxFails, SockFails, RmaFails, Abandon,
     PeerGone
<1> QED
  BY <1>3, <1>4, <1>5 DEF Work, Enable, Send, Receive, ReceiveTimesOut, PostRx, Rma, GoOn,
     TimeUp, ProcessEnds, OverTcp
-----------------------------------------------------------------------------
\* A message on its way is one that was posted within the bounds.
LEMMA TagIs ==
  ASSUME IInv, NEW s \in Sides, Within(s), Up(s), step[s] \in {"send", "rma"}, NEW label \in Labels
  PROVE  [label |-> label, tag |-> Tag(s)] \in Messages
<1>1. /\ tx_seq[s] \in Nat /\ rounds[s] \in 0..Rounds /\ Rounds \in Nat
      /\ Behind(stage[s]) \in 0..3
      /\ tx_seq[s] <= Behind(stage[s]) + rounds[s]
  <2>1. Behind(stage[s]) \in 0..3
    BY UpIs DEF IInv, Behind, Exchanges
  <2> QED
    BY <2>1, PostedSoFar, SessionAssumption DEF IInv, Within, SessionAssumption
<1>2. tx_seq[s] \in 0..(Rounds + 3)
  BY <1>1
<1>3. Tag(s) \in -1..(Rounds + 3)
  BY <1>1, <1>2 DEF Tag, NoTag
<1> QED
  BY <1>3 DEF Messages

\* The queues hold such messages.
LEMMA QueuesStep ==
  ASSUME IInv, \A s \in Sides : Within(s), [Next]_vars,
         tcp \in [Sides -> Seq(Labels)],
         arrived \in [Sides -> Seq(Messages)], net \in [Sides -> Seq(Messages)]
  PROVE  /\ tcp' \in [Sides -> Seq(Labels)]
         /\ arrived' \in [Sides -> Seq(Messages)]
         /\ net' \in [Sides -> Seq(Messages)]
<1>0. Typed /\ \A s \in Sides : Peer(s) \in Sides
  BY TwoSides DEF IInv
<1>1. tcp' \in [Sides -> Seq(Labels)]
  <2>1. CASE tcp' = tcp
    BY <2>1
  <2>2. ASSUME NEW s \in Sides, SockSend(s)
        PROVE  tcp' \in [Sides -> Seq(Labels)]
    <3>1. Label(stage[s]) \in Labels
      BY <1>0, <2>2, LabelIs, UpIs DEF SockSend, Up
    <3>2. Append(tcp[Peer(s)], Label(stage[s])) \in Seq(Labels)
      BY <1>0, <3>1, AppendProperties
    <3> QED
      BY <1>0, <2>2, <3>2 DEF SockSend
  <2>3. ASSUME NEW s \in Sides, SockReceive(s)
        PROVE  tcp' \in [Sides -> Seq(Labels)]
    <3>1. Tail(tcp[s]) \in Seq(Labels)
      BY <2>3, HeadTailProperties DEF SockReceive
    <3> QED
      BY <2>3, <3>1 DEF SockReceive
  <2>4. tcp' = tcp \/ \E s \in Sides : SockSend(s) \/ SockReceive(s)
    BY DEF Next, Work, Enable, Send, Receive, ReceiveTimesOut, PostRx,
       PeerGone, Rma, GoOn, TimeUp, ProcessEnds, Fault, SendFails, ReceiveFails, PostRxFails,
       SockFails, RmaFails, Deliver, Lose, Terminated, vars, channels
  <2> QED
    BY <2>1, <2>2, <2>3, <2>4
<1>2. /\ arrived' \in [Sides -> Seq(Messages)]
      /\ net' \in [Sides -> Seq(Messages)]
  <2>1. CASE UNCHANGED <<arrived, net>>
    BY <2>1
  <2>2. ASSUME NEW s \in Sides, NEW label \in Labels, Post(s, label), arrived' = arrived,
               Up(s), step[s] \in {"send", "rma"}
        PROVE  /\ arrived' \in [Sides -> Seq(Messages)] /\ net' \in [Sides -> Seq(Messages)]
    <3>1. [label |-> label, tag |-> Tag(s)] \in Messages
      BY <2>2, TagIs
    <3>2. Append(net[Peer(s)], [label |-> label, tag |-> Tag(s)]) \in Seq(Messages)
      BY <1>0, <3>1, AppendProperties
    <3> QED
      BY <1>0, <2>2, <3>2 DEF Post
  <2>3. ASSUME NEW s \in Sides, Send(s) \/ SendFails(s)
        PROVE  /\ arrived' \in [Sides -> Seq(Messages)] /\ net' \in [Sides -> Seq(Messages)]
    <3>1. Label(stage[s]) \in Labels /\ Up(s) /\ step[s] = "send" /\ arrived' = arrived
          /\ (Post(s, Label(stage[s])) \/ net' = net)
      BY <1>0, <2>3, LabelIs DEF Send, SendFails, receives
    <3> QED
      BY <2>1, <2>2, <3>1
  <2>4. ASSUME NEW s \in Sides, Rma(s)
        PROVE  /\ arrived' \in [Sides -> Seq(Messages)] /\ net' \in [Sides -> Seq(Messages)]
    <3>1. "data" \in Labels /\ Up(s) /\ step[s] = "rma" /\ arrived' = arrived
          /\ (Post(s, "data") \/ net' = net)
      BY <2>4 DEF Rma, receives, Labels, Up, Ended
    <3> QED
      BY <2>1, <2>2, <3>1
  <2>5. ASSUME NEW s \in Sides, Receive(s), net' = net
        PROVE  /\ arrived' \in [Sides -> Seq(Messages)] /\ net' \in [Sides -> Seq(Messages)]
    <3>1. arrived' = arrived \/ (arrived[s] # << >> /\ arrived' = [arrived EXCEPT ![s] = Tail(@)])
      BY <2>5 DEF Receive
    <3>2. arrived[s] # << >> => Tail(arrived[s]) \in Seq(Messages)
      BY HeadTailProperties
    <3> QED
      BY <2>5, <3>1, <3>2
  <2>6. ASSUME NEW s \in Sides, NEW i \in DOMAIN net[s], net' = [net EXCEPT ![s] = RemoveAt(@, i)],
               arrived' = arrived \/ arrived' = [arrived EXCEPT ![s] = Append(@, net[s][i])]
        PROVE  /\ arrived' \in [Sides -> Seq(Messages)] /\ net' \in [Sides -> Seq(Messages)]
    <3>1. i \in 1..Len(net[s]) /\ net[s] \in Seq(Messages) /\ arrived[s] \in Seq(Messages)
      BY LenProperties
    <3>2. net[s][i] \in Messages /\ RemoveAt(net[s], i) \in Seq(Messages)
      BY <3>1, ElementOfSeq, RemoveAtLeaves
    <3>3. Append(arrived[s], net[s][i]) \in Seq(Messages)
      BY <3>1, <3>2, AppendProperties
    <3> QED
      BY <2>6, <3>2, <3>3
  <2>7. ASSUME NEW s \in Sides, Deliver(s) \/ Lose(s)
        PROVE  /\ arrived' \in [Sides -> Seq(Messages)] /\ net' \in [Sides -> Seq(Messages)]
    <3>1. PICK i \in DOMAIN net[s] :
            /\ net' = [net EXCEPT ![s] = RemoveAt(@, i)]
            /\ arrived' = arrived \/ arrived' = [arrived EXCEPT ![s] = Append(@, net[s][i])]
      BY <2>7 DEF Deliver, Lose, Matching, receives
    <3> QED
      BY <2>6, <3>1
  <2>8. \/ UNCHANGED <<arrived, net>>
        \/ \E s \in Sides : \/ Send(s) \/ SendFails(s) \/ Rma(s) \/ Deliver(s) \/ Lose(s)
                            \/ Receive(s) /\ net' = net
    BY DEF Next, Work, Enable, Receive, ReceiveTimesOut, PostRx, SockSend, SockReceive,
       PeerGone, GoOn, TimeUp, ProcessEnds, Fault, ReceiveFails, PostRxFails,
       SockFails, RmaFails, Terminated, vars, channels, receives
  <2> QED
    BY <2>1, <2>3, <2>4, <2>5, <2>7, <2>8
<1> QED
  BY <1>1, <1>2
-----------------------------------------------------------------------------
LEMMA BoundsStep == IInv /\ Bounds /\ [Next]_vars => Bounds'
<1> SUFFICES ASSUME IInv, Bounds, [Next]_vars
             PROVE  Bounds'
  OBVIOUS
<1>0. Typed /\ \A s \in Sides : Within(s) /\ Parted(s)
  BY DEF IInv, Bounds
<1>1. /\ tcp' \in [Sides -> Seq(Labels)] /\ arrived' \in [Sides -> Seq(Messages)]
      /\ net' \in [Sides -> Seq(Messages)]
  BY QueuesStep DEF Bounds
<1>2. timeout' \in [Sides -> {-1, 0}]
  <2>1. timeout' = timeout \/ \E s \in Sides : timeout' = [timeout EXCEPT ![s] = 0]
    BY DEF Next, Work, Enable, Send, Receive, ReceiveTimesOut, PostRx, SockSend, SockReceive,
       PeerGone, Rma, GoOn, TimeUp, ProcessEnds, Fault, SendFails, ReceiveFails, PostRxFails,
       SockFails, RmaFails, Abandon, Deliver, Lose, Terminated, vars, Quiet
  <2> QED
    BY <2>1 DEF Bounds
<1>3. oob' \in BOOLEAN /\ faults' + losses' <= MaxFaults
  <2>1. /\ oob' = oob
        /\ \/ UNCHANGED <<faults, losses>>
           \/ faults + losses < MaxFaults /\ faults' = faults + 1 /\ losses' = losses
           \/ faults + losses < MaxFaults /\ faults' = faults /\ losses' = losses + 1
    BY DEF Next, Work, Enable, Send, Receive, ReceiveTimesOut, PostRx, SockSend, SockReceive,
       PeerGone, Rma, GoOn, TimeUp, ProcessEnds, Fault, SendFails, ReceiveFails, PostRxFails,
       SockFails, RmaFails, Abandon, Deliver, Lose, Terminated, vars, Quiet, fixed
  <2>2. faults \in Nat /\ losses \in Nat /\ MaxFaults \in Nat /\ faults + losses <= MaxFaults
    BY <1>0, SessionAssumption DEF Typed, SessionAssumption, Bounds
  <2>3. faults' + losses' <= MaxFaults
    BY <2>1, <2>2
  <2> QED
    BY <2>1, <2>3 DEF Bounds
<1>4. /\ part' \in [Sides -> 0..1]
      /\ \A s \in Sides : Within(s)' /\ Parted(s)'
  <2>1. CASE \E s \in Sides : Work(s) \/ Fault(s)
    <3>1. PICK s \in Sides : Work(s) \/ Fault(s)
      BY <2>1
    <3>2. Within(s)'
      BY <1>0, <3>1, WorkWithin, FaultWithin
    <3>3. ASSUME NEW t \in Sides, t # s
          PROVE  Within(t)'
      BY <1>0, <3>1, <3>3, OtherStays
      DEF Within, Most, SendsFirst, FirstStep, fixed, Up, OverTcp
    <3> QED
      BY <1>0, <3>1, <3>2, <3>3, PartedStep DEF Bounds
  <2>2. CASE UNCHANGED <<fixed, control, tx_seq, part>>
    BY <1>0, <2>2 DEF Bounds, Within, Most, SendsFirst, FirstStep, fixed, control, Parted,
       Up, OverTcp
  <2>3. (\E s \in Sides : Work(s) \/ Fault(s)) \/ UNCHANGED <<fixed, control, tx_seq, part>>
    BY DEF Next, Deliver, Lose, Terminated, vars, fixed, control, Quiet
  <2> QED
    BY <2>1, <2>2, <2>3
<1> QED
  BY <1>1, <1>2, <1>3, <1>4 DEF Bounds

LEMMA InitBounds == Init => Bounds
<1> SUFFICES ASSUME Init PROVE Bounds
  OBVIOUS
<1>1. << >> \in Seq(Messages) /\ << >> \in Seq(Labels)
  BY EmptySeq
<1>2. Rounds \in Nat \ {0} /\ MaxFaults \in Nat
  BY SessionAssumption DEF SessionAssumption
<1>3. \A s \in Sides : Within(s) /\ Parted(s)
  <2>1. \A s \in Sides : /\ stage[s] = "boot" /\ step[s] = "send" /\ rounds[s] = 0
                         /\ tx_seq[s] = 0 /\ part[s] = 0
    BY DEF Init
  <2>2. \A s \in Sides : Most(s) = 0
    BY <2>1 DEF Most, Behind
  <2> QED
    BY <1>2, <2>1, <2>2 DEF Within, Parted
<1>4. /\ tcp \in [Sides -> Seq(Labels)] /\ arrived \in [Sides -> Seq(Messages)]
      /\ net \in [Sides -> Seq(Messages)]
  BY <1>1 DEF Init
<1>5. timeout \in [Sides -> {-1, 0}] /\ part \in [Sides -> 0..1] /\ oob \in BOOLEAN
  BY DEF Init
<1>6. faults + losses <= MaxFaults
  BY <1>2 DEF Init
<1> QED
  BY <1>3, <1>4, <1>5, <1>6 DEF Bounds

LEMMA TypeOKFollows == IInv /\ Bounds => TypeOK
<1> SUFFICES ASSUME IInv, Bounds PROVE TypeOK
  OBVIOUS
<1>1. /\ kind \in Kinds /\ oob \in BOOLEAN /\ mode \in {"plain", "tagged", "writedata"}
      /\ stage \in [Sides -> Stages] /\ step \in [Sides -> {"send", "recv", "post", "rma", "clock"}]
  BY DEF IInv, Typed, Bounds, Steps
<1>2. rounds \in [Sides -> 0..Rounds]
  BY DEF IInv, Typed, Bounds, Within
<1>3. part \in [Sides -> 0..1] /\ timeout \in [Sides -> {-1, 0}]
  BY DEF Bounds
<1>4. faults \in 0..MaxFaults /\ losses \in 0..MaxFaults
  <2>1. faults \in Nat /\ losses \in Nat /\ MaxFaults \in Nat /\ faults + losses <= MaxFaults
    BY SessionAssumption DEF SessionAssumption, IInv, Typed, Bounds
  <2> QED
    BY <2>1
<1>5. ASSUME NEW s \in Sides
      PROVE  /\ tx_seq[s] \in 0..(Rounds + 4)
             /\ rx_cq_cntr[s] \in 0..rx_seq[s]
             /\ Posted(s) \in 0..1
             /\ arrived[s] \in Seq(Messages)
             /\ net[s] \in Seq(Messages)
             /\ tcp[s] \in Seq(Labels)
  <2>1. arrived[s] \in Seq(Messages) /\ net[s] \in Seq(Messages) /\ tcp[s] \in Seq(Labels)
    BY DEF Bounds
  <2>2. tx_seq[s] \in 0..(Rounds + 4)
    <3>1. /\ tx_seq[s] \in Nat /\ rounds[s] \in 0..Rounds /\ Rounds \in Nat
          /\ tx_seq[s] <= Most(s)
      BY SessionAssumption DEF SessionAssumption, IInv, Typed, Bounds, Within
    <3>2. \/ Most(s) = Behind(stage[s]) + rounds[s]
          \/ stage[s] \notin Ended /\ Most(s) = Behind(stage[s]) + rounds[s] + 1
      <4>1. Behind(stage[s]) \in Nat
        BY DEF Behind
      <4> QED
        BY <3>1, <4>1 DEF Most
    <3>3. Behind(stage[s]) \in 0..4 /\ (stage[s] \notin Ended => Behind(stage[s]) \in 0..3)
      BY DEF Behind, Ended, IInv, Typed, Stages, Exchanges
    <3> QED
      BY <3>1, <3>2, <3>3
  <2>3. rx_cq_cntr[s] \in 0..rx_seq[s] /\ Posted(s) \in 0..1
    <3> DEFINE n == Len(arrived[s])
    <3>1. /\ n \in Nat /\ rx_cq_cntr[s] \in Nat /\ rx_seq[s] \in Nat
          /\ rx_cq_cntr[s] + n <= rx_seq[s] /\ rx_seq[s] <= rx_cq_cntr[s] + 1
      BY OneArrived DEF IInv, Typed, OneReceive
    <3>2. Posted(s) = rx_seq[s] - rx_cq_cntr[s] - n
      BY DEF Posted
    <3> HIDE DEF n
    <3> QED
      BY <3>1, <3>2
  <2> QED
    BY <2>1, <2>2, <2>3
<1> QED
  BY <1>1, <1>2, <1>3, <1>4, <1>5 DEF TypeOK

(***************************************************************************)
(* Whatever fails or is lost, in every benchmark: a side has at most one   *)
(* receive outstanding, and posts at most a message in each round and in   *)
(* each of its four exchanges (rx_seq, rx_cq_cntr and tx_seq of ft_post_rx,*)
(* ft_get_rx_comp and ft_post_tx), and a socket's message is never more    *)
(* than an address in parts.                                               *)
(***************************************************************************)
THEOREM TypeOKHolds == Spec => []TypeOK
<1>1. Init => IInv /\ Bounds
  BY InitIInv, InitBounds
<1>2. (IInv /\ Bounds) /\ [Next]_vars => (IInv /\ Bounds)'
  BY NextIInv, BoundsStep
<1>3. IInv /\ Bounds => TypeOK
  BY TypeOKFollows
<1> QED
  BY <1>1, <1>2, <1>3, PTL DEF Spec
=============================================================================
