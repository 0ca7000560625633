-------------------------- MODULE LifecycleProofs --------------------------
(***************************************************************************)
(* Theorems about the resources of any number of nodes and any number of   *)
(* descriptors: nothing of the fabric is left open, no thread gets hold of *)
(* another's connection, and resources are opened and closed as libfabric  *)
(* asks.                                                                   *)
(***************************************************************************)
EXTENDS Lifecycle, TLAPS

Names == {"fi", "fabric", "eq", "domain", "buf", "mr", "tx_ctx_arr", "rx_ctx_arr",
          "txcq", "rxcq", "av", "ep", "hints"}

\* The two orders, spelled out.
LEMMA SetUpIs ==
  /\ Len(SetUp) = 12
  /\ SetUp[1] = "fi" /\ SetUp[2] = "fabric" /\ SetUp[3] = "eq" /\ SetUp[4] = "domain"
  /\ SetUp[5] = "buf" /\ SetUp[6] = "mr" /\ SetUp[7] = "tx_ctx_arr"
  /\ SetUp[8] = "rx_ctx_arr" /\ SetUp[9] = "txcq" /\ SetUp[10] = "rxcq"
  /\ SetUp[11] = "av" /\ SetUp[12] = "ep"
BY DEF SetUp, FabricRes, Msgs, CtxArrays, EpRes

LEMMA TearDownIs ==
  /\ Len(TearDown) = 13
  /\ TearDown[1] = "tx_ctx_arr" /\ TearDown[2] = "rx_ctx_arr" /\ TearDown[3] = "ep"
  /\ TearDown[4] = "rxcq" /\ TearDown[5] = "txcq" /\ TearDown[6] = "mr"
  /\ TearDown[7] = "av" /\ TearDown[8] = "domain" /\ TearDown[9] = "eq"
  /\ TearDown[10] = "fabric" /\ TearDown[11] = "buf" /\ TearDown[12] = "fi"
  /\ TearDown[13] = "hints"
BY DEF TearDown, CloseFids, CtxArrays

LEMMA ResourcesAre == Resources = Names
BY SetUpIs DEF Resources, Names
-----------------------------------------------------------------------------
Typed ==
    /\ server \in BOOLEAN /\ oob \in BOOLEAN /\ registers \in BOOLEAN
    /\ crashed \in BOOLEAN
    /\ caller \in [Nodes -> {"worker", "careful", "info"}]
    /\ stage \in [Nodes -> Stages]
    /\ held \in [Nodes -> SUBSET Names]
    /\ next \in [Nodes -> 1..14]
    /\ listen_sock \in [Nodes -> Fds \cup {NoFd}]
    /\ oob_sock \in [Nodes -> Fds \cup {NoFd}]
    /\ table \in [Fds -> Nodes \cup {Nobody}]
    /\ unconnected \subseteq Nodes

\* What a node holds on its way up and down.
Progress(n) ==
    /\ stage[n] = "open" =>
          /\ next[n] \in 1..12
          /\ ~ crashed => \A i \in 1..(next[n] - 1) :
                             Wanted(SetUp[i]) => SetUp[i] \in held[n]
    /\ stage[n] = "close" =>
          /\ next[n] \in 1..13
          /\ \A i \in 1..(next[n] - 1) : TearDown[i] \notin held[n]
    /\ stage[n] \notin {"open", "close", "gone"} => next[n] = 1
    /\ stage[n] = "gone" => held[n] = {}

\* Which descriptors are a node's.
Owned(n) == {f \in Fds : table[f] = n}

Owning(n) ==
    /\ stage[n] = "oob" => Owned(n) = {} /\ oob_sock[n] = NoFd
    /\ stage[n] = "accept" => /\ listen_sock[n] \in Fds /\ oob_sock[n] = NoFd
                              /\ Owned(n) = {listen_sock[n]}
    /\ stage[n] = "connect" => oob_sock[n] # NoFd
    /\ stage[n] \in {"oob", "accept", "connect"} => n \notin unconnected
    /\ oob_sock[n] # NoFd /\ n \notin unconnected => Owned(n) = {oob_sock[n]}

IInv ==
    /\ Typed
    /\ \A n \in Nodes : Progress(n)
    /\ \A n \in Nodes : Owning(n)

LEMMA InitIInv == Init => IInv
<1> SUFFICES ASSUME Init
             PROVE  IInv
  OBVIOUS
<1>1. Typed
  <2>1. caller \in [Nodes -> {"worker", "careful", "info"}]
    BY DEF Init
  <2>2. stage \in [Nodes -> Stages]
    BY DEF Init, Stages
  <2>3. held \in [Nodes -> SUBSET Names]
    BY DEF Init, Names
  <2>4. next \in [Nodes -> 1..14]
    BY DEF Init
  <2> QED
    BY <2>1, <2>2, <2>3, <2>4 DEF Init, Typed
<1>2. ASSUME NEW n \in Nodes
      PROVE  Progress(n)
  BY DEF Init, Progress
<1>3. ASSUME NEW n \in Nodes
      PROVE  Owning(n)
  <2>1. Owned(n) = {}
    BY LifecycleAssumption DEF Init, Owned
  <2> QED
    BY <2>1 DEF Init, Owning
<1> QED
  BY <1>1, <1>2, <1>3 DEF IInv

-----------------------------------------------------------------------------
\* What a step does to the other nodes, and what it does to its own.
LEMMA GoToIs ==
  ASSUME Typed, NEW n \in Nodes, NEW s \in Stages, GoTo(n, s)
  PROVE  /\ stage' \in [Nodes -> Stages] /\ stage'[n] = s
         /\ \A m \in Nodes \ {n} : stage'[m] = stage[m]
BY DEF GoTo, Typed

LEMMA ReturnIs ==
  ASSUME Typed, NEW n \in Nodes, Return(n)
  PROVE  /\ stage' \in [Nodes -> Stages] /\ stage'[n] \in {"sync", "close"}
         /\ \A m \in Nodes \ {n} : stage'[m] = stage[m]
BY GoToIs DEF Return, Stages

\* The nodes a step leaves alone stay as they are.
LEMMA ProgressElsewhere ==
  ASSUME NEW m \in Nodes, Progress(m), stage'[m] = stage[m], held'[m] = held[m],
         next'[m] = next[m], UNCHANGED <<registers, crashed>>
  PROVE  Progress(m)'
BY DEF Progress, Wanted

\* A node is up, or at the end of init(): nothing is known of what it holds.
LEMMA ProgressStarts ==
  ASSUME NEW m \in Nodes, next'[m] = 1,
         stage'[m] \in {"accept", "connect", "open", "enable", "addr", "sync", "loop", "close"}
  PROVE  Progress(m)'
BY DEF Progress

LEMMA OwningElsewhere ==
  ASSUME NEW m \in Nodes, Owning(m), stage'[m] = stage[m], Owned(m)' = Owned(m),
         oob_sock'[m] = oob_sock[m], listen_sock'[m] = listen_sock[m],
         m \in unconnected' <=> m \in unconnected
  PROVE  Owning(m)'
BY DEF Owning

LEMMA OwningPasses ==
  ASSUME NEW m \in Nodes, Owning(m), stage'[m] \notin {"oob", "accept", "connect"},
         UNCHANGED sockets
  PROVE  Owning(m)'
BY DEF Owning, Owned, sockets
-----------------------------------------------------------------------------
\* ft_init_oob.
LEMMA ListenKeeps ==
  ASSUME IInv, NEW n \in Nodes, Listen(n)
  PROVE  IInv'
<1>0. PICK f \in Fds : /\ table[f] = Nobody
                       /\ table' = [table EXCEPT ![f] = n]
                       /\ listen_sock' = [listen_sock EXCEPT ![n] = f]
  BY DEF Listen, Free
<1>1. /\ stage[n] = "oob" /\ GoTo(n, "accept") /\ "accept" \in Stages
      /\ UNCHANGED <<server, oob, registers, caller, held, next, oob_sock, unconnected, crashed>>
  BY DEF Listen, modes, Stages
<1>2. Typed /\ \A m \in Nodes : Progress(m) /\ Owning(m)
  BY DEF IInv
<1>3. /\ stage' \in [Nodes -> Stages] /\ stage'[n] = "accept"
      /\ \A m \in Nodes \ {n} : stage'[m] = stage[m]
  BY <1>1, <1>2, GoToIs
<1>4. Typed'
  BY <1>0, <1>1, <1>2, <1>3 DEF Typed
<1>5. ASSUME NEW m \in Nodes
      PROVE  Progress(m)'
  <2>1. CASE m = n
    BY <1>1, <1>2, <1>3, <2>1, ProgressStarts DEF Progress
  <2>2. CASE m # n
    BY <1>1, <1>2, <1>3, <2>2, ProgressElsewhere
  <2> QED
    BY <2>1, <2>2
<1>6. \A m \in Nodes \ {n} : Owned(m)' = Owned(m)
  BY <1>0, <1>2, LifecycleAssumption DEF Owned, Typed
<1>7. Owned(n)' = {f} /\ listen_sock'[n] = f
  <2>1. Owned(n) = {}
    BY <1>1, <1>2 DEF Owning
  <2> QED
    BY <1>0, <1>2, <2>1 DEF Owned, Typed
<1>8. ASSUME NEW m \in Nodes
      PROVE  Owning(m)'
  <2>1. CASE m = n
    BY <1>0, <1>1, <1>2, <1>3, <1>7, <2>1 DEF Owning
  <2>2. CASE m # n
    <3>1. listen_sock'[m] = listen_sock[m]
      BY <1>0, <1>2, <2>2 DEF Typed
    <3> QED
      BY <1>1, <1>2, <1>3, <1>6, <2>2, <3>1, OwningElsewhere
  <2> QED
    BY <2>1, <2>2
<1> QED
  BY <1>4, <1>5, <1>8 DEF IInv

LEMMA AcceptKeeps ==
  ASSUME IInv, NEW n \in Nodes, Accept(n)
  PROVE  IInv'
<1> DEFINE l == listen_sock[n]
<1>0. PICK f \in Fds : /\ table[f] = Nobody
                       /\ oob_sock' = [oob_sock EXCEPT ![n] = f]
                       /\ table' = [table EXCEPT ![f] = n, ![l] = Nobody]
  BY DEF Accept, Free
<1>1. /\ stage[n] = "accept" /\ (GoTo(n, "open") \/ Return(n)) /\ "open" \in Stages
      /\ UNCHANGED <<server, oob, registers, caller, held, next, listen_sock, unconnected, crashed>>
  BY DEF Accept, modes, Stages
<1>2. Typed /\ \A m \in Nodes : Progress(m) /\ Owning(m)
  BY DEF IInv
<1>3. /\ stage' \in [Nodes -> Stages] /\ stage'[n] \in {"open", "sync", "close"}
      /\ \A m \in Nodes \ {n} : stage'[m] = stage[m]
  BY <1>1, <1>2, GoToIs, ReturnIs
<1>4. l \in Fds /\ Owned(n) = {l} /\ l # f /\ table[l] = n /\ n \notin unconnected
  <2>1. l \in Fds /\ Owned(n) = {l} /\ n \notin unconnected
    BY <1>1, <1>2 DEF Owning
  <2>2. table[l] = n
    BY <2>1 DEF Owned
  <2> QED
    BY <1>0, <2>1, <2>2, LifecycleAssumption
<1> HIDE DEF l
<1>5. \A g \in Fds : table'[g] = IF g = f THEN n ELSE IF g = l THEN Nobody ELSE table[g]
  BY <1>0, <1>2, <1>4 DEF Typed
<1>6. Typed'
  <2>1. table' \in [Fds -> Nodes \cup {Nobody}]
    BY <1>0, <1>2, <1>4 DEF Typed
  <2>2. oob_sock' \in [Nodes -> Fds \cup {NoFd}]
    BY <1>0, <1>2 DEF Typed
  <2> QED
    BY <1>1, <1>2, <1>3, <2>1, <2>2 DEF Typed
<1>7. ASSUME NEW m \in Nodes
      PROVE  Progress(m)'
  <2>1. CASE m = n
    BY <1>1, <1>2, <1>3, <2>1, ProgressStarts DEF Progress
  <2>2. CASE m # n
    BY <1>1, <1>2, <1>3, <2>2, ProgressElsewhere
  <2> QED
    BY <2>1, <2>2
<1>8. \A m \in Nodes \ {n} : Owned(m)' = Owned(m)
  BY <1>0, <1>4, <1>5, LifecycleAssumption DEF Owned
<1>9. Owned(n)' = {f} /\ oob_sock'[n] = f
  <2>1. \A g \in Fds : table[g] = n => g = l
    BY <1>4 DEF Owned
  <2>2. oob_sock'[n] = f
    BY <1>0, <1>2 DEF Typed
  <2> QED
    BY <1>5, <2>1, <2>2, LifecycleAssumption DEF Owned
<1>10. ASSUME NEW m \in Nodes
       PROVE  Owning(m)'
  <2>1. CASE m = n
    BY <1>1, <1>3, <1>4, <1>9, <2>1 DEF Owning
  <2>2. CASE m # n
    <3>1. oob_sock'[m] = oob_sock[m]
      BY <1>0, <1>2, <2>2 DEF Typed
    <3> QED
      BY <1>1, <1>2, <1>3, <1>8, <2>2, <3>1, OwningElsewhere
  <2> QED
    BY <2>1, <2>2
<1> QED
  BY <1>6, <1>7, <1>10 DEF IInv

LEMMA CreateSocketKeeps ==
  ASSUME IInv, NEW n \in Nodes, CreateSocket(n)
  PROVE  IInv'
<1>0. PICK f \in Fds : /\ table[f] = Nobody
                       /\ table' = [table EXCEPT ![f] = n]
                       /\ oob_sock' = [oob_sock EXCEPT ![n] = f]
  BY DEF CreateSocket, Free
<1>1. /\ stage[n] = "oob" /\ GoTo(n, "connect") /\ "connect" \in Stages
      /\ UNCHANGED <<server, oob, registers, caller, held, next, listen_sock, unconnected, crashed>>
  BY DEF CreateSocket, modes, Stages
<1>2. Typed /\ \A m \in Nodes : Progress(m) /\ Owning(m)
  BY DEF IInv
<1>3. /\ stage' \in [Nodes -> Stages] /\ stage'[n] = "connect"
      /\ \A m \in Nodes \ {n} : stage'[m] = stage[m]
  BY <1>1, <1>2, GoToIs
<1>4. Typed'
  BY <1>0, <1>1, <1>2, <1>3 DEF Typed
<1>5. ASSUME NEW m \in Nodes
      PROVE  Progress(m)'
  <2>1. CASE m = n
    BY <1>1, <1>2, <1>3, <2>1, ProgressStarts DEF Progress
  <2>2. CASE m # n
    BY <1>1, <1>2, <1>3, <2>2, ProgressElsewhere
  <2> QED
    BY <2>1, <2>2
<1>6. \A m \in Nodes \ {n} : Owned(m)' = Owned(m)
  BY <1>0, <1>2, LifecycleAssumption DEF Owned, Typed
<1>7. Owned(n)' = {f} /\ oob_sock'[n] = f
  <2>1. Owned(n) = {}
    BY <1>1, <1>2 DEF Owning
  <2> QED
    BY <1>0, <1>2, <2>1 DEF Owned, Typed
<1>8. ASSUME NEW m \in Nodes
      PROVE  Owning(m)'
  <2>1. CASE m = n
    BY <1>0, <1>1, <1>2, <1>3, <1>7, <2>1, LifecycleAssumption DEF Owning
  <2>2. CASE m # n
    <3>1. oob_sock'[m] = oob_sock[m]
      BY <1>0, <1>2, <2>2 DEF Typed
    <3> QED
      BY <1>1, <1>2, <1>3, <1>6, <2>2, <3>1, OwningElsewhere
  <2> QED
    BY <2>1, <2>2
<1> QED
  BY <1>4, <1>5, <1>8 DEF IInv

\* The number in oob_sock is no longer the node's.
LEMMA ConnectFailsKeeps ==
  ASSUME IInv, NEW n \in Nodes, ConnectFails(n)
  PROVE  IInv'
<1> DEFINE f == oob_sock[n]
<1>0. /\ stage[n] = "connect" /\ Return(n) /\ unconnected' = unconnected \cup {n}
      /\ table' = [table EXCEPT ![f] = Nobody]
      /\ UNCHANGED <<server, oob, registers, caller, held, next, listen_sock, oob_sock, crashed>>
  BY DEF ConnectFails, modes
<1>1. Typed /\ \A m \in Nodes : Progress(m) /\ Owning(m)
  BY DEF IInv
<1>2. /\ stage' \in [Nodes -> Stages] /\ stage'[n] \in {"sync", "close"}
      /\ \A m \in Nodes \ {n} : stage'[m] = stage[m]
  BY <1>0, <1>1, ReturnIs
<1>3. Owned(n) = {f}
  BY <1>0, <1>1 DEF Owning
<1>4. f \in Fds /\ table[f] = n
  BY <1>3 DEF Owned
<1> HIDE DEF f
<1>5. Typed'
  BY <1>0, <1>1, <1>2, <1>4 DEF Typed
<1>6. ASSUME NEW m \in Nodes
      PROVE  Progress(m)'
  <2>1. CASE m = n
    BY <1>0, <1>1, <1>2, <2>1, ProgressStarts DEF Progress
  <2>2. CASE m # n
    BY <1>0, <1>1, <1>2, <2>2, ProgressElsewhere
  <2> QED
    BY <2>1, <2>2
<1>7. \A m \in Nodes \ {n} : Owned(m)' = Owned(m)
  BY <1>0, <1>1, <1>4, LifecycleAssumption DEF Owned, Typed
<1>8. ASSUME NEW m \in Nodes
      PROVE  Owning(m)'
  <2>1. CASE m = n
    BY <1>0, <1>2, <2>1 DEF Owning
  <2>2. CASE m # n
    BY <1>0, <1>1, <1>2, <1>7, <2>2, OwningElsewhere
  <2> QED
    BY <2>1, <2>2
<1> QED
  BY <1>5, <1>6, <1>8 DEF IInv
\* The results of ft_init_oob and of init() that leave the sockets alone, and
\* the stages of a worker.
LEMMA StageKeeps ==
  ASSUME IInv, NEW n \in Nodes, UNCHANGED <<modes, sockets, crashed, held>>,
         stage[n] \notin {"close", "gone"},
         stage' \in [Nodes -> Stages],
         stage'[n] \in {"open", "enable", "addr", "sync", "loop", "close"},
         \A m \in Nodes \ {n} : stage'[m] = stage[m],
         next' \in [Nodes -> 1..14], next'[n] = 1,
         \A m \in Nodes \ {n} : next'[m] = next[m]
  PROVE  IInv'
<1>1. Typed'
  BY DEF IInv, Typed, modes, sockets
<1>2. ASSUME NEW m \in Nodes
      PROVE  Progress(m)'
  <2>1. CASE m = n
    BY <2>1, ProgressStarts
  <2>2. CASE m # n
    BY <2>2, ProgressElsewhere DEF IInv, modes
  <2> QED
    BY <2>1, <2>2
<1>3. ASSUME NEW m \in Nodes
      PROVE  Owning(m)'
  <2>1. Owning(m)
    BY DEF IInv
  <2>2. CASE m = n
    BY <2>1, <2>2, OwningPasses
  <2>3. CASE m # n
    BY <2>1, <2>3, OwningElsewhere DEF sockets, Owned
  <2> QED
    BY <2>2, <2>3
<1> QED
  BY <1>1, <1>2, <1>3 DEF IInv

LEMMA PassKeeps ==
  ASSUME IInv, NEW n \in Nodes,
         Connected(n) \/ OobFails(n) \/ ObtainFails(n) \/ Enable(n) \/ ExchangeAddr(n)
  PROVE  IInv'
<1>0. Typed /\ Progress(n) /\ next \in [Nodes -> 1..14]
  BY DEF IInv, Typed
<1>1. UNCHANGED <<modes, sockets, crashed, held>>
  BY DEF Connected, OobFails, ObtainFails, Enable, ExchangeAddr, sockets
<1>2. stage[n] \in {"connect", "oob", "accept", "open", "enable", "addr"}
  BY DEF Connected, OobFails, ObtainFails, Enable, ExchangeAddr
<1>3. /\ next' \in [Nodes -> 1..14] /\ next'[n] = 1
      /\ \A m \in Nodes \ {n} : next'[m] = next[m]
  <2>1. CASE ObtainFails(n)
    BY <1>0, <2>1 DEF ObtainFails
  <2>2. CASE ~ ObtainFails(n)
    <3>1. next' = next /\ stage[n] # "open"
      BY <2>2 DEF Connected, OobFails, Enable, ExchangeAddr
    <3> QED
      BY <1>0, <1>2, <3>1 DEF Progress
  <2> QED
    BY <2>1, <2>2
<1>4. /\ stage' \in [Nodes -> Stages]
      /\ stage'[n] \in {"open", "enable", "addr", "sync", "loop", "close"}
      /\ \A m \in Nodes \ {n} : stage'[m] = stage[m]
  <2>1. CASE Return(n)
    BY <1>0, <2>1, ReturnIs
  <2>2. CASE GoTo(n, "open") \/ GoTo(n, "addr")
    BY <1>0, <2>2, GoToIs DEF Stages
  <2> QED
    BY <2>1, <2>2 DEF Connected, OobFails, ObtainFails, Enable, ExchangeAddr
<1> QED
  BY <1>1, <1>2, <1>3, <1>4, StageKeeps

\* A worker that goes on without an endpoint crashes, and holds nothing then.
LEMMA CrashKeeps ==
  ASSUME IInv, Crash
  PROVE  IInv'
<1>1. Typed'
  BY DEF IInv, Typed, Crash, modes, sockets
<1>2. \A m \in Nodes : Progress(m)'
  BY DEF IInv, Progress, Crash
<1>3. \A m \in Nodes : Owning(m)'
  BY DEF IInv, Owning, Owned, Crash, sockets
<1> QED
  BY <1>1, <1>2, <1>3 DEF IInv

LEMMA WorkKeeps ==
  ASSUME IInv, NEW n \in Nodes, Sync(n) \/ Loop(n)
  PROVE  IInv'
<1>1. CASE Crash
  BY <1>1, CrashKeeps
<1>2. CASE ~ Crash
  <2>1. /\ stage[n] \in {"sync", "loop"} /\ (GoTo(n, "loop") \/ GoTo(n, "close"))
        /\ UNCHANGED <<modes, sockets, crashed, held, next>>
    BY <1>2 DEF Sync, Loop, sockets
  <2>2. /\ Typed /\ next \in [Nodes -> 1..14] /\ next[n] = 1
    BY <2>1 DEF IInv, Typed, Progress
  <2>3. /\ stage' \in [Nodes -> Stages] /\ stage'[n] \in {"loop", "close"}
        /\ \A m \in Nodes \ {n} : stage'[m] = stage[m]
    BY <2>1, <2>2, GoToIs DEF Stages
  <2> QED
    BY <2>1, <2>2, <2>3, StageKeeps
<1> QED
  BY <1>1, <1>2

\* ft_init_fabric opens the next resource.
LEMMA ObtainKeeps ==
  ASSUME IInv, NEW n \in Nodes, Obtain(n)
  PROVE  IInv'
<1> DEFINE k == next[n]
           more == {r \in {SetUp[k]} : Wanted(r)}
<1>0. /\ stage[n] = "open" /\ held' = [held EXCEPT ![n] = @ \cup more]
      /\ \/ k = 12 /\ GoTo(n, "enable") /\ next' = [next EXCEPT ![n] = 1]
         \/ k # 12 /\ stage' = stage /\ next' = [next EXCEPT ![n] = @ + 1]
      /\ UNCHANGED <<modes, sockets, crashed>>
  BY SetUpIs DEF Obtain
<1>1. Typed /\ Progress(n) /\ \A m \in Nodes : Progress(m) /\ Owning(m)
  BY DEF IInv
<1>2. k \in 1..12 /\ next \in [Nodes -> 1..14] /\ held \in [Nodes -> SUBSET Names]
      /\ stage \in [Nodes -> Stages]
  BY <1>0, <1>1 DEF Progress, Typed
<1>3. more \subseteq Names /\ (Wanted(SetUp[k]) => SetUp[k] \in more)
  BY <1>2, SetUpIs DEF Names
<1> HIDE DEF more, k
<1>4. /\ held' \in [Nodes -> SUBSET Names] /\ held'[n] = held[n] \cup more
      /\ \A m \in Nodes \ {n} : held'[m] = held[m]
  BY <1>0, <1>2, <1>3
<1>5. /\ next' \in [Nodes -> 1..14] /\ stage' \in [Nodes -> Stages]
      /\ \A m \in Nodes \ {n} : next'[m] = next[m] /\ stage'[m] = stage[m]
      /\ \/ stage'[n] = "enable" /\ next'[n] = 1
         \/ k # 12 /\ stage'[n] = "open" /\ next'[n] = k + 1
  <2>1. CASE k = 12
    BY <1>0, <1>1, <1>2, <2>1, GoToIs DEF Stages
  <2>2. CASE k # 12
    <3>1. stage' = stage /\ next' = [next EXCEPT ![n] = k + 1] /\ k + 1 \in 1..14
      BY <1>0, <1>2, <2>2 DEF k
    <3> QED
      BY <1>0, <1>2, <2>2, <3>1
  <2> QED
    BY <2>1, <2>2
<1>6. Typed'
  BY <1>0, <1>1, <1>4, <1>5 DEF Typed, modes, sockets
<1>7. Progress(n)'
  <2>1. CASE stage'[n] = "enable" /\ next'[n] = 1
    BY <2>1, ProgressStarts
  <2>2. CASE k # 12 /\ stage'[n] = "open" /\ next'[n] = k + 1
    <3>1. next'[n] \in 1..12
      BY <1>2, <2>2
    <3>2. ASSUME ~ crashed, NEW i \in 1..(next'[n] - 1), Wanted(SetUp[i])
          PROVE  SetUp[i] \in held'[n]
      <4>1. i \in 1..(k - 1) \/ i = k
        BY <1>2, <2>2
      <4> QED
        BY <1>0, <1>1, <1>3, <1>4, <3>2, <4>1 DEF Progress, k
    <3> QED
      BY <1>0, <2>2, <3>1, <3>2 DEF Progress, Wanted, modes
  <2> QED
    BY <1>5, <2>1, <2>2
<1>8. \A m \in Nodes : Progress(m)'
  BY <1>0, <1>1, <1>4, <1>5, <1>7, ProgressElsewhere DEF modes
<1>9. ASSUME NEW m \in Nodes
      PROVE  Owning(m)'
  <2>1. CASE m = n
    BY <1>0, <1>1, <1>5, <2>1, OwningPasses
  <2>2. CASE m # n
    BY <1>0, <1>1, <1>5, <2>2, OwningElsewhere DEF sockets, Owned
  <2> QED
    BY <2>1, <2>2
<1> QED
  BY <1>6, <1>8, <1>9 DEF IInv
\* --fabinfo asks for the description of the provider, no more.
LEMMA GetInfoKeeps ==
  ASSUME IInv, NEW n \in Nodes, GetInfo(n)
  PROVE  IInv'
<1>0. /\ stage[n] = "info" /\ GoTo(n, "close") /\ UNCHANGED <<modes, next, sockets, crashed>>
      /\ \/ held' = [held EXCEPT ![n] = @ \cup {"fi"}]
         \/ held' = held
  BY DEF GetInfo
<1>1. Typed /\ \A m \in Nodes : Progress(m) /\ Owning(m)
  BY DEF IInv
<1>2. /\ held' \in [Nodes -> SUBSET Names]
      /\ \A m \in Nodes \ {n} : held'[m] = held[m]
  BY <1>0, <1>1 DEF Typed, Names
<1>3. /\ stage' \in [Nodes -> Stages] /\ stage'[n] = "close"
      /\ \A m \in Nodes \ {n} : stage'[m] = stage[m]
  BY <1>0, <1>1, GoToIs DEF Stages
<1>4. Typed'
  BY <1>0, <1>1, <1>2, <1>3 DEF Typed, modes, sockets
<1>5. next'[n] = 1
  BY <1>0, <1>1 DEF Progress
<1>6. ASSUME NEW m \in Nodes
      PROVE  Progress(m)' /\ Owning(m)'
  <2>1. CASE m = n
    BY <1>0, <1>1, <1>3, <1>5, <2>1, ProgressStarts, OwningPasses
  <2>2. CASE m # n
    BY <1>0, <1>1, <1>2, <1>3, <2>2, ProgressElsewhere, OwningElsewhere
    DEF modes, sockets, Owned
  <2> QED
    BY <2>1, <2>2
<1> QED
  BY <1>4, <1>6 DEF IInv

\* Every resource is closed by some step of ft_free_res.
LEMMA AllClosed == \A r \in Names : \E i \in 1..13 : r = TearDown[i]
BY TearDownIs DEF Names

LEMMA CloseKeeps ==
  ASSUME IInv, NEW n \in Nodes, Close(n)
  PROVE  IInv'
<1> DEFINE k == next[n]
<1>0. /\ stage[n] = "close" /\ held' = [held EXCEPT ![n] = @ \ {TearDown[k]}]
      /\ next' = [next EXCEPT ![n] = @ + 1]
      /\ \/ k = 13 /\ GoTo(n, "gone")
         \/ k # 13 /\ stage' = stage
      /\ UNCHANGED <<modes, sockets, crashed>>
  BY TearDownIs DEF Close
<1>1. Typed /\ Progress(n) /\ \A m \in Nodes : Progress(m) /\ Owning(m)
  BY DEF IInv
<1>2. /\ k \in 1..13 /\ next \in [Nodes -> 1..14] /\ held \in [Nodes -> SUBSET Names]
      /\ stage \in [Nodes -> Stages]
      /\ \A i \in 1..(k - 1) : TearDown[i] \notin held[n]
  BY <1>0, <1>1 DEF Progress, Typed
<1>3. /\ held' \in [Nodes -> SUBSET Names] /\ held'[n] = held[n] \ {TearDown[k]}
      /\ \A m \in Nodes \ {n} : held'[m] = held[m]
  BY <1>0, <1>2
<1>4. next' = [next EXCEPT ![n] = k + 1] /\ k + 1 \in 1..14
  BY <1>0, <1>2
<1> HIDE DEF k
<1>5. /\ next' \in [Nodes -> 1..14] /\ next'[n] = k + 1
      /\ \A m \in Nodes \ {n} : next'[m] = next[m]
  BY <1>2, <1>4
<1>6. /\ stage' \in [Nodes -> Stages]
      /\ \A m \in Nodes \ {n} : stage'[m] = stage[m]
      /\ \/ k = 13 /\ stage'[n] = "gone"
         \/ k # 13 /\ stage'[n] = "close"
  BY <1>0, <1>1, <1>2, GoToIs DEF Stages
<1>7. Typed'
  BY <1>0, <1>1, <1>3, <1>5, <1>6 DEF Typed, modes, sockets
<1>8. \A i \in 1..k : TearDown[i] \notin held'[n]
  <2>1. \A i \in 1..k : i \in 1..(k - 1) \/ i = k
    BY <1>2
  <2> QED
    BY <1>2, <1>3, <2>1
<1>9. Progress(n)'
  <2>1. CASE k = 13 /\ stage'[n] = "gone"
    <3>1. held'[n] = {}
      BY <1>3, <1>8, <2>1, AllClosed
    <3> QED
      BY <2>1, <3>1 DEF Progress
  <2>2. CASE k # 13 /\ stage'[n] = "close"
    <3>1. k + 1 \in 1..13 /\ (k + 1) - 1 = k
      BY <1>2, <2>2
    <3> QED
      BY <1>5, <1>8, <2>2, <3>1 DEF Progress
  <2> QED
    BY <1>6, <2>1, <2>2
<1>10. \A m \in Nodes : Progress(m)'
  BY <1>0, <1>1, <1>3, <1>5, <1>6, <1>9, ProgressElsewhere DEF modes
<1>11. ASSUME NEW m \in Nodes
       PROVE  Owning(m)'
  <2>1. CASE m = n
    BY <1>0, <1>1, <1>6, <2>1, OwningPasses
  <2>2. CASE m # n
    BY <1>0, <1>1, <1>6, <2>2, OwningElsewhere DEF sockets, Owned
  <2> QED
    BY <2>1, <2>2
<1> QED
  BY <1>7, <1>10, <1>11 DEF IInv

-----------------------------------------------------------------------------
LEMMA NextIInv == IInv /\ [Next]_vars => IInv'
<1> SUFFICES ASSUME IInv, [Next]_vars
             PROVE  IInv'
  OBVIOUS
<1>1. ASSUME NEW n \in Nodes, Step(n)
      PROVE  IInv'
  BY <1>1, ListenKeeps, AcceptKeeps, CreateSocketKeeps, ConnectFailsKeeps, PassKeeps,
     ObtainKeeps, WorkKeeps, GetInfoKeeps, CloseKeeps DEF Step
<1>2. CASE UNCHANGED vars
  <2>1. Typed'
    BY <1>2 DEF IInv, Typed, vars
  <2>2. \A n \in Nodes : Progress(n)' /\ Owning(n)'
    BY <1>2 DEF IInv, Progress, Wanted, Owning, Owned, vars
  <2> QED
    BY <2>1, <2>2 DEF IInv
<1> QED
  BY <1>1, <1>2 DEF Next, Terminated

\* The invariant of every process.
LEMMA Inductive == Spec => []IInv
  BY InitIInv, NextIInv, PTL DEF Spec

(***************************************************************************)
(* Every variable keeps its type, and a node waits in accept() on a        *)
(* listener of its own, for any number of nodes and descriptors.           *)
(***************************************************************************)
THEOREM TypeCorrect == Spec => []TypeOK
<1>1. IInv => TypeOK
  <2> SUFFICES ASSUME IInv
               PROVE  TypeOK
    OBVIOUS
  <2>1. Typed /\ 1..(Len(TearDown) + 1) = 1..14 /\ Resources = Names
    BY ResourcesAre, TearDownIs DEF IInv
  <2>2. ASSUME NEW n \in Nodes, stage[n] = "accept"
        PROVE  table[listen_sock[n]] = n
    BY <2>2 DEF IInv, Owning, Owned
  <2> QED
    BY <2>1, <2>2 DEF Typed, TypeOK
<1> QED
  BY <1>1, Inductive, PTL

(***************************************************************************)
(* Wherever init() failed, ft_free_res leaves nothing of the fabric open,  *)
(* for any number of nodes (Node::~Node, shared.c:1733).                   *)
(***************************************************************************)
THEOREM ReleasedHolds == Spec => []Released
<1>1. IInv => Released
  BY DEF IInv, Progress, Released
<1> QED
  BY <1>1, Inductive, PTL

(***************************************************************************)
(* However the threads' calls to ft_init_oob interleave, a node whose      *)
(* connect() did not fail has the descriptor in its oob_sock, and no       *)
(* other, for any number of nodes and descriptors (shared.c:793).          *)
(***************************************************************************)
THEOREM SocketKeptHolds == Spec => []SocketKept
<1>1. IInv => SocketKept
  BY DEF IInv, Owning, Owned, SocketKept, HasSocket
<1> QED
  BY <1>1, Inductive, PTL
-----------------------------------------------------------------------------
\* What is opened next has what it needs, ...
LEMMA NeedsHeld ==
  ASSUME IInv, ~ crashed, NEW n \in Nodes, stage[n] = "open"
  PROVE  Needs(SetUp[next[n]]) \subseteq held[n]
<1> DEFINE k == next[n]
           has(i) == SetUp[i] \in held[n]
<1>1. k \in 1..12 /\ \A i \in 1..(k - 1) : Wanted(SetUp[i]) => SetUp[i] \in held[n]
  BY DEF IInv, Progress
<1>2. \A i \in 1..12 : Wanted(SetUp[i]) \/ i = 6
  BY SetUpIs DEF Wanted
<1> HIDE DEF k
<1>3. \A i \in {2, 4, 5, 9, 10, 11} : i < k => SetUp[i] \in held[n]
  BY <1>1, <1>2
<1>4. Needs(SetUp[k]) \subseteq held[n]
  <2>1. CASE k \in {1, 2, 5, 7, 8}
    BY <2>1, SetUpIs DEF Needs
  <2>2. CASE k \in {3, 4}
    BY <1>3, <2>2, SetUpIs DEF Needs
  <2>3. CASE k \in {9, 10, 11}
    BY <1>3, <2>3, SetUpIs DEF Needs
  <2>4. CASE k = 6
    BY <1>3, <2>4, SetUpIs DEF Needs
  <2>5. CASE k = 12
    BY <1>3, <2>5, SetUpIs DEF Needs
  <2> QED
    BY <1>1, <2>1, <2>2, <2>3, <2>4, <2>5
<1> QED
  BY <1>4 DEF k

\* ... and nothing that is still held needs what is closed next.
LEMMA NobodyNeeds ==
  ASSUME IInv, NEW n \in Nodes, stage[n] = "close", NEW d \in held[n]
  PROVE  TearDown[next[n]] \notin Needs(d)
<1> DEFINE k == next[n]
<1>1. k \in 1..13 /\ \A i \in 1..(k - 1) : TearDown[i] \notin held[n]
  BY DEF IInv, Progress
<1>2. d \in Names
  BY DEF IInv, Typed
<1> HIDE DEF k
<1>3. PICK j \in 1..13 : d = TearDown[j]
  BY <1>2, AllClosed
<1>4. j >= k
  BY <1>1, <1>3
<1>5. TearDown[k] \notin Needs(TearDown[j])
  <2>1. CASE j \in {1, 2, 10, 11, 12, 13}
    BY <2>1, TearDownIs DEF Needs
  <2>2. CASE j = 3
    BY <1>1, <1>4, <2>2, TearDownIs DEF Needs
  <2>3. CASE j \in {4, 5, 7}
    BY <1>1, <1>4, <2>3, TearDownIs DEF Needs
  <2>4. CASE j = 6
    BY <1>1, <1>4, <2>4, TearDownIs DEF Needs
  <2>5. CASE j \in {8, 9}
    BY <1>1, <1>4, <2>5, TearDownIs DEF Needs
  <2> QED
    BY <2>1, <2>2, <2>3, <2>4, <2>5
<1> QED
  BY <1>3, <1>5 DEF k

LEMMA StepRefines == IInv /\ [Next]_vars => [Tree!Next]_held
<1> SUFFICES ASSUME IInv, [Next]_vars, held' # held
             PROVE  Tree!Next
  OBVIOUS
<1>0. held \in [Nodes -> SUBSET Names] /\ Resources = Names
  BY ResourcesAre DEF IInv, Typed
<1>1. PICK n \in Nodes : Step(n)
  BY DEF Next, Terminated, vars
<1>2. CASE Obtain(n)
  <2> DEFINE r == SetUp[next[n]]
  <2>1. /\ stage[n] = "open" /\ ~ crashed
        /\ held' = [held EXCEPT ![n] = @ \cup {x \in {r} : Wanted(x)}]
    BY <1>1, <1>2 DEF Step, Obtain
  <2>2. r \in Names
    BY <2>1, SetUpIs DEF IInv, Progress, Names
  <2>3. Needs(r) \subseteq held[n]
    BY <2>1, NeedsHeld
  <2> HIDE DEF r
  <2>4. Wanted(r) /\ r \notin held[n]
    <3>1. CASE ~ Wanted(r)
      BY <1>0, <2>1, <3>1
    <3>2. CASE r \in held[n]
      BY <1>0, <2>1, <3>2
    <3> QED
      BY <3>1, <3>2
  <2>5. held' = [held EXCEPT ![n] = @ \cup {r}]
    BY <2>1, <2>4
  <2>6. Tree!Open(n)
    BY <1>0, <2>2, <2>3, <2>4, <2>5 DEF Tree!Open
  <2> QED
    BY <2>6 DEF Tree!Next
<1>3. CASE GetInfo(n)
  <2>1. held' = [held EXCEPT ![n] = @ \cup {"fi"}]
    BY <1>3 DEF GetInfo
  <2>2. "fi" \notin held[n]
    BY <1>0, <2>1
  <2>3. "fi" \in Resources /\ Needs("fi") = {}
    BY <1>0 DEF Names, Needs
  <2>4. Tree!Open(n)
    BY <2>1, <2>2, <2>3 DEF Tree!Open
  <2> QED
    BY <2>4 DEF Tree!Next
<1>4. CASE Close(n)
  <2> DEFINE r == TearDown[next[n]]
  <2>1. stage[n] = "close" /\ held' = [held EXCEPT ![n] = @ \ {r}]
    BY <1>4 DEF Close
  <2>2. \A d \in held[n] : r \notin Needs(d)
    BY <2>1, NobodyNeeds
  <2> HIDE DEF r
  <2>3. r \in held[n]
    BY <1>0, <2>1
  <2>4. Tree!Close(n)
    BY <2>1, <2>2, <2>3 DEF Tree!Close
  <2> QED
    BY <2>4 DEF Tree!Next
<1>5. CASE Sync(n) \/ Loop(n)
  <2>1. Crash
    BY <1>5 DEF Sync, Loop
  <2>2. Tree!End
    BY <2>1 DEF Crash, Tree!End
  <2> QED
    BY <2>2 DEF Tree!Next
<1>6. ~ (\/ Listen(n) \/ Accept(n) \/ CreateSocket(n) \/ Connected(n) \/ ConnectFails(n)
         \/ OobFails(n) \/ ObtainFails(n) \/ Enable(n) \/ ExchangeAddr(n))
  BY DEF Listen, Accept, CreateSocket, Connected, ConnectFails, OobFails, ObtainFails,
     Enable, ExchangeAddr
<1> QED
  BY <1>1, <1>2, <1>3, <1>4, <1>5, <1>6 DEF Step

(***************************************************************************)
(* ft_init_fabric opens every resource after those it is made from, and    *)
(* ft_free_res closes it before them, wherever init() failed and whatever  *)
(* the caller makes of that, for any number of nodes.                      *)
(***************************************************************************)
THEOREM Refines == Spec => ImplementsTree
<1>1. Init => Tree!Init
  BY DEF Init, Tree!Init
<1> QED
  BY <1>1, StepRefines, Inductive, PTL DEF Spec, ImplementsTree, Tree!Spec
=============================================================================
