----------------------------- MODULE Lifecycle -----------------------------
(***************************************************************************)
(* The resources of the nodes of one process, each with a thread of its    *)
(* own, from Node::Node to Node::~Node: the fabric resources that          *)
(* ft_init_fabric opens one by one and ft_free_res closes, and the sockets *)
(* of the out-of-band connection, whose descriptor numbers all threads     *)
(* draw from one table.                                                    *)
(*                                                                         *)
(* Any step of ft_init_fabric may fail; then the rest is skipped.  What    *)
(* happens next depends on the caller: the benchmark workers ignore the    *)
(* result and go on with sync(); another program over libefa may check it  *)
(* and destroy the node; --fabinfo only asks for the provider's            *)
(* description and never calls init().                                     *)
(***************************************************************************)
EXTENDS Naturals, Sequences

CONSTANTS
    Nodes,        \* the nodes, one per --threads
    Nobody,       \* the owner of a free descriptor
    Fds,          \* descriptor numbers
    NoFd          \* -1

ASSUME LifecycleAssumption == Nobody \notin Nodes /\ NoFd \notin Fds

VARIABLES
    server,       \* --mode
    oob,          \* FT_OPT_OOB_CTRL: provider efa
    registers,    \* local memory must be registered, or RMA is used
    caller,       \* who uses each node: "worker", "careful" or "info"
    stage,        \* where each node is
    held,         \* the fabric resources it holds
    next,         \* the next one of SetUp, or of TearDown
    listen_sock,  \* ctx->listen_sock
    oob_sock,     \* ctx->oob_sock
    table,        \* the process' descriptors: the node that opened each
    unconnected,  \* ghost: nodes whose connect() failed
    crashed       \* a NULL endpoint was used

modes == <<server, oob, registers, caller>>
sockets == <<listen_sock, oob_sock, table, unconnected>>
vars == <<server, oob, registers, caller, stage, held, next,
          listen_sock, oob_sock, table, unconnected, crashed>>

(***************************************************************************)
(* The resources in the order in which ft_init_fabric opens them.  No      *)
(* benchmark asks for counters, a shared CQ or several regions.            *)
(***************************************************************************)
FabricRes == <<"fabric", "eq", "domain">>
Msgs == <<"buf", "mr">>
CtxArrays == <<"tx_ctx_arr", "rx_ctx_arr">>
EpRes == <<"txcq", "rxcq", "av">>

SetUp == <<"fi">> \o FabricRes \o Msgs \o CtxArrays \o EpRes \o <<"ep">>

\* Variants, used by no specification: the domain is closed before the
\* address vector, ...
CloseFidsEarlyDomain ==
    <<"ep", "rxcq", "txcq", "mr", "domain", "av", "eq", "fabric">>

\* ... or one CQ is forgotten.
CloseFidsOneCq == <<"ep", "txcq", "mr", "av", "domain", "eq", "fabric">>

CloseFids == <<"ep", "rxcq", "txcq", "mr", "av", "domain", "eq", "fabric">>

TearDown == CtxArrays \o CloseFids \o <<"buf", "fi", "hints">>

Resources == {SetUp[i] : i \in 1..Len(SetUp)} \cup {"hints"}

\* What libfabric wants open while a resource is: the endpoint is bound to
\* its CQs and AV, and receives into the buffer.
Needs(r) ==
    CASE r \in {"eq", "domain"} -> {"fabric"}
      [] r \in {"txcq", "rxcq", "av"} -> {"domain"}
      [] r = "mr" -> {"domain", "buf"}
      [] r = "ep" -> {"domain", "txcq", "rxcq", "av", "buf"}
      [] OTHER -> {}

Stages == {"oob", "accept", "connect", "open", "enable", "addr", "sync", "loop",
           "info", "close", "gone"}

Init ==
    /\ server \in BOOLEAN
    /\ oob \in BOOLEAN
    /\ registers \in BOOLEAN
    /\ caller \in [Nodes -> {"worker", "careful"}] \cup [Nodes -> {"info"}]
    /\ stage = [n \in Nodes |-> IF caller[n] = "info" THEN "info"
                                ELSE IF oob THEN "oob" ELSE "open"]
    /\ held = [n \in Nodes |-> {"hints"}]
    /\ next = [n \in Nodes |-> 1]
    /\ listen_sock = [n \in Nodes |-> NoFd]
    /\ oob_sock = [n \in Nodes |-> NoFd]
    /\ table = [f \in Fds |-> Nobody]
    /\ unconnected = {}
    /\ crashed = FALSE

GoTo(n, s) == stage' = [stage EXCEPT ![n] = s]

\* init() returns, well or not.
Return(n) == GoTo(n, IF caller[n] = "worker" THEN "sync" ELSE "close")

-----------------------------------------------------------------------------
(***************************************************************************)
(* ft_init_oob.                                                            *)
(***************************************************************************)
Free(f) == table[f] = Nobody

\* Variant, used by no specification: the clean-up after label "out" closes
\* the listener whatever ret is.
ListenAlwaysCloses(n) ==
    /\ stage[n] = "oob" /\ server
    /\ \E f \in Fds :
          /\ Free(f)
          /\ listen_sock' = [listen_sock EXCEPT ![n] = f]
    /\ GoTo(n, "accept")
    /\ UNCHANGED <<modes, held, next, table, oob_sock, unconnected, crashed>>

Listen(n) ==
    /\ stage[n] = "oob" /\ server
    /\ \E f \in Fds :
          /\ Free(f)
          /\ table' = [table EXCEPT ![f] = n]
          /\ listen_sock' = [listen_sock EXCEPT ![n] = f]
    /\ GoTo(n, "accept")
    /\ UNCHANGED <<modes, held, next, oob_sock, unconnected, crashed>>

\* Variant, used by no specification: the new socket is closed in place of
\* the listener.
AcceptClosesNew(n) ==
    /\ stage[n] = "accept"
    /\ \E f \in Fds :
          /\ Free(f)
          /\ oob_sock' = [oob_sock EXCEPT ![n] = f]
    /\ GoTo(n, "open")
    /\ UNCHANGED <<modes, held, next, table, listen_sock, unconnected, crashed>>

\* The listener is closed when the connection is there.  ft_sock_setup may
\* still fail.
Accept(n) ==
    /\ stage[n] = "accept"
    /\ \E f \in Fds :
          /\ Free(f)
          /\ oob_sock' = [oob_sock EXCEPT ![n] = f]
          /\ table' = [table EXCEPT ![f] = n, ![listen_sock[n]] = Nobody]
    /\ GoTo(n, "open") \/ Return(n)
    /\ UNCHANGED <<modes, held, next, listen_sock, unconnected, crashed>>

CreateSocket(n) ==
    /\ stage[n] = "oob" /\ ~ server
    /\ \E f \in Fds :
          /\ Free(f)
          /\ oob_sock' = [oob_sock EXCEPT ![n] = f]
          /\ table' = [table EXCEPT ![f] = n]
    /\ GoTo(n, "connect")
    /\ UNCHANGED <<modes, held, next, listen_sock, unconnected, crashed>>

Connected(n) ==
    /\ stage[n] = "connect"
    /\ GoTo(n, "open") \/ Return(n)
    /\ UNCHANGED <<modes, held, next, sockets, crashed>>

\* connect() fails: the socket is closed, but its number is kept.
ConnectFails(n) ==
    /\ stage[n] = "connect"
    /\ table' = [table EXCEPT ![oob_sock[n]] = Nobody]
    /\ unconnected' = unconnected \cup {n}
    /\ Return(n)
    /\ UNCHANGED <<modes, held, next, listen_sock, oob_sock, crashed>>

\* getaddrinfo, socket, bind, listen, listen or accept fails.  A
\* listener whose accept() failed stays open.
OobFails(n) ==
    /\ stage[n] \in {"oob", "accept"}
    /\ Return(n)
    /\ UNCHANGED <<modes, held, next, sockets, crashed>>

(***************************************************************************)
(* ft_getinfo, ft_open_fabric_res, ft_alloc_active_res.                    *)
(***************************************************************************)
\* Not every resource is there to be opened.
Wanted(r) == r = "mr" => registers

Obtain(n) ==
    /\ stage[n] = "open"
    /\ held' = [held EXCEPT ![n] = @ \cup {r \in {SetUp[next[n]]} : Wanted(r)}]
    /\ IF next[n] = Len(SetUp)
       THEN GoTo(n, "enable") /\ next' = [next EXCEPT ![n] = 1]
       ELSE UNCHANGED stage /\ next' = [next EXCEPT ![n] = @ + 1]
    /\ UNCHANGED <<modes, sockets, crashed>>

ObtainFails(n) ==
    /\ stage[n] = "open"
    /\ Return(n)
    /\ next' = [next EXCEPT ![n] = 1]
    /\ UNCHANGED <<modes, held, sockets, crashed>>

\* ft_enable_ep_recv, which may fail, and ft_init_av.
Enable(n) ==
    /\ stage[n] = "enable"
    /\ GoTo(n, "addr") \/ Return(n)
    /\ UNCHANGED <<modes, held, next, sockets, crashed>>

ExchangeAddr(n) ==
    /\ stage[n] = "addr"
    /\ Return(n)
    /\ UNCHANGED <<modes, held, next, sockets, crashed>>

(***************************************************************************)
(* A worker goes on with sync(), over TCP or the endpoint, and with its    *)
(* loop.  Without fi, buffer and endpoint these dereference NULL.          *)
(***************************************************************************)
Crash ==
    /\ crashed' = TRUE
    /\ held' = [m \in Nodes |-> {}]
    /\ UNCHANGED <<modes, stage, next, sockets>>

HasEp(n) == "ep" \in held[n]

Sync(n) ==
    /\ stage[n] = "sync"
    /\ IF oob \/ HasEp(n)
       THEN GoTo(n, "loop") /\ UNCHANGED <<modes, held, next, sockets, crashed>>
       ELSE Crash

Loop(n) ==
    /\ stage[n] = "loop"
    /\ IF HasEp(n)
       THEN GoTo(n, "close") /\ UNCHANGED <<modes, held, next, sockets, crashed>>
       ELSE Crash

\* --fabinfo: Node::printFabricInfo.
GetInfo(n) ==
    /\ stage[n] = "info"
    /\ \/ held' = [held EXCEPT ![n] = @ \cup {"fi"}]
       \/ UNCHANGED held
    /\ GoTo(n, "close")
    /\ UNCHANGED <<modes, next, sockets, crashed>>

(***************************************************************************)
(* Node::~Node: ft_free_res, one resource at a time.  It knows nothing of  *)
(* the sockets.                                                            *)
(***************************************************************************)
Close(n) ==
    /\ stage[n] = "close"
    /\ held' = [held EXCEPT ![n] = @ \ {TearDown[next[n]]}]
    /\ next' = [next EXCEPT ![n] = @ + 1]
    /\ IF next[n] = Len(TearDown) THEN GoTo(n, "gone") ELSE UNCHANGED stage
    /\ UNCHANGED <<modes, sockets, crashed>>

Step(n) ==
    /\ ~ crashed
    /\ \/ Listen(n) \/ Accept(n)
       \/ CreateSocket(n) \/ Connected(n) \/ ConnectFails(n)
       \/ OobFails(n)
       \/ Obtain(n) \/ ObtainFails(n)
       \/ Enable(n) \/ ExchangeAddr(n)
       \/ Sync(n) \/ Loop(n)
       \/ GetInfo(n)
       \/ Close(n)

Terminated ==
    /\ crashed \/ \A n \in Nodes : stage[n] = "gone"
    /\ UNCHANGED vars

Next == (\E n \in Nodes : Step(n)) \/ Terminated

Spec == Init /\ [][Next]_vars

-----------------------------------------------------------------------------
TypeOK ==
    /\ <<server, oob, registers, crashed>> \in BOOLEAN \X BOOLEAN \X BOOLEAN \X BOOLEAN
    /\ caller \in [Nodes -> {"worker", "careful", "info"}]
    /\ stage \in [Nodes -> Stages]
    /\ held \in [Nodes -> SUBSET Resources]
    /\ next \in [Nodes -> 1..(Len(TearDown) + 1)]
    /\ listen_sock \in [Nodes -> Fds \cup {NoFd}]
    /\ oob_sock \in [Nodes -> Fds \cup {NoFd}]
    /\ table \in [Fds -> Nodes \cup {Nobody}]
    /\ unconnected \subseteq Nodes
    /\ \A n \in Nodes : stage[n] = "accept" => table[listen_sock[n]] = n

(***************************************************************************)
(* Wherever init() failed, ft_free_res leaves nothing of the fabric open.  *)
(***************************************************************************)
Released == \A n \in Nodes : stage[n] = "gone" => held[n] = {}

(***************************************************************************)
(* The OOB connection belongs to the node, and is all that is left of      *)
(* ft_init_oob: no other thread gets hold of its descriptor between        *)
(* ft_init_oob and the end of the process.  (Not so after a connect() that *)
(* failed: the number in oob_sock may then be another node's, and a worker *)
(* that ignores the failure syncs over that one's connection.)             *)
(***************************************************************************)
HasSocket(n) ==
    /\ oob_sock[n] # NoFd
    /\ n \notin unconnected

SocketKept ==
    \A n \in Nodes :
        HasSocket(n) => {f \in Fds : table[f] = n} = {oob_sock[n]}

(***************************************************************************)
(* Every fi_close finds nothing that depends on what it closes, whatever   *)
(* subset of the resources there is: the order of ft_free_res              *)
(* (shared.c:1706, :1733) undoes that of ft_init_fabric.                   *)
(***************************************************************************)
Tree == INSTANCE ResourceTree WITH Owners <- Nodes

ImplementsTree == Tree!Spec
=============================================================================
