---------------------------- MODULE ResourceTree ----------------------------
(***************************************************************************)
(* What libfabric asks of those who use it, for several independent        *)
(* owners: a resource is opened after those it is made from, and closed    *)
(* before them.  (fi_close of a domain, CQ or AV that something still      *)
(* depends on is refused with -FI_EBUSY, and FT_CLOSE_FID would forget it  *)
(* all the same.)                                                          *)
(***************************************************************************)
CONSTANTS
    Owners,
    Resources,
    Needs(_)           \* the resources one is made from, or works on

VARIABLE held          \* the open resources of each owner

Init == held = [o \in Owners |-> {"hints"}]

Open(o) ==
    \E r \in Resources \ held[o] :
        /\ Needs(r) \subseteq held[o]
        /\ held' = [held EXCEPT ![o] = @ \cup {r}]

Close(o) ==
    \E r \in held[o] :
        /\ \A d \in held[o] : r \notin Needs(d)
        /\ held' = [held EXCEPT ![o] = @ \ {r}]

\* The process ends, and its resources with it.
End == held' = [o \in Owners |-> {}]

Next == End \/ \E o \in Owners : Open(o) \/ Close(o)

Spec == Init /\ [][Next]_held
=============================================================================
