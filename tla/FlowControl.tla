---------------------------- MODULE FlowControl ----------------------------
(***************************************************************************)
(* What every batch benchmark of efa-bench promises, whatever its          *)
(* bookkeeping: it posts operations for a while, never with more than      *)
(* Window of them waiting for their completion, then posts no more,        *)
(* retrieves what is left, and reports its numbers only when every         *)
(* operation it posted has been retrieved.  At any point before that it    *)
(* may give up on an error.                                                *)
(***************************************************************************)
EXTENDS Integers

CONSTANT Window        \* the --batch flag

VARIABLES
    posted,            \* operations posted
    retrieved,         \* completions retrieved
    phase              \* "running", "draining", "stopped" or "aborted"

vars == <<posted, retrieved, phase>>

Phases == {"running", "draining", "stopped", "aborted"}

Init ==
    /\ posted = 0
    /\ retrieved = 0
    /\ phase = "running"

Post ==
    /\ phase = "running"
    /\ posted - retrieved < Window
    /\ posted' = posted + 1
    /\ UNCHANGED <<retrieved, phase>>

Retrieve ==
    /\ phase \in {"running", "draining"}
    /\ retrieved < retrieved' /\ retrieved' <= posted
    /\ UNCHANGED <<posted, phase>>

\* The run time is over.
Expire ==
    /\ phase = "running"
    /\ phase' = "draining"
    /\ UNCHANGED <<posted, retrieved>>

\* Stops once the last completions are in.
Stop ==
    /\ phase = "draining"
    /\ phase' = "stopped"
    /\ retrieved' = posted
    /\ UNCHANGED posted

\* Gives up; the completion that reported the failure may be counted.
Abort ==
    /\ phase \in {"running", "draining"}
    /\ phase' = "aborted"
    /\ retrieved <= retrieved' /\ retrieved' <= posted
    /\ UNCHANGED posted

Next == Post \/ Retrieve \/ Expire \/ Stop \/ Abort

Spec == Init /\ [][Next]_vars
=============================================================================
