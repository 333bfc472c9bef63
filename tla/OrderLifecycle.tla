---------------------------- MODULE OrderLifecycle ----------------------------
(***************************************************************************)
(* What the paper engine promises about one order, stated without          *)
(* accounts, prices, callbacks or coroutines: an order is opened once,     *)
(* and then either executed in full, exactly once, or cancelled, and both  *)
(* outcomes are final.  PaperEngine is shown to implement this module (the *)
(* refinement mapping is in PaperEngine).                                  *)
(***************************************************************************)
EXTENDS Naturals

CONSTANT OrderIds

VARIABLES
    stage,      \* stage[o]: how far order o has come
    executions  \* executions[o]: how many fills were recorded for o

vars == <<stage, executions>>

Stage == {"unplaced", "open", "filled", "cancelled"}

TypeOK ==
    /\ stage \in [OrderIds -> Stage]
    /\ executions \in [OrderIds -> Nat]

Init ==
    /\ stage = [o \in OrderIds |-> "unplaced"]
    /\ executions = [o \in OrderIds |-> 0]

Open(o) ==
    /\ stage[o] = "unplaced"
    /\ stage' = [stage EXCEPT ![o] = "open"]
    /\ UNCHANGED executions

Execute(o) ==
    /\ stage[o] = "open"
    /\ stage' = [stage EXCEPT ![o] = "filled"]
    /\ executions' = [executions EXCEPT ![o] = @ + 1]

Cancel(o) ==
    /\ stage[o] = "open"
    /\ stage' = [stage EXCEPT ![o] = "cancelled"]
    /\ UNCHANGED executions

Next == \E o \in OrderIds : Open(o) \/ Execute(o) \/ Cancel(o)

Spec == Init /\ [][Next]_vars

===============================================================================
