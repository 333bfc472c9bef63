------------------------------ MODULE MCLinks ------------------------------
(* A link of WsLink, or one of VenueLink: in each behaviour one of the two  *)
(* runs, and the other stays as it began.  Two streams and two restarts an  *)
(* hour for WsLink; VenueLink needs no bounds.                              *)
EXTENDS MCWsLink, VenueLink

VARIABLE focus    \* the module that runs

LinksInit ==
    /\ focus \in {"binance", "venue"}
    /\ Init /\ LinkInit
    /\ focus # "venue" => client = "okx"

LinksNext ==
    /\ UNCHANGED focus
    /\ \/ focus = "binance" /\ Next /\ UNCHANGED linkVars
       \/ focus = "venue" /\ LinkNext /\ UNCHANGED vars

LinksSpec ==
    /\ LinksInit /\ [][LinksNext]_<<focus, vars, linkVars>>
    /\ focus = "binance" => Fairness
    /\ focus = "venue" => LinkFairness

\* Every component keeps to its types.
LinksTypeOK == TypeOK /\ LinkTypeOK

\* Both loops do what a stop relies on: no attempt begins once it is asked for.
LoopsKeepPromise == LoopSpec /\ LinkLoopSpec

=============================================================================
