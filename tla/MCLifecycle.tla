----------------------------- MODULE MCLifecycle -----------------------------
(***************************************************************************)
(* Lifecycle with one service "w", required and restarted on failure at    *)
(* most once, that may fail to start.  Its four runs are enough for the    *)
(* boot launch, a policy restart, an operator restart and another policy   *)
(* restart out of the fresh budget.                                        *)
(***************************************************************************)
EXTENDS LifecycleContract, TLC

CONSTANTS w, w1, w2, w3, w4

MCSvcOf == [r \in Run |-> w]
MCRestart == w :> "on-failure"
MCMaxRestarts == w :> 1

\* Runs of one service are interchangeable: let them be used in this order.
InOrder ==
  /\ pc'[w2] # "unused" => pc'[w1] # "unused"
  /\ pc'[w3] # "unused" => pc'[w2] # "unused"
  /\ pc'[w4] # "unused" => pc'[w3] # "unused"
=============================================================================
