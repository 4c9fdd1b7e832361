---------------------------- MODULE MCSupervisor ----------------------------
(***************************************************************************)
(* Two services for Supervisor: "a", restarted on failure at most once,    *)
(* and the one-shot job "j" it depends on and settles after.  Each run     *)
(* chooses which of them exist and which features surround them.           *)
(***************************************************************************)
EXTENDS Supervisor, TLC

CONSTANTS a, j, a1, a2, j1, j2, c1

MCSvcOf == [r \in Run |-> IF r \in {j1, j2} THEN j ELSE a]
MCRestart == [s \in Service |-> IF s = a THEN "on-failure" ELSE "never"]
MCNever == [s \in Service |-> "never"]
MCMaxRestarts == [s \in Service |-> IF s = a THEN 1 ELSE 0]
MCDependsOn == [s \in Service |-> IF s = a /\ j \in Service THEN <<j>> ELSE <<>>]
MCWaitAfter == [s \in Service |-> IF s = a /\ j \in Service THEN {j} ELSE {}]

\* Runs of one service are interchangeable: let them be used in this order.
InOrder ==
  /\ a2 \in Run => (pc'[a2] # "unused" => pc'[a1] # "unused")
  /\ j2 \in Run => (pc'[j2] # "unused" => pc'[j1] # "unused")

\* Bound: the monitor of a run is gone before its successor gets one.  It may
\* still be at work when the successor is started, spawned and registered.
OneMonitor ==
  a2 \in Run => (hm'[a2] # "off" => hm'[a1] \in {"off", "done"})
=============================================================================
