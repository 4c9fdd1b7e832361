------------------------------ MODULE MCOutput ------------------------------
(***************************************************************************)
(* A service with a terminal and a descendant, and a script of runTracked, *)
(* each with a PID of its own.                                             *)
(***************************************************************************)
EXTENDS Output, TLC

CONSTANTS t1, t2, d1, d2

Pids == t1 :> 1 @@ t2 :> 2 @@ d1 :> 3 @@ d2 :> 4
MCPidOf == [p \in Proc |-> Pids[p]]
MCParentOf == [d \in Descendant |-> t1]
=============================================================================
