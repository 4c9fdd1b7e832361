------------------------------ MODULE MCReaper ------------------------------
(***************************************************************************)
(* Two supervised processes with a descendant each, every one with a PID   *)
(* of its own.                                                             *)
(***************************************************************************)
EXTENDS Reaper, TLC

CONSTANTS t1, t2, d1, d2

MCPidOf == t1 :> 1 @@ t2 :> 2 @@ d1 :> 3 @@ d2 :> 4
MCParentOf == d1 :> t1 @@ d2 :> t2
=============================================================================
