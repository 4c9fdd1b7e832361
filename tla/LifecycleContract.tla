-------------------------- MODULE LifecycleContract --------------------------
(***************************************************************************)
(* The refinement mapping under which Lifecycle implements Contract.  The  *)
(* phase of a service is read off its runs: a run under way makes it "up", *)
(* an armed timer "backoff"; a launched service with neither is "down".    *)
(***************************************************************************)
EXTENDS Lifecycle

Up(s) == \E r \in Run : SvcOf[r] = s /\ pc[r] \in UnderWay
Backoff(s) == \E r \in Run : SvcOf[r] = s /\ timer[r] = "armed"

Phase(s) == IF Up(s) THEN "up"
            ELSE IF Backoff(s) THEN "backoff"
            ELSE IF first[s] = None THEN "idle"
            ELSE "down"

C == INSTANCE Contract WITH
       phase <- [s \in Service |-> Phase(s)],
       budget <- counts,
       halted <- cancelled

\* Seen from outside, every service keeps the promise of module Contract: one
\* launch, restarts within the policy and its budget, none once the shutdown
\* began (service.go and restart.go implement what README.md "restart policy"
\* describes).
ImplementsContract == C!CTSpec
=============================================================================
