------------------------------- MODULE Health -------------------------------
(***************************************************************************)
(* The health monitors of health.go: one goroutine per run of a monitored  *)
(* service, started by startService and told to stop by HealthCancel.      *)
(* A check may be under way when the run is stopped, when it is over, or   *)
(* when the shutdown cancels it; its result is acted upon all the same.    *)
(***************************************************************************)
EXTENDS Shutdown

CONSTANTS
  Monitored,  \* services with a health_check
  Flaky,      \* those whose check may fail while the service runs undisturbed
  Retries     \* failures in a row that make a service unhealthy

ASSUME HealthAssumption ==
  /\ Monitored \subseteq Service
  /\ Flaky \subseteq Monitored
  /\ Retries \in Nat \ {0}

VARIABLES
  hm,     \* where the monitor of each run stands
  misses  \* its failureCount, while the monitor counts

hmVars == <<hm, misses>>

HMTypeOK ==
  /\ hm \in [Run -> {"off", "idle", "checking", "unhealthy", "blocked", "done"}]
  /\ misses \in [Run -> 0..(Retries - 1)]

HMInit ==
  /\ hm = [r \in Run |-> "off"]
  /\ misses = [r \in Run |-> 0]

\* startHealthMonitor, as part of Announce.
StartHealthMonitor(r) ==
  /\ hm' = IF SvcOf[r] \in Monitored THEN [hm EXCEPT ![r] = "idle"] ELSE hm
  /\ UNCHANGED misses

\* healthCtx is done: HealthCancel was called (with ReadIntent), or shutdown.
HealthDone(r) == cancelled \/ pc[r] \in (Ending \ {"finishing"}) \cup Returned

MonitorStops(r) ==
  /\ hm[r] = "idle"
  /\ HealthDone(r)
  /\ hm' = [hm EXCEPT ![r] = "done"]
  /\ UNCHANGED <<lcVars, sdVars, misses>>

\* The ticker may win the select although the context is done.
MonitorTicks(r) ==
  /\ hm[r] = "idle"
  /\ hm' = [hm EXCEPT ![r] = "checking"]
  /\ UNCHANGED <<lcVars, sdVars, misses>>

CheckPasses(r) ==
  /\ hm[r] = "checking"
  /\ hm' = [hm EXCEPT ![r] = "idle"]
  /\ misses' = [misses EXCEPT ![r] = 0]
  /\ UNCHANGED <<lcVars, sdVars>>

\* The service answers its check as long as nobody stops it.
Undisturbed(r) ==
  pc[r] = "waiting" /\ proc[r] = "alive" /\ ~stopped[r] /\ ~cancelled

\* Mutant of CheckFails: one failure more than retries is tolerated.
CheckFailsLate(r) ==
  /\ hm[r] = "checking"
  /\ SvcOf[r] \in Flaky \/ ~Undisturbed(r)
  /\ misses' = [misses EXCEPT ![r] = @ + 1]
  /\ hm' = [hm EXCEPT ![r] = IF misses[r] >= Retries THEN "unhealthy" ELSE "idle"]
  /\ UNCHANGED <<lcVars, sdVars>>

\* The failure that makes `retries` in a row ends the monitor and its count.
CheckFails(r) ==
  /\ hm[r] = "checking"
  /\ SvcOf[r] \in Flaky \/ ~Undisturbed(r)
  /\ IF misses[r] + 1 >= Retries
     THEN hm' = [hm EXCEPT ![r] = "unhealthy"] /\ misses' = [misses EXCEPT ![r] = 0]
     ELSE hm' = [hm EXCEPT ![r] = "idle"] /\ misses' = [misses EXCEPT ![r] = @ + 1]
  /\ UNCHANGED <<lcVars, sdVars>>

-----------------------------------------------------------------------------
(* handleUnhealthyService.                                                 *)

HasPolicy(s) == Restart[s] \in {"always", "on-failure"}

RestartUnhealthy(r) ==
  /\ hm[r] = "unhealthy"
  /\ HasPolicy(SvcOf[r])
  /\ hm' = [hm EXCEPT ![r] = "done"]
  /\ RequestStop(r, "policy") \/ (intent[r] # "none" /\ UNCHANGED lcVars)
  /\ UNCHANGED <<sdVars, misses>>

\* Without a policy a required service brings the system down, any other is
\* left alone.
UnhealthyWithoutPolicy(r) ==
  /\ hm[r] = "unhealthy"
  /\ ~HasPolicy(SvcOf[r])
  /\ IF SvcOf[r] \in Required
     THEN TriggerServiceFailureShutdown /\ hm' = [hm EXCEPT ![r] = "blocked"]
     ELSE UNCHANGED sdVars /\ hm' = [hm EXCEPT ![r] = "done"]
  /\ UNCHANGED <<lcVars, misses>>

UnhealthyReturns(r) ==
  /\ hm[r] = "blocked"
  /\ ShutdownOver
  /\ hm' = [hm EXCEPT ![r] = "done"]
  /\ UNCHANGED <<lcVars, sdVars, misses>>
=============================================================================
