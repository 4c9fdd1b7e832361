------------------------------- MODULE Startup -------------------------------
(***************************************************************************)
(* The boot sequence: startAllServices runs one processService per enabled *)
(* service (service.go), which runs the pre-script, waits for the          *)
(* dependencies in the order they are listed (deps.go), launches the       *)
(* service next to its post-script, and reports what became of it.  main   *)
(* reads the configuration first, waits for all of them and for the        *)
(* shutdown context, then exits.                                           *)
(***************************************************************************)
EXTENDS Shutdown, Sequences

CONSTANTS
  DependsOn,   \* depends_on of each service, in order
  WaitAfter,   \* the dependencies each service has a positive wait_after for
  PreScript,   \* services with a pre_script
  PreMayFail,  \* those whose pre_script may fail
  PostScript   \* services with a pos_script

\* validateDependencies: every dependency is an enabled service, there is no
\* cycle (some ranking of the services puts dependencies first).
ASSUME StartupAssumption ==
  /\ DependsOn \in [Service -> Seq(Service)]
  /\ \E rank \in [Service -> 1..Cardinality(Service)] :
       \A s \in Service : \A i \in DOMAIN DependsOn[s] : rank[DependsOn[s][i]] < rank[s]
  /\ WaitAfter \in [Service -> SUBSET Service]
  /\ PreMayFail \subseteq PreScript

VARIABLES
  sp,      \* where processService of each service stands
  depIx,   \* the dependency it waits for
  post,    \* the goroutine of runPostScript
  ready,   \* dependencyTracker: services whose ready channel is closed
  failed   \* dependencyTracker: services whose failed channel is closed

suVars == <<sp, depIx, post, ready, failed>>

SUTypeOK ==
  /\ sp \in [Service -> {"idle", "pre", "preBlocked", "deps", "settle",
                         "launched", "blocked", "await", "done"}]
  /\ depIx \in [Service -> Nat]
  /\ \A s \in Service : depIx[s] \in 1..(Len(DependsOn[s]) + 1)
  /\ post \in [Service -> {"off", "timer", "script", "done"}]
  /\ ready \subseteq Service
  /\ failed \subseteq Service

SUInit ==
  /\ sp = [s \in Service |-> "idle"]
  /\ depIx = [s \in Service |-> 1]
  /\ post = [s \in Service |-> "off"]
  /\ ready = {}
  /\ failed = {}

\* dependencyTracker.mark closes a channel once and is idempotent.
MarkReady(s) == ready' = ready \cup {s}
MarkFailed(s) == failed' = failed \cup {s}

\* processService looks at the shutdown context before anything else.
BeginService(s) ==
  /\ boot = "services"
  /\ sp[s] = "idle"
  /\ sp' = [sp EXCEPT ![s] = IF cancelled THEN "done"
                             ELSE IF s \in PreScript THEN "pre" ELSE "deps"]
  /\ UNCHANGED <<lcVars, sdVars, depIx, post, ready, failed>>

PreScriptSucceeds(s) ==
  /\ sp[s] = "pre"
  /\ sp' = [sp EXCEPT ![s] = "deps"]
  /\ UNCHANGED <<lcVars, sdVars, depIx, post, ready, failed>>

\* A required service's pre-script triggers the shutdown first and marks the
\* service failed when that is over.
PreScriptFails(s) ==
  /\ sp[s] = "pre"
  /\ s \in PreMayFail
  /\ IF s \in Required
     THEN /\ TriggerServiceFailureShutdown
          /\ sp' = [sp EXCEPT ![s] = "preBlocked"]
          /\ UNCHANGED failed
     ELSE /\ sp' = [sp EXCEPT ![s] = "done"]
          /\ MarkFailed(s)
          /\ UNCHANGED sdVars
  /\ UNCHANGED <<lcVars, depIx, post, ready>>

PreScriptReturns(s) ==
  /\ sp[s] = "preBlocked"
  /\ ShutdownOver
  /\ sp' = [sp EXCEPT ![s] = "done"]
  /\ MarkFailed(s)
  /\ UNCHANGED <<lcVars, sdVars, depIx, post, ready>>

-----------------------------------------------------------------------------
(* waitForServiceDependencies.                                             *)

AwaitsDependency(s) == sp[s] = "deps" /\ depIx[s] <= Len(DependsOn[s])
Dependency(s) == DependsOn[s][depIx[s]]

\* Mutant of DependencyReady: a failed dependency is taken for a ready one.
DependencySettled(s) ==
  /\ AwaitsDependency(s)
  /\ Dependency(s) \in ready \cup failed
  /\ depIx' = [depIx EXCEPT ![s] = @ + 1]
  /\ UNCHANGED <<lcVars, sdVars, sp, post, ready, failed>>

\* Mutant of DependencyReady: the dependency is counted before and after the
\* settling time.
DependencyCountedTwice(s) ==
  /\ AwaitsDependency(s)
  /\ Dependency(s) \in ready
  /\ sp' = [sp EXCEPT ![s] = IF Dependency(s) \in WaitAfter[s] THEN "settle" ELSE @]
  /\ depIx' = [depIx EXCEPT ![s] = @ + 1]
  /\ UNCHANGED <<lcVars, sdVars, post, ready, failed>>

DependencyReady(s) ==
  /\ AwaitsDependency(s)
  /\ Dependency(s) \in ready
  /\ IF Dependency(s) \in WaitAfter[s]
     THEN sp' = [sp EXCEPT ![s] = "settle"] /\ UNCHANGED depIx
     ELSE depIx' = [depIx EXCEPT ![s] = @ + 1] /\ UNCHANGED sp
  /\ UNCHANGED <<lcVars, sdVars, post, ready, failed>>

\* wait_after passes.
Settled(s) ==
  /\ sp[s] = "settle"
  /\ sp' = [sp EXCEPT ![s] = "deps"]
  /\ depIx' = [depIx EXCEPT ![s] = @ + 1]
  /\ UNCHANGED <<lcVars, sdVars, post, ready, failed>>

\* The service is given up: processService marks it failed and returns.
GiveUp(s) ==
  /\ sp' = [sp EXCEPT ![s] = "done"]
  /\ MarkFailed(s)
  /\ UNCHANGED <<lcVars, sdVars, depIx, post, ready>>

\* Mutant of DependencyFailed: the failed channel is not in the select.
DependencyFailureMissed(s) ==
  AwaitsDependency(s) /\ Dependency(s) \in failed /\ cancelled /\ GiveUp(s)

DependencyFailed(s) == AwaitsDependency(s) /\ Dependency(s) \in failed /\ GiveUp(s)

\* dependency_wait_timeout passes.
DependencyTimeout(s) == AwaitsDependency(s) /\ GiveUp(s)

DependencyCancelled(s) ==
  (AwaitsDependency(s) \/ sp[s] = "settle") /\ cancelled /\ GiveUp(s)

-----------------------------------------------------------------------------
(* The launch, the post-script, and the end of processService.             *)

LaunchService(s, r) ==
  /\ sp[s] = "deps"
  /\ depIx[s] > Len(DependsOn[s])
  /\ LaunchInitial(s, r)
  /\ sp' = [sp EXCEPT ![s] = "launched"]
  /\ post' = [post EXCEPT ![s] = "timer"]
  /\ UNCHANGED <<sdVars, depIx, ready, failed>>

\* Mutant of MarkReadyOnAnnounce: one-shot jobs are marked as well.
MarkEveryoneReady(r) ==
  /\ MarkReady(SvcOf[r])
  /\ UNCHANGED <<sp, depIx, post, failed>>

\* Announce of a service that is not a one-shot job marks it ready.
MarkReadyOnAnnounce(r) ==
  /\ IF SvcOf[r] \in Oneshot THEN UNCHANGED ready ELSE MarkReady(SvcOf[r])
  /\ UNCHANGED <<sp, depIx, post, failed>>

\* Mutant of StartServiceReturned: a failed one-shot job gets no verdict.
ReturnedWithoutVerdict(s) ==
  /\ sp[s] = "launched"
  /\ pc[first[s]] \in Returned
  /\ IF s \in Oneshot /\ pc[first[s]] = "retNil" THEN MarkReady(s) ELSE UNCHANGED ready
  /\ sp' = [sp EXCEPT ![s] = "await"]
  /\ UNCHANGED <<lcVars, sdVars, depIx, post, failed>>

\* processService receives what startService returned.
StartServiceReturned(s) ==
  /\ sp[s] = "launched"
  /\ LET result == pc[first[s]]
     IN /\ result \in Returned
        /\ IF result = "retStartup" \/ (s \in Oneshot /\ result = "retExit")
           THEN MarkFailed(s) ELSE UNCHANGED failed
        /\ IF s \in Oneshot /\ result = "retNil" THEN MarkReady(s) ELSE UNCHANGED ready
        /\ IF result = "retStartup" /\ s \in Required
           THEN TriggerServiceFailureShutdown /\ sp' = [sp EXCEPT ![s] = "blocked"]
           ELSE UNCHANGED sdVars /\ sp' = [sp EXCEPT ![s] = "await"]
  /\ UNCHANGED <<lcVars, depIx, post>>

ServiceErrorHandled(s) ==
  /\ sp[s] = "blocked"
  /\ ShutdownOver
  /\ sp' = [sp EXCEPT ![s] = "await"]
  /\ UNCHANGED <<lcVars, sdVars, depIx, post, ready, failed>>

\* post_script_timeout passes, or the shutdown comes first.
PostScriptTimer(s) ==
  /\ post[s] = "timer"
  /\ post' = [post EXCEPT ![s] = IF s \in PostScript THEN "script" ELSE "done"]
  /\ UNCHANGED <<lcVars, sdVars, sp, depIx, ready, failed>>

PostScriptCancelled(s) ==
  /\ post[s] = "timer"
  /\ cancelled
  /\ post' = [post EXCEPT ![s] = "done"]
  /\ UNCHANGED <<lcVars, sdVars, sp, depIx, ready, failed>>

PostScriptEnds(s) ==
  /\ post[s] = "script"
  /\ post' = [post EXCEPT ![s] = "done"]
  /\ UNCHANGED <<lcVars, sdVars, sp, depIx, ready, failed>>

EndService(s) ==
  /\ sp[s] = "await"
  /\ post[s] = "done"
  /\ sp' = [sp EXCEPT ![s] = "done"]
  /\ UNCHANGED <<lcVars, sdVars, depIx, post, ready, failed>>

-----------------------------------------------------------------------------
(* main: loadServices.                                                     *)

LoadServices ==
  /\ boot = "load"
  /\ boot' = "services"
  /\ UNCHANGED <<lcVars, suVars, listener, exitCode, once, waiter, starter, sig, exited, status>>

\* loadAndValidateConfig fails: run reports a failure whatever exitCode holds.
RejectConfig ==
  /\ boot = "load"
  /\ Exit(Failure)
  /\ UNCHANGED <<lcVars, suVars, boot, listener, exitCode, once, waiter, starter, sig>>

\* startAllServices: wg.Wait, then the shutdown context, then main returns.
MainExit ==
  /\ boot = "services"
  /\ \A s \in Service : sp[s] = "done"
  /\ cancelled
  /\ Exit(exitCode)
  /\ UNCHANGED <<lcVars, suVars, boot, listener, exitCode, once, waiter, starter, sig>>
=============================================================================
