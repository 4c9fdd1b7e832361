----------------------------- MODULE Lifecycle -----------------------------
(***************************************************************************)
(* The life of the supervised processes: service.go (startService,        *)
(* finishService, stopRunningService, the activeServices map and its       *)
(* WaitGroup) and restart.go (counters, policy, delayed restarts).         *)
(*                                                                         *)
(* A "run" is one call of startService together with the ServiceProcess it *)
(* creates, its process, its stop intent, and the timer that               *)
(* scheduleRestart may arm for it once it has ended.  The runs of one      *)
(* service share the service's entry in activeServices and its restart     *)
(* counter.  What surrounds the runs -- the boot sequence, the health      *)
(* monitors, the operator, the shutdown -- appears here as actions that    *)
(* may happen at any time; the module Supervisor puts the modelled         *)
(* components in their place and is checked to implement this one.         *)
(***************************************************************************)
EXTENDS Integers, FiniteSets

CONSTANTS
  Service,      \* the enabled services of the configuration
  Run,          \* a bounded supply of calls of startService
  SvcOf,        \* the service each run is a run of
  Restart,      \* the restart policy of each service
  MaxRestarts,  \* max_restarts of each service; 0 is "no limit"
  Required,     \* services whose failure stops the system
  Oneshot,      \* services that run once and are ready after exit 0
  MayNotStart,  \* services whose user, log file or command may be unusable
  None          \* no run

RestartPolicy == {"never", "on-failure", "always"}
StopIntent == {"none", "shutdown", "policy", "operator"}
ServiceState == {"PENDING", "STARTING", "RUNNING", "STOPPING", "STOPPED", "FAILED"}

\* validateRestartPolicy rejects a one-shot job with a restart policy and a
\* negative max_restarts; an empty policy is treated as "never".
ASSUME LifecycleAssumption ==
  /\ SvcOf \in [Run -> Service]
  /\ Restart \in [Service -> RestartPolicy]
  /\ MaxRestarts \in [Service -> Nat]
  /\ Required \subseteq Service
  /\ Oneshot \subseteq Service
  /\ MayNotStart \subseteq Service
  /\ \A s \in Oneshot : Restart[s] = "never"
  /\ None \notin Run

ASSUME FiniteServices == IsFiniteSet(Service)

VARIABLES
  pc,         \* where each run stands in startService and finishService
  proc,       \* the operating-system process of each run
  exitErr,    \* cmd.Wait of the run reports (or will report) an error
  intent,     \* ServiceProcess.intent
  seen,       \* the intent finishService loaded
  stopped,    \* the run's own context was cancelled
  state,      \* ServiceProcess.State
  timer,      \* the time.AfterFunc that scheduleRestart armed for the run
  active,     \* activeServices: service -> run
  wg,         \* the counter of shutdownWg
  counts,     \* restartCounts
  first,      \* the run processService launched for the service at boot
  cancelled,  \* shutdownContext() is done
  relaunched  \* history: policy restarts since the last operator restart

lcVars == <<pc, proc, exitErr, intent, seen, stopped, state, timer,
            active, wg, counts, first, cancelled, relaunched>>

\* The steps of startService up to its return.
Launching == {"starting", "building", "spawned"}
Serving   == {"registered", "waiting", "stopping", "killing"}
Ending    == {"finishing", "removing", "deciding", "bumping", "triggering", "blocked"}
Returned  == {"retNil", "retExit", "retStartup"}
PC == {"unused"} \cup Launching \cup Serving \cup Ending \cup Returned

LCTypeOK ==
  /\ pc \in [Run -> PC]
  /\ proc \in [Run -> {"none", "alive", "killed", "dead"}]
  /\ exitErr \in [Run -> BOOLEAN]
  /\ intent \in [Run -> StopIntent]
  /\ seen \in [Run -> StopIntent]
  /\ stopped \in [Run -> BOOLEAN]
  /\ state \in [Run -> ServiceState]
  /\ timer \in [Run -> {"off", "armed", "fired"}]
  /\ active \in [Service -> Run \cup {None}]
  /\ wg \in Int
  /\ counts \in [Service -> Nat]
  /\ first \in [Service -> Run \cup {None}]
  /\ cancelled \in BOOLEAN
  /\ relaunched \in [Service -> Nat]

LCInit ==
  /\ pc = [r \in Run |-> "unused"]
  /\ proc = [r \in Run |-> "none"]
  /\ exitErr = [r \in Run |-> FALSE]
  /\ intent = [r \in Run |-> "none"]
  /\ seen = [r \in Run |-> "none"]
  /\ stopped = [r \in Run |-> FALSE]
  /\ state = [r \in Run |-> "PENDING"]
  /\ timer = [r \in Run |-> "off"]
  /\ active = [s \in Service |-> None]
  /\ wg = 0
  /\ counts = [s \in Service |-> 0]
  /\ first = [s \in Service |-> None]
  /\ cancelled = FALSE
  /\ relaunched = [s \in Service |-> 0]

-----------------------------------------------------------------------------
(* startService, up to the select that waits for the process.              *)

\* processService calls startService for the first time.
LaunchInitial(s, r) ==
  /\ first[s] = None
  /\ pc[r] = "unused"
  /\ SvcOf[r] = s
  /\ first' = [first EXCEPT ![s] = r]
  /\ pc' = [pc EXCEPT ![r] = "starting"]
  /\ UNCHANGED <<proc, exitErr, intent, seen, stopped, state, timer,
                 active, wg, counts, cancelled, relaunched>>

\* The only look startService takes at the shutdown context before it spawns.
CheckShutdown(r) ==
  /\ pc[r] = "starting"
  /\ pc' = [pc EXCEPT ![r] = IF cancelled THEN "retNil" ELSE "building"]
  /\ UNCHANGED <<proc, exitErr, intent, seen, stopped, state, timer,
                 active, wg, counts, first, cancelled, relaunched>>

\* buildServiceCommand or attachServiceOutput fails: a startupError.
SpawnFails(r) ==
  /\ pc[r] = "building"
  /\ SvcOf[r] \in MayNotStart
  /\ pc' = [pc EXCEPT ![r] = "retStartup"]
  /\ UNCHANGED <<proc, exitErr, intent, seen, stopped, state, timer,
                 active, wg, counts, first, cancelled, relaunched>>

\* attachServiceOutput starts the process.
Spawn(r) ==
  /\ pc[r] = "building"
  /\ pc' = [pc EXCEPT ![r] = "spawned"]
  /\ proc' = [proc EXCEPT ![r] = "alive"]
  /\ UNCHANGED <<exitErr, intent, seen, stopped, state, timer,
                 active, wg, counts, first, cancelled, relaunched>>

\* addActiveService, under servicesMutex.
AddActiveService(r) ==
  /\ pc[r] = "spawned"
  /\ pc' = [pc EXCEPT ![r] = "registered"]
  /\ state' = [state EXCEPT ![r] = "STARTING"]
  /\ active' = [active EXCEPT ![SvcOf[r]] = r]
  /\ wg' = wg + 1
  /\ UNCHANGED <<proc, exitErr, intent, seen, stopped, timer,
                 counts, first, cancelled, relaunched>>

\* SetState(RUNNING), startHealthMonitor, MarkReady, and the waiter goroutine.
Announce(r) ==
  /\ pc[r] = "registered"
  /\ pc' = [pc EXCEPT ![r] = "waiting"]
  /\ state' = [state EXCEPT ![r] = "RUNNING"]
  /\ UNCHANGED <<proc, exitErr, intent, seen, stopped, timer,
                 active, wg, counts, first, cancelled, relaunched>>

-----------------------------------------------------------------------------
(* The select of startService, and stopRunningService.                     *)

\* The process ended by itself and the select takes waitDone.
ObserveExit(r) ==
  /\ pc[r] = "waiting"
  /\ proc[r] = "dead"
  /\ pc' = [pc EXCEPT ![r] = "finishing"]
  /\ UNCHANGED <<proc, exitErr, intent, seen, stopped, state, timer,
                 active, wg, counts, first, cancelled, relaunched>>

\* The context is done: RequestStop(shutdown), STOPPING, SIGTERM.  Go's select
\* may take this branch although the process has ended as well.
ObserveCancel(r) ==
  /\ pc[r] = "waiting"
  /\ stopped[r] \/ cancelled
  /\ pc' = [pc EXCEPT ![r] = "stopping"]
  /\ intent' = [intent EXCEPT ![r] = IF @ = "none" THEN "shutdown" ELSE @]
  /\ stopped' = [stopped EXCEPT ![r] = TRUE]
  /\ state' = [state EXCEPT ![r] = "STOPPING"]
  /\ UNCHANGED <<proc, exitErr, seen, timer,
                 active, wg, counts, first, cancelled, relaunched>>

\* Mutant of StopTimeout: stopRunningService returns without killing.
StopTimeoutGivesUp(r) ==
  /\ pc[r] = "stopping"
  /\ pc' = [pc EXCEPT ![r] = "finishing"]
  /\ UNCHANGED <<proc, exitErr, intent, seen, stopped, state, timer,
                 active, wg, counts, first, cancelled, relaunched>>

\* Mutant of StopTimeout: it waits on without killing.
StopTimeoutWaits(r) ==
  /\ pc[r] = "stopping"
  /\ pc' = [pc EXCEPT ![r] = "killing"]
  /\ UNCHANGED <<proc, exitErr, intent, seen, stopped, state, timer,
                 active, wg, counts, first, cancelled, relaunched>>

\* service_shutdown_timeout passes: SIGKILL.
StopTimeout(r) ==
  /\ pc[r] = "stopping"
  /\ pc' = [pc EXCEPT ![r] = "killing"]
  /\ proc' = [proc EXCEPT ![r] = IF @ = "alive" THEN "killed" ELSE @]
  /\ UNCHANGED <<exitErr, intent, seen, stopped, state, timer,
                 active, wg, counts, first, cancelled, relaunched>>

\* stopRunningService receives from waitDone.
ObserveStopped(r) ==
  /\ pc[r] \in {"stopping", "killing"}
  /\ proc[r] = "dead"
  /\ pc' = [pc EXCEPT ![r] = "finishing"]
  /\ UNCHANGED <<proc, exitErr, intent, seen, stopped, state, timer,
                 active, wg, counts, first, cancelled, relaunched>>

-----------------------------------------------------------------------------
(* finishService and handleServiceExit.                                    *)

\* Mutant of ReadIntent: whoever asked for the end, an error is a failure.
ReadIntentBlames(r) ==
  /\ pc[r] = "finishing"
  /\ pc' = [pc EXCEPT ![r] = "removing"]
  /\ stopped' = [stopped EXCEPT ![r] = TRUE]
  /\ seen' = [seen EXCEPT ![r] = intent[r]]
  /\ state' = [state EXCEPT ![r] = IF exitErr[r] THEN "FAILED" ELSE @]
  /\ UNCHANGED <<proc, exitErr, intent, timer,
                 active, wg, counts, first, cancelled, relaunched>>

\* serviceCancel, then finishService loads the intent and records the error.
ReadIntent(r) ==
  /\ pc[r] = "finishing"
  /\ pc' = [pc EXCEPT ![r] = "removing"]
  /\ stopped' = [stopped EXCEPT ![r] = TRUE]
  /\ seen' = [seen EXCEPT ![r] = intent[r]]
  /\ state' = [state EXCEPT ![r] =
                 IF intent[r] = "none" /\ exitErr[r] THEN "FAILED" ELSE @]
  /\ UNCHANGED <<proc, exitErr, intent, timer,
                 active, wg, counts, first, cancelled, relaunched>>

\* Mutant of RemoveActiveService: the entry is not deleted.
RemoveKeepsEntry(r) ==
  /\ pc[r] = "removing"
  /\ pc' = [pc EXCEPT ![r] = "deciding"]
  /\ wg' = wg - 1
  /\ UNCHANGED <<proc, exitErr, intent, seen, stopped, state, timer,
                 active, counts, first, cancelled, relaunched>>

\* Mutant of RemoveActiveService: shutdownWg.Done is forgotten.
RemoveForgetsDone(r) ==
  /\ pc[r] = "removing"
  /\ pc' = [pc EXCEPT ![r] = "deciding"]
  /\ active' = [active EXCEPT ![SvcOf[r]] = None]
  /\ UNCHANGED <<proc, exitErr, intent, seen, stopped, state, timer,
                 wg, counts, first, cancelled, relaunched>>

\* removeActiveService, under servicesMutex: by name, whoever is registered.
RemoveActiveService(r) ==
  /\ pc[r] = "removing"
  /\ pc' = [pc EXCEPT ![r] = "deciding"]
  /\ LET s == SvcOf[r]
     IN IF active[s] # None
        THEN /\ state' = [state EXCEPT ![active[s]] = "STOPPED"]
             /\ active' = [active EXCEPT ![s] = None]
             /\ wg' = wg - 1
        ELSE UNCHANGED <<state, active, wg>>
  /\ UNCHANGED <<proc, exitErr, intent, seen, stopped, timer,
                 counts, first, cancelled, relaunched>>

\* What handleServiceExit is told: errUnhealthyService after a policy restart.
ExitError(r) == seen[r] = "policy" \/ exitErr[r]

ShouldRestart(r) ==
  \/ Restart[SvcOf[r]] = "always"
  \/ Restart[SvcOf[r]] = "on-failure" /\ ExitError(r)

\* Mutant of Exhausted: one restart too many.
ExhaustedLate(s) == MaxRestarts[s] > 0 /\ counts[s] > MaxRestarts[s]

\* max_restarts is a limit and the counter has reached it.
Exhausted(s) == MaxRestarts[s] > 0 /\ counts[s] >= MaxRestarts[s]

\* The error finishService returns; only an unsolicited exit has one.
ReturnPC(r) == IF seen[r] = "none" /\ exitErr[r] THEN "retExit" ELSE "retNil"

FinishStopped(r) ==
  /\ seen[r] = "shutdown"
  /\ pc' = [pc EXCEPT ![r] = "retNil"]
  /\ UNCHANGED <<timer, counts, relaunched>>

\* Mutant of FinishOperator: the counter is not reset.
FinishOperatorKeepsCount(r) ==
  /\ seen[r] = "operator"
  /\ relaunched' = [relaunched EXCEPT ![SvcOf[r]] = 0]
  /\ timer' = [timer EXCEPT ![r] = "armed"]
  /\ pc' = [pc EXCEPT ![r] = "retNil"]
  /\ UNCHANGED counts

\* Mutant of FinishOperator: the restart is discounted instead of the counter
\* being reset.
FinishOperatorDiscounts(r) ==
  /\ seen[r] = "operator"
  /\ counts' = [counts EXCEPT ![SvcOf[r]] = @ - 1]
  /\ relaunched' = [relaunched EXCEPT ![SvcOf[r]] = 0]
  /\ timer' = [timer EXCEPT ![r] = "armed"]
  /\ pc' = [pc EXCEPT ![r] = "retNil"]

\* resetRestartCount, then scheduleRestart.
FinishOperator(r) ==
  /\ seen[r] = "operator"
  /\ counts' = [counts EXCEPT ![SvcOf[r]] = 0]
  /\ relaunched' = [relaunched EXCEPT ![SvcOf[r]] = 0]
  /\ timer' = [timer EXCEPT ![r] = "armed"]
  /\ pc' = [pc EXCEPT ![r] = "retNil"]

\* Mutant of FinishByPolicy: exhausted restarts are not a failure.
FinishByPolicyQuietly(r) ==
  /\ seen[r] \in {"none", "policy"}
  /\ LET s == SvcOf[r]
         next == IF ShouldRestart(r) /\ ~Exhausted(s) THEN "bumping"
                 ELSE IF s \in Required /\ ~ShouldRestart(r) /\ ExitError(r)
                 THEN "triggering"
                 ELSE ReturnPC(r)
     IN pc' = [pc EXCEPT ![r] = next]
  /\ UNCHANGED <<timer, counts, relaunched>>

\* handleServiceExit up to its verdict.  A required service triggers the
\* shutdown when its restarts are exhausted (whatever its exit status) or when
\* it failed and is not to be restarted.
FinishByPolicy(r) ==
  /\ seen[r] \in {"none", "policy"}
  /\ LET s == SvcOf[r]
         next == IF ShouldRestart(r) /\ ~Exhausted(s) THEN "bumping"
                 ELSE IF s \in Required /\ (ShouldRestart(r) \/ ExitError(r))
                 THEN "triggering"
                 ELSE ReturnPC(r)
     IN pc' = [pc EXCEPT ![r] = next]
  /\ UNCHANGED <<timer, counts, relaunched>>

Decide(r) ==
  /\ pc[r] = "deciding"
  /\ FinishStopped(r) \/ FinishOperator(r) \/ FinishByPolicy(r)
  /\ UNCHANGED <<proc, exitErr, intent, seen, stopped, state,
                 active, wg, first, cancelled>>

\* incrementRestartCount (a second critical section), then scheduleRestart.
IncrementRestartCount(r) ==
  /\ pc[r] = "bumping"
  /\ counts' = [counts EXCEPT ![SvcOf[r]] = @ + 1]
  /\ timer' = [timer EXCEPT ![r] = "armed"]
  /\ pc' = [pc EXCEPT ![r] = ReturnPC(r)]
  /\ UNCHANGED <<proc, exitErr, intent, seen, stopped, state,
                 active, wg, first, cancelled, relaunched>>

\* The run calls triggerServiceFailureShutdown ...
Trigger(r) ==
  /\ pc[r] = "triggering"
  /\ pc' = [pc EXCEPT ![r] = "blocked"]
  /\ UNCHANGED <<proc, exitErr, intent, seen, stopped, state, timer,
                 active, wg, counts, first, cancelled, relaunched>>

\* ... and comes back from it once the shutdown has completed.
TriggerReturns(r) ==
  /\ pc[r] = "blocked"
  /\ pc' = [pc EXCEPT ![r] = ReturnPC(r)]
  /\ UNCHANGED <<proc, exitErr, intent, seen, stopped, state, timer,
                 active, wg, counts, first, cancelled, relaunched>>

\* The function scheduleRestart armed: it gives up when the shutdown context
\* is done, and otherwise restartServiceInternal starts the service again.
SkipRestart(r) ==
  /\ timer[r] = "armed"
  /\ cancelled
  /\ timer' = [timer EXCEPT ![r] = "fired"]
  /\ UNCHANGED <<pc, proc, exitErr, intent, seen, stopped, state,
                 active, wg, counts, first, cancelled, relaunched>>

\* Mutant of RestartServiceInternal: the shutdown context is not looked at.
RestartIgnoresShutdown(r, q) ==
  /\ timer[r] = "armed"
  /\ pc[q] = "unused"
  /\ SvcOf[q] = SvcOf[r]
  /\ timer' = [timer EXCEPT ![r] = "fired"]
  /\ pc' = [pc EXCEPT ![q] = "starting"]
  /\ UNCHANGED <<proc, exitErr, intent, seen, stopped, state,
                 active, wg, counts, first, cancelled, relaunched>>

RestartServiceInternal(r, q) ==
  /\ timer[r] = "armed"
  /\ ~cancelled
  /\ pc[q] = "unused"
  /\ SvcOf[q] = SvcOf[r]
  /\ timer' = [timer EXCEPT ![r] = "fired"]
  /\ pc' = [pc EXCEPT ![q] = "starting"]
  /\ relaunched' = [relaunched EXCEPT ![SvcOf[r]] =
                      IF seen[r] = "operator" THEN @ ELSE @ + 1]
  /\ UNCHANGED <<proc, exitErr, intent, seen, stopped, state,
                 active, wg, counts, first, cancelled>>

-----------------------------------------------------------------------------
(* The environment of the runs.                                            *)

\* The process ends: by itself, on SIGTERM, or because it was killed.
ProcessExits(r, err) ==
  /\ proc[r] \in {"alive", "killed"}
  /\ proc[r] = "killed" => err
  /\ proc' = [proc EXCEPT ![r] = "dead"]
  /\ exitErr' = [exitErr EXCEPT ![r] = err]
  /\ UNCHANGED <<pc, intent, seen, stopped, state, timer,
                 active, wg, counts, first, cancelled, relaunched>>

\* RequestStop by somebody who holds the ServiceProcess: the compare-and-swap
\* succeeds only on a run without an intent, but the run may be over by then.
Published(r) == proc[r] # "none" /\ pc[r] # "spawned"

RequestStop(r, i) ==
  /\ Published(r)
  /\ intent[r] = "none"
  /\ intent' = [intent EXCEPT ![r] = i]
  /\ stopped' = [stopped EXCEPT ![r] = TRUE]
  /\ UNCHANGED <<pc, proc, exitErr, seen, state, timer,
                 active, wg, counts, first, cancelled, relaunched>>

\* forceKillAllServices kills the runs it found registered.
ForceKill(runs) ==
  /\ proc' = [r \in Run |-> IF r \in runs /\ proc[r] = "alive" THEN "killed" ELSE proc[r]]
  /\ UNCHANGED <<pc, exitErr, intent, seen, stopped, state, timer,
                 active, wg, counts, first, cancelled, relaunched>>

CancelShutdown ==
  /\ cancelled' = TRUE
  /\ UNCHANGED <<pc, proc, exitErr, intent, seen, stopped, state, timer,
                 active, wg, counts, first, relaunched>>

-----------------------------------------------------------------------------
Registered == {active[s] : s \in Service} \ {None}

\* The steps of the goroutine that executes startService for r.
RunStep(r) ==
  \/ CheckShutdown(r) \/ SpawnFails(r) \/ Spawn(r)
  \/ AddActiveService(r) \/ Announce(r)
  \/ ObserveExit(r) \/ ObserveCancel(r) \/ StopTimeout(r) \/ ObserveStopped(r)
  \/ ReadIntent(r) \/ RemoveActiveService(r) \/ Decide(r)
  \/ IncrementRestartCount(r) \/ Trigger(r) \/ TriggerReturns(r)

TimerStep(r) == SkipRestart(r) \/ \E q \in Run : RestartServiceInternal(r, q)

EnvStep(r) ==
  \/ \E err \in BOOLEAN : ProcessExits(r, err)
  \/ \E i \in {"policy", "operator"} : RequestStop(r, i)

LCNext ==
  \/ \E s \in Service, r \in Run : LaunchInitial(s, r)
  \/ \E r \in Run : RunStep(r) \/ TimerStep(r) \/ EnvStep(r)
  \/ ForceKill(Registered)
  \/ CancelShutdown

LCSpec == LCInit /\ [][LCNext]_lcVars

\* The goroutine of every run goes on, service_shutdown_timeout passes, and a
\* killed process is gone some time; nothing is assumed of anybody else.
LCFairness ==
  \A r \in Run : /\ WF_lcVars(RunStep(r))
                /\ WF_lcVars(proc[r] = "killed" /\ \E err \in BOOLEAN : ProcessExits(r, err))

LCFairSpec == LCSpec /\ LCFairness

-----------------------------------------------------------------------------
(* What the runs of one service may never do to one another.               *)

\* The run is on its way through startService and finishService, or a timer
\* will start its successor.  A run that has only the shutdown left to report
\* (triggering, blocked) no longer counts.
UnderWay == Launching \cup Serving \cup {"finishing", "removing", "deciding", "bumping"}

Live(r) == pc[r] \in UnderWay \/ timer[r] = "armed"

Running(r) == proc[r] \in {"alive", "killed"}

\* A service never has two processes, and its next process is never being
\* prepared while one runs: the boot launch, the policy restart, the health
\* restart and the operator's restart never overlap (startService, line 472;
\* scheduleRestart, line 89).
SingleInstance ==
  \A q, r \in Run :
    SvcOf[q] = SvcOf[r] /\ Running(q) /\ (Running(r) \/ Live(r)) => q = r

\* activeServices lists a service exactly while one of its runs is between
\* addActiveService and removeActiveService, and lists that run: removal by
\* name (line 159) never evicts a successor, registration (line 150) never
\* hides a predecessor.
RegistryExact ==
  \A r \in Run : active[SvcOf[r]] = r <=> pc[r] \in Serving \cup {"finishing", "removing"}

\* shutdownWg counts the registered services, so that its Wait ends exactly
\* when the last one is gone and its Done never goes below zero.
WaitGroupExact == wg = Cardinality({s \in Service : active[s] # None})

\* Until the shutdown, restartCounts is the number of policy restarts made or
\* armed since the operator last restarted the service: none is forgotten,
\* none is counted twice, an operator restart is not counted
\* (specs/supervisor-hardening.spec.yaml:74-75).
ArmedByPolicy(s) == {r \in Run : SvcOf[r] = s /\ timer[r] = "armed" /\ seen[r] # "operator"}

RestartAccounting ==
  ~cancelled => \A s \in Service : counts[s] = relaunched[s] + Cardinality(ArmedByPolicy(s))

\* max_restarts bounds the policy restarts between two operator restarts
\* although the counter is read and incremented in separate critical sections
\* (handleServiceExit, lines 48 and 61).
RestartBudget ==
  \A s \in Service : MaxRestarts[s] > 0 => relaunched[s] <= MaxRestarts[s]

-----------------------------------------------------------------------------
(* Progress.                                                               *)

\* A stop that was requested ends the run, even one whose process ignores
\* SIGTERM (stopRunningService).
StopRequestsEnd ==
  \A r \in Run : intent[r] # "none" ~> pc[r] \in Returned \cup {"blocked"}

\* The failure of a required service is never swallowed: a run that ends with
\* an error nobody asked for has its restart armed or calls the shutdown, also
\* when its restarts are exhausted or somebody asks for a stop just then
\* (finishService, handleServiceExit; README.md:137).
FailsUnasked(r) ==
  SvcOf[r] \in Required /\ pc[r] = "finishing" /\ exitErr[r] /\ intent[r] = "none"

FailureNoticed ==
  \A r \in Run : FailsUnasked(r) ~> (timer[r] # "off" \/ pc[r] = "blocked")
=============================================================================
