----------------------------- MODULE Supervisor -----------------------------
(***************************************************************************)
(* The whole supervisor: the runs of Lifecycle launched by the boot        *)
(* sequence of Startup, watched by the monitors of Health, restarted by    *)
(* the clients of Control and brought down by Shutdown.  Every action that *)
(* Lifecycle leaves to its environment is taken here by the code that      *)
(* performs it; what remains open is what the processes, their scripts,    *)
(* the operator, the signals and the clock do.                             *)
(***************************************************************************)
EXTENDS Startup, Health, Control

svVars == <<lcVars, sdVars, suVars, hmVars, ctVars>>

SVTypeOK == LCTypeOK /\ SDTypeOK /\ SUTypeOK /\ HMTypeOK /\ CTLTypeOK

SVInit == LCInit /\ SDInit /\ SUInit /\ HMInit /\ CTLInit

\* os.Exit ends every goroutine at once; until then each takes its own steps,
\* which leave the components they do not belong to alone.
OfRun(A) == ~exited /\ A /\ UNCHANGED <<sdVars, suVars, hmVars, ctVars>>
OfEnd(A) == ~exited /\ A /\ UNCHANGED <<suVars, hmVars, ctVars>>
OfBoot(A) == ~exited /\ A /\ UNCHANGED <<hmVars, ctVars>>
OfMonitor(A) == ~exited /\ A /\ UNCHANGED <<suVars, ctVars>>
OfServer(A) == ~exited /\ A /\ UNCHANGED <<suVars, hmVars>>

\* RUNNING, the health monitor, and the ready mark, in this order.
RunAnnounces(r) ==
  /\ ~exited
  /\ Announce(r)
  /\ StartHealthMonitor(r)
  /\ MarkReadyOnAnnounce(r)
  /\ UNCHANGED <<sdVars, ctVars>>

\* The goroutine that executes startService.
Goroutine(r) ==
  \/ OfRun(CheckShutdown(r)) \/ OfRun(SpawnFails(r)) \/ OfRun(Spawn(r))
  \/ OfRun(AddActiveService(r)) \/ RunAnnounces(r)
  \/ OfRun(ObserveExit(r)) \/ OfRun(ObserveCancel(r))
  \/ OfRun(StopTimeout(r)) \/ OfRun(ObserveStopped(r))
  \/ OfRun(ReadIntent(r)) \/ OfEnd(RunRemoves(r)) \/ OfRun(Decide(r))
  \/ OfRun(IncrementRestartCount(r))
  \/ OfEnd(RunTriggers(r)) \/ OfEnd(RunTriggerReturns(r))

RestartTimer(r) ==
  \/ OfRun(SkipRestart(r))
  \/ \E q \in Run : OfRun(RestartServiceInternal(r, q))

ProcessEnds(r) == \E err \in BOOLEAN : OfRun(ProcessExits(r, err))

\* run(): the socket, the configuration, the end of startAllServices.
Main ==
  \/ OfServer(Listen) \/ OfServer(PublishServer)
  \/ OfBoot(LoadServices) \/ OfBoot(MainExit)

ProcessService(s) ==
  \/ OfBoot(BeginService(s)) \/ OfBoot(PreScriptReturns(s))
  \/ OfBoot(DependencyReady(s)) \/ OfBoot(Settled(s))
  \/ OfBoot(DependencyFailed(s)) \/ OfBoot(DependencyCancelled(s))
  \/ \E r \in Run : OfBoot(LaunchService(s, r))
  \/ OfBoot(StartServiceReturned(s)) \/ OfBoot(ServiceErrorHandled(s))
  \/ OfBoot(EndService(s))

RunPostScript(s) == OfBoot(PostScriptTimer(s)) \/ OfBoot(PostScriptCancelled(s))

\* runScript has no timeout.
ScriptEnds(s) ==
  \/ OfBoot(PreScriptSucceeds(s)) \/ OfBoot(PreScriptFails(s)) \/ OfBoot(PostScriptEnds(s))

HealthMonitor(r) ==
  \/ OfMonitor(MonitorStops(r)) \/ OfMonitor(CheckPasses(r)) \/ OfMonitor(CheckFails(r))
  \/ OfMonitor(RestartUnhealthy(r)) \/ OfMonitor(UnhealthyWithoutPolicy(r))
  \/ OfMonitor(UnhealthyReturns(r))

HandleConnection(c) ==
  \/ OfServer(FindService(c)) \/ OfServer(ServiceNotFound(c))
  \/ OfServer(AckRestart(c)) \/ OfServer(RefuseRestart(c))

\* What the client sends, or fails to send before the deadline.
Command(c) ==
  \/ OfServer(AnswerAtOnce(c))
  \/ \E s \in Restartable : OfServer(AcceptRestart(c, s))

RunShutdown ==
  \/ OfEnd(CancelServices) \/ OfEnd(CloseIPC) \/ OfEnd(CheckActive)
  \/ OfEnd(ServicesStopped) \/ OfEnd(GlobalTimeout)
  \/ OfEnd(ForceKillAllServices) \/ OfEnd(GraceTimeout)

Waiter == OfEnd(WaitBegins) \/ OfEnd(WaiterWakes)

SVNext ==
  \/ \E r \in Run : \/ Goroutine(r) \/ RestartTimer(r) \/ ProcessEnds(r)
                    \/ HealthMonitor(r) \/ OfMonitor(MonitorTicks(r))
  \/ \E s \in Service : \/ ProcessService(s) \/ RunPostScript(s) \/ ScriptEnds(s)
                        \/ OfBoot(DependencyTimeout(s))
  \/ \E c \in Client : Command(c) \/ HandleConnection(c)
  \/ Main \/ OfServer(ServerFails) \/ OfBoot(RejectConfig)
  \/ RunShutdown \/ Waiter \/ OfEnd(Signal) \/ OfEnd(SignalExit)
  \/ exited /\ UNCHANGED svVars

SVSpec == SVInit /\ [][SVNext]_svVars

(***************************************************************************)
(* Fairness.  Every goroutine that can go on eventually does, every timer  *)
(* eventually fires, and a killed process eventually is gone.  Nothing is  *)
(* assumed of signals, operators, the processes themselves, the scripts    *)
(* (runScript gives them no timeout), or the dependency timeout, which     *)
(* must not be what rescues a dependent.                                   *)
(***************************************************************************)
SVFairness ==
  /\ \A r \in Run : /\ WF_svVars(Goroutine(r))
                    /\ WF_svVars(RestartTimer(r))
                    /\ WF_svVars(proc[r] = "killed" /\ ProcessEnds(r))
                    /\ WF_svVars(HealthMonitor(r))
  /\ \A s \in Service : WF_svVars(ProcessService(s)) /\ WF_svVars(RunPostScript(s))
  /\ \A c \in Client : WF_svVars(HandleConnection(c))
  /\ WF_svVars(Main)
  /\ WF_svVars(RunShutdown) /\ WF_svVars(Waiter)
  /\ WF_svVars(OfEnd(SignalExit))

SVFairSpec == SVSpec /\ SVFairness

-----------------------------------------------------------------------------
(* Boot.                                                                   *)

\* A process of a service exists only after each of its dependencies became
\* ready, and a one-shot dependency is ready only because a run of it exited
\* with status 0 (README.md:326 "Dependents wait until it exits
\* successfully"; waitForServiceDependencies, processService line 271).
Completed(d) == \E q \in Run : SvcOf[q] = d /\ proc[q] = "dead" /\ ~exitErr[q]
Appeared(d) == \E q \in Run : SvcOf[q] = d /\ Published(q)

DependenciesFirst ==
  \A r \in Run : proc[r] # "none" =>
    \A i \in DOMAIN DependsOn[SvcOf[r]] :
      LET d == DependsOn[SvcOf[r]][i]
      IN IF d \in Oneshot THEN Completed(d) ELSE Appeared(d)

\* No service is both ready and failed, so the select of waitForDependency
\* (line 411) never has two contradictory verdicts to choose from at random.
OneVerdict == ready \cap failed = {}

\* Until the shutdown, a service whose boot sequence is over has a verdict: no
\* dependent is left to its dependency timeout (processService, lines 244-273).
VerdictGiven ==
  ~cancelled => \A s \in Service : sp[s] \in {"await", "done"} => s \in ready \cup failed

-----------------------------------------------------------------------------
(* Shutdown.                                                               *)

\* A shutdown that a failed service started never ends with status 0,
\* whichever of main and the signal handler leaves first (README.md:137).
FailureExitsOne == exited /\ starter = "failure" => status # 0

\* main does not leave while runShutdown still waits for registered services
\* (README.md:62 "SIGTERM, wait, SIGKILL"); a crash is SignalExitsZero's matter.
MainWaitsForServices ==
  exited /\ status # Panic /\ ~ShutdownOver => Registered = {}

\* The listener is closed only when the shutdown is cancelled: the accept loop
\* of startIPCServer, which takes a closed listener for a passing error unless
\* the context is done (lines 91-101), never spins, not even when a signal
\* arrives while main is still setting the socket up.
AcceptorStops == listener = "closed" => cancelled

\* The process ended and nobody had asked for it: what counts is the intent
\* that finishService loaded, once it has.
Judged(r) == pc[r] \in (Ending \ {"finishing"}) \cup Returned

EndedUnasked(r) ==
  proc[r] = "dead" /\ (IF Judged(r) THEN seen[r] ELSE intent[r]) = "none"

\* A required service failed: its process exited unasked, it could not start,
\* or its pre-script failed.
FailedByItself(s) ==
  \/ \E r \in Run : SvcOf[r] = s /\ (pc[r] = "retStartup" \/ EndedUnasked(r))
  \/ sp[s] = "preBlocked" \/ s \in failed

SomeFailure == \E s \in Required : FailedByItself(s)

\* The exit status becomes a failure only when a required service failed
\* (README.md:137 "when a required service fails"); being stopped by a signal
\* or restarted by the operator is none.
FailureIsReal == [][exitCode' # exitCode => SomeFailure']_svVars

\* A shutdown by signal exits with 0 unless a required service failed or the
\* configuration was rejected (README.md:138 "A signal-driven shutdown exits
\* with 0"): nothing crashes on the way.
SignalExitsZero == exited /\ starter = "signal" /\ boot = "services" /\ ~SomeFailure => status = 0

-----------------------------------------------------------------------------
(* The operator.                                                           *)

\* A restart the operator was told had been initiated is what the run did when
\* it ended, unless the shutdown came (docs/CLI-COMMANDS.md:109-113).
AckedRestartHappens ==
  \A c \in Client :
    conn[c] = "acked" /\ pc[target[c]] \in Returned /\ ~cancelled =>
      seen[target[c]] = "operator"

\* That goes wrong only when the acknowledgement comes late: a restart the
\* operator was told of before finishService loaded the intent is what it
\* finds, whoever else asks for a stop in between (RequestStop, line 137;
\* finishService, line 551).
AckedInTime ==
  [][\A c \in Client :
       conn[c] = "acked" /\ ~Judged(target[c]) /\ Judged(target[c])' =>
         seen'[target[c]] = "operator"]_svVars

\* Whenever `list` or `status` take the lock, a service is listed as FAILED
\* only if its process is over and nobody had asked for it, as STOPPING only
\* if somebody had, and never before it is started or after it is stopped,
\* although run, monitor and operator change these one by one
\* (handleListServices, handleGetStatus).
ListedTruly ==
  \A s \in Service : active[s] # None =>
    /\ Listed(s) \in {"STARTING", "RUNNING", "STOPPING", "FAILED"}
    /\ Listed(s) = "FAILED" => proc[active[s]] = "dead" /\ seen[active[s]] = "none"
    /\ Listed(s) = "STOPPING" => intent[active[s]] # "none"

-----------------------------------------------------------------------------
(* Progress.                                                               *)

ScriptRunning == \E s \in Service : sp[s] = "pre" \/ post[s] = "script"

\* Once the shutdown began the supervisor exits, whatever the services, the
\* monitors and the operator do, unless a script hangs for ever
\* (startAllServices, runShutdown).
ShutdownEnds == []<>ScriptRunning \/ (starter # "none" ~> exited)

\* After a signal it exits even if every script hangs: the signal handler
\* waits for the services only (setupSignalHandler).
SignalledExits == sig = "blocked" ~> exited

\* A dependent whose dependency got its verdict goes on without the dependency
\* timeout (waitForDependency, lines 412-416).
DependentsReleased ==
  \A s \in Service :
    (AwaitsDependency(s) /\ Dependency(s) \in ready \cup failed)
      ~> (sp[s] # "deps" \/ ~AwaitsDependency(s) \/ exited)
=============================================================================
