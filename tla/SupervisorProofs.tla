-------------------------- MODULE SupervisorProofs --------------------------
(***************************************************************************)
(* The composed supervisor is an implementation of Lifecycle: boot,        *)
(* monitors, operator and shutdown only ever do to the runs what Lifecycle *)
(* allows its environment.  What is proved of Lifecycle therefore holds of *)
(* the supervisor, for every configuration.                                *)
(***************************************************************************)
EXTENDS Supervisor, ContractProofs

\* What a connection remembers between its critical sections: the service it
\* was asked for and, once found, a run, which may be over when it is used.
ConnectionsInv ==
  \A c \in Client :
    /\ conn[c] = "open" => asked[c] \in Service
    /\ conn[c] = "found" => target[c] \in Run

\* A monitor is started once, when its run is announced.
Early == Launching \cup {"unused", "registered"}

MonitorsInv == \A r \in Run : hm[r] # "off" => pc[r] \notin Early

\* A service settles after a dependency it has.
SettlingInv ==
  \A s \in Service : sp[s] = "settle" => depIx[s] <= Len(DependsOn[s])

\* The status is set before the shutdown starts, and never reset; whoever is
\* the first to enter the Once started it.
StatusInv ==
  /\ starter = "failure" => exitCode = Failure /\ (exited => status # 0)
  /\ (once = "idle") <=> (starter = "none")

\* runShutdown, and nobody else, cancels the context, and then the listener.
CancelInv ==
  /\ once \notin {"idle", "cancel"} <=> cancelled
  /\ AcceptorStops

\* The steps of main, of runShutdown and its waiter, and of the signal handler.
MainOrEnd ==
  \/ Main \/ OfServer(ServerFails) \/ OfBoot(RejectConfig)
  \/ RunShutdown \/ Waiter \/ OfEnd(Signal) \/ OfEnd(SignalExit)

SVInv ==
  /\ SVTypeOK /\ ConnectionsInv /\ MonitorsInv /\ SettlingInv
  /\ StatusInv /\ CancelInv

-----------------------------------------------------------------------------
(* Every step of the supervisor is a step of Lifecycle, or leaves the runs *)
(* alone.                                                                  *)

\* A step of a run, its timer or its process is that step of Lifecycle.
LEMMA GoroutineRefines ==
  ASSUME NEW r \in Run, Goroutine(r) \/ RestartTimer(r) \/ ProcessEnds(r)
  PROVE  LCNext
<1>1. CASE Goroutine(r)
  <2>1. RunStep(r)
    BY <1>1 DEF Goroutine, OfRun, OfEnd, RunAnnounces, RunRemoves, RunTriggers,
              RunTriggerReturns, RunStep
  <2> QED BY <2>1 DEF LCNext
<1>2. CASE RestartTimer(r)
  <2>1. TimerStep(r)
    BY <1>2 DEF RestartTimer, OfRun, TimerStep
  <2> QED BY <2>1 DEF LCNext
<1>3. CASE ProcessEnds(r)
  <2>1. EnvStep(r)
    BY <1>3 DEF ProcessEnds, OfRun, EnvStep
  <2> QED BY <2>1 DEF LCNext
<1> QED BY <1>1, <1>2, <1>3

\* A monitor does nothing to the runs but ask one to stop (restartUnhealthy).
LEMMA MonitorRefines ==
  ASSUME NEW r \in Run, HealthMonitor(r) \/ OfMonitor(MonitorTicks(r))
  PROVE  LCNext \/ UNCHANGED lcVars
<1>1. CASE OfMonitor(RestartUnhealthy(r))
  <2>1. EnvStep(r) \/ UNCHANGED lcVars
    BY <1>1 DEF OfMonitor, RestartUnhealthy, EnvStep
  <2> QED BY <2>1 DEF LCNext
<1>2. CASE \/ OfMonitor(MonitorStops(r)) \/ OfMonitor(CheckPasses(r)) \/ OfMonitor(CheckFails(r))
           \/ OfMonitor(UnhealthyWithoutPolicy(r)) \/ OfMonitor(UnhealthyReturns(r))
           \/ OfMonitor(MonitorTicks(r))
  BY <1>2 DEF OfMonitor, MonitorStops, CheckPasses, CheckFails, UnhealthyWithoutPolicy,
              UnhealthyReturns, MonitorTicks
<1> QED BY <1>1, <1>2 DEF HealthMonitor

\* processService does nothing to the runs but launch the first of a service.
LEMMA BootRefines ==
  ASSUME NEW s \in Service,
         ProcessService(s) \/ RunPostScript(s) \/ ScriptEnds(s) \/ OfBoot(DependencyTimeout(s))
  PROVE  LCNext \/ UNCHANGED lcVars
<1>1. ASSUME NEW r \in Run, OfBoot(LaunchService(s, r)) PROVE LCNext
  BY <1>1 DEF OfBoot, LaunchService, LCNext
<1>2. CASE \/ OfBoot(BeginService(s)) \/ ScriptEnds(s) \/ OfBoot(PreScriptReturns(s))
           \/ OfBoot(DependencyReady(s)) \/ OfBoot(Settled(s)) \/ OfBoot(DependencyFailed(s))
           \/ OfBoot(DependencyCancelled(s)) \/ OfBoot(DependencyTimeout(s))
  BY <1>2 DEF OfBoot, BeginService, ScriptEnds, PreScriptSucceeds, PreScriptFails,
              PostScriptEnds, PreScriptReturns, DependencyReady, Settled, DependencyFailed,
              DependencyCancelled, DependencyTimeout, GiveUp
<1>3. CASE \/ OfBoot(StartServiceReturned(s)) \/ OfBoot(ServiceErrorHandled(s))
           \/ OfBoot(EndService(s)) \/ RunPostScript(s)
  BY <1>3 DEF RunPostScript, OfBoot, StartServiceReturned, ServiceErrorHandled, EndService,
              PostScriptTimer, PostScriptCancelled
<1> QED BY <1>1, <1>2, <1>3 DEF ProcessService

\* A connection does nothing to the runs but ask one to stop for the operator.
LEMMA ControlRefines ==
  ASSUME ConnectionsInv, NEW c \in Client,
         HandleConnection(c) \/ Command(c)
  PROVE  LCNext \/ UNCHANGED lcVars
<1>1. CASE OfServer(AckRestart(c))
  <2>1. target[c] \in Run /\ RequestStop(target[c], "operator")
    BY <1>1 DEF OfServer, AckRestart, ConnectionsInv
  <2> QED BY <2>1 DEF LCNext, EnvStep
<1>2. CASE \/ OfServer(FindService(c)) \/ OfServer(ServiceNotFound(c))
           \/ OfServer(RefuseRestart(c)) \/ Command(c)
  BY <1>2 DEF OfServer, FindService, ServiceNotFound, RefuseRestart, CloseConnection,
              Command, AnswerAtOnce, AcceptRestart, Accept
<1> QED BY <1>1, <1>2 DEF HandleConnection

\* The shutdown cancels the context and kills what is registered, no more;
\* main does nothing to the runs.
LEMMA EndRefinesLifecycle ==
  ASSUME MainOrEnd
  PROVE  LCNext \/ UNCHANGED lcVars
<1>1. CASE OfEnd(CancelServices)
  BY <1>1 DEF OfEnd, CancelServices, LCNext
<1>2. CASE OfEnd(ForceKillAllServices)
  BY <1>2 DEF OfEnd, ForceKillAllServices, LCNext
<1>3. CASE \/ OfEnd(CloseIPC) \/ OfEnd(CheckActive) \/ OfEnd(ServicesStopped)
           \/ OfEnd(GlobalTimeout) \/ OfEnd(GraceTimeout) \/ Waiter
           \/ OfEnd(Signal) \/ OfEnd(SignalExit)
  BY <1>3 DEF OfEnd, CloseIPC, CheckActive, ServicesStopped, GlobalTimeout, GraceTimeout,
              Waiter, WaitBegins, WaiterWakes, Signal, SignalExit
<1>4. CASE Main \/ OfServer(ServerFails) \/ OfBoot(RejectConfig)
  BY <1>4 DEF Main, OfServer, OfBoot, Listen, PublishServer, LoadServices, MainExit,
              ServerFails, RejectConfig
<1> QED BY <1>1, <1>2, <1>3, <1>4 DEF MainOrEnd, RunShutdown

\* So every step of the supervisor is a step of Lifecycle or a stutter.
LEMMA StepRefinesLifecycle ==
  ASSUME ConnectionsInv, [SVNext]_svVars
  PROVE  [LCNext]_lcVars
<1>1. CASE \E r \in Run : \/ Goroutine(r) \/ RestartTimer(r) \/ ProcessEnds(r)
                          \/ HealthMonitor(r) \/ OfMonitor(MonitorTicks(r))
  BY <1>1, GoroutineRefines, MonitorRefines
<1>2. CASE \E s \in Service : \/ ProcessService(s) \/ RunPostScript(s)
                              \/ ScriptEnds(s) \/ OfBoot(DependencyTimeout(s))
  BY <1>2, BootRefines
<1>3. CASE \E c \in Client : Command(c) \/ HandleConnection(c)
  BY <1>3, ControlRefines
<1>4. CASE MainOrEnd
  BY <1>4, EndRefinesLifecycle
<1>5. CASE UNCHANGED svVars
  BY <1>5 DEF svVars
<1> QED BY <1>1, <1>2, <1>3, <1>4, <1>5 DEF SVNext, MainOrEnd

-----------------------------------------------------------------------------
(* The components' own variables.                                          *)

\* The context stays cancelled (cancelShutdown).
LEMMA CancelledForGood == cancelled /\ [LCNext]_lcVars => cancelled'
<1> SUFFICES ASSUME cancelled, [LCNext]_lcVars PROVE cancelled'
  OBVIOUS
<1>1. ASSUME NEW r \in Run, RunStep(r) PROVE cancelled'
  BY <1>1 DEF RunStep, CheckShutdown, SpawnFails, Spawn, AddActiveService, Announce,
              ObserveExit, ObserveCancel, StopTimeout, ObserveStopped, ReadIntent,
              RemoveActiveService, Decide, IncrementRestartCount, Trigger, TriggerReturns
<1>2. ASSUME NEW r \in Run, TimerStep(r) \/ EnvStep(r) PROVE cancelled'
  BY <1>2 DEF TimerStep, SkipRestart, RestartServiceInternal, EnvStep, ProcessExits, RequestStop
<1>3. CASE \/ \E s \in Service, r \in Run : LaunchInitial(s, r)
           \/ ForceKill(Registered) \/ CancelShutdown \/ UNCHANGED lcVars
  BY <1>3 DEF LaunchInitial, ForceKill, CancelShutdown, lcVars
<1> QED BY <1>1, <1>2, <1>3 DEF LCNext

\* Only the shutdown cancels the context (CancelServices).
LEMMA WhoCancels ==
  ASSUME [SVNext]_svVars
  PROVE  cancelled' = cancelled \/ (cancelled' /\ once = "cancel" /\ once' = "close")
<1>1. ASSUME NEW r \in Run, Goroutine(r) \/ RestartTimer(r) \/ ProcessEnds(r)
      PROVE  cancelled' = cancelled
  BY <1>1 DEF Goroutine, RestartTimer, ProcessEnds, OfRun, OfEnd, RunAnnounces,
              CheckShutdown, SpawnFails, Spawn, AddActiveService, Announce, ObserveExit,
              ObserveCancel, StopTimeout, ObserveStopped, ReadIntent, RunRemoves,
              RemoveActiveService, Decide, IncrementRestartCount, RunTriggers, Trigger,
              RunTriggerReturns, TriggerReturns, SkipRestart, RestartServiceInternal,
              ProcessExits
<1>2. ASSUME NEW r \in Run, HealthMonitor(r) \/ OfMonitor(MonitorTicks(r))
      PROVE  cancelled' = cancelled
  BY <1>2 DEF HealthMonitor, OfMonitor, MonitorStops, CheckPasses, CheckFails, RequestStop,
              RestartUnhealthy, UnhealthyWithoutPolicy, UnhealthyReturns, MonitorTicks, lcVars
<1>3. ASSUME NEW s \in Service, ProcessService(s) \/ RunPostScript(s) \/ ScriptEnds(s)
                                \/ OfBoot(DependencyTimeout(s))
      PROVE  cancelled' = cancelled
  BY <1>3 DEF ProcessService, RunPostScript, ScriptEnds, OfBoot, BeginService,
              PreScriptReturns, DependencyReady, Settled, DependencyFailed, GiveUp,
              DependencyCancelled, LaunchService, LaunchInitial, StartServiceReturned,
              ServiceErrorHandled, EndService, PostScriptTimer, PostScriptCancelled,
              PreScriptSucceeds, PreScriptFails, PostScriptEnds, DependencyTimeout, lcVars
<1>4. ASSUME NEW c \in Client, Command(c) \/ HandleConnection(c) PROVE cancelled' = cancelled
  BY <1>4 DEF Command, HandleConnection, OfServer, AnswerAtOnce, AcceptRestart, Accept,
              FindService, ServiceNotFound, AckRestart, RequestStop, RefuseRestart,
              CloseConnection, lcVars
<1>5. CASE OfEnd(CancelServices)
  BY <1>5 DEF OfEnd, CancelServices, CancelShutdown, StepOfOnce
<1>6. CASE MainOrEnd /\ ~OfEnd(CancelServices)
  BY <1>6 DEF MainOrEnd, Main, RunShutdown, Waiter, OfEnd, OfBoot, OfServer, Listen,
              PublishServer, LoadServices, MainExit, ServerFails, RejectConfig, CloseIPC,
              CheckActive, ServicesStopped, GlobalTimeout, ForceKillAllServices, ForceKill,
              GraceTimeout, WaitBegins, WaiterWakes, Signal, SignalExit, lcVars
<1>7. CASE UNCHANGED svVars
  BY <1>7 DEF svVars, lcVars
<1> QED BY <1>1, <1>2, <1>3, <1>4, <1>5, <1>6, <1>7 DEF SVNext, MainOrEnd

\* A failure's trigger sets the status and, when it is the first, enters the
\* Once (triggerServiceFailureShutdown).
LEMMA TriggerPart ==
  ASSUME SDTypeOK, StatusInv, CancelInv, ~exited, TriggerServiceFailureShutdown,
         cancelled' = cancelled \/ (cancelled' /\ once = "cancel" /\ once' = "close")
  PROVE  SDTypeOK' /\ StatusInv' /\ CancelInv'
BY DEF SDTypeOK, StatusInv, CancelInv, AcceptorStops, TriggerServiceFailureShutdown,
       GracefulShutdown

\* The exit status is set before a failure starts the shutdown, and the
\* listener closed after the context was cancelled (main.go).
LEMMA ShutdownPart ==
  ASSUME SDTypeOK, StatusInv, CancelInv, [SVNext]_svVars
  PROVE  SDTypeOK' /\ StatusInv' /\ CancelInv'
<1> DEFINE Kept == SDTypeOK' /\ StatusInv' /\ CancelInv'
<1>c. cancelled' = cancelled \/ (cancelled' /\ once = "cancel" /\ once' = "close")
  BY WhoCancels
<1>0. CASE UNCHANGED sdVars
  BY <1>c, <1>0 DEF SDTypeOK, StatusInv, CancelInv, AcceptorStops, sdVars
<1>1. ASSUME NEW r \in Run, Goroutine(r) \/ RestartTimer(r) \/ ProcessEnds(r) PROVE Kept
  <2>1. CASE OfEnd(RunTriggers(r))
    BY <1>c, <2>1, TriggerPart DEF OfEnd, RunTriggers
  <2>2. CASE OfEnd(RunRemoves(r))
    BY <1>c, <2>2 DEF OfEnd, RunRemoves, DoneReleases, SDTypeOK, StatusInv, CancelInv, AcceptorStops
  <2>3. CASE OfEnd(RunTriggerReturns(r)) \/ RestartTimer(r) \/ ProcessEnds(r)
    BY <1>0, <2>3 DEF OfEnd, RunTriggerReturns, RestartTimer, ProcessEnds, OfRun
  <2>4. CASE Goroutine(r) /\ UNCHANGED sdVars
    BY <1>0, <2>4
  <2> QED BY <1>1, <2>1, <2>2, <2>3, <2>4 DEF Goroutine, OfRun, RunAnnounces
<1>2. ASSUME NEW r \in Run, HealthMonitor(r) \/ OfMonitor(MonitorTicks(r)) PROVE Kept
  <2>1. ~exited /\ (TriggerServiceFailureShutdown \/ UNCHANGED sdVars)
    BY <1>2 DEF HealthMonitor, OfMonitor, MonitorStops, CheckPasses, CheckFails,
                RestartUnhealthy, UnhealthyWithoutPolicy, UnhealthyReturns, MonitorTicks
  <2> QED BY <1>c, <1>0, <2>1, TriggerPart
<1>3. ASSUME NEW s \in Service,
             ProcessService(s) \/ RunPostScript(s) \/ ScriptEnds(s) \/ OfBoot(DependencyTimeout(s))
      PROVE  Kept
  <2>1. ~exited /\ (TriggerServiceFailureShutdown \/ UNCHANGED sdVars)
    BY <1>3 DEF ProcessService, RunPostScript, ScriptEnds, OfBoot, BeginService,
                PreScriptSucceeds, PreScriptFails, PreScriptReturns, DependencyReady, Settled,
                DependencyFailed, DependencyCancelled, DependencyTimeout, GiveUp,
                LaunchService, StartServiceReturned, ServiceErrorHandled, EndService,
                PostScriptTimer, PostScriptCancelled, PostScriptEnds
  <2> QED BY <1>c, <1>0, <2>1, TriggerPart
<1>4. ASSUME NEW c \in Client, Command(c) \/ HandleConnection(c) PROVE Kept
  <2>1. UNCHANGED sdVars
    BY <1>4 DEF Command, HandleConnection, OfServer, AnswerAtOnce, AcceptRestart, Accept,
                FindService, ServiceNotFound, AckRestart, RefuseRestart, CloseConnection
  <2> QED BY <1>0, <2>1
<1>5. CASE RunShutdown
  <2> USE <1>c DEF OfEnd, StepOfOnce, SDTypeOK, StatusInv, CancelInv, AcceptorStops
  <2>1. CASE OfEnd(CancelServices)
    BY <2>1 DEF CancelServices, CancelShutdown
  <2>2. CASE OfEnd(CloseIPC)
    BY <2>2 DEF CloseIPC
  <2>3. CASE OfEnd(CheckActive)
    BY <2>3 DEF CheckActive
  <2>4. CASE OfEnd(ServicesStopped)
    BY <2>4 DEF ServicesStopped
  <2>5. CASE OfEnd(GlobalTimeout) \/ OfEnd(ForceKillAllServices) \/ OfEnd(GraceTimeout)
    BY <2>5 DEF GlobalTimeout, ForceKillAllServices, GraceTimeout
  <2> QED BY <1>5, <2>1, <2>2, <2>3, <2>4, <2>5 DEF RunShutdown
<1>6. ASSUME NEW code \in {exitCode, Failure, Panic}, Exit(code), starter = "failure" => code # 0,
             UNCHANGED <<lcVars, boot, listener, exitCode, once, waiter, starter, sig>>
      PROVE  Kept
  <2>1. exited' \in BOOLEAN
    BY <1>6, Zenon DEF Exit
  <2>2. cancelled' = cancelled /\ code \in {0, Failure, Panic}
    BY <1>6 DEF lcVars, SDTypeOK
  <2> QED BY <1>6, <2>1, <2>2 DEF Exit, SDTypeOK, StatusInv, CancelInv, AcceptorStops
<1>7. CASE Waiter \/ OfEnd(Signal) \/ OfEnd(SignalExit)
  <2>1. CASE OfEnd(SignalExit)
    BY <1>6, <2>1 DEF OfEnd, SignalExit, StatusInv, Failure
  <2>2. CASE OfEnd(Signal)
    BY <1>c, <2>2 DEF OfEnd, Signal, GracefulShutdown, SDTypeOK, StatusInv, CancelInv, AcceptorStops
  <2>3. CASE OfEnd(WaitBegins)
    BY <1>c, <2>3 DEF OfEnd, WaitBegins, SDTypeOK, StatusInv, CancelInv, AcceptorStops
  <2>4. CASE OfEnd(WaiterWakes) /\ wg = 0
    BY <1>c, <2>4 DEF OfEnd, WaiterWakes, SDTypeOK, StatusInv, CancelInv, AcceptorStops
  <2>5. CASE OfEnd(WaiterWakes) /\ wg # 0
    BY <1>6, <2>5 DEF OfEnd, WaiterWakes, Panic
  <2> QED BY <1>7, <2>1, <2>2, <2>3, <2>4, <2>5 DEF Waiter
<1>9. CASE Main \/ OfServer(ServerFails) \/ OfBoot(RejectConfig)
  <2>1. CASE OfServer(Listen) \/ OfServer(PublishServer) \/ OfServer(ServerFails)
    BY <1>c, <2>1 DEF OfServer, Listen, PublishServer, ServerFails,
                SDTypeOK, StatusInv, CancelInv, AcceptorStops
  <2>2. CASE OfBoot(LoadServices)
    BY <1>c, <2>2 DEF OfBoot, LoadServices, SDTypeOK, StatusInv, CancelInv, AcceptorStops
  <2>3. CASE OfBoot(MainExit)
    BY <1>6, <2>3 DEF OfBoot, MainExit, StatusInv, Failure
  <2>4. CASE OfBoot(RejectConfig)
    BY <1>6, <2>4 DEF OfBoot, RejectConfig, Failure
  <2> QED BY <1>9, <2>1, <2>2, <2>3, <2>4 DEF Main
<1>8. CASE UNCHANGED svVars
  BY <1>0, <1>8 DEF svVars
<1> QED BY <1>1, <1>2, <1>3, <1>4, <1>5, <1>7, <1>8, <1>9 DEF SVNext

\* No run comes back to where it was before it was announced.
LEMMA EarlyIsOver ==
  ASSUME LCTypeOK, [LCNext]_lcVars, NEW q \in Run, pc[q] \notin Early
  PROVE  pc'[q] \notin Early
<1> USE DEF LCTypeOK, Early, Launching
<1>1. CASE \E s \in Service, r \in Run : LaunchInitial(s, r)
  BY <1>1 DEF LaunchInitial
<1>2. ASSUME NEW r \in Run, RunStep(r) PROVE pc'[q] \notin Early
  BY <1>2 DEF RunStep, CheckShutdown, SpawnFails, Spawn, AddActiveService, Announce,
              ObserveExit, ObserveCancel, StopTimeout, ObserveStopped, ReadIntent,
              RemoveActiveService, Decide, FinishStopped, FinishOperator, FinishByPolicy,
              ReturnPC, IncrementRestartCount, Trigger, TriggerReturns
<1>3. ASSUME NEW r \in Run, TimerStep(r) \/ EnvStep(r) PROVE pc'[q] \notin Early
  BY <1>3 DEF TimerStep, SkipRestart, RestartServiceInternal, EnvStep, ProcessExits, RequestStop
<1>4. CASE ForceKill(Registered) \/ CancelShutdown \/ UNCHANGED lcVars
  BY <1>4 DEF ForceKill, CancelShutdown, lcVars
<1> QED BY <1>1, <1>2, <1>3, <1>4 DEF LCNext

\* A monitor starts once and counts no further than its retries (health.go).
LEMMA MonitorPart ==
  ASSUME LCTypeOK, HMTypeOK, MonitorsInv, [LCNext]_lcVars, [SVNext]_svVars
  PROVE  HMTypeOK' /\ MonitorsInv'
<1> USE HealthAssumption, EarlyIsOver DEF HMTypeOK, MonitorsInv, hmVars
<1>1. ASSUME NEW r \in Run, Goroutine(r) \/ RestartTimer(r) \/ ProcessEnds(r)
      PROVE  HMTypeOK' /\ MonitorsInv'
  <2>1. CASE RunAnnounces(r)
    <3>1. hm[r] = "off"
      BY <2>1 DEF RunAnnounces, Announce, Early
    <3>2. pc' = [pc EXCEPT ![r] = "waiting"]
      BY <2>1 DEF RunAnnounces, Announce
    <3>3. pc'[r] \notin Early
      BY <3>2 DEF LCTypeOK, Early, Launching
    <3> QED BY <2>1, <3>1, <3>3 DEF RunAnnounces, StartHealthMonitor
  <2>2. CASE UNCHANGED hmVars
    BY <2>2
  <2> QED BY <1>1, <2>1, <2>2 DEF Goroutine, RestartTimer, ProcessEnds, OfRun, OfEnd
<1>2. ASSUME NEW r \in Run, HealthMonitor(r) \/ OfMonitor(MonitorTicks(r))
      PROVE  HMTypeOK' /\ MonitorsInv'
  <2>1. CASE OfMonitor(CheckPasses(r))
    BY <2>1 DEF OfMonitor, CheckPasses
  <2>2. CASE OfMonitor(CheckFails(r))
    <3>1. CASE misses[r] + 1 >= Retries
      BY <2>2, <3>1 DEF OfMonitor, CheckFails
    <3>2. CASE ~(misses[r] + 1 >= Retries)
      <4>1. misses[r] + 1 \in 0..(Retries - 1)
        BY <3>2
      <4> QED BY <2>2, <3>2, <4>1 DEF OfMonitor, CheckFails
    <3> QED BY <3>1, <3>2
  <2>3. CASE OfMonitor(MonitorTicks(r)) \/ OfMonitor(MonitorStops(r))
    BY <2>3 DEF OfMonitor, MonitorTicks, MonitorStops
  <2>4. CASE \/ OfMonitor(RestartUnhealthy(r)) \/ OfMonitor(UnhealthyWithoutPolicy(r))
             \/ OfMonitor(UnhealthyReturns(r))
    BY <2>4 DEF OfMonitor, RestartUnhealthy, UnhealthyWithoutPolicy, UnhealthyReturns
  <2> QED BY <1>2, <2>1, <2>2, <2>3, <2>4 DEF HealthMonitor
<1>3. CASE \E s \in Service : \/ ProcessService(s) \/ RunPostScript(s)
                              \/ ScriptEnds(s) \/ OfBoot(DependencyTimeout(s))
  BY <1>3 DEF ProcessService, RunPostScript, ScriptEnds, OfBoot
<1>4. CASE \E c \in Client : Command(c) \/ HandleConnection(c)
  BY <1>4 DEF HandleConnection, Command, OfServer
<1>5. CASE MainOrEnd
  BY <1>5 DEF MainOrEnd, Main, RunShutdown, Waiter, OfEnd, OfBoot, OfServer
<1>6. CASE UNCHANGED svVars
  BY <1>6 DEF svVars
<1> QED BY <1>1, <1>2, <1>3, <1>4, <1>5, <1>6 DEF SVNext, MainOrEnd

\* A connection keeps a service it was asked for and a run it found (ipc.go).
LEMMA ControlPart ==
  ASSUME LCTypeOK, CTLTypeOK, ConnectionsInv, [SVNext]_svVars
  PROVE  CTLTypeOK' /\ ConnectionsInv'
<1> USE DEF CTLTypeOK, ConnectionsInv, ctVars
<1>1. ASSUME NEW c \in Client,
             HandleConnection(c) \/ Command(c)
      PROVE  CTLTypeOK' /\ ConnectionsInv'
  <2>1. CASE OfServer(FindService(c))
    BY <2>1 DEF OfServer, FindService, LCTypeOK
  <2>2. CASE \/ OfServer(AckRestart(c)) \/ OfServer(RefuseRestart(c))
             \/ OfServer(ServiceNotFound(c))
    BY <2>2 DEF OfServer, AckRestart, RefuseRestart, ServiceNotFound, CloseConnection
  <2>3. CASE Command(c)
    BY <2>3, ControlAssumption DEF Command, OfServer, AnswerAtOnce, AcceptRestart, Accept
  <2> QED BY <1>1, <2>1, <2>2, <2>3 DEF HandleConnection
<1>2. CASE UNCHANGED ctVars
  BY <1>2
<1>3. CASE \E r \in Run : \/ Goroutine(r) \/ RestartTimer(r) \/ ProcessEnds(r)
                          \/ HealthMonitor(r) \/ OfMonitor(MonitorTicks(r))
  <2>1. UNCHANGED ctVars
    BY <1>3 DEF Goroutine, RestartTimer, ProcessEnds, HealthMonitor, OfRun, OfEnd, OfMonitor,
                RunAnnounces
  <2> QED BY <1>2, <2>1
<1>4. CASE \/ \E s \in Service : \/ ProcessService(s) \/ RunPostScript(s)
                                 \/ ScriptEnds(s) \/ OfBoot(DependencyTimeout(s))
           \/ MainOrEnd
           \/ UNCHANGED svVars
  <2>1. UNCHANGED ctVars
    <3>1. CASE MainOrEnd
      BY <3>1 DEF MainOrEnd, Main, RunShutdown, Waiter, OfBoot, OfEnd, OfServer, Listen,
                  PublishServer, ServerFails
    <3> QED BY <1>4, <3>1 DEF ProcessService, RunPostScript, ScriptEnds, OfBoot, svVars
  <2> QED BY <1>2, <2>1
<1> QED BY <1>1, <1>3, <1>4 DEF SVNext, MainOrEnd

\* Arithmetic: the next index of a list is at most one past its end.
LEMMA NextIndex ==
  ASSUME NEW i \in Nat, NEW n \in Nat, i >= 1, i <= n
  PROVE  i + 1 \in 1..(n + 1)
  OBVIOUS

\* The walk over depends_on never runs past the list (waitForDependencies).
LEMMA StartupPart ==
  ASSUME SUTypeOK, SettlingInv, [SVNext]_svVars
  PROVE  SUTypeOK' /\ SettlingInv'
<1> USE LifecycleAssumption, StartupAssumption
    DEF SUTypeOK, SettlingInv, suVars, MarkReady, MarkFailed
<1>0. \A s \in Service : Len(DependsOn[s]) \in Nat /\ depIx[s] \in Nat
  OBVIOUS
<1>1. ASSUME NEW s \in Service,
             ProcessService(s) \/ RunPostScript(s) \/ ScriptEnds(s) \/ OfBoot(DependencyTimeout(s))
      PROVE  SUTypeOK' /\ SettlingInv'
  <2>1. CASE OfBoot(BeginService(s)) \/ ScriptEnds(s) \/ OfBoot(PreScriptReturns(s))
    BY <2>1 DEF OfBoot, BeginService, ScriptEnds, PreScriptSucceeds, PreScriptFails,
                PreScriptReturns, PostScriptEnds
  <2>2. CASE OfBoot(DependencyReady(s)) \/ OfBoot(Settled(s))
    <3>1. depIx[s] <= Len(DependsOn[s])
      BY <1>0, <2>2 DEF OfBoot, DependencyReady, AwaitsDependency, Settled
    <3>2. depIx[s] + 1 \in 1..(Len(DependsOn[s]) + 1)
      <4>1. depIx[s] >= 1
        OBVIOUS
      <4> QED BY <1>0, <3>1, <4>1, NextIndex
    <3>3. UNCHANGED <<post, ready, failed>>
      BY <2>2 DEF OfBoot, DependencyReady, Settled
    <3>4. CASE sp' = [sp EXCEPT ![s] = "settle"] /\ UNCHANGED depIx
      BY <3>1, <3>3, <3>4
    <3>5. CASE /\ depIx' = [depIx EXCEPT ![s] = depIx[s] + 1]
               /\ sp' = sp \/ sp' = [sp EXCEPT ![s] = "deps"]
               /\ sp'[s] # "settle"
      <4>0. depIx' \in [Service -> Nat]
        <5>1. depIx \in [Service -> Nat] /\ depIx[s] + 1 \in Nat
          BY <1>0
        <5> QED BY <3>5, <5>1
      <4>1. sp' \in [Service -> {"idle", "pre", "preBlocked", "deps", "settle",
                                "launched", "blocked", "await", "done"}]
        BY <3>5
      <4>2. ASSUME NEW t \in Service
            PROVE  /\ depIx'[t] \in 1..(Len(DependsOn[t]) + 1)
                   /\ sp'[t] = "settle" => depIx'[t] <= Len(DependsOn[t])
        <5>1. CASE t = s
          BY <3>2, <3>5, <5>1
        <5>2. CASE t # s
          BY <3>5, <5>2
        <5> QED BY <5>1, <5>2
      <4> QED BY <3>3, <4>0, <4>1, <4>2
    <3> QED
      BY <2>2, <3>4, <3>5 DEF OfBoot, DependencyReady, AwaitsDependency, Settled
  <2>3. CASE \/ OfBoot(DependencyFailed(s)) \/ OfBoot(DependencyCancelled(s))
             \/ OfBoot(DependencyTimeout(s))
    BY <2>3 DEF OfBoot, DependencyFailed, DependencyCancelled, DependencyTimeout, GiveUp
  <2>4. CASE \E r \in Run : OfBoot(LaunchService(s, r))
    BY <2>4 DEF OfBoot, LaunchService
  <2>5. CASE OfBoot(StartServiceReturned(s))
    <3>1. UNCHANGED <<depIx, post>>
      BY <2>5 DEF OfBoot, StartServiceReturned
    <3>2. ready' \subseteq Service /\ failed' \subseteq Service
      <4>1. ready' \in {ready, ready \cup {s}} /\ failed' \in {failed, failed \cup {s}}
        BY <2>5 DEF OfBoot, StartServiceReturned
      <4> QED BY <4>1
    <3>3. \E v \in {"blocked", "await"} : sp' = [sp EXCEPT ![s] = v]
      BY <2>5 DEF OfBoot, StartServiceReturned
    <3> QED BY <3>1, <3>2, <3>3
  <2>6. CASE OfBoot(ServiceErrorHandled(s)) \/ OfBoot(EndService(s))
    BY <2>6 DEF OfBoot, ServiceErrorHandled, EndService
  <2>7. CASE RunPostScript(s)
    BY <2>7 DEF RunPostScript, OfBoot, PostScriptTimer, PostScriptCancelled
  <2> QED BY <1>1, <2>1, <2>2, <2>3, <2>4, <2>5, <2>6, <2>7 DEF ProcessService
<1>2. ASSUME NEW r \in Run, RunAnnounces(r) PROVE SUTypeOK' /\ SettlingInv'
  BY <1>2 DEF RunAnnounces, MarkReadyOnAnnounce
<1>3. CASE UNCHANGED suVars
  BY <1>3
<1>4. CASE \E r \in Run : \/ Goroutine(r) \/ RestartTimer(r) \/ ProcessEnds(r)
                          \/ HealthMonitor(r) \/ OfMonitor(MonitorTicks(r))
  <2>1. UNCHANGED suVars \/ \E r \in Run : RunAnnounces(r)
    BY <1>4 DEF Goroutine, RestartTimer, ProcessEnds, HealthMonitor, OfRun, OfEnd, OfMonitor
  <2> QED BY <1>2, <1>3, <2>1
<1>5. CASE \E c \in Client : Command(c) \/ HandleConnection(c)
  BY <1>5, <1>3 DEF HandleConnection, Command, OfServer
<1>6. CASE MainOrEnd \/ UNCHANGED svVars
  BY <1>6, <1>3 DEF MainOrEnd, Main, RunShutdown, Waiter, OfEnd, OfBoot, OfServer,
                    LoadServices, RejectConfig, MainExit, svVars
<1> QED BY <1>1, <1>4, <1>5, <1>6 DEF SVNext, MainOrEnd

-----------------------------------------------------------------------------
(* The composition.                                                        *)

\* The invariant of the composition holds when startAllServices begins.
LEMMA SVInvInit == SVInit => SVInv
<1> SUFFICES ASSUME SVInit PROVE SVInv
  OBVIOUS
<1> USE DEF SVInit
<1>1. LCTypeOK
  BY LCTypeInit
<1>2. SDTypeOK /\ StatusInv /\ CancelInv
  BY DEF LCInit, SDInit, SDTypeOK, StatusInv, CancelInv, AcceptorStops
<1>3. SUTypeOK /\ SettlingInv
  BY StartupAssumption DEF SUInit, SUTypeOK, SettlingInv
<1>4. HMTypeOK /\ MonitorsInv
  BY HealthAssumption DEF HMInit, HMTypeOK, MonitorsInv
<1>5. CTLTypeOK /\ ConnectionsInv
  BY DEF CTLInit, CTLTypeOK, ConnectionsInv
<1> QED BY <1>1, <1>2, <1>3, <1>4, <1>5 DEF SVInv, SVTypeOK

\* Every step keeps it, and is a step of Lifecycle.
LEMMA SVInvStep == SVInv /\ [SVNext]_svVars => SVInv' /\ [LCNext]_lcVars
<1> SUFFICES ASSUME SVInv, [SVNext]_svVars PROVE SVInv' /\ [LCNext]_lcVars
  OBVIOUS
<1> USE DEF SVInv, SVTypeOK
<1>1. [LCNext]_lcVars
  BY StepRefinesLifecycle
<1>2. LCTypeOK'
  BY <1>1, LCTypeStep
<1>3. SDTypeOK' /\ StatusInv' /\ CancelInv' /\ SUTypeOK' /\ SettlingInv'
  BY ShutdownPart, StartupPart
<1>4. HMTypeOK' /\ MonitorsInv' /\ CTLTypeOK' /\ ConnectionsInv'
  BY <1>1, MonitorPart, ControlPart
<1> QED BY <1>1, <1>2, <1>3, <1>4

\* Every variable of the supervisor keeps its type: an index into depends_on
\* never runs past the list, a monitor never counts past its retries.
THEOREM SVTypeCorrect == SVSpec => []SVTypeOK
<1>1. SVInv => SVTypeOK
  BY DEF SVInv
<1> QED BY <1>1, SVInvInit, SVInvStep, PTL DEF SVSpec

\* A shutdown that a failed service started never exits with status 0.
THEOREM FailureStatus == SVSpec => []FailureExitsOne
<1>1. SVInv => FailureExitsOne
  BY DEF SVInv, StatusInv, FailureExitsOne
<1> QED BY <1>1, SVInvInit, SVInvStep, PTL DEF SVSpec

\* The listener is closed only when the shutdown is cancelled, so that the
\* accept loop always finds the reason why it cannot accept any more.
THEOREM AcceptLoopEnds == SVSpec => []AcceptorStops
<1>1. SVInv => AcceptorStops
  BY DEF SVInv, CancelInv
<1> QED BY <1>1, SVInvInit, SVInvStep, PTL DEF SVSpec

\* The supervisor implements Lifecycle: monitors, operator and shutdown stop a
\* run only by the compare-and-swap of its intent, boot launches each service
\* once.
THEOREM SupervisorImplementsLifecycle == SVSpec => LCSpec
<1>1. SVInit => LCInit
  BY DEF SVInit
<1> QED BY <1>1, SVInvInit, SVInvStep, PTL DEF SVSpec, LCSpec

\* In the supervisor, too, no service ever has two processes, the WaitGroup of
\* the shutdown counts the registered services, and max_restarts is kept.
THEOREM SupervisorSafety ==
  SVSpec => [](SingleInstance /\ RegistryExact /\ WaitGroupExact /\ RestartBudget)
BY SupervisorImplementsLifecycle, OneInstance, RegistryCorrect, WaitGroupCorrect, BudgetKept, PTL

\* And every service keeps the promise of Contract.
THEOREM SupervisorImplementsContract == SVSpec => ImplementsContract
BY SupervisorImplementsLifecycle, LifecycleImplementsContract
=============================================================================
