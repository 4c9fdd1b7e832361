----------------------------- MODULE BootProofs -----------------------------
(***************************************************************************)
(* Proofs about what the supervisor tells others of its services, for any  *)
(* configuration: `list` and `status` name the state a service is in, and  *)
(* the boot sequence gives every service one verdict and never two.        *)
(***************************************************************************)
EXTENDS SupervisorProofs

-----------------------------------------------------------------------------
(* What is listed.                                                         *)

\* The state of a run follows its place in startService and finishService, and
\* nobody but the run itself changes it before it is removed.
StateShape ==
  \A r \in Run :
    /\ pc[r] = "registered" => state[r] = "STARTING"
    /\ pc[r] = "waiting" => state[r] = "RUNNING"
    /\ pc[r] \in {"stopping", "killing"} => state[r] = "STOPPING" /\ intent[r] # "none"
    /\ pc[r] \in {"finishing", "removing"} =>
         /\ proc[r] = "dead"
         /\ state[r] \in {"RUNNING", "STOPPING", "FAILED"}
         /\ state[r] = "STOPPING" => intent[r] # "none"
         /\ state[r] = "FAILED" => pc[r] = "removing" /\ seen[r] = "none"

\* Every step of a run or its environment keeps StateShape.
LEMMA StateShapeStep ==
  ASSUME LCInv, StateShape, [LCNext]_lcVars
  PROVE  StateShape'
<1> USE LifecycleAssumption DEF LCInv, LCTypeOK, StateShape
<1>1. ASSUME NEW s \in Service, NEW r \in Run, LaunchInitial(s, r) PROVE StateShape'
  BY <1>1 DEF LaunchInitial
<1>2. ASSUME NEW r \in Run, RunStep(r) PROVE StateShape'
  <2>1. CASE CheckShutdown(r) \/ SpawnFails(r) \/ Spawn(r)
    BY <2>1 DEF CheckShutdown, SpawnFails, Spawn
  <2>2. CASE AddActiveService(r)
    BY <2>2 DEF AddActiveService
  <2>3. CASE Announce(r)
    BY <2>3 DEF Announce
  <2>4. CASE ObserveExit(r) \/ ObserveStopped(r)
    BY <2>4 DEF ObserveExit, ObserveStopped
  <2>5. CASE ObserveCancel(r)
    BY <2>5 DEF ObserveCancel
  <2>6. CASE StopTimeout(r)
    BY <2>6 DEF StopTimeout
  <2>7. CASE ReadIntent(r)
    BY <2>7 DEF ReadIntent
  <2>8. CASE RemoveActiveService(r)
    <3>1. active[SvcOf[r]] = r /\ active[SvcOf[r]] # None
      BY <2>8 DEF RemoveActiveService, LCShape, RegistryExact
    <3>2. /\ pc' = [pc EXCEPT ![r] = "deciding"]
          /\ state' = [state EXCEPT ![r] = "STOPPED"]
          /\ UNCHANGED <<proc, intent, seen>>
      BY <2>8, <3>1 DEF RemoveActiveService
    <3> QED BY <3>2
  <2>9. CASE Decide(r) \/ IncrementRestartCount(r) \/ Trigger(r) \/ TriggerReturns(r)
    <3>1. \E v \in Ending \cup Returned :
            /\ v \notin {"finishing", "removing"}
            /\ pc' = [pc EXCEPT ![r] = v]
      BY <2>9 DEF Decide, FinishStopped, FinishOperator, FinishByPolicy, ReturnPC,
                  IncrementRestartCount, Trigger, TriggerReturns, Ending, Returned
    <3>2. UNCHANGED <<proc, intent, seen, state>>
      BY <2>9 DEF Decide, IncrementRestartCount, Trigger, TriggerReturns
    <3> QED BY <3>1, <3>2 DEF Ending, Returned
  <2> QED BY <1>2, <2>1, <2>2, <2>3, <2>4, <2>5, <2>6, <2>7, <2>8, <2>9 DEF RunStep
<1>3. ASSUME NEW r \in Run, TimerStep(r) PROVE StateShape'
  BY <1>3 DEF TimerStep, SkipRestart, RestartServiceInternal
<1>4. ASSUME NEW r \in Run, EnvStep(r) PROVE StateShape'
  BY <1>4 DEF EnvStep, ProcessExits, RequestStop
<1>5. CASE ForceKill(Registered) \/ CancelShutdown \/ UNCHANGED lcVars
  BY <1>5 DEF ForceKill, CancelShutdown, lcVars
<1> QED BY <1>1, <1>2, <1>3, <1>4, <1>5 DEF LCNext

\* Theorem: whenever the control socket looks, a service is listed as FAILED
\* only if its process ended unasked, as STOPPING only if somebody asked, and
\* never as PENDING or STOPPED (handleListServices, handleGetStatus).
THEOREM ListIsTrue == SVSpec => []ListedTruly
<1>1. LCInit => LCInv /\ StateShape
  <2>1. LCInit => StateShape
    BY DEF LCInit, StateShape
  <2> QED BY <2>1, LCInvInit
<1>2. LCInv /\ StateShape /\ [LCNext]_lcVars => (LCInv /\ StateShape)'
  BY LCInvStep, StateShapeStep
<1>3. LCInv /\ StateShape => ListedTruly
  <2> SUFFICES ASSUME LCInv, StateShape, NEW s \in Service, active[s] # None
               PROVE  /\ Listed(s) \in {"STARTING", "RUNNING", "STOPPING", "FAILED"}
                      /\ Listed(s) = "FAILED" => proc[active[s]] = "dead" /\ seen[active[s]] = "none"
                      /\ Listed(s) = "STOPPING" => intent[active[s]] # "none"
    BY DEF ListedTruly
  <2>1. active[s] \in Run /\ SvcOf[active[s]] = s
    BY DEF LCInv, LCTypeOK, LCShape, RegistrySound
  <2>2. pc[active[s]] \in Serving \cup {"finishing", "removing"}
    BY <2>1 DEF LCInv, LCShape, RegistryExact
  <2> QED BY <2>1, <2>2 DEF StateShape, Serving, Listed
<1> QED BY <1>1, <1>2, <1>3, SupervisorImplementsLifecycle, PTL DEF LCSpec
-----------------------------------------------------------------------------
(* The first run of a service.                                             *)

\* processService launches one run of its service; any other run exists only
\* because a restart timer of the first one fired.
FirstInv ==
  /\ \A s \in Service : first[s] # None => SvcOf[first[s]] = s /\ pc[first[s]] # "unused"
  /\ \A r \in Run :
       pc[r] # "unused" /\ first[SvcOf[r]] # r => timer[first[SvcOf[r]]] = "fired"

\* Every step keeps it (processService, scheduleRestart).
LEMMA FirstInvStep ==
  ASSUME LCInv, FirstInv, [LCNext]_lcVars
  PROVE  FirstInv'
<1> USE LifecycleAssumption DEF LCInv, LCTypeOK, LCShape, RunShape, FirstInv
<1>1. ASSUME NEW s \in Service, NEW r \in Run, LaunchInitial(s, r) PROVE FirstInv'
  BY <1>1 DEF LaunchInitial
<1>2. ASSUME NEW r \in Run, RunStep(r) PROVE FirstInv'
  <2>1. pc[r] # "unused" /\ first' = first
    BY <1>2 DEF RunStep, CheckShutdown, SpawnFails, Spawn, AddActiveService, Announce,
                ObserveExit, ObserveCancel, StopTimeout, ObserveStopped, ReadIntent,
                RemoveActiveService, Decide, IncrementRestartCount, Trigger, TriggerReturns
  <2>2. \E v \in PC \ {"unused"} : pc' = [pc EXCEPT ![r] = v]
    BY <1>2 DEF RunStep, CheckShutdown, SpawnFails, Spawn, AddActiveService, Announce,
                ObserveExit, ObserveCancel, StopTimeout, ObserveStopped, ReadIntent,
                RemoveActiveService, Decide, FinishStopped, FinishOperator, FinishByPolicy,
                ReturnPC, IncrementRestartCount, Trigger, TriggerReturns,
                PC, Launching, Serving, Ending, Returned
  <2>3. timer' = timer \/ (pc[r] \in {"deciding", "bumping"} /\ timer' = [timer EXCEPT ![r] = "armed"])
    BY <1>2 DEF RunStep, CheckShutdown, SpawnFails, Spawn, AddActiveService, Announce,
                ObserveExit, ObserveCancel, StopTimeout, ObserveStopped, ReadIntent,
                RemoveActiveService, Decide, FinishStopped, FinishOperator, FinishByPolicy,
                IncrementRestartCount, Trigger, TriggerReturns
  <2> QED BY <2>1, <2>2, <2>3
<1>3. ASSUME NEW r \in Run, SkipRestart(r) PROVE FirstInv'
  BY <1>3 DEF SkipRestart
<1>4. ASSUME NEW r \in Run, NEW q \in Run, RestartServiceInternal(r, q) PROVE FirstInv'
  BY <1>4 DEF RestartServiceInternal
<1>5. ASSUME NEW r \in Run, EnvStep(r) PROVE FirstInv'
  BY <1>5 DEF EnvStep, ProcessExits, RequestStop
<1>6. CASE ForceKill(Registered) \/ CancelShutdown \/ UNCHANGED lcVars
  BY <1>6 DEF ForceKill, CancelShutdown, lcVars
<1> QED BY <1>1, <1>2, <1>3, <1>4, <1>5, <1>6 DEF LCNext, TimerStep

\* What a run returned it has returned for good, and one that was announced
\* does not return a startupError any more (startService).
LEMMA Fate ==
  ASSUME LCTypeOK, [LCNext]_lcVars, NEW q \in Run
  PROVE  /\ pc[q] \in Returned => pc'[q] = pc[q]
         /\ pc[q] \notin Early => pc'[q] \notin Early
         /\ pc[q] \notin Early /\ pc'[q] = "retStartup" => pc[q] = "retStartup"
<1> USE DEF LCTypeOK, Early, Launching, Returned
<1>1. CASE \E s \in Service, r \in Run : LaunchInitial(s, r)
  BY <1>1 DEF LaunchInitial
<1>2. ASSUME NEW r \in Run, RunStep(r)
      PROVE  /\ pc[q] \in Returned => pc'[q] = pc[q]
             /\ pc[q] \notin Early /\ pc'[q] = "retStartup" => pc[q] = "retStartup"
  BY <1>2 DEF RunStep, CheckShutdown, SpawnFails, Spawn, AddActiveService, Announce,
              ObserveExit, ObserveCancel, StopTimeout, ObserveStopped, ReadIntent,
              RemoveActiveService, Decide, FinishStopped, FinishOperator, FinishByPolicy,
              ReturnPC, IncrementRestartCount, Trigger, TriggerReturns
<1>3. ASSUME NEW r \in Run, TimerStep(r) \/ EnvStep(r)
      PROVE  /\ pc[q] \in Returned => pc'[q] = pc[q]
             /\ pc[q] \notin Early /\ pc'[q] = "retStartup" => pc[q] = "retStartup"
  BY <1>3 DEF TimerStep, SkipRestart, RestartServiceInternal, EnvStep, ProcessExits, RequestStop
<1>4. CASE ForceKill(Registered) \/ CancelShutdown \/ UNCHANGED lcVars
  BY <1>4 DEF ForceKill, CancelShutdown, lcVars
<1> QED BY <1>1, <1>2, <1>3, <1>4, EarlyIsOver DEF LCNext

-----------------------------------------------------------------------------
(* The verdicts.                                                           *)

Unlaunched == {"idle", "pre", "preBlocked", "deps", "settle"}

\* processService has launched its first run, or not yet.
LaunchShape ==
  \A s \in Service :
    /\ sp[s] \in Unlaunched => first[s] = None
    /\ sp[s] \in {"launched", "blocked", "await"} => first[s] # None

\* A service is ready from its announcement on, and only then.
ReadyShape ==
  \A s \in Service \ Oneshot :
    /\ s \in ready => first[s] # None /\ pc[first[s]] \notin Early \cup {"retStartup"}
    /\ first[s] # None /\ pc[first[s]] \notin Early \cup {"retStartup"} => s \in ready \/ cancelled

\* A one-shot job is ready once its first run returned without an error.
JobShape ==
  \A s \in Oneshot : s \in ready =>
    first[s] # None /\ pc[first[s]] = "retNil" /\ sp[s] \in {"await", "done"}

\* A service has failed before its launch, or by what its first run returned.
FailedShape ==
  \A s \in Service : s \in failed =>
    IF first[s] = None THEN sp[s] = "done"
    ELSE /\ sp[s] \in {"blocked", "await", "done"}
         /\ pc[first[s]] \in IF s \in Oneshot THEN {"retStartup", "retExit"} ELSE {"retStartup"}

\* While a failure of a required service is handled it has its verdict.
BlockedShape == \A s \in Service : sp[s] = "blocked" => s \in failed

VerdictInv ==
  /\ LaunchShape /\ ReadyShape /\ JobShape /\ FailedShape /\ BlockedShape /\ VerdictGiven

\* Leaving the steps before the announcement without it means that startService
\* failed or found the context done.
Unannounced ==
  \A q \in Run : pc[q] \in Early /\ pc'[q] \notin Early \cup {"retStartup"} => cancelled

\* Whoever is neither processService nor announces a run touches no verdict.
LEMMA OthersGiveNoVerdict ==
  ASSUME LCTypeOK, [SVNext]_svVars,
         ~ \E r \in Run : RunAnnounces(r),
         ~ \E s \in Service : \/ ProcessService(s) \/ RunPostScript(s) \/ ScriptEnds(s)
                              \/ OfBoot(DependencyTimeout(s))
  PROVE  UNCHANGED <<first, sp, ready, failed>> /\ Unannounced
<1> DEFINE Goal == UNCHANGED <<first, sp, ready, failed>> /\ Unannounced
<1> USE DEF LCTypeOK
<1>1. ASSUME NEW r \in Run, Goroutine(r) PROVE Goal
  <2>1. UNCHANGED suVars
    BY <1>1 DEF Goroutine, OfRun, OfEnd
  <2>2. CASE OfRun(CheckShutdown(r))
    BY <2>1, <2>2 DEF OfRun, CheckShutdown, Unannounced, Early, Launching, suVars
  <2>3. CASE OfRun(SpawnFails(r)) \/ OfRun(Spawn(r)) \/ OfRun(AddActiveService(r))
    BY <2>1, <2>3 DEF OfRun, SpawnFails, Spawn, AddActiveService, Unannounced, Early, Launching, suVars
  <2>4. CASE \/ OfRun(ObserveExit(r)) \/ OfRun(ObserveCancel(r))
             \/ OfRun(StopTimeout(r)) \/ OfRun(ObserveStopped(r))
    BY <2>1, <2>4 DEF OfRun, ObserveExit, ObserveCancel, StopTimeout, ObserveStopped,
                      Unannounced, Early, Launching, suVars
  <2>5. CASE OfRun(ReadIntent(r)) \/ OfEnd(RunRemoves(r)) \/ OfRun(IncrementRestartCount(r))
    BY <2>1, <2>5 DEF OfRun, OfEnd, ReadIntent, RunRemoves, RemoveActiveService,
                      IncrementRestartCount, Unannounced, Early, Launching, suVars
  <2>6. CASE OfRun(Decide(r))
    BY <2>1, <2>6 DEF OfRun, Decide, FinishStopped, FinishOperator, FinishByPolicy, ReturnPC,
                      Unannounced, Early, Launching, suVars
  <2>7. CASE OfEnd(RunTriggers(r)) \/ OfEnd(RunTriggerReturns(r))
    BY <2>1, <2>7 DEF OfEnd, RunTriggers, Trigger, RunTriggerReturns, TriggerReturns,
                      Unannounced, Early, Launching, suVars
  <2> QED BY <1>1, <2>2, <2>3, <2>4, <2>5, <2>6, <2>7 DEF Goroutine
<1>2. ASSUME NEW r \in Run, RestartTimer(r) \/ ProcessEnds(r) PROVE Goal
  BY <1>2 DEF RestartTimer, SkipRestart, RestartServiceInternal, ProcessEnds, ProcessExits,
              OfRun, Unannounced, Early, Launching, suVars
<1>3. ASSUME NEW r \in Run, HealthMonitor(r) \/ OfMonitor(MonitorTicks(r)) PROVE Goal
  <2>1. UNCHANGED <<pc, first, suVars>>
    BY <1>3 DEF HealthMonitor, OfMonitor, MonitorStops, CheckPasses, CheckFails, RequestStop,
                RestartUnhealthy, UnhealthyWithoutPolicy, UnhealthyReturns, MonitorTicks, lcVars
  <2> QED BY <2>1 DEF Unannounced, suVars
<1>4. ASSUME NEW c \in Client, Command(c) \/ HandleConnection(c) PROVE Goal
  <2>1. UNCHANGED <<pc, first, suVars>>
    BY <1>4 DEF Command, HandleConnection, OfServer, AnswerAtOnce, AcceptRestart, Accept,
                FindService, ServiceNotFound, AckRestart, RequestStop, RefuseRestart,
                CloseConnection, lcVars
  <2> QED BY <2>1 DEF Unannounced, suVars
<1>5. CASE MainOrEnd
  <2>1. UNCHANGED suVars
    BY <1>5 DEF MainOrEnd, Main, RunShutdown, Waiter, OfEnd, OfBoot, OfServer,
                LoadServices, RejectConfig, MainExit
  <2>2. UNCHANGED <<pc, first>>
    <3>1. CASE Main \/ OfServer(ServerFails) \/ OfBoot(RejectConfig)
      BY <3>1 DEF Main, OfServer, OfBoot, Listen, PublishServer, LoadServices, MainExit,
                  ServerFails, RejectConfig, lcVars
    <3>2. CASE RunShutdown
      BY <3>2 DEF RunShutdown, OfEnd, CancelServices, CancelShutdown, CloseIPC, CheckActive,
                  ServicesStopped, GlobalTimeout, ForceKillAllServices, ForceKill,
                  GraceTimeout, lcVars
    <3>3. CASE Waiter \/ OfEnd(Signal) \/ OfEnd(SignalExit)
      BY <3>3 DEF Waiter, OfEnd, WaitBegins, WaiterWakes, Signal, SignalExit, lcVars
    <3> QED BY <1>5, <3>1, <3>2, <3>3 DEF MainOrEnd
  <2> QED BY <2>1, <2>2 DEF Unannounced, suVars
<1>6. CASE UNCHANGED svVars
  BY <1>6 DEF svVars, lcVars, suVars, Unannounced
<1> QED BY <1>1, <1>2, <1>3, <1>4, <1>5, <1>6 DEF SVNext, MainOrEnd

\* Then the verdicts keep what they say.
LEMMA VerdictsKept ==
  ASSUME LCInv, FirstInv, VerdictInv, [LCNext]_lcVars,
         UNCHANGED <<first, sp, ready, failed>>, Unannounced
  PROVE  VerdictInv'
<1> USE LifecycleAssumption DEF LCInv, LCTypeOK, VerdictInv
<1>1. ASSUME NEW s \in Service, first[s] # None
      PROVE  /\ first[s] \in Run
             /\ pc[first[s]] \in Returned => pc'[first[s]] = pc[first[s]]
             /\ pc[first[s]] \notin Early => pc'[first[s]] \notin Early
             /\ pc[first[s]] \notin Early /\ pc'[first[s]] = "retStartup" => pc[first[s]] = "retStartup"
  BY <1>1, Fate
<1>2. cancelled => cancelled'
  BY CancelledForGood
<1>3. LaunchShape' /\ BlockedShape'
  BY DEF LaunchShape, BlockedShape
<1>4. ReadyShape'
  BY <1>1, <1>2 DEF ReadyShape, Unannounced, Early, Returned, Launching
<1>5. JobShape' /\ FailedShape'
  BY <1>1 DEF JobShape, FailedShape, Returned
<1>6. VerdictGiven'
  BY <1>2 DEF VerdictGiven
<1> QED BY <1>3, <1>4, <1>5, <1>6

\* The announcement of a run, the first of its service or a later one, makes
\* the service ready for good (startService).
LEMMA AnnouncementVerdict ==
  ASSUME LCInv, FirstInv, VerdictInv, NEW r \in Run, RunAnnounces(r)
  PROVE  VerdictInv'
<1> USE LifecycleAssumption DEF LCInv, LCTypeOK, LCShape, RunShape, FirstInv, VerdictInv
<1>1. /\ pc[r] = "registered"
      /\ pc' = [pc EXCEPT ![r] = "waiting"]
      /\ UNCHANGED <<first, sp, failed, cancelled>>
      /\ ready' = IF SvcOf[r] \in Oneshot THEN ready ELSE ready \cup {SvcOf[r]}
  BY DEF RunAnnounces, Announce, MarkReadyOnAnnounce, MarkReady
<1>2. first[SvcOf[r]] # None
  BY <1>1
<1>3. first[SvcOf[r]] # r => pc[first[SvcOf[r]]] \in {"retNil", "retExit"}
  BY <1>1, <1>2
<1>4. LaunchShape' /\ BlockedShape' /\ VerdictGiven'
  BY <1>1 DEF LaunchShape, BlockedShape, VerdictGiven
<1>5. ReadyShape'
  BY <1>1, <1>2, <1>3 DEF ReadyShape, Early, Launching
<1>6. JobShape' /\ FailedShape'
  BY <1>1 DEF JobShape, FailedShape
<1> QED BY <1>4, <1>5, <1>6

\* processService gives its service the verdict its boot deserves.
LEMMA BootVerdict ==
  ASSUME LCInv, FirstInv, VerdictInv, SUTypeOK, NEW s \in Service,
         ProcessService(s) \/ RunPostScript(s) \/ ScriptEnds(s) \/ OfBoot(DependencyTimeout(s))
  PROVE  VerdictInv'
<1> USE LifecycleAssumption
    DEF LCInv, LCTypeOK, SUTypeOK, VerdictInv, MarkReady, MarkFailed
<1> DEFINE Step(v) == sp' = [sp EXCEPT ![s] = v]
           Verdicts == LaunchShape /\ ReadyShape /\ JobShape /\ FailedShape /\ BlockedShape
<1>1. ASSUME NEW v \in {"pre", "preBlocked", "deps", "settle"}, sp[s] \in Unlaunched,
             Step(v) \/ UNCHANGED sp, UNCHANGED <<lcVars, ready, failed>>
      PROVE  VerdictInv'
  <2>1. \A t \in Service : IF t = s THEN sp'[t] \in Unlaunched ELSE sp'[t] = sp[t]
    <3>1. CASE Step(v)
      BY <3>1 DEF Unlaunched
    <3>2. CASE UNCHANGED sp
      BY <1>1, <3>2
    <3> QED BY <1>1, <3>1, <3>2
  <2>2. UNCHANGED <<pc, first, cancelled, ready, failed>>
    BY <1>1 DEF lcVars
  <2>3. first[s] = None
    BY <1>1 DEF LaunchShape
  <2>4. LaunchShape' /\ BlockedShape' /\ VerdictGiven'
    BY <2>1, <2>2, <2>3 DEF Unlaunched, LaunchShape, BlockedShape, VerdictGiven
  <2>5. ReadyShape'
    BY <2>2 DEF ReadyShape
  <2>6. JobShape'
    BY <2>1, <2>2, <2>3 DEF JobShape
  <2>7. FailedShape'
    <3>1. s \notin failed
      BY <1>1, <2>3 DEF FailedShape, Unlaunched
    <3> QED BY <2>1, <2>2, <3>1 DEF FailedShape
  <2> QED BY <2>4, <2>5, <2>6, <2>7
<1>2. ASSUME sp[s] \in Unlaunched, Step("done"), MarkFailed(s), UNCHANGED <<lcVars, ready>>
      PROVE  VerdictInv'
  <2>1. first[s] = None
    BY <1>2 DEF LaunchShape
  <2> QED BY <1>2, <2>1
    DEF Unlaunched, lcVars, LaunchShape, ReadyShape, JobShape, FailedShape, BlockedShape, VerdictGiven
<1>3. CASE OfBoot(BeginService(s))
  <2>1. CASE cancelled
    BY <1>3, <2>1 DEF OfBoot, BeginService, Unlaunched, lcVars, LaunchShape, ReadyShape, JobShape,
                      FailedShape, BlockedShape, VerdictGiven
  <2>2. CASE ~cancelled
    BY <1>1, <1>3, <2>2 DEF OfBoot, BeginService, Unlaunched
  <2> QED BY <2>1, <2>2
<1>4. CASE ScriptEnds(s)
  <2>1. CASE OfBoot(PreScriptSucceeds(s))
    BY <1>1, <2>1 DEF OfBoot, PreScriptSucceeds, Unlaunched
  <2>2. CASE OfBoot(PreScriptFails(s)) /\ s \in Required
    BY <1>1, <2>2 DEF OfBoot, PreScriptFails, Unlaunched
  <2>3. CASE OfBoot(PreScriptFails(s)) /\ s \notin Required
    BY <1>2, <2>3 DEF OfBoot, PreScriptFails, Unlaunched
  <2>4. CASE OfBoot(PostScriptEnds(s))
    BY <2>4 DEF OfBoot, PostScriptEnds, lcVars, LaunchShape, ReadyShape, JobShape, FailedShape,
                BlockedShape, VerdictGiven
  <2> QED BY <1>4, <2>1, <2>2, <2>3, <2>4 DEF ScriptEnds
<1>5. CASE OfBoot(PreScriptReturns(s))
  BY <1>2, <1>5 DEF OfBoot, PreScriptReturns, Unlaunched
<1>6. CASE OfBoot(DependencyReady(s)) \/ OfBoot(Settled(s))
  BY <1>1, <1>6 DEF OfBoot, DependencyReady, AwaitsDependency, Settled, Unlaunched
<1>7. CASE \/ OfBoot(DependencyFailed(s)) \/ OfBoot(DependencyCancelled(s))
           \/ OfBoot(DependencyTimeout(s))
  BY <1>2, <1>7 DEF OfBoot, DependencyFailed, DependencyCancelled, DependencyTimeout,
                    AwaitsDependency, GiveUp, Unlaunched
<1>8. ASSUME NEW r \in Run, OfBoot(LaunchService(s, r)) PROVE VerdictInv'
  <2>1. /\ sp[s] = "deps" /\ first[s] = None /\ pc[r] = "unused" /\ SvcOf[r] = s
        /\ first' = [first EXCEPT ![s] = r]
        /\ pc' = [pc EXCEPT ![r] = "starting"]
        /\ Step("launched")
        /\ UNCHANGED <<cancelled, ready, failed>>
    BY <1>8 DEF OfBoot, LaunchService, LaunchInitial
  <2>2. \A t \in Service : first[t] # None => first[t] # r /\ t # s
    BY <2>1 DEF FirstInv
  <2>3. s \notin failed /\ s \notin ready
    BY <2>1 DEF FailedShape, ReadyShape, JobShape
  <2>4. LaunchShape' /\ BlockedShape' /\ VerdictGiven'
    BY <2>1, <2>2 DEF LaunchShape, BlockedShape, VerdictGiven, Unlaunched
  <2>5. ReadyShape'
    BY <2>1, <2>2, <2>3 DEF ReadyShape, Early, Launching
  <2>6. JobShape' /\ FailedShape'
    BY <2>1, <2>2, <2>3 DEF JobShape, FailedShape
  <2> QED BY <2>4, <2>5, <2>6
<1>9. CASE OfBoot(StartServiceReturned(s))
  <2>1. /\ sp[s] = "launched" /\ pc[first[s]] \in Returned /\ first[s] # None
        /\ UNCHANGED lcVars
    BY <1>9 DEF OfBoot, StartServiceReturned, LaunchShape
  <2>2. s \notin failed /\ (s \in Oneshot => s \notin ready)
    BY <2>1 DEF FailedShape, JobShape
  <2>3. CASE pc[first[s]] = "retStartup"
    <3>1. failed' = failed \cup {s} /\ ready' = ready /\ \E v \in {"blocked", "await"} : Step(v)
      BY <1>9, <2>3 DEF OfBoot, StartServiceReturned
    <3>2. \A t \in Service : IF t = s THEN sp'[t] \in {"blocked", "await"} ELSE sp'[t] = sp[t]
      BY <3>1
    <3>3. UNCHANGED <<pc, first, cancelled>>
      BY <2>1 DEF lcVars
    <3>4. LaunchShape' /\ BlockedShape' /\ VerdictGiven'
      BY <2>1, <3>1, <3>2, <3>3 DEF LaunchShape, BlockedShape, VerdictGiven, Unlaunched
    <3>5. ReadyShape' /\ JobShape'
      BY <2>1, <2>2, <3>1, <3>2, <3>3 DEF ReadyShape, JobShape
    <3>6. FailedShape'
      BY <2>1, <2>3, <3>1, <3>2, <3>3 DEF FailedShape
    <3> QED BY <3>4, <3>5, <3>6
  <2>4. CASE pc[first[s]] \in {"retNil", "retExit"} /\ s \in Oneshot
    <3>1. /\ Step("await")
          /\ failed' = IF pc[first[s]] = "retExit" THEN failed \cup {s} ELSE failed
          /\ ready' = IF pc[first[s]] = "retNil" THEN ready \cup {s} ELSE ready
      BY <1>9, <2>4 DEF OfBoot, StartServiceReturned
    <3>2. UNCHANGED <<pc, first, cancelled>>
      BY <2>1 DEF lcVars
    <3>3. LaunchShape' /\ BlockedShape' /\ VerdictGiven'
      BY <2>1, <2>4, <3>1, <3>2 DEF LaunchShape, BlockedShape, VerdictGiven, Unlaunched
    <3>4. ReadyShape'
      BY <2>1, <2>2, <2>4, <3>1, <3>2 DEF ReadyShape
    <3>5. JobShape'
      BY <2>1, <2>2, <2>4, <3>1, <3>2 DEF JobShape
    <3>6. FailedShape'
      BY <2>1, <2>4, <3>1, <3>2 DEF FailedShape
    <3> QED BY <3>3, <3>4, <3>5, <3>6
  <2>5. CASE pc[first[s]] \in {"retNil", "retExit"} /\ s \notin Oneshot
    <3>1. Step("await") /\ failed' = failed /\ ready' = ready
      BY <1>9, <2>5 DEF OfBoot, StartServiceReturned
    <3>2. s \in ready \/ cancelled
      BY <2>1, <2>5 DEF ReadyShape, Early, Launching
    <3>3. UNCHANGED <<pc, first, cancelled>>
      BY <2>1 DEF lcVars
    <3>4. LaunchShape' /\ BlockedShape' /\ VerdictGiven'
      BY <2>1, <2>5, <3>1, <3>2, <3>3 DEF LaunchShape, BlockedShape, VerdictGiven, Unlaunched
    <3>5. ReadyShape' /\ JobShape' /\ FailedShape'
      BY <2>1, <2>2, <2>5, <3>1, <3>2, <3>3 DEF ReadyShape, JobShape, FailedShape
    <3> QED BY <3>4, <3>5
  <2> QED BY <2>1, <2>3, <2>4, <2>5 DEF Returned
<1>10. CASE OfBoot(ServiceErrorHandled(s)) \/ OfBoot(EndService(s))
  <2>1. /\ UNCHANGED <<pc, first, cancelled, ready, failed>>
        /\ \/ sp[s] = "blocked" /\ Step("await")
           \/ sp[s] = "await" /\ Step("done")
    BY <1>10 DEF OfBoot, ServiceErrorHandled, EndService, lcVars
  <2>2. LaunchShape' /\ BlockedShape'
    <3>1. LaunchShape'
      BY <2>1 DEF LaunchShape, Unlaunched
    <3>2. BlockedShape'
      BY <2>1 DEF BlockedShape
    <3> QED BY <3>1, <3>2
  <2>3. ReadyShape'
    BY <2>1 DEF ReadyShape
  <2>4. \A t \in Service \ {s} : sp'[t] = sp[t]
    BY <2>1
  <2>5. sp[s] \in {"blocked", "await"} /\ sp'[s] \in {"await", "done"}
    BY <2>1 DEF SUTypeOK
  <2>6. JobShape' /\ FailedShape'
    <3>1. JobShape'
      BY <2>1, <2>4, <2>5, LifecycleAssumption DEF JobShape, LifecycleAssumption
    <3>2. FailedShape'
      BY <2>1, <2>4, <2>5 DEF FailedShape
    <3> QED BY <3>1, <3>2
  <2>7. VerdictGiven'
    BY <2>1 DEF BlockedShape, VerdictGiven
  <2> QED BY <2>2, <2>3, <2>6, <2>7
<1>11. CASE RunPostScript(s)
  <2>1. UNCHANGED <<pc, first, cancelled, ready, failed, sp>>
    BY <1>11 DEF RunPostScript, OfBoot, PostScriptTimer, PostScriptCancelled, lcVars
  <2>2. LaunchShape' /\ ReadyShape' /\ BlockedShape' /\ VerdictGiven'
    BY <2>1 DEF LaunchShape, ReadyShape, BlockedShape, VerdictGiven
  <2>3. JobShape' /\ FailedShape'
    BY <2>1 DEF JobShape, FailedShape
  <2> QED BY <2>2, <2>3
<1> QED BY <1>3, <1>4, <1>5, <1>6, <1>7, <1>8, <1>9, <1>10, <1>11 DEF ProcessService

-----------------------------------------------------------------------------
(* The theorems.                                                           *)

BootInv == SVInv /\ LCInv /\ FirstInv /\ VerdictInv

\* The invariant holds at the start and is kept by every step.
LEMMA BootInvariant == SVSpec => []BootInv
<1>1. SVInit => BootInv
  <2>1. SVInit => FirstInv
    BY LifecycleAssumption DEF SVInit, LCInit, FirstInv
  <2>2. SVInit => VerdictInv
    <3> SUFFICES ASSUME SVInit PROVE VerdictInv
      OBVIOUS
    <3>1. /\ first = [s \in Service |-> None]
          /\ sp = [s \in Service |-> "idle"] /\ ready = {} /\ failed = {}
      BY DEF SVInit, LCInit, SUInit
    <3>2. LaunchShape /\ BlockedShape /\ VerdictGiven
      BY <3>1 DEF LaunchShape, BlockedShape, VerdictGiven
    <3>3. ReadyShape /\ JobShape /\ FailedShape
      BY <3>1 DEF ReadyShape, JobShape, FailedShape
    <3> QED BY <3>2, <3>3 DEF VerdictInv
  <2> QED BY <2>1, <2>2, SVInvInit, LCInvInit DEF BootInv, SVInit
<1>2. BootInv /\ [SVNext]_svVars => BootInv'
  <2> SUFFICES ASSUME BootInv, [SVNext]_svVars PROVE BootInv'
    OBVIOUS
  <2>1. SVInv' /\ [LCNext]_lcVars
    BY SVInvStep DEF BootInv
  <2>2. LCInv' /\ FirstInv'
    BY <2>1, LCInvStep, FirstInvStep DEF BootInv
  <2>3. VerdictInv'
    <3> USE DEF BootInv
    <3>1. CASE \E r \in Run : RunAnnounces(r)
      BY <3>1, AnnouncementVerdict
    <3>2. CASE \E s \in Service : \/ ProcessService(s) \/ RunPostScript(s) \/ ScriptEnds(s)
                                  \/ OfBoot(DependencyTimeout(s))
      BY <3>2, BootVerdict DEF SVInv, SVTypeOK
    <3>3. CASE /\ ~ \E r \in Run : RunAnnounces(r)
               /\ ~ \E s \in Service : \/ ProcessService(s) \/ RunPostScript(s) \/ ScriptEnds(s)
                                       \/ OfBoot(DependencyTimeout(s))
      BY <2>1, <3>3, OthersGiveNoVerdict, VerdictsKept DEF LCInv
    <3> QED BY <3>1, <3>2, <3>3
  <2> QED BY <2>1, <2>2, <2>3 DEF BootInv
<1> QED BY <1>1, <1>2, PTL DEF SVSpec

\* Theorem: no service is ever both ready and failed, so waitForDependency
\* never has to choose between two verdicts.
THEOREM NeverTwoVerdicts == SVSpec => []OneVerdict
<1>1. BootInv => OneVerdict
  BY DEF BootInv, SVInv, SVTypeOK, SUTypeOK, VerdictInv, ReadyShape, JobShape, FailedShape, OneVerdict
<1> QED BY <1>1, BootInvariant, PTL

\* Theorem: until the shutdown, a service whose boot sequence is over is ready
\* or failed: no dependent has to wait for its timeout (processService).
THEOREM AlwaysAVerdict == SVSpec => []VerdictGiven
<1>1. BootInv => VerdictGiven
  BY DEF BootInv, VerdictInv
<1> QED BY <1>1, BootInvariant, PTL
=============================================================================
