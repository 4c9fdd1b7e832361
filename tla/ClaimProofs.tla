---------------------------- MODULE ClaimProofs ----------------------------
(***************************************************************************)
(* Proofs of what the documentation claims of boot and exit, each under    *)
(* the condition on the configuration that makes it true; the runs that    *)
(* end in a violation show what happens without it.  A job has completed   *)
(* before its dependents run if the operator restarts no job; a failure    *)
(* exit means a failure if no required service has a health check; main    *)
(* waits for the services that nothing restarts; nothing crashes a         *)
(* supervisor of one service.                                              *)
(***************************************************************************)
EXTENDS BootProofs

-----------------------------------------------------------------------------
(* How a run ends.                                                         *)

\* The places of a run whose process has been waited for.
Over == {"finishing", "removing", "deciding", "bumping", "triggering", "blocked", "retExit"}

\* What the place of a run says about its process.
ProcessShape ==
  \A r \in Run :
    /\ pc[r] \in {"unused", "starting", "building", "retStartup"} => proc[r] = "none"
    /\ pc[r] \in Serving \cup {"spawned"} => proc[r] # "none"
    /\ pc[r] \in Over => proc[r] = "dead"
    /\ pc[r] = "retNil" =>
         \/ proc[r] = "none" /\ cancelled
         \/ proc[r] = "dead" /\ (seen[r] = "none" => ~exitErr[r])

\* A run's context is cancelled only with an intent or after the wait, and the
\* intent "shutdown" means that there is one.
IntentShape ==
  \A r \in Run :
    /\ stopped[r] => intent[r] # "none" \/ pc[r] \in (Over \ {"finishing"}) \cup {"retNil"}
    /\ intent[r] = "shutdown" => cancelled
    /\ seen[r] # "none" => seen[r] = intent[r]

\* Only a required service that nobody wanted down brings the system down.
BlameShape ==
  \A r \in Run :
    pc[r] = "triggering" => SvcOf[r] \in Required /\ seen[r] \in {"none", "policy"}

EndShape == ProcessShape /\ IntentShape /\ BlameShape

\* Every step of a run or its environment keeps EndShape.
LEMMA EndShapeStep ==
  ASSUME LCInv, EndShape, [LCNext]_lcVars
  PROVE  EndShape'
<1> USE LifecycleAssumption DEF LCInv, LCTypeOK, EndShape, ProcessShape, IntentShape,
                                BlameShape, Over, Serving
<1>1. ASSUME NEW s \in Service, NEW r \in Run, LaunchInitial(s, r) PROVE EndShape'
  BY <1>1 DEF LaunchInitial
<1>2. ASSUME NEW r \in Run, RunStep(r) PROVE EndShape'
  <2>1. CASE CheckShutdown(r)
    BY <2>1 DEF CheckShutdown
  <2>2. CASE SpawnFails(r)
    BY <2>2 DEF SpawnFails
  <2>3. CASE Spawn(r)
    BY <2>3 DEF Spawn
  <2>4. CASE AddActiveService(r) \/ Announce(r)
    BY <2>4 DEF AddActiveService, Announce
  <2>5. CASE ObserveExit(r) \/ ObserveStopped(r)
    BY <2>5 DEF ObserveExit, ObserveStopped
  <2>6. CASE ObserveCancel(r)
    BY <2>6 DEF ObserveCancel
  <2>7. CASE StopTimeout(r)
    BY <2>7 DEF StopTimeout
  <2>8. CASE ReadIntent(r)
    BY <2>8 DEF ReadIntent
  <2>9. CASE RemoveActiveService(r)
    BY <2>9 DEF RemoveActiveService
  <2>10. CASE Decide(r)
    BY <2>10 DEF Decide, FinishStopped, FinishOperator, FinishByPolicy, ReturnPC
  <2>11. CASE IncrementRestartCount(r) \/ Trigger(r) \/ TriggerReturns(r)
    BY <2>11 DEF IncrementRestartCount, Trigger, TriggerReturns, ReturnPC
  <2> QED BY <1>2, <2>1, <2>2, <2>3, <2>4, <2>5, <2>6, <2>7, <2>8, <2>9, <2>10, <2>11 DEF RunStep
<1>3. ASSUME NEW r \in Run, TimerStep(r) PROVE EndShape'
  BY <1>3 DEF TimerStep, SkipRestart, RestartServiceInternal
<1>4. ASSUME NEW r \in Run, EnvStep(r) PROVE EndShape'
  BY <1>4 DEF EnvStep, ProcessExits, RequestStop
<1>5. CASE ForceKill(Registered) \/ CancelShutdown \/ UNCHANGED lcVars
  BY <1>5 DEF ForceKill, CancelShutdown, lcVars
<1> QED BY <1>1, <1>2, <1>3, <1>4, <1>5 DEF LCNext

-----------------------------------------------------------------------------
(* Who asks a run to stop.                                                 *)

\* A monitor restarts only services with a policy, and the operator only those
\* that were asked for, by a connection that found a run of that service.
AskedInv ==
  /\ \A r \in Run :
       /\ intent[r] = "policy" => HasPolicy(SvcOf[r])
       /\ intent[r] = "operator" => SvcOf[r] \in Restartable
  /\ \A c \in Client :
       /\ conn[c] \in {"open", "found"} => asked[c] \in Restartable
       /\ conn[c] = "found" => SvcOf[target[c]] = asked[c]

\* Every step of the supervisor keeps it (RequestStop and its callers).
LEMMA AskedStep ==
  ASSUME SVInv, LCInv, AskedInv, [SVNext]_svVars
  PROVE  AskedInv'
<1> USE LifecycleAssumption
    DEF LCInv, LCTypeOK, SVInv, SVTypeOK, CTLTypeOK, ConnectionsInv, AskedInv, HasPolicy
<1>0. ASSUME UNCHANGED ctVars,
             \A r \in Run : intent'[r] = intent[r] \/ intent'[r] = "shutdown"
      PROVE  AskedInv'
  BY <1>0 DEF ctVars
<1>1. ASSUME NEW r \in Run, Goroutine(r) \/ RestartTimer(r) \/ ProcessEnds(r) PROVE AskedInv'
  <2>1. UNCHANGED ctVars
    BY <1>1 DEF Goroutine, RestartTimer, ProcessEnds, OfRun, OfEnd, RunAnnounces
  <2>2. intent' = intent \/ intent' = [intent EXCEPT ![r] = IF @ = "none" THEN "shutdown" ELSE @]
    BY <1>1 DEF Goroutine, RestartTimer, ProcessEnds, OfRun, OfEnd, RunAnnounces,
                CheckShutdown, SpawnFails, Spawn, AddActiveService, Announce, ObserveExit,
                ObserveCancel, StopTimeout, ObserveStopped, ReadIntent, RunRemoves,
                RemoveActiveService, Decide, IncrementRestartCount, RunTriggers, Trigger,
                RunTriggerReturns, TriggerReturns, SkipRestart, RestartServiceInternal,
                ProcessExits
  <2> QED BY <1>0, <2>1, <2>2
<1>2. ASSUME NEW r \in Run, HealthMonitor(r) \/ OfMonitor(MonitorTicks(r)) PROVE AskedInv'
  <2>1. UNCHANGED ctVars
    BY <1>2 DEF HealthMonitor, OfMonitor
  <2>2. CASE OfMonitor(RestartUnhealthy(r))
    BY <2>1, <2>2 DEF OfMonitor, RestartUnhealthy, RequestStop, lcVars, ctVars
  <2>3. CASE UNCHANGED lcVars
    BY <1>0, <2>1, <2>3 DEF lcVars
  <2> QED BY <1>2, <2>2, <2>3
    DEF HealthMonitor, OfMonitor, MonitorStops, CheckPasses, CheckFails,
        UnhealthyWithoutPolicy, UnhealthyReturns, MonitorTicks
<1>3. ASSUME NEW s \in Service, ProcessService(s) \/ RunPostScript(s) \/ ScriptEnds(s)
                                \/ OfBoot(DependencyTimeout(s))
      PROVE  AskedInv'
  <2>1. UNCHANGED ctVars
    BY <1>3 DEF ProcessService, RunPostScript, ScriptEnds, OfBoot
  <2>2. intent' = intent
    BY <1>3 DEF ProcessService, RunPostScript, ScriptEnds, OfBoot, BeginService,
                PreScriptReturns, DependencyReady, Settled, DependencyFailed, GiveUp,
                DependencyCancelled, LaunchService, LaunchInitial, StartServiceReturned,
                ServiceErrorHandled, EndService, PostScriptTimer, PostScriptCancelled,
                PreScriptSucceeds, PreScriptFails, PostScriptEnds, DependencyTimeout, lcVars
  <2> QED BY <1>0, <2>1, <2>2
<1>4. ASSUME NEW c \in Client, Command(c) \/ HandleConnection(c) PROVE AskedInv'
  <2>1. CASE OfServer(AnswerAtOnce(c))
    BY <2>1 DEF OfServer, AnswerAtOnce, Accept, lcVars
  <2>2. CASE \E s \in Restartable : OfServer(AcceptRestart(c, s))
    BY <2>2 DEF OfServer, AcceptRestart, Accept, lcVars
  <2>3. CASE OfServer(FindService(c))
    BY <2>3 DEF OfServer, FindService, LCShape, RegistrySound, lcVars
  <2>4. CASE OfServer(ServiceNotFound(c)) \/ OfServer(RefuseRestart(c))
    BY <2>4 DEF OfServer, ServiceNotFound, RefuseRestart, CloseConnection, lcVars
  <2>5. CASE OfServer(AckRestart(c))
    BY <2>5 DEF OfServer, AckRestart, RequestStop
  <2> QED BY <1>4, <2>1, <2>2, <2>3, <2>4, <2>5 DEF Command, HandleConnection
<1>5. CASE MainOrEnd \/ UNCHANGED svVars
  <2>1. UNCHANGED <<intent, conn, asked, target>>
    <3>1. CASE Main \/ OfServer(ServerFails) \/ OfBoot(RejectConfig)
      BY <3>1 DEF Main, OfServer, OfBoot, Listen, PublishServer, LoadServices, MainExit,
                  ServerFails, RejectConfig, lcVars, ctVars
    <3>2. CASE RunShutdown
      BY <3>2 DEF RunShutdown, OfEnd, CancelServices, CancelShutdown, CloseIPC, CheckActive,
                  ServicesStopped, GlobalTimeout, ForceKillAllServices, ForceKill,
                  GraceTimeout, lcVars, ctVars
    <3>3. CASE Waiter \/ OfEnd(Signal) \/ OfEnd(SignalExit)
      BY <3>3 DEF Waiter, OfEnd, WaitBegins, WaiterWakes, Signal, SignalExit, lcVars, ctVars
    <3>4. CASE UNCHANGED svVars
      BY <3>4 DEF svVars, lcVars, ctVars
    <3> QED BY <1>5, <3>1, <3>2, <3>3, <3>4 DEF MainOrEnd
  <2> QED BY <2>1
<1> QED BY <1>1, <1>2, <1>3, <1>4, <1>5 DEF SVNext, MainOrEnd

-----------------------------------------------------------------------------
(* The walk over depends_on.                                               *)

\* Whatever the walk has passed is ready, and so is what it settles after; a
\* service is launched when the walk is over.
Passed(s, i) == i < depIx[s] \/ (i = depIx[s] /\ sp[s] = "settle") \/ first[s] # None

WalkInv ==
  \A s \in Service : \A i \in DOMAIN DependsOn[s] : Passed(s, i) => DependsOn[s][i] \in ready

\* The dependencies of a service are numbered from 1 to the length of the list.
LEMMA DependencyIndices ==
  \A t \in Service : \A i \in DOMAIN DependsOn[t] : i \in Nat /\ i <= Len(DependsOn[t])
<1>1. DependsOn \in [Service -> Seq(Service)]
  BY StartupAssumption
<1> QED BY <1>1

\* Only processService takes a step of the walk, and what is ready stays so.
LEMMA WalkStep ==
  ASSUME SVInv, LCInv, BootInv, WalkInv, [SVNext]_svVars
  PROVE  WalkInv'
<1>t. /\ sp \in [Service -> {"idle", "pre", "preBlocked", "deps", "settle",
                             "launched", "blocked", "await", "done"}]
      /\ depIx \in [Service -> Nat]
      /\ first \in [Service -> Run \cup {None}]
  BY DEF LCInv, LCTypeOK, SVInv, SVTypeOK, SUTypeOK
<1>0. ASSUME ready \subseteq ready',
             \A t \in Service : \A i \in DOMAIN DependsOn[t] :
               Passed(t, i)' => Passed(t, i) \/ DependsOn[t][i] \in ready
      PROVE  WalkInv'
  BY <1>0 DEF WalkInv
<1>a. ASSUME UNCHANGED <<sp, depIx, first>>, ready \subseteq ready' PROVE WalkInv'
  BY <1>0, <1>a DEF Passed
<1>b. \A t \in Service :
        /\ depIx[t] \in Nat
        /\ \A i \in DOMAIN DependsOn[t] : i \in Nat /\ i <= Len(DependsOn[t])
  BY <1>t, DependencyIndices
<1>1. CASE ~ \E s \in Service : \/ ProcessService(s) \/ RunPostScript(s) \/ ScriptEnds(s)
                                \/ OfBoot(DependencyTimeout(s))
  <2>1. ASSUME NEW r \in Run, RunAnnounces(r) PROVE WalkInv'
    BY <1>a, <2>1 DEF RunAnnounces, Announce, MarkReadyOnAnnounce, MarkReady
  <2>2. CASE ~ \E r \in Run : RunAnnounces(r)
    <3>1. UNCHANGED <<first, sp, ready>>
      BY <1>1, <2>2, OthersGiveNoVerdict DEF LCInv
    <3>2. UNCHANGED depIx
      BY <1>1, <2>2 DEF SVNext, Goroutine, RestartTimer, ProcessEnds, HealthMonitor,
         Command, HandleConnection, Main, RunShutdown, Waiter, OfRun, OfEnd, OfMonitor, OfServer,
         OfBoot, LoadServices, RejectConfig, MainExit, suVars, svVars
    <3> QED BY <1>a, <3>1, <3>2
  <2> QED BY <2>1, <2>2
<1>2. ASSUME NEW s \in Service, ProcessService(s) \/ RunPostScript(s) \/ ScriptEnds(s)
                                \/ OfBoot(DependencyTimeout(s))
      PROVE  WalkInv'
  <2>1. CASE OfBoot(DependencyReady(s))
    <3>1. DependsOn[s][depIx[s]] \in ready /\ UNCHANGED <<first, ready>>
      BY <2>1 DEF OfBoot, DependencyReady, Dependency, lcVars
    <3>2. \/ sp' = [sp EXCEPT ![s] = "settle"] /\ UNCHANGED depIx
          \/ depIx' = [depIx EXCEPT ![s] = @ + 1] /\ UNCHANGED sp
      BY <2>1 DEF OfBoot, DependencyReady
    <3>3. ASSUME NEW t \in Service, NEW i \in DOMAIN DependsOn[t], Passed(t, i)'
          PROVE  Passed(t, i) \/ DependsOn[t][i] \in ready
      <4>1. CASE t # s
        <5>1. depIx'[t] = depIx[t] /\ sp'[t] = sp[t]
          BY <1>t, <3>2, <4>1
        <5> QED BY <3>1, <3>3, <5>1 DEF Passed
      <4>2. CASE t = s
        <5>1. i < depIx[s] \/ i = depIx[s] \/ first[s] # None
          <6>1. depIx'[s] = depIx[s] \/ (depIx'[s] = depIx[s] + 1 /\ sp'[s] = sp[s])
            BY <1>t, <3>2
          <6>2. CASE depIx'[s] = depIx[s]
            BY <3>1, <3>3, <4>2, <6>2 DEF Passed
          <6>3. CASE depIx'[s] = depIx[s] + 1 /\ sp'[s] = sp[s]
            <7>1. i < depIx[s] + 1 \/ (i = depIx[s] + 1 /\ sp[s] = "settle") \/ first[s] # None
              BY <3>1, <3>3, <4>2, <6>3 DEF Passed
            <7>2. sp[s] # "settle"
              BY <2>1 DEF OfBoot, DependencyReady, AwaitsDependency
            <7> QED BY <1>b, <4>2, <7>1, <7>2
          <6> QED BY <6>1, <6>2, <6>3
        <5> QED BY <3>1, <4>2, <5>1 DEF Passed
      <4> QED BY <4>1, <4>2
    <3> QED BY <1>0, <3>1, <3>3
  <2>2. CASE OfBoot(Settled(s))
    <3>1. /\ sp[s] = "settle" /\ UNCHANGED <<first, ready>>
          /\ sp' = [sp EXCEPT ![s] = "deps"] /\ depIx' = [depIx EXCEPT ![s] = @ + 1]
      BY <2>2 DEF OfBoot, Settled, lcVars
    <3>2. ASSUME NEW t \in Service, NEW i \in DOMAIN DependsOn[t], Passed(t, i)'
          PROVE  Passed(t, i)
      BY <1>b, <1>t, <3>1, <3>2 DEF Passed
    <3> QED BY <1>0, <3>1, <3>2
  <2>3. ASSUME NEW r \in Run, OfBoot(LaunchService(s, r)) PROVE WalkInv'
    <3>1. /\ depIx[s] > Len(DependsOn[s]) /\ UNCHANGED <<depIx, ready>>
          /\ sp' = [sp EXCEPT ![s] = "launched"] /\ first' = [first EXCEPT ![s] = r]
      BY <2>3 DEF OfBoot, LaunchService, LaunchInitial
    <3>2. ASSUME NEW t \in Service, NEW i \in DOMAIN DependsOn[t], Passed(t, i)'
          PROVE  Passed(t, i)
      <4>1. CASE t = s
        BY <1>b, <1>t, <3>1, <4>1 DEF Passed
      <4>2. CASE t # s
        BY <1>t, <3>1, <3>2, <4>2 DEF Passed
      <4> QED BY <4>1, <4>2
    <3> QED BY <1>0, <3>1, <3>2
  <2>4. ASSUME UNCHANGED <<depIx, first>>, ready \subseteq ready',
               NEW v \in {"pre", "preBlocked", "deps", "launched", "blocked", "await", "done"},
               sp' = sp \/ sp' = [sp EXCEPT ![s] = v]
        PROVE  WalkInv'
    <3>1. \A t \in Service : sp'[t] = "settle" => sp[t] = "settle"
      BY <1>t, <2>4
    <3> QED BY <1>0, <2>4, <3>1 DEF Passed
  <2>5. CASE OfBoot(StartServiceReturned(s))
    <3>1. ready \subseteq ready' /\ \E v \in {"blocked", "await"} : sp' = [sp EXCEPT ![s] = v]
      BY <2>5 DEF OfBoot, StartServiceReturned, MarkReady
    <3> QED BY <2>4, <2>5, <3>1 DEF OfBoot, StartServiceReturned, lcVars
  <2>6. CASE OfBoot(BeginService(s)) \/ ScriptEnds(s) \/ OfBoot(PreScriptReturns(s))
    BY <2>4, <2>6 DEF OfBoot, BeginService, ScriptEnds, PreScriptSucceeds, PreScriptFails,
                      PreScriptReturns, PostScriptEnds, lcVars
  <2>7. CASE \/ OfBoot(DependencyFailed(s)) \/ OfBoot(DependencyCancelled(s))
             \/ OfBoot(DependencyTimeout(s)) \/ RunPostScript(s)
             \/ OfBoot(ServiceErrorHandled(s)) \/ OfBoot(EndService(s))
    BY <2>4, <2>7 DEF OfBoot, DependencyFailed, DependencyCancelled, DependencyTimeout, GiveUp,
                      RunPostScript, PostScriptTimer, PostScriptCancelled, ServiceErrorHandled,
                      EndService, lcVars
  <2> QED BY <1>2, <2>1, <2>2, <2>3, <2>5, <2>6, <2>7 DEF ProcessService
<1> QED BY <1>1, <1>2

-----------------------------------------------------------------------------
(* What being ready means.                                                 *)

\* The operator asked for the restart of a run of d.
Interrupted(d) == \E q \in Run : SvcOf[q] = d /\ intent[q] = "operator"

\* A dependency has done what its dependents wait for.
Fulfilled(d) == IF d \in Oneshot THEN Completed(d) \/ Interrupted(d) ELSE Appeared(d)

Met(s) == \A i \in DOMAIN DependsOn[s] : Fulfilled(DependsOn[s][i])

\* A job that nobody stopped is ready because it completed.
LEMMA ReadyIsFulfilled ==
  ASSUME LCInv, FirstInv, VerdictInv, EndShape, AskedInv, ~cancelled, NEW d \in Service, d \in ready
  PROVE  Fulfilled(d)
<1> USE LifecycleAssumption DEF LCInv, LCTypeOK, FirstInv, VerdictInv, EndShape, ProcessShape,
                                IntentShape
<1>1. first[d] \in Run /\ SvcOf[first[d]] = d
  BY DEF JobShape, ReadyShape
<1>2. CASE d \in Oneshot
  <2>1. pc[first[d]] = "retNil" /\ proc[first[d]] = "dead"
    BY <1>1, <1>2 DEF JobShape
  <2>2. CASE seen[first[d]] = "none"
    BY <1>1, <1>2, <2>1, <2>2 DEF Fulfilled, Completed
  <2>3. CASE seen[first[d]] # "none"
    <3>1. intent[first[d]] = seen[first[d]] /\ ~HasPolicy(d)
      BY <1>1, <1>2, <2>3 DEF HasPolicy
    <3>2. intent[first[d]] = "operator"
      BY <1>1, <2>3, <3>1 DEF AskedInv, StopIntent
    <3> QED BY <1>1, <1>2, <3>2 DEF Fulfilled, Interrupted
  <2> QED BY <2>2, <2>3
<1>3. CASE d \notin Oneshot
  <2>1. pc[first[d]] \notin Early \cup {"retStartup"}
    BY <1>3 DEF ReadyShape
  <2>2. proc[first[d]] # "none" /\ pc[first[d]] # "spawned"
    BY <1>1, <2>1 DEF Early, Launching, PC, Serving, Ending, Returned, Over
  <2> QED BY <1>1, <1>3, <2>2 DEF Fulfilled, Appeared, Published
<1> QED BY <1>2, <1>3

\* What was done stays done.
LEMMA FulfilledForGood ==
  ASSUME LCInv, EndShape, [LCNext]_lcVars, NEW d, Fulfilled(d)
  PROVE  Fulfilled(d)'
<1> USE DEF LCInv, LCTypeOK
<1>1. ASSUME NEW q \in Run
      PROVE  /\ proc[q] = "dead" => proc'[q] = "dead" /\ exitErr'[q] = exitErr[q]
             /\ intent[q] = "operator" => intent'[q] = "operator"
             /\ Published(q) => Published(q)'
  <2> USE DEF EndShape, ProcessShape, Published
  <2>1. ASSUME NEW r \in Run, RunStep(r)
        PROVE  /\ exitErr' = exitErr
               /\ proc[q] = "dead" => proc'[q] = "dead"
               /\ intent[q] = "operator" => intent'[q] = "operator"
    BY <2>1 DEF RunStep, CheckShutdown, SpawnFails, Spawn, AddActiveService, Announce,
                ObserveExit, ObserveCancel, StopTimeout, ObserveStopped, ReadIntent,
                RemoveActiveService, Decide, IncrementRestartCount, Trigger, TriggerReturns
  <2>2. ASSUME NEW r \in Run, RunStep(r), Published(q) PROVE Published(q)'
    BY <2>2 DEF RunStep, CheckShutdown, SpawnFails, Spawn, AddActiveService, Announce,
                ObserveExit, ObserveCancel, StopTimeout, ObserveStopped, ReadIntent,
                RemoveActiveService, Decide, FinishStopped, FinishOperator, FinishByPolicy,
                ReturnPC, IncrementRestartCount, Trigger, TriggerReturns
  <2>3. CASE \E r \in Run : TimerStep(r) \/ EnvStep(r)
    BY <2>3 DEF TimerStep, SkipRestart, RestartServiceInternal, EnvStep, ProcessExits, RequestStop
  <2>4. CASE \E s \in Service, r \in Run : LaunchInitial(s, r)
    BY <2>4 DEF LaunchInitial
  <2>5. CASE ForceKill(Registered) \/ CancelShutdown \/ UNCHANGED lcVars
    BY <2>5 DEF ForceKill, CancelShutdown, lcVars
  <2> QED BY <2>1, <2>2, <2>3, <2>4, <2>5 DEF LCNext
<1> QED BY <1>1 DEF Fulfilled, Completed, Interrupted, Appeared

-----------------------------------------------------------------------------
(* The theorems.                                                           *)

\* A run that passed startService's look at the context, or has a process, is
\* a run of a service whose dependencies are met.
BornInv == \A r \in Run : proc[r] # "none" \/ pc[r] = "building" => Met(SvcOf[r])

\* Nobody gets there but by that look, with the context not done.
LEMMA Born ==
  ASSUME LCInv, EndShape, [LCNext]_lcVars, NEW r \in Run, proc'[r] # "none" \/ pc'[r] = "building"
  PROVE  proc[r] # "none" \/ pc[r] = "building" \/ (pc[r] = "starting" /\ ~cancelled)
<1> USE DEF LCInv, LCTypeOK, EndShape, ProcessShape
<1>1. ASSUME NEW q \in Run, RunStep(q)
      PROVE  proc[r] # "none" \/ pc[r] = "building" \/ (pc[r] = "starting" /\ ~cancelled)
  BY <1>1 DEF RunStep, CheckShutdown, SpawnFails, Spawn, AddActiveService, Announce,
              ObserveExit, ObserveCancel, StopTimeout, ObserveStopped, ReadIntent,
              RemoveActiveService, Decide, FinishStopped, FinishOperator, FinishByPolicy,
              ReturnPC, IncrementRestartCount, Trigger, TriggerReturns
<1>2. CASE \E q \in Run : TimerStep(q) \/ EnvStep(q)
  BY <1>2 DEF TimerStep, SkipRestart, RestartServiceInternal, EnvStep, ProcessExits, RequestStop
<1>3. CASE \/ \E s \in Service, q \in Run : LaunchInitial(s, q)
           \/ ForceKill(Registered) \/ CancelShutdown \/ UNCHANGED lcVars
  BY <1>3 DEF LaunchInitial, ForceKill, CancelShutdown, lcVars
<1> QED BY <1>1, <1>2, <1>3 DEF LCNext

DependencyInv == EndShape /\ AskedInv /\ WalkInv /\ BornInv

\* The dependencies of a service with a run are met, unless the shutdown came.
LEMMA RunsAreMet ==
  ASSUME BootInv, EndShape, AskedInv, WalkInv, ~cancelled, NEW r \in Run, pc[r] # "unused"
  PROVE  Met(SvcOf[r])
<1> USE LifecycleAssumption, StartupAssumption DEF BootInv
<1>1. first[SvcOf[r]] # None
  BY DEF LCInv, LCShape, RunShape
<1>2. \A i \in DOMAIN DependsOn[SvcOf[r]] :
        /\ DependsOn[SvcOf[r]][i] \in ready
        /\ DependsOn[SvcOf[r]][i] \in Service
  BY <1>1 DEF WalkInv, Passed
<1> QED BY <1>2, ReadyIsFulfilled DEF Met

\* The invariant holds at the start and is kept by every step.
LEMMA DependencyInvariant == SVSpec => []DependencyInv
<1>1. SVInit => DependencyInv
  <2> SUFFICES ASSUME SVInit PROVE DependencyInv
    OBVIOUS
  <2> USE LifecycleAssumption DEF SVInit
  <2>1. EndShape
    BY DEF LCInit, EndShape, ProcessShape, IntentShape, BlameShape, Over, Serving
  <2>2. AskedInv
    BY DEF LCInit, CTLInit, AskedInv
  <2>3. WalkInv
    BY StartupAssumption DEF LCInit, SUInit, WalkInv, Passed
  <2>4. BornInv
    BY DEF LCInit, BornInv
  <2> QED BY <2>1, <2>2, <2>3, <2>4 DEF DependencyInv
<1>2. BootInv /\ DependencyInv /\ [SVNext]_svVars => DependencyInv'
  <2> SUFFICES ASSUME BootInv, DependencyInv, [SVNext]_svVars PROVE DependencyInv'
    OBVIOUS
  <2> USE DEF BootInv, DependencyInv
  <2>1. [LCNext]_lcVars
    BY SVInvStep
  <2>2. EndShape' /\ AskedInv' /\ WalkInv'
    BY <2>1, EndShapeStep, AskedStep, WalkStep
  <2>3. ASSUME NEW r \in Run, proc'[r] # "none" \/ pc'[r] = "building" PROVE Met(SvcOf[r])'
    <3>1. proc[r] # "none" \/ pc[r] = "building" \/ (pc[r] = "starting" /\ ~cancelled)
      BY <2>1, <2>3, Born
    <3>2. Met(SvcOf[r])
      BY <3>1, RunsAreMet DEF BornInv
    <3> QED BY <2>1, <3>2, FulfilledForGood DEF Met
  <2> QED BY <2>2, <2>3 DEF BornInv
<1> QED BY <1>1, <1>2, BootInvariant, PTL DEF SVSpec

\* Theorem: in any configuration a process exists only after each dependency
\* of its service appeared or, if it is a job, completed or was stopped by the
\* operator (waitForServiceDependencies, processService).
THEOREM DependenciesHonoured ==
  SVSpec => [](\A r \in Run : proc[r] # "none" => Met(SvcOf[r]))
<1>1. DependencyInv => \A r \in Run : proc[r] # "none" => Met(SvcOf[r])
  BY DEF DependencyInv, BornInv
<1> QED BY <1>1, DependencyInvariant, PTL

\* Theorem: where the operator restarts no job, each job has completed before
\* its dependents have a process (README.md:326).
THEOREM JobsComplete ==
  ASSUME Restartable \cap Oneshot = {}
  PROVE  SVSpec => []DependenciesFirst
<1>1. DependencyInv => DependenciesFirst
  BY LifecycleAssumption DEF DependencyInv, AskedInv, BornInv, Met, Fulfilled, Interrupted,
                             DependenciesFirst
<1> QED BY <1>1, DependencyInvariant, PTL
-----------------------------------------------------------------------------
(* Failures.                                                               *)

\* A required service failed by itself, and nothing can change that any more:
\* FailedByItself once finishService has loaded the intent of the run.
FailedForGood(s) ==
  \/ \E r \in Run :
       /\ SvcOf[r] = s
       /\ pc[r] = "retStartup" \/ (Judged(r) /\ proc[r] = "dead" /\ seen[r] = "none")
  \/ sp[s] = "preBlocked" \/ s \in failed

\* A run that was judged keeps its verdict, and a dead process stays dead.
LEMMA JudgedForGood ==
  ASSUME LCTypeOK, EndShape, [LCNext]_lcVars, NEW q \in Run
  PROVE  /\ proc[q] = "dead" => proc'[q] = "dead"
         /\ Judged(q) => Judged(q)' /\ seen'[q] = seen[q]
<1> USE DEF LCTypeOK, EndShape, ProcessShape, Judged, Ending, Returned
<1>1. ASSUME NEW r \in Run, RunStep(r)
      PROVE  /\ proc[q] = "dead" => proc'[q] = "dead"
             /\ Judged(q) => seen'[q] = seen[q]
  BY <1>1 DEF RunStep, CheckShutdown, SpawnFails, Spawn, AddActiveService, Announce,
              ObserveExit, ObserveCancel, StopTimeout, ObserveStopped, ReadIntent,
              RemoveActiveService, Decide, IncrementRestartCount, Trigger, TriggerReturns
<1>2. ASSUME NEW r \in Run, RunStep(r), Judged(q) PROVE Judged(q)'
  BY <1>2 DEF RunStep, CheckShutdown, SpawnFails, Spawn, AddActiveService, Announce,
              ObserveExit, ObserveCancel, StopTimeout, ObserveStopped, ReadIntent,
              RemoveActiveService, Decide, FinishStopped, FinishOperator, FinishByPolicy,
              ReturnPC, IncrementRestartCount, Trigger, TriggerReturns
<1>3. CASE \E r \in Run : TimerStep(r) \/ EnvStep(r)
  BY <1>3 DEF TimerStep, SkipRestart, RestartServiceInternal, EnvStep, ProcessExits, RequestStop
<1>4. CASE \E s \in Service, r \in Run : LaunchInitial(s, r)
  BY <1>4 DEF LaunchInitial
<1>5. CASE ForceKill(Registered) \/ CancelShutdown \/ UNCHANGED lcVars
  BY <1>5 DEF ForceKill, CancelShutdown, lcVars
<1> QED BY <1>1, <1>2, <1>3, <1>4, <1>5 DEF LCNext

\* A service given up before its launch is marked failed before it goes on.
LEMMA PreScriptForGood ==
  ASSUME LCTypeOK, SUTypeOK, [SVNext]_svVars, NEW t \in Service
  PROVE  /\ failed \subseteq failed'
         /\ sp[t] = "preBlocked" => sp'[t] = "preBlocked" \/ t \in failed'
<1> USE DEF LCTypeOK, SUTypeOK, MarkFailed
<1>1. CASE \E r \in Run : RunAnnounces(r)
  BY <1>1 DEF RunAnnounces, MarkReadyOnAnnounce
<1>2. ASSUME NEW s \in Service, ProcessService(s) \/ RunPostScript(s) \/ ScriptEnds(s)
                                \/ OfBoot(DependencyTimeout(s))
      PROVE  /\ failed \subseteq failed'
             /\ sp[t] = "preBlocked" => sp'[t] = "preBlocked" \/ t \in failed'
  BY <1>2 DEF ProcessService, RunPostScript, ScriptEnds, OfBoot, BeginService,
              PreScriptReturns, DependencyReady, AwaitsDependency, Settled, DependencyFailed,
              GiveUp, DependencyCancelled, LaunchService, StartServiceReturned,
              ServiceErrorHandled, EndService, PostScriptTimer, PostScriptCancelled,
              PreScriptSucceeds, PreScriptFails, PostScriptEnds, DependencyTimeout
<1>3. CASE /\ ~ \E r \in Run : RunAnnounces(r)
           /\ ~ \E s \in Service : \/ ProcessService(s) \/ RunPostScript(s) \/ ScriptEnds(s)
                                   \/ OfBoot(DependencyTimeout(s))
  BY <1>3, OthersGiveNoVerdict
<1> QED BY <1>1, <1>2, <1>3

\* What failed for good stays failed.
LEMMA FailureStays ==
  ASSUME BootInv, EndShape, [SVNext]_svVars, NEW s \in Service, FailedForGood(s)
  PROVE  FailedForGood(s)'
<1> USE DEF BootInv, LCInv, SVInv, SVTypeOK
<1>1. [LCNext]_lcVars
  BY SVInvStep
<1>2. ASSUME NEW r \in Run, SvcOf[r] = s,
             pc[r] = "retStartup" \/ (Judged(r) /\ proc[r] = "dead" /\ seen[r] = "none")
      PROVE  FailedForGood(s)'
  BY <1>1, <1>2, Fate, JudgedForGood DEF FailedForGood, Returned
<1>3. CASE sp[s] = "preBlocked" \/ s \in failed
  BY <1>3, PreScriptForGood DEF FailedForGood
<1> QED BY <1>2, <1>3 DEF FailedForGood

-----------------------------------------------------------------------------
(* Who brings the system down.                                             *)

\* Only the run of a service with a health check has a monitor, and only a
\* monitor asks for a restart by policy (startHealthMonitor, restartUnhealthy).
MonitoredInv ==
  \A r \in Run : hm[r] # "off" \/ intent[r] = "policy" => SvcOf[r] \in Monitored

\* Every step of the supervisor keeps it.
LEMMA MonitoredStep ==
  ASSUME LCTypeOK, HMTypeOK, MonitoredInv, [SVNext]_svVars
  PROVE  MonitoredInv'
<1> USE DEF LCTypeOK, HMTypeOK, MonitoredInv
<1>0. ASSUME UNCHANGED hm,
             \A r \in Run : intent'[r] = "policy" => intent[r] = "policy"
      PROVE  MonitoredInv'
  BY <1>0
<1>1. ASSUME NEW r \in Run, Goroutine(r) \/ RestartTimer(r) \/ ProcessEnds(r)
      PROVE  MonitoredInv'
  <2>1. intent' = intent \/ intent' = [intent EXCEPT ![r] = IF @ = "none" THEN "shutdown" ELSE @]
    BY <1>1 DEF Goroutine, RestartTimer, ProcessEnds, OfRun, OfEnd, RunAnnounces,
                CheckShutdown, SpawnFails, Spawn, AddActiveService, Announce, ObserveExit,
                ObserveCancel, StopTimeout, ObserveStopped, ReadIntent, RunRemoves,
                RemoveActiveService, Decide, IncrementRestartCount, RunTriggers, Trigger,
                RunTriggerReturns, TriggerReturns, SkipRestart, RestartServiceInternal,
                ProcessExits
  <2>2. CASE RunAnnounces(r)
    BY <2>2 DEF RunAnnounces, Announce, StartHealthMonitor
  <2>3. CASE UNCHANGED hm
    BY <1>0, <2>1, <2>3
  <2> QED BY <1>1, <2>2, <2>3 DEF Goroutine, RestartTimer, ProcessEnds, OfRun, OfEnd, hmVars
<1>2. ASSUME NEW r \in Run, HealthMonitor(r) \/ OfMonitor(MonitorTicks(r)) PROVE MonitoredInv'
  <2>1. hm[r] # "off" /\ \E v : hm' = [hm EXCEPT ![r] = v]
    BY <1>2 DEF HealthMonitor, OfMonitor, MonitorStops, CheckPasses, CheckFails,
                RestartUnhealthy, UnhealthyWithoutPolicy, UnhealthyReturns, MonitorTicks
  <2>2. intent' = intent \/ \E v : intent' = [intent EXCEPT ![r] = v]
    BY <1>2 DEF HealthMonitor, OfMonitor, MonitorStops, CheckPasses, CheckFails, RequestStop,
                RestartUnhealthy, UnhealthyWithoutPolicy, UnhealthyReturns, MonitorTicks, lcVars
  <2> QED BY <2>1, <2>2
<1>3. ASSUME NEW s \in Service, ProcessService(s) \/ RunPostScript(s) \/ ScriptEnds(s)
                                \/ OfBoot(DependencyTimeout(s))
      PROVE  MonitoredInv'
  <2>1. UNCHANGED <<hm, intent>>
    BY <1>3 DEF ProcessService, RunPostScript, ScriptEnds, OfBoot, BeginService,
                PreScriptReturns, DependencyReady, Settled, DependencyFailed, GiveUp,
                DependencyCancelled, LaunchService, LaunchInitial, StartServiceReturned,
                ServiceErrorHandled, EndService, PostScriptTimer, PostScriptCancelled,
                PreScriptSucceeds, PreScriptFails, PostScriptEnds, DependencyTimeout,
                lcVars, hmVars
  <2> QED BY <1>0, <2>1
<1>4. ASSUME NEW c \in Client, Command(c) \/ HandleConnection(c) PROVE MonitoredInv'
  <2>1. UNCHANGED hm
    BY <1>4 DEF Command, HandleConnection, OfServer, hmVars
  <2>2. intent' = intent \/ intent' = [intent EXCEPT ![target[c]] = "operator"]
    BY <1>4 DEF Command, HandleConnection, OfServer, AnswerAtOnce, AcceptRestart, Accept,
                FindService, ServiceNotFound, AckRestart, RequestStop, RefuseRestart,
                CloseConnection, lcVars
  <2> QED BY <1>0, <2>1, <2>2
<1>5. CASE MainOrEnd \/ UNCHANGED svVars
  <2>1. UNCHANGED hm
    BY <1>5 DEF MainOrEnd, Main, RunShutdown, Waiter, OfEnd, OfBoot, OfServer, svVars, hmVars
  <2>2. UNCHANGED intent
    BY <1>5 DEF MainOrEnd, Main, RunShutdown, Waiter, OfEnd, OfBoot, OfServer, Listen,
                PublishServer, LoadServices, MainExit, ServerFails, RejectConfig,
                CancelServices, CancelShutdown, CloseIPC, CheckActive, ServicesStopped,
                GlobalTimeout, ForceKillAllServices, ForceKill, GraceTimeout, WaitBegins,
                WaiterWakes, Signal, SignalExit, svVars, lcVars
  <2> QED BY <1>0, <2>1, <2>2
<1> QED BY <1>1, <1>2, <1>3, <1>4, <1>5 DEF SVNext, MainOrEnd

\* The exit status changes only where triggerServiceFailureShutdown is called:
\* by a run, by a monitor, for a pre-script, for a service that cannot start.
LEMMA WhoFails ==
  ASSUME [SVNext]_svVars
  PROVE  \/ UNCHANGED exitCode
         \/ \E r \in Run : OfEnd(RunTriggers(r))
         \/ \E r \in Run : OfMonitor(UnhealthyWithoutPolicy(r)) /\ SvcOf[r] \in Required
         \/ \E s \in Required \cap Service : OfBoot(PreScriptFails(s))
         \/ \E s \in Required \cap Service :
              OfBoot(StartServiceReturned(s)) /\ pc[first[s]] = "retStartup"
<1> USE DEF sdVars
<1>1. ASSUME NEW r \in Run, Goroutine(r) \/ RestartTimer(r) \/ ProcessEnds(r)
      PROVE  UNCHANGED exitCode \/ OfEnd(RunTriggers(r))
  BY <1>1 DEF Goroutine, RestartTimer, ProcessEnds, OfRun, OfEnd, RunAnnounces, RunRemoves,
              DoneReleases, RunTriggerReturns
<1>2. ASSUME NEW r \in Run, HealthMonitor(r) \/ OfMonitor(MonitorTicks(r))
      PROVE  \/ UNCHANGED exitCode
             \/ OfMonitor(UnhealthyWithoutPolicy(r)) /\ SvcOf[r] \in Required
  BY <1>2 DEF HealthMonitor, OfMonitor, MonitorStops, CheckPasses, CheckFails,
              RestartUnhealthy, UnhealthyWithoutPolicy, UnhealthyReturns, MonitorTicks
<1>3. ASSUME NEW s \in Service, ProcessService(s) \/ RunPostScript(s) \/ ScriptEnds(s)
                                \/ OfBoot(DependencyTimeout(s))
      PROVE  \/ UNCHANGED exitCode
             \/ s \in Required /\ OfBoot(PreScriptFails(s))
             \/ s \in Required /\ OfBoot(StartServiceReturned(s)) /\ pc[first[s]] = "retStartup"
  BY <1>3 DEF ProcessService, RunPostScript, ScriptEnds, OfBoot, BeginService,
              PreScriptReturns, DependencyReady, Settled, DependencyFailed, GiveUp,
              DependencyCancelled, LaunchService, StartServiceReturned,
              ServiceErrorHandled, EndService, PostScriptTimer, PostScriptCancelled,
              PreScriptSucceeds, PreScriptFails, PostScriptEnds, DependencyTimeout
<1>4. ASSUME NEW c \in Client, Command(c) \/ HandleConnection(c) PROVE UNCHANGED exitCode
  BY <1>4 DEF Command, HandleConnection, OfServer, AnswerAtOnce, AcceptRestart, Accept,
              FindService, ServiceNotFound, AckRestart, RefuseRestart, CloseConnection
<1>5. CASE MainOrEnd \/ UNCHANGED svVars
  BY <1>5 DEF MainOrEnd, Main, RunShutdown, Waiter, OfEnd, OfBoot, OfServer, Listen,
              PublishServer, LoadServices, MainExit, ServerFails, RejectConfig, StepOfOnce,
              CancelServices, CloseIPC, CheckActive, ServicesStopped, GlobalTimeout,
              ForceKillAllServices, GraceTimeout, WaitBegins, WaiterWakes, Signal,
              SignalExit, svVars
<1> QED BY <1>1, <1>2, <1>3, <1>4, <1>5 DEF SVNext, MainOrEnd

\* Without health checks on required services, each of them has failed before
\* it brings the system down.
LEMMA BlameStep ==
  ASSUME Monitored \cap Required = {}, BootInv, EndShape, MonitoredInv,
         [SVNext]_svVars, exitCode' # exitCode
  PROVE  \E s \in Required : FailedForGood(s)'
<1> USE LifecycleAssumption DEF BootInv, LCInv, LCTypeOK
<1>1. ASSUME NEW r \in Run, OfEnd(RunTriggers(r)) PROVE FailedForGood(SvcOf[r])' /\ SvcOf[r] \in Required
  <2>1. /\ pc[r] = "triggering" /\ pc' = [pc EXCEPT ![r] = "blocked"]
        /\ UNCHANGED <<proc, seen>>
    BY <1>1 DEF OfEnd, RunTriggers, Trigger
  <2>2. proc[r] = "dead" /\ SvcOf[r] \in Required /\ seen[r] = "none"
    BY <2>1 DEF EndShape, ProcessShape, IntentShape, BlameShape, Over, MonitoredInv
  <2> QED BY <2>1, <2>2 DEF FailedForGood, Judged, Ending
<1>2. ASSUME NEW r \in Run, OfMonitor(UnhealthyWithoutPolicy(r)), SvcOf[r] \in Required PROVE FALSE
  BY <1>2 DEF OfMonitor, UnhealthyWithoutPolicy, MonitoredInv
<1>3. ASSUME NEW s \in Required \cap Service, OfBoot(PreScriptFails(s)) PROVE FailedForGood(s)'
  BY <1>3 DEF OfBoot, PreScriptFails, FailedForGood, SVInv, SVTypeOK, SUTypeOK
<1>4. ASSUME NEW s \in Required \cap Service, OfBoot(StartServiceReturned(s)),
             pc[first[s]] = "retStartup"
      PROVE  FailedForGood(s)'
  BY <1>4 DEF OfBoot, StartServiceReturned, MarkFailed, FailedForGood
<1> QED BY <1>1, <1>2, <1>3, <1>4, WhoFails

\* The invariant holds at the start and is kept by every step.
LEMMA MonitoredInvariant == SVSpec => []MonitoredInv
<1>1. SVInit => MonitoredInv
  BY DEF SVInit, LCInit, HMInit, MonitoredInv
<1>2. SVInv /\ MonitoredInv /\ [SVNext]_svVars => SVInv' /\ MonitoredInv'
  BY SVInvStep, MonitoredStep DEF SVInv, SVTypeOK
<1> QED BY <1>1, <1>2, SVInvInit, PTL DEF SVSpec

\* Theorem: where no required service has a health check, the exit status
\* becomes a failure only when one of them exited unasked, could not start or
\* failed its pre-script (README.md:137, triggerServiceFailureShutdown).
THEOREM FailuresAreReal ==
  ASSUME Monitored \cap Required = {}
  PROVE  SVSpec => FailureIsReal
<1>1. BootInv /\ DependencyInv /\ MonitoredInv /\ [SVNext]_svVars
        => [exitCode' # exitCode => SomeFailure']_svVars
  <2> SUFFICES ASSUME BootInv, DependencyInv, MonitoredInv, [SVNext]_svVars, exitCode' # exitCode
               PROVE  SomeFailure'
    OBVIOUS
  <2>1. \E s \in Required : FailedForGood(s)'
    BY BlameStep DEF DependencyInv
  <2> QED BY <2>1 DEF FailedForGood, SomeFailure, FailedByItself, EndedUnasked
<1> QED BY <1>1, BootInvariant, DependencyInvariant, MonitoredInvariant, PTL DEF SVSpec, FailureIsReal

-----------------------------------------------------------------------------
(* How the supervisor exits.                                               *)

\* os.Exit and the panic of the WaitGroup are the only ends, and final.
LEMMA WhoExits ==
  ASSUME [SVNext]_svVars
  PROVE  \/ UNCHANGED svVars
         \/ ~exited /\ UNCHANGED <<exited, status>>
         \/ OfEnd(WaiterWakes) /\ wg # 0
         \/ OfEnd(SignalExit)
         \/ OfBoot(MainExit)
         \/ OfBoot(RejectConfig)
<1> USE DEF sdVars
<1>1. ASSUME NEW r \in Run, Goroutine(r) \/ RestartTimer(r) \/ ProcessEnds(r)
      PROVE  ~exited /\ UNCHANGED <<exited, status>>
  BY <1>1 DEF Goroutine, RestartTimer, ProcessEnds, OfRun, OfEnd, RunAnnounces, RunRemoves,
              DoneReleases, RunTriggers, TriggerServiceFailureShutdown, RunTriggerReturns
<1>2. ASSUME NEW r \in Run, HealthMonitor(r) \/ OfMonitor(MonitorTicks(r))
      PROVE  ~exited /\ UNCHANGED <<exited, status>>
  BY <1>2 DEF HealthMonitor, OfMonitor, MonitorStops, CheckPasses, CheckFails,
              RestartUnhealthy, UnhealthyWithoutPolicy, UnhealthyReturns, MonitorTicks,
              TriggerServiceFailureShutdown
<1>3. ASSUME NEW s \in Service, ProcessService(s) \/ RunPostScript(s) \/ ScriptEnds(s)
                                \/ OfBoot(DependencyTimeout(s))
      PROVE  ~exited /\ UNCHANGED <<exited, status>>
  BY <1>3 DEF ProcessService, RunPostScript, ScriptEnds, OfBoot, BeginService,
              PreScriptReturns, DependencyReady, Settled, DependencyFailed, GiveUp,
              DependencyCancelled, LaunchService, StartServiceReturned,
              ServiceErrorHandled, EndService, PostScriptTimer, PostScriptCancelled,
              PreScriptSucceeds, PreScriptFails, PostScriptEnds, DependencyTimeout,
              TriggerServiceFailureShutdown
<1>4. ASSUME NEW c \in Client, Command(c) \/ HandleConnection(c)
      PROVE  ~exited /\ UNCHANGED <<exited, status>>
  BY <1>4 DEF Command, HandleConnection, OfServer, AnswerAtOnce, AcceptRestart, Accept,
              FindService, ServiceNotFound, AckRestart, RefuseRestart, CloseConnection
<1>5. CASE /\ MainOrEnd
           /\ ~(OfEnd(WaiterWakes) /\ wg # 0) /\ ~OfEnd(SignalExit)
           /\ ~OfBoot(MainExit) /\ ~OfBoot(RejectConfig)
  BY <1>5 DEF MainOrEnd, Main, RunShutdown, Waiter, OfEnd, OfBoot, OfServer, Listen,
              PublishServer, LoadServices, ServerFails, StepOfOnce, CancelServices, CloseIPC,
              CheckActive, ServicesStopped, GlobalTimeout, ForceKillAllServices,
              GraceTimeout, WaitBegins, WaiterWakes, Signal
<1> QED BY <1>1, <1>2, <1>3, <1>4, <1>5 DEF SVNext, MainOrEnd

\* The status of the end: what the trigger left, with 0 only after a signal;
\* a failure if the configuration was rejected; a crash if a service was
\* registered between the last Done and the waking of Wait.
ExitInv ==
  exited =>
    \/ status = exitCode /\ (status = 0 => starter = "signal")
    \/ status = Failure /\ boot # "services"
    \/ status = Panic /\ waiter = "released" /\ wg # 0

\* Every step keeps it.
LEMMA ExitStep ==
  ASSUME SVInv, ExitInv, [SVNext]_svVars
  PROVE  ExitInv'
<1> USE DEF SVInv, SVTypeOK, SDTypeOK, ExitInv
<1>1. CASE UNCHANGED svVars
  BY <1>1 DEF svVars, sdVars, lcVars
<1>2. CASE ~exited /\ UNCHANGED <<exited, status>>
  BY <1>2
<1>3. CASE OfEnd(WaiterWakes) /\ wg # 0
  BY <1>3 DEF OfEnd, WaiterWakes, Exit, lcVars
<1>4. CASE OfEnd(SignalExit)
  BY <1>4 DEF OfEnd, SignalExit, Exit, ShutdownOver, StatusInv, Failure
<1>5. CASE OfBoot(MainExit)
  BY <1>5 DEF OfBoot, MainExit, Exit, CancelInv, StatusInv, Failure
<1>6. CASE OfBoot(RejectConfig)
  BY <1>6 DEF OfBoot, RejectConfig, Exit
<1> QED BY <1>1, <1>2, <1>3, <1>4, <1>5, <1>6, WhoExits

\* The invariant holds at the start and is kept by every step.
LEMMA ExitInvariant == SVSpec => []ExitInv
<1>1. SVInit => ExitInv
  BY DEF SVInit, SDInit, ExitInv
<1>2. SVInv /\ ExitInv /\ [SVNext]_svVars => SVInv' /\ ExitInv'
  BY SVInvStep, ExitStep
<1> QED BY <1>1, <1>2, SVInvInit, PTL DEF SVSpec

\* The exit status is a failure only if a required service has failed for good.
BlameInv == exitCode = Failure => \E s \in Required : FailedForGood(s)

\* Theorem: where no required service has a health check, the exit status tells
\* the truth: 0 after a signal, a failure if the configuration was rejected or a
\* required service failed, and a crash only by a late registration
\* (README.md:137-138, run, setupSignalHandler).
THEOREM ExitExplained ==
  ASSUME Monitored \cap Required = {}
  PROVE  SVSpec => [](exited =>
           \/ status = 0 /\ starter = "signal"
           \/ status = Failure /\ (boot # "services" \/ SomeFailure)
           \/ status = Panic /\ waiter = "released" /\ wg # 0)
<1>1. SVInit => BlameInv
  BY DEF SVInit, SDInit, BlameInv, Failure
<1>2. BootInv /\ DependencyInv /\ MonitoredInv /\ BlameInv /\ [SVNext]_svVars => BlameInv'
  <2> SUFFICES ASSUME BootInv, DependencyInv, MonitoredInv, BlameInv, [SVNext]_svVars,
                      exitCode' = Failure
               PROVE  \E s \in Required : FailedForGood(s)'
    BY DEF BlameInv
  <2>1. CASE exitCode' # exitCode
    BY <2>1, BlameStep DEF DependencyInv
  <2>2. CASE exitCode = Failure
    BY <2>2, FailureStays, LifecycleAssumption DEF BlameInv, DependencyInv
  <2> QED BY <2>1, <2>2
<1>3. BootInv /\ BlameInv /\ ExitInv =>
        (exited => \/ status = 0 /\ starter = "signal"
                   \/ status = Failure /\ (boot # "services" \/ SomeFailure)
                   \/ status = Panic /\ waiter = "released" /\ wg # 0)
  <2> SUFFICES ASSUME BootInv, BlameInv, ExitInv, exited
               PROVE  \/ status = 0 /\ starter = "signal"
                      \/ status = Failure /\ (boot # "services" \/ SomeFailure)
                      \/ status = Panic /\ waiter = "released" /\ wg # 0
    OBVIOUS
  <2>1. exitCode = Failure => SomeFailure
    BY DEF BlameInv, FailedForGood, SomeFailure, FailedByItself, EndedUnasked
  <2> QED BY <2>1 DEF ExitInv, BootInv, SVInv, SVTypeOK, SDTypeOK
<1> QED BY <1>1, <1>2, <1>3, BootInvariant, DependencyInvariant, MonitoredInvariant,
           ExitInvariant, PTL DEF SVSpec

-----------------------------------------------------------------------------
(* Whom main leaves behind.                                                *)

\* Nothing starts the service again once its first run has ended.
NeverAgain(s) == Restart[s] = "never" /\ s \notin Restartable

\* The run of such a service arms no timer.
NoTimerInv ==
  \A r \in Run : NeverAgain(SvcOf[r]) => pc[r] # "bumping" /\ timer[r] = "off"

\* Every step keeps it (handleServiceExit, finishService).
LEMMA NoTimerStep ==
  ASSUME LCInv, EndShape, AskedInv, NoTimerInv, [LCNext]_lcVars
  PROVE  NoTimerInv'
<1> USE LifecycleAssumption DEF LCInv, LCTypeOK, NoTimerInv, NeverAgain
<1>1. ASSUME NEW s \in Service, NEW r \in Run, LaunchInitial(s, r) PROVE NoTimerInv'
  BY <1>1 DEF LaunchInitial
<1>2. ASSUME NEW r \in Run, RunStep(r) PROVE NoTimerInv'
  <2>1. CASE \/ CheckShutdown(r) \/ SpawnFails(r) \/ Spawn(r) \/ AddActiveService(r) \/ Announce(r)
             \/ ObserveExit(r) \/ ObserveCancel(r) \/ StopTimeout(r) \/ ObserveStopped(r)
             \/ ReadIntent(r) \/ RemoveActiveService(r) \/ Trigger(r) \/ TriggerReturns(r)
    BY <2>1 DEF CheckShutdown, SpawnFails, Spawn, AddActiveService, Announce, ObserveExit,
                ObserveCancel, StopTimeout, ObserveStopped, ReadIntent, RemoveActiveService,
                Trigger, TriggerReturns, ReturnPC
  <2>2. CASE Decide(r) /\ NeverAgain(SvcOf[r])
    <3>1. seen[r] # "operator"
      BY <2>2 DEF EndShape, IntentShape, AskedInv
    <3>2. ~ShouldRestart(r)
      BY <2>2 DEF ShouldRestart
    <3>3. timer' = timer /\ \E v \in PC \ {"bumping"} : pc' = [pc EXCEPT ![r] = v]
      BY <2>2, <3>1, <3>2 DEF Decide, FinishStopped, FinishOperator, FinishByPolicy, ReturnPC,
                              PC, Ending, Returned
    <3> QED BY <3>3
  <2>3. CASE Decide(r) /\ ~NeverAgain(SvcOf[r])
    <3>1. \A q \in Run \ {r} : pc'[q] = pc[q] /\ timer'[q] = timer[q]
      BY <2>3 DEF Decide, FinishStopped, FinishOperator, FinishByPolicy
    <3> QED BY <2>3, <3>1
  <2>4. CASE IncrementRestartCount(r)
    BY <2>4 DEF IncrementRestartCount, ReturnPC
  <2> QED BY <1>2, <2>1, <2>2, <2>3, <2>4 DEF RunStep
<1>3. ASSUME NEW r \in Run, TimerStep(r) PROVE NoTimerInv'
  BY <1>3 DEF TimerStep, SkipRestart, RestartServiceInternal
<1>4. ASSUME NEW r \in Run, EnvStep(r) PROVE NoTimerInv'
  BY <1>4 DEF EnvStep, ProcessExits, RequestStop
<1>5. CASE ForceKill(Registered) \/ CancelShutdown \/ UNCHANGED lcVars
  BY <1>5 DEF ForceKill, CancelShutdown, lcVars
<1> QED BY <1>1, <1>2, <1>3, <1>4, <1>5 DEF LCNext

\* startAllServices begins after the configuration was read, and processService
\* goes on when its run of startService has returned.
BootOrder ==
  /\ boot # "services" => \A s \in Service : sp[s] = "idle"
  /\ \A s \in Service :
       sp[s] \in {"blocked", "await", "done"} /\ first[s] # None => pc[first[s]] \in Returned

\* Every step keeps it.
LEMMA BootOrderStep ==
  ASSUME BootInv, BootOrder, [SVNext]_svVars
  PROVE  BootOrder'
<1> USE DEF BootInv, LCInv, SVInv, SVTypeOK, SUTypeOK, LCTypeOK
<1>1. [LCNext]_lcVars
  BY SVInvStep
<1>2. \A q \in Run : pc[q] \in Returned => pc'[q] \in Returned
  BY <1>1, Fate
<1>3. CASE ~ \E s \in Service : \/ ProcessService(s) \/ RunPostScript(s) \/ ScriptEnds(s)
                                \/ OfBoot(DependencyTimeout(s))
  <2>1. UNCHANGED <<first, sp>>
    <3>1. CASE \E r \in Run : RunAnnounces(r)
      BY <3>1 DEF RunAnnounces, Announce, MarkReadyOnAnnounce
    <3> QED BY <1>3, <3>1, OthersGiveNoVerdict
  <2>2. boot = "services" => boot' = "services"
    BY <1>3 DEF SVNext, Goroutine, RestartTimer, ProcessEnds, HealthMonitor, Command,
       HandleConnection, Main, RunShutdown, Waiter, OfRun, OfEnd, OfMonitor, OfServer, OfBoot,
       RunAnnounces, RunRemoves, DoneReleases, RunTriggers, TriggerServiceFailureShutdown,
       RunTriggerReturns, MonitorStops, CheckPasses, CheckFails, RestartUnhealthy,
       UnhealthyWithoutPolicy, UnhealthyReturns, MonitorTicks, AnswerAtOnce, AcceptRestart,
       Accept, FindService, ServiceNotFound, AckRestart, RefuseRestart, CloseConnection,
       Listen, PublishServer, ServerFails, LoadServices, RejectConfig, MainExit, StepOfOnce,
       CancelServices, CloseIPC, CheckActive, ServicesStopped, GlobalTimeout,
       ForceKillAllServices, GraceTimeout, WaitBegins, WaiterWakes, Signal, SignalExit,
       sdVars, svVars
  <2> QED BY <1>2, <2>1, <2>2 DEF BootOrder
<1>4. ASSUME NEW s \in Service, ProcessService(s) \/ RunPostScript(s) \/ ScriptEnds(s)
                                \/ OfBoot(DependencyTimeout(s))
      PROVE  BootOrder'
  <2>1. UNCHANGED boot
    BY <1>4 DEF ProcessService, RunPostScript, ScriptEnds, OfBoot, BeginService,
              PreScriptReturns, DependencyReady, Settled, DependencyFailed, GiveUp,
              DependencyCancelled, LaunchService, StartServiceReturned,
              ServiceErrorHandled, EndService, PostScriptTimer, PostScriptCancelled,
              PreScriptSucceeds, PreScriptFails, PostScriptEnds, DependencyTimeout,
              TriggerServiceFailureShutdown, sdVars
  <2>2. boot # "services" => UNCHANGED sp
    BY <1>4 DEF BootOrder, ProcessService, RunPostScript, ScriptEnds, OfBoot, BeginService,
              PreScriptReturns, DependencyReady, AwaitsDependency, Settled, DependencyFailed,
              DependencyCancelled, LaunchService, StartServiceReturned,
              ServiceErrorHandled, EndService, PostScriptTimer, PostScriptCancelled,
              PreScriptSucceeds, PreScriptFails, PostScriptEnds, DependencyTimeout
  <2>3. ASSUME NEW r \in Run, OfBoot(LaunchService(s, r)) PROVE BootOrder'
    <3>1. /\ first' = [first EXCEPT ![s] = r] /\ sp' = [sp EXCEPT ![s] = "launched"]
      BY <2>3 DEF OfBoot, LaunchService, LaunchInitial
    <3> QED BY <1>2, <2>1, <2>2, <3>1 DEF BootOrder
  <2>4. CASE OfBoot(StartServiceReturned(s))
    BY <1>2, <2>1, <2>2, <2>4 DEF BootOrder, OfBoot, StartServiceReturned, lcVars
  <2>5. CASE OfBoot(ServiceErrorHandled(s)) \/ OfBoot(EndService(s)) \/ RunPostScript(s)
    BY <1>2, <2>1, <2>2, <2>5 DEF BootOrder, OfBoot, ServiceErrorHandled, EndService,
       RunPostScript, PostScriptTimer, PostScriptCancelled, lcVars
  <2>6. CASE \/ OfBoot(BeginService(s)) \/ ScriptEnds(s) \/ OfBoot(PreScriptReturns(s))
             \/ OfBoot(DependencyReady(s)) \/ OfBoot(Settled(s)) \/ OfBoot(DependencyFailed(s))
             \/ OfBoot(DependencyCancelled(s)) \/ OfBoot(DependencyTimeout(s))
    <3>1. UNCHANGED <<pc, first>>
      BY <2>6 DEF OfBoot, BeginService, ScriptEnds, PreScriptSucceeds, PreScriptFails,
         PostScriptEnds, PreScriptReturns, DependencyReady, Settled, DependencyFailed,
         DependencyCancelled, DependencyTimeout, GiveUp, lcVars
    <3>2. sp' = sp \/ (first[s] = None /\ \A t \in Service \ {s} : sp'[t] = sp[t])
      BY <2>6 DEF OfBoot, BeginService, ScriptEnds, PreScriptSucceeds, PreScriptFails,
         PostScriptEnds, PreScriptReturns, DependencyReady, AwaitsDependency, Settled,
         DependencyFailed, DependencyCancelled, DependencyTimeout, GiveUp, VerdictInv,
         LaunchShape, Unlaunched
    <3> QED BY <2>1, <2>2, <3>1, <3>2 DEF BootOrder
  <2> QED BY <1>4, <2>3, <2>4, <2>5, <2>6 DEF ProcessService
<1> QED BY <1>3, <1>4

\* When main leaves on its own, what is still registered was started again.
AbandonedInv ==
  exited /\ status # Panic /\ ~ShutdownOver =>
    \A s \in Service : active[s] # None => ~NeverAgain(s)

\* Every step keeps it: main leaves only when each processService is done.
LEMMA AbandonedStep ==
  ASSUME BootInv, BootOrder, NoTimerInv, AbandonedInv, [SVNext]_svVars
  PROVE  AbandonedInv'
<1> USE LifecycleAssumption DEF BootInv, LCInv, LCTypeOK, SVInv, SVTypeOK, SDTypeOK, AbandonedInv
<1>1. CASE UNCHANGED svVars
  BY <1>1 DEF svVars, sdVars, lcVars, ShutdownOver
<1>2. CASE ~exited /\ UNCHANGED <<exited, status>>
  BY <1>2
<1>3. CASE OfEnd(WaiterWakes) /\ wg # 0
  BY <1>3 DEF OfEnd, WaiterWakes, Exit
<1>4. CASE OfEnd(SignalExit)
  BY <1>4 DEF OfEnd, SignalExit, ShutdownOver
<1>5. ASSUME UNCHANGED lcVars, \A s \in Service : first[s] # None => pc[first[s]] \in Returned
      PROVE  AbandonedInv'
  <2> SUFFICES ASSUME NEW s \in Service, active[s] # None, NeverAgain(s) PROVE FALSE
    BY <1>5 DEF lcVars, NeverAgain
  <2>1. active[s] \in Run /\ SvcOf[active[s]] = s
    BY DEF LCShape, RegistrySound
  <2>2. pc[active[s]] \in Serving \cup {"finishing", "removing"}
    BY <2>1 DEF LCShape, RegistryExact
  <2>3. first[s] # None /\ first[s] # active[s]
    BY <1>5, <2>1, <2>2 DEF LCShape, RunShape, Serving, Returned
  <2>4. timer[first[s]] = "fired" /\ SvcOf[first[s]] = s
    BY <2>1, <2>2, <2>3 DEF FirstInv, Serving
  <2> QED BY <2>3, <2>4 DEF NoTimerInv
<1>6. CASE OfBoot(MainExit)
  BY <1>5, <1>6 DEF OfBoot, MainExit, BootOrder
<1>7. CASE OfBoot(RejectConfig)
  <2>1. \A s \in Service : first[s] = None
    BY <1>7 DEF OfBoot, RejectConfig, BootOrder, VerdictInv, LaunchShape, Unlaunched
  <2> QED BY <1>5, <1>7, <2>1 DEF OfBoot, RejectConfig
<1> QED BY <1>1, <1>2, <1>3, <1>4, <1>6, <1>7, WhoExits

\* Theorem: in any configuration, what main leaves registered when it does not
\* wait for runShutdown is a service that a policy or the operator restarts
\* (startAllServices, line 231; README.md:62).
THEOREM OnlyRestartedAbandoned ==
  SVSpec => [](exited /\ status # Panic /\ ~ShutdownOver =>
                 \A s \in Service : active[s] # None => Restart[s] # "never" \/ s \in Restartable)
<1>1. SVInit => BootOrder /\ NoTimerInv /\ AbandonedInv
  BY DEF SVInit, LCInit, SDInit, SUInit, BootOrder, NoTimerInv, AbandonedInv
<1>2. BootInv /\ DependencyInv /\ BootOrder /\ NoTimerInv /\ AbandonedInv /\ [SVNext]_svVars
        => (BootOrder /\ NoTimerInv /\ AbandonedInv)'
  <2> SUFFICES ASSUME BootInv, DependencyInv, BootOrder, NoTimerInv, AbandonedInv, [SVNext]_svVars
               PROVE  (BootOrder /\ NoTimerInv /\ AbandonedInv)'
    OBVIOUS
  <2>1. [LCNext]_lcVars
    BY SVInvStep DEF BootInv
  <2> QED BY <2>1, BootOrderStep, NoTimerStep, AbandonedStep DEF BootInv, DependencyInv
<1>3. AbandonedInv =>
        (exited /\ status # Panic /\ ~ShutdownOver =>
           \A s \in Service : active[s] # None => Restart[s] # "never" \/ s \in Restartable)
  BY DEF AbandonedInv, NeverAgain
<1> QED BY <1>1, <1>2, <1>3, BootInvariant, DependencyInvariant, PTL DEF SVSpec

\* Theorem: where nothing restarts any service, main does not leave before the
\* last one has stopped or runShutdown has given it up.
THEOREM MainWaits ==
  ASSUME Restartable = {}, \A s \in Service : Restart[s] = "never"
  PROVE  SVSpec => []MainWaitsForServices
<1>1. (exited /\ status # Panic /\ ~ShutdownOver =>
         \A s \in Service : active[s] # None => Restart[s] # "never" \/ s \in Restartable)
        => MainWaitsForServices
  BY DEF MainWaitsForServices, Registered
<1> QED BY <1>1, OnlyRestartedAbandoned, PTL

-----------------------------------------------------------------------------
(* The restart the operator was promised.                                  *)

\* The operator's request is the intent of the run, which is past its launch.
Obeying(r) == intent[r] = "operator" /\ pc[r] \notin Launching \cup {"unused"}

\* It stays so, and is what finishService finds when it loads the intent.
LEMMA ObeyStep ==
  ASSUME LCTypeOK, [LCNext]_lcVars, NEW q \in Run, Obeying(q)
  PROVE  Obeying(q)' /\ (~Judged(q) /\ Judged(q)' => seen'[q] = "operator")
<1> USE DEF LCTypeOK, Obeying, Judged, Launching, Ending, Returned
<1>1. ASSUME NEW r \in Run, RunStep(r)
      PROVE  Obeying(q)' /\ (~Judged(q) /\ Judged(q)' => seen'[q] = "operator")
  <2>1. CASE CheckShutdown(r) \/ SpawnFails(r) \/ Spawn(r) \/ AddActiveService(r) \/ Announce(r)
    BY <2>1 DEF CheckShutdown, SpawnFails, Spawn, AddActiveService, Announce
  <2>2. CASE ObserveExit(r) \/ ObserveCancel(r) \/ StopTimeout(r) \/ ObserveStopped(r)
    BY <2>2 DEF ObserveExit, ObserveCancel, StopTimeout, ObserveStopped
  <2>3. CASE ReadIntent(r)
    BY <2>3 DEF ReadIntent
  <2>4. CASE RemoveActiveService(r) \/ IncrementRestartCount(r) \/ Trigger(r) \/ TriggerReturns(r)
    BY <2>4 DEF RemoveActiveService, IncrementRestartCount, Trigger, TriggerReturns, ReturnPC
  <2>5. CASE Decide(r)
    BY <2>5 DEF Decide, FinishStopped, FinishOperator, FinishByPolicy, ReturnPC
  <2> QED BY <1>1, <2>1, <2>2, <2>3, <2>4, <2>5 DEF RunStep
<1>2. CASE \E s \in Service, r \in Run : LaunchInitial(s, r)
  BY <1>2 DEF LaunchInitial
<1>3. ASSUME NEW r \in Run, TimerStep(r) \/ EnvStep(r)
      PROVE  Obeying(q)' /\ (~Judged(q) /\ Judged(q)' => seen'[q] = "operator")
  BY <1>3 DEF TimerStep, SkipRestart, RestartServiceInternal, EnvStep, ProcessExits, RequestStop
<1>4. CASE ForceKill(Registered) \/ CancelShutdown \/ UNCHANGED lcVars
  BY <1>4 DEF ForceKill, CancelShutdown, lcVars
<1> QED BY <1>1, <1>2, <1>3, <1>4 DEF LCNext

\* A run that found the operator's request and is over has left its timer armed.
ArmedInv ==
  \A r \in Run : seen[r] = "operator" =>
    pc[r] \in {"removing", "deciding"} \/ (pc[r] = "retNil" /\ timer[r] # "off")

\* Every step of the runs keeps it (finishService, scheduleRestart).
LEMMA ArmedStep ==
  ASSUME LCTypeOK, ArmedInv, [LCNext]_lcVars
  PROVE  ArmedInv'
<1> USE DEF LCTypeOK, ArmedInv
<1>1. ASSUME NEW r \in Run, RunStep(r) PROVE ArmedInv'
  <2>1. CASE CheckShutdown(r) \/ SpawnFails(r) \/ Spawn(r) \/ AddActiveService(r) \/ Announce(r)
    BY <2>1 DEF CheckShutdown, SpawnFails, Spawn, AddActiveService, Announce
  <2>2. CASE ObserveExit(r) \/ ObserveCancel(r) \/ StopTimeout(r) \/ ObserveStopped(r)
    BY <2>2 DEF ObserveExit, ObserveCancel, StopTimeout, ObserveStopped
  <2>3. CASE ReadIntent(r)
    BY <2>3 DEF ReadIntent
  <2>4. CASE RemoveActiveService(r) \/ IncrementRestartCount(r) \/ Trigger(r) \/ TriggerReturns(r)
    BY <2>4 DEF RemoveActiveService, IncrementRestartCount, Trigger, TriggerReturns
  <2>5. CASE Decide(r)
    BY <2>5 DEF Decide, FinishStopped, FinishOperator, FinishByPolicy
  <2> QED BY <1>1, <2>1, <2>2, <2>3, <2>4, <2>5 DEF RunStep
<1>2. CASE \E s \in Service, r \in Run : LaunchInitial(s, r)
  BY <1>2 DEF LaunchInitial
<1>3. ASSUME NEW r \in Run, TimerStep(r) \/ EnvStep(r) PROVE ArmedInv'
  BY <1>3 DEF TimerStep, SkipRestart, RestartServiceInternal, EnvStep, ProcessExits, RequestStop
<1>4. CASE ForceKill(Registered) \/ CancelShutdown \/ UNCHANGED lcVars
  BY <1>4 DEF ForceKill, CancelShutdown, lcVars
<1> QED BY <1>1, <1>2, <1>3, <1>4 DEF LCNext

\* An acknowledged connection has found a run, whose intent it set.
AckInv == \A c \in Client : conn[c] = "acked" => target[c] \in Run /\ Obeying(target[c])

\* A connection is acknowledged by its own step, and that is the last it takes.
LEMMA WhoAcks ==
  ASSUME CTLTypeOK, [SVNext]_svVars, NEW k \in Client
  PROVE  /\ conn[k] = "acked" => conn'[k] = "acked" /\ target'[k] = target[k]
         /\ conn'[k] = "acked" => conn[k] = "acked" \/ OfServer(AckRestart(k))
<1> DEFINE Goal == /\ conn[k] = "acked" => conn'[k] = "acked" /\ target'[k] = target[k]
                   /\ conn'[k] = "acked" => conn[k] = "acked" \/ OfServer(AckRestart(k))
<1>1. ASSUME NEW c \in Client, Command(c) \/ HandleConnection(c) PROVE Goal
  <2>1. CASE OfServer(AckRestart(c))
    BY <2>1 DEF OfServer, AckRestart, CTLTypeOK
  <2>2. CASE OfServer(FindService(c))
    BY <2>2 DEF OfServer, FindService, CTLTypeOK
  <2>3. CASE OfServer(ServiceNotFound(c)) \/ OfServer(RefuseRestart(c))
    BY <2>3 DEF OfServer, ServiceNotFound, RefuseRestart, CloseConnection, CTLTypeOK
  <2>4. CASE Command(c)
    BY <2>4 DEF Command, OfServer, AnswerAtOnce, AcceptRestart, Accept, CTLTypeOK
  <2> QED BY <1>1, <2>1, <2>2, <2>3, <2>4 DEF HandleConnection
<1>2. CASE UNCHANGED ctVars
  BY <1>2 DEF ctVars
<1>3. CASE \E r \in Run : \/ Goroutine(r) \/ RestartTimer(r) \/ ProcessEnds(r)
                          \/ HealthMonitor(r) \/ OfMonitor(MonitorTicks(r))
  <2>1. UNCHANGED ctVars
    BY <1>3 DEF Goroutine, RestartTimer, ProcessEnds, HealthMonitor, OfRun, OfEnd, OfMonitor,
                RunAnnounces
  <2> QED BY <1>2, <2>1
<1>4. CASE \E s \in Service : \/ ProcessService(s) \/ RunPostScript(s)
                              \/ ScriptEnds(s) \/ OfBoot(DependencyTimeout(s))
  <2>1. UNCHANGED ctVars
    BY <1>4 DEF ProcessService, RunPostScript, ScriptEnds, OfBoot
  <2> QED BY <1>2, <2>1
<1>5. CASE MainOrEnd \/ UNCHANGED svVars
  <2>1. UNCHANGED ctVars
    BY <1>5 DEF MainOrEnd, Main, RunShutdown, Waiter, OfBoot, OfEnd, OfServer, Listen,
                PublishServer, ServerFails, svVars, ctVars
  <2> QED BY <1>2, <2>1
<1> QED BY <1>1, <1>3, <1>4, <1>5 DEF SVNext, MainOrEnd

\* Every step of the supervisor keeps AckInv (handleRestartService, RequestStop).
LEMMA AckStep ==
  ASSUME LCTypeOK, EndShape, CTLTypeOK, ConnectionsInv, AckInv, [LCNext]_lcVars, [SVNext]_svVars
  PROVE  AckInv'
<1> SUFFICES ASSUME NEW c \in Client, conn'[c] = "acked"
             PROVE  (target[c] \in Run /\ Obeying(target[c]))'
  BY DEF AckInv
<1>1. CASE conn[c] = "acked"
  <2>1. target'[c] = target[c]
    BY <1>1, WhoAcks
  <2> QED BY <1>1, <2>1, ObeyStep DEF AckInv, Obeying
<1>2. CASE OfServer(AckRestart(c))
  <2>1. target[c] \in Run /\ target' = target
    BY <1>2 DEF OfServer, AckRestart, ConnectionsInv
  <2>2. intent'[target[c]] = "operator" /\ pc' = pc
    BY <1>2, <2>1 DEF OfServer, AckRestart, RequestStop, LCTypeOK
  <2>3. pc[target[c]] \notin Launching \cup {"unused"}
    BY <1>2, <2>1 DEF OfServer, AckRestart, RequestStop, Published, Launching, EndShape,
                      ProcessShape
  <2> QED BY <2>1, <2>2, <2>3 DEF Obeying
<1> QED BY <1>1, <1>2, WhoAcks

\* Theorem: an acknowledged restart gets lost only when the run had loaded its
\* intent before: one that was acknowledged in time is what the run finds
\* (RequestStop, finishService).
THEOREM AckedIsObeyed == SVSpec => AckedInTime
<1>1. SVInit => AckInv
  BY DEF SVInit, CTLInit, AckInv
<1>2. BootInv /\ DependencyInv /\ AckInv /\ [SVNext]_svVars => AckInv'
  BY AckStep, SVInvStep DEF BootInv, DependencyInv, SVInv, SVTypeOK
<1>3. BootInv /\ DependencyInv /\ AckInv /\ [SVNext]_svVars =>
        [\A c \in Client :
           conn[c] = "acked" /\ ~Judged(target[c]) /\ Judged(target[c])' =>
             seen'[target[c]] = "operator"]_svVars
  <2> SUFFICES ASSUME BootInv, DependencyInv, AckInv, [SVNext]_svVars, NEW c \in Client,
                      conn[c] = "acked", ~Judged(target[c]), Judged(target[c])'
               PROVE  seen'[target[c]] = "operator"
    OBVIOUS
  <2>1. [LCNext]_lcVars
    BY SVInvStep DEF BootInv
  <2>2. target'[c] = target[c]
    BY WhoAcks DEF BootInv, SVInv, SVTypeOK
  <2>3. target[c] \in Run /\ Obeying(target[c])
    BY DEF AckInv
  <2>4. ASSUME NEW q \in Run, q = target[c] PROVE seen'[q] = "operator"
    <3>1. ~Judged(q) /\ Judged(q)'
      BY <2>2, <2>4 DEF Judged
    <3> QED BY <2>1, <2>3, <2>4, <3>1, ObeyStep DEF BootInv, SVInv, SVTypeOK
  <2> QED BY <2>2, <2>3, <2>4
<1> QED BY <1>1, <1>2, <1>3, BootInvariant, DependencyInvariant, PTL DEF SVSpec, AckedInTime

\* Theorem: a run that ends for the operator has its successor armed, or its
\* timer has fired and started it or met the shutdown (finishService,
\* scheduleRestart).
THEOREM OperatorRestartArmed ==
  SVSpec => [](\A r \in Run : pc[r] \in Returned /\ seen[r] = "operator" => timer[r] # "off")
<1>1. SVInit => ArmedInv
  BY DEF SVInit, LCInit, ArmedInv
<1>2. BootInv /\ ArmedInv /\ [SVNext]_svVars => ArmedInv'
  BY ArmedStep, SVInvStep DEF BootInv, SVInv, SVTypeOK
<1>3. ArmedInv => \A r \in Run : pc[r] \in Returned /\ seen[r] = "operator" => timer[r] # "off"
  BY DEF ArmedInv, Returned
<1> QED BY <1>1, <1>2, <1>3, BootInvariant, PTL DEF SVSpec

-----------------------------------------------------------------------------
(* The crash, and who is safe from it.                                     *)

\* What the waiter of runShutdown depends on: its own steps, the shutdown's,
\* and the registrations and removals.
LEMMA WhoWaits ==
  ASSUME [SVNext]_svVars
  PROVE  \/ \E r \in Run : OfEnd(RunRemoves(r))
         \/ OfEnd(CheckActive) \/ OfEnd(WaitBegins) \/ OfEnd(WaiterWakes)
         \/ UNCHANGED waiter /\ (UNCHANGED active \/ \E r \in Run : AddActiveService(r))
<1> DEFINE Else == UNCHANGED waiter /\ (UNCHANGED active \/ \E r \in Run : AddActiveService(r))
<1> USE DEF sdVars, lcVars
<1>1. ASSUME NEW r \in Run, Goroutine(r) \/ RestartTimer(r) \/ ProcessEnds(r)
      PROVE  OfEnd(RunRemoves(r)) \/ Else
  BY <1>1 DEF Goroutine, RestartTimer, ProcessEnds, OfRun, OfEnd, RunAnnounces,
              CheckShutdown, SpawnFails, Spawn, Announce, ObserveExit,
              ObserveCancel, StopTimeout, ObserveStopped, ReadIntent, Decide,
              IncrementRestartCount, RunTriggers, Trigger, TriggerServiceFailureShutdown,
              RunTriggerReturns, TriggerReturns, SkipRestart, RestartServiceInternal,
              ProcessExits
<1>2. ASSUME NEW r \in Run, HealthMonitor(r) \/ OfMonitor(MonitorTicks(r)) PROVE Else
  BY <1>2 DEF HealthMonitor, OfMonitor, MonitorStops, CheckPasses, CheckFails, RequestStop,
              RestartUnhealthy, UnhealthyWithoutPolicy, UnhealthyReturns, MonitorTicks,
              TriggerServiceFailureShutdown
<1>3. ASSUME NEW s \in Service, ProcessService(s) \/ RunPostScript(s) \/ ScriptEnds(s)
                                \/ OfBoot(DependencyTimeout(s))
      PROVE  Else
  BY <1>3 DEF ProcessService, RunPostScript, ScriptEnds, OfBoot, BeginService,
              PreScriptReturns, DependencyReady, Settled, DependencyFailed, GiveUp,
              DependencyCancelled, LaunchService, LaunchInitial, StartServiceReturned,
              ServiceErrorHandled, EndService, PostScriptTimer, PostScriptCancelled,
              PreScriptSucceeds, PreScriptFails, PostScriptEnds, DependencyTimeout,
              TriggerServiceFailureShutdown
<1>4. ASSUME NEW c \in Client, Command(c) \/ HandleConnection(c) PROVE Else
  BY <1>4 DEF Command, HandleConnection, OfServer, AnswerAtOnce, AcceptRestart, Accept,
              FindService, ServiceNotFound, AckRestart, RequestStop, RefuseRestart,
              CloseConnection
<1>5. CASE MainOrEnd /\ ~OfEnd(CheckActive) /\ ~OfEnd(WaitBegins) /\ ~OfEnd(WaiterWakes)
  BY <1>5 DEF MainOrEnd, Main, RunShutdown, Waiter, OfEnd, OfBoot, OfServer, Listen,
              PublishServer, LoadServices, MainExit, ServerFails, RejectConfig,
              CancelServices, CancelShutdown, CloseIPC, ServicesStopped,
              GlobalTimeout, ForceKillAllServices, ForceKill, GraceTimeout, Signal, SignalExit
<1>6. CASE UNCHANGED svVars
  BY <1>6 DEF svVars
<1> QED BY <1>1, <1>2, <1>3, <1>4, <1>5, <1>6 DEF SVNext, MainOrEnd

\* Every service was launched and none can be registered any more.
Quiet ==
  /\ \A s \in Service : first[s] # None /\ active[s] = None
  /\ \A r \in Run : pc[r] \notin Launching
  /\ wg = 0

\* After the cancellation it stays so: no timer starts a run (scheduleRestart).
LEMMA QuietStays ==
  ASSUME LCInv, cancelled, Quiet, [LCNext]_lcVars
  PROVE  Quiet'
<1> USE LifecycleAssumption DEF LCInv, LCTypeOK, Quiet, Launching
<1>1. CASE \E s \in Service, r \in Run : LaunchInitial(s, r)
  BY <1>1 DEF LaunchInitial
<1>2. ASSUME NEW r \in Run, RunStep(r) PROVE Quiet'
  <2>1. pc[r] \notin {"starting", "building", "spawned", "removing"}
    BY DEF LCShape, RegistryExact
  <2>2. UNCHANGED <<first, active, wg>>
    BY <1>2, <2>1 DEF RunStep, CheckShutdown, SpawnFails, Spawn, AddActiveService, Announce,
                      ObserveExit, ObserveCancel, StopTimeout, ObserveStopped, ReadIntent,
                      RemoveActiveService, Decide, IncrementRestartCount, Trigger, TriggerReturns
  <2>3. \E v \in PC \ Launching : pc' = [pc EXCEPT ![r] = v]
    BY <1>2, <2>1 DEF RunStep, CheckShutdown, SpawnFails, Spawn, AddActiveService, Announce,
                      ObserveExit, ObserveCancel, StopTimeout, ObserveStopped, ReadIntent,
                      RemoveActiveService, Decide, FinishStopped, FinishOperator,
                      FinishByPolicy, ReturnPC, IncrementRestartCount, Trigger,
                      TriggerReturns, PC, Serving, Ending, Returned
  <2> QED BY <2>2, <2>3
<1>3. CASE \E r \in Run : TimerStep(r) \/ EnvStep(r)
  BY <1>3 DEF TimerStep, SkipRestart, RestartServiceInternal, EnvStep, ProcessExits, RequestStop
<1>4. CASE ForceKill(Registered) \/ CancelShutdown \/ UNCHANGED lcVars
  BY <1>4 DEF ForceKill, CancelShutdown, lcVars
<1> QED BY <1>1, <1>2, <1>3, <1>4 DEF LCNext

\* The waiter exists after the cancellation only, waits while something is
\* registered, and is released when nothing can be registered any more.
WaiterInv ==
  /\ waiter # "off" => cancelled
  /\ waiter = "waiting" => \E s \in Service : active[s] # None
  /\ waiter = "released" => Quiet

\* Of one service none or one is registered.
LEMMA CountOfOne ==
  ASSUME NEW only, NEW f
  PROVE  Cardinality({s \in {only} : f[s] # None}) = 0 <=> f[only] = None
<1>1. CASE f[only] = None
  <2>1. {s \in {only} : f[s] # None} = {}
    BY <1>1
  <2> QED BY <1>1, <2>1, FS_EmptySet
<1>2. CASE f[only] # None
  <2>1. {s \in {only} : f[s] # None} = {only}
    BY <1>2
  <2>2. Cardinality({only}) = 1
    BY FS_Singleton
  <2> QED BY <1>2, <2>1, <2>2
<1> QED BY <1>1, <1>2

\* A supervisor of one service keeps it: the removal that releases the waiter
\* is that of the only run that could still register.
LEMMA WaiterStep ==
  ASSUME NEW only, Service = {only}, BootInv, WaitGroupExact, WaitGroupExact', WaiterInv,
         [SVNext]_svVars
  PROVE  WaiterInv'
<1> USE LifecycleAssumption DEF BootInv, LCInv, LCTypeOK, SVInv, SVTypeOK, SDTypeOK
<1>1. [LCNext]_lcVars /\ LCInv' /\ (cancelled => cancelled')
  BY SVInvStep, LCInvStep, CancelledForGood
<1>2. (wg = 0 <=> active[only] = None) /\ (wg' = 0 <=> active'[only] = None)
  <2>1. /\ wg = Cardinality({s \in {only} : active[s] # None})
        /\ wg' = Cardinality({s \in {only} : active'[s] # None})
    BY DEF WaitGroupExact
  <2>2. /\ Cardinality({s \in {only} : active[s] # None}) = 0 <=> active[only] = None
        /\ Cardinality({s \in {only} : active'[s] # None}) = 0 <=> active'[only] = None
    BY CountOfOne, Zenon
  <2> QED BY <2>1, <2>2
<1>3. ASSUME NEW r \in Run, OfEnd(RunRemoves(r)) PROVE WaiterInv'
  <2>1. /\ pc[r] = "removing" /\ pc' = [pc EXCEPT ![r] = "deciding"]
        /\ UNCHANGED first
        /\ waiter' = IF waiter = "waiting" /\ wg' = 0 THEN "released" ELSE waiter
    BY <1>3 DEF OfEnd, RunRemoves, RemoveActiveService, DoneReleases
  <2>2. active[only] = r
    BY <2>1 DEF LCShape, RegistryExact
  <2>3. active' = [active EXCEPT ![only] = None]
    BY <1>3, <2>2 DEF OfEnd, RunRemoves, RemoveActiveService
  <2>4. first[only] # None
    BY <2>1 DEF LCShape, RunShape
  <2>5. \A q \in Run : pc'[q] \notin Launching
    BY <2>1 DEF LCShape, OneLive, Live, UnderWay, Launching
  <2>6. Quiet'
    BY <1>2, <2>1, <2>3, <2>4, <2>5 DEF Quiet
  <2> QED BY <1>1, <1>2, <2>1, <2>3, <2>6 DEF WaiterInv
<1>4. CASE OfEnd(CheckActive)
  BY <1>4 DEF OfEnd, CheckActive, StepOfOnce, CancelInv, WaiterInv, lcVars
<1>5. CASE OfEnd(WaitBegins)
  BY <1>2, <1>5 DEF OfEnd, WaitBegins, WaiterInv, lcVars
<1>6. CASE OfEnd(WaiterWakes)
  BY <1>6 DEF OfEnd, WaiterWakes, WaiterInv, Quiet, lcVars
<1>7. CASE UNCHANGED waiter /\ (UNCHANGED active \/ \E r \in Run : AddActiveService(r))
  <2>1. active[only] # None => active'[only] # None
    BY <1>7 DEF AddActiveService
  <2>2. waiter = "released" => Quiet'
    BY <1>1, QuietStays DEF WaiterInv
  <2> QED BY <1>1, <1>7, <2>1, <2>2 DEF WaiterInv
<1> QED BY <1>3, <1>4, <1>5, <1>6, <1>7, WhoWaits

\* Theorem: a supervisor of one service without a health check (or not required)
\* never crashes, and exits with 0 after a signal unless that service failed
\* (README.md:138, removeActiveService, runShutdown).
THEOREM OneServiceExitsZero ==
  ASSUME NEW only, Service = {only}, Monitored \cap Required = {}
  PROVE  SVSpec => [](SignalExitsZero /\ (exited => status # Panic))
<1>1. SVInit => WaiterInv
  BY DEF SVInit, SDInit, WaiterInv
<1>2. BootInv /\ WaitGroupExact /\ WaitGroupExact' /\ WaiterInv /\ [SVNext]_svVars => WaiterInv'
  BY WaiterStep
<1>3. SVSpec => []WaitGroupExact
  BY SupervisorSafety, PTL
<1>4. /\ WaiterInv
      /\ exited => \/ status = 0 /\ starter = "signal"
                   \/ status = Failure /\ (boot # "services" \/ SomeFailure)
                   \/ status = Panic /\ waiter = "released" /\ wg # 0
      => SignalExitsZero /\ (exited => status # Panic)
  BY DEF WaiterInv, Quiet, SignalExitsZero, Failure, Panic
<1> QED BY <1>1, <1>2, <1>3, <1>4, BootInvariant, ExitExplained, PTL DEF SVSpec
=============================================================================
