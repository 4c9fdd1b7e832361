--------------------------- MODULE LifecycleProofs ---------------------------
(***************************************************************************)
(* Proofs about Lifecycle, for any services, policies, limits and supply   *)
(* of runs.  The heart is OneLive: of the runs of one service at most one  *)
(* is under way or has its successor's timer armed.  It makes the shared,  *)
(* by-name state of a service -- its entry in activeServices, its restart  *)
(* counter -- belong to one run at a time.                                 *)
(***************************************************************************)
EXTENDS LifecycleContract, FiniteSetTheorems, TLAPS

\* At most one run of a service is live.
OneLive ==
  \A q, r \in Run : SvcOf[q] = SvcOf[r] /\ Live(q) /\ Live(r) => q = r

\* What the place of a run in its code says about its process and its timer.
RunShape ==
  \A r \in Run :
    /\ timer[r] # "off" => pc[r] \in {"retNil", "retExit"}
    /\ Running(r) => pc[r] \in Serving \cup {"spawned"}
    /\ first[SvcOf[r]] = None => pc[r] = "unused"

\* An entry of activeServices is a run of that service.
RegistrySound == \A s \in Service : active[s] # None => SvcOf[active[s]] = s

\* The inductive invariant: the type, and what the runs share.
LCShape == OneLive /\ RunShape /\ RegistryExact /\ RegistrySound

LCInv == LCTypeOK /\ LCShape

\* What ties the restart counter of a service to the runs that use it: a run
\* about to count a restart has not been counted, an armed timer has.
CountersInv ==
  /\ \A s \in Service :
       /\ relaunched[s] <= counts[s]
       /\ MaxRestarts[s] > 0 => counts[s] <= MaxRestarts[s]
  /\ \A r \in Run :
       /\ timer[r] = "armed" /\ seen[r] # "operator"
            => relaunched[SvcOf[r]] < counts[SvcOf[r]]
       /\ pc[r] = "bumping"
            => /\ Restart[SvcOf[r]] # "never" /\ seen[r] # "operator"
               /\ MaxRestarts[SvcOf[r]] > 0 => counts[SvcOf[r]] < MaxRestarts[SvcOf[r]]

\* RestartAccounting without a cardinality: at most one timer is armed.
AccountsInv ==
  ~cancelled =>
    \A s \in Service :
      counts[s] = relaunched[s] + (IF ArmedByPolicy(s) = {} THEN 0 ELSE 1)

-----------------------------------------------------------------------------
(* Type correctness.                                                       *)

USE DEF StopIntent, ServiceState

\* The initial values (package variables, no service launched) have their types.
LEMMA LCTypeInit == LCInit => LCTypeOK
<1> SUFFICES ASSUME LCInit PROVE LCTypeOK
  OBVIOUS
<1>1. /\ pc \in [Run -> PC]
      /\ proc \in [Run -> {"none", "alive", "killed", "dead"}]
      /\ timer \in [Run -> {"off", "armed", "fired"}]
  BY DEF LCInit, PC
<1>2. exitErr \in [Run -> BOOLEAN] /\ stopped \in [Run -> BOOLEAN] /\ cancelled \in BOOLEAN
  BY DEF LCInit
<1>3. /\ intent \in [Run -> StopIntent]
      /\ seen \in [Run -> StopIntent]
      /\ state \in [Run -> ServiceState]
  BY DEF LCInit
<1>4. /\ active \in [Service -> Run \cup {None}]
      /\ first \in [Service -> Run \cup {None}]
      /\ counts \in [Service -> Nat]
      /\ relaunched \in [Service -> Nat]
      /\ wg \in Int
  BY DEF LCInit
<1> QED
  BY <1>1, <1>2, <1>3, <1>4 DEF LCTypeOK

\* Every step of a run, a timer, a process or the environment keeps the types.
LEMMA LCTypeStep == LCTypeOK /\ [LCNext]_lcVars => LCTypeOK'
<1> USE LifecycleAssumption
<1> SUFFICES ASSUME LCTypeOK, [LCNext]_lcVars PROVE LCTypeOK'
  OBVIOUS
<1>1. ASSUME NEW s \in Service, NEW r \in Run, LaunchInitial(s, r) PROVE LCTypeOK'
  BY <1>1 DEF LaunchInitial, LCTypeOK, PC, Launching
<1>2. ASSUME NEW r \in Run, RunStep(r) PROVE LCTypeOK'
  <2>1. CASE CheckShutdown(r)
    BY <2>1 DEF CheckShutdown, LCTypeOK, PC, Launching, Returned
  <2>2. CASE SpawnFails(r)
    BY <2>2 DEF SpawnFails, LCTypeOK, PC, Returned
  <2>3. CASE Spawn(r)
    BY <2>3 DEF Spawn, LCTypeOK, PC, Launching
  <2>4. CASE AddActiveService(r)
    BY <2>4 DEF AddActiveService, LCTypeOK, PC, Serving
  <2>5. CASE Announce(r)
    BY <2>5 DEF Announce, LCTypeOK, PC, Serving
  <2>6. CASE ObserveExit(r)
    BY <2>6 DEF ObserveExit, LCTypeOK, PC, Ending
  <2>7. CASE ObserveCancel(r)
    BY <2>7 DEF ObserveCancel, LCTypeOK, PC, Serving
  <2>8. CASE StopTimeout(r)
    BY <2>8 DEF StopTimeout, LCTypeOK, PC, Serving
  <2>9. CASE ObserveStopped(r)
    BY <2>9 DEF ObserveStopped, LCTypeOK, PC, Ending
  <2>10. CASE ReadIntent(r)
    BY <2>10 DEF ReadIntent, LCTypeOK, PC, Ending
  <2>11. CASE RemoveActiveService(r)
    BY <2>11 DEF RemoveActiveService, LCTypeOK, PC, Ending
  <2>12. CASE Decide(r)
    <3>1. CASE FinishStopped(r)
      BY <2>12, <3>1 DEF Decide, FinishStopped, LCTypeOK, PC, Returned
    <3>2. CASE FinishOperator(r)
      BY <2>12, <3>2 DEF Decide, FinishOperator, LCTypeOK, PC, Returned
    <3>3. CASE FinishByPolicy(r)
      BY <2>12, <3>3 DEF Decide, FinishByPolicy, ReturnPC, LCTypeOK, PC, Ending, Returned
    <3> QED BY <2>12, <3>1, <3>2, <3>3 DEF Decide
  <2>13. CASE IncrementRestartCount(r)
    BY <2>13 DEF IncrementRestartCount, ReturnPC, LCTypeOK, PC, Returned
  <2>14. CASE Trigger(r)
    BY <2>14 DEF Trigger, LCTypeOK, PC, Ending
  <2>15. CASE TriggerReturns(r)
    BY <2>15 DEF TriggerReturns, ReturnPC, LCTypeOK, PC, Returned
  <2> QED BY <1>2, <2>1, <2>2, <2>3, <2>4, <2>5, <2>6, <2>7, <2>8, <2>9, <2>10,
             <2>11, <2>12, <2>13, <2>14, <2>15 DEF RunStep
<1>3. ASSUME NEW r \in Run, SkipRestart(r) PROVE LCTypeOK'
  BY <1>3 DEF SkipRestart, LCTypeOK
<1>4. ASSUME NEW r \in Run, NEW q \in Run, RestartServiceInternal(r, q) PROVE LCTypeOK'
  BY <1>4 DEF RestartServiceInternal, LCTypeOK, PC, Launching
<1>5. ASSUME NEW r \in Run, NEW err \in BOOLEAN, ProcessExits(r, err) PROVE LCTypeOK'
  BY <1>5 DEF ProcessExits, LCTypeOK
<1>6. ASSUME NEW r \in Run, NEW i \in {"policy", "operator"}, RequestStop(r, i) PROVE LCTypeOK'
  BY <1>6 DEF RequestStop, LCTypeOK
<1>7. CASE ForceKill(Registered)
  BY <1>7 DEF ForceKill, LCTypeOK
<1>8. CASE CancelShutdown
  BY <1>8 DEF CancelShutdown, LCTypeOK
<1>9. CASE UNCHANGED lcVars
  BY <1>9 DEF lcVars, LCTypeOK
<1> QED
  BY <1>1, <1>2, <1>3, <1>4, <1>5, <1>6, <1>7, <1>8, <1>9 DEF LCNext, TimerStep, EnvStep

\* Every variable keeps its type whatever the configuration.
THEOREM LCTypeCorrect == LCSpec => []LCTypeOK
  BY LCTypeInit, LCTypeStep, PTL DEF LCSpec
-----------------------------------------------------------------------------
(* The invariant that makes the rest true.                                 *)

\* Nothing is live or registered before the first launch.
LEMMA LCInvInit == LCInit => LCInv
<1> SUFFICES ASSUME LCInit PROVE LCInv
  OBVIOUS
<1>1. LCTypeOK
  BY LCTypeInit
<1>2. OneLive /\ RunShape
  BY DEF LCInit, OneLive, Live, RunShape, Running, UnderWay, Launching, Serving
<1>3. RegistryExact /\ RegistrySound
  BY LifecycleAssumption DEF LCInit, RegistryExact, RegistrySound, Serving
<1> QED
  BY <1>1, <1>2, <1>3 DEF LCInv, LCShape

\* Every step keeps one live run per service and the registry exact.
LEMMA LCInvStep == LCInv /\ [LCNext]_lcVars => LCInv'
<1> USE LifecycleAssumption
<1> SUFFICES ASSUME LCInv, [LCNext]_lcVars PROVE LCInv'
  OBVIOUS
<1>0. LCTypeOK /\ LCTypeOK'
  BY LCTypeStep DEF LCInv
<1>1. ASSUME NEW s \in Service, NEW r \in Run, LaunchInitial(s, r) PROVE LCShape'
  <2>1. OneLive'
    BY <1>0, <1>1 DEF LCInv, LCShape, LCTypeOK, LaunchInitial, OneLive, RunShape, Live, UnderWay, Launching, Serving
  <2>2. RunShape'
    BY <1>0, <1>1 DEF LCInv, LCShape, LCTypeOK, LaunchInitial, RunShape, Running, Serving
  <2>3. RegistryExact' /\ RegistrySound'
    BY <1>0, <1>1 DEF LCInv, LCShape, LCTypeOK, LaunchInitial, RegistryExact, RegistrySound, Serving
  <2> QED BY <2>1, <2>2, <2>3 DEF LCShape
<1>2. ASSUME NEW r \in Run, RunStep(r) PROVE LCShape'
  <2> USE <1>0 DEF LCInv, LCShape, LCTypeOK
  <2>1. CASE CheckShutdown(r)
    <3>1. OneLive'
      BY <2>1 DEF CheckShutdown, OneLive, Live, UnderWay, Launching, Serving
    <3>2. RunShape'
      BY <2>1 DEF CheckShutdown, RunShape, Running, UnderWay, Launching, Serving
    <3>3. RegistryExact' /\ RegistrySound'
      BY <2>1 DEF CheckShutdown, RegistryExact, RegistrySound, OneLive, Live, UnderWay, Launching, Serving
    <3> QED BY <3>1, <3>2, <3>3 DEF LCShape
  <2>2. CASE SpawnFails(r)
    <3>1. OneLive'
      BY <2>2 DEF SpawnFails, OneLive, Live, UnderWay, Launching, Serving
    <3>2. RunShape'
      BY <2>2 DEF SpawnFails, RunShape, Running, UnderWay, Launching, Serving
    <3>3. RegistryExact' /\ RegistrySound'
      BY <2>2 DEF SpawnFails, RegistryExact, RegistrySound, OneLive, Live, UnderWay, Launching, Serving
    <3> QED BY <3>1, <3>2, <3>3 DEF LCShape
  <2>3. CASE Spawn(r)
    <3>1. OneLive'
      BY <2>3 DEF Spawn, OneLive, Live, UnderWay, Launching, Serving
    <3>2. RunShape'
      BY <2>3 DEF Spawn, RunShape, Running, UnderWay, Launching, Serving
    <3>3. RegistryExact' /\ RegistrySound'
      BY <2>3 DEF Spawn, RegistryExact, RegistrySound, OneLive, Live, UnderWay, Launching, Serving
    <3> QED BY <3>1, <3>2, <3>3 DEF LCShape
  <2>4. CASE AddActiveService(r)
    <3>1. OneLive'
      BY <2>4 DEF AddActiveService, OneLive, Live, UnderWay, Launching, Serving
    <3>2. RunShape'
      BY <2>4 DEF AddActiveService, RunShape, Running, UnderWay, Launching, Serving
    <3>3. RegistryExact' /\ RegistrySound'
      BY <2>4 DEF AddActiveService, RegistryExact, RegistrySound, OneLive, Live, UnderWay, Launching, Serving
    <3> QED BY <3>1, <3>2, <3>3 DEF LCShape
  <2>5. CASE Announce(r)
    <3>1. OneLive'
      BY <2>5 DEF Announce, OneLive, Live, UnderWay, Launching, Serving
    <3>2. RunShape'
      BY <2>5 DEF Announce, RunShape, Running, UnderWay, Launching, Serving
    <3>3. RegistryExact' /\ RegistrySound'
      BY <2>5 DEF Announce, RegistryExact, RegistrySound, OneLive, Live, UnderWay, Launching, Serving
    <3> QED BY <3>1, <3>2, <3>3 DEF LCShape
  <2>6. CASE ObserveExit(r)
    <3>1. OneLive'
      BY <2>6 DEF ObserveExit, OneLive, Live, UnderWay, Launching, Serving
    <3>2. RunShape'
      BY <2>6 DEF ObserveExit, RunShape, Running, UnderWay, Launching, Serving
    <3>3. RegistryExact' /\ RegistrySound'
      BY <2>6 DEF ObserveExit, RegistryExact, RegistrySound, OneLive, Live, UnderWay, Launching, Serving
    <3> QED BY <3>1, <3>2, <3>3 DEF LCShape
  <2>7. CASE ObserveCancel(r)
    <3>1. OneLive'
      BY <2>7 DEF ObserveCancel, OneLive, Live, UnderWay, Launching, Serving
    <3>2. RunShape'
      BY <2>7 DEF ObserveCancel, RunShape, Running, UnderWay, Launching, Serving
    <3>3. RegistryExact' /\ RegistrySound'
      BY <2>7 DEF ObserveCancel, RegistryExact, RegistrySound, OneLive, Live, UnderWay, Launching, Serving
    <3> QED BY <3>1, <3>2, <3>3 DEF LCShape
  <2>8. CASE StopTimeout(r)
    <3>1. OneLive'
      BY <2>8 DEF StopTimeout, OneLive, Live, UnderWay, Launching, Serving
    <3>2. RunShape'
      BY <2>8 DEF StopTimeout, RunShape, Running, UnderWay, Launching, Serving
    <3>3. RegistryExact' /\ RegistrySound'
      BY <2>8 DEF StopTimeout, RegistryExact, RegistrySound, OneLive, Live, UnderWay, Launching, Serving
    <3> QED BY <3>1, <3>2, <3>3 DEF LCShape
  <2>9. CASE ObserveStopped(r)
    <3>1. OneLive'
      BY <2>9 DEF ObserveStopped, OneLive, Live, UnderWay, Launching, Serving
    <3>2. RunShape'
      BY <2>9 DEF ObserveStopped, RunShape, Running, UnderWay, Launching, Serving
    <3>3. RegistryExact' /\ RegistrySound'
      BY <2>9 DEF ObserveStopped, RegistryExact, RegistrySound, OneLive, Live, UnderWay, Launching, Serving
    <3> QED BY <3>1, <3>2, <3>3 DEF LCShape
  <2>10. CASE ReadIntent(r)
    <3>1. OneLive'
      BY <2>10 DEF ReadIntent, OneLive, Live, UnderWay, Launching, Serving
    <3>2. RunShape'
      BY <2>10 DEF ReadIntent, RunShape, Running, UnderWay, Launching, Serving
    <3>3. RegistryExact' /\ RegistrySound'
      BY <2>10 DEF ReadIntent, RegistryExact, RegistrySound, OneLive, Live, UnderWay, Launching, Serving
    <3> QED BY <3>1, <3>2, <3>3 DEF LCShape
  <2>11. CASE RemoveActiveService(r)
    <3>1. OneLive'
      BY <2>11 DEF RemoveActiveService, OneLive, Live, UnderWay, Launching, Serving
    <3>2. RunShape'
      BY <2>11 DEF RemoveActiveService, RunShape, Running, UnderWay, Launching, Serving
    <3>3. RegistryExact' /\ RegistrySound'
      BY <2>11 DEF RemoveActiveService, RegistryExact, RegistrySound, OneLive, Live, UnderWay, Launching, Serving
    <3> QED BY <3>1, <3>2, <3>3 DEF LCShape
  <2>12. CASE Decide(r)
    <3>1. OneLive'
      BY <2>12 DEF Decide, FinishStopped, FinishOperator, FinishByPolicy, ReturnPC, OneLive, Live, UnderWay, Launching, Serving
    <3>2. RunShape'
      BY <2>12 DEF Decide, FinishStopped, FinishOperator, FinishByPolicy, ReturnPC, RunShape, Running, UnderWay, Launching, Serving
    <3>3. RegistryExact' /\ RegistrySound'
      BY <2>12 DEF Decide, FinishStopped, FinishOperator, FinishByPolicy, ReturnPC, RegistryExact, RegistrySound, OneLive, Live, UnderWay, Launching, Serving
    <3> QED BY <3>1, <3>2, <3>3 DEF LCShape
  <2>13. CASE IncrementRestartCount(r)
    <3>1. OneLive'
      BY <2>13 DEF IncrementRestartCount, ReturnPC, OneLive, Live, UnderWay, Launching, Serving
    <3>2. RunShape'
      BY <2>13 DEF IncrementRestartCount, ReturnPC, RunShape, Running, UnderWay, Launching, Serving
    <3>3. RegistryExact' /\ RegistrySound'
      BY <2>13 DEF IncrementRestartCount, ReturnPC, RegistryExact, RegistrySound, OneLive, Live, UnderWay, Launching, Serving
    <3> QED BY <3>1, <3>2, <3>3 DEF LCShape
  <2>14. CASE Trigger(r)
    <3>1. OneLive'
      BY <2>14 DEF Trigger, OneLive, Live, UnderWay, Launching, Serving
    <3>2. RunShape'
      BY <2>14 DEF Trigger, RunShape, Running, UnderWay, Launching, Serving
    <3>3. RegistryExact' /\ RegistrySound'
      BY <2>14 DEF Trigger, RegistryExact, RegistrySound, OneLive, Live, UnderWay, Launching, Serving
    <3> QED BY <3>1, <3>2, <3>3 DEF LCShape
  <2>15. CASE TriggerReturns(r)
    <3>1. OneLive'
      BY <2>15 DEF TriggerReturns, ReturnPC, OneLive, Live, UnderWay, Launching, Serving
    <3>2. RunShape'
      BY <2>15 DEF TriggerReturns, ReturnPC, RunShape, Running, UnderWay, Launching, Serving
    <3>3. RegistryExact' /\ RegistrySound'
      BY <2>15 DEF TriggerReturns, ReturnPC, RegistryExact, RegistrySound, OneLive, Live, UnderWay, Launching, Serving
    <3> QED BY <3>1, <3>2, <3>3 DEF LCShape
  <2> QED BY <1>2, <2>1, <2>2, <2>3, <2>4, <2>5, <2>6, <2>7, <2>8, <2>9, <2>10,
             <2>11, <2>12, <2>13, <2>14, <2>15 DEF RunStep
<1>3. ASSUME NEW r \in Run, SkipRestart(r) PROVE LCShape'
  BY <1>0, <1>3 DEF SkipRestart, LCInv, LCShape, LCTypeOK, OneLive, Live, RunShape, Running, RegistryExact, RegistrySound
<1>4. ASSUME NEW r \in Run, NEW q \in Run, RestartServiceInternal(r, q) PROVE LCShape'
  <2>1. OneLive'
    BY <1>0, <1>4 DEF LCInv, LCShape, LCTypeOK, RestartServiceInternal, OneLive, RunShape, Live, UnderWay, Launching, Serving
  <2>2. RunShape'
    BY <1>0, <1>4 DEF LCInv, LCShape, LCTypeOK, RestartServiceInternal, RunShape, Running, Serving
  <2>3. RegistryExact' /\ RegistrySound'
    BY <1>0, <1>4 DEF LCInv, LCShape, LCTypeOK, RestartServiceInternal, RegistryExact, RegistrySound, Serving
  <2> QED BY <2>1, <2>2, <2>3 DEF LCShape
<1>5. ASSUME NEW r \in Run, NEW err \in BOOLEAN, ProcessExits(r, err) PROVE LCShape'
  BY <1>0, <1>5 DEF ProcessExits, LCInv, LCShape, LCTypeOK, OneLive, Live, RunShape, Running, RegistryExact, RegistrySound
<1>6. ASSUME NEW r \in Run, NEW i \in {"policy", "operator"}, RequestStop(r, i) PROVE LCShape'
  BY <1>0, <1>6 DEF RequestStop, LCInv, LCShape, LCTypeOK, OneLive, Live, RunShape, Running, RegistryExact, RegistrySound
<1>7. ASSUME ForceKill(Registered) PROVE LCShape'
  BY <1>0, <1>7 DEF ForceKill, LCInv, LCShape, LCTypeOK, OneLive, Live, RunShape, Running, RegistryExact, RegistrySound
<1>8. ASSUME CancelShutdown PROVE LCShape'
  BY <1>0, <1>8 DEF CancelShutdown, LCInv, LCShape, LCTypeOK, OneLive, Live, RunShape, Running, RegistryExact, RegistrySound
<1>9. ASSUME UNCHANGED lcVars PROVE LCShape'
  BY <1>0, <1>9 DEF lcVars, LCInv, LCShape, LCTypeOK, OneLive, Live, RunShape, Running, RegistryExact, RegistrySound
<1>10. LCShape'
  <2>1. CASE \E s \in Service, r \in Run : LaunchInitial(s, r)
    BY <1>1, <2>1
  <2>2. ASSUME NEW r \in Run, RunStep(r) \/ TimerStep(r) \/ EnvStep(r) PROVE LCShape'
    BY <1>2, <1>3, <1>4, <1>5, <1>6, <2>2 DEF TimerStep, EnvStep
  <2> QED
    BY <1>7, <1>8, <1>9, <2>1, <2>2 DEF LCNext
<1> QED
  BY <1>0, <1>10 DEF LCInv

\* The inductive invariant holds of every behaviour.
LEMMA LCInvariant == LCSpec => []LCInv
  BY LCInvInit, LCInvStep, PTL DEF LCSpec

\* A process belongs to a live run, and only one run of a service is live.
THEOREM OneInstance == LCSpec => []SingleInstance
<1>1. LCInv => SingleInstance
  BY DEF LCInv, LCShape, OneLive, RunShape, SingleInstance, Live, UnderWay, Launching, Serving
<1> QED
  BY <1>1, LCInvariant, PTL

\* The registry lists a run exactly from its registration to its removal.
THEOREM RegistryCorrect == LCSpec => []RegistryExact
<1>1. LCInv => RegistryExact
  BY DEF LCInv, LCShape
<1> QED
  BY <1>1, LCInvariant, PTL
-----------------------------------------------------------------------------
(* The WaitGroup.                                                          *)

\* Only registration and removal touch the registry and the WaitGroup, and
\* each touches the entry of one service that is absent, or present.
LEMMA RegistrySteps ==
  ASSUME LCInv, [LCNext]_lcVars
  PROVE  \/ UNCHANGED <<active, wg>>
         \/ \E s \in Service, r \in Run :
              active[s] = None /\ active' = [active EXCEPT ![s] = r] /\ wg' = wg + 1
         \/ \E s \in Service :
              active[s] # None /\ active' = [active EXCEPT ![s] = None] /\ wg' = wg - 1
<1> USE LifecycleAssumption DEF LCInv, LCTypeOK
<1> DEFINE Added(s, r) ==
      active[s] = None /\ active' = [active EXCEPT ![s] = r] /\ wg' = wg + 1
<1> DEFINE Removed(s) ==
      active[s] # None /\ active' = [active EXCEPT ![s] = None] /\ wg' = wg - 1
<1>1. ASSUME NEW r \in Run, AddActiveService(r) PROVE Added(SvcOf[r], r)
  <2>1. pc[r] = "spawned" /\ SvcOf[r] \in Service
    BY <1>1 DEF AddActiveService
  <2>2. active[SvcOf[r]] = None
    <3> SUFFICES ASSUME active[SvcOf[r]] # None PROVE FALSE
      OBVIOUS
    <3> DEFINE q == active[SvcOf[r]]
    <3>1. q \in Run /\ SvcOf[q] = SvcOf[r]
      BY <2>1 DEF LCShape, RegistrySound
    <3>2. pc[q] \in Serving \cup {"finishing", "removing"}
      BY <3>1 DEF LCShape, RegistryExact
    <3>3. Live(q) /\ Live(r) /\ q # r
      BY <2>1, <3>2 DEF Live, UnderWay, Launching, Serving
    <3> QED BY <3>1, <3>3 DEF LCShape, OneLive
  <2> QED BY <1>1, <2>2 DEF AddActiveService
<1>2. ASSUME NEW r \in Run, RemoveActiveService(r) PROVE Removed(SvcOf[r])
  <2>1. active[SvcOf[r]] = r
    BY <1>2 DEF RemoveActiveService, LCShape, RegistryExact
  <2> QED BY <1>2, <2>1 DEF RemoveActiveService
<1>3. ASSUME NEW r \in Run, RunStep(r)
      PROVE  \/ UNCHANGED <<active, wg>>
             \/ Added(SvcOf[r], r)
             \/ Removed(SvcOf[r])
  BY <1>1, <1>2, <1>3
  DEF RunStep, CheckShutdown, SpawnFails, Spawn, Announce, ObserveExit, ObserveCancel,
      StopTimeout, ObserveStopped, ReadIntent, Decide, IncrementRestartCount, Trigger,
      TriggerReturns
<1>4. ASSUME \E r \in Run : RunStep(r)
      PROVE  \/ UNCHANGED <<active, wg>>
             \/ \E s \in Service, q \in Run : Added(s, q)
             \/ \E s \in Service : Removed(s)
  <2> PICK r \in Run : RunStep(r)
    BY <1>4
  <2>1. SvcOf[r] \in Service
    OBVIOUS
  <2> HIDE DEF Added, Removed
  <2> QED BY <1>3, <2>1
<1>5. CASE \E s \in Service, r \in Run : LaunchInitial(s, r)
  BY <1>5 DEF LaunchInitial
<1>6. CASE \E r \in Run : TimerStep(r) \/ EnvStep(r)
  BY <1>6 DEF TimerStep, EnvStep, SkipRestart, RestartServiceInternal, ProcessExits, RequestStop
<1>7. CASE ForceKill(Registered) \/ CancelShutdown \/ UNCHANGED lcVars
  BY <1>7 DEF ForceKill, CancelShutdown, lcVars
<1> QED
  BY <1>4, <1>5, <1>6, <1>7 DEF LCNext

\* shutdownWg.Wait returns exactly when no service is registered, and Done
\* never drives it below zero (which would panic).
THEOREM WaitGroupCorrect == LCSpec => []WaitGroupExact
<1> DEFINE Listed == {s \in Service : active[s] # None}
<1>1. LCInit => WaitGroupExact
  <2> SUFFICES ASSUME LCInit PROVE wg = Cardinality(Listed)
    BY DEF WaitGroupExact
  <2>1. Listed = {} /\ wg = 0
    BY DEF LCInit
  <2> QED BY <2>1, FS_EmptySet
<1>2. LCInv /\ WaitGroupExact /\ [LCNext]_lcVars => WaitGroupExact'
  <2> SUFFICES ASSUME LCInv, WaitGroupExact, [LCNext]_lcVars PROVE WaitGroupExact'
    OBVIOUS
  <2>1. IsFiniteSet(Listed) /\ wg = Cardinality(Listed) /\ active \in [Service -> Run \cup {None}]
    BY FiniteServices, FS_Subset DEF WaitGroupExact, LCInv, LCTypeOK
  <2>2. CASE UNCHANGED <<active, wg>>
    BY <2>1, <2>2 DEF WaitGroupExact
  <2>3. ASSUME NEW s \in Service, NEW r \in Run, active[s] = None,
               active' = [active EXCEPT ![s] = r], wg' = wg + 1
        PROVE  WaitGroupExact'
    <3>1. s \notin Listed /\ Listed' = Listed \cup {s}
      BY <2>1, <2>3, LifecycleAssumption
    <3> QED BY <2>1, <2>3, <3>1, FS_AddElement DEF WaitGroupExact
  <2>4. ASSUME NEW s \in Service, active[s] # None,
               active' = [active EXCEPT ![s] = None], wg' = wg - 1
        PROVE  WaitGroupExact'
    <3>1. s \in Listed /\ Listed' = Listed \ {s}
      BY <2>1, <2>4
    <3> QED BY <2>1, <2>4, <3>1, FS_RemoveElement DEF WaitGroupExact
  <2> QED BY <2>2, <2>3, <2>4, RegistrySteps
<1> QED
  BY <1>1, <1>2, LCInvariant, PTL DEF LCSpec
-----------------------------------------------------------------------------
(* The restart counters.                                                   *)

\* No restart is counted before the first launch.
LEMMA CountersInit == LCInit => CountersInv
  BY LifecycleAssumption DEF LCInit, CountersInv

\* The check in shouldRestart and the later increment stay within the budget.
LEMMA CountersStep == LCInv /\ CountersInv /\ [LCNext]_lcVars => CountersInv'
<1> USE LifecycleAssumption
<1> SUFFICES ASSUME LCInv, CountersInv, [LCNext]_lcVars PROVE CountersInv'
  OBVIOUS
<1>0. LCTypeOK /\ OneLive /\ RunShape
  BY DEF LCInv, LCShape
<1>1. ASSUME NEW r \in Run, FinishOperator(r), Decide(r) PROVE CountersInv'
  BY <1>0, <1>1
  DEF FinishOperator, Decide, CountersInv, LCTypeOK, OneLive, Live, UnderWay
<1>2. ASSUME NEW r \in Run, FinishStopped(r) \/ FinishByPolicy(r), Decide(r)
      PROVE  CountersInv'
  BY <1>0, <1>2
  DEF FinishStopped, FinishByPolicy, ShouldRestart, ReturnPC, Exhausted, Decide,
      CountersInv, LCTypeOK
<1>3. ASSUME NEW r \in Run, IncrementRestartCount(r) PROVE CountersInv'
  BY <1>0, <1>3
  DEF IncrementRestartCount, ReturnPC, CountersInv, LCTypeOK, OneLive, Live, UnderWay
<1>4. ASSUME NEW r \in Run, ReadIntent(r) PROVE CountersInv'
  BY <1>0, <1>4 DEF ReadIntent, CountersInv, LCTypeOK, RunShape
<1>5. ASSUME NEW r \in Run, NEW q \in Run, RestartServiceInternal(r, q)
      PROVE  CountersInv'
  BY <1>0, <1>5
  DEF RestartServiceInternal, CountersInv, LCTypeOK, OneLive, Live, RunShape
<1>6. ASSUME NEW r \in Run,
             \/ CheckShutdown(r) \/ SpawnFails(r) \/ Spawn(r) \/ AddActiveService(r)
             \/ Announce(r) \/ ObserveExit(r) \/ ObserveCancel(r)
             \/ StopTimeout(r) \/ ObserveStopped(r) \/ RemoveActiveService(r)
             \/ Trigger(r) \/ TriggerReturns(r)
      PROVE  CountersInv'
  BY <1>0, <1>6
  DEF CheckShutdown, SpawnFails, Spawn, AddActiveService, Announce, ObserveExit,
      ObserveCancel, StopTimeout, ObserveStopped, RemoveActiveService, Trigger,
      TriggerReturns, ReturnPC, CountersInv, LCTypeOK
<1>7. ASSUME NEW r \in Run, RunStep(r) PROVE CountersInv'
  BY <1>1, <1>2, <1>3, <1>4, <1>6, <1>7 DEF RunStep, Decide
<1>8. ASSUME NEW r \in Run, TimerStep(r) \/ EnvStep(r) PROVE CountersInv'
  <2>1. CASE SkipRestart(r) \/ EnvStep(r)
    BY <1>0, <2>1 DEF SkipRestart, EnvStep, ProcessExits, RequestStop, CountersInv, LCTypeOK
  <2> QED BY <1>5, <1>8, <2>1 DEF TimerStep
<1>9. ASSUME NEW s \in Service, NEW r \in Run, LaunchInitial(s, r) PROVE CountersInv'
  BY <1>0, <1>9 DEF LaunchInitial, CountersInv, LCTypeOK
<1>10. CASE ForceKill(Registered) \/ CancelShutdown \/ UNCHANGED lcVars
  BY <1>10 DEF ForceKill, CancelShutdown, lcVars, CountersInv
<1> QED
  BY <1>7, <1>8, <1>9, <1>10 DEF LCNext

\* max_restarts is never exceeded, though handleServiceExit reads the counter
\* in one critical section and increments it in another.
THEOREM BudgetKept == LCSpec => []RestartBudget
<1>1. LCTypeOK /\ CountersInv => RestartBudget
  BY LifecycleAssumption DEF LCTypeOK, CountersInv, RestartBudget
<1>2. LCInv => LCTypeOK
  BY DEF LCInv
<1> QED
  BY <1>1, <1>2, CountersInit, CountersStep, LCInvariant, PTL DEF LCSpec

\* The timers of one service do not overlap, nor does one with a run under way.
LEMMA OneTimer ==
  ASSUME LCTypeOK, OneLive, NEW r \in Run, Live(r),
         NEW q \in Run, SvcOf[q] = SvcOf[r], q # r
  PROVE  timer[q] # "armed"
  BY DEF OneLive, Live

\* Every step keeps the counter equal to the restarts made or armed.
LEMMA AccountsStep ==
  LCInv /\ CountersInv /\ AccountsInv /\ [LCNext]_lcVars => AccountsInv'
<1> USE LifecycleAssumption
<1> SUFFICES ASSUME LCInv, CountersInv, AccountsInv, [LCNext]_lcVars PROVE AccountsInv'
  OBVIOUS
<1>0. LCTypeOK /\ OneLive /\ RunShape
  BY DEF LCInv, LCShape
<1>1. ASSUME NEW r \in Run, FinishOperator(r), Decide(r) PROVE AccountsInv'
  <2>1. Live(r) /\ pc[r] = "deciding"
    BY <1>1 DEF Decide, Live, UnderWay
  <2>2. ArmedByPolicy(SvcOf[r])' = {}
    BY <1>0, <1>1, <2>1, OneTimer DEF FinishOperator, Decide, LCTypeOK, ArmedByPolicy
  <2>3. ASSUME NEW s \in Service, s # SvcOf[r] PROVE ArmedByPolicy(s)' = ArmedByPolicy(s)
    BY <1>0, <1>1, <2>3 DEF FinishOperator, Decide, LCTypeOK, ArmedByPolicy
  <2> QED
    BY <1>0, <1>1, <2>2, <2>3 DEF FinishOperator, Decide, LCTypeOK, AccountsInv
<1>2. ASSUME NEW r \in Run, IncrementRestartCount(r) PROVE AccountsInv'
  <2>1. Live(r) /\ timer[r] # "armed" /\ seen[r] # "operator"
    BY <1>0, <1>2 DEF IncrementRestartCount, Live, UnderWay, RunShape, CountersInv
  <2>2. ArmedByPolicy(SvcOf[r]) = {}
    BY <1>0, <2>1, OneTimer DEF ArmedByPolicy
  <2>3. r \in ArmedByPolicy(SvcOf[r])'
    BY <1>0, <1>2, <2>1 DEF IncrementRestartCount, LCTypeOK, ArmedByPolicy
  <2>4. ASSUME NEW s \in Service, s # SvcOf[r] PROVE ArmedByPolicy(s)' = ArmedByPolicy(s)
    BY <1>0, <1>2, <2>4 DEF IncrementRestartCount, LCTypeOK, ArmedByPolicy
  <2> QED
    BY <1>0, <1>2, <2>2, <2>3, <2>4 DEF IncrementRestartCount, LCTypeOK, AccountsInv
<1>3. ASSUME NEW r \in Run, NEW q \in Run, RestartServiceInternal(r, q) PROVE AccountsInv'
  <2>1. Live(r)
    BY <1>3 DEF RestartServiceInternal, Live
  <2>2. ArmedByPolicy(SvcOf[r])' = {}
    BY <1>0, <1>3, <2>1, OneTimer DEF RestartServiceInternal, LCTypeOK, ArmedByPolicy
  <2>3. ArmedByPolicy(SvcOf[r]) = {} <=> seen[r] = "operator"
    BY <1>0, <1>3, <2>1, OneTimer DEF RestartServiceInternal, ArmedByPolicy
  <2>4. ASSUME NEW s \in Service, s # SvcOf[r] PROVE ArmedByPolicy(s)' = ArmedByPolicy(s)
    BY <1>0, <1>3, <2>4 DEF RestartServiceInternal, LCTypeOK, ArmedByPolicy
  <2> QED
    BY <1>0, <1>3, <2>2, <2>3, <2>4 DEF RestartServiceInternal, LCTypeOK, AccountsInv
<1>4. ASSUME NEW r \in Run, ReadIntent(r) PROVE AccountsInv'
  <2>1. ASSUME NEW s \in Service PROVE ArmedByPolicy(s)' = ArmedByPolicy(s)
    BY <1>0, <1>4 DEF ReadIntent, LCTypeOK, RunShape, ArmedByPolicy
  <2> QED BY <1>4, <2>1 DEF ReadIntent, AccountsInv
<1>5. CASE cancelled'
  BY <1>5 DEF AccountsInv
<1>6. ASSUME UNCHANGED <<timer, seen, counts, relaunched, cancelled>> PROVE AccountsInv'
  <2>1. ASSUME NEW s \in Service PROVE ArmedByPolicy(s)' = ArmedByPolicy(s)
    BY <1>6 DEF ArmedByPolicy
  <2> QED BY <1>6, <2>1 DEF AccountsInv
<1>7. ASSUME NEW r \in Run, RunStep(r) PROVE AccountsInv'
  <2>1. CASE Decide(r)
    BY <1>1, <1>6, <2>1 DEF Decide, FinishStopped, FinishByPolicy
  <2> QED
    BY <1>2, <1>4, <1>6, <1>7, <2>1
    DEF RunStep, CheckShutdown, SpawnFails, Spawn, AddActiveService, Announce, ObserveExit,
        ObserveCancel, StopTimeout, ObserveStopped, RemoveActiveService, Trigger, TriggerReturns
<1>8. ASSUME NEW r \in Run, TimerStep(r) \/ EnvStep(r) PROVE AccountsInv'
  BY <1>3, <1>5, <1>6, <1>8 DEF TimerStep, EnvStep, SkipRestart, ProcessExits, RequestStop
<1>9. ASSUME NEW s \in Service, NEW r \in Run, LaunchInitial(s, r) PROVE AccountsInv'
  BY <1>6, <1>9 DEF LaunchInitial
<1>10. CASE ForceKill(Registered) \/ CancelShutdown \/ UNCHANGED lcVars
  BY <1>5, <1>6, <1>10 DEF ForceKill, CancelShutdown, lcVars
<1> QED
  BY <1>7, <1>8, <1>9, <1>10 DEF LCNext

\* Until the shutdown begins, the counter of a service is the number of policy
\* restarts made or armed since the operator last restarted it.
THEOREM RestartsAccounted == LCSpec => []RestartAccounting
<1>1. LCInit => AccountsInv
  BY DEF LCInit, AccountsInv, ArmedByPolicy
<1>2. LCInv /\ AccountsInv => RestartAccounting
  <2> SUFFICES ASSUME LCInv, AccountsInv, NEW s \in Service, ~cancelled
               PROVE  counts[s] = relaunched[s] + Cardinality(ArmedByPolicy(s))
    BY DEF RestartAccounting
  <2>1. CASE ArmedByPolicy(s) = {}
    BY <2>1, FS_EmptySet DEF AccountsInv
  <2>2. CASE ArmedByPolicy(s) # {}
    <3> PICK r : r \in ArmedByPolicy(s)
      BY <2>2
    <3>1. ArmedByPolicy(s) = {r}
      BY OneTimer DEF LCInv, LCShape, ArmedByPolicy, Live
    <3> QED BY <2>2, <3>1, FS_Singleton DEF AccountsInv
  <2> QED BY <2>1, <2>2
<1> QED
  BY <1>1, <1>2, CountersInit, CountersStep, AccountsStep, LCInvInit, LCInvStep, PTL DEF LCSpec
=============================================================================
