--------------------------- MODULE ContractProofs ---------------------------
(***************************************************************************)
(* Lifecycle implements Contract: a proof of the refinement.  Since at     *)
(* most one run of a service is live, the phase of the service is decided  *)
(* by that run alone, and each step of it is a step of the service or none.*)
(***************************************************************************)
EXTENDS LifecycleProofs

Phases == [s \in Service |-> Phase(s)]

-----------------------------------------------------------------------------
(* How the phases follow the runs.                                         *)

\* A service none of whose runs changes its part stays in its phase.
LEMMA PhaseFrame ==
  ASSUME NEW s \in Service,
         \A r \in Run : SvcOf[r] = s => /\ pc'[r] \in UnderWay <=> pc[r] \in UnderWay
                                        /\ timer'[r] = "armed" <=> timer[r] = "armed",
         first'[s] = first[s]
  PROVE  Phase(s)' = Phase(s)
<1>1. UnderWay' = UnderWay
  BY DEF UnderWay, Launching, Serving
<1>2. Up(s)' <=> Up(s)
  BY <1>1 DEF Up
<1>3. Backoff(s)' <=> Backoff(s)
  BY DEF Backoff
<1> QED BY <1>2, <1>3 DEF Phase

\* If no service changes its phase, the mapped variable keeps its value.
LEMMA PhasesFrame ==
  ASSUME \A s \in Service : Phase(s)' = Phase(s)
  PROVE  Phases' = Phases
  BY DEF Phases

\* If one service changes its phase, the mapped function changes there only.
LEMMA PhasesChange ==
  ASSUME NEW s \in Service, NEW p, Phase(s)' = p,
         \A t \in Service : t # s => Phase(t)' = Phase(t)
  PROVE  Phases' = [Phases EXCEPT ![s] = p]
  BY DEF Phases

\* The only live run of a service decides its phase.
LEMMA PhaseOfLive ==
  ASSUME LCInv, NEW r \in Run, Live(r)
  PROVE  Phase(SvcOf[r]) = IF pc[r] \in UnderWay THEN "up" ELSE "backoff"
  BY DEF LCInv, LCShape, OneLive, Live, Phase, Up, Backoff

\* A run under way that leaves leaves its service down or in backoff.
LEMMA RunLeaves ==
  ASSUME LCInv, NEW r \in Run, pc[r] \in UnderWay,
         NEW x \in PC, x \notin UnderWay, pc' = [pc EXCEPT ![r] = x],
         NEW armed \in BOOLEAN,
         timer' = IF armed THEN [timer EXCEPT ![r] = "armed"] ELSE timer,
         first' = first
  PROVE  /\ Phase(SvcOf[r]) = "up"
         /\ Phases' = [Phases EXCEPT ![SvcOf[r]] = IF armed THEN "backoff" ELSE "down"]
<1> USE LifecycleAssumption DEF LCInv, LCTypeOK
<1> DEFINE s == SvcOf[r]
<1>0. s \in Service
  OBVIOUS
<1>1. Phase(s) = "up" /\ Live(r)
  BY PhaseOfLive DEF Live
<1>2. \A q \in Run : SvcOf[q] = s /\ q # r => ~Live(q)
  BY <1>1 DEF LCShape, OneLive
<1>3. timer[r] # "armed" /\ first[s] # None
  BY DEF LCShape, RunShape, UnderWay, Launching, Serving
<1>4. UnderWay' = UnderWay
  BY DEF UnderWay, Launching, Serving
<1>5. ~Up(s)'
  BY <1>2, <1>4 DEF Up, Live
<1>6. Backoff(s)' <=> armed
  BY <1>2, <1>3 DEF Backoff, Live
<1>7. Phase(s)' = IF armed THEN "backoff" ELSE "down"
  BY <1>3, <1>5, <1>6 DEF Phase
<1>8. ASSUME NEW t \in Service, t # s PROVE Phase(t)' = Phase(t)
  <2>1. \A q \in Run : SvcOf[q] = t => pc'[q] = pc[q] /\ timer'[q] = timer[q]
    BY <1>8
  <2> QED BY <2>1, PhaseFrame
<1> QED BY <1>0, <1>1, <1>7, <1>8, PhasesChange

\* A run that moves while it stays under way, or stays out, changes no phase.
LEMMA RunMoves ==
  ASSUME LCTypeOK, NEW r \in Run, NEW x, pc' = [pc EXCEPT ![r] = x],
         x \in UnderWay <=> pc[r] \in UnderWay, timer' = timer, first' = first
  PROVE  Phases' = Phases
<1>1. ASSUME NEW s \in Service PROVE Phase(s)' = Phase(s)
  <2>1. \A q \in Run : /\ pc'[q] \in UnderWay <=> pc[q] \in UnderWay
                       /\ timer'[q] = "armed" <=> timer[q] = "armed"
    BY DEF LCTypeOK
  <2> QED BY <2>1, PhaseFrame
<1> QED BY <1>1, PhasesFrame

\* Phases depend on nothing but the place, the timers and the first runs.
LEMMA RunsRest ==
  ASSUME UNCHANGED <<pc, timer, first>> PROVE Phases' = Phases
  BY PhaseFrame, PhasesFrame

-----------------------------------------------------------------------------
(* The steps.                                                              *)

\* The next-state relation of Contract, under the mapping.
AbstractStep == [C!CTNext]_(C!contractVars)

\* A step that changes no phase, no counter and no cancellation is a stutter.
LEMMA Stutters ==
  ASSUME Phases' = Phases, UNCHANGED <<counts, cancelled>>
  PROVE  AbstractStep
  BY DEF AbstractStep, C!contractVars, Phases

\* The first launch of a service (processService) is Launch of Contract.
LEMMA LaunchRefines ==
  ASSUME LCInv, NEW s \in Service, NEW r \in Run, LaunchInitial(s, r)
  PROVE  AbstractStep
<1> USE LifecycleAssumption DEF LCInv, LCTypeOK, LaunchInitial
<1>1. Phase(s) = "idle"
  BY DEF LCShape, RunShape, Phase, Up, Backoff, UnderWay, Launching, Serving
<1>2. Phase(s)' = "up"
  BY DEF Phase, Up, UnderWay, Launching
<1>3. ASSUME NEW t \in Service, t # s PROVE Phase(t)' = Phase(t)
  <2>1. \A q \in Run : SvcOf[q] = t => pc'[q] = pc[q] /\ timer'[q] = timer[q]
    BY <1>3
  <2> QED BY <1>3, <2>1, PhaseFrame
<1>4. Phases' = [Phases EXCEPT ![s] = "up"]
  BY <1>2, <1>3, PhasesChange
<1>5. C!Launch(s)
  BY <1>1, <1>4 DEF C!Launch, Phases
<1> QED BY <1>5 DEF AbstractStep, C!CTNext

\* The service stays down: startService returned without a run, or the run is over.
LEMMA EndRefines ==
  ASSUME LCInv, NEW r \in Run, pc[r] \in UnderWay,
         NEW x \in PC, x \notin UnderWay, pc' = [pc EXCEPT ![r] = x],
         UNCHANGED <<timer, first, counts, cancelled>>
  PROVE  AbstractStep
<1> DEFINE s == SvcOf[r]
<1>1. s \in Service
  BY LifecycleAssumption
<1>2. /\ Phase(s) = "up"
      /\ Phases' = [Phases EXCEPT ![s] = IF FALSE THEN "backoff" ELSE "down"]
  BY RunLeaves
<1>3. C!Ends(s)
  BY <1>1, <1>2 DEF C!Ends, Phases
<1> QED BY <1>1, <1>3 DEF AbstractStep, C!CTNext

\* An end the operator asked for (finishService) is OperatorRestart of Contract.
LEMMA OperatorRefines ==
  ASSUME LCInv, NEW r \in Run, Decide(r), FinishOperator(r)
  PROVE  AbstractStep
<1> DEFINE s == SvcOf[r]
<1>1. s \in Service
  BY LifecycleAssumption
<1>2. /\ Phase(s) = "up"
      /\ Phases' = [Phases EXCEPT ![s] = IF TRUE THEN "backoff" ELSE "down"]
  BY RunLeaves DEF Decide, FinishOperator, UnderWay, Launching, Serving, PC, Returned
<1>3. counts' = [counts EXCEPT ![s] = 0] /\ cancelled' = cancelled
  BY DEF Decide, FinishOperator
<1>4. C!OperatorRestart(s)
  BY <1>1, <1>2, <1>3 DEF C!OperatorRestart, Phases
<1> QED BY <1>1, <1>4 DEF AbstractStep, C!CTNext

\* A counted restart (incrementRestartCount) is within policy and budget.
LEMMA GrantRefines ==
  ASSUME LCInv, CountersInv, NEW r \in Run, IncrementRestartCount(r)
  PROVE  AbstractStep
<1> DEFINE s == SvcOf[r]
<1>1. s \in Service
  BY LifecycleAssumption
<1>2. /\ Phase(s) = "up"
      /\ Phases' = [Phases EXCEPT ![s] = IF TRUE THEN "backoff" ELSE "down"]
  <2>1. pc[r] \in UnderWay /\ ReturnPC(r) \in PC /\ ReturnPC(r) \notin UnderWay
    BY DEF IncrementRestartCount, ReturnPC, UnderWay, Launching, Serving, PC, Returned
  <2>2. /\ pc' = [pc EXCEPT ![r] = ReturnPC(r)]
        /\ timer' = IF TRUE THEN [timer EXCEPT ![r] = "armed"] ELSE timer
        /\ first' = first
    BY DEF IncrementRestartCount
  <2> QED BY <2>1, <2>2, RunLeaves
<1>3. Restart[s] # "never" /\ (MaxRestarts[s] > 0 => counts[s] < MaxRestarts[s])
  BY DEF CountersInv, IncrementRestartCount
<1>4. counts' = [counts EXCEPT ![s] = @ + 1] /\ cancelled' = cancelled
  BY DEF IncrementRestartCount
<1>5. C!Grant(s)
  BY <1>1, <1>2, <1>3, <1>4 DEF C!Grant, Phases
<1> QED BY <1>1, <1>5 DEF AbstractStep, C!CTNext

\* What finishService decides of a run that ended is a step of Contract.
LEMMA DecideRefines ==
  ASSUME LCInv, NEW r \in Run, Decide(r)
  PROVE  AbstractStep
<1>1. pc[r] \in UnderWay /\ UNCHANGED <<first, cancelled>>
  BY DEF Decide, UnderWay
<1>2. CASE FinishStopped(r)
  BY <1>1, <1>2, EndRefines
  DEF FinishStopped, UnderWay, Launching, Serving, PC, Returned
<1>3. CASE FinishOperator(r)
  BY <1>3, OperatorRefines
<1>4. CASE FinishByPolicy(r)
  <2>1. UNCHANGED <<timer, counts>>
    BY <1>4 DEF FinishByPolicy
  <2>2. PICK x \in {"bumping", "triggering", "retExit", "retNil"} : pc' = [pc EXCEPT ![r] = x]
    BY <1>4 DEF FinishByPolicy, ReturnPC
  <2>3. CASE x = "bumping"
    <3>1. x \in UnderWay
      BY <2>3 DEF UnderWay
    <3>2. Phases' = Phases
      BY <1>1, <2>1, <2>2, <3>1, RunMoves DEF LCInv
    <3> QED BY <1>1, <2>1, <3>2, Stutters
  <2>4. CASE x # "bumping"
    <3>1. x \in PC /\ x \notin UnderWay
      BY <2>4 DEF UnderWay, Launching, Serving, PC, Ending, Returned
    <3> QED BY <1>1, <2>1, <2>2, <3>1, EndRefines
  <2> QED BY <2>3, <2>4
<1> QED BY <1>2, <1>3, <1>4 DEF Decide

\* The timer fires: the next run takes over, or the shutdown wins.
LEMMA TimerRefines ==
  ASSUME LCInv, NEW r \in Run, TimerStep(r)
  PROVE  AbstractStep
<1> USE LifecycleAssumption DEF LCInv, LCTypeOK
<1> DEFINE s == SvcOf[r]
<1>0. s \in Service
  OBVIOUS
<1>1. timer[r] = "armed" /\ pc[r] \notin UnderWay /\ Live(r) /\ first[s] # None
  BY DEF TimerStep, SkipRestart, RestartServiceInternal, LCShape, RunShape, Live, UnderWay,
         Launching, Serving
<1>2. Phase(s) = "backoff"
  BY <1>1, PhaseOfLive
<1>3. \A q \in Run : SvcOf[q] = s /\ q # r => ~Live(q)
  BY <1>1 DEF LCShape, OneLive
<1>4. UnderWay' = UnderWay
  BY DEF UnderWay, Launching, Serving
<1>5. CASE SkipRestart(r)
  <2> USE <1>5 DEF SkipRestart
  <2>1. Phase(s)' = "down"
    BY <1>1, <1>3, <1>4 DEF Phase, Up, Backoff, Live
  <2>2. ASSUME NEW t \in Service, t # s PROVE Phase(t)' = Phase(t)
    <3>1. \A q \in Run : SvcOf[q] = t => pc'[q] = pc[q] /\ timer'[q] = timer[q]
      BY <2>2
    <3> QED BY <3>1, PhaseFrame
  <2>3. Phases' = [Phases EXCEPT ![s] = "down"]
    BY <1>0, <2>1, <2>2, PhasesChange
  <2>4. C!Abandon(s)
    BY <1>0, <1>2, <2>3 DEF C!Abandon, Phases
  <2> QED BY <1>0, <2>4 DEF AbstractStep, C!CTNext
<1>6. ASSUME NEW q \in Run, RestartServiceInternal(r, q) PROVE AbstractStep
  <2> USE <1>6 DEF RestartServiceInternal
  <2>1. Phase(s)' = "up"
    BY DEF Phase, Up, UnderWay, Launching
  <2>2. ASSUME NEW t \in Service, t # s PROVE Phase(t)' = Phase(t)
    <3>1. \A p \in Run : SvcOf[p] = t => pc'[p] = pc[p] /\ timer'[p] = timer[p]
      BY <2>2
    <3> QED BY <3>1, PhaseFrame
  <2>3. Phases' = [Phases EXCEPT ![s] = "up"]
    BY <1>0, <2>1, <2>2, PhasesChange
  <2>4. C!Relaunch(s)
    BY <1>0, <1>2, <2>3 DEF C!Relaunch, Phases
  <2> QED BY <1>0, <2>4 DEF AbstractStep, C!CTNext
<1> QED BY <1>5, <1>6 DEF TimerStep
\* The other steps of a run: it returns early, or it only moves on.
LEMMA RunRefines ==
  ASSUME LCInv, CountersInv, NEW r \in Run, RunStep(r)
  PROVE  AbstractStep
<1> USE DEF UnderWay, Launching, Serving
<1>0. LCTypeOK
  BY DEF LCInv
<1>1. CASE CheckShutdown(r)
  <2>1. CASE cancelled
    BY <1>1, <2>1, EndRefines DEF CheckShutdown, PC, Returned
  <2>2. CASE ~cancelled
    <3>1. Phases' = Phases
      BY <1>0, <1>1, <2>2, RunMoves DEF CheckShutdown
    <3> QED BY <1>1, <3>1, Stutters DEF CheckShutdown
  <2> QED BY <2>1, <2>2
<1>2. CASE SpawnFails(r)
  BY <1>2, EndRefines DEF SpawnFails, PC, Returned
<1>3. CASE Decide(r)
  BY <1>3, DecideRefines
<1>4. CASE IncrementRestartCount(r)
  BY <1>4, GrantRefines
<1>5. CASE \/ Spawn(r) \/ AddActiveService(r) \/ Announce(r) \/ ObserveExit(r)
           \/ ObserveCancel(r) \/ StopTimeout(r) \/ ObserveStopped(r) \/ ReadIntent(r)
           \/ RemoveActiveService(r) \/ Trigger(r) \/ TriggerReturns(r)
  <2> USE DEF Spawn, AddActiveService, Announce, ObserveExit, ObserveCancel, StopTimeout,
              ObserveStopped, ReadIntent, RemoveActiveService, Trigger, TriggerReturns, ReturnPC
  <2>1. UNCHANGED <<timer, first, counts, cancelled>>
    BY <1>5
  <2>2. PICK x : pc' = [pc EXCEPT ![r] = x] /\ (x \in UnderWay <=> pc[r] \in UnderWay)
    BY <1>5
  <2>3. Phases' = Phases
    BY <1>0, <2>1, <2>2, RunMoves
  <2> QED BY <2>1, <2>3, Stutters
<1> QED BY <1>1, <1>2, <1>3, <1>4, <1>5 DEF RunStep

\* Every service keeps the promise of Contract: one launch, restarts within its
\* policy and budget, none once the shutdown began.
THEOREM LifecycleImplementsContract == LCSpec => ImplementsContract
<1>1. LCInit => C!CTInit
  <2> SUFFICES ASSUME LCInit PROVE C!CTInit
    OBVIOUS
  <2>1. Phases = [s \in Service |-> "idle"]
    BY DEF LCInit, Phases, Phase, Up, Backoff, UnderWay, Launching, Serving
  <2> QED BY <2>1 DEF LCInit, C!CTInit, Phases
<1>2. LCInv /\ CountersInv /\ [LCNext]_lcVars => [C!CTNext]_(C!contractVars)
  <2> SUFFICES ASSUME LCInv, CountersInv, [LCNext]_lcVars PROVE AbstractStep
    BY DEF AbstractStep
  <2>1. ASSUME NEW s \in Service, NEW r \in Run, LaunchInitial(s, r) PROVE AbstractStep
    BY <2>1, LaunchRefines
  <2>2. ASSUME NEW r \in Run, RunStep(r) PROVE AbstractStep
    BY <2>2, RunRefines
  <2>3. ASSUME NEW r \in Run, TimerStep(r) PROVE AbstractStep
    BY <2>3, TimerRefines
  <2>4. ASSUME NEW r \in Run, EnvStep(r) PROVE AbstractStep
    <3>1. UNCHANGED <<pc, timer, first, counts, cancelled>>
      BY <2>4 DEF EnvStep, ProcessExits, RequestStop
    <3> QED BY <3>1, RunsRest, Stutters
  <2>5. CASE ForceKill(Registered) \/ UNCHANGED lcVars
    <3>1. UNCHANGED <<pc, timer, first, counts, cancelled>>
      BY <2>5 DEF ForceKill, lcVars
    <3> QED BY <3>1, RunsRest, Stutters
  <2>6. CASE CancelShutdown
    <3>1. Phases' = Phases
      BY <2>6, RunsRest DEF CancelShutdown
    <3>2. C!Halt
      BY <2>6, <3>1 DEF CancelShutdown, C!Halt, Phases
    <3> QED BY <3>2 DEF AbstractStep, C!CTNext
  <2> QED BY <2>1, <2>2, <2>3, <2>4, <2>5, <2>6 DEF LCNext
<1> QED
  BY <1>1, <1>2, LCInvInit, LCInvStep, CountersInit, CountersStep, PTL
  DEF LCSpec, ImplementsContract, C!CTSpec
=============================================================================
