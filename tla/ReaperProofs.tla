---------------------------- MODULE ReaperProofs ----------------------------
(***************************************************************************)
(* Proofs about Reaper, for any set of processes and any batch size: its   *)
(* type invariant, and the safety of the exit status of every process that *)
(* was tracked in time.                                                    *)
(***************************************************************************)
EXTENDS Reaper, TLAPS

\* What the three steps of the reaper rely on: a tracked process is in the
\* registry, a peeked one has ended, and one about to be reaped was not
\* tracked when it ended, or has been collected by its owner.
OwnerShape ==
  \A t \in Task :
    /\ owner[t] = "tracked" => PidOf[t] \in childPIDs
    /\ state[t] = "none" <=> owner[t] = "off"
    /\ owner[t] \in {"waited", "done"} => state[t] = "gone"
    /\ state[t] = "gone" /\ owner[t] = "tracked" => t \in early

ReaperShape ==
  \A t \in Task : peeked = PidOf[t] =>
    /\ rp \in {"check", "reap"} => state[t] \in {"zombie", "gone"}
    /\ rp = "reap" => owner[t] # "tracked" \/ t \in early

SafeInv == StatusSafe /\ OwnerShape /\ ReaperShape

-----------------------------------------------------------------------------
\* The type invariant holds initially (the package's initial values).
LEMMA RPTypeInit == RPInit => RPTypeOK
<1> SUFFICES ASSUME RPInit PROVE RPTypeOK
  OBVIOUS
<1>1. rounds \in 0..Batch
  BY ReaperAssumption DEF RPInit
<1>2. /\ state \in [Proc -> {"none", "running", "zombie", "gone"}]
      /\ owner \in [Task -> {"off", "forked", "tracked", "waited", "done"}]
      /\ status \in [Task -> {"none", "exit", "lost"}]
  BY DEF RPInit
<1>3. sigChild \in BOOLEAN
  BY Zenon DEF RPInit
<1> QED BY <1>1, <1>2, <1>3 DEF RPInit, RPTypeOK

\* Every step keeps the type invariant (all of reapOrphans and its owners).
LEMMA RPTypeStep == RPTypeOK /\ [RPNext]_rpVars => RPTypeOK'
<1> SUFFICES ASSUME RPTypeOK, [RPNext]_rpVars PROVE RPTypeOK'
  OBVIOUS
<1> USE DEF RPTypeOK
<1>0. Task \subseteq Proc /\ Descendant \subseteq Proc /\ Batch \in Nat
      /\ \A p \in Proc : PidOf[p] \in Pid
  BY ReaperAssumption DEF Proc, Pid
<1>1. ASSUME NEW p \in Proc, Exits(p) PROVE RPTypeOK'
  <2>1. sigChild' \in BOOLEAN
    BY <1>1, Zenon DEF Exits
  <2> QED BY <1>1, <2>1 DEF Exits
<1>2. ASSUME NEW d \in Descendant, Fork(d) \/ ParentReaps(d) PROVE RPTypeOK'
  BY <1>0, <1>2 DEF Fork, ParentReaps, reaperVars
<1>3. ASSUME NEW t \in Task, Start(t) PROVE RPTypeOK'
  BY <1>0, <1>3 DEF Start, reaperVars
<1>4. ASSUME NEW t \in Task, Owner(t) PROVE RPTypeOK'
  <2>1. CASE TrackChild(t)
    BY <1>0, <2>1 DEF TrackChild, reaperVars
  <2>2. CASE Wait(t)
    BY <1>0, <2>2 DEF Wait, reaperVars
  <2>3. CASE UntrackChild(t)
    BY <1>0, <2>3 DEF UntrackChild, reaperVars
  <2> QED BY <1>4, <2>1, <2>2, <2>3 DEF Owner
<1>5. CASE OnSigChild \/ OnTick
  <2>1. /\ rp' = "peek" /\ rounds' = 0
        /\ UNCHANGED <<state, owner, childPIDs, status, early, peeked>>
    BY <1>5 DEF OnSigChild, OnTick, StartBatch
  <2>2. sigChild' \in BOOLEAN
    BY <1>5, Zenon DEF OnSigChild, OnTick
  <2> QED BY <1>0, <2>1, <2>2
<1>6. CASE PeekExitedChild
  BY <1>0, <1>6 DEF PeekExitedChild, EndBatch, Zombie
<1>7. CASE AskTracked
  BY <1>7 DEF AskTracked, EndBatch
<1>8. CASE ReapPeeked
  <2>0. UNCHANGED <<owner, childPIDs, status, early, sigChild>>
    BY <1>8 DEF ReapPeeked
  <2>1. CASE EndBatch /\ UNCHANGED state
    BY <2>0, <2>1 DEF EndBatch
  <2>2. CASE /\ rp' = "peek" /\ peeked' = 0 /\ rounds' = rounds + 1
             /\ \E p \in Proc : state' = [state EXCEPT ![p] = "gone"]
    <3>1. rounds < Batch
      BY <1>8 DEF ReapPeeked
    <3> QED BY <1>0, <2>0, <2>2, <3>1
  <2> QED BY <1>8, <2>1, <2>2 DEF ReapPeeked, Zombie
<1>9. CASE UNCHANGED rpVars
  BY <1>9 DEF rpVars
<1> QED BY <1>1, <1>2, <1>3, <1>4, <1>5, <1>6, <1>7, <1>8, <1>9 DEF RPNext, Processes, Reaper, ReapOrphans

\* Theorem: every variable of the reaper, the owners and the kernel keeps its
\* type, and no batch exceeds reaperMaxBatch (reapOrphans).
THEOREM ReaperTypeCorrect == RPSpec => []RPTypeOK
<1>1. RPInit => RPTypeOK
  BY RPTypeInit
<1>2. RPTypeOK /\ [RPNext]_rpVars => RPTypeOK'
  BY RPTypeStep
<1> QED BY <1>1, <1>2, PTL DEF RPSpec

-----------------------------------------------------------------------------
\* Nothing is tracked, peeked or lost at the start.
LEMMA SafeInvInit == RPInit => SafeInv
  BY DEF RPInit, SafeInv, StatusSafe, OwnerShape, ReaperShape, Proc

\* Every step keeps SafeInv as long as PIDs are not reused (trackChild,
\* cmd.Wait, untrackChild, and the three steps of reapOrphans).
LEMMA SafeInvStep ==
  ASSUME NoReuse, RPTypeOK, SafeInv, [RPNext]_rpVars
  PROVE  SafeInv'
<1> USE DEF SafeInv, StatusSafe, OwnerShape, ReaperShape, RPTypeOK
<1>0. /\ Task \subseteq Proc /\ Descendant \subseteq Proc
      /\ \A d \in Descendant : d \notin Task
      /\ \A p, q \in Proc : PidOf[p] = PidOf[q] => p = q
  BY ReaperAssumption DEF Proc, NoReuse
<1>1. ASSUME NEW p \in Proc, Exits(p) PROVE SafeInv'
  BY <1>0, <1>1 DEF Exits
<1>2. ASSUME NEW d \in Descendant, Fork(d) \/ ParentReaps(d) PROVE SafeInv'
  BY <1>0, <1>2 DEF Fork, ParentReaps, reaperVars
<1>3. ASSUME NEW t \in Task, Start(t) PROVE SafeInv'
  BY <1>0, <1>3 DEF Start, reaperVars
<1>4. ASSUME NEW t \in Task, Owner(t) PROVE SafeInv'
  <2>1. CASE TrackChild(t)
    BY <1>0, <2>1 DEF TrackChild, reaperVars
  <2>2. CASE Wait(t)
    BY <1>0, <2>2 DEF Wait, reaperVars
  <2>3. CASE UntrackChild(t)
    BY <1>0, <2>3 DEF UntrackChild, reaperVars
  <2> QED BY <1>4, <2>1, <2>2, <2>3 DEF Owner
<1>5. CASE OnSigChild \/ OnTick
  BY <1>0, <1>5 DEF OnSigChild, OnTick, StartBatch
<1>6. CASE PeekExitedChild
  BY <1>0, <1>6 DEF PeekExitedChild, EndBatch, Zombie
<1>7. CASE AskTracked
  BY <1>0, <1>7 DEF AskTracked, EndBatch
<1>8. CASE ReapPeeked
  BY <1>0, <1>8 DEF ReapPeeked, EndBatch, Zombie
<1>9. CASE UNCHANGED rpVars
  BY <1>9 DEF rpVars
<1> QED BY <1>1, <1>2, <1>3, <1>4, <1>5, <1>6, <1>7, <1>8, <1>9 DEF RPNext, Processes, Reaper, ReapOrphans

\* Theorem: while PIDs are not reused, an exit status is lost only if the
\* process ended before trackChild ran (reapOrphans, startService, runTracked).
THEOREM TrackedStatusIsSafe ==
  ASSUME NoReuse
  PROVE  RPSpec => []StatusSafe
<1>1. RPInit => RPTypeOK /\ SafeInv
  BY RPTypeInit, SafeInvInit
<1>2. RPTypeOK /\ SafeInv /\ [RPNext]_rpVars => (RPTypeOK /\ SafeInv)'
  BY RPTypeStep, SafeInvStep, NoReuse
<1>3. SafeInv => StatusSafe
  BY DEF SafeInv
<1> QED BY <1>1, <1>2, <1>3, PTL DEF RPSpec
=============================================================================
