---------------------------- MODULE OutputProofs ----------------------------
(***************************************************************************)
(* Proofs about Groups and Output, for any set of services, descendants    *)
(* and PIDs: the type invariant of the composition, that stopping and      *)
(* streaming do to the processes only what Reaper allows, that no SIGKILL  *)
(* hits the leader of a service alone, and that output is lost only by the *)
(* closing of its terminal.                                                *)
(***************************************************************************)
EXTENDS Output, ReaperProofs

\* Services and scripts are processes of their own, descendants are
\* nobody's service.
LEMMA TasksAndDescendants ==
  /\ Task \subseteq Proc /\ Descendant \subseteq Proc
  /\ Supervised \subseteq Task /\ Terminal \subseteq Supervised
  /\ \A d \in Descendant : d \notin Task /\ ParentOf[d] \in Task
  BY ReaperAssumption, GroupsAssumption, OutputAssumption DEF Proc

-----------------------------------------------------------------------------
(* Every step of the composition is a step of Groups and one of Reaper.    *)

\* The goroutines that stream and close (streamServiceLogs, startService)
\* leave processes and signals alone; the others take the steps of Groups.
LEMMA OutputStepIsGroupStep == [OUNext]_ouAll => [GPNext]_<<rpVars, gpVars>>
<1>1. CASE \E t \in Task : Start(t) /\ OpenTerminal(t) /\ UNCHANGED gpVars
  BY <1>1 DEF GPNext, GroupSteps
<1>2. CASE \E t \in Task : OwnerGoesOn(t)
  BY <1>2 DEF OwnerGoesOn, OfProcess, WaitAfterReader, OwnerSteps, GPNext, GroupSteps
<1>3. CASE OfProcess(Kernel \/ Reaper)
  BY <1>3 DEF OfProcess, GPNext, GroupSteps
<1>4. CASE \E t \in Supervised :
             StopGoesOn(t) \/ ((BeginStop(t) \/ ForceKill(t)) /\ UNCHANGED <<rpVars, ouVars>>)
  BY <1>4 DEF StopGoesOn, GPNext
<1>5. CASE \E t \in Terminal :
             OutputGoesOn(t) \/ (Write(t) /\ UNCHANGED <<rpVars, gpVars>>)
  BY <1>5 DEF OutputGoesOn
<1>6. CASE UNCHANGED ouAll
  BY <1>6 DEF ouAll
<1> QED BY <1>1, <1>2, <1>3, <1>4, <1>5, <1>6 DEF OUNext

\* Stops send signals only: a process ends by an action of its own.
LEMMA GroupStepIsReaperStep ==
  ASSUME [GPNext]_<<rpVars, gpVars>>
  PROVE  [RPNext]_rpVars
<1>1. CASE GroupSteps
  BY <1>1 DEF GroupSteps, Kernel, ForkUnlessKilled, OwnerSteps, Untrack, RPNext, Processes, Owner
<1>2. CASE UNCHANGED rpVars
  BY <1>2
<1> QED BY <1>1, <1>2 DEF GPNext

\* Theorem: whoever stops services or streams their output does to processes,
\* registry and reaper only what Reaper allows, and the streaming does nothing
\* to groups and signals (stopRunningService, streamServiceLogs).
THEOREM OutputRefinesReaper == OUSpec => GPSpec /\ RPSpec
<1>1. [OUNext]_ouAll => [GPNext]_<<rpVars, gpVars>> /\ [RPNext]_rpVars
  BY OutputStepIsGroupStep, GroupStepIsReaperStep
<1> QED BY <1>1, PTL DEF OUSpec, OUInit, GPSpec, RPSpec

\* Theorem: beside stops, force kills and the streaming of output, a status is
\* still lost only if the process ended before trackChild ran.
THEOREM OutputStatusSafe ==
  ASSUME NoReuse
  PROVE  OUSpec => []StatusSafe
<1>1. RPInit => RPTypeOK /\ SafeInv
  BY RPTypeInit, SafeInvInit
<1>2. RPTypeOK /\ SafeInv /\ [OUNext]_ouAll => (RPTypeOK /\ SafeInv)'
  BY OutputStepIsGroupStep, GroupStepIsReaperStep, RPTypeStep, SafeInvStep, NoReuse
<1>3. SafeInv => StatusSafe
  BY DEF SafeInv
<1> QED BY <1>1, <1>2, <1>3, PTL DEF OUSpec, OUInit

-----------------------------------------------------------------------------
(* Types.                                                                  *)

\* Signals and stops have their types (stopRunningService).
LEMMA GPTypeStep ==
  ASSUME GPTypeOK, [GPNext]_<<rpVars, gpVars>>
  PROVE  GPTypeOK'
<1> USE TasksAndDescendants DEF GPTypeOK
<1>1. ASSUME NEW t \in Supervised, BeginStop(t) \/ Stopper(t) \/ ForceKill(t)
      PROVE  GPTypeOK'
  <2>1. CASE BeginStop(t) \/ Getpgid(t) \/ StopTimeout(t) \/ EndStop(t)
    BY <2>1 DEF BeginStop, Getpgid, StopTimeout, EndStop
  <2>2. CASE SignalGroup(t)
    BY <2>2 DEF SignalGroup, Deliver
  <2>3. CASE SignalLeader(t)
    BY <2>3 DEF SignalLeader, Deliver
  <2>4. CASE ForceKill(t)
    BY <2>4 DEF ForceKill, Deliver
  <2> QED BY <1>1, <2>1, <2>2, <2>3, <2>4 DEF Stopper
<1>2. CASE UNCHANGED gpVars
  BY <1>2 DEF gpVars
<1> QED BY <1>1, <1>2 DEF GPNext

\* The reader never takes what was not written, and no more than the terminal
\* holds is under way (streamServiceLogs).
OutputTypes ==
  /\ ptmx \in [Terminal -> {"none", "open", "closed"}]
  /\ reader \in [Terminal -> {"off", "reading", "ended"}]
  /\ wrote \in [Terminal -> 0..Pieces]
  /\ took \in [Terminal -> 0..Pieces]
  /\ \A t \in Terminal : wrote[t] - took[t] \in 0..Capacity

\* Every step keeps them.
LEMMA OutputTypeStep ==
  ASSUME OutputTypes, [OUNext]_ouAll
  PROVE  OutputTypes'
<1> USE OutputAssumption DEF OutputTypes
<1>1. ASSUME NEW t \in Task, OpenTerminal(t) PROVE OutputTypes'
  BY <1>1 DEF OpenTerminal
<1>2. ASSUME NEW t \in Terminal, Write(t) PROVE OutputTypes'
  <2>1. wrote[t] \in Nat /\ took[t] \in Nat /\ wrote[t] + 1 \in 0..Pieces
        /\ wrote[t] + 1 - took[t] \in 0..Capacity
    BY <1>2 DEF Write
  <2> QED BY <1>2, <2>1 DEF Write
<1>3. ASSUME NEW t \in Terminal, ReadSlice(t) PROVE OutputTypes'
  <2>1. wrote[t] \in Nat /\ took[t] \in Nat /\ took[t] + 1 \in 0..Pieces
        /\ wrote[t] - (took[t] + 1) \in 0..Capacity
    BY <1>3 DEF ReadSlice
  <2> QED BY <1>3, <2>1 DEF ReadSlice
<1>4. ASSUME NEW t \in Terminal, StreamClosed(t) \/ StartReader(t) \/ CloseServiceOutput(t)
      PROVE  OutputTypes'
  BY <1>4 DEF StreamClosed, StartReader, CloseServiceOutput
<1>5. CASE UNCHANGED ouVars
  BY <1>5 DEF ouVars
<1> QED BY <1>1, <1>2, <1>3, <1>4, <1>5 DEF OUNext, ouAll, OfProcess, OwnerGoesOn,
     StopGoesOn, OutputGoesOn, Streamer, StartService

\* Theorem: every variable of processes, stops and output keeps its type for
\* any number of services, and the terminal never holds more than it can.
THEOREM OUTypeCorrect == OUSpec => []OUTypeOK
<1>1. OUInit => RPTypeOK /\ GPTypeOK /\ OutputTypes
  <2>1. GPInit => GPTypeOK
    BY DEF GPInit, GPTypeOK
  <2>2. TerminalInit => OutputTypes
    BY OutputAssumption DEF TerminalInit, OutputTypes
  <2> QED BY <2>1, <2>2, RPTypeInit DEF OUInit
<1>2. RPTypeOK /\ GPTypeOK /\ OutputTypes /\ [OUNext]_ouAll
        => (RPTypeOK /\ GPTypeOK /\ OutputTypes)'
  BY OutputStepIsGroupStep, GroupStepIsReaperStep, RPTypeStep, GPTypeStep, OutputTypeStep
<1>3. RPTypeOK /\ GPTypeOK /\ OutputTypes => OUTypeOK
  BY DEF OUTypeOK, OutputTypes
<1> QED BY <1>1, <1>2, <1>3, PTL DEF OUSpec, OUInit

-----------------------------------------------------------------------------
(* No SIGKILL hits a leader alone.                                         *)

\* A stop only begins for a process that was started, and falls back to the
\* leader only when the leader has been collected (killProcess).
StopShape ==
  /\ \A t \in Task : state[t] = "none" <=> owner[t] = "off"
  /\ \A t \in Supervised :
       /\ stop[t] # "off" => owner[t] # "off"
       /\ stop[t] = "leader" => state[t] = "gone"

GroupInv == StopShape /\ GroupDiesTogether

\* A signal to the group of t reaches all that run in it, and no other service.
LEMMA DeliveredToGroup ==
  ASSUME RPTypeOK, GPTypeOK, GroupDiesTogether, NEW t \in Supervised, NEW signal \in {"TERM", "KILL"},
         Deliver(Group(t), signal), UNCHANGED state
  PROVE  GroupDiesTogether'
<1> SUFFICES ASSUME NEW u \in Supervised, sent'[u] = "KILL", NEW d \in Group(u),
                    state'[d] = "running"
             PROVE  sent'[d] = "KILL"
  BY DEF GroupDiesTogether, Group
<1>1. u \in Proc /\ d \in Proc
  BY TasksAndDescendants DEF Group
<1>2. CASE u = t
  BY <1>1, <1>2 DEF Deliver, GroupDiesTogether
<1>3. CASE u # t
  <2>1. u \notin Group(t)
    BY <1>3, TasksAndDescendants DEF Group
  <2>2. sent[u] = "KILL"
    BY <1>1, <2>1 DEF Deliver
  <2>3. sent[d] = "KILL"
    BY <2>2 DEF GroupDiesTogether
  <2> QED BY <1>1, <2>3 DEF Deliver
<1> QED BY <1>2, <1>3

\* Every step of processes, reaper and stops keeps GroupInv.
LEMMA GroupInvStep ==
  ASSUME RPTypeOK, GPTypeOK, GroupInv, [GPNext]_<<rpVars, gpVars>>
  PROVE  GroupInv'
<1> USE TasksAndDescendants DEF GroupInv, RPTypeOK, GPTypeOK
<1>1. CASE GroupSteps /\ UNCHANGED gpVars
  <2> UNCHANGED <<stop, sending, sent>>
    BY <1>1 DEF gpVars
  <2>1. ASSUME NEW p \in Proc, Exits(p) PROVE GroupInv'
    BY <2>1 DEF Exits, StopShape, GroupDiesTogether, Group
  <2>2. ASSUME NEW d \in Descendant, ForkUnlessKilled(d) PROVE GroupInv'
    BY <2>2 DEF ForkUnlessKilled, Fork, StopShape, GroupDiesTogether, Group
  <2>3. ASSUME NEW d \in Descendant, ParentReaps(d) PROVE GroupInv'
    BY <2>3 DEF ParentReaps, StopShape, GroupDiesTogether, Group
  <2>4. ASSUME NEW t \in Task, Start(t) PROVE GroupInv'
    BY <2>4 DEF Start, StopShape, GroupDiesTogether, Group
  <2>5. ASSUME NEW t \in Task, OwnerSteps(t) PROVE GroupInv'
    <3>1. CASE TrackChild(t)
      BY <3>1 DEF TrackChild, StopShape, GroupDiesTogether, Group
    <3>2. CASE Wait(t)
      BY <3>2 DEF Wait, StopShape, GroupDiesTogether, Group
    <3>3. CASE UntrackChild(t)
      BY <3>3 DEF UntrackChild, StopShape, GroupDiesTogether, Group
    <3> QED BY <2>5, <3>1, <3>2, <3>3 DEF OwnerSteps, Untrack
  <2>6. CASE Reaper
    <3>1. CASE OnSigChild \/ OnTick \/ PeekExitedChild \/ AskTracked
      BY <3>1 DEF OnSigChild, OnTick, PeekExitedChild, AskTracked, StopShape, GroupDiesTogether, Group
    <3>2. CASE ReapPeeked
      BY <3>2 DEF ReapPeeked, Zombie, StopShape, GroupDiesTogether, Group
    <3> QED BY <2>6, <3>1, <3>2 DEF Reaper, ReapOrphans
  <2> QED BY <1>1, <2>1, <2>2, <2>3, <2>4, <2>5, <2>6 DEF GroupSteps, Kernel
<1>2. ASSUME NEW t \in Supervised, BeginStop(t) \/ Stopper(t) \/ ForceKill(t), UNCHANGED rpVars
      PROVE  GroupInv'
  <2> UNCHANGED <<state, owner>>
    BY <1>2 DEF rpVars
  <2>1. CASE BeginStop(t) \/ Getpgid(t) \/ StopTimeout(t) \/ EndStop(t)
    BY <2>1 DEF BeginStop, Getpgid, StopTimeout, EndStop, Exists, StopShape, GroupDiesTogether, Group
  <2>2. CASE SignalGroup(t)
    <3>1. StopShape'
      BY <2>2 DEF SignalGroup, Exists, Group, StopShape
    <3>2. CASE Deliver(Group(t), sending[t])
      <4>1. sending[t] \in {"TERM", "KILL"}
        OBVIOUS
      <4> QED BY <3>1, <3>2, <4>1, DeliveredToGroup
    <3>3. CASE UNCHANGED sent
      BY <3>1, <3>3 DEF GroupDiesTogether, Group
    <3> QED BY <2>2, <3>2, <3>3 DEF SignalGroup
  <2>3. CASE SignalLeader(t)
    <3>1. state[t] = "gone"
      BY <2>3 DEF SignalLeader, StopShape
    <3>2. sent' = sent
      BY <2>3, <3>1 DEF SignalLeader, Deliver
    <3> QED BY <2>3, <3>2 DEF SignalLeader, StopShape, GroupDiesTogether, Group
  <2>4. CASE ForceKill(t)
    <3>1. StopShape'
      BY <2>4 DEF ForceKill, StopShape
    <3>2. GroupDiesTogether'
      BY <2>4, DeliveredToGroup DEF ForceKill, GroupDiesTogether, Group
    <3> QED BY <3>1, <3>2
  <2> QED BY <1>2, <2>1, <2>2, <2>3, <2>4 DEF Stopper
<1>3. CASE UNCHANGED <<rpVars, gpVars>>
  BY <1>3 DEF rpVars, gpVars, StopShape, GroupDiesTogether, Group
<1> QED BY <1>1, <1>2, <1>3 DEF GPNext

\* Theorem: whenever the leader of a service got SIGKILL, so did every process
\* that still runs in its group, however the stop, the force kill, the reaper
\* and the exit of the leader interleave (signalProcess, killProcess).
THEOREM NoLoneKill == OUSpec => []GroupDiesTogether
<1>1. RPInit /\ GPInit => RPTypeOK /\ GPTypeOK /\ GroupInv
  <2>1. RPInit /\ GPInit => GPTypeOK /\ GroupInv
    BY TasksAndDescendants
    DEF RPInit, GPInit, GPTypeOK, GroupInv, StopShape, GroupDiesTogether, Group
  <2> QED BY <2>1, RPTypeInit
<1>2. RPTypeOK /\ GPTypeOK /\ GroupInv /\ [OUNext]_ouAll => (RPTypeOK /\ GPTypeOK /\ GroupInv)'
  BY OutputStepIsGroupStep, GroupStepIsReaperStep, RPTypeStep, GPTypeStep, GroupInvStep
<1>3. GroupInv => GroupDiesTogether
  BY DEF GroupInv
<1> QED BY <1>1, <1>2, <1>3, PTL DEF OUSpec, OUInit
-----------------------------------------------------------------------------
(* What the streaming goroutine leaves behind.                             *)

\* Everything written was taken, and nobody is left to write more.
Drained(t) == took[t] = wrote[t] /\ \A p \in Group(t) : state[p] # "running"

\* A terminal is opened with its process and streamed once that is tracked; the
\* goroutine ends before the closing only when the terminal is drained.
ReaderInv ==
  \A t \in Terminal :
    /\ reader[t] # "off" => owner[t] \notin {"off", "forked"}
    /\ reader[t] = "ended" /\ ptmx[t] = "open" => Drained(t)

\* In a group without a running process nobody starts one again: the leader was
\* started once, and only a running leader forks (Start, Fork).
LEMMA QuietGroup ==
  ASSUME RPTypeOK, StopShape, [RPNext]_rpVars, NEW t \in Terminal, owner[t] # "off",
         \A p \in Group(t) : state[p] # "running"
  PROVE  \A p \in Group(t) : state'[p] # "running"
<1> USE TasksAndDescendants DEF Group, RPTypeOK
<1>t. t \in Task /\ t \in Proc /\ \A d \in Descendant : d \in Proc
  OBVIOUS
<1>1. ASSUME NEW p \in Proc, Exits(p) PROVE \A q \in Group(t) : state'[q] # "running"
  BY <1>1, <1>t DEF Exits
<1>2. ASSUME NEW d \in Descendant, Fork(d) \/ ParentReaps(d)
      PROVE  \A q \in Group(t) : state'[q] # "running"
  BY <1>2, <1>t DEF Fork, ParentReaps
<1>3. ASSUME NEW u \in Task, Start(u) PROVE \A q \in Group(t) : state'[q] # "running"
  BY <1>3, <1>t DEF Start, StopShape
<1>4. ASSUME NEW u \in Task, Owner(u) PROVE \A q \in Group(t) : state'[q] # "running"
  BY <1>4, <1>t DEF Owner, TrackChild, Wait, UntrackChild
<1>5. CASE Reaper
  BY <1>5, <1>t DEF Reaper, ReapOrphans, OnSigChild, OnTick, PeekExitedChild, AskTracked,
                    ReapPeeked, Zombie
<1>6. CASE UNCHANGED rpVars
  BY <1>6 DEF rpVars
<1> QED BY <1>1, <1>2, <1>3, <1>4, <1>5, <1>6 DEF RPNext, Processes

\* The owner of a process goes forward only (startService).
LEMMA OwnerForward ==
  ASSUME RPTypeOK, [RPNext]_rpVars, NEW t \in Task, owner[t] \notin {"off", "forked"}
  PROVE  owner'[t] \notin {"off", "forked"}
<1>1. CASE Processes
  BY <1>1 DEF Processes, Exits, Fork, ParentReaps, Start, RPTypeOK
<1>2. CASE \E u \in Task : Owner(u)
  BY <1>2 DEF Owner, TrackChild, Wait, UntrackChild, RPTypeOK
<1>3. CASE Reaper \/ UNCHANGED rpVars
  BY <1>3 DEF Reaper, ReapOrphans, OnSigChild, OnTick, PeekExitedChild, AskTracked,
              ReapPeeked, rpVars
<1> QED BY <1>1, <1>2, <1>3 DEF RPNext

\* Every step keeps ReaderInv (streamServiceLogs, closeServiceOutput).
LEMMA ReaderStep ==
  ASSUME RPTypeOK, OutputTypes, StopShape, ReaderInv, [OUNext]_ouAll
  PROVE  ReaderInv'
<1>r. [RPNext]_rpVars
  BY OutputStepIsGroupStep, GroupStepIsReaperStep
<1>s. \A t \in Terminal : t \in Task
  BY TasksAndDescendants
<1>q. ASSUME NEW t \in Terminal, reader[t] = "ended", ptmx[t] = "open",
             took'[t] = took[t], wrote'[t] = wrote[t]
      PROVE  Drained(t)'
  <2>1. owner[t] # "off" /\ Drained(t)
    BY <1>q DEF ReaderInv
  <2>2. \A p \in Group(t) : state'[p] # "running"
    BY <1>r, <2>1, QuietGroup DEF Drained
  <2> QED BY <1>q, <2>1, <2>2 DEF Drained, Group
<1>0. ASSUME UNCHANGED <<reader, took, wrote>>,
             \A t \in Terminal : ptmx'[t] = "open" => ptmx[t] = "open" \/ reader[t] = "off"
      PROVE  ReaderInv'
  BY <1>0, <1>q, <1>r, <1>s, OwnerForward DEF ReaderInv
<1>1. ASSUME NEW u \in Task, Start(u), OpenTerminal(u) PROVE ReaderInv'
  <2>1. \A t \in Terminal : ptmx'[t] = "open" => ptmx[t] = "open" \/ reader[t] = "off"
    BY <1>1 DEF Start, OpenTerminal, ReaderInv, OutputTypes
  <2> QED BY <1>0, <1>1, <2>1 DEF OpenTerminal
<1>2. CASE UNCHANGED ouVars
  BY <1>0, <1>2 DEF ouVars
<1>3. ASSUME NEW u \in Terminal, CloseServiceOutput(u) PROVE ReaderInv'
  BY <1>0, <1>3 DEF CloseServiceOutput, OutputTypes
<1>4. ASSUME NEW u \in Terminal, Write(u), UNCHANGED rpVars PROVE ReaderInv'
  <2>1. reader[u] # "ended"
    BY <1>4 DEF Write, ReaderInv, Drained
  <2>2. UNCHANGED <<owner, state>>
    BY <1>4 DEF rpVars
  <2> QED BY <1>4, <2>1, <2>2 DEF Write, ReaderInv, Drained, OutputTypes, Group
<1>5. ASSUME NEW u \in Terminal, StartReader(u) \/ Streamer(u), UNCHANGED rpVars
      PROVE  ReaderInv'
  <2>1. UNCHANGED <<owner, state>>
    BY <1>5 DEF rpVars
  <2>2. CASE StartReader(u)
    BY <2>1, <2>2 DEF StartReader, ReaderInv, Drained, OutputTypes, Group
  <2>3. CASE ReadSlice(u)
    BY <2>1, <2>3 DEF ReadSlice, ReaderInv, Drained, OutputTypes, Group
  <2>4. CASE StreamClosed(u)
    BY <2>1, <2>4 DEF StreamClosed, ReaderInv, Drained, OutputTypes, Group
  <2> QED BY <1>5, <2>2, <2>3, <2>4 DEF Streamer
<1> QED BY <1>1, <1>2, <1>3, <1>4, <1>5 DEF OUNext, ouAll, OfProcess, OwnerGoesOn,
     StopGoesOn, OutputGoesOn, StartService

\* Theorem: the streaming goroutine never gives a terminal up too early: while
\* the terminal is open it ends only when all that was written is printed and
\* nobody can write any more.  What gets lost is lost by the closing
\* (streamServiceLogs, closeServiceOutput).
THEOREM ReaderEndsLast ==
  OUSpec => [](\A t \in Terminal : reader[t] = "ended" /\ ptmx[t] = "open" => Drained(t))
<1>1. OUInit => RPTypeOK /\ GPTypeOK /\ OutputTypes /\ GroupInv /\ ReaderInv
  <2>1. RPInit /\ GPInit => GPTypeOK /\ GroupInv
    BY TasksAndDescendants
    DEF RPInit, GPInit, GPTypeOK, GroupInv, StopShape, GroupDiesTogether, Group
  <2>2. TerminalInit => OutputTypes /\ ReaderInv
    BY OutputAssumption DEF TerminalInit, OutputTypes, ReaderInv
  <2> QED BY <2>1, <2>2, RPTypeInit DEF OUInit
<1>2. RPTypeOK /\ GPTypeOK /\ OutputTypes /\ GroupInv /\ ReaderInv /\ [OUNext]_ouAll
        => (RPTypeOK /\ GPTypeOK /\ OutputTypes /\ GroupInv /\ ReaderInv)'
  BY OutputStepIsGroupStep, GroupStepIsReaperStep, RPTypeStep, GPTypeStep, OutputTypeStep,
     GroupInvStep, ReaderStep DEF GroupInv
<1>3. ReaderInv => \A t \in Terminal : reader[t] = "ended" /\ ptmx[t] = "open" => Drained(t)
  BY DEF ReaderInv
<1> QED BY <1>1, <1>2, <1>3, PTL DEF OUSpec
=============================================================================
