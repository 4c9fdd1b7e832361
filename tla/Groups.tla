------------------------------- MODULE Groups -------------------------------
(***************************************************************************)
(* How a service is stopped (stopRunningService, forceKillAllServices,     *)
(* signalProcess, killProcess): the process startService started leads a   *)
(* session and a process group, its descendants stay in it, and a signal   *)
(* goes to the group the kernel names for the leader's PID.  Looking the   *)
(* group up and signalling it are two system calls; the leader may exit    *)
(* and be collected before, between and after them.                        *)
(***************************************************************************)
EXTENDS Reaper

CONSTANT Supervised  \* the tasks of startService; runTracked has the others

ASSUME GroupsAssumption == Supervised \subseteq Task

VARIABLES
  stop,    \* where stopRunningService of each service stands
  sending, \* the signal it sends, or has sent
  sent     \* the strongest signal each process got

gpVars == <<stop, sending, sent>>

GPTypeOK ==
  /\ stop \in [Supervised -> {"off", "find", "group", "leader", "wait", "done"}]
  /\ sending \in [Supervised -> {"TERM", "KILL"}]
  /\ sent \in [Proc -> {"none", "TERM", "KILL"}]

GPInit ==
  /\ stop = [t \in Supervised |-> "off"]
  /\ sending = [t \in Supervised |-> "TERM"]
  /\ sent = [p \in Proc |-> "none"]

-----------------------------------------------------------------------------
(* The kernel's side: groups and signals.                                  *)

Group(t) == {t} \cup {d \in Descendant : ParentOf[d] = t}

\* A process keeps its PID, and its place in the group, until it is collected.
Exists(p) == state[p] \in {"running", "zombie"}

\* SIGTERM may be ignored; after SIGKILL a process does nothing but exit.
Deliver(procs, signal) ==
  sent' = [p \in Proc |->
             IF p \in procs /\ state[p] = "running" /\ sent[p] # "KILL"
             THEN signal ELSE sent[p]]

ForkUnlessKilled(d) == sent[ParentOf[d]] # "KILL" /\ Fork(d)

-----------------------------------------------------------------------------
(* stopRunningService, entered when the service's context is done.         *)

BeginStop(t) ==
  /\ stop[t] = "off"
  /\ owner[t] \in {"tracked", "waited"}
  /\ stop' = [stop EXCEPT ![t] = "find"]
  /\ UNCHANGED <<sending, sent>>

\* Mutant of Getpgid: killProcess does not ask for the group.
GetpgidOnlyForTerm(t) ==
  /\ stop[t] = "find"
  /\ stop' = [stop EXCEPT ![t] = IF Exists(t) /\ sending[t] = "TERM" THEN "group" ELSE "leader"]
  /\ UNCHANGED <<sending, sent>>

\* Getpgid knows the leader until it is collected, a zombie too.
Getpgid(t) ==
  /\ stop[t] = "find"
  /\ stop' = [stop EXCEPT ![t] = IF Exists(t) THEN "group" ELSE "leader"]
  /\ UNCHANGED <<sending, sent>>

\* Kill(-pgid) fails when nobody is left in the group.
SignalGroup(t) ==
  /\ stop[t] = "group"
  /\ IF \E p \in Group(t) : Exists(p)
     THEN Deliver(Group(t), sending[t]) /\ stop' = [stop EXCEPT ![t] = "wait"]
     ELSE UNCHANGED sent /\ stop' = [stop EXCEPT ![t] = "leader"]
  /\ UNCHANGED sending

\* proc.Signal or proc.Kill, which the collected process does not get.
SignalLeader(t) ==
  /\ stop[t] = "leader"
  /\ Deliver({t}, sending[t])
  /\ stop' = [stop EXCEPT ![t] = "wait"]
  /\ UNCHANGED sending

\* Mutant of StopTimeout: SIGTERM once more.
StopTimeoutAsksAgain(t) ==
  /\ stop[t] = "wait"
  /\ sending[t] = "TERM"
  /\ stop' = [stop EXCEPT ![t] = "find"]
  /\ UNCHANGED <<sending, sent>>

\* service_shutdown_timeout passes: killProcess.
StopTimeout(t) ==
  /\ stop[t] = "wait"
  /\ sending[t] = "TERM"
  /\ stop' = [stop EXCEPT ![t] = "find"]
  /\ sending' = [sending EXCEPT ![t] = "KILL"]
  /\ UNCHANGED sent

\* waitDone delivers what cmd.Wait returned.
EndStop(t) ==
  /\ stop[t] = "wait"
  /\ owner[t] = "waited"
  /\ stop' = [stop EXCEPT ![t] = "done"]
  /\ UNCHANGED <<sending, sent>>

\* forceKillAllServices: killProcess for a service that is still registered.
ForceKill(t) ==
  /\ owner[t] \in {"tracked", "waited"}
  /\ IF Exists(t) THEN Deliver(Group(t), "KILL") ELSE UNCHANGED sent
  /\ UNCHANGED <<stop, sending>>

Stopper(t) == Getpgid(t) \/ SignalGroup(t) \/ SignalLeader(t) \/ StopTimeout(t) \/ EndStop(t)

-----------------------------------------------------------------------------
(* The goroutines of Reaper beside it: the process is waited for all along *)
(* and untracked once startService has heard of its end.                   *)

Untrack(t) ==
  /\ t \in Supervised => stop[t] \in {"off", "done"}
  /\ UntrackChild(t)

OwnerSteps(t) == TrackChild(t) \/ Wait(t) \/ Untrack(t)

Kernel ==
  \/ \E p \in Proc : Exits(p)
  \/ \E d \in Descendant : ForkUnlessKilled(d) \/ ParentReaps(d)

GroupSteps == Kernel \/ Reaper \/ \E t \in Task : Start(t) \/ OwnerSteps(t)

GPNext ==
  \/ GroupSteps /\ UNCHANGED gpVars
  \/ \E t \in Supervised : (BeginStop(t) \/ Stopper(t) \/ ForceKill(t)) /\ UNCHANGED rpVars

GPSpec == RPInit /\ GPInit /\ [][GPNext]_<<rpVars, gpVars>>

-----------------------------------------------------------------------------
\* A service whose leader was killed is killed to the last descendant: no
\* SIGKILL hits the leader alone, although killProcess falls back to the leader
\* when it finds no group (killProcess, lines 80-92; README.md:62 "SIGKILL of
\* the whole process group").  Only a leader that ends before the SIGKILL
\* leaves descendants behind.
GroupDiesTogether ==
  \A t \in Supervised : sent[t] = "KILL" =>
    \A d \in Group(t) : state[d] = "running" => sent[d] = "KILL"

\* stopRunningService returns although the service ignores SIGTERM, and
\* whatever became of the leader and its group between the system calls.
StopReturns == \A t \in Supervised : stop[t] = "find" ~> stop[t] = "done"
=============================================================================
