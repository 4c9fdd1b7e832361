------------------------------- MODULE Reaper -------------------------------
(***************************************************************************)
(* PID 1 duty (reaper_linux.go, process.go): the reaper collects the       *)
(* zombies of adopted processes while startService and runTracked collect  *)
(* those of the processes they started.  The two are kept apart only by    *)
(* childPIDs, which the owner of a process fills after the fork and clears *)
(* after the wait.                                                         *)
(***************************************************************************)
EXTENDS Naturals, FiniteSets

CONSTANTS
  Task,        \* processes startService or runTracked start
  Descendant,  \* processes those start; orphans of PID 1 once their parent is over
  ParentOf,    \* whose descendant each of them is
  PidOf,       \* the PID the kernel gives each of them
  Batch        \* reaperMaxBatch

Proc == Task \cup Descendant

ASSUME ReaperAssumption ==
  /\ Task \cap Descendant = {}
  /\ ParentOf \in [Descendant -> Task]
  /\ Batch \in Nat \ {0}
  /\ DOMAIN PidOf = Proc

\* PIDs do not wrap around while one of them is still in use.
NoReuse == \A p, q \in Proc : PidOf[p] = PidOf[q] => p = q

Pid == {PidOf[p] : p \in Proc}

VARIABLES
  state,      \* what the kernel knows of each process
  owner,      \* where the goroutine that started it stands
  childPIDs,  \* the registry of tracked children
  status,     \* what cmd.Wait reported
  early,      \* history: tasks whose process was over when it was tracked
  sigChild,   \* a SIGCHLD is buffered in the reaper's channel
  rp,         \* where the reaper stands
  peeked,     \* the PID peekExitedChild returned
  rounds      \* turns of reapOrphans' loop that reaped something

rpVars == <<state, owner, childPIDs, status, early, sigChild, rp, peeked, rounds>>
reaperVars == <<sigChild, rp, peeked, rounds>>

RPTypeOK ==
  /\ state \in [Proc -> {"none", "running", "zombie", "gone"}]
  /\ owner \in [Task -> {"off", "forked", "tracked", "waited", "done"}]
  /\ childPIDs \subseteq Pid
  /\ status \in [Task -> {"none", "exit", "lost"}]
  /\ early \subseteq Task
  /\ sigChild \in BOOLEAN
  /\ rp \in {"idle", "peek", "check", "reap"}
  /\ peeked \in Pid \cup {0}
  /\ rounds \in 0..Batch
  /\ rp \in {"check", "reap"} => rounds < Batch

RPInit ==
  /\ state = [p \in Proc |-> "none"]
  /\ owner = [t \in Task |-> "off"]
  /\ childPIDs = {}
  /\ status = [t \in Task |-> "none"]
  /\ early = {}
  /\ sigChild = FALSE
  /\ rp = "idle"
  /\ peeked = 0
  /\ rounds = 0

-----------------------------------------------------------------------------
(* The kernel.  A PID is given out again only once nobody holds it.        *)

FreePid(p) == \A q \in Proc : PidOf[q] = PidOf[p] => state[q] \in {"none", "gone"}

\* Zombies PID 1 can see: those of its own children and of orphans.
Child(p) == p \in Descendant => state[ParentOf[p]] \in {"zombie", "gone"}
Zombie(p) == state[p] = "zombie" /\ Child(p)

Fork(d) ==
  /\ state[d] = "none"
  /\ state[ParentOf[d]] = "running"
  /\ FreePid(d)
  /\ state' = [state EXCEPT ![d] = "running"]
  /\ UNCHANGED <<owner, childPIDs, status, early, reaperVars>>

\* The channel holds one signal: more of them coalesce.
Exits(p) ==
  /\ state[p] = "running"
  /\ state' = [state EXCEPT ![p] = "zombie"]
  /\ sigChild' = (sigChild \/ Child(p))
  /\ UNCHANGED <<owner, childPIDs, status, early, rp, peeked, rounds>>

\* A parent may collect its child itself.
ParentReaps(d) ==
  /\ state[d] = "zombie"
  /\ ~Child(d)
  /\ state' = [state EXCEPT ![d] = "gone"]
  /\ UNCHANGED <<owner, childPIDs, status, early, reaperVars>>

-----------------------------------------------------------------------------
(* The owner: cmd.Start, trackChild, cmd.Wait, untrackChild.               *)

Start(t) ==
  /\ owner[t] = "off"
  /\ FreePid(t)
  /\ owner' = [owner EXCEPT ![t] = "forked"]
  /\ state' = [state EXCEPT ![t] = "running"]
  /\ UNCHANGED <<childPIDs, status, early, reaperVars>>

TrackChild(t) ==
  /\ owner[t] = "forked"
  /\ owner' = [owner EXCEPT ![t] = "tracked"]
  /\ childPIDs' = childPIDs \cup {PidOf[t]}
  /\ early' = IF state[t] = "running" THEN early ELSE early \cup {t}
  /\ UNCHANGED <<state, status, reaperVars>>

\* cmd.Wait collects the process, or fails with ECHILD when it has been
\* collected already.
Wait(t) ==
  /\ owner[t] = "tracked"
  /\ state[t] \in {"zombie", "gone"}
  /\ owner' = [owner EXCEPT ![t] = "waited"]
  /\ state' = [state EXCEPT ![t] = "gone"]
  /\ status' = [status EXCEPT ![t] = IF state[t] = "zombie" THEN "exit" ELSE "lost"]
  /\ UNCHANGED <<childPIDs, early, reaperVars>>

UntrackChild(t) ==
  /\ owner[t] = "waited"
  /\ owner' = [owner EXCEPT ![t] = "done"]
  /\ childPIDs' = childPIDs \ {PidOf[t]}
  /\ UNCHANGED <<state, status, early, reaperVars>>

-----------------------------------------------------------------------------
(* The reaper: woken by a SIGCHLD or by its ticker, it reaps up to Batch   *)
(* zombies and gives up at the first one that is tracked.                  *)

StartBatch == rp = "idle" /\ rp' = "peek" /\ rounds' = 0
EndBatch == rp' = "idle" /\ peeked' = 0 /\ UNCHANGED rounds

OnSigChild ==
  /\ StartBatch
  /\ sigChild
  /\ sigChild' = FALSE
  /\ UNCHANGED <<state, owner, childPIDs, status, early, peeked>>

\* Mutant of OnTick: without the ticker, only a signal wakes the reaper.
OnSignalOnly ==
  /\ StartBatch
  /\ sigChild
  /\ sigChild' = FALSE
  /\ UNCHANGED <<state, owner, childPIDs, status, early, peeked>>

OnTick ==
  /\ StartBatch
  /\ UNCHANGED <<state, owner, childPIDs, status, early, sigChild, peeked>>

\* Mutant of PeekExitedChild: one turn too many.
PeekOnceMore ==
  /\ rp = "peek"
  /\ IF rounds <= Batch /\ \E p \in Proc : Zombie(p)
     THEN /\ \E p \in Proc : Zombie(p) /\ peeked' = PidOf[p]
          /\ rp' = "check"
          /\ UNCHANGED rounds
     ELSE EndBatch
  /\ UNCHANGED <<state, owner, childPIDs, status, early, sigChild>>

\* waitid with WNOWAIT: which of several zombies it shows is the kernel's
\* choice.
PeekExitedChild ==
  /\ rp = "peek"
  /\ IF rounds < Batch /\ \E p \in Proc : Zombie(p)
     THEN /\ \E p \in Proc : Zombie(p) /\ peeked' = PidOf[p]
          /\ rp' = "check"
          /\ UNCHANGED rounds
     ELSE EndBatch
  /\ UNCHANGED <<state, owner, childPIDs, status, early, sigChild>>

\* Mutant of AskTracked: the registry is not asked.
NeverAsk ==
  /\ rp = "check"
  /\ rp' = "reap"
  /\ UNCHANGED <<state, owner, childPIDs, status, early, sigChild, peeked, rounds>>

AskTracked ==
  /\ rp = "check"
  /\ IF peeked \in childPIDs
     THEN EndBatch
     ELSE rp' = "reap" /\ UNCHANGED <<peeked, rounds>>
  /\ UNCHANGED <<state, owner, childPIDs, status, early, sigChild>>

\* wait4 with WNOHANG: the PID may be nobody's zombie any more.
ReapPeeked ==
  /\ rp = "reap"
  /\ IF \E p \in Proc : Zombie(p) /\ PidOf[p] = peeked
     THEN /\ \E p \in Proc : /\ Zombie(p) /\ PidOf[p] = peeked
                             /\ state' = [state EXCEPT ![p] = "gone"]
          /\ rp' = "peek"
          /\ peeked' = 0
          /\ rounds' = rounds + 1
     ELSE EndBatch /\ UNCHANGED state
  /\ UNCHANGED <<owner, childPIDs, status, early, sigChild>>

Owner(t) == TrackChild(t) \/ Wait(t) \/ UntrackChild(t)
ReapOrphans == PeekExitedChild \/ AskTracked \/ ReapPeeked

\* The processes, and what their owners start.
Processes ==
  \/ \E p \in Proc : Exits(p)
  \/ \E d \in Descendant : Fork(d) \/ ParentReaps(d)
  \/ \E t \in Task : Start(t)

Reaper == OnSigChild \/ OnTick \/ ReapOrphans

RPNext == Processes \/ (\E t \in Task : Owner(t)) \/ Reaper

RPSpec == RPInit /\ [][RPNext]_rpVars

-----------------------------------------------------------------------------
\* While PIDs are not reused, only the status of a process that ended before
\* trackChild was called can get lost: once it is tracked the reaper leaves it
\* to its owner, although it peeks, asks and reaps in three separate steps
\* (reapOrphans).
StatusSafe == \A t \in Task : status[t] = "lost" => t \in early

\* "preservando o exit status do os/exec" (docs/plans/2026-09-05-security-
\* performance-audit.yaml:44): no owner loses the exit status of its process.
StatusPreserved == \A t \in Task : status[t] # "lost"

\* Every zombie is eventually collected, also one behind a tracked zombie that
\* ended the batch and whose own SIGCHLD is long consumed (startZombieReaper).
OrphansCollected == \A p \in Proc : Zombie(p) ~> state[p] = "gone"
=============================================================================
