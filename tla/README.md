# A verification development for go-overlay

go-overlay is a process supervisor meant to run as PID 1 of a container. It reads
`services.toml`, starts the services in the order of their dependencies, restarts
them, checks their health, answers an operator on a Unix socket, collects orphans, and
ends with an exit status that tells whether a required service failed. Everything is
one Go package, `src/cmd/go-overlay`, full of goroutines that share a handful of maps,
channels and atomics.

This directory holds TLA+ models of it, the TLC configurations that check them, and
proofs for TLAPS. `PROJECT.json` maps every definition to the lines it models and lists
the runs, the hazards, the findings, the theorems, and the mutants: for every property
of every passing run, a change of one definition that a plausible bug would make and
that the run then reports. The mutated forms stand beside the definitions they replace
and are used by no specification.

## 1. The system

| Component | State it keeps | Operations | Promise |
|---|---|---|---|
| Service runs (`service.go`) | `activeServices` + `servicesMutex`, `shutdownWg`, per `ServiceProcess`: process, intent (atomic), state, context | `startService`, `attachServiceOutput`, `stopRunningService`, `finishService`, `RequestStop`, `forceKillAllServices` | one process per service; the registry and the WaitGroup describe exactly the runs in service; a stop requested ends the run |
| Restart policy (`restart.go`) | `restartCounts`, armed `time.AfterFunc` | `handleServiceExit`, `incrementRestartCount`, `resetRestartCount`, `scheduleRestart`, `restartServiceInternal` | `max_restarts` is kept; an operator restart renews it; nothing comes back once the shutdown began |
| Boot (`startAllServices`, `processService`) | one goroutine per service, post-script goroutine | pre-script, waiting, launch, post-script, verdict | dependencies first; every service gets one verdict |
| Dependency tracker (`deps.go`) | a ready and a failed channel per service | `MarkReady`, `MarkFailed` | closing is idempotent, the verdicts exclude each other |
| Health monitors (`health.go`) | `failureCount`, a ticker, a context | check, `handleUnhealthyService` | acts after `retries` failures in a row, on failures of the service |
| Shutdown (`main.go`) | `shutdownOnce`, `exitCode`, the shutdown context, the waiter of `shutdownWg` | `run`, signal handler, failure trigger, `runShutdown`, `os.Exit` | it completes; the status says who started it; services are waited for |
| Control socket (`ipc.go`) | `ipcServer`, the accept loop, one goroutine per connection | `startIPCServer`, `restart`, `list`, `status` | an acknowledged restart happens; what is listed is true; the accept loop ends |
| Reaper (`reaper_linux.go`, `process.go`) | `childPIDs`, SIGCHLD channel of size 1, ticker | peek, ask, reap; track, wait, untrack | no status of a tracked child is stolen; no orphan stays |
| Configuration (`config.go`, `validation.go`, `env.go`) | the parsed file, the environment | parse, overrides, validation, search for cycles | accepted exactly if every name and command is right and the selected services can boot |
| Process groups (`process.go`) | the kernel's groups | `signalProcess`, `killProcess` | a killed leader takes its whole group along |
| Output of services (`service.go`) | the terminal of each service, a streaming goroutine | `attachServiceOutput`, `streamServiceLogs`, `closeServiceOutput` | output is printed, whatever its lines; no writer stays blocked |
| Credentials, service environment | none | look-ups handed to `exec` | - |
| Command line client, logging, installation, `tasks.py`, release script | none that the supervisor sees | I/O | - |

How they meet: `processService` calls `startService` and keeps waiting for it;
`startService` starts a monitor and closes the ready channel; monitor and operator only
set a run's intent and cancel its context, and the run's own goroutine does the rest;
`scheduleRestart` starts `startService` again in a goroutine nobody waits for; a failed
service calls the shutdown *from inside* the goroutine the shutdown waits for; main and
the signal goroutine both call `os.Exit`; a signal may arrive while main still opens the
socket or reads the configuration; a stop signals a process group whose leader may just
have been collected; and the reaper shares the kernel's table of children with every
`cmd.Wait`.

The hard part is therefore concurrency: by-name maps shared by successive runs of one
service, values read under a lock and used after it, Go's `select` choosing at random
among ready cases, intents that race, a Once in which everybody blocks, and two exits.
Nothing is persisted, so there is no recovery to speak of, and there is no arithmetic
near an overflow. `PROJECT.json` lists the hazards at their lines.

## 2. The modules

```
Contract  <---refines---  Lifecycle (LifecycleContract: the mapping)
                              ^  extends                 ^ refines
                           Shutdown <- Startup ---+      |
                                    <- Health  ---+--> Supervisor
                                    <- Control ---+
Reaper  <---refines---  Groups  <---refines---  Output        (processes)
Validation                                                    (stands alone)
```

Proof modules extend what they prove about: `LifecycleProofs`, `ContractProofs` (over the
former), `SupervisorProofs`, `BootProofs` and `ClaimProofs` (each over the one before),
`ReaperProofs`, `OutputProofs` (over it), `ValidationProofs`.

**Lifecycle.** One *run* is one call of `startService` with the `ServiceProcess` it
creates and the timer that may be armed when it ends. `pc[r]` is the place of its
goroutine:

| `pc` | code |
|---|---|
| `starting`, `building`, `spawned` | shutdown check, `buildServiceCommand`, between `cmd.Start` and `addActiveService` |
| `registered`, `waiting` | between registration and RUNNING, the `select` of `startService` |
| `stopping`, `killing` | `stopRunningService` before and after its timeout |
| `finishing`, `removing`, `deciding` | `finishService`: load the intent, `removeActiveService`, `handleServiceExit` |
| `bumping` | between `restartCount` and `incrementRestartCount` (two critical sections) |
| `triggering`, `blocked` | `triggerServiceFailureShutdown`, inside the Once |
| `retNil`, `retExit`, `retStartup` | what was returned |

Each critical section and each read or write of an atomic is a step of its own; what is
local to the goroutine is merged into the step before it. `RequestStop` is one step
although it is a compare-and-swap followed by `Cancel`: in between only the intent is
visible, every reader of the intent is behind the end of the run, and a run that ends in
between sees exactly what it sees when it ends right after both. What surrounds the
runs is left open (`EnvStep`, `ForceKill`, `CancelShutdown`), so that what is proved of
Lifecycle holds whatever the other components do. `relaunched` is the only history
variable; no guard reads it.

**Contract** says what an observer of one service is promised: idle, up, backoff, down;
restarts only within the policy and its budget, never after the halt. It has no runs,
processes, registry or timers. `LifecycleContract` gives the mapping.

**Shutdown** (`main.go`), **Startup** (`startAllServices`, `processService`, the
tracker), **Health** and **Control** each add their variables and actions to the runs.
**Supervisor** conjoins them: every action Lifecycle leaves to its environment is taken
by the code that performs it, and `exited` (`os.Exit`, or a panic) stops all goroutines
at once. It starts where `setupSignalHandler` has returned: `boot` then goes through
`startIPCServer` (bind, publish `ipcServer`, start the accept loop, or fail and go on
without), `loadServices` (the configuration may be rejected) and `startAllServices`, and
a signal may come at any of these points. `ipcServer` is read by `runShutdown` without a
lock; a shutdown that began before main assigned it may see either value (`listener` is
`racing`). The goroutine that calls `shutdownWg.Wait` is modelled as Go implements it:
the counter reaching zero *releases* it, and when it wakes up to a counter that is in use
again the runtime panics.

**Reaper** has the kernel's process states, the owners of tracked children (start,
track, wait, untrack) and their descendants, and the reaper's batch as peek, ask, reap.
`cmd.Wait` is tied to the process, not to its PID (os/exec uses a pidfd where it can). A
descendant is PID 1's to reap once its parent is over; one that leaves its session is no
different. **Groups** adds `stopRunningService` with `signalProcess` and `killProcess`:
looking the group up and signalling it are two steps, the leader may be collected
between them, and the fallback signals the leader alone. The force kill of the global
timeout is one step there: it repeats `killProcess`, whose two system calls the stop
already interleaves with everything. **Output** adds the terminal, a
bounded buffer between whoever is left of the group and the streaming goroutine, and
the closing of it by `startService`; pieces are lines, or as much of an overlong line as
fills the reader's buffer. These three do not contain the boot and the shutdown, and the
supervisor does not contain them: what they do to a run is a process that ends with or
without an error, which Lifecycle allows at any moment (`ProcessExits`).

**Validation** goes from the services as read to accepted or rejected, one phase of the
code per step, and then one turn of the loop of `hasCycles` per step. Its recursion is
explicit: `path` holds the names of the calls under way and `next` the dependency each of
them looks at; `visited` and `onStack` are the two maps each root gets anew. Services are
kept by their position in the file, because duplicates are only reported, not dropped; the
maps of `validateDependencies` keep the last one of a name. A dependency list is a
sequence of names; `WellNamed` are the names that pass the expression of
`validateServiceName`, and "runnable" is one flag for the checks that concern one service
only (files, users, numeric ranges, health check). A bad name or a missing command is an
error of any service, the other checks are for enabled ones, in the code's order. The
documented precedence and "can boot" are stated independently, on the file as read, with a
ranking of the services instead of a search: a file is `Valid` if it is `WellFormed`, which
is asked of every service in it, and `Bootable`, which is asked of the wanted ones. What it accepts is what `StartupAssumption` (references and acyclicity) and
`LifecycleAssumption` (no one-shot job with a policy) assume of a configuration.

## 3. The runs

Passing:

| Run | Instance | Shows |
|---|---|---|
| `Lifecycle` | one required service, on-failure, `max_restarts` 1, that may fail to start; four runs; fair | one instance at a time; registry, WaitGroup and counters exact; budget kept; Contract implemented; requested stops end; no failure swallowed; under *any* behaviour of monitor, operator, shutdown |
| `SupervisorSafety` | a monitored required service with a pre-script and a policy, an operator, signals, a socket that may fail | a failure never exits with 0; Lifecycle implemented: nobody overwrites an intent; the accept loop ends; `list` and `status` tell the truth; a restart acknowledged in time is obeyed |
| `SupervisorLive` | `a`, monitored, depends on and settles after the one-shot job `j`; both may fail to start; a post-script; fair | dependencies first, one verdict and always one, dependents released by it; shutdown from any point of the boot, after a signal even with hanging scripts |
| `Processes` | one service with a terminal and a descendant, the reaper with batches of one, stops, force kills; fair | only a child that ended before `trackChild` can lose its status; no lone SIGKILL; every zombie collected; stops return; output flows |
| `Validation` | every dependency graph of three services; every combination of the deciding fields and variables of two | accepted iff well formed and bootable; the search for cycles ends |

Violations (each is a disagreement of the code with a sentence of its documentation,
quoted in `PROJECT.json`):

| Run | What the trace shows |
|---|---|
| `EarlyExit` | `startAllServices` waits for the boot goroutines only. After a restart the service runs outside them, and main exits while `runShutdown` still waits for it. |
| `FalseFailure` | While an operator's restart stops a required service without policy, or while a signal-driven shutdown is under way, its monitor still checks it, and the status becomes 1. |
| `LostRestart` | The client is told "restart initiated" by a `RequestStop` that came after the run had loaded its intent. |
| `KilledJob` | A one-shot job stopped for an operator restart returns nil, is marked ready, and its dependents start. |
| `WaitGroupPanic` | A service spawned just before a signal registers after the last other one left: `shutdownWg` is reused before its `Wait` returned, and Go panics. |
| `StolenStatus` | A child that ends between fork and `trackChild` is reaped as an orphan; its status is lost. |
| `LostOutput` | A service writes, ends and is waited for, and its terminal is closed before the streaming goroutine read it. |

Two more divergences are noted without a run. A required service whose dependency fails
is marked failed and nobody reacts (`service.go:249`), unlike its failing pre-script. And
a leader that ends before the SIGKILL leaves descendants that ignore SIGTERM behind:
`specs/supervisor-hardening.spec.yaml:14` has a stop kill the grandchildren by signalling
the group, but the signal is all they get. `GroupDiesTogether` says what does hold, that a
SIGKILL never hits the leader alone; no property is about the survivors.

**Bounds.** The supply of `Run` bounds the restarts: a timer whose service has no run
left stays armed until the shutdown. Two runs per service are what a race between a run
and its successor takes; Lifecycle has four, for the boot launch, a policy restart, an
operator restart and a policy restart out of the fresh budget, so that exhaustion, reset
and re-exhaustion all happen. `MCMaxRestarts` is 1 and `Retries` 1, the least that make a
limit. The runs of a service are interchangeable; the action constraint `InOrder` takes
them in one order. `SupervisorSafety` has two runs of its service, so a restart and its
successor; its action constraint `OneMonitor` lets the monitor of a run outlive the run and
meet the successor until that has a monitor of its own, because two monitors at once only
multiply the states (the theorems about the same properties have no such bound).
`SupervisorLive` is about the boot and its end, has no restarts (`MCNever`) and
needs one run per service. `Batch` is 1, so that batches end at the limit as well as at a
tracked zombie; PIDs are distinct (`NoReuse`). `Pieces` is 2 and `Capacity` 1: the second
piece blocks its writer unless the first, the overlong one, was read and the reader went
on. One descendant is what distinguishes a group from its leader. Three services are the
least with a cycle that does not go through the service the search starts from, and with
two paths to one dependency (a diamond's join); lists have up to two names, the same one
twice among them; names that differ only in case share a `GO_OVERLAY_` token, as in the
code, and so does the one malformed name with its well-formed neighbour.

**Deadlock** is checked in the supervisor and process runs; a supervisor that has exited
stutters, and the reaper's ticker never stops. Lifecycle alone is an open system that may
stop when the supply is used up, and a validation ends: these two cfgs say
`CHECK_DEADLOCK FALSE`.

**Fairness** is weak fairness of each goroutine (of main, every run, `processService`,
monitor, connection, `runShutdown`, the waiter of `shutdownWg`, the signal handler, the
owner of each process, each stop and each streaming goroutine), of armed timers and
timeouts that its goroutine waits for, of a SIGKILLed process, and of the reaper's ticker:
what the Go scheduler, the runtime and the kernel give. Nothing is assumed of signals,
the operator, a process that is not killed (it may ignore SIGTERM for ever), SIGCHLD
delivery, or the dependency timeout, which must not be what releases a dependent.
Nothing is assumed of scripts either, since `runScript` has no timeout: `ShutdownEnds`
says what is left, that the supervisor exits unless a script runs for ever, and
`SignalledExits` that after a signal it exits even then. Health checks are assumed to
end (they have a timeout), and so is printing: stdout is taken not to block.
`Lifecycle` asks for less, `LCFairness`: the runs go on and killed processes go away.

## 4. The proofs

All theorems hold for every configuration that satisfies the named assumptions
(`LifecycleAssumption`, `FiniteServices`, `StartupAssumption`, `HealthAssumption`,
`ControlAssumption`, `ReaperAssumption`, `GroupsAssumption`, `OutputAssumption`,
`ValidationAssumption`): any services, policies, limits, dependency lists, number of runs,
clients, processes, descendants, terminal sizes, and any set of files and environments.
TLC evaluates the assumptions in the runs.

* `LifecycleProofs`. The invariants a user cares about are not inductive: the registry
  and the counters are keyed by name, and a step of one run could spoil those of
  another. What makes them so is `OneLive`: at most one run of a service is under way or
  has its timer armed. `LCInv` is the type invariant with `OneLive`, `RunShape` (what the
  place of a run says about its process and timer), `RegistryExact` and `RegistrySound`.
  From it follow `OneInstance`, `RegistryCorrect` and, by counting registrations,
  `WaitGroupCorrect`. `CountersInv` (a run about to count has room, an armed policy timer
  has been counted) gives `BudgetKept`; `AccountsInv`, `RestartAccounting` with the
  cardinality replaced by "at most one timer", gives `RestartsAccounted`.
* `ContractProofs`. `LifecycleImplementsContract`: each step changes the phase of one
  service as Contract allows, or none; `LCInv` is needed because the phase is read off
  *all* runs of a service.
* `SupervisorProofs`. Each step of the composition is a step of Lifecycle or leaves the
  runs alone (`SupervisorImplementsLifecycle`), so that the theorems above hold of the
  supervisor (`SupervisorSafety`, `SupervisorImplementsContract`). This needs `SVInv`:
  a connection's target is a run, a settling service has a dependency, a monitor starts
  once and has not used up its retries. `FailureStatus` is proved from `StatusInv` (a
  shutdown started by a failure found the exit status set, and whoever entered the Once
  first started it), `AcceptLoopEnds` from `CancelInv`: the context is done exactly when
  `runShutdown` is past its first step (`WhoCancels`: nobody else cancels it).
* `BootProofs`. `ListIsTrue` needs `StateShape`, which ties `State` to the place and the
  intent of a registered run. `NeverTwoVerdicts` and `AlwaysAVerdict` share `BootInv`: the
  verdicts are written by two goroutines, `startService` (ready, at the announcement) and
  `processService` (all others), so the invariant says for each service which of the two
  has spoken. `FirstInv` ties the launch to its run, `ReadyShape` says that a service is
  ready exactly when its first run got past its announcement, or was cut short by the
  shutdown, `JobShape` and `FailedShape` read the other verdicts off what `startService`
  returned.
* `ClaimProofs`. Five runs refute a sentence of the documentation. Here the same sentences
  are proved under the condition on the configuration that makes them true, so that each
  violation has a proved border:

  | Refuted by | Holds | Because |
  |---|---|---|
  | `KilledJob` | `JobsComplete`: `DependenciesFirst` where the operator restarts no job; `DependenciesHonoured`: in any configuration a job's dependents wait until it completed or the operator stopped it | `WalkInv` (what the walk over `depends_on` has passed is ready), `BornInv` (a run past its launch has its dependencies), `AskedInv` (an intent comes from somebody entitled to it), `EndShape` (what the place of a run says about its process, intent and error) |
  | `FalseFailure` | `FailuresAreReal`: `FailureIsReal` where no required service has a health check; `ExitExplained`: there every exit status has its cause | `MonitoredInv` (only services with a health check have a monitor or a policy restart asked for), `BlameStep` (what the failure trigger was called for), `FailureStays` (nothing undoes a failure that was judged), `ExitInv` |
  | `EarlyExit` | `OnlyRestartedAbandoned`: in any configuration, what main leaves behind is a service that a policy or the operator restarts; `MainWaits`: `MainWaitsForServices` where nothing restarts | `BootOrder` (a boot sequence past its `startService` has a run that returned, and main waits for all of them), `NoTimerInv`, `AbandonedInv` (a service nothing restarts is registered only while its boot sequence waits for it) |
  | `LostRestart` | `AckedIsObeyed`: a restart acknowledged before the run loaded its intent is what it finds; `OperatorRestartArmed`: such a run has armed its successor | `AckInv` (an acknowledged connection found a published run and set its intent), `ArmedInv` |
  | `WaitGroupPanic` | `OneServiceExitsZero`: a supervisor of one service never crashes, and `SignalExitsZero` holds of it | `WaiterInv`: a waiter that was released found the only service gone, and nothing of it can register again (`Quiet`, which the shutdown context keeps) |

  The conditions are on constants: whether the operator may restart a job, who is
  health-checked, what is restarted. The operator's choice of services is the constant
  `Restartable`; the code has no such list, it is what the operator actually asks for.
* `ReaperProofs`. `ReaperTypeCorrect`, and `TrackedStatusIsSafe`: assuming `NoReuse`, the
  reaper steals no status of a child that was tracked before it ended. The three steps
  of the reaper are covered by `ReaperShape`: a PID it is about to reap belongs to a
  process that was already over when it asked, so that tracking it later is "early".
* `OutputProofs`. `OutputRefinesReaper`: every step of the composition is one of Groups
  and one of Reaper, or a stutter, so `OutputStatusSafe` follows from the proofs of
  Reaper. `OUTypeCorrect` includes that no more is read than was written and no more
  waits than fits. `NoLoneKill` needs `StopShape`: a stop that fell back to the leader found
  it collected, so its signal reaches nobody; and a killed parent forks no more.
  `ReaderEndsLast` bounds the finding of the run `LostOutput`: while its terminal is open
  the streaming goroutine ends only when all is printed and nobody is left in the group to
  write (`QuietGroup`: nobody starts in a group that has no running process), so that
  output is lost by the closing alone.
* `ValidationProofs`. `AcceptedBoots` and `OnlyInvalidRejected`: for every file and
  environment a configuration is accepted exactly if each of its services has a proper
  name and a command and those the documentation selects can boot. What else is wrong with
  a service that is not wanted turns no file down. The invariant has a part per phase: `ServicesInv` (what has been
  decided about each service is what the documented precedence says of the file),
  `KnownInv` (once the references are sound, the search meets only enabled services),
  `ErrorsInv` (no error was reported of a valid file). For the search, `CallsInv`
  says that the calls under way are a chain of dependencies without repetition, that the
  stack map holds exactly them, and that what a call has passed is finished, but for the
  call it is in; `GroundedInv` that among what is finished every set has a service that waits for none of
  the set. That, and not a ranking, is what a step of the search can preserve; `RankExists`
  and `RankGrounds` show that on finite sets the two agree, and `CycleFound` that what is
  on the stack when a dependency is met again is a set without such a service.
  `SearchEnds` is the step property behind termination. `AcceptedIsAssumed` closes the
  project's circle: an accepted configuration satisfies what the theorems about the
  supervisor assume of theirs.

Model-checked only: everything temporal under fairness (`ShutdownEnds`, `SignalledExits`,
`StopRequestsEnd`, `FailureNoticed`, `DependentsReleased`, `OrphansCollected`,
`StopReturns`, `OutputFlows`), which is out of the prover's reach. That the search for
cycles ends is proved as far as its steps go (`SearchEnds`): the step from there to
termination is an induction over data, which the prover cannot do. What a run refutes is
proved only under the conditions above, and `StolenStatus` only as `StatusSafe` and
`NoReuse` delimit it.

## 5. What is not modelled

The command line client and the wire format (no state), log files (the kernel writes
them), formatting and `logMu` (printing is assumed to go on), credentials and environment
passed to `exec` (a failing look-up is `SpawnFails`), TOML type errors and default
timeouts, installation, `run` before the signal handler is installed, and PID reuse: the
theorems assume `NoReuse` by name. The stale socket file a shutdown during
`startIPCServer` may leave is not a variable. Time is abstracted: a timeout may pass at
any moment after it was started. Parsing, the ranges of numbers and the look of files,
users and paths are one flag per service in Validation, because no other part of the
program reads them.

## 6. Plan

1. Done: Lifecycle with Contract and its proofs; Shutdown with the start of main, Startup,
   Health, Control and their composition, proved to implement Lifecycle; the verdicts of
   the boot proved; Reaper, Groups and Output with their proofs; Validation.
2. Done: every safety property of a passing run is a theorem; the refuted claims are proved
   under the conditions that save them; the validation is proved both ways.
3. Proofs left: that a monitor acts only after `retries` failed checks in a row
   (`health.go`); that a stop is signalled SIGTERM before SIGKILL except by the global
   timeout; that with a budget and an operator `WaitGroupPanic` needs a run between its
   shutdown check and its registration, for any number of services.
4. Modules left: defaults and type errors of the configuration; PID reuse as an instance of
   Reaper with shared PIDs; log lines under `logMu` with an output that may block.
