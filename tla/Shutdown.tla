------------------------------ MODULE Shutdown ------------------------------
(***************************************************************************)
(* The frame of the supervisor: where main stands in run(), main.go's      *)
(* signal handler, the failure trigger, runShutdown inside its sync.Once,  *)
(* and the exit status.  Everybody who asks for the shutdown blocks in the *)
(* Once until the first one has carried it out.                            *)
(***************************************************************************)
EXTENDS Lifecycle

VARIABLES
  boot,      \* main: startIPCServer, loadServices, startAllServices
  listener,  \* the control socket, and whether ipcServer holds it
  exitCode,  \* the atomic exit status, 0 or exitCodeServiceFailure
  once,      \* where runShutdown stands inside shutdownOnce
  waiter,    \* the goroutine that calls shutdownWg.Wait for runShutdown
  starter,   \* who entered the Once: the signal handler or a service failure
  sig,       \* the goroutine of setupSignalHandler
  exited,    \* the process is over: nothing of the supervisor runs any more
  status     \* its exit status

sdVars == <<boot, listener, exitCode, once, waiter, starter, sig, exited, status>>

\* What a failure or a crash exits with: exitCodeServiceFailure, and the Go
\* runtime's status of a panic.
Failure == 1
Panic == 2

SDTypeOK ==
  /\ boot \in {"listen", "publish", "load", "services"}
  /\ listener \in {"none", "bound", "up", "racing", "closed"}
  /\ exitCode \in {0, Failure}
  /\ once \in {"idle", "cancel", "close", "check", "wait", "force", "grace", "done", "gaveUp"}
  /\ waiter \in {"off", "calling", "waiting", "released", "returned"}
  /\ starter \in {"none", "signal", "failure"}
  /\ sig \in {"waiting", "blocked"}
  /\ exited \in BOOLEAN
  /\ status \in {0, Failure, Panic}

\* setupSignalHandler has returned.
SDInit ==
  /\ boot = "listen"
  /\ listener = "none"
  /\ exitCode = 0
  /\ once = "idle"
  /\ waiter = "off"
  /\ starter = "none"
  /\ sig = "waiting"
  /\ exited = FALSE
  /\ status = 0

\* os.Exit, or a panic.
Exit(code) == exited' = TRUE /\ status' = code

\* gracefulShutdown: the first caller runs runShutdown, the others wait for it.
GracefulShutdown(who) ==
  /\ once' = IF once = "idle" THEN "cancel" ELSE once
  /\ starter' = IF once = "idle" THEN who ELSE starter

\* Mutant of TriggerServiceFailureShutdown: the status is left for later.
TriggerForgetsStatus ==
  /\ GracefulShutdown("failure")
  /\ UNCHANGED <<boot, listener, exitCode, waiter, sig, exited, status>>

\* triggerServiceFailureShutdown, up to the point where the caller blocks.
TriggerServiceFailureShutdown ==
  /\ exitCode' = Failure
  /\ GracefulShutdown("failure")
  /\ UNCHANGED <<boot, listener, waiter, sig, exited, status>>

ShutdownOver == once \in {"done", "gaveUp"}

-----------------------------------------------------------------------------
(* setupSignalHandler: only the first signal is read.                      *)

Signal ==
  /\ sig = "waiting"
  /\ sig' = "blocked"
  /\ GracefulShutdown("signal")
  /\ UNCHANGED <<lcVars, boot, listener, exitCode, waiter, exited, status>>

\* Mutant of SignalExit: the handler returns instead of exiting.
SignalForgetsExit ==
  /\ sig = "blocked"
  /\ ShutdownOver
  /\ sig' = "waiting"
  /\ UNCHANGED <<lcVars, boot, listener, exitCode, once, waiter, starter, exited, status>>

SignalExit ==
  /\ sig = "blocked"
  /\ ShutdownOver
  /\ Exit(exitCode)
  /\ UNCHANGED <<lcVars, boot, listener, exitCode, once, waiter, starter, sig>>

-----------------------------------------------------------------------------
(* runShutdown.                                                            *)

\* What every step of runShutdown leaves alone.
StepOfOnce(from, to) ==
  /\ once = from
  /\ once' = to
  /\ UNCHANGED <<boot, exitCode, starter, sig, exited, status>>

\* Mutant of CancelServices: the context is not cancelled.
CancelNobody ==
  /\ StepOfOnce("cancel", "close")
  /\ UNCHANGED <<lcVars, listener, waiter>>

CancelServices ==
  /\ StepOfOnce("cancel", "close")
  /\ CancelShutdown
  /\ UNCHANGED <<listener, waiter>>

\* ipcServer is read without a lock: a shutdown that began before main assigned
\* it may see nil, or see it; one that finds nil closes nothing.
CloseIPC ==
  /\ StepOfOnce("close", "check")
  /\ \/ listener \in {"up", "racing"} /\ listener' = "closed"
     \/ listener # "up" /\ UNCHANGED listener
  /\ UNCHANGED <<lcVars, waiter>>

\* activeServiceCount() == 0 ends the shutdown without waiting for anybody;
\* otherwise a goroutine is started that waits for the services.
CheckActive ==
  /\ StepOfOnce("check", IF Registered = {} THEN "done" ELSE "wait")
  /\ waiter' = IF Registered = {} THEN "off" ELSE "calling"
  /\ UNCHANGED <<lcVars, listener>>

\* The waiter has closed done.
ServicesStopped ==
  /\ once \in {"wait", "grace"}
  /\ waiter = "returned"
  /\ StepOfOnce(once, "done")
  /\ UNCHANGED <<lcVars, listener, waiter>>

\* global_shutdown_timeout passes first.
GlobalTimeout ==
  /\ StepOfOnce("wait", "force")
  /\ UNCHANGED <<lcVars, listener, waiter>>

ForceKillAllServices ==
  /\ StepOfOnce("force", "grace")
  /\ ForceKill(Registered)
  /\ UNCHANGED <<listener, waiter>>

\* Five more seconds pass: "Some services may still be running".
GraceTimeout ==
  /\ StepOfOnce("grace", "gaveUp")
  /\ UNCHANGED <<lcVars, listener, waiter>>

-----------------------------------------------------------------------------
(* shutdownWg.Wait.  A sync.WaitGroup releases its waiters when the counter *)
(* reaches zero, and a waiter that wakes up to a counter that is no longer  *)
(* zero panics: "WaitGroup is reused before previous Wait has returned".    *)

WaitBegins ==
  /\ waiter = "calling"
  /\ waiter' = IF wg = 0 THEN "returned" ELSE "waiting"
  /\ UNCHANGED <<lcVars, boot, listener, exitCode, once, starter, sig, exited, status>>

\* shutdownWg.Done, as part of RemoveActiveService.
DoneReleases ==
  /\ waiter' = IF waiter = "waiting" /\ wg' = 0 THEN "released" ELSE waiter
  /\ UNCHANGED <<boot, listener, exitCode, once, starter, sig, exited, status>>

\* The waiter wakes up, looks at the counter once more, and closes done.
WaiterWakes ==
  /\ waiter = "released"
  /\ IF wg = 0
     THEN waiter' = "returned" /\ UNCHANGED <<exited, status>>
     ELSE Exit(Panic) /\ UNCHANGED waiter
  /\ UNCHANGED <<lcVars, boot, listener, exitCode, once, starter, sig>>

-----------------------------------------------------------------------------
(* The runs: removal, and the failure of a required service.               *)

\* removeActiveService, with what its Done does to the waiter.
RunRemoves(r) == RemoveActiveService(r) /\ DoneReleases

RunTriggers(r) == Trigger(r) /\ TriggerServiceFailureShutdown

RunTriggerReturns(r) == ShutdownOver /\ TriggerReturns(r) /\ UNCHANGED sdVars
=============================================================================
