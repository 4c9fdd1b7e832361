------------------------------- MODULE Control -------------------------------
(***************************************************************************)
(* The control socket (ipc.go): startIPCServer, its accept loop, and one   *)
(* goroutine per connection that reads one command and answers it.         *)
(* handleRestartService looks the service up under the lock and requests   *)
(* the stop after releasing it; `list` and `status` read activeServices    *)
(* and the states of its runs in one critical section.                     *)
(***************************************************************************)
EXTENDS Shutdown

CONSTANTS
  Client,        \* connections; each carries one command
  Restartable,   \* services the operator may ask for
  ServerMayFail  \* the socket's directory may be unusable

ASSUME ControlAssumption ==
  /\ Restartable \subseteq Service
  /\ ServerMayFail \in BOOLEAN

VARIABLES
  conn,    \* where handleIPCConnection of each client stands
  asked,   \* the service named in the command
  target   \* the ServiceProcess handleRestartService found

ctVars == <<conn, asked, target>>

CTLTypeOK ==
  /\ conn \in [Client -> {"none", "open", "found", "acked", "closed"}]
  /\ asked \in [Client -> Service \cup {None}]
  /\ target \in [Client -> Run \cup {None}]

CTLInit ==
  /\ conn = [c \in Client |-> "none"]
  /\ asked = [c \in Client |-> None]
  /\ target = [c \in Client |-> None]

-----------------------------------------------------------------------------
(* startIPCServer and the accept loop.                                     *)

\* removeSocketFileIfPresent and net.Listen.
Listen ==
  /\ boot = "listen"
  /\ boot' = "publish"
  /\ listener' = "bound"
  /\ UNCHANGED <<lcVars, exitCode, once, waiter, starter, sig, exited, status, ctVars>>

\* Listen or Chmod fails: only a warning, and the supervisor goes on without.
ServerFails ==
  /\ ServerMayFail
  /\ boot \in {"listen", "publish"}
  /\ boot' = "load"
  /\ listener' = "none"
  /\ UNCHANGED <<lcVars, exitCode, once, waiter, starter, sig, exited, status, ctVars>>

\* ipcServer is assigned, and the accept loop started.  A shutdown that began
\* before is not ordered with the assignment.
PublishServer ==
  /\ boot = "publish"
  /\ boot' = "load"
  /\ listener' = IF once = "idle" THEN "up" ELSE "racing"
  /\ UNCHANGED <<lcVars, exitCode, once, waiter, starter, sig, exited, status, ctVars>>

-----------------------------------------------------------------------------
(* handleIPCConnection.  A connection is accepted and its command decoded  *)
(* in one step; from then on it survives the closing of the listener.      *)

Accept(c) ==
  /\ listener \in {"up", "racing"}
  /\ conn[c] = "none"
  /\ UNCHANGED <<lcVars, sdVars, target>>

\* What `list` reads of a registered service, and `status` counts.
Listed(s) == state[active[s]]

\* A command that is broken, late or unknown, and `list` and `status`, which
\* read under servicesMutex: the answer is sent and nothing changes.
AnswerAtOnce(c) ==
  /\ Accept(c)
  /\ conn' = [conn EXCEPT ![c] = "closed"]
  /\ UNCHANGED asked

AcceptRestart(c, s) ==
  /\ Accept(c)
  /\ conn' = [conn EXCEPT ![c] = "open"]
  /\ asked' = [asked EXCEPT ![c] = s]

\* The answer is sent, and the connection with all it knows is gone.
CloseConnection(c) ==
  /\ conn' = [conn EXCEPT ![c] = "closed"]
  /\ asked' = [asked EXCEPT ![c] = None]
  /\ target' = [target EXCEPT ![c] = None]
  /\ UNCHANGED <<lcVars, sdVars>>

\* The lookup in activeServices, under servicesMutex.
FindService(c) ==
  /\ conn[c] = "open"
  /\ active[asked[c]] # None
  /\ target' = [target EXCEPT ![c] = active[asked[c]]]
  /\ conn' = [conn EXCEPT ![c] = "found"]
  /\ UNCHANGED <<lcVars, sdVars, asked>>

ServiceNotFound(c) == conn[c] = "open" /\ active[asked[c]] = None /\ CloseConnection(c)

\* Mutant of AckRestart: the intent is stored, not compared and swapped.
AckOverwrites(c) ==
  /\ conn[c] = "found"
  /\ intent' = [intent EXCEPT ![target[c]] = "operator"]
  /\ stopped' = [stopped EXCEPT ![target[c]] = TRUE]
  /\ conn' = [conn EXCEPT ![c] = "acked"]
  /\ UNCHANGED <<pc, proc, exitErr, seen, state, timer, active, wg, counts, first,
                 cancelled, relaunched, sdVars, asked, target>>

\* Mutant of AckRestart: whether RequestStop succeeded is not looked at.
AckAnyway(c) ==
  /\ conn[c] = "found"
  /\ RequestStop(target[c], "operator") \/ (intent[target[c]] # "none" /\ UNCHANGED lcVars)
  /\ conn' = [conn EXCEPT ![c] = "acked"]
  /\ UNCHANGED <<sdVars, asked, target>>

\* RequestStop: the client is told that the restart was initiated ...
AckRestart(c) ==
  /\ conn[c] = "found"
  /\ RequestStop(target[c], "operator")
  /\ conn' = [conn EXCEPT ![c] = "acked"]
  /\ UNCHANGED <<sdVars, asked, target>>

\* ... or that the service is already stopping or restarting.
RefuseRestart(c) == conn[c] = "found" /\ intent[target[c]] # "none" /\ CloseConnection(c)
=============================================================================
