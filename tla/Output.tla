------------------------------- MODULE Output -------------------------------
(***************************************************************************)
(* The output of a service without log_file (attachServiceOutput,          *)
(* streamServiceLogs, closeServiceOutput): whoever is left of its process  *)
(* group writes to the slave side of a terminal, one goroutine reads the   *)
(* master side and prints, and startService closes the master once the     *)
(* leader is waited for.  A piece of output is a line, or as much of an    *)
(* overlong one as fills the reader's buffer.                              *)
(***************************************************************************)
EXTENDS Groups

CONSTANTS
  Terminal,  \* the services whose output goes to a terminal
  Pieces,    \* bound: how many pieces a service writes
  Overlong,  \* which of them end at logStreamBufferSize, not at a newline
  Capacity   \* pieces the terminal holds before a writer blocks

ASSUME OutputAssumption ==
  /\ Terminal \subseteq Supervised
  /\ Pieces \in Nat
  /\ Overlong \subseteq 1..Pieces
  /\ Capacity \in Nat \ {0}

VARIABLES
  ptmx,    \* the master side of the terminal
  reader,  \* the goroutine of streamServiceLogs
  wrote,   \* pieces written to the terminal
  took     \* pieces the reader took out of it, in order, to print them

ouVars == <<ptmx, reader, wrote, took>>

OUTypeOK ==
  /\ RPTypeOK /\ GPTypeOK
  /\ ptmx \in [Terminal -> {"none", "open", "closed"}]
  /\ reader \in [Terminal -> {"off", "reading", "ended"}]
  /\ wrote \in [Terminal -> 0..Pieces]
  /\ took \in [Terminal -> 0..Pieces]
  /\ \A t \in Terminal : wrote[t] - took[t] \in 0..Capacity

TerminalInit ==
  /\ ptmx = [t \in Terminal |-> "none"]
  /\ reader = [t \in Terminal |-> "off"]
  /\ wrote = [t \in Terminal |-> 0]
  /\ took = [t \in Terminal |-> 0]

\* pty.Start, before startService tracks the process.
OpenTerminal(t) ==
  /\ ptmx' = IF t \in Terminal THEN [ptmx EXCEPT ![t] = "open"] ELSE ptmx
  /\ UNCHANGED <<reader, wrote, took>>

\* The leader and its descendants share the terminal.
Write(t) ==
  /\ ptmx[t] = "open"
  /\ \E p \in Group(t) : state[p] = "running"
  /\ wrote[t] < Pieces
  /\ wrote[t] - took[t] < Capacity
  /\ wrote' = [wrote EXCEPT ![t] = @ + 1]
  /\ UNCHANGED <<ptmx, reader, took>>

StartReader(t) ==
  /\ owner[t] = "tracked"
  /\ reader[t] = "off"
  /\ reader' = [reader EXCEPT ![t] = "reading"]
  /\ UNCHANGED <<ptmx, wrote, took>>

\* Mutant of ReadSlice: a line that does not fit the buffer ends the stream.
ReadStopsAtLongLine(t) ==
  /\ reader[t] = "reading"
  /\ ptmx[t] = "open"
  /\ took[t] < wrote[t]
  /\ took' = [took EXCEPT ![t] = @ + 1]
  /\ reader' = [reader EXCEPT ![t] = IF took[t] + 1 \in Overlong THEN "ended" ELSE @]
  /\ UNCHANGED <<ptmx, wrote>>

\* A line, or bufio.ErrBufferFull: both are printed, and the loop goes on.
ReadSlice(t) ==
  /\ reader[t] = "reading"
  /\ ptmx[t] = "open"
  /\ took[t] < wrote[t]
  /\ took' = [took EXCEPT ![t] = @ + 1]
  /\ UNCHANGED <<ptmx, reader, wrote>>

\* os.ErrClosed; or EIO, once nobody has the slave open and all is read.
StreamClosed(t) ==
  /\ reader[t] = "reading"
  /\ \/ ptmx[t] = "closed"
     \/ took[t] = wrote[t] /\ \A p \in Group(t) : state[p] # "running"
  /\ reader' = [reader EXCEPT ![t] = "ended"]
  /\ UNCHANGED <<ptmx, wrote, took>>

\* startService goes on from untrackChild.
CloseServiceOutput(t) ==
  /\ owner[t] = "done"
  /\ ptmx[t] = "open"
  /\ ptmx' = [ptmx EXCEPT ![t] = "closed"]
  /\ UNCHANGED <<reader, wrote, took>>

\* The waiter goroutine starts after the reader.
WaitAfterReader(t) == (t \in Terminal => reader[t] # "off") /\ Wait(t)

Streamer(t) == ReadSlice(t) \/ StreamClosed(t)
StartService(t) == StartReader(t) \/ CloseServiceOutput(t)

-----------------------------------------------------------------------------
(* The composition: owners, reaper, stops and output.                      *)

ouAll == <<rpVars, gpVars, ouVars>>

OfProcess(A) == A /\ UNCHANGED <<gpVars, ouVars>>

OwnerGoesOn(t) ==
  \/ OfProcess(TrackChild(t)) \/ OfProcess(WaitAfterReader(t)) \/ OfProcess(Untrack(t))

StopGoesOn(t) == Stopper(t) /\ UNCHANGED <<rpVars, ouVars>>
OutputGoesOn(t) == (Streamer(t) \/ StartService(t)) /\ UNCHANGED <<rpVars, gpVars>>

OUNext ==
  \/ \E t \in Task : Start(t) /\ OpenTerminal(t) /\ UNCHANGED gpVars
  \/ \E t \in Task : OwnerGoesOn(t)
  \/ OfProcess(Kernel \/ Reaper)
  \/ \E t \in Supervised :
       \/ StopGoesOn(t)
       \/ (BeginStop(t) \/ ForceKill(t)) /\ UNCHANGED <<rpVars, ouVars>>
  \/ \E t \in Terminal : OutputGoesOn(t) \/ (Write(t) /\ UNCHANGED <<rpVars, gpVars>>)

OUInit == RPInit /\ GPInit /\ TerminalInit

OUSpec == OUInit /\ [][OUNext]_ouAll

\* Goroutines go on, the reaper's ticker ticks, timeouts pass, a killed process
\* exits.  Nothing else is assumed of processes, and no SIGCHLD need arrive.
OUFairSpec ==
  /\ OUSpec
  /\ \A t \in Task : WF_ouAll(OwnerGoesOn(t))
  /\ \A t \in Supervised : WF_ouAll(StopGoesOn(t))
  /\ \A t \in Terminal : WF_ouAll(OutputGoesOn(t))
  /\ WF_ouAll(OfProcess(OnTick)) /\ WF_ouAll(OfProcess(ReapOrphans))
  /\ \A t \in Supervised : WF_ouAll(sent[t] = "KILL" /\ OfProcess(Exits(t)))

-----------------------------------------------------------------------------
\* Until the service is over, everything it writes is printed, however long
\* its lines are, and so no writer stays blocked (streamServiceLogs;
\* specs/supervisor-hardening.spec.yaml:12 "Linha de log maior que o buffer
\* nao interrompe o stream").
OutputFlows ==
  \A t \in Terminal, n \in 1..Pieces :
    wrote[t] >= n ~> took[t] >= n \/ ptmx[t] = "closed"

\* What a service wrote before it ended is printed (specs/supervisor-
\* hardening.spec.yaml:6 "sem perda de log").
NoOutputLost == \A t \in Terminal : ptmx[t] = "closed" => took[t] = wrote[t]
=============================================================================
