------------------------------ MODULE Contract ------------------------------
(***************************************************************************)
(* What the supervisor promises about one service, with no run, process,   *)
(* timer or registry in sight: the service is launched once at boot; each  *)
(* time it ends it either stays down or is put back, at most MaxRestarts   *)
(* times in a row by its policy and never by the policy "never"; the       *)
(* operator gives it a fresh budget; once the shutdown began nothing is    *)
(* put back.  Lifecycle implements it.                                     *)
(***************************************************************************)
EXTENDS Integers

CONSTANTS Service, Restart, MaxRestarts

VARIABLES
  phase,    \* idle (never launched), up, backoff (to be restarted) or down
  budget,   \* policy restarts granted since the last operator restart
  halted    \* the shutdown began

contractVars == <<phase, budget, halted>>

CTInit ==
  /\ phase = [s \in Service |-> "idle"]
  /\ budget = [s \in Service |-> 0]
  /\ halted = FALSE

Launch(s) ==
  /\ phase[s] = "idle"
  /\ phase' = [phase EXCEPT ![s] = "up"]
  /\ UNCHANGED <<budget, halted>>

\* The service stays down.
Ends(s) ==
  /\ phase[s] = "up"
  /\ phase' = [phase EXCEPT ![s] = "down"]
  /\ UNCHANGED <<budget, halted>>

\* The policy grants one more restart.
Grant(s) ==
  /\ phase[s] = "up"
  /\ Restart[s] # "never"
  /\ MaxRestarts[s] > 0 => budget[s] < MaxRestarts[s]
  /\ phase' = [phase EXCEPT ![s] = "backoff"]
  /\ budget' = [budget EXCEPT ![s] = @ + 1]
  /\ UNCHANGED halted

OperatorRestart(s) ==
  /\ phase[s] = "up"
  /\ phase' = [phase EXCEPT ![s] = "backoff"]
  /\ budget' = [budget EXCEPT ![s] = 0]
  /\ UNCHANGED halted

Relaunch(s) ==
  /\ phase[s] = "backoff"
  /\ ~halted
  /\ phase' = [phase EXCEPT ![s] = "up"]
  /\ UNCHANGED <<budget, halted>>

Abandon(s) ==
  /\ phase[s] = "backoff"
  /\ halted
  /\ phase' = [phase EXCEPT ![s] = "down"]
  /\ UNCHANGED <<budget, halted>>

Halt ==
  /\ halted' = TRUE
  /\ UNCHANGED <<phase, budget>>

CTNext ==
  \/ \E s \in Service : \/ Launch(s) \/ Ends(s) \/ Grant(s) \/ OperatorRestart(s)
                        \/ Relaunch(s) \/ Abandon(s)
  \/ Halt

CTSpec == CTInit /\ [][CTNext]_contractVars
=============================================================================
