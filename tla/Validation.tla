----------------------------- MODULE Validation -----------------------------
(***************************************************************************)
(* From the configuration file to the services that boot: parseConfig,     *)
(* validateConfig with the overrides of the environment, and the search    *)
(* for cycles (config.go, validation.go, env.go).  What is accepted here   *)
(* is what StartupAssumption and LifecycleAssumption take for granted.     *)
(***************************************************************************)
EXTENDS Sequences, FiniteSetsExt

CONSTANTS
  Name,       \* the names in the file, "" when a service has none
  WellNamed,  \* those of letters, digits, dashes and underscores only
  Inputs,     \* what can be read: the services of the file and the environment
  Lower,      \* the name of a service in lower case
  Token       \* its serviceEnvToken, under which GO_OVERLAY_ENABLE_ names it

Service ==
  [name : Name, enabled : {"unset", "true", "false"},
   deps : Seq(Name), waits : SUBSET Name,
   command : BOOLEAN, runnable : BOOLEAN,
   restart : {"", "never", "on-failure", "always", "other"}, oneshot : BOOLEAN]

\* A file is a sequence of services; nothing is assumed of the environment.
ASSUME ValidationAssumption ==
  \A input \in Inputs :
    /\ input.services \in Seq(Service)
    /\ input = [services |-> input.services, env |-> input.env]

VARIABLES
  file,      \* the services as read
  env,       \* GO_OVERLAY_ONLY_SERVICES, _ENABLE_ and _DISABLE_ variables
  services,  \* config.Services as far as it is processed, by position in file
  errors,    \* the fields ValidationErrors speaks of
  phase,
  roots,     \* names hasCycles has still to be called for
  path,      \* the names of its calls under way, outermost first
  next,      \* the dependency each of them looks at next
  visited,   \* its visited map
  onStack    \* its recursionStack map

fileVars == <<file, env>>
searchVars == <<roots, path, next, visited, onStack>>
vlVars == <<fileVars, services, errors, phase, searchVars>>

VLTypeOK ==
  /\ [services |-> file, env |-> env] \in Inputs
  /\ DOMAIN services \subseteq DOMAIN file
  /\ \A i \in DOMAIN services : services[i] \in Service
  /\ errors \subseteq {"name", "command", "fields", "restart", "dependencies"}
  /\ phase \in {"read", "parsed", "scanned", "selected", "checked",
                "searching", "accepted", "rejected"}
  /\ phase \notin {"read", "parsed"} =>
       \A i \in DOMAIN services : services[i].enabled \in {"true", "false"}
  /\ roots \subseteq Name
  /\ path \in Seq(Name)
  /\ next \in [Name -> Nat \ {0}]
  /\ visited \subseteq Name
  /\ onStack \subseteq Name

VLInit ==
  /\ \E input \in Inputs :
       /\ file = input.services
       /\ env = input.env
       /\ services = input.services
  /\ errors = {}
  /\ phase = "read"
  /\ roots = {} /\ path = <<>> /\ next = [n \in Name |-> 1]
  /\ visited = {} /\ onStack = {}

Enabled(s) == s.enabled # "false"

\* A service without a name is dropped.
ParseConfig ==
  /\ phase = "read"
  /\ phase' = "parsed"
  /\ services' = [i \in {k \in DOMAIN file : file[k].name # ""} |-> file[i]]
  /\ UNCHANGED <<fileVars, errors, searchVars>>

Duplicated == \E i, k \in DOMAIN services : i # k /\ services[i].name = services[k].name

\* Mutant of ScanServices: enabled is left unset.
ScanKeepsUnset ==
  /\ phase = "parsed"
  /\ phase' = "scanned"
  /\ errors' = IF Duplicated THEN {"name"} ELSE {}
  /\ UNCHANGED <<fileVars, services, searchVars>>

ScanServices ==
  /\ phase = "parsed"
  /\ phase' = "scanned"
  /\ errors' = IF Duplicated THEN {"name"} ELSE {}
  /\ services' = [i \in DOMAIN services |->
                    IF services[i].enabled = "unset"
                    THEN [services[i] EXCEPT !.enabled = "true"] ELSE services[i]]
  /\ UNCHANGED <<fileVars, searchVars>>

-----------------------------------------------------------------------------
(* applyServiceEnvOverrides.  A value parseBoolEnv does not know is        *)
(* ignored.                                                                *)

OnlyMode(s) == IF env.only = {} THEN Enabled(s) ELSE Lower[s.name] \in env.only

EnableOverride(s) ==
  LET value == env.enable[Token[s.name]]
  IN IF value \in {"true", "false"} THEN value = "true" ELSE OnlyMode(s)

Selected(s) == EnableOverride(s) /\ env.disable[Token[s.name]] # "true"

ApplyServiceEnvOverrides ==
  /\ phase = "scanned"
  /\ phase' = "selected"
  /\ services' = [i \in DOMAIN services |->
                    [services[i] EXCEPT !.enabled =
                       IF Selected(services[i]) THEN "true" ELSE "false"]]
  /\ UNCHANGED <<fileVars, errors, searchVars>>

-----------------------------------------------------------------------------
\* validateRestartPolicy
RestartErrors(s) ==
  \/ s.restart \notin {"", "never", "on-failure", "always"}
  \/ s.oneshot /\ s.restart \in {"always", "on-failure"}

\* The name must be well formed and the command given in any case; whether the
\* command is found and the scripts, files, user, numbers and health check are
\* fine matters if the service is enabled.
ServiceErrors(s) ==
  (IF s.name \in WellNamed THEN {} ELSE {"name"})
    \cup (IF s.command THEN {} ELSE {"command"})
    \cup (IF Enabled(s) /\ ~s.runnable THEN {"fields"} ELSE {})
    \cup (IF Enabled(s) /\ RestartErrors(s) THEN {"restart"} ELSE {})

ValidateServices ==
  /\ phase = "selected"
  /\ phase' = "checked"
  /\ errors' = errors \cup UNION {ServiceErrors(services[i]) : i \in DOMAIN services}
  /\ UNCHANGED <<fileVars, services, searchVars>>

-----------------------------------------------------------------------------
(* validateDependencies.  Its maps keep the last service of each name.     *)

NamedAt(name) == {i \in DOMAIN services : services[i].name = name}
EnabledAt(name) == {i \in NamedAt(name) : Enabled(services[i])}

EnabledNames == {services[i].name : i \in {k \in DOMAIN services : Enabled(services[k])}}

BrokenRef(dep) == NamedAt(dep) = {} \/ ~Enabled(services[Max(NamedAt(dep))])

\* validateDependencyRefs and validateWaitAfterRefs
BrokenRefs(s) ==
  \/ \E i \in DOMAIN s.deps : BrokenRef(s.deps[i])
  \/ ~ (s.waits \subseteq Range(s.deps))

Reject ==
  /\ errors' = errors \cup {"dependencies"}
  /\ phase' = "rejected"

CheckRefs ==
  /\ phase = "checked"
  /\ IF \E i \in DOMAIN services : Enabled(services[i]) /\ BrokenRefs(services[i])
     THEN Reject /\ UNCHANGED roots
     ELSE phase' = "searching" /\ roots' = EnabledNames /\ UNCHANGED errors
  /\ UNCHANGED <<fileVars, services, path, next, visited, onStack>>

-----------------------------------------------------------------------------
(* hasCycles, one step for each turn of its loop.  Whatever it is called   *)
(* for is an enabled service by now: no reference is broken.               *)

Deps(name) == services[Max(EnabledAt(name))].deps

\* Mutant of OnStack: only a service that depends on itself is a cycle.
AloneOnStack(dep) == onStack = {dep}

OnStack(dep) == dep \in onStack

\* Mutant of Leave: the service stays on the stack.
NeverLeave(name) == onStack' = onStack

Leave(name) == onStack' = onStack \ {name}

Calling == phase = "searching" /\ path # <<>>
Caller == path[Len(path)]
HasNext == next[Caller] <= Len(Deps(Caller))
NextDep == Deps(Caller)[next[Caller]]

\* Mutant of Advance: the loop looks at the same dependency again.
LookAgain == next' = next

Advance == next' = [next EXCEPT ![Caller] = @ + 1]

\* The loop of validateDependencies: each call has maps of its own.
BeginSearch(name) ==
  /\ phase = "searching" /\ path = <<>>
  /\ roots' = roots \ {name}
  /\ path' = <<name>> /\ next' = [n \in Name |-> 1]
  /\ visited' = {name} /\ onStack' = {name}
  /\ UNCHANGED <<fileVars, services, errors, phase>>

FollowDependency ==
  /\ Calling /\ HasNext /\ NextDep \notin visited
  /\ Advance
  /\ path' = Append(path, NextDep)
  /\ visited' = visited \cup {NextDep} /\ onStack' = onStack \cup {NextDep}
  /\ UNCHANGED <<fileVars, services, errors, phase, roots>>

PassDependency ==
  /\ Calling /\ HasNext /\ NextDep \in visited /\ ~OnStack(NextDep)
  /\ Advance
  /\ UNCHANGED <<fileVars, services, errors, phase, roots, path, visited, onStack>>

FindCycle ==
  /\ Calling /\ HasNext /\ NextDep \in visited /\ OnStack(NextDep)
  /\ Reject
  /\ UNCHANGED <<fileVars, services, searchVars>>

EndCall ==
  /\ Calling /\ ~HasNext
  /\ Leave(Caller)
  /\ path' = SubSeq(path, 1, Len(path) - 1)
  /\ UNCHANGED <<fileVars, services, errors, phase, roots, next, visited>>

EndSearch ==
  /\ phase = "searching" /\ path = <<>> /\ roots = {}
  /\ phase' = IF errors = {} THEN "accepted" ELSE "rejected"
  /\ UNCHANGED <<fileVars, services, errors, searchVars>>

VLNext ==
  \/ ParseConfig \/ ScanServices \/ ApplyServiceEnvOverrides
  \/ ValidateServices \/ CheckRefs
  \/ \E name \in roots : BeginSearch(name)
  \/ FollowDependency \/ PassDependency \/ FindCycle \/ EndCall \/ EndSearch

VLSpec == VLInit /\ [][VLNext]_vlVars

-----------------------------------------------------------------------------
(* What the documentation promises, stated on the file as it was read.     *)

\* The sources of the decision, highest precedence first
\* (docs/CLI-COMMANDS.md:161-165).
Wanted(s) ==
  LET enable == env.enable[Token[s.name]]
      disable == env.disable[Token[s.name]]
  IN CASE disable = "true" -> FALSE
       [] disable # "true" /\ enable \in {"true", "false"} -> enable = "true"
       [] OTHER -> IF env.only # {} THEN Lower[s.name] \in env.only
                   ELSE s.enabled # "false"

Present == {i \in DOMAIN file : file[i].name # ""}
Booting == {file[i] : i \in {k \in Present : Wanted(file[k])}}
BootingNames == {s.name : s \in Booting}

\* Some ranking of the services that boot puts dependencies first.
Acyclic ==
  \E rank \in [BootingNames -> 1..Len(file)] :
    \A s \in Booting : \A i \in DOMAIN s.deps : rank[s.deps[i]] < rank[s.name]

\* What is asked of every service with a name, wanted or not.
WellFormed ==
  /\ \A i, k \in Present : file[i].name = file[k].name => i = k
  /\ \A i \in Present : file[i].name \in WellNamed /\ file[i].command

\* What it takes to start the services that are wanted.
Bootable ==
  /\ \A s \in Booting :
       /\ s.runnable
       /\ s.restart \in {"", "never"} \/ (s.restart \in {"on-failure", "always"} /\ ~s.oneshot)
       /\ Range(s.deps) \subseteq BootingNames
       /\ s.waits \subseteq Range(s.deps)
  /\ Acyclic

Valid == WellFormed /\ Bootable

\* What is accepted is well formed and can boot: exactly the wanted services are
\* enabled, each of their dependencies is among them, and no two wait for each
\* other (validateDependencies, hasCycles; "If an enabled service depends on a
\* disabled one, go-overlay returns a validation error",
\* docs/CLI-COMMANDS.md:167).
AcceptedCanBoot ==
  phase = "accepted" =>
    /\ Valid
    /\ EnabledNames = BootingNames

\* Nothing well formed that can boot is turned down: neither a diamond of
\* dependencies nor whatever an unwanted service depends on, is to be restarted
\* by or could not run (hasCycles, validateService).  A bad name or a missing
\* command is enough to turn a file down, even of a service that is not wanted
\* (validateServiceName, validateRequiredFields).
RejectedIsInvalid == phase = "rejected" => ~Valid

\* The search ends: each of its steps leaves fewer roots, or finishes a service
\* or looks at one more of its dependencies and takes nothing back, and there
\* are only so many of each (validateDependencies, hasCycles).
GetsOn ==
  \/ roots' \subseteq roots /\ roots' # roots
  \/ /\ roots' = roots
     /\ visited \subseteq visited' /\ visited' \subseteq EnabledNames
     /\ visited \ onStack \subseteq visited' \ onStack'
     /\ \A n \in visited : next[n] <= next'[n] /\ next'[n] <= Len(Deps(n)) + 1
     /\ \/ visited' \ onStack' # visited \ onStack
        \/ \E n \in visited : next[n] < next'[n]

SearchGetsOn == [][phase = "searching" /\ phase' = "searching" => GetsOn]_vlVars
=============================================================================
