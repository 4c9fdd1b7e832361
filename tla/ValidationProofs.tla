-------------------------- MODULE ValidationProofs --------------------------
(***************************************************************************)
(* Proofs about Validation, for every set of files and environments.       *)
(***************************************************************************)
EXTENDS Validation, FiniteSetTheorems, SequenceTheorems, TLAPS

\* What an enabled service waits for, as hasCycles and the boot will see it.
DepsOf == [n \in EnabledNames |-> Range(Deps(n))]

Closed(deps, F) == \A n \in F : deps[n] \subseteq F

\* No circular wait: among any of the nodes, some node waits for none of them.
Grounded(deps, F) ==
  \A C \in SUBSET F : C # {} => \E n \in C : deps[n] \cap C = {}

-----------------------------------------------------------------------------
(* The inductive invariant.                                                *)

\* The services with what has been decided about them so far.
ServicesInv ==
  /\ phase # "read" => DOMAIN services = Present
  /\ phase = "parsed" => \A i \in Present : services[i] = file[i]
  /\ phase = "scanned" =>
       \A i \in Present :
         services[i] = [file[i] EXCEPT !.enabled = IF @ = "unset" THEN "true" ELSE @]
  /\ phase \notin {"read", "parsed", "scanned"} =>
       \A i \in Present :
         services[i] = [file[i] EXCEPT !.enabled = IF Wanted(file[i]) THEN "true" ELSE "false"]

\* hasCycles is called for enabled services only, once the references of all
\* of them are sound.
KnownInv ==
  /\ phase \in {"read", "parsed", "scanned", "selected", "checked"} =>
       /\ roots = {} /\ path = <<>> /\ visited = {} /\ onStack = {}
       /\ next = [n \in Name |-> 1]
  /\ phase \in {"searching", "accepted"} =>
       /\ \A i \in DOMAIN services : Enabled(services[i]) => ~BrokenRefs(services[i])
       /\ roots \cup visited \subseteq EnabledNames

Finished == visited \ onStack

\* The calls under way are a path of dependencies, and what they have looked
\* at so far is finished or is the call they are in.
CallsInv ==
  /\ \A i, j \in 1..Len(path) : path[i] = path[j] => i = j
  /\ onStack = {path[i] : i \in 1..Len(path)}
  /\ onStack \subseteq visited
  /\ \A n \in Name \ visited : next[n] = 1
  /\ \A n \in visited : next[n] <= Len(Deps(n)) + 1
  /\ \A n \in Finished : next[n] = Len(Deps(n)) + 1
  /\ \A i \in 1..(Len(path) - 1) :
       next[path[i]] > 1 /\ Deps(path[i])[next[path[i]] - 1] = path[i + 1]
  /\ \A n \in visited : \A k \in 1..(next[n] - 1) :
       \/ Deps(n)[k] \in Finished
       \/ k = next[n] - 1 /\ \E i \in 1..(Len(path) - 1) : path[i] = n

\* Nothing found so far waits in a circle.
Sound(n) ==
  \E F \in SUBSET EnabledNames : n \in F /\ Closed(DepsOf, F) /\ Grounded(DepsOf, F)

GroundedInv ==
  /\ Grounded(DepsOf, Finished)
  /\ \A n \in EnabledNames \ (roots \cup visited) : Sound(n)

\* An error means that the file is not valid, and no error so far that what was
\* looked at is right.
ErrorsInv ==
  /\ errors # {} => ~Valid
  /\ phase = "rejected" => errors # {}
  /\ phase \notin {"read", "parsed"} /\ errors = {} =>
       \A i, k \in Present : file[i].name = file[k].name => i = k
  /\ phase \in {"checked", "searching", "accepted"} /\ errors = {} =>
       \A i \in Present :
         /\ file[i].name \in WellNamed /\ file[i].command
         /\ Wanted(file[i]) => file[i].runnable /\ ~RestartErrors(file[i])
  /\ phase = "accepted" => errors = {} /\ Grounded(DepsOf, EnabledNames)

ValidationInv ==
  /\ VLTypeOK
  /\ ServicesInv
  /\ KnownInv
  /\ phase = "searching" => CallsInv /\ GroundedInv
  /\ ErrorsInv


-----------------------------------------------------------------------------
(* Numbers and graphs.                                                     *)

\* A set of natural numbers that is not empty has a least member.
LEMMA LeastNumber ==
  ASSUME NEW T \in SUBSET Nat, T # {}
  PROVE  \E least \in T : \A t \in T : least <= t
<1> DEFINE below(t) == {u \in T : u < t}
           lower == {below(t) : t \in T}
<1>n. \A t \in T : t \in Nat
  OBVIOUS
<1>1. \A t \in T : below(t) \in FiniteSubsetsOf(Nat)
  <2> SUFFICES ASSUME NEW t \in T
               PROVE  below(t) \in SUBSET Nat /\ IsFiniteSet(below(t))
    BY Zenon DEF FiniteSubsetsOf
  <2>0. \A u \in below(t) : u \in Nat /\ u < t
    BY <1>n
  <2>1. t \in Nat /\ below(t) \in SUBSET Nat /\ \A u \in below(t) : u <= t
    <3> HIDE DEF below
    <3> QED
      BY <2>0, <1>n
  <2> HIDE DEF below
  <2> QED
    BY <2>1, FS_BoundedSetOfNaturals
<1>2. PICK low \in lower : \A other \in lower : <<other, low>> \notin StrictSubsetOrdering(Nat)
  <2>1. lower \subseteq FiniteSubsetsOf(Nat) /\ lower # {}
    BY <1>1, Zenon
  <2> HIDE DEF lower
  <2> QED
    BY <2>1, FS_StrictSubsetOrderingWellFounded, WFMin
<1>3. PICK least \in T : low = below(least)
  BY <1>2
<1>4. ASSUME NEW t \in T, t < least PROVE FALSE
  <2>1. t \in below(least) /\ t \notin below(t)
    BY <1>4, <1>n
  <2>2. \A u \in T : u < t => u < least
    BY <1>4, <1>n
  <2>3. below(t) \subseteq below(least)
    BY <2>2
  <2>4. below(t) \in SUBSET Nat /\ below(least) \in SUBSET Nat
    BY <1>n
  <2>5. <<below(t), low>> \in StrictSubsetOrdering(Nat)
    BY <2>1, <2>3, <2>4, <1>3 DEF StrictSubsetOrdering
  <2> QED
    BY <2>5, <1>2
<1> QED
  BY <1>4

\* What Max returns for some of the positions of a file (the maps of
\* validateDependencies keep the last service of each name).
LEMMA LastPosition ==
  ASSUME NEW n \in Nat, NEW T \in SUBSET (1..n), T # {}
  PROVE  Max(T) \in T /\ \A t \in T : t <= Max(T)
<1> DEFINE gaps == {n - t : t \in T}
<1>1. gaps \in SUBSET Nat /\ gaps # {}
  <2>1. \A t \in T : t \in 1..n
    OBVIOUS
  <2>2. \A t \in 1..n : n - t \in Nat
    OBVIOUS
  <2>3. \A t \in T : n - t \in Nat
    BY <2>1, <2>2
  <2>4. gaps \subseteq Nat
    BY <2>3
  <2>5. PICK t \in T : TRUE
    OBVIOUS
  <2>6. n - t \in gaps
    BY <2>5
  <2> QED
    BY <2>4, <2>6
<1>2. PICK least \in gaps : \A gap \in gaps : least <= gap
  <2> HIDE DEF gaps
  <2> QED
    BY <1>1, LeastNumber
<1>3. PICK last \in T : least = n - last
  BY <1>2
<1>4. \A t \in T : n - t \in gaps
  OBVIOUS
<1>5. \A t \in T : last >= t
  BY <1>2, <1>3, <1>4
<1> QED
  BY <1>5 DEF Max
-----------------------------------------------------------------------------
(* Graphs: deps[n] is the set of nodes n waits for.                        *)

\* A ranking that puts dependencies first leaves no circular wait.
LEMMA RankGrounds ==
  ASSUME NEW N, NEW deps, NEW size \in Nat, NEW rank \in [N -> 1..size],
         \A n \in N : \A d \in deps[n] : rank[d] < rank[n]
  PROVE  Grounded(deps, N)
<1> SUFFICES ASSUME NEW C \in SUBSET N, C # {}
             PROVE  \E n \in C : deps[n] \cap C = {}
  BY DEF Grounded
<1> DEFINE ranks == {rank[n] : n \in C}
<1>0. \A n \in C : rank[n] \in Nat
  BY SMT
<1>1. ranks \in SUBSET Nat /\ ranks # {}
  BY <1>0
<1>2. PICK least \in ranks : \A r \in ranks : least <= r
  <2> HIDE DEF ranks
  <2> QED
    BY <1>1, LeastNumber
<1>3. PICK n \in C : least = rank[n]
  BY <1>2
<1>4. \A d \in C : rank[n] <= rank[d]
  BY <1>2, <1>3
<1>5. \A d \in C : ~(rank[d] < rank[n])
  BY <1>0, <1>4
<1> QED
  BY <1>5

\* Where there is no circular wait the nodes can be ranked: count those a node
\* waits for, directly or not, and the node itself.
LEMMA RankExists ==
  ASSUME NEW N, IsFiniteSet(N), NEW deps \in [N -> SUBSET N], Grounded(deps, N)
  PROVE  \E rank \in [N -> 1..Cardinality(N)] :
           \A n \in N : \A d \in deps[n] : rank[d] < rank[n]
<1> DEFINE Below(n) == {m \in N : \A F \in SUBSET N : Closed(deps, F) /\ n \in F => m \in F}
<1>1. ASSUME NEW n \in N
      PROVE  n \in Below(n) /\ Closed(deps, Below(n)) /\ deps[n] \subseteq Below(n)
  <2>1. n \in Below(n)
    OBVIOUS
  <2>2. ASSUME NEW m \in Below(n), NEW d \in deps[m] PROVE d \in Below(n)
    <3>1. m \in N /\ d \in N
      OBVIOUS
    <3>2. ASSUME NEW F \in SUBSET N, Closed(deps, F), n \in F PROVE d \in F
      <4>1. m \in F
        BY <3>2
      <4> QED
        BY <4>1, <3>2 DEF Closed
    <3> QED
      BY <3>1, <3>2
  <2>3. Closed(deps, Below(n))
    BY <2>2 DEF Closed
  <2> QED
    BY <2>1, <2>3 DEF Closed
<1>2. ASSUME NEW n \in N, NEW m \in Below(n)
      PROVE  m \in N /\ Below(m) \subseteq Below(n)
  <2>1. m \in N /\ Below(n) \in SUBSET N
    OBVIOUS
  <2>2. \A k \in Below(m) : k \in Below(n)
    BY <2>1, <1>1
  <2> QED
    BY <2>1, <2>2
<1>3. ASSUME NEW n \in N, NEW d \in deps[n], n \in Below(d)
      PROVE  FALSE
  <2> DEFINE C == {m \in Below(n) : n \in Below(m)}
  <2>1. n \in C /\ C \in SUBSET N
    BY <1>1
  <2>2. PICK m \in C : deps[m] \cap C = {}
    <3> HIDE DEF C
    <3> QED
      BY <2>1 DEF Grounded
  <2>3. m \in N /\ m \in Below(n) /\ n \in Below(m)
    OBVIOUS
  <2>4. \A k \in deps[m] : k \in Below(n)
    BY <2>3, <1>1 DEF Closed
  <2>5. \A k \in deps[m] : n \notin Below(k)
    BY <2>2, <2>4
  <2>6. m # n
    BY <2>5, <1>3
  <2> DEFINE F == {m} \cup UNION {Below(k) : k \in deps[m]}
  <2>7. F \in SUBSET N
    BY <2>3
  <2>8. Closed(deps, F)
    <3>1. deps[m] \subseteq F
      BY <1>1, <2>3
    <3>2. ASSUME NEW k \in deps[m], NEW j \in Below(k) PROVE deps[j] \subseteq F
      <4>1. k \in N
        BY <2>3
      <4>2. deps[j] \subseteq Below(k)
        BY <4>1, <1>1 DEF Closed
      <4> QED
        BY <4>2
    <3> QED
      BY <3>1, <3>2 DEF Closed
  <2>9. n \in F
    <3> HIDE DEF F
    <3>1. \A G \in SUBSET N : Closed(deps, G) /\ m \in G => n \in G
      BY <2>3
    <3>2. m \in F
      BY DEF F
    <3> QED
      BY <3>1, <3>2, <2>7, <2>8
  <2> QED
    BY <2>5, <2>6, <2>9
<1>4. \A n \in N : Below(n) \in SUBSET N
  OBVIOUS
<1> HIDE DEF Below
<1> DEFINE rank == [n \in N |-> Cardinality(Below(n))]
<1>5. ASSUME NEW n \in N
      PROVE  IsFiniteSet(Below(n)) /\ Cardinality(Below(n)) \in 1..Cardinality(N)
  <2>1. IsFiniteSet(Below(n)) /\ Cardinality(Below(n)) <= Cardinality(N)
    BY <1>4, FS_Subset
  <2>2. Cardinality(Below(n)) \in Nat /\ Cardinality(N) \in Nat
    BY <2>1, FS_CardinalityType
  <2>3. Cardinality(Below(n)) # 0
    BY <2>1, <1>1, FS_EmptySet
  <2> QED
    BY <2>1, <2>2, <2>3
<1>6. ASSUME NEW n \in N, NEW d \in deps[n]
      PROVE  d \in N /\ Cardinality(Below(d)) < Cardinality(Below(n))
  <2>1. d \in N /\ d \in Below(n)
    BY <1>1
  <2>2. Below(d) \in SUBSET Below(n) /\ Below(d) # Below(n)
    BY <2>1, <1>1, <1>2, <1>3
  <2>3. Cardinality(Below(d)) <= Cardinality(Below(n)) /\ Cardinality(Below(d)) # Cardinality(Below(n))
    BY <2>2, <1>5, FS_Subset
  <2> QED
    BY <2>1, <2>3, <1>5
<1>7. rank \in [N -> 1..Cardinality(N)]
  BY <1>5
<1>8. \A n \in N : \A d \in deps[n] : rank[d] < rank[n]
  BY <1>6
<1> QED
  BY <1>7, <1>8
-----------------------------------------------------------------------------
(* What the maps of validateDependencies hold.                             *)

\* The file is a sequence of services.
LEMMA FileShape ==
  ASSUME VLTypeOK
  PROVE  /\ file \in Seq(Service)
         /\ Len(file) \in Nat /\ DOMAIN file = 1..Len(file)
         /\ \A i \in DOMAIN file : file[i] \in Service
<1>1. file \in Seq(Service)
  <2> DEFINE input == [services |-> file, env |-> env]
  <2>1. input \in Inputs /\ input.services = file
    BY DEF VLTypeOK
  <2> HIDE DEF input
  <2> QED
    BY <2>1, ValidationAssumption
<1> QED
  BY <1>1, LenProperties, ElementOfSeq

\* The map of enabled services has one for each of their names.
LEMMA EnabledLast ==
  ASSUME VLTypeOK, NEW name \in EnabledNames
  PROVE  LET last == Max(EnabledAt(name))
         IN /\ last \in DOMAIN services
            /\ services[last].name = name /\ Enabled(services[last])
<1>1. Len(file) \in Nat /\ EnabledAt(name) \in SUBSET (1..Len(file))
  BY FileShape DEF EnabledAt, NamedAt, VLTypeOK
<1>2. EnabledAt(name) # {}
  BY DEF EnabledNames, EnabledAt, NamedAt
<1>3. Max(EnabledAt(name)) \in EnabledAt(name)
  BY <1>1, <1>2, LastPosition
<1> QED
  BY <1>3 DEF EnabledAt, NamedAt

\* So has the map of all services; a reference that is not broken is to an
\* enabled service.
LEMMA SoundRef ==
  ASSUME VLTypeOK, NEW dep, ~BrokenRef(dep)
  PROVE  dep \in EnabledNames
<1>1. Len(file) \in Nat /\ NamedAt(dep) \in SUBSET (1..Len(file))
  BY FileShape DEF NamedAt, VLTypeOK
<1>2. NamedAt(dep) # {} /\ Enabled(services[Max(NamedAt(dep))])
  BY DEF BrokenRef
<1>3. Max(NamedAt(dep)) \in NamedAt(dep)
  BY <1>1, <1>2, LastPosition
<1> QED
  BY <1>2, <1>3 DEF NamedAt, EnabledNames

\* The names of enabled services are names.
LEMMA EnabledAreNames ==
  ASSUME VLTypeOK
  PROVE  EnabledNames \subseteq Name
<1>1. \A i \in DOMAIN services : services[i].name \in Name
  BY DEF VLTypeOK, Service
<1> QED
  BY <1>1 DEF EnabledNames

\* Once the references are checked, what hasCycles follows are enabled services.
LEMMA DepsEnabled ==
  ASSUME VLTypeOK, NEW name \in EnabledNames,
         \A i \in DOMAIN services : Enabled(services[i]) => ~BrokenRefs(services[i])
  PROVE  /\ Deps(name) \in Seq(Name)
         /\ Len(Deps(name)) \in Nat
         /\ DOMAIN Deps(name) = 1..Len(Deps(name))
         /\ \A k \in 1..Len(Deps(name)) : Deps(name)[k] \in EnabledNames
<1> DEFINE last == Max(EnabledAt(name))
<1>1. last \in DOMAIN services /\ Enabled(services[last])
  BY EnabledLast
<1>2. services[last].deps \in Seq(Name)
  BY <1>1 DEF VLTypeOK, Service
<1>3. \A i \in DOMAIN services[last].deps : ~BrokenRef(services[last].deps[i])
  BY <1>1 DEF BrokenRefs
<1>4. /\ Len(services[last].deps) \in Nat
      /\ DOMAIN services[last].deps = 1..Len(services[last].deps)
  BY <1>2, LenProperties
<1> QED
  BY <1>2, <1>3, <1>4, SoundRef DEF Deps

\* A call under way is one for an enabled service, which is on the stack, and
\* the dependency it looks at is enabled too.
LEMMA CallerKnown ==
  ASSUME VLTypeOK, KnownInv, CallsInv, Calling
  PROVE  /\ Len(path) \in Nat \ {0}
         /\ \A i \in 1..Len(path) : path[i] \in onStack
         /\ Caller \in onStack /\ Caller \in EnabledNames /\ Caller \in Name
         /\ next[Caller] \in Nat \ {0}
         /\ Len(Deps(Caller)) \in Nat
         /\ HasNext => /\ next[Caller] \in 1..Len(Deps(Caller))
                       /\ NextDep \in EnabledNames /\ NextDep \in Name
                       /\ NextDep \in DepsOf[Caller]
<1>1. Len(path) \in Nat \ {0}
  <2>1. path \in Seq(Name) /\ path # <<>>
    BY DEF VLTypeOK, Calling
  <2> QED
    BY <2>1, EmptySeq
<1>2. Caller \in onStack /\ \A i \in 1..Len(path) : path[i] \in onStack
  BY <1>1 DEF CallsInv, Caller
<1>3. Caller \in EnabledNames /\ Caller \in Name
  BY <1>2, EnabledAreNames DEF CallsInv, KnownInv, Calling
<1>4. next[Caller] \in Nat \ {0}
  BY <1>3 DEF VLTypeOK
<1>5. /\ Len(Deps(Caller)) \in Nat /\ DOMAIN Deps(Caller) = 1..Len(Deps(Caller))
      /\ \A k \in 1..Len(Deps(Caller)) : Deps(Caller)[k] \in EnabledNames
  BY <1>3, DepsEnabled DEF KnownInv, Calling
<1>6. ASSUME HasNext
      PROVE  /\ next[Caller] \in 1..Len(Deps(Caller))
             /\ NextDep \in EnabledNames /\ NextDep \in Name
             /\ NextDep \in DepsOf[Caller]
  <2>1. next[Caller] \in 1..Len(Deps(Caller))
    BY <1>4, <1>5, <1>6 DEF HasNext
  <2>2. NextDep \in EnabledNames /\ NextDep \in Name
    BY <2>1, <1>5, EnabledAreNames DEF NextDep
  <2>3. NextDep \in DepsOf[Caller]
    BY <2>1, <1>3, <1>5 DEF NextDep, DepsOf, Range
  <2> QED
    BY <2>1, <2>2, <2>3
<1> QED
  BY <1>1, <1>2, <1>3, <1>4, <1>5, <1>6

\* The innermost call leaves the path.
LEMMA Return ==
  ASSUME NEW S, NEW n \in Nat \ {0}, NEW calls \in Seq(S), Len(calls) = n
  PROVE  LET short == SubSeq(calls, 1, n - 1)
         IN /\ short \in Seq(S) /\ Len(short) = n - 1
            /\ \A i \in 1..(n - 1) : short[i] = calls[i]
<1> DEFINE short == SubSeq(calls, 1, n - 1)
<1>1. \A i \in 1..(n - 1) : calls[i] \in S
  BY ElementOfSeq
<1>2. 1 \in Int /\ n - 1 \in Int
  OBVIOUS
<1>3. /\ short \in Seq(S)
      /\ Len(short) = IF 1 <= n - 1 THEN n - 1 - 1 + 1 ELSE 0
      /\ \A i \in 1..(n - 1 - 1 + 1) : short[i] = calls[1 + i - 1]
  BY <1>1, <1>2, SubSeqProperties
<1> HIDE DEF short
<1>4. Len(short) = n - 1
  BY <1>3
<1>5. \A i \in 1..(n - 1) : short[i] = calls[i]
  BY <1>3
<1> QED
  BY <1>3, <1>4, <1>5 DEF short

\* A call is put on the path.
LEMMA Enter ==
  ASSUME NEW S, NEW calls \in Seq(S), NEW name \in S
  PROVE  LET long == Append(calls, name)
         IN /\ long \in Seq(S) /\ Len(long) = Len(calls) + 1
            /\ \A i \in 1..Len(calls) : long[i] = calls[i]
            /\ long[Len(calls) + 1] = name
BY AppendProperties

-----------------------------------------------------------------------------
(* The type invariant.                                                     *)

\* The type invariant holds of a file as it is read.
LEMMA VLTypeInit == VLInit => VLTypeOK
<1> SUFFICES ASSUME VLInit PROVE VLTypeOK
  OBVIOUS
<1>1. PICK input \in Inputs :
        file = input.services /\ env = input.env /\ services = input.services
  BY DEF VLInit
<1>2. file \in Seq(Service) /\ [services |-> file, env |-> env] \in Inputs
  BY <1>1, ValidationAssumption
<1>3. \A i \in DOMAIN services : services[i] \in Service
  BY <1>1, <1>2, LenProperties, ElementOfSeq
<1>4. next \in [Name -> Nat \ {0}] /\ path \in Seq(Name)
  BY EmptySeq DEF VLInit
<1> QED
  BY <1>1, <1>2, <1>3, <1>4 DEF VLInit, VLTypeOK

\* What has the type of a service keeps it when it is enabled or disabled.
LEMMA EnabledType ==
  ASSUME NEW s \in Service, NEW word \in {"true", "false"}
  PROVE  /\ [s EXCEPT !.enabled = word] \in Service
         /\ [s EXCEPT !.enabled = word].enabled = word
BY DEF Service

\* Every step preserves the type invariant.
LEMMA VLTypeStep == ValidationInv /\ [VLNext]_vlVars => VLTypeOK'
<1> SUFFICES ASSUME ValidationInv, [VLNext]_vlVars PROVE VLTypeOK'
  OBVIOUS
<1>t. VLTypeOK
  BY DEF ValidationInv
<1>1. CASE ParseConfig
  <2>1. \A i \in DOMAIN file : file[i] \in Service
    BY <1>t, FileShape
  <2> QED
    BY <1>1, <1>t, <2>1 DEF ParseConfig, VLTypeOK, fileVars, searchVars
<1>2. CASE ScanServices
  <2>1. ASSUME NEW i \in DOMAIN services
        PROVE  services'[i] \in Service /\ services'[i].enabled \in {"true", "false"}
    <3>0. services[i] \in Service /\ services[i].enabled \in {"unset", "true", "false"}
      BY <1>t DEF VLTypeOK, Service
    <3>1. CASE services[i].enabled = "unset"
      <4>1. services'[i] = [services[i] EXCEPT !.enabled = "true"]
        BY <3>1, <1>2 DEF ScanServices
      <4> QED
        BY <4>1, <3>0, EnabledType
    <3>2. CASE services[i].enabled # "unset"
      <4>1. services'[i] = services[i]
        BY <3>2, <1>2 DEF ScanServices
      <4> QED
        BY <4>1, <3>0, <3>2
    <3> QED
      BY <3>1, <3>2
  <2>2. DOMAIN services' = DOMAIN services /\ errors' \subseteq {"name"}
    BY <1>2 DEF ScanServices
  <2> QED
    BY <1>2, <1>t, <2>1, <2>2 DEF ScanServices, VLTypeOK, fileVars, searchVars
<1>3. CASE ApplyServiceEnvOverrides
  <2>1. ASSUME NEW i \in DOMAIN services
        PROVE  services'[i] \in Service /\ services'[i].enabled \in {"true", "false"}
    <3>0. services[i] \in Service
      BY <1>t DEF VLTypeOK
    <3>1. PICK word \in {"true", "false"} : services'[i] = [services[i] EXCEPT !.enabled = word]
      BY <1>3 DEF ApplyServiceEnvOverrides
    <3>2. word \in {"true", "false"}
      OBVIOUS
    <3>3. /\ [services[i] EXCEPT !.enabled = word] \in Service
          /\ [services[i] EXCEPT !.enabled = word].enabled = word
      BY <3>0, <3>2, EnabledType
    <3>4. services'[i] \in Service /\ services'[i].enabled = word
      BY <3>1, <3>3
    <3> QED
      BY <3>2, <3>4
  <2>2. DOMAIN services' = DOMAIN services
    BY <1>3 DEF ApplyServiceEnvOverrides
  <2> QED
    BY <1>3, <1>t, <2>1, <2>2 DEF ApplyServiceEnvOverrides, VLTypeOK, fileVars, searchVars
<1>4. CASE ValidateServices
  <2>1. \A i \in DOMAIN services :
          ServiceErrors(services[i]) \subseteq {"name", "command", "fields", "restart"}
    BY DEF ServiceErrors
  <2>2. errors' \subseteq {"name", "command", "fields", "restart", "dependencies"}
    BY <2>1, <1>4, <1>t DEF ValidateServices, VLTypeOK
  <2> QED
    BY <1>4, <1>t, <2>2 DEF ValidateServices, VLTypeOK, fileVars, searchVars
<1>5. CASE CheckRefs
  <2>1. EnabledNames \subseteq Name
    BY <1>t, EnabledAreNames
  <2> QED
    BY <1>5, <1>t, <2>1 DEF CheckRefs, Reject, VLTypeOK, fileVars
<1>6. ASSUME NEW name \in roots, BeginSearch(name) PROVE VLTypeOK'
  <2>1. name \in Name /\ path' \in Seq(Name) /\ next' \in [Name -> Nat \ {0}]
    BY <1>6, <1>t DEF BeginSearch, VLTypeOK
  <2> QED
    BY <1>6, <1>t, <2>1 DEF BeginSearch, VLTypeOK, fileVars
<1>7. CASE FollowDependency
  <2>1. NextDep \in Name /\ Caller \in Name
    BY <1>7, CallerKnown DEF FollowDependency, ValidationInv, Calling
  <2>2. next' \in [Name -> Nat \ {0}] /\ path' \in Seq(Name)
    BY <1>7, <1>t, <2>1, Enter DEF FollowDependency, Advance, VLTypeOK
  <2> QED
    BY <1>7, <1>t, <2>1, <2>2 DEF FollowDependency, VLTypeOK, fileVars
<1>8. CASE PassDependency
  <2>1. Caller \in Name
    BY <1>8, CallerKnown DEF PassDependency, ValidationInv, Calling
  <2>2. next' \in [Name -> Nat \ {0}]
    BY <1>8, <1>t, <2>1 DEF PassDependency, Advance, VLTypeOK
  <2> QED
    BY <1>8, <1>t, <2>2 DEF PassDependency, VLTypeOK, fileVars
<1>9. CASE FindCycle
  <2>1. errors' \subseteq {"name", "command", "fields", "restart", "dependencies"}
    BY <1>9, <1>t DEF FindCycle, Reject, VLTypeOK
  <2> QED
    BY <1>9, <1>t, <2>1 DEF FindCycle, Reject, Calling, VLTypeOK, fileVars, searchVars
<1>10. CASE EndCall
  <2>1. Len(path) \in Nat \ {0}
    BY <1>10, CallerKnown DEF EndCall, ValidationInv, Calling
  <2>2. path' \in Seq(Name)
    BY <1>10, <1>t, <2>1, Return DEF EndCall, VLTypeOK
  <2> QED
    BY <1>10, <1>t, <2>2 DEF EndCall, Leave, VLTypeOK, fileVars
<1>11. CASE EndSearch
  BY <1>11, <1>t DEF EndSearch, VLTypeOK, fileVars, searchVars
<1>12. CASE UNCHANGED vlVars
  BY <1>12, <1>t DEF vlVars, VLTypeOK, fileVars, searchVars
<1> QED
  BY <1>1, <1>2, <1>3, <1>4, <1>5, <1>6, <1>7, <1>8, <1>9, <1>10, <1>11, <1>12 DEF VLNext

-----------------------------------------------------------------------------
(* What no step changes, and what the search does not change.              *)

\* The file and the environment are read once.
LEMMA FileKept == [VLNext]_vlVars => file' = file /\ env' = env
BY DEF VLNext, vlVars, fileVars, ParseConfig, ScanServices, ApplyServiceEnvOverrides,
       ValidateServices, CheckRefs, BeginSearch, FollowDependency, PassDependency,
       FindCycle, EndCall, EndSearch

\* So which services are wanted, and whether the file is valid, is settled.
LEMMA FileDecides ==
  ASSUME file' = file, env' = env
  PROVE  /\ Present' = Present
         /\ Valid' <=> Valid
         /\ \A i \in Present : Wanted(file[i])' <=> Wanted(file[i])
<1>1. Present' = Present
  BY DEF Present
<1>2. \A i : Wanted(file[i])' <=> Wanted(file[i])
  BY DEF Wanted
<1>3. Booting' = Booting
  BY <1>1, <1>2 DEF Booting
<1>4. BootingNames' = BootingNames
  BY <1>3 DEF BootingNames
<1>5. Acyclic' <=> Acyclic
  BY <1>3, <1>4 DEF Acyclic
<1>6. Valid' <=> Valid
  BY <1>1, <1>3, <1>4, <1>5 DEF Valid, WellFormed, Bootable
<1> QED
  BY <1>1, <1>2, <1>6

\* The search works on maps that do not change.
LEMMA ServicesDecide ==
  ASSUME services' = services
  PROVE  /\ EnabledNames' = EnabledNames
         /\ \A n : Deps(n)' = Deps(n)
         /\ DepsOf' = DepsOf
         /\ \A i \in DOMAIN services : BrokenRefs(services[i])' <=> BrokenRefs(services[i])
         /\ \A n : Sound(n)' <=> Sound(n)
<1>1. EnabledNames' = EnabledNames
  BY DEF EnabledNames
<1>2. \A n : NamedAt(n)' = NamedAt(n)
  BY DEF NamedAt
<1>3. \A n : EnabledAt(n)' = EnabledAt(n)
  BY <1>2 DEF EnabledAt
<1>4. \A n : Deps(n)' = Deps(n)
  BY <1>3 DEF Deps
<1>5. DepsOf' = DepsOf
  BY <1>1, <1>4 DEF DepsOf
<1>6. \A d : BrokenRef(d)' <=> BrokenRef(d)
  BY <1>2 DEF BrokenRef
<1>7. \A i \in DOMAIN services : BrokenRefs(services[i])' <=> BrokenRefs(services[i])
  BY <1>6 DEF BrokenRefs
<1>8. \A n : Sound(n)' <=> Sound(n)
  BY <1>1, <1>5 DEF Sound
<1> QED
  BY <1>1, <1>4, <1>5, <1>7, <1>8

-----------------------------------------------------------------------------
(* ServicesInv.                                                            *)

\* What applyServiceEnvOverrides selects, once enabled has its default, is
\* what the documentation calls for.
LEMMA SelectedIsWanted ==
  ASSUME NEW f \in Service, NEW g,
         g = [f EXCEPT !.enabled = IF @ = "unset" THEN "true" ELSE @]
  PROVE  /\ Selected(g) <=> Wanted(f)
         /\ \A word : [g EXCEPT !.enabled = word] = [f EXCEPT !.enabled = word]
<1>1. g.name = f.name /\ (Enabled(g) <=> f.enabled # "false")
  BY DEF Service, Enabled
<1>2. Selected(g) <=> Wanted(f)
  <2> DEFINE enable == env.enable[Token[f.name]]
             disable == env.disable[Token[f.name]]
  <2>1. OnlyMode(g) <=> IF env.only # {} THEN Lower[f.name] \in env.only ELSE f.enabled # "false"
    BY <1>1 DEF OnlyMode
  <2>2. EnableOverride(g) <=> IF enable \in {"true", "false"} THEN enable = "true" ELSE OnlyMode(g)
    BY <1>1 DEF EnableOverride
  <2>3. Selected(g) <=> EnableOverride(g) /\ disable # "true"
    BY <1>1 DEF Selected
  <2>4. CASE disable = "true"
    BY <2>3, <2>4 DEF Wanted
  <2>5. CASE disable # "true" /\ enable \in {"true", "false"}
    BY <2>2, <2>3, <2>5 DEF Wanted
  <2>6. CASE disable # "true" /\ enable \notin {"true", "false"}
    BY <2>1, <2>2, <2>3, <2>6 DEF Wanted
  <2> QED
    BY <2>4, <2>5, <2>6
<1>3. \A word : [g EXCEPT !.enabled = word] = [f EXCEPT !.enabled = word]
  BY DEF Service
<1> QED
  BY <1>2, <1>3

\* Every step keeps to what has been decided about the services.
LEMMA ServicesStep == ValidationInv /\ [VLNext]_vlVars => ServicesInv'
<1> SUFFICES ASSUME ValidationInv, [VLNext]_vlVars PROVE ServicesInv'
  OBVIOUS
<1>f. /\ file' = file /\ Present' = Present
      /\ \A i \in Present : Wanted(file[i])' <=> Wanted(file[i])
  BY FileKept, FileDecides
<1>t. \A i \in Present : file[i] \in Service
  BY FileShape DEF ValidationInv, Present
<1>1. CASE ParseConfig
  BY <1>1, <1>f DEF ParseConfig, ServicesInv, Present
<1>2. CASE ScanServices
  <2>1. DOMAIN services' = Present /\ phase' = "scanned"
    BY <1>2 DEF ScanServices, ValidationInv, ServicesInv
  <2>2. ASSUME NEW i \in Present
        PROVE  services'[i] = [file[i] EXCEPT !.enabled = IF @ = "unset" THEN "true" ELSE @]
    <3>1. services[i] = file[i] /\ file[i] \in Service
      BY <1>2, <1>t DEF ScanServices, ValidationInv, ServicesInv
    <3>2. services'[i] = IF file[i].enabled = "unset"
                         THEN [file[i] EXCEPT !.enabled = "true"] ELSE file[i]
      BY <3>1, <1>2, <2>1 DEF ScanServices
    <3>3. \A f \in Service : f = [f EXCEPT !.enabled = f.enabled]
      BY DEF Service
    <3> QED
      BY <3>1, <3>2, <3>3
  <2> QED
    BY <1>f, <2>1, <2>2 DEF ServicesInv
<1>3. CASE ApplyServiceEnvOverrides
  <2>1. DOMAIN services' = Present /\ phase' = "selected"
    BY <1>3 DEF ApplyServiceEnvOverrides, ValidationInv, ServicesInv
  <2>2. ASSUME NEW i \in Present
        PROVE  services'[i] = [file[i] EXCEPT !.enabled = IF Wanted(file[i]) THEN "true" ELSE "false"]
    <3>1. /\ services[i] = [file[i] EXCEPT !.enabled = IF @ = "unset" THEN "true" ELSE @]
          /\ file[i] \in Service /\ i \in DOMAIN services
      BY <1>3, <1>t DEF ApplyServiceEnvOverrides, ValidationInv, ServicesInv
    <3>2. services'[i] = [services[i] EXCEPT !.enabled =
                            IF Selected(services[i]) THEN "true" ELSE "false"]
      BY <3>1, <1>3 DEF ApplyServiceEnvOverrides
    <3> QED
      BY <3>1, <3>2, SelectedIsWanted
  <2> QED
    BY <1>f, <2>1, <2>2 DEF ServicesInv
<1>4. CASE services' = services /\ (phase \in {"read", "parsed", "scanned"} => phase' = phase)
           /\ (phase \notin {"read", "parsed", "scanned"} => phase' \notin {"read", "parsed", "scanned"})
  BY <1>4, <1>f DEF ServicesInv, ValidationInv
<1>5. ASSUME ~ParseConfig, ~ScanServices, ~ApplyServiceEnvOverrides
      PROVE  /\ services' = services /\ (phase \in {"read", "parsed", "scanned"} => phase' = phase)
             /\ phase \notin {"read", "parsed", "scanned"} => phase' \notin {"read", "parsed", "scanned"}
  BY <1>5 DEF VLNext, vlVars, ValidateServices, CheckRefs, Reject, Calling, BeginSearch,
              FollowDependency, PassDependency, FindCycle, EndCall, EndSearch
<1> QED
  BY <1>1, <1>2, <1>3, <1>4, <1>5

-----------------------------------------------------------------------------
(* KnownInv.                                                               *)

\* Every step but the first three leaves the services as they are.
LEMMA ServicesKept ==
  ASSUME [VLNext]_vlVars, phase \notin {"read", "parsed", "scanned"}
  PROVE  services' = services
BY DEF VLNext, vlVars, ParseConfig, ScanServices, ApplyServiceEnvOverrides,
       ValidateServices, CheckRefs, BeginSearch, FollowDependency, PassDependency,
       FindCycle, EndCall, EndSearch

\* Every step keeps hasCycles among enabled services with sound references.
LEMMA KnownStep == ValidationInv /\ [VLNext]_vlVars => KnownInv'
<1> SUFFICES ASSUME ValidationInv, [VLNext]_vlVars PROVE KnownInv'
  OBVIOUS
<1> DEFINE Sane == \A i \in DOMAIN services : Enabled(services[i]) => ~BrokenRefs(services[i])
<1>k. KnownInv
  BY DEF ValidationInv
<1>1. CASE phase \in {"read", "parsed", "scanned", "selected"}
  <2>1. phase' \in {"read", "parsed", "scanned", "selected", "checked"} /\ UNCHANGED searchVars
    BY <1>1, <1>k DEF KnownInv, VLNext, vlVars, searchVars, ParseConfig, ScanServices,
       ApplyServiceEnvOverrides, ValidateServices, CheckRefs, BeginSearch, Calling,
       FollowDependency, PassDependency, FindCycle, EndCall, EndSearch
  <2> QED
    BY <1>1, <1>k, <2>1 DEF KnownInv, searchVars
<1>2. CASE phase = "checked"
  <2>s. services' = services
    BY <1>2, ServicesKept
  <2>1. CheckRefs \/ UNCHANGED vlVars
    BY <1>2 DEF VLNext, ParseConfig, ScanServices, ApplyServiceEnvOverrides,
       ValidateServices, BeginSearch, Calling, FollowDependency, PassDependency,
       FindCycle, EndCall, EndSearch
  <2>2. CASE CheckRefs /\ Sane
    BY <1>2, <1>k, <2>s, <2>2, ServicesDecide DEF CheckRefs, KnownInv, Enabled
  <2>3. CASE CheckRefs /\ ~Sane
    BY <2>3 DEF CheckRefs, Reject, KnownInv
  <2>4. CASE UNCHANGED vlVars
    BY <1>2, <1>k, <2>4 DEF KnownInv, vlVars, searchVars
  <2> QED
    BY <2>1, <2>2, <2>3, <2>4
<1>3. CASE phase \in {"searching", "accepted", "rejected"}
  <2>s. /\ services' = services /\ EnabledNames' = EnabledNames
        /\ phase \in {"searching", "accepted"} => Sane'
    BY <1>3, <1>k, ServicesKept, ServicesDecide DEF KnownInv, Enabled
  <2>1. CASE phase = "searching"
    <3>1. roots' \subseteq roots
      BY <2>1 DEF VLNext, vlVars, searchVars, ParseConfig, ScanServices,
         ApplyServiceEnvOverrides, ValidateServices, CheckRefs, BeginSearch,
         FollowDependency, PassDependency, FindCycle, EndCall, EndSearch
    <3>2. visited' \subseteq EnabledNames
      <4>1. ASSUME NEW name \in roots, BeginSearch(name) PROVE visited' \subseteq EnabledNames
        BY <4>1, <2>1, <1>k DEF BeginSearch, KnownInv
      <4>2. CASE FollowDependency
        <5>1. NextDep \in EnabledNames
          BY <4>2, CallerKnown DEF FollowDependency, ValidationInv, Calling
        <5> QED
          BY <5>1, <4>2, <2>1, <1>k DEF FollowDependency, KnownInv
      <4>3. CASE visited' = visited
        BY <4>3, <2>1, <1>k DEF KnownInv
      <4> QED
        BY <2>1, <4>1, <4>2, <4>3 DEF VLNext, vlVars, searchVars, ParseConfig, ScanServices,
           ApplyServiceEnvOverrides, ValidateServices, CheckRefs,
           PassDependency, FindCycle, EndCall, EndSearch
    <3>3. phase' \in {"searching", "accepted", "rejected"}
      BY <2>1 DEF VLNext, vlVars, ParseConfig, ScanServices, Reject,
         ApplyServiceEnvOverrides, ValidateServices, CheckRefs, BeginSearch,
         FollowDependency, PassDependency, FindCycle, EndCall, EndSearch
    <3> QED
      BY <2>1, <2>s, <3>1, <3>2, <3>3, <1>k DEF KnownInv
  <2>2. CASE phase # "searching"
    <3>1. UNCHANGED vlVars
      BY <1>3, <2>2 DEF VLNext, vlVars, ParseConfig, ScanServices, Calling,
         ApplyServiceEnvOverrides, ValidateServices, CheckRefs, BeginSearch,
         FollowDependency, PassDependency, FindCycle, EndCall, EndSearch
    <3> QED
      BY <1>3, <2>2, <2>s, <3>1, <1>k DEF KnownInv, vlVars, searchVars
  <2> QED
    BY <2>1, <2>2
<1> QED
  BY <1>1, <1>2, <1>3 DEF ValidationInv, VLTypeOK

-----------------------------------------------------------------------------
(* CallsInv.                                                               *)

\* What a step of the search leaves alone.
LEMMA SearchKept ==
  ASSUME services' = services, VLTypeOK, KnownInv, phase = "searching"
  PROVE  /\ \A n : Deps(n)' = Deps(n)
         /\ \A n \in visited : n \in Name /\ next[n] \in Nat \ {0} /\ Len(Deps(n)) \in Nat
<1>1. \A n \in visited : n \in EnabledNames /\ n \in Name
  BY EnabledAreNames DEF KnownInv
<1>2. \A n \in visited : next[n] \in Nat \ {0}
  BY <1>1 DEF VLTypeOK
<1>3. \A n \in visited : Len(Deps(n)) \in Nat
  BY <1>1, DepsEnabled DEF KnownInv
<1> QED
  BY <1>1, <1>2, <1>3, ServicesDecide

\* A search begins with one call, which has looked at nothing.
LEMMA CallsBegin ==
  ASSUME VLTypeOK, KnownInv, NEW name \in roots, BeginSearch(name)
  PROVE  CallsInv'
<1>1. name \in Name /\ name \in EnabledNames /\ services' = services
  BY EnabledAreNames DEF BeginSearch, KnownInv
<1>2. Len(Deps(name)) \in Nat /\ Deps(name)' = Deps(name)
  BY <1>1, DepsEnabled, ServicesDecide DEF BeginSearch, KnownInv
<1>3. Len(path') = 1 /\ path'[1] = name
  BY DEF BeginSearch
<1>4. visited' = {name} /\ onStack' = {name} /\ \A n \in Name : next'[n] = 1
  BY DEF BeginSearch
<1>5. Finished' = {}
  BY <1>4 DEF Finished
<1>6. onStack' = {path'[i] : i \in 1..Len(path')}
  BY <1>3, <1>4
<1>7. \A i \in 1..(Len(path') - 1) : FALSE
  BY <1>3
<1>8. \A n \in visited' : next'[n] <= Len(Deps(n)') + 1 /\ \A k \in 1..(next'[n] - 1) : FALSE
  BY <1>1, <1>2, <1>4
<1>9. \A i, j \in 1..Len(path') : path'[i] = path'[j] => i = j
  BY <1>3
<1> QED
  BY <1>4, <1>5, <1>6, <1>7, <1>8, <1>9 DEF CallsInv

\* A dependency that was not visited is entered.
LEMMA CallsFollow ==
  ASSUME VLTypeOK, KnownInv, CallsInv, FollowDependency
  PROVE  CallsInv' /\ Finished' = Finished
<1> DEFINE m == Len(path)
           d == NextDep
<1>s. services' = services /\ phase = "searching" /\ Calling /\ HasNext
  BY DEF FollowDependency, Calling
<1>c. /\ m \in Nat \ {0} /\ Caller = path[m] /\ Caller \in onStack /\ Caller \in Name
      /\ next[Caller] \in 1..Len(Deps(Caller)) /\ Len(Deps(Caller)) \in Nat
      /\ d \in EnabledNames /\ d \in Name /\ d = Deps(Caller)[next[Caller]]
  BY <1>s, CallerKnown DEF Caller, NextDep
<1>k. /\ \A n : Deps(n)' = Deps(n)
      /\ \A n \in visited : n \in Name /\ next[n] \in Nat \ {0} /\ Len(Deps(n)) \in Nat
  BY <1>s, SearchKept
<1>d. Len(Deps(d)) \in Nat
  BY <1>c, <1>s, DepsEnabled DEF KnownInv
<1>v. /\ d \notin visited /\ Caller \in visited /\ d # Caller
      /\ visited' = visited \cup {d} /\ onStack' = onStack \cup {d}
  BY <1>c DEF FollowDependency, CallsInv
<1>p. /\ path' \in Seq(Name) /\ Len(path') = m + 1
      /\ \A i \in 1..m : path'[i] = path[i]
      /\ path'[m + 1] = d
  BY <1>c, Enter DEF FollowDependency, VLTypeOK
<1>n. /\ next'[Caller] = next[Caller] + 1
      /\ \A n \in Name : n # Caller => next'[n] = next[n]
  BY <1>c DEF FollowDependency, Advance, VLTypeOK
<1> HIDE DEF m, d
<1>o. \A i \in 1..m : path[i] \in onStack /\ path[i] \in visited /\ path[i] # d
  BY <1>v DEF CallsInv, m
<1>f. Finished' = Finished
  BY <1>v DEF Finished, CallsInv
<1>1. \A i, j \in 1..(m + 1) : path'[i] = path'[j] => i = j
  <2> SUFFICES ASSUME NEW i \in 1..(m + 1), NEW j \in 1..(m + 1), path'[i] = path'[j]
               PROVE  i = j
    OBVIOUS
  <2>1. (i \in 1..m \/ i = m + 1) /\ (j \in 1..m \/ j = m + 1)
    BY <1>c
  <2>2. \A a, b \in 1..m : path[a] = path[b] => a = b
    BY DEF CallsInv, m
  <2> QED
    BY <2>1, <2>2, <1>p, <1>o
<1>2. onStack' = {path'[i] : i \in 1..(m + 1)}
  <2>1. onStack = {path[i] : i \in 1..m}
    BY DEF CallsInv, m
  <2>2. \A i \in 1..(m + 1) : i \in 1..m \/ i = m + 1
    BY <1>c
  <2>3. (m + 1) \in 1..(m + 1) /\ \A i \in 1..m : i \in 1..(m + 1)
    BY <1>c
  <2> QED
    BY <1>v, <1>p, <2>1, <2>2, <2>3
<1>3. onStack' \subseteq visited'
  BY <1>v DEF CallsInv
<1>4. \A n \in Name \ visited' : next'[n] = 1
  BY <1>v, <1>n DEF CallsInv
<1>5. next'[d] = 1
  BY <1>v, <1>n, <1>c DEF CallsInv
<1>6. \A n \in visited' : next'[n] <= Len(Deps(n)) + 1
  <2>1. \A n \in visited : next[n] <= Len(Deps(n)) + 1
    BY DEF CallsInv
  <2> QED
    BY <2>1, <1>5, <1>v, <1>n, <1>c, <1>k, <1>d
<1>7. \A n \in Finished : next'[n] = Len(Deps(n)) + 1
  <2>1. \A n \in Finished : n \in Name /\ n # Caller /\ next[n] = Len(Deps(n)) + 1
    BY <1>k, <1>c DEF CallsInv, Finished
  <2> QED
    BY <2>1, <1>n
<1>8. ASSUME NEW i \in 1..m
      PROVE  next'[path'[i]] > 1 /\ Deps(path'[i])[next'[path'[i]] - 1] = path'[i + 1]
  <2>1. CASE i = m
    BY <2>1, <1>c, <1>p, <1>n
  <2>2. CASE i # m
    <3>1. i \in 1..(m - 1) /\ i + 1 \in 1..m /\ m \in 1..m
      BY <2>2, <1>c
    <3>2. path[i] # Caller /\ path[i] \in Name
      BY <3>1, <2>2, <1>c, <1>o, <1>k DEF CallsInv, m
    <3>3. next[path[i]] > 1 /\ Deps(path[i])[next[path[i]] - 1] = path[i + 1]
      BY <3>1 DEF CallsInv, m
    <3> QED
      BY <3>1, <3>2, <3>3, <1>n, <1>p
  <2> QED
    BY <2>1, <2>2
<1>9. ASSUME NEW n \in visited', NEW k \in 1..(next'[n] - 1)
      PROVE  \/ Deps(n)[k] \in Finished
             \/ k = next'[n] - 1 /\ \E i \in 1..m : path'[i] = n
  <2>1. n # d
    BY <1>5, <1>c
  <2>2. n \in visited /\ n \in Name
    BY <2>1, <1>v, <1>k
  <2>3. CASE n = Caller /\ k = next[Caller]
    <3>1. m \in 1..m
      BY <1>c
    <3> QED
      BY <3>1, <2>3, <1>c, <1>n, <1>p
  <2>4. CASE n = Caller /\ k # next[Caller]
    <3>1. k \in 1..(next[n] - 1) /\ m \in 1..m /\ \A i \in 1..(m - 1) : i # m /\ i \in 1..m
      BY <2>4, <1>n, <1>c
    <3>2. \A i \in 1..(m - 1) : path[i] # n
      BY <3>1, <2>4, <1>c DEF CallsInv, m
    <3> QED
      BY <3>1, <3>2, <2>2 DEF CallsInv, m
  <2>5. CASE n # Caller
    <3>1. next'[n] = next[n] /\ k \in 1..(next[n] - 1)
      BY <2>5, <2>2, <1>n
    <3>2. \/ Deps(n)[k] \in Finished
          \/ k = next[n] - 1 /\ \E i \in 1..(m - 1) : path[i] = n
      BY <3>1, <2>2 DEF CallsInv, m
    <3>3. (\E i \in 1..(m - 1) : path[i] = n) => \E i \in 1..m : path'[i] = n
      <4>1. \A i \in 1..(m - 1) : i \in 1..m
        BY <1>c
      <4> QED
        BY <4>1, <1>p
    <3> QED
      BY <3>1, <3>2, <3>3
  <2> QED
    BY <2>3, <2>4, <2>5
<1>10. Len(path') = m + 1 /\ Len(path') - 1 = m
  BY <1>p, <1>c
<1> QED
  BY <1>1, <1>2, <1>3, <1>4, <1>6, <1>7, <1>8, <1>9, <1>10, <1>f, <1>k DEF CallsInv

\* A dependency that is finished is passed.
LEMMA CallsPass ==
  ASSUME VLTypeOK, KnownInv, CallsInv, PassDependency
  PROVE  CallsInv' /\ Finished' = Finished
<1> DEFINE m == Len(path)
<1>s. services' = services /\ phase = "searching" /\ Calling /\ HasNext
  BY DEF PassDependency, Calling
<1>c. /\ m \in Nat \ {0} /\ Caller = path[m] /\ Caller \in onStack /\ Caller \in Name
      /\ next[Caller] \in 1..Len(Deps(Caller)) /\ Len(Deps(Caller)) \in Nat
      /\ NextDep = Deps(Caller)[next[Caller]] /\ NextDep \in Finished
  BY <1>s, CallerKnown DEF Caller, NextDep, PassDependency, OnStack, Finished
<1>k. /\ \A n : Deps(n)' = Deps(n)
      /\ \A n \in visited : n \in Name /\ next[n] \in Nat \ {0} /\ Len(Deps(n)) \in Nat
  BY <1>s, SearchKept
<1>v. path' = path /\ visited' = visited /\ onStack' = onStack /\ Finished' = Finished
  BY DEF PassDependency, Finished
<1>n. /\ next'[Caller] = next[Caller] + 1
      /\ \A n \in Name : n # Caller => next'[n] = next[n]
  BY <1>c DEF PassDependency, Advance, VLTypeOK
<1>o. Caller \in visited /\ Caller \notin Finished /\ \A i \in 1..m : path[i] \in Name
  BY <1>c, <1>k DEF CallsInv, Finished, m
<1> HIDE DEF m
<1>1. \A n \in Name \ visited : next'[n] = 1
  BY <1>n, <1>o DEF CallsInv
<1>2. \A n \in visited : next'[n] <= Len(Deps(n)) + 1
  <2>1. \A n \in visited : next[n] <= Len(Deps(n)) + 1
    BY DEF CallsInv
  <2> QED
    BY <2>1, <1>n, <1>c, <1>k
<1>3. \A n \in Finished : next'[n] = Len(Deps(n)) + 1
  <2>1. \A n \in Finished : n \in Name /\ n # Caller /\ next[n] = Len(Deps(n)) + 1
    BY <1>k, <1>o DEF CallsInv, Finished
  <2> QED
    BY <2>1, <1>n
<1>4. \A i \in 1..(m - 1) : path[i] # Caller
  <2>1. \A i \in 1..(m - 1) : i \in 1..m /\ m \in 1..m /\ i # m
    BY <1>c
  <2> QED
    BY <2>1, <1>c DEF CallsInv, m
<1>5. ASSUME NEW i \in 1..(m - 1)
      PROVE  next'[path[i]] > 1 /\ Deps(path[i])[next'[path[i]] - 1] = path[i + 1]
  <2>1. i \in 1..m
    BY <1>c
  <2>2. next[path[i]] > 1 /\ Deps(path[i])[next[path[i]] - 1] = path[i + 1]
    BY DEF CallsInv, m
  <2> QED
    BY <2>1, <2>2, <1>4, <1>n, <1>o
<1>6. ASSUME NEW n \in visited, NEW k \in 1..(next'[n] - 1)
      PROVE  \/ Deps(n)[k] \in Finished
             \/ k = next'[n] - 1 /\ \E i \in 1..(m - 1) : path[i] = n
  <2>1. n \in Name
    BY <1>k
  <2>2. CASE n = Caller /\ k = next[Caller]
    BY <2>2, <1>c
  <2>3. CASE n = Caller /\ k # next[Caller]
    <3>1. k \in 1..(next[n] - 1)
      BY <2>3, <1>n, <1>c
    <3> QED
      BY <3>1, <2>3, <1>4 DEF CallsInv, m
  <2>4. CASE n # Caller
    <3>1. next'[n] = next[n] /\ k \in 1..(next[n] - 1)
      BY <2>4, <2>1, <1>n
    <3> QED
      BY <3>1 DEF CallsInv, m
  <2> QED
    BY <2>2, <2>3, <2>4
<1>7. /\ \A i, j \in 1..m : path[i] = path[j] => i = j
      /\ onStack = {path[i] : i \in 1..m} /\ onStack \subseteq visited
  BY DEF CallsInv, m
<1>8. Len(path') = m /\ Len(path') - 1 = m - 1
  BY <1>v DEF m
<1> QED
  BY <1>1, <1>2, <1>3, <1>5, <1>6, <1>7, <1>8, <1>v, <1>k DEF CallsInv

\* Whatever a finished service depends on is finished.
LEMMA FinishedClosed ==
  ASSUME VLTypeOK, KnownInv, CallsInv, phase = "searching"
  PROVE  /\ Finished \subseteq EnabledNames
         /\ Closed(DepsOf, Finished)
<1>1. Finished \subseteq EnabledNames
  BY DEF KnownInv, Finished
<1>2. ASSUME NEW n \in Finished, NEW k \in 1..Len(Deps(n))
      PROVE  Deps(n)[k] \in Finished
  <2>1. Len(Deps(n)) \in Nat
    BY <1>1, DepsEnabled DEF KnownInv
  <2>2. next[n] = Len(Deps(n)) + 1 /\ n \in visited /\ n \notin onStack
    BY DEF CallsInv, Finished
  <2>3. k \in 1..(next[n] - 1)
    BY <2>1, <2>2
  <2>4. \A i \in 1..(Len(path) - 1) : i \in 1..Len(path)
    <3>1. Len(path) \in Nat
      BY LenProperties DEF VLTypeOK
    <3> QED
      BY <3>1
  <2>5. Deps(n)[k] \in Finished \/ \E i \in 1..(Len(path) - 1) : path[i] = n
    BY <2>2, <2>3 DEF CallsInv
  <2>6. (\E i \in 1..(Len(path) - 1) : path[i] = n) => n \in onStack
    BY <2>4 DEF CallsInv
  <2> QED
    BY <2>2, <2>5, <2>6
<1>3. ASSUME NEW n \in Finished PROVE DepsOf[n] \subseteq Finished
  <2>1. n \in EnabledNames /\ DOMAIN Deps(n) = 1..Len(Deps(n))
    BY <1>1, DepsEnabled DEF KnownInv
  <2> QED
    BY <2>1, <1>2 DEF DepsOf, Range
<1> QED
  BY <1>1, <1>3 DEF Closed

\* A call that has looked at everything it depends on is finished.
LEMMA CallsReturn ==
  ASSUME VLTypeOK, KnownInv, CallsInv, EndCall
  PROVE  /\ CallsInv' /\ Finished' = Finished \cup {Caller}
         /\ Caller \in EnabledNames /\ Caller \notin Finished /\ DepsOf[Caller] \subseteq Finished
<1> DEFINE m == Len(path)
<1>s. services' = services /\ phase = "searching" /\ Calling /\ ~HasNext
  BY DEF EndCall, Calling
<1>c. /\ m \in Nat \ {0} /\ Caller = path[m] /\ Caller \in onStack /\ Caller \in Name
      /\ Caller \in EnabledNames
      /\ next[Caller] \in Nat \ {0} /\ Len(Deps(Caller)) \in Nat
  BY <1>s, CallerKnown DEF Caller
<1>k. /\ \A n : Deps(n)' = Deps(n)
      /\ \A n \in visited : n \in Name /\ next[n] \in Nat \ {0} /\ Len(Deps(n)) \in Nat
  BY <1>s, SearchKept
<1>v. /\ visited' = visited /\ onStack' = onStack \ {Caller} /\ next' = next
      /\ Caller \in visited /\ Caller \notin Finished
      /\ Finished' = Finished \cup {Caller}
  BY <1>c DEF EndCall, Leave, Finished, CallsInv
<1>p. /\ path' \in Seq(Name) /\ Len(path') = m - 1
      /\ \A i \in 1..(m - 1) : path'[i] = path[i]
  <2>1. path' = SubSeq(path, 1, m - 1) /\ path \in Seq(Name) /\ Len(path) = m
    BY DEF EndCall, VLTypeOK
  <2> HIDE DEF m
  <2> QED
    BY <1>c, <2>1, Return
<1> HIDE DEF m
<1>i. \A i \in 1..(m - 1) : i \in 1..m /\ m \in 1..m /\ i # m
  BY <1>c
<1>d. \A i \in 1..(m - 1) : path[i] # Caller
  BY <1>i, <1>c DEF CallsInv, m
<1>1. next[Caller] = Len(Deps(Caller)) + 1
  <2>1. next[Caller] <= Len(Deps(Caller)) + 1
    BY <1>v DEF CallsInv
  <2> QED
    BY <2>1, <1>s, <1>c DEF HasNext
<1>2. DepsOf[Caller] \subseteq Finished
  <2>1. \A k \in 1..Len(Deps(Caller)) : k \in 1..(next[Caller] - 1)
    BY <1>1, <1>c
  <2>2. \A k \in 1..Len(Deps(Caller)) : Deps(Caller)[k] \in Finished
    BY <2>1, <1>d, <1>v DEF CallsInv, m
  <2>3. DOMAIN Deps(Caller) = 1..Len(Deps(Caller))
    BY <1>c, <1>s, DepsEnabled DEF KnownInv
  <2> QED
    BY <2>2, <2>3, <1>c DEF DepsOf, Range
<1>3. \A i, j \in 1..(m - 1) : path'[i] = path'[j] => i = j
  BY <1>p, <1>i DEF CallsInv, m
<1>4. onStack' = {path'[i] : i \in 1..(m - 1)}
  <2>1. onStack = {path[i] : i \in 1..m}
    BY DEF CallsInv, m
  <2>2. \A i \in 1..m : i \in 1..(m - 1) \/ i = m
    BY <1>c
  <2> QED
    BY <2>1, <2>2, <1>v, <1>p, <1>i, <1>d, <1>c
<1>5. onStack' \subseteq visited /\ \A n \in Name \ visited : next[n] = 1
  BY <1>v DEF CallsInv
<1>6. \A n \in visited : next[n] <= Len(Deps(n)) + 1
  BY DEF CallsInv
<1>7. \A n \in Finished' : next[n] = Len(Deps(n)) + 1
  BY <1>1, <1>v DEF CallsInv
<1>8. ASSUME NEW i \in 1..(m - 1 - 1)
      PROVE  next[path'[i]] > 1 /\ Deps(path'[i])[next[path'[i]] - 1] = path'[i + 1]
  <2>1. i \in 1..(m - 1) /\ i + 1 \in 1..(m - 1)
    BY <1>c
  <2> QED
    BY <2>1, <1>p DEF CallsInv, m
<1>9. ASSUME NEW n \in visited, NEW k \in 1..(next[n] - 1)
      PROVE  \/ Deps(n)[k] \in Finished'
             \/ k = next[n] - 1 /\ \E i \in 1..(m - 1 - 1) : path'[i] = n
  <2>1. CASE Deps(n)[k] \in Finished
    BY <2>1, <1>v
  <2>2. CASE k = next[n] - 1 /\ \E i \in 1..(m - 1) : path[i] = n
    <3>1. PICK i \in 1..(m - 1) : path[i] = n
      BY <2>2
    <3>2. Deps(n)[k] = path[i + 1]
      BY <2>2, <3>1 DEF CallsInv, m
    <3>3. CASE i = m - 1
      <4>1. i + 1 = m
        BY <3>3, <1>c
      <4> QED
        BY <4>1, <3>2, <1>c, <1>v
    <3>4. CASE i # m - 1
      <4>1. i \in 1..(m - 1 - 1)
        BY <3>4, <1>c
      <4> QED
        BY <4>1, <3>1, <2>2, <1>p
    <3> QED
      BY <3>3, <3>4
  <2> QED
    BY <2>1, <2>2 DEF CallsInv, m
<1>10. Len(path') = m - 1 /\ Len(path') - 1 = m - 1 - 1
  BY <1>p
<1> QED
  BY <1>2, <1>3, <1>4, <1>5, <1>6, <1>7, <1>8, <1>9, <1>10, <1>v, <1>c, <1>k DEF CallsInv

-----------------------------------------------------------------------------
(* GroundedInv.                                                            *)

\* What depends on finished services only can be added to them.
LEMMA GroundedAdd ==
  ASSUME NEW deps, NEW F, NEW n,
         Closed(deps, F), Grounded(deps, F), n \notin F, deps[n] \subseteq F
  PROVE  Grounded(deps, F \cup {n})
<1> SUFFICES ASSUME NEW C \in SUBSET (F \cup {n}), C # {}
             PROVE  \E c \in C : deps[c] \cap C = {}
  BY DEF Grounded
<1>1. CASE C \cap F = {}
  BY <1>1
<1>2. CASE C \cap F # {}
  <2>1. PICK c \in C \cap F : deps[c] \cap (C \cap F) = {}
    BY <1>2 DEF Grounded
  <2>2. deps[c] \subseteq F
    BY <2>1 DEF Closed
  <2> QED
    BY <2>1, <2>2
<1> QED
  BY <1>1, <1>2

\* When every service was found sound, none of them wait in a circle.
LEMMA SoundTogether ==
  ASSUME \A n \in EnabledNames : Sound(n)
  PROVE  Grounded(DepsOf, EnabledNames)
<1> SUFFICES ASSUME NEW C \in SUBSET EnabledNames, C # {}
             PROVE  \E c \in C : DepsOf[c] \cap C = {}
  BY DEF Grounded
<1>1. PICK n \in C : TRUE
  OBVIOUS
<1>2. PICK F \in SUBSET EnabledNames :
        n \in F /\ Closed(DepsOf, F) /\ Grounded(DepsOf, F)
  BY DEF Sound
<1>3. PICK c \in C \cap F : DepsOf[c] \cap (C \cap F) = {}
  BY <1>1, <1>2 DEF Grounded
<1>4. DepsOf[c] \subseteq F
  BY <1>2, <1>3 DEF Closed
<1> QED
  BY <1>3, <1>4

\* Between two searches nothing is on the stack.
LEMMA IdleStack ==
  ASSUME VLTypeOK, KnownInv, CallsInv, GroundedInv, phase = "searching", path = <<>>
  PROVE  \A n \in EnabledNames \ roots : Sound(n)
<1>1. onStack = {}
  <2>1. \A i \in 1..Len(path) : FALSE
    BY EmptySeq
  <2> QED
    BY <2>1 DEF CallsInv
<1>2. Finished = visited
  BY <1>1 DEF Finished
<1>3. \A n \in visited : Sound(n)
  BY <1>2, FinishedClosed DEF GroundedInv, Sound
<1> QED
  BY <1>3 DEF GroundedInv

\* Every step of the search preserves the two invariants of hasCycles.
LEMMA SearchStep ==
  ValidationInv /\ [VLNext]_vlVars => (phase = "searching" => CallsInv /\ GroundedInv)'
<1> SUFFICES ASSUME ValidationInv, [VLNext]_vlVars, phase' = "searching"
             PROVE  CallsInv' /\ GroundedInv'
  OBVIOUS
<1>t. VLTypeOK /\ KnownInv /\ (phase = "searching" => CallsInv /\ GroundedInv)
  BY DEF ValidationInv
<1>1. CASE CheckRefs
  <2>1. /\ path = <<>> /\ path' = <<>> /\ visited' = {} /\ onStack' = {}
        /\ next' = [n \in Name |-> 1] /\ services' = services
    BY <1>1, <1>t DEF CheckRefs, KnownInv
  <2>2. roots' = EnabledNames /\ EnabledNames' = EnabledNames
    BY <1>1, <2>1, ServicesDecide DEF CheckRefs, Reject
  <2>3. Finished' = {} /\ \A i \in 1..Len(path') : FALSE
    BY <2>1, EmptySeq DEF Finished
  <2>4. \A i \in 1..(Len(path') - 1) : FALSE
    BY <2>1, EmptySeq
  <2>5. CallsInv'
    BY <2>1, <2>3, <2>4 DEF CallsInv
  <2>6. GroundedInv'
    BY <2>2, <2>3 DEF GroundedInv, Grounded
  <2> QED
    BY <2>5, <2>6
<1>2. ASSUME NEW name \in roots, BeginSearch(name) PROVE CallsInv' /\ GroundedInv'
  <2>1. CallsInv'
    BY <1>2, <1>t, CallsBegin
  <2>2. \A n \in EnabledNames \ roots : Sound(n)
    BY <1>2, <1>t, IdleStack DEF BeginSearch
  <2>3. EnabledNames' = EnabledNames /\ \A n : Sound(n)' <=> Sound(n)
    BY <1>2, ServicesDecide DEF BeginSearch
  <2>4. roots' \cup visited' = roots /\ Finished' = {}
    BY <1>2 DEF BeginSearch, Finished
  <2> QED
    BY <2>1, <2>2, <2>3, <2>4 DEF GroundedInv, Grounded
<1>3. CASE FollowDependency \/ PassDependency
  <2>1. CallsInv' /\ Finished' = Finished
    BY <1>3, <1>t, CallsFollow, CallsPass DEF FollowDependency, PassDependency, Calling
  <2>2. /\ EnabledNames' = EnabledNames /\ DepsOf' = DepsOf
        /\ \A n : Sound(n)' <=> Sound(n)
    BY <1>3, ServicesDecide DEF FollowDependency, PassDependency
  <2>3. roots' = roots /\ visited \subseteq visited' /\ GroundedInv
    BY <1>3, <1>t DEF FollowDependency, PassDependency, Calling
  <2> QED
    BY <2>1, <2>2, <2>3 DEF GroundedInv
<1>4. CASE EndCall
  <2>1. /\ CallsInv' /\ Finished' = Finished \cup {Caller}
        /\ Caller \notin Finished /\ DepsOf[Caller] \subseteq Finished
    BY <1>4, <1>t, CallsReturn DEF EndCall, Calling
  <2>2. /\ EnabledNames' = EnabledNames /\ DepsOf' = DepsOf
        /\ \A n : Sound(n)' <=> Sound(n)
    BY <1>4, ServicesDecide DEF EndCall
  <2>3. roots' = roots /\ visited' = visited /\ GroundedInv /\ Closed(DepsOf, Finished)
    BY <1>4, <1>t, FinishedClosed DEF EndCall, Calling
  <2>4. Grounded(DepsOf, Finished \cup {Caller})
    BY <2>1, <2>3, GroundedAdd DEF GroundedInv
  <2> QED
    BY <2>1, <2>2, <2>3, <2>4 DEF GroundedInv
<1>5. CASE UNCHANGED vlVars
  <2>1. /\ phase = "searching" /\ services' = services
        /\ roots' = roots /\ path' = path /\ next' = next
        /\ visited' = visited /\ onStack' = onStack
    BY <1>5 DEF vlVars, searchVars
  <2>2. /\ EnabledNames' = EnabledNames /\ DepsOf' = DepsOf
        /\ \A n : Sound(n)' <=> Sound(n)
        /\ \A n : Deps(n)' = Deps(n)
    BY <2>1, ServicesDecide
  <2>3. Finished' = Finished
    BY <2>1 DEF Finished
  <2>4. CallsInv'
    BY <1>t, <2>1, <2>2, <2>3 DEF CallsInv
  <2>5. GroundedInv'
    BY <1>t, <2>1, <2>2, <2>3 DEF GroundedInv
  <2> QED
    BY <2>4, <2>5
<1>6. CASE \/ ParseConfig \/ ScanServices \/ ApplyServiceEnvOverrides \/ ValidateServices
           \/ FindCycle \/ EndSearch
  BY <1>6 DEF ParseConfig, ScanServices, ApplyServiceEnvOverrides, ValidateServices,
              FindCycle, Reject, EndSearch
<1> QED
  BY <1>1, <1>2, <1>3, <1>4, <1>5, <1>6 DEF VLNext

-----------------------------------------------------------------------------
(* ErrorsInv.                                                              *)

Unique == \A i, k \in Present : file[i].name = file[k].name => i = k

\* Once the overrides are applied, the services are those of the file and the
\* enabled ones are those that are wanted.
LEMMA AppliedServices ==
  ASSUME VLTypeOK, ServicesInv, phase \notin {"read", "parsed", "scanned"}
  PROVE  /\ DOMAIN services = Present
         /\ \A i \in Present :
              /\ services[i].name = file[i].name
              /\ services[i].deps = file[i].deps /\ services[i].waits = file[i].waits
              /\ services[i].command = file[i].command
              /\ services[i].runnable = file[i].runnable
              /\ RestartErrors(services[i]) <=> RestartErrors(file[i])
              /\ Enabled(services[i]) <=> Wanted(file[i])
         /\ EnabledNames = BootingNames
<1>1. DOMAIN services = Present
  BY DEF ServicesInv
<1>2. ASSUME NEW i \in Present
      PROVE  /\ services[i].name = file[i].name
             /\ services[i].deps = file[i].deps /\ services[i].waits = file[i].waits
             /\ services[i].command = file[i].command
             /\ services[i].runnable = file[i].runnable
             /\ services[i].restart = file[i].restart /\ services[i].oneshot = file[i].oneshot
             /\ Enabled(services[i]) <=> Wanted(file[i])
  <2>1. file[i] \in Service
    BY FileShape DEF Present
  <2>2. services[i] = [file[i] EXCEPT !.enabled = IF Wanted(file[i]) THEN "true" ELSE "false"]
    BY DEF ServicesInv
  <2> QED
    BY <2>1, <2>2 DEF Service, Enabled
<1>3. \A i \in Present : RestartErrors(services[i]) <=> RestartErrors(file[i])
  BY <1>2 DEF RestartErrors
<1>4. EnabledNames = BootingNames
  <2>1. \A n : n \in EnabledNames <=> \E i \in Present : Wanted(file[i]) /\ n = file[i].name
    BY <1>1, <1>2 DEF EnabledNames
  <2>2. \A n : n \in BootingNames <=> \E i \in Present : Wanted(file[i]) /\ n = file[i].name
    BY DEF BootingNames, Booting
  <2> QED
    BY <2>1, <2>2
<1> QED
  BY <1>1, <1>2, <1>3, <1>4

\* Where no two services have the same name, the maps of validateDependencies
\* give each its own.
LEMMA UniqueMaps ==
  ASSUME VLTypeOK, ServicesInv, phase \notin {"read", "parsed", "scanned"}, Unique,
         NEW i \in Present, Wanted(file[i])
  PROVE  /\ file[i].name \in EnabledNames
         /\ Deps(file[i].name) = file[i].deps
         /\ ~BrokenRef(file[i].name)
<1> DEFINE name == file[i].name
<1>1. /\ DOMAIN services = Present /\ Enabled(services[i])
      /\ services[i].deps = file[i].deps
      /\ \A k \in Present : services[k].name = file[k].name
  BY AppliedServices
<1>2. NamedAt(name) = {i}
  BY <1>1 DEF NamedAt, Unique
<1>3. EnabledAt(name) = {i}
  BY <1>1, <1>2 DEF EnabledAt
<1>4. Max({i}) = i
  <2>1. Len(file) \in Nat /\ {i} \in SUBSET (1..Len(file))
    BY FileShape DEF Present
  <2> QED
    BY <2>1, LastPosition
<1>5. Deps(name) = file[i].deps
  BY <1>1, <1>3, <1>4 DEF Deps
<1>6. ~BrokenRef(name)
  BY <1>1, <1>2, <1>4 DEF BrokenRef
<1>7. name \in EnabledNames
  BY <1>1 DEF EnabledNames
<1> QED
  BY <1>5, <1>6, <1>7

\* A valid file has no reference that is broken and no circular wait.
LEMMA ValidIsSound ==
  ASSUME VLTypeOK, ServicesInv, phase \notin {"read", "parsed", "scanned"}, Valid
  PROVE  /\ \A i \in DOMAIN services : Enabled(services[i]) => ~BrokenRefs(services[i])
         /\ Grounded(DepsOf, EnabledNames)
<1>1. /\ DOMAIN services = Present /\ EnabledNames = BootingNames
      /\ \A i \in Present : /\ services[i].deps = file[i].deps /\ services[i].waits = file[i].waits
                            /\ Enabled(services[i]) <=> Wanted(file[i])
  BY AppliedServices
<1>2. Unique
  BY DEF Valid, WellFormed, Bootable, Unique
<1>b. \A i \in Present : Wanted(file[i]) => file[i] \in Booting
  BY DEF Booting
<1>c. \A n \in BootingNames : \E i \in Present : Wanted(file[i]) /\ n = file[i].name
  BY DEF BootingNames, Booting
<1>3. \A d \in BootingNames : ~BrokenRef(d)
  BY <1>2, <1>c, UniqueMaps
<1>4. ASSUME NEW i \in DOMAIN services, Enabled(services[i])
      PROVE  ~BrokenRefs(services[i])
  <2>1. /\ i \in Present /\ file[i] \in Booting
        /\ services[i].deps = file[i].deps /\ services[i].waits = file[i].waits
    BY <1>1, <1>4, <1>b
  <2>2. Range(file[i].deps) \subseteq BootingNames /\ file[i].waits \subseteq Range(file[i].deps)
    BY <2>1 DEF Valid, WellFormed, Bootable
  <2>3. \A k \in DOMAIN file[i].deps : file[i].deps[k] \in BootingNames
    BY <2>2 DEF Range
  <2> QED
    BY <2>1, <2>2, <2>3, <1>3 DEF BrokenRefs
<1>5. Grounded(DepsOf, EnabledNames)
  <2>1. PICK rank \in [BootingNames -> 1..Len(file)] :
          \A s \in Booting : \A k \in DOMAIN s.deps : rank[s.deps[k]] < rank[s.name]
    BY DEF Valid, WellFormed, Bootable, Acyclic
  <2>2. ASSUME NEW n \in EnabledNames, NEW d \in DepsOf[n] PROVE rank[d] < rank[n]
    <3>1. PICK i \in Present : Wanted(file[i]) /\ n = file[i].name
      BY <1>1, <1>c
    <3>2. Deps(n) = file[i].deps /\ file[i] \in Booting
      BY <3>1, <1>2, <1>b, UniqueMaps
    <3>3. PICK k \in DOMAIN file[i].deps : d = file[i].deps[k]
      BY <3>2 DEF DepsOf, Range
    <3> QED
      BY <2>1, <3>1, <3>2, <3>3
  <2>3. Len(file) \in Nat /\ rank \in [EnabledNames -> 1..Len(file)]
    BY <1>1, FileShape
  <2> QED
    BY <2>2, <2>3, RankGrounds
<1> QED
  BY <1>4, <1>5

\* A dependency on the stack closes a circle of services, each of which waits
\* for the next.
LEMMA CycleFound ==
  ASSUME VLTypeOK, KnownInv, CallsInv, FindCycle
  PROVE  ~Grounded(DepsOf, EnabledNames)
<1> DEFINE m == Len(path)
<1>s. phase = "searching" /\ Calling /\ HasNext /\ NextDep \in onStack
  BY DEF FindCycle, Calling, OnStack
<1>c. /\ m \in Nat \ {0} /\ Caller = path[m] /\ NextDep \in DepsOf[Caller]
      /\ \A i \in 1..m : path[i] \in onStack
  BY <1>s, CallerKnown DEF Caller
<1>p. /\ onStack \subseteq EnabledNames
      /\ onStack = {path[i] : i \in 1..m}
  BY <1>s DEF KnownInv, CallsInv
<1>e. ASSUME NEW i \in 1..(m - 1) PROVE path[i + 1] \in DepsOf[path[i]]
  <2>1. i \in 1..m
    BY <1>c
  <2>2. path[i] \in EnabledNames /\ path[i] \in visited /\ path[i] \in Name
    BY <2>1, <1>c, <1>p, EnabledAreNames DEF CallsInv
  <2>3. next[path[i]] \in Nat \ {0} /\ next[path[i]] <= Len(Deps(path[i])) + 1
    BY <2>2 DEF VLTypeOK, CallsInv
  <2>4. next[path[i]] > 1 /\ Deps(path[i])[next[path[i]] - 1] = path[i + 1]
    BY DEF CallsInv, m
  <2>5. Len(Deps(path[i])) \in Nat /\ DOMAIN Deps(path[i]) = 1..Len(Deps(path[i]))
    BY <2>2, <1>s, DepsEnabled DEF KnownInv
  <2>6. next[path[i]] - 1 \in DOMAIN Deps(path[i])
    BY <2>3, <2>4, <2>5
  <2> QED
    BY <2>2, <2>4, <2>6 DEF DepsOf, Range
<1> HIDE DEF m
<1>1. PICK i \in 1..m : NextDep = path[i]
  BY <1>s, <1>p
<1> DEFINE circle == {path[j] : j \in i..m}
<1>2. \A j \in i..m : j \in 1..m
  BY <1>c
<1>3. circle \in SUBSET EnabledNames
  BY <1>2, <1>c, <1>p
<1>4. i \in i..m
  BY <1>c
<1>5. NextDep \in circle
  BY <1>1, <1>4
<1>6. ASSUME NEW j \in i..m PROVE DepsOf[path[j]] \cap circle # {}
  <2>1. CASE j = m
    BY <2>1, <1>5, <1>c
  <2>2. CASE j # m
    <3>1. j \in 1..(m - 1) /\ j + 1 \in i..m
      BY <2>2, <1>c
    <3>2. path[j + 1] \in circle
      BY <3>1
    <3> QED
      BY <3>1, <3>2, <1>e
  <2> QED
    BY <2>1, <2>2
<1>7. \A n \in circle : DepsOf[n] \cap circle # {}
  BY <1>6
<1> HIDE DEF circle
<1> QED
  BY <1>3, <1>5, <1>7 DEF Grounded

\* Every step keeps the errors found to what is wrong.
LEMMA ErrorsStep == ValidationInv /\ [VLNext]_vlVars => ErrorsInv'
<1> SUFFICES ASSUME ValidationInv, [VLNext]_vlVars PROVE ErrorsInv'
  OBVIOUS
<1>t. /\ VLTypeOK /\ ServicesInv /\ KnownInv /\ ErrorsInv
      /\ phase = "searching" => CallsInv /\ GroundedInv
  BY DEF ValidationInv
<1>f. /\ file' = file /\ Present' = Present
      /\ Valid' <=> Valid
      /\ \A i \in Present : Wanted(file[i])' <=> Wanted(file[i])
  BY FileKept, FileDecides
<1>r. \A i \in Present : RestartErrors(file[i])' <=> RestartErrors(file[i])
  BY <1>f DEF RestartErrors
<1>1. CASE ParseConfig
  BY <1>1, <1>t, <1>f DEF ParseConfig, ErrorsInv
<1>2. CASE ScanServices
  <2>1. \A i \in Present : services[i] = file[i]
    BY <1>2, <1>t DEF ScanServices, ServicesInv
  <2>2. DOMAIN services = Present
    BY <1>2, <1>t DEF ScanServices, ServicesInv
  <2>3. Duplicated <=> ~Unique
    BY <2>1, <2>2 DEF Duplicated, Unique
  <2>4. errors' # {} => ~Valid
    BY <2>3, <1>2 DEF ScanServices, Valid, WellFormed, Bootable, Unique
  <2>5. errors' = {} => Unique
    BY <2>3, <1>2 DEF ScanServices
  <2> QED
    BY <1>2, <1>f, <2>4, <2>5 DEF ScanServices, ErrorsInv, Unique
<1>3. CASE ApplyServiceEnvOverrides
  BY <1>3, <1>t, <1>f DEF ApplyServiceEnvOverrides, ErrorsInv
<1>4. CASE ValidateServices
  <2>1. /\ DOMAIN services = Present
        /\ \A i \in Present :
             /\ services[i].name = file[i].name
             /\ services[i].command = file[i].command
             /\ services[i].runnable = file[i].runnable
             /\ RestartErrors(services[i]) <=> RestartErrors(file[i])
             /\ Enabled(services[i]) <=> Wanted(file[i])
    BY <1>4, <1>t, AppliedServices DEF ValidateServices
  <2> DEFINE Fine(i) == /\ file[i].name \in WellNamed /\ file[i].command
                        /\ Wanted(file[i]) => file[i].runnable /\ ~RestartErrors(file[i])
  <2>2. ASSUME NEW i \in Present PROVE ServiceErrors(services[i]) = {} <=> Fine(i)
    BY <2>1 DEF ServiceErrors
  <2>3. errors' = {} <=> errors = {} /\ \A i \in Present : Fine(i)
    BY <1>4, <2>1, <2>2 DEF ValidateServices
  <2>4. ASSUME NEW i \in Present, Valid PROVE Fine(i)
    <3>1. Wanted(file[i]) => file[i] \in Booting
      BY DEF Booting
    <3> QED
      BY <3>1, <2>4 DEF Valid, WellFormed, Bootable, RestartErrors
  <2>5. errors' # {} => ~Valid
    BY <2>3, <2>4, <1>t DEF ErrorsInv
  <2>6. phase' = "checked" /\ (errors = {} => Unique)
    BY <1>4, <1>t DEF ValidateServices, ErrorsInv, Unique
  <2> QED
    BY <1>f, <1>r, <2>3, <2>5, <2>6 DEF ErrorsInv, Unique
<1>5. CASE CheckRefs
  <2> DEFINE Sane == \A i \in DOMAIN services : Enabled(services[i]) => ~BrokenRefs(services[i])
  <2>1. CASE Sane
    <3>1. phase' = "searching" /\ errors' = errors /\ phase = "checked"
      BY <1>5, <2>1 DEF CheckRefs
    <3> QED
      BY <3>1, <1>t, <1>f, <1>r DEF ErrorsInv
  <2>2. CASE ~Sane
    <3>1. phase' = "rejected" /\ errors' # {}
      BY <1>5, <2>2 DEF CheckRefs, Reject
    <3>2. ~Valid
      BY <1>5, <2>2, <1>t, ValidIsSound DEF CheckRefs
    <3>3. errors' # {} => ~Valid'
      BY <3>2, <1>f
    <3> QED
      BY <3>1, <3>3 DEF ErrorsInv
  <2> QED
    BY <2>1, <2>2
<1>6. CASE FindCycle
  <2>1. phase' = "rejected" /\ errors' # {}
    BY <1>6 DEF FindCycle, Reject
  <2>2. ~Valid
    BY <1>6, <1>t, CycleFound, ValidIsSound DEF FindCycle, Calling
  <2>3. errors' # {} => ~Valid'
    BY <2>2, <1>f
  <2> QED
    BY <2>1, <2>3 DEF ErrorsInv
<1>7. CASE EndSearch
  <2>1. Grounded(DepsOf, EnabledNames)
    BY <1>7, <1>t, IdleStack, SoundTogether DEF EndSearch
  <2>2. EnabledNames' = EnabledNames /\ DepsOf' = DepsOf
    BY <1>7, ServicesDecide DEF EndSearch
  <2>3. /\ errors' = errors /\ phase = "searching"
        /\ phase' = IF errors = {} THEN "accepted" ELSE "rejected"
    BY <1>7 DEF EndSearch
  <2> QED
    BY <2>1, <2>2, <2>3, <1>t, <1>f, <1>r DEF ErrorsInv
<1>8. CASE errors' = errors /\ phase' = phase /\ services' = services
  <2>1. EnabledNames' = EnabledNames /\ DepsOf' = DepsOf
    BY <1>8, ServicesDecide
  <2> QED
    BY <1>8, <2>1, <1>t, <1>f, <1>r DEF ErrorsInv
<1>9. ASSUME ~ParseConfig, ~ScanServices, ~ApplyServiceEnvOverrides, ~ValidateServices,
             ~CheckRefs, ~FindCycle, ~EndSearch
      PROVE  errors' = errors /\ phase' = phase /\ services' = services
  BY <1>9 DEF VLNext, vlVars, BeginSearch, FollowDependency, PassDependency, EndCall
<1> QED
  BY <1>1, <1>2, <1>3, <1>4, <1>5, <1>6, <1>7, <1>8, <1>9

-----------------------------------------------------------------------------
(* The theorems.                                                           *)

\* No more names than services.
LEMMA FewNames ==
  ASSUME VLTypeOK
  PROVE  /\ IsFiniteSet(BootingNames)
         /\ Cardinality(BootingNames) \in Nat /\ Len(file) \in Nat
         /\ Cardinality(BootingNames) <= Len(file)
<1> DEFINE K == {i \in Present : Wanted(file[i])}
           nameAt == [i \in K |-> file[i].name]
<1>1. Len(file) \in Nat /\ K \in SUBSET (1..Len(file))
  BY FileShape DEF Present
<1>2. IsFiniteSet(1..Len(file)) /\ Cardinality(1..Len(file)) = Len(file)
  <2>1. Len(file) \in Nat /\ 1 \in Int /\ Len(file) \in Int
    BY <1>1
  <2>2. /\ IsFiniteSet(1..Len(file))
        /\ Cardinality(1..Len(file)) = IF 1 > Len(file) THEN 0 ELSE Len(file) - 1 + 1
    BY <2>1, FS_Interval
  <2>3. (IF 1 > Len(file) THEN 0 ELSE Len(file) - 1 + 1) = Len(file)
    BY <2>1
  <2> QED
    BY <2>2, <2>3
<1>3. IsFiniteSet(K) /\ Cardinality(K) <= Len(file)
  <2> HIDE DEF K
  <2> QED
    BY <1>1, <1>2, FS_Subset
<1>4. nameAt \in Surjection(K, BootingNames)
  BY DEF Surjection, BootingNames, Booting
<1>5. IsFiniteSet(BootingNames) /\ Cardinality(BootingNames) <= Cardinality(K)
  <2> HIDE DEF K, nameAt
  <2> QED
    BY <1>3, <1>4, FS_Surjection
<1>6. Cardinality(BootingNames) \in Nat /\ Cardinality(K) \in Nat
  <2> HIDE DEF K
  <2> QED
    BY <1>3, <1>5, FS_CardinalityType
<1> QED
  BY <1>1, <1>3, <1>5, <1>6

\* What the invariant says of an accepted file.
LEMMA InvariantAccepts == ValidationInv => AcceptedCanBoot
<1> SUFFICES ASSUME ValidationInv, phase = "accepted"
             PROVE  Valid /\ EnabledNames = BootingNames
  BY DEF AcceptedCanBoot
<1>t. VLTypeOK /\ ServicesInv /\ KnownInv /\ ErrorsInv
  BY DEF ValidationInv
<1>1. /\ DOMAIN services = Present /\ EnabledNames = BootingNames
      /\ \A i \in Present : /\ services[i].deps = file[i].deps /\ services[i].waits = file[i].waits
                            /\ Enabled(services[i]) <=> Wanted(file[i])
  BY <1>t, AppliedServices
<1>2. Unique /\ Grounded(DepsOf, EnabledNames)
  BY <1>t DEF ErrorsInv, Unique
<1>3. \A i \in Present :
        /\ file[i].name \in WellNamed /\ file[i].command
        /\ Wanted(file[i]) => file[i].runnable /\ ~RestartErrors(file[i])
  BY <1>t DEF ErrorsInv
<1>b. \A s \in Booting : \E i \in Present : Wanted(file[i]) /\ s = file[i]
  BY DEF Booting
<1>4. ASSUME NEW s \in Booting
      PROVE  /\ s.runnable /\ ~RestartErrors(s)
             /\ Range(s.deps) \subseteq BootingNames
             /\ s.waits \subseteq Range(s.deps)
             /\ s.name \in BootingNames /\ Deps(s.name) = s.deps
  <2>1. PICK i \in Present : Wanted(file[i]) /\ s = file[i]
    BY <1>b
  <2>2. ~BrokenRefs(services[i])
    BY <2>1, <1>1, <1>t DEF KnownInv
  <2>3. \A k \in DOMAIN s.deps : s.deps[k] \in EnabledNames
    BY <2>1, <2>2, <1>1, <1>t, SoundRef DEF BrokenRefs
  <2>4. Range(s.deps) \subseteq BootingNames
    BY <2>3, <1>1 DEF Range
  <2>5. s.waits \subseteq Range(s.deps)
    BY <2>1, <2>2, <1>1 DEF BrokenRefs
  <2>6. s.name \in EnabledNames /\ Deps(s.name) = s.deps
    BY <2>1, <1>t, <1>2, UniqueMaps
  <2>7. s.runnable /\ ~RestartErrors(s)
    <3>1. file[i].runnable /\ ~RestartErrors(file[i])
      BY <2>1, <1>3
    <3> QED
      BY <2>1, <3>1
  <2> QED
    BY <2>4, <2>5, <2>6, <2>7, <1>1
<1>5. Acyclic
  <2> DEFINE N == BootingNames
  <2>1. DepsOf \in [N -> SUBSET N]
    <3>1. \A n \in EnabledNames : \E s \in Booting : n = s.name
      BY <1>1 DEF BootingNames
    <3>2. \A n \in EnabledNames : Range(Deps(n)) \subseteq BootingNames
      BY <3>1, <1>4
    <3> QED
      BY <3>2, <1>1 DEF DepsOf
  <2>2. IsFiniteSet(N) /\ Grounded(DepsOf, N)
    BY <1>t, <1>1, <1>2, FewNames
  <2>3. PICK rank \in [N -> 1..Cardinality(N)] :
          \A n \in N : \A d \in DepsOf[n] : rank[d] < rank[n]
    <3> HIDE DEF N
    <3> QED
      BY <2>1, <2>2, RankExists
  <2>4. rank \in [BootingNames -> 1..Len(file)]
    <3>1. \A c \in 1..Cardinality(BootingNames) : c \in 1..Len(file)
      BY <1>t, FewNames
    <3>2. \A n \in BootingNames : rank[n] \in 1..Len(file)
      BY <3>1, <2>3
    <3> QED
      BY <3>2, <2>3
  <2>5. ASSUME NEW s \in Booting, NEW k \in DOMAIN s.deps PROVE rank[s.deps[k]] < rank[s.name]
    <3>1. s.name \in N /\ s.deps[k] \in DepsOf[s.name]
      BY <1>1, <1>4 DEF DepsOf, Range
    <3> QED
      BY <3>1, <2>3
  <2> QED
    BY <2>4, <2>5 DEF Acyclic
<1>6. \A s \in Booting :
        s.restart \in {"", "never"} \/ (s.restart \in {"on-failure", "always"} /\ ~s.oneshot)
  BY <1>4 DEF RestartErrors
<1>7. \A i, k \in Present : file[i].name = file[k].name => i = k
  BY <1>2 DEF Unique
<1>8. \A s \in Booting :
        s.runnable /\ Range(s.deps) \subseteq BootingNames /\ s.waits \subseteq Range(s.deps)
  BY <1>4
<1>9. \A i \in Present : file[i].name \in WellNamed /\ file[i].command
  BY <1>3
<1>10. \A s \in Booting :
        /\ s.runnable
        /\ s.restart \in {"", "never"} \/ (s.restart \in {"on-failure", "always"} /\ ~s.oneshot)
        /\ Range(s.deps) \subseteq BootingNames
        /\ s.waits \subseteq Range(s.deps)
  BY <1>6, <1>8
<1> QED
  BY <1>1, <1>5, <1>7, <1>9, <1>10, Zenon DEF Valid, WellFormed, Bootable

\* The invariant holds of a file as it is read.
LEMMA ValidationInit == VLInit => ValidationInv
<1> SUFFICES ASSUME VLInit PROVE ValidationInv
  OBVIOUS
<1>1. VLTypeOK
  BY VLTypeInit
<1>2. /\ phase = "read" /\ errors = {}
      /\ roots = {} /\ path = <<>> /\ next = [n \in Name |-> 1]
      /\ visited = {} /\ onStack = {}
  BY DEF VLInit
<1>3. ServicesInv /\ KnownInv /\ ErrorsInv
  BY <1>2 DEF ServicesInv, KnownInv, ErrorsInv
<1> QED
  BY <1>1, <1>2, <1>3 DEF ValidationInv

\* It holds of every file and environment at every step of its validation.
LEMMA ValidationInvariant == VLSpec => []ValidationInv
<1>1. ValidationInv /\ [VLNext]_vlVars => ValidationInv'
  BY VLTypeStep, ServicesStep, KnownStep, SearchStep, ErrorsStep DEF ValidationInv
<1> QED
  BY <1>1, ValidationInit, PTL DEF VLSpec

\* Type correctness of the validation, whatever the file says (parseConfig,
\* validateConfig): in particular every service is enabled or disabled once
\* validateConfig has given enabled its default.
THEOREM VLTypeCorrect == VLSpec => []VLTypeOK
<1>1. ValidationInv => VLTypeOK
  BY DEF ValidationInv
<1> QED
  BY <1>1, ValidationInvariant, PTL

\* Whatever is accepted is well formed and can boot, for every file and environment
\* (validateDependencies, hasCycles): the search for cycles, with a visited map
\* and a stack of its own for each root, misses none.
THEOREM AcceptedBoots == VLSpec => []AcceptedCanBoot
BY InvariantAccepts, ValidationInvariant, PTL

\* For every file and environment, a file is turned down only if the name or
\* the command of some service is wrong, or the wanted services cannot boot
\* (validateService, hasCycles): what the search finds is a circular wait.
THEOREM OnlyInvalidRejected == VLSpec => []RejectedIsInvalid
<1>1. ValidationInv => RejectedIsInvalid
  BY DEF ValidationInv, ErrorsInv, RejectedIsInvalid
<1> QED
  BY <1>1, ValidationInvariant, PTL

-----------------------------------------------------------------------------
(* What the supervisor is handed, and the end of the search.               *)

\* The one service of each name that boots.
ServiceOf(n) == services[Max(EnabledAt(n))]

\* The configuration as StartupAssumption and LifecycleAssumption want it.
AsAssumed ==
  /\ IsFiniteSet(EnabledNames)
  /\ [n \in EnabledNames |-> Deps(n)] \in [EnabledNames -> Seq(EnabledNames)]
  /\ \E rank \in [EnabledNames -> 1..Cardinality(EnabledNames)] :
       \A n \in EnabledNames : \A i \in DOMAIN Deps(n) : rank[Deps(n)[i]] < rank[n]
  /\ \A n \in EnabledNames :
       /\ ServiceOf(n).waits \subseteq EnabledNames
       /\ ServiceOf(n).restart \in {"", "never", "on-failure", "always"}
       /\ ServiceOf(n).oneshot => ServiceOf(n).restart \in {"", "never"}

\* The invariant has it once a file is accepted.
LEMMA AcceptedShape == ValidationInv => (phase = "accepted" => AsAssumed)
<1> SUFFICES ASSUME ValidationInv, phase = "accepted" PROVE AsAssumed
  OBVIOUS
<1>t. VLTypeOK /\ ServicesInv /\ KnownInv /\ ErrorsInv
  BY DEF ValidationInv
<1>s. \A i \in DOMAIN services : Enabled(services[i]) => ~BrokenRefs(services[i])
  BY <1>t DEF KnownInv
<1>1. IsFiniteSet(EnabledNames) /\ Grounded(DepsOf, EnabledNames)
  BY <1>t, AppliedServices, FewNames DEF ErrorsInv
<1>2. ASSUME NEW n \in EnabledNames
      PROVE  /\ Deps(n) \in Seq(EnabledNames)
             /\ DOMAIN Deps(n) = 1..Len(Deps(n))
             /\ \A i \in DOMAIN Deps(n) : Deps(n)[i] \in EnabledNames
  <2>1. /\ Deps(n) \in Seq(Name) /\ Len(Deps(n)) \in Nat
        /\ DOMAIN Deps(n) = 1..Len(Deps(n))
        /\ \A k \in 1..Len(Deps(n)) : Deps(n)[k] \in EnabledNames
    BY <1>t, <1>s, DepsEnabled
  <2>2. Deps(n) \in Seq(EnabledNames)
    BY <2>1, SeqDef
  <2> QED
    BY <2>1, <2>2
<1>3. \E rank \in [EnabledNames -> 1..Cardinality(EnabledNames)] :
        \A n \in EnabledNames : \A i \in DOMAIN Deps(n) : rank[Deps(n)[i]] < rank[n]
  <2>1. DepsOf \in [EnabledNames -> SUBSET EnabledNames]
    BY <1>2 DEF DepsOf, Range
  <2>2. PICK rank \in [EnabledNames -> 1..Cardinality(EnabledNames)] :
          \A n \in EnabledNames : \A d \in DepsOf[n] : rank[d] < rank[n]
    BY <1>1, <2>1, RankExists
  <2>3. \A n \in EnabledNames : \A i \in DOMAIN Deps(n) : Deps(n)[i] \in DepsOf[n]
    BY DEF DepsOf, Range
  <2> QED
    BY <2>2, <2>3
<1>4. ASSUME NEW n \in EnabledNames
      PROVE  /\ ServiceOf(n).waits \subseteq EnabledNames
             /\ ServiceOf(n).restart \in {"", "never", "on-failure", "always"}
             /\ ServiceOf(n).oneshot => ServiceOf(n).restart \in {"", "never"}
  <2> DEFINE last == Max(EnabledAt(n))
  <2>1. last \in DOMAIN services /\ Enabled(services[last])
    BY <1>t, EnabledLast
  <2>2. services[last].waits \subseteq Range(services[last].deps) /\ services[last].deps = Deps(n)
    BY <2>1, <1>s DEF BrokenRefs, Deps
  <2>3. services[last].waits \subseteq EnabledNames
    BY <2>2, <1>2 DEF Range
  <2>4. ~RestartErrors(services[last])
    BY <2>1, <1>t, AppliedServices DEF ErrorsInv
  <2> QED
    BY <2>3, <2>4 DEF RestartErrors, ServiceOf
<1>5. [n \in EnabledNames |-> Deps(n)] \in [EnabledNames -> Seq(EnabledNames)]
  BY <1>2
<1> QED
  BY <1>1, <1>3, <1>4, <1>5 DEF AsAssumed

\* What is accepted satisfies what the theorems about the supervisor assume of
\* its configuration: its services are finitely many, their dependencies are
\* among them and can be ranked, and no one-shot job has a restart policy
\* (StartupAssumption, LifecycleAssumption; validateConfig).
THEOREM AcceptedIsAssumed == VLSpec => [](phase = "accepted" => AsAssumed)
BY AcceptedShape, ValidationInvariant, PTL

\* A step of the search takes nothing back.
LEMMA StepGetsOn ==
  ASSUME ValidationInv, VLNext, phase = "searching", phase' = "searching"
  PROVE  GetsOn
<1>t. VLTypeOK /\ KnownInv /\ CallsInv /\ visited \subseteq EnabledNames
  BY DEF ValidationInv, KnownInv
<1>v. \A n \in visited : /\ n \in Name /\ next[n] \in Nat \ {0} /\ Len(Deps(n)) \in Nat
                         /\ next[n] <= Len(Deps(n)) + 1
  <2>1. \A n \in visited : n \in Name /\ n \in EnabledNames
    BY <1>t, EnabledAreNames
  <2>2. \A n \in visited : Len(Deps(n)) \in Nat
    BY <2>1, <1>t, DepsEnabled DEF KnownInv
  <2> QED
    BY <2>1, <2>2, <1>t DEF VLTypeOK, CallsInv
<1>1. ASSUME NEW name \in roots, BeginSearch(name) PROVE GetsOn
  BY <1>1 DEF BeginSearch, GetsOn
<1>2. CASE FollowDependency \/ PassDependency
  <2>1. /\ roots' = roots /\ visited \subseteq visited' /\ Calling /\ HasNext
        /\ next' = [next EXCEPT ![Caller] = @ + 1]
    BY <1>2 DEF FollowDependency, PassDependency, Advance
  <2>2. /\ Caller \in onStack /\ Caller \in visited /\ NextDep \in EnabledNames
        /\ next[Caller] \in 1..Len(Deps(Caller))
    BY <2>1, <1>t, CallerKnown DEF CallsInv
  <2>3. visited' \subseteq EnabledNames
    BY <1>2, <1>t, <2>2 DEF FollowDependency, PassDependency
  <2>4. visited' \ onStack' = visited \ onStack
    BY <1>2, <1>t, CallsFollow, CallsPass DEF Finished
  <2>5. next'[Caller] = next[Caller] + 1 /\ \A n \in visited : n # Caller => next'[n] = next[n]
    BY <2>1, <2>2, <1>t, <1>v DEF VLTypeOK
  <2>6. next'[Caller] <= Len(Deps(Caller)) + 1 /\ next[Caller] < next'[Caller]
    BY <2>2, <2>5, <1>v
  <2>7. \A n \in visited : next[n] <= next'[n] /\ next'[n] <= Len(Deps(n)) + 1
    BY <2>5, <2>6, <1>v
  <2> QED
    BY <2>1, <2>2, <2>3, <2>4, <2>6, <2>7 DEF GetsOn
<1>3. CASE EndCall
  <2>1. roots' = roots /\ visited' = visited /\ next' = next
    BY <1>3 DEF EndCall
  <2>2. Finished' = Finished \cup {Caller} /\ Caller \notin Finished
    BY <1>3, <1>t, CallsReturn
  <2>3. \A n \in visited : next[n] <= next'[n] /\ next'[n] <= Len(Deps(n)) + 1
    BY <2>1, <1>v
  <2> QED
    BY <2>1, <2>2, <2>3, <1>t DEF GetsOn, Finished
<1>4. CASE \/ ParseConfig \/ ScanServices \/ ApplyServiceEnvOverrides \/ ValidateServices
           \/ CheckRefs \/ FindCycle \/ EndSearch
  BY <1>4 DEF ParseConfig, ScanServices, ApplyServiceEnvOverrides, ValidateServices,
              CheckRefs, FindCycle, Reject, EndSearch
<1> QED
  BY <1>1, <1>2, <1>3, <1>4 DEF VLNext

\* The search for cycles ends, whatever the file says: no step of it undoes
\* what another did, and each uses up a root, a service or a dependency
\* (validateDependencies, hasCycles).
THEOREM SearchEnds == VLSpec => SearchGetsOn
<1>1. ValidationInv /\ [VLNext]_vlVars =>
        [phase = "searching" /\ phase' = "searching" => GetsOn]_vlVars
  BY StepGetsOn
<1> QED
  BY <1>1, ValidationInvariant, PTL DEF VLSpec, SearchGetsOn
=============================================================================
