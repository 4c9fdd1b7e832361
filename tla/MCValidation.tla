---------------------------- MODULE MCValidation ----------------------------
(***************************************************************************)
(* Two families of inputs: every dependency graph of three services two of *)
(* which differ in case only, and two services with every combination of   *)
(* the fields and variables that decide about them.                        *)
(***************************************************************************)
EXTENDS Validation

\* "a." is no name for a service, but has the token of "a".
MCName == {"", "a", "a.", "b", "B", "x"}
MCWellNamed == {"a", "b", "B", "x"}
MCLower == [n \in {"a", "a.", "b", "B"} |-> IF n = "B" THEN "b" ELSE n]
MCToken == [n \in {"a", "a.", "b", "B"} |-> IF n \in {"a", "a."} THEN "A" ELSE "B"]

Declared(name, enabled, deps) ==
  [name |-> name, enabled |-> enabled, deps |-> deps, waits |-> {},
   command |-> TRUE, runnable |-> TRUE, restart |-> "", oneshot |-> FALSE]

NoOverride == [t \in {"A", "B"} |-> "unset"]

DepLists ==
  {<<>>} \cup {<<d>> : d \in {"a", "b", "B", "x"}}
    \cup [1..2 -> {"a", "b", "B"}]

Graphs ==
  [services : {<<Declared("a", e[1], g[1]), Declared("b", e[2], g[2]), Declared("B", e[3], g[3])>> :
                 e \in [1..3 -> {"unset", "false"}], g \in [1..3 -> DepLists]},
   env : {[only |-> o, enable |-> NoOverride, disable |-> NoOverride] : o \in {{}, {"b"}}}]

Fields ==
  [services :
     {<<[Declared(m, e, <<>>) EXCEPT !.command = c, !.runnable = r],
        [Declared(n, "true", d) EXCEPT !.waits = w, !.restart = p, !.oneshot = o]>> :
          m \in {"a", "a."}, e \in {"unset", "true", "false"}, c \in BOOLEAN, r \in BOOLEAN,
          n \in {"a", "b", ""}, d \in {<<>>, <<"a">>}, w \in {{}, {"a"}},
          p \in {"", "always", "other"}, o \in BOOLEAN},
   env :
     {[only |-> only, enable |-> [NoOverride EXCEPT !["A"] = en],
       disable |-> [NoOverride EXCEPT !["A"] = di]] :
          only \in {{}, {"a"}}, en \in {"unset", "true", "false", "junk"},
          di \in {"unset", "true", "false", "junk"}}]

MCInputs == Graphs \cup Fields
=============================================================================
