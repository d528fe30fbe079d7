--------------------------- MODULE MCVolumeCursor ---------------------------
(* Inputs for VolumeCursor: volume names as model values, label keys and   *)
(* values as strings.                                                      *)
EXTENDS VolumeCursor, TLC

CONSTANTS a, b, c

\* Every list of one to three distinct names (the validated case).
DistinctLists ==
    {s \in UNION {[1..n -> {a, b, c}] : n \in 1..3} :
        \A i, j \in DOMAIN s : s[i] = s[j] => i = j}

\* A list naming the same volumeClaimTemplate twice (validation accepts it).
DuplicateLists == {<<a, a>>, <<a, b, a>>}

BadLists == DistinctLists \cup DuplicateLists

\* The StatefulSet's pod template labels.
TemplateLabels == ("app" :> "db") @@ ("tier" :> "prod")

\* Selectors, one of each kind validatePDBAllowsDisruption meets: one
\* matchLabels pair of the pods, the empty selector (every pod), a
\* matchLabels the pods lack, and an empty matchLabels whose expression
\* excludes the pods.
SelApp == [matchLabels |-> ("app" :> "db"), exprs |-> {}]
SelEverything == [matchLabels |-> <<>>, exprs |-> {}]
SelOtherApp == [matchLabels |-> ("app" :> "web"), exprs |-> {}]
SelNotDB == [matchLabels |-> <<>>,
             exprs |-> {[key |-> "app", op |-> "NotIn", values |-> {"db"}]}]

PDBs == [sel : {SelApp, SelEverything, SelOtherApp, SelNotDB, NilSelector},
         allowed : {0, 1}]

\* The namespace holds at most two PDBs.
TwoPDBSets == {S \in SUBSET PDBs : Cardinality(S) <= 2}

\* PDBs that validation judges as Kubernetes does (no matchExpressions).
NoExprPDBSets == {S \in TwoPDBSets : \A p \in S : p.sel # SelNotDB}
====
