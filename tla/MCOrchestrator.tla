--------------------------- MODULE MCOrchestrator ---------------------------
(***************************************************************************)
(* Instances of Orchestrator: every workflow of N resources of a kind.     *)
(***************************************************************************)
EXTENDS Orchestrator

CONSTANT FirstProvider  \* owner of resource 1: the labels are interchangeable

Owners == {f \in [Resource -> Provider] : 1 \in Resource => f[1] = FirstProvider}
Graphs == {f \in [Resource -> SUBSET Resource] :
              \A r \in Resource : f[r] \subseteq 1..(r - 1)}

Kinds(kinds) == [Resource -> [Resource -> kinds]]
WholeObjects == {[r \in Resource |-> [d \in Resource |-> "object"]]}

\* No non-service depends on a service.
ServicesLast(t) ==
    \A r \in Resource \ t.service : t.deps[r] \cap t.service = {}

Workflows(counts, attrs) ==
    [owner : Owners, count : [Resource -> counts], service : SUBSET Resource,
     deps : Graphs, attr : attrs]

\* Dependencies on whole resources, services last: the documented examples.
PlainWorkflows == {t \in Workflows({1}, WholeObjects) : ServicesLast(t)}

\* Two instances of one resource others depend on, all values from the adds or
\* all from the creations.
PairWorkflows ==
    {t \in Workflows({1, 2}, {[r \in Resource |-> [d \in Resource |-> kind]] :
                                 kind \in {"object", "late"}}) :
        /\ t.service = {}
        /\ \E r \in Resource :
              /\ \A x \in Resource : (t.count[x] = 2) <=> (x = r)
              /\ \E x \in Resource : r \in t.deps[x]}

\* Every kind of attribute, services anywhere.
AnyWorkflows == {t \in Workflows({1}, Kinds(AttrKind)) :
    \A r, d \in Resource : d \notin t.deps[r] => t.attr[r][d] = "object"}

\* Both: the pending lists under every kind of attribute and of count.
ListedWorkflows == AnyWorkflows \cup PairWorkflows
=============================================================================
