------------------------------ MODULE Ordering ------------------------------
(***************************************************************************)
(* How the parser turns the resources of a configuration into the order in *)
(* which the controller handles them (amscrot/util/parser.py and           *)
(* resource_dependency_helper.py): resources with a count of zero are left *)
(* out, every reference to another resource becomes a dependency, and the  *)
(* resources are taken one by one as nothing they depend on is left.       *)
(***************************************************************************)
EXTENDS Naturals, Sequences, FiniteSets

CONSTANT ConfigResource  \* labels of the resources of the configuration

VARIABLES
    refers,         \* the resources that the attributes of a resource refer to
    counted,        \* resources whose count is not zero
    dependencyMap,  \* the dependencies still to come of a resource still to be ordered
    ordered,        \* ordered_resources
    parsing         \* "evaluate", "order", "ordered", or the exception raised

orderingVars == <<refers, counted, dependencyMap, ordered, parsing>>

OrderingInit ==
    /\ refers \in [ConfigResource -> SUBSET ConfigResource]
    /\ counted \in SUBSET ConfigResource
    /\ dependencyMap = [r \in {} |-> {}]
    /\ ordered = <<>>
    /\ parsing = "evaluate"

Waiting == DOMAIN dependencyMap
Done == {ordered[i] : i \in 1..Len(ordered)}

\* ResourceDependencyEvaluator: "Maybe its count is set to zero?"
Evaluate ==
    /\ parsing = "evaluate"
    /\ IF \A r \in counted : refers[r] \subseteq counted
       THEN /\ dependencyMap' = [r \in counted |-> refers[r]]
            /\ parsing' = "order"
       ELSE parsing' = "not found" /\ UNCHANGED dependencyMap
    /\ UNCHANGED <<refers, counted, ordered>>

\* Mutant of Unblocked: one dependency that is still to come is overlooked.
UnblockedButOne(r) == Cardinality(dependencyMap[r]) <= 1

Unblocked(r) == dependencyMap[r] = {}

\* Mutant of Take: the resource is not taken off the dependencies of the others.
TakeKeeping(r) ==
    /\ parsing = "order" /\ r \in Waiting /\ Unblocked(r)
    /\ ordered' = Append(ordered, r)
    /\ dependencyMap' = [x \in Waiting \ {r} |-> dependencyMap[x]]
    /\ UNCHANGED <<refers, counted, parsing>>

\* order_resources takes the first such resource of the map; any of them here.
Take(r) ==
    /\ parsing = "order" /\ r \in Waiting /\ Unblocked(r)
    /\ ordered' = Append(ordered, r)
    /\ dependencyMap' = [x \in Waiting \ {r} |-> dependencyMap[x] \ {r}]
    /\ UNCHANGED <<refers, counted, parsing>>

\* Mutant of EndOrdering: what is ordered so far is returned.
EndOrderingSoon ==
    /\ parsing = "order"
    /\ \A r \in Waiting : ~Unblocked(r)
    /\ parsing' = "ordered"
    /\ UNCHANGED <<refers, counted, dependencyMap, ordered>>

\* The loop ends with an empty map, or with "circular dependencies".
EndOrdering ==
    /\ parsing = "order"
    /\ \A r \in Waiting : ~Unblocked(r)
    /\ parsing' = IF Waiting = {} THEN "ordered" ELSE "circular"
    /\ UNCHANGED <<refers, counted, dependencyMap, ordered>>

OrderingNext ==
    \/ Evaluate
    \/ \E r \in ConfigResource : Take(r)
    \/ EndOrdering

OrderingSpec == OrderingInit /\ [][OrderingNext]_orderingVars

-----------------------------------------------------------------------------
(* Properties.                                                             *)

OrderingTypeOK ==
    /\ refers \in [ConfigResource -> SUBSET ConfigResource]
    /\ counted \subseteq ConfigResource
    /\ Waiting \subseteq ConfigResource
    /\ dependencyMap \in [Waiting -> SUBSET ConfigResource]
    /\ ordered \in Seq(ConfigResource)
    /\ parsing \in {"evaluate", "order", "ordered", "not found", "circular"}

\* The controller creates in the order of the list and destroys in reverse
\* (controller.py): whatever a resource refers to comes before it, for every
\* prefix of the list that the loop has built.
DependenciesFirst ==
    \A i \in 1..Len(ordered) : \A d \in refers[ordered[i]] :
        \E j \in 1..(i - 1) : ordered[j] = d

\* A list that was returned has every resource of the configuration once.
AllOnce ==
    parsing = "ordered" =>
        /\ Done = counted
        /\ \A i, j \in 1..Len(ordered) : ordered[i] = ordered[j] => i = j

\* "circular dependencies" is raised for a cycle only: the resources left over
\* all refer to one another, so that none of them could come first.
CircularIsCircular ==
    parsing = "circular" =>
        /\ counted \ Done # {}
        /\ \A r \in counted \ Done : refers[r] \cap (counted \ Done) # {}

\* What makes them inductive: the map holds what is still to be ordered, each
\* with the part of its references that is not ordered yet.
MapInv ==
    parsing # "evaluate" /\ parsing # "not found" =>
        /\ \A r \in counted : refers[r] \subseteq counted
        /\ Done \subseteq counted
        /\ Waiting = counted \ Done
        /\ \A r \in Waiting : dependencyMap[r] = refers[r] \ Done

\* What controller.py takes from resource_dependency_helper.py: the order in
\* which it creates, and the exception when there is none, are right for
\* every configuration.
OrderIsSound == DependenciesFirst /\ AllOnce /\ CircularIsCircular
=============================================================================
