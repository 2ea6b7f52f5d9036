------------------------------ MODULE Teardown ------------------------------
(***************************************************************************)
(* What a session remembers of its resources between applies and destroys: *)
(* the provider states AmSCROTManager.apply saves                          *)
(* (amscrot/amscrot_manager.py), their reconciliation with the file of the *)
(* session (amscrot/util/state.py), and Controller.destroy                 *)
(* (amscrot/controller/controller.py) over the providers.                  *)
(*                                                                         *)
(* An apply is one step here: Orchestrator details it.  Of what it may     *)
(* leave behind the step keeps what that module establishes, that a        *)
(* resource is created only after its external dependencies.  Resources    *)
(* are numbered in topological order and have one instance; the workflow   *)
(* does not change from one call to the next.                              *)
(***************************************************************************)
EXTENDS Integers, FiniteSets

CONSTANTS
    N,                \* number of resources in the workflow
    Provider,         \* provider labels
    Topology,         \* the workflows to consider
    MaxFailedApplies, \* bound: applies that do not create everything
    Fault             \* the faults of the environment to consider

Resource == 1..N

ASSUME TeardownAssumption ==
    /\ N \in Nat /\ MaxFailedApplies \in Nat
    \* duplicate: a provider reports an instance twice, as the dummy one does;
    \* interrupt: the destroy is interrupted; die: the apply is killed
    /\ Fault \subseteq {"duplicate", "interrupt", "die"}
    /\ \A t \in Topology :
        /\ t.owner \in [Resource -> Provider]
        /\ t.deps \in [Resource -> SUBSET Resource]
        /\ \A r \in Resource : \A d \in t.deps[r] : d < r

VARIABLES
    topo,      \* the workflow, never changed
    exists,    \* resources that exist at their providers
    saved,     \* resources with a state in the file of the session
    created,   \* creation_details[r]["created_count"] in the file
    failed,    \* resources in the failed map of their provider in the file
    failures,  \* applies that did not create everything, for the bound
    op,        \* "destroy" while the loop of Controller.destroy runs
    left,      \* resources that loop has still to handle
    skip,      \* skip_resources
    remaining, \* remaining_resources
    undeleted  \* Provider.failed of this process, all providers together

disk == <<saved, created, failed>>
loop == <<op, left, skip, remaining, undeleted>>
vars == <<topo, exists, disk, failures, loop>>

Mine(p) == {r \in Resource : topo.owner[r] = p}
External(r) == {d \in topo.deps[r] : topo.owner[d] # topo.owner[r]}

Init ==
    /\ topo \in Topology
    /\ exists = {}
    /\ saved = {} /\ created = [r \in Resource |-> 0] /\ failed = {}
    /\ failures = 0
    /\ op = "idle" /\ left = {} /\ skip = {} /\ remaining = {} /\ undeleted = {}

-----------------------------------------------------------------------------
(* Apply, and the reconciliation of its states with the saved ones.        *)

\* The sum of the created counts: every resource reported, and once more
\* those reported twice.
NumberOfCreated(p, counts) ==
    Cardinality({r \in Mine(p) : counts[r] > 0})
        + Cardinality({r \in Mine(p) : counts[r] = 2})

\* Mutant of Complete: one created resource is enough.
Started(p, counts) == NumberOfCreated(p, counts) > 0

\* number_of_created_resources() == number_of_total_resources()
Complete(p, counts) == NumberOfCreated(p, counts) = Cardinality(Mine(p))

\* reconcile_state: saved states of resources this apply did not create once.
Kept(counts) == {r \in saved : counts[r] # 1}

\* reconcile_states: the saved states are looked at only if their own counters
\* show a created resource, and only for providers that are not complete.
Reconciled(counts) ==
    LET fresh == {r \in Resource : counts[r] > 0}
    IN  IF \A r \in Resource : created[r] = 0 THEN fresh
        ELSE fresh \cup {r \in Kept(counts) : ~Complete(topo.owner[r], counts)}

\* What an apply may report created, and how often.
Counts ==
    {c \in [Resource -> 0..(IF "duplicate" \in Fault THEN 2 ELSE 1)] :
        \A r \in Resource : c[r] > 0 => \A d \in External(r) : c[d] > 0}

\* A resource that was tried and not created is in the failed map; one that
\* was passed over, or not reached, is not.
MayFail(counts) ==
    {r \in Resource : counts[r] = 0 /\ \A d \in External(r) : counts[d] > 0}

\* The states are saved whether the apply succeeds or raises.
Apply(counts, failing) ==
    /\ op = "idle"
    /\ LET short == \E r \in Resource : counts[r] = 0
       IN  /\ short => failures < MaxFailedApplies
           /\ failures' = IF short THEN failures + 1 ELSE failures
    /\ exists' = exists \cup {r \in Resource : counts[r] > 0}
    /\ saved' = Reconciled(counts)
    /\ created' = counts /\ failed' = failing
    /\ UNCHANGED <<topo, loop>>

\* The process is killed before save_states.
ApplyKilled(counts) ==
    /\ "die" \in Fault /\ op = "idle" /\ failures < MaxFailedApplies
    /\ failures' = failures + 1
    /\ exists' = exists \cup {r \in Resource : counts[r] > 0}
    /\ UNCHANGED <<topo, disk, loop>>

-----------------------------------------------------------------------------
(* Controller.destroy.                                                     *)

\* Building EXTERNAL_DEPENDENCY_STATES raises KeyError for a dependency of a
\* saved resource that has no saved state.
StartDestroy ==
    /\ op = "idle"
    /\ \A r \in saved : External(r) \subseteq saved
    /\ op' = "destroy" /\ left' = saved \cup failed
    /\ skip' = {} /\ remaining' = {} /\ undeleted' = {}
    /\ UNCHANGED <<topo, exists, disk, failures>>

\* Mutant of IsNext: the resources are taken in the order of creation.
IsFirst(r) == r \in left /\ \A x \in left : r <= x

\* The resources are taken in reverse order.
IsNext(r) == r \in left /\ \A x \in left : x <= r

\* Mutant of DependencyLabels: nothing is kept for a resource that stays.
NoLabels(r) == {}

\* The labels of EXTERNAL_DEPENDENCY_STATES, which only saved resources have.
DependencyLabels(r) == IF r \in saved THEN External(r) ELSE {}

\* r stays, and with it its external dependencies.
Stays(r) ==
    /\ left' = left \ {r}
    /\ remaining' = remaining \cup {r}
    /\ skip' = skip \cup DependencyLabels(r)

Skip(r) ==
    /\ op = "destroy" /\ IsNext(r) /\ r \in skip
    /\ Stays(r)
    /\ UNCHANGED <<topo, exists, disk, failures, op, undeleted>>

Delete(r) ==
    /\ op = "destroy" /\ IsNext(r) /\ r \notin skip
    /\ exists' = exists \ {r}
    /\ left' = left \ {r}
    /\ UNCHANGED <<topo, disk, failures, op, skip, remaining, undeleted>>

DeleteFails(r) ==
    /\ op = "destroy" /\ IsNext(r) /\ r \notin skip
    /\ Stays(r)
    /\ undeleted' = undeleted \cup {r}
    /\ UNCHANGED <<topo, exists, disk, failures, op>>

\* Mutant of EndDestroy: the loop is left before it is over.
EndDestroyEarly ==
    /\ op = "destroy"
    /\ op' = "idle"
    /\ saved' = saved \cap remaining /\ failed' = undeleted
    /\ created' = created
    /\ UNCHANGED <<topo, exists, failures, left, skip, remaining, undeleted>>

\* Mutant of EndDestroy: only the resources whose deletion raised are kept.
EndDestroyRaised ==
    /\ op = "destroy" /\ left = {}
    /\ op' = "idle"
    /\ saved' = saved \cap undeleted /\ failed' = undeleted
    /\ created' = [r \in Resource |->
          IF Mine(topo.owner[r]) \cap (saved' \cup failed') = {} THEN 0 ELSE created[r]]
    /\ UNCHANGED <<topo, exists, failures, left, skip, remaining, undeleted>>

\* The states of what remains are saved, with the failed map of this process;
\* a provider with neither is left out, with its counters.
EndDestroy ==
    /\ op = "destroy" /\ left = {}
    /\ op' = "idle"
    /\ saved' = saved \cap remaining /\ failed' = undeleted
    /\ created' = [r \in Resource |->
          IF Mine(topo.owner[r]) \cap (saved' \cup failed') = {} THEN 0 ELSE created[r]]
    /\ UNCHANGED <<topo, exists, failures, left, skip, remaining, undeleted>>

\* A keyboard interrupt, or the death of the process: nothing is saved.
Interrupt ==
    /\ "interrupt" \in Fault /\ op = "destroy"
    /\ op' = "idle" /\ left' = {}
    /\ UNCHANGED <<topo, exists, disk, failures, skip, remaining, undeleted>>

DestroyStep ==
    EndDestroy \/ \E r \in Resource : Skip(r) \/ Delete(r) \/ DeleteFails(r)

ApplyStep ==
    \E c \in Counts : ApplyKilled(c) \/ \E f \in SUBSET MayFail(c) : Apply(c, f)

Next ==
    \/ ApplyStep
    \/ StartDestroy \/ DestroyStep \/ Interrupt

Spec == Init /\ [][Next]_vars

\* The user destroys again and again, the loop runs, and a provider that is
\* asked to delete the same resource again and again deletes it at last.
Fairness ==
    /\ WF_vars(StartDestroy) /\ WF_vars(DestroyStep)
    /\ \A r \in Resource : SF_vars(Delete(r))

FairSpec == Spec /\ Fairness

-----------------------------------------------------------------------------
(* Properties.                                                             *)

TypeOK ==
    /\ topo \in Topology
    /\ exists \subseteq Resource /\ saved \subseteq Resource /\ failed \subseteq Resource
    /\ created \in [Resource -> 0..2]
    /\ failures \in 0..MaxFailedApplies
    /\ op \in {"idle", "destroy"}
    /\ left \subseteq saved \cup failed /\ skip \subseteq Resource
    /\ undeleted \subseteq remaining /\ remaining \subseteq Resource
    /\ op = "idle" => left = {}

\* "Always persist state regardless of success or failure"
\* (amscrot_manager.py): whatever exists at a provider is in the file, as a
\* state or as a failure, so that a destroy can find it.
NothingForgotten == exists \subseteq saved \cup failed

\* The external dependencies of a resource with a saved state have one too, so
\* that destroy can always build EXTERNAL_DEPENDENCY_STATES.
DependenciesSaved == \A r \in saved : External(r) \subseteq saved

\* What makes DependenciesSaved inductive, in three parts: the loop of destroy
\* goes downwards, whatever stays has its dependencies in skip_resources, and a
\* saved resource in there is still to be handled or stays.
GoesDown == \A x \in (saved \cup failed) \ left, y \in left : y < x
SkipsDependencies ==
    op = "destroy" => \A r \in remaining \cap saved : External(r) \subseteq skip
SkippedStay == op = "destroy" => skip \cap saved \subseteq left \cup remaining

DestroyInv == DependenciesSaved /\ GoesDown /\ SkipsDependencies /\ SkippedStay

Deleted(r) == r \in exists /\ r \notin exists'

\* A resource is not deleted while one of another provider that depends on it
\* exists, whatever deletions failed before, in this destroy or earlier ones.
ExternalOrder ==
    [][\A r \in Resource : Deleted(r) =>
          \A x \in exists : r \notin External(x)]_vars

\* "the ordering is correct for both internal and external dependencies during
\* the create phase and the destroy phase" (docs/workflow_design.md).
DestroyOrder ==
    [][\A r \in Resource : Deleted(r) =>
          \A x \in exists : r \notin topo.deps[x]]_vars

\* Destroying again and again, once nothing is applied or interrupted any more,
\* comes to the end where nothing exists and nothing is saved, in spite of
\* failed deletions and of what was interrupted before.
EventuallyGone ==
    <>[][~ApplyStep /\ ~Interrupt]_vars => <>[](exists = {} /\ saved = {} /\ failed = {})
=============================================================================
