---------------------------- MODULE Orchestrator ----------------------------
(***************************************************************************)
(* One add-and-apply run of the workflow controller over its providers     *)
(* (amscrot/controller/controller.py, amscrot/provider/api/provider.py,    *)
(* amscrot/provider/api/dependency_reslover.py).                           *)
(*                                                                         *)
(* Resources are numbered 1..N in the order the controller processes them, *)
(* which is a topological order of their dependencies.  A dependency on a  *)
(* resource of another provider is external, one on a resource of the same *)
(* provider internal.  The provider plug-ins are the environment: an add   *)
(* or a create may raise, and a create or a wait reports instances one at  *)
(* a time through on_created.                                              *)
(***************************************************************************)
EXTENDS Integers, Sequences

CONSTANTS
    N,              \* number of resources in the workflow
    Provider,       \* provider labels
    Topology,       \* the workflows to consider, see TopologyAssumption
    RunSshTester    \* Constants.RUN_SSH_TESTER

Resource == 1..N

\* How the attribute a dependency names gets its value: the instance itself
\* or a field set by do_add ("object"), a field only its creation sets
\* ("late"), or a field that never has a value ("blank").
AttrKind == {"object", "late", "blank"}

ASSUME NAssumption == N \in Nat

ASSUME TopologyAssumption ==
    \A t \in Topology :
        /\ t.owner \in [Resource -> Provider]
        /\ t.count \in [Resource -> Nat \ {0}]
        /\ t.service \subseteq Resource
        /\ t.deps \in [Resource -> SUBSET Resource]
        /\ \A r \in Resource : \A d \in t.deps[r] : d < r
        /\ t.attr \in [Resource -> [Resource -> AttrKind]]

VARIABLES
    topo,             \* the workflow of this run, never changed
    phase,            \* which loop of Controller.add / Controller.apply runs
    work,             \* resources the running loop has not handled yet
    raised,           \* the running loop collected an exception
    step,             \* where the provider call in progress stands
    todo,             \* temp_no_longer_pending of create_resource
    todoInternal,     \* temp (the pending_internal being retried)
    event,            \* pending resources on_created has still to visit
    source,           \* the resource whose instance on_created reports
    pending,          \* Provider._pending, all providers together
    noLongerPending,  \* Provider._no_longer_pending
    pendingInternal,  \* Provider.pending_internal
    added,            \* Provider._added, all providers together
    listed,           \* instances do_add_resource put in nodes/networks/services
    got,              \* got[r][d]: values resolved for r's dependency on d
    notified,         \* len(creation_details[r]["resources"])
    createdCount,     \* creation_details[r]["created_count"]
    failedCount,      \* creation_details[r]["failed_count"]
    failed,           \* Provider._failed
    short             \* history: resources whose last call reported too little

loopVars     == <<phase, work, raised>>
callVars     == <<step, todo, todoInternal>>
eventVars    == <<event, source>>
placeVars    == <<pending, noLongerPending, pendingInternal>>
countVars    == <<createdCount, failedCount, failed>>
vars == <<topo, loopVars, callVars, eventVars, placeVars, added, listed, got,
          notified, countVars, short>>

Owner(r) == topo.owner[r]
Count(r) == topo.count[r]
External(r) == {d \in topo.deps[r] : Owner(d) # Owner(r)}
Internal(r) == {d \in topo.deps[r] : Owner(d) = Owner(r)}
Services == topo.service
Lesser(a, b) == IF a < b THEN a ELSE b

\* Mutant of Resolved: an entry counts as resolved with its first value.
ResolvedOnce(deps, values) == \A d \in deps : values[d] > 0

\* check_if_external_dependencies_are_resolved: one value per instance.
Resolved(deps, values) == \A d \in deps : values[d] = Count(d)

\* Mutant of FailedCount: the number of instances that exist.
SucceededCount(r) == notified[r]

\* len(creation_details[r]["resources"]) short of the count.
FailedCount(r) == Count(r) - notified[r]

\* Mutant of CreateAndWait: everything is created before anything is awaited.
CreateAndWaitNothing == {}

\* External targets of non-services: created and waited for before the rest.
CreateAndWait == (UNION {External(r) : r \in Resource \ Services}) \ Services
CreateLater == (Resource \ Services) \ CreateAndWait

CreatePhases == {"first", "create", "service"}
LoopPhases == {"validate", "add", "wait"} \cup CreatePhases

Init ==
    /\ topo \in Topology
    /\ phase = "validate" /\ work = Resource /\ raised = FALSE
    /\ step = "idle" /\ todo = <<>> /\ todoInternal = <<>>
    /\ event = {} /\ source = 0
    /\ pending = {}
    /\ noLongerPending = [p \in Provider |-> <<>>]
    /\ pendingInternal = [p \in Provider |-> <<>>]
    /\ added = {}
    /\ listed = [r \in Resource |-> 0]
    /\ got = [r \in Resource |-> [d \in Resource |-> 0]]
    /\ notified = [r \in Resource |-> 0]
    /\ createdCount = [r \in Resource |-> 0]
    /\ failedCount = [r \in Resource |-> 0]
    /\ failed = [r \in Resource |-> "no"]
    /\ short = {}

-----------------------------------------------------------------------------
(* The loops of Controller.add and Controller.apply.                       *)

\* r is the element the running loop handles.
IsCurrent(r) == r \in work /\ \A x \in work : r <= x

\* Mutant of EndIteration: a resource that raised is tried again at once.
EndIterationUntilOk(r, exc) ==
    /\ work' = IF exc THEN work ELSE work \ {r}
    /\ raised' = (raised \/ exc)
    /\ phase' = phase

\* The iteration for r ends; exc: the try block collected an exception.
EndIteration(r, exc) ==
    /\ work' = work \ {r}
    /\ raised' = (raised \/ exc)
    /\ phase' = phase

Enter(p) ==
    /\ phase' = p
    /\ work' = CASE p = "first"   -> CreateAndWait
                 [] p = "create"  -> CreateLater
                 [] p = "wait"    -> CreateLater
                 [] p = "service" -> Services
                 [] p = "add"     -> Resource
                 [] OTHER         -> {}
    /\ raised' = FALSE

\* A loop has run out of resources: raise what it collected, or go on.
EndLoop ==
    /\ phase \in LoopPhases /\ work = {}
    /\ \/ raised /\ phase' = "raised" /\ UNCHANGED <<work, raised>>
       \/ /\ ~raised
          /\ Enter(CASE phase = "validate" -> "add"
                     [] phase = "add"      -> "first"
                     [] phase = "first"    -> "create"
                     [] phase = "create"   -> "wait"
                     [] phase = "wait"     -> IF RunSshTester THEN "ssh" ELSE "done"
                     [] OTHER              -> "done")
    /\ UNCHANGED <<topo, callVars, eventVars, placeVars, added, listed, got,
                   notified, countVars, short>>

\* The SSH test of every node: it passes, or apply raises.
SshTest ==
    /\ phase = "ssh"
    /\ \/ Enter("service")
       \/ phase' = "raised" /\ UNCHANGED <<work, raised>>
    /\ UNCHANGED <<topo, callVars, eventVars, placeVars, added, listed, got,
                   notified, countVars, short>>

ValidateResource(r) ==
    /\ phase = "validate" /\ IsCurrent(r)
    /\ \/ EndIteration(r, FALSE) /\ failed' = failed
       \/ EndIteration(r, TRUE) /\ failed' = [failed EXCEPT ![r] = "VALIDATE"]
    /\ UNCHANGED <<topo, callVars, eventVars, placeVars, added, listed, got,
                   notified, createdCount, failedCount, short>>

-----------------------------------------------------------------------------
(* Provider.add_resource                                                   *)

\* Mutant of MissesExternal: what another provider has added is good enough.
MissesUnadded(r) == \E d \in External(r) : got[r][d] = 0 /\ d \notin added

\* Fewer external entries resolved than there are external dependencies.
MissesExternal(r) == \E d \in External(r) : got[r][d] = 0
MissesInternal(r) == \E d \in Internal(r) : got[r][d] = 0

\* Mutant of Available: the first listed instance is left out.
AvailableOthers(r, d) == listed[d] - 1

\* Values the instances of d its provider lists now give to r.
Available(r, d) ==
    CASE topo.attr[r][d] = "object" -> listed[d]
      [] topo.attr[r][d] = "late"   -> Lesser(listed[d], notified[d])
      [] OTHER                      -> 0

\* resolve_dependency(external=False) over every listed resource.
ResolvedInternally(r) ==
    [d \in Resource |->
        IF d \in Internal(r) THEN Lesser(got[r][d] + Available(r, d), Count(d))
                        ELSE got[r][d]]

\* The add leaves r in pending_internal.
Parks(r) ==
    /\ ~MissesExternal(r) /\ MissesInternal(r)
    /\ ~Resolved(Internal(r), ResolvedInternally(r))

\* Mutant of Parked: the early return without the append.
ParkedNowhere(r, seq) == seq

Parked(r, seq) == IF Parks(r) THEN Append(seq, r) ELSE seq

CallsDoAdd(r) == ~MissesExternal(r) /\ ~Parks(r)

\* Everything add_resource does but its append to pending_internal, which
\* is Parked; ok is FALSE when it raises.  A do_add_resource that raises may
\* have listed some of the instances already.
AddResource(r, ok) ==
    /\ pending' = IF MissesExternal(r) THEN pending \cup {r} ELSE pending
    /\ got' = IF ~MissesExternal(r) /\ MissesInternal(r)
              THEN [got EXCEPT ![r] = ResolvedInternally(r)]
              ELSE got
    /\ \/ ~CallsDoAdd(r) /\ ok /\ UNCHANGED <<added, listed, failed, failedCount>>
       \/ /\ CallsDoAdd(r) /\ ok
          /\ added' = added \cup {r}
          /\ listed' = [listed EXCEPT ![r] = @ + Count(r)]
          /\ UNCHANGED <<failed, failedCount>>
       \/ /\ CallsDoAdd(r) /\ ~ok
          /\ \E k \in 0..(Count(r) - 1) : listed' = [listed EXCEPT ![r] = @ + k]
          /\ failed' = [failed EXCEPT ![r] = "ADD"]
          /\ failedCount' = [failedCount EXCEPT ![r] = FailedCount(r)]
          /\ added' = added

\* One iteration of the second loop of Controller.add.
AddPhase(r) ==
    /\ phase = "add" /\ IsCurrent(r)
    /\ \E ok \in BOOLEAN : AddResource(r, ok) /\ EndIteration(r, ~ok)
    /\ pendingInternal' = [pendingInternal EXCEPT ![Owner(r)] = Parked(r, @)]
    /\ UNCHANGED <<topo, callVars, eventVars, noLongerPending, notified, createdCount, short>>

-----------------------------------------------------------------------------
(* Provider.create_resource and Provider.wait_for_create_resource          *)

\* Mutant of BeginCreate: the list is read but not reset.
BeginCreateKeepsList(r) ==
    /\ phase \in CreatePhases /\ step = "idle" /\ IsCurrent(r)
    /\ step' = "drain"
    /\ todo' = noLongerPending[Owner(r)]
    /\ UNCHANGED <<topo, loopVars, todoInternal, eventVars, placeVars, added,
                   listed, got, notified, countVars, short>>

\* create_resource is entered: what is no longer pending is taken over.
BeginCreate(r) ==
    /\ phase \in CreatePhases /\ step = "idle" /\ IsCurrent(r)
    /\ step' = "drain"
    /\ todo' = noLongerPending[Owner(r)]
    /\ noLongerPending' = [noLongerPending EXCEPT ![Owner(r)] = <<>>]
    /\ UNCHANGED <<topo, loopVars, todoInternal, eventVars, pending,
                   pendingInternal, added, listed, got, notified, countVars, short>>

\* The next taken-over resource is added; then pending_internal is retried.
DrainAdds(r) ==
    /\ step = "drain" /\ IsCurrent(r) /\ todo # <<>>
    /\ AddResource(Head(todo), TRUE)
    /\ todo' = Tail(todo)
    /\ todoInternal' = Parked(Head(todo), pendingInternal[Owner(r)])
    /\ pendingInternal' = [pendingInternal EXCEPT ![Owner(r)] = <<>>]
    /\ step' = "retry"
    /\ UNCHANGED <<topo, loopVars, eventVars, noLongerPending, notified, createdCount, short>>

\* Its add raises: it goes back to no_longer_pending, and create_resource
\* itself raises only for the resource it was called for.
DrainFails(r) ==
    /\ step = "drain" /\ IsCurrent(r) /\ todo # <<>>
    /\ AddResource(Head(todo), FALSE)
    /\ noLongerPending' = [noLongerPending EXCEPT ![Owner(r)] = Append(@, Head(todo))]
    /\ \/ Head(todo) = r /\ todo' = <<>> /\ step' = "idle" /\ EndIteration(r, TRUE)
       \/ Head(todo) # r /\ todo' = Tail(todo) /\ step' = step /\ UNCHANGED loopVars
    /\ UNCHANGED <<topo, todoInternal, eventVars, pendingInternal, notified, createdCount, short>>

\* One resource of pending_internal is tried again; an exception is dropped.
RetryInternal(r) ==
    /\ step = "retry" /\ IsCurrent(r) /\ todoInternal # <<>>
    /\ \E ok \in BOOLEAN : AddResource(Head(todoInternal), ok)
    /\ pendingInternal' =
          [pendingInternal EXCEPT ![Owner(r)] = Parked(Head(todoInternal), @)]
    /\ todoInternal' = Tail(todoInternal)
    /\ UNCHANGED <<topo, loopVars, step, todo, eventVars, noLongerPending,
                   notified, createdCount, short>>

EndRetry ==
    /\ step = "retry" /\ todoInternal = <<>>
    /\ step' = "drain"
    /\ UNCHANGED <<topo, loopVars, todo, todoInternal, eventVars, placeVars,
                   added, listed, got, notified, countVars, short>>

EndDrain ==
    /\ step = "drain" /\ todo = <<>>
    /\ step' = "create"
    /\ UNCHANGED <<topo, loopVars, todo, todoInternal, eventVars, placeVars,
                   added, listed, got, notified, countVars, short>>

BeginWait(r) ==
    /\ phase = "wait" /\ step = "idle" /\ IsCurrent(r)
    /\ step' = "wait"
    /\ UNCHANGED <<topo, loopVars, todo, todoInternal, eventVars, placeVars,
                   added, listed, got, notified, countVars, short>>

\* What follows the call in the loop body: in the first loop the wait comes
\* straight after the create, elsewhere the iteration ends.
AfterCall(r) ==
    \/ /\ step = "create" /\ phase = "first"
       /\ step' = "wait" /\ UNCHANGED loopVars
    \/ /\ ~(step = "create" /\ phase = "first")
       /\ step' = "idle" /\ EndIteration(r, FALSE)

\* A resource that is not in _added is passed over without a word.
PassOver(r) ==
    /\ step \in {"create", "wait"} /\ IsCurrent(r) /\ r \notin added
    /\ AfterCall(r)
    /\ UNCHANGED <<topo, todo, todoInternal, eventVars, placeVars, added,
                   listed, got, notified, countVars, short>>

\* r, when its last call leaves it with fewer instances than it counts.
Short(r) ==
    IF (step = "wait" \/ phase = "service") /\ notified[r] < Count(r) THEN {r} ELSE {}

\* do_create / do_wait return, whatever they have reported: cloudlab reports
\* its first network for every label, chameleon returns once it deleted a
\* network the workflow gave up, janus reports nothing for a service that is
\* not in the configuration file.
CallReturns(r) ==
    /\ step \in {"create", "wait"} /\ IsCurrent(r) /\ r \in added /\ event = {}
    /\ createdCount' = [createdCount EXCEPT ![r] = notified[r]]
    /\ short' = short \cup Short(r)
    /\ AfterCall(r)
    /\ UNCHANGED <<topo, todo, todoInternal, eventVars, placeVars, added,
                   listed, got, notified, failedCount, failed>>

\* do_create / do_wait raise.
CallFails(r) ==
    /\ step \in {"create", "wait"} /\ IsCurrent(r) /\ r \in added /\ event = {}
    /\ failed' = [failed EXCEPT ![r] = "CREATE"]
    /\ failedCount' = [failedCount EXCEPT ![r] = FailedCount(r)]
    /\ createdCount' = [createdCount EXCEPT ![r] = notified[r]]
    /\ step' = "idle" /\ EndIteration(r, TRUE)
    /\ UNCHANGED <<topo, todo, todoInternal, eventVars, placeVars, added,
                   listed, got, notified, short>>

-----------------------------------------------------------------------------
(* ControllerResourceListener.on_created and Provider.on_created           *)

\* The plug-in handling r reports an instance of d: the owner counts it,
\* then the pending resources of the other providers are visited.  A
\* plug-in may report resources other than the one it was asked for, and
\* report a fully created one again (a fabric slice and the dummy plug-in
\* notify everything they hold); the bound is one repeat per instance.
OnCreated(r, d) ==
    /\ step \in {"create", "wait"} /\ IsCurrent(r) /\ r \in added /\ event = {}
    /\ d \in added /\ Owner(d) = Owner(r)
    /\ notified[d] < 2 * Count(d)
    /\ notified' = [notified EXCEPT ![d] = @ + 1]
    /\ event' = {x \in pending : d \in External(x)}
    /\ source' = d
    /\ UNCHANGED <<topo, loopVars, callVars, placeVars, added, listed, got, countVars, short>>

\* got[x] after resolve_dependency looked at an instance of d.
ResolvedBy(x, d) ==
    [got[x] EXCEPT ![d] = IF topo.attr[x][d] = "blank" THEN @
                          ELSE Lesser(@ + 1, Count(d))]

\* on_created reaches the pending resource x of another provider (each
\* provider's in the order they were put there).
ResolvePending(x) ==
    /\ x \in event /\ \A y \in event : x <= y
    /\ event' = event \ {x}
    /\ got' = [got EXCEPT ![x] = ResolvedBy(x, source)]
    /\ \/ /\ Resolved(External(x), ResolvedBy(x, source))
          /\ pending' = pending \ {x}
          /\ noLongerPending' = [noLongerPending EXCEPT ![Owner(x)] = Append(@, x)]
       \/ /\ ~Resolved(External(x), ResolvedBy(x, source))
          /\ UNCHANGED <<pending, noLongerPending>>
    /\ UNCHANGED <<topo, loopVars, callVars, source, pendingInternal, added,
                   listed, notified, countVars, short>>

-----------------------------------------------------------------------------
ResourceStep(r) ==
    \/ ValidateResource(r) \/ AddPhase(r)
    \/ BeginCreate(r) \/ DrainAdds(r) \/ DrainFails(r) \/ RetryInternal(r)
    \/ BeginWait(r) \/ PassOver(r) \/ CallReturns(r) \/ CallFails(r)
    \/ ResolvePending(r)
    \/ \E d \in Resource : OnCreated(r, d)

Finished == phase \in {"done", "raised"}

Next ==
    \/ EndLoop \/ SshTest \/ EndRetry \/ EndDrain
    \/ \E r \in Resource : ResourceStep(r)

Spec == Init /\ [][Next]_vars

\* Each call of the controller returns: the plug-ins bound their waits.
FairSpec == Spec /\ WF_vars(Next)
-----------------------------------------------------------------------------
(* Properties.                                                             *)

\* Every variable keeps the shape Init gave it.
TypeOK ==
    /\ topo \in Topology
    /\ phase \in LoopPhases \cup {"ssh", "done", "raised"}
    /\ work \subseteq Resource /\ raised \in BOOLEAN
    /\ step \in {"idle", "drain", "retry", "create", "wait"}
    /\ todo \in Seq(Resource) /\ todoInternal \in Seq(Resource)
    /\ event \subseteq Resource /\ source \in Resource \cup {0}
    /\ event # {} => source \in Resource
    /\ pending \subseteq Resource
    /\ noLongerPending \in [Provider -> Seq(Resource)]
    /\ pendingInternal \in [Provider -> Seq(Resource)]
    /\ added \subseteq Resource
    /\ listed \in [Resource -> Nat]
    /\ got \in [Resource -> [Resource -> Nat]]
    /\ notified \in [Resource -> Nat]
    /\ createdCount \in [Resource -> Nat]
    /\ failedCount \in [Resource -> Int]
    /\ failed \in [Resource -> {"no", "VALIDATE", "ADD", "CREATE"}]
    /\ short \subseteq Resource

FullyCreated(r) == notified[r] >= Count(r)

\* A provider takes a resource in (do_add_resource, and so do_create_resource)
\* only when every instance of each of its external dependencies has been
\* reported created: docs/workflow_design.md promises to add a resource after
\* creating what it depends on in another provider.
AddedAfterDependencies ==
    \A r \in added : \A d \in External(r) : FullyCreated(d)

\* The inductive strengthening of AddedAfterDependencies.
Settled == {r \in Resource : Resolved(External(r), got[r])}

\* A dependency has at most one value per instance reported, and one less
\* while on_created has still to hand over the latest.
ValuesHaveInstances ==
    \A r \in Resource : \A d \in External(r) :
        /\ got[r][d] <= notified[d]
        /\ r \in event /\ d = source => got[r][d] < notified[d]

\* Whatever left pending, or never had to wait there, has all its values.
ListsSettled ==
    /\ todo \in Seq(Settled) /\ todoInternal \in Seq(Settled)
    /\ noLongerPending \in [Provider -> Seq(Settled)]
    /\ pendingInternal \in [Provider -> Seq(Settled)]
    /\ added \subseteq Settled

\* Nothing is created, so nothing resolved, before the add loop is over.
QuietWhileAdding ==
    phase \in {"validate", "add"} =>
        /\ step = "idle" /\ event = {}
        /\ \A r \in Resource : \A d \in External(r) : got[r][d] = 0

DependencyInv == ValuesHaveInstances /\ ListsSettled /\ QuietWhileAdding

\* The places a resource can wait in, read as one sequence of sequences.
Waiting(r) ==
    [p \in {"todo", "todoInternal", "noLongerPending", "pendingInternal"} |->
        LET seq == CASE p = "todo" -> todo
                     [] p = "todoInternal" -> todoInternal
                     [] p = "noLongerPending" -> noLongerPending[Owner(r)]
                     [] OTHER -> pendingInternal[Owner(r)]
        IN  {<<p, i>> : i \in {j \in DOMAIN seq : seq[j] = r}}]

Places(r) ==
    (UNION {Waiting(r)[p] : p \in DOMAIN Waiting(r)})
        \cup {<<"pending", 0>> : x \in pending \cap {r}}
        \cup {<<"added", 0>> : x \in added \cap {r}}

\* No resource is ever in two of the provider's lists, or twice in one: the
\* assertions of add_resource ("already in", "Did not expect ... to be in
\* pending list", "internal pending resource ... already added").
OnePlace == \A r \in Resource : \A a, b \in Places(r) : a = b

\* As long as the running loop has collected no exception, a resource that
\* went through the add loop is in one of the lists or recorded as failed:
\* the draining of no_longer_pending and pending_internal loses nothing.
NothingLost ==
    phase \in {"first", "create", "wait", "ssh", "service", "done"} /\ ~raised =>
        \A r \in Resource : Places(r) # {} \/ failed[r] # "no"

\* A resource is in exactly one of the lists until it is created or failed.
ListsIntact == OnePlace /\ NothingLost

\* What AmSCROTManager.apply takes for success: no exception, and counters
\* that show nothing pending and nothing failed.
Succeeds ==
    /\ phase = "done"
    /\ pending = {} /\ \A p \in Provider : pendingInternal[p] = <<>>
    /\ \A r \in Resource : failedCount[r] = 0

\* Resources with all they depend on, none of which a call left short.
Undiminished(S) == \A r \in S : topo.deps[r] \subseteq S /\ r \notin short

\* Jobs are created "only after resources are successfully created"
\* (amscrot_manager.py): when an apply counts as a success, a resource lacks
\* an instance only if the last call for it, or for something it depends on,
\* directly or not, reported too little and returned without an error.  The
\* loops, lists and callbacks themselves pass nothing over.
SuccessMeansCreated ==
    Succeeds => \A S \in SUBSET Resource :
        Undiminished(S) => \A r \in S : FullyCreated(r)

\* An add that was refused while lists were drained is never forgotten: the
\* apply ends with an exception or with a failed count for the resource.
FailuresSurface ==
    phase = "done" => \A r \in Resource : failed[r] # "no" => failedCount[r] > 0

\* Every apply comes to an end, with a result or with an exception.
Termination == <>Finished

\* The controller as the abstract provisioning service.
P == INSTANCE Provisioning WITH
        needs <- [r \in Resource |-> External(r)],
        admitted <- added,
        created <- {r \in Resource : FullyCreated(r)}

\* The controller does what Provisioning promises.
ImplementsProvisioning == P!Spec
=============================================================================
