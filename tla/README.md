# TLA+ models of the IRI facility API toolkit (amscrot)

amscrot provisions resources (nodes, networks, services) over several testbed
providers from one workflow description, submits jobs to facilities through
service clients, and keeps both in named sessions below `~/.amscrot/sessions`.
This directory holds TLA+ models of that code, the TLC configurations that check
them on small instances, and TLAPS proofs of what matters most for instances of
any size. Paths below are relative to `src/` of the repository.

## 1. Inventory

| part | code | state it keeps | operations |
|---|---|---|---|
| Workflow controller | `amscrot/controller/controller.py` | the ordered resources of the workflow, the provider factory | plan, add, apply, destroy |
| Provider base class | `amscrot/provider/api/provider.py` | `_pending`, `_no_longer_pending`, `pending_internal`, `_added`, `_failed`, `creation_details`, lists of instances | validate, add, create, wait_for_create, delete, on_created |
| Dependency resolver | `amscrot/provider/api/dependency_reslover.py` | the resolved entries of a resource | resolve_dependency, check, extract_values |
| State files | `amscrot/util/state.py`, `amscrot/model/state.py` | one YAML file of provider states and one of jobs per session | save, load, reconcile, destroy_session, save_jobs, delete_jobs |
| Manager | `amscrot/amscrot_manager.py` | the provider states of the running command | plan, apply, show, destroy |
| Client and sessions | `amscrot/client/{client,models,job}.py` | nodes, networks, services and jobs of a session | create_session, add_*, wait, plan/apply/show/destroy |
| Service clients | `amscrot/serviceclient/*` (IRI, IRO, Kubernetes, RIG, dummy) | a connection; identifiers live in the jobs | plan, create, create_intent, status, destroy, discover |
| Facility client | `amscrot/facility/*` | the current service client, its token, an implicit session, cached discovery | resources, submit, wait, cancel, incidents, events |
| Caches | `amscrot/controller/metadata_manager.py`, `amscrot/serviceclient/amsc_iri/version_prober.py` | files below `~/.amscrot/metadata` | load, save, invalidate, probe |
| Remote files | `amscrot/serviceclient/filesystem.py`, `amsc_iri/filesystem.py` | none | a task is started and polled |
| Plug-ins | `amscrot/provider/{fabric,chi,cloudlab,aws,gcp,sense,janus,kube,dummy}` | slices, leases, connections | do_add, do_create, do_wait, do_delete |
| Policy | `amscrot/policy/*` | none | stitch ports and profiles for networks that cross providers |
| Configuration | `amscrot/util/{parser,variable_evaluator,config,config_models}.py` | none | parse, evaluate variables, find dependencies |
| Airflow, CLI, node tester | `airflow/`, `tools/`, `amscrot/util/node_tester.py` | none | callers of the above |

How they interact. The manager builds a controller for a session, which builds
providers through the provider factory. The controller calls the providers one
after the other; a plug-in that has created an instance calls back
`ControllerResourceListener.on_created`, and this tells *every* provider, which
may move resources from pending to no longer pending while the call that caused
it is still running. The manager then saves the provider states, reconciled with
those in the file, and creates the jobs through the service clients bound to
them. A session is restored from its files in the next process.

What is hard here: the callbacks that change lists another call is going to
drain; loops that collect exceptions and go on, or do not; counters that stand
in for sets; what of the memory reaches the disk, and when, if a call raises, is
interrupted or the process dies; calls repeated by the user; answers of a
facility that are lost, late, or refer to something it has forgotten; polling
against a deadline.

What makes each part correct:

- controller and providers: a resource is added after every instance of what it
  needs in other providers exists; nothing is lost between the lists; a failure
  is visible in the end; a success is one.
- state files: whatever exists can still be found and destroyed, in an order
  the dependencies allow, and repeated destroys come to an end.
- sessions: the identifier of what runs is durable once apply succeeds; destroy
  cancels what it knows; wait returns only true final states, and returns.
- service and facility clients: a retry repeats the intended call, on the
  object that was refreshed; what plan lets through create does not refuse; what
  a facility launched stays known; caches expire and never give out half of
  something.
- plug-ins: after runs that failed, timed out or died, a later apply that
  succeeds leaves exactly what is configured, and a destroy that succeeds leaves
  nothing behind.
- policy, partition and parser: pure computations, whose results must agree with
  each other (both ends of a stitch, disjoint address ranges, an order that
  respects the dependencies).

## 2. Modules

| module | models | checked by |
|---|---|---|
| `Provisioning` | what an apply promises, whatever the providers do | refined by `Orchestrator` |
| `Orchestrator` | one add and apply of the controller over its providers | `orch_*`, proofs |
| `Teardown` | provider states over applies and destroys; `Controller.destroy` | `teardown_*`, proofs |
| `JobSession` | jobs of one session: plan, apply, show, destroy, wait, restart | `session_*`, proofs |
| `Facility` | facility client: tokens, retries, submissions, `Job.wait` | `iri`, `facility_refresh`, proofs |
| `Discovery`, `Versions` | the two caches shared by processes | `iri`, proofs in `Facility_proofs` |
| `Submission` | construction of an IRI client; plan and create | `services`, proofs |
| `Capabilities` | normalization of a discovery | `services`, proofs |
| `KubeService`, `Gateway`, `IroService` | the other service clients | `services`, proofs |
| `FileTask`, `Outputs` | remote file tasks; fetching the output of a job | `services`, proofs |
| `Ordering` | which resources are left, and in which order | `plugins`, proofs |
| `Partition` | layer 3 ranges of the networks that share a configuration | `plugins`, proofs |
| `Stitch` | the stitch ports and sites of two networks | `plugins`, proofs |
| `Reconfigure` | edited configurations: plan, apply and destroy of one provider | `plugins`, `plan_promise`, proofs |
| `FabricSlice`, `AwsNet`, `GcpNet`, `SenseNet`, `CloudLab`, `Chameleon` | the plug-ins, request by request | `plugins`, proofs |
| `SavedEntry` | what the saved states tell destroy of one resource; extended by four of the plug-ins | with them |
| `Planning`, `MCIri`, `MCServices`, `MCPlugins` | compositions | the runs named after them |
| `MCOrchestrator`, `MCTeardown`, `MCJobSession` | sets of workflows TLC enumerates | `orch_*`, `teardown_*`, `session_*` |
| `Orchestrator_proofs`, `OrchestratorLists_proofs`, `OrchestratorSuccess_proofs` | proofs about `Orchestrator`, in three parts | TLAPS |
| `JobSession_proofs` | proofs about `JobSession` | TLAPS |
| `Controller_proofs` | proofs about `Ordering`, `Partition`, `Stitch` and `Teardown` | TLAPS |
| `Facility_proofs` | proofs about `Facility`, `Versions` and `Discovery` | TLAPS |
| `Services_proofs` | proofs about `IroService`, `FileTask`, `KubeService`, `Submission`, `Gateway`, `Capabilities` and `Outputs` | TLAPS |
| `Plugins_proofs` | proofs about the six plug-ins and `Reconfigure` | TLAPS |

How they compose. The core modules compose through what one command leaves to the
next: `Ordering` establishes the order `Orchestrator` takes for granted,
`Teardown` treats an apply as one step and takes from `Orchestrator` that a
resource with a created instance has all its external dependencies created
(proved there), and `JobSession` sees the resources as one Boolean, whether
provider states are saved. The clients of section "services", the two caches and
the plug-ins share no state in the code: a plug-in talks to its testbed, a client
to its facility. Their compositions are sums: a variable `part` (`plugin` in
`MCPlugins`) says which of them a behaviour is about, the others rest in one
fixed initial state. One run explores each of them completely, without the
product of their states, which would show nothing more.

### Orchestrator

Resources are numbers in the order of `order_resources`; a topology gives each
its provider, its count, whether it is a service, its dependencies and how the
attribute a dependency names gets its value: with the instance or its add
(`object`), with its creation (`late`), never (`blank`). A value itself is never
carried: `got[r][d]` counts the values of the resolved entry.

| variable | code |
|---|---|
| `phase`, `work`, `raised` | the loop of `Controller.add` / `apply` that runs, what it has left, its `exceptions` |
| `step`, `todo`, `todoInternal` | the position inside `create_resource` and its two local lists |
| `pending`, `noLongerPending`, `pendingInternal`, `added` | the lists of `Provider` |
| `event`, `source` | the pending resources `on_created` has still to visit |
| `listed`, `notified`, `createdCount`, `failedCount`, `failed` | instances added, and `creation_details` |
| `short` | ghost: resources whose last call returned without having reported all instances |

Actions: `ValidateResource`, `AddPhase` (the loops of add); `BeginCreate`,
`DrainAdds`, `DrainFails`, `RetryInternal`, `EndRetry`, `EndDrain`, `BeginWait`,
`PassOver`, `CallReturns`, `CallFails` (`create_resource` and
`wait_for_create_resource`); `OnCreated`, `ResolvePending` (the callback, one
pending resource at a time); `SshTest`; `EndLoop`. The plug-ins are the
environment: a call may raise, a failing add may have listed some instances, and
a call may report instances of any added resource of the provider, up to twice
each (`notified[d] < 2 * Count(d)` is the one bound of the module), and may return
without an error having reported too few: CloudLab reports its first network for
every label (`cloudlab_provider.py:287`), FABRIC reports what its slice listed
(`fabric_slice.py:543`), Chameleon returns once it has deleted a network that was
given up (`chi_provider.py:266`), Janus reports nothing for a service that is not in
its configuration file (`janus_provider.py:173`). Nothing in the controller notices,
so `SuccessMeansCreated` is about what no such call has left short: a resource that
lacks an instance was left short itself, or something it depends on was.

### Teardown

One instance per resource, numbered in topological order. `exists` is what the
providers hold; `saved`, `created`, `failed` are the states, the created counts
and the failed maps in the file; `op`, `left`, `skip`, `remaining`, `undeleted`
are the local variables of `Controller.destroy` and the failed map of the
process. `Apply` chooses any counts an apply may end with and reconciles them
with the file (`Reconciled` is `reconcile_states`, line by line); `ApplyKilled`
dies before saving; destroy is `StartDestroy`, `Skip`, `Delete`, `DeleteFails`,
`EndDestroy`, or `Interrupt` at any point. `MaxFailedApplies` bounds the
applies that do not create everything. `Fault`: `duplicate` (an instance is
reported twice), `interrupt`, `die`.

### JobSession

`remote` is the sequence of submissions the facility accepted, each for one job or
for the group of jobs of an intent; an identifier is a rank in it, 0 stands for
`None`. `attached`, `intended` and `id` are the memory of the process, `saved`,
`resources` and `known` (the session has a directory) the disk. `op`, `left`,
`toPoll`, `settled`, `results`, `timed` are the call in progress and the local
variables of `Session.wait`. A call is a sequence of actions, one per job, with the
facility (`Finish`, `Purge`) and, with the fault `crash`, the death of the process
between any two. The order in which a dictionary is walked is left open. The
constant `Fault` says what the environment may do: `refuse` (a provider raises),
`lose` (a submission is accepted and its answer lost), `crash`, `overwrite` (a job
of the same name is added), `purge` (the facility forgets what has ended),
`detached` (a manager without jobs, as the command line tool makes one from a
configuration directory, shows the session: `ShowDetached`), `bypass` (such a
manager destroys it: `DestroyDetached`, which cancels nothing and removes the file).
The IRO client cancels an instance only if it was FAILED or READY when it looked,
and else returns without an error: `CancelJob` then notes the intent job in
`passed`. It also takes some states of an orchestration for settled ones, so that
`Poll` may report any final state of an intent job that has an id. The one bound is
`MaxSubmissions`; an apply starts only if it leaves room for all its jobs.
`Job.status`, which is only displayed, is left out.

### IRI: Facility, Discovery, Versions

`Facility` has the newest token the facility accepts (`server`), the token the
client was built with, those kept by file system objects (`fs`), the wrappers
`job` and the jobs launched by each of their submissions (`remote`). One
`_call_api` is one step that carries a sequence of one or two attempts
(`Calls`): each is carried out or not, answered or not, and the retry runs the
operation of the *old* client (`Resolved`), as the code looks the operation up by
the identity of a bound method. Actions: `Submit`, `Adopt`, `Wait`, `Poll`,
`Cancel`, `FsOp`, `AskAnew` (a `Resource` is asked for again, whose file system is
a new one); the facility `Rotate`s its token, `Schedule`s, and forgets
(`LeaveQueue`). `refused` counts the refusals of the service client's own token,
also when it is a file operation that carries it; `spurned` has the resources whose
file system, which keeps the client it was made with (`facility/models.py:66`), was
refused: it goes on being refused, however often it is used. Bounds:
`MaxRotations`, `MaxFaults`, `MaxPolls`, `RefusedCap`.

`Discovery` splits `save_discovery` into its system calls (`OpenTemp`, `Dump`,
`Replace`) with inodes, since every process uses the same temporary name;
`GetDiscovery` is the look-up in memory, in the file, and at the facility, which
an error may cut short; `Invalidate`, `StartAnew`, `Tick`. `Versions` has one
`Detect` (memory, file, probe, fallback), `SaveCache`, `ClearCache`, `Exit`, and
`Upgrade`s of the endpoint. Ages stop one above the limit, which is all the code
compares.

### Service clients

| module | state | actions |
|---|---|---|
| `Submission` | argument, section and endpoint a client is built from; the specification; `outcome` | `Build` (the factory that probes and the loading of credentials), `Plan`, `Create` |
| `Capabilities` | listed capabilities, a resource, an allocation, the normalized object | `Normalize` |
| `KubeService` | the jobs of a cluster by namespace and name, `submitted`, the one status of the client | `KubeCreate`, `KubeDestroy`, each answered or not, `KubeStatus`; pods succeed and fail, others create jobs, a time to live ends |
| `Gateway` | the advertised `/ready` document, its cache entry, the document in memory, the entries of the credentials file, `_service_clients` | `Refresh`, `Start` (credentials, children of the gateway, children of the IRO), `ClearReady`, `Aging`, `Advertise` |
| `IroService` | which jobs have a name, the orchestration status of each instance, the id jobs carry, where `create_intent` is | `BeginIntent`, `InstanceNew`, `InstanceCreate`, `InstanceOperate`, `InstanceDelete` (the clean-up), `IroPlan`, `IroDestroy`, `IroStatus`, `Provision`; each call is carried out or not and answered or not |
| `FileTask` | the tasks of a facility, the remote and the local file, the polled task | `SubmitTask`, answered or not, `StartTask`, `EndTask`, `Returned`, `GiveUp` |
| `Outputs` | storages with their health, remote and local streams | `FetchOutputFiles`, whose listing is answered or raises, `Write`, `ChangeHealth` |

`create_intent` is called by every apply, also for jobs that carry an instance
already, whose id it overwrites; the ghost `superseded` has what they carried before,
and an instance no job of the intent has a name for is carried by none
(`amsc_iro_service_client.py:355`). A child of a gateway whose client cannot be built
is skipped (`unbuilt`), and a name ending in `-rig` that the credentials file has
already (`taken`) keeps its client; such a name is modelled by its base, and that
two facilities may have the same slug is not. A file task whose submission raised
may have been accepted all the same, and is then `abandoned` from the start. A
Kubernetes job whose `create` was not answered is not `submitted`, and the name
`status` and `destroy` look up may be another user's.

### Planning: Ordering, Partition, Stitch, Reconfigure

What the controller works out before it calls a provider. `Ordering` takes the
references of a configuration to `dependencyMap` (`Evaluate`) and takes one
resource after another (`Take`) until none is left or none can be taken.
`Partition` computes on the last numbers of the addresses (`Populate`, `Give`).
`Stitch` transcribes the offers of the policy as sequences, since their order
decides (`StitchInfos`, `Pairs`, `Best`); `StitchNetworks` chooses and writes into
both networks, `FixNetworkSite` and `FixNodeSite` follow in either order.
`Reconfigure` is one provider whose configuration is edited between runs, applied
by the manager or by the command line tool, which save differently; `kind` tells
providers that make everything anew (`whole`: CloudLab, SENSE) from those that
delete a surplus (`parts`: Chameleon).

### Plug-ins

Each module has the testbed's objects as far as the plug-in can see them, and a step
variable for the request the run is at. Every run may fail (`CreateFails`,
`FailBefore`, `DeleteRefused`, `AwsFail`, `GcpFail`, `SenseFail`, `LabFail`,
`ChiFail`) or die (`Crash`, `AwsDie`, `GcpDie`, `SenseDie`, `LabDie`, `ChiFail`) at
any request and be repeated, and the testbed moves between any two requests
(`Settle`, `Amazon`, `EndOperation`, `Peer`, `Orchestrate`, `Testbed`, `ChiSettle`,
`OthersBind`).

Destroy calls a plug-in only for a resource that has a saved state or a failed label
(`controller.py:480`). `SavedEntry` has what becomes of these: an apply that succeeds
saves the state, one that fails a failed label and the former state if
`reconcile_states` keeps it, one that fails before it comes to the resource only the
latter, a failed deletion adds a label, and a process that dies writes nothing. A
resource a run may have made and nothing saved leads to is `Adrift`. A destroy begins
with a look at the entry (`BeginUnlab`, `AwsForgotten`, `GcpForgotten`,
`SenseForgotten`); of one that is not known it reports success and leaves it.
`FabricSlice` has the same for its nodes and networks one by one (`failedLabels`,
`Known`, with the ghost `unled`), and `Chameleon` leaves it open after a run that
failed (`ChiDelete`, `ChiPassed`).

| module | objects | what is special |
|---|---|---|
| `FabricSlice` | one slice with nodes and networks, a draft, an address pool, the saved states | everything of a provider is submitted at once; nodes found again bring their addresses |
| `AwsNet` | connection, gateways, route tables, virtual interfaces | found by name in any state; only the table is found by a saved id, and the subnet leaves it in a request of its own (`Disassociate`); a VPC that is not available ends a deletion silently |
| `GcpNet` | router, attachment, pairing key, one operation under way | an operation may end after the polling did |
| `SenseNet` | service instances under one alias | a creation whose answer is lost is tried again; CANCEL-READY shows early, which the deletion sleeps over |
| `CloudLab` | one experiment | cannot be changed, only terminated and started anew |
| `Chameleon` | leases, subnet, router, servers, floating IPs | others of the project bind floating IPs; one is made when none is free |

Properties whose condition names a ghost (`stale`, `parted`, `unseen`, `lost`,
`hasty`, `strayed`, `died`, `missed`, `unled`, `short`, `passed`, `unanswered`,
`superseded`, `abandoned`, `spurned`, `unbuilt`) or an entry `Adrift` except precisely
the runs in which the code looks away; each is set where the code does so, and the
violation it would otherwise allow is in the list of section 4.

## 3. Runs

| run | checks | shows |
|---|---|---|
| `orch_plain` | TypeOK, SuccessMeansCreated, Termination, ImplementsProvisioning | the documented workflows, three resources, two providers (488,658 states): an apply ends, refines `Provisioning`, and a success is one but for what a call left short |
| `orch_values` | AddedAfterDependencies, ListsIntact, FailuresSurface | every kind of attribute, services anywhere, or two instances of a resource others depend on (1.81 million states): the lists lose and repeat nothing, all instances are waited for, no refused add goes unnoticed |
| `session_faults` | WaitReturnsSettled, AppliedIsDurable, DestroyCancelsKnown, SavedUntilDestroyed | a standalone and an intent job, all faults together (4.43 million states) |
| `session_wait` | WaitEnds, OnlySupersededSurvive | wait without a timeout ends; when no create fails, what outlives a destroy was superseded by a later submission of the same job (86,540 states) |
| `teardown_states` | NothingForgotten, ExternalOrder, EventuallyGone | one apply that falls short, failed and interrupted destroys: all that exists is in the file, a resource outlives those of other providers that depend on it, and repeated destroys leave nothing behind |
| `teardown_killed` | TypeOK, DependenciesSaved | applies killed before saving, two that fall short: a destroy can always be started |
| `iri` | FaultsAreBounded, WaitTellsTruth, ProviderHeals, DiscoveryIsRight, VersionsAreRight | token rotations against calls, lost answers, caches shared by two processes (159,040 states) |
| `services` | LinksAgree, ForeseenHolds, GatewayIsFollowed, InstancesAreKept, FilesAreRight, NamesAreOwn, BestChosen | what the other clients promise (643,654 states, with symmetry over the facilities) |
| `plugins` | OrderIsSound, LeasesAreSound, StitchIsSound, RunsAreExact, SliceIsRight, AwsIsRight, GcpIsRight, SenseIsRight, LabIsRight, ChiIsRight | planning and the plug-ins (779,707 states, with symmetry over the nodes of FABRIC) |
| `teardown_internal` | DestroyOrder *violated* | a resource that could not be deleted loses its dependencies in its own provider |
| `facility_refresh` | ProviderSuffices *violated* | a client with only a provider never asks it |
| `plan_promise` | PlanHolds *violated* | an apply deletes saved instances although the plan announced no deletion |

Properties that are conjunctions, and what they consist of:

| property | parts |
|---|---|
| ListsIntact | OnePlace: a resource is on at most one list of its provider; NothingLost: and on one until it is handled |
| FaultsAreBounded | FailsOncePerRotation: the service client of a client with a provider is refused at most once per token; OldHandlesOnly: file operations are refused beyond that only with a resource used before the client met its newer token; OrphansAreFaults: jobs nobody stands for are at most as many as lost answers |
| DiscoveryIsRight | OnlyWholeResults: no process is given half a file; CutsExpire: a discovery cut short is not cached for ever |
| VersionsAreRight | NeverTooHigh: no cache has a version the endpoint does not serve; UpgradeIsSeen |
| ForeseenHolds | ProbedIsUsed: the probed endpoint is the one used; PlanPredictsCreate: what plan accepted create does not refuse |
| GatewayIsFollowed | ChildrenDistinct: every advertised facility has a client of its own, unless it could not be built or its name was configured for another; StartSeesRecent: from a document no older than the ttl |
| InstancesAreKept | InstancesTracked: an instance is deleted, carried by a job, one whose answer was lost, or one a later `create_intent` superseded; DestroyEndsInstance |
| FilesAreRight | InOrder: operations that return take effect in their order, unless one that raised was carried out; DownloadsFaithfully |
| OrderIsSound | DependenciesFirst, AllOnce, CircularIsCircular |
| LeasesAreSound | LeasesApart, LeasesInside, EveryoneServed |
| StitchIsSound | PreferredStitch, SameEitherWay, EndsMeet, SitesAgree |
| RunsAreExact | Exact, PlanKept, Emptied, SettledStays |
| SliceIsRight | ExactSlice, AddressesDistinct, SliceDeleted |
| AwsIsRight | NothingBilled, OneTable |
| GcpIsRight | KeyOfAttachment, NothingAtGcp |
| SenseIsRight | AppliedIsReady, NoInstanceLeft |
| LabIsRight | ExactExperiment, ExperimentGone |
| ChiIsRight | ServersReached, IpsKept |

Bounds. Three resources over two providers are the smallest workflows with a
chain that crosses providers and returns, with a resource that has both kinds of
dependency, and with two resources of one provider pending at once; the `orch_*`
and `teardown_*` runs explore all owners and all graphs, not chosen examples. Two
jobs are one that is handled when the next one fails; three submissions let each
be submitted and one of them again, two are enough for a restart in between. Two
rotations and one fault let a token expire between a refusal and its retry, and
an answer be lost in the retry. Two processes are enough for a shared file: one
writes while the other reads or renames. Two instances of an intent are one that
was left behind and one that works, two file tasks one that was given up and one
after it. Two objects of each kind at a testbed are one that is being deleted and
still listed, and one that lives; a pool of two addresses is full with two nodes
and takes back one when a node is replaced. Three resources are enough for a
cycle and something outside of it, fourteen addresses for four networks with and
without enough of them (the theorems have no bound); two ports of each name,
preference and site meet each way in which the choice distinguishes them.

Where a property holds only with a restriction, the restriction is part of what
the run says:

- `SuccessMeansCreated` is about what no call left short (section 2). It holds
  for the workflows of three resources whose
  dependencies are on whole resources and in which services come last
  (`PlainWorkflows`), and for those of any size that are `Layered` (section 5);
  section 4 has workflows for which it fails.
- `NothingForgotten` holds with at most one apply that falls short and when no
  instance is reported twice: with two of them the code does forget, as section 4
  says, and the run does not show that.
- `DestroyCancelsKnown` and `SavedUntilDestroyed` pass over intents whose instance
  was neither FAILED nor READY, and the latter names the managers without jobs that
  remove the file: both are what the code does, against what a user may expect.
- The "gone" half of each plug-in property (`SliceDeleted`, `NothingBilled`,
  `NothingAtGcp`, `NoInstanceLeft`, `ExperimentGone`) is about destroys that something
  saved leads to the object. It says that failing alone, at any request of any run,
  leaves such an entry; only a death, or a later run that failed before it came to
  the resource, does not.
- `OnlySupersededSurvive` is as much of "destroy cancels running jobs" as holds: a
  second apply submits a job again and forgets the first identifier.
- `WaitReturnsSettled` says that wait returns submitted jobs in target states, and
  that those the IRI client polls do not run, not that the outcome is right;
  `WaitTellsTruth` says when it is. Of the jobs of an intent even the former may be
  wrong: their client reports what an orchestration is at.
- `ProviderHeals` is about clients that were given a first token.
- `Exact` and `PlanKept` are about configurations none of whose runs failed,
  `SettledStays` about those from which no saved resource was taken out.

Deadlock checking is off in the `orch_*`, `iri`, `services`, `plugins`,
`facility_refresh` and `plan_promise` runs: an apply, a computation or a wait
ends there, and nothing has to follow. It is on for sessions and destroys, where
the user may always give another command.

Fairness. `Orchestrator`: weak fairness of the next step, as every call of a
plug-in returns (they bound their polling). `JobSession`: the loop of wait runs;
a poll that is repeated is answered at last (strong fairness of `Answer`); the
facility ends each job; nothing is assumed of the user. `Teardown`: the user
destroys again, the loop runs, and a provider asked to delete the same thing again
and again deletes it at last (strong fairness of `Delete`); `EventuallyGone`
speaks of behaviours in which nothing is applied or interrupted any more from
some point on. `Facility`: a caller whose submit raised submits again, and the
loop of wait runs. `Discovery`: time passes, a save goes on, a process is started
again and asks. `Versions`: time passes, the file is saved, and a process that
can ask again and again does (strong fairness of `Detect`, which an expiry
enables and another process's write may disable for a while). The number of
faults is bounded, so that liveness is about what follows them. The `services`
and `plugins` runs are about safety only: that a testbed ever answers cannot be
derived from this code.

## 4. Disagreements met

Three violation runs show a document or a message of the repository against the
code; `PROJECT.json` quotes both sides:

- `teardown_internal`: the documented order of the destroy phase holds for
  dependencies that cross providers, not for those inside one (`controller.py:491`).
- `facility_refresh`: the token provider is called after a refusal only, and a
  client without a first token is never refused (`facility/client.py:252`).
- `plan_promise`: plan counts what was created, apply what was asked for
  (`provider.py:209`, `state.py:92`).

Other places where the models had to follow the code into something surprising,
kept here for whoever changes it (paths below `amscrot/`):

- *Workflow.* Four plug-ins return from a call without having reported every
  instance (section 2), which the counters do not show. A node behind a service of
  another provider is never created and the apply succeeds
  (`controller/controller.py:341`, `provider/api/provider.py:345`);
  `pending_internal` is retried only after an add (`provider.py:331`), which may
  come after `create_resource` passed over the node. A resource two layers above
  others of its own provider may so be added only while a service is created, which
  is after the loops over nodes and networks: the apply counts no failure and never
  creates it (section 5). `failed_count` is not reset by a retry that succeeds
  (`provider.py:296`). With the SSH test off apply returns before the loop over the
  services (`controller.py:385`). The default provider factory is shared by all
  managers of a process (`controller/provider_factory.py:46`).
- *State files.* Two applies in a row that create nothing after a good one make
  the second forget the resources (`util/state.py:435`); an instance reported
  twice makes up for a missing one (`state.py:443`). Showing or destroying a session
  from a configuration directory removes its jobs file with the jobs still running
  (`amscrot_manager.py:345`, `:410`). Destroy passes over what has neither a saved
  state nor a failed label (`controller/controller.py:480`): after the death of an
  apply it reports success and leaves what was made.
- *Jobs.* A create that raises leaves the identifiers of the jobs before it
  unsaved (`amscrot_manager.py:285`); a job without a service type is saved and
  not restored (`client/client.py:507`); a failed job that the facility has
  forgotten is reported as completed (`serviceclient/amsc_iri/iri_service_client.py:1044`).
- *Facility.* The file system of a `Resource` keeps the service client it was made
  with (`facility/models.py:66`): after a rotation its operations are refused until
  the resource is asked for anew, and each refusal rebuilds a client it does not use.
  A call that is retried runs the bound method of the old service client
  (`facility/client.py:238`), and is refused again.
- *Service clients.* A repeated apply overwrites the instance a job of an intent
  carries (`amscrot_manager.py:241`), and nobody cancels the former one. A storage
  listing that raises is no storage (`amsc_iri/iri_service_client.py:1288`). A
  Kubernetes job in a namespace other than the client's is neither found nor
  deleted, but one of its name is (`kube/kube_service_client.py:328`).
  The Kubernetes client has one status for all its jobs; what
  decodes as base64 is decoded, wrapped or not (`amsc_iri/filesystem.py:205`);
  destroy of an orchestrator instance that is neither failed nor ready does
  nothing and reports success (`amsc_iro/amsc_iro_service_client.py:389`).
- *Policy.* The preference of a chi port is not looked at, a site is compared with
  that of the fabric port only, an option that nobody meets is ignored, and the
  loop variable `k` is rebound inside its own loop (`policy/policy_helper.py:278`,
  `:311`, `:358`). A layer 3 configuration with a prefix length in its start
  address is shared and not partitioned (`controller/helper.py:75`).
- *Plug-ins.* FABRIC: `node_map` is indexed with names of networks, which raises
  before the draft is submitted (`fabric_slice.py:507`). AWS: the deletion of one
  route table disassociates the subnets of all of the VPC (`aws_utils.py:157`), and if
  the deletion fails after that, the next apply takes the table without its subnet
  (`:120`); a VPC that is not available makes a deletion succeed
  (`aws_network.py:119`).
  GCP: the error of an operation is not looked at (`gcp_utils.py:49`). SENSE: no
  manifest is ever returned, as the decoded response is not a dictionary
  (`sense_utils.py:399`). CloudLab: giving up on a network raises nothing
  (`cloudlab_network.py:134`), a refused termination is swallowed
  (`cloudlab_provider.py:275`). Chameleon: destroy deletes by the count of the
  configuration, so that surplus servers stay (`chi_provider.py:348`). Janus: a
  service saved as created is skipped although nodes were added
  (`janus_provider.py:173`). K3s: the deletion of the cluster is commented out
  (`kube_provider.py:333`).

## 5. Proofs

Every safety property that a run checks is also a theorem of the specification
it is about, or the safety half of one (`DiscoveryIsRight`, `VersionsAreRight`,
which join it to a liveness property). What is assumed is the named assumption on
the constants of each module, and nothing but their types is in those, except
what the code sees to: `TopologyAssumption` and `TeardownAssumption` say that
resources are numbered in the order `Ordering` establishes.

`Orchestrator_proofs` proves, for every number of resources and providers and
every workflow that meets `TopologyAssumption`:

- `TypeInvariant`: `Spec => []TypeOK`. `TypeOK` is inductive as it stands.
- `AddedAfterDependenciesHolds`: `Spec => []AddedAfterDependencies`. The property
  is not inductive: it says nothing of the resources that have left pending and
  are not added yet. `DependencyInv` adds that a dependency never has more values
  than instances were reported, with one to spare while the callback is on its
  way (`ValuesHaveInstances`); that whatever sits in `todo`, `todoInternal`,
  `noLongerPending` or `pendingInternal` has all its external values
  (`ListsSettled`); and that nothing is reported before the add loop is over
  (`QuietWhileAdding`), without which the shortcut of the internal resolver could
  complete an external dependency.
- `Refinement`: `Spec => ImplementsProvisioning`: every step admits one resource
  that was not admitted and whose needs are met, or completes one that was
  admitted, or stutters.

`OrchestratorLists_proofs`, under the same assumption:

- `ListsIntactHolds`: `Spec => []ListsIntact`. `PlaceInv` says where each
  resource is in every phase: the lists of the providers and the two local lists
  of the drain have no resource in common (`ApartInv`), each has a resource once
  and belongs to its provider (`ShapeInv`), what is drained belongs to the provider
  whose `create_resource` runs, and there is nothing to drain outside of it
  (`DrainInv`), and the loop of add comes to each resource once (`AddInv`).
  `LostInv` adds that whatever went through the loop of add is in some list, added
  or failed, which each action keeps because it takes a resource from one place
  only when it puts it in another.
- `FailuresSurfaceHolds`: `Spec => []FailuresSurface`. The failed count is the
  count of the configuration less what was reported, and could be nothing:
  `FailInv` adds that no instance was reported of a resource that is not added.

`OrchestratorSuccess_proofs`, for workflows that are `Layered`, whatever their size:
no node or network needs a service; inside a provider a resource takes whole
objects, and from resources that themselves take nothing from others of that
provider (as nodes do from networks); and if there are services the SSH test is on,
without which the code does not come to them.

- `SuccessMeansCreatedHolds`: `Spec => [](Layered => SuccessMeansCreated)`. Its
  conclusion is about every set of resources that is closed under dependencies and
  of which no call left one short (`Undiminished`); with plug-ins that report all
  they create this is the set of all resources.
  `SuccessInv`, which holds as long as nothing has raised, says of such a set that an added
  resource is listed whole (`ListedInv`), that a pending one has every value there
  is and misses one (`PendingInv`), that a parked one waits for a resource of its
  provider (`ParkedInv`), and above all `HandledInv`: whatever the loops have
  awaited or passed over has all its instances, or is hopeless, that is, it will
  never have its values. When the apply is over everything has been handled, and
  what is hopeless is still pending or parked, which does not count as a success.
  `LeftoverInv` is what makes this work: after the first loop a node or network
  that is still pending stays so, and none that the second loop has passed comes
  back to `_no_longer_pending`.

The restriction to two layers is not for the prover's convenience. With three
of them the property fails, in an instance of eight resources, all dependencies on
whole objects: provider q has 1, 2, 3 and service 7, provider p has 4, 5, 6
and service 8; 4 needs 3, 5 needs 2 and 4, 6 needs 1 and 5, 8 needs 7. Resources
6, 5, 4 of p are released in that order, and 6 and 5 are parked in
`pending_internal` because what they need is not added yet. A parked resource is
retried after an add only, so that the last of the chain is added when
`create_resource` runs for a service: nobody is left to create it, no list holds it
any more, and its failed count is zero. Three resources are too few for this, which is why
`orch_plain` needs no such condition.

`Controller_proofs` has what surrounds an apply. About `Teardown`, for every
workflow that meets `TeardownAssumption`:

- `TypeInvariant`, for any bound and any faults.
- `DependenciesSavedHolds`: `Spec => []DependenciesSaved` if no instance is
  reported twice. Reconciliation keeps the property because a provider then
  counts as complete only when each of its resources is created
  (`CompleteCreatesAll`, by the cardinality of a subset). The loop of destroy
  keeps it because of `DestroyInv`: the loop goes downwards (`GoesDown`), what
  stays has its external dependencies in `skip_resources` (`SkipsDependencies`),
  and a saved resource in there is still to be handled, as it lies below, or
  stays (`SkippedStay`).
- `NothingForgottenHolds` and `ExternalOrderHolds`, if the only faults are
  interruptions and at most one apply falls short. `KeepInv` says that what exists
  is saved, in a destroy is still to be handled or remains, and that as long as no
  apply fell short everything saved counts as created, which keeps the early
  return of the reconciliation from forgetting it.

`JobSession_proofs`, for any jobs, any number of submissions and any faults
unless said otherwise:

- `WaitReturnsSettledHolds`, `AppliedIsDurableHolds`, `DestroyCancelsKnownHolds`
  from `SessionInv`: while apply goes on, what it has handled has an identifier
  (`ApplyInv`); while destroy goes on, what it has handled does not run or is an
  intent it passed over (`StopInv`); what wait has settled was submitted and, if the
  IRI client polls it, does not run (`WaitInv`); and what the facility forgets has
  ended (`PurgeInv`).
- `SavedUntilDestroyedHolds`, when every job has a type (`SavedInv`): a job without
  one is not restored, and the process that lacks it removes the file. The managers
  that have no jobs at all are not excluded but named by the property.
- `OnlySupersededSurviveHolds`, without intents and without refused creates, lost
  answers, crashes, replaced jobs, and managers without jobs that destroy the session
  or show one without resources (`LastInv`: what runs and is not superseded is
  what its job carries, and is in the file unless the apply that made it goes on).

About `Ordering` (`DependenciesFirstHolds`, `AllOnceHolds`,
`CircularIsCircularHolds`, together `OrderIsSoundHolds`), for every set of
resources: `MapInv`, the map holds what is still to be ordered, each with the part
of its references that is not ordered yet.

About `Partition` (`LeasesApartHolds`, `LeasesInsideHolds`, together with
`EveryoneServed` in `LeasesAreSoundHolds`), for any range and any number of
networks: each range begins above the end of the one before it, is capped by the
end of the configured one, and takes at most one address more than its share.

About `Stitch` (`StitchIsSoundHolds`), for any number of ports, names and
preferences: what a policy offers is worked out as sequences, and the first
half of the proof says which *set* they list and in which order. The pairs are
those of `AllPairs`, a set in which the network that states `stitch_with` does
not occur (`PairsGive`, `OffersAreAll`), and they come in order of preference
(`ByPreferenceSorts`, `DuplicatesGo`), so that the first of those an option names
is the best of them (`FirstIsPreferred`, `BestIsBest`), and two that are each the
best of one set are equally good (`EitherIsAsGood`). `StitchInv` keeps that the
chosen pair is the best and what was derived from it.
`FlattenSeq` of the community modules is defined by a recursive function; that it
joins the sequences in their order (`FlattenJoins`) is an induction over their
number, which is carried out by the least counterexample: the numbers for which
it fails have a least member (`LeastNatural`, from `WFMin` of
WellFoundedInduction), and that leads to a contradiction.

`Services_proofs`, about modules that share nothing:

- `InstancesAreKeptHolds` (`IroService`), for any number of jobs and instances: a
  create under way is about an instance no job carries yet, and gives the ids last,
  so that what a job carries is provisioned, no clean-up reaches it, and what a
  repeated create takes away from the jobs is known.
- `FilesAreRightHolds` (`FileTask`), for all contents and any number of tasks:
  unless the client has left a task that writes, the only task under way that
  writes is the polled one, and the file is what the last operation that returned
  made of it until that one is carried out.
- `NamesAreOwnHolds` (`KubeService`), for any jobs and any number of
  completions: whoever creates a job finds the name free, and what the session has
  created goes only by a removal that is noted.
- `ForeseenHoldsAlways` (`Submission`): what was probed is one of the endpoints the
  client may load (`SubmissionInv`), and what is left to create after a plan that
  checked everything is the request.
- `GatewayIsFollowedHolds` (`Gateway`), for any facilities and any lifetime, where
  no facility is called "nobody": an entry on disk was advertised no longer ago
  than it is old (`GatewayInv`), and names made of facility and site are distinct,
  also from those of facilities whose client could not be built.
- `LinksAgreeHolds` (`Capabilities`): where no token stands for two capabilities,
  whatever stands for one is an alias of it and of no other (`OneMeant`).
- `BestChosenHolds` (`Outputs`), for any number of storages, each listing of which
  may raise.

`Facility_proofs`, for any submissions, rotations, faults and polls:

- `FaultsAreBoundedHolds`. `FacilityInv` adds that whoever was refused with this
  token already has the new one (`RefusedHasNew`: a call that is refused renews
  the token before anyone else calls, also a file operation with an old handle, whose
  own token stays older than the client's), and that a returned wrapper stands for a
  job at the facility (`HeldIsThere`). About one call it is enough to know that it
  launches at most what it reports and one more for each answer it loses
  (`CallCounts`).
- `WaitTellsTruthHolds`. A wait takes a job that left the queue for one that
  ended: only what has ended leaves the queue (`UnlistedEnded`), and what has ended
  keeps its state and is never listed again (`RunsOnlyEnd`).
- `NeverTooHighHolds` (`Versions`), for any processes, endpoints and lifetimes:
  `NeverTooHigh` with the types, since a process only copies entries between its
  memory and the file, and a probe that fails falls back downwards.
- `OnlyWholeResultsHolds` (`Discovery`), for any finite set of processes: a file is
  torn or whole, and a process holds one open just while it writes (`WholeInv`). It
  also shows that the model leaves nothing out: there are always more inodes than
  the cache file and the files held open (`AnInodeIsFree`, by the pigeonhole
  principle), so that opening the temporary file is never refused.

`Plugins_proofs`, each for any number of objects at the testbed, and any order of
edits, failures, crashes and answers. A property speaks of the moment a run reports
success, and its invariant of every request on the way there. What they have in
common is that an object at the testbed is reached by what is saved, or by the run
that holds it, unless it is `Adrift` (in `FabricSlice` unless `unled`): a run that
fails leaves an entry for what it has come to.


- `SliceIsRightHolds` (`FabricSlice`): a draft starts from the slice that was found
  (`DraftIsSlice`), once submitted the slice is what is wanted (`Submitted`), and
  saved addresses differ, from each other and from what is taken from the rest of
  the pool (`AddressesApart`).
- `AwsIsRightHolds` (`AwsNet`): at most one gateway is listed, the one the run holds
  (`OneGateway`); the table that is saved is fed by a gateway in service until it is
  deleted (`TablesFollow`); and interfaces in use belong to a gateway in service,
  one to each (`VifsFollow`). A table without its subnet is in `parted`.
- `GcpIsRightHolds` (`GcpNet`): while the run polls only its own operation is under
  way (`OwnOperation`), and from the look at the attachment on a destroy that saw
  no error knows what is left (`DestroyKnows`).
- `SenseIsRightHolds` (`SenseNet`): the alias stands for one instance that is not
  deleted, unless an answer was lost (`OneAlias`), and a cancellation that shows as over is
  over once the deletion has slept, unless `hasty`.
- `LabIsRightHolds` (`CloudLab`): an experiment no failed run has touched has
  the size that is saved, or asked for (`LabUntouched`), and a run that looked at
  the status leaves a ready one (`LabLooked`).
- `ChiIsRightHolds` (`Chameleon`), for floating IPs shared with others: those found
  unbound or newly made are bound to no server of the session (`FoundAreOthers`), and unless a
  run died servers and router are what is saved until the run has made them what
  is asked for (`SavedAreBuilt`, `RouterKnows`).
- `RunsAreExactHolds` (`Reconfigure`), for any counts: as long as no run failed, of
  each resource there is all that was counted last or nothing, and the file says
  which (`FileAgrees`); what there is of an unedited configuration is what it
  counts (`UneditedIsCounted`), and what was never edited a destroy reaches
  (`UntouchedIsReached`).

Only model-checked: all liveness (`Termination`, `WaitEnds`, `EventuallyGone`,
`ProviderHeals`, `CutsExpire`, `UpgradeIsSeen`), which is out of the prover's
reach, and with it the conjunctions `DiscoveryIsRight` and `VersionsAreRight` as a
whole; `SuccessMeansCreated` for workflows of three resources that are not
`Layered`; `OnlySupersededSurvive` with the faults its theorem excludes; and that the
composed specifications of the `MC` modules are sums of their parts: the theorems are
about each part.

## 6. Not modelled

See the components in `PROJECT.json`. The testbeds and facilities themselves are
environments. In particular:

- Janus, K3s and the dummy plug-in: playbooks over an inventory, whose results
  nobody looks at, so that there is no state a property could relate.
- Formatting, logging, printed summaries, YAML, variable substitution and the
  rewriting of paths: string processing, abstracted to what survives it.
- The tables of FABRIC tags and facility ports, credentials, images, routes on
  nodes and uploads: data no property tells apart.
- Two dependencies on the same key of the same resource, and two sessions in one
  process.
- The Airflow operators and the other commands of the command line tool: callers
  of the client.

## 7. What comes next

To prove: that the parallel parts of a composition leave each other alone, which
would carry the theorems over to the `MC` modules, and that what `Teardown` takes
from `Orchestrator` as one step (`Apply`) is implemented by it. Of the code, the
stitching of networks with more than one option, and a node with two dependencies on
one key, would extend `Stitch` and `Orchestrator`.
