----------------------------- MODULE JobSession -----------------------------
(***************************************************************************)
(* The jobs of one session: the Session object of the user's process       *)
(* (amscrot/client/models.py), the job phases of AmSCROTManager            *)
(* (amscrot/amscrot_manager.py), the jobs file of the session              *)
(* (amscrot/util/state.py) and its restoration by Client.create_session    *)
(* (amscrot/client/client.py).  The facility that runs the submitted jobs  *)
(* is the environment, seen through the IRI and IRO service clients.       *)
(*                                                                         *)
(* A submission is a job (or the group of jobs of one intent) the facility *)
(* accepted; its identifier is its rank.  Identifier 0 stands for None.    *)
(* The insertion order of the session's dictionary is left open: a loop    *)
(* over the jobs may take them in any order.                               *)
(***************************************************************************)
EXTENDS Integers, Sequences, FiniteSets

CONSTANTS
    Job,            \* the names of the jobs the user may add
    IntentJob,      \* jobs of an intent, bound to an IRO client
    Untyped,        \* jobs built without a service_type
    HasResources,   \* the session also provisions nodes, networks or services
    TargetState,    \* target_states of Session.wait
    MaxSubmissions, \* bound: submissions the facility accepts
    Fault           \* the faults of the environment to consider

ASSUME SessionAssumption ==
    /\ IntentJob \subseteq Job /\ Untyped \subseteq Job
    /\ HasResources \in BOOLEAN
    /\ TargetState \subseteq {"COMPLETED", "FAILED", "CANCELED"}
    /\ MaxSubmissions \in Nat
    \* refuse: a provider raises where it need not; lose: a submission is
    \* accepted but its answer is lost; crash: the process dies during a call;
    \* overwrite: add_job replaces an attached job; purge: the facility
    \* forgets finished jobs; detached: a manager without jobs shows the session;
    \* bypass: a manager without jobs destroys it
    /\ Fault \subseteq {"refuse", "lose", "crash", "overwrite", "purge", "detached",
                        "bypass"}

VARIABLES
    remote,    \* the submissions: the jobs of each and its state
    purged,    \* submissions the facility has forgotten
    attached,  \* Session._jobs
    intended,  \* attached jobs whose intent attribute is set
    id,        \* Job.id
    saved,     \* the jobs file: the id of each job in it; empty if no file
    resources, \* provider states are saved for the session
    known,     \* the session has a directory
    op,        \* the call in progress
    left,      \* jobs the call has still to handle; pending of wait
    passed,    \* history: intent jobs the running destroy left as they are
    toPoll,    \* pending jobs the round of wait has still to poll
    settled,   \* settled_this_round
    results,   \* the state last seen by wait for each job
    timed      \* the wait has a timeout

facility == <<remote, purged>>
memory   == <<attached, intended, id>>
disk     == <<saved, resources, known>>
call     == <<op, left, passed>>
waiting  == <<toPoll, settled, results, timed>>
vars == <<facility, memory, disk, call, waiting>>

Final == {"COMPLETED", "FAILED", "CANCELED"}
RemoteState == {"ACTIVE"} \cup Final
Reported == {"UNKNOWN"} \cup RemoteState
Nothing == [j \in {} |-> 0]

Active(s) == remote[s].state = "ACTIVE"

Init ==
    /\ remote = <<>> /\ purged = {}
    /\ attached = {} /\ intended = {}
    /\ id = [j \in Job |-> 0]
    /\ saved = Nothing /\ resources = FALSE /\ known = FALSE
    /\ op = "idle" /\ left = {} /\ passed = {}
    /\ toPoll = {} /\ settled = {}
    /\ results = [j \in Job |-> "none"] /\ timed = FALSE

-----------------------------------------------------------------------------
(* Calls: how they begin and end.                                          *)

Begin(call_, jobs) ==
    /\ op = "idle"
    /\ op' = call_ /\ left' = jobs /\ passed' = {}

\* The local variables of wait are gone.
NoWait ==
    /\ toPoll' = {} /\ settled' = {}
    /\ results' = [j \in Job |-> "none"] /\ timed' = FALSE

\* The call in progress returns or raises.
End == op' = "idle" /\ left' = {} /\ passed' = {}

\* The loop of the call is done with these jobs.
Handled(jobs) ==
    /\ left' = left \ jobs /\ UNCHANGED <<op, passed>>

AddJob(j) ==
    /\ op = "idle"
    /\ j \in attached => "overwrite" \in Fault
    /\ attached' = attached \cup {j}
    /\ intended' = IF j \in IntentJob THEN intended \cup {j} ELSE intended
    /\ id' = [id EXCEPT ![j] = 0]
    /\ UNCHANGED <<facility, disk, call, waiting>>

-----------------------------------------------------------------------------
(* AmSCROTManager.plan and show.                                           *)

\* Mutant of DeleteSessionIfEmpty: an "or" between the two conditions.
DeleteSessionIfEither(jobs) ==
    /\ saved' = IF resources /\ jobs # {} THEN saved ELSE Nothing
    /\ known' = (known /\ resources /\ jobs # {})
    /\ UNCHANGED resources

\* jobs: those of the manager, which the jobs file is not one of.
DeleteSessionIfEmpty(jobs) ==
    /\ saved' = IF resources \/ jobs # {} THEN saved ELSE Nothing
    /\ known' = (known /\ (resources \/ jobs # {}))
    /\ UNCHANGED resources

StartPlan ==
    /\ Begin("plan", attached)
    /\ UNCHANGED <<facility, memory, disk, waiting>>

\* The jobs planned or created together: the group of an intent first.
NextJobs(jobs) ==
    IF left \cap intended # {} THEN jobs = left \cap intended
                               ELSE \E j \in left : jobs = {j}

\* An IRO client does nothing for a job whose intent is gone.
Supported(jobs) == jobs \cap IntentJob \subseteq intended

PlanJobs(jobs) ==
    /\ op = "plan" /\ NextJobs(jobs)
    /\ Supported(jobs) /\ Handled(jobs)
    /\ UNCHANGED <<facility, memory, disk, waiting>>

\* A PlanError, of the resources or of a job, leaves plan at once.
PlanRaises ==
    /\ op = "plan" /\ End
    /\ UNCHANGED <<facility, memory, disk, waiting>>

EndPlan ==
    /\ op = "plan" /\ left = {}
    /\ End
    /\ DeleteSessionIfEmpty(attached)
    /\ UNCHANGED <<facility, memory, waiting>>

\* A manager built from a configuration directory has no jobs.
ShowDetached ==
    /\ "detached" \in Fault /\ op = "idle"
    /\ DeleteSessionIfEmpty({})
    /\ UNCHANGED <<facility, memory, call, waiting>>

-----------------------------------------------------------------------------
(* AmSCROTManager.apply.                                                   *)

\* The resources come first; when they raise, their states are saved all the
\* same but no job is created.  The directory is made before them.
StartApply ==
    /\ known' = TRUE
    /\ Len(remote) + Cardinality(attached) <= MaxSubmissions
    /\ \/ Begin("apply", attached) /\ resources' = HasResources
       \/ op = "idle" /\ resources' = HasResources /\ UNCHANGED call
    /\ UNCHANGED <<facility, memory, saved, waiting>>

\* The facility accepts a submission of these jobs.
Accept(jobs) ==
    /\ Len(remote) < MaxSubmissions
    /\ remote' = Append(remote, [jobs |-> jobs, state |-> "ACTIVE"])
    /\ UNCHANGED purged

\* create and create_intent set the ids as soon as the facility answers.
CreateOk(jobs) ==
    /\ Supported(jobs) /\ Accept(jobs) /\ Handled(jobs)
    /\ id' = [j \in Job |-> IF j \in jobs THEN Len(remote') ELSE id[j]]

\* A CreateError leaves apply at once; the facility may have the jobs anyway.
CreateRaises(jobs) ==
    /\ End
    /\ \/ "refuse" \in Fault /\ UNCHANGED facility
       \/ ~Supported(jobs) /\ UNCHANGED facility
       \/ "lose" \in Fault /\ Supported(jobs) /\ Accept(jobs)
    /\ UNCHANGED id

CreateJobs(jobs) ==
    /\ op = "apply" /\ NextJobs(jobs)
    /\ CreateOk(jobs) \/ CreateRaises(jobs)
    /\ UNCHANGED <<attached, intended, disk, waiting>>

\* Mutant of SaveJobs: only the jobs the file did not hold are written.
SaveNewJobs ==
    [j \in attached |-> IF j \in DOMAIN saved THEN saved[j] ELSE id[j]]

\* The summaries of the jobs, with the ids they got.
SaveJobs == [j \in attached |-> id[j]]

\* save_jobs comes after the last create, and not at all without jobs.
EndApply ==
    /\ op = "apply" /\ left = {}
    /\ End
    /\ saved' = IF attached = {} THEN saved ELSE SaveJobs
    /\ UNCHANGED <<facility, memory, resources, known, waiting>>

-----------------------------------------------------------------------------
(* AmSCROTManager.destroy.                                                 *)

\* A session without a directory is not known, and destroy returns at once.
StartDestroy ==
    /\ known
    /\ Begin("destroy", attached)
    /\ UNCHANGED <<facility, memory, disk, waiting>>

\* Mutant of Canceled: the call is accepted and the job goes on.
CanceledNothing(s) == remote[s].state

\* What a cancel request makes of a submission.
Canceled(s) == IF Active(s) THEN "CANCELED" ELSE remote[s].state

\* Without an id the IRO client only warns; the IRI client raises.  An instance
\* that is neither FAILED nor READY is left as it is, and that counts as success.
CancelJob(j) ==
    /\ left' = left \ {j} /\ UNCHANGED op
    /\ \/ id[j] = 0 /\ j \in IntentJob /\ UNCHANGED <<remote, passed>>
       \/ /\ id[j] # 0 /\ remote' = [remote EXCEPT ![id[j]].state = Canceled(id[j])]
          /\ UNCHANGED passed
       \/ /\ id[j] # 0 /\ j \in IntentJob /\ UNCHANGED remote
          /\ passed' = passed \cup {j}

\* A DestroyError leaves destroy at once, with the jobs file still there.  The
\* facility may refuse to cancel what is no longer running.
CancelRaises(j) ==
    /\ End
    /\ \/ id[j] = 0 /\ j \notin IntentJob
       \/ id[j] # 0 /\ ("refuse" \in Fault \/ ~Active(id[j]))
    /\ UNCHANGED remote

DestroyJob(j) ==
    /\ op = "destroy" /\ j \in left
    /\ CancelJob(j) \/ CancelRaises(j)
    /\ UNCHANGED <<purged, memory, disk, waiting>>

\* delete_jobs, then the resources, and the directory once they are gone;
\* destroy returns 1 when one of them fails.
RemoveSession ==
    /\ saved' = Nothing
    /\ \/ resources' = FALSE /\ known' = FALSE
       \/ resources /\ UNCHANGED <<resources, known>>

EndDestroy ==
    /\ op = "destroy" /\ left = {}
    /\ End /\ RemoveSession
    /\ UNCHANGED <<facility, memory, waiting>>

\* A manager built from a configuration directory has no jobs to cancel, and
\* does not look into the file for them.
DestroyDetached ==
    /\ "bypass" \in Fault /\ op = "idle" /\ known
    /\ RemoveSession
    /\ UNCHANGED <<facility, memory, call, waiting>>

-----------------------------------------------------------------------------
(* The death of the process, and Client.create_session in the next one.    *)

\* JobServiceType(None) raises, and the job is skipped with a warning.
Restored ==
    /\ attached' = DOMAIN saved \ Untyped
    /\ id' = [j \in Job |-> IF j \in DOMAIN saved \ Untyped THEN saved[j] ELSE 0]

\* The file has the intent of a job, but it is not read back.
Restart ==
    /\ op = "idle" \/ "crash" \in Fault
    /\ Restored
    /\ intended' = {}
    /\ End /\ NoWait
    /\ UNCHANGED <<facility, disk>>

-----------------------------------------------------------------------------
(* Session.wait.                                                           *)

StartWait(jobs, timeout) ==
    /\ jobs \subseteq attached
    /\ Begin("wait", jobs)
    /\ toPoll' = {} /\ settled' = {}
    /\ results' = [j \in Job |-> "none"] /\ timed' = timeout
    /\ UNCHANGED <<facility, memory, disk>>

\* ServiceClient.status: UNKNOWN without an id or an answer; a submission the
\* facility no longer tracks is taken for completed.  The IRO client reads the
\* words of the orchestrator's and the configuration's state and then of the
\* facility's job: an instance that stands may be reported in any state.
Status(j) ==
    CASE id[j] = 0                     -> {"UNKNOWN"}
      [] id[j] # 0 /\ j \in IntentJob  -> Reported
      [] id[j] # 0 /\ j \notin IntentJob ->
            {"UNKNOWN", IF id[j] \in purged THEN "COMPLETED" ELSE remote[id[j]].state}

\* The top of the loop, with the deadline not yet reached.
StartRound ==
    /\ op = "wait" /\ toPoll = {} /\ settled = {} /\ left # {}
    /\ toPoll' = left
    /\ UNCHANGED <<facility, memory, disk, call, settled, results, timed>>

\* The deadline is looked at there only: wait raises.  It asks for the pending
\* jobs once more, to put their states in the exception.
TimeOut ==
    /\ op = "wait" /\ toPoll = {} /\ settled = {} /\ left # {} /\ timed
    /\ End /\ NoWait
    /\ UNCHANGED <<facility, memory, disk>>

\* Mutant of Settles: a job of unknown state is not asked about again.
SettlesUnknown(state) == state \in TargetState \cup {"UNKNOWN"}

Settles(state) == state \in TargetState

Poll(j, state) ==
    /\ op = "wait" /\ j \in toPoll
    /\ state \in Status(j)
    /\ toPoll' = toPoll \ {j}
    /\ results' = [results EXCEPT ![j] = state]
    /\ settled' = IF Settles(state) THEN settled \cup {j} ELSE settled
    /\ UNCHANGED <<facility, memory, disk, call, timed>>

\* Mutant of Unsettled: a job leaves the pending ones only with all of them.
UnsettledTogether == IF settled = left THEN {} ELSE left

\* The jobs still pending after a round.
Unsettled == left \ settled

\* The settled jobs leave; the loop ends when none is left.
EndRound ==
    /\ op = "wait" /\ toPoll = {} /\ (settled # {} \/ left = {})
    /\ \/ Unsettled = {} /\ End /\ NoWait
       \/ /\ Unsettled # {} /\ left' = Unsettled /\ settled' = {}
          /\ UNCHANGED <<op, passed, toPoll, results, timed>>
    /\ UNCHANGED <<facility, memory, disk>>

-----------------------------------------------------------------------------
(* The facility.                                                           *)

Finish(s) ==
    /\ s \in DOMAIN remote /\ Active(s)
    /\ \E state \in {"COMPLETED", "FAILED"} : remote' = [remote EXCEPT ![s].state = state]
    /\ UNCHANGED <<purged, memory, disk, call, waiting>>

Purge(s) ==
    /\ "purge" \in Fault
    /\ s \in DOMAIN remote \ purged /\ ~Active(s)
    /\ purged' = purged \cup {s}
    /\ UNCHANGED <<remote, memory, disk, call, waiting>>

WaitStep ==
    StartRound \/ TimeOut \/ EndRound \/ \E j \in Job, s \in Reported : Poll(j, s)

Next ==
    \/ \E j \in Job : AddJob(j) \/ DestroyJob(j)
    \/ StartPlan \/ PlanRaises \/ EndPlan \/ ShowDetached \/ DestroyDetached
    \/ StartApply \/ EndApply \/ StartDestroy \/ EndDestroy
    \/ \E jobs \in SUBSET Job : PlanJobs(jobs) \/ CreateJobs(jobs)
    \/ \E jobs \in SUBSET Job, timeout \in BOOLEAN : StartWait(jobs, timeout)
    \/ WaitStep \/ Restart
    \/ \E s \in DOMAIN remote : Finish(s) \/ Purge(s)

Spec == Init /\ [][Next]_vars

\* The loop of wait runs, a poll that is repeated is answered at last, and the
\* facility ends every job.
Answer(j) == \E s \in RemoteState : Poll(j, s)
Fairness ==
    /\ WF_vars(WaitStep)
    /\ \A j \in Job : SF_vars(Answer(j))
    /\ \A s \in 1..MaxSubmissions : WF_vars(Finish(s))

FairSpec == Spec /\ Fairness

-----------------------------------------------------------------------------
(* Properties.                                                             *)

\* Every variable has its type.
TypeOK ==
    /\ remote \in Seq([jobs : SUBSET Job, state : RemoteState])
    /\ Len(remote) <= MaxSubmissions
    /\ purged \subseteq DOMAIN remote
    /\ attached \subseteq Job /\ intended \subseteq IntentJob \cap attached
    /\ id \in [Job -> 0..Len(remote)]
    /\ DOMAIN saved \subseteq Job /\ \A j \in DOMAIN saved : saved[j] \in DOMAIN remote
    /\ resources \in BOOLEAN /\ known \in BOOLEAN /\ passed \subseteq IntentJob
    /\ op \in {"idle", "plan", "apply", "destroy", "wait"}
    /\ left \subseteq attached /\ toPoll \subseteq left /\ settled \subseteq left
    /\ results \in [Job -> Reported \cup {"none"}] /\ timed \in BOOLEAN

\* A wait that returns has a target state for every job it was asked about,
\* and the job was submitted, whatever polls failed, were repeated or raced
\* with it.  Of a job the IRI client polls the state is true: it is not running.
WaitReturnsSettled ==
    [][EndRound /\ op' = "idle" =>
          \A j \in Job : results[j] # "none" =>
              /\ results[j] \in TargetState /\ id[j] # 0
              /\ j \notin IntentJob => ~Active(id[j])]_vars

\* An apply that succeeds leaves on disk the identifier of the last submission
\* of every job of the session, whatever was submitted, lost or restored before.
AppliedIsDurable ==
    [][EndApply =>
          \A j \in attached :
              /\ j \in DOMAIN saved'
              /\ j \in remote[saved'[j]].jobs
              /\ \A s \in DOMAIN remote : j \in remote[s].jobs => s <= saved'[j]]_vars

\* A destroy that comes to its end has stopped every submission the session
\* still knew of, also one an earlier, interrupted destroy had already stopped.
\* It passes over only an intent whose instance was neither FAILED nor READY.
DestroyCancelsKnown ==
    [][EndDestroy =>
          \A j \in attached : id[j] # 0 /\ Active(id[j]) => j \in passed]_vars

\* "session.destroy()   # cancels running jobs and removes session state"
\* (README.md).  What of it holds, across restarts, when creates do not fail: a
\* submission that outlives destroy was superseded by a later one of its job.
OnlySupersededSurvive ==
    [][EndDestroy =>
          \A s \in DOMAIN remote : Active(s) =>
              \E t \in DOMAIN remote :
                  t > s /\ remote[t].jobs \cap remote[s].jobs # {}]_vars

\* A file with jobs in it is removed by a destroy of the session, and then none
\* of the submissions it lists and the session knows is left running, but for an
\* intent passed over.  Otherwise it takes a manager that has no jobs: its
\* destroy, or its show of a session without provider states.
SavedUntilDestroyed ==
    [][saved # Nothing /\ saved' = Nothing =>
          \/ DestroyDetached
          \/ ShowDetached /\ ~resources
          \/ /\ op = "destroy" /\ left = {}
             /\ \A j \in DOMAIN saved :
                   id[j] = saved[j] /\ Active(saved[j]) => j \in passed]_vars

\* "An existing session is restored automatically on
\* client.create_session(name)" (README.md): the session holds every job of
\* its file, before and after a restart.
SavedIsAttached == DOMAIN saved \subseteq attached

\* Without a timeout, waiting for jobs that were submitted ends.
WaitEnds ==
    (op = "wait" /\ \A j \in left : id[j] # 0) ~> op # "wait"
=============================================================================
