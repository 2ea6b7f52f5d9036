----------------------------- MODULE IroService -----------------------------
(* The AMSC IRO service client: an intent of several jobs is one instance of  *)
(* the orchestrator, which every job of the intent carries as its id.  Every  *)
(* call of the client may fail, and may have been carried out all the same.   *)
EXTENDS Integers, FiniteSets

CONSTANTS IntentJobs,   \* the jobs of the intent
          MaxInstances  \* bound on instance_new

(* An intent has a job: create_intent is called for the jobs that name it.    *)
ASSUME InstancesAssumption == MaxInstances \in Nat /\ IntentJobs # {}

Instances == 1..MaxInstances
NoInstance == 0

VARIABLES named,       \* the jobs that have a name, which only these need
          profile,     \* the intent profile: exists and is editable
          defaults,    \* the profile gives an executable
          executable,  \* spec.executable of the jobs: none, own, or the profile's
          instance,    \* the orchestration status of each instance
          siUuid,      \* job.id
          calling,     \* where create_intent is, and with which instance
          unanswered,  \* ghost: instances a call on which got no answer
          superseded,  \* ghost: what the jobs carried when create_intent was repeated
          destroyed,   \* ghost: the instance of the last destroy that returned
          iroStatus    \* the last state status gave a job

iroVars == <<named, profile, defaults, executable,
             instance, siUuid, calling, unanswered, superseded, destroyed, iroStatus>>

Idle == [at |-> "idle", si |-> NoInstance]

IroInit ==
    /\ named \in SUBSET IntentJobs
    /\ profile \in BOOLEAN
    /\ defaults \in BOOLEAN
    /\ executable \in [IntentJobs -> {"none", "own"}]
    /\ instance = [i \in Instances |-> "none"]
    /\ siUuid = [j \in IntentJobs |-> NoInstance]
    /\ calling = Idle
    /\ unanswered = {}
    /\ superseded = {}
    /\ destroyed = NoInstance
    /\ iroStatus = [j \in IntentJobs |-> "UNKNOWN"]

(* _prepare_intent: refuses an unknown or uneditable profile, and writes the  *)
(* profile's defaults into the job specification it is given.                 *)
PrepareIntent ==
    IF profile THEN [j \in IntentJobs |->
                        IF executable[j] = "none" /\ defaults THEN "profile" ELSE executable[j]]
    ELSE executable
IroPlan ==
    /\ calling = Idle
    /\ executable' = PrepareIntent
    /\ UNCHANGED <<named, profile, defaults, instance, siUuid, calling, unanswered,
                   superseded, destroyed, iroStatus>>

(* create_intent: instance_new, instance_create, instance_operate, one after  *)
(* the other.  The session calls it on every apply, also for jobs that have   *)
(* an id already.                                                             *)
BeginIntent ==
    /\ calling = Idle /\ profile
    /\ executable' = PrepareIntent
    /\ calling' = [at |-> "instance_new", si |-> NoInstance]
    /\ UNCHANGED <<named, profile, defaults, instance, siUuid, unanswered, superseded,
                   destroyed, iroStatus>>

(* A call is carried out or not, and answered or not.                         *)
Unused == {i \in Instances : instance[i] = "none"}
InstanceNew(done, answered) ==
    /\ calling.at = "instance_new"
    /\ \E i \in Unused :
        /\ \A k \in Unused : i <= k
        /\ instance' = IF done THEN [instance EXCEPT ![i] = "INIT"] ELSE instance
        /\ calling' = IF done /\ answered THEN [at |-> "instance_create", si |-> i] ELSE Idle
        /\ unanswered' = IF done /\ ~answered THEN unanswered \cup {i} ELSE unanswered
    /\ UNCHANGED <<named, profile, defaults, executable, siUuid, superseded, destroyed, iroStatus>>

InstanceCreate(done, answered) ==
    /\ calling.at = "instance_create"
    /\ instance' = IF done THEN [instance EXCEPT ![calling.si] = "CREATE_COMPILED"] ELSE instance
    /\ calling' =
        [calling EXCEPT !.at = IF done /\ answered THEN "instance_operate" ELSE "instance_delete"]
    /\ UNCHANGED <<named, profile, defaults, executable, siUuid, unanswered, superseded,
                   destroyed, iroStatus>>

\* Mutant of Carriers: every job gives up its id before the last call.
CarriersCleared(done) == [j \in IntentJobs |-> IF done THEN calling.si ELSE NoInstance]

(* The jobs with a name get the id of the instance once it was provisioned,   *)
(* in the place of the one they had.                                          *)
Carriers(done) == [j \in IntentJobs |-> IF done /\ j \in named THEN calling.si ELSE siUuid[j]]

InstanceOperate(done, answered) ==
    /\ calling.at = "instance_operate"
    /\ instance' = IF done THEN [instance EXCEPT ![calling.si] = "CREATE_COMMITTED"] ELSE instance
    /\ siUuid' = Carriers(done /\ answered)
    /\ IF done /\ answered
       THEN /\ calling' = Idle
            /\ superseded' = superseded \cup {siUuid[j] : j \in named}
       ELSE /\ calling' = [calling EXCEPT !.at = "instance_delete"]
            /\ UNCHANGED superseded
    /\ UNCHANGED <<named, profile, defaults, executable, unanswered, destroyed, iroStatus>>

\* Mutant of CleansUp: the instance of a failed create is left to itself.
CleansNothing(done) == FALSE

(* The clean-up of a failed create, whose own failure replaces the CreateError. *)
CleansUp(done) == done
InstanceDelete(done, answered) ==
    /\ calling.at = "instance_delete"
    /\ instance' = IF CleansUp(done) THEN [instance EXCEPT ![calling.si] = "deleted"] ELSE instance
    /\ unanswered' = IF done THEN unanswered ELSE unanswered \cup {calling.si}
    /\ calling' = Idle
    /\ UNCHANGED <<named, profile, defaults, executable, siUuid, superseded, destroyed, iroStatus>>

(* destroy: a failed instance is cancelled by force, a ready one is           *)
(* cancelled, and any other is left alone without an error.  It raises when   *)
(* the cancellation fails or is not answered.                                 *)
Failed(s) == s \in {"CREATE_FAILED", "CANCEL_FAILED"}
Ready(s) == s \in {"CREATE_READY", "CANCEL_READY"}
Cancelled(s) == s \in {"CANCEL_READY", "CANCEL_FAILED"}

\* Mutant of Cancels: a failed instance is not cancelled.
CancelsReady(s) == Ready(s) /\ ~Cancelled(s)

Cancels(s) == Failed(s) \/ (Ready(s) /\ ~Cancelled(s))
IroDestroy(j, done, answered) ==
    /\ calling = Idle /\ siUuid[j] # NoInstance
    /\ LET i == siUuid[j]
           cancels == Cancels(instance[i]) IN
        /\ \E outcome \in {"CANCEL_READY", "CANCEL_FAILED"} :
            instance' = IF cancels /\ done THEN [instance EXCEPT ![i] = outcome] ELSE instance
        /\ destroyed' = IF cancels => done /\ answered THEN i ELSE destroyed
    /\ UNCHANGED <<named, profile, defaults, executable, siUuid, calling, unanswered,
                   superseded, iroStatus>>

(* status: the status of the instance, then that of the job at the facility   *)
(* when there is one.                                                         *)
Mapped(s) ==
    CASE Failed(s) -> "FAILED"
      [] s = "CANCEL_READY" -> "CANCELED"
      [] s = "CREATE_READY" -> "ACTIVE"
      [] OTHER -> "PENDING"
AtFacility == {"none", "ACTIVE", "COMPLETED", "FAILED", "QUEUED"}
IroStatus(j) ==
    /\ calling = Idle
    /\ \E state \in AtFacility, unstable \in BOOLEAN :
        iroStatus' = [iroStatus EXCEPT ![j] =
            CASE siUuid[j] = NoInstance -> "UNKNOWN"
              [] siUuid[j] # NoInstance /\ state # "none" -> state
              [] siUuid[j] # NoInstance /\ state = "none" /\ unstable -> "COMPLETED"
              [] OTHER -> Mapped(instance[siUuid[j]])]
    /\ UNCHANGED <<named, profile, defaults, executable, instance, siUuid, calling, unanswered,
                   superseded, destroyed>>

(* The orchestrator finishes what was provisioned.                            *)
Provision(i) ==
    /\ instance[i] = "CREATE_COMMITTED"
    /\ \E s \in {"CREATE_READY", "CREATE_FAILED"} : instance' = [instance EXCEPT ![i] = s]
    /\ UNCHANGED <<named, profile, defaults, executable, siUuid, calling, unanswered,
                   superseded, destroyed, iroStatus>>

IroNext ==
    \/ IroPlan \/ BeginIntent
    \/ \E done, answered \in BOOLEAN :
        \/ InstanceNew(done, answered) \/ InstanceCreate(done, answered)
        \/ InstanceOperate(done, answered) \/ InstanceDelete(done, answered)
        \/ \E j \in IntentJobs : IroDestroy(j, done, answered)
    \/ \E j \in IntentJobs : IroStatus(j)
    \/ \E i \in Instances : Provision(i)

IroSpec == IroInit /\ [][IroNext]_iroVars

-----------------------------------------------------------------------------
(* An instance that is neither deleted nor carried by a job is one whose     *)
(* creation or whose clean-up was lost on the way, or whose place a later    *)
(* create_intent gave to another one, unless no job of the intent has a name *)
(* to carry it: every other failure of create, a repeated one included,      *)
(* leaves nothing behind and takes nothing away.                             *)
Live(i) == instance[i] \notin {"none", "deleted"}
InstancesTracked ==
    \A i \in Instances :
        Live(i) => \/ \E j \in IntentJobs : siUuid[j] = i
                   \/ calling.si = i \/ i \in unanswered
                   \/ i \in superseded \/ named = {}

(* After a destroy of one of its jobs an instance stays without cancellation *)
(* only if its provisioning had not come to an end when destroy looked.      *)
DestroyEndsInstance ==
    [][destroyed' # destroyed =>
        \/ Cancelled(instance'[destroyed'])
        \/ instance[destroyed'] = "CREATE_COMMITTED"]_iroVars

(* From create to destroy no instance is lost sight of.                      *)
InstancesAreKept == []InstancesTracked /\ DestroyEndsInstance
=============================================================================
