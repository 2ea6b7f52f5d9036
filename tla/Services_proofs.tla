--------------------------- MODULE Services_proofs --------------------------
(* Proofs about the other clients and what they ask of a facility: jobs that *)
(* live at an orchestrator over several calls, file tasks, clusters, the     *)
(* choice of a facility, a gateway or a storage, and the links between what  *)
(* a facility lists; for any number of jobs, tasks, calls and failures.      *)
EXTENDS IroService, FileTask, KubeService, Submission, Gateway, Capabilities, Outputs,
        WellFoundedInduction, TLAPS

Orchestrated == {"none", "INIT", "CREATE_COMPILED", "CREATE_COMMITTED", "CREATE_READY",
                 "CREATE_FAILED", "CANCEL_READY", "CANCEL_FAILED", "deleted"}

\* What a job carries has been provisioned: create_intent gives the jobs their
\* id after the last of its calls only.
Provisioned == Orchestrated \ {"none", "INIT", "CREATE_COMPILED", "deleted"}
CarriedIsProvisioned ==
    \A j \in IntentJobs : siUuid[j] # NoInstance => instance[siUuid[j]] \in Provisioned

\* A create that is under way is about an instance no job carries yet.
CreatesAfresh ==
    calling.si # NoInstance => \A j \in IntentJobs : siUuid[j] # calling.si

IroTypes ==
    /\ named \subseteq IntentJobs
    /\ instance \in [Instances -> Orchestrated]
    /\ siUuid \in [IntentJobs -> Instances \cup {NoInstance}]
    /\ calling \in [at : {"idle", "instance_new", "instance_create",
                          "instance_operate", "instance_delete"},
                    si : Instances \cup {NoInstance}]
    /\ calling.at \notin {"idle", "instance_new"} => calling.si \in Instances
    /\ calling.at \in {"idle", "instance_new"} => calling.si = NoInstance
    /\ destroyed \in Instances \cup {NoInstance}

IroInv == IroTypes /\ CarriedIsProvisioned /\ CreatesAfresh /\ InstancesTracked

LEMMA NoInstanceIsNone == NoInstance \notin Instances
BY InstancesAssumption DEF NoInstance, Instances

LEMMA IroStart == IroInit => IroInv
BY NoInstanceIsNone DEF IroInit, IroInv, IroTypes, CarriedIsProvisioned, CreatesAfresh,
   InstancesTracked, Live, Idle, Orchestrated

LEMMA NewKeeps ==
    ASSUME IroInv, NEW carried \in BOOLEAN, NEW answered \in BOOLEAN, InstanceNew(carried, answered)
    PROVE  IroInv'
<1> USE NoInstanceIsNone
<1>1. PICK i \in Unused :
        /\ instance' = IF carried THEN [instance EXCEPT ![i] = "INIT"] ELSE instance
        /\ calling' = IF carried /\ answered THEN [at |-> "instance_create", si |-> i] ELSE Idle
        /\ unanswered' = IF carried /\ ~answered THEN unanswered \cup {i} ELSE unanswered
  BY DEF InstanceNew
<1>2. i \in Instances /\ instance[i] = "none"
  BY <1>1 DEF Unused
<1>3. /\ calling.at = "instance_new" /\ calling.si = NoInstance
      /\ UNCHANGED <<named, siUuid, destroyed, superseded>>
  BY DEF InstanceNew, IroInv, IroTypes
<1>4. IroTypes'
  BY <1>1, <1>2, <1>3 DEF IroInv, IroTypes, Orchestrated, Idle
<1>5. \A j \in IntentJobs : siUuid[j] # i
  BY <1>2 DEF IroInv, CarriedIsProvisioned, Provisioned
<1>6. CarriedIsProvisioned' /\ CreatesAfresh'
  BY <1>1, <1>3, <1>5 DEF IroInv, IroTypes, CarriedIsProvisioned, CreatesAfresh, Idle
<1>7. InstancesTracked'
  <2> SUFFICES ASSUME NEW k \in Instances, Live(k)'
               PROVE  \/ \E j \in IntentJobs : siUuid[j] = k
                      \/ (calling.si)' = k \/ k \in unanswered'
                      \/ k \in superseded \/ named = {}
    BY <1>3 DEF InstancesTracked
  <2>1. CASE k = i
    BY <1>1, <1>2, <2>1 DEF Live
  <2>2. CASE k # i
    <3>1. instance'[k] = instance[k]
      BY <1>1, <1>2, <2>2 DEF IroInv, IroTypes
    <3>2. Live(k)
      BY <3>1 DEF Live
    <3> QED BY <1>1, <1>3, <3>2 DEF IroInv, InstancesTracked
  <2> QED BY <2>1, <2>2
<1> QED BY <1>4, <1>6, <1>7 DEF IroInv

LEMMA CreateKeeps ==
    ASSUME IroInv, NEW carried \in BOOLEAN, NEW answered \in BOOLEAN, InstanceCreate(carried, answered)
    PROVE  IroInv'
<1> USE NoInstanceIsNone
<1>1. /\ calling.at = "instance_create" /\ calling.si \in Instances
      /\ UNCHANGED <<named, siUuid, destroyed, unanswered, superseded>>
      /\ \A j \in IntentJobs : siUuid[j] # calling.si
  BY DEF InstanceCreate, IroInv, IroTypes, CreatesAfresh
<1>2. /\ calling' \in [at : {"instance_operate", "instance_delete"}, si : {calling.si}]
      /\ \A k \in Instances \ {calling.si} : instance'[k] = instance[k]
  BY <1>1 DEF InstanceCreate, IroInv, IroTypes
<1>3. IroTypes'
  BY <1>1, <1>2 DEF InstanceCreate, IroInv, IroTypes, Orchestrated
<1>4. CarriedIsProvisioned' /\ CreatesAfresh'
  BY <1>1, <1>2 DEF IroInv, IroTypes, CarriedIsProvisioned, CreatesAfresh
<1>5. InstancesTracked'
  BY <1>1, <1>2 DEF IroInv, InstancesTracked, Live
<1> QED BY <1>3, <1>4, <1>5 DEF IroInv

LEMMA OperateKeeps ==
    ASSUME IroInv, NEW carried \in BOOLEAN, NEW answered \in BOOLEAN, InstanceOperate(carried, answered)
    PROVE  IroInv'
<1> USE NoInstanceIsNone
<1>1. /\ calling.at = "instance_operate" /\ calling.si \in Instances
      /\ UNCHANGED <<named, destroyed, unanswered>> /\ named \subseteq IntentJobs
      /\ siUuid \in [IntentJobs -> Instances \cup {NoInstance}]
      /\ \A j \in IntentJobs : siUuid[j] # calling.si
  BY DEF InstanceOperate, IroInv, IroTypes, CreatesAfresh
<1>2. \A k \in Instances \ {calling.si} : instance'[k] = instance[k]
  BY <1>1 DEF InstanceOperate, IroInv, IroTypes
<1>3. CASE carried /\ answered
  <2>1. /\ instance'[calling.si] = "CREATE_COMMITTED" /\ calling' = Idle
        /\ superseded' = superseded \cup {siUuid[j] : j \in named}
    BY <1>1, <1>3 DEF InstanceOperate, IroInv, IroTypes
  <2>2. /\ siUuid' = [j \in IntentJobs |-> IF j \in named THEN calling.si ELSE siUuid[j]]
        /\ \A j \in named : siUuid'[j] = calling.si
        /\ \A j \in IntentJobs \ named : siUuid'[j] = siUuid[j]
    BY <1>1, <1>3 DEF InstanceOperate, Carriers
  <2>3. IroTypes'
    <3>1. instance' \in [Instances -> Orchestrated]
      BY <1>1, <1>3 DEF InstanceOperate, IroInv, IroTypes, Orchestrated
    <3>2. siUuid' \in [IntentJobs -> Instances \cup {NoInstance}]
      BY <1>1, <2>2
    <3> QED BY <1>1, <2>1, <3>1, <3>2 DEF IroInv, IroTypes, Idle
  <2>4. CarriedIsProvisioned' /\ CreatesAfresh'
    <3>1. ASSUME NEW j \in IntentJobs, siUuid'[j] # NoInstance
          PROVE  instance'[siUuid'[j]] \in Provisioned
      <4>1. CASE j \in named
        BY <2>1, <2>2, <4>1 DEF Provisioned, Orchestrated
      <4>2. CASE j \notin named
        BY <1>1, <1>2, <2>2, <3>1, <4>2 DEF IroInv, CarriedIsProvisioned
      <4> QED BY <4>1, <4>2
    <3> QED BY <2>1, <3>1 DEF CarriedIsProvisioned, CreatesAfresh, Idle
  <2>5. InstancesTracked'
    <3> SUFFICES ASSUME NEW k \in Instances, Live(k)', named # {}
                 PROVE  \/ \E j \in IntentJobs : siUuid'[j] = k
                        \/ k \in unanswered \/ k \in superseded'
      BY <1>1 DEF InstancesTracked
    <3>1. CASE k = calling.si
      BY <1>1, <2>2, <3>1
    <3>2. CASE k # calling.si
      <4>1. Live(k)
        BY <1>2, <3>2 DEF Live
      <4>2. \/ \E j \in IntentJobs : siUuid[j] = k
            \/ k \in unanswered \/ k \in superseded
        BY <3>2, <4>1 DEF IroInv, InstancesTracked
      <4>3. ASSUME NEW j \in IntentJobs, siUuid[j] = k
            PROVE  k \in superseded' \/ siUuid'[j] = k
        BY <2>1, <2>2, <4>3
      <4> QED BY <2>1, <4>2, <4>3
    <3> QED BY <3>1, <3>2
  <2> QED BY <2>3, <2>4, <2>5 DEF IroInv
<1>4. CASE ~(carried /\ answered)
  <2>1. siUuid' = siUuid
    BY <1>1, <1>4 DEF InstanceOperate, Carriers
  <2>2. calling' = [calling EXCEPT !.at = "instance_delete"] /\ superseded' = superseded
    BY <1>4 DEF InstanceOperate
  <2>3. IroTypes'
    BY <1>1, <2>1, <2>2 DEF InstanceOperate, IroInv, IroTypes, Orchestrated
  <2>4. (calling.si)' = calling.si
    BY <2>2 DEF IroInv, IroTypes
  <2>5. CarriedIsProvisioned' /\ CreatesAfresh'
    BY <1>1, <1>2, <2>1, <2>4 DEF IroInv, IroTypes, CarriedIsProvisioned, CreatesAfresh
  <2>6. InstancesTracked'
    BY <1>1, <1>2, <2>1, <2>2, <2>4 DEF IroInv, InstancesTracked, Live
  <2> QED BY <2>3, <2>5, <2>6 DEF IroInv
<1> QED BY <1>3, <1>4

LEMMA DeleteKeeps ==
    ASSUME IroInv, NEW carried \in BOOLEAN, NEW answered \in BOOLEAN, InstanceDelete(carried, answered)
    PROVE  IroInv'
<1> USE NoInstanceIsNone
<1>1. /\ calling.at = "instance_delete" /\ calling.si \in Instances
      /\ UNCHANGED <<named, siUuid, destroyed, superseded>> /\ calling' = Idle
      /\ instance' = IF carried THEN [instance EXCEPT ![calling.si] = "deleted"] ELSE instance
      /\ unanswered' = IF carried THEN unanswered ELSE unanswered \cup {calling.si}
      /\ \A j \in IntentJobs : siUuid[j] # calling.si
  BY DEF InstanceDelete, CleansUp, IroInv, IroTypes, CreatesAfresh
<1>2. IroTypes'
  BY <1>1 DEF IroInv, IroTypes, Orchestrated, Idle
<1>3. CarriedIsProvisioned' /\ CreatesAfresh'
  BY <1>1 DEF IroInv, IroTypes, CarriedIsProvisioned, CreatesAfresh, Idle
<1>4. InstancesTracked'
  <2> SUFFICES ASSUME NEW k \in Instances, Live(k)'
               PROVE  \/ \E j \in IntentJobs : siUuid[j] = k
                      \/ k \in unanswered' \/ k \in superseded \/ named = {}
    BY <1>1 DEF InstancesTracked
  <2>1. CASE k = calling.si
    BY <1>1, <2>1 DEF Live, IroInv, IroTypes
  <2>2. CASE k # calling.si
    BY <1>1, <2>2 DEF Live, IroInv, IroTypes, InstancesTracked
  <2> QED BY <2>1, <2>2
<1> QED BY <1>2, <1>3, <1>4 DEF IroInv

\* What destroy and the orchestrator make of an instance that was provisioned.
LEMMA MovesKeep ==
    ASSUME IroInv, NEW i \in Instances, instance[i] \in Provisioned,
           NEW s \in Provisioned, instance' = [instance EXCEPT ![i] = s],
           UNCHANGED <<named, siUuid, calling, unanswered, superseded>>,
           destroyed' \in Instances \cup {NoInstance}
    PROVE  IroInv'
<1> USE NoInstanceIsNone
<1>1. IroTypes'
  BY DEF IroInv, IroTypes, Provisioned, Orchestrated
<1>2. CarriedIsProvisioned' /\ CreatesAfresh'
  BY DEF IroInv, IroTypes, CarriedIsProvisioned, CreatesAfresh
<1>3. InstancesTracked'
  BY DEF IroInv, IroTypes, InstancesTracked, Live, Provisioned
<1> QED BY <1>1, <1>2, <1>3 DEF IroInv

LEMMA DestroyKeeps ==
    ASSUME IroInv, NEW j \in IntentJobs, NEW carried \in BOOLEAN, NEW answered \in BOOLEAN,
           IroDestroy(j, carried, answered)
    PROVE  IroInv'
<1> USE NoInstanceIsNone
<1> DEFINE i == siUuid[j]
<1>1. i \in Instances /\ instance[i] \in Provisioned
  BY DEF IroDestroy, IroInv, IroTypes, CarriedIsProvisioned
<1>2. PICK answer \in {"CANCEL_READY", "CANCEL_FAILED"} :
        instance' = IF Cancels(instance[i]) /\ carried THEN [instance EXCEPT ![i] = answer]
                    ELSE instance
  BY DEF IroDestroy
<1>3. PICK s \in Provisioned : instance' = [instance EXCEPT ![i] = s]
  <2>1. CASE Cancels(instance[i]) /\ carried
    BY <1>2, <2>1 DEF Provisioned, Orchestrated
  <2>2. CASE ~(Cancels(instance[i]) /\ carried)
    <3>1. instance' = [instance EXCEPT ![i] = instance[i]]
      BY <1>1, <1>2, <2>2 DEF IroInv, IroTypes
    <3> QED BY <1>1, <3>1
  <2> QED BY <2>1, <2>2
<1>4. /\ destroyed' \in Instances \cup {NoInstance}
      /\ UNCHANGED <<named, siUuid, calling, unanswered, superseded>>
  BY <1>1 DEF IroDestroy, IroInv, IroTypes
<1> QED BY <1>1, <1>3, <1>4, MovesKeep

LEMMA StepKeeps ==
    ASSUME IroInv, [IroNext]_iroVars
    PROVE  IroInv'
<1> USE NoInstanceIsNone
<1>1. ASSUME UNCHANGED <<named, instance, siUuid, calling, unanswered, superseded, destroyed>>
      PROVE  IroInv'
  BY <1>1 DEF IroInv, IroTypes, CarriedIsProvisioned, CreatesAfresh, InstancesTracked, Live
<1>2. CASE UNCHANGED iroVars
  BY <1>1, <1>2 DEF iroVars
<1>3. CASE IroPlan
  BY <1>1, <1>3 DEF IroPlan
<1>4. CASE BeginIntent
  BY <1>4 DEF BeginIntent, IroInv, IroTypes, CarriedIsProvisioned, CreatesAfresh,
     InstancesTracked, Live, Idle
<1>5. ASSUME NEW carried \in BOOLEAN, NEW answered \in BOOLEAN,
             \/ InstanceNew(carried, answered) \/ InstanceCreate(carried, answered)
             \/ InstanceOperate(carried, answered) \/ InstanceDelete(carried, answered)
      PROVE  IroInv'
  BY <1>5, NewKeeps, CreateKeeps, OperateKeeps, DeleteKeeps
<1>6. ASSUME NEW j \in IntentJobs, NEW carried \in BOOLEAN, NEW answered \in BOOLEAN,
             IroDestroy(j, carried, answered)
      PROVE  IroInv'
  BY <1>6, DestroyKeeps
<1>7. ASSUME NEW j \in IntentJobs, IroStatus(j) PROVE IroInv'
  BY <1>1, <1>7 DEF IroStatus
<1>8. ASSUME NEW i \in Instances, Provision(i) PROVE IroInv'
  <2>1. instance[i] \in Provisioned
    BY <1>8 DEF Provision, Provisioned, Orchestrated
  <2>2. PICK s \in {"CREATE_READY", "CREATE_FAILED"} : instance' = [instance EXCEPT ![i] = s]
    BY <1>8 DEF Provision
  <2>3. s \in Provisioned
    BY DEF Provisioned, Orchestrated
  <2>4. /\ destroyed' \in Instances \cup {NoInstance}
        /\ UNCHANGED <<named, siUuid, calling, unanswered, superseded>>
    BY <1>8 DEF Provision, IroInv, IroTypes
  <2> QED BY <2>1, <2>2, <2>3, <2>4, MovesKeep
<1> QED BY <1>2, <1>3, <1>4, <1>5, <1>6, <1>7, <1>8 DEF IroNext

LEMMA DestroyEnds ==
    ASSUME IroInv, [IroNext]_iroVars, destroyed' # destroyed
    PROVE  Cancelled(instance'[destroyed']) \/ instance[destroyed'] = "CREATE_COMMITTED"
<1> USE NoInstanceIsNone
<1>1. PICK j \in IntentJobs, carried \in BOOLEAN, answered \in BOOLEAN :
        IroDestroy(j, carried, answered)
  BY DEF IroNext, iroVars, IroPlan, BeginIntent, InstanceNew, InstanceCreate, InstanceOperate,
     InstanceDelete, IroStatus, Provision
<1> DEFINE i == siUuid[j]
<1>2. destroyed' = i /\ i \in Instances /\ instance[i] \in Provisioned
  BY <1>1 DEF IroDestroy, IroInv, IroTypes, CarriedIsProvisioned
<1>3. PICK answer \in {"CANCEL_READY", "CANCEL_FAILED"} :
        /\ instance' = IF Cancels(instance[i]) /\ carried THEN [instance EXCEPT ![i] = answer]
                       ELSE instance
        /\ Cancels(instance[i]) => carried
  BY <1>1 DEF IroDestroy
<1>4. CASE Cancels(instance[i])
  BY <1>2, <1>3, <1>4 DEF Cancelled, IroInv, IroTypes
<1>5. CASE ~Cancels(instance[i])
  BY <1>2, <1>3, <1>5 DEF Cancels, Failed, Ready, Cancelled, Provisioned, Orchestrated
<1> QED BY <1>4, <1>5

-----------------------------------------------------------------------------
(* Whatever fails in create_intent or is not answered, and however often it  *)
(* is repeated, an instance is deleted, carried by a job, one of those whose *)
(* answer was lost, or one whose place a later create_intent that succeeded  *)
(* gave to another, provided some job of the intent has a name; and a        *)
(* destroy that returns has cancelled the instance if it found it at the end *)
(* of its provisioning (amsc_iro_service_client.py), for every number of     *)
(* jobs and instances.                                                       *)
THEOREM InstancesAreKeptHolds == IroSpec => InstancesAreKept
<1>1. IroInit => IroInv
  BY IroStart
<1>2. IroInv /\ [IroNext]_iroVars => IroInv'
  BY StepKeeps
<1>3. IroInv => InstancesTracked
  BY DEF IroInv
<1>4. IroInv /\ [IroNext]_iroVars
        => [destroyed' # destroyed =>
                \/ Cancelled(instance'[destroyed'])
                \/ instance[destroyed'] = "CREATE_COMMITTED"]_iroVars
  BY DestroyEnds
<1> QED BY <1>1, <1>2, <1>3, <1>4, PTL DEF IroSpec, InstancesAreKept, DestroyEndsInstance

-----------------------------------------------------------------------------
(* Remote file systems.                                                      *)

Contents == Texts \cup {NoFile}
States == {"unused", "pending", "active", "completed", "failed"}

FileTypes ==
    /\ task \in [Tasks -> [op : {"none", "write", "rm", "download"}, text : Contents,
                           state : States, read : Contents]]
    /\ polled \in Tasks \cup {0} /\ remote \in Contents
    /\ abandoned \subseteq Tasks
    /\ \A t \in Tasks : task[t].state = "unused" <=> task[t].op = "none"
    /\ \A t \in abandoned : task[t].op # "none"
    /\ polled # 0 => task[polled].op # "none"

Writes(t) == task[t].op # "download"
Underway(t) == task[t].state \in {"pending", "active"}
Wrote(t) == Writes(t) /\ task[t].state = "completed"

\* Only the task the client waits for, and those it gave up on or never heard
\* of, are still to be carried out.
OthersRest == \A t \in Tasks : Underway(t) => t = polled \/ t \in abandoned

\* What the operations that returned, and the one the client waits for once it
\* is carried out, make of the file.
Expected == IF polled # 0 /\ Wrote(polled) THEN task[polled].text ELSE done

\* The file is that, unless a task that was given up wrote it.
FileFollows ==
    \/ remote = Expected
    \/ \E t \in abandoned : Wrote(t) /\ task[t].text = remote

FileInv == FileTypes /\ OthersRest /\ FileFollows

LEMMA ZeroIsNoTask == 0 \notin Tasks
BY TasksAssumption DEF Tasks

LEMMA FileStart == FileInit => FileInv
<1> SUFFICES ASSUME FileInit PROVE FileInv
  OBVIOUS
<1>1. NoTask \in [op : {"none", "write", "rm", "download"}, text : Contents,
                  state : States, read : Contents]
  BY DEF NoTask, Contents, States
<1>2. FileTypes
  BY <1>1 DEF FileInit, FileTypes, NoTask, Contents
<1>3. OthersRest /\ FileFollows
  BY DEF FileInit, OthersRest, FileFollows, Expected, Underway, NoTask
<1> QED BY <1>2, <1>3 DEF FileInv

LEMMA SubmitKeeps ==
    ASSUME FileInv, NEW op \in Ops, NEW answered \in BOOLEAN, SubmitTask(op, answered)
    PROVE  FileInv'
<1> USE ZeroIsNoTask
<1>1. PICK t \in Tasks :
        /\ task[t] = NoTask
        /\ task' = [task EXCEPT ![t] =
                       [op |-> op[1], text |-> op[2], state |-> "pending", read |-> NoFile]]
        /\ polled' = IF answered THEN t ELSE 0
        /\ abandoned' = IF answered THEN abandoned ELSE abandoned \cup {t}
  BY DEF SubmitTask
<1>2. op[1] \in {"write", "rm", "download"} /\ op[2] \in Contents
  BY DEF Ops, Contents
<1>3. polled = 0 /\ UNCHANGED <<wraps, remote, done>>
  BY DEF SubmitTask
<1>4. /\ task'[t] = [op |-> op[1], text |-> op[2], state |-> "pending", read |-> NoFile]
      /\ \A u \in Tasks \ {t} : task'[u] = task[u]
  BY <1>1 DEF FileInv, FileTypes
<1>5. t \notin abandoned /\ abandoned \subseteq Tasks
  BY <1>1 DEF FileInv, FileTypes, NoTask
<1>6. task' \in [Tasks -> [op : {"none", "write", "rm", "download"}, text : Contents,
                           state : States, read : Contents]]
  BY <1>1, <1>2 DEF FileInv, FileTypes, States, Contents
<1>7. FileTypes'
  BY <1>1, <1>2, <1>3, <1>4, <1>5, <1>6 DEF FileInv, FileTypes
<1>8. OthersRest'
  BY <1>1, <1>3, <1>4, <1>5 DEF FileInv, OthersRest, Underway
<1>9. FileFollows'
  <2>1. Expected = done /\ Expected' = done
    BY <1>1, <1>3, <1>4 DEF Expected, Wrote
  <2>2. ASSUME NEW u \in abandoned, Wrote(u), task[u].text = remote
        PROVE  u \in abandoned' /\ Wrote(u)' /\ task'[u].text = remote
    BY <1>1, <1>4, <1>5, <2>2 DEF Wrote, Writes
  <2> QED BY <1>3, <2>1, <2>2 DEF FileInv, FileFollows
<1> QED BY <1>7, <1>8, <1>9 DEF FileInv

LEMMA StartKeeps ==
    ASSUME FileInv, NEW t \in Tasks, StartTask(t)
    PROVE  FileInv'
<1> USE ZeroIsNoTask
<1>1. /\ task[t].state = "pending" /\ task' = [task EXCEPT ![t].state = "active"]
      /\ UNCHANGED <<wraps, remote, polled, done, abandoned>>
  BY DEF StartTask
<1>2. /\ task'[t] = [task[t] EXCEPT !.state = "active"]
      /\ \A u \in Tasks \ {t} : task'[u] = task[u]
  BY <1>1 DEF FileInv, FileTypes
<1>3. /\ task'[t].op = task[t].op /\ task'[t].text = task[t].text
      /\ task'[t].state = "active"
  BY <1>2 DEF FileInv, FileTypes
<1>4. FileTypes'
  BY <1>1, <1>2, <1>3 DEF FileInv, FileTypes, States
<1>5. OthersRest'
  BY <1>1, <1>2, <1>3 DEF FileInv, OthersRest, Underway
<1>6. \A u \in Tasks : Wrote(u)' = Wrote(u) /\ task'[u].text = task[u].text
  BY <1>1, <1>2, <1>3 DEF Wrote, Writes
<1>7. polled \in Tasks \cup {0} /\ abandoned \subseteq Tasks
  BY DEF FileInv, FileTypes
<1>8. Expected' = Expected
  BY <1>1, <1>6, <1>7 DEF Expected, Wrote, Writes
<1>9. FileFollows'
  BY <1>1, <1>6, <1>7, <1>8 DEF FileInv, FileFollows
<1> QED BY <1>4, <1>5, <1>9 DEF FileInv

\* A task that is carried out writes only if the client waits for it, or gave
\* up on it; otherwise the file stays as it was.
LEMMA EndKeeps ==
    ASSUME FileInv, NEW t \in Tasks, NEW ok \in BOOLEAN, EndTask(t, ok)
    PROVE  FileInv'
<1> USE ZeroIsNoTask
<1> DEFINE s == IF ok THEN "completed" ELSE "failed"
<1>1. /\ task[t].state = "active"
      /\ task' = [task EXCEPT ![t].state = s, ![t].read = remote]
      /\ remote' = IF ok /\ task[t].op # "download" THEN task[t].text ELSE remote
      /\ UNCHANGED <<wraps, polled, done, abandoned>>
  BY DEF EndTask
<1>2. /\ task'[t] = [task[t] EXCEPT !.state = s, !.read = remote]
      /\ \A u \in Tasks \ {t} : task'[u] = task[u]
  BY <1>1 DEF FileInv, FileTypes
<1>3. /\ task'[t].op = task[t].op /\ task'[t].text = task[t].text
      /\ task'[t].state = s
  BY <1>2 DEF FileInv, FileTypes
<1>4. task' \in [Tasks -> [op : {"none", "write", "rm", "download"}, text : Contents,
                           state : States, read : Contents]]
  <2>1. task'[t] \in [op : {"none", "write", "rm", "download"}, text : Contents,
                      state : States, read : Contents]
    BY <1>2 DEF FileInv, FileTypes, States
  <2>2. task' = [u \in Tasks |-> IF u = t THEN task'[t] ELSE task[u]]
    BY <1>1 DEF FileInv, FileTypes
  <2> QED BY <2>1, <2>2 DEF FileInv, FileTypes
<1>5. FileTypes'
  <2>1. remote' \in Contents
    BY <1>1 DEF FileInv, FileTypes
  <2> QED BY <1>1, <1>2, <1>3, <1>4, <2>1 DEF FileInv, FileTypes, States
<1>6. OthersRest'
  BY <1>1, <1>2, <1>3 DEF FileInv, OthersRest, Underway
<1>7. FileFollows'
  <2>1. t = polled \/ t \in abandoned
    BY <1>1 DEF FileInv, OthersRest, Underway
  <2>2. ~Wrote(t) /\ (Wrote(t)' <=> ok /\ Writes(t))
    BY <1>1, <1>3 DEF Wrote, Writes
  <2>3. CASE ok /\ Writes(t)
    <3>1. remote' = task[t].text
      BY <1>1, <2>3 DEF Writes
    <3>2. CASE t = polled
      BY <1>1, <1>3, <2>2, <2>3, <3>1, <3>2 DEF FileFollows, Expected, Wrote, Writes
    <3>3. CASE t \in abandoned
      BY <1>1, <1>3, <2>2, <2>3, <3>1, <3>3 DEF FileFollows
    <3> QED BY <2>1, <3>2, <3>3
  <2>4. CASE ~(ok /\ Writes(t))
    <3>1. remote' = remote
      BY <1>1, <2>4 DEF Writes
    <3>2. \A u \in Tasks : Wrote(u)' = Wrote(u) /\ task'[u].text = task[u].text
      BY <1>2, <1>3, <2>2, <2>4 DEF Wrote, Writes
    <3>3. polled \in Tasks \cup {0} /\ abandoned \subseteq Tasks
      BY DEF FileInv, FileTypes
    <3>4. Expected' = Expected
      BY <1>1, <3>2, <3>3 DEF Expected, Wrote, Writes
    <3> QED BY <1>1, <3>1, <3>2, <3>3, <3>4 DEF FileInv, FileFollows
  <2> QED BY <2>3, <2>4
<1> QED BY <1>5, <1>6, <1>7 DEF FileInv

LEMMA ReturnKeeps ==
    ASSUME FileInv, Returned
    PROVE  FileInv'
<1> USE ZeroIsNoTask
<1>1. /\ polled # 0 /\ task[polled].state \in {"completed", "failed"} /\ polled' = 0
      /\ done' = IF task[polled].state # "failed" /\ task[polled].op # "download"
                 THEN task[polled].text ELSE done
      /\ UNCHANGED <<wraps, task, remote, abandoned>>
  BY DEF Returned, Terminal
<1>2. FileTypes'
  BY <1>1 DEF FileInv, FileTypes
<1>3. OthersRest'
  BY <1>1 DEF FileInv, OthersRest, Underway
<1>4. Expected' = Expected
  BY <1>1 DEF Expected, Wrote, Writes
<1>5. FileFollows'
  BY <1>1, <1>4 DEF FileInv, FileFollows, Wrote, Writes
<1> QED BY <1>2, <1>3, <1>5 DEF FileInv

LEMMA GiveUpKeeps ==
    ASSUME FileInv, GiveUp
    PROVE  FileInv'
<1> USE ZeroIsNoTask
<1>1. /\ polled # 0 /\ polled' = 0 /\ abandoned' = abandoned \cup {polled}
      /\ UNCHANGED <<wraps, task, remote, done>>
  BY DEF GiveUp
<1>2. FileTypes'
  BY <1>1 DEF FileInv, FileTypes
<1>3. OthersRest'
  BY <1>1 DEF FileInv, OthersRest, Underway
<1>4. FileFollows'
  <2>1. Expected' = done
    BY <1>1 DEF Expected
  <2>2. CASE Wrote(polled)
    BY <1>1, <2>2 DEF FileInv, FileFollows, Expected, Wrote, Writes
  <2>3. CASE ~Wrote(polled)
    BY <1>1, <2>1, <2>3 DEF FileInv, FileFollows, Expected, Wrote, Writes
  <2> QED BY <2>2, <2>3
<1> QED BY <1>2, <1>3, <1>4 DEF FileInv

LEMMA FileStepKeeps ==
    ASSUME FileInv, [FileNext]_fileVars
    PROVE  FileInv'
<1>1. CASE UNCHANGED fileVars
  BY <1>1 DEF fileVars, FileInv, FileTypes, OthersRest, FileFollows, Expected, Wrote, Writes,
     Underway
<1>2. ASSUME NEW op \in Ops, NEW answered \in BOOLEAN, SubmitTask(op, answered) PROVE FileInv'
  BY <1>2, SubmitKeeps
<1>3. ASSUME NEW t \in Tasks, StartTask(t) PROVE FileInv'
  BY <1>3, StartKeeps
<1>4. ASSUME NEW t \in Tasks, NEW ok \in BOOLEAN, EndTask(t, ok)
      PROVE  FileInv'
  BY <1>4, EndKeeps
<1>5. CASE Returned
  BY <1>5, ReturnKeeps
<1>6. CASE GiveUp
  BY <1>6, GiveUpKeeps
<1> QED BY <1>1, <1>2, <1>3, <1>4, <1>5, <1>6 DEF FileNext

LEMMA NothingPolledInOrder == FileInv => InOrder
<1> SUFFICES ASSUME FileInv, polled = 0
             PROVE  \/ remote = done
                    \/ \E t \in abandoned : Wrote(t) /\ task[t].text = remote
  BY DEF InOrder, Wrote, Writes
<1> QED BY DEF FileInv, FileFollows, Expected

-----------------------------------------------------------------------------
(* Between two operations the remote file is what the last one that returned *)
(* made of it, or what a task wrote that the client gave up on or never      *)
(* heard of because its call raised; and a download is what the file held,   *)
(* on every facility that wraps its results (amsc_iri/filesystem.py), for    *)
(* all contents and any number of tasks.                                     *)
THEOREM FilesAreRightHolds == FileSpec => FilesAreRight
<1>1. FileInit => FileInv
  BY FileStart
<1>2. FileInv /\ [FileNext]_fileVars => FileInv'
  BY FileStepKeeps
<1>3. FileInv => InOrder
  BY NothingPolledInOrder
<1>4. [FileNext]_fileVars
        => [local' # local =>
                \/ local' = task[polled].read
                \/ ~wraps /\ task[polled].read \in Base64Like]_fileVars
  BY DEF FileNext, fileVars, SubmitTask, StartTask, EndTask, Returned, GiveUp, Decoded
<1> QED BY <1>1, <1>2, <1>3, <1>4, PTL DEF FileSpec, FilesAreRight, DownloadsFaithfully

-----------------------------------------------------------------------------
(* Submission.                                                               *)

\* What a credential says is only left out by the client when it has none.
SubmissionInv ==
    /\ credential \in Records \cup {NoRecord}
    /\ outcome = "unbuilt" => probed = NoUri /\ ~available
    /\ outcome = "planned" => available /\ job.resource /\ job.convertible
    /\ ProbedIsUsed

LEMMA SubmissionStart == SubmissionInit => SubmissionInv
BY DEF SubmissionInit, SubmissionInv, ProbedIsUsed

LEMMA BuildKeeps ==
    ASSUME SubmissionInv, Build
    PROVE  SubmissionInv'
<1>1. /\ probed' = Probed /\ outcome' = "built"
      /\ endpoint' = IF uri # NoUri THEN uri ELSE LoadCredentials.endpoint
      /\ available' => endpoint' # NoUri
      /\ UNCHANGED <<credential, section, uri, job>>
  BY DEF Build
<1>2. Probed \in {NoUri, credential.endpoint, section.endpoint, uri}
  BY DEF Probed
<1>3. ASSUME available', Probed # NoUri, uri \in {NoUri, Probed}
      PROVE  Probed = endpoint'
  <2>1. CASE uri # NoUri
    BY <1>1, <1>3, <2>1
  <2>2. CASE uri = NoUri
    <3>1. endpoint' = LoadCredentials.endpoint /\ endpoint' # NoUri
      BY <1>1, <1>3, <2>2
    <3>2. CASE Probed = credential.endpoint
      <4>1. credential.given
        <5>1. credential # NoRecord
          BY <1>3, <3>2 DEF NoRecord
        <5>2. QED
          BY <5>1 DEF SubmissionInv, Records
      <4>2. QED
        BY <3>1, <3>2, <4>1 DEF LoadCredentials
    <3>3. CASE Probed # credential.endpoint
      <4>1. credential.endpoint = NoUri /\ Probed = section.endpoint
        BY <1>3, <2>2, <3>3 DEF Probed, SubmissionInv, Records, NoRecord, NoUri
      <4>2. QED
        BY <3>1, <4>1 DEF LoadCredentials
    <3>4. QED
      BY <3>2, <3>3
  <2>3. QED
    BY <2>1, <2>2
<1>4. QED
  BY <1>1, <1>3 DEF SubmissionInv, ProbedIsUsed

LEMMA SubmissionStep ==
    ASSUME SubmissionInv, [SubmissionNext]_submissionVars
    PROVE  SubmissionInv' /\ (outcome = "planned" => outcome' # "CreateError")
<1>1. CASE Build
  BY <1>1, BuildKeeps DEF Build
<1>2. ASSUME NEW skip \in BOOLEAN, NEW up \in BOOLEAN, Plan(skip, up)
      PROVE  SubmissionInv' /\ (outcome = "planned" => outcome' # "CreateError")
  BY <1>2 DEF Plan, PlanErrors, SubmissionInv, ProbedIsUsed
<1>3. ASSUME NEW answered \in BOOLEAN, Create(answered)
      PROVE  SubmissionInv' /\ (outcome = "planned" => outcome' # "CreateError")
  BY <1>3 DEF Create, Unusable, SubmissionInv, ProbedIsUsed
<1>4. CASE UNCHANGED submissionVars
  BY <1>4 DEF submissionVars, SubmissionInv, ProbedIsUsed
<1>5. QED
  BY <1>1, <1>2, <1>3, <1>4 DEF SubmissionNext

(* The version that was probed is that of the endpoint the client talks to,  *)
(* and a job that plan accepted is never refused by create, for every        *)
(* endpoint and every combination of credentials (amsc_iri).                 *)
THEOREM ForeseenHoldsAlways == SubmissionSpec => ForeseenHolds
<1>1. SubmissionInv => ProbedIsUsed
  BY DEF SubmissionInv
<1>2. SubmissionInv /\ [SubmissionNext]_submissionVars =>
        SubmissionInv' /\ [outcome = "planned" => outcome' # "CreateError"]_submissionVars
  BY SubmissionStep
<1>3. QED
  BY <1>1, <1>2, SubmissionStart, PTL DEF SubmissionSpec, ForeseenHolds, PlanPredictsCreate

-----------------------------------------------------------------------------
(* KubeService.                                                              *)

ClusterJobs ==
    [owner : {"nobody", "session", "other"}, succeeded : Nat, failed : BOOLEAN, active : BOOLEAN]

KubeTypes ==
    /\ completions \in [KubeJobs -> 1..Completions]
    /\ namespace \in [KubeJobs -> Namespaces]
    /\ submitted \in [KubeJobs -> BOOLEAN]
    /\ cluster \in [Namespaces -> [KubeJobs -> ClusterJobs]]

KubeInv == KubeTypes /\ NamesAreOwn

LEMMA KubeStart == KubeInit => KubeInv
BY DEF KubeInit, KubeInv, KubeTypes, NamesAreOwn, ClusterJobs, Absent

\* The owner of a job stays, whatever its pods do.
LEMMA PodsKeep ==
    ASSUME KubeInv, NEW j \in KubeJobs, NEW ns \in Namespaces,
           NEW object \in ClusterJobs, object.owner = cluster[ns][j].owner,
           cluster' = [cluster EXCEPT ![ns][j] = object],
           UNCHANGED <<namespace, completions, submitted, removed>>
    PROVE  KubeInv'
<1>1. Home \in Namespaces
  BY DEF Home, Namespaces
<1>2. \A k \in KubeJobs : cluster'[Home][k].owner = cluster[Home][k].owner
  BY <1>1 DEF KubeInv, KubeTypes
<1>3. KubeTypes'
  BY DEF KubeInv, KubeTypes
<1> QED BY <1>2, <1>3 DEF KubeInv, NamesAreOwn

LEMMA KubeStep ==
    ASSUME KubeInv, [KubeNext]_kubeVars
    PROVE  KubeInv'
<1>1. Home \in Namespaces
  BY DEF Home, Namespaces
<1>2. ASSUME NEW j \in KubeJobs, NEW answered \in BOOLEAN, KubeCreate(j, answered)
      PROVE  KubeInv'
  <2> DEFINE ns == namespace[j]
             created == ~Exists(ns, j)
  <2>1. /\ namespace' = namespace
        /\ submitted' = [submitted EXCEPT ![j] = @ \/ (created /\ answered)]
        /\ cluster' = IF created THEN [cluster EXCEPT ![ns][j] = NewJob("session")] ELSE cluster
        /\ removed' = IF created THEN removed \ {j} ELSE removed
        /\ completions' = completions
    BY <1>2 DEF KubeCreate, Succeeds
  <2>2. ns \in Namespaces /\ NewJob("session") \in ClusterJobs
    BY DEF KubeInv, KubeTypes, NewJob, ClusterJobs
  <2>3. KubeTypes'
    BY <2>1, <2>2 DEF KubeInv, KubeTypes
  <2>4. CASE created
    <3>1. cluster'[ns][j].owner = "session"
      BY <2>1, <2>2, <2>4 DEF KubeInv, KubeTypes, NewJob
    <3>2. \A k \in KubeJobs \ {j} : /\ cluster'[Home][k] = cluster[Home][k]
                                   /\ submitted'[k] = submitted[k]
                                   /\ k \in removed' <=> k \in removed
      BY <1>1, <2>1, <2>2, <2>4 DEF KubeInv, KubeTypes
    <3> QED BY <2>1, <2>3, <3>1, <3>2 DEF KubeInv, NamesAreOwn
  <2>5. CASE ~created
    <3>1. submitted' = submitted
      BY <2>1, <2>5 DEF KubeInv, KubeTypes
    <3> QED BY <2>1, <2>3, <2>5, <3>1 DEF KubeInv, NamesAreOwn
  <2> QED BY <2>4, <2>5
<1>3. ASSUME NEW j \in KubeJobs, NEW ns \in Namespaces,
             cluster' = [cluster EXCEPT ![ns][j] = Absent], removed' = RemovedWith(ns, j),
             UNCHANGED <<namespace, completions, submitted>>
      PROVE  KubeInv'
  <2> Absent \in ClusterJobs
    BY DEF Absent, ClusterJobs
  <2>1. KubeTypes'
    BY <1>3 DEF KubeInv, KubeTypes
  <2>2. \A k \in KubeJobs \ {j} : cluster'[Home][k] = cluster[Home][k]
    BY <1>1, <1>3 DEF KubeInv, KubeTypes
  <2>3. removed \subseteq removed' /\ (ns = namespace[j] => j \in removed')
    BY <1>3 DEF RemovedWith
  <2>4. ns # Home => cluster'[Home][j] = cluster[Home][j]
    BY <1>1, <1>3 DEF KubeInv, KubeTypes
  <2> QED BY <1>3, <2>1, <2>2, <2>3, <2>4 DEF KubeInv, NamesAreOwn
<1>4. ASSUME NEW j \in KubeJobs, NEW ns \in Namespaces, Foreign(ns, j)
      PROVE  KubeInv'
  <2>1. /\ cluster[ns][j] = Absent /\ cluster' = [cluster EXCEPT ![ns][j] = NewJob("other")]
        /\ UNCHANGED <<namespace, completions, submitted, removed>>
    BY <1>4 DEF Foreign, Exists
  <2> NewJob("other") \in ClusterJobs
    BY DEF NewJob, ClusterJobs
  <2>2. KubeTypes'
    BY <2>1 DEF KubeInv, KubeTypes
  <2>3. \A k \in KubeJobs : k # j \/ ns # Home => cluster'[Home][k] = cluster[Home][k]
    BY <1>1, <2>1 DEF KubeInv, KubeTypes
  <2>4. ns = Home => cluster[Home][j].owner # "session"
    BY <2>1 DEF Absent
  <2> QED BY <2>1, <2>2, <2>3, <2>4 DEF KubeInv, NamesAreOwn
<1>5. ASSUME NEW j \in KubeJobs, NEW ns \in Namespaces, PodSucceeds(ns, j) \/ PodFails(ns, j)
      PROVE  KubeInv'
  <2> DEFINE old == cluster[ns][j]
             n == old.succeeded + 1
  <2>1. old \in ClusterJobs /\ n \in Nat /\ completions[j] \in Nat
    BY CompletionsAssumption DEF KubeInv, KubeTypes, ClusterJobs
  <2>2. UNCHANGED <<namespace, completions, submitted, removed>>
    BY <1>5 DEF PodSucceeds, PodFails
  <2>3. CASE PodSucceeds(ns, j)
    <3> DEFINE more == n < completions[j]
    <3>1. cluster' = [cluster EXCEPT ![ns][j].succeeded = n, ![ns][j].active = more]
      BY <2>3 DEF PodSucceeds
    <3>2. more \in BOOLEAN
      OBVIOUS
    <3> HIDE DEF more
    <3> DEFINE object == [old EXCEPT !.succeeded = n, !.active = more]
    <3>3. cluster' = [cluster EXCEPT ![ns][j] = object]
      BY <2>1, <3>1 DEF KubeInv, KubeTypes, ClusterJobs
    <3>4. object \in ClusterJobs /\ object.owner = old.owner
      BY <2>1, <3>2 DEF ClusterJobs
    <3> QED BY <2>2, <3>3, <3>4, PodsKeep
  <2>4. CASE PodFails(ns, j)
    <3>1. PICK again \in BOOLEAN :
            cluster' = [cluster EXCEPT ![ns][j].failed = TRUE, ![ns][j].active = again]
      BY <2>4 DEF PodFails
    <3> DEFINE object == [old EXCEPT !.failed = TRUE, !.active = again]
    <3>2. cluster' = [cluster EXCEPT ![ns][j] = object]
      BY <2>1, <3>1 DEF KubeInv, KubeTypes, ClusterJobs
    <3>3. object \in ClusterJobs /\ object.owner = old.owner
      BY <2>1 DEF ClusterJobs
    <3> QED BY <2>2, <3>2, <3>3, PodsKeep
  <2> QED BY <1>5, <2>3, <2>4
<1>6. ASSUME NEW j \in KubeJobs, NEW answered \in BOOLEAN, KubeDestroy(j, answered)
      PROVE  KubeInv'
  BY <1>1, <1>3, <1>6 DEF KubeDestroy
<1>7. ASSUME NEW j \in KubeJobs, NEW ns \in Namespaces, TtlExpires(ns, j)
      PROVE  KubeInv'
  BY <1>3, <1>7 DEF TtlExpires
<1>8. ASSUME UNCHANGED <<namespace, completions, cluster, submitted, removed>> PROVE KubeInv'
  BY <1>8 DEF KubeInv, KubeTypes, NamesAreOwn
<1>9. CASE \E j \in KubeJobs : KubeStatus(j)
  BY <1>8, <1>9 DEF KubeStatus
<1>10. CASE UNCHANGED kubeVars
  BY <1>8, <1>10 DEF kubeVars
<1> QED BY <1>2, <1>4, <1>5, <1>6, <1>7, <1>9, <1>10 DEF KubeNext

(* A job that was submitted to the client's namespace, and whose object was  *)
(* not removed since, is the session's own under its name, whoever else      *)
(* creates jobs and whichever answers are lost (kube_service_client.py), for *)
(* any number of names.                                                      *)
THEOREM NamesAreOwnHolds == KubeSpec => []NamesAreOwn
<1>1. KubeInv => NamesAreOwn
  BY DEF KubeInv
<1> QED BY <1>1, KubeStart, KubeStep, PTL DEF KubeSpec

-----------------------------------------------------------------------------
(* Gateway.                                                                  *)

\* An entry on disk was advertised no longer ago than it is old.
GatewayInv ==
    /\ advertised \in Docs
    /\ ready \in Docs
    /\ entry \in [doc : Docs, age : Ages]
    /\ shown \in [Docs -> Ages]
    /\ shown[advertised] = 0
    /\ entry.doc # NoDoc => shown[entry.doc] <= entry.age

LEMMA GatewayStart == GatewayInit => GatewayInv /\ ChildrenDistinct
<1> SUFFICES ASSUME GatewayInit PROVE GatewayInv /\ ChildrenDistinct
  OBVIOUS
<1>1. Forever \in Ages /\ 0 \in Ages /\ NoDoc \in Docs
  BY GatewayAssumption DEF Forever, Ages, NoDoc, Docs
<1>2. GatewayInv
  BY <1>1 DEF GatewayInit, GatewayInv
<1>3. ChildrenDistinct
  BY DEF GatewayInit, ChildrenDistinct, Selected, NoDoc
<1>4. QED
  BY <1>2, <1>3

\* What a process reads, and leaves on disk, was advertised lately enough.
LEMMA FetchedIsRecent ==
    ASSUME GatewayInv, NEW force \in BOOLEAN, NEW answered \in BOOLEAN
    PROVE  /\ Fetched(force, answered) \in Docs
           /\ EntryAfter(force, answered) \in [doc : Docs, age : Ages]
           /\ EntryAfter(force, answered).doc # NoDoc =>
                shown[EntryAfter(force, answered).doc] <= EntryAfter(force, answered).age
           /\ answered => shown[Fetched(force, answered)] <= Ttl
<1>1. 0 \in Ages /\ 0 <= Ttl
  BY GatewayAssumption DEF Ages, Forever
<1>2. CASE FromCache(force)
  <2>1. entry.doc # NoDoc /\ entry.age <= Ttl /\ shown[entry.doc] <= entry.age
    BY <1>2 DEF FromCache, Fresh, GatewayInv
  <2>2. entry.age \in Int /\ shown[entry.doc] \in Int /\ Ttl \in Int
    BY GatewayAssumption DEF GatewayInv, Ages, Forever
  <2>3. Fetched(force, answered) = entry.doc /\ EntryAfter(force, answered) = entry
    BY <1>2 DEF Fetched, EntryAfter
  <2>4. QED
    BY <2>1, <2>2, <2>3 DEF GatewayInv
<1>3. CASE ~FromCache(force)
  BY <1>1, <1>3 DEF Fetched, EntryAfter, GatewayInv
<1>4. QED
  BY <1>2, <1>3

\* The names of the children differ, whoever shares a shorthand.
LEMMA NamesDiffer ==
    ASSUME NEW peers \in SUBSET Facilities, NEW f \in peers, NEW g \in peers,
           ChildName(f, peers) = ChildName(g, peers)
    PROVE  f = g
BY DEF ChildName, Shorthand, Site

LEMMA ChildIsNamed ==
    ASSUME NEW peers \in SUBSET Facilities, NEW broken, NEW f \in peers \ broken
    PROVE  /\ ChildName(f, peers) \in Names
           /\ ChildName(f, peers)[1] = "rig"
           /\ Children(peers, broken)[ChildName(f, peers)] = f
<1>1. ChildName(f, peers) \in Names /\ ChildName(f, peers)[1] = "rig"
  BY DEF ChildName, Names, Shorthand
<1> DEFINE n == ChildName(f, peers)
           S == {g \in peers \ broken : ChildName(g, peers) = n}
<1>2. S = {f}
  BY NamesDiffer
<1>3. Pick(S) = f
  BY <1>2 DEF Pick
<1>4. QED
  BY <1>1, <1>3 DEF Children

LEMMA StartGivesClients ==
    ASSUME GatewayInv, NEW answered \in BOOLEAN, NEW offered \in Listings, Start(answered, offered)
    PROVE  ChildrenDistinct'
<1> DEFINE peers == Selected(ready)'
           children == Children(peers, unbuilt')
<1>1. peers \in SUBSET Facilities /\ taken' = taken
  BY FetchedIsRecent DEF Start, Selected, Docs
<1>2. PICK first \in offered \cup {Nobody} :
        clients' = Discovered(Expanded(Direct, children), offered, first)
  BY DEF Start, Selected
<1> HIDE DEF peers
<1>3. ASSUME NEW f \in peers \ unbuilt'
      PROVE  LET n == ChildName(f, peers) IN
                clients'[n] = f \/ (n \in taken' /\ clients'[n] = Own)
  <2> DEFINE n == ChildName(f, peers)
             given == IF n \in taken THEN Own ELSE f
  <2>1. n \in Names /\ n[1] = "rig" /\ children[n] = f
    BY <1>1, <1>3, ChildIsNamed
  <2> HIDE DEF n, children
  <2>2. Direct[n] = IF n \in taken THEN Own ELSE Nobody
    BY <2>1 DEF Direct
  <2>3. Expanded(Direct, children)[n] = given
    BY <2>1, <2>2 DEF Expanded, Own, Nobody
  <2>4. given # Nobody
    BY <1>1, <1>3, GatewayAssumption DEF Own, Nobody
  <2>5. clients'[n] = given
    BY <1>2, <2>1, <2>3, <2>4 DEF Discovered
  <2>6. QED
    BY <1>1, <2>5 DEF n
<1>4. QED
  BY <1>3 DEF ChildrenDistinct, peers, Selected

LEMMA RefreshGivesClients ==
    ASSUME GatewayInv, NEW answered \in BOOLEAN, Refresh(answered)
    PROVE  ChildrenDistinct'
<1> DEFINE peers == Selected(ready)'
           children == Children(peers, unbuilt')
<1>1. peers \in SUBSET Facilities
  BY FetchedIsRecent DEF Refresh, Selected, Docs
<1>2. clients' = [n \in Names |-> IF children[n] # Nobody THEN children[n] ELSE clients[n]]
  BY DEF Refresh, Selected
<1> HIDE DEF peers
<1>3. ASSUME NEW f \in peers \ unbuilt'
      PROVE  clients'[ChildName(f, peers)] = f
  <2>1. ChildName(f, peers) \in Names /\ children[ChildName(f, peers)] = f
    BY <1>1, <1>3, ChildIsNamed
  <2>2. f # Nobody
    BY <1>1, <1>3, GatewayAssumption DEF Nobody
  <2> HIDE DEF children
  <2>3. QED
    BY <1>2, <2>1, <2>2
<1>4. QED
  BY <1>3 DEF ChildrenDistinct, peers, Selected

LEMMA GatewayStep ==
    ASSUME GatewayInv, ChildrenDistinct, [GatewayNext]_gatewayVars
    PROVE  GatewayInv' /\ ChildrenDistinct'
<1>1. ASSUME NEW answered \in BOOLEAN, NEW offered \in Listings, Start(answered, offered)
      PROVE  GatewayInv' /\ ChildrenDistinct'
  <2>1. GatewayInv'
    BY <1>1, FetchedIsRecent DEF Start, GatewayInv
  <2>2. QED
    BY <1>1, <2>1, StartGivesClients
<1>2. ASSUME NEW answered \in BOOLEAN, Refresh(answered)
      PROVE  GatewayInv' /\ ChildrenDistinct'
  <2>1. GatewayInv'
    BY <1>2, FetchedIsRecent DEF Refresh, GatewayInv
  <2>2. QED
    BY <1>2, <2>1, RefreshGivesClients
<1>3. CASE ClearReady
  <2>1. NoDoc \in Docs /\ Forever \in Ages
    BY GatewayAssumption DEF NoDoc, Docs, Forever, Ages
  <2>2. GatewayInv'
    BY <1>3, <2>1 DEF ClearReady, GatewayInv
  <2>3. QED
    BY <1>3, <2>2 DEF ClearReady, ChildrenDistinct, Selected
<1>4. ASSUME NEW d \in Docs \ {NoDoc}, Advertise(d)
      PROVE  GatewayInv' /\ ChildrenDistinct'
  <2>1. 0 \in Ages /\ \A age \in Ages : 0 <= age
    BY GatewayAssumption DEF Forever, Ages
  <2>2. GatewayInv'
    BY <1>4, <2>1 DEF Advertise, GatewayInv
  <2>3. QED
    BY <1>4, <2>2 DEF Advertise, ChildrenDistinct, Selected
<1>5. CASE Aging
  <2>1. /\ 0 \in Ages /\ \A age \in Ages : Older(age) \in Ages /\ 0 <= Older(age)
        /\ \A age, other \in Ages : age <= other => Older(age) <= Older(other)
    BY GatewayAssumption DEF Forever, Ages, Older
  <2>2. /\ entry' \in [doc : Docs, age : Ages]
        /\ entry'.doc = entry.doc /\ entry'.age = Older(entry.age)
    BY <1>5, <2>1 DEF Aging, GatewayInv
  <2>3. /\ shown' \in [Docs -> Ages] /\ shown'[advertised] = 0
        /\ \A d \in Docs : shown'[d] = 0 \/ shown'[d] = Older(shown[d])
    BY <1>5, <2>1 DEF Aging, GatewayInv
  <2>4. entry'.doc # NoDoc => shown'[entry'.doc] <= entry'.age
    <3>1. entry.doc \in Docs /\ entry.age \in Ages /\ shown[entry.doc] \in Ages
      BY DEF GatewayInv
    <3>2. QED
      BY <2>1, <2>2, <2>3, <3>1 DEF GatewayInv
  <2>5. GatewayInv'
    BY <1>5, <2>2, <2>3, <2>4 DEF Aging, GatewayInv
  <2>6. QED
    BY <1>5, <2>5 DEF Aging, ChildrenDistinct, Selected
<1>6. CASE UNCHANGED gatewayVars
  BY <1>6 DEF gatewayVars, GatewayInv, ChildrenDistinct, Selected
<1>7. QED
  BY <1>1, <1>2, <1>3, <1>4, <1>5, <1>6 DEF GatewayNext

(* Every facility that the gateway advertises and the filters let through    *)
(* has a client of its own, whichever others cannot be built and unless its  *)
(* name was configured for another one, and a process whose gateway answers  *)
(* starts with a document advertised within the ttl, for any facilities,     *)
(* enclaves and ttl (client.py, rig_service_client.py, ready_prober.py).     *)
THEOREM GatewayIsFollowedHolds == GatewaySpec => GatewayIsFollowed
<1>1. GatewayInv /\ ChildrenDistinct /\ [GatewayNext]_gatewayVars =>
        GatewayInv' /\ ChildrenDistinct'
  BY GatewayStep
<1>2. GatewayInv /\ [GatewayNext]_gatewayVars =>
        [shown[ready'] > Ttl => \A offered \in Listings : ~Start(TRUE, offered)]_gatewayVars
  <2> SUFFICES ASSUME GatewayInv, NEW offered \in Listings, Start(TRUE, offered)
               PROVE  ~(shown[ready'] > Ttl)
    OBVIOUS
  <2>1. shown[ready'] \in Ages /\ shown[ready'] <= Ttl
    BY FetchedIsRecent DEF Start, GatewayInv
  <2>2. QED
    BY <2>1, GatewayAssumption DEF Ages, Forever
<1>3. QED
  BY <1>1, <1>2, GatewayStart, PTL DEF GatewaySpec, GatewayIsFollowed, StartSeesRecent

-----------------------------------------------------------------------------
(* Capabilities.                                                             *)

\* What normalization makes of a discovery.
Normalized ==
    [compute |-> ResourceLink(compute), source |-> Strategy(compute),
     allocation |-> ProjectLink(allocation)]

CapabilityInv ==
    /\ caps \in [1..2 -> [id : Words, name : Refs, uri : Refs]]
    /\ facility \in {Nothing, Normalized}

\* Where no token stands for two capabilities, one that stands for any is an
\* alias of that one, and of no other, and so is its name.
LEMMA OneMeant ==
    ASSUME CapabilityInv, Unambiguous, NEW w
    PROVE  /\ \A k \in Meant(w) : Meant(w) = {k} /\ Alias(w) = k /\ k # Unlinked
           /\ Meant(w) = {} => Alias(w) = Unlinked
           /\ Name(w) # Unlinked => Meant(w) = {Name(w)}
<1>1. Named \subseteq {1, 2}
  BY DEF Named, CapabilityInv
<1>2. \A k \in Named : Least({k}) = k /\ Greatest({k}) = k
  BY <1>1 DEF Least, Greatest
<1>3. \A j, k \in Meant(w) : j = k
  BY <1>1 DEF Meant, Unambiguous
<1>4. \A k \in Meant(w) : Meant(w) = {k}
  BY <1>3
<1>5. Alias(w) = IF Meant(w) = {} THEN Unlinked ELSE Least(Meant(w))
  BY DEF Alias, Meant
<1>6. \A k \in Meant(w) : Alias(w) = k /\ k # Unlinked
  <2>1. TAKE k \in Meant(w)
  <2>2. k \in Named
    BY DEF Meant
  <2>3. QED
    BY <1>1, <1>2, <1>4, <1>5, <2>2 DEF Unlinked
<1>7. Name(w) # Unlinked => Meant(w) = {Name(w)}
  <2> DEFINE S == {k \in Named : caps[k].name = w}
  <2>1. \A k \in S : k \in Meant(w)
    BY DEF Meant, Named, Forms
  <2>2. ASSUME S # {} PROVE Meant(w) = {Greatest(S)}
    <3>1. PICK k \in S : TRUE
      BY <2>2
    <3>2. S = {k} /\ Meant(w) = {k} /\ k \in Named
      BY <1>4, <2>1, <3>1
    <3>3. QED
      BY <1>2, <3>2
  <2>3. QED
    BY <2>2 DEF Name
<1>8. QED
  BY <1>4, <1>5, <1>6, <1>7

LEMMA NormalizedAgrees ==
    ASSUME CapabilityInv
    PROVE  LinksAgree
<1>1. SUFFICES ASSUME facility.source # "none", Unambiguous
               PROVE  facility.compute = facility.allocation
                        <=> \/ Reference(compute) = allocation
                            \/ Meant(Reference(compute)) \cap Meant(allocation) # {}
  BY DEF LinksAgree
<1>2. facility = Normalized
  BY <1>1 DEF CapabilityInv, Nothing
<1>3. /\ facility.compute = Resolve(compute) /\ facility.source = Strategy(compute)
      /\ facility.allocation = Canonical(allocation)
  BY <1>2 DEF Normalized, ResourceLink, ProjectLink
<1> DEFINE word == Reference(compute)
<1>4. word # NoWord /\ facility.compute = Canonical(word)
  <2>1. CASE compute.declared # NoWord
    BY <1>3, <2>1 DEF Reference, Resolve, Strategy
  <2>2. CASE compute.declared = NoWord
    <3>1. /\ Strategy(compute) \in {"resource_name", "resource_group"}
          /\ Name(word) # Unlinked /\ facility.compute = <<Name(word), NoWord>>
      BY <1>1, <1>3, <2>2 DEF Reference, Resolve, Strategy
    <3>2. word # NoWord
      BY <3>1 DEF Name, Named
    <3>3. Alias(word) = Name(word)
      BY <1>1, <3>1, OneMeant
    <3>4. QED
      BY <3>1, <3>2, <3>3 DEF Canonical
  <2>3. QED
    BY <2>1, <2>2
<1> HIDE DEF word
<1>5. Canonical(word) = Canonical(allocation)
        <=> word = allocation \/ Meant(word) \cap Meant(allocation) # {}
  <2>1. CASE Meant(word) = {} /\ Meant(allocation) = {}
    BY <1>1, <2>1, OneMeant DEF Canonical
  <2>2. CASE Meant(word) # {} \/ Meant(allocation) # {}
    BY <1>1, <1>4, <2>2, OneMeant DEF Canonical
  <2>3. QED
    BY <2>1, <2>2
<1>6. QED
  BY <1>3, <1>4, <1>5 DEF word

(* A resource and an allocation are linked to one capability exactly if they *)
(* refer to one, each in its own way, for any words (iri_service_client.py). *)
THEOREM LinksAgreeHolds == CapabilitiesSpec => []LinksAgree
<1>1. CapabilitiesInit => CapabilityInv
  BY DEF CapabilitiesInit, CapabilityInv
<1>2. CapabilityInv /\ [CapabilitiesNext]_capabilityVars => CapabilityInv'
  <2> SUFFICES ASSUME CapabilityInv, [CapabilitiesNext]_capabilityVars PROVE CapabilityInv'
    OBVIOUS
  <2>1. CASE Normalize
    <3>1. UNCHANGED <<caps, compute, allocation>> /\ facility' = Normalized
      BY <2>1 DEF Normalize, Normalized
    <3>2. Normalized' = Normalized
      BY <3>1 DEF Normalized, ResourceLink, ProjectLink, Strategy, Resolve, Canonical, Alias, Name,
         Named, Forms
    <3>3. QED
      BY <3>1, <3>2 DEF CapabilityInv
  <2>2. CASE UNCHANGED capabilityVars
    <3>1. Normalized' = Normalized
      BY <2>2 DEF capabilityVars, Normalized, ResourceLink, ProjectLink, Strategy, Resolve,
         Canonical, Alias, Name, Named, Forms
    <3>2. QED
      BY <2>2, <3>1 DEF capabilityVars, CapabilityInv
  <2>3. QED
    BY <2>1, <2>2 DEF CapabilitiesNext
<1>3. QED
  BY <1>1, <1>2, NormalizedAgrees, PTL DEF CapabilitiesSpec

-----------------------------------------------------------------------------
(* Outputs: the storage that is chosen.                                      *)

OutputTypes ==
    /\ \E n \in Nat : storages \in [1..n -> [home : BOOLEAN, health : Healths]]
    /\ localVersion = [s \in Streams |-> localVersion[s]]

\* Every set of naturals has a least member.
LEMMA LeastIsThere ==
    ASSUME NEW S \in SUBSET Nat, S # {}
    PROVE  Min(S) \in S /\ \A k \in S : Min(S) <= k
<1> DEFINE R == OpToRel(<, Nat)
<1>1. IsWellFoundedOn(R, Nat)
  BY NatLessThanWellFounded
<1>2. R = {pair \in Nat \X Nat : pair[1] < pair[2]}
  BY DEF OpToRel
<1> HIDE DEF R
<1>3. PICK m \in S : \A k \in S : ~ (<<k, m>> \in R)
  BY <1>1, WFMin
<1>4. \A k \in S : ~(k < m)
  BY <1>2, <1>3
<1>5. \A k \in S : m <= k
  BY <1>4
<1> QED BY <1>5 DEF Min

LEMMA FirstIsBest ==
    ASSUME OutputTypes, NEW S \in SUBSET Available, S # {}
    PROVE  /\ FirstOf(S) \in S
           /\ storages[FirstOf(S)].health = "up" \/ \A k \in S : storages[k].health # "up"
<1> DEFINE up == {k \in S : storages[k].health = "up"}
<1>1. S \in SUBSET Nat /\ up \in SUBSET Nat
  <2>1. DOMAIN storages \subseteq Nat
    BY DEF OutputTypes
  <2> QED BY <2>1 DEF Available
<1>2. CASE up # {}
  BY <1>1, <1>2, LeastIsThere DEF FirstOf
<1>3. CASE up = {}
  BY <1>1, <1>3, LeastIsThere DEF FirstOf
<1> QED BY <1>2, <1>3

LEMMA ChosenIsBest ==
    ASSUME OutputTypes
    PROVE  IF StorageResource(TRUE) = NoStorage
           THEN \A k \in DOMAIN storages : storages[k].health = "down"
           ELSE \A k \in DOMAIN storages : ~Better(storages[k], storages[StorageResource(TRUE)])
<1>1. /\ Available \subseteq DOMAIN storages /\ NoStorage \notin DOMAIN storages
      /\ \A k \in DOMAIN storages : storages[k].home \in BOOLEAN /\ storages[k].health \in Healths
  BY DEF OutputTypes, Available, NoStorage
<1>2. CASE Homes # {}
  <2> DEFINE k == FirstOf(Homes)
  <2>1. k \in Homes /\ (storages[k].health = "up" \/ \A h \in Homes : storages[h].health # "up")
    BY <1>2, FirstIsBest DEF Homes
  <2>2. StorageResource(TRUE) = k
    BY <1>2 DEF StorageResource
  <2>3. k \in DOMAIN storages /\ storages[k].home /\ storages[k].health # "down"
    BY <1>1, <2>1 DEF Homes, Available
  <2>4. \A j \in DOMAIN storages : ~Better(storages[j], storages[k])
    BY <1>1, <2>1, <2>3 DEF Better, Homes, Available, Healths
  <2> QED BY <1>1, <2>2, <2>3, <2>4
<1>3. CASE Homes = {} /\ Available # {}
  <2> DEFINE k == FirstOf(Available)
  <2>1. /\ k \in Available
        /\ storages[k].health = "up" \/ \A h \in Available : storages[h].health # "up"
    BY <1>3, FirstIsBest
  <2>2. StorageResource(TRUE) = k
    BY <1>3 DEF StorageResource
  <2>3. k \in DOMAIN storages /\ storages[k].health # "down"
    BY <1>1, <2>1 DEF Available
  <2>4. \A j \in DOMAIN storages : ~Better(storages[j], storages[k])
    BY <1>1, <1>3, <2>1, <2>3 DEF Better, Homes, Available, Healths
  <2> QED BY <1>1, <2>2, <2>3, <2>4
<1>4. CASE Homes = {} /\ Available = {}
  <2>1. StorageResource(TRUE) = NoStorage
    BY <1>4 DEF StorageResource
  <2> QED BY <1>4, <2>1 DEF Available
<1> QED BY <1>2, <1>3, <1>4

(* No storage is better than the one from which the output of a job is       *)
(* fetched: a home goes before any other, and of two that are alike in this  *)
(* the one that is up; without one the facility did not answer or all are    *)
(* down, and what was fetched before stays                                   *)
(* (amsc_iri/iri_service_client.py), for any list of storages and any order  *)
(* of calls and changes of their health.                                     *)
THEOREM BestChosenHolds == OutputsSpec => BestChosen
<1>1. OutputsInit => OutputTypes
  <2> SUFFICES ASSUME OutputsInit PROVE OutputTypes
    OBVIOUS
  <2>1. PICK n \in 0..2 : storages \in [1..n -> [home : BOOLEAN, health : Healths]]
    BY DEF OutputsInit
  <2>2. n \in Nat /\ localVersion = [s \in Streams |-> localVersion[s]]
    BY DEF OutputsInit
  <2> QED BY <2>1, <2>2 DEF OutputTypes
<1>2. OutputTypes /\ [OutputsNext]_outputVars => OutputTypes'
  <2> SUFFICES ASSUME OutputTypes, [OutputsNext]_outputVars PROVE OutputTypes'
    OBVIOUS
  <2>1. CASE UNCHANGED <<storages, localVersion>>
    BY <2>1 DEF OutputTypes
  <2>2. ASSUME NEW k \in DOMAIN storages, NEW h \in Healths, ChangeHealth(k, h)
        PROVE  OutputTypes'
    BY <2>2 DEF ChangeHealth, OutputTypes
  <2>3. ASSUME NEW failing \in SUBSET Streams, NEW answered \in BOOLEAN,
               FetchOutputFiles(failing, answered)
        PROVE  OutputTypes'
    BY <2>3 DEF FetchOutputFiles, OutputTypes
  <2> QED BY <2>1, <2>2, <2>3 DEF OutputsNext, Write, outputVars
<1> DEFINE Fetch ==
        fetches' # fetches /\ resourceId =>
            IF chosen' = NoStorage
            THEN /\ ~listed' \/ \A k \in DOMAIN storages : storages[k].health = "down"
                 /\ UNCHANGED <<localFiles, localVersion>>
            ELSE \A k \in DOMAIN storages : ~Better(storages[k], storages[chosen'])
<1>3. OutputTypes /\ [OutputsNext]_outputVars => [Fetch]_outputVars
  <2> SUFFICES ASSUME OutputTypes, OutputsNext, fetches' # fetches, resourceId
               PROVE  Fetch
    BY DEF outputVars
  <2>1. PICK failing \in SUBSET Streams, answered \in BOOLEAN :
            FetchOutputFiles(failing, answered)
    BY DEF OutputsNext, Write, ChangeHealth
  <2>2. chosen' = StorageResource(answered) /\ listed' = answered
    BY <2>1 DEF FetchOutputFiles
  <2>3. chosen' = NoStorage => UNCHANGED <<localFiles, localVersion>>
    BY <2>1 DEF FetchOutputFiles, OutputTypes
  <2>4. CASE answered
    BY <2>2, <2>3, <2>4, ChosenIsBest
  <2>5. CASE ~answered
    BY <2>2, <2>3, <2>5 DEF StorageResource
  <2> QED BY <2>4, <2>5
<1> QED BY <1>1, <1>2, <1>3, PTL DEF OutputsSpec, BestChosen
=============================================================================
