---------------------------- MODULE KubeService -----------------------------
(* The Kubernetes service client.  Jobs of the cluster are known by their     *)
(* namespace and name alone, and other users of the cluster create jobs too.  *)
EXTENDS Integers, FiniteSets

CONSTANTS KubeJobs,     \* the names of the session's jobs
          Completions   \* the largest number of completions of a job

ASSUME CompletionsAssumption == Completions \in Nat \ {0}

Namespaces == {"default", "team"}
Home == "default"                   \* namespace of the client
Absent == [owner |-> "nobody", succeeded |-> 0, failed |-> FALSE, active |-> FALSE]

VARIABLES namespace,    \* attributes["namespace"] of each job, Home without it
          completions,  \* attributes["completions"]
          cluster,      \* the jobs of the cluster
          submitted,    \* job.id is set
          clientStatus, \* _status, one for all the jobs of the client
          kubeStatus,   \* the last state status reported
          removed       \* ghost: jobs whose object was removed since it was created

kubeVars == <<namespace, completions, cluster, submitted, clientStatus, kubeStatus, removed>>

KubeInit ==
    /\ namespace \in [KubeJobs -> Namespaces]
    /\ completions \in [KubeJobs -> 1..Completions]
    /\ cluster = [ns \in Namespaces |-> [j \in KubeJobs |-> Absent]]
    /\ submitted = [j \in KubeJobs |-> FALSE]
    /\ clientStatus = "INIT"
    /\ kubeStatus = [j \in KubeJobs |-> "UNKNOWN"]
    /\ removed = {}

Exists(ns, j) == cluster[ns][j] # Absent
NewJob(who) == [owner |-> who, succeeded |-> 0, failed |-> FALSE, active |-> TRUE]

\* Mutant of Succeeds: a job of that name is taken for the one to create.
SucceedsByName(created, answered) == answered

(* _create_job_object and create.  AlreadyExists becomes a CreateError, and   *)
(* so does an answer that is lost after the job was created.                  *)
Succeeds(created, answered) == created /\ answered
KubeCreate(j, answered) ==
    LET created == ~Exists(namespace[j], j)
        ok == Succeeds(created, answered) IN
    /\ cluster' = IF created THEN [cluster EXCEPT ![namespace[j]][j] = NewJob("session")]
                  ELSE cluster
    /\ submitted' = [submitted EXCEPT ![j] = @ \/ ok]
    /\ clientStatus' = IF ok THEN "ACTIVE" ELSE clientStatus
    /\ removed' = IF created THEN removed \ {j} ELSE removed
    /\ UNCHANGED <<namespace, completions, kubeStatus>>

(* The session's own job of name j goes when its namespace loses that name.   *)
RemovedWith(ns, j) == IF ns = namespace[j] THEN removed \cup {j} ELSE removed

(* destroy looks in the namespace of the client, whatever that of the job, and *)
(* raises when the answer is lost.                                            *)
KubeDestroy(j, answered) ==
    /\ Exists(Home, j)
    /\ cluster' = [cluster EXCEPT ![Home][j] = Absent]
    /\ clientStatus' = IF answered THEN "CANCELED" ELSE clientStatus
    /\ removed' = RemovedWith(Home, j)
    /\ UNCHANGED <<namespace, completions, submitted, kubeStatus>>

(* status: counts of pods, the first that is not zero.                        *)
Read(job) ==
    CASE job.succeeded > 0 -> "COMPLETED"
      [] job.succeeded = 0 /\ job.failed -> "FAILED"
      [] job.succeeded = 0 /\ ~job.failed /\ job.active -> "ACTIVE"
      [] OTHER -> "UNKNOWN"
Gone == IF clientStatus = "CANCELED" THEN "CANCELED" ELSE "UNKNOWN"
KubeStatus(j) ==
    /\ \E state \in {IF Exists(Home, j) THEN Read(cluster[Home][j]) ELSE Gone, "UNKNOWN"} :
        kubeStatus' = [kubeStatus EXCEPT ![j] = state]     \* UNKNOWN: any other error
    /\ UNCHANGED <<namespace, completions, cluster, submitted, clientStatus, removed>>

(* The cluster: another user's job, a pod that succeeds, a pod that fails and *)
(* is retried or was the last try, and the removal of a finished job.         *)
Foreign(ns, j) ==
    /\ ~Exists(ns, j)
    /\ cluster' = [cluster EXCEPT ![ns][j] = NewJob("other")]
    /\ UNCHANGED <<namespace, completions, submitted, clientStatus, kubeStatus, removed>>
Running(ns, j) == Exists(ns, j) /\ cluster[ns][j].active
PodSucceeds(ns, j) ==
    /\ Running(ns, j)
    /\ LET n == cluster[ns][j].succeeded + 1 IN
        cluster' = [cluster EXCEPT ![ns][j].succeeded = n, ![ns][j].active = n < completions[j]]
    /\ UNCHANGED <<namespace, completions, submitted, clientStatus, kubeStatus, removed>>
PodFails(ns, j) ==
    /\ Running(ns, j)
    /\ \E again \in BOOLEAN :
        cluster' = [cluster EXCEPT ![ns][j].failed = TRUE, ![ns][j].active = again]
    /\ UNCHANGED <<namespace, completions, submitted, clientStatus, kubeStatus, removed>>
TtlExpires(ns, j) ==
    /\ Exists(ns, j) /\ ~cluster[ns][j].active
    /\ cluster' = [cluster EXCEPT ![ns][j] = Absent]
    /\ removed' = RemovedWith(ns, j)
    /\ UNCHANGED <<namespace, completions, submitted, clientStatus, kubeStatus>>

KubeNext ==
    \E j \in KubeJobs :
        \/ KubeStatus(j)
        \/ \E answered \in BOOLEAN : KubeCreate(j, answered) \/ KubeDestroy(j, answered)
        \/ \E ns \in Namespaces :
            Foreign(ns, j) \/ PodSucceeds(ns, j) \/ PodFails(ns, j) \/ TtlExpires(ns, j)

KubeSpec == KubeInit /\ [][KubeNext]_kubeVars

-----------------------------------------------------------------------------
(* A job that was submitted to the namespace of the client is the session's  *)
(* own wherever its name is looked up, until its object is removed: status   *)
(* does not report, and destroy does not remove, the job another user has    *)
(* created under the same name before, in between or after a lost answer.    *)
NamesAreOwn ==
    \A j \in KubeJobs :
        submitted[j] /\ namespace[j] = Home /\ j \notin removed =>
            cluster[Home][j].owner = "session"
=============================================================================
