------------------------------ MODULE Facility ------------------------------
(* The high-level facility client: FacilityClient, its Job and Filesystem    *)
(* wrappers, and the IRI service client under them.  A token of the facility *)
(* is a number; the facility accepts only the newest one.  A service client  *)
(* carries the token it was built with, 0 being the empty string.            *)
EXTENDS Integers, Sequences, FiniteSets

CONSTANTS Jobs,          \* the submissions made through the client
          Volumes,       \* the resources whose .fs is used
          MaxRotations,  \* bound on the tokens the facility goes through
          MaxFaults,     \* bound on failed or lost answers
          MaxPolls       \* the rounds after which Job.wait times out

VARIABLES server,        \* the token the facility accepts
          hasProvider,   \* a token_provider was given
          client,        \* token of FacilityClient._service_client
          fs,            \* token inside Resource._fs, NoFs before first use
          job,           \* the Job wrappers
          remote,        \* the jobs launched at the facility by each submission
          task,          \* result of the last filesystem operation
          faults,        \* faults spent
          raised,        \* why the last call through _call_api raised
          refused,       \* refusals of the service client's own token since the
                         \* last rotation
          spurned        \* the volumes refused for the token in their Resource._fs

facilityVars == <<server, hasProvider, client, fs, job, remote, task, faults, raised, refused,
                  spurned>>

NoFs == -1
Terminal == {"COMPLETED", "FAILED", "CANCELED"}
Phases == {"new", "held", "waiting", "ended", "timedout"}

FacilityInit ==
    /\ server = 1
    /\ hasProvider \in BOOLEAN
    /\ client \in IF hasProvider THEN {0, 1} ELSE {1}
    /\ fs = [v \in Volumes |-> NoFs]
    /\ job = [j \in Jobs |-> [phase |-> "new", id |-> 0, state |-> "NEW",
                              polls |-> 0, historical |-> FALSE]]
    /\ remote = [j \in Jobs |-> <<>>]
    /\ task = [v \in Volumes |-> "none"]
    /\ faults = 0
    /\ raised = "none"
    /\ refused = 0
    /\ spurned = {}

-----------------------------------------------------------------------------
(* What one request made with token c may do.  "done" tells whether the      *)
(* facility carried it out, "auth" whether the text of the error holds 401,  *)
(* 403 or "unauthorized", which a time stamp in a job's name may do as well. *)
Attempt(c) ==
    CASE c = 0       -> {[ok |-> FALSE, done |-> FALSE, auth |-> FALSE, why |-> "unavailable"]}
      [] c # server /\ c # 0 -> {[ok |-> FALSE, done |-> FALSE, auth |-> TRUE, why |-> "refused"]}
      [] c = server  -> {[ok |-> TRUE, done |-> TRUE, auth |-> FALSE, why |-> "none"]}
                        \cup [ok : {FALSE}, done : BOOLEAN, auth : BOOLEAN, why : {"fault"}]

(* _call_api looks for the operation among the attributes of the old client  *)
(* by identity.  A bound method is made anew by each access, so it is never  *)
(* found and the retry runs the operation of the old client.                 *)
Resolved(c, new) == c

IsAuthError(a) == a.auth
Rebuilds(a) == IsAuthError(a) /\ hasProvider

(* _build_service_client asks the provider only when it replaces a client.   *)
\* Mutant of NewClient: the new client is not kept.
ClientKept(a) == client
NewClient(a) == IF Rebuilds(a) THEN server ELSE client

(* The attempts of one _call_api of an operation bound to token c.           *)
\* Mutant of Calls: the result of the first attempt is not returned.
CallsTwice(c) == {<<a, b>> : a \in Attempt(c), b \in Attempt(c)}
Calls(c) ==
    {<<a>> : a \in {x \in Attempt(c) : ~Rebuilds(x)}} \cup
    {<<a, b>> : a \in {x \in Attempt(c) : Rebuilds(x)}, b \in Attempt(Resolved(c, server))}

Outcome(call) == call[Len(call)]
Faulty(call) == Cardinality({i \in DOMAIN call : call[i].why = "fault"})
Launched(call) == Cardinality({i \in DOMAIN call : call[i].done})

(* The part of a call every operation has in common.                         *)
CallApi(call) ==
    /\ faults + Faulty(call) <= MaxFaults
    /\ faults' = faults + Faulty(call)
    /\ client' = NewClient(call[1])
    /\ raised' = Outcome(call).why

RefusedCap == 2          \* refusals counted; more tell nothing new
WasRefused(call) == Outcome(call).why = "refused"
CountRefused(call, c) ==
    IF WasRefused(call) /\ c = client /\ refused < RefusedCap THEN refused + 1 ELSE refused

-----------------------------------------------------------------------------
(* Resource.submit: the job is planned, then created.  The request is a good *)
(* one and the resource is up, and a plan that cannot find that out only     *)
(* warns.  A caller whose submit raised may submit again.                    *)
Submit(j) ==
    /\ job[j].phase = "new"
    /\ \E call \in Calls(client) :
        /\ CallApi(call)
        /\ remote' = [remote EXCEPT ![j] =
               @ \o [i \in 1..Launched(call) |-> [state |-> "QUEUED", listed |-> TRUE]]]
        /\ job' = IF Outcome(call).ok
                  THEN [job EXCEPT ![j].phase = "held", ![j].id = Len(remote'[j]),
                                   ![j].state = "NEW"]
                  ELSE job
        /\ refused' = CountRefused(call, client)
    /\ UNCHANGED <<server, hasProvider, fs, task, spurned>>

(* IriServiceClient.status: errors are answers, so _call_api never sees them *)
(* and an expired token is not replaced.  A job that left the queue counts   *)
(* as completed.                                                             *)
\* Mutant of StatusAnswers: every error counts as a job that left the queue.
StatusGone(j, historical) == {"COMPLETED"}
StatusAnswers(j, historical) ==
    IF client # server THEN {"UNKNOWN"}
    ELSE LET r == remote[j][job[j].id] IN
         {IF r.listed \/ historical THEN r.state ELSE "COMPLETED"} \cup
         (IF faults < MaxFaults THEN {"UNKNOWN"} ELSE {})

Wait(j) ==
    /\ job[j].phase \in {"held", "timedout"}
    /\ \E historical \in BOOLEAN :
        job' = [job EXCEPT ![j].phase = "waiting", ![j].polls = 0,
                           ![j].historical = historical]
    /\ UNCHANGED <<server, hasProvider, client, fs, remote, task, faults, raised, refused,
                   spurned>>

(* One round of Job.wait: refresh, then return, raise TimeoutError or sleep. *)
Poll(j) ==
    /\ job[j].phase = "waiting"
    /\ \E s \in StatusAnswers(j, job[j].historical) :
        /\ faults' = IF s = "UNKNOWN" /\ client = server THEN faults + 1 ELSE faults
        /\ job' = [job EXCEPT ![j].state = s, ![j].polls = @ + 1,
                              ![j].phase = IF s \in Terminal THEN "ended"
                                           ELSE IF job[j].polls + 1 >= MaxPolls THEN "timedout"
                                           ELSE "waiting"]
    /\ UNCHANGED <<server, hasProvider, client, fs, remote, task, raised, refused, spurned>>

(* Job.cancel: the facility drops the job if it has not finished.            *)
Cancel(j) ==
    /\ job[j].phase \in {"held", "timedout"}
    /\ \E call \in Calls(client) :
        /\ CallApi(call)
        /\ remote' = IF Launched(call) > 0 /\ remote[j][job[j].id].state \notin Terminal
                     THEN [remote EXCEPT ![j][job[j].id].state = "CANCELED"]
                     ELSE remote
        /\ refused' = CountRefused(call, client)
    /\ UNCHANGED <<server, hasProvider, fs, job, task, spurned>>

(* Resource.jobs and Resource.job: a caller that lost the answer to a submit *)
(* finds the job in the list of the resource.  get_jobs turns an error, also *)
(* that of an expired token, into an empty list.                             *)
GetJobs(j, historical) ==
    IF client # server THEN {}
    ELSE {i \in DOMAIN remote[j] : remote[j][i].listed \/ historical}

Adopt(j) ==
    /\ job[j].phase = "new"
    /\ \E historical \in BOOLEAN : \E i \in GetJobs(j, historical) :
        job' = [job EXCEPT ![j].phase = "held", ![j].id = i, ![j].state = remote[j][i].state]
    /\ UNCHANGED <<server, hasProvider, client, fs, remote, task, faults, raised, refused,
                   spurned>>

(* Resource.fs: the resource keeps the filesystem object of the service      *)
(* client it first saw, and with it that client's token, also when the       *)
(* facility client has replaced its own.  A resource asked for anew, which   *)
(* takes no request once the facility was discovered, keeps none yet.        *)
FsToken(v) == IF fs[v] = NoFs THEN client ELSE fs[v]

(* Task: an operation that raised is a failed task, not an exception.        *)
TaskState(call) == IF Outcome(call).ok THEN "completed" ELSE "failed"

(* FilesystemClient._run, behind every operation on files.                   *)
FsOp(v) ==
    /\ fs' = [fs EXCEPT ![v] = FsToken(v)]
    /\ \E call \in Calls(FsToken(v)) :
        /\ CallApi(call)
        /\ task' = [task EXCEPT ![v] = TaskState(call)]
        /\ refused' = CountRefused(call, FsToken(v))
        /\ spurned' = IF WasRefused(call) THEN spurned \cup {v} ELSE spurned
    /\ UNCHANGED <<server, hasProvider, job, remote>>

AskAnew(v) ==
    /\ fs[v] # NoFs
    /\ fs' = [fs EXCEPT ![v] = NoFs]
    /\ spurned' = spurned \ {v}
    /\ UNCHANGED <<server, hasProvider, client, job, remote, task, faults, raised, refused>>

-----------------------------------------------------------------------------
(* The facility: it replaces its token and runs the jobs.                    *)
Rotate ==
    /\ server <= MaxRotations
    /\ server' = server + 1
    /\ refused' = 0
    /\ UNCHANGED <<hasProvider, client, fs, job, remote, task, faults, raised, spurned>>

Schedule(j) ==
    /\ \E i \in DOMAIN remote[j], s \in {"ACTIVE", "COMPLETED", "FAILED"} :
        /\ remote[j][i].state = IF s = "ACTIVE" THEN "QUEUED" ELSE "ACTIVE"
        /\ remote' = [remote EXCEPT ![j][i].state = s]
    /\ UNCHANGED <<server, hasProvider, client, fs, job, task, faults, raised, refused, spurned>>

LeaveQueue(j) ==
    /\ \E i \in DOMAIN remote[j] :
        /\ remote[j][i].state \in Terminal /\ remote[j][i].listed
        /\ remote' = [remote EXCEPT ![j][i].listed = FALSE]
    /\ UNCHANGED <<server, hasProvider, client, fs, job, task, faults, raised, refused, spurned>>

FacilityNext ==
    \/ \E j \in Jobs : Submit(j) \/ Adopt(j) \/ Wait(j) \/ Poll(j) \/ Cancel(j)
    \/ \E v \in Volumes : FsOp(v) \/ AskAnew(v)
    \/ Rotate
    \/ \E j \in Jobs : Schedule(j) \/ LeaveQueue(j)

FacilityFair == \A j \in Jobs : WF_facilityVars(Submit(j)) /\ WF_facilityVars(Poll(j))

FacilitySpec == FacilityInit /\ [][FacilityNext]_facilityVars /\ FacilityFair

-----------------------------------------------------------------------------
(* A client with a provider is refused at most once per token for the token  *)
(* of its service client: the refused call itself does not profit from the   *)
(* new one, the next does, and so does whoever asks for a resource anew.     *)
FailsOncePerRotation == hasProvider => refused <= 1

(* Operations on files go on being refused with a Resource that was used     *)
(* before, however often, but only while the facility client itself has a    *)
(* newer token: asking for the resource anew helps.                          *)
OldHandlesOnly == hasProvider => \A v \in spurned : fs[v] < client

(* A job at the facility that no returned wrapper stands for was launched by *)
(* a call whose answer was lost.                                             *)
OrphansAreFaults ==
    \A j \in Jobs : Cardinality({i \in DOMAIN remote[j] : i # job[j].id}) <= faults

(* Job.wait returns only when the job has stopped at the facility, and with  *)
(* historical=True it returns the state the job really ended in; without it  *)
(* a job that failed and left the queue may be reported completed.           *)
WaitTellsTruth ==
    \A j \in Jobs : job[j].phase = "ended" =>
        LET r == remote[j][job[j].id] IN
        /\ r.state \in Terminal
        /\ job[j].state # r.state => ~job[j].historical /\ ~r.listed

(* A caller that has a provider and a first token, and that submits again    *)
(* after an error, ends up with a job.                                       *)
ProviderHeals ==
    [](hasProvider /\ client # 0 => <>(\A j \in Jobs : job[j].phase # "new"))

(* What docs/facility-api.md says of the provider: a call that meets an      *)
(* authentication error is retried with the provider's token.                *)
ProviderSuffices == hasProvider => raised \notin {"refused", "unavailable"}

(* The client's own answers to faults, new tokens and repeated calls, make   *)
(* nothing worse than the faults themselves do.                              *)
FaultsAreBounded == FailsOncePerRotation /\ OldHandlesOnly /\ OrphansAreFaults
=============================================================================
