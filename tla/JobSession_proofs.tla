------------------------- MODULE JobSession_proofs -------------------------
(* Proofs about JobSession, for every set of jobs, every set of faults and  *)
(* every number of submissions: what a wait, an apply and a destroy that    *)
(* come to their end leave behind, and what keeps the jobs file.            *)
EXTENDS JobSession, SequenceTheorems, TLAPS

Submission == [jobs : SUBSET Job, state : RemoteState]

(* What an apply has handled is known by its last submission.               *)
ApplyInv ==
    op = "apply" =>
        /\ resources = HasResources
        /\ \A j \in attached \ left :
            /\ id[j] # 0
            /\ j \in remote[id[j]].jobs
            /\ \A s \in DOMAIN remote : j \in remote[s].jobs => s <= id[j]

(* What a destroy has handled is stopped, or was passed over.               *)
StopInv ==
    op = "destroy" =>
        \A j \in attached \ left : id[j] # 0 /\ Active(id[j]) => j \in passed

(* A job the wait has seen in a target state was submitted and, if it is    *)
(* one the IRI client polls, is stopped.                                    *)
WaitInv ==
    /\ op # "wait" => toPoll = {} /\ settled = {}
    /\ toPoll \cap settled = {}
    /\ op = "wait" =>
        \A j \in Job : results[j] # "none" /\ (j \in settled \/ j \notin left) =>
            /\ results[j] \in TargetState /\ id[j] # 0
            /\ j \notin IntentJob => ~Active(id[j])

(* The facility forgets only what is stopped.                               *)
PurgeInv == \A s \in purged : ~Active(s)

SessionInv == TypeOK /\ ApplyInv /\ StopInv /\ WaitInv /\ PurgeInv

-----------------------------------------------------------------------------
(* The two ways in which the submissions change.                            *)

LEMMA StateSet ==
    ASSUME remote \in Seq(Submission), NEW i \in DOMAIN remote, NEW x \in RemoteState,
           NEW r, r = [remote EXCEPT ![i].state = x]
    PROVE  /\ r \in Seq(Submission) /\ Len(r) = Len(remote) /\ DOMAIN r = DOMAIN remote
           /\ r[i].state = x
           /\ \A s \in DOMAIN remote :
                /\ r[s].jobs = remote[s].jobs
                /\ s # i => r[s] = remote[s]
<1> DEFINE one == [remote[i] EXCEPT !.state = x]
<1>1. DOMAIN remote = 1..Len(remote) /\ Len(remote) \in Nat
  OBVIOUS
<1>2. remote[i] \in Submission
  BY <1>1
<1>3. one \in Submission /\ one.jobs = remote[i].jobs /\ one.state = x
  BY <1>2 DEF Submission
<1>4. r = [remote EXCEPT ![i] = one]
  OBVIOUS
<1>5. r \in Seq(Submission) /\ Len(r) = Len(remote)
  BY <1>1, <1>3, <1>4, ExceptSeq
<1>6. DOMAIN r = DOMAIN remote /\ r[i] = one /\ \A s \in DOMAIN remote : s # i => r[s] = remote[s]
  BY <1>4
<1> QED
  BY <1>3, <1>5, <1>6

LEMMA SubmissionAdded ==
    ASSUME remote \in Seq(Submission), NEW g \in SUBSET Job,
           NEW r, r = Append(remote, [jobs |-> g, state |-> "ACTIVE"])
    PROVE  /\ r \in Seq(Submission) /\ Len(r) = Len(remote) + 1
           /\ DOMAIN r = 1..(Len(remote) + 1) /\ DOMAIN remote = 1..Len(remote)
           /\ r[Len(r)] = [jobs |-> g, state |-> "ACTIVE"]
           /\ \A s \in DOMAIN remote : r[s] = remote[s]
<1> DEFINE new == [jobs |-> g, state |-> "ACTIVE"]
<1>1. new \in Submission
  BY DEF Submission, RemoteState
<1> HIDE DEF new
<1> QED
  BY <1>1 DEF new

LEMMA SessionInit == Init => SessionInv
<1> SUFFICES ASSUME Init PROVE SessionInv
  OBVIOUS
<1>1. remote = <<>> /\ remote \in Seq([jobs : SUBSET Job, state : RemoteState]) /\ Len(remote) = 0
  BY DEF Init
<1>2. id \in [Job -> 0..Len(remote)]
  BY <1>1 DEF Init
<1>3. DOMAIN saved = {}
  BY DEF Init, Nothing
<1>4. results \in [Job -> Reported \cup {"none"}]
  BY DEF Init
<1>5. /\ Len(remote) <= MaxSubmissions /\ \A j \in DOMAIN saved : saved[j] \in DOMAIN remote
      /\ DOMAIN saved \subseteq Job
  BY <1>1, <1>3, SessionAssumption
<1>6. /\ purged \subseteq DOMAIN remote
      /\ attached \subseteq Job /\ intended \subseteq IntentJob \cap attached
      /\ resources \in BOOLEAN /\ known \in BOOLEAN /\ passed \subseteq IntentJob
      /\ op \in {"idle", "plan", "apply", "destroy", "wait"}
      /\ left \subseteq attached /\ toPoll \subseteq left /\ settled \subseteq left
      /\ timed \in BOOLEAN
  BY DEF Init
<1>7. TypeOK
  BY <1>1, <1>2, <1>4, <1>5, <1>6 DEF TypeOK
<1> QED
  BY <1>7 DEF Init, SessionInv, ApplyInv, StopInv, WaitInv, PurgeInv

-----------------------------------------------------------------------------
(* One lemma per action that does more than to begin or to end a call.      *)

\* What the invariant gives an action that leaves the facility and the session as they are.
Still == remote' = remote /\ purged' = purged /\ attached' = attached
         /\ intended' = intended /\ id' = id

\* A call other than wait that begins: nothing is handled yet.
LEMMA BeginsKeep ==
    ASSUME SessionInv, Still, saved' = saved, resources' \in BOOLEAN, known' \in BOOLEAN,
           UNCHANGED waiting, passed' = {},
           op = "idle", op' \in {"plan", "apply", "destroy"}, left' = attached,
           op' = "apply" => resources' = HasResources
    PROVE  SessionInv'
<1> USE DEF SessionInv, TypeOK, Still
<1>1. toPoll' = {} /\ settled' = {} /\ results' = results /\ timed' = timed
  BY DEF waiting, WaitInv
<1>2. TypeOK'
  BY <1>1
<1>3. WaitInv'
  BY <1>1 DEF WaitInv
<1>4. ApplyInv' /\ StopInv' /\ PurgeInv'
  BY DEF ApplyInv, StopInv, PurgeInv, Active
<1> QED
  BY <1>2, <1>3, <1>4

\* A call other than wait that ends, or nothing but the disk that changes.
LEMMA EndsKeep ==
    ASSUME SessionInv, Still, DOMAIN saved' \subseteq Job,
           \A j \in DOMAIN saved' : saved'[j] \in DOMAIN remote,
           resources' \in BOOLEAN, known' \in BOOLEAN, UNCHANGED waiting,
           op # "wait", op' = "idle", left' \subseteq left, passed' \subseteq IntentJob
    PROVE  SessionInv'
<1> USE DEF SessionInv, TypeOK, Still
<1>1. toPoll' = {} /\ settled' = {} /\ results' = results /\ timed' = timed
  BY DEF waiting, WaitInv
<1>2. TypeOK'
  BY <1>1
<1>3. WaitInv'
  BY <1>1 DEF WaitInv
<1>4. ApplyInv' /\ StopInv' /\ PurgeInv'
  BY DEF ApplyInv, StopInv, PurgeInv, Active
<1> QED
  BY <1>2, <1>3, <1>4

\* The loop of plan goes on.
LEMMA PlanGoesOn ==
    ASSUME SessionInv, Still, saved' = saved \/ saved' = Nothing, resources' = resources,
           known' \in BOOLEAN, UNCHANGED waiting, op = "plan", op' = op, left' \subseteq left,
           passed' = passed
    PROVE  SessionInv'
<1> USE DEF SessionInv, TypeOK, Still
<1>1. toPoll' = {} /\ settled' = {} /\ results' = results /\ timed' = timed
  BY DEF waiting, WaitInv
<1>2. DOMAIN saved' \subseteq Job /\ \A j \in DOMAIN saved' : saved'[j] \in DOMAIN remote
  BY DEF Nothing
<1>3. TypeOK'
  BY <1>1, <1>2
<1>4. WaitInv' /\ ApplyInv' /\ StopInv' /\ PurgeInv'
  BY <1>1 DEF WaitInv, ApplyInv, StopInv, PurgeInv, Active
<1> QED
  BY <1>3, <1>4

LEMMA AddJobKeeps == ASSUME SessionInv, NEW j \in Job, AddJob(j) PROVE SessionInv'
<1> USE DEF SessionInv, TypeOK, AddJob, facility, disk, call, waiting
<1>1. TypeOK'
  OBVIOUS
<1>2. ApplyInv' /\ StopInv' /\ WaitInv' /\ PurgeInv'
  BY DEF ApplyInv, StopInv, WaitInv, PurgeInv, Active
<1> QED
  BY <1>1, <1>2

\* What a submission of these jobs leaves of the facility.
LEMMA AcceptGives ==
    ASSUME TypeOK, NEW jobs \in SUBSET Job, Accept(jobs)
    PROVE  /\ remote' \in Seq([jobs : SUBSET Job, state : RemoteState])
           /\ Len(remote) \in Nat /\ Len(remote') = Len(remote) + 1
           /\ Len(remote') <= MaxSubmissions
           /\ DOMAIN remote = 1..Len(remote) /\ DOMAIN remote' = 1..(Len(remote) + 1)
           /\ remote'[Len(remote')] = [jobs |-> jobs, state |-> "ACTIVE"]
           /\ \A s \in DOMAIN remote : remote'[s] = remote[s] /\ (Active(s)' <=> Active(s))
<1>1. remote \in Seq(Submission) /\ remote' = Append(remote, [jobs |-> jobs, state |-> "ACTIVE"])
  BY DEF TypeOK, Accept, Submission
<1>2. /\ remote' \in Seq(Submission) /\ Len(remote') = Len(remote) + 1
      /\ DOMAIN remote' = 1..(Len(remote) + 1) /\ DOMAIN remote = 1..Len(remote)
      /\ remote'[Len(remote')] = [jobs |-> jobs, state |-> "ACTIVE"]
      /\ \A s \in DOMAIN remote : remote'[s] = remote[s]
  BY <1>1, SubmissionAdded
<1>3. Len(remote) \in Nat
  BY <1>1
<1>4. Len(remote') <= MaxSubmissions
  BY <1>2, <1>3, SessionAssumption DEF Accept
<1> QED
  BY <1>2, <1>3, <1>4 DEF Submission, Active

\* A group of the apply loop is made of jobs the loop has left.
LEMMA NextAreLeft ==
    ASSUME NEW jobs \in SUBSET Job, NextJobs(jobs)
    PROVE  jobs \subseteq left
  BY DEF NextJobs

LEMMA CreateJobsKeeps ==
    ASSUME SessionInv, NEW jobs \in SUBSET Job, CreateJobs(jobs) PROVE SessionInv'
<1>0. /\ TypeOK /\ ApplyInv /\ WaitInv /\ PurgeInv /\ op = "apply" /\ jobs \subseteq left
      /\ toPoll = {} /\ settled = {} /\ toPoll' = {} /\ settled' = {}
      /\ attached' = attached /\ intended' = intended /\ saved' = saved
      /\ resources' = resources /\ known' = known /\ results' = results /\ timed' = timed
      /\ passed' \subseteq IntentJob
  BY NextAreLeft DEF TypeOK, CreateOk, CreateRaises, End, Handled, SessionInv, CreateJobs, WaitInv, disk, waiting
<1>1. CASE CreateOk(jobs)
  <2>1. /\ Accept(jobs) /\ purged' = purged /\ op' = "apply" /\ left' = left \ jobs
        /\ id' = [j \in Job |-> IF j \in jobs THEN Len(remote') ELSE id[j]]
    BY <1>0, <1>1 DEF CreateOk, Accept, Handled
  <2>2. /\ remote' \in Seq([jobs : SUBSET Job, state : RemoteState])
        /\ Len(remote) \in Nat /\ Len(remote') = Len(remote) + 1
        /\ Len(remote') <= MaxSubmissions
        /\ DOMAIN remote = 1..Len(remote) /\ DOMAIN remote' = 1..(Len(remote) + 1)
        /\ remote'[Len(remote')] = [jobs |-> jobs, state |-> "ACTIVE"]
        /\ \A s \in DOMAIN remote : remote'[s] = remote[s] /\ (Active(s)' <=> Active(s))
    BY <1>0, <2>1, AcceptGives
  <2>3. id \in [Job -> 0..Len(remote)] /\ id' \in [Job -> 0..Len(remote')]
    BY <1>0, <2>1, <2>2 DEF TypeOK
  <2>4. TypeOK'
    BY <1>0, <2>1, <2>2, <2>3 DEF TypeOK
  <2>5. ApplyInv'
    <3>1. resources' = HasResources
      BY <1>0 DEF ApplyInv
    <3>2. ASSUME NEW j \in attached' \ left'
          PROVE  /\ id'[j] # 0 /\ j \in remote'[id'[j]].jobs
                 /\ \A s \in DOMAIN remote' : j \in remote'[s].jobs => s <= id'[j]
      <4>1. j \in Job
        BY <1>0, <3>2 DEF TypeOK
      <4>2. CASE j \in jobs
        <5>1. id'[j] = Len(remote')
          BY <4>1, <4>2, <2>1
        <5> QED
          BY <4>2, <5>1, <2>2
      <4>3. CASE j \notin jobs
        <5>1. id'[j] = id[j] /\ j \in attached \ left
          BY <1>0, <2>1, <3>2, <4>1, <4>3
        <5>2. /\ id[j] # 0 /\ j \in remote[id[j]].jobs /\ id[j] \in DOMAIN remote
              /\ \A s \in DOMAIN remote : j \in remote[s].jobs => s <= id[j]
          BY <1>0, <2>2, <2>3, <4>1, <5>1 DEF ApplyInv
        <5>3. remote'[Len(remote')].jobs = jobs
          BY <2>2
        <5> QED
          BY <5>1, <5>2, <5>3, <2>2, <4>3
      <4> QED
        BY <4>2, <4>3
    <3> QED
      BY <3>1, <3>2 DEF ApplyInv
  <2>6. StopInv' /\ WaitInv'
    BY <1>0, <2>1 DEF StopInv, WaitInv
  <2>7. PurgeInv'
    BY <1>0, <2>1, <2>2 DEF PurgeInv, TypeOK
  <2> QED
    BY <2>4, <2>5, <2>6, <2>7 DEF SessionInv
<1>2. CASE CreateRaises(jobs)
  <2>1. op' = "idle" /\ left' = {} /\ id' = id
    BY <1>2 DEF CreateRaises, End
  <2>2. ApplyInv' /\ StopInv' /\ WaitInv'
    BY <1>0, <2>1 DEF ApplyInv, StopInv, WaitInv
  <2>3. CASE UNCHANGED facility
    <3>1. remote' = remote /\ purged' = purged
      BY <2>3 DEF facility
    <3> QED
      BY <1>0, <2>1, <2>2, <3>1 DEF SessionInv, TypeOK, PurgeInv, Active
  <2>4. CASE Accept(jobs)
    <3>1. purged' = purged
      BY <2>4 DEF Accept
    <3>2. /\ remote' \in Seq([jobs : SUBSET Job, state : RemoteState])
          /\ Len(remote) \in Nat /\ Len(remote') = Len(remote) + 1
          /\ Len(remote') <= MaxSubmissions
          /\ DOMAIN remote = 1..Len(remote) /\ DOMAIN remote' = 1..(Len(remote) + 1)
          /\ \A s \in DOMAIN remote : Active(s)' <=> Active(s)
      BY <1>0, <2>4, AcceptGives
    <3>3. id' \in [Job -> 0..Len(remote')]
      BY <1>0, <2>1, <3>2 DEF TypeOK
    <3>4. TypeOK'
      BY <1>0, <2>1, <3>1, <3>2, <3>3 DEF TypeOK
    <3>5. PurgeInv'
      BY <1>0, <3>1, <3>2 DEF PurgeInv, TypeOK
    <3> QED
      BY <2>2, <3>4, <3>5 DEF SessionInv
  <2> QED
    BY <1>2, <2>3, <2>4 DEF CreateRaises
<1> QED
  BY <1>1, <1>2 DEF CreateJobs

\* A submission stops: by a cancel, or by itself.
LEMMA StopKeeps ==
    ASSUME SessionInv, NEW i \in DOMAIN remote, NEW x \in RemoteState, x # "ACTIVE",
           remote' = [remote EXCEPT ![i].state = x], purged' = purged,
           UNCHANGED <<memory, disk, waiting>>, op' = op, left' \subseteq left,
           op \in {"apply", "wait"} => left' = left, passed' = passed,
           op = "destroy" => \A j \in left \ left' : id[j] = i
    PROVE  SessionInv'
<1> USE DEF SessionInv
<1>1. /\ attached' = attached /\ intended' = intended /\ id' = id /\ saved' = saved
      /\ resources' = resources /\ known' = known /\ toPoll' = toPoll /\ settled' = settled
      /\ results' = results /\ timed' = timed
  BY DEF memory, disk, waiting
<1>2. /\ remote' \in Seq(Submission) /\ Len(remote') = Len(remote) /\ DOMAIN remote' = DOMAIN remote
      /\ remote'[i].state = x
      /\ \A s \in DOMAIN remote :
            /\ remote'[s].jobs = remote[s].jobs
            /\ s # i => remote'[s] = remote[s]
  <2>1. remote \in Seq(Submission)
    BY DEF TypeOK, Submission
  <2> QED
    BY <2>1, StateSet
<1>3. ~Active(i)' /\ \A s \in DOMAIN remote : ~Active(s) => ~Active(s)'
  BY <1>2 DEF Active
<1>4. TypeOK'
  BY <1>1, <1>2 DEF TypeOK, WaitInv, Submission
<1>5. \A j \in Job : id[j] # 0 => id[j] \in DOMAIN remote
  BY DEF TypeOK
<1>6. attached \subseteq Job
  BY DEF TypeOK
<1>7. ApplyInv'
  BY <1>1, <1>2, <1>5, <1>6 DEF ApplyInv
<1>8. StopInv'
  BY <1>1, <1>2, <1>3, <1>5, <1>6 DEF StopInv
<1>9. WaitInv'
  BY <1>1, <1>3, <1>5 DEF WaitInv
<1>10. PurgeInv'
  BY <1>2, <1>3 DEF PurgeInv, TypeOK
<1> QED
  BY <1>4, <1>7, <1>8, <1>9, <1>10

LEMMA CanceledStops ==
    ASSUME remote \in Seq(Submission), NEW s \in DOMAIN remote
    PROVE  Canceled(s) \in RemoteState /\ Canceled(s) # "ACTIVE"
<1>1. remote[s] \in Submission
  <2>1. DOMAIN remote = 1..Len(remote)
    OBVIOUS
  <2> QED
    BY <2>1
<1>2. remote[s].state \in RemoteState
  BY <1>1 DEF Submission
<1> QED
  BY <1>2 DEF Canceled, Active, RemoteState, Final

LEMMA DestroyJobKeeps ==
    ASSUME SessionInv, NEW j \in Job, DestroyJob(j) PROVE SessionInv'
<1>1. /\ op = "destroy" /\ j \in left /\ purged' = purged
      /\ attached' = attached /\ intended' = intended /\ id' = id /\ saved' = saved
      /\ resources' = resources /\ known' = known /\ UNCHANGED waiting
  BY DEF DestroyJob, memory, disk
<1>2. CASE remote' = remote
  <2>1. \/ op' = "idle" /\ left' = {} /\ passed' = {}
        \/ op' = op /\ left' = left \ {j} /\ passed' = passed /\ id[j] = 0
        \/ op' = op /\ left' = left \ {j} /\ passed' = passed /\ id[j] # 0 /\ ~Active(id[j])
        \/ op' = op /\ left' = left \ {j} /\ passed' = passed \cup {j} /\ j \in IntentJob
    <3>1. CASE CancelRaises(j)
      BY <3>1 DEF CancelRaises, End
    <3>2. CASE CancelJob(j) /\ (id[j] = 0 \/ passed' # passed)
      BY <3>2 DEF CancelJob
    <3>3. CASE CancelJob(j) /\ id[j] # 0 /\ passed' = passed
      <4>1. id[j] \in DOMAIN remote /\ remote \in Seq(Submission)
        BY <3>3 DEF SessionInv, TypeOK, Submission
      <4>2. op' = op /\ left' = left \ {j}
        BY <3>3 DEF CancelJob
      <4>3. CASE remote' = [remote EXCEPT ![id[j]].state = Canceled(id[j])]
        <5>1. Canceled(id[j]) \in RemoteState /\ Canceled(id[j]) # "ACTIVE"
          BY <4>1, CanceledStops
        <5>2. remote'[id[j]].state = Canceled(id[j])
          BY <4>1, <4>3, <5>1, StateSet
        <5> QED
          BY <1>2, <3>3, <4>2, <5>1, <5>2 DEF Active
      <4>4. CASE j \in IntentJob /\ passed' = passed \cup {j}
        BY <4>2, <4>4
      <4> QED
        BY <3>3, <4>3, <4>4 DEF CancelJob
    <3> QED
      BY <3>1, <3>2, <3>3 DEF DestroyJob
  <2>2. TypeOK'
    BY <1>1, <1>2, <2>1 DEF SessionInv, TypeOK, WaitInv, waiting
  <2>3. StopInv'
    BY <1>1, <1>2, <2>1 DEF SessionInv, StopInv, Active
  <2>4. ApplyInv' /\ WaitInv' /\ PurgeInv'
    BY <1>1, <1>2, <2>1 DEF SessionInv, ApplyInv, WaitInv, PurgeInv, Active, waiting
  <2> QED
    BY <2>2, <2>3, <2>4 DEF SessionInv
<1>3. CASE /\ id[j] # 0 /\ CancelJob(j) /\ passed' = passed
           /\ remote' = [remote EXCEPT ![id[j]].state = Canceled(id[j])]
  <2>1. id[j] \in DOMAIN remote /\ remote \in Seq(Submission)
    BY <1>3 DEF SessionInv, TypeOK, Submission
  <2>2. op' = op /\ left' = left \ {j}
    BY <1>3 DEF CancelJob
  <2>3. Canceled(id[j]) \in RemoteState /\ Canceled(id[j]) # "ACTIVE"
    BY <2>1, CanceledStops
  <2>4. \A k \in left \ left' : id[k] = id[j]
    BY <2>2
  <2>5. UNCHANGED <<memory, disk, waiting>>
    BY DEF DestroyJob
  <2> QED
    BY <1>1, <1>3, <2>1, <2>2, <2>3, <2>4, <2>5, StopKeeps
<1> QED
  BY <1>2, <1>3 DEF DestroyJob, CancelJob, CancelRaises

LEMMA FinishKeeps ==
    ASSUME SessionInv, NEW s \in DOMAIN remote, Finish(s) PROVE SessionInv'
<1>1. PICK x \in {"COMPLETED", "FAILED"} : remote' = [remote EXCEPT ![s].state = x]
  BY DEF Finish
<1>2. x \in RemoteState /\ x # "ACTIVE"
  BY DEF RemoteState, Final
<1>3. /\ purged' = purged /\ op' = op /\ left' = left /\ passed' = passed
      /\ UNCHANGED <<memory, disk, waiting>>
  BY DEF Finish, call
<1> QED
  BY <1>1, <1>2, <1>3, StopKeeps

LEMMA PurgeKeeps ==
    ASSUME SessionInv, NEW s \in DOMAIN remote, Purge(s) PROVE SessionInv'
<1> USE DEF SessionInv, Purge, memory, disk, call, waiting
<1>1. TypeOK'
  BY DEF TypeOK
<1>2. ApplyInv' /\ StopInv' /\ WaitInv' /\ PurgeInv'
  BY DEF ApplyInv, StopInv, WaitInv, PurgeInv, Active
<1> QED
  BY <1>1, <1>2

\* The file that an apply writes holds an identifier for every job.
LEMMA EndApplyKeeps == ASSUME SessionInv, EndApply PROVE SessionInv'
<1>1. /\ Still /\ resources' = resources /\ UNCHANGED waiting
      /\ op = "apply" /\ left = {} /\ op' = "idle" /\ left' = {} /\ passed' = {}
      /\ known' = known
  BY DEF EndApply, Still, End, facility, memory
<1>2. \A j \in attached : id[j] \in DOMAIN remote
  BY <1>1 DEF SessionInv, ApplyInv, TypeOK
<1>3. DOMAIN saved' \subseteq Job /\ \A j \in DOMAIN saved' : saved'[j] \in DOMAIN remote
  BY <1>2 DEF EndApply, SaveJobs, SessionInv, TypeOK
<1>4. resources' \in BOOLEAN /\ known' \in BOOLEAN
  BY <1>1 DEF SessionInv, TypeOK
<1> QED
  BY <1>1, <1>3, <1>4, EndsKeep

\* The session is removed: by a destroy that ends, or by a manager without jobs.
LEMMA RemovesKeep == ASSUME SessionInv, EndDestroy \/ DestroyDetached PROVE SessionInv'
<1>1. Still /\ UNCHANGED waiting /\ RemoveSession
  BY DEF EndDestroy, DestroyDetached, Still, facility, memory
<1>2. /\ op \in {"idle", "destroy"} /\ op' = "idle" /\ left' \subseteq left
      /\ passed' \subseteq IntentJob
  BY DEF EndDestroy, DestroyDetached, End, call, SessionInv, TypeOK
<1>3. DOMAIN saved' = {} /\ resources' \in BOOLEAN /\ known' \in BOOLEAN
  BY <1>1 DEF RemoveSession, Nothing, SessionInv, TypeOK
<1> QED
  BY <1>1, <1>2, <1>3, EndsKeep

LEMMA RestartKeeps == ASSUME SessionInv, Restart PROVE SessionInv'
<1> USE DEF SessionInv
<1>1. /\ remote' = remote /\ purged' = purged /\ saved' = saved /\ resources' = resources
      /\ known' = known /\ passed' = {} /\ attached' = DOMAIN saved \ Untyped /\ intended' = {}
      /\ id' = [j \in Job |-> IF j \in DOMAIN saved \ Untyped THEN saved[j] ELSE 0]
      /\ op' = "idle" /\ left' = {} /\ toPoll' = {} /\ settled' = {}
      /\ results' = [j \in Job |-> "none"] /\ timed' = FALSE
  BY DEF Restart, Restored, End, NoWait, facility, disk
<1>2. id' \in [Job -> 0..Len(remote)]
  <2>1. ASSUME NEW j \in DOMAIN saved PROVE saved[j] \in 0..Len(remote)
    BY <2>1 DEF TypeOK
  <2> QED
    BY <1>1, <2>1 DEF TypeOK
<1>3. results' \in [Job -> Reported \cup {"none"}]
  BY <1>1
<1>4. TypeOK'
  BY <1>1, <1>2, <1>3 DEF TypeOK
<1>5. ApplyInv' /\ StopInv' /\ WaitInv' /\ PurgeInv'
  BY <1>1 DEF ApplyInv, StopInv, WaitInv, PurgeInv, Active
<1> QED
  BY <1>4, <1>5

-----------------------------------------------------------------------------
(* The steps of a wait.                                                     *)

LEMMA StartWaitKeeps ==
    ASSUME SessionInv, NEW jobs \in SUBSET Job, NEW timeout \in BOOLEAN, StartWait(jobs, timeout)
    PROVE  SessionInv'
<1> USE DEF SessionInv
<1>1. /\ Still /\ saved' = saved /\ resources' = resources /\ jobs \subseteq attached
      /\ op' = "wait" /\ left' = jobs /\ toPoll' = {} /\ settled' = {}
      /\ known' = known /\ passed' = {}
      /\ results' = [j \in Job |-> "none"] /\ timed' = timeout
  BY DEF StartWait, Begin, Still, facility, memory, disk
<1>2. results' \in [Job -> Reported \cup {"none"}]
  BY <1>1
<1>3. TypeOK'
  BY <1>1, <1>2 DEF TypeOK, Still
<1>4. WaitInv'
  BY <1>1 DEF WaitInv
<1>5. ApplyInv' /\ StopInv' /\ PurgeInv'
  BY <1>1 DEF ApplyInv, StopInv, PurgeInv, Active, Still
<1> QED
  BY <1>3, <1>4, <1>5

LEMMA StartRoundKeeps == ASSUME SessionInv, StartRound PROVE SessionInv'
<1> USE DEF SessionInv, StartRound, facility, memory, disk, call
<1>1. TypeOK'
  BY DEF TypeOK
<1>2. ApplyInv' /\ StopInv' /\ WaitInv' /\ PurgeInv'
  BY DEF ApplyInv, StopInv, WaitInv, PurgeInv, Active
<1> QED
  BY <1>1, <1>2

LEMMA TimeOutKeeps == ASSUME SessionInv, TimeOut PROVE SessionInv'
<1> USE DEF SessionInv, TimeOut, facility, memory, disk, End, NoWait
<1>1. results' \in [Job -> Reported \cup {"none"}]
  OBVIOUS
<1>2. TypeOK'
  BY <1>1 DEF TypeOK
<1>3. ApplyInv' /\ StopInv' /\ WaitInv' /\ PurgeInv'
  BY DEF ApplyInv, StopInv, WaitInv, PurgeInv, Active
<1> QED
  BY <1>2, <1>3

\* A poll that reports a target state has asked the facility, which reports it
\* of a submission that is no longer running.
LEMMA PollKeeps ==
    ASSUME SessionInv, NEW j \in Job, NEW state \in Reported, Poll(j, state) PROVE SessionInv'
<1> USE DEF SessionInv
<1>1. /\ Still /\ saved' = saved /\ resources' = resources /\ op' = op /\ left' = left
      /\ known' = known /\ passed' = passed /\ timed' = timed /\ op = "wait" /\ j \in toPoll /\ toPoll' = toPoll \ {j}
      /\ results' = [results EXCEPT ![j] = state]
      /\ settled' = IF Settles(state) THEN settled \cup {j} ELSE settled
  BY DEF Poll, Still, facility, memory, disk, call
<1>2. TypeOK'
  BY <1>1 DEF TypeOK, Still
<1>3. ASSUME Settles(state)
      PROVE  state \in TargetState /\ id[j] # 0 /\ (j \notin IntentJob => ~Active(id[j]))
  <2>1. state \in TargetState /\ state # "UNKNOWN" /\ state # "ACTIVE"
    BY <1>3, SessionAssumption DEF Settles
  <2>2. state \in Status(j)
    BY DEF Poll
  <2>3. id[j] # 0
    BY <2>1, <2>2 DEF Status
  <2>4. \/ j \in IntentJob
        \/ id[j] \in purged
        \/ remote[id[j]].state = state
    BY <2>1, <2>2, <2>3 DEF Status
  <2> QED
    BY <2>1, <2>3, <2>4 DEF PurgeInv, Active
<1>4. WaitInv'
  <2>1. toPoll' \cap settled' = {}
    BY <1>1 DEF WaitInv
  <2>2. ASSUME NEW k \in Job, results'[k] # "none", k \in settled' \/ k \notin left'
        PROVE  /\ results'[k] \in TargetState /\ id'[k] # 0
               /\ k \notin IntentJob => ~Active(id[k])'
    <3>1. CASE k = j
      <4>1. j \in left /\ j \notin settled
        BY <1>1 DEF TypeOK, WaitInv
      <4>2. Settles(state)
        BY <1>1, <2>2, <3>1, <4>1
      <4>3. results'[k] = state
        BY <1>1, <3>1 DEF TypeOK
      <4> QED
        BY <1>1, <1>3, <3>1, <4>2, <4>3 DEF Still, Active
    <3>2. CASE k # j
      BY <1>1, <2>2, <3>2 DEF TypeOK, WaitInv, Still, Active
    <3> QED
      BY <3>1, <3>2
  <2> QED
    BY <1>1, <2>1, <2>2 DEF WaitInv, Active
<1>5. ApplyInv' /\ StopInv' /\ PurgeInv'
  BY <1>1 DEF ApplyInv, StopInv, PurgeInv, Active, Still
<1> QED
  BY <1>2, <1>4, <1>5

LEMMA EndRoundKeeps == ASSUME SessionInv, EndRound PROVE SessionInv'
<1> USE DEF SessionInv
<1>1. /\ Still /\ saved' = saved /\ resources' = resources /\ op = "wait" /\ toPoll = {}
      /\ known' = known /\ passed' \in {{}, passed}
  BY DEF EndRound, End, Still, facility, memory, disk
<1>2. ApplyInv' /\ StopInv' /\ PurgeInv'
  BY <1>1 DEF ApplyInv, StopInv, PurgeInv, Active, Still, EndRound, End
<1>3. CASE Unsettled = {} /\ End /\ NoWait
  <2>1. results' \in [Job -> Reported \cup {"none"}]
    BY <1>3 DEF NoWait
  <2>2. TypeOK'
    BY <1>1, <1>3, <2>1 DEF TypeOK, End, NoWait, Still
  <2>3. WaitInv'
    BY <1>3 DEF WaitInv, End, NoWait
  <2> QED
    BY <1>2, <2>2, <2>3
<1>4. CASE /\ Unsettled # {} /\ left' = Unsettled /\ settled' = {}
           /\ UNCHANGED <<op, toPoll, results, timed>>
  <2>1. TypeOK'
    BY <1>1, <1>4 DEF TypeOK, Unsettled, Still
  <2>2. WaitInv'
    BY <1>1, <1>4 DEF WaitInv, Unsettled, Still, Active
  <2> QED
    BY <1>2, <2>1, <2>2
<1> QED
  BY <1>3, <1>4 DEF EndRound

-----------------------------------------------------------------------------

LEMMA SessionStep == SessionInv /\ [Next]_vars => SessionInv'
<1> SUFFICES ASSUME SessionInv, [Next]_vars PROVE SessionInv'
  OBVIOUS
<1>1. ASSUME NEW j \in Job, AddJob(j) \/ DestroyJob(j) PROVE SessionInv'
  BY <1>1, AddJobKeeps, DestroyJobKeeps
<1>2. CASE StartPlan \/ StartDestroy
  <2>1. /\ Still /\ saved' = saved /\ resources' \in BOOLEAN /\ UNCHANGED waiting
        /\ known' \in BOOLEAN /\ passed' = {}
        /\ op = "idle" /\ op' \in {"plan", "destroy"} /\ left' = attached
    BY <1>2 DEF StartPlan, StartDestroy, Begin, Still, facility, memory, disk, SessionInv, TypeOK
  <2> QED
    BY <2>1, BeginsKeep
<1>3. CASE StartApply
  <2>1. /\ Still /\ saved' = saved /\ resources' \in BOOLEAN /\ UNCHANGED waiting
        /\ op = "idle" /\ resources' = HasResources /\ known' \in BOOLEAN
    BY <1>3, SessionAssumption DEF StartApply, Begin, Still, facility, memory
  <2>2. CASE Begin("apply", attached)
    <3>1. op' \in {"plan", "apply", "destroy"} /\ left' = attached /\ passed' = {}
      BY <2>2 DEF Begin
    <3> QED
      BY <2>1, <3>1, BeginsKeep
  <2>3. CASE UNCHANGED call
    <3>1. op # "wait" /\ op' = "idle" /\ left' \subseteq left /\ passed' \subseteq IntentJob
      BY <2>1, <2>3 DEF call, SessionInv, TypeOK
    <3>2. DOMAIN saved' \subseteq Job /\ \A j \in DOMAIN saved' : saved'[j] \in DOMAIN remote
      BY <2>1 DEF SessionInv, TypeOK
    <3> QED
      BY <2>1, <3>1, <3>2, EndsKeep
  <2> QED
    BY <1>3, <2>2, <2>3 DEF StartApply
<1>4. CASE PlanRaises \/ EndPlan \/ ShowDetached \/ \E jobs \in SUBSET Job : PlanJobs(jobs)
  <2>1. /\ Still /\ resources' = resources /\ UNCHANGED waiting /\ left' \subseteq left
        /\ (op' = op /\ passed' = passed) \/ (op' = "idle" /\ passed' \in {{}, passed})
        /\ op \in {"idle", "plan"}
        /\ saved' = saved \/ saved' = Nothing
        /\ known' \in {known, FALSE}
    BY <1>4 DEF PlanRaises, EndPlan, ShowDetached, PlanJobs, DeleteSessionIfEmpty, End, Handled,
                Still, facility, memory, disk, call
  <2>2. DOMAIN saved' \subseteq Job /\ \A j \in DOMAIN saved' : saved'[j] \in DOMAIN remote
    BY <2>1 DEF SessionInv, TypeOK, Nothing
  <2>3. resources' \in BOOLEAN /\ known' \in BOOLEAN /\ passed' \subseteq IntentJob
    BY <2>1 DEF SessionInv, TypeOK
  <2>4. CASE op' = "idle"
    BY <2>1, <2>2, <2>3, <2>4, EndsKeep
  <2>5. CASE op' # "idle"
    <3>1. op = "plan" /\ op' = op
      BY <2>1, <2>5
    <3> QED
      BY <2>1, <2>3, <2>5, <3>1, PlanGoesOn
  <2> QED
    BY <2>4, <2>5
<1>5. CASE EndApply \/ EndDestroy \/ DestroyDetached \/ Restart
  BY <1>5, EndApplyKeeps, RemovesKeep, RestartKeeps
<1>6. ASSUME NEW jobs \in SUBSET Job, CreateJobs(jobs) PROVE SessionInv'
  BY <1>6, CreateJobsKeeps
<1>7. ASSUME NEW jobs \in SUBSET Job, NEW timeout \in BOOLEAN, StartWait(jobs, timeout)
      PROVE  SessionInv'
  BY <1>7, StartWaitKeeps
<1>8. CASE WaitStep
  BY <1>8, StartRoundKeeps, TimeOutKeeps, EndRoundKeeps, PollKeeps DEF WaitStep
<1>9. ASSUME NEW s \in DOMAIN remote, Finish(s) \/ Purge(s) PROVE SessionInv'
  BY <1>9, FinishKeeps, PurgeKeeps
<1>10. CASE UNCHANGED vars
  <2>1. /\ Still /\ saved' = saved /\ resources' = resources /\ op' = op /\ left' = left
        /\ toPoll' = toPoll /\ settled' = settled /\ results' = results /\ timed' = timed
        /\ known' = known /\ passed' = passed
    BY <1>10 DEF vars, facility, memory, disk, call, waiting, Still
  <2>2. TypeOK'
    BY <2>1 DEF SessionInv, TypeOK, Still
  <2>3. ApplyInv' /\ StopInv' /\ WaitInv' /\ PurgeInv'
    BY <2>1 DEF SessionInv, ApplyInv, StopInv, WaitInv, PurgeInv, Active, Still
  <2> QED
    BY <2>2, <2>3 DEF SessionInv
<1>11. CASE Next
  BY <1>1, <1>2, <1>3, <1>4, <1>5, <1>6, <1>7, <1>8, <1>9, <1>11 DEF Next
<1> QED
  BY <1>10, <1>11

-----------------------------------------------------------------------------
(* The theorems.                                                            *)

\* Whatever polls fail, are repeated or race with the end of a job, a wait that
\* returns has submitted jobs only, and is right about those the IRI client polls.
THEOREM WaitReturnsSettledHolds == Spec => WaitReturnsSettled
<1>1. ASSUME SessionInv, EndRound, op' = "idle", NEW j \in Job, results[j] # "none"
      PROVE  /\ results[j] \in TargetState /\ id[j] # 0
             /\ j \notin IntentJob => ~Active(id[j])
  <2>1. op = "wait" /\ left \ settled = {}
    BY <1>1 DEF EndRound, Unsettled
  <2>2. j \in settled \/ j \notin left
    BY <2>1
  <2> QED
    BY <1>1, <2>1, <2>2 DEF SessionInv, WaitInv
<1>2. SessionInv /\ [Next]_vars =>
        [EndRound /\ op' = "idle" =>
            \A j \in Job : results[j] # "none" =>
                /\ results[j] \in TargetState /\ id[j] # 0
                /\ j \notin IntentJob => ~Active(id[j])]_vars
  BY <1>1
<1> QED
  BY <1>2, SessionInit, SessionStep, PTL DEF Spec, WaitReturnsSettled

\* Whatever was submitted, lost or restored before, an apply that succeeds
\* writes down where the last submission of every job of the session is.
THEOREM AppliedIsDurableHolds == Spec => AppliedIsDurable
<1>1. ASSUME SessionInv, EndApply, NEW j \in attached
      PROVE  /\ j \in DOMAIN saved'
             /\ j \in remote[saved'[j]].jobs
             /\ \A s \in DOMAIN remote : j \in remote[s].jobs => s <= saved'[j]
  <2>1. op = "apply" /\ left = {} /\ saved' = [k \in attached |-> id[k]]
    BY <1>1 DEF EndApply, SaveJobs
  <2>2. j \in DOMAIN saved' /\ saved'[j] = id[j]
    BY <2>1
  <2>3. /\ j \in remote[id[j]].jobs
        /\ \A s \in DOMAIN remote : j \in remote[s].jobs => s <= id[j]
    BY <1>1, <2>1 DEF SessionInv, ApplyInv
  <2> QED
    BY <2>2, <2>3
<1>2. SessionInv /\ [Next]_vars =>
        [EndApply =>
            \A j \in attached :
                /\ j \in DOMAIN saved'
                /\ j \in remote[saved'[j]].jobs
                /\ \A s \in DOMAIN remote : j \in remote[s].jobs => s <= saved'[j]]_vars
  BY <1>1
<1> QED
  BY <1>2, SessionInit, SessionStep, PTL DEF Spec, AppliedIsDurable

\* Whichever cancels were refused, repeated or cut short before, a destroy that
\* comes to its end leaves no known submission running but the instances that
\* were neither FAILED nor READY when it asked.
THEOREM DestroyCancelsKnownHolds == Spec => DestroyCancelsKnown
<1>1. ASSUME SessionInv, EndDestroy, NEW j \in attached, id[j] # 0, Active(id[j])
      PROVE  j \in passed
  <2>1. op = "destroy" /\ left = {}
    BY <1>1 DEF EndDestroy
  <2> QED
    BY <1>1, <2>1 DEF SessionInv, StopInv
<1>2. SessionInv /\ [Next]_vars =>
        [EndDestroy => \A j \in attached : id[j] # 0 /\ Active(id[j]) => j \in passed]_vars
  BY <1>1
<1> QED
  BY <1>2, SessionInit, SessionStep, PTL DEF Spec, DestroyCancelsKnown

-----------------------------------------------------------------------------
(* The jobs file.  A jobs file with jobs in it belongs to a session that    *)
(* holds them, and whose resources, if it has any, are saved too.           *)

SavedInv ==
    /\ saved = [j \in DOMAIN saved |-> saved[j]]
    /\ SavedIsAttached
    /\ HasResources /\ saved # Nothing => resources

LEMMA SavedInit == Init => SavedInv
  BY DEF Init, SavedInv, SavedIsAttached, Nothing

\* Only these steps touch the file, the saved states or the jobs of the session.
LEMMA SavedChanges ==
    ASSUME [Next]_vars
    PROVE  \/ saved' = saved /\ resources' = resources /\ attached \subseteq attached'
           \/ saved' = saved /\ resources' = HasResources /\ attached' = attached
           \/ EndPlan \/ ShowDetached \/ EndApply \/ EndDestroy \/ DestroyDetached \/ Restart
<1> USE DEF facility, memory, disk, call, waiting
<1>1. ASSUME NEW j \in Job, AddJob(j) \/ DestroyJob(j)
      PROVE  saved' = saved /\ resources' = resources /\ attached \subseteq attached'
  BY <1>1 DEF AddJob, DestroyJob
<1>2. CASE StartPlan \/ PlanRaises \/ StartDestroy
  BY <1>2 DEF StartPlan, PlanRaises, StartDestroy
<1>3. CASE StartApply
  BY <1>3 DEF StartApply
<1>4. ASSUME NEW jobs \in SUBSET Job, PlanJobs(jobs) \/ CreateJobs(jobs)
      PROVE  saved' = saved /\ resources' = resources /\ attached \subseteq attached'
  BY <1>4 DEF PlanJobs, CreateJobs
<1>5. ASSUME NEW jobs \in SUBSET Job, NEW timeout \in BOOLEAN, StartWait(jobs, timeout)
      PROVE  saved' = saved /\ resources' = resources /\ attached \subseteq attached'
  BY <1>5 DEF StartWait
<1>6. CASE WaitStep
  BY <1>6 DEF WaitStep, StartRound, TimeOut, EndRound, Poll
<1>7. ASSUME NEW s \in DOMAIN remote, Finish(s) \/ Purge(s)
      PROVE  saved' = saved /\ resources' = resources /\ attached \subseteq attached'
  BY <1>7 DEF Finish, Purge
<1>8. CASE UNCHANGED vars
  BY <1>8 DEF vars
<1> QED
  BY <1>1, <1>2, <1>3, <1>4, <1>5, <1>6, <1>7, <1>8 DEF Next

\* No plan deletes a file with jobs in it: the session holds them.
LEMMA PlanKeepsFile ==
    ASSUME SavedInv, EndPlan
    PROVE  saved' = saved /\ resources' = resources /\ attached' = attached
<1>1. resources' = resources /\ attached' = attached
  BY DEF EndPlan, DeleteSessionIfEmpty, memory
<1>2. CASE resources \/ attached # {}
  BY <1>1, <1>2 DEF EndPlan, DeleteSessionIfEmpty
<1>3. CASE ~resources /\ attached = {}
  <2>1. DOMAIN saved = {} /\ saved = [j \in DOMAIN saved |-> saved[j]]
    BY <1>3 DEF SavedInv, SavedIsAttached
  <2>2. saved = Nothing
    BY <2>1 DEF Nothing
  <2> QED
    BY <1>1, <1>3, <2>2 DEF EndPlan, DeleteSessionIfEmpty
<1> QED
  BY <1>2, <1>3

LEMMA SavedStep ==
    ASSUME Untyped = {}
    PROVE  SessionInv /\ SavedInv /\ [Next]_vars => SavedInv'
<1> SUFFICES ASSUME SessionInv, SavedInv, [Next]_vars PROVE SavedInv'
  OBVIOUS
<1> USE DEF SavedInv, SavedIsAttached
<1>1. CASE saved' = saved /\ resources' = resources /\ attached \subseteq attached'
  BY <1>1 DEF Nothing
<1>2. CASE saved' = saved /\ resources' = HasResources /\ attached' = attached
  BY <1>2 DEF Nothing
<1>3. CASE EndPlan
  <2>1. saved' = saved /\ resources' = resources /\ attached' = attached
    BY <1>3, PlanKeepsFile
  <2> QED
    BY <2>1 DEF Nothing
<1>7. CASE ShowDetached
  <2>1. /\ saved' = saved \/ saved' = Nothing
        /\ resources' = resources /\ attached' = attached
    BY <1>7 DEF ShowDetached, DeleteSessionIfEmpty, memory
  <2> QED
    BY <2>1 DEF Nothing
<1>4. CASE EndApply
  <2>1. /\ attached' = attached /\ resources' = resources /\ op = "apply"
        /\ saved' = IF attached = {} THEN saved ELSE [j \in attached |-> id[j]]
    BY <1>4 DEF EndApply, SaveJobs, memory
  <2>2. resources = HasResources
    BY <2>1 DEF SessionInv, ApplyInv
  <2>3. CASE attached = {}
    BY <2>1, <2>3 DEF Nothing
  <2>4. CASE attached # {}
    <3>1. saved' = [j \in attached |-> id[j]] /\ DOMAIN saved' = attached
      BY <2>1, <2>4
    <3>2. saved' = [j \in DOMAIN saved' |-> saved'[j]]
      BY <3>1
    <3> QED
      BY <2>1, <2>2, <3>1, <3>2
  <2> QED
    BY <2>3, <2>4
<1>5. CASE EndDestroy \/ DestroyDetached
  <2>1. saved' = Nothing
    BY <1>5 DEF EndDestroy, DestroyDetached, RemoveSession
  <2> QED
    BY <2>1 DEF Nothing
<1>6. CASE Restart
  <2>1. saved' = saved /\ resources' = resources /\ attached' = DOMAIN saved
    BY <1>6 DEF Restart, Restored, disk
  <2> QED
    BY <2>1 DEF Nothing
<1> QED
  BY <1>1, <1>2, <1>3, <1>4, <1>5, <1>6, <1>7, SavedChanges

\* When every job has a service type, a file with jobs in it outlives plans,
\* applies and restarts; the session's own destroy removes it with none of the
\* known submissions it lists left running, but for the intents passed over, and
\* else only a manager without jobs does.
THEOREM SavedUntilDestroyedHolds ==
    ASSUME Untyped = {}
    PROVE  Spec => SavedUntilDestroyed
<1>1. ASSUME SessionInv, SavedInv, [Next]_vars, saved # Nothing, saved' = Nothing
      PROVE  \/ DestroyDetached
             \/ ShowDetached /\ ~resources
             \/ /\ op = "destroy" /\ left = {}
                /\ \A j \in DOMAIN saved :
                      id[j] = saved[j] /\ Active(saved[j]) => j \in passed
  <2>1. saved' # saved
    BY <1>1
  <2>2. ~Restart
    BY <2>1 DEF Restart, disk
  <2>3. ~EndPlan
    BY <1>1, <2>1, PlanKeepsFile
  <2>4. ASSUME EndApply PROVE FALSE
    <3>1. attached # {} /\ saved' = [j \in attached |-> id[j]]
      BY <1>1, <2>4 DEF EndApply, SaveJobs
    <3>2. DOMAIN saved' = attached /\ DOMAIN saved' = {}
      BY <1>1, <3>1 DEF Nothing
    <3> QED
      BY <3>1, <3>2
  <2>5. ShowDetached => ~resources
    BY <2>1 DEF ShowDetached, DeleteSessionIfEmpty
  <2>6. EndDestroy \/ DestroyDetached \/ ShowDetached
    BY <1>1, <2>1, <2>2, <2>3, <2>4, SavedChanges
  <2>7. ASSUME EndDestroy, NEW j \in DOMAIN saved, id[j] = saved[j], Active(saved[j])
        PROVE  j \in passed
    <3>1. j \in attached /\ id[j] \in DOMAIN remote
      BY <1>1, <2>7 DEF SavedInv, SavedIsAttached, SessionInv, TypeOK
    <3>2. id[j] # 0
      BY <1>1, <3>1 DEF SessionInv, TypeOK
    <3> QED
      BY <1>1, <2>7, <3>1, <3>2 DEF SessionInv, StopInv, EndDestroy
  <2> QED
    BY <2>5, <2>6, <2>7 DEF EndDestroy
<1>2. SessionInv /\ SavedInv /\ [Next]_vars =>
        [saved # Nothing /\ saved' = Nothing =>
            \/ DestroyDetached
            \/ ShowDetached /\ ~resources
            \/ /\ op = "destroy" /\ left = {}
               /\ \A j \in DOMAIN saved :
                     id[j] = saved[j] /\ Active(saved[j]) => j \in passed]_vars
  BY <1>1
<1>3. SessionInv /\ SavedInv /\ [Next]_vars => SavedInv'
  BY SavedStep
<1> QED
  BY <1>2, <1>3, SavedInit, SessionInit, SessionStep, PTL DEF Spec, SavedUntilDestroyed

-----------------------------------------------------------------------------
(* What outlives a destroy, when no create fails.  The last submission of a *)
(* job that still runs is the one the session knows of, and it is in the    *)
(* jobs file unless the apply that made it has yet to write it.             *)

Superseded(s) ==
    \E t \in DOMAIN remote : t > s /\ remote[t].jobs \cap remote[s].jobs # {}

LastInv ==
    \A s \in DOMAIN remote :
        /\ remote[s].jobs # {} /\ remote[s].jobs \subseteq Job
        /\ Active(s) /\ ~Superseded(s) =>
             \A j \in remote[s].jobs :
                 /\ j \in attached /\ id[j] = s
                 /\ \/ op = "apply" /\ j \notin left
                    \/ j \in DOMAIN saved /\ saved[j] = s

LEMMA LastInit == Init => LastInv
<1> SUFFICES ASSUME Init PROVE DOMAIN remote = {}
  BY DEF LastInv
<1> QED
  BY DEF Init

\* Neither the facility nor the file changes, and no apply ends.
LEMMA LastSame ==
    ASSUME LastInv, remote' = remote, id' = id, attached \subseteq attached', saved' = saved,
           op = "apply" => op' = "apply" /\ left' \subseteq left
    PROVE  LastInv'
<1> SUFFICES ASSUME NEW s \in DOMAIN remote, Active(s), ~Superseded(s), NEW j \in remote[s].jobs
             PROVE  /\ j \in attached' /\ id[j] = s
                    /\ \/ op' = "apply" /\ j \notin left'
                       \/ j \in DOMAIN saved /\ saved[j] = s
  BY DEF LastInv, Active, Superseded
<1> QED
  BY DEF LastInv

\* A submission stops.
LEMMA LastStops ==
    ASSUME TypeOK, LastInv, NEW i \in DOMAIN remote, NEW x \in RemoteState, x # "ACTIVE",
           remote' = [remote EXCEPT ![i].state = x], id' = id, attached' = attached,
           saved' = saved, op = "apply" => op' = "apply" /\ left' = left
    PROVE  LastInv'
<1>1. remote \in Seq(Submission)
  BY DEF TypeOK, Submission
<1>2. /\ DOMAIN remote' = DOMAIN remote /\ remote'[i].state = x
      /\ \A s \in DOMAIN remote :
            /\ remote'[s].jobs = remote[s].jobs
            /\ s # i => remote'[s] = remote[s]
  BY <1>1, StateSet
<1>3. \A s \in DOMAIN remote : /\ Active(s)' => Active(s)
                               /\ Superseded(s)' <=> Superseded(s)
  BY <1>2 DEF Active, Superseded
<1> QED
  BY <1>2, <1>3 DEF LastInv

\* A new submission supersedes those it shares a job with, and no other.
LEMMA LastCreates ==
    ASSUME SessionInv, LastInv, NEW jobs \in SUBSET Job, jobs # {}, jobs \subseteq left,
           op = "apply", CreateOk(jobs), attached' = attached, saved' = saved
    PROVE  LastInv'
<1>1. /\ Accept(jobs) /\ op' = "apply" /\ left' = left \ jobs
      /\ id' = [j \in Job |-> IF j \in jobs THEN Len(remote') ELSE id[j]]
  BY DEF CreateOk, Handled
<1>2. /\ Len(remote) \in Nat /\ Len(remote') = Len(remote) + 1
      /\ DOMAIN remote = 1..Len(remote) /\ DOMAIN remote' = 1..(Len(remote) + 1)
      /\ remote'[Len(remote')] = [jobs |-> jobs, state |-> "ACTIVE"]
      /\ \A s \in DOMAIN remote : remote'[s] = remote[s] /\ (Active(s)' <=> Active(s))
  BY <1>1, AcceptGives DEF SessionInv
<1>3. jobs \subseteq attached /\ attached \subseteq Job
  BY DEF SessionInv, TypeOK
<1>4. ASSUME NEW s \in DOMAIN remote', NEW j \in remote'[s].jobs, Active(s)', ~Superseded(s)'
      PROVE  /\ j \in attached' /\ id'[j] = s
             /\ \/ op' = "apply" /\ j \notin left'
                \/ j \in DOMAIN saved' /\ saved'[j] = s
  <2>1. CASE s = Len(remote')
    <3>1. j \in jobs
      BY <1>2, <2>1
    <3> QED
      BY <1>1, <1>3, <2>1, <3>1
  <2>2. CASE s # Len(remote')
    <3>1. s \in DOMAIN remote /\ s < Len(remote') /\ Len(remote') \in DOMAIN remote'
      BY <1>2, <2>2
    <3>2. remote'[s] = remote[s] /\ Active(s) /\ remote'[Len(remote')].jobs = jobs
      BY <1>2, <1>4, <3>1
    <3>3. j \notin jobs
      BY <1>4, <3>1, <3>2 DEF Superseded
    <3>4. ~Superseded(s)
      BY <1>2, <1>4, <3>1, <3>2 DEF Superseded
    <3>5. /\ j \in attached /\ id[j] = s /\ j \in Job
          /\ \/ op = "apply" /\ j \notin left
             \/ j \in DOMAIN saved /\ saved[j] = s
      BY <3>1, <3>2, <3>4, <1>4 DEF LastInv
    <3> QED
      BY <1>1, <3>3, <3>5
  <2> QED
    BY <2>1, <2>2
<1>5. \A s \in DOMAIN remote' : remote'[s].jobs # {} /\ remote'[s].jobs \subseteq Job
  BY <1>2 DEF LastInv
<1> QED
  BY <1>4, <1>5 DEF LastInv

\* A destroy that comes to its end leaves no last submission running.
LEMMA NothingLasts ==
    ASSUME IntentJob = {}, SessionInv, LastInv, EndDestroy, NEW s \in DOMAIN remote, Active(s)
    PROVE  Superseded(s)
<1> SUFFICES ASSUME ~Superseded(s) PROVE FALSE
  OBVIOUS
<1>1. PICK j \in remote[s].jobs : TRUE
  BY DEF LastInv
<1>2. j \in attached /\ id[j] = s
  BY <1>1 DEF LastInv
<1>3. op = "destroy" /\ left = {}
  BY DEF EndDestroy
<1>4. s # 0
  BY DEF SessionInv, TypeOK
<1> QED
  BY <1>2, <1>3, <1>4 DEF SessionInv, StopInv, TypeOK

LEMMA LastStep ==
    ASSUME Untyped = {}, IntentJob = {}, HasResources \/ "detached" \notin Fault,
           Fault \cap {"refuse", "lose", "crash", "overwrite", "bypass"} = {}
    PROVE  SessionInv /\ SavedInv /\ LastInv /\ [Next]_vars => LastInv'
<1> SUFFICES ASSUME SessionInv, SavedInv, LastInv, [Next]_vars PROVE LastInv'
  OBVIOUS
<1> USE DEF facility, memory, disk, call, waiting
<1>1. ASSUME NEW j \in Job, AddJob(j) PROVE LastInv'
  <2>1. j \notin attached /\ attached' = attached \cup {j} /\ id' = [id EXCEPT ![j] = 0]
    BY <1>1 DEF AddJob
  <2>2. remote' = remote /\ saved' = saved /\ op' = op /\ left' = left
    BY <1>1 DEF AddJob
  <2>3. ASSUME NEW s \in DOMAIN remote, NEW k \in remote[s].jobs, Active(s), ~Superseded(s)
        PROVE  /\ k \in attached' /\ id'[k] = s
               /\ \/ op' = "apply" /\ k \notin left'
                  \/ k \in DOMAIN saved' /\ saved'[k] = s
    <3>1. k \in attached /\ id[k] = s /\ k \in Job
      BY <2>3 DEF LastInv
    <3>2. id'[k] = id[k]
      BY <2>1, <3>1 DEF SessionInv, TypeOK
    <3> QED
      BY <2>1, <2>2, <2>3, <3>1, <3>2 DEF LastInv
  <2> QED
    BY <2>2, <2>3 DEF LastInv, Active, Superseded
<1>2. ASSUME NEW j \in Job, DestroyJob(j) PROVE LastInv'
  <2>1. op = "destroy" /\ id' = id /\ attached' = attached /\ saved' = saved
    BY <1>2 DEF DestroyJob
  <2>2. CASE remote' = remote
    BY <2>1, <2>2, LastSame
  <2>3. CASE id[j] # 0 /\ remote' = [remote EXCEPT ![id[j]].state = Canceled(id[j])]
    <3>1. id[j] \in DOMAIN remote /\ remote \in Seq(Submission)
      BY <2>3 DEF SessionInv, TypeOK, Submission
    <3>2. Canceled(id[j]) \in RemoteState /\ Canceled(id[j]) # "ACTIVE"
      BY <3>1, CanceledStops
    <3> QED
      BY <2>1, <2>3, <3>1, <3>2, LastStops DEF SessionInv
  <2> QED
    BY <1>2, <2>2, <2>3 DEF DestroyJob, CancelJob, CancelRaises
<1>15. CASE DestroyDetached
  BY <1>15 DEF DestroyDetached
<1>3. CASE StartPlan \/ StartApply \/ StartDestroy
  BY <1>3, LastSame DEF StartPlan, StartApply, StartDestroy, Begin
<1>4. CASE PlanRaises \/ \E jobs \in SUBSET Job : PlanJobs(jobs)
  BY <1>4, LastSame DEF PlanRaises, PlanJobs
<1>5. CASE EndPlan \/ ShowDetached
  <2>1. saved' = saved /\ attached' = attached
    <3>1. CASE EndPlan
      BY <3>1, PlanKeepsFile
    <3>2. CASE ShowDetached
      BY <3>2 DEF ShowDetached, DeleteSessionIfEmpty, SavedInv
    <3> QED
      BY <1>5, <3>1, <3>2
  <2>2. remote' = remote /\ id' = id /\ op # "apply"
    BY <1>5 DEF EndPlan, ShowDetached
  <2> QED
    BY <2>1, <2>2, LastSame
<1>6. ASSUME NEW jobs \in SUBSET Job, CreateJobs(jobs) PROVE LastInv'
  <2>1. CreateOk(jobs)
    <3>1. Supported(jobs)
      BY DEF Supported
    <3> QED
      BY <1>6, <3>1 DEF CreateJobs, CreateRaises
  <2>2. jobs # {} /\ jobs \subseteq left
    BY <1>6 DEF CreateJobs, NextJobs
  <2> QED
    BY <1>6, <2>1, <2>2, LastCreates DEF CreateJobs
<1>7. CASE EndApply
  <2>1. /\ remote' = remote /\ id' = id /\ attached' = attached /\ op = "apply" /\ left = {}
        /\ saved' = IF attached = {} THEN saved ELSE [j \in attached |-> id[j]]
    BY <1>7 DEF EndApply, SaveJobs
  <2>2. ASSUME NEW s \in DOMAIN remote, NEW j \in remote[s].jobs, Active(s), ~Superseded(s)
        PROVE  j \in attached /\ id[j] = s /\ j \in DOMAIN saved' /\ saved'[j] = s
    <3>1. j \in attached /\ id[j] = s
      BY <2>2 DEF LastInv
    <3>2. saved' = [k \in attached |-> id[k]]
      BY <2>1, <3>1
    <3> QED
      BY <3>1, <3>2
  <2> QED
    BY <2>1, <2>2 DEF LastInv, Active, Superseded
<1>8. CASE EndDestroy
  <2>1. remote' = remote
    BY <1>8 DEF EndDestroy
  <2>2. \A s \in DOMAIN remote : Active(s) => Superseded(s)
    BY <1>8, NothingLasts
  <2> QED
    BY <2>1, <2>2 DEF LastInv, Active, Superseded
<1>9. CASE Restart
  <2>1. /\ remote' = remote /\ saved' = saved /\ op = "idle"
        /\ attached' = DOMAIN saved
        /\ id' = [j \in Job |-> IF j \in DOMAIN saved THEN saved[j] ELSE 0]
    BY <1>9 DEF Restart, Restored
  <2>2. ASSUME NEW s \in DOMAIN remote, NEW j \in remote[s].jobs, Active(s), ~Superseded(s)
        PROVE  j \in attached' /\ id'[j] = s /\ j \in DOMAIN saved' /\ saved'[j] = s
    <3>1. j \in Job /\ j \in DOMAIN saved /\ saved[j] = s
      BY <2>1, <2>2 DEF LastInv
    <3> QED
      BY <2>1, <3>1
  <2> QED
    BY <2>1, <2>2 DEF LastInv, Active, Superseded
<1>10. ASSUME NEW jobs \in SUBSET Job, NEW timeout \in BOOLEAN, StartWait(jobs, timeout)
       PROVE  LastInv'
  BY <1>10, LastSame DEF StartWait, Begin
<1>11. CASE WaitStep
  BY <1>11, LastSame DEF WaitStep, StartRound, TimeOut, EndRound, Poll
<1>12. ASSUME NEW s \in DOMAIN remote, Finish(s) PROVE LastInv'
  <2>1. PICK x \in {"COMPLETED", "FAILED"} : remote' = [remote EXCEPT ![s].state = x]
    BY <1>12 DEF Finish
  <2>2. x \in RemoteState /\ x # "ACTIVE"
    BY DEF RemoteState, Final
  <2>3. id' = id /\ attached' = attached /\ saved' = saved /\ op' = op /\ left' = left
    BY <1>12 DEF Finish
  <2> QED
    BY <2>1, <2>2, <2>3, LastStops DEF SessionInv
<1>13. ASSUME NEW s \in DOMAIN remote, Purge(s) PROVE LastInv'
  BY <1>13, LastSame DEF Purge
<1>14. CASE UNCHANGED vars
  BY <1>14, LastSame DEF vars
<1> QED
  BY <1>1, <1>2, <1>3, <1>4, <1>5, <1>6, <1>7, <1>8, <1>9, <1>10, <1>11, <1>12, <1>13, <1>14,
     <1>15 DEF Next

\* "session.destroy()   # cancels running jobs and removes session state"
\* (README.md): across restarts, and as long as no create fails, a submission
\* that still runs after a destroy is an old one, of a job that was submitted again.
THEOREM OnlySupersededSurviveHolds ==
    ASSUME Untyped = {}, IntentJob = {}, HasResources \/ "detached" \notin Fault,
           Fault \cap {"refuse", "lose", "crash", "overwrite", "bypass"} = {}
    PROVE  Spec => OnlySupersededSurvive
<1>1. SessionInv /\ LastInv /\ [Next]_vars =>
        [EndDestroy =>
            \A s \in DOMAIN remote : Active(s) =>
                \E t \in DOMAIN remote :
                    t > s /\ remote[t].jobs \cap remote[s].jobs # {}]_vars
  BY NothingLasts DEF Superseded
<1>2. SessionInv /\ SavedInv /\ [Next]_vars => SavedInv'
  BY SavedStep
<1>3. SessionInv /\ SavedInv /\ LastInv /\ [Next]_vars => LastInv'
  BY LastStep
<1> QED
  BY <1>1, <1>2, <1>3, SavedInit, SessionInit, LastInit, SessionStep, PTL
  DEF Spec, OnlySupersededSurvive
=============================================================================
