-------------------------- MODULE Facility_proofs ---------------------------
(* Proofs about Facility, for any submissions and any number of rotations    *)
(* and faults: what the retry of a call makes of a new token and of a lost   *)
(* answer is no worse than the token and the answer.  Then about the two     *)
(* caches that processes share, Versions, which the client asks before it is *)
(* built, and Discovery, which keeps what it was told.                       *)
EXTENDS Facility, Versions, Discovery, FiniteSetTheorems, SequenceTheorems, TLAPS

JobStates == {"QUEUED", "ACTIVE", "UNKNOWN", "NEW"} \cup Terminal
Run == [state : JobStates, listed : BOOLEAN]
Wrapper == [phase : Phases, id : Nat, state : JobStates, polls : Nat, historical : BOOLEAN]

FacilityTypes ==
    /\ server \in Nat \ {0} /\ client \in Nat /\ faults \in Nat /\ refused \in Nat
    /\ hasProvider \in BOOLEAN
    /\ fs \in [Volumes -> Int]
    /\ job \in [Jobs -> Wrapper]
    /\ remote \in [Jobs -> Seq(Run)]

\* A wrapper that was returned stands for a job at the facility.
HeldIsThere ==
    \A j \in Jobs :
        /\ job[j].phase = "new" => job[j].id = 0
        /\ job[j].phase # "new" => job[j].id \in 1..Len(remote[j])

\* Whoever was refused with this token has the new one already.
RefusedHasNew ==
    hasProvider => refused <= 1 /\ (refused > 0 => client = server)

FacilityInv == FacilityTypes /\ HeldIsThere /\ RefusedHasNew /\ OrphansAreFaults

-----------------------------------------------------------------------------
(* One call through _call_api.                                               *)

Answers == [ok : BOOLEAN, done : BOOLEAN, auth : BOOLEAN,
            why : {"unavailable", "refused", "fault", "none"}]

LEMMA AttemptFacts ==
    ASSUME NEW c \in Int, server \in Nat \ {0}, NEW a \in Attempt(c)
    PROVE  /\ a \in Answers
           /\ a.ok => a.done /\ a.why = "none" /\ ~a.auth
           /\ a.done /\ ~a.ok => a.why = "fault"
           /\ a.why = "refused" => c # server /\ a.auth
           /\ c # server => ~a.done /\ ~a.ok /\ (a.auth <=> a.why = "refused")
<1>1. CASE c = 0
  <2>1. a = [ok |-> FALSE, done |-> FALSE, auth |-> FALSE, why |-> "unavailable"]
    BY <1>1 DEF Attempt
  <2> QED BY <1>1, <2>1 DEF Answers
<1>2. CASE c # 0 /\ c # server
  <2>1. a = [ok |-> FALSE, done |-> FALSE, auth |-> TRUE, why |-> "refused"]
    BY <1>2 DEF Attempt
  <2> QED BY <1>2, <2>1 DEF Answers
<1>3. CASE c = server
  <2>1. a \in {[ok |-> TRUE, done |-> TRUE, auth |-> FALSE, why |-> "none"]}
                \cup [ok : {FALSE}, done : BOOLEAN, auth : BOOLEAN, why : {"fault"}]
    BY <1>3 DEF Attempt
  <2>2. CASE a = [ok |-> TRUE, done |-> TRUE, auth |-> FALSE, why |-> "none"]
    BY <1>3, <2>2 DEF Answers
  <2>3. CASE a \in [ok : {FALSE}, done : BOOLEAN, auth : BOOLEAN, why : {"fault"}]
    <3>1. a \in Answers /\ a.ok = FALSE /\ a.why = "fault"
      BY <2>3 DEF Answers
    <3> QED BY <1>3, <3>1
  <2> QED BY <2>1, <2>2, <2>3
<1> QED BY <1>1, <1>2, <1>3

\* A call is one attempt, or two with the same token, the first of which was
\* refused for its token or failed with a text that looks like it.
LEMMA CallShape ==
    ASSUME NEW c \in Int, server \in Nat \ {0}, NEW call \in Calls(c)
    PROVE  /\ call \in Seq(Answers) /\ Len(call) \in {1, 2} /\ DOMAIN call = 1..Len(call)
           /\ \A i \in 1..Len(call) : call[i] \in Attempt(c)
           /\ Len(call) = 2 => call[1].auth /\ hasProvider
           /\ Len(call) = 1 => ~(call[1].auth /\ hasProvider)
<1>1. CASE call \in {<<a>> : a \in {x \in Attempt(c) : ~Rebuilds(x)}}
  <2>1. PICK a \in Attempt(c) : ~Rebuilds(a) /\ call = <<a>>
    BY <1>1
  <2>2. a \in Answers
    BY AttemptFacts
  <2> QED BY <2>1, <2>2 DEF Rebuilds, IsAuthError
<1>2. CASE call \in {<<a, b>> : a \in {x \in Attempt(c) : Rebuilds(x)},
                             b \in Attempt(Resolved(c, server))}
  <2>1. PICK a \in Attempt(c), b \in Attempt(c) : Rebuilds(a) /\ call = <<a, b>>
    BY <1>2 DEF Resolved
  <2>2. a \in Answers /\ b \in Answers
    BY AttemptFacts
  <2> QED BY <2>1, <2>2 DEF Rebuilds, IsAuthError
<1> QED BY <1>1, <1>2 DEF Calls

\* What was carried out without being answered was a fault.
LEMMA CallCounts ==
    ASSUME NEW c \in Int, server \in Nat \ {0}, NEW call \in Calls(c)
    PROVE  /\ Faulty(call) \in Nat /\ Launched(call) \in Nat
           /\ Outcome(call).ok => Launched(call) >= 1 /\ Launched(call) <= Faulty(call) + 1
           /\ ~Outcome(call).ok => Launched(call) <= Faulty(call)
<1> DEFINE n == Len(call)
           Done == {i \in DOMAIN call : call[i].done}
           Faults == {i \in DOMAIN call : call[i].why = "fault"}
<1>1. n \in {1, 2} /\ DOMAIN call = 1..n /\ \A i \in 1..n : call[i] \in Attempt(c)
  BY CallShape
<1>2. IsFiniteSet(1..n)
  BY <1>1, FS_Interval
<1>3. IsFiniteSet(Done) /\ IsFiniteSet(Faults)
  BY <1>1, <1>2, FS_Subset
<1>4. Cardinality(Done) \in Nat /\ Cardinality(Faults) \in Nat
  BY <1>3, FS_CardinalityType
<1>5. \A i \in 1..n : call[i].done => call[i].ok \/ call[i].why = "fault"
  BY <1>1, AttemptFacts
<1>6. \A i \in 1..n : call[i].ok => i = n
  <2> SUFFICES ASSUME NEW i \in 1..n, call[i].ok, i # n PROVE FALSE
    OBVIOUS
  <2>1. n = 2 /\ i = 1
    <3>1. n \in {1, 2}
      BY <1>1
    <3> HIDE DEF n
    <3> QED BY <3>1
  <2>2. call[1].auth
    BY <2>1, CallShape
  <2>3. call[1] \in Attempt(c)
    BY <1>1, <2>1
  <2> QED BY <2>1, <2>2, <2>3, AttemptFacts
<1>7. CASE Outcome(call).ok
  <2>1. n \in Done
    BY <1>1, <1>7, AttemptFacts DEF Outcome
  <2>2. Cardinality(Done) >= 1
    <3>1. Cardinality(Done) # 0
      BY <1>3, <2>1, FS_EmptySet
    <3> HIDE DEF Done
    <3> QED BY <1>4, <3>1
  <2>3. Done \subseteq Faults \cup {n}
    BY <1>1, <1>5, <1>6
  <2>4. IsFiniteSet(Faults \cup {n}) /\ Cardinality(Faults \cup {n}) <= Cardinality(Faults) + 1
    <3> HIDE DEF Faults, n
    <3>1. /\ IsFiniteSet(Faults \cup {n})
          /\ Cardinality(Faults \cup {n})
                = IF n \in Faults THEN Cardinality(Faults) ELSE Cardinality(Faults) + 1
      BY <1>3, FS_AddElement, Zenon
    <3> QED BY <1>4, <3>1
  <2>5. Cardinality(Done) <= Cardinality(Faults \cup {n})
    BY <2>3, <2>4, FS_Subset
  <2>6. Cardinality(Faults \cup {n}) \in Nat
    BY <2>4, FS_CardinalityType
  <2> QED BY <1>4, <1>7, <2>2, <2>4, <2>5, <2>6 DEF Launched, Faulty
<1>8. CASE ~Outcome(call).ok
  <2>1. Done \subseteq Faults
    BY <1>1, <1>5, <1>6, <1>8 DEF Outcome
  <2>2. Cardinality(Done) <= Cardinality(Faults)
    BY <1>3, <2>1, FS_Subset
  <2> QED BY <1>4, <1>8, <2>2 DEF Launched, Faulty
<1> QED BY <1>7, <1>8

\* A refusal leaves a client that has a provider with the new token, and no
\* call leaves it with an older one.
LEMMA CallRenews ==
    ASSUME NEW c \in Int, server \in Nat \ {0}, NEW call \in Calls(c)
    PROVE  /\ NewClient(call[1]) \in {client, server}
           /\ Outcome(call).why = "refused" =>
                 c # server /\ (hasProvider => NewClient(call[1]) = server)
<1>1. Len(call) \in {1, 2} /\ \A i \in 1..Len(call) : call[i] \in Attempt(c)
  BY CallShape
<1>2. call[1] \in Attempt(c) /\ Outcome(call) \in Attempt(c)
  BY <1>1 DEF Outcome
<1>3. Outcome(call).why = "refused" => c # server /\ (Len(call) = 1 => call[1].auth)
  BY <1>1, <1>2, AttemptFacts DEF Outcome
<1>4. Outcome(call).why = "refused" => call[1].auth
  BY <1>1, <1>3, CallShape
<1> QED BY <1>3, <1>4 DEF NewClient, Rebuilds, IsAuthError

-----------------------------------------------------------------------------
(* The jobs at the facility that no wrapper stands for.                      *)

LEMMA OrphanCount ==
    ASSUME NEW n \in Nat, NEW k \in Nat
    PROVE  Cardinality({i \in 1..n : i # k}) = IF k \in 1..n THEN n - 1 ELSE n
<1>1. IsFiniteSet(1..n) /\ Cardinality(1..n) = n
  BY FS_Interval
<1>2. Cardinality((1..n) \ {k})
        = IF k \in 1..n THEN Cardinality(1..n) - 1 ELSE Cardinality(1..n)
  BY <1>1, FS_RemoveElement
<1>3. {i \in 1..n : i # k} = (1..n) \ {k}
  OBVIOUS
<1> QED BY <1>1, <1>2, <1>3

\* What OrphansAreFaults says of one submission, as a count.
Orphans(j) == IF job[j].phase = "new" THEN Len(remote[j]) ELSE Len(remote[j]) - 1

FewOrphans == \A j \in Jobs : Orphans(j) <= faults

LEMMA OrphansCounted ==
    FacilityTypes /\ HeldIsThere => (OrphansAreFaults <=> FewOrphans)
<1> SUFFICES ASSUME FacilityTypes, HeldIsThere PROVE OrphansAreFaults <=> FewOrphans
  OBVIOUS
<1>1. ASSUME NEW j \in Jobs
      PROVE  Cardinality({i \in DOMAIN remote[j] : i # job[j].id}) = Orphans(j)
  <2>1. remote[j] \in Seq(Run) /\ job[j] \in Wrapper
    BY DEF FacilityTypes
  <2>2. Len(remote[j]) \in Nat /\ DOMAIN remote[j] = 1..Len(remote[j]) /\ job[j].id \in Nat
    BY <2>1 DEF Wrapper
  <2>3. job[j].id \in 1..Len(remote[j]) <=> job[j].phase # "new"
    BY <2>2 DEF HeldIsThere
  <2> QED BY <2>2, <2>3, OrphanCount DEF Orphans
<1> QED BY <1>1 DEF OrphansAreFaults, FewOrphans

\* A step that launches nothing and gives up no wrapper.
LEMMA NoneLaunched ==
    ASSUME FacilityInv, FacilityTypes', RefusedHasNew', faults' >= faults,
           \A j \in Jobs :
               /\ Len(remote'[j]) = Len(remote[j])
               /\ job[j].phase # "new" => job'[j].phase # "new" /\ job'[j].id = job[j].id
               /\ job'[j].phase = "new" => job'[j].id = 0
               /\ job[j].phase = "new" /\ job'[j].phase # "new" =>
                     job'[j].id \in 1..Len(remote[j])
    PROVE  FacilityInv'
<1>1. ASSUME NEW j \in Jobs
      PROVE  /\ Len(remote'[j]) = Len(remote[j]) /\ Len(remote[j]) \in Nat
             /\ job[j].phase = "new" => job[j].id = 0
             /\ job[j].phase # "new" =>
                   /\ job'[j].phase # "new" /\ job'[j].id = job[j].id
                   /\ job[j].id \in 1..Len(remote[j])
             /\ job'[j].phase = "new" => job'[j].id = 0
             /\ job[j].phase = "new" /\ job'[j].phase # "new" =>
                   job'[j].id \in 1..Len(remote[j])
  <2>1. remote[j] \in Seq(Run)
    BY DEF FacilityInv, FacilityTypes
  <2>2. Len(remote[j]) \in Nat
    BY <2>1
  <2>3. /\ job[j].phase = "new" => job[j].id = 0
        /\ job[j].phase # "new" => job[j].id \in 1..Len(remote[j])
    BY DEF FacilityInv, HeldIsThere
  <2> QED BY <2>2, <2>3
<1>2. HeldIsThere'
  <2> SUFFICES ASSUME NEW j \in Jobs
               PROVE  /\ job'[j].phase = "new" => job'[j].id = 0
                      /\ job'[j].phase # "new" => job'[j].id \in 1..Len(remote'[j])
    BY DEF HeldIsThere
  <2> QED BY <1>1
<1>3. FewOrphans
  BY OrphansCounted DEF FacilityInv
<1>4. FewOrphans'
  <2> SUFFICES ASSUME NEW j \in Jobs PROVE Orphans(j)' <= faults'
    BY DEF FewOrphans
  <2>1. faults \in Int /\ faults' \in Int
    BY DEF FacilityInv, FacilityTypes
  <2>2. Orphans(j) <= faults
    BY <1>3 DEF FewOrphans
  <2> QED BY <1>1, <2>1, <2>2 DEF Orphans
<1>5. OrphansAreFaults'
  BY <1>2, <1>4, OrphansCounted, PTL
<1> QED BY <1>2, <1>5 DEF FacilityInv

-----------------------------------------------------------------------------
(* The client's operations and the facility.                                 *)

LEMMA Start == FacilityInit => FacilityInv
<1> SUFFICES ASSUME FacilityInit PROVE FacilityInv
  OBVIOUS
<1>1. FacilityTypes
  BY DEF FacilityInit, FacilityTypes, Wrapper, Phases, JobStates, NoFs
<1>2. HeldIsThere /\ RefusedHasNew
  BY DEF FacilityInit, HeldIsThere, RefusedHasNew
<1>3. FewOrphans
  BY DEF FacilityInit, FewOrphans, Orphans
<1> QED BY <1>1, <1>2, <1>3, OrphansCounted DEF FacilityInv

\* What every call through _call_api does to the client and to the counter of
\* refusals.
LEMMA CallApiKeeps ==
    ASSUME FacilityInv, NEW c \in Int, NEW call \in Calls(c), CallApi(call),
           UNCHANGED <<server, hasProvider>>,
           refused' = CountRefused(call, c)
    PROVE  /\ client' \in Nat /\ refused' \in Nat /\ faults' \in Nat
           /\ faults' = faults + Faulty(call) /\ faults' >= faults
           /\ RefusedHasNew'
<1>1. /\ server \in Nat \ {0} /\ client \in Nat /\ faults \in Nat /\ refused \in Nat
      /\ hasProvider \in BOOLEAN
      /\ hasProvider => refused <= 1 /\ (refused > 0 => client = server)
  BY DEF FacilityInv, FacilityTypes, RefusedHasNew
<1>2. /\ NewClient(call[1]) \in {client, server}
      /\ Outcome(call).why = "refused" =>
            c # server /\ (hasProvider => NewClient(call[1]) = server)
  BY <1>1, CallRenews
<1>3. Faulty(call) \in Nat
  BY <1>1, CallCounts
<1>4. client' = NewClient(call[1]) /\ faults' = faults + Faulty(call)
  BY DEF CallApi
<1>5. refused' \in Nat /\ (refused' # refused => Outcome(call).why = "refused" /\ c = client
                                                  /\ refused' = refused + 1)
  BY <1>1 DEF CountRefused, WasRefused
<1>6. RefusedHasNew'
  BY <1>1, <1>2, <1>4, <1>5 DEF RefusedHasNew
<1> QED BY <1>1, <1>2, <1>3, <1>4, <1>5, <1>6

LEMMA RepeatedIsSeq ==
    ASSUME NEW S, NEW e \in S, NEW m \in Nat
    PROVE  [i \in 1..m |-> e] \in Seq(S) /\ Len([i \in 1..m |-> e]) = m
OBVIOUS

\* Each call launches at most what it reports and what it lost.
LEMMA SubmitKeeps ==
    ASSUME FacilityInv, NEW j \in Jobs, Submit(j)
    PROVE  FacilityInv'
<1>1. PICK call \in Calls(client) :
        /\ CallApi(call)
        /\ remote' = [remote EXCEPT ![j] =
               @ \o [i \in 1..Launched(call) |-> [state |-> "QUEUED", listed |-> TRUE]]]
        /\ job' = IF Outcome(call).ok
                  THEN [job EXCEPT ![j].phase = "held", ![j].id = Len(remote'[j]),
                                   ![j].state = "NEW"]
                  ELSE job
        /\ refused' = CountRefused(call, client)
  BY DEF Submit
<1>2. job[j].phase = "new" /\ job[j].id = 0 /\ UNCHANGED <<server, hasProvider, fs>>
  BY DEF Submit, FacilityInv, HeldIsThere
<1>3. /\ server \in Nat \ {0} /\ client \in Nat /\ faults \in Nat
      /\ job \in [Jobs -> Wrapper] /\ remote \in [Jobs -> Seq(Run)]
  BY DEF FacilityInv, FacilityTypes
<1>4. /\ client' \in Nat /\ refused' \in Nat /\ faults' \in Nat
      /\ faults' = faults + Faulty(call) /\ faults' >= faults
      /\ RefusedHasNew'
  BY <1>1, <1>2, <1>3, CallApiKeeps
<1>5. /\ Faulty(call) \in Nat /\ Launched(call) \in Nat
      /\ Outcome(call).ok => Launched(call) >= 1 /\ Launched(call) <= Faulty(call) + 1
      /\ ~Outcome(call).ok => Launched(call) <= Faulty(call)
  BY <1>3, CallCounts
<1> DEFINE n == Len(remote[j])
           new == [i \in 1..Launched(call) |-> [state |-> "QUEUED", listed |-> TRUE]]
<1>6. n \in Nat /\ n <= faults
  <2>1. FewOrphans
    BY OrphansCounted DEF FacilityInv
  <2> QED BY <1>2, <1>3, <2>1 DEF FewOrphans, Orphans
<1>7. new \in Seq(Run) /\ Len(new) = Launched(call)
  <2>1. [state |-> "QUEUED", listed |-> TRUE] \in Run
    BY DEF Run, JobStates
  <2> QED BY <1>5, <2>1, RepeatedIsSeq
<1>8. /\ remote' \in [Jobs -> Seq(Run)] /\ Len(remote'[j]) = n + Launched(call)
      /\ \A k \in Jobs \ {j} : remote'[k] = remote[k]
  <2>1. remote[j] \o new \in Seq(Run) /\ Len(remote[j] \o new) = n + Launched(call)
    <3>1. remote[j] \in Seq(Run)
      BY <1>3
    <3> HIDE DEF new
    <3>2. /\ remote[j] \o new \in Seq(Run)
          /\ Len(remote[j] \o new) = Len(remote[j]) + Len(new)
      BY <1>7, <3>1, ConcatProperties, Zenon
    <3> QED BY <1>7, <3>2
  <2>2. remote' = [remote EXCEPT ![j] = remote[j] \o new]
    BY <1>1, <1>3
  <2> HIDE DEF new
  <2> QED BY <1>3, <2>1, <2>2
<1>9. /\ job' \in [Jobs -> Wrapper] /\ \A k \in Jobs \ {j} : job'[k] = job[k]
      /\ Outcome(call).ok => job'[j].phase = "held" /\ job'[j].id = n + Launched(call)
      /\ ~Outcome(call).ok => job'[j] = job[j]
  <2>1. CASE Outcome(call).ok
    <3>2. job[j] \in Wrapper /\ n + Launched(call) \in Nat /\ "NEW" \in JobStates
      BY <1>3, <1>5, <1>6 DEF JobStates
    <3> DEFINE held == [job[j] EXCEPT !.phase = "held", !.id = n + Launched(call),
                                      !.state = "NEW"]
    <3>1. job' = [job EXCEPT ![j] = held]
      BY <1>1, <1>3, <1>8, <2>1
    <3>3. held \in Wrapper /\ held.phase = "held" /\ held.id = n + Launched(call)
      <4> DEFINE k == n + Launched(call)
      <4>1. k \in Nat
        BY <3>2
      <4> HIDE DEF k
      <4>2. held = [job[j] EXCEPT !.phase = "held", !.id = k, !.state = "NEW"]
        BY DEF k
      <4> HIDE DEF held, k
      <4>3. held \in Wrapper /\ held.phase = "held" /\ held.id = k
        BY <3>2, <4>1, <4>2 DEF Wrapper, Phases
      <4> QED BY <4>3 DEF k
    <3> HIDE DEF held
    <3> QED BY <1>3, <2>1, <3>1, <3>3
  <2>2. CASE ~Outcome(call).ok
    BY <1>1, <1>3, <2>2
  <2> QED BY <2>1, <2>2
<1> HIDE DEF n, new
<1>10. FacilityTypes'
  BY <1>2, <1>4, <1>8, <1>9 DEF FacilityInv, FacilityTypes
<1>11. HeldIsThere'
  <2> SUFFICES ASSUME NEW k \in Jobs
               PROVE  /\ job'[k].phase = "new" => job'[k].id = 0
                      /\ job'[k].phase # "new" => job'[k].id \in 1..Len(remote'[k])
    BY DEF HeldIsThere
  <2>1. CASE k = j
    BY <1>2, <1>5, <1>6, <1>8, <1>9, <2>1
  <2>2. CASE k # j
    BY <1>8, <1>9, <2>2 DEF FacilityInv, HeldIsThere
  <2> QED BY <2>1, <2>2
<1>12. FewOrphans'
  <2> SUFFICES ASSUME NEW k \in Jobs PROVE Orphans(k)' <= faults'
    BY DEF FewOrphans
  <2>1. CASE k = j
    BY SMTT(30), <1>2, <1>3, <1>4, <1>5, <1>6, <1>8, <1>9, <2>1 DEF Orphans
  <2>2. CASE k # j
    <3>1. Orphans(k) <= faults
      BY OrphansCounted DEF FacilityInv, FewOrphans
    <3>2. Orphans(k)' = Orphans(k) /\ Orphans(k) \in Int
      BY <1>3, <1>8, <1>9, <2>2 DEF Orphans
    <3> QED BY <1>3, <1>4, <3>1, <3>2
  <2> QED BY <2>1, <2>2
<1>13. OrphansAreFaults'
  BY <1>10, <1>11, <1>12, OrphansCounted, PTL
<1> QED BY <1>4, <1>10, <1>11, <1>13 DEF FacilityInv

\* The calls that look at the jobs and change their wrapper only.
LEMMA WrapperKeeps ==
    ASSUME FacilityInv, NEW j \in Jobs, Adopt(j) \/ Wait(j) \/ Poll(j)
    PROVE  FacilityInv'
<1>1. /\ server \in Nat \ {0} /\ faults \in Nat
      /\ job \in [Jobs -> Wrapper] /\ remote \in [Jobs -> Seq(Run)]
  BY DEF FacilityInv, FacilityTypes
<1>2. /\ UNCHANGED <<server, hasProvider, client, fs, remote, refused>>
      /\ \A k \in Jobs : Len(remote'[k]) = Len(remote[k])
  BY DEF Adopt, Wait, Poll
<1>3. faults' \in Nat /\ faults' >= faults
  <2>1. faults' = faults \/ faults' = faults + 1
    BY DEF Adopt, Wait, Poll
  <2> QED BY <1>1, <2>1
<1>4. PICK w \in Wrapper :
        /\ job' = [job EXCEPT ![j] = w] /\ w.phase # "new"
        /\ job[j].phase # "new" => w.id = job[j].id
        /\ job[j].phase = "new" => w.id \in 1..Len(remote[j])
  <2>1. CASE Adopt(j)
    <3>1. PICK historical \in BOOLEAN, i \in DOMAIN remote[j] :
            job' = [job EXCEPT ![j].phase = "held", ![j].id = i,
                               ![j].state = remote[j][i].state]
      BY <2>1 DEF Adopt, GetJobs
    <3>2. remote[j] \in Seq(Run) /\ job[j] \in Wrapper
      BY <1>1
    <3>3. i \in 1..Len(remote[j]) /\ i \in Nat /\ remote[j][i] \in Run
      BY <3>2
    <3>4. remote[j][i].state \in JobStates
      BY <3>3 DEF Run
    <3> DEFINE w == [job[j] EXCEPT !.phase = "held", !.id = i, !.state = remote[j][i].state]
    <3>5. w \in Wrapper /\ w.phase = "held" /\ w.id = i
      BY <3>2, <3>3, <3>4 DEF Wrapper, Phases
    <3>6. job' = [job EXCEPT ![j] = w] /\ job[j].phase = "new"
      BY <1>1, <2>1, <3>1 DEF Adopt
    <3> QED BY <3>3, <3>5, <3>6
  <2>2. CASE Wait(j)
    <3>1. PICK historical \in BOOLEAN :
            job' = [job EXCEPT ![j].phase = "waiting", ![j].polls = 0,
                               ![j].historical = historical]
      BY <2>2 DEF Wait
    <3>2. job[j] \in Wrapper
      BY <1>1
    <3> DEFINE w == [job[j] EXCEPT !.phase = "waiting", !.polls = 0, !.historical = historical]
    <3>3. w \in Wrapper /\ w.phase = "waiting" /\ w.id = job[j].id
      BY <3>2 DEF Wrapper, Phases
    <3>4. job' = [job EXCEPT ![j] = w] /\ job[j].phase # "new"
      BY <1>1, <2>2, <3>1 DEF Wait
    <3> QED BY <3>3, <3>4
  <2>3. CASE Poll(j)
    <3>1. PICK s \in StatusAnswers(j, job[j].historical), phase \in {"ended", "timedout", "waiting"} :
            job' = [job EXCEPT ![j].state = s, ![j].polls = @ + 1, ![j].phase = phase]
      BY <2>3 DEF Poll
    <3>2. job[j] \in Wrapper /\ remote[j] \in Seq(Run) /\ job[j].id \in 1..Len(remote[j])
          /\ job[j].phase = "waiting"
      BY <1>1, <2>3 DEF FacilityInv, HeldIsThere, Poll
    <3>3. s \in JobStates
      <4>1. remote[j][job[j].id] \in Run
        BY <3>2
      <4> QED BY <4>1 DEF StatusAnswers, Run, JobStates, Terminal
    <3> DEFINE polls == job[j].polls + 1
               w == [job[j] EXCEPT !.state = s, !.polls = polls, !.phase = phase]
    <3>4. w \in Wrapper /\ w.phase = phase /\ w.id = job[j].id
      <4>1. polls \in Nat
        BY <3>2 DEF Wrapper
      <4> HIDE DEF polls
      <4> QED BY <3>2, <3>3, <4>1 DEF Wrapper, Phases
    <3>5. job' = [job EXCEPT ![j] = w]
      BY <1>1, <3>1
    <3> QED BY <3>2, <3>4, <3>5
  <2> QED BY <2>1, <2>2, <2>3
<1>5. /\ job' \in [Jobs -> Wrapper] /\ job'[j] = w
      /\ \A k \in Jobs \ {j} : job'[k] = job[k]
  BY <1>1, <1>4
<1>6. FacilityTypes'
  BY <1>2, <1>3, <1>5 DEF FacilityInv, FacilityTypes
<1>7. RefusedHasNew'
  BY <1>2 DEF FacilityInv, RefusedHasNew
<1>8. \A k \in Jobs : job[k].phase = "new" => job[k].id = 0
  BY DEF FacilityInv, HeldIsThere
<1> QED BY <1>2, <1>3, <1>4, <1>5, <1>6, <1>7, <1>8, NoneLaunched

\* What changes a job at the facility keeps it in its place.
LEMMA MovesKeep ==
    ASSUME FacilityInv, NEW j \in Jobs, NEW i \in DOMAIN remote[j], NEW r \in Run,
           remote' = [remote EXCEPT ![j] = [remote[j] EXCEPT ![i] = r]],
           UNCHANGED <<server, hasProvider, fs, job>>, client' \in Nat, refused' \in Nat,
           faults' \in Nat, faults' >= faults, RefusedHasNew'
    PROVE  FacilityInv'
<1>1. remote \in [Jobs -> Seq(Run)]
  BY DEF FacilityInv, FacilityTypes
<1>2. remote[j] \in Seq(Run) /\ i \in 1..Len(remote[j])
  BY <1>1
<1>3. /\ [remote[j] EXCEPT ![i] = r] \in Seq(Run)
      /\ Len([remote[j] EXCEPT ![i] = r]) = Len(remote[j])
  BY <1>2, ExceptSeq
<1>4. remote' \in [Jobs -> Seq(Run)] /\ \A k \in Jobs : Len(remote'[k]) = Len(remote[k])
  BY <1>1, <1>3
<1>5. FacilityTypes'
  BY <1>4 DEF FacilityInv, FacilityTypes
<1>6. \A k \in Jobs : job[k].phase = "new" => job[k].id = 0
  BY DEF FacilityInv, HeldIsThere
<1> QED BY <1>4, <1>5, <1>6, NoneLaunched

\* What changes no job and no wrapper.
LEMMA RestKeeps ==
    ASSUME FacilityInv, UNCHANGED <<hasProvider, job, remote>>, server' \in Nat \ {0},
           client' \in Nat, refused' \in Nat, fs' \in [Volumes -> Int],
           faults' \in Nat, faults' >= faults, RefusedHasNew'
    PROVE  FacilityInv'
<1>1. FacilityTypes'
  BY DEF FacilityInv, FacilityTypes
<1>2. /\ \A k \in Jobs : job[k].phase = "new" => job[k].id = 0
      /\ \A k \in Jobs : Len(remote'[k]) = Len(remote[k])
  BY DEF FacilityInv, HeldIsThere
<1> QED BY <1>1, <1>2, NoneLaunched

LEMMA CancelKeeps ==
    ASSUME FacilityInv, NEW j \in Jobs, Cancel(j)
    PROVE  FacilityInv'
<1>1. PICK call \in Calls(client) :
        /\ CallApi(call)
        /\ remote' = IF Launched(call) > 0 /\ remote[j][job[j].id].state \notin Terminal
                     THEN [remote EXCEPT ![j][job[j].id].state = "CANCELED"]
                     ELSE remote
        /\ refused' = CountRefused(call, client)
  BY DEF Cancel
<1>2. UNCHANGED <<server, hasProvider, fs, job>>
  BY DEF Cancel
<1>3. /\ server \in Nat \ {0} /\ client \in Nat /\ fs \in [Volumes -> Int]
      /\ remote \in [Jobs -> Seq(Run)]
  BY DEF FacilityInv, FacilityTypes
<1>4. /\ client' \in Nat /\ refused' \in Nat /\ faults' \in Nat /\ faults' >= faults
      /\ RefusedHasNew'
  BY <1>1, <1>2, <1>3, CallApiKeeps
<1>5. CASE remote' = remote
  BY <1>2, <1>3, <1>4, <1>5, RestKeeps
<1>6. CASE remote' = [remote EXCEPT ![j][job[j].id].state = "CANCELED"]
  <2>1. remote[j] \in Seq(Run) /\ job[j].id \in 1..Len(remote[j])
    BY <1>3 DEF FacilityInv, HeldIsThere, Cancel
  <2>2. job[j].id \in DOMAIN remote[j] /\ remote[j][job[j].id] \in Run
    BY <2>1
  <2> DEFINE r == [remote[j][job[j].id] EXCEPT !.state = "CANCELED"]
  <2>3. r \in Run
    BY <2>2 DEF Run, JobStates, Terminal
  <2>4. remote' = [remote EXCEPT ![j] = [remote[j] EXCEPT ![job[j].id] = r]]
    BY <1>3, <1>6, <2>2
  <2> HIDE DEF r
  <2> QED BY <1>2, <1>4, <2>2, <2>3, <2>4, MovesKeep
<1> QED BY <1>1, <1>5, <1>6

LEMMA FsOpKeeps ==
    ASSUME FacilityInv, NEW v \in Volumes, FsOp(v)
    PROVE  FacilityInv'
<1>1. PICK call \in Calls(FsToken(v)) :
        CallApi(call) /\ refused' = CountRefused(call, FsToken(v))
  BY DEF FsOp
<1>2. UNCHANGED <<server, hasProvider, job, remote>>
  BY DEF FsOp
<1>3. server \in Nat \ {0} /\ client \in Nat /\ fs \in [Volumes -> Int]
  BY DEF FacilityInv, FacilityTypes
<1>4. FsToken(v) \in Int
  BY <1>3 DEF FsToken
<1>5. /\ client' \in Nat /\ refused' \in Nat /\ faults' \in Nat /\ faults' >= faults
      /\ RefusedHasNew'
  BY <1>1, <1>2, <1>4, CallApiKeeps
<1>6. fs' \in [Volumes -> Int]
  BY <1>3, <1>4 DEF FsOp
<1> QED BY <1>2, <1>3, <1>5, <1>6, RestKeeps

LEMMA AskAnewKeeps ==
    ASSUME FacilityInv, NEW v \in Volumes, AskAnew(v)
    PROVE  FacilityInv'
<1>1. UNCHANGED <<server, hasProvider, client, job, remote, faults, refused>>
  BY DEF AskAnew
<1>2. fs' \in [Volumes -> Int]
  BY DEF AskAnew, NoFs, FacilityInv, FacilityTypes
<1>3. RefusedHasNew'
  BY <1>1 DEF FacilityInv, RefusedHasNew
<1>4. /\ server' \in Nat \ {0} /\ client' \in Nat /\ refused' \in Nat
      /\ faults' \in Nat /\ faults' >= faults
  BY <1>1 DEF FacilityInv, FacilityTypes
<1> QED BY <1>1, <1>2, <1>3, <1>4, RestKeeps

LEMMA RotateKeeps ==
    ASSUME FacilityInv, Rotate
    PROVE  FacilityInv'
<1>1. server' = server + 1 /\ refused' = 0
      /\ UNCHANGED <<hasProvider, client, fs, job, remote, faults>>
  BY DEF Rotate
<1>2. /\ server' \in Nat \ {0} /\ client' \in Nat /\ fs' \in [Volumes -> Int]
      /\ faults' \in Nat /\ faults' >= faults
  BY <1>1 DEF FacilityInv, FacilityTypes
<1>3. RefusedHasNew'
  BY <1>1 DEF RefusedHasNew
<1> QED BY <1>1, <1>2, <1>3, RestKeeps

LEMMA FacilityRunsJobs ==
    ASSUME FacilityInv, NEW j \in Jobs, Schedule(j) \/ LeaveQueue(j)
    PROVE  FacilityInv'
<1>1. remote \in [Jobs -> Seq(Run)] /\ remote[j] \in Seq(Run)
  BY DEF FacilityInv, FacilityTypes
<1>2. PICK i \in DOMAIN remote[j], r \in Run :
        remote' = [remote EXCEPT ![j] = [remote[j] EXCEPT ![i] = r]]
  <2>1. CASE Schedule(j)
    <3>1. PICK i \in DOMAIN remote[j], s \in {"ACTIVE", "COMPLETED", "FAILED"} :
            remote' = [remote EXCEPT ![j][i].state = s]
      BY <2>1 DEF Schedule
    <3>2. remote[j][i] \in Run
      BY <1>1
    <3> DEFINE r == [remote[j][i] EXCEPT !.state = s]
    <3>3. r \in Run
      BY <3>2 DEF Run, JobStates, Terminal
    <3>4. remote' = [remote EXCEPT ![j] = [remote[j] EXCEPT ![i] = r]]
      BY <1>1, <3>1
    <3> QED BY <3>3, <3>4
  <2>2. CASE LeaveQueue(j)
    <3>1. PICK i \in DOMAIN remote[j] : remote' = [remote EXCEPT ![j][i].listed = FALSE]
      BY <2>2 DEF LeaveQueue
    <3>2. remote[j][i] \in Run
      BY <1>1
    <3> DEFINE r == [remote[j][i] EXCEPT !.listed = FALSE]
    <3>3. r \in Run
      BY <3>2 DEF Run
    <3>4. remote' = [remote EXCEPT ![j] = [remote[j] EXCEPT ![i] = r]]
      BY <1>1, <3>1
    <3> QED BY <3>3, <3>4
  <2> QED BY <2>1, <2>2
<1>3. UNCHANGED <<server, hasProvider, client, fs, job, faults, refused>>
  BY DEF Schedule, LeaveQueue
<1>4. /\ client' \in Nat /\ refused' \in Nat /\ faults' \in Nat /\ faults' >= faults
      /\ RefusedHasNew'
  BY <1>3 DEF FacilityInv, FacilityTypes, RefusedHasNew
<1> QED BY <1>2, <1>3, <1>4, MovesKeep

LEMMA StepKeeps ==
    ASSUME FacilityInv, [FacilityNext]_facilityVars
    PROVE  FacilityInv'
<1>1. CASE UNCHANGED facilityVars
  <2>1. /\ server' \in Nat \ {0} /\ client' \in Nat /\ refused' \in Nat
        /\ fs' \in [Volumes -> Int] /\ faults' \in Nat /\ faults' >= faults
        /\ UNCHANGED <<hasProvider, job, remote>> /\ RefusedHasNew'
    BY <1>1 DEF facilityVars, FacilityInv, FacilityTypes, RefusedHasNew
  <2> QED BY <2>1, RestKeeps
<1>2. ASSUME NEW j \in Jobs,
             \/ Submit(j) \/ Adopt(j) \/ Wait(j) \/ Poll(j) \/ Cancel(j)
             \/ Schedule(j) \/ LeaveQueue(j)
      PROVE  FacilityInv'
  BY <1>2, SubmitKeeps, WrapperKeeps, CancelKeeps, FacilityRunsJobs
<1>3. ASSUME NEW v \in Volumes, FsOp(v) \/ AskAnew(v) PROVE FacilityInv'
  BY <1>3, FsOpKeeps, AskAnewKeeps
<1>4. CASE Rotate
  BY <1>4, RotateKeeps
<1> QED BY <1>1, <1>2, <1>3, <1>4 DEF FacilityNext

-----------------------------------------------------------------------------
(* The tokens that are kept.                                                 *)

\* No token is newer than the facility's, and a volume that was refused keeps
\* one that the facility client has replaced.
TokensKept ==
    /\ client <= server
    /\ spurned \subseteq Volumes /\ \A v \in spurned : fs[v] # NoFs
    /\ \A v \in Volumes : fs[v] <= server
    /\ OldHandlesOnly

\* The client's token never gets older, and it is the newest after a refusal.
LEMMA CallKeepsTokens ==
    ASSUME FacilityInv, TokensKept, NEW c \in Int, NEW call \in Calls(c), CallApi(call)
    PROVE  /\ client' \in {client, server} /\ client <= client' /\ client' <= server
           /\ WasRefused(call) => c # server /\ (hasProvider => client' = server)
<1>1. server \in Nat \ {0} /\ client \in Nat
  BY DEF FacilityInv, FacilityTypes
<1>2. client' = NewClient(call[1])
  BY DEF CallApi
<1> QED BY <1>1, <1>2, CallRenews DEF TokensKept, WasRefused

LEMMA TokensStep ==
    ASSUME FacilityInv, TokensKept, [FacilityNext]_facilityVars
    PROVE  TokensKept'
<1>1. /\ server \in Nat \ {0} /\ client \in Nat /\ fs \in [Volumes -> Int]
      /\ client <= server /\ spurned \subseteq Volumes /\ \A v \in Volumes : fs[v] <= server
      /\ \A v \in spurned : fs[v] # NoFs
      /\ hasProvider => \A v \in spurned : fs[v] < client
  BY DEF FacilityInv, FacilityTypes, TokensKept, OldHandlesOnly
<1>2. ASSUME UNCHANGED <<server, hasProvider, client, fs, spurned>> PROVE TokensKept'
  BY <1>1, <1>2 DEF TokensKept, OldHandlesOnly
<1>3. ASSUME NEW j \in Jobs, Submit(j) \/ Cancel(j) PROVE TokensKept'
  <2>1. PICK call \in Calls(client) : CallApi(call)
    BY <1>3 DEF Submit, Cancel
  <2>2. UNCHANGED <<server, hasProvider, fs, spurned>>
    BY <1>3 DEF Submit, Cancel
  <2>3. client' \in {client, server} /\ client <= client' /\ client' <= server
    BY <1>1, <2>1, CallKeepsTokens
  <2> QED BY <1>1, <2>2, <2>3 DEF TokensKept, OldHandlesOnly
<1>4. ASSUME NEW v \in Volumes, FsOp(v) PROVE TokensKept'
  <2>1. PICK call \in Calls(FsToken(v)) :
          /\ CallApi(call)
          /\ spurned' = IF WasRefused(call) THEN spurned \cup {v} ELSE spurned
    BY <1>4 DEF FsOp
  <2>2. /\ UNCHANGED <<server, hasProvider>>
        /\ fs' = [fs EXCEPT ![v] = FsToken(v)]
    BY <1>4 DEF FsOp
  <2>3. FsToken(v) \in Int /\ FsToken(v) <= server /\ FsToken(v) # NoFs
    BY <1>1 DEF FsToken, NoFs
  <2>4. /\ client' \in {client, server} /\ client <= client' /\ client' <= server
        /\ WasRefused(call) => FsToken(v) # server /\ (hasProvider => client' = server)
    BY <2>1, <2>3, CallKeepsTokens
  <2>5. spurned' \subseteq Volumes /\ \A u \in Volumes : fs'[u] <= server
    BY <1>1, <2>1, <2>2, <2>3
  <2>6. ASSUME hasProvider, NEW u \in spurned' PROVE fs'[u] < client'
    <3>1. CASE u = v /\ WasRefused(call)
      BY <1>1, <2>2, <2>3, <2>4, <2>6, <3>1
    <3>2. CASE u = v /\ ~WasRefused(call)
      <4>1. v \in spurned /\ fs[v] < client /\ FsToken(v) = fs[v]
        BY <1>1, <2>1, <2>6, <3>2 DEF FsToken
      <4> QED BY <1>1, <2>2, <2>4, <3>2, <4>1
    <3>3. CASE u # v
      BY <1>1, <2>1, <2>2, <2>4, <2>6, <3>3
    <3> QED BY <3>1, <3>2, <3>3
  <2>7. \A u \in spurned' : fs'[u] # NoFs
    BY <1>1, <2>1, <2>2, <2>3
  <2> QED BY <2>2, <2>4, <2>5, <2>6, <2>7 DEF TokensKept, OldHandlesOnly
<1>5. ASSUME NEW v \in Volumes, AskAnew(v) PROVE TokensKept'
  <2>1. /\ UNCHANGED <<server, hasProvider, client>>
        /\ fs' = [fs EXCEPT ![v] = NoFs] /\ spurned' = spurned \ {v}
    BY <1>5 DEF AskAnew
  <2>2. \A u \in Volumes : fs'[u] = IF u = v THEN NoFs ELSE fs[u]
    BY <1>1, <2>1
  <2>3. spurned' \subseteq Volumes /\ \A u \in spurned' : u # v /\ u \in spurned
    BY <1>1, <2>1
  <2> QED BY <1>1, <2>1, <2>2, <2>3 DEF TokensKept, OldHandlesOnly, NoFs
<1>6. CASE Rotate
  <2>1. server' = server + 1 /\ UNCHANGED <<hasProvider, client, fs, spurned>>
    BY <1>6 DEF Rotate
  <2> QED BY <1>1, <2>1 DEF TokensKept, OldHandlesOnly
<1>7. ASSUME NEW j \in Jobs,
             Adopt(j) \/ Wait(j) \/ Poll(j) \/ Schedule(j) \/ LeaveQueue(j)
      PROVE  TokensKept'
  BY <1>2, <1>7 DEF Adopt, Wait, Poll, Schedule, LeaveQueue
<1>8. CASE UNCHANGED facilityVars
  BY <1>2, <1>8 DEF facilityVars
<1> QED BY <1>3, <1>4, <1>5, <1>6, <1>7, <1>8 DEF FacilityNext

-----------------------------------------------------------------------------
(* The service client of a facility client with a provider is refused at     *)
(* most once per token; operations on files are refused further only with a  *)
(* Resource that was used before the facility client met its newer token;    *)
(* and jobs that no wrapper stands for are never more than answers were      *)
(* lost, however often _call_api retries (facility/client.py), for any       *)
(* submissions, volumes and any number of rotations and faults.              *)
THEOREM FaultsAreBoundedHolds == FacilitySpec => []FaultsAreBounded
<1>1. FacilityInit => FacilityInv /\ TokensKept
  <2>1. FacilityInit => TokensKept
    BY DEF FacilityInit, TokensKept, OldHandlesOnly, NoFs
  <2> QED BY <2>1, Start
<1>2. FacilityInv /\ TokensKept /\ [FacilityNext]_facilityVars => FacilityInv' /\ TokensKept'
  BY StepKeeps, TokensStep
<1>3. FacilityInv /\ TokensKept => FaultsAreBounded
  BY DEF FacilityInv, RefusedHasNew, TokensKept, FaultsAreBounded, FailsOncePerRotation
<1> QED BY <1>1, <1>2, <1>3, PTL DEF FacilitySpec

-----------------------------------------------------------------------------
(* Job.wait.                                                                 *)

\* Only what has ended leaves the queue, so that "left" may be taken for "ended".
UnlistedEnded ==
    \A j \in Jobs : \A i \in 1..Len(remote[j]) :
        ~remote[j][i].listed => remote[j][i].state \in Terminal

\* A step leaves the state of a job that has ended, and lists no job again.
RunsOnlyEnd ==
    \A j \in Jobs : \A i \in 1..Len(remote[j]) :
        /\ i \in 1..Len(remote'[j])
        /\ remote[j][i].state \in Terminal => remote'[j][i].state = remote[j][i].state
        /\ ~remote[j][i].listed => ~remote'[j][i].listed

LEMMA UnchangedRuns ==
    ASSUME UnlistedEnded, UNCHANGED remote
    PROVE  UnlistedEnded' /\ RunsOnlyEnd
BY DEF UnlistedEnded, RunsOnlyEnd

LEMMA OneRunMoves ==
    ASSUME FacilityInv, UnlistedEnded, NEW j \in Jobs, NEW i \in 1..Len(remote[j]), NEW r \in Run,
           remote' = [remote EXCEPT ![j] = [remote[j] EXCEPT ![i] = r]],
           remote[j][i].state \in Terminal => r.state = remote[j][i].state,
           ~remote[j][i].listed => ~r.listed,
           ~r.listed => r.state \in Terminal
    PROVE  UnlistedEnded' /\ RunsOnlyEnd
<1>1. remote \in [Jobs -> Seq(Run)] /\ remote[j] \in Seq(Run)
  BY DEF FacilityInv, FacilityTypes
<1>2. /\ Len(remote'[j]) = Len(remote[j]) /\ remote'[j][i] = r
      /\ \A k \in 1..Len(remote[j]) : k # i => remote'[j][k] = remote[j][k]
      /\ \A k \in Jobs \ {j} : remote'[k] = remote[k]
  <2>1. DOMAIN remote[j] = 1..Len(remote[j])
    BY <1>1
  <2>2. Len([remote[j] EXCEPT ![i] = r]) = Len(remote[j])
    BY <1>1, ExceptSeq
  <2> QED BY <1>1, <2>1, <2>2
<1> QED BY <1>2 DEF UnlistedEnded, RunsOnlyEnd

LEMMA RunsStep ==
    ASSUME FacilityInv, UnlistedEnded, [FacilityNext]_facilityVars
    PROVE  UnlistedEnded' /\ RunsOnlyEnd
<1>1. remote \in [Jobs -> Seq(Run)]
  BY DEF FacilityInv, FacilityTypes
<1>2. ASSUME NEW j \in Jobs, Submit(j) PROVE UnlistedEnded' /\ RunsOnlyEnd
  <2>1. client \in Int /\ server \in Nat \ {0}
    BY DEF FacilityInv, FacilityTypes
  <2>2. PICK call \in Calls(client) :
          remote' = [remote EXCEPT ![j] =
             @ \o [i \in 1..Launched(call) |-> [state |-> "QUEUED", listed |-> TRUE]]]
    BY <1>2 DEF Submit
  <2>3. Launched(call) \in Nat
    BY <2>1, CallCounts
  <2> DEFINE new == [i \in 1..Launched(call) |-> [state |-> "QUEUED", listed |-> TRUE]]
  <2>4. new \in Seq(Run) /\ Len(new) = Launched(call)
    <3>1. [state |-> "QUEUED", listed |-> TRUE] \in Run
      BY DEF Run, JobStates
    <3> QED BY <2>3, <3>1, RepeatedIsSeq
  <2>5. \A i \in 1..Len(new) : new[i].listed
    BY <2>4
  <2>6. remote' = [remote EXCEPT ![j] = remote[j] \o new] /\ remote[j] \in Seq(Run)
    BY <1>1, <2>2
  <2> HIDE DEF new
  <2>7. /\ Len(remote[j] \o new) = Len(remote[j]) + Len(new)
        /\ \A i \in 1..(Len(remote[j]) + Len(new)) :
             (remote[j] \o new)[i] = IF i <= Len(remote[j]) THEN remote[j][i]
                                     ELSE new[i - Len(remote[j])]
    BY <2>4, <2>6, ConcatProperties, Zenon
  <2>8. Len(remote[j]) \in Nat /\ Len(new) \in Nat
    BY <2>4, <2>6
  <2>9. /\ Len(remote'[j]) = Len(remote[j]) + Len(new)
        /\ \A i \in 1..Len(remote[j]) : remote'[j][i] = remote[j][i]
        /\ \A i \in 1..Len(remote'[j]) : i \notin 1..Len(remote[j]) => remote'[j][i].listed
        /\ \A k \in Jobs \ {j} : remote'[k] = remote[k]
    BY <1>1, <2>5, <2>6, <2>7, <2>8
  <2>10. UnlistedEnded'
    <3> SUFFICES ASSUME NEW k \in Jobs, NEW i \in 1..Len(remote'[k]), ~remote'[k][i].listed
                 PROVE  remote'[k][i].state \in Terminal
      BY DEF UnlistedEnded
    <3>1. CASE k # j
      BY <2>9, <3>1 DEF UnlistedEnded
    <3>2. CASE k = j
      <4>1. i \in 1..Len(remote[j])
        BY <2>9, <3>2
      <4>2. remote'[j][i] = remote[j][i]
        BY <2>9, <4>1
      <4> QED BY <3>2, <4>1, <4>2 DEF UnlistedEnded
    <3> QED BY <3>1, <3>2
  <2>11. RunsOnlyEnd
    <3> SUFFICES ASSUME NEW k \in Jobs, NEW i \in 1..Len(remote[k])
                 PROVE  i \in 1..Len(remote'[k]) /\ remote'[k][i] = remote[k][i]
      BY DEF RunsOnlyEnd
    <3>1. CASE k # j
      BY <2>9, <3>1
    <3>2. CASE k = j
      BY <2>8, <2>9, <3>2
    <3> QED BY <3>1, <3>2
  <2> QED BY <2>10, <2>11
<1>3. ASSUME NEW j \in Jobs, Cancel(j) PROVE UnlistedEnded' /\ RunsOnlyEnd
  <2>1. CASE remote' = remote
    BY <2>1, UnchangedRuns
  <2>2. CASE /\ remote' = [remote EXCEPT ![j][job[j].id].state = "CANCELED"]
             /\ remote[j][job[j].id].state \notin Terminal
    <3>1. remote[j] \in Seq(Run) /\ job[j].id \in 1..Len(remote[j])
      BY <1>1, <1>3 DEF FacilityInv, HeldIsThere, Cancel
    <3>2. job[j].id \in DOMAIN remote[j] /\ remote[j][job[j].id] \in Run
      BY <3>1
    <3> DEFINE r == [remote[j][job[j].id] EXCEPT !.state = "CANCELED"]
    <3>3. r \in Run /\ r.state \in Terminal /\ r.listed = remote[j][job[j].id].listed
      BY <3>2 DEF Run, JobStates, Terminal
    <3>4. remote' = [remote EXCEPT ![j] = [remote[j] EXCEPT ![job[j].id] = r]]
      BY <1>1, <2>2, <3>2
    <3>5. ~remote[j][job[j].id].listed => ~r.listed
      BY <3>3
    <3> HIDE DEF r
    <3> QED BY <2>2, <3>1, <3>3, <3>4, <3>5, OneRunMoves
  <2> QED BY <1>3, <2>1, <2>2 DEF Cancel
<1>4. ASSUME NEW j \in Jobs, Schedule(j) PROVE UnlistedEnded' /\ RunsOnlyEnd
  <2>1. PICK i \in DOMAIN remote[j], s \in {"ACTIVE", "COMPLETED", "FAILED"} :
          /\ remote[j][i].state = IF s = "ACTIVE" THEN "QUEUED" ELSE "ACTIVE"
          /\ remote' = [remote EXCEPT ![j][i].state = s]
    BY <1>4 DEF Schedule
  <2>2. remote[j] \in Seq(Run) /\ i \in 1..Len(remote[j]) /\ remote[j][i] \in Run
    BY <1>1
  <2> DEFINE r == [remote[j][i] EXCEPT !.state = s]
  <2>3. remote[j][i].state \notin Terminal
    BY <2>1 DEF Terminal
  <2>4. r \in Run /\ r.listed = remote[j][i].listed
    BY <2>2 DEF Run, JobStates, Terminal
  <2>5. remote' = [remote EXCEPT ![j] = [remote[j] EXCEPT ![i] = r]]
    BY <1>1, <2>1
  <2>6. remote[j][i].listed
    BY <2>2, <2>3 DEF UnlistedEnded
  <2> HIDE DEF r
  <2> QED BY <2>2, <2>3, <2>4, <2>5, <2>6, OneRunMoves
<1>5. ASSUME NEW j \in Jobs, LeaveQueue(j) PROVE UnlistedEnded' /\ RunsOnlyEnd
  <2>1. PICK i \in DOMAIN remote[j] :
          /\ remote[j][i].state \in Terminal
          /\ remote' = [remote EXCEPT ![j][i].listed = FALSE]
    BY <1>5 DEF LeaveQueue
  <2>2. remote[j] \in Seq(Run) /\ i \in 1..Len(remote[j]) /\ remote[j][i] \in Run
    BY <1>1
  <2> DEFINE r == [remote[j][i] EXCEPT !.listed = FALSE]
  <2>3. r \in Run /\ r.state = remote[j][i].state /\ ~r.listed
    BY <2>2 DEF Run
  <2>4. remote' = [remote EXCEPT ![j] = [remote[j] EXCEPT ![i] = r]]
    BY <1>1, <2>1
  <2> HIDE DEF r
  <2> QED BY <2>1, <2>2, <2>3, <2>4, OneRunMoves
<1>6. ASSUME UNCHANGED remote PROVE UnlistedEnded' /\ RunsOnlyEnd
  BY <1>6, UnchangedRuns
<1> QED BY <1>2, <1>3, <1>4, <1>5, <1>6
     DEF FacilityNext, facilityVars, Adopt, Wait, Poll, FsOp, AskAnew, Rotate

\* A wait that has ended stays as it is; one that ends now was just answered.
LEMMA EndedSteps ==
    ASSUME FacilityInv, [FacilityNext]_facilityVars, NEW j \in Jobs, job'[j].phase = "ended"
    PROVE  job'[j] = job[j] \/ Poll(j)
<1>1. job \in [Jobs -> Wrapper]
  BY DEF FacilityInv, FacilityTypes
<1>2. ASSUME NEW k \in Jobs, Submit(k) PROVE job'[j] = job[j]
  <2> DEFINE launched == Len(remote'[k])
  <2>1. job' = job \/ job' = [job EXCEPT ![k].phase = "held", ![k].id = launched,
                                       ![k].state = "NEW"]
    BY <1>2 DEF Submit
  <2> HIDE DEF launched
  <2> QED BY <1>1, <2>1 DEF Wrapper
<1>3. ASSUME NEW k \in Jobs, Adopt(k) PROVE job'[j] = job[j]
  BY <1>1, <1>3 DEF Adopt, Wrapper
<1>4. ASSUME NEW k \in Jobs, Wait(k) PROVE job'[j] = job[j]
  BY <1>1, <1>4 DEF Wait, Wrapper
<1>5. ASSUME NEW k \in Jobs, Poll(k) PROVE job'[j] = job[j] \/ Poll(j)
  BY ZenonT(30), <1>1, <1>5 DEF Poll, Wrapper
<1>6. ASSUME UNCHANGED job PROVE job'[j] = job[j]
  BY <1>6
<1> QED BY <1>2, <1>3, <1>4, <1>5, <1>6
     DEF FacilityNext, facilityVars, Cancel, FsOp, AskAnew, Rotate, Schedule, LeaveQueue

LEMMA TruthKeeps ==
    ASSUME FacilityInv, UnlistedEnded, WaitTellsTruth, [FacilityNext]_facilityVars
    PROVE  WaitTellsTruth'
<1> SUFFICES ASSUME NEW j \in Jobs, job'[j].phase = "ended"
             PROVE  /\ remote'[j][job'[j].id].state \in Terminal
                    /\ job'[j].state # remote'[j][job'[j].id].state =>
                          ~job'[j].historical /\ ~remote'[j][job'[j].id].listed
  BY DEF WaitTellsTruth
<1>1. RunsOnlyEnd
  BY RunsStep
<1>2. CASE job'[j] = job[j]
  <2>1. job[j].id \in 1..Len(remote[j])
    BY <1>2 DEF FacilityInv, HeldIsThere
  <2> QED BY SMTT(30), <1>1, <1>2, <2>1 DEF WaitTellsTruth, RunsOnlyEnd
<1>3. CASE Poll(j)
  <2>1. PICK s \in StatusAnswers(j, job[j].historical) :
          job' = [job EXCEPT ![j].state = s, ![j].polls = @ + 1,
                             ![j].phase = IF s \in Terminal THEN "ended"
                                          ELSE IF job[j].polls + 1 >= MaxPolls THEN "timedout"
                                          ELSE "waiting"]
    BY <1>3 DEF Poll
  <2>2. job[j] \in Wrapper /\ job \in [Jobs -> Wrapper]
    BY DEF FacilityInv, FacilityTypes
  <2> DEFINE polls == job[j].polls + 1
  <2>3. /\ job'[j].state = s /\ job'[j].id = job[j].id /\ s \in Terminal
        /\ job'[j].historical = job[j].historical
    <3>1. PICK phase : /\ phase = IF s \in Terminal THEN "ended"
                                 ELSE IF polls >= MaxPolls THEN "timedout" ELSE "waiting"
                       /\ job' = [job EXCEPT ![j].state = s, ![j].polls = polls, ![j].phase = phase]
      BY <2>1
    <3> HIDE DEF polls
    <3>2. job'[j] = [job[j] EXCEPT !.state = s, !.polls = polls, !.phase = phase]
      BY <2>2, <3>1
    <3>3. /\ job'[j].phase = phase /\ job'[j].state = s /\ job'[j].id = job[j].id
          /\ job'[j].historical = job[j].historical
      BY <2>2, <3>2 DEF Wrapper
    <3> QED BY <3>1, <3>3
  <2>4. job[j].id \in 1..Len(remote[j]) /\ UNCHANGED remote
    BY <1>3 DEF FacilityInv, HeldIsThere, Poll
  <2>5. s # "UNKNOWN"
    BY <2>3 DEF Terminal
  <2>6. s = IF remote[j][job[j].id].listed \/ job[j].historical
            THEN remote[j][job[j].id].state ELSE "COMPLETED"
    BY <2>5 DEF StatusAnswers
  <2> QED BY <2>3, <2>4, <2>6 DEF UnlistedEnded
<1> QED BY <1>2, <1>3, EndedSteps

(* Job.wait returns only for a job that has stopped at the facility, and     *)
(* tells a state other than the one it ended in only without historical=True *)
(* and after it left the queue (facility/client.py), for any submissions and *)
(* any number of rotations, faults and polls.                                *)
THEOREM WaitTellsTruthHolds == FacilitySpec => []WaitTellsTruth
<1>1. FacilityInit => FacilityInv /\ UnlistedEnded /\ WaitTellsTruth
  BY Start DEF FacilityInit, UnlistedEnded, WaitTellsTruth
<1>2. FacilityInv /\ UnlistedEnded /\ WaitTellsTruth /\ [FacilityNext]_facilityVars
      => (FacilityInv /\ UnlistedEnded /\ WaitTellsTruth)'
  BY StepKeeps, RunsStep, TruthKeeps
<1> QED BY <1>1, <1>2, PTL DEF FacilitySpec

-----------------------------------------------------------------------------
(* Versions.                                                                 *)

Cached == [Endpoints -> [version : Int, age : Int]]

VersionTypes ==
    /\ served \in [Endpoints -> Lowest..Highest]
    /\ file \in Cached
    /\ mem \in [Probers -> Cached]

\* The marks of a file or a memory that holds nothing are below any version.
NothingTooHigh ==
    \A e \in Endpoints :
        /\ file[e].version <= served[e]
        /\ \A p \in Probers : mem[p][e].version <= served[e]

VersionInv == VersionTypes /\ NothingTooHigh

LEMMA NothingCached ==
    /\ Empty \in Cached /\ Unreadable \in Cached /\ NotLoaded \in Cached
    /\ \A e \in Endpoints :
        Empty[e].version = 0 /\ Unreadable[e].version = -1 /\ NotLoaded[e].version = -2
BY DEF Cached, Empty, Unreadable, NotLoaded, NoEntry

LEMMA LoadedIsLow ==
    ASSUME VersionInv, NEW p \in Probers
    PROVE  LoadCache(p) \in Cached /\ \A e \in Endpoints : LoadCache(p)[e].version <= served[e]
BY NothingCached DEF VersionInv, VersionTypes, NothingTooHigh, LoadCache, Lowest, Highest

\* A process that remembers, and leaves the file unread, unreadable or its own.
LEMMA RememberKeeps ==
    ASSUME VersionInv, UNCHANGED served, NEW p \in Probers, NEW cache \in Cached,
           \A e \in Endpoints : cache[e].version <= served[e],
           mem' = [mem EXCEPT ![p] = cache],
           file' \in {file, Unreadable, mem[p]}
    PROVE  VersionInv'
<1>1. mem' \in [Probers -> Cached] /\ file' \in Cached
  BY NothingCached DEF VersionInv, VersionTypes
<1>2. \A q \in Probers : mem'[q] = IF q = p THEN cache ELSE mem[q]
  BY DEF VersionInv, VersionTypes
<1>3. served \in [Endpoints -> 1..2]
  BY DEF VersionInv, VersionTypes, Lowest, Highest
<1>4. NothingTooHigh'
  BY <1>2, <1>3, NothingCached DEF VersionInv, NothingTooHigh
<1> QED BY <1>1, <1>4 DEF VersionInv, VersionTypes

LEMMA OlderKeeps ==
    ASSUME NEW entry \in [version : Int, age : Int]
    PROVE  Older(entry) \in [version : Int, age : Int] /\ Older(entry).version = entry.version
BY DEF Older

LEMMA VersionsStep ==
    ASSUME VersionInv, [VersionsNext]_versionVars
    PROVE  VersionInv'
<1>1. served \in [Endpoints -> 1..2] /\ file \in Cached /\ mem \in [Probers -> Cached]
  BY DEF VersionInv, VersionTypes, Lowest, Highest
<1>2. ASSUME NEW p \in Probers, NEW e \in Endpoints, NEW force \in BOOLEAN, Detect(p, e, force)
      PROVE  VersionInv'
  <2>1. UNCHANGED served
    BY <1>2 DEF Detect
  <2>2. CASE mem' = [mem EXCEPT ![p] = LoadCache(p)] /\ UNCHANGED file
    BY <2>1, <2>2, LoadedIsLow, RememberKeeps
  <2>3. ASSUME NEW v \in Probe(e), mem' = [mem EXCEPT ![p] = SetCached(LoadCache(p), e, v)],
               file' = Unreadable
        PROVE  VersionInv'
    <3>1. v \in Int /\ v <= served[e]
      BY <1>1, <2>3 DEF Probe, Lowest
    <3> DEFINE new == [version |-> v, age |-> 0]
               cache == [LoadCache(p) EXCEPT ![e] = new]
    <3>2. new \in [version : Int, age : Int] /\ new.version = v
      BY <3>1
    <3>3. cache \in Cached /\ \A d \in Endpoints : cache[d].version <= served[d]
      <4> HIDE DEF new
      <4> QED BY <3>1, <3>2, LoadedIsLow DEF Cached
    <3>4. mem' = [mem EXCEPT ![p] = cache]
      BY <2>3 DEF SetCached
    <3> HIDE DEF cache
    <3> QED BY <2>1, <2>3, <3>3, <3>4, RememberKeeps
  <2> QED BY <1>2, <2>2, <2>3 DEF Detect
<1>3. ASSUME NEW p \in Probers, NEW es \in SUBSET Endpoints, ClearCache(p, es)
      PROVE  VersionInv'
  <2> DEFINE cache == IF es = Endpoints THEN Empty
                      ELSE [e \in Endpoints |-> IF e \in es THEN NoEntry ELSE LoadCache(p)[e]]
  <2>1. UNCHANGED served /\ mem' = [mem EXCEPT ![p] = cache] /\ file' = Unreadable
    BY <1>3 DEF ClearCache
  <2>2. NoEntry \in [version : Int, age : Int] /\ NoEntry.version = 0
    BY DEF NoEntry
  <2>3. cache \in Cached /\ \A e \in Endpoints : cache[e].version <= served[e]
    BY <1>1, <2>2, LoadedIsLow, NothingCached DEF Cached
  <2> HIDE DEF cache
  <2> QED BY <2>1, <2>3, RememberKeeps
<1>4. ASSUME NEW p \in Probers, SaveCache(p) PROVE VersionInv'
  <2>1. mem[p] \in Cached /\ \A e \in Endpoints : mem[p][e].version <= served[e]
    BY <1>1 DEF VersionInv, NothingTooHigh
  <2>2. UNCHANGED served /\ mem' = [mem EXCEPT ![p] = mem[p]] /\ file' = mem[p]
    BY <1>1, <1>4 DEF SaveCache
  <2> QED BY <2>1, <2>2, RememberKeeps
<1>5. ASSUME NEW p \in Probers, Exit(p) PROVE VersionInv'
  <2>1. \A e \in Endpoints : NotLoaded[e].version = -2 /\ served[e] \in 1..2
    BY <1>1, NothingCached
  <2>3. \A e \in Endpoints : NotLoaded[e].version <= served[e]
    BY <2>1
  <2>2. UNCHANGED <<served, file>> /\ mem' = [mem EXCEPT ![p] = NotLoaded]
    BY <1>5 DEF Exit
  <2> QED BY <2>2, <2>3, NothingCached, RememberKeeps
<1>6. CASE TimePasses
  <2>1. /\ file' \in Cached
        /\ \A e \in Endpoints : file'[e].version = file[e].version
    BY <1>1, <1>6, OlderKeeps DEF TimePasses, Cached
  <2>2. \A p \in Probers :
          /\ mem'[p] \in Cached
          /\ \A e \in Endpoints : mem'[p][e].version = mem[p][e].version
    BY <1>1, <1>6, OlderKeeps DEF TimePasses, Cached
  <2>3. mem' \in [Probers -> Cached] /\ UNCHANGED served
    BY <1>6, <2>2 DEF TimePasses
  <2> QED BY <2>1, <2>2, <2>3 DEF VersionInv, VersionTypes, NothingTooHigh
<1>7. ASSUME NEW e \in Endpoints, Upgrade(e) PROVE VersionInv'
  <2>1. UNCHANGED <<file, mem>> /\ served' \in [Endpoints -> 1..2]
        /\ \A d \in Endpoints : served'[d] >= served[d]
    BY <1>1, <1>7 DEF Upgrade, Highest
  <2>2. \A c \in Cached, d \in Endpoints : c[d].version \in Int
    BY DEF Cached
  <2>3. NothingTooHigh'
    BY <1>1, <2>1, <2>2 DEF VersionInv, NothingTooHigh
  <2> QED BY <1>1, <2>1, <2>3 DEF VersionInv, VersionTypes, Lowest, Highest
<1>8. CASE UNCHANGED versionVars
  BY <1>8 DEF versionVars, VersionInv, VersionTypes, NothingTooHigh
<1>9. Endpoints \in SUBSET Endpoints /\ \A e \in Endpoints : {e} \in SUBSET Endpoints
  OBVIOUS
<1> QED BY <1>2, <1>3, <1>4, <1>5, <1>6, <1>7, <1>8, <1>9 DEF VersionsNext

(* Whichever process wrote an entry last, and whatever probe failed before,  *)
(* no cache holds a version its endpoint does not serve                      *)
(* (serviceclient/amsc_iri/version_prober.py), for any endpoints, any number *)
(* of processes, any lifetime of an entry and any number of failed probes.   *)
THEOREM NeverTooHighHolds == VersionsSpec => []NeverTooHigh
<1>1. VersionsInit => VersionInv
  <2> SUFFICES ASSUME VersionsInit PROVE VersionInv
    OBVIOUS
  <2>1. VersionTypes
    BY NothingCached DEF VersionsInit, VersionTypes
  <2>2. served \in [Endpoints -> 1..2] /\ file = Empty /\ \A p \in Probers : mem[p] = NotLoaded
    BY DEF VersionsInit, Lowest, Highest
  <2>3. \A c \in Cached, e \in Endpoints : c[e].version \in Int
    BY DEF Cached
  <2>4. NothingTooHigh
    BY <2>2, <2>3, NothingCached DEF NothingTooHigh
  <2> QED BY <2>1, <2>4 DEF VersionInv
<1>2. VersionInv /\ [VersionsNext]_versionVars => VersionInv'
  BY VersionsStep
<1>3. VersionInv => NeverTooHigh
  BY DEF VersionInv, NothingTooHigh, NeverTooHigh, Caches
<1> QED BY <1>1, <1>2, <1>3, PTL DEF VersionsSpec

-----------------------------------------------------------------------------
(* Discovery.                                                                *)

\* What a process was given is nothing yet, or a whole result.
Given == Results \cup {NoResult}

SaverTypes(s) ==
    /\ s \in [at : {"idle", "open", "dump", "replace"}, fd : Inodes \cup {None},
              result : Results \cup {NoResult}]
    /\ s.at # "dump" => s.fd = None
    /\ s.at = "dump" => s.fd \in Inodes
    /\ s.at # "idle" => s.result \in Results

\* A file is torn or whole; a process holds a file open just while it writes,
\* and from the end of a discovery on it has a whole result to write.
WholeInv ==
    /\ content \in [Inodes -> Results \cup {Torn}]
    /\ path \in Inodes \cup {None}
    /\ temp \in Inodes \cup {None}
    /\ saver = [p \in Sessions |-> saver[p]]
    /\ \A p \in Sessions : SaverTypes(saver[p])
    /\ memory \in [Sessions -> Given]

LEMMA ResultNumbers ==
    /\ Torn \notin Results /\ NoResult \notin Results /\ NoResult # Torn
    /\ Torn \in Int /\ Results \subseteq Int /\ Stages \in Results /\ None \notin Inodes
    /\ \A i \in Inodes : i \in Int
BY DiscoveryAssumption, FS_CardinalityType DEF Torn, NoResult, Results, None, Inodes

(* A process that opens the temporary file always finds an inode for it: the *)
(* cache file and the files the others hold open are fewer than the inodes.  *)
LEMMA AnInodeIsFree ==
    ASSUME WholeInv, NEW p \in Sessions, saver[p].at = "open", temp = None
    PROVE  Free # {}
<1> SUFFICES ASSUME Free = {} PROVE FALSE
  OBVIOUS
<1> DEFINE held == [q \in Sessions |-> IF q = p THEN path ELSE saver[q].fd]
           holder == [i \in Inodes |-> CHOOSE q \in Sessions : held[q] = i]
<1>1. saver[p].fd = None
  BY DEF WholeInv, SaverTypes
<1>2. \A i \in Inodes : \E q \in Sessions : held[q] = i
  <2> TAKE i \in Inodes
  <2>1. i = path \/ \E q \in Sessions : saver[q].fd = i
    BY ResultNumbers DEF Free
  <2>2. ASSUME NEW q \in Sessions, saver[q].fd = i PROVE q # p
    BY <1>1, <2>2, ResultNumbers
  <2> QED BY <2>1, <2>2
<1>3. \A i \in Inodes : holder[i] \in Sessions /\ held[holder[i]] = i
  BY <1>2
<1>4. holder \in [Inodes -> Sessions]
  BY <1>3
<1>5. /\ Cardinality(Sessions) \in Nat
      /\ IsFiniteSet(Inodes) /\ Cardinality(Inodes) = Cardinality(Sessions) + 1
  <2>1. Cardinality(Sessions) \in Nat
    BY DiscoveryAssumption, FS_CardinalityType
  <2> QED BY <2>1, FS_Interval DEF Inodes
<1> HIDE DEF held, holder
<1>6. \E i, j \in Inodes : i # j /\ holder[i] = holder[j]
  <2>1. Cardinality(Sessions) < Cardinality(Inodes)
    BY <1>5
  <2> QED BY <1>4, <1>5, <2>1, DiscoveryAssumption, FS_PigeonHole
<1> QED BY <1>3, <1>6

LEMMA GivenIsWhole ==
    ASSUME WholeInv, NEW p \in Sessions, NEW refresh \in BOOLEAN, GetDiscovery(p, refresh)
    PROVE  WholeInv'
<1>1. UNCHANGED <<content, path, temp>> /\ saver[p] = Idle
  BY DEF GetDiscovery, Metadata
<1>2. CASE (IF refresh THEN NoResult ELSE Loaded(MaxAge)) # NoResult
  <2>1. PICK cached : /\ cached = Loaded(MaxAge) /\ cached # NoResult
                      /\ memory' = [memory EXCEPT ![p] = cached] /\ saver' = saver
    BY <1>2 DEF GetDiscovery, Metadata
  <2>2. cached \in Results
    BY <2>1 DEF Loaded, WholeInv
  <2> QED BY <1>1, <2>1, <2>2 DEF WholeInv, Given
<1>3. CASE (IF refresh THEN NoResult ELSE Loaded(MaxAge)) = NoResult
  <2>1. PICK live \in Discovered :
           /\ memory' = [memory EXCEPT ![p] = live]
           /\ saver' = [saver EXCEPT ![p] = [at |-> "open", fd |-> None, result |-> live]]
    BY <1>3 DEF GetDiscovery, Metadata
  <2>2. live \in Results
    BY DiscoveryAssumption DEF Discovered, Results
  <2>3. SaverTypes([at |-> "open", fd |-> None, result |-> live])
    BY <2>2 DEF SaverTypes
  <2>4. /\ saver' = [q \in Sessions |-> saver'[q]]
        /\ \A q \in Sessions : SaverTypes(saver'[q])
    BY <2>1, <2>3 DEF WholeInv
  <2> QED BY <1>1, <2>1, <2>2, <2>4 DEF WholeInv, Given
<1> QED BY <1>2, <1>3

LEMMA OpeningKeepsWhole ==
    ASSUME WholeInv, NEW p \in Sessions, OpenTemp(p)
    PROVE  WholeInv'
<1> DEFINE i == IF temp = None THEN CHOOSE f \in Free : TRUE ELSE temp
<1>1. i \in Inodes
  <2>1. CASE temp = None
    BY <2>1, AnInodeIsFree DEF OpenTemp, Free
  <2>2. CASE temp # None
    BY <2>2 DEF WholeInv
  <2> QED BY <2>1, <2>2
<1>2. /\ content' = [content EXCEPT ![i] = Torn]
      /\ saver' = [saver EXCEPT ![p].at = "dump", ![p].fd = i]
      /\ temp' = i /\ UNCHANGED <<path, memory>> /\ saver[p].at = "open"
  BY DEF OpenTemp
<1> HIDE DEF i
<1>3. SaverTypes(saver[p]) /\ saver = [q \in Sessions |-> saver[q]]
  BY DEF WholeInv
<1>4. saver'[p] = [saver[p] EXCEPT !.at = "dump", !.fd = i]
  BY <1>2, <1>3
<1>5. SaverTypes(saver'[p])
  BY <1>1, <1>2, <1>3, <1>4 DEF SaverTypes
<1>6. /\ saver' = [q \in Sessions |-> saver'[q]]
      /\ \A q \in Sessions : SaverTypes(saver'[q])
  BY <1>2, <1>3, <1>5 DEF WholeInv
<1> QED BY <1>1, <1>2, <1>6 DEF WholeInv

LEMMA DumpingKeepsWhole ==
    ASSUME WholeInv, NEW p \in Sessions, Dump(p)
    PROVE  WholeInv'
<1>1. SaverTypes(saver[p]) /\ saver = [q \in Sessions |-> saver[q]] /\ saver[p].at = "dump"
  BY DEF WholeInv, Dump
<1>2. saver[p].fd \in Inodes /\ saver[p].result \in Results
  BY <1>1 DEF SaverTypes
<1>3. Written(content[saver[p].fd], saver[p].result) \in Results \cup {Torn}
  BY <1>2 DEF Written, WholeInv
<1>4. content' \in [Inodes -> Results \cup {Torn}]
  BY <1>3 DEF Dump, WholeInv
<1>5. saver'[p] = [saver[p] EXCEPT !.at = "replace", !.fd = None]
  BY <1>1 DEF Dump
<1>6. SaverTypes(saver'[p])
  BY <1>1, <1>2, <1>5 DEF SaverTypes
<1>7. /\ saver' = [q \in Sessions |-> saver'[q]]
      /\ \A q \in Sessions : SaverTypes(saver'[q])
  BY <1>1, <1>6 DEF Dump, WholeInv
<1> QED BY <1>4, <1>7 DEF Dump, WholeInv

LEMMA ReplacingKeepsWhole ==
    ASSUME WholeInv, NEW p \in Sessions, Replace(p)
    PROVE  WholeInv'
<1>1. content' \in [Inodes -> Results \cup {Torn}] /\ path' \in Inodes \cup {None}
  BY DEF Replace, WholeInv
<1>2. SaverTypes(Idle)
  BY DEF SaverTypes, Idle
<1>3. /\ saver' = [q \in Sessions |-> saver'[q]]
      /\ \A q \in Sessions : SaverTypes(saver'[q])
  BY <1>2 DEF Replace, WholeInv
<1> QED BY <1>1, <1>3 DEF Replace, WholeInv

(* Although processes that know nothing of each other write, rename and      *)
(* remove the same two files, what a process is given is the whole result of *)
(* one discovery (metadata_manager.py, client.py), for any finite number of  *)
(* processes, any stages, ages and number of discoveries cut short.          *)
THEOREM OnlyWholeResultsHolds ==
    DiscoverySpec => [](OnlyWholeResults /\ memory \in [Sessions -> Given])
<1>1. DiscoveryInit => WholeInv
  <2> SUFFICES ASSUME DiscoveryInit PROVE WholeInv
    OBVIOUS
  <2>1. SaverTypes(Idle)
    BY DEF SaverTypes, Idle
  <2> QED BY <2>1 DEF DiscoveryInit, WholeInv, Given
<1>2. WholeInv /\ [DiscoveryNext]_discoveryVars => WholeInv'
  <2> SUFFICES ASSUME WholeInv, [DiscoveryNext]_discoveryVars PROVE WholeInv'
    OBVIOUS
  <2>1. ASSUME NEW p \in Sessions, StartAnew(p)
        PROVE  WholeInv'
    BY <2>1 DEF StartAnew, WholeInv, Given
  <2>2. CASE Invalidate \/ Tick \/ UNCHANGED discoveryVars
    BY <2>2 DEF Invalidate, Tick, discoveryVars, WholeInv
  <2> QED
    BY <2>1, <2>2, GivenIsWhole, OpeningKeepsWhole, DumpingKeepsWhole, ReplacingKeepsWhole
    DEF DiscoveryNext, Save
<1>3. WholeInv => OnlyWholeResults /\ memory \in [Sessions -> Given]
  BY ResultNumbers DEF WholeInv, OnlyWholeResults, Given
<1> QED BY <1>1, <1>2, <1>3, PTL DEF DiscoverySpec
=============================================================================
