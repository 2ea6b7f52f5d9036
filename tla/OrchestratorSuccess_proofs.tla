--------------------- MODULE OrchestratorSuccess_proofs ---------------------
(***************************************************************************)
(* What a successful apply means in Orchestrator, for every number of      *)
(* resources: in a layered workflow a resource has all its instances       *)
(* unless a call left it, or something it depends on, short.               *)
(***************************************************************************)
EXTENDS OrchestratorLists_proofs

\* The workflows the theorem is about: no other resource needs a service, the
\* resources of one provider are two layers deep (nodes on networks) and take
\* whole objects from each other, and services are reached at all.
Layered ==
    /\ \A r \in Resource \ Services : topo.deps[r] \cap Services = {}
    /\ \A r \in Resource : \A i \in Internal(r) :
          topo.attr[r][i] = "object" /\ Internal(i) = {}
    /\ RunSshTester \/ Services = {}

\* Nothing has raised so far.
Unbroken == phase # "raised" /\ ~raised /\ \A r \in Resource : failed[r] = "no"

\* The apply has awaited r, or passed it over for good.
Handled(r) ==
    \/ phase = "done"
    \/ r \in Services /\ phase = "service" /\ r \notin work
    \/ r \notin Services /\ phase \in {"ssh", "service"}
    \/ r \in CreateLater /\ phase = "wait" /\ r \notin work
    \/ r \in CreateAndWait /\ phase \in {"create", "wait"}
    \/ r \in CreateAndWait /\ phase = "first" /\ r \notin work

\* x will never have its values of e: there are none, or nobody creates e now.
Never(x, e) == topo.attr[x][e] = "blank" \/ (Handled(e) /\ e \notin added)

Stuck(x) == x \in pending /\ \E e \in External(x) : Never(x, e)
Parkings == At(pendingInternal) \cup Elems(todoInternal)
Hopeless(x) == Stuck(x) \/ (x \in Parkings /\ \E i \in Internal(x) : Stuck(i))

\* The instances of d that on_created has handed over to x.
HandedOver(x, d) == IF x \in event /\ d = source THEN notified[d] - 1 ELSE notified[d]

-----------------------------------------------------------------------------
(* The invariant, which holds as long as nothing has raised.               *)

\* An added resource is listed whole; one that is not gives no value.
ListedInv ==
    /\ \A x \in Resource : listed[x] = IF x \in added THEN Count(x) ELSE 0
    /\ phase \in {"validate", "add"} => \A x \in Resource : notified[x] = 0
    /\ \A x \in Resource : \A i \in Internal(x) : i \notin added => got[x][i] = 0

\* on_created runs within the call of its provider, which has nothing waiting
\* in no_longer_pending while it creates.
EventInv ==
    /\ event # {} =>
          /\ step \in {"create", "wait"} /\ source \in added
          /\ \A r \in Resource : IsCurrent(r) => r \in added /\ Owner(source) = Owner(r)
          /\ \A x \in event : source \in External(x)
    /\ step # "idle" /\ phase \in CreatePhases =>
          \A r \in Resource : IsCurrent(r) => noLongerPending[Owner(r)] = <<>>

\* A pending resource has every value there is, and still misses one.
PendingInv ==
    \A x \in pending :
        /\ ~Resolved(External(x), got[x])
        /\ \A d \in External(x) :
              got[x][d] = IF topo.attr[x][d] = "blank" THEN 0
                          ELSE Lesser(HandedOver(x, d), Count(d))

\* A parked resource waits for one of its provider that is not added.
ParkedInv ==
    /\ \A x \in At(pendingInternal) : \E i \in Internal(x) : i \notin added
    /\ \A x \in Parkings : Internal(x) # {}
    /\ phase = "add" => \A x \in work, y \in Resource : x < y => y \in work

\* The loop that waits only waits.
WaitInv == phase = "wait" => step \in {"idle", "wait"}

\* What has been handled exists or is hopeless, among resources no call has
\* left short.
HandledInv(S) == \A r \in S : Handled(r) => FullyCreated(r) \/ Hopeless(r)

\* After the first loop, what is not a service and still pending stays so; what
\* the second loop has passed is not taken over any more.
LeftoverInv(S) ==
    /\ phase \in {"create", "wait", "ssh", "service", "done"} =>
          \A x \in (pending \cap S) \ Services : Stuck(x)
    /\ \A x \in CreateLater \cap S :
          (phase = "create" /\ x \notin work) \/ phase \in {"wait", "ssh", "service", "done"} =>
              x \notin At(noLongerPending)

SuccessInv(S) ==
    /\ ListedInv /\ EventInv /\ WaitInv /\ PendingInv /\ ParkedInv
    /\ HandledInv(S) /\ LeftoverInv(S)

\* What has been proved of every run before.
Base == TypeOK /\ DependencyInv /\ PlaceInv /\ LostInv /\ FailInv

-----------------------------------------------------------------------------
(* What the workflow looks like, now and in the next state.                *)

LEMMA SameWorkflow ==
    ASSUME topo' = topo
    PROVE  /\ Layered' = Layered /\ Services' = Services
           /\ CreateAndWait' = CreateAndWait /\ CreateLater' = CreateLater
           /\ \A x : /\ Owner(x)' = Owner(x) /\ Count(x)' = Count(x)
                     /\ External(x)' = External(x) /\ Internal(x)' = Internal(x)
<1>1. /\ Services' = Services
      /\ \A x : /\ Owner(x)' = Owner(x) /\ Count(x)' = Count(x)
                /\ External(x)' = External(x) /\ Internal(x)' = Internal(x)
  BY DEF Services, Owner, Count, External, Internal
<1>2. CreateAndWait' = CreateAndWait
  BY <1>1 DEF CreateAndWait
<1>3. CreateLater' = CreateLater
  BY <1>1, <1>2 DEF CreateLater
<1>4. Layered' = Layered
  BY <1>1 DEF Layered
<1> QED
  BY <1>1, <1>2, <1>3, <1>4

\* Dependencies come first, and outside services lead outside services.
LEMMA Downward ==
    ASSUME TypeOK, NEW x \in Resource
    PROVE  /\ \A d \in External(x) : d \in Resource /\ d < x
           /\ \A i \in Internal(x) : i \in Resource /\ i < x /\ Owner(i) = Owner(x)
           /\ Layered /\ x \notin Services =>
                 External(x) \subseteq CreateAndWait /\ Internal(x) \cap Services = {}
<1>1. topo.deps[x] \subseteq Resource /\ \A d \in topo.deps[x] : d < x
  BY TopologyAssumption DEF TypeOK
<1>2. ASSUME Layered, x \notin Services
      PROVE  External(x) \subseteq CreateAndWait /\ Internal(x) \cap Services = {}
  <2>1. topo.deps[x] \cap Services = {}
    BY <1>2 DEF Layered
  <2>2. ASSUME NEW d \in External(x) PROVE d \in CreateAndWait
    BY <1>2, <2>1 DEF External, CreateAndWait
  <2> QED
    BY <2>1, <2>2 DEF Internal
<1> QED
  BY <1>1, <1>2 DEF External, Internal

\* The two loops of apply share out what is not a service.
LEMMA TwoLoops ==
    ASSUME TypeOK
    PROVE  /\ CreateAndWait \subseteq Resource /\ CreateLater \subseteq Resource
           /\ Services \subseteq Resource
           /\ CreateAndWait \cap Services = {} /\ CreateLater \cap Services = {}
           /\ CreateAndWait \cap CreateLater = {}
           /\ Resource \ Services = CreateAndWait \cup CreateLater
<1>1. Services \subseteq Resource
  BY TopologyAssumption DEF TypeOK, Services
<1>2. \A r \in Resource : External(r) \subseteq Resource
  BY TopoFacts
<1>3. CreateAndWait \subseteq Resource
  BY <1>2 DEF CreateAndWait
<1> QED
  BY <1>1, <1>3 DEF CreateAndWait, CreateLater

\* A resource is in one place at a time.
LEMMA Placed ==
    ASSUME PlaceInv
    PROVE  /\ pending \cap added = {} /\ pending \cap Parkings = {}
           /\ added \cap Parkings = {}
           /\ Elems(todo) \cap (pending \cup added \cup Parkings) = {}
           /\ At(noLongerPending) \cap (pending \cup added \cup Parkings) = {}
           /\ event \subseteq pending
BY DEF PlaceInv, ApartInv, Apart, ShapeInv, Parkings

\* A hopeless resource has not been added, and an unadded one has no instance.
LEMMA NotThere ==
    ASSUME Base, NEW x \in Resource
    PROVE  /\ Hopeless(x) => x \notin added
           /\ x \notin added => notified[x] = 0 /\ ~FullyCreated(x)
<1>1. Hopeless(x) => x \notin added
  BY Placed DEF Hopeless, Stuck, Base
<1>2. x \notin added => notified[x] = 0
  BY DEF Base, FailInv
<1>3. Count(x) \in Nat /\ Count(x) > 0
  BY TopoFacts DEF Base
<1> QED
  BY <1>1, <1>2, <1>3 DEF FullyCreated

-----------------------------------------------------------------------------
(* The steps of a run in which nothing raises.                             *)

\* The add of h, which is in no place a resource stays in.
Adding(h) ==
    /\ AddResource(h, TRUE)
    /\ h \notin added /\ h \notin pending
    /\ UNCHANGED <<topo, phase, event, source, notified, noLongerPending, raised>>
    /\ Parkings \ {h} \subseteq Parkings' /\ Parkings' \subseteq Parkings \cup {h}
    /\ h \in Parkings' <=> Parks(h)

\* A run that has not raised after a step had not raised before it.
LEMMA UnbrokenBefore ==
    ASSUME Base, [Next]_vars, Unbroken'
    PROVE  Unbroken
<1> USE DEF vars, loopVars
<1>1. \A r \in Resource : failed[r] = "no"
  BY FailedStays DEF Base, Unbroken
<1>2. CASE EndLoop \/ SshTest
  <2>1. ~raised
    BY <1>2 DEF EndLoop, SshTest, Base, LostInv, Unbroken
  <2> QED
    BY <1>1, <1>2, <2>1 DEF EndLoop, SshTest, Unbroken, LoopPhases, CreatePhases
<1>3. CASE ~(EndLoop \/ SshTest)
  <2>1. phase' = phase /\ (raised => raised')
    <3>1. \/ UNCHANGED <<phase, raised>>
          \/ \E r \in Resource, exc \in BOOLEAN : EndIteration(r, exc)
      BY ZenonT(30), <1>3 DEF Next, ResourceStep, EndRetry, EndDrain, ValidateResource, AddPhase, BeginCreate,
                  DrainAdds, DrainFails, RetryInternal, BeginWait, PassOver, AfterCall, CallReturns,
                  CallFails, ResolvePending, OnCreated
    <3>2. CASE UNCHANGED <<phase, raised>>
      BY <3>2
    <3>3. CASE \E r \in Resource, exc \in BOOLEAN : EndIteration(r, exc)
      BY <3>3 DEF EndIteration
    <3> QED
      BY <3>1, <3>2, <3>3
  <2> QED
    BY <1>1, <2>1 DEF Unbroken
<1> QED
  BY <1>2, <1>3

\* Only adds that succeed.
LEMMA OnlyOk ==
    ASSUME TypeOK, Unbroken', NEW h \in Resource, NEW ok \in BOOLEAN, AddResource(h, ok)
    PROVE  ok
<1>1. ~ok => failed' = [failed EXCEPT ![h] = "ADD"]
  BY DEF AddResource
<1> QED
  BY <1>1 DEF Unbroken, TypeOK

LEMMA AddPhaseAdds ==
    ASSUME Base, Unbroken', NEW r \in Resource, AddPhase(r)
    PROVE  /\ Adding(r) /\ phase = "add" /\ work' = work \ {r} /\ IsCurrent(r)
           /\ At(pendingInternal)' = At(pendingInternal) \cup (IF Parks(r) THEN {r} ELSE {})
           /\ step' = step /\ step = "idle"
<1> USE DEF loopVars, callVars, eventVars
<1>1. /\ phase = "add" /\ IsCurrent(r) /\ r \in work
      /\ step = "idle" /\ todo = <<>> /\ todoInternal = <<>>
      /\ r \notin pending /\ r \notin added /\ r \notin At(pendingInternal)
  <2>1. phase = "add" /\ IsCurrent(r) /\ r \in work
    BY DEF AddPhase, IsCurrent
  <2>2. step = "idle"
    BY <2>1 DEF Base, PlaceInv, DrainInv, CreatePhases
  <2> QED
    BY <2>1, <2>2 DEF Base, PlaceInv, DrainInv, AddInv
<1>2. PICK ok \in BOOLEAN : AddResource(r, ok) /\ EndIteration(r, ~ok)
  BY DEF AddPhase
<1>3. ok
  BY <1>2, OnlyOk DEF Base
<1>4. AddResource(r, TRUE) /\ EndIteration(r, FALSE)
  <2>1. ok = TRUE /\ ~ok = FALSE
    BY <1>3
  <2> QED
    BY <1>2, <2>1
<1>5. /\ UNCHANGED <<topo, step, todo, todoInternal, event, source, notified, noLongerPending>>
      /\ pendingInternal' = [pendingInternal EXCEPT ![Owner(r)] = Parked(r, @)]
  BY DEF AddPhase
<1>6. phase' = phase /\ work' = work \ {r} /\ raised' = raised
  BY <1>4 DEF EndIteration, Base, TypeOK
<1>7. /\ Parks(r) => At(pendingInternal)' = At(pendingInternal) \cup {r}
      /\ ~Parks(r) => At(pendingInternal)' = At(pendingInternal)
  BY <1>1, <1>5, ParkKeeps, AtPrimed, TopoFacts DEF Base, PlaceInv
<1>8. Elems(todoInternal) = {} /\ Elems(todoInternal)' = {}
  BY <1>1, <1>5, ElemsEmpty
<1>9. Adding(r)
  BY <1>1, <1>4, <1>5, <1>6, <1>7, <1>8 DEF Adding, Parkings
<1> QED
  BY <1>1, <1>5, <1>6, <1>7, <1>9

LEMMA DrainAddsAdds ==
    ASSUME Base, Unbroken', NEW r \in Resource, DrainAdds(r)
    PROVE  /\ Adding(Head(todo)) /\ Head(todo) \in Elems(todo) /\ UNCHANGED work
           /\ Owner(Head(todo)) = Owner(r) /\ IsCurrent(r)
           /\ At(pendingInternal)' = {x \in At(pendingInternal) : Owner(x) # Owner(r)}
           /\ step = "drain" /\ step' = "retry"
<1> USE DEF loopVars, eventVars
<1> DEFINE h == Head(todo)
           own == pendingInternal[Owner(r)]
<1>1. /\ Owner(r) \in Provider /\ todo \in Seq(Resource) /\ todo # <<>>
      /\ pendingInternal \in [Provider -> Seq(Resource)] /\ own \in Seq(Resource)
      /\ step = "drain" /\ todoInternal = <<>> /\ IsCurrent(r)
      /\ Homed(pendingInternal) /\ EachOnce(pendingInternal)
  BY TopoFacts DEF Base, TypeOK, PlaceInv, DrainInv, ShapeInv, DrainAdds
<1>2. /\ todoInternal' = Parked(h, own) /\ step' = "retry"
      /\ pendingInternal' = [pendingInternal EXCEPT ![Owner(r)] = <<>>]
      /\ UNCHANGED <<topo, phase, work, raised, event, source, notified, noLongerPending>>
      /\ AddResource(h, TRUE)
  BY DEF DrainAdds
<1>3. h \in Resource /\ h \in Elems(todo)
  BY <1>1, ElemsTail
<1>4. h \notin added /\ h \notin pending /\ h \notin At(pendingInternal)
  BY <1>3, Placed DEF Base, Parkings
<1>5. /\ At(pendingInternal)' = At(pendingInternal) \ Elems(own)
      /\ Elems(own) \subseteq At(pendingInternal)
  BY <1>1, <1>2, AtEmptied, AtPrimed DEF Base
<1>6. /\ Parks(h) => Elems(todoInternal') = Elems(own) \cup {h}
      /\ ~Parks(h) => Elems(todoInternal') = Elems(own)
  BY <1>1, <1>2, <1>3, ParkedElems
<1>7. Elems(todoInternal) = {}
  BY <1>1, ElemsEmpty
<1>8. Parkings' = Parkings \cup (IF Parks(h) THEN {h} ELSE {})
  BY <1>5, <1>6, <1>7 DEF Parkings
<1>9. h \notin Parkings
  BY <1>4, <1>7 DEF Parkings
<1>10. Adding(h)
  <2> HIDE DEF h
  <2> QED
    BY <1>2, <1>4, <1>8, <1>9 DEF Adding
<1>11. \A x \in At(pendingInternal) : x \in Elems(own) <=> Owner(x) = Owner(r)
  BY <1>1 DEF At, Homed
<1>12. Owner(h) = Owner(r)
  BY <1>1, <1>3 DEF Base, PlaceInv, DrainInv
<1>13. At(pendingInternal)' = {x \in At(pendingInternal) : Owner(x) # Owner(r)}
  BY <1>5, <1>11
<1> QED
  BY <1>1, <1>2, <1>3, <1>10, <1>12, <1>13

LEMMA RetryAdds ==
    ASSUME Base, Unbroken', NEW r \in Resource, RetryInternal(r)
    PROVE  /\ Adding(Head(todoInternal)) /\ Head(todoInternal) \in Parkings
           /\ At(pendingInternal)' = At(pendingInternal)
                    \cup (IF Parks(Head(todoInternal)) THEN {Head(todoInternal)} ELSE {})
           /\ UNCHANGED work /\ step' = step /\ step = "retry"
<1> USE DEF loopVars, eventVars
<1> DEFINE h == Head(todoInternal)
<1>1. /\ Owner(r) \in Provider /\ todoInternal \in Seq(Resource) /\ todoInternal # <<>>
      /\ step = "retry" /\ IsCurrent(r)
  BY TopoFacts DEF Base, TypeOK, RetryInternal
<1>2. /\ pendingInternal' = [pendingInternal EXCEPT ![Owner(r)] = Parked(h, @)]
      /\ UNCHANGED <<topo, phase, work, raised, step, event, source, notified, noLongerPending>>
      /\ todoInternal' = Tail(todoInternal)
  BY DEF RetryInternal
<1>3. /\ h \in Resource /\ Elems(todoInternal) = Elems(todoInternal') \cup {h}
      /\ h \notin Elems(todoInternal')
  BY <1>1, <1>2, ElemsTail DEF Base, PlaceInv, ShapeInv
<1>4. AddResource(h, TRUE)
  <2>1. PICK ok \in BOOLEAN : AddResource(h, ok)
    BY DEF RetryInternal
  <2>2. ok = TRUE
    BY <1>3, <2>1, OnlyOk DEF Base
  <2> QED
    BY <2>1, <2>2
<1>5. Owner(h) = Owner(r)
  BY <1>1, <1>3 DEF Base, PlaceInv, DrainInv
<1>6. h \notin added /\ h \notin pending /\ h \notin At(pendingInternal)
  BY <1>3 DEF Base, PlaceInv, ApartInv, Apart
<1>7. /\ Parks(h) => At(pendingInternal)' = At(pendingInternal) \cup {h}
      /\ ~Parks(h) => At(pendingInternal)' = At(pendingInternal)
  BY <1>1, <1>2, <1>3, <1>5, <1>6, ParkKeeps, AtPrimed DEF Base, PlaceInv
<1> HIDE DEF h
<1>8. Adding(h) /\ h \in Parkings
  BY <1>2, <1>3, <1>4, <1>6, <1>7 DEF Adding, Parkings
<1> QED
  BY <1>1, <1>2, <1>7, <1>8 DEF h

\* The loops and calls that touch neither the lists nor the values.
Calm == UNCHANGED <<topo, todo, todoInternal, eventVars, placeVars, added, listed, got, notified>>

LEMMA Kinds ==
    ASSUME Base, [Next]_vars, Unbroken'
    PROVE  \/ Calm
           \/ \E h \in Resource : Adding(h)
           \/ \E r \in Resource : BeginCreate(r)
           \/ \E r \in Resource, d \in Resource : OnCreated(r, d)
           \/ \E x \in Resource : ResolvePending(x)
<1> USE DEF vars, loopVars, callVars, eventVars, placeVars
<1>1. CASE EndLoop \/ SshTest \/ EndRetry \/ EndDrain \/ UNCHANGED vars
  BY <1>1 DEF Calm, EndLoop, SshTest, EndRetry, EndDrain
<1>2. ASSUME NEW r \in Resource, ResourceStep(r)
      PROVE  \/ Calm \/ BeginCreate(r) \/ ResolvePending(r)
             \/ \E h \in Resource : Adding(h) \/ OnCreated(r, h)
  <2>1. CASE ValidateResource(r) \/ BeginWait(r) \/ PassOver(r) \/ CallReturns(r)
    BY <2>1 DEF Calm, ValidateResource, BeginWait, PassOver, CallReturns
  <2>2. CASE AddPhase(r)
    BY <2>2, AddPhaseAdds
  <2>3. CASE DrainAdds(r)
    <3>1. Elems(todo) \subseteq Resource
      BY ElemsIn DEF Base, TypeOK
    <3> QED
      BY <2>3, <3>1, DrainAddsAdds
  <2>4. CASE RetryInternal(r)
    <3>1. Head(todoInternal) \in Resource
      BY <2>4 DEF RetryInternal, Base, TypeOK
    <3> QED
      BY <2>4, <3>1, RetryAdds
  <2>5. CASE DrainFails(r)
    <3>1. Head(todo) \in Resource
      <4>1. todo \in Seq(Resource) /\ todo # <<>>
        BY <2>5 DEF DrainFails, Base, TypeOK
      <4> QED
        BY <4>1
    <3> QED
      BY <2>5, <3>1, OnlyOk DEF DrainFails, Base
  <2>6. CASE CallFails(r)
    BY <2>6 DEF CallFails, EndIteration, Unbroken
  <2> QED
    BY <1>2, <2>1, <2>2, <2>3, <2>4, <2>5, <2>6 DEF ResourceStep
<1> QED
  BY <1>1, <1>2 DEF Next

\* Only a calm step changes the phase, and none comes back to the first two.
LEMMA PhaseStep ==
    ASSUME Base, [Next]_vars
    PROVE  /\ Calm \/ phase' = phase
           /\ phase' \in {"validate", "add"} => phase \in {"validate", "add"}
           /\ phase' # phase => step = "idle" /\ step' = "idle"
<1> USE DEF vars, loopVars, callVars
<1>1. CASE EndLoop \/ SshTest
  <2>1. step = "idle"
    BY <1>1 DEF EndLoop, SshTest, Base, PlaceInv, DrainInv, CreatePhases
  <2> QED
    BY <1>1, <2>1 DEF EndLoop, SshTest, Enter, Calm, LoopPhases
<1>2. CASE ~(EndLoop \/ SshTest)
  BY <1>2 DEF Next, ResourceStep, EndRetry, EndDrain, ValidateResource, AddPhase, BeginCreate,
              DrainAdds, DrainFails, RetryInternal, BeginWait, PassOver, AfterCall, CallReturns,
              CallFails, ResolvePending, OnCreated, EndIteration
<1> QED
  BY <1>1, <1>2

\* What is not added has no value to give to a resource of its provider.
LEMMA NoValue ==
    ASSUME Base, ListedInv, NEW x \in Resource, NEW i \in Internal(x), i \notin added
    PROVE  got[x][i] = 0 /\ ResolvedInternally(x)[i] = 0 /\ Count(i) > 0
<1>1. /\ i \in Resource /\ Count(i) \in Nat /\ Count(i) > 0 /\ notified[i] \in Nat
      /\ got[x][i] = 0 /\ listed[i] = 0
  BY Downward, TopoFacts DEF ListedInv, Base, TypeOK
<1>2. Available(x, i) = 0
  BY <1>1 DEF Available, Lesser
<1>3. ResolvedInternally(x)[i] = 0
  BY <1>1, <1>2 DEF ResolvedInternally, Lesser
<1> QED
  BY <1>1, <1>3

LEMMA ListedStep ==
    ASSUME Base, [Next]_vars, Unbroken', ListedInv, EventInv
    PROVE  ListedInv'
<1> USE DEF eventVars, placeVars
<1>0. topo' = topo
  BY TopoConstant
<1>1. \A x : Count(x)' = Count(x) /\ Internal(x)' = Internal(x) /\ External(x)' = External(x)
  BY <1>0, SameWorkflow
<1>2. CASE Calm \/ \E r \in Resource : BeginCreate(r)
  <2>1. UNCHANGED <<added, listed, got, notified>>
    BY <1>2 DEF Calm, BeginCreate
  <2> QED
    BY <1>1, <2>1, PhaseStep DEF ListedInv
<1>3. ASSUME NEW h \in Resource, Adding(h) PROVE ListedInv'
  <2>1. AddResource(h, TRUE) /\ h \notin added /\ notified' = notified /\ phase' = phase
    BY <1>3 DEF Adding
  <2>2. listed \in [Resource -> Nat] /\ got \in [Resource -> [Resource -> Nat]] /\ added \subseteq Resource
    BY DEF Base, TypeOK
  <2>3. \A x \in Resource : Count(x) \in Nat
    BY TopoFacts DEF Base
  <2>4. \A x \in Resource : listed'[x] = IF x \in added' THEN Count(x) ELSE 0
    <3>1. \/ added' = added /\ listed' = listed
          \/ added' = added \cup {h} /\ listed' = [listed EXCEPT ![h] = @ + Count(h)]
      BY <2>1 DEF AddResource
    <3>2. listed[h] = 0
      BY <2>1 DEF ListedInv
    <3> QED
      BY <2>2, <2>3, <3>1, <3>2 DEF ListedInv
  <2>5. ASSUME NEW x \in Resource, NEW i \in Internal(x), i \notin added' PROVE got'[x][i] = 0
    <3>1. i \in Resource /\ i \notin added
      BY <2>1, <2>5, Downward DEF AddResource, Base
    <3>2. got[x][i] = 0 /\ ResolvedInternally(x)[i] = 0
      BY <3>1, NoValue
    <3>3. got' = got \/ got' = [got EXCEPT ![h] = ResolvedInternally(h)]
      BY <2>1 DEF AddResource
    <3> QED
      BY <2>2, <3>2, <3>3
  <2> QED
    BY <1>1, <2>1, <2>4, <2>5 DEF ListedInv
<1>4. ASSUME NEW r \in Resource, NEW d \in Resource, OnCreated(r, d) PROVE ListedInv'
  <2>1. UNCHANGED <<added, listed, got, phase>> /\ phase \notin {"validate", "add"}
    BY <1>4 DEF OnCreated, loopVars, Base, PlaceInv, DrainInv, CreatePhases
  <2> QED
    BY <1>1, <2>1 DEF ListedInv
<1>5. ASSUME NEW x \in Resource, ResolvePending(x) PROVE ListedInv'
  <2>1. /\ UNCHANGED <<added, listed, notified, phase>> /\ x \in event
        /\ got' = [got EXCEPT ![x] = ResolvedBy(x, source)]
    BY <1>5 DEF ResolvePending, loopVars
  <2>2. source \in External(x)
    BY <2>1 DEF EventInv
  <2>3. got \in [Resource -> [Resource -> Nat]]
    BY DEF Base, TypeOK
  <2>4. \A i \in Internal(x) : i \in Resource /\ ResolvedBy(x, source)[i] = got[x][i]
    BY <2>2, <2>3, Downward DEF ResolvedBy, Internal, External, Base
  <2> QED
    BY <1>1, <2>1, <2>3, <2>4 DEF ListedInv
<1> QED
  BY <1>2, <1>3, <1>4, <1>5, Kinds

LEMMA EventStep ==
    ASSUME Base, [Next]_vars, Unbroken', EventInv
    PROVE  EventInv'
<1> USE DEF vars, loopVars, callVars, eventVars, placeVars
<1>0. topo' = topo
  BY TopoConstant
<1>1. \A x : Owner(x)' = Owner(x) /\ External(x)' = External(x)
  BY <1>0, SameWorkflow
<1> DEFINE Free == \A r \in Resource : IsCurrent(r) => noLongerPending[Owner(r)] = <<>>
           Within == /\ step \in {"create", "wait"} /\ source \in added
                     /\ \A r \in Resource : IsCurrent(r) => r \in added /\ Owner(source) = Owner(r)
                     /\ \A x \in event : source \in External(x)
<1>2. (event # {} => Within) /\ (step # "idle" /\ phase \in CreatePhases => Free)
  BY DEF EventInv
<1>3. CASE EndLoop \/ SshTest \/ UNCHANGED vars
  <2>1. CASE UNCHANGED vars
    BY <1>1, <1>2, <2>1 DEF EventInv, IsCurrent
  <2>2. CASE EndLoop \/ SshTest
    <3>1. step = "idle" /\ step' = "idle" /\ event' = event
      BY <2>2 DEF EndLoop, SshTest, Base, PlaceInv, DrainInv, CreatePhases
    <3> QED
      BY <1>2, <3>1 DEF EventInv
  <2> QED
    BY <1>3, <2>1, <2>2
<1>4. CASE EndRetry \/ EndDrain
  <2>1. event = {}
    BY <1>2, <1>4 DEF EndRetry, EndDrain
  <2>2. UNCHANGED <<event, work, phase, noLongerPending>> /\ step # "idle"
    BY <1>4 DEF EndRetry, EndDrain
  <2> QED
    BY <1>1, <1>2, <2>1, <2>2 DEF EventInv, IsCurrent
<1>5. ASSUME NEW r \in Resource, ResourceStep(r) PROVE EventInv'
  <2>1. CASE ValidateResource(r)
    <3>1. step = "idle" /\ step' = "idle" /\ event' = event
      BY <2>1 DEF ValidateResource, Base, PlaceInv, DrainInv, CreatePhases
    <3> QED
      BY <1>2, <3>1 DEF EventInv
  <2>2. CASE AddPhase(r)
    <3>1. step = "idle" /\ step' = "idle" /\ event' = event
      BY <2>2 DEF AddPhase, Base, PlaceInv, DrainInv, CreatePhases
    <3> QED
      BY <1>2, <3>1 DEF EventInv
  <2>3. CASE BeginCreate(r)
    <3>1. /\ event = {} /\ event' = {} /\ work' = work /\ phase' = phase
          /\ noLongerPending' = [noLongerPending EXCEPT ![Owner(r)] = <<>>] /\ IsCurrent(r)
      BY <1>2, <2>3 DEF BeginCreate
    <3>2. \A s \in Resource : IsCurrent(s)' => s = r
      BY <3>1, CurrentUnique DEF IsCurrent, Base
    <3>3. noLongerPending'[Owner(r)] = <<>>
      BY <3>1, TopoFacts DEF Base, TypeOK
    <3> QED
      BY <1>1, <3>1, <3>2, <3>3 DEF EventInv
  <2>4. CASE DrainAdds(r) \/ RetryInternal(r)
    <3>1. event = {} /\ event' = {} /\ UNCHANGED <<work, phase, noLongerPending>> /\ step # "idle"
      BY <1>2, <2>4 DEF DrainAdds, RetryInternal
    <3> QED
      BY <1>1, <1>2, <3>1 DEF EventInv, IsCurrent
  <2>5. CASE BeginWait(r)
    <3>1. event = {} /\ event' = {} /\ phase' \notin CreatePhases
      BY <1>2, <2>5 DEF BeginWait, CreatePhases
    <3> QED
      BY <3>1 DEF EventInv
  <2>6. CASE PassOver(r) \/ CallReturns(r)
    <3>1. event = {} /\ event' = {} /\ noLongerPending' = noLongerPending
      BY <1>2, <2>6 DEF PassOver, CallReturns
    <3>2. step' = "idle" \/ (UNCHANGED <<work, phase>> /\ step # "idle")
      BY <2>6 DEF PassOver, CallReturns, AfterCall
    <3> QED
      BY <1>1, <1>2, <3>1, <3>2 DEF EventInv, IsCurrent
  <2>7. CASE CallFails(r)
    BY <2>7 DEF CallFails, EndIteration, Unbroken
  <2>8. CASE DrainFails(r)
    <3>1. todo \in Seq(Resource) /\ todo # <<>>
      BY <2>8 DEF DrainFails, Base, TypeOK
    <3>2. Head(todo) \in Resource
      BY <3>1
    <3> QED
      BY <2>8, <3>2, OnlyOk DEF DrainFails, Base
  <2>9. CASE ResolvePending(r)
    <3>1. /\ UNCHANGED <<work, phase, step, source, added>> /\ event' \subseteq event /\ r \in event
          /\ \/ noLongerPending' = noLongerPending
             \/ noLongerPending' = [noLongerPending EXCEPT ![Owner(r)] = Append(@, r)]
      BY <2>9 DEF ResolvePending
    <3>2. Within /\ source \in External(r)
      BY <1>2, <3>1
    <3>3. Owner(source) # Owner(r)
      BY <3>2 DEF External
    <3>4. ASSUME NEW s \in Resource, IsCurrent(s), phase \in CreatePhases
          PROVE  noLongerPending'[Owner(s)] = <<>>
      <4>1. noLongerPending[Owner(s)] = <<>> /\ Owner(s) # Owner(r)
        BY <1>2, <3>2, <3>3, <3>4
      <4>2. Owner(s) \in Provider /\ noLongerPending \in [Provider -> Seq(Resource)]
        BY TopoFacts DEF Base, TypeOK
      <4> QED
        BY <3>1, <4>1, <4>2
    <3> QED
      BY <1>1, <3>1, <3>2, <3>4 DEF EventInv, IsCurrent
  <2>10. CASE \E d \in Resource : OnCreated(r, d)
    <3>1. PICK d \in Resource : OnCreated(r, d)
      BY <2>10
    <3>2. /\ UNCHANGED <<work, phase, step, added, noLongerPending>> /\ source' = d /\ d \in added
          /\ event' = {x \in pending : d \in External(x)} /\ r \in added /\ Owner(d) = Owner(r)
          /\ IsCurrent(r) /\ step \in {"create", "wait"}
      BY <3>1 DEF OnCreated
    <3>3. \A s \in Resource : IsCurrent(s)' => s = r
      BY <3>2, CurrentUnique DEF IsCurrent, Base
    <3> QED
      BY <1>1, <1>2, <3>2, <3>3 DEF EventInv
  <2> QED
    BY <1>5, <2>1, <2>2, <2>3, <2>4, <2>5, <2>6, <2>7, <2>8, <2>9, <2>10 DEF ResourceStep
<1> QED
  BY <1>3, <1>4, <1>5 DEF Next

\* What an add that succeeds does to the places of h.
LEMMA AddingPlaces ==
    ASSUME Base, NEW h \in Resource, Adding(h)
    PROVE  /\ \/ MissesExternal(h) /\ pending' = pending \cup {h} /\ added' = added
              \/ Parks(h) /\ pending' = pending /\ added' = added
              \/ ~MissesExternal(h) /\ ~Parks(h) /\ pending' = pending /\ added' = added \cup {h}
           /\ \A x \in Resource : \A d \in External(x) : got'[x][d] = got[x][d]
           /\ UNCHANGED <<topo, phase, event, source, notified, noLongerPending, raised>>
<1>1. AddResource(h, TRUE)
  BY DEF Adding
<1>2. \/ MissesExternal(h) /\ pending' = pending \cup {h} /\ added' = added
      \/ Parks(h) /\ pending' = pending /\ added' = added
      \/ ~MissesExternal(h) /\ ~Parks(h) /\ pending' = pending /\ added' = added \cup {h}
  BY <1>1 DEF AddResource, CallsDoAdd, Parks
<1> QED
  BY <1>1, <1>2, AddKeepsExternal DEF Adding, Base

\* What is being drained or retried has its external values.
LEMMA DrainedSettled ==
    ASSUME Base, NEW h \in Resource, h \in Elems(todo) \cup Parkings
    PROVE  ~MissesExternal(h)
<1>1. /\ Elems(todo) \subseteq Settled /\ Elems(todoInternal) \subseteq Settled
      /\ At(pendingInternal) \subseteq Settled
  <2>1. /\ todo \in Seq(Settled) /\ todoInternal \in Seq(Settled)
        /\ \A y \in Resource : pendingInternal[Owner(y)] \in Seq(Settled)
    BY TopoFacts DEF Base, DependencyInv, ListsSettled
  <2>2. \A y \in Resource : Elems(pendingInternal[Owner(y)]) \subseteq Settled
    BY <2>1, ElemsIn
  <2> QED
    BY <2>1, <2>2, ElemsIn DEF At
<1>2. h \in Settled
  BY <1>1 DEF Parkings
<1> QED
  BY <1>2, TopoFacts DEF Settled, Resolved, MissesExternal, Base

\* Outside the add loop, what is added anew has its external values already.
LEMMA NoMoreWaiting ==
    ASSUME Base, [Next]_vars, Unbroken', phase # "add"
    PROVE  pending' \subseteq pending
<1> USE DEF vars, loopVars, eventVars, placeVars
<1>1. ASSUME NEW r \in Resource, DrainAdds(r) PROVE pending' = pending
  <2>1. Head(todo) \in Elems(todo) /\ Head(todo) \in Resource
    BY <1>1, DrainAddsAdds, ElemsIn DEF Base, TypeOK
  <2> QED
    BY <1>1, <2>1, DrainedSettled DEF DrainAdds, AddResource
<1>2. ASSUME NEW r \in Resource, RetryInternal(r) PROVE pending' = pending
  <2>1. Head(todoInternal) \in Parkings
    BY <1>2, RetryAdds
  <2>2. Head(todoInternal) \in Resource
    BY <1>2 DEF RetryInternal, Base, TypeOK
  <2> QED
    BY <1>2, <2>1, <2>2, DrainedSettled DEF RetryInternal, AddResource
<1>3. ASSUME NEW r \in Resource, DrainFails(r) PROVE pending' = pending
  BY <1>3 DEF DrainFails, AddResource, CallsDoAdd
<1>4. ASSUME NEW r \in Resource, ResourceStep(r) PROVE pending' \subseteq pending
  BY <1>1, <1>2, <1>3, <1>4 DEF ResourceStep, ValidateResource, AddPhase, BeginCreate, BeginWait,
     PassOver, CallReturns, CallFails, ResolvePending, OnCreated
<1> QED
  BY <1>4 DEF Next, EndLoop, SshTest, EndRetry, EndDrain

LEMMA LesserNext ==
    ASSUME NEW a \in Nat, NEW b \in Nat
    PROVE  Lesser(Lesser(a, b) + 1, b) = Lesser(a + 1, b)
BY DEF Lesser

LEMMA PendingStep ==
    ASSUME Base, [Next]_vars, Unbroken', ListedInv, EventInv, PendingInv
    PROVE  PendingInv'
<1> USE DEF eventVars, placeVars
<1>0. topo' = topo
  BY TopoConstant
<1>1. \A x : Count(x)' = Count(x) /\ External(x)' = External(x)
  BY <1>0, SameWorkflow
<1>2. /\ pending \subseteq Resource /\ got \in [Resource -> [Resource -> Nat]]
      /\ notified \in [Resource -> Nat]
      /\ \A x \in Resource : Count(x) \in Nat /\ Count(x) > 0
      /\ \A x \in Resource : \A d \in External(x) : d \in Resource
  BY TopoFacts, Downward DEF Base, TypeOK
<1> DEFINE Misses(x) == \E d \in External(x) : got[x][d] # Count(d)
           Value(x, d) == IF topo.attr[x][d] = "blank" THEN 0
                          ELSE Lesser(HandedOver(x, d), Count(d))
<1>3. \A x \in pending : Misses(x) /\ \A d \in External(x) : got[x][d] = Value(x, d)
  BY DEF PendingInv, Resolved
<1>4. SUFFICES \A x \in pending' : Misses(x)' /\ \A d \in External(x) : got'[x][d] = Value(x, d)'
  BY <1>1 DEF PendingInv, Resolved
<1>5. CASE Calm \/ \E r \in Resource : BeginCreate(r)
  <2>1. UNCHANGED <<pending, got, notified, event, source>>
    BY <1>5 DEF Calm, BeginCreate
  <2> QED
    BY <1>0, <1>1, <1>3, <2>1 DEF HandedOver
<1>6. ASSUME NEW h \in Resource, Adding(h)
      PROVE  \A x \in pending' : Misses(x)' /\ \A d \in External(x) : got'[x][d] = Value(x, d)'
  <2>1. /\ \/ MissesExternal(h) /\ pending' = pending \cup {h}
           \/ pending' = pending
        /\ \A x \in Resource : \A d \in External(x) : got'[x][d] = got[x][d]
        /\ UNCHANGED <<topo, phase, event, source, notified>>
    BY <1>6, AddingPlaces
  <2>2. ASSUME NEW x \in pending
        PROVE  Misses(x)' /\ \A d \in External(x) : got'[x][d] = Value(x, d)'
    BY <1>1, <1>2, <1>3, <2>1 DEF HandedOver
  <2>3. CASE MissesExternal(h) /\ pending' = pending \cup {h}
    <3>1. h \notin pending /\ event \subseteq pending
      BY <1>6, Placed DEF Adding, Base
    <3>2. phase = "add"
      <4>1. ~(pending' \subseteq pending)
        BY <2>3, <3>1
      <4> QED
        BY <4>1, NoMoreWaiting
    <3>3. \A d \in External(h) : got[h][d] = 0 /\ notified[d] = 0
      BY <1>2, <3>2 DEF ListedInv, Base, DependencyInv, QuietWhileAdding
    <3>4. \A d \in External(h) : got'[h][d] = Value(h, d)'
      <4> SUFFICES ASSUME NEW d \in External(h) PROVE got'[h][d] = Value(h, d)'
        OBVIOUS
      <4>1. HandedOver(h, d)' = 0
        BY <1>2, <2>1, <3>1, <3>3 DEF HandedOver
      <4>2. Value(h, d)' = 0
        BY <1>1, <1>2, <4>1 DEF Lesser
      <4> QED
        BY <2>1, <3>3, <4>2
    <3>5. Misses(h)'
      <4>1. PICK d \in External(h) : got[h][d] = 0
        BY <2>3 DEF MissesExternal
      <4> QED
        BY <1>1, <1>2, <2>1, <4>1
    <3> QED
      BY <2>2, <2>3, <3>4, <3>5
  <2> QED
    BY <2>1, <2>2, <2>3
<1>7. ASSUME NEW r \in Resource, NEW e \in Resource, OnCreated(r, e)
      PROVE  \A x \in pending' : Misses(x)' /\ \A d \in External(x) : got'[x][d] = Value(x, d)'
  <2>1. /\ UNCHANGED <<topo, pending, got>> /\ event = {} /\ source' = e
        /\ notified' = [notified EXCEPT ![e] = @ + 1]
        /\ event' = {x \in pending : e \in External(x)}
    BY <1>7 DEF OnCreated
  <2>2. ASSUME NEW x \in pending, NEW d \in External(x) PROVE HandedOver(x, d)' = HandedOver(x, d)
    BY <1>2, <2>1 DEF HandedOver
  <2> QED
    BY <1>1, <1>3, <2>1, <2>2
<1>8. ASSUME NEW y \in Resource, ResolvePending(y)
      PROVE  \A x \in pending' : Misses(x)' /\ \A d \in External(x) : got'[x][d] = Value(x, d)'
  <2>1. /\ UNCHANGED <<topo, notified, source>> /\ y \in event /\ event' = event \ {y}
        /\ got' = [got EXCEPT ![y] = ResolvedBy(y, source)]
        /\ pending' \subseteq pending
        /\ y \in pending' => ~Resolved(External(y), ResolvedBy(y, source))
    BY <1>8, <1>2 DEF ResolvePending
  <2>2. source \in External(y) /\ y \in pending
    BY <2>1, Placed DEF EventInv, Base
  <2>3. ASSUME NEW x \in pending', x # y
        PROVE  Misses(x)' /\ \A d \in External(x) : got'[x][d] = Value(x, d)'
    <3>1. x \in pending /\ got'[x] = got[x]
      BY <1>2, <2>1, <2>3
    <3>2. \A d \in External(x) : HandedOver(x, d)' = HandedOver(x, d)
      BY <2>1, <2>3 DEF HandedOver
    <3> QED
      BY <1>1, <1>3, <2>1, <3>1, <3>2
  <2>4. ASSUME y \in pending' PROVE Misses(y)'
    BY <1>1, <1>2, <2>1, <2>4 DEF Resolved
  <2>5. ASSUME NEW d \in External(y) PROVE got'[y][d] = Value(y, d)'
    <3>1. got'[y][d] = ResolvedBy(y, source)[d] /\ got[y][d] = Value(y, d)
      BY <1>2, <1>3, <2>1, <2>2
    <3>2. CASE d # source
      BY <1>1, <1>2, <2>1, <3>1, <3>2 DEF ResolvedBy, HandedOver
    <3>3. CASE d = source /\ topo.attr[y][d] = "blank"
      BY <1>1, <1>2, <2>1, <3>1, <3>3 DEF ResolvedBy
    <3>4. CASE d = source /\ topo.attr[y][d] # "blank"
      <4>1. /\ got[y][d] = Lesser(notified[d] - 1, Count(d))
            /\ Value(y, d)' = Lesser(notified[d], Count(d))
            /\ got'[y][d] = Lesser(got[y][d] + 1, Count(d))
        BY <1>1, <1>2, <2>1, <3>1, <3>4 DEF ResolvedBy, HandedOver
      <4>2. notified[d] - 1 \in Nat /\ notified[d] - 1 + 1 = notified[d]
        <5>1. got[y][d] < notified[d] /\ got[y][d] \in Nat /\ notified[d] \in Nat
          BY <1>2, <2>1, <3>4 DEF Base, DependencyInv, ValuesHaveInstances
        <5> QED
          BY <5>1
      <4>3. Lesser(Lesser(notified[d] - 1, Count(d)) + 1, Count(d)) = Lesser(notified[d] - 1 + 1, Count(d))
        BY <1>2, <4>2, LesserNext
      <4> QED
        BY <4>1, <4>2, <4>3
    <3> QED
      BY <3>2, <3>3, <3>4
  <2> QED
    BY <2>3, <2>4, <2>5
<1> QED
  BY <1>5, <1>6, <1>7, <1>8, Kinds

-----------------------------------------------------------------------------
(* Parked resources.                                                       *)

\* A resource is parked only for one of its provider that is not added.
LEMMA ParkMisses ==
    ASSUME Base, ListedInv, Layered, NEW x \in Resource, Parks(x)
    PROVE  \E i \in Internal(x) : i \notin added
<1>1. PICK i \in Internal(x) : ResolvedInternally(x)[i] # Count(i)
  BY DEF Parks, Resolved
<1>2. /\ i \in Resource /\ Count(i) \in Nat /\ got[x][i] \in Nat
      /\ topo.attr[x][i] = "object"
  BY ZenonT(30), Downward, TopoFacts DEF Base, TypeOK, Layered
<1>3. ResolvedInternally(x)[i] = Lesser(got[x][i] + listed[i], Count(i))
  BY <1>2 DEF ResolvedInternally, Available
<1>4. i \in added => Lesser(got[x][i] + listed[i], Count(i)) = Count(i)
  BY <1>2 DEF ListedInv, Lesser
<1> QED
  BY <1>1, <1>3, <1>4

\* And stays parked as long as that one is not added.
LEMMA ParksAgain ==
    ASSUME Base, ListedInv, NEW x \in Resource, NEW i \in Internal(x), i \notin added,
           ~MissesExternal(x)
    PROVE  Parks(x)
BY NoValue DEF Parks, MissesInternal, Resolved

LEMMA ParkedStep ==
    ASSUME Base, [Next]_vars, Unbroken', Layered, ListedInv, ParkedInv
    PROVE  ParkedInv'
<1> USE DEF vars, loopVars, callVars, eventVars, placeVars
<1>0. topo' = topo
  BY TopoConstant
<1>1. \A x : Internal(x)' = Internal(x) /\ Owner(x)' = Owner(x)
  BY <1>0, SameWorkflow
<1> DEFINE Waits == \A x \in At(pendingInternal) : \E i \in Internal(x) : i \notin added
           Needs == \A x \in Parkings : Internal(x) # {}
           Order == phase = "add" => \A x \in work, y \in Resource : x < y => y \in work
<1>2. Waits /\ Needs /\ Order
  BY DEF ParkedInv
<1>3. SUFFICES Waits' /\ Needs' /\ Order'
  BY DEF ParkedInv
<1>4. Needs'
  <2>1. CASE Calm \/ \E r \in Resource : BeginCreate(r)
    <3>1. Parkings' = Parkings
      BY <2>1 DEF Calm, BeginCreate, Parkings, At, Owner
    <3> QED
      BY <1>1, <1>2, <3>1
  <2>2. CASE \/ \E r \in Resource, d \in Resource : OnCreated(r, d)
             \/ \E x \in Resource : ResolvePending(x)
    <3>1. Parkings' = Parkings
      BY <2>2 DEF OnCreated, ResolvePending, Parkings, At, Owner
    <3> QED
      BY <1>1, <1>2, <3>1
  <2>3. ASSUME NEW h \in Resource, Adding(h) PROVE Needs'
    <3>1. Parks(h) => Internal(h) # {}
      BY DEF Parks, MissesInternal
    <3> QED
      BY <1>1, <1>2, <2>3, <3>1 DEF Adding
  <2> QED
    BY <2>1, <2>2, <2>3, Kinds
<1>5. Order'
  <2>1. CASE phase = "add" /\ phase' = "add"
    <3>1. work' = work \/ \E r \in Resource : IsCurrent(r) /\ work' = work \ {r}
      <4>1. CASE \E r \in Resource : AddPhase(r)
        BY <4>1 DEF AddPhase, EndIteration
      <4>2. CASE ~\E r \in Resource : AddPhase(r)
        <5>1. step = "idle"
          BY <2>1 DEF Base, PlaceInv, DrainInv, CreatePhases
        <5> QED
          BY <2>1, <4>2, <5>1 DEF Next, ResourceStep, EndLoop, Enter, SshTest, EndRetry, EndDrain,
             ValidateResource, BeginCreate, DrainAdds, DrainFails, RetryInternal, BeginWait,
             PassOver, CallReturns, CallFails, ResolvePending, OnCreated, CreatePhases
      <4> QED
        BY <4>1, <4>2
    <3>2. ASSUME NEW x \in work', NEW y \in Resource, x < y PROVE y \in work'
      <4>1. x \in work /\ y \in work
        BY <1>2, <2>1, <3>1, <3>2
      <4>2. ASSUME NEW r \in Resource, IsCurrent(r) PROVE y # r
        <5>1. r <= x /\ r \in Int /\ x \in Int
          BY <4>1, <4>2 DEF IsCurrent, Base, TypeOK, Resource
        <5> QED
          BY <3>2, <5>1
      <4> QED
        BY <3>1, <4>1, <4>2
    <3> QED
      BY <3>2
  <2>2. CASE phase # "add" /\ phase' = "add"
    <3>1. work' = Resource
      BY ZenonT(30), <2>2 DEF Next, ResourceStep, EndLoop, Enter, SshTest, EndRetry, EndDrain, EndIteration,
         ValidateResource, AddPhase, BeginCreate, DrainAdds, DrainFails, RetryInternal, BeginWait,
         PassOver, AfterCall, CallReturns, CallFails, ResolvePending, OnCreated
    <3> QED
      BY <3>1
  <2>3. CASE phase' # "add"
    BY <2>3
  <2> QED
    BY <2>1, <2>2, <2>3
<1>6. Waits'
  <2>1. CASE UNCHANGED <<pendingInternal, added>>
    <3>1. At(pendingInternal)' = At(pendingInternal)
      BY <1>0, <2>1 DEF At, Owner
    <3> QED
      BY <1>1, <1>2, <2>1, <3>1
  <2>2. ASSUME NEW r \in Resource, AddPhase(r) PROVE Waits'
    <3>1. /\ Adding(r) /\ phase = "add" /\ r \in work
          /\ At(pendingInternal)' = At(pendingInternal) \cup (IF Parks(r) THEN {r} ELSE {})
      BY <2>2, AddPhaseAdds DEF IsCurrent
    <3>2. ASSUME NEW x \in At(pendingInternal) PROVE \E i \in Internal(x) : i \notin added'
      <4>1. PICK i \in Internal(x) : i \notin added
        BY <1>2
      <4>2. x \in Resource /\ x \notin work
        BY <3>1 DEF At, Base, PlaceInv, AddInv
      <4>3. i < x
        BY <4>2, Downward DEF Base
      <4>4. i # r
        BY <1>2, <3>1, <4>2, <4>3
      <4> QED
        BY <3>1, <4>1, <4>4, AddingPlaces
    <3>3. ASSUME Parks(r) PROVE \E i \in Internal(r) : i \notin added'
      <4>1. added' = added
        BY <3>1, <3>3, AddingPlaces DEF Parks
      <4> QED
        BY <3>3, <4>1, ParkMisses
    <3> QED
      BY <1>1, <3>1, <3>2, <3>3
  <2>3. ASSUME NEW r \in Resource, DrainAdds(r) PROVE Waits'
    <3> DEFINE h == Head(todo)
    <3>1. /\ Adding(h) /\ Owner(h) = Owner(r) /\ h \in Resource
          /\ At(pendingInternal)' = {x \in At(pendingInternal) : Owner(x) # Owner(r)}
      BY <2>3, DrainAddsAdds, ElemsIn DEF Base, TypeOK
    <3> HIDE DEF h
    <3>2. ASSUME NEW x \in At(pendingInternal), Owner(x) # Owner(r)
          PROVE  \E i \in Internal(x) : i \notin added'
      <4>1. PICK i \in Internal(x) : i \notin added
        BY <1>2
      <4>2. Owner(i) = Owner(x)
        BY Downward DEF At, Base
      <4>3. i # h
        BY <3>1, <3>2, <4>2
      <4> QED
        BY <3>1, <4>1, <4>3, AddingPlaces
    <3> QED
      BY <1>1, <3>1, <3>2
  <2>4. ASSUME NEW r \in Resource, RetryInternal(r) PROVE Waits'
    <3> DEFINE h == Head(todoInternal)
    <3>1. /\ Adding(h) /\ h \in Parkings /\ h \in Resource
          /\ At(pendingInternal)' = At(pendingInternal) \cup (IF Parks(h) THEN {h} ELSE {})
      <4>1. h \in Resource
        BY <2>4 DEF RetryInternal, Base, TypeOK
      <4> QED
        BY <2>4, <4>1, RetryAdds
    <3> HIDE DEF h
    <3>2. ASSUME NEW x \in At(pendingInternal) PROVE \E i \in Internal(x) : i \notin added'
      <4>1. PICK i \in Internal(x) : i \notin added
        BY <1>2
      <4>2. Internal(i) = {} /\ Internal(h) # {}
        BY <1>2, <3>1 DEF At, Layered
      <4> QED
        BY <3>1, <4>1, <4>2, AddingPlaces
    <3>3. ASSUME Parks(h) PROVE \E i \in Internal(h) : i \notin added'
      <4>1. added' = added
        BY <3>1, <3>3, AddingPlaces DEF Parks
      <4> QED
        BY <3>1, <3>3, <4>1, ParkMisses
    <3> QED
      BY <1>1, <3>1, <3>2, <3>3
  <2>5. ASSUME NEW r \in Resource, DrainFails(r) PROVE Waits'
    <3>1. UNCHANGED <<pendingInternal, added>>
      BY <2>5 DEF DrainFails, AddResource
    <3> QED
      BY <2>1, <3>1
  <2>6. ASSUME NEW r \in Resource, ResourceStep(r) PROVE Waits'
    <3>1. CASE \/ ValidateResource(r) \/ BeginCreate(r) \/ BeginWait(r) \/ PassOver(r)
               \/ CallReturns(r) \/ CallFails(r) \/ ResolvePending(r)
               \/ \E d \in Resource : OnCreated(r, d)
      <4>1. UNCHANGED <<pendingInternal, added>>
        BY <3>1 DEF ValidateResource, BeginCreate, BeginWait, PassOver, CallReturns, CallFails,
                    ResolvePending, OnCreated
      <4> QED
        BY <2>1, <4>1
    <3> QED
      BY <2>2, <2>3, <2>4, <2>5, <2>6, <3>1 DEF ResourceStep
  <2>7. CASE EndLoop \/ SshTest \/ EndRetry \/ EndDrain \/ UNCHANGED vars
    <3>1. UNCHANGED <<pendingInternal, added>>
      BY <2>7 DEF EndLoop, SshTest, EndRetry, EndDrain
    <3> QED
      BY <2>1, <3>1
  <2> QED
    BY <2>6, <2>7 DEF Next
<1> QED
  BY <1>4, <1>5, <1>6

-----------------------------------------------------------------------------
(* What a loop has handled.                                                *)

LEMMA WaitStep ==
    ASSUME Base, [Next]_vars, WaitInv
    PROVE  WaitInv'
<1> USE DEF vars, loopVars, callVars
<1>1. CASE EndLoop \/ SshTest
  <2>1. step' = "idle"
    BY <1>1 DEF EndLoop, SshTest, Base, PlaceInv, DrainInv, CreatePhases
  <2> QED
    BY <2>1 DEF WaitInv
<1>2. CASE EndRetry \/ EndDrain \/ UNCHANGED vars
  BY <1>2 DEF EndRetry, EndDrain, WaitInv
<1>3. ASSUME NEW r \in Resource, ResourceStep(r) PROVE WaitInv'
  BY <1>3 DEF ResourceStep, ValidateResource, AddPhase, BeginCreate, DrainAdds, DrainFails,
     RetryInternal, BeginWait, PassOver, AfterCall, CallReturns, CallFails, ResolvePending,
     OnCreated, EndIteration, WaitInv, CreatePhases
<1> QED
  BY <1>1, <1>2, <1>3 DEF Next

\* The loops follow one another.
LEMMA LoopStep ==
    ASSUME Base, [Next]_vars, Unbroken'
    PROVE  \/ phase' = phase /\ work' \subseteq work
           \/ phase = "validate" /\ phase' = "add"
           \/ phase = "add" /\ phase' = "first" /\ work' = CreateAndWait
           \/ phase = "first" /\ phase' = "create" /\ work = {} /\ work' = CreateLater
           \/ phase = "create" /\ phase' = "wait" /\ work = {} /\ work' = CreateLater
           \/ phase = "wait" /\ phase' = "ssh" /\ work = {}
           \/ phase = "wait" /\ phase' = "done" /\ work = {} /\ ~RunSshTester
           \/ phase = "ssh" /\ phase' = "service" /\ work' = Services
           \/ phase = "service" /\ phase' = "done" /\ work = {}
<1> USE DEF vars, loopVars
<1>1. CASE EndLoop
  BY <1>1 DEF EndLoop, Enter, LoopPhases, CreatePhases, Unbroken
<1>2. CASE SshTest
  BY <1>2 DEF SshTest, Enter, Unbroken
<1>3. CASE ~(EndLoop \/ SshTest)
  BY ZenonT(30), <1>3 DEF Next, ResourceStep, EndRetry, EndDrain, ValidateResource, AddPhase, BeginCreate,
              DrainAdds, DrainFails, RetryInternal, BeginWait, PassOver, AfterCall, CallReturns,
              CallFails, ResolvePending, OnCreated, EndIteration
<1> QED
  BY <1>1, <1>2, <1>3

LEMMA HandledGrows ==
    ASSUME Base, [Next]_vars, Unbroken', Layered, NEW r \in Resource, Handled(r)
    PROVE  Handled(r)'
<1>1. /\ Services' = Services /\ CreateAndWait' = CreateAndWait /\ CreateLater' = CreateLater
  BY TopoConstant, SameWorkflow
<1>2. r \in CreateLater \/ r \in CreateAndWait \/ r \in Services
  BY TwoLoops DEF Base
<1>3. RunSshTester \/ Services = {}
  BY DEF Layered
<1>4. CreateAndWait \cap Services = {} /\ CreateLater \cap Services = {}
      /\ CreateAndWait \cap CreateLater = {}
  BY TwoLoops DEF Base
<1> QED
  BY <1>1, <1>2, <1>3, <1>4, LoopStep DEF Handled

\* Only the end of a call takes a resource off a loop of apply.
LEMMA PassedNow ==
    ASSUME Base, [Next]_vars, Unbroken', NEW r \in Resource, r \in work, r \notin work',
           phase' = phase, phase \in CreatePhases \cup {"wait"}
    PROVE  (PassOver(r) \/ CallReturns(r)) /\ IsCurrent(r) /\ step # "idle"
<1> USE DEF vars, loopVars
<1>1. ASSUME NEW s \in Resource, ResourceStep(s)
      PROVE  (PassOver(s) \/ CallReturns(s)) /\ work' = work \ {s} /\ IsCurrent(s)
  <2>1. ~AddPhase(s) /\ ~ValidateResource(s)
    BY DEF AddPhase, ValidateResource, CreatePhases
  <2>2. ~CallFails(s)
    BY DEF CallFails, EndIteration, Unbroken
  <2>3. ~DrainFails(s)
    <3> SUFFICES ASSUME DrainFails(s) PROVE FALSE
      OBVIOUS
    <3>1. todo \in Seq(Resource) /\ todo # <<>>
      BY DEF DrainFails, Base, TypeOK
    <3>2. Head(todo) \in Resource
      BY <3>1
    <3> QED
      BY <3>2, OnlyOk DEF DrainFails, Base
  <2>4. work' # work
    OBVIOUS
  <2> QED
    BY <1>1, <2>1, <2>2, <2>3, <2>4 DEF ResourceStep, BeginCreate, DrainAdds, RetryInternal,
       BeginWait, PassOver, AfterCall, CallReturns, ResolvePending, OnCreated, EndIteration
<1>2. PICK s \in Resource : ResourceStep(s)
  <2>1. ~EndLoop /\ ~SshTest
    BY DEF EndLoop, SshTest, Enter, CreatePhases
  <2> QED
    BY <2>1 DEF Next, EndRetry, EndDrain
<1>3. (PassOver(r) \/ CallReturns(r)) /\ IsCurrent(r)
  BY <1>1, <1>2
<1> QED
  BY <1>3 DEF PassOver, CallReturns

\* What becomes handled is the resource whose last call has just ended.
LEMMA HandledNow ==
    ASSUME Base, [Next]_vars, Unbroken', Layered, WaitInv,
           NEW r \in Resource, Handled(r)', ~Handled(r)
    PROVE  /\ PassOver(r) \/ CallReturns(r)
           /\ IsCurrent(r) /\ step # "idle" /\ UNCHANGED phase
           /\ \/ phase = "first" /\ step = "wait" /\ r \in CreateAndWait
              \/ phase = "wait" /\ step = "wait" /\ r \in CreateLater
              \/ phase = "service" /\ r \in Services
<1> USE DEF vars, loopVars
<1>1. /\ Services' = Services /\ CreateAndWait' = CreateAndWait /\ CreateLater' = CreateLater
  BY TopoConstant, SameWorkflow
<1>2. r \in CreateLater \/ r \in CreateAndWait \/ r \in Services
  BY TwoLoops DEF Base
<1>3. RunSshTester \/ Services = {}
  BY DEF Layered
<1>4. CreateAndWait \cap Services = {} /\ CreateLater \cap Services = {}
      /\ CreateAndWait \cap CreateLater = {}
  BY TwoLoops DEF Base
<1>5. /\ phase' = phase /\ r \in work /\ r \notin work'
      /\ \/ phase = "first" /\ r \in CreateAndWait
         \/ phase = "wait" /\ r \in CreateLater
         \/ phase = "service" /\ r \in Services
  <2>1. CASE phase' = phase /\ work' \subseteq work
    <3>1. \/ r \in Services /\ phase = "service" /\ r \notin work'
          \/ r \in CreateLater /\ phase = "wait" /\ r \notin work'
          \/ r \in CreateAndWait /\ phase = "first" /\ r \notin work'
      BY <1>1, <2>1 DEF Handled
    <3> QED
      BY <2>1, <3>1 DEF Handled
  <2>2. CASE ~(phase' = phase /\ work' \subseteq work)
    <3>1. FALSE
      BY <1>1, <1>2, <1>3, <1>4, <2>2, LoopStep DEF Handled
    <3> QED
      BY <3>1
  <2> QED
    BY <2>1, <2>2
<1>6. (PassOver(r) \/ CallReturns(r)) /\ IsCurrent(r)
  BY <1>5, PassedNow DEF CreatePhases
<1>7. step \in {"create", "wait"} /\ ~(step = "create" /\ phase = "first")
  <2>1. AfterCall(r) /\ step \in {"create", "wait"}
    BY <1>6 DEF PassOver, CallReturns
  <2> QED
    BY <1>5, <2>1 DEF AfterCall
<1> QED
  BY <1>5, <1>6, <1>7 DEF WaitInv

-----------------------------------------------------------------------------
(* What is hopeless stays so.                                              *)

\* A handled resource that was passed over is not added any more.
LEMMA NotAddedLate ==
    ASSUME Base, [Next]_vars, Unbroken', ListedInv, NEW S, HandledInv(S),
           NEW e \in S, e \in Resource, Handled(e), e \notin added
    PROVE  e \notin added'
<1> USE DEF eventVars, placeVars
<1>1. Hopeless(e)
  BY NotThere DEF HandledInv
<1>2. CASE Calm \/ \E r \in Resource : BeginCreate(r)
  BY <1>2 DEF Calm, BeginCreate
<1>3. CASE \/ \E r \in Resource, d \in Resource : OnCreated(r, d)
           \/ \E x \in Resource : ResolvePending(x)
  BY <1>3 DEF OnCreated, ResolvePending
<1>4. ASSUME NEW h \in Resource, Adding(h) PROVE e \notin added'
  <2>1. h \notin pending
    BY <1>4 DEF Adding
  <2>2. \/ added' = added
        \/ added' = added \cup {h} /\ ~MissesExternal(h) /\ ~Parks(h)
    BY <1>4, AddingPlaces
  <2>3. ASSUME h = e, ~MissesExternal(h), ~Parks(h) PROVE FALSE
    <3>1. PICK i \in Internal(h) : i \in pending
      BY <1>1, <2>1, <2>3 DEF Hopeless, Stuck
    <3>2. i \notin added
      BY <3>1, Placed DEF Base
    <3> QED
      BY <2>3, <3>1, <3>2, ParksAgain
  <2> QED
    BY <2>2, <2>3
<1> QED
  BY <1>2, <1>3, <1>4, Kinds

LEMMA StuckStays ==
    ASSUME Base, [Next]_vars, Unbroken', Layered, NEW S, Undiminished(S), SuccessInv(S),
           NEW x \in S, x \in Resource, Stuck(x)
    PROVE  Stuck(x)'
<1> USE DEF eventVars, placeVars
<1>1. topo' = topo /\ External(x)' = External(x)
  BY TopoConstant, SameWorkflow
<1>2. PICK e \in External(x) : Never(x, e)
  BY DEF Stuck
<1>3. e \in S /\ e \in Resource /\ Count(e) \in Nat /\ Count(e) > 0 /\ x \in pending
  BY Downward, TopoFacts DEF Base, Stuck, Undiminished, External
<1>4. Never(x, e)'
  BY <1>1, <1>2, <1>3, HandledGrows, NotAddedLate DEF Never, SuccessInv
<1>5. x \in pending'
  <2>1. CASE Calm \/ \E r \in Resource : BeginCreate(r)
    BY <1>3, <2>1 DEF Calm, BeginCreate
  <2>2. CASE \E r \in Resource, d \in Resource : OnCreated(r, d)
    BY <1>3, <2>2 DEF OnCreated
  <2>3. ASSUME NEW h \in Resource, Adding(h) PROVE x \in pending'
    BY <1>3, <2>3, AddingPlaces
  <2>4. ASSUME NEW y \in Resource, ResolvePending(y) PROVE x \in pending'
    <3>1. ASSUME x = y PROVE ResolvedBy(x, source)[e] = 0
      <4>1. source \in added /\ event \subseteq pending
        BY <2>4, Placed DEF ResolvePending, SuccessInv, EventInv, Base
      <4>2. got[x] \in [Resource -> Nat]
        BY DEF Base, TypeOK
      <4>3. got[x][e] = IF topo.attr[x][e] = "blank" THEN 0 ELSE Lesser(HandedOver(x, e), Count(e))
        BY <1>2, <1>3 DEF SuccessInv, PendingInv
      <4>4. CASE topo.attr[x][e] = "blank"
        BY <1>3, <4>2, <4>3, <4>4 DEF ResolvedBy
      <4>5. CASE topo.attr[x][e] # "blank"
        <5>1. e \notin added /\ notified[e] = 0 /\ e # source
          BY <1>2, <1>3, <4>1, <4>5, NotThere DEF Never
        <5>2. got[x][e] = 0
          BY <1>3, <4>3, <4>5, <5>1 DEF HandedOver, Lesser
        <5> QED
          BY <4>2, <5>1, <5>2 DEF ResolvedBy
      <4> QED
        BY <4>4, <4>5
    <3>2. x = y => ~Resolved(External(y), ResolvedBy(y, source))
      BY <1>2, <1>3, <3>1 DEF Resolved
    <3>3. \/ pending' = pending
          \/ pending' = pending \ {y} /\ Resolved(External(y), ResolvedBy(y, source))
      BY <2>4 DEF ResolvePending
    <3> QED
      BY <1>3, <3>2, <3>3
  <2> QED
    BY <2>1, <2>2, <2>3, <2>4, Kinds
<1> QED
  BY <1>1, <1>4, <1>5 DEF Stuck

LEMMA HopelessStays ==
    ASSUME Base, [Next]_vars, Unbroken', Layered, NEW S, Undiminished(S), SuccessInv(S),
           NEW x \in S, x \in Resource, Hopeless(x)
    PROVE  Hopeless(x)'
<1> USE DEF eventVars, placeVars
<1>1. Internal(x)' = Internal(x)
  BY TopoConstant, SameWorkflow
<1>2. CASE Stuck(x)
  BY <1>2, StuckStays DEF Hopeless
<1>3. ASSUME x \in Parkings, NEW i \in Internal(x), Stuck(i) PROVE Hopeless(x)'
  <2>1. i \in S /\ i \in Resource /\ i \in pending /\ i \notin added
    BY <1>3, Downward, Placed DEF Base, Stuck, Undiminished, Internal
  <2>2. Stuck(i)'
    BY <1>3, <2>1, StuckStays
  <2>3. x \in Parkings'
    <3>1. CASE Calm \/ \E r \in Resource : BeginCreate(r)
      <4>1. Parkings' = Parkings
        BY <3>1 DEF Calm, BeginCreate, callVars, Parkings, At, Owner
      <4> QED
        BY <1>3, <4>1
    <3>2. CASE \/ \E r \in Resource, d \in Resource : OnCreated(r, d)
               \/ \E y \in Resource : ResolvePending(y)
      <4>1. Parkings' = Parkings
        BY <3>2 DEF OnCreated, ResolvePending, callVars, Parkings, At, Owner
      <4> QED
        BY <1>3, <4>1
    <3>3. ASSUME NEW h \in Resource, Adding(h) PROVE x \in Parkings'
      <4>1. h = x => Parks(h)
        BY <1>3, <2>1, DrainedSettled, ParksAgain DEF SuccessInv
      <4> QED
        BY <1>3, <3>3, <4>1 DEF Adding
    <3> QED
      BY <3>1, <3>2, <3>3, Kinds
  <2> QED
    BY <1>1, <1>3, <2>2, <2>3 DEF Hopeless
<1> QED
  BY <1>2, <1>3 DEF Hopeless

-----------------------------------------------------------------------------
(* What a loop passes over is hopeless.                                    *)

\* A pending resource is stuck once all it waits for has been handled.
LEMMA StuckNow ==
    ASSUME Base, PendingInv, NEW S, Undiminished(S), HandledInv(S),
           NEW x \in S, x \in pending, x \notin event,
           \A e \in External(x) : Handled(e)
    PROVE  Stuck(x)
<1>1. x \in Resource
  BY DEF Base, TypeOK
<1>2. PICK e \in External(x) : got[x][e] # Count(e)
  BY DEF PendingInv, Resolved
<1>3. e \in S /\ e \in Resource /\ Count(e) \in Nat /\ notified[e] \in Nat
  BY <1>1, Downward, TopoFacts DEF Base, TypeOK, Undiminished, External
<1>4. got[x][e] = IF topo.attr[x][e] = "blank" THEN 0 ELSE Lesser(notified[e], Count(e))
  BY <1>2 DEF PendingInv, HandedOver
<1>5. CASE topo.attr[x][e] = "blank" \/ e \notin added
  BY <1>2, <1>5 DEF Stuck, Never
<1>6. CASE topo.attr[x][e] # "blank" /\ e \in added
  <2>1. notified[e] >= Count(e)
    BY <1>2, <1>3, <1>6, NotThere DEF HandledInv, FullyCreated
  <2> QED
    BY <1>2, <1>3, <1>4, <1>6, <2>1 DEF Lesser
<1> QED
  BY <1>5, <1>6

\* Where a resource is when the call for it finds it not added.
LEMMA PassedOver ==
    ASSUME Base, Unbroken, Layered, ParkedInv, NEW r \in Resource, IsCurrent(r), r \notin added,
           step \in {"create", "wait"}, At(noLongerPending) \cap ({r} \cup Internal(r)) = {}
    PROVE  \/ r \in pending
           \/ r \in Parkings /\ \E i \in Internal(r) : i \in pending
<1>1. todo = <<>> /\ todoInternal = <<>> /\ phase \in CreatePhases \cup {"wait"}
  BY DEF Base, PlaceInv, DrainInv
<1>2. \A y \in Resource : y \in Somewhere
  BY <1>1 DEF Base, LostInv, Unbroken, AfterAdd, CreatePhases
<1>3. \A y \in Resource : y \in pending \cup added \cup At(noLongerPending) \cup At(pendingInternal)
  BY <1>1, <1>2, ElemsEmpty DEF Somewhere
<1>4. CASE r \in At(pendingInternal)
  <2>1. PICK i \in Internal(r) : i \notin added
    BY <1>4 DEF ParkedInv
  <2>2. i \in Resource /\ Internal(i) = {}
    BY <2>1, Downward DEF Base, Layered
  <2>3. i \notin At(pendingInternal)
    BY <2>2 DEF ParkedInv, Parkings
  <2>4. i \in pending
    BY <1>3, <2>1, <2>2, <2>3
  <2> QED
    BY <1>4, <2>4 DEF Parkings
<1> QED
  BY <1>3, <1>4

LEMMA HandledStep ==
    ASSUME Base, Base', [Next]_vars, Unbroken', Layered,
           NEW S \in SUBSET Resource, Undiminished(S), Undiminished(S)', SuccessInv(S)
    PROVE  HandledInv(S)'
<1> SUFFICES ASSUME NEW r \in S, Handled(r)'
             PROVE  FullyCreated(r)' \/ Hopeless(r)'
  BY DEF HandledInv
<1>0. Unbroken /\ topo' = topo /\ r \in Resource /\ r \notin short'
  BY UnbrokenBefore, TopoConstant DEF Undiminished
<1>1. Count(r)' = Count(r) /\ Count(r) \in Nat /\ notified[r] \in Nat
  BY <1>0, SameWorkflow, TopoFacts DEF Base, TypeOK
<1>2. FullyCreated(r) => FullyCreated(r)'
  <2>1. notified'[r] >= notified[r]
    <3>1. CASE notified' = notified
      BY <1>1, <3>1
    <3>2. CASE notified' # notified
      <4>1. PICK d \in added : notified' = [notified EXCEPT ![d] = @ + 1]
        BY <3>2, NotifiedStep DEF Base
      <4>2. notified \in [Resource -> Nat]
        BY DEF Base, TypeOK
      <4> QED
        BY <1>1, <4>1, <4>2
    <3> QED
      BY <3>1, <3>2
  <2>2. notified'[r] \in Nat
    BY DEF Base, TypeOK
  <2> QED
    BY <1>1, <2>1, <2>2 DEF FullyCreated
<1>3. CASE Handled(r)
  BY <1>2, <1>3, HopelessStays DEF SuccessInv, HandledInv
<1>4. CASE ~Handled(r)
  <2>1. /\ PassOver(r) \/ CallReturns(r)
        /\ IsCurrent(r) /\ step # "idle" /\ UNCHANGED phase
        /\ \/ phase = "first" /\ step = "wait" /\ r \in CreateAndWait
           \/ phase = "wait" /\ step = "wait" /\ r \in CreateLater
           \/ phase = "service" /\ r \in Services
    BY <1>4, HandledNow DEF SuccessInv
  <2>2. CASE CallReturns(r)
    <3>1. FullyCreated(r)
      BY <1>0, <1>1, <2>1, <2>2 DEF CallReturns, Short, FullyCreated
    <3> QED
      BY <1>2, <3>1
  <2>3. CASE PassOver(r)
    <3>1. step \in {"create", "wait"} /\ r \notin added /\ event = {}
      BY <2>1, <2>3 DEF PassOver, SuccessInv, EventInv
    <3>0. \A x \in {r} \cup Internal(r) : x \in S
      BY DEF Undiminished, Internal
    <3>2. ASSUME NEW x \in {r} \cup Internal(r), x \in pending PROVE Stuck(x)
      <4>1. x \in S /\ x \in Resource /\ x <= r
        BY <1>0, <3>0, Downward DEF Base, Resource
      <4>2. \A e \in External(x) : e \in Resource /\ e < r /\ e \notin work
        <5>1. \A e \in External(x) : e \in Resource /\ e < x
          BY <4>1, Downward DEF Base
        <5> QED
          BY <4>1, <5>1, <2>1 DEF IsCurrent, Resource
      <4>3. CASE phase = "first"
        <5>1. r \notin Services
          BY <2>1, <4>3, TwoLoops DEF Base
        <5>2. x \notin Services
          BY <5>1, Downward DEF Base
        <5>3. External(x) \subseteq CreateAndWait
          BY <4>1, <5>2, Downward DEF Base
        <5>4. \A e \in External(x) : Handled(e)
          BY <4>2, <4>3, <5>3 DEF Handled
        <5> QED
          BY <3>1, <3>2, <4>1, <5>4, StuckNow DEF SuccessInv
      <4>4. CASE phase = "wait"
        <5>1. r \notin Services
          BY <2>1, <4>4, TwoLoops DEF Base
        <5>2. x \notin Services
          BY <5>1, Downward DEF Base
        <5> QED
          BY <3>2, <4>1, <4>4, <5>2 DEF SuccessInv, LeftoverInv
      <4>5. CASE phase = "service"
        <5>1. \A e \in External(x) : Handled(e)
          BY <4>2, <4>5 DEF Handled
        <5> QED
          BY <3>1, <3>2, <4>1, <5>1, StuckNow DEF SuccessInv
      <4> QED
        BY <2>1, <4>3, <4>4, <4>5
    <3>3. At(noLongerPending) \cap ({r} \cup Internal(r)) = {}
      <4>1. CASE phase \in CreatePhases
        <5>1. noLongerPending[Owner(r)] = <<>>
          BY <2>1, <4>1 DEF SuccessInv, EventInv
        <5>2. \A x \in {r} \cup Internal(r) : Owner(x) = Owner(r)
          BY Downward DEF Base
        <5> QED
          BY <5>1, <5>2, ElemsEmpty DEF At
      <4>2. CASE phase = "wait"
        <5>1. r \notin Services
          BY <2>1, <4>2, TwoLoops DEF Base
        <5>2. ASSUME NEW x \in {r} \cup Internal(r) PROVE x \notin At(noLongerPending)
          <6>1. x \in Resource \ Services /\ x \in S
            BY <3>0, <5>1, Downward DEF Base
          <6>2. CASE x \in CreateLater
            BY <4>2, <6>1, <6>2 DEF SuccessInv, LeftoverInv
          <6>3. CASE x \in CreateAndWait
            <7>1. FullyCreated(x) \/ Hopeless(x)
              BY <4>2, <6>1, <6>3 DEF Handled, SuccessInv, HandledInv
            <7>2. x \in added \cup pending \cup Parkings
              BY <6>1, <7>1, NotThere DEF Hopeless, Stuck
            <7> QED
              BY <7>2, Placed DEF Base
          <6> QED
            BY <6>1, <6>2, <6>3, TwoLoops DEF Base
        <5> QED
          BY <5>2
      <4> QED
        BY <2>1, <4>1, <4>2 DEF CreatePhases
    <3>4. \/ r \in pending
          \/ r \in Parkings /\ \E i \in Internal(r) : i \in pending
      BY <1>0, <2>1, <3>1, <3>3, PassedOver DEF SuccessInv
    <3>5. Hopeless(r)
      BY <3>2, <3>4 DEF Hopeless
    <3> QED
      BY <3>5, HopelessStays
  <2> QED
    BY <2>1, <2>2, <2>3
<1> QED
  BY <1>3, <1>4

LEMMA LeftoverStep ==
    ASSUME Base, [Next]_vars, Unbroken', Layered,
           NEW S \in SUBSET Resource, Undiminished(S), SuccessInv(S)
    PROVE  LeftoverInv(S)'
<1> USE DEF eventVars, placeVars
<1> DEFINE After == {"create", "wait", "ssh", "service", "done"}
           Past(x) == (phase = "create" /\ x \notin work)
                         \/ phase \in {"wait", "ssh", "service", "done"}
<1>0. topo' = topo /\ pending \subseteq Resource
  BY TopoConstant DEF Base, TypeOK
<1>1. /\ Services' = Services /\ CreateAndWait' = CreateAndWait /\ CreateLater' = CreateLater
      /\ \A x : Owner(x)' = Owner(x)
  BY <1>0, SameWorkflow
<1>2. ASSUME phase' \in After, NEW x \in (pending' \cap S) \ Services PROVE Stuck(x)'
  <2>1. phase # "add" /\ phase # "validate"
    BY <1>2, LoopStep
  <2>2. x \in pending /\ x \in Resource
    BY <1>0, <1>2, <2>1, NoMoreWaiting
  <2>3. CASE phase \in After
    BY <1>2, <2>2, <2>3, StuckStays DEF SuccessInv, LeftoverInv
  <2>4. CASE phase \notin After
    <3>1. phase = "first" /\ phase' # phase /\ work = {}
      BY <1>2, <2>1, <2>4, LoopStep
    <3>2. event = {}
      BY <3>1, PhaseStep DEF SuccessInv, EventInv
    <3>3. \A e \in External(x) : Handled(e)
      BY <1>2, <2>2, <3>1, Downward DEF Handled, Base
    <3>4. Stuck(x)
      BY <1>2, <2>2, <3>2, <3>3, StuckNow DEF SuccessInv
    <3> QED
      BY <1>2, <2>2, <3>4, StuckStays
  <2> QED
    BY <2>3, <2>4
<1>3. ASSUME NEW x \in CreateLater \cap S, Past(x)' PROVE x \notin At(noLongerPending)'
  <2>0. x \in Resource /\ x \notin Services
    BY TwoLoops DEF Base
  <2>1. CASE Past(x)
    <3>1. x \notin At(noLongerPending)
      BY <2>1 DEF SuccessInv, LeftoverInv
    <3>2. CASE Calm \/ (\E r \in Resource, d \in Resource : OnCreated(r, d))
               \/ \E h \in Resource : Adding(h)
      <4>1. noLongerPending' = noLongerPending
        BY <3>2 DEF Calm, OnCreated, Adding
      <4> QED
        BY <1>1, <3>1, <4>1 DEF At
    <3>3. ASSUME NEW r \in Resource, BeginCreate(r) PROVE x \notin At(noLongerPending)'
      <4>1. noLongerPending' = [noLongerPending EXCEPT ![Owner(r)] = <<>>]
        BY <3>3 DEF BeginCreate
      <4>2. Owner(x) \in Provider /\ noLongerPending \in [Provider -> Seq(Resource)]
        BY <2>0, TopoFacts DEF Base, TypeOK
      <4>3. noLongerPending'[Owner(x)] = <<>> \/ noLongerPending'[Owner(x)] = noLongerPending[Owner(x)]
        BY <4>1, <4>2
      <4> QED
        BY <1>1, <3>1, <4>3, ElemsEmpty DEF At
    <3>4. ASSUME NEW y \in Resource, ResolvePending(y) PROVE x \notin At(noLongerPending)'
      <4>1. CASE noLongerPending' = noLongerPending
        BY <1>1, <3>1, <4>1 DEF At
      <4>2. CASE /\ pending' = pending \ {y}
                 /\ noLongerPending' = [noLongerPending EXCEPT ![Owner(y)] = Append(@, y)]
        <5>1. x # y
          <6>1. y \in pending
            BY <3>4, Placed DEF ResolvePending, Base
          <6>2. x = y => Stuck(x)
            BY <2>0, <2>1, <6>1 DEF SuccessInv, LeftoverInv
          <6>3. x = y => x \in pending'
            BY <2>0, <6>2, StuckStays DEF Stuck
          <6> QED
            BY <4>2, <6>3
        <5>2. /\ Owner(x) \in Provider /\ noLongerPending \in [Provider -> Seq(Resource)]
              /\ Owner(y) \in Provider
          BY <2>0, TopoFacts DEF Base, TypeOK
        <5>3. \/ noLongerPending'[Owner(x)] = noLongerPending[Owner(x)]
              \/ Elems(noLongerPending'[Owner(x)]) = Elems(noLongerPending[Owner(x)]) \cup {y}
          <6>1. Owner(x) # Owner(y) => noLongerPending'[Owner(x)] = noLongerPending[Owner(x)]
            BY <4>2, <5>2
          <6>2. Owner(x) = Owner(y) =>
                   noLongerPending'[Owner(x)] = Append(noLongerPending[Owner(x)], y)
            BY <4>2, <5>2
          <6>3. noLongerPending[Owner(x)] \in Seq(Resource)
            BY <5>2
          <6>4. Elems(Append(noLongerPending[Owner(x)], y))
                   = Elems(noLongerPending[Owner(x)]) \cup {y}
            BY <6>3, ElemsAppend
          <6> QED
            BY <6>1, <6>2, <6>4
        <5> QED
          BY <1>1, <2>0, <3>1, <5>1, <5>3 DEF At
      <4> QED
        BY <3>4, <4>1, <4>2 DEF ResolvePending
    <3> QED
      BY <3>2, <3>3, <3>4, Kinds
  <2>2. CASE ~Past(x)
    <3>1. phase = "create" /\ phase' = "create" /\ x \in work /\ x \notin work'
      BY <1>3, <2>2, LoopStep
    <3>2. (PassOver(x) \/ CallReturns(x)) /\ IsCurrent(x) /\ step # "idle"
      BY <2>0, <3>1, PassedNow DEF CreatePhases
    <3>3. noLongerPending' = noLongerPending
      BY <3>2 DEF PassOver, CallReturns
    <3>4. noLongerPending[Owner(x)] = <<>>
      BY <2>0, <3>1, <3>2 DEF SuccessInv, EventInv, CreatePhases
    <3> QED
      BY <1>1, <3>3, <3>4, ElemsEmpty DEF At
  <2> QED
    BY <2>1, <2>2
<1> QED
  BY <1>1, <1>2, <1>3 DEF LeftoverInv

-----------------------------------------------------------------------------
(* The theorem.                                                            *)

LEMMA SuccessInit ==
    ASSUME Init, NEW S \in SUBSET Resource
    PROVE  SuccessInv(S)
<1>1. TypeOK
  BY InitType
<1>2. /\ phase = "validate" /\ step = "idle" /\ event = {} /\ pending = {} /\ added = {}
      /\ At(pendingInternal) = {} /\ Parkings = {} /\ At(noLongerPending) = {}
  <2>1. \A y \in Resource : Owner(y) \in Provider
    BY <1>1, TopoFacts
  <2> QED
    BY <2>1, ElemsEmpty DEF Init, At, Parkings
<1>3. \A r \in Resource : ~Handled(r)
  BY <1>2 DEF Handled
<1>4. ListedInv
  BY <1>1, Downward DEF Init, ListedInv
<1> QED
  BY <1>2, <1>3, <1>4 DEF SuccessInv, EventInv, WaitInv, PendingInv, ParkedInv, HandledInv,
     LeftoverInv

\* As long as nothing has raised, the invariant holds in a layered workflow.
SuccessInvs ==
    Layered /\ Unbroken =>
        \A S \in SUBSET Resource : Undiminished(S) => SuccessInv(S)

\* What a call has left short stays on record.
LEMMA UndiminishedBefore ==
    ASSUME [Next]_vars, NEW S, Undiminished(S)'
    PROVE  Undiminished(S)
<1>1. short \subseteq short'
  BY DEF Next, ResourceStep, vars, EndLoop, SshTest, EndRetry, EndDrain, ValidateResource, AddPhase,
     BeginCreate, DrainAdds, DrainFails, RetryInternal, BeginWait, PassOver, CallReturns, CallFails,
     ResolvePending, OnCreated
<1>2. topo' = topo
  BY TopoConstant
<1> QED
  BY <1>1, <1>2 DEF Undiminished

LEMMA SuccessStep == Base /\ Base' /\ SuccessInvs /\ [Next]_vars => SuccessInvs'
<1> SUFFICES ASSUME Base, Base', SuccessInvs, [Next]_vars, Layered', Unbroken',
                    NEW S \in SUBSET Resource, Undiminished(S)'
             PROVE  SuccessInv(S)'
  BY DEF SuccessInvs
<1>1. Layered /\ Unbroken /\ Undiminished(S)
  BY UnbrokenBefore, TopoConstant, SameWorkflow, UndiminishedBefore
<1>2. SuccessInv(S)
  BY <1>1 DEF SuccessInvs
<1>3. ListedInv' /\ EventInv' /\ WaitInv' /\ PendingInv' /\ ParkedInv'
  BY <1>1, <1>2, ListedStep, EventStep, WaitStep, PendingStep, ParkedStep DEF SuccessInv
<1>4. HandledInv(S)'
  BY <1>1, <1>2, HandledStep
<1>5. LeftoverInv(S)'
  BY <1>1, <1>2, LeftoverStep
<1> QED
  BY <1>3, <1>4, <1>5 DEF SuccessInv

\* When an apply of a layered workflow counts as a success, a resource lacks
\* an instance only if a call for it, or for something it depends on, reported
\* too little without an error, however many resources there are: the loops
\* and lists pass nothing over that the counters do not show.
THEOREM SuccessMeansCreatedHolds == Spec => [](Layered => SuccessMeansCreated)
<1>1. Base /\ SuccessInvs => (Layered => SuccessMeansCreated)
  <2> SUFFICES ASSUME Base, SuccessInvs, Layered, Succeeds,
                      NEW S \in SUBSET Resource, Undiminished(S), NEW r \in S
               PROVE  FullyCreated(r)
    BY DEF SuccessMeansCreated
  <2>1. phase = "done" /\ pending = {} /\ \A p \in Provider : pendingInternal[p] = <<>>
    BY DEF Succeeds
  <2>2. ~raised
    BY <2>1 DEF Base, LostInv
  <2>3. \A x \in Resource : failed[x] = "no"
    BY <2>1, <2>2 DEF Base, FailInv, Succeeds
  <2>4. SuccessInv(S)
    BY <2>1, <2>2, <2>3 DEF Unbroken, SuccessInvs
  <2>5. todoInternal = <<>>
    BY <2>1 DEF Base, PlaceInv, DrainInv, CreatePhases
  <2>6. Parkings = {}
    BY <2>1, <2>5, ElemsEmpty, TopoFacts DEF Parkings, At, Base
  <2>7. ~Hopeless(r)
    BY <2>1, <2>6 DEF Hopeless, Stuck
  <2> QED
    BY <2>1, <2>4, <2>7 DEF SuccessInv, HandledInv, Handled
<1>2. Init => LostInv
  BY DEF Init, LostInv, AfterAdd
<1>3. Init => FailInv
  BY DEF Init, FailInv
<1>4. DependencyInv => QuietWhileAdding
  BY DEF DependencyInv
<1>5. Base <=> TypeOK /\ DependencyInv /\ PlaceInv /\ LostInv /\ FailInv
  BY DEF Base
<1>6. Spec => []Base
  BY <1>2, <1>3, <1>4, <1>5, DependencyInvariant, PlaceInit, PlaceStep, LostStep, FailStep, PTL
  DEF Spec
<1>7. Init => SuccessInvs
  BY SuccessInit DEF SuccessInvs
<1> QED
  BY <1>1, <1>6, <1>7, SuccessStep, PTL DEF Spec
=============================================================================
