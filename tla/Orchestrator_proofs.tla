------------------------- MODULE Orchestrator_proofs -------------------------
(***************************************************************************)
(* Proofs about Orchestrator, for every workflow: type correctness, that a *)
(* resource is added only after its external dependencies exist, and that  *)
(* the controller implements Provisioning.                                 *)
(***************************************************************************)
EXTENDS Orchestrator, TLAPS

\* What TypeOK says of the workflow.
LEMMA TopoFacts ==
    ASSUME TypeOK
    PROVE  \A r \in Resource :
              /\ Owner(r) \in Provider
              /\ Count(r) \in Nat /\ Count(r) > 0
              /\ External(r) \subseteq Resource /\ Internal(r) \subseteq Resource
              /\ topo.attr[r] \in [Resource -> AttrKind]
<1>1. /\ topo.owner \in [Resource -> Provider]
      /\ topo.count \in [Resource -> Nat \ {0}]
      /\ topo.deps \in [Resource -> SUBSET Resource]
      /\ topo.attr \in [Resource -> [Resource -> AttrKind]]
  BY TopologyAssumption DEF TypeOK
<1>2. \A r \in Resource : Owner(r) \in Provider
  BY <1>1 DEF Owner
<1>3. \A r \in Resource : Count(r) \in Nat /\ Count(r) > 0
  BY <1>1 DEF Count
<1>4. \A r \in Resource : External(r) \subseteq Resource /\ Internal(r) \subseteq Resource
  BY <1>1 DEF External, Internal
<1> QED
  BY <1>1, <1>2, <1>3, <1>4

LEMMA LesserNat ==
    ASSUME NEW a \in Nat, NEW b \in Nat
    PROVE  Lesser(a, b) \in Nat /\ Lesser(a, b) <= a /\ Lesser(a, b) <= b
BY DEF Lesser

LEMMA ResolvedInternallyType ==
    ASSUME TypeOK, NEW r \in Resource
    PROVE  ResolvedInternally(r) \in [Resource -> Nat]
<1>1. \A d \in Resource : Available(r, d) \in Nat
  BY LesserNat DEF Available, TypeOK
<1>2. \A d \in Resource : got[r][d] \in Nat
  BY DEF TypeOK
<1>3. \A d \in Resource : Lesser(got[r][d] + Available(r, d), Count(d)) \in Nat
  <2> SUFFICES ASSUME NEW d \in Resource
               PROVE  Lesser(got[r][d] + Available(r, d), Count(d)) \in Nat
    OBVIOUS
  <2>1. Count(d) \in Nat
    BY TopoFacts
  <2>2. got[r][d] + Available(r, d) \in Nat
    BY <1>1, <1>2
  <2> QED
    BY <2>1, <2>2, LesserNat
<1> QED
  BY <1>2, <1>3 DEF ResolvedInternally

LEMMA ParkedType ==
    ASSUME NEW S, NEW r \in S, NEW seq \in Seq(S)
    PROVE  Parked(r, seq) \in Seq(S)
BY DEF Parked

\* An add keeps the types of everything it touches.
LEMMA AddResourceType ==
    ASSUME TypeOK, NEW r \in Resource, NEW ok \in BOOLEAN, AddResource(r, ok)
    PROVE  /\ pending' \subseteq Resource
           /\ got' \in [Resource -> [Resource -> Nat]]
           /\ added' \subseteq Resource
           /\ listed' \in [Resource -> Nat]
           /\ failed' \in [Resource -> {"no", "VALIDATE", "ADD", "CREATE"}]
           /\ failedCount' \in [Resource -> Int]
<1>1. pending' \subseteq Resource
  BY DEF AddResource, TypeOK
<1>2. got' \in [Resource -> [Resource -> Nat]]
  BY ResolvedInternallyType DEF AddResource, TypeOK
<1>3. CASE ~CallsDoAdd(r) /\ ok /\ UNCHANGED <<added, listed, failed, failedCount>>
  BY <1>1, <1>2, <1>3 DEF TypeOK
<1>4. CASE /\ CallsDoAdd(r) /\ ok
           /\ added' = added \cup {r}
           /\ listed' = [listed EXCEPT ![r] = @ + Count(r)]
           /\ UNCHANGED <<failed, failedCount>>
  <2>1. Count(r) \in Nat
    BY TopoFacts
  <2>2. listed[r] + Count(r) \in Nat
    BY SMTT(30), <2>1 DEF TypeOK
  <2>3. listed' \in [Resource -> Nat]
    BY <1>4, <2>2 DEF TypeOK
  <2> QED
    BY <1>1, <1>2, <1>4, <2>3 DEF TypeOK
<1>5. CASE /\ CallsDoAdd(r) /\ ~ok
           /\ \E k \in 0..(Count(r) - 1) : listed' = [listed EXCEPT ![r] = @ + k]
           /\ failed' = [failed EXCEPT ![r] = "ADD"]
           /\ failedCount' = [failedCount EXCEPT ![r] = FailedCount(r)]
           /\ added' = added
  <2>1. Count(r) \in Nat
    BY TopoFacts
  <2>2. listed' \in [Resource -> Nat]
    <3>1. PICK k \in 0..(Count(r) - 1) : listed' = [listed EXCEPT ![r] = @ + k]
      BY <1>5
    <3>2. k \in Nat /\ listed[r] \in Nat
      BY <2>1, <3>1 DEF TypeOK
    <3> QED
      BY SMTT(30), <3>1, <3>2 DEF TypeOK
  <2>3. failedCount' \in [Resource -> Int]
    <3>1. FailedCount(r) \in Int
      BY <2>1 DEF FailedCount, TypeOK
    <3> QED
      BY <1>5, <3>1 DEF TypeOK
  <2> QED
    <3>1. failed' \in [Resource -> {"no", "VALIDATE", "ADD", "CREATE"}]
      BY <1>5 DEF TypeOK
    <3>2. added' \subseteq Resource
      BY <1>5 DEF TypeOK
    <3> QED
      BY <1>1, <1>2, <2>2, <2>3, <3>1, <3>2
<1> QED
  BY <1>3, <1>4, <1>5 DEF AddResource

LEMMA ResolvedByType ==
    ASSUME TypeOK, NEW x \in Resource, NEW d \in Resource
    PROVE  ResolvedBy(x, d) \in [Resource -> Nat]
<1>0. got[x] \in [Resource -> Nat]
  BY DEF TypeOK
<1>1. got[x][d] \in Nat /\ got[x][d] + 1 \in Nat
  BY <1>0
<1>2. Lesser(got[x][d] + 1, Count(d)) \in Nat
  BY <1>1, TopoFacts, LesserNat
<1> QED
  BY <1>0, <1>1, <1>2 DEF ResolvedBy

LEMMA LoopSets ==
    ASSUME TypeOK
    PROVE  /\ CreateAndWait \subseteq Resource
           /\ CreateLater \subseteq Resource
           /\ Services \subseteq Resource
<1>1. Services \subseteq Resource
  BY TopologyAssumption DEF TypeOK, Services
<1>2. \A r \in Resource : External(r) \subseteq Resource
  BY TopoFacts
<1>3. CreateAndWait \subseteq Resource
  BY <1>2 DEF CreateAndWait
<1> QED
  BY <1>1, <1>3 DEF CreateLater

LEMMA EnterType ==
    ASSUME TypeOK, NEW p \in LoopPhases \cup {"ssh", "done"}, Enter(p)
    PROVE  /\ phase' \in LoopPhases \cup {"ssh", "done", "raised"}
           /\ work' \subseteq Resource
           /\ raised' \in BOOLEAN
<1>1. work' \in {CreateAndWait, CreateLater, Services, Resource, {}}
  BY DEF Enter
<1>2. work' \subseteq Resource
  BY <1>1, LoopSets
<1> QED
  BY <1>2 DEF Enter

\* Every step keeps TypeOK.
LEMMA TypeStep == TypeOK /\ [Next]_vars => TypeOK'
<1> SUFFICES ASSUME TypeOK, [Next]_vars PROVE TypeOK'
  OBVIOUS
<1> USE DEF vars, loopVars, callVars, eventVars, placeVars, countVars
<1>1. CASE EndLoop
  <2>1. /\ phase' \in LoopPhases \cup {"ssh", "done", "raised"}
        /\ work' \subseteq Resource
        /\ raised' \in BOOLEAN
    <3>1. CASE raised /\ phase' = "raised" /\ UNCHANGED <<work, raised>>
      BY <3>1 DEF TypeOK
    <3>2. CASE ~raised /\ \E p \in LoopPhases \cup {"ssh", "done"} : Enter(p)
      BY <3>2, EnterType
    <3> QED
      BY <1>1, <3>1, <3>2 DEF EndLoop, LoopPhases, CreatePhases
  <2> QED
    BY <1>1, <2>1 DEF EndLoop, TypeOK
<1>2. CASE SshTest
  <2>1. /\ phase' \in LoopPhases \cup {"ssh", "done", "raised"}
        /\ work' \subseteq Resource
        /\ raised' \in BOOLEAN
    BY <1>2, EnterType DEF SshTest, TypeOK, LoopPhases, CreatePhases
  <2> QED
    BY <1>2, <2>1 DEF SshTest, TypeOK
<1>3. CASE EndRetry
  BY <1>3 DEF EndRetry, TypeOK
<1>4. CASE EndDrain
  BY <1>4 DEF EndDrain, TypeOK
<1>5. ASSUME NEW r \in Resource, ValidateResource(r) PROVE TypeOK'
  BY <1>5 DEF ValidateResource, EndIteration, TypeOK
<1>6. ASSUME NEW r \in Resource, AddPhase(r) PROVE TypeOK'
  <2>1. PICK ok \in BOOLEAN : AddResource(r, ok) /\ EndIteration(r, ~ok)
    BY <1>6 DEF AddPhase
  <2>2. pendingInternal' \in [Provider -> Seq(Resource)]
    BY <1>6, ParkedType, TopoFacts DEF AddPhase, TypeOK
  <2> QED
    BY <1>6, <2>1, <2>2, AddResourceType DEF AddPhase, EndIteration, TypeOK
<1>7. ASSUME NEW r \in Resource, BeginCreate(r) PROVE TypeOK'
  <2>1. Owner(r) \in Provider /\ <<>> \in Seq(Resource)
    BY TopoFacts
  <2>2. noLongerPending[Owner(r)] \in Seq(Resource)
    BY <2>1 DEF TypeOK
  <2>3. noLongerPending' \in [Provider -> Seq(Resource)]
    BY <1>7, <2>1 DEF BeginCreate, TypeOK
  <2> QED
    BY <1>7, <2>2, <2>3 DEF BeginCreate, TypeOK
<1>8. ASSUME NEW r \in Resource, DrainAdds(r) PROVE TypeOK'
  <2>1. Head(todo) \in Resource /\ Tail(todo) \in Seq(Resource)
    BY <1>8 DEF DrainAdds, TypeOK
  <2>2. pendingInternal[Owner(r)] \in Seq(Resource)
    BY TopoFacts DEF TypeOK
  <2>3. todoInternal' \in Seq(Resource)
    BY <1>8, <2>1, <2>2, ParkedType DEF DrainAdds
  <2>4. pendingInternal' \in [Provider -> Seq(Resource)]
    <3>1. <<>> \in Seq(Resource)
      OBVIOUS
    <3> QED
      BY <1>8, <3>1 DEF DrainAdds, TypeOK
  <2> QED
    BY <1>8, <2>1, <2>3, <2>4, AddResourceType DEF DrainAdds, TypeOK
<1>9. ASSUME NEW r \in Resource, DrainFails(r) PROVE TypeOK'
  <2>1. Head(todo) \in Resource /\ Tail(todo) \in Seq(Resource)
    BY <1>9 DEF DrainFails, TypeOK
  <2>2. noLongerPending' \in [Provider -> Seq(Resource)]
    <3>1. Owner(r) \in Provider
      BY TopoFacts
    <3>2. Append(noLongerPending[Owner(r)], Head(todo)) \in Seq(Resource)
      BY <2>1, <3>1 DEF TypeOK
    <3> QED
      BY <1>9, <3>2 DEF DrainFails, TypeOK
  <2>3. todo' \in Seq(Resource)
    <3>1. <<>> \in Seq(Resource)
      OBVIOUS
    <3> QED
      BY <1>9, <2>1, <3>1 DEF DrainFails
  <2>4. /\ phase' = phase
        /\ work' \subseteq Resource
        /\ raised' \in BOOLEAN
        /\ step' \in {"idle", "drain"}
    BY <1>9 DEF DrainFails, EndIteration, TypeOK
  <2> QED
    BY <1>9, <2>1, <2>2, <2>3, <2>4, AddResourceType DEF DrainFails, TypeOK
<1>10. ASSUME NEW r \in Resource, RetryInternal(r) PROVE TypeOK'
  <2>1. Head(todoInternal) \in Resource /\ Tail(todoInternal) \in Seq(Resource)
    BY <1>10 DEF RetryInternal, TypeOK
  <2>2. pendingInternal' \in [Provider -> Seq(Resource)]
    BY <1>10, <2>1, ParkedType DEF RetryInternal, TypeOK
  <2> QED
    BY <1>10, <2>1, <2>2, AddResourceType DEF RetryInternal, TypeOK
<1>11. ASSUME NEW r \in Resource, BeginWait(r) PROVE TypeOK'
  BY <1>11 DEF BeginWait, TypeOK
<1>12. ASSUME NEW r \in Resource, PassOver(r) PROVE TypeOK'
  BY <1>12 DEF PassOver, AfterCall, EndIteration, TypeOK
<1>13. ASSUME NEW r \in Resource, CallReturns(r) PROVE TypeOK'
  BY <1>13 DEF CallReturns, Short, AfterCall, EndIteration, TypeOK
<1>14. ASSUME NEW r \in Resource, CallFails(r) PROVE TypeOK'
  <2>1. FailedCount(r) \in Int
    <3>1. Count(r) \in Nat
      BY TopoFacts
    <3>2. notified[r] \in Nat
      BY DEF TypeOK
    <3> QED
      BY <3>1, <3>2 DEF FailedCount
  <2>2. failedCount' \in [Resource -> Int]
    BY <1>14, <2>1 DEF CallFails, TypeOK
  <2> QED
    BY <1>14, <2>2 DEF CallFails, EndIteration, TypeOK
<1>15. ASSUME NEW r \in Resource, ResolvePending(r) PROVE TypeOK'
  <2>1. r \in event /\ source \in Resource
    BY <1>15 DEF ResolvePending, TypeOK
  <2>2. got' \in [Resource -> [Resource -> Nat]]
    BY <1>15, <2>1, ResolvedByType DEF ResolvePending, TypeOK
  <2>3. Owner(r) \in Provider
    BY TopoFacts
  <2>4. Append(noLongerPending[Owner(r)], r) \in Seq(Resource)
    BY <2>3 DEF TypeOK
  <2>5. noLongerPending' \in [Provider -> Seq(Resource)]
    BY <1>15, <2>4 DEF ResolvePending, TypeOK
  <2> QED
    BY <1>15, <2>1, <2>2, <2>5 DEF ResolvePending, TypeOK
<1>16. ASSUME NEW r \in Resource, NEW d \in Resource, OnCreated(r, d) PROVE TypeOK'
  <2>1. notified' \in [Resource -> Nat]
    BY SMTT(30), <1>16 DEF OnCreated, TypeOK
  <2>2. event' \subseteq Resource
    BY <1>16 DEF OnCreated, TypeOK
  <2> QED
    BY <1>16, <2>1, <2>2 DEF OnCreated, TypeOK
<1>17. CASE UNCHANGED vars
  BY <1>17 DEF TypeOK
<1> QED
  BY <1>1, <1>2, <1>3, <1>4, <1>5, <1>6, <1>7, <1>8, <1>9, <1>10, <1>11, <1>12,
     <1>13, <1>14, <1>15, <1>16, <1>17 DEF Next, ResourceStep

LEMMA InitType == Init => TypeOK
<1> SUFFICES ASSUME Init PROVE TypeOK
  OBVIOUS
<1>1. <<>> \in Seq(Resource)
  OBVIOUS
<1>2. /\ noLongerPending \in [Provider -> Seq(Resource)]
      /\ pendingInternal \in [Provider -> Seq(Resource)]
      /\ todo \in Seq(Resource) /\ todoInternal \in Seq(Resource)
  BY <1>1 DEF Init
<1>3. got \in [Resource -> [Resource -> Nat]]
  BY DEF Init
<1>4. /\ listed \in [Resource -> Nat]
      /\ notified \in [Resource -> Nat]
      /\ createdCount \in [Resource -> Nat]
      /\ failedCount \in [Resource -> Int]
      /\ failed \in [Resource -> {"no", "VALIDATE", "ADD", "CREATE"}]
  BY DEF Init
<1> QED
  BY <1>2, <1>3, <1>4 DEF Init, TypeOK, LoopPhases, CreatePhases

\* Type correctness, for every workflow.
THEOREM TypeInvariant == Spec => []TypeOK
BY InitType, TypeStep, PTL DEF Spec

-----------------------------------------------------------------------------
(* DependencyInv is inductive.                                             *)

LEMMA SeqMono ==
    ASSUME NEW S, NEW T, S \subseteq T, NEW seq \in Seq(S)
    PROVE  seq \in Seq(T)
OBVIOUS

LEMMA TopoConstant == [Next]_vars => topo' = topo
BY DEF Next, ResourceStep, vars, loopVars, callVars, eventVars, placeVars, countVars,
       EndLoop, SshTest, EndRetry, EndDrain, ValidateResource, AddPhase, BeginCreate,
       DrainAdds, DrainFails, RetryInternal, BeginWait, PassOver, CallReturns,
       CallFails, ResolvePending, OnCreated

\* Adding a resource resolves internal dependencies only.
LEMMA AddKeepsExternal ==
    ASSUME TypeOK, NEW r \in Resource, NEW ok, AddResource(r, ok),
           NEW x \in Resource, NEW d \in External(x)
    PROVE  got'[x][d] = got[x][d]
<1>1. d \in Resource /\ d \notin Internal(x)
  BY TopoFacts DEF External, Internal
<1>2. ResolvedInternally(r) \in [Resource -> Nat] /\ got \in [Resource -> [Resource -> Nat]]
  BY ResolvedInternallyType DEF TypeOK
<1>3. x = r => ResolvedInternally(r)[d] = got[x][d]
  BY <1>1 DEF ResolvedInternally
<1> QED
  BY <1>2, <1>3 DEF AddResource

\* Only on_created changes the values of an external dependency.
LEMMA ExternalValuesStep ==
    ASSUME TypeOK, [Next]_vars, \A x \in Resource : ~ResolvePending(x)
    PROVE  \A x \in Resource : \A d \in External(x) : got'[x][d] = got[x][d]
<1> USE DEF vars
<1>1. CASE UNCHANGED got
  BY <1>1
<1>2. CASE \E r \in Resource, ok \in BOOLEAN : AddResource(r, ok)
  BY <1>2, AddKeepsExternal
<1>3. ASSUME NEW r \in Resource, DrainAdds(r) \/ DrainFails(r)
      PROVE  \E h \in Resource, ok \in BOOLEAN : AddResource(h, ok)
  <2>1. todo \in Seq(Resource) /\ todo # <<>>
    BY <1>3 DEF DrainAdds, DrainFails, TypeOK
  <2>2. Head(todo) \in Resource
    BY <2>1
  <2> QED
    BY <1>3, <2>2 DEF DrainAdds, DrainFails
<1>4. ASSUME NEW r \in Resource, RetryInternal(r)
      PROVE  \E h \in Resource, ok \in BOOLEAN : AddResource(h, ok)
  <2>1. Head(todoInternal) \in Resource
    BY <1>4 DEF RetryInternal, TypeOK
  <2> QED
    BY <1>4, <2>1 DEF RetryInternal
<1>5. ASSUME NEW r \in Resource, AddPhase(r)
      PROVE  \E h \in Resource, ok \in BOOLEAN : AddResource(h, ok)
  BY <1>5 DEF AddPhase
<1> QED
  BY <1>1, <1>2, <1>3, <1>4, <1>5
  DEF Next, ResourceStep, EndLoop, SshTest, EndRetry, EndDrain, ValidateResource,
      BeginCreate, BeginWait, PassOver, CallReturns, CallFails, OnCreated

\* A dependency keeps the values it has once it has one per instance.
LEMMA SettledGrows ==
    ASSUME TypeOK, [Next]_vars
    PROVE  Settled \subseteq Settled'
<1>1. topo' = topo
  BY TopoConstant
<1>2. ASSUME NEW y \in Resource, ResolvePending(y),
             NEW x \in Settled, NEW d \in External(x)
      PROVE  got'[x][d] = got[x][d]
  <2>1. x \in Resource /\ d \in Resource /\ got[x][d] = Count(d) /\ Count(d) \in Nat
    BY TopoFacts DEF Settled, Resolved
  <2>2. y \in event /\ source \in Resource
    BY <1>2 DEF ResolvePending, TypeOK
  <2>3. got' = [got EXCEPT ![y] = ResolvedBy(y, source)]
    BY <1>2 DEF ResolvePending
  <2>4. ResolvedBy(y, source) \in [Resource -> Nat] /\ got \in [Resource -> [Resource -> Nat]]
    BY <2>2, ResolvedByType DEF TypeOK
  <2>5. CASE x # y \/ d # source
    BY <2>1, <2>3, <2>4, <2>5 DEF ResolvedBy
  <2>6. CASE x = y /\ d = source
    <3>1. Lesser(got[x][d] + 1, Count(d)) = got[x][d]
      BY <2>1 DEF Lesser
    <3>2. ResolvedBy(y, source)[d] = got[x][d]
      BY <2>1, <2>4, <2>6, <3>1 DEF ResolvedBy
    <3> QED
      BY <2>1, <2>3, <2>4, <2>6, <3>2
  <2> QED
    BY <2>5, <2>6
<1>3. \A x \in Settled : \A d \in External(x) : got'[x][d] = got[x][d]
  BY <1>2, ExternalValuesStep DEF Settled
<1> QED
  BY <1>1, <1>3 DEF Settled, Resolved, External, Owner, Count

\* Apart from on_created, no step reports an instance or starts an event.
LEMMA QuietStep ==
    ASSUME [Next]_vars, \A x \in Resource : ~ResolvePending(x),
           \A r, d \in Resource : ~OnCreated(r, d)
    PROVE  UNCHANGED <<event, source, notified>>
BY DEF Next, ResourceStep, vars, loopVars, callVars, eventVars, placeVars, countVars,
       EndLoop, SshTest, EndRetry, EndDrain, ValidateResource, AddPhase, BeginCreate,
       DrainAdds, DrainFails, RetryInternal, BeginWait, PassOver, CallReturns, CallFails

LEMMA ValuesHaveInstancesStep ==
    ASSUME TypeOK, ValuesHaveInstances, [Next]_vars
    PROVE  ValuesHaveInstances'
<1>1. topo' = topo
  BY TopoConstant
<1>2. \A x \in Resource : External(x)' = External(x) /\ External(x) \subseteq Resource
  BY <1>1, TopoFacts DEF External, Owner
<1>3. got \in [Resource -> [Resource -> Nat]] /\ notified \in [Resource -> Nat]
  BY DEF TypeOK
<1>4. CASE \E y \in Resource : ResolvePending(y)
  <2>1. PICK y \in Resource : ResolvePending(y)
    BY <1>4
  <2>2. y \in event /\ source \in Resource
    BY <2>1 DEF ResolvePending, TypeOK
  <2>3. /\ got' = [got EXCEPT ![y] = ResolvedBy(y, source)]
        /\ event' = event \ {y}
        /\ UNCHANGED <<source, notified>>
    BY <2>1 DEF ResolvePending
  <2>4. ASSUME NEW x \in Resource, NEW d \in External(x)
        PROVE  /\ got'[x][d] <= notified[d]
               /\ x \in event \ {y} /\ d = source => got'[x][d] < notified[d]
    <3>1. d \in Resource
      BY <1>2, <2>4
    <3>2. /\ got[x][d] <= notified[d]
          /\ x \in event /\ d = source => got[x][d] < notified[d]
      BY <2>4 DEF ValuesHaveInstances
    <3>3. got[x][d] \in Nat /\ notified[d] \in Nat
      BY <1>3, <3>1
    <3>4. CASE x # y \/ d # source
      BY <1>3, <2>2, <2>3, <3>1, <3>2, <3>4, ResolvedByType DEF ResolvedBy
    <3>5. CASE x = y /\ d = source
      <4>1. got'[x][d] = ResolvedBy(y, source)[source]
        BY <1>3, <2>3, <3>5
      <4>2. ResolvedBy(y, source)[source] <= got[x][d] + 1
        <5>1. Lesser(got[x][d] + 1, Count(d)) <= got[x][d] + 1
          <6>1. got[x][d] + 1 \in Nat /\ Count(d) \in Nat
            BY <3>1, <3>3, TopoFacts
          <6> QED
            BY <6>1, LesserNat
        <5>2. \/ ResolvedBy(y, source)[source] = got[x][d]
              \/ ResolvedBy(y, source)[source] = Lesser(got[x][d] + 1, Count(d))
          BY <1>3, <2>2, <3>5 DEF ResolvedBy
        <5> QED
          BY <3>3, <5>1, <5>2
      <4>3. ResolvedBy(y, source)[source] \in Nat
        BY <2>2, ResolvedByType
      <4>4. got[x][d] + 1 <= notified[d]
        BY <2>2, <3>2, <3>3, <3>5
      <4> QED
        BY <3>3, <3>5, <4>1, <4>2, <4>3, <4>4
    <3> QED
      BY <3>4, <3>5
  <2> QED
    BY <1>2, <2>3, <2>4 DEF ValuesHaveInstances
<1>5. CASE \E r, e \in Resource : OnCreated(r, e)
  <2>1. PICK r \in Resource, e \in Resource : OnCreated(r, e)
    BY <1>5
  <2>2. /\ notified' = [notified EXCEPT ![e] = @ + 1]
        /\ source' = e /\ got' = got
    BY <2>1 DEF OnCreated
  <2>3. ASSUME NEW x \in Resource, NEW d \in External(x)
        PROVE  /\ got[x][d] <= notified'[d]
               /\ d = e => got[x][d] < notified'[d]
    <3>1. d \in Resource
      BY <1>2, <2>3
    <3>2. got[x][d] <= notified[d]
      BY <2>3 DEF ValuesHaveInstances
    <3>3. got[x][d] \in Nat /\ notified[d] \in Nat
      BY <1>3, <3>1
    <3>4. notified'[d] = IF d = e THEN notified[d] + 1 ELSE notified[d]
      BY <1>3, <2>2, <3>1
    <3> QED
      BY <3>2, <3>3, <3>4
  <2> QED
    BY <1>2, <2>2, <2>3 DEF ValuesHaveInstances
<1>6. CASE /\ \A y \in Resource : ~ResolvePending(y)
           /\ \A r, e \in Resource : ~OnCreated(r, e)
  <2>1. UNCHANGED <<event, source, notified>>
    BY <1>6, QuietStep
  <2>2. \A x \in Resource : \A d \in External(x) : got'[x][d] = got[x][d]
    BY <1>6, ExternalValuesStep
  <2> QED
    BY <1>2, <2>1, <2>2 DEF ValuesHaveInstances
<1> QED
  BY <1>4, <1>5, <1>6

\* Nothing is created during the first two loops, and they are not left
\* behind once entered again.
LEMMA QuietWhileAddingStep ==
    ASSUME TypeOK, QuietWhileAdding, [Next]_vars
    PROVE  QuietWhileAdding'
<1> SUFFICES ASSUME phase' \in {"validate", "add"}
             PROVE  /\ step' = "idle" /\ event' = {}
                    /\ \A r \in Resource : \A d \in External(r)' : got'[r][d] = 0
  BY DEF QuietWhileAdding
<1>1. phase \in {"validate", "add"}
  <2>1. CASE EndLoop
    BY <2>1 DEF EndLoop, Enter
  <2>2. CASE SshTest
    BY <2>2 DEF SshTest, Enter
  <2>3. CASE ~EndLoop /\ ~SshTest
    <3>1. phase' = phase
      BY <2>3 DEF Next, ResourceStep, vars, loopVars, EndIteration, AfterCall,
             EndRetry, EndDrain, ValidateResource, AddPhase, BeginCreate, DrainAdds,
             DrainFails, RetryInternal, BeginWait, PassOver, CallReturns, CallFails,
             ResolvePending, OnCreated
    <3> QED
      BY <3>1
  <2> QED
    BY <2>1, <2>2, <2>3
<1>2. /\ step = "idle" /\ event = {}
      /\ \A r \in Resource : \A d \in External(r) : got[r][d] = 0
  BY <1>1 DEF QuietWhileAdding
<1>3. \A r \in Resource : ~ResolvePending(r)
  BY <1>2 DEF ResolvePending
<1>4. \A r, d \in Resource : ~OnCreated(r, d)
  BY <1>2 DEF OnCreated
<1>5. event' = {}
  BY <1>2, <1>3, <1>4, QuietStep
<1>6. step' = "idle"
  BY <1>1, <1>2 DEF Next, ResourceStep, vars, callVars, EndLoop, SshTest,
         EndRetry, EndDrain, ValidateResource, AddPhase, CreatePhases,
         BeginCreate, DrainAdds, DrainFails, RetryInternal, BeginWait, PassOver,
         CallReturns, CallFails, ResolvePending, OnCreated
<1>7. \A r \in Resource : \A d \in External(r)' : got'[r][d] = 0
  BY <1>2, <1>3, ExternalValuesStep, TopoConstant DEF External, Owner
<1> QED
  BY <1>5, <1>6, <1>7

\* An add takes in, or parks, only a resource with all its external values.
LEMMA AddedBy ==
    ASSUME NEW r, NEW ok, AddResource(r, ok)
    PROVE  added' = added \/ (added' = added \cup {r} /\ ~MissesExternal(r))
BY DEF AddResource, CallsDoAdd

\* A resource that misses nothing while nothing is resolved needs nothing.
LEMMA NothingMissing ==
    ASSUME QuietWhileAdding, phase = "add", NEW r \in Resource, ~MissesExternal(r)
    PROVE  r \in Settled
<1>1. \A d \in External(r) : got[r][d] = 0
  BY DEF QuietWhileAdding
<1>2. External(r) = {}
  BY <1>1 DEF MissesExternal
<1> QED
  BY <1>2 DEF Settled, Resolved

LEMMA ListsSettledStep ==
    ASSUME TypeOK, DependencyInv, [Next]_vars
    PROVE  ListsSettled'
<1> DEFINE S == Settled
           T == Settled'
           Kept == /\ todo' \in Seq(T) /\ todoInternal' \in Seq(T)
                   /\ noLongerPending' \in [Provider -> Seq(T)]
                   /\ pendingInternal' \in [Provider -> Seq(T)]
                   /\ added' \subseteq T
<1>1. S \subseteq T
  BY SettledGrows
<1>2. topo' = topo
  BY TopoConstant
<1>3. /\ todo \in Seq(T) /\ todoInternal \in Seq(T)
      /\ noLongerPending \in [Provider -> Seq(T)]
      /\ pendingInternal \in [Provider -> Seq(T)]
      /\ added \subseteq T
  <2>1. /\ todo \in Seq(S) /\ todoInternal \in Seq(S)
        /\ noLongerPending \in [Provider -> Seq(S)]
        /\ pendingInternal \in [Provider -> Seq(S)]
        /\ added \subseteq S
    BY DEF DependencyInv, ListsSettled
  <2>2. \A seq \in Seq(S) : seq \in Seq(T)
    BY <1>1, SeqMono
  <2> HIDE DEF S, T
  <2> QED
    BY <1>1, <2>1, <2>2
<1>4. /\ <<>> \in Seq(T)
      /\ \A r \in T, p \in Provider : /\ Parked(r, pendingInternal[p]) \in Seq(T)
                                      /\ Append(noLongerPending[p], r) \in Seq(T)
  <2> HIDE DEF S, T
  <2>1. <<>> \in Seq(T)
    OBVIOUS
  <2>2. ASSUME NEW r \in T, NEW p \in Provider
        PROVE  /\ Parked(r, pendingInternal[p]) \in Seq(T)
               /\ Append(noLongerPending[p], r) \in Seq(T)
    <3>1. pendingInternal[p] \in Seq(T) /\ noLongerPending[p] \in Seq(T)
      BY <1>3
    <3> QED
      BY <3>1, ParkedType
  <2> QED
    BY <2>1, <2>2
<1>5. SUFFICES Kept
  BY DEF ListsSettled
<1>6. \A r \in Resource : Owner(r) \in Provider
  BY TopoFacts
<1>7. T \subseteq Resource
  BY DEF Settled
<1>8. ASSUME NEW r \in Resource, AddPhase(r)
      PROVE  Kept
  <2>1. PICK ok \in BOOLEAN : AddResource(r, ok)
    BY <1>8 DEF AddPhase
  <2>2. phase = "add" /\ (~MissesExternal(r) => r \in T)
    BY <1>1, <1>8, NothingMissing DEF AddPhase, DependencyInv
  <2>3. added' \subseteq T
    BY <1>3, <2>1, <2>2, AddedBy
  <2>4. Parked(r, pendingInternal[Owner(r)]) \in Seq(T)
    <3>1. CASE Parks(r)
      BY <1>4, <1>6, <2>2, <3>1 DEF Parks
    <3>2. CASE ~Parks(r)
      BY <1>3, <1>6, <3>2 DEF Parked
    <3> QED
      BY <3>1, <3>2
  <2> HIDE DEF S, T
  <2>5. pendingInternal' \in [Provider -> Seq(T)]
    BY <1>3, <1>6, <1>8, <2>4 DEF AddPhase
  <2> QED
    BY <1>3, <1>8, <2>3, <2>5 DEF AddPhase, callVars
<1> HIDE DEF S, T
<1>9. ASSUME NEW r \in Resource, BeginCreate(r)
      PROVE  Kept
  <2>1. noLongerPending' \in [Provider -> Seq(T)] /\ todo' \in Seq(T)
    BY <1>3, <1>4, <1>6, <1>9 DEF BeginCreate
  <2> QED
    BY <1>3, <1>9, <2>1 DEF BeginCreate
<1>10. ASSUME NEW r \in Resource, DrainAdds(r)
       PROVE  Kept
  <2>1. todo \in Seq(T) /\ todo # <<>>
    BY <1>3, <1>10 DEF DrainAdds
  <2>2. Head(todo) \in T /\ Tail(todo) \in Seq(T)
    BY <2>1
  <2>3. added' \subseteq T
    <3>1. AddResource(Head(todo), TRUE)
      BY <1>10 DEF DrainAdds
    <3>2. added' = added \/ added' = added \cup {Head(todo)}
      BY <3>1, AddedBy
    <3> QED
      BY <1>3, <2>2, <3>2
  <2>4. todoInternal' \in Seq(T)
    BY <1>4, <1>6, <1>10, <2>2 DEF DrainAdds
  <2>5. pendingInternal' \in [Provider -> Seq(T)]
    BY <1>3, <1>4, <1>6, <1>10 DEF DrainAdds
  <2> QED
    BY <1>3, <1>10, <2>2, <2>3, <2>4, <2>5 DEF DrainAdds
<1>11. ASSUME NEW r \in Resource, DrainFails(r)
       PROVE  Kept
  <2>1. todo \in Seq(T) /\ todo # <<>>
    BY <1>3, <1>11 DEF DrainFails
  <2>2. Head(todo) \in T /\ Tail(todo) \in Seq(T)
    BY <2>1
  <2>3. added' \subseteq T
    <3>1. AddResource(Head(todo), FALSE)
      BY <1>11 DEF DrainFails
    <3>2. added' = added \/ added' = added \cup {Head(todo)}
      BY <3>1, AddedBy
    <3> QED
      BY <1>3, <2>2, <3>2
  <2>4. noLongerPending' \in [Provider -> Seq(T)]
    BY <1>3, <1>4, <1>6, <1>11, <2>2 DEF DrainFails
  <2>5. todo' \in Seq(T)
    BY <1>4, <1>11, <2>2 DEF DrainFails
  <2> QED
    BY <1>3, <1>11, <2>3, <2>4, <2>5 DEF DrainFails
<1>12. ASSUME NEW r \in Resource, RetryInternal(r)
       PROVE  Kept
  <2>1. todoInternal \in Seq(T) /\ todoInternal # <<>>
    BY <1>3, <1>12 DEF RetryInternal
  <2>2. Head(todoInternal) \in T /\ Tail(todoInternal) \in Seq(T)
    BY <2>1
  <2>3. added' \subseteq T
    <3>1. PICK ok \in BOOLEAN : AddResource(Head(todoInternal), ok)
      BY <1>12 DEF RetryInternal
    <3>2. added' = added \/ added' = added \cup {Head(todoInternal)}
      BY <3>1, AddedBy
    <3> QED
      BY <1>3, <2>2, <3>2
  <2>4. pendingInternal' \in [Provider -> Seq(T)]
    BY <1>3, <1>4, <1>6, <1>12, <2>2 DEF RetryInternal
  <2> QED
    BY <1>3, <1>12, <2>2, <2>3, <2>4 DEF RetryInternal
<1>13. ASSUME NEW r \in Resource, ResolvePending(r)
       PROVE  Kept
  <2>1. UNCHANGED <<callVars, pendingInternal, added>>
    BY <1>13 DEF ResolvePending
  <2>2. noLongerPending' \in [Provider -> Seq(T)]
    <3>1. CASE UNCHANGED noLongerPending
      BY <1>3, <3>1
    <3>2. CASE /\ Resolved(External(r), ResolvedBy(r, source))
               /\ noLongerPending' =
                     [noLongerPending EXCEPT ![Owner(r)] = Append(@, r)]
      <4>1. \A d \in External(r) : got'[r][d] = Count(d)
        <5>1. got' = [got EXCEPT ![r] = ResolvedBy(r, source)]
          BY <1>13 DEF ResolvePending
        <5> QED
          BY <3>2, <5>1 DEF Resolved, TypeOK
      <4>2. r \in T
        BY <1>2, <4>1 DEF T, Settled, Resolved, External, Owner, Count
      <4> QED
        BY <1>3, <1>4, <1>6, <3>2, <4>2
    <3> QED
      BY <1>13, <3>1, <3>2 DEF ResolvePending
  <2> QED
    BY <1>3, <2>1, <2>2 DEF callVars
<1>14. CASE UNCHANGED <<todo, todoInternal, noLongerPending, pendingInternal, added>>
  BY <1>3, <1>14
<1> QED
  BY <1>8, <1>9, <1>10, <1>11, <1>12, <1>13, <1>14
  DEF Next, ResourceStep, vars, callVars, placeVars, EndLoop, SshTest, EndRetry,
      EndDrain, ValidateResource, BeginWait, PassOver, CallReturns, CallFails, OnCreated

\* DependencyInv holds of every reachable state.
LEMMA DependencyInvariant == Spec => [](TypeOK /\ DependencyInv)
<1>1. Init => DependencyInv
  <2> SUFFICES ASSUME Init PROVE DependencyInv
    OBVIOUS
  <2>1. Init => TypeOK
    BY InitType
  <2>2. \A r \in Resource : External(r) \subseteq Resource
    BY <2>1, TopoFacts
  <2>3. ValuesHaveInstances
    BY <2>2 DEF Init, ValuesHaveInstances
  <2>4. ListsSettled
    <3>1. <<>> \in Seq(Settled)
      OBVIOUS
    <3> QED
      BY <3>1 DEF Init, ListsSettled
  <2>5. QuietWhileAdding
    BY <2>2 DEF Init, QuietWhileAdding
  <2> QED
    BY <2>3, <2>4, <2>5 DEF DependencyInv
<1>2. TypeOK /\ DependencyInv /\ [Next]_vars => DependencyInv'
  BY ValuesHaveInstancesStep, ListsSettledStep, QuietWhileAddingStep DEF DependencyInv
<1> QED
  BY <1>1, <1>2, InitType, TypeStep, PTL DEF Spec

\* A resource that was added has all its values, hence all the instances.
LEMMA AddedNeedsCreated ==
    ASSUME TypeOK, DependencyInv
    PROVE  AddedAfterDependencies
<1> SUFFICES ASSUME NEW r \in added, NEW d \in External(r)
             PROVE  notified[d] >= Count(d)
  BY DEF AddedAfterDependencies, FullyCreated
<1>1. r \in Settled /\ r \in Resource
  BY DEF DependencyInv, ListsSettled, TypeOK
<1>2. d \in Resource /\ Count(d) \in Nat
  BY <1>1, TopoFacts
<1>3. got[r][d] = Count(d) /\ got[r][d] <= notified[d]
  BY <1>1 DEF Settled, Resolved, DependencyInv, ValuesHaveInstances
<1>4. notified[d] \in Nat
  BY <1>2 DEF TypeOK
<1> QED
  BY <1>2, <1>3, <1>4

\* A provider takes a resource in only when every instance of each of its
\* external dependencies has been reported, for every workflow.
THEOREM AddedAfterDependenciesHolds == Spec => []AddedAfterDependencies
BY DependencyInvariant, AddedNeedsCreated, PTL

-----------------------------------------------------------------------------
(* The controller implements Provisioning.                                 *)

\* What every step does to the two sets Provisioning sees.
LEMMA AddedStep ==
    ASSUME TypeOK, [Next]_vars, added' # added
    PROVE  /\ \E r \in Resource : added' = added \cup {r}
           /\ notified' = notified
<1>1. \E r \in Resource, ok \in BOOLEAN : AddResource(r, ok)
  <2>1. ASSUME NEW r \in Resource, DrainAdds(r) \/ DrainFails(r)
        PROVE  \E h \in Resource, ok \in BOOLEAN : AddResource(h, ok)
    <3>1. todo \in Seq(Resource) /\ todo # <<>>
      BY <2>1 DEF DrainAdds, DrainFails, TypeOK
    <3>2. Head(todo) \in Resource
      BY <3>1
    <3> QED
      BY <2>1, <3>2 DEF DrainAdds, DrainFails
  <2>2. ASSUME NEW r \in Resource, RetryInternal(r)
        PROVE  \E h \in Resource, ok \in BOOLEAN : AddResource(h, ok)
    <3>1. todoInternal \in Seq(Resource) /\ todoInternal # <<>>
      BY <2>2 DEF RetryInternal, TypeOK
    <3>2. Head(todoInternal) \in Resource
      BY <3>1
    <3> QED
      BY <2>2, <3>2 DEF RetryInternal
  <2> QED
    BY <2>1, <2>2
    DEF Next, ResourceStep, vars, EndLoop, SshTest, EndRetry, EndDrain, AddPhase,
        ValidateResource, BeginCreate, BeginWait, PassOver, CallReturns, CallFails,
        ResolvePending, OnCreated
<1>2. \E r \in Resource : added' = added \cup {r}
  BY <1>1, AddedBy
<1>3. notified' = notified
  BY DEF Next, ResourceStep, vars, EndLoop, SshTest, EndRetry, EndDrain, AddPhase,
         DrainAdds, DrainFails, RetryInternal,
         ValidateResource, BeginCreate, BeginWait, PassOver, CallReturns, CallFails,
         ResolvePending, OnCreated
<1> QED
  BY <1>2, <1>3

LEMMA NotifiedStep ==
    ASSUME TypeOK, [Next]_vars, notified' # notified
    PROVE  \E d \in added : notified' = [notified EXCEPT ![d] = @ + 1]
BY DEF Next, ResourceStep, vars, EndLoop, SshTest, EndRetry, EndDrain, AddPhase,
       DrainAdds, DrainFails, RetryInternal,
       ValidateResource, BeginCreate, BeginWait, PassOver, CallReturns, CallFails,
       ResolvePending, OnCreated

\* The controller implements Provisioning, for every workflow: whatever the
\* plug-ins do, resources are admitted once, when what they need from other
\* providers is complete, and are created only after that.
THEOREM Refinement == Spec => ImplementsProvisioning
<1> DEFINE created == {r \in Resource : FullyCreated(r)}
           needs == [r \in Resource |-> External(r)]
<1>1. Init => P!Init
  <2> SUFFICES ASSUME Init PROVE added = {} /\ created = {}
    BY DEF P!Init
  <2>1. \A r \in Resource : Count(r) \in Nat /\ Count(r) > 0
    BY InitType, TopoFacts
  <2>2. \A r \in Resource : ~FullyCreated(r)
    BY <2>1 DEF Init, FullyCreated
  <2> QED
    BY <2>2 DEF Init
<1>2. TypeOK /\ AddedAfterDependencies' /\ [Next]_vars
        => [P!Next]_<<needs, added, created>>
  <2> SUFFICES ASSUME TypeOK, AddedAfterDependencies', [Next]_vars
               PROVE  [P!Next]_<<needs, added, created>>
    OBVIOUS
  <2>1. topo' = topo
    BY TopoConstant
  <2>2. needs' = needs
    BY <2>1 DEF External, Owner
  <2>3. CASE added' # added
    <3>1. PICK r \in Resource : added' = added \cup {r} /\ notified' = notified
      BY <2>3, AddedStep
    <3>2. created' = created
      BY <2>1, <3>1 DEF FullyCreated, Count
    <3>3. needs[r] \subseteq created
      <4>1. r \in added'
        BY <3>1
      <4>2. \A d \in External(r)' : FullyCreated(d)'
        BY <4>1 DEF AddedAfterDependencies
      <4>3. \A d \in External(r) : FullyCreated(d)
        BY <2>1, <3>1, <4>2 DEF External, Owner, FullyCreated, Count
      <4> QED
        BY <4>3, TopoFacts
    <3> QED
      BY <2>2, <2>3, <3>1, <3>2, <3>3 DEF P!Next, P!Admit
  <2>4. CASE added' = added /\ notified' # notified
    <3>1. PICK d \in added : notified' = [notified EXCEPT ![d] = @ + 1]
      BY <2>4, NotifiedStep
    <3>2. d \in Resource
      BY DEF TypeOK
    <3>3. \A r \in Resource \ {d} : FullyCreated(r)' <=> FullyCreated(r)
      BY <2>1, <3>1 DEF FullyCreated, Count, TypeOK
    <3>4. FullyCreated(d) => FullyCreated(d)'
      <4>1. Count(d) \in Nat
        BY <3>2, TopoFacts
      <4>2. notified[d] \in Nat /\ notified'[d] = notified[d] + 1
        BY <3>1, <3>2 DEF TypeOK
      <4> QED
        BY <2>1, <4>1, <4>2 DEF FullyCreated, Count
    <3>5. created' = created \/ (d \notin created /\ created' = created \cup {d})
      BY <3>2, <3>3, <3>4
    <3> QED
      BY <2>2, <2>4, <3>2, <3>5 DEF P!Next, P!Create
  <2>5. CASE added' = added /\ notified' = notified
    BY <2>1, <2>2, <2>5 DEF FullyCreated, Count
  <2> QED
    BY <2>3, <2>4, <2>5
<1> QED
  BY <1>1, <1>2, DependencyInvariant, AddedAfterDependenciesHolds, PTL
  DEF Spec, ImplementsProvisioning, P!Spec
=============================================================================
