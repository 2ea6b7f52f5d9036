---------------------- MODULE OrchestratorLists_proofs ----------------------
(***************************************************************************)
(* The lists of the providers in Orchestrator, for every workflow: no      *)
(* resource is ever in two of them or twice in one, none is lost as long   *)
(* as the running loop has collected no exception, and no refused add goes *)
(* unnoticed.                                                              *)
(***************************************************************************)
EXTENDS Orchestrator_proofs

Elems(seq) == {seq[i] : i \in DOMAIN seq}
Once(seq) == \A i, j \in DOMAIN seq : seq[i] = seq[j] => i = j

LEMMA ElemsAppend ==
    ASSUME NEW S, NEW seq \in Seq(S), NEW x \in S
    PROVE  /\ Append(seq, x) \in Seq(S)
           /\ Elems(Append(seq, x)) = Elems(seq) \cup {x}
           /\ Once(seq) /\ x \notin Elems(seq) => Once(Append(seq, x))
<1>1. /\ Append(seq, x) \in Seq(S) /\ Len(seq) \in Nat
      /\ DOMAIN seq = 1..Len(seq) /\ DOMAIN Append(seq, x) = 1..(Len(seq) + 1)
      /\ \A i \in 1..Len(seq) : Append(seq, x)[i] = seq[i]
      /\ Append(seq, x)[Len(seq) + 1] = x
  OBVIOUS
<1>2. 1..(Len(seq) + 1) = 1..Len(seq) \cup {Len(seq) + 1}
  BY <1>1
<1>3. Elems(Append(seq, x)) = Elems(seq) \cup {x}
  BY <1>1, <1>2 DEF Elems
<1>4. ASSUME Once(seq), x \notin Elems(seq) PROVE Once(Append(seq, x))
  BY <1>1, <1>2, <1>4 DEF Elems, Once
<1> QED
  BY <1>1, <1>3, <1>4

LEMMA ElemsTail ==
    ASSUME NEW S, NEW seq \in Seq(S), seq # <<>>
    PROVE  /\ Head(seq) \in S /\ Tail(seq) \in Seq(S)
           /\ Elems(seq) = Elems(Tail(seq)) \cup {Head(seq)}
           /\ Once(seq) => Once(Tail(seq)) /\ Head(seq) \notin Elems(Tail(seq))
<1>1. /\ Head(seq) \in S /\ Tail(seq) \in Seq(S) /\ Len(seq) \in Nat \ {0}
      /\ DOMAIN seq = 1..Len(seq) /\ DOMAIN Tail(seq) = 1..(Len(seq) - 1)
      /\ Head(seq) = seq[1]
      /\ \A i \in 1..(Len(seq) - 1) : Tail(seq)[i] = seq[i + 1]
  OBVIOUS
<1>2. \A i \in 1..Len(seq) : i = 1 \/ i - 1 \in 1..(Len(seq) - 1)
  BY <1>1
<1>3. Elems(seq) = Elems(Tail(seq)) \cup {Head(seq)}
  <2>1. ASSUME NEW e \in Elems(seq) PROVE e \in Elems(Tail(seq)) \cup {Head(seq)}
    <3>1. PICK i \in 1..Len(seq) : e = seq[i]
      BY <1>1, <2>1 DEF Elems
    <3>2. CASE i = 1
      BY <1>1, <3>1, <3>2
    <3>3. CASE i - 1 \in 1..(Len(seq) - 1)
      <4>1. Tail(seq)[i - 1] = seq[i]
        BY <1>1, <3>3
      <4> QED
        BY <1>1, <3>1, <3>3, <4>1 DEF Elems
    <3> QED
      BY <1>2, <3>2, <3>3
  <2>2. ASSUME NEW e \in Elems(Tail(seq)) PROVE e \in Elems(seq)
    <3>1. PICK i \in 1..(Len(seq) - 1) : e = Tail(seq)[i]
      BY <1>1, <2>2 DEF Elems
    <3>2. i + 1 \in 1..Len(seq) /\ e = seq[i + 1]
      BY <1>1, <3>1
    <3> QED
      BY <1>1, <3>2 DEF Elems
  <2>3. Head(seq) \in Elems(seq)
    BY <1>1 DEF Elems
  <2> QED
    BY <2>1, <2>2, <2>3
<1>4. ASSUME Once(seq) PROVE Once(Tail(seq)) /\ Head(seq) \notin Elems(Tail(seq))
  <2>1. ASSUME NEW i \in 1..(Len(seq) - 1) PROVE i + 1 \in 1..Len(seq) /\ i + 1 # 1
    BY <1>1
  <2>2. Once(Tail(seq))
    <3> SUFFICES ASSUME NEW i \in 1..(Len(seq) - 1), NEW j \in 1..(Len(seq) - 1),
                        Tail(seq)[i] = Tail(seq)[j]
                 PROVE  i = j
      BY <1>1 DEF Once
    <3>1. i + 1 = j + 1
      BY <1>1, <1>4, <2>1 DEF Once
    <3> QED
      BY <3>1
  <2>3. ASSUME Head(seq) \in Elems(Tail(seq)) PROVE FALSE
    <3>1. PICK i \in 1..(Len(seq) - 1) : Head(seq) = Tail(seq)[i]
      BY <1>1, <2>3 DEF Elems
    <3>2. seq[1] = seq[i + 1] /\ 1 \in 1..Len(seq)
      BY <1>1, <3>1
    <3> QED
      BY <1>1, <1>4, <2>1, <3>2 DEF Once
  <2> QED
    BY <2>2, <2>3
<1> QED
  BY <1>1, <1>3, <1>4

LEMMA ElemsEmpty == Elems(<<>>) = {} /\ Once(<<>>)
<1>1. DOMAIN <<>> = {}
  OBVIOUS
<1> QED
  BY <1>1 DEF Elems, Once

LEMMA ElemsIn ==
    ASSUME NEW S, NEW seq \in Seq(S)
    PROVE  Elems(seq) \subseteq S
BY DEF Elems

-----------------------------------------------------------------------------
(* The lists that there is one of per provider.                            *)

Homed(seqs) == \A p \in Provider : \A x \in Elems(seqs[p]) : Owner(x) = p
EachOnce(seqs) == \A p \in Provider : Once(seqs[p])
At(seqs) == {x \in Resource : x \in Elems(seqs[Owner(x)])}

LEMMA AtAppend ==
    ASSUME TypeOK, NEW seqs \in [Provider -> Seq(Resource)], NEW x \in Resource,
           NEW new, new = [seqs EXCEPT ![Owner(x)] = Append(@, x)], Homed(seqs)
    PROVE  /\ Homed(new) /\ At(new) = At(seqs) \cup {x}
           /\ EachOnce(seqs) /\ x \notin At(seqs) => EachOnce(new)
<1>1. Owner(x) \in Provider /\ seqs[Owner(x)] \in Seq(Resource)
  BY TopoFacts
<1>2. /\ new[Owner(x)] = Append(seqs[Owner(x)], x)
      /\ \A p \in Provider : p # Owner(x) => new[p] = seqs[p]
  BY <1>1
<1>3. /\ Elems(new[Owner(x)]) = Elems(seqs[Owner(x)]) \cup {x}
      /\ Once(seqs[Owner(x)]) /\ x \notin Elems(seqs[Owner(x)]) => Once(new[Owner(x)])
  BY <1>1, <1>2, ElemsAppend
<1>4. Homed(new)
  BY <1>2, <1>3 DEF Homed
<1>5. At(new) = At(seqs) \cup {x}
  <2>1. \A y \in Resource : Owner(y) \in Provider
    BY TopoFacts
  <2> QED
    BY <1>2, <1>3, <2>1 DEF At
<1>6. EachOnce(seqs) /\ x \notin At(seqs) => EachOnce(new)
  BY <1>1, <1>2, <1>3 DEF EachOnce, At
<1> QED
  BY <1>4, <1>5, <1>6

LEMMA AtEmptied ==
    ASSUME TypeOK, NEW seqs \in [Provider -> Seq(Resource)], NEW q \in Provider,
           NEW new, new = [seqs EXCEPT ![q] = <<>>], Homed(seqs), EachOnce(seqs)
    PROVE  /\ Homed(new) /\ EachOnce(new)
           /\ At(new) = At(seqs) \ Elems(seqs[q]) /\ Elems(seqs[q]) \subseteq At(seqs)
<1>1. /\ new[q] = <<>> /\ Elems(new[q]) = {} /\ Once(new[q])
      /\ \A p \in Provider : p # q => new[p] = seqs[p]
  BY ElemsEmpty
<1>2. Homed(new) /\ EachOnce(new)
  BY <1>1 DEF Homed, EachOnce
<1>3. \A y \in Resource : Owner(y) \in Provider
  BY TopoFacts
<1>4. Elems(seqs[q]) \subseteq Resource
  BY ElemsIn
<1>5. At(new) = At(seqs) \ Elems(seqs[q])
  BY <1>1, <1>3 DEF At, Homed
<1>6. Elems(seqs[q]) \subseteq At(seqs)
  BY <1>4 DEF At, Homed
<1> QED
  BY <1>2, <1>5, <1>6

-----------------------------------------------------------------------------
(* The invariant of the lists.                                             *)

\* The pending and the added resources and those of the four lists.
Apart(wait, in, drain, retry, free, own) ==
    /\ wait \cap in = {} /\ wait \cap drain = {} /\ wait \cap retry = {}
    /\ wait \cap free = {} /\ wait \cap own = {}
    /\ in \cap drain = {} /\ in \cap retry = {} /\ in \cap free = {} /\ in \cap own = {}
    /\ drain \cap retry = {} /\ drain \cap free = {} /\ drain \cap own = {}
    /\ retry \cap free = {} /\ retry \cap own = {}
    /\ free \cap own = {}

\* A resource waits in one place.
ApartInv ==
    Apart(pending, added, Elems(todo), Elems(todoInternal), At(noLongerPending),
          At(pendingInternal))

\* And once there, in a list of its own provider.
ShapeInv ==
    /\ Once(todo) /\ Once(todoInternal)
    /\ EachOnce(noLongerPending) /\ EachOnce(pendingInternal)
    /\ Homed(noLongerPending) /\ Homed(pendingInternal)
    /\ event \subseteq pending

\* What is being drained belongs to the provider whose create_resource runs.
DrainInv ==
    /\ \A x \in Elems(todo) \cup Elems(todoInternal) :
          \A r \in Resource : IsCurrent(r) => Owner(x) = Owner(r)
    /\ step # "idle" => phase \in CreatePhases \cup {"wait"} /\ work # {}
    /\ step \notin {"drain", "retry"} => todo = <<>>
    /\ step # "retry" => todoInternal = <<>>

\* The add loop starts with empty lists and comes to each resource once.
AddInv ==
    /\ phase \in {"validate", "add"} => \A p \in Provider : noLongerPending[p] = <<>>
    /\ phase = "validate" =>
          pending = {} /\ added = {} /\ \A p \in Provider : pendingInternal[p] = <<>>
    /\ phase = "add" => work \cap (pending \cup added \cup At(pendingInternal)) = {}

PlaceInv == ApartInv /\ ShapeInv /\ DrainInv /\ AddInv

Somewhere ==
    pending \cup added \cup Elems(todo) \cup Elems(todoInternal)
        \cup At(noLongerPending) \cup At(pendingInternal)

\* A step keeps every resource in some place, or records its failure.
Keeps == \A x \in Somewhere : x \in Somewhere' \/ failed'[x] # "no"

\* What an add does to the places; the list it parks in is Parked.
LEMMA AddPlaces ==
    ASSUME NEW x, NEW ok, AddResource(x, ok)
    PROVE  \/ ~Parks(x) /\ ok /\ pending' = pending \cup {x} /\ added' = added
           \/ Parks(x) /\ ok /\ pending' = pending /\ added' = added
           \/ ~Parks(x) /\ ok /\ pending' = pending /\ added' = added \cup {x}
           \/ ~Parks(x) /\ ~ok /\ pending' = pending /\ added' = added
BY DEF AddResource, CallsDoAdd, Parks

LEMMA AddOutcome ==
    ASSUME TypeOK, NEW x \in Resource, \E ok \in BOOLEAN : AddResource(x, ok)
    PROVE  /\ pending \subseteq pending' /\ added \subseteq added'
           /\ x \in pending' \/ x \in added' \/ Parks(x) \/ failed'[x] # "no"
BY DEF AddResource, CallsDoAdd, Parks, TypeOK

\* Steps that leave every list as it is.
LEMMA SameLists ==
    ASSUME ApartInv, ShapeInv, UNCHANGED <<topo, todo, todoInternal, pending, added>>,
           UNCHANGED <<noLongerPending, pendingInternal>>, event' \subseteq pending
    PROVE  ApartInv' /\ ShapeInv'
<1>1. /\ At(noLongerPending)' = At(noLongerPending) /\ At(pendingInternal)' = At(pendingInternal)
      /\ Homed(noLongerPending)' /\ Homed(pendingInternal)'
  BY DEF At, Homed, Owner, ShapeInv
<1> QED
  BY <1>1 DEF ApartInv, ShapeInv, EachOnce

LEMMA CurrentUnique ==
    ASSUME TypeOK, NEW r \in Resource, NEW s \in Resource, IsCurrent(r), IsCurrent(s)
    PROVE  r = s
BY DEF IsCurrent, Resource

\* The loops and calls that do not touch the lists.
LEMMA QuietKeeps ==
    ASSUME TypeOK, PlaceInv,
           \/ EndLoop \/ SshTest \/ EndRetry \/ EndDrain
           \/ \E r \in Resource :
                \/ ValidateResource(r) \/ BeginWait(r) \/ PassOver(r) \/ CallReturns(r)
                \/ CallFails(r) \/ \E d \in Resource : OnCreated(r, d)
           \/ UNCHANGED vars
    PROVE  PlaceInv'
<1> USE DEF vars, loopVars, callVars, eventVars, placeVars, countVars
<1>1. /\ UNCHANGED <<topo, todo, todoInternal, pending, added>>
      /\ UNCHANGED <<noLongerPending, pendingInternal>> /\ event' \subseteq pending
  BY DEF PlaceInv, ShapeInv, EndLoop, SshTest, EndRetry, EndDrain, ValidateResource, BeginWait,
         PassOver, CallReturns, CallFails, OnCreated
<1>2. ApartInv' /\ ShapeInv'
  BY <1>1, SameLists DEF PlaceInv
<1>3. CASE EndLoop \/ SshTest
  <2>1. step = "idle" /\ step' = "idle" /\ todo = <<>> /\ todoInternal = <<>>
    BY <1>3 DEF EndLoop, SshTest, PlaceInv, DrainInv, CreatePhases
  <2>2. DrainInv'
    BY <1>1, <2>1, ElemsEmpty DEF DrainInv
  <2>3. phase' # "validate"
    BY <1>3 DEF EndLoop, SshTest, Enter
  <2>4. phase' = "add" => phase = "validate"
    BY <1>3 DEF EndLoop, SshTest, Enter
  <2>5. phase = "validate" => At(pendingInternal) = {}
    <3>1. \A y \in Resource : Owner(y) \in Provider
      BY TopoFacts
    <3> QED
      BY <3>1, ElemsEmpty DEF PlaceInv, AddInv, At
  <2>6. At(pendingInternal)' = At(pendingInternal)
    BY <1>1 DEF At, Owner
  <2>7. AddInv'
    BY <1>1, <2>3, <2>4, <2>5, <2>6 DEF PlaceInv, AddInv
  <2> QED
    BY <1>2, <2>2, <2>7 DEF PlaceInv
<1>4. CASE ~(EndLoop \/ SshTest)
  <2>1. At(pendingInternal)' = At(pendingInternal)
    BY <1>1 DEF At, Owner
  <2>2. phase' = phase /\ work' \subseteq work
    BY <1>4 DEF EndRetry, EndDrain, ValidateResource, BeginWait, PassOver, AfterCall, CallReturns,
                CallFails, OnCreated, EndIteration
  <2>3. AddInv'
    BY <1>1, <2>1, <2>2 DEF PlaceInv, AddInv
  <2>4. DrainInv'
    <3>1. CASE work' = work
      <4>1. /\ step' # "idle" => phase' \in CreatePhases \cup {"wait"} /\ work' # {}
            /\ step' \notin {"drain", "retry"} => todo' = <<>>
            /\ step' # "retry" => todoInternal' = <<>>
        BY ZenonT(30), <1>1, <1>4, <2>2, <3>1 DEF PlaceInv, DrainInv, EndRetry, EndDrain, ValidateResource,
           BeginWait, PassOver, AfterCall, CallReturns, CallFails, OnCreated, IsCurrent
      <4> QED
        BY <1>1, <3>1, <4>1 DEF PlaceInv, DrainInv, IsCurrent, Owner
    <3>2. CASE work' # work
      <4>1. step' = "idle" /\ step \notin {"drain", "retry"}
        BY <1>4, <3>2 DEF EndRetry, EndDrain, ValidateResource, BeginWait, PassOver, AfterCall,
           CallReturns, CallFails, OnCreated, PlaceInv, DrainInv, CreatePhases
      <4> QED
        BY <1>1, <4>1, ElemsEmpty DEF PlaceInv, DrainInv
    <3> QED
      BY <3>1, <3>2
  <2> QED
    BY <1>2, <2>3, <2>4 DEF PlaceInv
<1> QED
  BY <1>3, <1>4

\* topo does not change, so a list is at home where it was.
LEMMA AtPrimed ==
    ASSUME topo' = topo
    PROVE  /\ At(noLongerPending)' = At(noLongerPending')
           /\ At(pendingInternal)' = At(pendingInternal')
           /\ Homed(noLongerPending)' = Homed(noLongerPending')
           /\ Homed(pendingInternal)' = Homed(pendingInternal')
BY DEF At, Homed, Owner

\* create_resource takes over what is no longer pending.
LEMMA BeginCreateKeeps ==
    ASSUME TypeOK, PlaceInv, NEW r \in Resource, BeginCreate(r)
    PROVE  PlaceInv' /\ Keeps
<1> USE DEF loopVars, callVars, eventVars, placeVars, countVars
<1>1. /\ Owner(r) \in Provider /\ noLongerPending \in [Provider -> Seq(Resource)]
      /\ todo = <<>> /\ todoInternal = <<>>
  BY TopoFacts DEF TypeOK, PlaceInv, DrainInv, BeginCreate
<1>2. /\ todo' = noLongerPending[Owner(r)] /\ todoInternal' = <<>>
      /\ noLongerPending' = [noLongerPending EXCEPT ![Owner(r)] = <<>>]
      /\ UNCHANGED <<topo, phase, work, event, pending, added, pendingInternal>>
      /\ phase \in CreatePhases /\ step' = "drain" /\ IsCurrent(r)
  BY <1>1 DEF BeginCreate
<1>3. /\ Homed(noLongerPending') /\ EachOnce(noLongerPending')
      /\ At(noLongerPending') = At(noLongerPending) \ Elems(todo')
      /\ Elems(todo') \subseteq At(noLongerPending)
  BY <1>1, <1>2, AtEmptied DEF PlaceInv, ShapeInv
<1>4. /\ At(noLongerPending)' = At(noLongerPending') /\ Homed(noLongerPending)' = Homed(noLongerPending')
      /\ At(pendingInternal)' = At(pendingInternal) /\ Homed(pendingInternal)' = Homed(pendingInternal)
  BY <1>2, AtPrimed DEF At, Homed, Owner
<1>5. ApartInv'
  <2>1. Apart(pending, added, {}, {}, At(noLongerPending), At(pendingInternal))
    BY <1>1, ElemsEmpty DEF PlaceInv, ApartInv
  <2>2. Apart(pending, added, Elems(todo'), {}, At(noLongerPending) \ Elems(todo'),
              At(pendingInternal))
    BY <1>3, <2>1 DEF Apart
  <2>3. /\ pending' = pending /\ added' = added /\ Elems(todoInternal') = {}
        /\ At(noLongerPending)' = At(noLongerPending) \ Elems(todo')
        /\ At(pendingInternal)' = At(pendingInternal)
    BY <1>2, <1>3, <1>4, ElemsEmpty
  <2> QED
    BY <2>2, <2>3 DEF ApartInv
<1>6. ShapeInv'
  BY <1>1, <1>2, <1>3, <1>4, ElemsEmpty DEF PlaceInv, ShapeInv, EachOnce
<1>7. DrainInv'
  <2>1. \A x \in Elems(todo') : Owner(x) = Owner(r)
    BY <1>1, <1>2 DEF PlaceInv, ShapeInv, Homed
  <2>2. \A s \in Resource : IsCurrent(s)' => s = r
    BY <1>2, CurrentUnique DEF IsCurrent
  <2>3. work' # {}
    BY <1>2 DEF IsCurrent
  <2> QED
    BY <1>2, <2>1, <2>2, <2>3, ElemsEmpty DEF DrainInv, Owner
<1>8. AddInv'
  BY <1>2 DEF AddInv, CreatePhases
<1>9. Keeps
  <2>1. Elems(todo) = {} /\ Elems(todoInternal) = {}
    BY <1>1, ElemsEmpty
  <2>2. /\ pending' = pending /\ added' = added /\ At(pendingInternal)' = At(pendingInternal)
        /\ At(noLongerPending)' = At(noLongerPending) \ Elems(todo)'
    BY <1>2, <1>3, <1>4
  <2> QED
    BY <2>1, <2>2 DEF Keeps, Somewhere
<1> QED
  BY <1>5, <1>6, <1>7, <1>8, <1>9 DEF PlaceInv

\* What Parked does to a list of the provider of x.
LEMMA ParkedElems ==
    ASSUME NEW x \in Resource, NEW seq \in Seq(Resource)
    PROVE  /\ Parked(x, seq) \in Seq(Resource)
           /\ Parks(x) => Elems(Parked(x, seq)) = Elems(seq) \cup {x}
           /\ ~Parks(x) => Elems(Parked(x, seq)) = Elems(seq)
           /\ Once(seq) /\ x \notin Elems(seq) => Once(Parked(x, seq))
BY ElemsAppend DEF Parked

\* The first of what is drained is added, parked or found pending, and the
\* internal resources of the provider are taken over.
LEMMA TakenOver ==
    ASSUME NEW wait, NEW in, NEW drain, NEW free, NEW own, NEW h, NEW rest, NEW part,
           Apart(wait, in, drain, {}, free, own), drain = rest \cup {h}, h \notin rest,
           part \subseteq own
    PROVE  /\ Apart(wait \cup {h}, in, rest, part, free, own \ part)
           /\ Apart(wait, in, rest, part \cup {h}, free, own \ part)
           /\ Apart(wait, in \cup {h}, rest, part, free, own \ part)
BY DEF Apart

\* A resource that is no longer pending is added, and pending_internal taken over.
LEMMA DrainAddsKeeps ==
    ASSUME TypeOK, PlaceInv, NEW r \in Resource, DrainAdds(r)
    PROVE  PlaceInv' /\ Keeps
<1> USE DEF loopVars, callVars, eventVars, placeVars, countVars
<1> DEFINE h == Head(todo)
           own == pendingInternal[Owner(r)]
<1>1. /\ Owner(r) \in Provider /\ todo \in Seq(Resource) /\ todo # <<>>
      /\ pendingInternal \in [Provider -> Seq(Resource)] /\ own \in Seq(Resource)
      /\ step = "drain" /\ todoInternal = <<>> /\ IsCurrent(r)
      /\ phase \in CreatePhases \cup {"wait"} /\ work # {}
  BY TopoFacts DEF TypeOK, PlaceInv, DrainInv, DrainAdds
<1>2. /\ todo' = Tail(todo) /\ todoInternal' = Parked(h, own) /\ step' = "retry"
      /\ pendingInternal' = [pendingInternal EXCEPT ![Owner(r)] = <<>>]
      /\ UNCHANGED <<topo, phase, work, event, noLongerPending>>
      /\ AddResource(h, TRUE)
  BY DEF DrainAdds
<1>3. /\ h \in Resource /\ Elems(todo) = Elems(todo') \cup {h} /\ h \notin Elems(todo')
      /\ Once(todo') /\ todo' \in Seq(Resource)
  BY <1>1, <1>2, ElemsTail DEF PlaceInv, ShapeInv
<1>4. /\ Homed(pendingInternal') /\ EachOnce(pendingInternal')
      /\ At(pendingInternal') = At(pendingInternal) \ Elems(own)
      /\ Elems(own) \subseteq At(pendingInternal) /\ Once(own)
  BY <1>1, <1>2, AtEmptied DEF PlaceInv, ShapeInv, EachOnce
<1>5. /\ At(pendingInternal)' = At(pendingInternal') /\ Homed(pendingInternal)' = Homed(pendingInternal')
      /\ At(noLongerPending)' = At(noLongerPending) /\ Homed(noLongerPending)' = Homed(noLongerPending)
  BY <1>2, AtPrimed DEF At, Homed, Owner
<1>6. \/ pending' = pending \cup {h} /\ added' = added /\ Elems(todoInternal') = Elems(own)
      \/ pending' = pending /\ added' = added /\ Elems(todoInternal') = Elems(own) \cup {h}
      \/ pending' = pending /\ added' = added \cup {h} /\ Elems(todoInternal') = Elems(own)
  BY <1>1, <1>2, <1>3, AddPlaces, ParkedElems
<1>7. h \notin Elems(own) /\ Once(todoInternal')
  BY <1>1, <1>2, <1>3, <1>4, ParkedElems DEF PlaceInv, ApartInv, Apart
<1>8. ApartInv'
  <2>1. Apart(pending, added, Elems(todo), {}, At(noLongerPending), At(pendingInternal))
    BY <1>1, ElemsEmpty DEF PlaceInv, ApartInv
  <2>2. /\ At(noLongerPending)' = At(noLongerPending)
        /\ At(pendingInternal)' = At(pendingInternal) \ Elems(own)
    BY <1>4, <1>5
  <2> DEFINE rest == Elems(todo')
             part == Elems(own)
             free == At(noLongerPending)
             left == At(pendingInternal) \ part
  <2>3. /\ Elems(todo) = rest \cup {h} /\ h \notin rest
        /\ part \subseteq At(pendingInternal)
    BY <1>3, <1>4
  <2>4. /\ Apart(pending \cup {h}, added, rest, part, free, left)
        /\ Apart(pending, added, rest, part \cup {h}, free, left)
        /\ Apart(pending, added \cup {h}, rest, part, free, left)
    <3> HIDE DEF h, rest, part, free
    <3> QED
      BY <2>1, <2>3, TakenOver DEF free
  <2> QED
    BY <1>6, <2>2, <2>4 DEF ApartInv
<1>9. ShapeInv'
  BY <1>2, <1>3, <1>4, <1>5, <1>6, <1>7 DEF PlaceInv, ShapeInv, EachOnce
<1>10. DrainInv'
  <2>1. \A x \in Elems(todo) : Owner(x) = Owner(r)
    BY <1>1 DEF PlaceInv, DrainInv
  <2>2. \A x \in Elems(own) : Owner(x) = Owner(r)
    BY <1>1 DEF PlaceInv, ShapeInv, Homed
  <2>3. \A x \in Elems(todo') \cup Elems(todoInternal') : Owner(x) = Owner(r)
    BY <1>3, <1>6, <2>1, <2>2
  <2>4. \A s \in Resource : IsCurrent(s)' => s = r
    BY <1>1, <1>2, CurrentUnique DEF IsCurrent
  <2> QED
    BY <1>1, <1>2, <2>3, <2>4 DEF DrainInv, Owner
<1>11. AddInv'
  BY <1>1, <1>2 DEF AddInv, CreatePhases
<1>12. Keeps
  <2> HIDE DEF h, own
  <2>1. Elems(todoInternal) = {} /\ Elems(todo) = Elems(todo)' \cup {h}
    BY <1>1, <1>3, ElemsEmpty
  <2>2. /\ At(noLongerPending)' = At(noLongerPending)
        /\ At(pendingInternal)' = At(pendingInternal) \ Elems(own)
        /\ Elems(own) \subseteq Elems(todoInternal)'
    BY <1>4, <1>5, <1>6
  <2>3. /\ pending \subseteq pending' /\ added \subseteq added'
        /\ h \in pending' \/ h \in added' \/ h \in Elems(todoInternal)'
    BY <1>6
  <2> QED
    BY <2>1, <2>2, <2>3 DEF Keeps, Somewhere
<1> QED
  BY <1>8, <1>9, <1>10, <1>11, <1>12 DEF PlaceInv

\* An append to no_longer_pending of the resource's provider.
LEMMA FreeKeeps ==
    ASSUME TypeOK, ShapeInv, NEW x \in Resource, NEW q \in Provider, Owner(x) = q,
           NEW new, new = [noLongerPending EXCEPT ![q] = Append(@, x)],
           x \notin At(noLongerPending)
    PROVE  /\ Homed(new) /\ EachOnce(new)
           /\ At(new) = At(noLongerPending) \cup {x}
<1>1. noLongerPending \in [Provider -> Seq(Resource)]
  BY DEF TypeOK
<1>2. new = [noLongerPending EXCEPT ![Owner(x)] = Append(@, x)]
  OBVIOUS
<1> QED
  BY <1>1, <1>2, AtAppend DEF ShapeInv

\* It goes back to no_longer_pending, and the rest may be dropped.
LEMMA TakenBack ==
    ASSUME NEW wait, NEW in, NEW drain, NEW free, NEW own, NEW h, NEW rest, NEW kept,
           Apart(wait, in, drain, {}, free, own), drain = rest \cup {h}, h \notin rest,
           kept \subseteq rest
    PROVE  Apart(wait, in, kept, {}, free \cup {h}, own)
BY DEF Apart

LEMMA DrainFailsKeeps ==
    ASSUME TypeOK, PlaceInv, NEW r \in Resource, DrainFails(r)
    PROVE  PlaceInv' /\ (Keeps \/ raised')
<1> USE DEF loopVars, callVars, eventVars, placeVars, countVars
<1> DEFINE h == Head(todo)
<1>1. /\ Owner(r) \in Provider /\ todo \in Seq(Resource) /\ todo # <<>>
      /\ noLongerPending \in [Provider -> Seq(Resource)]
      /\ step = "drain" /\ todoInternal = <<>> /\ IsCurrent(r)
      /\ phase \in CreatePhases \cup {"wait"} /\ work # {}
  BY TopoFacts DEF TypeOK, PlaceInv, DrainInv, DrainFails
<1>2. /\ noLongerPending' = [noLongerPending EXCEPT ![Owner(r)] = Append(@, h)]
      /\ UNCHANGED <<topo, phase, event, todoInternal, pendingInternal>>
      /\ AddResource(h, FALSE)
      /\ \/ todo' = <<>> /\ step' = "idle"
         \/ todo' = Tail(todo) /\ step' = step /\ work' = work
  BY DEF DrainFails, EndIteration
<1>3. /\ h \in Resource /\ Elems(todo) = Elems(Tail(todo)) \cup {h} /\ h \notin Elems(Tail(todo))
      /\ Once(Tail(todo)) /\ Tail(todo) \in Seq(Resource)
  BY <1>1, ElemsTail DEF PlaceInv, ShapeInv
<1>4. Elems(todo') \subseteq Elems(Tail(todo)) /\ Once(todo')
  BY <1>2, <1>3, ElemsEmpty
<1>5. Owner(h) = Owner(r)
  BY <1>1, <1>3 DEF PlaceInv, DrainInv
<1>6. h \notin At(noLongerPending)
  BY <1>3 DEF PlaceInv, ApartInv, Apart
<1>7. /\ Homed(noLongerPending') /\ EachOnce(noLongerPending')
      /\ At(noLongerPending') = At(noLongerPending) \cup {h}
  BY <1>1, <1>2, <1>3, <1>5, <1>6, FreeKeeps DEF PlaceInv
<1>8. /\ At(noLongerPending)' = At(noLongerPending') /\ Homed(noLongerPending)' = Homed(noLongerPending')
      /\ At(pendingInternal)' = At(pendingInternal) /\ Homed(pendingInternal)' = Homed(pendingInternal)
  BY <1>2, AtPrimed DEF At, Homed, Owner
<1>9. pending' = pending /\ added' = added
  BY <1>2, AddPlaces
<1>10. ApartInv'
  <2> DEFINE kept == Elems(todo')
             rest == Elems(Tail(todo))
             free == At(noLongerPending)
  <2>1. Apart(pending, added, Elems(todo), {}, free, At(pendingInternal))
    BY <1>1, ElemsEmpty DEF PlaceInv, ApartInv
  <2>2. Elems(todo) = rest \cup {h} /\ h \notin rest /\ kept \subseteq rest
    BY <1>3, <1>4
  <2>3. Apart(pending, added, kept, {}, free \cup {h}, At(pendingInternal))
    <3> HIDE DEF h, rest, kept, free
    <3> QED
      BY <2>1, <2>2, TakenBack
  <2>4. Elems(todoInternal)' = {}
    BY <1>1, <1>2, ElemsEmpty
  <2> QED
    BY <1>7, <1>8, <1>9, <2>3, <2>4 DEF ApartInv
<1>11. ShapeInv'
  BY <1>2, <1>4, <1>7, <1>8, <1>9 DEF PlaceInv, ShapeInv, EachOnce
<1>12. DrainInv'
  <2>1. CASE todo' = <<>> /\ step' = "idle"
    BY <1>1, <1>2, <2>1, ElemsEmpty DEF DrainInv
  <2>2. CASE todo' = Tail(todo) /\ step' = step /\ work' = work
    <3>1. \A x \in Elems(todo') : Owner(x) = Owner(r)
      BY <1>1, <1>3, <1>4 DEF PlaceInv, DrainInv
    <3>2. \A s \in Resource : IsCurrent(s)' => s = r
      BY <1>1, <2>2, CurrentUnique DEF IsCurrent
    <3> QED
      BY <1>1, <1>2, <2>2, <3>1, <3>2, ElemsEmpty DEF DrainInv, Owner
  <2> QED
    BY <1>2, <2>1, <2>2
<1>13. AddInv'
  BY <1>1, <1>2 DEF AddInv, CreatePhases
<1>14. Keeps \/ raised'
  <2>1. CASE raised'
    BY <2>1
  <2>2. CASE todo' = Tail(todo)
    <3>1. /\ pending' = pending /\ added' = added /\ Elems(todoInternal)' = Elems(todoInternal)
          /\ At(pendingInternal)' = At(pendingInternal)
          /\ At(noLongerPending)' = At(noLongerPending) \cup {h}
      BY <1>2, <1>7, <1>8, <1>9
    <3>2. Elems(todo) = Elems(todo)' \cup {h}
      BY <1>3, <2>2
    <3> HIDE DEF h
    <3> QED
      BY <3>1, <3>2 DEF Keeps, Somewhere
  <2> QED
    BY <2>1, <2>2 DEF DrainFails, EndIteration
<1> QED
  BY <1>10, <1>11, <1>12, <1>13, <1>14 DEF PlaceInv

\* A retried resource is added, parked again or found pending, or its add fails.
LEMMA TakenAgain ==
    ASSUME NEW wait, NEW in, NEW drain, NEW retry, NEW free, NEW own, NEW h, NEW rest,
           Apart(wait, in, drain, retry, free, own), retry = rest \cup {h}, h \notin rest
    PROVE  /\ Apart(wait \cup {h}, in, drain, rest, free, own)
           /\ Apart(wait, in \cup {h}, drain, rest, free, own)
           /\ Apart(wait, in, drain, rest, free, own \cup {h})
           /\ Apart(wait, in, drain, rest, free, own)
BY DEF Apart

\* An add that parks in the list of the provider itself.
LEMMA ParkKeeps ==
    ASSUME TypeOK, ShapeInv, NEW x \in Resource, NEW q \in Provider, Owner(x) = q,
           NEW new, new = [pendingInternal EXCEPT ![q] = Parked(x, @)],
           x \notin At(pendingInternal)
    PROVE  /\ Homed(new) /\ EachOnce(new)
           /\ Parks(x) => At(new) = At(pendingInternal) \cup {x}
           /\ ~Parks(x) => At(new) = At(pendingInternal)
<1>1. pendingInternal \in [Provider -> Seq(Resource)]
  BY DEF TypeOK
<1>2. CASE Parks(x)
  <2>1. new = [pendingInternal EXCEPT ![Owner(x)] = Append(@, x)]
    BY <1>2 DEF Parked
  <2> QED
    BY <1>1, <1>2, <2>1, AtAppend DEF ShapeInv
<1>3. CASE ~Parks(x)
  <2>1. new = pendingInternal
    BY <1>1, <1>3 DEF Parked
  <2> QED
    BY <1>3, <2>1 DEF ShapeInv
<1> QED
  BY <1>2, <1>3

LEMMA RetryKeeps ==
    ASSUME TypeOK, PlaceInv, NEW r \in Resource, RetryInternal(r)
    PROVE  PlaceInv' /\ Keeps
<1> USE DEF loopVars, callVars, eventVars, placeVars, countVars
<1> DEFINE h == Head(todoInternal)
<1>1. /\ Owner(r) \in Provider /\ todoInternal \in Seq(Resource) /\ todoInternal # <<>>
      /\ step = "retry" /\ IsCurrent(r)
      /\ phase \in CreatePhases \cup {"wait"} /\ work # {}
  BY TopoFacts DEF TypeOK, PlaceInv, DrainInv, RetryInternal
<1>2. /\ pendingInternal' = [pendingInternal EXCEPT ![Owner(r)] = Parked(h, @)]
      /\ UNCHANGED <<topo, phase, work, step, todo, event, noLongerPending>>
      /\ todoInternal' = Tail(todoInternal)
      /\ \E ok \in BOOLEAN : AddResource(h, ok)
  BY DEF RetryInternal
<1>3. /\ h \in Resource /\ Elems(todoInternal) = Elems(todoInternal') \cup {h}
      /\ h \notin Elems(todoInternal') /\ Once(todoInternal')
  BY <1>1, <1>2, ElemsTail DEF PlaceInv, ShapeInv
<1>4. Owner(h) = Owner(r)
  BY <1>1, <1>3 DEF PlaceInv, DrainInv
<1>5. h \notin At(pendingInternal)
  BY <1>3 DEF PlaceInv, ApartInv, Apart
<1>6. /\ Homed(pendingInternal') /\ EachOnce(pendingInternal')
      /\ Parks(h) => At(pendingInternal') = At(pendingInternal) \cup {h}
      /\ ~Parks(h) => At(pendingInternal') = At(pendingInternal)
  BY <1>1, <1>2, <1>3, <1>4, <1>5, ParkKeeps DEF PlaceInv
<1>7. /\ At(pendingInternal)' = At(pendingInternal') /\ Homed(pendingInternal)' = Homed(pendingInternal')
      /\ At(noLongerPending)' = At(noLongerPending) /\ Homed(noLongerPending)' = Homed(noLongerPending)
  BY <1>2, AtPrimed DEF At, Homed, Owner
<1>8. \/ pending' = pending \cup {h} /\ added' = added /\ ~Parks(h)
      \/ pending' = pending /\ added' = added /\ Parks(h)
      \/ pending' = pending /\ added' = added \cup {h} /\ ~Parks(h)
      \/ pending' = pending /\ added' = added /\ ~Parks(h)
  <2>1. PICK ok \in BOOLEAN : AddResource(h, ok)
    BY <1>2
  <2> QED
    BY <2>1, AddPlaces
<1>9. ApartInv'
  <2> DEFINE rest == Elems(todoInternal')
             own == At(pendingInternal)
             drain == Elems(todo)
             free == At(noLongerPending)
  <2>1. Apart(pending, added, drain, Elems(todoInternal), free, own)
    BY DEF PlaceInv, ApartInv
  <2>2. Elems(todoInternal) = rest \cup {h} /\ h \notin rest
    BY <1>3
  <2>3. /\ Apart(pending \cup {h}, added, drain, rest, free, own)
        /\ Apart(pending, added \cup {h}, drain, rest, free, own)
        /\ Apart(pending, added, drain, rest, free, own \cup {h})
        /\ Apart(pending, added, drain, rest, free, own)
    <3> HIDE DEF h, rest, own, drain, free
    <3> QED
      BY <2>1, <2>2, TakenAgain
  <2>4. Elems(todo)' = drain
    BY <1>2
  <2> QED
    BY <1>6, <1>7, <1>8, <2>3, <2>4 DEF ApartInv
<1>10. ShapeInv'
  BY <1>2, <1>3, <1>6, <1>7, <1>8 DEF PlaceInv, ShapeInv, EachOnce
<1>11. DrainInv'
  <2>1. \A x \in Elems(todo') \cup Elems(todoInternal') : Owner(x) = Owner(r)
    BY <1>1, <1>2, <1>3 DEF PlaceInv, DrainInv
  <2>2. \A s \in Resource : IsCurrent(s)' => s = r
    BY <1>1, <1>2, CurrentUnique DEF IsCurrent
  <2> QED
    BY <1>1, <1>2, <2>1, <2>2 DEF DrainInv, Owner
<1>12. AddInv'
  BY <1>1, <1>2 DEF AddInv, CreatePhases
<1>13. Keeps
  <2>1. Elems(todoInternal) = Elems(todoInternal)' \cup {h} /\ Elems(todo)' = Elems(todo)
    BY <1>2, <1>3
  <2>2. /\ At(noLongerPending)' = At(noLongerPending)
        /\ At(pendingInternal) \subseteq At(pendingInternal)'
        /\ Parks(h) => h \in At(pendingInternal)'
    BY <1>6, <1>7
  <2>3. /\ pending \subseteq pending' /\ added \subseteq added'
        /\ h \in pending' \/ h \in added' \/ Parks(h) \/ failed'[h] # "no"
    BY <1>2, <1>3, AddOutcome
  <2> HIDE DEF h
  <2> QED
    BY <2>1, <2>2, <2>3 DEF Keeps, Somewhere
<1> QED
  BY <1>9, <1>10, <1>11, <1>12, <1>13 DEF PlaceInv

\* A pending resource whose last value came leaves pending.
LEMMA Released ==
    ASSUME NEW wait, NEW in, NEW drain, NEW retry, NEW free, NEW own, NEW x,
           Apart(wait, in, drain, retry, free, own), x \in wait
    PROVE  /\ Apart(wait \ {x}, in, drain, retry, free \cup {x}, own)
           /\ x \notin free
BY DEF Apart

LEMMA ResolveKeeps ==
    ASSUME TypeOK, PlaceInv, QuietWhileAdding, NEW x \in Resource, ResolvePending(x)
    PROVE  PlaceInv' /\ Keeps
<1> USE DEF loopVars, callVars, eventVars, placeVars, countVars
<1>1. /\ x \in event /\ x \in pending /\ event' = event \ {x}
      /\ UNCHANGED <<topo, phase, work, step, todo, todoInternal, pendingInternal, added>>
      /\ phase \notin {"validate", "add"} /\ noLongerPending \in [Provider -> Seq(Resource)]
  BY DEF ResolvePending, PlaceInv, ShapeInv, QuietWhileAdding, TypeOK
<1>2. At(pendingInternal)' = At(pendingInternal) /\ Homed(pendingInternal)' = Homed(pendingInternal)
  BY <1>1 DEF At, Homed, Owner
<1>3. /\ At(noLongerPending)' = At(noLongerPending')
      /\ Homed(noLongerPending)' = Homed(noLongerPending')
  BY <1>1, AtPrimed
<1>4. DrainInv' /\ AddInv'
  BY <1>1 DEF PlaceInv, DrainInv, AddInv, IsCurrent, Owner
<1>5. CASE UNCHANGED <<pending, noLongerPending>>
  <2>1. ApartInv' /\ ShapeInv'
    BY <1>1, <1>5, SameLists DEF PlaceInv, ShapeInv
  <2>2. Keeps
    <3>1. At(noLongerPending)' = At(noLongerPending)
      BY <1>1, <1>5 DEF At, Owner
    <3> QED
      BY <1>1, <1>2, <1>5, <3>1 DEF Keeps, Somewhere
  <2> QED
    BY <1>4, <2>1, <2>2 DEF PlaceInv
<1>6. CASE /\ pending' = pending \ {x}
           /\ noLongerPending' = [noLongerPending EXCEPT ![Owner(x)] = Append(@, x)]
  <2> DEFINE free == At(noLongerPending)
             own == At(pendingInternal)
  <2>1. Apart(pending, added, Elems(todo), Elems(todoInternal), free, own)
    BY DEF PlaceInv, ApartInv
  <2>2. /\ Apart(pending \ {x}, added, Elems(todo), Elems(todoInternal), free \cup {x}, own)
        /\ x \notin free
    <3> HIDE DEF free, own
    <3> QED
      BY <1>1, <2>1, Released
  <2>3. /\ Homed(noLongerPending') /\ EachOnce(noLongerPending')
        /\ At(noLongerPending') = free \cup {x}
    <3>1. Owner(x) \in Provider
      BY TopoFacts
    <3> QED
      BY <1>6, <2>2, <3>1, FreeKeeps DEF PlaceInv
  <2>4. ApartInv'
    BY <1>1, <1>2, <1>3, <1>6, <2>2, <2>3 DEF ApartInv
  <2>5. ShapeInv'
    BY <1>1, <1>2, <1>3, <1>6, <2>3 DEF PlaceInv, ShapeInv, EachOnce
  <2>6. Keeps
    <3>1. /\ added' = added /\ pending' = pending \ {x}
          /\ Elems(todo)' = Elems(todo) /\ Elems(todoInternal)' = Elems(todoInternal)
          /\ At(noLongerPending)' = At(noLongerPending) \cup {x}
          /\ At(pendingInternal)' = At(pendingInternal)
      BY <1>1, <1>2, <1>3, <1>6, <2>3
    <3> QED
      BY <3>1 DEF Keeps, Somewhere
  <2> QED
    BY <1>4, <2>4, <2>5, <2>6 DEF PlaceInv
<1> QED
  BY <1>5, <1>6 DEF ResolvePending

\* The first add of a resource, which was nowhere.
LEMMA TakenFirst ==
    ASSUME NEW wait, NEW in, NEW own, NEW x, Apart(wait, in, {}, {}, {}, own),
           x \notin wait, x \notin in, x \notin own
    PROVE  /\ Apart(wait \cup {x}, in, {}, {}, {}, own)
           /\ Apart(wait, in \cup {x}, {}, {}, {}, own)
           /\ Apart(wait, in, {}, {}, {}, own \cup {x})
BY DEF Apart

LEMMA AddKeeps ==
    ASSUME TypeOK, PlaceInv, NEW r \in Resource, AddPhase(r)
    PROVE  PlaceInv' /\ Keeps /\ (r \in Somewhere' \/ failed'[r] # "no")
<1> USE DEF loopVars, callVars, eventVars, placeVars, countVars
<1>1. /\ phase = "add" /\ IsCurrent(r) /\ r \in work
      /\ step = "idle" /\ todo = <<>> /\ todoInternal = <<>>
      /\ r \notin pending /\ r \notin added /\ r \notin At(pendingInternal)
      /\ \A p \in Provider : noLongerPending[p] = <<>>
  <2>1. phase = "add" /\ IsCurrent(r) /\ r \in work
    BY DEF AddPhase, IsCurrent
  <2>2. step = "idle"
    BY <2>1 DEF PlaceInv, DrainInv, CreatePhases
  <2> QED
    BY <2>1, <2>2 DEF PlaceInv, DrainInv, AddInv
<1>2. /\ pendingInternal' = [pendingInternal EXCEPT ![Owner(r)] = Parked(r, @)]
      /\ UNCHANGED <<topo, step, todo, todoInternal, event, noLongerPending>>
      /\ phase' = phase /\ work' = work \ {r}
      /\ \E ok \in BOOLEAN : AddResource(r, ok)
  BY DEF AddPhase, EndIteration
<1>3. Owner(r) \in Provider
  BY TopoFacts
<1>4. /\ Homed(pendingInternal') /\ EachOnce(pendingInternal')
      /\ Parks(r) => At(pendingInternal') = At(pendingInternal) \cup {r}
      /\ ~Parks(r) => At(pendingInternal') = At(pendingInternal)
  BY <1>1, <1>2, <1>3, ParkKeeps DEF PlaceInv
<1>5. /\ At(pendingInternal)' = At(pendingInternal') /\ Homed(pendingInternal)' = Homed(pendingInternal')
      /\ At(noLongerPending)' = At(noLongerPending) /\ Homed(noLongerPending)' = Homed(noLongerPending)
  BY <1>2, AtPrimed DEF At, Homed, Owner
<1>6. \/ pending' = pending \cup {r} /\ added' = added /\ ~Parks(r)
      \/ pending' = pending /\ added' = added /\ Parks(r)
      \/ pending' = pending /\ added' = added \cup {r} /\ ~Parks(r)
      \/ pending' = pending /\ added' = added /\ ~Parks(r)
  <2>1. PICK ok \in BOOLEAN : AddResource(r, ok)
    BY <1>2
  <2> QED
    BY <2>1, AddPlaces
<1>7. ApartInv'
  <2> DEFINE own == At(pendingInternal)
  <2>1. Elems(todo) = {} /\ Elems(todoInternal) = {} /\ At(noLongerPending) = {}
    <3>1. \A y \in Resource : Owner(y) \in Provider
      BY TopoFacts
    <3> QED
      BY <1>1, <3>1, ElemsEmpty DEF At
  <2>2. Apart(pending, added, {}, {}, {}, own)
    BY <2>1 DEF PlaceInv, ApartInv
  <2>3. /\ Apart(pending \cup {r}, added, {}, {}, {}, own)
        /\ Apart(pending, added \cup {r}, {}, {}, {}, own)
        /\ Apart(pending, added, {}, {}, {}, own \cup {r})
    <3> HIDE DEF own
    <3> QED
      BY <1>1, <2>2, TakenFirst DEF own
  <2>4. Elems(todo)' = {} /\ Elems(todoInternal)' = {} /\ At(noLongerPending)' = {}
    BY <1>2, <1>5, <2>1
  <2> QED
    BY <1>4, <1>5, <1>6, <2>2, <2>3, <2>4 DEF ApartInv
<1>8. ShapeInv'
  BY <1>2, <1>4, <1>5, <1>6 DEF PlaceInv, ShapeInv, EachOnce
<1>9. DrainInv'
  BY <1>1, <1>2, ElemsEmpty DEF DrainInv
<1>10. AddInv'
  BY <1>1, <1>2, <1>4, <1>5, <1>6 DEF PlaceInv, AddInv
<1>11. Keeps /\ (r \in Somewhere' \/ failed'[r] # "no")
  <2>1. Elems(todoInternal)' = Elems(todoInternal) /\ Elems(todo)' = Elems(todo)
    BY <1>2
  <2>2. /\ At(noLongerPending)' = At(noLongerPending)
        /\ At(pendingInternal) \subseteq At(pendingInternal)'
        /\ Parks(r) => r \in At(pendingInternal)'
    BY <1>4, <1>5
  <2>3. /\ pending \subseteq pending' /\ added \subseteq added'
        /\ r \in pending' \/ r \in added' \/ Parks(r) \/ failed'[r] # "no"
    BY <1>2, AddOutcome
  <2> QED
    BY <2>1, <2>2, <2>3 DEF Keeps, Somewhere
<1> QED
  BY <1>7, <1>8, <1>9, <1>10, <1>11 DEF PlaceInv

LEMMA PlaceInit == Init => PlaceInv
<1> SUFFICES ASSUME Init PROVE PlaceInv
  OBVIOUS
<1>1. /\ phase = "validate" /\ step = "idle" /\ todo = <<>> /\ todoInternal = <<>> /\ event = {}
      /\ pending = {} /\ added = {}
      /\ \A p \in Provider : noLongerPending[p] = <<>> /\ pendingInternal[p] = <<>>
  BY DEF Init
<1>2. Elems(todo) = {} /\ Elems(todoInternal) = {} /\ Once(todo) /\ Once(todoInternal)
  BY <1>1, ElemsEmpty
<1>3. At(noLongerPending) = {} /\ At(pendingInternal) = {}
  <2>1. \A y \in Resource : Owner(y) \in Provider
    BY InitType, TopoFacts
  <2> QED
    BY <1>1, <2>1, ElemsEmpty DEF At
<1>4. ApartInv
  BY <1>1, <1>2, <1>3 DEF ApartInv, Apart
<1>5. ShapeInv
  BY <1>1, <1>2, ElemsEmpty DEF ShapeInv, EachOnce, Homed
<1>6. DrainInv /\ AddInv
  BY <1>1, <1>2 DEF DrainInv, AddInv
<1> QED
  BY <1>4, <1>5, <1>6 DEF PlaceInv

LEMMA PlaceStep == TypeOK /\ QuietWhileAdding /\ PlaceInv /\ [Next]_vars => PlaceInv'
<1> SUFFICES ASSUME TypeOK, QuietWhileAdding, PlaceInv, [Next]_vars PROVE PlaceInv'
  OBVIOUS
<1>1. CASE EndLoop \/ SshTest \/ EndRetry \/ EndDrain \/ UNCHANGED vars
  BY <1>1, QuietKeeps
<1>2. ASSUME NEW r \in Resource, ResourceStep(r) PROVE PlaceInv'
  <2>1. CASE \/ ValidateResource(r) \/ BeginWait(r) \/ PassOver(r) \/ CallReturns(r)
             \/ CallFails(r) \/ \E d \in Resource : OnCreated(r, d)
    BY <2>1, QuietKeeps
  <2>2. CASE AddPhase(r)
    BY <2>2, AddKeeps
  <2>3. CASE BeginCreate(r)
    BY <2>3, BeginCreateKeeps
  <2>4. CASE DrainAdds(r)
    BY <2>4, DrainAddsKeeps
  <2>5. CASE DrainFails(r)
    BY <2>5, DrainFailsKeeps
  <2>6. CASE RetryInternal(r)
    BY <2>6, RetryKeeps
  <2>7. CASE ResolvePending(r)
    BY <2>7, ResolveKeeps
  <2> QED
    BY <1>2, <2>1, <2>2, <2>3, <2>4, <2>5, <2>6, <2>7 DEF ResourceStep
<1> QED
  BY <1>1, <1>2 DEF Next

-----------------------------------------------------------------------------
(* From the lists to the places of the property.                           *)

\* The places of a resource, one kind after the other.
LEMMA PlacesAre ==
    ASSUME NEW r \in Resource, NEW a
    PROVE  a \in Places(r) <=>
              \/ \E i \in DOMAIN todo : todo[i] = r /\ a = <<"todo", i>>
              \/ \E i \in DOMAIN todoInternal : todoInternal[i] = r /\ a = <<"todoInternal", i>>
              \/ \E i \in DOMAIN noLongerPending[Owner(r)] :
                    noLongerPending[Owner(r)][i] = r /\ a = <<"noLongerPending", i>>
              \/ \E i \in DOMAIN pendingInternal[Owner(r)] :
                    pendingInternal[Owner(r)][i] = r /\ a = <<"pendingInternal", i>>
              \/ r \in pending /\ a = <<"pending", 0>>
              \/ r \in added /\ a = <<"added", 0>>
<1> DEFINE Names == {"todo", "todoInternal", "noLongerPending", "pendingInternal"}
           Spots(p, seq) == {<<p, i>> : i \in {j \in DOMAIN seq : seq[j] = r}}
<1>1. /\ DOMAIN Waiting(r) = Names
      /\ Waiting(r)["todo"] = Spots("todo", todo)
      /\ Waiting(r)["todoInternal"] = Spots("todoInternal", todoInternal)
      /\ Waiting(r)["noLongerPending"] = Spots("noLongerPending", noLongerPending[Owner(r)])
      /\ Waiting(r)["pendingInternal"] = Spots("pendingInternal", pendingInternal[Owner(r)])
  BY DEF Waiting
<1>2. UNION {Waiting(r)[p] : p \in DOMAIN Waiting(r)} =
         Spots("todo", todo) \cup Spots("todoInternal", todoInternal)
            \cup Spots("noLongerPending", noLongerPending[Owner(r)])
            \cup Spots("pendingInternal", pendingInternal[Owner(r)])
  <2> HIDE DEF Spots
  <2> QED
    BY <1>1
<1>3. ASSUME NEW p, NEW seq
      PROVE  a \in Spots(p, seq) <=> \E i \in DOMAIN seq : seq[i] = r /\ a = <<p, i>>
  OBVIOUS
<1>4. Places(r) = Spots("todo", todo) \cup Spots("todoInternal", todoInternal)
            \cup Spots("noLongerPending", noLongerPending[Owner(r)])
            \cup Spots("pendingInternal", pendingInternal[Owner(r)])
            \cup {<<"pending", 0>> : x \in pending \cap {r}}
            \cup {<<"added", 0>> : x \in added \cap {r}}
  <2> HIDE DEF Spots
  <2> QED
    BY <1>2 DEF Places
<1>5. /\ a \in {<<"pending", 0>> : x \in pending \cap {r}} <=> r \in pending /\ a = <<"pending", 0>>
      /\ a \in {<<"added", 0>> : x \in added \cap {r}} <=> r \in added /\ a = <<"added", 0>>
  OBVIOUS
<1> HIDE DEF Spots
<1> QED
  BY <1>3, <1>4, <1>5

\* Apart and once there, every resource is in one place.
LEMMA PlacesUnique ==
    ASSUME PlaceInv, TypeOK
    PROVE  OnePlace
<1> SUFFICES ASSUME NEW r \in Resource, NEW a \in Places(r), NEW b \in Places(r)
             PROVE  a = b
  BY DEF OnePlace
<1> DEFINE free == noLongerPending[Owner(r)]
           own == pendingInternal[Owner(r)]
<1>1. /\ Once(todo) /\ Once(todoInternal) /\ Once(free) /\ Once(own)
      /\ r \in At(noLongerPending) <=> r \in Elems(free)
      /\ r \in At(pendingInternal) <=> r \in Elems(own)
  BY TopoFacts DEF PlaceInv, ShapeInv, EachOnce, At
<1>2. ASSUME NEW e \in Places(r)
      PROVE  \/ r \in Elems(todo) /\ \E i \in DOMAIN todo : todo[i] = r /\ e = <<"todo", i>>
             \/ /\ r \in Elems(todoInternal)
                /\ \E i \in DOMAIN todoInternal : todoInternal[i] = r /\ e = <<"todoInternal", i>>
             \/ /\ r \in Elems(free)
                /\ \E i \in DOMAIN free : free[i] = r /\ e = <<"noLongerPending", i>>
             \/ /\ r \in Elems(own)
                /\ \E i \in DOMAIN own : own[i] = r /\ e = <<"pendingInternal", i>>
             \/ r \in pending /\ e = <<"pending", 0>>
             \/ r \in added /\ e = <<"added", 0>>
  BY <1>2, PlacesAre DEF Elems
<1>3. Apart(pending, added, Elems(todo), Elems(todoInternal), At(noLongerPending),
            At(pendingInternal))
  BY DEF PlaceInv, ApartInv
<1> HIDE DEF free, own
<1>4. CASE r \in Elems(todo)
  BY <1>1, <1>2, <1>3, <1>4 DEF Apart, Once
<1>5. CASE r \in Elems(todoInternal)
  BY <1>1, <1>2, <1>3, <1>5 DEF Apart, Once
<1>6. CASE r \in Elems(free)
  BY <1>1, <1>2, <1>3, <1>6 DEF Apart, Once
<1>7. CASE r \in Elems(own)
  BY <1>1, <1>2, <1>3, <1>7 DEF Apart, Once
<1>8. CASE r \in pending \/ r \in added
  BY <1>1, <1>2, <1>3, <1>8 DEF Apart
<1> QED
  BY <1>2, <1>4, <1>5, <1>6, <1>7, <1>8

LEMMA SomewhereHasPlace ==
    ASSUME NEW r \in Resource, r \in Somewhere
    PROVE  Places(r) # {}
<1>1. CASE r \in pending \/ r \in added
  <2>1. <<"pending", 0>> \in Places(r) \/ <<"added", 0>> \in Places(r)
    BY <1>1, PlacesAre
  <2> QED
    BY <2>1
<1>2. CASE r \in Elems(todo)
  <2>1. PICK i \in DOMAIN todo : todo[i] = r
    BY <1>2 DEF Elems
  <2>2. <<"todo", i>> \in Places(r)
    BY <2>1, PlacesAre
  <2> QED
    BY <2>2
<1>3. CASE r \in Elems(todoInternal)
  <2>1. PICK i \in DOMAIN todoInternal : todoInternal[i] = r
    BY <1>3 DEF Elems
  <2>2. <<"todoInternal", i>> \in Places(r)
    BY <2>1, PlacesAre
  <2> QED
    BY <2>2
<1>4. CASE r \in At(noLongerPending)
  <2>1. PICK i \in DOMAIN noLongerPending[Owner(r)] : noLongerPending[Owner(r)][i] = r
    BY <1>4 DEF Elems, At
  <2>2. <<"noLongerPending", i>> \in Places(r)
    BY <2>1, PlacesAre
  <2> QED
    BY <2>2
<1>5. CASE r \in At(pendingInternal)
  <2>1. PICK i \in DOMAIN pendingInternal[Owner(r)] : pendingInternal[Owner(r)][i] = r
    BY <1>5 DEF Elems, At
  <2>2. <<"pendingInternal", i>> \in Places(r)
    BY <2>1, PlacesAre
  <2> QED
    BY <2>2
<1> QED
  BY <1>1, <1>2, <1>3, <1>4, <1>5 DEF Somewhere

-----------------------------------------------------------------------------
(* Nothing is lost, and every refused add is counted.                      *)

AfterAdd == {"first", "create", "wait", "ssh", "service", "done"}

\* A resource that went through the add loop is somewhere or failed.
LostInv ==
    /\ phase \in {"ssh", "done"} => ~raised
    /\ phase = "add" => \A r \in Resource \ work : r \in Somewhere \/ failed[r] # "no"
    /\ phase \in AfterAdd /\ ~raised =>
          \A r \in Resource : r \in Somewhere \/ failed[r] # "no"

\* A failure once recorded stays recorded.
LEMMA FailedStays ==
    ASSUME TypeOK, [Next]_vars, NEW x \in Resource, failed[x] # "no"
    PROVE  failed'[x] # "no"
<1> USE DEF vars, countVars
<1>1. CASE failed' = failed
  BY <1>1
<1>2. CASE \E r \in Resource, w \in {"VALIDATE", "ADD", "CREATE"} :
              failed' = [failed EXCEPT ![r] = w]
  BY <1>2 DEF TypeOK
<1>3. ASSUME NEW r \in Resource, NEW ok \in BOOLEAN, AddResource(r, ok)
      PROVE  failed' = failed \/ failed' = [failed EXCEPT ![r] = "ADD"]
  BY <1>3 DEF AddResource
<1>4. CASE EndLoop \/ SshTest \/ EndRetry \/ EndDrain \/ UNCHANGED vars
  BY <1>1, <1>4 DEF EndLoop, SshTest, EndRetry, EndDrain
<1>5. ASSUME NEW r \in Resource, ResourceStep(r)
      PROVE  \/ failed' = failed
             \/ \E y \in Resource, w \in {"VALIDATE", "ADD", "CREATE"} :
                   failed' = [failed EXCEPT ![y] = w]
  <2>1. CASE ValidateResource(r)
    BY <2>1 DEF ValidateResource
  <2>2. CASE AddPhase(r)
    BY <2>2, <1>3 DEF AddPhase
  <2>3. CASE DrainAdds(r) \/ DrainFails(r)
    <3>0. todo \in Seq(Resource) /\ todo # <<>>
      BY <2>3 DEF DrainAdds, DrainFails, TypeOK
    <3>1. Head(todo) \in Resource
      BY <3>0, ElemsTail
    <3> QED
      BY <2>3, <3>1, <1>3 DEF DrainAdds, DrainFails
  <2>4. CASE RetryInternal(r)
    <3>1. Head(todoInternal) \in Resource
      BY SMTT(30), <2>4 DEF RetryInternal, TypeOK
    <3> QED
      BY <2>4, <3>1, <1>3 DEF RetryInternal
  <2>5. CASE CallFails(r)
    BY <2>5 DEF CallFails
  <2> QED
    BY <1>5, <2>1, <2>2, <2>3, <2>4, <2>5
    DEF ResourceStep, BeginCreate, BeginWait, PassOver, CallReturns, ResolvePending, OnCreated
<1> QED
  BY <1>1, <1>2, <1>4, <1>5 DEF Next

\* What a step that loses nothing does to the loop keeps LostInv.
LEMMA LostKept ==
    ASSUME TypeOK, LostInv, [Next]_vars, Keeps, phase' = phase, raised => raised',
           phase \notin {"ssh", "done"}, phase # "add" \/ work' = work
    PROVE  LostInv'
<1>1. \A r \in Resource :
         r \in Somewhere \/ failed[r] # "no" => r \in Somewhere' \/ failed'[r] # "no"
  BY FailedStays DEF Keeps
<1>2. raised \in BOOLEAN
  BY DEF TypeOK
<1> QED
  BY <1>1, <1>2 DEF LostInv

\* A loop never takes an exception back, and its calls belong to the loops of apply.
LEMMA LoopGoesOn ==
    ASSUME TypeOK, PlaceInv, NEW r \in Resource,
           \/ BeginWait(r) \/ PassOver(r) \/ CallReturns(r) \/ CallFails(r) \/ DrainFails(r)
           \/ \E d \in Resource : OnCreated(r, d)
    PROVE  /\ phase' = phase /\ (raised => raised')
           /\ phase \in CreatePhases \cup {"wait"}
<1> USE DEF loopVars
<1>1. \/ UNCHANGED <<phase, raised>>
      \/ \E exc \in BOOLEAN : EndIteration(r, exc)
  BY DEF BeginWait, PassOver, AfterCall, CallReturns, CallFails, DrainFails, OnCreated
<1>2. phase' = phase /\ (raised => raised')
  <2>1. ASSUME NEW exc \in BOOLEAN, EndIteration(r, exc), raised PROVE raised'
    BY <2>1 DEF EndIteration
  <2>2. CASE UNCHANGED <<phase, raised>>
    BY <2>2
  <2>3. CASE \E exc \in BOOLEAN : EndIteration(r, exc)
    BY <2>1, <2>3 DEF EndIteration
  <2> QED
    BY <1>1, <2>2, <2>3
<1>3. phase = "wait" \/ step # "idle"
  BY DEF BeginWait, PassOver, CallReturns, CallFails, DrainFails, OnCreated
<1> QED
  BY <1>2, <1>3 DEF PlaceInv, DrainInv

\* Steps that touch no list keep every resource.
LEMMA QuietLost ==
    ASSUME UNCHANGED <<topo, todo, todoInternal, pending, added>>,
           UNCHANGED <<noLongerPending, pendingInternal>>
    PROVE  Somewhere' = Somewhere
<1>1. At(noLongerPending)' = At(noLongerPending) /\ At(pendingInternal)' = At(pendingInternal)
  BY DEF At, Owner
<1> QED
  BY <1>1 DEF Somewhere

LEMMA LostStep ==
    TypeOK /\ QuietWhileAdding /\ PlaceInv /\ LostInv /\ [Next]_vars => LostInv'
<1> SUFFICES ASSUME TypeOK, QuietWhileAdding, PlaceInv, LostInv, [Next]_vars PROVE LostInv'
  OBVIOUS
<1> USE DEF vars, loopVars, callVars, eventVars, placeVars, countVars
<1>1. CASE EndLoop \/ SshTest
  <2>1. Somewhere' = Somewhere /\ failed' = failed
    BY <1>1, QuietLost DEF EndLoop, SshTest
  <2>2. raised \in BOOLEAN /\ work \subseteq Resource
    BY DEF TypeOK
  <2>3. CASE phase' = "raised"
    BY <2>3 DEF LostInv, AfterAdd
  <2>4. CASE phase' # "raised" /\ EndLoop
    <3>1. /\ ~raised /\ ~raised' /\ work = {} /\ phase' # "validate"
          /\ phase' = "add" => work' = Resource
          /\ phase' \in AfterAdd => phase \in AfterAdd \cup {"add"}
      BY <2>4 DEF EndLoop, Enter, AfterAdd, LoopPhases, CreatePhases
    <3> QED
      BY <2>1, <3>1 DEF LostInv, AfterAdd
  <2>5. CASE phase' # "raised" /\ SshTest
    <3>1. phase = "ssh" /\ phase' = "service" /\ ~raised /\ ~raised'
      BY <2>5 DEF SshTest, Enter, LostInv
    <3> QED
      BY <2>1, <3>1 DEF LostInv, AfterAdd
  <2> QED
    BY <1>1, <2>3, <2>4, <2>5
<1>2. CASE EndRetry \/ EndDrain \/ UNCHANGED vars
  <2>1. Somewhere' = Somewhere /\ UNCHANGED <<failed, phase, work, raised>>
    BY <1>2, QuietLost DEF EndRetry, EndDrain
  <2> QED
    BY <2>1 DEF LostInv
<1>3. ASSUME NEW r \in Resource, ResourceStep(r) PROVE LostInv'
  <2>1. CASE ValidateResource(r)
    BY <2>1 DEF ValidateResource, EndIteration, LostInv, AfterAdd
  <2>2. CASE BeginWait(r) \/ PassOver(r) \/ CallReturns(r) \/ CallFails(r)
             \/ \E d \in Resource : OnCreated(r, d)
    <3>1. Somewhere' = Somewhere
      BY <2>2, QuietLost DEF BeginWait, PassOver, CallReturns, CallFails, OnCreated
    <3>2. /\ phase' = phase /\ (raised => raised')
          /\ phase \in CreatePhases \cup {"wait"}
      BY <2>2, LoopGoesOn
    <3> QED
      BY <3>1, <3>2, LostKept DEF Keeps, CreatePhases
  <2>3. CASE AddPhase(r)
    <3>1. Keeps /\ (r \in Somewhere' \/ failed'[r] # "no")
      BY <2>3, AddKeeps
    <3>2. phase = "add" /\ phase' = "add" /\ work' = work \ {r}
      BY <2>3 DEF AddPhase, EndIteration
    <3>3. \A x \in Resource \ work : x \in Somewhere' \/ failed'[x] # "no"
      BY <3>1, <3>2, FailedStays DEF Keeps, LostInv
    <3> QED
      BY <3>1, <3>2, <3>3 DEF LostInv, AfterAdd
  <2>4. CASE BeginCreate(r)
    <3>1. Keeps
      BY <2>4, BeginCreateKeeps
    <3> QED
      BY <2>4, <3>1, LostKept DEF BeginCreate, CreatePhases
  <2>5. CASE DrainAdds(r) \/ RetryInternal(r)
    <3>1. Keeps
      BY <2>5, DrainAddsKeeps, RetryKeeps
    <3>2. phase \in CreatePhases \cup {"wait"} /\ UNCHANGED <<phase, work, raised>>
      BY <2>5 DEF DrainAdds, RetryInternal, PlaceInv, DrainInv
    <3> QED
      BY <3>1, <3>2, LostKept DEF CreatePhases
  <2>6. CASE DrainFails(r)
    <3>1. Keeps \/ raised'
      BY <2>6, DrainFailsKeeps
    <3>2. /\ phase' = phase /\ (raised => raised')
          /\ phase \in CreatePhases \cup {"wait"}
      BY <2>6, LoopGoesOn
    <3>3. CASE Keeps
      BY <3>2, <3>3, LostKept DEF CreatePhases
    <3>4. CASE raised'
      BY <3>2, <3>4 DEF LostInv, CreatePhases
    <3> QED
      BY <3>1, <3>3, <3>4
  <2>7. CASE ResolvePending(r)
    <3>1. Keeps
      BY <2>7, ResolveKeeps
    <3>2. UNCHANGED <<phase, work, raised>>
      BY <2>7 DEF ResolvePending
    <3>3. \A x \in Resource :
             x \in Somewhere \/ failed[x] # "no" => x \in Somewhere' \/ failed'[x] # "no"
      BY <3>1, FailedStays DEF Keeps
    <3> QED
      BY <3>2, <3>3 DEF LostInv
  <2> QED
    BY <1>3, <2>1, <2>2, <2>3, <2>4, <2>5, <2>6, <2>7 DEF ResourceStep
<1> QED
  BY <1>1, <1>2, <1>3 DEF Next

\* No resource is ever in two places of the providers' lists or twice in one,
\* and none disappears from them unless its failure is on record or the
\* running loop has an exception to raise.
THEOREM ListsIntactHolds == Spec => []ListsIntact
<1>1. Init => LostInv
  BY DEF Init, LostInv, AfterAdd
<1>2. DependencyInv => QuietWhileAdding
  BY DEF DependencyInv
<1>3. PlaceInv /\ TypeOK /\ LostInv => ListsIntact
  <2> SUFFICES ASSUME PlaceInv, TypeOK, LostInv PROVE ListsIntact
    OBVIOUS
  <2>1. OnePlace
    BY PlacesUnique
  <2>2. NothingLost
    BY SomewhereHasPlace DEF LostInv, NothingLost, AfterAdd
  <2> QED
    BY <2>1, <2>2 DEF ListsIntact
<1> QED
  BY <1>1, <1>2, <1>3, DependencyInvariant, PlaceInit, PlaceStep, LostStep, PTL DEF Spec

\* What was never added has no instance, so that its failure counts.
FailInv ==
    /\ \A x \in Resource : x \notin added => notified[x] = 0
    /\ phase # "raised" /\ ~raised =>
          \A x \in Resource : failed[x] # "no" => failedCount[x] > 0

\* A refused add of a resource that is not there counts all its instances.
LEMMA RefusedCounts ==
    ASSUME TypeOK, FailInv, NEW x \in Resource, x \notin added,
           NEW ok \in BOOLEAN, AddResource(x, ok),
           \A y \in Resource : failed[y] # "no" => failedCount[y] > 0
    PROVE  \A y \in Resource : failed'[y] # "no" => failedCount'[y] > 0
<1>1. CASE UNCHANGED <<failed, failedCount>>
  BY <1>1
<1>2. CASE /\ failed' = [failed EXCEPT ![x] = "ADD"]
           /\ failedCount' = [failedCount EXCEPT ![x] = FailedCount(x)]
  <2>1. FailedCount(x) > 0
    BY TopoFacts DEF FailInv, FailedCount
  <2> QED
    BY <1>2, <2>1 DEF TypeOK
<1> QED
  BY <1>1, <1>2 DEF AddResource

LEMMA FailStep == TypeOK /\ PlaceInv /\ LostInv /\ FailInv /\ [Next]_vars => FailInv'
<1> SUFFICES ASSUME TypeOK, PlaceInv, LostInv, FailInv, [Next]_vars PROVE FailInv'
  OBVIOUS
<1> USE DEF vars, loopVars, callVars, eventVars, placeVars, countVars
<1> DEFINE Counted == \A x \in Resource : failed[x] # "no" => failedCount[x] > 0
           Empty == \A x \in Resource : x \notin added => notified[x] = 0
<1>0. Empty /\ (phase # "raised" /\ ~raised => Counted)
  BY DEF FailInv
<1>1. CASE EndLoop \/ SshTest \/ EndRetry \/ EndDrain \/ UNCHANGED vars
  <2>1. UNCHANGED <<added, notified, failed, failedCount>>
    BY <1>1 DEF EndLoop, SshTest, EndRetry, EndDrain
  <2>2. phase' # "raised" => phase # "raised" /\ (~raised' => ~raised)
    BY <1>1 DEF EndLoop, SshTest, EndRetry, EndDrain, Enter, LostInv, LoopPhases, CreatePhases
  <2> QED
    BY <1>0, <2>1, <2>2 DEF FailInv
<1>2. ASSUME NEW r \in Resource, ResourceStep(r) PROVE FailInv'
  <2>1. CASE ValidateResource(r)
    <3>1. UNCHANGED <<added, notified, failedCount>> /\ phase = "validate"
      BY <2>1 DEF ValidateResource
    <3>2. raised' \/ (UNCHANGED <<failed, raised>>)
      BY <2>1 DEF ValidateResource, EndIteration, TypeOK
    <3> QED
      BY <1>0, <3>1, <3>2 DEF FailInv
  <2>2. CASE BeginCreate(r) \/ ResolvePending(r)
    <3>1. UNCHANGED <<added, notified, failed, failedCount, phase, raised>>
      BY <2>2 DEF BeginCreate, ResolvePending
    <3> QED
      BY <1>0, <3>1 DEF FailInv
  <2>3. CASE BeginWait(r) \/ PassOver(r) \/ CallReturns(r)
    <3>1. UNCHANGED <<added, notified, failed, failedCount>>
      BY <2>3 DEF BeginWait, PassOver, CallReturns
    <3>2. phase' = phase /\ (raised => raised')
      BY <2>3, LoopGoesOn
    <3> QED
      BY <1>0, <3>1, <3>2 DEF FailInv
  <2>4. CASE \E d \in Resource : OnCreated(r, d)
    <3>1. PICK d \in Resource : OnCreated(r, d)
      BY <2>4
    <3>2. /\ UNCHANGED <<added, failed, failedCount, phase, raised>>
          /\ d \in added /\ notified' = [notified EXCEPT ![d] = @ + 1]
      BY <3>1 DEF OnCreated
    <3>3. \A x \in Resource : x \notin added' => notified'[x] = 0
      BY <1>0, <3>2 DEF TypeOK
    <3> QED
      BY <1>0, <3>2, <3>3 DEF FailInv
  <2>5. CASE CallFails(r)
    <3>1. raised' /\ UNCHANGED <<added, notified>>
      BY <2>5 DEF CallFails, EndIteration
    <3> QED
      BY <1>0, <3>1 DEF FailInv
  <2>6. CASE AddPhase(r)
    <3>1. PICK ok \in BOOLEAN : AddResource(r, ok) /\ EndIteration(r, ~ok)
      BY <2>6 DEF AddPhase
    <3>2. UNCHANGED notified /\ added \subseteq added' /\ phase = "add" /\ phase' = phase
      BY <2>6, <3>1, AddedBy DEF AddPhase, EndIteration
    <3>3. CASE ok
      <4>1. UNCHANGED <<failed, failedCount>>
        BY <3>1, <3>3 DEF AddResource
      <4>2. ~raised' => ~raised
        BY <3>1, <3>3 DEF EndIteration
      <4> QED
        BY <1>0, <3>2, <4>1, <4>2 DEF FailInv
    <3>4. CASE ~ok
      <4>1. raised'
        BY <3>1, <3>4 DEF EndIteration
      <4> QED
        BY <1>0, <3>2, <4>1 DEF FailInv
    <3> QED
      BY <3>3, <3>4
  <2>7. CASE DrainAdds(r) \/ DrainFails(r)
    <3>1. todo \in Seq(Resource) /\ todo # <<>>
      BY <2>7 DEF DrainAdds, DrainFails, TypeOK
    <3>2. Head(todo) \in Resource /\ Head(todo) \notin added
      <4>1. Head(todo) \in Resource /\ Head(todo) \in Elems(todo)
        BY <3>1, ElemsTail
      <4> QED
        BY <4>1 DEF PlaceInv, ApartInv, Apart
    <3>3. PICK ok \in BOOLEAN : AddResource(Head(todo), ok)
      BY <2>7 DEF DrainAdds, DrainFails
    <3>4. UNCHANGED notified /\ added \subseteq added'
      BY <2>7, <3>3, AddedBy DEF DrainAdds, DrainFails
    <3>5. phase' = phase /\ (raised => raised')
      <4>1. CASE DrainAdds(r)
        BY <4>1 DEF DrainAdds
      <4>2. CASE DrainFails(r)
        BY <4>2, LoopGoesOn
      <4> QED
        BY <2>7, <4>1, <4>2
    <3>6. CASE Counted
      <4>1. Counted'
        BY <3>2, <3>3, <3>6, RefusedCounts
      <4> QED
        BY <1>0, <3>4, <4>1 DEF FailInv
    <3>7. CASE ~Counted
      BY <1>0, <3>4, <3>5, <3>7 DEF FailInv
    <3> QED
      BY <3>6, <3>7
  <2>8. CASE RetryInternal(r)
    <3>1. todoInternal \in Seq(Resource) /\ todoInternal # <<>>
      BY <2>8 DEF RetryInternal, TypeOK
    <3>2. Head(todoInternal) \in Resource /\ Head(todoInternal) \notin added
      <4>1. Head(todoInternal) \in Resource /\ Head(todoInternal) \in Elems(todoInternal)
        BY <3>1, ElemsTail
      <4> QED
        BY <4>1 DEF PlaceInv, ApartInv, Apart
    <3>3. PICK ok \in BOOLEAN : AddResource(Head(todoInternal), ok)
      BY <2>8 DEF RetryInternal
    <3>4. UNCHANGED <<notified, phase, raised>> /\ added \subseteq added'
      BY <2>8, <3>3, AddedBy DEF RetryInternal
    <3>5. CASE Counted
      <4>1. Counted'
        BY <3>2, <3>3, <3>5, RefusedCounts
      <4> QED
        BY <1>0, <3>4, <4>1 DEF FailInv
    <3>6. CASE ~Counted
      BY <1>0, <3>4, <3>6 DEF FailInv
    <3> QED
      BY <3>5, <3>6
  <2> QED
    BY <1>2, <2>1, <2>2, <2>3, <2>4, <2>5, <2>6, <2>7, <2>8 DEF ResourceStep
<1> QED
  BY <1>1, <1>2 DEF Next

\* When an apply comes to its end without an exception, each resource that
\* was refused on the way has a failed count to show for it.
THEOREM FailuresSurfaceHolds == Spec => []FailuresSurface
<1>1. Init => LostInv
  BY DEF Init, LostInv, AfterAdd
<1>2. Init => FailInv
  BY DEF Init, FailInv
<1>3. DependencyInv => QuietWhileAdding
  BY DEF DependencyInv
<1>4. LostInv /\ FailInv => FailuresSurface
  BY DEF LostInv, FailInv, FailuresSurface
<1> QED
  BY <1>1, <1>2, <1>3, <1>4, DependencyInvariant, PlaceInit, PlaceStep, LostStep, FailStep, PTL
  DEF Spec
=============================================================================
