------------------------- MODULE Controller_proofs -------------------------
(***************************************************************************)
(* Proofs about what surrounds an apply: the order resources are processed *)
(* in, the address ranges networks are given, the ports at which they are  *)
(* stitched, and what applies and destroys leave behind.                   *)
(***************************************************************************)
EXTENDS Ordering, Partition, Stitch, Teardown, FiniteSetTheorems, SequenceTheorems,
        WellFoundedInduction, TLAPS

-----------------------------------------------------------------------------
(* Ordering, for every set of resources and every way they may refer to    *)
(* one another: the order that the parser returns respects the references, *)
(* which is the order that the workflows of Orchestrator and Teardown are  *)
(* assumed to be given in, and an error of the loop is due to a cycle.     *)
(*                                                                         *)
(* The invariant relates the map of order_resources to the list: the map   *)
(* holds the resources that are not in the list, each with those of its    *)
(* references that are not in the list.  A resource with nothing left in   *)
(* the map therefore refers only to resources that are in the list.        *)

\* The list holds no resource twice.
NoRepeats == \A i, j \in 1..Len(ordered) : ordered[i] = ordered[j] => i = j

OrderingInv ==
    /\ OrderingTypeOK /\ MapInv /\ DependenciesFirst /\ NoRepeats
    /\ parsing \in {"evaluate", "not found"} => ordered = <<>>
    /\ parsing = "ordered" => Waiting = {}
    /\ parsing = "circular" =>
          Waiting # {} /\ \A r \in Waiting : dependencyMap[r] # {}

\* What the list holds after an Append.
LEMMA DoneAppend ==
    ASSUME ordered \in Seq(ConfigResource), NEW r \in ConfigResource,
           ordered' = Append(ordered, r)
    PROVE  /\ Done' = Done \cup {r}
           /\ ordered' \in Seq(ConfigResource)
           /\ Len(ordered') = Len(ordered) + 1
           /\ \A i \in 1..Len(ordered) : ordered'[i] = ordered[i]
           /\ ordered'[Len(ordered) + 1] = r
<1>1. /\ Len(ordered) \in Nat
      /\ ordered' \in Seq(ConfigResource)
      /\ Len(ordered') = Len(ordered) + 1
      /\ \A i \in 1..Len(ordered) : ordered'[i] = ordered[i]
      /\ ordered'[Len(ordered) + 1] = r
  OBVIOUS
<1>2. 1..Len(ordered') = 1..Len(ordered) \cup {Len(ordered) + 1}
  BY <1>1
<1>3. Done' = {ordered'[i] : i \in 1..Len(ordered)} \cup {ordered'[Len(ordered) + 1]}
  BY <1>2 DEF Done
<1> QED
  BY <1>1, <1>3 DEF Done

LEMMA OrderingInitInv == OrderingInit => OrderingInv
<1> SUFFICES ASSUME OrderingInit PROVE OrderingInv
  OBVIOUS
<1>1. ordered = <<>> /\ Len(ordered) = 0 /\ 1..Len(ordered) = {}
  BY DEF OrderingInit
<1>2. OrderingTypeOK
  BY DEF OrderingInit, OrderingTypeOK, Waiting
<1> QED
  BY <1>1, <1>2 DEF OrderingInit, OrderingInv, MapInv, DependenciesFirst, NoRepeats

\* The first map: nothing is in the list yet, and every reference was found.
LEMMA EvaluateKeepsInv == OrderingInv /\ Evaluate => OrderingInv'
<1> SUFFICES ASSUME OrderingInv, Evaluate PROVE OrderingInv'
  OBVIOUS
<1>1. ordered = <<>> /\ Done = {} /\ 1..Len(ordered) = {} /\ ordered' = ordered
  <2>1. ordered = <<>> /\ ordered' = ordered
    BY DEF Evaluate, OrderingInv
  <2>2. 1..Len(ordered) = {}
    BY <2>1
  <2> QED
    BY <2>1, <2>2 DEF Done
<1>2. CASE \A r \in counted : refers[r] \subseteq counted
  <2>1. /\ dependencyMap' = [r \in counted |-> refers[r]] /\ parsing' = "order"
        /\ refers' = refers /\ counted' = counted
    BY <1>2 DEF Evaluate
  <2>2. Waiting' = counted /\ Done' = {}
    BY <1>1, <2>1 DEF Waiting, Done
  <2>3. OrderingTypeOK'
    BY <1>1, <2>1, <2>2 DEF OrderingInv, OrderingTypeOK
  <2>4. MapInv'
    BY <1>2, <2>1, <2>2 DEF MapInv, Waiting
  <2> QED
    BY <1>1, <2>1, <2>3, <2>4 DEF OrderingInv, DependenciesFirst, NoRepeats
<1>3. CASE ~ \A r \in counted : refers[r] \subseteq counted
  <2>1. /\ parsing' = "not found" /\ dependencyMap' = dependencyMap
        /\ refers' = refers /\ counted' = counted
    BY <1>3 DEF Evaluate
  <2>2. OrderingTypeOK'
    BY <1>1, <2>1 DEF OrderingInv, OrderingTypeOK, Waiting
  <2> QED
    BY <1>1, <2>1, <2>2 DEF OrderingInv, MapInv, DependenciesFirst, NoRepeats
<1> QED
  BY <1>2, <1>3

\* A resource that is taken refers only to what the list already holds.
LEMMA TakeKeepsInv ==
    ASSUME NEW r \in ConfigResource, OrderingInv, Take(r)
    PROVE  OrderingInv'
<1>1. /\ parsing = "order" /\ r \in Waiting /\ dependencyMap[r] = {}
      /\ ordered' = Append(ordered, r)
      /\ dependencyMap' = [x \in Waiting \ {r} |-> dependencyMap[x] \ {r}]
      /\ refers' = refers /\ counted' = counted /\ parsing' = parsing
  BY DEF Take, Unblocked
<1>2. /\ Done' = Done \cup {r}
      /\ ordered' \in Seq(ConfigResource)
      /\ Len(ordered') = Len(ordered) + 1 /\ Len(ordered) \in Nat
      /\ \A i \in 1..Len(ordered) : ordered'[i] = ordered[i]
      /\ ordered'[Len(ordered) + 1] = r
  BY <1>1, DoneAppend DEF OrderingInv, OrderingTypeOK
<1>3. /\ Waiting = counted \ Done /\ Done \subseteq counted
      /\ \A x \in Waiting : dependencyMap[x] = refers[x] \ Done
      /\ \A x \in counted : refers[x] \subseteq counted
  BY <1>1 DEF OrderingInv, MapInv
<1>4. Waiting' = Waiting \ {r}
  BY <1>1 DEF Waiting
<1>5. OrderingTypeOK'
  <2>1. dependencyMap' \in [Waiting' -> SUBSET ConfigResource]
    BY <1>1, <1>4 DEF OrderingInv, OrderingTypeOK
  <2> QED
    BY <1>1, <1>2, <1>4, <2>1 DEF OrderingInv, OrderingTypeOK
<1>6. MapInv'
  BY <1>1, <1>2, <1>3, <1>4 DEF MapInv
<1>7. DependenciesFirst'
  <2> SUFFICES ASSUME NEW i \in 1..Len(ordered'), NEW d \in refers[ordered'[i]]
               PROVE  \E j \in 1..(i - 1) : ordered'[j] = d
    BY <1>1 DEF DependenciesFirst
  <2>1. CASE i \in 1..Len(ordered)
    <3>1. PICK j \in 1..(i - 1) : ordered[j] = d
      BY <1>2, <2>1 DEF OrderingInv, DependenciesFirst
    <3> QED
      BY <1>2, <2>1, <3>1
  <2>2. CASE i = Len(ordered) + 1
    <3>1. d \in refers[r]
      BY <1>2, <2>2
    <3>2. refers[r] \subseteq Done
      BY <1>1, <1>3
    <3>3. PICK j \in 1..Len(ordered) : ordered[j] = d
      BY <3>1, <3>2 DEF Done
    <3> QED
      BY <1>2, <2>2, <3>3
  <2> QED
    BY <1>2, <2>1, <2>2
<1>8. NoRepeats'
  <2>1. \A i \in 1..Len(ordered) : ordered[i] # r
    BY <1>1, <1>3 DEF Done
  <2>2. \A i, j \in 1..Len(ordered) : ordered[i] = ordered[j] => i = j
    BY DEF OrderingInv, NoRepeats
  <2> SUFFICES ASSUME NEW i \in 1..Len(ordered'), NEW j \in 1..Len(ordered'),
                      ordered'[i] = ordered'[j]
               PROVE  i = j
    BY DEF NoRepeats
  <2>3. CASE i \in 1..Len(ordered) /\ j \in 1..Len(ordered)
    BY <1>2, <2>2, <2>3
  <2>4. CASE i = Len(ordered) + 1 \/ j = Len(ordered) + 1
    BY <1>2, <2>1, <2>4
  <2> QED
    BY <1>2, <2>3, <2>4
<1> QED
  BY <1>1, <1>5, <1>6, <1>7, <1>8 DEF OrderingInv

LEMMA EndKeepsInv == OrderingInv /\ EndOrdering => OrderingInv'
<1> SUFFICES ASSUME OrderingInv, EndOrdering PROVE OrderingInv'
  OBVIOUS
<1>1. /\ parsing = "order" /\ \A r \in Waiting : dependencyMap[r] # {}
      /\ parsing' = IF Waiting = {} THEN "ordered" ELSE "circular"
      /\ refers' = refers /\ counted' = counted
      /\ dependencyMap' = dependencyMap /\ ordered' = ordered
  BY DEF EndOrdering, Unblocked
<1>2. Waiting' = Waiting /\ Done' = Done
  BY <1>1 DEF Waiting, Done
<1>3. OrderingTypeOK'
  BY <1>1, <1>2 DEF OrderingInv, OrderingTypeOK
<1>4. MapInv' /\ DependenciesFirst' /\ NoRepeats'
  BY <1>1, <1>2 DEF OrderingInv, MapInv, DependenciesFirst, NoRepeats
<1> QED
  BY <1>1, <1>2, <1>3, <1>4 DEF OrderingInv

LEMMA OrderingInvStep == OrderingInv /\ [OrderingNext]_orderingVars => OrderingInv'
<1> SUFFICES ASSUME OrderingInv, [OrderingNext]_orderingVars PROVE OrderingInv'
  OBVIOUS
<1>1. CASE Evaluate
  BY <1>1, EvaluateKeepsInv
<1>2. ASSUME NEW r \in ConfigResource, Take(r) PROVE OrderingInv'
  BY <1>2, TakeKeepsInv
<1>3. CASE EndOrdering
  BY <1>3, EndKeepsInv
<1>4. CASE UNCHANGED orderingVars
  <2>1. /\ refers' = refers /\ counted' = counted /\ dependencyMap' = dependencyMap
        /\ ordered' = ordered /\ parsing' = parsing
    BY <1>4 DEF orderingVars
  <2>2. Waiting' = Waiting /\ Done' = Done
    BY <2>1 DEF Waiting, Done
  <2>3. OrderingTypeOK'
    BY <2>1, <2>2 DEF OrderingInv, OrderingTypeOK
  <2>4. MapInv'
    BY <2>1, <2>2 DEF OrderingInv, MapInv
  <2>5. DependenciesFirst'
    <3>1. DependenciesFirst
      BY DEF OrderingInv
    <3> SUFFICES ASSUME NEW i \in 1..Len(ordered), NEW d \in refers[ordered[i]]
                 PROVE  \E j \in 1..(i - 1) : ordered[j] = d
      BY <2>1 DEF DependenciesFirst
    <3> QED
      BY <3>1 DEF DependenciesFirst
  <2>6. NoRepeats'
    BY ZenonT(30), <2>1 DEF OrderingInv, NoRepeats
  <2> QED
    BY <2>1, <2>2, <2>3, <2>4, <2>5, <2>6 DEF OrderingInv
<1> QED
  BY <1>1, <1>2, <1>3, <1>4 DEF OrderingNext

\* The order of the parser is one that respects every reference: Controller.add
\* and Controller.apply meet a resource after all that it depends on.
THEOREM DependenciesFirstHolds == OrderingSpec => []DependenciesFirst
<1>1. OrderingInv => DependenciesFirst
  BY DEF OrderingInv
<1> QED
  BY <1>1, OrderingInitInv, OrderingInvStep, PTL DEF OrderingSpec

\* No resource of the configuration is lost on the way, and none comes twice.
THEOREM AllOnceHolds == OrderingSpec => []AllOnce
<1>1. OrderingInv => AllOnce
  BY DEF OrderingInv, AllOnce, MapInv, NoRepeats
<1> QED
  BY <1>1, OrderingInitInv, OrderingInvStep, PTL DEF OrderingSpec

\* A configuration is refused as circular only if it is: among the resources
\* that are left, each refers to another one that is left.
THEOREM CircularIsCircularHolds == OrderingSpec => []CircularIsCircular
<1>1. ASSUME OrderingInv, parsing = "circular"
      PROVE  /\ counted \ Done # {}
             /\ \A r \in counted \ Done : refers[r] \cap (counted \ Done) # {}
  <2>1. /\ Waiting = counted \ Done /\ Waiting # {}
        /\ \A r \in Waiting : dependencyMap[r] = refers[r] \ Done /\ dependencyMap[r] # {}
        /\ \A r \in counted : refers[r] \subseteq counted
    BY <1>1 DEF OrderingInv, MapInv
  <2> QED
    BY <2>1
<1>2. OrderingInv => CircularIsCircular
  BY <1>1 DEF CircularIsCircular
<1> QED
  BY <1>2, OrderingInitInv, OrderingInvStep, PTL DEF OrderingSpec

\* All that the controller relies on: the order in which it creates, and the
\* exception when there is none, are right for every configuration.
THEOREM OrderIsSoundHolds == OrderingSpec => []OrderIsSound
<1>1. DependenciesFirst /\ AllOnce /\ CircularIsCircular => OrderIsSound
  BY DEF OrderIsSound
<1> QED
  BY <1>1, DependenciesFirstHolds, AllOnceHolds, CircularIsCircularHolds, PTL

-----------------------------------------------------------------------------
(* The ranges of Partition, for every range and every number of networks.  *)
(* A range starts after the previous one and no later than one address     *)
(* past the end of the whole: there it is empty, and so are those after    *)
(* it.  This is why ranges never meet although their ends are capped.      *)

StartInv ==
    /\ dividing \in {"divide", "divided"} =>
          /\ rangeStart <= rangeEnd
          /\ rangeStart <= dhcpStart /\ dhcpStart <= rangeEnd + 1
    /\ dividing \in {"populate", "shared"} => leases = <<>>

Ascending ==
    /\ \A i \in 1..Len(leases) : leases[i].end < dhcpStart
    /\ \A i, j \in 1..Len(leases) : i < j => leases[i].end < leases[j].start

PartitionInv == PartitionTypeOK /\ StartInv /\ Ascending /\ LeasesInside

\* The bounds of a range are integers.
LEMMA LeaseBounds ==
    ASSUME PartitionTypeOK, NEW i \in 1..Len(leases)
    PROVE  leases[i].start \in Int /\ leases[i].end \in Int
<1> DEFINE Lease == [start : Int, end : Int]
<1>1. leases \in Seq(Lease)
  BY DEF PartitionTypeOK
<1>2. leases[i] \in Lease
  <2> HIDE DEF Lease
  <2> QED
    BY <1>1
<1> QED
  BY <1>2

LEMMA PartitionInitInv == PartitionInit => PartitionInv
<1> SUFFICES ASSUME PartitionInit PROVE PartitionInv
  OBVIOUS
<1>1. leases = <<>> /\ 1..Len(leases) = {}
  BY DEF PartitionInit
<1>2. PartitionTypeOK
  BY PartitionAssumption DEF PartitionInit, PartitionTypeOK, NotGiven
<1> QED
  BY <1>1, <1>2 DEF PartitionInit, PartitionInv, StartInv, Ascending, LeasesInside

LEMMA PopulateKeepsInv == PartitionInv /\ Populate => PartitionInv'
<1> SUFFICES ASSUME PartitionInv, Populate PROVE PartitionInv'
  OBVIOUS
<1>1. leases = <<>> /\ leases' = leases /\ 1..Len(leases') = {}
  <2>1. leases = <<>> /\ leases' = leases
    BY DEF PartitionInv, StartInv, Populate
  <2> QED
    BY <2>1
<1>2. PartitionTypeOK'
  BY <1>1, PartitionAssumption DEF PartitionInv, PartitionTypeOK, Populate
<1>3. StartInv'
  BY <1>1, <1>2 DEF StartInv, Populate, PartitionTypeOK
<1> QED
  BY <1>1, <1>2, <1>3 DEF PartitionInv, Ascending, LeasesInside

\* The share of a network is a natural number, and so its range ends no
\* earlier than one address before its start, and never past the whole.
LEMMA EndOfRange ==
    ASSUME PartitionInv, dividing = "divide"
    PROVE  /\ EndOf(dhcpStart) \in Int
           /\ dhcpStart - 1 <= EndOf(dhcpStart)
           /\ EndOf(dhcpStart) <= rangeEnd
<1>1. /\ rangeStart \in Int /\ rangeEnd \in Int /\ dhcpStart \in Int
      /\ sharing \in Nat \ {0}
      /\ rangeStart <= rangeEnd /\ dhcpStart <= rangeEnd + 1
  BY PartitionAssumption DEF PartitionInv, PartitionTypeOK, StartInv
<1>2. Interval \in Nat
  <2>1. rangeEnd - rangeStart \in Nat
    BY <1>1
  <2>2. \A a \in Nat, b \in Nat \ {0} : a \div b \in Nat
    OBVIOUS
  <2> QED
    BY <1>1, <2>1, <2>2 DEF Interval
<1> QED
  BY <1>1, <1>2 DEF EndOf

LEMMA GiveKeepsInv == PartitionInv /\ Give => PartitionInv'
<1> SUFFICES ASSUME PartitionInv, Give PROVE PartitionInv'
  OBVIOUS
<1> DEFINE lease == [start |-> dhcpStart, end |-> EndOf(dhcpStart)]
           n == Len(leases)
<1>1. /\ dividing = "divide" /\ dividing' \in {"divide", "divided"}
      /\ leases' = Append(leases, lease)
      /\ dhcpStart' = EndOf(dhcpStart) + 1
      /\ rangeStart' = rangeStart /\ rangeEnd' = rangeEnd
      /\ sharing' = sharing /\ masked' = masked
  BY DEF Give, NextStart, given
<1>2. /\ EndOf(dhcpStart) \in Int /\ dhcpStart - 1 <= EndOf(dhcpStart)
      /\ EndOf(dhcpStart) <= rangeEnd
  BY <1>1, EndOfRange
<1>3. /\ leases \in Seq([start : Int, end : Int]) /\ dhcpStart \in Int /\ n \in Nat
      /\ rangeStart \in Int /\ rangeEnd \in Int
      /\ rangeStart <= dhcpStart /\ rangeStart <= rangeEnd
  BY <1>1 DEF PartitionInv, PartitionTypeOK, StartInv
<1>4. lease \in [start : Int, end : Int]
  BY <1>2, <1>3
<1>5. /\ leases' \in Seq([start : Int, end : Int])
      /\ Len(leases') = n + 1
      /\ \A i \in 1..n : leases'[i] = leases[i]
      /\ leases'[n + 1] = lease
  BY <1>1, <1>3, <1>4
<1>6. /\ lease.start = dhcpStart /\ lease.end = EndOf(dhcpStart)
      /\ \A i \in 1..n : leases[i].end \in Int /\ leases[i].start \in Int
  BY LeaseBounds DEF PartitionInv
<1> HIDE DEF lease, n
<1>7. PartitionTypeOK'
  BY <1>1, <1>2, <1>5 DEF PartitionInv, PartitionTypeOK
<1>8. StartInv'
  BY <1>1, <1>2, <1>3 DEF StartInv
<1>9. Ascending'
  <2>1. /\ \A i \in 1..n : leases[i].end < dhcpStart
        /\ \A i, j \in 1..n : i < j => leases[i].end < leases[j].start
    BY DEF PartitionInv, Ascending, n
  <2>2. \A i \in 1..(n + 1) : leases'[i].end < dhcpStart'
    <3> SUFFICES ASSUME NEW i \in 1..(n + 1) PROVE leases'[i].end < dhcpStart'
      OBVIOUS
    <3>1. CASE i \in 1..n
      BY SMTT(30), <1>1, <1>2, <1>3, <1>5, <1>6, <2>1, <3>1
    <3>2. CASE i = n + 1
      BY <1>1, <1>2, <1>5, <1>6, <3>2
    <3> QED
      BY <1>3, <3>1, <3>2
  <2>3. \A i, j \in 1..(n + 1) : i < j => leases'[i].end < leases'[j].start
    <3> SUFFICES ASSUME NEW i \in 1..(n + 1), NEW j \in 1..(n + 1), i < j
                 PROVE  leases'[i].end < leases'[j].start
      OBVIOUS
    <3>0. i \in 1..n
      BY <1>3
    <3>1. CASE j \in 1..n
      BY <1>5, <2>1, <3>0, <3>1
    <3>2. CASE j = n + 1
      <4>1. leases'[i].end < dhcpStart
        BY <1>5, <2>1, <3>0
      <4> QED
        BY <1>5, <1>6, <3>2, <4>1
    <3> QED
      BY <1>3, <3>1, <3>2
  <2> QED
    BY <1>5, <2>2, <2>3 DEF Ascending
<1>10. LeasesInside'
  <2>1. \A i \in 1..n : leases[i].start >= rangeStart /\ leases[i].end <= rangeEnd
    BY DEF PartitionInv, LeasesInside, n
  <2> SUFFICES ASSUME NEW i \in 1..(n + 1)
               PROVE  leases'[i].start >= rangeStart /\ leases'[i].end <= rangeEnd
    BY <1>1, <1>5 DEF LeasesInside
  <2>2. CASE i \in 1..n
    BY <1>5, <2>1, <2>2
  <2>3. CASE i = n + 1
    BY <1>2, <1>3, <1>5, <1>6, <2>3
  <2> QED
    BY <1>3, <2>2, <2>3
<1> QED
  BY <1>7, <1>8, <1>9, <1>10 DEF PartitionInv

LEMMA PartitionInvStep == PartitionInv /\ [PartitionNext]_partitionVars => PartitionInv'
<1> SUFFICES ASSUME PartitionInv, [PartitionNext]_partitionVars PROVE PartitionInv'
  OBVIOUS
<1>1. CASE Populate
  BY <1>1, PopulateKeepsInv
<1>2. CASE Give
  BY <1>2, GiveKeepsInv
<1>3. CASE UNCHANGED partitionVars
  <2>1. /\ sharing' = sharing /\ rangeStart' = rangeStart /\ rangeEnd' = rangeEnd
        /\ masked' = masked /\ dhcpStart' = dhcpStart /\ leases' = leases
        /\ dividing' = dividing
    BY <1>3 DEF partitionVars
  <2>2. PartitionTypeOK' /\ StartInv'
    BY <2>1 DEF PartitionInv, PartitionTypeOK, StartInv
  <2>3. Ascending' /\ LeasesInside'
    BY <2>1 DEF PartitionInv, Ascending, LeasesInside
  <2> QED
    BY <2>2, <2>3 DEF PartitionInv
<1> QED
  BY <1>1, <1>2, <1>3 DEF PartitionNext

\* Networks that share a layer 3 configuration never share an address of it.
THEOREM LeasesApartHolds == PartitionSpec => []LeasesApart
<1>1. PartitionInv => LeasesApart
  <2> SUFFICES ASSUME PartitionInv, NEW i \in 1..Len(leases), NEW j \in 1..Len(leases),
                      i < j, NEW x \in leases[i].start..leases[i].end
               PROVE  x \notin leases[j].start..leases[j].end
    BY DEF LeasesApart
  <2>1. /\ leases[i].end \in Int /\ leases[i].start \in Int
        /\ leases[j].end \in Int /\ leases[j].start \in Int
    BY LeaseBounds DEF PartitionInv
  <2>2. leases[i].end < leases[j].start
    BY DEF PartitionInv, Ascending
  <2> QED
    BY <2>1, <2>2
<1> QED
  BY <1>1, PartitionInitInv, PartitionInvStep, PTL DEF PartitionSpec

\* No network is given an address from outside of the range.
THEOREM LeasesInsideHolds == PartitionSpec => []LeasesInside
<1>1. PartitionInv => LeasesInside
  BY DEF PartitionInv
<1> QED
  BY <1>1, PartitionInitInv, PartitionInvStep, PTL DEF PartitionSpec

-----------------------------------------------------------------------------
(* When there is plenty, nobody is left without an address: with n networks *)
(* and at least n * (n - 1) + 1 addresses a share is at least n - 1, so that *)
(* the one address more that each of the first n - 1 takes is made up for by *)
(* the share of the last.                                                  *)

LEMMA TimesOrder ==
    ASSUME NEW a \in Nat, NEW b \in Nat, NEW c \in Nat, a <= b
    PROVE  a * c <= b * c
<1>1. (b - a) * c >= 0
  <2>1. b - a \in Nat
    OBVIOUS
  <2>2. \A x, y \in Nat : x * y >= 0
    OBVIOUS
  <2> QED
    BY <2>1, <2>2
<1>2. (b - a) * c = b * c - a * c
  OBVIOUS
<1> QED
  BY <1>1, <1>2

LEMMA Share ==
    ASSUME NEW n \in Nat \ {0}, NEW d \in Nat, NEW q, q = d \div n
    PROVE  q \in Nat /\ n * q <= d /\ d < n * q + n
  OBVIOUS

LEMMA Plenty ==
    ASSUME NEW n \in Nat \ {0}, NEW d \in Nat, d >= n * (n - 1), NEW m \in Nat, m < n,
           NEW q, q = d \div n
    PROVE  q \in Nat /\ m * q + m <= d
<1>1. q \in Nat /\ n * q <= d /\ d < n * q + n
  BY Share
<1>2. q >= n - 1
  <2> SUFFICES ASSUME q < n - 1 PROVE FALSE
    BY <1>1
  <2>1. (q + 1) * n <= (n - 1) * n
    <3>1. q + 1 \in Nat /\ n - 1 \in Nat /\ q + 1 <= n - 1
      BY <1>1
    <3> QED
      BY <3>1, TimesOrder
  <2>2. (q + 1) * n = n * q + n /\ (n - 1) * n = n * (n - 1)
    BY <1>1
  <2>3. n * q \in Int /\ n * (n - 1) \in Int
    BY <1>1
  <2> QED
    BY <1>1, <2>1, <2>2, <2>3
<1>3. m * q <= (n - 1) * q
  <2>1. n - 1 \in Nat /\ m <= n - 1
    OBVIOUS
  <2> QED
    BY <1>1, <2>1, TimesOrder
<1>4. (n - 1) * q = n * q - q
  BY <1>1
<1>5. m * q \in Int /\ n * q \in Int
  BY <1>1
<1> QED
  BY <1>1, <1>2, <1>3, <1>4, <1>5

ServedInv ==
    dividing \in {"divide", "divided"} /\ rangeEnd - rangeStart >= sharing * (sharing - 1) =>
        /\ dividing = "divide" => Len(leases) < sharing
        /\ dhcpStart <= rangeStart + Len(leases) * Interval + Len(leases)
        /\ \A i \in 1..Len(leases) : leases[i].start <= leases[i].end

LEMMA PopulateServes == PartitionInv /\ Populate => ServedInv'
<1> SUFFICES ASSUME PartitionInv, Populate, dividing' \in {"divide", "divided"}
             PROVE  /\ dividing' = "divide" => Len(leases') < sharing'
                    /\ dhcpStart' <= rangeStart' + Len(leases') * Interval' + Len(leases')
                    /\ \A i \in 1..Len(leases') : leases'[i].start <= leases'[i].end
  BY DEF ServedInv
<1>1. leases' = <<>>
  BY DEF PartitionInv, StartInv, Populate
<1>2. Len(leases') = 0 /\ 1..Len(leases') = {}
  BY <1>1
<1>3. /\ sharing' = sharing /\ sharing \in Nat \ {0} /\ dhcpStart' = rangeStart'
      /\ rangeStart' \in Int /\ rangeEnd' \in Int /\ rangeStart' <= rangeEnd'
  BY PartitionAssumption DEF Populate, PartitionInv, PartitionTypeOK
<1>4. Interval' \in Nat
  <2>1. \A a, b \in Int : a <= b => b - a \in Nat
    OBVIOUS
  <2>2. (rangeEnd - rangeStart)' \in Nat
    BY <1>3, <2>1
  <2> QED
    BY <1>3, <2>2, Share DEF Interval
<1>5. 0 * Interval' = 0
  <2>1. \A x \in Nat : 0 * x = 0
    OBVIOUS
  <2> QED
    BY <1>4, <2>1
<1>6. Len(leases') < sharing'
  BY <1>2, <1>3
<1>7. dhcpStart' <= rangeStart' + Len(leases') * Interval' + Len(leases')
  BY <1>2, <1>3, <1>5
<1> QED
  BY <1>2, <1>6, <1>7

LEMMA GiveServes == PartitionInv /\ ServedInv /\ Give => ServedInv'
<1> DEFINE lease == [start |-> dhcpStart, end |-> EndOf(dhcpStart)]
           m == Len(leases)
           d == rangeEnd - rangeStart
<1> SUFFICES ASSUME PartitionInv, ServedInv, Give,
                    rangeEnd' - rangeStart' >= sharing' * (sharing' - 1)
             PROVE  /\ dividing' = "divide" => Len(leases') < sharing'
                    /\ dhcpStart' <= rangeStart' + Len(leases') * Interval' + Len(leases')
                    /\ \A i \in 1..Len(leases') : leases'[i].start <= leases'[i].end
  BY DEF ServedInv
<1>1. /\ dividing = "divide" /\ m < sharing
      /\ dividing' = IF m + 1 = sharing THEN "divided" ELSE "divide"
      /\ leases' = Append(leases, lease) /\ dhcpStart' = EndOf(dhcpStart) + 1
      /\ rangeStart' = rangeStart /\ rangeEnd' = rangeEnd /\ sharing' = sharing
  BY DEF Give, NextStart, given
<1>2. /\ sharing \in Nat \ {0} /\ rangeStart \in Int /\ rangeEnd \in Int /\ dhcpStart \in Int
      /\ rangeStart <= rangeEnd /\ m \in Nat /\ leases \in Seq([start : Int, end : Int])
  BY <1>1, PartitionAssumption DEF PartitionInv, PartitionTypeOK, StartInv
<1>3. d \in Nat /\ d >= sharing * (sharing - 1)
  BY <1>1, <1>2
<1>4. Interval = d \div sharing /\ Interval' = Interval
  BY <1>1 DEF Interval
<1>5. Interval \in Nat /\ m * Interval + m <= d
  BY <1>1, <1>2, <1>3, <1>4, Plenty
<1>6. /\ dhcpStart <= rangeStart + m * Interval + m
      /\ \A i \in 1..m : leases[i].start <= leases[i].end
  BY <1>1, <1>3 DEF ServedInv
<1>7. dhcpStart <= rangeEnd
  <2>1. m * Interval \in Int
    BY <1>2, <1>5
  <2> QED
    BY <1>2, <1>5, <1>6, <2>1
<1>8. /\ EndOf(dhcpStart) \in Int /\ dhcpStart <= EndOf(dhcpStart)
      /\ EndOf(dhcpStart) <= dhcpStart + Interval
  BY <1>2, <1>5, <1>7 DEF EndOf
<1>9. /\ Len(leases') = m + 1
      /\ \A i \in 1..m : leases'[i] = leases[i]
      /\ leases'[m + 1].start = dhcpStart /\ leases'[m + 1].end = EndOf(dhcpStart)
  BY <1>1, <1>2
<1>10. (m + 1) * Interval = m * Interval + Interval /\ m * Interval \in Int
  BY <1>2, <1>5
<1> HIDE DEF lease, m, d
<1>11. dhcpStart' <= rangeStart' + Len(leases') * Interval' + Len(leases')
  <2>1. dhcpStart' <= rangeStart + (m + 1) * Interval + (m + 1)
    BY <1>1, <1>2, <1>5, <1>6, <1>8, <1>10
  <2> QED
    BY <1>1, <1>4, <1>9, <2>1
<1>12. ASSUME NEW i \in 1..Len(leases') PROVE leases'[i].start <= leases'[i].end
  <2>1. i \in 1..m \/ i = m + 1
    BY <1>2, <1>9
  <2> QED
    BY SMTT(30), <1>6, <1>8, <1>9, <2>1
<1>13. dividing' = "divide" => Len(leases') < sharing'
  BY <1>1, <1>2, <1>9
<1> QED
  BY <1>11, <1>12, <1>13

LEMMA ServedStep ==
    PartitionInv /\ ServedInv /\ [PartitionNext]_partitionVars => ServedInv'
<1> SUFFICES ASSUME PartitionInv, ServedInv, [PartitionNext]_partitionVars PROVE ServedInv'
  OBVIOUS
<1>1. CASE Populate
  BY <1>1, PopulateServes
<1>2. CASE Give
  BY <1>2, GiveServes
<1>3. CASE UNCHANGED partitionVars
  BY <1>3 DEF partitionVars, ServedInv, Interval
<1> QED
  BY <1>1, <1>2, <1>3 DEF PartitionNext

\* The ranges that the networks get are apart and inside, and when there are
\* plenty of addresses none of them is empty.
THEOREM LeasesAreSoundHolds == PartitionSpec => []LeasesAreSound
<1>1. PartitionInit => ServedInv
  BY DEF PartitionInit, ServedInv
<1>2. PartitionInv /\ ServedInv => EveryoneServed
  BY DEF ServedInv, EveryoneServed
<1>3. LeasesApart /\ LeasesInside /\ EveryoneServed => LeasesAreSound
  BY DEF LeasesAreSound
<1>4. PartitionSpec => []PartitionInv
  BY PartitionInitInv, PartitionInvStep, PTL DEF PartitionSpec
<1> QED
  BY <1>1, <1>2, <1>3, <1>4, ServedStep, LeasesApartHolds, LeasesInsideHolds, PTL
  DEF PartitionSpec

-----------------------------------------------------------------------------
(* Teardown, for every workflow: type correctness, and that a destroy can  *)
(* always be started, however many applies failed or were killed and       *)
(* however many destroys failed or were interrupted, when no instance is   *)
(* reported twice.                                                         *)

LEMMA ResourceInt == Resource \subseteq Int
BY DEF Resource

LEMMA TopoFacts ==
    ASSUME topo \in Topology
    PROVE  \A r \in Resource :
              /\ External(r) \subseteq Resource
              /\ \A d \in External(r) : d < r
BY TeardownAssumption DEF External

LEMMA InitType == Init => TypeOK
<1> SUFFICES ASSUME Init PROVE TypeOK
  OBVIOUS
<1>1. 0 \in 0..MaxFailedApplies
  BY TeardownAssumption
<1> QED
  BY <1>1 DEF Init, TypeOK

\* The counts an apply may leave are counts of the file's type.
LEMMA CountsType == Counts \subseteq [Resource -> 0..2]
BY DEF Counts

LEMMA ReconciledType ==
    ASSUME TypeOK, NEW c \in Counts
    PROVE  Reconciled(c) \subseteq Resource
BY DEF Reconciled, Kept, TypeOK

LEMMA TypeStep == TypeOK /\ [Next]_vars => TypeOK'
<1> SUFFICES ASSUME TypeOK, [Next]_vars PROVE TypeOK'
  OBVIOUS
<1> USE DEF TypeOK
<1>1. ASSUME NEW c \in Counts, NEW f \in SUBSET MayFail(c), Apply(c, f)
      PROVE  TypeOK'
  <2>1. c \in [Resource -> 0..2] /\ f \subseteq Resource
    BY CountsType DEF MayFail
  <2>2. Reconciled(c) \subseteq Resource
    BY ReconciledType
  <2>3. failures' \in 0..MaxFailedApplies
    BY <1>1, TeardownAssumption DEF Apply
  <2>4. exists' \subseteq Resource
    BY <1>1 DEF Apply
  <2> QED
    BY <1>1, <2>1, <2>2, <2>3, <2>4 DEF Apply, loop
<1>2. ASSUME NEW c \in Counts, ApplyKilled(c)
      PROVE  TypeOK'
  <2>1. failures' \in 0..MaxFailedApplies
    BY <1>2, TeardownAssumption DEF ApplyKilled
  <2> QED
    BY <1>2, <2>1 DEF ApplyKilled, loop, disk
<1>3. CASE StartDestroy
  BY <1>3 DEF StartDestroy, disk
<1>4. ASSUME NEW r \in Resource, Skip(r) PROVE TypeOK'
  <2>1. DependencyLabels(r) \subseteq Resource
    BY TopoFacts DEF DependencyLabels
  <2> QED
    BY <1>4, <2>1 DEF Skip, Stays, IsNext, disk
<1>5. ASSUME NEW r \in Resource, Delete(r) PROVE TypeOK'
  BY <1>5 DEF Delete, IsNext, disk
<1>6. ASSUME NEW r \in Resource, DeleteFails(r) PROVE TypeOK'
  <2>1. DependencyLabels(r) \subseteq Resource
    BY TopoFacts DEF DependencyLabels
  <2> QED
    BY <1>6, <2>1 DEF DeleteFails, Stays, IsNext, disk
<1>7. CASE EndDestroy
  <2>1. created' \in [Resource -> 0..2]
    BY <1>7 DEF EndDestroy
  <2> QED
    BY <1>7, <2>1 DEF EndDestroy
<1>8. CASE Interrupt
  BY <1>8 DEF Interrupt, disk
<1>9. CASE UNCHANGED vars
  BY <1>9 DEF vars, disk, loop
<1> QED
  BY <1>1, <1>2, <1>3, <1>4, <1>5, <1>6, <1>7, <1>8, <1>9
     DEF Next, ApplyStep, DestroyStep

\* Whatever applies and destroys do, the file and the destroying process keep
\* to their types (Spec of amscrot_manager.py's apply and destroy).
THEOREM TypeInvariant == Spec => []TypeOK
BY InitType, TypeStep, PTL DEF Spec

-----------------------------------------------------------------------------
(* A provider that counts as complete has created each of its resources.   *)

LEMMA MineFinite ==
    ASSUME NEW p
    PROVE  IsFiniteSet(Mine(p))
<1>1. IsFiniteSet(Resource)
  BY FS_Interval, TeardownAssumption DEF Resource
<1>2. Mine(p) \in SUBSET Resource
  BY DEF Mine
<1> QED
  BY <1>1, <1>2, FS_Subset

LEMMA CompleteCreatesAll ==
    ASSUME "duplicate" \notin Fault, NEW c \in Counts, NEW p,
           Complete(p, c), NEW r \in Mine(p)
    PROVE  c[r] = 1
<1> DEFINE Some == {x \in Mine(p) : c[x] > 0}
           Twice == {x \in Mine(p) : c[x] = 2}
<1>1. c \in [Resource -> 0..1]
  BY DEF Counts
<1>2. Mine(p) \subseteq Resource
  BY DEF Mine
<1>3. Twice = {}
  BY <1>1, <1>2
<1>4. Cardinality(Twice) = 0
  BY <1>3, FS_EmptySet
<1>5. IsFiniteSet(Some) /\ (Cardinality(Mine(p)) = Cardinality(Some) => Mine(p) = Some)
  <2>1. Some \in SUBSET Mine(p)
    OBVIOUS
  <2> HIDE DEF Some
  <2> QED
    BY <2>1, MineFinite, FS_Subset
<1>6. Cardinality(Some) \in Nat
  BY <1>5, FS_CardinalityType
<1>7. Cardinality(Some) + Cardinality(Twice) = Cardinality(Mine(p))
  BY DEF Complete, NumberOfCreated
<1>8. Cardinality(Some) = Cardinality(Mine(p))
  <2> HIDE DEF Some, Twice
  <2> QED
    BY <1>4, <1>6, <1>7
<1>9. r \in Some
  BY <1>5, <1>8
<1> QED
  BY <1>1, <1>2, <1>9

\* What an apply leaves in the file is closed under external dependencies.
LEMMA ApplyKeepsDependencies ==
    ASSUME "duplicate" \notin Fault, TypeOK, DependenciesSaved, NEW c \in Counts,
           NEW r \in Reconciled(c), NEW d \in External(r)
    PROVE  d \in Reconciled(c)
<1>1. c \in [Resource -> 0..1]
  BY DEF Counts
<1>2. r \in Resource /\ d \in Resource
  BY TopoFacts, ReconciledType DEF TypeOK
<1>3. CASE c[r] > 0
  <2>1. c[d] > 0
    BY <1>2, <1>3 DEF Counts
  <2> QED
    BY <1>2, <2>1 DEF Reconciled
<1>4. CASE c[d] > 0
  BY <1>2, <1>4 DEF Reconciled
<1>5. CASE ~(c[r] > 0) /\ ~(c[d] > 0)
  <2>1. r \in Kept(c) /\ ~(\A x \in Resource : created[x] = 0)
    BY <1>5 DEF Reconciled
  <2>2. d \in saved /\ c[d] = 0
    BY <1>1, <1>2, <1>5, <2>1 DEF Kept, DependenciesSaved
  <2>3. d \in Kept(c)
    BY <2>2 DEF Kept
  <2>4. d \in Mine(topo.owner[d])
    BY <1>2 DEF Mine
  <2>5. ~Complete(topo.owner[d], c)
    BY <2>2, <2>4, CompleteCreatesAll
  <2> QED
    BY <2>1, <2>3, <2>5 DEF Reconciled
<1> QED
  BY <1>3, <1>4, <1>5

-----------------------------------------------------------------------------
(* The loop of destroy.                                                    *)

\* r stays: its dependencies are below it, so they are still to be handled.
LEMMA StaysKeepsInv ==
    ASSUME TypeOK, DestroyInv, op = "destroy", NEW r \in Resource,
           IsNext(r), Stays(r), UNCHANGED <<topo, disk, op>>
    PROVE  DestroyInv'
<1>0. /\ topo' = topo /\ saved' = saved /\ failed' = failed /\ op' = op
      /\ \A x \in Resource : External(x)' = External(x)
  BY DEF disk, External
<1>1. DependenciesSaved'
  BY <1>0 DEF DestroyInv, DependenciesSaved, TypeOK
<1>2. GoesDown'
  <2> SUFFICES ASSUME NEW x \in (saved \cup failed) \ left', NEW y \in left'
               PROVE  y < x
    BY <1>0 DEF GoesDown
  <2>1. CASE x = r
    BY <2>1 DEF IsNext, Stays, TypeOK, Resource
  <2>2. CASE x # r
    BY <2>2 DEF Stays, DestroyInv, GoesDown
  <2> QED
    BY <2>1, <2>2
<1>3. SkipsDependencies'
  <2> SUFFICES ASSUME NEW x \in remaining' \cap saved PROVE External(x) \subseteq skip'
    BY <1>0 DEF SkipsDependencies, TypeOK
  <2> QED
    BY DEF Stays, DependencyLabels, DestroyInv, SkipsDependencies
<1>4. SkippedStay'
  <2> SUFFICES ASSUME NEW x \in skip' \cap saved PROVE x \in left' \cup remaining'
    BY <1>0 DEF SkippedStay
  <2>1. CASE x \in skip
    BY <2>1 DEF Stays, DestroyInv, SkippedStay
  <2>2. CASE x \in DependencyLabels(r)
    <3>1. x < r
      BY <2>2, TopoFacts DEF DependencyLabels, TypeOK
    <3>2. x \in left
      <4>1. x \notin left => r < x
        BY DEF DestroyInv, GoesDown, IsNext
      <4>2. x \in Int /\ r \in Int
        BY ResourceInt DEF TypeOK
      <4> QED
        BY <3>1, <4>1, <4>2
    <3> QED
      BY <3>1, <3>2 DEF Stays
  <2> QED
    BY <2>1, <2>2 DEF Stays
<1> QED
  BY <1>1, <1>2, <1>3, <1>4 DEF DestroyInv

LEMMA DestroyInvStep ==
    ASSUME "duplicate" \notin Fault
    PROVE  TypeOK /\ DestroyInv /\ [Next]_vars => DestroyInv'
<1> SUFFICES ASSUME TypeOK, DestroyInv, [Next]_vars PROVE DestroyInv'
  OBVIOUS
<1>1. ASSUME NEW c \in Counts, NEW f \in SUBSET MayFail(c), Apply(c, f)
      PROVE  DestroyInv'
  <2>1. topo' = topo /\ saved' = Reconciled(c) /\ op' = "idle" /\ left' = {}
    BY <1>1 DEF Apply, loop, TypeOK
  <2>2. \A r \in Resource : External(r)' = External(r)
    BY <2>1 DEF External
  <2>3. DependenciesSaved'
    BY <2>1, <2>2, ApplyKeepsDependencies, ReconciledType DEF DestroyInv, DependenciesSaved
  <2> QED
    BY <2>1, <2>3 DEF DestroyInv, GoesDown, SkipsDependencies, SkippedStay
<1>2. ASSUME NEW c \in Counts, ApplyKilled(c)
      PROVE  DestroyInv'
  BY <1>2 DEF ApplyKilled, DestroyInv, DependenciesSaved, GoesDown, SkipsDependencies,
              SkippedStay, External, disk, loop
<1>3. CASE StartDestroy
  BY <1>3 DEF StartDestroy, DestroyInv, DependenciesSaved, GoesDown, SkipsDependencies,
              SkippedStay, External, disk
<1>4. ASSUME NEW r \in Resource, Skip(r) PROVE DestroyInv'
  BY <1>4, StaysKeepsInv DEF Skip
<1>5. ASSUME NEW r \in Resource, Delete(r) PROVE DestroyInv'
  <2>1. DependenciesSaved'
    BY <1>5 DEF Delete, DestroyInv, DependenciesSaved, External, disk
  <2>2. GoesDown'
    <3> SUFFICES ASSUME NEW x \in (saved \cup failed) \ left', NEW y \in left'
                 PROVE  y < x
      BY <1>5 DEF GoesDown, Delete, disk
    <3>1. CASE x = r
      BY <1>5, <3>1 DEF Delete, IsNext, TypeOK, Resource
    <3>2. CASE x # r
      BY <1>5, <3>2 DEF Delete, DestroyInv, GoesDown
    <3> QED
      BY <3>1, <3>2
  <2>3. SkipsDependencies' /\ SkippedStay'
    BY <1>5 DEF Delete, DestroyInv, SkipsDependencies, SkippedStay, External, disk
  <2> QED
    BY <2>1, <2>2, <2>3 DEF DestroyInv
<1>6. ASSUME NEW r \in Resource, DeleteFails(r) PROVE DestroyInv'
  BY <1>6, StaysKeepsInv DEF DeleteFails
<1>7. CASE EndDestroy
  <2>1. /\ topo' = topo /\ op' = "idle" /\ left' = {} /\ left = {}
        /\ saved' = saved \cap remaining /\ op = "destroy"
    BY <1>7 DEF EndDestroy
  <2>2. DependenciesSaved'
    <3> SUFFICES ASSUME NEW r \in saved \cap remaining, NEW d \in External(r)
                 PROVE  d \in saved \cap remaining
      BY <2>1 DEF DependenciesSaved, External
    <3>1. d \in skip /\ d \in saved
      BY <2>1 DEF DestroyInv, SkipsDependencies, DependenciesSaved
    <3> QED
      BY <2>1, <3>1 DEF DestroyInv, SkippedStay
  <2> QED
    BY <2>1, <2>2 DEF DestroyInv, GoesDown, SkipsDependencies, SkippedStay
<1>8. CASE Interrupt
  BY <1>8 DEF Interrupt, DestroyInv, DependenciesSaved, GoesDown, SkipsDependencies,
              SkippedStay, External, disk
<1>9. CASE UNCHANGED vars
  BY <1>9 DEF vars, DestroyInv, DependenciesSaved, GoesDown, SkipsDependencies,
              SkippedStay, External, disk, loop
<1> QED
  BY <1>1, <1>2, <1>3, <1>4, <1>5, <1>6, <1>7, <1>8, <1>9
     DEF Next, ApplyStep, DestroyStep

\* Controller.destroy never stops at the KeyError of controller.py:471: the
\* saved states are closed under external dependencies for ever.
THEOREM DependenciesSavedHolds ==
    ASSUME "duplicate" \notin Fault
    PROVE  Spec => []DependenciesSaved
<1>1. Init => DestroyInv
  BY DEF Init, DestroyInv, DependenciesSaved, GoesDown, SkipsDependencies, SkippedStay
<1>2. TypeOK /\ DestroyInv /\ [Next]_vars => DestroyInv'
  BY DestroyInvStep
<1>3. DestroyInv => DependenciesSaved
  BY DEF DestroyInv
<1> QED
  BY <1>1, <1>2, <1>3, InitType, TypeStep, PTL DEF Spec

-----------------------------------------------------------------------------
(* What exists is saved, as long as one apply at most falls short and none *)
(* is killed: the former states are there when they are needed.            *)

\* While every apply has been complete, whatever is saved counts as created,
\* so that the next apply looks at the saved states.
KeepInv ==
    /\ exists \subseteq saved
    /\ op = "destroy" => exists \subseteq left \cup remaining
    /\ failures = 0 => \A r \in saved : created[r] > 0

\* An apply keeps the states of what it did not report.
LEMMA ApplyKeepsExisting ==
    ASSUME "duplicate" \notin Fault, MaxFailedApplies \in {0, 1}, TypeOK, KeepInv,
           NEW c \in Counts, NEW f \in SUBSET MayFail(c), Apply(c, f)
    PROVE  KeepInv'
<1>1. /\ exists' = exists \cup {r \in Resource : c[r] > 0} /\ saved' = Reconciled(c)
      /\ created' = c /\ op' = "idle"
      /\ exists \subseteq saved /\ saved \subseteq Resource
      /\ c \in [Resource -> 0..1] /\ failures \in Nat
  BY DEF Apply, loop, TypeOK, KeepInv, Counts
<1>2. {r \in Resource : c[r] > 0} \subseteq Reconciled(c)
  BY DEF Reconciled
<1>3. CASE \A r \in Resource : c[r] # 0
  <2>1. \A r \in Resource : c[r] > 0
    BY <1>1, <1>3
  <2>2. Reconciled(c) \subseteq Resource
    BY <1>1 DEF Reconciled, Kept
  <2> QED
    BY <1>1, <1>2, <2>1, <2>2 DEF KeepInv
<1>4. CASE \E r \in Resource : c[r] = 0
  <2>1. failures = 0 /\ failures' = 1
    BY <1>1, <1>4 DEF Apply
  <2>2. ASSUME NEW x \in exists, c[x] = 0 PROVE x \in Reconciled(c)
    <3>1. x \in Resource /\ x \in Kept(c) /\ created[x] > 0
      BY <1>1, <2>1, <2>2 DEF Kept, KeepInv
    <3>2. ~Complete(topo.owner[x], c)
      <4>1. x \in Mine(topo.owner[x])
        BY <3>1 DEF Mine
      <4> QED
        BY <2>2, <4>1, CompleteCreatesAll
    <3>3. ~(\A r \in Resource : created[r] = 0)
      BY <3>1
    <3> QED
      BY <3>1, <3>2, <3>3 DEF Reconciled
  <2>3. \A x \in exists : c[x] = 0 \/ c[x] > 0
    BY <1>1
  <2>4. exists' \subseteq saved'
    BY <1>1, <1>2, <2>2, <2>3
  <2> QED
    BY <1>1, <2>1, <2>4 DEF KeepInv
<1> QED
  BY <1>3, <1>4

LEMMA KeepInvStep ==
    ASSUME Fault \subseteq {"interrupt"}, MaxFailedApplies \in {0, 1}
    PROVE  TypeOK /\ KeepInv /\ [Next]_vars => KeepInv'
<1> SUFFICES ASSUME TypeOK, KeepInv, [Next]_vars PROVE KeepInv'
  OBVIOUS
<1>1. ASSUME NEW c \in Counts, NEW f \in SUBSET MayFail(c), Apply(c, f)
      PROVE  KeepInv'
  BY <1>1, ApplyKeepsExisting
<1>2. ASSUME NEW c \in Counts, ApplyKilled(c)
      PROVE  KeepInv'
  BY <1>2 DEF ApplyKilled
<1>3. CASE StartDestroy
  BY <1>3 DEF StartDestroy, KeepInv, disk
<1>4. ASSUME NEW r \in Resource, Skip(r) \/ Delete(r) \/ DeleteFails(r) PROVE KeepInv'
  BY <1>4 DEF Skip, Delete, DeleteFails, Stays, KeepInv, disk
<1>5. CASE EndDestroy
  <2>1. /\ exists' = exists /\ failures' = failures /\ op' = "idle" /\ left = {}
        /\ saved' = saved \cap remaining /\ op = "destroy"
    BY <1>5 DEF EndDestroy
  <2>2. ASSUME NEW r \in saved', failures = 0 PROVE created'[r] > 0
    <3>1. r \in Resource /\ created[r] > 0
      BY <2>1, <2>2 DEF KeepInv, TypeOK
    <3>2. r \in Mine(topo.owner[r]) \cap (saved' \cup failed')
      BY <2>2, <3>1 DEF Mine
    <3>3. created'[r] = created[r]
      BY <1>5, <3>1, <3>2 DEF EndDestroy
    <3> QED
      BY <3>1, <3>3
  <2> QED
    BY <2>1, <2>2 DEF KeepInv
<1>6. CASE Interrupt
  BY <1>6 DEF Interrupt, KeepInv, disk
<1>7. CASE UNCHANGED vars
  BY <1>7 DEF vars, KeepInv, disk, loop
<1> QED
  BY <1>1, <1>2, <1>3, <1>4, <1>5, <1>6, <1>7 DEF Next, ApplyStep, DestroyStep

\* Whatever exists has a state in the file, when at most one apply fell short
\* and none was killed before it saved (state.py:430, amscrot_manager.py:213).
THEOREM NothingForgottenHolds ==
    ASSUME Fault \subseteq {"interrupt"}, MaxFailedApplies \in {0, 1}
    PROVE  Spec => []NothingForgotten
<1>1. Init => KeepInv
  BY DEF Init, KeepInv
<1>2. TypeOK /\ KeepInv /\ [Next]_vars => KeepInv'
  BY KeepInvStep
<1>3. KeepInv => NothingForgotten
  BY DEF KeepInv, NothingForgotten
<1> QED
  BY <1>1, <1>2, <1>3, InitType, TypeStep, PTL DEF Spec

\* The loop of destroy deletes a resource only when nothing of another provider
\* that depends on it exists: what is above it was handled before, and what of
\* that stayed keeps its dependencies (controller.py:490).
THEOREM ExternalOrderHolds ==
    ASSUME Fault \subseteq {"interrupt"}, MaxFailedApplies \in {0, 1}
    PROVE  Spec => ExternalOrder
<1>1. Init => KeepInv /\ DestroyInv
  BY DEF Init, KeepInv, DestroyInv, DependenciesSaved, GoesDown, SkipsDependencies, SkippedStay
<1>2. TypeOK /\ KeepInv /\ DestroyInv /\ [Next]_vars => KeepInv' /\ DestroyInv'
  BY KeepInvStep, DestroyInvStep
<1>3. TypeOK /\ KeepInv /\ DestroyInv /\ [Next]_vars =>
         [\A r \in Resource : Deleted(r) => \A x \in exists : r \notin External(x)]_vars
  <2> SUFFICES ASSUME TypeOK, KeepInv, DestroyInv, [Next]_vars,
                      NEW r \in Resource, Deleted(r), NEW x \in exists, r \in External(x)
               PROVE  FALSE
    OBVIOUS
  <2>1. Delete(r)
    <3>1. exists' # exists /\ r \in exists /\ r \notin exists'
      BY DEF Deleted
    <3>2. \A c \in Counts : ~ApplyKilled(c) /\ \A f \in SUBSET MayFail(c) : ~Apply(c, f)
      BY <3>1 DEF Apply, ApplyKilled
    <3>3. PICK y \in Resource : Delete(y)
      BY <3>1, <3>2 DEF Next, ApplyStep, StartDestroy, DestroyStep, EndDestroy, Interrupt, Skip,
                        DeleteFails, vars
    <3>4. exists' = exists \ {y}
      BY <3>3 DEF Delete
    <3> QED
      BY <3>1, <3>3, <3>4
  <2>2. x \in Resource /\ x \in saved /\ r < x
    BY TopoFacts DEF KeepInv, TypeOK
  <2>3. op = "destroy" /\ x \in left \cup remaining
    BY <2>1 DEF Delete, KeepInv
  <2>4. x \notin left
    <3>1. r \in Int /\ x \in Int
      BY <2>2, ResourceInt
    <3> QED
      BY <2>1, <2>2, <3>1 DEF Delete, IsNext
  <2>5. r \in skip
    BY <2>2, <2>3, <2>4 DEF DestroyInv, SkipsDependencies
  <2> QED
    BY <2>1, <2>5 DEF Delete
<1> QED
  BY <1>1, <1>2, <1>3, InitType, TypeStep, PTL DEF Spec, ExternalOrder

-----------------------------------------------------------------------------
(* Lists.  What a recursive function computes is proved here by the least    *)
(* counterexample: a set of naturals that is not empty has a least member.   *)

LEMMA LeastNatural ==
    ASSUME NEW S \in SUBSET Nat, S # {}
    PROVE  \E m \in S : \A k \in S : m <= k
<1> DEFINE R == OpToRel(<, Nat)
<1>1. IsWellFoundedOn(R, Nat)
  BY NatLessThanWellFounded
<1>2. R = {pair \in Nat \X Nat : pair[1] < pair[2]}
  BY DEF OpToRel
<1> HIDE DEF R
<1>3. PICK m \in S : \A k \in S : ~ (<<k, m>> \in R)
  BY <1>1, WFMin
<1>4. \A k \in S : ~(k < m)
  BY <1>2, <1>3
<1>5. \A k \in S : m <= k
  BY <1>4
<1> QED BY <1>5

LEMMA FunctionIsList ==
    ASSUME NEW T, NEW n \in Nat, NEW f \in [1..n -> T]
    PROVE  f \in Seq(T) /\ Len(f) = n /\ DOMAIN f = 1..n
OBVIOUS

\* Whether g is, up to n, the function by which FlattenSeq is defined.
Joins(ss, g, n) == g = [i \in 1..n |-> IF i = 1 THEN ss[i] ELSE g[i - 1] \o ss[i]]

LEMMA JoinsExist ==
    ASSUME NEW ss, NEW n \in Nat
    PROVE  \E g : Joins(ss, g, n)
<1> DEFINE Without == {m \in Nat : ~ \E g : Joins(ss, g, m)}
<1> SUFFICES ASSUME Without # {} PROVE FALSE
  OBVIOUS
<1>1. PICK m \in Without : \A k \in Without : m <= k
  <2> Without \in SUBSET Nat
    OBVIOUS
  <2> HIDE DEF Without
  <2> QED BY LeastNatural
<1>2. m # 0
  <2>1. Joins(ss, <<>>, 0)
    BY DEF Joins
  <2> QED BY <2>1
<1>3. PICK g : Joins(ss, g, m - 1)
  <2>1. m - 1 \in Nat /\ ~(m <= m - 1)
    BY <1>2
  <2> QED BY <1>1, <2>1
<1> DEFINE h == [i \in 1..m |-> IF i < m THEN g[i]
                              ELSE IF m = 1 THEN ss[1] ELSE g[m - 1] \o ss[m]]
<1>4. Joins(ss, h, m)
  <2> SUFFICES ASSUME NEW i \in 1..m
               PROVE  h[i] = IF i = 1 THEN ss[i] ELSE h[i - 1] \o ss[i]
    BY DEF Joins
  <2>1. CASE i < m
    <3>1. i \in 1..(m - 1)
      BY <2>1
    <3>2. g[i] = IF i = 1 THEN ss[i] ELSE g[i - 1] \o ss[i]
      BY <1>3, <3>1 DEF Joins
    <3>3. i # 1 => i - 1 \in 1..m /\ i - 1 < m
      BY <2>1
    <3> QED BY <2>1, <3>2, <3>3
  <2>2. CASE i = m
    <3>1. m # 1 => m - 1 \in 1..m /\ m - 1 < m
      BY <1>2
    <3> QED BY <2>2, <3>1
  <2> QED BY <2>1, <2>2
<1> QED BY <1>4

\* That f joins the first n lists of ss: its members are theirs, in their order.
IsJoin(ss, f, n) ==
    /\ \A p \in DOMAIN f : \E i \in 1..n : \E a \in DOMAIN ss[i] : f[p] = ss[i][a]
    /\ \A i \in 1..n : \A a \in DOMAIN ss[i] : \E p \in DOMAIN f : f[p] = ss[i][a]
    /\ \A p, q \in DOMAIN f : p < q =>
         \E i, j \in 1..n : \E a \in DOMAIN ss[i], b \in DOMAIN ss[j] :
            /\ f[p] = ss[i][a] /\ f[q] = ss[j][b]
            /\ i < j \/ (i = j /\ a < b)

LEMMA JoinIsInOrder ==
    ASSUME NEW ss, NEW f, NEW n, IsJoin(ss, f, n), NEW p \in DOMAIN f, NEW q \in DOMAIN f, p < q
    PROVE  \E i, j \in 1..n : \E a \in DOMAIN ss[i], b \in DOMAIN ss[j] :
              f[p] = ss[i][a] /\ f[q] = ss[j][b] /\ (i < j \/ (i = j /\ a < b))
<1>1. \A x, y \in DOMAIN f : x < y =>
        \E i, j \in 1..n : \E a \in DOMAIN ss[i], b \in DOMAIN ss[j] :
           f[x] = ss[i][a] /\ f[y] = ss[j][b] /\ (i < j \/ (i = j /\ a < b))
  BY ZenonT(30) DEF IsJoin
<1> QED BY ZenonT(30), <1>1

LEMMA JoinOneMore ==
    ASSUME NEW T, NEW ss \in Seq(Seq(T)), NEW n \in 1..Len(ss), NEW m \in 1..n, n = m + 1,
           NEW f \in Seq(T), IsJoin(ss, f, m)
    PROVE  f \o ss[n] \in Seq(T) /\ IsJoin(ss, f \o ss[n], n)
<1> DEFINE h == f \o ss[n]
<1>1. ss[n] \in Seq(T)
  OBVIOUS
<1>2. /\ h \in Seq(T) /\ Len(h) = Len(f) + Len(ss[n])
      /\ \A p \in 1..Len(f) + Len(ss[n]) : h[p] = IF p <= Len(f) THEN f[p] ELSE ss[n][p - Len(f)]
  BY <1>1, ConcatProperties
<1>3. /\ Len(f) \in Nat /\ Len(ss[n]) \in Nat /\ DOMAIN f = 1..Len(f)
      /\ DOMAIN ss[n] = 1..Len(ss[n]) /\ DOMAIN h = 1..(Len(f) + Len(ss[n]))
  BY <1>1, <1>2, LenProperties
<1> HIDE DEF h
<1>4. \A p \in DOMAIN h : \/ p \in DOMAIN f /\ h[p] = f[p]
                          \/ p - Len(f) \in DOMAIN ss[n] /\ p > Len(f) /\ h[p] = ss[n][p - Len(f)]
  BY SMTT(30), <1>2, <1>3
<1>5. ASSUME NEW p \in DOMAIN f PROVE p \in DOMAIN h /\ h[p] = f[p]
  <2>1. p \in 1..(Len(f) + Len(ss[n])) /\ p <= Len(f)
    BY <1>3
  <2> QED BY <1>2, <1>3, <2>1
<1>6. ASSUME NEW a \in DOMAIN ss[n] PROVE a + Len(f) \in DOMAIN h /\ h[a + Len(f)] = ss[n][a]
  <2> DEFINE l == Len(f)
             l2 == Len(ss[n])
             k == a + l
  <2>1. l \in Nat /\ l2 \in Nat /\ a \in 1..l2
    BY <1>3
  <2>2. \A p \in 1..(l + l2) : h[p] = IF p <= l THEN f[p] ELSE ss[n][p - l]
    BY <1>2
  <2>3. DOMAIN h = 1..(l + l2)
    BY <1>3
  <2> HIDE DEF l, l2
  <2>4. k \in 1..(l + l2) /\ ~(k <= l) /\ k - l = a
    BY <2>1
  <2> HIDE DEF k
  <2>5. h[k] = ss[n][k - l]
    BY <2>2, <2>4
  <2>6. k \in DOMAIN h /\ h[k] = ss[n][a]
    BY <2>3, <2>4, <2>5
  <2> QED BY <2>6 DEF k, l
<1>7. 1..m \subseteq 1..n /\ n \in 1..n /\ \A i \in 1..n : i = n \/ i \in 1..m
  OBVIOUS
<1>8. ASSUME NEW p \in DOMAIN h PROVE \E i \in 1..n : \E a \in DOMAIN ss[i] : h[p] = ss[i][a]
  <2>1. CASE p \in DOMAIN f /\ h[p] = f[p]
    BY SMTT(30), <1>7, <2>1 DEF IsJoin
  <2>2. CASE p - Len(f) \in DOMAIN ss[n] /\ h[p] = ss[n][p - Len(f)]
    BY <1>7, <2>2
  <2> QED BY <1>4, <2>1, <2>2
<1>9. ASSUME NEW i \in 1..n, NEW a \in DOMAIN ss[i] PROVE \E p \in DOMAIN h : h[p] = ss[i][a]
  <2>1. CASE i = n
    BY <1>6, <2>1
  <2>2. CASE i \in 1..m
    <3>1. PICK p \in DOMAIN f : f[p] = ss[i][a]
      BY <2>2 DEF IsJoin
    <3> QED BY <1>5, <3>1
  <2> QED BY <1>7, <2>1, <2>2
<1>10. ASSUME NEW p \in DOMAIN h, NEW q \in DOMAIN h, p < q
       PROVE  \E i, j \in 1..n : \E a \in DOMAIN ss[i], b \in DOMAIN ss[j] :
                 h[p] = ss[i][a] /\ h[q] = ss[j][b] /\ (i < j \/ (i = j /\ a < b))
  <2>1. CASE q \in DOMAIN f /\ h[q] = f[q]
    <3>1. p \in DOMAIN f /\ h[p] = f[p]
      <4>1. p \in DOMAIN f
        BY <1>3, <1>10, <2>1
      <4> QED BY <1>5, <4>1
    <3>2. PICK i, j \in 1..m : \E a \in DOMAIN ss[i], b \in DOMAIN ss[j] :
             f[p] = ss[i][a] /\ f[q] = ss[j][b] /\ (i < j \/ (i = j /\ a < b))
      <4>1. p \in DOMAIN f /\ q \in DOMAIN f /\ p < q
        BY <1>10, <2>1, <3>1
      <4>2. \A x, y \in DOMAIN f : x < y =>
              \E i, j \in 1..m : \E a \in DOMAIN ss[i], b \in DOMAIN ss[j] :
                 f[x] = ss[i][a] /\ f[y] = ss[j][b] /\ (i < j \/ (i = j /\ a < b))
        BY ZenonT(30) DEF IsJoin
      <4> QED BY ZenonT(30), <4>1, <4>2
    <3>3. i \in 1..n /\ j \in 1..n
      BY <1>7
    <3> QED BY <2>1, <3>1, <3>2, <3>3
  <2>2. CASE /\ q - Len(f) \in DOMAIN ss[n] /\ h[q] = ss[n][q - Len(f)]
             /\ p \in DOMAIN f /\ h[p] = f[p]
    <3>1. PICK i \in 1..m : \E a \in DOMAIN ss[i] : f[p] = ss[i][a]
      BY <2>2 DEF IsJoin
    <3>2. i < n /\ i \in 1..n /\ n \in 1..n
      BY <1>7
    <3> QED BY <2>2, <3>1, <3>2
  <2>3. CASE /\ q - Len(f) \in DOMAIN ss[n] /\ h[q] = ss[n][q - Len(f)]
             /\ p - Len(f) \in DOMAIN ss[n] /\ h[p] = ss[n][p - Len(f)]
    <3>1. p - Len(f) < q - Len(f)
      BY <1>3, <1>10
    <3> QED BY <1>7, <2>3, <3>1
  <2> QED BY <1>4, <2>1, <2>2, <2>3
<1>11. IsJoin(ss, h, n)
  BY <1>8, <1>9, <1>10 DEF IsJoin
<1> QED BY <1>2, <1>11 DEF h

LEMMA JoinsAreJoins ==
    ASSUME NEW T, NEW ss \in Seq(Seq(T)), NEW g, Joins(ss, g, Len(ss)), NEW n \in 1..Len(ss)
    PROVE  g[n] \in Seq(T) /\ IsJoin(ss, g[n], n)
<1> DEFINE Wrong == {k \in 1..Len(ss) : ~(g[k] \in Seq(T) /\ IsJoin(ss, g[k], k))}
<1> SUFFICES ASSUME Wrong # {} PROVE FALSE
  OBVIOUS
<1>1. PICK m \in Wrong : \A k \in Wrong : m <= k
  <2> Wrong \in SUBSET Nat
    OBVIOUS
  <2> HIDE DEF Wrong
  <2> QED BY LeastNatural
<1>2. g[m] = IF m = 1 THEN ss[m] ELSE g[m - 1] \o ss[m]
  BY DEF Joins
<1>3. CASE m = 1
  <2>1. g[m] = ss[1] /\ ss[1] \in Seq(T)
    BY <1>2, <1>3
  <2>2. DOMAIN ss[1] = 1..Len(ss[1]) /\ Len(ss[1]) \in Nat /\ 1..1 = {1}
    BY <2>1, LenProperties
  <2>3. IsJoin(ss, ss[1], 1)
    BY <2>2 DEF IsJoin
  <2> QED BY <1>3, <2>1, <2>3
<1>4. CASE m > 1
  <2>1. m - 1 \in 1..Len(ss) /\ ~(m <= m - 1)
    BY <1>4
  <2>2. g[m - 1] \in Seq(T) /\ IsJoin(ss, g[m - 1], m - 1)
    BY <1>1, <2>1
  <2>3. g[m - 1] \o ss[m] \in Seq(T) /\ IsJoin(ss, g[m - 1] \o ss[m], m)
    <3> DEFINE k == m - 1
    <3>1. k \in 1..m /\ m = k + 1 /\ m \in 1..Len(ss)
      BY <1>4, <2>1
    <3>2. g[k] \in Seq(T) /\ IsJoin(ss, g[k], k)
      BY <2>2
    <3> HIDE DEF k
    <3>3. g[k] \o ss[m] \in Seq(T) /\ IsJoin(ss, g[k] \o ss[m], m)
      BY <3>1, <3>2, JoinOneMore
    <3> QED BY <3>3 DEF k
  <2>4. m # 1
    BY <1>4
  <2>5. g[m] = g[m - 1] \o ss[m]
    BY <1>2, <2>4
  <2>6. g[m] \in Seq(T) /\ IsJoin(ss, g[m], m)
    BY <2>3, <2>5
  <2> QED BY <1>1, <2>6
<1>5. m = 1 \/ m > 1
  <2>1. m \in 1..Len(ss)
    BY <1>1
  <2> QED BY <2>1
<1> QED BY <1>3, <1>4, <1>5

(* FlattenSeq joins its lists, for every list of lists.                      *)
LEMMA FlattenJoins ==
    ASSUME NEW T, NEW ss \in Seq(Seq(T))
    PROVE  FlattenSeq(ss) \in Seq(T) /\ IsJoin(ss, FlattenSeq(ss), Len(ss))
<1> DEFINE g == CHOOSE f : f = [i \in 1..Len(ss) |-> IF i = 1 THEN ss[i] ELSE f[i - 1] \o ss[i]]
<1>1. Joins(ss, g, Len(ss))
  <2>1. Len(ss) \in Nat
    OBVIOUS
  <2>2. \E f : Joins(ss, f, Len(ss))
    BY <2>1, JoinsExist
  <2> QED BY <2>2 DEF Joins
<1>2. FlattenSeq(ss) = IF Len(ss) = 0 THEN ss ELSE g[Len(ss)]
  BY DEF FlattenSeq
<1> HIDE DEF g
<1>3. CASE Len(ss) = 0
  <2>1. ss = <<>>
    BY <1>3, EmptySeq
  <2> QED BY <1>2, <1>3, <2>1 DEF IsJoin
<1>4. CASE Len(ss) # 0
  <2>1. Len(ss) \in 1..Len(ss)
    BY <1>4
  <2> QED BY <1>1, <1>2, <1>4, <2>1, JoinsAreJoins
<1> QED BY <1>3, <1>4

LEMMA FilterSelects ==
    ASSUME NEW T, NEW s \in Seq(T), NEW S
    PROVE  Filter(s, S) \in Seq(T) /\ ToSet(Filter(s, S)) = ToSet(s) \cap S
<1> DEFINE ss == [i \in DOMAIN s |-> IF s[i] \in S THEN <<s[i]>> ELSE <<>>]
<1>1. DOMAIN s = 1..Len(s) /\ Len(s) \in Nat /\ \A i \in DOMAIN s : s[i] \in T
  BY LenProperties
<1>2. \A i \in DOMAIN s : ss[i] \in Seq(T)
  BY <1>1
<1>3. ss \in Seq(Seq(T)) /\ Len(ss) = Len(s)
  BY <1>1, <1>2, FunctionIsList
<1>4. \A i \in DOMAIN s : \A a \in DOMAIN ss[i] : ss[i][a] = s[i] /\ s[i] \in S
  <2> TAKE i \in DOMAIN s
  <2>1. CASE s[i] \in S
    <3>1. ss[i] = <<s[i]>>
      BY <2>1
    <3> QED BY <2>1, <3>1
  <2>2. CASE s[i] \notin S
    <3>1. ss[i] = <<>>
      BY <2>2
    <3> QED BY <3>1
  <2> QED BY <2>1, <2>2
<1>5. \A i \in DOMAIN s : s[i] \in S => 1 \in DOMAIN ss[i] /\ ss[i][1] = s[i]
  OBVIOUS
<1>6. Filter(s, S) = FlattenSeq(ss)
  BY DEF Filter
<1> HIDE DEF ss
<1>7. Filter(s, S) \in Seq(T) /\ IsJoin(ss, Filter(s, S), Len(s))
  BY <1>3, <1>6, FlattenJoins
<1>8. ASSUME NEW x \in ToSet(Filter(s, S)) PROVE x \in ToSet(s) \cap S
  <2>1. PICK p \in DOMAIN Filter(s, S) : x = Filter(s, S)[p]
    BY DEF ToSet
  <2>2. PICK i \in 1..Len(s) : \E a \in DOMAIN ss[i] : x = ss[i][a]
    BY <1>7, <2>1 DEF IsJoin
  <2> QED BY <1>1, <1>4, <2>2 DEF ToSet
<1>9. ASSUME NEW x \in ToSet(s) \cap S PROVE x \in ToSet(Filter(s, S))
  <2>1. PICK i \in DOMAIN s : x = s[i]
    BY DEF ToSet
  <2>2. PICK p \in DOMAIN Filter(s, S) : Filter(s, S)[p] = ss[i][1]
    BY <1>1, <1>5, <1>7, <2>1 DEF IsJoin
  <2> QED BY <1>5, <2>1, <2>2 DEF ToSet
<1> QED BY <1>7, <1>8, <1>9

-----------------------------------------------------------------------------
(* Stitch: the ports that a policy offers, and the pair that is chosen.      *)

Places == {"c1", "s1", "s2"}
StitchPort == [of : Types, name : PortNames, site : Places, preference : 0..MaxPreference]
Info == [port : StitchPort, producer : Types]
PortPair == [main : StitchPort, peer : StitchPort, producer : Types]

InfosSorted(s) ==
    \A p, q \in DOMAIN s : p < q => s[q].port.preference <= s[p].port.preference
PairsSorted(s) ==
    \A p, q \in DOMAIN s : p < q => s[q].main.preference <= s[p].main.preference

LEMMA ByPreferenceSorts ==
    ASSUME NEW infos \in Seq(Info)
    PROVE  /\ ByPreference(infos) \in Seq(Info) /\ InfosSorted(ByPreference(infos))
           /\ ToSet(ByPreference(infos)) = ToSet(infos)
<1> DEFINE n == MaxPreference + 1
           Wanted(k) == {si \in ToSet(infos) : si.port.preference = MaxPreference - k + 1}
           ss == [k \in 1..n |-> Filter(infos, Wanted(k))]
           sorted == ByPreference(infos)
<1>1. n \in Nat /\ MaxPreference \in Nat
  BY StitchAssumption
<1>2. \A k \in 1..n : ss[k] \in Seq(Info) /\ ToSet(ss[k]) = ToSet(infos) \cap Wanted(k)
  BY FilterSelects
<1>3. ss \in Seq(Seq(Info)) /\ Len(ss) = n
  <2>1. ss \in [1..n -> Seq(Info)]
    BY <1>2
  <2> HIDE DEF ss, n
  <2> QED BY <1>1, <2>1, FunctionIsList
<1>4. sorted = FlattenSeq(ss)
  BY DEF ByPreference
<1>5. \A k \in 1..n : \A a \in DOMAIN ss[k] :
        ss[k][a] \in ToSet(infos) /\ ss[k][a].port.preference = MaxPreference - k + 1
  BY <1>2 DEF ToSet
<1>6. \A x \in ToSet(infos) : \E k \in 1..n : \E a \in DOMAIN ss[k] : ss[k][a] = x
  <2> TAKE x \in ToSet(infos)
  <2>1. x \in Info
    BY DEF ToSet
  <2>2. x.port.preference \in 0..MaxPreference
    BY <2>1 DEF Info, StitchPort
  <2> DEFINE k == MaxPreference - x.port.preference + 1
  <2>3. k \in 1..n /\ x.port.preference = MaxPreference - k + 1
    BY <1>1, <2>2
  <2>4. x \in ToSet(ss[k])
    BY <1>2, <2>3
  <2>5. \E a \in DOMAIN ss[k] : ss[k][a] = x
    BY <2>4 DEF ToSet
  <2> HIDE DEF k
  <2> QED BY <2>3, <2>5
<1> HIDE DEF ss, sorted, n
<1>7. sorted \in Seq(Info) /\ IsJoin(ss, sorted, n)
  BY <1>3, <1>4, FlattenJoins
<1>8. ToSet(sorted) = ToSet(infos)
  <2>1. \A p \in DOMAIN sorted : sorted[p] \in ToSet(infos)
    BY <1>5, <1>7 DEF IsJoin
  <2>2. \A x \in ToSet(infos) : \E p \in DOMAIN sorted : sorted[p] = x
    <3> TAKE x \in ToSet(infos)
    <3>1. PICK k \in 1..n : \E a \in DOMAIN ss[k] : ss[k][a] = x
      BY <1>6
    <3> QED BY <1>7, <3>1 DEF IsJoin
  <2> QED BY <2>1, <2>2 DEF ToSet
<1>9. InfosSorted(sorted)
  <2> SUFFICES ASSUME NEW p \in DOMAIN sorted, NEW q \in DOMAIN sorted, p < q
               PROVE  sorted[q].port.preference <= sorted[p].port.preference
    BY DEF InfosSorted
  <2>1. PICK i, j \in 1..n : \E a \in DOMAIN ss[i], b \in DOMAIN ss[j] :
          sorted[p] = ss[i][a] /\ sorted[q] = ss[j][b] /\ (i < j \/ (i = j /\ a < b))
    BY <1>7, JoinIsInOrder
  <2>2. i <= j
    BY <1>1, <2>1
  <2>3. /\ sorted[p].port.preference = MaxPreference - i + 1
        /\ sorted[q].port.preference = MaxPreference - j + 1
    BY <1>5, <2>1
  <2> QED BY <1>1, <2>2, <2>3
<1> QED BY <1>7, <1>8, <1>9 DEF sorted

LEMMA DuplicatesGo ==
    ASSUME NEW infos \in Seq(Info), InfosSorted(infos)
    PROVE  /\ WithoutDuplicates(infos) \in Seq(Info) /\ InfosSorted(WithoutDuplicates(infos))
           /\ ToSet(WithoutDuplicates(infos)) = ToSet(infos)
<1> DEFINE Again(i) == \E j \in 1..(i - 1) : infos[j] = infos[i]
           ss == [i \in DOMAIN infos |-> IF Again(i) THEN <<>> ELSE <<infos[i]>>]
           rest == WithoutDuplicates(infos)
<1>1. DOMAIN infos = 1..Len(infos) /\ Len(infos) \in Nat /\ \A i \in DOMAIN infos : infos[i] \in Info
  BY LenProperties
<1>2. \A i \in DOMAIN infos : ss[i] \in Seq(Info)
  BY <1>1
<1>3. ss \in Seq(Seq(Info)) /\ Len(ss) = Len(infos)
  BY <1>1, <1>2, FunctionIsList
<1>4. \A i \in DOMAIN infos : \A a \in DOMAIN ss[i] : ss[i][a] = infos[i]
  <2> TAKE i \in DOMAIN infos
  <2>1. CASE Again(i)
    <3>1. ss[i] = <<>>
      BY <2>1
    <3> QED BY <3>1
  <2>2. CASE ~Again(i)
    <3>1. ss[i] = <<infos[i]>>
      BY <2>2
    <3> QED BY <3>1
  <2> QED BY <2>1, <2>2
<1>5. \A i \in DOMAIN infos : ~Again(i) => 1 \in DOMAIN ss[i]
  OBVIOUS
<1>6. \A x \in ToSet(infos) : \E i \in DOMAIN infos : infos[i] = x /\ ~Again(i)
  <2> TAKE x \in ToSet(infos)
  <2> DEFINE At == {i \in DOMAIN infos : infos[i] = x}
  <2>1. At \in SUBSET Nat /\ At # {}
    BY <1>1 DEF ToSet
  <2>2. PICK m \in At : \A k \in At : m <= k
    <3> HIDE DEF At
    <3> QED BY <2>1, LeastNatural
  <2>3. m \in 1..Len(infos) /\ infos[m] = x
    BY <1>1, <2>2
  <2>4. ASSUME NEW j \in 1..(m - 1), infos[j] = infos[m] PROVE FALSE
    <3>1. j \in DOMAIN infos /\ ~(m <= j)
      BY <1>1, <2>3
    <3> QED BY <2>2, <2>3, <2>4, <3>1
  <2> QED BY <1>1, <2>3, <2>4
<1>7. rest = FlattenSeq(ss)
  BY DEF WithoutDuplicates
<1> HIDE DEF ss, rest, Again
<1>8. rest \in Seq(Info) /\ IsJoin(ss, rest, Len(infos))
  BY <1>3, <1>7, FlattenJoins
<1>9. ToSet(rest) = ToSet(infos)
  <2>1. ASSUME NEW p \in DOMAIN rest PROVE rest[p] \in ToSet(infos)
    <3>1. PICK i \in 1..Len(infos) : \E a \in DOMAIN ss[i] : rest[p] = ss[i][a]
      BY <1>8 DEF IsJoin
    <3> QED BY <1>1, <1>4, <3>1 DEF ToSet
  <2>2. \A x \in ToSet(infos) : \E p \in DOMAIN rest : rest[p] = x
    BY <1>1, <1>4, <1>5, <1>6, <1>8 DEF IsJoin
  <2> QED BY <2>1, <2>2 DEF ToSet
<1>10. InfosSorted(rest)
  <2> SUFFICES ASSUME NEW p \in DOMAIN rest, NEW q \in DOMAIN rest, p < q
               PROVE  rest[q].port.preference <= rest[p].port.preference
    BY DEF InfosSorted
  <2>1. PICK i, j \in 1..Len(infos) : \E a \in DOMAIN ss[i], b \in DOMAIN ss[j] :
          rest[p] = ss[i][a] /\ rest[q] = ss[j][b] /\ (i < j \/ (i = j /\ a < b))
    BY <1>8, JoinIsInOrder
  <2>2. rest[p] = infos[i] /\ rest[q] = infos[j]
    BY <1>1, <1>4, <2>1
  <2>3. CASE i < j
    BY <1>1, <2>2, <2>3 DEF InfosSorted
  <2>4. CASE i = j
    <3>1. infos[i].port.preference \in Int
      BY SMTT(30), <1>1, StitchAssumption DEF Info, StitchPort
    <3> QED BY <2>2, <2>4, <3>1
  <2> QED BY <2>1, <2>3, <2>4
<1> QED BY <1>8, <1>9, <1>10 DEF rest

LEMMA ConcatMembers ==
    ASSUME NEW T, NEW s \in Seq(T), NEW t \in Seq(T)
    PROVE  s \o t \in Seq(T) /\ ToSet(s \o t) = ToSet(s) \cup ToSet(t)
<1>1. /\ s \o t \in Seq(T) /\ Len(s \o t) = Len(s) + Len(t)
      /\ \A i \in 1..Len(s) + Len(t) : (s \o t)[i] = IF i <= Len(s) THEN s[i] ELSE t[i - Len(s)]
  BY ConcatProperties
<1>2. /\ DOMAIN s = 1..Len(s) /\ Len(s) \in Nat /\ DOMAIN t = 1..Len(t) /\ Len(t) \in Nat
      /\ DOMAIN (s \o t) = 1..(Len(s) + Len(t))
  BY <1>1, LenProperties
<1>3. ASSUME NEW i \in DOMAIN (s \o t) PROVE (s \o t)[i] \in ToSet(s) \cup ToSet(t)
  <2>1. CASE i <= Len(s)
    BY <1>1, <1>2, <2>1 DEF ToSet
  <2>2. CASE ~(i <= Len(s))
    <3>1. i - Len(s) \in DOMAIN t
      BY <1>2, <2>2
    <3> QED BY <1>1, <1>2, <2>2, <3>1 DEF ToSet
  <2> QED BY <2>1, <2>2
<1>4. ASSUME NEW i \in DOMAIN s PROVE s[i] \in ToSet(s \o t)
  <2>1. i \in 1..(Len(s) + Len(t)) /\ i <= Len(s)
    BY <1>2
  <2> QED BY <1>1, <1>2, <2>1 DEF ToSet
<1>5. ASSUME NEW i \in DOMAIN t PROVE t[i] \in ToSet(s \o t)
  <2> DEFINE k == i + Len(s)
  <2>1. k \in 1..(Len(s) + Len(t)) /\ ~(k <= Len(s)) /\ k - Len(s) = i
    BY <1>2
  <2> HIDE DEF k
  <2> QED BY <1>1, <1>2, <2>1 DEF ToSet
<1> QED BY <1>1, <1>3, <1>4, <1>5 DEF ToSet

\* What the policy says: ports of each provider, and who produces what.
Groups == {"G", "H"}
StitchPolicy ==
    /\ ports \in [Types -> Seq(StitchPort)]
    /\ \A t \in Types : \A p \in ToSet(ports[t]) : p.of = t
    /\ groups \in [Types -> Seq(Groups)]
    /\ \A t \in Types : ToSet(groups[t]) = Groups
    /\ producers \in [Groups -> SUBSET Types]

AllPorts == ToSet(ports["chi"]) \cup ToSet(ports["fabric"])
InfosOf(group, by) == {si \in Info : /\ si.port \in AllPorts /\ GroupOf(si.port.name) = group
                                     /\ si.producer \in by}
AllInfos == {si \in Info : si.port \in AllPorts /\ si.producer \in producers[GroupOf(si.port.name)]}

LEMMA BothTypes ==
    ASSUME NEW t \in Types
    PROVE  Other(t) \in Types /\ Other(t) # t /\ Types = {t, Other(t)} /\ Other(Other(t)) = t
BY DEF Types, Other

LEMMA OfGives ==
    ASSUME StitchPolicy, NEW t \in Types, NEW group
    PROVE  /\ Of(t, group) \in Seq(StitchPort)
           /\ ToSet(Of(t, group)) = {p \in ToSet(ports[t]) : GroupOf(p.name) = group}
<1>1. ports[t] \in Seq(StitchPort)
  BY DEF StitchPolicy
<1> QED BY <1>1, FilterSelects DEF Of

LEMMA MembersGive ==
    ASSUME StitchPolicy, NEW first \in Types, NEW group \in Groups, NEW producer \in Types
    PROVE  /\ Members(first, group, producer) \in Seq(Info)
           /\ ToSet(Members(first, group, producer)) = InfosOf(group, {producer})
<1> DEFINE all == Of(first, group) \o Of(Other(first), group)
           members == [i \in DOMAIN all |-> [port |-> all[i], producer |-> producer]]
<1>1. /\ all \in Seq(StitchPort)
      /\ ToSet(all) = ToSet(Of(first, group)) \cup ToSet(Of(Other(first), group))
  BY OfGives, BothTypes, ConcatMembers
<1>2. ToSet(all) = {p \in AllPorts : GroupOf(p.name) = group}
  <2>1. AllPorts = ToSet(ports[first]) \cup ToSet(ports[Other(first)])
    BY DEF AllPorts, Types, Other
  <2> QED BY <1>1, <2>1, OfGives, BothTypes
<1>3. members = Members(first, group, producer)
  BY DEF Members
<1> HIDE DEF all
<1>4. DOMAIN all = 1..Len(all) /\ Len(all) \in Nat /\ \A i \in DOMAIN all : all[i] \in StitchPort
  BY <1>1, LenProperties
<1>5. members \in Seq(Info) /\ DOMAIN members = DOMAIN all
  BY <1>4, FunctionIsList DEF Info
<1>6. ToSet(members) = {[port |-> p, producer |-> producer] : p \in ToSet(all)}
  BY <1>5 DEF ToSet
<1>7. \A p \in AllPorts : p \in StitchPort
  BY DEF AllPorts, ToSet, StitchPolicy, Types
<1>8. {[port |-> p, producer |-> producer] : p \in ToSet(all)} = InfosOf(group, {producer})
  BY <1>2, <1>7 DEF InfosOf, Info
<1> QED BY <1>3, <1>5, <1>6, <1>8

LEMMA OfferedGives ==
    ASSUME StitchPolicy, NEW first \in Types, NEW group \in Groups
    PROVE  /\ Offered(first, group) \in Seq(Info)
           /\ ToSet(Offered(first, group)) = InfosOf(group, producers[group])
<1> DEFINE before == IF Other(first) \in producers[group]
                     THEN Members(first, group, Other(first)) ELSE <<>>
           after == IF first \in producers[group] THEN Members(first, group, first) ELSE <<>>
<1>1. <<>> \in Seq(Info) /\ ToSet(<<>>) = {} /\ InfosOf(group, {}) = {}
  BY DEF ToSet, InfosOf
<1>2. /\ before \in Seq(Info)
      /\ ToSet(before) = InfosOf(group, {Other(first)} \cap producers[group])
  <2>1. CASE Other(first) \in producers[group]
    <3>1. {Other(first)} \cap producers[group] = {Other(first)}
      BY <2>1
    <3> QED BY <2>1, <3>1, BothTypes, MembersGive
  <2>2. CASE Other(first) \notin producers[group]
    <3>1. {Other(first)} \cap producers[group] = {}
      BY <2>2
    <3> QED BY <1>1, <2>2, <3>1
  <2> QED BY <2>1, <2>2
<1>3. after \in Seq(Info) /\ ToSet(after) = InfosOf(group, {first} \cap producers[group])
  <2>1. CASE first \in producers[group]
    <3>1. {first} \cap producers[group] = {first}
      BY <2>1
    <3> QED BY <2>1, <3>1, MembersGive
  <2>2. CASE first \notin producers[group]
    <3>1. {first} \cap producers[group] = {}
      BY <2>2
    <3> QED BY <1>1, <2>2, <3>1
  <2> QED BY <2>1, <2>2
<1>4. Offered(first, group) = before \o after
  BY DEF Offered
<1> HIDE DEF before, after
<1>5. producers[group] = ({Other(first)} \cap producers[group]) \cup ({first} \cap producers[group])
  <2>1. producers[group] \subseteq Types
    BY DEF StitchPolicy
  <2> QED BY <2>1, BothTypes
<1>6. InfosOf(group, producers[group]) =
        InfosOf(group, {Other(first)} \cap producers[group]) \cup
        InfosOf(group, {first} \cap producers[group])
  BY <1>5 DEF InfosOf
<1> QED BY <1>2, <1>3, <1>4, <1>6, ConcatMembers

LEMMA InfosGive ==
    ASSUME StitchPolicy, NEW first \in Types
    PROVE  /\ StitchInfos(first) \in Seq(Info) /\ InfosSorted(StitchInfos(first))
           /\ ToSet(StitchInfos(first)) = AllInfos
<1> DEFINE ss == [i \in DOMAIN groups[first] |-> Offered(first, groups[first][i])]
           all == FlattenSeq(ss)
<1>1. /\ groups[first] \in Seq(Groups) /\ ToSet(groups[first]) = Groups
      /\ DOMAIN groups[first] = 1..Len(groups[first]) /\ Len(groups[first]) \in Nat
      /\ \A i \in DOMAIN groups[first] : groups[first][i] \in Groups
  <2>1. groups[first] \in Seq(Groups) /\ ToSet(groups[first]) = Groups
    BY DEF StitchPolicy
  <2> QED BY <2>1, LenProperties
<1>2. \A i \in DOMAIN groups[first] :
        ss[i] \in Seq(Info) /\ ToSet(ss[i]) = InfosOf(groups[first][i], producers[groups[first][i]])
  BY <1>1, OfferedGives
<1>3. ss \in Seq(Seq(Info)) /\ Len(ss) = Len(groups[first])
  <2>1. ss \in [1..Len(groups[first]) -> Seq(Info)]
    BY <1>1, <1>2
  <2> HIDE DEF ss
  <2> QED BY <1>1, <2>1, FunctionIsList
<1> HIDE DEF ss
<1>4. all \in Seq(Info) /\ IsJoin(ss, all, Len(groups[first]))
  BY <1>3, FlattenJoins
<1>5. StitchInfos(first) = WithoutDuplicates(ByPreference(all))
  BY DEF StitchInfos, ss
<1> HIDE DEF all
<1>6. \A si \in Info : si.port \in AllPorts => GroupOf(si.port.name) \in Groups
  BY DEF GroupOf, Groups
<1>7. ToSet(all) = AllInfos
  <2>1. ASSUME NEW p \in DOMAIN all PROVE all[p] \in AllInfos
    <3>1. PICK i \in 1..Len(groups[first]) : \E a \in DOMAIN ss[i] : all[p] = ss[i][a]
      BY <1>4 DEF IsJoin
    <3>2. all[p] \in InfosOf(groups[first][i], producers[groups[first][i]])
      BY <1>1, <1>2, <3>1 DEF ToSet
    <3> QED BY <3>2 DEF InfosOf, AllInfos
  <2>2. ASSUME NEW x \in AllInfos PROVE \E p \in DOMAIN all : all[p] = x
    <3>1. GroupOf(x.port.name) \in ToSet(groups[first])
      BY <1>1, <1>6 DEF AllInfos
    <3>2. PICK i \in DOMAIN groups[first] : groups[first][i] = GroupOf(x.port.name)
      BY <3>1 DEF ToSet
    <3>3. x \in ToSet(ss[i])
      BY <1>2, <3>2 DEF AllInfos, InfosOf
    <3>4. PICK a \in DOMAIN ss[i] : ss[i][a] = x
      BY <3>3 DEF ToSet
    <3> QED BY <1>1, <1>4, <3>4 DEF IsJoin
  <2> QED BY <2>1, <2>2 DEF ToSet
<1> QED BY <1>4, <1>5, <1>7, ByPreferenceSorts, DuplicatesGo

AllPairs ==
    {pair \in PortPair :
        /\ Peers(pair.main, pair.peer)
        /\ [port |-> pair.main, producer |-> pair.producer] \in AllInfos
        /\ \E si \in AllInfos : si.port = pair.peer}

LEMMA PairsGive ==
    ASSUME StitchPolicy, NEW first \in Types
    PROVE  /\ Pairs(first) \in Seq(PortPair) /\ PairsSorted(Pairs(first))
           /\ ToSet(Pairs(first)) = AllPairs
<1> DEFINE infos == StitchInfos(first)
           PeersOf(si) == Filter(infos, {other \in ToSet(infos) : Peers(si.port, other.port)})
           PairsOf(si) == [k \in DOMAIN PeersOf(si) |->
               [main |-> si.port, peer |-> PeersOf(si)[k].port, producer |-> si.producer]]
           ss == [i \in DOMAIN infos |-> PairsOf(infos[i])]
           pairs == Pairs(first)
<1>1. /\ infos \in Seq(Info) /\ InfosSorted(infos) /\ ToSet(infos) = AllInfos
  BY InfosGive
<1>2. pairs = FlattenSeq(ss)
  BY DEF Pairs
<1> HIDE DEF infos, pairs
<1>3. DOMAIN infos = 1..Len(infos) /\ Len(infos) \in Nat /\ \A i \in DOMAIN infos : infos[i] \in Info
  BY <1>1, LenProperties
<1>4. ASSUME NEW si \in Info
      PROVE  /\ PairsOf(si) \in Seq(PortPair)
             /\ \A k \in DOMAIN PairsOf(si) :
                   /\ PairsOf(si)[k].main = si.port /\ PairsOf(si)[k].producer = si.producer
                   /\ Peers(si.port, PairsOf(si)[k].peer)
                   /\ \E other \in AllInfos : other.port = PairsOf(si)[k].peer
             /\ \A other \in AllInfos : Peers(si.port, other.port) =>
                   \E k \in DOMAIN PairsOf(si) : PairsOf(si)[k].peer = other.port
  <2> DEFINE peers == PeersOf(si)
  <2>1. /\ peers \in Seq(Info)
        /\ ToSet(peers) = {other \in AllInfos : Peers(si.port, other.port)}
    BY <1>1, FilterSelects
  <2>2. PairsOf(si) = [k \in DOMAIN peers |->
               [main |-> si.port, peer |-> peers[k].port, producer |-> si.producer]]
    OBVIOUS
  <2> HIDE DEF peers, PairsOf, PeersOf
  <2>3. DOMAIN peers = 1..Len(peers) /\ Len(peers) \in Nat /\ \A k \in DOMAIN peers : peers[k] \in Info
    BY <2>1, LenProperties
  <2>4. PairsOf(si) \in [1..Len(peers) -> PortPair]
    BY <2>2, <2>3 DEF Info, PortPair
  <2>5. PairsOf(si) \in Seq(PortPair) /\ DOMAIN PairsOf(si) = DOMAIN peers
    BY <2>3, <2>4, FunctionIsList
  <2>6. \A k \in DOMAIN peers : peers[k] \in AllInfos /\ Peers(si.port, peers[k].port)
    BY <2>1 DEF ToSet
  <2>7. \A other \in AllInfos : Peers(si.port, other.port) => \E k \in DOMAIN peers : peers[k] = other
    BY <2>1 DEF ToSet
  <2> QED BY <2>2, <2>5, <2>6, <2>7
<1> HIDE DEF PairsOf, PeersOf
<1>5. ss \in Seq(Seq(PortPair)) /\ Len(ss) = Len(infos)
  <2>1. ss \in [1..Len(infos) -> Seq(PortPair)]
    BY <1>3, <1>4
  <2> HIDE DEF ss
  <2> QED BY <1>3, <2>1, FunctionIsList
<1>6. \A i \in DOMAIN infos : ss[i] = PairsOf(infos[i])
  OBVIOUS
<1> HIDE DEF ss
<1>7. pairs \in Seq(PortPair) /\ IsJoin(ss, pairs, Len(infos))
  BY <1>2, <1>5, FlattenJoins
<1>8. ToSet(pairs) = AllPairs
  <2>1. ASSUME NEW p \in DOMAIN pairs PROVE pairs[p] \in AllPairs
    <3>1. PICK i \in 1..Len(infos) : \E a \in DOMAIN ss[i] : pairs[p] = ss[i][a]
      BY <1>7 DEF IsJoin
    <3>2. /\ pairs[p].main = infos[i].port /\ pairs[p].producer = infos[i].producer
          /\ Peers(infos[i].port, pairs[p].peer)
          /\ \E other \in AllInfos : other.port = pairs[p].peer
      BY <1>3, <1>4, <1>6, <3>1
    <3>3. pairs[p] \in PortPair
      BY <1>7
    <3>4. infos[i] \in AllInfos /\ infos[i] \in Info
      BY <1>1, <1>3 DEF ToSet
    <3>5. [port |-> infos[i].port, producer |-> infos[i].producer] = infos[i]
      BY <3>4 DEF Info
    <3> QED BY <3>2, <3>3, <3>4, <3>5 DEF AllPairs
  <2>2. ASSUME NEW x \in AllPairs PROVE \E p \in DOMAIN pairs : pairs[p] = x
    <3>1. [port |-> x.main, producer |-> x.producer] \in ToSet(infos)
      BY <1>1 DEF AllPairs
    <3>2. PICK i \in DOMAIN infos : infos[i] = [port |-> x.main, producer |-> x.producer]
      BY <3>1 DEF ToSet
    <3>3. PICK other \in AllInfos : other.port = x.peer /\ Peers(x.main, other.port)
      BY DEF AllPairs
    <3>4. infos[i] \in Info /\ infos[i].port = x.main /\ infos[i].producer = x.producer
      BY <1>3, <3>2
    <3>5. PICK a \in DOMAIN ss[i] : /\ ss[i][a].peer = x.peer /\ ss[i][a].main = x.main
                                    /\ ss[i][a].producer = x.producer
      <4>1. Peers(infos[i].port, other.port)
        BY <3>3, <3>4
      <4>2. PICK k \in DOMAIN PairsOf(infos[i]) : PairsOf(infos[i])[k].peer = other.port
        BY <1>4, <3>4, <4>1
      <4>3. /\ PairsOf(infos[i])[k].main = infos[i].port
            /\ PairsOf(infos[i])[k].producer = infos[i].producer
        BY <1>4, <3>4, <4>2
      <4> QED BY <1>6, <3>3, <3>4, <4>2, <4>3
    <3>6. ss[i][a] \in PortPair /\ x \in PortPair
      <4>1. ss[i] \in Seq(PortPair)
        BY <1>4, <1>6, <3>4
      <4> QED BY <4>1 DEF AllPairs
    <3>7. ss[i][a] = x
      BY <3>5, <3>6 DEF PortPair
    <3> QED BY <1>3, <1>7, <3>7 DEF IsJoin
  <2> QED BY <2>1, <2>2 DEF ToSet
<1>9. PairsSorted(pairs)
  <2> SUFFICES ASSUME NEW p \in DOMAIN pairs, NEW q \in DOMAIN pairs, p < q
               PROVE  pairs[q].main.preference <= pairs[p].main.preference
    BY DEF PairsSorted
  <2>1. PICK i, j \in 1..Len(infos) : \E a \in DOMAIN ss[i], b \in DOMAIN ss[j] :
          pairs[p] = ss[i][a] /\ pairs[q] = ss[j][b] /\ (i < j \/ (i = j /\ a < b))
    BY <1>7, JoinIsInOrder
  <2>2. pairs[p].main = infos[i].port /\ pairs[q].main = infos[j].port
    BY <1>3, <1>4, <1>6, <2>1
  <2>3. CASE i < j
    BY <1>1, <1>3, <2>2, <2>3 DEF InfosSorted
  <2>4. CASE i = j
    <3>1. infos[i].port.preference \in Int
      BY <1>3, StitchAssumption DEF Info, StitchPort
    <3> QED BY <2>2, <2>4, <3>1
  <2> QED BY <2>1, <2>3, <2>4
<1> QED BY <1>7, <1>8, <1>9 DEF pairs

\* Of a list of pairs in order of preference, the first that is wanted is chosen.
LEMMA FirstIsPreferred ==
    ASSUME NEW pairs \in Seq(PortPair), PairsSorted(pairs), NEW S \in SUBSET DOMAIN pairs, S # {}
    PROVE  /\ Min(S) \in S
           /\ \A k \in S : pairs[k].main.preference <= pairs[Min(S)].main.preference
<1>1. DOMAIN pairs \subseteq Nat /\ \A k \in DOMAIN pairs : pairs[k] \in PortPair
  BY LenProperties
<1>2. PICK m \in S : \A k \in S : m <= k
  BY <1>1, LeastNatural
<1>3. Min(S) \in S /\ \A k \in S : Min(S) <= k
  BY <1>2 DEF Min
<1>4. ASSUME NEW k \in S PROVE pairs[k].main.preference <= pairs[Min(S)].main.preference
  <2>1. CASE Min(S) < k
    BY <1>3, <2>1 DEF PairsSorted
  <2>2. CASE k = Min(S)
    <3>1. pairs[k].main.preference \in Int
      BY <1>1, StitchAssumption DEF PortPair, StitchPort
    <3> QED BY <2>2, <3>1
  <2> QED BY <1>1, <1>3, <2>1, <2>2
<1> QED BY <1>3, <1>4

\* The pair that is chosen of those that are offered.
IsBest(best, offers) ==
    /\ best \in offers
    /\ LET named == {p \in offers : Named(p)}
           sited == {p \in offers : AtSite(p)}
       IN  IF named # {} THEN Named(best) /\ Preferred(best, named)
           ELSE IF sited # {} THEN AtSite(best) /\ Preferred(best, sited)
           ELSE Preferred(best, offers)

LEMMA BestIsBest ==
    ASSUME NEW pairs \in Seq(PortPair), PairsSorted(pairs), pairs # <<>>
    PROVE  IsBest(Best(pairs), ToSet(pairs))
<1> DEFINE namedAt == {i \in DOMAIN pairs : Named(pairs[i])}
           sitedAt == {i \in DOMAIN pairs : AtSite(pairs[i])}
           named == {p \in ToSet(pairs) : Named(p)}
           sited == {p \in ToSet(pairs) : AtSite(p)}
<1>1. /\ DOMAIN pairs = 1..Len(pairs) /\ 1 \in DOMAIN pairs
      /\ namedAt \in SUBSET DOMAIN pairs /\ sitedAt \in SUBSET DOMAIN pairs
  <2>1. Len(pairs) \in Nat \ {0}
    BY EmptySeq
  <2> QED BY <2>1, LenProperties
<1>2. Best(pairs) =
        pairs[IF namedAt # {} THEN Min(namedAt) ELSE IF sitedAt # {} THEN Min(sitedAt) ELSE 1]
  BY DEF Best
<1>3. (named # {} <=> namedAt # {}) /\ (sited # {} <=> sitedAt # {})
  BY DEF ToSet
<1>4. CASE namedAt # {}
  <2>1. /\ Min(namedAt) \in namedAt /\ Best(pairs) = pairs[Min(namedAt)]
        /\ \A k \in namedAt : pairs[k].main.preference <= Best(pairs).main.preference
    BY <1>1, <1>2, <1>4, FirstIsPreferred
  <2>2. Preferred(Best(pairs), named)
    BY <2>1 DEF Preferred, ToSet
  <2>3. Named(Best(pairs)) /\ Best(pairs) \in ToSet(pairs)
    BY <2>1 DEF ToSet
  <2> QED BY <1>3, <1>4, <2>2, <2>3 DEF IsBest
<1>5. CASE namedAt = {} /\ sitedAt # {}
  <2>1. /\ Min(sitedAt) \in sitedAt /\ Best(pairs) = pairs[Min(sitedAt)]
        /\ \A k \in sitedAt : pairs[k].main.preference <= Best(pairs).main.preference
    BY <1>1, <1>2, <1>5, FirstIsPreferred
  <2>2. Preferred(Best(pairs), sited)
    BY <2>1 DEF Preferred, ToSet
  <2>3. AtSite(Best(pairs)) /\ Best(pairs) \in ToSet(pairs)
    BY <2>1 DEF ToSet
  <2> QED BY <1>3, <1>5, <2>2, <2>3 DEF IsBest
<1>6. CASE namedAt = {} /\ sitedAt = {}
  <2>1. Best(pairs) = pairs[1]
    BY <1>2, <1>6
  <2>2. \A k \in DOMAIN pairs : pairs[k].main.preference <= pairs[1].main.preference
    <3>1. Min(DOMAIN pairs) \in DOMAIN pairs
      BY <1>1, FirstIsPreferred
    <3> TAKE k \in DOMAIN pairs
    <3>2. CASE 1 < k
      BY <1>1, <3>2 DEF PairsSorted
    <3>3. CASE k = 1
      <4>1. pairs[1] \in PortPair
        BY <1>1
      <4>2. pairs[1].main.preference \in Int
        BY <4>1, StitchAssumption DEF PortPair, StitchPort
      <4> QED BY <3>3, <4>2
    <3> QED BY <1>1, <3>2, <3>3
  <2>3. Preferred(Best(pairs), ToSet(pairs)) /\ Best(pairs) \in ToSet(pairs)
    BY <1>1, <2>1, <2>2 DEF Preferred, ToSet
  <2> QED BY <1>3, <1>6, <2>3 DEF IsBest
<1> QED BY <1>4, <1>5, <1>6

\* Whichever network states stitch_with, the same pairs are offered.
LEMMA OffersAreAll ==
    ASSUME StitchPolicy
    PROVE  /\ Offers = AllPairs
           /\ \A t \in Types : (Pairs(t) = <<>> <=> AllPairs = {}) /\
                               (Pairs(t) # <<>> => IsBest(Best(Pairs(t)), AllPairs))
<1>1. Offers = AllPairs
  BY PairsGive DEF Offers, Types
<1>2. ASSUME NEW t \in Types PROVE Pairs(t) = <<>> <=> AllPairs = {}
  <2>1. Pairs(t) \in Seq(PortPair) /\ ToSet(Pairs(t)) = AllPairs
    BY PairsGive
  <2>2. CASE Pairs(t) = <<>>
    BY <2>1, <2>2 DEF ToSet
  <2>3. CASE Pairs(t) # <<>>
    <3>1. Len(Pairs(t)) \in Nat \ {0} /\ DOMAIN Pairs(t) = 1..Len(Pairs(t))
      BY <2>1, <2>3, EmptySeq, LenProperties
    <3>2. 1 \in DOMAIN Pairs(t)
      BY <3>1
    <3> QED BY <2>1, <2>3, <3>2 DEF ToSet
  <2> QED BY <2>2, <2>3
<1>3. ASSUME NEW t \in Types, Pairs(t) # <<>> PROVE IsBest(Best(Pairs(t)), AllPairs)
  BY <1>3, PairsGive, BestIsBest
<1> QED BY <1>1, <1>2, <1>3

LEMMA EitherIsAsGood ==
    ASSUME NEW offers \in SUBSET PortPair, NEW p, NEW q, IsBest(p, offers), IsBest(q, offers)
    PROVE  p.main.preference = q.main.preference
<1>1. \A pair \in offers : pair.main.preference \in Int
  BY StitchAssumption DEF PortPair, StitchPort
<1>2. p \in offers /\ q \in offers
  BY DEF IsBest
<1>3. p.main.preference <= q.main.preference /\ q.main.preference <= p.main.preference
  BY <1>2 DEF IsBest, Preferred
<1> QED BY <1>1, <1>2, <1>3

\* The site that the network of fabric is given, and a node on it that has none of its own.
GivenSite == IF siteAsked.net # NoSite THEN siteAsked.net ELSE StitchSite

StitchInv ==
    /\ StitchPolicy /\ stating \in Types
    /\ siteAsked \in [net : {NoSite, "s2"}, node : {NoSite, "s2"}]
    /\ stitchStep \in {"choose", "not found", "stitched", "fix"}
    /\ stitchStep = "choose" => interfaceOf = [t \in Types |-> {}]
    /\ stitchStep \in {"choose", "not found"} => netSite = NoSite /\ nodeSite = NoSite
    /\ stitchStep = "stitched" => IsBest(chosen, AllPairs)
    /\ stitchStep \in {"stitched", "fix"} =>
          /\ chosen \in AllPairs
          /\ interfaceOf = [t \in Types |-> IF t = Consumer(chosen) THEN {Other(t)} ELSE {}]
          /\ stitchInfo = [t \in Types |-> OwnFirst(t, chosen)]
    /\ netSite # NoSite => netSite = GivenSite
    /\ nodeSite # NoSite /\ siteAsked.node = NoSite => nodeSite = GivenSite

LEMMA StitchInitInv == StitchInit => StitchInv
<1> SUFFICES ASSUME StitchInit PROVE StitchInv
  OBVIOUS
<1>1. PICK c \in {s \in BoundedSeq(Port("chi", {"c1"}, {0}), MaxPorts) : IsInjective(s)},
           f \in BoundedSeq(Port("fabric", {"s1", "s2"}, 1..MaxPreference), MaxPorts) :
              ports = [chi |-> c, fabric |-> f]
  BY DEF StitchInit
<1>2. /\ c \in Seq(Port("chi", {"c1"}, {0}))
      /\ f \in Seq(Port("fabric", {"s1", "s2"}, 1..MaxPreference))
  BY <1>1 DEF BoundedSeq, SeqOf
<1>3. /\ Port("chi", {"c1"}, {0}) \subseteq StitchPort
      /\ Port("fabric", {"s1", "s2"}, 1..MaxPreference) \subseteq StitchPort
  BY StitchAssumption DEF Port, StitchPort, Types, Places
<1>4. ports \in [Types -> Seq(StitchPort)] /\ ports["chi"] = c /\ ports["fabric"] = f
  <2>1. c \in Seq(StitchPort) /\ f \in Seq(StitchPort)
    BY <1>2, <1>3
  <2> QED BY <1>1, <2>1 DEF Types
<1>5. \A t \in Types : \A p \in ToSet(ports[t]) : p.of = t
  <2>1. \A p \in ToSet(c) : p \in Port("chi", {"c1"}, {0})
    BY <1>2 DEF ToSet
  <2>2. \A p \in ToSet(f) : p \in Port("fabric", {"s1", "s2"}, 1..MaxPreference)
    BY <1>2 DEF ToSet
  <2> QED BY <1>4, <2>1, <2>2 DEF Port, Types
<1>6. PICK o \in {<<"G", "H">>, <<"H", "G">>} : groups = [chi |-> <<"G", "H">>, fabric |-> o]
  BY DEF StitchInit
<1>7. \A s \in {<<"G", "H">>, <<"H", "G">>} : s \in Seq(Groups) /\ ToSet(s) = Groups
  <2> TAKE s \in {<<"G", "H">>, <<"H", "G">>}
  <2>1. s \in Seq(Groups) /\ DOMAIN s = {1, 2} /\ {s[1], s[2]} = Groups
    BY DEF Groups
  <2> QED BY <2>1 DEF ToSet
<1>8. groups \in [Types -> Seq(Groups)] /\ \A t \in Types : ToSet(groups[t]) = Groups
  <2>1. groups["chi"] = <<"G", "H">> /\ groups["fabric"] = o /\ DOMAIN groups = Types
    BY <1>6 DEF Types
  <2>2. \A t \in Types : groups[t] \in {<<"G", "H">>, <<"H", "G">>}
    BY <2>1 DEF Types
  <2>3. groups = [t \in Types |-> groups[t]]
    BY <1>6 DEF Types
  <2> QED BY <1>7, <2>2, <2>3
<1>9. producers \in [Groups -> SUBSET Types]
  BY DEF StitchInit, Groups, Types
<1>10. StitchPolicy
  BY <1>4, <1>5, <1>8, <1>9 DEF StitchPolicy
<1> QED BY <1>10 DEF StitchInit, StitchInv

LEMMA PolicyStands ==
    ASSUME UNCHANGED policy
    PROVE  AllPairs' = AllPairs /\ (StitchPolicy => StitchPolicy')
<1>1. ports' = ports /\ producers' = producers /\ groups' = groups
  BY DEF policy
<1>2. AllPorts' = AllPorts
  BY <1>1 DEF AllPorts, ToSet
<1>3. AllInfos' = AllInfos
  BY <1>1, <1>2 DEF AllInfos
<1>4. AllPairs' = AllPairs
  BY <1>3 DEF AllPairs
<1>5. StitchPolicy => StitchPolicy'
  BY <1>1 DEF StitchPolicy, ToSet
<1> QED BY <1>4, <1>5

LEMMA StitchStepInv == StitchInv /\ [StitchNext]_stitchVars => StitchInv'
<1> SUFFICES ASSUME StitchInv, [StitchNext]_stitchVars PROVE StitchInv'
  OBVIOUS
<1>0. UNCHANGED policy /\ UNCHANGED wish
  BY DEF StitchNext, StitchNetworks, FixNetworkSite, FixNodeSite, stitchVars
<1>1. AllPairs' = AllPairs /\ StitchPolicy' /\ AllPairs \subseteq PortPair
  BY <1>0, PolicyStands DEF StitchInv, AllPairs
<1>2. stating' = stating /\ option' = option /\ siteAsked' = siteAsked
  BY <1>0 DEF wish
<1>3. CASE StitchNetworks
  <2>1. CASE Pairs(stating) = <<>>
    <3>1. stitchStep' = "not found" /\ UNCHANGED <<netSite, nodeSite>> /\ stitchStep = "choose"
      BY <1>3, <2>1 DEF StitchNetworks
    <3> QED BY <1>1, <1>2, <3>1 DEF StitchInv
  <2>2. CASE Pairs(stating) # <<>>
    <3> DEFINE pair == Best(Pairs(stating))
    <3>1. IsBest(pair, AllPairs)
      BY <2>2, OffersAreAll DEF StitchInv
    <3>2. /\ chosen' = pair /\ stitchStep' = "stitched" /\ UNCHANGED <<netSite, nodeSite>>
          /\ interfaceOf' = [interfaceOf EXCEPT ![Consumer(pair)] = {Other(Consumer(pair))}]
          /\ stitchInfo' = [t \in Types |-> OwnFirst(t, pair)] /\ stitchStep = "choose"
      BY <1>3, <2>2 DEF StitchNetworks
    <3> HIDE DEF pair
    <3>3. pair \in AllPairs
      BY <3>1 DEF IsBest
    <3>4. Consumer(pair) \in Types
      BY <1>1, <3>3, BothTypes DEF PortPair, Consumer
    <3>5. interfaceOf' = [t \in Types |-> IF t = Consumer(pair) THEN {Other(t)} ELSE {}]
      BY <3>2, <3>4 DEF StitchInv
    <3>6. IsBest(chosen, AllPairs)'
      BY <1>1, <1>2, <3>1, <3>2 DEF IsBest, Named, AtSite, FindSite, Preferred
    <3>7. netSite' = NoSite /\ nodeSite' = NoSite
      BY <3>2 DEF StitchInv
    <3>8. /\ interfaceOf' = [t \in Types |-> IF t = Consumer(chosen') THEN {Other(t)} ELSE {}]
          /\ stitchInfo' = [t \in Types |-> OwnFirst(t, chosen')] /\ chosen' \in AllPairs'
      BY <1>1, <3>2, <3>3, <3>5
    <3> QED BY <1>1, <1>2, <3>2, <3>6, <3>7, <3>8 DEF StitchInv
  <2> QED BY <2>1, <2>2
<1>4. CASE FixNetworkSite \/ FixNodeSite
  <2>1. /\ stitchStep \in {"stitched", "fix"} /\ stitchStep' = "fix"
        /\ UNCHANGED <<chosen, interfaceOf, stitchInfo>>
    BY <1>4 DEF FixNetworkSite, FixNodeSite
  <2>2. GivenSite' = GivenSite
    BY <1>2, <2>1 DEF GivenSite, StitchSite
  <2>3. netSite' # NoSite => netSite' = GivenSite
    BY <1>4 DEF FixNetworkSite, FixNodeSite, GivenSite, StitchInv
  <2>4. nodeSite' # NoSite /\ siteAsked.node = NoSite => nodeSite' = GivenSite
    BY <1>4 DEF FixNetworkSite, FixNodeSite, GivenSite, StitchInv
  <2>5. /\ chosen' \in AllPairs'
        /\ interfaceOf' = [t \in Types |-> IF t = Consumer(chosen') THEN {Other(t)} ELSE {}]
        /\ stitchInfo' = [t \in Types |-> OwnFirst(t, chosen')]
    BY <1>1, <2>1 DEF StitchInv
  <2> QED BY <1>1, <1>2, <2>1, <2>2, <2>3, <2>4, <2>5 DEF StitchInv
<1>5. CASE UNCHANGED stitchVars
  <2>1. UNCHANGED <<chosen, interfaceOf, stitchInfo, netSite, nodeSite, stitchStep>>
    BY <1>5 DEF stitchVars
  <2>2. GivenSite' = GivenSite
    BY <1>2, <2>1 DEF GivenSite, StitchSite
  <2>3. IsBest(chosen, AllPairs) => IsBest(chosen, AllPairs)'
    BY <1>1, <1>2, <2>1 DEF IsBest, Named, AtSite, FindSite, Preferred
  <2>4. /\ stitchStep' \in {"stitched", "fix"} =>
            /\ chosen' \in AllPairs'
            /\ interfaceOf' = [t \in Types |-> IF t = Consumer(chosen') THEN {Other(t)} ELSE {}]
            /\ stitchInfo' = [t \in Types |-> OwnFirst(t, chosen')]
        /\ stitchStep' = "stitched" => IsBest(chosen, AllPairs)'
    BY <1>1, <2>1, <2>3 DEF StitchInv
  <2> QED BY <1>1, <1>2, <2>1, <2>2, <2>4 DEF StitchInv
<1> QED BY <1>3, <1>4, <1>5 DEF StitchNext

LEMMA StitchInvGives == StitchInv => StitchIsSound
<1> SUFFICES ASSUME StitchInv PROVE StitchIsSound
  OBVIOUS
<1>0. Offers = AllPairs /\ AllPairs \subseteq PortPair
  BY OffersAreAll DEF StitchInv, AllPairs
<1>1. PreferredStitch
  BY <1>0 DEF StitchInv, PreferredStitch, IsBest
<1>2. SameEitherWay
  <2>1. "chi" \in Types /\ "fabric" \in Types
    BY DEF Types
  <2>2. (Pairs("chi") = <<>>) = (Pairs("fabric") = <<>>)
    BY <2>1, OffersAreAll DEF StitchInv
  <2>3. ASSUME Pairs("chi") # <<>>
        PROVE  Best(Pairs("chi")).main.preference = Best(Pairs("fabric")).main.preference
    <3>1. IsBest(Best(Pairs("chi")), AllPairs) /\ IsBest(Best(Pairs("fabric")), AllPairs)
      BY <2>1, <2>2, <2>3, OffersAreAll DEF StitchInv
    <3> QED BY <1>0, <3>1, EitherIsAsGood
  <2> QED BY <2>2, <2>3 DEF SameEitherWay
<1>3. EndsMeet
  <2> SUFFICES ASSUME stitchStep \in {"stitched", "fix"}
               PROVE  /\ \A t \in Types : /\ stitchInfo[t].own.of = t
                                          /\ stitchInfo[t].own = stitchInfo[Other(t)].peer
                                          /\ (interfaceOf[t] = {}) = (chosen.producer = t)
                      /\ stitchInfo["chi"].own.name = stitchInfo["fabric"].own.name
    BY DEF EndsMeet
  <2>1. /\ chosen \in PortPair /\ Peers(chosen.main, chosen.peer)
        /\ interfaceOf = [t \in Types |-> IF t = Consumer(chosen) THEN {Other(t)} ELSE {}]
        /\ stitchInfo = [t \in Types |-> OwnFirst(t, chosen)]
    BY DEF StitchInv, AllPairs
  <2>2. /\ stitchInfo["chi"] = [own |-> chosen.peer, peer |-> chosen.main]
        /\ stitchInfo["fabric"] = [own |-> chosen.main, peer |-> chosen.peer]
    BY <2>1 DEF OwnFirst, Peers, Types
  <2>3. \A t \in Types : (interfaceOf[t] = {}) = (chosen.producer = t)
    BY <2>1 DEF PortPair, Types, Other, Consumer
  <2> QED BY <2>1, <2>2, <2>3 DEF Types, Other, Peers
<1>4. SitesAgree
  BY DEF StitchInv, SitesAgree
<1> QED BY <1>1, <1>2, <1>3, <1>4 DEF StitchIsSound

(* The pair of ports at which two networks are stitched is the best that both *)
(* policies offer, whichever of the two states stitch_with, its two ends are  *)
(* given to the two networks, and the sites derived from it agree.            *)
THEOREM StitchIsSoundHolds == StitchSpec => []StitchIsSound
<1>1. StitchSpec => []StitchInv
  BY StitchInitInv, StitchStepInv, PTL DEF StitchSpec
<1> QED BY <1>1, StitchInvGives, PTL
=============================================================================
