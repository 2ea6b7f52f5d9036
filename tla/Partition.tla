------------------------------ MODULE Partition -----------------------------
(***************************************************************************)
(* How the controller gives each of the networks that share a layer 3      *)
(* configuration a range of its addresses (amscrot/controller/helper.py).  *)
(* Addresses are the last numbers of a prefix; the prefix length of the    *)
(* subnet is not looked at by the code, nor here.                          *)
(***************************************************************************)
EXTENDS Integers, Sequences

CONSTANTS MaxAddress,   \* bound: the last address there is, 255
          MaxSharing    \* bound: networks that share the configuration

ASSUME PartitionAssumption == MaxAddress \in Nat /\ MaxSharing \in Nat \ {0}

NotGiven == -1

VARIABLES
    sharing,            \* how many networks share it
    rangeStart, rangeEnd, masked,   \* dhcp_start and dhcp_end, and whether one has a "/"
    dhcpStart,          \* where the next range starts
    leases,             \* the ranges given so far, one per network
    dividing            \* "populate", "divide", "divided", or "shared": left as it is

partitionVars == <<sharing, rangeStart, rangeEnd, masked, dhcpStart, leases, dividing>>
given == <<sharing, rangeStart, rangeEnd, masked>>

PartitionInit ==
    /\ sharing \in 1..MaxSharing
    /\ rangeStart \in {NotGiven} \cup 0..MaxAddress
    /\ rangeEnd \in {NotGiven} \cup 0..MaxAddress
    /\ masked \in BOOLEAN
    /\ dhcpStart = 0 /\ leases = <<>> /\ dividing = "populate"

(* populate_layer3_config; a range that ends before it starts is no input.   *)
Populate ==
    /\ dividing = "populate"
    /\ rangeStart' = IF rangeStart = NotGiven THEN 2 ELSE rangeStart
    /\ rangeEnd' = IF rangeEnd = NotGiven THEN MaxAddress - 1 ELSE rangeEnd
    /\ 0 <= rangeStart' /\ rangeStart' <= rangeEnd'
    /\ dhcpStart' = rangeStart'
    /\ dividing' = IF sharing = 1 \/ masked THEN "shared" ELSE "divide"
    /\ UNCHANGED <<sharing, masked, leases>>

\* Mutant of Interval: a share is rounded up.
IntervalUp == (rangeEnd - rangeStart) \div sharing + 1

Interval == (rangeEnd - rangeStart) \div sharing

\* Mutant of EndOf: the last address is not looked at.
EndOfAny(start) == start + Interval

EndOf(start) == IF start + Interval > rangeEnd THEN rangeEnd ELSE start + Interval

\* Mutant of NextStart: the next range starts where this one ends.
NextStartSame(end) == end

NextStart(end) == end + 1

(* partition_layer3_config: the next network.                                *)
Give ==
    /\ dividing = "divide" /\ Len(leases) < sharing
    /\ leases' = Append(leases, [start |-> dhcpStart, end |-> EndOf(dhcpStart)])
    /\ dhcpStart' = NextStart(EndOf(dhcpStart))
    /\ dividing' = IF Len(leases) + 1 = sharing THEN "divided" ELSE "divide"
    /\ UNCHANGED given

PartitionNext == Populate \/ Give

PartitionSpec == PartitionInit /\ [][PartitionNext]_partitionVars

-----------------------------------------------------------------------------
PartitionTypeOK ==
    /\ sharing \in 1..MaxSharing /\ masked \in BOOLEAN
    /\ rangeStart \in Int /\ rangeEnd \in Int /\ dhcpStart \in Int
    /\ leases \in Seq([start : Int, end : Int])
    /\ dividing \in {"populate", "divide", "divided", "shared"}

\* "partitions the ip address space automatically ... less error-prone"
\* (docs/workflow_design.md): no address is handed out by two networks, and
\* none from outside of the range of the configuration.
LeasesApart ==
    \A i, j \in 1..Len(leases) : i < j =>
        \A x \in leases[i].start..leases[i].end : x \notin leases[j].start..leases[j].end
LeasesInside ==
    \A i \in 1..Len(leases) : leases[i].start >= rangeStart /\ leases[i].end <= rangeEnd

\* Every network has an address, if there are plenty: each of n ranges takes
\* one more than its share, so that with fewer than n * (n - 1) + 1 addresses
\* the last ranges may be empty, even if there are more addresses than networks.
EveryoneServed ==
    dividing = "divided" /\ rangeEnd - rangeStart >= sharing * (sharing - 1) =>
        \A i \in 1..Len(leases) : leases[i].start <= leases[i].end

\* The ranges of controller/helper.py are apart and within the configured one,
\* and everyone gets one of its own when there is enough.
LeasesAreSound == LeasesApart /\ LeasesInside /\ EveryoneServed
=============================================================================
