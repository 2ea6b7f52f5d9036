------------------------------ MODULE Planning ------------------------------
(***************************************************************************)
(* What the controller works out before a provider is called: the stitch   *)
(* ports of the networks, the order of the resources, the address ranges,  *)
(* and what an apply will change.  A behaviour is a behaviour of one of    *)
(* these computations, while the others rest in their first state.         *)
(***************************************************************************)
EXTENDS Ordering, Partition, Stitch, Reconfigure

VARIABLE part

planningVars == <<part, orderingVars, partitionVars, stitchVars, reconfigureVars>>

OrderingRests ==
    /\ refers = [r \in ConfigResource |-> {}] /\ counted = {} /\ OrderingInit
PartitionRests ==
    /\ sharing = 1 /\ rangeStart = NotGiven /\ rangeEnd = NotGiven /\ masked = FALSE
    /\ PartitionInit
StitchRests ==
    /\ ports = [t \in Types |-> <<>>] /\ groups = [t \in Types |-> <<"G", "H">>]
    /\ producers = [G |-> {"fabric"}, H |-> {"fabric"}]
    /\ stating = "chi" /\ option = [key |-> "none", value |-> "none"]
    /\ siteAsked = [net |-> NoSite, node |-> NoSite] /\ StitchInit
ReconfigureRests ==
    /\ kind = "parts" /\ entry = "cli" /\ count = [l \in Labels |-> 0] /\ ReconfigureInit

PlanningInit ==
    \/ part = "order" /\ OrderingInit /\ PartitionRests /\ StitchRests /\ ReconfigureRests
    \/ part = "partition" /\ PartitionInit /\ OrderingRests /\ StitchRests /\ ReconfigureRests
    \/ part = "stitch" /\ StitchInit /\ OrderingRests /\ PartitionRests /\ ReconfigureRests
    \/ part = "edit" /\ ReconfigureInit /\ OrderingRests /\ PartitionRests /\ StitchRests

PlanningRests ==
    /\ part = "order" /\ OrderingRests /\ PartitionRests /\ StitchRests /\ ReconfigureRests

OfOrder(A) == part = "order" /\ A /\ UNCHANGED <<part, partitionVars, stitchVars, reconfigureVars>>
OfPartition(A) ==
    part = "partition" /\ A /\ UNCHANGED <<part, orderingVars, stitchVars, reconfigureVars>>
OfStitch(A) ==
    part = "stitch" /\ A /\ UNCHANGED <<part, orderingVars, partitionVars, reconfigureVars>>
OfEdit(A) == part = "edit" /\ A /\ UNCHANGED <<part, orderingVars, partitionVars, stitchVars>>

PlanningNext ==
    \/ OfOrder(OrderingNext) \/ OfPartition(PartitionNext)
    \/ OfStitch(StitchNext) \/ OfEdit(ReconfigureNext)
=============================================================================
