------------------------------ MODULE MCPlugins -----------------------------
(* What is planned, and the plug-ins that carry it out, checked in one run:  *)
(* a behaviour is a behaviour of one of them, while the others rest in their *)
(* first state.                                                              *)
EXTENDS Planning, FabricSlice, AwsNet, GcpNet, SenseNet, CloudLab, Chameleon, TLC

VARIABLE plugin

pluginVars == <<plugin, planningVars, fabricVars, awsVars, gcpVars, senseVars, labVars, chiVars>>

FabricRests == wanted = [nodes |-> {}, nets |-> {}] /\ FabricInit
AwsRests == connection = "available" /\ subnetOf = UserTable /\ AwsInit
SenseRests == interfaces = <<NoIndex, NoIndex>> /\ needs = "nothing" /\ SenseInit
LabRests == asked = 0 /\ LabInit
ChiRests == chiCount = 1 /\ bound = [f \in FloatingIps |-> Free] /\ ChiInit

Init ==
    \/ /\ plugin = "none" /\ PlanningInit
       /\ FabricRests /\ AwsRests /\ GcpInit /\ SenseRests /\ LabRests /\ ChiRests
    \/ /\ PlanningRests
       /\ \/ /\ plugin = "fabric"
             /\ FabricInit /\ AwsRests /\ GcpInit /\ SenseRests /\ LabRests /\ ChiRests
          \/ /\ plugin = "aws"
             /\ FabricRests /\ AwsInit /\ GcpInit /\ SenseRests /\ LabRests /\ ChiRests
          \/ /\ plugin = "gcp"
             /\ FabricRests /\ AwsRests /\ GcpInit /\ SenseRests /\ LabRests /\ ChiRests
          \/ /\ plugin = "sense"
             /\ FabricRests /\ AwsRests /\ GcpInit /\ SenseInit /\ LabRests /\ ChiRests
          \/ /\ plugin = "cloudlab"
             /\ FabricRests /\ AwsRests /\ GcpInit /\ SenseRests /\ LabInit /\ ChiRests
          \/ /\ plugin = "chi"
             /\ FabricRests /\ AwsRests /\ GcpInit /\ SenseRests /\ LabRests /\ ChiInit

OfPlanning(A) ==
    /\ plugin = "none" /\ A
    /\ UNCHANGED <<plugin, fabricVars, awsVars, gcpVars, senseVars, labVars, chiVars>>
OfFabric(A) ==
    /\ plugin = "fabric" /\ A
    /\ UNCHANGED <<plugin, planningVars, awsVars, gcpVars, senseVars, labVars, chiVars>>
OfAws(A) ==
    /\ plugin = "aws" /\ A
    /\ UNCHANGED <<plugin, planningVars, fabricVars, gcpVars, senseVars, labVars, chiVars>>
OfGcp(A) ==
    /\ plugin = "gcp" /\ A
    /\ UNCHANGED <<plugin, planningVars, fabricVars, awsVars, senseVars, labVars, chiVars>>
OfSense(A) ==
    /\ plugin = "sense" /\ A
    /\ UNCHANGED <<plugin, planningVars, fabricVars, awsVars, gcpVars, labVars, chiVars>>
OfCloudLab(A) ==
    /\ plugin = "cloudlab" /\ A
    /\ UNCHANGED <<plugin, planningVars, fabricVars, awsVars, gcpVars, senseVars, chiVars>>
OfChi(A) ==
    /\ plugin = "chi" /\ A
    /\ UNCHANGED <<plugin, planningVars, fabricVars, awsVars, gcpVars, senseVars, labVars>>

Next ==
    \/ OfPlanning(PlanningNext)
    \/ OfFabric(FabricNext) \/ OfAws(AwsNext) \/ OfGcp(GcpNext)
    \/ OfSense(SenseNext) \/ OfCloudLab(LabNext) \/ OfChi(ChiNext)

(* FABRIC nodes are told apart by nothing but their names.                   *)
NodeSymmetry == Permutations(FabNodes)

Spec == Init /\ [][Next]_pluginVars
=============================================================================
