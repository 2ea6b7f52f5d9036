----------------------------- MODULE MCServices -----------------------------
(* The service clients and their helpers, checked in one run: a behaviour is *)
(* a behaviour of one of them, the others rest in a state of their own.      *)
EXTENDS Submission, Capabilities, KubeService, Gateway, IroService, FileTask, Outputs,
        TLC

VARIABLE part

servicesVars == <<part, submissionVars, capabilityVars, kubeVars, gatewayVars,
                  iroVars, fileVars, outputVars>>

SubmissionRests ==
    /\ credential = NoRecord /\ section = NoRecord /\ uri = NoUri
    /\ job = [resource |-> TRUE, executable |-> TRUE, convertible |-> TRUE]
    /\ SubmissionInit
CapabilitiesRest ==
    /\ caps = [k \in 1..2 |-> [id |-> "a", name |-> "a", uri |-> NoWord]]
    /\ compute = [declared |-> NoWord, name |-> NoWord, group |-> NoWord]
    /\ allocation = "a" /\ CapabilitiesInit
KubeRests == /\ namespace = [j \in KubeJobs |-> Home]
             /\ completions = [j \in KubeJobs |-> 1] /\ KubeInit
GatewayRests == /\ advertised = Facilities /\ allowed = Facilities
                /\ credentials = {} /\ taken = {} /\ token = TRUE /\ GatewayInit
IroRests == /\ named = IntentJobs /\ profile = TRUE /\ defaults = TRUE
            /\ executable = [j \in IntentJobs |-> "own"] /\ IroInit
FileRests == wraps = TRUE /\ FileInit
OutputsRest == storages = <<>> /\ resourceId = TRUE /\ paths = {} /\ OutputsInit

Init ==
    \/ /\ part = "submission"
       /\ CapabilitiesRest /\ KubeRests /\ GatewayRests /\ IroRests /\ FileRests /\ OutputsRest
       /\ SubmissionInit
    \/ /\ part = "capabilities"
       /\ SubmissionRests /\ KubeRests /\ GatewayRests /\ IroRests /\ FileRests /\ OutputsRest
       /\ CapabilitiesInit
    \/ /\ part = "kube"
       /\ SubmissionRests /\ CapabilitiesRest /\ GatewayRests
       /\ IroRests /\ FileRests /\ OutputsRest
       /\ KubeInit
    \/ /\ part = "gateway"
       /\ SubmissionRests /\ CapabilitiesRest /\ KubeRests /\ IroRests /\ FileRests /\ OutputsRest
       /\ GatewayInit
    \/ /\ part = "iro"
       /\ SubmissionRests /\ CapabilitiesRest /\ KubeRests
       /\ GatewayRests /\ FileRests /\ OutputsRest
       /\ IroInit
    \/ /\ part = "file"
       /\ SubmissionRests /\ CapabilitiesRest /\ KubeRests
       /\ GatewayRests /\ IroRests /\ OutputsRest
       /\ FileInit
    \/ /\ part = "outputs"
       /\ SubmissionRests /\ CapabilitiesRest /\ KubeRests /\ GatewayRests /\ IroRests /\ FileRests
       /\ OutputsInit

OfSubmission(A) ==
    /\ part = "submission" /\ A
    /\ UNCHANGED <<part, capabilityVars, kubeVars, gatewayVars, iroVars, fileVars, outputVars>>
OfCapabilities(A) ==
    /\ part = "capabilities" /\ A
    /\ UNCHANGED <<part, submissionVars, kubeVars, gatewayVars, iroVars, fileVars, outputVars>>
OfKube(A) ==
    /\ part = "kube" /\ A
    /\ UNCHANGED <<part, submissionVars, capabilityVars, gatewayVars, iroVars,
                   fileVars, outputVars>>
OfGateway(A) ==
    /\ part = "gateway" /\ A
    /\ UNCHANGED <<part, submissionVars, capabilityVars, kubeVars, iroVars, fileVars, outputVars>>
OfIro(A) ==
    /\ part = "iro" /\ A
    /\ UNCHANGED <<part, submissionVars, capabilityVars, kubeVars, gatewayVars,
                   fileVars, outputVars>>
OfFile(A) ==
    /\ part = "file" /\ A
    /\ UNCHANGED <<part, submissionVars, capabilityVars, kubeVars, gatewayVars,
                   iroVars, outputVars>>
OfOutputs(A) ==
    /\ part = "outputs" /\ A
    /\ UNCHANGED <<part, submissionVars, capabilityVars, kubeVars, gatewayVars, iroVars, fileVars>>

Next ==
    \/ OfSubmission(SubmissionNext) \/ OfCapabilities(CapabilitiesNext) \/ OfKube(KubeNext)
    \/ OfGateway(GatewayNext) \/ OfIro(IroNext) \/ OfFile(FileNext)
    \/ OfOutputs(OutputsNext)

FacilitySymmetry == Permutations(Facilities)

Spec == Init /\ [][Next]_servicesVars
=============================================================================
