------------------------------ MODULE CloudLab ------------------------------
(* The CloudLab plug-in: the network of a provider is an experiment named    *)
(* after the session, and its nodes are looked up in it by their index. An   *)
(* experiment cannot be changed: when the configuration differs from the     *)
(* saved states it is terminated and started anew.                           *)
EXTENDS Integers, SavedEntry

CONSTANT MaxNodes         \* bound: nodes that the user asks for

ASSUME CloudLabAssumption == MaxNodes \in Nat

Unsaved == -1

VARIABLES asked,        \* node count of the configuration
          experiment,   \* status of the experiment and the node_count it was started with
          savedCount,   \* nodes in the saved states, Unsaved: the network is not saved
          labEntry,     \* what the saved states tell of the network
          labStep,      \* where the run is
          gaveUp,       \* ghost: waiting ran out of attempts
          strayed       \* ghost: since the experiment was last gone a run failed, or its
                        \* termination was refused

labVars == <<asked, experiment, savedCount, labEntry, labStep, gaveUp, strayed>>

NoExperiment == [status |-> "none", count |-> 0]

LabInit ==
    /\ asked \in 0..MaxNodes
    /\ experiment = NoExperiment
    /\ savedCount = Unsaved /\ labEntry = NoEntry
    /\ labStep = "idle" /\ gaveUp = FALSE /\ strayed = FALSE

\* Mutant of Absent: an experiment that is being terminated counts as absent.
AbsentSoon == {"none", "terminating"}

(* The statuses in which an experiment is not found.                         *)
Absent == {"none"}

\* Mutant of Modified: only a larger configuration counts as a change.
ModifiedUp == savedCount # Unsaved /\ asked > savedCount

(* Provider.modified: what is added against what the saved states have.      *)
Modified == savedCount # Unsaved /\ asked # savedCount

(* do_create_resource of the network: a modified one is terminated first,    *)
(* which waits for as long as it takes; an error is logged only.             *)
BeginLab ==
    /\ labStep = "idle"
    /\ labStep' = IF Modified /\ experiment.status \notin Absent THEN "terminate" ELSE "create"
    /\ gaveUp' = FALSE
    /\ UNCHANGED <<asked, experiment, savedCount, labEntry, strayed>>
Terminate ==
    /\ labStep \in {"terminate", "destroy"}
    /\ experiment' = [experiment EXCEPT !.status = "terminating"]
    /\ labStep' = IF labStep = "terminate" THEN "terminating" ELSE "destroying"
    /\ UNCHANGED <<asked, savedCount, labEntry, gaveUp, strayed>>
TerminateRefused ==
    /\ labStep = "terminate"
    /\ labStep' = "create" /\ strayed' = TRUE
    /\ UNCHANGED <<asked, experiment, savedCount, labEntry, gaveUp>>
Terminated ==
    /\ labStep \in {"terminating", "destroying"} /\ experiment.status \in Absent
    /\ labStep' = IF labStep = "terminating" THEN "create" ELSE "destroyed"
    /\ IF labStep = "destroying" THEN savedCount' = Unsaved /\ labEntry' = NoEntry
       ELSE UNCHANGED <<savedCount, labEntry>>
    /\ strayed' = FALSE
    /\ UNCHANGED <<asked, experiment, gaveUp>>

(* CloudNetwork.create: one that exists will do.                             *)
StartExperiment ==
    /\ labStep = "create"
    /\ IF experiment.status \in Absent
       THEN experiment' = [status |-> "provisioning", count |-> asked]
       ELSE UNCHANGED experiment
    /\ labStep' = "wait"
    /\ UNCHANGED <<asked, savedCount, labEntry, gaveUp, strayed>>
(* wait_for_create: the attempts may run out, which goes unnoticed, and the  *)
(* manifests are there before the experiment is ready.                       *)
WaitForCreate ==
    /\ labStep = "wait" /\ experiment.status \in {"provisioning", "ready"}
    /\ gaveUp' = (experiment.status # "ready")
    /\ labStep' = "nodes"
    /\ UNCHANGED <<asked, experiment, savedCount, labEntry, strayed>>

(* CloudlabNode.create of each node.                                         *)
NodesFound == asked > 0 => experiment.status = "ready" /\ asked <= experiment.count
CreateNodes ==
    /\ labStep = "nodes" /\ NodesFound
    /\ labStep' = "applied"
    /\ savedCount' = asked /\ labEntry' = AppliedEntry
    /\ UNCHANGED <<asked, experiment, gaveUp, strayed>>

(* Controller.destroy and, for a network that is known, do_delete_resource.  *)
BeginUnlab ==
    /\ labStep \in {"idle", "applied"}
    /\ IF IsKnown(labEntry) /\ experiment.status \notin Absent
       THEN labStep' = "destroy" /\ UNCHANGED <<savedCount, labEntry>>
       ELSE /\ labStep' = "destroyed"
            /\ savedCount' = Unsaved
            /\ labEntry' = IF IsKnown(labEntry) THEN NoEntry ELSE labEntry
    /\ UNCHANGED <<asked, experiment, gaveUp, strayed>>

(* An error, after which the counts of the configuration are saved all the   *)
(* same, and the death of the process. The user edits and runs again, but    *)
(* leaves the nodes in the configuration (Reconfigure has what comes of      *)
(* resources that are taken out of it).                                      *)
Unlabbing == labStep \in {"destroy", "destroying"}
LabFail ==
    /\ labStep \notin {"applied", "destroyed"}
    /\ labStep' = "idle" /\ strayed' = TRUE
    /\ savedCount' = IF Unlabbing THEN savedCount ELSE asked
    /\ \E kept \in MayKeep(labEntry) :
        labEntry' = CASE Unlabbing -> UndeletedEntry(labEntry)
                      [] labStep = "nodes" -> AppliedEntry     \* a node failed
                      [] labStep = "idle" -> PassedEntry(labEntry, kept)
                      [] OTHER -> FailedEntry(labEntry, kept)
    /\ UNCHANGED <<asked, experiment, gaveUp>>
LabDie ==
    /\ labStep \notin {"idle", "applied", "destroyed"}
    /\ labStep' = "idle" /\ strayed' = TRUE
    /\ labEntry' = IF Unlabbing THEN labEntry ELSE DiedEntry(labEntry)
    /\ UNCHANGED <<asked, experiment, savedCount, gaveUp>>
EditLab ==
    /\ labStep \in {"idle", "applied", "destroyed"}
    /\ asked' \in (IF asked = 0 THEN 0 ELSE 1)..MaxNodes
    /\ labStep' = "idle"
    /\ UNCHANGED <<experiment, savedCount, labEntry, gaveUp, strayed>>

(* The testbed.                                                              *)
Testbed ==
    /\ \/ /\ experiment.status = "provisioning"
          /\ \E s \in {"ready", "failed"} : experiment' = [experiment EXCEPT !.status = s]
       \/ experiment.status = "terminating" /\ experiment' = NoExperiment
    /\ UNCHANGED <<asked, savedCount, labEntry, labStep, gaveUp, strayed>>

LabNext ==
    \/ BeginLab \/ Terminate \/ TerminateRefused \/ Terminated \/ StartExperiment
    \/ WaitForCreate \/ CreateNodes \/ BeginUnlab \/ LabFail \/ LabDie \/ EditLab \/ Testbed

LabSpec == LabInit /\ [][LabNext]_labVars

-----------------------------------------------------------------------------
(* An apply that succeeded leaves an experiment of the configured size that  *)
(* is ready, however often it was edited, except where the code looks away:  *)
(* a termination that was refused, waiting that gave up on a network without *)
(* nodes, a run that failed since the experiment was last gone.              *)
ExactExperiment ==
    labStep = "applied" =>
        /\ experiment.count = asked \/ strayed
        /\ experiment.status = "ready" \/ (gaveUp /\ asked = 0)

(* After a destroy the experiment is gone, whatever state it was found in    *)
(* and however many runs failed before: a run that could have started it has *)
(* left an entry that leads to it, unless that run died, or a later one      *)
(* failed on its way to the network and overwrote the entry.                 *)
ExperimentGone ==
    labStep = "destroyed" /\ labEntry # Adrift => experiment.status = "none"

(* What cloudlab_network.py has made of the experiment on success.            *)
LabIsRight == ExactExperiment /\ ExperimentGone
=============================================================================
