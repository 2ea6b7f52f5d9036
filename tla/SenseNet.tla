------------------------------ MODULE SenseNet ------------------------------
(* The SENSE plug-in: a network is a service instance of an orchestrator,    *)
(* looked up by its alias in every run, provisioned, waited for, cancelled   *)
(* and deleted. The answer to a creation may be lost, and the creation is    *)
(* then tried again; an instance may fail, and runs may time out or die.     *)
EXTENDS Integers, SequencesExt, SavedEntry

CONSTANTS MaxServices,   \* bound: instances ever made under the alias
          Terminals      \* editable terminals of the profile

ASSUME SenseAssumption == MaxServices \in Nat /\ Terminals \in Nat

NoService == 0
NoIndex == -1

VARIABLES services,    \* operation and progress of each instance with the alias
          interfaces,  \* terminal index that each configured interface asks for
          needs,       \* what the manifest is read for: nothing, a GCP pairing key, nodes
          senseStep, service, seen,   \* where the run is, its instance, the status it read
          senseEntry,  \* what the saved states tell of the network
          lost,        \* ghost: the answer to a creation was lost
          hasty        \* ghost: a premature status outlasted the sleep before it is read

senseVars == <<services, interfaces, needs, senseStep, service, seen, senseEntry, lost, hasty>>
config == <<interfaces, needs>>

Compiled == [op |-> "CREATE", at |-> "COMPILED"]
Cancelled == [op |-> "CANCEL", at |-> "READY"]
Ready == {[op |-> o, at |-> "READY"] : o \in {"CREATE", "REINSTATE"}}
Deleted == [op |-> "none", at |-> "DELETED"]
Leaked == [op |-> "none", at |-> "LEAKED"]        \* deleted with its devices still configured
Standing == {i \in DOMAIN services : services[i] \notin {Deleted, Leaked}}
(* A cancellation that has only begun may be shown as one that is over.      *)
Shown(s) == IF s.at = "EARLY" THEN Cancelled ELSE s
Removed(i) == IF services[i] \in {Compiled, Cancelled} THEN Deleted ELSE Leaked

SenseInit ==
    /\ services = <<>>
    /\ interfaces \in {<<NoIndex, NoIndex>>, <<0, 1>>}
    /\ needs \in {"nothing", "key", "nodes"}
    /\ senseStep = "idle" /\ service = NoService /\ seen = Deleted
    /\ senseEntry = NoEntry /\ lost = FALSE /\ hasty = FALSE

(* populate_options_using_interfaces: an index of 0 counts as none; indexes  *)
(* are given to all interfaces or to none of them.                           *)
Asked == {k \in DOMAIN interfaces : interfaces[k] > 0}
Populated ==
    /\ Len(interfaces) <= Terminals
    /\ Asked # {} => Asked = DOMAIN interfaces /\ \A k \in Asked : interfaces[k] < Terminals

(* The run is over, and with it what its process held.                       *)
EndSense == senseStep' = "idle" /\ service' = NoService /\ seen' = Deleted

(* The network could not be created, or was; the states are saved.           *)
SaveFailed ==
    /\ EndSense
    /\ \E kept \in MayKeep(senseEntry) : senseEntry' = FailedEntry(senseEntry, kept)
SaveCreated(succeeded) ==
    /\ senseEntry' = AppliedEntry
    /\ IF succeeded THEN senseStep' = "applied" /\ UNCHANGED <<service, seen>> ELSE EndSense

(* find_instance_by_alias: the first of the instances found.                 *)
BeginSense ==
    /\ senseStep = "idle"
    /\ \/ /\ Standing = {} /\ Populated
          /\ senseStep' = "new" /\ UNCHANGED <<service, seen, senseEntry>>
       \/ /\ Standing = {} /\ ~Populated
          /\ SaveFailed
       \/ /\ service' \in Standing
          /\ seen' = Shown(services[service'])
          /\ senseStep' = "operate" /\ UNCHANGED senseEntry
    /\ UNCHANGED <<services, config, lost, hasty>>

(* create_instance: one attempt; an answer that is lost leads to another.    *)
CreateInstance ==
    /\ senseStep = "new" /\ Len(services) < MaxServices
    /\ services' = Append(services, Compiled)
    /\ \/ /\ service' = Len(services') /\ seen' = Compiled
          /\ senseStep' = "operate" /\ UNCHANGED lost
       \/ /\ lost' = TRUE
          /\ UNCHANGED <<service, seen, senseStep>>
    /\ UNCHANGED <<config, senseEntry, hasty>>

(* instance_operate: provision, unless it goes on; errors are swallowed.     *)
Operate ==
    /\ senseStep = "operate" /\ seen.at # "FAILED"
    /\ services' =
         IF \/ seen = [op |-> "CREATE", at |-> "READY"]
            \/ services[service] = [op |-> "CREATE", at |-> "COMMITTING"]
         THEN services
         ELSE CASE services[service] = Compiled ->
                     [services EXCEPT ![service] = [op |-> "CREATE", at |-> "COMMITTING"]]
                [] services[service] = Cancelled ->
                     [services EXCEPT ![service] = [op |-> "REINSTATE", at |-> "COMMITTING"]]
                [] OTHER -> services
    /\ senseStep' = "wait" /\ seen' = Deleted             \* not looked at again
    /\ UNCHANGED <<config, service, senseEntry, lost, hasty>>

\* Mutant of Accepted: the wider list of statuses that the source has commented out.
AcceptedCommitted == Ready \cup {[op |-> o, at |-> "COMMITTED"] : o \in {"CREATE", "REINSTATE"}}

(* wait_for_instance_operate.                                                *)
Accepted == Ready

(* manifest_create: an answer that is a dictionary cannot be decoded, and    *)
(* one that is text is decoded into a namespace, which has no get.           *)
ManifestRead == FALSE

(* SenseNetwork.create, to the pairing key; SenseNode.create of the nodes.   *)
WaitReady ==
    /\ senseStep = "wait" /\ services[service] \in Accepted
    /\ CASE needs = "nodes" -> senseStep' = "nodes" /\ UNCHANGED <<service, seen, senseEntry>>
         [] needs = "key" /\ ~ManifestRead -> SaveFailed
         [] OTHER -> SaveCreated(TRUE)
    /\ UNCHANGED <<services, config, lost, hasty>>
SenseNodes ==
    /\ senseStep = "nodes" /\ services[service] \in Accepted
    /\ SaveCreated(ManifestRead)
    /\ UNCHANGED <<services, config, lost, hasty>>

(* Controller.destroy does not come to a network that is not known.          *)
SenseForgotten ==
    /\ senseStep = "idle" /\ ~IsKnown(senseEntry)
    /\ senseStep' = "destroyed"
    /\ UNCHANGED <<services, config, service, seen, senseEntry, lost, hasty>>

\* Mutant of Pause: the status is read at once.
PauseNever == "poll"

(* delete_instance: the status is read after a sleep only, a workaround for  *)
(* the premature one.                                                        *)
Pause == "cancel"
BeginUnsense ==
    /\ senseStep \in {"idle", "applied"} /\ IsKnown(senseEntry)
    /\ \/ /\ Standing = {}
          /\ senseStep' = "destroyed" /\ senseEntry' = NoEntry
          /\ UNCHANGED <<services, service>>
       \/ \E i \in Standing :
            /\ service' = i
            /\ services[i].at # "FAILED"
            /\ IF services[i] = Compiled
               THEN /\ services' = [services EXCEPT ![i] = Removed(i)]
                    /\ senseStep' = "destroyed" /\ senseEntry' = NoEntry
               ELSE /\ \/ services[i].op = "CANCEL" /\ UNCHANGED services
                       \/ /\ services[i].op # "CANCEL"
                          /\ \E at \in {"EARLY", "COMMITTING"} :
                               services' = [services EXCEPT ![i] = [op |-> "CANCEL", at |-> at]]
                    /\ senseStep' = Pause /\ UNCHANGED senseEntry
    /\ UNCHANGED <<config, seen, lost, hasty>>
Sleep ==
    /\ senseStep = "cancel"
    /\ senseStep' = "poll"
    /\ hasty' = (hasty \/ services[service].at = "EARLY")
    /\ UNCHANGED <<services, config, service, seen, senseEntry, lost>>

\* Mutant of CancelDone: any status of a cancellation will do.
CancelDoneSoon(status) == status.op = "CANCEL"

CancelDone(status) == status = Cancelled
DeleteInstance ==
    /\ senseStep = "poll" /\ CancelDone(Shown(services[service]))
    /\ services' = [services EXCEPT ![service] = Removed(service)]
    /\ senseStep' = "destroyed" /\ senseEntry' = NoEntry
    /\ UNCHANGED <<config, service, seen, lost, hasty>>
SleepAgain ==
    /\ senseStep = "poll" /\ ~CancelDone(Shown(services[service]))
    /\ senseStep' = Pause
    /\ UNCHANGED <<services, config, service, seen, senseEntry, lost, hasty>>

(* A failed instance, a time-out, another resource that fails first; the     *)
(* death of the process; the next run.                                       *)
Unsensing == senseStep \in {"cancel", "poll"}
SenseFail ==
    /\ \/ senseStep \in {"new", "operate", "wait"} /\ SaveFailed
       \/ senseStep = "nodes" /\ SaveCreated(FALSE)
       \/ /\ Unsensing \/ (senseStep = "idle" /\ IsKnown(senseEntry))
          /\ EndSense /\ senseEntry' = UndeletedEntry(senseEntry)
       \/ /\ senseStep = "idle" /\ EndSense
          /\ \E kept \in MayKeep(senseEntry) : senseEntry' = PassedEntry(senseEntry, kept)
    /\ UNCHANGED <<services, config, lost, hasty>>
SenseDie ==
    /\ senseStep \notin {"idle", "applied", "destroyed"}
    /\ EndSense
    /\ senseEntry' = IF Unsensing THEN senseEntry ELSE DiedEntry(senseEntry)
    /\ UNCHANGED <<services, config, lost, hasty>>
SenseAgain ==
    /\ senseStep \in {"applied", "destroyed"}
    /\ EndSense
    /\ UNCHANGED <<services, config, senseEntry, lost, hasty>>

(* The orchestrator.                                                         *)
Orchestrate ==
    /\ \E i \in Standing : \E at \in {"COMMITTING", "COMMITTED", "READY", "FAILED"} :
        /\ \/ services[i].at = "EARLY" /\ at = "COMMITTING"
           \/ services[i].at = "COMMITTING" /\ at \in {"COMMITTED", "FAILED"}
           \/ services[i].at = "COMMITTED" /\ at \in {"READY", "FAILED"}
        /\ services' = [services EXCEPT ![i].at = at]
    /\ UNCHANGED <<config, senseStep, service, seen, senseEntry, lost, hasty>>

SenseNext ==
    \/ BeginSense \/ CreateInstance \/ Operate \/ WaitReady \/ SenseNodes
    \/ SenseForgotten \/ BeginUnsense \/ Sleep \/ DeleteInstance \/ SleepAgain
    \/ SenseFail \/ SenseDie \/ SenseAgain \/ Orchestrate

SenseSpec == SenseInit /\ [][SenseNext]_senseVars

-----------------------------------------------------------------------------
(* A network counts as created only while an instance of it is in service,   *)
(* also when an instance that was found again was being cancelled.           *)
AppliedIsReady == senseStep = "applied" => services[service] \in Ready

(* A destroy leaves no instance behind, and none half cancelled, unless the  *)
(* answer to a creation had been lost: the alias then stands for two; or the *)
(* orchestrator showed a cancellation as over for longer than the sleep; or  *)
(* a run died, or failed on its way here, with nothing saved that leads here.*)
NoInstanceLeft ==
    senseStep = "destroyed" /\ ~lost /\ ~hasty /\ senseEntry # Adrift =>
        \A i \in DOMAIN services : services[i] = Deleted

(* What sense_utils.py has made of the instances whenever it reports success. *)
SenseIsRight == AppliedIsReady /\ NoInstanceLeft
=============================================================================
