--------------------------- MODULE Plugins_proofs ---------------------------
(* Proofs about the plug-ins, for any configuration, any number of objects   *)
(* at their testbeds and every order of runs, failures and answers: what a   *)
(* run that reports success has made of the testbed is right. Each invariant *)
(* ties the objects at the testbed to the step of the run.  The last part is *)
(* about what all of them have in common when a configuration is edited      *)
(* (Reconfigure), for any counts.                                            *)
EXTENDS CloudLab, GcpNet, SenseNet, FabricSlice, Chameleon, AwsNet, Reconfigure,
        FiniteSetTheorems, TLAPS
-----------------------------------------------------------------------------
(* What is saved of one resource.                                            *)

EntryTypes(e) == e = NoEntry \/ e = Adrift \/ IsKnown(e)

\* What the entries that runs write tell: after an apply that came to the
\* resource, and after a deletion that failed, destroy knows it; nothing that
\* was made is taken for never made.
LEMMA Entries ==
    ASSUME NEW e, EntryTypes(e), NEW keeps \in BOOLEAN
    PROVE  /\ IsKnown(AppliedEntry) /\ IsKnown(FailedEntry(e, keeps)) /\ IsKnown(UndeletedEntry(e))
           /\ ~IsKnown(NoEntry) /\ ~IsKnown(Adrift) /\ NoEntry # Adrift
           /\ EntryTypes(PassedEntry(e, keeps))
           /\ PassedEntry(e, keeps) = NoEntry => e = NoEntry
           /\ EntryTypes(DiedEntry(e)) /\ DiedEntry(e) # NoEntry
           /\ IsKnown(e) => IsKnown(DiedEntry(e))
<1> USE DEF EntryTypes, IsKnown, NoEntry, Adrift, AppliedEntry, StateKept
<1>1. IsKnown(AppliedEntry) /\ IsKnown(FailedEntry(e, keeps)) /\ IsKnown(UndeletedEntry(e))
  BY DEF FailedEntry, UndeletedEntry
<1>2. ~IsKnown(NoEntry) /\ ~IsKnown(Adrift) /\ NoEntry # Adrift
  OBVIOUS
<1>3. StateKept(e, keeps) = {} \/ IsKnown(StateKept(e, keeps))
  OBVIOUS
<1>4. EntryTypes(PassedEntry(e, keeps)) /\ (PassedEntry(e, keeps) = NoEntry => e = NoEntry)
  BY <1>2, <1>3 DEF PassedEntry
<1>5. EntryTypes(DiedEntry(e)) /\ DiedEntry(e) # NoEntry /\ (IsKnown(e) => IsKnown(DiedEntry(e)))
  BY <1>2 DEF DiedEntry
<1>6. QED
  BY <1>1, <1>2, <1>4, <1>5

LEMMA KeepsOrNot == ASSUME NEW e, NEW keeps \in MayKeep(e) PROVE keeps \in BOOLEAN
<1>1. keeps = TRUE \/ keeps = ("counted" \in e)
  BY DEF MayKeep
<1>2. ("counted" \in e) = TRUE \/ ("counted" \in e) = FALSE
  OBVIOUS
<1>3. QED
  BY <1>1, <1>2, Zenon
-----------------------------------------------------------------------------
(* CloudLab.                                                                 *)

Statuses == {"none", "provisioning", "ready", "failed", "terminating"}

LabTypes ==
    /\ experiment \in [status : Statuses, count : Nat] /\ asked \in Nat
    /\ EntryTypes(labEntry)

\* What is known of an experiment that no failed run has touched: it goes only
\* when the run has it terminated, and outside of that it has the size that is
\* saved, and later in a run the size that is asked for.
LabUntouched ==
    ~strayed =>
        /\ experiment.status = "terminating" => labStep \in {"terminating", "destroying"}
        /\ labStep \in {"idle", "applied"} /\ experiment.status # "none" =>
               experiment.count = savedCount
        /\ labStep = "create" /\ experiment.status # "none" => experiment.count = asked
        /\ labStep \in {"wait", "nodes", "applied"} => experiment.count = asked
        /\ labStep = "applied" => savedCount = asked

\* A run that looked at the status leaves a ready experiment behind.
LabLooked ==
    /\ labStep = "nodes" => gaveUp \/ experiment.status = "ready"
    /\ labStep = "applied" => experiment.status = "ready" \/ (gaveUp /\ asked = 0)

\* Nothing is saved of a network that was never made; a run that deletes it
\* knows it.
LabKnown ==
    /\ labStep \in {"idle", "destroyed"} /\ labEntry = NoEntry => experiment.status = "none"
    /\ labStep \in {"destroy", "destroying", "applied"} => IsKnown(labEntry)
    /\ labStep = "destroyed" => ~IsKnown(labEntry)
    /\ labStep \in {"idle", "destroyed"} /\ ~strayed => labEntry # Adrift

LabInv == LabTypes /\ LabUntouched /\ LabLooked /\ LabKnown

LEMMA LabStart == LabInit => LabInv
<1>1. NoEntry # Adrift
  BY DEF NoEntry, Adrift
<1>2. QED
  BY <1>1 DEF LabInit, LabInv, LabTypes, Statuses, LabUntouched, LabLooked, LabKnown,
     NoExperiment, Unsaved, EntryTypes

LEMMA LabStep == LabInv /\ [LabNext]_labVars => LabInv'
<1> SUFFICES ASSUME LabInv, [LabNext]_labVars PROVE LabInv'
  OBVIOUS
<1> USE CloudLabAssumption DEF LabInv, LabTypes, Statuses, LabUntouched, LabLooked, LabKnown, Absent
<1>1. CASE BeginLab
  BY <1>1 DEF BeginLab, Modified, Unsaved
<1>2. CASE Terminate
  BY <1>2 DEF Terminate
<1>3. CASE TerminateRefused \/ Terminated
  BY <1>3, Entries DEF TerminateRefused, Terminated, EntryTypes
<1>4. CASE StartExperiment
  BY <1>4 DEF StartExperiment
<1>5. CASE WaitForCreate \/ CreateNodes
  <2>1. CASE WaitForCreate
    BY <2>1 DEF WaitForCreate
  <2>2. CASE CreateNodes
    <3>1. IsKnown(labEntry') /\ EntryTypes(labEntry')
      BY <2>2, Entries DEF CreateNodes, EntryTypes
    <3>2. QED
      BY <2>2, <3>1 DEF CreateNodes, NodesFound
  <2>3. QED
    BY <1>5, <2>1, <2>2
<1>6. CASE BeginUnlab
  BY <1>6, Entries DEF BeginUnlab, EntryTypes
<1>7. CASE LabFail
  <2>1. PICK keeps \in MayKeep(labEntry) :
          labEntry' = CASE Unlabbing -> UndeletedEntry(labEntry)
                        [] labStep = "nodes" -> AppliedEntry
                        [] labStep = "idle" -> PassedEntry(labEntry, keeps)
                        [] OTHER -> FailedEntry(labEntry, keeps)
    BY <1>7 DEF LabFail
  <2>2. keeps \in BOOLEAN
    BY KeepsOrNot
  <2>3. EntryTypes(labEntry') /\ (labEntry' = NoEntry => labStep = "idle" /\ labEntry = NoEntry)
    BY <2>1, <2>2, Entries DEF EntryTypes, Unlabbing
  <2>4. QED
    BY <1>7, <2>3 DEF LabFail
<1>8. CASE LabDie
  <2>1. EntryTypes(labEntry') /\ labEntry' # NoEntry
    BY <1>8, Entries DEF LabDie, Unlabbing
  <2>2. QED
    BY <1>8, <2>1 DEF LabDie
<1>9. CASE EditLab
  <2>1. labStep = "applied" => labEntry # NoEntry /\ labEntry # Adrift
    BY Entries DEF EntryTypes
  <2>2. asked' \in Nat
    BY <1>9 DEF EditLab
  <2>3. QED
    BY <1>9, <2>1, <2>2 DEF EditLab, EntryTypes
<1>10. CASE Testbed
  BY <1>10 DEF Testbed, NoExperiment
<1>11. CASE UNCHANGED labVars
  BY <1>11 DEF labVars
<1>12. QED
  BY <1>1, <1>2, <1>3, <1>4, <1>5, <1>6, <1>7, <1>8, <1>9, <1>10, <1>11 DEF LabNext

(* CloudLab: an apply that succeeded leaves an experiment of the configured  *)
(* size behind, and a destroy leaves none unless what was saved leads to     *)
(* none, for every size and every sequence of edits, failures, deaths and    *)
(* refused terminations (cloudlab_network.py, controller.py).                *)
THEOREM LabIsRightHolds == LabSpec => []LabIsRight
<1>1. LabInv => LabIsRight
  BY DEF LabInv, LabTypes, EntryTypes, LabUntouched, LabLooked, LabKnown, LabIsRight,
     ExactExperiment, ExperimentGone
<1>2. QED
  BY <1>1, LabStart, LabStep, PTL DEF LabSpec

-----------------------------------------------------------------------------
(* GCP.                                                                      *)

GcpTypes == keys \in Nat /\ EntryTypes(gcpEntry)

\* A partner sets up a peer only with the key of an attachment, and none is
\* made while one exists.
PeerNeedsAttachment ==
    /\ peered => attachment # NoKey
    /\ operation = "attachment" => attachment = NoKey

\* While the run polls, only its own operation is under way; one that ended
\* without an error has done what was asked. What the run holds of the
\* attachment is what there is, unless an older operation has taken it away.
OwnOperation ==
    /\ gcpStep = "patch" =>
           operation # "attachment" /\ (held = attachment \/ attachment = NoKey)
    /\ gcpStep = "patchwait" =>
           /\ router /\ operation \in {"patch", None} /\ held = attachment
           /\ operation = None => unseen \/ secured
    /\ gcpStep = "applied" => operation = None
    /\ gcpStep = "unattachwait" =>
           /\ operation \in {"unattach", None}
           /\ operation = None => unseen \/ attachment = NoKey

\* From the look at the attachment on, a destroy that has seen no error knows
\* what is left.
DestroyKnows ==
    /\ gcpStep \in {"unrouter", "unrouterwait"} /\ ~unseen => attachment = NoKey
    /\ gcpStep = "unrouter" /\ ~unseen => operation = None
    /\ gcpStep = "unrouterwait" =>
           /\ operation \in {"unroute", None}
           /\ operation = None => unseen \/ ~router

\* Nothing is saved of a network that was never made; a run that deletes it
\* knows it.
GcpKnown ==
    /\ gcpStep \in {"idle", "destroyed"} /\ gcpEntry = NoEntry /\ ~unseen =>
           ~router /\ attachment = NoKey /\ operation = None
    /\ gcpStep \in {"applied", "unattachwait", "unrouter", "unrouterwait"} => IsKnown(gcpEntry)
    /\ gcpStep = "destroyed" => ~IsKnown(gcpEntry)

GcpInv ==
    GcpTypes /\ PeerNeedsAttachment /\ OwnOperation /\ DestroyKnows /\ GcpKnown /\ KeyOfAttachment

LEMMA GcpStart == GcpInit => GcpInv
BY DEF GcpInit, GcpInv, GcpTypes, EntryTypes, PeerNeedsAttachment, OwnOperation, DestroyKnows,
   GcpKnown, KeyOfAttachment, None

\* The steps that only look at GCP, or that end an apply.
LEMMA GcpLooks ==
    ASSUME GcpInv,
           \/ FindRouter \/ RouterDone \/ FindAttachment \/ AttachmentDone \/ PatchDone
           \/ GcpForgotten \/ AttachmentLost \/ RouterLost
    PROVE  GcpInv'
<1> USE DEF GcpInv, GcpTypes, PeerNeedsAttachment, OwnOperation, DestroyKnows, GcpKnown,
            KeyOfAttachment, Goes, google, gcpSaves, None
<1>1. CASE FindRouter \/ RouterDone
  BY <1>1 DEF FindRouter, RouterDone
<1>2. CASE FindAttachment \/ AttachmentDone
  BY <1>2 DEF FindAttachment, AttachmentDone, Paired
<1>3. CASE PatchDone
  <2>1. EntryTypes(gcpEntry') /\ IsKnown(gcpEntry')
    BY <1>3, Entries DEF PatchDone, EntryTypes
  <2>2. QED
    BY <1>3, <2>1 DEF PatchDone
<1>4. CASE GcpForgotten
  BY <1>4 DEF GcpForgotten
<1>5. CASE AttachmentLost
  BY <1>5 DEF AttachmentLost, BeginsLoss
<1>6. CASE RouterLost
  <2>1. EntryTypes(gcpEntry') /\ ~IsKnown(gcpEntry')
    BY <1>6, Entries DEF RouterLost, EntryTypes
  <2>2. QED
    BY <1>6, <2>1 DEF RouterLost, Stays
<1>7. QED
  BY <1>1, <1>2, <1>3, <1>4, <1>5, <1>6

\* The steps that start an operation.
LEMMA GcpRequests ==
    ASSUME GcpInv,
           CreateRouter \/ CreateAttachment \/ PatchRouter \/ LoseAttachment \/ LoseRouter
    PROVE  GcpInv'
<1> USE DEF GcpInv, GcpTypes, PeerNeedsAttachment, OwnOperation, DestroyKnows, GcpKnown,
            KeyOfAttachment, Goes, Request, gcpSaves, None
<1>1. CASE CreateRouter
  BY <1>1 DEF CreateRouter
<1>2. CASE CreateAttachment
  BY <1>2 DEF CreateAttachment
<1>3. CASE PatchRouter
  BY <1>3 DEF PatchRouter
<1>4. CASE LoseAttachment
  BY <1>4 DEF LoseAttachment, BeginsLoss
<1>5. CASE LoseRouter
  BY <1>5 DEF LoseRouter
<1>6. QED
  BY <1>1, <1>2, <1>3, <1>4, <1>5

\* The steps that end a run without success.
LEMMA GcpEnds ==
    ASSUME GcpInv, GcpFail \/ GcpDie \/ GcpAgain
    PROVE  GcpInv'
<1> USE DEF GcpInv, GcpTypes, PeerNeedsAttachment, OwnOperation, DestroyKnows, GcpKnown,
            KeyOfAttachment, google, gcpSaves, None
<1>1. CASE GcpFail
  <2>1. PICK keeps \in MayKeep(gcpEntry) :
          gcpEntry' = CASE Ungoogling -> UndeletedEntry(gcpEntry)
                        [] gcpStep = "idle" -> PassedEntry(gcpEntry, keeps)
                        [] OTHER -> FailedEntry(gcpEntry, keeps)
    BY <1>1 DEF GcpFail
  <2>2. keeps \in BOOLEAN
    BY KeepsOrNot
  <2>3. EntryTypes(gcpEntry') /\ (gcpEntry' = NoEntry => gcpStep = "idle" /\ gcpEntry = NoEntry)
    BY <2>1, <2>2, Entries DEF EntryTypes, Ungoogling
  <2>4. QED
    BY <1>1, <2>3 DEF GcpFail
<1>2. CASE GcpDie
  <2>1. EntryTypes(gcpEntry') /\ gcpEntry' # NoEntry
    BY <1>2, Entries DEF GcpDie, Ungoogling, EntryTypes
  <2>2. QED
    BY <1>2, <2>1 DEF GcpDie
<1>3. CASE GcpAgain
  <2>1. gcpStep = "applied" => gcpEntry # NoEntry
    BY Entries DEF EntryTypes
  <2>2. QED
    BY <1>3, <2>1 DEF GcpAgain
<1>4. QED
  BY <1>1, <1>2, <1>3

LEMMA GcpStepKeeps == GcpInv /\ [GcpNext]_gcpVars => GcpInv'
<1> SUFFICES ASSUME GcpInv, [GcpNext]_gcpVars PROVE GcpInv'
  OBVIOUS
<1>1. CASE \/ FindRouter \/ RouterDone \/ FindAttachment \/ AttachmentDone \/ PatchDone
           \/ GcpForgotten \/ AttachmentLost \/ RouterLost
  BY <1>1, GcpLooks
<1>2. CASE CreateRouter \/ CreateAttachment \/ PatchRouter \/ LoseAttachment \/ LoseRouter
  BY <1>2, GcpRequests
<1>3. CASE GcpFail \/ GcpDie \/ GcpAgain
  BY <1>3, GcpEnds
<1> USE DEF GcpInv, GcpTypes, PeerNeedsAttachment, OwnOperation, DestroyKnows, GcpKnown,
            KeyOfAttachment, gcpSaves, None
<1>4. CASE EndOperation
  <2>1. CASE Succeeds
    <3>1. peered' => peered /\ attachment' = attachment
      BY <2>1 DEF Succeeds
    <3>2. PeerNeedsAttachment'
      BY <1>4, <3>1 DEF EndOperation
    <3>3. GcpTypes'
      BY <1>4, <2>1 DEF EndOperation, Succeeds
    <3>4. GcpKnown' /\ KeyOfAttachment'
      BY <1>4, <2>1 DEF EndOperation, Succeeds
    <3>5. OwnOperation' /\ DestroyKnows'
      BY <1>4, <2>1 DEF EndOperation, Succeeds, NoKey
    <3>6. QED
      BY <3>2, <3>3, <3>4, <3>5
  <2>2. CASE unseen' = TRUE /\ UNCHANGED <<router, secured, peered, attachment, keys>>
    BY <1>4, <2>2 DEF EndOperation
  <2>3. QED
    BY <1>4, <2>1, <2>2 DEF EndOperation
<1>5. CASE Peer
  BY <1>5 DEF Peer
<1>6. CASE UNCHANGED gcpVars
  BY <1>6 DEF gcpVars
<1>7. QED
  BY <1>1, <1>2, <1>3, <1>4, <1>5, <1>6 DEF GcpNext

(* GCP: the pairing key that an apply hands on is that of the attachment     *)
(* which exists, and a destroy leaves nothing unless what was saved does not *)
(* lead there, however many attachments were made, whenever operations ended *)
(* and runs failed or died (gcp_utils.py, controller.py).                    *)
THEOREM GcpIsRightHolds == GcpSpec => []GcpIsRight
<1>1. GcpInv => GcpIsRight
  BY DEF GcpInv, GcpTypes, EntryTypes, GcpKnown, GcpIsRight, NothingAtGcp
<1>2. QED
  BY <1>1, GcpStart, GcpStepKeeps, PTL DEF GcpSpec
-----------------------------------------------------------------------------
(* SENSE.                                                                    *)

Operations == {"CREATE", "REINSTATE", "CANCEL", "none"}
Progress == {"COMPILED", "EARLY", "COMMITTING", "COMMITTED", "READY", "FAILED", "DELETED", "LEAKED"}
Instance == [op : Operations, at : Progress]

SenseTypes ==
    /\ services \in Seq(Instance)
    /\ senseStep \in {"operate", "wait", "nodes", "applied", "cancel", "poll"} =>
           service \in DOMAIN services
    /\ EntryTypes(senseEntry)

NoneLeft == \A i \in DOMAIN services : services[i] = Deleted

\* Unless a premature status was taken for the end of a cancellation, every
\* instance is deleted once it is cancelled or while it is not provisioned, and
\* the alias stands for one of them unless an answer was lost.
OneAlias ==
    /\ ~hasty => \A i \in DOMAIN services : services[i] # Leaked
    /\ ~hasty /\ ~lost => \A i, j \in DOMAIN services :
                              services[i] # Deleted /\ services[j] # Deleted => i = j
    /\ ~hasty /\ ~lost /\ senseStep = "new" => NoneLeft
    /\ ~hasty /\ senseStep = "poll" => services[service].at # "EARLY"

\* Nothing is saved of a network that was never made; a run that deletes it
\* knows it.
SenseKnown ==
    /\ ~hasty /\ ~lost /\ senseStep \in {"idle", "destroyed"} /\ senseEntry = NoEntry => NoneLeft
    /\ senseStep \in {"applied", "cancel", "poll"} => IsKnown(senseEntry)
    /\ senseStep = "destroyed" => ~IsKnown(senseEntry)

SenseInv == SenseTypes /\ OneAlias /\ SenseKnown /\ AppliedIsReady

LEMMA SenseStart == SenseInit => SenseInv
BY DEF SenseInit, SenseInv, SenseTypes, OneAlias, SenseKnown, NoneLeft, AppliedIsReady, EntryTypes

\* What an instance becomes touches neither the others nor their number.
LEMMA OneChanges ==
    ASSUME SenseTypes, NEW i \in DOMAIN services, NEW new \in Instance,
           services' = [services EXCEPT ![i] = new]
    PROVE  /\ services' \in Seq(Instance) /\ DOMAIN services' = DOMAIN services
           /\ services'[i] = new
           /\ \A j \in DOMAIN services : j # i => services'[j] = services[j]
BY DEF SenseTypes

\* Unless a premature status was taken, what is not standing is deleted.
LEMMA NoneStanding ==
    ASSUME OneAlias, ~hasty, Standing = {}
    PROVE  NoneLeft
BY DEF OneAlias, Standing, NoneLeft

\* The steps that end a run, or a look, and leave the instances alone.
LEMMA SenseEnds ==
    ASSUME SenseInv, UNCHANGED <<services, lost, hasty>>,
           SaveFailed \/ SaveCreated(FALSE) \/ SenseFail \/ SenseDie \/ SenseAgain \/ SenseForgotten
    PROVE  SenseInv'
<1> USE DEF SenseInv, SenseTypes, OneAlias, SenseKnown, NoneLeft, AppliedIsReady
<1>1. CASE SaveFailed
  <2>1. PICK keeps \in MayKeep(senseEntry) : senseEntry' = FailedEntry(senseEntry, keeps)
    BY <1>1 DEF SaveFailed
  <2>2. IsKnown(senseEntry') /\ EntryTypes(senseEntry') /\ senseEntry' # NoEntry
    BY <2>1, KeepsOrNot, Entries DEF EntryTypes
  <2>3. QED
    BY <1>1, <2>2 DEF SaveFailed, EndSense
<1>2. CASE SaveCreated(FALSE)
  <2>1. IsKnown(senseEntry') /\ EntryTypes(senseEntry') /\ senseEntry' # NoEntry
    BY <1>2, Entries DEF SaveCreated, EntryTypes
  <2>2. QED
    BY <1>2, <2>1 DEF SaveCreated, EndSense
<1>3. CASE SenseFail
  <2>1. CASE EndSense /\ senseEntry' = UndeletedEntry(senseEntry)
    <3>1. IsKnown(senseEntry') /\ EntryTypes(senseEntry') /\ senseEntry' # NoEntry
      BY <2>1, Entries DEF EntryTypes
    <3>2. QED
      BY <2>1, <3>1 DEF EndSense
  <2>2. CASE /\ senseStep = "idle" /\ EndSense
             /\ \E keeps \in MayKeep(senseEntry) : senseEntry' = PassedEntry(senseEntry, keeps)
    <3>1. EntryTypes(senseEntry') /\ (senseEntry' = NoEntry => senseEntry = NoEntry)
      BY <2>2, KeepsOrNot, Entries
    <3>2. QED
      BY <2>2, <3>1 DEF EndSense
  <2>3. QED
    BY <1>1, <1>2, <1>3, <2>1, <2>2 DEF SenseFail
<1>4. CASE SenseDie
  <2>1. EntryTypes(senseEntry') /\ senseEntry' # NoEntry
    BY <1>4, Entries DEF SenseDie, Unsensing, EntryTypes
  <2>2. QED
    BY <1>4, <2>1 DEF SenseDie, EndSense
<1>5. CASE SenseAgain
  <2>1. senseStep = "applied" => senseEntry # NoEntry
    BY Entries DEF EntryTypes
  <2>2. QED
    BY <1>5, <2>1 DEF SenseAgain, EndSense
<1>6. CASE SenseForgotten
  BY <1>6 DEF SenseForgotten
<1>7. QED
  BY <1>1, <1>2, <1>3, <1>4, <1>5, <1>6

LEMMA BeginSenseKeeps ==
    ASSUME SenseInv, BeginSense
    PROVE  SenseInv'
<1>1. UNCHANGED <<services, lost, hasty>>
  BY DEF BeginSense
<1>2. CASE SaveFailed
  BY <1>1, <1>2, SenseEnds
<1>3. CASE Standing = {} /\ senseStep' = "new" /\ UNCHANGED <<service, seen, senseEntry>>
  BY <1>1, <1>3, NoneStanding DEF SenseInv, SenseTypes, OneAlias, SenseKnown, NoneLeft, AppliedIsReady
<1>4. CASE service' \in Standing /\ senseStep' = "operate" /\ senseEntry' = senseEntry
  BY <1>1, <1>4 DEF SenseInv, SenseTypes, OneAlias, SenseKnown, NoneLeft, AppliedIsReady, Standing
<1>5. QED
  BY <1>2, <1>3, <1>4 DEF BeginSense

LEMMA CreateInstanceKeeps ==
    ASSUME SenseInv, CreateInstance
    PROVE  SenseInv'
<1> USE DEF SenseInv, SenseTypes, OneAlias, SenseKnown, NoneLeft, AppliedIsReady
<1>1. /\ services' \in Seq(Instance) /\ DOMAIN services' = 1..(Len(services) + 1)
      /\ services'[Len(services) + 1] = Compiled
      /\ \A j \in DOMAIN services : services'[j] = services[j] /\ j # Len(services) + 1
  BY DEF CreateInstance, Instance, Operations, Progress, Compiled
<1>2. Compiled # Leaked
  BY DEF Compiled, Leaked
<1>3. QED
  BY <1>1, <1>2 DEF CreateInstance

LEMMA OperateKeeps ==
    ASSUME SenseInv, Operate
    PROVE  SenseInv'
<1> USE DEF SenseInv, SenseTypes, OneAlias, SenseKnown, NoneLeft, AppliedIsReady
<1>1. CASE services' = services
  BY <1>1 DEF Operate
<1>2. CASE services' # services
  <2>1. PICK new \in Instance :
          /\ services' = [services EXCEPT ![service] = new]
          /\ new # Deleted /\ new # Leaked
          /\ services[service] # Deleted
    <3> DEFINE first == [op |-> "CREATE", at |-> "COMMITTING"]
               anew == [op |-> "REINSTATE", at |-> "COMMITTING"]
    <3>1. \/ services[service] = Compiled /\ services' = [services EXCEPT ![service] = first]
          \/ services[service] = Cancelled /\ services' = [services EXCEPT ![service] = anew]
      BY <1>2 DEF Operate
    <3>2. first \in Instance /\ anew \in Instance
      BY DEF Instance, Operations, Progress
    <3>3. first \notin {Deleted, Leaked} /\ anew \notin {Deleted, Leaked}
      BY DEF Deleted, Leaked
    <3>4. Compiled # Deleted /\ Cancelled # Deleted
      BY DEF Compiled, Cancelled, Deleted
    <3> HIDE DEF first, anew
    <3>5. QED
      BY <3>1, <3>2, <3>3, <3>4
  <2>2. service \in DOMAIN services
    BY DEF Operate
  <2>3. QED
    BY <2>1, <2>2, OneChanges DEF Operate
<1>3. QED
  BY <1>1, <1>2

LEMMA SenseReadyKeeps ==
    ASSUME SenseInv, WaitReady \/ SenseNodes
    PROVE  SenseInv'
<1>1. UNCHANGED <<services, lost, hasty>> /\ services[service] \in Ready /\ service \in DOMAIN services
  BY DEF WaitReady, SenseNodes, Accepted, SenseInv, SenseTypes
<1>2. CASE SaveFailed \/ SaveCreated(FALSE)
  BY <1>1, <1>2, SenseEnds
<1>3. CASE senseStep' = "nodes" /\ UNCHANGED <<service, seen, senseEntry>>
  BY <1>1, <1>3 DEF SenseInv, SenseTypes, OneAlias, SenseKnown, NoneLeft, AppliedIsReady
<1>4. CASE SaveCreated(TRUE)
  <2>1. IsKnown(senseEntry') /\ EntryTypes(senseEntry')
    BY <1>4, Entries DEF SaveCreated, EntryTypes
  <2>2. senseStep' = "applied" /\ service' = service
    BY <1>4 DEF SaveCreated
  <2>3. QED
    BY <1>1, <2>1, <2>2 DEF SenseInv, SenseTypes, OneAlias, SenseKnown, NoneLeft, AppliedIsReady
<1>5. QED
  BY <1>2, <1>3, <1>4 DEF WaitReady, SenseNodes, ManifestRead

\* An instance that is deleted was the only one, unless an answer was lost.
LEMMA LastIsDeleted ==
    ASSUME SenseInv, NEW i \in DOMAIN services, services[i] # Deleted,
           services' = [services EXCEPT ![i] = Deleted], service' = i,
           senseStep' = "destroyed", senseEntry' = NoEntry, UNCHANGED <<lost, hasty>>
    PROVE  SenseInv'
<1>1. Deleted \in Instance /\ Deleted # Leaked
  BY DEF Deleted, Leaked, Instance, Operations, Progress
<1>2. ~IsKnown(NoEntry) /\ EntryTypes(NoEntry)
  BY Entries DEF EntryTypes
<1>3. QED
  BY <1>1, <1>2, OneChanges DEF SenseInv, SenseTypes, OneAlias, SenseKnown, NoneLeft, AppliedIsReady

LEMMA BeginUnsenseKeeps ==
    ASSUME SenseInv, BeginUnsense
    PROVE  SenseInv'
<1>1. UNCHANGED <<lost, hasty>> /\ IsKnown(senseEntry)
  BY DEF BeginUnsense
<1>2. CASE /\ Standing = {} /\ senseStep' = "destroyed" /\ senseEntry' = NoEntry
           /\ UNCHANGED <<services, service>>
  <2>1. ~IsKnown(NoEntry) /\ EntryTypes(NoEntry)
    BY Entries DEF EntryTypes
  <2>2. QED
    BY <1>1, <1>2, <2>1, NoneStanding
       DEF SenseInv, SenseTypes, OneAlias, SenseKnown, NoneLeft, AppliedIsReady
<1>3. ASSUME NEW i \in Standing, service' = i, services[i] = Compiled,
             services' = [services EXCEPT ![i] = Removed(i)],
             senseStep' = "destroyed", senseEntry' = NoEntry
      PROVE  SenseInv'
  <2>1. i \in DOMAIN services /\ services[i] # Deleted /\ Removed(i) = Deleted
    BY <1>3 DEF Standing, Removed
  <2>2. QED
    BY <1>1, <1>3, <2>1, LastIsDeleted
<1>4. ASSUME NEW i \in Standing, service' = i, senseStep' = "cancel", senseEntry' = senseEntry,
             \/ services' = services
             \/ \E at \in {"EARLY", "COMMITTING"} :
                    services' = [services EXCEPT ![i] = [op |-> "CANCEL", at |-> at]]
      PROVE  SenseInv'
  <2>1. i \in DOMAIN services /\ services[i] # Deleted
    BY DEF Standing
  <2>2. CASE services' = services
    BY <1>1, <1>4, <2>1, <2>2
       DEF SenseInv, SenseTypes, OneAlias, SenseKnown, NoneLeft, AppliedIsReady
  <2>3. CASE services' # services
    <3>1. PICK new \in {[op |-> "CANCEL", at |-> at] : at \in {"EARLY", "COMMITTING"}} :
            services' = [services EXCEPT ![i] = new]
      BY <1>4, <2>3
    <3>2. new \in Instance /\ new # Leaked /\ new # Deleted
      BY DEF Deleted, Leaked, Instance, Operations, Progress
    <3>3. QED
      BY <1>1, <1>4, <2>1, <3>1, <3>2, OneChanges
         DEF SenseInv, SenseTypes, OneAlias, SenseKnown, NoneLeft, AppliedIsReady
  <2>4. QED
    BY <2>2, <2>3
<1>5. QED
  BY <1>2, <1>3, <1>4 DEF BeginUnsense, Pause

LEMMA DeleteInstanceKeeps ==
    ASSUME SenseInv, DeleteInstance
    PROVE  SenseInv'
<1>1. /\ service \in DOMAIN services /\ service' = service
      /\ senseStep' = "destroyed" /\ senseEntry' = NoEntry /\ UNCHANGED <<lost, hasty>>
      /\ services' = [services EXCEPT ![service] = Removed(service)]
  BY DEF DeleteInstance, SenseInv, SenseTypes
<1>2. CASE services[service] = Cancelled
  <2>1. Removed(service) = Deleted /\ services[service] # Deleted
    BY <1>2 DEF Removed, Cancelled, Deleted
  <2>2. QED
    BY <1>1, <2>1, LastIsDeleted
<1>3. CASE services[service] # Cancelled
  <2>1. services[service].at = "EARLY" /\ senseStep = "poll"
    BY <1>3 DEF DeleteInstance, CancelDone, Shown
  <2>2. hasty /\ hasty'
    BY <1>1, <2>1 DEF SenseInv, OneAlias
  <2>3. Removed(service) \in Instance
    BY DEF Removed, Deleted, Leaked, Instance, Operations, Progress
  <2>4. ~IsKnown(NoEntry) /\ EntryTypes(NoEntry)
    BY Entries DEF EntryTypes
  <2>5. QED
    BY <1>1, <2>2, <2>3, <2>4, OneChanges
       DEF SenseInv, SenseTypes, OneAlias, SenseKnown, NoneLeft, AppliedIsReady
<1>4. QED
  BY <1>2, <1>3

LEMMA OrchestrateKeeps ==
    ASSUME SenseInv, Orchestrate
    PROVE  SenseInv'
<1>1. PICK i \in Standing, at \in {"COMMITTING", "COMMITTED", "READY", "FAILED"} :
        /\ services[i].at \in {"EARLY", "COMMITTING", "COMMITTED"}
        /\ services' = [services EXCEPT ![i].at = at]
  BY DEF Orchestrate
<1> DEFINE new == [services[i] EXCEPT !.at = at]
<1>2. i \in DOMAIN services /\ services[i] # Deleted /\ services[i] \in Instance
  BY <1>1 DEF Standing, SenseInv, SenseTypes
<1>3. /\ new \in Instance /\ new # Deleted /\ new # Leaked /\ new.at # "EARLY"
      /\ services[i] \notin Ready
  BY <1>1, <1>2 DEF Instance, Operations, Progress, Deleted, Leaked, Ready
<1>4. services' = [services EXCEPT ![i] = new]
  BY <1>1, <1>2
<1>5. UNCHANGED <<senseStep, service, senseEntry, lost, hasty>>
  BY DEF Orchestrate
<1> HIDE DEF new
<1>6. QED
  BY <1>2, <1>3, <1>4, <1>5, OneChanges
     DEF SenseInv, SenseTypes, OneAlias, SenseKnown, NoneLeft, AppliedIsReady

LEMMA SenseStepKeeps == SenseInv /\ [SenseNext]_senseVars => SenseInv'
<1> SUFFICES ASSUME SenseInv, [SenseNext]_senseVars PROVE SenseInv'
  OBVIOUS
<1>1. CASE BeginSense \/ CreateInstance \/ Operate \/ WaitReady \/ SenseNodes
  BY <1>1, BeginSenseKeeps, CreateInstanceKeeps, OperateKeeps, SenseReadyKeeps
<1>2. CASE BeginUnsense \/ DeleteInstance \/ Orchestrate
  BY <1>2, BeginUnsenseKeeps, DeleteInstanceKeeps, OrchestrateKeeps
<1>3. CASE SenseFail \/ SenseDie \/ SenseAgain \/ SenseForgotten
  <2>1. UNCHANGED <<services, lost, hasty>>
    BY <1>3 DEF SenseFail, SenseDie, SenseAgain, SenseForgotten
  <2>2. QED
    BY <1>3, <2>1, SenseEnds, Zenon
<1> USE DEF SenseInv, SenseTypes, OneAlias, SenseKnown, NoneLeft, AppliedIsReady
<1>4. CASE Sleep
  BY <1>4 DEF Sleep
<1>5. CASE SleepAgain
  BY <1>5 DEF SleepAgain, Pause
<1>6. CASE UNCHANGED senseVars
  BY <1>6 DEF senseVars
<1>7. QED
  BY <1>1, <1>2, <1>3, <1>4, <1>5, <1>6 DEF SenseNext

(* SENSE: a network counts as created only while its instance is in service, *)
(* and a destroy leaves none behind unless an answer had been lost, a        *)
(* premature status outlasted the sleep before it is read, or what was saved *)
(* does not lead there, for any number of instances and every order of runs, *)
(* deaths and answers (sense_utils.py, controller.py).                       *)
THEOREM SenseIsRightHolds == SenseSpec => []SenseIsRight
<1>1. SenseInv => SenseIsRight
  BY DEF SenseInv, SenseTypes, EntryTypes, SenseKnown, NoneLeft, SenseIsRight, NoInstanceLeft
<1>2. QED
  BY <1>1, SenseStart, SenseStepKeeps, PTL DEF SenseSpec
-----------------------------------------------------------------------------
(* FABRIC.                                                                   *)

SliceStates == {"none", "Configuring", "StableOK", "StableError"}

FabricTypes ==
    /\ wanted \in Configs
    /\ slice \in [state : SliceStates, nodes : SUBSET FabNodes, nets : SUBSET FabNets]
    /\ draft \in [nodes : SUBSET FabNodes, nets : SUBSET FabNets]
    /\ address \in [FabNodes -> Int]
    /\ DOMAIN saved \subseteq FabNodes /\ \A n \in DOMAIN saved : saved[n] \in Int
    /\ savedNets \subseteq FabNets
    /\ modified \in BOOLEAN /\ created \in BOOLEAN

\* A draft starts from the slice that was found, and one without a change
\* still has its nodes and networks.
DraftIsSlice ==
    created /\ (phase = "add" \/ (phase = "create" /\ ~modified)) =>
        draft.nodes = slice.nodes /\ draft.nets = slice.nets

\* Once submitted, or found to need no change, the slice is what is wanted.
Submitted ==
    phase \in {"wait", "network", "done", "applied"} =>
        slice.nodes = wanted.nodes /\ slice.nets = wanted.nets

\* Saved addresses differ, and so do those that a run has taken over from
\* them or completed from the pool.
Apart(f) == \A m, n \in DOMAIN f : m # n /\ f[m] # NoAddress => f[m] # f[n]
AddressesApart ==
    /\ Apart(saved)
    /\ phase \in {"add", "create", "wait", "network"} => Apart(address)
    /\ phase \in {"done", "applied"} =>
           \A m, n \in wanted.nodes : m # n => address[m] # address[n]

\* Between two runs what is saved leads to the slice, unless noted otherwise:
\* a run has networks to save, or to label as failed.
SliceLed ==
    /\ phase \notin {"idle", "applied", "destroyed"} => wanted.nets # {}
    /\ phase = "applied" => LeadsHere
    /\ phase = "idle" /\ ~unled => slice.state = "none" \/ LeadsHere

FabricInv == FabricTypes /\ DraftIsSlice /\ Submitted /\ AddressesApart /\ SliceLed /\ SliceDeleted

LEMMA FabricStart == FabricInit => FabricInv
<1> SUFFICES ASSUME FabricInit PROVE FabricInv
  OBVIOUS
<1>1. FabricTypes
  <2>1. DOMAIN saved = {}
    BY DEF FabricInit
  <2>2. address \in [FabNodes -> Int]
    BY DEF FabricInit, NoAddresses, NoAddress
  <2>3. QED
    BY <2>1, <2>2 DEF FabricInit, FabricTypes, SliceStates, Empty, NoDraft
<1>2. AddressesApart
  BY DEF FabricInit, AddressesApart, Apart, NoAddresses, NoAddress
<1>3. QED
  BY <1>1, <1>2 DEF FabricInit, FabricInv, DraftIsSlice, Submitted, SliceLed, SliceDeleted, Empty

LEMMA StartKeeps ==
    ASSUME FabricInv, NEW looked \in BOOLEAN, Start(looked)
    PROVE  FabricInv'
<1> USE DEF FabricInv, Start
<1>1. FabricTypes'
  <2>1. address' \in [FabNodes -> Int]
    BY DEF NoAddresses, NoAddress
  <2>2. created' \in BOOLEAN
    BY DEF Taken, Found
  <2>3. slice' \in [state : SliceStates, nodes : SUBSET FabNodes, nets : SUBSET FabNets]
    BY DEF FabricTypes, SliceStates, Empty
  <2>4. draft' \in [nodes : SUBSET FabNodes, nets : SUBSET FabNets]
    BY DEF FabricTypes, NoDraft
  <2>5. QED
    BY <2>1, <2>2, <2>3, <2>4 DEF FabricTypes, fabricSaves
<1>2. DraftIsSlice' /\ Submitted' /\ SliceLed' /\ SliceDeleted'
  BY DEF FabricTypes, DraftIsSlice, Submitted, SliceLed, SliceDeleted, Taken, Found, Empty, NoDraft
<1>3. AddressesApart'
  BY DEF AddressesApart, Apart, NoAddresses, NoAddress, fabricSaves
<1>4. QED
  BY <1>1, <1>2, <1>3

LEMMA AddResourcesKeeps ==
    ASSUME FabricInv, AddResources
    PROVE  FabricInv'
<1> USE DEF FabricInv, AddResources
<1>1. FabricTypes'
  <2>1. \A n \in FabNodes : SavedAddress(n) \in Int
    BY DEF FabricTypes, SavedAddress, NoAddress
  <2>2. wanted.nodes \subseteq FabNodes /\ wanted.nets \subseteq FabNets
    BY DEF FabricTypes, Configs
  <2>3. QED
    BY <2>1, <2>2 DEF FabricTypes, NewNodes, NewNets, NoAddress, fabricSaves
<1>2. DraftIsSlice'
  BY DEF DraftIsSlice, FabricTypes, NewNodes, NewNets
<1>3. Submitted' /\ SliceLed' /\ SliceDeleted'
  BY DEF Submitted, SliceLed, SliceDeleted
<1>4. AddressesApart'
  <2>1. Apart(saved')
    BY DEF AddressesApart, fabricSaves
  <2>2. ASSUME NEW m \in FabNodes, NEW n \in FabNodes, m # n, address'[m] # NoAddress
        PROVE  address'[m] # address'[n]
    <3>1. m \in DOMAIN saved /\ address'[m] = saved[m]
      BY <2>2 DEF SavedAddress
    <3>2. address'[n] = NoAddress \/ (n \in DOMAIN saved /\ address'[n] = saved[n])
      BY DEF SavedAddress
    <3>3. QED
      BY <2>2, <3>1, <3>2 DEF AddressesApart, Apart
  <2>3. DOMAIN address' = FabNodes
    OBVIOUS
  <2>4. Apart(address')
    BY <2>2, <2>3 DEF Apart
  <2>5. QED
    BY <2>1, <2>4 DEF AddressesApart
<1>5. QED
  BY <1>1, <1>2, <1>3, <1>4

LEMMA CreateResourcesKeeps ==
    ASSUME FabricInv, CreateResources
    PROVE  FabricInv'
<1> USE DEF FabricInv, CreateResources
<1>1. wanted.nodes \subseteq FabNodes /\ wanted.nets \subseteq FabNets
  BY DEF FabricTypes, Configs
<1>2. FabricTypes'
  BY <1>1 DEF FabricTypes, SliceStates, fabricSaves
<1>3. DraftIsSlice' /\ SliceLed' /\ SliceDeleted'
  BY DEF DraftIsSlice, SliceLed, SliceDeleted
<1>4. Submitted'
  BY DEF Submitted, DraftIsSlice, Submits, Changed, FabricTypes
<1>5. AddressesApart'
  BY DEF AddressesApart, fabricSaves
<1>6. QED
  BY <1>2, <1>3, <1>4, <1>5

\* Kept addresses and those taken from what is left of the pool differ.
LEMMA NetworkingApart ==
    ASSUME FabricInv, Networking, phase' = "done"
    PROVE  /\ address' \in [FabNodes -> Int]
           /\ \A m, n \in wanted.nodes : m # n => address'[m] # address'[n]
<1> DEFINE keptNodes == {n \in wanted.nodes : address[n] # NoAddress}
           used == {address[n] : n \in keptNodes}
           others == wanted.nodes \ keptNodes
<1>1. PICK f \in Spread(others, used) :
        address' = [n \in FabNodes |-> IF n \in others THEN f[n] ELSE address[n]]
  BY DEF Networking
<1>2. /\ \A n \in others : f[n] \in 1..PoolSize /\ f[n] \notin used
      /\ \A m, n \in others : m # n => f[m] # f[n]
  BY DEF Spread, Unused, Pool
<1>3. wanted.nodes \subseteq FabNodes /\ address \in [FabNodes -> Int]
  BY DEF FabricInv, FabricTypes, Configs
<1>4. phase = "network" /\ Apart(address)
  BY DEF FabricInv, AddressesApart, Networking
<1>5. address' \in [FabNodes -> Int]
  BY <1>1, <1>2, <1>3, FabricAssumption
<1>6. ASSUME NEW m \in wanted.nodes, NEW n \in wanted.nodes, m # n
      PROVE  address'[m] # address'[n]
  <2>1. CASE m \in others /\ n \in others
    BY <1>1, <1>2, <1>3, <1>6, <2>1
  <2>2. CASE m \in keptNodes /\ n \in keptNodes
    BY <1>1, <1>3, <1>4, <1>6, <2>2 DEF Apart
  <2>3. CASE (m \in keptNodes /\ n \in others) \/ (m \in others /\ n \in keptNodes)
    BY <1>1, <1>2, <1>3, <2>3
  <2>4. QED
    BY <2>1, <2>2, <2>3
<1>7. QED
  BY <1>5, <1>6

LEMMA NetworkingKeeps ==
    ASSUME FabricInv, Networking
    PROVE  FabricInv'
<1>1. /\ UNCHANGED <<wanted, slice, saved, savedNets, draft, created, modified>>
      /\ phase = "network"
  BY DEF Networking, fabricSaves
<1>2. (phase' = "done") \/ (phase' = "failed" /\ address' = address)
  BY DEF Networking
<1>3. CASE phase' = "done"
  BY <1>1, <1>3, NetworkingApart DEF FabricInv, FabricTypes, DraftIsSlice, Submitted,
     AddressesApart, SliceLed, SliceDeleted
<1>4. CASE phase' = "failed" /\ address' = address
  BY <1>1, <1>4 DEF FabricInv, FabricTypes, DraftIsSlice, Submitted,
     AddressesApart, SliceLed, SliceDeleted
<1>5. QED
  BY <1>2, <1>3, <1>4

\* What a process holds when it begins.
LEMMA ProcessBegins ==
    ASSUME FabricInv, NewProcess, phase' \in {"idle", "destroyed"}, wanted' \in Configs,
           slice' \in [state : SliceStates, nodes : SUBSET FabNodes, nets : SUBSET FabNets],
           saved' = saved \/ saved' = <<>>, savedNets' \subseteq FabNets
    PROVE  FabricTypes' /\ DraftIsSlice' /\ Submitted' /\ AddressesApart'
<1> USE DEF FabricInv, NewProcess
<1>1. address' \in [FabNodes -> Int]
  BY DEF NoAddresses, NoAddress
<1>2. DOMAIN saved' \subseteq FabNodes /\ (\A n \in DOMAIN saved' : saved'[n] \in Int)
  <2>1. CASE saved' = saved
    BY <2>1 DEF FabricTypes
  <2>2. CASE saved' = <<>>
    BY <2>2
  <2>3. QED
    BY <2>1, <2>2
<1>3. FabricTypes'
  BY <1>1, <1>2 DEF FabricTypes, NoDraft
<1>4. Apart(saved')
  <2>1. CASE saved' = saved
    BY <2>1 DEF AddressesApart
  <2>2. CASE saved' = <<>>
    BY <2>2 DEF Apart
  <2>3. QED
    BY <2>1, <2>2
<1>5. QED
  BY <1>3, <1>4 DEF DraftIsSlice, Submitted, AddressesApart

LEMMA SaveKeeps ==
    ASSUME FabricInv, Save
    PROVE  FabricInv'
<1>1. wanted' = wanted /\ slice' = slice /\ wanted.nets # {}
  BY DEF Save, FabricInv, SliceLed
<1>2. wanted \in Configs /\ wanted.nodes \subseteq FabNodes /\ wanted.nets \subseteq FabNets
  BY DEF FabricInv, FabricTypes, Configs
<1>3. CASE phase = "done"
  <2>1. /\ saved' = [n \in wanted.nodes |-> address[n]] /\ savedNets' = wanted.nets
        /\ phase' = "applied" /\ UNCHANGED <<draft, created, modified, address>>
    BY <1>3 DEF Save
  <2>2. FabricTypes'
    BY <1>1, <1>2, <2>1 DEF FabricInv, FabricTypes
  <2>3. DraftIsSlice' /\ Submitted' /\ AddressesApart'
    BY <1>1, <1>3, <2>1 DEF FabricInv, DraftIsSlice, Submitted, AddressesApart, Apart
  <2>4. SliceLed' /\ SliceDeleted'
    BY <1>1, <2>1 DEF SliceLed, SliceDeleted, LeadsHere, Known
  <2>5. QED
    BY <2>2, <2>3, <2>4 DEF FabricInv
<1>4. CASE phase = "failed"
  <2>1. /\ phase' = "idle" /\ NewProcess /\ failedLabels' = wanted.nodes \cup wanted.nets
        /\ \/ UNCHANGED <<saved, savedNets>>
           \/ saved' = <<>> /\ savedNets' = {}
    BY <1>4 DEF Save, Keeping
  <2>2. FabricTypes' /\ DraftIsSlice' /\ Submitted' /\ AddressesApart'
    <3>1. savedNets' \subseteq FabNets
      BY <2>1 DEF FabricInv, FabricTypes
    <3>2. QED
      BY <1>1, <2>1, <3>1, ProcessBegins DEF FabricInv, FabricTypes
  <2>3. SliceLed' /\ SliceDeleted'
    BY <1>1, <2>1 DEF SliceLed, SliceDeleted, LeadsHere, Known
  <2>4. QED
    BY <2>2, <2>3 DEF FabricInv
<1>5. QED
  BY <1>3, <1>4 DEF Save

\* The steps after which nothing may lead to the slice: it is noted.
LEMMA MaybeUnled ==
    ASSUME FabricInv, Crash \/ FailBefore \/ Edit
    PROVE  FabricInv'
<1>1. /\ phase' = "idle" /\ slice' = slice /\ wanted' \in Configs
      /\ unled' = (unled \/ ~LeadsHere')
      /\ \/ UNCHANGED <<saved, savedNets>>
         \/ saved' = <<>> /\ savedNets' = {}
  <2>1. CASE Crash
    <3>1. LeadsHere' = LeadsHere
      BY <2>1 DEF Crash, LeadsHere, Known, fabricSaves
    <3>2. QED
      BY <2>1, <3>1 DEF Crash, fabricSaves, FabricInv, FabricTypes
  <2>2. CASE FailBefore
    BY <2>2 DEF FailBefore, Keeping, FabricInv, FabricTypes
  <2>3. CASE Edit
    BY <2>3 DEF Edit, fabricSaves
  <2>4. QED
    BY <2>1, <2>2, <2>3
<1>2. SliceLed' /\ SliceDeleted'
  BY <1>1 DEF SliceLed, SliceDeleted
<1>3. FabricTypes' /\ DraftIsSlice' /\ Submitted' /\ AddressesApart'
  <2>1. CASE NewProcess
    <3>1. savedNets' \subseteq FabNets
      BY <1>1 DEF FabricInv, FabricTypes
    <3>2. QED
      BY <1>1, <2>1, <3>1, ProcessBegins DEF FabricInv, FabricTypes
  <2>2. CASE FailBefore
    <3>1. UNCHANGED <<wanted, slice, phase, draft, created, modified, address>> /\ phase = "idle"
      BY <2>2 DEF FailBefore
    <3>2. CASE UNCHANGED <<saved, savedNets>>
      BY <3>1, <3>2 DEF FabricInv, FabricTypes, DraftIsSlice, Submitted, AddressesApart
    <3>3. CASE saved' = <<>> /\ savedNets' = {}
      <4>1. DOMAIN saved' = {}
        BY <3>3
      <4>2. QED
        BY <3>1, <3>3, <4>1 DEF FabricInv, FabricTypes, DraftIsSlice, Submitted, AddressesApart, Apart
    <3>4. QED
      BY <1>1, <3>2, <3>3
  <2>3. QED
    BY <2>1, <2>2 DEF Crash, Edit
<1>4. QED
  BY <1>2, <1>3 DEF FabricInv

LEMMA DeleteAllKeeps ==
    ASSUME FabricInv, NEW looked \in BOOLEAN, DeleteAll(looked)
    PROVE  FabricInv'
<1>1. /\ phase \in {"idle", "applied"} /\ phase' = "destroyed" /\ NewProcess /\ wanted' = wanted
      /\ saved' = <<>> /\ savedNets' = {}
      /\ slice' = IF Deletes(looked) THEN Empty ELSE slice
  BY DEF DeleteAll
<1>2. FabricTypes' /\ DraftIsSlice' /\ Submitted' /\ AddressesApart'
  <2>1. slice' \in [state : SliceStates, nodes : SUBSET FabNodes, nets : SUBSET FabNets]
    BY <1>1 DEF FabricInv, FabricTypes, SliceStates, Empty
  <2>2. QED
    BY <1>1, <2>1, ProcessBegins DEF FabricInv, FabricTypes
<1>3. SliceLed'
  BY <1>1 DEF SliceLed
<1>4. SliceDeleted'
  <2>1. CASE LeadsHere
    <3>1. ~unled' => looked \/ slice.state = "none"
      BY <2>1 DEF DeleteAll
    <3>2. QED
      BY <1>1, <2>1, <3>1 DEF SliceDeleted, Deletes, Found, Empty
  <2>2. CASE ~LeadsHere
    BY <1>1, <2>2 DEF DeleteAll, SliceDeleted, FabricInv, SliceLed, Empty
  <2>3. QED
    BY <2>1, <2>2
<1>5. QED
  BY <1>2, <1>3, <1>4 DEF FabricInv

LEMMA DeleteRefusedKeeps ==
    ASSUME FabricInv, DeleteRefused
    PROVE  FabricInv'
<1>1. /\ phase \in {"idle", "applied"} /\ phase' = "idle" /\ NewProcess
      /\ UNCHANGED <<wanted, slice, savedNets, unled>>
      /\ saved' = saved \/ saved' = <<>>
      /\ wanted.nets \cap Known \subseteq failedLabels'
  BY DEF DeleteRefused
<1>2. FabricTypes' /\ DraftIsSlice' /\ Submitted' /\ AddressesApart'
  BY <1>1, ProcessBegins DEF FabricInv, FabricTypes
<1>3. LeadsHere => LeadsHere'
  BY <1>1 DEF LeadsHere, Known
<1>4. SliceLed' /\ SliceDeleted'
  BY <1>1, <1>3 DEF FabricInv, SliceLed, SliceDeleted
<1>5. QED
  BY <1>2, <1>4 DEF FabricInv

LEMMA FabricStep == FabricInv /\ [FabricNext]_fabricVars => FabricInv'
<1> SUFFICES ASSUME FabricInv, [FabricNext]_fabricVars PROVE FabricInv'
  OBVIOUS
<1>1. ASSUME NEW looked \in BOOLEAN, Start(looked) \/ DeleteAll(looked)
      PROVE  FabricInv'
  BY <1>1, StartKeeps, DeleteAllKeeps
<1>2. CASE AddResources
  BY <1>2, AddResourcesKeeps
<1>3. CASE CreateResources
  BY <1>3, CreateResourcesKeeps
<1>4. CASE Networking
  BY <1>4, NetworkingKeeps
<1>5. CASE Save
  BY <1>5, SaveKeeps
<1>6. CASE Crash \/ FailBefore \/ Edit
  BY <1>6, MaybeUnled
<1>7. CASE DeleteRefused
  BY <1>7, DeleteRefusedKeeps
<1> USE DEF FabricInv, FabricTypes, SliceStates, DraftIsSlice, Submitted, AddressesApart, SliceDeleted,
            SliceLed, LeadsHere, Known, fabricSaves
<1>8. CASE CreateFails \/ WaitStable
  BY <1>8 DEF CreateFails, WaitStable
<1>9. CASE Anew
  BY <1>9 DEF Anew
<1>10. CASE Settle
  BY <1>10 DEF Settle
<1>11. CASE UNCHANGED fabricVars
  BY <1>11 DEF fabricVars
<1>12. QED
  BY <1>1, <1>2, <1>3, <1>4, <1>5, <1>6, <1>7, <1>8, <1>9, <1>10, <1>11 DEF FabricNext

(* FABRIC: the slice is exactly what was configured and no two nodes share   *)
(* an address after any apply that succeeded, and no slice is left after a   *)
(* destroy unless what was saved does not lead to it or it could not be      *)
(* looked up, for all nodes, networks and pool sizes, over edits, crashes    *)
(* and failures (fabric_slice.py, controller.py).                            *)
THEOREM SliceIsRightHolds == FabricSpec => []SliceIsRight
<1>1. FabricInv => SliceIsRight
  BY DEF FabricInv, Submitted, AddressesApart, SliceIsRight, ExactSlice, AddressesDistinct
<1>2. QED
  BY <1>1, FabricStart, FabricStep, PTL DEF FabricSpec
-----------------------------------------------------------------------------
(* Chameleon.                                                                *)

ServerStates == {"none", "building", "active", "error"}

ChiTypes ==
    /\ chiCount \in 1..MaxServers
    /\ chiSaved \in -1..MaxServers /\ chiSaved # 0
    /\ servers \in [Servers -> ServerStates]
    /\ bound \in [FloatingIps -> -1..Others]
    /\ found \subseteq FloatingIps

\* Floating IPs listed as unbound are bound to no server of the session.
FoundAreOthers == \A f \in found : bound[f] \notin Servers

\* Unless a run failed, the servers are those that are saved until the run
\* has made them those that are asked for.
SavedAreBuilt ==
    ~died =>
        /\ chiStep \in {"idle", "destroyed", "lease", "router", "attach", "servers"} =>
               Built = Up(chiSaved)
        /\ chiStep \in {"active", "bind", "applied"} => Built = Up(chiCount)
        /\ chiStep = "applied" => chiSaved = chiCount

\* And so is the router.
RouterKnows ==
    /\ chiStep = "unsubnet" => chiRouter = "none"
    /\ ~died =>
        /\ chiStep \in {"idle", "destroyed", "lease"} =>
               chiRouter = IF chiSaved = Unknown THEN "none" ELSE "attached"
        /\ chiStep \in {"servers", "active", "bind", "applied"} => chiRouter = "attached"

ChiInv == ChiTypes /\ FoundAreOthers /\ SavedAreBuilt /\ RouterKnows /\ ServersReached

\* What becomes of a server: no surplus one is missing.
LEMMA ServerBecomes ==
    ASSUME ChiServers, NEW s \in Servers
    PROVE  /\ s \in Surplus => servers'[s] = "none"
           /\ s \in Missing => servers'[s] = "building"
           /\ s \notin Surplus \cup Missing => servers'[s] = servers[s]
<1>1. ~(s \in Surplus /\ s \in Missing)
  BY DEF Surplus, Missing
<1>2. servers'[s] = CASE s \in Surplus -> "none"
                      [] s \in Missing -> "building"
                      [] OTHER -> servers[s]
  BY DEF ChiServers
<1> HIDE DEF Surplus, Missing
<1>3. QED
  BY <1>1, <1>2

LEMMA ChiStart == ChiInit => ChiInv
<1> SUFFICES ASSUME ChiInit PROVE ChiInv
  OBVIOUS
<1>1. Built = {} /\ Up(chiSaved) = {}
  BY DEF ChiInit, Built, Up, Servers, Unknown
<1>2. bound \in [FloatingIps -> -1..Others] /\ found \subseteq FloatingIps
  BY ChameleonAssumption DEF ChiInit, Others, Free, NotMade
<1>3. servers \in [Servers -> ServerStates] /\ chiSaved \in -1..MaxServers /\ chiSaved # 0
  BY ChameleonAssumption DEF ChiInit, ServerStates, Unknown
<1>4. ChiTypes
  BY <1>2, <1>3 DEF ChiInit, ChiTypes
<1>5. QED
  BY <1>1, <1>4 DEF ChiInit, ChiInv, FoundAreOthers, SavedAreBuilt, RouterKnows, ServersReached

LEMMA ChiServersKeeps ==
    ASSUME ChiInv, ChiServers
    PROVE  ChiInv'
<1> USE DEF ChiInv, ChiServers
<1>1. ChiTypes'
  <2>1. servers' \in [Servers -> ServerStates]
    BY DEF ChiTypes, ServerStates
  <2>2. bound' \in [FloatingIps -> -1..Others]
    BY ChameleonAssumption DEF ChiTypes, Unbind, Free, Others
  <2>3. QED
    BY <2>1, <2>2 DEF ChiTypes
<1>2. FoundAreOthers'
  BY ChameleonAssumption DEF FoundAreOthers, ChiTypes, Unbind, Free, Servers
<1>3. ~died => Built' = Up(chiCount)
  <2>1. SUFFICES ASSUME ~died, NEW s \in Servers
                 PROVE  servers'[s] # "none" <=> s <= chiCount
    BY DEF Built, Up
  <2>2. servers[s] # "none" <=> s <= chiSaved
    BY <2>1 DEF SavedAreBuilt, Built, Up
  <2>3. chiSaved \in Int /\ chiCount \in Int /\ s \in Int /\ s >= 1
    BY DEF ChiTypes, Servers
  <2>4. s \in Surplus <=> s <= chiSaved /\ ~(s <= chiCount)
    BY <2>3 DEF Surplus, Up, Unknown
  <2>5. s \in Missing <=> s <= chiCount /\ servers[s] = "none"
    BY DEF Missing, Up
  <2>6. QED
    BY <2>2, <2>4, <2>5, ServerBecomes
<1>4. SavedAreBuilt' /\ RouterKnows' /\ ServersReached'
  BY <1>3 DEF SavedAreBuilt, RouterKnows, ServersReached, Up
<1>5. QED
  BY <1>1, <1>2, <1>4

LEMMA ChiDeleteKeeps ==
    ASSUME ChiInv, ChiDelete
    PROVE  ChiInv'
<1> USE DEF ChiInv, ChiDelete
<1>1. ChiTypes'
  <2>1. servers' \in [Servers -> ServerStates]
    BY DEF ChiTypes, ServerStates
  <2>2. bound' \in [FloatingIps -> -1..Others]
    BY ChameleonAssumption DEF ChiTypes, Unbind, Free, Others
  <2>3. QED
    BY <2>1, <2>2 DEF ChiTypes
<1>2. FoundAreOthers'
  BY ChameleonAssumption DEF FoundAreOthers, ChiTypes, Unbind, Free, Servers
<1>3. SavedAreBuilt' /\ RouterKnows' /\ ServersReached'
  BY DEF SavedAreBuilt, RouterKnows, ServersReached
<1>4. QED
  BY <1>1, <1>2, <1>3

LEMMA ChiIpsKeep ==
    ASSUME ChiInv, ListIps \/ BindIp \/ OthersBind
    PROVE  ChiInv'
<1> USE DEF ChiInv
<1>1. UNCHANGED <<chiCount, chiSaved, servers, lease, subnet, chiRouter, died>>
  BY DEF ListIps, BindIp, OthersBind
<1>2. /\ chiStep' # chiStep => chiStep \in {"active", "bind"} /\ chiStep' \in {"active", "bind"}
  BY DEF ListIps, BindIp, OthersBind
<1>3. Built' = Built
  BY <1>1 DEF Built
<1>4. SavedAreBuilt' /\ RouterKnows' /\ ServersReached'
  BY <1>1, <1>2, <1>3 DEF SavedAreBuilt, RouterKnows, ServersReached, Up
<1>5. CASE ListIps
  <2>1. /\ found' \subseteq FloatingIps /\ bound' \in [FloatingIps -> -1..Others]
        /\ \A f \in found' : bound'[f] = Free
    BY <1>5, ChameleonAssumption DEF ListIps, Unbound, ChiTypes, Free, Others
  <2>2. ChiTypes' /\ FoundAreOthers'
    BY <1>1, <2>1, ChameleonAssumption DEF ChiTypes, FoundAreOthers, Servers, Free
  <2>3. QED
    BY <1>4, <2>2
<1>6. CASE BindIp
  <2>1. found' = {} /\ \E s \in Servers, f \in found : bound' = [bound EXCEPT ![f] = s]
    BY <1>6 DEF BindIp
  <2>2. ChiTypes' /\ FoundAreOthers'
    BY <1>1, <2>1, ChameleonAssumption DEF ChiTypes, FoundAreOthers, Servers, Others
  <2>3. QED
    BY <1>4, <2>2
<1>7. CASE OthersBind
  <2>1. PICK f \in FloatingIps, b \in {Others, Free} : bound' = [bound EXCEPT ![f] = b]
    BY <1>7 DEF OthersBind
  <2>2. b \in -1..Others /\ b \notin Servers
    BY ChameleonAssumption DEF Others, Free, Servers
  <2>3. ChiTypes' /\ FoundAreOthers'
    BY <1>1, <1>7, <2>1, <2>2 DEF OthersBind, ChiTypes, FoundAreOthers
  <2>4. QED
    BY <1>4, <2>3
<1>8. QED
  BY <1>5, <1>6, <1>7

LEMMA ChiSettleKeeps ==
    ASSUME ChiInv, ChiSettle
    PROVE  ChiInv'
<1> USE DEF ChiInv
<1>1. UNCHANGED <<chiCount, chiSaved, subnet, chiRouter, bound, chiStep, found, died>>
  BY DEF ChiSettle
<1>2. /\ servers' \in [Servers -> ServerStates]
      /\ \A s \in Servers : servers[s] # "building" => servers'[s] = servers[s]
      /\ \A s \in Servers : servers'[s] = "none" <=> servers[s] = "none"
  BY DEF ChiSettle, ChiTypes, ServerStates
<1>3. Built' = Built
  BY <1>2 DEF Built
<1>4. ChiTypes' /\ FoundAreOthers'
  BY <1>1, <1>2 DEF ChiTypes, FoundAreOthers
<1>5. SavedAreBuilt' /\ RouterKnows'
  BY <1>1, <1>3 DEF SavedAreBuilt, RouterKnows, Up
<1>6. ServersReached'
  BY <1>1, <1>2, <1>3 DEF ServersReached, Up
<1>7. QED
  BY <1>4, <1>5, <1>6

LEMMA ChiStepKeeps == ChiInv /\ [ChiNext]_chiVars => ChiInv'
<1> SUFFICES ASSUME ChiInv, [ChiNext]_chiVars PROVE ChiInv'
  OBVIOUS
<1>1. CASE ChiServers
  BY <1>1, ChiServersKeeps
<1>2. CASE ChiDelete
  BY <1>2, ChiDeleteKeeps
<1>3. CASE ListIps \/ BindIp \/ OthersBind
  BY <1>3, ChiIpsKeep
<1>4. CASE ChiSettle
  BY <1>4, ChiSettleKeeps
<1> USE DEF ChiInv, ChiTypes, FoundAreOthers, SavedAreBuilt, RouterKnows, ServersReached, Built
<1>5. CASE ChiLease \/ ChiSubnet
  BY <1>5 DEF ChiLease, ChiSubnet
<1>6. CASE ChiRouter
  BY <1>6 DEF ChiRouter
<1>7. CASE ChiApplied
  BY <1>7, ChameleonAssumption DEF ChiApplied, Unknown
<1>8. CASE ChiUnroute
  BY <1>8 DEF ChiUnroute
<1>9. CASE ChiUnlease
  <2>1. Up(Unknown) = {}
    BY DEF Up, Unknown, Servers
  <2>2. QED
    BY <1>9, <2>1, ChameleonAssumption DEF ChiUnlease, Unknown
<1>10. CASE ChiFail
  BY <1>10, ChameleonAssumption DEF ChiFail
<1>11. CASE ChiEdit
  BY <1>11 DEF ChiEdit, Unknown
<1>12. CASE ChiPassed
  BY <1>12 DEF ChiPassed
<1>13. CASE UNCHANGED chiVars
  BY <1>13 DEF chiVars
<1>14. QED
  BY <1>1, <1>2, <1>3, <1>4, <1>5, <1>6, <1>7, <1>8, <1>9, <1>10, <1>11, <1>12, <1>13 DEF ChiNext

\* A floating IP leaves a server only when the server is deleted.
LEMMA ChiIps ==
    ASSUME ChiInv, [ChiNext]_chiVars, NEW f \in FloatingIps,
           bound[f] \in Servers, bound'[f] # bound[f]
    PROVE  servers'[bound[f]] = "none"
<1>1. CASE ChiServers
  <2>1. bound[f] \in Surplus
    BY <1>1 DEF ChiServers, Unbind
  <2>2. QED
    BY <1>1, <2>1, ServerBecomes
<1>2. CASE ChiDelete
  <2>1. bound[f] \in Up(chiCount)
    BY <1>2 DEF ChiDelete, Unbind
  <2>2. QED
    BY <1>2, <2>1 DEF ChiDelete
<1>3. CASE BindIp
  <2>1. PICK g \in found : \E s \in Servers : bound' = [bound EXCEPT ![g] = s]
    BY <1>3 DEF BindIp
  <2>2. bound[g] \notin Servers
    BY <2>1 DEF ChiInv, FoundAreOthers
  <2>3. QED
    BY <2>1, <2>2 DEF ChiInv, ChiTypes
<1>4. CASE OthersBind
  <2>1. Free \notin Servers /\ Others \notin Servers
    BY ChameleonAssumption DEF Free, Others, Servers
  <2>2. QED
    BY <1>4, <2>1 DEF OthersBind, ChiInv, ChiTypes
<1>5. CASE ListIps
  <2>1. NotMade \notin Servers
    BY DEF NotMade, Servers
  <2>2. QED
    BY <1>5, <2>1 DEF ListIps, ChiInv, ChiTypes
<1>6. bound' = bound \/ ChiServers \/ ChiDelete \/ BindIp \/ OthersBind \/ ListIps
  BY DEF ChiNext, ChiLease, ChiSubnet, ChiRouter, ChiApplied, ChiPassed, ChiUnroute, ChiUnlease,
     ChiFail, ChiEdit, ChiSettle, chiVars
<1>7. QED
  BY <1>1, <1>2, <1>3, <1>4, <1>5, <1>6

(* Chameleon: an apply that succeeded leaves active servers for exactly the  *)
(* configured count behind an attached router, and no server that has a      *)
(* floating IP loses it to another one, for every number of servers and of   *)
(* floating IPs shared with others or yet to be made (chi_node.py,           *)
(* chi_network.py).                                                          *)
THEOREM ChiIsRightHolds == ChiSpec => ChiIsRight
<1>1. ChiInv => ServersReached
  BY DEF ChiInv
<1>2. ChiInv /\ [ChiNext]_chiVars =>
        [\A f \in FloatingIps :
            bound[f] \in Servers /\ bound'[f] # bound[f] => servers'[bound[f]] = "none"]_chiVars
  BY ChiIps
<1>3. QED
  BY <1>1, <1>2, ChiStart, ChiStepKeeps, PTL DEF ChiSpec, ChiIsRight, IpsKept
-----------------------------------------------------------------------------
(* AWS.                                                                      *)

Serving == {"subnet", "table", "newtable", "associate", "propagate", "vif", "vifwait"}
Deleting == {"untable", "untabling", "unvif", "unvifwait", "detach", "detaching", "ungatewaywait"}
Holding == {"pending", "attach", "attaching", "applied"} \cup Serving \cup Deleting

AwsStates == Live \cup {"deleted", "gone"}
VpnGateway == [state : AwsStates, attached : {"no", "attaching", "yes", "detaching"}]
Vif == [state : AwsStates, gateway : Int]

AwsTypes ==
    /\ gateways \in Seq(VpnGateway)
    /\ vifs \in Seq(Vif)
    /\ tables \in Seq(Nat) /\ \A t \in DOMAIN tables : tables[t] \in 0..Len(gateways)
    /\ kept \subseteq DOMAIN tables
    /\ savedTable \in 0..Len(tables)
    /\ subnetOf \in Int
    /\ vpn \in Int /\ table \in Int /\ vif \in Int
    /\ awsStep = "unvifwait" => vif \in DOMAIN vifs

\* One gateway at a time is listed, the one the run holds; it is attached only
\* while it is available, and so it stays until the run deletes it.
OneGateway ==
    /\ \A g, h \in Listed(gateways) : g = h
    /\ awsStep \in Holding => vpn \in DOMAIN gateways /\ Listed(gateways) \subseteq {vpn}
    /\ \A g \in DOMAIN gateways :
           gateways[g].attached # "no" => gateways[g].state = "available"
    /\ awsStep \in Serving => gateways[vpn].state = "available"

\* A kept table that is fed by a listed gateway has the subnet, or has lost it
\* to a deletion; the saved one is fed by a gateway in service until it is
\* deleted.
TablesFollow ==
    /\ \A t \in kept : tables[t] \in Listed(gateways) => subnetOf = t \/ t \in parted
    /\ savedTable \in kept =>
           tables[savedTable] \in DOMAIN gateways /\ gateways[tables[savedTable]].state = "available"
    /\ awsStep \in Deleting \ {"untable", "untabling"} => savedTable \notin kept
    /\ awsStep \in {"newtable", "associate", "propagate"} => \A t \in kept : tables[t] # vpn
    /\ awsStep \in {"associate", "propagate"} => table \in kept
    /\ awsStep = "propagate" => subnetOf = table
    /\ awsStep \in {"vif", "vifwait"} =>
           table \in kept /\ tables[table] = vpn /\ (subnetOf = table \/ table \in parted)

\* Unless a deleted object was taken for a live one, interfaces in use are of
\* a gateway in service, one of each, and a deletion goes through them first.
VifsFollow ==
    ~stale =>
        /\ \A v \in DOMAIN vifs : vifs[v].state \in Live =>
               /\ vifs[v].gateway \in DOMAIN gateways
               /\ gateways[vifs[v].gateway].state = "available"
        /\ \A v, w \in DOMAIN vifs : vifs[v].state \in Live /\ vifs[w].state \in Live => v = w
        /\ awsStep \in {"unvifwait"} =>
               \A v \in DOMAIN vifs : vifs[v].state \in Live => v = vif
        /\ awsStep \in {"detach", "detaching", "ungatewaywait"} =>
               \A v \in DOMAIN vifs : vifs[v].state \notin Live

\* Nothing is saved of a network that was never made; a run that deletes it
\* knows it.
AwsKnown ==
    /\ EntryTypes(awsEntry)
    /\ awsStep \in {"idle", "destroyed"} /\ awsEntry = NoEntry /\ ~stale =>
           /\ \A g \in DOMAIN gateways : gateways[g].state \notin Live
           /\ \A v \in DOMAIN vifs : vifs[v].state \notin Live
    /\ awsStep \in Deleting \cup {"ungateway", "applied"} => IsKnown(awsEntry)
    /\ awsStep = "destroyed" => ~IsKnown(awsEntry)

AwsInv == AwsTypes /\ OneGateway /\ TablesFollow /\ VifsFollow /\ AwsKnown /\ OneTable
\* What a sequence becomes with one more element, and with another one.
LEMMA OneMore ==
    ASSUME NEW S, NEW s \in Seq(S), NEW e \in S
    PROVE  /\ Append(s, e) \in Seq(S) /\ Len(Append(s, e)) = Len(s) + 1
           /\ DOMAIN Append(s, e) = DOMAIN s \cup {Len(s) + 1}
           /\ Len(s) + 1 \notin DOMAIN s
           /\ Append(s, e)[Len(s) + 1] = e
           /\ \A i \in DOMAIN s : Append(s, e)[i] = s[i]
OBVIOUS

LEMMA OneOther ==
    ASSUME NEW S, NEW s \in Seq(S), NEW i \in DOMAIN s, NEW e \in S
    PROVE  /\ [s EXCEPT ![i] = e] \in Seq(S) /\ Len([s EXCEPT ![i] = e]) = Len(s)
           /\ DOMAIN [s EXCEPT ![i] = e] = DOMAIN s
           /\ \A j \in DOMAIN s : [s EXCEPT ![i] = e][j] = IF j = i THEN e ELSE s[j]
OBVIOUS

\* What is saved after a deletion.
LEMMA NothingSaved == EntryTypes(NoEntry) /\ ~IsKnown(NoEntry)
BY Entries DEF EntryTypes

LEMMA AwsStart == AwsInit => AwsInv
<1> SUFFICES ASSUME AwsInit PROVE AwsInv
  OBVIOUS
<1>1. /\ gateways = <<>> /\ tables = <<>> /\ vifs = <<>>
      /\ DOMAIN gateways = {} /\ DOMAIN tables = {} /\ DOMAIN vifs = {}
      /\ Len(gateways) = 0 /\ Len(tables) = 0 /\ kept = {} /\ awsStep = "idle"
  BY DEF AwsInit
<1>2. AwsTypes
  BY <1>1, AwsAssumption DEF AwsInit, AwsTypes, NoId, NoSubnet, UserTable
<1>3. QED
  BY <1>1, <1>2 DEF AwsInit, AwsInv, OneGateway, TablesFollow, VifsFollow, AwsKnown, EntryTypes,
     OneTable, Listed, Holding, Serving, Deleting

\* The steps that end a run without success, or without anything done.
LEMMA AwsEnds ==
    ASSUME AwsInv, AwsFail \/ AwsDie \/ Again \/ AwsForgotten \/ VpcNotAvailable
    PROVE  AwsInv'
<1>1. UNCHANGED <<gateways, tables, kept, subnetOf, vifs, parted, stale>>
  BY DEF AwsFail, AwsDie, Again, AwsForgotten, VpcNotAvailable, amazon
<1>2. /\ awsStep' \in {"idle", "destroyed"} /\ vpn' \in Int /\ table' \in Int /\ vif' \in Int
      /\ savedTable' \in {NoId, savedTable}
  BY DEF AwsFail, AwsDie, Again, AwsForgotten, VpcNotAvailable, EndRun, NoId, awsSaves, AwsInv, AwsTypes
<1>3. Listed(gateways)' = Listed(gateways)
  BY <1>1 DEF Listed
<1> USE DEF Holding, Serving, Deleting
<1>4. AwsTypes' /\ OneGateway' /\ TablesFollow' /\ VifsFollow' /\ OneTable'
  <2>1. AwsTypes'
    BY <1>1, <1>2 DEF AwsInv, AwsTypes, NoId
  <2>2. OneGateway'
    BY <1>1, <1>2, <1>3 DEF AwsInv, OneGateway
  <2>3. NoId \notin kept
    BY DEF AwsInv, AwsTypes, NoId
  <2>4. TablesFollow'
    BY <1>1, <1>2, <1>3, <2>3 DEF AwsInv, TablesFollow
  <2>5. VifsFollow' /\ OneTable'
    BY <1>1, <1>2 DEF AwsInv, VifsFollow, OneTable
  <2>6. QED
    BY <2>1, <2>2, <2>4, <2>5
<1>5. AwsKnown'
  <2>1. CASE AwsFail
    <3>1. PICK keeps \in MayKeep(awsEntry) :
            awsEntry' = CASE Unmaking -> UndeletedEntry(awsEntry)
                          [] awsStep = "idle" -> PassedEntry(awsEntry, keeps)
                          [] OTHER -> FailedEntry(awsEntry, keeps)
      BY <2>1 DEF AwsFail
    <3>2. keeps \in BOOLEAN
      BY KeepsOrNot
    <3>3. EntryTypes(awsEntry') /\ (awsEntry' = NoEntry => awsStep = "idle" /\ awsEntry = NoEntry)
      BY <3>1, <3>2, Entries DEF EntryTypes, Unmaking, AwsInv, AwsKnown
    <3>4. QED
      BY <1>1, <2>1, <3>3 DEF AwsFail, EndRun, AwsInv, AwsKnown, Deleting
  <2>2. CASE AwsDie
    <3>1. EntryTypes(awsEntry') /\ awsEntry' # NoEntry
      BY <2>2, Entries DEF AwsDie, Unmaking, EntryTypes, AwsInv, AwsKnown, Deleting
    <3>2. QED
      BY <1>1, <2>2, <3>1 DEF AwsDie, EndRun, AwsKnown, Deleting
  <2>3. CASE Again
    <3>1. awsEntry' = awsEntry /\ (awsStep = "applied" => awsEntry # NoEntry)
      BY <2>3, Entries DEF Again, awsSaves, EntryTypes, AwsInv, AwsKnown
    <3>2. QED
      BY <1>1, <2>3, <3>1 DEF Again, EndRun, AwsInv, AwsKnown, Deleting
  <2>4. CASE AwsForgotten
    BY <1>1, <2>4 DEF AwsForgotten, awsSaves, AwsInv, AwsKnown, Deleting
  <2>5. CASE VpcNotAvailable
    <3>1. EntryTypes(Adrift) /\ ~IsKnown(Adrift) /\ Adrift # NoEntry
      BY Entries DEF EntryTypes
    <3>2. QED
      BY <2>5, <3>1 DEF VpcNotAvailable, AwsKnown, Deleting
  <2>6. QED
    BY <2>1, <2>2, <2>3, <2>4, <2>5
<1>6. QED
  BY <1>4, <1>5 DEF AwsInv

\* The other steps that change none of the objects at Amazon.
LEMMA AwsLooks ==
    ASSUME AwsInv, UNCHANGED amazon,
           \/ BeginCreate \/ UseConnection \/ FindGateway \/ GatewayReady \/ Attached
           \/ FindTable \/ FindVif \/ VifReady \/ BeginDelete \/ VifDeleted \/ GatewayDeleted
    PROVE  AwsInv'
<1> USE DEF AwsInv, amazon, awsSaves
<1>1. Listed(gateways)' = Listed(gateways) /\ Listed(vifs)' = Listed(vifs)
  BY DEF Listed
<1> USE DEF Holding, Serving, Deleting
<1>2. CASE BeginCreate \/ UseConnection
  BY <1>1, <1>2 DEF BeginCreate, UseConnection, AwsTypes, OneGateway, TablesFollow,
     VifsFollow, AwsKnown, OneTable
<1>3. CASE FindGateway
  <2>1. AwsTypes' /\ AwsKnown' /\ OneTable'
    BY <1>1, <1>3 DEF FindGateway, AwsTypes, AwsKnown, OneTable, Listed
  <2>2. OneGateway'
    BY <1>1, <1>3 DEF FindGateway, OneGateway, Listed
  <2>3. TablesFollow'
    BY <1>1, <1>3 DEF FindGateway, TablesFollow
  <2>4. VifsFollow'
    BY <1>1, <1>3 DEF FindGateway, VifsFollow
  <2>5. QED
    BY <2>1, <2>2, <2>3, <2>4
<1>4. CASE GatewayReady \/ Attached
  BY <1>1, <1>4 DEF GatewayReady, Attached, AwsTypes, OneGateway, TablesFollow,
     VifsFollow, AwsKnown, OneTable
<1>5. CASE FindTable
  BY <1>1, <1>5 DEF FindTable, Propagating, AwsTypes, OneGateway, TablesFollow,
     VifsFollow, AwsKnown, OneTable, Listed
<1>6. CASE FindVif
  BY <1>1, <1>6 DEF FindVif, Ours, AwsTypes, OneGateway, TablesFollow,
     VifsFollow, AwsKnown, OneTable, Listed
<1>7. CASE VifReady
  <2>1. IsKnown(awsEntry') /\ EntryTypes(awsEntry')
    BY <1>7, Entries DEF VifReady, EntryTypes, AwsKnown
  <2>2. QED
    BY <1>1, <1>7, <2>1 DEF VifReady, AwsTypes, OneGateway, TablesFollow,
       VifsFollow, AwsKnown, OneTable
<1>8. CASE BeginDelete
  <2>1. CASE Listed(gateways) = {}
    <3>1. /\ awsStep' = "destroyed" /\ savedTable' = NoId /\ awsEntry' = NoEntry
          /\ UNCHANGED <<amazon, vpn, table, vif, parted, stale>>
      BY <1>8, <2>1 DEF BeginDelete, AllDeleted
    <3>2. \A g \in DOMAIN gateways : gateways[g].state = "gone"
      BY <2>1 DEF Listed
    <3>3. ~stale => \A v \in DOMAIN vifs : vifs[v].state \notin Live
      BY <3>2 DEF VifsFollow
    <3>4. AwsTypes' /\ OneGateway' /\ TablesFollow' /\ OneTable'
      BY <1>1, <3>1 DEF AwsTypes, OneGateway, TablesFollow, OneTable, NoId
    <3>5. VifsFollow' /\ AwsKnown'
      BY <3>1, <3>2, <3>3, NothingSaved DEF VifsFollow, AwsKnown, Live
    <3>6. QED
      BY <3>4, <3>5
  <2>2. CASE Listed(gateways) # {}
    BY <1>1, <1>8, <2>2 DEF BeginDelete, BeginsDelete, AwsTypes, OneGateway, TablesFollow,
       VifsFollow, AwsKnown, OneTable
  <2>3. QED
    BY <2>1, <2>2
<1>9. CASE VifDeleted
  BY <1>1, <1>9 DEF VifDeleted, AwsTypes, OneGateway, TablesFollow,
     VifsFollow, AwsKnown, OneTable, Live
<1>10. CASE GatewayDeleted
  <2>1. /\ awsStep = "ungatewaywait" /\ awsStep' = "destroyed"
        /\ savedTable' = NoId /\ awsEntry' = NoEntry
        /\ gateways[vpn].state = "deleted" /\ UNCHANGED <<amazon, vpn, table, vif, parted, stale>>
    BY <1>10 DEF GatewayDeleted, AllDeleted
  <2>2. \A g \in DOMAIN gateways : gateways[g].state \in {"deleted", "gone"}
    BY <2>1 DEF OneGateway, Listed
  <2>3. AwsTypes' /\ OneGateway' /\ TablesFollow' /\ OneTable'
    BY <1>1, <2>1 DEF AwsTypes, OneGateway, TablesFollow, OneTable, NoId
  <2>4. VifsFollow' /\ AwsKnown'
    BY <2>1, <2>2, NothingSaved DEF VifsFollow, AwsKnown, Live
  <2>5. QED
    BY <2>3, <2>4
<1>11. QED
  BY <1>2, <1>3, <1>4, <1>5, <1>6, <1>7, <1>8, <1>9, <1>10
\* The steps that change the tables and the subnet only.
LEMMA TableSteps ==
    ASSUME AwsInv,
           \/ ConfirmConnection \/ EnsureSubnet \/ LeaveTable \/ CreateTable \/ Associate
           \/ Propagate \/ Disassociate \/ DeleteTable
    PROVE  AwsInv'
<1> USE DEF AwsInv
<1>1. /\ UNCHANGED <<gateways, vifs, vpn, vif, awsEntry, savedTable, stale>>
      /\ parted' = parted \/ Disassociate
  BY DEF ConfirmConnection, EnsureSubnet, LeaveTable, CreateTable, Associate, Propagate,
     Disassociate, DeleteTable, awsSaves
<1> DEFINE others == {"idle", "ungateway", "detach", "detaching", "ungatewaywait", "destroyed",
                      "unvifwait", "applied"}
<1>2. /\ awsStep \notin others /\ awsStep' \notin others
      /\ awsStep' \in Deleting => awsStep \in Deleting
      /\ awsStep' \in Serving => awsStep \in Serving
      /\ awsStep' \in Holding => awsStep \in Holding
  BY DEF ConfirmConnection, EnsureSubnet, LeaveTable, CreateTable, Associate, Propagate,
     Disassociate, DeleteTable, Serving, Holding, Deleting
<1>3. Listed(gateways)' = Listed(gateways)
  BY <1>1 DEF Listed
<1>4. VifsFollow' /\ AwsKnown'
  BY <1>1, <1>2 DEF VifsFollow, AwsKnown
<1>5. OneGateway'
  BY <1>1, <1>2, <1>3 DEF OneGateway
<1>6. AwsTypes' /\ TablesFollow' /\ OneTable'
  <2> USE DEF Holding, Serving, Deleting
  <2>1. CASE ConfirmConnection
    BY <1>1, <1>3, <2>1 DEF ConfirmConnection, AwsTypes, TablesFollow, OneTable
  <2>2. CASE EnsureSubnet
    <3>1. NoSubnet \notin kept /\ NoId \in Int
      BY DEF AwsTypes, NoSubnet, NoId
    <3>2. QED
      BY <1>1, <1>3, <2>2, <3>1 DEF EnsureSubnet, AwsTypes, TablesFollow, OneTable
  <2>3. CASE LeaveTable
    <3>1. \A t \in kept : tables[t] \notin Listed(gateways) /\ tables[t] # vpn
      BY <2>3 DEF LeaveTable, Propagating, OneGateway
    <3>2. QED
      BY <1>1, <1>3, <2>3, <3>1 DEF LeaveTable, AwsTypes, TablesFollow, OneTable, NoId
  <2>4. CASE CreateTable
    <3> DEFINE new == Len(tables) + 1
    <3>1. /\ tables' \in Seq(Nat) /\ Len(tables') = new /\ DOMAIN tables' = DOMAIN tables \cup {new}
          /\ new \notin DOMAIN tables /\ tables'[new] = NoId
          /\ \A t \in DOMAIN tables : tables'[t] = tables[t]
      BY SMTT(30), <2>4, OneMore DEF CreateTable, AwsTypes, NoId
    <3>2. /\ kept' = kept \cup {new} /\ table' = new /\ subnetOf' = subnetOf /\ parted' = parted
          /\ awsStep = "newtable" /\ awsStep' = "associate"
      BY <2>4 DEF CreateTable
    <3>3. savedTable # new /\ NoId # vpn /\ NoId \notin DOMAIN gateways
      BY <3>2 DEF AwsTypes, OneGateway, NoId
    <3>4. AwsTypes'
      BY <1>1, <3>1, <3>2 DEF AwsTypes, NoId
    <3> HIDE DEF new
    <3>5. TablesFollow'
      <4>1. \A t \in kept' : t = new \/ (t \in kept /\ tables'[t] = tables[t])
        BY <3>1, <3>2 DEF AwsTypes
      <4>2. tables'[new] \notin Listed(gateways) /\ tables'[new] # vpn
        BY <3>1, <3>3 DEF Listed
      <4>3. savedTable \in kept' => savedTable \in kept /\ tables'[savedTable] = tables[savedTable]
        BY <3>3, <4>1
      <4>4. QED
        BY <1>1, <1>3, <3>2, <4>1, <4>2, <4>3 DEF TablesFollow
    <3>6. OneTable'
      <4>1. \A t \in kept : t \in DOMAIN tables
        BY DEF AwsTypes
      <4>2. \A t \in kept' : t = new \/ (t \in kept /\ tables'[t] = tables[t])
        BY <3>1, <3>2, <4>1
      <4>3. QED
        BY <1>2, <3>1, <4>2 DEF OneTable
    <3>7. QED
      BY <3>4, <3>5, <3>6
  <2>5. CASE Associate
    <3>1. \A t \in kept : tables[t] \notin Listed(gateways)
      BY <2>5 DEF Associate, TablesFollow, OneGateway
    <3>2. QED
      BY <1>1, <1>3, <2>5, <3>1 DEF Associate, AwsTypes, TablesFollow, OneTable
  <2>6. CASE Propagate
    <3>1. /\ table \in kept /\ subnetOf = table /\ \A t \in kept : tables[t] # vpn
          /\ vpn \in DOMAIN gateways /\ Listed(gateways) \subseteq {vpn}
          /\ gateways[vpn].state = "available"
      BY <2>6 DEF Propagate, TablesFollow, OneGateway
    <3>2. tables' = [tables EXCEPT ![table] = vpn] /\ UNCHANGED <<kept, subnetOf, table>>
          /\ awsStep' = "vif"
      BY <2>6 DEF Propagate
    <3>3. /\ tables' \in Seq(Nat) /\ Len(tables') = Len(tables) /\ DOMAIN tables' = DOMAIN tables
          /\ \A t \in DOMAIN tables : tables'[t] = IF t = table THEN vpn ELSE tables[t]
      BY <3>1, <3>2, OneOther DEF AwsTypes
    <3>4. AwsTypes'
      BY <1>1, <3>1, <3>2, <3>3 DEF AwsTypes
    <3>5. TablesFollow'
      BY <1>1, <1>3, <3>1, <3>2, <3>3 DEF TablesFollow, AwsTypes
    <3>6. OneTable'
      BY SMTT(30), <1>2, <3>1, <3>2, <3>3 DEF OneTable, AwsTypes
    <3>7. QED
      BY <3>4, <3>5, <3>6
  <2>7. CASE Disassociate
    <3>1. CASE savedTable \in kept
      <4>1. /\ subnetOf' = NoId /\ parted' = parted \cup ({subnetOf} \cap kept)
            /\ awsStep' = "untabling" /\ UNCHANGED <<tables, kept, table>>
        BY <2>7, <3>1 DEF Disassociate
      <4>2. QED
        BY <1>1, <1>3, <4>1 DEF AwsTypes, TablesFollow, OneTable, NoId
    <3>2. CASE savedTable \notin kept
      BY <1>1, <1>3, <2>7, <3>2 DEF Disassociate, AwsTypes, TablesFollow, OneTable
    <3>3. QED
      BY <3>1, <3>2
  <2>8. CASE DeleteTable
    BY <1>1, <1>3, <2>8 DEF DeleteTable, Disassociate, AwsTypes, TablesFollow, OneTable
  <2>9. QED
    BY <2>1, <2>2, <2>3, <2>4, <2>5, <2>6, <2>7, <2>8
<1>7. QED
  BY <1>4, <1>5, <1>6
\* A gateway is made only while none is listed.
LEMMA CreateGatewayKeeps ==
    ASSUME AwsInv, CreateGateway
    PROVE  AwsInv'
<1> USE DEF AwsInv
<1> DEFINE new == Len(gateways) + 1
           fresh == [state |-> "pending", attached |-> "no"]
<1>1. /\ awsStep = "gateway" /\ awsStep' = "pending" /\ vpn' = new
      /\ gateways' = Append(gateways, fresh)
      /\ UNCHANGED <<connection, tables, kept, subnetOf, vifs, table, vif, awsEntry, savedTable, parted, stale>>
  BY DEF awsSaves, CreateGateway
<1>2. \A g \in DOMAIN gateways : gateways[g].state = "gone"
  BY DEF CreateGateway, Listed
<1>3. fresh \in VpnGateway /\ fresh.state = "pending" /\ fresh.attached = "no"
  BY DEF VpnGateway, AwsStates, Live
<1> HIDE DEF fresh
<1>4. /\ gateways' \in Seq(VpnGateway) /\ Len(gateways') = new
      /\ DOMAIN gateways' = DOMAIN gateways \cup {new} /\ new \notin DOMAIN gateways
      /\ gateways'[new] = fresh
      /\ \A g \in DOMAIN gateways : gateways'[g] = gateways[g]
  BY <1>1, <1>3, OneMore DEF AwsTypes
<1>5. Listed(gateways)' \subseteq {new} /\ Listed(gateways) = {}
  BY <1>2, <1>4 DEF Listed
<1>6. AwsTypes'
  BY <1>1, <1>4 DEF AwsTypes
<1>7. new \notin 0..Len(gateways) /\ new \in Int
  BY DEF AwsTypes
<1> HIDE DEF new
<1>8. OneGateway'
  BY <1>1, <1>3, <1>4, <1>5 DEF OneGateway, Holding, Serving, Deleting
<1>9. TablesFollow'
  <2>1. \A t \in kept : tables[t] # new
    BY <1>7 DEF AwsTypes
  <2>2. savedTable \notin kept
    BY <1>2 DEF TablesFollow
  <2>3. QED
    BY <1>1, <1>5, <2>1, <2>2 DEF TablesFollow, Deleting
<1>10. VifsFollow' /\ AwsKnown' /\ OneTable'
  BY <1>1, <1>2, <1>4 DEF VifsFollow, AwsKnown, OneTable, Deleting
<1>11. QED
  BY <1>6, <1>8, <1>9, <1>10

\* A gateway changes its attachment while it is available, or its state while
\* it is not attached, and the run holds it.
LEMMA GatewayBecomes ==
    ASSUME AwsInv, NEW g \in DOMAIN gateways, NEW new \in VpnGateway,
           gateways' = [gateways EXCEPT ![g] = new],
           new.state = "gone" \/ gateways[g].state # "gone",
           new.attached # "no" => new.state = "available",
           UNCHANGED <<vifs, tables, kept, subnetOf, awsEntry, savedTable, parted, stale, table>>,
           vpn' = vpn, vif' = vif,
           gateways[g].state = "available" => new.state = "available",
           new.state \in Live => gateways[g].state \in Live,
           awsStep' \in Holding => awsStep \in Holding,
           awsStep' \in Serving => awsStep \in Serving,
           awsStep' \in Deleting \ {"untable", "untabling"} => awsStep \in Deleting \ {"untable", "untabling"},
           awsStep' # awsStep => awsStep' \in {"attaching", "detaching"} /\ awsStep \in {"attach", "detach"}
    PROVE  AwsInv'
<1> USE DEF AwsInv
<1>1. /\ gateways' \in Seq(VpnGateway) /\ Len(gateways') = Len(gateways)
      /\ DOMAIN gateways' = DOMAIN gateways
      /\ \A h \in DOMAIN gateways : gateways'[h] = IF h = g THEN new ELSE gateways[h]
  BY OneOther DEF AwsTypes
<1>2. Listed(gateways)' \subseteq Listed(gateways)
  BY <1>1 DEF Listed
<1>3. AwsTypes'
  BY <1>1 DEF AwsTypes
<1>4. OneGateway'
  <2>1. \A h \in DOMAIN gateways : gateways[h].state = "available" => gateways'[h].state = "available"
    BY <1>1
  <2>2. \A h \in DOMAIN gateways : gateways'[h].attached # "no" => gateways'[h].state = "available"
    BY <1>1 DEF OneGateway
  <2>3. awsStep' \in Serving => awsStep' \in Holding
    BY DEF Holding
  <2>4. QED
    BY <1>1, <1>2, <2>1, <2>2, <2>3 DEF OneGateway
<1>5. TablesFollow'
  BY <1>1, <1>2 DEF TablesFollow, Deleting
<1>6. VifsFollow'
  BY <1>1 DEF VifsFollow, Deleting
<1>7. AwsKnown' /\ OneTable'
  BY <1>1 DEF AwsKnown, OneTable, Deleting
<1>8. QED
  BY <1>3, <1>4, <1>5, <1>6, <1>7

LEMMA AttachmentKeeps ==
    ASSUME AwsInv, AttachGateway \/ DetachGateway
    PROVE  AwsInv'
<1> USE DEF AwsInv
<1>1. /\ UNCHANGED <<connection, tables, kept, subnetOf, vifs, vpn, table, vif, awsEntry, savedTable,
                     parted, stale>>
      /\ \/ awsStep = "attach" /\ awsStep' = "attaching"
         \/ awsStep = "detach" /\ awsStep' = "detaching"
  BY DEF AttachGateway, DetachGateway, awsSaves
<1>2. /\ awsStep \in Holding /\ awsStep' \notin Serving
      /\ awsStep' \in Deleting \ {"untable", "untabling"} => awsStep \in Deleting \ {"untable", "untabling"}
  BY <1>1 DEF Holding, Serving, Deleting
<1>3. vpn \in DOMAIN gateways /\ gateways[vpn] \in VpnGateway
  BY <1>2 DEF OneGateway, AwsTypes
<1>4. CASE gateways' = gateways
  <2>1. Listed(gateways)' = Listed(gateways)
    BY <1>4 DEF Listed
  <2>2. QED
    BY <1>1, <1>2, <1>4, <2>1 DEF AwsTypes, OneGateway, TablesFollow, VifsFollow, AwsKnown,
       OneTable, Deleting
<1>5. CASE gateways' # gateways
  <2>1. PICK a \in {"attaching", "detaching"} : gateways' = [gateways EXCEPT ![vpn].attached = a]
    BY <1>5 DEF AttachGateway, DetachGateway
  <2>2. gateways[vpn].state = "available"
    BY <1>3, <1>5 DEF AttachGateway, DetachGateway, OneGateway
  <2> DEFINE new == [gateways[vpn] EXCEPT !.attached = a]
  <2>3. new \in VpnGateway /\ new.state = "available" /\ gateways' = [gateways EXCEPT ![vpn] = new]
    BY <1>3, <2>1, <2>2 DEF VpnGateway
  <2>4. "available" \in Live
    BY DEF Live
  <2> HIDE DEF new
  <2>5. QED
    BY <1>1, <1>2, <1>3, <2>2, <2>3, <2>4, GatewayBecomes
<1>6. QED
  BY <1>4, <1>5

\* Only a gateway that no interface and no saved table needs is deleted.
LEMMA DeleteGatewayKeeps ==
    ASSUME AwsInv, DeleteGateway
    PROVE  AwsInv'
<1> USE DEF AwsInv
<1>1. /\ awsStep = "detaching" /\ gateways[vpn].attached = "no"
      /\ UNCHANGED <<connection, tables, kept, subnetOf, vifs, table, vif, parted, stale>>
  BY DEF DeleteGateway
<1>2. /\ vpn \in DOMAIN gateways /\ Listed(gateways) \subseteq {vpn} /\ savedTable \notin kept
      /\ ~stale => \A v \in DOMAIN vifs : vifs[v].state \notin Live
  BY <1>1 DEF OneGateway, TablesFollow, VifsFollow, Holding, Deleting
<1>3. CASE Listed(gateways) = {} /\ AllDeleted
           /\ UNCHANGED <<connection, gateways, vpn>>
  <2>1. \A g \in DOMAIN gateways : gateways[g].state = "gone"
    BY <1>3 DEF Listed
  <2>2. AwsTypes' /\ OneGateway' /\ TablesFollow' /\ OneTable'
    BY <1>1, <1>3 DEF AllDeleted, AwsTypes, OneGateway, TablesFollow, OneTable, NoId, Listed,
       Holding, Serving, Deleting
  <2>3. VifsFollow' /\ AwsKnown'
    BY <1>1, <1>2, <1>3, <2>1, NothingSaved DEF AllDeleted, VifsFollow, AwsKnown, Live, Deleting
  <2>4. QED
    BY <2>2, <2>3
<1>4. CASE \E g \in Listed(gateways) :
            /\ gateways' = [gateways EXCEPT ![g].state = "deleting"] /\ vpn' = g
            /\ awsStep' = "ungatewaywait" /\ UNCHANGED awsSaves
  <2>1. /\ vpn \in Listed(gateways) /\ vpn' = vpn
        /\ gateways' = [gateways EXCEPT ![vpn].state = "deleting"]
        /\ awsStep' = "ungatewaywait" /\ savedTable' = savedTable /\ awsEntry' = awsEntry
    BY <1>2, <1>4 DEF awsSaves
  <2> DEFINE new == [gateways[vpn] EXCEPT !.state = "deleting"]
  <2>2. new \in VpnGateway /\ new.attached = "no" /\ gateways' = [gateways EXCEPT ![vpn] = new]
    <3>1. gateways[vpn] \in VpnGateway
      BY <1>2 DEF AwsTypes
    <3>2. new \in VpnGateway /\ new.attached = gateways[vpn].attached
      BY <3>1 DEF VpnGateway, AwsStates, Live
    <3>3. QED
      BY <1>1, <2>1, <3>2
  <2> HIDE DEF new
  <2>3. /\ gateways' \in Seq(VpnGateway) /\ Len(gateways') = Len(gateways)
        /\ DOMAIN gateways' = DOMAIN gateways
        /\ \A h \in DOMAIN gateways : gateways'[h] = IF h = vpn THEN new ELSE gateways[h]
    BY <1>2, <2>2, OneOther DEF AwsTypes
  <2>4. Listed(gateways)' \subseteq Listed(gateways)
    BY <2>1, <2>3 DEF Listed
  <2>5. AwsTypes' /\ OneGateway'
    BY <1>1, <1>2, <2>1, <2>2, <2>3, <2>4 DEF AwsTypes, OneGateway, Holding, Serving, Deleting
  <2>6. TablesFollow' /\ OneTable'
    BY <1>1, <1>2, <2>1, <2>4 DEF TablesFollow, OneTable
  <2>7. VifsFollow' /\ AwsKnown'
    BY <1>1, <1>2, <2>1 DEF VifsFollow, AwsKnown, Deleting
  <2>8. QED
    BY <2>5, <2>6, <2>7
<1>5. QED
  BY <1>3, <1>4 DEF DeleteGateway
\* An interface is made for a gateway in service that has none.
LEMMA CreateVifKeeps ==
    ASSUME AwsInv, CreateVif
    PROVE  AwsInv'
<1> USE DEF AwsInv
<1> DEFINE new == Len(vifs) + 1
           fresh == [state |-> "pending", gateway |-> vpn]
<1>1. /\ awsStep = "vif" /\ awsStep' = "vifwait" /\ Ours = {}
      /\ vifs' = Append(vifs, fresh) /\ vif' = new
      /\ UNCHANGED <<connection, gateways, tables, kept, subnetOf, vpn, table, awsEntry, savedTable, parted, stale>>
  BY DEF awsSaves, CreateVif
<1>2. /\ vpn \in DOMAIN gateways /\ Listed(gateways) \subseteq {vpn}
      /\ gateways[vpn].state = "available"
  BY <1>1 DEF OneGateway, Serving, Holding
<1>3. fresh \in Vif /\ fresh.gateway = vpn /\ new \in Int
  BY DEF Vif, AwsStates, Live, AwsTypes
<1> HIDE DEF fresh
<1>4. /\ vifs' \in Seq(Vif) /\ DOMAIN vifs' = DOMAIN vifs \cup {new} /\ vifs'[new] = fresh
      /\ \A v \in DOMAIN vifs : vifs'[v] = vifs[v]
  BY <1>1, <1>3, OneMore DEF AwsTypes
<1> HIDE DEF new
<1>5. ~stale => \A v \in DOMAIN vifs : vifs[v].state \notin Live
  <2>1. SUFFICES ASSUME ~stale, NEW v \in DOMAIN vifs, vifs[v].state \in Live PROVE FALSE
    OBVIOUS
  <2>2. vifs[v].gateway = vpn
    BY <1>2, <2>1 DEF VifsFollow, Listed
  <2>3. v \in Listed(vifs)
    BY <2>1 DEF Listed, Live
  <2>4. QED
    BY <1>1, <2>2, <2>3 DEF Ours
<1>6. Listed(gateways)' = Listed(gateways)
  BY <1>1 DEF Listed
<1>7. AwsTypes' /\ OneGateway' /\ TablesFollow' /\ AwsKnown' /\ OneTable'
  BY <1>1, <1>3, <1>4, <1>6 DEF AwsTypes, OneGateway, TablesFollow, AwsKnown, OneTable,
     Serving, Holding, Deleting
<1>8. VifsFollow'
  <2>1. \A v \in DOMAIN vifs' : ~stale /\ vifs'[v].state \in Live => v = new
    BY <1>4, <1>5
  <2>2. QED
    BY <1>1, <1>2, <1>3, <1>4, <2>1 DEF VifsFollow
<1>9. QED
  BY <1>7, <1>8

\* The interface that is deleted is the only one in use.
LEMMA DeleteVifKeeps ==
    ASSUME AwsInv, DeleteVif
    PROVE  AwsInv'
<1> USE DEF AwsInv
<1>1. /\ awsStep = "unvif" /\ awsStep' \in {"detach", "unvifwait"}
      /\ UNCHANGED <<connection, gateways, tables, kept, subnetOf, vpn, table, awsEntry, savedTable, parted>>
  BY DEF DeleteVif, awsSaves
<1>2. Listed(gateways)' = Listed(gateways)
  BY <1>1 DEF Listed
<1>3. OneGateway' /\ TablesFollow' /\ OneTable'
  BY <1>1, <1>2 DEF OneGateway, TablesFollow, OneTable, Serving, Holding, Deleting
<1>4. CASE Unwanted = {} /\ awsStep' = "detach" /\ UNCHANGED <<vifs, vif, stale>>
  <2>1. \A v \in DOMAIN vifs : vifs[v].state \notin Live
    BY <1>4 DEF Unwanted, Listed, Live
  <2>2. AwsTypes' /\ VifsFollow' /\ AwsKnown'
    BY <1>1, <1>4, <2>1 DEF AwsTypes, VifsFollow, AwsKnown, Deleting
  <2>3. QED
    BY <1>3, <2>2
<1>5. ASSUME NEW v \in Unwanted, vif' = v,
             vifs' = IF vifs[v].state = "deleted" THEN vifs
                     ELSE [vifs EXCEPT ![v].state = "deleting"],
             stale' = (stale \/ vifs[v].state = "deleted"),
             awsStep' = "unvifwait"
      PROVE  AwsInv'
  <2>1. v \in DOMAIN vifs /\ vifs[v].state # "gone" /\ vifs[v] \in Vif /\ v \in Int
    BY DEF Unwanted, Listed, AwsTypes
  <2>2. CASE vifs[v].state = "deleted"
    <3>1. stale' /\ vifs' = vifs
      BY <1>5, <2>2
    <3>2. VifsFollow' /\ AwsKnown'
      BY <1>1, <1>5, <3>1 DEF VifsFollow, AwsKnown, Deleting
    <3>3. AwsTypes'
      BY <1>1, <1>5, <2>1, <3>1 DEF AwsTypes
    <3>4. QED
      BY <1>3, <3>2, <3>3
  <2>3. CASE vifs[v].state # "deleted"
    <3> DEFINE new == [vifs[v] EXCEPT !.state = "deleting"]
    <3>1. new \in Vif /\ new.gateway = vifs[v].gateway /\ new.state = "deleting"
      BY <2>1 DEF Vif, AwsStates, Live
    <3>2. vifs' = [vifs EXCEPT ![v] = new]
      BY <1>5, <2>1, <2>3
    <3> HIDE DEF new
    <3>3. /\ vifs' \in Seq(Vif) /\ DOMAIN vifs' = DOMAIN vifs
          /\ \A w \in DOMAIN vifs : vifs'[w] = IF w = v THEN new ELSE vifs[w]
      BY <2>1, <3>1, <3>2, OneOther DEF AwsTypes
    <3>4. vifs[v].state \in Live /\ (stale' <=> stale)
      BY <1>5, <2>1, <2>3 DEF Vif, AwsStates
    <3>5. VifsFollow'
      BY <1>1, <1>5, <2>1, <3>1, <3>3, <3>4 DEF VifsFollow
    <3>6. AwsTypes' /\ AwsKnown'
      BY <1>1, <1>5, <2>1, <3>3 DEF AwsTypes, AwsKnown, Deleting
    <3>7. QED
      BY <1>3, <3>5, <3>6
  <2>4. QED
    BY <2>2, <2>3
<1>6. QED
  BY <1>4, <1>5 DEF DeleteVif

LEMMA AmazonKeeps ==
    ASSUME AwsInv, Amazon
    PROVE  AwsInv'
<1> USE DEF AwsInv
<1>1. UNCHANGED <<tables, kept, subnetOf, awsStep, vpn, table, vif, awsEntry, savedTable, parted, stale>>
  BY DEF awsSaves, Amazon
<1>2. DOMAIN After = {"pending", "deleting", "deleted"}
      /\ \A s \in DOMAIN After :
            /\ After[s] \in AwsStates
            /\ s # "available" /\ s # "gone"
            /\ After[s] \in Live => s \in Live
  BY DEF After, AwsStates, Live
<1>3. ASSUME NEW g \in DOMAIN gateways,
             \/ /\ gateways[g].state \in DOMAIN After
                /\ gateways' = [gateways EXCEPT ![g].state = After[gateways[g].state]]
             \/ /\ gateways[g].attached \in {"attaching", "detaching"}
                /\ gateways' = [gateways EXCEPT ![g].attached =
                                     IF @ = "attaching" THEN "yes" ELSE "no"],
             UNCHANGED vifs
      PROVE  AwsInv'
  <2>1. gateways[g] \in VpnGateway
    BY DEF AwsTypes
  <2>2. CASE /\ gateways[g].state \in DOMAIN After
             /\ gateways' = [gateways EXCEPT ![g].state = After[gateways[g].state]]
    <3> DEFINE new == [gateways[g] EXCEPT !.state = After[gateways[g].state]]
    <3>1. new \in VpnGateway /\ new.attached = gateways[g].attached
          /\ new.state = After[gateways[g].state]
      BY <1>2, <2>1, <2>2 DEF VpnGateway
    <3>2. gateways[g].attached = "no"
      BY <1>2, <2>2 DEF OneGateway
    <3>3. gateways' = [gateways EXCEPT ![g] = new]
      BY <2>2
    <3> HIDE DEF new
    <3>4. QED
      BY <1>1, <1>2, <1>3, <2>2, <3>1, <3>2, <3>3, GatewayBecomes
  <2>3. CASE /\ gateways[g].attached \in {"attaching", "detaching"}
             /\ gateways' = [gateways EXCEPT ![g].attached = IF @ = "attaching" THEN "yes" ELSE "no"]
    <3> DEFINE new == [gateways[g] EXCEPT !.attached = IF @ = "attaching" THEN "yes" ELSE "no"]
    <3>1. new \in VpnGateway /\ new.state = gateways[g].state
      BY <2>1 DEF VpnGateway
    <3>2. gateways[g].state = "available"
      BY <2>3 DEF OneGateway
    <3>3. gateways' = [gateways EXCEPT ![g] = new]
      BY <2>3
    <3>4. "available" \in Live
      BY DEF Live
    <3> HIDE DEF new
    <3>5. QED
      BY <1>1, <1>3, <3>1, <3>2, <3>3, <3>4, GatewayBecomes
  <2>4. QED
    BY <1>3, <2>2, <2>3
<1>4. ASSUME NEW v \in DOMAIN vifs, vifs[v].state \in DOMAIN After,
             vifs' = [vifs EXCEPT ![v].state = After[vifs[v].state]],
             UNCHANGED gateways
      PROVE  AwsInv'
  <2> DEFINE new == [vifs[v] EXCEPT !.state = After[vifs[v].state]]
  <2>1. /\ new \in Vif /\ new.gateway = vifs[v].gateway
        /\ (new.state \in Live => vifs[v].state \in Live)
    <3>1. vifs[v] \in Vif
      BY DEF AwsTypes
    <3>2. new \in Vif /\ new.gateway = vifs[v].gateway /\ new.state = After[vifs[v].state]
      BY <1>2, <1>4, <3>1 DEF Vif
    <3>3. QED
      BY <1>2, <1>4, <3>2
  <2>2. vifs' = [vifs EXCEPT ![v] = new]
    BY <1>4
  <2> HIDE DEF new
  <2>3. /\ vifs' \in Seq(Vif) /\ DOMAIN vifs' = DOMAIN vifs
        /\ \A w \in DOMAIN vifs : vifs'[w] = IF w = v THEN new ELSE vifs[w]
    BY <2>1, <2>2, OneOther DEF AwsTypes
  <2>4. Listed(gateways)' = Listed(gateways)
    BY <1>4 DEF Listed
  <2>5. AwsTypes' /\ OneGateway' /\ TablesFollow' /\ OneTable'
    BY <1>1, <1>4, <2>3, <2>4 DEF AwsTypes, OneGateway, TablesFollow, OneTable
  <2>6. \A w \in DOMAIN vifs : /\ vifs'[w].state \in Live => vifs[w].state \in Live
                               /\ vifs'[w].gateway = vifs[w].gateway
    BY <2>1, <2>3
  <2>7. VifsFollow' /\ AwsKnown'
    BY <1>1, <1>4, <2>3, <2>6 DEF VifsFollow, AwsKnown
  <2>8. QED
    BY <2>5, <2>7
<1>5. CASE UNCHANGED <<gateways, vifs>>
  <2>1. Listed(gateways)' = Listed(gateways)
    BY <1>5 DEF Listed
  <2>2. QED
    BY <1>1, <1>5, <2>1 DEF AwsTypes, OneGateway, TablesFollow, VifsFollow, AwsKnown, OneTable
<1>6. QED
  BY <1>3, <1>4, <1>5 DEF Amazon

LEMMA AwsStepKeeps == AwsInv /\ [AwsNext]_awsVars => AwsInv'
<1> SUFFICES ASSUME AwsInv, [AwsNext]_awsVars PROVE AwsInv'
  OBVIOUS
<1>1. CASE \/ BeginCreate \/ UseConnection \/ FindGateway \/ GatewayReady \/ Attached
           \/ FindTable \/ FindVif \/ VifReady \/ BeginDelete \/ VifDeleted \/ GatewayDeleted
  <2>1. UNCHANGED amazon
    BY <1>1 DEF BeginCreate, UseConnection, FindGateway, GatewayReady, Attached, FindTable, FindVif,
       VifReady, BeginDelete, VifDeleted, GatewayDeleted
  <2>2. QED
    BY <1>1, <2>1, AwsLooks
<1>2. CASE \/ ConfirmConnection \/ EnsureSubnet \/ LeaveTable \/ CreateTable \/ Associate
           \/ Propagate \/ Disassociate \/ DeleteTable
  BY <1>2, TableSteps
<1>3. CASE CreateGateway
  BY <1>3, CreateGatewayKeeps
<1>4. CASE AttachGateway \/ DetachGateway
  BY <1>4, AttachmentKeeps
<1>5. CASE DeleteGateway
  BY <1>5, DeleteGatewayKeeps
<1>6. CASE CreateVif
  BY <1>6, CreateVifKeeps
<1>7. CASE DeleteVif
  BY <1>7, DeleteVifKeeps
<1>8. CASE Amazon
  BY <1>8, AmazonKeeps
<1>9. CASE AwsFail \/ AwsDie \/ Again \/ AwsForgotten \/ VpcNotAvailable
  BY <1>9, AwsEnds
<1>10. CASE UNCHANGED awsVars
  BY <1>10 DEF awsVars, awsSaves, AwsInv, AwsTypes, OneGateway, TablesFollow, VifsFollow, AwsKnown,
     OneTable, Listed
<1>11. QED
  BY <1>1, <1>2, <1>3, <1>4, <1>5, <1>6, <1>7, <1>8, <1>9, <1>10 DEF AwsNext

(* AWS: a destroy that succeeds leaves no gateway and no interface in use    *)
(* unless a deleted object was taken for a live one or what was saved does   *)
(* not lead there, no gateway feeds two tables, and an apply that succeeded  *)
(* leaves the subnet in the table that it saved unless a deletion had taken  *)
(* it from there and failed, for any number of objects, failed runs and      *)
(* deaths (aws_utils.py, controller.py).                                     *)
THEOREM AwsIsRightHolds == AwsSpec => []AwsIsRight
<1>1. AwsInv => AwsIsRight
  BY DEF AwsInv, AwsKnown, EntryTypes, NothingBilled, AwsIsRight
<1>2. QED
  BY <1>1, AwsStart, AwsStepKeeps, PTL DEF AwsSpec

-----------------------------------------------------------------------------
(* Reconfigure: a configuration that is edited between its runs.             *)

Instances == SUBSET (1..MaxCount)

ReconfigureTypes ==
    /\ kind \in {"whole", "parts"}
    /\ count \in Configurations
    /\ exists \in [Labels -> Instances] /\ states \in [Labels -> Instances]
    /\ total \in [Labels -> 0..MaxCount] /\ createdCount \in [Labels -> 0..MaxCount]
    /\ failed \subseteq Labels
    /\ smooth \in BOOLEAN /\ again \in BOOLEAN /\ touched \in BOOLEAN

\* Nothing is known of a resource that was never counted.
StatesCounted == \A l \in Labels : states[l] # {} => total[l] > 0

\* There are no nodes without their network, unless a deletion in parts failed.
NetworkFirst == (kind = "whole" \/ smooth) /\ exists["node"] # {} => exists["net"] # {}

\* The file knows what there is: all of a resource as it was counted last, or
\* nothing of it; the count is that of the last apply.
FileAgrees ==
    smooth => \A l \in Labels :
        /\ exists[l] = {} \/ exists[l] = 1..total[l]
        /\ exists[l] \subseteq states[l]
        /\ Cardinality(exists[l]) = createdCount[l]

\* What there is of an unedited configuration is what it counts, and what was
\* made of one without edits is reached by a destroy.
UneditedIsCounted ==
    smooth /\ again => \A l \in Labels : exists[l] # {} => exists[l] = Added(l)
UntouchedIsReached ==
    ~touched => \A l \in Labels :
        /\ exists[l] \subseteq Added(l)
        /\ exists[l] # {} => (IF kind = "whole" THEN "net" ELSE l) \in Doomed

ReconfigureInv ==
    /\ ReconfigureTypes /\ StatesCounted /\ NetworkFirst /\ FileAgrees
    /\ Exact /\ PlanKept /\ UneditedIsCounted /\ UntouchedIsReached

LEMMA Counts ==
    ASSUME NEW n \in Nat
    PROVE  IsFiniteSet(1..n) /\ Cardinality(1..n) = n /\ (1..n = {} <=> n = 0)
<1>1. IsFiniteSet(1..n) /\ Cardinality(1..n) = n
  BY FS_Interval
<1> QED BY <1>1, FS_EmptySet

LEMMA RestOfCounts ==
    ASSUME NEW m \in Nat, NEW n \in Nat, n < m
    PROVE  Cardinality((1..m) \ (1..n)) = m - n
<1> DEFINE first == n + 1
<1>1. first \in Int /\ m \in Int /\ ~(first > m) /\ m - first + 1 = m - n
  OBVIOUS
<1>2. (1..m) \ (1..n) = first..m
  OBVIOUS
<1> HIDE DEF first
<1>3. Cardinality(first..m) = m - first + 1
  BY <1>1, FS_Interval
<1> QED BY <1>1, <1>2, <1>3

LEMMA InstancesFinite ==
    ASSUME NEW S \in Instances
    PROVE  /\ IsFiniteSet(S) /\ Cardinality(S) \in 0..MaxCount
           /\ (Cardinality(S) = 0 <=> S = {})
<1>1. IsFiniteSet(1..MaxCount) /\ Cardinality(1..MaxCount) = MaxCount
  BY Counts, ReconfigureAssumption
<1>2. IsFiniteSet(S) /\ Cardinality(S) <= MaxCount
  BY <1>1, FS_Subset DEF Instances
<1>3. Cardinality(S) \in Nat /\ (Cardinality(S) = 0 <=> S = {})
  BY <1>2, FS_CardinalityType, FS_EmptySet
<1> QED BY <1>2, <1>3, ReconfigureAssumption

LEMMA AddedCounts ==
    ASSUME ReconfigureTypes, NEW l \in Labels
    PROVE  /\ count[l] \in 0..MaxCount /\ count[l] \in Nat
           /\ Added(l) \in Instances /\ IsFiniteSet(Added(l))
           /\ Cardinality(Added(l)) = count[l] /\ (Added(l) = {} <=> count[l] = 0)
<1>1. count[l] \in 0..MaxCount /\ MaxCount \in Nat
  BY ReconfigureAssumption DEF ReconfigureTypes, Configurations
<1> QED BY <1>1, Counts DEF Added, Instances

LEMMA NodesNeedNetwork ==
    ASSUME ReconfigureTypes, Added("node") # {}
    PROVE  Added("net") # {}
BY AddedCounts DEF ReconfigureTypes, Configurations, Labels

\* The parts of an apply: what is deleted, what is left, what failed.
Gone(refused) == IF MapsDiffer /\ ~refused THEN ToRemove ELSE Nothing({})
Left(refused) == [l \in Labels |-> exists[l] \ Gone(refused)[l]]
Stuck(refused) ==
    IF kind = "parts" /\ MapsDiffer /\ refused THEN {l \in Labels : ToRemove[l] # {}} ELSE {}
Fails(refused, reported) == Stuck(refused) \cup {l \in Labels : reported[l] # Added(l)}
Fine(refused, reported) == Fails(refused, reported) = {} /\ ~(MapsDiffer /\ refused)

ApplyWith(refused, got, reported) ==
    /\ got \in Creations(Left(refused))
    /\ \A l \in Labels : reported[l] \subseteq got[l]
    /\ exists' = [l \in Labels |-> Left(refused)[l] \cup got[l]]
    /\ SaveStates(reported, Fails(refused, reported))
    /\ ran' = IF Fails(refused, reported) = {} THEN "applied" ELSE "failed"
    /\ deletions' = Size([l \in Labels |-> Gone(refused)[l] \cap states[l]])
    /\ smooth' = (smooth /\ Fine(refused, reported))
    /\ again' = Fine(refused, reported)
    /\ promised' = ToBeDeleted("net") + ToBeDeleted("node")
    /\ UNCHANGED <<kind, entry, count, touched>>

LEMMA ApplyParts ==
    ASSUME Apply
    PROVE  \E refused \in BOOLEAN, reported \in [Labels -> Instances] :
               \E got : ApplyWith(refused, got, reported)
BY DEF Apply, ApplyWith, Gone, Left, Stuck, Fails, Fine, Instances

LEMMA LeftTypes ==
    ASSUME ReconfigureTypes, NEW refused \in BOOLEAN
    PROVE  /\ Gone(refused) \in [Labels -> Instances] /\ Left(refused) \in [Labels -> Instances]
           /\ \A l \in Labels : Left(refused)[l] \subseteq exists[l]
           /\ \A l \in Labels : Gone(refused)[l] \subseteq exists[l]
           /\ kind = "whole" => Left(refused) = exists \/ Left(refused) = Nothing({})
<1>1. Gone(refused) \in [Labels -> Instances] /\ \A l \in Labels : Gone(refused)[l] \subseteq exists[l]
  <2>1. ToRemove \in [Labels -> Instances] /\ \A l \in Labels : ToRemove[l] \subseteq exists[l]
    BY DEF ToRemove, ReconfigureTypes, Instances
  <2>2. Nothing({}) \in [Labels -> Instances] /\ \A l \in Labels : Nothing({})[l] = {}
    BY DEF Nothing, Instances
  <2> QED BY <2>1, <2>2 DEF Gone
<1>2. Left(refused) \in [Labels -> Instances] /\ \A l \in Labels : Left(refused)[l] \subseteq exists[l]
  BY <1>1 DEF Left, ReconfigureTypes, Instances
<1>3. ASSUME kind = "whole" PROVE Left(refused) = exists \/ Left(refused) = Nothing({})
  <2>1. Gone(refused) = exists \/ Gone(refused) = Nothing({})
    BY <1>3 DEF Gone, ToRemove
  <2>2. exists = [l \in Labels |-> exists[l]]
    BY DEF ReconfigureTypes
  <2>3. CASE Gone(refused) = exists
    BY <2>3 DEF Left, Nothing
  <2>4. CASE Gone(refused) = Nothing({})
    BY <2>2, <2>4 DEF Left, Nothing
  <2> QED BY <2>1, <2>3, <2>4
<1> QED BY <1>1, <1>2, <1>3

LEMMA CreatedIsAdded ==
    ASSUME ReconfigureTypes, NEW refused \in BOOLEAN, NEW got \in Creations(Left(refused))
    PROVE  /\ got \in [Labels -> Instances]
           /\ \A l \in Labels : got[l] \subseteq Added(l)
           /\ got["node"] # {} => got["net"] # {} \/ Left(refused)["net"] # {}
           /\ kind = "whole" /\ Left(refused)["net"] # {} =>
                  \A l \in Labels : got[l] \subseteq Left(refused)[l]
<1>1. \A l \in Labels : Added(l) \in Instances
  BY AddedCounts
<1>2. CASE kind = "whole" /\ Left(refused)["net"] # {}
  BY <1>1, <1>2 DEF Creations, Instances
<1>3. CASE kind = "whole" /\ Left(refused)["net"] = {}
  <2>1. got = Nothing({}) \/ got = [l \in Labels |-> Added(l)]
    BY <1>3 DEF Creations
  <2> QED BY <1>1, <1>3, <2>1, NodesNeedNetwork DEF Nothing, Instances, Labels
<1>4. CASE kind = "parts"
  BY <1>4 DEF Creations, Instances
<1> QED BY <1>2, <1>3, <1>4 DEF ReconfigureTypes

LEMMA ApplyKeepsTypes ==
    ASSUME ReconfigureTypes, StatesCounted, NEW refused \in BOOLEAN,
           NEW reported \in [Labels -> Instances], NEW got, ApplyWith(refused, got, reported)
    PROVE  ReconfigureTypes' /\ StatesCounted'
<1>1. got \in [Labels -> Instances] /\ \A l \in Labels : got[l] \subseteq Added(l)
  BY CreatedIsAdded DEF ApplyWith
<1>2. exists' \in [Labels -> Instances]
  BY <1>1, LeftTypes DEF ApplyWith, Instances
<1>3. Kept(reported) \in [Labels -> Instances] /\ \A l \in Labels : Kept(reported)[l] \subseteq states[l]
  BY DEF Kept, ReconfigureTypes, Instances
<1>4. /\ states' \in [Labels -> Instances]
      /\ \A l \in Labels : states'[l] \subseteq reported[l] \cup states[l]
      /\ \A l \in Labels : reported[l] \subseteq states'[l]
  <2>1. \/ states' = [l \in Labels |-> reported[l] \cup Kept(reported)[l]]
        \/ states' = [l \in Labels |-> reported[l]]
    BY DEF ApplyWith, SaveStates
  <2> QED BY <1>3, <2>1 DEF Instances
<1>5. \A l \in Labels : Want(l) \in 0..MaxCount
  BY AddedCounts DEF Want, ReconfigureTypes
<1>6. total' \in [Labels -> 0..MaxCount]
  BY <1>5, ReconfigureAssumption DEF ApplyWith, SaveStates
<1>7. createdCount' \in [Labels -> 0..MaxCount]
  BY InstancesFinite DEF ApplyWith, SaveStates
<1>8. failed' \subseteq Labels /\ smooth' \in BOOLEAN /\ again' \in BOOLEAN
  BY DEF ApplyWith, SaveStates, Fails, Fine, Stuck, ReconfigureTypes
<1>9. ASSUME NEW l \in Labels, states'[l] # {} PROVE total'[l] > 0
  <2>1. CASE reported[l] # {}
    <3>1. count[l] > 0
      BY <1>1, <2>1, AddedCounts DEF ApplyWith
    <3> QED BY <3>1 DEF ApplyWith, SaveStates, Planned, Want
  <2>2. CASE states[l] # {}
    <3>1. total[l] > 0 /\ count[l] \in Nat
      BY <2>2, AddedCounts DEF StatesCounted
    <3> QED BY <2>2, <3>1 DEF ApplyWith, SaveStates, Planned, Want
  <2> QED BY <1>4, <1>9, <2>1, <2>2
<1> QED BY <1>2, <1>4, <1>6, <1>7, <1>8, <1>9 DEF ApplyWith, ReconfigureTypes, StatesCounted

LEMMA NoDifference ==
    ASSUME ReconfigureInv, smooth, ~MapsDiffer, NEW l \in Labels
    PROVE  exists[l] \subseteq Added(l) /\ (l \in Planned => exists[l] = {} \/ total[l] = count[l])
<1> USE DEF ReconfigureInv
<1>1. exists[l] \subseteq states[l] /\ (exists[l] = {} \/ exists[l] = 1..total[l])
  BY DEF FileAgrees
<1>2. total[l] \in Nat /\ count[l] \in Nat
  BY AddedCounts, ReconfigureAssumption DEF ReconfigureTypes
<1>3. CASE exists[l] = {}
  BY <1>3
<1>4. CASE exists[l] # {}
  <2>1. l \in Planned
    BY <1>1, <1>4 DEF Planned
  <2>2. total # Nothing(0)
    BY <1>1, <1>2, <1>4, Counts DEF Nothing
  <2>3. 1..total[l] = 1..count[l]
    BY <2>1, <2>2 DEF MapsDiffer, Existing, Added
  <2>4. total[l] = count[l]
    BY <1>2, <2>3, Counts
  <2> QED BY <1>1, <2>3, <2>4 DEF Added
<1> QED BY <1>3, <1>4

\* What a fine apply leaves and makes is what is counted.
LEMMA FineIsExact ==
    ASSUME ReconfigureInv, smooth, NEW refused \in BOOLEAN,
           NEW reported \in [Labels -> Instances], NEW got, ApplyWith(refused, got, reported),
           Fine(refused, reported)
    PROVE  \A l \in Labels : /\ exists'[l] = Added(l) /\ reported[l] = Added(l)
                             /\ Left(refused)[l] \subseteq Added(l)
<1> USE DEF ReconfigureInv
<1>1. \A l \in Labels : reported[l] = Added(l)
  BY DEF Fine, Fails
<1>2. \A l \in Labels : got[l] = Added(l)
  <2>1. got \in Creations(Left(refused)) /\ \A l \in Labels : reported[l] \subseteq got[l]
    BY DEF ApplyWith
  <2>2. \A l \in Labels : got[l] \subseteq Added(l)
    BY <2>1, CreatedIsAdded
  <2> QED BY <1>1, <2>1, <2>2
<1>3. \A l \in Labels : Left(refused)[l] \subseteq Added(l)
  <2>1. CASE ~MapsDiffer
    BY <2>1, NoDifference, LeftTypes
  <2>2. CASE MapsDiffer /\ kind = "whole"
    BY <2>2 DEF Fine, Left, Gone, ToRemove
  <2>3. CASE MapsDiffer /\ kind = "parts"
    <3>1. Gone(refused) = [l \in Labels |-> exists[l] \cap (Existing(l) \ Added(l))]
      BY <2>3 DEF Fine, Gone, ToRemove
    <3>2. \A l \in Labels : exists[l] \subseteq Existing(l)
      BY DEF FileAgrees, Existing
    <3> QED BY <3>1, <3>2 DEF Left
  <2> QED BY <2>1, <2>2, <2>3 DEF ReconfigureTypes
<1> QED BY <1>1, <1>2, <1>3 DEF ApplyWith

LEMMA CountedIsThere ==
    ASSUME ReconfigureInv, smooth, NEW l \in Labels
    PROVE  Counted(l) = Cardinality(exists[l]) /\ Counted(l) \in Nat
<1>1. exists[l] \in Instances /\ exists[l] \subseteq states[l]
  BY DEF ReconfigureInv, ReconfigureTypes, FileAgrees
<1>2. Cardinality(exists[l]) = createdCount[l]
  BY DEF ReconfigureInv, FileAgrees
<1>3. Cardinality(exists[l]) \in 0..MaxCount /\ (Cardinality(exists[l]) = 0 <=> exists[l] = {})
  BY <1>1, InstancesFinite
<1>4. states[l] = {} => Cardinality(exists[l]) = 0
  BY <1>1, <1>3
<1> QED BY <1>2, <1>3, <1>4, ReconfigureAssumption DEF Counted

\* What is deleted of a resource is what the plan says of it.
DeletedOf(refused, l) == Cardinality(Gone(refused)[l] \cap states[l])

LEMMA NothingGone ==
    ASSUME ~MapsDiffer, NEW refused \in BOOLEAN, NEW l \in Labels
    PROVE  DeletedOf(refused, l) = 0
BY FS_EmptySet DEF DeletedOf, Gone, Nothing

LEMMA PartsDeleted ==
    ASSUME ReconfigureInv, smooth, kind = "parts", NEW refused \in BOOLEAN,
           ~(MapsDiffer /\ refused), NEW l \in Labels
    PROVE  DeletedOf(refused, l) = ToBeDeleted(l)
<1> USE DEF ReconfigureInv
<1>1. /\ total[l] \in Nat /\ count[l] \in Nat /\ exists[l] \subseteq states[l]
      /\ exists[l] = {} \/ exists[l] = 1..total[l]
  BY AddedCounts, ReconfigureAssumption DEF ReconfigureTypes, FileAgrees
<1>2. Counted(l) = Cardinality(exists[l]) /\ Counted(l) \in Nat
  BY CountedIsThere
<1>3. ToBeDeleted(l) = IF Counted(l) > count[l] THEN Counted(l) - count[l] ELSE 0
  BY DEF ToBeDeleted
<1>4. CASE exists[l] = {}
  <2>1. Counted(l) = 0
    BY <1>2, <1>4, FS_EmptySet
  <2>2. Gone(refused)[l] \cap states[l] = {}
    BY <1>4, LeftTypes
  <2>3. DeletedOf(refused, l) = 0
    BY <2>2, FS_EmptySet DEF DeletedOf
  <2>4. count[l] \in Nat
    BY <1>1
  <2> QED BY <1>3, <2>1, <2>3, <2>4
<1>5. CASE exists[l] = 1..total[l] /\ exists[l] # {} /\ ~MapsDiffer
  <2>1. total[l] = count[l]
    BY <1>1, <1>5, NoDifference DEF Planned
  <2>2. Counted(l) = count[l]
    BY <1>1, <1>2, <1>5, <2>1, Counts
  <2> QED BY <1>1, <1>3, <1>5, <2>2, NothingGone
<1>6. CASE exists[l] = 1..total[l] /\ exists[l] # {} /\ MapsDiffer
  <2>1. Counted(l) = total[l]
    BY <1>1, <1>2, <1>6, Counts
  <2>2. Gone(refused)[l] \cap states[l] = (1..total[l]) \ (1..count[l])
    BY <1>1, <1>6 DEF Gone, ToRemove, Existing, Added
  <2>3. CASE total[l] > count[l]
    <3>1. Cardinality((1..total[l]) \ (1..count[l])) = total[l] - count[l]
      BY <1>1, <2>3, RestOfCounts
    <3> QED BY <1>3, <2>1, <2>2, <2>3, <3>1 DEF DeletedOf
  <2>4. CASE ~(total[l] > count[l])
    <3>1. (1..total[l]) \ (1..count[l]) = {}
      BY <1>1, <2>4
    <3> QED BY <1>3, <2>1, <2>2, <2>4, <3>1, FS_EmptySet DEF DeletedOf
  <2> QED BY <2>3, <2>4
<1>7. exists[l] = {} \/ exists[l] = 1..total[l]
  BY <1>1
<1> QED BY <1>4, <1>5, <1>6, <1>7

\* A provider that starts again does so when the plan says so, or has nothing.
LEMMA WholeDeleted ==
    ASSUME ReconfigureInv, smooth, kind = "whole", NEW refused \in BOOLEAN,
           NEW reported \in [Labels -> Instances], NEW got, ApplyWith(refused, got, reported),
           Fine(refused, reported), NEW l \in Labels
    PROVE  DeletedOf(refused, l) = ToBeDeleted(l)
<1> USE DEF ReconfigureInv
<1>1. \A m \in Labels : /\ total[m] \in Nat /\ count[m] \in Nat /\ exists[m] \subseteq states[m]
                        /\ exists[m] = {} \/ exists[m] = 1..total[m]
                        /\ exists[m] \in Instances
  BY AddedCounts, ReconfigureAssumption DEF ReconfigureTypes, FileAgrees
<1>2. \A m \in Labels : Counted(m) = Cardinality(exists[m]) /\ Counted(m) \in Nat
  BY CountedIsThere
<1>3. ToBeDeleted(l) = IF PlanChanges THEN Counted(l) ELSE 0
  BY DEF ToBeDeleted
<1>4. CASE exists[l] = {}
  <2>1. Counted(l) = 0
    BY <1>2, <1>4, FS_EmptySet
  <2>2. Gone(refused)[l] \cap states[l] = {}
    BY <1>4, LeftTypes
  <2> QED BY <1>1, <1>3, <2>1, <2>2, FS_EmptySet DEF DeletedOf
<1>5. CASE exists[l] # {} /\ MapsDiffer
  <2>1. DeletedOf(refused, l) = Counted(l)
    <3>1. Gone(refused)[l] \cap states[l] = exists[l]
      BY <1>1, <1>5 DEF Gone, ToRemove, Fine
    <3> QED BY <1>2, <3>1 DEF DeletedOf
  <2>2. PICK m \in Planned : total[m] # count[m]
    <3>1. \E m \in Planned : 1..total[m] # 1..count[m]
      BY <1>5 DEF MapsDiffer, Existing, Added
    <3> QED BY <3>1
  <2>3. count[m] = 0 \/ count[m] # Counted(m)
    <3>1. m \in Labels
      BY DEF Planned
    <3>2. CASE exists[m] = {}
      BY <1>2, <3>1, <3>2, FS_EmptySet
    <3>3. CASE exists[m] = 1..total[m]
      BY <1>1, <1>2, <2>2, <3>1, <3>3, Counts
    <3> QED BY <1>1, <3>1, <3>2, <3>3
  <2> QED BY <1>3, <2>1, <2>2, <2>3 DEF PlanChanges
<1>6. CASE exists[l] # {} /\ ~MapsDiffer
  <2>1. \A m \in Labels : exists[m] = Added(m)
    <3>1. \A m \in Labels : exists[m] \subseteq Added(m)
      BY <1>6, NoDifference
    <3>2. exists["net"] # {}
      BY <1>6 DEF NetworkFirst, Labels
    <3>3. Left(refused) = exists
      BY <1>6 DEF Left, Gone, Nothing, ReconfigureTypes
    <3>4. \A m \in Labels : got[m] \subseteq exists[m]
      BY <3>2, <3>3, CreatedIsAdded DEF ApplyWith
    <3>5. \A m \in Labels : Added(m) \subseteq got[m]
      BY DEF ApplyWith, Fine, Fails
    <3> QED BY <3>1, <3>4, <3>5
  <2>2. \A m \in Labels : Counted(m) = count[m]
    BY <1>2, <2>1, AddedCounts
  <2>3. \A m \in Planned : m \in Labels /\ count[m] # 0
    <3> TAKE m \in Planned
    <3>1. m \in Labels /\ (count[m] > 0 \/ states[m] # {})
      BY DEF Planned
    <3>2. total[m] > 0 \/ count[m] > 0
      BY <3>1 DEF StatesCounted
    <3>3. total # Nothing(0)
      <4>1. total[l] # 0
        BY <1>1, <1>6, Counts
      <4> QED BY <4>1 DEF Nothing
    <3>4. 1..total[m] = 1..count[m]
      BY <1>6, <3>3 DEF MapsDiffer, Existing, Added
    <3>5. total[m] = count[m]
      BY <1>1, <3>1, <3>4, Counts
    <3> QED BY <1>1, <3>1, <3>2, <3>5
  <2>4. ~PlanChanges
    BY <2>2, <2>3 DEF PlanChanges
  <2> QED BY <1>3, <1>6, <2>4, NothingGone
<1> QED BY <1>4, <1>5, <1>6

LEMMA DeletedAsPlanned ==
    ASSUME ReconfigureInv, smooth, NEW refused \in BOOLEAN,
           NEW reported \in [Labels -> Instances], NEW got, ApplyWith(refused, got, reported),
           Fine(refused, reported)
    PROVE  deletions' = promised'
<1>1. \A l \in Labels : DeletedOf(refused, l) = ToBeDeleted(l)
  <2>1. CASE kind = "parts"
    BY <2>1, PartsDeleted DEF Fine
  <2>2. CASE kind = "whole"
    BY <2>2, WholeDeleted
  <2> QED BY <2>1, <2>2 DEF ReconfigureInv, ReconfigureTypes
<1>2. deletions' = DeletedOf(refused, "net") + DeletedOf(refused, "node")
  BY DEF ApplyWith, Size, DeletedOf, Labels
<1> QED BY <1>1, <1>2 DEF ApplyWith, Labels

LEMMA ApplyKeeps ==
    ASSUME ReconfigureInv, NEW refused \in BOOLEAN,
           NEW reported \in [Labels -> Instances], NEW got, ApplyWith(refused, got, reported)
    PROVE  ReconfigureInv'
<1> USE DEF ReconfigureInv
<1>1. ReconfigureTypes' /\ StatesCounted'
  BY ApplyKeepsTypes
<1>2. /\ got \in [Labels -> Instances] /\ \A l \in Labels : got[l] \subseteq Added(l)
      /\ got["node"] # {} => got["net"] # {} \/ Left(refused)["net"] # {}
  BY CreatedIsAdded DEF ApplyWith
<1>3. /\ \A l \in Labels : exists'[l] = Left(refused)[l] \cup got[l]
      /\ count' = count /\ kind' = kind /\ touched' = touched
      /\ smooth' = (smooth /\ Fine(refused, reported)) /\ again' = Fine(refused, reported)
      /\ \A l \in Labels : reported[l] \subseteq states'[l]
  BY DEF ApplyWith, SaveStates
<1>4. Added("net")' = Added("net") /\ \A l \in Labels : Added(l)' = Added(l)
  BY <1>3 DEF Added
<1>5. smooth' => \A l \in Labels : exists'[l] = Added(l) /\ reported[l] = Added(l)
  BY <1>3, FineIsExact
<1>6. NetworkFirst'
  <2>1. CASE smooth'
    BY <1>5, <2>1, NodesNeedNetwork DEF NetworkFirst, Labels
  <2>2. CASE kind = "whole"
    <3>1. Left(refused)["node"] # {} => Left(refused)["net"] # {}
      BY <2>2, LeftTypes DEF NetworkFirst, Nothing, Labels
    <3> QED BY <1>2, <1>3, <3>1 DEF NetworkFirst, Labels
  <2> QED BY <1>3, <2>1, <2>2 DEF NetworkFirst
<1>7. FileAgrees'
  <2> SUFFICES ASSUME smooth', NEW l \in Labels
               PROVE  /\ exists'[l] = {} \/ exists'[l] = 1..total'[l]
                      /\ exists'[l] \subseteq states'[l]
                      /\ Cardinality(exists'[l]) = createdCount'[l]
    BY DEF FileAgrees
  <2>1. exists'[l] = Added(l) /\ reported[l] = Added(l)
    BY <1>5
  <2>2. createdCount'[l] = Cardinality(reported[l])
    BY DEF ApplyWith, SaveStates
  <2>3. count[l] > 0 => total'[l] = count[l]
    BY DEF ApplyWith, SaveStates, Planned, Want
  <2>4. count[l] = 0 => Added(l) = {}
    BY AddedCounts
  <2>5. count[l] \in Nat
    BY AddedCounts
  <2> QED BY <1>3, <2>1, <2>2, <2>3, <2>4, <2>5 DEF Added
<1>8. Exact'
  BY <1>4, <1>5 DEF Exact
<1>9. PlanKept'
  BY <1>3, DeletedAsPlanned DEF PlanKept
<1>10. UneditedIsCounted'
  BY <1>4, <1>5 DEF UneditedIsCounted
<1>11. UntouchedIsReached'
  <2> SUFFICES ASSUME ~touched', NEW l \in Labels
               PROVE  /\ exists'[l] \subseteq Added(l)
                      /\ exists'[l] # {} => (IF kind = "whole" THEN "net" ELSE l) \in Doomed'
    BY <1>3, <1>4 DEF UntouchedIsReached
  <2>1. ~touched /\ \A m \in Labels : Left(refused)[m] \subseteq Added(m)
    BY <1>3, LeftTypes DEF UntouchedIsReached
  <2>2. \A m \in Labels : exists'[m] \subseteq Added(m)
    BY <1>2, <1>3, <2>1
  <2>3. ASSUME NEW m \in Labels, exists'[m] # {} PROVE m \in Doomed'
    <3>1. count[m] > 0
      BY <2>2, <2>3, AddedCounts
    <3>2. reported[m] = {} => m \in failed'
      BY <2>2, <2>3 DEF ApplyWith, SaveStates, Fails
    <3> QED BY <1>3, <3>1, <3>2 DEF Doomed
  <2>4. CASE kind = "parts"
    BY <2>2, <2>3, <2>4
  <2>5. CASE kind = "whole"
    BY <1>3, <1>6, <2>2, <2>3, <2>5 DEF NetworkFirst, Labels
  <2> QED BY <2>4, <2>5 DEF ReconfigureTypes
<1> QED BY <1>1, <1>6, <1>7, <1>8, <1>9, <1>10, <1>11

DestroyWith(refused) ==
    /\ exists' = [l \in Labels |-> exists[l] \ Reached(Doomed \ refused)[l]]
    /\ IF refused = {}
       THEN total' = Nothing(0) /\ createdCount' = Nothing(0)
       ELSE UNCHANGED <<total, createdCount>>
    /\ states' = [l \in Labels |-> IF l \in refused THEN states[l] ELSE {}]
    /\ failed' = refused
    /\ ran' = IF refused = {} THEN "destroyed" ELSE "failed"
    /\ smooth' = (refused = {} /\ exists' = Nothing({}))
    /\ touched' = (touched /\ exists' # Nothing({}))
    /\ UNCHANGED <<kind, entry, count, promised, deletions, again>>

LEMMA DestroyParts == Destroy => \E refused \in SUBSET Doomed : DestroyWith(refused)
BY DEF Destroy, DestroyWith

\* A resource of which there is what is counted goes when it is reached.
LEMMA ReachedGoes ==
    ASSUME ReconfigureInv, NEW refused \in SUBSET Doomed, DestroyWith(refused),
           NEW l \in Labels, exists[l] \subseteq Added(l),
           (IF kind = "whole" THEN "net" ELSE l) \in Doomed \ refused
    PROVE  exists'[l] = {}
<1>1. Reached(Doomed \ refused)[l] =
        IF kind = "whole" THEN exists[l] ELSE Added(l)
  BY DEF Reached, ReconfigureInv, ReconfigureTypes
<1> QED BY <1>1 DEF DestroyWith

LEMMA WholeGoes ==
    ASSUME ReconfigureInv, kind = "whole", NEW refused \in SUBSET Doomed, DestroyWith(refused)
    PROVE  \/ \A l \in Labels : exists'[l] = exists[l]
           \/ \A l \in Labels : exists'[l] = {}
<1>1. CASE "net" \in Doomed \ refused
  BY <1>1 DEF DestroyWith, Reached
<1>2. CASE "net" \notin Doomed \ refused
  BY <1>2 DEF DestroyWith, Reached
<1> QED BY <1>1, <1>2

LEMMA DestroyKeeps ==
    ASSUME ReconfigureInv, NEW refused \in SUBSET Doomed, DestroyWith(refused)
    PROVE  ReconfigureInv'
<1> USE DEF ReconfigureInv
<1>1. exists' \in [Labels -> Instances] /\ \A l \in Labels : exists'[l] \subseteq exists[l]
  BY DEF DestroyWith, ReconfigureTypes, Instances
<1>2. states' \in [Labels -> Instances] /\ \A l \in Labels : states'[l] \subseteq states[l]
  BY DEF DestroyWith, ReconfigureTypes, Instances
<1>3. /\ count' = count /\ kind' = kind /\ again' = again /\ failed' = refused
      /\ \A l \in Labels : Added(l)' = Added(l)
  BY DEF DestroyWith, Added
<1>4. Nothing(0) \in [Labels -> 0..MaxCount] /\ \A l \in Labels : Nothing(0)[l] = 0
  BY ReconfigureAssumption DEF Nothing
<1>5. ReconfigureTypes'
  BY <1>1, <1>2, <1>4 DEF DestroyWith, ReconfigureTypes, Doomed
<1>6. StatesCounted'
  <2>1. CASE refused = {}
    BY <2>1 DEF DestroyWith, StatesCounted
  <2>2. CASE refused # {}
    BY <1>2, <2>2 DEF DestroyWith, StatesCounted
  <2> QED BY <2>1, <2>2
<1>7. smooth' => refused = {} /\ \A l \in Labels : exists'[l] = {}
  BY DEF DestroyWith, Nothing
<1>8. NetworkFirst'
  BY <1>3, <1>7, WholeGoes DEF NetworkFirst, Labels
<1>9. FileAgrees'
  <2> SUFFICES ASSUME smooth', NEW l \in Labels
               PROVE  exists'[l] = {} /\ Cardinality(exists'[l]) = createdCount'[l]
    BY <1>2 DEF FileAgrees
  <2>1. exists'[l] = {} /\ createdCount'[l] = 0
    BY <1>4, <1>7 DEF DestroyWith
  <2> QED BY <2>1, FS_EmptySet
<1>10. Exact' /\ PlanKept'
  BY DEF DestroyWith, Exact, PlanKept
<1>11. UneditedIsCounted'
  BY <1>7 DEF UneditedIsCounted
<1>12. UntouchedIsReached'
  <2> SUFFICES ASSUME ~touched', NEW l \in Labels, exists'[l] # {}
               PROVE  /\ exists'[l] \subseteq Added(l)
                      /\ (IF kind = "whole" THEN "net" ELSE l) \in Doomed'
    BY <1>3 DEF UntouchedIsReached
  <2>1. ~touched
    BY DEF DestroyWith, Nothing
  <2>2. /\ exists[l] \subseteq Added(l) /\ exists[l] # {}
        /\ (IF kind = "whole" THEN "net" ELSE l) \in Doomed
    BY <1>1, <2>1 DEF UntouchedIsReached
  <2>3. (IF kind = "whole" THEN "net" ELSE l) \in refused
    BY <2>2, ReachedGoes
  <2> QED BY <1>1, <1>3, <2>2, <2>3 DEF Doomed
<1> QED BY <1>5, <1>6, <1>8, <1>9, <1>10, <1>11, <1>12

LEMMA EditKeeps == ReconfigureInv /\ EditConfig => ReconfigureInv'
<1> SUFFICES ASSUME ReconfigureInv, EditConfig PROVE ReconfigureInv'
  OBVIOUS
<1>1. /\ count' \in Configurations
      /\ UNCHANGED <<kind, exists, total, createdCount, states, failed, smooth>>
      /\ ran' = "none" /\ again' = FALSE
  BY DEF EditConfig, fileVars
<1>2. ReconfigureTypes'
  <2>1. touched' \in BOOLEAN
    BY DEF EditConfig
  <2> QED BY <1>1, <2>1 DEF ReconfigureInv, ReconfigureTypes
<1>3. StatesCounted' /\ NetworkFirst' /\ FileAgrees'
  BY <1>1 DEF ReconfigureInv, StatesCounted, NetworkFirst, FileAgrees
<1>4. UntouchedIsReached'
  <2>1. ~touched' => \A l \in Labels : exists'[l] = {}
    BY <1>1 DEF EditConfig, Nothing
  <2> QED BY <2>1 DEF UntouchedIsReached
<1> QED BY <1>1, <1>2, <1>3, <1>4 DEF ReconfigureInv, Exact, PlanKept, UneditedIsCounted

LEMMA ReconfigureStart == ReconfigureInit => ReconfigureInv
<1> SUFFICES ASSUME ReconfigureInit PROVE ReconfigureInv
  OBVIOUS
<1>1. /\ \A l \in Labels : exists[l] = {} /\ states[l] = {} /\ total[l] = 0 /\ createdCount[l] = 0
      /\ exists \in [Labels -> Instances] /\ states \in [Labels -> Instances]
      /\ total \in [Labels -> 0..MaxCount] /\ createdCount \in [Labels -> 0..MaxCount]
  BY ReconfigureAssumption DEF ReconfigureInit, Nothing, Instances
<1>2. ReconfigureTypes
  BY <1>1 DEF ReconfigureInit, ReconfigureTypes
<1>3. FileAgrees
  BY <1>1, FS_EmptySet DEF FileAgrees
<1> QED
  BY <1>1, <1>2, <1>3 DEF ReconfigureInit, ReconfigureInv, StatesCounted, NetworkFirst, Exact,
     PlanKept, UneditedIsCounted, UntouchedIsReached, Labels

LEMMA ReconfigureStep == ReconfigureInv /\ [ReconfigureNext]_reconfigureVars => ReconfigureInv'
<1> SUFFICES ASSUME ReconfigureInv, [ReconfigureNext]_reconfigureVars PROVE ReconfigureInv'
  OBVIOUS
<1>1. CASE Apply
  BY <1>1, ApplyParts, ApplyKeeps
<1>2. CASE Destroy
  BY <1>2, DestroyParts, DestroyKeeps
<1>3. CASE EditConfig
  BY <1>3, EditKeeps
<1>4. CASE UNCHANGED reconfigureVars
  BY <1>4 DEF reconfigureVars, fileVars, ReconfigureInv, ReconfigureTypes, StatesCounted,
     NetworkFirst, FileAgrees, Exact, PlanKept, UneditedIsCounted, UntouchedIsReached, Added, Doomed
<1> QED BY <1>1, <1>2, <1>3, <1>4 DEF ReconfigureNext

\* What was applied or was never edited is reached as a whole.
LEMMA DestroyEmpties ==
    ASSUME ReconfigureInv, Destroy, ran' = "destroyed", (smooth /\ again) \/ ~touched
    PROVE  exists' = Nothing({})
<1> USE DEF ReconfigureInv
<1>1. PICK refused \in SUBSET Doomed : DestroyWith(refused)
  BY DestroyParts
<1>2. refused = {}
  BY <1>1 DEF DestroyWith
<1>3. ASSUME NEW l \in Labels, exists[l] # {} PROVE exists'[l] = {}
  <2>1. CASE ~touched
    BY <1>1, <1>2, <1>3, <2>1, ReachedGoes DEF UntouchedIsReached
  <2>2. CASE smooth /\ again
    <3>1. ASSUME NEW m \in Labels, exists[m] # {} PROVE exists[m] = Added(m) /\ m \in Doomed
      <4>1. exists[m] = Added(m) /\ exists[m] \subseteq states[m]
        BY <2>2, <3>1 DEF UneditedIsCounted, FileAgrees
      <4>2. count[m] > 0
        BY <3>1, <4>1, AddedCounts
      <4> QED BY <3>1, <4>1, <4>2 DEF Doomed
    <3>2. exists["net"] # {} \/ l = "net" \/ l # "node"
      BY <1>3, <2>2 DEF NetworkFirst
    <3>3. exists["net"] # {}
      BY <1>3, <3>2 DEF Labels
    <3>4. exists[l] \subseteq Added(l) /\ (IF kind = "whole" THEN "net" ELSE l) \in Doomed \ refused
      BY <1>2, <1>3, <3>1, <3>3 DEF Labels
    <3> QED BY <1>1, <3>4, ReachedGoes
  <2> QED BY <2>1, <2>2
<1>4. \A l \in Labels : exists[l] = {} => exists'[l] = {}
  BY <1>1 DEF DestroyWith
<1> QED BY <1>1, <1>3, <1>4 DEF DestroyWith, Nothing

LEMMA ApplyAgainDeletesNothing ==
    ASSUME ReconfigureInv, ran = "applied", smooth, Apply,
           \A l \in Labels : states[l] # {} => count[l] > 0
    PROVE  deletions' = 0
<1> USE DEF ReconfigureInv
<1>1. ~MapsDiffer
  <2> SUFFICES ASSUME NEW l \in Planned PROVE Existing(l) = Added(l)
    BY DEF MapsDiffer
  <2>1. l \in Labels /\ count[l] > 0
    BY DEF Planned
  <2>2. exists[l] = Added(l) /\ exists[l] # {}
    BY <2>1, AddedCounts DEF Exact
  <2> QED BY <2>1, <2>2 DEF FileAgrees, Existing
<1>2. PICK refused \in BOOLEAN, reported \in [Labels -> Instances] :
        \E got : ApplyWith(refused, got, reported)
  BY ApplyParts
<1>3. DeletedOf(refused, "net") = 0 /\ DeletedOf(refused, "node") = 0
  BY <1>1, NothingGone DEF Labels
<1>4. deletions' = DeletedOf(refused, "net") + DeletedOf(refused, "node")
  BY <1>2 DEF ApplyWith, Size, DeletedOf, Labels
<1> QED BY <1>3, <1>4

(* As long as no run fails, an apply leaves what is configured and nothing   *)
(* else, deletes what plan announced, and deletes nothing when it is applied *)
(* again; a destroy of what was applied, or was never edited, leaves nothing *)
(* (controller.py, provider.py, state.py and the plug-ins that implement     *)
(* modifications), for any counts and any edits, runs and failures.          *)
THEOREM RunsAreExactHolds == ReconfigureSpec => RunsAreExact
<1>1. ReconfigureInit => ReconfigureInv
  BY ReconfigureStart
<1>2. ReconfigureInv /\ [ReconfigureNext]_reconfigureVars => ReconfigureInv'
  BY ReconfigureStep
<1>3. ReconfigureInv => Exact /\ PlanKept
  BY DEF ReconfigureInv
<1>4. ReconfigureInv /\ [ReconfigureNext]_reconfigureVars =>
        [Destroy /\ ran' = "destroyed" /\ ((smooth /\ again) \/ ~touched)
            => exists' = Nothing({})]_reconfigureVars
  BY DestroyEmpties
<1>5. ReconfigureInv /\ [ReconfigureNext]_reconfigureVars =>
        [ran = "applied" /\ smooth /\ Apply /\ (\A l \in Labels : states[l] # {} => count[l] > 0)
            => deletions' = 0]_reconfigureVars
  BY ApplyAgainDeletesNothing
<1> QED
  BY <1>1, <1>2, <1>3, <1>4, <1>5, PTL DEF ReconfigureSpec, RunsAreExact, Emptied, SettledStays
=============================================================================
