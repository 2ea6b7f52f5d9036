------------------------------- MODULE GcpNet -------------------------------
(* The GCP plug-in: a network is a cloud router and an interconnect          *)
(* attachment, whose pairing key its partner turns into a BGP session. Each  *)
(* request starts an operation, polled a bounded number of times, that may   *)
(* end in an error, which is not looked at, or end after the polling did.    *)
EXTENDS Integers, SavedEntry

CONSTANT MaxKeys          \* bound: attachments ever made

ASSUME GcpAssumption == MaxKeys \in Nat

NoKey == 0
None == "none"

VARIABLES router,      \* the router exists
          secured,     \* its session carries the MD5 key
          peered,      \* the partner has set up a BGP peer
          attachment,  \* pairing key of the attachment that exists, NoKey: none
          keys,        \* pairing keys given out
          operation,   \* operation under way at GCP
          gcpStep,     \* where the run is
          held,        \* pairing key of the attachment that the run found
          gcpEntry,    \* what the saved states tell of the network
          interface,   \* pairing key in the saved interface of the network
          unseen       \* ghost: an operation failed, or a destroy looked while one went on

gcpVars == <<router, secured, peered, attachment, keys, operation, gcpStep, held, gcpEntry,
             interface, unseen>>
gcpSaves == <<gcpEntry, interface>>
google == <<router, secured, peered, attachment, keys, operation, unseen>>

GcpInit ==
    /\ router = FALSE /\ secured = FALSE /\ peered = FALSE
    /\ attachment = NoKey /\ keys = 0
    /\ operation = None /\ gcpStep = "idle" /\ unseen = FALSE
    /\ held = NoKey /\ gcpEntry = NoEntry /\ interface = NoKey

(* A request is refused while another operation is under way.                *)
Request(op) ==
    /\ operation = None
    /\ operation' = op
    /\ UNCHANGED <<router, secured, peered, attachment, keys, unseen, held, gcpSaves>>
Goes(from, to) == gcpStep = from /\ gcpStep' = to

(* GcpNetwork.create, one request and its polling at a time.                 *)
FindRouter ==
    /\ router /\ Goes("idle", "attachment")
    /\ UNCHANGED <<google, held, gcpSaves>>
CreateRouter == ~router /\ Goes("idle", "routerwait") /\ Request("router")
RouterDone ==
    /\ operation = None /\ Goes("routerwait", "attachment")
    /\ UNCHANGED <<google, held, gcpSaves>>

\* Mutant of Paired: the key that the states have is kept.
PairedOnce == IF interface = NoKey THEN attachment ELSE interface

(* The attachment is looked up before the router is patched, and once more   *)
(* after it was created; what it had then is handed on.                      *)
Paired == attachment
FindAttachment ==
    /\ attachment # NoKey /\ Goes("attachment", "patch")
    /\ held' = Paired
    /\ UNCHANGED <<google, gcpSaves>>
CreateAttachment ==
    /\ attachment = NoKey /\ router                 \* without its router it is refused
    /\ Goes("attachment", "attachwait") /\ Request("attachment")
AttachmentDone ==
    /\ operation = None /\ Goes("attachwait", "patch")
    /\ held' = Paired
    /\ UNCHANGED <<google, gcpSaves>>
(* patch_router needs the first BGP peer, which the partner sets up with the *)
(* pairing key; until then it fails, and create with it.                     *)
PatchRouter == router /\ peered /\ Goes("patch", "patchwait") /\ Request("patch")
PatchDone ==
    /\ operation = None /\ held # NoKey             \* None has no pairing_key
    /\ Goes("patchwait", "applied")
    /\ interface' = held /\ gcpEntry' = AppliedEntry
    /\ UNCHANGED <<google, held>>

(* Controller.destroy does not come to a network that is not known.          *)
GcpForgotten ==
    /\ ~IsKnown(gcpEntry) /\ Goes("idle", "destroyed")
    /\ UNCHANGED <<google, held, gcpSaves>>

(* GcpNetwork.delete: the attachment, then its router, both found by name.   *)
BeginsLoss == gcpStep \in {"idle", "applied"} /\ IsKnown(gcpEntry)
LoseAttachment ==
    /\ attachment # NoKey /\ BeginsLoss
    /\ gcpStep' = "unattachwait" /\ Request("unattach")
AttachmentLost ==
    /\ \/ attachment = NoKey /\ BeginsLoss
       \/ operation = None /\ gcpStep = "unattachwait"
    /\ gcpStep' = "unrouter"
    /\ unseen' = (unseen \/ operation # None)
    /\ UNCHANGED <<router, secured, peered, attachment, keys, operation, held, gcpSaves>>

\* Mutant of Stays: a router found without an attachment is left to others.
StaysUnpaired == ~router \/ ~peered

Stays == ~router
LoseRouter == ~Stays /\ Goes("unrouter", "unrouterwait") /\ Request("unroute")
RouterLost ==
    /\ \/ Stays /\ gcpStep = "unrouter"
       \/ operation = None /\ gcpStep = "unrouterwait"
    /\ gcpStep' = "destroyed"
    /\ interface' = NoKey /\ gcpEntry' = NoEntry
    /\ unseen' = (unseen \/ operation # None)
    /\ UNCHANGED <<router, secured, peered, attachment, keys, operation, held>>

(* A time-out of the polling, a refused request, another resource that fails *)
(* first; the death of the process; the operation goes on. And the next run. *)
Ungoogling == gcpStep \in {"unattachwait", "unrouter", "unrouterwait"}
GcpFail ==
    /\ gcpStep \notin {"applied", "destroyed"}
    /\ gcpStep' = "idle"
    /\ \E kept \in MayKeep(gcpEntry) :
        gcpEntry' = CASE Ungoogling -> UndeletedEntry(gcpEntry)
                      [] gcpStep = "idle" -> PassedEntry(gcpEntry, kept)
                      [] OTHER -> FailedEntry(gcpEntry, kept)
    /\ interface' = IF "state" \in gcpEntry' THEN interface ELSE NoKey
    /\ UNCHANGED <<google, held>>
GcpDie ==
    /\ gcpStep \notin {"idle", "applied", "destroyed"}
    /\ gcpStep' = "idle"
    /\ gcpEntry' = IF Ungoogling THEN gcpEntry ELSE DiedEntry(gcpEntry)
    /\ UNCHANGED <<google, held, interface>>
GcpAgain ==
    /\ gcpStep \in {"applied", "destroyed"}
    /\ gcpStep' = "idle"
    /\ UNCHANGED <<google, held, gcpSaves>>

(* GCP ends the operation, with or without an error; a router that has an    *)
(* attachment is not deleted, and one that is gone has no peer.              *)
Succeeds ==
    /\ router' = CASE operation = "router" -> TRUE
                   [] operation = "unroute" -> attachment # NoKey
                   [] OTHER -> router
    /\ attachment' = CASE operation = "attachment" -> keys + 1
                       [] operation = "unattach" -> NoKey
                       [] OTHER -> attachment
    /\ keys' = IF operation = "attachment" THEN keys + 1 ELSE keys
    /\ peered' = (peered /\ router' /\ attachment' = attachment)
    /\ secured' = ((operation = "patch" \/ secured) /\ router')
    /\ unseen' = (unseen \/ (operation = "unroute" /\ router'))
EndOperation ==
    /\ operation # None /\ operation' = None
    /\ \/ /\ operation = "attachment" => keys < MaxKeys
          /\ Succeeds
       \/ /\ unseen' = TRUE
          /\ UNCHANGED <<router, secured, peered, attachment, keys>>
    /\ UNCHANGED <<gcpStep, held, gcpSaves>>
Peer ==
    /\ router /\ attachment # NoKey /\ ~peered
    /\ peered' = TRUE
    /\ UNCHANGED <<router, secured, attachment, keys, operation, gcpStep, held, gcpSaves, unseen>>

GcpNext ==
    \/ FindRouter \/ CreateRouter \/ RouterDone \/ FindAttachment \/ CreateAttachment
    \/ AttachmentDone \/ PatchRouter \/ PatchDone \/ GcpForgotten \/ LoseAttachment
    \/ AttachmentLost \/ LoseRouter \/ RouterLost \/ GcpFail \/ GcpDie \/ GcpAgain
    \/ EndOperation \/ Peer

GcpSpec == GcpInit /\ [][GcpNext]_gcpVars

-----------------------------------------------------------------------------
(* The pairing key an apply hands to its partner, read before the router was *)
(* patched, is that of the attachment that exists, also after runs whose     *)
(* operations ended late, and the session is secured unless an operation     *)
(* ended in an error.                                                        *)
KeyOfAttachment ==
    gcpStep = "applied" => interface = attachment /\ (unseen \/ secured)

(* After a destroy nothing is left at GCP, however the runs before it ended, *)
(* unless an operation ended in an error or outlived the destroy, or a run   *)
(* died, or failed on its way here, with nothing saved that leads here.      *)
NothingAtGcp ==
    gcpStep = "destroyed" /\ ~unseen /\ gcpEntry # Adrift => ~router /\ attachment = NoKey

(* What gcp_utils.py has made at GCP whenever it reports success.            *)
GcpIsRight == KeyOfAttachment /\ NothingAtGcp
=============================================================================
