----------------------------- MODULE FabricSlice ----------------------------
(* The FABRIC plug-in: all nodes and networks of a provider live in one       *)
(* slice, which is looked up, edited as a draft, and submitted as a whole.    *)
(* The user edits the configuration between two runs, and runs may crash.     *)
EXTENDS Integers, FiniteSets, FiniteSetsExt

CONSTANTS FabNodes,  \* names of nodes, all attached to FabNet
          FabNets,   \* names of networks
          FabNet,    \* the network with an address pool
          PoolSize   \* addresses between dhcp_start and dhcp_end

ASSUME FabricAssumption == FabNet \in FabNets /\ PoolSize \in Nat

NoAddress == 0
Pool == 1..PoolSize
Empty == [state |-> "none", nodes |-> {}, nets |-> {}]

VARIABLES wanted,     \* nodes and networks of the configuration
          slice,      \* the slice at the testbed
          saved,      \* dataplane_ipv4 in the saved states; nodes without one are not in its domain
          savedNets,  \* networks in the saved states
          failedLabels,  \* nodes and networks with a failed label in the saved states
          phase,      \* where the run is
          draft,      \* nodes and networks of slice_object
          created,    \* slice_created
          modified,   \* slice_modified
          address,    \* used_dataplane_ipv4 of the nodes of this run
          missed,     \* ghost: the look-up of a slice that exists has failed in this run
          unled       \* ghost: there may be a slice that nothing saved leads to any more

fabricSaves == <<saved, savedNets, failedLabels>>
fabricVars == <<wanted, slice, fabricSaves, phase, draft, created, modified, address, missed, unled>>

NoAddresses == [n \in FabNodes |-> NoAddress]
Configs == {c \in [nodes : SUBSET FabNodes, nets : SUBSET FabNets] :
                c.nodes # {} => FabNet \in c.nets}

NoDraft == [nodes |-> {}, nets |-> {}]

(* What a process holds of its slice when it begins.                          *)
NewProcess == draft' = NoDraft /\ created' = FALSE /\ modified' = FALSE /\ address' = NoAddresses

FabricInit ==
    /\ wanted \in Configs
    /\ slice = Empty
    /\ saved = <<>> /\ savedNets = {} /\ failedLabels = {}
    /\ phase = "idle"
    /\ draft = NoDraft
    /\ created = FALSE
    /\ modified = FALSE
    /\ address = NoAddresses
    /\ missed = FALSE
    /\ unled = FALSE

(* init_slice and FabricSlice.init: any failure to look the slice up is taken *)
(* for its absence; a slice in error is deleted, a busy one is waited for.    *)
Found(looked) == looked /\ slice.state # "none"
Taken(looked) == Found(looked) /\ slice.state = "StableOK"
Start(looked) ==
    /\ phase = "idle" /\ wanted.nets # {}
    /\ slice.state \in {"none", "StableOK", "StableError"} \/ ~looked
    /\ created' = Taken(looked)
    /\ draft' = IF created' THEN [nodes |-> slice.nodes, nets |-> slice.nets]
                ELSE NoDraft
    /\ slice' = IF Found(looked) /\ slice.state = "StableError" THEN Empty ELSE slice
    /\ missed' = (~looked /\ slice.state # "none")
    /\ modified' = FALSE
    /\ address' = NoAddresses
    /\ phase' = "add"
    /\ UNCHANGED <<wanted, fabricSaves, unled>>

(* do_add_resource of every resource: what the slice has is taken over, with  *)
(* the address of its saved state, the rest goes into the draft.              *)
SavedAddress(n) == IF n \in DOMAIN saved THEN saved[n] ELSE NoAddress
NewNodes == wanted.nodes \ draft.nodes
NewNets == wanted.nets \ draft.nets
AddResources ==
    /\ phase = "add"
    /\ draft' = [nodes |-> draft.nodes \cup NewNodes, nets |-> draft.nets \cup NewNets]
    /\ modified' = (NewNodes # {} \/ (created /\ NewNets # {}))
    /\ address' = [n \in FabNodes |->
                    IF n \in wanted.nodes \cap draft.nodes THEN SavedAddress(n) ELSE NoAddress]
    /\ phase' = "create"
    /\ UNCHANGED <<wanted, slice, fabricSaves, created, missed, unled>>

\* Mutant of Changed: the removal of a node does not count as a change.
ChangedByNets == modified \/ draft.nets # wanted.nets

(* create_resource: nodes and networks of the slice that are not wanted any   *)
(* more are removed from the draft, which is submitted if it was changed.     *)
Changed == modified \/ draft.nodes # wanted.nodes \/ draft.nets # wanted.nets

(* Two look-ups of create_resource fail: the network of a removed node that   *)
(* has no saved state, and that of a new network next to one that is kept,    *)
(* which is searched for among the nodes.                                     *)
KeyError ==
    /\ created
    /\ \/ wanted.nets # {} /\ \E n \in slice.nodes \ wanted.nodes : n \notin DOMAIN saved
       \/ wanted.nets \cap slice.nets # {} /\ wanted.nets \ slice.nets # {}
Submits == ~created \/ Changed
CreateResources ==
    /\ phase = "create" /\ ~KeyError
    /\ slice' = IF ~Submits \/ missed THEN slice
                ELSE [state |-> "Configuring", nodes |-> wanted.nodes, nets |-> wanted.nets]
    /\ phase' = CASE Submits /\ missed -> "failed"     \* the name is taken
                  [] Submits /\ ~missed -> "wait"
                  [] OTHER -> "network"
    /\ UNCHANGED <<wanted, fabricSaves, draft, created, modified, address, missed, unled>>
CreateFails ==
    /\ phase = "create" /\ KeyError
    /\ phase' = "failed"
    /\ UNCHANGED <<wanted, slice, fabricSaves, draft, created, modified, address, missed, unled>>

(* wait_for_create_resource.                                                  *)
WaitStable ==
    /\ phase = "wait" /\ slice.state # "Configuring"
    /\ phase' = IF slice.state = "StableOK" THEN "network" ELSE "failed"
    /\ UNCHANGED <<wanted, slice, fabricSaves, draft, created, modified, address, missed, unled>>

\* Mutant of Unused: saved addresses are not taken out of the pool.
UnusedAll(used) == Pool

(* _do_handle_node_networking: nodes keep the address they had, and the       *)
(* others take the next of the pool that no other node has.                   *)
Unused(used) == Pool \ used
Spread(nodes, used) ==
    {f \in [nodes -> Unused(used)] : \A m, n \in nodes : m # n => f[m] # f[n]}
Networking ==
    /\ phase = "network"
    /\ LET kept == {n \in wanted.nodes : address[n] # NoAddress}
           others == wanted.nodes \ kept
           free == Unused({address[n] : n \in kept})
       IN  IF Cardinality(others) <= Cardinality(free)
           THEN /\ \E f \in Spread(others, {address[n] : n \in kept}) :
                    address' = [n \in FabNodes |-> IF n \in others THEN f[n] ELSE address[n]]
                /\ phase' = "done"
           ELSE /\ phase' = "failed"                   \* pop from an empty list
                /\ UNCHANGED address
    /\ UNCHANGED <<wanted, slice, fabricSaves, draft, created, modified, missed, unled>>

(* The networks of the configuration that destroy would come to.              *)
Known == DOMAIN saved \cup savedNets \cup failedLabels
LeadsHere == wanted.nets \cap Known # {}

(* What was saved is kept when any resource was counted as created.           *)
Keeping(kept) ==
    IF kept THEN UNCHANGED <<saved, savedNets>> ELSE saved' = <<>> /\ savedNets' = {}
MayKeepStates == {failedLabels = {}, TRUE}

(* The end of the run: the states of the nodes are saved once networking has  *)
(* ended; in a failed run every resource of the slice fails, and is labelled  *)
(* so. Or the process dies first, or a run fails before it comes to FABRIC.   *)
Save ==
    /\ phase \in {"done", "failed"}
    /\ IF phase = "done"
       THEN /\ saved' = [n \in wanted.nodes |-> address[n]] /\ savedNets' = wanted.nets
            /\ failedLabels' = {}
            /\ phase' = "applied" /\ UNCHANGED <<draft, created, modified, address>>
       ELSE /\ \E kept \in MayKeepStates : Keeping(kept)
            /\ failedLabels' = wanted.nodes \cup wanted.nets
            /\ phase' = "idle" /\ NewProcess
    /\ unled' = FALSE
    /\ UNCHANGED <<wanted, slice, missed>>
Crash ==
    /\ phase \notin {"idle", "applied", "destroyed"}
    /\ phase' = "idle" /\ NewProcess
    /\ unled' = (unled \/ ~LeadsHere)
    /\ UNCHANGED <<wanted, slice, fabricSaves, missed>>
FailBefore ==
    /\ phase = "idle"
    /\ \E kept \in MayKeepStates : Keeping(kept)
    /\ failedLabels' = {}
    /\ UNCHANGED <<wanted, slice, phase, draft, created, modified, address, missed>>
    /\ unled' = (unled \/ ~LeadsHere')

(* The user edits the configuration and runs again.                           *)
Edit ==
    /\ phase \in {"idle", "applied"}
    /\ wanted' \in Configs
    /\ phase' = "idle" /\ NewProcess
    /\ UNCHANGED <<slice, fabricSaves, missed>>
    /\ unled' = (unled \/ ~LeadsHere')

NetsFound(looked) == IF Taken(looked) THEN slice.nets ELSE {}

\* Mutant of Deletes: the deletion of a network leaves the slice to the nodes.
DeletesByNodes(looked) ==
    Found(looked) /\ NetsFound(looked) = {} /\ wanted.nodes \cap Known # {}

(* delete_resource of every configured resource that is known: a network      *)
(* deletes the whole slice, a node only when the slice had no network when it *)
(* was looked up.                                                             *)
Deletes(looked) ==
    Found(looked) /\ (LeadsHere \/ (NetsFound(looked) = {} /\ wanted.nodes \cap Known # {}))
DeleteAll(looked) ==
    /\ phase \in {"idle", "applied"}
    /\ slice' = IF Deletes(looked) THEN Empty ELSE slice
    /\ missed' = (~looked /\ slice.state # "none")
    /\ saved' = <<>> /\ savedNets' = {} /\ failedLabels' = {}
    /\ unled' = IF LeadsHere THEN missed' ELSE unled
    /\ phase' = "destroyed" /\ NewProcess
    /\ UNCHANGED wanted

(* The deletion is refused: each resource that came to it fails and is kept;  *)
(* a node that left it to the networks is done.                               *)
DeleteRefused ==
    /\ phase \in {"idle", "applied"} /\ Deletes(TRUE)
    /\ IF NetsFound(TRUE) = {} THEN UNCHANGED saved ELSE saved' = <<>>
    /\ failedLabels' = (wanted.nets \cap Known)
            \cup (IF NetsFound(TRUE) = {} THEN wanted.nodes \cap Known ELSE {})
    /\ phase' = "idle" /\ NewProcess /\ missed' = FALSE
    /\ UNCHANGED <<wanted, slice, savedNets, unled>>

(* The testbed ends what was submitted, and the user starts anew.             *)
Settle ==
    /\ slice.state = "Configuring"
    /\ \E s \in {"StableOK", "StableError"} : slice' = [slice EXCEPT !.state = s]
    /\ UNCHANGED <<wanted, fabricSaves, phase, draft, created, modified, address, missed, unled>>
Anew ==
    /\ phase = "destroyed"
    /\ phase' = "idle"
    /\ UNCHANGED <<wanted, slice, fabricSaves, draft, created, modified, address, missed, unled>>

FabricNext ==
    \/ \E looked \in BOOLEAN : Start(looked) \/ DeleteAll(looked)
    \/ AddResources \/ CreateResources \/ CreateFails \/ WaitStable \/ Networking
    \/ Save \/ Crash \/ FailBefore \/ Edit \/ DeleteRefused \/ Settle \/ Anew

FabricSpec == FabricInit /\ [][FabricNext]_fabricVars

-----------------------------------------------------------------------------
(* An apply that succeeded leaves exactly the configured nodes and networks  *)
(* in the slice, whatever was edited, crashed or in error before.            *)
ExactSlice ==
    phase = "applied" => slice.nodes = wanted.nodes /\ slice.nets = wanted.nets

(* No two nodes of the network are given one address, over edits of the      *)
(* configuration, lost states and repeated applies.                          *)
AddressesDistinct ==
    phase = "applied" =>
        \A m, n \in wanted.nodes : m # n => address[m] # address[n]

(* After a destroy there is no slice, unless it could not be looked up, or a  *)
(* run died, failed before it came to FABRIC, or an edit took the networks    *)
(* away, and since then nothing that is saved leads to it.                    *)
SliceDeleted == phase = "destroyed" /\ ~unled => slice.state = "none"

(* What fabric_slice.py has made of the slice whenever it reports success.   *)
SliceIsRight == ExactSlice /\ AddressesDistinct /\ SliceDeleted
=============================================================================
