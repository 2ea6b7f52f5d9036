------------------------------- MODULE AwsNet -------------------------------
(* The AWS plug-in: a network is a VPN gateway attached to the user's VPC, a *)
(* route table the gateway propagates to, and a private virtual interface.   *)
(* Gateway and interface are found again by name, the table by its saved id. *)
(* Any call may time out and any run may die; the user runs again.           *)
EXTENDS Integers, FiniteSets, SequencesExt, SavedEntry

CONSTANTS MaxGateways, MaxTables, MaxVifs     \* bounds: objects ever made at Amazon

ASSUME AwsAssumption == MaxGateways \in Nat /\ MaxTables \in Nat /\ MaxVifs \in Nat

NoId == 0
NoSubnet == -1
UserTable == MaxTables + 1           \* the route table the user's subnet had

VARIABLES connection, \* state of the DirectConnect connection
          gateways,   \* state and attachment of each VPN gateway of this name
          tables,     \* per route table of this plug-in: the gateway it learns from, NoId: none
          kept,       \* the route tables that exist
          subnetOf,   \* the route table of the subnet, NoId: the main table of the VPC,
                      \* NoSubnet: there is none yet
          vifs,       \* gateway and state of each virtual interface of this name
          awsStep, vpn, table, vif,   \* where the run is, and what it holds
          awsEntry,   \* what the saved states tell of the network
          savedTable, \* route_table_details of the saved state
          parted,     \* ghost: tables that lost the subnet to a deletion
          stale       \* ghost: an answer still listed a deleted object, and it was taken

awsSaves == <<awsEntry, savedTable>>
awsVars == <<connection, gateways, tables, kept, subnetOf, vifs,
             awsStep, vpn, table, vif, awsSaves, parted, stale>>
amazon == <<connection, gateways, tables, kept, subnetOf, vifs>>

Live == {"pending", "available", "deleting"}
Listed(objects) == {i \in DOMAIN objects : objects[i].state # "gone"}

AwsInit ==
    /\ connection \in {"ordering", "available"}
    /\ gateways = <<>> /\ tables = <<>> /\ kept = {} /\ vifs = <<>>
    /\ subnetOf \in {NoSubnet, UserTable}
    /\ awsStep = "idle" /\ vpn = NoId /\ table = NoId /\ vif = NoId
    /\ awsEntry = NoEntry /\ savedTable = NoId /\ parted = {} /\ stale = FALSE

(* The run is over, and with it what its process held.                       *)
EndRun == awsStep' = "idle" /\ vpn' = NoId /\ table' = NoId /\ vif' = NoId

BeginCreate ==
    /\ awsStep = "idle"
    /\ awsStep' = "connection"
    /\ UNCHANGED <<amazon, vpn, table, vif, awsSaves, parted, stale>>

(* find_available_dx_connection: one that was ordered is confirmed and       *)
(* waited for.                                                               *)
ConfirmConnection ==
    /\ awsStep = "connection" /\ connection = "ordering"
    /\ connection' = "pending"
    /\ UNCHANGED <<gateways, tables, kept, subnetOf, vifs, awsStep,
                   vpn, table, vif, awsSaves, parted, stale>>
UseConnection ==
    /\ awsStep = "connection" /\ connection = "available"
    /\ awsStep' = "gateway"
    /\ UNCHANGED <<amazon, vpn, table, vif, awsSaves, parted, stale>>

(* find_vpn_gateway: the first one with the name, whatever its state.        *)
FindGateway ==
    /\ awsStep \in {"gateway", "ungateway"} /\ Listed(gateways) # {}
    /\ vpn' \in Listed(gateways)
    /\ stale' = (stale \/ gateways[vpn'].state = "deleted")
    /\ awsStep' = IF awsStep = "gateway" THEN "attach" ELSE "untable"
    /\ UNCHANGED <<amazon, table, vif, awsSaves, parted>>
CreateGateway ==
    /\ awsStep = "gateway" /\ Listed(gateways) = {} /\ Len(gateways) < MaxGateways
    /\ gateways' = Append(gateways, [state |-> "pending", attached |-> "no"])
    /\ vpn' = Len(gateways) + 1
    /\ awsStep' = "pending"
    /\ UNCHANGED <<connection, tables, kept, subnetOf, vifs, table, vif, awsSaves, parted, stale>>
GatewayReady ==
    /\ awsStep = "pending" /\ gateways[vpn].state = "available"
    /\ awsStep' = "attach"
    /\ UNCHANGED <<amazon, vpn, table, vif, awsSaves, parted, stale>>

AttachGateway ==
    /\ awsStep = "attach"
    /\ gateways[vpn].attached \in {"no", "detaching"} => gateways[vpn].state = "available"
    /\ gateways' = IF gateways[vpn].attached \in {"no", "detaching"}
                   THEN [gateways EXCEPT ![vpn].attached = "attaching"] ELSE gateways
    /\ awsStep' = "attaching"
    /\ UNCHANGED <<connection, tables, kept, subnetOf, vifs, vpn, table, vif, awsSaves, parted, stale>>
Attached ==
    /\ awsStep = "attaching" /\ gateways[vpn].attached = "yes"
    /\ awsStep' = "subnet"
    /\ UNCHANGED <<amazon, vpn, table, vif, awsSaves, parted, stale>>
(* create_subnet_if_needed; nothing deletes the subnet again.                *)
EnsureSubnet ==
    /\ awsStep = "subnet"
    /\ subnetOf' = IF subnetOf = NoSubnet THEN NoId ELSE subnetOf
    /\ awsStep' = "table"
    /\ UNCHANGED <<connection, gateways, tables, kept, vifs, vpn, table, vif, awsSaves, parted, stale>>

\* Mutant of Propagating: only the table of the saved state is looked for.
PropagatingSaved == {t \in kept \cap {savedTable} : tables[t] = vpn}

(* create_route_table_if_needed: a table that learns from the gateway is     *)
(* used again; else the subnet leaves its table for a new one, which gets    *)
(* the propagation last.                                                     *)
Propagating == {t \in kept : tables[t] = vpn}
FindTable ==
    /\ awsStep = "table" /\ Propagating # {}
    /\ table' \in Propagating
    /\ awsStep' = "vif"
    /\ UNCHANGED <<amazon, vpn, vif, awsSaves, parted, stale>>
LeaveTable ==
    /\ awsStep = "table" /\ Propagating = {}
    /\ subnetOf' = NoId
    /\ awsStep' = "newtable"
    /\ UNCHANGED <<connection, gateways, tables, kept, vifs, vpn, table, vif, awsSaves, parted, stale>>
CreateTable ==
    /\ awsStep = "newtable" /\ Len(tables) < MaxTables
    /\ tables' = Append(tables, NoId)
    /\ table' = Len(tables) + 1
    /\ kept' = kept \cup {table'}
    /\ awsStep' = "associate"
    /\ UNCHANGED <<connection, gateways, subnetOf, vifs, vpn, vif, awsSaves, parted, stale>>
Associate ==
    /\ awsStep = "associate"
    /\ subnetOf' = table
    /\ awsStep' = "propagate"
    /\ UNCHANGED <<connection, gateways, tables, kept, vifs, vpn, table, vif, awsSaves, parted, stale>>
Propagate ==
    /\ awsStep = "propagate"
    /\ tables' = [tables EXCEPT ![table] = vpn]
    /\ awsStep' = "vif"
    /\ UNCHANGED <<connection, gateways, kept, subnetOf, vifs, vpn, table, vif, awsSaves, parted, stale>>

(* create_private_virtual_interface: that of the gateway, else a new one.    *)
Ours == {v \in Listed(vifs) : vifs[v].gateway = vpn}
FindVif ==
    /\ awsStep = "vif" /\ Ours # {}
    /\ vif' \in Ours
    /\ awsStep' = "vifwait"
    /\ UNCHANGED <<amazon, vpn, table, awsSaves, parted, stale>>
CreateVif ==
    /\ awsStep = "vif" /\ Ours = {} /\ Len(vifs) < MaxVifs
    /\ vifs' = Append(vifs, [state |-> "pending", gateway |-> vpn])
    /\ vif' = Len(vifs) + 1
    /\ awsStep' = "vifwait"
    /\ UNCHANGED <<connection, gateways, tables, kept, subnetOf, vpn, table, awsSaves, parted, stale>>
(* The state is saved once create has come to its end.                       *)
VifReady ==
    /\ awsStep = "vifwait" /\ vifs[vif].state = "available"
    /\ savedTable' = table /\ awsEntry' = AppliedEntry
    /\ awsStep' = "applied"
    /\ UNCHANGED <<amazon, vpn, table, vif, parted, stale>>

(* The end of a destroy that has come to the network.                        *)
AllDeleted == awsStep' = "destroyed" /\ awsEntry' = NoEntry /\ savedTable' = NoId

(* Controller.destroy does not come to a network that is not known.          *)
AwsForgotten ==
    /\ awsStep = "idle" /\ ~IsKnown(awsEntry)
    /\ awsStep' = "destroyed"
    /\ UNCHANGED <<amazon, vpn, table, vif, awsSaves, parted, stale>>

(* delete: without its VPC or a gateway there is nothing to do.              *)
BeginsDelete == awsStep \in {"idle", "applied"} /\ IsKnown(awsEntry)
VpcNotAvailable ==
    /\ BeginsDelete
    /\ awsStep' = "destroyed" /\ awsEntry' = Adrift /\ savedTable' = NoId
    /\ UNCHANGED <<amazon, vpn, table, vif, parted, stale>>
BeginDelete ==
    /\ BeginsDelete
    /\ IF Listed(gateways) = {} THEN AllDeleted
       ELSE awsStep' = "ungateway" /\ UNCHANGED awsSaves
    /\ UNCHANGED <<amazon, vpn, table, vif, parted, stale>>

(* delete_route_table_if_needed: the saved table, if it exists; the subnet   *)
(* leaves its table first, in a request of its own.                          *)
Disassociate ==
    /\ awsStep = "untable"
    /\ IF savedTable \in kept
       THEN /\ subnetOf' = NoId /\ parted' = parted \cup ({subnetOf} \cap kept)
            /\ awsStep' = "untabling"
       ELSE awsStep' = "unvif" /\ UNCHANGED <<subnetOf, parted>>
    /\ UNCHANGED <<connection, gateways, tables, kept, vifs, vpn, table, vif, awsSaves, stale>>
DeleteTable ==
    /\ awsStep = "untabling"
    /\ kept' = kept \ {savedTable}
    /\ awsStep' = "unvif"
    /\ UNCHANGED <<connection, gateways, tables, subnetOf, vifs, vpn, table, vif, awsSaves, parted, stale>>

\* Mutant of Unwanted: the deletion looks among available interfaces only.
UnwantedReady == {v \in Listed(vifs) : vifs[v].state = "available"}

(* delete_private_virtual_interface: the first one with the name; one that   *)
(* is still listed as deleted will do.                                       *)
Unwanted == Listed(vifs)
DeleteVif ==
    /\ awsStep = "unvif"
    /\ \/ /\ Unwanted = {}
          /\ awsStep' = "detach"
          /\ UNCHANGED <<vifs, vif, stale>>
       \/ \E v \in Unwanted :
            /\ vif' = v
            /\ vifs' = IF vifs[v].state = "deleted" THEN vifs
                       ELSE [vifs EXCEPT ![v].state = "deleting"]
            /\ stale' = (stale \/ vifs[v].state = "deleted")
            /\ awsStep' = "unvifwait"
    /\ UNCHANGED <<connection, gateways, tables, kept, subnetOf, vpn, table, awsSaves, parted>>
VifDeleted ==
    /\ awsStep = "unvifwait" /\ vifs[vif].state = "deleted"
    /\ awsStep' = "detach"
    /\ UNCHANGED <<amazon, vpn, table, vif, awsSaves, parted, stale>>
DetachGateway ==
    /\ awsStep = "detach"
    /\ gateways' = IF gateways[vpn].attached = "no" THEN gateways
                   ELSE [gateways EXCEPT ![vpn].attached = "detaching"]
    /\ awsStep' = "detaching"
    /\ UNCHANGED <<connection, tables, kept, subnetOf, vifs, vpn, table, vif, awsSaves, parted, stale>>
(* The deletion looks the gateway up by name once more.                      *)
DeleteGateway ==
    /\ awsStep = "detaching" /\ gateways[vpn].attached = "no"
    /\ \/ /\ Listed(gateways) = {} /\ AllDeleted
          /\ UNCHANGED <<connection, gateways, vpn>>
       \/ \E g \in Listed(gateways) :
            /\ gateways[g].state # "deleted"            \* else the call is refused
            /\ gateways' = [gateways EXCEPT ![g].state = "deleting"]
            /\ vpn' = g
            /\ awsStep' = "ungatewaywait"
            /\ UNCHANGED awsSaves
    /\ UNCHANGED <<connection, tables, kept, subnetOf, vifs, table, vif, parted, stale>>
GatewayDeleted ==
    /\ awsStep = "ungatewaywait" /\ gateways[vpn].state = "deleted"
    /\ AllDeleted
    /\ UNCHANGED <<amazon, vpn, table, vif, parted, stale>>

(* A time-out, a refused call, another resource that fails first; the death  *)
(* of the process; and the next run.                                         *)
Unmaking == awsStep \in {"ungateway", "untable", "untabling", "unvif", "unvifwait", "detach",
                         "detaching", "ungatewaywait"}
AwsFail ==
    /\ awsStep \notin {"applied", "destroyed"}
    /\ EndRun
    /\ \E keeps \in MayKeep(awsEntry) :
        awsEntry' = CASE Unmaking -> UndeletedEntry(awsEntry)
                      [] awsStep = "idle" -> PassedEntry(awsEntry, keeps)
                      [] OTHER -> FailedEntry(awsEntry, keeps)
    /\ savedTable' = IF "state" \in awsEntry' THEN savedTable ELSE NoId
    /\ UNCHANGED <<amazon, parted, stale>>
AwsDie ==
    /\ awsStep \notin {"idle", "applied", "destroyed"}
    /\ EndRun
    /\ awsEntry' = IF Unmaking THEN awsEntry ELSE DiedEntry(awsEntry)
    /\ UNCHANGED <<amazon, savedTable, parted, stale>>
Again ==
    /\ awsStep \in {"applied", "destroyed"}
    /\ EndRun
    /\ UNCHANGED <<amazon, awsSaves, parted, stale>>

(* Amazon: objects settle, and deleted ones are listed for a while.          *)
After == [pending |-> "available", deleting |-> "deleted", deleted |-> "gone"]
Amazon ==
    /\ \/ \E g \in DOMAIN gateways :
            \/ /\ gateways[g].state \in DOMAIN After
               /\ gateways' = [gateways EXCEPT ![g].state = After[gateways[g].state]]
            \/ /\ gateways[g].attached \in {"attaching", "detaching"}
               /\ gateways' = [gateways EXCEPT ![g].attached =
                                    IF @ = "attaching" THEN "yes" ELSE "no"]
          /\ UNCHANGED vifs
          /\ UNCHANGED connection
       \/ \E v \in DOMAIN vifs :
            /\ vifs[v].state \in DOMAIN After
            /\ vifs' = [vifs EXCEPT ![v].state = After[vifs[v].state]]
          /\ UNCHANGED <<connection, gateways>>
       \/ /\ connection = "pending" /\ connection' = "available"
          /\ UNCHANGED <<gateways, vifs>>
    /\ UNCHANGED <<tables, kept, subnetOf, awsStep, vpn, table, vif, awsSaves, parted, stale>>

AwsNext ==
    \/ BeginCreate \/ ConfirmConnection \/ UseConnection
    \/ FindGateway \/ CreateGateway \/ GatewayReady \/ AttachGateway \/ Attached
    \/ EnsureSubnet
    \/ FindTable \/ LeaveTable \/ CreateTable \/ Associate \/ Propagate
    \/ FindVif \/ CreateVif \/ VifReady
    \/ AwsForgotten \/ VpcNotAvailable \/ BeginDelete \/ Disassociate \/ DeleteTable
    \/ DeleteVif \/ VifDeleted \/ DetachGateway \/ DeleteGateway \/ GatewayDeleted
    \/ AwsFail \/ AwsDie \/ Again \/ Amazon

AwsSpec == AwsInit /\ [][AwsNext]_awsVars

-----------------------------------------------------------------------------
(* A destroy that succeeds leaves no gateway and no interface to pay for,    *)
(* whatever runs failed before it, unless an answer still listed a deleted   *)
(* object in place of the live one, the VPC was not available to a destroy,  *)
(* or a run died, or failed on its way here, with nothing saved that leads   *)
(* here.                                                                     *)
NothingBilled ==
    awsStep = "destroyed" /\ ~stale /\ awsEntry # Adrift =>
        /\ \A g \in DOMAIN gateways : gateways[g].state \notin Live
        /\ \A v \in DOMAIN vifs : vifs[v].state \notin Live

(* Over failed and repeated applies, no gateway comes to feed two tables and *)
(* an apply that succeeded leaves the subnet in the table that it saved,     *)
(* unless a deletion took it from there, failed, and left the table.         *)
OneTable ==
    /\ \A s, t \in kept : s # t /\ tables[s] # NoId => tables[s] # tables[t]
    /\ awsStep = "applied" =>
        /\ savedTable \in kept /\ tables[savedTable] = vpn
        /\ subnetOf = savedTable \/ savedTable \in parted

(* What aws_utils.py has made of the VPC whenever it reports success.        *)
AwsIsRight == NothingBilled /\ OneTable
=============================================================================
