----------------------------- MODULE Chameleon ------------------------------
(* The Chameleon plug-in: a leased network with a subnet and a router, and   *)
(* leased servers that get floating IPs, all found again by name. A count    *)
(* that the user lowers deletes servers; runs fail or die between any two    *)
(* requests, and floating IPs are shared with others of the project.         *)
EXTENDS Integers, FiniteSets

CONSTANTS MaxServers,      \* bound: the count of the node resource
          FloatingIps      \* floating IPs of the project

ASSUME ChameleonAssumption == MaxServers \in Nat

Unknown == -1
NotMade == -1
Free == 0
Others == MaxServers + 1
Servers == 1..MaxServers
Up(n) == {s \in Servers : s <= n}

VARIABLES chiCount,    \* count of the configuration
          chiSaved,    \* total_count of the saved states, Unknown: none
          servers,     \* status of each server
          lease,       \* status of the lease of the network, which carries the network
          subnet,      \* the subnet exists
          chiRouter,   \* the router: none, bare, or with the subnet attached
          bound,       \* which port a floating IP is bound to, NotMade: it has not been created
          chiStep, found,   \* where the run is, and the floating IPs it listed as unbound or made
          died         \* ghost: since all was gone a run failed or the count was lowered unseen

chiVars == <<chiCount, chiSaved, servers, lease, subnet, chiRouter, bound, chiStep, found, died>>

ChiInit ==
    /\ chiCount \in 1..MaxServers /\ chiSaved = Unknown
    /\ servers = [s \in Servers |-> "none"]
    /\ lease = "none" /\ subnet = FALSE /\ chiRouter = "none"
    /\ bound \in [FloatingIps -> {Free, NotMade}]
    /\ chiStep = "idle" /\ found = {} /\ died = FALSE

Built == {s \in Servers : servers[s] # "none"}
Floating(s) == {f \in FloatingIps : bound[f] = s}

(* create_lease_if_needed: an ACTIVE lease will do, one that has ended is    *)
(* replaced, and any other is waited for.                                    *)
ChiLease ==
    /\ chiStep = "idle"
    /\ lease' = IF lease \in {"none", "ERROR"} THEN "PENDING" ELSE lease
    /\ chiStep' = "lease"
    /\ UNCHANGED <<chiCount, chiSaved, servers, subnet, chiRouter, bound, found, died>>
ChiSubnet ==
    /\ chiStep = "lease" /\ lease = "ACTIVE"
    /\ subnet' = TRUE
    /\ chiStep' = IF chiRouter = "none" THEN "router" ELSE "servers"
    /\ UNCHANGED <<chiCount, chiSaved, servers, lease, chiRouter, bound, found, died>>
(* The subnet is attached only to a router that this run has created.        *)
ChiRouter ==
    /\ chiStep \in {"router", "attach"}
    /\ chiRouter' = IF chiStep = "router" THEN "bare" ELSE "attached"
    /\ chiStep' = IF chiStep = "router" THEN "attach" ELSE "servers"
    /\ UNCHANGED <<chiCount, chiSaved, servers, lease, subnet, bound, found, died>>

\* Mutant of Surplus: the servers of the configuration are counted, not those saved.
SurplusNone == {}

(* do_create_resource of the nodes: saved names that are not added any more  *)
(* are deleted, then each node is created unless a server has its name.      *)
Surplus == IF chiSaved = Unknown THEN {} ELSE Up(chiSaved) \ Up(chiCount)
Missing == {s \in Up(chiCount) : servers[s] = "none"}
(* ChiNode.delete of some servers: the floating IP is given back first.      *)
Unbind(gone) == [f \in FloatingIps |-> IF bound[f] \in gone THEN Free ELSE bound[f]]
ChiServers ==
    /\ chiStep = "servers"
    /\ servers' = [s \in Servers |-> CASE s \in Surplus -> "none"
                                        [] s \in Missing -> "building"
                                        [] OTHER -> servers[s]]
    /\ bound' = Unbind(Surplus)
    /\ chiStep' = "active"
    /\ UNCHANGED <<chiCount, chiSaved, lease, subnet, chiRouter, found, died>>

\* Mutant of Unbound: any floating IP of the project will do.
UnboundAny == FloatingIps

(* wait_for_active, node by node: a node without a floating IP takes one of  *)
(* those listed as unbound, or a new one, and binds it in another request.   *)
Unbound == {f \in FloatingIps : bound[f] = Free}
Bare == {s \in Up(chiCount) : Floating(s) = {}}
Turn(s) == s \in Bare /\ \A t \in Bare : s <= t
ListIps ==
    /\ chiStep = "active" /\ Bare # {}
    /\ \A s \in Up(chiCount) : Turn(s) => servers[s] = "active"
    /\ \/ Unbound # {} /\ found' = Unbound /\ UNCHANGED bound
       \/ /\ Unbound = {}
          /\ \E f \in FloatingIps :
                /\ bound[f] = NotMade /\ found' = {f}
                /\ bound' = [bound EXCEPT ![f] = Free]
    /\ chiStep' = "bind"
    /\ UNCHANGED <<chiCount, chiSaved, servers, lease, subnet, chiRouter, died>>
BindIp ==
    /\ chiStep = "bind"
    /\ \E s \in Servers, f \in found : Turn(s) /\ bound' = [bound EXCEPT ![f] = s]
    /\ chiStep' = "active" /\ found' = {}
    /\ UNCHANGED <<chiCount, chiSaved, servers, lease, subnet, chiRouter, died>>
ChiApplied ==
    /\ chiStep = "active" /\ Bare = {}
    /\ \A s \in Up(chiCount) : servers[s] = "active"
    /\ chiStep' = "applied" /\ chiSaved' = chiCount
    /\ UNCHANGED <<chiCount, servers, lease, subnet, chiRouter, bound, found, died>>

(* do_delete_resource: the servers of the configured count and then the      *)
(* network, which cannot go while a server has a port on it. Nothing is done *)
(* when nothing is saved, which after a run that failed may still happen.    *)
ChiDelete ==
    /\ chiStep \in {"idle", "applied"} /\ (chiSaved # Unknown \/ died)
    /\ servers' = [s \in Servers |-> IF s \in Up(chiCount) THEN "none" ELSE servers[s]]
    /\ bound' = Unbind(Up(chiCount))
    /\ chiStep' = "unrouter"
    /\ UNCHANGED <<chiCount, chiSaved, lease, subnet, chiRouter, found, died>>
ChiPassed ==
    /\ chiStep = "idle" /\ chiSaved = Unknown
    /\ chiStep' = "destroyed"
    /\ UNCHANGED <<chiCount, chiSaved, servers, lease, subnet, chiRouter, bound, found, died>>
ChiUnroute ==
    /\ chiStep = "unrouter"
    /\ chiRouter' = "none"
    /\ chiStep' = "unsubnet"
    /\ UNCHANGED <<chiCount, chiSaved, servers, lease, subnet, bound, found, died>>
ChiUnlease ==
    /\ chiStep = "unsubnet" /\ Built = {}
    /\ subnet' = FALSE /\ lease' = "none"
    /\ chiStep' = "destroyed" /\ chiSaved' = Unknown /\ died' = FALSE
    /\ UNCHANGED <<chiCount, servers, chiRouter, bound, found>>

(* An error, after which the count is saved, or the death of the process.    *)
ChiFail ==
    /\ chiStep \notin {"idle", "applied", "destroyed"}
    /\ chiSaved' \in
        {chiSaved} \cup (IF chiStep \in {"unrouter", "unsubnet"} THEN {} ELSE {chiCount})
    /\ died' = TRUE /\ found' = {}
    /\ chiStep' = "idle"
    /\ UNCHANGED <<chiCount, servers, lease, subnet, chiRouter, bound>>
ChiEdit ==
    /\ chiStep \in {"idle", "applied", "destroyed"}
    /\ chiCount' \in 1..MaxServers
    /\ chiStep' = "idle"
    /\ UNCHANGED <<chiSaved, servers, lease, subnet, chiRouter, bound, found, died>>

(* The testbed, and the others who share its floating IPs.                   *)
ChiSettle ==
    /\ \/ \E s \in Servers, status \in {"active", "error"} :
            /\ servers[s] = "building"
            /\ servers' = [servers EXCEPT ![s] = status]
          /\ UNCHANGED lease
       \/ /\ lease = "PENDING" /\ lease' \in {"ACTIVE", "ERROR"}
          /\ UNCHANGED servers
    /\ UNCHANGED <<chiCount, chiSaved, subnet, chiRouter, bound, chiStep, found, died>>
OthersBind ==
    /\ \E f \in FloatingIps :
        \/ bound[f] = Free /\ bound' = [bound EXCEPT ![f] = Others]
        \/ bound[f] = Others /\ bound' = [bound EXCEPT ![f] = Free]
    /\ UNCHANGED <<chiCount, chiSaved, servers, lease, subnet, chiRouter, chiStep, found, died>>

ChiNext ==
    \/ ChiLease \/ ChiSubnet \/ ChiRouter \/ ChiServers \/ ListIps \/ BindIp \/ ChiApplied
    \/ ChiDelete \/ ChiPassed \/ ChiUnroute \/ ChiUnlease \/ ChiFail \/ ChiEdit \/ ChiSettle
    \/ OthersBind

ChiSpec == ChiInit /\ [][ChiNext]_chiVars

-----------------------------------------------------------------------------
(* An apply that succeeded leaves servers for exactly the configured count   *)
(* behind a router that knows their subnet; after a run that failed there    *)
(* may be servers nobody has saved, or a router that stays bare.             *)
ServersReached ==
    chiStep = "applied" =>
        /\ \A s \in Up(chiCount) : servers[s] = "active"
        /\ died \/ (Built = Up(chiCount) /\ chiRouter = "attached")

(* No server that has been given a floating IP loses it to another server of *)
(* the session, and a surplus server gives its own back.                     *)
IpsKept ==
    [][\A f \in FloatingIps :
        bound[f] \in Servers /\ bound'[f] # bound[f] => servers'[bound[f]] = "none"]_chiVars

(* What chi_node.py and chi_network.py have made of the project on success,  *)
(* and what they leave alone on the way there.                               *)
ChiIsRight == []ServersReached /\ IpsKept
=============================================================================
