------------------------------ MODULE Gateway -------------------------------
(* How a Client comes to know its facilities when a process starts: the       *)
(* clients of credentials.yml, one for every facility a RIG gateway           *)
(* advertises, and one for every facility the IRO lists.  The gateway's       *)
(* /ready document is cached on disk.                                         *)
EXTENDS Integers, FiniteSets

CONSTANTS Facilities,  \* the names of facilities
          Enclaves,    \* those that share one shorthand
          Takable,     \* bases of the child names that credentials.yml may hold
          Ttl          \* age at which a cached document is too old

ASSUME GatewayAssumption ==
    /\ Enclaves \subseteq Facilities /\ Ttl \in Nat
    /\ Takable \subseteq Facilities \cup {"site"}
    /\ "nobody" \notin Facilities /\ "own" \notin Facilities

NoDoc == {}
Docs == SUBSET Facilities          \* facilities a document advertises
Forever == Ttl + 1                 \* an age that is never fresh
Ages == 0..Forever
Listings == {NoDoc, Facilities}    \* what the IRO lists: it fails, or lists all
Nobody == "nobody"
Site == "site"                     \* the shorthand of the enclaves
Own == "own"                       \* a client somebody configured under a child's name
Names == {"plain", "rig"} \X (Facilities \cup {Site})

VARIABLES advertised,  \* what the gateway advertises now
          shown,       \* ghost: the age at which each document was last advertised
          allowed,     \* the facilities allow, exclude and skip_unhealthy let through
          entry,       \* rig_ready_cache.json: a document and its age
          ready,       \* _ready, the document of this process
          credentials, \* facilities with an entry of their own in credentials.yml
          taken,       \* names "...-rig" with an entry of their own there
          token,       \* AMSC_TOKEN is set
          clients,     \* _service_clients, by name
          unbuilt      \* ghost: the facilities whose client could not be built when
                       \* the children were last created

gatewayVars == <<advertised, shown, allowed, entry, ready, credentials, taken, token,
                 clients, unbuilt>>

GatewayInit ==
    /\ advertised \in Docs \ {NoDoc}
    /\ shown = [d \in Docs |-> IF d = advertised THEN 0 ELSE Forever]
    /\ allowed \in SUBSET Facilities
    /\ entry = [doc |-> NoDoc, age |-> Forever]
    /\ ready = NoDoc
    /\ credentials \in SUBSET Facilities
    /\ taken \in SUBSET ({"rig"} \X Takable)
    /\ token \in BOOLEAN
    /\ clients = [n \in Names |-> Nobody]
    /\ unbuilt = {}

\* Mutant of Fresh: an entry is used whatever its age.
FreshAlways(e) == e.doc # NoDoc

(* _get_cached: an entry is there and not older than the ttl.                 *)
Fresh(e) == e.doc # NoDoc /\ e.age <= Ttl

(* fetch: a fresh entry unless forced, then the gateway, then a stale entry.  *)
FromCache(force) == ~force /\ Fresh(entry)
Fetched(force, answered) ==
    CASE FromCache(force) -> entry.doc
      [] ~FromCache(force) /\ answered -> advertised
      [] OTHER -> entry.doc
EntryAfter(force, answered) ==
    IF ~FromCache(force) /\ answered THEN [doc |-> advertised, age |-> 0] ELSE entry

(* _selected_facilities.                                                      *)
Selected(doc) == doc \cap allowed

(* Client.get_shorthand, and child_client_name: the shorthand, or the name of *)
(* the facility when one of its peers has the same shorthand.                 *)
Shorthand(f) == IF f \in Enclaves THEN Site ELSE f

\* Mutant of ChildName: the peers are not looked at.
ChildNameAlone(f, peers) == <<"rig", Shorthand(f)>>

ChildName(f, peers) ==
    <<"rig", IF \E g \in peers \ {f} : Shorthand(g) = Shorthand(f) THEN f ELSE Shorthand(f)>>

(* _create_service_clients_from_credentials.                                  *)
Direct == [n \in Names |->
            CASE n[1] = "plain" /\ n[2] \in credentials -> n[2]
              [] n \in taken -> Own
              [] OTHER -> Nobody]

(* create_facility_clients over the selected facilities: one whose client     *)
(* cannot be built is logged and skipped, and counts among the peers.         *)
Pick(S) == IF S = {} THEN Nobody ELSE CHOOSE f \in S : TRUE

\* Mutant of Children: one that cannot be built ends the loop.
ChildrenUntilBroken(selected, broken) ==
    [n \in Names |-> IF broken # {} THEN Nobody
                     ELSE Pick({f \in selected : ChildName(f, selected) = n})]
Children(selected, broken) ==
    [n \in Names |-> Pick({f \in selected \ broken : ChildName(f, selected) = n})]

(* _expand_rig_service_clients: names that are taken stay as they are.        *)
Expanded(direct, children) ==
    [n \in Names |-> IF direct[n] = Nobody THEN children[n] ELSE direct[n]]

(* _discover_and_create_iri_clients, over the facilities the IRO lists: the   *)
(* first of those with a free shorthand, and with a profile or a token.       *)
Discovered(known, listed, first) ==
    LET Usable(n) == {f \in listed : /\ <<"plain", Shorthand(f)>> = n
                                     /\ f \in credentials \/ token} IN
    [n \in Names |->
        CASE known[n] # Nobody -> known[n]
          [] known[n] = Nobody /\ first \in Usable(n) -> first
          [] OTHER -> Pick(Usable(n))]

(* A process starts: Client(create_service_clients, discover_endpoints).      *)
Start(answered, listed) ==
    /\ ready' = Fetched(FALSE, answered)
    /\ entry' = EntryAfter(FALSE, answered)
    /\ unbuilt' \in SUBSET Selected(ready')
    /\ \E first \in IF listed = {} THEN {Nobody} ELSE listed :
        clients' = Discovered(Expanded(Direct, Children(Selected(ready'), unbuilt')),
                              listed, first)
    /\ UNCHANGED <<advertised, shown, allowed, credentials, taken, token>>

(* create_facility_clients(refresh=True) in a running process, whose result   *)
(* the caller adds with add_service_client.                                   *)
Refresh(answered) ==
    /\ clients # [n \in Names |-> Nobody]
    /\ ready' = Fetched(TRUE, answered)
    /\ entry' = EntryAfter(TRUE, answered)
    /\ unbuilt' \in SUBSET Selected(ready')
    /\ LET children == Children(Selected(ready'), unbuilt') IN
        clients' = [n \in Names |-> IF children[n] # Nobody THEN children[n] ELSE clients[n]]
    /\ UNCHANGED <<advertised, shown, allowed, credentials, taken, token>>

(* clear_cache.                                                               *)
ClearReady ==
    /\ entry' = [doc |-> NoDoc, age |-> Forever]
    /\ UNCHANGED <<advertised, shown, allowed, ready, credentials, taken, token, clients,
                   unbuilt>>

(* The gateway: it advertises other facilities, and time passes.              *)
Advertise(d) ==
    /\ advertised' = d
    /\ shown' = [shown EXCEPT ![d] = 0]
    /\ UNCHANGED <<allowed, entry, ready, credentials, taken, token, clients, unbuilt>>
Older(age) == IF age < Forever THEN age + 1 ELSE age
Aging ==
    /\ entry' = [entry EXCEPT !.age = Older(entry.age)]
    /\ shown' = [d \in Docs |-> IF d = advertised THEN 0 ELSE Older(shown[d])]
    /\ UNCHANGED <<advertised, allowed, ready, credentials, taken, token, clients,
                   unbuilt>>

GatewayNext ==
    \/ \E answered \in BOOLEAN :
        Refresh(answered) \/ \E listed \in Listings : Start(answered, listed)
    \/ ClearReady \/ Aging
    \/ \E d \in Docs \ {NoDoc} : Advertise(d)

GatewaySpec == GatewayInit /\ [][GatewayNext]_gatewayVars

-----------------------------------------------------------------------------
(* Every facility the document advertises and the filters let through has a  *)
(* client of its own behind the gateway, enclaves of one site included,      *)
(* unless that client could not be built or somebody configured another one  *)
(* under its name: neither costs another facility its client.                *)
ChildrenDistinct ==
    \A f \in Selected(ready) \ unbuilt :
        LET n == ChildName(f, Selected(ready)) IN
            \/ clients[n] = f
            \/ n \in taken /\ clients[n] = Own

(* A process whose gateway answers starts with a document that was           *)
(* advertised no longer ago than the ttl: neither the cache on disk nor the  *)
(* fall-back to a stale entry gives an older one.                            *)
StartSeesRecent ==
    [][shown[ready'] > Ttl => \A offered \in Listings : ~Start(TRUE, offered)]_gatewayVars

(* Whatever a gateway advertises has a client in the processes that start    *)
(* after it, and only for so long as it may be cached.                       *)
GatewayIsFollowed == []ChildrenDistinct /\ StartSeesRecent
=============================================================================
