------------------------------- MODULE Stitch -------------------------------
(***************************************************************************)
(* Stitching (amscrot/policy/policy_helper.py): a network that states      *)
(* stitch_with is joined to a network of another provider at a pair of     *)
(* stitch ports which the policy of both providers offers.  The policy     *)
(* also says which of the two produces what the other one consumes, and so *)
(* which has to be created first.                                          *)
(*                                                                         *)
(* The providers are "chi" and "fabric", in the order in which the code    *)
(* sorts them: a pair is a port of the second one with its peer, the port  *)
(* of the first one that has the same name.                                *)
(***************************************************************************)
EXTENDS Integers, SequencesExt

CONSTANTS PortNames,        \* names of stitch ports
          MaxPreference,    \* bound: preferences of the ports of fabric
          MaxPorts          \* bound: stitch ports of a provider

ASSUME StitchAssumption ==
    MaxPreference \in Nat /\ MaxPorts \in Nat /\ PortNames \subseteq STRING

GroupOf(name) == IF name = "x" THEN "G" ELSE "H"     \* member-of
NoSite == "none"

VARIABLES
    ports,          \* stitch ports of each provider's policy, in their order
    groups,         \* the groups of each, in their order
    producers,      \* the providers whose group of that name is a producer
    stating,        \* the provider of the network that states stitch_with
    option,         \* its stitch_option: an attribute and its value, or none
    siteAsked,      \* sites that the user gave fabric's network and a node on it
    chosen,         \* the pair of ports
    interfaceOf,    \* stitch_interface: the networks a network takes its interface from
    stitchInfo,     \* the ports as each of the two networks has them
    nodeSite, netSite,      \* site of the network of fabric and of a node on it
    stitchStep

policy == <<ports, groups, producers>>
wish == <<stating, option, siteAsked>>
stitchVars == <<policy, wish, chosen, interfaceOf, stitchInfo, nodeSite, netSite, stitchStep>>

Types == {"chi", "fabric"}
Other(t) == IF t = "chi" THEN "fabric" ELSE "chi"
NoPair == [main |-> "none"]

Port(t, sites, preferences) ==
    [of : {t}, name : PortNames, site : sites, preference : preferences]
Options == {[key |-> "none", value |-> "none"], [key |-> "port_name", value |-> "x"],
            [key |-> "group_name", value |-> "H"]}

StitchInit ==
    /\ ports \in {[chi |-> c, fabric |-> f] :
                    c \in {s \in BoundedSeq(Port("chi", {"c1"}, {0}), MaxPorts) : IsInjective(s)},
                    f \in BoundedSeq(Port("fabric", {"s1", "s2"}, 1..MaxPreference), MaxPorts)}
    /\ groups \in {[chi |-> <<"G", "H">>, fabric |-> o] : o \in {<<"G", "H">>, <<"H", "G">>}}
    /\ \E g \in {{"fabric"}, {"chi"}, Types} : producers = [G |-> g, H |-> {"fabric"}]
    /\ stating \in Types /\ option \in Options
    /\ siteAsked \in [net : {NoSite, "s2"}, node : {NoSite, "s2"}]
    /\ chosen = NoPair
    /\ interfaceOf = [t \in Types |-> {}]
    /\ stitchInfo = [t \in Types |-> NoPair]
    /\ netSite = NoSite /\ nodeSite = NoSite
    /\ stitchStep = "choose"

-----------------------------------------------------------------------------
(* find_stitch_port_for_providers: for each group of the first provider that *)
(* has its counterpart at the second one, the ports of both.                 *)
\* What is in S of a sequence, in its order.
Filter(s, S) == FlattenSeq([i \in DOMAIN s |-> IF s[i] \in S THEN <<s[i]>> ELSE <<>>])

Of(t, group) == Filter(ports[t], {p \in ToSet(ports[t]) : GroupOf(p.name) = group})
Members(first, group, producer) ==
    LET all == Of(first, group) \o Of(Other(first), group)
    IN  [i \in DOMAIN all |-> [port |-> all[i], producer |-> producer]]
Offered(first, group) ==
    (IF Other(first) \in producers[group] THEN Members(first, group, Other(first)) ELSE <<>>) \o
    (IF first \in producers[group] THEN Members(first, group, first) ELSE <<>>)

\* Mutant of ByPreference: the order of the policy is kept.
ByPolicy(infos) == infos

(* A stable sort, the highest preference first.                              *)
ByPreference(infos) ==
    FlattenSeq([k \in 1..(MaxPreference + 1) |->
        Filter(infos, {si \in ToSet(infos) : si.port.preference = MaxPreference - k + 1})])

WithoutDuplicates(infos) ==
    FlattenSeq([i \in DOMAIN infos |->
        IF \E j \in 1..(i - 1) : infos[j] = infos[i] THEN <<>> ELSE <<infos[i]>>])

StitchInfos(first) ==
    WithoutDuplicates(ByPreference(
        FlattenSeq([i \in DOMAIN groups[first] |-> Offered(first, groups[first][i])])))

Peers(main, other) == main.of = "fabric" /\ other.of = "chi" /\ main.name = other.name

(* peer_stitch_ports.                                                        *)
Pairs(first) ==
    LET infos == StitchInfos(first)
        PeersOf(si) == Filter(infos, {other \in ToSet(infos) : Peers(si.port, other.port)})
        PairsOf(si) == [k \in DOMAIN PeersOf(si) |->
            [main |-> si.port, peer |-> PeersOf(si)[k].port, producer |-> si.producer]]
    IN  FlattenSeq([i \in DOMAIN infos |-> PairsOf(infos[i])])

-----------------------------------------------------------------------------
(* find_stitch_port: the first pair that the option names, then the first    *)
(* one at the site, then the first one. Ports and groups have no name in     *)
(* common, so that it does not matter that the loop forgets which it was     *)
(* asked for. The site is that of the network that states stitch_with, or of *)
(* a node on it, and is compared with that of the port of fabric only; a     *)
(* profile is looked up in the same way.                                     *)
Named(pair) ==
    CASE option.key = "none" -> FALSE
      [] option.key = "port_name" -> pair.main.name = option.value
      [] option.key = "group_name" -> GroupOf(pair.main.name) = option.value
FindSite ==
    IF stating = "chi" THEN NoSite
    ELSE IF siteAsked.net # NoSite THEN siteAsked.net ELSE siteAsked.node
AtSite(pair) == pair.main.site = FindSite
Best(pairs) ==
    LET named == {i \in DOMAIN pairs : Named(pairs[i])}
        sited == {i \in DOMAIN pairs : AtSite(pairs[i])}
    IN  pairs[IF named # {} THEN Min(named) ELSE IF sited # {} THEN Min(sited) ELSE 1]

Consumer(pair) == Other(pair.producer)

\* Mutant of OwnFirst: both networks have the pair as it was found.
OwnFirstNever(t, pair) == [own |-> pair.main, peer |-> pair.peer]

(* clean_up_port also drops the peer's name; a port keeps it here, to be told  *)
(* from the others.                                                           *)
OwnFirst(t, pair) ==
    IF pair.main.of = t THEN [own |-> pair.main, peer |-> pair.peer]
    ELSE [own |-> pair.peer, peer |-> pair.main]

\* handle_stitch_info, of one network that states stitch_with
StitchNetworks ==
    /\ stitchStep = "choose"
    /\ \E pairs \in {Pairs(stating)} :
        \/ /\ pairs = <<>>
           /\ stitchStep' = "not found" /\ UNCHANGED <<chosen, interfaceOf, stitchInfo>>
        \/ /\ pairs # <<>>
           /\ \E pair \in {Best(pairs)} :
                /\ chosen' = pair
                /\ interfaceOf' =
                    [interfaceOf EXCEPT ![Consumer(pair)] = {Other(Consumer(pair))}]
                /\ stitchInfo' = [t \in Types |-> OwnFirst(t, pair)]
                /\ stitchStep' = "stitched"
    /\ UNCHANGED <<policy, wish, nodeSite, netSite>>

StitchSite == stitchInfo["fabric"].own.site

(* fix_network_site and fix_node_site of the network of fabric and of a node *)
(* that is attached to it, in the order of the resources.                    *)
FixNetworkSite ==
    /\ stitchStep \in {"stitched", "fix"} /\ netSite = NoSite
    /\ netSite' = IF siteAsked.net # NoSite THEN siteAsked.net ELSE StitchSite
    /\ stitchStep' = "fix"
    /\ UNCHANGED <<policy, wish, chosen, interfaceOf, stitchInfo, nodeSite>>

\* Mutant of FixNodeSite: the site of the stitch port, whatever the network has.
FixNodeSiteByPort ==
    /\ stitchStep \in {"stitched", "fix"} /\ nodeSite = NoSite
    /\ nodeSite' = IF siteAsked.node # NoSite THEN siteAsked.node ELSE StitchSite
    /\ stitchStep' = "fix"
    /\ UNCHANGED <<policy, wish, chosen, interfaceOf, stitchInfo, netSite>>

FixNodeSite ==
    /\ stitchStep \in {"stitched", "fix"} /\ nodeSite = NoSite
    /\ nodeSite' = CASE siteAsked.node # NoSite -> siteAsked.node
                      [] siteAsked.node = NoSite /\ netSite # NoSite -> netSite
                      [] siteAsked.node = NoSite /\ netSite = NoSite ->
                            IF siteAsked.net # NoSite THEN siteAsked.net ELSE StitchSite
    /\ stitchStep' = "fix"
    /\ UNCHANGED <<policy, wish, chosen, interfaceOf, stitchInfo, netSite>>

StitchNext == StitchNetworks \/ FixNetworkSite \/ FixNodeSite

StitchSpec == StitchInit /\ [][StitchNext]_stitchVars

-----------------------------------------------------------------------------
Offers == ToSet(Pairs("fabric"))
Preferred(pair, offers) == \A p \in offers : p.main.preference <= pair.main.preference

(* "When multiple stitch points are available, the one with the highest      *)
(* preference gets selected", and a stitch_option that some of them meet is  *)
(* honoured (docs/workflow_design.md). The preference is that of the port of *)
(* fabric; one that only its peer has is not looked at.                      *)
PreferredStitch ==
    stitchStep = "stitched" =>
        LET named == {p \in Offers : Named(p)}
            sited == {p \in Offers : AtSite(p)}
        IN  IF named # {} THEN Named(chosen) /\ Preferred(chosen, named)
            ELSE IF sited # {} THEN AtSite(chosen) /\ Preferred(chosen, sited)
            ELSE Preferred(chosen, Offers)

(* Which of the two networks states stitch_with makes no difference, neither *)
(* to the port that is preferred nor to whether there is one.                *)
SameEitherWay ==
    stitchStep = "choose" => LET p == Pairs("chi")  q == Pairs("fabric")
    IN  /\ (p = <<>>) = (q = <<>>)
        /\ p # <<>> => Best(p).main.preference = Best(q).main.preference

(* Of two stitched networks exactly one waits for the other, the producer,   *)
(* and the two have the same pair of ports, each its own first: what the     *)
(* producer offers at its end is what the consumer looks for at its peer.    *)
EndsMeet ==
    stitchStep \in {"stitched", "fix"} =>
        /\ \A t \in Types : /\ stitchInfo[t].own.of = t
                            /\ stitchInfo[t].own = stitchInfo[Other(t)].peer
                            /\ (interfaceOf[t] = {}) = (chosen.producer = t)
        /\ stitchInfo["chi"].own.name = stitchInfo["fabric"].own.name

(* A node that was given no site is created where its network is, in whatever   *)
(* order the two are given theirs.                                           *)
SitesAgree ==
    siteAsked.node = NoSite /\ nodeSite # NoSite /\ netSite # NoSite => nodeSite = netSite

(* The choice of policy_helper.py, what it writes into the two networks and   *)
(* the sites it derives agree with one another.                               *)
StitchIsSound == PreferredStitch /\ SameEitherWay /\ EndsMeet /\ SitesAgree
=============================================================================
