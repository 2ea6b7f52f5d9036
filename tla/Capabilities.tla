---------------------------- MODULE Capabilities ----------------------------
(* Normalization of an IRI discovery: how resources and allocations come to  *)
(* name the same capability although facilities refer to one by an id, a     *)
(* name or a URI.  Two references that fold to the same token are the same   *)
(* word here; the canonical name of a capability is its place in the list.   *)
EXTENDS Integers, Sequences, FiniteSets

CONSTANTS Words        \* the folded tokens

NoWord == "none"
Refs == Words \cup {NoWord}

VARIABLES caps,        \* the capabilities the facility lists, in order
          compute,     \* a compute resource
          allocation,  \* the capability_uri of a project allocation
          facility     \* the normalized object, Nothing before and when empty

capabilityVars == <<caps, compute, allocation, facility>>

Unlinked == 0
NoLink == <<Unlinked, NoWord>>     \* a link is a capability, or a word that is none
Nothing == [compute |-> NoLink, source |-> "none", allocation |-> NoLink]

CapabilitiesInit ==
    /\ caps \in [1..2 -> [id : Words, name : Refs, uri : Refs]]
    /\ caps[2].uri = NoWord           \* one of the two is enough
    /\ compute \in [declared : Refs, name : Refs, group : Refs]
    /\ allocation \in Words
    /\ facility = Nothing

(* _build_capability_index: under one token the first capability is the      *)
(* alias, but the last one is the name; nameless ones are left out.          *)
Named == {k \in DOMAIN caps : caps[k].name # NoWord}
Forms(k) == {caps[k].id, caps[k].name, caps[k].uri} \ {NoWord}
Least(S) == CHOOSE k \in S : \A other \in S : k <= other
Greatest(S) == CHOOSE k \in S : \A other \in S : k >= other
Alias(w) == LET S == {k \in Named : w \in Forms(k)} IN IF S = {} THEN Unlinked ELSE Least(S)
Name(w) == LET S == {k \in Named : caps[k].name = w} IN IF S = {} THEN Unlinked ELSE Greatest(S)

\* Mutant of Canonical: names are compared, but neither ids nor URIs.
CanonicalByName(w) == IF Name(w) # Unlinked THEN <<Name(w), NoWord>> ELSE <<Unlinked, w>>

(* _canonical_capability: a reference to no capability is kept as it is.     *)
Canonical(w) == IF Alias(w) # Unlinked THEN <<Alias(w), NoWord>> ELSE <<Unlinked, w>>

(* _resolve_capabilities: the first strategy that gives a link.              *)
Strategy(r) ==
    CASE r.declared # NoWord -> "declared"
      [] r.declared = NoWord /\ Name(r.name) # Unlinked -> "resource_name"
      [] r.declared = NoWord /\ Name(r.name) = Unlinked /\ Name(r.group) # Unlinked ->
          "resource_group"
      [] OTHER -> "none"
Resolve(r) ==
    CASE Strategy(r) = "declared" -> Canonical(r.declared)
      [] Strategy(r) = "resource_name" -> <<Name(r.name), NoWord>>
      [] Strategy(r) = "resource_group" -> <<Name(r.group), NoWord>>
      [] OTHER -> NoLink

(* A resource is linked by the strategies, the allocations of a project by    *)
(* the canonical name of their capability_uri.                               *)
ResourceLink(r) == Resolve(r)
ProjectLink(w) == Canonical(w)

(* normalize_discovery, of a result that holds the facility's own item.      *)
Normalize ==
    /\ facility = Nothing
    /\ facility' = [compute |-> ResourceLink(compute), source |-> Strategy(compute),
                    allocation |-> ProjectLink(allocation)]
    /\ UNCHANGED <<caps, compute, allocation>>

CapabilitiesNext == Normalize

CapabilitiesSpec == CapabilitiesInit /\ [][CapabilitiesNext]_capabilityVars

-----------------------------------------------------------------------------
(* No token stands for two of the capabilities.                              *)
Unambiguous == Forms(1) \cap Forms(2) = {}

(* A resource and an allocation that refer to the same capability, each in   *)
(* its own way, name it alike after normalization, and name it differently   *)
(* when they refer to two.                                                   *)
Meant(w) == {k \in Named : w \in Forms(k)}
Reference(r) == IF r.declared # NoWord THEN r.declared
                ELSE IF facility.source = "resource_name" THEN r.name ELSE r.group
LinksAgree ==
    (facility.source # "none" /\ Unambiguous) =>
        (facility.compute = facility.allocation
            <=> \/ Reference(compute) = allocation
                \/ Meant(Reference(compute)) \cap Meant(allocation) # {})
=============================================================================
