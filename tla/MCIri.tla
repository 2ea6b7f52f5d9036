-------------------------------- MODULE MCIri -------------------------------
(* The parts of the IRI client that keep state of their own, checked in one  *)
(* run: a behaviour is a behaviour of one part, the others rest.             *)
EXTENDS Facility, Discovery, Versions

VARIABLE part

iriVars == <<part, facilityVars, discoveryVars, versionVars>>

FacilityRests == hasProvider = FALSE /\ client = 1 /\ FacilityInit
VersionsRest == served = [e \in Endpoints |-> Lowest] /\ VersionsInit

Init ==
    \/ part = "facility" /\ FacilityInit /\ DiscoveryInit /\ VersionsRest
    \/ part = "discovery" /\ FacilityRests /\ DiscoveryInit /\ VersionsRest
    \/ part = "versions" /\ FacilityRests /\ DiscoveryInit /\ VersionsInit

OfFacility(A) == part = "facility" /\ A /\ UNCHANGED <<part, discoveryVars, versionVars>>
OfDiscovery(A) == part = "discovery" /\ A /\ UNCHANGED <<part, facilityVars, versionVars>>
OfVersions(A) == part = "versions" /\ A /\ UNCHANGED <<part, facilityVars, discoveryVars>>

Next == OfFacility(FacilityNext) \/ OfDiscovery(DiscoveryNext) \/ OfVersions(VersionsNext)

Fairness ==
    /\ \A j \in Jobs : WF_iriVars(OfFacility(Submit(j))) /\ WF_iriVars(OfFacility(Poll(j)))
    /\ WF_iriVars(OfDiscovery(Tick))
    /\ \A p \in Sessions :
        /\ WF_iriVars(OfDiscovery(Save(p)))
        /\ WF_iriVars(OfDiscovery(StartAnew(p)))
        /\ WF_iriVars(OfDiscovery(GetDiscovery(p, FALSE)))
    /\ WF_iriVars(OfVersions(TimePasses))
    /\ \A p \in Probers :
        /\ WF_iriVars(OfVersions(SaveCache(p)))
        /\ \A e \in Endpoints : SF_iriVars(OfVersions(Detect(p, e, FALSE)))

Spec == Init /\ [][Next]_iriVars /\ Fairness

(* What metadata_manager.py gives out is whole at any time, and complete in  *)
(* the end in the behaviours that are about discovery.                       *)
DiscoveryIsRight == []OnlyWholeResults /\ (part = "discovery" => CutsExpire)
=============================================================================
