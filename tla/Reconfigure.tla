----------------------------- MODULE Reconfigure ----------------------------
(***************************************************************************)
(* A configuration that is touched between runs: what plan announces, what  *)
(* apply deletes and creates anew, what is saved of it, and what a destroy *)
(* reaches.  One provider with a network and nodes on it; the providers    *)
(* that implement modifications differ in how: those of CloudLab and SENSE *)
(* delete "whole" what they had made and start again, the one of Chameleon *)
(* deletes in "parts" what is too many.                                    *)
(***************************************************************************)
EXTENDS Integers, FiniteSets

CONSTANT MaxCount   \* bound: instances of the nodes

ASSUME ReconfigureAssumption == MaxCount \in Nat \ {0}

VARIABLES
    kind, entry,    \* the provider; and who applies: the "manager" or the "cli"
    count,          \* counts of the configuration, 0 for what is not in it
    exists,         \* the instances at the testbed
    total, createdCount, states, failed,    \* the provider's part of the states file
    ran,            \* how the last run ended
    promised, deletions,    \* ghosts: deletions that plan announced, and those of
                            \* saved instances that the apply then did
    smooth,         \* ghost: no run failed or left anything since the last clean destroy
    again,          \* ghost: no edit since an apply that succeeded
    touched         \* ghost: an edit since nothing was there

fileVars == <<total, createdCount, states, failed>>
reconfigureVars == <<kind, entry, count, exists, fileVars, ran, promised, deletions,
                     smooth, again, touched>>

Labels == {"net", "node"}
Nothing(S) == [l \in Labels |-> S]
Sum(f) == f["net"] + f["node"]
Size(f) == Cardinality(f["net"]) + Cardinality(f["node"])
Configurations ==
    {c \in [Labels -> 0..MaxCount] : c["net"] <= 1 /\ (c["node"] > 0 => c["net"] = 1)}

ReconfigureInit ==
    /\ kind \in {"whole", "parts"} /\ entry \in {"manager", "cli"}
    /\ count \in Configurations
    /\ exists = Nothing({})
    /\ total = Nothing(0) /\ createdCount = Nothing(0) /\ states = Nothing({}) /\ failed = {}
    /\ ran = "none" /\ promised = 0 /\ deletions = 0
    /\ smooth = TRUE /\ again = FALSE /\ touched = FALSE

-----------------------------------------------------------------------------
(* Controller.plan: the resources of the configuration, and those that only  *)
(* the saved states know of.                                                 *)
Planned == {l \in Labels : count[l] > 0 \/ states[l] # {}}

\* Mutant of Want: the count of the configuration does not replace the saved one.
WantSaved(l) == IF states[l] # {} THEN total[l] ELSE count[l]

Want(l) == IF count[l] > 0 THEN count[l] ELSE total[l]
Counted(l) == IF states[l] # {} THEN createdCount[l] ELSE 0

(* dump_plan.                                                                *)
PlanChanges == \E l \in Planned : count[l] = 0 \/ count[l] # Counted(l)
ToBeDeleted(l) ==
    CASE kind = "whole" -> IF PlanChanges THEN Counted(l) ELSE 0
      [] kind = "parts" -> IF Counted(l) > count[l] THEN Counted(l) - count[l] ELSE 0

(* Provider.existing_map, added_map and modified.                            *)
Existing(l) == 1..total[l]
Added(l) == 1..count[l]
\* Mutant of MapsDiffer: a resource taken out of the configuration is no change.
MapsDifferInConfig ==
    total # Nothing(0) /\ \E l \in Planned : count[l] > 0 /\ Existing(l) # Added(l)

MapsDiffer == total # Nothing(0) /\ \E l \in Planned : Existing(l) # Added(l)

\* Mutant of ToRemove: what is too many is kept.
ToRemoveNothing == IF kind = "whole" THEN exists ELSE Nothing({})

(* What do_create_resource deletes of a modified configuration.              *)
ToRemove ==
    IF kind = "whole" THEN exists
    ELSE [l \in Labels |-> exists[l] \cap (Existing(l) \ Added(l))]

(* What there is to create: an experiment or a service instance that exists  *)
(* is taken as it is, and otherwise comes with all its nodes or not at all.  *)
Creations(left) ==
    IF kind = "whole"
    THEN IF left["net"] # {} THEN {[l \in Labels |-> Added(l) \cap left[l]]}
         ELSE {Nothing({}), [l \in Labels |-> Added(l)]}
    ELSE {g \in [Labels -> SUBSET (1..MaxCount)] :
            /\ \A l \in Labels : g[l] \subseteq Added(l)
            /\ g["node"] # {} => g["net"] # {}}

(* reconcile_state: the old states that stay in the file.                    *)
Kept(reported) ==
    [l \in Labels |-> IF Want(l) = Cardinality(reported[l]) THEN {} ELSE states[l]]

(* reconcile_states, which the manager calls always.                         *)
Reconciles(reported, fails) ==
    /\ entry = "manager" \/ fails # {}
    /\ Sum(createdCount) > 0
    /\ Size(reported) # Sum([l \in Labels |-> IF l \in Planned THEN Want(l) ELSE 0])

SaveStates(reported, fails) ==
    /\ total' = [l \in Labels |-> IF l \in Planned THEN Want(l) ELSE 0]
    /\ createdCount' = [l \in Labels |-> Cardinality(reported[l])]
    /\ states' = [l \in Labels |-> reported[l] \cup
            (IF Reconciles(reported, fails) THEN Kept(reported)[l] ELSE {})]
    /\ failed' = fails

\* plan, add, apply and save. A deletion may be refused, which CloudLab and
\* SENSE only log; creations may fail, or not be reported.
Apply ==
    /\ Planned # {}
    /\ \E refused \in BOOLEAN :
        LET gone == IF MapsDiffer /\ ~refused THEN ToRemove ELSE Nothing({})
            left == [l \in Labels |-> exists[l] \ gone[l]]
            stuck == IF kind = "parts" /\ MapsDiffer /\ refused
                     THEN {l \in Labels : ToRemove[l] # {}} ELSE {}
        IN  \E got \in Creations(left) : \E reported \in [Labels -> SUBSET (1..MaxCount)] :
              LET fails == stuck \cup {l \in Labels : reported[l] # Added(l)}
                  fine == fails = {} /\ ~(MapsDiffer /\ refused)
              IN  /\ \A l \in Labels : reported[l] \subseteq got[l]
                  /\ exists' = [l \in Labels |-> left[l] \cup got[l]]
                  /\ SaveStates(reported, fails)
                  /\ ran' = IF fails = {} THEN "applied" ELSE "failed"
                  /\ deletions' = Size([l \in Labels |-> gone[l] \cap states[l]])
                  /\ smooth' = (smooth /\ fine)
                  /\ again' = fine
    /\ promised' = ToBeDeleted("net") + ToBeDeleted("node")
    /\ UNCHANGED <<kind, entry, count, touched>>

-----------------------------------------------------------------------------
\* Mutant of Doomed: a resource without states is passed over although it failed.
DoomedWithStates == {l \in Labels : count[l] > 0 /\ states[l] # {}}

(* Controller.destroy: resources of the configuration only.                  *)
Doomed == {l \in Labels : count[l] > 0 /\ (states[l] # {} \/ l \in failed)}

(* What the deletion of a resource reaches: all of the experiment or of the  *)
(* service instance, or the instances that the configuration counts.         *)
Reached(done) ==
    [l \in Labels |->
        CASE kind = "whole" -> IF "net" \in done THEN exists[l] ELSE {}
          [] kind = "parts" -> IF l \in done THEN Added(l) ELSE {}]

Destroy ==
    /\ total # Nothing(0)
    /\ \E refused \in SUBSET Doomed :
        /\ exists' = [l \in Labels |-> exists[l] \ Reached(Doomed \ refused)[l]]
        /\ IF refused = {}
           THEN total' = Nothing(0) /\ createdCount' = Nothing(0)
           ELSE UNCHANGED <<total, createdCount>>
        /\ states' = [l \in Labels |-> IF l \in refused THEN states[l] ELSE {}]
        /\ failed' = refused
        /\ ran' = IF refused = {} THEN "destroyed" ELSE "failed"
        /\ smooth' = (refused = {} /\ exists' = Nothing({}))
    /\ touched' = (touched /\ exists' # Nothing({}))
    /\ UNCHANGED <<kind, entry, count, promised, deletions, again>>

EditConfig ==
    /\ count' \in Configurations \ {count}
    /\ ran' = "none" /\ again' = FALSE
    /\ touched' = (exists # Nothing({}))
    /\ UNCHANGED <<kind, entry, exists, fileVars, promised, deletions, smooth>>

ReconfigureNext == Apply \/ Destroy \/ EditConfig

ReconfigureSpec == ReconfigureInit /\ [][ReconfigureNext]_reconfigureVars

-----------------------------------------------------------------------------
(* However often it was touched, an apply leaves exactly the resources of the *)
(* configuration, as long as no run has failed.                              *)
Exact == ran = "applied" /\ smooth => \A l \in Labels : exists[l] = Added(l)

(* What plan announces is what apply deletes, on the same condition.         *)
PlanKept == ran = "applied" /\ smooth => deletions = promised

(* Whatever a destroy leaves behind was touched or failed: nothing stays of a *)
(* configuration that was applied and is destroyed unedited, nor of applies  *)
(* that failed if there was no edit.                                         *)
Emptied ==
    [][Destroy /\ ran' = "destroyed" /\ ((smooth /\ again) \/ ~touched)
        => exists' = Nothing({})]_reconfigureVars

(* Applying once more what was applied already deletes nothing, unless there *)
(* are states of a resource that was taken out of the configuration: the     *)
(* manager keeps them, and CloudLab and SENSE then start again every time.   *)
SettledStays ==
    [][ran = "applied" /\ smooth /\ Apply /\ (\A l \in Labels : states[l] # {} => count[l] > 0)
        => deletions' = 0]_reconfigureVars

\* "Applying this plan would create {cr} resource(s) and destroy {dl}
\* resource(s)" (tools/cli.py): of the resources that were saved, no apply
\* deletes more than was announced.
PlanHolds == deletions <= promised

\* As long as no run fails, applies and destroys do what they announce, leave
\* what is configured and nothing else, and come to rest.
RunsAreExact == [](Exact /\ PlanKept) /\ Emptied /\ SettledStays
=============================================================================
