----------------------------- MODULE SavedEntry ------------------------------
(* What the saved states tell of one resource, as far as destroy goes by it:  *)
(* the plug-in is called for a resource that has a state or a failed label,   *)
(* and for no other (controller.py). A run that ends, however it ends, writes *)
(* the entry anew; a process that dies writes none. An entry is a set of      *)
(*   "state"     a state of the resource, with its attributes                 *)
(*   "counted"   the counters say that it was created                         *)
(*   "failed"    a failed label                                               *)
(*   "adrift"    none of them, although a run may have made the resource      *)
NoEntry == {}
AppliedEntry == {"state", "counted"}
Adrift == {"adrift"}

(* Controller.destroy: "not in resource_state_map and not in failed_resources". *)
IsKnown(entry) == entry \cap {"state", "failed"} # {}

(* reconcile_states: the state that was saved before is kept when the         *)
(* counters saved with it, of this resource or of another, have one created.  *)
MayKeep(entry) == {"counted" \in entry, TRUE}
StateKept(entry, kept) == IF kept THEN entry \cap {"state"} ELSE {}

(* An apply that failed to create the resource: the labels are of this run.   *)
FailedEntry(entry, kept) == StateKept(entry, kept) \cup {"failed"}

(* An apply that failed elsewhere before it came to the resource.             *)
PassedEntry(entry, kept) ==
    IF StateKept(entry, kept) # {} \/ entry = NoEntry THEN StateKept(entry, kept) ELSE Adrift

(* A destroy whose deletion of the resource failed.                           *)
UndeletedEntry(entry) == entry \cup {"failed"}

(* A process that died in an apply.                                           *)
DiedEntry(entry) == IF IsKnown(entry) THEN entry ELSE Adrift
=============================================================================
