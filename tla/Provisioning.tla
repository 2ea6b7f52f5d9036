---------------------------- MODULE Provisioning ----------------------------
(***************************************************************************)
(* What the controller promises of an apply, whatever its providers do:    *)
(* resources are admitted by their provider and then created; a resource   *)
(* is admitted once, and only when everything it needs from the other      *)
(* providers exists in full.                                               *)
(***************************************************************************)
CONSTANT Resource

VARIABLES
    needs,     \* needs[r]: what r needs from other providers
    admitted,  \* resources their provider has added
    created    \* resources all of whose instances exist

Init == admitted = {} /\ created = {}

Admit(r) ==
    /\ r \notin admitted
    /\ needs[r] \subseteq created
    /\ admitted' = admitted \cup {r}
    /\ UNCHANGED <<needs, created>>

Create(r) ==
    /\ r \in admitted \ created
    /\ created' = created \cup {r}
    /\ UNCHANGED <<needs, admitted>>

Next == \E r \in Resource : Admit(r) \/ Create(r)

Spec == Init /\ [][Next]_<<needs, admitted, created>>
=============================================================================
