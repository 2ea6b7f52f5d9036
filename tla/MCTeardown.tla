----------------------------- MODULE MCTeardown -----------------------------
(***************************************************************************)
(* Instances of Teardown: every workflow of N resources.                   *)
(***************************************************************************)
EXTENDS Teardown

CONSTANT FirstProvider  \* owner of resource 1: the labels are interchangeable

Workflows ==
    [owner : {f \in [Resource -> Provider] : 1 \in Resource => f[1] = FirstProvider},
     deps : {f \in [Resource -> SUBSET Resource] :
                \A r \in Resource : f[r] \subseteq 1..(r - 1)}]
=============================================================================
