---------------------------- MODULE MCJobSession ----------------------------
(***************************************************************************)
(* Instances of JobSession.                                                *)
(***************************************************************************)
EXTENDS JobSession

\* A job is waited for until it is in any of the final states.
AllFinal == {"COMPLETED", "FAILED", "CANCELED"}
=============================================================================
