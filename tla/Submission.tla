----------------------------- MODULE Submission -----------------------------
(* Building an IRI service client and submitting through it: which version   *)
(* class the factory picks, which credentials the client loads, and what     *)
(* plan promises of create.                                                  *)
EXTENDS Integers, FiniteSets

CONSTANTS Uris        \* the endpoints

NoUri == "none"
NoRecord == [key |-> FALSE, endpoint |-> NoUri, version |-> 0, given |-> FALSE]
Records == [key : BOOLEAN, endpoint : Uris \cup {NoUri}, version : {0, 2}, given : {TRUE}]

VARIABLES credential,   \* the credential argument
          section,      \* the section of credentials.yml the look-up ends at
          uri,          \* the endpoint_uri argument
          probed,       \* the endpoint the factory probed for its version
          endpoint,     \* api_endpoint of the client
          available,    \* _available
          job,          \* the job specification
          outcome       \* of plan, then of create

submissionVars == <<credential, section, uri, probed, endpoint, available, job, outcome>>

SubmissionInit ==
    /\ credential \in Records \cup {NoRecord}
    /\ section \in Records \cup {NoRecord}
    /\ uri \in Uris \cup {NoUri}
    /\ job \in [resource : BOOLEAN, executable : BOOLEAN, convertible : BOOLEAN]
    /\ probed = NoUri
    /\ endpoint = NoUri
    /\ available = FALSE
    /\ outcome = "unbuilt"

\* Mutant of Probed: the section of the file is preferred to the credential.
ProbedOfFile == IF section.endpoint # NoUri THEN section.endpoint ELSE credential.endpoint

(* _resolve_version_from_kwargs: an explicit version, else the endpoint of   *)
(* the credential, of the file's section, or the argument is probed.         *)
Probed ==
    CASE credential.version # 0 -> NoUri
      [] credential.version = 0 /\ credential.endpoint # NoUri -> credential.endpoint
      [] credential.version = 0 /\ credential.endpoint = NoUri /\ section.version # 0 -> NoUri
      [] credential.version = 0 /\ credential.endpoint = NoUri /\ section.version = 0
            /\ section.endpoint # NoUri -> section.endpoint
      [] OTHER -> uri

(* _load_credentials: the file is read only when no credential was given.    *)
LoadCredentials == IF credential.given THEN credential ELSE section

Build ==
    /\ outcome = "unbuilt"
    /\ probed' = Probed
    /\ endpoint' = IF uri # NoUri THEN uri ELSE LoadCredentials.endpoint
    /\ available' = (LoadCredentials.key /\ endpoint' # NoUri)
    /\ outcome' = "built"
    /\ UNCHANGED <<credential, section, uri, job>>

\* Mutant of PlanErrors: whether the specification converts is not tried.
PlanErrorsShort(up) == ~job.resource \/ ~job.executable \/ ~up

(* plan: with skip_checks every error becomes a warning.  A client without   *)
(* credentials never had its model classes registered, and plan looks them   *)
(* up before it tests whether the client is available.                       *)
PlanErrors(up) == ~job.resource \/ ~job.executable \/ ~job.convertible \/ ~up
Plan(skip, up) ==
    /\ outcome = "built"
    /\ outcome' = CASE ~available -> "AttributeError"
                    [] available /\ ~skip /\ PlanErrors(up) -> "PlanError"
                    [] available /\ skip /\ PlanErrors(up) -> "downgraded"
                    [] OTHER -> "planned"
    /\ UNCHANGED <<credential, section, uri, probed, endpoint, available, job>>

(* create, with or without a plan before it: an unusable client or request   *)
(* is refused before anything is sent.                                       *)
Unusable == ~available \/ ~job.resource \/ ~job.convertible
Create(answered) ==
    /\ outcome \in {"built", "planned", "downgraded"}
    /\ outcome' = CASE Unusable -> "CreateError"
                    [] ~Unusable /\ ~answered -> "unanswered"
                    [] OTHER -> "created"
    /\ UNCHANGED <<credential, section, uri, probed, endpoint, available, job>>

SubmissionNext ==
    \/ Build
    \/ \E skip, up \in BOOLEAN : Plan(skip, up)
    \/ \E answered \in BOOLEAN : Create(answered)

SubmissionSpec == SubmissionInit /\ [][SubmissionNext]_submissionVars

-----------------------------------------------------------------------------
(* The version class is chosen by probing the endpoint the client then talks *)
(* to, unless the endpoint_uri argument replaces the one of the credentials. *)
ProbedIsUsed ==
    available /\ probed # NoUri /\ uri \in {NoUri, probed} => probed = endpoint

(* A job that plan accepted, with its checks on, is never refused by create: *)
(* only the request itself can still fail.                                   *)
PlanPredictsCreate ==
    [][outcome = "planned" => outcome' # "CreateError"]_submissionVars

(* What is found out before a submission holds when it is made: the version  *)
(* that was probed, and the checks of plan.                                  *)
ForeseenHolds == []ProbedIsUsed /\ PlanPredictsCreate
=============================================================================
