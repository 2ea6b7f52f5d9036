------------------------------ MODULE Outputs -------------------------------
(* Fetching the output of a job: which storage of the facility is used, and   *)
(* what the job's local_files say afterwards.  The storages, their health and *)
(* the remote files change between two calls.                                 *)
EXTENDS Integers, FiniteSetsExt

CONSTANTS MaxFetches   \* bound on the calls of fetch_output_files

ASSUME FetchesAssumption == MaxFetches \in Nat

Streams == {"stdout", "stderr"}
Healths == {"up", "unknown", "down"}
NoStorage == 0
NoVersion == 0

VARIABLES storages,    \* what the facility lists, in its order
          resourceId,  \* the job has a resource_id
          paths,       \* streams the specification gives a path for
          files,       \* the version of each remote file, NoVersion without one
          localFiles,  \* job.local_files: the streams it names
          localVersion,\* the version each local file holds
          fetched,     \* what the last call returned
          chosen,      \* the storage of the last call
          listed,      \* ghost: the facility listed its storages in the last call
          fetches

outputVars == <<storages, resourceId, paths, files,
                localFiles, localVersion, fetched, chosen, listed, fetches>>

OutputsInit ==
    /\ storages \in UNION {[1..n -> [home : BOOLEAN, health : Healths]] : n \in 0..2}
    /\ resourceId \in BOOLEAN
    /\ paths \in SUBSET Streams
    /\ files = [s \in Streams |-> NoVersion]
    /\ localFiles = {}
    /\ localVersion = [s \in Streams |-> NoVersion]
    /\ fetched = {}
    /\ chosen = NoStorage
    /\ listed = TRUE
    /\ fetches = 0

(* _get_storage_resource_id: not those that are down; those that are up come *)
(* first, and otherwise the facility's order; the first home, or the first.  *)
(* A listing that raises is logged and gives none.                           *)
Available == {k \in DOMAIN storages : storages[k].health # "down"}
Homes == {k \in Available : storages[k].home}

\* Mutant of FirstOf: storages that are up come no earlier than the others.
FirstListed(S) == Min(S)

FirstOf(S) ==
    LET up == {k \in S : storages[k].health = "up"}
    IN  IF up # {} THEN Min(up) ELSE Min(S)

StorageResource(answered) ==
    CASE answered /\ Homes # {} -> FirstOf(Homes)
      [] answered /\ Homes = {} /\ Available # {} -> FirstOf(Available)
      [] OTHER -> NoStorage

(* fetch_output_files: each stream on its own, a failed one is left out.      *)
FetchOutputFiles(failing, answered) ==
    /\ fetches < MaxFetches
    /\ fetches' = fetches + 1
    /\ chosen' = IF resourceId THEN StorageResource(answered) ELSE NoStorage
    /\ listed' = answered
    /\ fetched' = IF chosen' = NoStorage THEN {}
                  ELSE {s \in paths \ failing : files[s] # NoVersion}
    /\ localFiles' = localFiles \cup fetched'
    /\ localVersion' = [s \in Streams |-> IF s \in fetched' THEN files[s] ELSE localVersion[s]]
    /\ UNCHANGED <<storages, resourceId, paths, files>>

(* The facility: the job writes, or a storage changes its health.             *)
Write(s) ==
    /\ files[s] < 2
    /\ files' = [files EXCEPT ![s] = @ + 1]
    /\ UNCHANGED <<storages, resourceId, paths, localFiles, localVersion, fetched, chosen,
                   listed, fetches>>
ChangeHealth(k, h) ==
    /\ storages' = [storages EXCEPT ![k].health = h]
    /\ chosen' = NoStorage
    /\ UNCHANGED <<resourceId, paths, files, localFiles, localVersion, fetched, listed, fetches>>

OutputsNext ==
    \/ \E failing \in SUBSET Streams, answered \in BOOLEAN : FetchOutputFiles(failing, answered)
    \/ \E s \in Streams : Write(s)
    \/ \E k \in DOMAIN storages, h \in Healths : ChangeHealth(k, h)

OutputsSpec == OutputsInit /\ [][OutputsNext]_outputVars

-----------------------------------------------------------------------------
(* No storage is better than the chosen one: a home goes before any other,   *)
(* and of two that are alike in this the one that is up; and one is chosen   *)
(* whenever the facility lists one that is not down.  A listing that raised  *)
(* finds none, and a caller that asks again loses nothing by it: what was    *)
(* fetched before stays.                                                     *)
Better(s, t) ==
    \/ s.health # "down" /\ t.health = "down"
    \/ s.health # "down" /\ s.home /\ ~t.home
    \/ s.health = "up" /\ t.health # "up" /\ s.home = t.home
BestChosen ==
    [][fetches' # fetches /\ resourceId =>
        IF chosen' = NoStorage
        THEN /\ ~listed' \/ \A k \in DOMAIN storages : storages[k].health = "down"
             /\ UNCHANGED <<localFiles, localVersion>>
        ELSE \A k \in DOMAIN storages : ~Better(storages[k], storages[chosen'])]_outputVars
=============================================================================
