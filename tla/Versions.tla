------------------------------ MODULE Versions ------------------------------
(* VersionProber: which API version an endpoint speaks, probed over the      *)
(* network and cached in memory and in one file that all processes share.    *)
EXTENDS Integers

CONSTANTS Probers,      \* the processes, each with its shared prober instance
          Endpoints,
          Ttl,          \* the age at which an entry has expired
          MaxLost       \* bound on probes that fail though the version is served

ASSUME VersionsAssumption == Ttl \in Nat /\ MaxLost \in Nat

VARIABLES served,   \* highest version an endpoint serves
          file,     \* the cache file: its entries, or Unreadable
          mem,      \* VersionProber._cache: its entries, or NotLoaded
          saving,   \* processes between truncating and writing the file
          lost      \* failed probes so far

versionVars == <<served, file, mem, saving, lost>>

Lowest == 1
Highest == 2
NoEntry == [version |-> 0, age |-> 0]
Entries == [version : Lowest..Highest, age : 0..(Ttl + 1)] \cup {NoEntry}
Empty == [e \in Endpoints |-> NoEntry]
Unreadable == [e \in Endpoints |-> [version |-> -1, age |-> 0]]
NotLoaded == [e \in Endpoints |-> [version |-> -2, age |-> 0]]

VersionsInit ==
    /\ served \in [Endpoints -> Lowest..Highest]
    /\ file = Empty
    /\ mem = [p \in Probers |-> NotLoaded]
    /\ saving = {}
    /\ lost = 0

(* _load_cache: the file is read once per process; if it cannot be read the  *)
(* process goes on with an empty cache.                                      *)
LoadCache(p) ==
    IF mem[p] # NotLoaded THEN mem[p] ELSE IF file = Unreadable THEN Empty ELSE file

(* _get_cached: a version, or 0 when the entry is absent or expired.         *)
\* Mutant of GetCached: the age of the entry is not looked at.
GetCachedForever(cache, e) == cache[e].version
GetCached(cache, e) == IF cache[e].age > Ttl THEN 0 ELSE cache[e].version

(* _probe: the first version that answers, highest first; the lowest one     *)
(* when none does.                                                           *)
\* Mutant of Probe: falls back to the first version instead of the last.
ProbeHigh(e) == {served[e]} \cup (IF lost < MaxLost THEN {Highest} ELSE {})
Probe(e) == {served[e]} \cup (IF lost < MaxLost THEN {Lowest} ELSE {})

(* _set_cached, in memory.                                                   *)
SetCached(cache, e, v) == [cache EXCEPT ![e] = [version |-> v, age |-> 0]]

(* detect_version, up to the moment _save_cache has opened the file.         *)
Detect(p, e, force) ==
    LET cache == LoadCache(p) IN
    /\ p \notin saving
    /\ IF ~force /\ GetCached(cache, e) # 0
       THEN /\ mem' = [mem EXCEPT ![p] = cache]
            /\ UNCHANGED <<file, saving, lost>>
       ELSE \E v \in Probe(e) :
            /\ mem' = [mem EXCEPT ![p] = SetCached(cache, e, v)]
            /\ lost' = IF v = served[e] THEN lost ELSE lost + 1
            /\ file' = Unreadable
            /\ saving' = saving \cup {p}
    /\ UNCHANGED served

(* clear_cache of one endpoint, or of all.                                   *)
ClearCache(p, es) ==
    /\ p \notin saving
    /\ mem' = [mem EXCEPT ![p] =
           IF es = Endpoints THEN Empty
           ELSE [e \in Endpoints |-> IF e \in es THEN NoEntry ELSE LoadCache(p)[e]]]
    /\ file' = Unreadable
    /\ saving' = saving \cup {p}
    /\ UNCHANGED <<served, lost>>

(* _save_cache, once the file has been truncated: it ends up with what this  *)
(* process has in memory, whatever other processes have written meanwhile.   *)
SaveCache(p) ==
    /\ p \in saving
    /\ file' = mem[p]
    /\ saving' = saving \ {p}
    /\ UNCHANGED <<served, mem, lost>>

Older(entry) == IF entry = NoEntry \/ entry.age > Ttl THEN entry ELSE [entry EXCEPT !.age = @ + 1]

TimePasses ==
    /\ file' = IF file = Unreadable THEN file ELSE [e \in Endpoints |-> Older(file[e])]
    /\ mem' = [p \in Probers |-> IF mem[p] = NotLoaded THEN NotLoaded
                                 ELSE [e \in Endpoints |-> Older(mem[p][e])]]
    /\ UNCHANGED <<served, saving, lost>>

(* A facility is upgraded, never downgraded.                                 *)
Upgrade(e) ==
    /\ served[e] < Highest
    /\ served' = [served EXCEPT ![e] = @ + 1]
    /\ UNCHANGED <<file, mem, saving, lost>>

Exit(p) ==
    /\ p \notin saving
    /\ mem' = [mem EXCEPT ![p] = NotLoaded]
    /\ UNCHANGED <<served, file, saving, lost>>

VersionsNext ==
    \/ \E p \in Probers, e \in Endpoints, force \in BOOLEAN : Detect(p, e, force)
    \/ \E p \in Probers : ClearCache(p, Endpoints) \/ SaveCache(p) \/ Exit(p)
    \/ \E p \in Probers, e \in Endpoints : ClearCache(p, {e})
    \/ TimePasses
    \/ \E e \in Endpoints : Upgrade(e)

VersionsFair ==
    /\ WF_versionVars(TimePasses)
    /\ \A p \in Probers :
        /\ WF_versionVars(SaveCache(p))
        /\ \A e \in Endpoints : SF_versionVars(Detect(p, e, FALSE))

VersionsSpec == VersionsInit /\ [][VersionsNext]_versionVars /\ VersionsFair

-----------------------------------------------------------------------------
Caches == {mem[p] : p \in Probers} \cup {file}

(* A failed probe falls back to the lowest version, so a client never speaks *)
(* a version its endpoint does not serve, whichever process wrote the entry  *)
(* and however many overwrote the file.                                      *)
NeverTooHigh ==
    \A c \in Caches \ {Unreadable, NotLoaded} :
        \A e \in Endpoints : c[e].version <= served[e]

(* A version remembered from before an upgrade, or from a probe that failed, *)
(* is dropped in the end by a process that keeps asking.                     *)
UpgradeIsSeen ==
    \A p \in Probers, e \in Endpoints :
        [](served[e] = Highest => <>(mem[p] # NotLoaded /\ mem[p][e].version = Highest))

(* What version_prober.py remembers is usable at any time, and right in the  *)
(* end.                                                                      *)
VersionsAreRight == []NeverTooHigh /\ UpgradeIsSeen
=============================================================================
