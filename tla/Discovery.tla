------------------------------ MODULE Discovery -----------------------------
(* Discovery of an IRI facility and its cache file, shared by processes that *)
(* know nothing of each other.  A discovery asks the facility for one kind   *)
(* of item after another; an error ends it, and what was found so far is     *)
(* returned, and saved, as if it were everything.  The cache file is written *)
(* through a temporary file whose name all processes share.                  *)
EXTENDS Integers, FiniteSets

CONSTANTS Sessions,     \* the processes
          Stages,       \* how many kinds of item a discovery asks for
          MaxAge,       \* the age at which a cache entry has expired
          MaxCuts       \* bound on discoveries cut short

ASSUME DiscoveryAssumption ==
    IsFiniteSet(Sessions) /\ Stages \in Nat /\ MaxAge \in Nat /\ MaxCuts \in Nat

VARIABLES content,   \* what each inode holds
          path,      \* inode of <name>.json, None when there is no such file
          temp,      \* inode of <name>.tmp
          age,       \* time since the payload of <name>.json was stamped
          saver,     \* per process: where in save_discovery it is, its inode and payload
          memory,    \* what the process was given: FacilityClient._discovery
          cuts       \* discoveries cut short so far

discoveryVars == <<content, path, temp, age, saver, memory, cuts>>

None == 0
Inodes == 1..(Cardinality(Sessions) + 1)
Torn == Stages + 1                 \* an unreadable file
Results == 0..Stages               \* the number of stages a discovery got through
NoResult == Stages + 2

Idle == [at |-> "idle", fd |-> None, result |-> NoResult]

DiscoveryInit ==
    /\ content = [i \in Inodes |-> Torn]
    /\ path = None
    /\ temp = None
    /\ age = 0
    /\ saver = [p \in Sessions |-> Idle]
    /\ memory = [p \in Sessions |-> NoResult]
    /\ cuts = 0

(* _discover_native: everything, or the items of the stages before an error. *)
Discovered == {Stages} \cup (IF cuts < MaxCuts THEN 0..(Stages - 1) ELSE {})

(* load_discovery: None when the file is missing, unreadable or expired.     *)
\* Mutants of Loaded: a file that does not parse is not told from one that
\* does; the age of the file is not looked at.
LoadedTorn(maxAge) ==
    IF path = None \/ (maxAge > 0 /\ age > maxAge) THEN NoResult ELSE content[path]
LoadedForever(maxAge) ==
    IF path = None \/ content[path] = Torn THEN NoResult ELSE content[path]
Loaded(maxAge) ==
    IF path = None \/ content[path] = Torn \/ (maxAge > 0 /\ age > maxAge)
    THEN NoResult
    ELSE content[path]

(* Session.metadata: the cached result, or a live one that is then saved.    *)
Metadata(p, refresh) ==
    LET cached == IF refresh THEN NoResult ELSE Loaded(MaxAge) IN
    /\ IF cached # NoResult
       THEN /\ memory' = [memory EXCEPT ![p] = cached]
            /\ UNCHANGED <<saver, cuts>>
       ELSE \E live \in Discovered :
            /\ memory' = [memory EXCEPT ![p] = live]
            /\ saver' = [saver EXCEPT ![p] = [at |-> "open", fd |-> None, result |-> live]]
            /\ cuts' = IF live = Stages THEN cuts ELSE cuts + 1
    /\ UNCHANGED <<content, path, temp, age>>

(* FacilityClient._get_discovery: a process keeps what it was given first,   *)
(* unless it asks for a refresh.                                             *)
GetDiscovery(p, refresh) ==
    /\ saver[p] = Idle
    /\ memory[p] = NoResult \/ refresh
    /\ Metadata(p, refresh)

(* The program of p ends, or makes a new FacilityClient.                     *)
StartAnew(p) ==
    /\ saver[p] = Idle
    /\ memory[p] # NoResult
    /\ memory' = [memory EXCEPT ![p] = NoResult]
    /\ UNCHANGED <<content, path, temp, age, saver, cuts>>

-----------------------------------------------------------------------------
(* save_discovery, one action per system call.                               *)
Free == {i \in Inodes : i # path /\ i # temp /\ \A p \in Sessions : saver[p].fd # i}

OpenTemp(p) ==
    /\ saver[p].at = "open"
    /\ LET i == IF temp = None THEN CHOOSE f \in Free : TRUE ELSE temp IN
        /\ content' = [content EXCEPT ![i] = Torn]
        /\ saver' = [saver EXCEPT ![p].at = "dump", ![p].fd = i]
        /\ temp' = i
    /\ UNCHANGED <<path, age, memory, cuts>>

(* Writing over another's payload leaves the end of a longer one behind.     *)
Written(old, new) == IF old \notin {Torn, new} /\ old > new THEN Torn ELSE new

Dump(p) ==
    /\ saver[p].at = "dump"
    /\ content' = [content EXCEPT ![saver[p].fd] = Written(@, saver[p].result)]
    /\ age' = IF saver[p].fd = path THEN 0 ELSE age
    /\ saver' = [saver EXCEPT ![p].at = "replace", ![p].fd = None]
    /\ UNCHANGED <<path, temp, memory, cuts>>

(* The rename fails, with a warning, when another process has already        *)
(* renamed the temporary file.                                               *)
Replace(p) ==
    /\ saver[p].at = "replace"
    /\ IF temp = None
       THEN UNCHANGED <<content, path, age>>
       ELSE /\ path' = temp
            /\ age' = 0
            /\ content' = IF path = None THEN content ELSE [content EXCEPT ![path] = Torn]
    /\ temp' = None
    /\ saver' = [saver EXCEPT ![p] = Idle]
    /\ UNCHANGED <<memory, cuts>>

Invalidate ==
    /\ path # None
    /\ path' = None
    /\ age' = 0
    /\ content' = [content EXCEPT ![path] = Torn]
    /\ UNCHANGED <<temp, saver, memory, cuts>>

(* The time that passes; an entry older than MaxAge stays just that.         *)
Tick ==
    /\ path # None /\ age <= MaxAge
    /\ age' = age + 1
    /\ UNCHANGED <<content, path, temp, saver, memory, cuts>>

Save(p) == OpenTemp(p) \/ Dump(p) \/ Replace(p)

DiscoveryNext ==
    \/ \E p \in Sessions, refresh \in BOOLEAN : GetDiscovery(p, refresh)
    \/ \E p \in Sessions : StartAnew(p) \/ Save(p)
    \/ Invalidate
    \/ Tick

DiscoveryFair ==
    /\ WF_discoveryVars(Tick)
    /\ \A p \in Sessions :
        /\ WF_discoveryVars(Save(p))
        /\ WF_discoveryVars(StartAnew(p))
        /\ WF_discoveryVars(GetDiscovery(p, FALSE))

DiscoverySpec == DiscoveryInit /\ [][DiscoveryNext]_discoveryVars /\ DiscoveryFair

-----------------------------------------------------------------------------
(* Although two processes may write the same temporary file, and one may     *)
(* rename it while the other still writes, nobody is ever given anything but *)
(* the whole result of one discovery.                                        *)
OnlyWholeResults == \A p \in Sessions : memory[p] # Torn

(* A discovery that an error cut short is cached like a complete one, but    *)
(* not for ever: programs started again and again see all of the facility.   *)
CutsExpire == \A p \in Sessions : []<>(memory[p] = Stages)
=============================================================================
