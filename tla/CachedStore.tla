---------------------------- MODULE CachedStore ----------------------------
(***************************************************************************)
(* CachedObjectStoreBackend (crates/cdl-store): an object store that keeps *)
(* whole objects in a directory on the local disk.                         *)
(*                                                                         *)
(* A read is served from the cache; on a miss a large one shrinks the      *)
(* cache, fetches the object, puts it into the cache and reads it there,   *)
(* a small one goes to the backend.  Everything that writes goes to the    *)
(* backend alone.  Nothing is locked: the file system is all that readers  *)
(* share, and each of its calls is a step here.                            *)
(*                                                                         *)
(* Shrinking takes the large files first, and among the large and the      *)
(* small the most recently accessed; what `accessed' tells depends on the  *)
(* mount options, so the order within the two classes is left open.        *)
(***************************************************************************)
EXTENDS Naturals, FiniteSetsExt

CONSTANTS
    Readers,         \* tasks that read, those of Lance
    Objects,         \* paths
    Size,            \* of each object
    RequestSizes,    \* how much a read may ask for (bound); get asks for usize::MAX
    MinObjectSize,   \* threshold_object_size
    MaxTotal,        \* threshold_total_size
    Directory,       \* the directory in the cache that the objects are put into
    DirectorySize,   \* what its metadata say of its length
    MaxWrites,       \* bound: the number of writes
    NotFound, Error, \* how a read may fail
    None

ASSUME SizesAssumption ==
    /\ Size \in [Objects -> Nat]
    /\ RequestSizes \subseteq Nat
    /\ MinObjectSize \in Nat
    /\ MaxTotal \in Nat \ {0}   \* load_local: 0 disables the cache
    /\ DirectorySize \in Nat
    /\ MaxWrites \in Nat
    /\ Directory \notin Objects
    /\ Objects \cap (Readers \X Objects) = {}   \* staging files have names of their own

\* There are as many tasks and objects as a machine and a bucket hold.
ASSUME FiniteAssumption ==
    IsFiniteSet(Readers) /\ IsFiniteSet(Objects) /\ Objects # {}

ASSUME OutcomesAssumption == NotFound \notin Nat /\ Error \notin Nat

VARIABLES
    backend,     \* the version of each object, 0 when it does not exist
    writes,      \* how many writes there have been
    cached,      \* the version of each object that the cache holds, or 0
    directory,   \* has the directory been created
    staged,      \* staging files in the directory, of a reader's put of an object
    step,        \* where each reader is
    object,      \* what it reads
    listed,      \* what it found in the cache directory and may still remove
    payload,     \* the version that it has fetched
    last,        \* the read that the last step has ended: <<object, outcome>>, or None
    seen,        \* history: the latest version of each object that was read
    crossed,     \* history: objects written while a reader had missed them
    disturbed    \* history: readers whose cache others changed since they began

storeVars == <<backend, writes, crossed>>
vars == <<backend, writes, cached, directory, staged, step, object, listed,
          payload, last, seen, crossed, disturbed>>

Entries == Objects \cup (Readers \X Objects) \cup {Directory}
Present ==
    {o \in Objects : cached[o] # 0} \cup staged \cup
    (IF directory THEN {Directory} ELSE {})
Length(e) ==
    IF e = Directory THEN DirectorySize
    ELSE IF e \in Objects THEN Size[e] ELSE Size[e[2]]
TotalSize(entries) == MapThenSumSet(Length, entries)
IsLarge(e) == Length(e) >= MinObjectSize

\* The entries that BTreeSet::pop_last may yield.
Poppable(entries) ==
    {e \in entries : IsLarge(e) \/ \A d \in entries : ~IsLarge(d)}

Failures == {NotFound, Error}
Missed == {"direct", "missed", "listed", "shrinking", "fetching", "putting", "renaming"}

----------------------------------------------------------------------------
(* The backend: put, delete, rename and the others pass through. *)

Wrote(objects) ==
    crossed' = crossed \cup
        {o \in objects : \E r \in Readers : object[r] = o /\ step[r] \in Missed}

\* put, put_opts, put_multipart, copy, copy_if_not_exists.
Put(o) ==
    /\ writes < MaxWrites
    /\ writes' = writes + 1
    /\ backend' = [backend EXCEPT ![o] = writes + 2]
    /\ Wrote({o})
    /\ last' = None
    /\ UNCHANGED <<cached, directory, staged, step, object, listed, payload, seen,
                   disturbed>>

Delete(o) ==
    /\ writes < MaxWrites
    /\ backend[o] # 0
    /\ writes' = writes + 1
    /\ backend' = [backend EXCEPT ![o] = 0]
    /\ Wrote({o})
    /\ last' = None
    /\ UNCHANGED <<cached, directory, staged, step, object, listed, payload, seen,
                   disturbed>>

\* rename, rename_if_not_exists.
Rename(o, p) ==
    /\ writes < MaxWrites
    /\ o # p
    /\ backend[o] # 0
    /\ writes' = writes + 1
    /\ backend' = [backend EXCEPT ![o] = 0, ![p] = writes + 2]
    /\ Wrote({o, p})
    /\ last' = None
    /\ UNCHANGED <<cached, directory, staged, step, object, listed, payload, seen,
                   disturbed>>

----------------------------------------------------------------------------
(* A read. *)

Finish(r, o, outcome) ==
    /\ last' = <<o, outcome>>
    /\ seen' = IF outcome \in Failures THEN seen ELSE [seen EXCEPT ![o] = Max({@, outcome})]
    /\ step' = [step EXCEPT ![r] = "idle"]
    /\ object' = [object EXCEPT ![r] = None]
    /\ payload' = [payload EXCEPT ![r] = 0]
    /\ listed' = [listed EXCEPT ![r] = {}]
    /\ disturbed' = disturbed \ {r}

GoOn(r, next) ==
    /\ last' = None
    /\ step' = [step EXCEPT ![r] = next]
    /\ UNCHANGED seen

Others(r) == {d \in Readers \ {r} : step[d] # "idle"}

\* A plausible bug: only large reads ask the cache.
LookIfLarge(r, o, size) ==
    /\ step[r] = "idle"
    /\ IF cached[o] # 0 /\ MinObjectSize <= size THEN Finish(r, o, cached[o])
       ELSE /\ GoOn(r, IF MinObjectSize <= size THEN "missed" ELSE "direct")
            /\ object' = [object EXCEPT ![r] = o]
            /\ UNCHANGED <<payload, listed, disturbed>>
    /\ UNCHANGED storeVars
    /\ UNCHANGED <<cached, directory, staged>>

\* get_opts, get_ranges and head ask the cache first.
Look(r, o, size) ==
    /\ step[r] = "idle"
    /\ IF cached[o] # 0 THEN Finish(r, o, cached[o])
       ELSE /\ GoOn(r, IF MinObjectSize <= size THEN "missed" ELSE "direct")
            /\ object' = [object EXCEPT ![r] = o]
            /\ UNCHANGED <<payload, listed, disturbed>>
    /\ UNCHANGED storeVars
    /\ UNCHANGED <<cached, directory, staged>>

\* A small read of an object that is not in the cache, and head.
Direct(r) ==
    /\ step[r] = "direct"
    /\ Finish(r, object[r], IF backend[object[r]] = 0 THEN NotFound ELSE backend[object[r]])
    /\ UNCHANGED storeVars
    /\ UNCHANGED <<cached, directory, staged>>

\* shrink: glob lists the cache directory ...
List(r) ==
    /\ step[r] = "missed"
    /\ GoOn(r, "listed")
    /\ listed' = [listed EXCEPT ![r] = Present]
    /\ UNCHANGED storeVars
    /\ UNCHANGED <<cached, directory, staged, object, payload, disturbed>>

\* A plausible bug: the cache is listed again until nothing has gone.
StatAgain(r) ==
    /\ step[r] = "listed"
    /\ GoOn(r, IF listed[r] \subseteq Present THEN "shrinking" ELSE "missed")
    /\ UNCHANGED storeVars
    /\ UNCHANGED <<cached, directory, staged, object, payload, listed, disturbed>>

\* ... and the metadata of each entry are read, which fails if one has gone.
Stat(r) ==
    /\ step[r] = "listed"
    /\ IF listed[r] \subseteq Present
       THEN GoOn(r, "shrinking") /\ UNCHANGED <<object, payload, listed, disturbed>>
       ELSE Finish(r, object[r], Error)
    /\ UNCHANGED storeVars
    /\ UNCHANGED <<cached, directory, staged>>

\* One entry is removed, as long as those left are too large together;
\* remove_file fails if it has gone meanwhile, or is a directory.
Evict(r, e) ==
    /\ step[r] = "shrinking"
    /\ TotalSize(listed[r]) > MaxTotal
    /\ e \in Poppable(listed[r])
    /\ IF e \in Present \ {Directory}
       THEN /\ GoOn(r, "shrinking")
            /\ cached' = [o \in Objects |-> IF o = e THEN 0 ELSE cached[o]]
            /\ staged' = staged \ {e}
            /\ listed' = [listed EXCEPT ![r] = @ \ {e}]
            /\ disturbed' = disturbed \cup Others(r)
            /\ UNCHANGED <<object, payload>>
       ELSE Finish(r, object[r], Error) /\ UNCHANGED <<cached, staged>>
    /\ UNCHANGED storeVars
    /\ UNCHANGED directory

\* A plausible bug: one entry is enough, or none.
ShrunkAnyway(r) ==
    /\ step[r] = "shrinking"
    /\ GoOn(r, "fetching")
    /\ listed' = [listed EXCEPT ![r] = {}]
    /\ UNCHANGED storeVars
    /\ UNCHANGED <<cached, directory, staged, object, payload, disturbed>>

Shrunk(r) ==
    /\ step[r] = "shrinking"
    /\ TotalSize(listed[r]) <= MaxTotal
    /\ GoOn(r, "fetching")
    /\ listed' = [listed EXCEPT ![r] = {}]
    /\ UNCHANGED storeVars
    /\ UNCHANGED <<cached, directory, staged, object, payload, disturbed>>

\* store: the whole object is fetched ...
Fetch(r) ==
    /\ step[r] = "fetching"
    /\ IF backend[object[r]] = 0 THEN Finish(r, object[r], NotFound)
       ELSE /\ GoOn(r, "putting")
            /\ payload' = [payload EXCEPT ![r] = backend[object[r]]]
            /\ UNCHANGED <<object, listed, disturbed>>
    /\ UNCHANGED storeVars
    /\ UNCHANGED <<cached, directory, staged>>

\* A plausible bug: the object is read without waiting for the put.
StageAndRead(r) ==
    /\ step[r] = "putting"
    /\ GoOn(r, "reading")
    /\ directory' = TRUE
    /\ payload' = [payload EXCEPT ![r] = 0]
    /\ UNCHANGED storeVars
    /\ UNCHANGED <<cached, staged, object, listed, disturbed>>

\* ... and put into the cache: LocalFileSystem writes a file with a name of its
\* own, creating the directory if need be, and renames it.
Stage(r) ==
    /\ step[r] = "putting"
    /\ GoOn(r, "renaming")
    /\ directory' = TRUE
    /\ staged' = staged \cup {<<r, object[r]>>}
    /\ UNCHANGED storeVars
    /\ UNCHANGED <<cached, object, listed, payload, disturbed>>

\* A plausible bug: the staging file is copied.
CopyStaged(r) ==
    /\ step[r] = "renaming"
    /\ <<r, object[r]>> \in staged
    /\ GoOn(r, "reading")
    /\ cached' = [cached EXCEPT ![object[r]] = payload[r]]
    /\ payload' = [payload EXCEPT ![r] = 0]
    /\ disturbed' = disturbed \cup Others(r)
    /\ UNCHANGED storeVars
    /\ UNCHANGED <<staged, object, listed, directory>>

RenameStaged(r) ==
    /\ step[r] = "renaming"
    /\ IF <<r, object[r]>> \in staged
       THEN /\ GoOn(r, "reading")
            /\ cached' = [cached EXCEPT ![object[r]] = payload[r]]
            /\ staged' = staged \ {<<r, object[r]>>}
            /\ payload' = [payload EXCEPT ![r] = 0]
            /\ disturbed' = disturbed \cup Others(r)
            /\ UNCHANGED <<object, listed>>
       ELSE Finish(r, object[r], Error) /\ UNCHANGED <<cached, staged>>
    /\ UNCHANGED storeVars
    /\ UNCHANGED directory

\* The object is read from the cache, where it may be no longer.
Read(r) ==
    /\ step[r] = "reading"
    /\ Finish(r, object[r], IF cached[object[r]] = 0 THEN NotFound ELSE cached[object[r]])
    /\ UNCHANGED storeVars
    /\ UNCHANGED <<cached, directory, staged>>

----------------------------------------------------------------------------

Init ==
    /\ backend = [o \in Objects |-> 1]
    /\ writes = 0
    /\ cached = [o \in Objects |-> 0]
    /\ directory = FALSE
    /\ staged = {}
    /\ step = [r \in Readers |-> "idle"]
    /\ object = [r \in Readers |-> None]
    /\ listed = [r \in Readers |-> {}]
    /\ payload = [r \in Readers |-> 0]
    /\ last = None
    /\ seen = [o \in Objects |-> 0]
    /\ crossed = {}
    /\ disturbed = {}

Work(r) ==
    \/ Direct(r) \/ List(r) \/ Stat(r)
    \/ \E e \in Entries : Evict(r, e)
    \/ Shrunk(r) \/ Fetch(r) \/ Stage(r) \/ RenameStaged(r) \/ Read(r)

Next ==
    \/ \E o \in Objects : Put(o) \/ Delete(o)
    \/ \E o, p \in Objects : Rename(o, p)
    \/ \E r \in Readers, o \in Objects, size \in RequestSizes : Look(r, o, size)
    \/ \E r \in Readers : Work(r)

Spec == Init /\ [][Next]_vars

\* The runtime polls a task whose call has returned.
FairSpec == Spec /\ \A r \in Readers : WF_vars(Work(r))

----------------------------------------------------------------------------
(* Properties. *)

\* What the file system, the tasks of CachedObjectStoreBackend and their
\* results look like; only a reader that renames has a staging file.
TypeOK ==
    /\ backend \in [Objects -> 0..MaxWrites + 1]
    /\ writes \in 0..MaxWrites
    /\ cached \in [Objects -> 0..MaxWrites + 1]
    /\ seen \in [Objects -> 0..MaxWrites + 1]
    /\ directory \in BOOLEAN
    /\ staged \subseteq {e \in Readers \X Objects : step[e[1]] = "renaming" /\ object[e[1]] = e[2]}
    /\ step \in [Readers -> Missed \cup {"idle", "reading"}]
    /\ object \in [Readers -> Objects \cup {None}]
    /\ listed \in [Readers -> SUBSET Entries]
    /\ payload \in [Readers -> 0..MaxWrites + 1]
    /\ last \in {None} \cup Objects \X (1..MaxWrites + 1 \cup Failures)

\* max_cache_size bounds the cache up to what the readers have fetched since it
\* was last found small enough: an object for each of them, however they
\* interleave their shrinking (shrink is called before the object is put).
CacheBounded ==
    TotalSize(Present) <=
        MaxTotal + DirectorySize + Cardinality(Readers) * Max({Size[o] : o \in Objects})

\* What the documentation of max_cache_size says: "Max directory size for cache
\* directory".
CacheWithinLimit == TotalSize(Present) <= MaxTotal

\* Whoever reads an object reads no version older than one that has been read
\* before, unless the object was written while a reader had missed it in the
\* cache: that reader may put the old version there after the new one was read,
\* or read the new one while the cache holds the old one.
ReadsDoNotGoBack ==
    [][last' = None \/ last'[2] \in Failures \/ last'[1] \in crossed
       \/ last'[2] >= seen[last'[1]]]_vars

\* A read of an object that exists fails only if another reader changed the
\* cache while it was going on (an entry of the listing has gone, or the object
\* just put, or its staging file), or if shrinking came upon the directory.
SoloReadsSucceed ==
    [][\A r \in Readers :
          step[r] # "idle" /\ step'[r] = "idle" /\ last'[2] \in Failures
          => \/ r \in disturbed
             \/ backend[object[r]] = 0 /\ last'[2] = NotFound
             \/ step[r] = "shrinking" /\ Directory \in Poppable(listed[r])]_vars

\* Every read ends.
ReadsEnd == \A r \in Readers : step[r] # "idle" ~> step[r] = "idle"
=============================================================================
