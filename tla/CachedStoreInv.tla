---------------------------- MODULE CachedStoreInv ----------------------------
(***************************************************************************)
(* The inductive invariant of CachedStore: which versions the backend, the *)
(* cache and the readers may hold at the same time, and what a reader may  *)
(* rely on as long as nobody has changed the cache since it began.         *)
(***************************************************************************)
EXTENDS CachedStore

\* Every version comes from one of the writes so far; a reader that is not idle
\* reads an object, and has fetched it exactly while it puts it into the cache.
VersionsOK ==
    /\ \A o \in Objects : {backend[o], cached[o], seen[o]} \subseteq 0..writes + 1
    /\ \A r \in Readers :
          /\ payload[r] <= writes + 1
          /\ step[r] # "idle" => object[r] \in Objects
          /\ step[r] \in {"putting", "renaming"} <=> payload[r] # 0

\* Nobody who missed this object has been overtaken by a write: what has been read
\* is not newer than what can still be read.
Ordered(o) ==
    /\ cached[o] # 0 => seen[o] <= cached[o]
    /\ backend[o] # 0 => seen[o] <= backend[o] /\ cached[o] <= backend[o]
    /\ \A r \in Readers : step[r] \in Missed /\ object[r] = o =>
          cached[o] \in {0, backend[o]} /\ payload[r] \in {0, backend[o]}

OrderInv == \A o \in Objects \ crossed : Ordered(o)

\* What a reader has listed, staged or put is still there.
Undisturbed(r) ==
    /\ step[r] \in {"listed", "shrinking"} => listed[r] \subseteq Present
    /\ step[r] = "renaming" => <<r, object[r]>> \in staged
    /\ step[r] = "reading" => cached[object[r]] # 0

SoloInv == \A r \in Readers \ disturbed : Undisturbed(r)

Inv == TypeOK /\ VersionsOK /\ OrderInv /\ SoloInv

----------------------------------------------------------------------------
(* How much the cache holds. *)

Listing == {"listed", "shrinking"}
Filling == {"fetching", "putting"}

\* What shrinking may leave, and what a reader may put.
SmallEnough == {entries \in SUBSET Entries : TotalSize(entries) <= MaxTotal}
Puttable == Objects \cup (Readers \X Objects)

\* All that the cache holds is among these entries, or is what one of these readers
\* has put last.
Covered(entries, readers, put) ==
    Present \ {Directory} \subseteq entries \cup {put[r] : r \in readers}

\* Since the reader that has kept these entries listed the cache, the spent readers have
\* put something, each no more than its last.
Kept(kept, spent, put) ==
    /\ Covered(kept, spent, put)
    /\ \A r \in spent : step[r] = "renaming" => put[r] = <<r, object[r]>>

\* Of the readers that are shrinking the cache the fresh ones have listed it later than
\* that: what each of them keeps will do as well when it is small enough.  The later one
\* of them has listed the cache, the fewer have put something since.
Shrinks(fresh, since, spent, put) ==
    /\ \A r \in fresh : r \notin since[r] /\ Covered(listed[r], since[r], put)
    /\ \A r, p \in fresh : since[r] \subseteq since[p] \/ since[p] \subseteq since[r]
    /\ \A r \in spent : step[r] \in Listing => r \in fresh

\* Nobody who fills the cache is spent.
RoomInv ==
    \E spent \in SUBSET {r \in Readers : step[r] \notin Filling}, kept \in SmallEnough :
    \E put \in [spent -> Puttable] :
       /\ Kept(kept, spent, put)
       /\ \E fresh \in SUBSET {r \in Readers : step[r] \in Listing} :
          \E since \in [fresh -> SUBSET spent] : Shrinks(fresh, since, spent, put)

CacheInv == Inv /\ RoomInv
=============================================================================
