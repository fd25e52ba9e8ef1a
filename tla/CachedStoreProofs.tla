--------------------------- MODULE CachedStoreProofs ---------------------------
(***************************************************************************)
(* Proofs about CachedStore, for any number of readers and objects, sizes  *)
(* and writes: that CacheInv is an invariant, the two properties of reads  *)
(* that follow from it, and the bound on what the cache holds.             *)
(***************************************************************************)
EXTENDS CachedStoreInv, FoldLemmas, TLAPS

(* Max is defined by CHOOSE. *)
LEMMA MaxOfTwo ==
    ASSUME NEW a \in Nat, NEW b \in Nat
    PROVE  Max({a, b}) \in {a, b} /\ Max({a, b}) >= a /\ Max({a, b}) >= b
<1> DEFINE m == IF a >= b THEN a ELSE b
<1>1. m \in {a, b} /\ \A y \in {a, b} : m >= y
  OBVIOUS
<1>2. \E x \in {a, b} : \A y \in {a, b} : x >= y
  BY <1>1
<1> QED BY <1>2 DEF Max

----------------------------------------------------------------------------
(* Writes: no reader takes a step, and whoever has missed the object is noted. *)

\* The backend's versions stay within those written, and no later one exists.
LEMMA WritesType ==
    ASSUME Inv, [Next]_vars, writes' = writes + 1, writes < MaxWrites,
           UNCHANGED <<cached, directory, staged, step, object, listed, payload,
                       seen, disturbed>>,
           last' = None,
           backend' \in [Objects -> Nat],
           \A o \in Objects : backend'[o] \in {backend[o], 0, writes + 2}
    PROVE  TypeOK' /\ VersionsOK' /\ SoloInv'
<1>1. writes \in Nat /\ MaxWrites \in Nat
  BY SizesAssumption DEF Inv, TypeOK
<1>2. backend' \in [Objects -> 0..MaxWrites' + 1]
  <2>1. \A o \in Objects : backend'[o] \in 0..MaxWrites + 1
    BY <1>1 DEF Inv, TypeOK
  <2> QED BY <2>1
<1>3. TypeOK'
  BY <1>1, <1>2 DEF Inv, TypeOK
<1>4. VersionsOK'
  <2>1. \A o \in Objects : {backend[o], cached[o], seen[o]} \subseteq 0..writes + 1
    BY DEF Inv, VersionsOK
  <2>2. ASSUME NEW o \in Objects
        PROVE  {backend'[o], cached'[o], seen'[o]} \subseteq 0..writes' + 1
    BY <2>1, <1>1
  <2>3. ASSUME NEW r \in Readers
        PROVE  /\ payload'[r] <= writes' + 1
               /\ step'[r] # "idle" => object'[r] \in Objects
               /\ step'[r] \in {"putting", "renaming"} <=> payload'[r] # 0
    <3>1. payload[r] \in Nat
      BY <1>1 DEF Inv, TypeOK
    <3> QED BY <3>1, <1>1 DEF Inv, VersionsOK
  <2> QED BY <2>2, <2>3 DEF VersionsOK
<1>5. SoloInv'
  BY DEF Inv, SoloInv, Undisturbed, Present
<1> QED BY <1>3, <1>4, <1>5

\* An object that was written while nobody had missed it stays in order.
LEMMA WritesOrder ==
    ASSUME Inv, writes' = writes + 1,
           UNCHANGED <<cached, step, object, payload, seen>>,
           NEW W \in SUBSET Objects, Wrote(W),
           \A o \in Objects : backend'[o] = backend[o]
                              \/ (o \in W /\ backend'[o] \in {0, writes + 2})
    PROVE  OrderInv'
<1>1. writes \in Nat
  BY SizesAssumption DEF Inv, TypeOK
<1>2. SUFFICES ASSUME NEW o \in Objects, o \notin crossed'
              PROVE  Ordered(o)'
  BY DEF OrderInv
<1>3. Ordered(o)
  BY <1>2 DEF Wrote, Inv, OrderInv
<1>4. CASE backend'[o] = backend[o]
  BY <1>3, <1>4 DEF Ordered
<1>5. CASE o \in W /\ backend'[o] \in {0, writes + 2}
  <2>1. \A r \in Readers : ~(step[r] \in Missed /\ object[r] = o)
    BY <1>2, <1>5 DEF Wrote
  <2>2. seen[o] \in 0..writes + 1 /\ cached[o] \in 0..writes + 1
    BY DEF Inv, VersionsOK
  <2> QED BY <1>1, <1>3, <1>5, <2>1, <2>2 DEF Ordered
<1> QED BY <1>4, <1>5

\* put and its like write the next version.
LEMMA PutStep ==
    ASSUME Inv, NEW o \in Objects, Put(o)
    PROVE  Inv'
<1>0. [Next]_vars
  BY DEF Next
<1>1. backend \in [Objects -> Nat] /\ writes \in Nat
  BY SizesAssumption DEF Inv, TypeOK
<1>2. backend' \in [Objects -> Nat] /\ \A p \in Objects :
          backend'[p] = IF p = o THEN writes + 2 ELSE backend[p]
  BY <1>1 DEF Put
<1>3. TypeOK' /\ VersionsOK' /\ SoloInv'
  BY <1>0, <1>2, WritesType DEF Put
<1>4. OrderInv'
  <2>1. {o} \in SUBSET Objects
    OBVIOUS
  <2>2. Wrote({o})
    BY DEF Put
  <2>3. writes' = writes + 1 /\ UNCHANGED <<cached, step, object, payload, seen>>
    BY DEF Put
  <2>4. \A q \in Objects : backend'[q] = backend[q]
                           \/ (q \in {o} /\ backend'[q] \in {0, writes + 2})
    BY <1>2
  <2> QED BY <2>1, <2>2, <2>3, <2>4, WritesOrder
<1> QED BY <1>3, <1>4 DEF Inv

\* delete takes the object away.
LEMMA DeleteStep ==
    ASSUME Inv, NEW o \in Objects, Delete(o)
    PROVE  Inv'
<1>0. [Next]_vars
  BY DEF Next
<1>1. backend \in [Objects -> Nat] /\ writes \in Nat
  BY SizesAssumption DEF Inv, TypeOK
<1>2. backend' \in [Objects -> Nat] /\ \A p \in Objects :
          backend'[p] = IF p = o THEN 0 ELSE backend[p]
  BY <1>1 DEF Delete
<1>3. TypeOK' /\ VersionsOK' /\ SoloInv'
  BY <1>0, <1>2, WritesType DEF Delete
<1>4. OrderInv'
  <2>1. {o} \in SUBSET Objects
    OBVIOUS
  <2>2. Wrote({o})
    BY DEF Delete
  <2>3. writes' = writes + 1 /\ UNCHANGED <<cached, step, object, payload, seen>>
    BY DEF Delete
  <2>4. \A q \in Objects : backend'[q] = backend[q]
                           \/ (q \in {o} /\ backend'[q] \in {0, writes + 2})
    BY <1>2
  <2> QED BY <2>1, <2>2, <2>3, <2>4, WritesOrder
<1> QED BY <1>3, <1>4 DEF Inv

\* rename takes one away and writes the next version of the other.
LEMMA RenameStep ==
    ASSUME Inv, NEW o \in Objects, NEW p \in Objects, Rename(o, p)
    PROVE  Inv'
<1>0. [Next]_vars
  BY DEF Next
<1>1. backend \in [Objects -> Nat] /\ writes \in Nat
  BY SizesAssumption DEF Inv, TypeOK
<1>2. backend' \in [Objects -> Nat] /\ \A q \in Objects :
          backend'[q] = IF q = p THEN writes + 2 ELSE IF q = o THEN 0 ELSE backend[q]
  BY <1>1 DEF Rename
<1>3. TypeOK' /\ VersionsOK' /\ SoloInv'
  BY <1>0, <1>2, WritesType DEF Rename
<1>4. OrderInv'
  <2>1. {o, p} \in SUBSET Objects
    OBVIOUS
  <2>2. Wrote({o, p})
    BY DEF Rename
  <2>3. writes' = writes + 1 /\ UNCHANGED <<cached, step, object, payload, seen>>
    BY DEF Rename
  <2>4. \A q \in Objects : backend'[q] = backend[q]
                           \/ (q \in {o, p} /\ backend'[q] \in {0, writes + 2})
    BY <1>2
  <2> QED BY <2>1, <2>2, <2>3, <2>4, WritesOrder
<1> QED BY <1>3, <1>4 DEF Inv


----------------------------------------------------------------------------
(* Steps of a reader. *)

\* A read that ends leaves nothing of the reader, and what it has read is a
\* version, or a failure.
LEMMA FinishType ==
    ASSUME TypeOK, NEW r \in Readers, NEW o \in Objects,
           NEW outcome \in (1..MaxWrites + 1) \cup Failures, Finish(r, o, outcome)
    PROVE  /\ last' \in {None} \cup Objects \X (1..MaxWrites + 1 \cup Failures)
           /\ seen' \in [Objects -> 0..MaxWrites + 1]
           /\ step' \in [Readers -> Missed \cup {"idle", "reading"}]
           /\ object' \in [Readers -> Objects \cup {None}]
           /\ payload' \in [Readers -> 0..MaxWrites + 1]
           /\ listed' \in [Readers -> SUBSET Entries]
           /\ outcome \notin Failures => outcome \in Nat
           /\ \A p \in Objects : /\ outcome \in Failures \/ p # o => seen'[p] = seen[p]
                                 /\ seen'[p] \in {seen[p], outcome} /\ seen'[p] \in Nat
                                 /\ seen'[p] >= seen[p]
           /\ outcome \notin Failures => seen'[o] >= outcome
<1>1. MaxWrites \in Nat
  BY SizesAssumption
<1>2. CASE outcome \in Failures
  BY <1>1, <1>2 DEF Finish, TypeOK
<1>3. CASE outcome \in 1..MaxWrites + 1 /\ outcome \notin Failures
  <2>1. seen' = [seen EXCEPT ![o] = Max({seen[o], outcome})]
    BY <1>3 DEF Finish
  <2>2. seen[o] \in Nat /\ outcome \in Nat
    BY <1>1, <1>3 DEF TypeOK
  <2>3. /\ Max({seen[o], outcome}) \in {seen[o], outcome}
        /\ Max({seen[o], outcome}) >= seen[o] /\ Max({seen[o], outcome}) >= outcome
    BY <2>2, MaxOfTwo
  <2>4. seen' \in [Objects -> 0..MaxWrites + 1]
    BY <1>1, <1>3, <2>1, <2>3 DEF TypeOK
  <2>5. \A p \in Objects : /\ p # o => seen'[p] = seen[p]
                           /\ seen'[p] \in {seen[p], outcome} /\ seen'[p] \in Nat
                           /\ seen'[p] >= seen[p]
    BY <1>1, <2>1, <2>2, <2>3 DEF TypeOK
  <2>6. seen'[o] >= outcome
    BY <2>1, <2>3 DEF TypeOK
  <2>7. last' = <<o, outcome>>
    BY DEF Finish
  <2>8. /\ step' \in [Readers -> Missed \cup {"idle", "reading"}]
        /\ object' \in [Readers -> Objects \cup {None}]
        /\ payload' \in [Readers -> 0..MaxWrites + 1]
        /\ listed' \in [Readers -> SUBSET Entries]
    BY <1>1 DEF Finish, TypeOK
  <2> QED BY <1>3, <2>2, <2>4, <2>5, <2>6, <2>7, <2>8
<1> QED BY <1>2, <1>3

\* A read that ends with what is not older than what was read of the object, and
\* takes nothing from the cache but this reader's staging file, keeps the
\* invariant.
LEMMA FinishStep ==
    ASSUME Inv, NEW r \in Readers, NEW o \in Objects,
           NEW outcome \in (1..MaxWrites + 1) \cup Failures, Finish(r, o, outcome),
           UNCHANGED storeVars, UNCHANGED <<cached, directory, staged>>,
           \A e \in staged : e[1] # r,
           outcome \notin Failures =>
              /\ outcome <= writes + 1
              /\ o \notin crossed => /\ cached[o] # 0 => outcome <= cached[o]
                                     /\ backend[o] # 0 => outcome <= backend[o]
    PROVE  Inv'
<1>0. writes \in Nat /\ MaxWrites \in Nat
  BY SizesAssumption DEF Inv, TypeOK
<1>1. /\ last' \in {None} \cup Objects \X (1..MaxWrites + 1 \cup Failures)
      /\ seen' \in [Objects -> 0..MaxWrites + 1]
      /\ step' \in [Readers -> Missed \cup {"idle", "reading"}]
      /\ object' \in [Readers -> Objects \cup {None}]
      /\ payload' \in [Readers -> 0..MaxWrites + 1]
      /\ listed' \in [Readers -> SUBSET Entries]
      /\ \A p \in Objects : /\ outcome \in Failures \/ p # o => seen'[p] = seen[p]
                            /\ seen'[p] \in {seen[p], outcome} /\ seen'[p] \in Nat
  BY FinishType DEF Inv
<1>2. /\ step' = [step EXCEPT ![r] = "idle"]
      /\ object' = [object EXCEPT ![r] = None]
      /\ payload' = [payload EXCEPT ![r] = 0]
      /\ listed' = [listed EXCEPT ![r] = {}]
      /\ disturbed' = disturbed \ {r}
  BY DEF Finish
<1>3. /\ step'[r] = "idle" /\ object'[r] = None /\ payload'[r] = 0
      /\ \A d \in Readers \ {r} : /\ step'[d] = step[d] /\ object'[d] = object[d]
                                  /\ payload'[d] = payload[d] /\ listed'[d] = listed[d]
  BY <1>2 DEF Inv, TypeOK
<1>4. TypeOK'
  <2>1. staged' \subseteq {e \in Readers \X Objects : step'[e[1]] = "renaming" /\ object'[e[1]] = e[2]}
    BY <1>3 DEF Inv, TypeOK
  <2> QED BY <1>0, <1>1, <2>1 DEF Inv, TypeOK, storeVars
<1>5. VersionsOK'
  <2>1. ASSUME NEW p \in Objects
        PROVE  {backend[p], cached[p], seen'[p]} \subseteq 0..writes + 1
    <3>1. {backend[p], cached[p], seen[p]} \subseteq 0..writes + 1
      BY DEF Inv, VersionsOK
    <3>2. outcome \in Failures => seen'[p] = seen[p]
      BY <1>1
    <3> QED BY <1>0, <1>1, <3>1, <3>2
  <2>2. ASSUME NEW d \in Readers
        PROVE  /\ payload'[d] <= writes + 1
               /\ step'[d] # "idle" => object'[d] \in Objects
               /\ step'[d] \in {"putting", "renaming"} <=> payload'[d] # 0
    BY <1>0, <1>3 DEF Inv, VersionsOK
  <2> QED BY <2>1, <2>2 DEF VersionsOK, storeVars
<1>6. OrderInv'
  <2>1. SUFFICES ASSUME NEW p \in Objects, p \notin crossed
                 PROVE  Ordered(p)'
    BY DEF OrderInv, storeVars
  <2>2. Ordered(p)
    BY <2>1 DEF Inv, OrderInv
  <2>3. \A d \in Readers : step'[d] \in Missed => d # r
    BY <1>3 DEF Missed
  <2>4. \A d \in Readers : step'[d] \in Missed /\ object'[d] = p =>
          cached[p] \in {0, backend[p]} /\ payload'[d] \in {0, backend[p]}
    BY <1>3, <2>2, <2>3 DEF Ordered
  <2>5. /\ cached[p] # 0 => seen'[p] <= cached[p]
        /\ backend[p] # 0 => seen'[p] <= backend[p]
    <3>1. CASE outcome \in Failures \/ p # o
      BY <1>1, <2>2, <3>1 DEF Ordered
    <3>2. CASE outcome \notin Failures /\ p = o
      BY <1>1, <2>1, <2>2, <3>2 DEF Ordered
    <3> QED BY <3>1, <3>2
  <2> QED BY <2>2, <2>4, <2>5 DEF Ordered, storeVars
<1>7. SoloInv'
  <2>1. SUFFICES ASSUME NEW d \in Readers, d \notin disturbed'
                 PROVE  Undisturbed(d)'
    BY DEF SoloInv
  <2>2. CASE d = r
    BY <1>3, <2>2 DEF Undisturbed
  <2>3. CASE d # r
    <3>1. Undisturbed(d)
      BY <1>2, <2>1, <2>3 DEF Inv, SoloInv
    <3> QED BY <1>3, <2>3, <3>1 DEF Undisturbed, Present
  <2> QED BY <2>2, <2>3
<1> QED BY <1>4, <1>5, <1>6, <1>7 DEF Inv

\* A reader that goes on, and neither stages nor changes the cache, keeps the
\* invariant when what it has fetched and listed is what is there.
LEMMA QuietStep ==
    ASSUME Inv, NEW r \in Readers, NEW next \in Missed \ {"renaming"}, GoOn(r, next),
           NEW o \in Objects, NEW v \in 0..writes + 1, NEW L \in SUBSET Entries,
           object' = [object EXCEPT ![r] = o],
           payload' = [payload EXCEPT ![r] = v],
           listed' = [listed EXCEPT ![r] = L],
           UNCHANGED storeVars, UNCHANGED <<cached, directory, staged, disturbed>>,
           \A e \in staged : e[1] # r,
           next = "putting" <=> v # 0,
           next \in {"listed", "shrinking"} /\ r \notin disturbed => L \subseteq Present,
           o \notin crossed => cached[o] \in {0, backend[o]} /\ v \in {0, backend[o]}
    PROVE  Inv'
<1>0. writes \in Nat /\ MaxWrites \in Nat /\ writes + 1 \in 0..MaxWrites + 1
  BY SizesAssumption DEF Inv, TypeOK
<1>2. step' = [step EXCEPT ![r] = next] /\ seen' = seen /\ last' = None
  BY DEF GoOn
<1>3. /\ step'[r] = next /\ object'[r] = o /\ payload'[r] = v /\ listed'[r] = L
      /\ \A d \in Readers \ {r} : /\ step'[d] = step[d] /\ object'[d] = object[d]
                                  /\ payload'[d] = payload[d] /\ listed'[d] = listed[d]
  BY <1>2 DEF Inv, TypeOK
<1>4. TypeOK'
  <2>1. staged' \subseteq {e \in Readers \X Objects : step'[e[1]] = "renaming" /\ object'[e[1]] = e[2]}
    BY <1>3 DEF Inv, TypeOK
  <2>2. /\ step' \in [Readers -> Missed \cup {"idle", "reading"}]
        /\ object' \in [Readers -> Objects \cup {None}]
        /\ listed' \in [Readers -> SUBSET Entries]
    BY <1>2 DEF Inv, TypeOK
  <2>3. payload' \in [Readers -> 0..MaxWrites + 1]
    BY <1>0 DEF Inv, TypeOK
  <2> QED BY <1>0, <1>2, <2>1, <2>2, <2>3 DEF Inv, TypeOK, storeVars
<1>5. VersionsOK'
  <2>2. ASSUME NEW d \in Readers
        PROVE  /\ payload'[d] <= writes + 1
               /\ step'[d] # "idle" => object'[d] \in Objects
               /\ step'[d] \in {"putting", "renaming"} <=> payload'[d] # 0
    BY <1>0, <1>3 DEF Inv, VersionsOK
  <2> QED BY <1>2, <2>2 DEF Inv, VersionsOK, storeVars
<1>6. OrderInv'
  <2>1. SUFFICES ASSUME NEW p \in Objects, p \notin crossed
                 PROVE  Ordered(p)'
    BY DEF OrderInv, storeVars
  <2>2. Ordered(p)
    BY <2>1 DEF Inv, OrderInv
  <2>4. \A d \in Readers : step'[d] \in Missed /\ object'[d] = p =>
          cached[p] \in {0, backend[p]} /\ payload'[d] \in {0, backend[p]}
    BY <1>3, <2>1, <2>2 DEF Ordered
  <2> QED BY <1>2, <2>2, <2>4 DEF Ordered, storeVars
<1>7. SoloInv'
  <2>1. SUFFICES ASSUME NEW d \in Readers, d \notin disturbed
                 PROVE  Undisturbed(d)'
    BY DEF SoloInv
  <2>2. CASE d = r
    BY <1>3, <2>1, <2>2 DEF Undisturbed, Missed, Present
  <2>3. CASE d # r
    <3>1. Undisturbed(d)
      BY <2>1 DEF Inv, SoloInv
    <3> QED BY <1>3, <2>3, <3>1 DEF Undisturbed, Present
  <2> QED BY <2>2, <2>3
<1> QED BY <1>4, <1>5, <1>6, <1>7 DEF Inv

\* Whoever is not renaming has no staging file.
LEMMA NoStaging ==
    ASSUME TypeOK, NEW r \in Readers,
           step[r] # "renaming" \/ <<r, object[r]>> \notin staged
    PROVE  \A e \in staged : e[1] # r
BY DEF TypeOK

\* What the versions are.
LEMMA Versions ==
    ASSUME Inv
    PROVE  /\ writes \in Nat /\ MaxWrites \in Nat /\ writes <= MaxWrites
           /\ \A o \in Objects : /\ backend[o] \in 0..writes + 1
                                 /\ cached[o] \in 0..writes + 1
                                 /\ seen[o] \in 0..writes + 1
           /\ \A r \in Readers : payload[r] \in 0..writes + 1
           /\ \A v \in 0..writes + 1 : v # 0 => v \in 1..MaxWrites + 1 /\ v \notin Failures
<1>1. writes \in Nat /\ MaxWrites \in Nat /\ writes <= MaxWrites
  BY SizesAssumption DEF Inv, TypeOK
<1>2. \A o \in Objects : /\ backend[o] \in 0..writes + 1
                         /\ cached[o] \in 0..writes + 1
                         /\ seen[o] \in 0..writes + 1
  BY DEF Inv, VersionsOK
<1>3. \A r \in Readers : payload[r] \in 0..writes + 1
  BY <1>1 DEF Inv, TypeOK, VersionsOK
<1>4. \A v \in 0..writes + 1 : v # 0 => v \in 1..MaxWrites + 1 /\ v \notin Failures
  BY <1>1, OutcomesAssumption DEF Failures
<1> QED BY <1>1, <1>2, <1>3, <1>4

\* The cache has the object, and the read is over; or the reader has missed it.
LEMMA LookStep ==
    ASSUME Inv, NEW r \in Readers, NEW o \in Objects, NEW size \in RequestSizes,
           Look(r, o, size)
    PROVE  Inv'
<1>0. step[r] = "idle" /\ UNCHANGED storeVars /\ UNCHANGED <<cached, directory, staged>>
  BY DEF Look
<1>1. \A e \in staged : e[1] # r
  BY <1>0, NoStaging DEF Inv
<1>2. CASE cached[o] # 0
  <2>1. Finish(r, o, cached[o])
    BY <1>2 DEF Look
  <2>2. cached[o] \in 1..MaxWrites + 1 /\ cached[o] <= writes + 1 /\ cached[o] \in Nat
    BY <1>2, Versions
  <2>3. o \notin crossed => (backend[o] # 0 => cached[o] <= backend[o])
    BY DEF Inv, OrderInv, Ordered
  <2> QED BY <1>0, <1>1, <2>1, <2>2, <2>3, FinishStep
<1>3. CASE cached[o] = 0
  <2> DEFINE next == IF MinObjectSize <= size THEN "missed" ELSE "direct"
  <2>1. /\ GoOn(r, next) /\ object' = [object EXCEPT ![r] = o]
        /\ UNCHANGED <<payload, listed, disturbed>>
    BY <1>3 DEF Look
  <2>2. next \in Missed \ {"renaming"} /\ next \in {"missed", "direct"}
    BY DEF Missed
  <2>3. payload[r] = 0
    BY <1>0 DEF Inv, VersionsOK
  <2>4. payload' = [payload EXCEPT ![r] = payload[r]] /\ listed' = [listed EXCEPT ![r] = listed[r]]
    BY <2>1 DEF Inv, TypeOK
  <2>5. payload[r] \in 0..writes + 1 /\ listed[r] \in SUBSET Entries
    BY Versions DEF Inv, TypeOK
  <2> HIDE DEF next
  <2> QED BY ZenonT(60), <1>0, <1>1, <1>3, <2>1, <2>2, <2>3, <2>4, <2>5, QuietStep
<1> QED BY <1>2, <1>3

\* What a reader that is under way reads.
LEMMA Reading ==
    ASSUME Inv, NEW r \in Readers, step[r] # "idle"
    PROVE  /\ object[r] \in Objects
           /\ object = [object EXCEPT ![r] = object[r]]
           /\ payload = [payload EXCEPT ![r] = payload[r]]
           /\ listed = [listed EXCEPT ![r] = listed[r]]
           /\ listed[r] \in SUBSET Entries
           /\ step[r] \notin {"putting", "renaming"} => payload[r] = 0
           /\ object[r] \notin crossed => Ordered(object[r])
           /\ r \notin disturbed => Undisturbed(r)
<1>1. object[r] \in Objects /\ (step[r] \notin {"putting", "renaming"} => payload[r] = 0)
  BY DEF Inv, VersionsOK
<1>2. /\ object = [object EXCEPT ![r] = object[r]]
      /\ payload = [payload EXCEPT ![r] = payload[r]]
      /\ listed = [listed EXCEPT ![r] = listed[r]]
      /\ listed[r] \in SUBSET Entries
  BY DEF Inv, TypeOK
<1>3. /\ object[r] \notin crossed => Ordered(object[r])
      /\ r \notin disturbed => Undisturbed(r)
  BY <1>1 DEF Inv, OrderInv, SoloInv
<1> QED BY <1>1, <1>2, <1>3

\* A failure ends a read without a trace.
LEMMA FailStep ==
    ASSUME Inv, NEW r \in Readers, step[r] # "idle", NEW outcome \in Failures,
           Finish(r, object[r], outcome),
           UNCHANGED storeVars, UNCHANGED <<cached, directory, staged>>,
           step[r] # "renaming" \/ <<r, object[r]>> \notin staged
    PROVE  Inv'
<1>1. \A e \in staged : e[1] # r
  BY NoStaging DEF Inv
<1>2. object[r] \in Objects /\ outcome \in (1..MaxWrites + 1) \cup Failures
  BY Reading
<1> HIDE DEF Failures
<1> QED BY <1>1, <1>2, FinishStep

\* A small read answers with the backend's version, or finds none.
LEMMA DirectStep ==
    ASSUME Inv, NEW r \in Readers, Direct(r)
    PROVE  Inv'
<1> DEFINE o == object[r]
<1>0. step[r] = "direct" /\ UNCHANGED storeVars /\ UNCHANGED <<cached, directory, staged>>
  BY DEF Direct
<1>1. CASE backend[o] = 0
  <2>1. Finish(r, o, NotFound) /\ NotFound \in Failures
    BY <1>1 DEF Direct, Failures
  <2> QED BY <1>0, <2>1, FailStep
<1>2. CASE backend[o] # 0
  <2>1. Finish(r, o, backend[o])
    BY <1>2 DEF Direct
  <2>2. o \in Objects /\ (o \notin crossed => Ordered(o))
    BY <1>0, Reading
  <2>3. backend[o] \in 1..MaxWrites + 1 /\ backend[o] <= writes + 1 /\ backend[o] \in Nat
    BY <1>2, <2>2, Versions
  <2>4. o \notin crossed => cached[o] \in {0, backend[o]}
    BY <1>0, <2>2 DEF Ordered, Missed
  <2>5. \A e \in staged : e[1] # r
    BY <1>0, NoStaging DEF Inv
  <2> HIDE DEF o
  <2>6. o \notin crossed => /\ cached[o] # 0 => backend[o] <= cached[o]
                            /\ backend[o] # 0 => backend[o] <= backend[o]
    BY <2>3, <2>4
  <2> QED BY <1>0, <2>1, <2>2, <2>3, <2>5, <2>6, FinishStep
<1> QED BY <1>1, <1>2

\* The cache is listed as it is.
LEMMA ListStep ==
    ASSUME Inv, NEW r \in Readers, List(r)
    PROVE  Inv'
<1>0. /\ step[r] = "missed" /\ GoOn(r, "listed") /\ listed' = [listed EXCEPT ![r] = Present]
      /\ UNCHANGED storeVars /\ UNCHANGED <<cached, directory, staged, disturbed>>
      /\ UNCHANGED <<object, payload>>
  BY DEF List
<1>1. /\ object[r] \in Objects /\ object' = [object EXCEPT ![r] = object[r]]
      /\ payload' = [payload EXCEPT ![r] = payload[r]] /\ payload[r] = 0
      /\ object[r] \notin crossed => Ordered(object[r])
  BY <1>0, Reading
<1>2. \A e \in staged : e[1] # r
  BY <1>0, NoStaging DEF Inv
<1>3. Present \in SUBSET Entries
  BY DEF Present, Entries, Inv, TypeOK
<1>4. object[r] \notin crossed => cached[object[r]] \in {0, backend[object[r]]}
  BY <1>0, <1>1 DEF Ordered, Missed
<1>5. payload[r] \in 0..writes + 1 /\ "listed" \in Missed \ {"renaming"}
  BY Versions DEF Missed
<1>6. /\ "listed" = "putting" <=> payload[r] # 0
      /\ Present \in SUBSET Entries
      /\ "listed" \in {"listed", "shrinking"} /\ r \notin disturbed => Present \subseteq Present
      /\ object[r] \notin crossed =>
            cached[object[r]] \in {0, backend[object[r]]} /\ payload[r] \in {0, backend[object[r]]}
  BY <1>1, <1>3, <1>4
<1> DEFINE next == "listed"
<1>7. /\ GoOn(r, next) /\ next \in Missed \ {"renaming"}
      /\ next = "putting" <=> payload[r] # 0
      /\ next \in {"listed", "shrinking"} /\ r \notin disturbed => Present \subseteq Present
  BY <1>0, <1>5, <1>6
<1> HIDE DEF next
<1> HIDE DEF Present
<1> QED BY ZenonT(60), <1>0, <1>1, <1>2, <1>3, <1>5, <1>6, <1>7, QuietStep

\* Every entry is still there, or the read fails.
LEMMA StatStep ==
    ASSUME Inv, NEW r \in Readers, Stat(r)
    PROVE  Inv'
<1>0. /\ step[r] = "listed" /\ UNCHANGED storeVars /\ UNCHANGED <<cached, directory, staged>>
  BY DEF Stat
<1>1. CASE listed[r] \subseteq Present
  <2>0. GoOn(r, "shrinking") /\ UNCHANGED <<object, payload, listed, disturbed>>
    BY <1>1 DEF Stat
  <2>1. /\ object[r] \in Objects /\ object' = [object EXCEPT ![r] = object[r]]
        /\ payload' = [payload EXCEPT ![r] = payload[r]] /\ payload[r] = 0
        /\ listed' = [listed EXCEPT ![r] = listed[r]] /\ listed[r] \in SUBSET Entries
        /\ object[r] \notin crossed => Ordered(object[r])
    BY <1>0, <2>0, Reading
  <2>2. \A e \in staged : e[1] # r
    BY <1>0, NoStaging DEF Inv
  <2>4. object[r] \notin crossed => cached[object[r]] \in {0, backend[object[r]]}
    BY <1>0, <2>1 DEF Ordered, Missed
  <2>5. payload[r] \in 0..writes + 1 /\ "shrinking" \in Missed \ {"renaming"}
    BY Versions DEF Missed
  <2>6. object[r] \notin crossed => cached[object[r]] \in {0, backend[object[r]]} /\ payload[r] \in {0, backend[object[r]]}
    BY <2>1, <2>4
  <2> DEFINE next == "shrinking"
  <2>7. /\ GoOn(r, next) /\ next \in Missed \ {"renaming"}
        /\ next = "putting" <=> payload[r] # 0
        /\ next \in {"listed", "shrinking"} /\ r \notin disturbed => listed[r] \subseteq Present
    BY <1>0, <1>1, <2>0, <2>1, <2>5
  <2> DEFINE o == object[r]
              v == payload[r]
              L == listed[r]
  <2>8. /\ o \in Objects /\ object' = [object EXCEPT ![r] = o]
        /\ v \in 0..writes + 1 /\ payload' = [payload EXCEPT ![r] = v]
        /\ L \in SUBSET Entries /\ listed' = [listed EXCEPT ![r] = L]
        /\ next = "putting" <=> v # 0
        /\ next \in {"listed", "shrinking"} /\ r \notin disturbed => L \subseteq Present
        /\ o \notin crossed => cached[o] \in {0, backend[o]} /\ v \in {0, backend[o]}
        /\ UNCHANGED disturbed
    BY <2>0, <2>1, <2>5, <2>6, <2>7
  <2> HIDE DEF next, o, v, L
  <2> QED BY <1>0, <2>2, <2>7, <2>8, QuietStep
<1>2. CASE ~(listed[r] \subseteq Present)
  <2>1. Finish(r, object[r], Error) /\ Error \in Failures
    BY <1>2 DEF Stat, Failures
  <2> QED BY <1>0, <2>1, FailStep
<1> QED BY <1>1, <1>2

\* The cache is small enough.
LEMMA ShrunkStep ==
    ASSUME Inv, NEW r \in Readers, Shrunk(r)
    PROVE  Inv'
<1>0. /\ step[r] = "shrinking" /\ GoOn(r, "fetching") /\ listed' = [listed EXCEPT ![r] = {}]
      /\ UNCHANGED storeVars /\ UNCHANGED <<cached, directory, staged, disturbed>>
      /\ UNCHANGED <<object, payload>>
  BY DEF Shrunk
<1>1. /\ object[r] \in Objects /\ object' = [object EXCEPT ![r] = object[r]]
      /\ payload' = [payload EXCEPT ![r] = payload[r]] /\ payload[r] = 0
      /\ object[r] \notin crossed => Ordered(object[r])
  BY <1>0, Reading
<1>2. \A e \in staged : e[1] # r
  BY <1>0, NoStaging DEF Inv
<1>4. object[r] \notin crossed => cached[object[r]] \in {0, backend[object[r]]}
  BY <1>0, <1>1 DEF Ordered, Missed
<1>5. payload[r] \in 0..writes + 1 /\ "fetching" \in Missed \ {"renaming"}
  BY Versions DEF Missed
<1>6. /\ "fetching" = "putting" <=> payload[r] # 0
      /\ {} \in SUBSET Entries
      /\ "fetching" \in {"listed", "shrinking"} /\ r \notin disturbed => {} \subseteq Present
      /\ object[r] \notin crossed =>
            cached[object[r]] \in {0, backend[object[r]]} /\ payload[r] \in {0, backend[object[r]]}
  BY <1>1, <1>4
<1> DEFINE next == "fetching"
<1>7. /\ GoOn(r, next) /\ next \in Missed \ {"renaming"}
      /\ next = "putting" <=> payload[r] # 0
      /\ next \in {"listed", "shrinking"} /\ r \notin disturbed => {} \subseteq Present
  BY <1>0, <1>5, <1>6
<1> HIDE DEF next
<1> QED BY ZenonT(60), <1>0, <1>1, <1>2, <1>5, <1>6, <1>7, QuietStep

\* The backend's version is fetched, or there is none.
LEMMA FetchStep ==
    ASSUME Inv, NEW r \in Readers, Fetch(r)
    PROVE  Inv'
<1> DEFINE o == object[r]
<1>0. step[r] = "fetching" /\ UNCHANGED storeVars /\ UNCHANGED <<cached, directory, staged>>
  BY DEF Fetch
<1>1. CASE backend[o] = 0
  <2>1. Finish(r, o, NotFound) /\ NotFound \in Failures
    BY <1>1 DEF Fetch, Failures
  <2> QED BY <1>0, <2>1, FailStep
<1>2. CASE backend[o] # 0
  <2>0. /\ GoOn(r, "putting") /\ payload' = [payload EXCEPT ![r] = backend[o]]
        /\ UNCHANGED <<object, listed, disturbed>>
    BY <1>2 DEF Fetch
  <2>1. /\ o \in Objects /\ object' = [object EXCEPT ![r] = o]
        /\ listed' = [listed EXCEPT ![r] = listed[r]] /\ listed[r] \in SUBSET Entries
        /\ o \notin crossed => Ordered(o)
    BY <1>0, <2>0, Reading
  <2>2. \A e \in staged : e[1] # r
    BY <1>0, NoStaging DEF Inv
  <2>4. o \notin crossed => cached[o] \in {0, backend[o]}
    BY <1>0, <2>1 DEF Ordered, Missed
  <2>5. backend[o] \in 0..writes + 1 /\ "putting" \in Missed \ {"renaming"}
    BY <2>1, Versions DEF Missed
  <2>6. o \notin crossed => cached[o] \in {0, backend[o]} /\ backend[o] \in {0, backend[o]}
    BY <2>1, <2>4
  <2> DEFINE next == "putting"
  <2>7. /\ GoOn(r, next) /\ next \in Missed \ {"renaming"}
        /\ next = "putting" <=> backend[o] # 0
        /\ next \in {"listed", "shrinking"} /\ r \notin disturbed => listed[r] \subseteq Present
    BY <1>0, <1>2, <2>0, <2>1, <2>5
  <2> DEFINE v == backend[o]
              L == listed[r]
  <2>8. /\ o \in Objects /\ object' = [object EXCEPT ![r] = o]
        /\ v \in 0..writes + 1 /\ payload' = [payload EXCEPT ![r] = v]
        /\ L \in SUBSET Entries /\ listed' = [listed EXCEPT ![r] = L]
        /\ next = "putting" <=> v # 0
        /\ next \in {"listed", "shrinking"} /\ r \notin disturbed => L \subseteq Present
        /\ o \notin crossed => cached[o] \in {0, backend[o]} /\ v \in {0, backend[o]}
        /\ UNCHANGED disturbed
    BY <2>0, <2>1, <2>5, <2>6, <2>7
  <2> HIDE DEF next, o, v, L
  <2> QED BY <1>0, <2>2, <2>7, <2>8, QuietStep
<1> QED BY <1>1, <1>2

\* A read from the cache answers with what the cache has, or finds nothing.
LEMMA ReadStep ==
    ASSUME Inv, NEW r \in Readers, Read(r)
    PROVE  Inv'
<1> DEFINE o == object[r]
<1>0. step[r] = "reading" /\ UNCHANGED storeVars /\ UNCHANGED <<cached, directory, staged>>
  BY DEF Read
<1>1. CASE cached[o] = 0
  <2>1. Finish(r, o, NotFound) /\ NotFound \in Failures
    BY <1>1 DEF Read, Failures
  <2> QED BY <1>0, <2>1, FailStep
<1>2. CASE cached[o] # 0
  <2>1. Finish(r, o, cached[o])
    BY <1>2 DEF Read
  <2>2. o \in Objects /\ (o \notin crossed => Ordered(o))
    BY <1>0, Reading
  <2>3. cached[o] \in 1..MaxWrites + 1 /\ cached[o] <= writes + 1 /\ cached[o] \in Nat
    BY <1>2, <2>2, Versions
  <2>4. o \notin crossed => (backend[o] # 0 => cached[o] <= backend[o])
    BY <2>2 DEF Ordered
  <2>5. \A e \in staged : e[1] # r
    BY <1>0, NoStaging DEF Inv
  <2> HIDE DEF o
  <2> QED BY <1>0, <2>1, <2>2, <2>3, <2>4, <2>5, FinishStep
<1> QED BY <1>1, <1>2

\* An entry that is removed is missed by the others only.
LEMMA EvictStep ==
    ASSUME Inv, NEW r \in Readers, NEW e \in Entries, Evict(r, e)
    PROVE  Inv'
<1>0. /\ step[r] = "shrinking" /\ UNCHANGED storeVars /\ UNCHANGED directory
      /\ e \in listed[r]
  BY DEF Evict, Poppable
<1>1. CASE e \in Present \ {Directory}
  <2>0. /\ GoOn(r, "shrinking")
        /\ cached' = [o \in Objects |-> IF o = e THEN 0 ELSE cached[o]]
        /\ staged' = staged \ {e}
        /\ listed' = [listed EXCEPT ![r] = @ \ {e}]
        /\ disturbed' = disturbed \cup Others(r)
        /\ UNCHANGED <<object, payload>>
    BY <1>1 DEF Evict
  <2>1. UNCHANGED <<step, seen>> /\ last' = None
    BY <1>0, <2>0 DEF GoOn, Inv, TypeOK
  <2>2. \A o \in Objects : cached'[o] \in {0, cached[o]}
    BY <2>0
  <2>3. TypeOK'
    <3>1. cached' \in [Objects -> 0..MaxWrites + 1]
      BY <2>0, Versions DEF Inv, TypeOK
    <3>2. listed' \in [Readers -> SUBSET Entries]
      BY <2>0 DEF Inv, TypeOK
    <3>3. staged' \subseteq {d \in Readers \X Objects : step'[d[1]] = "renaming" /\ object'[d[1]] = d[2]}
      BY <2>0, <2>1 DEF Inv, TypeOK
    <3> QED BY <1>0, <2>0, <2>1, <3>1, <3>2, <3>3 DEF Inv, TypeOK, storeVars
  <2>4. VersionsOK'
    <3>1. \A o \in Objects : {backend[o], cached'[o], seen[o]} \subseteq 0..writes + 1
      BY <2>2, Versions
    <3> QED BY <1>0, <2>0, <2>1, <3>1 DEF Inv, VersionsOK, storeVars
  <2>5. OrderInv'
    <3>1. SUFFICES ASSUME NEW p \in Objects, p \notin crossed
                   PROVE  Ordered(p)'
      BY <1>0 DEF OrderInv, storeVars
    <3>2. Ordered(p)
      BY <3>1 DEF Inv, OrderInv
    <3>3. seen[p] \in Nat /\ cached[p] \in Nat /\ backend[p] \in Nat
      BY Versions
    <3> QED BY <1>0, <2>0, <2>1, <2>2, <3>2, <3>3 DEF Ordered, storeVars
  <2>6. SoloInv'
    <3>1. SUFFICES ASSUME NEW d \in Readers, d \notin disturbed'
                   PROVE  Undisturbed(d)'
      BY DEF SoloInv
    <3>2. CASE d # r
      <4>1. step'[d] = "idle"
        BY <2>0, <2>1, <3>1, <3>2 DEF Others
      <4> QED BY <4>1 DEF Undisturbed
    <3>3. CASE d = r
      <4>1. Undisturbed(r)
        BY <2>0, <3>1, <3>3 DEF Inv, SoloInv
      <4>2. listed[r] \subseteq Present
        BY <1>0, <4>1 DEF Undisturbed
      <4>3. Present' = Present \ {e}
        BY <1>0, <1>1, <2>0 DEF Present
      <4>4. listed'[r] = listed[r] \ {e}
        BY <2>0 DEF Inv, TypeOK
      <4>5. step'[r] = "shrinking"
        BY <1>0, <2>1
      <4> QED BY <3>3, <4>2, <4>3, <4>4, <4>5 DEF Undisturbed
    <3> QED BY <3>2, <3>3
  <2> QED BY <2>3, <2>4, <2>5, <2>6 DEF Inv
<1>2. CASE e \notin Present \ {Directory}
  <2>1. Finish(r, object[r], Error) /\ Error \in Failures /\ UNCHANGED <<cached, staged>>
    BY <1>2 DEF Evict, Failures
  <2> QED BY <1>0, <2>1, FailStep
<1> QED BY <1>1, <1>2

\* Staging adds a file of the reader's own.
LEMMA StageStep ==
    ASSUME Inv, NEW r \in Readers, Stage(r)
    PROVE  Inv'
<1>0. /\ step[r] = "putting" /\ GoOn(r, "renaming") /\ directory' = TRUE
      /\ staged' = staged \cup {<<r, object[r]>>}
      /\ UNCHANGED storeVars
      /\ UNCHANGED <<cached, object, listed, payload, disturbed>>
  BY DEF Stage
<1>1. step' = [step EXCEPT ![r] = "renaming"] /\ seen' = seen /\ last' = None
  BY <1>0 DEF GoOn
<1>2. step'[r] = "renaming" /\ \A d \in Readers \ {r} : step'[d] = step[d]
  BY <1>1 DEF Inv, TypeOK
<1>3. object[r] \in Objects
  BY <1>0, Reading
<1>4. TypeOK'
  <2>1. staged' \subseteq {d \in Readers \X Objects : step'[d[1]] = "renaming" /\ object'[d[1]] = d[2]}
    BY <1>0, <1>2, <1>3 DEF Inv, TypeOK
  <2>2. step' \in [Readers -> Missed \cup {"idle", "reading"}]
    BY <1>1 DEF Inv, TypeOK, Missed
  <2> QED BY <1>0, <1>1, <2>1, <2>2 DEF Inv, TypeOK, storeVars
<1>5. VersionsOK'
  BY <1>0, <1>1, <1>2, <1>3 DEF Inv, VersionsOK, storeVars
<1>6. OrderInv'
  <2>1. SUFFICES ASSUME NEW p \in Objects, p \notin crossed
                 PROVE  Ordered(p)'
    BY <1>0 DEF OrderInv, storeVars
  <2>2. Ordered(p)
    BY <2>1 DEF Inv, OrderInv
  <2>3. \A d \in Readers : step'[d] \in Missed => step[d] \in Missed
    BY <1>0, <1>2 DEF Missed
  <2> QED BY <1>0, <1>1, <2>2, <2>3 DEF Ordered, storeVars
<1>7. SoloInv'
  <2>1. SUFFICES ASSUME NEW d \in Readers, d \notin disturbed
                 PROVE  Undisturbed(d)'
    BY <1>0 DEF SoloInv
  <2>2. Undisturbed(d)
    BY <2>1 DEF Inv, SoloInv
  <2>3. Present \subseteq Present'
    BY <1>0 DEF Present
  <2>4. CASE d = r
    BY <1>0, <1>2, <2>4 DEF Undisturbed
  <2>5. CASE d # r
    BY <1>0, <1>2, <2>2, <2>3, <2>5 DEF Undisturbed
  <2> QED BY <2>4, <2>5
<1> QED BY <1>4, <1>5, <1>6, <1>7 DEF Inv

\* The staging file becomes the object in the cache.
LEMMA RenameStagedStep ==
    ASSUME Inv, NEW r \in Readers, RenameStaged(r)
    PROVE  Inv'
<1> DEFINE o == object[r]
<1>0. step[r] = "renaming" /\ UNCHANGED storeVars /\ UNCHANGED directory
  BY DEF RenameStaged
<1>1. CASE <<r, o>> \notin staged
  <2>1. Finish(r, o, Error) /\ Error \in Failures /\ UNCHANGED <<cached, staged>>
    BY <1>1 DEF RenameStaged, Failures
  <2> QED BY <1>0, <1>1, <2>1, FailStep
<1>2. CASE <<r, o>> \in staged
  <2>0. /\ GoOn(r, "reading")
        /\ cached' = [cached EXCEPT ![o] = payload[r]]
        /\ staged' = staged \ {<<r, o>>}
        /\ payload' = [payload EXCEPT ![r] = 0]
        /\ disturbed' = disturbed \cup Others(r)
        /\ UNCHANGED <<object, listed>>
    BY <1>2 DEF RenameStaged
  <2>1. step' = [step EXCEPT ![r] = "reading"] /\ seen' = seen /\ last' = None
    BY <2>0 DEF GoOn
  <2>2. /\ step'[r] = "reading" /\ payload'[r] = 0
        /\ \A d \in Readers \ {r} : step'[d] = step[d] /\ payload'[d] = payload[d]
    BY <2>0, <2>1 DEF Inv, TypeOK
  <2>3. o \in Objects /\ (o \notin crossed => Ordered(o))
    BY <1>0, Reading
  <2>4. payload[r] \in 0..writes + 1 /\ payload[r] # 0
    BY <1>0, Versions DEF Inv, VersionsOK
  <2>5. cached'[o] = payload[r] /\ \A p \in Objects \ {o} : cached'[p] = cached[p]
    BY <2>0, <2>3 DEF Inv, TypeOK
  <2>6. TypeOK'
    <3>1. cached' \in [Objects -> 0..MaxWrites + 1] /\ payload' \in [Readers -> 0..MaxWrites + 1]
      <4>1. /\ cached \in [Objects -> 0..MaxWrites + 1] /\ payload \in [Readers -> 0..MaxWrites + 1]
            /\ payload[r] \in 0..MaxWrites + 1 /\ 0 \in 0..MaxWrites + 1
        BY <2>4, Versions DEF Inv, TypeOK
      <4> QED BY <2>0, <4>1
    <3>2. step' \in [Readers -> Missed \cup {"idle", "reading"}]
      BY <2>1 DEF Inv, TypeOK
    <3>3. staged' \subseteq {d \in Readers \X Objects : step'[d[1]] = "renaming" /\ object'[d[1]] = d[2]}
      <4>1. \A d \in staged : d[1] = r => d = <<r, o>>
        BY DEF Inv, TypeOK
      <4> QED BY <2>0, <2>2, <4>1 DEF Inv, TypeOK
    <3> QED BY <1>0, <2>0, <2>1, <3>1, <3>2, <3>3 DEF Inv, TypeOK, storeVars
  <2>7. VersionsOK'
    <3>1. \A p \in Objects : {backend[p], cached'[p], seen[p]} \subseteq 0..writes + 1
      BY <2>4, <2>5, Versions
    <3>2. ASSUME NEW d \in Readers
          PROVE  /\ payload'[d] <= writes + 1
                 /\ step'[d] # "idle" => object[d] \in Objects
                 /\ step'[d] \in {"putting", "renaming"} <=> payload'[d] # 0
      BY <2>2, <2>3, Versions DEF Inv, VersionsOK
    <3> QED BY <1>0, <2>0, <2>1, <3>1, <3>2 DEF VersionsOK, storeVars
  <2>8. OrderInv'
    <3>1. SUFFICES ASSUME NEW p \in Objects, p \notin crossed
                   PROVE  Ordered(p)'
      BY <1>0 DEF OrderInv, storeVars
    <3>2. Ordered(p)
      BY <3>1 DEF Inv, OrderInv
    <3>3. \A d \in Readers : step'[d] \in Missed => d # r /\ step[d] \in Missed
      BY <2>2 DEF Missed
    <3>4. CASE p # o
      <4>1. cached'[p] = cached[p]
        BY <2>5, <3>4
      <4> QED BY <1>0, <2>0, <2>1, <2>2, <3>2, <3>3, <4>1 DEF Ordered, storeVars
    <3>5. CASE p = o
      <4>1. cached'[p] = backend[p] /\ backend[p] # 0
        BY <1>0, <2>4, <2>5, <3>2, <3>5 DEF Ordered, Missed
      <4>2. backend[p] \in Nat
        BY Versions
      <4> QED BY <1>0, <2>0, <2>1, <2>2, <3>2, <3>3, <4>1, <4>2 DEF Ordered, storeVars
    <3> QED BY <3>4, <3>5
  <2>9. SoloInv'
    <3>1. SUFFICES ASSUME NEW d \in Readers, d \notin disturbed'
                   PROVE  Undisturbed(d)'
      BY DEF SoloInv
    <3>2. CASE d # r
      <4>1. step'[d] = "idle"
        BY <2>0, <2>2, <3>1, <3>2 DEF Others
      <4> QED BY <4>1 DEF Undisturbed
    <3>3. CASE d = r
      BY <2>0, <2>2, <2>4, <2>5, <3>3 DEF Undisturbed
    <3> QED BY <3>2, <3>3
  <2> QED BY <2>6, <2>7, <2>8, <2>9 DEF Inv
<1> QED BY <1>1, <1>2

----------------------------------------------------------------------------

\* Before the first read the cache is empty and every object has version 1.
LEMMA InvInit == Init => Inv
<1> SUFFICES ASSUME Init
             PROVE  Inv
  OBVIOUS
<1>1. MaxWrites \in Nat
  BY SizesAssumption
<1>2. TypeOK
  <2>1. 0 \in 0..MaxWrites + 1 /\ 1 \in 0..MaxWrites + 1 /\ 0 \in 0..MaxWrites
    BY <1>1
  <2>2. /\ backend \in [Objects -> 0..MaxWrites + 1]
        /\ cached \in [Objects -> 0..MaxWrites + 1]
        /\ seen \in [Objects -> 0..MaxWrites + 1]
        /\ payload \in [Readers -> 0..MaxWrites + 1]
    BY <2>1 DEF Init
  <2>3. /\ step \in [Readers -> Missed \cup {"idle", "reading"}]
        /\ object \in [Readers -> Objects \cup {None}]
        /\ listed \in [Readers -> SUBSET Entries]
    BY DEF Init
  <2> QED BY <2>1, <2>2, <2>3 DEF Init, TypeOK
<1>3. VersionsOK
  BY <1>1 DEF Init, VersionsOK
<1>4. OrderInv
  BY DEF Init, OrderInv, Ordered, Missed
<1>5. SoloInv
  BY DEF Init, SoloInv, Undisturbed
<1> QED BY <1>2, <1>3, <1>4, <1>5 DEF Inv

\* Every step keeps the invariant.
LEMMA InvStep == Inv /\ [Next]_vars => Inv'
<1> SUFFICES ASSUME Inv, [Next]_vars
             PROVE  Inv'
  OBVIOUS
<1>1. ASSUME NEW o \in Objects, Put(o)
      PROVE  Inv'
  BY <1>1, PutStep
<1>2. ASSUME NEW o \in Objects, Delete(o)
      PROVE  Inv'
  BY <1>2, DeleteStep
<1>3. ASSUME NEW o \in Objects, NEW p \in Objects, Rename(o, p)
      PROVE  Inv'
  BY <1>3, RenameStep
<1>4. ASSUME NEW r \in Readers, NEW o \in Objects, NEW size \in RequestSizes, Look(r, o, size)
      PROVE  Inv'
  BY <1>4, LookStep
<1>5. ASSUME NEW r \in Readers, Work(r)
      PROVE  Inv'
  <2>1. ASSUME NEW e \in Entries, Evict(r, e)
        PROVE  Inv'
    BY <2>1, EvictStep
  <2> QED BY <1>5, <2>1, DirectStep, ListStep, StatStep, ShrunkStep, FetchStep, StageStep,
             RenameStagedStep, ReadStep DEF Work
<1>6. CASE UNCHANGED vars
  BY <1>6 DEF vars, Inv, TypeOK, VersionsOK, OrderInv, Ordered, SoloInv, Undisturbed, Present
<1> QED BY <1>1, <1>2, <1>3, <1>4, <1>5, <1>6 DEF Next

\* The inductive invariant holds in every state.
THEOREM Invariance == Spec => []Inv
BY InvInit, InvStep, PTL DEF Spec

\* Every version that the cache, the backend and the readers hold has been written,
\* and only a reader that renames has a staging file.
THEOREM TypeCorrect == Spec => []TypeOK
<1>1. Inv => TypeOK
  BY DEF Inv
<1> QED BY <1>1, Invariance, PTL

\* A read never goes back behind an earlier read of the object, unless the object
\* was written while a reader had missed it in the cache: readers share the cache
\* without a lock, and still only a write in that window can reorder versions.
THEOREM NoReadGoesBack == Spec => ReadsDoNotGoBack
<1> DEFINE Forward == last' = None \/ last'[2] \in Failures \/ last'[1] \in crossed
                      \/ last'[2] >= seen[last'[1]]
<1>1. ASSUME Inv, [Next]_vars
      PROVE  [Forward]_vars
  <2>0. SUFFICES ASSUME Next
                 PROVE  Forward
    BY <1>1
  <2>1. ASSUME NEW r \in Readers, NEW o \in Objects, NEW outcome, Finish(r, o, outcome),
               outcome \notin Failures => o \in crossed \/ outcome >= seen[o]
        PROVE  Forward
    BY <2>1 DEF Finish
  <2>2. ASSUME NEW r \in Readers, NEW next, GoOn(r, next)
        PROVE  Forward
    BY <2>2 DEF GoOn
  <2>3. ASSUME NEW o \in Objects, Put(o) \/ Delete(o)
        PROVE  Forward
    BY <2>3 DEF Put, Delete
  <2>4. ASSUME NEW o \in Objects, NEW p \in Objects, Rename(o, p)
        PROVE  Forward
    BY <2>4 DEF Rename
  <2>5. \A o \in Objects \ crossed : Ordered(o)
    BY <1>1 DEF Inv, OrderInv
  <2>6. \A o \in Objects : cached[o] \in Nat /\ backend[o] \in Nat /\ seen[o] \in Nat
    BY <1>1, Versions
  <2>7. ASSUME NEW r \in Readers, step[r] # "idle"
        PROVE  object[r] \in Objects
    BY <1>1, <2>7, Reading
  <2> HIDE DEF Forward
  <2>8. ASSUME NEW r \in Readers, NEW o \in Objects, NEW size \in RequestSizes, Look(r, o, size)
        PROVE  Forward
    <3>1. CASE cached[o] = 0
      BY <2>2, <2>8, <3>1 DEF Look
    <3>2. CASE cached[o] # 0
      <4>1. Finish(r, o, cached[o])
        BY <2>8, <3>2 DEF Look
      <4>2. o \in crossed \/ cached[o] >= seen[o]
        BY <2>5, <2>6, <3>2 DEF Ordered
      <4> QED BY <2>1, <4>1, <4>2
    <3> QED BY <3>1, <3>2
  <2>9. ASSUME NEW r \in Readers, Work(r)
        PROVE  Forward
    <3>0. NotFound \in Failures /\ Error \in Failures
      BY DEF Failures
    <3>1. CASE Direct(r)
      <4>1. object[r] \in Objects
        BY <2>7, <3>1 DEF Direct
      <4>2. CASE backend[object[r]] = 0
        BY <2>1, <3>0, <3>1, <4>1, <4>2 DEF Direct
      <4>3. CASE backend[object[r]] # 0
        <5>1. Finish(r, object[r], backend[object[r]])
          BY <3>1, <4>3 DEF Direct
        <5>2. object[r] \in crossed \/ backend[object[r]] >= seen[object[r]]
          BY <2>5, <2>6, <4>1, <4>3 DEF Ordered
        <5> QED BY <2>1, <4>1, <5>1, <5>2
      <4> QED BY <4>2, <4>3
    <3>2. CASE Read(r)
      <4>1. object[r] \in Objects
        BY <2>7, <3>2 DEF Read
      <4>2. CASE cached[object[r]] = 0
        BY <2>1, <3>0, <3>2, <4>1, <4>2 DEF Read
      <4>3. CASE cached[object[r]] # 0
        <5>1. Finish(r, object[r], cached[object[r]])
          BY <3>2, <4>3 DEF Read
        <5>2. object[r] \in crossed \/ cached[object[r]] >= seen[object[r]]
          BY <2>5, <2>6, <4>1, <4>3 DEF Ordered
        <5> QED BY <2>1, <4>1, <5>1, <5>2
      <4> QED BY <4>2, <4>3
    <3>3. CASE List(r) \/ Shrunk(r) \/ Stage(r)
      BY <2>2, <3>3 DEF List, Shrunk, Stage
    <3>4. CASE Stat(r)
      <4>1. object[r] \in Objects
        BY <2>7, <3>4 DEF Stat
      <4> QED BY <2>1, <2>2, <3>0, <3>4, <4>1 DEF Stat
    <3>5. ASSUME NEW e \in Entries, Evict(r, e)
          PROVE  Forward
      <4>1. object[r] \in Objects
        BY <2>7, <3>5 DEF Evict
      <4> QED BY <2>1, <2>2, <3>0, <3>5, <4>1 DEF Evict
    <3>6. CASE Fetch(r)
      <4>1. object[r] \in Objects
        BY <2>7, <3>6 DEF Fetch
      <4> QED BY <2>1, <2>2, <3>0, <3>6, <4>1 DEF Fetch
    <3>7. CASE RenameStaged(r)
      <4>1. object[r] \in Objects
        BY <2>7, <3>7 DEF RenameStaged
      <4> QED BY <2>1, <2>2, <3>0, <3>7, <4>1 DEF RenameStaged
    <3> QED BY <2>9, <3>1, <3>2, <3>3, <3>4, <3>5, <3>6, <3>7 DEF Work
  <2> QED BY <2>0, <2>3, <2>4, <2>8, <2>9 DEF Next
<1> QED BY <1>1, Invariance, PTL DEF Spec, ReadsDoNotGoBack

\* A read of an object that exists fails only when another reader has changed the
\* cache meanwhile, or when shrinking comes upon the cache's own directory.
THEOREM SoloReads == Spec => SoloReadsSucceed
<1> DEFINE Excused(r) == \/ r \in disturbed
                         \/ backend[object[r]] = 0 /\ last'[2] = NotFound
                         \/ step[r] = "shrinking" /\ Directory \in Poppable(listed[r])
           Fine == \A r \in Readers :
                      step[r] # "idle" /\ step'[r] = "idle" /\ last'[2] \in Failures => Excused(r)
<1>1. ASSUME Inv, [Next]_vars
      PROVE  [Fine]_vars
  <2>0. SUFFICES ASSUME Next, NEW r \in Readers, r \notin disturbed,
                        step[r] # "idle", step'[r] = "idle", last'[2] \in Failures
                 PROVE  Excused(r)
    BY <1>1
  <2>1. Undisturbed(r) /\ object[r] \in Objects
    BY <1>1, <2>0, Reading
  <2>2. \A o \in Objects : (cached[o] # 0 => cached[o] \notin Failures)
                           /\ (backend[o] # 0 => backend[o] \notin Failures)
    BY <1>1, Versions
  <2>3. \A d \in Readers : d # r => ~Work(d)
    <3>1. SUFFICES ASSUME NEW d \in Readers, d # r, Work(d)
                   PROVE  FALSE
      OBVIOUS
    <3>2. step'[r] = step[r]
      BY <1>1, <3>1 DEF Inv, TypeOK, Work, Direct, List, Stat, Evict, Shrunk, Fetch, Stage,
                        RenameStaged, Read, GoOn, Finish
    <3> QED BY <2>0, <3>2
  <2>4. ~\E d \in Readers, o \in Objects, size \in RequestSizes : Look(d, o, size)
    <3>1. SUFFICES ASSUME NEW d \in Readers, NEW o \in Objects, NEW size \in RequestSizes,
                          Look(d, o, size)
                   PROVE  FALSE
      OBVIOUS
    <3>2. d # r
      BY <2>0, <3>1 DEF Look
    <3>3. step'[r] = step[r]
      BY <1>1, <3>1, <3>2 DEF Inv, TypeOK, Look, GoOn, Finish
    <3> QED BY <2>0, <3>3
  <2>5. ~\E o \in Objects : Put(o) \/ Delete(o)
    BY <2>0 DEF Put, Delete
  <2>6. ~\E o, p \in Objects : Rename(o, p)
    BY <2>0 DEF Rename
  <2>7. Work(r)
    BY <2>0, <2>3, <2>4, <2>5, <2>6 DEF Next
  <2>8. ASSUME NEW next, GoOn(r, next), next # "idle"
        PROVE  FALSE
    BY <1>1, <2>0, <2>8 DEF GoOn, Inv, TypeOK
  <2>9. ASSUME NEW outcome, Finish(r, object[r], outcome)
        PROVE  last'[2] = outcome /\ outcome \in Failures
    BY <2>0, <2>9 DEF Finish
  <2>10. CASE Direct(r)
    <3>1. backend[object[r]] = 0
      BY <2>1, <2>2, <2>9, <2>10 DEF Direct
    <3> QED BY <2>9, <2>10, <3>1 DEF Direct
  <2>11. CASE Read(r)
    <3>1. cached[object[r]] # 0
      BY <2>1, <2>11 DEF Undisturbed, Read
    <3>2. Finish(r, object[r], cached[object[r]])
      BY <2>11, <3>1 DEF Read
    <3> QED BY <2>1, <2>2, <2>9, <3>1, <3>2
  <2>12. CASE List(r) \/ Shrunk(r) \/ Stage(r)
    BY <2>8, <2>12 DEF List, Shrunk, Stage
  <2>13. CASE Stat(r)
    <3>1. listed[r] \subseteq Present
      BY <2>1, <2>13 DEF Undisturbed, Stat
    <3> QED BY <2>8, <2>13, <3>1 DEF Stat
  <2>14. ASSUME NEW e \in Entries, Evict(r, e)
         PROVE  Excused(r)
    <3>1. step[r] = "shrinking" /\ e \in Poppable(listed[r]) /\ e \in listed[r]
      BY <2>14 DEF Evict, Poppable
    <3>2. e \in Present
      BY <2>1, <3>1 DEF Undisturbed
    <3>3. ~(e \in Present \ {Directory})
      BY <2>8, <2>14 DEF Evict
    <3> QED BY <3>1, <3>2, <3>3
  <2>15. CASE Fetch(r)
    <3>1. backend[object[r]] = 0
      BY <2>8, <2>15 DEF Fetch
    <3> QED BY <2>9, <2>15, <3>1 DEF Fetch
  <2>16. CASE RenameStaged(r)
    <3>1. <<r, object[r]>> \in staged
      BY <2>1, <2>16 DEF Undisturbed, RenameStaged
    <3> QED BY <2>8, <2>16, <3>1 DEF RenameStaged
  <2> HIDE DEF Excused
  <2> QED BY <2>7, <2>10, <2>11, <2>12, <2>13, <2>14, <2>15, <2>16 DEF Work
<1> QED BY <1>1, Invariance, PTL DEF Spec, SoloReadsSucceed

----------------------------------------------------------------------------
(* Sizes of sets of entries. *)

\* There are finitely many entries, each with a length.
LEMMA EntriesFinite ==
    /\ IsFiniteSet(Entries)
    /\ \A e \in Entries : Length(e) \in Nat
<1>1. IsFiniteSet(Readers \X Objects)
  BY FiniteAssumption, FS_Product
<1>2. IsFiniteSet(Objects \cup (Readers \X Objects))
  BY <1>1, FiniteAssumption, FS_Union
<1>3. IsFiniteSet(Entries)
  BY <1>2, FS_AddElement DEF Entries
<1>4. \A e \in Entries : Length(e) \in Nat
  BY SizesAssumption DEF Entries, Length
<1> QED BY <1>3, <1>4

\* The total size is a sum over the entries.
LEMMA TotalSizeSums ==
    ASSUME NEW S \in SUBSET Entries, NEW g, g = [e \in S |-> Length(e)]
    PROVE  \E h : Sums(h, g, S) /\ TotalSize(S) = h[S]
<1> DEFINE Sized(h) == h = [s \in SUBSET S |->
                        IF s = {} THEN 0
                        ELSE Length(CHOOSE x \in s : TRUE) + h[s \ {CHOOSE x \in s : TRUE}]]
           h == CHOOSE h : Sized(h)
<1>1. IsFiniteSet(S)
  BY EntriesFinite, FS_Subset
<1>2. TotalSize(S) = h[S]
  BY DEF TotalSize, MapThenSumSet, MapThenFoldSet
<1>3. ASSUME NEW k
      PROVE  Sized(k) <=> Sums(k, g, S)
  <2>1. ASSUME NEW s \in SUBSET S, s # {}
        PROVE  g[Pick(s)] = Length(CHOOSE x \in s : TRUE)
    BY <2>1 DEF Pick
  <2> QED BY <2>1 DEF Sums, Pick
<1>4. \E k : Sized(k)
  <2> HIDE DEF Sized
  <2>1. PICK k : Sums(k, g, S)
    BY <1>1, SumsExist
  <2> QED BY <1>3, <2>1
<1>5. Sized(h)
  BY <1>4
<1> QED BY <1>2, <1>3, <1>5

\* An entry adds its length.
LEMMA TotalSizeAdds ==
    /\ TotalSize({}) = 0
    /\ \A s \in SUBSET Entries :
          /\ TotalSize(s) \in Nat
          /\ \A x \in Entries \ s : TotalSize(s \cup {x}) = Length(x) + TotalSize(s)
<1> DEFINE g == [e \in Entries |-> Length(e)]
<1>1. PICK h : Sums(h, g, Entries)
  BY EntriesFinite, SumsExist
<1>2. \A x \in Entries : g[x] = Length(x) /\ g[x] \in Nat
  BY EntriesFinite
<1>3. ASSUME NEW s \in SUBSET Entries
      PROVE  TotalSize(s) = h[s]
  <2> DEFINE f == [e \in s |-> Length(e)]
  <2>1. \A x \in s : f[x] = g[x]
    BY <1>2
  <2> HIDE DEF g
  <2>2. f = [e \in s |-> Length(e)]
    OBVIOUS
  <2> HIDE DEF f
  <2>3. PICK k : Sums(k, f, s) /\ TotalSize(s) = k[s]
    BY <2>2, TotalSizeSums
  <2>4. k[s] = h[s]
    BY <1>1, <2>1, <2>3, EntriesFinite, SumsAgree
  <2> QED BY <2>3, <2>4
<1> HIDE DEF g
<1>4. /\ h[{}] = 0
      /\ \A s \in SUBSET Entries : h[s] \in Nat
      /\ \A s \in SUBSET Entries, x \in Entries : x \notin s => h[s \cup {x}] = g[x] + h[s]
  <2>1. IsFiniteSet(Entries)
    BY EntriesFinite
  <2>2. \A x \in Entries : g[x] \in Nat
    BY <1>2
  <2> QED BY <1>1, <2>1, <2>2, SumsAdd
<1>5. ASSUME NEW s \in SUBSET Entries, NEW x \in Entries \ s
      PROVE  TotalSize(s \cup {x}) = Length(x) + TotalSize(s)
  <2>1. s \cup {x} \in SUBSET Entries
    OBVIOUS
  <2> QED BY <1>2, <1>3, <1>4, <2>1
<1> QED BY <1>3, <1>4, <1>5

\* A part is no larger than the whole.
LEMMA TotalSizeGrows ==
    ASSUME NEW s \in SUBSET Entries, NEW t \in SUBSET Entries, s \subseteq t
    PROVE  TotalSize(s) <= TotalSize(t)
<1> DEFINE F == {X \in SUBSET t : TotalSize(s) <= TotalSize(s \cup X)}
<1>1. {} \in F
  <2>1. s \cup {} = s /\ TotalSize(s) \in Nat
    BY TotalSizeAdds
  <2> QED BY <2>1
<1>2. ASSUME NEW X \in SUBSET t, NEW x \in t, X \in F
      PROVE  X \cup {x} \in F
  <2> DEFINE u == s \cup X
             v == s \cup (X \cup {x})
  <2>1. u \in SUBSET Entries /\ x \in Entries /\ v = u \cup {x}
    OBVIOUS
  <2>2. CASE x \in u
    <3>1. s \cup (X \cup {x}) = s \cup X
      BY <2>2
    <3> QED BY <1>2, <3>1
  <2>3. CASE x \notin u
    <3>0. TotalSize(s) <= TotalSize(u)
      BY <1>2
    <3> HIDE DEF u, v
    <3>1. TotalSize(v) = Length(x) + TotalSize(u)
      BY <2>1, <2>3, TotalSizeAdds
    <3>2. Length(x) \in Nat /\ TotalSize(u) \in Nat /\ TotalSize(s) \in Nat
      BY <2>1, EntriesFinite, TotalSizeAdds
    <3>3. TotalSize(s) <= TotalSize(v)
      BY <3>0, <3>1, <3>2
    <3> QED BY <3>3 DEF v
  <2> QED BY <2>2, <2>3
<1>3. IsFiniteSet(t)
  BY EntriesFinite, FS_Subset
<1> HIDE DEF F
<1>4. t \in F
  BY <1>1, <1>2, <1>3, SetInduction
<1>5. s \cup t = t
  OBVIOUS
<1> QED BY <1>4, <1>5 DEF F

\* What some readers have put last adds at most the largest size for each of them.
LEMMA TotalSizePut ==
    ASSUME NEW kept \in SUBSET Entries, NEW M \in Nat, \A o \in Objects : Size[o] <= M,
           NEW put \in [Readers -> Puttable]
    PROVE  TotalSize(kept \cup ({put[r] : r \in Readers} \ {Directory}))
              <= TotalSize(kept) + Cardinality(Readers) * M
<1> DEFINE With(P) == kept \cup ({put[r] : r \in P} \ {Directory})
           F == {P \in SUBSET Readers : TotalSize(With(P)) <= TotalSize(kept) + Cardinality(P) * M}
<1>1. {} \in F
  <2>1. With({}) = kept
    OBVIOUS
  <2>2. TotalSize(kept) \in Nat /\ Cardinality({}) * M = 0
    BY TotalSizeAdds, FS_EmptySet
  <2>3. TotalSize(With({})) <= TotalSize(kept) + Cardinality({}) * M
    <3> HIDE DEF With
    <3> QED BY <2>1, <2>2
  <2> QED BY <2>3
<1>2. ASSUME NEW P \in SUBSET Readers, NEW r \in Readers, P \in F
      PROVE  P \cup {r} \in F
  <2>1. CASE r \in P
    <3>1. P \cup {r} = P
      BY <2>1
    <3> QED BY <1>2, <3>1
  <2>2. CASE r \notin P
    <3> DEFINE e == put[r]
               s == With(P)
    <3>1. /\ s \in SUBSET Entries /\ e \in Entries
          /\ With(P \cup {r}) = IF e = Directory THEN s ELSE s \cup {e}
      BY DEF Entries, Puttable
    <3>2. e # Directory => Length(e) <= M /\ Length(e) \in Nat
      <4>1. e \in Objects \cup (Readers \X Objects)
        BY DEF Puttable
      <4>2. e # Directory => Length(e) <= M
        BY <4>1 DEF Length
      <4> QED BY <3>1, <4>2, EntriesFinite
    <3>3. TotalSize(s) \in Nat /\ TotalSize(kept) \in Nat
      BY <3>1, TotalSizeAdds
    <3>4. TotalSize(With(P \cup {r})) <= TotalSize(s) + M
      <4>1. CASE e = Directory \/ e \in s
        <5>1. With(P \cup {r}) = s
          BY <3>1, <4>1
        <5> HIDE DEF s, With
        <5> QED BY <3>3, <5>1
      <4>2. CASE e # Directory /\ e \notin s
        <5>1. TotalSize(s \cup {e}) = Length(e) + TotalSize(s)
          BY <3>1, <4>2, TotalSizeAdds
        <5>2. With(P \cup {r}) = s \cup {e}
          BY <3>1, <4>2
        <5> HIDE DEF e, s, With
        <5>3. TotalSize(With(P \cup {r})) = Length(e) + TotalSize(s)
          BY <5>1, <5>2
        <5> QED BY <3>2, <3>3, <4>2, <5>3
      <4> QED BY <4>1, <4>2
    <3>5. /\ Cardinality(P \cup {r}) = Cardinality(P) + 1 /\ Cardinality(P) \in Nat
          /\ TotalSize(s) <= TotalSize(kept) + Cardinality(P) * M
          /\ TotalSize(With(P \cup {r})) \in Nat
      <4>1. IsFiniteSet(P)
        BY FiniteAssumption, FS_Subset
      <4>2. With(P \cup {r}) \in SUBSET Entries
        BY DEF Entries, Puttable
      <4>3. TotalSize(With(P \cup {r})) \in Nat
        <5> HIDE DEF With
        <5> QED BY <4>2, TotalSizeAdds
      <4> QED BY <1>2, <2>2, <4>1, <4>3, FS_AddElement, FS_CardinalityType
    <3>6. TotalSize(With(P \cup {r})) <= TotalSize(kept) + Cardinality(P \cup {r}) * M
      <4> HIDE DEF With, s, e
      <4> QED BY <3>3, <3>4, <3>5
    <3> QED BY <3>6
  <2> QED BY <2>1, <2>2
<1> HIDE DEF F
<1>3. Readers \in F
  BY <1>1, <1>2, FiniteAssumption, SetInduction
<1> QED BY <1>3 DEF F

\* The largest size of an object.
LEMMA LargestSize ==
    /\ Max({Size[o] : o \in Objects}) \in Nat
    /\ \A o \in Objects : Size[o] <= Max({Size[o2] : o2 \in Objects})
<1> DEFINE S == {Size[o] : o \in Objects}
<1>1. S \subseteq Nat /\ S # {}
  BY SizesAssumption, FiniteAssumption
<1>2. IsFiniteSet(S)
  <2> DEFINE f == [o \in Objects |-> Size[o]]
  <2>1. f \in Surjection(Objects, S)
    BY DEF Surjection
  <2> HIDE DEF S, f
  <2> QED BY <2>1, FiniteAssumption, FS_Surjection
<1> HIDE DEF S
<1>3. \E m \in S : \A n \in S : m >= n
  BY <1>1, <1>2, Largest
<1>4. Max(S) \in S /\ \A n \in S : Max(S) >= n
  BY <1>3 DEF Max
<1>5. \A o \in Objects : Size[o] \in S
  BY DEF S
<1>6. \A o \in Objects : Size[o] <= Max(S) /\ Max(S) \in Nat
  BY <1>1, <1>4, <1>5
<1> QED BY <1>1, <1>4, <1>6 DEF S

\* A covered cache stays within its bound.
LEMMA CoveredBounded ==
    ASSUME TypeOK, NEW kept \in SmallEnough, NEW spent \in SUBSET Readers,
           NEW mine \in [spent -> Puttable],
           Covered(kept, spent, mine)
    PROVE  CacheBounded
<1>0. kept \in SUBSET Entries /\ TotalSize(kept) <= MaxTotal
  BY DEF SmallEnough
<1>a. Puttable # {}
  BY FiniteAssumption DEF Puttable
<1> DEFINE put == [r \in Readers |-> IF r \in spent THEN mine[r] ELSE CHOOSE x \in Puttable : TRUE]
<1>b. put \in [Readers -> Puttable]
  BY <1>a
<1>c. Covered(kept, spent, put)
  BY DEF Covered
<1> HIDE DEF put
<1> DEFINE M == Max({Size[o] : o \in Objects})
           more == kept \cup ({put[r] : r \in Readers} \ {Directory})
<1>1. M \in Nat /\ \A o \in Objects : Size[o] <= M
  BY LargestSize
<1> HIDE DEF M
<1>2. TotalSize(more) <= TotalSize(kept) + Cardinality(Readers) * M
  BY <1>0, <1>1, <1>b, TotalSizePut
<1>3. /\ more \in SUBSET Entries /\ Directory \in Entries
      /\ Present \subseteq more \cup {Directory}
  <2>1. Directory \in Entries /\ more \in SUBSET Entries
    BY <1>0, <1>b DEF Entries, Puttable
  <2> QED BY <1>c, <2>1 DEF Covered
<1> HIDE DEF more
<1>4. TotalSize(more \cup {Directory}) <= TotalSize(more) + DirectorySize
  <2>1. CASE Directory \in more
    <3>1. TotalSize(more \cup {Directory}) = TotalSize(more)
      <4>1. more \cup {Directory} = more
        BY <2>1
      <4> QED BY <4>1, Zenon
    <3> QED BY <1>3, <3>1, TotalSizeAdds, SizesAssumption
  <2>2. CASE Directory \notin more
    <3>1. TotalSize(more \cup {Directory}) = Length(Directory) + TotalSize(more)
      BY <1>3, <2>2, TotalSizeAdds
    <3>2. Length(Directory) = DirectorySize
      BY DEF Length
    <3> QED BY <1>3, <3>1, <3>2, TotalSizeAdds, SizesAssumption
  <2> QED BY <2>1, <2>2
<1>5. TotalSize(Present) <= TotalSize(more \cup {Directory})
  <2>1. more \cup {Directory} \in SUBSET Entries /\ Present \in SUBSET Entries
    BY <1>3
  <2> QED BY <1>3, <2>1, TotalSizeGrows
<1>6. /\ TotalSize(Present) \in Nat /\ TotalSize(more) \in Nat /\ TotalSize(kept) \in Nat
      /\ TotalSize(more \cup {Directory}) \in Nat
      /\ MaxTotal \in Nat /\ DirectorySize \in Nat /\ Cardinality(Readers) * M \in Nat
  <2>1. more \cup {Directory} \in SUBSET Entries /\ Present \in SUBSET Entries
    BY <1>3
  <2>2. Cardinality(Readers) \in Nat
    BY FiniteAssumption, FS_CardinalityType
  <2>3. Cardinality(Readers) * M \in Nat
    BY <1>1, <2>2
  <2> QED BY <1>0, <1>3, <2>1, <2>3, TotalSizeAdds, SizesAssumption
<1>7. TotalSize(Present) <= MaxTotal + DirectorySize + Cardinality(Readers) * M
  BY <1>0, <1>2, <1>4, <1>5, <1>6
<1> QED BY <1>7 DEF M, CacheBounded
----------------------------------------------------------------------------
(* What the cache holds stays covered. *)

\* A step that puts nothing into the cache and after which nobody has come further than
\* before, but by what has been removed from the cache.
LEMMA RoomKept ==
    ASSUME RoomInv, Present' \ {Directory} \subseteq Present,
           \A p \in Readers :
              /\ step'[p] \in Filling => step[p] \in Filling
              /\ step'[p] = "renaming" => step[p] = "renaming" /\ object'[p] = object[p]
              /\ step'[p] \in Listing =>
                    step[p] \in Listing /\ listed[p] \cap Present' \subseteq listed'[p]
    PROVE  RoomInv'
<1>1. PICK spent \in SUBSET {r \in Readers : step[r] \notin Filling}, kept \in SmallEnough :
      \E put \in [spent -> Puttable] :
         /\ Kept(kept, spent, put)
         /\ \E fresh \in SUBSET {r \in Readers : step[r] \in Listing} :
            \E since \in [fresh -> SUBSET spent] : Shrinks(fresh, since, spent, put)
  BY DEF RoomInv
<1>2. PICK put \in [spent -> Puttable] :
         /\ Kept(kept, spent, put)
         /\ \E fresh \in SUBSET {r \in Readers : step[r] \in Listing} :
            \E since \in [fresh -> SUBSET spent] : Shrinks(fresh, since, spent, put)
  BY <1>1
<1>3. PICK fresh \in SUBSET {r \in Readers : step[r] \in Listing} :
         \E since \in [fresh -> SUBSET spent] : Shrinks(fresh, since, spent, put)
  BY <1>2
<1>4. PICK since \in [fresh -> SUBSET spent] : Shrinks(fresh, since, spent, put)
  BY <1>3
<1>a. PICK still : still = {p \in fresh : step'[p] \in Listing}
  OBVIOUS
<1>b. PICK then : then = [p \in still |-> since[p]]
  OBVIOUS
<1>5. Kept(kept, spent, put)'
  <2>1. Covered(kept, spent, put)'
    BY <1>2 DEF Kept, Covered
  <2> QED BY <1>2, <2>1 DEF Kept
<1>6. Shrinks(still, then, spent, put)'
  <2>1. ASSUME NEW p \in still
        PROVE  p \notin then[p] /\ Covered(listed[p], then[p], put)'
    <3>1. /\ listed[p] \cap Present' \subseteq listed'[p] /\ then[p] = since[p]
          /\ p \notin since[p] /\ Covered(listed[p], since[p], put)
      BY <1>4, <1>a, <1>b DEF Shrinks
    <3>2. Covered(listed[p], since[p], put)'
      BY <3>1 DEF Covered
    <3> QED BY <3>1, <3>2 DEF Covered
  <2>2. \A p, q \in still : then[p] \subseteq then[q] \/ then[q] \subseteq then[p]
    BY <1>4, <1>a, <1>b DEF Shrinks
  <2>3. \A p \in spent : step'[p] \in Listing => p \in still
    BY <1>4, <1>a DEF Shrinks
  <2> QED BY <2>1, <2>2, <2>3 DEF Shrinks
<1>7. /\ spent \in SUBSET {r \in Readers : step'[r] \notin Filling}
      /\ still \in SUBSET {r \in Readers : step'[r] \in Listing}
      /\ then \in [still -> SUBSET spent]
  BY <1>a, <1>b
<1> QED BY <1>5, <1>6, <1>7 DEF RoomInv

\* Whoever lists the cache has listed it later than all others.
LEMMA ListRoom ==
    ASSUME TypeOK, RoomInv, NEW r \in Readers, List(r)
    PROVE  RoomInv'
<1>1. PICK spent \in SUBSET {r2 \in Readers : step[r2] \notin Filling}, kept \in SmallEnough :
      \E put \in [spent -> Puttable] :
         /\ Kept(kept, spent, put)
         /\ \E fresh \in SUBSET {r2 \in Readers : step[r2] \in Listing} :
            \E since \in [fresh -> SUBSET spent] : Shrinks(fresh, since, spent, put)
  BY DEF RoomInv
<1>2. PICK put \in [spent -> Puttable] :
         /\ Kept(kept, spent, put)
         /\ \E fresh \in SUBSET {r2 \in Readers : step[r2] \in Listing} :
            \E since \in [fresh -> SUBSET spent] : Shrinks(fresh, since, spent, put)
  BY <1>1
<1>3. PICK fresh \in SUBSET {r2 \in Readers : step[r2] \in Listing} :
         \E since \in [fresh -> SUBSET spent] : Shrinks(fresh, since, spent, put)
  BY <1>2
<1>4. PICK since \in [fresh -> SUBSET spent] : Shrinks(fresh, since, spent, put)
  BY <1>3
<1>5. /\ step' = [step EXCEPT ![r] = "listed"] /\ step[r] = "missed"
      /\ listed' = [listed EXCEPT ![r] = Present]
      /\ Present' = Present /\ object' = object
      /\ step \in [Readers -> Missed \cup {"idle", "reading"}]
      /\ listed \in [Readers -> SUBSET Entries]
  BY DEF List, GoOn, Present, TypeOK
<1> DEFINE more == fresh \cup {r}
           then == [p \in more |-> IF p = r THEN {} ELSE since[p]]
<1>6. Kept(kept, spent, put)'
  <2>1. Covered(kept, spent, put)'
    BY <1>2, <1>5 DEF Kept, Covered
  <2> QED BY <1>2, <1>5, <2>1 DEF Kept
<1>7. Shrinks(more, then, spent, put)'
  <2>1. ASSUME NEW p \in more
        PROVE  p \notin then[p] /\ Covered(listed[p], then[p], put)'
    <3>1. CASE p = r
      <4>1. listed'[p] = Present' /\ p \notin then[p]
        BY <1>5, <3>1
      <4> HIDE DEF then, more
      <4> QED BY <4>1 DEF Covered
    <3>2. CASE p # r
      <4>1. then[p] = since[p] /\ p \in fresh /\ listed'[p] = listed[p]
        BY <1>5, <3>2
      <4>2. p \notin since[p] /\ Covered(listed[p], since[p], put)
        BY <1>4, <4>1 DEF Shrinks
      <4> HIDE DEF then, more
      <4> QED BY <1>5, <4>1, <4>2 DEF Covered
    <3> QED BY <3>1, <3>2
  <2>2. \A p, q \in more : then[p] \subseteq then[q] \/ then[q] \subseteq then[p]
    BY <1>4 DEF Shrinks
  <2>3. \A p \in spent : step'[p] \in Listing => p \in more
    BY <1>4, <1>5 DEF Shrinks
  <2> HIDE DEF more, then
  <2> QED BY <2>1, <2>2, <2>3 DEF Shrinks
<1>8. /\ spent \in SUBSET {r2 \in Readers : step'[r2] \notin Filling}
      /\ more \in SUBSET {r2 \in Readers : step'[r2] \in Listing}
      /\ then \in [more -> SUBSET spent]
  BY <1>5 DEF Filling, Listing
<1> HIDE DEF more, then
<1> QED BY <1>6, <1>7, <1>8 DEF RoomInv

\* What a fresh reader keeps takes the place of what was kept before; those who listed
\* the cache before it are no longer fresh, nor have they put anything since it did.
LEMMA ShrunkRoom ==
    ASSUME TypeOK, RoomInv, NEW r \in Readers, Shrunk(r)
    PROVE  RoomInv'
<1>1. PICK spent \in SUBSET {r2 \in Readers : step[r2] \notin Filling}, kept \in SmallEnough :
      \E put \in [spent -> Puttable] :
         /\ Kept(kept, spent, put)
         /\ \E fresh \in SUBSET {r2 \in Readers : step[r2] \in Listing} :
            \E since \in [fresh -> SUBSET spent] : Shrinks(fresh, since, spent, put)
  BY DEF RoomInv
<1>2. PICK put \in [spent -> Puttable] :
         /\ Kept(kept, spent, put)
         /\ \E fresh \in SUBSET {r2 \in Readers : step[r2] \in Listing} :
            \E since \in [fresh -> SUBSET spent] : Shrinks(fresh, since, spent, put)
  BY <1>1
<1>3. PICK fresh \in SUBSET {r2 \in Readers : step[r2] \in Listing} :
         \E since \in [fresh -> SUBSET spent] : Shrinks(fresh, since, spent, put)
  BY <1>2
<1>4. PICK since \in [fresh -> SUBSET spent] : Shrinks(fresh, since, spent, put)
  BY <1>3
<1>5. /\ step' = [step EXCEPT ![r] = "fetching"] /\ step[r] = "shrinking"
      /\ \A p \in Readers \ {r} : listed'[p] = listed[p]
      /\ Present' = Present /\ object' = object
      /\ step \in [Readers -> Missed \cup {"idle", "reading"}]
      /\ listed[r] \in SmallEnough
  BY DEF Shrunk, GoOn, Present, TypeOK, SmallEnough
<1>6. CASE r \in fresh
  <2>1. PICK new : new = listed[r]
    OBVIOUS
  <2>2. PICK few : few = since[r]
    OBVIOUS
  <2> DEFINE still == {p \in fresh \ {r} : since[p] \subseteq few}
             then == [p \in still |-> since[p]]
             puts == [p \in few |-> put[p]]
  <2>3. /\ r \notin few /\ few \subseteq spent /\ Covered(new, few, put)
        /\ \A p \in fresh : p \notin since[p] /\ (since[p] \subseteq few \/ few \subseteq since[p])
    BY <1>4, <1>6, <2>1, <2>2 DEF Shrinks
  <2>4. Kept(new, few, puts)'
    <3>1. Covered(new, few, puts)'
      BY <1>5, <2>3 DEF Covered
    <3>2. ASSUME NEW p \in few, step'[p] = "renaming"
          PROVE  puts[p] = <<p, object'[p]>>
      <4>1. p \in spent /\ p # r /\ step[p] = "renaming"
        BY <1>5, <2>3, <3>2
      <4> QED BY <1>2, <1>5, <4>1 DEF Kept
    <3> HIDE DEF puts
    <3> QED BY <3>1, <3>2 DEF Kept
  <2>5. Shrinks(still, then, few, puts)'
    <3>1. ASSUME NEW p \in still
          PROVE  p \notin then[p] /\ Covered(listed[p], then[p], puts)'
      <4>1. /\ p \in fresh /\ p # r /\ then[p] = since[p] /\ listed'[p] = listed[p]
            /\ since[p] \subseteq few /\ \A q \in since[p] : puts[q] = put[q]
        BY <1>5
      <4>2. p \notin since[p] /\ Covered(listed[p], since[p], put)
        BY <1>4, <4>1 DEF Shrinks
      <4> HIDE DEF then, still, puts
      <4> QED BY <1>5, <4>1, <4>2 DEF Covered
    <3>2. \A p, q \in still : then[p] \subseteq then[q] \/ then[q] \subseteq then[p]
      BY <1>4 DEF Shrinks
    <3>3. ASSUME NEW p \in few, step'[p] \in Listing
          PROVE  p \in still
      <4>1. p \in spent /\ p # r /\ step[p] \in Listing
        BY <1>5, <2>3, <3>3
      <4>2. p \in fresh
        BY <1>4, <4>1 DEF Shrinks
      <4> QED BY <2>3, <3>3, <4>1, <4>2
    <3> HIDE DEF still, then, puts
    <3> QED BY <3>1, <3>2, <3>3 DEF Shrinks
  <2>6. /\ few \in SUBSET {r2 \in Readers : step'[r2] \notin Filling}
        /\ still \in SUBSET {r2 \in Readers : step'[r2] \in Listing}
        /\ then \in [still -> SUBSET few]
        /\ puts \in [few -> Puttable]
        /\ new \in SmallEnough
    BY <1>5, <2>1, <2>3
  <2> HIDE DEF still, then, puts
  <2> QED BY <2>4, <2>5, <2>6 DEF RoomInv
<1>7. CASE r \notin fresh
  <2>1. r \notin spent
    BY <1>4, <1>5, <1>7 DEF Shrinks, Listing
  <2>2. Kept(kept, spent, put)'
    <3>1. Covered(kept, spent, put)'
      BY <1>2, <1>5 DEF Kept, Covered
    <3> QED BY <1>2, <1>5, <2>1, <3>1 DEF Kept
  <2>3. Shrinks(fresh, since, spent, put)'
    <3>1. ASSUME NEW p \in fresh
          PROVE  p \notin since[p] /\ Covered(listed[p], since[p], put)'
      <4>1. listed'[p] = listed[p]
        BY <1>5, <1>7
      <4>2. p \notin since[p] /\ Covered(listed[p], since[p], put)
        BY <1>4 DEF Shrinks
      <4> QED BY <1>5, <4>1, <4>2 DEF Covered
    <3>2. \A p \in spent : step'[p] \in Listing => p \in fresh
      BY <1>4, <1>5, <2>1 DEF Shrinks
    <3> QED BY <1>4, <3>1, <3>2 DEF Shrinks
  <2>4. /\ spent \in SUBSET {r2 \in Readers : step'[r2] \notin Filling}
        /\ fresh \in SUBSET {r2 \in Readers : step'[r2] \in Listing}
    BY <1>5, <1>7, <2>1
  <2> QED BY <2>2, <2>3, <2>4 DEF RoomInv
<1> QED BY <1>6, <1>7

\* Whoever puts something that is covered already, or has put nothing since any of the
\* listings that count, is spent afterwards.
LEMMA PutRoom ==
    ASSUME TypeOK, RoomInv, NEW r \in Readers, NEW e \in Puttable,
           step[r] \in {"putting", "renaming"}, step'[r] \in {"renaming", "reading"},
           step'[r] = "renaming" => e = <<r, object'[r]>>,
           step[r] = "renaming" => <<r, object[r]>> \notin Present' \ {Directory},
           \A p \in Readers \ {r} : step'[p] = step[p],
           object' = object, listed' = listed,
           Present' \ {Directory} \subseteq Present \cup {e}
    PROVE  RoomInv'
<1>1. PICK spent \in SUBSET {r2 \in Readers : step[r2] \notin Filling}, kept \in SmallEnough :
      \E put \in [spent -> Puttable] :
         /\ Kept(kept, spent, put)
         /\ \E fresh \in SUBSET {r2 \in Readers : step[r2] \in Listing} :
            \E since \in [fresh -> SUBSET spent] : Shrinks(fresh, since, spent, put)
  BY DEF RoomInv
<1>2. PICK put \in [spent -> Puttable] :
         /\ Kept(kept, spent, put)
         /\ \E fresh \in SUBSET {r2 \in Readers : step[r2] \in Listing} :
            \E since \in [fresh -> SUBSET spent] : Shrinks(fresh, since, spent, put)
  BY <1>1
<1>3. PICK fresh \in SUBSET {r2 \in Readers : step[r2] \in Listing} :
         \E since \in [fresh -> SUBSET spent] : Shrinks(fresh, since, spent, put)
  BY <1>2
<1>4. PICK since \in [fresh -> SUBSET spent] : Shrinks(fresh, since, spent, put)
  BY <1>3
<1> DEFINE more == spent \cup {r}
           puts == [p \in more |-> IF p = r THEN e ELSE put[p]]
           then == [p \in fresh |-> since[p] \cup {r}]
<1>5. r \notin fresh /\ (r \in spent => put[r] \notin Present' \ {Directory})
  BY <1>2 DEF Listing, Filling, Kept
<1>6. ASSUME NEW S, NEW R, R \subseteq spent, Covered(S, R, put)
      PROVE  Covered(S, R \cup {r}, puts)'
  <2>1. ASSUME NEW x \in Present' \ {Directory}, x \notin S
        PROVE  \E p \in R \cup {r} : x = puts[p]
    <3>1. CASE x = e
      <4>1. x = puts[r]
        BY <3>1
      <4> QED BY <4>1
    <3>2. CASE x # e
      <4>1. x \in Present \ {Directory}
        BY <2>1, <3>2
      <4>2. PICK p \in R : x = put[p]
        BY <1>6, <2>1, <4>1 DEF Covered
      <4>3. p # r /\ p \in spent
        BY <1>5, <1>6, <2>1, <4>2
      <4>4. puts[p] = put[p]
        BY <4>3
      <4> QED BY <4>2, <4>4
    <3> QED BY <3>1, <3>2
  <2> HIDE DEF puts
  <2> QED BY <2>1 DEF Covered
<1>7. Kept(kept, more, puts)'
  <2>1. Covered(kept, more, puts)'
    <3> HIDE DEF puts
    <3> QED BY <1>2, <1>6 DEF Kept
  <2>2. ASSUME NEW p \in more, step'[p] = "renaming"
        PROVE  puts[p] = <<p, object'[p]>>
    <3>1. CASE p = r
      BY <2>2, <3>1
    <3>2. CASE p # r
      BY <1>2, <2>2, <3>2 DEF Kept
    <3> QED BY <3>1, <3>2
  <2> HIDE DEF more, puts
  <2> QED BY <2>1, <2>2 DEF Kept
<1>8. Shrinks(fresh, then, more, puts)'
  <2>1. ASSUME NEW p \in fresh
        PROVE  p \notin then[p] /\ Covered(listed[p], then[p], puts)'
    <3>1. p # r /\ then[p] = since[p] \cup {r} /\ since[p] \subseteq spent
      BY <1>5
    <3>2. p \notin since[p] /\ Covered(listed[p], since[p], put)
      BY <1>4 DEF Shrinks
    <3> HIDE DEF puts, then
    <3>3. \A S : Covered(S, since[p], put) => Covered(S, since[p] \cup {r}, puts)'
      BY <1>6, <3>1
    <3>4. Covered(listed[p], since[p] \cup {r}, puts)'
      BY <3>2, <3>3 DEF Covered
    <3> QED BY <3>1, <3>2, <3>4
  <2>2. \A p, q \in fresh : then[p] \subseteq then[q] \/ then[q] \subseteq then[p]
    BY <1>4 DEF Shrinks
  <2>3. \A p \in more : step'[p] \in Listing => p \in fresh
    BY <1>4 DEF Shrinks, Listing
  <2> HIDE DEF then, more, puts
  <2> QED BY <2>1, <2>2, <2>3 DEF Shrinks
<1>9. /\ more \in SUBSET {r2 \in Readers : step'[r2] \notin Filling}
      /\ fresh \in SUBSET {r2 \in Readers : step'[r2] \in Listing}
      /\ then \in [fresh -> SUBSET more]
      /\ puts \in [more -> Puttable]
  BY <1>5 DEF Filling, Listing
<1> HIDE DEF more, then, puts
<1> QED BY <1>7, <1>8, <1>9 DEF RoomInv
\* Nobody fills, lists or renames who did not before, when only this reader takes a step,
\* and not to one of these.
LEMMA RoomLeft ==
    ASSUME RoomInv, NEW r \in Readers, Present' \ {Directory} \subseteq Present,
           step \in [Readers -> Missed \cup {"idle", "reading"}], NEW s,
           step' = [step EXCEPT ![r] = s],
           s \in Filling => step[r] \in Filling,
           s \in Listing => step[r] \in Listing /\ listed[r] \cap Present' \subseteq listed'[r],
           s # "renaming",
           \A p \in Readers \ {r} : object'[p] = object[p] /\ listed'[p] = listed[p]
    PROVE  RoomInv'
<1>1. ASSUME NEW p \in Readers
      PROVE  /\ step'[p] \in Filling => step[p] \in Filling
             /\ step'[p] = "renaming" => step[p] = "renaming" /\ object'[p] = object[p]
             /\ step'[p] \in Listing =>
                   step[p] \in Listing /\ listed[p] \cap Present' \subseteq listed'[p]
  <2>1. CASE p = r
    BY <2>1
  <2>2. CASE p # r
    BY <2>2
  <2> QED BY <2>1, <2>2
<1> QED BY <1>1, RoomKept

\* A reader that ends leaves what it has put, for which it is spent already.
LEMMA RoomFinish ==
    ASSUME TypeOK, RoomInv, NEW r \in Readers, NEW o, NEW outcome, Finish(r, o, outcome),
           Present' \ {Directory} \subseteq Present
    PROVE  RoomInv'
<1>1. /\ step' = [step EXCEPT ![r] = "idle"]
      /\ step \in [Readers -> Missed \cup {"idle", "reading"}]
      /\ \A p \in Readers \ {r} : object'[p] = object[p] /\ listed'[p] = listed[p]
  BY DEF Finish, TypeOK
<1> QED BY <1>1, RoomLeft DEF Filling, Listing

\* Each step of a reader.
LEMMA WorkRoom ==
    ASSUME TypeOK, VersionsOK, RoomInv, NEW r \in Readers, Work(r)
    PROVE  RoomInv'
<1>0. /\ step \in [Readers -> Missed \cup {"idle", "reading"}]
      /\ object \in [Readers -> Objects \cup {None}]
      /\ listed \in [Readers -> SUBSET Entries]
      /\ cached \in [Objects -> 0..MaxWrites + 1]
  BY DEF TypeOK
<1>1. CASE Direct(r)
  BY <1>1, RoomFinish DEF Direct, Present
<1>2. CASE List(r)
  BY <1>2, ListRoom
<1>3. CASE Stat(r)
  <2>1. Present' = Present
    BY <1>3 DEF Stat, Present
  <2>2. CASE listed[r] \subseteq Present
    BY <1>0, <1>3, <2>1, <2>2, RoomLeft DEF Stat, GoOn, Filling, Listing
  <2>3. CASE ~(listed[r] \subseteq Present)
    BY <1>3, <2>1, <2>3, RoomFinish DEF Stat
  <2> QED BY <2>2, <2>3
<1>4. ASSUME NEW e \in Entries, Evict(r, e)
      PROVE  RoomInv'
  <2>1. CASE e \in Present \ {Directory}
    <3>1. /\ step' = [step EXCEPT ![r] = "shrinking"] /\ step[r] = "shrinking"
          /\ cached' = [o \in Objects |-> IF o = e THEN 0 ELSE cached[o]]
          /\ staged' = staged \ {e} /\ directory' = directory
          /\ listed' = [listed EXCEPT ![r] = @ \ {e}]
          /\ object' = object
      BY <1>4, <2>1 DEF Evict, GoOn
    <3>2. Present' \ {Directory} \subseteq Present \ {e}
      <4>1. staged \cap Objects = {}
        BY SizesAssumption DEF TypeOK
      <4>2. \A o \in Objects : cached'[o] # 0 => cached[o] # 0 /\ o # e
        BY <3>1
      <4> QED BY <3>1, <4>1, <4>2 DEF Present
    <3>3. listed[r] \cap Present' \subseteq listed'[r]
      BY <1>0, <2>1, <3>1, <3>2
    <3> QED BY <1>0, <3>1, <3>2, <3>3, RoomLeft DEF Filling, Listing
  <2>2. CASE e \notin Present \ {Directory}
    <3>1. Finish(r, object[r], Error) /\ Present' = Present
      BY <1>4, <2>2 DEF Evict, Present
    <3> QED BY <3>1, RoomFinish
  <2> QED BY <2>1, <2>2
<1>5. CASE Shrunk(r)
  BY <1>5, ShrunkRoom
<1>6. CASE Fetch(r)
  <2>1. Present' = Present /\ step[r] = "fetching"
    BY <1>6 DEF Fetch, Present
  <2>2. CASE backend[object[r]] = 0
    BY <1>6, <2>1, <2>2, RoomFinish DEF Fetch
  <2>3. CASE backend[object[r]] # 0
    BY <1>0, <1>6, <2>1, <2>3, RoomLeft DEF Fetch, GoOn, Filling, Listing
  <2> QED BY <2>2, <2>3
<1>7. CASE Stage(r)
  <2>1. /\ step' = [step EXCEPT ![r] = "renaming"] /\ step[r] = "putting"
        /\ object' = object /\ listed' = listed
        /\ staged' = staged \cup {<<r, object[r]>>} /\ cached' = cached
    BY <1>7 DEF Stage, GoOn
  <2>2. <<r, object[r]>> \in Puttable
    BY <2>1 DEF Puttable, VersionsOK
  <2>3. Present' \ {Directory} \subseteq Present \cup {<<r, object[r]>>}
    BY <2>1 DEF Present
  <2> QED BY <1>0, <2>1, <2>2, <2>3, PutRoom
<1>8. CASE RenameStaged(r)
  <2>1. CASE <<r, object[r]>> \in staged
    <3>1. /\ step' = [step EXCEPT ![r] = "reading"] /\ step[r] = "renaming"
          /\ object' = object /\ listed' = listed /\ directory' = directory
          /\ staged' = staged \ {<<r, object[r]>>}
          /\ cached' = [cached EXCEPT ![object[r]] = payload[r]]
      BY <1>8, <2>1 DEF RenameStaged, GoOn
    <3>2. object[r] \in Objects /\ object[r] \in Puttable
      BY <3>1 DEF Puttable, VersionsOK
    <3>3. Present' \ {Directory} \subseteq Present \cup {object[r]}
      BY <1>0, <3>1 DEF Present
    <3>4. <<r, object[r]>> \notin Present' \ {Directory}
      BY <3>1, <3>2, SizesAssumption DEF Present
    <3> QED BY <1>0, <3>1, <3>2, <3>3, <3>4, PutRoom
  <2>2. CASE <<r, object[r]>> \notin staged
    <3>1. Finish(r, object[r], Error) /\ Present' = Present
      BY <1>8, <2>2 DEF RenameStaged, Present
    <3> QED BY <3>1, RoomFinish
  <2> QED BY <2>1, <2>2
<1>9. CASE Read(r)
  <2>1. Present' = Present
    BY <1>9 DEF Read, Present
  <2> QED BY <1>9, <2>1, RoomFinish DEF Read
<1> QED BY <1>1, <1>2, <1>3, <1>4, <1>5, <1>6, <1>7, <1>8, <1>9 DEF Work

\* Every step keeps the cache covered.
LEMMA RoomStep == TypeOK /\ VersionsOK /\ RoomInv /\ [Next]_vars => RoomInv'
<1> SUFFICES ASSUME TypeOK, VersionsOK, RoomInv, [Next]_vars
             PROVE  RoomInv'
  OBVIOUS
<1>1. ASSUME UNCHANGED <<cached, directory, staged, step, object, listed>>
      PROVE  RoomInv'
  <2>1. Present' = Present
    BY <1>1 DEF Present
  <2> QED BY <1>1, <2>1, RoomKept
<1>2. ASSUME NEW r \in Readers, NEW o \in Objects, NEW size \in RequestSizes, Look(r, o, size)
      PROVE  RoomInv'
  <2>1. Present' = Present
    BY <1>2 DEF Look, Present
  <2>2. CASE cached[o] # 0
    BY <1>2, <2>1, <2>2, RoomFinish DEF Look
  <2>3. CASE cached[o] = 0
    <3>1. PICK s \in {"missed", "direct"} : step' = [step EXCEPT ![r] = s]
      BY <1>2, <2>3 DEF Look, GoOn
    <3>2. /\ object' = [object EXCEPT ![r] = o] /\ listed' = listed
          /\ step \in [Readers -> Missed \cup {"idle", "reading"}]
          /\ object \in [Readers -> Objects \cup {None}]
      BY <1>2, <2>3 DEF Look, TypeOK
    <3> QED BY <2>1, <3>1, <3>2, RoomLeft DEF Filling, Listing
  <2> QED BY <2>2, <2>3
<1>3. ASSUME NEW o \in Objects, NEW p \in Objects, Put(o) \/ Delete(o) \/ Rename(o, p)
      PROVE  RoomInv'
  BY <1>1, <1>3 DEF Put, Delete, Rename
<1>4. CASE UNCHANGED vars
  BY <1>1, <1>4 DEF vars
<1> QED BY <1>2, <1>3, <1>4, WorkRoom DEF Next

\* An empty cache is covered by nothing.
LEMMA RoomInit == Init => RoomInv
<1> SUFFICES ASSUME Init
             PROVE  RoomInv
  OBVIOUS
<1>1. PICK none : none = [r \in {} |-> {}]
  OBVIOUS
<1>2. {} \in SmallEnough
  BY TotalSizeAdds, SizesAssumption DEF SmallEnough
<1>3. Present = {} /\ \A r \in Readers : step[r] = "idle"
  BY DEF Init, Present
<1>4. Kept({}, {}, none)
  BY <1>3 DEF Kept, Covered
<1>5. Shrinks({}, none, {}, none)
  BY DEF Shrinks
<1>6. none \in [{} -> Puttable] /\ none \in [{} -> SUBSET {}]
  BY <1>1
<1> QED BY <1>2, <1>4, <1>5, <1>6 DEF RoomInv

\* The whole inductive invariant: what is in the cache beside what one reader has found
\* small enough is at most one entry for each reader.
THEOREM CacheInvariance == Spec => []CacheInv
<1>1. Init => RoomInv
  BY RoomInit
<1>2. Inv /\ RoomInv /\ [Next]_vars => RoomInv'
  BY RoomStep DEF Inv
<1>3. Inv /\ RoomInv => CacheInv
  BY DEF CacheInv
<1> QED BY <1>1, <1>2, <1>3, Invariance, PTL DEF Spec

\* The cache never exceeds its limit by more than its directory and one object for each
\* reader, however shrinking, putting and renaming interleave.
THEOREM Bounded == Spec => []CacheBounded
<1>1. CacheInv => CacheBounded
  <2> SUFFICES ASSUME CacheInv
               PROVE  CacheBounded
    OBVIOUS
  <2>1. PICK spent \in SUBSET {r \in Readers : step[r] \notin Filling}, kept \in SmallEnough :
        \E put \in [spent -> Puttable] : Kept(kept, spent, put)
    BY DEF CacheInv, RoomInv
  <2>2. PICK put \in [spent -> Puttable] : Covered(kept, spent, put)
    BY <2>1 DEF Kept
  <2>3. spent \in SUBSET Readers /\ TypeOK
    BY DEF CacheInv, Inv
  <2> QED BY <2>2, <2>3, CoveredBounded
<1> QED BY <1>1, CacheInvariance, PTL
=============================================================================
