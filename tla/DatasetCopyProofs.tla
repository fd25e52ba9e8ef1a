--------------------------- MODULE DatasetCopyProofs ---------------------------
(***************************************************************************)
(* Proofs about DatasetCopy, for any number of copies, trees, datasets and *)
(* files and any sizes: that Inv is an invariant, what follows from it of  *)
(* the shape of what travels, and that committed rows stay.                *)
(***************************************************************************)
EXTENDS DatasetCopyInv, FiniteSetTheorems, SequenceTheorems, TLAPS

(* Min is defined by CHOOSE. *)
LEMMA MinOfTwo ==
    ASSUME NEW a \in Nat, NEW b \in Nat
    PROVE  Min({a, b}) = IF a <= b THEN a ELSE b
<1> DEFINE m == IF a <= b THEN a ELSE b
<1>1. m \in {a, b} /\ \A y \in {a, b} : m <= y
  OBVIOUS
<1>2. \A x \in {a, b} : (\A y \in {a, b} : x <= y) => x = m
  OBVIOUS
<1> QED BY <1>1, <1>2 DEF Min

\* Every chunk up to the last begins within the file.
LEMMA ChunkBegins ==
    ASSUME NEW n \in Nat, NEW i \in 0..LastChunk(n)
    PROVE  /\ i \in Nat /\ LastChunk(n) \in Nat
           /\ i * MaxChunk \in Nat /\ i * MaxChunk <= n
           /\ (i + 1) * MaxChunk \in Nat /\ i * MaxChunk <= (i + 1) * MaxChunk
<1>0. MaxChunk \in Nat
  BY SizesAssumption
<1>1. CASE MaxChunk = 0 \/ n = 0
  BY <1>0, <1>1 DEF LastChunk
<1>2. CASE MaxChunk # 0 /\ n # 0
  <2> DEFINE q == (n - 1) \div MaxChunk
  <2>1. q \in Nat /\ q * MaxChunk <= n - 1
    BY <1>0, <1>2, Z3
  <2>2. LastChunk(n) = q
    BY <1>2 DEF LastChunk
  <2>3. i \in Nat /\ i <= q
    BY <2>1, <2>2
  <2> HIDE DEF q
  <2>4. i * MaxChunk <= q * MaxChunk /\ i * MaxChunk \in Nat
    BY <1>0, <2>1, <2>3, Z3
  <2>5. (i + 1) * MaxChunk = i * MaxChunk + MaxChunk
    BY <1>0, <2>3, Z3
  <2> QED BY <1>0, <2>1, <2>2, <2>3, <2>4, <2>5
<1> QED BY <1>1, <1>2

\* A chunk is a row, or an error if the file has become shorter.
LEMMA ChunkType ==
    ASSUME NEW f \in FileNames, NEW n \in Nat, NEW content \in Seq(Cell),
           NEW i \in 0..LastChunk(n)
    PROVE  /\ Chunk(f, n, content, i) \in Row \cup {Err}
           /\ n = Len(content) => Chunk(f, n, content, i) \in Row
<1> DEFINE offset == i * MaxChunk
           size == IF MaxChunk = 0 THEN n ELSE Min({n, (i + 1) * MaxChunk}) - offset
           row == [file |-> f, chunk |-> i, offset |-> offset, size |-> size,
                   meta |-> IF i = 0 THEN Metadata(f, n) ELSE None,
                   data |-> SubSeq(content, offset + 1, offset + size)]
<1>0. MaxChunk \in Nat
  BY SizesAssumption
<1>1. /\ i \in Nat /\ offset \in Nat /\ offset <= n
      /\ (i + 1) * MaxChunk \in Nat /\ offset <= (i + 1) * MaxChunk
  BY ChunkBegins
<1>2. size \in Nat
  BY <1>0, <1>1, MinOfTwo
<1>3. ASSUME ~(offset + size > Len(content))
      PROVE  row \in Row
  <2> HIDE DEF offset, size
  <2>1. Len(content) \in Nat
    BY LenProperties
  <2>2. SubSeq(content, offset + 1, offset + size) \in Seq(Cell)
    BY <1>1, <1>2, <1>3, <2>1, SubSeqProperties
  <2>3. Metadata(f, n) \in MetadataRow
    BY DEF Metadata, MetadataRow
  <2> QED BY <1>1, <1>2, <2>2, <2>3 DEF Row
<1>4. Chunk(f, n, content, i) = IF offset + size > Len(content) THEN Err ELSE row
  BY DEF Chunk
<1>5. offset + size <= n
  BY <1>0, <1>1, MinOfTwo
<1>6. Len(content) \in Nat
  BY LenProperties
<1> HIDE DEF offset, size, row
<1> QED BY <1>1, <1>2, <1>3, <1>4, <1>5, <1>6

\* The numbers from 1 to n are n.
LEMMA UpTo ==
    ASSUME NEW n \in Nat
    PROVE  IsFiniteSet(1..n) /\ Cardinality(1..n) = n
<1>1. 1 \in Int /\ n \in Int /\ (IF 1 > n THEN 0 ELSE n - 1 + 1) = n
  OBVIOUS
<1> QED BY <1>1, FS_Interval

\* The rank of a position among those given a value is that of one of the values.
LEMMA RankType ==
    ASSUME NEW n \in Nat, NEW given \in SUBSET (1..n), NEW i \in given
    PROVE  /\ Rank(given, i) \in 1..n
           /\ Rank(given, i) \in 1..Cardinality(given)
<1> DEFINE upto == {j \in given : j <= i}
<1>1. IsFiniteSet(given) /\ IsFiniteSet(1..n) /\ Cardinality(1..n) = n
  BY UpTo, FS_Subset
<1>2. upto \subseteq given /\ given \subseteq 1..n /\ i \in upto
  OBVIOUS
<1>3. /\ Cardinality(upto) \in Nat /\ Cardinality(given) \in Nat
      /\ Cardinality(upto) <= Cardinality(given) /\ Cardinality(given) <= n
  BY <1>1, <1>2, FS_Subset, FS_CardinalityType
<1>4. IsFiniteSet(upto) /\ Cardinality(upto) # 0
  BY <1>1, <1>2, FS_Subset, FS_EmptySet
<1> QED BY <1>3, <1>4 DEF Rank

\* Whatever the nulls of a batch, reading it back makes rows of it: every value
\* that is asked for is there.
LEMMA IntoVecType ==
    ASSUME NEW batch \in Batch
    PROVE  IntoVec(batch) \in Batch
<1> DEFINE rows  == 1..Len(batch)
           atime == {i \in rows : batch[i].meta # None}
           ctime == NextGiven(batch, atime)
           mtime == NextGiven(batch, ctime)
           mode  == NextGiven(batch, mtime)
           size  == NextGiven(batch, mode)
           Of(asked, column, i) == batch[Rank(asked, i)].meta[column]
           meta(i) == IF i \notin size THEN None
                      ELSE [atime |-> Of(rows, "atime", i), ctime |-> Of(atime, "ctime", i),
                            mtime |-> Of(ctime, "mtime", i), mode |-> Of(mtime, "mode", i),
                            size |-> Of(mode, "size", i)]
<1>0. Len(batch) \in Nat /\ \A i \in rows : batch[i] \in Row
  BY LenProperties, ElementOfSeq DEF Batch
<1>1. \A i \in rows : Rank(rows, i) = i
  <2>1. ASSUME NEW i \in rows
        PROVE  Rank(rows, i) = i
    <3>1. {j \in rows : j <= i} = 1..i
      BY <1>0
    <3>2. i \in Nat /\ Cardinality(1..i) = i
      BY <1>0, UpTo
    <3>3. Rank(rows, i) = Cardinality({j \in rows : j <= i})
      BY DEF Rank
    <3> HIDE DEF rows
    <3> QED BY <3>1, <3>2, <3>3
  <2> QED BY <2>1
<1>2. ASSUME NEW given \in SUBSET rows
      PROVE  /\ NextGiven(batch, given) \in SUBSET rows
             /\ NextGiven(batch, given) \subseteq given
             /\ \A i \in NextGiven(batch, given) :
                   /\ Rank(given, i) \in rows
                   /\ batch[Rank(given, i)].meta \in MetadataRow
  <2>1. \A i \in given : Rank(given, i) \in rows
    BY <1>0, RankType
  <2>2. \A i \in NextGiven(batch, given) : i \in given /\ batch[Rank(given, i)].meta # None
    BY DEF NextGiven
  <2> QED BY <1>0, <2>1, <2>2 DEF Row
<1>3. /\ atime \in SUBSET rows /\ ctime \in SUBSET rows /\ mtime \in SUBSET rows
      /\ mode \in SUBSET rows /\ size \in SUBSET rows
      /\ size \subseteq mode /\ mode \subseteq mtime /\ mtime \subseteq ctime
      /\ ctime \subseteq atime
  <2>1. atime \in SUBSET rows
    OBVIOUS
  <2> HIDE DEF rows, atime
  <2>2. ctime \in SUBSET rows /\ ctime \subseteq atime
    BY <1>2, <2>1
  <2> HIDE DEF ctime
  <2>3. mtime \in SUBSET rows /\ mtime \subseteq ctime
    BY <1>2, <2>2
  <2> HIDE DEF mtime
  <2>4. mode \in SUBSET rows /\ mode \subseteq mtime
    BY <1>2, <2>3
  <2> HIDE DEF mode
  <2>5. size \in SUBSET rows /\ size \subseteq mode
    BY <1>2, <2>4
  <2> QED BY <2>1, <2>2, <2>3, <2>4, <2>5
<1>4. ASSUME NEW i \in size
      PROVE  meta(i) \in MetadataRow
  <2>1. /\ batch[Rank(rows, i)].meta \in MetadataRow
        /\ batch[Rank(atime, i)].meta \in MetadataRow
        /\ batch[Rank(ctime, i)].meta \in MetadataRow
        /\ batch[Rank(mtime, i)].meta \in MetadataRow
        /\ batch[Rank(mode, i)].meta \in MetadataRow
    <3>1. i \in rows /\ batch[i].meta # None
      BY <1>3
    <3>2. batch[i].meta \in MetadataRow
      BY <1>0, <3>1 DEF Row
    <3> QED BY <1>1, <1>2, <1>3, <3>1, <3>2
  <2> HIDE DEF rows, atime, ctime, mtime, mode, size
  <2>2. \A m \in MetadataRow : \A k \in Columns : m[k] \in [file: FileNames, n: Nat]
    BY DEF MetadataRow
  <2>3. /\ Of(rows, "atime", i) \in [file: FileNames, n: Nat]
        /\ Of(atime, "ctime", i) \in [file: FileNames, n: Nat]
        /\ Of(ctime, "mtime", i) \in [file: FileNames, n: Nat]
        /\ Of(mtime, "mode", i) \in [file: FileNames, n: Nat]
        /\ Of(mode, "size", i) \in [file: FileNames, n: Nat]
    BY <2>1, <2>2 DEF Columns
  <2> HIDE DEF Of
  <2>4. ASSUME NEW D, NEW a \in D, NEW b \in D, NEW c \in D, NEW d \in D, NEW e \in D
        PROVE  [atime |-> a, ctime |-> b, mtime |-> c, mode |-> d, size |-> e] \in [Columns -> D]
    BY DEF Columns
  <2> QED BY <2>3, <2>4 DEF MetadataRow
<1>5. ASSUME NEW i \in rows
      PROVE  [batch[i] EXCEPT !.meta = meta(i)] \in Row
  <2>1. meta(i) \in MetadataRow \cup {None}
    BY <1>4
  <2> HIDE DEF meta
  <2> QED BY <1>0, <2>1 DEF Row
<1>6. IntoVec(batch) = [i \in rows |-> [batch[i] EXCEPT !.meta = meta(i)]]
  BY DEF IntoVec
<1> HIDE DEF meta
<1>7. IntoVec(batch) \in [1..Len(batch) -> Row]
  BY <1>5, <1>6
<1> QED BY <1>0, <1>7, SeqDef DEF Batch

\* Those of some positions that are not beyond one of them.
LEMMA Below ==
    ASSUME NEW P, \A j \in P : j \in Nat /\ 0 < j
    PROVE  /\ {j \in P : j <= 0} = {}
           /\ \A n \in Nat : (\A j \in P : j <= n) => {j \in P : j <= n} = P
           /\ \A n \in Nat : {j \in P : j <= n + 1} = {j \in P : j <= n} \cup ({n + 1} \cap P)
           /\ \A i, j \in P : i < j =>
                 /\ {y \in P : y <= i} \subseteq {y \in P : y <= j}
                 /\ j \in {y \in P : y <= j} /\ j \notin {y \in P : y <= i}
OBVIOUS

\* Each of some positions has a rank of its own, and every rank is taken.
LEMMA RankOnto ==
    ASSUME NEW n \in Nat, NEW present \in SUBSET (1..n)
    PROVE  /\ IsFiniteSet(present) /\ Cardinality(present) \in Nat
           /\ \A i, j \in present : Rank(present, i) = Rank(present, j) => i = j
           /\ \A k \in 1..Cardinality(present) : \E i \in present : Rank(present, i) = k
<1> DEFINE rank == [i \in present |-> Rank(present, i)]
           m == Cardinality(present)
<1>1. \A i \in present : i \in Nat /\ 0 < i
  OBVIOUS
<1>2. IsFiniteSet(present) /\ m \in Nat /\ IsFiniteSet(1..m) /\ Cardinality(1..m) = m
  BY UpTo, FS_Subset, FS_CardinalityType
<1>3. \A i \in present : Rank(present, i) \in 1..m
  BY RankType
<1>4. \A i, j \in present : i < j => Rank(present, i) # Rank(present, j)
  <2>1. SUFFICES ASSUME NEW i \in present, NEW j \in present, i < j
                 PROVE  Rank(present, i) # Rank(present, j)
    OBVIOUS
  <2> DEFINE below(x) == {y \in present : y <= x}
  <2>2. /\ below(i) \subseteq below(j) /\ j \in below(j) /\ j \notin below(i)
        /\ below(j) \subseteq present
    BY <1>1, <2>1, Below
  <2>3. IsFiniteSet(below(j))
    BY <1>2, <2>2, FS_Subset
  <2>4. Cardinality(below(i)) # Cardinality(below(j))
    <3> HIDE DEF below
    <3> QED BY <2>2, <2>3, FS_Subset
  <2> QED BY <2>4 DEF Rank
<1>5. rank \in Injection(present, 1..m)
  <2>1. rank \in [present -> 1..m]
    BY <1>3
  <2>2. \A i, j \in present : rank[i] = rank[j] => i = j
    BY <1>1, <1>4
  <2> HIDE DEF rank
  <2> QED BY <2>1, <2>2 DEF Injection, IsInjective
<1>6. rank \in Surjection(present, 1..m)
  <2> HIDE DEF rank
  <2> QED BY <1>2, <1>5, FS_Injection
<1>7. \A k \in 1..m : \E i \in present : Rank(present, i) = k
  BY <1>6 DEF Surjection
<1>8. \A i, j \in present : Rank(present, i) = Rank(present, j) => i = j
  BY <1>1, <1>4
<1> QED BY <1>2, <1>7, <1>8

\* The files of a tree are listed each at its rank.
LEMMA ListedType ==
    ASSUME NEW t, NEW seen
    PROVE  /\ Listed(t, seen) \in Seq(FileNames)
           /\ \A k \in 1..Len(Listed(t, seen)) : tree[t][Listed(t, seen)[k]] # None
<1> DEFINE present == {i \in 1..Len(Files) : tree[t][Files[i]] # None /\ Files[i] \in seen}
           m == Cardinality(present)
           file(k) == Files[CHOOSE i \in present : Rank(present, i) = k]
<1>0. Len(Files) \in Nat /\ \A i \in 1..Len(Files) : Files[i] \in FileNames
  BY ContentAssumption, LenProperties, ElementOfSeq
<1>1. present \in SUBSET (1..Len(Files))
  OBVIOUS
<1>2. m \in Nat
  BY <1>0, <1>1, UpTo, FS_Subset, FS_CardinalityType
<1>7. \A k \in 1..m : \E i \in present : Rank(present, i) = k
  <2> HIDE DEF present
  <2> QED BY <1>0, <1>1, RankOnto
<1>8. \A k \in 1..m : file(k) \in FileNames /\ tree[t][file(k)] # None
  <2>1. SUFFICES ASSUME NEW k \in 1..m
                 PROVE  file(k) \in FileNames /\ tree[t][file(k)] # None
    OBVIOUS
  <2> DEFINE c == CHOOSE i \in present : Rank(present, i) = k
  <2>2. c \in present
    BY <1>7
  <2> QED BY <1>0, <2>2
<1>9. Listed(t, seen) = [k \in 1..m |-> file(k)]
  BY DEF Listed
<1> HIDE DEF file, m
<1>10. Listed(t, seen) \in [1..m -> FileNames]
  BY <1>8, <1>9
<1>11. Listed(t, seen) \in Seq(FileNames) /\ Len(Listed(t, seen)) = m
  BY <1>2, <1>10, SeqDef
<1> QED BY <1>8, <1>9, <1>11

----------------------------------------------------------------------------
(* What most steps leave alone. *)

\* Files that are there stay there; a step that opens nothing, lists nothing and
\* leaves no write behind keeps what is said of these.
LEMMA FilesKept ==
    ASSUME Inv,
           \A t \in Trees : \A f \in FileNames :
              tree[t][f] \in Seq(Cell) => tree'[t][f] \in Seq(Cell),
           UNCHANGED <<source, opened>>, landing' \subseteq landing
    PROVE  OpenedOK' /\ SourceOK' /\ LandingOK'
<1>1. OpenedOK'
  <2>1. SUFFICES ASSUME NEW c \in Copies, opened[c] # None
                 PROVE  /\ FromTree(c)
                        /\ tree'[From[c]][opened[c].file] \in Seq(Cell)
                        /\ Len(opened[c].rows) <= LastChunk(opened[c].size)
    BY DEF OpenedOK, FromTree
  <2>2. opened[c].file \in FileNames
    BY <2>1 DEF Inv, TypeOK
  <2> QED BY <2>1, <2>2 DEF Inv, OpenedOK, FromTree
<1>2. SourceOK'
  <2>1. SUFFICES ASSUME NEW c \in Copies, FromTree(c), NEW i \in 1..Len(source[c])
                 PROVE  tree'[From[c]][source[c][i]] \in Seq(Cell)
    BY DEF SourceOK, FromTree
  <2>2. source[c] \in Seq(FileNames)
    BY <2>1 DEF Inv, TypeOK
  <2>3. source[c][i] \in FileNames
    BY <2>2, ElementOfSeq
  <2> QED BY <2>1, <2>3 DEF Inv, SourceOK, FromTree
<1>3. LandingOK'
  <2>1. SUFFICES ASSUME NEW w \in landing
                 PROVE  ToTree(w.copy) /\ tree'[To[w.copy]][w.file] \in Seq(Cell)
    BY DEF LandingOK, ToTree
  <2>2. w.file \in FileNames /\ w.copy \in Copies
    BY <2>1 DEF Inv, TypeOK
  <2> QED BY <2>1, <2>2 DEF Inv, LandingOK, ToTree
<1> QED BY <1>1, <1>2, <1>3

\* A step that commits nothing, prepares no commit and receives nothing for one
\* keeps what is said of commits.
LEMMA CommitsKept ==
    ASSUME Inv, UNCHANGED <<table, base>>,
           \A c \in Copies :
              /\ step[c] = "ok" => step'[c] = "ok"
              /\ ~ToTree(c) /\ step'[c] \in {"committing", "ok"} =>
                    step'[c] = step[c] /\ fragment'[c] = fragment[c]
    PROVE  CommitsOK'
<1>1. SUFFICES ASSUME NEW c \in Copies, ~ToTree(c), step'[c] \in {"committing", "ok"}
               PROVE  /\ base[c] <= Len(table[To[c]])
                      /\ step[c] = "committing" /\ base[c] < Len(table[To[c]]) => Rivalled(c)'
                      /\ step[c] = "ok" => base[c] < Len(table[To[c]])
                      /\ step[c] = "ok" /\ fragment[c] # <<>> =>
                            \/ Rivalled(c)'
                            \/ \A n \in base[c] + 1..Len(table[To[c]]) :
                                  fragment[c] \in Range(table[To[c]][n])
  BY DEF CommitsOK, ToTree
<1>2. Rivalled(c) => Rivalled(c)'
  BY DEF Rivalled
<1>3. step'[c] = step[c] /\ fragment'[c] = fragment[c]
  BY <1>1
<1> QED BY <1>1, <1>2, <1>3 DEF Inv, CommitsOK

----------------------------------------------------------------------------
(* The source. *)

\* An edited file has another content.
LEMMA EditStep ==
    ASSUME Inv, NEW t \in Trees, NEW f \in FileNames, Edit(t, f)
    PROVE  Inv'
<1>0. /\ edits < MaxEdits /\ edits' = edits + 1 /\ UNCHANGED <<table, step, base, landing>>
      /\ UNCHANGED sourceVars /\ UNCHANGED pipeVars
  BY DEF Edit
<1>1. PICK n \in Sizes : tree' = [tree EXCEPT ![t][f] = Fresh(edits + 2, n)]
  BY DEF Edit
<1>2. Fresh(edits + 2, n) \in Seq(Cell)
  <2>1. n \in Nat /\ edits + 2 \in Nat
    BY SizesAssumption DEF Inv, TypeOK
  <2>2. Fresh(edits + 2, n) \in [1..n -> Cell]
    BY <2>1 DEF Fresh, Cell
  <2> QED BY <2>1, <2>2, SeqDef
<1>3. /\ tree' \in [Trees -> [FileNames -> Seq(Cell) \cup {None}]]
      /\ \A u \in Trees : \A g \in FileNames : tree[u][g] \in Seq(Cell) => tree'[u][g] \in Seq(Cell)
  BY <1>1, <1>2 DEF Inv, TypeOK
<1>4. TypeOK'
  <2>1. edits' \in 0..MaxEdits
    BY <1>0, SizesAssumption DEF Inv, TypeOK
  <2> QED BY <1>0, <1>3, <2>1 DEF Inv, TypeOK, sourceVars, pipeVars, FromTree
<1>5. OpenedOK' /\ SourceOK' /\ LandingOK'
  BY <1>0, <1>3, FilesKept DEF sourceVars
<1>6. TreesOnly'
  BY <1>0 DEF Inv, TreesOnly, pipeVars, ToTree
<1>7. CommitsOK'
  BY <1>0, CommitsKept DEF pipeVars
<1>8. IdleOK'
  BY <1>0 DEF Inv, IdleOK, pipeVars, sourceVars
<1> QED BY <1>4, <1>5, <1>6, <1>7, <1>8 DEF Inv

\* A copy lists its source and begins.
LEMMA StartStep ==
    ASSUME Inv, NEW c \in Copies, Start(c)
    PROVE  Inv'
<1>0. /\ step[c] = "idle"
      /\ UNCHANGED <<tree, table, edits, cursor, opened, stream, builder, outbox,
                     channel, fragment, base, landing>>
  BY DEF Start
<1>1. PICK seen \in SUBSET FileNames :
         source' = [source EXCEPT ![c] = IF FromTree(c) THEN Listed(From[c], seen)
                                         ELSE Latest(From[c])]
  <2>1. CASE FromTree(c)
    BY <2>1 DEF Start, Seen
  <2>2. CASE ~FromTree(c)
    BY <2>2 DEF Start
  <2> QED BY <2>1, <2>2
<1>2. ~FromTree(c) => table[From[c]] # <<>>
  BY DEF Start
<1> DEFINE found == IF FromTree(c) THEN Listed(From[c], seen) ELSE Latest(From[c])
           made == IF ToTree(c) THEN producer[c] ELSE "running"
<1>3. /\ step' = [step EXCEPT ![c] = "copying"]
      /\ source' = [source EXCEPT ![c] = found]
      /\ producer' = [producer EXCEPT ![c] = made]
  BY <1>1 DEF Start
<1>4. IF FromTree(c) THEN found \in Seq(FileNames) ELSE found \in Seq(Batch)
  <2>1. CASE FromTree(c)
    BY <2>1, ListedType
  <2>2. CASE ~FromTree(c)
    <3>1. From[c] \in Datasets
      BY <2>2, PlacesAssumption DEF FromTree, Places
    <3>2. table[From[c]] \in Seq(Seq(Batch)) /\ table[From[c]] # <<>>
      BY <1>2, <2>2, <3>1 DEF Inv, TypeOK
    <3>3. /\ Len(table[From[c]]) \in 1..Len(table[From[c]])
          /\ found = table[From[c]][Len(table[From[c]])]
      BY <2>2, <3>2, EmptySeq, LenProperties DEF Latest, Last
    <3> QED BY <2>2, <3>2, <3>3, ElementOfSeq
  <2> QED BY <2>1, <2>2
<1>5. found \in Seq(FileNames) \cup Seq(Batch) /\ Len(found) \in Nat
  BY <1>4, LenProperties
<1>6. cursor[c] = 0
  BY <1>0 DEF Inv, IdleOK
<1>7. made \in {"none", "running", "flushed", "finished", "failed"}
  BY DEF Inv, TypeOK
<1>8. FromTree(c) => \A i \in 1..Len(found) : tree[From[c]][found[i]] \in Seq(Cell)
  <2>1. SUFFICES ASSUME FromTree(c), NEW i \in 1..Len(found)
                 PROVE  tree[From[c]][found[i]] \in Seq(Cell)
    OBVIOUS
  <2>2. found[i] \in FileNames /\ tree[From[c]][found[i]] # None
    BY <1>4, <2>1, ListedType, ElementOfSeq
  <2> QED BY <2>1, <2>2 DEF Inv, TypeOK, FromTree
<1> HIDE DEF found
<1>9. /\ source'[c] = found /\ step'[c] = "copying" /\ producer'[c] = made
      /\ \A d \in Copies \ {c} : source'[d] = source[d] /\ step'[d] = step[d]
                                 /\ producer'[d] = producer[d]
  BY <1>3 DEF Inv, TypeOK
<1>10. TypeOK'
  <2>1. /\ step' \in [Copies -> {"none", "idle", "copying", "committing", "ok", "failed"}]
        /\ source' \in [Copies -> Seq(FileNames) \cup Seq(Batch)]
    BY <1>3, <1>5 DEF Inv, TypeOK
  <2>2. producer' \in [Copies -> {"none", "running", "flushed", "finished", "failed"}]
    BY <1>3, <1>7 DEF Inv, TypeOK
  <2>3. \A d \in Copies : /\ source'[d] \in IF FromTree(d) THEN Seq(FileNames) ELSE Seq(Batch)
                          /\ cursor[d] <= Len(source'[d])
    <3>1. SUFFICES ASSUME NEW d \in Copies
                   PROVE  /\ source'[d] \in IF FromTree(d) THEN Seq(FileNames) ELSE Seq(Batch)
                          /\ cursor[d] <= Len(source'[d])
      OBVIOUS
    <3>2. CASE d = c
      BY <1>4, <1>5, <1>6, <1>9, <3>2
    <3>3. CASE d # c
      BY <1>9, <3>3 DEF Inv, TypeOK
    <3> QED BY <3>2, <3>3
  <2> QED BY <1>0, <2>1, <2>2, <2>3 DEF Inv, TypeOK, FromTree
<1>11. OpenedOK' /\ LandingOK'
  BY <1>0 DEF Inv, OpenedOK, LandingOK, FromTree, ToTree
<1>12. SourceOK'
  BY <1>0, <1>8, <1>9 DEF Inv, SourceOK, FromTree
<1>13. TreesOnly'
  BY <1>0, <1>9 DEF Inv, TreesOnly, ToTree
<1>14. CommitsOK'
  BY <1>0, <1>9, CommitsKept
<1>15. IdleOK'
  BY <1>0, <1>9 DEF Inv, IdleOK
<1> QED BY <1>10, <1>11, <1>12, <1>13, <1>14, <1>15 DEF Inv

\* A copy fails before it begins.
LEMMA StartFailsStep ==
    ASSUME Inv, NEW c \in Copies, StartFails(c)
    PROVE  Inv'
<1>0. /\ step[c] = "idle" /\ step' = [step EXCEPT ![c] = "failed"]
      /\ UNCHANGED <<tree, table, edits, base, landing>>
      /\ UNCHANGED sourceVars /\ UNCHANGED pipeVars
  BY DEF StartFails
<1>1. TypeOK'
  BY <1>0 DEF Inv, TypeOK, FromTree, sourceVars, pipeVars
<1>2. OpenedOK' /\ SourceOK' /\ LandingOK'
  BY <1>0, FilesKept DEF sourceVars
<1>3. \A d \in Copies : step'[d] = IF d = c THEN "failed" ELSE step[d]
  BY <1>0 DEF Inv, TypeOK
<1>4. IdleOK' /\ TreesOnly'
  BY <1>0, <1>3 DEF Inv, IdleOK, TreesOnly, ToTree, sourceVars, pipeVars
<1>5. CommitsOK'
  BY <1>0, <1>3, CommitsKept DEF pipeVars
<1> QED BY <1>1, <1>2, <1>4, <1>5 DEF Inv

\* A step that pulls is that of a copy that is under way.
LEMMA PullsUnderWay ==
    ASSUME Inv, NEW c \in Copies, Pulls(c)
    PROVE  step[c] # "idle"
BY DEF Inv, IdleOK, Pulls

\* Every file has a last chunk.
LEMMA LastChunkType ==
    ASSUME NEW n \in Nat
    PROVE  LastChunk(n) \in Nat
<1>1. MaxChunk \in Nat
  BY SizesAssumption
<1> QED BY <1>1, Z3 DEF LastChunk

\* A file that is given a content has it, and the others keep theirs.
LEMMA FileSet ==
    ASSUME TypeOK, NEW t \in Trees, NEW f \in FileNames, NEW content \in Seq(Cell),
           tree' = [tree EXCEPT ![t][f] = content]
    PROVE  /\ tree' \in [Trees -> [FileNames -> Seq(Cell) \cup {None}]]
           /\ tree'[t][f] = content
           /\ \A u \in Trees : \A g \in FileNames : tree[u][g] \in Seq(Cell) => tree'[u][g] \in Seq(Cell)
BY DEF TypeOK

\* A file is opened, and its size is found.
LEMMA OpenFileStep ==
    ASSUME Inv, NEW c \in Copies, OpenFile(c)
    PROVE  Inv'
<1> DEFINE f == source[c][cursor[c] + 1]
           n == Len(tree[From[c]][f])
           file == [file |-> f, size |-> n, rows |-> <<>>]
<1>0. /\ FromTree(c) /\ Pulls(c) /\ cursor[c] < Len(source[c])
      /\ opened' = [opened EXCEPT ![c] = file]
      /\ cursor' = [cursor EXCEPT ![c] = @ + 1]
      /\ UNCHANGED <<tree, table, edits, step, source, base, landing>> /\ UNCHANGED pipeVars
  BY DEF OpenFile
<1>1. cursor[c] \in Nat /\ source[c] \in Seq(FileNames) /\ Len(source[c]) \in Nat
  <2>1. cursor[c] \in Nat /\ source[c] \in Seq(FileNames)
    BY <1>0 DEF Inv, TypeOK
  <2> QED BY <2>1, LenProperties
<1>2. cursor[c] + 1 \in 1..Len(source[c])
  BY <1>0, <1>1
<1>3. f \in FileNames /\ tree[From[c]][f] \in Seq(Cell)
  BY <1>0, <1>1, <1>2, ElementOfSeq DEF Inv, SourceOK
<1>4. n \in Nat /\ LastChunk(n) \in Nat /\ Len(<<>>) <= LastChunk(n)
  <2>1. n \in Nat
    BY <1>3, LenProperties
  <2>2. LastChunk(n) \in Nat
    BY <2>1, LastChunkType
  <2> QED BY <2>1, <2>2
<1>5. file \in [file: FileNames, size: Nat, rows: Seq(Row \cup {Err})]
  <2>1. <<>> \in Seq(Row \cup {Err})
    OBVIOUS
  <2> HIDE DEF f, n
  <2> QED BY <1>3, <1>4, <2>1
<1>6. file.file = f /\ file.size = n /\ file.rows = <<>>
  OBVIOUS
<1> HIDE DEF f, n, file
<1>7. TypeOK'
  <2>1. opened' \in [Copies -> [file: FileNames, size: Nat, rows: Seq(Row \cup {Err})] \cup {None}]
    BY <1>0, <1>5 DEF Inv, TypeOK
  <2>2. cursor' \in [Copies -> Nat] /\ \A d \in Copies : cursor'[d] <= Len(source[d])
    BY <1>0, <1>1, <1>2 DEF Inv, TypeOK
  <2> QED BY <1>0, <2>1, <2>2 DEF Inv, TypeOK, pipeVars, FromTree
<1>8. OpenedOK'
  <2>1. SUFFICES ASSUME NEW d \in Copies, opened'[d] # None
                 PROVE  /\ FromTree(d)
                        /\ tree[From[d]][opened'[d].file] \in Seq(Cell)
                        /\ Len(opened'[d].rows) <= LastChunk(opened'[d].size)
    BY <1>0 DEF OpenedOK, FromTree
  <2>2. CASE d = c
    <3>1. opened'[d] = file
      BY <1>0, <2>2 DEF Inv, TypeOK
    <3> QED BY <1>0, <1>3, <1>4, <1>6, <2>2, <3>1
  <2>3. CASE d # c
    <3>1. opened'[d] = opened[d]
      BY <1>0, <2>3 DEF Inv, TypeOK
    <3> QED BY <2>1, <3>1 DEF Inv, OpenedOK
  <2> QED BY <2>2, <2>3
<1>9. SourceOK' /\ LandingOK'
  BY <1>0 DEF Inv, SourceOK, LandingOK, FromTree, ToTree
<1>10. IdleOK'
  <2>1. \A d \in Copies : step'[d] = "idle" => cursor'[d] = cursor[d]
    BY <1>0, PullsUnderWay DEF Inv, TypeOK
  <2> QED BY <1>0, <2>1 DEF Inv, IdleOK, pipeVars
<1>11. TreesOnly' /\ CommitsOK'
  BY <1>0, CommitsKept DEF Inv, TreesOnly, ToTree, pipeVars
<1> QED BY <1>7, <1>8, <1>9, <1>10, <1>11 DEF Inv

\* The next chunk is read, and after the last the rows are handed over.
LEMMA ReadChunkStep ==
    ASSUME Inv, NEW c \in Copies, ReadChunk(c)
    PROVE  Inv'
<1> DEFINE f == opened[c].file
           n == opened[c].size
           i == Len(opened[c].rows)
           chunk == Chunk(f, n, tree[From[c]][f], i)
<1>a. PICK row \in {chunk, Err} :
         LET made == Append(opened[c].rows, row)
         IN  IF i = LastChunk(n)
             THEN /\ stream' = [stream EXCEPT ![c] = made]
                  /\ opened' = [opened EXCEPT ![c] = None]
             ELSE /\ opened' = [opened EXCEPT ![c].rows = made]
                  /\ UNCHANGED stream
  BY DEF ReadChunk
<1> DEFINE rows == Append(opened[c].rows, row)
<1>0. /\ opened[c] # None
      /\ IF i = LastChunk(n)
         THEN /\ stream' = [stream EXCEPT ![c] = rows]
              /\ opened' = [opened EXCEPT ![c] = None]
         ELSE /\ opened' = [opened EXCEPT ![c].rows = rows]
              /\ UNCHANGED stream
      /\ UNCHANGED <<tree, table, edits, step, source, cursor, builder, outbox, channel,
                     producer, fragment, base, landing>>
  BY <1>a DEF ReadChunk
<1>1. /\ opened[c] \in [file: FileNames, size: Nat, rows: Seq(Row \cup {Err})]
      /\ FromTree(c) /\ tree[From[c]][f] \in Seq(Cell) /\ i <= LastChunk(n)
  BY <1>0 DEF Inv, TypeOK, OpenedOK
<1>2. /\ f \in FileNames /\ n \in Nat /\ opened[c].rows \in Seq(Row \cup {Err}) /\ i \in Nat
  BY <1>1, LenProperties
<1>3. LastChunk(n) \in Nat /\ i \in 0..LastChunk(n)
  <2>1. LastChunk(n) \in Nat
    BY <1>2, LastChunkType
  <2> HIDE DEF i, n
  <2> QED BY <1>1, <1>2, <2>1
<1>4. row \in Row \cup {Err}
  <2> HIDE DEF f, n, i
  <2>1. chunk \in Row \cup {Err}
    BY <1>1, <1>2, <1>3, ChunkType
  <2> QED BY <1>a, <2>1
<1>5. rows \in Seq(Row \cup {Err}) /\ Len(rows) = i + 1
  BY <1>2, <1>4, AppendProperties
<1>6. \A d \in Copies \ {c} : opened'[d] = opened[d]
  BY <1>0 DEF Inv, TypeOK
<1>7. i # LastChunk(n) => /\ opened'[c] \in [file: FileNames, size: Nat, rows: Seq(Row \cup {Err})]
                          /\ opened'[c].file = f /\ opened'[c].size = n /\ opened'[c].rows = rows
  <2> HIDE DEF rows
  <2> SUFFICES ASSUME i # LastChunk(n)
               PROVE  /\ opened'[c] \in [file: FileNames, size: Nat, rows: Seq(Row \cup {Err})]
                      /\ opened'[c].file = f /\ opened'[c].size = n /\ opened'[c].rows = rows
    OBVIOUS
  <2>1. opened'[c] = [opened[c] EXCEPT !.rows = rows]
    BY <1>0 DEF Inv, TypeOK
  <2> QED BY <1>1, <1>5, <2>1
<1>8. i = LastChunk(n) => opened'[c] = None
  BY <1>0 DEF Inv, TypeOK
<1>9. TypeOK'
  <2>1. DOMAIN opened' = Copies /\ opened' = [d \in Copies |-> opened'[d]]
    BY <1>0 DEF Inv, TypeOK
  <2>2. opened' \in [Copies -> [file: FileNames, size: Nat, rows: Seq(Row \cup {Err})] \cup {None}]
    <3>1. \A d \in Copies :
             opened'[d] \in [file: FileNames, size: Nat, rows: Seq(Row \cup {Err})] \cup {None}
      BY <1>6, <1>7, <1>8 DEF Inv, TypeOK
    <3> QED BY <2>1, <3>1
  <2>3. stream' \in [Copies -> Seq(Row \cup {Err})]
    <3> HIDE DEF rows
    <3> QED BY <1>0, <1>5 DEF Inv, TypeOK
  <2> QED BY <1>0, <2>2, <2>3 DEF Inv, TypeOK, FromTree
<1>10. OpenedOK'
  <2>1. SUFFICES ASSUME NEW d \in Copies, opened'[d] # None
                 PROVE  /\ FromTree(d)
                        /\ tree[From[d]][opened'[d].file] \in Seq(Cell)
                        /\ Len(opened'[d].rows) <= LastChunk(opened'[d].size)
    BY <1>0 DEF OpenedOK, FromTree
  <2>2. CASE d = c
    <3>1. i # LastChunk(n)
      BY <1>8, <2>1, <2>2
    <3>2. i + 1 <= LastChunk(n)
      <4> HIDE DEF i, n
      <4> QED BY <1>2, <1>3, <3>1
    <3> HIDE DEF f, n, i, rows
    <3> QED BY <1>1, <1>5, <1>7, <2>2, <3>1, <3>2
  <2>3. CASE d # c
    <3>1. opened'[d] = opened[d]
      BY <1>6, <2>3
    <3> QED BY <2>1, <3>1 DEF Inv, OpenedOK
  <2> QED BY <2>2, <2>3
<1>11. SourceOK' /\ LandingOK' /\ IdleOK'
  BY <1>0 DEF Inv, SourceOK, LandingOK, IdleOK, FromTree, ToTree
<1>12. TreesOnly' /\ CommitsOK'
  BY <1>0, CommitsKept DEF Inv, TreesOnly, ToTree
<1> QED BY <1>9, <1>10, <1>11, <1>12 DEF Inv

\* A batch is scanned, and read back as rows.
LEMMA ReadBatchStep ==
    ASSUME Inv, NEW c \in Copies, ReadBatch(c)
    PROVE  Inv'
<1> DEFINE rows == IntoVec(source[c][cursor[c] + 1])
<1>0. /\ ~FromTree(c) /\ Pulls(c) /\ cursor[c] < Len(source[c])
      /\ cursor' = [cursor EXCEPT ![c] = @ + 1]
      /\ stream' = [stream EXCEPT ![c] = rows]
      /\ UNCHANGED <<tree, table, edits, step, source, opened, builder, outbox, channel,
                     producer, fragment, base, landing>>
  BY DEF ReadBatch
<1>1. cursor[c] \in Nat /\ source[c] \in Seq(Batch) /\ Len(source[c]) \in Nat
  <2>1. cursor[c] \in Nat /\ source[c] \in Seq(Batch)
    BY <1>0 DEF Inv, TypeOK
  <2> QED BY <2>1, LenProperties
<1>2. cursor[c] + 1 \in 1..Len(source[c])
  BY <1>0, <1>1
<1>3. rows \in Batch
  <2>1. source[c][cursor[c] + 1] \in Batch
    BY <1>1, <1>2, ElementOfSeq
  <2> QED BY <2>1, IntoVecType
<1>4. rows \in Seq(Row \cup {Err})
  <2> HIDE DEF rows
  <2>1. rows \in Seq(Row) /\ Row \subseteq Row \cup {Err}
    BY <1>3 DEF Batch
  <2> QED BY <2>1, SeqMonotonic
<1> HIDE DEF rows
<1>5. TypeOK'
  <2>1. stream' \in [Copies -> Seq(Row \cup {Err})]
    BY <1>0, <1>4 DEF Inv, TypeOK
  <2>2. cursor' \in [Copies -> Nat] /\ \A d \in Copies : cursor'[d] <= Len(source[d])
    BY <1>0, <1>1, <1>2 DEF Inv, TypeOK
  <2> QED BY <1>0, <2>1, <2>2 DEF Inv, TypeOK, FromTree
<1>6. OpenedOK' /\ SourceOK' /\ LandingOK'
  BY <1>0 DEF Inv, OpenedOK, SourceOK, LandingOK, FromTree, ToTree
<1>7. IdleOK'
  <2>1. \A d \in Copies : step'[d] = "idle" => cursor'[d] = cursor[d]
    BY <1>0, PullsUnderWay DEF Inv, TypeOK
  <2> QED BY <1>0, <2>1 DEF Inv, IdleOK
<1>8. TreesOnly' /\ CommitsOK'
  BY <1>0, CommitsKept DEF Inv, TreesOnly, ToTree
<1> QED BY <1>5, <1>6, <1>7, <1>8 DEF Inv

\* Nothing of a file or a batch can be loaded.
LEMMA LoadFailsStep ==
    ASSUME Inv, NEW c \in Copies, LoadFails(c)
    PROVE  Inv'
<1>0. /\ Pulls(c) /\ cursor[c] < Len(source[c])
      /\ cursor' = [cursor EXCEPT ![c] = @ + 1]
      /\ stream' = [stream EXCEPT ![c] = <<Err>>]
      /\ UNCHANGED <<tree, table, edits, step, source, opened, builder, outbox, channel,
                     producer, fragment, base, landing>>
  BY DEF LoadFails
<1>1. cursor[c] \in Nat /\ Len(source[c]) \in Nat
  <2>1. cursor[c] \in Nat /\ (source[c] \in Seq(FileNames) \/ source[c] \in Seq(Batch))
    BY DEF Inv, TypeOK
  <2> QED BY <2>1, LenProperties
<1>2. <<Err>> \in Seq(Row \cup {Err})
  OBVIOUS
<1>3. TypeOK'
  <2>1. stream' \in [Copies -> Seq(Row \cup {Err})]
    BY <1>0, <1>2 DEF Inv, TypeOK
  <2>2. cursor' \in [Copies -> Nat] /\ \A d \in Copies : cursor'[d] <= Len(source[d])
    BY <1>0, <1>1 DEF Inv, TypeOK
  <2> QED BY <1>0, <2>1, <2>2 DEF Inv, TypeOK, FromTree
<1>4. OpenedOK' /\ SourceOK' /\ LandingOK'
  BY <1>0 DEF Inv, OpenedOK, SourceOK, LandingOK, FromTree, ToTree
<1>5. IdleOK'
  <2>1. \A d \in Copies : step'[d] = "idle" => cursor'[d] = cursor[d]
    BY <1>0, PullsUnderWay DEF Inv, TypeOK
  <2> QED BY <1>0, <2>1 DEF Inv, IdleOK
<1>6. TreesOnly' /\ CommitsOK'
  BY <1>0, CommitsKept DEF Inv, TreesOnly, ToTree
<1> QED BY <1>3, <1>4, <1>5, <1>6 DEF Inv

----------------------------------------------------------------------------
(* Into a local tree. *)

\* A write that may fail leaves cells.
LEMMA WrittenType ==
    ASSUME NEW c, NEW data \in Seq(Cell), NEW part \in Written(c, data)
    PROVE  part \in Seq(Cell)
<1>1. Len(data) \in Nat
  BY LenProperties
<1>2. ASSUME NEW k \in 0..Len(data)
      PROVE  SubSeq(data, 1, k) \in Seq(Cell)
  <2>1. k \in Nat /\ k <= Len(data)
    BY <1>1
  <2>2. \A i \in 1..k : data[i] \in Cell
    <3>1. ASSUME NEW i \in 1..k
          PROVE  data[i] \in Cell
      <4>1. i \in 1..Len(data)
        BY <1>1, <2>1
      <4> QED BY <4>1, ElementOfSeq
    <3> QED BY <3>1
  <2>3. 1 \in Nat \ {0} /\ k <= Len(data)
    BY <2>1
  <2> QED BY <2>1, <2>2, <2>3, SubSeqProperties
<1> QED BY <1>2 DEF Written

\* Filling up and cutting off leaves cells.
LEMMA ResizeType ==
    ASSUME NEW content \in Seq(Cell), NEW n \in Nat
    PROVE  Resize(content, n) \in Seq(Cell)
<1>1. \A i \in 1..n : (IF i <= Len(content) THEN content[i] ELSE Hole) \in Cell
  <2>1. Len(content) \in Nat /\ \A i \in 1..Len(content) : content[i] \in Cell
    BY LenProperties, ElementOfSeq
  <2>2. Hole \in Cell
    BY DEF Hole, Cell
  <2> QED BY <2>1, <2>2
<1>2. Resize(content, n) \in [1..n -> Cell]
  BY <1>1 DEF Resize
<1> QED BY <1>2, SeqDef

\* The row that is dumped, its file as it was, and the write that may be left behind.
LEMMA DumpedRow ==
    ASSUME Inv, NEW c \in Copies, ToTree(c), stream[c] # <<>>, Head(stream[c]) # Err,
           NEW r, r = Head(stream[c])
    PROVE  /\ r \in Row /\ Tail(stream[c]) \in Seq(Row \cup {Err})
           /\ r.file \in FileNames /\ r.data \in Seq(Cell)
           /\ r.meta # None => r.meta \in MetadataRow
           /\ To[c] \in Trees
           /\ Content(To[c], r.file) \in Seq(Cell)
           /\ WriteOf(c, r) \in [copy: Copies, file: FileNames, chunk: Nat, data: Seq(Cell)]
           /\ WriteOf(c, r).copy = c /\ WriteOf(c, r).file = r.file
<1>1. stream[c] \in Seq(Row \cup {Err})
  BY DEF Inv, TypeOK
<1>2. r \in Row /\ Tail(stream[c]) \in Seq(Row \cup {Err})
  BY <1>1, HeadTailProperties
<1>3. r.file \in FileNames /\ r.chunk \in Nat /\ r.data \in Seq(Cell)
      /\ (r.meta # None => r.meta \in MetadataRow)
  BY <1>2 DEF Row
<1>4. To[c] \in Trees
  BY DEF ToTree
<1>5. Content(To[c], r.file) \in Seq(Cell)
  BY <1>3, <1>4 DEF Inv, TypeOK, Content
<1>6. /\ WriteOf(c, r) \in [copy: Copies, file: FileNames, chunk: Nat, data: Seq(Cell)]
      /\ WriteOf(c, r).copy = c /\ WriteOf(c, r).file = r.file
  BY <1>3 DEF WriteOf
<1> QED BY <1>2, <1>3, <1>4, <1>5, <1>6

\* A file that is written to is there, and so is one that a write is left behind for.
LEMMA FileWritten ==
    ASSUME Inv, NEW c \in Copies, ToTree(c), NEW f \in FileNames,
           tree'[To[c]][f] \in Seq(Cell),
           \A u \in Trees : \A g \in FileNames :
              tree[u][g] \in Seq(Cell) => tree'[u][g] \in Seq(Cell),
           NEW write, write.copy = c, write.file = f,
           write \in [copy: Copies, file: FileNames, chunk: Nat, data: Seq(Cell)],
           landing' \subseteq landing \cup {write}, UNCHANGED <<source, opened>>
    PROVE  /\ landing' \subseteq [copy: Copies, file: FileNames, chunk: Nat, data: Seq(Cell)]
           /\ OpenedOK' /\ SourceOK' /\ LandingOK'
<1>4. landing' \subseteq [copy: Copies, file: FileNames, chunk: Nat, data: Seq(Cell)]
  BY DEF Inv, TypeOK
<1>5. OpenedOK'
  <2>1. SUFFICES ASSUME NEW d \in Copies, opened[d] # None
                 PROVE  /\ FromTree(d)
                        /\ tree'[From[d]][opened[d].file] \in Seq(Cell)
                        /\ Len(opened[d].rows) <= LastChunk(opened[d].size)
    BY DEF OpenedOK, FromTree
  <2>2. opened[d].file \in FileNames
    BY <2>1 DEF Inv, TypeOK
  <2> QED BY <2>1, <2>2 DEF Inv, OpenedOK, FromTree
<1>6. SourceOK'
  <2>1. SUFFICES ASSUME NEW d \in Copies, FromTree(d), NEW i \in 1..Len(source[d])
                 PROVE  tree'[From[d]][source[d][i]] \in Seq(Cell)
    BY DEF SourceOK, FromTree
  <2>2. source[d] \in Seq(FileNames)
    BY <2>1 DEF Inv, TypeOK
  <2>3. source[d][i] \in FileNames
    BY <2>2, ElementOfSeq
  <2> QED BY <2>1, <2>3 DEF Inv, SourceOK, FromTree
<1>7. LandingOK'
  <2>1. SUFFICES ASSUME NEW w \in landing'
                 PROVE  ToTree(w.copy) /\ tree'[To[w.copy]][w.file] \in Seq(Cell)
    BY DEF LandingOK, ToTree
  <2>2. CASE w = write
    BY <2>2
  <2>3. CASE w # write
    <3>1. w \in landing
      BY <2>1, <2>3
    <3>2. w.file \in FileNames
      BY <3>1 DEF Inv, TypeOK
    <3> QED BY <3>1, <3>2 DEF Inv, LandingOK, ToTree
  <2> QED BY <2>2, <2>3
<1> QED BY <1>4, <1>5, <1>6, <1>7

\* A row is written to its file, or its write is left behind.
LEMMA DumpStep ==
    ASSUME Inv, NEW c \in Copies, Dump(c)
    PROVE  Inv'
<1>0. /\ ToTree(c) /\ stream[c] # <<>> /\ Head(stream[c]) # Err
      /\ stream' = [stream EXCEPT ![c] = Tail(@)]
      /\ UNCHANGED <<table, edits, step, builder, outbox, channel, producer, fragment, base>>
      /\ UNCHANGED sourceVars
  BY DEF Dump
<1>1. PICK r : r = Head(stream[c])
  OBVIOUS
<1>2. /\ r \in Row /\ Tail(stream[c]) \in Seq(Row \cup {Err})
      /\ r.file \in FileNames /\ r.data \in Seq(Cell)
      /\ r.meta # None => r.meta \in MetadataRow
      /\ To[c] \in Trees
      /\ Content(To[c], r.file) \in Seq(Cell)
      /\ WriteOf(c, r) \in [copy: Copies, file: FileNames, chunk: Nat, data: Seq(Cell)]
      /\ WriteOf(c, r).copy = c /\ WriteOf(c, r).file = r.file
  BY <1>0, <1>1, DumpedRow
<1>3. PICK content \in Seq(Cell) :
         /\ tree' = [tree EXCEPT ![To[c]][r.file] = content]
         /\ landing' \subseteq landing \cup {WriteOf(c, r)}
  <2>1. CASE r.meta # None
    <3>1. PICK data \in Written(c, r.data) :
             tree' = [tree EXCEPT ![To[c]][r.file] =
                        Resize(Content(To[c], r.file) \o data, r.meta["size"].n)]
      BY <1>1, <2>1 DEF Dump
    <3>2. data \in Seq(Cell)
      BY <1>2, WrittenType
    <3>3. r.meta["size"].n \in Nat
      BY <1>2, <2>1 DEF MetadataRow, Columns
    <3>4. Content(To[c], r.file) \o data \in Seq(Cell)
      BY <1>2, <3>2, ConcatProperties
    <3>5. Resize(Content(To[c], r.file) \o data, r.meta["size"].n) \in Seq(Cell)
      BY <3>3, <3>4, ResizeType
    <3>6. UNCHANGED landing
      BY <1>1, <2>1 DEF Dump
    <3> QED BY <3>1, <3>5, <3>6
  <2>2. CASE r.meta = None
    <3>1. /\ tree' = [tree EXCEPT ![To[c]][r.file] = Content(To[c], r.file)]
          /\ landing' = landing \cup {WriteOf(c, r)}
      BY <1>1, <2>2 DEF Dump
    <3> QED BY <1>2, <3>1
  <2> QED BY <2>1, <2>2
<1>4. PICK f, t, write : f = r.file /\ t = To[c] /\ write = WriteOf(c, r)
  OBVIOUS
<1>5. /\ TypeOK /\ t \in Trees /\ f \in FileNames /\ content \in Seq(Cell)
      /\ tree' = [tree EXCEPT ![t][f] = content]
  BY <1>2, <1>3, <1>4 DEF Inv
<1>6. /\ tree' \in [Trees -> [FileNames -> Seq(Cell) \cup {None}]]
      /\ tree'[t][f] = content
      /\ \A u \in Trees : \A g \in FileNames : tree[u][g] \in Seq(Cell) => tree'[u][g] \in Seq(Cell)
  BY <1>5, FileSet
<1>7. /\ landing' \subseteq [copy: Copies, file: FileNames, chunk: Nat, data: Seq(Cell)]
      /\ OpenedOK' /\ SourceOK' /\ LandingOK'
  <2>1. /\ write.copy = c /\ write.file = f
        /\ write \in [copy: Copies, file: FileNames, chunk: Nat, data: Seq(Cell)]
        /\ landing' \subseteq landing \cup {write} /\ UNCHANGED <<source, opened>>
    BY <1>0, <1>2, <1>3, <1>4 DEF sourceVars
  <2>2. tree'[To[c]][f] \in Seq(Cell)
    BY <1>4, <1>5, <1>6
  <2> QED BY <1>0, <1>5, <1>6, <2>1, <2>2, FileWritten
<1>8. TypeOK'
  <2>1. stream' \in [Copies -> Seq(Row \cup {Err})]
    BY <1>0, <1>2 DEF Inv, TypeOK
  <2> QED BY <1>0, <1>6, <1>7, <2>1 DEF Inv, TypeOK, sourceVars, FromTree
<1>9. IdleOK' /\ TreesOnly' /\ CommitsOK'
  BY <1>0, CommitsKept DEF Inv, IdleOK, TreesOnly, ToTree, sourceVars
<1> QED BY <1>7, <1>8, <1>9 DEF Inv

\* The copy fails at a row, before, while or after it is written.
LEMMA DumpFailsStep ==
    ASSUME Inv, NEW c \in Copies, DumpFails(c)
    PROVE  Inv'
<1>0. /\ ToTree(c) /\ step[c] = "copying" /\ stream[c] # <<>> /\ Head(stream[c]) # Err
      /\ step' = [step EXCEPT ![c] = "failed"]
      /\ UNCHANGED <<table, edits, base>> /\ UNCHANGED sourceVars /\ UNCHANGED pipeVars
  BY DEF DumpFails
<1>1. PICK r : r = Head(stream[c])
  OBVIOUS
<1>2. /\ r.file \in FileNames /\ r.data \in Seq(Cell)
      /\ To[c] \in Trees
      /\ Content(To[c], r.file) \in Seq(Cell)
      /\ WriteOf(c, r) \in [copy: Copies, file: FileNames, chunk: Nat, data: Seq(Cell)]
      /\ WriteOf(c, r).copy = c /\ WriteOf(c, r).file = r.file
  BY <1>0, <1>1, DumpedRow
<1>3. \/ UNCHANGED <<tree, landing>>
      \/ \E content \in Seq(Cell) :
            /\ tree' = [tree EXCEPT ![To[c]][r.file] = content]
            /\ landing' \subseteq landing \cup {WriteOf(c, r)}
  <2>1. CASE \E data \in Written(c, r.data) :
               /\ tree' = [tree EXCEPT ![To[c]][r.file] = Content(To[c], r.file) \o data]
               /\ UNCHANGED landing
    <3>1. PICK data \in Written(c, r.data) :
             /\ tree' = [tree EXCEPT ![To[c]][r.file] = Content(To[c], r.file) \o data]
             /\ UNCHANGED landing
      BY <2>1
    <3>2. data \in Seq(Cell)
      BY <1>2, WrittenType
    <3>3. Content(To[c], r.file) \o data \in Seq(Cell)
      BY <1>2, <3>2, ConcatProperties
    <3> QED BY <3>1, <3>3
  <2>2. CASE /\ tree' = [tree EXCEPT ![To[c]][r.file] = Content(To[c], r.file)]
             /\ landing' = landing \cup {WriteOf(c, r)}
    BY <1>2, <2>2
  <2>3. \/ UNCHANGED <<tree, landing>>
        \/ /\ \E data \in Written(c, r.data) :
                 tree' = [tree EXCEPT ![To[c]][r.file] = Content(To[c], r.file) \o data]
           /\ UNCHANGED landing
        \/ /\ tree' = [tree EXCEPT ![To[c]][r.file] = Content(To[c], r.file)]
           /\ landing' = landing \cup {WriteOf(c, r)}
    BY <1>1 DEF DumpFails
  <2> QED BY <2>1, <2>2, <2>3
<1>4. PICK f, t, write : f = r.file /\ t = To[c] /\ write = WriteOf(c, r)
  OBVIOUS
<1>6. /\ tree' \in [Trees -> [FileNames -> Seq(Cell) \cup {None}]]
      /\ landing' \subseteq [copy: Copies, file: FileNames, chunk: Nat, data: Seq(Cell)]
      /\ OpenedOK' /\ SourceOK' /\ LandingOK'
  <2>1. CASE UNCHANGED <<tree, landing>>
    BY <1>0, <2>1, FilesKept DEF Inv, TypeOK, sourceVars
  <2>2. ASSUME NEW content \in Seq(Cell),
               tree' = [tree EXCEPT ![To[c]][r.file] = content],
               landing' \subseteq landing \cup {WriteOf(c, r)}
        PROVE  /\ tree' \in [Trees -> [FileNames -> Seq(Cell) \cup {None}]]
               /\ landing' \subseteq [copy: Copies, file: FileNames, chunk: Nat, data: Seq(Cell)]
               /\ OpenedOK' /\ SourceOK' /\ LandingOK'
    <3>1. /\ TypeOK /\ t \in Trees /\ f \in FileNames /\ content \in Seq(Cell)
          /\ tree' = [tree EXCEPT ![t][f] = content]
      BY <1>2, <1>4, <2>2 DEF Inv
    <3>2. /\ tree' \in [Trees -> [FileNames -> Seq(Cell) \cup {None}]]
          /\ tree'[t][f] = content
          /\ \A u \in Trees : \A g \in FileNames : tree[u][g] \in Seq(Cell) => tree'[u][g] \in Seq(Cell)
      BY <3>1, FileSet
    <3>3. /\ write.copy = c /\ write.file = f
          /\ write \in [copy: Copies, file: FileNames, chunk: Nat, data: Seq(Cell)]
          /\ landing' \subseteq landing \cup {write} /\ UNCHANGED <<source, opened>>
      BY <1>0, <1>2, <1>4, <2>2 DEF sourceVars
    <3>4. tree'[To[c]][f] \in Seq(Cell)
      BY <1>4, <3>1, <3>2
    <3> QED BY <1>0, <3>1, <3>2, <3>3, <3>4, FileWritten
  <2> QED BY <1>3, <2>1, <2>2
<1>7. /\ step' \in [Copies -> {"none", "idle", "copying", "committing", "ok", "failed"}]
      /\ step'[c] = "failed" /\ \A d \in Copies \ {c} : step'[d] = step[d]
  BY <1>0 DEF Inv, TypeOK
<1>8. TypeOK'
  BY <1>0, <1>6, <1>7 DEF Inv, TypeOK, sourceVars, pipeVars, FromTree
<1>9. IdleOK' /\ TreesOnly' /\ CommitsOK'
  BY <1>0, <1>7, CommitsKept DEF Inv, IdleOK, TreesOnly, ToTree, sourceVars, pipeVars
<1> QED BY <1>6, <1>8, <1>9 DEF Inv

\* A write that was left behind appends to its file, all or a part.
LEMMA LandStep ==
    ASSUME Inv, NEW w \in landing, Land(w) \/ LandFails(w)
    PROVE  Inv'
<1>0. /\ landing' = landing \ {w}
      /\ UNCHANGED <<table, edits, step, base>> /\ UNCHANGED sourceVars /\ UNCHANGED pipeVars
  BY DEF Land, LandFails
<1>1. /\ w.copy \in Copies /\ w.file \in FileNames /\ w.data \in Seq(Cell)
      /\ To[w.copy] \in Trees /\ tree[To[w.copy]][w.file] \in Seq(Cell)
  BY DEF Inv, TypeOK, LandingOK, ToTree
<1>2. PICK data \in Seq(Cell) : tree' = [tree EXCEPT ![To[w.copy]][w.file] = @ \o data]
  <2>1. CASE Land(w)
    BY <1>1, <2>1 DEF Land
  <2>2. CASE LandFails(w)
    <3>1. PICK data \in Written(w.copy, w.data) :
             tree' = [tree EXCEPT ![To[w.copy]][w.file] = @ \o data]
      BY <2>2 DEF LandFails
    <3>2. data \in Seq(Cell)
      BY <1>1, WrittenType
    <3> QED BY <3>1, <3>2
  <2> QED BY <2>1, <2>2
<1>3. /\ tree' \in [Trees -> [FileNames -> Seq(Cell) \cup {None}]]
      /\ \A u \in Trees : \A g \in FileNames : tree[u][g] \in Seq(Cell) => tree'[u][g] \in Seq(Cell)
  <2>1. tree[To[w.copy]][w.file] \o data \in Seq(Cell)
    BY <1>1, ConcatProperties
  <2> QED BY <1>1, <1>2, <2>1, FileSet DEF Inv
<1>4. TypeOK'
  BY <1>0, <1>3 DEF Inv, TypeOK, sourceVars, pipeVars, FromTree
<1>5. OpenedOK' /\ SourceOK' /\ LandingOK'
  BY <1>0, <1>3, FilesKept DEF sourceVars
<1>6. IdleOK' /\ TreesOnly' /\ CommitsOK'
  BY <1>0, CommitsKept DEF Inv, IdleOK, TreesOnly, ToTree, sourceVars, pipeVars
<1> QED BY <1>4, <1>5, <1>6 DEF Inv

\* The copy into a tree ends, well or with an error.
LEMMA EndStep ==
    ASSUME Inv, NEW c \in Copies, StreamFails(c) \/ DumpEnds(c)
    PROVE  Inv'
<1>0. /\ ToTree(c) /\ step[c] = "copying"
      /\ \E end \in {"ok", "failed"} : step' = [step EXCEPT ![c] = end]
      /\ UNCHANGED <<tree, table, edits, base, landing>>
      /\ UNCHANGED sourceVars /\ UNCHANGED pipeVars
  BY DEF StreamFails, DumpEnds
<1>1. /\ step' \in [Copies -> {"none", "idle", "copying", "committing", "ok", "failed"}]
      /\ step'[c] \in {"ok", "failed"} /\ \A d \in Copies \ {c} : step'[d] = step[d]
  BY <1>0 DEF Inv, TypeOK
<1>2. TypeOK'
  BY <1>0, <1>1 DEF Inv, TypeOK, sourceVars, pipeVars, FromTree
<1>3. OpenedOK' /\ SourceOK' /\ LandingOK'
  BY <1>0, FilesKept DEF sourceVars
<1>4. IdleOK' /\ TreesOnly'
  BY <1>0, <1>1 DEF Inv, IdleOK, TreesOnly, ToTree, sourceVars, pipeVars
<1>5. CommitsOK'
  BY <1>0, <1>1, CommitsKept DEF pipeVars
<1> QED BY <1>2, <1>3, <1>4, <1>5 DEF Inv

----------------------------------------------------------------------------
(* Into a dataset: the background task. *)

\* A row is packed into the batch, or begins the next.
LEMMA PushStep ==
    ASSUME Inv, NEW c \in Copies, Push(c)
    PROVE  Inv'
<1> DEFINE r == Head(stream[c])
           full == TotalSize(builder[c]) + r.size > MaxBuffer
           packed == IF full THEN <<r>> ELSE Append(builder[c], r)
           sent == IF full /\ builder[c] # <<>> THEN <<builder[c]>> ELSE <<>>
<1>0. /\ producer[c] = "running" /\ stream[c] # <<>> /\ r # Err
      /\ builder' = [builder EXCEPT ![c] = packed]
      /\ outbox' = [outbox EXCEPT ![c] = sent]
      /\ stream' = [stream EXCEPT ![c] = Tail(@)]
      /\ UNCHANGED <<tree, table, edits, step, channel, producer, fragment, base, landing>>
      /\ UNCHANGED sourceVars
  BY DEF Push
<1>1. stream[c] \in Seq(Row \cup {Err}) /\ builder[c] \in Seq(Row)
  BY DEF Inv, TypeOK, Batch
<1>2. r \in Row /\ Tail(stream[c]) \in Seq(Row \cup {Err})
  BY <1>0, <1>1, HeadTailProperties
<1>3. packed \in Batch
  <2> HIDE DEF r, full
  <2>1. <<r>> \in Seq(Row) /\ Append(builder[c], r) \in Seq(Row)
    BY <1>1, <1>2, AppendProperties
  <2> QED BY <2>1 DEF Batch
<1>4. sent \in Seq(Batch) /\ Len(sent) <= 1
  <2> HIDE DEF full
  <2>1. builder[c] \in Batch
    BY <1>1 DEF Batch
  <2> QED BY <2>1
<1> HIDE DEF r, full, packed, sent
<1>5. ~ToTree(c) /\ step[c] # "idle"
  BY <1>0 DEF Inv, TreesOnly, IdleOK
<1>6. \A d \in Copies \ {c} : builder'[d] = builder[d] /\ outbox'[d] = outbox[d]
  BY <1>0 DEF Inv, TypeOK
<1>7. TypeOK'
  <2>1. /\ builder' \in [Copies -> Batch] /\ outbox' \in [Copies -> Seq(Batch)]
        /\ stream' \in [Copies -> Seq(Row \cup {Err})]
    BY <1>0, <1>2, <1>3, <1>4 DEF Inv, TypeOK
  <2>2. \A d \in Copies : Len(outbox'[d]) <= 1
    <3>1. outbox'[c] = sent
      BY <1>0 DEF Inv, TypeOK
    <3> QED BY <1>4, <1>6, <3>1 DEF Inv, TypeOK
  <2> QED BY <1>0, <2>1, <2>2 DEF Inv, TypeOK, sourceVars, FromTree
<1>8. OpenedOK' /\ SourceOK' /\ LandingOK'
  BY <1>0, FilesKept DEF sourceVars
<1>9. IdleOK' /\ TreesOnly'
  BY <1>0, <1>5, <1>6 DEF Inv, IdleOK, TreesOnly, ToTree, sourceVars
<1>10. CommitsOK'
  BY <1>0, CommitsKept
<1> QED BY <1>7, <1>8, <1>9, <1>10 DEF Inv

\* The task ends with an error.
LEMMA ProducerFailsStep ==
    ASSUME Inv, NEW c \in Copies, ProducerFails(c)
    PROVE  Inv'
<1>0. /\ producer[c] = "running" /\ producer' = [producer EXCEPT ![c] = "failed"]
      /\ UNCHANGED <<tree, table, edits, step, stream, builder, outbox, channel, fragment,
                     base, landing>>
      /\ UNCHANGED sourceVars
  BY DEF ProducerFails
<1>1. ~ToTree(c) /\ step[c] # "idle" /\ \A d \in Copies \ {c} : producer'[d] = producer[d]
  BY <1>0 DEF Inv, TreesOnly, IdleOK, TypeOK
<1>2. TypeOK'
  BY <1>0 DEF Inv, TypeOK, sourceVars, FromTree
<1>3. OpenedOK' /\ SourceOK' /\ LandingOK'
  BY <1>0, FilesKept DEF sourceVars
<1>4. IdleOK' /\ TreesOnly'
  BY <1>0, <1>1 DEF Inv, IdleOK, TreesOnly, ToTree, sourceVars
<1>5. CommitsOK'
  BY <1>0, CommitsKept
<1> QED BY <1>2, <1>3, <1>4, <1>5 DEF Inv

\* The rest is flushed.
LEMMA FlushStep ==
    ASSUME Inv, NEW c \in Copies, Flush(c)
    PROVE  Inv'
<1> DEFINE sent == IF builder[c] = <<>> THEN <<>> ELSE <<builder[c]>>
           next == IF builder[c] = <<>> THEN "finished" ELSE "flushed"
<1>0. /\ producer[c] = "running"
      /\ outbox' = [outbox EXCEPT ![c] = sent]
      /\ builder' = [builder EXCEPT ![c] = <<>>]
      /\ producer' = [producer EXCEPT ![c] = next]
      /\ UNCHANGED <<tree, table, edits, step, stream, channel, fragment, base, landing>>
      /\ UNCHANGED sourceVars
  BY DEF Flush
<1>1. sent \in Seq(Batch) /\ Len(sent) <= 1 /\ <<>> \in Batch
  BY DEF Inv, TypeOK, Batch
<1>2. next \in {"none", "running", "flushed", "finished", "failed"}
  OBVIOUS
<1> HIDE DEF sent, next
<1>3. /\ ~ToTree(c) /\ step[c] # "idle"
      /\ \A d \in Copies \ {c} : /\ producer'[d] = producer[d] /\ outbox'[d] = outbox[d]
                                 /\ builder'[d] = builder[d]
  BY <1>0 DEF Inv, TreesOnly, IdleOK, TypeOK
<1>4. TypeOK'
  <2>1. /\ builder' \in [Copies -> Batch] /\ outbox' \in [Copies -> Seq(Batch)]
        /\ producer' \in [Copies -> {"none", "running", "flushed", "finished", "failed"}]
    BY <1>0, <1>1, <1>2 DEF Inv, TypeOK
  <2>2. \A d \in Copies : Len(outbox'[d]) <= 1
    <3>1. outbox'[c] = sent
      BY <1>0 DEF Inv, TypeOK
    <3> QED BY <1>1, <1>3, <3>1 DEF Inv, TypeOK
  <2> QED BY <1>0, <2>1, <2>2 DEF Inv, TypeOK, sourceVars, FromTree
<1>5. OpenedOK' /\ SourceOK' /\ LandingOK'
  BY <1>0, FilesKept DEF sourceVars
<1>6. IdleOK' /\ TreesOnly'
  BY <1>0, <1>3 DEF Inv, IdleOK, TreesOnly, ToTree, sourceVars
<1>7. CommitsOK'
  BY <1>0, CommitsKept
<1> QED BY <1>4, <1>5, <1>6, <1>7 DEF Inv

\* A batch goes into the channel when there is room, or the receiver has gone.
LEMMA SendStep ==
    ASSUME Inv, NEW c \in Copies, Send(c)
    PROVE  Inv'
<1>0. /\ outbox[c] # <<>>
      /\ outbox' = [outbox EXCEPT ![c] = <<>>]
      /\ UNCHANGED <<tree, table, edits, step, stream, builder, fragment, base, landing>>
      /\ UNCHANGED sourceVars
  BY DEF Send
<1>1. \/ producer' = [producer EXCEPT ![c] = "failed"] /\ UNCHANGED channel
      \/ /\ Len(channel[c]) < MaxThreads
         /\ channel' = [channel EXCEPT ![c] = @ \o outbox[c]]
         /\ producer' = [producer EXCEPT ![c] = IF @ = "flushed" THEN "finished" ELSE @]
  BY DEF Send
<1>2. /\ channel[c] \in Seq(Batch) /\ outbox[c] \in Seq(Batch) /\ Len(outbox[c]) <= 1
      /\ \A d \in Copies : Len(channel[d]) <= MaxThreads /\ Len(outbox[d]) <= 1
  BY DEF Inv, TypeOK
<1>3. /\ channel[c] \o outbox[c] \in Seq(Batch)
      /\ Len(channel[c] \o outbox[c]) = Len(channel[c]) + Len(outbox[c])
      /\ Len(channel[c]) \in Nat /\ Len(outbox[c]) \in Nat
  BY <1>2, ConcatProperties, LenProperties
<1>4. ~ToTree(c)
  BY <1>0 DEF Inv, TreesOnly
<1>5. /\ channel' \in [Copies -> Seq(Batch)] /\ outbox' \in [Copies -> Seq(Batch)]
      /\ producer' \in [Copies -> {"none", "running", "flushed", "finished", "failed"}]
      /\ outbox'[c] = <<>>
      /\ channel'[c] = channel[c]
         \/ (Len(channel[c]) < MaxThreads /\ channel'[c] = channel[c] \o outbox[c])
      /\ \A d \in Copies \ {c} : /\ producer'[d] = producer[d] /\ outbox'[d] = outbox[d]
                                 /\ channel'[d] = channel[d]
  <2>1. <<>> \in Seq(Batch)
    OBVIOUS
  <2>2. outbox' \in [Copies -> Seq(Batch)] /\ outbox'[c] = <<>>
        /\ \A d \in Copies \ {c} : outbox'[d] = outbox[d]
    BY <1>0, <2>1 DEF Inv, TypeOK
  <2>3. /\ producer' \in [Copies -> {"none", "running", "flushed", "finished", "failed"}]
        /\ \A d \in Copies \ {c} : producer'[d] = producer[d]
    BY <1>1 DEF Inv, TypeOK
  <2>4. /\ channel' \in [Copies -> Seq(Batch)]
        /\ channel'[c] = channel[c]
           \/ (Len(channel[c]) < MaxThreads /\ channel'[c] = channel[c] \o outbox[c])
        /\ \A d \in Copies \ {c} : channel'[d] = channel[d]
    <3> DEFINE longer == channel[c] \o outbox[c]
    <3>1. channel \in [Copies -> Seq(Batch)] /\ longer \in Seq(Batch)
      BY <1>3 DEF Inv, TypeOK
    <3>2. \/ channel' = channel
          \/ Len(channel[c]) < MaxThreads /\ channel' = [channel EXCEPT ![c] = longer]
      BY <1>1
    <3> HIDE DEF longer
    <3>3. /\ channel' \in [Copies -> Seq(Batch)]
          /\ channel'[c] = channel[c] \/ (Len(channel[c]) < MaxThreads /\ channel'[c] = longer)
          /\ \A d \in Copies \ {c} : channel'[d] = channel[d]
      BY <3>1, <3>2
    <3> QED BY <3>3 DEF longer
  <2> QED BY <2>2, <2>3, <2>4
<1>6. \A d \in Copies : Len(channel'[d]) <= MaxThreads /\ Len(outbox'[d]) <= 1
  <2>1. MaxThreads \in Nat /\ Len(<<>>) = 0
    BY SizesAssumption
  <2>2. Len(channel'[c]) <= MaxThreads /\ Len(outbox'[c]) <= 1
    <3>1. CASE channel'[c] = channel[c]
      BY <1>2, <1>5, <2>1, <3>1
    <3>2. CASE Len(channel[c]) < MaxThreads /\ channel'[c] = channel[c] \o outbox[c]
      <4>1. Len(channel[c]) + Len(outbox[c]) <= MaxThreads
        <5> DEFINE m == Len(channel[c])
                   n == Len(outbox[c])
        <5>1. m \in Nat /\ n \in Nat /\ n <= 1 /\ m < MaxThreads
          BY <1>2, <1>3, <3>2
        <5> HIDE DEF m, n
        <5>2. m + n <= MaxThreads
          BY <2>1, <5>1
        <5> QED BY <5>2 DEF m, n
      <4>2. Len(channel'[c]) <= MaxThreads
        BY <1>3, <3>2, <4>1
      <4> QED BY <1>5, <2>1, <4>2
    <3> QED BY <1>5, <3>1, <3>2
  <2> QED BY <1>2, <1>5, <2>2
<1>7. TypeOK'
  BY <1>0, <1>5, <1>6 DEF Inv, TypeOK, sourceVars, FromTree
<1>8. OpenedOK' /\ SourceOK' /\ LandingOK'
  BY <1>0, FilesKept DEF sourceVars
<1>9. IdleOK'
  <2>1. step[c] # "idle"
    BY <1>0 DEF Inv, IdleOK
  <2> QED BY <1>0, <1>5, <2>1 DEF Inv, IdleOK, sourceVars
<1>10. TreesOnly'
  BY <1>0, <1>4, <1>5 DEF Inv, TreesOnly, ToTree
<1>11. CommitsOK'
  BY <1>0, CommitsKept
<1> QED BY <1>7, <1>8, <1>9, <1>10, <1>11 DEF Inv

----------------------------------------------------------------------------
(* Into a dataset: the commit. *)

\* Lance takes a batch from the channel.
LEMMA ReceiveStep ==
    ASSUME Inv, NEW c \in Copies, Receive(c)
    PROVE  Inv'
<1> DEFINE longer == fragment[c] \o Head(channel[c])
           rest == Tail(channel[c])
<1>0. /\ step[c] = "copying" /\ channel[c] # <<>>
      /\ fragment' = [fragment EXCEPT ![c] = longer]
      /\ channel' = [channel EXCEPT ![c] = rest]
      /\ UNCHANGED <<tree, table, edits, step, stream, builder, outbox, producer, base, landing>>
      /\ UNCHANGED sourceVars
  BY DEF Receive
<1>1. channel[c] \in Seq(Batch) /\ fragment[c] \in Batch /\ Len(channel[c]) <= MaxThreads
  BY DEF Inv, TypeOK
<1>2. /\ Head(channel[c]) \in Batch /\ rest \in Seq(Batch) /\ Len(rest) = Len(channel[c]) - 1
      /\ Len(channel[c]) \in Nat
  BY <1>0, <1>1, HeadTailProperties, LenProperties
<1>3. longer \in Batch
  BY <1>1, <1>2, ConcatProperties DEF Batch
<1>4. Len(rest) <= MaxThreads
  BY <1>1, <1>2, SizesAssumption
<1> HIDE DEF longer, rest
<1>5. ~ToTree(c)
  BY <1>0 DEF Inv, TreesOnly
<1>6. /\ channel'[c] = rest
      /\ \A d \in Copies \ {c} : channel'[d] = channel[d] /\ fragment'[d] = fragment[d]
  BY <1>0 DEF Inv, TypeOK
<1>7. TypeOK'
  <2>1. channel' \in [Copies -> Seq(Batch)] /\ fragment' \in [Copies -> Batch]
    BY <1>0, <1>2, <1>3 DEF Inv, TypeOK
  <2>2. \A d \in Copies : Len(channel'[d]) <= MaxThreads
    BY <1>4, <1>6 DEF Inv, TypeOK
  <2> QED BY <1>0, <2>1, <2>2 DEF Inv, TypeOK, sourceVars, FromTree
<1>8. OpenedOK' /\ SourceOK' /\ LandingOK'
  BY <1>0, FilesKept DEF sourceVars
<1>9. IdleOK' /\ TreesOnly'
  BY <1>0, <1>5, <1>6 DEF Inv, IdleOK, TreesOnly, ToTree, sourceVars
<1>10. CommitsOK'
  BY <1>0, <1>6, CommitsKept
<1> QED BY <1>7, <1>8, <1>9, <1>10 DEF Inv

\* The object storage refuses a write, and the channel is closed.
LEMMA WriteFailsStep ==
    ASSUME Inv, NEW c \in Copies, WriteFails(c)
    PROVE  Inv'
<1>0. /\ ~ToTree(c) /\ step[c] = "copying"
      /\ step' = [step EXCEPT ![c] = "failed"]
      /\ channel' = [channel EXCEPT ![c] = <<>>]
      /\ UNCHANGED <<tree, table, edits, stream, builder, outbox, producer, fragment, base, landing>>
      /\ UNCHANGED sourceVars
  BY DEF WriteFails
<1>1. /\ step'[c] = "failed" /\ channel'[c] = <<>>
      /\ \A d \in Copies \ {c} : channel'[d] = channel[d] /\ step'[d] = step[d]
  BY <1>0 DEF Inv, TypeOK
<1>2. TypeOK'
  <2>1. <<>> \in Seq(Batch) /\ Len(<<>>) <= MaxThreads
    BY SizesAssumption
  <2>2. /\ channel' \in [Copies -> Seq(Batch)]
        /\ step' \in [Copies -> {"none", "idle", "copying", "committing", "ok", "failed"}]
    BY <1>0, <2>1 DEF Inv, TypeOK
  <2>3. \A d \in Copies : Len(channel'[d]) <= MaxThreads
    BY <1>1, <2>1 DEF Inv, TypeOK
  <2> QED BY <1>0, <2>2, <2>3 DEF Inv, TypeOK, sourceVars, FromTree
<1>3. OpenedOK' /\ SourceOK' /\ LandingOK'
  BY <1>0, FilesKept DEF sourceVars
<1>4. IdleOK' /\ TreesOnly'
  BY <1>0, <1>1 DEF Inv, IdleOK, TreesOnly, ToTree, sourceVars
<1>5. CommitsOK'
  BY <1>0, <1>1, CommitsKept
<1> QED BY <1>2, <1>3, <1>4, <1>5 DEF Inv

\* The commit begins from the latest version.
LEMMA PrepareStep ==
    ASSUME Inv, NEW c \in Copies, Prepare(c)
    PROVE  Inv'
<1>0. /\ ~ToTree(c) /\ step[c] = "copying"
      /\ step' = [step EXCEPT ![c] = "committing"]
      /\ base' = [base EXCEPT ![c] = Len(table[To[c]])]
      /\ UNCHANGED <<tree, table, edits, landing>> /\ UNCHANGED sourceVars /\ UNCHANGED pipeVars
  BY DEF Prepare
<1>1. Len(table[To[c]]) \in Nat
  <2>1. To[c] \in Datasets
    BY <1>0, PlacesAssumption DEF ToTree, Places
  <2>2. table[To[c]] \in Seq(Seq(Batch))
    BY <2>1 DEF Inv, TypeOK
  <2> QED BY <2>2, LenProperties
<1>2. /\ step'[c] = "committing" /\ base'[c] = Len(table[To[c]])
      /\ \A d \in Copies \ {c} : base'[d] = base[d] /\ step'[d] = step[d]
  BY <1>0 DEF Inv, TypeOK
<1>3. TypeOK'
  <2>1. /\ step' \in [Copies -> {"none", "idle", "copying", "committing", "ok", "failed"}]
        /\ base' \in [Copies -> Nat]
    BY <1>0, <1>1 DEF Inv, TypeOK
  <2> QED BY <1>0, <2>1 DEF Inv, TypeOK, sourceVars, pipeVars, FromTree
<1>4. OpenedOK' /\ SourceOK' /\ LandingOK'
  BY <1>0, FilesKept DEF sourceVars
<1>5. IdleOK' /\ TreesOnly'
  BY <1>0, <1>2 DEF Inv, IdleOK, TreesOnly, ToTree, sourceVars, pipeVars
<1>6. CommitsOK'
  <2>1. SUFFICES ASSUME NEW d \in Copies, ~ToTree(d)
                 PROVE  /\ step'[d] \in {"committing", "ok"} => base'[d] <= Len(table[To[d]])
                        /\ step'[d] = "committing" /\ base'[d] < Len(table[To[d]]) => Rivalled(d)'
                        /\ step'[d] = "ok" => base'[d] < Len(table[To[d]])
                        /\ step'[d] = "ok" /\ fragment[d] # <<>> =>
                              \/ Rivalled(d)'
                              \/ \A n \in base'[d] + 1..Len(table[To[d]]) :
                                    fragment[d] \in Range(table[To[d]][n])
    BY <1>0 DEF CommitsOK, ToTree, pipeVars
  <2>2. CASE d = c
    BY <1>1, <1>2, <2>2
  <2>3. CASE d # c
    <3>1. Rivalled(d) => Rivalled(d)'
      <4>1. \A e \in Copies : step[e] = "ok" => step'[e] = "ok" /\ base'[e] = base[e]
        BY <1>0, <1>2
      <4> QED BY <1>2, <2>3, <4>1 DEF Rivalled
    <3>2. base'[d] = base[d] /\ step'[d] = step[d]
      BY <1>2, <2>3
    <3> QED BY <2>1, <3>1, <3>2 DEF Inv, CommitsOK
  <2> QED BY <2>2, <2>3
<1> QED BY <1>3, <1>4, <1>5, <1>6 DEF Inv

\* The manifest of the next version is written, over one that is there.
LEMMA CommitStep ==
    ASSUME Inv, NEW c \in Copies, Commit(c)
    PROVE  Inv'
<1> DEFINE versions == table[To[c]]
           old == IF base[c] = 0 THEN <<>> ELSE versions[base[c]]
           manifest == IF fragment[c] = <<>> THEN old ELSE Append(old, fragment[c])
           written == IF base[c] < Len(versions)
                      THEN [versions EXCEPT ![base[c] + 1] = manifest]
                      ELSE Append(versions, manifest)
<1>0. /\ step[c] = "committing"
      /\ table' = [table EXCEPT ![To[c]] = written]
      /\ step' = [step EXCEPT ![c] = "ok"]
      /\ UNCHANGED <<tree, edits, base, landing>> /\ UNCHANGED sourceVars /\ UNCHANGED pipeVars
  BY DEF Commit
<1>1. ~ToTree(c) /\ To[c] \in Datasets
  BY <1>0, PlacesAssumption DEF Inv, TreesOnly, ToTree, Places
<1>2. /\ versions \in Seq(Seq(Batch)) /\ Len(versions) \in Nat
      /\ base[c] \in Nat /\ base[c] <= Len(versions) /\ fragment[c] \in Batch
  <2>1. versions \in Seq(Seq(Batch)) /\ base[c] \in Nat /\ fragment[c] \in Batch
    BY <1>1 DEF Inv, TypeOK
  <2>2. base[c] <= Len(versions)
    BY <1>0, <1>1 DEF Inv, CommitsOK
  <2> QED BY <2>1, <2>2, LenProperties
<1> HIDE DEF versions
<1>3. old \in Seq(Batch)
  <2>1. CASE base[c] = 0
    BY <2>1
  <2>2. CASE base[c] # 0
    <3>1. base[c] \in 1..Len(versions)
      BY <1>2, <2>2
    <3> QED BY <1>2, <2>2, <3>1, ElementOfSeq
  <2> QED BY <2>1, <2>2
<1> HIDE DEF old
<1>4. /\ manifest \in Seq(Batch)
      /\ Range(old) \subseteq Range(manifest)
      /\ fragment[c] # <<>> => fragment[c] \in Range(manifest)
  <2>1. CASE fragment[c] = <<>>
    BY <1>3, <2>1
  <2>2. CASE fragment[c] # <<>>
    <3>1. /\ manifest = Append(old, fragment[c]) /\ manifest \in Seq(Batch)
          /\ Len(manifest) = Len(old) + 1 /\ Len(old) \in Nat
          /\ manifest[Len(old) + 1] = fragment[c]
          /\ \A i \in 1..Len(old) : manifest[i] = old[i]
      BY <1>2, <1>3, <2>2, AppendProperties, LenProperties
    <3>2. DOMAIN old = 1..Len(old) /\ DOMAIN manifest = 1..Len(old) + 1
      BY <1>3, <3>1, LenProperties
    <3> HIDE DEF manifest
    <3> QED BY <3>1, <3>2 DEF Range
  <2> QED BY <2>1, <2>2
<1> HIDE DEF manifest
<1>5. /\ written \in Seq(Seq(Batch))
      /\ Len(written) \in Nat /\ Len(versions) <= Len(written) /\ base[c] < Len(written)
      /\ base[c] < Len(versions) => Len(written) = Len(versions)
      /\ Len(written) <= Len(versions) + 1
      /\ written[base[c] + 1] = manifest
      /\ \A n \in 1..Len(versions) : n # base[c] + 1 => written[n] = versions[n]
  <2>1. CASE base[c] < Len(versions)
    <3>1. base[c] + 1 \in 1..Len(versions)
      BY <1>2, <2>1
    <3> QED BY <1>2, <1>4, <2>1, <3>1, ExceptSeq
  <2>2. CASE base[c] = Len(versions)
    <3>1. written = Append(versions, manifest)
      BY <1>2, <2>2
    <3> HIDE DEF written
    <3> QED BY <1>2, <1>4, <2>2, <3>1, AppendProperties
  <2> QED BY <1>2, <2>1, <2>2
<1> HIDE DEF written
<1>6. /\ step'[c] = "ok" /\ table'[To[c]] = written
      /\ \A d \in Copies \ {c} : step'[d] = step[d]
      /\ \A d \in Copies : To[d] # To[c] => table'[To[d]] = table[To[d]]
  <2>1. \A t : t # To[c] => table'[t] = table[t]
    BY <1>0 DEF Inv, TypeOK
  <2> QED BY <1>0, <1>1, <2>1 DEF Inv, TypeOK
<1>7. TypeOK'
  <2>1. /\ step' \in [Copies -> {"none", "idle", "copying", "committing", "ok", "failed"}]
        /\ table' \in [Datasets -> Seq(Seq(Batch))]
    BY <1>0, <1>1, <1>5 DEF Inv, TypeOK
  <2> QED BY <1>0, <2>1 DEF Inv, TypeOK, sourceVars, pipeVars, FromTree
<1>8. OpenedOK' /\ SourceOK' /\ LandingOK'
  BY <1>0, FilesKept DEF sourceVars
<1>9. IdleOK' /\ TreesOnly'
  BY <1>0, <1>1, <1>6 DEF Inv, IdleOK, TreesOnly, ToTree, sourceVars, pipeVars
<1>10. CommitsOK'
  <2>1. SUFFICES ASSUME NEW d \in Copies, ~ToTree(d)
                 PROVE  /\ step'[d] \in {"committing", "ok"} => base[d] <= Len(table'[To[d]])
                        /\ step'[d] = "committing" /\ base[d] < Len(table'[To[d]]) => Rivalled(d)'
                        /\ step'[d] = "ok" => base[d] < Len(table'[To[d]])
                        /\ step'[d] = "ok" /\ fragment[d] # <<>> =>
                              \/ Rivalled(d)'
                              \/ \A n \in base[d] + 1..Len(table'[To[d]]) :
                                    fragment[d] \in Range(table'[To[d]][n])
    BY <1>0 DEF CommitsOK, ToTree, pipeVars
  <2>2. Rivalled(d) => Rivalled(d)'
    <3>1. \A e \in Copies : step[e] = "ok" => step'[e] = "ok"
      BY <1>6
    <3> QED BY <1>0, <3>1 DEF Rivalled
  <2>3. base[d] \in Nat
    BY DEF Inv, TypeOK
  <2>4. CASE d = c
    <3>1. /\ step'[d] = "ok" /\ table'[To[d]] = written /\ base[d] < Len(written)
      BY <1>5, <1>6, <2>4
    <3>2. CASE base[c] < Len(versions)
      <4>1. Rivalled(c)
        BY <1>0, <1>1, <3>2 DEF Inv, CommitsOK, versions
      <4> QED BY <2>2, <2>3, <2>4, <3>1, <4>1, <1>5
    <3>3. CASE base[c] = Len(versions)
      <4>1. \A n \in base[d] + 1..Len(written) : n = base[c] + 1
        BY <1>2, <1>5, <2>4, <3>3
      <4>2. fragment[d] # <<>> => \A n \in base[d] + 1..Len(written) : fragment[d] \in Range(written[n])
        BY <1>4, <1>5, <2>4, <4>1
      <4> QED BY <1>2, <1>5, <2>4, <3>1, <4>2
    <3> QED BY <1>2, <3>2, <3>3
  <2>5. CASE d # c /\ To[d] # To[c]
    <3>1. step'[d] = step[d] /\ table'[To[d]] = table[To[d]]
      BY <1>6, <2>5
    <3> QED BY <2>1, <2>2, <3>1 DEF Inv, CommitsOK
  <2>6. CASE d # c /\ To[d] = To[c]
    <3>1. step'[d] = step[d] /\ table'[To[d]] = written /\ table[To[d]] = versions
      BY <1>6, <2>6 DEF versions
    <3>2. base[d] = base[c] => Rivalled(d)'
      BY <1>0, <1>6, <2>6 DEF Rivalled
    <3>3. /\ step[d] \in {"committing", "ok"} => base[d] <= Len(versions)
          /\ step[d] = "committing" /\ base[d] < Len(versions) => Rivalled(d)
          /\ step[d] = "ok" => base[d] < Len(versions)
          /\ step[d] = "ok" /\ fragment[d] # <<>> =>
                \/ Rivalled(d)
                \/ \A n \in base[d] + 1..Len(versions) : fragment[d] \in Range(versions[n])
      BY <2>1, <3>1 DEF Inv, CommitsOK
    <3>4. ASSUME step[d] = "committing", base[d] < Len(written)
          PROVE  Rivalled(d)'
      <4>1. CASE base[d] < Len(versions)
        BY <2>2, <3>3, <3>4, <4>1
      <4>2. CASE ~(base[d] < Len(versions))
        <5>1. base[d] = base[c]
          BY <1>2, <1>5, <2>3, <3>3, <3>4, <4>2
        <5> QED BY <3>2, <5>1
      <4> QED BY <4>1, <4>2
    <3>5. ASSUME step[d] = "ok", fragment[d] # <<>>, base[d] # base[c],
                 \A n \in base[d] + 1..Len(versions) : fragment[d] \in Range(versions[n]),
                 NEW n \in base[d] + 1..Len(written)
          PROVE  fragment[d] \in Range(written[n])
      <4>1. CASE n = base[c] + 1
        <5>1. base[c] \in base[d] + 1..Len(versions) /\ base[c] # 0
          BY <1>2, <2>3, <3>5, <4>1
        <5>2. fragment[d] \in Range(versions[base[c]]) /\ old = versions[base[c]]
          BY <3>5, <5>1 DEF old
        <5> QED BY <1>4, <1>5, <4>1, <5>2
      <4>2. CASE n # base[c] + 1
        <5>1. n \in base[d] + 1..Len(versions) /\ n \in 1..Len(versions)
          <6> DEFINE bc == base[c]
                     bd == base[d]
                     l == Len(versions)
                     k == Len(written)
          <6>1. /\ bc \in Nat /\ bd \in Nat /\ l \in Nat /\ k \in Nat /\ bc <= l
                /\ bc < l => k = l
                /\ k <= l + 1
            BY <1>2, <1>5, <2>3
          <6>2. n \in bd + 1..k /\ n # bc + 1
            BY <3>5, <4>2
          <6> HIDE DEF bc, bd, l, k
          <6>3. n \in bd + 1..l /\ n \in 1..l
            BY <6>1, <6>2
          <6> QED BY <6>3 DEF bd, l
        <5> QED BY <1>5, <3>5, <4>2, <5>1
      <4> QED BY <4>1, <4>2
    <3> QED BY SMTT(30), <1>2, <1>5, <2>2, <2>3, <3>1, <3>2, <3>3, <3>4, <3>5
  <2> QED BY <2>4, <2>5, <2>6
<1> QED BY <1>7, <1>8, <1>9, <1>10 DEF Inv

----------------------------------------------------------------------------

\* Nothing is under way in the beginning.
LEMMA InvInit == Init => Inv
<1> SUFFICES ASSUME Init
             PROVE  Inv
  OBVIOUS
<1>1. PICK run \in Together : step = [c \in Copies |-> IF c \in run THEN "idle" ELSE "none"]
  BY DEF Init
<1>2. TypeOK
  <2>1. /\ 0 \in Nat /\ 0 \in 0..MaxEdits /\ Len(<<>>) = 0 /\ 0 <= MaxThreads
        /\ <<>> \in Seq(Seq(Batch)) /\ <<>> \in Seq(Batch) /\ <<>> \in Seq(FileNames)
        /\ <<>> \in Batch /\ <<>> \in Seq(Row \cup {Err})
    BY SizesAssumption DEF Batch
  <2>2. /\ source \in [Copies -> Seq(FileNames) \cup Seq(Batch)]
        /\ cursor \in [Copies -> Nat]
        /\ stream \in [Copies -> Seq(Row \cup {Err})]
        /\ builder \in [Copies -> Batch]
        /\ outbox \in [Copies -> Seq(Batch)]
        /\ channel \in [Copies -> Seq(Batch)]
        /\ fragment \in [Copies -> Batch]
        /\ base \in [Copies -> Nat]
    BY <2>1 DEF Init
  <2>3. /\ opened \in [Copies -> [file: FileNames, size: Nat, rows: Seq(Row \cup {Err})] \cup {None}]
        /\ producer \in [Copies -> {"none", "running", "flushed", "finished", "failed"}]
        /\ step \in [Copies -> {"none", "idle", "copying", "committing", "ok", "failed"}]
    BY <1>1 DEF Init
  <2>4. \A c \in Copies :
          /\ source[c] \in IF FromTree(c) THEN Seq(FileNames) ELSE Seq(Batch)
          /\ cursor[c] <= Len(source[c])
          /\ Len(outbox[c]) <= 1
          /\ Len(channel[c]) <= MaxThreads
    BY <2>1 DEF Init
  <2> QED BY <2>1, <2>2, <2>3, <2>4, ContentAssumption DEF Init, TypeOK
<1>3. OpenedOK /\ SourceOK /\ LandingOK /\ IdleOK
  BY DEF Init, OpenedOK, SourceOK, LandingOK, IdleOK
<1>4. TreesOnly /\ CommitsOK
  BY <1>1 DEF Init, TreesOnly, CommitsOK
<1> QED BY <1>2, <1>3, <1>4 DEF Inv

\* Every step keeps the invariant.
LEMMA InvStep == Inv /\ [Next]_vars => Inv'
<1> SUFFICES ASSUME Inv, [Next]_vars
             PROVE  Inv'
  OBVIOUS
<1>1. ASSUME NEW c \in Copies, Start(c) \/ StartFails(c) \/ Work(c) \/ DumpFails(c) \/ WriteFails(c)
      PROVE  Inv'
  BY <1>1, StartStep, StartFailsStep, OpenFileStep, ReadChunkStep, ReadBatchStep, LoadFailsStep,
     DumpStep, DumpFailsStep, EndStep, PushStep, ProducerFailsStep, FlushStep, SendStep, ReceiveStep, PrepareStep, CommitStep, WriteFailsStep
     DEF Work
<1>2. ASSUME NEW w \in landing, Land(w) \/ LandFails(w)
      PROVE  Inv'
  BY <1>2, LandStep
<1>3. ASSUME NEW t \in Trees, NEW f \in FileNames, Edit(t, f)
      PROVE  Inv'
  BY <1>3, EditStep
<1>4. CASE UNCHANGED vars
  <2>1. TypeOK'
    BY <1>4 DEF vars, Inv, TypeOK, FromTree
  <2>2. OpenedOK' /\ SourceOK' /\ LandingOK' /\ IdleOK' /\ TreesOnly'
    BY <1>4 DEF vars, Inv, OpenedOK, SourceOK, LandingOK, IdleOK, TreesOnly, FromTree, ToTree
  <2>3. CommitsOK'
    BY <1>4, CommitsKept DEF vars
  <2> QED BY <2>1, <2>2, <2>3 DEF Inv
<1> QED BY <1>1, <1>2, <1>3, <1>4 DEF Next

\* The inductive invariant holds in every state.
THEOREM Invariance == Spec => []Inv
BY InvInit, InvStep, PTL DEF Spec

\* Whatever is read, edited or received, rows, batches and versions have the shape
\* that the next step relies on, and the channel never holds more than
\* max_write_threads batches.
THEOREM TypeCorrect == Spec => []TypeOK
<1>1. Inv => TypeOK
  BY DEF Inv
<1> QED BY <1>1, Invariance, PTL

\* The rows of a copy that reported success are in the latest version of the table,
\* through all later commits, unless another commit started from the same version.
THEOREM CommitsStay == Spec => []CommittedRowsStay
<1>1. ASSUME Inv
      PROVE  CommittedRowsStay
  <2>1. SUFFICES ASSUME NEW c \in Copies, step[c] = "ok", fragment[c] # <<>>, ~Rivalled(c)
                 PROVE  fragment[c] \in Range(Latest(To[c]))
    BY DEF CommittedRowsStay, Rivalled
  <2>2. ~ToTree(c) /\ To[c] \in Datasets
    BY <1>1, <2>1, PlacesAssumption DEF Inv, TreesOnly, ToTree, Places
  <2> DEFINE versions == table[To[c]]
  <2>3. versions \in Seq(Seq(Batch)) /\ base[c] \in Nat
    BY <1>1, <2>2 DEF Inv, TypeOK
  <2>4. /\ base[c] < Len(versions) /\ Len(versions) \in Nat
        /\ \A n \in base[c] + 1..Len(versions) : fragment[c] \in Range(versions[n])
    BY <1>1, <2>1, <2>2, <2>3, LenProperties DEF Inv, CommitsOK
  <2>5. Latest(To[c]) = versions[Len(versions)]
    <3>1. versions # <<>>
      BY <2>3, <2>4
    <3> QED BY <3>1 DEF Latest, Last
  <2> DEFINE n == Len(versions)
  <2>6. n \in base[c] + 1..n
    <3>1. base[c] < n /\ n \in Nat
      BY <2>4
    <3> HIDE DEF n
    <3> QED BY <2>3, <3>1
  <2>7. fragment[c] \in Range(versions[n])
    <3> HIDE DEF versions
    <3> QED BY <2>4, <2>6
  <2> QED BY <2>5, <2>7
<1> QED BY <1>1, Invariance, PTL
=============================================================================
