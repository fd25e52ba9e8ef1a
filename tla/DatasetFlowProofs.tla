--------------------------- MODULE DatasetFlowProofs ---------------------------
(***************************************************************************)
(* Proofs about what travels into a dataset or a tree, for any content,    *)
(* sizes and failures: batches fit, no row is lost, doubled or overtaken   *)
(* on its way, and simple files arrive as they were.                       *)
(***************************************************************************)
EXTENDS DatasetCopyProofs, FoldLemmas

(* Batches. *)

\* The size of a batch is the sum over its rows.
LEMMA TotalSizeDef ==
    ASSUME NEW rows \in Batch, NEW g, g = [i \in 1..Len(rows) |-> rows[i].size]
    PROVE  \E h : Sums(h, g, 1..Len(rows)) /\ TotalSize(rows) = h[1..Len(rows)]
<1> DEFINE n == Len(rows)
           Sized(h) == h = [s \in SUBSET (DOMAIN rows) |->
                        IF s = {} THEN 0
                        ELSE rows[CHOOSE x \in s : TRUE].size + h[s \ {CHOOSE x \in s : TRUE}]]
           h == CHOOSE h : Sized(h)
<1>1. n \in Nat /\ DOMAIN rows = 1..n /\ IsFiniteSet(1..n)
  BY LenProperties, FS_Interval DEF Batch
<1>2. TotalSize(rows) = h[DOMAIN rows]
  BY DEF TotalSize, FoldSeq, FoldFunction, FoldFunctionOnSet, MapThenFoldSet
<1>3. ASSUME NEW k
      PROVE  Sized(k) <=> Sums(k, g, 1..n)
  <2>1. ASSUME NEW s \in SUBSET (1..n), s # {}
        PROVE  g[Pick(s)] = rows[CHOOSE x \in s : TRUE].size
    BY <1>1, <2>1 DEF Pick
  <2> QED BY <1>1, <2>1 DEF Sums, Pick
<1>4. \E k : Sized(k)
  <2> HIDE DEF n, Sized
  <2>1. PICK k : Sums(k, g, 1..n)
    BY <1>1, SumsExist
  <2> QED BY <1>3, <2>1
<1>5. Sized(h)
  BY <1>4
<1> QED BY <1>1, <1>2, <1>3, <1>5

\* A row adds its size.
LEMMA TotalSizeAppend ==
    ASSUME NEW rows \in Batch, NEW r \in Row
    PROVE  /\ TotalSize(rows) \in Nat
           /\ TotalSize(Append(rows, r)) = TotalSize(rows) + r.size
<1> DEFINE n == Len(rows)
           more == Append(rows, r)
           f == [i \in 1..n |-> rows[i].size]
           g == [i \in 1..n + 1 |-> more[i].size]
<1>1. /\ n \in Nat /\ more \in Batch /\ Len(more) = n + 1
      /\ \A i \in 1..n : more[i] = rows[i] /\ rows[i] \in Row
      /\ more[n + 1] = r
  BY LenProperties, AppendProperties, ElementOfSeq DEF Batch
<1> HIDE DEF more, n
<1>2. /\ \A i \in 1..n : f[i] \in Nat /\ f[i] = g[i]
      /\ \A i \in 1..n + 1 : g[i] \in Nat
      /\ g[n + 1] = r.size
  <2>1. \A i \in 1..n + 1 : more[i] \in Row
    BY <1>1, ElementOfSeq DEF Batch
  <2>2. \A q \in Row : q.size \in Nat
    BY DEF Row
  <2>3. \A i \in 1..n : i \in 1..n + 1
    BY <1>1
  <2>4. n + 1 \in 1..n + 1
    BY <1>1
  <2> QED BY <1>1, <2>1, <2>2, <2>3, <2>4
<1>3. PICK h : Sums(h, f, 1..n) /\ TotalSize(rows) = h[1..n]
  BY TotalSizeDef DEF n
<1>4. PICK k : Sums(k, g, 1..n + 1) /\ TotalSize(more) = k[1..n + 1]
  BY <1>1, TotalSizeDef
<1> HIDE DEF f, g
<1>5. /\ IsFiniteSet(1..n) /\ IsFiniteSet(1..n + 1)
      /\ 1..n \subseteq 1..n + 1 /\ n + 1 \in 1..n + 1 /\ n + 1 \notin 1..n
      /\ 1..n + 1 = (1..n) \cup {n + 1}
  <2>1. n \in Int /\ n + 1 \in Int /\ 1 \in Int
    BY <1>1
  <2>2. IsFiniteSet(1..n) /\ IsFiniteSet(1..n + 1)
    BY <2>1, FS_Interval
  <2> QED BY <1>1, <2>2
<1>6. h[1..n] = k[1..n] /\ h[1..n] \in Nat
  <2>1. h[1..n] = k[1..n]
    <3> DEFINE A == 1..n
               B == 1..n + 1
    <3>1. /\ IsFiniteSet(B) /\ A \subseteq B /\ \A i \in A : f[i] = g[i]
          /\ Sums(h, f, A) /\ Sums(k, g, B)
      BY <1>2, <1>3, <1>4, <1>5
    <3> HIDE DEF A, B
    <3>2. h[A] = k[A]
      BY <3>1, SumsAgree
    <3> QED BY <3>2 DEF A
  <2>2. \A s \in SUBSET (1..n) : h[s] \in Nat
    BY <1>2, <1>3, <1>5, SumsAdd
  <2> QED BY <2>1, <2>2
<1>7. k[1..n + 1] = g[n + 1] + k[1..n]
  <2>1. \A s \in SUBSET (1..n + 1), x \in 1..n + 1 : x \notin s => k[s \cup {x}] = g[x] + k[s]
    <3> DEFINE B == 1..n + 1
    <3>1. IsFiniteSet(B) /\ (\A i \in B : g[i] \in Nat) /\ Sums(k, g, B)
      BY <1>2, <1>4, <1>5
    <3> HIDE DEF B
    <3>2. \A s \in SUBSET B, x \in B : x \notin s => k[s \cup {x}] = g[x] + k[s]
      BY <3>1, SumsAdd
    <3> QED BY <3>2 DEF B
  <2> QED BY <1>5, <2>1
<1>8. r.size \in Nat
  BY DEF Row
<1>9. TotalSize(more) = TotalSize(rows) + r.size /\ TotalSize(rows) \in Nat
  BY <1>2, <1>3, <1>4, <1>6, <1>7, <1>8
<1> QED BY <1>9 DEF more

LEMMA TotalSizeEmpty == TotalSize(<<>>) = 0
<1> DEFINE g == [i \in 1..Len(<<>>) |-> <<>>[i].size]
<1>1. <<>> \in Batch /\ 1..Len(<<>>) = {} /\ \A x \in {} : g[x] \in Nat
  BY DEF Batch
<1>2. PICK h : Sums(h, g, 1..Len(<<>>)) /\ TotalSize(<<>>) = h[1..Len(<<>>)]
  BY <1>1, TotalSizeDef
<1>3. h[{}] = 0
  BY <1>1, <1>2, FS_EmptySet, SumsAdd
<1> QED BY <1>1, <1>2, <1>3

\* A batch is larger than max_buffer_size only when a single row is.
Fits(b) == TotalSize(b) > MaxBuffer => Len(b) = 1
Batches(c) == Range(channel[c]) \cup Range(outbox[c]) \cup {builder[c]}

LEMMA BatchesFitDef == BatchesFit <=> \A c \in Copies : \A b \in Batches(c) : Fits(b)
BY DEF BatchesFit, Batches, Fits

\* Small sequences of batches.
LEMMA SmallRange == Range(<<>>) = {} /\ \A b : Range(<<b>>) = {b}
BY DEF Range

LEMMA FitStep ==
    ASSUME Inv, BatchesFit, [Next]_vars
    PROVE  BatchesFit'
<1>0. \A c \in Copies : /\ channel[c] \in Seq(Batch) /\ outbox[c] \in Seq(Batch)
                        /\ builder[c] \in Batch /\ stream[c] \in Seq(Row \cup {Err})
  BY DEF Inv, TypeOK
<1>1. Fits(<<>>)
  BY TotalSizeEmpty, SizesAssumption DEF Fits
<1>2. SUFFICES ASSUME NEW c \in Copies, ~(Batches(c)' \subseteq Batches(c) \cup {<<>>})
               PROVE  \A b \in Batches(c)' : Fits(b)
  <2>1. \A d \in Copies : \A b \in Batches(d) : Fits(b)
    BY BatchesFitDef
  <2>2. (\A d \in Copies : \A b \in Batches(d) : Fits(b))' => BatchesFit'
    BY DEF BatchesFit, Batches, Fits
  <2> QED BY <1>1, <2>1, <2>2 DEF Fits
<1>3. \A b \in Batches(c) : Fits(b)
  BY BatchesFitDef
<1>4. ASSUME NEW d \in Copies, Push(d)
      PROVE  \A b \in Batches(c)' : Fits(b)
  <2> DEFINE r == Head(stream[d])
             full == TotalSize(builder[d]) + r.size > MaxBuffer
  <2>1. /\ stream[d] # <<>> /\ r # Err
        /\ builder' = [builder EXCEPT ![d] = IF full THEN <<r>> ELSE Append(builder[d], r)]
        /\ outbox' = [outbox EXCEPT ![d] = IF full /\ builder[d] # <<>> THEN <<builder[d]>> ELSE <<>>]
        /\ channel' = channel
    BY <1>4 DEF Push
  <2>2. r \in Row
    BY <1>0, <2>1, HeadTailProperties
  <2> HIDE DEF r
  <2>3. Fits(<<r>>)
    BY DEF Fits
  <2>4. ~full => Fits(Append(builder[d], r))
    BY <1>0, <2>2, TotalSizeAppend, SizesAssumption DEF Fits, Row
  <2> HIDE DEF full
  <2>5. c = d
    BY <1>2, <2>1 DEF Batches, Inv, TypeOK
  <2>6. /\ builder'[c] = IF full THEN <<r>> ELSE Append(builder[c], r)
        /\ outbox'[c] = <<>> \/ outbox'[c] = <<builder[c]>>
        /\ channel'[c] = channel[c]
    BY <2>1, <2>5 DEF Inv, TypeOK
  <2>7. Range(outbox'[c]) \subseteq {builder[c]}
    BY <2>6, SmallRange
  <2>8. Fits(builder'[c])
    BY <2>3, <2>4, <2>5, <2>6
  <2> QED BY <1>3, <2>6, <2>7, <2>8 DEF Batches
<1>5. ASSUME NEW d \in Copies, Flush(d)
      PROVE  FALSE
  <2>1. /\ builder' = [builder EXCEPT ![d] = <<>>]
        /\ outbox' = [outbox EXCEPT ![d] = IF builder[d] = <<>> THEN <<>> ELSE <<builder[d]>>]
        /\ channel' = channel
    BY <1>5 DEF Flush
  <2>2. c = d
    BY <1>2, <2>1 DEF Batches, Inv, TypeOK
  <2>3. /\ builder'[c] = <<>> /\ channel'[c] = channel[c]
        /\ outbox'[c] = <<>> \/ outbox'[c] = <<builder[c]>>
    BY <2>1, <2>2 DEF Inv, TypeOK
  <2>4. Range(outbox'[c]) \subseteq {builder[c]}
    BY <2>3, SmallRange
  <2> QED BY <1>2, <2>3, <2>4 DEF Batches
<1>6. ASSUME NEW d \in Copies, Send(d)
      PROVE  FALSE
  <2>1. /\ builder' = builder
        /\ outbox' = [outbox EXCEPT ![d] = <<>>]
        /\ channel' = channel \/ channel' = [channel EXCEPT ![d] = @ \o outbox[d]]
    BY <1>6 DEF Send
  <2>2. c = d
    BY <1>2, <2>1 DEF Batches, Inv, TypeOK
  <2>3. /\ builder'[c] = builder[c] /\ outbox'[c] = <<>>
        /\ channel'[c] = channel[c] \/ channel'[c] = channel[c] \o outbox[c]
    BY <2>1, <2>2 DEF Inv, TypeOK
  <2>4. Range(outbox'[c]) = {} /\ Range(channel'[c]) \subseteq Range(channel[c]) \cup Range(outbox[c])
    <3>1. Range(channel[c] \o outbox[c]) = Range(channel[c]) \cup Range(outbox[c])
      BY <1>0, RangeConcatenation
    <3> QED BY <2>3, <3>1, SmallRange
  <2> QED BY <1>2, <2>3, <2>4 DEF Batches
<1>7. ASSUME NEW d \in Copies, Receive(d) \/ WriteFails(d)
      PROVE  FALSE
  <2>1. /\ builder' = builder /\ outbox' = outbox
        /\ \/ channel[d] # <<>> /\ channel' = [channel EXCEPT ![d] = Tail(@)]
           \/ channel' = [channel EXCEPT ![d] = <<>>]
    BY <1>7 DEF Receive, WriteFails
  <2>2. c = d
    BY <1>2, <2>1 DEF Batches, Inv, TypeOK
  <2>3. /\ builder'[c] = builder[c] /\ outbox'[c] = outbox[c]
        /\ (channel[c] # <<>> /\ channel'[c] = Tail(channel[c])) \/ channel'[c] = <<>>
    BY <2>1, <2>2 DEF Inv, TypeOK
  <2>4. Range(channel'[c]) \subseteq Range(channel[c])
    <3>1. CASE channel'[c] = <<>>
      BY <3>1, SmallRange
    <3>2. CASE channel[c] # <<>> /\ channel'[c] = Tail(channel[c])
      <4> DEFINE s == channel[c]
      <4>1. /\ s \in Seq(Batch) /\ Tail(s) \in Seq(Batch) /\ Len(Tail(s)) = Len(s) - 1
            /\ Len(s) \in Nat /\ \A i \in 1..Len(Tail(s)) : Tail(s)[i] = s[i + 1]
        BY <1>0, <3>2, HeadTailProperties, LenProperties
      <4>2. /\ Range(s) = {s[i] : i \in 1..Len(s)}
            /\ Range(Tail(s)) = {Tail(s)[i] : i \in 1..Len(Tail(s))}
        BY <4>1, RangeEquality
      <4> HIDE DEF s
      <4>3. \A i \in 1..Len(Tail(s)) : i + 1 \in 1..Len(s)
        BY <4>1
      <4>4. Range(Tail(s)) \subseteq Range(s)
        BY <4>1, <4>2, <4>3
      <4> QED BY <3>2, <4>4 DEF s
    <3> QED BY <2>3, <3>1, <3>2
  <2> QED BY <1>2, <2>3, <2>4 DEF Batches
<1>8. ASSUME UNCHANGED <<builder, outbox, channel>>
      PROVE  FALSE
  BY <1>2, <1>8 DEF Batches
<1>9. ASSUME NEW d \in Copies, Start(d) \/ StartFails(d) \/ Work(d) \/ DumpFails(d) \/ WriteFails(d)
      PROVE  \A b \in Batches(c)' : Fits(b)
  <2>1. CASE Start(d) \/ StartFails(d) \/ DumpFails(d)
    BY <2>1, <1>8 DEF Start, StartFails, DumpFails, pipeVars
  <2>2. CASE OpenFile(d) \/ ReadChunk(d) \/ ReadBatch(d) \/ LoadFails(d)
    BY <2>2, <1>8 DEF OpenFile, ReadChunk, ReadBatch, LoadFails, pipeVars
  <2>3. CASE Dump(d) \/ StreamFails(d) \/ DumpEnds(d)
    BY <2>3, <1>8 DEF Dump, StreamFails, DumpEnds, pipeVars
  <2>4. CASE ProducerFails(d) \/ Prepare(d) \/ Commit(d)
    BY <2>4, <1>8 DEF ProducerFails, Prepare, Commit, pipeVars
  <2> QED BY <1>4, <1>5, <1>6, <1>7, <1>9, <2>1, <2>2, <2>3, <2>4 DEF Work
<1>10. ASSUME NEW w \in landing, Land(w) \/ LandFails(w)
       PROVE  FALSE
  BY <1>8, <1>10 DEF Land, LandFails, pipeVars
<1>11. ASSUME NEW t \in Trees, NEW f \in FileNames, Edit(t, f)
       PROVE  FALSE
  BY <1>8, <1>11 DEF Edit, pipeVars
<1>12. CASE UNCHANGED vars
  BY <1>8, <1>12 DEF vars
<1> QED BY <1>9, <1>10, <1>11, <1>12 DEF Next

\* The batches that travel through the channel respect max_buffer_size.
THEOREM BatchesAlwaysFit == Spec => []BatchesFit
<1>1. Init => BatchesFit
  <2> SUFFICES ASSUME Init, NEW c \in Copies
               PROVE  \A b \in Batches(c) : Fits(b)
    BY BatchesFitDef
  <2>1. Batches(c) = {<<>>}
    BY SmallRange DEF Init, Batches
  <2> QED BY <2>1, TotalSizeEmpty, SizesAssumption DEF Fits
<1>2. Inv /\ BatchesFit /\ [Next]_vars => BatchesFit'
  BY FitStep
<1> QED BY <1>1, <1>2, Invariance, PTL DEF Spec
----------------------------------------------------------------------------
(* Rows on their way. *)

\* The rows that a file makes are rows.
LEMMA FileRowsType ==
    ASSUME NEW f \in FileNames, NEW content \in Seq(Cell)
    PROVE  /\ FileRows(f, content) \in Seq(Row)
           /\ LastChunk(Len(content)) \in Nat
           /\ Len(FileRows(f, content)) = LastChunk(Len(content)) + 1
           /\ \A i \in 1..LastChunk(Len(content)) + 1 :
                 FileRows(f, content)[i] = Chunk(f, Len(content), content, i - 1)
<1> DEFINE n == Len(content)
           m == LastChunk(n) + 1
<1>1. n \in Nat /\ LastChunk(n) \in Nat
  BY LenProperties, LastChunkType
<1>2. \A i \in 1..m : Chunk(f, n, content, i - 1) \in Row
  <2>1. ASSUME NEW i \in 1..m
        PROVE  Chunk(f, n, content, i - 1) \in Row
    <3>1. i - 1 \in 0..LastChunk(n)
      BY <1>1
    <3> QED BY <1>1, <3>1, ChunkType
  <2> QED BY <2>1
<1>3. FileRows(f, content) = [i \in 1..m |-> Chunk(f, n, content, i - 1)]
  BY DEF FileRows
<1>4. m \in Nat
  BY <1>1
<1> HIDE DEF m
<1>5. FileRows(f, content) \in Seq(Row) /\ Len(FileRows(f, content)) = m
  BY <1>2, <1>3, <1>4
<1> QED BY <1>1, <1>3, <1>5 DEF m

\* What the files and batches of a source make are rows.
LEMMA ItemType ==
    ASSUME Inv, NEW c \in Copies, NEW k \in 1..Len(source[c])
    PROVE  Item(c, k) \in Seq(Row)
<1>1. CASE FromTree(c)
  <2>1. source[c] \in Seq(FileNames)
    BY <1>1 DEF Inv, TypeOK
  <2>2. source[c][k] \in FileNames
    BY <2>1, ElementOfSeq
  <2>3. tree[From[c]][source[c][k]] \in Seq(Cell)
    BY <1>1 DEF Inv, SourceOK
  <2> QED BY <1>1, <2>2, <2>3, FileRowsType DEF Item
<1>2. CASE ~FromTree(c)
  <2>1. source[c] \in Seq(Batch)
    BY <1>2 DEF Inv, TypeOK
  <2>2. source[c][k] \in Batch
    BY <2>1, ElementOfSeq
  <2> QED BY <1>2, <2>2, IntoVecType DEF Item, Batch
<1> QED BY <1>1, <1>2

\* What is loaded behind some rows follows behind them.
LEMMA BreaksBehind ==
    ASSUME NEW X, NEW s \in Seq(X), NEW t \in Seq(X), NEW rows \in Seq(X), Breaks(t, rows)
    PROVE  Breaks(s \o t, s \o rows)
<1> DEFINE m == Len(s)
<1>1. PICK n \in 1..Len(t) : t[n] = Err /\ n - 1 <= Len(rows) /\ \A i \in 1..n - 1 : t[i] = rows[i]
  BY DEF Breaks
<1>2. /\ m \in Nat /\ Len(t) \in Nat /\ Len(rows) \in Nat
      /\ Len(s \o t) = m + Len(t) /\ Len(s \o rows) = m + Len(rows)
      /\ \A i \in 1..m + Len(t) : (s \o t)[i] = IF i <= m THEN s[i] ELSE t[i - m]
      /\ \A i \in 1..m + Len(rows) : (s \o rows)[i] = IF i <= m THEN s[i] ELSE rows[i - m]
  BY LenProperties, ConcatProperties
<1> HIDE DEF m
<1>3. /\ m + n \in 1..Len(s \o t) /\ (s \o t)[m + n] = Err
      /\ (m + n) - 1 <= Len(s \o rows)
  <2>1. m + n \in 1..m + Len(t) /\ ~(m + n <= m) /\ (m + n) - m = n
    BY <1>2
  <2> QED BY <1>1, <1>2, <2>1
<1>4. ASSUME NEW i \in 1..(m + n) - 1
      PROVE  (s \o t)[i] = (s \o rows)[i]
  <2>1. i \in 1..m + Len(t) /\ i \in 1..m + Len(rows) /\ i \in Nat
    BY <1>1, <1>2
  <2>2. ~(i <= m) => i - m \in 1..n - 1
    BY <1>2, <2>1
  <2> QED BY <1>1, <1>2, <2>1, <2>2
<1> QED BY <1>3, <1>4 DEF Breaks

\* What comes later changes nothing.
LEMMA BreaksMore ==
    ASSUME NEW X, NEW s \in Seq(X), NEW t \in Seq(X), NEW rows \in Seq(X), NEW more \in Seq(X),
           Breaks(s, rows)
    PROVE  Breaks(s \o t, rows \o more)
<1>1. PICK n \in 1..Len(s) : s[n] = Err /\ n - 1 <= Len(rows) /\ \A i \in 1..n - 1 : s[i] = rows[i]
  BY DEF Breaks
<1>2. /\ Len(s) \in Nat /\ Len(t) \in Nat /\ Len(rows) \in Nat /\ Len(more) \in Nat
      /\ Len(s \o t) = Len(s) + Len(t) /\ Len(rows \o more) = Len(rows) + Len(more)
      /\ \A i \in 1..Len(s) + Len(t) : (s \o t)[i] = IF i <= Len(s) THEN s[i] ELSE t[i - Len(s)]
      /\ \A i \in 1..Len(rows) + Len(more) :
            (rows \o more)[i] = IF i <= Len(rows) THEN rows[i] ELSE more[i - Len(rows)]
  BY LenProperties, ConcatProperties
<1>3. n \in 1..Len(s \o t) /\ (s \o t)[n] = Err /\ n - 1 <= Len(rows \o more)
  <2>1. n \in 1..Len(s) + Len(t) /\ n <= Len(s)
    BY <1>2
  <2> QED BY <1>1, <1>2, <2>1
<1>4. ASSUME NEW i \in 1..n - 1
      PROVE  (s \o t)[i] = (rows \o more)[i]
  <2>1. /\ i \in 1..Len(s) + Len(t) /\ i <= Len(s)
        /\ i \in 1..Len(rows) + Len(more) /\ i <= Len(rows)
    BY <1>1, <1>2
  <2> QED BY <1>1, <1>2, <2>1
<1> QED BY <1>3, <1>4 DEF Breaks

\* Where no error has come up all rows have been loaded.
LEMMA RowsFollow ==
    ASSUME NEW c, NEW s \in Seq(Row), NEW rows, Follows(c, s, rows)
    PROVE  s = rows
<1>1. \A n \in 1..Len(s) : s[n] # Err
  BY ElementOfSeq, OutcomesAssumption
<1> QED BY <1>1 DEF Follows, Breaks

LEMMA FollowsBehind ==
    ASSUME NEW c, NEW s \in Seq(Row \cup {Err}), NEW t \in Seq(Row \cup {Err}),
           NEW rows \in Seq(Row \cup {Err}), Follows(c, t, rows)
    PROVE  Follows(c, s \o t, s \o rows)
<1>1. CASE t = rows
  BY <1>1 DEF Follows
<1>2. CASE c \in Unreadable /\ Breaks(t, rows)
  <2>1. Breaks(s \o t, s \o rows)
    BY <1>2, BreaksBehind
  <2> QED BY <1>2, <2>1 DEF Follows
<1> QED BY <1>1, <1>2 DEF Follows

\* The next row is the right one, or an error.
LEMMA FollowsAppend ==
    ASSUME NEW c, NEW s \in Seq(Row \cup {Err}), NEW rows \in Seq(Row \cup {Err}),
           NEW next \in Row \cup {Err}, Follows(c, s, rows),
           NEW row \in {next} \cup (IF c \in Unreadable THEN {Err} ELSE {})
    PROVE  Follows(c, s \o <<row>>, rows \o <<next>>)
<1> DEFINE X == Row \cup {Err}
<1>1. row \in X /\ <<row>> \in Seq(X) /\ <<next>> \in Seq(X)
  OBVIOUS
<1>2. CASE s = rows
  <2>1. CASE row = next
    BY <1>2, <2>1 DEF Follows
  <2>2. CASE c \in Unreadable /\ row = Err
    <3>1. Breaks(<<row>>, <<next>>)
      <4>1. Len(<<row>>) = 1 /\ <<row>>[1] = Err /\ 1 \in 1..Len(<<row>>)
        BY <2>2
      <4>2. 1 - 1 <= Len(<<next>>) /\ 1..1 - 1 = {}
        OBVIOUS
      <4> QED BY <4>1, <4>2 DEF Breaks
    <3>2. Breaks(s \o <<row>>, s \o <<next>>)
      <4> HIDE DEF X
      <4> QED BY <1>1, <3>1, BreaksBehind DEF X
    <3> QED BY <1>2, <2>2, <3>2 DEF Follows
  <2> QED BY <2>1, <2>2
<1>3. CASE c \in Unreadable /\ Breaks(s, rows)
  <2>1. Breaks(s \o <<row>>, rows \o <<next>>)
    <3> DEFINE t == <<row>>
               more == <<next>>
    <3>1. t \in Seq(X) /\ more \in Seq(X) /\ s \in Seq(X) /\ rows \in Seq(X)
      BY <1>1
    <3> HIDE DEF X, t, more
    <3>2. Breaks(s \o t, rows \o more)
      BY <1>3, <3>1, BreaksMore
    <3> QED BY <3>2 DEF t, more
  <2> QED BY <1>3, <2>1 DEF Follows
<1> QED BY <1>2, <1>3 DEF Follows

\* The beginnings of a sequence.
LEMMA PrefixAt ==
    ASSUME NEW X, NEW s \in Seq(X), NEW t \in Seq(X)
    PROVE  IsPrefix(s, t) <=> Len(s) <= Len(t) /\ \A i \in 1..Len(s) : s[i] = t[i]
<1>1. Len(s) \in Nat /\ Len(t) \in Nat
  BY LenProperties
<1>2. SubSeq(s, 1, Len(s)) = s
  BY <1>1, SubSeqFull
<1>3. ASSUME Len(s) <= Len(t)
      PROVE  s = SubSeq(t, 1, Len(s)) <=> \A i \in 1..Len(s) : s[i] = t[i]
  <2>1. \A i \in 1..Len(s) : t[i] \in X
    <3>1. \A i \in 1..Len(s) : i \in 1..Len(t)
      BY <1>1, <1>3
    <3> QED BY <3>1, ElementOfSeq
  <2> DEFINE u == SubSeq(t, 1, Len(s))
             n == Len(s)
  <2>2. u \in Seq(X) /\ Len(u) = (IF 1 <= n THEN n - 1 + 1 ELSE 0)
        /\ \A i \in 1..n - 1 + 1 : u[i] = t[1 + i - 1]
    <3>1. 1 \in Int /\ n \in Int
      BY <1>1
    <3> HIDE DEF n
    <3> QED BY <2>1, <3>1, SubSeqProperties DEF n
  <2>3. Len(u) = n /\ \A i \in 1..n : u[i] = t[i]
    <3>1. n \in Nat
      BY <1>1
    <3> HIDE DEF n, u
    <3>2. n - 1 + 1 = n /\ \A i \in 1..n : 1 + i - 1 = i
      BY <3>1
    <3> QED BY <2>2, <3>1, <3>2
  <2> HIDE DEF u
  <2>4. (\A i \in 1..n : s[i] = u[i]) => s = u
    BY <2>2, <2>3, SeqEqual
  <2> QED BY <2>3, <2>4 DEF u
<1> QED BY <1>2, <1>3 DEF IsPrefix

\* What is on its way before an error is the beginning of what was to be loaded.
LEMMA FollowsPrefix ==
    ASSUME NEW c, NEW s \in Seq(Row), NEW t \in Seq(Row \cup {Err}), NEW rows \in Seq(Row),
           Follows(c, s \o t, rows)
    PROVE  IsPrefix(s, rows)
<1> DEFINE X == Row \cup {Err}
<1>1. s \in Seq(X) /\ t \in Seq(X)
  BY SeqMonotonic
<1>2. /\ Len(s) \in Nat /\ Len(t) \in Nat /\ Len(rows) \in Nat
      /\ Len(s \o t) = Len(s) + Len(t)
      /\ \A i \in 1..Len(s) + Len(t) : (s \o t)[i] = IF i <= Len(s) THEN s[i] ELSE t[i - Len(s)]
  <2> HIDE DEF X
  <2> QED BY <1>1, LenProperties, ConcatProperties
<1>3. \A i \in 1..Len(s) : s[i] \in Row /\ (s \o t)[i] = s[i]
  <2>1. \A i \in 1..Len(s) : i \in 1..Len(s) + Len(t) /\ i <= Len(s)
    BY <1>2
  <2> QED BY <1>2, <2>1, ElementOfSeq
<1>4. CASE s \o t = rows
  <2>1. Len(s) <= Len(rows) /\ \A i \in 1..Len(s) : s[i] = rows[i]
    BY <1>2, <1>3, <1>4
  <2> QED BY <2>1, PrefixAt
<1>5. CASE Breaks(s \o t, rows)
  <2>1. PICK n \in 1..Len(s \o t) : /\ (s \o t)[n] = Err /\ n - 1 <= Len(rows)
                                    /\ \A i \in 1..n - 1 : (s \o t)[i] = rows[i]
    BY <1>5 DEF Breaks
  <2>2. n \in Nat /\ ~(n \in 1..Len(s))
    BY <1>2, <1>3, <2>1, OutcomesAssumption
  <2>3. Len(s) <= n - 1
    BY <1>2, <2>2
  <2>4. Len(s) <= Len(rows) /\ \A i \in 1..Len(s) : s[i] = rows[i]
    <3>1. \A i \in 1..Len(s) : i \in 1..n - 1
      BY <1>2, <2>2, <2>3
    <3> QED BY <1>2, <1>3, <2>1, <2>2, <2>3, <3>1
  <2> QED BY <2>4, PrefixAt
<1> QED BY <1>4, <1>5 DEF Follows

\* What is under way, and how much of the source has been loaded.
LEMMA FlowType ==
    ASSUME Inv, NEW c \in Copies, Flows(c)
    PROVE  /\ fragment[c] \in Seq(Row) /\ builder[c] \in Seq(Row)
           /\ stream[c] \in Seq(Row \cup {Err}) /\ Sent(c) \in Seq(Row)
           /\ channel[c] \in Seq(Seq(Row)) /\ outbox[c] \in Seq(Seq(Row))
           /\ Len(source[c]) \in Nat /\ cursor[c] \in 0..Len(source[c])
           /\ HandedOver(c) \in 0..Len(source[c])
           /\ Sent(c) \o stream[c] =
                 Line(fragment[c], channel[c], outbox[c], builder[c], stream[c])
<1>1. /\ fragment[c] \in Seq(Row) /\ builder[c] \in Seq(Row)
      /\ channel[c] \in Seq(Seq(Row)) /\ outbox[c] \in Seq(Seq(Row))
      /\ stream[c] \in Seq(Row \cup {Err})
  BY DEF Inv, TypeOK, Batch
<1>2. Len(source[c]) \in Nat /\ cursor[c] \in 0..Len(source[c])
  <2>1. source[c] \in Seq(FileNames) \/ source[c] \in Seq(Batch)
    BY DEF Inv, TypeOK
  <2>2. Len(source[c]) \in Nat
    BY <2>1, LenProperties
  <2> QED BY <2>2 DEF Inv, TypeOK
<1>3. HandedOver(c) \in 0..Len(source[c])
  BY <1>2 DEF Flows, OpenedFlows, HandedOver
<1>4. Sent(c) \o stream[c] = Line(fragment[c], channel[c], outbox[c], builder[c], stream[c])
  BY DEF Sent, Line, Cat
<1>5. Sent(c) \in Seq(Row)
  BY <1>1, LineType DEF Sent, Cat
<1> QED BY <1>1, <1>2, <1>3, <1>4, <1>5

\* The rows of what has been handed over.
LEMMA HandedOverType ==
    ASSUME Inv, NEW c \in Copies, Flows(c)
    PROVE  FlattenSeq([k \in 1..HandedOver(c) |-> Item(c, k)]) \in Seq(Row)
<1> DEFINE items == [k \in 1..HandedOver(c) |-> Item(c, k)]
<1>1. HandedOver(c) \in 0..Len(source[c]) /\ Len(source[c]) \in Nat
  BY FlowType
<1>2. \A k \in 1..HandedOver(c) : Item(c, k) \in Seq(Row)
  BY <1>1, ItemType
<1>3. items \in Seq(Seq(Row))
  BY <1>1, <1>2
<1> HIDE DEF items
<1>4. FlattenSeq(items) \in Seq(Row)
  BY <1>3, FlattenType
<1> QED BY <1>4 DEF items

\* A copy whose source stands has the same files or batches before it.
LEMMA ItemKept ==
    ASSUME NEW c \in Copies, source'[c] = source[c],
           FromTree(c) => tree'[From[c]] = tree[From[c]]
    PROVE  \A k : Item(c, k)' = Item(c, k)
<1> SUFFICES ASSUME NEW k
             PROVE  Item(c, k)' = Item(c, k)
  OBVIOUS
<1>1. CASE FromTree(c)
  BY <1>1 DEF Item, FromTree
<1>2. CASE ~FromTree(c)
  BY <1>2 DEF Item, FromTree
<1> QED BY <1>1, <1>2

\* A tree that stands has the same files.
LEMMA ListedKept ==
    ASSUME NEW t, NEW seen, tree'[t] = tree[t]
    PROVE  Listed(t, seen)' = Listed(t, seen)
<1> DEFINE present == {i \in 1..Len(Files) : tree[t][Files[i]] # None /\ Files[i] \in seen}
<1>1. present' = present
  OBVIOUS
<1>2. Listed(t, seen) = [k \in 1..Cardinality(present) |->
                           Files[CHOOSE i \in present : Rank(present, i) = k]]
  BY DEF Listed
<1>3. Listed(t, seen)' = [k \in 1..Cardinality(present') |->
                            Files[CHOOSE i \in present' : Rank(present', i) = k]]
  BY DEF Listed
<1> HIDE DEF present
<1> QED BY <1>1, <1>2, <1>3

LEMMA ReadsKept ==
    ASSUME NEW c \in Copies, Flows(c), source'[c] = source[c],
           FromTree(c) => tree'[From[c]] = tree[From[c]],
           step'[c] = step[c] \/ step[c] \notin {"none", "idle"}
    PROVE  ReadsListed(c)'
<1> SUFFICES ASSUME FromTree(c), step[c] \notin {"none", "idle"}
             PROVE  \E seen \in Seen(c) : source'[c] = Listed(From[c], seen)'
  BY DEF ReadsListed, FromTree, Seen
<1>1. PICK seen \in Seen(c) : source[c] = Listed(From[c], seen)
  BY DEF Flows, ReadsListed
<1>2. Listed(From[c], seen)' = Listed(From[c], seen)
  <2> DEFINE t == From[c]
  <2>1. tree'[t] = tree[t]
    OBVIOUS
  <2> HIDE DEF t
  <2>2. Listed(t, seen)' = Listed(t, seen)
    BY <2>1, ListedKept
  <2> QED BY <2>2 DEF t
<1> QED BY <1>1, <1>2

\* What a step has to leave alone for each part of Flows.
LEMMA OpenedKept ==
    ASSUME NEW c \in Copies, OpenedOK, OpenedFlows(c),
           opened'[c] = opened[c], cursor'[c] = cursor[c], source'[c] = source[c],
           FromTree(c) => tree'[From[c]] = tree[From[c]],
           stream[c] = <<>> => stream'[c] = <<>>
    PROVE  OpenedFlows(c)'
<1> SUFFICES ASSUME opened'[c] # None PROVE OpenedFlows(c)'
  BY DEF OpenedFlows
<1>1. tree'[From[c]] = tree[From[c]]
  BY DEF OpenedOK
<1> QED BY <1>1 DEF OpenedFlows

LEMMA OrderKept ==
    ASSUME NEW c \in Copies, InOrder(c), source'[c] = source[c],
           FromTree(c) => tree'[From[c]] = tree[From[c]],
           HandedOver(c)' = HandedOver(c),
           (Sent(c) \o stream[c])' = Sent(c) \o stream[c]
    PROVE  InOrder(c)'
<1>1. \A k : Item(c, k)' = Item(c, k)
  BY ItemKept
<1> DEFINE items == [k \in 1..HandedOver(c) |-> Item(c, k)]
<1>2. items' = items
  BY <1>1
<1>3. InOrder(c) <=> Follows(c, Sent(c) \o stream[c], FlattenSeq(items))
  BY DEF InOrder
<1>4. InOrder(c)' <=> Follows(c, (Sent(c) \o stream[c])', FlattenSeq(items'))
  BY DEF InOrder, Follows, Breaks
<1> HIDE DEF items
<1> QED BY <1>2, <1>3, <1>4

\* A copy that has no part in a step.
LEMMA FlowKept ==
    ASSUME Inv, NEW c \in Copies, Flows(c), step'[c] = step[c],
           FromTree(c) => tree'[From[c]] = tree[From[c]],
           source'[c] = source[c], cursor'[c] = cursor[c], opened'[c] = opened[c],
           stream'[c] = stream[c], builder'[c] = builder[c], outbox'[c] = outbox[c],
           channel'[c] = channel[c], producer'[c] = producer[c], fragment'[c] = fragment[c]
    PROVE  Flows(c)'
<1>1. ReadsListed(c)'
  BY ReadsKept
<1>2. OpenedFlows(c)'
  BY OpenedKept DEF Flows, Inv
<1>3. InOrder(c)'
  BY OrderKept DEF Flows, HandedOver, Sent
<1>4. EndsEmpty(c)'
  BY DEF Flows, EndsEmpty, Exhausted
<1> QED BY <1>1, <1>2, <1>3, <1>4 DEF Flows

\* The copy begins with an empty pipeline.
LEMMA StartFlow ==
    ASSUME Inv, NEW c \in Copies, ~ToTree(c), Flows(c), Start(c)
    PROVE  Flows(c)'
<1>1. /\ step[c] = "idle" /\ step'[c] = "copying" /\ producer'[c] = "running"
      /\ FromTree(c) => \E seen \in Seen(c) : source'[c] = Listed(From[c], seen)
      /\ UNCHANGED <<tree, cursor, opened, stream, builder, outbox, channel, fragment>>
  BY DEF Start, Inv, TypeOK
<1>2. cursor[c] = 0 /\ producer[c] = "none" /\ outbox[c] = <<>>
  BY <1>1 DEF Inv, IdleOK
<1>3. opened[c] = None
  BY <1>2 DEF Flows, OpenedFlows
<1>4. ReadsListed(c)'
  <2> SUFFICES ASSUME FromTree(c)
               PROVE  \E seen \in Seen(c) : source'[c] = Listed(From[c], seen)'
    BY DEF ReadsListed, FromTree, Seen
  <2>1. PICK seen \in Seen(c) : source'[c] = Listed(From[c], seen)
    BY <1>1
  <2>2. Listed(From[c], seen)' = Listed(From[c], seen)
    BY <1>1 DEF Listed
  <2> QED BY <2>1, <2>2
<1>5. OpenedFlows(c)'
  BY <1>1, <1>3 DEF OpenedFlows
<1>6. InOrder(c)'
  <2>1. HandedOver(c) = 0 /\ HandedOver(c)' = 0
    BY <1>1, <1>2, <1>3 DEF HandedOver
  <2> DEFINE items == [k \in 1..HandedOver(c) |-> Item(c, k)]
  <2>2. items' = items
    BY <2>1
  <2>3. InOrder(c) <=> Follows(c, Sent(c) \o stream[c], FlattenSeq(items))
    BY DEF InOrder
  <2>4. InOrder(c)' <=> Follows(c, (Sent(c) \o stream[c])', FlattenSeq(items'))
    BY DEF InOrder, Follows, Breaks
  <2> HIDE DEF items
  <2>5. (Sent(c) \o stream[c])' = Sent(c) \o stream[c]
    BY <1>1 DEF Sent
  <2> QED BY <2>2, <2>3, <2>4, <2>5 DEF Flows
<1>7. EndsEmpty(c)'
  BY <1>1 DEF EndsEmpty
<1> QED BY <1>4, <1>5, <1>6, <1>7 DEF Flows

\* A file that is opened has not been handed over yet.
LEMMA OpenFileFlow ==
    ASSUME Inv, NEW c \in Copies, ~ToTree(c), Flows(c), OpenFile(c)
    PROVE  Flows(c)'
<1> DEFINE f == source[c][cursor[c] + 1]
           content == tree[From[c]][f]
           rec == [file |-> f, size |-> Len(content), rows |-> <<>>]
<1>1. /\ FromTree(c) /\ opened[c] = None /\ cursor[c] < Len(source[c])
      /\ producer[c] = "running" /\ stream[c] = <<>>
      /\ opened'[c] = rec /\ cursor'[c] = cursor[c] + 1
      /\ UNCHANGED <<tree, step, source, stream, builder, outbox, channel, producer, fragment>>
  BY DEF OpenFile, Pulls, pipeVars, Inv, TypeOK
<1>2. /\ Len(source[c]) \in Nat /\ cursor[c] \in Nat /\ source[c] \in Seq(FileNames)
  BY <1>1, FlowType DEF Inv, TypeOK
<1>3. f \in FileNames /\ content \in Seq(Cell)
  <2>1. cursor[c] + 1 \in 1..Len(source[c])
    BY <1>1, <1>2
  <2> QED BY <1>1, <1>2, <2>1, ElementOfSeq DEF Inv, SourceOK
<1>4. rec # None
  <2>1. rec \in [file: FileNames, size: Nat, rows: Seq(Row \cup {Err})]
    <3>1. Len(content) \in Nat /\ <<>> \in Seq(Row \cup {Err})
      BY <1>3, LenProperties
    <3> HIDE DEF f, content
    <3> QED BY <1>3, <3>1
  <2> QED BY <2>1, OutcomesAssumption
<1>5. ReadsListed(c)'
  BY <1>1, ReadsKept
<1>6. OpenedFlows(c)'
  <2>1. opened'[c].file = f /\ opened'[c].size = Len(content) /\ opened'[c].rows = <<>>
    BY <1>1
  <2>2. Follows(c, <<>>, SubSeq(FileRows(f, content), 1, 0))
    BY SubSeqEmpty DEF Follows
  <2>3. source'[c][cursor'[c]] = f /\ tree'[From[c]][f] = content /\ cursor'[c] # 0
    BY <1>1, <1>2
  <2>4. stream'[c] = <<>> /\ Len(<<>>) = 0
    BY <1>1
  <2> HIDE DEF f, content, rec
  <2> QED BY <2>1, <2>2, <2>3, <2>4 DEF OpenedFlows, Follows, Breaks
<1>7. InOrder(c)'
  <2>1. HandedOver(c)' = HandedOver(c)
    <3> HIDE DEF rec
    <3> QED BY <1>1, <1>2, <1>4 DEF HandedOver
  <2>2. (Sent(c) \o stream[c])' = Sent(c) \o stream[c]
    BY <1>1 DEF Sent
  <2> QED BY <1>1, <2>1, <2>2, OrderKept DEF Flows
<1>8. EndsEmpty(c)'
  BY <1>1 DEF Flows, EndsEmpty
<1> QED BY <1>5, <1>6, <1>7, <1>8 DEF Flows

\* What the next file or batch makes follows what has been loaded.
LEMMA OrderLoaded ==
    ASSUME Inv, NEW c \in Copies, Flows(c), stream[c] = <<>>, source'[c] = source[c],
           FromTree(c) => tree'[From[c]] = tree[From[c]],
           HandedOver(c) < Len(source[c]), HandedOver(c)' = HandedOver(c) + 1,
           stream'[c] \in Seq(Row \cup {Err}),
           Follows(c, stream'[c], Item(c, HandedOver(c) + 1)),
           UNCHANGED <<builder, outbox, channel, fragment>>
    PROVE  InOrder(c)'
<1> DEFINE n == HandedOver(c)
           f == [k \in 1..n + 1 |-> Item(c, k)]
           before == [k \in 1..n |-> Item(c, k)]
           after == [k \in 1..n + 1 |-> Item(c, k)]
<1>1. Sent(c) \in Seq(Row) /\ n \in Nat /\ n + 1 \in 1..Len(source[c])
  BY FlowType
<1>2. \A k \in 1..n + 1 : f[k] \in Seq(Row)
  BY <1>1, ItemType
<1>3. FlattenSeq(after) = FlattenSeq(before) \o Item(c, n + 1)
  <2>1. before = [k \in 1..n |-> f[k]] /\ after = [k \in 1..n + 1 |-> f[k]]
    BY <1>1
  <2>2. f[n + 1] = Item(c, n + 1)
    BY <1>1
  <2> HIDE DEF f, before, after
  <2>3. FlattenSeq([k \in 1..n + 1 |-> f[k]]) = FlattenSeq([k \in 1..n |-> f[k]]) \o f[n + 1]
    <3> HIDE DEF n
    <3> QED BY <1>1, <1>2, FlattenUpTo
  <2> QED BY <2>1, <2>2, <2>3
<1>4. Sent(c) = FlattenSeq(before)
  <2>1. Follows(c, Sent(c) \o stream[c], FlattenSeq(before))
    BY DEF Flows, InOrder
  <2>2. Sent(c) \o stream[c] = Sent(c)
    BY <1>1, ConcatEmptySeq
  <2> HIDE DEF before
  <2> QED BY <1>1, <2>1, <2>2, RowsFollow
<1>5. (Sent(c) \o stream[c])' = Sent(c) \o stream'[c]
  BY DEF Sent
<1>6. Follows(c, Sent(c) \o stream'[c], Sent(c) \o Item(c, n + 1))
  <2> DEFINE s == Sent(c)
             t == stream'[c]
             rows == Item(c, n + 1)
  <2>1. s \in Seq(Row \cup {Err}) /\ t \in Seq(Row \cup {Err}) /\ rows \in Seq(Row \cup {Err})
    BY <1>1, ItemType, SeqMonotonic
  <2>2. Follows(c, t, rows)
    OBVIOUS
  <2> HIDE DEF s, t, rows
  <2>3. Follows(c, s \o t, s \o rows)
    BY <2>1, <2>2, FollowsBehind
  <2> QED BY <2>3 DEF s, t, rows
<1>7. Follows(c, (Sent(c) \o stream[c])', FlattenSeq(after))
  <2> HIDE DEF before, after, n
  <2> QED BY <1>3, <1>4, <1>5, <1>6
<1>8. InOrder(c)' <=>
         Follows(c, (Sent(c) \o stream[c])', FlattenSeq([k \in 1..n + 1 |-> Item(c, k)']))
  BY DEF InOrder, Follows, Breaks
<1>9. [k \in 1..n + 1 |-> Item(c, k)'] = after
  BY ItemKept
<1> QED BY <1>7, <1>8, <1>9

\* A chunk is what comes next in its file; the last one hands the file over.
LEMMA ReadChunkFlow ==
    ASSUME Inv, NEW c \in Copies, ~ToTree(c), Flows(c), ReadChunk(c)
    PROVE  Flows(c)'
<1> DEFINE f == opened[c].file
           n == opened[c].size
           i == Len(opened[c].rows)
           content == tree[From[c]][f]
           all == FileRows(f, content)
           chunk == Chunk(f, n, content, i)
<1>a. PICK row \in {chunk} \cup (IF c \in Unreadable THEN {Err} ELSE {}) :
         IF i = LastChunk(n)
         THEN stream'[c] = Append(opened[c].rows, row) /\ opened'[c] = None
         ELSE opened'[c] = [opened[c] EXCEPT !.rows = Append(opened[c].rows, row)]
              /\ stream'[c] = stream[c]
  BY DEF ReadChunk, Inv, TypeOK
<1> DEFINE rows == Append(opened[c].rows, row)
<1>0. /\ opened[c] # None /\ producer[c] = "running" /\ stream[c] = <<>>
      /\ IF i = LastChunk(n)
         THEN stream'[c] = rows /\ opened'[c] = None
         ELSE opened'[c] = [opened[c] EXCEPT !.rows = rows] /\ stream'[c] = stream[c]
      /\ UNCHANGED <<tree, step, source, cursor, builder, outbox, channel, producer, fragment>>
  BY <1>a DEF ReadChunk, Pulls
<1>1. /\ opened[c] \in [file: FileNames, size: Nat, rows: Seq(Row \cup {Err})]
      /\ FromTree(c) /\ content \in Seq(Cell) /\ i <= LastChunk(n)
  BY <1>0 DEF Inv, TypeOK, OpenedOK
<1>2. f \in FileNames /\ opened[c].rows \in Seq(Row \cup {Err}) /\ i \in Nat
  BY <1>1, LenProperties
<1>3. /\ cursor[c] # 0 /\ f = source[c][cursor[c]] /\ n = Len(content)
      /\ Follows(c, opened[c].rows, SubSeq(all, 1, i))
  BY <1>0 DEF Flows, OpenedFlows
<1>4. /\ all \in Seq(Row) /\ LastChunk(n) \in Nat /\ Len(all) = LastChunk(n) + 1
      /\ all[i + 1] = chunk /\ chunk \in Row
  <2>1. /\ all \in Seq(Row) /\ LastChunk(n) \in Nat /\ Len(all) = LastChunk(n) + 1
        /\ \A k \in 1..LastChunk(n) + 1 : all[k] = Chunk(f, n, content, k - 1)
    <3>1. /\ FileRows(f, content) \in Seq(Row)
          /\ LastChunk(Len(content)) \in Nat
          /\ Len(FileRows(f, content)) = LastChunk(Len(content)) + 1
          /\ \A k \in 1..LastChunk(Len(content)) + 1 :
                FileRows(f, content)[k] = Chunk(f, Len(content), content, k - 1)
      <4> HIDE DEF f, content
      <4> QED BY <1>1, <1>2, FileRowsType
    <3> QED BY <1>3, <3>1
  <2> HIDE DEF all, n, i, f, content
  <2>2. i + 1 \in 1..LastChunk(n) + 1 /\ (i + 1) - 1 = i
    BY <1>1, <1>2, <2>1
  <2>3. all[i + 1] \in Row
    BY <2>1, <2>2, ElementOfSeq
  <2> QED BY <2>1, <2>2, <2>3 DEF chunk
<1>b. row \in {chunk} \cup (IF c \in Unreadable THEN {Err} ELSE {}) /\ row \in Row \cup {Err}
  <2> HIDE DEF chunk
  <2> QED BY <1>4
<1>5. /\ rows \in Seq(Row \cup {Err}) /\ Len(rows) = i + 1
      /\ Follows(c, rows, SubSeq(all, 1, i + 1))
  <2> HIDE DEF all, n, chunk
  <2>1. i + 1 \in 1..Len(all) /\ 1 \in 1..Len(all) /\ i + 1 \in 1..Len(all) /\ (i + 1) - 1 = i
    BY <1>1, <1>2, <1>4
  <2>2. SubSeq(all, 1, i + 1) = SubSeq(all, 1, (i + 1) - 1) \o <<all[i + 1]>>
    BY <1>4, <2>1, SubSeqRecursiveSecond
  <2>3. SubSeq(all, 1, i) \in Seq(Row) /\ Len(SubSeq(all, 1, i)) = i
    <3>1. \A k \in 1..i : all[k] \in Row
      <4>1. \A k \in 1..i : k \in 1..Len(all)
        BY <1>1, <1>2, <1>4
      <4> QED BY <1>4, <4>1, ElementOfSeq
    <3>2. 1 \in Int /\ i \in Int
      BY <1>2
    <3>3. /\ SubSeq(all, 1, i) \in Seq(Row)
          /\ Len(SubSeq(all, 1, i)) = IF 1 <= i THEN i - 1 + 1 ELSE 0
      BY <3>1, <3>2, SubSeqProperties
    <3> QED BY <1>2, <3>3
  <2>4. Follows(c, opened[c].rows \o <<row>>, SubSeq(all, 1, i) \o <<chunk>>)
    <3> DEFINE s == opened[c].rows
               before == SubSeq(all, 1, i)
    <3>1. /\ s \in Seq(Row \cup {Err}) /\ before \in Seq(Row \cup {Err})
          /\ chunk \in Row \cup {Err} /\ Follows(c, s, before)
      BY <1>2, <1>3, <1>4, <2>3, SeqMonotonic
    <3> HIDE DEF s, before, i
    <3>2. Follows(c, s \o <<row>>, before \o <<chunk>>)
      BY <1>b, <3>1, FollowsAppend
    <3> QED BY <3>2 DEF s, before, i
  <2>5. rows = opened[c].rows \o <<row>> /\ rows \in Seq(Row \cup {Err}) /\ Len(rows) = i + 1
    <3> HIDE DEF i
    <3> QED BY <1>2, <1>b, AppendIsConcat, AppendProperties DEF i
  <2> QED BY <1>4, <2>1, <2>2, <2>4, <2>5
<1>6. ReadsListed(c)'
  BY <1>0, ReadsKept
<1>7. EndsEmpty(c)'
  BY <1>0 DEF Flows, EndsEmpty
<1>8. CASE i = LastChunk(n)
  <2>1. stream'[c] = rows /\ opened'[c] = None
    BY <1>0, <1>8
  <2>2. Follows(c, rows, all)
    <3> HIDE DEF i, n, all, rows, chunk
    <3>1. i + 1 = Len(all)
      BY <1>4, <1>8
    <3>2. SubSeq(all, 1, i + 1) = all
      BY <1>4, <3>1, SubSeqFull
    <3> QED BY <1>5, <3>2
  <2>3. HandedOver(c) = cursor[c] - 1 /\ HandedOver(c)' = cursor[c]
    BY <1>0, <2>1 DEF HandedOver
  <2>4. cursor[c] \in 0..Len(source[c]) /\ Len(source[c]) \in Nat
    BY FlowType
  <2>5. /\ HandedOver(c)' = HandedOver(c) + 1 /\ HandedOver(c) < Len(source[c])
        /\ HandedOver(c) + 1 = cursor[c]
    BY <1>3, <2>3, <2>4
  <2>6. Item(c, cursor[c]) = all
    <3> HIDE DEF f
    <3> QED BY <1>1, <1>3 DEF Item
  <2>7. InOrder(c)'
    <3>1. stream'[c] \in Seq(Row \cup {Err}) /\ Follows(c, stream'[c], Item(c, HandedOver(c) + 1))
      <4> HIDE DEF rows, all
      <4> QED BY <1>5, <2>1, <2>2, <2>5, <2>6
    <3>2. /\ stream[c] = <<>> /\ source'[c] = source[c] /\ tree' = tree
          /\ UNCHANGED <<builder, outbox, channel, fragment>>
      BY <1>0
    <3> HIDE DEF rows, all, i, n, f, content, chunk
    <3> QED BY <2>5, <3>1, <3>2, OrderLoaded
  <2>8. OpenedFlows(c)'
    BY <2>1 DEF OpenedFlows
  <2> QED BY <1>6, <1>7, <2>7, <2>8 DEF Flows
<1>9. CASE i # LastChunk(n)
  <2>1. opened'[c] = [opened[c] EXCEPT !.rows = rows] /\ stream'[c] = stream[c]
    BY <1>0, <1>9
  <2>2. /\ opened'[c] \in [file: FileNames, size: Nat, rows: Seq(Row \cup {Err})]
        /\ opened'[c].file = f /\ opened'[c].size = n /\ opened'[c].rows = rows
    <3>1. rows \in Seq(Row \cup {Err})
      BY <1>5
    <3> HIDE DEF rows
    <3> QED BY <1>1, <2>1, <3>1
  <2>3. opened'[c] # None
    BY <2>2, OutcomesAssumption
  <2>4. HandedOver(c)' = HandedOver(c)
    BY <1>0, <2>3 DEF HandedOver
  <2>5. InOrder(c)'
    <3>1. (Sent(c) \o stream[c])' = Sent(c) \o stream[c]
      BY <1>0, <2>1 DEF Sent
    <3> QED BY <1>0, <2>4, <3>1, OrderKept DEF Flows
  <2>6. OpenedFlows(c)'
    <3> HIDE DEF f, n, i, content, all, rows
    <3>1. Follows(c, opened'[c].rows, SubSeq(FileRows(f, content), 1, Len(opened'[c].rows)))
      BY <1>5, <2>2 DEF all
    <3>2. stream'[c] = <<>> /\ cursor'[c] # 0 /\ f = source'[c][cursor'[c]]
      BY <1>0, <1>3, <2>1
    <3>3. content = tree'[From[c]][f]
      BY <1>0 DEF content
    <3> QED BY <1>3, <2>2, <3>1, <3>2, <3>3 DEF OpenedFlows, Follows, Breaks
  <2> QED BY <1>6, <1>7, <2>5, <2>6 DEF Flows
<1> QED BY <1>8, <1>9

\* A batch is handed over at once.
LEMMA ReadBatchFlow ==
    ASSUME Inv, NEW c \in Copies, ~ToTree(c), Flows(c), ReadBatch(c)
    PROVE  Flows(c)'
<1>1. /\ ~FromTree(c) /\ cursor[c] < Len(source[c]) /\ stream[c] = <<>>
      /\ producer[c] = "running"
      /\ cursor'[c] = cursor[c] + 1 /\ stream'[c] = IntoVec(source[c][cursor[c] + 1])
      /\ UNCHANGED <<tree, step, source, opened, builder, outbox, channel, producer, fragment>>
  BY DEF ReadBatch, Pulls, Inv, TypeOK
<1>2. opened[c] = None
  BY <1>1 DEF Inv, OpenedOK
<1>3. HandedOver(c) = cursor[c] /\ HandedOver(c)' = cursor[c] + 1
  BY <1>1, <1>2 DEF HandedOver
<1>4. /\ HandedOver(c) + 1 \in 1..Len(source[c]) /\ HandedOver(c) < Len(source[c])
      /\ stream'[c] = Item(c, HandedOver(c) + 1)
  BY <1>1, <1>3, FlowType DEF Item
<1>5. InOrder(c)'
  <2>1. Follows(c, stream'[c], Item(c, HandedOver(c) + 1))
    BY <1>4 DEF Follows
  <2>2. stream'[c] \in Seq(Row \cup {Err})
    BY <1>4, ItemType, SeqMonotonic
  <2> QED BY <1>1, <1>3, <1>4, <2>1, <2>2, OrderLoaded
<1>6. ReadsListed(c)' /\ OpenedFlows(c)' /\ EndsEmpty(c)'
  BY <1>1, <1>2 DEF Flows, ReadsListed, OpenedFlows, EndsEmpty, FromTree
<1> QED BY <1>5, <1>6 DEF Flows

\* An error takes the place of a file or batch.
LEMMA LoadFailsFlow ==
    ASSUME Inv, NEW c \in Copies, ~ToTree(c), Flows(c), LoadFails(c)
    PROVE  Flows(c)'
<1>1. /\ c \in Unreadable /\ opened[c] = None /\ cursor[c] < Len(source[c])
      /\ stream[c] = <<>> /\ producer[c] = "running"
      /\ cursor'[c] = cursor[c] + 1 /\ stream'[c] = <<Err>>
      /\ UNCHANGED <<tree, step, source, opened, builder, outbox, channel, producer, fragment>>
  BY DEF LoadFails, Pulls, Inv, TypeOK
<1>2. HandedOver(c) = cursor[c] /\ HandedOver(c)' = cursor[c] + 1
  BY <1>1 DEF HandedOver
<1>3. InOrder(c)'
  <2>1. HandedOver(c) + 1 \in 1..Len(source[c]) /\ HandedOver(c) < Len(source[c])
    BY <1>1, <1>2, FlowType
  <2>2. Len(Item(c, HandedOver(c) + 1)) \in Nat
    BY <2>1, ItemType, LenProperties
  <2>3. Follows(c, <<Err>>, Item(c, HandedOver(c) + 1))
    <3>1. Len(<<Err>>) = 1 /\ <<Err>>[1] = Err /\ 1 \in 1..Len(<<Err>>) /\ 1..1 - 1 = {}
      OBVIOUS
    <3>2. 1 - 1 <= Len(Item(c, HandedOver(c) + 1))
      BY <2>2
    <3> QED BY <1>1, <3>1, <3>2 DEF Follows, Breaks
  <2>4. <<Err>> \in Seq(Row \cup {Err})
    OBVIOUS
  <2> QED BY <1>1, <1>2, <2>1, <2>3, <2>4, OrderLoaded
<1>4. ReadsListed(c)'
  BY <1>1, ReadsKept
<1>5. OpenedFlows(c)' /\ EndsEmpty(c)'
  BY <1>1 DEF Flows, OpenedFlows, EndsEmpty
<1> QED BY <1>3, <1>4, <1>5 DEF Flows
\* What is moved along the pipeline stays in order.
LEMMA OrderMoved ==
    ASSUME Inv, NEW c \in Copies, Flows(c),
           UNCHANGED <<tree, source, cursor, opened>>,
           Line(fragment'[c], channel'[c], outbox'[c], builder'[c], stream'[c])
              = Line(fragment[c], channel[c], outbox[c], builder[c], stream[c])
    PROVE  InOrder(c)'
<1>1. (Sent(c) \o stream[c])'
         = Line(fragment'[c], channel'[c], outbox'[c], builder'[c], stream'[c])
  BY DEF Sent, Line, Cat
<1>2. Sent(c) \o stream[c] = Line(fragment[c], channel[c], outbox[c], builder[c], stream[c])
  BY DEF Sent, Line, Cat
<1>3. HandedOver(c)' = HandedOver(c)
  BY DEF HandedOver
<1> QED BY <1>1, <1>2, <1>3, OrderKept DEF Flows

\* A loaded row is packed.
LEMMA PushFlow ==
    ASSUME Inv, NEW c \in Copies, ~ToTree(c), Flows(c), Push(c)
    PROVE  Flows(c)'
<1> DEFINE F == fragment[c]
           C == channel[c]
           B == builder[c]
           S == stream[c]
           r == Head(S)
           t == Tail(S)
           full == TotalSize(B) + r.size > MaxBuffer
<1>1. /\ producer[c] = "running" /\ outbox[c] = <<>> /\ S # <<>>
      /\ builder'[c] = IF full THEN <<r>> ELSE Append(B, r)
      /\ outbox'[c] = IF full /\ B # <<>> THEN <<B>> ELSE <<>>
      /\ stream'[c] = t
      /\ UNCHANGED <<tree, step, source, cursor, opened, channel, producer, fragment>>
  BY DEF Push, sourceVars, Inv, TypeOK
<1> DEFINE X == Row \cup {Err}
<1>2. F \in Seq(X) /\ C \in Seq(Seq(X)) /\ B \in Seq(X) /\ S \in Seq(X)
  <2>1. F \in Seq(Row) /\ C \in Seq(Seq(Row)) /\ B \in Seq(Row) /\ S \in Seq(X)
    BY FlowType
  <2>2. Row \subseteq X /\ Seq(Row) \subseteq Seq(X)
    BY SeqMonotonic
  <2> HIDE DEF F, C, B, S, X
  <2> QED BY <2>1, <2>2, SeqMonotonic
<1>3. r \in X /\ t \in Seq(X) /\ S = Cat(<<r>>, t)
  <2> HIDE DEF S, X
  <2> QED BY <1>1, <1>2, HeadTailProperties, SequenceFirst DEF Cat
<1>4. Line(F, C, outbox'[c], builder'[c], t) = Line(F, C, <<>>, B, S)
  <2> HIDE DEF F, C, B, S, r, t, X
  <2>1. /\ Line(F, C, <<>>, Append(B, r), t) = Line(F, C, <<>>, B, S)
        /\ Line(F, C, <<B>>, <<r>>, t) = Line(F, C, <<>>, B, S)
    BY <1>2, <1>3, LinePush
  <2>2. CASE ~full
    BY <1>1, <2>1, <2>2
  <2>3. CASE full /\ B # <<>>
    BY <1>1, <2>1, <2>3
  <2>4. CASE full /\ B = <<>>
    <3>1. Append(B, r) = <<r>>
      BY <2>4
    <3> QED BY <1>1, <2>1, <2>4, <3>1
  <2> QED BY <2>2, <2>3, <2>4
<1>5. Line(fragment'[c], channel'[c], outbox'[c], builder'[c], stream'[c])
         = Line(fragment[c], channel[c], outbox[c], builder[c], stream[c])
  BY <1>1, <1>4
<1>6. InOrder(c)'
  BY <1>1, <1>5, OrderMoved
<1>7. stream[c] # <<>> /\ UNCHANGED <<tree, step, source, cursor, opened, channel, producer, fragment>>
  BY <1>1
<1>8. ReadsListed(c)' /\ OpenedFlows(c)' /\ EndsEmpty(c)'
  <2>1. ReadsListed(c)'
    BY <1>7, ReadsKept
  <2>2. OpenedFlows(c)'
    BY <1>7 DEF Flows, OpenedFlows
  <2>3. EndsEmpty(c)'
    BY <1>1, <1>7 DEF Flows, EndsEmpty
  <2> QED BY <2>1, <2>2, <2>3
<1> QED BY <1>6, <1>8 DEF Flows

\* The error that a task dies of stays in its place.
LEMMA ProducerFailsFlow ==
    ASSUME Inv, NEW c \in Copies, ~ToTree(c), Flows(c), ProducerFails(c)
    PROVE  Flows(c)'
<1>1. /\ producer[c] = "running" /\ stream[c] # <<>> /\ Head(stream[c]) = Err
      /\ outbox[c] = <<>> /\ producer'[c] = "failed"
      /\ UNCHANGED <<tree, step, source, cursor, opened, stream, builder, outbox, channel, fragment>>
  BY DEF ProducerFails, sourceVars, Inv, TypeOK
<1>2. c \in Unreadable
  <2> DEFINE rows == FlattenSeq([k \in 1..HandedOver(c) |-> Item(c, k)])
  <2>1. rows \in Seq(Row)
    BY HandedOverType
  <2>2. Sent(c) \in Seq(Row \cup {Err}) /\ stream[c] \in Seq(Row \cup {Err})
    BY FlowType, SeqMonotonic
  <2>3. /\ Len(Sent(c)) \in Nat /\ Len(stream[c]) \in Nat /\ Len(stream[c]) # 0
        /\ stream[c][1] = Err
    BY <1>1, <2>2, LenProperties, EmptySeq
  <2>4. /\ Len(Sent(c) \o stream[c]) = Len(Sent(c)) + Len(stream[c])
        /\ \A i \in 1..Len(Sent(c)) + Len(stream[c]) : (Sent(c) \o stream[c])[i] =
              IF i <= Len(Sent(c)) THEN Sent(c)[i] ELSE stream[c][i - Len(Sent(c))]
    BY <2>2, ConcatProperties
  <2>5. /\ Len(Sent(c)) + 1 \in 1..Len(Sent(c) \o stream[c])
        /\ (Sent(c) \o stream[c])[Len(Sent(c)) + 1] = Err
    <3> DEFINE m == Len(Sent(c))
               l == Len(stream[c])
    <3>1. m \in Nat /\ l \in Nat /\ l # 0
      BY <2>3
    <3> HIDE DEF m, l
    <3>2. m + 1 \in 1..m + l /\ ~(m + 1 <= m) /\ (m + 1) - m = 1
      BY <3>1
    <3> QED BY <2>3, <2>4, <3>2 DEF m, l
  <2>6. Sent(c) \o stream[c] # rows
    <3> HIDE DEF rows
    <3> QED BY <2>1, <2>5, ElementOfSeq, OutcomesAssumption
  <2> QED BY <2>6 DEF Flows, InOrder, Follows
<1>3. InOrder(c)'
  BY <1>1, OrderMoved
<1>4. ReadsListed(c)'
  BY <1>1, ReadsKept
<1>5. OpenedFlows(c)'
  BY <1>1 DEF Flows, OpenedFlows
<1>6. EndsEmpty(c)'
  BY <1>1, <1>2 DEF Flows, EndsEmpty
<1> QED BY <1>3, <1>4, <1>5, <1>6 DEF Flows

\* The rest is sent off when the stream has ended.
LEMMA FlushFlow ==
    ASSUME Inv, NEW c \in Copies, ~ToTree(c), Flows(c), Flush(c)
    PROVE  Flows(c)'
<1> DEFINE F == fragment[c]
           C == channel[c]
           B == builder[c]
           S == stream[c]
<1>1. /\ producer[c] = "running" /\ outbox[c] = <<>> /\ S = <<>> /\ Exhausted(c)
      /\ outbox'[c] = IF B = <<>> THEN <<>> ELSE <<B>>
      /\ builder'[c] = <<>>
      /\ producer'[c] = IF B = <<>> THEN "finished" ELSE "flushed"
      /\ UNCHANGED <<tree, step, source, cursor, opened, stream, channel, fragment>>
  BY DEF Flush, sourceVars, Inv, TypeOK
<1>2. F \in Seq(Row) /\ C \in Seq(Seq(Row)) /\ B \in Seq(Row)
  BY FlowType
<1>3. Line(F, C, outbox'[c], <<>>, S) = Line(F, C, <<>>, B, S)
  <2> HIDE DEF F, C, B, S
  <2>1. Line(F, C, <<B>>, <<>>, S) = Line(F, C, <<>>, B, S)
    BY <1>2, LineFlush
  <2> QED BY <1>1, <2>1
<1>4. InOrder(c)'
  BY <1>1, <1>3, OrderMoved
<1>5. ReadsListed(c)'
  BY <1>1, ReadsKept
<1>6. OpenedFlows(c)'
  BY <1>1 DEF Flows, OpenedFlows
<1>7. EndsEmpty(c)'
  <2>1. producer'[c] = "finished" => outbox'[c] = <<>>
    BY <1>1
  <2>2. step[c] \notin {"committing", "ok"} /\ step'[c] = step[c]
    BY <1>1 DEF Flows, EndsEmpty
  <2>3. Exhausted(c)' /\ stream'[c] = <<>>
    BY <1>1 DEF Exhausted
  <2> QED BY <1>1, <2>1, <2>2, <2>3 DEF EndsEmpty
<1> QED BY <1>4, <1>5, <1>6, <1>7 DEF Flows

\* A batch enters the channel: there is still somebody to receive it.
LEMMA SendFlow ==
    ASSUME Inv, NEW c \in Copies, ~ToTree(c), step[c] # "failed", Flows(c), Send(c)
    PROVE  Flows(c)'
<1> DEFINE F == fragment[c]
           C == channel[c]
           O == outbox[c]
           B == builder[c]
           S == stream[c]
<1>1. O # <<>> /\ step[c] \notin {"committing", "ok"}
  BY DEF Send, Flows, EndsEmpty
<1>2. /\ outbox'[c] = <<>> /\ channel'[c] = C \o O
      /\ producer'[c] = IF producer[c] = "flushed" THEN "finished" ELSE producer[c]
      /\ UNCHANGED <<tree, step, source, cursor, opened, stream, builder, fragment>>
  BY <1>1 DEF Send, Ended, sourceVars, Inv, TypeOK
<1>3. F \in Seq(Row) /\ C \in Seq(Seq(Row)) /\ O \in Seq(Seq(Row))
  BY FlowType
<1>4. Line(F, C \o O, <<>>, B, S) = Line(F, C, O, B, S)
  <2> HIDE DEF F, C, O, B, S
  <2> QED BY <1>3, LineSend
<1>5. InOrder(c)'
  BY <1>2, <1>4, OrderMoved
<1>6. ReadsListed(c)' /\ OpenedFlows(c)'
  BY <1>2, ReadsKept DEF Flows, OpenedFlows
<1>7. EndsEmpty(c)'
  <2>1. producer[c] # "failed" /\ producer[c] # "finished"
    BY <1>1 DEF Flows, EndsEmpty
  <2>2. producer'[c] \in {"flushed", "finished"} => producer[c] = "flushed"
    BY <1>2, <2>1
  <2>3. producer[c] = "flushed" => Exhausted(c)' /\ stream'[c] = <<>> /\ builder'[c] = <<>>
    BY <1>2 DEF Flows, EndsEmpty, Exhausted
  <2>4. producer'[c] # "failed" /\ outbox'[c] = <<>> /\ step'[c] \notin {"committing", "ok"}
    BY <1>1, <1>2, <2>1
  <2> QED BY <2>2, <2>3, <2>4 DEF EndsEmpty
<1> QED BY <1>5, <1>6, <1>7 DEF Flows

\* Lance takes a batch.
LEMMA ReceiveFlow ==
    ASSUME Inv, NEW c \in Copies, ~ToTree(c), Flows(c), Receive(c)
    PROVE  Flows(c)'
<1> DEFINE F == fragment[c]
           C == channel[c]
           O == outbox[c]
           B == builder[c]
           S == stream[c]
<1>1. /\ step[c] = "copying" /\ C # <<>>
      /\ fragment'[c] = F \o Head(C) /\ channel'[c] = Tail(C)
      /\ UNCHANGED <<tree, step, source, cursor, opened, stream, builder, outbox, producer>>
  BY DEF Receive, sourceVars, Inv, TypeOK
<1>2. F \in Seq(Row) /\ C \in Seq(Seq(Row))
  BY FlowType
<1>3. Line(F \o Head(C), Tail(C), O, B, S) = Line(F, C, O, B, S)
  <2>1. C # <<>>
    BY <1>1
  <2> HIDE DEF F, C, O, B, S
  <2> QED BY <1>2, <2>1, LineReceive
<1>4. InOrder(c)'
  BY <1>1, <1>3, OrderMoved
<1>5. ReadsListed(c)' /\ OpenedFlows(c)'
  BY <1>1, ReadsKept DEF Flows, OpenedFlows
<1>6. EndsEmpty(c)'
  BY <1>1 DEF Flows, EndsEmpty, Exhausted
<1> QED BY <1>4, <1>5, <1>6 DEF Flows

\* Everything has arrived when the commit begins ...
LEMMA PrepareFlow ==
    ASSUME Inv, NEW c \in Copies, ~ToTree(c), Flows(c), Prepare(c)
    PROVE  Flows(c)'
<1>1. /\ step[c] = "copying" /\ step'[c] = "committing" /\ channel[c] = <<>>
      /\ producer[c] \in {"finished", "failed"}
      /\ UNCHANGED <<tree, source, cursor, opened, stream, builder, outbox, channel,
                     producer, fragment>>
  BY DEF Prepare, sourceVars, pipeVars, Inv, TypeOK
<1>2. InOrder(c)'
  BY <1>1, OrderMoved
<1>3. ReadsListed(c)' /\ OpenedFlows(c)'
  BY <1>1, ReadsKept DEF Flows, OpenedFlows
<1>4. EndsEmpty(c)'
  BY <1>1 DEF Flows, EndsEmpty, Exhausted
<1> QED BY <1>2, <1>3, <1>4 DEF Flows

\* ... and is still there when it has been made.
LEMMA CommitFlow ==
    ASSUME Inv, NEW c \in Copies, ~ToTree(c), Flows(c), Commit(c)
    PROVE  Flows(c)'
<1>1. /\ step[c] = "committing" /\ step'[c] = "ok"
      /\ UNCHANGED <<tree, source, cursor, opened, stream, builder, outbox, channel,
                     producer, fragment>>
  BY DEF Commit, sourceVars, pipeVars, Inv, TypeOK
<1>2. InOrder(c)'
  BY <1>1, OrderMoved
<1>3. ReadsListed(c)' /\ OpenedFlows(c)'
  BY <1>1, ReadsKept DEF Flows, OpenedFlows
<1>4. EndsEmpty(c)'
  BY <1>1 DEF Flows, EndsEmpty, Exhausted
<1> QED BY <1>2, <1>3, <1>4 DEF Flows
----------------------------------------------------------------------------
(* Every step. *)

\* The state of a copy, without the trees and tables.
Own(c) == <<step[c], source[c], cursor[c], opened[c], stream[c], builder[c], outbox[c],
            channel[c], producer[c], fragment[c]>>

\* A copy changes its own state only.
LEMMA OthersRest ==
    ASSUME Inv, NEW c \in Copies, NEW d \in Copies, c # d,
           Start(d) \/ StartFails(d) \/ Work(d) \/ DumpFails(d) \/ WriteFails(d)
    PROVE  UNCHANGED Own(c)
<1>1. CASE Start(d) \/ StartFails(d) \/ DumpFails(d) \/ WriteFails(d)
  BY <1>1 DEF Start, StartFails, DumpFails, WriteFails, sourceVars, pipeVars, Own, Inv, TypeOK
<1>2. CASE OpenFile(d) \/ ReadBatch(d) \/ LoadFails(d)
  BY <1>2 DEF OpenFile, ReadBatch, LoadFails, pipeVars, Own, Inv, TypeOK
<1>3. CASE ReadChunk(d)
  BY <1>3 DEF ReadChunk, Own, Inv, TypeOK
<1>4. CASE Dump(d) \/ StreamFails(d) \/ DumpEnds(d)
  BY <1>4 DEF Dump, StreamFails, DumpEnds, sourceVars, pipeVars, Own, Inv, TypeOK
<1>5. CASE Push(d)
  BY <1>5 DEF Push, sourceVars, Own, Inv, TypeOK
<1>6. CASE ProducerFails(d) \/ Flush(d)
  BY <1>6 DEF ProducerFails, Flush, sourceVars, Own, Inv, TypeOK
<1>7. CASE Send(d)
  BY <1>7 DEF Send, sourceVars, Own, Inv, TypeOK
<1>8. CASE Receive(d)
  BY <1>8 DEF Receive, sourceVars, Own, Inv, TypeOK
<1>9. CASE Prepare(d) \/ Commit(d)
  BY <1>9 DEF Prepare, Commit, sourceVars, pipeVars, Own, Inv, TypeOK
<1> QED BY <1>1, <1>2, <1>3, <1>4, <1>5, <1>6, <1>7, <1>8, <1>9 DEF Work

\* Who has failed stays so, and who is not run is not run later.  Files change
\* by edits and by the writes of those that are run.
LEMMA StepGoesOn ==
    ASSUME Inv, NEW c \in Copies, Start(c) \/ StartFails(c) \/ Work(c) \/ DumpFails(c) \/ WriteFails(c)
    PROVE  /\ step[c] = "failed" => step'[c] = "failed"
           /\ step[c] # "none" => step'[c] # "none"
           /\ edits' = edits
           /\ tree' # tree \/ landing' # landing => step[c] = "copying" /\ step'[c] # "none"
           /\ \A t \in Trees : t # To[c] => tree'[t] = tree[t]
           /\ landing' # landing =>
                 \E w : w.copy = c /\ landing' = landing \cup {w}
<1>1. CASE Start(c) \/ StartFails(c)
  BY <1>1 DEF Start, StartFails, Inv, TypeOK
<1>2. CASE WriteFails(c)
  BY <1>2 DEF WriteFails, Inv, TypeOK
<1>3. CASE OpenFile(c) \/ ReadBatch(c) \/ ReadChunk(c) \/ LoadFails(c)
  BY <1>3 DEF OpenFile, ReadBatch, ReadChunk, LoadFails
<1>4. CASE StreamFails(c) \/ DumpEnds(c)
  BY <1>4 DEF StreamFails, DumpEnds, Inv, TypeOK
<1>5. CASE Dump(c) \/ DumpFails(c)
  <2>1. PICK r : r = Head(stream[c])
    OBVIOUS
  <2>2. /\ ToTree(c) /\ stream[c] # <<>> /\ Head(stream[c]) # Err /\ step[c] = "copying"
        /\ edits' = edits
    BY <1>5 DEF Dump, DumpFails
  <2>3. step'[c] \in {"copying", "failed"}
    BY <1>5, <2>2 DEF Dump, DumpFails, Inv, TypeOK
  <2>4. To[c] \in Trees /\ r.file \in FileNames /\ WriteOf(c, r).copy = c
    BY <2>1, <2>2, DumpedRow
  <2>5. tree' = tree \/ \E content : tree' = [tree EXCEPT ![To[c]][r.file] = content]
    BY <1>5, <2>1 DEF Dump, DumpFails
  <2>6. landing' = landing \/ landing' = landing \cup {WriteOf(c, r)}
    BY <1>5, <2>1 DEF Dump, DumpFails
  <2>7. \A t \in Trees : t # To[c] => tree'[t] = tree[t]
    BY <2>4, <2>5 DEF Inv, TypeOK
  <2> QED BY <2>2, <2>3, <2>4, <2>6, <2>7
<1>6. CASE Push(c) \/ ProducerFails(c) \/ Flush(c) \/ Send(c) \/ Receive(c)
  BY <1>6 DEF Push, ProducerFails, Flush, Send, Receive
<1>7. CASE Prepare(c) \/ Commit(c)
  BY <1>7 DEF Prepare, Commit, Inv, TypeOK
<1> QED BY <1>1, <1>2, <1>3, <1>4, <1>5, <1>6, <1>7 DEF Work

\* Nobody has touched what a copy reads when nobody has touched it one step later.
LEMMA StaysUntouched ==
    ASSUME Inv, LandingOfRun, NEW c \in Copies, FromTree(c), Untouched(c)', [Next]_vars
    PROVE  Untouched(c) /\ tree'[From[c]] = tree[From[c]]
<1>0. /\ edits \in Nat /\ edits' = 0 /\ From[c] \in Trees
      /\ \A d \in Copies : step'[d] # "none" => To[d] # From[c]
  BY DEF Inv, TypeOK, Untouched, FromTree
<1>1. ASSUME NEW d \in Copies, Start(d) \/ StartFails(d) \/ Work(d) \/ DumpFails(d) \/ WriteFails(d)
      PROVE  Untouched(c) /\ tree'[From[c]] = tree[From[c]]
  <2>1. \A e \in Copies : step[e] # "none" => step'[e] # "none"
    <3>1. \A e \in Copies \ {d} : step'[e] = step[e]
      BY <1>1, OthersRest DEF Own
    <3> QED BY <1>1, <3>1, StepGoesOn
  <2>2. edits = 0
    BY <1>0, <1>1, StepGoesOn
  <2>3. tree'[From[c]] = tree[From[c]]
    <3>1. CASE tree' = tree
      BY <3>1
    <3>2. CASE tree' # tree
      <4>1. step'[d] # "none" /\ \A t \in Trees : t # To[d] => tree'[t] = tree[t]
        BY <1>1, <3>2, StepGoesOn
      <4> QED BY <1>0, <4>1
    <3> QED BY <3>1, <3>2
  <2> QED BY <1>0, <2>1, <2>2, <2>3 DEF Untouched
<1>2. ASSUME NEW w \in landing, Land(w) \/ LandFails(w)
      PROVE  Untouched(c) /\ tree'[From[c]] = tree[From[c]]
  <2>1. w.copy \in Copies /\ step[w.copy] # "none" /\ step' = step /\ edits' = edits
    BY <1>2 DEF Land, LandFails, LandingOfRun, Inv, TypeOK
  <2>2. To[w.copy] # From[c]
    BY <1>0, <2>1
  <2>3. tree'[From[c]] = tree[From[c]]
    BY <1>0, <1>2, <2>2 DEF Land, LandFails, Inv, TypeOK
  <2> QED BY <1>0, <2>1, <2>3 DEF Untouched
<1>3. ASSUME NEW t \in Trees, NEW f \in FileNames, Edit(t, f)
      PROVE  FALSE
  BY <1>0, <1>3 DEF Edit
<1>4. CASE UNCHANGED vars
  BY <1>0, <1>4 DEF vars, Untouched
<1> QED BY <1>1, <1>2, <1>3, <1>4 DEF Next

\* What a copy does itself.
LEMMA OwnFlow ==
    ASSUME Inv, NEW c \in Copies, ~ToTree(c), step[c] # "failed", step'[c] # "failed", Flows(c),
           Start(c) \/ StartFails(c) \/ Work(c) \/ DumpFails(c) \/ WriteFails(c)
    PROVE  Flows(c)'
<1>1. ~Dump(c) /\ ~StreamFails(c) /\ ~DumpEnds(c) /\ ~DumpFails(c)
  BY DEF Dump, StreamFails, DumpEnds, DumpFails
<1>2. ~WriteFails(c) /\ ~StartFails(c)
  BY DEF WriteFails, StartFails, Inv, TypeOK
<1> QED BY <1>1, <1>2, StartFlow, LoadFailsFlow, OpenFileFlow, ReadChunkFlow, ReadBatchFlow, PushFlow,
     ProducerFailsFlow, FlushFlow, SendFlow, ReceiveFlow, PrepareFlow, CommitFlow DEF Work

LEMMA FlowStep ==
    ASSUME Inv, FlowInv, [Next]_vars
    PROVE  FlowInv'
<1>1. LandingOfRun'
  <2>1. ASSUME NEW d \in Copies, Start(d) \/ StartFails(d) \/ Work(d) \/ DumpFails(d) \/ WriteFails(d)
        PROVE  LandingOfRun'
    <3>1. \A e \in Copies : step[e] # "none" => step'[e] # "none"
      <4>1. \A e \in Copies \ {d} : step'[e] = step[e]
        BY <2>1, OthersRest DEF Own
      <4> QED BY <2>1, <4>1, StepGoesOn
    <3>2. \A w \in landing : w.copy \in Copies /\ step[w.copy] # "none"
      BY DEF FlowInv, LandingOfRun, Inv, TypeOK
    <3>3. \A w \in landing' \ landing : w.copy = d /\ step'[d] # "none"
      BY <2>1, StepGoesOn
    <3> QED BY <3>1, <3>2, <3>3 DEF LandingOfRun
  <2>2. ASSUME NEW w \in landing, Land(w) \/ LandFails(w)
        PROVE  LandingOfRun'
    BY <2>2 DEF Land, LandFails, FlowInv, LandingOfRun
  <2>3. ASSUME NEW t \in Trees, NEW f \in FileNames, Edit(t, f)
        PROVE  LandingOfRun'
    BY <2>3 DEF Edit, FlowInv, LandingOfRun
  <2>4. CASE UNCHANGED vars
    BY <2>4 DEF vars, FlowInv, LandingOfRun
  <2> QED BY <2>1, <2>2, <2>3, <2>4 DEF Next
<1>2. ASSUME NEW c \in Copies, ~ToTree(c), step'[c] # "failed", FromTree(c) => Untouched(c)'
      PROVE  Flows(c)'
  <2>1. FromTree(c) => Untouched(c) /\ tree'[From[c]] = tree[From[c]]
    BY <1>2, StaysUntouched DEF FlowInv
  <2>2. ASSUME step[c] # "failed"
        PROVE  Flows(c)
    BY <1>2, <2>1, <2>2 DEF FlowInv, Flowing
  <2>3. ASSUME step'[c] = step[c], UNCHANGED Own(c)
        PROVE  Flows(c)'
    BY <1>2, <2>1, <2>2, <2>3, FlowKept DEF Own
  <2>4. ASSUME NEW d \in Copies, Start(d) \/ StartFails(d) \/ Work(d) \/ DumpFails(d) \/ WriteFails(d)
        PROVE  Flows(c)'
    <3>1. CASE d = c
      <4>1. step[c] # "failed"
        BY <1>2, <2>4, <3>1, StepGoesOn
      <4> QED BY <1>2, <2>2, <2>4, <3>1, <4>1, OwnFlow
    <3>2. CASE d # c
      BY <2>3, <2>4, <3>2, OthersRest DEF Own
    <3> QED BY <3>1, <3>2
  <2>5. ASSUME NEW w \in landing, Land(w) \/ LandFails(w)
        PROVE  Flows(c)'
    BY <2>3, <2>5 DEF Land, LandFails, sourceVars, pipeVars, Own
  <2>6. ASSUME NEW t \in Trees, NEW f \in FileNames, Edit(t, f)
        PROVE  Flows(c)'
    BY <2>3, <2>6 DEF Edit, sourceVars, pipeVars, Own
  <2>7. CASE UNCHANGED vars
    BY <2>3, <2>7 DEF vars, Own
  <2> QED BY <2>4, <2>5, <2>6, <2>7 DEF Next
<1>3. \A c \in Copies : Flowing(c)'
  BY <1>2 DEF Flowing, ToTree, FromTree
<1> QED BY <1>1, <1>3 DEF FlowInv

LEMMA FlowInit ==
    ASSUME Init
    PROVE  FlowInv
<1>1. LandingOfRun
  BY DEF Init, LandingOfRun
<1>2. ASSUME NEW c \in Copies
      PROVE  Flows(c)
  <2>1. /\ step[c] \in {"none", "idle"} /\ cursor[c] = 0 /\ opened[c] = None
        /\ stream[c] = <<>> /\ builder[c] = <<>> /\ outbox[c] = <<>> /\ channel[c] = <<>>
        /\ fragment[c] = <<>> /\ producer[c] = "none"
    BY DEF Init
  <2>2. ReadsListed(c) /\ OpenedFlows(c) /\ EndsEmpty(c)
    BY <2>1 DEF ReadsListed, OpenedFlows, EndsEmpty
  <2>3. FlattenSeq(<<>>) = <<>>
    BY FlattenSmall, EmptySeq
  <2>4. [k \in 1..HandedOver(c) |-> Item(c, k)] = <<>>
    BY <2>1 DEF HandedOver
  <2>5. Sent(c) \o stream[c] = <<>>
    <3>1. <<>> \o <<>> = <<>>
      OBVIOUS
    <3> QED BY <2>1, <2>3, <3>1 DEF Sent
  <2>6. InOrder(c)
    BY <2>3, <2>4, <2>5 DEF InOrder, Follows
  <2> QED BY <2>2, <2>6 DEF Flows
<1> QED BY <1>1, <1>2 DEF FlowInv, Flowing

\* Between the source and the fragment no row is lost, doubled or overtaken.
THEOREM FlowInvariance == Spec => [](Inv /\ FlowInv)
<1>1. Init => FlowInv
  BY FlowInit
<1>2. Inv /\ FlowInv /\ [Next]_vars => FlowInv'
  BY FlowStep
<1> QED BY <1>1, <1>2, Invariance, PTL DEF Spec

----------------------------------------------------------------------------
(* What has arrived in the end. *)

\* The position that has a rank.
At(P, k) == CHOOSE i \in P : Rank(P, i) = k

\* Going through some positions by their ranks is going through all of them and
\* passing over the others.
LEMMA FlattenChosen ==
    ASSUME NEW X, NEW N \in Nat, NEW P \in SUBSET (1..N), NEW f,
           \A i \in P : f[i] \in Seq(X),
           NEW all, all = [i \in 1..N |-> IF i \in P THEN f[i] ELSE <<>>],
           NEW chosen, chosen = [k \in 1..Cardinality(P) |-> f[At(P, k)]]
    PROVE  FlattenSeq(all) = FlattenSeq(chosen)
<1> DEFINE g == [i \in 1..N |-> IF i \in P THEN f[i] ELSE <<>>]
           M == Cardinality(P)
           h == [k \in 1..M |-> f[At(P, k)]]
           m(n) == Cardinality({j \in P : j <= n})
           G(n) == FlattenSeq([i \in 1..n |-> g[i]])
           H(n) == FlattenSeq([k \in 1..n |-> h[k]])
           S == {n \in Nat : n <= N => G(n) = H(m(n)) /\ G(n) \in Seq(X)}
<1>0. \A j \in P : j \in Nat /\ 0 < j /\ j <= N
  OBVIOUS
<1>1. /\ IsFiniteSet(P) /\ M \in Nat
      /\ \A i, j \in P : Rank(P, i) = Rank(P, j) => i = j
      /\ \A k \in 1..M : \E i \in P : Rank(P, i) = k
  BY RankOnto
<1>2. \A k \in 1..M : At(P, k) \in P /\ Rank(P, At(P, k)) = k
  BY <1>1 DEF At
<1>3. /\ \A k \in 1..M : h[k] \in Seq(X)
      /\ \A i \in 1..N : g[i] \in Seq(X)
      /\ \A i \in 1..N : i \notin P => g[i] = <<>>
      /\ \A i \in P : Rank(P, i) \in 1..M /\ h[Rank(P, i)] = g[i]
  <2>1. \A k \in 1..M : h[k] \in Seq(X)
    BY <1>2
  <2>2. <<>> \in Seq(X)
    OBVIOUS
  <2>3. \A i \in 1..N : g[i] \in Seq(X)
    BY <2>2
  <2>4. ASSUME NEW i \in P
        PROVE  Rank(P, i) \in 1..M /\ h[Rank(P, i)] = g[i]
    <3>1. Rank(P, i) \in 1..M
      BY RankType
    <3>2. At(P, Rank(P, i)) = i
      BY <1>1, <1>2, <3>1
    <3> QED BY <3>1, <3>2
  <2> QED BY <2>1, <2>3, <2>4
<1>4. \A n \in Nat : m(n) \in 0..M
  <2>1. ASSUME NEW n \in Nat
        PROVE  m(n) \in 0..M
    <3>1. {j \in P : j <= n} \subseteq P
      OBVIOUS
    <3> QED BY <1>1, <3>1, FS_Subset, FS_CardinalityType
  <2> QED BY <2>1
<1>5. 0 \in S
  <2>1. {j \in P : j <= 0} = {}
    BY <1>0, Below
  <2>2. m(0) = 0
    BY <2>1, FS_EmptySet
  <2>3. [i \in 1..0 |-> g[i]] = <<>> /\ [k \in 1..0 |-> h[k]] = <<>>
    OBVIOUS
  <2>4. FlattenSeq(<<>>) = <<>> /\ <<>> \in Seq(X)
    BY FlattenSmall, EmptySeq
  <2> QED BY <2>2, <2>3, <2>4
<1>6. ASSUME NEW n \in Nat, n \in S, n + 1 <= N
      PROVE  G(n + 1) = H(m(n + 1)) /\ G(n + 1) \in Seq(X)
  <2>0. {j \in P : j <= n + 1} = {j \in P : j <= n} \cup ({n + 1} \cap P)
    BY <1>0, Below
  <2>1. G(n) = H(m(n)) /\ G(n) \in Seq(X)
    BY <1>6
  <2>2. G(n + 1) = G(n) \o g[n + 1] /\ g[n + 1] \in Seq(X)
    <3>1. \A k \in 1..n + 1 : g[k] \in Seq(X)
      BY <1>3, <1>6
    <3>2. n + 1 \in 1..n + 1
      OBVIOUS
    <3> HIDE DEF g
    <3> QED BY <3>1, <3>2, FlattenUpTo
  <2>3. G(n + 1) \in Seq(X)
    <3> HIDE DEF g, G
    <3> QED BY <2>1, <2>2, ConcatProperties
  <2>4. CASE n + 1 \notin P
    <3>1. {j \in P : j <= n + 1} = {j \in P : j <= n}
      <4>1. {n + 1} \cap P = {}
        BY <2>4
      <4> QED BY <2>0, <4>1
    <3>2. m(n + 1) = m(n)
      BY <3>1
    <3>3. g[n + 1] = <<>>
      BY <1>3, <1>6, <2>4
    <3> HIDE DEF g, G, H, m
    <3>4. G(n) \o <<>> = G(n)
      BY <2>1, ConcatEmptySeq
    <3> QED BY <2>1, <2>2, <2>3, <3>2, <3>3, <3>4
  <2>5. CASE n + 1 \in P
    <3>1. {j \in P : j <= n + 1} = {j \in P : j <= n} \cup {n + 1}
      <4>1. {n + 1} \cap P = {n + 1}
        BY <2>5
      <4> QED BY <2>0, <4>1
    <3>2. {j \in P : j <= n} \subseteq P /\ n + 1 \notin {j \in P : j <= n}
      OBVIOUS
    <3>3. IsFiniteSet({j \in P : j <= n})
      BY <1>1, <3>2, FS_Subset
    <3>4. m(n + 1) = m(n) + 1
      BY <3>1, <3>2, <3>3, FS_AddElement
    <3>5. m(n + 1) = Rank(P, n + 1)
      BY DEF Rank
    <3>6. m(n) \in Nat /\ m(n) + 1 \in 1..M /\ h[m(n) + 1] = g[n + 1]
      <4>1. Rank(P, n + 1) \in 1..M /\ h[Rank(P, n + 1)] = g[n + 1]
        BY <1>3, <2>5
      <4>2. m(n) \in 0..M
        BY <1>4
      <4> HIDE DEF m, M, g, h
      <4> QED BY <4>1, <4>2, <3>4, <3>5
    <3>7. H(m(n) + 1) = H(m(n)) \o h[m(n) + 1]
      <4> DEFINE l == m(n)
      <4>1. \A k \in 1..l + 1 : h[k] \in Seq(X)
        <5> HIDE DEF m, M, g, h
        <5> QED BY <1>1, <1>3, <3>6
      <4>2. l \in Nat
        BY <3>6
      <4> HIDE DEF l, h
      <4>3. FlattenSeq([k \in 1..l + 1 |-> h[k]]) = FlattenSeq([k \in 1..l |-> h[k]]) \o h[l + 1]
        BY <4>1, <4>2, FlattenUpTo
      <4> QED BY <4>3 DEF l
    <3> HIDE DEF g, h, G, H, m
    <3> QED BY <2>1, <2>2, <2>3, <3>4, <3>6, <3>7
  <2> QED BY <2>3, <2>4, <2>5
<1>7. \A n \in Nat : n \in S => n + 1 \in S
  <2> HIDE DEF G, H, m
  <2> QED BY <1>6
<1>8. G(N) = H(m(N))
  <2> HIDE DEF G, H, m
  <2>1. Nat \subseteq S
    <3> HIDE DEF S
    <3> QED BY <1>5, <1>7, Induction
  <2> QED BY <2>1
<1>9. m(N) = M
  <2>1. {j \in P : j <= N} = P
    BY <1>0, Below
  <2> QED BY <2>1
<1>10. [i \in 1..N |-> g[i]] = g /\ [k \in 1..M |-> h[k]] = h
  OBVIOUS
<1> HIDE DEF g, h, m, M
<1> QED BY <1>8, <1>9, <1>10 DEF g, h, M

\* Beginnings of beginnings, of concatenations and of what a function makes of each.
LEMMA PrefixTransitive ==
    ASSUME NEW X, NEW s \in Seq(X), NEW t \in Seq(X), NEW u \in Seq(X),
           IsPrefix(s, t), IsPrefix(t, u)
    PROVE  IsPrefix(s, u)
<1>1. /\ Len(s) \in Nat /\ Len(t) \in Nat /\ Len(u) \in Nat
      /\ Len(s) <= Len(t) /\ \A i \in 1..Len(s) : s[i] = t[i]
      /\ Len(t) <= Len(u) /\ \A i \in 1..Len(t) : t[i] = u[i]
  BY LenProperties, PrefixAt
<1>2. Len(s) <= Len(u) /\ \A i \in 1..Len(s) : s[i] = u[i]
  <2>1. \A i \in 1..Len(s) : i \in 1..Len(t)
    BY <1>1
  <2> QED BY <1>1, <2>1
<1> QED BY <1>2, PrefixAt

LEMMA PrefixConcat ==
    ASSUME NEW X, NEW s \in Seq(X), NEW t \in Seq(X)
    PROVE  IsPrefix(s, Cat(s, t))
<1>1. /\ Len(s) \in Nat /\ Len(t) \in Nat /\ Cat(s, t) \in Seq(X)
      /\ Len(Cat(s, t)) = Len(s) + Len(t)
      /\ \A i \in 1..Len(s) + Len(t) : Cat(s, t)[i] = IF i <= Len(s) THEN s[i] ELSE t[i - Len(s)]
  BY LenProperties, ConcatProperties DEF Cat
<1>2. Len(s) <= Len(Cat(s, t)) /\ \A i \in 1..Len(s) : s[i] = Cat(s, t)[i]
  <2>1. \A i \in 1..Len(s) : i \in 1..Len(s) + Len(t) /\ i <= Len(s)
    BY <1>1
  <2> QED BY <1>1, <2>1
<1> QED BY <1>1, <1>2, PrefixAt

LEMMA PrefixMapped ==
    ASSUME NEW X, NEW m, NEW s \in Seq(X), NEW t \in Seq(X), IsPrefix(s, t)
    PROVE  IsPrefix(Mapped(m, s), Mapped(m, t))
<1> DEFINE Y == {m[x] : x \in X}
<1>1. /\ Mapped(m, s) \in Seq(Y) /\ Mapped(m, t) \in Seq(Y)
      /\ Len(Mapped(m, s)) = Len(s) /\ Len(Mapped(m, t)) = Len(t)
  BY MappedType, MappedLen
<1>2. /\ \A i \in 1..Len(s) : Mapped(m, s)[i] = m[s[i]]
      /\ \A i \in 1..Len(t) : Mapped(m, t)[i] = m[t[i]]
  BY MappedAt
<1>3. Len(s) \in Nat /\ Len(t) \in Nat /\ Len(s) <= Len(t) /\ \A i \in 1..Len(s) : s[i] = t[i]
  BY LenProperties, PrefixAt
<1>4. \A i \in 1..Len(s) : Mapped(m, s)[i] = Mapped(m, t)[i]
  <2>1. \A i \in 1..Len(s) : i \in 1..Len(t)
    BY <1>3
  <2> QED BY <1>2, <1>3, <2>1
<1> HIDE DEF Y
<1> QED BY <1>1, <1>3, <1>4, PrefixAt

\* The first items make the beginning of what all of them make.
LEMMA FlattenPrefix ==
    ASSUME NEW X, NEW n \in Nat, NEW h \in 0..n, NEW f, \A k \in 1..n : f[k] \in Seq(X),
           NEW first, first = [k \in 1..h |-> f[k]], NEW all, all = [k \in 1..n |-> f[k]]
    PROVE  IsPrefix(FlattenSeq(first), FlattenSeq(all))
<1> DEFINE rest == [k \in 1..n - h |-> f[h + k]]
           Y == Seq(X)
<1>1. h \in Nat /\ n - h \in Nat /\ h + (n - h) = n
  OBVIOUS
<1>2. first \in Seq(Y) /\ rest \in Seq(Y) /\ all \in Seq(Y)
  <2>1. \A k \in 1..h : f[k] \in Y
    OBVIOUS
  <2>2. \A k \in 1..n - h : f[h + k] \in Y
    <3>1. \A k \in 1..n - h : h + k \in 1..n
      BY <1>1
    <3> QED BY <3>1
  <2>3. \A k \in 1..n : f[k] \in Y
    OBVIOUS
  <2> HIDE DEF Y
  <2>4. first \in Seq(Y)
    BY <1>1, <2>1
  <2>5. rest \in Seq(Y)
    BY <1>1, <2>2
  <2>6. all \in Seq(Y)
    BY <2>3
  <2> QED BY <2>4, <2>5, <2>6
<1>3. Len(first) = h /\ Len(rest) = n - h /\ Len(all) = n
  BY <1>1
<1>4. all = first \o rest
  <2>1. /\ first \o rest \in Seq(Y) /\ Len(first \o rest) = h + (n - h)
        /\ \A i \in 1..h + (n - h) : (first \o rest)[i] =
              IF i <= h THEN first[i] ELSE rest[i - h]
    <3> HIDE DEF Y, rest
    <3> QED BY <1>2, <1>3, ConcatProperties
  <2>2. ASSUME NEW i \in 1..n
        PROVE  (IF i <= h THEN first[i] ELSE rest[i - h]) = f[i]
    <3>1. CASE i <= h
      <4>1. i \in 1..h
        BY <1>1, <3>1
      <4> QED BY <3>1, <4>1
    <3>2. CASE ~(i <= h)
      <4>1. i - h \in 1..n - h /\ h + (i - h) = i
        BY <1>1, <3>2
      <4> QED BY <3>2, <4>1
    <3> QED BY <3>1, <3>2
  <2>3. \A i \in 1..Len(all) : all[i] = (first \o rest)[i]
    <3> HIDE DEF rest
    <3> QED BY <1>1, <1>3, <2>1, <2>2
  <2> HIDE DEF Y, rest
  <2> QED BY <1>1, <1>2, <1>3, <2>1, <2>3, SeqEqual
<1>5. FlattenSeq(all) = Cat(FlattenSeq(first), FlattenSeq(rest))
  <2> HIDE DEF rest
  <2> QED BY <1>2, <1>4, FlattenConcat
<1>6. FlattenSeq(first) \in Seq(X) /\ FlattenSeq(rest) \in Seq(X)
  <2> HIDE DEF rest
  <2> QED BY <1>2, FlattenType
<1> HIDE DEF rest
<1> QED BY <1>5, <1>6, PrefixConcat

\* What a copy into a dataset has written in the end.
LEMMA FlowEnds ==
    ASSUME Inv, FlowInv, NEW c \in Copies, step[c] = "ok", ~ToTree(c), FromTree(c) => Untouched(c),
           NEW rows, rows = FlattenSeq([k \in 1..Len(source[c]) |-> Item(c, k)])
    PROVE  /\ rows \in Seq(Row) /\ fragment[c] \in Seq(Row)
           /\ IsPrefix(fragment[c], rows)
           /\ producer[c] # "failed" => fragment[c] = rows
           /\ c \notin Unreadable => producer[c] # "failed"
           /\ FromTree(c) => \E seen \in Seen(c) : source[c] = Listed(From[c], seen)
<1> DEFINE n == Len(source[c])
           h == HandedOver(c)
           handed == FlattenSeq([k \in 1..h |-> Item(c, k)])
<1>1. Flows(c)
  BY DEF FlowInv, Flowing
<1>2. /\ channel[c] = <<>> /\ outbox[c] = <<>> /\ producer[c] \in {"finished", "failed"}
      /\ producer[c] = "failed" => c \in Unreadable
      /\ producer[c] = "finished" =>
            builder[c] = <<>> /\ stream[c] = <<>> /\ opened[c] = None /\ cursor[c] = n
  BY <1>1 DEF Flows, EndsEmpty, Exhausted
<1>3. /\ fragment[c] \in Seq(Row) /\ builder[c] \in Seq(Row) /\ stream[c] \in Seq(Row \cup {Err})
      /\ n \in Nat /\ h \in 0..n /\ handed \in Seq(Row)
  BY <1>1, FlowType, HandedOverType
<1>4. \A k \in 1..n : Item(c, k) \in Seq(Row)
  BY ItemType
<1>5. rows \in Seq(Row)
  <2> DEFINE items == [k \in 1..n |-> Item(c, k)]
  <2>1. items \in Seq(Seq(Row))
    BY <1>3, <1>4
  <2> HIDE DEF items
  <2>2. FlattenSeq(items) \in Seq(Row)
    BY <2>1, FlattenType
  <2> QED BY <2>2 DEF items
<1>6. Follows(c, fragment[c] \o (builder[c] \o stream[c]), handed)
  <2> DEFINE F == fragment[c]
             B == builder[c]
             S == stream[c]
  <2>1. Sent(c) \o stream[c] = (F \o B) \o S
    <3>1. FlattenSeq(<<>>) = <<>>
      BY FlattenSmall, EmptySeq
    <3>2. (F \o <<>>) \o <<>> = F
      BY <1>3, ConcatEmptySeq
    <3> QED BY <1>2, <3>1, <3>2 DEF Sent
  <2>2. (F \o B) \o S = F \o (B \o S)
    <3>1. F \in Seq(Row \cup {Err}) /\ B \in Seq(Row \cup {Err}) /\ S \in Seq(Row \cup {Err})
      BY <1>3, SeqMonotonic
    <3> HIDE DEF F, B, S
    <3> QED BY <3>1, ConcatAssociative
  <2> HIDE DEF F, B, S, handed
  <2>3. Follows(c, Sent(c) \o stream[c], handed)
    BY <1>1 DEF Flows, InOrder, handed
  <2> QED BY <2>1, <2>2, <2>3 DEF F, B, S
<1>7. IsPrefix(handed, rows)
  <2> DEFINE f == [k \in 1..n |-> Item(c, k)]
             first == [k \in 1..h |-> Item(c, k)]
             all == [k \in 1..n |-> Item(c, k)]
             X == Row
  <2>1. first = [k \in 1..h |-> f[k]] /\ all = [k \in 1..n |-> f[k]]
    BY <1>3
  <2>2. /\ \A k \in 1..n : f[k] \in Seq(X)
        /\ n \in Nat /\ h \in 0..n
    BY <1>3, <1>4
  <2> HIDE DEF f, first, all, n, h, X
  <2>3. IsPrefix(FlattenSeq(first), FlattenSeq(all))
    BY <2>1, <2>2, FlattenPrefix, ZenonT(60)
  <2> QED BY <2>3 DEF first, all, n, h
<1>8. IsPrefix(fragment[c], rows)
  <2> DEFINE t == builder[c] \o stream[c]
  <2>1. t \in Seq(Row \cup {Err})
    BY <1>3, SeqMonotonic, ConcatProperties
  <2> HIDE DEF t, handed
  <2>2. IsPrefix(fragment[c], handed)
    BY <1>3, <1>6, <2>1, FollowsPrefix DEF t
  <2> QED BY <1>3, <1>5, <1>7, <2>2, PrefixTransitive
<1>9. producer[c] # "failed" => fragment[c] = rows
  <2> SUFFICES ASSUME producer[c] # "failed"
               PROVE  fragment[c] = rows
    OBVIOUS
  <2>1. h = n
    BY <1>2 DEF HandedOver
  <2>2. fragment[c] \o (builder[c] \o stream[c]) = fragment[c]
    <3>1. <<>> \o <<>> = <<>>
      OBVIOUS
    <3> QED BY <1>2, <1>3, <3>1, ConcatEmptySeq
  <2>3. fragment[c] = handed
    <3> HIDE DEF handed
    <3> QED BY <1>3, <1>6, <2>2, RowsFollow
  <2> QED BY <2>1, <2>3
<1>10. FromTree(c) => \E seen \in Seen(c) : source[c] = Listed(From[c], seen)
  BY <1>1 DEF Flows, ReadsListed
<1> QED BY <1>2, <1>3, <1>5, <1>8, <1>9, <1>10

\* A copy of a tree that nobody touches into a dataset writes the rows of the files that
\* it found, each once and in order, for every number and size of files, of chunks, batches
\* and the channel: all of them, unless the background task died of an error, and then the
\* rows up to some point; and those of every file when everything can be read.
THEOREM UploadComplete == Spec => []UploadIsComplete
<1>1. ASSUME Inv, FlowInv, NEW c \in Copies, step[c] = "ok", ~ToTree(c), FromTree(c), Untouched(c),
             c \notin Unreadable
      PROVE  fragment[c] = RowsOf(From[c])
  <2> DEFINE t == From[c]
             N == Len(Files)
             P == {i \in 1..N : tree[t][Files[i]] # None}
             M == Cardinality(P)
             f == [i \in 1..N |-> FileRows(Files[i], tree[t][Files[i]])]
  <2>1. N \in Nat /\ \A i \in 1..N : Files[i] \in FileNames
    BY ContentAssumption, LenProperties, ElementOfSeq
  <2>2. P \in SUBSET (1..N) /\ M \in Nat
    <3>1. P \in SUBSET (1..N)
      OBVIOUS
    <3> HIDE DEF P
    <3> QED BY <2>1, <3>1, RankOnto
  <2>3. \A i \in P : f[i] \in Seq(Row)
    <3>1. ASSUME NEW i \in P
          PROVE  f[i] \in Seq(Row)
      <4>1. Files[i] \in FileNames /\ tree[t][Files[i]] \in Seq(Cell)
        BY <1>1, <2>1 DEF Inv, TypeOK, FromTree
      <4>2. FileRows(Files[i], tree[t][Files[i]]) \in Seq(Row)
        BY <4>1, FileRowsType
      <4> QED BY <4>2
    <3> QED BY <3>1
  <2>4. RowsOf(t) = FlattenSeq([i \in 1..N |-> IF i \in P THEN f[i] ELSE <<>>])
    <3>1. \A i \in 1..N : (IF tree[t][Files[i]] = None THEN <<>>
                           ELSE FileRows(Files[i], tree[t][Files[i]]))
                        = (IF i \in P THEN f[i] ELSE <<>>)
      OBVIOUS
    <3>2. RowsOf(t) = FlattenSeq([i \in 1..N |-> IF tree[t][Files[i]] = None THEN <<>>
                                    ELSE FileRows(Files[i], tree[t][Files[i]])])
      BY DEF RowsOf
    <3> HIDE DEF P, f, N, t
    <3> QED BY <3>1, <3>2
  <2>5. /\ source[c] = Listed(t, FileNames)
        /\ fragment[c] = FlattenSeq([k \in 1..Len(source[c]) |-> Item(c, k)])
    BY <1>1, FlowEnds DEF Seen
  <2>6. /\ Listed(t, FileNames) = [k \in 1..M |-> Files[At(P, k)]]
        /\ Len(Listed(t, FileNames)) = M
    <3>1. Listed(t, FileNames) = [k \in 1..M |-> Files[At(P, k)]]
      <4> DEFINE present == {i \in 1..Len(Files) : tree[t][Files[i]] # None /\ Files[i] \in FileNames}
      <4>1. present = P
        BY <2>1
      <4>2. Listed(t, FileNames) = [k \in 1..Cardinality(present) |->
                                      Files[CHOOSE i \in present : Rank(present, i) = k]]
        BY DEF Listed
      <4> HIDE DEF P, present
      <4> QED BY <4>1, <4>2 DEF At
    <3> HIDE DEF M, P
    <3>2. Listed(t, FileNames) \in Seq(FileNames)
      BY ListedType
    <3> QED BY <2>2, <3>1, <3>2
  <2>7. \A k \in 1..M : Item(c, k) = f[At(P, k)]
    <3>1. \A k \in 1..M : At(P, k) \in P
      <4> HIDE DEF P
      <4> QED BY <2>1, <2>2, RankOnto DEF At, M
    <3>2. \A k \in 1..M : source[c][k] = Files[At(P, k)]
      BY <2>5, <2>6
    <3>3. \A k \in 1..M : Item(c, k) = FileRows(Files[At(P, k)], tree[t][Files[At(P, k)]])
      BY <1>1, <3>2 DEF Item
    <3> QED BY <3>1, <3>3
  <2>8. [k \in 1..Len(source[c]) |-> Item(c, k)] = [k \in 1..M |-> f[At(P, k)]]
    <3> HIDE DEF P, M, f
    <3> QED BY <2>5, <2>6, <2>7
  <2>9. FlattenSeq([i \in 1..N |-> IF i \in P THEN f[i] ELSE <<>>])
          = FlattenSeq([k \in 1..M |-> f[At(P, k)]])
    <3> DEFINE X == Row
               all == [i \in 1..N |-> IF i \in P THEN f[i] ELSE <<>>]
               chosen == [k \in 1..M |-> f[At(P, k)]]
    <3>1. N \in Nat /\ P \in SUBSET (1..N)
      BY <2>1, <2>2
    <3>2. \A i \in P : f[i] \in Seq(X)
      BY <2>3
    <3>3. all = [i \in 1..N |-> IF i \in P THEN f[i] ELSE <<>>]
      OBVIOUS
    <3>4. chosen = [k \in 1..Cardinality(P) |-> f[At(P, k)]]
      OBVIOUS
    <3> HIDE DEF P, f, N, X, M, all, chosen
    <3>5. FlattenSeq(all) = FlattenSeq(chosen)
      BY <3>1, <3>2, <3>3, <3>4, FlattenChosen, SMTT(60)
    <3> QED BY <3>5 DEF all, chosen
  <2> HIDE DEF P, M, f, N
  <2> QED BY <2>4, <2>5, <2>8, <2>9
<1>2. Inv /\ FlowInv => UploadIsComplete
  <2> SUFFICES ASSUME Inv, FlowInv, NEW c \in Copies, step[c] = "ok", ~ToTree(c), FromTree(c),
                      Untouched(c), NEW rows,
                      rows = FlattenSeq([k \in 1..Len(source[c]) |-> Item(c, k)])
               PROVE  /\ IsPrefix(fragment[c], rows)
                      /\ producer[c] # "failed" => fragment[c] = rows
                      /\ c \notin Unreadable => fragment[c] = RowsOf(From[c])
    BY DEF UploadIsComplete
  <2> QED BY <1>1, FlowEnds
<1> QED BY <1>2, FlowInvariance, PTL
\* Reading a batch back changes nothing but the metadata of its rows.
LEMMA IntoVecBare ==
    ASSUME NEW batch \in Batch
    PROVE  /\ Len(IntoVec(batch)) = Len(batch)
           /\ \A i \in 1..Len(batch) :
                 [IntoVec(batch)[i] EXCEPT !.meta = None] = [batch[i] EXCEPT !.meta = None]
<1> DEFINE rows  == 1..Len(batch)
           atime == {i \in rows : batch[i].meta # None}
           ctime == NextGiven(batch, atime)
           mtime == NextGiven(batch, ctime)
           mode  == NextGiven(batch, mtime)
           size  == NextGiven(batch, mode)
           Of(asked, column, i) == batch[Rank(asked, i)].meta[column]
           meta(i) == IF i \notin size THEN None
                      ELSE [atime |-> Of(rows, "atime", i), ctime |-> Of(atime, "ctime", i),
                            mtime |-> Of(ctime, "mtime", i), mode |-> Of(mtime, "mode", i),
                            size |-> Of(mode, "size", i)]
<1>0. Len(batch) \in Nat /\ \A i \in rows : batch[i] \in Row
  BY LenProperties, ElementOfSeq DEF Batch
<1>1. IntoVec(batch) = [i \in rows |-> [batch[i] EXCEPT !.meta = meta(i)]]
  BY DEF IntoVec
<1> HIDE DEF meta
<1>2. ASSUME NEW i \in rows
      PROVE  [IntoVec(batch)[i] EXCEPT !.meta = None] = [batch[i] EXCEPT !.meta = None]
  <2>1. IntoVec(batch)[i] = [batch[i] EXCEPT !.meta = meta(i)]
    BY <1>1
  <2>2. ASSUME NEW r \in Row, NEW v
        PROVE  [[r EXCEPT !.meta = v] EXCEPT !.meta = None] = [r EXCEPT !.meta = None]
    BY DEF Row
  <2> HIDE DEF rows
  <2> QED BY <1>0, <2>1, <2>2
<1>3. IntoVec(batch) \in Seq(Row) /\ DOMAIN IntoVec(batch) = rows
  BY <1>1, IntoVecType DEF Batch
<1>4. Len(IntoVec(batch)) = Len(batch)
  BY <1>0, <1>3
<1> QED BY <1>2, <1>4

\* A copy of a dataset into a dataset has written the rows of the version that it found,
\* each once and in order, for every sequence of batches, all of them or, when a batch could
\* not be read, those up to some point; only the metadata may differ.
THEOREM TransferComplete == Spec => []TransferIsComplete
<1> DEFINE m == [r \in Row |-> [r EXCEPT !.meta = None]]
           Bare(rows) == [i \in 1..Len(rows) |-> [rows[i] EXCEPT !.meta = None]]
<1>2. ASSUME NEW rows \in Seq(Row)
      PROVE  Bare(rows) = Mapped(m, rows)
  <2>1. \A i \in 1..Len(rows) : rows[i] \in Row
    BY ElementOfSeq
  <2> QED BY <2>1 DEF Mapped
<1> HIDE DEF m, Bare
<1>3. ASSUME Inv, FlowInv, NEW c \in Copies, step[c] = "ok", ~ToTree(c), ~FromTree(c)
      PROVE  /\ IsPrefix(Bare(fragment[c]), Bare(FlattenSeq(source[c])))
             /\ producer[c] # "failed" \/ c \notin Unreadable
                   => Bare(fragment[c]) = Bare(FlattenSeq(source[c]))
  <2> DEFINE s == source[c]
             n == Len(s)
             t == [k \in 1..n |-> IntoVec(s[k])]
  <2>1. s \in Seq(Batch) /\ n \in Nat
    BY <1>3, LenProperties DEF Inv, TypeOK
  <2>2. \A k \in 1..n : s[k] \in Seq(Row)
    BY <2>1, ElementOfSeq DEF Batch
  <2>3. \A k \in 1..n : IntoVec(s[k]) \in Seq(Row)
    BY <2>2, IntoVecType DEF Batch
  <2>4. t \in Seq(Seq(Row)) /\ Len(t) = n
    BY <2>1, <2>3
  <2>5. s \in Seq(Seq(Row))
    BY <2>1 DEF Batch
  <2>6. /\ fragment[c] \in Seq(Row) /\ IsPrefix(fragment[c], FlattenSeq(t))
        /\ producer[c] # "failed" \/ c \notin Unreadable => fragment[c] = FlattenSeq(t)
    <3>1. PICK rows : rows = FlattenSeq([k \in 1..n |-> Item(c, k)])
      OBVIOUS
    <3>2. /\ fragment[c] \in Seq(Row) /\ IsPrefix(fragment[c], rows)
          /\ producer[c] # "failed" => fragment[c] = rows
          /\ c \notin Unreadable => producer[c] # "failed"
      BY <1>3, <3>1, FlowEnds
    <3>3. [k \in 1..n |-> Item(c, k)] = t
      BY <1>3 DEF Item
    <3> HIDE DEF t
    <3> QED BY <3>1, <3>2, <3>3
  <2>7. \A k \in 1..n : t[k] = IntoVec(s[k])
    OBVIOUS
  <2> HIDE DEF s, n, t
  <2>8. ASSUME NEW k \in 1..n
        PROVE  Mapped(m, s[k]) = Mapped(m, t[k])
    <3>1. s[k] \in Batch /\ s[k] \in Seq(Row) /\ t[k] \in Seq(Row) /\ t[k] = IntoVec(s[k])
      BY <2>2, <2>3, <2>7 DEF Batch
    <3>2. Bare(s[k]) = Bare(t[k])
      BY <3>1, IntoVecBare DEF Bare
    <3> QED BY <1>2, <3>1, <3>2
  <2>9. Mapped(m, FlattenSeq(s)) = Mapped(m, FlattenSeq(t))
    <3>1. Len(s) = Len(t) /\ \A k \in 1..Len(s) : Mapped(m, s[k]) = Mapped(m, t[k])
      BY <2>4, <2>8 DEF n
    <3> DEFINE X == Row
    <3>2. s \in Seq(Seq(X)) /\ t \in Seq(Seq(X))
      BY <2>4, <2>5
    <3> HIDE DEF X
    <3> QED BY <3>1, <3>2, FlattenAlike
  <2>10. FlattenSeq(s) \in Seq(Row) /\ FlattenSeq(t) \in Seq(Row)
    BY <2>4, <2>5, FlattenType
  <2>11. IsPrefix(Mapped(m, fragment[c]), Mapped(m, FlattenSeq(t)))
    BY <2>6, <2>10, PrefixMapped
  <2> QED BY <1>2, <2>6, <2>9, <2>10, <2>11 DEF s
<1>4. Inv /\ FlowInv => TransferIsComplete
  BY <1>3 DEF TransferIsComplete, Bare
<1> QED BY <1>4, FlowInvariance, PTL

----------------------------------------------------------------------------
(* What flows from a dataset into a tree. *)

\* All positions up to one of them.
LEMMA AllUpTo ==
    ASSUME NEW P, \A k \in P : k \in Nat /\ 0 < k, NEW i \in Nat, 1..i \subseteq P
    PROVE  {k \in P : k <= i} = 1..i
OBVIOUS

\* A row before which no row of its batch lacks metadata is read back as it was.
LEMMA IntoVecKeeps ==
    ASSUME NEW batch \in Batch, NEW j \in 1..Len(batch),
           \A k \in 1..j : batch[k].meta # None
    PROVE  IntoVec(batch)[j] = batch[j]
<1> DEFINE rows  == 1..Len(batch)
           atime == {i \in rows : batch[i].meta # None}
           ctime == NextGiven(batch, atime)
           mtime == NextGiven(batch, ctime)
           mode  == NextGiven(batch, mtime)
           size  == NextGiven(batch, mode)
           Of(asked, column, i) == batch[Rank(asked, i)].meta[column]
           meta(i) == IF i \notin size THEN None
                      ELSE [atime |-> Of(rows, "atime", i), ctime |-> Of(atime, "ctime", i),
                            mtime |-> Of(ctime, "mtime", i), mode |-> Of(mtime, "mode", i),
                            size |-> Of(mode, "size", i)]
<1>0. /\ Len(batch) \in Nat /\ \A i \in rows : batch[i] \in Row
      /\ j \in Nat /\ 1 <= j /\ 1..j \subseteq rows
  BY LenProperties, ElementOfSeq DEF Batch
<1>1. ASSUME NEW given, \A i \in given : i \in Nat /\ 0 < i, 1..j \subseteq given
      PROVE  \A i \in 1..j : Rank(given, i) = i
  <2>1. SUFFICES ASSUME NEW i \in 1..j
                 PROVE  Rank(given, i) = i
    OBVIOUS
  <2>2. i \in Nat /\ 1..i \subseteq given
    BY <1>0, <1>1
  <2>3. {k \in given : k <= i} = 1..i
    BY <1>1, <2>2, AllUpTo
  <2>4. Cardinality(1..i) = i
    BY <2>2, UpTo
  <2> QED BY <2>3, <2>4 DEF Rank
<1>2. ASSUME NEW given, \A i \in given : i \in Nat /\ 0 < i, 1..j \subseteq given
      PROVE  /\ \A i \in NextGiven(batch, given) : i \in Nat /\ 0 < i
             /\ 1..j \subseteq NextGiven(batch, given)
  <2>1. \A i \in 1..j : i \in given /\ batch[Rank(given, i)].meta # None
    BY <1>1, <1>2
  <2> QED BY <1>2, <2>1 DEF NextGiven
<1>3. \A i \in rows : i \in Nat /\ 0 < i
  BY <1>0
<1>4. (\A i \in atime : i \in Nat /\ 0 < i) /\ 1..j \subseteq atime
  BY <1>0, <1>3
<1> HIDE DEF rows, atime
<1>5. (\A i \in ctime : i \in Nat /\ 0 < i) /\ 1..j \subseteq ctime
  BY <1>2, <1>4
<1> HIDE DEF ctime
<1>6. (\A i \in mtime : i \in Nat /\ 0 < i) /\ 1..j \subseteq mtime
  BY <1>2, <1>5
<1> HIDE DEF mtime
<1>7. (\A i \in mode : i \in Nat /\ 0 < i) /\ 1..j \subseteq mode
  BY <1>2, <1>6
<1> HIDE DEF mode
<1>8. (\A i \in size : i \in Nat /\ 0 < i) /\ 1..j \subseteq size
  BY <1>2, <1>7
<1> HIDE DEF size
<1>9. /\ Rank(rows, j) = j /\ Rank(atime, j) = j /\ Rank(ctime, j) = j
      /\ Rank(mtime, j) = j /\ Rank(mode, j) = j
  <2>1. j \in 1..j
    BY <1>0
  <2> QED BY <1>0, <1>1, <1>3, <1>4, <1>5, <1>6, <1>7, <2>1
<1>10. batch[j] \in Row /\ batch[j].meta \in MetadataRow
  <2>1. j \in 1..j /\ j \in rows
    BY <1>0
  <2>2. batch[j] \in Row /\ batch[j].meta # None
    BY <1>0, <2>1
  <2> QED BY <2>2 DEF Row
<1>11. meta(j) = batch[j].meta
  <2>1. j \in size
    BY <1>0, <1>8
  <2>2. ASSUME NEW m \in MetadataRow
        PROVE  [atime |-> m["atime"], ctime |-> m["ctime"], mtime |-> m["mtime"],
                mode |-> m["mode"], size |-> m["size"]] = m
    BY DEF MetadataRow, Columns
  <2>3. meta(j) = [atime |-> batch[j].meta["atime"], ctime |-> batch[j].meta["ctime"],
                   mtime |-> batch[j].meta["mtime"], mode |-> batch[j].meta["mode"],
                   size |-> batch[j].meta["size"]]
    BY <1>9, <2>1
  <2> QED BY <1>10, <2>2, <2>3
<1>12. IntoVec(batch) = [i \in rows |-> [batch[i] EXCEPT !.meta = meta(i)]]
  BY DEF IntoVec, rows, atime, ctime, mtime, mode, size
<1> HIDE DEF meta
<1>13. IntoVec(batch)[j] = [batch[j] EXCEPT !.meta = batch[j].meta]
  BY <1>0, <1>11, <1>12
<1>14. ASSUME NEW r \in Row
       PROVE  [r EXCEPT !.meta = r.meta] = r
  BY DEF Row
<1> QED BY <1>10, <1>13, <1>14

\* The rows that are read back are of the same files and hold the same data.
LEMMA IntoVecFiles ==
    ASSUME NEW batch \in Batch
    PROVE  /\ IntoVec(batch) \in Seq(Row) /\ Len(IntoVec(batch)) = Len(batch)
           /\ \A j \in 1..Len(batch) :
                 IntoVec(batch)[j] \in Row /\ IntoVec(batch)[j].file = batch[j].file
<1>1. IntoVec(batch) \in Seq(Row) /\ Len(IntoVec(batch)) = Len(batch)
  BY IntoVecType, IntoVecBare DEF Batch
<1>2. ASSUME NEW j \in 1..Len(batch)
      PROVE  IntoVec(batch)[j] \in Row /\ IntoVec(batch)[j].file = batch[j].file
  <2>1. IntoVec(batch)[j] \in Row /\ batch[j] \in Row
    BY <1>1, ElementOfSeq DEF Batch
  <2>2. [IntoVec(batch)[j] EXCEPT !.meta = None] = [batch[j] EXCEPT !.meta = None]
    BY IntoVecBare
  <2>3. \A r \in Row : [r EXCEPT !.meta = None].file = r.file
    BY DEF Row
  <2> QED BY <2>1, <2>2, <2>3
<1> QED BY <1>1, <1>2

\* A file that is given its own size is left alone.
LEMMA ResizeWhole ==
    ASSUME NEW data \in Seq(Cell)
    PROVE  Resize(data, Len(data)) = data
<1>2. data \in [1..Len(data) -> Cell]
  BY LenProperties
<1>3. Len(data) \in Nat
  BY LenProperties
<1>4. [i \in 1..Len(data) |-> IF i <= Len(data) THEN data[i] ELSE Hole] = [i \in 1..Len(data) |-> data[i]]
  BY <1>3
<1> QED BY <1>2, <1>4 DEF Resize

\* What is left of a batch begins with the next row.
LEMMA RestShrinks ==
    ASSUME NEW X, NEW rows \in Seq(X), NEW n \in 1..Len(rows)
    PROVE  /\ Len(rows) - n + 1 \in 1..Len(rows)
           /\ Head(RestOf(rows, n)) = rows[Len(rows) - n + 1]
           /\ Tail(RestOf(rows, n)) = RestOf(rows, n - 1)
           /\ Len(RestOf(rows, n - 1)) = n - 1
<1>1. Len(rows) \in Nat
  BY LenProperties
<1> DEFINE p == Len(rows) - n + 1
<1>2. p \in 1..Len(rows) /\ Len(rows) \in p..Len(rows)
      /\ p + 1 = Len(rows) - (n - 1) + 1
  BY <1>1
<1>3. Head(SubSeq(rows, p, Len(rows))) = rows[p]
      /\ Tail(SubSeq(rows, p, Len(rows))) = SubSeq(rows, p + 1, Len(rows))
  <2> HIDE DEF p
  <2> QED BY <1>2, HeadTailOfSubSeq
<1>4. \A i \in p + 1..Len(rows) : rows[i] \in X
  BY <1>1, <1>2, ElementOfSeq
<1>5. Len(SubSeq(rows, p + 1, Len(rows))) = n - 1
  <2>1. Len(SubSeq(rows, p + 1, Len(rows)))
          = IF p + 1 <= Len(rows) THEN Len(rows) - (p + 1) + 1 ELSE 0
    <3>1. p + 1 \in Int /\ Len(rows) \in Int
      BY <1>1
    <3> HIDE DEF p
    <3> QED BY <1>4, <3>1, SubSeqProperties
  <2> QED BY <1>1, <2>1
<1> QED BY <1>2, <1>3, <1>5 DEF RestOf

\* What a copy holds and what its tree holds stay.
LEMMA ArriveKept ==
    ASSUME NEW c \in Copies, Arrives(c), source'[c] = source[c], cursor'[c] = cursor[c],
           stream'[c] = stream[c], step'[c] \in {step[c], "failed"},
           tree'[To[c]] = tree[To[c]],
           \A w \in landing' : w.copy = c => w \in landing
    PROVE  Arrives(c)'
<1>1. \A i, j : Simple(c, i, j)' <=> Simple(c, i, j)
  BY DEF Simple
<1>2. \A i, j : Dumped(c, i, j)' <=> Dumped(c, i, j)
  BY DEF Dumped
<1>3. RowsArrive(c)'
  BY <1>1, <1>2 DEF Arrives, RowsArrive
<1>4. LoadedRows(c)' = LoadedRows(c)
  BY DEF LoadedRows
<1> QED BY <1>3, <1>4 DEF Arrives
\* A copy from a dataset into a tree, and the batch that it loads next.
LEMMA DatasetBatch ==
    ASSUME Inv, NEW c \in Copies, ~FromTree(c)
    PROVE  /\ source[c] \in Seq(Batch) /\ Len(source[c]) \in Nat /\ cursor[c] \in Nat
           /\ cursor[c] <= Len(source[c])
           /\ \A i \in 1..Len(source[c]) :
                 source[c][i] \in Batch /\ Len(source[c][i]) \in Nat
<1>1. source[c] \in Seq(Batch) /\ cursor[c] \in Nat /\ cursor[c] <= Len(source[c])
  BY DEF Inv, TypeOK
<1>2. \A i \in 1..Len(source[c]) : source[c][i] \in Batch
  BY <1>1, ElementOfSeq
<1> QED BY <1>1, <1>2, LenProperties DEF Batch

\* Before a copy begins the tree is as it was, and none of its files is to be there.
LEMMA StartArrive ==
    ASSUME Inv, NEW c \in Copies, ToTree(c), ~FromTree(c), Arrives(c), Start(c)
    PROVE  Arrives(c)'
<1>1. step[c] = "idle" /\ cursor[c] = 0 /\ cursor' = cursor /\ stream' = stream
      /\ tree' = tree /\ landing' = landing
  BY DEF Start, Inv, IdleOK
<1>2. step'[c] = "copying"
  BY <1>1 DEF Start, Inv, TypeOK
<1>3. /\ tree[To[c]] = InitialTree[To[c]] /\ \A w \in landing : w.copy # c
      /\ Len(stream[c]) <= Len(<<>>) /\ stream[c] = RestOf(<<>>, Len(stream[c]))
  BY <1>1 DEF Arrives, LoadedRows
<1>4. \A i \in 1..Len(source'[c]) : \A j \in 1..Len(source'[c][i]) : ~Dumped(c, i, j)'
  BY <1>1 DEF Dumped
<1>5. RowsArrive(c)'
  BY <1>1, <1>3, <1>4 DEF RowsArrive, Simple
<1>6. LoadedRows(c)' = <<>>
  BY <1>1 DEF LoadedRows
<1> QED BY <1>1, <1>2, <1>3, <1>5, <1>6 DEF Arrives

\* When the next batch is loaded all rows of those before have been dumped.
LEMMA ReadBatchArrive ==
    ASSUME Inv, NEW c \in Copies, ToTree(c), ~FromTree(c), Arrives(c), ReadBatch(c)
    PROVE  Arrives(c)'
<1>1. /\ stream[c] = <<>> /\ step[c] = "copying" /\ cursor[c] < Len(source[c])
      /\ cursor'[c] = cursor[c] + 1
      /\ stream'[c] = IntoVec(source[c][cursor[c] + 1])
      /\ UNCHANGED <<tree, step, source, landing>>
  BY DEF ReadBatch, Pulls, Inv, TypeOK
<1> DEFINE batch == source[c][cursor[c] + 1]
           rows == IntoVec(batch)
<1>2. /\ Len(source[c]) \in Nat /\ cursor[c] \in Nat
      /\ \A i \in 1..Len(source[c]) : source[c][i] \in Batch /\ Len(source[c][i]) \in Nat
  BY DatasetBatch
<1>3. batch \in Batch /\ Len(batch) \in Nat
  BY <1>1, <1>2
<1>4. rows \in Seq(Row) /\ Len(rows) = Len(batch)
  <2> HIDE DEF batch
  <2> QED BY <1>3, IntoVecFiles
<1>5. LoadedRows(c)' = rows /\ stream'[c] = rows /\ Len(stream[c]) = 0
  BY <1>1, <1>2 DEF LoadedRows
<1>6. RestOf(rows, Len(rows)) = rows
  <2>1. Len(rows) - Len(rows) + 1 = 1
    BY <1>3, <1>4
  <2>2. SubSeq(rows, 1, Len(rows)) = rows
    <3> HIDE DEF rows
    <3> QED BY <1>4
  <2> QED BY <2>1, <2>2 DEF RestOf
<1>7. ASSUME NEW i \in 1..Len(source[c]), NEW j \in 1..Len(source[c][i])
      PROVE  Dumped(c, i, j)' <=> Dumped(c, i, j)
  <2>1. /\ j + Len(stream[c]) <= Len(source[c][i])
        /\ i = cursor[c] + 1 => ~(j + Len(rows) <= Len(source[c][i]))
    BY <1>2, <1>3, <1>4, <1>5
  <2> HIDE DEF rows
  <2>2. Dumped(c, i, j)' <=> i < cursor[c] + 1
    BY <1>1, <1>2, <1>5, <2>1 DEF Dumped
  <2>3. Dumped(c, i, j) <=> i <= cursor[c]
    BY <1>2, <2>1 DEF Dumped
  <2> QED BY <1>2, <2>2, <2>3
<1>8. \A i, j : Simple(c, i, j)' <=> Simple(c, i, j)
  BY <1>1 DEF Simple
<1>9. RowsArrive(c)'
  BY <1>1, <1>7, <1>8 DEF Arrives, RowsArrive
<1>10. Len(rows) \in Nat
  BY <1>3, <1>4
<1> HIDE DEF rows
<1> QED BY <1>1, <1>5, <1>6, <1>9, <1>10 DEF Arrives

\* A copy ends well when no row is left.
LEMMA DumpEndsArrive ==
    ASSUME Inv, NEW c \in Copies, Arrives(c), DumpEnds(c)
    PROVE  Arrives(c)'
<1>1. /\ stream[c] = <<>> /\ cursor[c] = Len(source[c]) /\ step'[c] = "ok"
      /\ UNCHANGED <<tree, source, cursor, stream, landing>>
  BY DEF DumpEnds, Exhausted, sourceVars, pipeVars, Inv, TypeOK
<1>2. /\ \A i, j : Simple(c, i, j)' <=> Simple(c, i, j)
      /\ \A i, j : Dumped(c, i, j)' <=> Dumped(c, i, j)
      /\ LoadedRows(c)' = LoadedRows(c)
  BY <1>1 DEF Simple, Dumped, LoadedRows
<1> QED BY <1>1, <1>2 DEF Arrives, RowsArrive

\* A write that was left behind is not one of a simple file.
LEMMA LandArrive ==
    ASSUME Inv, LandingOfRun, NEW c \in Copies, ToTree(c), ~FromTree(c), WritesAlone(c), Arrives(c),
           NEW w \in landing, Land(w) \/ LandFails(w)
    PROVE  Arrives(c)'
<1>1. /\ landing' = landing \ {w} /\ step' = step
      /\ \E data : tree' = [tree EXCEPT ![To[w.copy]][w.file] = @ \o data]
      /\ UNCHANGED <<source, cursor, stream>>
  BY DEF Land, LandFails, sourceVars, pipeVars
<1>2. w.copy \in Copies /\ To[c] \in Trees
  BY DEF Inv, TypeOK, ToTree
<1>3. CASE w.copy # c
  <2>1. To[w.copy] # To[c]
    BY <1>2, <1>3 DEF WritesAlone, LandingOfRun
  <2>2. tree'[To[c]] = tree[To[c]]
    BY <1>1, <1>2, <2>1 DEF Inv, TypeOK
  <2> QED BY <1>1, <2>2, ArriveKept
<1>4. CASE w.copy = c
  <2>1. step[c] # "idle"
    BY <1>4 DEF Arrives
  <2>2. \A f \in FileNames : f # w.file => tree'[To[c]][f] = tree[To[c]][f]
    BY <1>1, <1>2, <1>4 DEF Inv, TypeOK
  <2>3. /\ \A i, j : Simple(c, i, j)' <=> Simple(c, i, j)
        /\ \A i, j : Dumped(c, i, j)' <=> Dumped(c, i, j)
        /\ LoadedRows(c)' = LoadedRows(c)
    BY <1>1 DEF Simple, Dumped, LoadedRows
  <2>4. \A i \in 1..Len(source[c]) : \A j \in 1..Len(source[c][i]) :
           source[c][i][j].file \in FileNames
    <3>1. SUFFICES ASSUME NEW i \in 1..Len(source[c]), NEW j \in 1..Len(source[c][i])
                   PROVE  source[c][i][j].file \in FileNames
      OBVIOUS
    <3>2. source[c][i] \in Seq(Row)
      BY DatasetBatch DEF Batch
    <3>3. source[c][i][j] \in Row
      BY <3>2, ElementOfSeq
    <3> QED BY <3>3 DEF Row
  <2> QED BY <1>1, <1>4, <2>1, <2>2, <2>3, <2>4 DEF Arrives, RowsArrive
<1> QED BY <1>3, <1>4
\* A simple file is written when its row comes, and by no other row.
LEMMA DumpArrive ==
    ASSUME Inv, NEW c \in Copies, ToTree(c), ~FromTree(c), Arrives(c), Dump(c)
    PROVE  Arrives(c)'
<1> DEFINE r == Head(stream[c])
           old == Content(To[c], r.file)
           write == WriteOf(c, r)
           batch == source[c][cursor[c]]
           rows == IntoVec(batch)
           n == Len(stream[c])
           p == Len(batch) - n + 1
<1>1. /\ step[c] = "copying" /\ stream[c] # <<>>
      /\ IF r.meta # None
         THEN /\ \E data \in Written(c, r.data) :
                    tree' = [tree EXCEPT ![To[c]][r.file] = Resize(old \o data, r.meta["size"].n)]
              /\ landing' = landing
         ELSE /\ tree' = [tree EXCEPT ![To[c]][r.file] = old]
              /\ landing' = landing \cup {write}
      /\ stream'[c] = Tail(stream[c])
      /\ UNCHANGED <<step, source, cursor>>
  BY DEF Dump, sourceVars, Inv, TypeOK
<1>2. /\ Len(source[c]) \in Nat /\ cursor[c] \in Nat /\ cursor[c] <= Len(source[c])
      /\ \A i \in 1..Len(source[c]) : source[c][i] \in Batch /\ Len(source[c][i]) \in Nat
  BY DatasetBatch
<1>3. n \in Nat /\ n # 0
  <2>1. stream[c] \in Seq(Row \cup {Err})
    BY DEF Inv, TypeOK
  <2> QED BY <1>1, <2>1, EmptySeq, LenProperties
<1>4. cursor[c] # 0 /\ LoadedRows(c) = rows
  <2>1. Len(LoadedRows(c)) # 0
    BY <1>3 DEF Arrives
  <2> QED BY <2>1 DEF LoadedRows
<1>5. cursor[c] \in 1..Len(source[c]) /\ batch \in Batch /\ Len(batch) \in Nat
  BY <1>2, <1>4
<1>6. /\ rows \in Seq(Row) /\ Len(rows) = Len(batch)
      /\ \A j \in 1..Len(batch) : rows[j] \in Row /\ rows[j].file = batch[j].file
  <2> HIDE DEF batch
  <2> QED BY <1>5, IntoVecFiles
<1>7. n \in 1..Len(rows) /\ stream[c] = RestOf(rows, n)
  BY <1>3, <1>4, <1>5, <1>6 DEF Arrives
<1>8. /\ p \in 1..Len(batch) /\ r = rows[p]
      /\ stream'[c] = RestOf(rows, n - 1) /\ Len(stream'[c]) = n - 1
  <2>1. /\ Len(rows) - n + 1 \in 1..Len(rows)
        /\ Head(RestOf(rows, n)) = rows[Len(rows) - n + 1]
        /\ Tail(RestOf(rows, n)) = RestOf(rows, n - 1)
        /\ Len(RestOf(rows, n - 1)) = n - 1
    <3> HIDE DEF rows, n
    <3> QED BY <1>6, <1>7, RestShrinks
  <2> HIDE DEF rows, n, batch
  <2> QED BY <1>1, <1>6, <1>7, <2>1 DEF p, r
<1>9. r \in Row /\ r.file = batch[p].file /\ r.file \in FileNames /\ To[c] \in Trees
  BY <1>6, <1>8 DEF Row, ToTree
<1>10. /\ \A f \in FileNames : f # r.file => tree'[To[c]][f] = tree[To[c]][f]
       /\ \A w \in landing' : w \in landing \/ w.file = r.file
       /\ r.meta # None => landing' = landing
       /\ r.meta # None => \E data \in Written(c, r.data) :
             tree'[To[c]][r.file] = Resize(old \o data, r.meta["size"].n)
  <2>1. write.file = r.file
    BY DEF WriteOf
  <2>2. \E content : tree' = [tree EXCEPT ![To[c]][r.file] = content]
    BY <1>1
  <2>3. r.meta # None =>
          \E data \in Written(c, r.data) :
             tree'[To[c]][r.file] = Resize(old \o data, r.meta["size"].n)
    <3> SUFFICES ASSUME r.meta # None
                 PROVE  \E data \in Written(c, r.data) :
                           tree'[To[c]][r.file] = Resize(old \o data, r.meta["size"].n)
      OBVIOUS
    <3>1. PICK data \in Written(c, r.data) :
             tree' = [tree EXCEPT ![To[c]][r.file] = Resize(old \o data, r.meta["size"].n)]
      BY <1>1
    <3> HIDE DEF r, old
    <3>2. tree'[To[c]][r.file] = Resize(old \o data, r.meta["size"].n)
      BY <1>9, <3>1 DEF Inv, TypeOK
    <3> QED BY <3>2
  <2> HIDE DEF r, old, write
  <2>4. \A f \in FileNames : f # r.file => tree'[To[c]][f] = tree[To[c]][f]
    BY <1>9, <2>2 DEF Inv, TypeOK
  <2> QED BY <1>1, <2>1, <2>3, <2>4
<1> HIDE DEF r, old, write
<1>11. ASSUME NEW i \in 1..Len(source[c]), NEW j \in 1..Len(source[c][i]), Simple(c, i, j)
       PROVE  LET q == source[c][i][j]
              IN  /\ tree'[To[c]][q.file] \in IF Dumped(c, i, j)' THEN Arrivals(c, q.data) ELSE {None}
                  /\ \A w \in landing' : w.copy = c => w.file # q.file
  <2> DEFINE q == source[c][i][j]
  <2>1. q \in Row /\ i \in Nat /\ j \in Nat /\ Len(source[c][i]) \in Nat
    <3>1. source[c][i] \in Seq(Row)
      BY <1>2 DEF Batch
    <3>2. q \in Row
      BY <3>1, ElementOfSeq
    <3> QED BY <1>2, <3>2
  <2>2. /\ tree[To[c]][q.file] \in IF Dumped(c, i, j) THEN Arrivals(c, q.data) ELSE {None}
        /\ \A w \in landing : w.copy = c => w.file # q.file
    BY <1>11 DEF Arrives, RowsArrive
  <2>3. CASE i = cursor[c] /\ j = p
    <3>1. r = q
      <4>1. \A k \in 1..p : batch[k].meta # None
        BY <1>11, <2>3 DEF Simple
      <4>2. rows[p] = batch[p]
        <5> HIDE DEF batch, p
        <5> QED BY <1>5, <1>8, <4>1, IntoVecKeeps
      <4> QED BY <1>8, <2>3, <4>2
    <3>2. q.meta # None /\ q.meta["size"].n = Len(q.data)
      <4>1. j \in 1..j
        BY <2>1
      <4> QED BY <1>11, <4>1 DEF Simple
    <3>3. ~Dumped(c, i, j) /\ Dumped(c, i, j)'
      <4>1. ~(j + n <= Len(batch)) /\ j + (n - 1) <= Len(batch)
        BY <1>3, <1>5, <2>3
      <4> HIDE DEF n, p
      <4> QED BY <1>1, <1>2, <1>8, <2>3, <4>1 DEF Dumped, n
    <3>4. tree[To[c]][q.file] = None
      BY <2>2, <3>3
    <3>5. PICK data \in Written(c, q.data) :
             tree'[To[c]][q.file] = Resize(<<>> \o data, Len(q.data))
      BY <1>10, <3>1, <3>2, <3>4 DEF old, Content
    <3>6. data \in Seq(Cell)
      <4>1. q.data \in Seq(Cell)
        BY <2>1 DEF Row
      <4> HIDE DEF q
      <4> QED BY <4>1, WrittenType
    <3>7. tree'[To[c]][q.file] \in Arrivals(c, q.data)
      <4>1. <<>> \o data = data
        BY <3>6, ConcatEmptySeq
      <4> QED BY <3>5, <4>1 DEF Arrivals
    <3>8. landing' = landing
      BY <1>10, <3>1, <3>2
    <3> QED BY <2>2, <3>3, <3>7, <3>8
  <2>4. CASE ~(i = cursor[c] /\ j = p)
    <3>1. q.file # r.file
      <4>1. \A b \in 1..Len(source[c]) : \A k \in 1..Len(source[c][b]) :
               source[c][b][k].file = q.file => b = i /\ k = j
        BY <1>11 DEF Simple
      <4> HIDE DEF q, p
      <4> QED BY <1>5, <1>8, <1>9, <2>4, <4>1
    <3>2. Dumped(c, i, j)' <=> Dumped(c, i, j)
      <4>1. i = cursor[c] => (j + (n - 1) <= Len(batch) <=> j + n <= Len(batch))
        <5>1. i = cursor[c] => j # Len(batch) - n + 1
          BY <2>4
        <5>2. n \in Nat /\ Len(batch) \in Nat /\ j \in Nat
          BY <1>3, <1>5, <2>1
        <5> HIDE DEF n, batch
        <5> QED BY <5>1, <5>2
      <4> HIDE DEF n, p
      <4> QED BY <1>1, <1>8, <4>1 DEF Dumped, n
    <3>3. q.file \in FileNames
      BY <2>1 DEF Row
    <3> HIDE DEF q
    <3>4. \A w \in landing' : w.copy = c => w.file # q.file
      BY <1>10, <2>2, <3>1
    <3>5. tree'[To[c]][q.file] = tree[To[c]][q.file]
      BY <1>10, <3>1, <3>3
    <3> QED BY <2>2, <3>2, <3>4, <3>5 DEF q
  <2> QED BY <2>3, <2>4
<1>12. \A i, j : Simple(c, i, j)' <=> Simple(c, i, j)
  BY <1>1 DEF Simple
<1>13. RowsArrive(c)'
  BY <1>1, <1>11, <1>12 DEF RowsArrive
<1>14. LoadedRows(c)' = rows
  BY <1>1, <1>4 DEF LoadedRows
<1>15. Len(stream'[c]) <= Len(rows) /\ stream'[c] = RestOf(rows, Len(stream'[c]))
  <2>1. n - 1 <= Len(rows)
    BY <1>5, <1>6, <1>7
  <2> HIDE DEF rows, n
  <2> QED BY <1>8, <2>1
<1> HIDE DEF rows
<1> QED BY <1>1, <1>13, <1>14, <1>15 DEF Arrives
\* Nobody else has written to the tree of a copy when nobody has one step later.
LEMMA StaysAlone ==
    ASSUME Inv, NEW c \in Copies, WritesAlone(c)', [Next]_vars
    PROVE  WritesAlone(c)
<1>0. edits \in Nat /\ edits' = 0 /\ \A d \in Copies \ {c} : step'[d] # "none" => To[d] # To[c]
  BY DEF Inv, TypeOK, WritesAlone
<1>1. ASSUME NEW d \in Copies, Start(d) \/ StartFails(d) \/ Work(d) \/ DumpFails(d) \/ WriteFails(d)
      PROVE  WritesAlone(c)
  <2>1. \A e \in Copies \ {d} : step'[e] = step[e]
    BY <1>1, OthersRest DEF Own
  <2>2. (step[d] # "none" => step'[d] # "none") /\ edits' = edits
    BY <1>1, StepGoesOn
  <2> QED BY <1>0, <2>1, <2>2 DEF WritesAlone
<1>2. ASSUME NEW w \in landing, Land(w) \/ LandFails(w)
      PROVE  WritesAlone(c)
  BY <1>0, <1>2 DEF Land, LandFails, WritesAlone
<1>3. ASSUME NEW t \in Trees, NEW f \in FileNames, Edit(t, f)
      PROVE  FALSE
  BY <1>0, <1>3 DEF Edit
<1>4. CASE UNCHANGED vars
  BY <1>0, <1>4 DEF vars, WritesAlone
<1> QED BY <1>1, <1>2, <1>3, <1>4 DEF Next

\* A copy into a tree that has gone wrong does not recover.
LEMMA LostStays ==
    ASSUME Inv, NEW c \in Copies, ToTree(c), ~FromTree(c), Lost(c),
           Start(c) \/ StartFails(c) \/ Work(c) \/ DumpFails(c) \/ WriteFails(c)
    PROVE  Lost(c)'
<1>1. CASE step[c] = "failed"
  BY <1>1, StepGoesOn DEF Lost
<1>2. CASE stream[c] = <<Err>>
  <2>1. /\ stream[c] # <<>> /\ Head(stream[c]) = Err
        /\ producer[c] = "none" /\ outbox[c] = <<>> /\ channel[c] = <<>> /\ step[c] # "committing"
    BY <1>2 DEF Inv, TreesOnly
  <2>2. /\ ~OpenFile(c) /\ ~ReadChunk(c) /\ ~ReadBatch(c) /\ ~LoadFails(c) /\ ~Dump(c) /\ ~DumpEnds(c)
        /\ ~DumpFails(c)
    BY <2>1 DEF OpenFile, ReadChunk, ReadBatch, LoadFails, Pulls, Dump, DumpEnds, DumpFails
  <2>3. /\ ~Push(c) /\ ~ProducerFails(c) /\ ~Flush(c) /\ ~Send(c) /\ ~Receive(c) /\ ~Prepare(c)
        /\ ~Commit(c) /\ ~WriteFails(c)
    BY <2>1 DEF Push, ProducerFails, Flush, Send, Receive, Prepare, Commit, WriteFails
  <2>4. CASE StreamFails(c)
    BY <2>4 DEF StreamFails, Lost, Inv, TypeOK
  <2>5. CASE Start(c) \/ StartFails(c)
    BY <1>2, <2>5 DEF Start, StartFails, pipeVars, Lost
  <2> QED BY <2>2, <2>3, <2>4, <2>5 DEF Work
<1> QED BY <1>1, <1>2 DEF Lost

\* What the copy does itself.
LEMMA OwnArrive ==
    ASSUME Inv, NEW c \in Copies, ToTree(c), ~FromTree(c), Arrives(c),
           Start(c) \/ StartFails(c) \/ Work(c) \/ DumpFails(c) \/ WriteFails(c)
    PROVE  Lost(c)' \/ Arrives(c)'
<1>1. /\ producer[c] = "none" /\ outbox[c] = <<>> /\ channel[c] = <<>>
      /\ step[c] # "committing" /\ opened[c] = None
  BY DEF Inv, TreesOnly, OpenedOK
<1>2. /\ ~OpenFile(c) /\ ~ReadChunk(c) /\ ~Push(c) /\ ~ProducerFails(c) /\ ~Flush(c)
      /\ ~Send(c) /\ ~Receive(c) /\ ~Prepare(c) /\ ~Commit(c) /\ ~WriteFails(c)
  BY <1>1 DEF OpenFile, ReadChunk, Push, ProducerFails, Flush, Send, Receive, Prepare, Commit,
       WriteFails
<1>3. CASE StartFails(c) \/ StreamFails(c) \/ DumpFails(c)
  BY <1>3 DEF StartFails, StreamFails, DumpFails, Lost, Inv, TypeOK
<1>4. CASE LoadFails(c)
  BY <1>4 DEF LoadFails, Lost, Inv, TypeOK
<1> QED BY <1>2, <1>3, <1>4, StartArrive, ReadBatchArrive, DumpArrive, DumpEndsArrive DEF Work

\* A copy into a tree ends well when no row is left.
LEMMA EndsWellStep ==
    ASSUME Inv, EndsWell, [Next]_vars
    PROVE  EndsWell'
<1> SUFFICES ASSUME NEW c \in Copies, ToTree(c), step'[c] = "ok"
             PROVE  stream'[c] = <<>>
  BY DEF EndsWell, ToTree
<1>1. ASSUME UNCHANGED <<step, stream>>
      PROVE  stream'[c] = <<>>
  BY <1>1 DEF EndsWell
<1>2. ASSUME Start(c) \/ StartFails(c) \/ Work(c) \/ DumpFails(c) \/ WriteFails(c)
      PROVE  stream'[c] = <<>>
  <2>1. producer[c] = "none" /\ outbox[c] = <<>> /\ channel[c] = <<>> /\ step[c] # "committing"
    BY DEF Inv, TreesOnly
  <2>2. /\ ~Push(c) /\ ~ProducerFails(c) /\ ~Flush(c) /\ ~Send(c) /\ ~Receive(c) /\ ~Prepare(c)
        /\ ~Commit(c) /\ ~WriteFails(c)
    BY <2>1 DEF Push, ProducerFails, Flush, Send, Receive, Prepare, Commit, WriteFails
  <2>3. CASE Start(c) \/ StartFails(c) \/ StreamFails(c) \/ DumpFails(c)
    BY <2>3 DEF Start, StartFails, StreamFails, DumpFails, Inv, TypeOK
  <2>4. CASE OpenFile(c) \/ ReadChunk(c) \/ ReadBatch(c) \/ LoadFails(c) \/ Dump(c)
    BY <2>4 DEF OpenFile, ReadChunk, ReadBatch, LoadFails, Pulls, Dump
  <2>5. CASE DumpEnds(c)
    BY <2>5 DEF DumpEnds, pipeVars
  <2> QED BY <1>2, <2>2, <2>3, <2>4, <2>5 DEF Work
<1>3. ASSUME NEW d \in Copies, d # c,
             Start(d) \/ StartFails(d) \/ Work(d) \/ DumpFails(d) \/ WriteFails(d)
      PROVE  stream'[c] = <<>>
  BY <1>3, OthersRest DEF Own, EndsWell
<1>4. ASSUME NEW w \in landing, Land(w) \/ LandFails(w)
      PROVE  stream'[c] = <<>>
  BY <1>1, <1>4 DEF Land, LandFails, pipeVars
<1>5. ASSUME NEW t \in Trees, NEW f \in FileNames, Edit(t, f)
      PROVE  stream'[c] = <<>>
  BY <1>1, <1>5 DEF Edit, pipeVars
<1>6. CASE UNCHANGED vars
  BY <1>1, <1>6 DEF vars
<1> QED BY <1>2, <1>3, <1>4, <1>5, <1>6 DEF Next

LEMMA ArriveStep ==
    ASSUME Inv, LandingOfRun, ArriveInv, [Next]_vars
    PROVE  ArriveInv'
<1>1. ASSUME NEW c \in Copies, ToTree(c), ~FromTree(c), WritesAlone(c)', ~Lost(c)'
      PROVE  Arrives(c)'
  <2>0. ~Lost(c)
    <3>1. ASSUME NEW d \in Copies, Start(d) \/ StartFails(d) \/ Work(d) \/ DumpFails(d) \/ WriteFails(d)
          PROVE  ~Lost(c)
      <4>1. CASE d = c
        BY <1>1, <3>1, <4>1, LostStays
      <4>2. CASE d # c
        BY <1>1, <3>1, <4>2, OthersRest DEF Own, Lost
      <4> QED BY <4>1, <4>2
    <3>2. ASSUME UNCHANGED <<step, stream>>
          PROVE  ~Lost(c)
      BY <1>1, <3>2 DEF Lost
    <3>3. ASSUME NEW w \in landing, Land(w) \/ LandFails(w)
          PROVE  ~Lost(c)
      BY <3>2, <3>3 DEF Land, LandFails, pipeVars
    <3>4. ASSUME NEW t \in Trees, NEW f \in FileNames, Edit(t, f)
          PROVE  ~Lost(c)
      BY <3>2, <3>4 DEF Edit, pipeVars
    <3>5. CASE UNCHANGED vars
      BY <3>2, <3>5 DEF vars
    <3> QED BY <3>1, <3>3, <3>4, <3>5 DEF Next
  <2>1. WritesAlone(c) /\ Arrives(c)
    BY <1>1, <2>0, StaysAlone DEF ArriveInv
  <2>2. ASSUME NEW d \in Copies, Start(d) \/ StartFails(d) \/ Work(d) \/ DumpFails(d) \/ WriteFails(d)
        PROVE  Arrives(c)'
    <3>1. CASE d = c
      BY <1>1, <2>1, <2>2, <3>1, OwnArrive
    <3>2. CASE d # c
      <4>1. UNCHANGED Own(c)
        BY <2>2, <3>2, OthersRest
      <4>2. tree'[To[c]] = tree[To[c]]
        <5>1. CASE tree' = tree
          BY <5>1
        <5>2. CASE tree' # tree
          <6>1. step[d] = "copying" /\ \A t \in Trees : t # To[d] => tree'[t] = tree[t]
            BY <2>2, <5>2, StepGoesOn
          <6>2. To[d] # To[c]
            BY <2>1, <3>2, <6>1 DEF WritesAlone
          <6> QED BY <1>1, <6>1, <6>2 DEF ToTree
        <5> QED BY <5>1, <5>2
      <4>3. \A w \in landing' : w.copy = c => w \in landing
        <5>1. CASE landing' = landing
          BY <5>1
        <5>2. CASE landing' # landing
          BY <2>2, <3>2, <5>2, StepGoesOn
        <5> QED BY <5>1, <5>2
      <4>4. /\ source'[c] = source[c] /\ cursor'[c] = cursor[c] /\ stream'[c] = stream[c]
            /\ step'[c] = step[c]
        BY <4>1 DEF Own
      <4> QED BY <2>1, <4>2, <4>3, <4>4, ArriveKept
    <3> QED BY <3>1, <3>2
  <2>3. ASSUME NEW w \in landing, Land(w) \/ LandFails(w)
        PROVE  Arrives(c)'
    BY <1>1, <2>1, <2>3, LandArrive
  <2>4. ASSUME NEW t \in Trees, NEW f \in FileNames, Edit(t, f)
        PROVE  FALSE
    BY <1>1, <2>4 DEF Edit, WritesAlone, Inv, TypeOK
  <2>5. CASE UNCHANGED vars
    BY <2>1, <2>5, ArriveKept DEF vars
  <2> QED BY <2>2, <2>3, <2>4, <2>5 DEF Next
<1>2. EndsWell'
  BY EndsWellStep DEF ArriveInv
<1> QED BY <1>1, <1>2 DEF ArriveInv, ToTree, FromTree

LEMMA ArriveInit ==
    ASSUME Init
    PROVE  ArriveInv
<1>1. ASSUME NEW c \in Copies
      PROVE  Arrives(c)
  <2>1. /\ step[c] \in {"none", "idle"} /\ cursor[c] = 0 /\ source[c] = <<>>
        /\ stream[c] = <<>> /\ tree = InitialTree /\ landing = {}
    BY DEF Init
  <2>2. LoadedRows(c) = <<>> /\ Len(<<>>) = 0
    BY <2>1 DEF LoadedRows
  <2>3. RestOf(<<>>, 0) = <<>>
    BY <2>2, SubSeqEmpty DEF RestOf
  <2>4. RowsArrive(c)
    BY <2>1 DEF RowsArrive
  <2> QED BY <2>1, <2>2, <2>3, <2>4 DEF Arrives
<1>2. EndsWell
  BY DEF Init, EndsWell
<1> QED BY <1>1, <1>2 DEF ArriveInv

\* The whole inductive invariant of copies: between source and fragment no row is lost,
\* doubled or overtaken, and a simple file is in the tree once its row has come.
THEOREM CopyInvariance == Spec => []CopyInv
<1>1. Init => ArriveInv
  BY ArriveInit
<1>2. Inv /\ FlowInv /\ ArriveInv /\ [Next]_vars => ArriveInv'
  BY ArriveStep DEF FlowInv
<1>3. Inv /\ FlowInv /\ ArriveInv => CopyInv
  BY DEF CopyInv
<1> QED BY <1>1, <1>2, <1>3, Invariance, FlowInvariance, PTL DEF Spec

\* A file of one chunk in a dataset arrives in a tree in which it was not as it was, for any
\* numbers and sizes of batches and files, and whatever other copies do elsewhere, when
\* its row carries its size and none before it in its batch lacks metadata.  Where a write
\* may fail unnoticed the rest of its length is holes.
THEOREM SimpleFiles == Spec => []SimpleFilesArrive
<1>1. CopyInv => SimpleFilesArrive
  <2> SUFFICES ASSUME CopyInv, NEW c \in Copies, step[c] = "ok", ToTree(c), ~FromTree(c),
                      WritesAlone(c), NEW i \in 1..Len(source[c]),
                      NEW j \in 1..Len(source[c][i]), Simple(c, i, j)
               PROVE  LET r == source[c][i][j]
                      IN  /\ tree[To[c]][r.file] \in Arrivals(c, r.data)
                          /\ c \notin Faults => tree[To[c]][r.file] = r.data
    BY DEF SimpleFilesArrive
  <2> DEFINE r == source[c][i][j]
  <2>1. Arrives(c)
    <3>1. ~Lost(c)
      <4>1. stream[c] = <<>>
        BY DEF CopyInv, ArriveInv, EndsWell
      <4>2. <<Err>> # <<>>
        OBVIOUS
      <4> QED BY <4>1, <4>2 DEF Lost
    <3> QED BY <3>1 DEF CopyInv, ArriveInv
  <2>2. stream[c] = <<>> /\ cursor[c] = Len(source[c])
    BY <2>1 DEF Arrives
  <2>3. Len(source[c]) \in Nat /\ Len(source[c][i]) \in Nat
    BY DatasetBatch DEF CopyInv
  <2>4. Dumped(c, i, j)
    <3>1. Len(<<>>) = 0
      OBVIOUS
    <3> QED BY <2>2, <2>3, <3>1 DEF Dumped
  <2>5. tree[To[c]][r.file] \in Arrivals(c, r.data)
    BY <2>1, <2>4 DEF Arrives, RowsArrive
  <2>6. r.data \in Seq(Cell)
    <3>1. source[c][i] \in Seq(Row)
      BY DatasetBatch DEF CopyInv, Batch
    <3>2. r \in Row
      BY <3>1, ElementOfSeq
    <3> QED BY <3>2 DEF Row
  <2>7. c \notin Faults => Arrivals(c, r.data) = {r.data}
    <3> HIDE DEF r
    <3>1. Resize(r.data, Len(r.data)) = r.data
      BY <2>6, ResizeWhole
    <3> QED BY <3>1 DEF Arrivals, Written
  <2> QED BY <2>5, <2>7
<1> QED BY <1>1, CopyInvariance, PTL
=============================================================================
