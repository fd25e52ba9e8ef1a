---------------------------- MODULE DatasetCopy ----------------------------
(***************************************************************************)
(* `cdl cp' and CdlFS::copy_to: files of a local directory tree, or the    *)
(* rows of a dataset's rootfs table, are streamed into another tree or     *)
(* table (crates/cdl-fs).                                                  *)
(*                                                                         *)
(* A file travels as one row per chunk.  Into a dataset the rows go        *)
(* through a background task that packs them into batches, a bounded       *)
(* channel, and Lance, which writes them as one fragment and commits the   *)
(* next version of the table.  Into a tree each row is appended to its     *)
(* file.                                                                   *)
(***************************************************************************)
EXTENDS Naturals, FiniteSets, SequencesExt

CONSTANTS
    Copies,        \* the cp commands
    Together,      \* bound: the sets of them that are run at the same time
    Trees,         \* local directory trees
    Datasets,      \* datasets, each with its rootfs table
    From, To,      \* where each copy reads and writes
    Files,         \* names of files, in the order in which glob lists them
    InitialTree,   \* the content of every file of each tree at the start
    InitialTable,  \* the versions each table has at the start
    MaxChunk,      \* max_chunk_size; 0 disables the chunking
    MaxBuffer,     \* max_buffer_size
    MaxThreads,    \* max_write_threads, the capacity of the channel
    Edited,        \* the files that somebody changes, <<tree, file>>
    Sizes,         \* bound: the sizes a file may be given by an edit
    MaxEdits,      \* bound: how often files are edited
    Unreadable,    \* these copies may meet what cannot be read: a file, a chunk, a batch
    Faults,        \* the local writes of these copies may fail, or those of Lance
    Err,           \* in the place of a row that could not be loaded
    None

Places == Trees \cup Datasets
FileNames == Range(Files)

ASSUME PlacesAssumption ==
    /\ Trees \cap Datasets = {}
    /\ From \in [Copies -> Places]
    /\ To \in [Copies -> Places]
    /\ Unreadable \subseteq Copies
    /\ Faults \subseteq Copies
    /\ Together \subseteq SUBSET Copies
ASSUME SizesAssumption ==
    /\ MaxChunk \in Nat
    /\ MaxBuffer \in Nat
    /\ MaxThreads \in Nat \ {0}   \* mpsc::channel panics at 0
    /\ Sizes \subseteq Nat
    /\ MaxEdits \in Nat

VARIABLES
    tree,      \* the content of each file, a sequence of cells, or None
    table,     \* the versions of each dataset: sequences of fragments
    edits,     \* how many edits there have been
    step,      \* how far each copy_to has come; "none" of those that are not run
    source,    \* what a copy found when it began: names of files or fragments
    cursor,    \* how many of these it has loaded
    opened,    \* the file being read, its size and the rows made of it, or None
    stream,    \* rows, or Err, that have been loaded and not been consumed
    builder,   \* FileRecordBuilder: the rows of the next batch
    outbox,    \* the batch that tx.send is called with, at most one
    channel,   \* the batches in the channel
    producer,  \* the background task of file_stream_to_batch_stream
    fragment,  \* the rows that Lance has written for this copy
    base,      \* the version that the commit builds on
    landing    \* writes that a dropped tokio File left to the blocking pool

pipeVars == <<stream, builder, outbox, channel, producer, fragment>>
sourceVars == <<source, cursor, opened>>
vars == <<tree, table, edits, step, source, cursor, opened, stream, builder,
          outbox, channel, producer, fragment, base, landing>>

----------------------------------------------------------------------------
(* Data. *)

Hole == <<0, 0>>                     \* a byte that nobody wrote
Fresh(v, n) == [i \in 1..n |-> <<v, i>>]

Columns == {"atime", "ctime", "mtime", "mode", "size"}

Cell == Nat \X Nat
MetadataRow == [Columns -> [file: FileNames, n: Nat]]
Row == [file: FileNames, chunk: Nat, offset: Nat, size: Nat,
        meta: MetadataRow \cup {None}, data: Seq(Cell)]
Batch == Seq(Row)

ASSUME ContentAssumption ==
    /\ Files \in Seq(FileNames)
    /\ InitialTree \in [Trees -> [FileNames -> Seq(Cell) \cup {None}]]
    /\ InitialTable \in [Datasets -> Seq(Seq(Batch))]
    /\ Edited \subseteq Trees \X FileNames

\* What Result and Option tell apart.
ASSUME OutcomesAssumption ==
    /\ Err \notin Row
    /\ None \notin [file: FileNames, size: Nat, rows: Seq(Row \cup {Err})]

\* What the metadata columns hold for a file: whose they are, and its size.
Metadata(f, n) == [k \in Columns |-> [file |-> f, n |-> n]]

\* The last of the chunk_ids of a file of n bytes.
LastChunk(n) == IF MaxChunk = 0 \/ n = 0 THEN 0 ELSE (n - 1) \div MaxChunk

\* FileRecord::load: one row for each chunk of the size found in the metadata;
\* read_exact fails beyond what the file now holds.  Only the first row
\* carries the metadata (metadata.take()).
Chunk(f, n, content, i) ==
    LET offset == i * MaxChunk
        size == IF MaxChunk = 0 THEN n ELSE Min({n, (i + 1) * MaxChunk}) - offset
    IN  IF offset + size > Len(content) THEN Err
        ELSE [file |-> f, chunk |-> i, offset |-> offset, size |-> size,
              meta |-> IF i = 0 THEN Metadata(f, n) ELSE None,
              data |-> SubSeq(content, offset + 1, offset + size)]

\* FileRecordBatch::into_vec.  get_metadata takes the next value of one column
\* after the other and returns at the first null, so that a row without
\* metadata moves the iterator of `atime' on and leaves the others behind.
\* The next column is asked only for the rows `given' a value by this one: the
\* i-th row of them gets its i-th value, which may be null.
Rank(given, i) == Cardinality({j \in given : j <= i})
NextGiven(batch, given) == {i \in given : batch[Rank(given, i)].meta # None}

IntoVec(batch) ==
    LET rows  == 1..Len(batch)
        atime == {i \in rows : batch[i].meta # None}
        ctime == NextGiven(batch, atime)
        mtime == NextGiven(batch, ctime)
        mode  == NextGiven(batch, mtime)
        size  == NextGiven(batch, mode)
        Of(asked, column, i) == batch[Rank(asked, i)].meta[column]
    IN  [i \in rows |-> [batch[i] EXCEPT !.meta =
           IF i \notin size THEN None
           ELSE [atime |-> Of(rows, "atime", i), ctime |-> Of(atime, "ctime", i),
                 mtime |-> Of(ctime, "mtime", i), mode |-> Of(mtime, "mode", i),
                 size |-> Of(mode, "size", i)]]]

Resize(content, n) == [i \in 1..n |-> IF i <= Len(content) THEN content[i] ELSE Hole]

TotalSize(rows) == FoldSeq(LAMBDA r, n : r.size + n, 0, rows)

\* The files that glob finds in a tree, in its order, of those that it may see: an
\* entry of a directory that cannot be read is passed over (path.ok()).
Listed(t, seen) ==
    LET present == {i \in 1..Len(Files) : tree[t][Files[i]] # None /\ Files[i] \in seen}
    IN  [k \in 1..Cardinality(present) |-> Files[CHOOSE i \in present : Rank(present, i) = k]]

Seen(c) == IF c \in Unreadable THEN SUBSET FileNames ELSE {FileNames}

\* What a write of `data' may leave in a file: all of it, or when it fails no more
\* than a part.
Written(c, data) ==
    IF c \in Faults THEN {SubSeq(data, 1, k) : k \in 0..Len(data)} ELSE {data}

ToTree(c) == To[c] \in Trees
Ended(c) == step[c] \in {"ok", "failed"}
FromTree(c) == From[c] \in Trees
Latest(d) == IF table[d] = <<>> THEN <<>> ELSE Last(table[d])

----------------------------------------------------------------------------
(* The source. *)

\* Somebody changes a file while copies run.
Edit(t, f) ==
    /\ <<t, f>> \in Edited
    /\ edits < MaxEdits
    /\ tree[t][f] # None
    /\ \E n \in Sizes : tree' = [tree EXCEPT ![t][f] = Fresh(edits + 2, n)]
    /\ edits' = edits + 1
    /\ UNCHANGED <<table, step, base, landing>> /\ UNCHANGED sourceVars /\ UNCHANGED pipeVars

\* copy_to: load_all lists the files of a tree, or opens the latest version of
\* the table, then dump_all begins; for a dataset it spawns the producer.
Start(c) ==
    /\ step[c] = "idle"
    /\ ~FromTree(c) => table[From[c]] # <<>>
    /\ step' = [step EXCEPT ![c] = "copying"]
    /\ IF FromTree(c)
       THEN \E seen \in Seen(c) : source' = [source EXCEPT ![c] = Listed(From[c], seen)]
       ELSE source' = [source EXCEPT ![c] = Latest(From[c])]
    /\ producer' = [producer EXCEPT ![c] = IF ToTree(c) THEN @ ELSE "running"]
    /\ UNCHANGED <<tree, table, edits, cursor, opened, stream, builder, outbox,
                   channel, fragment, base, landing>>

\* The tree cannot be listed, the table cannot be opened or is empty ("Empty
\* storage"), or the root of the other tree cannot be created.
StartFails(c) ==
    /\ step[c] = "idle"
    /\ \/ ~FromTree(c) /\ table[From[c]] = <<>>
       \/ c \in Unreadable
       \/ ToTree(c) /\ c \in Faults
    /\ step' = [step EXCEPT ![c] = "failed"]
    /\ UNCHANGED <<tree, table, edits, base, landing>>
    /\ UNCHANGED sourceVars /\ UNCHANGED pipeVars

\* The consumer of the stream asks for a row and none is there.
Pulls(c) ==
    /\ stream[c] = <<>>
    /\ IF ToTree(c) THEN step[c] = "copying"
       ELSE producer[c] = "running" /\ outbox[c] = <<>>

Exhausted(c) == opened[c] = None /\ cursor[c] = Len(source[c])

\* FileRecord::load: the file is opened and its size is read.
OpenFile(c) ==
    /\ FromTree(c)
    /\ Pulls(c)
    /\ opened[c] = None
    /\ cursor[c] < Len(source[c])
    /\ LET f == source[c][cursor[c] + 1]
           n == Len(tree[From[c]][f])
       IN  opened' = [opened EXCEPT ![c] = [file |-> f, size |-> n, rows |-> <<>>]]
    /\ cursor' = [cursor EXCEPT ![c] = @ + 1]
    /\ UNCHANGED <<tree, table, edits, step, source, base, landing>> /\ UNCHANGED pipeVars

\* FileRecord::load of a file that cannot be opened, or load_all of a dataset when
\* the scan yields an error or a batch that cannot be converted: an error takes the
\* place of all rows.
LoadFails(c) ==
    /\ c \in Unreadable
    /\ Pulls(c)
    /\ opened[c] = None
    /\ cursor[c] < Len(source[c])
    /\ cursor' = [cursor EXCEPT ![c] = @ + 1]
    /\ stream' = [stream EXCEPT ![c] = <<Err>>]
    /\ UNCHANGED <<tree, table, edits, step, source, opened, builder, outbox, channel,
                   producer, fragment, base, landing>>

\* FileRecord::load: the next chunk of the opened file is read, or read_exact fails;
\* the rows are handed over when all chunks have been tried.
ReadChunk(c) ==
    /\ Pulls(c)
    /\ opened[c] # None
    /\ LET f == opened[c].file
           n == opened[c].size
           i == Len(opened[c].rows)
           chunk == Chunk(f, n, tree[From[c]][f], i)
       IN  \E row \in {chunk} \cup (IF c \in Unreadable THEN {Err} ELSE {}) :
           LET rows == Append(opened[c].rows, row)
           IN  IF i = LastChunk(n)
               THEN /\ stream' = [stream EXCEPT ![c] = rows]
                    /\ opened' = [opened EXCEPT ![c] = None]
               ELSE /\ opened' = [opened EXCEPT ![c].rows = rows]
                    /\ UNCHANGED stream
    /\ UNCHANGED <<tree, table, edits, step, source, cursor, builder, outbox, channel,
                   producer, fragment, base, landing>>

\* A plausible bug: a row without metadata is taken for no file.
ReadBatchOfFiles(c) ==
    /\ ~FromTree(c)
    /\ Pulls(c)
    /\ cursor[c] < Len(source[c])
    /\ cursor' = [cursor EXCEPT ![c] = @ + 1]
    /\ stream' = [stream EXCEPT ![c] =
         SelectSeq(IntoVec(source[c][cursor[c] + 1]), LAMBDA r : r.meta # None)]
    /\ UNCHANGED <<tree, table, edits, step, source, opened, builder, outbox, channel,
                   producer, fragment, base, landing>>

\* load_all of a dataset: the scan yields the next batch of rows, in order.
ReadBatch(c) ==
    /\ ~FromTree(c)
    /\ Pulls(c)
    /\ cursor[c] < Len(source[c])
    /\ cursor' = [cursor EXCEPT ![c] = @ + 1]
    /\ stream' = [stream EXCEPT ![c] = IntoVec(source[c][cursor[c] + 1])]
    /\ UNCHANGED <<tree, table, edits, step, source, opened, builder, outbox, channel,
                   producer, fragment, base, landing>>

----------------------------------------------------------------------------
(* Into a local tree. *)

\* A plausible bug: set_len comes before the write.
DumpResized(c) ==
    /\ ToTree(c)
    /\ step[c] = "copying"
    /\ stream[c] # <<>>
    /\ Head(stream[c]) # Err
    /\ LET r == Head(stream[c])
           old == IF tree[To[c]][r.file] = None THEN <<>> ELSE tree[To[c]][r.file]
           resized == IF r.meta = None THEN old ELSE Resize(old, r.meta["size"].n)
       IN  tree' = [tree EXCEPT ![To[c]][r.file] = resized \o r.data]
    /\ stream' = [stream EXCEPT ![c] = Tail(@)]
    /\ UNCHANGED <<table, edits, step, builder, outbox, channel, producer, fragment, base,
                   landing>>
    /\ UNCHANGED sourceVars

\* FileRecord::dump: the file is opened with create and append, so that the
\* data go to its end whatever `seek' says.  With metadata set_len waits for
\* the write, and tokio keeps the write's error from it, so that what is missing
\* is filled up; without, the file is dropped while the write is under way.
Content(t, f) == IF tree[t][f] = None THEN <<>> ELSE tree[t][f]
WriteOf(c, r) == [copy |-> c, file |-> r.file, chunk |-> r.chunk, data |-> r.data]

Dump(c) ==
    /\ ToTree(c)
    /\ step[c] = "copying"
    /\ stream[c] # <<>>
    /\ Head(stream[c]) # Err
    /\ LET r == Head(stream[c])
           old == Content(To[c], r.file)
       IN  IF r.meta # None
           THEN /\ \E data \in Written(c, r.data) :
                      tree' = [tree EXCEPT ![To[c]][r.file] =
                                 Resize(old \o data, r.meta["size"].n)]
                /\ UNCHANGED landing
           ELSE /\ tree' = [tree EXCEPT ![To[c]][r.file] = old]
                /\ landing' = landing \cup {WriteOf(c, r)}
    /\ stream' = [stream EXCEPT ![c] = Tail(@)]
    /\ UNCHANGED <<table, edits, step, builder, outbox, channel, producer, fragment, base>>
    /\ UNCHANGED sourceVars

\* A write that was left behind reaches the end of its file.
Land(w) ==
    /\ w \in landing
    /\ tree' = [tree EXCEPT ![To[w.copy]][w.file] = @ \o w.data]
    /\ landing' = landing \ {w}
    /\ UNCHANGED <<table, edits, step, base>> /\ UNCHANGED sourceVars /\ UNCHANGED pipeVars

\* It fails, perhaps half-way; its error is told to nobody.
LandFails(w) ==
    /\ w \in landing
    /\ w.copy \in Faults
    /\ \E data \in Written(w.copy, w.data) :
          tree' = [tree EXCEPT ![To[w.copy]][w.file] = @ \o data]
    /\ landing' = landing \ {w}
    /\ UNCHANGED <<table, edits, step, base>> /\ UNCHANGED sourceVars /\ UNCHANGED pipeVars

\* try_for_each ends at the first error: a row that could not be loaded ...
StreamFails(c) ==
    /\ ToTree(c)
    /\ step[c] = "copying"
    /\ stream[c] # <<>>
    /\ Head(stream[c]) = Err
    /\ step' = [step EXCEPT ![c] = "failed"]
    /\ UNCHANGED <<tree, table, edits, base, landing>>
    /\ UNCHANGED sourceVars /\ UNCHANGED pipeVars

\* ... or a file that could not be opened, one that an earlier part of the data could
\* not be written to, or one whose metadata could not be set while the write was
\* under way.
DumpFails(c) ==
    /\ ToTree(c)
    /\ step[c] = "copying"
    /\ stream[c] # <<>>
    /\ Head(stream[c]) # Err
    /\ c \in Faults
    /\ step' = [step EXCEPT ![c] = "failed"]
    /\ LET r == Head(stream[c])
           old == Content(To[c], r.file)
       IN  \/ UNCHANGED <<tree, landing>>
           \/ /\ \E data \in Written(c, r.data) :
                    tree' = [tree EXCEPT ![To[c]][r.file] = old \o data]
              /\ UNCHANGED landing
           \/ /\ r.meta # None
              /\ tree' = [tree EXCEPT ![To[c]][r.file] = old]
              /\ landing' = landing \cup {WriteOf(c, r)}
    /\ UNCHANGED <<table, edits, base>>
    /\ UNCHANGED sourceVars /\ UNCHANGED pipeVars

DumpEnds(c) ==
    /\ ToTree(c)
    /\ step[c] = "copying"
    /\ stream[c] = <<>>
    /\ Exhausted(c)
    /\ step' = [step EXCEPT ![c] = "ok"]
    /\ UNCHANGED <<tree, table, edits, base, landing>>
    /\ UNCHANGED sourceVars /\ UNCHANGED pipeVars

----------------------------------------------------------------------------
(* Into a dataset: the background task. *)

\* A plausible bug: the size of the new row is not counted.
PushLate(c) ==
    /\ producer[c] = "running"
    /\ outbox[c] = <<>>
    /\ stream[c] # <<>>
    /\ Head(stream[c]) # Err
    /\ LET r == Head(stream[c])
           full == TotalSize(builder[c]) > MaxBuffer
       IN  /\ builder' = [builder EXCEPT ![c] = IF full THEN <<r>> ELSE Append(@, r)]
           /\ outbox' = [outbox EXCEPT ![c] = IF full THEN <<builder[c]>> ELSE <<>>]
    /\ stream' = [stream EXCEPT ![c] = Tail(@)]
    /\ UNCHANGED <<tree, table, edits, step, channel, producer, fragment, base, landing>>
    /\ UNCHANGED sourceVars

\* FileRecordBuilder::push: a row that would not fit sends the batch off first.
Push(c) ==
    /\ producer[c] = "running"
    /\ outbox[c] = <<>>
    /\ stream[c] # <<>>
    /\ Head(stream[c]) # Err
    /\ LET r == Head(stream[c])
           full == TotalSize(builder[c]) + r.size > MaxBuffer
       IN  /\ builder' = [builder EXCEPT ![c] = IF full THEN <<r>> ELSE Append(@, r)]
           /\ outbox' = [outbox EXCEPT ![c] =
                IF full /\ builder[c] # <<>> THEN <<builder[c]>> ELSE <<>>]
    /\ stream' = [stream EXCEPT ![c] = Tail(@)]
    /\ UNCHANGED <<tree, table, edits, step, channel, producer, fragment, base, landing>>
    /\ UNCHANGED sourceVars

\* An error ends the task; what the builder holds is dropped, and so is the
\* error: nobody awaits the task.
ProducerFails(c) ==
    /\ producer[c] = "running"
    /\ stream[c] # <<>>
    /\ Head(stream[c]) = Err
    /\ outbox[c] = <<>>
    /\ producer' = [producer EXCEPT ![c] = "failed"]
    /\ UNCHANGED <<tree, table, edits, step, stream, builder, outbox, channel, fragment,
                   base, landing>>
    /\ UNCHANGED sourceVars

\* A plausible bug: the end of the stream ends the task.
FinishUnflushed(c) ==
    /\ producer[c] = "running"
    /\ stream[c] = <<>>
    /\ outbox[c] = <<>>
    /\ Exhausted(c)
    /\ producer' = [producer EXCEPT ![c] = "finished"]
    /\ UNCHANGED <<tree, table, edits, step, stream, builder, outbox, channel, fragment,
                   base, landing>>
    /\ UNCHANGED sourceVars

\* The stream has ended: the rest is flushed.
Flush(c) ==
    /\ producer[c] = "running"
    /\ stream[c] = <<>>
    /\ outbox[c] = <<>>
    /\ Exhausted(c)
    /\ outbox' = [outbox EXCEPT ![c] = IF builder[c] = <<>> THEN <<>> ELSE <<builder[c]>>]
    /\ builder' = [builder EXCEPT ![c] = <<>>]
    /\ producer' = [producer EXCEPT ![c] = IF builder[c] = <<>> THEN "finished" ELSE "flushed"]
    /\ UNCHANGED <<tree, table, edits, step, stream, channel, fragment, base, landing>>
    /\ UNCHANGED sourceVars

\* Two plausible bugs: a channel without bound, and a receiver that goes unnoticed.
SendAtOnce(c) ==
    /\ outbox[c] # <<>>
    /\ outbox' = [outbox EXCEPT ![c] = <<>>]
    /\ channel' = [channel EXCEPT ![c] = @ \o outbox[c]]
    /\ producer' = [producer EXCEPT ![c] = IF @ = "flushed" THEN "finished" ELSE @]
    /\ UNCHANGED <<tree, table, edits, step, stream, builder, fragment, base, landing>>
    /\ UNCHANGED sourceVars

SendOrWait(c) ==
    /\ outbox[c] # <<>>
    /\ Len(channel[c]) < MaxThreads
    /\ outbox' = [outbox EXCEPT ![c] = <<>>]
    /\ channel' = [channel EXCEPT ![c] = @ \o outbox[c]]
    /\ producer' = [producer EXCEPT ![c] = IF @ = "flushed" THEN "finished" ELSE @]
    /\ UNCHANGED <<tree, table, edits, step, stream, builder, fragment, base, landing>>
    /\ UNCHANGED sourceVars

\* tx.send waits for room, and fails when the receiver has gone.
Send(c) ==
    /\ outbox[c] # <<>>
    /\ outbox' = [outbox EXCEPT ![c] = <<>>]
    /\ IF Ended(c)
       THEN /\ producer' = [producer EXCEPT ![c] = "failed"]
            /\ UNCHANGED channel
       ELSE /\ Len(channel[c]) < MaxThreads
            /\ channel' = [channel EXCEPT ![c] = @ \o outbox[c]]
            /\ producer' = [producer EXCEPT ![c] = IF @ = "flushed" THEN "finished" ELSE @]
    /\ UNCHANGED <<tree, table, edits, step, stream, builder, fragment, base, landing>>
    /\ UNCHANGED sourceVars

----------------------------------------------------------------------------
(* Into a dataset: commit_table, that is Lance's InsertBuilder. *)

Receive(c) ==
    /\ step[c] = "copying"
    /\ channel[c] # <<>>
    /\ fragment' = [fragment EXCEPT ![c] = @ \o Head(channel[c])]
    /\ channel' = [channel EXCEPT ![c] = Tail(@)]
    /\ UNCHANGED <<tree, table, edits, step, stream, builder, outbox, producer, base, landing>>
    /\ UNCHANGED sourceVars

\* The object storage refuses a write: nothing is committed.
WriteFails(c) ==
    /\ ~ToTree(c)
    /\ step[c] = "copying"
    /\ c \in Faults
    /\ step' = [step EXCEPT ![c] = "failed"]
    /\ channel' = [channel EXCEPT ![c] = <<>>]
    /\ UNCHANGED <<tree, table, edits, stream, builder, outbox, producer, fragment, base, landing>>
    /\ UNCHANGED sourceVars

\* The channel is empty and its sender has gone: the stream of batches has
\* ended, whatever ended it.  The commit begins from the latest version.
Prepare(c) ==
    /\ ~ToTree(c)
    /\ step[c] = "copying"
    /\ channel[c] = <<>>
    /\ producer[c] \in {"finished", "failed"}
    /\ step' = [step EXCEPT ![c] = "committing"]
    /\ base' = [base EXCEPT ![c] = Len(table[To[c]])]
    /\ UNCHANGED <<tree, table, edits, landing>> /\ UNCHANGED sourceVars /\ UNCHANGED pipeVars

\* A plausible bug: WriteMode::Overwrite.
CommitAlone(c) ==
    /\ step[c] = "committing"
    /\ table' = [table EXCEPT ![To[c]] = Append(@, <<fragment[c]>>)]
    /\ step' = [step EXCEPT ![c] = "ok"]
    /\ UNCHANGED <<tree, edits, base, landing>> /\ UNCHANGED sourceVars /\ UNCHANGED pipeVars

\* UnsafeCommitHandler writes the manifest of the next version, if there is
\* one already, over it.
Commit(c) ==
    /\ step[c] = "committing"
    /\ LET versions == table[To[c]]
           old == IF base[c] = 0 THEN <<>> ELSE versions[base[c]]
           manifest == IF fragment[c] = <<>> THEN old ELSE Append(old, fragment[c])
       IN  table' = [table EXCEPT ![To[c]] =
             IF base[c] < Len(versions) THEN [versions EXCEPT ![base[c] + 1] = manifest]
             ELSE Append(versions, manifest)]
    /\ step' = [step EXCEPT ![c] = "ok"]
    /\ UNCHANGED <<tree, edits, base, landing>> /\ UNCHANGED sourceVars /\ UNCHANGED pipeVars

----------------------------------------------------------------------------

Init ==
    /\ tree = InitialTree
    /\ table = InitialTable
    /\ edits = 0
    /\ \E run \in Together : step = [c \in Copies |-> IF c \in run THEN "idle" ELSE "none"]
    /\ source = [c \in Copies |-> <<>>]
    /\ cursor = [c \in Copies |-> 0]
    /\ opened = [c \in Copies |-> None]
    /\ stream = [c \in Copies |-> <<>>]
    /\ builder = [c \in Copies |-> <<>>]
    /\ outbox = [c \in Copies |-> <<>>]
    /\ channel = [c \in Copies |-> <<>>]
    /\ producer = [c \in Copies |-> "none"]
    /\ fragment = [c \in Copies |-> <<>>]
    /\ base = [c \in Copies |-> 0]
    /\ landing = {}

\* What goes on by itself once a copy has begun and nothing fails.
Work(c) ==
    \/ OpenFile(c) \/ ReadChunk(c) \/ ReadBatch(c) \/ LoadFails(c)
    \/ Dump(c) \/ StreamFails(c) \/ DumpEnds(c)
    \/ Push(c) \/ ProducerFails(c) \/ Flush(c) \/ Send(c)
    \/ Receive(c) \/ Prepare(c) \/ Commit(c)

Next ==
    \/ \E c \in Copies : Start(c) \/ StartFails(c) \/ Work(c) \/ DumpFails(c) \/ WriteFails(c)
    \/ \E w \in landing : Land(w) \/ LandFails(w)
    \/ \E t \in Trees, f \in FileNames : Edit(t, f)

Spec == Init /\ [][Next]_vars

\* The runtime polls a task that can go on: each copy with its background task,
\* and the writes left behind.
Fairness ==
    /\ \A c \in Copies : WF_vars(Work(c))
    /\ WF_vars(\E w \in landing : Land(w))

FairSpec == Spec /\ Fairness

----------------------------------------------------------------------------
(* Properties. *)

\* The state of every copy is of the shape that CdlFS, FileRecordBuilder and
\* the channel give it; the channel holds max_write_threads batches at most.
TypeOK ==
    /\ tree \in [Trees -> [FileNames -> Seq(Cell) \cup {None}]]
    /\ table \in [Datasets -> Seq(Seq(Batch))]
    /\ edits \in 0..MaxEdits
    /\ step \in [Copies -> {"none", "idle", "copying", "committing", "ok", "failed"}]
    /\ source \in [Copies -> Seq(FileNames) \cup Seq(Batch)]
    /\ cursor \in [Copies -> Nat]
    /\ opened \in [Copies -> [file: FileNames, size: Nat, rows: Seq(Row \cup {Err})] \cup {None}]
    /\ stream \in [Copies -> Seq(Row \cup {Err})]
    /\ builder \in [Copies -> Batch]
    /\ outbox \in [Copies -> Seq(Batch)]
    /\ channel \in [Copies -> Seq(Batch)]
    /\ fragment \in [Copies -> Batch]
    /\ producer \in [Copies -> {"none", "running", "flushed", "finished", "failed"}]
    /\ base \in [Copies -> Nat]
    /\ landing \subseteq [copy: Copies, file: FileNames, chunk: Nat, data: Seq(Cell)]
    /\ \A c \in Copies :
          /\ source[c] \in IF FromTree(c) THEN Seq(FileNames) ELSE Seq(Batch)
          /\ cursor[c] <= Len(source[c])
          /\ Len(outbox[c]) <= 1
          /\ Len(channel[c]) <= MaxThreads

\* The rows that a file makes when nobody touches it, and those of a tree.
FileRows(f, content) ==
    [i \in 1..LastChunk(Len(content)) + 1 |-> Chunk(f, Len(content), content, i - 1)]
RowsOf(t) ==
    FlattenSeq([i \in 1..Len(Files) |->
                  IF tree[t][Files[i]] = None THEN <<>>
                  ELSE FileRows(Files[i], tree[t][Files[i]])])

\* Nobody changes what a copy reads: no edit, and no other copy into its tree.
Untouched(c) == edits = 0 /\ \A d \in Copies : step[d] # "none" => To[d] # From[c]

\* The rows that the k-th file or batch of a source makes.
Item(c, k) ==
    IF FromTree(c) THEN FileRows(source[c][k], tree[From[c]][source[c][k]])
    ELSE IntoVec(source[c][k])

\* A copy of a tree into a dataset that reports success has written the rows of the
\* files that it found each once and in order, through batches, channel and final
\* flush: all of them, unless the background task died of an error, which is dropped,
\* and then the rows up to some point.  Where everything can be read it has written
\* every file of the tree.
UploadIsComplete ==
    \A c \in Copies :
       step[c] = "ok" /\ ~ToTree(c) /\ FromTree(c) /\ Untouched(c)
          => LET rows == FlattenSeq([k \in 1..Len(source[c]) |-> Item(c, k)])
             IN  /\ IsPrefix(fragment[c], rows)
                 /\ producer[c] # "failed" => fragment[c] = rows
                 /\ c \notin Unreadable => fragment[c] = RowsOf(From[c])

\* Copying a dataset into a dataset keeps rows, data and order; only the metadata
\* may differ (see IntoVec).  A task that died of an unreadable batch leaves the
\* rows up to some point, and the copy reports success all the same.
TransferIsComplete ==
    \A c \in Copies :
       step[c] = "ok" /\ ~ToTree(c) /\ ~FromTree(c)
          => LET Bare(rows) == [i \in 1..Len(rows) |-> [rows[i] EXCEPT !.meta = None]]
                 rows == FlattenSeq(source[c])
             IN  /\ IsPrefix(Bare(fragment[c]), Bare(rows))
                 /\ producer[c] # "failed" \/ c \notin Unreadable
                       => Bare(fragment[c]) = Bare(rows)

\* A batch is larger than max_buffer_size only when a single row is.
BatchesFit ==
    \A c \in Copies : \A b \in Range(channel[c]) \cup Range(outbox[c]) \cup {builder[c]} :
       TotalSize(b) > MaxBuffer => Len(b) = 1

\* The rows of a copy that has reported success stay in the table, unless
\* another commit started from the same version, which UnsafeCommitHandler
\* lets overwrite it.
CommittedRowsStay ==
    \A c \in Copies :
       step[c] = "ok" /\ fragment[c] # <<>>
          => \/ fragment[c] \in Range(Latest(To[c]))
             \/ \E d \in Copies \ {c} : step[d] = "ok" /\ To[d] = To[c] /\ base[d] = base[c]

\* The tree that a copy writes to is written to by nobody else.
WritesAlone(c) == edits = 0 /\ \A d \in Copies \ {c} : step[d] # "none" => To[d] # To[c]

\* A row that is all of its file, which was not there, and that comes with the
\* file's size; no row before it in its batch upsets the metadata.
Simple(c, i, j) ==
    LET r == source[c][i][j]
    IN  /\ \A k \in 1..j : source[c][i][k].meta # None
        /\ r.meta["size"].n = Len(r.data)
        /\ \A b \in 1..Len(source[c]) : \A k \in 1..Len(source[c][b]) :
              source[c][b][k].file = r.file => b = i /\ k = j
        /\ InitialTree[To[c]][r.file] = None

\* A file of one chunk that is copied into a tree where it was not before
\* arrives as it was, when neither of the chunked rows that upset the metadata
\* of the rows behind them comes before it in its batch, and nobody else
\* writes there.  Where writes may fail it has its length at least, and nothing but
\* holes in the place of what is missing.  Writes of other files may be on their way
\* still.
Arrivals(c, data) == {Resize(part, Len(data)) : part \in Written(c, data)}

SimpleFilesArrive ==
    \A c \in Copies :
       step[c] = "ok" /\ ToTree(c) /\ ~FromTree(c) /\ WritesAlone(c)
       => \A i \in 1..Len(source[c]) : \A j \in 1..Len(source[c][i]) :
            Simple(c, i, j) =>
               LET r == source[c][i][j]
               IN  /\ tree[To[c]][r.file] \in Arrivals(c, r.data)
                   /\ c \notin Faults => tree[To[c]][r.file] = r.data

\* Every copy that has begun comes to an end, its background task with it, and
\* the writes it left behind land, whichever side fails first: nobody waits for
\* ever at a channel without a partner.
CopiesEnd ==
    <>[](/\ \A c \in Copies : step[c] \in {"none", "idle", "ok", "failed"}
                              /\ producer[c] \in {"none", "finished", "failed"}
         /\ landing = {})

\* What a copy promises: when it has ended well and its writes have landed,
\* the files of the other side are those of this side.
CopiesArrive ==
    \A c \in Copies :
       /\ step[c] = "ok" /\ ToTree(c) /\ FromTree(c) /\ edits = 0
       /\ landing = {}
       => \A f \in FileNames :
            tree[From[c]][f] # None => tree[To[c]][f] = tree[From[c]][f]
=============================================================================
