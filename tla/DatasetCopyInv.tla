----------------------------- MODULE DatasetCopyInv -----------------------------
(***************************************************************************)
(* The inductive invariant of DatasetCopy: the shape of what is under way, *)
(* which versions of a table hold what a copy has committed, and that no   *)
(* row is lost on its way into a dataset or a tree.                        *)
(***************************************************************************)
EXTENDS DatasetCopy

\* No more rows are made of a file than it has chunks, so that the next one
\* begins within the size that was found.
OpenedOK ==
    \A c \in Copies : opened[c] # None =>
       /\ FromTree(c)
       /\ tree[From[c]][opened[c].file] \in Seq(Cell)
       /\ Len(opened[c].rows) <= LastChunk(opened[c].size)

\* The files that a copy has found stay there: files change, but none is removed.
SourceOK ==
    \A c \in Copies : FromTree(c) =>
       \A i \in 1..Len(source[c]) : tree[From[c]][source[c][i]] \in Seq(Cell)

\* A copy that has not begun has loaded nothing and spawned no task.
IdleOK ==
    \A c \in Copies : step[c] = "idle" =>
       cursor[c] = 0 /\ producer[c] = "none" /\ outbox[c] = <<>>

\* A write left behind goes to a file that is there.
LandingOK ==
    \A w \in landing : ToTree(w.copy) /\ tree[To[w.copy]][w.file] \in Seq(Cell)

\* A copy into a tree has no background task.
TreesOnly ==
    \A c \in Copies : ToTree(c) =>
       /\ step[c] # "committing"
       /\ producer[c] = "none"
       /\ builder[c] = <<>> /\ outbox[c] = <<>> /\ channel[c] = <<>> /\ fragment[c] = <<>>

\* Another commit began from the same version and has been made.
Rivalled(c) == \E d \in Copies \ {c} : step[d] = "ok" /\ To[d] = To[c] /\ base[d] = base[c]

\* A commit finds the version it began from, and a later one only when a rival
\* has made it; what it has made is in that version and all that follow, unless
\* it has a rival.
CommitsOK ==
    \A c \in Copies : ~ToTree(c) =>
       /\ step[c] \in {"committing", "ok"} => base[c] <= Len(table[To[c]])
       /\ step[c] = "committing" /\ base[c] < Len(table[To[c]]) => Rivalled(c)
       /\ step[c] = "ok" => base[c] < Len(table[To[c]])
       /\ step[c] = "ok" /\ fragment[c] # <<>> =>
             \/ Rivalled(c)
             \/ \A n \in base[c] + 1..Len(table[To[c]]) : fragment[c] \in Range(table[To[c]][n])

Inv == TypeOK /\ OpenedOK /\ SourceOK /\ IdleOK /\ LandingOK /\ TreesOnly /\ CommitsOK

----------------------------------------------------------------------------
(* What flows from a tree or a dataset into a dataset. *)

\* A write is left behind by a copy that is run.
LandingOfRun == \A w \in landing : step[w.copy] # "none"

\* How many of the files and batches of the source have been handed over.
HandedOver(c) == IF opened[c] = None THEN cursor[c] ELSE cursor[c] - 1

\* The rows that are in the hands of the builder, the channel and Lance.
Sent(c) ==
    ((fragment[c] \o FlattenSeq(channel[c])) \o FlattenSeq(outbox[c])) \o builder[c]

\* What has been loaded is what was to be loaded, or follows it up to an error.
Breaks(s, rows) ==
    \E n \in 1..Len(s) : s[n] = Err /\ n - 1 <= Len(rows) /\ \A i \in 1..n - 1 : s[i] = rows[i]
Follows(c, s, rows) == s = rows \/ (c \in Unreadable /\ Breaks(s, rows))

\* The files that are read are those that glob has found.
ReadsListed(c) ==
    FromTree(c) /\ step[c] \notin {"none", "idle"} =>
       \E seen \in Seen(c) : source[c] = Listed(From[c], seen)

\* What has been read of an opened file agrees with what the file makes.
OpenedFlows(c) == opened[c] # None =>
    /\ stream[c] = <<>>
    /\ cursor[c] # 0
    /\ LET f == opened[c].file
           content == tree[From[c]][f]
       IN  /\ f = source[c][cursor[c]]
           /\ opened[c].size = Len(content)
           /\ Follows(c, opened[c].rows,
                      SubSeq(FileRows(f, content), 1, Len(opened[c].rows)))

\* No row is lost, doubled or overtaken between the source and the fragment.
InOrder(c) ==
    Follows(c, Sent(c) \o stream[c], FlattenSeq([k \in 1..HandedOver(c) |-> Item(c, k)]))

\* Whoever ends has nothing left, unless it died of an error.
EndsEmpty(c) ==
    /\ producer[c] = "failed" => c \in Unreadable /\ outbox[c] = <<>>
    /\ producer[c] \in {"flushed", "finished"} =>
          Exhausted(c) /\ stream[c] = <<>> /\ builder[c] = <<>>
    /\ producer[c] = "finished" => outbox[c] = <<>>
    /\ step[c] \in {"committing", "ok"} =>
          producer[c] \in {"finished", "failed"} /\ channel[c] = <<>>

Flows(c) == ReadsListed(c) /\ OpenedFlows(c) /\ InOrder(c) /\ EndsEmpty(c)

\* So it is in a copy into a dataset that has not failed, when nobody touches the
\* tree that it reads.
Flowing(c) == ~ToTree(c) /\ step[c] # "failed" /\ (FromTree(c) => Untouched(c)) => Flows(c)

FlowInv == LandingOfRun /\ \A c \in Copies : Flowing(c)

----------------------------------------------------------------------------
(* What flows from a dataset into a tree. *)

\* The rows before this one and the row itself have been given to `dump'.
Dumped(c, i, j) ==
    \/ i < cursor[c]
    \/ i = cursor[c] /\ j + Len(stream[c]) <= Len(source[c][i])

\* What is left of the batch that was loaded last.
RestOf(rows, n) == SubSeq(rows, Len(rows) - n + 1, Len(rows))
LoadedRows(c) == IF cursor[c] = 0 THEN <<>> ELSE IntoVec(source[c][cursor[c]])

\* A simple file is as it was in the dataset once its row has been dumped, and is not
\* there before; no write of it is left behind.
RowsArrive(c) ==
    \A i \in 1..Len(source[c]) : \A j \in 1..Len(source[c][i]) :
       Simple(c, i, j) =>
          LET r == source[c][i][j]
          IN  /\ tree[To[c]][r.file] \in IF Dumped(c, i, j) THEN Arrivals(c, r.data) ELSE {None}
              /\ \A w \in landing : w.copy = c => w.file # r.file

Arrives(c) ==
    /\ step[c] = "idle" =>
          tree[To[c]] = InitialTree[To[c]] /\ \A w \in landing : w.copy # c
    /\ Len(stream[c]) <= Len(LoadedRows(c))
    /\ stream[c] = RestOf(LoadedRows(c), Len(stream[c]))
    /\ step[c] = "ok" => stream[c] = <<>> /\ cursor[c] = Len(source[c])
    /\ RowsArrive(c)

\* So it is in a tree that nobody else writes to, as long as nothing has failed; and no
\* copy into a tree ends well before its last row.
Lost(c) == step[c] = "failed" \/ stream[c] = <<Err>>
EndsWell == \A c \in Copies : ToTree(c) /\ step[c] = "ok" => stream[c] = <<>>
ArriveInv ==
    /\ EndsWell
    /\ \A c \in Copies : ToTree(c) /\ ~FromTree(c) /\ WritesAlone(c) /\ ~Lost(c) => Arrives(c)

CopyInv == Inv /\ FlowInv /\ ArriveInv

=============================================================================
