--------------------------- MODULE MCDatasetCopy ---------------------------
(* Small instances of DatasetCopy for TLC. *)
EXTENDS DatasetCopyInv

CONSTANTS up, relay, down, local, src, dst, d1, d2, f1, f2, f3, f4, f5, f6

\* A tree is uploaded to a dataset that is copied into itself at the same time,
\* and another dataset is downloaded; or the tree is copied into another.
CopyFrom == (up :> src) @@ (relay :> d1) @@ (down :> d2) @@ (local :> src)
CopyTo == (up :> d1) @@ (relay :> d1) @@ (down :> dst) @@ (local :> dst)

SixFiles == <<f1, f2, f3, f4, f5, f6>>
Absent == [f \in FileNames |-> None]

\* The tree holds a file of one chunk and one of two, the other is empty.
SmallTree == (src :> (f1 :> Fresh(1, 1) @@ f2 :> Fresh(1, 3) @@ Absent)) @@ (dst :> Absent)

ChunkedFile == {<<src, f2>>}

\* The fragment that an upload of these files has made.
Uploaded(t) == FlattenSeq([i \in 1..Len(Files) |->
                    IF Files[i] \in DOMAIN t THEN FileRows(Files[i], t[Files[i]]) ELSE <<>>])

\* One dataset with two small files, one with a chunked file among small ones.
OldTable ==
    (d1 :> << <<Uploaded(f3 :> Fresh(1, 1) @@ f4 :> Fresh(1, 1))>> >>)
    @@ (d2 :> << <<Uploaded(f1 :> Fresh(1, 2) @@ f2 :> Fresh(1, 4) @@ f3 :> Fresh(1, 1))>> >>)

\* A tree is copied into another.
LocalFrom == up :> src
LocalTo == up :> dst
=============================================================================
