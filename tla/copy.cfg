SPECIFICATION FairSpec
CONSTANTS
    up = up
    relay = relay
    down = down
    local = local
    src = src
    dst = dst
    d1 = d1
    d2 = d2
    f1 = f1
    f2 = f2
    f3 = f3
    f4 = f4
    f5 = f5
    f6 = f6
    None = None
    Err = Err
    Copies = {up, relay, down, local}
    Together = {{up, relay}, {relay, down}, {down, local}}
    Trees = {src, dst}
    Datasets = {d1, d2}
    From <- CopyFrom
    To <- CopyTo
    Files <- SixFiles
    InitialTree <- SmallTree
    InitialTable <- OldTable
    MaxChunk = 2
    MaxBuffer = 2
    MaxThreads = 1
    Edited <- ChunkedFile
    Sizes = {1}
    MaxEdits = 1
    Unreadable = {up, relay, down}
    Faults = {up, down}
INVARIANTS CopyInv UploadIsComplete TransferIsComplete BatchesFit CommittedRowsStay SimpleFilesArrive
PROPERTY CopiesEnd
CHECK_DEADLOCK FALSE
