SPECIFICATION Spec
CONSTANTS
    up = up
    relay = relay
    down = down
    local = local
    src = src
    dst = dst
    d1 = d1
    d2 = d2
    f1 = f1
    f2 = f2
    f3 = f3
    f4 = f4
    f5 = f5
    f6 = f6
    None = None
    Err = Err
    Copies = {up}
    Together = {{up}}
    Trees = {src, dst}
    Datasets = {d1, d2}
    From <- LocalFrom
    To <- LocalTo
    Files <- SixFiles
    InitialTree <- SmallTree
    InitialTable <- OldTable
    MaxChunk = 2
    MaxBuffer = 2
    MaxThreads = 1
    Edited = {}
    Sizes = {1}
    MaxEdits = 1
    Unreadable = {}
    Faults = {}
INVARIANT CopiesArrive
CHECK_DEADLOCK FALSE
