SPECIFICATION FairSpec
CONSTANTS
    r1 = r1
    r2 = r2
    large = large
    small = small
    Readers = {r1, r2}
    Objects = {large, small}
    Size <- Sizes
    RequestSizes = {1, 3}
    MinObjectSize = 3
    MaxTotal = 1
    Directory = Directory
    DirectorySize = 1
    MaxWrites = 1
    NotFound = NotFound
    Error = Error
    None = None
INVARIANTS CacheInv CacheBounded
PROPERTIES ReadsDoNotGoBack SoloReadsSucceed ReadsEnd
