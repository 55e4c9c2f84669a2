\* A film of nine bytes through a window of two blocks of two.
CONSTANTS
    Capacity = 4
    Block = 2
    File <- MCFile
    Starts <- MCStarts
    StreamEnds <- MCStreamEnds
    Sizes <- MCSizes
    MinChunk = 1
    MaxSkip = 1
    CardFails = TRUE
SPECIFICATION FairSpec
INVARIANTS
    WindowHoldsFile
    ReadsAreFileBytes
    ShortReadOnlyAtEnd
    FileHandover
    
PROPERTIES
    
    HaltEndsPlayback
