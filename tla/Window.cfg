SPECIFICATION MCSpec
CONSTANTS
    zero = zero
    used = used
    full = full
    Val <- MCVal
    Zero = zero
    Unknown = used
    Fat32Boot <- MCFat32Boot
    FatBase = 2
    FSize = 1
    NFats = 2
    CSize = 2
    NSect = 7
INVARIANTS WindowCoherent DirtyHasHome MirrorsAgree FsInfoClean
PROPERTIES ImplementsSectorStore SyncIsDurable
