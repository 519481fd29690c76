SPECIFICATION MCSpec
CONSTANTS
    f1 = f1
    f2 = f2
    Files <- MCFiles
    Root = Root
    Nobody = Nobody
    Stray = Stray
    Cut = Cut
    Block = Block
    N = 6
    WordMod = 32
    Fat32 = TRUE
    MaxExpand = 2
SYMMETRY MCSymmetry
INVARIANTS NoCrossLink NoDanglingChain ChainsLinked NoLostCluster FreeCountExact
PROPERTIES OnlyOwnChain
