SPECIFICATION Spec
CONSTANTS
    Absent = Absent
    Untouched = Untouched
    NoBlock = NoBlock
    NoCommitment = NoCommitment
    Blocks <- MCBlocks
    Base = 0
    Parent <- MCParent
    Height <- MCHeight
    Chain <- MCChain
    Commitments <- MCCommitments
    Messages <- MCMessages
    Unconnectable = {7}
    DkgInterval = 3
    MiningWindowStart = 1
    MiningWindowEnd = 2
    CacheDkgInterval = 3
    CheckDepth = 1
INVARIANTS
    BlockProcessorIInv
    MiningRule
    ScanIsBranch
    MinableIsFound
PROPERTIES
    TipMovesWithEvoDB
    ImplementsMinedStore
