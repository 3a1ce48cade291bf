SPECIFICATION Spec
CONSTANTS
    g = g
    a1 = a1
    a2 = a2
    b1 = b1
    b2 = b2
    NoBlock = NoBlock
    Nodes = {n1}
    Gamemasters = {n1}
    Blocks = {g, a1, a2, b1, b2}
    Genesis = g
    Parent <- MCParent
    Height <- MCHeight
    Chain <- MCChain
    Threshold = 2
    OtherShares <- MCOtherShares
    QueueLimit = 2
INVARIANTS
    ChainLocksIInv
    LockedChainActive
    LockedNeverFailed
    FailureIInv
