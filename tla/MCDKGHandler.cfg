SPECIFICATION FairSpec
CONSTANTS
    Interval = 13
    PhaseBlocks = 2
    Branches = {x, y}
    None = None
    MaxHeight = 14
    MaxBack = 1
INVARIANTS HandlerIInv ContributesOnce CalmRoundFinishes CalmIInv
PROPERTIES FollowsTip
