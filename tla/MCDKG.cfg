SPECIFICATION Spec
CONSTANTS
    Honest = {h1, h2, h3}
    Faulty = {f1}
    MinSize = 3
    Threshold = 2
    BadVotes = 2
    None = None
    MaxFaults = 1
    MaxTargets = 1
SYMMETRY Symmetry
INVARIANTS IInv FinalUnique FinalHasShares RoundSucceeds SameViewSameVerdict VerdictIInv RoundIInv
CHECK_DEADLOCK FALSE
