SPECIFICATION Spec
CONSTANTS
    a = a
    b = b
    c = c
    q1 = q1
    q2 = q2
    NoMsg = NoMsg
    NoSig = NoSig
    NoQuorum = NoQuorum
    Nodes = {a, b, c}
    Faulty = {}
    Ids = {i1}
    Msgs = {m1, m2}
    Quorums = {q1, q2}
    Members <- MCMembers
    KeyHolders <- MCKeyHolders
    QuorumHeight <- MCQuorumHeight
    MinedHeight <- MCMinedHeight
    Peers <- MCNoPeers
    Score <- MCScore
    Threshold = 2
    ActiveCount = 1
    SignOffset = 1
    MaxAge = 2
    MaxLag = 1
    MaxTime = 4
    ByteBase = 3
SYMMETRY MCSymmetry
INVARIANTS
    SigningIInv
    NoConflictInQuorum
    StoredSigsAreValid
PROPERTIES
    StoredSigIsKept
    ImplementsDecision
