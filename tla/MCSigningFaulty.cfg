SPECIFICATION Spec
CONSTANTS
    a = a
    b = b
    c = c
    d = d
    q1 = q1
    NoMsg = NoMsg
    NoSig = NoSig
    NoQuorum = NoQuorum
    Nodes = {a, b, c, d}
    Faulty = {d}
    Ids = {i1}
    Msgs = {m1, m2}
    Quorums = {q1}
    Members <- MCMembers
    KeyHolders <- MCKeyHolders
    QuorumHeight <- MCQuorumHeight
    MinedHeight <- MCMinedHeight
    Peers <- MCPeers
    Score <- MCScore
    Threshold = 3
    ActiveCount = 1
    SignOffset = 1
    MaxAge = 1
    MaxLag = 1
    MaxTime = 1
    ByteBase = 2
SYMMETRY MCSymmetry
INVARIANTS
    SigningIInv
    NoConflictInQuorum
    StoredSigsAreValid
PROPERTIES
    ImplementsDecision
