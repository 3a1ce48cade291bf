------------------------------ MODULE MCSigning ------------------------------
(* Small instances of Signing for TLC.                                     *)
EXTENDS SigningInv, TLC

CONSTANTS a, b, c, q1, q2

\* Both quorums have the members a, b and c.
MCMembers == [q \in {q1, q2} |-> {a, b, c}]
MCKeyHolders == [q \in {q1, q2} |-> {a, b, c}]

\* q1 is selectable at heights 1 and 2, q2 from height 3 on.
MCQuorumHeight == (q1 :> 0) @@ (q2 :> 2)
MCMinedHeight == (q1 :> 1) @@ (q2 :> 3)
MCScore == [q \in {q1, q2} |-> [id \in Ids |-> IF q = q1 THEN 0 ELSE 1]]

\* No exchange of recovered signatures: every node recovers its own.
MCNoPeers == [n \in Nodes |-> {}]

MCSymmetry == Permutations(Msgs) \cup Permutations({a, b, c})

=============================================================================
