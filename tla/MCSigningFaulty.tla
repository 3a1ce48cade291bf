--------------------------- MODULE MCSigningFaulty ---------------------------
(* Signing with one faulty member out of four and an exchange of recovered *)
(* signatures: a receives from b and from the faulty node d.               *)
EXTENDS SigningInv, TLC

CONSTANTS a, b, c, d, q1

MCMembers == q1 :> {a, b, c, d}
MCKeyHolders == q1 :> {a, b, c, d}

\* q1 is mined at height 1 and selectable from there on.
MCQuorumHeight == q1 :> 0
MCMinedHeight == q1 :> 1
MCScore == q1 :> [id \in Ids |-> 0]

MCPeers == (a :> {b, d}) @@ (b :> {}) @@ (c :> {}) @@ (d :> {})

MCSymmetry == Permutations(Msgs)

=============================================================================
