---------------------------- MODULE MCChainLocks ----------------------------
(* Chain locks on a tree with two branches, a1-a2 and b1-b2.               *)
EXTENDS ChainLocks, TLC

CONSTANTS g, a1, a2, b1, b2

MCParent == (g :> g) @@ (a1 :> g) @@ (a2 :> a1) @@ (b1 :> g) @@ (b2 :> b1)
MCHeight == (g :> 0) @@ (a1 :> 1) @@ (a2 :> 2) @@ (b1 :> 1) @@ (b2 :> 2)
MCChain == (g :> {g}) @@ (a1 :> {g, a1}) @@ (a2 :> {g, a1, a2})
           @@ (b1 :> {g, b1}) @@ (b2 :> {g, b1, b2})

MCOtherShares == (g :> 0) @@ (a1 :> 1) @@ (a2 :> 2) @@ (b1 :> 0) @@ (b2 :> 0)

=============================================================================
