-------------------------- MODULE MCChainLocksSmall --------------------------
(* Chain locks on a small tree: the locked block a1 against the longer     *)
(* branch b1-b2.                                                           *)
EXTENDS ChainLocks, TLC

CONSTANTS g, a1, b1, b2

MCParent == (g :> g) @@ (a1 :> g) @@ (b1 :> g) @@ (b2 :> b1)
MCHeight == (g :> 0) @@ (a1 :> 1) @@ (b1 :> 1) @@ (b2 :> 2)
MCChain == (g :> {g}) @@ (a1 :> {g, a1}) @@ (b1 :> {g, b1}) @@ (b2 :> {g, b1, b2})
MCOtherShares == (g :> 0) @@ (a1 :> 2) @@ (b1 :> 0) @@ (b2 :> 0)
=============================================================================
