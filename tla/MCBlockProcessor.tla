-------------------------- MODULE MCBlockProcessor --------------------------
(* Intervals of three blocks with commitments at heights 1, 2 and 4, 5.    *)
(* Branch 2-4 mines the commitment for Base at height 1, branch 1-3-8-9 a  *)
(* null one first, then another commitment for Base, then that of block 8. *)
(* Blocks 5 and 6 break the rule; block 7 fails after it was processed.    *)
EXTENDS BlockProcessorInv, TLC

MCBlocks == 0 .. 9
MCParent == (0 :> 0) @@ (1 :> 0) @@ (2 :> 0) @@ (3 :> 1) @@ (4 :> 2) @@ (5 :> 2)
            @@ (6 :> 0) @@ (7 :> 0) @@ (8 :> 3) @@ (9 :> 8)
MCHeight == (0 :> 0) @@ (1 :> 1) @@ (2 :> 1) @@ (3 :> 2) @@ (4 :> 2) @@ (5 :> 2)
            @@ (6 :> 1) @@ (7 :> 1) @@ (8 :> 3) @@ (9 :> 4)
MCChain == (0 :> {0}) @@ (1 :> {0, 1}) @@ (2 :> {0, 2}) @@ (3 :> {0, 1, 3})
           @@ (4 :> {0, 2, 4}) @@ (5 :> {0, 2, 5}) @@ (6 :> {0, 6}) @@ (7 :> {0, 7})
           @@ (8 :> {0, 1, 3, 8}) @@ (9 :> {0, 1, 3, 8, 9})

QC(q, signers, of) == [quorum |-> q, signers |-> signers, of |-> of]
MCCommitments == (0 :> {}) @@ (1 :> {QC(0, 0, 0)}) @@ (2 :> {QC(0, 2, 1)})
                 @@ (3 :> {QC(0, 1, 2)}) @@ (4 :> {}) @@ (5 :> {QC(0, 1, 2)})
                 @@ (6 :> {}) @@ (7 :> {QC(0, 2, 1)}) @@ (8 :> {}) @@ (9 :> {QC(8, 2, 3)})
MCMessages == {QC(0, 2, 1), QC(0, 1, 2)}

=============================================================================
