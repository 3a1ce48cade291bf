----------------------------- MODULE MinedStore -----------------------------
(***************************************************************************)
(* What the EvoDB promises about quorum commitments: its content is a      *)
(* function of one block, it moves along the tree one block at a time, and *)
(* what is on disk is some content that was committed.  A crash takes it   *)
(* back to that.                                                           *)
(***************************************************************************)
CONSTANTS
    Blocks, Base, Parent,
    Content     \* Content[b]: what is mined on the branch of b

VARIABLES
    committed,  \* what every committed block has left
    durable     \* what survives a crash

vars == <<committed, durable>>

Init ==
    /\ committed = Content[Base]
    /\ durable = Content[Base]

Connect(b) ==
    /\ committed = Content[Parent[b]]
    /\ committed' = Content[b]
    /\ UNCHANGED durable

Disconnect(b) ==
    /\ committed = Content[b]
    /\ committed' = Content[Parent[b]]
    /\ UNCHANGED durable

Flush ==
    /\ durable' = committed
    /\ UNCHANGED committed

Crash ==
    /\ committed' = durable
    /\ UNCHANGED durable

Rebuild ==
    /\ committed' = Content[Base]
    /\ durable' = Content[Base]

Next ==
    \/ \E b \in Blocks \ {Base} : Connect(b) \/ Disconnect(b)
    \/ Flush
    \/ Crash
    \/ Rebuild

Spec == Init /\ [][Next]_vars

=============================================================================
