-------------------------- MODULE BlockProcessorInv --------------------------
(***************************************************************************)
(* Properties of module BlockProcessor, its inductive invariant, and the   *)
(* mapping under which it implements MinedStore.                           *)
(***************************************************************************)
EXTENDS BlockProcessor

\* Blocks of the branch of b with a non-null commitment for quorum q.
MinedIn(b, q) == {x \in Chain[b] : \E c \in RealCommitments(x) : c.quorum = q}
OwnCommitment(x) == CHOOSE c \in RealCommitments(x) : TRUE
MinedAtHeight(b, h) == {x \in Chain[b] : Height[x] = h /\ RealCommitments(x) # {}}

\* The values stored for the one block of S, if there is one.
MinedValue(S) ==
    IF S = {} THEN Absent
    ELSE LET x == CHOOSE x \in S : TRUE
         IN  [qc |-> OwnCommitment(x), block |-> x]
HeightValue(S) ==
    IF S = {} THEN Absent ELSE Height[OwnCommitment(CHOOSE x \in S : TRUE).quorum]

MinedEntry(b, q) == MinedValue(MinedIn(b, q))
HeightEntry(b, h) == HeightValue(MinedAtHeight(b, h))

Entry(b, k) ==
    CASE k[1] = "b_b" -> b
      [] k[1] = "q_mc" -> MinedEntry(b, k[2])
      [] k[1] = "q_mcih" -> HeightEntry(b, k[2])

\* What the database should hold when its best block is b.
BranchContent == [b \in Blocks |-> [k \in Keys |-> Entry(b, k)]]

\* Block b has one commitment if it is in the mining window of a session that
\* has no non-null commitment on the branch yet, and none otherwise; and it is
\* for that session's quorum.
FollowsRule(b) ==
    LET prev == Parent[b]
        start == SessionStart(Height[b])
        q == AtHeight(prev, start)
    IN  /\ Commitments[b] # {} <=> /\ start <= Height[prev]
                                   /\ IsMiningPhase(Height[b])
                                   /\ MinedIn(prev, q) = {}
        /\ \A c \in Commitments[b] : c.quorum = q
        /\ \A c, d \in Commitments[b] : c = d
ValidBranch(b) == \A x \in Chain[b] \ {Base} : FollowsRule(x)
-----------------------------------------------------------------------------
TypeOK ==
    /\ node \in {"running", "down", "replayed", "corrupt", "faulted"}
    /\ tip \in Blocks \cup {NoBlock}
    /\ db = [k \in Keys |-> db[k]] /\ \A k \in Keys : db[k] # Untouched
    /\ batch = [k \in Keys |-> batch[k]]
    /\ root = [k \in Keys |-> root[k]]
    /\ cur = [k \in Keys |-> cur[k]]
    /\ coins \in [block : Blocks, from : Blocks]
    /\ task \in [stage : {"idle", "processed", "undone", "flush", "partial", "coins",
                          "batch"},
                 block : Blocks \cup {NoBlock}, stop : BOOLEAN]
    /\ byQuorum \in [Blocks -> Commitment \cup {NoCommitment}]
    /\ minable \in SUBSET Commitment
    /\ message \in [stage : {"none", "checked", "verified"},
                    qc : Commitment \cup {NoCommitment}]

\* Each layer holds the content of a valid branch.
LayersInv ==
    /\ db[BestBlock] \in Blocks
    /\ db = BranchContent[db[BestBlock]]
    /\ ValidBranch(db[BestBlock])
    /\ Committed[BestBlock] \in Blocks
    /\ Committed = BranchContent[Committed[BestBlock]]
    /\ ValidBranch(Committed[BestBlock])
    /\ ValidBranch(coins.block)
    /\ ValidBranch(coins.from)

\* The block transaction holds what the block at hand has written so far.
TaskInv ==
    /\ task = NoTask => cur = Clean
    /\ task.stage = "idle" <=> task = NoTask
    /\ task.stage = "processed" =>
          /\ task.block \in Blocks \ {Base}
          /\ Parent[task.block] = tip
          /\ Committed[BestBlock] = tip
          /\ FollowsRule(task.block)
          /\ \/ RealCommitments(task.block) = {} /\ cur = Clean
             \/ \E c \in RealCommitments(task.block) :
                    cur = WriteMined(Clean, task.block, c)
    /\ task.stage = "undone" =>
          /\ task.block = tip
          /\ tip # Base
          /\ Committed[BestBlock] = tip
          /\ \/ RealCommitments(tip) = {} /\ cur = Clean
             \/ \E c \in RealCommitments(tip) : cur = EraseMined(Clean, tip, c)
    /\ task.stage \in {"flush", "partial", "coins", "batch"} =>
          /\ cur = Clean
          /\ task.block \in {tip, Committed[BestBlock]}
    /\ task.stage = "batch" => root = Clean
    /\ task.stage # "batch" => batch = Clean

NodeInv ==
    /\ node = "running" => /\ tip \in Blocks
                           /\ ValidBranch(tip)
                           /\ TaskInv
    /\ node # "running" => /\ task = NoTask
                           /\ batch = Clean
                           /\ root = Clean
                           /\ byQuorum = NoMinable
                           /\ minable = {}
                           /\ message = NoMessage
                           /\ tip = NoBlock
    /\ node \in {"down", "corrupt", "faulted"} => cur = Clean
    /\ node = "replayed" => /\ cur = Write(Clean, BestBlock, coins.block)
                            /\ coins.from = coins.block
    /\ message.stage # "none" => message.qc \in Messages
    /\ message.stage = "none" => message = NoMessage

\* GetMinableCommitment looks the commitment of a quorum up with at(): every hash
\* in minableCommitmentsByQuorum is a key of minableCommitments, and that
\* commitment is for the quorum, whatever the threads add, mine and undo.
MinableIsFound ==
    \A q \in Blocks : byQuorum[q] # NoCommitment =>
                        byQuorum[q] \in minable /\ byQuorum[q].quorum = q

\* The inductive invariant: types, and at every stage of a block, a flush, a
\* crash or a start-up LevelDB, and what is committed over it, hold exactly the
\* content of the branch of their best block (ConnectTip, DisconnectTip,
\* FlushStateToDisk, ReplayBlocks, VerifyDB).
BlockProcessorIInv == TypeOK /\ LayersInv /\ NodeInv /\ MinableIsFound
-----------------------------------------------------------------------------
\* The rule of CQuorumBlockProcessor::ProcessBlock, stated on the chain and not
\* on the database it is checked with: in the mining window there is a commitment
\* until the first non-null one, and none after it; so a quorum is mined once.
MiningRule == tip # NoBlock => ValidBranch(tip)

\* Readers call GetMinedCommitmentsUntilBlock without cs_main, while a block is
\* connected or disconnected and while coins are flushed.  For a block that is on
\* the active chain and on the branch of the database, and is not being undone,
\* they get what is mined on its branch, unless the scan falls into
\* CommitRootTransaction.  That takes no lock on the EvoDB: until its batch is
\* written, what was committed since the last flush is in no layer a scan reads,
\* and a scan misses it.
ScanIsBranch ==
    \A p \in Blocks : \A n \in 1 .. 2 :
        /\ node = "running" /\ p \in Chain[tip] /\ p \in Chain[Committed[BestBlock]]
        /\ ~(task.stage = "undone" /\ p = tip)
        /\ task.stage # "batch"
        => LET mined == {<<Height[x], OwnCommitment(x).quorum>> :
                            x \in {x \in Chain[p] : RealCommitments(x) # {}}}
           IN  GetMinedCommitmentsUntilBlock(p, n) =
                 {m \in mined : Cardinality({o \in mined : o[1] > m[1]}) < n}

\* The tip of a running node only moves to the block the EvoDB has committed, also
\* after a start-up that left the two apart (VerifyBestBlock in ConnectBlock and
\* DisconnectBlock).
TipMovesWithEvoDB ==
    [][node = "running" /\ node' = "running" /\ tip' # tip
        => Committed'[BestBlock] = tip']_vars

\* ReplayBlocks applies to the databases what an interrupted flush left out: when
\* the node is up and no block is at hand, the EvoDB is at the tip.
RunningMatchesTip == Idle => View[BestBlock] = tip

Mined == INSTANCE MinedStore
            WITH Content <- BranchContent, committed <- Committed, durable <- db
\* The EvoDB is a function of a branch, moves one block at a time, and falls back
\* to what was last flushed: connect, disconnect, flush and crash implement
\* MinedStore.
ImplementsMinedStore == Mined!Spec

=============================================================================
