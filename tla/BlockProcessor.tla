--------------------------- MODULE BlockProcessor ---------------------------
(***************************************************************************)
(* Quorum commitments in blocks: CQuorumBlockProcessor                     *)
(* (llmq/quorums_blockprocessor.cpp) over the EvoDB, with the parts of     *)
(* validation.cpp and init.cpp that connect, disconnect, flush, replay and *)
(* verify blocks.  One node.                                               *)
(*                                                                         *)
(* The thread that holds cs_main works on a task: a block is processed or  *)
(* undone in the block transaction ("processed", "undone"); the            *)
(* transaction is committed and FlushStateToDisk called ("flush"), which   *)
(* may write the coins in several batches ("partial"), has then written    *)
(* all of them ("coins"), and commits the root transaction last.  That is  *)
(* two steps, with no lock on the EvoDB: the root transaction is emptied   *)
(* into a batch ("batch"), and the batch written to LevelDB.  The message  *)
(* thread and the DKG thread work on minable commitments meanwhile.  The   *)
(* process may die between any two steps.                                  *)
(*                                                                         *)
(* Abstractions.  One LLMQ type: every key carries the type.  The tree     *)
(* starts at Base, the first block of a DKG interval after v6 activation,  *)
(* and never reorganised away; the entries of older blocks are left out.   *)
(* Which branch has most work, and whether a block is valid for other      *)
(* reasons, is up to the environment.  Signatures of commitments verify:   *)
(* one that does not is dropped before any state is read or changed.  DKG  *)
(* maintenance (SPORK_22) is off.                                          *)
(***************************************************************************)
EXTENDS EvoDB, Integers, FiniteSets

CONSTANTS
    Blocks,
    Base,
    Parent,             \* Parent[b]: the block before b (Base for itself)
    Height,             \* Height[b]
    Chain,              \* Chain[b]: b and its ancestors, down to Base
    Commitments,        \* Commitments[b]: commitments in the transactions of b
    Messages,           \* commitments that peers send or the DKG produces
    Unconnectable,      \* blocks that fail after their commitments are processed
    DkgInterval, MiningWindowStart, MiningWindowEnd, CacheDkgInterval,
    CheckDepth,         \* -checkblocks
    NoBlock, NoCommitment

\* signers = 0: a null commitment.  "of" tells commitments of a quorum apart.
Commitment == [quorum : Blocks, signers : Nat, of : Nat]

\* The height at which the DKG session of a block at height h starts.
SessionStart(h) == h - (h % DkgInterval)

ASSUME TreeAssumption ==
    /\ Base \in Blocks /\ NoBlock \notin Blocks
    /\ Parent \in [Blocks -> Blocks]
    /\ Height \in [Blocks -> Nat]
    /\ Chain \in [Blocks -> SUBSET Blocks]
    /\ Chain[Base] = {Base}
    /\ \A b \in Blocks \ {Base} : /\ Height[b] = Height[Parent[b]] + 1
                                  /\ Chain[b] = Chain[Parent[b]] \cup {b}
    /\ \A b \in Blocks : \A x \in Chain[b] : Chain[x] \subseteq Chain[b]
    /\ \A b \in Blocks : \A x, y \in Chain[b] : Height[x] = Height[y] => x = y
    /\ \A b \in Blocks : \A x \in Chain[b] : Height[x] <= Height[b]
    /\ \A b \in Blocks : \A h \in Height[Base] .. Height[b] :
                                        \E x \in Chain[b] : Height[x] = h
    /\ \A b \in Blocks : SessionStart(Height[b]) \in Height[Base] .. Height[b]

ASSUME CommitmentAssumption ==
    /\ Commitments \in [Blocks -> SUBSET Commitment]
    /\ Commitments[Base] = {}
    /\ Messages \subseteq {c \in Commitment : c.signers > 0}
    /\ NoCommitment \notin Commitment
    /\ DkgInterval \in Nat \ {0}
    /\ MiningWindowStart \in Nat /\ MiningWindowEnd \in Nat
    /\ CacheDkgInterval \in Nat /\ CheckDepth \in Nat

VARIABLES
    node,       \* "running"; "down"; "replayed" (in start-up, after ReplayBlocks);
                \* "corrupt" (told to reindex); "faulted" (died in ReplayBlocks)
    tip,        \* chainActive.Tip()
    db, root, cur,  \* the layers of the EvoDB
    batch,      \* rootBatch: taken from the root transaction, not yet in LevelDB
    coins,      \* coins database: its block, and the one a flush started from
    task,       \* what the holder of cs_main is doing
    byQuorum,   \* minableCommitmentsByQuorum
    minable,    \* minableCommitments
    message     \* the commitment the message thread is at, and how far it is

evoVars == <<db, batch, root, cur>>
minableVars == <<byQuorum, minable>>
vars == <<node, tip, evoVars, coins, task, minableVars, message>>
-----------------------------------------------------------------------------
(* Keys and values of the database.                                        *)

BestBlock == <<"b_b", 0>>
MinedKey(q) == <<"q_mc", q>>
HeightKey(h) == <<"q_mcih", h>>
Keys == {BestBlock} \cup {MinedKey(q) : q \in Blocks}
        \cup {HeightKey(Height[b]) : b \in Blocks}
MinedRecord == [qc : Commitment, block : Blocks]

ASSUME MarkersAssumption ==
    /\ Untouched # Absent
    /\ Untouched \notin Blocks /\ Untouched \notin MinedRecord /\ Untouched \notin Nat
    /\ Absent \notin Blocks /\ Absent \notin MinedRecord /\ Absent \notin Nat

Clean == Clear(Keys)
\* What committed blocks have left, and what of it a reader can see: not the
\* batch.  View adds the block transaction.
Committed == Over(root, Over(batch, db))
Visible == Over(root, db)
View == Over(cur, Visible)

\* The non-null commitments of a block.
RealCommitments(b) == {c \in Commitments[b] : c.signers > 0}

WriteMined(tx, b, c) ==
    Write(Write(tx, MinedKey(c.quorum), [qc |-> c, block |-> b]),
          HeightKey(Height[b]), Height[c.quorum])

\* Mutant: the entry by height stays.
EraseMined_KeepsHeight(tx, b, c) == Erase(tx, MinedKey(c.quorum))

EraseMined(tx, b, c) ==
    Erase(Erase(tx, MinedKey(c.quorum)), HeightKey(Height[b]))
-----------------------------------------------------------------------------
(* The queries of the block processor.                                     *)

AtHeight(b, h) == CHOOSE x \in Chain[b] : Height[x] = h

\* NoBlock for the first block of an interval: it is the quorum's own block.
GetQuorumBlockHash(h) ==
    IF SessionStart(h) > Height[tip] THEN NoBlock ELSE AtHeight(tip, SessionStart(h))

IsMiningPhase(h) == h % DkgInterval \in MiningWindowStart .. MiningWindowEnd

HasMinedCommitment(q) == View[MinedKey(q)] # Absent

\* Mutant: does not ask whether the session's commitment is mined.
IsCommitmentRequired_AnyTime(h) ==
    GetQuorumBlockHash(h) # NoBlock /\ IsMiningPhase(h)


IsCommitmentRequired(h) ==
    LET q == GetQuorumBlockHash(h)
    IN  q # NoBlock /\ IsMiningPhase(h) /\ ~HasMinedCommitment(q)

HasBetterMinableCommitment(c) ==
    LET known == byQuorum[c.quorum]
    IN  known \in minable /\ known.signers >= c.signers

\* The pairs <<mined height, quorum block>> of the newest n commitments up to
\* block p; the code returns the quorum blocks in this order, newest first.
GetMinedCommitmentsUntilBlock(p, n) ==
    LET found == {Height[b] : b \in {b \in Blocks :
                    /\ Height[b] > 0
                    /\ Height[b] <= Height[p]
                    /\ View[HeightKey(Height[b])] # Absent}}
        newest == {h \in found : Cardinality({g \in found : g > h}) < n}
    IN  {<<h, AtHeight(p, View[HeightKey(h)])>> : h \in newest}

VerifyLLMQCommitment(c, prev) ==
    /\ Height[c.quorum] % DkgInterval = 0
    /\ Height[prev] - Height[c.quorum] <= CacheDkgInterval
    /\ c.quorum \in Chain[prev]

\* The checks of CheckSpecialTx, ProcessBlock and ProcessCommitment on a block
\* on top of the tip.
CommitmentsAccepted(b) ==
    /\ \A c \in Commitments[b] : VerifyLLMQCommitment(c, Parent[b])
    /\ \A c, d \in Commitments[b] : c = d
    /\ Commitments[b] # {} <=> IsCommitmentRequired(Height[b])
    /\ \A c \in Commitments[b] : c.quorum = GetQuorumBlockHash(Height[b])
-----------------------------------------------------------------------------
Task(stage, b, stop) == [stage |-> stage, block |-> b, stop |-> stop]
NoTask == Task("idle", NoBlock, FALSE)
NoMessage == [stage |-> "none", qc |-> NoCommitment]
NoMinable == [q \in Blocks |-> NoCommitment]

Init ==
    /\ node = "running"
    /\ tip = Base
    /\ db = [k \in Keys |-> IF k = BestBlock THEN Base ELSE Absent]
    /\ batch = Clean
    /\ root = Clean
    /\ cur = Clean
    /\ coins = [block |-> Base, from |-> Base]
    /\ task = NoTask
    /\ byQuorum = NoMinable
    /\ minable = {}
    /\ message = NoMessage

Idle == node = "running" /\ task = NoTask

\* Mutant: the known commitment of the quorum is kept, only its hash removed.
AddMinable_KeepsKnown(c) ==
    /\ byQuorum' = IF byQuorum[c.quorum] = NoCommitment
                   THEN [byQuorum EXCEPT ![c.quorum] = c] ELSE byQuorum
    /\ minable' = (minable \ {byQuorum[c.quorum]}) \cup {c}


\* AddAndRelayMinableCommitment
AddMinable(c) ==
    /\ byQuorum' = [byQuorum EXCEPT ![c.quorum] = c]
    /\ minable' = (minable \ {byQuorum[c.quorum]}) \cup {c}

\* The memory of the process is gone; it is left in state s.
Stopped(s) ==
    /\ node' = s
    /\ tip' = NoBlock
    /\ batch' = Clean
    /\ root' = Clean
    /\ cur' = Clean
    /\ task' = NoTask
    /\ byQuorum' = NoMinable
    /\ minable' = {}
    /\ message' = NoMessage
-----------------------------------------------------------------------------
(* Connecting and disconnecting blocks, and flushing.                      *)

\* Mutant: VerifyBestBlock is not called.
ProcessBlock_AnyBest(b) ==
    /\ Idle
    /\ Parent[b] = tip
    /\ CommitmentsAccepted(b)
    /\ task' = Task("processed", b, FALSE)
    /\ \/ RealCommitments(b) = {} /\ UNCHANGED <<cur, minableVars>>
       \/ \E c \in RealCommitments(b) :
            /\ cur' = WriteMined(cur, b, c)
            /\ byQuorum' = [byQuorum EXCEPT ![c.quorum] = NoCommitment]
            /\ minable' = minable \ {c}
    /\ UNCHANGED <<node, tip, db, batch, root, coins, message>>


\* ConnectTip up to the end of CQuorumBlockProcessor::ProcessBlock.
ProcessBlock(b) ==
    /\ Idle
    /\ Parent[b] = tip
    /\ View[BestBlock] = tip
    /\ CommitmentsAccepted(b)
    /\ task' = Task("processed", b, FALSE)
    /\ \/ RealCommitments(b) = {} /\ UNCHANGED <<cur, minableVars>>
       \/ \E c \in RealCommitments(b) :
            /\ cur' = WriteMined(cur, b, c)
            /\ byQuorum' = [byQuorum EXCEPT ![c.quorum] = NoCommitment]
            /\ minable' = minable \ {c}
    /\ UNCHANGED <<node, tip, db, batch, root, coins, message>>

\* Mutant: the block transaction is not rolled back.
ConnectFails_NoRollback ==
    /\ task.stage = "processed"
    /\ task.block \in Unconnectable
    /\ task' = NoTask
    /\ UNCHANGED <<node, tip, evoVars, coins, minableVars, message>>


\* The rest of ConnectBlock fails: the block transaction is rolled back, the
\* minable commitments stay dropped.
ConnectFails ==
    /\ task.stage = "processed"
    /\ task.block \in Unconnectable
    /\ cur' = Clean
    /\ task' = NoTask
    /\ UNCHANGED <<node, tip, db, batch, root, coins, minableVars, message>>

\* Mutant: WriteBestBlock is forgotten.
CommitBlock_NoBestBlock(b) ==
    /\ root' = Over(cur, root)
    /\ cur' = Clean
    /\ task' = Task("flush", b, FALSE)
    /\ UNCHANGED <<node, tip, db, batch, coins, minableVars, message>>


\* WriteBestBlock and the commit of the block transaction.
CommitBlock(b) ==
    /\ root' = Over(Write(cur, BestBlock, b), root)
    /\ cur' = Clean
    /\ task' = Task("flush", b, FALSE)
    /\ UNCHANGED <<node, tip, db, batch, coins, minableVars, message>>

ConnectCommits ==
    /\ task.stage = "processed"
    /\ task.block \notin Unconnectable
    /\ CommitBlock(task.block)

\* DisconnectTip up to the end of CQuorumBlockProcessor::UndoBlock.
UndoBlock ==
    /\ Idle
    /\ tip # Base
    /\ View[BestBlock] = tip
    /\ task' = Task("undone", tip, FALSE)
    /\ \/ RealCommitments(tip) = {} /\ UNCHANGED <<cur, minableVars>>
       \/ \E c \in RealCommitments(tip) :
            /\ cur' = EraseMined(cur, tip, c)
            /\ IF HasBetterMinableCommitment(c)
               THEN UNCHANGED minableVars
               ELSE AddMinable(c)
    /\ UNCHANGED <<node, tip, db, batch, root, coins, message>>

DisconnectCommits ==
    /\ task.stage = "undone"
    /\ CommitBlock(Parent[task.block])

\* ConnectBlock (of ConnectTip or TestBlockValidity) or DisconnectBlock finds
\* the EvoDB at another block: AbortNode, and the node shuts down.
AbortNode ==
    /\ Idle
    /\ View[BestBlock] # tip
    /\ task' = Task("flush", tip, TRUE)
    /\ UNCHANGED <<node, tip, evoVars, coins, minableVars, message>>

\* FlushStateToDisk called for itself, periodically or on shutdown.
FlushStateToDisk(stop) ==
    /\ Idle
    /\ task' = Task("flush", tip, stop)
    /\ UNCHANGED <<node, tip, evoVars, coins, minableVars, message>>

\* No full flush is needed: UpdateTip, and the task is done.
SkipFlush ==
    /\ task.stage = "flush"
    /\ ~task.stop
    /\ tip' = task.block
    /\ task' = NoTask
    /\ UNCHANGED <<node, evoVars, coins, minableVars, message>>

\* The first of several batches of CCoinsViewDB::BatchWrite.
WritePartialBatch ==
    /\ task.stage = "flush"
    /\ coins' = [coins EXCEPT !.block = task.block]
    /\ task' = [task EXCEPT !.stage = "partial"]
    /\ UNCHANGED <<node, tip, evoVars, minableVars, message>>

\* The last, or only, batch.
WriteLastBatch ==
    /\ task.stage \in {"flush", "partial"}
    /\ coins' = [block |-> task.block, from |-> task.block]
    /\ task' = [task EXCEPT !.stage = "coins"]
    /\ UNCHANGED <<node, tip, evoVars, minableVars, message>>

\* CommitRootTransaction, with its assertion: the root transaction is committed
\* to rootBatch and is empty.
CommitRootTransaction ==
    /\ task.stage = "coins"
    /\ cur = Clean
    /\ batch' = root
    /\ root' = Clean
    /\ task' = [task EXCEPT !.stage = "batch"]
    /\ UNCHANGED <<node, tip, db, cur, coins, minableVars, message>>

\* CommitRootTransaction: WriteBatch, then UpdateTip or the exit.
WriteRootBatch ==
    /\ task.stage = "batch"
    /\ db' = Over(batch, db)
    /\ \/ /\ task.stop
          /\ Stopped("down")
       \/ /\ ~task.stop
          /\ batch' = Clean
          /\ tip' = task.block
          /\ task' = NoTask
          /\ UNCHANGED <<node, root, cur, minableVars, message>>
    /\ UNCHANGED coins
-----------------------------------------------------------------------------
(* Crash and start-up.                                                     *)

Crash ==
    /\ node \in {"running", "replayed"}
    /\ Stopped("down")
    /\ UNCHANGED <<db, coins>>

Undone == Chain[coins.from] \ Chain[coins.block]
Redone == Chain[coins.block] \ Chain[coins.from]

\* ReplayBlocks after an interrupted flush.  The block processor does not exist
\* yet, so a call that reaches one of its members, as it does for a non-null
\* commitment, is through a null pointer.  For blocks without one the only
\* effect on the EvoDB is WriteBestBlock, in the block transaction.
ReplayBlocks ==
    /\ node = "down"
    /\ coins.block # coins.from
    /\ LET inconsistent == Undone # {} /\ View[BestBlock] # coins.from
           null == \E b \in Undone \cup Redone : RealCommitments(b) # {}
       IN  \/ /\ inconsistent \/ null
              /\ node' = IF inconsistent THEN "corrupt" ELSE "faulted"
              /\ UNCHANGED <<cur, coins>>
           \/ /\ ~inconsistent
              /\ ~null
              /\ cur' = Write(cur, BestBlock, coins.block)
              /\ coins' = [coins EXCEPT !.from = coins.block]
              /\ node' = "replayed"
    /\ UNCHANGED <<tip, db, batch, root, task, minableVars, message>>

\* The blocks VerifyDB disconnects in memory.
Verified(t) == {b \in Chain[t] \ {Base} : Height[b] >= Height[t] - CheckDepth}

\* LoadChainTip and VerifyDB.  VerifyDB undoes the newest blocks in a block
\* transaction that it lets roll back; UndoBlock makes their commitments minable.
LoadChainTip ==
    /\ node \in {"down", "replayed"}
    /\ coins.block = coins.from
    /\ \/ /\ View[BestBlock] # coins.block
          /\ node' = "corrupt"
          /\ cur' = Clean
          /\ UNCHANGED <<tip, minableVars>>
       \/ /\ View[BestBlock] = coins.block
          /\ node' = "running"
          /\ cur' = Clean
          /\ tip' = coins.block
          /\ minable' = UNION {RealCommitments(b) : b \in Verified(coins.block)}
          /\ byQuorum' = [q \in Blocks |->
                IF \E c \in minable' : c.quorum = q
                THEN CHOOSE c \in minable' : c.quorum = q ELSE NoCommitment]
    /\ UNCHANGED <<db, batch, root, coins, task, message>>

\* The operator reindexes: both databases are wiped and built up again.
Reindex ==
    /\ node \in {"corrupt", "faulted"}
    /\ node' = "running"
    /\ tip' = Base
    /\ db' = [k \in Keys |-> IF k = BestBlock THEN Base ELSE Absent]
    /\ cur' = Clean
    /\ coins' = [block |-> Base, from |-> Base]
    /\ UNCHANGED <<batch, root, task, minableVars, message>>
-----------------------------------------------------------------------------
(* Minable commitments.                                                    *)

\* ProcessMessage: is a better one known?
ReceiveCommitment(c) ==
    /\ node = "running"
    /\ message = NoMessage
    /\ ~HasBetterMinableCommitment(c)
    /\ message' = [stage |-> "checked", qc |-> c]
    /\ UNCHANGED <<node, tip, evoVars, coins, task, minableVars>>

\* ProcessMessage: VerifyLLMQCommitment under cs_main.
VerifyCommitment ==
    /\ Idle
    /\ message.stage = "checked"
    /\ message' = IF VerifyLLMQCommitment(message.qc, tip)
                  THEN [message EXCEPT !.stage = "verified"] ELSE NoMessage
    /\ UNCHANGED <<node, tip, evoVars, coins, task, minableVars>>

\* ProcessMessage: the commitment is stored.
AddCommitment ==
    /\ message.stage = "verified"
    /\ AddMinable(message.qc)
    /\ message' = NoMessage
    /\ UNCHANGED <<node, tip, evoVars, coins, task>>

\* The DKG thread has made a commitment for a quorum of the active chain.
FinalizeCommitment(c) ==
    /\ node = "running"
    /\ c.quorum \in Chain[tip]
    /\ AddMinable(c)
    /\ UNCHANGED <<node, tip, evoVars, coins, task, message>>
-----------------------------------------------------------------------------
Next ==
    \/ \E b \in Blocks \ {Base} : ProcessBlock(b)
    \/ ConnectFails
    \/ ConnectCommits
    \/ UndoBlock
    \/ DisconnectCommits
    \/ AbortNode
    \/ \E stop \in BOOLEAN : FlushStateToDisk(stop)
    \/ SkipFlush
    \/ WritePartialBatch
    \/ WriteLastBatch
    \/ CommitRootTransaction
    \/ WriteRootBatch
    \/ Crash
    \/ ReplayBlocks
    \/ LoadChainTip
    \/ Reindex
    \/ \E c \in Messages : ReceiveCommitment(c) \/ FinalizeCommitment(c)
    \/ VerifyCommitment
    \/ AddCommitment

Spec == Init /\ [][Next]_vars

=============================================================================
