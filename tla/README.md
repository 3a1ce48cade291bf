# A TLA+ model of the Hemis tier-two network

Hemis is a proof-of-stake node descended from PIVX and Dash. On top of the block
chain it has a second tier: *gamemasters*, registered nodes that form *quorums*
(LLMQs), sign together with threshold signatures, and lock blocks (*chain
locks*). This directory holds TLA+ modules for the parts where several threads or
several nodes have to agree, TLC configurations that check them on small
instances, and TLAPS proofs for instances of every size.

`PROJECT.json` lists the components, the runs, the mutants (deliberately wrong
variants of a definition that show a property is not vacuous), the source lines
behind every definition, the places where code and comments disagree, the hazards,
and the theorems. Paths below are relative to `src/src/`.

## 1. The system

| part | state | operations | talks to |
|---|---|---|---|
| signing manager `llmq/quorums_signing` | database of votes, recovered signatures and times; received signatures not yet verified | AsyncSignIfMember, ProcessMessageRecoveredSig, ProcessPendingRecoveredSigs, Cleanup | signature shares, quorum manager, chain locks |
| signature shares `llmq/quorums_signing_shares` | shares per session, state per peer, pending signs | Sign, TryRecoverSig, announcements, requests, batches, Cleanup, BanNode | peers, signing manager |
| chain locks `llmq/quorums_chainlocks` | best lock, its block, seen locks, last signed height | ProcessNewChainLock, AcceptedBlockHeader, UpdatedBlockTip, EnforceBestChainLock, HandleNewRecoveredSig, DoInvalidateBlock | signing manager, validation, scheduler |
| best-chain activation `validation` | block index, failed marks, active chain | AcceptBlockHeader, ProcessNewBlock, ActivateBestChain, InvalidateBlock | chain locks, special transactions, callbacks |
| callbacks `validationinterface`, `scheduler` | queue of callbacks, tasks | AddToProcessQueue, ProcessQueue, SyncWithValidationInterfaceQueue | all listeners |
| quorum manager `llmq/quorums` | cache of built quorums, contributions on disk | GetQuorum, ScanQuorums, BuildQuorumFromCommitment | commitments, DKG |
| commitments `llmq/quorums_blockprocessor` | minable commitments; mined ones in EvoDB | ProcessMessage, ProcessBlock, UndoBlock, AddAndRelayMinableCommitment | EvoDB, validation |
| EvoDB `evo/evodb` | block transaction, root transaction, disk | Write, Erase, Commit, Rollback, CommitRootTransaction | validation |
| DKG `llmq/quorums_dkgsession*` | phase, pending messages, contributions, complaints | one round of six phases per quorum | commitments, quorum manager |
| deterministic list `evo/deterministicgms` | list per block as snapshots and diffs, two caches | ProcessBlock, UndoBlock, GetListForBlock | special transactions, DKG, payments |
| payments `gamemaster-payments` | winner votes, payees per height, last vote per gamemaster | ProcessGMWinner, ProcessBlock, CleanPaymentList | lists, sporks |
| budget `budget/` | proposals, finalised budgets, votes, early votes | ProcessProposalVote, CheckOrphanVotes, CheckAndRemove, RemoveByFeeTxId | payments, lists |
| synchronisation `gamemaster-sync` | phase, attempts, times | Process, SyncWithNode, ProcessSyncStatusMsg | sporks, lists, budget |
| sporks `spork` | active sporks in memory and in a database | ProcessSporkMsg, UpdateSpork, LoadSporksFromDB | everything that asks for a spork |

Also in the repository and outside the models: the legacy gamemaster list, tier-two
connections, BLS, mempool, wallet, staking, Sapling, the peer-to-peer layer, RPC and
GUI. `PROJECT.json` gives the reason for each.

What makes these parts hard:

- a lock is released in the middle of an operation (for a signature check, a quorum
  lookup, a round of block connection) and the state has moved when it is taken again;
- nodes act on their own tip, and tips differ;
- a restart keeps what is on disk (votes, signatures, block index) and loses the
  rest (locks, queues, jobs);
- messages are lost, repeated, out of order; members may be faulty;
- marks that are never taken back (a failed block, an erased vote).

The `hazards` of `PROJECT.json` name each place with its line and the properties
that would notice it going wrong.

## 2. Modules

### Signing — `llmq/quorums_signing.cpp`, part of `quorums_signing_shares.cpp`

State per node: the vote, recovered signature and time per request id (the
database), calls of AsyncSignIfMember that have voted but not yet selected a quorum
(`signing`), signatures the worker has to make, and received signatures still to be
verified. `shares` is every share ever sent; a member recovers from any part of it,
so delay, loss and repetition of shares are included.

| action | code |
|---|---|
| AsyncSignIfMember, AsyncSign | the two halves of AsyncSignIfMember; the lock is released between them |
| Sign | SignPendingSigShares, Sign, ProcessSigShare |
| TryRecoverSig | TryRecoverSig, then ProcessRecoveredSig |
| ProcessMessageRecoveredSig, ProcessPendingRecoveredSigs | a received signature is queued, later verified and stored |
| Cleanup | CleanupOldRecoveredSigs with the byte order of the time keys |
| Restart | what is in memory is lost, the database is not |
| FaultySign, UpdateTip, Tick | environment: faulty members, the node's chain, time |

Time and height share one clock; a node's tip lags behind the best chain by at most
`MaxLag`. `Tick` waits for signing calls under way: they take milliseconds, the unit
is a block interval, and a vote outlives them by a week.

`QuorumDecision` is the abstract promise: a quorum decides at most one message per
id, nodes keep only what is decided, and forget it only when it is old.
`SigningInv` holds the inductive invariant and the refinement mapping.

### ChainLocks — `llmq/quorums_chainlocks.cpp`, parts of `validation.cpp`, `validationinterface.cpp`, `scheduler.cpp`

State per node: the block index (headers, data in order of arrival, failed marks),
the tip, the best lock and its block, what was signed last, the callback queue, the
scheduled invalidations, and a *job* for each of the three threads: messages (`net`),
signature recovery (`worker`), scheduler (`sched`). A job is what a thread has left
to do; each step of it is what the code does between two releases of `cs` and
`cs_main`:

    lock -> enforce -> invalidate -> activate -> loop [-> wait -> synced] [-> connect] -> idle

`lock` is ProcessNewChainLock after its first check; `enforce` and `invalidate` are
the two critical sections of EnforceBestChainLock; from `activate` on the thread is
in ActivateBestChain. Threads in `loop`, `wait`, `synced` and `connect` hold
`m_cs_chainstate`; a thread in `connect` holds `cs_main` as well.

A CLSIG is identified with the block it locks. Work is height; ties go to the block
that came first, as in CBlockIndexWorkComparator, and a restart loses that order.
The guards of AcceptBlockHeader and ProcessNewBlock are those of the code; other
reasons for which a block is invalid are left out.

### BlockProcessor and EvoDB — `llmq/quorums_blockprocessor.cpp`, `evo/evodb.cpp`, `dbwrapper.h`, parts of `validation.cpp`, `txdb.cpp`, `init.cpp`

`EvoDB` is the layered database: the transaction of the block at hand over the root
transaction over LevelDB, each a function from keys to a value, a delete or nothing.
`BlockProcessor` is one node that connects and disconnects blocks of a given tree.
The holder of `cs_main` works on a *task*:

    idle -> processed -> flush -> [partial ->] coins -> batch -> idle    (connect)
    idle -> undone    -> flush -> ...                                    (disconnect)

`processed` and `undone` are the block transaction before its commit; `flush` is
FlushStateToDisk, which writes the coins in one batch or several (`partial`) and
commits the root transaction last. CommitRootTransaction is two steps: it empties the
root transaction into `batch` (rootBatch), and then writes that to LevelDB. It does not
lock the EvoDB, so a reader without `cs_main` may come in between and find neither; a
reader with `cs_main` never does. What such a reader meets while the map itself is being
cleared is undefined, and no property claims anything for it. The message thread (ReceiveCommitment,
VerifyCommitment, AddCommitment) and the DKG thread (FinalizeCommitment) change the
minable commitments meanwhile. A crash may come between any two steps; start-up is
ReplayBlocks, then LoadChainTip with VerifyDB. A node that finds its databases apart
is told to reindex.

`MinedStore` is the abstract promise: the database is a function of one block, moves
one block at a time, and a crash takes it back to what was flushed.
`BlockProcessorInv` holds the inductive invariant and the refinement mapping.

ReplayBlocks runs before the block processor exists, so a replayed block with a
non-null commitment is a call through a null pointer (state `faulted`). Left out: a
machine that loses writes the process had made, `verifychain` at run time, DKG
maintenance (SPORK_22), and the failed mark of a block that did not connect, so that
it may be tried again.

### GMList, GMListDiff, GMBlock, GMChain, GMManager — `evo/deterministicgms.cpp`, `evo/deterministicgms.h`, `evo/specialtx_validation.cpp`

`GMList` is CDeterministicGMList as operators: a list is the gamemasters by hash, the
map of unique properties with holder and reference count, and how building it ended
(`err`: fine, the block is rejected, an exception, a failed assertion). `GMListDiff` is
CDeterministicGMListDiff: what is stored of a list, and how it is applied. `GMBlock` has
the special transactions, CheckSpecialTx against the list of the parent, and
BuildNewListFromBlock in the order of the code: confirm, decrease penalties, the
transactions, spent collaterals, the payee. A block is named by the contents of the
chain up to it, so blocks form a tree by themselves. `FoldInOrder` is the loop over a
sequence; it is written out so that the proofs do not carry all of SequencesExt along.

`GMChain` is the lists along a chain of valid blocks, without storage; its properties
say what the list is for. `GMManager` is the node that stores it: a diff per block, a
snapshot now and then, two caches, and GetListForBlock, which puts a list together
from them. Its actions are ConnectTip (with a block that may fail after it was
processed), DisconnectTip, ReadList (another thread), the two steps of
CommitRootTransaction, between which ReadList may come, and Restart.

### DKG — `llmq/quorums_dkgsession.cpp`, parts of `quorums_dkgsessionhandler.cpp`, `quorums_dkgsessionmgr.cpp`

One key generation at all its members. State: the phase each member has started, the
messages sent, a session record per honest member (messages processed, the contribution
kept of each member, verified shares, bad members, votes, open complaints, accepted
commitments), and the final commitments of each. Members are in each phase at their own
time; an action is the step from the start of one phase to the start of the next:

| action | code |
|---|---|
| Contribute | Contribute, SendContributions |
| Complain | the contributions of the phase and early complaints, then VerifyAndComplain with SendComplaint |
| Justify | the complaints and early justifications, then VerifyAndJustify with SendJustification |
| Commit | the justifications, then VerifyAndCommit with SendCommitment |
| FinalizeCommitments | the commitments, then FinalizeCommitments with CFinalCommitment::Verify |
| AbortPhase | an AbortPhaseException |
| FaultyPhase | a member that does what ShouldSimulateError lets it do, or sends a second message |

A member processes any part of what was sent: what is left is lost, and counts as a
fault, as do a member found not connected, a second message and an aborted round.
A verification vector is a number, a quorum key the vectors it is the sum of. Messages
whose signature does not verify are left out, although BatchVerifyMessageSigs lets some
of them pass (see the hazard at its line).

### DKGHandler — `llmq/quorums_dkgsessionhandler.cpp`

One node: the callback that derives height, quorum and phase from the tip
(UpdatedBlockTip), and the thread that polls them. The thread is between two polls in
every state:

    idle -> init -> wait(1) -> phase(2) -> sleep(2) -> wait(2) -> ... -> wait(5) -> finalize -> idle
            init -> newquorum -> idle          (InitNewQuorum fails)

and from `wait` and `sleep` back to `idle` when the quorum or the phase is not the one
expected. The tip moves to any block: only the last of several connected together is
reported, the block that names the quorum may be replaced, and the chain may become
shorter. SleepBeforePhase ends with its time or with the next block, whichever is
first: for all parameters of the network it sleeps for less than the time of a block.
The node is a member of every quorum.

### Composition

ChainLocks uses of Signing that a node votes once per height and that a CLSIG exists
when `Threshold` members have voted for the block (`Recovered`); the votes of members
outside the instance are the constant `OtherShares`. Signing promises this per quorum
only: members whose tips differ while the active quorum changes may vote in different
quorums, and the locks of both branches that would follow are within the theorems about
ChainLocks. DKG uses of DKGHandler that a member contributes once and that a round may be
aborted at any phase; BlockProcessor takes final commitments from a DKG as given.

## 3. Runs

| run | instance | what it shows |
|---|---|---|
| signing | 3 members, threshold 2, two quorums mined one after the other, 2 messages, clock to 4, `MaxAge` 2, `MaxLag` 1 | no quorum signs two messages for an id across restarts, cleanup and lagging tips; Signing implements QuorumDecision |
| signing_faulty | 4 members, 1 faulty, threshold 3, signatures sent between nodes | no quorum signs two messages for an id although a member signs everything and sends signatures that do not verify; none of those is stored |
| chainlocks | branches g-a1-a2 and g-b1-b2, 1 signing node, locks of one branch, queue limit 2 | the active chain stays on an enforced lock; what is marked failed is off the branch of a CLSIG, so that locks which agree never fail a locked block |
| chainlocks_live | branches g-a1 and g-b1-b2, lock of a1, queue limit 2 | a locked block becomes active (under fairness), unless the threads end in the deadlock that chainlocks_queue shows |
| chainlocks_queue (violation) | four blocks, queue limit 1, under fairness | a thread waits for the callback queue for ever |
| blockprocessor | ten blocks on several branches, intervals of 3 blocks, two messages, a block that fails late | the EvoDB is a function of the branch of its best block through reorganisation, flush and crash; the chain obeys the mining rule; a scan that does not fall into CommitRootTransaction finds the commitments of its branch |
| evo_replay (violation) | same | after a crash inside a flush the node runs with the EvoDB behind its tip |
| gmchain | chains to height 8 of fifteen kinds of blocks, four gamemasters | the property map is exact, a valid gamemaster has address and key, payments go round, two failures ban |
| gmmanager | six kinds of blocks, snapshot every 3 blocks, cache of 1 | the list of every block is the one its chain implies, through failed blocks, reorganisation, flush and restart; within a flush it may not be found, but is never wrong, then or later |
| gm_revoked (violation) | same | removing a revoked gamemaster, or reading it from a snapshot, fails an assertion |
| dkg | 4 members, 1 simulating errors, `minSize` 3, threshold 2, one fault | members that get a quorum get the same, it can sign; without a fault, and with all complaints answered, all get it; verdicts do not depend on the order of messages |
| dkghandler | rounds of 13 blocks, phases of 2, two branches, one time back, restarts | a member contributes once, an undisturbed round finishes, the thread follows the tip |

A run marked *violation* checks a sentence of a comment in the code, quoted in
`findings`; TLC's trace shows how the code departs from it.

### Bounds

- Signing: the clock has to pass `MaxAge` and outlive a quorum: four intervals are
  enough for one quorum to be mined, used, replaced, and its signatures cleaned up.
  Two messages are enough for a conflict and three members for a majority. The
  proofs drop all of these bounds except that the clock has an end.
- Chain locks: a conflict needs two branches; a lock whose ancestors also have
  siblings needs branches of length two. One node is enough for the invariants, as
  nodes only meet through CLSIGs, and those of the others come in as `OtherShares`.
  The proofs hold for any tree and any number of nodes. The queue limit of 1 or 2 stands
  for the 10 of the code: small enough that the few callbacks of an instance exceed it and
  ActivateBestChain waits.
- Blocks: two branches that mine different commitments for one quorum, a null
  commitment, a second interval, blocks that break the rule in both directions and one
  that fails after it was processed. The proofs hold for any tree.
- Gamemaster list: two are registered at first, two may come; blocks with several
  transactions that touch the same property, in both orders, are among the contents. A
  chain of eight blocks is long enough for a ban, a revival and two rounds of payments;
  the manager needs a height past a snapshot, and more blocks than its cache keeps.
- DKG: with four members, one faulty, three have to agree, and any two sets of three share
  an honest one: the smallest case where a quorum tolerates a fault. `MaxTargets` bounds
  how many members a faulty one picks on at a time, `MaxFaults` what the network does to a
  round; each kind of fault is met in every phase. Honest members are symmetric.
- DKG handler: the height reaches into the second round, so a quorum can be replaced by
  another of its height and by the next one, and the chain can return to it.
- `ByteBase` stands for 256: a time of two bytes shows the order of the keys.

### Fairness

Threads run: a thread that has a job it can go on with does so, and the scheduler
thread takes the next callback or task (weak fairness for each thread). Nothing is
assumed of peers, of other members or of restarts, and no lock is assumed fair beyond
that. `LockIsEnforced` needs only this, up to the deadlock of chainlocks_queue: no
fairness gets threads out of it, so the property excepts the states in which a thread
waits for callbacks that the scheduler thread cannot run (`CallbacksAreStuck`).
`FollowsTip` needs that the thread of the DKG handler goes on polling, which it does
until the node stops.

## 4. Proofs

`SigningProof`, `ChainLocksProof`, `BlockProcessorProof`, `GMListProof`, `GMChainProof`,
`DKGProof`, `DKGHandlerProof` and `FoldInduction` are checked by TLAPS (SMT, Zenon and LS4).

**SigningInvariant, NoConflict, StoredAreValid, StoredIsKept, Refinement.**
`NoConflictInQuorum` is not inductive: a vote is erased when a signature is stored,
and the signature when it is old. `SigningIInv` says what replaces it: whatever an
honest node has signed is guarded by its vote, or by a signature stored after the
quorum became selectable, or the quorum can no longer be selected. From this a node
signs one message per quorum and id, and two sets of `Threshold` members intersect in
an honest one. Two assumptions are needed, both checked by TLC on each instance:

- `MajorityAssumption`: a threshold of more than half, counting faulty members twice;
- `RetentionAssumption`: signatures are kept longer than a quorum stays selectable.

The refinement maps a quorum's decision to the message that reached the threshold and
each node's kept decision to its stored signature.

**ChainLocksInvariant, LockedStaysActive.** `LockedChainActive` alone is not
inductive: when a thread has read a lock and a second one replaces it, somebody must
still enforce the second. `ChainLocksIInv` adds that whenever the tip is off the lock
some thread has yet to read the lock, or has read exactly this one; that the index is
closed under parents, so that the rival of a locked block is among its siblings; and
that whatever a thread is heading for is in the index. The only assumption is that
the blocks form a tree with heights. Locks of two branches, and a callback queue of any
limit, are included.

**FailureInvariant, LockedIsKept.** A failed mark is never taken back, so the question is
what a node may mark. `LockedNeverFailed` speaks of marks only and says nothing of what
threads have in hand. `FailureIInv` adds that everything a node treats as a lock (the best
one, its block, the one a thread carries) can be recovered from shares, and that every
block marked, or scheduled to be, is off the branch of such a CLSIG (`OffALock`): some
ancestor of it is no higher than the CLSIG and not on its branch. This holds for any CLSIGs.
If they agree, a block off the branch of one is on the branch of none, which is
`LockedNeverFailed`; its premise `LocksAgree` is the part that Signing has to supply, and
does within one quorum only.

**BlockProcessorInvariant, ChainFollowsRule, MinableFound, TipMoves, MinedRefinement.**
The mining rule is checked by the code against the database, and the database is
written by blocks that passed the rule, so neither can be proved alone.
`BlockProcessorIInv` says that LevelDB, and what is committed over it (batch and root
transaction), equal `BranchContent` of their best block, that these branches obey the
rule, and what the block transaction and the batch hold at each stage of a task. The
central lemmas say what writing or erasing one block's entries does to `BranchContent`.
The assumptions are that the blocks form a tree and that the markers of the model are not
values.

**ScansAreBranches.** A scan reads the height keys from all layers while another thread has
a block in the block transaction. The lemma behind it, ScanReads, says that up to a block of
the active chain and of the database's branch the keys hold what the branch of that block
has mined: what a task has written is about a higher block, or about one being undone, which
the property excludes. It also excludes the scan between the two steps of
CommitRootTransaction, which sees LevelDB alone and misses what was committed since the
last flush: without this exclusion TLC finds a scan that is wrong. The newest entries are
then counted by height, as each height of a branch has one block.

**UpdateGMExact, RemoveGMExact, AddGMExact, PayeeIsUnique, RemoveRevokedAborts.** For
lists of any size and any values: every operation on a list whose property map is exact
(`PropertiesExact`) leaves it exact or fails; removal succeeds on every gamemaster that
has its keys and fails an assertion on every revoked one; at most one gamemaster is the
payee.

**FoldInduct.** A loop of the code is a fold in the model, and what a fold computes needs
induction. The induction theorems of the library take a predicate as a parameter, which
the provers cannot instantiate; `FoldInduction` therefore has the loop body, the order and
the loop invariant as *constants*, proves the rule of the loop invariant for them (from
the least number principle, over the sets still to be gone through), and is instantiated
once per loop: transactions, confirmations, penalties, punishments, spent collaterals, the
payee, and the lists of a chain.

**HistoryHolds, UniqueHolds, ServiceHolds, RoundRobinHolds, PunishedTwiceHolds.** For
chains of any length with any blocks. `Since` relates the list in the middle of building a
block to the list of the parent: who may have been paid, punished, revived, confirmed or
added so far. Each step of BuildNewListFromBlock keeps it, the loops by FoldInduct, and at
the end of the block it says how the list of a block follows from its parent's. `HistoryInv`
says that the lists of the active chain are those of `ListsOf` and that its blocks were
valid; it survives DisconnectBlock because a part of a valid chain is one. From there:

- `UniquePropertiesExact` and `ValidHasService` hold of each list by itself;
- `RoundRobin` compares lists of several blocks: the height by which GetGMPayee orders a
  gamemaster changes only with a payment or a revival, so that of one paid at `m` is `m` or
  more from then on, and that of another not paid since is below `m` and comes first;
- `PunishedTwiceIsBanned`: a punishment adds 66 % of the maximal penalty and wears off by one
  with every block, so two of them within thirty blocks come to 100 at least. The maximal
  penalty is 100 for a list of up to 100, to which the property is therefore confined.

Assumed, and evaluated by TLC on each instance, are that transactions passed
CheckSpecialTxNoContext, that a hash identifies its registration (`ContentsAssumption`), and
that the chain starts with valid blocks (`StartAssumption`).

**Invariance, OneQuorum, QuorumCanSign.** For a session of any size: `FinalUnique` and
`FinalHasShares` follow from `IInv`, which says that a final commitment has `minSize`
signers that sent commitments like it, and that an honest member sends one commitment and
holds the shares and vectors it speaks of. Two sets of `minSize` signers then share an
honest one. `DKGAssumption` has what this needs of the parameters: `2 * minSize` exceeds
the members and the faulty ones together, and `minSize` the threshold by the faulty ones.
No bound on losses, aborts or second messages is used.

**VerdictInvariant, SameVerdict.** What a session holds against a member is accumulated
while messages are processed, at the start of phases and by votes, in an order that differs
from member to member. `VerdictIInv` gives, for each phase, the bad members and the open
complaints as a function of the set of messages read and of what the member found by
itself. The case that makes it hard is a justification that is read before the votes are
counted: it is treated as one that is read late, or its sender is bad anyway. The verdict at
the commit phase is then a function of the view, which is `SameViewSameVerdict`. It speaks
of views without two messages of a kind from one member; which of two is counted does
depend on the order.

**RoundInvariant, RoundsSucceed.** A round in which the network loses nothing, nobody is
disconnected and nobody sends a second message of a kind succeeds, whatever the members that
simulate errors put into the messages they do send. `RoundIInv` follows such a round phase by
phase: members stay within one phase of each other, so each has read all messages of the phases
it has left (`ReadsAll`); what it drops is then the same function of the messages for everybody
(`Dropped`, by `VerdictIInv`), and the share of each member that is left was good or was
disclosed in a justification. All honest members therefore send the same commitment, and one
final commitment comes of them. The property has two premises. `AllAnswered` is that honest
members answer every complaint about them, which VerifyAndJustify does not do for a member it
holds for bad. That the honest members are `minSize` is needed since fewer cannot make a final
commitment by themselves; the instance TLC checks meets it. The proof uses that it takes a vote to vote a member out
(`dkgBadVotesThreshold` is 2, 40 or 300 in chainparams.cpp).

**HandlerInvariant, ContributesOnceOnly.** For rounds and phases of any length.
`ContributesOnce` counts contributions against the number of times the chain went back;
`HandlerIInv` adds that a thread that has used up its number is past the round: the tip is
beyond the block that starts it, no first phase of it is pending, and the thread is not
between joining it and contributing. The only assumption is that a round has room for its
phases.

**CalmInvariant, CalmRoundsFinish.** A round is calm as long as its blocks come one at a time
on one branch and the thread has acted on each before the next. `CalmIInv` lists the places
the thread may be in for each phase of the tip: in that phase, at the entry to it, or, at the
first, wherever the round before has left it. No exception is thrown from any of these, and
in the last they leave only the finished round.

Checked by TLC only:

- `LockIsEnforced` and `FollowsTip`: liveness under fairness is out of reach of the provers;
- `ListIsThatOfTheChain`: the storage of GMManager. It rests on a diff being undone by
  applying it, through a sorted sequence and internal ids, and the caches over it.

## 5. What the models leave to do

In the order of what it would add; none of it is needed by the modules above.

1. The exchange of signature shares (announcements, requests with a timeout, batches,
   bans): Signing has the result, any delivery of shares, but not that shares arrive.
2. Payments and budget: votes that arrive early, twice or out of order; removal when a fee
   transaction is disconnected.
3. Sporks and synchronisation: values from messages, RPC and disk; phases and timeouts.
4. BlockProcessor with Signing (which quorums are selectable after a reorganisation), and
   GMManager with DKG (who the members are).

## 6. Not modelled

Cryptography, formats and wording of messages, transaction and stake validity,
mempool, wallet, Sapling, GUI and RPC, and connection management. A block is valid or
not by choice of the environment, and a threshold signature exists when enough shares
do. Heights below `SIGN_HEIGHT_OFFSET` and nodes without `SPORK_23` are outside the
models. The time of a signing call is taken to be short against a block interval. Of the
DKG, the quota of pending messages per peer, the batched check of their signatures, the
answers to requests for messages and the access to the session they make from another
thread are left out.

## 7. Running

    tlc -workers 2 -config MCSigning.cfg MCSigning
    tlapm SigningProof.tla

Each run takes under three minutes and each proof under twenty on two cores.
