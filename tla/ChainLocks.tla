------------------------------ MODULE ChainLocks ------------------------------
(***************************************************************************)
(* Chain locks: CChainLocksHandler (llmq/quorums_chainlocks.cpp) with the  *)
(* parts of validation.cpp it drives and is driven by: acceptance of       *)
(* headers and blocks, ActivateBestChain, InvalidateBlock, and the queue   *)
(* of validation callbacks (validationinterface.cpp, scheduler.cpp).       *)
(*                                                                         *)
(* A node runs three threads that matter here: "net" processes messages,   *)
(* "worker" is the thread of CSigSharesManager that recovers signatures,   *)
(* "sched" is the one scheduler thread, which runs the callbacks.  What a  *)
(* thread has left to do is its job; a step of a job is what happens       *)
(* between two releases of cs_main and cs.  In ActivateBestChain a thread  *)
(* holds m_cs_chainstate ("loop", "wait", "synced", "connect") and, in its *)
(* inner loop ("connect"), cs_main as well.                                *)
(*                                                                         *)
(* Abstractions.  A CLSIG is identified with the block it locks: the       *)
(* quorum signs a block under the id of its height, so the two agree.      *)
(* One quorum signs all heights; votes are those of module Signing, at     *)
(* most one per node and height.  Work is height.  The data of a block     *)
(* arrives after that of its parent.  Chain locks are switched on          *)
(* (SPORK_23).                                                             *)
(***************************************************************************)
EXTENDS Integers, Sequences, FiniteSets

CONSTANTS
    Nodes,
    Gamemasters,    \* nodes that are members of the signing quorum
    Blocks,
    Genesis,
    Parent,         \* Parent[b]: the block before b (Genesis for itself)
    Height,         \* Height[b]
    Chain,          \* Chain[b]: b and all its ancestors
    Threshold,      \* shares that make a CLSIG
    OtherShares,    \* OtherShares[b]: shares for b of members outside the model
    QueueLimit,     \* callbacks pending before ActivateBestChain waits
    NoBlock

ASSUME TreeAssumption ==
    /\ Genesis \in Blocks
    /\ Parent \in [Blocks -> Blocks]
    /\ Parent[Genesis] = Genesis
    /\ Height \in [Blocks -> Nat]
    /\ Chain \in [Blocks -> SUBSET Blocks]
    /\ Chain[Genesis] = {Genesis}
    /\ Height[Genesis] = 0
    /\ \A b \in Blocks \ {Genesis} : /\ Height[b] = Height[Parent[b]] + 1
                                     /\ Chain[b] = Chain[Parent[b]] \cup {b}
    /\ \A b \in Blocks : \A x \in Chain[b] : Chain[x] \subseteq Chain[b]
    /\ \A b \in Blocks : \A x, y \in Chain[b] : Height[x] = Height[y] => x = y
    /\ \A b \in Blocks : \A x \in Chain[b] : Height[x] <= Height[b]
    /\ \A b \in Blocks : \A h \in 0 .. Height[b] : \E x \in Chain[b] : Height[x] = h

ASSUME ParametersAssumption ==
    /\ Gamemasters \subseteq Nodes
    /\ OtherShares \in [Blocks -> Nat]
    /\ Threshold \in Nat \ {0}
    /\ QueueLimit \in Nat
    /\ NoBlock \notin Blocks

VARIABLES
    headers,    \* headers[n]: mapBlockIndex
    data,       \* data[n]: blocks received in full, in the order of arrival
    failed,     \* failed[n]: blocks marked BLOCK_FAILED
    tip,        \* tip[n]: chainActive.Tip()
    best,       \* best[n]: bestChainLock
    lockIndex,  \* lockIndex[n]: bestChainLockBlockIndex
    seen,       \* seen[n]: seenChainLocks
    relayed,    \* relayed[n]: CLSIGs n has sent to peers
    lastSigned, \* lastSigned[n]: lastSignedHeight and lastSignedMsgHash
    recSig,     \* recSig[n]: recovered signatures in the signing manager
    shares,     \* every signature share sent
    queue,      \* queue[n]: pending callbacks
    tasks,      \* tasks[n]: blocks with a scheduled DoInvalidateBlock
    job         \* job[n][t]: what thread t of n is doing

chainVars == <<headers, data, failed, tip>>
lockVars == <<best, lockIndex, seen, relayed>>
signVars == <<lastSigned, recSig, shares>>
vars == <<chainVars, lockVars, signVars, queue, tasks, job>>

Threads == {"net", "worker", "sched"}
MaybeBlock == Blocks \cup {NoBlock}
Jobs == [step : {"idle", "lock", "enforce", "invalidate",
                 "activate", "loop", "wait", "synced", "connect"},
         block : MaybeBlock, start : MaybeBlock]
Events == [kind : {"header", "tip"}, block : Blocks, thread : {"sched"}]
          \cup [kind : {"sync"}, block : {NoBlock}, thread : Threads]
Job(step, b, start) == [step |-> step, block |-> b, start |-> start]
Idle == Job("idle", NoBlock, NoBlock)
Enforce == Job("enforce", NoBlock, NoBlock)
Activate == Job("activate", NoBlock, NoBlock)

RangeOf(s) == {s[i] : i \in 1 .. Len(s)}

TypeOK ==
    /\ headers \in [Nodes -> SUBSET Blocks]
    /\ data \in [Nodes -> Seq(Blocks)]
    /\ failed \in [Nodes -> SUBSET Blocks]
    /\ tip \in [Nodes -> Blocks]
    /\ best \in [Nodes -> MaybeBlock]
    /\ lockIndex \in [Nodes -> MaybeBlock]
    /\ seen \in [Nodes -> SUBSET Blocks]
    /\ relayed \in [Nodes -> SUBSET Blocks]
    /\ lastSigned \in [Nodes -> MaybeBlock]
    /\ recSig \in [Nodes -> SUBSET Blocks]
    /\ shares \in SUBSET [node : Nodes, block : Blocks]
    /\ queue \in [Nodes -> Seq(Events)]
    /\ tasks \in [Nodes -> SUBSET Blocks]
    /\ job \in [Nodes -> [Threads -> Jobs]]

-----------------------------------------------------------------------------
(* Locks.                                                                  *)

BestHeight(n) == IF best[n] = NoBlock THEN -1 ELSE Height[best[n]]

\* Up to the height of the lock, only its ancestors and itself do not conflict.
InternalHasConflictingChainLock(n, b) ==
    /\ lockIndex[n] # NoBlock
    /\ Height[b] <= Height[lockIndex[n]]
    /\ b \notin Chain[lockIndex[n]]

Comparable(a, b) == a \in Chain[b] \/ b \in Chain[a]

Recovered(b) == Cardinality({s \in shares : s.block = b}) + OtherShares[b] >= Threshold

\* GetChainLockByHash: a node hands out the CLSIG it announced, which may no
\* longer be its best when it arrives.
GetChainLockByHash(n) ==
    {b \in Blocks : OtherShares[b] >= Threshold} \cup UNION {relayed[m] : m \in Nodes \ {n}}

SetJob(n, t, j) == job' = [job EXCEPT ![n][t] = j]
HeaderEvent(b) == [kind |-> "header", block |-> b, thread |-> "sched"]
TipEvent(b) == [kind |-> "tip", block |-> b, thread |-> "sched"]
SyncEvent(t) == [kind |-> "sync", block |-> NoBlock, thread |-> t]

-----------------------------------------------------------------------------
(* Validation.                                                             *)

\* InvalidateBlock marks b and the active blocks above it, and disconnects them.
AfterInvalidate(active, b) == IF b \in Chain[active] THEN Parent[b] ELSE active
FailedByInvalidate(active, b) ==
    {b} \cup (IF b \in Chain[active] THEN {x \in Chain[active] : b \in Chain[x]} ELSE {})

\* CBlockIndexWorkComparator: by work, then by time of arrival.
Worse(n, a, b) ==
    \/ Height[a] < Height[b]
    \/ /\ Height[a] = Height[b]
       /\ \E i, j \in 1 .. Len(data[n]) : data[n][i] = b /\ data[n][j] = a /\ i < j

\* FindMostWorkChain: the best block that is not worse than the tip and has no
\* failed block between itself and the active chain, as the one member of a set.
FindMostWorkChain(n) ==
    LET candidates == {x \in RangeOf(data[n]) \ failed[n] :
                          /\ ~ Worse(n, x, tip[n])
                          /\ (Chain[x] \ Chain[tip[n]]) \cap failed[n] = {}}
    IN  IF candidates = {} THEN {NoBlock}
        ELSE {x \in candidates : \A y \in candidates : ~ Worse(n, x, y)}

\* The blocks FindMostWorkChain marks on its way: what lies above a failed block
\* on the way to a candidate that is better than the one it returns.
FailedChildren(n) ==
    {x \in Blocks \ Chain[tip[n]] :
        \E y \in RangeOf(data[n]) \ failed[n] :
            /\ ~ Worse(n, y, tip[n])
            /\ \A z \in FindMostWorkChain(n) : z = NoBlock \/ Worse(n, z, y)
            /\ x \in Chain[y]
            /\ (Chain[x] \ Chain[tip[n]]) \cap failed[n] # {}}

\* ActivateBestChainStep stops at the first block higher than the old tip.
StopBlock(n, target) ==
    IF Height[target] <= Height[tip[n]] THEN target
    ELSE CHOOSE x \in Chain[target] : Height[x] = Height[tip[n]] + 1

\* Mutant: ConnectBlock does not look at the lock.
Refused_None(n, b) == {}

\* ConnectBlock refuses a block that conflicts with the lock.
Refused(n, b) ==
    {x \in Chain[b] \ Chain[tip[n]] : InternalHasConflictingChainLock(n, x)}

\* ActivateBestChainStep: the blocks up to stop, or up to the first one refused,
\* become active.  Blocks marked by the search for the target are marked as well.
ActivateBestChainStep(n, stop, marked) ==
    IF Refused(n, stop) = {}
    THEN /\ tip' = [tip EXCEPT ![n] = stop]
         /\ failed' = [failed EXCEPT ![n] = @ \cup marked]
    ELSE \E x \in Refused(n, stop) :
            /\ \A y \in Refused(n, stop) : Height[x] <= Height[y]
            /\ tip' = [tip EXCEPT ![n] = Parent[x]]
            /\ failed' = [failed EXCEPT ![n] = @ \cup marked \cup {x}]

\* UpdatedBlockTip is signalled if the tip is not on the chain it started from.
Announce(n, start, new) ==
    queue' = IF new \in Chain[start] THEN queue
             ELSE [queue EXCEPT ![n] = Append(@, TipEvent(new))]

\* One round of the inner loop of ActivateBestChain.  The target found in an
\* earlier round is kept until a block on the way to it is refused; cs_main is
\* kept as long as the tip is worse than the one the loop started from.
ConnectRound(n, t) ==
    LET start == IF job[n][t].step = "connect" THEN job[n][t].start ELSE tip[n]
        targets == IF job[n][t].block = NoBlock THEN FindMostWorkChain(n)
                   ELSE {job[n][t].block}
        marked == IF job[n][t].block = NoBlock THEN FailedChildren(n) ELSE {}
    IN  /\ \/ /\ targets \cap {NoBlock, tip[n]} # {}
              /\ Announce(n, start, tip[n])
              /\ SetJob(n, t, IF job[n][t].step = "connect" /\ tip[n] \notin targets
                              THEN Job("loop", NoBlock, NoBlock) ELSE Idle)
              /\ failed' = [failed EXCEPT ![n] = @ \cup marked]
              /\ UNCHANGED tip
           \/ \E target \in targets \ {NoBlock, tip[n]} :
                 LET stop == StopBlock(n, target)
                     left == IF Refused(n, stop) = {} THEN target ELSE NoBlock
                 IN  /\ ActivateBestChainStep(n, stop, marked)
                     /\ IF Worse(n, tip'[n], start)
                        THEN SetJob(n, t, Job("connect", left, start)) /\ UNCHANGED queue
                        ELSE /\ Announce(n, start, tip'[n])
                             /\ SetJob(n, t, IF left = tip'[n] THEN Idle
                                             ELSE Job("loop", left, NoBlock))
        /\ UNCHANGED <<headers, data>>

\* Who holds cs_main, and who may go on in ActivateBestChain (m_cs_chainstate).
MainIsFree(n) == \A t \in Threads : job[n][t].step # "connect"
MayActivate(n, t) ==
    \/ job[n][t].step = "loop"
    \/ /\ job[n][t].step = "activate"
       /\ \A u \in Threads : job[n][u].step \notin {"loop", "wait", "synced", "connect"}

-----------------------------------------------------------------------------
Init ==
    /\ headers = [n \in Nodes |-> {Genesis}]
    /\ data = [n \in Nodes |-> <<Genesis>>]
    /\ failed = [n \in Nodes |-> {}]
    /\ tip = [n \in Nodes |-> Genesis]
    /\ best = [n \in Nodes |-> NoBlock]
    /\ lockIndex = [n \in Nodes |-> NoBlock]
    /\ seen = [n \in Nodes |-> {}]
    /\ relayed = [n \in Nodes |-> {}]
    /\ lastSigned = [n \in Nodes |-> NoBlock]
    /\ recSig = [n \in Nodes |-> {}]
    /\ shares = {}
    /\ queue = [n \in Nodes |-> <<>>]
    /\ tasks = [n \in Nodes |-> {}]
    /\ job = [n \in Nodes |-> [t \in Threads |-> Idle]]

\* AcceptBlockHeader: the parent is known and not failed, and the block does not
\* conflict with the lock.
HeaderIsAcceptable(n, b) ==
    /\ b \notin headers[n]
    /\ Parent[b] \in headers[n] \ failed[n]
    /\ ~ InternalHasConflictingChainLock(n, b)

\* A header alone: AcceptBlock gave the block up after it had accepted the header.
AcceptBlockHeader(n, b) ==
    /\ job[n]["net"] = Idle
    /\ MainIsFree(n)
    /\ HeaderIsAcceptable(n, b)
    /\ headers' = [headers EXCEPT ![n] = @ \cup {b}]
    /\ queue' = [queue EXCEPT ![n] = Append(@, HeaderEvent(b))]
    /\ UNCHANGED <<data, failed, tip, lockVars, signVars, tasks, job>>

\* ProcessNewBlock: the header is accepted if it is new, the data is stored, and
\* the best chain is to be activated.
ProcessNewBlock(n, b) ==
    /\ job[n]["net"] = Idle
    /\ MainIsFree(n)
    /\ b \notin RangeOf(data[n])
    /\ Parent[b] \in RangeOf(data[n])
    /\ {b, Parent[b]} \cap failed[n] = {}
    /\ b \in headers[n] \/ HeaderIsAcceptable(n, b)
    /\ headers' = [headers EXCEPT ![n] = @ \cup {b}]
    /\ queue' = IF b \in headers[n] THEN queue
                ELSE [queue EXCEPT ![n] = Append(@, HeaderEvent(b))]
    /\ data' = [data EXCEPT ![n] = Append(@, b)]
    /\ SetJob(n, "net", Activate)
    /\ UNCHANGED <<failed, tip, lockVars, signVars, tasks>>

\* ActivateBestChain first waits for the callbacks if too many are pending: it
\* queues a callback of its own and waits until that one has run.
ActivateBestChain(n, t) ==
    /\ MayActivate(n, t)
    /\ MainIsFree(n)
    /\ Len(queue[n]) <= QueueLimit
    /\ ConnectRound(n, t)
    /\ UNCHANGED <<lockVars, signVars, tasks>>

SyncWithValidationInterfaceQueue(n, t) ==
    /\ MayActivate(n, t)
    /\ Len(queue[n]) > QueueLimit
    /\ queue' = [queue EXCEPT ![n] = Append(@, SyncEvent(t))]
    /\ SetJob(n, t, Job("wait", job[n][t].block, NoBlock))
    /\ UNCHANGED <<chainVars, lockVars, signVars, tasks>>

ActivateAfterSync(n, t) ==
    /\ job[n][t].step = "synced"
    /\ MainIsFree(n)
    /\ ConnectRound(n, t)
    /\ UNCHANGED <<lockVars, signVars, tasks>>

ActivateOn(n, t) ==
    /\ job[n][t].step = "connect"
    /\ ConnectRound(n, t)
    /\ UNCHANGED <<lockVars, signVars, tasks>>

-----------------------------------------------------------------------------
\* ProcessNewChainLock up to the verification: a CLSIG is looked at once, and
\* not if it is not higher than the best one.  The quorum of a height above the
\* tip cannot be selected, so such a CLSIG counts as invalid.
BeginChainLock(n, t, b) ==
    /\ seen' = [seen EXCEPT ![n] = @ \cup {b}]
    /\ job' = IF \/ b \in seen[n]
                 \/ Height[b] <= BestHeight(n)
                 \/ Height[b] > Height[tip[n]]
              THEN job
              ELSE [job EXCEPT ![n][t] = Job("lock", b, NoBlock)]
    /\ UNCHANGED <<best, lockIndex, relayed>>

\* ProcessMessage: a peer sends a CLSIG this node does not have yet.
ProcessMessage(n, b) ==
    /\ job[n]["net"] = Idle
    /\ MainIsFree(n)
    /\ b \in GetChainLockByHash(n)
    /\ b \notin seen[n]
    /\ BeginChainLock(n, "net", b)
    /\ UNCHANGED <<chainVars, signVars, queue, tasks>>

\* ProcessNewChainLock after the verification: cs was free in between, and only
\* the conflict is checked, not the height again.
ProcessNewChainLock(n, t) ==
    LET b == job[n][t].block
    IN  /\ job[n][t].step = "lock"
        /\ MainIsFree(n)
        /\ \/ /\ InternalHasConflictingChainLock(n, b)
              /\ SetJob(n, t, Idle)
              /\ UNCHANGED <<best, lockIndex, relayed>>
           \/ /\ ~ InternalHasConflictingChainLock(n, b)
              /\ best' = [best EXCEPT ![n] = b]
              /\ relayed' = [relayed EXCEPT ![n] = @ \cup {b}]
              /\ lockIndex' = IF b \in headers[n] THEN [lockIndex EXCEPT ![n] = b]
                              ELSE lockIndex
              /\ SetJob(n, t, IF b \in headers[n] THEN Enforce ELSE Idle)
        /\ UNCHANGED <<chainVars, seen, signVars, queue, tasks>>

\* EnforceBestChainLock reads the lock under cs ...
EnforceBestChainLock(n, t) ==
    /\ job[n][t].step = "enforce"
    /\ SetJob(n, t, Job("invalidate", lockIndex[n], NoBlock))
    /\ UNCHANGED <<chainVars, lockVars, signVars, queue, tasks>>

\* Mutant: the locked block itself is not left out of the siblings.
InvalidateSiblings_Self(n, t) ==
    LET path == Chain[job[n][t].block] \ Chain[tip[n]]
        siblings == {y \in headers[n] \ {Genesis} : \E x \in path : Parent[y] = Parent[x]}
        active == siblings \cap Chain[tip[n]]
    IN  /\ job[n][t].step = "invalidate"
        /\ MainIsFree(n)
        /\ failed' = [failed EXCEPT ![n] =
                        @ \cup UNION {FailedByInvalidate(tip[n], y) : y \in siblings}]
        /\ tip' = [tip EXCEPT ![n] =
                     IF active = {} THEN @
                     ELSE AfterInvalidate(@, CHOOSE y \in active : TRUE)]
        /\ SetJob(n, t, Activate)
        /\ UNCHANGED <<headers, data, lockVars, signVars, queue, tasks>>

\* Mutant: only the siblings of the locked block are invalidated, not those of
\* its ancestors.
InvalidateSiblings_LockOnly(n, t) ==
    LET path == {job[n][t].block} \ Chain[tip[n]]
        siblings == {y \in headers[n] \ (path \cup {Genesis}) :
                        \E x \in path : Parent[y] = Parent[x]}
        active == siblings \cap Chain[tip[n]]
    IN  /\ job[n][t].step = "invalidate"
        /\ MainIsFree(n)
        /\ failed' = [failed EXCEPT ![n] =
                        @ \cup UNION {FailedByInvalidate(tip[n], y) : y \in siblings}]
        /\ tip' = [tip EXCEPT ![n] =
                     IF active = {} THEN @
                     ELSE AfterInvalidate(@, CHOOSE y \in active : TRUE)]
        /\ SetJob(n, t, Activate)
        /\ UNCHANGED <<headers, data, lockVars, signVars, queue, tasks>>

\* ... and then, under cs_main, walks back from the locked block to the active
\* chain and invalidates every sibling on the way.
InvalidateSiblings(n, t) ==
    LET path == Chain[job[n][t].block] \ Chain[tip[n]]
        siblings == {y \in headers[n] \ (path \cup {Genesis}) :
                        \E x \in path : Parent[y] = Parent[x]}
        active == siblings \cap Chain[tip[n]]
    IN  /\ job[n][t].step = "invalidate"
        /\ MainIsFree(n)
        /\ failed' = [failed EXCEPT ![n] =
                        @ \cup UNION {FailedByInvalidate(tip[n], y) : y \in siblings}]
        /\ tip' = [tip EXCEPT ![n] =
                     IF active = {} THEN @
                     ELSE AfterInvalidate(@, CHOOSE y \in active : TRUE)]
        /\ SetJob(n, t, Activate)
        /\ UNCHANGED <<headers, data, lockVars, signVars, queue, tasks>>

\* HandleNewRecoveredSig: a CLSIG is made only of what this node signed last.
HandleNewRecoveredSig(n, b) ==
    /\ job[n]["worker"] = Idle
    /\ Recovered(b)
    /\ \A x \in recSig[n] : Height[x] # Height[b]
    /\ recSig' = [recSig EXCEPT ![n] = @ \cup {b}]
    /\ IF lastSigned[n] = b /\ BestHeight(n) < Height[b]
       THEN BeginChainLock(n, "worker", b)
       ELSE UNCHANGED <<lockVars, job>>
    /\ UNCHANGED <<chainVars, lastSigned, shares, queue, tasks>>

-----------------------------------------------------------------------------
(* Callbacks, run by the scheduler thread one after the other.             *)

Callback(n, kind) ==
    /\ job[n]["sched"] = Idle
    /\ queue[n] # <<>>
    /\ Head(queue[n]).kind = kind
    /\ queue' = [queue EXCEPT ![n] = Tail(@)]

\* Mutant: the late header is noted, but the lock is not enforced.
AcceptedBlockHeader_NotEnforced(n) ==
    LET b == Head(queue[n]).block
    IN  /\ Callback(n, "header")
        /\ MainIsFree(n)
        /\ lockIndex' = IF b = best[n] THEN [lockIndex EXCEPT ![n] = b] ELSE lockIndex
        /\ UNCHANGED <<chainVars, best, seen, relayed, signVars, tasks, job>>

\* The header of the best CLSIG came in late.
AcceptedBlockHeader(n) ==
    LET b == Head(queue[n]).block
    IN  /\ Callback(n, "header")
        /\ MainIsFree(n)
        /\ IF b = best[n]
           THEN /\ lockIndex' = [lockIndex EXCEPT ![n] = b]
                /\ SetJob(n, "sched", Enforce)
           ELSE UNCHANGED <<lockIndex, job>>
        /\ UNCHANGED <<chainVars, best, seen, relayed, signVars, tasks>>

\* UpdatedBlockTip with AsyncSignIfMember and Cleanup.  While a thread enforces a
\* lock, inEnforceBestChainLock may be seen and the invalidation left out.
UpdatedBlockTip(n) ==
    LET b == Head(queue[n]).block
        conflict == InternalHasConflictingChainLock(n, b)
        skip == BestHeight(n) >= Height[b]
                \/ (lastSigned[n] # NoBlock /\ Height[lastSigned[n]] = Height[b])
    IN  /\ Callback(n, "tip")
        /\ \/ /\ n \notin Gamemasters \/ (~ conflict /\ skip)
              /\ UNCHANGED <<tasks, seen, signVars>>
           \/ /\ n \in Gamemasters /\ conflict
              /\ \/ tasks' = [tasks EXCEPT ![n] = @ \cup {b}]
                 \/ /\ \E t \in Threads : job[n][t].step = "invalidate"
                    /\ UNCHANGED tasks
              /\ UNCHANGED <<seen, signVars>>
           \/ /\ n \in Gamemasters /\ ~ conflict /\ ~ skip
              /\ lastSigned' = [lastSigned EXCEPT ![n] = b]
              /\ shares' =
                   IF \E x \in recSig[n] \cup {s.block : s \in {r \in shares : r.node = n}} :
                         Height[x] = Height[b]
                   THEN shares
                   ELSE shares \cup {[node |-> n, block |-> b]}
              /\ \E old \in SUBSET seen[n] : seen' = [seen EXCEPT ![n] = @ \ old]
              /\ UNCHANGED <<tasks, recSig>>
        /\ UNCHANGED <<chainVars, best, lockIndex, relayed, job>>

\* The callback of a thread that waits in ActivateBestChain.
SyncCallback(n) ==
    /\ Callback(n, "sync")
    /\ job[n][Head(queue[n]).thread].step = "wait"
    /\ SetJob(n, Head(queue[n]).thread,
              Job("synced", job[n][Head(queue[n]).thread].block, NoBlock))
    /\ UNCHANGED <<chainVars, lockVars, signVars, tasks>>

\* The scheduled DoInvalidateBlock.
DoInvalidateBlock(n, b) ==
    /\ job[n]["sched"] = Idle
    /\ MainIsFree(n)
    /\ b \in tasks[n]
    /\ tasks' = [tasks EXCEPT ![n] = @ \ {b}]
    /\ failed' = [failed EXCEPT ![n] = @ \cup FailedByInvalidate(tip[n], b)]
    /\ tip' = [tip EXCEPT ![n] = AfterInvalidate(@, b)]
    /\ SetJob(n, "sched", Activate)
    /\ UNCHANGED <<headers, data, lockVars, signVars, queue>>

\* Nothing of the lock handler is on disk; the block index, the tip and the votes
\* are.  Blocks loaded from disk have lost their order of arrival (two of a height
\* may change places; restarts in a row give every order), and the best chain is
\* activated before messages are processed.
Restart(n) ==
    /\ best' = [best EXCEPT ![n] = NoBlock]
    /\ lockIndex' = [lockIndex EXCEPT ![n] = NoBlock]
    /\ seen' = [seen EXCEPT ![n] = {}]
    /\ lastSigned' = [lastSigned EXCEPT ![n] = NoBlock]
    /\ queue' = [queue EXCEPT ![n] = <<>>]
    /\ tasks' = [tasks EXCEPT ![n] = {}]
    /\ job' = [job EXCEPT ![n] = [t \in Threads |-> IF t = "net" THEN Activate ELSE Idle]]
    /\ \E i, j \in DOMAIN data[n] :
          /\ Height[data[n][i]] = Height[data[n][j]]
          /\ data' = [data EXCEPT ![n] = [@ EXCEPT ![i] = data[n][j], ![j] = data[n][i]]]
    /\ UNCHANGED <<headers, failed, tip, relayed, recSig, shares>>

\* What a thread does once it has a job, and what the scheduler thread runs.
ThreadStep(n, t) ==
    \/ ActivateBestChain(n, t)
    \/ SyncWithValidationInterfaceQueue(n, t)
    \/ ActivateAfterSync(n, t)
    \/ ActivateOn(n, t)
    \/ ProcessNewChainLock(n, t)
    \/ EnforceBestChainLock(n, t)
    \/ InvalidateSiblings(n, t)

SchedulerStep(n) ==
    \/ AcceptedBlockHeader(n)
    \/ UpdatedBlockTip(n)
    \/ SyncCallback(n)
    \/ \E b \in Blocks : DoInvalidateBlock(n, b)

NodeStep(n) ==
    \/ \E b \in Blocks : AcceptBlockHeader(n, b)
    \/ \E b \in Blocks : ProcessNewBlock(n, b)
    \/ \E b \in Blocks : ProcessMessage(n, b)
    \/ \E b \in Blocks : HandleNewRecoveredSig(n, b)
    \/ \E t \in Threads : ThreadStep(n, t)
    \/ SchedulerStep(n)
    \/ Restart(n)

Next == \E n \in Nodes : NodeStep(n)

Spec == Init /\ [][Next]_vars

\* Threads run: what a thread or the scheduler can always do, it does.  Nothing
\* is assumed of peers, of the other members or of restarts.
Fairness ==
    \A n \in Nodes : /\ \A t \in Threads : WF_vars(ThreadStep(n, t))
                     /\ WF_vars(SchedulerStep(n))

FairSpec == Spec /\ Fairness

-----------------------------------------------------------------------------
(* Properties.                                                             *)

\* Once a lock is enforced, the active chain never leaves it: the tip is an
\* ancestor or a descendant of the locked block.  ConnectBlock checks this
\* again because a thread in ActivateBestChain may still be heading for a block
\* that was invalidated while it had released cs_main.
LockedChainActive ==
    \A n \in Nodes :
        \/ lockIndex[n] = NoBlock
        \/ \E t \in Threads : job[n][t].step \in {"enforce", "invalidate"}
        \/ Comparable(tip[n], lockIndex[n])

\* The invariant behind it, with the types.  A change of the lock leaves a thread
\* that still has to enforce it: one that has not read the lock yet, or one that
\* has read this lock.  Every active block has its header in the index, so the
\* rival of a locked block is found among its siblings.
ChainIsKnown(n, b) == b # NoBlock => Chain[b] \subseteq headers[n]

JobIInv(n, t) ==
    /\ job[n][t].step = "enforce" => lockIndex[n] # NoBlock
    /\ job[n][t].step \in {"lock", "invalidate"} => job[n][t].block # NoBlock
    /\ job[n][t].step = "connect" => job[n][t].start # NoBlock
    /\ job[n][t].step \in {"activate", "loop", "wait", "synced", "connect"}
            => ChainIsKnown(n, job[n][t].block)

EnforcementPending(n) ==
    \E t \in Threads : \/ job[n][t].step = "enforce"
                       \/ job[n][t].step = "invalidate" /\ job[n][t].block = lockIndex[n]

NodeIInv(n) ==
    /\ ChainIsKnown(n, tip[n])
    /\ \A b \in headers[n] : Chain[b] \subseteq headers[n]
    /\ \A i \in 1 .. Len(data[n]) : ChainIsKnown(n, data[n][i])
    /\ \A t \in Threads : JobIInv(n, t)
    /\ \/ lockIndex[n] = NoBlock
       \/ Comparable(tip[n], lockIndex[n])
       \/ EnforcementPending(n)

ChainLocksIInv == TypeOK /\ \A n \in Nodes : NodeIInv(n)

\* The CLSIGs that can be recovered are on one branch.
LocksAgree ==
    \A a, b \in Blocks : Recovered(a) /\ Recovered(b) => Comparable(a, b)

\* Locks that agree never make a node give up a block of a locked chain: none of
\* them is marked failed, which no later step would undo.  This holds also before
\* the node has the CLSIG, and after a restart.
LockedNeverFailed ==
    LocksAgree => \A n \in Nodes, b \in Blocks :
                      Recovered(b) => Chain[b] \cap failed[n] = {}

\* The invariant behind it.  All that a node treats as a lock has enough shares,
\* and a block that is marked failed, or is going to be, is off the branch of such
\* a lock: from some ancestor on, which is no higher than the lock.
OffALock(b) ==
    \E l \in Blocks : /\ Recovered(l)
                      /\ \E x \in Chain[b] : Height[x] <= Height[l] /\ x \notin Chain[l]

FailureIInv ==
    /\ IsFiniteSet(shares)
    /\ \A n \in Nodes :
          /\ \A b \in relayed[n] : Recovered(b)
          /\ best[n] # NoBlock => Recovered(best[n])
          /\ lockIndex[n] # NoBlock => Recovered(lockIndex[n])
          /\ \A t \in Threads : job[n][t].step \in {"lock", "invalidate"}
                                    => Recovered(job[n][t].block)
          /\ \A b \in failed[n] \cup tasks[n] : OffALock(b)

\* A thread waits in ActivateBestChain for a callback that the scheduler thread will
\* not run: that thread waits itself, or for m_cs_chainstate, which the first holds.
CallbacksAreStuck(n) ==
    \E t \in Threads : /\ job[n][t].step = "wait"
                       /\ t = "sched" \/ job[n]["sched"].step = "activate"

\* A locked block whose data is there ends up on the active chain, unless another
\* lock or a restart replaces the lock: one of the threads invalidates the siblings
\* and activates the chain.  Only one thing keeps them from it, the deadlock of
\* ActivateBestChainReturns.
LockIsEnforced ==
    \A n \in Nodes : \A b \in Blocks :
        (lockIndex[n] = b /\ b \in RangeOf(data[n]))
            ~> (lockIndex[n] # b \/ b \in Chain[tip[n]] \/ CallbacksAreStuck(n))

\* ActivateBestChain comes back: a thread that waits for the callbacks to drain
\* is not waited for by the thread that runs them.
ActivateBestChainReturns ==
    \A n \in Nodes : \A t \in Threads :
        (job[n][t].step = "wait") ~> (job[n][t].step # "wait")
=============================================================================
