----------------------------- MODULE GMManager -----------------------------
(***************************************************************************)
(* CDeterministicGMManager (evo/deterministicgms.cpp): it writes the       *)
(* difference a block makes to the gamemaster list, and now and then the   *)
(* whole list, to the EvoDB, keeps both in caches, and puts the list of a  *)
(* block together from them.  One node, which connects and disconnects     *)
(* blocks, flushes, stops and starts again.                                *)
(*                                                                         *)
(* Abstractions.  ConnectTip and DisconnectTip hold cs_main and cs where   *)
(* it matters and are one step.  A flush, which holds cs_main, is the two  *)
(* steps of CommitRootTransaction, with the coins written in the second:   *)
(* what a crash between coins and EvoDB leaves is BlockProcessor's.  Stop  *)
(* and start, with or without a crash, are one step; the blocks VerifyDB   *)
(* undoes and restores then only add entries to the caches, as             *)
(* GetListForBlock does.  Which block is tried next, and whether it is     *)
(* valid for other reasons, is up to the environment.                      *)
(***************************************************************************)
EXTENDS GMBlock, GMListDiff

CONSTANTS
    SnapshotPeriod,     \* DISK_SNAPSHOT_PERIOD
    CacheSize,          \* LIST_DIFFS_CACHE_SIZE
    MaxHeight, MaxConnects, MaxStops    \* bounds

ASSUME CacheAssumption ==
    /\ SnapshotPeriod \in Nat \ {0}
    /\ CacheSize \in Nat /\ MaxHeight \in Nat /\ MaxConnects \in Nat /\ MaxStops \in Nat

VARIABLES
    aborted,        \* an assertion has failed: the process is gone
    tip,            \* tipIndex, and the tip of the active chain
    disk,           \* the EvoDB as flushed: diffs and snapshots by block, and the tip
    root,           \* what was committed to the EvoDB since
    batch,          \* rootBatch: what a flush has taken from root and not written yet
    flushing,       \* a flush is between the two
    lists, diffs,   \* gmListsCache, gmListDiffsCache
    connects, stops \* counters, for the bounds

vars == <<aborted, tip, disk, root, batch, flushing, lists, diffs, connects, stops>>
flushVars == <<batch, flushing>>
-----------------------------------------------------------------------------
Nothing == [diffs |-> Empty, snaps |-> Empty]
Merge(f, g) == [x \in DOMAIN f \cup DOMAIN g |-> IF x \in DOMAIN f THEN f[x] ELSE g[x]]

\* The database: written since the last flush, or flushed.  What is in the batch is
\* not read.
HasDiff(b) == b \in DOMAIN root.diffs \cup DOMAIN disk.diffs
ReadDiff(b) == Merge(root.diffs, disk.diffs)[b]

\* A snapshot that is on disk is deserialised; LevelDB's Read turns an exception
\* into "not found".
ReadSnapshot(b) ==
    IF b \in DOMAIN root.snaps THEN root.snaps[b] ELSE Unserialize(disk.snaps[b])
HasSnapshot(b) ==
    /\ b \in DOMAIN root.snaps \cup DOMAIN disk.snaps
    /\ ReadSnapshot(b).err # "throw"

\* emplace: nothing happens if there is an entry.
Emplace(f, k, v) == IF k \in DOMAIN f THEN f ELSE Put(f, k, v)

\* GetListForBlock goes back from block b to the first block whose list is known,
\* or for which there is no data: its height.
KnownHeight(b, ls, ds) ==
    Max({n \in 0 .. Height(b) :
            LET p == Ancestor(b, n)
            IN  \/ p \in DOMAIN ls
                \/ HasSnapshot(p)
                \/ p \notin DOMAIN ds /\ ~HasDiff(p)})

KnownList(p, ls) ==
    IF p \in DOMAIN ls THEN ls[p]
    ELSE IF HasSnapshot(p) THEN ReadSnapshot(p)
    ELSE IF p = << >> THEN EmptyList
    ELSE Fail(EmptyList, "throw")

\* The diffs of the blocks above height n are loaded into the cache.
LoadDiffs(b, n, ds) ==
    LET path == {Ancestor(b, k) : k \in n + 1 .. Height(b)}
    IN  [p \in DOMAIN ds \cup path |-> IF p \in DOMAIN ds THEN ds[p] ELSE ReadDiff(p)]

ApplyDiffs(b, n, list, ds) ==
    FoldInOrder(LAMBDA l, k : IF HasChanges(ds[Ancestor(b, k)])
                           THEN ApplyDiff(l, k, ds[Ancestor(b, k)])
                           ELSE [l EXCEPT !.height = k],
             list, [i \in 1 .. Height(b) - n |-> n + i])

\* A list and the caches; the list of the tip is always kept.
ListAndCaches(b, list, ls, ds) ==
    [list |-> list,
     lists |-> IF b = tip /\ Ok(list) THEN Emplace(ls, b, list) ELSE ls,
     diffs |-> ds]

ListFromBase(b, n, base, ls, ds) ==
    ListAndCaches(b, ApplyDiffs(b, n, base, ds),
                  IF Ok(base) THEN Emplace(ls, Ancestor(b, n), base) ELSE ls, ds)

ListFromHeight(b, n, ls, ds) ==
    ListFromBase(b, n, KnownList(Ancestor(b, n), ls), ls, LoadDiffs(b, n, ds))

\* GetListForBlock: the list of block b, and the caches it leaves.
GetListForBlock(b, ls, ds) ==
    IF b = << >> THEN [list |-> EmptyList, lists |-> ls, diffs |-> ds]
    ELSE ListFromHeight(b, KnownHeight(b, ls, ds), ls, ds)

CleanupCache(ls, ds, height) ==
    [lists |-> [b \in {b \in DOMAIN ls : ls[b].height + CacheSize >= height} |-> ls[b]],
     diffs |-> [b \in {b \in DOMAIN ds : Height(b) + CacheSize >= height} |-> ds[b]]]

\* CheckSpecialTx with the list of the parent, then BuildNewListFromBlock.
NewList(b, old, quorumList) ==
    IF ~Ok(old) THEN old
    ELSE IF \E tx \in Range(Txs(b)) : ~CheckSpecialTx(old, b, tx) THEN Fail(old, "reject")
    ELSE BuildNewListFromBlock(old, Height(b), Txs(b), quorumList)

Validated(b, old, quorum) ==
    [old |-> old.list, new |-> NewList(b, old.list, quorum.list),
     lists |-> quorum.lists, diffs |-> quorum.diffs]

\* The list of the quorum is read if there is a commitment.
ReadQuorumList(b, old) ==
    IF QuorumBlock(b) # b /\ \E tx \in Range(Txs(b)) : tx.type = "LLMQCOMM"
    THEN GetListForBlock(QuorumBlock(b), old.lists, old.diffs) ELSE old

ValidateOn(b, old) == Validated(b, old, ReadQuorumList(b, old))
Validate(b) == ValidateOn(b, GetListForBlock(tip, lists, diffs))

WritesSnapshot(v, b) == Height(b) % SnapshotPeriod = 0 \/ v.old.height = Never

\* The writes and the cache entries of ProcessBlock, for a block b that v found
\* valid and that makes the difference diff.
ProcessBlock(v, b, diff) ==
    LET snap == WritesSnapshot(v, b)
        caches == CleanupCache(IF snap THEN Emplace(v.lists, b, v.new) ELSE v.lists,
                               Emplace(v.diffs, b, diff), Height(b))
    IN  [root |-> [diffs |-> Put(root.diffs, b, diff),
                   snaps |-> IF snap THEN Put(root.snaps, b, v.new) ELSE root.snaps],
         lists |-> caches.lists, diffs |-> caches.diffs]
-----------------------------------------------------------------------------
Init ==
    LET ls == ListsOf(Start)
        blocks == {Ancestor(Start, n) : n \in 1 .. Height(Start)}
    IN  /\ aborted = FALSE
        /\ tip = Start
        /\ disk = [tip |-> Start,
                   diffs |-> [b \in blocks |-> BuildDiff(ls[Height(b)], ls[Height(b) + 1])],
                   snaps |-> [b \in {b \in blocks : \/ Height(b) % SnapshotPeriod = 0
                                                    \/ Height(b) = 1} |-> ls[Height(b) + 1]]]
        /\ root = Nothing
        /\ batch = Nothing
        /\ flushing = FALSE
        /\ lists = Empty
        /\ diffs = Empty
        /\ connects = 0
        /\ stops = 0

\* The process is gone.
Abort ==
    /\ aborted' = TRUE
    /\ UNCHANGED <<tip, disk, root, lists, diffs>>

\* ConnectTip, or TestBlockValidity.  The rest of ConnectBlock may find the
\* block invalid, which rolls back the writes to the database.
ConnectTip(c) ==
    LET b == Append(tip, c)
    IN  /\ ~aborted /\ ~flushing
        /\ Height(b) <= MaxHeight /\ connects < MaxConnects
        /\ Minable(tip, c)
        /\ connects' = connects + 1
        /\ UNCHANGED <<stops, flushVars>>
        /\ \E v \in {Validate(b)} :
            \/ /\ v.new.err = "abort"
               /\ Abort
            \/ /\ v.new.err # "abort"
               /\ lists' = v.lists
               /\ diffs' = v.diffs
               /\ UNCHANGED <<aborted, tip, disk, root>>
            \/ /\ Ok(v.new)
               /\ \E p \in {ProcessBlock(v, b, BuildDiff(v.old, v.new))} :
                    /\ lists' = p.lists
                    /\ diffs' = p.diffs
                    /\ \/ root' = p.root /\ tip' = b
                       \/ UNCHANGED <<root, tip>>
               /\ UNCHANGED <<aborted, disk>>

\* DisconnectTip: UndoBlock, which needs the lists of the block and its parent if
\* they differ, then SetTipIndex.
UndoBlock(now) ==
    \E before \in {GetListForBlock(Front(tip), now.lists, now.diffs)} :
        \/ /\ "abort" \in {now.list.err, before.list.err}
           /\ Abort
        \/ /\ Ok(now.list) /\ Ok(before.list)
           /\ lists' = Drop(before.lists, tip)
           /\ diffs' = Drop(before.diffs, tip)
           /\ tip' = Front(tip)
           /\ UNCHANGED <<aborted, disk, root>>

DisconnectTip ==
    /\ ~aborted /\ ~flushing
    /\ tip # Start
    /\ UNCHANGED <<connects, stops, flushVars>>
    /\ IF HasChanges(ReadDiff(tip))
       THEN \E now \in {GetListForBlock(tip, lists, diffs)} : UndoBlock(now)
       ELSE /\ lists' = Drop(lists, tip)
            /\ diffs' = Drop(diffs, tip)
            /\ tip' = Front(tip)
            /\ UNCHANGED <<aborted, disk, root>>

\* Another thread asks for the list of a block that has been connected; it does not
\* hold cs_main, so it may do so within a flush.
Known == DOMAIN root.diffs \cup DOMAIN batch.diffs \cup DOMAIN disk.diffs
ReadList(b) ==
    /\ ~aborted
    /\ \E r \in {GetListForBlock(b, lists, diffs)} :
        \/ r.list.err = "abort" /\ Abort
        \/ /\ r.list.err # "abort"
           /\ lists' = r.lists
           /\ diffs' = r.diffs
           /\ UNCHANGED <<aborted, tip, disk, root>>
    /\ UNCHANGED <<connects, stops, flushVars>>

\* FlushStateToDisk: CommitRootTransaction empties the root transaction into
\* rootBatch, then writes rootBatch to LevelDB; it does not lock the EvoDB.
CommitRootTransaction ==
    /\ ~aborted /\ ~flushing
    /\ flushing' = TRUE
    /\ batch' = root
    /\ root' = Nothing
    /\ UNCHANGED <<aborted, tip, disk, lists, diffs, connects, stops>>

WriteRootBatch ==
    /\ ~aborted /\ flushing
    /\ disk' = [tip |-> tip, diffs |-> Merge(batch.diffs, disk.diffs),
                snaps |-> Merge(batch.snaps, disk.snaps)]
    /\ batch' = Nothing
    /\ flushing' = FALSE
    /\ UNCHANGED <<aborted, tip, root, lists, diffs, connects, stops>>

Restart ==
    /\ aborted \/ stops < MaxStops
    /\ stops' = IF stops < MaxStops THEN stops + 1 ELSE stops
    /\ aborted' = FALSE
    /\ tip' = disk.tip
    /\ root' = Nothing
    /\ batch' = Nothing
    /\ flushing' = FALSE
    /\ lists' = Empty
    /\ diffs' = Empty
    /\ UNCHANGED <<disk, connects>>

Next ==
    \/ \E c \in DOMAIN Contents : ConnectTip(c)
    \/ DisconnectTip
    \/ \E b \in Known : ReadList(b)
    \/ CommitRootTransaction
    \/ WriteRootBatch
    \/ Restart

Spec == Init /\ [][Next]_vars
-----------------------------------------------------------------------------
\* Two lists are the same up to internal ids, which a node gives out as it goes:
\* a gamemaster that comes and goes in one block takes an id in a snapshot but
\* not in a diff.
SameList(l, m) ==
    LET anonymous(x) == [h \in DOMAIN x.gmMap |-> [x.gmMap[h] EXCEPT !.id = 0]]
    IN  /\ anonymous(l) = anonymous(m)
        /\ l.props = m.props
        /\ l.height = m.height

\* Some gamemaster is without an operator key in a list of the sequence.
EverRevoked(ls) ==
    \E n \in DOMAIN ls : \E h \in DOMAIN ls[n].gmMap :
        ls[n].gmMap[h].state.operator = Null

Agrees(list, ls) ==
    /\ Ok(list) => SameList(list, Last(ls))
    /\ ~Ok(list) => \/ list.err = "abort" /\ EverRevoked(ls)
                    \/ list.err = "throw" /\ flushing

\* Whatever the caches and the database hold, after reorganisations, failed
\* blocks, flushes and restarts, GetListForBlock returns for every connected block
\* the list that its chain implies.  It fails on the assertion on revoked operator
\* keys, and reports a corrupt database within a flush only, where what
\* CommitRootTransaction has not written yet is not found; such a read leaves
\* nothing wrong in the caches.
ListIsThatOfTheChain ==
    ~aborted =>
        \A b \in Known : Agrees(GetListForBlock(b, lists, diffs).list, ListsOf(b))

\* Adding and deleting unique properties never fails an assertion: "assert(v !=
\* nullValue)" and "assert(oldValue != nullValue)" in deterministicgms.h.
NoAssertionFails == ~aborted
=============================================================================
