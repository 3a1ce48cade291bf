------------------------------- MODULE Signing -------------------------------
(***************************************************************************)
(* Threshold signing among gamemasters: CSigningManager and its database   *)
(* CRecoveredSigsDb (llmq/quorums_signing.cpp) on every node, together     *)
(* with the part of CSigSharesManager that turns a vote into a signature   *)
(* share and enough shares into a recovered signature                      *)
(* (llmq/quorums_signing_shares.cpp).                                      *)
(*                                                                         *)
(* A node may vote once per signing id.  The vote is written to disk       *)
(* first; the quorum that is to sign is selected afterwards, outside the   *)
(* lock, from the node's own chain tip.  One LLMQ type is modelled: every  *)
(* database key carries the type, so different types never meet.           *)
(*                                                                         *)
(* Abstractions.  Nodes follow one chain and differ in how far behind they *)
(* are: a node's chain view is the height of its tip.  Time and height are *)
(* counted in the same unit, the block interval.  How shares travel from   *)
(* member to member is left out here: `shares' holds every share ever      *)
(* sent, and a member has received some part of it.                        *)
(***************************************************************************)
EXTENDS Integers, FiniteSets

CONSTANTS
    Nodes,          \* gamemasters
    Faulty,         \* gamemasters that need not follow the protocol
    Ids,            \* signing request ids
    Msgs,           \* message hashes a vote may be cast for
    Quorums,        \* quorums mined on the chain
    Members,        \* Members[q]: the valid members of q
    KeyHolders,     \* KeyHolders[q]: members holding q's key share and vvec
    QuorumHeight,   \* QuorumHeight[q]: height of the block that names q
    MinedHeight,    \* MinedHeight[q]: height of the block with its commitment
    Peers,          \* Peers[n]: nodes n receives recovered signatures from
    Score,          \* Score[q][id]: the hash that orders quorums for an id
    Threshold,      \* shares needed to recover a signature
    ActiveCount,    \* signingActiveQuorumCount
    SignOffset,     \* SIGN_HEIGHT_OFFSET
    MaxAge,         \* DEFAULT_MAX_RECOVERED_SIGS_AGE
    MaxLag,         \* a node's tip is at most this far behind
    MaxTime,        \* bound on the clock
    ByteBase,       \* number of values of one byte of a database key
    NoMsg, NoSig, NoQuorum

Honest == Nodes \ Faulty
Times == 0 .. MaxTime
Sigs == [quorum : Quorums, id : Ids, msg : Msgs]
Shares == [quorum : Quorums, id : Ids, msg : Msgs, member : Nodes]

ASSUME ConstantsAssumption ==
    /\ Faulty \subseteq Nodes
    /\ Members \in [Quorums -> SUBSET Nodes]
    /\ KeyHolders \in [Quorums -> SUBSET Nodes]
    /\ QuorumHeight \in [Quorums -> Nat]
    /\ MinedHeight \in [Quorums -> Nat]
    /\ Peers \in [Nodes -> SUBSET Nodes]
    /\ Score \in [Quorums -> [Ids -> Nat]]
    /\ Threshold \in Nat
    /\ ActiveCount \in Nat
    /\ SignOffset \in Nat
    /\ MaxAge \in Nat
    /\ MaxLag \in Nat
    /\ MaxTime \in Nat
    /\ ByteBase \in Nat \ {0}
    /\ MaxTime < ByteBase * ByteBase     \* a time has two bytes here
    /\ NoMsg \notin Msgs
    /\ NoSig \notin Sigs
    /\ NoQuorum \notin Quorums

VARIABLES
    now,            \* the clock, which is also the height of the best chain
    tip,            \* tip[n]: height of n's active chain
    vote,           \* vote[n][id]: the message n voted for (database key 'v')
    recSig,         \* recSig[n][id]: n's recovered signature (key 'r')
    recTime,        \* recTime[n][id]: when n stored it (key 't')
    signing,        \* signing[n]: AsyncSignIfMember calls past the vote
    pendingSigns,   \* pendingSigns[n]: signatures the worker has to make
    pendingRecSigs, \* pendingRecSigs[n]: received, not yet verified
    shares          \* every share sent so far

vars == <<now, tip, vote, recSig, recTime, signing, pendingSigns,
          pendingRecSigs, shares>>
db == <<vote, recSig, recTime>>

Calls == [id : Ids, msg : Msgs]
Mails == [from : Nodes, sig : Sigs]

TypeOK ==
    /\ now \in Times
    /\ tip \in [Nodes -> Times]
    /\ vote \in [Nodes -> [Ids -> Msgs \cup {NoMsg}]]
    /\ recSig \in [Nodes -> [Ids -> Sigs \cup {NoSig}]]
    /\ recTime \in [Nodes -> [Ids -> Times]]
    /\ signing \in [Nodes -> SUBSET Calls]
    /\ pendingSigns \in [Nodes -> SUBSET Sigs]
    /\ pendingRecSigs \in [Nodes -> SUBSET Mails]
    /\ shares \in SUBSET Shares

-----------------------------------------------------------------------------
(* Quorum selection.                                                       *)

\* HasQuorum: the commitment of q is mined on the chain up to height h.
HasQuorum(q, h) == MinedHeight[q] <= h

\* ScanQuorums walks back from block `start' and collects the first `count'
\* blocks that name a mined quorum.
ScanQuorums(h, start, count) ==
    LET found == {q \in Quorums : QuorumHeight[q] <= start /\ HasQuorum(q, h)}
    IN  {q \in found :
            Cardinality({r \in found : QuorumHeight[r] > QuorumHeight[q]}) < count}

SigningPool(h, signHeight) ==
    ScanQuorums(h, signHeight - SignOffset, ActiveCount)

\* The quorum of the pool whose hash with the id is smallest.
SelectQuorumForSigning(h, signHeight, id) ==
    LET pool == SigningPool(h, signHeight)
    IN  IF signHeight > h \/ pool = {}
        THEN NoQuorum
        ELSE CHOOSE q \in pool : \A r \in pool : Score[q][id] <= Score[r][id]

\* One quorum more than for signing is accepted when receiving.
IsQuorumActive(q, h) == q \in ScanQuorums(h, h, ActiveCount + 1)

-----------------------------------------------------------------------------
(* The database.                                                           *)

HasVotedOnId(n, id) == vote[n][id] # NoMsg
HasRecoveredSigForId(n, id) == recSig[n][id] # NoSig
HasRecoveredSigForHash(n, sig) == recSig[n][sig.id] = sig

\* Mutant: the vote is kept in memory only.
WriteVoteForId_NotWritten(n, id, msg) == UNCHANGED vote

WriteVoteForId(n, id, msg) == vote' = [vote EXCEPT ![n][id] = msg]

\* One batch: the signature, its time, and the vote is erased.
WriteRecoveredSig(n, sig) ==
    /\ recSig' = [recSig EXCEPT ![n][sig.id] = sig]
    /\ recTime' = [recTime EXCEPT ![n][sig.id] = now]
    /\ vote' = [vote EXCEPT ![n][sig.id] = NoMsg]

Expired(n, id) == recTime[n][id] + MaxAge < now

\* The time is part of the key as a little-endian integer, and the database
\* orders keys by their bytes: the low byte decides first.
KeyBefore(s, t) ==
    \/ s % ByteBase < t % ByteBase
    \/ s % ByteBase = t % ByteBase /\ s < t

\* Mutant: the scan does not stop at the end of the range.
ScannedIds_AnyAge(n) == {id \in Ids : HasRecoveredSigForId(n, id)}

\* The scan runs through the keys in order and stops at the first one that is
\* not old enough.
ScannedIds(n) ==
    {id \in Ids : /\ HasRecoveredSigForId(n, id)
                  /\ Expired(n, id)
                  /\ \A other \in Ids :
                        (/\ HasRecoveredSigForId(n, other)
                         /\ KeyBefore(recTime[n][other], recTime[n][id]))
                        => Expired(n, other)}

CleanupOldRecoveredSigs(n) ==
    /\ recSig' = [recSig EXCEPT ![n] =
                    [id \in Ids |-> IF id \in ScannedIds(n) THEN NoSig ELSE @[id]]]
    /\ vote' = [vote EXCEPT ![n] =
                    [id \in Ids |-> IF id \in ScannedIds(n) THEN NoMsg ELSE @[id]]]
    /\ UNCHANGED recTime

-----------------------------------------------------------------------------
(* Signatures.                                                             *)

Signers(q, id, msg) ==
    {n \in Nodes : [quorum |-> q, id |-> id, msg |-> msg, member |-> n] \in shares}

\* A signature verifies against the quorum's key only if it was recovered from
\* enough members' shares.
Recoverable(q, id, msg) ==
    Cardinality(Signers(q, id, msg) \cap Members[q]) >= Threshold

ValidSig(sig) == Recoverable(sig.quorum, sig.id, sig.msg)

ProcessRecoveredSig(n, sig) ==
    IF HasRecoveredSigForId(n, sig.id)
    THEN UNCHANGED db
    ELSE WriteRecoveredSig(n, sig)

-----------------------------------------------------------------------------
Init ==
    /\ now = 0
    /\ tip = [n \in Nodes |-> 0]
    /\ vote = [n \in Nodes |-> [id \in Ids |-> NoMsg]]
    /\ recSig = [n \in Nodes |-> [id \in Ids |-> NoSig]]
    /\ recTime = [n \in Nodes |-> [id \in Ids |-> 0]]
    /\ signing = [n \in Nodes |-> {}]
    /\ pendingSigns = [n \in Nodes |-> {}]
    /\ pendingRecSigs = [n \in Nodes |-> {}]
    /\ shares = {}

\* Mutant: a stored signature does not stop a second vote.
AsyncSignIfMember_VoteOnly(n, id, msg) ==
    /\ n \in Honest
    /\ ~ HasVotedOnId(n, id)
    /\ WriteVoteForId(n, id, msg)
    /\ signing' = [signing EXCEPT ![n] = @ \cup {[id |-> id, msg |-> msg]}]
    /\ UNCHANGED <<now, tip, recSig, recTime, pendingSigns, pendingRecSigs,
                   shares>>

\* AsyncSignIfMember, first half, under cs: refuse a second vote, then vote.
AsyncSignIfMember(n, id, msg) ==
    /\ n \in Honest
    /\ ~ HasVotedOnId(n, id)
    /\ ~ HasRecoveredSigForId(n, id)
    /\ WriteVoteForId(n, id, msg)
    /\ signing' = [signing EXCEPT ![n] = @ \cup {[id |-> id, msg |-> msg]}]
    /\ UNCHANGED <<now, tip, recSig, recTime, pendingSigns, pendingRecSigs,
                   shares>>

\* AsyncSignIfMember, second half: cs is released, the tip is read, a quorum is
\* selected.  Without a quorum, or outside it, the vote stays and nothing is
\* signed.
AsyncSign(n, call) ==
    LET q == SelectQuorumForSigning(tip[n], tip[n], call.id)
    IN  /\ call \in signing[n]
        /\ signing' = [signing EXCEPT ![n] = @ \ {call}]
        /\ pendingSigns' =
             IF q # NoQuorum /\ n \in Members[q]
             THEN [pendingSigns EXCEPT ![n] =
                     @ \cup {[quorum |-> q, id |-> call.id, msg |-> call.msg]}]
             ELSE pendingSigns
        /\ UNCHANGED <<now, tip, db, pendingRecSigs, shares>>

\* SignPendingSigShares takes the queue, Sign makes the share and
\* ProcessSigShare sends it unless the id has a recovered signature by now.
Sign(n, p) ==
    /\ p \in pendingSigns[n]
    /\ pendingSigns' = [pendingSigns EXCEPT ![n] = @ \ {p}]
    /\ shares' =
         IF n \in KeyHolders[p.quorum] /\ ~ HasRecoveredSigForId(n, p.id)
         THEN shares \cup {[quorum |-> p.quorum, id |-> p.id, msg |-> p.msg,
                            member |-> n]}
         ELSE shares
    /\ UNCHANGED <<now, tip, db, signing, pendingRecSigs>>

\* A faulty member may sign any message.
FaultySign(s) ==
    /\ s.member \in Faulty
    /\ shares' = shares \cup {s}
    /\ UNCHANGED <<now, tip, db, signing, pendingSigns, pendingRecSigs>>

\* Mutants: one share too few is enough; a stored signature is overwritten.
TryRecoverSig_OneShort(n, sig) ==
    /\ n \in Honest
    /\ n \in Members[sig.quorum] \cap KeyHolders[sig.quorum]
    /\ Cardinality(Signers(sig.quorum, sig.id, sig.msg)) >= Threshold - 1
    /\ ProcessRecoveredSig(n, sig)
    /\ UNCHANGED <<now, tip, signing, pendingSigns, pendingRecSigs, shares>>

TryRecoverSig_Overwrite(n, sig) ==
    /\ n \in Honest
    /\ n \in Members[sig.quorum] \cap KeyHolders[sig.quorum]
    /\ Recoverable(sig.quorum, sig.id, sig.msg)
    /\ WriteRecoveredSig(n, sig)
    /\ UNCHANGED <<now, tip, signing, pendingSigns, pendingRecSigs, shares>>

\* TryRecoverSig, reached from ProcessSigShare when a member holds enough
\* shares of one session.
TryRecoverSig(n, sig) ==
    /\ n \in Honest
    /\ n \in Members[sig.quorum] \cap KeyHolders[sig.quorum]
    /\ ~ HasRecoveredSigForId(n, sig.id)
    /\ Recoverable(sig.quorum, sig.id, sig.msg)
    /\ ProcessRecoveredSig(n, sig)
    /\ UNCHANGED <<now, tip, signing, pendingSigns, pendingRecSigs, shares>>

\* GetRecoveredSigForGetData: a node hands a stored signature to a peer that
\* asks for it only while its quorum is active.
GetRecoveredSigForGetData(n, id) ==
    IF HasRecoveredSigForId(n, id) /\ IsQuorumActive(recSig[n][id].quorum, tip[n])
    THEN {recSig[n][id]}
    ELSE {}

\* What peer p may send: its stored signatures, or anything if it is faulty.
Sendable(p) ==
    IF p \in Faulty
    THEN Sigs
    ELSE UNION {GetRecoveredSigForGetData(p, id) : id \in Ids}

\* ProcessMessageRecoveredSig with PreVerifyRecoveredSig: queued unless the
\* quorum is unknown or inactive or the signature is already there.
ProcessMessageRecoveredSig(n, m) ==
    /\ n \in Honest
    /\ m.from \in Peers[n]
    /\ m.sig \in Sendable(m.from)
    /\ HasQuorum(m.sig.quorum, tip[n])
    /\ IsQuorumActive(m.sig.quorum, tip[n])
    /\ ~ HasRecoveredSigForHash(n, m.sig)
    /\ pendingRecSigs' = [pendingRecSigs EXCEPT ![n] = @ \cup {m}]
    /\ UNCHANGED <<now, tip, db, signing, pendingSigns, shares>>

\* CollectPendingRecoveredSigsToVerify drops what is already there and what
\* belongs to a quorum that is no longer active.
Collectable(n, m) ==
    /\ ~ HasRecoveredSigForHash(n, m.sig)
    /\ HasQuorum(m.sig.quorum, tip[n])
    /\ IsQuorumActive(m.sig.quorum, tip[n])

\* Mutant: the signatures of a batch are processed without being verified.
ProcessPendingRecoveredSigs_Unverified(n, m) ==
    /\ m \in pendingRecSigs[n]
    /\ pendingRecSigs' = [pendingRecSigs EXCEPT ![n] = @ \ {m}]
    /\ ProcessRecoveredSig(n, m.sig)
    /\ UNCHANGED <<now, tip, signing, pendingSigns, shares>>

\* ProcessPendingRecoveredSigs, one signature: it is dropped, or it is valid
\* and processed, or it is invalid and everything of that sender in the same
\* batch is lost with it.
ProcessPendingRecoveredSigs(n, m) ==
    /\ m \in pendingRecSigs[n]
    /\ \/ /\ ~ Collectable(n, m)
          /\ pendingRecSigs' = [pendingRecSigs EXCEPT ![n] = @ \ {m}]
          /\ UNCHANGED db
       \/ /\ Collectable(n, m)
          /\ ValidSig(m.sig)
          /\ pendingRecSigs' = [pendingRecSigs EXCEPT ![n] = @ \ {m}]
          /\ ProcessRecoveredSig(n, m.sig)
       \/ /\ Collectable(n, m)
          /\ ~ ValidSig(m.sig)
          /\ \E batch \in SUBSET {p \in pendingRecSigs[n] : p.from = m.from} :
                /\ m \in batch
                /\ pendingRecSigs' = [pendingRecSigs EXCEPT ![n] = @ \ batch]
          /\ UNCHANGED db
    /\ UNCHANGED <<now, tip, signing, pendingSigns, shares>>

Cleanup(n) ==
    /\ ScannedIds(n) # {}
    /\ CleanupOldRecoveredSigs(n)
    /\ UNCHANGED <<now, tip, signing, pendingSigns, pendingRecSigs, shares>>

\* Mutant: votes do not survive the restart.
Restart_LosesVotes(n) ==
    /\ signing' = [signing EXCEPT ![n] = {}]
    /\ pendingSigns' = [pendingSigns EXCEPT ![n] = {}]
    /\ pendingRecSigs' = [pendingRecSigs EXCEPT ![n] = {}]
    /\ vote' = [vote EXCEPT ![n] = [id \in Ids |-> NoMsg]]
    /\ UNCHANGED <<now, tip, recSig, recTime, shares>>

\* The process dies and comes back: what was in memory is gone.
Restart(n) ==
    /\ signing' = [signing EXCEPT ![n] = {}]
    /\ pendingSigns' = [pendingSigns EXCEPT ![n] = {}]
    /\ pendingRecSigs' = [pendingRecSigs EXCEPT ![n] = {}]
    /\ UNCHANGED <<now, tip, db, shares>>

\* The node's active chain moves to another height, forwards or backwards.
UpdateTip(n, h) ==
    /\ h <= now /\ now <= h + MaxLag
    /\ tip' = [tip EXCEPT ![n] = h]
    /\ UNCHANGED <<now, db, signing, pendingSigns, pendingRecSigs, shares>>

\* A block interval passes.  A signing call and the worker's queue take far
\* less, so none is under way; and no node falls behind by more than MaxLag.
Tick ==
    /\ now < MaxTime
    /\ \A n \in Nodes : /\ signing[n] = {}
                        /\ pendingSigns[n] = {}
                        /\ now + 1 <= tip[n] + MaxLag
    /\ now' = now + 1
    /\ UNCHANGED <<tip, db, signing, pendingSigns, pendingRecSigs, shares>>

Next ==
    \/ \E n \in Nodes, id \in Ids, msg \in Msgs : AsyncSignIfMember(n, id, msg)
    \/ \E n \in Nodes : \E call \in signing[n] : AsyncSign(n, call)
    \/ \E n \in Nodes : \E p \in pendingSigns[n] : Sign(n, p)
    \/ \E s \in Shares : FaultySign(s)
    \/ \E n \in Nodes, sig \in Sigs : TryRecoverSig(n, sig)
    \/ \E n \in Nodes, m \in Mails : ProcessMessageRecoveredSig(n, m)
    \/ \E n \in Nodes : \E m \in pendingRecSigs[n] : ProcessPendingRecoveredSigs(n, m)
    \/ \E n \in Nodes : Cleanup(n)
    \/ \E n \in Nodes : Restart(n)
    \/ \E n \in Nodes, h \in Times : UpdateTip(n, h)
    \/ Tick

Spec == Init /\ [][Next]_vars

-----------------------------------------------------------------------------
(* Properties.                                                             *)

\* For one quorum and one id, shares of different messages never both reach the
\* threshold: votes survive restarts, and by the time a vote is forgotten
\* (WriteRecoveredSig erases it, the cleanup erases the signature) the quorum
\* can no longer be selected.
NoConflictInQuorum ==
    \A q \in Quorums, id \in Ids, m1, m2 \in Msgs :
        Recoverable(q, id, m1) /\ Recoverable(q, id, m2) => m1 = m2

\* Whatever an honest node has stored was recovered from enough shares, even
\* though faulty nodes send signatures that do not verify.
StoredSigsAreValid ==
    \A n \in Honest, id \in Ids :
        recSig[n][id] # NoSig => recSig[n][id].id = id /\ ValidSig(recSig[n][id])

\* A stored signature is never replaced by a conflicting one, and goes away
\* only after MaxAge: ProcessRecoveredSig keeps the first one.
StoredSigIsKept ==
    [][\A n \in Nodes, id \in Ids :
          recSig[n][id] # NoSig /\ recSig'[n][id] # recSig[n][id]
          => recSig'[n][id] = NoSig /\ Expired(n, id)]_vars
=============================================================================
