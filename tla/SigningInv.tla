----------------------------- MODULE SigningInv -----------------------------
(***************************************************************************)
(* Why a quorum cannot sign two messages for one id: the assumptions on    *)
(* quorum parameters and retention time that Signing needs, the inductive  *)
(* invariant, and the abstract specification it implements.                *)
(***************************************************************************)
EXTENDS Signing

\* Two sets of Threshold members share one that follows the protocol
\* (consensus/params.h: the threshold "should be at least 50%+1").
ASSUME MajorityAssumption ==
    /\ IsFiniteSet(Nodes)
    /\ \A q \in Quorums :
          Cardinality(Members[q]) + Cardinality(Members[q] \cap Faulty) < 2 * Threshold

\* Recovered signatures are kept longer than a quorum stays selectable.
ASSUME RetentionAssumption ==
    \A q \in Quorums, h1, h2 \in Times :
        q \in SigningPool(h1, h1) /\ q \in SigningPool(h2, h2)
        => h2 + MaxLag <= h1 + MaxAge

\* The quorum was selectable at a time so long ago that it no longer is.
Outlived(q) == \E h \in Times : q \in SigningPool(h, h) /\ h + MaxAge < now

\* What node n has signed or is about to sign.
Signed(n) ==
    pendingSigns[n] \cup
    {[quorum |-> s.quorum, id |-> s.id, msg |-> s.msg] :
        s \in {t \in shares : t.member = n}}

TipsAreRecent == \A n \in Nodes : tip[n] <= now /\ now <= tip[n] + MaxLag

\* A signature replaces the vote, and carries a time that has passed.
VoteOrSig ==
    \A n \in Nodes, id \in Ids :
        /\ HasRecoveredSigForId(n, id) => ~ HasVotedOnId(n, id)
        /\ recTime[n][id] <= now

\* A call that has voted is still guarded by its vote, or by a signature stored
\* while the call was running.
CallIsGuarded ==
    \A n \in Nodes : \A call \in signing[n] :
        \/ vote[n][call.id] = call.msg
        \/ HasRecoveredSigForId(n, call.id) /\ recTime[n][call.id] = now

\* What was signed is still guarded by the vote, or by a signature stored after
\* the quorum became selectable, or the quorum is no longer selectable.
SignedIsGuarded ==
    \A n \in Honest : \A s \in Signed(n) : \E h \in Times :
        /\ s.quorum \in SigningPool(h, h)
        /\ h <= now
        /\ \/ vote[n][s.id] = s.msg
           \/ HasRecoveredSigForId(n, s.id) /\ h <= recTime[n][s.id]
           \/ h + MaxAge < now

\* A call is the only one for its id, and repeats nothing that can still count.
CallIsFresh ==
    \A n \in Honest : \A call \in signing[n] :
        /\ \A other \in signing[n] : other.id = call.id => other = call
        /\ \A s \in Signed(n) :
              s.id = call.id => s.msg = call.msg \/ Outlived(s.quorum)

\* An honest node never signs two messages for one id in the same quorum.
SignedOnce ==
    \A n \in Honest : \A s, t \in Signed(n) :
        s.quorum = t.quorum /\ s.id = t.id => s.msg = t.msg

\* The inductive invariant behind NoConflictInQuorum.
SigningIInv ==
    /\ TypeOK
    /\ TipsAreRecent
    /\ VoteOrSig
    /\ CallIsGuarded
    /\ SignedIsGuarded
    /\ CallIsFresh
    /\ SignedOnce

-----------------------------------------------------------------------------
DecidedMsg(q, id) ==
    IF \E msg \in Msgs : Recoverable(q, id, msg)
    THEN CHOOSE msg \in Msgs : Recoverable(q, id, msg)
    ELSE NoMsg

\* A quorum decides when the threshold-th share is sent; a node keeps what it
\* has stored.
Decision == INSTANCE QuorumDecision WITH
    Keepers <- Honest,
    decided <- [q \in Quorums |-> [id \in Ids |-> DecidedMsg(q, id)]],
    kept <- [n \in Honest |-> recSig[n]]

\* Signing implements QuorumDecision: no quorum changes its decision, and no
\* honest node stores a signature of a message its quorum has not decided.
ImplementsDecision == Decision!Spec

=============================================================================
