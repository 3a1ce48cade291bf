---------------------------- MODULE SigningProof ----------------------------
(***************************************************************************)
(* Proofs about Signing, for any number of nodes, quorums, ids, messages   *)
(* and any clock bound: the inductive invariant of SigningInv, and from it *)
(* that no quorum signs two messages for one id.                           *)
(***************************************************************************)
EXTENDS SigningInv, FiniteSetTheorems, WellFoundedInduction, TLAPS

-----------------------------------------------------------------------------
(* Quorum selection.                                                       *)

\* Among the quorums of a non-empty pool one has the smallest score, so
\* SelectQuorumForSigning returns a quorum of the pool.
LEMMA MinimalScore ==
    ASSUME NEW pool \in SUBSET Quorums, pool # {}, NEW id \in Ids
    PROVE  \E q \in pool : \A r \in pool : Score[q][id] <= Score[r][id]
<1> DEFINE Scores == {Score[q][id] : q \in pool}
<1>1. \A q \in pool : Score[q][id] \in Nat
  BY ConstantsAssumption
<1>2. Scores \subseteq Nat /\ Scores # {}
  BY <1>1, Zenon
<1>3. PICK x \in Scores : \A y \in Scores : ~ (<<y, x>> \in OpToRel(<, Nat))
  <2> HIDE DEF Scores
  <2> QED  BY <1>2, NatLessThanWellFounded, WFMin, Zenon
<1>4. \A y \in Scores : ~ (y < x)
  BY <1>2, <1>3, Zenon DEF OpToRel
<1>5. PICK q \in pool : x = Score[q][id]
  BY Zenon
<1>6. \A r \in pool : Score[r][id] \in Scores
  BY Zenon
<1>7. \A r \in pool : Score[q][id] <= Score[r][id]
  <2> HIDE DEF Scores
  <2> QED  BY <1>1, <1>4, <1>5, <1>6
<1> QED  BY <1>7, Zenon

\* A selected quorum is in the pool it was selected from.
LEMMA SelectedIsInPool ==
    ASSUME NEW h \in Times, NEW id \in Ids,
           SelectQuorumForSigning(h, h, id) # NoQuorum
    PROVE  /\ SelectQuorumForSigning(h, h, id) \in Quorums
           /\ SelectQuorumForSigning(h, h, id) \in SigningPool(h, h)
<1> DEFINE pool == SigningPool(h, h)
<1>1. pool \in SUBSET Quorums
  BY Zenon DEF SigningPool, ScanQuorums
<1>2. pool # {} /\ ~ (h > h)
  BY Zenon DEF SelectQuorumForSigning
<1>3. \E q \in pool : \A r \in pool : Score[q][id] <= Score[r][id]
  BY <1>1, <1>2, MinimalScore, Zenon
<1>4. SelectQuorumForSigning(h, h, id)
        = CHOOSE q \in pool : \A r \in pool : Score[q][id] <= Score[r][id]
  BY <1>2, Zenon DEF SelectQuorumForSigning
<1> HIDE DEF pool
<1>5. SelectQuorumForSigning(h, h, id) \in pool
  BY <1>3, <1>4, Zenon
<1> QED  BY <1>1, <1>5, Zenon DEF pool

\* A quorum selected at a recent tip has not been outlived: signatures are kept
\* longer than a quorum stays selectable.
LEMMA SelectedIsNotOutlived ==
    ASSUME NEW q \in Quorums, NEW h \in Times, q \in SigningPool(h, h),
           now \in Times, now <= h + MaxLag
    PROVE  ~ Outlived(q)
<1> SUFFICES ASSUME NEW g \in Times, q \in SigningPool(g, g), g + MaxAge < now
             PROVE  FALSE
  BY Zenon DEF Outlived
<1>1. h + MaxLag <= g + MaxAge
  BY RetentionAssumption, Zenon
<1> QED  BY <1>1, ConstantsAssumption DEF Times

-----------------------------------------------------------------------------
(* Types.                                                                  *)

\* What WriteRecoveredSig writes has the types of the database.
LEMMA WriteType ==
    ASSUME TypeOK, NEW n \in Nodes, NEW sig \in Sigs, WriteRecoveredSig(n, sig)
    PROVE  /\ vote' \in [Nodes -> [Ids -> Msgs \cup {NoMsg}]]
           /\ recSig' \in [Nodes -> [Ids -> Sigs \cup {NoSig}]]
           /\ recTime' \in [Nodes -> [Ids -> Times]]
BY Zenon DEF TypeOK, WriteRecoveredSig, Sigs

\* Every step of the signing managers keeps the state well-typed.
LEMMA TypeStep == TypeOK /\ [Next]_vars => TypeOK'
<1> SUFFICES ASSUME TypeOK, [Next]_vars PROVE TypeOK'
  BY Zenon
<1>1. ASSUME NEW n \in Nodes, NEW id \in Ids, NEW msg \in Msgs,
             AsyncSignIfMember(n, id, msg)
      PROVE  TypeOK'
  BY <1>1 DEF TypeOK, AsyncSignIfMember, WriteVoteForId, Calls
<1>2. ASSUME NEW n \in Nodes, NEW call \in signing[n], AsyncSign(n, call)
      PROVE  TypeOK'
  <2> DEFINE q == SelectQuorumForSigning(tip[n], tip[n], call.id)
  <2>1. call \in Calls /\ call.id \in Ids /\ call.msg \in Msgs /\ tip[n] \in Times
    BY DEF TypeOK, Calls
  <2>2. q # NoQuorum => q \in Quorums
    BY <2>1, SelectedIsInPool, Zenon
  <2> HIDE DEF q
  <2>3. q # NoQuorum => [quorum |-> q, id |-> call.id, msg |-> call.msg] \in Sigs
    BY <2>1, <2>2, Zenon DEF Sigs
  <2>4. pendingSigns' \in [Nodes -> SUBSET Sigs]
    BY <1>2, <2>3, Zenon DEF TypeOK, AsyncSign, q
  <2>5. signing' \in [Nodes -> SUBSET Calls]
    BY <1>2, Zenon DEF TypeOK, AsyncSign
  <2> QED  BY <1>2, <2>4, <2>5, Zenon DEF TypeOK, AsyncSign, db
<1>3. ASSUME NEW n \in Nodes, NEW p \in pendingSigns[n], Sign(n, p)
      PROVE  TypeOK'
  BY <1>3 DEF TypeOK, Sign, Sigs, Shares, db
<1>4. ASSUME NEW s \in Shares, FaultySign(s)
      PROVE  TypeOK'
  BY <1>4, Zenon DEF TypeOK, FaultySign, db
<1>5. ASSUME NEW n \in Nodes, NEW sig \in Sigs, TryRecoverSig(n, sig)
      PROVE  TypeOK'
  BY <1>5, WriteType, Zenon DEF TypeOK, TryRecoverSig, ProcessRecoveredSig, db
<1>6. ASSUME NEW n \in Nodes, NEW m \in Mails, ProcessMessageRecoveredSig(n, m)
      PROVE  TypeOK'
  BY <1>6, Zenon DEF TypeOK, ProcessMessageRecoveredSig, db
<1>7. ASSUME NEW n \in Nodes, NEW m \in pendingRecSigs[n],
             ProcessPendingRecoveredSigs(n, m)
      PROVE  TypeOK'
  <2>1. m.sig \in Sigs
    BY DEF TypeOK, Mails
  <2>2. pendingRecSigs' \in [Nodes -> SUBSET Mails]
    BY <1>7, ZenonT(20) DEF TypeOK, ProcessPendingRecoveredSigs
  <2>3. UNCHANGED db \/ WriteRecoveredSig(n, m.sig)
    BY <1>7, Zenon DEF ProcessPendingRecoveredSigs, ProcessRecoveredSig
  <2> QED  BY <1>7, <2>1, <2>2, <2>3, WriteType, Zenon
           DEF TypeOK, ProcessPendingRecoveredSigs, db
<1>8. ASSUME NEW n \in Nodes, Cleanup(n)
      PROVE  TypeOK'
  BY <1>8, Zenon DEF TypeOK, Cleanup, CleanupOldRecoveredSigs
<1>9. ASSUME NEW n \in Nodes, Restart(n)
      PROVE  TypeOK'
  BY <1>9, Zenon DEF TypeOK, Restart, db
<1>10. ASSUME NEW n \in Nodes, NEW h \in Times, UpdateTip(n, h)
       PROVE  TypeOK'
  BY <1>10, Zenon DEF TypeOK, UpdateTip, db
<1>11. CASE Tick
  BY <1>11, ConstantsAssumption DEF TypeOK, Tick, Times, db
<1>12. CASE UNCHANGED vars
  BY <1>12, Zenon DEF TypeOK, vars
<1> QED  BY <1>1, <1>2, <1>3, <1>4, <1>5, <1>6, <1>7, <1>8, <1>9, <1>10, <1>11,
            <1>12, Zenon DEF Next

-----------------------------------------------------------------------------
(* The inductive invariant.                                                *)

\* What a node signed are quorum, id and message.
LEMMA SignedType ==
    ASSUME TypeOK, NEW n \in Nodes
    PROVE  Signed(n) \subseteq Sigs
BY DEF TypeOK, Signed, Sigs, Shares

\* A step that writes nothing to the database, starts no call and signs nothing
\* new preserves the invariant.
LEMMA QuietStep ==
    ASSUME SigningIInv, TypeOK', TipsAreRecent', now' = now, UNCHANGED db,
           \A n \in Nodes : signing'[n] \subseteq signing[n],
           \A n \in Honest : Signed(n)' \subseteq Signed(n)
    PROVE  SigningIInv'
<1>1. VoteOrSig'
  BY Zenon DEF SigningIInv, VoteOrSig, HasRecoveredSigForId, HasVotedOnId, db
<1>2. CallIsGuarded'
  BY Zenon DEF SigningIInv, CallIsGuarded, HasRecoveredSigForId, db
<1>3. SignedIsGuarded'
  BY ZenonT(20) DEF SigningIInv, SignedIsGuarded, HasRecoveredSigForId, db, Honest, Times,
         SigningPool, ScanQuorums, HasQuorum
<1>4. \A q : Outlived(q)' <=> Outlived(q)
  BY Zenon DEF Outlived, SigningPool, ScanQuorums, HasQuorum
<1>5. CallIsFresh'
  BY <1>4, Zenon DEF SigningIInv, CallIsFresh, Honest
<1>6. SignedOnce'
  BY Zenon DEF SigningIInv, SignedOnce
<1> QED  BY <1>1, <1>2, <1>3, <1>5, <1>6, Zenon DEF SigningIInv

\* Storing a recovered signature erases the vote, but the signature takes over
\* as the guard of everything signed so far.
LEMMA StoreStep ==
    ASSUME SigningIInv, TypeOK', NEW n \in Nodes, NEW sig \in Sigs,
           WriteRecoveredSig(n, sig),
           UNCHANGED <<now, tip, signing, pendingSigns, shares>>
    PROVE  SigningIInv'
<1> USE DEF WriteRecoveredSig, HasRecoveredSigForId, HasVotedOnId
<1>0. sig.id \in Ids /\ sig # NoSig /\ now \in Nat
  BY ConstantsAssumption DEF Sigs, SigningIInv, TypeOK, Times
<1>1. TipsAreRecent'
  BY Zenon DEF SigningIInv, TipsAreRecent
<1>2. VoteOrSig'
  BY <1>0 DEF SigningIInv, VoteOrSig, TypeOK
<1>3. CallIsGuarded'
  BY <1>0 DEF SigningIInv, CallIsGuarded, TypeOK
<1>4. \A m \in Nodes : Signed(m)' = Signed(m)
  BY Zenon DEF Signed
<1>5. SignedIsGuarded'
  <2> SUFFICES ASSUME NEW m \in Honest, NEW s \in Signed(m)
               PROVE  \E h \in Times :
                         /\ s.quorum \in SigningPool(h, h)
                         /\ h <= now
                         /\ \/ vote'[m][s.id] = s.msg
                            \/ recSig'[m][s.id] # NoSig /\ h <= recTime'[m][s.id]
                            \/ h + MaxAge < now
    BY <1>4, ZenonT(20) DEF SignedIsGuarded, Honest, SigningPool, ScanQuorums, HasQuorum
  <2>1. PICK h \in Times :
           /\ s.quorum \in SigningPool(h, h)
           /\ h <= now
           /\ \/ vote[m][s.id] = s.msg
              \/ recSig[m][s.id] # NoSig /\ h <= recTime[m][s.id]
              \/ h + MaxAge < now
    BY Zenon DEF SigningIInv, SignedIsGuarded
  <2>2. s \in Sigs /\ s.id \in Ids /\ m \in Nodes
    BY SignedType, Zenon DEF Honest, SigningIInv, Sigs
  <2>3. CASE m = n /\ s.id = sig.id
    BY <1>0, <2>1, <2>2, <2>3, Zenon DEF SigningIInv, TypeOK
  <2>4. CASE ~ (m = n /\ s.id = sig.id)
    BY <1>0, <2>1, <2>2, <2>4, Zenon DEF SigningIInv, TypeOK
  <2> QED  BY <2>3, <2>4, Zenon
<1>6. \A q : Outlived(q)' <=> Outlived(q)
  BY Zenon DEF Outlived, SigningPool, ScanQuorums, HasQuorum
<1>7. CallIsFresh'
  BY <1>4, <1>6, Zenon DEF SigningIInv, CallIsFresh, Honest
<1>8. SignedOnce'
  BY <1>4, Zenon DEF SigningIInv, SignedOnce, Honest
<1> QED  BY <1>1, <1>2, <1>3, <1>5, <1>7, <1>8, Zenon DEF SigningIInv

\* A vote is cast only when there is neither a vote nor a signature, so that
\* everything signed for the id before is outlived.
LEMMA VoteStep ==
    ASSUME SigningIInv, TypeOK', NEW n \in Nodes, NEW id \in Ids, NEW msg \in Msgs,
           AsyncSignIfMember(n, id, msg)
    PROVE  SigningIInv'
<1> USE DEF AsyncSignIfMember, WriteVoteForId, HasRecoveredSigForId, HasVotedOnId
<1> DEFINE call == [id |-> id, msg |-> msg]
<1>0. NoMsg \notin Msgs
  BY ConstantsAssumption, Zenon
<1>1. TipsAreRecent'
  BY Zenon DEF SigningIInv, TipsAreRecent
<1>2. VoteOrSig'
  BY Zenon DEF SigningIInv, VoteOrSig, TypeOK
<1>3. \A m \in Nodes : \A c \in signing[m] : c.id \in Ids /\ c.msg \in Msgs
  BY DEF SigningIInv, TypeOK, Calls
<1>4. \A c \in signing[n] : c.id # id
  BY <1>0, <1>3, Zenon DEF SigningIInv, CallIsGuarded
<1>5. \A m \in Nodes : \A c \in signing'[m] :
         c \in signing[m] \/ (m = n /\ c = call)
  BY Zenon DEF SigningIInv, TypeOK
<1>6. CallIsGuarded'
  BY <1>3, <1>4, <1>5 DEF SigningIInv, CallIsGuarded, TypeOK
<1>7. \A m \in Nodes : Signed(m)' = Signed(m)
  BY Zenon DEF Signed
<1>8. \A m \in Honest : \A s \in Signed(m) :
         m \in Nodes /\ s \in Sigs /\ s.id \in Ids /\ s.msg \in Msgs /\ s.quorum \in Quorums
  BY SignedType, Zenon DEF Honest, SigningIInv, Sigs
<1>9. SignedIsGuarded'
  <2>1. \A m \in Honest : \A s \in Signed(m) :
           vote[m][s.id] = s.msg => vote'[m][s.id] = s.msg
    BY <1>0, <1>8 DEF SigningIInv, TypeOK
  <2>2. now' = now /\ recSig' = recSig /\ recTime' = recTime
    BY Zenon
  <2>3. SignedIsGuarded
    BY Zenon DEF SigningIInv
  <2> SUFFICES ASSUME NEW m \in Honest, NEW s \in Signed(m)
               PROVE  \E h \in Times :
                        /\ s.quorum \in SigningPool(h, h)
                        /\ h <= now
                        /\ \/ vote'[m][s.id] = s.msg
                           \/ recSig[m][s.id] # NoSig /\ h <= recTime[m][s.id]
                           \/ h + MaxAge < now
    BY <1>7, <1>8, <2>2 DEF SignedIsGuarded, Honest, SigningPool, ScanQuorums, HasQuorum
  <2> QED  BY <2>1, <2>3, Zenon DEF SignedIsGuarded
<1>10. \A q : Outlived(q)' <=> Outlived(q)
  BY Zenon DEF Outlived, SigningPool, ScanQuorums, HasQuorum
<1>11. \A s \in Signed(n) : s.id = id => Outlived(s.quorum)
  BY <1>0, <1>8, Zenon DEF SigningIInv, SignedIsGuarded, Outlived
<1>12. CallIsFresh'
  <2> HIDE DEF AsyncSignIfMember, call
  <2>1. call.id = id
    BY Zenon DEF call
  <2>2. ASSUME NEW m \in Honest, NEW c \in signing'[m]
        PROVE  /\ \A other \in signing'[m] : other.id = c.id => other = c
               /\ \A s \in Signed(m) :
                     s.id = c.id => s.msg = c.msg \/ Outlived(s.quorum)
    BY <1>4, <1>5, <1>11, <2>1 DEF SigningIInv, CallIsFresh, Honest
  <2> QED  BY <1>7, <1>10, <2>2, Zenon DEF CallIsFresh, Honest
<1>13. SignedOnce'
  BY <1>7 DEF SigningIInv, SignedOnce, Honest
<1> QED  BY <1>1, <1>2, <1>6, <1>9, <1>12, <1>13, Zenon DEF SigningIInv

\* What a call hands to the worker agrees with everything signed for the same
\* quorum and id, because a quorum that can be selected is not outlived.
LEMMA SignStep ==
    ASSUME SigningIInv, TypeOK', NEW n \in Nodes, NEW call \in signing[n],
           AsyncSign(n, call)
    PROVE  SigningIInv'
<1> DEFINE q == SelectQuorumForSigning(tip[n], tip[n], call.id)
           new == [quorum |-> q, id |-> call.id, msg |-> call.msg]
<1>0. /\ n \in Nodes /\ call.id \in Ids /\ call.msg \in Msgs
      /\ tip[n] \in Times /\ now \in Times
      /\ tip[n] <= now /\ now <= tip[n] + MaxLag
  BY DEF Honest, SigningIInv, TypeOK, Calls, TipsAreRecent
<1>1. \A m \in Nodes : Signed(m)' = Signed(m) \/ (m = n /\ q # NoQuorum
                                                /\ Signed(m)' = Signed(m) \cup {new})
  <2> HIDE DEF q
  <2>1. \/ pendingSigns' = pendingSigns
        \/ /\ q # NoQuorum
           /\ pendingSigns' = [pendingSigns EXCEPT ![n] = @ \cup {new}]
    BY Zenon DEF AsyncSign, q
  <2>2. shares' = shares
    BY Zenon DEF AsyncSign
  <2> HIDE DEF new
  <2> QED  BY <1>0, <2>1, <2>2 DEF Signed, SigningIInv, TypeOK
<1>2. q # NoQuorum => q \in Quorums /\ q \in SigningPool(tip[n], tip[n])
  BY <1>0, SelectedIsInPool, Zenon
<1>3. q # NoQuorum => ~ Outlived(q)
  BY <1>0, <1>2, SelectedIsNotOutlived, Zenon
<1>4. UNCHANGED <<now, tip, vote, recSig, recTime>>
  BY Zenon DEF AsyncSign, db
<1>5. \A m \in Nodes : \A c \in signing'[m] :
         c \in signing[m] /\ ~ (m = n /\ c = call)
  BY Zenon DEF AsyncSign, SigningIInv, TypeOK
<1>6. \A r : Outlived(r)' <=> Outlived(r)
  BY <1>4, Zenon DEF Outlived, SigningPool, ScanQuorums, HasQuorum
<1> HIDE DEF q
<1>7. new.quorum = q /\ new.id = call.id /\ new.msg = call.msg
  BY Zenon
<1> HIDE DEF new
<1>8. TipsAreRecent' /\ VoteOrSig'
  BY <1>4, Zenon DEF SigningIInv, TipsAreRecent, VoteOrSig, HasRecoveredSigForId, HasVotedOnId
<1>9. CallIsGuarded'
  BY <1>4, <1>5, Zenon DEF SigningIInv, CallIsGuarded, HasRecoveredSigForId
<1>10. SignedIsGuarded'
  <2> SUFFICES ASSUME NEW m \in Honest, NEW s \in Signed(m)'
               PROVE  \E h \in Times :
                         /\ s.quorum \in SigningPool(h, h)
                         /\ h <= now
                         /\ \/ vote[m][s.id] = s.msg
                            \/ recSig[m][s.id] # NoSig /\ h <= recTime[m][s.id]
                            \/ h + MaxAge < now
    BY <1>4, Zenon DEF SignedIsGuarded, Honest, SigningPool, ScanQuorums, HasQuorum,
                HasRecoveredSigForId
  <2>1. CASE s \in Signed(m)
    BY <2>1, Zenon DEF SigningIInv, SignedIsGuarded, HasRecoveredSigForId
  <2>2. CASE s \notin Signed(m)
    <3>1. m = n /\ s = new /\ q # NoQuorum
      BY <1>1, <2>2 DEF Honest
    <3>2. \/ vote[n][call.id] = call.msg
          \/ recSig[n][call.id] # NoSig /\ recTime[n][call.id] = now
      BY <1>0, Zenon DEF SigningIInv, CallIsGuarded, HasRecoveredSigForId
    <3>3. /\ tip[n] \in Times
          /\ s.quorum \in SigningPool(tip[n], tip[n])
          /\ tip[n] <= now
          /\ \/ vote[m][s.id] = s.msg
             \/ recSig[m][s.id] # NoSig /\ tip[n] <= recTime[m][s.id]
      BY <1>0, <1>2, <1>7, <3>1, <3>2, Zenon
    <3> QED  BY <3>3, Zenon
  <2> QED  BY <2>1, <2>2, Zenon
<1>11. CallIsFresh'
  <2>1. ASSUME NEW m \in Honest, NEW c \in signing'[m]
        PROVE  /\ \A other \in signing'[m] : other.id = c.id => other = c
               /\ \A s \in Signed(m)' :
                     s.id = c.id => s.msg = c.msg \/ Outlived(s.quorum)
    BY <1>1, <1>5, <1>7 DEF SigningIInv, CallIsFresh, Honest
  <2> QED  BY <1>6, <2>1, Zenon DEF CallIsFresh, Honest
<1>12. SignedOnce'
  <2>1. n \in Honest => \A s \in Signed(n) :
           q # NoQuorum /\ s.quorum = q /\ s.id = call.id => s.msg = call.msg
    BY <1>3, Zenon DEF SigningIInv, CallIsFresh
  <2> QED  BY <1>1, <1>7, <2>1 DEF SigningIInv, SignedOnce, Honest
<1> QED  BY <1>8, <1>9, <1>10, <1>11, <1>12, Zenon DEF SigningIInv

\* The cleanup erases a signature only when everything it guarded is outlived.
LEMMA CleanupStep ==
    ASSUME SigningIInv, TypeOK', NEW n \in Nodes, Cleanup(n)
    PROVE  SigningIInv'
<1> USE DEF HasRecoveredSigForId, HasVotedOnId
<1>0. UNCHANGED <<now, tip, signing, pendingSigns, shares, recTime>>
  BY Zenon DEF Cleanup, CleanupOldRecoveredSigs
<1>1. \A m \in Nodes, id \in Ids :
         \/ vote'[m][id] = vote[m][id] /\ recSig'[m][id] = recSig[m][id]
         \/ /\ vote'[m][id] = NoMsg /\ recSig'[m][id] = NoSig
            /\ recSig[m][id] # NoSig /\ recTime[m][id] + MaxAge < now
  BY Zenon DEF Cleanup, CleanupOldRecoveredSigs, ScannedIds, Expired, SigningIInv, TypeOK
<1>2. /\ NoMsg \notin Msgs /\ now \in Nat /\ MaxAge \in Nat
      /\ \A m \in Nodes, id \in Ids : recTime[m][id] \in Nat
  BY ConstantsAssumption DEF SigningIInv, TypeOK, Times
<1>3. \A m \in Nodes, id \in Ids :
         vote[m][id] \in Msgs => recSig[m][id] = NoSig
  BY <1>2, Zenon DEF SigningIInv, VoteOrSig
<1>4. TipsAreRecent' /\ VoteOrSig'
  <2>1. TipsAreRecent'
    BY <1>0, Zenon DEF SigningIInv, TipsAreRecent
  <2>2. \A m \in Nodes, id \in Ids :
           (recSig[m][id] # NoSig => vote[m][id] = NoMsg) /\ recTime[m][id] <= now
    BY Zenon DEF SigningIInv, VoteOrSig
  <2>3. \A m \in Nodes, id \in Ids : recSig'[m][id] # NoSig => vote'[m][id] = NoMsg
    BY <1>1, <2>2
  <2>4. VoteOrSig'
    BY <1>0, <2>2, <2>3, Zenon DEF VoteOrSig
  <2> QED  BY <2>1, <2>4, Zenon
<1>5. \A m \in Nodes : \A c \in signing[m] : c.id \in Ids /\ c.msg \in Msgs
  BY DEF SigningIInv, TypeOK, Calls
<1>6. CallIsGuarded'
  BY <1>0, <1>1, <1>2, <1>3, <1>5 DEF SigningIInv, CallIsGuarded
<1>7. \A m \in Nodes : Signed(m)' = Signed(m)
  BY <1>0, Zenon DEF Signed
<1>8. SignedIsGuarded'
  <2> SUFFICES ASSUME NEW m \in Honest, NEW s \in Signed(m)
               PROVE  \E h \in Times :
                         /\ s.quorum \in SigningPool(h, h)
                         /\ h <= now
                         /\ \/ vote'[m][s.id] = s.msg
                            \/ recSig'[m][s.id] # NoSig /\ h <= recTime[m][s.id]
                            \/ h + MaxAge < now
    BY <1>0, <1>7, ZenonT(20) DEF SignedIsGuarded, Honest, SigningPool, ScanQuorums, HasQuorum
  <2>1. PICK h \in Times :
           /\ s.quorum \in SigningPool(h, h)
           /\ h <= now
           /\ \/ vote[m][s.id] = s.msg
              \/ recSig[m][s.id] # NoSig /\ h <= recTime[m][s.id]
              \/ h + MaxAge < now
    BY Zenon DEF SigningIInv, SignedIsGuarded
  <2>2. s.id \in Ids /\ s.msg \in Msgs /\ m \in Nodes /\ h \in Nat
    BY SignedType DEF Honest, SigningIInv, Sigs, Times
  <2> QED  BY <1>1, <1>2, <1>3, <2>1, <2>2
<1>9. \A q : Outlived(q)' <=> Outlived(q)
  BY <1>0, Zenon DEF Outlived, SigningPool, ScanQuorums, HasQuorum
<1>10. CallIsFresh'
  BY <1>0, <1>7, <1>9, Zenon DEF SigningIInv, CallIsFresh, Honest
<1>11. SignedOnce'
  BY <1>7, Zenon DEF SigningIInv, SignedOnce, Honest
<1> QED  BY <1>4, <1>6, <1>8, <1>10, <1>11, Zenon DEF SigningIInv

\* Time passes only between calls; what is outlived stays so.
LEMMA TickStep ==
    ASSUME SigningIInv, TypeOK', Tick
    PROVE  SigningIInv'
<1> USE DEF Tick, db, HasRecoveredSigForId, HasVotedOnId
<1>0. /\ now \in Nat /\ now' = now + 1 /\ MaxLag \in Nat /\ MaxAge \in Nat
      /\ \A m \in Nodes : tip[m] \in Nat /\ \A id \in Ids : recTime[m][id] \in Nat
      /\ Times \subseteq Nat
  BY ConstantsAssumption DEF SigningIInv, TypeOK, Times
<1>1. TipsAreRecent'
  BY <1>0 DEF SigningIInv, TipsAreRecent
<1>2. VoteOrSig'
  BY <1>0 DEF SigningIInv, VoteOrSig
<1>3. CallIsGuarded' /\ CallIsFresh'
  BY Zenon DEF CallIsGuarded, CallIsFresh, Honest
<1>4. \A m \in Nodes : Signed(m)' = Signed(m)
  BY Zenon DEF Signed
<1>5. SignedIsGuarded'
  <2> SUFFICES ASSUME NEW m \in Honest, NEW s \in Signed(m)
               PROVE  \E h \in Times :
                         /\ s.quorum \in SigningPool(h, h)
                         /\ h <= now + 1
                         /\ \/ vote[m][s.id] = s.msg
                            \/ recSig[m][s.id] # NoSig /\ h <= recTime[m][s.id]
                            \/ h + MaxAge < now + 1
    BY <1>4 DEF SignedIsGuarded, Honest, SigningPool, ScanQuorums, HasQuorum
  <2>1. PICK h \in Times :
           /\ s.quorum \in SigningPool(h, h)
           /\ h <= now
           /\ \/ vote[m][s.id] = s.msg
              \/ recSig[m][s.id] # NoSig /\ h <= recTime[m][s.id]
              \/ h + MaxAge < now
    BY Zenon DEF SigningIInv, SignedIsGuarded
  <2> QED  BY <1>0, <2>1
<1>6. SignedOnce'
  BY <1>4, Zenon DEF SigningIInv, SignedOnce, Honest
<1> QED  BY <1>1, <1>2, <1>3, <1>5, <1>6, Zenon DEF SigningIInv

\* Every step preserves the inductive invariant.
LEMMA InvStep == SigningIInv /\ [Next]_vars => SigningIInv'
<1> SUFFICES ASSUME SigningIInv, [Next]_vars PROVE SigningIInv'
  BY Zenon
<1>0. TypeOK /\ TypeOK'
  BY TypeStep, Zenon DEF SigningIInv
<1>a. UNCHANGED <<now, tip>> => TipsAreRecent'
  BY Zenon DEF SigningIInv, TipsAreRecent
<1>b. UNCHANGED <<pendingSigns, shares>> => \A n \in Honest : Signed(n)' \subseteq Signed(n)
  BY Zenon DEF Signed
<1>1. ASSUME NEW n \in Nodes, NEW id \in Ids, NEW msg \in Msgs,
             AsyncSignIfMember(n, id, msg)
      PROVE  SigningIInv'
  BY <1>0, <1>1, VoteStep, Zenon
<1>2. ASSUME NEW n \in Nodes, NEW call \in signing[n], AsyncSign(n, call)
      PROVE  SigningIInv'
  BY <1>0, <1>2, SignStep, Zenon
<1>3. ASSUME NEW n \in Nodes, NEW p \in pendingSigns[n], Sign(n, p)
      PROVE  SigningIInv'
  <2> DEFINE share == [quorum |-> p.quorum, id |-> p.id, msg |-> p.msg, member |-> n]
  <2>1. p \in Sigs
    BY <1>0, Zenon DEF TypeOK
  <2>2. p = [quorum |-> share.quorum, id |-> share.id, msg |-> share.msg]
    BY <2>1, Zenon DEF Sigs
  <2>3. shares' \subseteq shares \cup {share} /\ share.member = n
    BY <1>3, Zenon DEF Sign
  <2>4. \A m \in Nodes : pendingSigns'[m] \subseteq pendingSigns[m]
    BY <1>0, <1>3, Zenon DEF Sign, TypeOK
  <2> HIDE DEF share
  <2>5. \A m \in Nodes : Signed(m)' \subseteq Signed(m)
    BY <2>2, <2>3, <2>4, Zenon DEF Signed
  <2> QED  BY <1>0, <1>a, <1>3, <2>5, QuietStep, Zenon DEF Sign, Honest
<1>4. ASSUME NEW s \in Shares, FaultySign(s)
      PROVE  SigningIInv'
  <2>1. \A m \in Honest : Signed(m)' \subseteq Signed(m)
    BY <1>4, Zenon DEF FaultySign, Signed, Honest
  <2> QED  BY <1>0, <1>a, <1>4, <2>1, QuietStep, Zenon DEF FaultySign
<1>5. ASSUME NEW n \in Nodes, NEW sig \in Sigs, TryRecoverSig(n, sig)
      PROVE  SigningIInv'
  BY <1>0, <1>5, StoreStep, Zenon DEF TryRecoverSig, ProcessRecoveredSig
<1>6. ASSUME NEW n \in Nodes, NEW m \in Mails, ProcessMessageRecoveredSig(n, m)
      PROVE  SigningIInv'
  BY <1>0, <1>a, <1>b, <1>6, QuietStep, Zenon DEF ProcessMessageRecoveredSig
<1>7. ASSUME NEW n \in Nodes, NEW m \in pendingRecSigs[n],
             ProcessPendingRecoveredSigs(n, m)
      PROVE  SigningIInv'
  <2>1. m.sig \in Sigs
    BY <1>0 DEF TypeOK, Mails
  <2>2. UNCHANGED <<now, tip, signing, pendingSigns, shares>>
    BY <1>7, Zenon DEF ProcessPendingRecoveredSigs
  <2>3. CASE UNCHANGED db
    BY <1>0, <1>a, <1>b, <2>2, <2>3, QuietStep, Zenon
  <2>4. CASE WriteRecoveredSig(n, m.sig)
    BY <1>0, <2>1, <2>2, <2>4, StoreStep, Zenon
  <2> QED  BY <1>7, <2>3, <2>4, Zenon DEF ProcessPendingRecoveredSigs, ProcessRecoveredSig
<1>8. ASSUME NEW n \in Nodes, Cleanup(n)
      PROVE  SigningIInv'
  BY <1>0, <1>8, CleanupStep, Zenon
<1>9. ASSUME NEW n \in Nodes, Restart(n)
      PROVE  SigningIInv'
  <2>1. /\ \A m \in Nodes : signing'[m] \subseteq signing[m]
        /\ \A m \in Nodes : pendingSigns'[m] \subseteq pendingSigns[m]
    BY <1>0, <1>9, Zenon DEF Restart, TypeOK
  <2>2. \A m \in Honest : Signed(m)' \subseteq Signed(m)
    BY <1>9, <2>1, Zenon DEF Restart, Signed, Honest
  <2> QED  BY <1>0, <1>a, <1>9, <2>1, <2>2, QuietStep, Zenon DEF Restart
<1>10. ASSUME NEW n \in Nodes, NEW h \in Times, UpdateTip(n, h)
       PROVE  SigningIInv'
  <2>1. TipsAreRecent'
    BY <1>0, <1>10, Zenon DEF UpdateTip, SigningIInv, TipsAreRecent, TypeOK
  <2> QED  BY <1>0, <1>b, <1>10, <2>1, QuietStep, Zenon DEF UpdateTip
<1>11. CASE Tick
  BY <1>0, <1>11, TickStep, Zenon
<1>12. CASE UNCHANGED vars
  BY <1>0, <1>a, <1>b, <1>12, QuietStep, Zenon DEF vars, db
<1> QED  BY Zenon, <1>1, <1>2, <1>3, <1>4, <1>5, <1>6, <1>7, <1>8, <1>9, <1>10, <1>11,
            <1>12 DEF Next

\* The invariant holds in the initial state, where nothing is stored or signed.
LEMMA InvInit == Init => SigningIInv
<1> SUFFICES ASSUME Init PROVE SigningIInv
  BY Zenon
<1>1. TypeOK
  BY ConstantsAssumption DEF Init, TypeOK, Times
<1>2. TipsAreRecent /\ VoteOrSig /\ CallIsGuarded
  BY ConstantsAssumption
  DEF Init, TipsAreRecent, VoteOrSig, CallIsGuarded, HasRecoveredSigForId
<1>3. \A n \in Honest : Signed(n) = {} /\ signing[n] = {}
  BY Zenon DEF Init, Signed, Honest
<1> QED  BY <1>1, <1>2, <1>3, Zenon
         DEF SigningIInv, SignedIsGuarded, CallIsFresh, SignedOnce

\* SigningIInv is an invariant of the signing managers: votes, stored signatures
\* and shares stay consistent across restarts, races and cleanup.
THEOREM SigningInvariant == Spec => []SigningIInv
BY InvInit, InvStep, PTL DEF Spec

-----------------------------------------------------------------------------
(* No quorum signs two messages for one id.                                *)

\* Two sets of Threshold members of a quorum share an honest member.
LEMMA QuorumsIntersect ==
    ASSUME NEW q \in Quorums,
           NEW A \in SUBSET Members[q], Cardinality(A) >= Threshold,
           NEW B \in SUBSET Members[q], Cardinality(B) >= Threshold
    PROVE  \E n \in A \cap B : n \in Honest
<1> SUFFICES ASSUME \A n \in A \cap B : n \notin Honest PROVE FALSE
  BY Zenon
<1> DEFINE M == Members[q]
           F == Members[q] \cap Faulty
<1>1. M \in SUBSET Nodes /\ IsFiniteSet(Nodes)
  BY ConstantsAssumption, MajorityAssumption, Zenon
<1>2. IsFiniteSet(M)
  BY <1>1, FS_Subset, Zenon
<1>3. IsFiniteSet(A) /\ IsFiniteSet(B) /\ IsFiniteSet(F)
  BY <1>2, FS_Subset, Zenon
<1>4. A \cap B \in SUBSET F
  BY <1>1, Zenon DEF Honest
<1>5. Cardinality(A \cap B) <= Cardinality(F)
  BY <1>3, <1>4, FS_Subset, Zenon
<1>6. Cardinality(A \cup B) <= Cardinality(M)
  BY <1>2, FS_Subset, Zenon
<1>7. Cardinality(A \cup B) = Cardinality(A) + Cardinality(B) - Cardinality(A \cap B)
  BY <1>3, FS_Union, Zenon
<1>8. /\ Cardinality(A) \in Nat /\ Cardinality(B) \in Nat
      /\ Cardinality(M) \in Nat /\ Cardinality(F) \in Nat
  BY <1>2, <1>3, FS_CardinalityType, Zenon
<1>9. Cardinality(A \cap B) \in Nat
  BY <1>3, FS_Subset, FS_CardinalityType, Zenon
<1>10. Cardinality(M) + Cardinality(F) < 2 * Threshold /\ Threshold \in Nat
  BY MajorityAssumption, ConstantsAssumption, Zenon
<1> HIDE DEF M, F
<1> QED  BY <1>5, <1>6, <1>7, <1>8, <1>9, <1>10

\* The member in both signed both messages, so they are the same.
LEMMA InvNoConflict == SigningIInv => NoConflictInQuorum
<1> SUFFICES ASSUME SigningIInv, NEW q \in Quorums, NEW id \in Ids,
                    NEW m1 \in Msgs, NEW m2 \in Msgs,
                    Recoverable(q, id, m1), Recoverable(q, id, m2)
             PROVE  m1 = m2
  BY Zenon DEF NoConflictInQuorum
<1>1. PICK n \in Honest :
         n \in Signers(q, id, m1) /\ n \in Signers(q, id, m2)
  BY QuorumsIntersect DEF Recoverable
<1> DEFINE s1 == [quorum |-> q, id |-> id, msg |-> m1]
           s2 == [quorum |-> q, id |-> id, msg |-> m2]
           t1 == [quorum |-> q, id |-> id, msg |-> m1, member |-> n]
           t2 == [quorum |-> q, id |-> id, msg |-> m2, member |-> n]
<1>2. t1 \in shares /\ t2 \in shares
  BY <1>1, Zenon DEF Signers
<1>3. s1 \in Signed(n) /\ s2 \in Signed(n)
  <2>1. /\ t1 \in {t \in shares : t.member = n} /\ t2 \in {t \in shares : t.member = n}
        /\ s1 = [quorum |-> t1.quorum, id |-> t1.id, msg |-> t1.msg]
        /\ s2 = [quorum |-> t2.quorum, id |-> t2.id, msg |-> t2.msg]
    BY <1>2, Zenon
  <2> HIDE DEF s1, s2, t1, t2
  <2> QED  BY <2>1, Zenon DEF Signed
<1>4. s1.quorum = s2.quorum /\ s1.id = s2.id => s1.msg = s2.msg
  BY <1>3, Zenon DEF SigningIInv, SignedOnce
<1> QED  BY <1>4, Zenon

\* No quorum ever reaches the threshold for two messages with one id, as long as
\* faulty members are few enough for the threshold and recovered signatures
\* outlive the selectability of their quorum.
THEOREM NoConflict == Spec => []NoConflictInQuorum
BY SigningInvariant, InvNoConflict, PTL

-----------------------------------------------------------------------------
(* Stored signatures.                                                      *)

\* A share once sent keeps counting.
LEMMA RecoverableIsStable ==
    ASSUME NEW q \in Quorums, NEW id \in Ids, NEW msg \in Msgs,
           shares \subseteq shares', Recoverable(q, id, msg)
    PROVE  Recoverable(q, id, msg)'
<1> DEFINE A == Signers(q, id, msg) \cap Members[q]
           B == Signers(q, id, msg)' \cap Members[q]
<1>1. A \in SUBSET B
  BY Zenon DEF Signers
<1>2. IsFiniteSet(B)
  <2>1. B \in SUBSET Nodes
    BY Zenon DEF Signers
  <2> QED  BY <2>1, MajorityAssumption, FS_Subset, Zenon
<1>3. Cardinality(A) <= Cardinality(B)
  BY <1>1, <1>2, FS_Subset, Zenon
<1>4. Cardinality(A) \in Nat /\ Cardinality(B) \in Nat
  BY <1>1, <1>2, FS_Subset, FS_CardinalityType, Zenon
<1>5. Cardinality(A) >= Threshold
  BY Zenon DEF Recoverable
<1>6. Threshold \in Nat
  BY ConstantsAssumption, Zenon
<1>7. Cardinality(B) >= Threshold
  <2> HIDE DEF A, B
  <2> QED  BY <1>3, <1>4, <1>5, <1>6
<1> QED  BY <1>7, Zenon DEF Recoverable

\* No step takes a share back.
LEMMA SharesGrow == TypeOK /\ [Next]_vars => shares \subseteq shares'
BY Zenon DEF Next, vars, AsyncSignIfMember, AsyncSign, Sign, FaultySign, TryRecoverSig,
       ProcessMessageRecoveredSig, ProcessPendingRecoveredSigs, Cleanup, Restart,
       UpdateTip, Tick

\* What a step does to the stored signatures of one node: nothing, or one valid
\* signature is stored where there was none, or old ones are erased.
LEMMA StoreCases ==
    ASSUME TypeOK, [Next]_vars
    PROVE  \/ recSig' = recSig
           \/ \E n \in Nodes, sig \in Sigs :
                 /\ recSig[n][sig.id] = NoSig
                 /\ ValidSig(sig)
                 /\ shares' = shares
                 /\ recSig' = [recSig EXCEPT ![n][sig.id] = sig]
           \/ \E n \in Nodes :
                 /\ CleanupOldRecoveredSigs(n)
                 /\ shares' = shares
<1> USE DEF db, HasRecoveredSigForId
<1>1. ASSUME NEW n \in Nodes, NEW sig \in Sigs, TryRecoverSig(n, sig)
      PROVE  /\ recSig[n][sig.id] = NoSig
             /\ ValidSig(sig)
             /\ shares' = shares
             /\ recSig' = [recSig EXCEPT ![n][sig.id] = sig]
  BY <1>1, Zenon DEF TryRecoverSig, ProcessRecoveredSig, WriteRecoveredSig, ValidSig
<1>2. ASSUME NEW n \in Nodes, NEW m \in pendingRecSigs[n],
             ProcessPendingRecoveredSigs(n, m), recSig' # recSig
      PROVE  /\ m.sig \in Sigs
             /\ recSig[n][m.sig.id] = NoSig
             /\ ValidSig(m.sig)
             /\ shares' = shares
             /\ recSig' = [recSig EXCEPT ![n][m.sig.id] = m.sig]
  <2>1. m.sig \in Sigs
    BY DEF TypeOK, Mails
  <2>2. ValidSig(m.sig) /\ ProcessRecoveredSig(n, m.sig) /\ shares' = shares
    BY <1>2, Zenon DEF ProcessPendingRecoveredSigs
  <2> QED  BY <1>2, <2>1, <2>2, Zenon DEF ProcessRecoveredSig, WriteRecoveredSig
<1>3. ASSUME NEW n \in Nodes, Cleanup(n)
      PROVE  CleanupOldRecoveredSigs(n) /\ shares' = shares
  BY <1>3, Zenon DEF Cleanup
<1>4. ASSUME ~ \E n \in Nodes, sig \in Sigs : TryRecoverSig(n, sig),
             ~ \E n \in Nodes : \E m \in pendingRecSigs[n] :
                  ProcessPendingRecoveredSigs(n, m),
             ~ \E n \in Nodes : Cleanup(n)
      PROVE  recSig' = recSig
  BY <1>4, Zenon DEF Next, vars, AsyncSignIfMember, AsyncSign, Sign, FaultySign,
              ProcessMessageRecoveredSig, Restart, UpdateTip, Tick
<1> QED  BY <1>1, <1>2, <1>3, <1>4

\* An honest node stores only signatures that enough members signed, whatever
\* the other nodes send.
THEOREM StoredAreValid == Spec => []StoredSigsAreValid
<1>1. Init => StoredSigsAreValid
  BY DEF Init, StoredSigsAreValid, Honest
<1>2. SigningIInv /\ StoredSigsAreValid /\ [Next]_vars => StoredSigsAreValid'
  <2> SUFFICES ASSUME SigningIInv, StoredSigsAreValid, [Next]_vars,
                      NEW n \in Honest, NEW id \in Ids, recSig'[n][id] # NoSig
               PROVE  (recSig[n][id].id = id /\ ValidSig(recSig[n][id]))'
    BY Zenon DEF StoredSigsAreValid, Honest
  <2>b. TypeOK' /\ n \in Nodes
    BY TypeStep, Zenon DEF SigningIInv, Honest
  <2>a. PICK sig \in Sigs : sig = recSig'[n][id]
    BY <2>b DEF TypeOK
  <2>0. TypeOK /\ n \in Nodes
    BY Zenon DEF SigningIInv, Honest
  <2>1. recSig[n][id] = sig \/ (sig.id = id /\ ValidSig(sig))
    <3>1. CASE \E m \in Nodes, t \in Sigs :
                  ValidSig(t) /\ recSig' = [recSig EXCEPT ![m][t.id] = t]
      BY <2>a, <2>0, <3>1 DEF TypeOK
    <3>2. CASE \E m \in Nodes : CleanupOldRecoveredSigs(m)
      BY <2>a, <2>0, <3>2 DEF TypeOK, CleanupOldRecoveredSigs
    <3>3. CASE recSig' = recSig
      BY <2>a, <3>3, Zenon
    <3> QED  BY <2>0, <3>1, <3>2, <3>3, StoreCases, Zenon
  <2>2. sig.id = id /\ Recoverable(sig.quorum, id, sig.msg)
    BY <2>a, <2>1, Zenon DEF StoredSigsAreValid, ValidSig
  <2>3. sig.quorum \in Quorums /\ sig.msg \in Msgs /\ shares \subseteq shares'
    BY <2>0, SharesGrow, Zenon DEF Sigs
  <2>4. Recoverable(sig.quorum, id, sig.msg)'
    BY <2>2, <2>3, RecoverableIsStable, Zenon
  <2> QED  BY <2>a, <2>2, <2>4, Zenon DEF ValidSig, Recoverable, Signers
<1> QED  BY <1>1, <1>2, SigningInvariant, PTL DEF Spec

\* A stored signature is never replaced, and erased only after MaxAge.
THEOREM StoredIsKept == Spec => StoredSigIsKept
<1>1. SigningIInv /\ [Next]_vars =>
        [\A n \in Nodes, id \in Ids :
            recSig[n][id] # NoSig /\ recSig'[n][id] # recSig[n][id]
            => recSig'[n][id] = NoSig /\ Expired(n, id)]_vars
  <2> SUFFICES ASSUME SigningIInv, [Next]_vars, NEW n \in Nodes, NEW id \in Ids,
                      recSig[n][id] # NoSig, recSig'[n][id] # recSig[n][id]
               PROVE  recSig'[n][id] = NoSig /\ Expired(n, id)
    BY Zenon
  <2>0. TypeOK
    BY Zenon DEF SigningIInv
  <2>1. ~ \E m \in Nodes, t \in Sigs :
             /\ recSig[m][t.id] = NoSig
             /\ recSig' = [recSig EXCEPT ![m][t.id] = t]
    <3> SUFFICES ASSUME NEW m \in Nodes, NEW t \in Sigs, recSig[m][t.id] = NoSig,
                        recSig' = [recSig EXCEPT ![m][t.id] = t]
                 PROVE  FALSE
      BY Zenon
    <3>1. recSig \in [Nodes -> [Ids -> Sigs \cup {NoSig}]]
      BY <2>0, Zenon DEF TypeOK
    <3> QED  BY <3>1
  <2>2. PICK m \in Nodes : CleanupOldRecoveredSigs(m)
    <3>1. recSig' # recSig
      BY Zenon
    <3>2. \/ \E k \in Nodes, sig \in Sigs :
                /\ recSig[k][sig.id] = NoSig
                /\ recSig' = [recSig EXCEPT ![k][sig.id] = sig]
          \/ \E k \in Nodes : CleanupOldRecoveredSigs(k)
      BY <2>0, <3>1, StoreCases, ZenonT(30)
    <3> QED  BY <2>1, <3>2, ZenonT(30)
  <2> QED  BY <2>0, <2>2, Zenon DEF TypeOK, CleanupOldRecoveredSigs, ScannedIds
<1> QED  BY <1>1, SigningInvariant, PTL DEF Spec, StoredSigIsKept

-----------------------------------------------------------------------------
(* Signing implements QuorumDecision.                                      *)

\* What a quorum has decided does not change when a share is added, except that
\* an open decision may become the message of that share.
LEMMA DecisionStep ==
    ASSUME NoConflictInQuorum', NEW s \in Shares, shares' = shares \cup {s},
           NEW q \in Quorums, NEW id \in Ids
    PROVE  \/ DecidedMsg(q, id)' = DecidedMsg(q, id)
           \/ /\ q = s.quorum /\ id = s.id
              /\ DecidedMsg(q, id) = NoMsg
              /\ DecidedMsg(q, id)' = s.msg
<1>0. s.msg \in Msgs
  BY Zenon DEF Shares
<1>1. \A msg \in Msgs : Recoverable(q, id, msg) => Recoverable(q, id, msg)'
  BY RecoverableIsStable, Zenon
<1>2. ASSUME NEW msg \in Msgs, Recoverable(q, id, msg)', ~ Recoverable(q, id, msg)
      PROVE  q = s.quorum /\ id = s.id /\ msg = s.msg
  <2>1. Signers(q, id, msg)' # Signers(q, id, msg)
    BY <1>2, Zenon DEF Recoverable
  <2> QED  BY <2>1 DEF Signers
<1>3. \A m1, m2 \in Msgs : Recoverable(q, id, m1)' /\ Recoverable(q, id, m2)' => m1 = m2
  BY Zenon DEF NoConflictInQuorum
<1> DEFINE Old(msg) == Recoverable(q, id, msg)
           New(msg) == Recoverable(q, id, msg)'
<1>4. DecidedMsg(q, id) = IF \E msg \in Msgs : Old(msg)
                          THEN CHOOSE msg \in Msgs : Old(msg) ELSE NoMsg
  BY Zenon DEF DecidedMsg
<1>5. DecidedMsg(q, id)' = IF \E msg \in Msgs : New(msg)
                           THEN CHOOSE msg \in Msgs : New(msg) ELSE NoMsg
  BY Zenon DEF DecidedMsg
<1>6. \A msg \in Msgs : Old(msg) => New(msg)
  BY <1>1, Zenon
<1>7. \A msg \in Msgs : New(msg) /\ ~ Old(msg) => q = s.quorum /\ id = s.id /\ msg = s.msg
  BY <1>2, Zenon
<1>8. \A m1, m2 \in Msgs : New(m1) /\ New(m2) => m1 = m2
  BY <1>3, Zenon
<1> HIDE DEF Old, New
<1>9. CASE \E msg \in Msgs : Old(msg)
  <2>1. PICK m \in Msgs : Old(m)
    BY <1>9, Zenon
  <2>2. DecidedMsg(q, id) = m
    <3>1. PICK c \in Msgs : c = (CHOOSE msg \in Msgs : Old(msg)) /\ Old(c)
      BY <2>1, Zenon
    <3> QED  BY <1>4, <1>6, <1>8, <2>1, <3>1, Zenon
  <2>3. DecidedMsg(q, id)' = m
    <3>0. New(m)
      BY <1>6, <2>1, Zenon
    <3>1. PICK c \in Msgs : c = (CHOOSE msg \in Msgs : New(msg)) /\ New(c)
      BY <3>0, Zenon
    <3> QED  BY <1>5, <1>8, <3>0, <3>1, Zenon
  <2> QED  BY <2>2, <2>3, Zenon
<1>10. CASE ~ \E msg \in Msgs : Old(msg)
  <2>1. DecidedMsg(q, id) = NoMsg
    BY <1>4, <1>10, Zenon
  <2>2. CASE \E msg \in Msgs : New(msg)
    <3>1. PICK c \in Msgs : c = (CHOOSE msg \in Msgs : New(msg)) /\ New(c)
      BY <2>2, Zenon
    <3> QED  BY <1>5, <1>7, <1>10, <2>1, <2>2, <3>1, Zenon
  <2>3. CASE ~ \E msg \in Msgs : New(msg)
    BY <1>5, <2>1, <2>3, Zenon
  <2> QED  BY <2>2, <2>3, Zenon
<1> QED  BY <1>9, <1>10, Zenon

\* Nothing is decided or kept at the start.
LEMMA DecisionInit == Init => Decision!Init
<1> SUFFICES ASSUME Init PROVE Decision!Init
  BY Zenon
<1>1. \A q \in Quorums, id \in Ids, msg \in Msgs : ~ Recoverable(q, id, msg)
  <2> SUFFICES ASSUME NEW q \in Quorums, NEW id \in Ids, NEW msg \in Msgs
               PROVE  ~ (Cardinality(Signers(q, id, msg) \cap Members[q]) >= Threshold)
    BY Zenon DEF Recoverable
  <2>1. Signers(q, id, msg) \cap Members[q] = {}
    BY Zenon DEF Init, Signers
  <2>2. Cardinality({}) = 0
    BY FS_EmptySet, Zenon
  <2>3. Threshold > 0
    <3>1. Members[q] \in SUBSET Nodes
      BY ConstantsAssumption, Zenon
    <3>2. IsFiniteSet(Members[q]) /\ IsFiniteSet(Members[q] \cap Faulty)
      BY <3>1, MajorityAssumption, FS_Subset, Zenon
    <3>3. Cardinality(Members[q]) \in Nat /\ Cardinality(Members[q] \cap Faulty) \in Nat
      BY <3>2, FS_CardinalityType, Zenon
    <3> QED  BY <3>3, MajorityAssumption, ConstantsAssumption
  <2>4. Cardinality(Signers(q, id, msg) \cap Members[q]) = 0
    BY <2>1, <2>2, Zenon
  <2> QED  BY <2>3, <2>4, ConstantsAssumption
<1>2. \A q \in Quorums, id \in Ids : DecidedMsg(q, id) = NoMsg
  BY <1>1, Zenon DEF DecidedMsg
<1> QED  BY <1>2, Zenon DEF Decision!Init, Init, Honest

\* A step of the signing managers is a step of QuorumDecision, or changes neither
\* decisions nor what honest nodes keep.
LEMMA DecisionNext ==
    ASSUME SigningIInv, SigningIInv', StoredSigsAreValid', [Next]_vars
    PROVE  [Decision!Next]_(Decision!vars)
<1> DEFINE D == [q \in Quorums |-> [id \in Ids |-> DecidedMsg(q, id)]]
           K == [n \in Honest |-> recSig[n]]
<1>0. TypeOK
  BY Zenon DEF SigningIInv
<1>1. NoConflictInQuorum /\ NoConflictInQuorum'
  BY InvNoConflict, PTL
<1>2. shares' = shares \/ \E s \in Shares : shares' = shares \cup {s} /\ recSig' = recSig
  <2>1. ASSUME NEW n \in Nodes, NEW p \in pendingSigns[n], Sign(n, p)
        PROVE  \/ shares' = shares
               \/ \E s \in Shares : shares' = shares \cup {s} /\ recSig' = recSig
    <3> DEFINE s == [quorum |-> p.quorum, id |-> p.id, msg |-> p.msg, member |-> n]
    <3>1. s \in Shares
      BY <1>0 DEF TypeOK, Sigs, Shares
    <3>2. shares' = shares \/ (shares' = shares \cup {s} /\ recSig' = recSig)
      BY <2>1, Zenon DEF Sign, db
    <3> QED  BY <3>1, <3>2, Zenon
  <2>2. ASSUME NEW s \in Shares, FaultySign(s)
        PROVE  shares' = shares \cup {s} /\ recSig' = recSig
    BY <2>2, Zenon DEF FaultySign, db
  <2>3. ASSUME ~ \E n \in Nodes : \E p \in pendingSigns[n] : Sign(n, p),
               ~ \E s \in Shares : FaultySign(s)
        PROVE  shares' = shares
    BY <2>3, Zenon DEF Next, vars, AsyncSignIfMember, AsyncSign, TryRecoverSig,
                ProcessMessageRecoveredSig, ProcessPendingRecoveredSigs, Cleanup,
                Restart, UpdateTip, Tick
  <2> QED  BY <2>1, <2>2, <2>3, Zenon
<1>3. shares' = shares => D' = D
  BY ZenonT(20) DEF DecidedMsg, Recoverable, Signers
<1>4. ASSUME NEW s \in Shares, shares' = shares \cup {s}, recSig' = recSig
      PROVE  [Decision!Next]_(Decision!vars)
  <2>1. K' = K
    BY <1>4, Zenon DEF Honest
  <2>2. s.quorum \in Quorums /\ s.id \in Ids /\ s.msg \in Msgs
    BY Zenon DEF Shares
  <2>3. \A q \in Quorums, id \in Ids :
           \/ DecidedMsg(q, id)' = DecidedMsg(q, id)
           \/ /\ q = s.quorum /\ id = s.id
              /\ DecidedMsg(q, id) = NoMsg
              /\ DecidedMsg(q, id)' = s.msg
    BY <1>1, <1>4, DecisionStep, Zenon
  <2>4. D' = D \/ (D[s.quorum][s.id] = NoMsg
                   /\ D' = [D EXCEPT ![s.quorum][s.id] = s.msg])
    <3>1. CASE \A q \in Quorums, id \in Ids : DecidedMsg(q, id)' = DecidedMsg(q, id)
      BY <3>1, Zenon
    <3>2. CASE ~ \A q \in Quorums, id \in Ids : DecidedMsg(q, id)' = DecidedMsg(q, id)
      <4>1. DecidedMsg(s.quorum, s.id) = NoMsg /\ DecidedMsg(s.quorum, s.id)' = s.msg
        BY <2>3, <3>2, Zenon
      <4>2. \A q \in Quorums, id \in Ids : DecidedMsg(q, id)' =
                IF q = s.quorum /\ id = s.id THEN s.msg ELSE DecidedMsg(q, id)
        BY <2>3, <4>1, Zenon
      <4>3. [D EXCEPT ![s.quorum][s.id] = s.msg] =
                [q \in Quorums |-> [id \in Ids |->
                    IF q = s.quorum /\ id = s.id THEN s.msg ELSE DecidedMsg(q, id)]]
        BY <2>2, Zenon
      <4> QED  BY <2>2, <4>1, <4>2, <4>3
    <3> QED  BY <3>1, <3>2, Zenon
  <2>5. D' = D \/ Decision!Decide(s.quorum, s.id, s.msg)
    BY <2>1, <2>4, Zenon DEF Decision!Decide
  <2> QED  BY <2>1, <2>2, <2>5, Zenon DEF Decision!Next, Decision!vars
<1>5. ASSUME NEW n \in Nodes, NEW sig \in Sigs, recSig[n][sig.id] = NoSig,
             ValidSig(sig), shares' = shares,
             recSig' = [recSig EXCEPT ![n][sig.id] = sig]
      PROVE  [Decision!Next]_(Decision!vars)
  <2>1. CASE n \notin Honest
    <3>1. K' = K
      BY <1>5, <2>1, <1>0, Zenon DEF Honest, TypeOK
    <3> QED  BY <1>3, <1>5, <3>1, Zenon DEF Decision!vars
  <2>2. CASE n \in Honest
    <3>1. sig.quorum \in Quorums /\ sig.id \in Ids /\ sig.msg \in Msgs
          /\ sig = [quorum |-> sig.quorum, id |-> sig.id, msg |-> sig.msg]
      BY Zenon DEF Sigs
    <3>2. DecidedMsg(sig.quorum, sig.id) = sig.msg
      <4> DEFINE R(msg) == Recoverable(sig.quorum, sig.id, msg)
      <4>1. R(sig.msg)
        BY <1>5, Zenon DEF ValidSig
      <4>2. \A m1, m2 \in Msgs : R(m1) /\ R(m2) => m1 = m2
        BY <1>1, <3>1, Zenon DEF NoConflictInQuorum
      <4>3. DecidedMsg(sig.quorum, sig.id) = IF \E msg \in Msgs : R(msg)
                                   THEN CHOOSE msg \in Msgs : R(msg) ELSE NoMsg
        BY Zenon DEF DecidedMsg
      <4> HIDE DEF R
      <4> QED  BY <3>1, <4>1, <4>2, <4>3, Zenon
    <3>3. sig.msg # NoMsg
      BY <3>1, ConstantsAssumption, Zenon
    <3>4. K' = [K EXCEPT ![n][sig.id] =
                  [quorum |-> sig.quorum, id |-> sig.id, msg |-> D[sig.quorum][sig.id]]]
      BY <1>0, <1>5, <2>2, <3>1, <3>2, Zenon DEF Honest, TypeOK
    <3>5. K[n][sig.id] = NoSig /\ D[sig.quorum][sig.id] # NoMsg
      BY <1>5, <2>2, <3>1, <3>2, <3>3, Zenon
    <3>6. Decision!Keep(n, sig.quorum, sig.id)
      BY <1>3, <1>5, <3>4, <3>5, Zenon DEF Decision!Keep
    <3> QED  BY <2>2, <3>1, <3>6, Zenon DEF Decision!Next
  <2> QED  BY <2>1, <2>2, Zenon
<1>6. ASSUME NEW n \in Nodes, CleanupOldRecoveredSigs(n), shares' = shares
      PROVE  [Decision!Next]_(Decision!vars)
  <2>1. CASE n \notin Honest
    <3>1. K' = K
      BY <1>6, <2>1, <1>0, Zenon DEF Honest, TypeOK, CleanupOldRecoveredSigs
    <3> QED  BY <1>3, <1>6, <3>1, Zenon DEF Decision!vars
  <2>2. CASE n \in Honest
    <3>1. PICK old \in SUBSET Ids : old = ScannedIds(n)
      BY Zenon DEF ScannedIds
    <3>2. K' = [K EXCEPT ![n] = [id \in Ids |-> IF id \in old THEN NoSig ELSE @[id]]]
      BY <1>0, <1>6, <2>2, <3>1, ZenonT(20) DEF Honest, TypeOK, CleanupOldRecoveredSigs
    <3>3. Decision!Forget(n, old)
      BY <1>3, <1>6, <3>2, Zenon DEF Decision!Forget
    <3> QED  BY <2>2, <3>3, Zenon DEF Decision!Next
  <2> QED  BY <2>1, <2>2, Zenon
<1>7. CASE recSig' = recSig /\ shares' = shares
  <2>1. K' = K
    BY <1>7, Zenon DEF Honest
  <2> QED  BY <1>3, <1>7, <2>1, Zenon DEF Decision!vars
<1> QED  BY <1>0, <1>2, <1>4, <1>5, <1>6, <1>7, StoreCases, Zenon

\* Signing implements QuorumDecision for every number of nodes and quorums.
THEOREM Refinement == Spec => ImplementsDecision
BY DecisionInit, DecisionNext, SigningInvariant, StoredAreValid, PTL
   DEF Spec, ImplementsDecision, Decision!Spec

=============================================================================
