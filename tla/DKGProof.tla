------------------------------ MODULE DKGProof ------------------------------
(***************************************************************************)
(* Proofs about DKG, for any quorum, any number of faults and whatever the *)
(* faulty members may lie about: two final commitments are of the same     *)
(* quorum, and enough honest members can sign for it.                      *)
(*                                                                         *)
(* Both follow from what an honest member stands for with its commitment   *)
(* (OneBackedCommitment), and from a final commitment being signed by      *)
(* minSize members (FinalIsSigned): two sets of minSize members share an   *)
(* honest one.                                                             *)
(*                                                                         *)
(* And honest members that have read the same messages come to the same    *)
(* verdict on the members, because the verdict of a session is a function  *)
(* of the messages it has read (VerdictIInv), not of their order.          *)
(*                                                                         *)
(* And a round that the network does not disturb succeeds for every honest *)
(* member: all read the same messages, drop the same members, hold the     *)
(* shares of those that are left and commit to the same quorum (RoundIInv).*)
(***************************************************************************)
EXTENDS DKG, FiniteSetTheorems, TLAPS

USE DEF InitializedPhase, ContributePhase, ComplainPhase, JustifyPhase, CommitPhase,
        FinalizePhase, Aborted

\* The commitments come after everything that decides who is left.
LEMMA PhaseOrder ==
    /\ CommitPhase >= CommitPhase /\ FinalizePhase >= CommitPhase
    /\ FinalizePhase # CommitPhase /\ FinalizePhase # ContributePhase
OBVIOUS

-----------------------------------------------------------------------------
(* Quorum intersection.                                                    *)

\* Two sets of minSize members have an honest member in common.
LEMMA HonestInBoth ==
    ASSUME NEW A \in SUBSET Members, NEW B \in SUBSET Members,
           Cardinality(A) >= MinSize, Cardinality(B) >= MinSize
    PROVE  \E n \in Honest : n \in A /\ n \in B
<1>1. IsFiniteSet(A) /\ IsFiniteSet(B) /\ IsFiniteSet(Members) /\ IsFiniteSet(Faulty)
  BY DKGAssumption, FS_Subset, Zenon DEF Members
<1>2. Cardinality(A \cup B) = Cardinality(A) + Cardinality(B) - Cardinality(A \cap B)
  BY <1>1, FS_Union, Zenon
<1>3. A \cup B \subseteq Members
  BY Zenon
<1>4. Cardinality(A \cup B) <= Cardinality(Members)
  BY <1>1, <1>3, FS_Subset, Zenon
<1>5. IsFiniteSet(A \cap B) /\ IsFiniteSet(A \cup B)
  BY <1>1, FS_Intersection, FS_Union, Zenon
<1>6. /\ Cardinality(A) \in Nat /\ Cardinality(B) \in Nat /\ Cardinality(Members) \in Nat
      /\ Cardinality(A \cap B) \in Nat /\ Cardinality(A \cup B) \in Nat
      /\ Cardinality(Faulty) \in Nat
  BY <1>1, <1>5, FS_CardinalityType, Zenon
<1>7. Cardinality(A \cap B) > Cardinality(Faulty)
  BY <1>2, <1>4, <1>6, DKGAssumption
<1>8. ~ (A \cap B \subseteq Faulty)
  BY <1>1, <1>6, <1>7, FS_Subset
<1> QED  BY <1>8, Zenon DEF Members

\* Among minSize members are threshold honest ones.
LEMMA EnoughHonest ==
    ASSUME NEW A \in SUBSET Members, Cardinality(A) >= MinSize,
           NEW H \in SUBSET Honest, A \cap Honest \subseteq H
    PROVE  Cardinality(H) >= Threshold
<1>1. IsFiniteSet(A) /\ IsFiniteSet(Faulty) /\ IsFiniteSet(H)
  BY DKGAssumption, FS_Subset, Zenon DEF Members
<1>2. Cardinality(A \ Faulty) = Cardinality(A) - Cardinality(A \cap Faulty)
  BY <1>1, FS_Difference, Zenon
<1>3. Cardinality(A \cap Faulty) <= Cardinality(Faulty)
  BY <1>1, FS_Intersection, Zenon
<1>4. A \ Faulty \subseteq H
  BY Zenon DEF Members
<1>5. Cardinality(A \ Faulty) <= Cardinality(H)
  BY <1>1, <1>4, FS_Subset, Zenon
<1>6. IsFiniteSet(A \cap Faulty) /\ IsFiniteSet(A \ Faulty)
  BY <1>1, FS_Intersection, FS_Difference, Zenon
<1>7. /\ Cardinality(A) \in Nat /\ Cardinality(Faulty) \in Nat /\ Cardinality(H) \in Nat
      /\ Cardinality(A \cap Faulty) \in Nat /\ Cardinality(A \ Faulty) \in Nat
  BY <1>1, <1>6, FS_CardinalityType, Zenon
<1> QED  BY <1>2, <1>3, <1>5, <1>7, DKGAssumption

-----------------------------------------------------------------------------
(* What messages do to a session.                                          *)

\* Contributions and complaints change neither the shares nor the commitments a session
\* keeps; complaints do not change the vectors either.
LEMMA ReceiveEarly ==
    ASSUME NEW s, IsSession(s), NEW S
    PROVE  /\ \A t \in ReceiveContributions(s, S) : IsSession(t) /\ t.valid = s.valid
           /\ \A t \in ReceiveComplaints(s, S) : IsSession(t) /\ t.valid = s.valid
<1>1. \A t \in ReceiveContributions(s, S) : IsSession(t) /\ t.valid = s.valid
  BY Zenon DEF ReceiveContributions, IsSession, Fields
<1>2. \A t \in ReceiveComplaints(s, S) : IsSession(t) /\ t.valid = s.valid
  BY Zenon DEF ReceiveComplaints, IsSession, Fields
<1> QED  BY <1>1, <1>2, Zenon

\* Justifications do not change the commitments a session keeps.
LEMMA ReceiveJustified ==
    ASSUME NEW s, IsSession(s), NEW n, NEW S
    PROVE  \A t \in ReceiveJustifications(s, n, S) : IsSession(t) /\ t.valid = s.valid
BY Zenon DEF ReceiveJustifications, IsSession, Fields

\* The functions that start a phase change neither.
LEMMA StartPhase ==
    ASSUME NEW s, IsSession(s), NEW n, NEW u
    PROVE  /\ IsSession(VerifyAndComplain(s, n, u)) /\ VerifyAndComplain(s, n, u).valid = s.valid
           /\ IsSession(VerifyAndJustify(s)) /\ VerifyAndJustify(s).valid = s.valid
           /\ IsSession(VerifyAndCommit(s)) /\ VerifyAndCommit(s).valid = s.valid
BY Zenon DEF VerifyAndComplain, VerifyAndJustify, VerifyAndCommit, IsSession, Fields

\* Commitments change nothing else.
LEMMA ReceiveCommitted ==
    ASSUME NEW s, IsSession(s), NEW S
    PROVE  /\ IsSession(ReceiveCommitments(s, S))
           /\ ReceiveCommitments(s, S).shares = s.shares
           /\ ReceiveCommitments(s, S).first = s.first
           /\ ReceiveCommitments(s, S).valid \subseteq s.valid \cup S
BY Zenon DEF ReceiveCommitments, IsSession, Fields

-----------------------------------------------------------------------------
(* The steps.                                                              *)

\* What the steps have in common: messages are only added, final commitments stay
\* signed, and the commitments an honest member keeps are ones that were sent.
LEMMA SignedStays ==
    ASSUME FinalIsSigned, sent \subseteq sent', final' = final,
           \A n \in Honest : node'[n].valid = node[n].valid
    PROVE  FinalIsSigned'
<1> SUFFICES ASSUME NEW n \in Honest
             PROVE  /\ node'[n].valid \subseteq Of(sent', CommitPhase)
                    /\ \A f \in final'[n] :
                        /\ f.signers \subseteq Members
                        /\ Cardinality(f.signers) >= MinSize
                        /\ \A k \in f.signers : \E c \in From(sent', CommitPhase, k) :
                                c.valid = f.valid /\ c.key = f.key
  BY Zenon DEF FinalIsSigned
<1>1. node'[n].valid \subseteq Of(sent', CommitPhase)
  BY Zenon DEF FinalIsSigned, Of
<1>2. ASSUME NEW f \in final'[n]
      PROVE  /\ f.signers \subseteq Members
             /\ Cardinality(f.signers) >= MinSize
             /\ \A k \in f.signers : \E c \in From(sent', CommitPhase, k) :
                    c.valid = f.valid /\ c.key = f.key
  BY DEF FinalIsSigned, From
<1> QED  BY <1>1, <1>2, Zenon

\* A step of an honest member before it commits: no commitment of it is there, and no
\* other member's changes.
LEMMA BeforeCommit ==
    ASSUME IInv, NEW n \in Honest, phase[n] < CommitPhase,
           NEW p \in Int, phase' = [phase EXCEPT ![n] = p],
           NEW t, IsSession(t), t.valid = node[n].valid, node' = [node EXCEPT ![n] = t],
           NEW M, \A c \in M : c.from \in Members /\ c.phase # CommitPhase,
           sent' = sent \cup M, final' = final
    PROVE  IInv'
<1>1. /\ phase' \in [Members -> Int] /\ \A k \in Members \ {n} : phase'[k] = phase[k]
      /\ phase'[n] = p
  BY Zenon DEF IInv, TypeOK, Members
<1>2. node'[n] = t /\ \A k \in Honest \ {n} : node'[k] = node[k]
  BY Zenon DEF IInv, TypeOK
<1>3. node' = [k \in Honest |-> node'[k]]
  BY Zenon DEF IInv, TypeOK
<1>4. TypeOK'
  BY <1>1, <1>2, <1>3, Zenon DEF IInv, TypeOK
<1>5. \A k : From(sent', CommitPhase, k) = From(sent, CommitPhase, k)
  BY Zenon DEF From
<1>6. From(sent, CommitPhase, n) = {}
  <2>1. phase[n] \in Int
    BY Zenon DEF IInv, TypeOK, Members
  <2> QED  BY <2>1 DEF IInv, OneBackedCommitment
<1>7. OneBackedCommitment'
  <2> SUFFICES ASSUME NEW k \in Honest, NEW c \in From(sent', CommitPhase, k)
               PROVE  /\ phase'[k] >= CommitPhase
                      /\ Backs(k, c.valid, c.key)'
                      /\ \A d \in From(sent', CommitPhase, k) : d = c
    BY Zenon DEF OneBackedCommitment
  <2>1. k # n /\ c \in From(sent, CommitPhase, k)
    BY <1>5, <1>6, Zenon
  <2>2. node'[k] = node[k] /\ phase'[k] = phase[k]
    BY <1>1, <1>2, <2>1, Zenon DEF Members
  <2>3. Backs(k, c.valid, c.key)' = Backs(k, c.valid, c.key)
    BY <2>2 DEF Backs, HasVvecs, Key
  <2> QED  BY <1>5, <2>1, <2>2, <2>3, Zenon DEF IInv, OneBackedCommitment
<1>8. FinalIsSigned'
  BY <1>2, SignedStays, Zenon DEF IInv
<1> QED  BY <1>4, <1>7, <1>8, Zenon DEF IInv

\* A member that simulates errors sends messages in its own name.
LEMMA FaultyIsSender ==
    ASSUME NEW m, NEW p, NEW c \in FaultyMessages(m, p) \cup SecondMessages(m, p)
    PROVE  c.from = m
<1>1. ASSUME NEW d \in FaultyMessages(m, p)  PROVE d.from = m
  BY <1>1 DEF FaultyMessages, Contribution, Complaint, Justification, Commitment
<1>2. ASSUME NEW d \in SecondMessages(m, p)  PROVE d.from = m
  BY <1>1, <1>2 DEF SecondMessages, Contribution, Complaint
<1> QED  BY <1>1, <1>2, Zenon

\* The steps up to VerifyAndJustify keep the invariant.
LEMMA EarlyPhases ==
    ASSUME IInv, NEW n \in Honest, NEW S, NEW E, NEW u,
           Contribute(n) \/ Complain(n, S, E, u) \/ Justify(n, S, E)
    PROVE  IInv'
<1>0. n \in Members /\ IsSession(node[n]) /\ phase[n] \in Int
  BY Zenon DEF IInv, TypeOK, Members
<1>1. CASE Contribute(n)
  <2>1. node' = [node EXCEPT ![n] = node[n]]
    BY <1>1, Zenon DEF Contribute, IInv, TypeOK
  <2>2. PICK t : IsSession(t) /\ t.valid = node[n].valid /\ node' = [node EXCEPT ![n] = t]
    BY <1>0, <2>1, Zenon
  <2> DEFINE M == {Contribution(n, 1, Members)}
  <2>3. /\ phase[n] < CommitPhase /\ phase' = [phase EXCEPT ![n] = ContributePhase]
        /\ sent' = sent \cup M /\ final' = final
    BY <1>1, <1>0 DEF Contribute, Enter
  <2>4. Contribution(n, 1, Members).from \in Members
        /\ Contribution(n, 1, Members).phase # CommitPhase
    BY <1>0 DEF Contribution
  <2>5. \A c \in M : c.from \in Members /\ c.phase # CommitPhase
    BY <2>4, Zenon
  <2> HIDE DEF M
  <2>6. ContributePhase \in Int
    OBVIOUS
  <2> QED  BY <2>2, <2>3, <2>5, <2>6, BeforeCommit, Zenon
<1>2. CASE Complain(n, S, E, u)
  <2>1. PICK s \in ReceiveContributions(node[n], S) : \E t \in ReceiveComplaints(s, E) :
            /\ node' = [node EXCEPT ![n] = VerifyAndComplain(t, n, u)]
            /\ sent' = sent \cup SendComplaint(VerifyAndComplain(t, n, u), n)
    BY <1>2, Zenon DEF Complain
  <2>2. PICK t \in ReceiveComplaints(s, E) :
            /\ node' = [node EXCEPT ![n] = VerifyAndComplain(t, n, u)]
            /\ sent' = sent \cup SendComplaint(VerifyAndComplain(t, n, u), n)
    BY <2>1, Zenon
  <2>3. IsSession(t) /\ t.valid = node[n].valid
    BY <1>0, <2>1, <2>2, ReceiveEarly
  <2>4. IsSession(VerifyAndComplain(t, n, u)) /\ VerifyAndComplain(t, n, u).valid = node[n].valid
    BY <2>3, StartPhase
  <2>5. phase[n] < CommitPhase /\ phase' = [phase EXCEPT ![n] = ComplainPhase] /\ final' = final
    BY <1>2, <1>0 DEF Complain, Enter
  <2>6. \A c \in SendComplaint(VerifyAndComplain(t, n, u), n) :
            c.from \in Members /\ c.phase # CommitPhase
    BY <1>0 DEF SendComplaint, Complaint
  <2>7. ComplainPhase \in Int
    OBVIOUS
  <2> QED  BY <2>2, <2>4, <2>5, <2>6, <2>7, BeforeCommit, Zenon
<1>3. CASE Justify(n, S, E)
  <2>1. PICK s \in ReceiveComplaints(node[n], S) : \E t \in ReceiveJustifications(s, n, E) :
            /\ node' = [node EXCEPT ![n] = VerifyAndJustify(t)]
            /\ sent' = sent \cup SendJustification(VerifyAndJustify(t), n)
    BY <1>3, Zenon DEF Justify
  <2>2. PICK t \in ReceiveJustifications(s, n, E) :
            /\ node' = [node EXCEPT ![n] = VerifyAndJustify(t)]
            /\ sent' = sent \cup SendJustification(VerifyAndJustify(t), n)
    BY <2>1, Zenon
  <2>3. IsSession(s) /\ s.valid = node[n].valid
    BY <1>0, <2>1, ReceiveEarly, Zenon
  <2>4. IsSession(t) /\ t.valid = node[n].valid
    BY <2>2, <2>3, ReceiveJustified
  <2>5. IsSession(VerifyAndJustify(t)) /\ VerifyAndJustify(t).valid = node[n].valid
    BY <2>4, StartPhase, Zenon
  <2>6. phase[n] < CommitPhase /\ phase' = [phase EXCEPT ![n] = JustifyPhase] /\ final' = final
    BY <1>3, <1>0 DEF Justify, Enter
  <2>7. \A c \in SendJustification(VerifyAndJustify(t), n) :
            c.from \in Members /\ c.phase # CommitPhase
    BY <1>0 DEF SendJustification, Justification
  <2>8. JustifyPhase \in Int
    OBVIOUS
  <2> QED  BY <2>2, <2>5, <2>6, <2>7, <2>8, BeforeCommit, Zenon
<1> QED  BY <1>1, <1>2, <1>3, Zenon

\* SendCommitment sends one commitment at most, for members whose shares and vectors the
\* session has.
LEMMA OneCommitment ==
    ASSUME NEW s, NEW n, NEW c \in SendCommitment(s, n)
    PROVE  /\ c.from = n /\ \A d \in SendCommitment(s, n) : d = c
           /\ c.valid \subseteq s.shares /\ HasVvecs(s, c.valid) /\ c.key = Key(s, c.valid)
<1> DEFINE v == Members \ s.bad
<1>1. c = Commitment(n, v, Key(s, v), TRUE) /\ \A d \in SendCommitment(s, n) : d = c
  BY Zenon DEF SendCommitment
<1>2. HasVvecs(s, v) /\ v \subseteq s.shares
  BY Zenon DEF SendCommitment
<1> HIDE DEF v
<1>3. c.from = n /\ c.valid = v /\ c.key = Key(s, v)
  BY <1>1, Zenon DEF Commitment
<1> QED  BY <1>1, <1>2, <1>3, Zenon

\* VerifyAndCommit: the one commitment of n is backed by the session it is made from.
LEMMA CommitPreserves ==
    ASSUME IInv, NEW n \in Honest, NEW S, Commit(n, S)
    PROVE  IInv'
<1>0. n \in Members /\ IsSession(node[n]) /\ phase[n] \in Int
  BY Zenon DEF IInv, TypeOK, Members
<1>1. PICK s \in ReceiveJustifications(node[n], n, S) :
        /\ node' = [node EXCEPT ![n] = VerifyAndCommit(s)]
        /\ sent' = sent \cup SendCommitment(VerifyAndCommit(s), n)
  BY Zenon DEF Commit
<1> DEFINE t == VerifyAndCommit(s)
           M == SendCommitment(t, n)
<1>2. IsSession(t) /\ t.valid = node[n].valid
  BY <1>0, <1>1, ReceiveJustified, StartPhase
<1>3. /\ phase[n] = JustifyPhase /\ phase' = [phase EXCEPT ![n] = CommitPhase]
      /\ final' = final
  BY <1>0 DEF Commit, Enter
<1>4. /\ phase' \in [Members -> Int] /\ phase'[n] = CommitPhase
      /\ \A k \in Honest \ {n} : phase'[k] = phase[k]
  BY <1>0, <1>3 DEF IInv, TypeOK, Members
<1>5. /\ node'[n] = t /\ node' = [k \in Honest |-> node'[k]]
      /\ \A k \in Honest \ {n} : node'[k] = node[k]
  BY <1>1, Zenon DEF IInv, TypeOK
<1>6. \A c \in M : /\ c.from = n /\ \A d \in M : d = c
                   /\ c.valid \subseteq t.shares /\ HasVvecs(t, c.valid)
                   /\ c.key = Key(t, c.valid)
  BY OneCommitment, Zenon
<1> HIDE DEF t, M
<1>7. sent' = sent \cup M
  BY <1>1, Zenon DEF t, M
<1>8. TypeOK'
  BY <1>0, <1>2, <1>4, <1>5, <1>6, <1>7, <1>3, Zenon DEF IInv, TypeOK
<1>9. From(sent, CommitPhase, n) = {}
  BY <1>3 DEF IInv, OneBackedCommitment
<1>10. OneBackedCommitment'
  <2> SUFFICES ASSUME NEW k \in Honest, NEW c \in From(sent', CommitPhase, k)
               PROVE  /\ phase'[k] >= CommitPhase
                      /\ Backs(k, c.valid, c.key)'
                      /\ \A d \in From(sent', CommitPhase, k) : d = c
    BY Zenon DEF OneBackedCommitment
  <2>1. CASE k = n
    <3>1. From(sent', CommitPhase, n) \subseteq M
      BY <1>7, <1>9, Zenon DEF From
    <3> QED  BY <2>1, <3>1, <1>4, <1>5, <1>6 DEF Backs
  <2>2. CASE k # n
    <3>1. From(sent', CommitPhase, k) = From(sent, CommitPhase, k)
      BY <2>2, <1>6, <1>7, Zenon DEF From
    <3>2. node'[k] = node[k] /\ phase'[k] = phase[k]
      BY <2>2, <1>4, <1>5, Zenon
    <3>3. Backs(k, c.valid, c.key)' = Backs(k, c.valid, c.key)
      BY <3>2, Zenon DEF Backs, HasVvecs, Key
    <3> QED  BY <3>1, <3>2, <3>3, Zenon DEF IInv, OneBackedCommitment
  <2> QED  BY <2>1, <2>2, Zenon
<1>11. FinalIsSigned'
  BY <1>2, <1>3, <1>5, <1>7, SignedStays, Zenon DEF IInv
<1> QED  BY <1>8, <1>10, <1>11, Zenon DEF IInv

\* FinalizeCommitments: a final commitment is signed by the senders of commitments that
\* were sent, and they are minSize ones.
LEMMA FinalizePreserves ==
    ASSUME IInv, NEW n \in Honest, NEW S, S \subseteq Available(n, CommitPhase),
           FinalizeCommitments(n, S)
    PROVE  IInv'
<1>0. n \in Members /\ IsSession(node[n]) /\ phase[n] \in Int
  BY Zenon DEF IInv, TypeOK, Members
<1> DEFINE s == ReceiveCommitments(node[n], S)
<1>1. /\ phase[n] = CommitPhase /\ phase' = [phase EXCEPT ![n] = FinalizePhase]
      /\ node' = [node EXCEPT ![n] = s] /\ sent' = sent
  BY <1>0 DEF FinalizeCommitments, Enter
<1>2. PICK lead \in [Candidates(s.valid) -> s.valid] :
        final' = [final EXCEPT ![n] =
                    UNION {Finals(s.valid, lead[v]) : v \in Candidates(s.valid)}]
  BY Zenon DEF FinalizeCommitments
<1>3. /\ IsSession(s) /\ s.shares = node[n].shares /\ s.first = node[n].first
      /\ s.valid \subseteq node[n].valid \cup S
  BY <1>0, ReceiveCommitted, Zenon
<1> HIDE DEF s
<1>4. s.valid \subseteq Of(sent, CommitPhase)
  BY <1>3, Zenon DEF IInv, FinalIsSigned, Available, Of
<1>5. /\ phase' \in [Members -> Int] /\ phase'[n] = FinalizePhase
      /\ \A k \in Honest \ {n} : phase'[k] = phase[k]
  BY <1>0, <1>1 DEF IInv, TypeOK, Members
<1>6. /\ node'[n] = s /\ node' = [k \in Honest |-> node'[k]]
      /\ \A k \in Honest \ {n} : node'[k] = node[k]
  BY <1>1, Zenon DEF IInv, TypeOK
<1>7. /\ final' = [k \in Honest |-> final'[k]] /\ \A k \in Honest \ {n} : final'[k] = final[k]
      /\ final'[n] = UNION {Finals(s.valid, lead[v]) : v \in Candidates(s.valid)}
  BY <1>2, Zenon DEF IInv, TypeOK
<1>8. TypeOK'
  BY <1>1, <1>3, <1>5, <1>6, <1>7, Zenon DEF IInv, TypeOK
<1>9. OneBackedCommitment'
  <2> SUFFICES ASSUME NEW k \in Honest, NEW c \in From(sent, CommitPhase, k)
               PROVE  /\ phase'[k] >= CommitPhase
                      /\ Backs(k, c.valid, c.key)'
                      /\ \A d \in From(sent, CommitPhase, k) : d = c
    BY <1>1, Zenon DEF OneBackedCommitment
  <2>1. phase'[k] >= CommitPhase
    BY <1>5 DEF IInv, OneBackedCommitment
  <2>2. node'[k].shares = node[k].shares /\ node'[k].first = node[k].first
    BY <1>3, <1>6, Zenon
  <2>3. Backs(k, c.valid, c.key)' = Backs(k, c.valid, c.key)
    BY <2>2, Zenon DEF Backs, HasVvecs, Key
  <2> QED  BY <2>1, <2>3, Zenon DEF IInv, OneBackedCommitment
<1>10. FinalIsSigned'
  <2> SUFFICES ASSUME NEW k \in Honest
               PROVE  /\ node'[k].valid \subseteq Of(sent, CommitPhase)
                      /\ \A f \in final'[k] :
                          /\ f.signers \subseteq Members
                          /\ Cardinality(f.signers) >= MinSize
                          /\ \A j \in f.signers : \E c \in From(sent, CommitPhase, j) :
                                c.valid = f.valid /\ c.key = f.key
    BY <1>1, Zenon DEF FinalIsSigned
  <2>1. CASE k = n
    <3>1. ASSUME NEW f \in final'[n]
          PROVE  /\ f.signers \subseteq Members
                 /\ Cardinality(f.signers) >= MinSize
                 /\ \A j \in f.signers : \E c \in From(sent, CommitPhase, j) :
                        c.valid = f.valid /\ c.key = f.key
      <4>1. PICK c : f \in Finals(s.valid, c)
        BY <1>7, <3>1, Zenon
      <4>2. /\ f.valid = c.valid /\ f.key = c.key /\ f.signers = SignersOf(s.valid, c)
            /\ Cardinality(f.signers) >= MinSize
        BY <4>1 DEF Finals, Enough
      <4>3. ASSUME NEW j \in f.signers
            PROVE  \E d \in From(sent, CommitPhase, j) : d.valid = f.valid /\ d.key = f.key
        <5>1. PICK d \in Alike(s.valid, c) : d.from = j
          BY <4>2, <4>3, Zenon DEF SignersOf
        <5> QED  BY <1>4, <4>2, <5>1, Zenon DEF Alike, From, Of
      <4>4. f.signers \subseteq Members
        BY <4>3 DEF From, IInv, TypeOK
      <4> QED  BY <4>2, <4>3, <4>4, Zenon
    <3> QED  BY <2>1, <3>1, <1>4, <1>6, Zenon
  <2>2. CASE k # n
    BY <2>2, <1>6, <1>7, Zenon DEF IInv, FinalIsSigned
  <2> QED  BY <2>1, <2>2, Zenon
<1> QED  BY <1>8, <1>9, <1>10, Zenon DEF IInv

\* A step of a member that simulates errors: it takes its phase and sends messages.
LEMMA FaultySends ==
    ASSUME NEW m \in Faulty, FaultyPhase(m)
    PROVE  /\ phase' = [phase EXCEPT ![m] = phase[m] + 1] /\ node' = node /\ final' = final
           /\ \E M : sent' = sent \cup M /\ \A c \in M : c.from = m
<1>1. /\ phase' = [phase EXCEPT ![m] = phase[m] + 1] /\ node' = node /\ final' = final
      /\ \E M \in SUBSET (FaultyMessages(m, phase[m] + 1) \cup SecondMessages(m, phase[m] + 1)) :
            sent' = sent \cup M
  <2>1. /\ phase' = [phase EXCEPT ![m] = phase[m] + 1] /\ node' = node /\ final' = final
    BY Zenon DEF FaultyPhase
  <2>2. CASE sent' = sent
    <3>1. sent' = sent \cup {}
      BY <2>2, Zenon
    <3> QED  BY <2>1, <3>1, Zenon
  <2>3. CASE \E c \in FaultyMessages(m, phase[m] + 1) : sent' = sent \cup {c}
    BY <2>1, <2>3, Zenon
  <2>4. CASE \E c \in FaultyMessages(m, phase[m] + 1), d \in SecondMessages(m, phase[m] + 1) :
                sent' = sent \cup {c, d}
    <3>1. PICK c \in FaultyMessages(m, phase[m] + 1), d \in SecondMessages(m, phase[m] + 1) :
                sent' = sent \cup {c, d}
      BY <2>4, Zenon
    <3>2. {c, d} \in SUBSET (FaultyMessages(m, phase[m] + 1) \cup SecondMessages(m, phase[m] + 1))
      BY Zenon
    <3> QED  BY <2>1, <3>1, <3>2, Zenon
  <2> QED  BY <2>2, <2>3, <2>4, Zenon DEF FaultyPhase
<1>2. \E M : sent' = sent \cup M /\ \A c \in M : c.from = m
  BY <1>1, FaultyIsSender, Zenon
<1> QED  BY <1>1, <1>2, Zenon

\* A member that simulates errors changes nothing of the honest ones.
LEMMA FaultyPreserves ==
    ASSUME IInv, NEW m \in Faulty, FaultyPhase(m)
    PROVE  IInv'
<1>1. phase' = [phase EXCEPT ![m] = phase[m] + 1] /\ node' = node /\ final' = final
  BY FaultySends, Zenon
<1>2. PICK M : sent' = sent \cup M /\ \A c \in M : c.from = m
  BY FaultySends, Zenon
<1>3. m \in Members /\ m \notin Honest
  BY DKGAssumption, Zenon DEF Members
<1>4. phase' \in [Members -> Int] /\ \A k \in Honest : phase'[k] = phase[k]
  BY <1>1, <1>3 DEF IInv, TypeOK, Members
<1>5. TypeOK'
  BY <1>1, <1>2, <1>3, <1>4, Zenon DEF IInv, TypeOK
<1>6. OneBackedCommitment'
  <2>1. \A k \in Honest : From(sent', CommitPhase, k) = From(sent, CommitPhase, k)
    BY <1>2, <1>3, Zenon DEF From
  <2>2. \A k \in Honest : \A v, key : Backs(k, v, key)' = Backs(k, v, key)
    BY <1>1, Zenon DEF Backs, HasVvecs, Key
  <2> QED  BY <1>4, <2>1, <2>2 DEF IInv, OneBackedCommitment
<1>7. FinalIsSigned'
  BY <1>1, <1>2, SignedStays, Zenon DEF IInv
<1> QED  BY <1>5, <1>6, <1>7, Zenon DEF IInv

\* A member that leaves the round has committed or never will.
LEMMA AbortPreserves ==
    ASSUME IInv, NEW n \in Honest, AbortPhase(n)
    PROVE  IInv'
<1>1. /\ phase' = [phase EXCEPT ![n] = Aborted]
      /\ sent' = sent /\ node' = node /\ final' = final
  BY Zenon DEF AbortPhase
<1>2. phase' \in [Members -> Int] /\ phase'[n] = 7 /\ \A k \in Honest \ {n} : phase'[k] = phase[k]
  BY <1>1 DEF IInv, TypeOK, Members
<1>3. TypeOK'
  BY <1>1, <1>2, Zenon DEF IInv, TypeOK
<1>4. OneBackedCommitment'
  <2>1. \A k \in Honest : \A v, key : Backs(k, v, key)' = Backs(k, v, key)
    BY <1>1, Zenon DEF Backs, HasVvecs, Key
  <2> QED  BY <1>1, <1>2, <2>1 DEF IInv, OneBackedCommitment
<1>5. FinalIsSigned'
  BY <1>1, SignedStays, Zenon DEF IInv
<1> QED  BY <1>3, <1>4, <1>5, Zenon DEF IInv

-----------------------------------------------------------------------------
(* The verdict on the members.                                             *)

\* The premise of the lemmas below: one message of a kind at most of each member is read.
LEMMA OnePerMember ==
    ASSUME NEW A, NEW p \in {ContributePhase, ComplainPhase, JustifyPhase},
           NoDoubles(BeforeCommitments(A)),
           NEW c \in A, NEW d \in A, c.phase = p, d.phase = p, c.from = d.from
    PROVE  c = d
<1>1. p < CommitPhase
  OBVIOUS
<1>2. c \in BeforeCommitments(A) /\ d \in BeforeCommitments(A)
  BY <1>1, Zenon DEF BeforeCommitments
<1> QED  BY <1>2, Zenon DEF NoDoubles

\* A member that sent one message of each kind makes itself bad with none.
LEMMA NoneTwice ==
    ASSUME NEW s, NEW S, NEW p \in {ContributePhase, ComplainPhase, JustifyPhase},
           NoDoubles(BeforeCommitments(s.seen \cup S))
    PROVE  Doubles(s, S, p) = {}
<1> SUFFICES ASSUME NEW m \in Members  PROVE ~ (Cardinality(From(s.seen \cup S, p, m)) > 1)
  BY Zenon DEF Doubles
<1> DEFINE A == From(s.seen \cup S, p, m)
<1>1. \A c, d \in A : c = d
  BY OnePerMember, Zenon DEF From
<1> HIDE DEF A
<1>2. CASE A = {}
  BY <1>2, FS_EmptySet DEF A
<1>3. CASE A # {}
  <2>1. PICK c : A = {c}
    BY <1>1, <1>3
  <2>2. Cardinality(A) = 1
    BY <2>1, FS_Singleton, Zenon
  <2> QED  BY <2>2 DEF A
<1> QED  BY <1>2, <1>3, Zenon

\* Then all messages that are read are first ones (ReceiveMessage).
LEMMA AllAreFirst ==
    ASSUME NEW s, NEW S, NEW p \in {ContributePhase, ComplainPhase, JustifyPhase},
           NoDoubles(BeforeCommitments(s.seen \cup S)),
           \A c \in S : c.phase = p /\ c \notin s.seen,
           NEW F \in FirstOfEach(s, S, p)
    PROVE  F = S
<1>1. F \subseteq S /\ {c.from : c \in F} = {m \in {c.from : c \in S} : From(s.seen, p, m) = {}}
  BY Zenon DEF FirstOfEach
<1>2. \A c, d \in s.seen \cup S : c.phase = p /\ d.phase = p /\ c.from = d.from => c = d
  BY OnePerMember, Zenon
<1>3. ASSUME NEW c \in S  PROVE c \in F
  <2>1. From(s.seen, p, c.from) = {}
    BY <1>2, Zenon DEF From
  <2>2. PICK d \in F : d.from = c.from
    BY <1>1, <2>1, Zenon
  <2> QED  BY <1>1, <1>2, <2>2, Zenon
<1> QED  BY <1>1, <1>3, Zenon

\* What was read twice stays read twice.
LEMMA OnceBefore ==
    ASSUME NEW A, NEW B, A \subseteq B, NoDoubles(BeforeCommitments(B))
    PROVE  NoDoubles(BeforeCommitments(A))
BY Zenon DEF NoDoubles, BeforeCommitments

\* Contributions are first ones, and nobody is bad for them.
LEMMA ContributionsRead ==
    ASSUME NEW s, IsSession(s), NEW S, NoDoubles(BeforeCommitments(s.seen \cup S)),
           NEW t \in ReceiveContributions(s, S)
    PROVE  /\ IsSession(t) /\ t.seen = s.seen \cup S /\ t.bad = s.bad
           /\ t.votes = s.votes /\ t.open = s.open
<1>1. Doubles(s, S, ContributePhase) = {}
  BY NoneTwice, Zenon
<1>2. PICK F \in FirstOfEach(s, S, ContributePhase) :
        t = [s EXCEPT !.seen = s.seen \cup S,
               !.first = [m \in Members |-> IF \E c \in F : c.from = m
                                            THEN CHOOSE c \in F : c.from = m ELSE s.first[m]],
               !.bad = s.bad \cup Doubles(s, S, ContributePhase)]
  BY Zenon DEF ReceiveContributions
<1> QED  BY <1>1, <1>2, Zenon DEF IsSession, Fields

\* Complaints are recorded as they are (ReceiveMessage of complaints).
LEMMA ComplaintsRead ==
    ASSUME NEW s, IsSession(s), NEW S, NoDoubles(BeforeCommitments(s.seen \cup S)),
           \A c \in S : c.phase = ComplainPhase /\ c \notin s.seen,
           s.votes = VotesIn(s.seen), s.open = ComplaintsIn(s.seen),
           NEW t \in ReceiveComplaints(s, S)
    PROVE  /\ IsSession(t) /\ t.seen = s.seen \cup S /\ t.bad = s.bad
           /\ t.votes = VotesIn(t.seen) /\ t.open = ComplaintsIn(t.seen)
<1>1. Doubles(s, S, ComplainPhase) = {}
  BY NoneTwice, Zenon
<1>2. PICK F \in FirstOfEach(s, S, ComplainPhase) :
        t = [s EXCEPT !.seen = s.seen \cup S,
               !.votes = s.votes \cup UNION {c.bad \X {c.from} : c \in F},
               !.open = s.open \cup UNION {c.complain \X {c.from} : c \in F},
               !.bad = s.bad \cup Doubles(s, S, ComplainPhase)]
  BY Zenon DEF ReceiveComplaints
<1>3. F = S
  BY AllAreFirst, Zenon
<1>4. /\ IsSession(t) /\ t.seen = s.seen \cup S /\ t.bad = s.bad
      /\ t.votes = s.votes \cup UNION {c.bad \X {c.from} : c \in S}
      /\ t.open = s.open \cup UNION {c.complain \X {c.from} : c \in S}
  BY <1>1, <1>2, <1>3, Zenon DEF IsSession, Fields
<1>5. Of(s.seen \cup S, ComplainPhase) = Of(s.seen, ComplainPhase) \cup S
  BY Zenon DEF Of
<1>6. VotesIn(s.seen \cup S) = VotesIn(s.seen) \cup UNION {c.bad \X {c.from} : c \in S}
  BY <1>5, Zenon DEF VotesIn
<1>7. ComplaintsIn(s.seen \cup S) =
        ComplaintsIn(s.seen) \cup UNION {c.complain \X {c.from} : c \in S}
  BY <1>5, Zenon DEF ComplaintsIn
<1> QED  BY <1>4, <1>6, <1>7, Zenon

\* What complaints say does not depend on the other messages.
LEMMA OtherMessages ==
    ASSUME NEW A, NEW S, \A c \in S : c.phase # ComplainPhase
    PROVE  /\ VotesIn(A \cup S) = VotesIn(A) /\ ComplaintsIn(A \cup S) = ComplaintsIn(A)
           /\ VotedOut(A \cup S) = VotedOut(A)
           /\ \A m : About(A \cup S, m) = About(A, m)
<1>1. Of(A \cup S, ComplainPhase) = Of(A, ComplainPhase)
  BY Zenon DEF Of
<1>2. VotesIn(A \cup S) = VotesIn(A) /\ ComplaintsIn(A \cup S) = ComplaintsIn(A)
  BY <1>1, Zenon DEF VotesIn, ComplaintsIn
<1> QED  BY <1>2, Zenon DEF VotedOut, About

\* Nor does anything of it depend on the commitments.
LEMMA SameBeforeCommitments ==
    ASSUME NEW A, NEW B, BeforeCommitments(A) = BeforeCommitments(B)
    PROVE  /\ VotedOut(A) = VotedOut(B) /\ WrongJustifiers(A) = WrongJustifiers(B)
           /\ \A m : Unanswered(A, m) = Unanswered(B, m)
<1>1. \A c : c.phase \in {ComplainPhase, JustifyPhase} => (c \in A <=> c \in B)
  BY DEF BeforeCommitments
<1>2. /\ Of(A, ComplainPhase) = Of(B, ComplainPhase)
      /\ Of(A, JustifyPhase) = Of(B, JustifyPhase)
      /\ \A m : From(A, JustifyPhase, m) = From(B, JustifyPhase, m)
  BY <1>1 DEF Of, From
<1>3. VotesIn(A) = VotesIn(B) /\ ComplaintsIn(A) = ComplaintsIn(B)
  BY <1>2, Zenon DEF VotesIn, ComplaintsIn
<1>4. VotedOut(A) = VotedOut(B) /\ \A m : About(A, m) = About(B, m)
  BY <1>3, Zenon DEF VotedOut, About
<1>5. WrongJustifiers(A) = WrongJustifiers(B)
  BY <1>2, <1>4 DEF WrongJustifiers
<1>6. \A m : Unanswered(A, m) = Unanswered(B, m)
  BY <1>2, <1>4, Zenon DEF Unanswered
<1> QED  BY <1>4, <1>5, <1>6, Zenon

\* Whose justification is wrong.
LEMMA IsWrongJustifier ==
    ASSUME NEW A, NEW m
    PROVE  m \in WrongJustifiers(A) <=>
                \E c \in Of(A, JustifyPhase) :
                    c.from = m /\ (~ (c.for \subseteq About(A, m)) \/ c.good # c.for)
BY Zenon DEF WrongJustifiers

\* Whose complaint is not answered.
LEMMA IsUnanswered ==
    ASSUME NEW A, NEW m, NEW k
    PROVE  k \in Unanswered(A, m) <=>
                k \in About(A, m) /\ \A c \in From(A, JustifyPhase, m) : k \notin c.good
BY Zenon DEF Unanswered

\* A justification counts for what it answers, unless its sender is bad (ReceiveMessage
\* of justifications).
LEMMA JustificationsRead ==
    ASSUME NEW s, IsSession(s), NEW n, NEW S, NoDoubles(BeforeCommitments(s.seen \cup S)),
           \A c \in S : c.phase = JustifyPhase /\ c \notin s.seen /\ c.from \in Members,
           WrongJustifiers(s.seen) \subseteq s.bad,
           \A m \in Members \ s.bad : Complainers(s, m) = Unanswered(s.seen, m),
           NEW t \in ReceiveJustifications(s, n, S)
    PROVE  /\ IsSession(t) /\ t.seen = s.seen \cup S /\ t.votes = s.votes
           /\ t.bad = s.bad \cup WrongJustifiers(t.seen)
           /\ \A m \in Members \ t.bad : Complainers(t, m) = Unanswered(t.seen, m)
<1> DEFINE Wrong == {c.from : c \in {c \in S : c \notin Counted(s, S) \/ c.good # c.for}}
           Cleared == UNION {{c.from} \X c.good : c \in Counted(s, S)}
<1>1. PICK A : A = s.seen
  BY Zenon
<1>2. PICK B : B = A \cup S
  BY Zenon
<1>3. /\ IsSession(t) /\ t.seen = B /\ t.votes = s.votes
      /\ t.open = s.open \ Cleared /\ t.bad = s.bad \cup Wrong
  <2>1. Doubles(s, S, JustifyPhase) = {}
    BY NoneTwice, Zenon
  <2>2. PICK F \in FirstOfEach(s, S, JustifyPhase) :
          t = [s EXCEPT !.seen = s.seen \cup S,
                 !.open = s.open \ UNION {{c.from} \X c.good : c \in Counted(s, F)},
                 !.shares = s.shares \cup {c.from : c \in {c \in Counted(s, F) : n \in c.good}},
                 !.bad = s.bad
                          \cup {c.from : c \in {c \in F : c \notin Counted(s, F) \/ c.good # c.for}}
                          \cup Doubles(s, S, JustifyPhase)]
    BY Zenon DEF ReceiveJustifications
  <2>3. F = S
    BY AllAreFirst, Zenon
  <2> QED  BY <1>1, <1>2, <2>1, <2>2, <2>3, Zenon DEF IsSession, Fields
<1>4. /\ Of(B, JustifyPhase) = Of(A, JustifyPhase) \cup S
      /\ \A m : From(B, JustifyPhase, m) = From(A, JustifyPhase, m) \cup {c \in S : c.from = m}
  BY <1>2, Zenon DEF Of, From
<1>5. \A m : About(B, m) = About(A, m)
  <2>1. \A c \in S : c.phase # ComplainPhase
    OBVIOUS
  <2> QED  BY <1>2, <2>1, OtherMessages, Zenon
<1>6. ASSUME NEW c \in S, c.from \notin s.bad
      PROVE  c \in Counted(s, S) <=> c.for \subseteq About(A, c.from)
  <2>1. From(A, JustifyPhase, c.from) = {}
    BY <1>1, OnePerMember DEF From
  <2>2. Unanswered(A, c.from) = About(A, c.from)
    BY <2>1, Zenon DEF Unanswered
  <2>3. Complainers(s, c.from) = About(A, c.from)
    BY <1>1, <1>6, <2>2, Zenon
  <2> QED  BY <1>6, <2>3, Zenon DEF Counted
<1>7. t.bad = s.bad \cup WrongJustifiers(B)
  <2>1. ASSUME NEW m, m \notin s.bad
        PROVE  m \in Wrong <=> \E c \in S : /\ c.from = m
                                            /\ ~ (c.for \subseteq About(A, m)) \/ c.good # c.for
    BY <1>6, <2>1, Zenon
  <2> HIDE DEF Wrong
  <2>2. ASSUME NEW m
        PROVE  m \in WrongJustifiers(B) <=>
                \/ m \in WrongJustifiers(A)
                \/ \E c \in S : /\ c.from = m
                                /\ ~ (c.for \subseteq About(A, m)) \/ c.good # c.for
    <3>1. m \in WrongJustifiers(B) <=>
            \E c \in Of(B, JustifyPhase) :
                c.from = m /\ (~ (c.for \subseteq About(B, m)) \/ c.good # c.for)
      BY IsWrongJustifier
    <3>2. m \in WrongJustifiers(A) <=>
            \E c \in Of(A, JustifyPhase) :
                c.from = m /\ (~ (c.for \subseteq About(A, m)) \/ c.good # c.for)
      BY IsWrongJustifier
    <3>3. \A c : c \in Of(B, JustifyPhase) <=> c \in Of(A, JustifyPhase) \/ c \in S
      BY <1>4, Zenon
    <3>4. About(B, m) = About(A, m)
      BY <1>5, Zenon
    <3> QED  BY <3>1, <3>2, <3>3, <3>4, Zenon
  <2>3. \A m : m \in WrongJustifiers(A) => m \in s.bad
    BY <1>1, Zenon
  <2>4. \A m : m \in Wrong => m \in s.bad \cup WrongJustifiers(B)
    BY <2>1, <2>2, Zenon
  <2>5. \A m : m \in WrongJustifiers(B) => m \in s.bad \cup Wrong
    BY <2>1, <2>2, <2>3, Zenon
  <2> QED  BY <1>3, <2>4, <2>5, Zenon
<1>8. ASSUME NEW m \in Members \ t.bad  PROVE Complainers(t, m) = Unanswered(B, m)
  <2>1. m \notin s.bad /\ \A c \in S : c.from = m => c \in Counted(s, S)
    BY <1>3, Zenon
  <2>2. ASSUME NEW k
        PROVE  <<m, k>> \in Cleared <=> \E c \in S : c.from = m /\ k \in c.good
    BY <2>1 DEF Counted
  <2> HIDE DEF Cleared
  <2>3. \A k : k \in Complainers(t, m) <=>
                k \in Complainers(s, m) /\ \A c \in S : c.from = m => k \notin c.good
    BY <1>3, <2>2, Zenon DEF Complainers
  <2>4. \A k : k \in Unanswered(B, m) <=>
                k \in Unanswered(A, m) /\ \A c \in S : c.from = m => k \notin c.good
    <3>1. \A k : k \in Unanswered(B, m) <=>
            k \in About(B, m) /\ \A c \in From(B, JustifyPhase, m) : k \notin c.good
      BY IsUnanswered, Zenon
    <3>2. \A k : k \in Unanswered(A, m) <=>
            k \in About(A, m) /\ \A c \in From(A, JustifyPhase, m) : k \notin c.good
      BY IsUnanswered, Zenon
    <3> QED  BY <1>4, <1>5, <3>1, <3>2
  <2>5. Complainers(s, m) = Unanswered(A, m)
    BY <1>1, <1>8, <2>1, Zenon
  <2> QED  BY <2>3, <2>4, <2>5, Zenon DEF Complainers, Unanswered
<1> QED  BY <1>1, <1>2, <1>3, <1>7, <1>8, Zenon

-----------------------------------------------------------------------------
(* The steps keep the verdict.                                             *)

\* A session whose member takes no step, and sends no complaint, decides as before.
LEMMA StillDecides ==
    ASSUME NEW n, Decides(n), node'[n] = node[n], phase'[n] = phase[n],
           From(sent', ComplainPhase, n) = From(sent, ComplainPhase, n)
    PROVE  Decides(n)'
<1>1. OwnVerdict(n)' = OwnVerdict(n)
  BY Zenon DEF OwnVerdict
<1>2. \A S : Verdict(n, S)' = Verdict(n, S)
  BY <1>1, Zenon DEF Verdict
<1> QED  BY <1>1, <1>2, Zenon DEF Decides

\* A step of n leaves the sessions of the others alone.
LEMMA OthersDecide ==
    ASSUME IInv, VerdictIInv, NEW n \in Honest, NEW p, phase' = [phase EXCEPT ![n] = p],
           NEW t, node' = [node EXCEPT ![n] = t],
           NEW M, sent' = sent \cup M, \A c \in M : c.from = n,
           Decides(n)'
    PROVE  VerdictIInv'
<1> SUFFICES ASSUME NEW k \in Honest, k # n  PROVE Decides(k)'
  BY Zenon DEF VerdictIInv
<1>1. node'[k] = node[k] /\ phase'[k] = phase[k]
  BY Zenon DEF IInv, TypeOK, Members
<1>2. From(sent', ComplainPhase, k) = From(sent, ComplainPhase, k)
  BY Zenon DEF From
<1>3. Decides(k)
  BY Zenon DEF VerdictIInv
<1> QED  BY <1>1, <1>2, <1>3, StillDecides, Zenon

\* ReceiveMessage remembers the contributions it has read.
LEMMA ContributionsSeen ==
    ASSUME NEW s, IsSession(s), NEW S, NEW t \in ReceiveContributions(s, S)
    PROVE  IsSession(t) /\ t.seen = s.seen \cup S
BY Zenon DEF ReceiveContributions, IsSession, Fields

\* And the complaints.
LEMMA ComplaintsSeen ==
    ASSUME NEW s, IsSession(s), NEW S, NEW t \in ReceiveComplaints(s, S)
    PROVE  IsSession(t) /\ t.seen = s.seen \cup S
BY Zenon DEF ReceiveComplaints, IsSession, Fields

\* And the justifications.
LEMMA JustificationsSeen ==
    ASSUME NEW s, IsSession(s), NEW n, NEW S, NEW t \in ReceiveJustifications(s, n, S)
    PROVE  IsSession(t) /\ t.seen = s.seen \cup S
BY Zenon DEF ReceiveJustifications, IsSession, Fields

\* What the invariant says of a member that has complained.
LEMMA DecidesComplained ==
    ASSUME NEW n, NEW v, node'[n] = v, phase'[n] = ComplainPhase,
           OwnVerdict(n)' = v.bad, Of(v.seen, JustifyPhase) = {},
           NoDoubles(BeforeCommitments(v.seen)) =>
                v.votes = VotesIn(v.seen) /\ v.open = ComplaintsIn(v.seen)
    PROVE  Decides(n)'
BY DEF Decides

\* What the invariant says of a member that has justified itself.
LEMMA DecidesJustified ==
    ASSUME NEW n, NEW v, node'[n] = v, phase'[n] = JustifyPhase,
           OwnVerdict(n)' = OwnVerdict(n),
           NoDoubles(BeforeCommitments(v.seen)) =>
                /\ v.bad = OwnVerdict(n) \cup VotedOut(v.seen) \cup WrongJustifiers(v.seen)
                /\ \A m \in Members \ v.bad : Complainers(v, m) = Unanswered(v.seen, m)
    PROVE  Decides(n)'
BY DEF Decides

\* What the invariant says of a member that has committed.
LEMMA DecidesCommitted ==
    ASSUME NEW n, NEW v, node'[n] = v, phase'[n] \in {CommitPhase, FinalizePhase},
           NoDoubles(BeforeCommitments(v.seen)) => v.bad = Verdict(n, v.seen)'
    PROVE  Decides(n)'
BY DEF Decides

\* VerifyAndComplain: the complaint says what the member holds for bad.
LEMMA ComplainDecides ==
    ASSUME IInv, NEW n \in Honest, Decides(n),
           NEW S \in SUBSET Available(n, ContributePhase),
           NEW E \in SUBSET Available(n, ComplainPhase), NEW u, Complain(n, S, E, u)
    PROVE  Decides(n)'
<1>1. /\ IsSession(node[n]) /\ phase[n] = ContributePhase /\ phase'[n] = ComplainPhase
      /\ node[n] = NewSession /\ From(sent, ComplainPhase, n) = {}
  BY DEF IInv, TypeOK, Members, Complain, Enter, Decides
<1>2. PICK s, t :
        /\ s \in ReceiveContributions(node[n], S) /\ t \in ReceiveComplaints(s, E)
        /\ node' = [node EXCEPT ![n] = VerifyAndComplain(t, n, u)]
        /\ sent' = sent \cup SendComplaint(VerifyAndComplain(t, n, u), n)
  BY Zenon DEF Complain
<1>3. PICK v : v = VerifyAndComplain(t, n, u)
  BY Zenon
<1>4. node'[n] = v /\ sent' = sent \cup SendComplaint(v, n)
  BY <1>2, <1>3, Zenon DEF IInv, TypeOK
<1>5. OwnVerdict(n)' = v.bad
  <2>1. CASE v.bad \cup WeComplain(v, n) = {}
    <3>1. SendComplaint(v, n) = {}
      BY <2>1, Zenon DEF SendComplaint
    <3>2. From(sent', ComplainPhase, n) = {}
      BY <1>1, <1>4, <3>1, Zenon
    <3> QED  BY <2>1, <3>2, Zenon DEF OwnVerdict
  <2>2. CASE v.bad \cup WeComplain(v, n) # {}
    <3>1. PICK c : c = Complaint(n, v.bad, WeComplain(v, n) \ v.bad)
      BY Zenon
    <3>2. SendComplaint(v, n) = {c}
      BY <2>2, <3>1, Zenon DEF SendComplaint
    <3>3. c.phase = ComplainPhase /\ c.from = n /\ c.bad = v.bad
      BY <3>1, Zenon DEF Complaint
    <3>4. From(sent', ComplainPhase, n) = {c}
      BY <1>1, <1>4, <3>2, <3>3, Zenon DEF From
    <3> QED  BY <3>3, <3>4, Zenon DEF OwnVerdict
  <2> QED  BY <2>1, <2>2, Zenon
<1>6. /\ IsSession(s) /\ IsSession(t) /\ s.seen = node[n].seen \cup S /\ t.seen = s.seen \cup E
      /\ v.seen = t.seen /\ v.votes = t.votes /\ v.open = t.open
  <2>1. IsSession(s) /\ s.seen = node[n].seen \cup S
    BY <1>1, <1>2, ContributionsSeen, Zenon
  <2>2. IsSession(t) /\ t.seen = s.seen \cup E
    BY <2>1, <1>2, ComplaintsSeen, Zenon
  <2>3. v.seen = t.seen /\ v.votes = t.votes /\ v.open = t.open
    BY <2>2, <1>3, Zenon DEF VerifyAndComplain, IsSession, Fields
  <2> QED  BY <2>1, <2>2, <2>3, Zenon
<1>7. /\ node[n].seen = {} /\ node[n].votes = {} /\ node[n].open = {}
  BY <1>1 DEF NewSession
<1>8. /\ \A c \in S : c.phase = ContributePhase
      /\ \A c \in E : c.phase = ComplainPhase
  BY Zenon DEF Available, Of
<1>9. Of(v.seen, JustifyPhase) = {}
  BY <1>6, <1>7, <1>8 DEF Of
<1>10. ASSUME NoDoubles(BeforeCommitments(v.seen))
       PROVE  v.votes = VotesIn(v.seen) /\ v.open = ComplaintsIn(v.seen)
  <2>1. /\ NoDoubles(BeforeCommitments(node[n].seen \cup S))
        /\ NoDoubles(BeforeCommitments(s.seen \cup E))
    BY <1>6, <1>10, OnceBefore, Zenon
  <2>2. s.votes = {} /\ s.open = {}
    BY <1>1, <1>2, <1>7, <2>1, ContributionsRead
  <2>3. Of(s.seen, ComplainPhase) = {}
    BY <1>6, <1>7, <1>8 DEF Of
  <2>4. s.votes = VotesIn(s.seen) /\ s.open = ComplaintsIn(s.seen)
    BY <2>2, <2>3, Zenon DEF VotesIn, ComplaintsIn
  <2>5. \A c \in E : c.phase = ComplainPhase /\ c \notin s.seen
    BY <1>6, <1>7, <1>8
  <2>6. t.votes = VotesIn(t.seen) /\ t.open = ComplaintsIn(t.seen)
    <3>1. /\ IsSession(s) /\ t \in ReceiveComplaints(s, E)
          /\ NoDoubles(BeforeCommitments(s.seen \cup E))
      BY <1>2, <1>6, <2>1, Zenon
    <3> QED  BY <2>4, <2>5, <3>1, ComplaintsRead
  <2> QED  BY <1>6, <2>6, Zenon
<1> QED  BY <1>1, <1>4, <1>5, <1>9, <1>10, DecidesComplained, Zenon

\* VerifyAndJustify: the votes are those of the complaints that were read, and the
\* justifications that were read early are treated as the late ones.
LEMMA JustifyDecides ==
    ASSUME IInv, NEW n \in Honest, Decides(n),
           NEW S \in SUBSET Available(n, ComplainPhase),
           NEW E \in SUBSET Available(n, JustifyPhase), Justify(n, S, E)
    PROVE  Decides(n)'
<1>1. IsSession(node[n]) /\ phase[n] = ComplainPhase /\ phase'[n] = JustifyPhase
  BY DEF IInv, TypeOK, Members, Justify, Enter
<1>2. PICK s, t :
        /\ s \in ReceiveComplaints(node[n], S) /\ t \in ReceiveJustifications(s, n, E)
        /\ node' = [node EXCEPT ![n] = VerifyAndJustify(t)]
        /\ sent' = sent \cup SendJustification(VerifyAndJustify(t), n)
  BY Zenon DEF Justify
<1>3. PICK v : v = VerifyAndJustify(t)
  BY Zenon
<1>4. node'[n] = v /\ sent' = sent \cup SendJustification(v, n)
  BY <1>2, <1>3, Zenon DEF IInv, TypeOK
<1>5. From(sent', ComplainPhase, n) = From(sent, ComplainPhase, n)
  BY <1>4 DEF From, SendJustification, Justification
<1>6. OwnVerdict(n)' = OwnVerdict(n)
  BY <1>5, Zenon DEF OwnVerdict
<1>7. /\ IsSession(s) /\ IsSession(t) /\ s.seen = node[n].seen \cup S /\ t.seen = s.seen \cup E
      /\ v.seen = t.seen /\ v.open = t.open
  <2>1. IsSession(s) /\ s.seen = node[n].seen \cup S
    BY <1>1, <1>2, ComplaintsSeen, Zenon
  <2>2. IsSession(t) /\ t.seen = s.seen \cup E
    <3>1. t \in ReceiveJustifications(s, n, E)
      BY <1>2, Zenon
    <3> QED  BY <2>1, <3>1, JustificationsSeen
  <2>3. v.seen = t.seen /\ v.open = t.open
    BY <2>2, <1>3, Zenon DEF VerifyAndJustify, IsSession, Fields
  <2> QED  BY <2>1, <2>2, <2>3, Zenon
<1>8. v.bad = t.bad \cup {m \in Members : Cardinality(Voters(t, m)) >= BadVotes}
  BY <1>3, <1>7, Zenon DEF VerifyAndJustify, IsSession, Fields
<1>9. /\ \A c \in S : c.phase = ComplainPhase /\ c \notin node[n].seen
      /\ \A c \in E : c.phase = JustifyPhase /\ c \notin node[n].seen /\ c.from \in Members
  BY Zenon DEF Available, Of, IInv, TypeOK
<1>10. ASSUME NoDoubles(BeforeCommitments(v.seen))
       PROVE  /\ v.bad = OwnVerdict(n) \cup VotedOut(v.seen) \cup WrongJustifiers(v.seen)
              /\ \A m \in Members \ v.bad : Complainers(v, m) = Unanswered(v.seen, m)
  <2>1. /\ NoDoubles(BeforeCommitments(node[n].seen))
        /\ NoDoubles(BeforeCommitments(node[n].seen \cup S))
        /\ NoDoubles(BeforeCommitments(s.seen \cup E))
    BY <1>7, <1>10, OnceBefore, Zenon
  <2>2. /\ Of(node[n].seen, JustifyPhase) = {}
        /\ node[n].votes = VotesIn(node[n].seen) /\ node[n].open = ComplaintsIn(node[n].seen)
        /\ node[n].bad = OwnVerdict(n)
    BY <1>1, <2>1, Zenon DEF Decides
  <2>3. s.bad = OwnVerdict(n) /\ s.votes = VotesIn(s.seen) /\ s.open = ComplaintsIn(s.seen)
    BY <1>1, <1>2, <1>9, <2>1, <2>2, ComplaintsRead
  <2>4. Of(s.seen, JustifyPhase) = {}
    BY <1>7, <1>9, <2>2 DEF Of
  <2>5. WrongJustifiers(s.seen) = {}
    BY <2>4, Zenon DEF WrongJustifiers
  <2>6. \A m : Complainers(s, m) = Unanswered(s.seen, m)
    <3>1. \A m : From(s.seen, JustifyPhase, m) = {}
      BY <2>4, Zenon DEF Of, From
    <3>2. \A m : Unanswered(s.seen, m) = About(s.seen, m)
      BY <3>1, Zenon DEF Unanswered
    <3> QED  BY <2>3, <3>2, Zenon DEF Complainers, About
  <2>7. \A c \in E : c.phase = JustifyPhase /\ c \notin s.seen /\ c.from \in Members
    BY <1>7, <1>9
  <2>8. /\ t.votes = s.votes /\ t.bad = s.bad \cup WrongJustifiers(t.seen)
        /\ \A m \in Members \ t.bad : Complainers(t, m) = Unanswered(t.seen, m)
    <3>1. WrongJustifiers(s.seen) \subseteq s.bad
      BY <2>5, Zenon
    <3>2. \A m \in Members \ s.bad : Complainers(s, m) = Unanswered(s.seen, m)
      BY <2>6, Zenon
    <3>3. /\ IsSession(s) /\ t \in ReceiveJustifications(s, n, E)
          /\ NoDoubles(BeforeCommitments(s.seen \cup E))
      BY <1>2, <1>7, <2>1, Zenon
    <3> QED  BY <2>7, <3>1, <3>2, <3>3, JustificationsRead
  <2>9. VotesIn(t.seen) = VotesIn(s.seen)
    <3>1. \A c \in E : c.phase # ComplainPhase
      BY <1>9
    <3>2. VotesIn(s.seen \cup E) = VotesIn(s.seen)
      BY <3>1, OtherMessages, Zenon
    <3> QED  BY <1>7, <3>2, Zenon
  <2>10. VotedOut(t.seen) = {m \in Members : Cardinality(Voters(t, m)) >= BadVotes}
    BY <2>3, <2>8, <2>9, Zenon DEF VotedOut, Voters
  <2>11. v.bad = OwnVerdict(n) \cup VotedOut(v.seen) \cup WrongJustifiers(v.seen)
    BY <1>7, <1>8, <2>3, <2>8, <2>10, Zenon
  <2>12. \A m \in Members \ v.bad : Complainers(v, m) = Unanswered(v.seen, m)
    BY <1>7, <1>8, <2>8, Zenon DEF Complainers
  <2> QED  BY <2>11, <2>12, Zenon
<1> QED  BY <1>1, <1>4, <1>6, <1>10, DecidesJustified, Zenon

\* VerifyAndCommit: members with complaints that nobody answered are bad.
LEMMA CommitDecides ==
    ASSUME IInv, NEW n \in Honest, Decides(n),
           NEW S \in SUBSET Available(n, JustifyPhase), Commit(n, S)
    PROVE  Decides(n)'
<1>1. IsSession(node[n]) /\ phase[n] = JustifyPhase /\ phase'[n] = CommitPhase
  BY DEF IInv, TypeOK, Members, Commit, Enter
<1>2. PICK t \in ReceiveJustifications(node[n], n, S) :
        /\ node' = [node EXCEPT ![n] = VerifyAndCommit(t)]
        /\ sent' = sent \cup SendCommitment(VerifyAndCommit(t), n)
  BY Zenon DEF Commit
<1>3. PICK v : v = VerifyAndCommit(t)
  BY Zenon
<1>4. node'[n] = v /\ sent' = sent \cup SendCommitment(v, n)
  BY <1>2, <1>3, Zenon DEF IInv, TypeOK
<1>5. From(sent', ComplainPhase, n) = From(sent, ComplainPhase, n)
  BY <1>4 DEF From, SendCommitment, Commitment
<1>6. OwnVerdict(n)' = OwnVerdict(n)
  BY <1>5, Zenon DEF OwnVerdict
<1>7. IsSession(t) /\ t.seen = node[n].seen \cup S
  BY <1>1, <1>2, JustificationsSeen
<1>8. v.seen = t.seen /\ v.bad = t.bad \cup {m \in Members : Complainers(t, m) # {}}
  BY <1>3, <1>7, Zenon DEF VerifyAndCommit, IsSession, Fields
<1>9. \A c \in S : c.phase = JustifyPhase /\ c \notin node[n].seen /\ c.from \in Members
  BY Zenon DEF Available, Of, IInv, TypeOK
<1>10. ASSUME NoDoubles(BeforeCommitments(v.seen))
       PROVE  v.bad = OwnVerdict(n) \cup VotedOut(v.seen) \cup WrongJustifiers(v.seen)
                        \cup {m \in Members : Unanswered(v.seen, m) # {}}
  <2>1. /\ NoDoubles(BeforeCommitments(node[n].seen))
        /\ NoDoubles(BeforeCommitments(node[n].seen \cup S))
    BY <1>7, <1>8, <1>10, OnceBefore, Zenon
  <2>2. /\ node[n].bad = OwnVerdict(n) \cup VotedOut(node[n].seen)
                            \cup WrongJustifiers(node[n].seen)
        /\ \A m \in Members \ node[n].bad : Complainers(node[n], m) = Unanswered(node[n].seen, m)
    BY <1>1, <2>1, Zenon DEF Decides
  <2>3. WrongJustifiers(node[n].seen) \subseteq node[n].bad
    BY <2>2, Zenon
  <2>4. /\ t.bad = node[n].bad \cup WrongJustifiers(t.seen)
        /\ \A m \in Members \ t.bad : Complainers(t, m) = Unanswered(t.seen, m)
    BY <1>1, <1>2, <1>9, <2>1, <2>2, <2>3, JustificationsRead
  <2>5. VotedOut(t.seen) = VotedOut(node[n].seen)
    <3>1. \A c \in S : c.phase # ComplainPhase
      BY <1>9
    <3>2. VotedOut(node[n].seen \cup S) = VotedOut(node[n].seen)
      BY <3>1, OtherMessages, Zenon
    <3> QED  BY <1>7, <3>2, Zenon
  <2>6. WrongJustifiers(node[n].seen) \subseteq WrongJustifiers(t.seen)
    <3>1. \A c \in S : c.phase # ComplainPhase
      BY <1>9
    <3>2. \A m : About(node[n].seen \cup S, m) = About(node[n].seen, m)
      BY <3>1, OtherMessages, Zenon
    <3>3. PICK A, B : A = node[n].seen /\ B = t.seen
      BY Zenon
    <3>4. Of(A, JustifyPhase) \subseteq Of(B, JustifyPhase) /\ \A m : About(B, m) = About(A, m)
      BY <1>7, <3>2, <3>3, Zenon DEF Of
    <3>5. WrongJustifiers(A) \subseteq WrongJustifiers(B)
      <4> SUFFICES ASSUME NEW m \in WrongJustifiers(A)  PROVE m \in WrongJustifiers(B)
        BY Zenon
      <4>1. PICK c \in Of(A, JustifyPhase) :
                c.from = m /\ (~ (c.for \subseteq About(A, m)) \/ c.good # c.for)
        BY IsWrongJustifier
      <4>2. c \in Of(B, JustifyPhase) /\ About(B, m) = About(A, m)
        BY <3>4, Zenon
      <4> QED  BY <4>1, <4>2, IsWrongJustifier, Zenon
    <3> QED  BY <3>3, <3>5, Zenon
  <2>7. t.bad = OwnVerdict(n) \cup VotedOut(t.seen) \cup WrongJustifiers(t.seen)
    BY <2>2, <2>4, <2>5, <2>6, Zenon
  <2>8. ASSUME NEW m
        PROVE  m \in v.bad <=> \/ m \in t.bad
                               \/ m \in Members /\ Unanswered(t.seen, m) # {}
    BY <1>8, <2>4, Zenon
  <2>9. v.bad = t.bad \cup {m \in Members : Unanswered(t.seen, m) # {}}
    BY <1>8, <2>8, Zenon
  <2> QED  BY <1>8, <2>7, <2>9, Zenon
<1>11. NoDoubles(BeforeCommitments(v.seen)) => v.bad = Verdict(n, v.seen)'
  BY <1>6, <1>10, Zenon DEF Verdict
<1> QED  BY <1>1, <1>4, <1>11, DecidesCommitted, Zenon

\* FinalizeCommitments reads commitments, which change nothing of the verdict.
LEMMA FinalizeDecides ==
    ASSUME IInv, NEW n \in Honest, Decides(n),
           NEW S \in SUBSET Available(n, CommitPhase), FinalizeCommitments(n, S)
    PROVE  Decides(n)'
<1>1. IsSession(node[n]) /\ phase[n] = CommitPhase /\ phase'[n] = FinalizePhase
  BY DEF IInv, TypeOK, Members, FinalizeCommitments, Enter
<1>2. PICK v : v = ReceiveCommitments(node[n], S)
  BY Zenon
<1>3. node'[n] = v /\ sent' = sent
  BY <1>2, Zenon DEF FinalizeCommitments, IInv, TypeOK
<1>4. v.seen = node[n].seen \cup S /\ v.bad = node[n].bad
  BY <1>1, <1>2, Zenon DEF ReceiveCommitments, IsSession, Fields
<1>5. \A c \in S : c.phase = CommitPhase
  BY Zenon DEF Available, Of
<1>6. PICK A, B : A = node[n].seen /\ B = v.seen
  BY Zenon
<1>7. BeforeCommitments(B) = BeforeCommitments(A)
  BY <1>4, <1>5, <1>6 DEF BeforeCommitments
<1>8. OwnVerdict(n)' = OwnVerdict(n)
  BY <1>3, Zenon DEF OwnVerdict
<1>9. NoDoubles(BeforeCommitments(B)) => v.bad = Verdict(n, A)
  BY <1>1, <1>4, <1>6, <1>7, Zenon DEF Decides
<1>10. Verdict(n, B)' = Verdict(n, A)
  BY <1>7, <1>8, SameBeforeCommitments DEF Verdict
<1>11. NoDoubles(BeforeCommitments(v.seen)) => v.bad = Verdict(n, v.seen)'
  BY <1>6, <1>9, <1>10, Zenon
<1> QED  BY <1>1, <1>3, <1>11, DecidesCommitted, Zenon

\* SendContributions: nothing has been read yet.
LEMMA ContributeDecides ==
    ASSUME IInv, NEW n \in Honest, Decides(n), Contribute(n)
    PROVE  Decides(n)'
<1>1. phase[n] = InitializedPhase /\ phase'[n] = ContributePhase /\ node'[n] = node[n]
  BY DEF IInv, TypeOK, Members, Contribute, Enter
<1>2. From(sent', ComplainPhase, n) = From(sent, ComplainPhase, n)
  BY DEF Contribute, From, Contribution
<1>3. node[n] = NewSession /\ From(sent, ComplainPhase, n) = {}
  BY <1>1 DEF Decides
<1>4. /\ phase'[n] # ComplainPhase /\ phase'[n] # JustifyPhase
      /\ phase'[n] \notin {CommitPhase, FinalizePhase}
  BY <1>1
<1> QED  BY <1>1, <1>2, <1>3, <1>4, Zenon DEF Decides

\* The steps of an honest member keep the verdict.
LEMMA HonestDecide ==
    ASSUME IInv, VerdictIInv, NEW n \in Honest, HonestStep(n)
    PROVE  VerdictIInv'
<1>0. Decides(n) /\ node = [node EXCEPT ![n] = node[n]]
  BY Zenon DEF VerdictIInv, IInv, TypeOK
<1>1. CASE Contribute(n)
  <2>1. /\ phase' = [phase EXCEPT ![n] = ContributePhase] /\ node' = [node EXCEPT ![n] = node[n]]
        /\ sent' = sent \cup {Contribution(n, 1, Members)}
    BY <1>0, <1>1, Zenon DEF Contribute, Enter
  <2>2. PICK M : sent' = sent \cup M /\ \A c \in M : c.from = n
    <3>1. PICK M : M = {Contribution(n, 1, Members)}
      BY Zenon
    <3>2. sent' = sent \cup M /\ \A c \in M : c.from = n
      BY <2>1, <3>1 DEF Contribution
    <3> QED  BY <3>2, Zenon
  <2>3. Decides(n)'
    BY <1>0, <1>1, ContributeDecides, Zenon
  <2> QED  BY <2>1, <2>2, <2>3, OthersDecide, Zenon
<1>2. ASSUME NEW S \in SUBSET Available(n, ContributePhase),
             NEW E \in SUBSET Available(n, ComplainPhase), NEW u, Complain(n, S, E, u)
      PROVE  VerdictIInv'
  <2>1. PICK v : /\ phase' = [phase EXCEPT ![n] = ComplainPhase]
                 /\ node' = [node EXCEPT ![n] = v] /\ sent' = sent \cup SendComplaint(v, n)
    BY <1>2, Zenon DEF Complain, Enter
  <2>2. \A c \in SendComplaint(v, n) : c.from = n
    BY DEF SendComplaint, Complaint
  <2>3. Decides(n)'
    BY <1>0, <1>2, ComplainDecides, Zenon
  <2> QED  BY <2>1, <2>2, <2>3, OthersDecide, Zenon
<1>3. ASSUME NEW S \in SUBSET Available(n, ComplainPhase),
             NEW E \in SUBSET Available(n, JustifyPhase), Justify(n, S, E)
      PROVE  VerdictIInv'
  <2>1. PICK v : /\ phase' = [phase EXCEPT ![n] = JustifyPhase]
                 /\ node' = [node EXCEPT ![n] = v] /\ sent' = sent \cup SendJustification(v, n)
    BY <1>3, Zenon DEF Justify, Enter
  <2>2. \A c \in SendJustification(v, n) : c.from = n
    BY DEF SendJustification, Justification
  <2>3. Decides(n)'
    BY <1>0, <1>3, JustifyDecides, Zenon
  <2> QED  BY <2>1, <2>2, <2>3, OthersDecide, Zenon
<1>4. ASSUME NEW S \in SUBSET Available(n, JustifyPhase), Commit(n, S)
      PROVE  VerdictIInv'
  <2>1. PICK v : /\ phase' = [phase EXCEPT ![n] = CommitPhase]
                 /\ node' = [node EXCEPT ![n] = v] /\ sent' = sent \cup SendCommitment(v, n)
    BY <1>4, Zenon DEF Commit, Enter
  <2>2. \A c \in SendCommitment(v, n) : c.from = n
    BY OneCommitment, Zenon
  <2>3. Decides(n)'
    BY <1>0, <1>4, CommitDecides, Zenon
  <2> QED  BY <2>1, <2>2, <2>3, OthersDecide, Zenon
<1>5. ASSUME NEW S \in SUBSET Available(n, CommitPhase), FinalizeCommitments(n, S)
      PROVE  VerdictIInv'
  <2>1. PICK v : /\ phase' = [phase EXCEPT ![n] = FinalizePhase]
                 /\ node' = [node EXCEPT ![n] = v] /\ sent' = sent
    BY <1>5, Zenon DEF FinalizeCommitments, Enter
  <2>2. PICK M : sent' = sent \cup M /\ \A c \in M : c.from = n
    <3>1. PICK M : M = {}
      BY Zenon
    <3>2. sent' = sent \cup M /\ \A c \in M : c.from = n
      BY <2>1, <3>1, Zenon
    <3> QED  BY <3>2, Zenon
  <2>3. Decides(n)'
    BY <1>0, <1>5, FinalizeDecides, Zenon
  <2> QED  BY <2>1, <2>2, <2>3, OthersDecide, Zenon
<1>6. CASE AbortPhase(n)
  <2>1. /\ phase' = [phase EXCEPT ![n] = Aborted] /\ node' = [node EXCEPT ![n] = node[n]]
        /\ sent' = sent
    BY <1>0, <1>6, Zenon DEF AbortPhase
  <2>2. phase'[n] = Aborted
    BY <2>1, Zenon DEF IInv, TypeOK, Members
  <2>3. Decides(n)'
    BY <2>2 DEF Decides
  <2>4. PICK M : sent' = sent \cup M /\ \A c \in M : c.from = n
    <3>1. PICK M : M = {}
      BY Zenon
    <3>2. sent' = sent \cup M /\ \A c \in M : c.from = n
      BY <2>1, <3>1, Zenon
    <3> QED  BY <3>2, Zenon
  <2> QED  BY <2>1, <2>3, <2>4, OthersDecide, Zenon
<1> QED  BY <1>1, <1>2, <1>3, <1>4, <1>5, <1>6, Zenon DEF HonestStep

\* A member that simulates errors complains in its own name only.
LEMMA FaultyDecide ==
    ASSUME IInv, VerdictIInv, NEW m \in Faulty, FaultyPhase(m)
    PROVE  VerdictIInv'
<1> SUFFICES ASSUME NEW k \in Honest  PROVE Decides(k)'
  BY Zenon DEF VerdictIInv
<1>1. phase' = [phase EXCEPT ![m] = phase[m] + 1] /\ node' = node
  BY FaultySends, Zenon
<1>2. PICK M : sent' = sent \cup M /\ \A c \in M : c.from = m
  BY FaultySends, Zenon
<1>3. k # m /\ phase'[k] = phase[k] /\ node'[k] = node[k]
  BY <1>1, DKGAssumption, Zenon DEF IInv, TypeOK, Members
<1>4. From(sent', ComplainPhase, k) = From(sent, ComplainPhase, k)
  BY <1>2, <1>3, Zenon DEF From
<1>5. Decides(k)
  BY Zenon DEF VerdictIInv
<1> QED  BY <1>3, <1>4, <1>5, StillDecides, Zenon

-----------------------------------------------------------------------------
(* A round without faults of the network.                                  *)

\* Member k goes on to phase p, when the others have come so far, with the messages M.
GoesOn(k, p, M) ==
    /\ p \in ContributePhase .. FinalizePhase /\ phase[k] = p - 1
    /\ phase' = [phase EXCEPT ![k] = p]
    /\ sent' = sent \cup M /\ IsFiniteSet(M)
    /\ \A c \in M : c.phase = p /\ c.from = k
    /\ \A c, d \in M : c = d
    /\ \/ k \in Honest /\ \A m \in Members : phase[m] >= p - 1
       \/ k \in Faulty /\ \A n \in Honest : IF p < CommitPhase THEN phase[n] = p - 1
                                                               ELSE phase[n] >= p

\* Messages of other phases, and of other members, are as before.
LEMMA OtherKinds ==
    ASSUME NEW k, NEW p, NEW M, GoesOn(k, p, M)
    PROVE  /\ \A q : q # p => Of(sent', q) = Of(sent, q)
           /\ \A q, m : q # p \/ m # k => From(sent', q, m) = From(sent, q, m)
           /\ \A q, m : From(sent, q, m) \subseteq From(sent', q, m)
<1>1. sent' = sent \cup M /\ \A c \in M : c.phase = p /\ c.from = k
  BY Zenon DEF GoesOn
<1> QED  BY <1>1, Zenon DEF Of, From

\* Who has contributed is settled when somebody complains.
LEMMA ContributionsSettled ==
    ASSUME NEW k, NEW p, NEW M, GoesOn(k, p, M), p # ContributePhase
    PROVE  NoContribution(sent') = NoContribution(sent)
<1>1. \A m : From(sent', ContributePhase, m) = From(sent, ContributePhase, m)
  BY OtherKinds
<1> QED  BY <1>1, Zenon DEF NoContribution

\* What complaints and justifications say of the members depends on nothing else.
LEMMA SameComplaints ==
    ASSUME NEW A, NEW B, Of(A, ComplainPhase) = Of(B, ComplainPhase),
           Of(A, JustifyPhase) = Of(B, JustifyPhase)
    PROVE  /\ VotedOut(A) = VotedOut(B) /\ WrongJustifiers(A) = WrongJustifiers(B)
           /\ \A m : Unanswered(A, m) = Unanswered(B, m)
<1>1. VotesIn(A) = VotesIn(B) /\ ComplaintsIn(A) = ComplaintsIn(B)
  BY Zenon DEF VotesIn, ComplaintsIn
<1>2. \A m : About(A, m) = About(B, m)
  BY <1>1, Zenon DEF About
<1>3. \A m : From(A, JustifyPhase, m) = From(B, JustifyPhase, m)
  BY Zenon DEF Of, From
<1>4. VotedOut(A) = VotedOut(B)
  BY <1>1, Zenon DEF VotedOut
<1>5. WrongJustifiers(A) = WrongJustifiers(B)
  BY <1>2 DEF WrongJustifiers
<1> QED  BY <1>2, <1>3, <1>4, <1>5, Zenon DEF Unanswered

\* The members that are dropped are settled when somebody commits.
LEMMA VerdictSettled ==
    ASSUME NEW k, NEW p, NEW M, GoesOn(k, p, M), p >= CommitPhase
    PROVE  /\ Dropped(sent') = Dropped(sent) /\ Left' = Left
           /\ AllAnswered' <=> AllAnswered
<1>1. p # ContributePhase /\ p # ComplainPhase /\ p # JustifyPhase
  BY DEF GoesOn
<1>2. /\ Of(sent', ComplainPhase) = Of(sent, ComplainPhase)
      /\ Of(sent', JustifyPhase) = Of(sent, JustifyPhase)
      /\ \A n : From(sent', JustifyPhase, n) = From(sent, JustifyPhase, n)
  <2>1. /\ \A q : q # p => Of(sent', q) = Of(sent, q)
        /\ \A q, m : q # p \/ m # k => From(sent', q, m) = From(sent, q, m)
    BY OtherKinds
  <2> QED  BY <1>1, <2>1, Zenon
<1>3. NoContribution(sent') = NoContribution(sent)
  BY <1>1, ContributionsSettled, Zenon
<1>4. Dropped(sent') = Dropped(sent)
  <2>1. /\ VotedOut(sent') = VotedOut(sent) /\ WrongJustifiers(sent') = WrongJustifiers(sent)
        /\ \A m : Unanswered(sent', m) = Unanswered(sent, m)
    BY <1>2, SameComplaints, Zenon
  <2> QED  BY <1>3, <2>1, Zenon DEF Dropped
<1>5. Left' = Left
  BY <1>4, Zenon DEF Left
<1>6. AllAnswered' <=> AllAnswered
  BY <1>2, Zenon DEF AllAnswered
<1> QED  BY <1>4, <1>5, <1>6, Zenon

\* More complaints, more complainers.
LEMMA AboutGrows ==
    ASSUME NEW A, NEW B, A \subseteq B, NEW m
    PROVE  About(A, m) \subseteq About(B, m)
<1>1. Of(A, ComplainPhase) \subseteq Of(B, ComplainPhase)
  BY Zenon DEF Of
<1>2. ComplaintsIn(A) \subseteq ComplaintsIn(B)
  BY <1>1, Zenon DEF ComplaintsIn
<1> QED  BY <1>2, Zenon DEF About

\* Members stay together.
LEMMA StayTogether ==
    ASSUME IInv, InPhase, NEW k \in Members, NEW p, NEW M, GoesOn(k, p, M),
           p = CommitPhase /\ M # {} => \A m \in Members : phase[m] >= JustifyPhase,
           p = ContributePhase /\ k \in Honest => M # {}
    PROVE  InPhase'
<1>1. /\ phase \in [Members -> Int] /\ Honest \subseteq Members
  BY Zenon DEF IInv, TypeOK, Members
<1>2. /\ p \in 2 .. 6 /\ phase[k] = p - 1 /\ phase'[k] = p
      /\ \A m \in Members \ {k} : phase'[m] = phase[m]
      /\ k \in Honest => \A m \in Members : phase[m] >= p - 1
  <2>1. Honest \cap Faulty = {}
    BY DKGAssumption, Zenon
  <2> QED  BY <1>1, <2>1, Zenon DEF GoesOn
<1>3. \A m \in Members : phase'[m] \in 1 .. 6 /\ phase'[m] >= phase[m]
  BY <1>1, <1>2 DEF InPhase
<1>4. ASSUME NEW n \in Honest, NEW m \in Members  PROVE phase'[m] >= phase'[n] - 1
  <2>1. phase[m] >= phase[n] - 1 /\ phase'[m] >= phase[m] /\ phase[m] \in Int /\ phase[n] \in Int
        /\ phase'[m] \in Int
    BY <1>1, <1>3 DEF InPhase
  <2>2. CASE n = k
    BY <1>1, <1>2, <2>1, <2>2, Zenon
  <2>3. CASE n # k
    BY <1>1, <1>2, <2>1, <2>3
  <2> QED  BY <2>2, <2>3, Zenon
<1>5. ASSUME Of(sent', CommitPhase) # {}, NEW m \in Members  PROVE phase'[m] >= JustifyPhase
  <2>1. CASE Of(sent, CommitPhase) # {}
    BY <1>1, <1>3, <2>1 DEF InPhase
  <2>2. CASE Of(sent, CommitPhase) = {}
    <3>1. p = CommitPhase /\ M # {}
      BY <1>5, <2>2, Zenon DEF GoesOn, Of
    <3> QED  BY <1>1, <1>3, <3>1
  <2> QED  BY <2>1, <2>2, Zenon
<1>6. ASSUME NEW n \in Honest, phase'[n] >= ContributePhase
      PROVE  From(sent', ContributePhase, n) # {}
  <2>1. CASE phase[n] >= ContributePhase
    BY <2>1, OtherKinds, Zenon DEF InPhase
  <2>2. CASE ~ (phase[n] >= ContributePhase)
    <3>1. n = k /\ p = ContributePhase
      BY <1>1, <1>2, <1>6, <2>2
    <3>2. PICK c : c \in M
      BY <3>1, Zenon
    <3> QED  BY <3>1, <3>2, Zenon DEF GoesOn, From
  <2> QED  BY <2>1, <2>2, Zenon
<1> QED  BY <1>3, <1>4, <1>5, <1>6, Zenon DEF InPhase

\* A member sends one message of a kind.
LEMMA OneOfAKind ==
    ASSUME IInv, NoDoubles(sent), \A c \in sent : AsExpected(c),
           NEW k \in Members, NEW p, NEW M, GoesOn(k, p, M)
    PROVE  NoDoubles(sent')
<1>1. /\ sent' = sent \cup M /\ p \in 2 .. 6 /\ phase[k] = p - 1
      /\ \A c \in M : c.phase = p /\ c.from = k
      /\ \A c, d \in M : c = d
  BY Zenon DEF GoesOn
<1>2. \A c \in sent : ~ (c.from = k /\ c.phase = p)
  BY <1>1 DEF AsExpected
<1> QED  BY <1>1, <1>2, Zenon DEF NoDoubles

\* What is expected of a message stays so.
LEMMA StillExpected ==
    ASSUME IInv, InPhase, NEW k \in Members, NEW p, NEW M, GoesOn(k, p, M),
           NEW c \in sent, AsExpected(c)
    PROVE  AsExpected(c)'
<1>1. /\ phase \in [Members -> Int] /\ Honest \subseteq Members /\ c.from \in Members
      /\ \A d \in sent : d.from \in Members
  BY Zenon DEF IInv, TypeOK, Members
<1>2. /\ p \in 2 .. 6 /\ phase[k] = p - 1 /\ phase'[k] = p /\ sent' = sent \cup M
      /\ \A m \in Members \ {k} : phase'[m] = phase[m]
  BY <1>1, Zenon DEF GoesOn
<1>3. c.phase \in ContributePhase .. CommitPhase /\ phase'[c.from] >= c.phase
  BY <1>1, <1>2 DEF AsExpected
<1>4. ASSUME c.phase = ComplainPhase
      PROVE  c.bad = IF c.from \in Honest THEN NoContribution(sent') ELSE {}
  <2>1. CASE c.from \in Honest
    <3>1. phase[c.from] >= ComplainPhase /\ phase[k] >= phase[c.from] - 1
      BY <1>4, <2>1, Zenon DEF AsExpected, InPhase
    <3>2. p # ContributePhase
      BY <1>1, <1>2, <3>1
    <3> QED  BY <1>4, <3>2, ContributionsSettled, Zenon DEF AsExpected
  <2>2. CASE c.from \notin Honest
    BY <1>4, <2>2, Zenon DEF AsExpected
  <2> QED  BY <2>1, <2>2, Zenon
<1>5. ASSUME c.phase = JustifyPhase, c.from \in Honest
      PROVE  c.good = c.for /\ c.for \subseteq About(sent', c.from)
  BY <1>2, <1>5, AboutGrows, Zenon DEF AsExpected
<1>6. ASSUME c.phase = CommitPhase
      PROVE  /\ c.valid = Left'
             /\ c.from \in Honest => c.key = [m \in Left' |-> 1] /\ c.ok
  <2>1. phase[k] >= JustifyPhase
    BY <1>6, Zenon DEF InPhase, Of
  <2>2. Left' = Left
    BY <1>2, <2>1, VerdictSettled
  <2> QED  BY <1>6, <2>2, Zenon DEF AsExpected
<1> QED
  BY <1>3, <1>4, <1>5, <1>6, Zenon DEF AsExpected

\* The other members go on as they were.
LEMMA OthersReadAll ==
    ASSUME IInv, InPhase, NEW k \in Members, NEW p, NEW M, GoesOn(k, p, M),
           NEW n \in Honest, n # k, ReadsAll(n), Succeeds(n),
           node'[n] = node[n], final'[n] = final[n]
    PROVE  ReadsAll(n)' /\ Succeeds(n)'
<1>1. /\ phase \in [Members -> Int] /\ n \in Members
  BY Zenon DEF IInv, TypeOK, Members
<1>2. /\ p \in 2 .. 6 /\ phase[k] = p - 1 /\ sent' = sent \cup M /\ phase'[n] = phase[n]
      /\ phase[k] >= phase[n] - 1 /\ phase[n] \in Int
  BY <1>1, Zenon DEF GoesOn, InPhase
<1>3. phase[n] <= p
  BY <1>2
<1> DEFINE s == node[n]
<1>4. \A q \in ContributePhase .. JustifyPhase : phase'[n] > q => Of(s.seen, q) = Of(sent', q)
  <2> SUFFICES ASSUME NEW q \in 2 .. 4, phase[n] > q  PROVE Of(s.seen, q) = Of(sent', q)
    BY <1>2, Zenon
  <2>1. q # p
    BY <1>2, <1>3
  <2> QED  BY <2>1, OtherKinds DEF ReadsAll
<1>5. ASSUME phase[n] >= ComplainPhase
      PROVE  /\ NoContribution(sent') = NoContribution(sent)
             /\ \A m : From(sent', ContributePhase, m) = From(sent, ContributePhase, m)
  <2>1. p # ContributePhase
    BY <1>2, <1>3, <1>5
  <2> QED  BY <2>1, OtherKinds, ContributionsSettled
<1>6. /\ From(sent', ComplainPhase, n) = From(sent, ComplainPhase, n)
      /\ From(sent', CommitPhase, n) = From(sent, CommitPhase, n)
  BY OtherKinds
<1>7. OwnVerdict(n)' = OwnVerdict(n)
  BY <1>6, Zenon DEF OwnVerdict
<1>8. ReadsAll(n)'
  BY <1>2, <1>4, <1>5, <1>6, <1>7, Zenon DEF ReadsAll
<1>9. Succeeds(n)'
  <2>1. CASE phase[n] >= CommitPhase
    <3>1. AllAnswered' <=> AllAnswered
      BY <1>2, <1>3, <2>1, VerdictSettled
    <3> QED  BY <1>2, <1>6, <3>1, Zenon DEF Succeeds
  <2>2. CASE ~ (phase[n] >= CommitPhase)
    BY <1>2, <2>2 DEF Succeeds
  <2> QED  BY <2>1, <2>2, Zenon
<1> QED  BY <1>8, <1>9, Zenon

\* If nobody has sent two messages, neither has anybody among those that were read.
LEMMA OnceRead ==
    ASSUME NEW A, NEW B, A \subseteq B, NoDoubles(B)
    PROVE  NoDoubles(BeforeCommitments(A))
BY Zenon DEF NoDoubles, BeforeCommitments

\* The step of member k, put together.
LEMMA StaysUndisturbed ==
    ASSUME IInv, Undisturbed, NEW k \in Members, NEW p, NEW M, GoesOn(k, p, M),
           p = CommitPhase /\ M # {} => \A m \in Members : phase[m] >= JustifyPhase,
           p = ContributePhase /\ k \in Honest => M # {},
           \A c \in M : AsExpected(c)',
           \A n \in Honest \ {k} : node'[n] = node[n] /\ final'[n] = final[n],
           k \in Honest => ReadsAll(k)' /\ Succeeds(k)'
    PROVE  Undisturbed'
<1>1. InPhase'
  BY StayTogether, Zenon DEF Undisturbed
<1>2. NoDoubles(sent')
  BY OneOfAKind, Zenon DEF Undisturbed
<1>3. \A c \in sent' : AsExpected(c)'
  <2>1. \A c \in sent : AsExpected(c)'
    BY StillExpected, Zenon DEF Undisturbed
  <2>2. sent' = sent \cup M
    BY Zenon DEF GoesOn
  <2> QED  BY <2>1, <2>2, Zenon
<1>4. \A n \in Honest : ReadsAll(n)' /\ Succeeds(n)'
  BY OthersReadAll, Zenon DEF Undisturbed
<1> QED  BY <1>1, <1>2, <1>3, <1>4, Zenon DEF Undisturbed

\* Messages that are lost are counted: if none is, all that are available were read.
LEMMA NoneLost ==
    ASSUME IsFiniteSet(sent), NEW n, NEW p, NEW S \in SUBSET Available(n, p)
    PROVE  Lost(n, S, p) \in Nat /\ (Lost(n, S, p) = 0 => S = Available(n, p))
<1> DEFINE T == Available(n, p) \ S
<1>1. T \subseteq sent
  BY Zenon DEF Available, Of
<1>2. IsFiniteSet(T)
  BY <1>1, FS_Subset, Zenon
<1>3. Cardinality(T) \in Nat /\ (Cardinality(T) = 0 => T = {})
  BY <1>2, FS_CardinalityType, FS_EmptySet, Zenon
<1>4. Lost(n, S, p) = Cardinality(T)
  BY Zenon DEF Lost
<1> QED  BY <1>3, <1>4, Zenon

\* All messages of phase p are read when a session has read those that are left.
LEMMA ThenAllRead ==
    ASSUME NEW n, NEW p, node[n].seen \subseteq sent,
           NEW A, node[n].seen \cup Available(n, p) \subseteq A, A \subseteq sent
    PROVE  Of(A, p) = Of(sent, p)
BY Zenon DEF Available, Of

\* Complaints and justifications that are read add no commitment.
LEMMA NoneCommitted ==
    ASSUME NEW A, NEW B, Of(A, CommitPhase) = {},
           \A c \in B : c.phase = ComplainPhase \/ c.phase = JustifyPhase
    PROVE  Of(A \cup B, CommitPhase) = {}
BY DEF Of

\* A contribution goes to everybody.
LEMMA ContributeUndisturbed ==
    ASSUME IInv, Undisturbed, NEW n \in Honest, Contribute(n)
    PROVE  Undisturbed'
<1> DEFINE c == Contribution(n, 1, Members)
           M == {c}
<1>1. /\ n \in Members /\ phase \in [Members -> Int] /\ phase[n] = 1 /\ phase'[n] = 2
      /\ node' = node /\ final' = final /\ sent' = sent \cup M
  BY DEF Contribute, Enter, IInv, TypeOK, Members
<1>2. c.phase = ContributePhase /\ c.from = n
  BY Zenon DEF Contribution
<1>3. GoesOn(n, ContributePhase, M)
  <2>1. IsFiniteSet(M)
    BY FS_Singleton, Zenon
  <2>2. \A d, e \in M : d = e
    BY Zenon
  <2>3. \A d \in M : d.phase = ContributePhase /\ d.from = n
    BY <1>2, Zenon
  <2> HIDE DEF M
  <2> QED  BY <1>1, <2>1, <2>2, <2>3 DEF GoesOn, Contribute, Enter
<1>4. AsExpected(c)'
  <2>1. \E good \in SUBSET Members : c = Contribution(c.from, 1, good)
    BY <1>2, Zenon
  <2> HIDE DEF c
  <2> QED  BY <1>1, <1>2, <2>1 DEF AsExpected
<1>5. ReadsAll(n)' /\ Succeeds(n)'
  <2>1. ReadsAll(n)
    BY Zenon DEF Undisturbed
  <2>2. ReadsAll(n)'
    BY <1>1, <2>1 DEF ReadsAll
  <2> QED  BY <1>1, <2>2 DEF Succeeds
<1>6. M # {} /\ \A d \in M : AsExpected(d)'
  BY <1>4, Zenon
<1> HIDE DEF M
<1> QED  BY <1>1, <1>3, <1>5, <1>6, StaysUndisturbed

\* Contributions that are read first are kept as they are.
LEMMA ContributionsKept ==
    ASSUME NEW S, \A c \in S : c.phase = ContributePhase /\ c.from \in Members,
           NoDoubles(BeforeCommitments(S)), NEW t \in ReceiveContributions(NewSession, S)
    PROVE  \A m \in Members : /\ From(S, ContributePhase, m) = {} => t.first[m] = None
                              /\ From(S, ContributePhase, m) # {}
                                    => t.first[m] \in From(S, ContributePhase, m)
<1>1. IsSession(NewSession) /\ NewSession.seen = {} /\ \A m \in Members : NewSession.first[m] = None
  BY Zenon DEF NewSession, IsSession, Fields
<1>2. PICK F \in FirstOfEach(NewSession, S, ContributePhase) :
        t = [NewSession EXCEPT !.seen = NewSession.seen \cup S,
               !.first = [m \in Members |-> IF \E c \in F : c.from = m
                             THEN CHOOSE c \in F : c.from = m ELSE NewSession.first[m]],
               !.bad = NewSession.bad \cup Doubles(NewSession, S, ContributePhase)]
  BY Zenon DEF ReceiveContributions
<1>3. F = S
  <2>1. NewSession.seen \cup S = S
    BY <1>1, Zenon
  <2> QED  BY <1>1, <2>1, AllAreFirst, Zenon
<1>4. t.first = [m \in Members |-> IF \E c \in S : c.from = m
                             THEN CHOOSE c \in S : c.from = m ELSE None]
  BY <1>1, <1>2, <1>3, Zenon DEF IsSession, Fields
<1> SUFFICES ASSUME NEW m \in Members
             PROVE  /\ From(S, ContributePhase, m) = {} => t.first[m] = None
                    /\ From(S, ContributePhase, m) # {}
                          => t.first[m] \in From(S, ContributePhase, m)
  BY Zenon
<1>5. From(S, ContributePhase, m) = {c \in S : c.from = m}
  BY Zenon DEF From
<1>6. t.first[m] = IF \E c \in S : c.from = m THEN CHOOSE c \in S : c.from = m ELSE None
  BY <1>4, Zenon
<1> QED  BY <1>5, <1>6, Zenon

\* Complaints change nothing of this.
LEMMA ComplaintsKeepFirst ==
    ASSUME NEW s, IsSession(s), NEW S, NEW t \in ReceiveComplaints(s, S)
    PROVE  /\ t.first = s.first /\ t.shares = s.shares /\ t.valid = s.valid
           /\ t.bad = s.bad \cup Doubles(s, S, ComplainPhase)
BY Zenon DEF ReceiveComplaints, IsSession, Fields

\* A complaint is one message at most.
LEMMA OneComplaint ==
    ASSUME NEW v, NEW n, NEW c \in SendComplaint(v, n)
    PROVE  c = Complaint(n, v.bad, WeComplain(v, n) \ v.bad)
BY Zenon DEF SendComplaint

\* VerifyAndComplain, when every contribution was read: those that did not contribute are
\* bad, and the shares of the others are good or complained about.
LEMMA ComplaintUndisturbed ==
    ASSUME IInv, VerdictIInv, VerdictIInv', Undisturbed, NEW n \in Honest,
           NEW E \in SUBSET Available(n, ComplainPhase),
           Complain(n, Available(n, ContributePhase), E, {})
    PROVE  Undisturbed'
<1>1. PICK S : S = Available(n, ContributePhase)
  BY Zenon
<1>2. /\ n \in Members /\ phase \in [Members -> Int] /\ phase[n] = 2 /\ phase'[n] = 3
      /\ phase' = [phase EXCEPT ![n] = 3] /\ \A m \in Members : phase[m] >= 2
      /\ node[n] = NewSession /\ From(sent, ComplainPhase, n) = {} /\ final' = final
      /\ \A c \in sent : c.from \in Members
  <2>1. /\ n \in Members /\ phase \in [Members -> Int] /\ phase[n] = 2 /\ phase'[n] = 3
        /\ phase' = [phase EXCEPT ![n] = 3] /\ \A m \in Members : phase[m] >= 2
        /\ final' = final /\ \A c \in sent : c.from \in Members
    BY DEF IInv, TypeOK, Members, Complain, Enter
  <2>2. phase[n] < ComplainPhase /\ Decides(n)
    BY <2>1 DEF VerdictIInv
  <2> QED  BY <2>1, <2>2, Zenon DEF Decides
<1>3. PICK s, t :
        /\ s \in ReceiveContributions(NewSession, S) /\ t \in ReceiveComplaints(s, E)
        /\ node' = [node EXCEPT ![n] = VerifyAndComplain(t, n, {})]
        /\ sent' = sent \cup SendComplaint(VerifyAndComplain(t, n, {}), n)
  BY <1>1, <1>2, Zenon DEF Complain
<1>4. PICK v, M : v = VerifyAndComplain(t, n, {}) /\ M = SendComplaint(v, n)
  BY Zenon
<1>5. node'[n] = v /\ sent' = sent \cup M /\ \A k \in Honest \ {n} : node'[k] = node[k]
  BY <1>3, <1>4, Zenon DEF IInv, TypeOK
<1>6. /\ IsSession(NewSession) /\ NewSession.seen = {} /\ NewSession.bad = {}
      /\ NewSession.valid = {}
  BY Zenon DEF NewSession, IsSession, Fields
<1>7. /\ S = Of(sent, ContributePhase) /\ S \subseteq sent /\ E \subseteq sent
      /\ \A c \in S : c.phase = 2 /\ c.from \in Members
      /\ \A c \in E : c.phase = 3
  BY <1>1, <1>2, <1>6, Zenon DEF Available, Of
<1>8. /\ NoDoubles(BeforeCommitments(NewSession.seen \cup S)) /\ NoDoubles(BeforeCommitments(S))
      /\ NoDoubles(BeforeCommitments(S \cup E))
  BY <1>6, <1>7, OnceRead, Zenon DEF Undisturbed
<1>9. IsSession(s) /\ s.seen = S /\ s.bad = {} /\ s.valid = {}
  <2>1. IsSession(s) /\ s.seen = NewSession.seen \cup S /\ s.bad = NewSession.bad
    <3>1. PICK r : r = NewSession
      BY Zenon
    <3>2. /\ IsSession(r) /\ NoDoubles(BeforeCommitments(r.seen \cup S))
          /\ s \in ReceiveContributions(r, S)
      BY <1>3, <1>6, <1>8, <3>1, Zenon
    <3>3. IsSession(s) /\ s.seen = r.seen \cup S /\ s.bad = r.bad
      BY <3>2, ContributionsRead
    <3> QED  BY <3>1, <3>3, Zenon
  <2>2. s.valid = NewSession.valid
    BY <1>3, <1>6, ReceiveEarly, Zenon
  <2> QED  BY <1>6, <2>1, <2>2, Zenon
<1>10. /\ IsSession(t) /\ t.seen = S \cup E /\ t.bad = {} /\ t.first = s.first /\ t.valid = {}
  <2>1. Doubles(s, E, ComplainPhase) = {}
    BY <1>8, <1>9, NoneTwice, Zenon
  <2>2. IsSession(t) /\ t.seen = s.seen \cup E
    BY <1>3, <1>9, ComplaintsSeen, Zenon
  <2>3. t.first = s.first /\ t.valid = s.valid /\ t.bad = s.bad \cup Doubles(s, E, ComplainPhase)
    BY <1>3, <1>9, ComplaintsKeepFirst, Zenon
  <2> QED  BY <1>9, <2>1, <2>2, <2>3, Zenon
<1>11. /\ v.seen = t.seen /\ v.first = s.first /\ v.bad = Silent(t) /\ v.valid = {}
       /\ v.shares = Members \ (Silent(t) \cup WeComplain(t, n))
  BY <1>4, <1>10, Zenon DEF VerifyAndComplain, IsSession, Fields
<1>12. Silent(t) = Silent(v) /\ WeComplain(t, n) = WeComplain(v, n)
  BY <1>10, <1>11, Zenon DEF Silent, WeComplain
<1>13. /\ \A m \in NoContribution(sent) : v.first[m] = None
       /\ \A m \in Members \ NoContribution(sent) : v.first[m] \in From(sent, ContributePhase, m)
  <2>1. \A m \in Members : From(S, ContributePhase, m) = From(sent, ContributePhase, m)
    BY <1>7, Zenon DEF From, Of
  <2>2. \A m \in Members : /\ From(S, ContributePhase, m) = {} => s.first[m] = None
                           /\ From(S, ContributePhase, m) # {}
                                 => s.first[m] \in From(S, ContributePhase, m)
    BY <1>3, <1>7, <1>8, ContributionsKept, Zenon
  <2> QED  BY <1>11, <2>1, <2>2, Zenon DEF NoContribution
<1>14. Silent(v) = NoContribution(sent)
  <2>1. ASSUME NEW m \in Members \ NoContribution(sent)  PROVE v.first[m] # None
    <3>1. PICK c : c = v.first[m]
      BY Zenon
    <3>2. c \in sent /\ c.phase = ContributePhase /\ c.from = m
      BY <1>13, <3>1, Zenon DEF From
    <3>3. PICK good \in SUBSET Members : c = Contribution(c.from, 1, good)
      BY <3>2, Zenon DEF Undisturbed, AsExpected
    <3> QED  BY <3>1, <3>2, <3>3, NoneAssumption, Zenon
  <2> QED  BY <1>13, <2>1, Zenon DEF Silent, NoContribution
<1>15. \A c \in M : c = Complaint(n, v.bad, WeComplain(v, n) \ v.bad)
  BY <1>4, OneComplaint, Zenon
<1>16. \A c \in M : /\ c.phase = 3 /\ c.from = n /\ c.bad = v.bad
                   /\ c.complain = WeComplain(v, n) \ v.bad
  BY <1>15 DEF Complaint
<1>17. GoesOn(n, ComplainPhase, M)
  <2>1. \A c, d \in M : c = d
    BY <1>15, Zenon
  <2>2. IsFiniteSet(M)
    <3>1. CASE M = {}
      BY <3>1, FS_EmptySet, Zenon
    <3>2. CASE M # {}
      <4>1. PICK c : M = {c}
        BY <2>1, <3>2
      <4> QED  BY <4>1, FS_Singleton, Zenon
    <3> QED  BY <3>1, <3>2, Zenon
  <2> QED  BY <1>2, <1>5, <1>16, <2>1, <2>2 DEF GoesOn
<1>18. /\ NoContribution(sent') = NoContribution(sent)
       /\ \A m : From(sent', ContributePhase, m) = From(sent, ContributePhase, m)
       /\ Of(sent', ContributePhase) = Of(sent, ContributePhase)
  BY <1>17, ContributionsSettled, OtherKinds
<1>19. OwnVerdict(n)' = v.bad
  <2>1. NoDoubles(BeforeCommitments(v.seen))
    BY <1>8, <1>10, <1>11, Zenon
  <2> QED  BY <1>2, <1>5, <2>1, Zenon DEF VerdictIInv, Decides
<1>20. \A c \in M : AsExpected(c)'
  <2> SUFFICES ASSUME NEW c \in M  PROVE AsExpected(c)'
    BY Zenon
  <2>1. c.phase \in ContributePhase .. CommitPhase /\ phase'[c.from] >= c.phase
    BY <1>2, <1>16
  <2>2. c.phase # ContributePhase /\ c.phase # JustifyPhase /\ c.phase # CommitPhase
    BY <1>16
  <2> QED  BY <1>11, <1>12, <1>14, <1>16, <1>18, <2>1, <2>2, Zenon DEF AsExpected
<1>21. ASSUME NEW m \in Members \ (v.bad \cup v.shares)
       PROVE  /\ \E c \in From(sent', ComplainPhase, n) : m \in c.complain
              /\ From(v.seen, JustifyPhase, m) = {}
  <2>1. m \in WeComplain(v, n) \ v.bad
    BY <1>11, <1>12, Zenon
  <2>2. PICK c : c \in M
    BY <1>4, <2>1, Zenon DEF SendComplaint
  <2>3. c \in From(sent', ComplainPhase, n) /\ m \in c.complain
    BY <1>5, <1>16, <2>1, <2>2, Zenon DEF From
  <2>4. From(v.seen, JustifyPhase, m) = {}
    BY <1>7, <1>10, <1>11 DEF From
  <2> QED  BY <2>3, <2>4, Zenon
<1>22. ReadsAll(n)'
  <2>1. v.seen \subseteq sent' /\ v.valid = {} /\ Of(v.seen, CommitPhase) = {}
    BY <1>5, <1>7, <1>10, <1>11 DEF Of
  <2>2. Of(v.seen, ContributePhase) = Of(sent', ContributePhase)
    BY <1>7, <1>10, <1>11, <1>18, Zenon DEF Of
  <2>3. \A p \in 2 .. 4 : phase'[n] > p => p = 2
    BY <1>2
  <2>4. OwnVerdict(n)' = NoContribution(sent')
    BY <1>11, <1>12, <1>14, <1>18, <1>19, Zenon
  <2> QED  BY <1>2, <1>5, <1>13, <1>18, <1>21, <2>1, <2>2, <2>3, <2>4, Zenon DEF ReadsAll
<1>23. Succeeds(n)'
  BY <1>2 DEF Succeeds
<1> QED  BY <1>2, <1>5, <1>17, <1>20, <1>22, <1>23, StaysUndisturbed

\* ReceiveMessage of justifications: a share that is disclosed to the member is kept,
\* unless the sender is bad.
LEMMA SharesJustified ==
    ASSUME NEW s, IsSession(s), NEW n, NEW S, NoDoubles(BeforeCommitments(s.seen \cup S)),
           \A c \in S : c.phase = JustifyPhase /\ c \notin s.seen /\ c.from \in Members,
           \A m \in Members \ (s.bad \cup s.shares) :
                \A c \in From(s.seen, JustifyPhase, m) : n \notin c.good,
           NEW t \in ReceiveJustifications(s, n, S)
    PROVE  /\ t.first = s.first /\ t.valid = s.valid
           /\ s.bad \subseteq t.bad /\ s.shares \subseteq t.shares
           /\ \A m \in Members \ (t.bad \cup t.shares) :
                \A c \in From(t.seen, JustifyPhase, m) : n \notin c.good
<1>1. PICK F \in FirstOfEach(s, S, JustifyPhase) :
        t = [s EXCEPT !.seen = s.seen \cup S,
               !.open = s.open \ UNION {{c.from} \X c.good : c \in Counted(s, F)},
               !.shares = s.shares \cup {c.from : c \in {c \in Counted(s, F) : n \in c.good}},
               !.bad = s.bad
                         \cup {c.from : c \in {c \in F : c \notin Counted(s, F) \/ c.good # c.for}}
                         \cup Doubles(s, S, JustifyPhase)]
  BY Zenon DEF ReceiveJustifications
<1>2. F = S
  BY AllAreFirst, Zenon
<1>3. /\ t.first = s.first /\ t.valid = s.valid /\ t.seen = s.seen \cup S
      /\ t.shares = s.shares \cup {c.from : c \in {c \in Counted(s, S) : n \in c.good}}
      /\ t.bad = s.bad \cup {c.from : c \in {c \in S : c \notin Counted(s, S) \/ c.good # c.for}}
                       \cup Doubles(s, S, JustifyPhase)
  BY <1>1, <1>2, Zenon DEF IsSession, Fields
<1>4. ASSUME NEW m \in Members \ (t.bad \cup t.shares), NEW c \in From(t.seen, JustifyPhase, m)
      PROVE  n \notin c.good
  <2>1. CASE c \in s.seen
    <3>1. c \in From(s.seen, JustifyPhase, m) /\ m \notin s.bad \cup s.shares
      BY <1>3, <1>4, <2>1, Zenon DEF From
    <3> QED  BY <3>1, Zenon
  <2>2. CASE c \notin s.seen
    <3>1. c \in S /\ c.from = m
      BY <1>3, <1>4, <2>2, Zenon DEF From
    <3>2. c \in Counted(s, S)
      BY <1>3, <1>4, <3>1, Zenon
    <3> QED  BY <1>3, <1>4, <3>1, <3>2, Zenon
  <2> QED  BY <2>1, <2>2, Zenon
<1> QED  BY <1>3, <1>4, Zenon

\* The session of n becomes v, by messages that were sent.
HasRead(n, v) ==
    LET r == node[n]
    IN  /\ node'[n] = v
        /\ r.seen \subseteq v.seen /\ v.seen \subseteq sent /\ v.first = r.first
        /\ r.bad \subseteq v.bad /\ r.shares \subseteq v.shares
        /\ \A m \in Members \ (v.bad \cup v.shares) :
                \A c \in From(v.seen, JustifyPhase, m) : n \notin c.good

\* What a session has read of the earlier phases stays so as its member goes on.
LEMMA StillReads ==
    ASSUME IInv, NEW n \in Honest, ReadsAll(n), NEW p, NEW before,
           \/ p = JustifyPhase /\ before = ComplainPhase
           \/ p = CommitPhase /\ before = JustifyPhase
           \/ p = FinalizePhase /\ before = CommitPhase,
           NEW M, GoesOn(n, p, M), NEW v, HasRead(n, v),
           p # FinalizePhase => /\ Of(v.seen, before) = Of(sent, before)
                                /\ v.valid = {} /\ Of(v.seen, CommitPhase) = {}
    PROVE  ReadsAll(n)'
<1>0. p \in JustifyPhase .. FinalizePhase /\ before = p - 1
  OBVIOUS
<1>r. /\ node'[n] = v
      /\ node[n].seen \subseteq v.seen /\ v.seen \subseteq sent /\ v.first = node[n].first
      /\ node[n].bad \subseteq v.bad /\ node[n].shares \subseteq v.shares
      /\ \A m \in Members \ (v.bad \cup v.shares) :
            \A c \in From(v.seen, JustifyPhase, m) : n \notin c.good
  BY Zenon DEF HasRead
<1>1. /\ phase[n] = p - 1 /\ phase'[n] = p /\ sent' = sent \cup M /\ \A c \in M : c.phase = p
  BY Zenon DEF GoesOn, IInv, TypeOK, Members
<1>2. ASSUME NEW q \in 2 .. 4, p > q  PROVE Of(v.seen, q) = Of(sent', q)
  <2>1. Of(sent', q) = Of(sent, q)
    BY <1>2, OtherKinds
  <2>2. CASE q = p - 1
    <3>1. q = before /\ p # FinalizePhase
      BY <1>0, <1>2, <2>2
    <3> QED  BY <2>1, <3>1, Zenon
  <2>3. CASE q # p - 1
    <3>1. Of(node[n].seen, q) = Of(sent, q)
      BY <1>1, <1>2, <2>3 DEF ReadsAll
    <3>2. Of(v.seen, q) = Of(sent, q)
      BY <1>r, <3>1, Zenon DEF Of
    <3> QED  BY <2>1, <3>2, Zenon
  <2> QED  BY <2>2, <2>3, Zenon
<1>3. /\ NoContribution(sent') = NoContribution(sent)
      /\ \A m : From(sent', ContributePhase, m) = From(sent, ContributePhase, m)
      /\ From(sent', ComplainPhase, n) = From(sent, ComplainPhase, n)
  BY OtherKinds, ContributionsSettled
<1>4. OwnVerdict(n)' = OwnVerdict(n)
  BY <1>3, Zenon DEF OwnVerdict
<1>5. /\ \A m \in NoContribution(sent) : v.first[m] = None
      /\ \A m \in Members \ NoContribution(sent) : v.first[m] \in From(sent, ContributePhase, m)
      /\ OwnVerdict(n) = NoContribution(sent)
      /\ \A m \in Members \ (v.bad \cup v.shares) :
            \E c \in From(sent, ComplainPhase, n) : m \in c.complain
  <2>1. phase[n] >= ComplainPhase
    BY <1>0, <1>1
  <2> QED  BY <1>r, <2>1, Zenon DEF ReadsAll
<1>6. p < FinalizePhase => p # FinalizePhase
  BY <1>0
<1> QED  BY <1>1, <1>2, <1>3, <1>4, <1>5, <1>6, <1>r, Zenon DEF ReadsAll

\* What the session of a member that has complained, and has not finished, holds.
LEMMA SessionReads ==
    ASSUME NEW n, ReadsAll(n), NEW r, r = node[n],
           phase[n] = ComplainPhase \/ phase[n] = JustifyPhase \/ phase[n] = CommitPhase
    PROVE  /\ r.seen \subseteq sent /\ r.valid = {} /\ Of(r.seen, CommitPhase) = {}
           /\ \A m \in Members \ NoContribution(sent) :
                r.first[m] \in From(sent, ContributePhase, m)
           /\ \A m \in Members \ (r.bad \cup r.shares) :
                \A c \in From(r.seen, JustifyPhase, m) : n \notin c.good
<1>1. phase[n] >= ComplainPhase /\ phase[n] < FinalizePhase
  OBVIOUS
<1> QED  BY <1>1, Zenon DEF ReadsAll

\* VerifyAndJustify answers complaints that were made.
LEMMA AnswersComplaints ==
    ASSUME NEW v, NEW n, NEW A, v.seen \subseteq A, \A c \in A : c.from \in Members
    PROVE  JustifyFor(v, n) \subseteq About(A, n)
<1> SUFFICES ASSUME NEW k \in JustifyFor(v, n)  PROVE k \in About(A, n)
  BY Zenon
<1>1. PICK c \in Of(v.seen, ComplainPhase) : n \in c.complain /\ c.from = k
  BY Zenon DEF JustifyFor
<1>2. c \in Of(A, ComplainPhase) /\ k \in Members
  BY <1>1, Zenon DEF Of
<1>3. <<n, k>> \in c.complain \X {c.from}
  BY <1>1, Zenon
<1>4. <<n, k>> \in ComplaintsIn(A)
  BY <1>2, <1>3, Zenon DEF ComplaintsIn
<1> QED  BY <1>2, <1>4, Zenon DEF About

\* A step that sends what somebody put together sends one message at most.
LEMMA OneMessage ==
    ASSUME NEW M, NEW c, M \subseteq {c}
    PROVE  IsFiniteSet(M) /\ \A d, e \in M : d = e
<1>1. IsFiniteSet({c})
  BY FS_Singleton, Zenon
<1> QED  BY <1>1, FS_Subset, Zenon

\* VerifyAndJustify, when every complaint was read: what is answered was complained about.
LEMMA JustifyUndisturbed ==
    ASSUME IInv, Undisturbed, NEW n \in Honest, NEW E \in SUBSET Available(n, JustifyPhase),
           Justify(n, Available(n, ComplainPhase), E)
    PROVE  Undisturbed'
<1>1. PICK S, r : S = Available(n, ComplainPhase) /\ r = node[n]
  BY Zenon
<1>2. /\ n \in Members /\ phase \in [Members -> Int] /\ phase[n] = 3 /\ phase'[n] = 4
      /\ phase' = [phase EXCEPT ![n] = 4] /\ \A m \in Members : phase[m] >= 3
      /\ IsSession(r) /\ final' = final /\ \A c \in sent : c.from \in Members
  BY <1>1 DEF IInv, TypeOK, Members, Justify, Enter
<1>3. PICK s, t :
        /\ s \in ReceiveComplaints(r, S) /\ t \in ReceiveJustifications(s, n, E)
        /\ node' = [node EXCEPT ![n] = VerifyAndJustify(t)]
        /\ sent' = sent \cup SendJustification(VerifyAndJustify(t), n)
  BY <1>1, Zenon DEF Justify
<1>4. PICK v, M : v = VerifyAndJustify(t) /\ M = SendJustification(v, n)
  BY Zenon
<1>5. node'[n] = v /\ sent' = sent \cup M /\ \A k \in Honest \ {n} : node'[k] = node[k]
  BY <1>3, <1>4, Zenon DEF IInv, TypeOK
<1>6. /\ ReadsAll(n) /\ r.seen \subseteq sent /\ r.valid = {} /\ Of(r.seen, CommitPhase) = {}
      /\ \A m \in Members \ (r.bad \cup r.shares) :
            \A c \in From(r.seen, JustifyPhase, m) : n \notin c.good
      /\ \A m \in Members \ NoContribution(sent) : r.first[m] \in From(sent, ContributePhase, m)
  <2>1. ReadsAll(n)
    BY Zenon DEF Undisturbed
  <2> QED  BY <1>1, <1>2, <2>1, SessionReads, Zenon
<1>7. /\ S \subseteq sent /\ E \subseteq sent
      /\ \A c \in S : c.phase = ComplainPhase
      /\ \A c \in E : c.phase = JustifyPhase /\ c \notin r.seen /\ c.from \in Members
  BY <1>1, <1>2, Zenon DEF Available, Of
<1>8. /\ NoDoubles(BeforeCommitments(r.seen \cup S))
      /\ NoDoubles(BeforeCommitments(r.seen \cup S \cup E))
  <2>1. r.seen \cup S \subseteq sent /\ r.seen \cup S \cup E \subseteq sent
    BY <1>6, <1>7, Zenon
  <2> QED  BY <2>1, OnceRead, Zenon DEF Undisturbed
<1>9. /\ IsSession(s) /\ s.seen = r.seen \cup S /\ s.bad = r.bad /\ s.first = r.first
      /\ s.shares = r.shares /\ s.valid = {}
  <2>0. s \in ReceiveComplaints(r, S)
    BY <1>3, Zenon
  <2>1. Doubles(r, S, ComplainPhase) = {}
    BY <1>8, NoneTwice, Zenon
  <2>2. IsSession(s) /\ s.seen = r.seen \cup S
    BY <1>2, <2>0, ComplaintsSeen, Zenon
  <2>3. /\ s.first = r.first /\ s.valid = r.valid /\ s.shares = r.shares
        /\ s.bad = r.bad \cup Doubles(r, S, ComplainPhase)
    BY <1>2, <2>0, ComplaintsKeepFirst, Zenon
  <2> QED  BY <1>6, <2>1, <2>2, <2>3, Zenon
<1>10. /\ IsSession(t) /\ t.seen = r.seen \cup S \cup E /\ t.first = r.first /\ t.valid = {}
       /\ r.bad \subseteq t.bad /\ r.shares \subseteq t.shares
       /\ \A m \in Members \ (t.bad \cup t.shares) :
            \A c \in From(t.seen, JustifyPhase, m) : n \notin c.good
  <2>0. t \in ReceiveJustifications(s, n, E)
    BY <1>3, Zenon
  <2>1. IsSession(t) /\ t.seen = s.seen \cup E
    BY <1>9, <2>0, JustificationsSeen
  <2>2. \A m : From(s.seen, JustifyPhase, m) = From(r.seen, JustifyPhase, m)
    BY <1>7, <1>9 DEF From
  <2>3. \A m \in Members \ (s.bad \cup s.shares) :
            \A c \in From(s.seen, JustifyPhase, m) : n \notin c.good
    BY <1>6, <1>9, <2>2, Zenon
  <2>4. /\ NoDoubles(BeforeCommitments(s.seen \cup E))
        /\ \A c \in E : c.phase = JustifyPhase /\ c \notin s.seen /\ c.from \in Members
    BY <1>7, <1>8, <1>9
  <2>5. /\ t.first = s.first /\ t.valid = s.valid
        /\ s.bad \subseteq t.bad /\ s.shares \subseteq t.shares
        /\ \A m \in Members \ (t.bad \cup t.shares) :
                \A c \in From(t.seen, JustifyPhase, m) : n \notin c.good
    BY <1>9, <2>0, <2>3, <2>4, SharesJustified, Zenon
  <2> QED  BY <1>9, <2>1, <2>5, Zenon
<1>11. /\ v.seen = t.seen /\ v.first = t.first /\ t.bad \subseteq v.bad /\ v.valid = t.valid
       /\ v.shares = t.shares
  BY <1>4, <1>10, Zenon DEF VerifyAndJustify, IsSession, Fields
<1>12. PICK c : c = Justification(n, JustifyFor(v, n), JustifyFor(v, n))
  BY Zenon
<1>13. /\ M \subseteq {c} /\ c.phase = JustifyPhase /\ c.from = n
       /\ c.for = JustifyFor(v, n) /\ c.good = c.for
  BY <1>4, <1>12, Zenon DEF SendJustification, Justification
<1>14. GoesOn(n, JustifyPhase, M)
  <2>1. IsFiniteSet(M) /\ \A d, e \in M : d = e
    BY <1>13, OneMessage, Zenon
  <2> QED  BY <1>2, <1>5, <1>13, <2>1 DEF GoesOn
<1>15. v.seen \subseteq sent
  BY <1>6, <1>7, <1>10, <1>11, Zenon
<1>16. AsExpected(c)'
  <2>1. c.for \subseteq About(sent, n)
    BY <1>2, <1>13, <1>15, AnswersComplaints, Zenon
  <2>2. About(sent, n) \subseteq About(sent', n)
    BY <1>5, AboutGrows, Zenon
  <2> QED  BY <1>2, <1>13, <2>1, <2>2 DEF AsExpected
<1>17. ReadsAll(n)'
  <2>1. Of(v.seen, ComplainPhase) = Of(sent, ComplainPhase)
    <3>1. node[n].seen \cup Available(n, ComplainPhase) \subseteq v.seen
      BY <1>1, <1>10, <1>11, Zenon
    <3> QED  BY <1>1, <1>6, <1>15, <3>1, ThenAllRead, Zenon
  <2>2. Of(v.seen, CommitPhase) = {}
    <3>1. v.seen = (r.seen \cup S) \cup E /\ Of(r.seen, CommitPhase) = {}
      BY <1>6, <1>10, <1>11, Zenon
    <3>2. \A d \in S \cup E : d.phase = ComplainPhase \/ d.phase = JustifyPhase
      BY <1>7, Zenon
    <3>3. Of(r.seen \cup S, CommitPhase) = {}
      BY <3>1, <3>2, NoneCommitted, Zenon
    <3>4. Of((r.seen \cup S) \cup E, CommitPhase) = {}
      BY <3>2, <3>3, NoneCommitted, Zenon
    <3> QED  BY <3>1, <3>4, Zenon
  <2>3. /\ r.seen \subseteq v.seen /\ v.first = r.first /\ v.valid = {}
        /\ r.bad \subseteq v.bad /\ r.shares \subseteq v.shares
        /\ \A m \in Members \ (v.bad \cup v.shares) :
            \A d \in From(v.seen, JustifyPhase, m) : n \notin d.good
    BY <1>10, <1>11, Zenon
  <2>4. HasRead(n, v)
    BY <1>1, <1>5, <1>15, <2>3, Zenon DEF HasRead
  <2>5. ReadsAll(n) /\ v.valid = {}
    BY <1>6, <2>3, Zenon
  <2> QED  BY <1>14, <2>1, <2>2, <2>4, <2>5, StillReads, Zenon
<1>18. Succeeds(n)'
  BY <1>2 DEF Succeeds
<1> QED  BY <1>2, <1>5, <1>13, <1>14, <1>16, <1>17, <1>18, StaysUndisturbed

\* A pair of complaints: a member that complained and the one it complained about.
LEMMA IsAbout ==
    ASSUME NEW A, NEW m, NEW k
    PROVE  k \in About(A, m) <=>
                k \in Members /\ \E c \in Of(A, ComplainPhase) : m \in c.complain /\ c.from = k
<1>1. <<m, k>> \in ComplaintsIn(A) <=>
            \E c \in Of(A, ComplainPhase) : <<m, k>> \in c.complain \X {c.from}
  BY Zenon DEF ComplaintsIn
<1>2. \A c : <<m, k>> \in c.complain \X {c.from} <=> m \in c.complain /\ c.from = k
  BY Zenon
<1> QED  BY <1>1, <1>2, Zenon DEF About

\* Honest members that answer all complaints are not dropped: they have contributed,
\* nobody votes against them, and their justifications are right.
LEMMA HonestAreLeft ==
    ASSUME IInv, Undisturbed, AllAnswered, \A n \in Honest : phase[n] >= ContributePhase,
           NEW n \in Honest
    PROVE  n \in Left
<1>0. n \in Members /\ BadVotes \in Nat \ {0} /\ InPhase /\ \A c \in sent : AsExpected(c)
  BY DKGAssumption, Zenon DEF Members, Undisturbed
<1>1. n \notin NoContribution(sent)
  BY <1>0, Zenon DEF InPhase, NoContribution
<1>2. n \notin VotedOut(sent)
  <2>1. ASSUME NEW k, <<n, k>> \in VotesIn(sent)  PROVE FALSE
    <3>1. PICK c \in Of(sent, ComplainPhase) : <<n, k>> \in c.bad \X {c.from}
      BY <2>1, Zenon DEF VotesIn
    <3>2. n \in c.bad /\ c \in sent /\ c.phase = ComplainPhase
      BY <3>1, Zenon DEF Of
    <3> QED  BY <1>0, <1>1, <3>2, Zenon DEF AsExpected
  <2>2. {k \in Members : <<n, k>> \in VotesIn(sent)} = {}
    BY <2>1, Zenon
  <2>3. Cardinality({k \in Members : <<n, k>> \in VotesIn(sent)}) = 0
    BY <2>2, FS_EmptySet, Zenon
  <2> QED  BY <1>0, <2>3 DEF VotedOut
<1>3. n \notin WrongJustifiers(sent)
  <2> SUFFICES ASSUME n \in WrongJustifiers(sent)  PROVE FALSE
    BY Zenon
  <2>1. PICK c \in Of(sent, JustifyPhase) :
            c.from = n /\ (~ (c.for \subseteq About(sent, n)) \/ c.good # c.for)
    BY IsWrongJustifier
  <2>2. c \in sent /\ c.phase = JustifyPhase
    BY Zenon DEF Of
  <2> QED  BY <1>0, <2>1, <2>2, Zenon DEF AsExpected
<1>4. Unanswered(sent, n) = {}
  <2> SUFFICES ASSUME NEW k \in About(sent, n)
               PROVE  \E j \in From(sent, JustifyPhase, n) : k \in j.good
    BY Zenon DEF Unanswered
  <2>1. PICK c \in Of(sent, ComplainPhase) : n \in c.complain /\ c.from = k
    BY IsAbout
  <2>2. PICK j \in From(sent, JustifyPhase, n) : k \in j.for
    BY <2>1, Zenon DEF AllAnswered
  <2>3. j \in sent /\ j.phase = JustifyPhase /\ j.from = n
    BY Zenon DEF From
  <2>4. j.good = j.for
    BY <1>0, <2>3, Zenon DEF AsExpected
  <2> QED  BY <2>2, <2>4, Zenon
<1> QED  BY <1>0, <1>1, <1>2, <1>3, <1>4, Zenon DEF Left, Dropped

\* A member that commits holds the members for bad that everybody drops.
LEMMA CommitVerdict ==
    ASSUME VerdictIInv', NEW n \in Honest, phase'[n] = CommitPhase, ReadsAll(n)',
           NoDoubles(sent'), NEW v, node'[n] = v
    PROVE  v.bad = Dropped(sent')
<1>1. v.seen \subseteq sent' /\ OwnVerdict(n)' = NoContribution(sent')
  BY DEF ReadsAll
<1>2. /\ Of(v.seen, ComplainPhase) = Of(sent', ComplainPhase)
      /\ Of(v.seen, JustifyPhase) = Of(sent', JustifyPhase)
  BY DEF ReadsAll
<1>3. NoDoubles(BeforeCommitments(v.seen))
  BY <1>1, OnceRead, Zenon
<1>4. v.bad = OwnVerdict(n)' \cup VotedOut(v.seen) \cup WrongJustifiers(v.seen)
                \cup {m \in Members : Unanswered(v.seen, m) # {}}
  BY <1>3, Zenon DEF VerdictIInv, Decides, Verdict
<1>5. /\ VotedOut(v.seen) = VotedOut(sent') /\ WrongJustifiers(v.seen) = WrongJustifiers(sent')
      /\ \A m : Unanswered(v.seen, m) = Unanswered(sent', m)
  BY <1>2, SameComplaints, Zenon
<1> QED  BY <1>1, <1>4, <1>5, Zenon DEF Dropped

\* It has the shares of all members that are left: it had no complaint about a member,
\* or the member has answered it.
LEMMA CommitShares ==
    ASSUME NEW n \in Honest, phase'[n] = CommitPhase, ReadsAll(n)', NEW v, node'[n] = v,
           v.bad = Dropped(sent'), NEW m \in Members \ v.bad, n \in Members
    PROVE  m \in v.shares
<1> SUFFICES ASSUME m \notin v.shares  PROVE FALSE
  BY Zenon
<1>1. /\ \E c \in From(sent', ComplainPhase, n) : m \in c.complain
      /\ \A c \in From(v.seen, JustifyPhase, m) : n \notin c.good
      /\ Of(v.seen, JustifyPhase) = Of(sent', JustifyPhase)
  BY DEF ReadsAll
<1>2. From(v.seen, JustifyPhase, m) = From(sent', JustifyPhase, m)
  BY <1>1, Zenon DEF From, Of
<1>3. n \in About(sent', m)
  BY <1>1, IsAbout, Zenon DEF From, Of
<1>4. Unanswered(sent', m) = {}
  BY Zenon DEF Dropped
<1>5. PICK j \in From(sent', JustifyPhase, m) : n \in j.good
  BY <1>3, <1>4 DEF Unanswered
<1> QED  BY <1>1, <1>2, <1>5, Zenon

\* The vectors of members whose contributions were read, and the key they make.
LEMMA HasVectors ==
    ASSUME NEW v, NEW A, NEW B,
           \A c \in B : c.phase = ContributePhase =>
                /\ c.from \in Members
                /\ \E good \in SUBSET Members : c = Contribution(c.from, 1, good),
           \A m \in A : v.first[m] \in From(B, ContributePhase, m)
    PROVE  HasVvecs(v, A) /\ Key(v, A) = [m \in A |-> 1]
<1>1. ASSUME NEW m \in A  PROVE v.first[m] # None /\ v.first[m].vvec = 1
  <2>1. PICK c : c = v.first[m]
    BY Zenon
  <2>2. c \in B /\ c.phase = ContributePhase
    BY <2>1, Zenon DEF From
  <2>3. PICK good \in SUBSET Members : c = Contribution(c.from, 1, good)
    BY <2>2, Zenon
  <2>4. c # None
    BY <2>2, <2>3, NoneAssumption, Zenon
  <2>5. c.vvec = 1
    BY <2>3 DEF Contribution
  <2> QED  BY <2>1, <2>4, <2>5, Zenon
<1> QED  BY <1>1, Zenon DEF HasVvecs, Key

\* VerifyAndCommit, when every justification was read: an honest member commits to the
\* members that are left, if the honest ones are among them.
LEMMA CommitUndisturbed ==
    ASSUME IInv, VerdictIInv', Undisturbed, NEW n \in Honest,
           Commit(n, Available(n, JustifyPhase))
    PROVE  Undisturbed'
<1>1. PICK S, r : S = Available(n, JustifyPhase) /\ r = node[n]
  BY Zenon
<1>2. /\ n \in Members /\ phase \in [Members -> Int] /\ phase[n] = 4 /\ phase'[n] = 5
      /\ phase' = [phase EXCEPT ![n] = 5] /\ \A m \in Members : phase[m] >= 4
      /\ IsSession(r) /\ final' = final /\ \A c \in sent : c.from \in Members
      /\ Honest \subseteq Members
  BY <1>1 DEF IInv, TypeOK, Members, Commit, Enter
<1>3. PICK t : /\ t \in ReceiveJustifications(r, n, S)
               /\ node' = [node EXCEPT ![n] = VerifyAndCommit(t)]
               /\ sent' = sent \cup SendCommitment(VerifyAndCommit(t), n)
  BY <1>1, Zenon DEF Commit
<1>4. PICK v, M : v = VerifyAndCommit(t) /\ M = SendCommitment(v, n)
  BY Zenon
<1>5. node'[n] = v /\ sent' = sent \cup M /\ \A k \in Honest \ {n} : node'[k] = node[k]
  BY <1>3, <1>4, Zenon DEF IInv, TypeOK
<1>6. /\ ReadsAll(n) /\ r.seen \subseteq sent /\ r.valid = {} /\ Of(r.seen, CommitPhase) = {}
      /\ \A m \in Members \ (r.bad \cup r.shares) :
            \A c \in From(r.seen, JustifyPhase, m) : n \notin c.good
      /\ \A m \in Members \ NoContribution(sent) : r.first[m] \in From(sent, ContributePhase, m)
  <2>1. ReadsAll(n)
    BY Zenon DEF Undisturbed
  <2> QED  BY <1>1, <1>2, <2>1, SessionReads, Zenon
<1>7. /\ S \subseteq sent
      /\ \A c \in S : c.phase = JustifyPhase /\ c \notin r.seen /\ c.from \in Members
  BY <1>1, <1>2, Zenon DEF Available, Of
<1>8. NoDoubles(BeforeCommitments(r.seen \cup S))
  <2>1. r.seen \cup S \subseteq sent
    BY <1>6, <1>7, Zenon
  <2> QED  BY <2>1, OnceRead, Zenon DEF Undisturbed
<1>9. /\ IsSession(t) /\ t.seen = r.seen \cup S /\ t.first = r.first /\ t.valid = r.valid
      /\ r.bad \subseteq t.bad /\ r.shares \subseteq t.shares
      /\ \A m \in Members \ (t.bad \cup t.shares) :
            \A c \in From(t.seen, JustifyPhase, m) : n \notin c.good
  <2>0. t \in ReceiveJustifications(r, n, S)
    BY <1>3, Zenon
  <2>1. IsSession(t) /\ t.seen = r.seen \cup S
    BY <1>2, <2>0, JustificationsSeen
  <2>2. /\ t.first = r.first /\ t.valid = r.valid
        /\ r.bad \subseteq t.bad /\ r.shares \subseteq t.shares
        /\ \A m \in Members \ (t.bad \cup t.shares) :
                \A c \in From(t.seen, JustifyPhase, m) : n \notin c.good
    BY <1>2, <1>6, <1>7, <1>8, <2>0, SharesJustified, Zenon
  <2> QED  BY <2>1, <2>2, Zenon
<1>10. /\ v.seen = t.seen /\ v.first = t.first /\ t.bad \subseteq v.bad /\ v.valid = t.valid
       /\ v.shares = t.shares
  BY <1>4, <1>9, Zenon DEF VerifyAndCommit, IsSession, Fields
<1>11. PICK A : A = Members \ v.bad
  BY Zenon
<1>12. PICK c : c = Commitment(n, A, Key(v, A), TRUE)
  BY Zenon
<1>13. /\ M = IF Cardinality(A) >= MinSize /\ HasVvecs(v, A) /\ A \subseteq v.shares
              THEN {c} ELSE {}
       /\ c.phase = CommitPhase /\ c.from = n /\ c.valid = A /\ c.key = Key(v, A) /\ c.ok
  BY <1>4, <1>11, <1>12, Zenon DEF SendCommitment, Commitment
<1>14. GoesOn(n, CommitPhase, M)
  <2>1. M \subseteq {c}
    BY <1>13, Zenon
  <2>2. IsFiniteSet(M) /\ \A d, e \in M : d = e
    BY <2>1, OneMessage, Zenon
  <2> QED  BY <1>2, <1>5, <1>13, <2>1, <2>2 DEF GoesOn
<1>15. ReadsAll(n)'
  <2>0. v.seen \subseteq sent
    BY <1>6, <1>7, <1>9, <1>10, Zenon
  <2>1. Of(v.seen, JustifyPhase) = Of(sent, JustifyPhase)
    <3>1. node[n].seen \cup Available(n, JustifyPhase) \subseteq v.seen
      BY <1>1, <1>9, <1>10, Zenon
    <3> QED  BY <1>1, <1>6, <2>0, <3>1, ThenAllRead, Zenon
  <2>2. Of(v.seen, CommitPhase) = {}
    <3>1. v.seen = r.seen \cup S /\ Of(r.seen, CommitPhase) = {}
      BY <1>6, <1>9, <1>10, Zenon
    <3>2. \A d \in S : d.phase = ComplainPhase \/ d.phase = JustifyPhase
      BY <1>7, Zenon
    <3>3. Of(r.seen \cup S, CommitPhase) = {}
      BY <3>1, <3>2, NoneCommitted, Zenon
    <3> QED  BY <3>1, <3>3, Zenon
  <2>3. /\ r.seen \subseteq v.seen /\ v.first = r.first /\ v.valid = {}
        /\ r.bad \subseteq v.bad /\ r.shares \subseteq v.shares
        /\ \A m \in Members \ (v.bad \cup v.shares) :
            \A d \in From(v.seen, JustifyPhase, m) : n \notin d.good
    BY <1>6, <1>9, <1>10, Zenon
  <2>4. HasRead(n, v)
    BY <1>1, <1>5, <2>0, <2>3, Zenon DEF HasRead
  <2>5. ReadsAll(n) /\ v.valid = {}
    BY <1>6, <2>3, Zenon
  <2> QED  BY <1>14, <2>1, <2>2, <2>4, <2>5, StillReads, Zenon
<1>16. NoDoubles(sent')
  BY <1>2, <1>14, OneOfAKind, Zenon DEF Undisturbed
<1>17. v.bad = Dropped(sent') /\ A = Left' /\ A = Left
  <2>1. v.bad = Dropped(sent')
    BY <1>2, <1>5, <1>15, <1>16, CommitVerdict, Zenon
  <2>2. A = Left'
    BY <1>11, <2>1, Zenon DEF Left
  <2> QED  BY <1>14, <2>1, <2>2, PhaseOrder, VerdictSettled, Zenon
<1>18. HasVvecs(v, A) /\ Key(v, A) = [m \in A |-> 1]
  <2>1. \A d \in sent : d.phase = ContributePhase =>
                d.from \in Members /\ \E good \in SUBSET Members : d = Contribution(d.from, 1, good)
    BY <1>2, Zenon DEF Undisturbed, AsExpected
  <2>2. \A m \in A : m \in Members \ NoContribution(sent)
    BY <1>17, Zenon DEF Left, Dropped
  <2>3. \A m \in A : v.first[m] \in From(sent, ContributePhase, m)
    BY <1>6, <1>9, <1>10, <2>2, Zenon
  <2> QED  BY <2>1, <2>3, HasVectors, Zenon
<1>19. A \subseteq v.shares
  BY <1>2, <1>5, <1>11, <1>15, <1>17, CommitShares, Zenon
<1>20. AsExpected(c)'
  <2>1. c.phase \in ContributePhase .. CommitPhase /\ phase'[c.from] >= c.phase
    BY <1>2, <1>13
  <2>2. c.phase # ContributePhase /\ c.phase # ComplainPhase /\ c.phase # JustifyPhase
    BY <1>13
  <2> QED  BY <1>13, <1>17, <1>18, <2>1, <2>2, Zenon DEF AsExpected
<1>21. Succeeds(n)'
  <2> SUFFICES ASSUME AllAnswered', Cardinality(Honest) >= MinSize
               PROVE  From(sent', CommitPhase, n) # {}
    BY <1>2 DEF Succeeds
  <2>1. AllAnswered
    BY <1>14, PhaseOrder, VerdictSettled, Zenon
  <2>2. Honest \subseteq A
    BY <1>2, <1>17, <2>1, HonestAreLeft
  <2>3. IsFiniteSet(A)
    BY <1>11, DKGAssumption, FS_Subset, Zenon
  <2>4. Cardinality(Honest) <= Cardinality(A) /\ IsFiniteSet(Honest)
    BY <2>2, <2>3, FS_Subset, Zenon
  <2>5. Cardinality(A) >= MinSize
    BY <2>3, <2>4, FS_CardinalityType, DKGAssumption
  <2>6. c \in sent'
    BY <1>5, <1>13, <1>18, <1>19, <2>5, Zenon
  <2> QED  BY <1>13, <2>6, Zenon DEF From
<1>22. \A d \in M : AsExpected(d)'
  BY <1>13, <1>20, Zenon
<1> QED  BY <1>2, <1>5, <1>14, <1>15, <1>21, <1>22, StaysUndisturbed

\* Commitments W that are all for the members A and the key K, the members that sent
\* them, and what is put together of them, starting with lead[v] for the members v.
Agreed(W, A, K) == \A d \in W : d.valid = A /\ d.key = K /\ d.ok
Senders(W) == {d.from : d \in W}
Made(W, lead) == UNION {Finals(W, lead[v]) : v \in Candidates(W)}
OneFor(F, A) == \E f : F = {f} /\ f.valid = A

\* There are enough of them: all the members H have sent one.
Complete(W, H, lead) ==
    /\ IsFiniteSet(W) /\ lead \in [Candidates(W) -> W]
    /\ H # {} /\ H \subseteq Senders(W) /\ Cardinality(H) >= MinSize

\* There are at least as many messages as senders.
LEMMA EnoughSenders ==
    ASSUME NEW W, IsFiniteSet(W), NEW H, H \subseteq Senders(W), NEW i \in Nat,
           Cardinality(H) >= i
    PROVE  Cardinality(W) >= i /\ Cardinality(Senders(W)) >= i
<1> DEFINE T == Senders(W)
           f == [d \in W |-> d.from]
<1>1. f \in Surjection(W, T)
  BY Zenon DEF Surjection, Senders
<1> HIDE DEF T, f
<1>2. IsFiniteSet(T) /\ Cardinality(T) <= Cardinality(W)
  BY <1>1, FS_Surjection, Zenon
<1>3. H \subseteq T
  BY Zenon DEF T
<1>4. IsFiniteSet(H) /\ Cardinality(H) <= Cardinality(T)
  BY <1>2, <1>3, FS_Subset, Zenon
<1>5. Cardinality(H) \in Nat /\ Cardinality(T) \in Nat /\ Cardinality(W) \in Nat
  BY <1>2, <1>4, FS_CardinalityType, Zenon
<1>6. Cardinality(W) >= i /\ Cardinality(T) >= i
  BY <1>2, <1>4, <1>5
<1> QED  BY <1>6, Zenon DEF T

\* FinalizeCommitments, with commitments that agree and enough senders: one final
\* commitment comes of them.
LEMMA OneFinal ==
    ASSUME NEW W, NEW A, NEW K, Agreed(W, A, K), NEW H, NEW lead, Complete(W, H, lead)
    PROVE  OneFor(Made(W, lead), A)
<1>c. /\ IsFiniteSet(W) /\ lead \in [Candidates(W) -> W]
      /\ H # {} /\ H \subseteq Senders(W) /\ Cardinality(H) >= MinSize
  BY Zenon DEF Complete
<1>0. W # {} /\ \A d \in W : d.valid = A /\ d.key = K /\ d.ok
  BY <1>c, Zenon DEF Agreed, Senders
<1>1. Cardinality(W) >= MinSize /\ Cardinality(Senders(W)) >= MinSize
  BY <1>c, EnoughSenders, DKGAssumption, Zenon
<1>2. {d \in W : d.valid = A} = W /\ {d.valid : d \in W} = {A}
  BY <1>0, Zenon
<1>3. Candidates(W) = {A}
  <2>1. \A a : a \in Candidates(W) <=> a = A /\ Enough({d \in W : d.valid = a})
    BY <1>2, Zenon DEF Candidates
  <2>2. Enough(W)
    BY <1>1, Zenon DEF Enough
  <2>3. Enough({d \in W : d.valid = A})
    BY <1>2, <2>2, Zenon
  <2> QED  BY <2>1, <2>3, Zenon
<1>4. PICK c \in W : c = lead[A]
  BY <1>3, <1>c, Zenon
<1>5. Alike(W, c) = W
  BY <1>0, <1>4, Zenon DEF Alike
<1>6. SignersOf(W, c) = Senders(W)
  BY <1>5, Zenon DEF SignersOf, Senders
<1>7. PICK f : f = [valid |-> c.valid, key |-> c.key, signers |-> SignersOf(W, c)]
  BY Zenon
<1>8. f.valid = A
  BY <1>0, <1>4, <1>7, Zenon
<1>9. Enough(SignersOf(W, c)) /\ \A d \in Alike(W, c) : d.ok
  BY <1>0, <1>1, <1>5, <1>6, Zenon DEF Enough
<1>10. Finals(W, c) = {f}
  BY <1>7, <1>9, Zenon DEF Finals
<1>11. {Finals(W, lead[a]) : a \in Candidates(W)} = {{f}}
  BY <1>3, <1>4, <1>10, Zenon
<1>12. Made(W, lead) = {f}
  BY <1>11, Zenon DEF Made
<1> QED  BY <1>8, <1>12, Zenon DEF OneFor

\* FinalizeCommitments, when every commitment was read: the honest members have all sent
\* the same.
LEMMA FinalizeUndisturbed ==
    ASSUME IInv, Undisturbed, IsFiniteSet(sent), NEW n \in Honest,
           FinalizeCommitments(n, Available(n, CommitPhase))
    PROVE  Undisturbed'
<1>1. PICK S, r : S = Available(n, CommitPhase) /\ r = node[n]
  BY Zenon
<1>2. /\ n \in Members /\ phase \in [Members -> Int] /\ phase[n] = 5 /\ phase'[n] = 6
      /\ phase' = [phase EXCEPT ![n] = 6] /\ \A m \in Members : phase[m] >= 5
      /\ IsSession(r) /\ sent' = sent /\ \A c \in sent : c.from \in Members
      /\ Honest \subseteq Members
  BY <1>1 DEF IInv, TypeOK, Members, FinalizeCommitments, Enter
<1> DEFINE v == ReceiveCommitments(node[n], Available(n, CommitPhase))
<1>3. v = ReceiveCommitments(r, S)
  BY <1>1, Zenon
<1>4. PICK lead \in [Candidates(v.valid) -> v.valid] :
        /\ node' = [node EXCEPT ![n] = v]
        /\ final' = [final EXCEPT ![n] = Made(v.valid, lead)]
  BY Zenon DEF FinalizeCommitments, Made
<1> HIDE DEF v
<1>5. /\ node'[n] = v /\ \A k \in Honest \ {n} : node'[k] = node[k] /\ final'[k] = final[k]
      /\ final'[n] = Made(v.valid, lead)
  BY <1>4, Zenon DEF IInv, TypeOK
<1>6. /\ ReadsAll(n) /\ r.seen \subseteq sent /\ r.valid = {} /\ Of(r.seen, CommitPhase) = {}
      /\ \A m \in Members \ (r.bad \cup r.shares) :
            \A c \in From(r.seen, JustifyPhase, m) : n \notin c.good
      /\ \A m \in Members \ NoContribution(sent) : r.first[m] \in From(sent, ContributePhase, m)
  <2>1. ReadsAll(n)
    BY Zenon DEF Undisturbed
  <2> QED  BY <1>1, <1>2, <2>1, SessionReads, Zenon
<1>7. S = Of(sent, CommitPhase)
  BY <1>1, <1>6, Zenon DEF Available, Of
<1>8. /\ v.seen = r.seen \cup S /\ v.first = r.first /\ v.bad = r.bad /\ v.shares = r.shares
      /\ v.valid = r.valid \cup {c \in S : HasVvecs(r, c.valid) => c.key = Key(r, c.valid) /\ c.ok}
  BY <1>2, <1>3, Zenon DEF ReceiveCommitments, IsSession, Fields
<1>9. PICK M : M = {}
  BY Zenon
<1>10. GoesOn(n, FinalizePhase, M)
  BY <1>2, <1>9, FS_EmptySet DEF GoesOn
<1>11. ReadsAll(n)'
  <2>1. \A m : From(v.seen, JustifyPhase, m) = From(r.seen, JustifyPhase, m)
    BY <1>7, <1>8 DEF From, Of
  <2>2. \A m \in Members \ (v.bad \cup v.shares) :
            \A c \in From(v.seen, JustifyPhase, m) : n \notin c.good
    BY <1>6, <1>8, <2>1, Zenon
  <2>3. /\ r.seen \subseteq v.seen /\ v.seen \subseteq sent
        /\ r.bad \subseteq v.bad /\ r.shares \subseteq v.shares
    BY <1>6, <1>7, <1>8, Zenon DEF Of
  <2>4. HasRead(n, v)
    BY <1>1, <1>5, <1>8, <2>2, <2>3, Zenon DEF HasRead
  <2>5. ReadsAll(n)
    BY <1>6, Zenon
  <2> QED  BY <1>10, <2>4, <2>5, StillReads, Zenon
<1>12. PICK K : K = [m \in Left |-> 1]
  BY Zenon
<1>13. HasVvecs(r, Left) /\ Key(r, Left) = K
  <2>1. \A d \in sent : d.phase = ContributePhase =>
                d.from \in Members /\ \E good \in SUBSET Members : d = Contribution(d.from, 1, good)
    BY <1>2, Zenon DEF Undisturbed, AsExpected
  <2>2. \A m \in Left : m \in Members \ NoContribution(sent)
    BY Zenon DEF Left, Dropped
  <2>3. \A m \in Left : r.first[m] \in From(sent, ContributePhase, m)
    BY <1>6, <2>2, Zenon
  <2> QED  BY <1>12, <2>1, <2>3, HasVectors, Zenon
<1>14. \A c \in S : c \in sent /\ c.phase = CommitPhase /\ c.valid = Left
  BY <1>7, Zenon DEF Of, Undisturbed, AsExpected
<1>15. v.valid = {c \in S : c.key = K /\ c.ok}
  BY <1>6, <1>8, <1>13, <1>14, Zenon
<1>16. Succeeds(n)'
  <2> SUFFICES ASSUME AllAnswered', Cardinality(Honest) >= MinSize
               PROVE  /\ From(sent', CommitPhase, n) # {}
                      /\ \E f \in final'[n] : final'[n] = {f} /\ Honest \subseteq f.valid
    BY <1>2, Zenon DEF Succeeds
  <2>1. AllAnswered
    BY <1>10, PhaseOrder, VerdictSettled, Zenon
  <2>2. \A k \in Honest : From(sent, CommitPhase, k) # {}
    BY <1>2, <2>1, Zenon DEF Undisturbed, Succeeds
  <2>3. Honest \subseteq Senders(v.valid)
    <3> SUFFICES ASSUME NEW k \in Honest  PROVE \E d \in v.valid : d.from = k
      BY Zenon DEF Senders
    <3>1. PICK d \in From(sent, CommitPhase, k) : TRUE
      BY <2>2, Zenon
    <3>2. d \in sent /\ d \in S /\ d.phase = CommitPhase /\ d.from = k
      BY <1>7, <3>1, Zenon DEF From, Of
    <3>3. d.key = K /\ d.ok
      BY <1>12, <3>2, Zenon DEF Undisturbed, AsExpected
    <3> QED  BY <1>15, <3>2, <3>3, Zenon
  <2>4. IsFiniteSet(v.valid)
    <3>1. v.valid \subseteq sent
      BY <1>14, <1>15, Zenon
    <3> QED  BY <3>1, FS_Subset, Zenon
  <2>5. \A d \in v.valid : d.valid = Left /\ d.key = K /\ d.ok
    BY <1>14, <1>15, Zenon
  <2>6. PICK f : final'[n] = {f} /\ f.valid = Left
    <3>1. PICK W, H, A : W = v.valid /\ H = Honest /\ A = Left
      BY Zenon
    <3>2. Agreed(W, A, K)
      BY <2>5, <3>1, Zenon DEF Agreed
    <3>3. Complete(W, H, lead)
      BY <1>4, <2>3, <2>4, <3>1, Zenon DEF Complete
    <3>4. OneFor(Made(W, lead), A)
      BY <3>2, <3>3, OneFinal, Zenon
    <3> QED  BY <1>5, <3>1, <3>4, Zenon DEF OneFor
  <2>7. Honest \subseteq Left
    BY <1>2, <2>1, HonestAreLeft
  <2> QED  BY <1>2, <2>2, <2>6, <2>7, Zenon
<1>17. /\ \A c \in M : AsExpected(c)'
       /\ \A k \in Honest \ {n} : node'[k] = node[k] /\ final'[k] = final[k]
  BY <1>5, <1>9, Zenon
<1> QED  BY <1>2, <1>10, <1>11, <1>16, <1>17, PhaseOrder, StaysUndisturbed

\* The messages of members that simulate errors.
LEMMA FaultyExpected ==
    ASSUME NEW m \in Faulty, NEW p, NEW c \in FaultyMessages(m, p)
    PROVE  /\ c.phase = p /\ c.from = m /\ p \in ContributePhase .. CommitPhase
           /\ p = ContributePhase => \E good \in SUBSET Members : c = Contribution(m, 1, good)
           /\ p = ComplainPhase => c.bad = {}
           /\ p = CommitPhase => \E d \in Of(sent, CommitPhase) : c.valid = d.valid
<1>1. CASE p = ContributePhase
  <2>1. PICK t \in Targets : c = Contribution(m, 1, Members \ t)
    BY <1>1 DEF FaultyMessages
  <2>2. Members \ t \in SUBSET Members
    BY Zenon
  <2>3. c.phase = ContributePhase /\ c.from = m
    BY <2>1, Zenon DEF Contribution
  <2> QED  BY <1>1, <2>1, <2>2, <2>3
<1>2. CASE p = ComplainPhase
  <2>1. PICK t : c = Complaint(m, {}, t)
    BY <1>2 DEF FaultyMessages
  <2>2. c.phase = ComplainPhase /\ c.from = m /\ c.bad = {}
    BY <2>1, Zenon DEF Complaint
  <2> QED  BY <1>2, <2>2
<1>3. CASE p = JustifyPhase
  <2>1. PICK a, good : c = Justification(m, a, good)
    BY <1>3 DEF FaultyMessages
  <2>2. c.phase = JustifyPhase /\ c.from = m
    BY <2>1, Zenon DEF Justification
  <2> QED  BY <1>3, <2>2
<1>4. CASE p = CommitPhase
  <2>1. \E d \in Of(sent, CommitPhase) : c.valid = d.valid /\ c.phase = CommitPhase /\ c.from = m
    BY <1>4 DEF FaultyMessages, Commitment
  <2> QED  BY <1>4, <2>1
<1>5. p \in {ContributePhase, ComplainPhase, JustifyPhase, CommitPhase}
  BY DEF FaultyMessages
<1> QED  BY <1>1, <1>2, <1>3, <1>4, <1>5, Zenon

\* A member that simulates errors disturbs nobody with one message.
LEMMA FaultyUndisturbed ==
    ASSUME IInv, Undisturbed, NEW m \in Faulty, FaultyPhase(m),
           NEW M, sent' = sent \cup M, NEW c, M \subseteq {c},
           M # {} => c \in FaultyMessages(m, phase[m] + 1)
    PROVE  Undisturbed'
<1>1. PICK p : p = phase[m] + 1
  BY Zenon
<1>2. /\ m \in Members /\ m \notin Honest /\ Honest \subseteq Members
      /\ phase \in [Members -> Int] /\ phase[m] \in 1 .. 6
      /\ \A n \in Honest : phase[n] \in 1 .. 6
  BY DKGAssumption, Zenon DEF IInv, TypeOK, Members, Undisturbed, InPhase
<1>3. /\ p \in 2 .. 6 /\ phase[m] = p - 1 /\ phase' = [phase EXCEPT ![m] = p] /\ phase'[m] = p
      /\ node' = node /\ final' = final
      /\ \A n \in Honest : IF p < CommitPhase THEN phase[n] = p - 1 ELSE phase[n] >= p
  BY <1>1, <1>2 DEF FaultyPhase
<1>4. GoesOn(m, p, M)
  <2>1. IsFiniteSet(M) /\ \A d, e \in M : d = e
    BY OneMessage, Zenon
  <2>2. \A d \in M : d.phase = p /\ d.from = m
    BY <1>1, FaultyExpected
  <2> QED  BY <1>2, <1>3, <2>1, <2>2, Zenon DEF GoesOn
<1>5. p = CommitPhase /\ M # {} => \A k \in Members : phase[k] >= JustifyPhase
  <2> SUFFICES ASSUME p = CommitPhase, M # {}  PROVE Of(sent, CommitPhase) # {}
    BY Zenon DEF Undisturbed, InPhase
  <2> QED  BY <1>1, FaultyExpected, Zenon
<1>6. ASSUME NEW d \in M  PROVE AsExpected(d)'
  <2>1. /\ d.phase = p /\ d.from = m /\ p \in 2 .. 5
        /\ p = ContributePhase => \E good \in SUBSET Members : d = Contribution(m, 1, good)
        /\ p = ComplainPhase => d.bad = {}
        /\ p = CommitPhase => \E e \in Of(sent, CommitPhase) : d.valid = e.valid
    BY <1>1, <1>6, FaultyExpected
  <2>2. p = CommitPhase => d.valid = Left'
    <3> SUFFICES ASSUME p = CommitPhase  PROVE d.valid = Left'
      BY Zenon
    <3>1. PICK e \in Of(sent, CommitPhase) : d.valid = e.valid
      BY <2>1, Zenon
    <3>2. e.valid = Left
      BY Zenon DEF Undisturbed, AsExpected, Of
    <3>3. Left' = Left
      BY <1>4, VerdictSettled
    <3> QED  BY <3>1, <3>2, <3>3, Zenon
  <2> QED  BY <1>2, <1>3, <2>1, <2>2 DEF AsExpected
<1> QED  BY <1>2, <1>3, <1>4, <1>5, <1>6, StaysUndisturbed, Zenon

\* The messages of a round stay finitely many, and faults are counted.
LEMMA StaysFinite ==
    ASSUME IsFiniteSet(sent), NEW M, IsFiniteSet(M), sent' = sent \cup M
    PROVE  IsFiniteSet(sent')
BY FS_Union, Zenon

\* No step loses a message, or finds a member not connected, unless it is a fault.
LEMMA ComplainCounts ==
    ASSUME IsFiniteSet(sent), faults \in Nat, NEW n \in Honest,
           NEW S \in SUBSET Available(n, ContributePhase), NEW u \in SUBSET (Members \ {n}),
           Faults(Lost(n, S, ContributePhase) + Cardinality(u))
    PROVE  /\ faults' \in Nat
           /\ faults' = 0 => faults = 0 /\ S = Available(n, ContributePhase) /\ u = {}
<1>1. IsFiniteSet(u)
  BY DKGAssumption, FS_Subset, Zenon
<1>2. Cardinality(u) \in Nat /\ (Cardinality(u) = 0 => u = {})
  BY <1>1, FS_CardinalityType, FS_EmptySet, Zenon
<1>3. /\ Lost(n, S, ContributePhase) \in Nat
      /\ Lost(n, S, ContributePhase) = 0 => S = Available(n, ContributePhase)
  BY NoneLost, Zenon
<1>4. PICK i, j : i = Lost(n, S, ContributePhase) /\ j = Cardinality(u)
  BY Zenon
<1>5. i \in Nat /\ j \in Nat /\ faults' = faults + (i + j)
  BY <1>2, <1>3, <1>4, Zenon DEF Faults
<1>6. faults' \in Nat /\ (faults' = 0 => faults = 0 /\ i = 0 /\ j = 0)
  BY <1>5
<1> QED  BY <1>2, <1>3, <1>4, <1>6, Zenon

\* The same for a step that reads messages only.
LEMMA LossCounts ==
    ASSUME IsFiniteSet(sent), faults \in Nat, NEW n, NEW p, NEW S \in SUBSET Available(n, p),
           Faults(Lost(n, S, p))
    PROVE  faults' \in Nat /\ (faults' = 0 => faults = 0 /\ S = Available(n, p))
<1>1. Lost(n, S, p) \in Nat /\ (Lost(n, S, p) = 0 => S = Available(n, p))
  BY NoneLost, Zenon
<1>2. PICK i \in Nat : i = Lost(n, S, p)
  BY <1>1, Zenon
<1>3. faults' \in Nat /\ (faults' = 0 => faults = 0 /\ i = 0)
  BY <1>2 DEF Faults
<1> QED  BY <1>1, <1>2, <1>3, Zenon

\* The steps of an honest member.
LEMMA HonestRound ==
    ASSUME IInv, VerdictIInv, VerdictIInv', RoundIInv, NEW n \in Honest, HonestStep(n)
    PROVE  RoundIInv'
<1>0. IsFiniteSet(sent) /\ faults \in Nat /\ (faults = 0 => Undisturbed)
  BY Zenon DEF RoundIInv
<1>1. CASE Contribute(n)
  <2>1. IsFiniteSet(sent')
    BY <1>0, <1>1, FS_Singleton, StaysFinite, Zenon DEF Contribute
  <2>2. faults' = faults
    BY <1>1, Zenon DEF Contribute
  <2> QED  BY <1>0, <1>1, <2>1, <2>2, ContributeUndisturbed, Zenon DEF RoundIInv
<1>2. ASSUME NEW S \in SUBSET Available(n, ContributePhase),
             NEW E \in SUBSET Available(n, ComplainPhase),
             NEW u \in SUBSET (Members \ {n}), Complain(n, S, E, u)
      PROVE  RoundIInv'
  <2>1. IsFiniteSet(sent')
    <3>1. PICK v : sent' = sent \cup SendComplaint(v, n)
      BY <1>2, Zenon DEF Complain
    <3>2. SendComplaint(v, n) \subseteq {Complaint(n, v.bad, WeComplain(v, n) \ v.bad)}
      BY OneComplaint, Zenon
    <3> QED  BY <1>0, <3>1, <3>2, OneMessage, StaysFinite
  <2>2. /\ faults' \in Nat
        /\ faults' = 0 => faults = 0 /\ S = Available(n, ContributePhase) /\ u = {}
    <3>1. Faults(Lost(n, S, ContributePhase) + Cardinality(u))
      BY <1>2, Zenon DEF Complain
    <3> QED  BY <1>0, <3>1, ComplainCounts, Zenon
  <2>3. ASSUME faults' = 0  PROVE Undisturbed'
    <3>1. Complain(n, Available(n, ContributePhase), E, {})
      BY <1>2, <2>2, <2>3, Zenon
    <3> QED  BY <1>0, <2>2, <2>3, <3>1, ComplaintUndisturbed, Zenon
  <2> QED  BY <2>1, <2>2, <2>3, Zenon DEF RoundIInv
<1>3. ASSUME NEW S \in SUBSET Available(n, ComplainPhase),
             NEW E \in SUBSET Available(n, JustifyPhase), Justify(n, S, E)
      PROVE  RoundIInv'
  <2>1. IsFiniteSet(sent')
    <3>1. PICK v : sent' = sent \cup SendJustification(v, n)
      BY <1>3, Zenon DEF Justify
    <3>2. SendJustification(v, n) \subseteq {Justification(n, JustifyFor(v, n), JustifyFor(v, n))}
      BY Zenon DEF SendJustification
    <3> QED  BY <1>0, <3>1, <3>2, OneMessage, StaysFinite
  <2>2. faults' \in Nat /\ (faults' = 0 => faults = 0 /\ S = Available(n, ComplainPhase))
    <3>1. Faults(Lost(n, S, ComplainPhase))
      BY <1>3, Zenon DEF Justify
    <3> QED  BY <1>0, <3>1, LossCounts, Zenon
  <2>3. ASSUME faults' = 0  PROVE Undisturbed'
    <3>1. Justify(n, Available(n, ComplainPhase), E)
      BY <1>3, <2>2, <2>3, Zenon
    <3> QED  BY <1>0, <2>2, <2>3, <3>1, JustifyUndisturbed, Zenon
  <2> QED  BY <2>1, <2>2, <2>3, Zenon DEF RoundIInv
<1>4. ASSUME NEW S \in SUBSET Available(n, JustifyPhase), Commit(n, S)
      PROVE  RoundIInv'
  <2>1. IsFiniteSet(sent')
    <3>1. PICK v : sent' = sent \cup SendCommitment(v, n)
      BY <1>4, Zenon DEF Commit
    <3>2. PICK c : SendCommitment(v, n) \subseteq {c}
      <4>1. PICK c : c = Commitment(n, Members \ v.bad, Key(v, Members \ v.bad), TRUE)
        BY Zenon
      <4> QED  BY <4>1, Zenon DEF SendCommitment
    <3> QED  BY <1>0, <3>1, <3>2, OneMessage, StaysFinite, Zenon
  <2>2. faults' \in Nat /\ (faults' = 0 => faults = 0 /\ S = Available(n, JustifyPhase))
    <3>1. Faults(Lost(n, S, JustifyPhase))
      BY <1>4, Zenon DEF Commit
    <3> QED  BY <1>0, <3>1, LossCounts, Zenon
  <2>3. ASSUME faults' = 0  PROVE Undisturbed'
    <3>1. Commit(n, Available(n, JustifyPhase))
      BY <1>4, <2>2, <2>3, Zenon
    <3> QED  BY <1>0, <2>2, <2>3, <3>1, CommitUndisturbed, Zenon
  <2> QED  BY <2>1, <2>2, <2>3, Zenon DEF RoundIInv
<1>5. ASSUME NEW S \in SUBSET Available(n, CommitPhase), FinalizeCommitments(n, S)
      PROVE  RoundIInv'
  <2>1. sent' = sent
    BY <1>5, Zenon DEF FinalizeCommitments
  <2>2. faults' \in Nat /\ (faults' = 0 => faults = 0 /\ S = Available(n, CommitPhase))
    <3>1. Faults(Lost(n, S, CommitPhase))
      BY <1>5, Zenon DEF FinalizeCommitments
    <3> QED  BY <1>0, <3>1, LossCounts, Zenon
  <2>3. ASSUME faults' = 0  PROVE Undisturbed'
    <3>1. FinalizeCommitments(n, Available(n, CommitPhase))
      BY <1>5, <2>2, <2>3, Zenon
    <3> QED  BY <1>0, <2>2, <2>3, <3>1, FinalizeUndisturbed, Zenon
  <2> QED  BY <1>0, <2>1, <2>2, <2>3, Zenon DEF RoundIInv
<1>6. CASE AbortPhase(n)
  <2>1. sent' = sent /\ faults' = faults + 1
    BY <1>6, Zenon DEF AbortPhase, Faults
  <2>2. faults' \in Nat /\ faults' # 0
    BY <1>0, <2>1
  <2> QED  BY <1>0, <2>1, <2>2, Zenon DEF RoundIInv
<1> QED  BY <1>1, <1>2, <1>3, <1>4, <1>5, <1>6, Zenon DEF HonestStep

\* A member that simulates errors: a second message of a kind is a fault.
LEMMA FaultyRound ==
    ASSUME IInv, RoundIInv, NEW m \in Faulty, FaultyPhase(m)
    PROVE  RoundIInv'
<1>0. IsFiniteSet(sent) /\ faults \in Nat /\ (faults = 0 => Undisturbed)
  BY Zenon DEF RoundIInv
<1>1. CASE UNCHANGED <<sent, faults>>
  <2>1. PICK M : M = {}
    BY Zenon
  <2>2. sent' = sent \cup M /\ M \subseteq {m} /\ faults' = faults /\ sent' = sent
    BY <1>1, <2>1, Zenon
  <2>3. faults' = 0 => Undisturbed'
    BY <1>0, <2>1, <2>2, FaultyUndisturbed, Zenon
  <2> QED  BY <1>0, <2>2, <2>3, Zenon DEF RoundIInv
<1>2. ASSUME NEW c \in FaultyMessages(m, phase[m] + 1), sent' = sent \cup {c}, UNCHANGED faults
      PROVE  RoundIInv'
  <2>1. PICK M : M = {c}
    BY Zenon
  <2>2. sent' = sent \cup M /\ M \subseteq {c} /\ faults' = faults
    BY <1>2, <2>1, Zenon
  <2>3. faults' = 0 => Undisturbed'
    BY <1>0, <1>2, <2>2, FaultyUndisturbed, Zenon
  <2>4. IsFiniteSet(sent')
    BY <1>0, <2>2, OneMessage, StaysFinite, Zenon
  <2> QED  BY <1>0, <2>2, <2>3, <2>4, Zenon DEF RoundIInv
<1>3. ASSUME NEW c, NEW d, sent' = sent \cup {c, d}, Faults(1)
      PROVE  RoundIInv'
  <2>1. faults' \in Nat /\ faults' # 0
    BY <1>0, <1>3 DEF Faults
  <2>2. IsFiniteSet({c}) /\ IsFiniteSet({d}) /\ {c, d} = {c} \cup {d}
    BY FS_Singleton, Zenon
  <2>3. IsFiniteSet({c, d})
    BY <2>2, FS_Union, Zenon
  <2>4. IsFiniteSet(sent')
    BY <1>0, <1>3, <2>3, StaysFinite, Zenon
  <2> QED  BY <2>1, <2>4, Zenon DEF RoundIInv
<1> QED  BY <1>1, <1>2, <1>3, Zenon DEF FaultyPhase

-----------------------------------------------------------------------------
(* The theorems.                                                           *)

\* IInv holds in every state of every session.
THEOREM Invariance == Spec => []IInv
<1>1. Init => IInv
  <2> SUFFICES ASSUME Init  PROVE IInv
    BY Zenon
  <2>1. IsSession(NewSession) /\ NewSession.valid = {}
    BY Zenon DEF NewSession, IsSession, Fields
  <2>2. TypeOK
    BY <2>1 DEF Init, TypeOK
  <2>3. OneBackedCommitment
    BY Zenon DEF Init, OneBackedCommitment, From
  <2>4. FinalIsSigned
    BY <2>1, Zenon DEF Init, FinalIsSigned
  <2> QED  BY <2>2, <2>3, <2>4, Zenon DEF IInv
<1>2. IInv /\ [Next]_vars => IInv'
  <2> SUFFICES ASSUME IInv, [Next]_vars  PROVE IInv'
    BY Zenon
  <2>1. ASSUME NEW n \in Honest, HonestStep(n)  PROVE IInv'
    <3>1. CASE Contribute(n)
      BY <3>1, <2>1, EarlyPhases, Zenon
    <3>2. CASE \E S \in SUBSET Available(n, ContributePhase),
                  E \in SUBSET Available(n, ComplainPhase), u \in SUBSET (Members \ {n}) :
                    Complain(n, S, E, u)
      BY <3>2, <2>1, EarlyPhases, Zenon
    <3>3. CASE \E S \in SUBSET Available(n, ComplainPhase),
                  E \in SUBSET Available(n, JustifyPhase) : Justify(n, S, E)
      BY <3>3, <2>1, EarlyPhases, Zenon
    <3>4. CASE \E S \in SUBSET Available(n, JustifyPhase) : Commit(n, S)
      BY <3>4, <2>1, CommitPreserves, Zenon
    <3>5. CASE \E S \in SUBSET Available(n, CommitPhase) : FinalizeCommitments(n, S)
      BY <3>5, <2>1, FinalizePreserves, Zenon
    <3>6. CASE AbortPhase(n)
      BY <3>6, <2>1, AbortPreserves, Zenon
    <3> QED  BY <2>1, <3>1, <3>2, <3>3, <3>4, <3>5, <3>6, Zenon DEF HonestStep
  <2>2. ASSUME NEW m \in Faulty, FaultyPhase(m)  PROVE IInv'
    BY <2>2, FaultyPreserves, Zenon
  <2>3. CASE UNCHANGED vars
    <3>1. /\ sent' = sent /\ node' = node /\ final' = final /\ phase' = phase
      BY <2>3, Zenon DEF vars
    <3>2. \A k \in Honest : \A v, key : Backs(k, v, key)' = Backs(k, v, key)
      BY <3>1, Zenon DEF Backs, HasVvecs, Key
    <3>3. OneBackedCommitment'
      BY <3>1, <3>2 DEF IInv, OneBackedCommitment
    <3> QED  BY <3>1, <3>3, Zenon DEF IInv, TypeOK, FinalIsSigned
  <2> QED  BY <2>1, <2>2, <2>3, Zenon DEF Next
<1> QED  BY <1>1, <1>2, PTL DEF Spec

\* Two final commitments of honest members are for the same members and key: minSize
\* members signed each, an honest one signed both, and it sent one commitment.
THEOREM OneQuorum == Spec => []FinalUnique
<1>1. IInv => FinalUnique
  <2> SUFFICES ASSUME IInv, NEW n \in Honest, NEW k \in Honest,
                      NEW f \in final[n], NEW g \in final[k]
               PROVE  f.valid = g.valid /\ f.key = g.key
    BY Zenon DEF FinalUnique
  <2>1. /\ f.signers \in SUBSET Members /\ Cardinality(f.signers) >= MinSize
        /\ g.signers \in SUBSET Members /\ Cardinality(g.signers) >= MinSize
    BY Zenon DEF IInv, FinalIsSigned
  <2>2. PICK j \in Honest : j \in f.signers /\ j \in g.signers
    BY <2>1, HonestInBoth, Zenon
  <2>3. PICK c \in From(sent, CommitPhase, j) : c.valid = f.valid /\ c.key = f.key
    BY <2>2, Zenon DEF IInv, FinalIsSigned
  <2>4. PICK d \in From(sent, CommitPhase, j) : d.valid = g.valid /\ d.key = g.key
    BY <2>2, Zenon DEF IInv, FinalIsSigned
  <2>5. c = d
    BY Zenon DEF IInv, OneBackedCommitment
  <2> QED  BY <2>3, <2>4, <2>5, Zenon
<1> QED  BY <1>1, Invariance, PTL

\* The quorum of a final commitment can sign: of its minSize signers, threshold are
\* honest and hold the shares and vectors their commitments name.
THEOREM QuorumCanSign == Spec => []FinalHasShares
<1>1. IInv => FinalHasShares
  <2> SUFFICES ASSUME IInv, NEW n \in Honest, NEW f \in final[n]
               PROVE  Cardinality({k \in Honest : /\ f.valid \subseteq node[k].shares
                                                  /\ HasVvecs(node[k], f.valid)
                                                  /\ Key(node[k], f.valid) = f.key}) >= Threshold
    BY Zenon DEF FinalHasShares
  <2> DEFINE Able == {k \in Honest : /\ f.valid \subseteq node[k].shares
                                     /\ HasVvecs(node[k], f.valid)
                                     /\ Key(node[k], f.valid) = f.key}
  <2>1. f.signers \in SUBSET Members /\ Cardinality(f.signers) >= MinSize
    BY Zenon DEF IInv, FinalIsSigned
  <2>2. ASSUME NEW j \in f.signers \cap Honest  PROVE j \in Able
    <3>1. PICK c \in From(sent, CommitPhase, j) : c.valid = f.valid /\ c.key = f.key
      BY <2>2, Zenon DEF IInv, FinalIsSigned
    <3>2. Backs(j, f.valid, f.key)
      BY <2>2, <3>1, Zenon DEF IInv, OneBackedCommitment
    <3> QED  BY <2>2, <3>2, Zenon DEF Backs
  <2>3. Able \in SUBSET Honest /\ f.signers \cap Honest \subseteq Able
    BY <2>2, Zenon
  <2> HIDE DEF Able
  <2>4. Cardinality(Able) >= Threshold
    BY <2>1, <2>3, EnoughHonest, Zenon
  <2> QED  BY <2>4, Zenon DEF Able
<1> QED  BY <1>1, Invariance, PTL

\* VerdictIInv holds in every state of every session: in each phase the members a
\* session holds for bad, and the complaints that are open, are what the messages it has
\* read say.
THEOREM VerdictInvariant == Spec => []VerdictIInv
<1>1. Init => VerdictIInv
  <2> SUFFICES ASSUME Init, NEW n \in Honest  PROVE Decides(n)
    BY Zenon DEF VerdictIInv
  <2>1. phase[n] = InitializedPhase /\ node[n] = NewSession /\ sent = {}
    BY Zenon DEF Init, Members
  <2>2. From(sent, ComplainPhase, n) = {}
    BY <2>1, Zenon DEF From
  <2>3. phase[n] < ComplainPhase /\ phase[n] \notin ComplainPhase .. FinalizePhase
    BY <2>1
  <2>4. /\ phase[n] # ComplainPhase /\ phase[n] # JustifyPhase
        /\ phase[n] \notin {CommitPhase, FinalizePhase}
    BY <2>3
  <2> QED  BY <2>1, <2>2, <2>4, Zenon DEF Decides
<1>2. IInv /\ VerdictIInv /\ [Next]_vars => VerdictIInv'
  <2> SUFFICES ASSUME IInv, VerdictIInv, [Next]_vars  PROVE VerdictIInv'
    BY Zenon
  <2>1. CASE UNCHANGED vars
    <3>1. node' = node /\ phase' = phase /\ sent' = sent
      BY <2>1, Zenon DEF vars
    <3>2. ASSUME NEW n \in Honest  PROVE Decides(n)'
      BY <3>1, StillDecides, Zenon DEF VerdictIInv
    <3> QED  BY <3>2, Zenon DEF VerdictIInv
  <2> QED  BY <2>1, HonestDecide, FaultyDecide, Zenon DEF Next
<1> QED  BY <1>1, <1>2, Invariance, PTL DEF Spec

\* Honest members that read the same messages, one of a kind of each member, and found
\* the same by themselves, hold the same members for bad when they commit: it makes no
\* difference which messages were read before and which after the start of a phase.
THEOREM SameVerdict == Spec => []SameViewSameVerdict
<1>1. VerdictIInv => SameViewSameVerdict
  <2> SUFFICES ASSUME VerdictIInv, NEW n \in Honest, NEW k \in Honest,
                      {phase[n], phase[k]} \subseteq {CommitPhase, FinalizePhase},
                      View(n) = View(k), NoDoubles(View(n).seen)
               PROVE  node[n].bad = node[k].bad
    BY Zenon DEF SameViewSameVerdict
  <2>1. PICK A, B : A = node[n].seen /\ B = node[k].seen
    BY Zenon
  <2>2. View(n).seen = BeforeCommitments(A) /\ View(k).seen = BeforeCommitments(B)
    BY <2>1, Zenon DEF View, BeforeCommitments
  <2>3. /\ View(n).own = {c.bad : c \in From(sent, ComplainPhase, n)}
        /\ View(k).own = {c.bad : c \in From(sent, ComplainPhase, k)}
    BY Zenon DEF View
  <2>4. OwnVerdict(n) = OwnVerdict(k)
    BY <2>3, Zenon DEF OwnVerdict
  <2>5. BeforeCommitments(A) = BeforeCommitments(B) /\ NoDoubles(BeforeCommitments(A))
    BY <2>2, Zenon
  <2>6. Verdict(n, A) = Verdict(k, B)
    BY <2>4, <2>5, SameBeforeCommitments DEF Verdict
  <2>7. node[n].bad = Verdict(n, A) /\ node[k].bad = Verdict(k, B)
    BY <2>1, <2>5, Zenon DEF VerdictIInv, Decides
  <2> QED  BY <2>6, <2>7, Zenon
<1> QED  BY <1>1, VerdictInvariant, PTL

\* RoundIInv holds in every state of every round: without faults all members read the same
\* messages, drop the same members and hold the shares of those that are left.
THEOREM RoundInvariant == Spec => []RoundIInv
<1>1. Init => RoundIInv
  <2> SUFFICES ASSUME Init  PROVE RoundIInv
    BY Zenon
  <2>1. /\ sent = {} /\ faults = 0 /\ \A m \in Members : phase[m] = 1
        /\ Honest \subseteq Members /\ \A n \in Honest : node[n] = NewSession
    BY Zenon DEF Init, Members
  <2>2. \A p : Of({}, p) = {}
    BY Zenon DEF Of
  <2>3. InPhase /\ NoDoubles(sent)
    BY <2>1, <2>2 DEF InPhase, NoDoubles
  <2>4. ASSUME NEW n \in Honest  PROVE ReadsAll(n) /\ Succeeds(n)
    <3>1. NewSession.seen = {} /\ NewSession.valid = {}
      BY Zenon DEF NewSession
    <3>2. /\ ~ (phase[n] >= ComplainPhase) /\ ~ (phase[n] >= CommitPhase)
          /\ phase[n] # FinalizePhase
          /\ \A p \in ContributePhase .. JustifyPhase : ~ (phase[n] > p)
      BY <2>1
    <3> QED  BY <2>1, <2>2, <3>1, <3>2, Zenon DEF ReadsAll, Succeeds
  <2> QED  BY <2>1, <2>3, <2>4, FS_EmptySet, Zenon DEF RoundIInv, Undisturbed
<1>2. IInv /\ VerdictIInv /\ VerdictIInv' /\ RoundIInv /\ [Next]_vars => RoundIInv'
  <2> SUFFICES ASSUME IInv, VerdictIInv, VerdictIInv', RoundIInv, [Next]_vars  PROVE RoundIInv'
    BY Zenon
  <2>1. CASE UNCHANGED vars
    <3>1. phase' = phase /\ node' = node /\ sent' = sent /\ final' = final /\ faults' = faults
      BY <2>1 DEF vars
    <3>2. InPhase' = InPhase /\ AllAnswered' = AllAnswered /\ Left' = Left
      BY <3>1 DEF InPhase, AllAnswered, Left
    <3>3. \A c : AsExpected(c)' = AsExpected(c)
      BY <3>1, <3>2 DEF AsExpected
    <3>4. \A n : ReadsAll(n)' = ReadsAll(n)
      <4>1. \A n : OwnVerdict(n)' = OwnVerdict(n)
        BY <3>1, Zenon DEF OwnVerdict
      <4> QED  BY <3>1, <4>1 DEF ReadsAll
    <3>5. \A n : Succeeds(n)' = Succeeds(n)
      BY <3>1, <3>2 DEF Succeeds
    <3>6. Undisturbed' = Undisturbed
      BY <3>1, <3>2, <3>3, <3>4, <3>5 DEF Undisturbed
    <3> QED  BY <3>1, <3>6 DEF RoundIInv
  <2> QED  BY <2>1, HonestRound, FaultyRound, Zenon DEF Next
<1> QED  BY <1>1, <1>2, Invariance, VerdictInvariant, PTL DEF Spec

\* A round without faults of the network succeeds, if the honest members are minSize and
\* have answered all complaints about them: each of them has one final commitment, and all
\* of them are valid members.
THEOREM RoundsSucceed == Spec => []RoundSucceeds
<1>1. RoundIInv => RoundSucceeds
  <2> SUFFICES ASSUME RoundIInv, faults = 0, AllAnswered, Cardinality(Honest) >= MinSize,
                      NEW n \in Honest, phase[n] = FinalizePhase
               PROVE  Cardinality(final[n]) = 1 /\ \A f \in final[n] : Honest \subseteq f.valid
    BY Zenon DEF RoundSucceeds
  <2>1. PICK f : final[n] = {f} /\ Honest \subseteq f.valid
    BY Zenon DEF RoundIInv, Undisturbed, Succeeds
  <2>2. Cardinality(final[n]) = 1
    BY <2>1, FS_Singleton, Zenon
  <2> QED  BY <2>1, <2>2, Zenon
<1> QED  BY <1>1, RoundInvariant, PTL
=============================================================================
