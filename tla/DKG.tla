-------------------------------- MODULE DKG --------------------------------
(***************************************************************************)
(* One session of the distributed key generation (CDKGSession,             *)
(* llmq/quorums_dkgsession.cpp), with the phases of its handler            *)
(* (quorums_dkgsessionhandler.cpp): members contribute, complain, justify  *)
(* and commit, and put the commitments together to final ones.             *)
(*                                                                         *)
(* A member is in each phase at its own time.  In a phase it processes     *)
(* messages of that phase, its own among them, before (SleepBeforePhase)   *)
(* and after (WaitForNextPhase) it starts the phase, and never again.      *)
(* An action is the step from the start of a phase to the start of the     *)
(* next: the messages S of the phase that end it, the early messages E of  *)
(* the next one, and the function that starts that one.  Contributions and *)
(* commitments are not read before the end of their phase, so for them     *)
(* early and late are the same.                                            *)
(*                                                                         *)
(* Members of Faulty send what the code can simulate (ShouldSimulateError: *)
(* wrong shares, false complaints, wrong or missing justifications, wrong  *)
(* or missing commitments), and a second message of a kind, as one does    *)
(* whose round was started again.  Messages that are lost or late, members *)
(* that are not connected, second messages and rounds that are aborted are *)
(* counted by faults, which MaxFaults bounds.                              *)
(*                                                                         *)
(* Abstractions.  A verification vector is a number, and a contribution    *)
(* says whose shares decrypt and fit the vector; a quorum key is the       *)
(* vectors it is the sum of; a commitment says whether its signature share *)
(* fits its key.  Messages whose own signature does not verify are left    *)
(* out.  Shares are verified when the contribution phase is over.          *)
(***************************************************************************)
EXTENDS Integers, FiniteSets

CONSTANTS
    Honest, Faulty,     \* the members of the quorum
    MinSize, Threshold, \* params.minSize, params.threshold
    BadVotes,           \* params.dkgBadVotesThreshold
    None,
    MaxFaults,          \* bounds
    MaxTargets

Members == Honest \cup Faulty

ASSUME DKGAssumption ==
    /\ Honest \cap Faulty = {}
    /\ IsFiniteSet(Members)
    /\ MinSize \in Nat /\ Threshold \in Nat /\ BadVotes \in Nat \ {0}
    /\ MaxFaults \in Nat /\ MaxTargets \in Nat
    /\ 2 * MinSize > Cardinality(Members) + Cardinality(Faulty)
    /\ MinSize >= Threshold + Cardinality(Faulty)

VARIABLES
    phase,      \* the phase each member has started
    sent,       \* the messages of all members
    node,       \* the session of each honest member
    final,      \* final[n]: the final commitments of n
    faults

vars == <<phase, sent, node, final, faults>>

\* QuorumPhase
InitializedPhase == 1
ContributePhase == 2
ComplainPhase == 3
JustifyPhase == 4
CommitPhase == 5
FinalizePhase == 6
Aborted == 7

\* Messages, by the phase they belong to.
Contribution(m, vvec, good) ==
    [phase |-> ContributePhase, from |-> m, vvec |-> vvec, good |-> good]
Complaint(m, bad, complain) ==
    [phase |-> ComplainPhase, from |-> m, bad |-> bad, complain |-> complain]
Justification(m, for, good) ==
    [phase |-> JustifyPhase, from |-> m, for |-> for, good |-> good]
Commitment(m, valid, key, ok) ==
    [phase |-> CommitPhase, from |-> m, valid |-> valid, key |-> key, ok |-> ok]

\* No contribution is taken for none.
ASSUME NoneAssumption ==
    \A m \in Members, good \in SUBSET Members : Contribution(m, 1, good) # None

\* A session: the messages processed; first[m], the contribution of m that is kept;
\* the members whose verified share is on disk; the members that are bad; <<m, k>>
\* in votes if k is in badMemberVotes of m, in open if k is in complaintsFromOthers
\* of m; validCommitments.
NewSession ==
    [seen |-> {}, first |-> [m \in Members |-> None], shares |-> {}, bad |-> {},
     votes |-> {}, open |-> {}, valid |-> {}]

Of(S, p) == {c \in S : c.phase = p}
From(S, p, m) == {c \in S : c.phase = p /\ c.from = m}
-----------------------------------------------------------------------------
(* ReceiveMessage, for the messages S of one phase: the sessions that may  *)
(* result.  The first message of a member counts, further ones make it     *)
(* bad.                                                                    *)

FirstOfEach(s, S, p) ==
    {F \in SUBSET S :
        /\ \A c, d \in F : c.from = d.from => c = d
        /\ {c.from : c \in F} = {m \in {c.from : c \in S} : From(s.seen, p, m) = {}}}

Doubles(s, S, p) == {m \in Members : Cardinality(From(s.seen \cup S, p, m)) > 1}

ReceiveContributions(s, S) ==
    {[s EXCEPT !.seen = s.seen \cup S,
               !.first = [m \in Members |-> IF \E c \in F : c.from = m
                                            THEN CHOOSE c \in F : c.from = m ELSE s.first[m]],
               !.bad = s.bad \cup Doubles(s, S, ContributePhase)] :
        F \in FirstOfEach(s, S, ContributePhase)}

ReceiveComplaints(s, S) ==
    {[s EXCEPT !.seen = s.seen \cup S,
               !.votes = s.votes \cup UNION {c.bad \X {c.from} : c \in F},
               !.open = s.open \cup UNION {c.complain \X {c.from} : c \in F},
               !.bad = s.bad \cup Doubles(s, S, ComplainPhase)] :
        F \in FirstOfEach(s, S, ComplainPhase)}

Complainers(s, m) == {k \in Members : <<m, k>> \in s.open}

\* A justification counts if its sender is not bad and everybody it is for has
\* complained about the sender.
Counted(s, F) == {c \in F : c.from \notin s.bad /\ c.for \subseteq Complainers(s, c.from)}

\* Mutant: a justification clears the complaint of the reader only.
JustificationsForMe(s, n, S) ==
    {[s EXCEPT !.seen = s.seen \cup S,
               !.open = s.open \ UNION {{c.from} \X (c.good \cap {n}) : c \in Counted(s, F)},
               !.shares = s.shares \cup {c.from : c \in {c \in Counted(s, F) : n \in c.good}},
               !.bad = s.bad \cup {c.from : c \in {c \in F : c \notin Counted(s, F) \/ c.good # c.for}}
                         \cup Doubles(s, S, JustifyPhase)] :
        F \in FirstOfEach(s, S, JustifyPhase)}

\* Mutant: the share that a justification discloses is not kept.
JustifiedShareLost(s, n, S) ==
    {[s EXCEPT !.seen = s.seen \cup S,
               !.open = s.open \ UNION {{c.from} \X c.good : c \in Counted(s, F)},
               !.bad = s.bad \cup {c.from : c \in {c \in F : c \notin Counted(s, F) \/ c.good # c.for}}
                         \cup Doubles(s, S, JustifyPhase)] :
        F \in FirstOfEach(s, S, JustifyPhase)}

ReceiveJustifications(s, n, S) ==
    {[s EXCEPT !.seen = s.seen \cup S,
               !.open = s.open \ UNION {{c.from} \X c.good : c \in Counted(s, F)},
               !.shares = s.shares \cup {c.from : c \in {c \in Counted(s, F) : n \in c.good}},
               !.bad = s.bad \cup {c.from : c \in {c \in F : c \notin Counted(s, F) \/ c.good # c.for}}
                         \cup Doubles(s, S, JustifyPhase)] :
        F \in FirstOfEach(s, S, JustifyPhase)}

\* The quorum key of a set of members, if all their vectors are known.
Key(s, v) == [m \in v |-> s.first[m].vvec]
HasVvecs(s, v) == \A m \in v : s.first[m] # None

ReceiveCommitments(s, S) ==
    [s EXCEPT !.seen = s.seen \cup S,
              !.valid = s.valid \cup {c \in S : HasVvecs(s, c.valid) =>
                                            c.key = Key(s, c.valid) /\ c.ok}]
-----------------------------------------------------------------------------
(* The steps of a member.                                                  *)

Available(n, p) == Of(sent \ node[n].seen, p)

\* The messages of phase p that are lost to n when it leaves the phase with S.  A
\* message that is late is one that is lost.
Lost(n, S, p) == Cardinality(Available(n, p) \ S)

Faults(k) ==
    /\ faults + k <= MaxFaults
    /\ faults' = faults + k

Enter(n, p) ==
    /\ phase[n] = p - 1
    /\ \A m \in Members : phase[m] >= p - 1
    /\ phase' = [phase EXCEPT ![n] = p]

Contribute(n) ==
    /\ Enter(n, ContributePhase)
    /\ sent' = sent \cup {Contribution(n, 1, Members)}
    /\ UNCHANGED <<node, final, faults>>

\* Members without contribution, or not connected (u), are bad; shares that do not
\* fit are complained about.
Silent(s) == {m \in Members : s.first[m] = None}
WeComplain(s, n) == {m \in Members \ Silent(s) : n \notin s.first[m].good}

VerifyAndComplain(s, n, u) ==
    [s EXCEPT !.shares = Members \ (s.bad \cup Silent(s) \cup WeComplain(s, n)),
              !.bad = s.bad \cup Silent(s) \cup u]

SendComplaint(s, n) ==
    IF s.bad \cup WeComplain(s, n) = {} THEN {}
    ELSE {Complaint(n, s.bad, WeComplain(s, n) \ s.bad)}

Complain(n, S, E, u) ==
    /\ Enter(n, ComplainPhase)
    /\ Faults(Lost(n, S, ContributePhase) + Cardinality(u))
    /\ \E s \in ReceiveContributions(node[n], S) : \E t \in ReceiveComplaints(s, E) :
        /\ node' = [node EXCEPT ![n] = VerifyAndComplain(t, n, u)]
        /\ sent' = sent \cup SendComplaint(VerifyAndComplain(t, n, u), n)
    /\ UNCHANGED final

\* Members with enough votes against them are bad; complaints of the others are
\* answered.
Voters(s, m) == {k \in Members : <<m, k>> \in s.votes}

VerifyAndJustify(s) ==
    [s EXCEPT !.bad = s.bad \cup {m \in Members : Cardinality(Voters(s, m)) >= BadVotes}]

JustifyFor(s, n) ==
    {c.from : c \in {c \in Of(s.seen, ComplainPhase) : c.from \notin s.bad /\ n \in c.complain}}

SendJustification(s, n) ==
    IF JustifyFor(s, n) = {} THEN {}
    ELSE {Justification(n, JustifyFor(s, n), JustifyFor(s, n))}

Justify(n, S, E) ==
    /\ Enter(n, JustifyPhase)
    /\ Faults(Lost(n, S, ComplainPhase))
    /\ \E s \in ReceiveComplaints(node[n], S) : \E t \in ReceiveJustifications(s, n, E) :
        /\ node' = [node EXCEPT ![n] = VerifyAndJustify(t)]
        /\ sent' = sent \cup SendJustification(VerifyAndJustify(t), n)
    /\ UNCHANGED final

\* Members with open complaints are bad; a commitment needs the vectors and shares of
\* all members that are left.
VerifyAndCommit(s) ==
    [s EXCEPT !.bad = s.bad \cup {m \in Members : Complainers(s, m) # {}}]

SendCommitment(s, n) ==
    LET v == Members \ s.bad
    IN  IF Cardinality(v) >= MinSize /\ HasVvecs(s, v) /\ v \subseteq s.shares
        THEN {Commitment(n, v, Key(s, v), TRUE)} ELSE {}

Commit(n, S) ==
    /\ Enter(n, CommitPhase)
    /\ Faults(Lost(n, S, JustifyPhase))
    /\ \E s \in ReceiveJustifications(node[n], n, S) :
        /\ node' = [node EXCEPT ![n] = VerifyAndCommit(s)]
        /\ sent' = sent \cup SendCommitment(VerifyAndCommit(s), n)
    /\ UNCHANGED final

\* FinalizeCommitments puts the commitments V together that have the valid members
\* and the key of the first one, c, and verifies the signature recovered from them.
\* Mutant: threshold members are enough, as for any other signature.
EnoughToRecover(S) == Cardinality(S) >= Threshold

Enough(S) == Cardinality(S) >= MinSize
Alike(V, c) == {d \in V : d.valid = c.valid /\ d.key = c.key}
SignersOf(V, c) == {d.from : d \in Alike(V, c)}
\* Mutant: the signers that are left are not counted again.
FinalsUncounted(V, c) ==
    IF \A d \in Alike(V, c) : d.ok
    THEN {[valid |-> c.valid, key |-> c.key, signers |-> SignersOf(V, c)]} ELSE {}

Finals(V, c) ==
    IF Enough(SignersOf(V, c)) /\ \A d \in Alike(V, c) : d.ok
    THEN {[valid |-> c.valid, key |-> c.key, signers |-> SignersOf(V, c)]} ELSE {}

Candidates(V) == {v \in {c.valid : c \in V} : Enough({c \in V : c.valid = v})}

FinalizeCommitments(n, S) ==
    /\ Enter(n, FinalizePhase)
    /\ Faults(Lost(n, S, CommitPhase))
    /\ LET s == ReceiveCommitments(node[n], S)
       IN  /\ node' = [node EXCEPT ![n] = s]
           /\ \E lead \in [Candidates(s.valid) -> s.valid] :
                /\ \A v \in Candidates(s.valid) : lead[v].valid = v
                /\ final' = [final EXCEPT ![n] =
                        UNION {Finals(s.valid, lead[v]) : v \in Candidates(s.valid)}]
    /\ UNCHANGED sent

\* AbortPhaseException: the quorum or the phase has changed, or the node stops.
AbortPhase(n) ==
    /\ phase[n] < FinalizePhase
    /\ Faults(1)
    /\ phase' = [phase EXCEPT ![n] = Aborted]
    /\ UNCHANGED <<sent, node, final>>
-----------------------------------------------------------------------------
(* Members that simulate errors: the messages they may send in a phase,    *)
(* and the second one some of them send.  A commitment for members that no *)
(* honest member has committed to is of no use.                            *)

Targets == {t \in SUBSET Honest : Cardinality(t) <= MaxTargets}
Answered(m) == {c.from : c \in {c \in Of(sent, ComplainPhase) : m \in c.complain}}

FaultyMessages(m, p) ==
    CASE p = ContributePhase -> {Contribution(m, 1, Members \ t) : t \in Targets}
      [] p = ComplainPhase -> {Complaint(m, {}, t) : t \in Targets \ {{}}}
      [] p = JustifyPhase /\ Answered(m) # {} ->
            {Justification(m, Answered(m), good) : good \in SUBSET Answered(m)}
      [] p = CommitPhase ->
            {Commitment(m, c.valid, IF right THEN c.key ELSE [k \in c.valid |-> 0], ok) :
                c \in Of(sent, CommitPhase), right \in BOOLEAN, ok \in BOOLEAN}
      [] OTHER -> {}

SecondMessages(m, p) ==
    CASE p = ContributePhase -> {Contribution(m, 2, Members)}
      [] p = ComplainPhase -> {Complaint(m, {}, t) : t \in Targets}
      [] OTHER -> FaultyMessages(m, p)

\* Faulty members send before the honest ones start a phase, which may read it early or
\* late, and commit after them, when it is known what they committed to.
FaultyPhase(m) ==
    LET p == phase[m] + 1
    IN  /\ p <= FinalizePhase
        /\ \A n \in Honest :
                IF p < CommitPhase THEN phase[n] \in {p - 1, Aborted} ELSE phase[n] >= p
        /\ phase' = [phase EXCEPT ![m] = p]
        /\ \/ UNCHANGED <<sent, faults>>
           \/ \E c \in FaultyMessages(m, p) : sent' = sent \cup {c} /\ UNCHANGED faults
           \/ /\ Faults(1)
              /\ \E c \in FaultyMessages(m, p), d \in SecondMessages(m, p) :
                    c # d /\ sent' = sent \cup {c, d}
        /\ UNCHANGED <<node, final>>
-----------------------------------------------------------------------------
Init ==
    /\ phase = [m \in Members |-> InitializedPhase]
    /\ sent = {}
    /\ node = [n \in Honest |-> NewSession]
    /\ final = [n \in Honest |-> {}]
    /\ faults = 0

HonestStep(n) ==
    \/ Contribute(n)
    \/ \E S \in SUBSET Available(n, ContributePhase), E \in SUBSET Available(n, ComplainPhase),
          u \in SUBSET (Members \ {n}) : Complain(n, S, E, u)
    \/ \E S \in SUBSET Available(n, ComplainPhase), E \in SUBSET Available(n, JustifyPhase) :
            Justify(n, S, E)
    \/ \E S \in SUBSET Available(n, JustifyPhase) : Commit(n, S)
    \/ \E S \in SUBSET Available(n, CommitPhase) : FinalizeCommitments(n, S)
    \/ AbortPhase(n)

Next ==
    \/ \E n \in Honest : HonestStep(n)
    \/ \E m \in Faulty : FaultyPhase(m)

Spec == Init /\ [][Next]_vars
-----------------------------------------------------------------------------
\* There is one quorum at most: members that get final commitments, whichever messages
\* they missed and in whichever order they read them, get the same valid members and
\* the same key.  FinalizeCommitments takes each set of valid members that minSize
\* commitments agree on, with the key of the first of them, and a member without all
\* vectors accepts commitments it cannot verify.
FinalUnique ==
    \A n, k \in Honest : \A f \in final[n], g \in final[k] :
        f.valid = g.valid /\ f.key = g.key

\* A final commitment is of a quorum that can sign: at least threshold honest members
\* hold the shares of all its valid members, and the vectors whose sum is its key.
FinalHasShares ==
    \A n \in Honest : \A f \in final[n] :
        Cardinality({k \in Honest : /\ f.valid \subseteq node[k].shares
                                    /\ HasVvecs(node[k], f.valid)
                                    /\ Key(node[k], f.valid) = f.key}) >= Threshold

\* Every complaint about an honest member is answered by it.  VerifyAndJustify answers
\* no member that is bad: one that did not contribute, or one whose wrong justification
\* arrives while the honest member sleeps before its own justify phase.
AllAnswered ==
    \A n \in Honest : \A c \in Of(sent, ComplainPhase) :
        n \in c.complain => \E j \in From(sent, JustifyPhase, n) : c.from \in j.for

\* Without faults of the network a round ends with exactly one final commitment at every
\* honest member, and it has all honest members, whatever the others simulate: as long
\* as they are enough and answer all complaints (VerifyAndCommit drops a member for a
\* complaint of a bad member too, which VerifyAndJustify has skipped).
RoundSucceeds ==
    faults = 0 /\ AllAnswered /\ Cardinality(Honest) >= MinSize =>
        \A n \in Honest : phase[n] = FinalizePhase =>
            Cardinality(final[n]) = 1 /\ \A f \in final[n] : Honest \subseteq f.valid

\* What decides about a member: the messages n has processed and what it found by itself.
View(n) == [seen |-> {c \in node[n].seen : c.phase < CommitPhase}, first |-> node[n].first,
            own |-> {c.bad : c \in From(sent, ComplainPhase, n)}]
NoDoubles(S) == \A c, d \in S : c.phase = d.phase /\ c.from = d.from => c = d

\* Honest members that processed the same messages hold the same members for bad when
\* they commit, in whichever order and before or after the start of a phase they read
\* them: agreement on a quorum needs nothing else.
SameViewSameVerdict ==
    \A n, k \in Honest :
        /\ {phase[n], phase[k]} \subseteq {CommitPhase, FinalizePhase}
        /\ View(n) = View(k) /\ NoDoubles(View(n).seen)
        => node[n].bad = node[k].bad

\* Member n holds what it needs to sign for the valid members v with the given key.
Backs(n, v, key) ==
    /\ v \subseteq node[n].shares
    /\ HasVvecs(node[n], v)
    /\ key = Key(node[n], v)

Fields == {"seen", "first", "shares", "bad", "votes", "open", "valid"}
IsSession(s) == s = [i \in Fields |-> s[i]]

TypeOK ==
    /\ phase \in [Members -> Int]
    /\ node = [n \in Honest |-> node[n]] /\ \A n \in Honest : IsSession(node[n])
    /\ final = [n \in Honest |-> final[n]]
    /\ \A c \in sent : c.from \in Members

\* What an honest member stands for with its commitment: it sends one, when its shares
\* and vectors are settled, and they are what the commitment says.
OneBackedCommitment ==
    \A n \in Honest : \A c \in From(sent, CommitPhase, n) :
        /\ phase[n] >= CommitPhase
        /\ Backs(n, c.valid, c.key)
        /\ \A d \in From(sent, CommitPhase, n) : d = c

\* A final commitment is signed by minSize members that sent commitments like it.
FinalIsSigned ==
    \A n \in Honest :
        /\ node[n].valid \subseteq Of(sent, CommitPhase)
        /\ \A f \in final[n] :
            /\ f.signers \subseteq Members
            /\ Cardinality(f.signers) >= MinSize
            /\ \A k \in f.signers : \E c \in From(sent, CommitPhase, k) :
                    c.valid = f.valid /\ c.key = f.key

\* The inductive invariant of FinalUnique and FinalHasShares: a final commitment is made
\* of commitments, and those of honest members are one each and backed by what the
\* member holds, from when it is sent (SendCommitment) on.
IInv == TypeOK /\ OneBackedCommitment /\ FinalIsSigned
-----------------------------------------------------------------------------
(* What decides about the members, read off the messages S of a session.   *)

BeforeCommitments(S) == {c \in S : c.phase < CommitPhase}

VotesIn(S) == UNION {c.bad \X {c.from} : c \in Of(S, ComplainPhase)}
ComplaintsIn(S) == UNION {c.complain \X {c.from} : c \in Of(S, ComplainPhase)}
About(S, m) == {k \in Members : <<m, k>> \in ComplaintsIn(S)}

VotedOut(S) ==
    {m \in Members : Cardinality({k \in Members : <<m, k>> \in VotesIn(S)}) >= BadVotes}
WrongJustifiers(S) ==
    {c.from : c \in {c \in Of(S, JustifyPhase) :
                        ~ (c.for \subseteq About(S, c.from)) \/ c.good # c.for}}
Unanswered(S, m) == About(S, m) \ UNION {c.good : c \in From(S, JustifyPhase, m)}

\* The members that n holds for bad, if it read one message of a kind at most of each.
OwnVerdict(n) == UNION {c.bad : c \in From(sent, ComplainPhase, n)}
Verdict(n, S) ==
    OwnVerdict(n) \cup VotedOut(S) \cup WrongJustifiers(S)
        \cup {m \in Members : Unanswered(S, m) # {}}

\* The session of n holds, in each phase, what the messages it has read say.
Decides(n) ==
    LET s == node[n]
        S == s.seen
    IN  /\ phase[n] < ComplainPhase =>
              s = NewSession /\ From(sent, ComplainPhase, n) = {}
        /\ NoDoubles(BeforeCommitments(S)) =>
              /\ phase[n] = ComplainPhase =>
                    /\ Of(S, JustifyPhase) = {}
                    /\ s.votes = VotesIn(S) /\ s.open = ComplaintsIn(S)
                    /\ s.bad = OwnVerdict(n)
              /\ phase[n] = JustifyPhase =>
                    /\ s.bad = OwnVerdict(n) \cup VotedOut(S) \cup WrongJustifiers(S)
                    /\ \A m \in Members \ s.bad : Complainers(s, m) = Unanswered(S, m)
              /\ phase[n] \in {CommitPhase, FinalizePhase} => s.bad = Verdict(n, S)

\* The inductive invariant of SameViewSameVerdict: a justification that is read early,
\* before the votes are counted, is treated as one that is read late, or its sender is
\* bad anyway.
VerdictIInv == \A n \in Honest : Decides(n)
-----------------------------------------------------------------------------
(* A round without faults of the network: everybody reads all that is sent *)
(* and comes to the same verdict.                                          *)

NoContribution(S) == {m \in Members : From(S, ContributePhase, m) = {}}
Dropped(S) ==
    NoContribution(S) \cup VotedOut(S) \cup WrongJustifiers(S)
        \cup {m \in Members : Unanswered(S, m) # {}}
Left == Members \ Dropped(sent)

\* Nobody aborts, or leaves a phase before the others have come to it.
InPhase ==
    /\ \A m \in Members : phase[m] \in InitializedPhase .. FinalizePhase
    /\ \A n \in Honest, m \in Members : phase[m] >= phase[n] - 1
    /\ Of(sent, CommitPhase) # {} => \A m \in Members : phase[m] >= JustifyPhase
    /\ \A n \in Honest : phase[n] >= ContributePhase => From(sent, ContributePhase, n) # {}

\* What a message says, and more of one by an honest member.
AsExpected(c) ==
    /\ c.phase \in ContributePhase .. CommitPhase /\ phase[c.from] >= c.phase
    /\ c.phase = ContributePhase => \E good \in SUBSET Members : c = Contribution(c.from, 1, good)
    /\ c.phase = ComplainPhase =>
            c.bad = IF c.from \in Honest THEN NoContribution(sent) ELSE {}
    /\ c.phase = JustifyPhase /\ c.from \in Honest =>
            c.good = c.for /\ c.for \subseteq About(sent, c.from)
    /\ c.phase = CommitPhase =>
            /\ c.valid = Left
            /\ c.from \in Honest => c.key = [m \in Left |-> 1] /\ c.ok

\* The session of n has read every message of the phases it has left; it knows the
\* contribution of each member, and holds its share unless the member is bad or has not
\* answered a complaint.
ReadsAll(n) ==
    LET s == node[n]
    IN  /\ s.seen \subseteq sent
        /\ \A p \in ContributePhase .. JustifyPhase :
                phase[n] > p => Of(s.seen, p) = Of(sent, p)
        /\ phase[n] >= ComplainPhase =>
            /\ \A m \in NoContribution(sent) : s.first[m] = None
            /\ \A m \in Members \ NoContribution(sent) :
                    s.first[m] \in From(sent, ContributePhase, m)
            /\ OwnVerdict(n) = NoContribution(sent)
            /\ \A m \in Members \ (s.bad \cup s.shares) :
                    /\ \E c \in From(sent, ComplainPhase, n) : m \in c.complain
                    /\ \A c \in From(s.seen, JustifyPhase, m) : n \notin c.good
        /\ phase[n] < FinalizePhase => s.valid = {} /\ Of(s.seen, CommitPhase) = {}

\* What comes of it: all honest members commit, and finish with one quorum.
Succeeds(n) ==
    AllAnswered /\ Cardinality(Honest) >= MinSize =>
        /\ phase[n] >= CommitPhase => From(sent, CommitPhase, n) # {}
        /\ phase[n] = FinalizePhase =>
                \E f \in final[n] : final[n] = {f} /\ Honest \subseteq f.valid

Undisturbed ==
    /\ InPhase /\ NoDoubles(sent) /\ \A c \in sent : AsExpected(c)
    /\ \A n \in Honest : ReadsAll(n) /\ Succeeds(n)

\* The inductive invariant of RoundSucceeds: without a fault each member that is dropped
\* is dropped by all, from the same messages, and for each that is left its share is
\* there: it was good, or was disclosed in a justification.
RoundIInv ==
    /\ IsFiniteSet(sent) /\ faults \in Nat
    /\ faults = 0 => Undisturbed
=============================================================================
