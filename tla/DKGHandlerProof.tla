-------------------------- MODULE DKGHandlerProof --------------------------
(***************************************************************************)
(* ContributesOnce for intervals and phases of any length, any number of   *)
(* branches and any chain: HandlerIInv is inductive.  The argument is      *)
(* about heights only: the round of a quorum starts with its own block,    *)
(* and a chain that does not go back does not come to that block again.    *)
(*                                                                         *)
(* And CalmRoundFinishes, by CalmIInv: while blocks come one at a time on  *)
(* one branch, the thread is in the phase of the tip or just before it.    *)
(***************************************************************************)
EXTENDS DKGHandler, TLAPS

\* Division with rest.
LEMMA DivMod ==
    ASSUME NEW I \in Nat \ {0}, NEW a \in Nat
    PROVE  /\ a \div I \in Nat /\ a % I \in 0..(I - 1)
           /\ a = I * (a \div I) + (a % I)
  OBVIOUS

\* A higher block is in the same round or in a later one.
LEMMA DivMono ==
    ASSUME NEW I \in Nat \ {0}, NEW a \in Nat, NEW b \in Nat, a <= b
    PROVE  a \div I <= b \div I
  <1> DEFINE p == a \div I
             q == b \div I
             r == a % I
             s == b % I
  <1>1. p \in Nat /\ q \in Nat /\ r \in 0..(I - 1) /\ s \in 0..(I - 1)
    BY DivMod, Zenon
  <1>2. a = I * p + r /\ b = I * q + s
    BY DivMod, Zenon
  <1> HIDE DEF p, q, r, s
  <1>3. SUFFICES ASSUME p >= q + 1 PROVE FALSE
    BY <1>1 DEF p, q
  <1>4. I * p >= I * (q + 1)
    BY <1>1, <1>3
  <1> QED BY <1>1, <1>2, <1>4

\* The first block of a round is the lowest one.
LEMMA DivFirst ==
    ASSUME NEW I \in Nat \ {0}, NEW a \in Nat, NEW b \in Nat, a <= b,
           a \div I = b \div I, b % I = 0
    PROVE  a % I = 0
  <1> DEFINE p == a \div I
             r == a % I
  <1>1. p \in Nat /\ r \in 0..(I - 1) /\ a = I * p + r
    BY DivMod, Zenon
  <1>2. b = I * (b \div I) + (b % I) /\ b \div I \in Nat
    BY DivMod, Zenon
  <1>3. b = I * p + 0
    BY <1>2, Zenon
  <1> HIDE DEF p, r
  <1>4. I * p \in Int
    BY <1>1
  <1>5. r = 0
    BY <1>1, <1>3, <1>4
  <1> QED BY <1>5, Zenon DEF r

\* The first phase starts with the block that names the quorum, and with no other.
LEMMA FirstPhase ==
    ASSUME NEW h \in Nat
    PROVE  /\ Stage(h) \in Nat
           /\ Stage(h) = 0 => StartsPhase(h) /\ NewPhase(h) = Initialized
           /\ StartsPhase(h) /\ NewPhase(h) = Initialized => Stage(h) = 0
           /\ StartsPhase(h) => NewPhase(h) \in 1..Idle
  <1>1. Stage(h) \in Nat
    BY DivMod, HandlerAssumption DEF Stage
  <1>2. Stage(h) \div PhaseBlocks \in Nat
    BY <1>1, DivMod, HandlerAssumption, Zenon
  <1>3. Stage(h) % PhaseBlocks = 0 /\ Stage(h) \div PhaseBlocks = 0 => Stage(h) = 0
    BY <1>1, HandlerAssumption
  <1>4. Stage(h) = 0 => Stage(h) % PhaseBlocks = 0 /\ Stage(h) \div PhaseBlocks = 0
    BY <1>1, HandlerAssumption
  <1> QED BY <1>1, <1>2, <1>3, <1>4 DEF StartsPhase, NewPhase, Initialized, Idle

\* A block that does not take the chain back leaves what is past behind.
LEMMA StaysPast ==
    ASSUME TypeOK, NEW q \in Quorums, Past(q),
           NEW h \in 0..MaxHeight, NEW b \in Branches, UpdatedBlockTip(h, b), h >= height
    PROVE  Past(q)' /\ (height \div Interval > q[1] => h \div Interval > q[1])
  <1>1. /\ h \in Nat /\ height \in Nat /\ q[1] \in Nat /\ height' = h
        /\ phase' = IF StartsPhase(h) THEN NewPhase(h) ELSE phase
    BY HandlerAssumption, DivMod DEF Past, Quorums, UpdatedBlockTip
  <1>2. h \div Interval \in Nat /\ height \div Interval \in Nat
        /\ height \div Interval <= h \div Interval
    BY <1>1, DivMod, DivMono, HandlerAssumption, Zenon
  <1>3. height \div Interval = h \div Interval /\ Stage(h) = 0 => Stage(height) = 0
    BY <1>1, DivFirst, HandlerAssumption, Zenon DEF Stage
  <1>4. Stage(h) = 0 => h \div Interval > q[1]
    BY <1>1, <1>2, <1>3 DEF Past
  <1>5. phase' = Initialized => h \div Interval > q[1]
    BY <1>1, <1>2, <1>4, FirstPhase DEF Past
  <1> QED BY <1>1, <1>2, <1>4, <1>5 DEF Past

\* What no step of the thread changes.
LEMMA ThreadTypes ==
    ASSUME TypeOK, UNCHANGED tipVars, at' \in 0..Finalize, AtFits',
           contributed' = contributed \/ \E q : contributed' = [contributed EXCEPT ![q] = @ + 1],
           pc' = "init" => quorum # None
    PROVE  TypeOK'
  <1>1. /\ contributed' = [q \in Quorums |-> contributed'[q]]
        /\ \A q \in Quorums : contributed'[q] \in Nat
    <2>1. CASE contributed' = contributed
      BY <2>1, Zenon DEF TypeOK
    <2>2. ASSUME NEW q, contributed' = [contributed EXCEPT ![q] = @ + 1]
          PROVE  <1>1!:
      BY <2>2 DEF TypeOK
    <2> QED BY <2>1, <2>2, Zenon
  <1> QED BY <1>1, Zenon DEF TypeOK, tipVars, Stage

\* Past depends on the tip only.
LEMMA SamePast ==
    ASSUME NEW q, UNCHANGED tipVars
    PROVE  Past(q)' <=> Past(q)
  BY Zenon DEF Past, tipVars, Stage

\* A step of the thread that neither contributes nor comes closer to it.
LEMMA QuietStep ==
    ASSUME TypeOK, UNCHANGED tipVars, UNCHANGED contributed,
           NEW q \in Quorums, Once(q),
           Before(q)' => Before(q) /\ (pc = "wait" => pc' = "wait"),
           pc' = "init" => pc = "init"
    PROVE  Once(q)'
  <1>1. Past(q)' <=> Past(q)
    BY SamePast, Zenon
  <1>2. /\ contributed'[q] = contributed[q] /\ back' = back
        /\ height' = height
    BY Zenon DEF tipVars
  <1> QED BY <1>1, <1>2, Zenon DEF Once

\* The callback keeps the invariant: it may only go back, which makes room, or leave
\* the round behind.
LEMMA TipPreserves ==
    ASSUME HandlerIInv, NEW h \in 0..MaxHeight, NEW b \in Branches, UpdatedBlockTip(h, b)
    PROVE  HandlerIInv'
  <1>1. /\ h \in Nat /\ MaxHeight \in Nat /\ h \div Interval \in Nat
        /\ MaxHeight \div Interval \in Nat /\ h \div Interval <= MaxHeight \div Interval
    <2>1. h \in Nat /\ MaxHeight \in Nat /\ h <= MaxHeight /\ Interval \in Nat \ {0}
      BY HandlerAssumption
    <2> QED BY <2>1, DivMod, DivMono, Zenon
  <1>2. TypeOK'
    <2>1. <<h \div Interval, b>> \in Quorums
      BY <1>1 DEF Quorums
    <2>2. /\ height' = h /\ quorum' = <<h \div Interval, b>> /\ at' = at /\ pc' = pc
          /\ contributed' = contributed
          /\ phase' = IF StartsPhase(h) THEN NewPhase(h) ELSE phase
          /\ back' \in Nat
      BY DEF UpdatedBlockTip, history, HandlerIInv, TypeOK
    <2>3. phase' \in 1..Idle /\ (Stage(h) = 0 => phase' = Initialized)
      BY <1>1, <2>2, FirstPhase, Zenon DEF HandlerIInv, TypeOK
    <2>4. AtFits'
      BY <2>2, Zenon DEF HandlerIInv, TypeOK, AtFits
    <2> QED
      BY <1>1, <2>1, <2>2, <2>3, <2>4, HandlerAssumption DEF HandlerIInv, TypeOK, Stage
  <1>3. ASSUME NEW q \in Quorums PROVE Once(q)'
    <2>1. /\ Once(q) /\ TypeOK /\ contributed[q] \in Nat /\ back \in Nat /\ height \in Int
      BY Zenon DEF HandlerIInv, TypeOK
    <2>2. /\ contributed'[q] = contributed[q] /\ height' = h /\ pc' = pc
          /\ Before(q)' <=> Before(q)
          /\ back' = back + (IF h < height THEN 1 ELSE 0)
      BY Zenon DEF UpdatedBlockTip, history, Before
    <2>3. CASE h < height
      BY <2>1, <2>2, <2>3 DEF Once
    <2>4. CASE h >= height
      <3>1. Past(q) => Past(q)' /\ (height \div Interval > q[1] => h \div Interval > q[1])
        BY <2>1, <2>4, StaysPast, Zenon
      <3> QED BY <2>1, <2>2, <2>4, <3>1 DEF Once
    <2> QED BY <1>1, <2>1, <2>3, <2>4
  <1> QED BY <1>2, <1>3, Zenon DEF HandlerIInv

\* A round begins with the first phase at the tip, and with the quorum at the tip.
LEMMA RoundPreserves ==
    ASSUME HandlerIInv, UNCHANGED tipVars, RoundDue \/ \E ok \in BOOLEAN : InitNewQuorum(ok)
    PROVE  HandlerIInv'
  <1>0. TypeOK /\ contributed' = contributed /\ height' = height /\ back' = back
    BY Zenon DEF HandlerIInv, RoundDue, InitNewQuorum, history, tipVars
  <1>1. CASE RoundDue
    <2>1. pc' = "init" /\ at' = 0 /\ phase = Initialized /\ quorum # None
      BY <1>0, <1>1 DEF RoundDue, GoTo, TypeOK, Initialized, Idle
    <2>2. TypeOK'
      BY <1>0, <2>1, ThreadTypes DEF Finalize, AtFits
    <2>3. ASSUME NEW q \in Quorums PROVE Once(q)'
      <3>1. Once(q) /\ (Past(q)' <=> Past(q)) /\ ~ Before(q)'
        BY <2>1, SamePast, Zenon DEF HandlerIInv, Before
      <3> QED BY <1>0, <2>1, <3>1, Zenon DEF Once, Past
    <2> QED BY <2>2, <2>3, Zenon DEF HandlerIInv
  <1>2. ASSUME NEW ok \in BOOLEAN, InitNewQuorum(ok) PROVE HandlerIInv'
    <2>1. /\ pc = "init" /\ cur' = quorum
          /\ pc' \in {"wait", "newquorum"} /\ at' \in {Initialized, 0}
          /\ pc' = "wait" => at' = Initialized
      BY <1>2, Zenon DEF InitNewQuorum, GoTo
    <2>2. TypeOK'
      BY <1>0, <2>1, ThreadTypes DEF Finalize, Initialized, AtFits
    <2>3. ASSUME NEW q \in Quorums PROVE Once(q)'
      <3>1. Once(q) /\ (Past(q)' <=> Past(q)) /\ contributed[q] \in Nat /\ back \in Nat
        BY <1>0, SamePast, Zenon DEF HandlerIInv, TypeOK
      <3>2. quorum # None /\ quorum[1] = height \div Interval /\ height \in Nat
        BY <1>0, <2>1, Zenon DEF TypeOK
      <3>3. height \div Interval \in Int /\ q[1] \in Int
        BY <3>2, DivMod, HandlerAssumption DEF Quorums
      <3>4. Before(q)' => q = quorum
        BY <2>1, Zenon DEF Before
      <3>5. contributed[q] = 1 + back => ~ Before(q)'
        BY <2>1, <3>1, <3>2, <3>3, <3>4 DEF Once
      <3>6. Before(q)' => pc' = "wait"
        BY <2>1, Zenon DEF Before
      <3> QED BY <1>0, <2>1, <3>1, <3>5, <3>6, Zenon DEF Once
    <2> QED BY <2>2, <2>3, Zenon DEF HandlerIInv
  <1> QED BY <1>1, <1>2, Zenon

\* The steps that end a round, or go on with it after the contribution.
LEMMA QuietPreserves ==
    ASSUME HandlerIInv, UNCHANGED tipVars, UNCHANGED contributed, UNCHANGED cur,
           at' \in 0..Finalize, AtFits',
           pc' \in {"idle", "finalize"} \/ (pc = "phase" /\ pc' = "sleep" /\ at' = at)
               \/ (pc' \in {"phase", "wait"} /\ at' \notin {Initialized, Contribute})
    PROVE  HandlerIInv'
  <1>1. TypeOK'
    BY ThreadTypes, Zenon DEF HandlerIInv
  <1>2. ASSUME NEW q \in Quorums PROVE Once(q)'
    <2>1. Once(q) /\ TypeOK
      BY Zenon DEF HandlerIInv
    <2>2. (Before(q)' => Before(q) /\ (pc = "wait" => pc' = "wait")) /\ pc' # "init"
      BY Zenon DEF Before
    <2> QED BY <2>1, <2>2, QuietStep, Zenon
  <1> QED BY <1>1, <1>2, Zenon DEF HandlerIInv

\* The contribute phase is entered at a block past the first one of the round.
LEMMA EnterPreserves ==
    ASSUME HandlerIInv, UNCHANGED tipVars, UNCHANGED contributed, UNCHANGED cur,
           pc = "wait", at = Initialized, quorum = cur, phase = Contribute,
           pc' = "phase", at' = Contribute
    PROVE  HandlerIInv'
  <1>0. TypeOK /\ contributed' = contributed /\ height' = height /\ back' = back
    BY Zenon DEF HandlerIInv, tipVars
  <1>1. TypeOK'
    BY <1>0, ThreadTypes DEF Finalize, Contribute, AtFits
  <1>2. ASSUME NEW q \in Quorums PROVE Once(q)'
    <2>1. Once(q) /\ (Past(q)' <=> Past(q)) /\ contributed[q] \in Nat /\ back \in Nat
      BY <1>0, SamePast, Zenon DEF HandlerIInv, TypeOK
    <2>2. Before(q)' => cur = q /\ Before(q)
      BY Zenon DEF Before
    <2>3. ASSUME cur = q PROVE Past(q)
      <3>1. quorum # None
        BY <2>3, HandlerAssumption, Zenon
      <3>2. height \in Nat /\ q[1] = height \div Interval /\ Stage(height) # 0
        BY <1>0, <2>3, <3>1 DEF TypeOK, Contribute, Initialized
      <3>3. height \div Interval \in Nat
        BY <3>2, DivMod, HandlerAssumption, Zenon
      <3> QED BY <3>2, <3>3 DEF Past, Contribute, Initialized
    <2> QED BY <1>0, <2>1, <2>2, <2>3, Zenon DEF Once
  <1> QED BY <1>1, <1>2, Zenon DEF HandlerIInv

\* The contribution itself.
LEMMA StartPreserves ==
    ASSUME HandlerIInv, UNCHANGED tipVars, StartPhase
    PROVE  HandlerIInv'
  <1>0. TypeOK /\ height' = height /\ back' = back /\ cur' = cur
        /\ pc = "sleep" /\ pc' = "wait" /\ at' = at /\ at \in 0..Finalize
    BY Zenon DEF HandlerIInv, tipVars, StartPhase, GoTo, TypeOK
  <1>1. TypeOK'
    <2>1. AtFits'
      BY <1>0 DEF AtFits, TypeOK, Contribute, Initialized
    <2>2. contributed' = contributed \/ \E q : contributed' = [contributed EXCEPT ![q] = @ + 1]
      BY Zenon DEF StartPhase
    <2> QED BY <1>0, <2>1, <2>2, ThreadTypes, Zenon
  <1>2. ASSUME NEW q \in Quorums PROVE Once(q)'
    <2>1. Once(q) /\ (Past(q)' <=> Past(q)) /\ contributed[q] \in Nat /\ back \in Nat
      BY <1>0, SamePast, Zenon DEF HandlerIInv, TypeOK
    <2>2. CASE cur = q /\ at = Contribute
      <3>1. contributed'[q] = contributed[q] + 1
        BY <1>0, <2>2, Zenon DEF StartPhase, TypeOK
      <3>2. Before(q) /\ ~ Before(q)'
        BY <1>0, <2>2 DEF Before, Contribute, Initialized
      <3> QED BY <1>0, <2>1, <3>1, <3>2 DEF Once
    <2>3. CASE ~ (cur = q /\ at = Contribute)
      <3>1. contributed'[q] = contributed[q]
        BY <1>0, <2>3, Zenon DEF StartPhase, TypeOK
      <3>2. Before(q)' => pc' = "wait" /\ at = Initialized
        BY <1>0, Zenon DEF Before
      <3>3. at >= Contribute
        BY <1>0, Zenon DEF TypeOK, AtFits
      <3> QED BY <1>0, <2>1, <3>1, <3>2, <3>3 DEF Once, Contribute, Initialized
    <2> QED BY <2>2, <2>3, Zenon
  <1> QED BY <1>1, <1>2, Zenon DEF HandlerIInv

\* The inductive invariant of the handler (HandleDKGRound, WaitForNextPhase,
\* SleepBeforePhase and UpdatedBlockTip), for all lengths of rounds and phases.
THEOREM HandlerInvariant == Spec => []HandlerIInv
  <1>1. Init => HandlerIInv
    <2> SUFFICES ASSUME Init PROVE HandlerIInv
      BY Zenon
    <2>1. TypeOK
      BY DEF Init, TypeOK, AtFits, Finalize, Idle
    <2>2. ASSUME NEW q \in Quorums PROVE Once(q)
      BY DEF Init, Once, Before
    <2> QED BY <2>1, <2>2, Zenon DEF HandlerIInv
  <1>2. HandlerIInv /\ [Next]_vars => HandlerIInv'
    <2> SUFFICES ASSUME HandlerIInv, [Next]_vars PROVE HandlerIInv'
      BY Zenon
    <2>0. TypeOK
      BY Zenon DEF HandlerIInv
    <2>1. ASSUME NEW h \in 0..MaxHeight, NEW b \in Branches, UpdatedBlockTip(h, b)
          PROVE  HandlerIInv'
      BY <2>1, TipPreserves, Zenon
    <2>2. CASE PhaseHandlerThread
      <3>0. UNCHANGED tipVars
        BY <2>2, Zenon DEF PhaseHandlerThread
      <3>1. CASE RoundDue
        BY <3>0, <3>1, RoundPreserves, Zenon
      <3>2. ASSUME NEW ok \in BOOLEAN, InitNewQuorum(ok) PROVE HandlerIInv'
        BY <3>0, <3>2, RoundPreserves, Zenon
      <3>3. CASE WaitForNewQuorum \/ SleepBeforePhaseAborts
        BY <3>0, <3>3, QuietPreserves
        DEF WaitForNewQuorum, SleepBeforePhaseAborts, Abort, GoTo, history, AtFits, Finalize
      <3>4. CASE WaitForNextPhase
        <4>1. CASE Abort
          BY <3>0, <4>1, QuietPreserves DEF Abort, GoTo, history, AtFits, Finalize
        <4>2. CASE ~ Abort
          <5>1. /\ pc = "wait" /\ ~ AbortPhase /\ phase = at + 1
                /\ IF at < Commit THEN GoTo("phase", at + 1) ELSE GoTo("finalize", 0)
                /\ UNCHANGED <<cur, heightStart, history>>
            BY <3>4, <4>2, Zenon DEF WaitForNextPhase
          <5>2. at \in 0..Finalize /\ at >= Initialized
            BY <2>0, <5>1, Zenon DEF TypeOK, AtFits
          <5>3. CASE at = Initialized
            BY <3>0, <5>1, <5>3, EnterPreserves
            DEF AbortPhase, GoTo, history, Initialized, Contribute, Commit
          <5>4. CASE at # Initialized /\ at < Commit
            <6>1. /\ pc' = "phase" /\ at' = at + 1 /\ at' \in 0..Finalize
                  /\ at' \notin {Initialized, Contribute} /\ at' >= Contribute
              BY <5>1, <5>2, <5>4 DEF GoTo, Initialized, Contribute, Commit, Finalize
            <6> QED BY <3>0, <5>1, <6>1, QuietPreserves, Zenon DEF AtFits, history
          <5>5. CASE ~ (at < Commit)
            BY <3>0, <5>1, <5>5, QuietPreserves DEF GoTo, history, AtFits, Finalize
          <5> QED BY <5>3, <5>4, <5>5, Zenon DEF Initialized, Commit
        <4> QED BY <4>1, <4>2, Zenon
      <3>5. CASE HandlePhase
        <4>1. pc = "phase" /\ pc' = "sleep" /\ at' = at
          BY <3>5, Zenon DEF HandlePhase, GoTo
        <4>2. at \in 0..Finalize /\ AtFits'
          BY <2>0, <4>1, Zenon DEF TypeOK, AtFits
        <4> QED BY <3>0, <3>5, <4>1, <4>2, QuietPreserves, Zenon DEF HandlePhase, history
      <3>6. CASE StartPhase
        BY <3>0, <3>6, StartPreserves, Zenon
      <3>7. CASE FinalizeCommitments
        BY <3>0, <3>7, QuietPreserves
        DEF FinalizeCommitments, GoTo, AtFits, Finalize
      <3> QED
        BY <2>2, <3>1, <3>2, <3>3, <3>4, <3>5, <3>6, <3>7, Zenon DEF PhaseHandlerThread
    <2>3. CASE Restart
      <3>1. TypeOK'
        BY <2>0, <2>3 DEF Restart, GoTo, history, TypeOK, AtFits, Finalize, Idle
      <3>2. ASSUME NEW q \in Quorums PROVE Once(q)'
        <4>1. /\ contributed' = contributed /\ back' = back /\ height' = height
              /\ pc' = "idle" /\ phase' = Idle
          BY <2>3, Zenon DEF Restart, GoTo, history
        <4>2. (Past(q) => Past(q)') /\ ~ Before(q)' /\ Once(q)
          BY <4>1 DEF Past, Before, Stage, Idle, Initialized, HandlerIInv
        <4> QED BY <4>1, <4>2, Zenon DEF Once
      <3> QED BY <3>1, <3>2, Zenon DEF HandlerIInv
    <2>4. CASE UNCHANGED vars
      BY <2>4, Zenon DEF vars, HandlerIInv, TypeOK, AtFits, Once, Past, Before, Stage
    <2> QED BY <2>1, <2>2, <2>3, <2>4, Zenon DEF Next
  <1> QED BY <1>1, <1>2, PTL DEF Spec

\* A member contributes to a quorum once more at most for every time the chain went
\* back, whatever blocks are skipped or replaced and however often the node is restarted.
THEOREM ContributesOnceOnly == Spec => []ContributesOnce
  <1>1. HandlerIInv => ContributesOnce
    BY Zenon DEF HandlerIInv, Once, ContributesOnce
  <1> QED BY <1>1, HandlerInvariant, PTL
-----------------------------------------------------------------------------
(* The rounds that nothing disturbs.                                       *)

\* Quotient and rest are what the division gives.
LEMMA DivUnique ==
    ASSUME NEW I \in Nat \ {0}, NEW a \in Nat, NEW q \in Nat, NEW r \in 0..(I - 1),
           a = I * q + r
    PROVE  a \div I = q /\ a % I = r
  <1> DEFINE p == a \div I
             s == a % I
  <1>1. p \in Nat /\ s \in 0..(I - 1) /\ a = I * p + s
    BY DivMod, Zenon
  <1> HIDE DEF p, s
  <1>2. I * p \in Int /\ I * q \in Int
    BY <1>1
  <1>3. ASSUME p < q PROVE FALSE
    <2>1. I * (p + 1) <= I * q /\ I * (p + 1) = I * p + I
      BY <1>1, <1>3
    <2> QED BY <1>1, <1>2, <2>1
  <1>4. ASSUME q < p PROVE FALSE
    <2>1. I * (q + 1) <= I * p /\ I * (q + 1) = I * q + I
      BY <1>1, <1>4
    <2> QED BY <1>1, <1>2, <2>1
  <1>5. p = q
    BY <1>1, <1>3, <1>4
  <1>6. s = r
    BY <1>1, <1>2, <1>5
  <1> QED BY <1>5, <1>6, Zenon DEF p, s

\* The next block is in the same round, or the first one of the next.
LEMMA NextRest ==
    ASSUME NEW I \in Nat \ {0}, NEW a \in Nat
    PROVE  /\ (a + 1) % I = 0 => (a + 1) \div I = (a \div I) + 1
           /\ (a + 1) % I # 0 => (a + 1) \div I = a \div I /\ (a + 1) % I = (a % I) + 1
  <1> DEFINE p == a \div I
             r == a % I
  <1>1. p \in Nat /\ r \in 0..(I - 1) /\ a = I * p + r
    BY DivMod, Zenon
  <1> SUFFICES /\ (a + 1) % I = 0 => (a + 1) \div I = p + 1
               /\ (a + 1) % I # 0 => (a + 1) \div I = p /\ (a + 1) % I = r + 1
    BY Zenon
  <1> HIDE DEF p, r
  <1>2. I * p \in Int /\ I * (p + 1) = I * p + I
    BY <1>1
  <1>3. CASE r = I - 1
    <2>1. a + 1 = I * (p + 1) + 0 /\ p + 1 \in Nat /\ a + 1 \in Nat /\ 0 \in 0..(I - 1)
      BY <1>1, <1>2, <1>3
    <2>2. (a + 1) \div I = p + 1 /\ (a + 1) % I = 0
      BY <2>1, DivUnique, Zenon
    <2> QED BY <2>2, Zenon
  <1>4. CASE r # I - 1
    <2>1. a + 1 = I * p + (r + 1) /\ a + 1 \in Nat /\ r + 1 \in 0..(I - 1) /\ r + 1 # 0
      BY <1>1, <1>2, <1>4
    <2>2. (a + 1) \div I = p /\ (a + 1) % I = r + 1
      BY <1>1, <2>1, DivUnique, Zenon
    <2> QED BY <2>1, <2>2, Zenon
  <1> QED BY <1>3, <1>4, Zenon

\* The callback sees every phase of a round whose blocks come one by one: the next block
\* starts the next phase, or leaves the phase as it is.
LEMMA NextPhase ==
    ASSUME NEW h \in Nat, Stage(h + 1) # 0
    PROVE  /\ PhaseOf(h) \in 1..Idle
           /\ StartsPhase(h + 1) => /\ NewPhase(h + 1) = PhaseOf(h) + 1
                                    /\ PhaseOf(h + 1) = NewPhase(h + 1)
           /\ ~ StartsPhase(h + 1) => PhaseOf(h + 1) = PhaseOf(h)
  <1> DEFINE s == Stage(h)
             p == s \div PhaseBlocks
  <1>0. Interval \in Nat \ {0} /\ (h + 1) % Interval # 0
    BY HandlerAssumption, Zenon DEF Stage
  <1>1. s \in Nat /\ Stage(h + 1) = s + 1
    <2>1. h % Interval \in Nat
      BY <1>0, DivMod
    <2>2. (h + 1) % Interval = (h % Interval) + 1
      BY <1>0, NextRest, Zenon
    <2> QED BY <2>1, <2>2, Zenon DEF Stage
  <1> HIDE DEF s
  <1>2. p \in Nat
    BY <1>1, DivMod, HandlerAssumption, Zenon
  <1>3. /\ (s + 1) % PhaseBlocks = 0 => (s + 1) \div PhaseBlocks = p + 1
        /\ (s + 1) % PhaseBlocks # 0 => (s + 1) \div PhaseBlocks = p
    BY <1>1, NextRest, HandlerAssumption, Zenon
  <1>4. NewPhase(h) = p + 1 /\ NewPhase(h + 1) = ((s + 1) \div PhaseBlocks) + 1
        /\ (StartsPhase(h + 1) <=> (s + 1) % PhaseBlocks = 0 /\ NewPhase(h + 1) <= Idle)
    BY <1>1, Zenon DEF NewPhase, StartsPhase, s
  <1> HIDE DEF p
  <1> QED BY <1>2, <1>3, <1>4 DEF PhaseOf, Idle

\* The first block of a round finds a thread that waits wherever it may; any other one
\* that starts a phase finds it at the end of the phase before.
LEMMA TipKeepsStep ==
    ASSUME CalmIInv, NEW h \in 0..MaxHeight, NEW b \in Branches, UpdatedBlockTip(h, b), calm',
           TypeOK'
    PROVE  CalmIInv'
  <1>1. /\ h \in Nat /\ height' = h /\ quorum' = <<h \div Interval, b>>
        /\ phase' = IF StartsPhase(h) THEN NewPhase(h) ELSE phase
        /\ pc' = pc /\ at' = at /\ cur' = cur /\ finished' = finished
    BY HandlerAssumption DEF UpdatedBlockTip, history
  <1>s. /\ Stage(h) # 0 => calm /\ h = height + 1 /\ quorum' = quorum
        /\ StartsPhase(h) => Settled
    BY Zenon DEF UpdatedBlockTip
  <1>2. quorum' # None
    <2>0. h \in Nat /\ MaxHeight \in Nat /\ h <= MaxHeight /\ Interval \in Nat \ {0}
      BY HandlerAssumption
    <2>1. h \div Interval \in Nat /\ h \div Interval <= MaxHeight \div Interval
          /\ MaxHeight \div Interval \in Nat
      BY <2>0, DivMod, DivMono, Zenon
    <2>2. <<h \div Interval, b>> \in Quorums
      BY <2>1 DEF Quorums
    <2> QED BY <1>1, <2>2, HandlerAssumption, Zenon
  <1>3. CASE Stage(h) = 0
    <2>1. StartsPhase(h) /\ NewPhase(h) = Initialized
      BY <1>1, <1>3, FirstPhase, Zenon
    <2>2. phase' = Initialized /\ PhaseOf(h) = Initialized
      BY <1>1, <2>1 DEF PhaseOf, Initialized, Idle
    <2>3. InStep'
      BY <1>1, <1>s, <2>1, <2>2, Zenon DEF InStep, Settled
    <2> QED BY <1>1, <1>2, <2>2, <2>3, Zenon DEF CalmIInv, PhaseOf, NewPhase, Stage
  <1>4. CASE Stage(h) # 0
    <2>1. calm /\ h = height + 1 /\ quorum' = quorum /\ quorum # None
      BY <1>1, <1>s, <1>2, <1>4, Zenon
    <2>2. phase = PhaseOf(height) /\ InStep /\ height \in Nat
      BY <2>1, Zenon DEF CalmIInv, TypeOK
    <2>3. /\ phase \in 1..Idle
          /\ StartsPhase(h) => NewPhase(h) = phase + 1 /\ PhaseOf(h) = NewPhase(h)
          /\ ~ StartsPhase(h) => PhaseOf(h) = phase
      BY <1>4, <2>1, <2>2, NextPhase, Zenon
    <2>4. phase' = PhaseOf(h)
      BY <1>1, <2>3, Zenon
    <2>5. InStep'
      <3>1. CASE StartsPhase(h)
        <4>1. phase' = phase + 1 /\ phase' <= Idle
          BY <1>1, <2>3, <3>1, Zenon DEF StartsPhase
        <4>2. CASE pc = "idle"
          BY <1>1, <1>s, <2>1, <2>2, <2>3, <3>1, <4>1, <4>2
          DEF Settled, InStep, Initialized, Contribute, Commit, Finalize, Idle
        <4>3. CASE pc = "newquorum"
          BY <1>1, <1>s, <2>1, <3>1, <4>3, Zenon DEF Settled, InStep
        <4>4. CASE pc = "wait"
          <5>1. cur = quorum /\ at = phase
            BY <1>1, <1>s, <3>1, <4>4, Zenon DEF Settled
          <5>2. phase < Finalize
            BY <2>2, <4>4, <5>1
            DEF InStep, Initialized, Contribute, Commit, Finalize, Idle, TypeOK, CalmIInv
          <5> QED
            BY <1>1, <2>1, <2>3, <4>1, <4>4, <5>1, <5>2
            DEF InStep, Contribute, Finalize
        <4> QED BY <1>1, <1>s, <3>1, <4>2, <4>3, <4>4, Zenon DEF Settled
      <3>2. CASE ~ StartsPhase(h)
        <4>1. phase' = phase
          BY <1>1, <3>2, Zenon
        <4> QED BY <1>1, <2>1, <2>2, <4>1, Zenon DEF InStep
      <3> QED BY <3>1, <3>2, Zenon
    <2> QED BY <1>1, <1>2, <2>4, <2>5, Zenon DEF CalmIInv, PhaseOf, NewPhase, Stage
  <1> QED BY <1>3, <1>4, Zenon

\* The thread goes through the phases of a calm round, and aborts none: what it aborts
\* is the wait of a round before.
LEMMA ThreadKeepsStep ==
    ASSUME CalmIInv, PhaseHandlerThread, TypeOK'
    PROVE  CalmIInv'
  <1>1. /\ quorum' = quorum /\ phase' = phase /\ height' = height /\ calm' = calm
        /\ phase \in 1..Idle /\ at \in 0..Finalize /\ AtFits
        /\ quorum = None => phase = Idle /\ pc # "init"
    BY Zenon DEF PhaseHandlerThread, tipVars, CalmIInv, TypeOK
  <1>2. CASE ~ calm
    BY <1>1, <1>2, Zenon DEF CalmIInv
  <1>3. CASE calm /\ quorum = None
    BY <1>1, <1>3 DEF CalmIInv, PhaseHandlerThread, RoundDue, InitNewQuorum, WaitForNewQuorum,
        WaitForNextPhase, HandlePhase, StartPhase, SleepBeforePhaseAborts, FinalizeCommitments,
        Initialized, Idle
  <1>4. CASE calm /\ quorum # None
    <2>1. phase = PhaseOf(height) /\ InStep
      BY <1>4, Zenon DEF CalmIInv
    <2> SUFFICES InStep'
      BY <1>1, <1>4, <2>1, Zenon DEF CalmIInv, PhaseOf, NewPhase, Stage
    <2>2. CASE RoundDue
      BY <1>1, <2>2, Zenon DEF RoundDue, GoTo, InStep
    <2>3. ASSUME NEW ok \in BOOLEAN, InitNewQuorum(ok) PROVE InStep'
      <3>1. phase = Initialized
        BY <2>1, <2>3, Zenon DEF InStep, InitNewQuorum
      <3> QED BY <1>1, <2>3, <3>1, Zenon DEF InitNewQuorum, GoTo, InStep
    <2>4. CASE WaitForNewQuorum
      <3>1. phase = Initialized
        BY <2>1, <2>4, Zenon DEF InStep, WaitForNewQuorum
      <3> QED BY <1>1, <2>4, <3>1, Zenon DEF WaitForNewQuorum, Abort, GoTo, InStep
    <2>5. CASE WaitForNextPhase
      <3>1. pc = "wait" /\ at >= 1
        BY <1>1, <2>5, Zenon DEF WaitForNextPhase, AtFits, Initialized
      <3>2. CASE phase = Initialized
        <4>1. pc' = "idle"
          BY <1>1, <2>5, <3>1, <3>2 DEF WaitForNextPhase, Abort, GoTo, Initialized
        <4> QED BY <1>1, <3>2, <4>1, Zenon DEF InStep
      <3>3. CASE phase # Initialized
        <4>1. cur = quorum /\ at \in {phase, phase - 1} /\ phase \in Contribute..Finalize
              /\ (at = phase => phase \in Contribute..Commit)
          BY <1>1, <2>1, <3>1, <3>3 DEF InStep, Initialized, Contribute, Commit, Finalize, Idle
        <4>2. ~ AbortPhase
          BY <1>1, <4>1 DEF AbortPhase
        <4>3. /\ phase = at + 1 /\ cur' = cur
              /\ IF at < Commit THEN GoTo("phase", at + 1) ELSE GoTo("finalize", 0)
          BY <2>5, <4>2, Zenon DEF WaitForNextPhase
        <4> QED
          BY <1>1, <4>1, <4>3 DEF InStep, GoTo, Contribute, Commit, Finalize
      <3> QED BY <3>2, <3>3, Zenon
    <2>6. CASE HandlePhase
      <3>1. phase \in Contribute..Commit /\ cur = quorum /\ at = phase
        BY <2>1, <2>6, Zenon DEF InStep, HandlePhase
      <3> QED BY <1>1, <2>6, <3>1, Zenon DEF HandlePhase, GoTo, InStep
    <2>7. CASE StartPhase
      <3>1. phase \in Contribute..Commit /\ cur = quorum /\ at = phase
        BY <2>1, <2>7, Zenon DEF InStep, StartPhase
      <3> QED BY <1>1, <2>7, <3>1, Zenon DEF StartPhase, GoTo, InStep
    <2>8. CASE SleepBeforePhaseAborts
      BY <2>1, <2>8, Zenon DEF InStep, SleepBeforePhaseAborts
    <2>9. CASE FinalizeCommitments
      <3>1. phase = Finalize /\ cur = quorum
        BY <2>1, <2>9, Zenon DEF InStep, FinalizeCommitments
      <3> QED BY <1>1, <2>9, <3>1, Zenon DEF FinalizeCommitments, GoTo, InStep
    <2> QED
      BY <2>2, <2>3, <2>4, <2>5, <2>6, <2>7, <2>8, <2>9, Zenon DEF PhaseHandlerThread
  <1> QED BY <1>2, <1>3, <1>4, Zenon

\* While blocks come one by one to a thread that keeps up, HandleDKGRound is in the
\* phase that UpdatedBlockTip has set, or at the entry to it.
THEOREM CalmInvariant == Spec => []CalmIInv
  <1>1. Init => CalmIInv
    BY DEF Init, CalmIInv, TypeOK, AtFits, Finalize, Idle
  <1>2. CalmIInv /\ HandlerIInv' /\ [Next]_vars => CalmIInv'
    <2> SUFFICES ASSUME CalmIInv, HandlerIInv', [Next]_vars PROVE CalmIInv'
      BY Zenon
    <2>0. TypeOK'
      BY Zenon DEF HandlerIInv
    <2>1. ASSUME NEW h \in 0..MaxHeight, NEW b \in Branches, UpdatedBlockTip(h, b)
          PROVE  CalmIInv'
      <3>1. CASE calm'
        BY <2>0, <2>1, <3>1, TipKeepsStep, Zenon
      <3>2. CASE ~ calm'
        BY <2>0, <3>2, Zenon DEF CalmIInv
      <3> QED BY <3>1, <3>2, Zenon
    <2>2. CASE PhaseHandlerThread
      BY <2>0, <2>2, ThreadKeepsStep, Zenon
    <2>3. CASE Restart
      BY <2>0, <2>3, Zenon DEF Restart, CalmIInv
    <2>4. CASE UNCHANGED vars
      BY <2>0, <2>4, Zenon DEF vars, CalmIInv, InStep, PhaseOf, NewPhase, Stage
    <2> QED BY <2>1, <2>2, <2>3, <2>4, Zenon DEF Next
  <1> QED BY <1>1, <1>2, HandlerInvariant, PTL DEF Spec

\* A round whose blocks come one by one, on one branch, to a thread that keeps up ends
\* with a session that is finished: HandleDKGRound leaves it by no exception.
THEOREM CalmRoundsFinish == Spec => []CalmRoundFinishes
  <1>1. CalmIInv => CalmRoundFinishes
    <2> SUFFICES ASSUME CalmIInv, calm, phase = Idle, pc # "newquorum"
                 PROVE  finished = quorum
      BY Zenon DEF CalmRoundFinishes
    <2>1. CASE quorum = None
      BY <2>1, Zenon DEF CalmIInv
    <2>2. CASE quorum # None
      BY <2>2 DEF CalmIInv, InStep, Initialized, Contribute, Commit, Finalize, Idle
    <2> QED BY <2>1, <2>2, Zenon
  <1> QED BY <1>1, CalmInvariant, PTL
=============================================================================
