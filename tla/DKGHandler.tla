----------------------------- MODULE DKGHandler -----------------------------
(***************************************************************************)
(* The handler of the key generation sessions of one node                  *)
(* (CDKGSessionHandler, llmq/quorums_dkgsessionhandler.cpp): the callback  *)
(* that derives the phase from the tip, and the thread that polls it and   *)
(* leads one session after the other through its phases.                   *)
(*                                                                         *)
(* The tip moves as the callbacks report it: only the last block of those  *)
(* connected together is reported, a reorganisation may replace the block  *)
(* that names the quorum, and the chain may become shorter (a block is     *)
(* invalidated, or a crash lost it), which back counts.  The thread is     *)
(* between two of its polls in every state.  What the session does in a    *)
(* phase is in module DKG; here it counts the contributions it sends.  The *)
(* node is a member of every quorum: another one polls the same way, and   *)
(* its phases begin with nothing to send.                                  *)
(***************************************************************************)
EXTENDS Integers

CONSTANTS
    Interval, PhaseBlocks,  \* params.dkgInterval, params.dkgPhaseBlocks
    Branches,               \* versions of the block a quorum is named after
    None,                   \* the null hash
    MaxHeight, MaxBack      \* bounds

Quorums == (0..(MaxHeight \div Interval)) \X Branches

ASSUME HandlerAssumption ==
    /\ PhaseBlocks \in Nat \ {0} /\ Interval \in Nat \ {0}
    /\ Interval > 6 * PhaseBlocks
    /\ MaxHeight \in Nat /\ MaxBack \in Nat
    /\ None \notin Quorums

VARIABLES
    height, quorum, phase,  \* currentHeight, quorumHash, phase
    pc, at,                 \* where the thread is, and the phase it handles
    cur,                    \* curQuorumHash of HandleDKGRound
    heightStart,            \* of SleepBeforePhase
    contributed,            \* contributed[q]: contributions sent for quorum q
    finished,               \* the last quorum whose session reached its end
    back,                   \* how often the chain became shorter
    calm                    \* nothing has disturbed this round

vars == <<height, quorum, phase, pc, at, cur, heightStart, contributed, finished,
          back, calm>>

tipVars == <<height, quorum, phase, back, calm>>
history == <<contributed, finished>>

\* QuorumPhase
Initialized == 1
Contribute == 2
Complain == 3
Justify == 4
Commit == 5
Finalize == 6
Idle == 7
-----------------------------------------------------------------------------
(* The callback.                                                           *)

Stage(h) == h % Interval
NewPhase(h) == Stage(h) \div PhaseBlocks + 1
StartsPhase(h) == Stage(h) % PhaseBlocks = 0 /\ NewPhase(h) <= Idle

\* The thread waits for a block: no poll of it would end now.
Settled ==
    \/ pc = "idle" /\ phase # Initialized
    \/ pc = "newquorum" /\ quorum = cur
    \/ pc = "wait" /\ quorum = cur /\ phase = at

\* The tip moves to block h, on the branch of a quorum block b.  A round is calm whose
\* blocks come one by one, on the same branch, to a thread that keeps up.
UpdatedBlockTip(h, b) ==
    /\ h # height \/ <<h \div Interval, b>> # quorum
    /\ back + (IF h < height THEN 1 ELSE 0) <= MaxBack
    /\ height' = h
    /\ quorum' = <<h \div Interval, b>>
    /\ phase' = IF StartsPhase(h) THEN NewPhase(h) ELSE phase
    /\ back' = back + (IF h < height THEN 1 ELSE 0)
    /\ calm' = /\ Stage(h) # 0 => calm /\ h = height + 1 /\ quorum' = quorum
               /\ StartsPhase(h) => Settled
    /\ UNCHANGED <<pc, at, cur, heightStart, history>>
-----------------------------------------------------------------------------
(* The thread.                                                             *)

GoTo(p, a) == pc' = p /\ at' = a

\* AbortPhaseException: PhaseHandlerThread begins the next round.
Abort ==
    /\ GoTo("idle", 0)
    /\ heightStart' = -1
    /\ UNCHANGED <<cur, history>>

\* Mutant: a round that is under way is taken up as well.
RoundDueLate ==
    /\ pc = "idle" /\ phase \in {Initialized, Contribute}
    /\ GoTo("init", 0)
    /\ UNCHANGED <<cur, heightStart, history>>

\* The poll of WaitForNextPhase has seen the first phase.
RoundDue ==
    /\ pc = "idle" /\ phase = Initialized
    /\ GoTo("init", 0)
    /\ UNCHANGED <<cur, heightStart, history>>

\* HandleDKGRound reads the quorum in a step of its own; InitNewQuorum may fail.
InitNewQuorum(ok) ==
    /\ pc = "init"
    /\ cur' = quorum
    /\ IF ok THEN GoTo("wait", Initialized) ELSE GoTo("newquorum", 0)
    /\ UNCHANGED <<heightStart, history>>

WaitForNewQuorum ==
    /\ pc = "newquorum" /\ quorum # cur
    /\ Abort

\* Mutant: the next phase is looked for after the check for a change.
AbortOnChange == quorum # cur \/ phase # at

\* Mutant: the wait does not watch the quorum.
AbortUnwatched == phase \notin {at, at + 1}

\* WaitForNextPhase of the phase at, for the quorum cur.
AbortPhase == quorum # cur \/ phase \notin {at, at + 1}

WaitForNextPhase ==
    /\ pc = "wait"
    /\ \/ AbortPhase /\ Abort
       \/ /\ ~ AbortPhase /\ phase = at + 1
          /\ IF at < Commit THEN GoTo("phase", at + 1) ELSE GoTo("finalize", 0)
          /\ UNCHANGED <<cur, heightStart, history>>

HandlePhase ==
    /\ pc = "phase"
    /\ heightStart' = height
    /\ GoTo("sleep", at)
    /\ UNCHANGED <<cur, history>>

\* SleepBeforePhase is over: in time, or as soon as a block comes in (it sleeps for
\* less than a block's time).  The function that starts the phase runs.
StartPhase ==
    /\ pc = "sleep"
    /\ contributed' = IF at = Contribute
                      THEN [contributed EXCEPT ![cur] = @ + 1] ELSE contributed
    /\ GoTo("wait", at)
    /\ heightStart' = -1
    /\ UNCHANGED <<cur, finished>>

SleepBeforePhaseAborts ==
    /\ pc = "sleep"
    /\ height <= heightStart
    /\ phase # at \/ quorum # cur
    /\ Abort

FinalizeCommitments ==
    /\ pc = "finalize"
    /\ finished' = cur
    /\ GoTo("idle", 0)
    /\ UNCHANGED <<cur, heightStart, contributed>>

PhaseHandlerThread ==
    /\ \/ RoundDue
       \/ \E ok \in BOOLEAN : InitNewQuorum(ok)
       \/ WaitForNewQuorum
       \/ WaitForNextPhase
       \/ HandlePhase
       \/ StartPhase
       \/ SleepBeforePhaseAborts
       \/ FinalizeCommitments
    /\ UNCHANGED tipVars

\* The node is started again: the handler knows nothing until the next block.  (height
\* is not read before that.)
Restart ==
    /\ quorum' = None /\ phase' = Idle
    /\ GoTo("idle", 0) /\ cur' = None /\ heightStart' = -1
    /\ calm' = FALSE
    /\ UNCHANGED <<height, back, history>>
-----------------------------------------------------------------------------
Init ==
    /\ height = -1 /\ quorum = None /\ phase = Idle
    /\ pc = "idle" /\ at = 0 /\ cur = None /\ heightStart = -1
    /\ contributed = [q \in Quorums |-> 0]
    /\ finished = None
    /\ back = 0 /\ calm = TRUE

Next ==
    \/ \E h \in 0..MaxHeight, b \in Branches : UpdatedBlockTip(h, b)
    \/ PhaseHandlerThread
    \/ Restart

Spec == Init /\ [][Next]_vars
FairSpec == Spec /\ WF_vars(PhaseHandlerThread)
-----------------------------------------------------------------------------
\* A member contributes once to a quorum, however blocks are skipped or replaced, rounds
\* are aborted or the node is restarted, unless the chain itself went back: a second
\* contribution, with other keys, would make it bad for all other members.
ContributesOnce == \A q \in Quorums : contributed[q] <= 1 + back

\* A round that is not disturbed comes to its end: an abort needs a block that starts a
\* phase to be skipped or replaced, or a thread that is late.
CalmRoundFinishes == calm /\ phase = Idle /\ pc # "newquorum" => finished = quorum

\* When the block of a quorum is the tip, and stays so, the thread takes up its session,
\* whatever it was doing: no wait for an earlier quorum or phase lasts.
FollowsTip ==
    \A q \in Quorums :
        (quorum = q /\ phase = Initialized) ~> (cur = q \/ quorum # q \/ phase # Initialized)

\* The thread may contribute to quorum q without beginning another round.
Before(q) ==
    /\ cur = q
    /\ \/ pc = "wait" /\ at = Initialized
       \/ pc \in {"phase", "sleep"} /\ at = Contribute

\* No block that starts the round of q can come, unless the chain goes back.
Past(q) ==
    /\ height \in Nat /\ height \div Interval >= q[1]
    /\ Stage(height) = 0 \/ phase = Initialized => height \div Interval > q[1]

AtFits ==
    /\ pc = "wait" => at >= Initialized
    /\ pc \in {"phase", "sleep"} => at >= Contribute

TypeOK ==
    /\ height \in Int /\ back \in Nat /\ at \in 0..Finalize /\ phase \in 1..Idle
    /\ AtFits
    /\ contributed = [q \in Quorums |-> contributed[q]]
    /\ \A q \in Quorums : contributed[q] \in Nat
    /\ quorum = None => phase = Idle /\ pc # "init"
    /\ quorum # None =>
        /\ quorum \in Quorums /\ height \in Nat /\ quorum[1] = height \div Interval
        /\ Stage(height) = 0 => phase = Initialized

\* A thread that has contributed as often as the chain allows is past the round of q,
\* wherever it goes on.
Once(q) ==
    /\ contributed[q] <= 1 + back
    /\ contributed[q] = 1 + back =>
        /\ Past(q) /\ ~ Before(q)
        /\ pc = "init" => height \div Interval > q[1]
    /\ contributed[q] = back /\ Before(q) /\ pc # "wait" => Past(q)

\* The inductive invariant of ContributesOnce: what the heights a thread has seen
\* (UpdatedBlockTip) imply for the rounds it may still begin (HandleDKGRound).
HandlerIInv == TypeOK /\ \A q \in Quorums : Once(q)

\* The phase of the tip, in a round whose blocks have all been seen.
PhaseOf(h) == IF NewPhase(h) <= Idle THEN NewPhase(h) ELSE Idle

\* Where the thread may be in a calm round: in the first phase, wherever it waited for
\* the round before; in a phase that has begun, in that phase or at its entry; and
\* after the last one at rest, with the round finished.
InStep ==
    \/ phase = Initialized /\ pc \in {"idle", "init", "wait", "newquorum"}
    \/ pc = "newquorum" /\ cur = quorum
    \/ phase \in Contribute..Finalize /\ pc = "wait" /\ cur = quorum /\ at = phase - 1
    \/ phase \in Contribute..Commit /\ pc \in {"phase", "sleep", "wait"} /\ cur = quorum
        /\ at = phase
    \/ phase = Finalize /\ pc = "finalize" /\ cur = quorum
    \/ phase \in {Finalize, Idle} /\ pc = "idle" /\ finished = quorum

\* The inductive invariant of CalmRoundFinishes: the thread (HandleDKGRound) keeps step
\* with the phases that the callback (UpdatedBlockTip) derives from the tip.
CalmIInv ==
    /\ TypeOK
    /\ calm /\ quorum = None => pc = "idle" /\ finished = None
    /\ calm /\ quorum # None => phase = PhaseOf(height) /\ InStep
=============================================================================
