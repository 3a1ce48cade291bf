--------------------------- MODULE QuorumDecision ---------------------------
(***************************************************************************)
(* What threshold signing promises, without votes, shares or time: a       *)
(* quorum decides at most one message per id and never changes its mind; a *)
(* node keeps at most one decision per id, only of a quorum that made it,  *)
(* and may forget it.                                                      *)
(***************************************************************************)
CONSTANTS Keepers, Ids, Msgs, Quorums, NoMsg, NoSig

VARIABLES
    decided,    \* decided[q][id]: the message q has decided on, or NoMsg
    kept        \* kept[n][id]: the decision node n keeps, or NoSig

vars == <<decided, kept>>

Init ==
    /\ decided = [q \in Quorums |-> [id \in Ids |-> NoMsg]]
    /\ kept = [n \in Keepers |-> [id \in Ids |-> NoSig]]

Decide(q, id, msg) ==
    /\ decided[q][id] = NoMsg
    /\ decided' = [decided EXCEPT ![q][id] = msg]
    /\ UNCHANGED kept

Keep(n, q, id) ==
    /\ decided[q][id] # NoMsg
    /\ kept[n][id] = NoSig
    /\ kept' = [kept EXCEPT ![n][id] =
                  [quorum |-> q, id |-> id, msg |-> decided[q][id]]]
    /\ UNCHANGED decided

Forget(n, old) ==
    /\ kept' = [kept EXCEPT ![n] =
                  [id \in Ids |-> IF id \in old THEN NoSig ELSE @[id]]]
    /\ UNCHANGED decided

Next ==
    \/ \E q \in Quorums, id \in Ids, msg \in Msgs : Decide(q, id, msg)
    \/ \E n \in Keepers, q \in Quorums, id \in Ids : Keep(n, q, id)
    \/ \E n \in Keepers, old \in SUBSET Ids : Forget(n, old)

Spec == Init /\ [][Next]_vars

=============================================================================
