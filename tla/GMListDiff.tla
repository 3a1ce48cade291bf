---------------------------- MODULE GMListDiff ----------------------------
(***************************************************************************)
(* CDeterministicGMListDiff: what is stored of the list of a block is how  *)
(* it differs from the list of the parent (BuildDiff), and reading it      *)
(* applies the differences again, gamemaster by gamemaster (ApplyDiff).    *)
(***************************************************************************)
EXTENDS GMList

Ext == INSTANCE SequencesExt

\* CDeterministicGMStateDiff: the fields that differ, with their new values.
StateDiff(from, to) ==
    [f \in {g \in DOMAIN from : from[g] # to[g]} |-> to[f]]
ApplyToState(d, st) == [f \in DOMAIN st |-> IF f \in DOMAIN d THEN d[f] ELSE st[f]]

BuildDiff(from, to) ==
    LET both == DOMAIN from.gmMap \cap DOMAIN to.gmMap
        diff(h) == StateDiff(from.gmMap[h].state, to.gmMap[h].state)
        changed == {h \in both : DOMAIN diff(h) # {}}
    IN  [added |-> Ext!SetToSortSeq({to.gmMap[h] : h \in DOMAIN to.gmMap \ both},
                                    LAMBDA g, k : g.id < k.id),
         updated |-> [id \in {to.gmMap[h].id : h \in changed} |->
                        diff(CHOOSE h \in changed : to.gmMap[h].id = id)],
         removed |-> {from.gmMap[h].id : h \in DOMAIN from.gmMap \ both}]

HasChanges(d) == d.added # << >> \/ DOMAIN d.updated # {} \/ d.removed # {}

RemoveById(l, id) ==
    IF ~Ok(l) THEN l
    ELSE IF IdOf(l, id) = {} THEN Fail(l, "throw")
    ELSE RemoveGM(l, CHOOSE h \in IdOf(l, id) : TRUE)

UpdateById(l, id, d) ==
    IF ~Ok(l) THEN l
    ELSE IF IdOf(l, id) = {} THEN Fail(l, "abort")
    ELSE LET h == CHOOSE h \in IdOf(l, id) : TRUE
         IN  UpdateGM(l, h, ApplyToState(d, l.gmMap[h].state))

ApplyDiff(l, height, d) ==
    LET sorted(ids) == Ext!SetToSortSeq(ids, <)
        removed == FoldInOrder(RemoveById, [l EXCEPT !.height = height], sorted(d.removed))
        added == FoldInOrder(LAMBDA m, g : AddGM(m, g, TRUE), removed, d.added)
    IN  FoldInOrder(LAMBDA m, id : UpdateById(m, id, d.updated[id]), added,
                    sorted(DOMAIN d.updated))
=============================================================================
