------------------------------- MODULE GMList -------------------------------
(***************************************************************************)
(* The deterministic gamemaster list: CDeterministicGMList, the special    *)
(* transactions that change it and the list a block makes of the list of   *)
(* its parent (evo/deterministicgms.cpp, evo/specialtx_validation.cpp), as *)
(* operators.                                                              *)
(*                                                                         *)
(* A list is [gmMap, props, total, height, err]: the gamemasters by        *)
(* proTxHash, the unique properties with their holder and reference count, *)
(* nTotalRegisteredCount, nHeight, and how building it ended: "none";      *)
(* "reject" (the block is invalid), "throw" (std::runtime_error), "abort"  *)
(* (a failed assertion).  An operation on a list that has failed returns   *)
(* it as it is.                                                            *)
(*                                                                         *)
(* Abstractions.  A proTxHash is a number, so that hashes have an order.   *)
(* The voting key, the payout scripts, the operator reward and the         *)
(* revocation reason are left out, and with them the payload checks that   *)
(* read nothing else: transactions here pass CheckSpecialTxNoContext and   *)
(* the owner's signature verifies.  The legacy gamemaster list is obsolete *)
(* (SPORK_21).  A quorum has room for all confirmed gamemasters.           *)
(***************************************************************************)
EXTENDS Integers, Sequences, FiniteSets, FiniteSetsExt

CONSTANTS
    Null,           \* CService(), CBLSPublicKey()
    MinConf         \* GamemasterCollateralMinConf

Never == -1         \* the height of what has not happened

\* Of SequencesExt, whose other definitions the proofs need not carry along.
Front(s) == SubSeq(s, 1, Len(s) - 1)
Last(s) == s[Len(s)]
FoldInOrder(op(_, _), base, s) ==
    MapThenFoldSet(LAMBDA x, y : op(y, x), base, LAMBDA i : s[i], LAMBDA S : Max(S), DOMAIN s)

Put(f, k, v) == [x \in DOMAIN f \cup {k} |-> IF x = k THEN v ELSE f[x]]
Drop(f, k) == [x \in DOMAIN f \ {k} |-> f[x]]

Empty == [x \in {} |-> Null]
EmptyList == [gmMap |-> Empty, props |-> Empty, total |-> 0, height |-> Never,
              err |-> "none"]

Ok(l) == l.err = "none"
Fail(l, how) == [l EXCEPT !.err = how]

IsPoSeBanned(g) == g.state.banHeight # Never
HasGM(l, h) == h \in DOMAIN l.gmMap
ValidGMs(l) == {h \in DOMAIN l.gmMap : ~IsPoSeBanned(l.gmMap[h])}
-----------------------------------------------------------------------------
(* Unique properties: <<kind, value>>, so that values of two kinds never   *)
(* have the same hash.                                                     *)

HasUniqueProperty(l, p) == p \in DOMAIN l.props
HeldByOther(l, p, h) == HasUniqueProperty(l, p) /\ l.props[p].gm # h

AddUniqueProperty(l, h, p) ==
    IF ~Ok(l) THEN l
    ELSE IF p[2] = Null \/ HeldByOther(l, p, h) THEN Fail(l, "abort")
    ELSE LET n == IF HasUniqueProperty(l, p) THEN l.props[p].n + 1 ELSE 1
         IN  [l EXCEPT !.props = Put(@, p, [gm |-> h, n |-> n])]

DeleteUniqueProperty(l, h, p) ==
    IF ~Ok(l) THEN l
    ELSE IF p[2] = Null \/ ~HasUniqueProperty(l, p) \/ HeldByOther(l, p, h)
    THEN Fail(l, "abort")
    ELSE IF l.props[p].n = 1 THEN [l EXCEPT !.props = Drop(@, p)]
    ELSE [l EXCEPT !.props = Put(@, p, [gm |-> h, n |-> l.props[p].n - 1])]

UpdateUniqueProperty(l, h, old, new) ==
    LET removed == IF old[2] = Null THEN l ELSE DeleteUniqueProperty(l, h, old)
    IN  IF old = new THEN l
        ELSE IF new[2] = Null THEN removed ELSE AddUniqueProperty(removed, h, new)

Collateral(g) == <<"collateral", g.collateral>>
Addr(st) == <<"addr", st.addr>>
Owner(st) == <<"owner", st.owner>>
Operator(st) == <<"operator", st.operator>>
-----------------------------------------------------------------------------
(* The operations on a list.                                               *)

IdOf(l, id) == {h \in DOMAIN l.gmMap : l.gmMap[h].id = id}

\* bump: fBumpTotalCount
AddGM(l, g, bump) ==
    LET st == g.state
        duplicate == \/ HasGM(l, g.hash) \/ IdOf(l, g.id) # {}
                     \/ HasUniqueProperty(l, Addr(st))
                     \/ HasUniqueProperty(l, Owner(st))
                     \/ HasUniqueProperty(l, Operator(st))
        l0 == [l EXCEPT !.gmMap = Put(@, g.hash, g)]
        l1 == AddUniqueProperty(l0, g.hash, Collateral(g))
        l2 == IF st.addr = Null THEN l1 ELSE AddUniqueProperty(l1, g.hash, Addr(st))
        l3 == AddUniqueProperty(l2, g.hash, Owner(st))
        l4 == AddUniqueProperty(l3, g.hash, Operator(st))
    IN  IF ~Ok(l) THEN l
        ELSE IF duplicate THEN Fail(l, "throw")
        ELSE IF bump /\ g.id >= l.total THEN [l4 EXCEPT !.total = g.id + 1] ELSE l4

\* Mutant: the operator key keeps its old entry.
UpdateGM_KeepsOperator(l, h, st) ==
    LET old == l.gmMap[h].state
        l0 == [l EXCEPT !.gmMap = Put(@, h, [@[h] EXCEPT !.state = st])]
        l1 == UpdateUniqueProperty(l0, h, Addr(old), Addr(st))
    IN  IF ~Ok(l) THEN l
        ELSE IF ~HasGM(l, h) THEN Fail(l, "throw")
        ELSE IF HeldByOther(l, Addr(old), h) THEN Fail(l, "throw")
        ELSE UpdateUniqueProperty(l1, h, Owner(old), Owner(st))

UpdateGM(l, h, st) ==
    LET old == l.gmMap[h].state
        l0 == [l EXCEPT !.gmMap = Put(@, h, [@[h] EXCEPT !.state = st])]
        l1 == UpdateUniqueProperty(l0, h, Addr(old), Addr(st))
        l2 == UpdateUniqueProperty(l1, h, Owner(old), Owner(st))
    IN  IF ~Ok(l) THEN l
        ELSE IF ~HasGM(l, h) THEN Fail(l, "throw")
        ELSE IF HeldByOther(l, Addr(old), h) THEN Fail(l, "throw")
        ELSE UpdateUniqueProperty(l2, h, Operator(old), Operator(st))

RemoveGM(l, h) ==
    LET g == l.gmMap[h]
        l1 == DeleteUniqueProperty(l, h, Collateral(g))
        l2 == IF g.state.addr = Null THEN l1
              ELSE DeleteUniqueProperty(l1, h, Addr(g.state))
        l3 == DeleteUniqueProperty(l2, h, Owner(g.state))
        l4 == DeleteUniqueProperty(l3, h, Operator(g.state))
    IN  IF ~Ok(l) THEN l
        ELSE IF ~HasGM(l, h) THEN Fail(l, "throw")
        ELSE [l4 EXCEPT !.gmMap = Drop(@, h)]

\* Reading a list that was serialised: the map, then every AddGM again.
Unserialize(l) ==
    FoldSet(LAMBDA h, m : AddGM(m, l.gmMap[h], FALSE),
            [EmptyList EXCEPT !.total = l.total, !.height = l.height],
            DOMAIN l.gmMap)
-----------------------------------------------------------------------------
(* Proof of service and payments.                                          *)

CalcMaxPoSePenalty(l) == Max({100, Cardinality(DOMAIN l.gmMap)})
CalcPenalty(l, percent) == (CalcMaxPoSePenalty(l) * percent) \div 100

PoSePunish(l, h, penalty) ==
    LET st == l.gmMap[h].state
        sum == Min({CalcMaxPoSePenalty(l), st.penalty + penalty})
        bans == sum >= CalcMaxPoSePenalty(l) /\ st.banHeight = Never
    IN  IF ~Ok(l) THEN l
        ELSE UpdateGM(l, h, [st EXCEPT !.penalty = sum,
                                       !.banHeight = IF bans THEN l.height ELSE @])

DecreasePoSePenalties(l) ==
    FoldSet(LAMBDA h, m : UpdateGM(m, h, [m.gmMap[h].state EXCEPT !.penalty = @ - 1]),
            l, {h \in ValidGMs(l) : l.gmMap[h].state.penalty > 0})

\* Mutant: the height of a revival counts after later payments, too.
LastPaidHeight_Revived(st) ==
    IF st.revivedHeight # Never THEN st.revivedHeight
    ELSE IF st.lastPaidHeight = 0 THEN st.registeredHeight ELSE st.lastPaidHeight

\* CompareByLastPaidGetHeight
LastPaidHeight(st) ==
    IF st.revivedHeight # Never /\ st.revivedHeight > st.lastPaidHeight
    THEN st.revivedHeight
    ELSE IF st.lastPaidHeight = 0 THEN st.registeredHeight ELSE st.lastPaidHeight

CompareByLastPaid(l, h, k) ==
    LET hh == LastPaidHeight(l.gmMap[h].state)
        kh == LastPaidHeight(l.gmMap[k].state)
    IN  IF hh = kh THEN h < k ELSE hh < kh

\* GetGMPayee: the set of the payee, empty if no gamemaster is valid.
GetGMPayee(l) ==
    {h \in ValidGMs(l) : \A k \in ValidGMs(l) \ {h} : CompareByLastPaid(l, h, k)}

\* CalculateQuorum, as a set.
CalculateQuorum(l) == {h \in ValidGMs(l) : l.gmMap[h].state.confirmed}
-----------------------------------------------------------------------------
\* The unique properties of a gamemaster: the values it has.
PropertiesOf(g) ==
    {p \in {Collateral(g), Addr(g.state), Owner(g.state), Operator(g.state)} :
        p[2] # Null}

\* The property map is exactly what the gamemasters of the list imply.
PropertiesExact(l) ==
    /\ \A h \in DOMAIN l.gmMap : \A p \in PropertiesOf(l.gmMap[h]) :
            HasUniqueProperty(l, p) /\ l.props[p] = [gm |-> h, n |-> 1]
    /\ \A p \in DOMAIN l.props : \E h \in DOMAIN l.gmMap : p \in PropertiesOf(l.gmMap[h])
=============================================================================
