------------------------------ MODULE GMBlock ------------------------------
(***************************************************************************)
(* What a block does to the gamemaster list: the special transactions, the *)
(* checks against the list of the previous block (CheckSpecialTx), and     *)
(* BuildNewListFromBlock.                                                  *)
(*                                                                         *)
(* A block is named by the transactions of the chain up to it: block b is  *)
(* a sequence of indices into Contents, its parent is Front(b), its height *)
(* is Len(b), and << >> is the block before v6 activation.                 *)
(***************************************************************************)
EXTENDS GMList

CONSTANTS
    Contents,       \* the sequences of transactions that blocks may have
    DkgInterval,
    Start           \* the chain at first

ASSUME GMAssumption ==
    /\ Start \in Seq(DOMAIN Contents)
    /\ MinConf \in Nat /\ DkgInterval \in Nat \ {0}

\* The transactions pass CheckSpecialTxNoContext, and a hash identifies its
\* registration.
ASSUME ContentsAssumption ==
    LET all == UNION {Range(Contents[c]) : c \in DOMAIN Contents}
    IN  /\ \A c \in DOMAIN Contents : Contents[c] \in Seq(all)
        /\ \A tx \in all : /\ IsFiniteSet(tx.spends)
                           /\ tx.type = "PROREG" => tx.hash \in Nat
                           /\ tx.type = "PROUPSERV" => tx.addr # Null
        /\ \A tx, other \in {tx \in all : tx.type = "PROREG"} :
                tx.hash = other.hash => tx = other

Height(b) == Len(b)
Ancestor(b, height) == SubSeq(b, 1, height)
Txs(b) == Contents[Last(b)]

ProReg(h, external, c, owner, operator, addr) ==
    [type |-> "PROREG", hash |-> h, external |-> external, collateral |-> c,
     owner |-> owner, operator |-> operator, addr |-> addr, spends |-> {}]
ProUpServ(h, addr, signer) ==
    [type |-> "PROUPSERV", hash |-> h, addr |-> addr, signer |-> signer, spends |-> {}]
ProUpReg(h, operator) ==
    [type |-> "PROUPREG", hash |-> h, operator |-> operator, spends |-> {}]
ProUpRev(h, signer) ==
    [type |-> "PROUPREV", hash |-> h, signer |-> signer, spends |-> {}]
\* A commitment of the quorum of the DKG interval that finds members invalid.
LLMQComm(invalid) == [type |-> "LLMQCOMM", invalid |-> invalid, spends |-> {}]
\* A normal transaction, by the collaterals it spends.
Spend(cs) == [type |-> "NORMAL", spends |-> cs]

\* The outpoints spent by block b and its ancestors.
Spent(b) == UNION {tx.spends : tx \in UNION {Range(Contents[b[i]]) : i \in DOMAIN b}}
-----------------------------------------------------------------------------
(* CheckSpecialTx: l is the list of the parent of block b, and the coins   *)
(* are those after all transactions of b.                                  *)

CheckProRegTx(l, b, tx) ==
    LET addr == <<"addr", tx.addr>>
    IN  /\ tx.external => tx.collateral \notin Spent(b)
        /\ HasUniqueProperty(l, addr) =>
              /\ tx.external
              /\ l.gmMap[l.props[addr].gm].collateral = tx.collateral
        /\ ~HasUniqueProperty(l, <<"owner", tx.owner>>)
        /\ ~HasUniqueProperty(l, <<"operator", tx.operator>>)

\* Mutant: only the new list is checked for the address.
CheckProUpServTx_AnyAddr(l, b, tx) ==
    /\ HasGM(l, tx.hash)
    /\ l.gmMap[tx.hash].state.operator = tx.signer

CheckProUpServTx(l, b, tx) ==
    /\ HasGM(l, tx.hash)
    /\ ~HeldByOther(l, <<"addr", tx.addr>>, tx.hash)
    /\ l.gmMap[tx.hash].state.operator = tx.signer

CheckProUpRegTx(l, b, tx) ==
    /\ HasGM(l, tx.hash)
    /\ l.gmMap[tx.hash].collateral \notin Spent(b)
    /\ ~HeldByOther(l, <<"operator", tx.operator>>, tx.hash)

CheckProUpRevTx(l, b, tx) ==
    /\ HasGM(l, tx.hash)
    /\ l.gmMap[tx.hash].state.operator = tx.signer

CheckSpecialTx(l, b, tx) ==
    CASE tx.type = "PROREG" -> CheckProRegTx(l, b, tx)
      [] tx.type = "PROUPSERV" -> CheckProUpServTx(l, b, tx)
      [] tx.type = "PROUPREG" -> CheckProUpRegTx(l, b, tx)
      [] tx.type = "PROUPREV" -> CheckProUpRevTx(l, b, tx)
      [] OTHER -> TRUE
-----------------------------------------------------------------------------
(* BuildNewListFromBlock, transaction by transaction; l is the new list.   *)

NewGM(l, tx) ==
    [hash |-> tx.hash, id |-> l.total, collateral |-> tx.collateral,
     state |-> [registeredHeight |-> l.height, lastPaidHeight |-> 0, penalty |-> 0,
                revivedHeight |-> Never,
                banHeight |-> IF tx.addr = Null THEN l.height ELSE Never,
                confirmed |-> FALSE,
                owner |-> tx.owner, operator |-> tx.operator, addr |-> tx.addr]]

ProcessProReg(l, tx) ==
    LET c == <<"collateral", tx.collateral>>
        kept == IF HasUniqueProperty(l, c) THEN RemoveGM(l, l.props[c].gm) ELSE l
        duplicate == \/ HasUniqueProperty(kept, <<"addr", tx.addr>>)
                     \/ HasUniqueProperty(kept, <<"owner", tx.owner>>)
                     \/ HasUniqueProperty(kept, <<"operator", tx.operator>>)
    IN  IF Ok(kept) /\ duplicate THEN Fail(kept, "reject")
        ELSE AddGM(kept, NewGM(l, tx), TRUE)

ProcessProUpServ(l, tx) ==
    LET st == l.gmMap[tx.hash].state
        moved == [st EXCEPT !.addr = tx.addr]
    IN  IF HeldByOther(l, <<"addr", tx.addr>>, tx.hash) \/ ~HasGM(l, tx.hash)
        THEN Fail(l, "reject")
        ELSE IF st.banHeight # Never /\ st.operator # Null
        THEN UpdateGM(l, tx.hash, [moved EXCEPT !.penalty = 0, !.banHeight = Never,
                                                !.revivedHeight = l.height])
        ELSE UpdateGM(l, tx.hash, moved)

\* Mutant: the gamemaster is not banned.
ResetOperator_NoBan(l, st) == [st EXCEPT !.operator = Null, !.addr = Null]

\* ResetOperatorFields and BanIfNotBanned
ResetOperator(l, st) ==
    [st EXCEPT !.operator = Null, !.addr = Null,
               !.banHeight = IF @ = Never THEN l.height ELSE @]

ProcessProUpReg(l, tx) ==
    LET st == l.gmMap[tx.hash].state
        reset == IF st.operator = tx.operator THEN st ELSE ResetOperator(l, st)
    IN  IF ~HasGM(l, tx.hash) \/ HeldByOther(l, <<"operator", tx.operator>>, tx.hash)
        THEN Fail(l, "reject")
        ELSE UpdateGM(l, tx.hash, [reset EXCEPT !.operator = tx.operator])

ProcessProUpRev(l, tx) ==
    IF ~HasGM(l, tx.hash) THEN Fail(l, "reject")
    ELSE UpdateGM(l, tx.hash, ResetOperator(l, l.gmMap[tx.hash].state))

\* Mutant: half the maximum for a failure.
HandleQuorumCommitment_Half(l, tx, quorumList) ==
    IF l.height % DkgInterval = 0 THEN Fail(l, "reject")
    ELSE FoldSet(LAMBDA h, m : PoSePunish(m, h, CalcPenalty(m, 50)), l,
                 CalculateQuorum(quorumList) \cap tx.invalid \cap DOMAIN l.gmMap)

\* The quorum's block must be an ancestor; its members were chosen from its list.
HandleQuorumCommitment(l, tx, quorumList) ==
    IF l.height % DkgInterval = 0 THEN Fail(l, "reject")
    ELSE FoldSet(LAMBDA h, m : PoSePunish(m, h, CalcPenalty(m, 66)), l,
                 CalculateQuorum(quorumList) \cap tx.invalid \cap DOMAIN l.gmMap)

ProcessTx(l, tx, quorumList) ==
    IF ~Ok(l) THEN l
    ELSE CASE tx.type = "PROREG" -> ProcessProReg(l, tx)
           [] tx.type = "PROUPSERV" -> ProcessProUpServ(l, tx)
           [] tx.type = "PROUPREG" -> ProcessProUpReg(l, tx)
           [] tx.type = "PROUPREV" -> ProcessProUpRev(l, tx)
           [] tx.type = "LLMQCOMM" -> HandleQuorumCommitment(l, tx, quorumList)
           [] OTHER -> l

\* Gamemasters old enough are confirmed, on the way from old to the next list.
Confirm(l, old) ==
    FoldSet(LAMBDA h, m : UpdateGM(m, h, [m.gmMap[h].state EXCEPT !.confirmed = TRUE]), l,
            {h \in DOMAIN old.gmMap :
                /\ ~old.gmMap[h].state.confirmed
                /\ l.height - 1 - old.gmMap[h].state.registeredHeight >= MinConf})

RemoveSpent(l, txs) ==
    FoldSet(LAMBDA c, m : IF Ok(m) /\ HasUniqueProperty(m, <<"collateral", c>>)
                          THEN RemoveGM(m, m.props[<<"collateral", c>>].gm) ELSE m,
            l, UNION {tx.spends : tx \in Range(txs)})

\* The payee of the block is the one of the old list.
MarkPaid(l, old) ==
    FoldSet(LAMBDA h, m : UpdateGM(m, h, [m.gmMap[h].state EXCEPT !.lastPaidHeight = m.height]),
            l, IF Ok(l) THEN GetGMPayee(old) \cap DOMAIN l.gmMap ELSE {})

BuildNewListFromBlock(old, height, txs, quorumList) ==
    LET start == [old EXCEPT !.height = height]
        aged == DecreasePoSePenalties(Confirm(start, old))
        processed == FoldInOrder(LAMBDA m, tx : ProcessTx(m, tx, quorumList), aged, txs)
    IN  MarkPaid(RemoveSpent(processed, txs), old)
-----------------------------------------------------------------------------
(* The lists of the chain up to block b by the rules alone: element n + 1  *)
(* is the list of height n.                                                *)

QuorumHeight(height) == height - (height % DkgInterval)
QuorumBlock(b) == Ancestor(b, QuorumHeight(Height(b)))

ListsOf(b) ==
    FoldInOrder(LAMBDA ls, n : Append(ls,
                BuildNewListFromBlock(ls[n], n, Contents[b[n]],
                    IF QuorumHeight(n) = n THEN EmptyList ELSE ls[QuorumHeight(n) + 1])),
             <<EmptyList>>, [n \in 1 .. Height(b) |-> n])

\* The contents that a block on top of block tip may have as far as its inputs go:
\* a transaction is in the chain once, an output is spent once.
Minable(tip, c) ==
    LET before == UNION {Range(Contents[tip[i]]) : i \in DOMAIN tip}
    IN  \A tx \in Range(Contents[c]) : /\ tx.type = "PROREG" => tx \notin before
                                       /\ tx.spends \cap Spent(tip) = {}

\* The chain starts with valid blocks.
ASSUME StartAssumption ==
    \A n \in 1 .. Height(Start) : /\ Ok(ListsOf(Start)[n + 1])
                                 /\ Minable(Ancestor(Start, n - 1), Start[n])
=============================================================================
