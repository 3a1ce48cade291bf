---------------------------- MODULE GMChainProof ----------------------------
(***************************************************************************)
(* The invariants of the gamemaster lists along a chain, for any blocks of *)
(* any contents: HistoryInv says that the history is that of a valid       *)
(* chain, SoundChain what this makes of every list and of every block, and *)
(* the four invariants of GMChain follow from that by looking at the first *)
(* block that would break them.                                            *)
(***************************************************************************)
EXTENDS GMChain, GMListProof

\* The registrations among transactions, and those of the first n blocks of chain b.
Regs(txs) == {tx.hash : tx \in {tx \in Range(txs) : tx.type = "PROREG"}}
RegsUpTo(b, n) == UNION {Regs(Contents[b[i]]) : i \in 1 .. n}

\* Block n of chain b, whose lists are ls.
QuorumList(ls, n) == IF QuorumHeight(n) = n THEN EmptyList ELSE ls[QuorumHeight(n) + 1]
BlockAt(b, ls, n) ==
    [old |-> ls[n], height |-> n, txs |-> Contents[b[n]], regs |-> Regs(Contents[b[n]]),
     quorum |-> QuorumList(ls, n)]

\* ls are the lists of the first n blocks of chain b.
AreLists(b, n, ls) ==
    /\ ls \in Seq(Range(ls)) /\ Len(ls) = n + 1 /\ ls[1] = EmptyList
    /\ \A k \in 1 .. n :
        ls[k + 1] = BuildNewListFromBlock(ls[k], k, Contents[b[k]], QuorumList(ls, k))

\* The lists ls of chain b are those of the rules, none has failed, and no block
\* registers a gamemaster again.
ValidChain(b, ls) ==
    /\ b \in Seq(DOMAIN Contents) /\ AreLists(b, Len(b), ls)
    /\ \A n \in 1 .. Len(b) : /\ Ok(ls[n + 1])
                              /\ Regs(Contents[b[n]]) \cap RegsUpTo(b, n - 1) = {}

\* What is known of the list of height n, and of what block n has made of the list
\* before it.
SoundAt(b, ls, n) ==
    /\ Sound(ls[n + 1]) /\ Ok(ls[n + 1]) /\ ls[n + 1].height = IF n = 0 THEN Never ELSE n
    /\ DOMAIN ls[n + 1].gmMap \subseteq RegsUpTo(b, n)
    /\ n > 0 => LET c == BlockAt(b, ls, n)
                IN  Since(c, DOMAIN c.old.gmMap, HitBy(c, DOMAIN c.txs), GetGMPayee(c.old),
                          ls[n + 1])

\* The transactions of a block have passed the checks without context.
LEMMA BlockContents ==
    ASSUME NEW x \in DOMAIN Contents
    PROVE  /\ Contents[x] \in Seq(Range(Contents[x]))
           /\ \A tx \in Range(Contents[x]) :
                /\ IsFiniteSet(tx.spends)
                /\ tx.type = "PROREG" => tx.hash \in Nat /\ tx.hash \in Regs(Contents[x])
                /\ tx.type = "PROUPSERV" => tx.addr # Null
           /\ IsFiniteSet(Regs(Contents[x]))
<1> DEFINE all == UNION {Range(Contents[c]) : c \in DOMAIN Contents}
           txs == Contents[x]
<1>1. txs \in Seq(all)
    BY ContentsAssumption, Zenon
<1>2. Range(txs) \subseteq all
    BY Zenon
<1>3. txs \in Seq(Range(txs)) /\ \E n \in Nat : DOMAIN txs = 1 .. n
    <2> HIDE DEF txs, all
    <2> QED
        BY <1>1 DEF Range
<1>4. \A tx \in Range(txs) :
        /\ IsFiniteSet(tx.spends)
        /\ tx.type = "PROREG" => tx.hash \in Nat
        /\ tx.type = "PROUPSERV" => tx.addr # Null
    BY <1>2, ContentsAssumption, Zenon
<1>5. IsFiniteSet(Regs(txs))
    <2> DEFINE f == [i \in DOMAIN txs |-> txs[i].hash]
    <2>1. IsFiniteSet(DOMAIN txs)
        BY <1>3, FS_Interval
    <2>2. IsFiniteSet({f[i] : i \in DOMAIN txs})
        BY <2>1, FiniteImage, Zenon
    <2>3. Regs(txs) \subseteq {f[i] : i \in DOMAIN txs}
        BY Zenon DEF Regs, Range
    <2> QED
        BY <2>2, <2>3, FS_Subset, Zenon
<1> QED
    BY <1>3, <1>4, <1>5, Zenon DEF Regs

\* Block n keeps the lists sound.
LEMMA SoundStep ==
    ASSUME NEW b, NEW ls, ValidChain(b, ls), NEW n \in 1 .. Len(b), SoundAt(b, ls, n - 1)
    PROVE  SoundAt(b, ls, n)
<1> DEFINE c == BlockAt(b, ls, n)
           txs == Contents[b[n]]
           new == ls[n + 1]
<1>0. Len(b) \in Nat /\ n \in Nat /\ n > 0 /\ n - 1 \in Nat /\ b[n] \in DOMAIN Contents
    BY DEF ValidChain
<1>1. /\ c.old = ls[n] /\ c.height = n /\ c.txs = txs /\ c.regs = Regs(txs)
      /\ c.quorum = QuorumList(ls, n)
    BY Zenon DEF BlockAt
<1>2. /\ Sound(ls[n]) /\ Ok(ls[n]) /\ ls[n].height < n
      /\ DOMAIN ls[n].gmMap \subseteq RegsUpTo(b, n - 1)
    BY <1>0 DEF SoundAt, Never
<1>3. /\ new = BuildNewListFromBlock(ls[n], n, txs, QuorumList(ls, n)) /\ Ok(new)
      /\ Regs(txs) \cap RegsUpTo(b, n - 1) = {}
    BY Zenon DEF ValidChain, AreLists
<1>4. /\ txs \in Seq(Range(txs))
      /\ \A tx \in Range(txs) :
            /\ IsFiniteSet(tx.spends)
            /\ tx.type = "PROREG" => tx.hash \in Nat /\ tx.hash \in Regs(txs)
            /\ tx.type = "PROUPSERV" => tx.addr # Null
      /\ IsFiniteSet(Regs(txs))
    BY <1>0, BlockContents, Zenon
<1> HIDE DEF c, txs, new
<1>5. IsBlock(c)
    BY <1>0, <1>1, <1>2, <1>3, <1>4 DEF IsBlock
<1>6. Built(c, DOMAIN c.old.gmMap, HitBy(c, DOMAIN c.txs), GetGMPayee(c.old), new)
    BY <1>1, <1>2, <1>3, <1>5, BlockBuilds, Zenon
<1>7. /\ Sound(new) /\ new.height = n
      /\ Since(c, DOMAIN c.old.gmMap, HitBy(c, DOMAIN c.txs), GetGMPayee(c.old), new)
    BY <1>1, <1>3, <1>6, Zenon DEF Built
<1>8. DOMAIN new.gmMap \subseteq RegsUpTo(b, n)
    <2>1. DOMAIN new.gmMap \subseteq DOMAIN ls[n].gmMap \cup Regs(txs)
        BY <1>1, <1>7, Zenon DEF Since
    <2>2. RegsUpTo(b, n - 1) \subseteq RegsUpTo(b, n) /\ Regs(txs) \subseteq RegsUpTo(b, n)
        BY <1>0 DEF RegsUpTo, txs
    <2> QED
        BY <1>2, <2>1, <2>2, Zenon
<1> QED
    BY <1>0, <1>3, <1>7, <1>8 DEF SoundAt, new, c

\* The chain starts with the empty list, which is sound.
LEMMA SoundStart == ASSUME NEW b, NEW ls, ls[1] = EmptyList PROVE SoundAt(b, ls, 0)
<1>1. DOMAIN EmptyList.gmMap = {} /\ DOMAIN EmptyList.props = {}
    BY Zenon DEF EmptyList, Empty
<1>2. IsList(EmptyList) /\ Ok(EmptyList) /\ EmptyList.height = Never
    BY Zenon DEF EmptyList, IsList, Ok
<1>3. Sound(EmptyList)
    BY <1>1, <1>2, FS_EmptySet DEF Sound, PropertiesExact, Never
<1> QED
    BY <1>1, <1>2, <1>3 DEF SoundAt

\* Every list of a valid chain is sound, and every block has made of the list
\* before it what BuildNewListFromBlock may.
LEMMA SoundChain ==
    ASSUME NEW b, NEW ls, ValidChain(b, ls)
    PROVE  \A n \in 0 .. Len(b) : SoundAt(b, ls, n)
<1> DEFINE T == {n \in 0 .. Len(b) : ~SoundAt(b, ls, n)}
<1> SUFFICES ASSUME T # {} PROVE FALSE
    BY Zenon
<1>0. Len(b) \in Nat
    BY DEF ValidChain
<1>1. PICK n \in T : \A k \in T : n <= k
    <2>1. T \in SUBSET Nat
        BY <1>0
    <2> QED
        BY <2>1, LeastElement, Zenon
<1>2. n # 0
    BY SoundStart, Zenon DEF ValidChain, AreLists
<1>3. n - 1 \in 0 .. Len(b) /\ n - 1 \notin T /\ n \in 1 .. Len(b)
    BY <1>0, <1>1, <1>2
<1> QED
    BY <1>1, <1>3, SoundStep, Zenon
-----------------------------------------------------------------------------
\* The base block of a commitment's quorum is not above the commitment.
LEMMA QuorumIsBefore ==
    ASSUME NEW n \in Nat \ {0}
    PROVE  QuorumHeight(n) \in 0 .. n
<1>1. n % DkgInterval \in 0 .. n
    BY GMAssumption
<1> QED
    BY <1>1 DEF QuorumHeight

\* A history is a sequence of any set that holds its lists.
LEMMA SeqOfMore ==
    ASSUME NEW S, NEW T, S \subseteq T, NEW s \in Seq(S)
    PROVE  s \in Seq(T)
OBVIOUS

\* Append adds the list of the next block.
LEMMA AppendList ==
    ASSUME NEW b, NEW n \in Nat, NEW ls, AreLists(b, n, ls)
    PROVE  AreLists(b, n + 1,
                    Append(ls, BuildNewListFromBlock(ls[n + 1], n + 1, Contents[b[n + 1]],
                                                     QuorumList(ls, n + 1))))
<1> DEFINE new == BuildNewListFromBlock(ls[n + 1], n + 1, Contents[b[n + 1]],
                                        QuorumList(ls, n + 1))
           ms == Append(ls, new)
<1> HIDE DEF new
<1>1. ls \in Seq(Range(ls)) /\ Len(ls) = n + 1
    BY Zenon DEF AreLists
<1>2. /\ Len(ms) = n + 2 /\ DOMAIN ms = 1 .. n + 2
      /\ ms[n + 2] = new /\ \A k \in 1 .. n + 1 : ms[k] = ls[k]
    BY <1>1
<1>3. ms \in Seq(Range(ms))
    <2>1. ms \in Seq(Range(ls) \cup {new})
        <3>1. ls \in Seq(Range(ls) \cup {new})
            <4>1. Range(ls) \subseteq Range(ls) \cup {new}
                BY Zenon
            <4> QED
                BY <1>1, <4>1, SeqOfMore, Zenon
        <3> QED
            BY <3>1
    <2> HIDE DEF ms
    <2> QED
        BY <2>1 DEF Range
<1> HIDE DEF ms
<1>4. ASSUME NEW k \in 1 .. n + 1
      PROVE  ms[k] = ls[k] /\ QuorumList(ms, k) = QuorumList(ls, k)
    <2>1. QuorumHeight(k) \in 0 .. k
        BY QuorumIsBefore
    <2>2. QuorumHeight(k) # k => QuorumHeight(k) + 1 \in 1 .. n + 1
        BY <2>1
    <2> QED
        BY <1>2, <2>2, Zenon DEF QuorumList
<1>5. ASSUME NEW k \in 1 .. n + 1
      PROVE  ms[k + 1] = BuildNewListFromBlock(ms[k], k, Contents[b[k]], QuorumList(ms, k))
    <2>1. CASE k = n + 1
        BY <1>2, <1>4, <2>1 DEF new
    <2>2. CASE k # n + 1
        <3>1. k \in 1 .. n /\ k + 1 \in 1 .. n + 1
            BY <2>2
        <3>2. ls[k + 1] = BuildNewListFromBlock(ls[k], k, Contents[b[k]], QuorumList(ls, k))
            BY <3>1, Zenon DEF AreLists
        <3> QED
            BY <1>4, <3>1, <3>2, Zenon
    <2> QED
        BY <2>1, <2>2, Zenon
<1>6. ms[1] = EmptyList
    BY <1>2 DEF AreLists
<1>7. AreLists(b, n + 1, ms)
    BY <1>2, <1>3, <1>5, <1>6 DEF AreLists
<1> QED
    BY <1>7, Zenon DEF ms, new

ListStep(b, i, ls) ==
    LET n == [k \in 1 .. Height(b) |-> k][i]
    IN  Append(ls, BuildNewListFromBlock(ls[n], n, Contents[b[n]],
                    IF QuorumHeight(n) = n THEN EmptyList ELSE ls[QuorumHeight(n) + 1]))
ListInv(b, s, ls) == \A n \in 0 .. Len(b) : s = 1 .. n => AreLists(b, n, ls)

Listing == INSTANCE FoldInduction WITH Step <- ListStep, Choose <- Max, Inv <- ListInv

\* ListsOf builds the lists of a chain, from the empty list on.
LEMMA ListsOfChain ==
    ASSUME NEW b \in Seq(DOMAIN Contents)
    PROVE  AreLists(b, Len(b), ListsOf(b))
<1> DEFINE seq == [n \in 1 .. Height(b) |-> n]
           S == DOMAIN seq
           base == <<EmptyList>>
<1>1. ListsOf(b) = Listing!Fold(b, base, S)
    BY Zenon DEF ListsOf, FoldInOrder, MapThenFoldSet, Listing!Fold, ListStep
<1>2. S = 1 .. Len(b) /\ Len(b) \in Nat
    BY DEF Height
<1> HIDE DEF S
<1>3. IsFiniteSet(S)
    BY <1>2, FS_Interval
<1>4. \A s \in SUBSET S : s # {} => Max(s) \in s
    BY <1>2, MaxChooses, Zenon
<1>5. Listing!Ends(S, Sizes(S)) /\ Listing!LeastNumber
    BY <1>3, <1>4, SizesDecrease, LeastElement, Zenon DEF Listing!Ends, Listing!LeastNumber
<1>6. ListInv(b, {}, base)
    <2> SUFFICES ASSUME NEW n \in 0 .. Len(b), {} = 1 .. n
                 PROVE  AreLists(b, n, base)
        BY Zenon DEF ListInv
    <2>1. n = 0
        BY <1>2
    <2> QED
        BY <2>1 DEF AreLists, Range
<1>7. ASSUME NEW s \in SUBSET S, NEW ls, s # {}, ListInv(b, s \ {Max(s)}, ls)
      PROVE  ListInv(b, s, ListStep(b, Max(s), ls))
    <2> SUFFICES ASSUME NEW n \in 0 .. Len(b), s = 1 .. n
                 PROVE  AreLists(b, n, ListStep(b, Max(s), ls))
        BY Zenon DEF ListInv
    <2>1. n \in 1 .. Len(b) /\ n - 1 \in 0 .. Len(b) /\ n - 1 \in Nat
        BY <1>2, <1>7
    <2>2. Max(s) = n
        <3>1. Max(s) \in s /\ \A x \in s : Max(s) >= x
            BY <1>2, <1>7, MaxChooses, Zenon
        <3>2. n \in s
            BY <2>1
        <3> QED
            BY <2>1, <3>1, <3>2
    <2>3. s \ {Max(s)} = 1 .. n - 1
        BY <2>1, <2>2
    <2>4. AreLists(b, n - 1, ls)
        BY <1>7, <2>1, <2>3, Zenon DEF ListInv
    <2>5. ListStep(b, Max(s), ls)
            = Append(ls, BuildNewListFromBlock(ls[n], n, Contents[b[n]], QuorumList(ls, n)))
        BY <2>1, <2>2, Zenon DEF ListStep, QuorumList, Height
    <2>6. AreLists(b, (n - 1) + 1,
                   Append(ls, BuildNewListFromBlock(ls[(n - 1) + 1], (n - 1) + 1,
                            Contents[b[(n - 1) + 1]], QuorumList(ls, (n - 1) + 1))))
        BY <2>1, <2>4, AppendList, Zenon
    <2>7. (n - 1) + 1 = n
        BY <2>1
    <2> QED
        BY <2>5, <2>6, <2>7, Zenon
<1>8. \A s \in SUBSET S : \A ls :
        s # {} /\ ListInv(b, s \ {Max(s)}, ls) => ListInv(b, s, ListStep(b, Max(s), ls))
    BY <1>7, Zenon
<1>9. ListInv(b, S, Listing!Fold(b, base, S))
    BY <1>5, <1>6, <1>8, Listing!FoldInduct, Zenon
<1> QED
    BY <1>1, <1>2, <1>9 DEF ListInv

\* A registration that may be mined is new: its hash is that of no earlier one.
LEMMA MinableIsNew ==
    ASSUME NEW b \in Seq(DOMAIN Contents), NEW n \in 1 .. Len(b),
           Minable(Ancestor(b, n - 1), b[n])
    PROVE  Regs(Contents[b[n]]) \cap RegsUpTo(b, n - 1) = {}
<1> DEFINE tip == Ancestor(b, n - 1)
<1>0. Len(b) \in Nat /\ n \in Nat /\ n - 1 \in 0 .. Len(b)
    OBVIOUS
<1>1. DOMAIN tip = 1 .. n - 1 /\ \A i \in 1 .. n - 1 : tip[i] = b[i]
    BY <1>0 DEF Ancestor
<1> SUFFICES ASSUME NEW i \in 1 .. n - 1, NEW h \in Regs(Contents[b[n]]),
                    h \in Regs(Contents[b[i]])
             PROVE  FALSE
    BY Zenon DEF RegsUpTo
<1>2. PICK tx \in Range(Contents[b[n]]) : tx.type = "PROREG" /\ tx.hash = h
    BY Zenon DEF Regs
<1>3. PICK other \in Range(Contents[b[i]]) : other.type = "PROREG" /\ other.hash = h
    BY Zenon DEF Regs
<1>4. b[n] \in DOMAIN Contents /\ b[i] \in DOMAIN Contents
    BY <1>0
<1>5. tx = other
    BY <1>2, <1>3, <1>4, ContentsAssumption, Zenon
<1>6. tx \in UNION {Range(Contents[tip[j]]) : j \in DOMAIN tip}
    BY <1>1, <1>3, <1>5, Zenon
<1> QED
    BY <1>2, <1>6, Zenon DEF Minable
-----------------------------------------------------------------------------
\* The inductive invariant: the history is that of a valid chain on top of Start.
HistoryInv ==
    /\ ValidChain(chain, history)
    /\ Len(Start) <= Len(chain) /\ \A i \in 1 .. Len(Start) : chain[i] = Start[i]

\* The blocks the chain starts with are valid.
LEMMA HistoryInit == Init => HistoryInv
<1> SUFFICES ASSUME Init PROVE HistoryInv
    BY Zenon
<1>1. chain = Start /\ history = ListsOf(Start) /\ Start \in Seq(DOMAIN Contents)
    BY GMAssumption, Zenon DEF Init
<1>2. AreLists(Start, Len(Start), ListsOf(Start))
    BY <1>1, ListsOfChain, Zenon
<1>3. ASSUME NEW n \in 1 .. Len(Start)
      PROVE  /\ Ok(ListsOf(Start)[n + 1])
             /\ Regs(Contents[Start[n]]) \cap RegsUpTo(Start, n - 1) = {}
    <2>1. Ok(ListsOf(Start)[n + 1]) /\ Minable(Ancestor(Start, n - 1), Start[n])
        BY StartAssumption, Zenon DEF Height
    <2> QED
        BY <1>1, <2>1, MinableIsNew, Zenon
<1>4. ValidChain(Start, ListsOf(Start))
    BY <1>1, <1>2, <1>3, Zenon DEF ValidChain
<1>5. Len(Start) <= Len(Start)
    BY <1>1
<1> QED
    BY <1>1, <1>4, <1>5, Zenon DEF HistoryInv

\* ConnectBlock adds the list that BuildNewListFromBlock makes of the tip's.
LEMMA HistoryConnect ==
    ASSUME HistoryInv, NEW c \in DOMAIN Contents, ConnectBlock(c)
    PROVE  HistoryInv'
<1> DEFINE b == Append(chain, c)
           n == Len(chain)
           ls == history
           new == BuildNewListFromBlock(ls[n + 1], n + 1, Contents[b[n + 1]],
                                        QuorumList(ls, n + 1))
<1>1. /\ chain \in Seq(DOMAIN Contents) /\ n \in Nat /\ AreLists(chain, n, ls)
      /\ Start \in Seq(DOMAIN Contents) /\ Len(Start) \in Nat
    BY GMAssumption DEF HistoryInv, ValidChain
<1>2. /\ b \in Seq(DOMAIN Contents) /\ Len(b) = n + 1 /\ b[n + 1] = c
      /\ \A i \in 1 .. n : b[i] = chain[i]
    BY <1>1
<1>3. ls \in Seq(Range(ls)) /\ Len(ls) = n + 1 /\ Last(ls) = ls[n + 1]
    BY <1>1, Zenon DEF AreLists, Last
<1>4. Height(b) = n + 1 /\ Txs(b) = Contents[b[n + 1]]
    BY <1>2, Zenon DEF Height, Txs, Last
<1>5. QuorumBlock(b) = b <=> QuorumHeight(n + 1) = n + 1
    <2>1. QuorumHeight(n + 1) \in 0 .. n + 1
        BY <1>1, QuorumIsBefore
    <2>2. Len(SubSeq(b, 1, QuorumHeight(n + 1))) = QuorumHeight(n + 1)
        BY <1>1, <1>2, <2>1
    <2>3. SubSeq(b, 1, n + 1) = b
        BY <1>1, <1>2
    <2> QED
        BY <1>2, <1>4, <2>2, <2>3, Zenon DEF QuorumBlock, Ancestor
<1> HIDE DEF b, n
<1>6. chain' = b /\ history' = Append(ls, new) /\ Ok(new) /\ Minable(chain, c)
    BY <1>3, <1>4, <1>5, Zenon DEF ConnectBlock, QuorumList, b
<1> HIDE DEF new
<1>7. AreLists(b, n, ls)
    BY <1>1, <1>2, Zenon DEF AreLists
<1>8. AreLists(b, n + 1, history')
    BY <1>1, <1>6, <1>7, AppendList, Zenon DEF new
<1>9. /\ history'[n + 2] = new /\ \A k \in 1 .. n + 1 : history'[k] = history[k]
    BY <1>1, <1>3, <1>6
<1>a. ASSUME NEW k \in 1 .. n + 1
      PROVE  /\ Ok(history'[k + 1])
             /\ Regs(Contents[b[k]]) \cap RegsUpTo(b, k - 1) = {}
    <2>1. CASE k = n + 1
        <3>1. Ancestor(b, n) = chain
            BY <1>1, <1>2 DEF Ancestor, b, n
        <3>2. k \in 1 .. Len(b) /\ k - 1 = n /\ k + 1 = n + 2
            BY <1>1, <1>2, <2>1
        <3>3. Minable(Ancestor(b, k - 1), b[k])
            BY <1>2, <1>6, <2>1, <3>1, <3>2, Zenon
        <3> QED
            BY <1>2, <1>6, <1>9, <3>2, <3>3, MinableIsNew, Zenon
    <2>2. CASE k # n + 1
        <3>1. k \in 1 .. n /\ k + 1 \in 1 .. n + 1
            BY <1>1, <2>2
        <3>2. Ok(history[k + 1]) /\ Regs(Contents[chain[k]]) \cap RegsUpTo(chain, k - 1) = {}
            BY <3>1, Zenon DEF HistoryInv, ValidChain, n
        <3>3. RegsUpTo(b, k - 1) = RegsUpTo(chain, k - 1)
            BY <1>1, <1>2, <3>1 DEF RegsUpTo
        <3> QED
            BY <1>2, <1>9, <3>1, <3>2, <3>3, Zenon
    <2> QED
        BY <2>1, <2>2, Zenon
<1>b. ValidChain(b, history')
    BY <1>2, <1>8, <1>a, Zenon DEF ValidChain
<1>c. Len(Start) <= Len(b) /\ \A i \in 1 .. Len(Start) : b[i] = Start[i]
    <2>1. Len(Start) <= n /\ \A i \in 1 .. Len(Start) : chain[i] = Start[i]
        BY Zenon DEF HistoryInv, n
    <2> QED
        BY <1>1, <1>2, <2>1
<1> QED
    BY <1>6, <1>b, <1>c, Zenon DEF HistoryInv

\* A sequence without its last element.
LEMMA FrontOf ==
    ASSUME NEW S, NEW s \in Seq(S), Len(s) > 0
    PROVE  /\ Front(s) \in Seq(S) /\ Len(Front(s)) = Len(s) - 1
           /\ \A i \in 1 .. Len(s) - 1 : Front(s)[i] = s[i]
<1> DEFINE n == Len(s) - 1
           t == SubSeq(s, 1, n)
<1>1. n \in Nat /\ n + 1 = Len(s)
    OBVIOUS
<1>2. \A i \in 1 .. n : i \in 1 .. Len(s) /\ 1 + i - 1 = i
    BY <1>1
<1>3. t \in Seq(S) /\ Len(t) = n
    <2>1. \A i \in 1 .. n : s[i] \in S
        BY <1>2
    <2> QED
        BY <1>1, <2>1
<1>4. \A i \in 1 .. n : t[i] = s[i]
    BY <1>1, <1>2
<1> QED
    BY <1>3, <1>4, Zenon DEF Front

\* DisconnectBlock takes the last list away, and never a block of Start.
LEMMA HistoryDisconnect ==
    ASSUME HistoryInv, DisconnectBlock
    PROVE  HistoryInv'
<1> DEFINE n == Len(chain)
           b == Front(chain)
           ls == Front(history)
<1>1. /\ chain \in Seq(DOMAIN Contents) /\ n \in Nat /\ AreLists(chain, n, history)
      /\ Start \in Seq(DOMAIN Contents) /\ Len(Start) \in Nat
    BY GMAssumption DEF HistoryInv, ValidChain
<1>2. Len(Start) < n
    <2>1. Len(Start) <= n /\ \A i \in 1 .. Len(Start) : chain[i] = Start[i]
        BY Zenon DEF HistoryInv
    <2>2. Len(Start) = n => chain = Start
        BY <1>1, <2>1
    <2> QED
        BY <1>1, <2>1, <2>2 DEF DisconnectBlock
<1>3. n > 0 /\ n - 1 \in Nat
    BY <1>1, <1>2
<1>4. b \in Seq(DOMAIN Contents) /\ Len(b) = n - 1 /\ \A i \in 1 .. n - 1 : b[i] = chain[i]
    BY <1>1, <1>3, FrontOf, Zenon
<1>5. history \in Seq(Range(history)) /\ Len(history) = n + 1
    BY <1>1, Zenon DEF AreLists
<1>6. /\ ls \in Seq(Range(history)) /\ Len(ls) = n /\ DOMAIN ls = 1 .. n
      /\ \A i \in 1 .. n : ls[i] = history[i]
    BY <1>1, <1>3, <1>5 DEF Front
<1>7. chain' = b /\ history' = ls
    BY Zenon DEF DisconnectBlock
<1> HIDE DEF b, ls, n
<1>8. ls \in Seq(Range(ls))
    BY <1>6 DEF Range
<1>9. ASSUME NEW k \in 1 .. n - 1
      PROVE  /\ ls[k + 1] = BuildNewListFromBlock(ls[k], k, Contents[b[k]], QuorumList(ls, k))
             /\ Ok(ls[k + 1])
             /\ Regs(Contents[b[k]]) \cap RegsUpTo(b, k - 1) = {}
    <2>1. k \in 1 .. n /\ k + 1 \in 1 .. n
        BY <1>1
    <2>2. /\ history[k + 1]
                = BuildNewListFromBlock(history[k], k, Contents[chain[k]], QuorumList(history, k))
          /\ Ok(history[k + 1])
          /\ Regs(Contents[chain[k]]) \cap RegsUpTo(chain, k - 1) = {}
        BY <1>1, <2>1, Zenon DEF HistoryInv, ValidChain, AreLists, n
    <2>3. QuorumList(ls, k) = QuorumList(history, k)
        <3>1. QuorumHeight(k) \in 0 .. k
            BY QuorumIsBefore
        <3>2. QuorumHeight(k) # k => QuorumHeight(k) + 1 \in 1 .. n
            BY <1>1, <3>1
        <3> QED
            BY <1>6, <3>2, Zenon DEF QuorumList
    <2>4. RegsUpTo(b, k - 1) = RegsUpTo(chain, k - 1)
        <3>1. \A i \in 1 .. k - 1 : i \in 1 .. n - 1
            BY <1>1
        <3>2. \A i \in 1 .. k - 1 : b[i] = chain[i]
            BY <1>4, <3>1, Zenon
        <3> QED
            BY <3>2, Zenon DEF RegsUpTo
    <2> QED
        BY <1>4, <1>6, <2>1, <2>2, <2>3, <2>4, Zenon
<1>a. AreLists(b, n - 1, ls)
    <2>1. ls[1] = EmptyList
        BY <1>1, <1>3, <1>6 DEF AreLists
    <2>2. Len(ls) = (n - 1) + 1
        BY <1>1, <1>6
    <2> QED
        BY <1>8, <1>9, <2>1, <2>2, Zenon DEF AreLists
<1>b. ValidChain(b, ls)
    BY <1>4, <1>9, <1>a, Zenon DEF ValidChain
<1>c. Len(Start) <= Len(b) /\ \A i \in 1 .. Len(Start) : b[i] = Start[i]
    <2>1. \A i \in 1 .. Len(Start) : chain[i] = Start[i]
        BY Zenon DEF HistoryInv
    <2>2. Len(Start) <= n - 1 /\ \A i \in 1 .. Len(Start) : i \in 1 .. n - 1
        BY <1>1, <1>2
    <2> QED
        BY <1>4, <2>1, <2>2, Zenon
<1> QED
    BY <1>7, <1>b, <1>c, Zenon DEF HistoryInv

\* The lists the chain state keeps are, at every moment, those that
\* BuildNewListFromBlock gives along the active chain, whatever was connected and
\* disconnected before: a list is a function of its block.
THEOREM HistoryHolds == Spec => []HistoryInv
<1>1. HistoryInv /\ [Next]_vars => HistoryInv'
    <2> SUFFICES ASSUME HistoryInv, [Next]_vars PROVE HistoryInv'
        BY Zenon
    <2>1. ASSUME NEW c \in DOMAIN Contents, ConnectBlock(c) PROVE HistoryInv'
        BY <2>1, HistoryConnect, Zenon
    <2>2. CASE DisconnectBlock
        BY <2>2, HistoryDisconnect, Zenon
    <2>3. CASE UNCHANGED vars
        BY <2>3, Zenon DEF vars, HistoryInv
    <2> QED
        BY <2>1, <2>2, <2>3, Zenon DEF Next
<1> QED
    BY <1>1, HistoryInit, PTL DEF Spec
-----------------------------------------------------------------------------
StateAt(ls, n, h) == ls[n + 1].gmMap[h].state
Lists(ls, n, h) == h \in DOMAIN ls[n + 1].gmMap

\* What block n has done to a gamemaster that it keeps.
LEMMA KeptByBlock ==
    ASSUME NEW b, NEW ls, ValidChain(b, ls), NEW n \in 1 .. Len(b), NEW h,
           Lists(ls, n - 1, h), Lists(ls, n, h)
    PROVE  LET c == BlockAt(b, ls, n)
           IN  /\ Follows(c, h, DOMAIN c.old.gmMap, HitBy(c, DOMAIN c.txs), GetGMPayee(c.old),
                          StateAt(ls, n - 1, h), StateAt(ls, n, h))
               /\ c.old = ls[n] /\ c.height = n /\ c.regs = Regs(Contents[b[n]])
               /\ c.txs = Contents[b[n]] /\ c.quorum = QuorumList(ls, n)
<1> DEFINE c == BlockAt(b, ls, n)
<1>0. Len(b) \in Nat /\ n \in Nat /\ n > 0 /\ n \in 0 .. Len(b) /\ (n - 1) + 1 = n
    BY DEF ValidChain
<1>1. Since(c, DOMAIN c.old.gmMap, HitBy(c, DOMAIN c.txs), GetGMPayee(c.old), ls[n + 1])
    BY <1>0, SoundChain, Zenon DEF SoundAt
<1>2. /\ c.old = ls[n] /\ c.height = n /\ c.regs = Regs(Contents[b[n]])
      /\ c.txs = Contents[b[n]] /\ c.quorum = QuorumList(ls, n)
    BY Zenon DEF BlockAt
<1> HIDE DEF c
<1>3. h \in DOMAIN c.old.gmMap /\ c.old.gmMap[h].state = StateAt(ls, n - 1, h)
    BY <1>0, <1>2, Zenon DEF Lists, StateAt
<1>4. Follows(c, h, DOMAIN c.old.gmMap, HitBy(c, DOMAIN c.txs), GetGMPayee(c.old),
              StateAt(ls, n - 1, h), StateAt(ls, n, h))
    BY <1>1, <1>3, Zenon DEF Since, Lists, StateAt
<1> QED
    BY <1>2, <1>4, Zenon DEF c

\* The heights in the state of a gamemaster of the list of height n are not above n.
LEMMA ListedState ==
    ASSUME NEW b, NEW ls, ValidChain(b, ls), NEW n \in 0 .. Len(b), NEW h, Lists(ls, n, h)
    PROVE  LET st == StateAt(ls, n, h)
           IN  /\ n > 0
               /\ st.registeredHeight \in 0 .. n /\ st.lastPaidHeight \in 0 .. n
               /\ st.revivedHeight \in Never .. n /\ st.penalty \in Nat
<1> DEFINE st == StateAt(ls, n, h)
<1>0. Len(b) \in Nat /\ n \in Nat
    BY DEF ValidChain
<1>1. Sound(ls[n + 1]) /\ ls[n + 1].height = IF n = 0 THEN Never ELSE n
    BY SoundChain, Zenon DEF SoundAt
<1>2. IsState(st, ls[n + 1].height)
    BY <1>1, Zenon DEF Sound, Lists, StateAt
<1>3. st.registeredHeight \in 0 .. ls[n + 1].height /\ st.lastPaidHeight \in 0 .. ls[n + 1].height
      /\ st.revivedHeight \in Never .. ls[n + 1].height /\ st.penalty \in Nat
    BY <1>2, Zenon DEF IsState
<1> HIDE DEF st
<1>4. n > 0
    BY <1>0, <1>1, <1>3 DEF Never
<1>5. ls[n + 1].height = n
    BY <1>0, <1>1, <1>4
<1> QED
    BY <1>3, <1>4, <1>5, Zenon DEF st

\* A gamemaster that is listed twice is listed in between: no block registers it
\* again.
LEMMA ListedBetween ==
    ASSUME NEW b, NEW ls, ValidChain(b, ls), NEW m \in 0 .. Len(b), NEW n \in 0 .. Len(b),
           NEW h, Lists(ls, m, h), Lists(ls, n, h)
    PROVE  \A k \in m .. n : Lists(ls, k, h)
<1>0. Len(b) \in Nat
    BY DEF ValidChain
<1> SUFFICES ASSUME NEW k \in m .. n, ~Lists(ls, k, h)
             PROVE  FALSE
    BY Zenon
<1> DEFINE T == {j \in k .. n : Lists(ls, j, h)}
<1>1. PICK j \in T : \A i \in T : j <= i
    <2>1. T \in SUBSET Nat /\ n \in T
        BY <1>0
    <2> QED
        BY <2>1, LeastElement, Zenon
<1>2. /\ j \in 1 .. Len(b) /\ j # k /\ j - 1 \in k .. n /\ j - 1 \notin T /\ m \in 0 .. j - 1
      /\ Lists(ls, j, h) /\ (j - 1) + 1 = j
    BY <1>0, <1>1
<1>3. ~Lists(ls, j - 1, h)
    BY <1>2, Zenon
<1> HIDE DEF T
<1> DEFINE c == BlockAt(b, ls, j)
<1>4. h \in Regs(Contents[b[j]])
    <2>1. Since(c, DOMAIN c.old.gmMap, HitBy(c, DOMAIN c.txs), GetGMPayee(c.old), ls[j + 1])
        <3>1. SoundAt(b, ls, j) /\ j > 0
            BY <1>0, <1>2, SoundChain
        <3> QED
            BY <3>1, Zenon DEF SoundAt
    <2>2. c.old = ls[j] /\ c.regs = Regs(Contents[b[j]])
        BY Zenon DEF BlockAt
    <2> HIDE DEF c
    <2> QED
        BY <1>2, <1>3, <2>1, <2>2, Zenon DEF Since, Lists
<1>5. h \in RegsUpTo(b, j - 1)
    <2>1. h \in RegsUpTo(b, m)
        BY SoundChain, Zenon DEF SoundAt, Lists
    <2>2. \A i \in 1 .. m : i \in 1 .. j - 1
        BY <1>0, <1>2
    <2> QED
        BY <2>1, <2>2, Zenon DEF RegsUpTo
<1> QED
    BY <1>2, <1>4, <1>5, Zenon DEF ValidChain

\* A payment is remembered: nLastPaidHeight does not go back.
LEMMA PaidRemains ==
    ASSUME NEW b, NEW ls, ValidChain(b, ls), NEW m \in 1 .. Len(b), NEW n \in m .. Len(b),
           NEW x, x \in GetGMPayee(ls[m]), \A k \in m - 1 .. n : Lists(ls, k, x)
    PROVE  StateAt(ls, n, x).lastPaidHeight >= m
<1>0. Len(b) \in Nat
    BY DEF ValidChain
<1> DEFINE T == {k \in m .. n : ~(StateAt(ls, k, x).lastPaidHeight >= m)}
<1> SUFFICES ASSUME T # {} PROVE FALSE
    BY <1>0
<1>1. PICK k \in T : \A i \in T : k <= i
    <2>1. T \in SUBSET Nat
        BY <1>0
    <2> QED
        BY <2>1, LeastElement, Zenon
<1>2. /\ k \in 1 .. Len(b) /\ k \in m .. n /\ k \in 0 .. Len(b)
      /\ k - 1 \in m - 1 .. n /\ k \in m - 1 .. n /\ k - 1 \in 0 .. Len(b)
      /\ ~(StateAt(ls, k, x).lastPaidHeight >= m)
    BY <1>0, <1>1
<1>3. \/ StateAt(ls, k, x).lastPaidHeight = k
      \/ /\ StateAt(ls, k, x).lastPaidHeight = StateAt(ls, k - 1, x).lastPaidHeight
         /\ x \notin GetGMPayee(ls[k])
    <2> DEFINE c == BlockAt(b, ls, k)
    <2>1. /\ Follows(c, x, DOMAIN c.old.gmMap, HitBy(c, DOMAIN c.txs), GetGMPayee(c.old),
                     StateAt(ls, k - 1, x), StateAt(ls, k, x))
          /\ c.old = ls[k] /\ c.height = k
        BY <1>2, KeptByBlock
    <2> HIDE DEF c
    <2> QED
        BY <2>1, Zenon DEF Follows
<1>4. k # m
    BY <1>0, <1>2, <1>3
<1>5. k - 1 \in m .. n /\ k - 1 \notin T
    BY <1>0, <1>1, <1>2, <1>4
<1>6. StateAt(ls, k - 1, x).lastPaidHeight >= m
    BY <1>5, Zenon
<1> HIDE DEF T
<1> QED
    BY <1>0, <1>2, <1>3, <1>6

\* Who is not paid keeps its place in the queue of payments.
LEMMA UnpaidRemains ==
    ASSUME NEW b, NEW ls, ValidChain(b, ls), NEW m \in 1 .. Len(b), NEW n \in m .. Len(b),
           NEW y, \A k \in m - 1 .. n : Lists(ls, k, y),
           \A k \in m .. n : y \notin GetGMPayee(ls[k])
    PROVE  /\ StateAt(ls, n, y).lastPaidHeight < m
           /\ StateAt(ls, n, y).registeredHeight < m
<1>0. Len(b) \in Nat
    BY DEF ValidChain
<1> DEFINE P(k) == /\ StateAt(ls, k, y).lastPaidHeight < m
                   /\ StateAt(ls, k, y).registeredHeight < m
           T == {k \in m - 1 .. n : ~P(k)}
<1> SUFFICES ASSUME T # {} PROVE FALSE
    BY <1>0
<1>1. PICK k \in T : \A i \in T : k <= i
    <2>1. T \in SUBSET Nat
        BY <1>0
    <2> QED
        BY <2>1, LeastElement, Zenon
<1>2. k \in m - 1 .. n /\ k \in 0 .. Len(b) /\ ~P(k) /\ Lists(ls, k, y)
    BY <1>0, <1>1
<1>3. k # m - 1
    <2>1. /\ StateAt(ls, k, y).lastPaidHeight \in 0 .. k
          /\ StateAt(ls, k, y).registeredHeight \in 0 .. k
        BY <1>2, ListedState, Zenon
    <2> QED
        BY <1>0, <1>2, <2>1
<1>4. k \in m .. n /\ k \in 1 .. Len(b) /\ k - 1 \in m - 1 .. n /\ k - 1 \notin T
    BY <1>0, <1>1, <1>2, <1>3
<1>5. P(k - 1)
    BY <1>4, Zenon
<1>6. /\ StateAt(ls, k, y).lastPaidHeight = StateAt(ls, k - 1, y).lastPaidHeight
      /\ StateAt(ls, k, y).registeredHeight = StateAt(ls, k - 1, y).registeredHeight
    <2> DEFINE c == BlockAt(b, ls, k)
    <2>1. /\ Follows(c, y, DOMAIN c.old.gmMap, HitBy(c, DOMAIN c.txs), GetGMPayee(c.old),
                     StateAt(ls, k - 1, y), StateAt(ls, k, y))
          /\ c.old = ls[k] /\ c.height = k
        BY <1>2, <1>4, KeptByBlock
    <2> HIDE DEF c
    <2> QED
        BY <1>4, <2>1, Zenon DEF Follows
<1> QED
    BY <1>2, <1>5, <1>6, Zenon
-----------------------------------------------------------------------------
\* After every block the map of unique properties of the list is what its
\* gamemasters imply, so that the duplicate checks of CheckSpecialTx, which look
\* only at the map, see every duplicate.
THEOREM UniqueHolds == Spec => []UniquePropertiesExact
<1>1. HistoryInv => UniquePropertiesExact
    <2> SUFFICES ASSUME HistoryInv PROVE PropertiesExact(Last(history))
        BY Zenon DEF UniquePropertiesExact
    <2>1. Last(history) = history[Len(chain) + 1] /\ Len(chain) \in Nat
        BY DEF HistoryInv, ValidChain, AreLists, Last
    <2>2. SoundAt(chain, history, Len(chain))
        BY <2>1, SoundChain DEF HistoryInv
    <2> QED
        BY <2>1, <2>2, Zenon DEF SoundAt, Sound
<1> QED
    BY <1>1, HistoryHolds, PTL

\* Who is not PoSe-banned has a service address and an operator key.
THEOREM ServiceHolds == Spec => []ValidHasService
<1>1. HistoryInv => ValidHasService
    <2> SUFFICES ASSUME HistoryInv, NEW h \in ValidGMs(Last(history))
                 PROVE  LET st == Last(history).gmMap[h].state
                        IN  st.addr # Null /\ st.operator # Null
        BY Zenon DEF ValidHasService
    <2> DEFINE l == Last(history)
    <2>1. Last(history) = history[Len(chain) + 1] /\ Len(chain) \in Nat
        BY DEF HistoryInv, ValidChain, AreLists, Last
    <2>2. SoundAt(chain, history, Len(chain))
        BY <2>1, SoundChain DEF HistoryInv
    <2>3. Sound(l)
        BY <2>1, <2>2, Zenon DEF SoundAt
    <2> HIDE DEF l
    <2>4. h \in DOMAIN l.gmMap /\ l.gmMap[h].state.banHeight = Never
        BY Zenon DEF ValidGMs, IsPoSeBanned, l
    <2>5. IsState(l.gmMap[h].state, l.height)
        BY <2>3, <2>4, Zenon DEF Sound
    <2> QED
        BY <2>4, <2>5, Zenon DEF IsState, l
<1> QED
    BY <1>1, HistoryHolds, PTL

\* A chain has a length.
LEMMA ChainLength == ASSUME NEW b, NEW ls, ValidChain(b, ls)  PROVE Len(b) \in Nat
BY DEF ValidChain

\* The heights of two blocks of a chain, and those next to them.
LEMMA HeightsOfTwo ==
    ASSUME NEW len \in Nat, NEW m \in (0 .. len) \ {0}, NEW n \in (0 .. len) \ {0}, m < n
    PROVE  /\ m \in Nat /\ n \in Nat /\ m \in 1 .. len /\ n \in 1 .. len
           /\ n \in 0 .. len /\ m - 1 \in 0 .. len
           /\ n - 1 \in m .. len /\ n - 1 \in 0 .. len /\ n - 1 \in m .. n - 1
           /\ (m - 1) + 1 = m /\ (n - 1) + 1 = n
OBVIOUS

\* The heights in a state are numbers.
LEMMA HeightIsNumber ==
    ASSUME NEW k \in Nat, NEW j, j \in 0 .. k \/ j \in Never .. k
    PROVE  j \in Int
BY DEF Never

\* GetGMPayee goes round: between two payments to one gamemaster every other that
\* stays valid, and is not revived, is paid.
THEOREM RoundRobinHolds == Spec => []RoundRobin
<1>1. HistoryInv => RoundRobin
    <2> SUFFICES ASSUME HistoryInv, NEW m \in Heights \ {0}, NEW n \in Heights \ {0},
                        NEW x \in Paid(m) \cap Paid(n), m < n,
                        NEW y \in ValidGMs(At(m - 1)) \ {x},
                        \A k \in m .. n - 1 : /\ y \in ValidGMs(At(k))
                                              /\ At(k).gmMap[y].state.revivedHeight < m,
                        ~\E k \in m .. n - 1 : y \in Paid(k)
                 PROVE  FALSE
        BY Zenon DEF RoundRobin
    <2> DEFINE ls == history
               k == n - 1
               sx == StateAt(ls, k, x)
               sy == StateAt(ls, k, y)
    <2>1. /\ ValidChain(chain, ls) /\ Len(chain) \in Nat /\ m \in Nat /\ n \in Nat
          /\ m \in 1 .. Len(chain) /\ k \in m .. Len(chain) /\ k \in 0 .. Len(chain)
          /\ m - 1 \in 0 .. Len(chain) /\ k \in m .. n - 1 /\ (m - 1) + 1 = m /\ k + 1 = n
        <3>1. ValidChain(chain, ls) /\ Len(chain) \in Nat
            BY ChainLength, Zenon DEF HistoryInv
        <3> QED
            BY <3>1, HeightsOfTwo, Zenon DEF Heights, Height
    <2>2. /\ x \in GetGMPayee(ls[m]) /\ x \in GetGMPayee(ls[n])
          /\ \A j \in m .. k : y \notin GetGMPayee(ls[j])
        <3>1. \A j \in m .. k : (j - 1) + 1 = j
            BY <2>1
        <3> QED
            BY <2>1, <3>1, Zenon DEF Paid, At
    <2> HIDE DEF ls, k
    <2>3. \A j \in m - 1 .. k : Lists(ls, j, x)
        <3>1. Lists(ls, m - 1, x) /\ Lists(ls, k, x)
            BY <2>1, <2>2, Zenon DEF GetGMPayee, ValidGMs, Lists
        <3> QED
            BY <2>1, <3>1, ListedBetween, Zenon
    <2>4. \A j \in m - 1 .. k : Lists(ls, j, y)
        <3>1. Lists(ls, m - 1, y)
            BY Zenon DEF ValidGMs, Lists, At, ls
        <3>2. Lists(ls, k, y)
            BY <2>1, Zenon DEF ValidGMs, Lists, At, ls
        <3> QED
            BY <2>1, <3>1, <3>2, ListedBetween, Zenon
    <2>5. sx.lastPaidHeight >= m
        BY <2>1, <2>2, <2>3, PaidRemains, Zenon
    <2>6. sy.lastPaidHeight < m /\ sy.registeredHeight < m
        BY <2>1, <2>2, <2>4, UnpaidRemains, Zenon
    <2>7. sy.revivedHeight < m
        BY <2>1, Zenon DEF At, ls, StateAt
    <2>8. /\ sx.lastPaidHeight \in Int /\ sx.revivedHeight \in Int
          /\ sy.lastPaidHeight \in Int /\ sy.registeredHeight \in Int /\ sy.revivedHeight \in Int
        <3>1. k \in m - 1 .. k
            BY <2>1
        <3>2. Lists(ls, k, x) /\ Lists(ls, k, y)
            BY <2>3, <2>4, <3>1, Zenon
        <3>3. /\ sx.lastPaidHeight \in 0 .. k /\ sx.revivedHeight \in Never .. k
              /\ sy.lastPaidHeight \in 0 .. k /\ sy.registeredHeight \in 0 .. k
              /\ sy.revivedHeight \in Never .. k
            BY <2>1, <3>2, ListedState, Zenon
        <3>4. k \in Nat
            BY <2>1
        <3> QED
            BY <3>3, <3>4, HeightIsNumber, Zenon
    <2>9. CompareByLastPaid(ls[n], x, y)
        <3>1. y \in ValidGMs(ls[n])
            BY <2>1, Zenon DEF At, ls
        <3> QED
            BY <2>2, <3>1, Zenon DEF GetGMPayee
    <2>a. ls[n].gmMap[x].state = sx /\ ls[n].gmMap[y].state = sy
        BY <2>1, Zenon DEF StateAt
    <2> HIDE DEF sx, sy
    <2>b. LastPaidHeight(sx) \in Int /\ LastPaidHeight(sx) >= m
        BY <2>1, <2>5, <2>8 DEF LastPaidHeight
    <2>c. LastPaidHeight(sy) \in Int /\ LastPaidHeight(sy) < m
        BY <2>1, <2>6, <2>7, <2>8, Zenon DEF LastPaidHeight
    <2>d. LastPaidHeight(sx) <= LastPaidHeight(sy)
        BY <2>9, <2>a, <2>b, <2>c DEF CompareByLastPaid
    <2> QED
        BY <2>1, <2>b, <2>c, <2>d
<1> QED
    BY <1>1, HistoryHolds, PTL
-----------------------------------------------------------------------------
\* What is left of a punishment at height m, at height k.
StillPunished(ls, m, x, k) ==
    \/ StateAt(ls, k, x).revivedHeight >= m
    \/ StateAt(ls, k, x).banHeight # Never
    \/ StateAt(ls, k, x).penalty >= 65 - (k - m)

\* Who block n has punished was listed before it, and is hit by it.
LEMMA PunishedIsHit ==
    ASSUME HistoryInv, NEW n \in 1 .. Len(chain), NEW x \in Punished(n)
    PROVE  /\ Lists(history, n - 1, x) /\ Lists(history, n, x)
           /\ LET c == BlockAt(chain, history, n) IN x \in HitBy(c, DOMAIN c.txs)
<1> DEFINE c == BlockAt(chain, history, n)
           q == QuorumHeight(n)
<1>0. Len(chain) \in Nat /\ ValidChain(chain, history) /\ n \in Nat \ {0} /\ n \in 0 .. Len(chain)
    BY DEF HistoryInv, ValidChain
<1>1. c.txs = Contents[chain[n]] /\ c.height = n /\ c.quorum = QuorumList(history, n)
    BY Zenon DEF BlockAt
<1>2. PICK tx \in Range(c.txs) : tx.type = "LLMQCOMM" /\ x \in tx.invalid
    BY <1>1, Zenon DEF Punished
<1>3. x \in CalculateQuorum(history[q + 1]) /\ Lists(history, n, x)
    BY Zenon DEF Punished, At, Lists
<1>4. PICK i \in DOMAIN c.txs : c.txs[i] = tx
    BY <1>2, Zenon DEF Range
<1>5. Since(c, DOMAIN c.old.gmMap, HitBy(c, DOMAIN c.txs), GetGMPayee(c.old), history[n + 1])
    BY <1>0, SoundChain DEF SoundAt
<1> HIDE DEF c
<1>6. Found(c, tx) \subseteq HitBy(c, DOMAIN c.txs)
    BY <1>2, <1>4, Zenon DEF HitBy
<1>7. ~IsFirst(c)
    <2> SUFFICES ASSUME IsFirst(c) PROVE FALSE
        BY Zenon
    <2>1. x \in HitBy(c, DOMAIN c.txs)
        BY <1>2, <1>6, Zenon DEF Found
    <2> QED
        BY <1>5, <2>1, Zenon DEF Since
<1>8. q \in 0 .. n - 1
    <2>1. n % DkgInterval \in 0 .. n /\ n % DkgInterval # 0
        BY <1>0, <1>1, <1>7, GMAssumption DEF IsFirst
    <2> QED
        BY <1>0, <2>1 DEF QuorumHeight
<1>9. c.quorum = history[q + 1]
    BY <1>0, <1>1, <1>8 DEF QuorumList
<1>a. x \in HitBy(c, DOMAIN c.txs)
    BY <1>2, <1>3, <1>6, <1>7, <1>9, Zenon DEF Found
<1>b. Lists(history, n - 1, x)
    <2>1. Lists(history, q, x)
        BY <1>3, Zenon DEF CalculateQuorum, ValidGMs, Lists
    <2>2. q \in 0 .. Len(chain) /\ n - 1 \in q .. n
        BY <1>0, <1>8
    <2> QED
        BY <1>0, <1>3, <2>1, <2>2, ListedBetween, Zenon
<1> QED
    BY <1>3, <1>a, <1>b, Zenon DEF c

\* What block n does to who it punishes and does not ban.
LEMMA PunishedAtBlock ==
    ASSUME HistoryInv, NEW n \in 1 .. Len(chain), NEW x \in Punished(n),
           StateAt(history, n, x).revivedHeight # n,
           StateAt(history, n, x).banHeight = Never
    PROVE  /\ StateAt(history, n, x).revivedHeight = StateAt(history, n - 1, x).revivedHeight
           /\ StateAt(history, n - 1, x).banHeight = Never
           /\ StateAt(history, n, x).penalty >= StateAt(history, n - 1, x).penalty + 65
           /\ Cardinality(DOMAIN At(n - 1).gmMap \cup Registered(n)) <= 100
                => StateAt(history, n, x).penalty < 100
<1> DEFINE c == BlockAt(chain, history, n)
           o == StateAt(history, n - 1, x)
           st == StateAt(history, n, x)
<1>0. /\ Len(chain) \in Nat /\ ValidChain(chain, history) /\ n \in Nat
      /\ n - 1 \in 0 .. Len(chain) /\ n \in 0 .. Len(chain) /\ (n - 1) + 1 = n
    BY DEF HistoryInv, ValidChain
<1>1. Lists(history, n - 1, x) /\ Lists(history, n, x) /\ x \in HitBy(c, DOMAIN c.txs)
    BY PunishedIsHit, Zenon
<1>2. /\ Follows(c, x, DOMAIN c.old.gmMap, HitBy(c, DOMAIN c.txs), GetGMPayee(c.old), o, st)
      /\ c.old = history[n] /\ c.height = n /\ c.regs = Regs(Contents[chain[n]])
    BY <1>0, <1>1, KeptByBlock
<1>3. o.penalty \in Nat /\ st.penalty \in Nat
    BY <1>0, <1>1, ListedState, Zenon
<1>4. x \in DOMAIN c.old.gmMap
    BY <1>0, <1>1, <1>2, Zenon DEF Lists
<1>5. DOMAIN At(n - 1).gmMap \cup Registered(n) = DOMAIN c.old.gmMap \cup c.regs
    BY <1>0, <1>2, Zenon DEF At, Registered, Regs
<1> HIDE DEF c, o, st
<1>6. st.revivedHeight # n /\ st.banHeight = Never
    BY Zenon DEF st
<1>7. /\ st.revivedHeight = o.revivedHeight /\ o.banHeight = Never
      /\ st.penalty >= o.penalty - 1 + 66
      /\ Cardinality(DOMAIN c.old.gmMap \cup c.regs) <= 100 => st.penalty < 100
    BY <1>1, <1>2, <1>4, <1>6, Zenon DEF Follows
<1>8. st.penalty >= o.penalty + 65
    BY <1>3, <1>7
<1> QED
    BY <1>5, <1>7, <1>8, Zenon DEF o, st

\* A punishment wears off by one with every block.
LEMMA PunishmentRemains ==
    ASSUME HistoryInv, NEW m \in 1 .. Len(chain), NEW n \in m .. Len(chain), NEW x \in Punished(m),
           \A k \in m - 1 .. n : Lists(history, k, x)
    PROVE  StillPunished(history, m, x, n)
<1> DEFINE ls == history
           b == chain
           T == {k \in m .. n : ~StillPunished(ls, m, x, k)}
<1>0. Len(b) \in Nat /\ ValidChain(b, ls)
    BY DEF HistoryInv, ValidChain
<1> SUFFICES ASSUME T # {} PROVE FALSE
    BY <1>0
<1>1. PICK k \in T : \A i \in T : k <= i
    <2>1. T \in SUBSET Nat
        BY <1>0
    <2> QED
        BY <2>1, LeastElement, Zenon
<1>2. /\ k \in 1 .. Len(b) /\ k \in m .. n /\ k \in 0 .. Len(b) /\ m \in Nat
      /\ k - 1 \in m - 1 .. n /\ k \in m - 1 .. n /\ k - 1 \in 0 .. Len(b)
      /\ ~StillPunished(ls, m, x, k)
    BY <1>0, <1>1
<1> DEFINE o == StateAt(ls, k - 1, x)
           st == StateAt(ls, k, x)
<1>3. /\ st.penalty \in Nat /\ o.penalty \in Nat /\ st.revivedHeight \in Int
      /\ o.revivedHeight \in Int
    <2>1. /\ st.penalty \in Nat /\ st.revivedHeight \in Never .. k
          /\ o.penalty \in Nat /\ o.revivedHeight \in Never .. k - 1
        BY <1>0, <1>2, ListedState, Zenon
    <2> QED
        BY <2>1 DEF Never
<1>4. ~(st.revivedHeight >= m) /\ st.banHeight = Never /\ ~(st.penalty >= 65 - (k - m))
    BY <1>2, Zenon DEF StillPunished
<1>5. st.revivedHeight # k
    BY <1>0, <1>2, <1>3, <1>4
<1>6. k # m
    <2> SUFFICES ASSUME k = m PROVE FALSE
        BY Zenon
    <2>1. st.penalty >= o.penalty + 65
        BY <1>2, <1>4, <1>5, PunishedAtBlock, Zenon
    <2> QED
        BY <1>2, <1>3, <1>4, <2>1
<1>7. StillPunished(ls, m, x, k - 1)
    <2>1. k - 1 \in m .. n /\ k - 1 \notin T
        BY <1>0, <1>1, <1>2, <1>6
    <2> QED
        BY <2>1, Zenon
<1>8. o.revivedHeight >= m \/ o.banHeight # Never \/ o.penalty >= 65 - ((k - 1) - m)
    BY <1>7, Zenon DEF StillPunished
<1> DEFINE c == BlockAt(b, ls, k)
<1>9. Follows(c, x, DOMAIN c.old.gmMap, HitBy(c, DOMAIN c.txs), GetGMPayee(c.old), o, st)
        /\ c.height = k
    BY <1>0, <1>2, KeptByBlock
<1> HIDE DEF c, o, st, T
<1>a. st.revivedHeight = o.revivedHeight /\ o.banHeight = Never
    BY <1>4, <1>5, <1>9, Zenon DEF Follows
<1>b. st.penalty >= o.penalty - 1
    <2>1. st.penalty >= o.penalty - (IF x \in DOMAIN c.old.gmMap THEN 1 ELSE 0)
                                  + (IF x \in HitBy(c, DOMAIN c.txs) THEN 66 ELSE 0)
        BY <1>4, <1>5, <1>9, Zenon DEF Follows
    <2> QED
        BY <1>3, <2>1
<1>c. st.penalty >= 65 - (k - m)
    <2>1. o.penalty >= 65 - ((k - 1) - m)
        BY <1>4, <1>8, <1>a, Zenon
    <2>2. PICK p, q : p = st.penalty /\ q = o.penalty
        BY Zenon
    <2>3. p \in Nat /\ q \in Nat /\ k \in Int /\ m \in Int /\ p >= q - 1 /\ q >= 65 - ((k - 1) - m)
        BY <1>2, <1>3, <1>b, <2>1, <2>2
    <2>4. p >= 65 - (k - m)
        BY <2>3
    <2> QED
        BY <2>2, <2>4, Zenon
<1> QED
    BY <1>4, <1>c, Zenon

\* Two penalties of 66 are more than the maximum of 100, less one for each of 30 blocks.
LEMMA TwoPenalties ==
    ASSUME NEW m \in Nat, NEW n \in Nat, n <= m + 30, NEW p \in Nat, NEW q \in Nat,
           q >= 65 - ((n - 1) - m), p >= q + 65
    PROVE  ~ (p < 100)
OBVIOUS

\* Two punishments within 30 blocks ban, as the comment in HandleQuorumCommitment
\* says, in a list of up to 100.
THEOREM PunishedTwiceHolds == Spec => []PunishedTwiceIsBanned
<1>1. HistoryInv => PunishedTwiceIsBanned
    <2> SUFFICES ASSUME HistoryInv, NEW m \in Heights \ {0}, NEW n \in Heights \ {0},
                        NEW x \in Punished(m) \cap Punished(n), m < n, n <= m + 30,
                        At(n).gmMap[x].state.revivedHeight < m,
                        Cardinality(DOMAIN At(n - 1).gmMap \cup Registered(n)) <= 100,
                        ~IsPoSeBanned(At(n).gmMap[x])
                 PROVE  FALSE
        BY Zenon DEF PunishedTwiceIsBanned
    <2> DEFINE ls == history
               k == n - 1
               o == StateAt(ls, k, x)
               st == StateAt(ls, n, x)
    <2>1. /\ ValidChain(chain, ls) /\ Len(chain) \in Nat /\ m \in Nat /\ n \in Nat
          /\ m \in 1 .. Len(chain) /\ n \in 1 .. Len(chain) /\ k \in m .. Len(chain)
          /\ k \in 0 .. Len(chain) /\ m - 1 \in 0 .. Len(chain) /\ n \in 0 .. Len(chain)
        <3>1. ValidChain(chain, ls) /\ Len(chain) \in Nat
            BY ChainLength, Zenon DEF HistoryInv
        <3> QED
            BY <3>1, HeightsOfTwo, Zenon DEF Heights, Height
    <2>2. st.revivedHeight < m /\ st.banHeight = Never
        BY Zenon DEF At, StateAt, IsPoSeBanned
    <2>3. Lists(ls, m - 1, x) /\ Lists(ls, k, x) /\ Lists(ls, n, x)
        BY <2>1, PunishedIsHit, Zenon
    <2>4. /\ st.revivedHeight \in Int /\ st.penalty \in Nat /\ o.penalty \in Nat
        <3>1. st.revivedHeight \in Never .. n /\ st.penalty \in Nat /\ o.penalty \in Nat
            BY <2>1, <2>3, ListedState, Zenon
        <3> QED
            BY <2>1, <3>1, HeightIsNumber, Zenon
    <2>5. st.revivedHeight # n
        BY <2>1, <2>2, <2>4
    <2>6. /\ st.revivedHeight = o.revivedHeight /\ o.banHeight = Never
          /\ st.penalty >= o.penalty + 65 /\ st.penalty < 100
        BY <2>1, <2>2, <2>5, PunishedAtBlock, Zenon
    <2>7. \A j \in m - 1 .. k : Lists(ls, j, x)
        BY <2>1, <2>3, ListedBetween, Zenon
    <2>8. StillPunished(ls, m, x, k)
        BY <2>1, <2>7, PunishmentRemains, Zenon
    <2>9. o.revivedHeight >= m \/ o.banHeight # Never \/ o.penalty >= 65 - (k - m)
        BY <2>8, Zenon DEF StillPunished
    <2> HIDE DEF o, st
    <2>a. o.penalty >= 65 - (k - m)
        BY <2>1, <2>2, <2>4, <2>6, <2>9
    <2> QED
        BY <2>1, <2>4, <2>6, <2>a, TwoPenalties, Zenon
<1> QED
    BY <1>1, HistoryHolds, PTL
=============================================================================
