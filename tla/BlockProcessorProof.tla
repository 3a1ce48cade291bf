------------------------- MODULE BlockProcessorProof -------------------------
(***************************************************************************)
(* Proofs about module BlockProcessor, for any tree of blocks, any         *)
(* commitments in them and any parameters of the DKG.                      *)
(***************************************************************************)
EXTENDS BlockProcessorInv, FiniteSetTheorems, TLAPS

IsFunction(f) == f = [k \in Keys |-> f[k]]

-----------------------------------------------------------------------------
(* The layers of the database.                                             *)

\* The three kinds of keys of the database are different, and keys of a kind are
\* as different as what they are made from.
LEMMA KeyFacts ==
    /\ BestBlock \in Keys
    /\ \A q \in Blocks : MinedKey(q) \in Keys
    /\ \A b \in Blocks : HeightKey(Height[b]) \in Keys
    /\ \A q, h : /\ MinedKey(q) # BestBlock
                 /\ HeightKey(h) # BestBlock
                 /\ MinedKey(q) # HeightKey(h)
    /\ \A q, p : MinedKey(q) = MinedKey(p) => q = p
    /\ \A h, g : HeightKey(h) = HeightKey(g) => h = g
BY Zenon DEF Keys, BestBlock, MinedKey, HeightKey

\* CDBTransaction::Read: what is read through a transaction.
LEMMA OverAt ==
    ASSUME NEW tx, NEW f, IsFunction(f)
    PROVE  /\ IsFunction(Over(tx, f))
           /\ \A k \in Keys : Over(tx, f)[k] = IF tx[k] = Untouched THEN f[k] ELSE tx[k]
<1>1. DOMAIN f = Keys
  BY Zenon DEF IsFunction
<1> QED
  BY <1>1, Zenon DEF IsFunction, Over

\* Reading through a transaction that was cleared is reading the parent.
LEMMA OverClean ==
    ASSUME NEW f, IsFunction(f)
    PROVE  Over(Clean, f) = f
<1>1. \A k \in Keys : Over(Clean, f)[k] = f[k]
  BY OverAt, Zenon DEF Clean, Clear
<1>2. IsFunction(Over(Clean, f))
  BY OverAt, Zenon
<1> QED
  BY <1>1, <1>2, Zenon DEF IsFunction

\* CDBTransaction::Commit changes nothing for a reader of the upper layer.
LEMMA OverAssociative ==
    ASSUME NEW tx, NEW mid, NEW f, IsFunction(mid), IsFunction(f)
    PROVE  Over(Over(tx, mid), f) = Over(tx, Over(mid, f))
<1>1. IsFunction(Over(mid, f)) /\ IsFunction(Over(Over(tx, mid), f))
      /\ IsFunction(Over(tx, Over(mid, f)))
  BY OverAt, Zenon
<1>2. \A k \in Keys : Over(Over(tx, mid), f)[k] = Over(tx, Over(mid, f))[k]
  <2> SUFFICES ASSUME NEW k \in Keys
               PROVE  Over(Over(tx, mid), f)[k] = Over(tx, Over(mid, f))[k]
    BY Zenon
  <2>1. Over(tx, mid)[k] = IF tx[k] = Untouched THEN mid[k] ELSE tx[k]
    BY OverAt, Zenon
  <2>2. Over(mid, f)[k] = IF mid[k] = Untouched THEN f[k] ELSE mid[k]
    BY OverAt, Zenon
  <2>3. Over(Over(tx, mid), f)[k]
          = IF Over(tx, mid)[k] = Untouched THEN f[k] ELSE Over(tx, mid)[k]
    BY OverAt, Zenon
  <2>4. Over(tx, Over(mid, f))[k]
          = IF tx[k] = Untouched THEN Over(mid, f)[k] ELSE tx[k]
    BY <1>1, OverAt, Zenon
  <2> QED
    BY <2>1, <2>2, <2>3, <2>4, Zenon
<1> QED
  BY <1>1, <1>2, Zenon DEF IsFunction

-----------------------------------------------------------------------------
(* The content of a branch.                                                *)

\* A non-null commitment of a block (GetCommitmentsFromBlock) is a commitment.
LEMMA RealIsCommitment ==
    ASSUME NEW b \in Blocks
    PROVE  /\ RealCommitments(b) \subseteq Commitments[b]
           /\ RealCommitments(b) \subseteq Commitment
           /\ RealCommitments(b) # {} => OwnCommitment(b) \in RealCommitments(b)
           /\ \A c \in RealCommitments(b) : c.quorum \in Blocks
<1>1. /\ RealCommitments(b) \subseteq Commitments[b]
      /\ RealCommitments(b) \subseteq Commitment
  BY CommitmentAssumption, Zenon DEF RealCommitments
<1>2. RealCommitments(b) # {} => OwnCommitment(b) \in RealCommitments(b)
  BY Zenon DEF OwnCommitment
<1>3. \A c \in Commitment : c.quorum \in Blocks
  BY Zenon DEF Commitment
<1> QED
  BY <1>1, <1>2, <1>3, Zenon

\* The content of a branch, key by key.
LEMMA ContentAt ==
    ASSUME NEW b \in Blocks
    PROVE  /\ IsFunction(BranchContent[b])
           /\ BranchContent[b][BestBlock] = b
           /\ \A q \in Blocks : BranchContent[b][MinedKey(q)] = MinedEntry(b, q)
           /\ \A x \in Blocks : BranchContent[b][HeightKey(Height[x])]
                                    = HeightEntry(b, Height[x])
<1>1. IsFunction(BranchContent[b])
  BY Zenon DEF BranchContent, IsFunction
<1>2. \A k \in Keys : BranchContent[b][k] = Entry(b, k)
  BY Zenon DEF BranchContent
<1>3. Entry(b, BestBlock) = b
  BY Zenon DEF Entry, BestBlock
<1>4. \A q : Entry(b, MinedKey(q)) = MinedEntry(b, q)
  BY Zenon DEF Entry, MinedKey
<1>5. \A h : Entry(b, HeightKey(h)) = HeightEntry(b, h)
  BY Zenon DEF Entry, HeightKey
<1> QED
  BY <1>1, <1>2, <1>3, <1>4, <1>5, KeyFacts, Zenon

\* Two functions on the keys are equal if they agree on each kind of key.
LEMMA SameContent ==
    ASSUME NEW f, NEW g, IsFunction(f), IsFunction(g),
           f[BestBlock] = g[BestBlock],
           \A q \in Blocks : f[MinedKey(q)] = g[MinedKey(q)],
           \A x \in Blocks : f[HeightKey(Height[x])] = g[HeightKey(Height[x])]
    PROVE  f = g
<1>1. \A k \in Keys : f[k] = g[k]
  BY Zenon DEF Keys
<1> QED
  BY <1>1, Zenon DEF IsFunction

\* No value of a branch's content is the marker of an untouched key, and an entry
\* of a quorum is absent just if the quorum is not mined (HasMinedCommitment).
LEMMA EntryFacts ==
    ASSUME NEW b \in Blocks
    PROVE  /\ \A k \in Keys : BranchContent[b][k] # Untouched
           /\ \A q \in Blocks : MinedEntry(b, q) = Absent <=> MinedIn(b, q) = {}
<1>1. ASSUME NEW q \in Blocks, MinedIn(b, q) # {}
      PROVE  MinedEntry(b, q) \in MinedRecord
  <2> DEFINE x == CHOOSE x \in MinedIn(b, q) : TRUE
  <2>1. x \in MinedIn(b, q)
    BY <1>1, Zenon
  <2>2. x \in Blocks /\ RealCommitments(x) # {}
    BY <2>1, TreeAssumption, Zenon DEF MinedIn
  <2>3. OwnCommitment(x) \in Commitment
    BY <2>2, RealIsCommitment, Zenon
  <2>4. MinedEntry(b, q) = [qc |-> OwnCommitment(x), block |-> x]
    BY <1>1, Zenon DEF MinedEntry, MinedValue
  <2> QED
    BY <2>2, <2>3, <2>4 DEF MinedRecord
<1>2. ASSUME NEW h, MinedAtHeight(b, h) # {}
      PROVE  HeightEntry(b, h) \in Nat
  <2> DEFINE x == CHOOSE x \in MinedAtHeight(b, h) : TRUE
  <2>1. x \in MinedAtHeight(b, h)
    BY <1>2, Zenon
  <2>2. x \in Blocks /\ RealCommitments(x) # {}
    BY <2>1, TreeAssumption, Zenon DEF MinedAtHeight
  <2>3. OwnCommitment(x).quorum \in Blocks
    BY <2>2, RealIsCommitment, Zenon
  <2>4. HeightEntry(b, h) = Height[OwnCommitment(x).quorum]
    BY <1>2, Zenon DEF HeightEntry, HeightValue
  <2> QED
    BY <2>3, <2>4, TreeAssumption
<1>3. \A q \in Blocks : /\ MinedEntry(b, q) # Untouched
                        /\ MinedEntry(b, q) = Absent <=> MinedIn(b, q) = {}
  <2> SUFFICES ASSUME NEW q \in Blocks
               PROVE  /\ MinedEntry(b, q) # Untouched
                      /\ MinedEntry(b, q) = Absent <=> MinedIn(b, q) = {}
    BY Zenon
  <2>1. CASE MinedIn(b, q) = {}
    BY <2>1, MarkersAssumption, Zenon DEF MinedEntry, MinedValue
  <2>2. CASE MinedIn(b, q) # {}
    BY <2>2, <1>1, MarkersAssumption, Zenon
  <2> QED
    BY <2>1, <2>2, Zenon
<1>4. \A h : HeightEntry(b, h) # Untouched
  <2> SUFFICES ASSUME NEW h PROVE HeightEntry(b, h) # Untouched
    BY Zenon
  <2>1. CASE MinedAtHeight(b, h) = {}
    BY <2>1, MarkersAssumption, Zenon DEF HeightEntry, HeightValue
  <2>2. CASE MinedAtHeight(b, h) # {}
    BY <2>2, <1>2, MarkersAssumption, Zenon
  <2> QED
    BY <2>1, <2>2, Zenon
<1>5. \A k \in Keys : BranchContent[b][k] # Untouched
  BY <1>3, <1>4, ContentAt, MarkersAssumption DEF Keys
<1> QED
  BY <1>3, <1>5, Zenon

\* A block without a non-null commitment adds nothing to what is mined
\* (ProcessCommitment returns before it writes).
LEMMA QuietBlock ==
    ASSUME NEW b \in Blocks \ {Base}, RealCommitments(b) = {}
    PROVE  /\ \A q : MinedEntry(b, q) = MinedEntry(Parent[b], q)
           /\ \A h : HeightEntry(b, h) = HeightEntry(Parent[b], h)
<1>1. Chain[b] = Chain[Parent[b]] \cup {b}
  BY TreeAssumption, Zenon
<1>2. \A q : MinedIn(b, q) = MinedIn(Parent[b], q)
  BY <1>1, Zenon DEF MinedIn
<1>3. \A h : MinedAtHeight(b, h) = MinedAtHeight(Parent[b], h)
  BY <1>1, Zenon DEF MinedAtHeight
<1> QED
  BY <1>2, <1>3, Zenon DEF MinedEntry, HeightEntry

\* A block with a non-null commitment adds just that one, at keys that its branch
\* did not use before (the two writes of ProcessCommitment).
LEMMA MiningBlock ==
    ASSUME NEW b \in Blocks \ {Base}, FollowsRule(b), NEW c \in RealCommitments(b)
    PROVE  /\ c.quorum \in Blocks
           /\ MinedEntry(b, c.quorum) = [qc |-> c, block |-> b]
           /\ MinedEntry(Parent[b], c.quorum) = Absent
           /\ \A q : q # c.quorum => MinedEntry(b, q) = MinedEntry(Parent[b], q)
           /\ HeightEntry(b, Height[b]) = Height[c.quorum]
           /\ HeightEntry(Parent[b], Height[b]) = Absent
           /\ \A h : h # Height[b] => HeightEntry(b, h) = HeightEntry(Parent[b], h)
<1> DEFINE prev == Parent[b]
<1>1. /\ prev \in Blocks
      /\ Chain[b] = Chain[prev] \cup {b}
      /\ \A x \in Chain[prev] : x \in Blocks /\ Height[x] # Height[b]
  <2>1. prev \in Blocks /\ Chain[b] = Chain[prev] \cup {b} /\ Chain[prev] \subseteq Blocks
    BY TreeAssumption, Zenon
  <2>2. Height[b] = Height[prev] + 1 /\ Height[prev] \in Nat
    BY TreeAssumption, Zenon
  <2>3. \A x \in Chain[prev] : Height[x] <= Height[prev] /\ Height[x] \in Nat
    BY <2>1, TreeAssumption, Zenon
  <2> QED
    BY <2>1, <2>2, <2>3
<1>2. /\ c \in Commitments[b]
      /\ c.quorum \in Blocks
      /\ \A d \in RealCommitments(b) : d = c
      /\ OwnCommitment(b) = c
  <2>1. c \in Commitments[b] /\ c.quorum \in Blocks
    BY RealIsCommitment, Zenon
  <2>2. \A d \in RealCommitments(b) : d = c
    BY <2>1, RealIsCommitment, Zenon DEF FollowsRule
  <2>3. OwnCommitment(b) \in RealCommitments(b)
    BY RealIsCommitment, Zenon
  <2> QED
    BY <2>1, <2>2, <2>3, Zenon
<1>3. MinedIn(prev, c.quorum) = {}
  BY <1>2, Zenon DEF FollowsRule
<1>4. MinedIn(b, c.quorum) = {b}
  BY <1>1, <1>2, <1>3, Zenon DEF MinedIn
<1>5. \A q : q # c.quorum => MinedIn(b, q) = MinedIn(prev, q)
  BY <1>1, <1>2, Zenon DEF MinedIn
<1>6. MinedAtHeight(prev, Height[b]) = {}
  BY <1>1, Zenon DEF MinedAtHeight
<1>7. MinedAtHeight(b, Height[b]) = {b}
  BY <1>1, <1>6, Zenon DEF MinedAtHeight
<1>8. \A h : h # Height[b] => MinedAtHeight(b, h) = MinedAtHeight(prev, h)
  BY <1>1, Zenon DEF MinedAtHeight
<1>9. (CHOOSE x \in {b} : TRUE) = b
  BY Zenon
<1>10. MinedEntry(b, c.quorum) = [qc |-> c, block |-> b]
  BY <1>2, <1>4, <1>9, Zenon DEF MinedEntry, MinedValue
<1>11. HeightEntry(b, Height[b]) = Height[c.quorum]
  BY <1>2, <1>7, <1>9, Zenon DEF HeightEntry, HeightValue
<1>12. MinedEntry(prev, c.quorum) = Absent /\ HeightEntry(prev, Height[b]) = Absent
  BY <1>3, <1>6, Zenon DEF MinedEntry, HeightEntry, MinedValue, HeightValue
<1>13. \A q : q # c.quorum => MinedEntry(b, q) = MinedEntry(prev, q)
  BY <1>5, Zenon DEF MinedEntry
<1>14. \A h : h # Height[b] => HeightEntry(b, h) = HeightEntry(prev, h)
  BY <1>8, Zenon DEF HeightEntry
<1> QED
  BY <1>2, <1>10, <1>11, <1>12, <1>13, <1>14, Zenon

\* What the block transaction of a block has in it after ProcessBlock, UndoBlock
\* and WriteBestBlock, key by key.
LEMMA TransactionAt ==
    ASSUME NEW b \in Blocks, NEW c, c.quorum \in Blocks, NEW t
    PROVE  LET w == Write(WriteMined(Clean, b, c), BestBlock, t)
           IN  /\ w[BestBlock] = t
               /\ w[MinedKey(c.quorum)] = [qc |-> c, block |-> b]
               /\ w[HeightKey(Height[b])] = Height[c.quorum]
               /\ \A q \in Blocks : q # c.quorum => w[MinedKey(q)] = Untouched
               /\ \A x \in Blocks : Height[x] # Height[b]
                                 => w[HeightKey(Height[x])] = Untouched
<1>1. \A k \in Keys : Clean[k] = Untouched
  BY Zenon DEF Clean, Clear
<1>2. DOMAIN Clean = Keys
  BY Zenon DEF Clean, Clear
<1> QED
  BY <1>1, <1>2, KeyFacts, Zenon DEF Write, WriteMined

\* The same for a block that is undone.
LEMMA UndoTransactionAt ==
    ASSUME NEW b \in Blocks, NEW c, c.quorum \in Blocks, NEW t
    PROVE  LET w == Write(EraseMined(Clean, b, c), BestBlock, t)
           IN  /\ w[BestBlock] = t
               /\ w[MinedKey(c.quorum)] = Absent
               /\ w[HeightKey(Height[b])] = Absent
               /\ \A q \in Blocks : q # c.quorum => w[MinedKey(q)] = Untouched
               /\ \A x \in Blocks : Height[x] # Height[b]
                                 => w[HeightKey(Height[x])] = Untouched
<1>1. \A k \in Keys : Clean[k] = Untouched
  BY Zenon DEF Clean, Clear
<1>2. DOMAIN Clean = Keys
  BY Zenon DEF Clean, Clear
<1> QED
  BY <1>1, <1>2, KeyFacts, Zenon DEF Write, Erase, EraseMined

\* The same for a block without a non-null commitment.
LEMMA QuietTransactionAt ==
    ASSUME NEW t
    PROVE  LET w == Write(Clean, BestBlock, t)
           IN  /\ w[BestBlock] = t
               /\ \A q \in Blocks : w[MinedKey(q)] = Untouched
               /\ \A x \in Blocks : w[HeightKey(Height[x])] = Untouched
<1>1. \A k \in Keys : Clean[k] = Untouched
  BY Zenon DEF Clean, Clear
<1>2. DOMAIN Clean = Keys
  BY Zenon DEF Clean, Clear
<1> QED
  BY <1>1, <1>2, KeyFacts, Zenon DEF Write

\* Committing a connected block (ConnectTip) turns the content of the parent's
\* branch into that of the block's.
LEMMA ConnectContent ==
    ASSUME NEW b \in Blocks \ {Base}, FollowsRule(b), NEW tx,
           \/ RealCommitments(b) = {} /\ tx = Clean
           \/ \E c \in RealCommitments(b) : tx = WriteMined(Clean, b, c)
    PROVE  Over(Write(tx, BestBlock, b), BranchContent[Parent[b]]) = BranchContent[b]
<1> DEFINE prev == Parent[b]
           w == Write(tx, BestBlock, b)
           f == Over(w, BranchContent[prev])
<1>1. prev \in Blocks /\ b \in Blocks
  BY TreeAssumption, Zenon
<1>2. /\ IsFunction(BranchContent[prev])
      /\ IsFunction(BranchContent[b])
      /\ IsFunction(f)
      /\ \A k \in Keys : f[k] = IF w[k] = Untouched THEN BranchContent[prev][k] ELSE w[k]
  BY <1>1, ContentAt, OverAt
<1>3. CASE RealCommitments(b) = {} /\ tx = Clean
  <2>1. /\ w[BestBlock] = b
        /\ \A q \in Blocks : w[MinedKey(q)] = Untouched
        /\ \A x \in Blocks : w[HeightKey(Height[x])] = Untouched
    BY <1>3, QuietTransactionAt, Zenon
  <2>2. f[BestBlock] = b
    BY <1>1, <1>2, <2>1, KeyFacts, MarkersAssumption, Zenon
  <2>3. \A q \in Blocks : f[MinedKey(q)] = BranchContent[b][MinedKey(q)]
    BY <1>1, <1>2, <1>3, <2>1, KeyFacts, ContentAt, QuietBlock
  <2>4. \A x \in Blocks : f[HeightKey(Height[x])] = BranchContent[b][HeightKey(Height[x])]
    BY <1>1, <1>2, <1>3, <2>1, KeyFacts, ContentAt, QuietBlock
  <2>5. BranchContent[b][BestBlock] = b
    BY <1>1, ContentAt, Zenon
  <2>6. f = BranchContent[b]
    <3> HIDE DEF f
    <3> QED
      BY <1>2, <2>2, <2>3, <2>4, <2>5, SameContent, Zenon
  <2> QED
    BY <2>6, Zenon
<1>4. ASSUME NEW c \in RealCommitments(b), tx = WriteMined(Clean, b, c)
      PROVE  f = BranchContent[b]
  <2>1. /\ c \in Commitment
        /\ c.quorum \in Blocks
        /\ [qc |-> c, block |-> b] # Untouched
        /\ Height[c.quorum] # Untouched
    <3>1. c \in Commitment /\ c.quorum \in Blocks
      BY <1>1, RealIsCommitment, Zenon
    <3>2. [qc |-> c, block |-> b] \in MinedRecord
      BY <3>1, <1>1, Zenon DEF MinedRecord
    <3>3. Height[c.quorum] \in Nat
      BY <3>1, TreeAssumption, Zenon
    <3> QED
      BY <3>1, <3>2, <3>3, MarkersAssumption, Zenon
  <2>2. /\ w[BestBlock] = b
        /\ w[MinedKey(c.quorum)] = [qc |-> c, block |-> b]
        /\ w[HeightKey(Height[b])] = Height[c.quorum]
        /\ \A q \in Blocks : q # c.quorum => w[MinedKey(q)] = Untouched
        /\ \A x \in Blocks : Height[x] # Height[b] => w[HeightKey(Height[x])] = Untouched
    BY <1>1, <1>4, <2>1, TransactionAt
  <2>3. f[BestBlock] = b
    BY <1>1, <1>2, <2>2, KeyFacts, MarkersAssumption, Zenon
  <2>4. /\ MinedEntry(b, c.quorum) = [qc |-> c, block |-> b]
        /\ \A q : q # c.quorum => MinedEntry(b, q) = MinedEntry(prev, q)
        /\ HeightEntry(b, Height[b]) = Height[c.quorum]
        /\ \A h : h # Height[b] => HeightEntry(b, h) = HeightEntry(prev, h)
    BY MiningBlock, Zenon
  <2>5. \A q \in Blocks : f[MinedKey(q)] = BranchContent[b][MinedKey(q)]
    BY <1>1, <1>2, <2>1, <2>2, <2>4, KeyFacts, ContentAt
  <2>6. \A x \in Blocks : f[HeightKey(Height[x])] = BranchContent[b][HeightKey(Height[x])]
    BY <1>1, <1>2, <2>1, <2>2, <2>4, KeyFacts, ContentAt
  <2>7. BranchContent[b][BestBlock] = b
    BY <1>1, ContentAt, Zenon
  <2> HIDE DEF f
  <2> QED
    BY <1>2, <2>3, <2>5, <2>6, <2>7, SameContent, Zenon
<1> QED
  BY <1>3, <1>4, Zenon

\* Committing a disconnected block (DisconnectTip) takes the content back to that
\* of the parent's branch.
LEMMA DisconnectContent ==
    ASSUME NEW b \in Blocks \ {Base}, FollowsRule(b), NEW tx,
           \/ RealCommitments(b) = {} /\ tx = Clean
           \/ \E c \in RealCommitments(b) : tx = EraseMined(Clean, b, c)
    PROVE  Over(Write(tx, BestBlock, Parent[b]), BranchContent[b])
             = BranchContent[Parent[b]]
<1> DEFINE prev == Parent[b]
           w == Write(tx, BestBlock, prev)
           f == Over(w, BranchContent[b])
<1>1. prev \in Blocks /\ b \in Blocks
  BY TreeAssumption, Zenon
<1>2. /\ IsFunction(BranchContent[prev])
      /\ IsFunction(BranchContent[b])
      /\ IsFunction(f)
      /\ \A k \in Keys : f[k] = IF w[k] = Untouched THEN BranchContent[b][k] ELSE w[k]
  BY <1>1, ContentAt, OverAt
<1>3. CASE RealCommitments(b) = {} /\ tx = Clean
  <2>1. /\ w[BestBlock] = prev
        /\ \A q \in Blocks : w[MinedKey(q)] = Untouched
        /\ \A x \in Blocks : w[HeightKey(Height[x])] = Untouched
    BY <1>3, QuietTransactionAt, Zenon
  <2>2. f[BestBlock] = prev
    BY <1>1, <1>2, <2>1, KeyFacts, MarkersAssumption, Zenon
  <2>3. \A q \in Blocks : f[MinedKey(q)] = BranchContent[prev][MinedKey(q)]
    BY <1>1, <1>2, <1>3, <2>1, KeyFacts, ContentAt, QuietBlock
  <2>4. \A x \in Blocks : f[HeightKey(Height[x])]
                              = BranchContent[prev][HeightKey(Height[x])]
    BY <1>1, <1>2, <1>3, <2>1, KeyFacts, ContentAt, QuietBlock
  <2>5. BranchContent[prev][BestBlock] = prev
    BY <1>1, ContentAt, Zenon
  <2>6. f = BranchContent[prev]
    <3> HIDE DEF f, prev
    <3> QED
      BY <1>2, <2>2, <2>3, <2>4, <2>5, SameContent, Zenon
  <2> QED
    BY <2>6, Zenon
<1>4. ASSUME NEW c \in RealCommitments(b), tx = EraseMined(Clean, b, c)
      PROVE  f = BranchContent[prev]
  <2>1. /\ w[BestBlock] = prev
        /\ w[MinedKey(c.quorum)] = Absent
        /\ w[HeightKey(Height[b])] = Absent
        /\ \A q \in Blocks : q # c.quorum => w[MinedKey(q)] = Untouched
        /\ \A x \in Blocks : Height[x] # Height[b] => w[HeightKey(Height[x])] = Untouched
    <3>1. c.quorum \in Blocks
      BY <1>1, RealIsCommitment, Zenon
    <3>2. w = Write(EraseMined(Clean, b, c), BestBlock, prev)
      BY <1>4, Zenon
    <3> HIDE DEF w, prev
    <3> QED
      BY <1>1, <3>1, <3>2, UndoTransactionAt
  <2>2. f[BestBlock] = prev
    BY <1>1, <1>2, <2>1, KeyFacts, MarkersAssumption, Zenon
  <2>3. /\ MinedEntry(prev, c.quorum) = Absent
        /\ \A q : q # c.quorum => MinedEntry(b, q) = MinedEntry(prev, q)
        /\ HeightEntry(prev, Height[b]) = Absent
        /\ \A h : h # Height[b] => HeightEntry(b, h) = HeightEntry(prev, h)
    BY MiningBlock, Zenon
  <2>4. \A q \in Blocks : f[MinedKey(q)] = BranchContent[prev][MinedKey(q)]
    <3>1. Absent # Untouched
      BY MarkersAssumption, Zenon
    <3> HIDE DEF f, w, prev
    <3> QED
      BY <1>1, <1>2, <2>1, <2>3, <3>1, KeyFacts, ContentAt
  <2>5. \A x \in Blocks : f[HeightKey(Height[x])]
                              = BranchContent[prev][HeightKey(Height[x])]
    <3>1. Absent # Untouched
      BY MarkersAssumption, Zenon
    <3> HIDE DEF f, w, prev
    <3> QED
      BY <1>1, <1>2, <2>1, <2>3, <3>1, KeyFacts, ContentAt
  <2>6. BranchContent[prev][BestBlock] = prev
    BY <1>1, ContentAt, Zenon
  <2> HIDE DEF f, prev
  <2> QED
    BY <1>2, <2>2, <2>4, <2>5, <2>6, SameContent, Zenon
<1> QED
  BY <1>3, <1>4, Zenon

-----------------------------------------------------------------------------
(* The layers of the node.                                                 *)

\* A step that writes neither the committed layers nor the coins database keeps
\* what is known of them.
LEMMA LayersUnchanged ==
    ASSUME LayersInv, UNCHANGED <<db, batch, root, coins>>
    PROVE  LayersInv' /\ UNCHANGED Committed
BY Zenon DEF LayersInv, Committed

\* The facts about the layers that the steps below use.  Outside
\* CommitRootTransaction there is no batch, and readers see what is committed.
LEMMA LayerFacts ==
    ASSUME BlockProcessorIInv
    PROVE  /\ IsFunction(db) /\ IsFunction(batch) /\ IsFunction(root) /\ IsFunction(cur)
           /\ IsFunction(Over(batch, db)) /\ IsFunction(Committed) /\ IsFunction(Clean)
           /\ Committed[BestBlock] \in Blocks
           /\ Committed = BranchContent[Committed[BestBlock]]
           /\ ValidBranch(Committed[BestBlock])
           /\ task.stage # "idle" \/ message.stage # "none" => node = "running"
           /\ node = "running" => tip \in Blocks /\ ValidBranch(tip) /\ TaskInv
           /\ task.stage # "batch" => batch = Clean /\ Visible = Committed
<1>1. IsFunction(db) /\ IsFunction(batch) /\ IsFunction(root) /\ IsFunction(cur)
  BY Zenon DEF BlockProcessorIInv, TypeOK, IsFunction
<1>2. IsFunction(Clean)
  BY Zenon DEF IsFunction, Clean, Clear
<1>3. IsFunction(Over(batch, db))
  BY <1>1, OverAt, Zenon
<1>4. IsFunction(Committed)
  BY <1>3, OverAt, Zenon DEF Committed
<1>5. task.stage # "idle" \/ message.stage # "none" => node = "running"
  BY DEF BlockProcessorIInv, NodeInv, NoTask, Task, NoMessage
<1>6. task.stage # "batch" => batch = Clean
  BY Zenon DEF BlockProcessorIInv, NodeInv, TaskInv
<1>7. batch = Clean => Visible = Committed
  BY <1>1, OverClean, Zenon DEF Visible, Committed
<1> QED
  BY <1>1, <1>2, <1>3, <1>4, <1>5, <1>6, <1>7, Zenon
     DEF BlockProcessorIInv, LayersInv, NodeInv

\* With no block at hand, the block transaction is empty and reads are reads of what
\* is committed.
LEMMA IdleView ==
    ASSUME BlockProcessorIInv, Idle
    PROVE  cur = Clean /\ task.stage # "batch" /\ View = Committed
<1>1. cur = Clean
  BY Zenon DEF BlockProcessorIInv, NodeInv, TaskInv, Idle
<1>2. task.stage # "batch"
  BY Zenon DEF Idle, NoTask, Task
<1>3. Visible = Committed /\ IsFunction(Committed)
  BY <1>2, LayerFacts, Zenon
<1> QED
  BY <1>1, <1>2, <1>3, OverClean, Zenon DEF View

-----------------------------------------------------------------------------
(* The rule for commitments.                                               *)

\* A branch is valid if its parent's is and its block follows the rule, and the
\* parent's branch of a valid branch is valid.
LEMMA ValidBranchStep ==
    ASSUME NEW b \in Blocks \ {Base}
    PROVE  /\ ValidBranch(Parent[b]) /\ FollowsRule(b) => ValidBranch(b)
           /\ ValidBranch(b) => ValidBranch(Parent[b]) /\ FollowsRule(b)
<1>1. Chain[b] = Chain[Parent[b]] \cup {b}
  BY TreeAssumption, Zenon
<1> QED
  BY <1>1, Zenon DEF ValidBranch

\* A block without a predecessor in the tree is a valid branch, and the database of
\* a node that has just begun holds its content.
LEMMA BaseContent ==
    /\ ValidBranch(Base)
    /\ BranchContent[Base] = [k \in Keys |-> IF k = BestBlock THEN Base ELSE Absent]
<1> DEFINE f == [k \in Keys |-> IF k = BestBlock THEN Base ELSE Absent]
<1>1. Base \in Blocks /\ Chain[Base] = {Base}
  BY TreeAssumption, Zenon
<1>2. RealCommitments(Base) = {}
  BY CommitmentAssumption, Zenon DEF RealCommitments
<1>3. \A q : MinedEntry(Base, q) = Absent
  BY <1>1, <1>2, Zenon DEF MinedEntry, MinedValue, MinedIn
<1>4. \A h : HeightEntry(Base, h) = Absent
  BY <1>1, <1>2, Zenon DEF HeightEntry, HeightValue, MinedAtHeight
<1>5. ValidBranch(Base)
  BY <1>1, Zenon DEF ValidBranch
<1>6. IsFunction(f)
  BY Zenon DEF IsFunction
<1>7. /\ f[BestBlock] = Base
      /\ \A q \in Blocks : f[MinedKey(q)] = Absent
      /\ \A x \in Blocks : f[HeightKey(Height[x])] = Absent
  BY KeyFacts, Zenon
<1>8. f = BranchContent[Base]
  <2> HIDE DEF f
  <2> QED
    BY <1>1, <1>3, <1>4, <1>6, <1>7, ContentAt, SameContent
<1> QED
  BY <1>5, <1>8, Zenon

\* With the database at the tip, the checks of ProcessBlock and ProcessCommitment
\* accept a block only if it follows the rule.
LEMMA AcceptedFollows ==
    ASSUME BlockProcessorIInv, Idle, NEW b \in Blocks \ {Base}, Parent[b] = tip,
           View[BestBlock] = tip, CommitmentsAccepted(b)
    PROVE  Committed[BestBlock] = tip /\ FollowsRule(b)
<1> DEFINE start == SessionStart(Height[b])
           q == AtHeight(tip, start)
<1>1. /\ tip \in Blocks
      /\ Committed = BranchContent[Committed[BestBlock]]
      /\ Committed[BestBlock] \in Blocks
  BY LayerFacts, Zenon DEF Idle
<1>2. View = Committed
  BY IdleView, Zenon
<1>3. Committed[BestBlock] = tip /\ View = BranchContent[tip]
  BY <1>1, <1>2, Zenon
<1>4. start \in Height[Base] .. Height[b]
  BY TreeAssumption, Zenon
<1>5. CASE start <= Height[tip]
  <2>1. start \in Height[Base] .. Height[tip]
    BY <1>1, <1>4, <1>5, TreeAssumption
  <2>2. \E x \in Chain[tip] : Height[x] = start
    BY <1>1, <2>1, TreeAssumption
  <2>3. q \in Chain[tip]
    BY <2>2, Zenon DEF AtHeight
  <2>4. q \in Blocks /\ q # NoBlock
    BY <1>1, <2>3, TreeAssumption
  <2>5. GetQuorumBlockHash(Height[b]) = q
    <3>1. Height[tip] \in Nat /\ start \in Int
      BY <1>1, <1>4, TreeAssumption
    <3>2. ~(start > Height[tip])
      BY <1>5, <3>1
    <3> QED
      BY <3>2, Zenon DEF GetQuorumBlockHash
  <2>6. HasMinedCommitment(q) <=> MinedIn(tip, q) # {}
    BY <1>1, <1>3, <2>4, ContentAt, EntryFacts DEF HasMinedCommitment
  <2>7. Commitments[b] # {} <=> IsMiningPhase(Height[b]) /\ MinedIn(tip, q) = {}
    <3> HIDE DEF q
    <3>1. IsCommitmentRequired(Height[b])
              <=> IsMiningPhase(Height[b]) /\ MinedIn(tip, q) = {}
      BY <2>4, <2>5, <2>6, Zenon DEF IsCommitmentRequired
    <3> QED
      BY <3>1, Zenon DEF CommitmentsAccepted
  <2>8. \A c \in Commitments[b] : c.quorum = q
    BY <2>5, Zenon DEF CommitmentsAccepted
  <2>9. \A c, d \in Commitments[b] : c = d
    BY Zenon DEF CommitmentsAccepted
  <2> QED
    BY <1>3, <1>5, <2>7, <2>8, <2>9, Zenon DEF FollowsRule
<1>6. CASE ~(start <= Height[tip])
  <2>1. start > Height[tip]
    BY <1>1, <1>4, <1>6, TreeAssumption
  <2>2. GetQuorumBlockHash(Height[b]) = NoBlock
    BY <2>1, Zenon DEF GetQuorumBlockHash
  <2>3. Commitments[b] = {}
    BY <2>2, Zenon DEF CommitmentsAccepted, IsCommitmentRequired
  <2> QED
    BY <1>3, <1>6, <2>3, Zenon DEF FollowsRule
<1> QED
  BY <1>5, <1>6, Zenon

-----------------------------------------------------------------------------
(* Each action preserves the inductive invariant.                          *)

\* What AddAndRelayMinableCommitment does to the two maps of minable commitments.
LEMMA AddMinableKeeps ==
    ASSUME TypeOK, MinableIsFound, NEW c \in Commitment, AddMinable(c)
    PROVE  /\ byQuorum' \in [Blocks -> Commitment \cup {NoCommitment}]
           /\ minable' \in SUBSET Commitment
           /\ MinableIsFound'
<1>1. c.quorum \in Blocks
  BY Zenon DEF Commitment
<1>2. byQuorum' \in [Blocks -> Commitment \cup {NoCommitment}]
  BY Zenon DEF AddMinable, TypeOK
<1>3. minable' \in SUBSET Commitment
  BY Zenon DEF AddMinable, TypeOK
<1>4. ASSUME NEW q \in Blocks, byQuorum'[q] # NoCommitment
      PROVE  byQuorum'[q] \in minable' /\ byQuorum'[q].quorum = q
  <2>1. CASE q = c.quorum
    BY <1>1, <2>1, Zenon DEF AddMinable, TypeOK
  <2>2. CASE q # c.quorum
    <3>1. byQuorum'[q] = byQuorum[q]
      BY <1>1, <2>2, Zenon DEF AddMinable, TypeOK
    <3>2. byQuorum[q] \in minable /\ byQuorum[q].quorum = q
      BY <1>4, <3>1, Zenon DEF MinableIsFound
    <3>3. byQuorum[c.quorum] # byQuorum[q]
      BY <1>1, <1>4, <2>2, <3>1, <3>2, Zenon DEF MinableIsFound
    <3> QED
      BY <3>1, <3>2, <3>3 DEF AddMinable
  <2> QED
    BY <2>1, <2>2, Zenon
<1> QED
  BY <1>2, <1>3, <1>4, Zenon DEF MinableIsFound

\* CQuorumBlockProcessor::ProcessBlock in ConnectTip.
LEMMA ProcessBlockStep ==
    ASSUME BlockProcessorIInv, NEW b \in Blocks \ {Base}, ProcessBlock(b)
    PROVE  BlockProcessorIInv'
<1>1. /\ Idle
      /\ Parent[b] = tip
      /\ task' = Task("processed", b, FALSE)
      /\ UNCHANGED <<node, tip, db, batch, root, coins, message>>
  BY Zenon DEF ProcessBlock
<1>2. Committed[BestBlock] = tip /\ FollowsRule(b)
  BY AcceptedFollows, Zenon DEF ProcessBlock
<1>3. LayersInv' /\ UNCHANGED Committed
  BY <1>1, LayersUnchanged, Zenon DEF BlockProcessorIInv
<1>4. node = "running" /\ cur = Clean /\ batch' = Clean /\ tip \in Blocks /\ ValidBranch(tip)
  BY <1>1, LayerFacts, IdleView, Zenon DEF Idle
<1>5. CASE RealCommitments(b) = {} /\ UNCHANGED <<cur, minableVars>>
  <2>1. TypeOK'
    BY <1>1, <1>5, Zenon DEF BlockProcessorIInv, TypeOK, Task, minableVars
  <2>2. TaskInv'
    BY <1>1, <1>2, <1>3, <1>4, <1>5, Zenon DEF TaskInv, Task, NoTask
  <2>3. NodeInv'
    BY <1>1, <1>4, <2>2, Zenon DEF BlockProcessorIInv, NodeInv
  <2>4. MinableIsFound'
    BY <1>5, Zenon DEF BlockProcessorIInv, MinableIsFound, minableVars
  <2> QED
    BY <1>3, <2>1, <2>3, <2>4, Zenon DEF BlockProcessorIInv
<1>6. ASSUME NEW c \in RealCommitments(b),
             cur' = WriteMined(cur, b, c),
             byQuorum' = [byQuorum EXCEPT ![c.quorum] = NoCommitment],
             minable' = minable \ {c}
      PROVE  BlockProcessorIInv'
  <2>1. c \in Commitment /\ c.quorum \in Blocks
    BY RealIsCommitment, Zenon
  <2>2. cur' = [k \in Keys |-> cur'[k]]
    BY <1>4, <1>6, Zenon DEF WriteMined, Write, Clean, Clear
  <2>3. byQuorum' \in [Blocks -> Commitment \cup {NoCommitment}]
    BY <1>6, Zenon DEF BlockProcessorIInv, TypeOK
  <2>4. TypeOK'
    BY <1>1, <1>6, <2>2, <2>3, Zenon DEF BlockProcessorIInv, TypeOK, Task
  <2>5. TaskInv'
    <3>1. task'.stage = "processed" /\ task'.block = b /\ task' # NoTask
      BY <1>1, Zenon DEF Task, NoTask
    <3>2. cur' = WriteMined(Clean, b, c)
      BY <1>4, <1>6, Zenon
    <3> QED
      BY <1>1, <1>2, <1>3, <1>4, <3>1, <3>2, Zenon DEF TaskInv
  <2>6. NodeInv'
    BY <1>1, <1>4, <2>5, Zenon DEF BlockProcessorIInv, NodeInv
  <2>7. MinableIsFound'
    BY <1>6, <2>1, Zenon DEF BlockProcessorIInv, MinableIsFound, TypeOK
  <2> QED
    BY <1>3, <2>4, <2>6, <2>7, Zenon DEF BlockProcessorIInv
<1> QED
  BY <1>5, <1>6, Zenon DEF ProcessBlock

\* ConnectBlock fails after ProcessBlock and the transaction is rolled back.
LEMMA ConnectFailsStep ==
    ASSUME BlockProcessorIInv, ConnectFails
    PROVE  BlockProcessorIInv'
<1>1. LayersInv' /\ UNCHANGED Committed
  BY LayersUnchanged, Zenon DEF BlockProcessorIInv, ConnectFails
<1>2. node = "running" /\ batch' = Clean
  BY LayerFacts, Zenon DEF ConnectFails
<1>3. TypeOK'
  BY LayerFacts, Zenon DEF BlockProcessorIInv, TypeOK, ConnectFails, NoTask, Task, minableVars,
                    IsFunction
<1>4. TaskInv'
  BY <1>2, Zenon DEF ConnectFails, TaskInv, NoTask, Task
<1>5. NodeInv'
  BY <1>2, <1>4, Zenon DEF BlockProcessorIInv, NodeInv, ConnectFails, minableVars
<1>6. MinableIsFound'
  BY Zenon DEF BlockProcessorIInv, MinableIsFound, ConnectFails, minableVars
<1> QED
  BY <1>1, <1>3, <1>5, <1>6, Zenon DEF BlockProcessorIInv

\* A block transaction is committed and leaves the content of the branch of b.
LEMMA CommitBlockStep ==
    ASSUME BlockProcessorIInv, node = "running", task.stage # "batch",
           NEW b \in Blocks, ValidBranch(b), CommitBlock(b),
           Over(Write(cur, BestBlock, b), Committed) = BranchContent[b]
    PROVE  BlockProcessorIInv' /\ Committed' = BranchContent[b]
<1> DEFINE w == Write(cur, BestBlock, b)
<1>1. /\ root' = Over(w, root)
      /\ cur' = Clean
      /\ task' = Task("flush", b, FALSE)
      /\ UNCHANGED <<node, tip, db, batch, coins, byQuorum, minable, message>>
  BY Zenon DEF CommitBlock, minableVars
<1>2. Committed' = Over(Over(w, root), Over(batch, db))
  BY <1>1, Zenon DEF Committed
<1>3. Over(Over(w, root), Over(batch, db)) = Over(w, Committed)
  <2> HIDE DEF w
  <2> QED
    BY LayerFacts, OverAssociative DEF Committed
<1>4. Committed' = BranchContent[b] /\ Committed'[BestBlock] = b
  BY <1>2, <1>3, ContentAt, Zenon
<1>5. IsFunction(root') /\ IsFunction(cur')
  <2> HIDE DEF w
  <2> QED
    BY <1>1, LayerFacts, OverAt, Zenon
<1>6. TypeOK'
  BY <1>1, <1>5, Zenon DEF BlockProcessorIInv, TypeOK, Task, IsFunction
<1>7. LayersInv'
  BY <1>1, <1>4, Zenon DEF BlockProcessorIInv, LayersInv
<1>8. TaskInv'
  <2>1. batch' = Clean
    BY <1>1, LayerFacts, Zenon
  <2> QED
    BY <1>1, <1>4, <2>1, Zenon DEF TaskInv, Task, NoTask
<1>9. NodeInv'
  BY <1>1, <1>8, Zenon DEF BlockProcessorIInv, NodeInv
<1>10. MinableIsFound'
  BY <1>1, Zenon DEF BlockProcessorIInv, MinableIsFound
<1> QED
  BY <1>4, <1>6, <1>7, <1>9, <1>10, Zenon DEF BlockProcessorIInv

\* ConnectTip commits: the block is the new best block of the EvoDB.
LEMMA ConnectCommitsStep ==
    ASSUME BlockProcessorIInv, ConnectCommits
    PROVE  /\ BlockProcessorIInv'
           /\ task.block \in Blocks \ {Base}
           /\ Committed = BranchContent[Parent[task.block]]
           /\ Committed' = BranchContent[task.block]
           /\ UNCHANGED db
<1> DEFINE b == task.block
<1>1. node = "running" /\ task.stage # "batch"
  BY LayerFacts, Zenon DEF ConnectCommits
<1>2. /\ b \in Blocks \ {Base}
      /\ Parent[b] = tip
      /\ Committed[BestBlock] = tip
      /\ FollowsRule(b)
      /\ \/ RealCommitments(b) = {} /\ cur = Clean
         \/ \E c \in RealCommitments(b) : cur = WriteMined(Clean, b, c)
  BY <1>1, LayerFacts, Zenon DEF ConnectCommits, TaskInv
<1>3. Committed = BranchContent[Parent[b]] /\ ValidBranch(Parent[b])
  BY <1>1, <1>2, LayerFacts, Zenon
<1>4. Over(Write(cur, BestBlock, b), Committed) = BranchContent[b]
  <2> HIDE DEF b
  <2> QED
    BY <1>2, <1>3, ConnectContent, Zenon
<1>5. ValidBranch(b)
  BY <1>2, <1>3, ValidBranchStep, Zenon
<1>6. CommitBlock(b) /\ UNCHANGED db
  BY Zenon DEF ConnectCommits, CommitBlock
<1> HIDE DEF b
<1>7. BlockProcessorIInv' /\ Committed' = BranchContent[b]
  BY <1>1, <1>2, <1>4, <1>5, <1>6, CommitBlockStep, Zenon
<1> QED
  BY <1>2, <1>3, <1>6, <1>7, Zenon DEF b

\* CQuorumBlockProcessor::UndoBlock in DisconnectTip.
LEMMA UndoBlockStep ==
    ASSUME BlockProcessorIInv, UndoBlock
    PROVE  BlockProcessorIInv'
<1>1. /\ Idle
      /\ tip # Base
      /\ View[BestBlock] = tip
      /\ task' = Task("undone", tip, FALSE)
      /\ UNCHANGED <<node, tip, db, batch, root, coins, message>>
  BY Zenon DEF UndoBlock
<1>2. node = "running" /\ cur = Clean /\ batch' = Clean /\ tip \in Blocks /\ ValidBranch(tip)
  BY <1>1, LayerFacts, IdleView, Zenon DEF Idle
<1>3. LayersInv' /\ UNCHANGED Committed
  BY <1>1, LayersUnchanged, Zenon DEF BlockProcessorIInv
<1>4. Committed[BestBlock] = tip
  BY <1>1, IdleView, Zenon
<1>5. task'.stage = "undone" /\ task'.block = tip /\ task' # NoTask
  BY <1>1, Zenon DEF Task, NoTask
<1>6. CASE RealCommitments(tip) = {} /\ UNCHANGED <<cur, minableVars>>
  <2>1. TypeOK'
    BY <1>1, <1>6, Zenon DEF BlockProcessorIInv, TypeOK, Task, minableVars
  <2>2. TaskInv'
    BY <1>1, <1>2, <1>3, <1>4, <1>5, <1>6, Zenon DEF TaskInv
  <2>3. NodeInv'
    BY <1>1, <1>2, <2>2, Zenon DEF BlockProcessorIInv, NodeInv
  <2>4. MinableIsFound'
    BY <1>6, Zenon DEF BlockProcessorIInv, MinableIsFound, minableVars
  <2> QED
    BY <1>3, <2>1, <2>3, <2>4, Zenon DEF BlockProcessorIInv
<1>7. ASSUME NEW c \in RealCommitments(tip),
             cur' = EraseMined(cur, tip, c),
             AddMinable(c) \/ UNCHANGED minableVars
      PROVE  BlockProcessorIInv'
  <2>1. c \in Commitment
    BY <1>2, RealIsCommitment, Zenon
  <2>2. /\ byQuorum' \in [Blocks -> Commitment \cup {NoCommitment}]
        /\ minable' \in SUBSET Commitment
        /\ MinableIsFound'
    <3>1. CASE AddMinable(c)
      BY <2>1, <3>1, AddMinableKeeps, Zenon DEF BlockProcessorIInv
    <3>2. CASE UNCHANGED minableVars
      BY <3>2, Zenon DEF BlockProcessorIInv, TypeOK, MinableIsFound, minableVars
    <3> QED
      BY <1>7, <3>1, <3>2, Zenon
  <2>3. cur' = [k \in Keys |-> cur'[k]]
    BY <1>2, <1>7, Zenon DEF EraseMined, Erase, Clean, Clear
  <2>4. TypeOK'
    BY <1>1, <2>2, <2>3, Zenon DEF BlockProcessorIInv, TypeOK, Task
  <2>5. cur' = EraseMined(Clean, tip, c)
    BY <1>2, <1>7, Zenon
  <2>6. TaskInv'
    BY <1>1, <1>2, <1>3, <1>4, <1>5, <2>5, Zenon DEF TaskInv
  <2>7. NodeInv'
    BY <1>1, <1>2, <2>6, Zenon DEF BlockProcessorIInv, NodeInv
  <2> QED
    BY <1>3, <2>2, <2>4, <2>7, Zenon DEF BlockProcessorIInv
<1> QED
  BY <1>6, <1>7, Zenon DEF UndoBlock

\* DisconnectTip commits: the parent is the new best block of the EvoDB.
LEMMA DisconnectCommitsStep ==
    ASSUME BlockProcessorIInv, DisconnectCommits
    PROVE  /\ BlockProcessorIInv'
           /\ task.block \in Blocks \ {Base}
           /\ Committed = BranchContent[task.block]
           /\ Committed' = BranchContent[Parent[task.block]]
           /\ UNCHANGED db
<1> DEFINE b == task.block
<1>1. node = "running" /\ task.stage # "batch" /\ tip \in Blocks /\ ValidBranch(tip)
  BY LayerFacts, Zenon DEF DisconnectCommits
<1>2. /\ b \in Blocks \ {Base}
      /\ b = tip
      /\ Committed[BestBlock] = b
      /\ \/ RealCommitments(b) = {} /\ cur = Clean
         \/ \E c \in RealCommitments(b) : cur = EraseMined(Clean, b, c)
  BY <1>1, LayerFacts, Zenon DEF DisconnectCommits, TaskInv
<1>3. Committed = BranchContent[b] /\ ValidBranch(b)
  BY <1>1, <1>2, LayerFacts, Zenon
<1>4. FollowsRule(b) /\ ValidBranch(Parent[b]) /\ Parent[b] \in Blocks
  BY <1>2, <1>3, ValidBranchStep, TreeAssumption, Zenon
<1>5. Over(Write(cur, BestBlock, Parent[b]), Committed) = BranchContent[Parent[b]]
  <2> HIDE DEF b
  <2> QED
    BY <1>2, <1>3, <1>4, DisconnectContent, Zenon
<1>6. CommitBlock(Parent[b]) /\ UNCHANGED db
  BY Zenon DEF DisconnectCommits, CommitBlock
<1> HIDE DEF b
<1>7. BlockProcessorIInv' /\ Committed' = BranchContent[Parent[b]]
  BY <1>1, <1>4, <1>5, <1>6, CommitBlockStep, Zenon
<1> QED
  BY <1>2, <1>3, <1>6, <1>7, Zenon DEF b

\* FlushStateToDisk begins, for itself, on shutdown, or after AbortNode.
LEMMA BeginFlushStep ==
    ASSUME BlockProcessorIInv, NEW stop \in BOOLEAN,
           AbortNode \/ FlushStateToDisk(stop)
    PROVE  BlockProcessorIInv'
<1>1. PICK s \in BOOLEAN :
        /\ Idle
        /\ task' = Task("flush", tip, s)
        /\ UNCHANGED <<node, tip, db, batch, root, cur, coins, byQuorum, minable, message>>
  BY Zenon DEF AbortNode, FlushStateToDisk, evoVars, minableVars
<1>2. node = "running" /\ cur = Clean /\ batch = Clean /\ tip \in Blocks /\ ValidBranch(tip)
  BY <1>1, LayerFacts, IdleView, Zenon DEF Idle
<1>3. LayersInv' /\ UNCHANGED Committed
  BY <1>1, LayersUnchanged, Zenon DEF BlockProcessorIInv
<1>4. TypeOK'
  BY <1>1, <1>2, Zenon DEF BlockProcessorIInv, TypeOK, Task
<1>5. TaskInv'
  BY <1>1, <1>2, <1>3, Zenon DEF TaskInv, Task, NoTask
<1>6. NodeInv'
  BY <1>1, <1>2, <1>5, Zenon DEF BlockProcessorIInv, NodeInv
<1>7. MinableIsFound'
  BY <1>1, Zenon DEF BlockProcessorIInv, MinableIsFound
<1> QED
  BY <1>3, <1>4, <1>6, <1>7, Zenon DEF BlockProcessorIInv

\* The block a flush is for is the tip or the best block of the EvoDB.
LEMMA FlushFacts ==
    ASSUME BlockProcessorIInv, task.stage \in {"flush", "partial", "coins", "batch"}
    PROVE  /\ node = "running"
           /\ cur = Clean
           /\ task.block \in Blocks
           /\ task.block \in {tip, Committed[BestBlock]}
           /\ ValidBranch(task.block)
           /\ task.stage = "batch" => root = Clean
<1>1. node = "running"
  BY LayerFacts, Zenon
<1> QED
  BY <1>1, LayerFacts, Zenon DEF TaskInv

\* FlushStateToDisk finds that no full flush is needed.
LEMMA SkipFlushStep ==
    ASSUME BlockProcessorIInv, SkipFlush
    PROVE  BlockProcessorIInv'
<1>1. /\ tip' = task.block
      /\ task' = NoTask
      /\ UNCHANGED <<node, db, batch, root, cur, coins, byQuorum, minable, message>>
      /\ task.stage \in {"flush", "partial", "coins", "batch"}
      /\ task.stage # "batch"
  BY Zenon DEF SkipFlush, evoVars, minableVars
<1>2. LayersInv' /\ UNCHANGED Committed
  BY <1>1, LayersUnchanged, Zenon DEF BlockProcessorIInv
<1>3. TypeOK'
  BY <1>1, FlushFacts, Zenon DEF BlockProcessorIInv, TypeOK, NoTask, Task
<1>4. TaskInv'
  BY <1>1, FlushFacts, LayerFacts, Zenon DEF TaskInv, NoTask, Task
<1>5. NodeInv'
  BY <1>1, <1>4, FlushFacts, Zenon DEF BlockProcessorIInv, NodeInv
<1>6. MinableIsFound'
  BY <1>1, Zenon DEF BlockProcessorIInv, MinableIsFound
<1> QED
  BY <1>2, <1>3, <1>5, <1>6, Zenon DEF BlockProcessorIInv

\* CCoinsViewDB::BatchWrite writes a batch.
LEMMA WriteBatchStep ==
    ASSUME BlockProcessorIInv, WritePartialBatch \/ WriteLastBatch
    PROVE  BlockProcessorIInv'
<1>1. /\ task.stage \in {"flush", "partial", "coins", "batch"}
      /\ task.stage # "batch"
      /\ UNCHANGED <<node, tip, db, batch, root, cur, byQuorum, minable, message>>
  BY Zenon DEF WritePartialBatch, WriteLastBatch, evoVars, minableVars
<1>2. /\ coins' \in [block : Blocks, from : Blocks]
      /\ ValidBranch(coins'.block)
      /\ ValidBranch(coins'.from)
  <2>1. CASE WritePartialBatch
    <3>1. coins'.block = task.block /\ coins'.from = coins.from
      BY <2>1, Zenon DEF WritePartialBatch, BlockProcessorIInv, TypeOK
    <3>2. coins' \in [block : Blocks, from : Blocks]
      BY <1>1, <2>1, FlushFacts, Zenon DEF WritePartialBatch, BlockProcessorIInv, TypeOK
    <3> QED
      BY <1>1, <3>1, <3>2, FlushFacts, Zenon DEF BlockProcessorIInv, LayersInv
  <2>2. CASE WriteLastBatch
    BY <1>1, <2>2, FlushFacts, Zenon DEF WriteLastBatch
  <2> QED
    BY <2>1, <2>2, Zenon
<1>3. /\ task'.stage \in {"partial", "coins"}
      /\ task'.block = task.block
      /\ task' \in [stage : {"idle", "processed", "undone", "flush", "partial", "coins", "batch"},
                    block : Blocks \cup {NoBlock}, stop : BOOLEAN]
  BY Zenon DEF WritePartialBatch, WriteLastBatch, BlockProcessorIInv, TypeOK
<1>4. UNCHANGED Committed
  BY <1>1, Zenon DEF Committed
<1>5. LayersInv'
  BY <1>1, <1>2, <1>4, Zenon DEF BlockProcessorIInv, LayersInv
<1>6. TypeOK'
  BY <1>1, <1>2, <1>3, Zenon DEF BlockProcessorIInv, TypeOK
<1>7. TaskInv'
  <2>1. task' # NoTask
    BY <1>3 DEF NoTask, Task
  <2> QED
    BY <1>1, <1>3, <1>4, <2>1, FlushFacts, LayerFacts, Zenon DEF TaskInv
<1>8. NodeInv'
  BY <1>1, <1>7, FlushFacts, Zenon DEF BlockProcessorIInv, NodeInv
<1>9. MinableIsFound'
  BY <1>1, Zenon DEF BlockProcessorIInv, MinableIsFound
<1> QED
  BY <1>5, <1>6, <1>8, <1>9, Zenon DEF BlockProcessorIInv

\* A process that has stopped, with content on disk, satisfies the invariant.
LEMMA StoppedStep ==
    ASSUME BlockProcessorIInv, NEW s \in {"down"}, Stopped(s), UNCHANGED coins,
           db' = db \/ db' = Committed
    PROVE  BlockProcessorIInv' /\ Committed' = db'
<1>1. /\ node' = s /\ tip' = NoBlock /\ task' = NoTask
      /\ batch' = Clean /\ root' = Clean /\ cur' = Clean
      /\ byQuorum' = NoMinable /\ minable' = {} /\ message' = NoMessage
  BY Zenon DEF Stopped
<1>2. /\ IsFunction(db')
      /\ db'[BestBlock] \in Blocks
      /\ db' = BranchContent[db'[BestBlock]]
      /\ ValidBranch(db'[BestBlock])
  BY LayerFacts, Zenon DEF BlockProcessorIInv, LayersInv
<1>3. \A k \in Keys : db'[k] # Untouched
  BY <1>2, EntryFacts, Zenon
<1>4. Committed' = db'
  <2>1. Committed' = Over(Clean, Over(Clean, db'))
    BY <1>1, Zenon DEF Committed
  <2> QED
    BY <1>2, <2>1, OverClean, Zenon
<1>5. LayersInv'
  BY <1>2, <1>4, Zenon DEF BlockProcessorIInv, LayersInv
<1>6. byQuorum' \in [Blocks -> Commitment \cup {NoCommitment}]
  BY <1>1, Zenon DEF NoMinable
<1>7. TypeOK'
  <2>1. /\ batch' = [k \in Keys |-> batch'[k]]
        /\ root' = [k \in Keys |-> root'[k]]
        /\ cur' = [k \in Keys |-> cur'[k]]
        /\ db' = [k \in Keys |-> db'[k]]
    BY <1>1, <1>2, LayerFacts, Zenon DEF IsFunction
  <2>2. task' \in [stage : {"idle", "processed", "undone", "flush", "partial", "coins", "batch"},
                   block : Blocks \cup {NoBlock}, stop : BOOLEAN]
    BY <1>1, Zenon DEF NoTask, Task
  <2>3. message' \in [stage : {"none", "checked", "verified"},
                      qc : Commitment \cup {NoCommitment}]
    BY <1>1, Zenon DEF NoMessage
  <2> QED
    BY <1>1, <1>3, <1>6, <2>1, <2>2, <2>3, Zenon DEF BlockProcessorIInv, TypeOK
<1>8. NodeInv'
  BY <1>1, Zenon DEF NodeInv, NoMessage
<1>9. MinableIsFound'
  BY <1>1, Zenon DEF MinableIsFound, NoMinable
<1> QED
  BY <1>4, <1>5, <1>7, <1>8, <1>9, Zenon DEF BlockProcessorIInv

\* CEvoDB::CommitRootTransaction empties the root transaction into rootBatch: what is
\* committed stays, what readers see of it is what LevelDB has.
LEMMA CommitRootStep ==
    ASSUME BlockProcessorIInv, CommitRootTransaction
    PROVE  BlockProcessorIInv' /\ UNCHANGED <<Committed, db>>
<1>1. /\ task.stage \in {"flush", "partial", "coins", "batch"}
      /\ task.stage # "batch"
      /\ batch' = root /\ root' = Clean
      /\ task' = [task EXCEPT !.stage = "batch"]
      /\ UNCHANGED <<node, tip, db, cur, coins, byQuorum, minable, message>>
  BY Zenon DEF CommitRootTransaction, minableVars
<1>2. UNCHANGED Committed
  <2>1. Committed' = Over(Clean, Visible)
    BY <1>1, Zenon DEF Committed, Visible
  <2>2. Visible = Committed /\ IsFunction(Committed)
    BY <1>1, LayerFacts, Zenon
  <2> QED
    BY <2>1, <2>2, OverClean, Zenon
<1>3. LayersInv'
  BY <1>1, <1>2, Zenon DEF BlockProcessorIInv, LayersInv
<1>4. /\ task'.stage = "batch"
      /\ task'.block = task.block
      /\ task' \in [stage : {"idle", "processed", "undone", "flush", "partial", "coins", "batch"},
                    block : Blocks \cup {NoBlock}, stop : BOOLEAN]
  BY <1>1, Zenon DEF BlockProcessorIInv, TypeOK
<1>5. TypeOK'
  <2>1. batch' = [k \in Keys |-> batch'[k]] /\ root' = [k \in Keys |-> root'[k]]
    BY <1>1, LayerFacts, Zenon DEF IsFunction
  <2> QED
    BY <1>1, <1>4, <2>1, Zenon DEF BlockProcessorIInv, TypeOK
<1>6. TaskInv'
  <2>1. task' # NoTask
    BY <1>4 DEF NoTask, Task
  <2> QED
    BY <1>1, <1>2, <1>4, <2>1, FlushFacts, Zenon DEF TaskInv
<1>7. NodeInv'
  BY <1>1, <1>6, FlushFacts, Zenon DEF BlockProcessorIInv, NodeInv
<1>8. MinableIsFound'
  BY <1>1, Zenon DEF BlockProcessorIInv, MinableIsFound
<1> QED
  BY <1>1, <1>2, <1>3, <1>5, <1>7, <1>8, Zenon DEF BlockProcessorIInv

\* CEvoDB::CommitRootTransaction writes rootBatch to LevelDB, at the end of
\* FlushStateToDisk.
LEMMA WriteRootStep ==
    ASSUME BlockProcessorIInv, WriteRootBatch
    PROVE  BlockProcessorIInv' /\ db' = Committed /\ UNCHANGED Committed
<1>1. /\ task.stage \in {"flush", "partial", "coins", "batch"}
      /\ task.stage = "batch"
      /\ db' = Over(batch, db)
      /\ UNCHANGED coins
  BY Zenon DEF WriteRootBatch
<1>2. root = Clean
  BY <1>1, FlushFacts, Zenon
<1>3. db' = Committed
  BY <1>1, <1>2, LayerFacts, OverClean, Zenon DEF Committed
<1>4. CASE Stopped("down")
  BY <1>1, <1>3, <1>4, StoppedStep, Zenon
<1>5. CASE /\ batch' = Clean
           /\ tip' = task.block
           /\ task' = NoTask
           /\ UNCHANGED <<node, root, cur, minableVars, message>>
  <2>1. UNCHANGED Committed
    <3>1. Committed' = Over(Clean, Over(Clean, Committed))
      BY <1>2, <1>3, <1>5, Zenon DEF Committed
    <3> QED
      BY <3>1, LayerFacts, OverClean, Zenon
  <2>2. \A k \in Keys : db'[k] # Untouched
    BY <1>3, LayerFacts, EntryFacts, Zenon
  <2>3. LayersInv'
    BY <1>1, <1>3, <2>1, Zenon DEF BlockProcessorIInv, LayersInv
  <2>4. TypeOK'
    <3>1. db' = [k \in Keys |-> db'[k]] /\ batch' = [k \in Keys |-> batch'[k]]
      BY <1>3, <1>5, LayerFacts, Zenon DEF IsFunction
    <3>2. tip' \in Blocks
      BY <1>1, <1>5, FlushFacts, Zenon
    <3> QED
      BY <1>1, <1>5, <2>2, <3>1, <3>2, Zenon DEF BlockProcessorIInv, TypeOK, NoTask, Task,
                                          minableVars
  <2>5. TaskInv'
    BY <1>1, <1>5, FlushFacts, Zenon DEF TaskInv, NoTask, Task
  <2>6. NodeInv'
    BY <1>1, <1>5, <2>5, FlushFacts, Zenon DEF BlockProcessorIInv, NodeInv
  <2>7. MinableIsFound'
    BY <1>5, Zenon DEF BlockProcessorIInv, MinableIsFound, minableVars
  <2> QED
    BY <1>3, <2>1, <2>3, <2>4, <2>6, <2>7, Zenon DEF BlockProcessorIInv
<1> QED
  BY <1>4, <1>5, Zenon DEF WriteRootBatch

\* The process dies.
LEMMA CrashStep ==
    ASSUME BlockProcessorIInv, Crash
    PROVE  BlockProcessorIInv' /\ Committed' = db /\ UNCHANGED db
BY StoppedStep, Zenon DEF Crash

\* ReplayBlocks at start-up.
LEMMA ReplayBlocksStep ==
    ASSUME BlockProcessorIInv, ReplayBlocks
    PROVE  BlockProcessorIInv' /\ UNCHANGED <<Committed, db>>
<1>1. /\ node = "down"
      /\ UNCHANGED <<tip, db, batch, root, task, byQuorum, minable, message>>
      /\ \/ node' \in {"corrupt", "faulted"} /\ UNCHANGED <<cur, coins>>
         \/ /\ cur' = Write(cur, BestBlock, coins.block)
            /\ coins' = [coins EXCEPT !.from = coins.block]
            /\ node' = "replayed"
  BY Zenon DEF ReplayBlocks, minableVars
<1>2. UNCHANGED Committed
  BY <1>1, Zenon DEF Committed
<1>3. cur = Clean
  BY <1>1, Zenon DEF BlockProcessorIInv, NodeInv
<1>4. MinableIsFound'
  BY <1>1, Zenon DEF BlockProcessorIInv, MinableIsFound
<1>5. CASE node' \in {"corrupt", "faulted"} /\ UNCHANGED <<cur, coins>>
  <2>1. TypeOK'
    BY <1>1, <1>5, Zenon DEF BlockProcessorIInv, TypeOK
  <2>2. LayersInv'
    BY <1>1, <1>2, <1>5, Zenon DEF BlockProcessorIInv, LayersInv
  <2>3. NodeInv'
    BY <1>1, <1>3, <1>5, Zenon DEF BlockProcessorIInv, NodeInv
  <2> QED
    BY <1>1, <1>2, <1>4, <2>1, <2>2, <2>3, Zenon DEF BlockProcessorIInv
<1>6. CASE /\ cur' = Write(cur, BestBlock, coins.block)
           /\ coins' = [coins EXCEPT !.from = coins.block]
           /\ node' = "replayed"
  <2>1. /\ coins'.block = coins.block /\ coins'.from = coins.block
        /\ coins' \in [block : Blocks, from : Blocks]
    BY <1>6, Zenon DEF BlockProcessorIInv, TypeOK
  <2>2. cur' = [k \in Keys |-> cur'[k]]
    BY <1>3, <1>6, Zenon DEF Write, Clean, Clear
  <2>3. TypeOK'
    BY <1>1, <1>6, <2>1, <2>2, Zenon DEF BlockProcessorIInv, TypeOK
  <2>4. LayersInv'
    BY <1>1, <1>2, <2>1, Zenon DEF BlockProcessorIInv, LayersInv
  <2>5. NodeInv'
    BY <1>1, <1>3, <1>6, <2>1, Zenon DEF BlockProcessorIInv, NodeInv
  <2> QED
    BY <1>1, <1>2, <1>4, <2>3, <2>4, <2>5, Zenon DEF BlockProcessorIInv
<1> QED
  BY <1>1, <1>5, <1>6, Zenon

\* LoadChainTip and VerifyDB at start-up.
LEMMA LoadChainTipStep ==
    ASSUME BlockProcessorIInv, LoadChainTip
    PROVE  BlockProcessorIInv' /\ UNCHANGED <<Committed, db>>
<1>1. /\ node \in {"down", "replayed"}
      /\ cur' = Clean
      /\ UNCHANGED <<db, batch, root, coins, task, message>>
  BY Zenon DEF LoadChainTip
<1>2. LayersInv' /\ UNCHANGED Committed
  BY <1>1, LayersUnchanged, Zenon DEF BlockProcessorIInv
<1>3. cur' = [k \in Keys |-> cur'[k]]
  BY <1>1, LayerFacts, Zenon DEF IsFunction
<1>4. CASE node' = "corrupt" /\ UNCHANGED <<tip, minableVars>>
  <2>1. TypeOK'
    BY <1>1, <1>3, <1>4, Zenon DEF BlockProcessorIInv, TypeOK, minableVars
  <2>2. NodeInv'
    BY <1>1, <1>4, Zenon DEF BlockProcessorIInv, NodeInv, minableVars
  <2>3. MinableIsFound'
    BY <1>4, Zenon DEF BlockProcessorIInv, MinableIsFound, minableVars
  <2> QED
    BY <1>1, <1>2, <2>1, <2>2, <2>3, Zenon DEF BlockProcessorIInv
<1>5. CASE /\ node' = "running"
           /\ tip' = coins.block
           /\ minable' = UNION {RealCommitments(b) : b \in Verified(coins.block)}
           /\ byQuorum' = [q \in Blocks |->
                 IF \E c \in minable' : c.quorum = q
                 THEN CHOOSE c \in minable' : c.quorum = q ELSE NoCommitment]
  <2>1. coins.block \in Blocks /\ ValidBranch(coins.block)
    BY Zenon DEF BlockProcessorIInv, TypeOK, LayersInv
  <2>2. Verified(coins.block) \subseteq Blocks
    BY <2>1, TreeAssumption, Zenon DEF Verified
  <2>3. minable' \in SUBSET Commitment
    BY <1>5, <2>2, RealIsCommitment, Zenon
  <2>4. ASSUME NEW q \in Blocks
        PROVE  \/ byQuorum'[q] = NoCommitment
               \/ byQuorum'[q] \in minable' /\ byQuorum'[q].quorum = q
    BY <1>5, Zenon
  <2>5. byQuorum' \in [Blocks -> Commitment \cup {NoCommitment}]
    <3>1. \A q \in Blocks : byQuorum'[q] \in Commitment \cup {NoCommitment}
      BY <2>3, <2>4, Zenon
    <3>2. byQuorum' = [q \in Blocks |-> byQuorum'[q]]
      BY <1>5, Zenon
    <3> QED
      BY <3>1, <3>2, Zenon
  <2>6. TypeOK'
    BY <1>1, <1>3, <1>5, <2>1, <2>3, <2>5, Zenon DEF BlockProcessorIInv, TypeOK
  <2>7. task' = NoTask
    BY <1>1, Zenon DEF BlockProcessorIInv, NodeInv
  <2>8. TaskInv'
    <3>1. task'.stage = "idle"
      BY <2>7, Zenon DEF NoTask, Task
    <3>2. batch' = Clean
      BY <1>1, Zenon DEF BlockProcessorIInv, NodeInv
    <3> QED
      BY <1>1, <2>7, <3>1, <3>2, Zenon DEF TaskInv
  <2>9. NodeInv'
    BY <1>1, <1>5, <2>1, <2>8, Zenon DEF BlockProcessorIInv, NodeInv
  <2>10. MinableIsFound'
    BY <2>4, Zenon DEF MinableIsFound
  <2> QED
    BY <1>1, <1>2, <2>6, <2>9, <2>10, Zenon DEF BlockProcessorIInv
<1> QED
  BY <1>4, <1>5, Zenon DEF LoadChainTip

\* The databases are wiped and built up again.
LEMMA ReindexStep ==
    ASSUME BlockProcessorIInv, Reindex
    PROVE  /\ BlockProcessorIInv'
           /\ Committed' = BranchContent[Base]
           /\ db' = BranchContent[Base]
<1>1. /\ node \in {"corrupt", "faulted"}
      /\ node' = "running"
      /\ tip' = Base
      /\ db' = BranchContent[Base]
      /\ cur' = Clean
      /\ coins' = [block |-> Base, from |-> Base]
      /\ UNCHANGED <<batch, root, task, byQuorum, minable, message>>
  BY BaseContent, Zenon DEF Reindex, minableVars
<1>2. batch = Clean /\ root = Clean /\ task = NoTask
  BY <1>1, Zenon DEF BlockProcessorIInv, NodeInv
<1>3. /\ Base \in Blocks
      /\ IsFunction(db')
      /\ db'[BestBlock] = Base
      /\ \A k \in Keys : db'[k] # Untouched
  BY <1>1, TreeAssumption, ContentAt, EntryFacts, Zenon
<1>4. Committed' = BranchContent[Base]
  <2>1. Committed' = Over(Clean, Over(Clean, db'))
    BY <1>1, <1>2, Zenon DEF Committed
  <2> QED
    BY <1>1, <1>3, <2>1, OverClean, Zenon
<1>5. LayersInv'
  BY <1>1, <1>3, <1>4, BaseContent, Zenon DEF LayersInv
<1>6. TypeOK'
  <2>1. db' = [k \in Keys |-> db'[k]] /\ cur' = [k \in Keys |-> cur'[k]]
    BY <1>1, <1>3, LayerFacts, Zenon DEF IsFunction
  <2> QED
    BY <1>1, <1>3, <2>1, Zenon DEF BlockProcessorIInv, TypeOK
<1>7. TaskInv'
  BY <1>1, <1>2, Zenon DEF TaskInv, NoTask, Task
<1>8. NodeInv'
  BY <1>1, <1>3, <1>7, BaseContent, Zenon DEF BlockProcessorIInv, NodeInv
<1>9. MinableIsFound'
  BY <1>1, Zenon DEF BlockProcessorIInv, MinableIsFound
<1> QED
  BY <1>1, <1>4, <1>5, <1>6, <1>8, <1>9, Zenon DEF BlockProcessorIInv

\* The threads that add minable commitments.
LEMMA CommitmentSteps ==
    ASSUME BlockProcessorIInv,
           \/ \E c \in Messages : ReceiveCommitment(c) \/ FinalizeCommitment(c)
           \/ VerifyCommitment
           \/ AddCommitment
    PROVE  BlockProcessorIInv' /\ UNCHANGED <<Committed, db>>
<1>1. UNCHANGED <<node, tip, db, batch, root, cur, coins, task>>
  BY Zenon DEF ReceiveCommitment, FinalizeCommitment, VerifyCommitment, AddCommitment, evoVars
<1>2. LayersInv' /\ UNCHANGED Committed
  BY <1>1, LayersUnchanged, Zenon DEF BlockProcessorIInv
<1>3. node = "running"
  BY LayerFacts, Zenon DEF ReceiveCommitment, FinalizeCommitment, VerifyCommitment, AddCommitment
<1>4. TaskInv'
  BY <1>1, <1>2, <1>3, LayerFacts, Zenon DEF TaskInv
<1>5. SUFFICES /\ byQuorum' \in [Blocks -> Commitment \cup {NoCommitment}]
               /\ minable' \in SUBSET Commitment
               /\ MinableIsFound'
               /\ message' \in [stage : {"none", "checked", "verified"},
                                qc : Commitment \cup {NoCommitment}]
               /\ message'.stage # "none" => message'.qc \in Messages
               /\ message'.stage = "none" => message' = NoMessage
  <2>1. TypeOK'
    BY <1>1, <1>5, Zenon DEF BlockProcessorIInv, TypeOK
  <2>2. NodeInv'
    BY <1>1, <1>3, <1>4, <1>5, Zenon DEF BlockProcessorIInv, NodeInv
  <2> QED
    BY <1>1, <1>2, <1>5, <2>1, <2>2, Zenon DEF BlockProcessorIInv
<1>6. ASSUME NEW c \in Messages, FinalizeCommitment(c)
      PROVE  <1>5!1
  <2>1. c \in Commitment
    BY CommitmentAssumption, Zenon
  <2> QED
    BY <1>6, <2>1, AddMinableKeeps, Zenon DEF BlockProcessorIInv, TypeOK, NodeInv,
                                       FinalizeCommitment
<1>7. CASE AddCommitment
  <2>1. message.qc \in Commitment
    BY <1>7, CommitmentAssumption, Zenon DEF BlockProcessorIInv, NodeInv, AddCommitment
  <2> QED
    BY <1>7, <2>1, AddMinableKeeps, Zenon DEF BlockProcessorIInv, AddCommitment, NoMessage
<1>8. ASSUME NEW c \in Messages, ReceiveCommitment(c)
      PROVE  <1>5!1
  <2>1. c \in Commitment
    BY CommitmentAssumption, Zenon
  <2> QED
    BY <1>8, <2>1, Zenon DEF BlockProcessorIInv, TypeOK, MinableIsFound, ReceiveCommitment,
                      minableVars
<1>9. CASE VerifyCommitment
  <2>1. UNCHANGED <<byQuorum, minable>> /\ message.stage = "checked"
    BY <1>9, Zenon DEF VerifyCommitment, minableVars
  <2>2. message' = [message EXCEPT !.stage = "verified"] \/ message' = NoMessage
    BY <1>9, Zenon DEF VerifyCommitment
  <2> QED
    BY <2>1, <2>2 DEF BlockProcessorIInv, TypeOK, MinableIsFound, NodeInv, NoMessage
<1> QED
  BY <1>6, <1>7, <1>8, <1>9, Zenon

-----------------------------------------------------------------------------
(* What a scan of the entries by height reads.                             *)

\* A block of a branch that is no higher than another block of it is an ancestor of
\* that block (CBlockIndex::GetAncestor).
LEMMA LowerIsAncestor ==
    ASSUME NEW b \in Blocks, NEW p \in Chain[b], NEW x \in Chain[b],
           Height[x] <= Height[p]
    PROVE  x \in Chain[p]
<1>1. p \in Blocks /\ x \in Blocks /\ Base \in Blocks
  BY TreeAssumption, Zenon
<1>2. Height[x] \in Nat /\ Height[p] \in Nat /\ Height[Base] \in Nat
  BY <1>1, TreeAssumption, Zenon
<1>3. SessionStart(Height[x]) \in Height[Base] .. Height[x]
  BY <1>1, TreeAssumption, Zenon
<1>4. Height[x] \in Height[Base] .. Height[p]
  BY <1>2, <1>3
<1>5. PICK y \in Chain[p] : Height[y] = Height[x]
  BY <1>1, <1>4, TreeAssumption, Zenon
<1>6. y \in Chain[b]
  BY TreeAssumption, Zenon
<1> QED
  BY <1>5, <1>6, TreeAssumption, Zenon

\* The entry by height that the database of a branch has for one of its blocks.
LEMMA HeightEntryOf ==
    ASSUME NEW b \in Blocks, NEW x \in Chain[b]
    PROVE  HeightEntry(b, Height[x]) =
             IF RealCommitments(x) = {} THEN Absent ELSE Height[OwnCommitment(x).quorum]
<1>1. \A y \in Chain[b] : Height[y] = Height[x] => y = x
  BY TreeAssumption, Zenon
<1>2. CASE RealCommitments(x) = {}
  <2>1. MinedAtHeight(b, Height[x]) = {}
    BY <1>1, <1>2, Zenon DEF MinedAtHeight
  <2> QED
    BY <1>2, <2>1, Zenon DEF HeightEntry, HeightValue
<1>3. CASE RealCommitments(x) # {}
  <2>1. MinedAtHeight(b, Height[x]) = {x}
    BY <1>1, <1>3, Zenon DEF MinedAtHeight
  <2>2. (CHOOSE y \in {x} : TRUE) = x
    BY Zenon
  <2> QED
    BY <1>3, <2>1, <2>2 DEF HeightEntry, HeightValue
<1> QED
  BY <1>2, <1>3, Zenon

\* What the entries by height below a block say is the same on every branch the
\* block is on.
LEMMA HeightEntryBelow ==
    ASSUME NEW b \in Blocks, NEW p \in Chain[b], NEW h \in Nat, h <= Height[p]
    PROVE  HeightEntry(b, h) = HeightEntry(p, h)
<1>1. Chain[p] \subseteq Chain[b]
  BY TreeAssumption, Zenon
<1>2. MinedAtHeight(b, h) = MinedAtHeight(p, h)
  BY <1>1, LowerIsAncestor, Zenon DEF MinedAtHeight
<1> QED
  BY <1>2, Zenon DEF HeightEntry

\* The quorum of a commitment mined on a valid branch is a block of that branch, the
\* one GetAncestor finds at its height.
LEMMA QuorumOnBranch ==
    ASSUME NEW p \in Blocks, ValidBranch(p), NEW x \in Chain[p], RealCommitments(x) # {}
    PROVE  AtHeight(p, Height[OwnCommitment(x).quorum]) = OwnCommitment(x).quorum
<1> DEFINE q == OwnCommitment(x).quorum
           prev == Parent[x]
           start == SessionStart(Height[x])
<1>1. x \in Blocks
  BY TreeAssumption, Zenon
<1>2. x # Base
  BY CommitmentAssumption, RealIsCommitment, <1>1, Zenon
<1>3. prev \in Blocks /\ Chain[prev] \subseteq Chain[p]
  <2>1. prev \in Blocks
    BY <1>1, TreeAssumption, Zenon
  <2>2. Chain[x] = Chain[prev] \cup {x}
    BY <1>1, <1>2, TreeAssumption, Zenon
  <2>3. Chain[x] \subseteq Chain[p]
    BY TreeAssumption, Zenon
  <2> QED
    BY <2>1, <2>2, <2>3, Zenon
<1>4. OwnCommitment(x) \in Commitments[x]
  BY <1>1, RealIsCommitment, Zenon
<1>5. FollowsRule(x)
  BY <1>2, Zenon DEF ValidBranch
<1>6. start <= Height[prev] /\ q = AtHeight(prev, start)
  BY <1>4, <1>5, Zenon DEF FollowsRule
<1>7. start \in Height[Base] .. Height[prev]
  <2>1. start \in Height[Base] .. Height[x]
    BY <1>1, TreeAssumption, Zenon
  <2>2. Height[prev] \in Nat /\ Height[x] \in Nat /\ Height[Base] \in Nat
    BY <1>1, <1>3, TreeAssumption, Zenon
  <2> QED
    BY <1>6, <2>1, <2>2
<1>8. \E y \in Chain[prev] : Height[y] = start
  BY <1>3, <1>7, TreeAssumption, Zenon
<1>9. q \in Chain[prev]
  BY <1>6, <1>8, Zenon DEF AtHeight
<1>10. q \in Chain[p]
  BY <1>3, <1>9, Zenon
<1> HIDE DEF q
<1>11. \A y \in Chain[p] : Height[y] = Height[q] => y = q
  BY <1>10, TreeAssumption, Zenon
<1>12. AtHeight(p, Height[q]) = q
  BY <1>10, <1>11, Zenon DEF AtHeight
<1> QED
  BY <1>12, Zenon DEF q

\* A reader without cs_main sees, up to a block of both the active chain and the
\* database's branch that is not being undone, the entries of that block's branch,
\* as long as CommitRootTransaction has nothing on the way to LevelDB.
LEMMA ScanReads ==
    ASSUME BlockProcessorIInv, node = "running",
           NEW p \in Chain[tip], p \in Chain[Committed[BestBlock]],
           ~(task.stage = "undone" /\ p = tip), task.stage # "batch",
           NEW b \in Blocks, Height[b] <= Height[p]
    PROVE  View[HeightKey(Height[b])] = HeightEntry(p, Height[b])
<1> DEFINE k == HeightKey(Height[b])
           best == Committed[BestBlock]
<1>1. /\ tip \in Blocks /\ TaskInv
      /\ best \in Blocks
      /\ IsFunction(Committed)
      /\ Committed = BranchContent[best]
      /\ Visible = Committed
  BY LayerFacts, Zenon
<1>2. k \in Keys
  BY KeyFacts, Zenon
<1>3. p \in Blocks /\ Height[p] \in Nat /\ Height[b] \in Nat /\ Height[tip] \in Nat
  BY <1>1, TreeAssumption, Zenon
<1>4. Committed[k] = HeightEntry(p, Height[b])
  <2>1. Committed[k] = HeightEntry(best, Height[b])
    BY <1>1, ContentAt
  <2> QED
    BY <1>1, <1>3, <2>1, HeightEntryBelow, Zenon
<1>5. Height[p] <= Height[tip]
  BY <1>1, TreeAssumption, Zenon
<1>6. Clean[k] = Untouched
  BY <1>2, Zenon DEF Clean, Clear
<1>7. cur[k] = Untouched
  <2>1. CASE task.stage = "processed"
    <3>1. task.block \in Blocks \ {Base} /\ Parent[task.block] = tip
      BY <1>1, <2>1, Zenon DEF TaskInv
    <3>2. Height[task.block] = Height[tip] + 1
      BY <3>1, TreeAssumption, Zenon
    <3>3. Height[b] # Height[task.block]
      BY <1>3, <1>5, <3>2
    <3>4. k # HeightKey(Height[task.block])
      BY <3>3, KeyFacts, Zenon
    <3>5. \A c : WriteMined(Clean, task.block, c)[k] = Untouched
      BY <1>2, <1>6, <3>4, KeyFacts, Zenon DEF WriteMined, Write, Clean, Clear
    <3>6. cur = Clean \/ \E c \in RealCommitments(task.block) :
                            cur = WriteMined(Clean, task.block, c)
      BY <1>1, <2>1, Zenon DEF TaskInv
    <3> QED
      BY <1>6, <3>5, <3>6, Zenon
  <2>2. CASE task.stage = "undone"
    <3>1. p # tip
      BY <2>2, Zenon
    <3>2. Height[p] # Height[tip]
      <4>1. CASE tip = Base
        BY <1>1, <3>1, <4>1, TreeAssumption, Zenon
      <4>2. CASE tip # Base
        <5>1. Chain[tip] = Chain[Parent[tip]] \cup {tip}
          BY <1>1, <4>2, TreeAssumption, Zenon
        <5> QED
          BY <1>1, <3>1, <5>1, TreeAssumption, Zenon
      <4> QED
        BY <4>1, <4>2, Zenon
    <3>3. Height[b] # Height[tip]
      BY <1>3, <1>5, <3>2
    <3>4. k # HeightKey(Height[tip])
      BY <3>3, KeyFacts, Zenon
    <3>5. \A c : EraseMined(Clean, tip, c)[k] = Untouched
      BY <1>2, <1>6, <3>4, KeyFacts, Zenon DEF EraseMined, Erase, Clean, Clear
    <3>6. cur = Clean \/ \E c \in RealCommitments(tip) : cur = EraseMined(Clean, tip, c)
      BY <1>1, <2>2, Zenon DEF TaskInv
    <3> QED
      BY <1>6, <3>5, <3>6, Zenon
  <2>3. CASE task.stage \notin {"processed", "undone"}
    <3>1. task.stage \in {"idle", "processed", "undone", "flush", "partial", "coins", "batch"}
      BY Zenon DEF BlockProcessorIInv, TypeOK
    <3>2. cur = Clean
      BY <1>1, <2>3, <3>1, Zenon DEF TaskInv
    <3> QED
      BY <1>6, <3>2, Zenon
  <2> QED
    BY <2>1, <2>2, <2>3, Zenon
<1>8. View[k] = Committed[k]
  BY <1>1, <1>2, <1>7, OverAt, Zenon DEF View
<1> QED
  BY <1>4, <1>8, Zenon

\* Counting the newer pairs <<height, value>> is counting the newer heights.
LEMMA NewerPairs ==
    ASSUME NEW H \in SUBSET Nat, IsFiniteSet(H), NEW f, NEW h \in H
    PROVE  Cardinality({o \in {<<g, f[g]>> : g \in H} : o[1] > h})
             = Cardinality({g \in H : g > h})
<1> DEFINE S == {g \in H : g > h}
           T == {o \in {<<g, f[g]>> : g \in H} : o[1] > h}
           m == [g \in S |-> <<g, f[g]>>]
<1>1. IsFiniteSet(S)
  BY FS_Subset, Zenon
<1>2. m \in [S -> T]
  BY Zenon
<1>3. DOMAIN m = S /\ \A a, c \in S : m[a] = m[c] => a = c
  BY Zenon
<1>4. ASSUME NEW o \in T
      PROVE  \E g \in S : m[g] = o
  <2>1. PICK g \in H : o = <<g, f[g]>>
    BY Zenon
  <2>2. g \in S
    BY <2>1, Zenon
  <2> QED
    BY <2>1, <2>2, Zenon
<1>5. m \in Bijection(S, T)
  <2> HIDE DEF S, T, m
  <2>1. m \in Injection(S, T)
    BY <1>2, <1>3, Zenon DEF Injection, IsInjective
  <2>2. m \in Surjection(S, T)
    BY <1>2, <1>4, Zenon DEF Surjection
  <2> QED
    BY <2>1, <2>2, Zenon DEF Bijection
<1>6. ExistsBijection(S, T)
  BY <1>5, Zenon DEF ExistsBijection
<1> HIDE DEF S, T
<1>7. Cardinality(T) = Cardinality(S)
  BY <1>1, <1>6, FS_Bijection, Zenon
<1> QED
  BY <1>7, Zenon DEF S, T

-----------------------------------------------------------------------------
(* The theorems.                                                           *)

\* BlockProcessorIInv holds of a node that has just begun.
LEMMA InitInvariant == Init => BlockProcessorIInv
<1> SUFFICES ASSUME Init PROVE BlockProcessorIInv
  BY Zenon
<1>1. /\ node = "running" /\ tip = Base /\ batch = Clean /\ root = Clean /\ cur = Clean
      /\ coins = [block |-> Base, from |-> Base]
      /\ task = NoTask /\ byQuorum = NoMinable /\ minable = {} /\ message = NoMessage
      /\ db = BranchContent[Base]
      /\ Base \in Blocks
  BY BaseContent, TreeAssumption, Zenon DEF Init
<1>2. IsFunction(db) /\ db[BestBlock] = Base /\ \A k \in Keys : db[k] # Untouched
  BY <1>1, ContentAt, EntryFacts, Zenon
<1>3. Committed = db
  BY <1>1, <1>2, OverClean, Zenon DEF Committed
<1>4. LayersInv
  BY <1>1, <1>2, <1>3, BaseContent, Zenon DEF LayersInv
<1>5. TypeOK
  <2>1. /\ batch = [k \in Keys |-> batch[k]]
        /\ root = [k \in Keys |-> root[k]]
        /\ cur = [k \in Keys |-> cur[k]]
    BY <1>1, Zenon DEF Clean, Clear
  <2>2. db = [k \in Keys |-> db[k]]
    BY <1>2, Zenon DEF IsFunction
  <2>3. byQuorum \in [Blocks -> Commitment \cup {NoCommitment}]
    BY <1>1, Zenon DEF NoMinable
  <2> QED
    BY <1>1, <1>2, <2>1, <2>2, <2>3, Zenon DEF TypeOK, NoTask, Task, NoMessage
<1>6. TaskInv
  BY <1>1, Zenon DEF TaskInv, NoTask, Task
<1>7. NodeInv
  BY <1>1, <1>6, BaseContent, Zenon DEF NodeInv, NoMessage
<1>8. MinableIsFound
  BY <1>1, Zenon DEF MinableIsFound, NoMinable
<1> QED
  BY <1>4, <1>5, <1>7, <1>8, Zenon DEF BlockProcessorIInv

\* A step that leaves the variables alone preserves the invariant.
LEMMA StutterInvariant ==
    ASSUME BlockProcessorIInv, UNCHANGED vars
    PROVE  BlockProcessorIInv' /\ UNCHANGED <<Committed, db>>
<1>1. UNCHANGED <<node, tip, db, batch, root, cur, coins, task, byQuorum, minable, message>>
  BY Zenon DEF vars, evoVars, minableVars
<1>2. UNCHANGED Committed
  BY <1>1, Zenon DEF Committed
<1>3. TypeOK'
  BY <1>1, Zenon DEF BlockProcessorIInv, TypeOK
<1>4. LayersInv'
  BY <1>1, <1>2, Zenon DEF BlockProcessorIInv, LayersInv
<1>5. TaskInv => TaskInv'
  BY <1>1, <1>2, Zenon DEF TaskInv
<1>6. NodeInv'
  BY <1>1, <1>5, Zenon DEF BlockProcessorIInv, NodeInv
<1>7. MinableIsFound'
  BY <1>1, Zenon DEF BlockProcessorIInv, MinableIsFound
<1> QED
  BY <1>1, <1>2, <1>3, <1>4, <1>6, <1>7, Zenon DEF BlockProcessorIInv

\* Every step of the node is a step of MinedStore on the committed and the durable
\* content, and preserves the invariant.
LEMMA StepRefines ==
    ASSUME BlockProcessorIInv, [Next]_vars
    PROVE  BlockProcessorIInv' /\ [Mined!Next]_(Mined!vars)
<1> USE DEF Mined!vars
<1>1. ASSUME NEW b \in Blocks \ {Base}, ProcessBlock(b)
      PROVE  BlockProcessorIInv' /\ [Mined!Next]_(Mined!vars)
  BY <1>1, ProcessBlockStep, Zenon DEF ProcessBlock, Committed
<1>2. CASE ConnectFails
  BY <1>2, ConnectFailsStep, Zenon DEF ConnectFails, Committed
<1>3. CASE ConnectCommits
  BY <1>3, ConnectCommitsStep, Zenon DEF Mined!Next, Mined!Connect
<1>4. CASE UndoBlock
  BY <1>4, UndoBlockStep, Zenon DEF UndoBlock, Committed
<1>5. CASE DisconnectCommits
  BY <1>5, DisconnectCommitsStep, Zenon DEF Mined!Next, Mined!Disconnect
<1>6. ASSUME NEW stop \in BOOLEAN, AbortNode \/ FlushStateToDisk(stop)
      PROVE  BlockProcessorIInv' /\ [Mined!Next]_(Mined!vars)
  BY <1>6, BeginFlushStep, Zenon DEF AbortNode, FlushStateToDisk, Committed, evoVars
<1>7. CASE SkipFlush
  BY <1>7, SkipFlushStep, Zenon DEF SkipFlush, Committed, evoVars
<1>8. CASE WritePartialBatch \/ WriteLastBatch
  BY <1>8, WriteBatchStep, Zenon DEF WritePartialBatch, WriteLastBatch, Committed, evoVars
<1>9. CASE CommitRootTransaction
  BY <1>9, CommitRootStep, Zenon
<1>10. CASE Crash
  BY <1>10, CrashStep, Zenon DEF Mined!Next, Mined!Crash
<1>11. CASE ReplayBlocks
  BY <1>11, ReplayBlocksStep, Zenon
<1>12. CASE LoadChainTip
  BY <1>12, LoadChainTipStep, Zenon
<1>13. CASE Reindex
  BY <1>13, ReindexStep, Zenon DEF Mined!Next, Mined!Rebuild
<1>14. CASE \/ \E c \in Messages : ReceiveCommitment(c) \/ FinalizeCommitment(c)
            \/ VerifyCommitment
            \/ AddCommitment
  BY <1>14, CommitmentSteps, Zenon
<1>15. CASE UNCHANGED vars
  BY <1>15, StutterInvariant, Zenon
<1>16. CASE WriteRootBatch
  BY <1>16, WriteRootStep, Zenon DEF Mined!Next, Mined!Flush
<1> QED
  BY Zenon, <1>1, <1>2, <1>3, <1>4, <1>5, <1>6, <1>7, <1>8, <1>9, <1>10, <1>11, <1>12, <1>13,
     <1>14, <1>15, <1>16 DEF Next

\* At every moment, each layer of the EvoDB holds exactly what is mined on the
\* branch of its best block, whatever blocks are connected, disconnected or fail,
\* and wherever the process dies (ConnectTip, DisconnectTip, FlushStateToDisk).
THEOREM BlockProcessorInvariant == Spec => []BlockProcessorIInv
<1>1. BlockProcessorIInv /\ [Next]_vars => BlockProcessorIInv'
  BY StepRefines, Zenon
<1> QED
  BY InitInvariant, <1>1, PTL DEF Spec

\* On the active chain every block has a commitment just if CQuorumBlockProcessor::
\* ProcessBlock asks for one, and no quorum is mined twice.
THEOREM ChainFollowsRule == Spec => []MiningRule
<1>1. BlockProcessorIInv => MiningRule
  <2> SUFFICES ASSUME BlockProcessorIInv, tip # NoBlock
               PROVE  ValidBranch(tip)
    BY Zenon DEF MiningRule
  <2>1. node = "running"
    BY Zenon DEF BlockProcessorIInv, NodeInv
  <2> QED
    BY <2>1, Zenon DEF BlockProcessorIInv, NodeInv
<1> QED
  BY BlockProcessorInvariant, <1>1, PTL

\* GetMinableCommitment finds the commitment whose hash it has.
THEOREM MinableFound == Spec => []MinableIsFound
<1>1. BlockProcessorIInv => MinableIsFound
  BY Zenon DEF BlockProcessorIInv
<1> QED
  BY BlockProcessorInvariant, <1>1, PTL

\* The tip of a running node only moves to the best block of the EvoDB.
THEOREM TipMoves == Spec => TipMovesWithEvoDB
<1> DEFINE Moves == node = "running" /\ node' = "running" /\ tip' # tip
                      => Committed'[BestBlock] = tip'
<1>1. BlockProcessorIInv /\ [Next]_vars => [Moves]_vars
  <2> SUFFICES ASSUME BlockProcessorIInv, Next, node = "running", node' = "running",
                      tip' # tip
               PROVE  Committed'[BestBlock] = tip'
    BY Zenon
  <2>1. CASE SkipFlush
    <3>1. task.stage \in {"flush", "partial", "coins", "batch"} /\ tip' = task.block
      BY <2>1, Zenon DEF SkipFlush
    <3>2. UNCHANGED Committed
      BY <2>1, Zenon DEF SkipFlush, Committed, evoVars
    <3> QED
      BY <3>1, <3>2, FlushFacts, Zenon
  <2>2. CASE WriteRootBatch
    <3>1. task.stage \in {"flush", "partial", "coins", "batch"} /\ tip' = task.block
      BY <2>2, Zenon DEF WriteRootBatch, Stopped
    <3>2. UNCHANGED Committed
      BY <2>2, WriteRootStep, Zenon
    <3> QED
      BY <3>1, <3>2, FlushFacts, Zenon
  <2>3. CASE /\ ~SkipFlush
             /\ ~WriteRootBatch
    BY <2>3, Zenon DEF Next, ProcessBlock, ConnectFails, ConnectCommits, CommitBlock, UndoBlock,
        DisconnectCommits, AbortNode, FlushStateToDisk, WritePartialBatch,
        WriteLastBatch, CommitRootTransaction, Crash, Stopped, ReplayBlocks, LoadChainTip, Reindex,
        ReceiveCommitment, FinalizeCommitment, VerifyCommitment, AddCommitment
  <2> QED
    BY <2>1, <2>2, <2>3, Zenon
<1> QED
  BY BlockProcessorInvariant, <1>1, PTL DEF Spec, TipMovesWithEvoDB

\* Connecting, disconnecting, flushing, crashing and reindexing implement
\* MinedStore: the content of the EvoDB is a function of one block, moves along the
\* tree one block at a time and falls back to what was last flushed.
THEOREM MinedRefinement == Spec => ImplementsMinedStore
<1>1. Init => Mined!Init
  <2> SUFFICES ASSUME Init PROVE Mined!Init
    BY Zenon
  <2>1. db = BranchContent[Base] /\ batch = Clean /\ root = Clean
    BY BaseContent, Zenon DEF Init
  <2>2. IsFunction(db)
    BY <2>1, TreeAssumption, ContentAt, Zenon
  <2>3. Committed = db
    BY <2>1, <2>2, OverClean, Zenon DEF Committed
  <2> QED
    BY <2>1, <2>3, Zenon DEF Mined!Init
<1>2. BlockProcessorIInv /\ [Next]_vars => [Mined!Next]_(Mined!vars)
  BY StepRefines, Zenon
<1> QED
  BY BlockProcessorInvariant, <1>1, <1>2, PTL DEF Spec, ImplementsMinedStore, Mined!Spec

\* GetMinedCommitmentsUntilBlock, called without cs_main while blocks come and go and
\* coins are flushed, returns the newest commitments mined on the branch of the block
\* it is asked for, unless it runs while CommitRootTransaction, which does not lock
\* the EvoDB, has taken them out of the root transaction and not yet written them.
THEOREM ScansAreBranches == Spec => []ScanIsBranch
<1>1. ASSUME BlockProcessorIInv, NEW p \in Blocks, NEW n \in 1 .. 2,
             node = "running", p \in Chain[tip], p \in Chain[Committed[BestBlock]],
             ~(task.stage = "undone" /\ p = tip), task.stage # "batch"
      PROVE  LET mined == {<<Height[x], OwnCommitment(x).quorum>> :
                              x \in {x \in Chain[p] : RealCommitments(x) # {}}}
             IN  GetMinedCommitmentsUntilBlock(p, n) =
                   {m \in mined : Cardinality({o \in mined : o[1] > m[1]}) < n}
  <2> DEFINE mined == {<<Height[x], OwnCommitment(x).quorum>> :
                          x \in {x \in Chain[p] : RealCommitments(x) # {}}}
             found == {Height[b] : b \in {b \in Blocks :
                          /\ Height[b] > 0
                          /\ Height[b] <= Height[p]
                          /\ View[HeightKey(Height[b])] # Absent}}
             quorum == [h \in found |-> AtHeight(p, View[HeightKey(h)])]
             newer(h) == {g \in found : g > h}
  <2>1. /\ tip \in Blocks /\ ValidBranch(tip)
        /\ Chain[p] \subseteq Chain[tip]
        /\ Height \in [Blocks -> Nat]
        /\ Chain[tip] \subseteq Blocks
    BY <1>1, LayerFacts, TreeAssumption, Zenon
  <2>2. ValidBranch(p)
    BY <2>1, Zenon DEF ValidBranch
  <2>3. \A b \in Blocks : Height[b] <= Height[p] =>
            View[HeightKey(Height[b])] = HeightEntry(p, Height[b])
    BY <1>1, ScanReads, Zenon
  <2>4. ASSUME NEW x \in Chain[p]
        PROVE  /\ x \in Blocks /\ Height[x] <= Height[p]
               /\ View[HeightKey(Height[x])] =
                    IF RealCommitments(x) = {} THEN Absent
                    ELSE Height[OwnCommitment(x).quorum]
    <3>1. x \in Blocks /\ Height[x] <= Height[p]
      BY <2>1, TreeAssumption, Zenon
    <3> QED
      BY <2>3, <3>1, HeightEntryOf, Zenon
  <2>5. ASSUME NEW x \in Chain[p], RealCommitments(x) # {}
        PROVE  /\ Height[x] \in found
               /\ AtHeight(p, View[HeightKey(Height[x])]) = OwnCommitment(x).quorum
    <3>1. OwnCommitment(x).quorum \in Blocks
      BY <2>4, <2>5, RealIsCommitment, Zenon
    <3>2. View[HeightKey(Height[x])] # Absent
      BY <2>1, <2>4, <2>5, <3>1, MarkersAssumption
    <3>3. Height[x] > 0
      <4>1. x # Base
        BY <2>4, <2>5, RealIsCommitment, CommitmentAssumption, Zenon
      <4>2. Height[x] = Height[Parent[x]] + 1 /\ Parent[x] \in Blocks
        BY <2>4, <4>1, TreeAssumption, Zenon
      <4> QED
        BY <2>1, <4>2
    <3>4. Height[x] \in found
      BY <2>4, <3>2, <3>3, Zenon
    <3>5. AtHeight(p, View[HeightKey(Height[x])]) = OwnCommitment(x).quorum
      BY <2>2, <2>4, <2>5, QuorumOnBranch, Zenon
    <3> QED
      BY <3>4, <3>5, Zenon
  <2>6. ASSUME NEW h \in found
        PROVE  \E x \in Chain[p] : RealCommitments(x) # {} /\ Height[x] = h
    <3>1. PICK b \in Blocks : /\ h = Height[b] /\ Height[b] <= Height[p]
                              /\ View[HeightKey(Height[b])] # Absent
      BY <2>6, Zenon
    <3>2. HeightEntry(p, h) # Absent
      BY <2>3, <3>1, Zenon
    <3> QED
      BY <3>2, Zenon DEF HeightEntry, HeightValue, MinedAtHeight
  <2>7. found \in SUBSET Nat /\ IsFiniteSet(found)
    <3>1. found \subseteq 0 .. Height[p] /\ Height[p] \in Nat
      BY <2>1
    <3>2. IsFiniteSet(0 .. Height[p])
      BY <3>1, FS_Interval
    <3> HIDE DEF found
    <3>3. found \in SUBSET Nat /\ found \in SUBSET (0 .. Height[p])
      BY <3>1
    <3> QED
      BY <3>2, <3>3, FS_Subset, Zenon
  <2>8. mined = {<<h, quorum[h]>> : h \in found}
    <3> HIDE DEF found
    <3>1. ASSUME NEW x \in Chain[p], RealCommitments(x) # {}
          PROVE  Height[x] \in found /\ quorum[Height[x]] = OwnCommitment(x).quorum
      BY <2>5, <3>1, Zenon
    <3> HIDE DEF quorum
    <3>2. mined \subseteq {<<h, quorum[h]>> : h \in found}
      BY <3>1, Zenon
    <3>3. ASSUME NEW h \in found
          PROVE  <<h, quorum[h]>> \in mined
      BY <2>6, <3>1, Zenon
    <3> QED
      BY <3>2, <3>3, Zenon
  <2>9. GetMinedCommitmentsUntilBlock(p, n) =
            {<<h, quorum[h]>> : h \in {h \in found : Cardinality(newer(h)) < n}}
    BY Zenon DEF GetMinedCommitmentsUntilBlock
  <2> HIDE DEF found, quorum, mined
  <2>10. \A h \in found : Cardinality({o \in mined : o[1] > h}) = Cardinality(newer(h))
    BY <2>7, <2>8, NewerPairs
  <2> HIDE DEF newer
  <2>11. GetMinedCommitmentsUntilBlock(p, n) =
             {m \in mined : Cardinality({o \in mined : o[1] > m[1]}) < n}
    <3>1. \A m \in mined : m[1] \in found /\ m = <<m[1], quorum[m[1]]>>
      BY <2>8
    <3>2. \A h \in found : <<h, quorum[h]>> \in mined /\ <<h, quorum[h]>>[1] = h
      BY <2>8, Zenon
    <3> DEFINE count(h) == Cardinality({o \in mined : o[1] > h})
    <3>3. \A h \in found : count(h) = Cardinality(newer(h))
      BY <2>10, Zenon
    <3> HIDE DEF count
    <3>4. GetMinedCommitmentsUntilBlock(p, n) = {m \in mined : count(m[1]) < n}
      BY <2>9, <3>1, <3>2, <3>3, Zenon
    <3> QED
      BY <3>4, Zenon DEF count
  <2> QED
    BY <2>11, Zenon DEF mined
<1>2. BlockProcessorIInv => ScanIsBranch
  BY <1>1, Zenon DEF ScanIsBranch
<1> QED
  BY BlockProcessorInvariant, <1>2, PTL

=============================================================================
