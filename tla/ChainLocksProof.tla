-------------------------- MODULE ChainLocksProof --------------------------
(***************************************************************************)
(* Proofs about ChainLocks, for every block tree, any number of nodes and  *)
(* any CLSIGs, agreeing or not: once a lock is enforced, the active chain  *)
(* stays on it; and what is marked failed for a lock is off its branch, so *)
(* that locks which agree never fail a block of a locked chain.            *)
(***************************************************************************)
EXTENDS ChainLocks, FiniteSetTheorems, TLAPS

-----------------------------------------------------------------------------
(* The block tree.                                                         *)

\* A chain holds its block, the block before it and the genesis block.
LEMMA ChainBasics ==
    ASSUME NEW b \in Blocks
    PROVE  /\ b \in Chain[b]
           /\ Parent[b] \in Blocks
           /\ Parent[b] \in Chain[b]
           /\ Chain[b] \subseteq Blocks
           /\ Chain[Parent[b]] \subseteq Chain[b]
           /\ Genesis \in Chain[b]
           /\ Height[b] \in Nat
<1>1. b \in Chain[b] /\ Parent[b] \in Blocks /\ Chain[b] \subseteq Blocks /\ Height[b] \in Nat
  BY TreeAssumption, Zenon
<1>2. Parent[b] \in Chain[Parent[b]]
  <2>1. \A c \in Blocks \ {Genesis} : c \in Chain[c]
    <3>1. \A c \in Blocks \ {Genesis} : Chain[c] = Chain[Parent[c]] \cup {c}
      BY TreeAssumption, Zenon
    <3> QED  BY <3>1, Zenon
  <2>2. Genesis \in Chain[Genesis]
    BY TreeAssumption, Zenon
  <2> QED  BY <1>1, <2>1, <2>2, Zenon
<1>3. Parent[b] \in Chain[b] /\ Chain[Parent[b]] \subseteq Chain[b]
  <2>1. CASE b = Genesis
    BY <1>1, <2>1, TreeAssumption, Zenon
  <2>2. CASE b # Genesis
    BY <1>1, <1>2, <2>2, TreeAssumption
  <2> QED  BY <2>1, <2>2, Zenon
<1>4. Genesis \in Chain[b]
  <2>1. PICK x \in Chain[b] : Height[x] = 0
    BY <1>1, TreeAssumption
  <2>2. x \in Blocks
    BY <1>1, <2>1, Zenon
  <2>3. CASE x # Genesis
    <3>1. Height[x] = Height[Parent[x]] + 1 /\ Height[Parent[x]] \in Nat
      BY <2>2, <2>3, TreeAssumption, Zenon
    <3> QED  BY <2>1, <3>1
  <2> QED  BY <2>1, <2>3, Zenon
<1> QED  BY <1>1, <1>3, <1>4, Zenon

\* Of two blocks of a chain the lower one is an ancestor of the other.
LEMMA ChainIsTotal ==
    ASSUME NEW b \in Blocks, NEW x \in Chain[b], NEW y \in Chain[b],
           Height[x] <= Height[y]
    PROVE  x \in Chain[y]
<1>1. x \in Blocks /\ y \in Blocks /\ Height[x] \in Nat /\ Height[y] \in Nat
  BY ChainBasics, Zenon
<1>2. PICK z \in Chain[y] : Height[z] = Height[x]
  BY <1>1, TreeAssumption
<1>3. z \in Chain[b]
  BY <1>1, <1>2, TreeAssumption, Zenon
<1> QED  BY <1>2, <1>3, TreeAssumption, Zenon

\* Going back on a chain that does not leave a lock does not leave it either.
LEMMA AncestorIsComparable ==
    ASSUME NEW a \in Blocks, NEW l \in Blocks, Comparable(a, l), NEW x \in Chain[a]
    PROVE  Comparable(x, l)
<1>1. x \in Blocks /\ Height[x] \in Nat /\ Height[l] \in Nat
  BY ChainBasics, Zenon
<1>2. CASE a \in Chain[l]
  BY <1>1, <1>2, TreeAssumption, Zenon DEF Comparable
<1>3. CASE l \in Chain[a]
  <2>1. CASE Height[x] <= Height[l]
    BY <1>3, <2>1, ChainIsTotal, Zenon DEF Comparable
  <2>2. CASE Height[l] <= Height[x]
    BY <1>3, <2>2, ChainIsTotal, Zenon DEF Comparable
  <2> QED  BY <1>1, <2>1, <2>2
<1> QED  BY <1>2, <1>3, Zenon DEF Comparable

\* Connecting only blocks that do not conflict with a lock does not leave it.
LEMMA ConnectedIsComparable ==
    ASSUME NEW a \in Blocks, NEW l \in Blocks, NEW w \in Blocks, Comparable(a, l),
           \A x \in Chain[w] \ Chain[a] : Height[x] <= Height[l] => x \in Chain[l]
    PROVE  Comparable(w, l)
<1>1. Height[w] \in Nat /\ Height[l] \in Nat /\ Height[a] \in Nat
  BY ChainBasics, Zenon
<1>2. CASE Height[w] <= Height[l]
  <2>1. CASE w \in Chain[a]
    BY <2>1, AncestorIsComparable, Zenon
  <2>2. CASE w \notin Chain[a]
    BY <1>2, <2>2, ChainBasics, Zenon DEF Comparable
  <2> QED  BY <2>1, <2>2, Zenon
<1>3. CASE Height[l] < Height[w]
  <2>1. PICK z \in Chain[w] : Height[z] = Height[l]
    <3>1. Height[l] \in 0 .. Height[w]
      BY <1>1, <1>3
    <3> QED  BY <3>1, TreeAssumption, Zenon
  <2>2. z \in Blocks
    BY <2>1, ChainBasics, Zenon
  <2>3. CASE z \in Chain[l]
    <3>1. z = l
      BY <2>1, <2>3, ChainBasics, TreeAssumption, Zenon
    <3> QED  BY <2>1, <3>1, Zenon DEF Comparable
  <2>4. CASE z \notin Chain[l]
    <3>1. z \in Chain[a]
      BY <1>1, <2>1, <2>4
    <3>2. Height[z] <= Height[a]
      BY <3>1, TreeAssumption, Zenon
    <3>3. l \in Chain[a]
      <4>1. CASE a \in Chain[l]
        <5>1. Height[a] <= Height[l]
          BY <4>1, TreeAssumption, Zenon
        <5>2. Height[a] = Height[l]
          BY <1>1, <2>1, <3>2, <5>1
        <5>3. l \in Chain[l]
          BY ChainBasics, Zenon
        <5>4. a = l
          BY <4>1, <5>2, <5>3, TreeAssumption, Zenon
        <5> QED  BY <5>4, ChainBasics, Zenon
      <4> QED  BY <4>1, Zenon DEF Comparable
    <3>4. z = l
      BY <2>1, <3>1, <3>3, TreeAssumption, Zenon
    <3> QED  BY <2>4, <3>4, ChainBasics, Zenon
  <2> QED  BY <2>3, <2>4, Zenon
<1> QED  BY <1>1, <1>2, <1>3

\* A set of blocks has a lowest one.
LEMMA LowestBlock ==
    ASSUME NEW S \in SUBSET Blocks, S # {}
    PROVE  \E x \in S : \A y \in S : Height[x] <= Height[y]
<1> DEFINE Heights == {Height[x] : x \in S}
<1>1. \A x \in S : Height[x] \in Nat
  BY TreeAssumption, Zenon
<1>2. Heights \subseteq Nat /\ Heights # {}
  BY <1>1, Zenon
<1>3. PICK h \in Heights : \A k \in Heights : ~ (<<k, h>> \in OpToRel(<, Nat))
  <2> HIDE DEF Heights
  <2> QED  BY <1>2, NatLessThanWellFounded, WFMin, Zenon
<1>4. \A k \in Heights : ~ (k < h)
  BY <1>2, <1>3, Zenon DEF OpToRel
<1>5. PICK x \in S : h = Height[x]
  BY Zenon
<1>6. \A y \in S : Height[y] \in Heights
  BY Zenon
<1>7. \A y \in S : Height[x] <= Height[y]
  <2> HIDE DEF Heights
  <2> QED  BY <1>1, <1>4, <1>5, <1>6
<1> QED  BY <1>7, Zenon

\* Where a chain and a locked chain part, a block of the one is a sibling of a
\* block of the other: EnforceBestChainLock finds something to invalidate.
LEMMA ForkHasSiblings ==
    ASSUME NEW a \in Blocks, NEW l \in Blocks, ~ Comparable(a, l)
    PROVE  \E x \in Chain[l] \ Chain[a] : \E y \in Chain[a] \ Chain[l] :
              y # Genesis /\ Parent[y] = Parent[x]
<1>1. l \in Chain[l] \ Chain[a]
  BY ChainBasics, Zenon DEF Comparable
<1>2. PICK x \in Chain[l] \ Chain[a] : \A y \in Chain[l] \ Chain[a] : Height[x] <= Height[y]
  BY <1>1, LowestBlock, ChainBasics, Zenon
<1>3. x \in Blocks /\ x # Genesis /\ Parent[x] \in Blocks
  BY <1>2, ChainBasics, Zenon
<1>4. Height[x] = Height[Parent[x]] + 1 /\ Height[Parent[x]] \in Nat
  BY <1>3, TreeAssumption, Zenon
<1>5. Parent[x] \in Chain[l]
  BY <1>2, <1>3, ChainBasics, TreeAssumption, Zenon
<1>6. Parent[x] \in Chain[a]
  BY <1>2, <1>4, <1>5
<1>7. Height[Parent[x]] < Height[a]
  <2>1. Height[Parent[x]] <= Height[a] /\ Height[a] \in Nat
    BY <1>6, TreeAssumption, Zenon
  <2>2. Parent[x] # a
    BY <1>5, Zenon DEF Comparable
  <2>3. Height[Parent[x]] # Height[a]
    BY <1>6, <2>2, ChainBasics, TreeAssumption, Zenon
  <2> QED  BY <1>4, <2>1, <2>3
<1>8. PICK y \in Chain[a] : Height[y] = Height[x]
  <2>1. Height[x] \in 0 .. Height[a]
    BY <1>4, <1>7, ChainBasics
  <2> QED  BY <2>1, TreeAssumption, Zenon
<1>9. y \in Blocks /\ y # Genesis
  BY <1>4, <1>8, ChainBasics, TreeAssumption
<1>10. Height[y] = Height[Parent[y]] + 1 /\ Parent[y] \in Chain[a]
  <2>1. Height[y] = Height[Parent[y]] + 1
    BY <1>9, TreeAssumption, Zenon
  <2>2. Parent[y] \in Chain[a]
    BY <1>8, <1>9, ChainBasics, TreeAssumption, Zenon
  <2> QED  BY <2>1, <2>2, Zenon
<1>11. Parent[y] = Parent[x]
  <2>1. Height[Parent[y]] \in Nat
    BY <1>9, ChainBasics, Zenon
  <2>2. Height[Parent[y]] = Height[Parent[x]]
    BY <1>4, <1>8, <1>10, <2>1
  <2> QED  BY <1>6, <1>10, <2>2, TreeAssumption, Zenon
<1>12. y \notin Chain[l]
  <2>1. CASE y \in Chain[l]
    <3>1. y = x
      BY <1>2, <1>8, <2>1, TreeAssumption, Zenon
    <3> QED  BY <1>2, <1>8, <3>1, Zenon
  <2> QED  BY <2>1, Zenon
<1> QED  BY <1>8, <1>9, <1>11, <1>12, Zenon

-----------------------------------------------------------------------------
(* ActivateBestChain.                                                      *)

\* The block at which ActivateBestChainStep stops is on the way to its target.
LEMMA StopIsOnTheWay ==
    ASSUME TypeOK, NEW n \in Nodes, NEW target \in Blocks
    PROVE  StopBlock(n, target) \in Chain[target]
<1>1. tip[n] \in Blocks /\ Height[tip[n]] \in Nat /\ Height[target] \in Nat
  BY ChainBasics, Zenon DEF TypeOK
<1>2. CASE Height[target] <= Height[tip[n]]
  BY <1>2, ChainBasics, Zenon DEF StopBlock
<1>3. CASE ~ (Height[target] <= Height[tip[n]])
  <2>1. Height[tip[n]] + 1 \in 0 .. Height[target]
    BY <1>1, <1>3
  <2>2. \E x \in Chain[target] : Height[x] = Height[tip[n]] + 1
    BY <2>1, TreeAssumption
  <2> QED  BY <1>3, <2>2, Zenon DEF StopBlock
<1> QED  BY <1>2, <1>3, Zenon

\* A step toward a block with a known chain keeps the active chain known, and does
\* not leave a lock it was on: ConnectBlock refuses whatever conflicts with it.
LEMMA ConnectedChain ==
    ASSUME TypeOK, NEW n \in Nodes, NEW stop \in Blocks, ChainIsKnown(n, stop),
           NEW marked \in SUBSET Blocks, ActivateBestChainStep(n, stop, marked)
    PROVE  \E new \in Blocks :
              /\ tip' = [tip EXCEPT ![n] = new]
              /\ failed' \in [Nodes -> SUBSET Blocks]
              /\ ChainIsKnown(n, new)
              /\ lockIndex[n] # NoBlock /\ Comparable(tip[n], lockIndex[n])
                    => Comparable(new, lockIndex[n])
<1>1. tip[n] \in Blocks /\ lockIndex[n] \in MaybeBlock /\ NoBlock \notin Blocks
  BY ParametersAssumption, Zenon DEF TypeOK
<1>2. CASE Refused(n, stop) = {}
  <2>1. tip' = [tip EXCEPT ![n] = stop] /\ failed' = [failed EXCEPT ![n] = @ \cup marked]
    BY <1>2, Zenon DEF ActivateBestChainStep
  <2>2. ASSUME lockIndex[n] # NoBlock, Comparable(tip[n], lockIndex[n])
        PROVE  Comparable(stop, lockIndex[n])
    <3>1. lockIndex[n] \in Blocks
      BY <1>1, <2>2, Zenon DEF MaybeBlock
    <3>2. \A x \in Chain[stop] \ Chain[tip[n]] :
             Height[x] <= Height[lockIndex[n]] => x \in Chain[lockIndex[n]]
      BY <1>2, <2>2, Zenon DEF Refused, InternalHasConflictingChainLock
    <3> QED  BY <1>1, <2>2, <3>1, <3>2, ConnectedIsComparable, Zenon
  <2> QED  BY <2>1, <2>2, Zenon DEF TypeOK
<1>3. CASE Refused(n, stop) # {}
  <2>1. PICK x \in Refused(n, stop) :
            /\ \A y \in Refused(n, stop) : Height[x] <= Height[y]
            /\ tip' = [tip EXCEPT ![n] = Parent[x]]
            /\ failed' = [failed EXCEPT ![n] = @ \cup marked \cup {x}]
    BY <1>3, Zenon DEF ActivateBestChainStep
  <2>2. x \in Blocks /\ x \in Chain[stop] /\ x \notin Chain[tip[n]]
    BY <2>1, ChainBasics, Zenon DEF Refused
  <2>3. Parent[x] \in Blocks /\ Chain[Parent[x]] \subseteq Chain[stop]
    BY <2>2, ChainBasics, TreeAssumption, Zenon
  <2>4. ChainIsKnown(n, Parent[x])
    BY <2>3, <1>1, Zenon DEF ChainIsKnown
  <2>5. failed' \in [Nodes -> SUBSET Blocks]
    BY <2>1, <2>2, Zenon DEF TypeOK
  <2>6. ASSUME lockIndex[n] # NoBlock, Comparable(tip[n], lockIndex[n])
        PROVE  Comparable(Parent[x], lockIndex[n])
    <3>1. lockIndex[n] \in Blocks
      BY <1>1, <2>6, Zenon DEF MaybeBlock
    <3>2. x # Genesis
      BY <1>1, <2>2, ChainBasics
    <3>3. Height[x] = Height[Parent[x]] + 1 /\ Height[Parent[x]] \in Nat
      BY <2>2, <3>2, TreeAssumption, Zenon
    <3>4. \A z \in Chain[Parent[x]] \ Chain[tip[n]] :
             Height[z] <= Height[lockIndex[n]] => z \in Chain[lockIndex[n]]
      <4> SUFFICES ASSUME NEW z \in Chain[Parent[x]] \ Chain[tip[n]],
                          Height[z] <= Height[lockIndex[n]]
                   PROVE  z \in Chain[lockIndex[n]]
        BY Zenon
      <4>1. z \in Chain[stop] \ Chain[tip[n]]
        BY <2>3, Zenon
      <4>2. Height[z] <= Height[Parent[x]] /\ Height[z] \in Nat
        BY <2>3, ChainBasics, TreeAssumption, Zenon
      <4>3. z \notin Refused(n, stop)
        BY <2>1, <3>3, <4>2
      <4> QED  BY <2>6, <4>1, <4>3, Zenon DEF Refused, InternalHasConflictingChainLock
    <3> QED  BY <1>1, <2>3, <2>6, <3>1, <3>4, ConnectedIsComparable, Zenon
  <2> QED  BY <2>1, <2>3, <2>4, <2>5, <2>6, Zenon
<1> QED  BY <1>2, <1>3, Zenon

-----------------------------------------------------------------------------
(* Steps.                                                                  *)

\* Giving thread t of node n a job touches no other thread and no other node.
LEMMA SetJobEffect ==
    ASSUME TypeOK, NEW n \in Nodes, NEW t \in Threads, NEW j \in Jobs, SetJob(n, t, j)
    PROVE  /\ job' \in [Nodes -> [Threads -> Jobs]]
           /\ job'[n][t] = j
           /\ \A m \in Nodes, u \in Threads :
                 job'[m][u] = job[m][u] \/ (m = n /\ u = t)
<1>1. job' = [job EXCEPT ![n] = [job[n] EXCEPT ![t] = j]]
  BY Zenon DEF SetJob
<1>2. job \in [Nodes -> [Threads -> Jobs]]
  BY Zenon DEF TypeOK
<1> QED  BY <1>1, <1>2, Zenon

\* A step that leaves the locks and the enforcing threads alone, forgets no header
\* and does not leave a lock keeps the invariant of every node.
LEMMA QuietStep ==
    ASSUME \A m \in Nodes : NodeIInv(m),
           \A m \in Nodes : headers[m] \subseteq headers'[m],
           \A m \in Nodes : \A b \in headers'[m] : Chain[b] \subseteq headers'[m],
           \A m \in Nodes : tip'[m] # NoBlock => Chain[tip'[m]] \subseteq headers'[m],
           \A m \in Nodes : \A i \in 1 .. Len(data'[m]) :
               data'[m][i] # NoBlock => Chain[data'[m][i]] \subseteq headers'[m],
           \A m \in Nodes, u \in Threads :
               \/ job'[m][u] = job[m][u]
               \/ job[m][u].step \notin {"enforce", "invalidate"} /\ JobIInv(m, u)',
           lockIndex' = lockIndex,
           \A m \in Nodes : lockIndex[m] # NoBlock /\ Comparable(tip[m], lockIndex[m])
               => Comparable(tip'[m], lockIndex[m])
    PROVE  \A m \in Nodes : NodeIInv(m)'
<1> SUFFICES ASSUME NEW m \in Nodes PROVE NodeIInv(m)'
  BY Zenon
<1>1. ChainIsKnown(m, tip[m])'
  BY Zenon DEF ChainIsKnown
<1>2. (\A i \in 1 .. Len(data[m]) : ChainIsKnown(m, data[m][i]))'
  BY Zenon DEF ChainIsKnown
<1>3. ASSUME NEW u \in Threads PROVE JobIInv(m, u)'
  <2>1. JobIInv(m, u)
    BY Zenon DEF NodeIInv
  <2>2. CASE job'[m][u] = job[m][u]
    BY <2>1, <2>2, Zenon DEF JobIInv, ChainIsKnown
  <2> QED  BY <2>2, Zenon
<1>4. (\/ lockIndex[m] = NoBlock
       \/ Comparable(tip[m], lockIndex[m])
       \/ EnforcementPending(m))'
  <2>1. CASE lockIndex[m] = NoBlock
    BY <2>1, Zenon
  <2>2. CASE lockIndex[m] # NoBlock /\ Comparable(tip[m], lockIndex[m])
    <3>1. Comparable(tip'[m], lockIndex'[m])
      BY <2>2, Zenon
    <3> QED  BY <3>1, Zenon DEF Comparable
  <2>3. CASE EnforcementPending(m)
    <3>1. PICK u \in Threads :
             \/ job[m][u].step = "enforce"
             \/ job[m][u].step = "invalidate" /\ job[m][u].block = lockIndex[m]
      BY <2>3, Zenon DEF EnforcementPending
    <3>2. job'[m][u] = job[m][u]
      BY <3>1, Zenon
    <3> QED  BY <3>1, <3>2, Zenon DEF EnforcementPending
  <2> QED  BY <2>1, <2>2, <2>3, Zenon DEF NodeIInv
<1> QED  BY <1>1, <1>2, <1>3, <1>4, Zenon DEF NodeIInv

\* One round of ActivateBestChain keeps the types and the invariant.
LEMMA RoundStep ==
    ASSUME ChainLocksIInv, NEW n \in Nodes, NEW t \in Threads,
           job[n][t].step \in {"activate", "loop", "synced", "connect"},
           ConnectRound(n, t), UNCHANGED <<lockVars, signVars, tasks>>
    PROVE  ChainLocksIInv'
<1> DEFINE start == IF job[n][t].step = "connect" THEN job[n][t].start ELSE tip[n]
           targets == IF job[n][t].block = NoBlock THEN FindMostWorkChain(n)
                      ELSE {job[n][t].block}
           marked == IF job[n][t].block = NoBlock THEN FailedChildren(n) ELSE {}
           last == IF job[n][t].step = "connect" /\ tip[n] \notin targets
                   THEN Job("loop", NoBlock, NoBlock) ELSE Idle
           Result == \E new \in Blocks : \E j \in Jobs :
             /\ tip' = [tip EXCEPT ![n] = new]
             /\ failed' \in [Nodes -> SUBSET Blocks]
             /\ queue' \in [Nodes -> Seq(Events)]
             /\ ChainIsKnown(n, new)
             /\ lockIndex[n] # NoBlock /\ Comparable(tip[n], lockIndex[n])
                   => Comparable(new, lockIndex[n])
             /\ SetJob(n, t, j)
             /\ j.step \in {"idle", "connect", "loop"}
             /\ j.step = "connect" => j.start # NoBlock
             /\ ChainIsKnown(n, j.block)
<1>1. TypeOK /\ NodeIInv(n) /\ JobIInv(n, t) /\ NoBlock \notin Blocks
  BY ParametersAssumption, Zenon DEF ChainLocksIInv, NodeIInv
<1>2. /\ tip[n] \in Blocks /\ job[n][t] \in Jobs
      /\ job[n][t].block \in MaybeBlock /\ job[n][t].start \in MaybeBlock
  BY <1>1 DEF TypeOK, Jobs
<1>3. start \in Blocks
  BY <1>1, <1>2, Zenon DEF JobIInv, MaybeBlock
<1>4. \A x \in targets : x \in MaybeBlock /\ ChainIsKnown(n, x)
  <2>1. CASE job[n][t].block = NoBlock
    <3>1. FindMostWorkChain(n) \subseteq {NoBlock} \cup RangeOf(data[n])
      BY Zenon DEF FindMostWorkChain
    <3>2. \A i \in 1 .. Len(data[n]) : data[n][i] \in Blocks /\ ChainIsKnown(n, data[n][i])
      BY <1>1 DEF TypeOK, NodeIInv
    <3>3. \A x \in RangeOf(data[n]) : x \in Blocks /\ ChainIsKnown(n, x)
      BY <3>2, Zenon DEF RangeOf
    <3> QED  BY <2>1, <3>1, <3>3, Zenon DEF MaybeBlock, ChainIsKnown
  <2>2. CASE job[n][t].block # NoBlock
    BY <1>1, <1>2, <2>2, Zenon DEF JobIInv
  <2> QED  BY <2>1, <2>2, Zenon
<1>5. headers' = headers /\ data' = data
  BY Zenon DEF ConnectRound
<1>6. \A new \in Blocks : Announce(n, start, new) => queue' \in [Nodes -> Seq(Events)]
  <2>1. queue \in [Nodes -> Seq(Events)]
    BY <1>1, Zenon DEF TypeOK
  <2>2. \A new \in Blocks : TipEvent(new) \in Events
    BY Zenon DEF TipEvent, Events, MaybeBlock, Threads
  <2>3. \A new \in Blocks : Append(queue[n], TipEvent(new)) \in Seq(Events)
    BY <2>1, <2>2
  <2> QED  BY <2>1, <2>3, Zenon DEF Announce
<1>6a. marked \in SUBSET Blocks
  BY Zenon DEF FailedChildren
<1>7. Result
  <2>1. CASE /\ targets \cap {NoBlock, tip[n]} # {}
             /\ Announce(n, start, tip[n])
             /\ SetJob(n, t, last)
             /\ failed' = [failed EXCEPT ![n] = @ \cup marked]
             /\ UNCHANGED tip
    <3>1. last \in Jobs /\ last.step \in {"idle", "loop"} /\ last.block = NoBlock
      <4>1. Job("loop", NoBlock, NoBlock) \in Jobs /\ Idle \in Jobs
        BY Zenon DEF Idle, Job, Jobs, MaybeBlock
      <4> QED  BY <4>1, Zenon DEF Idle, Job
    <3>2. tip' = [tip EXCEPT ![n] = tip[n]] /\ failed' \in [Nodes -> SUBSET Blocks]
      <4> HIDE DEF marked
      <4> QED  BY <1>1, <1>6a, <2>1, Zenon DEF TypeOK
    <3>3. ChainIsKnown(n, tip[n]) /\ ChainIsKnown(n, NoBlock)
      BY <1>1, Zenon DEF NodeIInv, ChainIsKnown
    <3>4. queue' \in [Nodes -> Seq(Events)]
      BY <1>2, <1>6, <2>1, Zenon
    <3> HIDE DEF start, targets, marked, last
    <3> QED  BY <1>2, <2>1, <3>1, <3>2, <3>3, <3>4, Zenon
  <2>2. ASSUME NEW target \in targets \ {NoBlock, tip[n]},
               ActivateBestChainStep(n, StopBlock(n, target), marked),
               NEW left \in {target, NoBlock},
               IF Worse(n, tip'[n], start)
               THEN SetJob(n, t, Job("connect", left, start)) /\ UNCHANGED queue
               ELSE /\ Announce(n, start, tip'[n])
                    /\ SetJob(n, t, IF left = tip'[n] THEN Idle
                                    ELSE Job("loop", left, NoBlock))
        PROVE  Result
    <3>1. target \in Blocks /\ ChainIsKnown(n, target)
      BY <1>4, <2>2, Zenon DEF MaybeBlock
    <3>2. StopBlock(n, target) \in Blocks /\ ChainIsKnown(n, StopBlock(n, target))
      <4>1. StopBlock(n, target) \in Chain[target]
        BY <1>1, <3>1, StopIsOnTheWay, Zenon
      <4>2. Chain[target] \subseteq headers[n] /\ Chain[target] \subseteq Blocks
        BY <1>1, <3>1, ChainBasics, Zenon DEF ChainIsKnown
      <4> QED  BY <3>1, <4>1, <4>2, TreeAssumption, Zenon DEF ChainIsKnown
    <3>3. PICK new \in Blocks :
              /\ tip' = [tip EXCEPT ![n] = new]
              /\ failed' \in [Nodes -> SUBSET Blocks]
              /\ ChainIsKnown(n, new)
              /\ lockIndex[n] # NoBlock /\ Comparable(tip[n], lockIndex[n])
                    => Comparable(new, lockIndex[n])
      <4> HIDE DEF marked
      <4> QED  BY <1>1, <1>6a, <2>2, <3>2, ConnectedChain, Zenon
    <3>4. tip'[n] = new
      BY <1>1, <3>3, Zenon DEF TypeOK
    <3>5. /\ left \in MaybeBlock /\ ChainIsKnown(n, left)
      BY <2>2, <3>1, Zenon DEF MaybeBlock, ChainIsKnown
    <3>6. queue' \in [Nodes -> Seq(Events)]
      <4>1. CASE Announce(n, start, tip'[n])
        BY <1>6, <3>4, <4>1, Zenon
      <4>2. CASE UNCHANGED queue
        BY <1>1, <4>2, Zenon DEF TypeOK
      <4> HIDE DEF start
      <4> QED  BY <2>2, <4>1, <4>2, Zenon
    <3>7. \E j \in Jobs : /\ SetJob(n, t, j)
                          /\ j.step \in {"idle", "connect", "loop"}
                          /\ j.step = "connect" => j.start # NoBlock
                          /\ ChainIsKnown(n, j.block)
      <4> DEFINE c == Job("connect", left, start)
                 l == Job("loop", left, NoBlock)
      <4>1. c \in Jobs /\ c.step = "connect" /\ c.start = start /\ c.block = left
        <5> HIDE DEF start
        <5> QED  BY <1>3, <3>5, Zenon DEF Job, Jobs, MaybeBlock
      <4>2. l \in Jobs /\ l.step = "loop" /\ l.block = left
        BY <3>5, Zenon DEF Job, Jobs, MaybeBlock
      <4>3. Idle \in Jobs /\ Idle.step = "idle" /\ Idle.block = NoBlock
        BY Zenon DEF Idle, Job, Jobs, MaybeBlock
      <4>4. SetJob(n, t, c) \/ SetJob(n, t, l) \/ SetJob(n, t, Idle)
        BY <2>2, Zenon
      <4>5. ChainIsKnown(n, NoBlock)
        BY Zenon DEF ChainIsKnown
      <4> HIDE DEF c, l, start
      <4> QED  BY <1>1, <1>3, <3>5, <4>1, <4>2, <4>3, <4>4, <4>5, Zenon
    <3> HIDE DEF start, targets, marked, last
    <3> QED  BY <3>3, <3>6, <3>7, Zenon
  <2>3. ASSUME NEW target \in targets \ {NoBlock, tip[n]}
        PROVE  (IF Refused(n, StopBlock(n, target)) = {} THEN target ELSE NoBlock)
                  \in {target, NoBlock}
    BY Zenon
  <2> HIDE DEF Result
  <2> QED  BY <2>1, <2>2, <2>3, Zenon DEF ConnectRound
<1>8. PICK new \in Blocks, j \in Jobs :
         /\ tip' = [tip EXCEPT ![n] = new]
         /\ failed' \in [Nodes -> SUBSET Blocks]
         /\ queue' \in [Nodes -> Seq(Events)]
         /\ ChainIsKnown(n, new)
         /\ lockIndex[n] # NoBlock /\ Comparable(tip[n], lockIndex[n])
               => Comparable(new, lockIndex[n])
         /\ SetJob(n, t, j)
         /\ j.step \in {"idle", "connect", "loop"}
         /\ j.step = "connect" => j.start # NoBlock
         /\ ChainIsKnown(n, j.block)
  BY <1>7, Zenon
<1> HIDE DEF start, targets, marked, last, Result
<1>9. /\ job' \in [Nodes -> [Threads -> Jobs]]
      /\ job'[n][t] = j
      /\ \A m \in Nodes, u \in Threads : job'[m][u] = job[m][u] \/ (m = n /\ u = t)
  BY <1>1, <1>8, SetJobEffect, Zenon
<1>10. TypeOK'
  BY <1>1, <1>5, <1>8, <1>9, Zenon DEF TypeOK, lockVars, signVars
<1>11. JobIInv(n, t)'
  BY <1>5, <1>8, <1>9, Zenon DEF JobIInv, ChainIsKnown
<1>12. \A m \in Nodes : NodeIInv(m)'
  <2>1. \A m \in Nodes : NodeIInv(m)
    BY Zenon DEF ChainLocksIInv
  <2>2. /\ \A m \in Nodes : headers[m] \subseteq headers'[m]
        /\ \A m \in Nodes : \A b \in headers'[m] : Chain[b] \subseteq headers'[m]
    BY <1>5, <2>1, Zenon DEF NodeIInv
  <2>3. \A m \in Nodes : tip'[m] # NoBlock => Chain[tip'[m]] \subseteq headers'[m]
    BY <1>1, <1>5, <1>8, <2>1, Zenon DEF TypeOK, NodeIInv, ChainIsKnown
  <2>4. \A m \in Nodes : \A i \in 1 .. Len(data'[m]) :
               data'[m][i] # NoBlock => Chain[data'[m][i]] \subseteq headers'[m]
    BY <1>5, <2>1, Zenon DEF NodeIInv, ChainIsKnown
  <2>5. \A m \in Nodes, u \in Threads :
               \/ job'[m][u] = job[m][u]
               \/ job[m][u].step \notin {"enforce", "invalidate"} /\ JobIInv(m, u)'
    BY <1>9, <1>11, Zenon
  <2>6. lockIndex' = lockIndex
    BY Zenon DEF lockVars
  <2>7. \A m \in Nodes : lockIndex[m] # NoBlock /\ Comparable(tip[m], lockIndex[m])
               => Comparable(tip'[m], lockIndex[m])
    <3> SUFFICES ASSUME NEW m \in Nodes, lockIndex[m] # NoBlock,
                        Comparable(tip[m], lockIndex[m])
                 PROVE  Comparable(tip'[m], lockIndex[m])
      BY Zenon
    <3>1. CASE m = n
      BY <1>1, <1>8, <3>1, Zenon DEF TypeOK
    <3>2. CASE m # n
      BY <1>1, <1>8, <3>2, Zenon DEF TypeOK
    <3> QED  BY <3>1, <3>2, Zenon
  <2> QED  BY <2>1, <2>2, <2>3, <2>4, <2>5, <2>6, <2>7, QuietStep, Zenon
<1> QED  BY <1>10, <1>12, Zenon DEF ChainLocksIInv

\* A thread that has a lock to process or a chain to wait for: the remaining steps
\* of ThreadStep that touch neither the lock nor the chain.
LEMMA WaitStep ==
    ASSUME ChainLocksIInv, NEW n \in Nodes, NEW t \in Threads, NEW j \in Jobs,
           SetJob(n, t, j), job[n][t].step \notin {"enforce", "invalidate"},
           j.step \in {"idle", "lock", "wait", "synced"},
           j.step \in {"wait", "synced"} => ChainIsKnown(n, j.block),
           j.step = "lock" => j.block # NoBlock,
           UNCHANGED <<chainVars, lockIndex>>,
           TypeOK'
    PROVE  ChainLocksIInv'
<1>1. TypeOK /\ \A m \in Nodes : NodeIInv(m)
  BY Zenon DEF ChainLocksIInv
<1>2. /\ job'[n][t] = j
      /\ \A m \in Nodes, u \in Threads : job'[m][u] = job[m][u] \/ (m = n /\ u = t)
  BY <1>1, SetJobEffect, Zenon
<1>3. JobIInv(n, t)'
  BY <1>2, Zenon DEF JobIInv, ChainIsKnown, chainVars
<1>4. /\ \A m \in Nodes : headers[m] \subseteq headers'[m]
      /\ lockIndex' = lockIndex /\ tip' = tip /\ data' = data /\ headers' = headers
  BY Zenon DEF chainVars
<1>5. /\ \A m \in Nodes : tip'[m] # NoBlock => Chain[tip'[m]] \subseteq headers'[m]
      /\ \A m \in Nodes : \A b \in headers'[m] : Chain[b] \subseteq headers'[m]
  BY <1>1, <1>4, Zenon DEF NodeIInv, ChainIsKnown
<1>6. \A m \in Nodes : \A i \in 1 .. Len(data'[m]) :
             data'[m][i] # NoBlock => Chain[data'[m][i]] \subseteq headers'[m]
  BY <1>1, <1>4, Zenon DEF NodeIInv, ChainIsKnown
<1>7. \A m \in Nodes, u \in Threads :
             \/ job'[m][u] = job[m][u]
             \/ job[m][u].step \notin {"enforce", "invalidate"} /\ JobIInv(m, u)'
  BY <1>2, <1>3, Zenon
<1>8. \A m \in Nodes : NodeIInv(m)'
  BY <1>1, <1>4, <1>5, <1>6, <1>7, QuietStep, Zenon
<1> QED  BY <1>8, Zenon DEF ChainLocksIInv

\* A step that changes neither the chain, the lock nor a job keeps the invariant.
LEMMA IdleStep ==
    ASSUME ChainLocksIInv, UNCHANGED <<chainVars, lockIndex, job>>, TypeOK'
    PROVE  ChainLocksIInv'
<1>1. \A m \in Nodes : NodeIInv(m)
  BY Zenon DEF ChainLocksIInv
<1>2. headers' = headers /\ data' = data /\ tip' = tip /\ lockIndex' = lockIndex /\ job' = job
  BY Zenon DEF chainVars
<1>3. ASSUME NEW m \in Nodes PROVE NodeIInv(m)'
  <2>1. /\ ChainIsKnown(m, tip[m])'
        /\ (\A x \in headers[m] : Chain[x] \subseteq headers[m])'
        /\ (\A i \in 1 .. Len(data[m]) : ChainIsKnown(m, data[m][i]))'
    BY <1>1, <1>2, Zenon DEF NodeIInv, ChainIsKnown
  <2>2. \A u \in Threads : JobIInv(m, u)'
    BY <1>1, <1>2, Zenon DEF NodeIInv, JobIInv, ChainIsKnown
  <2>3. (\/ lockIndex[m] = NoBlock
         \/ Comparable(tip[m], lockIndex[m])
         \/ EnforcementPending(m))'
    BY <1>1, <1>2 DEF NodeIInv, EnforcementPending, Comparable
  <2> QED  BY <2>1, <2>2, <2>3, Zenon DEF NodeIInv
<1> QED  BY <1>3, Zenon DEF ChainLocksIInv

\* A new lock comes with a thread that has to enforce it.
LEMMA LockStep ==
    ASSUME ChainLocksIInv, NEW n \in Nodes, NEW t \in Threads, NEW b \in Blocks,
           lockIndex' = [lockIndex EXCEPT ![n] = b], SetJob(n, t, Enforce),
           UNCHANGED chainVars, TypeOK'
    PROVE  ChainLocksIInv'
<1>1. TypeOK /\ (\A m \in Nodes : NodeIInv(m)) /\ NoBlock \notin Blocks
  BY ParametersAssumption, Zenon DEF ChainLocksIInv
<1>2. headers' = headers /\ data' = data /\ tip' = tip
  BY Zenon DEF chainVars
<1>3. Enforce \in Jobs /\ Enforce.step = "enforce"
  BY Zenon DEF Enforce, Job, Jobs, MaybeBlock
<1>4. /\ job'[n][t] = Enforce
      /\ \A m \in Nodes, u \in Threads : job'[m][u] = job[m][u] \/ (m = n /\ u = t)
  BY <1>1, <1>3, SetJobEffect
<1>5. lockIndex'[n] = b /\ \A m \in Nodes \ {n} : lockIndex'[m] = lockIndex[m]
  BY <1>1, Zenon DEF TypeOK
<1>6. ASSUME NEW m \in Nodes PROVE NodeIInv(m)'
  <2>1. ChainIsKnown(m, tip[m])'
    BY <1>1, <1>2, Zenon DEF NodeIInv, ChainIsKnown
  <2>2. /\ (\A i \in 1 .. Len(data[m]) : ChainIsKnown(m, data[m][i]))'
        /\ (\A x \in headers[m] : Chain[x] \subseteq headers[m])'
    BY <1>1, <1>2, Zenon DEF NodeIInv, ChainIsKnown
  <2>3. ASSUME NEW u \in Threads PROVE JobIInv(m, u)'
    <3>1. JobIInv(m, u)
      BY <1>1, Zenon DEF NodeIInv
    <3>2. lockIndex[m] # NoBlock => lockIndex'[m] # NoBlock
      BY <1>1, <1>5, Zenon
    <3>3. CASE job'[m][u] = job[m][u]
      BY <1>2, <3>1, <3>2, <3>3, Zenon DEF JobIInv, ChainIsKnown
    <3>4. CASE m = n /\ u = t
      BY <1>1, <1>3, <1>4, <1>5, <3>4, Zenon DEF JobIInv
    <3> QED  BY <1>4, <3>3, <3>4, Zenon
  <2>4. (\/ lockIndex[m] = NoBlock
         \/ Comparable(tip[m], lockIndex[m])
         \/ EnforcementPending(m))'
    <3>1. CASE m = n
      BY <1>3, <1>4, <3>1, Zenon DEF EnforcementPending
    <3>2. CASE m # n
      <4>1. /\ lockIndex'[m] = lockIndex[m] /\ tip'[m] = tip[m]
            /\ \A u \in Threads : job'[m][u] = job[m][u]
        BY <1>2, <1>4, <1>5, <3>2, Zenon
      <4>2. \/ lockIndex[m] = NoBlock
            \/ Comparable(tip[m], lockIndex[m])
            \/ EnforcementPending(m)
        BY <1>1, Zenon DEF NodeIInv
      <4>3. EnforcementPending(m) => EnforcementPending(m)'
        BY <4>1, Zenon DEF EnforcementPending
      <4> QED  BY <4>1, <4>2, <4>3, Zenon DEF Comparable
    <3> QED  BY <3>1, <3>2, Zenon
  <2> QED  BY <2>1, <2>2, <2>3, <2>4, Zenon DEF NodeIInv
<1> QED  BY <1>6, Zenon DEF ChainLocksIInv

\* EnforceBestChainLock remembers the lock it has read.
LEMMA ReadLockStep ==
    ASSUME ChainLocksIInv, NEW n \in Nodes, NEW t \in Threads,
           EnforceBestChainLock(n, t)
    PROVE  ChainLocksIInv'
<1> DEFINE j == Job("invalidate", lockIndex[n], NoBlock)
<1>1. TypeOK /\ (\A m \in Nodes : NodeIInv(m)) /\ JobIInv(n, t)
  BY Zenon DEF ChainLocksIInv, NodeIInv
<1>2. headers' = headers /\ data' = data /\ tip' = tip /\ lockIndex' = lockIndex
  BY Zenon DEF EnforceBestChainLock, chainVars, lockVars
<1>3. j \in Jobs /\ j.step = "invalidate" /\ j.block = lockIndex[n]
  BY <1>1, Zenon DEF Job, Jobs, MaybeBlock, TypeOK
<1>4. lockIndex[n] # NoBlock
  BY <1>1, Zenon DEF EnforceBestChainLock, JobIInv
<1>5. /\ job' \in [Nodes -> [Threads -> Jobs]]
      /\ job'[n][t] = j
      /\ \A m \in Nodes, u \in Threads : job'[m][u] = job[m][u] \/ (m = n /\ u = t)
  <2>1. SetJob(n, t, j)
    BY Zenon DEF EnforceBestChainLock
  <2> HIDE DEF j
  <2> QED  BY <1>1, <1>3, <2>1, SetJobEffect, ZenonT(30)
<1> HIDE DEF j
<1>6. TypeOK'
  BY <1>1, <1>5, Zenon DEF EnforceBestChainLock, TypeOK, chainVars, lockVars, signVars
<1>7. ASSUME NEW m \in Nodes PROVE NodeIInv(m)'
  <2>1. ChainIsKnown(m, tip[m])'
    BY <1>1, <1>2, Zenon DEF NodeIInv, ChainIsKnown
  <2>2. /\ (\A i \in 1 .. Len(data[m]) : ChainIsKnown(m, data[m][i]))'
        /\ (\A x \in headers[m] : Chain[x] \subseteq headers[m])'
    BY <1>1, <1>2, Zenon DEF NodeIInv, ChainIsKnown
  <2>3. ASSUME NEW u \in Threads PROVE JobIInv(m, u)'
    <3>1. JobIInv(m, u)
      BY <1>1, Zenon DEF NodeIInv
    <3>2. CASE job'[m][u] = job[m][u]
      BY <1>2, <3>1, <3>2, Zenon DEF JobIInv, ChainIsKnown
    <3>3. CASE m = n /\ u = t
      BY <1>3, <1>4, <1>5, <3>3, Zenon DEF JobIInv
    <3> QED  BY <1>5, <3>2, <3>3, Zenon
  <2>4. (\/ lockIndex[m] = NoBlock
         \/ Comparable(tip[m], lockIndex[m])
         \/ EnforcementPending(m))'
    <3>1. CASE m = n
      BY <1>2, <1>3, <1>5, <3>1, Zenon DEF EnforcementPending
    <3>2. CASE m # n
      <4>1. /\ lockIndex'[m] = lockIndex[m] /\ tip'[m] = tip[m]
            /\ \A u \in Threads : job'[m][u] = job[m][u]
        BY <1>2, <1>5, <3>2, Zenon
      <4>2. \/ lockIndex[m] = NoBlock
            \/ Comparable(tip[m], lockIndex[m])
            \/ EnforcementPending(m)
        BY <1>1, Zenon DEF NodeIInv
      <4>3. EnforcementPending(m) => EnforcementPending(m)'
        BY <4>1, Zenon DEF EnforcementPending
      <4> QED  BY <4>1, <4>2, <4>3, Zenon DEF Comparable
    <3> QED  BY <3>1, <3>2, Zenon
  <2> QED  BY <2>1, <2>2, <2>3, <2>4, Zenon DEF NodeIInv
<1> QED  BY <1>6, <1>7, Zenon DEF ChainLocksIInv

\* InvalidateBlock marks blocks, and takes the tip back on its own chain.
LEMMA InvalidateEffect ==
    ASSUME NEW a \in Blocks, NEW b \in Blocks
    PROVE  /\ AfterInvalidate(a, b) \in Blocks
           /\ AfterInvalidate(a, b) \in Chain[a]
           /\ FailedByInvalidate(a, b) \subseteq Blocks
<1>1. a \in Chain[a] /\ Chain[a] \subseteq Blocks
  BY ChainBasics, Zenon
<1>2. b \in Chain[a] => Parent[b] \in Chain[a]
  BY ChainBasics, TreeAssumption, Zenon
<1>3. AfterInvalidate(a, b) \in Chain[a]
  BY <1>1, <1>2, Zenon DEF AfterInvalidate
<1>4. FailedByInvalidate(a, b) \subseteq Blocks
  BY <1>1, Zenon DEF FailedByInvalidate
<1> QED  BY <1>1, <1>3, <1>4, Zenon

\* A thread that takes the tip back and goes on to ActivateBestChain.
LEMMA BackStep ==
    ASSUME ChainLocksIInv, NEW n \in Nodes, NEW t \in Threads, NEW new \in Chain[tip[n]],
           tip' = [tip EXCEPT ![n] = new], SetJob(n, t, Activate),
           failed' \in [Nodes -> SUBSET Blocks], tasks' \in [Nodes -> SUBSET Blocks],
           UNCHANGED <<headers, data, lockVars, signVars, queue>>,
           \/ job[n][t].step \notin {"enforce", "invalidate"}
           \/ /\ job[n][t].step = "invalidate"
              /\ job[n][t].block = lockIndex[n] => Comparable(new, lockIndex[n])
    PROVE  ChainLocksIInv'
<1>1. TypeOK /\ (\A m \in Nodes : NodeIInv(m)) /\ NoBlock \notin Blocks
  BY ParametersAssumption, Zenon DEF ChainLocksIInv
<1>2. /\ headers' = headers /\ data' = data /\ lockIndex' = lockIndex
      /\ tip[n] \in Blocks /\ new \in Blocks /\ tip'[n] = new
      /\ \A m \in Nodes \ {n} : tip'[m] = tip[m]
  BY <1>1, ChainBasics, Zenon DEF lockVars, TypeOK
<1>3. Activate \in Jobs /\ Activate.step = "activate" /\ Activate.block = NoBlock
  BY Zenon DEF Activate, Job, Jobs, MaybeBlock
<1>4. /\ job' \in [Nodes -> [Threads -> Jobs]]
      /\ job'[n][t] = Activate
      /\ \A m \in Nodes, u \in Threads : job'[m][u] = job[m][u] \/ (m = n /\ u = t)
  BY <1>1, <1>3, SetJobEffect, Zenon
<1>5. TypeOK'
  BY <1>1, <1>2, <1>4, Zenon DEF TypeOK, lockVars, signVars
<1>6. ASSUME NEW m \in Nodes PROVE NodeIInv(m)'
  <2>1. ChainIsKnown(m, tip[m])'
    <3>1. CASE m = n
      <4>1. Chain[new] \subseteq Chain[tip[n]]
        BY <1>2, TreeAssumption, Zenon
      <4>2. Chain[tip[n]] \subseteq headers[n]
        BY <1>1, <1>2, Zenon DEF NodeIInv, ChainIsKnown
      <4> QED  BY <1>2, <3>1, <4>1, <4>2, Zenon DEF ChainIsKnown
    <3>2. CASE m # n
      BY <1>1, <1>2, <3>2, Zenon DEF NodeIInv, ChainIsKnown
    <3> QED  BY <3>1, <3>2, Zenon
  <2>2. /\ (\A i \in 1 .. Len(data[m]) : ChainIsKnown(m, data[m][i]))'
        /\ (\A x \in headers[m] : Chain[x] \subseteq headers[m])'
    BY <1>1, <1>2, Zenon DEF NodeIInv, ChainIsKnown
  <2>3. ASSUME NEW u \in Threads PROVE JobIInv(m, u)'
    <3>1. JobIInv(m, u)
      BY <1>1, Zenon DEF NodeIInv
    <3>2. CASE job'[m][u] = job[m][u]
      BY <1>2, <3>1, <3>2, Zenon DEF JobIInv, ChainIsKnown
    <3>3. CASE m = n /\ u = t
      BY <1>3, <1>4, <3>3, Zenon DEF JobIInv, ChainIsKnown
    <3> QED  BY <1>4, <3>2, <3>3, Zenon
  <2>4. (\/ lockIndex[m] = NoBlock
         \/ Comparable(tip[m], lockIndex[m])
         \/ EnforcementPending(m))'
    <3>1. CASE m = n
      <4>1. CASE lockIndex[n] = NoBlock
        BY <1>2, <3>1, <4>1, Zenon
      <4>2. CASE lockIndex[n] # NoBlock /\ Comparable(tip[n], lockIndex[n])
        <5>1. lockIndex[n] \in Blocks
          BY <1>1, <4>2, Zenon DEF TypeOK, MaybeBlock
        <5>2. Comparable(new, lockIndex[n])
          BY <1>2, <4>2, <5>1, AncestorIsComparable, Zenon
        <5> QED  BY <1>2, <3>1, <5>2, Zenon DEF Comparable
      <4>3. CASE EnforcementPending(n)
        <5>1. PICK u \in Threads :
                 \/ job[n][u].step = "enforce"
                 \/ job[n][u].step = "invalidate" /\ job[n][u].block = lockIndex[n]
          BY <4>3, Zenon DEF EnforcementPending
        <5>2. CASE u = t
          <6>1. Comparable(new, lockIndex[n])
            BY <5>1, <5>2, Zenon
          <6> QED  BY <1>2, <3>1, <6>1, Zenon DEF Comparable
        <5>3. CASE u # t
          BY <1>2, <1>4, <3>1, <5>1, <5>3, Zenon DEF EnforcementPending
        <5> QED  BY <5>2, <5>3, Zenon
      <4> QED  BY <1>1, <4>1, <4>2, <4>3, Zenon DEF NodeIInv
    <3>2. CASE m # n
      <4>1. /\ lockIndex'[m] = lockIndex[m] /\ tip'[m] = tip[m]
            /\ \A u \in Threads : job'[m][u] = job[m][u]
        BY <1>2, <1>4, <3>2, Zenon
      <4>2. \/ lockIndex[m] = NoBlock
            \/ Comparable(tip[m], lockIndex[m])
            \/ EnforcementPending(m)
        BY <1>1, Zenon DEF NodeIInv
      <4>3. EnforcementPending(m) => EnforcementPending(m)'
        BY <4>1, Zenon DEF EnforcementPending
      <4> QED  BY <4>1, <4>2, <4>3, Zenon DEF Comparable
    <3> QED  BY <3>1, <3>2, Zenon
  <2> QED  BY <2>1, <2>2, <2>3, <2>4, Zenon DEF NodeIInv
<1> QED  BY <1>5, <1>6, Zenon DEF ChainLocksIInv

\* Invalidating the siblings of the locked chain leads back to it: either there
\* is nothing to disconnect, or what is disconnected branches off the locked chain.
LEMMA InvalidateStep ==
    ASSUME ChainLocksIInv, NEW n \in Nodes, NEW t \in Threads, InvalidateSiblings(n, t)
    PROVE  ChainLocksIInv'
<1> DEFINE l == job[n][t].block
           path == Chain[l] \ Chain[tip[n]]
           siblings == {y \in headers[n] \ (path \cup {Genesis}) :
                          \E x \in path : Parent[y] = Parent[x]}
           active == siblings \cap Chain[tip[n]]
           new == IF active = {} THEN tip[n]
                  ELSE AfterInvalidate(tip[n], CHOOSE y \in active : TRUE)
<1>1. TypeOK /\ NodeIInv(n) /\ JobIInv(n, t) /\ job[n][t].step = "invalidate"
  BY Zenon DEF ChainLocksIInv, NodeIInv, InvalidateSiblings
<1>2. l \in Blocks /\ tip[n] \in Blocks /\ headers[n] \subseteq Blocks
  <2>1. job[n][t] \in Jobs
    BY <1>1, Zenon DEF TypeOK
  <2> QED  BY <1>1, <2>1, Zenon DEF TypeOK, Jobs, MaybeBlock, JobIInv
<1>3. /\ failed' = [failed EXCEPT ![n] =
                      @ \cup UNION {FailedByInvalidate(tip[n], y) : y \in siblings}]
      /\ tip' = [tip EXCEPT ![n] = new]
      /\ SetJob(n, t, Activate)
      /\ UNCHANGED <<headers, data, lockVars, signVars, queue, tasks>>
  BY Zenon DEF InvalidateSiblings
<1>4. siblings \subseteq Blocks
  BY <1>2, Zenon
<1>5. failed' \in [Nodes -> SUBSET Blocks]
  <2>1. \A y \in siblings : FailedByInvalidate(tip[n], y) \subseteq Blocks
    <3> HIDE DEF siblings
    <3> QED  BY <1>2, <1>4, InvalidateEffect, Zenon
  <2> HIDE DEF siblings
  <2> QED  BY <1>1, <1>3, <2>1 DEF TypeOK
<1>6. new \in Chain[tip[n]]
  <2>1. CASE active = {}
    BY <1>2, <2>1, ChainBasics, Zenon
  <2>2. CASE active # {}
    <3>1. (CHOOSE y \in active : TRUE) \in Blocks
      <4> HIDE DEF siblings
      <4> QED  BY <1>4, <2>2, Zenon
    <3> HIDE DEF siblings
    <3> QED  BY <1>2, <2>2, <3>1, InvalidateEffect, Zenon
  <2> QED  BY <2>1, <2>2, Zenon
<1>7. Comparable(new, l)
  <2>1. CASE active = {}
    <3>1. CASE ~ Comparable(tip[n], l)
      <4>1. PICK x \in path, y \in Chain[tip[n]] \ Chain[l] :
                y # Genesis /\ Parent[y] = Parent[x]
        BY <1>2, <3>1, ForkHasSiblings, Zenon
      <4>2. y \in headers[n]
        BY <1>1, <1>2, <4>1, ParametersAssumption, Zenon DEF NodeIInv, ChainIsKnown
      <4>3. y \in active
        BY <4>1, <4>2, Zenon
      <4> QED  BY <2>1, <4>3, Zenon
    <3> QED  BY <2>1, <3>1, Zenon
  <2>2. CASE active # {}
    <3>1. PICK y \in active : y = CHOOSE z \in active : TRUE
      <4> HIDE DEF active
      <4> QED  BY <2>2, Zenon
    <3>2. new = Parent[y]
      <4>1. y \in Chain[tip[n]]
        BY <3>1, Zenon
      <4> HIDE DEF active
      <4> QED  BY <2>2, <3>1, <4>1, Zenon DEF AfterInvalidate
    <3>3. PICK x \in path : Parent[y] = Parent[x]
      BY <3>1, Zenon
    <3>4. Parent[x] \in Chain[l]
      <4>1. x \in Chain[l] /\ x \in Blocks
        BY <1>2, <3>3, ChainBasics, Zenon
      <4>2. Parent[x] \in Chain[x]
        BY <4>1, ChainBasics, Zenon
      <4> HIDE DEF l, path
      <4> QED  BY <1>2, <4>1, <4>2, TreeAssumption, Zenon
    <3> HIDE DEF new
    <3> QED  BY <3>2, <3>3, <3>4, Zenon DEF Comparable
  <2> QED  BY <2>1, <2>2, Zenon
<1>8. tasks' \in [Nodes -> SUBSET Blocks]
  BY <1>1, <1>3, Zenon DEF TypeOK
<1> HIDE DEF new
<1>9. l = lockIndex[n] => Comparable(new, lockIndex[n])
  BY <1>7, Zenon
<1> QED  BY <1>1, <1>3, <1>5, <1>6, <1>8, <1>9, BackStep, Zenon

\* New headers and new data: a block is stored after its parent.
LEMMA GrowStep ==
    ASSUME ChainLocksIInv, NEW n \in Nodes, NEW b \in Blocks,
           Chain[b] \subseteq headers[n] \cup {b},
           headers' = [headers EXCEPT ![n] = @ \cup {b}],
           data' = data \/ data' = [data EXCEPT ![n] = Append(@, b)],
           \/ job' = job
           \/ job[n]["net"] = Idle /\ SetJob(n, "net", Activate),
           UNCHANGED <<failed, tip, lockVars, signVars, tasks>>,
           queue' = queue \/ queue' = [queue EXCEPT ![n] = Append(@, HeaderEvent(b))]
    PROVE  ChainLocksIInv'
<1>1. TypeOK /\ (\A m \in Nodes : NodeIInv(m)) /\ NoBlock \notin Blocks
  BY ParametersAssumption, Zenon DEF ChainLocksIInv
<1>2. HeaderEvent(b) \in Events
  BY Zenon DEF HeaderEvent, Events, MaybeBlock, Threads
<1>3. /\ headers'[n] = headers[n] \cup {b}
      /\ \A m \in Nodes \ {n} : headers'[m] = headers[m]
  BY <1>1, Zenon DEF TypeOK
<1>4. "net" \in Threads /\ Activate \in Jobs /\ Activate.step = "activate"
      /\ Activate.block = NoBlock /\ Idle.step = "idle"
  BY Zenon DEF Activate, Idle, Job, Jobs, MaybeBlock, Threads
<1>5. /\ job' \in [Nodes -> [Threads -> Jobs]]
      /\ \A m \in Nodes, u \in Threads :
            \/ job'[m][u] = job[m][u]
            \/ job[m][u] = Idle /\ job'[m][u] = Activate
  <2>1. CASE job' = job
    BY <1>1, <2>1, Zenon DEF TypeOK
  <2>2. CASE job[n]["net"] = Idle /\ SetJob(n, "net", Activate)
    <3>1. /\ job' \in [Nodes -> [Threads -> Jobs]]
          /\ job'[n]["net"] = Activate
          /\ \A m \in Nodes, u \in Threads :
                job'[m][u] = job[m][u] \/ (m = n /\ u = "net")
      BY <1>1, <1>4, <2>2, SetJobEffect, ZenonT(30)
    <3> QED  BY <2>2, <3>1, Zenon
  <2> QED  BY <2>1, <2>2, Zenon
<1>6. data' \in [Nodes -> Seq(Blocks)]
  <2>1. data \in [Nodes -> Seq(Blocks)] /\ data[n] \in Seq(Blocks)
    BY <1>1, Zenon DEF TypeOK
  <2>2. Append(data[n], b) \in Seq(Blocks)
    BY <2>1
  <2>3. CASE data' = data
    BY <2>1, <2>3, Zenon
  <2>4. CASE data' = [data EXCEPT ![n] = Append(data[n], b)]
    BY <2>1, <2>2, <2>4, Zenon
  <2> QED  BY <2>3, <2>4, Zenon
<1>7. queue' \in [Nodes -> Seq(Events)]
  <2>1. queue \in [Nodes -> Seq(Events)]
    BY <1>1, Zenon DEF TypeOK
  <2>2. Append(queue[n], HeaderEvent(b)) \in Seq(Events)
    BY <1>2, <2>1
  <2> QED  BY <2>1, <2>2, Zenon
<1>8. headers' \in [Nodes -> SUBSET Blocks]
  <2>1. headers \in [Nodes -> SUBSET Blocks]
    BY <1>1, Zenon DEF TypeOK
  <2>2. headers[n] \cup {b} \in SUBSET Blocks
    BY <2>1, Zenon
  <2> QED  BY <2>1, <2>2, ZenonT(30)
<1>9. TypeOK'
  BY <1>1, <1>5, <1>6, <1>7, <1>8, Zenon DEF TypeOK, lockVars, signVars
<1>10. /\ \A m \in Nodes : headers[m] \subseteq headers'[m]
       /\ \A m \in Nodes : \A x \in headers'[m] : Chain[x] \subseteq headers'[m]
  BY <1>1, <1>3, Zenon DEF NodeIInv
<1>11. \A m \in Nodes : tip'[m] # NoBlock => Chain[tip'[m]] \subseteq headers'[m]
  BY <1>1, <1>10, Zenon DEF NodeIInv, ChainIsKnown
<1>12. ASSUME NEW m \in Nodes, NEW i \in 1 .. Len(data'[m]), data'[m][i] # NoBlock
       PROVE  Chain[data'[m][i]] \subseteq headers'[m]
  <2>1. CASE data'[m] = data[m]
    BY <1>1, <1>10, <1>12, <2>1, Zenon DEF NodeIInv, ChainIsKnown
  <2>2. CASE m = n /\ data' = [data EXCEPT ![n] = Append(@, b)]
    <3>1. data[n] \in Seq(Blocks) /\ data'[n] = Append(data[n], b)
      BY <1>1, <2>2, Zenon DEF TypeOK
    <3>2. Len(data'[n]) = Len(data[n]) + 1 /\ Len(data[n]) \in Nat
      BY <3>1
    <3>3. CASE i = Len(data[n]) + 1
      <4>1. data'[n][i] = b
        BY <3>1, <3>3
      <4> QED  BY <1>3, <2>2, <4>1, Zenon
    <3>4. CASE i \in 1 .. Len(data[n])
      <4>1. data'[n][i] = data[n][i]
        BY <3>1, <3>4
      <4>2. Chain[data[n][i]] \subseteq headers[n]
        BY <1>1, <1>12, <2>2, <3>4, <4>1, Zenon DEF NodeIInv, ChainIsKnown
      <4> QED  BY <1>10, <2>2, <4>1, <4>2, Zenon
    <3>5. i \in 1 .. Len(data[n]) \/ i = Len(data[n]) + 1
      <4>1. i \in 1 .. (Len(data[n]) + 1)
        BY <2>2, <3>2, Zenon
      <4> QED  BY <3>2, <4>1
    <3> QED  BY <3>3, <3>4, <3>5, Zenon
  <2> QED  BY <1>1, <2>1, <2>2, Zenon DEF TypeOK
<1>13. \A m \in Nodes, u \in Threads :
            \/ job'[m][u] = job[m][u]
            \/ job[m][u].step \notin {"enforce", "invalidate"} /\ JobIInv(m, u)'
  BY <1>4, <1>5, Zenon DEF JobIInv, ChainIsKnown
<1>14. lockIndex' = lockIndex /\ tip' = tip
  BY Zenon DEF lockVars
<1>15. \A m \in Nodes : NodeIInv(m)'
  BY <1>1, <1>10, <1>11, <1>12, <1>13, <1>14, QuietStep, Zenon
<1> QED  BY <1>9, <1>15, Zenon DEF ChainLocksIInv

\* A function on 1 .. k is a sequence of length k.
LEMMA FunctionIsSequence ==
    ASSUME NEW S, NEW k \in Nat, NEW f \in [1 .. k -> S]
    PROVE  f \in Seq(S) /\ Len(f) = k
  OBVIOUS

\* After a restart there is no lock; the blocks on disk are those known before.
LEMMA RestartStep ==
    ASSUME ChainLocksIInv, NEW n \in Nodes, Restart(n)
    PROVE  ChainLocksIInv'
<1>1. TypeOK /\ (\A m \in Nodes : NodeIInv(m)) /\ NoBlock \notin Blocks
  BY ParametersAssumption, Zenon DEF ChainLocksIInv
<1>2. PICK k \in DOMAIN data[n], l \in DOMAIN data[n] :
          data' = [data EXCEPT ![n] = [data[n] EXCEPT ![k] = data[n][l], ![l] = data[n][k]]]
  BY Zenon DEF Restart
<1> DEFINE order == [data[n] EXCEPT ![k] = data[n][l], ![l] = data[n][k]]
<1>3. data' = [data EXCEPT ![n] = order]
  BY <1>2, Zenon
<1>4. data[n] \in Seq(Blocks) /\ DOMAIN data[n] = 1 .. Len(data[n]) /\ Len(data[n]) \in Nat
  BY <1>1 DEF TypeOK
<1>5. \A i \in 1 .. Len(data[n]) : order[i] \in RangeOf(data[n])
  BY <1>4, Zenon DEF RangeOf
<1>6. RangeOf(data[n]) \subseteq Blocks
  BY <1>4 DEF RangeOf
<1>7. order \in [1 .. Len(data[n]) -> Blocks]
  BY <1>4, <1>5, <1>6, Zenon
<1> HIDE DEF order
<1>8. order \in Seq(Blocks) /\ Len(order) = Len(data[n])
  BY <1>4, <1>7, FunctionIsSequence, Zenon
<1>9. \A x \in RangeOf(data[n]) : Chain[x] \subseteq headers[n]
  BY <1>1, <1>4 DEF RangeOf, NodeIInv, ChainIsKnown
<1>10. data' \in [Nodes -> Seq(Blocks)] /\ data'[n] = order
       /\ \A m \in Nodes \ {n} : data'[m] = data[m]
  BY <1>1, <1>3, <1>8, Zenon DEF TypeOK
<1>11. /\ headers' = headers /\ tip' = tip /\ lockIndex'[n] = NoBlock
       /\ \A m \in Nodes \ {n} : lockIndex'[m] = lockIndex[m] /\ job'[m] = job[m]
       /\ job'[n] = [t \in Threads |-> IF t = "net" THEN Activate ELSE Idle]
  BY <1>1, Zenon DEF Restart, TypeOK
<1>12. /\ Activate \in Jobs /\ Activate.step = "activate" /\ Activate.block = NoBlock
       /\ Idle \in Jobs /\ Idle.step = "idle"
  BY Zenon DEF Activate, Idle, Job, Jobs, MaybeBlock
<1>13. job' \in [Nodes -> [Threads -> Jobs]]
  BY <1>1, <1>12, Zenon DEF Restart, TypeOK
<1>14. TypeOK'
  <2>1. /\ best' \in [Nodes -> MaybeBlock] /\ lockIndex' \in [Nodes -> MaybeBlock]
        /\ lastSigned' \in [Nodes -> MaybeBlock]
    BY <1>1, Zenon DEF Restart, TypeOK, MaybeBlock
  <2>2. seen' \in [Nodes -> SUBSET Blocks] /\ tasks' \in [Nodes -> SUBSET Blocks]
    BY <1>1, Zenon DEF Restart, TypeOK
  <2>3. queue' \in [Nodes -> Seq(Events)]
    BY <1>1 DEF Restart, TypeOK
  <2>4. UNCHANGED <<headers, failed, tip, relayed, recSig, shares>>
    BY Zenon DEF Restart
  <2> QED  BY <1>1, <1>10, <1>13, <2>1, <2>2, <2>3, <2>4, Zenon DEF TypeOK
<1>15. ASSUME NEW m \in Nodes PROVE NodeIInv(m)'
  <2>1. CASE m = n
    <3>1. /\ ChainIsKnown(n, tip[n])'
          /\ (\A x \in headers[n] : Chain[x] \subseteq headers[n])'
      BY <1>1, <1>11, Zenon DEF NodeIInv, ChainIsKnown
    <3>2. (\A i \in 1 .. Len(data[n]) : ChainIsKnown(n, data[n][i]))'
      BY <1>5, <1>8, <1>9, <1>10, <1>11, Zenon DEF ChainIsKnown
    <3>3. \A u \in Threads : JobIInv(n, u)'
      BY <1>11, <1>12, Zenon DEF JobIInv, ChainIsKnown
    <3> QED  BY <1>11, <2>1, <3>1, <3>2, <3>3, Zenon DEF NodeIInv
  <2>2. CASE m # n
    <3>1. /\ NodeIInv(m) /\ headers' = headers /\ tip' = tip /\ data'[m] = data[m]
          /\ lockIndex'[m] = lockIndex[m] /\ job'[m] = job[m]
      BY <1>1, <1>10, <1>11, <2>2, Zenon
    <3>2. \A u \in Threads : JobIInv(m, u)'
      BY <3>1, Zenon DEF NodeIInv, ChainIsKnown, JobIInv
    <3>3. (\/ lockIndex[m] = NoBlock
           \/ Comparable(tip[m], lockIndex[m])
           \/ EnforcementPending(m))'
      BY <3>1, Zenon DEF NodeIInv, EnforcementPending, Comparable
    <3> QED  BY <3>1, <3>2, <3>3, Zenon DEF NodeIInv, ChainIsKnown
  <2> QED  BY <2>1, <2>2, Zenon
<1> QED  BY <1>14, <1>15, Zenon DEF ChainLocksIInv

-----------------------------------------------------------------------------
(* The theorems.                                                           *)

\* Initially every node knows the genesis block only and has no lock.
LEMMA InvInit ==
    ASSUME Init
    PROVE  ChainLocksIInv
<1>1. Genesis \in Blocks /\ Chain[Genesis] = {Genesis} /\ NoBlock \notin Blocks
  BY TreeAssumption, ParametersAssumption, Zenon
<1>2. Idle \in Jobs /\ Idle.step = "idle"
  BY Zenon DEF Idle, Job, Jobs, MaybeBlock
<1>3. <<Genesis>> \in Seq(Blocks) /\ Len(<<Genesis>>) = 1 /\ <<Genesis>>[1] = Genesis
  BY <1>1
<1>4. <<>> \in Seq(Events)
  OBVIOUS
<1>5. TypeOK
  <2>1. /\ data \in [Nodes -> Seq(Blocks)]
        /\ queue \in [Nodes -> Seq(Events)]
    BY <1>3, <1>4, Zenon DEF Init
  <2>2. job \in [Nodes -> [Threads -> Jobs]]
    BY <1>2, Zenon DEF Init
  <2>3. /\ best \in [Nodes -> MaybeBlock] /\ lockIndex \in [Nodes -> MaybeBlock]
        /\ lastSigned \in [Nodes -> MaybeBlock] /\ tip \in [Nodes -> Blocks]
    BY <1>1, Zenon DEF Init, MaybeBlock
  <2>4. /\ headers \in [Nodes -> SUBSET Blocks] /\ failed \in [Nodes -> SUBSET Blocks]
        /\ seen \in [Nodes -> SUBSET Blocks] /\ relayed \in [Nodes -> SUBSET Blocks]
        /\ recSig \in [Nodes -> SUBSET Blocks] /\ tasks \in [Nodes -> SUBSET Blocks]
        /\ shares \in SUBSET [node : Nodes, block : Blocks]
    BY <1>1, Zenon DEF Init
  <2> QED  BY <2>1, <2>2, <2>3, <2>4, Zenon DEF TypeOK
<1>6. ASSUME NEW n \in Nodes PROVE NodeIInv(n)
  <2>1. /\ headers[n] = {Genesis} /\ data[n] = <<Genesis>> /\ tip[n] = Genesis
        /\ lockIndex[n] = NoBlock /\ \A t \in Threads : job[n][t] = Idle
    BY Zenon DEF Init
  <2>2. \A t \in Threads : JobIInv(n, t)
    BY <1>2, <2>1, Zenon DEF JobIInv
  <2>3. \A i \in 1 .. Len(data[n]) : data[n][i] = Genesis
    BY <1>3, <2>1
  <2> QED  BY <1>1, <2>1, <2>2, <2>3, Zenon DEF NodeIInv, ChainIsKnown
<1> QED  BY <1>5, <1>6, Zenon DEF ChainLocksIInv

\* A block whose parent's header is known has a known chain, but for itself.
LEMMA NewBlockIsKnown ==
    ASSUME NEW n \in Nodes, NodeIInv(n), NEW b \in Blocks,
           b \in headers[n] \/ Parent[b] \in headers[n]
    PROVE  Chain[b] \subseteq headers[n] \cup {b}
<1>1. CASE b \in headers[n]
  BY <1>1, Zenon DEF NodeIInv
<1>2. CASE Parent[b] \in headers[n]
  <2>1. Chain[Parent[b]] \subseteq headers[n]
    BY <1>2, Zenon DEF NodeIInv
  <2>2. Chain[b] \subseteq Chain[Parent[b]] \cup {b}
    BY TreeAssumption, Zenon
  <2> QED  BY <2>1, <2>2, Zenon
<1> QED  BY <1>1, <1>2, Zenon

\* The first part of ProcessNewChainLock keeps the types and gives a thread at
\* most a CLSIG to look at.
LEMMA BeginEffect ==
    ASSUME TypeOK, NEW n \in Nodes, NEW t \in Threads, NEW b \in Blocks,
           BeginChainLock(n, t, b)
    PROVE  /\ seen' \in [Nodes -> SUBSET Blocks]
           /\ UNCHANGED <<best, lockIndex, relayed>>
           /\ \/ job' = job
              \/ SetJob(n, t, Job("lock", b, NoBlock))
           /\ Job("lock", b, NoBlock) \in Jobs
           /\ Job("lock", b, NoBlock).step = "lock"
           /\ Job("lock", b, NoBlock).block = b
<1>1. seen' \in [Nodes -> SUBSET Blocks]
  BY Zenon DEF BeginChainLock, TypeOK
<1>2. job' = job \/ SetJob(n, t, Job("lock", b, NoBlock))
  BY Zenon DEF BeginChainLock, SetJob
<1>3. /\ Job("lock", b, NoBlock) \in Jobs
      /\ Job("lock", b, NoBlock).step = "lock"
      /\ Job("lock", b, NoBlock).block = b
  BY Zenon DEF Job, Jobs, MaybeBlock
<1> QED  BY <1>1, <1>2, <1>3, Zenon DEF BeginChainLock

\* A step that begins with a CLSIG keeps the invariant: BeginChainLock is all of
\* it that the invariant can see.
LEMMA BeginStep ==
    ASSUME ChainLocksIInv, NEW n \in Nodes, NEW t \in Threads, NEW b \in Blocks,
           job[n][t] = Idle, BeginChainLock(n, t, b),
           UNCHANGED <<chainVars, lastSigned, shares, queue, tasks>>,
           recSig' \in [Nodes -> SUBSET Blocks]
    PROVE  ChainLocksIInv'
<1> DEFINE j == Job("lock", b, NoBlock)
<1>1. TypeOK /\ NoBlock \notin Blocks
  BY ParametersAssumption, Zenon DEF ChainLocksIInv
<1>2. /\ seen' \in [Nodes -> SUBSET Blocks]
      /\ UNCHANGED <<best, lockIndex, relayed>>
      /\ job' = job \/ SetJob(n, t, j)
      /\ j \in Jobs /\ j.step = "lock" /\ j.block = b
  BY <1>1, BeginEffect, Zenon
<1> HIDE DEF j
<1>3. job' \in [Nodes -> [Threads -> Jobs]]
  <2>1. CASE job' = job
    BY <1>1, <2>1, Zenon DEF TypeOK
  <2>2. CASE SetJob(n, t, j)
    BY <1>1, <1>2, <2>2, SetJobEffect, Zenon
  <2> QED  BY <1>2, <2>1, <2>2, Zenon
<1>4. TypeOK'
  BY <1>1, <1>2, <1>3, Zenon DEF TypeOK, chainVars
<1>5. Idle.step = "idle"
  BY Zenon DEF Idle, Job
<1>6. CASE job' = job
  BY <1>2, <1>4, <1>6, IdleStep, Zenon DEF chainVars
<1>7. CASE SetJob(n, t, j)
  BY <1>1, <1>2, <1>4, <1>5, <1>7, WaitStep, Zenon DEF chainVars
<1> QED  BY <1>2, <1>6, <1>7, Zenon

\* What a callback finds at the head of the queue, and what it leaves.
LEMMA CallbackEffect ==
    ASSUME TypeOK, NEW n \in Nodes, NEW kind, Callback(n, kind)
    PROVE  /\ Head(queue[n]) \in Events
           /\ Head(queue[n]).kind = kind
           /\ queue' \in [Nodes -> Seq(Events)]
           /\ job[n]["sched"] = Idle
<1>1. queue \in [Nodes -> Seq(Events)] /\ queue[n] # <<>>
  BY Zenon DEF TypeOK, Callback
<1>2. Head(queue[n]) \in Events /\ Tail(queue[n]) \in Seq(Events)
  BY <1>1
<1>3. queue' \in [Nodes -> Seq(Events)]
  BY <1>1, <1>2, Zenon DEF Callback
<1> QED  BY <1>2, <1>3, Zenon DEF Callback

\* ProcessNewChainLock: the CLSIG is dropped, noted, or becomes the lock.
LEMMA ProcessNewChainLockStep ==
    ASSUME ChainLocksIInv, NEW n \in Nodes, NEW t \in Threads, ProcessNewChainLock(n, t)
    PROVE  ChainLocksIInv'
<1> DEFINE b == job[n][t].block
<1>1. TypeOK /\ JobIInv(n, t) /\ NoBlock \notin Blocks
  BY ParametersAssumption, Zenon DEF ChainLocksIInv, NodeIInv
<1>2. b \in Blocks /\ job[n][t].step = "lock"
  <2>1. job[n][t] \in Jobs
    BY <1>1, Zenon DEF TypeOK
  <2> QED  BY <1>1, <2>1, Zenon DEF ProcessNewChainLock, JobIInv, Jobs, MaybeBlock
<1>3. Idle \in Jobs /\ Idle.step = "idle" /\ Enforce \in Jobs
  BY Zenon DEF Idle, Enforce, Job, Jobs, MaybeBlock
<1>4. UNCHANGED <<chainVars, seen, signVars, queue, tasks>>
  BY Zenon DEF ProcessNewChainLock
<1>5. CASE SetJob(n, t, Idle) /\ UNCHANGED <<best, lockIndex, relayed>>
  <2>1. TypeOK'
    BY <1>1, <1>3, <1>4, <1>5, SetJobEffect, Zenon DEF TypeOK, chainVars, signVars
  <2> QED  BY <1>2, <1>3, <1>4, <1>5, <2>1, WaitStep, Zenon
<1>6. CASE /\ best' = [best EXCEPT ![n] = b]
           /\ relayed' = [relayed EXCEPT ![n] = @ \cup {b}]
           /\ lockIndex' = lockIndex
           /\ SetJob(n, t, Idle)
  <2> HIDE DEF b
  <2>1. best' \in [Nodes -> MaybeBlock] /\ relayed' \in [Nodes -> SUBSET Blocks]
    BY <1>1, <1>2, <1>6, Zenon DEF TypeOK, MaybeBlock
  <2>2. TypeOK'
    BY <1>1, <1>3, <1>4, <1>6, <2>1, SetJobEffect, Zenon DEF TypeOK, chainVars, signVars
  <2> QED  BY <1>2, <1>3, <1>4, <1>6, <2>2, WaitStep, Zenon
<1>7. CASE /\ best' = [best EXCEPT ![n] = b]
           /\ relayed' = [relayed EXCEPT ![n] = @ \cup {b}]
           /\ lockIndex' = [lockIndex EXCEPT ![n] = b]
           /\ SetJob(n, t, Enforce)
  <2> HIDE DEF b
  <2>1. /\ best' \in [Nodes -> MaybeBlock] /\ relayed' \in [Nodes -> SUBSET Blocks]
        /\ lockIndex' \in [Nodes -> MaybeBlock]
    BY <1>1, <1>2, <1>7, Zenon DEF TypeOK, MaybeBlock
  <2>2. TypeOK'
    BY <1>1, <1>3, <1>4, <1>7, <2>1, SetJobEffect, Zenon DEF TypeOK, chainVars, signVars
  <2> QED  BY <1>2, <1>4, <1>7, <2>2, LockStep, Zenon
<1> QED  BY <1>5, <1>6, <1>7, Zenon DEF ProcessNewChainLock

\* The callbacks AcceptedBlockHeader, UpdatedBlockTip and SyncCallback.
LEMMA CallbackStep ==
    ASSUME ChainLocksIInv, NEW n \in Nodes,
           AcceptedBlockHeader(n) \/ UpdatedBlockTip(n) \/ SyncCallback(n)
    PROVE  ChainLocksIInv'
<1> DEFINE e == Head(queue[n])
<1>1. TypeOK /\ NoBlock \notin Blocks /\ "sched" \in Threads
  BY ParametersAssumption, Zenon DEF ChainLocksIInv, Threads
<1>2. CASE AcceptedBlockHeader(n)
  <2>1. e \in Events /\ e.kind = "header" /\ queue' \in [Nodes -> Seq(Events)]
    BY <1>1, <1>2, CallbackEffect, Zenon DEF AcceptedBlockHeader
  <2> HIDE DEF e
  <2>2. e.block \in Blocks
    BY <2>1, Zenon DEF Events
  <2>3. UNCHANGED <<chainVars, best, seen, relayed, signVars, tasks>>
    BY <1>2, Zenon DEF AcceptedBlockHeader
  <2>4. CASE UNCHANGED <<lockIndex, job>>
    <3>1. TypeOK'
      BY <1>1, <2>1, <2>3, <2>4, Zenon DEF TypeOK, chainVars, signVars
    <3> QED  BY <2>3, <2>4, <3>1, IdleStep, Zenon
  <2>5. CASE lockIndex' = [lockIndex EXCEPT ![n] = e.block] /\ SetJob(n, "sched", Enforce)
    <3>1. Enforce \in Jobs
      BY Zenon DEF Enforce, Job, Jobs, MaybeBlock
    <3>2. lockIndex' \in [Nodes -> MaybeBlock]
      BY <1>1, <2>2, <2>5, Zenon DEF TypeOK, MaybeBlock
    <3>3. TypeOK'
      BY <1>1, <2>1, <2>3, <2>5, <3>1, <3>2, SetJobEffect, Zenon DEF TypeOK, chainVars, signVars
    <3> QED  BY <1>1, <2>2, <2>3, <2>5, <3>3, LockStep, Zenon
  <2> QED  BY <1>2, <2>4, <2>5, Zenon DEF AcceptedBlockHeader, e
<1>3. CASE UpdatedBlockTip(n)
  <2>1. e \in Events /\ e.kind = "tip" /\ queue' \in [Nodes -> Seq(Events)]
    BY <1>1, <1>3, CallbackEffect, Zenon DEF UpdatedBlockTip
  <2> HIDE DEF e
  <2>2. e.block \in Blocks
    BY <2>1, Zenon DEF Events
  <2>3. UNCHANGED <<chainVars, best, lockIndex, relayed, job>>
    BY <1>3, Zenon DEF UpdatedBlockTip
  <2>4. CASE UNCHANGED <<tasks, seen, signVars>>
    <3>1. TypeOK'
      BY <1>1, <2>1, <2>3, <2>4, Zenon DEF TypeOK, chainVars, signVars
    <3> QED  BY <2>3, <3>1, IdleStep, Zenon
  <2>5. CASE tasks' = [tasks EXCEPT ![n] = @ \cup {e.block}] /\ UNCHANGED <<seen, signVars>>
    <3>1. tasks' \in [Nodes -> SUBSET Blocks]
      BY <1>1, <2>2, <2>5, Zenon DEF TypeOK
    <3>2. TypeOK'
      BY <1>1, <2>1, <2>3, <2>5, <3>1, Zenon DEF TypeOK, chainVars, signVars
    <3> QED  BY <2>3, <3>2, IdleStep, Zenon
  <2>6. CASE /\ lastSigned' = [lastSigned EXCEPT ![n] = e.block]
             /\ shares' = shares \/ shares' = shares \cup {[node |-> n, block |-> e.block]}
             /\ \E old \in SUBSET seen[n] : seen' = [seen EXCEPT ![n] = @ \ old]
             /\ UNCHANGED <<tasks, recSig>>
    <3>0. PICK old \in SUBSET seen[n] : seen' = [seen EXCEPT ![n] = @ \ old]
      BY <2>6, Zenon
    <3>a. seen \in [Nodes -> SUBSET Blocks] /\ seen[n] \ old \in SUBSET Blocks
      BY <1>1, Zenon DEF TypeOK
    <3>b. seen' \in [Nodes -> SUBSET Blocks]
      BY <3>0, <3>a, Zenon
    <3>c. lastSigned' \in [Nodes -> MaybeBlock]
      BY <1>1, <2>2, <2>6, Zenon DEF TypeOK, MaybeBlock
    <3>1. lastSigned' \in [Nodes -> MaybeBlock] /\ seen' \in [Nodes -> SUBSET Blocks]
      BY <3>b, <3>c, Zenon
    <3>2. shares' \in SUBSET [node : Nodes, block : Blocks]
      <4>1. /\ shares \in SUBSET [node : Nodes, block : Blocks]
            /\ [node |-> n, block |-> e.block] \in [node : Nodes, block : Blocks]
        BY <1>1, <2>2, Zenon DEF TypeOK
      <4> QED  BY <2>6, <4>1, Zenon
    <3>3. TypeOK'
      BY <1>1, <2>1, <2>3, <2>6, <3>1, <3>2, Zenon DEF TypeOK, chainVars
    <3> QED  BY <2>3, <3>3, IdleStep, Zenon
  <2> QED  BY <1>3, <2>4, <2>5, <2>6, Zenon DEF UpdatedBlockTip, e
<1>4. CASE SyncCallback(n)
  <2> DEFINE j == Job("synced", job[n][e.thread].block, NoBlock)
  <2>1. e \in Events /\ queue' \in [Nodes -> Seq(Events)]
    BY <1>1, <1>4, CallbackEffect, Zenon DEF SyncCallback
  <2>2. /\ SetJob(n, e.thread, j) /\ job[n][e.thread].step = "wait"
        /\ UNCHANGED <<chainVars, lockVars, signVars, tasks>>
    BY <1>4, Zenon DEF SyncCallback
  <2> HIDE DEF e
  <2>3. e.thread \in Threads
    BY <1>1, <2>1, Zenon DEF Events
  <2>4. job[n][e.thread] \in Jobs /\ JobIInv(n, e.thread)
    BY <1>1, <2>3, ZenonT(20) DEF TypeOK, ChainLocksIInv, NodeIInv
  <2>5. j \in Jobs /\ j.step = "synced" /\ j.block = job[n][e.thread].block
    BY <2>4, Zenon DEF Job, Jobs, MaybeBlock
  <2>6. ChainIsKnown(n, j.block)
    BY <2>2, <2>4, <2>5, Zenon DEF JobIInv
  <2> HIDE DEF j
  <2>7. TypeOK'
    BY <1>1, <2>1, <2>2, <2>3, <2>5, SetJobEffect, Zenon
       DEF TypeOK, chainVars, lockVars, signVars
  <2> QED  BY <2>2, <2>3, <2>5, <2>6, <2>7, WaitStep, Zenon DEF lockVars
<1> QED  BY <1>2, <1>3, <1>4, Zenon

\* What a thread does with its job keeps the invariant.
LEMMA ThreadInv ==
    ASSUME ChainLocksIInv, NEW n \in Nodes, NEW t \in Threads, ThreadStep(n, t)
    PROVE  ChainLocksIInv'
<1>1. TypeOK /\ JobIInv(n, t) /\ job[n][t] \in Jobs
  BY Zenon DEF ChainLocksIInv, NodeIInv, TypeOK
<1>2. CASE ActivateBestChain(n, t)
  BY <1>2, RoundStep, Zenon DEF ActivateBestChain, MayActivate
<1>3. CASE ActivateAfterSync(n, t)
  BY <1>3, RoundStep, Zenon DEF ActivateAfterSync
<1>4. CASE ActivateOn(n, t)
  BY <1>4, RoundStep, Zenon DEF ActivateOn
<1>5. CASE SyncWithValidationInterfaceQueue(n, t)
  <2> DEFINE j == Job("wait", job[n][t].block, NoBlock)
  <2>1. j \in Jobs /\ j.step = "wait" /\ j.block = job[n][t].block
    BY <1>1, Zenon DEF Job, Jobs, MaybeBlock
  <2>2. ChainIsKnown(n, j.block) /\ job[n][t].step \notin {"enforce", "invalidate"}
    BY <1>1, <1>5, <2>1, Zenon DEF JobIInv, SyncWithValidationInterfaceQueue, MayActivate
  <2>3. queue' \in [Nodes -> Seq(Events)]
    <3>1. queue \in [Nodes -> Seq(Events)] /\ SyncEvent(t) \in Events
      BY <1>1, Zenon DEF TypeOK, SyncEvent, Events
    <3>2. Append(queue[n], SyncEvent(t)) \in Seq(Events)
      BY <3>1
    <3> QED  BY <1>5, <3>1, <3>2, Zenon DEF SyncWithValidationInterfaceQueue
  <2>4. SetJob(n, t, j) /\ UNCHANGED <<chainVars, lockVars, signVars, tasks>>
    BY <1>5, Zenon DEF SyncWithValidationInterfaceQueue
  <2> HIDE DEF j
  <2>5. TypeOK'
    BY <1>1, <2>1, <2>3, <2>4, SetJobEffect, Zenon DEF TypeOK, chainVars, lockVars, signVars
  <2> QED  BY <2>1, <2>2, <2>4, <2>5, WaitStep, Zenon DEF lockVars
<1>6. CASE ProcessNewChainLock(n, t)
  BY <1>6, ProcessNewChainLockStep, Zenon
<1>7. CASE EnforceBestChainLock(n, t)
  BY <1>7, ReadLockStep, Zenon
<1>8. CASE InvalidateSiblings(n, t)
  BY <1>8, InvalidateStep, Zenon
<1> QED  BY <1>2, <1>3, <1>4, <1>5, <1>6, <1>7, <1>8, Zenon DEF ThreadStep

\* Every step of the nodes keeps the invariant.
LEMMA InvNext ==
    ASSUME ChainLocksIInv, [Next]_vars
    PROVE  ChainLocksIInv'
<1>1. TypeOK /\ \A n \in Nodes : NodeIInv(n)
  BY Zenon DEF ChainLocksIInv
<1>2. "net" \in Threads /\ "worker" \in Threads /\ "sched" \in Threads /\ Idle.step = "idle"
  BY Zenon DEF Threads, Idle, Job
<1>3. ASSUME NEW n \in Nodes, NEW b \in Blocks, AcceptBlockHeader(n, b)
      PROVE  ChainLocksIInv'
  <2>1. Chain[b] \subseteq headers[n] \cup {b}
    BY <1>1, <1>3, NewBlockIsKnown, Zenon DEF AcceptBlockHeader, HeaderIsAcceptable
  <2> QED  BY <1>3, <2>1, GrowStep, Zenon DEF AcceptBlockHeader
<1>4. ASSUME NEW n \in Nodes, NEW b \in Blocks, ProcessNewBlock(n, b)
      PROVE  ChainLocksIInv'
  <2>1. Chain[b] \subseteq headers[n] \cup {b}
    BY <1>1, <1>4, NewBlockIsKnown, Zenon DEF ProcessNewBlock, HeaderIsAcceptable
  <2> QED  BY <1>4, <2>1, GrowStep, Zenon DEF ProcessNewBlock
<1>5. ASSUME NEW n \in Nodes, NEW b \in Blocks, ProcessMessage(n, b)
      PROVE  ChainLocksIInv'
  BY <1>1, <1>2, <1>5, BeginStep, Zenon DEF ProcessMessage, signVars, TypeOK
<1>6. ASSUME NEW n \in Nodes, NEW b \in Blocks, HandleNewRecoveredSig(n, b)
      PROVE  ChainLocksIInv'
  <2>1. recSig' \in [Nodes -> SUBSET Blocks]
    BY <1>1, <1>6, Zenon DEF HandleNewRecoveredSig, TypeOK
  <2>2. CASE BeginChainLock(n, "worker", b)
    BY <1>2, <1>6, <2>1, <2>2, BeginStep, Zenon DEF HandleNewRecoveredSig
  <2>3. CASE UNCHANGED <<lockVars, job>>
    <3>1. TypeOK'
      BY <1>1, <1>6, <2>1, <2>3, Zenon DEF HandleNewRecoveredSig, TypeOK, chainVars, lockVars
    <3> QED  BY <1>6, <2>3, <3>1, IdleStep, Zenon DEF HandleNewRecoveredSig, lockVars
  <2> QED  BY <1>6, <2>2, <2>3, Zenon DEF HandleNewRecoveredSig
<1>7. ASSUME NEW n \in Nodes, NEW b \in Blocks, DoInvalidateBlock(n, b)
      PROVE  ChainLocksIInv'
  <2>1. tip[n] \in Blocks
    BY <1>1, Zenon DEF TypeOK
  <2>2. /\ AfterInvalidate(tip[n], b) \in Chain[tip[n]]
        /\ FailedByInvalidate(tip[n], b) \subseteq Blocks
    BY <2>1, InvalidateEffect, Zenon
  <2>3. failed' \in [Nodes -> SUBSET Blocks] /\ tasks' \in [Nodes -> SUBSET Blocks]
    BY <1>1, <1>7, <2>2, Zenon DEF DoInvalidateBlock, TypeOK
  <2>4. /\ tip' = [tip EXCEPT ![n] = AfterInvalidate(tip[n], b)]
        /\ SetJob(n, "sched", Activate)
        /\ job[n]["sched"].step \notin {"enforce", "invalidate"}
        /\ UNCHANGED <<headers, data, lockVars, signVars, queue>>
    BY <1>2, <1>7, Zenon DEF DoInvalidateBlock
  <2> QED  BY <1>2, <2>2, <2>3, <2>4, BackStep, Zenon
<1>8. ASSUME NEW n \in Nodes, Restart(n) PROVE ChainLocksIInv'
  BY <1>8, RestartStep, Zenon
<1>9. ASSUME NEW n \in Nodes, SchedulerStep(n) PROVE ChainLocksIInv'
  BY <1>7, <1>9, CallbackStep, Zenon DEF SchedulerStep
<1>10. CASE UNCHANGED vars
  <2>1. UNCHANGED <<chainVars, lockIndex, job>>
    BY <1>10, Zenon DEF vars, lockVars
  <2>2. TypeOK'
    BY <1>1, <1>10, Zenon DEF vars, chainVars, lockVars, signVars, TypeOK
  <2> QED  BY <2>1, <2>2, IdleStep, Zenon
<1>11. ASSUME NEW n \in Nodes, NodeStep(n) PROVE ChainLocksIInv'
  BY <1>3, <1>4, <1>5, <1>6, <1>8, <1>9, <1>11, ThreadInv, Zenon DEF NodeStep
<1> QED  BY <1>10, <1>11, Zenon DEF Next

\* For every tree of blocks, every number of nodes and every queue limit, a node
\* whose active chain is not on its lock has a thread that will enforce that
\* lock; the blocks it may activate are known.
THEOREM ChainLocksInvariant == Spec => []ChainLocksIInv
<1>1. Init => ChainLocksIInv
  BY InvInit, Zenon
<1>2. ChainLocksIInv /\ [Next]_vars => ChainLocksIInv'
  BY InvNext, Zenon
<1> QED  BY <1>1, <1>2, PTL DEF Spec

\* ConnectBlock, EnforceBestChainLock and AcceptBlockHeader together keep the
\* active chain on the lock, whatever the threads of the node interleave.
THEOREM LockedStaysActive == Spec => []LockedChainActive
<1>1. ChainLocksIInv => LockedChainActive
  BY Zenon DEF ChainLocksIInv, NodeIInv, EnforcementPending, LockedChainActive
<1> QED  BY <1>1, ChainLocksInvariant, PTL

-----------------------------------------------------------------------------
(* What is marked failed is off a lock.                                    *)

\* Shares are never withdrawn, so a CLSIG that can be recovered stays so.
LEMMA RecoveredStays ==
    ASSUME shares \subseteq shares', IsFiniteSet(shares'), NEW b \in Blocks, Recovered(b)
    PROVE  Recovered(b)'
<1> DEFINE S == {s \in shares : s.block = b}
           T == {s \in shares' : s.block = b}
<1>1. T \in SUBSET shares' /\ S \in SUBSET T
  BY Zenon
<1> HIDE DEF S, T
<1>2. IsFiniteSet(T)
  BY <1>1, FS_Subset, Zenon
<1>3. IsFiniteSet(S) /\ Cardinality(S) <= Cardinality(T)
  BY <1>1, <1>2, FS_Subset, Zenon
<1>4. Cardinality(S) \in Nat /\ Cardinality(T) \in Nat
  BY <1>2, <1>3, FS_CardinalityType, Zenon
<1>5. OtherShares[b] \in Nat /\ Threshold \in Nat
  BY ParametersAssumption, Zenon
<1>6. Cardinality(S) + OtherShares[b] >= Threshold
  BY Zenon DEF Recovered, S
<1>7. Cardinality(T) + OtherShares[b] >= Threshold
  BY <1>3, <1>4, <1>5, <1>6
<1> QED  BY <1>7, Zenon DEF Recovered, T

\* What is off a lock stays off it.
LEMMA OffStays ==
    ASSUME shares \subseteq shares', IsFiniteSet(shares'), NEW b, OffALock(b)
    PROVE  OffALock(b)'
<1>1. PICK l \in Blocks :
          Recovered(l) /\ \E x \in Chain[b] : Height[x] <= Height[l] /\ x \notin Chain[l]
  BY Zenon DEF OffALock
<1>2. Recovered(l)'
  BY <1>1, RecoveredStays, Zenon
<1> QED  BY <1>1, <1>2, Zenon DEF OffALock

\* What is above a block that is off a lock is off it too.
LEMMA OffAbove ==
    ASSUME NEW b \in Blocks, NEW x \in Chain[b], OffALock(x)
    PROVE  OffALock(b)
<1>1. Chain[x] \subseteq Chain[b]
  BY TreeAssumption, Zenon
<1> QED  BY <1>1, Zenon DEF OffALock

\* A block that conflicts with the lock of a node is off a lock.
LEMMA ConflictIsOff ==
    ASSUME TypeOK, FailureIInv, NEW n \in Nodes, NEW b \in Blocks,
           InternalHasConflictingChainLock(n, b)
    PROVE  OffALock(b)
<1>1. lockIndex[n] \in Blocks /\ Recovered(lockIndex[n])
  BY Zenon DEF TypeOK, MaybeBlock, FailureIInv, InternalHasConflictingChainLock
<1>2. b \in Chain[b]
  BY ChainBasics, Zenon
<1> QED  BY <1>1, <1>2, Zenon DEF OffALock, InternalHasConflictingChainLock

\* If the locks agree, no block of a locked chain is off a lock.
LEMMA LockedIsNotOff ==
    ASSUME LocksAgree, NEW a \in Blocks, Recovered(a), NEW z \in Chain[a]
    PROVE  ~ OffALock(z)
<1> SUFFICES ASSUME OffALock(z) PROVE FALSE
  BY Zenon
<1>1. PICK l \in Blocks :
          Recovered(l) /\ \E x \in Chain[z] : Height[x] <= Height[l] /\ x \notin Chain[l]
  BY Zenon DEF OffALock
<1>2. PICK x \in Chain[z] : Height[x] <= Height[l] /\ x \notin Chain[l]
  BY <1>1, Zenon
<1>3. x \in Chain[a]
  BY <1>2, TreeAssumption, Zenon
<1>4. Comparable(a, l)
  BY <1>1, Zenon DEF LocksAgree
<1>5. CASE a \in Chain[l]
  <2>1. Chain[a] \subseteq Chain[l]
    BY <1>5, TreeAssumption, Zenon
  <2> QED  BY <1>2, <1>3, <2>1, Zenon
<1>6. CASE l \in Chain[a]
  BY <1>2, <1>3, <1>6, ChainIsTotal, Zenon
<1> QED  BY <1>4, <1>5, <1>6, Zenon DEF Comparable

\* A step keeps the invariant if what it adds is a lock with enough shares, or a
\* block that is off one.
LEMMA LocksStep ==
    ASSUME ChainLocksIInv', FailureIInv, shares \subseteq shares', IsFiniteSet(shares'),
           \A m \in Nodes : \A b \in relayed'[m] : Recovered(b),
           \A m \in Nodes : best'[m] # NoBlock => Recovered(best'[m]),
           \A m \in Nodes : lockIndex'[m] # NoBlock => Recovered(lockIndex'[m]),
           \A m \in Nodes, t \in Threads : job'[m][t].step \in {"lock", "invalidate"}
                                             => Recovered(job'[m][t].block),
           \A m \in Nodes : \A b \in failed'[m] \cup tasks'[m] : OffALock(b)
    PROVE  FailureIInv'
<1>1. ASSUME NEW m \in Nodes
      PROVE  /\ relayed'[m] \subseteq Blocks
             /\ best'[m] # NoBlock => best'[m] \in Blocks
             /\ lockIndex'[m] # NoBlock => lockIndex'[m] \in Blocks
  BY Zenon DEF ChainLocksIInv, TypeOK, MaybeBlock
<1>2. ASSUME NEW m \in Nodes, NEW t \in Threads,
             job'[m][t].step \in {"lock", "invalidate"}
      PROVE  job'[m][t].block \in Blocks
  <2>1. job'[m][t] \in Jobs
    BY Zenon DEF ChainLocksIInv, TypeOK
  <2>2. job'[m][t].block # NoBlock
    BY <1>2, Zenon DEF ChainLocksIInv, NodeIInv, JobIInv
  <2> QED  BY <2>1, <2>2, Zenon DEF Jobs, MaybeBlock
<1>3. ASSUME NEW m \in Nodes
      PROVE  /\ \A b \in relayed'[m] : Recovered(b)'
             /\ best'[m] # NoBlock => Recovered(best[m])'
             /\ lockIndex'[m] # NoBlock => Recovered(lockIndex[m])'
             /\ \A t \in Threads : job'[m][t].step \in {"lock", "invalidate"}
                                     => Recovered(job[m][t].block)'
             /\ \A b \in failed'[m] \cup tasks'[m] : OffALock(b)'
  <2>1. \A b \in Blocks : Recovered(b) => Cardinality({s \in shares' : s.block = b})
                                            + OtherShares[b] >= Threshold
    BY RecoveredStays, Zenon DEF Recovered
  <2>2. \A b \in failed'[m] \cup tasks'[m] : OffALock(b)'
    BY OffStays, Zenon
  <2>3. /\ \A b \in relayed'[m] : Recovered(b)'
        /\ best'[m] # NoBlock => Recovered(best[m])'
        /\ lockIndex'[m] # NoBlock => Recovered(lockIndex[m])'
    BY <1>1, <2>1, Zenon DEF Recovered
  <2>4. \A t \in Threads : job'[m][t].step \in {"lock", "invalidate"}
                             => Recovered(job[m][t].block)'
    BY <1>2, <2>1, Zenon DEF Recovered
  <2> QED  BY <2>2, <2>3, <2>4, Zenon
<1> QED  BY <1>3, Zenon DEF FailureIInv

\* What SetJob does to the jobs.
LEMMA JobsAfter ==
    ASSUME TypeOK, NEW n \in Nodes, NEW t \in Threads, NEW j, SetJob(n, t, j)
    PROVE  \A m \in Nodes, u \in Threads :
              job'[m][u] = IF m = n /\ u = t THEN j ELSE job[m][u]
<1>1. job \in [Nodes -> [Threads -> Jobs]]
  BY Zenon DEF TypeOK
<1> QED  BY <1>1, Zenon DEF SetJob

\* A job without a CLSIG.
LEMMA QuietJobs ==
    ASSUME TypeOK, NEW n \in Nodes, NEW t \in Threads, NEW j, SetJob(n, t, j),
           j.step \notin {"lock", "invalidate"}
    PROVE  \A m \in Nodes, u \in Threads : job'[m][u].step \in {"lock", "invalidate"}
                                               => job'[m][u] = job[m][u]
<1>1. ASSUME NEW m \in Nodes, NEW u \in Threads
      PROVE  job'[m][u] = j \/ job'[m][u] = job[m][u]
  BY JobsAfter
<1> QED  BY <1>1, Zenon

\* A job without a CLSIG, or with one that has enough shares.
LEMMA RecoveredJobs ==
    ASSUME TypeOK, FailureIInv, NEW n \in Nodes, NEW t \in Threads, NEW j, SetJob(n, t, j),
           j.step \in {"lock", "invalidate"} => Recovered(j.block)
    PROVE  \A m \in Nodes, u \in Threads : job'[m][u].step \in {"lock", "invalidate"}
                                               => Recovered(job'[m][u].block)
<1>1. ASSUME NEW m \in Nodes, NEW u \in Threads
      PROVE  job'[m][u] = j \/ job'[m][u] = job[m][u]
  BY JobsAfter
<1>2. \A m \in Nodes, u \in Threads : job[m][u].step \in {"lock", "invalidate"}
                                          => Recovered(job[m][u].block)
  BY Zenon DEF FailureIInv
<1> QED  BY <1>1, <1>2, Zenon

\* Siblings have the same height.
LEMMA SiblingsAreLevel ==
    ASSUME NEW x \in Blocks \ {Genesis}, NEW y \in Blocks \ {Genesis}, Parent[x] = Parent[y]
    PROVE  Height[x] = Height[y]
<1>1. Height[x] = Height[Parent[x]] + 1 /\ Height[y] = Height[Parent[y]] + 1
  BY TreeAssumption, Zenon
<1> QED  BY <1>1, Zenon

\* A chain has one block of a height.
LEMMA LevelIsSame ==
    ASSUME NEW b \in Blocks, NEW x \in Chain[b], NEW y \in Chain[b], Height[x] = Height[y]
    PROVE  x = y
BY TreeAssumption, Zenon

\* A step that takes no lock and marks only blocks that are off a lock.
LEMMA MarkStep ==
    ASSUME ChainLocksIInv', FailureIInv, NEW marked,
           \A m \in Nodes : failed'[m] \cup tasks'[m] \subseteq
                              failed[m] \cup tasks[m] \cup marked,
           \A b \in marked : OffALock(b),
           \A m \in Nodes, t \in Threads : job'[m][t].step \in {"lock", "invalidate"}
                                             => job'[m][t] = job[m][t],
           UNCHANGED <<best, lockIndex, relayed, shares>>
    PROVE  FailureIInv'
<1>1. \A m \in Nodes, t \in Threads : job'[m][t].step \in {"lock", "invalidate"}
                                        => Recovered(job'[m][t].block)
  BY Zenon DEF FailureIInv
<1>2. /\ \A m \in Nodes : \A b \in relayed'[m] : Recovered(b)
      /\ \A m \in Nodes : best'[m] # NoBlock => Recovered(best'[m])
      /\ \A m \in Nodes : lockIndex'[m] # NoBlock => Recovered(lockIndex'[m])
      /\ shares \subseteq shares' /\ IsFiniteSet(shares')
  BY Zenon DEF FailureIInv
<1>3. \A m \in Nodes : \A b \in failed'[m] \cup tasks'[m] : OffALock(b)
  BY Zenon DEF FailureIInv
<1> QED  BY <1>1, <1>2, <1>3, LocksStep, Zenon

\* The blocks that FindMostWorkChain marks lie above failed ones.
LEMMA ChildrenAreOff ==
    ASSUME TypeOK, FailureIInv, NEW n \in Nodes, NEW x \in FailedChildren(n)
    PROVE  OffALock(x)
<1>1. x \in Blocks /\ (Chain[x] \ Chain[tip[n]]) \cap failed[n] # {}
  BY Zenon DEF FailedChildren
<1>2. PICK z \in Chain[x] : z \in failed[n]
  BY <1>1, Zenon
<1>3. OffALock(z)
  BY <1>2, Zenon DEF FailureIInv
<1> QED  BY <1>1, <1>3, OffAbove, Zenon

\* The block that ConnectBlock refuses conflicts with the lock.
LEMMA RefusedIsOff ==
    ASSUME TypeOK, FailureIInv, NEW n \in Nodes, NEW b \in Blocks, NEW x \in Refused(n, b)
    PROVE  OffALock(x)
<1>1. x \in Blocks /\ InternalHasConflictingChainLock(n, x)
  BY ChainBasics, Zenon DEF Refused
<1> QED  BY <1>1, ConflictIsOff, Zenon

\* InvalidateBlock marks the block and blocks above it.
LEMMA InvalidatedIsOff ==
    ASSUME NEW a \in Blocks, NEW b \in Blocks, OffALock(b), NEW x \in FailedByInvalidate(a, b)
    PROVE  OffALock(x)
<1>1. x = b \/ (x \in Blocks /\ b \in Chain[x])
  BY ChainBasics, Zenon DEF FailedByInvalidate
<1> QED  BY <1>1, OffAbove, Zenon

\* One round of ActivateBestChain marks what it refuses and what is above failed
\* blocks.
LEMMA RoundMarks ==
    ASSUME ChainLocksIInv, ChainLocksIInv', FailureIInv, NEW n \in Nodes, NEW t \in Threads,
           ConnectRound(n, t), UNCHANGED <<lockVars, signVars, tasks>>,
           job[n][t].step \in {"activate", "loop", "synced", "connect"}
    PROVE  FailureIInv'
<1> DEFINE marked == IF job[n][t].block = NoBlock THEN FailedChildren(n) ELSE {}
           Marks(new) == failed' = [failed EXCEPT ![n] = @ \cup new]
           Quiet == \E j : SetJob(n, t, j) /\ j.step \in {"idle", "loop", "connect"}
           MarksOff == \E new : Marks(new) /\ \A b \in new : OffALock(b)
<1>1. TypeOK /\ UNCHANGED <<best, lockIndex, relayed, shares>>
  BY Zenon DEF ChainLocksIInv, lockVars, signVars
<1>2. \A b \in marked : OffALock(b)
  BY <1>1, ChildrenAreOff, Zenon
<1>3. ASSUME NEW stop \in Blocks, ActivateBestChainStep(n, stop, marked)
      PROVE  MarksOff
  <2> HIDE DEF marked
  <2>1. CASE Refused(n, stop) = {}
    BY <1>2, <1>3, <2>1, Zenon DEF ActivateBestChainStep
  <2>2. CASE Refused(n, stop) # {}
    <3>1. PICK x \in Refused(n, stop) : failed' = [failed EXCEPT ![n] = @ \cup marked \cup {x}]
      BY <1>3, <2>2, Zenon DEF ActivateBestChainStep
    <3>2. Marks(marked \cup {x})
      BY <3>1, Zenon
    <3>3. OffALock(x)
      BY <1>1, RefusedIsOff, Zenon
    <3> QED  BY <1>2, <3>2, <3>3, Zenon
  <2> QED  BY <2>1, <2>2, Zenon
<1>4. \A b, c : /\ Job("loop", b, c).step = "loop"
                /\ Job("connect", b, c).step = "connect"
                /\ Idle.step = "idle"
  BY Zenon DEF Job, Idle
<1>5. MarksOff /\ Quiet
  <2> DEFINE start == IF job[n][t].step = "connect" THEN job[n][t].start ELSE tip[n]
             targets == IF job[n][t].block = NoBlock THEN FindMostWorkChain(n)
                        ELSE {job[n][t].block}
             last == IF job[n][t].step = "connect" /\ tip[n] \notin targets
                     THEN Job("loop", NoBlock, NoBlock) ELSE Idle
  <2>1. ASSUME SetJob(n, t, last), Marks(marked)
        PROVE  MarksOff /\ Quiet
    <3>1. last.step \in {"idle", "loop", "connect"}
      BY <1>4, Zenon
    <3> HIDE DEF last, marked
    <3> QED  BY <1>2, <2>1, <3>1, Zenon
  <2>2. ASSUME NEW target \in targets \ {NoBlock, tip[n]}, NEW left,
               ActivateBestChainStep(n, StopBlock(n, target), marked),
               IF Worse(n, tip'[n], start)
               THEN SetJob(n, t, Job("connect", left, start)) /\ UNCHANGED queue
               ELSE /\ Announce(n, start, tip'[n])
                    /\ SetJob(n, t, IF left = tip'[n] THEN Idle
                                    ELSE Job("loop", left, NoBlock))
        PROVE  MarksOff /\ Quiet
    <3>1. target \in Blocks
      <4>1. job[n][t] \in Jobs /\ \A i \in 1 .. Len(data[n]) : data[n][i] \in Blocks
        <5>1. job[n][t] \in Jobs
          BY <1>1, Zenon DEF TypeOK
        <5>2. data[n] \in Seq(Blocks)
          BY <1>1, Zenon DEF TypeOK
        <5>3. \A i \in 1 .. Len(data[n]) : data[n][i] \in Blocks
          BY <5>2
        <5> QED  BY <5>1, <5>3, Zenon
      <4>2. RangeOf(data[n]) \subseteq Blocks
        BY <4>1, Zenon DEF RangeOf
      <4>3. FindMostWorkChain(n) \subseteq Blocks \cup {NoBlock}
        BY <4>2, Zenon DEF FindMostWorkChain
      <4> QED  BY <2>2, <4>1, <4>3, Zenon DEF Jobs, MaybeBlock
    <3>2. StopBlock(n, target) \in Blocks
      BY <1>1, <3>1, StopIsOnTheWay, ChainBasics, Zenon
    <3>3. MarksOff
      BY <1>3, <2>2, <3>2, Zenon
    <3>4. Quiet
      <4> HIDE DEF start
      <4> QED  BY <1>4, <2>2, Zenon
    <3> QED  BY <3>3, <3>4, Zenon
  <2> HIDE DEF Quiet, MarksOff
  <2> QED  BY <2>1, <2>2, Zenon DEF ConnectRound
<1>6. PICK new : Marks(new) /\ \A b \in new : OffALock(b)
  BY <1>5, Zenon
<1>7. PICK j : SetJob(n, t, j) /\ j.step \in {"idle", "loop", "connect"}
  BY <1>5, Zenon
<1>8. \A m \in Nodes : failed'[m] \cup tasks'[m] \subseteq failed[m] \cup tasks[m] \cup new
  BY <1>1, <1>6, Zenon DEF TypeOK
<1>9. \A m \in Nodes, u \in Threads : job'[m][u].step \in {"lock", "invalidate"}
                                        => job'[m][u] = job[m][u]
  BY <1>1, <1>7, QuietJobs, Zenon
<1> QED  BY <1>1, <1>6, <1>8, <1>9, MarkStep, Zenon

\* A step that touches neither locks nor marks, and gives at most one thread a job
\* without a CLSIG.
LEMMA OtherStep ==
    ASSUME ChainLocksIInv, ChainLocksIInv', FailureIInv, NEW n \in Nodes,
           NEW t \in Threads, NEW j,
           UNCHANGED job \/ (SetJob(n, t, j) /\ j.step \notin {"lock", "invalidate"}),
           UNCHANGED <<failed, tasks, best, lockIndex, relayed, shares>>
    PROVE  FailureIInv'
<1>1. TypeOK
  BY Zenon DEF ChainLocksIInv
<1>2. \A m \in Nodes, u \in Threads : job'[m][u].step \in {"lock", "invalidate"}
                                        => job'[m][u] = job[m][u]
  BY <1>1, QuietJobs, Zenon
<1>3. PICK none : none = {}
  BY Zenon
<1>4. \A m \in Nodes : failed'[m] \cup tasks'[m] \subseteq failed[m] \cup tasks[m] \cup none
  BY Zenon
<1>5. \A b \in none : OffALock(b)
  BY <1>3, Zenon
<1> QED  BY <1>2, <1>4, <1>5, MarkStep, Zenon

\* A sibling of the locked chain is off the lock, and so is all that is
\* disconnected with it.
LEMMA SiblingsMarks ==
    ASSUME ChainLocksIInv, ChainLocksIInv', FailureIInv, NEW n \in Nodes, NEW t \in Threads,
           InvalidateSiblings(n, t)
    PROVE  FailureIInv'
<1> DEFINE l == job[n][t].block
           path == Chain[l] \ Chain[tip[n]]
           siblings == {y \in headers[n] \ (path \cup {Genesis}) :
                          \E x \in path : Parent[y] = Parent[x]}
           marked == UNION {FailedByInvalidate(tip[n], y) : y \in siblings}
<1>1. /\ TypeOK /\ JobIInv(n, t) /\ job[n][t].step = "invalidate"
      /\ UNCHANGED <<tasks, best, lockIndex, relayed, shares>>
      /\ SetJob(n, t, Activate)
      /\ failed' = [failed EXCEPT ![n] = @ \cup marked]
  BY Zenon DEF ChainLocksIInv, NodeIInv, InvalidateSiblings, lockVars, signVars
<1>2. l \in Blocks /\ tip[n] \in Blocks /\ headers[n] \subseteq Blocks /\ Recovered(l)
  <2>1. job[n][t] \in Jobs
    BY <1>1, Zenon DEF TypeOK
  <2> QED  BY <1>1, <2>1, Zenon DEF TypeOK, Jobs, MaybeBlock, JobIInv, FailureIInv
<1>3. ASSUME NEW y \in siblings
      PROVE  y \in Blocks /\ OffALock(y)
  <2>1. PICK x \in path : Parent[y] = Parent[x]
    BY <1>3, Zenon
  <2>2. y \in Blocks \ {Genesis} /\ x \in Blocks /\ x \in Chain[l] /\ x \notin Chain[tip[n]]
    BY <1>2, <1>3, <2>1, ChainBasics, Zenon
  <2>3. x # Genesis
    <3>1. Genesis \in Chain[tip[n]]
      BY <1>2, ChainBasics, Zenon
    <3> QED  BY <2>2, <3>1, Zenon
  <2>4. Height[y] = Height[x]
    BY <2>1, <2>2, <2>3, SiblingsAreLevel, Zenon
  <2>5. y \notin Chain[l]
    <3>1. CASE y \in Chain[l]
      <4>1. y = x
        BY <1>2, <2>2, <2>4, <3>1, LevelIsSame, Zenon
      <4> QED  BY <1>3, <2>1, <4>1, Zenon
    <3> QED  BY <3>1, Zenon
  <2>6. Height[y] <= Height[l]
    BY <1>2, <2>2, <2>4, TreeAssumption, Zenon
  <2>7. y \in Chain[y]
    BY <2>2, ChainBasics, Zenon
  <2> HIDE DEF l
  <2> QED  BY <1>2, <2>2, <2>5, <2>6, <2>7, Zenon DEF OffALock
<1>4. \A b \in marked : OffALock(b)
  <2> HIDE DEF siblings
  <2> QED  BY <1>2, <1>3, InvalidatedIsOff, Zenon
<1> HIDE DEF marked
<1>5. \A m \in Nodes : failed'[m] \cup tasks'[m] \subseteq
                         failed[m] \cup tasks[m] \cup marked
  BY <1>1, Zenon DEF TypeOK
<1>6. \A m \in Nodes, u \in Threads : job'[m][u].step \in {"lock", "invalidate"}
                                        => job'[m][u] = job[m][u]
  <2>1. Activate.step = "activate"
    BY Zenon DEF Activate, Job
  <2> QED  BY <1>1, <2>1, QuietJobs, Zenon
<1> QED  BY <1>1, <1>4, <1>5, <1>6, MarkStep, Zenon

\* A thread begins with a CLSIG that has enough shares.
LEMMA BeginKeeps ==
    ASSUME ChainLocksIInv, ChainLocksIInv', FailureIInv, NEW n \in Nodes, NEW t \in Threads,
           NEW b \in Blocks, Recovered(b), BeginChainLock(n, t, b),
           UNCHANGED <<failed, tasks, shares>>
    PROVE  FailureIInv'
<1>1. TypeOK
  BY Zenon DEF ChainLocksIInv
<1>2. /\ UNCHANGED <<best, lockIndex, relayed>>
      /\ \/ job' = job
         \/ SetJob(n, t, Job("lock", b, NoBlock))
      /\ Job("lock", b, NoBlock).block = b
  BY <1>1, BeginEffect, Zenon
<1>3. \A m \in Nodes, u \in Threads : job'[m][u].step \in {"lock", "invalidate"}
                                        => Recovered(job'[m][u].block)
  <2>1. CASE job' = job
    BY <2>1, Zenon DEF FailureIInv
  <2>2. CASE SetJob(n, t, Job("lock", b, NoBlock))
    <3>1. PICK j : j = Job("lock", b, NoBlock)
      BY Zenon
    <3>2. SetJob(n, t, j) /\ Recovered(j.block)
      BY <1>2, <2>2, <3>1, Zenon
    <3> QED  BY <1>1, <3>2, RecoveredJobs, Zenon
  <2> QED  BY <1>2, <2>1, <2>2, Zenon
<1>4. /\ \A m \in Nodes : \A x \in relayed'[m] : Recovered(x)
      /\ \A m \in Nodes : best'[m] # NoBlock => Recovered(best'[m])
      /\ \A m \in Nodes : lockIndex'[m] # NoBlock => Recovered(lockIndex'[m])
      /\ \A m \in Nodes : \A x \in failed'[m] \cup tasks'[m] : OffALock(x)
      /\ shares \subseteq shares' /\ IsFiniteSet(shares')
  BY <1>2, Zenon DEF FailureIInv
<1> QED  BY <1>3, <1>4, LocksStep, Zenon

\* A CLSIG that a peer hands out has enough shares.
LEMMA PeersHandOutRecovered ==
    ASSUME TypeOK, FailureIInv, NEW n \in Nodes, NEW b \in GetChainLockByHash(n)
    PROVE  b \in Blocks /\ Recovered(b)
<1>1. CASE b \in Blocks /\ OtherShares[b] >= Threshold
  <2> DEFINE S == {s \in shares : s.block = b}
  <2>1. IsFiniteSet(S)
    BY FS_Subset, Zenon DEF FailureIInv
  <2> HIDE DEF S
  <2>2. Cardinality(S) \in Nat
    BY <2>1, FS_CardinalityType, Zenon
  <2>3. OtherShares[b] \in Nat /\ Threshold \in Nat
    BY <1>1, ParametersAssumption, Zenon
  <2>4. Cardinality(S) + OtherShares[b] >= Threshold
    BY <1>1, <2>2, <2>3
  <2> QED  BY <1>1, <2>4, Zenon DEF Recovered, S
<1>2. CASE \E m \in Nodes : b \in relayed[m]
  BY <1>2, Zenon DEF FailureIInv, TypeOK
<1> QED  BY <1>1, <1>2, Zenon DEF GetChainLockByHash

\* The second part of ProcessNewChainLock makes such a CLSIG the best one.
LEMMA NewLockKeeps ==
    ASSUME ChainLocksIInv, ChainLocksIInv', FailureIInv, NEW n \in Nodes, NEW t \in Threads,
           ProcessNewChainLock(n, t)
    PROVE  FailureIInv'
<1> DEFINE b == job[n][t].block
<1>1. TypeOK /\ Recovered(b) /\ UNCHANGED <<failed, tasks, shares>>
  BY Zenon DEF ChainLocksIInv, FailureIInv, ProcessNewChainLock, chainVars, signVars
<1>2. SetJob(n, t, Idle) \/ SetJob(n, t, Enforce)
  BY Zenon DEF ProcessNewChainLock
<1>3. /\ relayed' = relayed \/ relayed' = [relayed EXCEPT ![n] = @ \cup {b}]
      /\ best' = best \/ best' = [best EXCEPT ![n] = b]
      /\ lockIndex' = lockIndex \/ lockIndex' = [lockIndex EXCEPT ![n] = b]
  BY Zenon DEF ProcessNewChainLock
<1> HIDE DEF b
<1>4. Idle.step = "idle" /\ Enforce.step = "enforce"
  BY Zenon DEF Idle, Enforce, Job
<1>5. \A m \in Nodes, u \in Threads : job'[m][u].step \in {"lock", "invalidate"}
                                        => Recovered(job'[m][u].block)
  <2>1. PICK j : SetJob(n, t, j) /\ j.step \notin {"lock", "invalidate"}
    BY <1>2, <1>4, Zenon
  <2> QED  BY <1>1, <2>1, RecoveredJobs, Zenon
<1>6. \A m \in Nodes : \A x \in relayed'[m] : Recovered(x)
  <2>1. \A m \in Nodes : relayed'[m] \subseteq relayed[m] \cup {b}
    BY <1>1, <1>3, Zenon DEF TypeOK
  <2> QED  BY <1>1, <2>1, Zenon DEF FailureIInv
<1>7. \A m \in Nodes : best'[m] # NoBlock => Recovered(best'[m])
  BY <1>1, <1>3, Zenon DEF FailureIInv, TypeOK
<1>8. \A m \in Nodes : lockIndex'[m] # NoBlock => Recovered(lockIndex'[m])
  BY <1>1, <1>3, Zenon DEF FailureIInv, TypeOK
<1>9. /\ \A m \in Nodes : \A x \in failed'[m] \cup tasks'[m] : OffALock(x)
      /\ shares \subseteq shares' /\ IsFiniteSet(shares')
  BY <1>1, Zenon DEF FailureIInv
<1> QED  BY <1>5, <1>6, <1>7, <1>8, <1>9, LocksStep, Zenon

\* EnforceBestChainLock takes the lock it reads into its job.
LEMMA ReadLockKeeps ==
    ASSUME ChainLocksIInv, ChainLocksIInv', FailureIInv, NEW n \in Nodes, NEW t \in Threads,
           EnforceBestChainLock(n, t)
    PROVE  FailureIInv'
<1> DEFINE j == Job("invalidate", lockIndex[n], NoBlock)
<1>1. TypeOK /\ JobIInv(n, t) /\ job[n][t].step = "enforce" /\ SetJob(n, t, j)
  BY Zenon DEF ChainLocksIInv, NodeIInv, EnforceBestChainLock
<1>2. UNCHANGED <<failed, tasks, best, lockIndex, relayed, shares>>
  BY Zenon DEF EnforceBestChainLock, chainVars, lockVars, signVars
<1>3. Recovered(j.block)
  <2>1. Recovered(lockIndex[n])
    BY <1>1, Zenon DEF JobIInv, FailureIInv
  <2> QED  BY <2>1, Zenon DEF Job
<1> HIDE DEF j
<1>4. \A m \in Nodes, u \in Threads : job'[m][u].step \in {"lock", "invalidate"}
                                        => Recovered(job'[m][u].block)
  BY <1>1, <1>3, RecoveredJobs, Zenon
<1>5. /\ \A m \in Nodes : \A x \in relayed'[m] : Recovered(x)
      /\ \A m \in Nodes : best'[m] # NoBlock => Recovered(best'[m])
      /\ \A m \in Nodes : lockIndex'[m] # NoBlock => Recovered(lockIndex'[m])
      /\ \A m \in Nodes : \A x \in failed'[m] \cup tasks'[m] : OffALock(x)
      /\ shares \subseteq shares' /\ IsFiniteSet(shares')
  BY <1>2, Zenon DEF FailureIInv
<1> QED  BY <1>4, <1>5, LocksStep, Zenon

\* A thread's step keeps the invariant.
LEMMA ThreadKeeps ==
    ASSUME ChainLocksIInv, ChainLocksIInv', FailureIInv, NEW n \in Nodes, NEW t \in Threads,
           ThreadStep(n, t)
    PROVE  FailureIInv'
<1>1. CASE ActivateBestChain(n, t)
  BY <1>1, RoundMarks, Zenon DEF ActivateBestChain, MayActivate
<1>2. CASE ActivateAfterSync(n, t)
  BY <1>2, RoundMarks, Zenon DEF ActivateAfterSync
<1>3. CASE ActivateOn(n, t)
  BY <1>3, RoundMarks, Zenon DEF ActivateOn
<1>4. CASE SyncWithValidationInterfaceQueue(n, t)
  <2> DEFINE j == Job("wait", job[n][t].block, NoBlock)
  <2>1. j.step = "wait"
    BY Zenon DEF Job
  <2>2. SetJob(n, t, j) /\ UNCHANGED <<failed, tasks, best, lockIndex, relayed, shares>>
    BY <1>4, Zenon DEF SyncWithValidationInterfaceQueue, chainVars, lockVars, signVars
  <2> HIDE DEF j
  <2> QED  BY <2>1, <2>2, OtherStep, Zenon
<1>5. CASE ProcessNewChainLock(n, t)
  BY <1>5, NewLockKeeps, Zenon
<1>6. CASE EnforceBestChainLock(n, t)
  BY <1>6, ReadLockKeeps, Zenon
<1>7. CASE InvalidateSiblings(n, t)
  BY <1>7, SiblingsMarks, Zenon
<1> QED  BY <1>1, <1>2, <1>3, <1>4, <1>5, <1>6, <1>7, Zenon DEF ThreadStep

\* The callbacks: the best CLSIG becomes the lock when its header comes in, and a
\* tip that conflicts with the lock is scheduled to be invalidated.
LEMMA CallbackKeeps ==
    ASSUME ChainLocksIInv, ChainLocksIInv', FailureIInv, NEW n \in Nodes,
           AcceptedBlockHeader(n) \/ UpdatedBlockTip(n) \/ SyncCallback(n)
    PROVE  FailureIInv'
<1> DEFINE e == Head(queue[n])
<1>1. TypeOK /\ "sched" \in Threads
  BY Zenon DEF ChainLocksIInv, Threads
<1>2. CASE AcceptedBlockHeader(n)
  <2>1. UNCHANGED <<failed, tasks, best, relayed, shares>>
    BY <1>2, Zenon DEF AcceptedBlockHeader, chainVars, signVars
  <2>2. CASE UNCHANGED <<lockIndex, job>>
    BY <1>1, <2>1, <2>2, OtherStep, Zenon
  <2>3. CASE /\ e.block = best[n]
             /\ lockIndex' = [lockIndex EXCEPT ![n] = e.block]
             /\ SetJob(n, "sched", Enforce)
    <3>1. e \in Events /\ e.kind = "header"
      BY <1>1, <1>2, CallbackEffect, Zenon DEF AcceptedBlockHeader
    <3>2. best[n] \in Blocks
      BY <2>3, <3>1, Zenon DEF Events
    <3>3. Recovered(best[n])
      BY <3>2, ParametersAssumption, Zenon DEF FailureIInv
    <3>4. Enforce.step = "enforce"
      BY Zenon DEF Enforce, Job
    <3>5. \A m \in Nodes, u \in Threads : job'[m][u].step \in {"lock", "invalidate"}
                                            => Recovered(job'[m][u].block)
      <4>1. PICK j : SetJob(n, "sched", j) /\ j.step \notin {"lock", "invalidate"}
        BY <2>3, <3>4, Zenon
      <4> QED  BY <1>1, <4>1, RecoveredJobs, Zenon
    <3>6. \A m \in Nodes : lockIndex'[m] # NoBlock => Recovered(lockIndex'[m])
      BY <1>1, <2>3, <3>3, Zenon DEF FailureIInv, TypeOK
    <3>7. /\ \A m \in Nodes : \A x \in relayed'[m] : Recovered(x)
          /\ \A m \in Nodes : best'[m] # NoBlock => Recovered(best'[m])
          /\ \A m \in Nodes : \A x \in failed'[m] \cup tasks'[m] : OffALock(x)
          /\ shares \subseteq shares' /\ IsFiniteSet(shares')
      BY <2>1, Zenon DEF FailureIInv
    <3> QED  BY <3>5, <3>6, <3>7, LocksStep, Zenon
  <2> QED  BY <1>2, <2>2, <2>3, Zenon DEF AcceptedBlockHeader
<1>3. CASE UpdatedBlockTip(n)
  <2>1. UNCHANGED <<failed, best, lockIndex, relayed, job>>
    BY <1>3, Zenon DEF UpdatedBlockTip, chainVars
  <2>2. e \in Events /\ e.kind = "tip"
    BY <1>1, <1>3, CallbackEffect, Zenon DEF UpdatedBlockTip
  <2>3. e.block \in Blocks
    BY <2>2, Zenon DEF Events
  <2>4. shares' = shares \/ shares' = shares \cup {[node |-> n, block |-> e.block]}
    BY <1>3, Zenon DEF UpdatedBlockTip, signVars
  <2>5. shares \subseteq shares' /\ IsFiniteSet(shares')
    BY <2>4, FS_AddElement, Zenon DEF FailureIInv
  <2>6. \/ tasks' = tasks
        \/ /\ InternalHasConflictingChainLock(n, e.block)
           /\ tasks' = [tasks EXCEPT ![n] = @ \cup {e.block}]
    BY <1>3, Zenon DEF UpdatedBlockTip
  <2> HIDE DEF e
  <2>7. \A m \in Nodes : \A x \in failed'[m] \cup tasks'[m] : OffALock(x)
    <3>1. CASE tasks' = tasks
      BY <2>1, <3>1, Zenon DEF FailureIInv
    <3>2. CASE /\ InternalHasConflictingChainLock(n, e.block)
               /\ tasks' = [tasks EXCEPT ![n] = @ \cup {e.block}]
      <4>1. OffALock(e.block)
        BY <1>1, <2>3, <3>2, ConflictIsOff, Zenon
      <4>2. \A m \in Nodes : tasks'[m] \subseteq tasks[m] \cup {e.block}
        BY <1>1, <3>2, Zenon DEF TypeOK
      <4> QED  BY <2>1, <4>1, <4>2, Zenon DEF FailureIInv
    <3> QED  BY <2>6, <3>1, <3>2, Zenon
  <2>8. /\ \A m \in Nodes : \A x \in relayed'[m] : Recovered(x)
        /\ \A m \in Nodes : best'[m] # NoBlock => Recovered(best'[m])
        /\ \A m \in Nodes : lockIndex'[m] # NoBlock => Recovered(lockIndex'[m])
        /\ \A m \in Nodes, u \in Threads : job'[m][u].step \in {"lock", "invalidate"}
                                             => Recovered(job'[m][u].block)
    BY <2>1, Zenon DEF FailureIInv
  <2> QED  BY <2>5, <2>7, <2>8, LocksStep, Zenon
<1>4. CASE SyncCallback(n)
  <2> DEFINE j == Job("synced", job[n][e.thread].block, NoBlock)
  <2>1. e \in Events /\ e.thread \in Threads
    <3>1. e \in Events
      BY <1>1, <1>4, CallbackEffect, Zenon DEF SyncCallback
    <3> QED  BY <1>1, <3>1, Zenon DEF Events
  <2>2. j.step = "synced"
    BY Zenon DEF Job
  <2>3. /\ SetJob(n, e.thread, j)
        /\ UNCHANGED <<failed, tasks, best, lockIndex, relayed, shares>>
    BY <1>4, Zenon DEF SyncCallback, chainVars, lockVars, signVars
  <2> HIDE DEF j, e
  <2> QED  BY <2>1, <2>2, <2>3, OtherStep, Zenon
<1> QED  BY <1>2, <1>3, <1>4, Zenon

\* A restart forgets locks, jobs and scheduled invalidations; the marks stay.
LEMMA RestartKeeps ==
    ASSUME ChainLocksIInv, ChainLocksIInv', FailureIInv, NEW n \in Nodes, Restart(n)
    PROVE  FailureIInv'
<1>1. TypeOK /\ UNCHANGED <<failed, relayed, shares>>
  BY Zenon DEF ChainLocksIInv, Restart
<1>2. /\ best' = [best EXCEPT ![n] = NoBlock]
      /\ lockIndex' = [lockIndex EXCEPT ![n] = NoBlock]
      /\ tasks' = [tasks EXCEPT ![n] = {}]
      /\ job' = [job EXCEPT ![n] = [t \in Threads |-> IF t = "net" THEN Activate ELSE Idle]]
  BY Zenon DEF Restart
<1>3. Idle.step = "idle" /\ Activate.step = "activate"
  BY Zenon DEF Idle, Activate, Job
<1>4. \A m \in Nodes, u \in Threads : job'[m][u].step \in {"lock", "invalidate"}
                                        => job'[m][u] = job[m][u]
  BY <1>1, <1>2, <1>3, Zenon DEF TypeOK
<1>5. \A m \in Nodes, u \in Threads : job'[m][u].step \in {"lock", "invalidate"}
                                        => Recovered(job'[m][u].block)
  BY <1>4, Zenon DEF FailureIInv
<1>6. /\ \A m \in Nodes : best'[m] # NoBlock => Recovered(best'[m])
      /\ \A m \in Nodes : lockIndex'[m] # NoBlock => Recovered(lockIndex'[m])
  BY <1>1, <1>2, Zenon DEF FailureIInv, TypeOK
<1>7. \A m \in Nodes : tasks'[m] \subseteq tasks[m]
  BY <1>1, <1>2, Zenon DEF TypeOK
<1>8. /\ \A m \in Nodes : \A x \in relayed'[m] : Recovered(x)
      /\ \A m \in Nodes : \A x \in failed'[m] \cup tasks'[m] : OffALock(x)
      /\ shares \subseteq shares' /\ IsFiniteSet(shares')
  BY <1>1, <1>7, Zenon DEF FailureIInv
<1> QED  BY <1>5, <1>6, <1>8, LocksStep, Zenon

\* The scheduled DoInvalidateBlock marks blocks that are off a lock.
LEMMA DoInvalidateKeeps ==
    ASSUME ChainLocksIInv, ChainLocksIInv', FailureIInv, NEW n \in Nodes,
           NEW b \in Blocks, DoInvalidateBlock(n, b)
    PROVE  FailureIInv'
<1> DEFINE marked == FailedByInvalidate(tip[n], b)
<1>1. /\ TypeOK /\ "sched" \in Threads
      /\ UNCHANGED <<best, lockIndex, relayed, shares>>
      /\ b \in tasks[n]
      /\ SetJob(n, "sched", Activate)
      /\ failed' = [failed EXCEPT ![n] = @ \cup marked]
      /\ tasks' = [tasks EXCEPT ![n] = @ \ {b}]
  BY Zenon DEF ChainLocksIInv, Threads, DoInvalidateBlock, lockVars, signVars
<1>2. OffALock(b) /\ tip[n] \in Blocks
  BY <1>1, Zenon DEF FailureIInv, TypeOK
<1>3. \A x \in marked : OffALock(x)
  BY <1>2, InvalidatedIsOff, Zenon
<1> HIDE DEF marked
<1>4. \A m \in Nodes : failed'[m] \cup tasks'[m] \subseteq
                         failed[m] \cup tasks[m] \cup marked
  BY <1>1, Zenon DEF TypeOK
<1>5. Activate.step = "activate"
  BY Zenon DEF Activate, Job
<1>6. "sched" \in Threads /\ Activate.step \notin {"lock", "invalidate"}
  BY <1>5, Zenon DEF Threads
<1>7. \A m \in Nodes, u \in Threads : job'[m][u].step \in {"lock", "invalidate"}
                                        => job'[m][u] = job[m][u]
  BY <1>1, <1>6, QuietJobs, Zenon
<1> QED  BY <1>1, <1>3, <1>4, <1>7, MarkStep, Zenon

\* Every step of the nodes keeps the invariant.
LEMMA FailureNext ==
    ASSUME ChainLocksIInv, FailureIInv, [Next]_vars
    PROVE  FailureIInv'
<1>1. ChainLocksIInv' /\ TypeOK
  BY InvNext, Zenon DEF ChainLocksIInv
<1>2. "net" \in Threads /\ "worker" \in Threads /\ Activate.step = "activate"
  BY Zenon DEF Threads, Activate, Job
<1>3. ASSUME NEW n \in Nodes, NEW b \in Blocks,
             AcceptBlockHeader(n, b) \/ ProcessNewBlock(n, b)
      PROVE  FailureIInv'
  <2>1. /\ UNCHANGED job \/ SetJob(n, "net", Activate)
        /\ UNCHANGED <<failed, tasks, best, lockIndex, relayed, shares>>
    BY <1>3, Zenon DEF AcceptBlockHeader, ProcessNewBlock, lockVars, signVars
  <2> QED  BY <1>1, <1>2, <2>1, OtherStep, Zenon
<1>4. ASSUME NEW n \in Nodes, NEW b \in Blocks, ProcessMessage(n, b)
      PROVE  FailureIInv'
  <2>1. Recovered(b)
    BY <1>1, <1>4, PeersHandOutRecovered, Zenon DEF ProcessMessage
  <2>2. BeginChainLock(n, "net", b) /\ UNCHANGED <<failed, tasks, shares>>
    BY <1>4, Zenon DEF ProcessMessage, chainVars, signVars
  <2> QED  BY <1>1, <1>2, <2>1, <2>2, BeginKeeps, Zenon
<1>5. ASSUME NEW n \in Nodes, NEW b \in Blocks, HandleNewRecoveredSig(n, b)
      PROVE  FailureIInv'
  <2>1. Recovered(b) /\ UNCHANGED <<failed, tasks, shares>>
    BY <1>5, Zenon DEF HandleNewRecoveredSig, chainVars
  <2>2. CASE BeginChainLock(n, "worker", b)
    BY <1>1, <1>2, <2>1, <2>2, BeginKeeps, Zenon
  <2>3. CASE UNCHANGED <<lockVars, job>>
    BY <1>1, <1>2, <2>1, <2>3, OtherStep, Zenon DEF lockVars
  <2> QED  BY <1>5, <2>2, <2>3, Zenon DEF HandleNewRecoveredSig
<1>6. ASSUME NEW n \in Nodes, SchedulerStep(n)
      PROVE  FailureIInv'
  BY <1>1, <1>6, CallbackKeeps, DoInvalidateKeeps, Zenon DEF SchedulerStep
<1>7. ASSUME NEW n \in Nodes, NodeStep(n)
      PROVE  FailureIInv'
  BY <1>1, <1>3, <1>4, <1>5, <1>6, <1>7, ThreadKeeps, RestartKeeps, Zenon DEF NodeStep
<1>8. CASE UNCHANGED vars
  BY <1>8, Zenon DEF vars, chainVars, lockVars, signVars, FailureIInv, OffALock, Recovered
<1> QED  BY <1>7, <1>8, Zenon DEF Next

\* Whatever CLSIGs there are, a block that is marked failed for a lock, or is going
\* to be (ConnectBlock, InvalidateBlock, FindMostWorkChain), is off the branch of a
\* CLSIG that can be recovered.
THEOREM FailureInvariant == Spec => []FailureIInv
<1>1. Init => FailureIInv
  <2> SUFFICES ASSUME Init PROVE FailureIInv
    BY Zenon
  <2>1. IsFiniteSet(shares)
    BY FS_EmptySet, Zenon DEF Init
  <2>2. Idle.step = "idle"
    BY Zenon DEF Idle, Job
  <2> QED  BY <2>1, <2>2, Zenon DEF Init, FailureIInv
<1>2. ChainLocksIInv /\ FailureIInv /\ [Next]_vars => FailureIInv'
  BY FailureNext, Zenon
<1> QED  BY <1>1, <1>2, ChainLocksInvariant, PTL DEF Spec

\* As long as the CLSIGs that can be recovered are on one branch, no node has
\* marked a block of that branch failed (InvalidateBlock, ConnectBlock).
THEOREM LockedIsKept == Spec => []LockedNeverFailed
<1>1. FailureIInv => LockedNeverFailed
  <2> SUFFICES ASSUME FailureIInv, LocksAgree, NEW n \in Nodes, NEW b \in Blocks,
                      Recovered(b), NEW z \in Chain[b] \cap failed[n]
               PROVE  FALSE
    BY Zenon DEF LockedNeverFailed
  <2>1. OffALock(z)
    BY Zenon DEF FailureIInv
  <2> QED  BY <2>1, LockedIsNotOff, Zenon
<1> QED  BY <1>1, FailureInvariant, PTL

=============================================================================
