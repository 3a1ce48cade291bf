---------------------------- MODULE GMListProof ----------------------------
(***************************************************************************)
(* The operations on the gamemaster list keep its unique-property map      *)
(* exact, for lists of any size and any keys, addresses and collaterals;   *)
(* and removing a gamemaster succeeds unless its operator key is revoked.  *)
(* With them, what BuildNewListFromBlock makes of a list: each of its      *)
(* loops is a fold, whose invariant FoldInduction proves.                  *)
(***************************************************************************)
EXTENDS GMBlock, FiniteSetTheorems, TLAPS

\* A list and a gamemaster are records with these fields.
IsList(l) ==
    l = [gmMap |-> l.gmMap, props |-> l.props, total |-> l.total,
         height |-> l.height, err |-> l.err]
IsGM(g) ==
    g = [hash |-> g.hash, id |-> g.id, collateral |-> g.collateral, state |-> g.state]

\* m is l with property p given to gamemaster h, and nothing else changed.
Gives(l, m, h, p) ==
    /\ IsList(m)
    /\ m.gmMap = l.gmMap
    /\ DOMAIN m.props = DOMAIN l.props \cup {p}
    /\ m.props[p] = [gm |-> h, n |-> 1]
    /\ \A x \in DOMAIN l.props : x # p => m.props[x] = l.props[x]

\* m is l without property p.
Takes(l, m, p) ==
    /\ IsList(m)
    /\ m.gmMap = l.gmMap
    /\ DOMAIN m.props = DOMAIN l.props \ {p}
    /\ \A x \in DOMAIN m.props : m.props[x] = l.props[x]

\* AddUniqueProperty either fails or gives a new property to its gamemaster.
LEMMA AddGives ==
    ASSUME NEW l, IsList(l), NEW h, NEW p,
           Ok(AddUniqueProperty(l, h, p)),
           HasUniqueProperty(l, p) => l.props[p].gm # h
    PROVE  Ok(l) /\ p[2] # Null /\ ~HasUniqueProperty(l, p)
           /\ Gives(l, AddUniqueProperty(l, h, p), h, p)
<1> DEFINE m == AddUniqueProperty(l, h, p)
<1>1. Ok(l)
    BY Zenon DEF AddUniqueProperty, Ok
<1>2. p[2] # Null /\ ~HeldByOther(l, p, h)
    BY <1>1, Zenon DEF AddUniqueProperty, Ok, Fail, IsList
<1>3. ~HasUniqueProperty(l, p)
    BY <1>2, Zenon DEF HeldByOther
<1>4. m = [l EXCEPT !.props = Put(@, p, [gm |-> h, n |-> 1])]
    BY <1>1, <1>2, <1>3, Zenon DEF AddUniqueProperty
<1>5. m.props = Put(l.props, p, [gm |-> h, n |-> 1]) /\ m.gmMap = l.gmMap /\ IsList(m)
    BY <1>4, Zenon DEF IsList
<1> QED
    BY <1>1, <1>2, <1>3, <1>5, Zenon DEF Gives, Put

\* DeleteUniqueProperty takes a property that its gamemaster holds once.
LEMMA DeleteTakes ==
    ASSUME NEW l, IsList(l), Ok(l), NEW h, NEW p,
           p[2] # Null, HasUniqueProperty(l, p), l.props[p] = [gm |-> h, n |-> 1]
    PROVE  /\ Ok(DeleteUniqueProperty(l, h, p))
           /\ Takes(l, DeleteUniqueProperty(l, h, p), p)
<1> DEFINE m == DeleteUniqueProperty(l, h, p)
<1>1. m = [l EXCEPT !.props = Drop(@, p)]
    BY DEF DeleteUniqueProperty, HeldByOther
<1>2. m.props = Drop(l.props, p) /\ m.gmMap = l.gmMap /\ m.err = l.err /\ IsList(m)
    BY <1>1, Zenon DEF IsList
<1> QED
    BY <1>2, Zenon DEF Takes, Drop, Ok

\* What a gamemaster of an exact list has is its own, and nothing without a value
\* is in the map.
LEMMA Exact ==
    ASSUME NEW l, PropertiesExact(l)
    PROVE  /\ \A p \in DOMAIN l.props : p[2] # Null
           /\ \A p \in DOMAIN l.props : \E h \in DOMAIN l.gmMap :
                p \in PropertiesOf(l.gmMap[h]) /\ l.props[p] = [gm |-> h, n |-> 1]
BY Zenon DEF PropertiesExact, PropertiesOf

\* The four kinds of properties are distinct.
LEMMA Kinds ==
    ASSUME NEW a, NEW b, NEW c, NEW d
    PROVE  /\ <<"collateral", a>> # <<"addr", b>>
           /\ <<"collateral", a>> # <<"owner", c>>
           /\ <<"collateral", a>> # <<"operator", d>>
           /\ <<"addr", b>> # <<"owner", c>>
           /\ <<"addr", b>> # <<"operator", d>>
           /\ <<"owner", c>> # <<"operator", d>>
BY Zenon

\* No operation on properties succeeds on a list that has failed.
LEMMA UpdateNeedsOk ==
    ASSUME NEW l, NEW h, NEW old, NEW new, Ok(UpdateUniqueProperty(l, h, old, new))
    PROVE  Ok(l)
<1>1. \A p : ~Ok(l) => DeleteUniqueProperty(l, h, p) = l
    BY Zenon DEF DeleteUniqueProperty
<1>2. \A p : ~Ok(l) => AddUniqueProperty(l, h, p) = l
    BY Zenon DEF AddUniqueProperty
<1> QED
    BY <1>1, <1>2, Zenon DEF UpdateUniqueProperty

\* m is l with property new of gamemaster h for old, each if it has a value.
Replaces(l, m, h, old, new) ==
    /\ IsList(m)
    /\ m.gmMap = l.gmMap
    /\ DOMAIN m.props = (DOMAIN l.props \ {old}) \cup {p \in {new} : p[2] # Null}
    /\ new[2] # Null => m.props[new] = [gm |-> h, n |-> 1]
    /\ \A x \in DOMAIN l.props \ {old, new} : m.props[x] = l.props[x]
    /\ new # old => new \notin DOMAIN l.props

\* UpdateUniqueProperty replaces the old property of its gamemaster by the new one,
\* if each has a value.
LEMMA UpdateReplaces ==
    ASSUME NEW l, IsList(l), Ok(l), NEW h, NEW old, NEW new,
           Ok(UpdateUniqueProperty(l, h, old, new)),
           \A p \in DOMAIN l.props : p[2] # Null,
           old[2] # Null => HasUniqueProperty(l, old) /\ l.props[old] = [gm |-> h, n |-> 1],
           new # old /\ HasUniqueProperty(l, new) => l.props[new].gm # h
    PROVE  Replaces(l, UpdateUniqueProperty(l, h, old, new), h, old, new)
<1> DEFINE m == UpdateUniqueProperty(l, h, old, new)
           r == IF old[2] = Null THEN l ELSE DeleteUniqueProperty(l, h, old)
<1>1. CASE old = new
    <2>1. m = l
        BY <1>1, Zenon DEF UpdateUniqueProperty
    <2> QED
        BY <1>1, <2>1, Zenon DEF HasUniqueProperty, Replaces
<1>2. CASE old # new
    <2>1. Ok(r) /\ Takes(l, r, old)
        <3>1. CASE old[2] = Null
            BY <3>1, Zenon DEF Takes
        <3>2. CASE old[2] # Null
            BY <3>2, DeleteTakes, Zenon
        <3> QED
            BY <3>1, <3>2, Zenon
    <2>2. m = IF new[2] = Null THEN r ELSE AddUniqueProperty(r, h, new)
        BY <1>2, Zenon DEF UpdateUniqueProperty
    <2> HIDE DEF r, m
    <2>3. CASE new[2] = Null
        BY <1>2, <2>1, <2>2, <2>3, Zenon DEF Takes, Replaces, m
    <2>4. CASE new[2] # Null
        <3>1. HasUniqueProperty(r, new) => r.props[new].gm # h
            BY <1>2, <2>1, Zenon DEF Takes, HasUniqueProperty
        <3>2. Ok(AddUniqueProperty(r, h, new))
            BY <2>2, <2>4, Zenon DEF m
        <3>3. ~HasUniqueProperty(r, new) /\ Gives(r, m, h, new)
            BY <2>1, <2>2, <2>4, <3>1, <3>2, AddGives, Zenon DEF Takes
        <3> QED
            BY <1>2, <2>1, <2>4, <3>3, Zenon DEF Takes, Gives, HasUniqueProperty, Replaces, m
    <2> QED
        BY <2>3, <2>4, Zenon
<1> QED
    BY <1>1, <1>2, Zenon

\* UpdateGM (every state change of a gamemaster goes through it: service updates,
\* new keys, revocations, punishments, payments): if it succeeds, the properties of
\* the old state are gone from the map, those of the new one are in it, and
\* everybody else's are untouched.
THEOREM UpdateGMExact ==
    ASSUME NEW l, IsList(l), PropertiesExact(l), NEW h, IsGM(l.gmMap[h]), NEW st,
           Ok(UpdateGM(l, h, st))
    PROVE  IsList(UpdateGM(l, h, st)) /\ PropertiesExact(UpdateGM(l, h, st))
<1> DEFINE g == l.gmMap[h]
           old == g.state
           new == [g EXCEPT !.state = st]
           l0 == [l EXCEPT !.gmMap = Put(@, h, [@[h] EXCEPT !.state = st])]
           l1 == UpdateUniqueProperty(l0, h, Addr(old), Addr(st))
           l2 == UpdateUniqueProperty(l1, h, Owner(old), Owner(st))
           l3 == UpdateUniqueProperty(l2, h, Operator(old), Operator(st))
<1>1. Ok(l) /\ HasGM(l, h)
    BY Zenon DEF UpdateGM, Ok, Fail, IsList
<1>2. UpdateGM(l, h, st) = l3
    BY <1>1, Zenon DEF UpdateGM, Ok, Fail, IsList
<1>3. IsList(l0) /\ Ok(l0) /\ l0.props = l.props /\ l0.gmMap = Put(l.gmMap, h, new)
    BY <1>1 DEF IsList, Ok
<1>4. IsGM(new) /\ new.collateral = g.collateral /\ new.state = st
    BY DEF IsGM
<1>5. PropertiesOf(g) \subseteq DOMAIN l.props
      /\ \A p \in PropertiesOf(g) : l.props[p] = [gm |-> h, n |-> 1]
    BY <1>1, Zenon DEF PropertiesExact, HasGM, HasUniqueProperty
<1>6. /\ Addr(old)[2] # Null => Addr(old) \in PropertiesOf(g)
      /\ Owner(old)[2] # Null => Owner(old) \in PropertiesOf(g)
      /\ Operator(old)[2] # Null => Operator(old) \in PropertiesOf(g)
    BY Zenon DEF PropertiesOf
<1>7. \A p \in DOMAIN l.props : l.props[p].gm = h => p \in PropertiesOf(g)
    <2> SUFFICES ASSUME NEW p \in DOMAIN l.props, l.props[p].gm = h
                 PROVE  p \in PropertiesOf(g)
        BY Zenon
    <2>1. PICK k \in DOMAIN l.gmMap :
            p \in PropertiesOf(l.gmMap[k]) /\ l.props[p] = [gm |-> k, n |-> 1]
        BY Exact, Zenon
    <2> QED
        BY <2>1
<1>8. /\ Addr(st) # Addr(old) /\ Addr(st) \in DOMAIN l.props => l.props[Addr(st)].gm # h
      /\ Owner(st) # Owner(old) /\ Owner(st) \in DOMAIN l.props => l.props[Owner(st)].gm # h
      /\ Operator(st) # Operator(old) /\ Operator(st) \in DOMAIN l.props
            => l.props[Operator(st)].gm # h
    BY <1>7, Kinds, Zenon DEF PropertiesOf, Collateral, Addr, Owner, Operator
<1>9. \A p \in DOMAIN l.props : p[2] # Null
    BY Exact, Zenon
<1>ok. Ok(l1) /\ Ok(l2) /\ Ok(l3)
    <2>1. Ok(l3)
        BY <1>2, Zenon
    <2>2. \A m, p, q : Ok(UpdateUniqueProperty(m, h, p, q)) => Ok(m)
        BY UpdateNeedsOk, Zenon
    <2> HIDE DEF l1, l2
    <2>3. Ok(l2)
        BY <2>1, <2>2, Zenon
    <2>4. Ok(l1)
        BY <2>2, <2>3, Zenon DEF l2
    <2> QED
        BY <2>1, <2>3, <2>4, Zenon
<1>a. /\ IsList(l1) /\ l1.gmMap = l0.gmMap
      /\ DOMAIN l1.props = (DOMAIN l.props \ {Addr(old)}) \cup {p \in {Addr(st)} : p[2] # Null}
      /\ Addr(st)[2] # Null => l1.props[Addr(st)] = [gm |-> h, n |-> 1]
      /\ \A x \in DOMAIN l.props \ {Addr(old), Addr(st)} : l1.props[x] = l.props[x]
      /\ Addr(st) # Addr(old) => Addr(st) \notin DOMAIN l.props
    <2> HIDE DEF l0
    <2>1. Addr(old)[2] # Null => HasUniqueProperty(l0, Addr(old))
                                 /\ l0.props[Addr(old)] = [gm |-> h, n |-> 1]
        BY <1>3, <1>5, <1>6, Zenon DEF HasUniqueProperty
    <2>2. Addr(st) # Addr(old) /\ HasUniqueProperty(l0, Addr(st)) => l0.props[Addr(st)].gm # h
        BY <1>3, <1>8, Zenon DEF HasUniqueProperty
    <2>3. Replaces(l0, l1, h, Addr(old), Addr(st))
        BY <1>3, <1>9, <1>ok, <2>1, <2>2, UpdateReplaces, Zenon
    <2> QED
        BY <1>3, <2>3, Zenon DEF Replaces
<1>b. Addr(st) # Owner(old) /\ Addr(st) # Owner(st) /\ Addr(old) # Owner(st)
      /\ Addr(st) # Operator(old) /\ Addr(st) # Operator(st) /\ Addr(old) # Operator(st)
      /\ Owner(st) # Operator(old) /\ Owner(st) # Operator(st) /\ Owner(old) # Operator(st)
      /\ Addr(old) # Owner(old) /\ Addr(old) # Operator(old) /\ Owner(old) # Operator(old)
    BY Kinds, Zenon DEF Addr, Owner, Operator
<1>c. /\ IsList(l2) /\ l2.gmMap = l0.gmMap
      /\ DOMAIN l2.props = (DOMAIN l1.props \ {Owner(old)}) \cup {p \in {Owner(st)} : p[2] # Null}
      /\ Owner(st)[2] # Null => l2.props[Owner(st)] = [gm |-> h, n |-> 1]
      /\ \A x \in DOMAIN l1.props \ {Owner(old), Owner(st)} : l2.props[x] = l1.props[x]
      /\ Owner(st) # Owner(old) => Owner(st) \notin DOMAIN l.props
    <2> HIDE DEF l0, l1
    <2>1. Owner(old)[2] # Null => HasUniqueProperty(l1, Owner(old))
                                  /\ l1.props[Owner(old)] = [gm |-> h, n |-> 1]
        BY <1>5, <1>6, <1>a, <1>b, Zenon DEF HasUniqueProperty
    <2>2. Owner(st) # Owner(old) /\ HasUniqueProperty(l1, Owner(st)) => l1.props[Owner(st)].gm # h
        BY <1>8, <1>a, <1>b, Zenon DEF HasUniqueProperty
    <2>3. \A p \in DOMAIN l1.props : p[2] # Null
        BY <1>9, <1>a, Zenon
    <2>4. Replaces(l1, l2, h, Owner(old), Owner(st))
        BY <1>a, <1>ok, <2>1, <2>2, <2>3, UpdateReplaces, Zenon
    <2> QED
        BY <1>a, <1>b, <2>4, Zenon DEF Replaces
<1>d. /\ IsList(l3) /\ l3.gmMap = l0.gmMap
      /\ DOMAIN l3.props = (DOMAIN l2.props \ {Operator(old)})
                                \cup {p \in {Operator(st)} : p[2] # Null}
      /\ Operator(st)[2] # Null => l3.props[Operator(st)] = [gm |-> h, n |-> 1]
      /\ \A x \in DOMAIN l2.props \ {Operator(old), Operator(st)} : l3.props[x] = l2.props[x]
      /\ Operator(st) # Operator(old) => Operator(st) \notin DOMAIN l.props
    <2> HIDE DEF l0, l1, l2
    <2>1. Operator(old)[2] # Null => HasUniqueProperty(l2, Operator(old))
                                     /\ l2.props[Operator(old)] = [gm |-> h, n |-> 1]
        BY <1>5, <1>6, <1>a, <1>b, <1>c, Zenon DEF HasUniqueProperty
    <2>2. Operator(st) # Operator(old) /\ HasUniqueProperty(l2, Operator(st))
            => l2.props[Operator(st)].gm # h
        BY <1>8, <1>a, <1>b, <1>c, Zenon DEF HasUniqueProperty
    <2>3. \A p \in DOMAIN l2.props : p[2] # Null
        BY <1>9, <1>a, <1>c, Zenon
    <2>4. Replaces(l2, l3, h, Operator(old), Operator(st))
        BY <1>c, <1>ok, <2>1, <2>2, <2>3, UpdateReplaces, Zenon
    <2> QED
        BY <1>a, <1>b, <1>c, <2>4, Zenon DEF Replaces
<1> DEFINE Olds == {Addr(old), Owner(old), Operator(old)}
           News == {p \in {Addr(st), Owner(st), Operator(st)} : p[2] # Null}
<1>e. /\ DOMAIN l3.props = (DOMAIN l.props \ Olds) \cup News
      /\ \A p \in News : l3.props[p] = [gm |-> h, n |-> 1]
      /\ \A x \in (DOMAIN l.props \ Olds) \ News : l3.props[x] = l.props[x]
      /\ \A p \in News : p \in DOMAIN l.props => p \in Olds
    <2> HIDE DEF l0, l1, l2, l3
    <2>1. DOMAIN l3.props = (DOMAIN l.props \ Olds) \cup News
        BY <1>a, <1>b, <1>c, <1>d, Zenon
    <2>2. \A p \in News : l3.props[p] = [gm |-> h, n |-> 1]
        BY <1>a, <1>b, <1>c, <1>d
    <2>3. \A x \in (DOMAIN l.props \ Olds) \ News : l3.props[x] = l.props[x]
        BY <1>9, <1>a, <1>b, <1>c, <1>d, Zenon
    <2>4. \A p \in News : p \in DOMAIN l.props => p \in Olds
        BY <1>a, <1>c, <1>d, Zenon
    <2> QED
        BY <2>1, <2>2, <2>3, <2>4, Zenon
<1>f. PropertiesOf(new) = News \cup {p \in {Collateral(g)} : p[2] # Null}
    BY <1>4, Zenon DEF PropertiesOf, Collateral
<1>g. Collateral(g) \notin Olds /\ Collateral(g) \notin News
    BY Kinds, Zenon DEF Collateral, Addr, Owner, Operator
<1>i. PropertiesOf(g) \subseteq Olds \cup {p \in {Collateral(g)} : p[2] # Null}
    BY Zenon DEF PropertiesOf
<1>j. \A p \in Olds : p[2] # Null => p \in PropertiesOf(g)
    BY <1>6, Zenon
<1>k. Collateral(g)[2] # Null => Collateral(g) \in PropertiesOf(g)
    BY Zenon DEF PropertiesOf
<1>l. l3.gmMap = Put(l.gmMap, h, new)
    BY <1>3, <1>d, Zenon
<1> HIDE DEF l0, l1, l2, l3, Olds, News, new, g
<1>m. ASSUME NEW k \in DOMAIN l3.gmMap, NEW p \in PropertiesOf(l3.gmMap[k])
      PROVE  p \in DOMAIN l3.props /\ l3.props[p] = [gm |-> k, n |-> 1]
    <2>1. CASE k = h
        <3>1. p \in PropertiesOf(new)
            BY <1>l, <2>1, Zenon DEF Put
        <3>2. CASE p \in News
            BY <1>e, <2>1, <3>2, Zenon
        <3>3. CASE p = Collateral(g) /\ p[2] # Null
            BY <1>5, <1>e, <1>g, <1>k, <2>1, <3>3, Zenon
        <3> QED
            BY <1>f, <3>1, <3>2, <3>3, Zenon
    <2>2. CASE k # h
        <3>1. k \in DOMAIN l.gmMap /\ p \in PropertiesOf(l.gmMap[k])
            BY <1>l, <2>2, Zenon DEF Put
        <3>2. p \in DOMAIN l.props /\ l.props[p] = [gm |-> k, n |-> 1]
            BY <3>1, Zenon DEF PropertiesExact, HasUniqueProperty
        <3>3. p \notin Olds
            BY <1>5, <1>9, <1>j, <2>2, <3>2
        <3>4. p \notin News
            BY <1>e, <3>2, <3>3, Zenon
        <3> QED
            BY <1>e, <3>2, <3>3, <3>4, Zenon
    <2> QED
        BY <2>1, <2>2, Zenon
<1>n. ASSUME NEW p \in DOMAIN l3.props
      PROVE  \E k \in DOMAIN l3.gmMap : p \in PropertiesOf(l3.gmMap[k])
    <2>1. CASE p \in News
        BY <1>f, <1>l, <2>1, Zenon DEF Put
    <2>2. CASE p \in DOMAIN l.props \ Olds
        <3>1. PICK k \in DOMAIN l.gmMap : p \in PropertiesOf(l.gmMap[k])
            BY <2>2, Zenon DEF PropertiesExact
        <3>2. CASE k = h
            <4>1. p \in PropertiesOf(new)
                BY <1>f, <1>i, <2>2, <3>1, <3>2, Zenon DEF g
            <4> QED
                BY <1>l, <4>1, Zenon DEF Put
        <3>3. CASE k # h
            BY <1>l, <3>1, <3>3, Zenon DEF Put
        <3> QED
            BY <3>2, <3>3, Zenon
    <2> QED
        BY <1>e, <2>1, <2>2, Zenon
<1>o. PropertiesExact(l3)
    BY <1>m, <1>n, Zenon DEF PropertiesExact, HasUniqueProperty
<1> QED
    BY <1>2, <1>d, <1>o, Zenon

\* RemoveGM (the collateral is spent, or a diff removes the gamemaster) succeeds on
\* every gamemaster that still has its keys, and leaves the map exact: it never
\* meets a property held by somebody else, or twice.
THEOREM RemoveGMExact ==
    ASSUME NEW l, IsList(l), Ok(l), PropertiesExact(l), NEW h \in DOMAIN l.gmMap,
           l.gmMap[h].collateral # Null, l.gmMap[h].state.owner # Null,
           l.gmMap[h].state.operator # Null
    PROVE  /\ Ok(RemoveGM(l, h))
           /\ IsList(RemoveGM(l, h))
           /\ PropertiesExact(RemoveGM(l, h))
           /\ RemoveGM(l, h).gmMap = Drop(l.gmMap, h)
<1> DEFINE g == l.gmMap[h]
           st == g.state
           l1 == DeleteUniqueProperty(l, h, Collateral(g))
           l2 == IF st.addr = Null THEN l1 ELSE DeleteUniqueProperty(l1, h, Addr(st))
           l3 == DeleteUniqueProperty(l2, h, Owner(st))
           l4 == DeleteUniqueProperty(l3, h, Operator(st))
           m == [l4 EXCEPT !.gmMap = Drop(@, h)]
<1>1. RemoveGM(l, h) = m
    BY Zenon DEF RemoveGM, HasGM
<1>2. PropertiesOf(g) \subseteq DOMAIN l.props
      /\ \A p \in PropertiesOf(g) : l.props[p] = [gm |-> h, n |-> 1]
    BY Zenon DEF PropertiesExact, HasUniqueProperty
<1>3. /\ Collateral(g) \in PropertiesOf(g) /\ Owner(st) \in PropertiesOf(g)
      /\ Operator(st) \in PropertiesOf(g)
      /\ st.addr # Null => Addr(st) \in PropertiesOf(g)
    BY Zenon DEF PropertiesOf, Collateral, Owner, Operator, Addr
<1>4. /\ Collateral(g)[2] # Null /\ Owner(st)[2] # Null /\ Operator(st)[2] # Null
      /\ st.addr # Null <=> Addr(st)[2] # Null
    BY Zenon DEF Collateral, Owner, Operator, Addr
<1>5. /\ Collateral(g) # Addr(st) /\ Collateral(g) # Owner(st) /\ Collateral(g) # Operator(st)
      /\ Addr(st) # Owner(st) /\ Addr(st) # Operator(st) /\ Owner(st) # Operator(st)
    BY Kinds, Zenon DEF Collateral, Owner, Operator, Addr
<1> HIDE DEF g, st
<1>6. Ok(l1) /\ Takes(l, l1, Collateral(g))
    BY <1>2, <1>3, <1>4, DeleteTakes, Zenon DEF HasUniqueProperty
<1> HIDE DEF l1
<1>7. Ok(l2) /\ Takes(l1, l2, Addr(st))
    <2>1. CASE st.addr = Null
        <3>1. Addr(st) \notin DOMAIN l1.props
            BY <1>4, <1>6, <2>1, Exact, Zenon DEF Takes
        <3> QED
            BY <1>6, <2>1, <3>1, Zenon DEF Takes
    <2>2. CASE st.addr # Null
        <3>1. HasUniqueProperty(l1, Addr(st)) /\ l1.props[Addr(st)] = [gm |-> h, n |-> 1]
            BY <1>2, <1>3, <1>5, <1>6, <2>2, Zenon DEF Takes, HasUniqueProperty
        <3>2. IsList(l1)
            BY <1>6, Zenon DEF Takes
        <3> QED
            BY <1>4, <1>6, <2>2, <3>1, <3>2, DeleteTakes, Zenon
    <2> QED
        BY <2>1, <2>2, Zenon
<1> HIDE DEF l2
<1>8. Ok(l3) /\ Takes(l2, l3, Owner(st))
    <2>1. HasUniqueProperty(l2, Owner(st)) /\ l2.props[Owner(st)] = [gm |-> h, n |-> 1]
        BY <1>2, <1>3, <1>5, <1>6, <1>7, Zenon DEF Takes, HasUniqueProperty
    <2>2. IsList(l2)
        BY <1>7, Zenon DEF Takes
    <2> QED
        BY <1>4, <1>7, <2>1, <2>2, DeleteTakes, Zenon
<1> HIDE DEF l3
<1>9. Ok(l4) /\ Takes(l3, l4, Operator(st))
    <2>1. HasUniqueProperty(l3, Operator(st)) /\ l3.props[Operator(st)] = [gm |-> h, n |-> 1]
        BY <1>2, <1>3, <1>5, <1>6, <1>7, <1>8 DEF Takes, HasUniqueProperty
    <2>2. IsList(l3)
        BY <1>8, Zenon DEF Takes
    <2> QED
        BY <1>4, <1>8, <2>1, <2>2, DeleteTakes, Zenon
<1> HIDE DEF l4
<1>a. IsList(m) /\ Ok(m) /\ m.props = l4.props /\ m.gmMap = Drop(l.gmMap, h)
    BY <1>6, <1>7, <1>8, <1>9 DEF Takes, IsList, Ok
<1>b. DOMAIN l4.props = DOMAIN l.props \ PropertiesOf(g)
      /\ \A x \in DOMAIN l4.props : l4.props[x] = l.props[x]
    <2>1. DOMAIN l4.props = DOMAIN l.props \ {Collateral(g), Addr(st), Owner(st), Operator(st)}
        BY <1>6, <1>7, <1>8, <1>9, Zenon DEF Takes
    <2>2. \A p \in DOMAIN l.props : p \in {Collateral(g), Addr(st), Owner(st), Operator(st)}
                                    => p \in PropertiesOf(g)
        BY Exact, Zenon DEF PropertiesOf, st
    <2>3. PropertiesOf(g) \subseteq {Collateral(g), Addr(st), Owner(st), Operator(st)}
        BY Zenon DEF PropertiesOf, st
    <2>4. \A x \in DOMAIN l4.props : l4.props[x] = l.props[x]
        BY <1>6, <1>7, <1>8, <1>9, Zenon DEF Takes
    <2> QED
        BY <2>1, <2>2, <2>3, <2>4, Zenon
<1> HIDE DEF m
<1>c. ASSUME NEW k \in DOMAIN m.gmMap, NEW p \in PropertiesOf(m.gmMap[k])
      PROVE  p \in DOMAIN m.props /\ m.props[p] = [gm |-> k, n |-> 1]
    <2>1. k # h /\ k \in DOMAIN l.gmMap /\ p \in PropertiesOf(l.gmMap[k])
        BY <1>a, Zenon DEF Drop
    <2>2. p \in DOMAIN l.props /\ l.props[p] = [gm |-> k, n |-> 1]
        BY <2>1, Zenon DEF PropertiesExact, HasUniqueProperty
    <2>3. p \notin PropertiesOf(g)
        BY <1>2, <2>1, <2>2
    <2> QED
        BY <1>a, <1>b, <2>2, <2>3, Zenon
<1>d. ASSUME NEW p \in DOMAIN m.props
      PROVE  \E k \in DOMAIN m.gmMap : p \in PropertiesOf(m.gmMap[k])
    <2>1. PICK k \in DOMAIN l.gmMap : p \in PropertiesOf(l.gmMap[k])
        BY <1>a, <1>b, Zenon DEF PropertiesExact
    <2>2. k # h
        BY <1>a, <1>b, <2>1, Zenon DEF g
    <2> QED
        BY <1>a, <2>1, <2>2, Zenon DEF Drop
<1>e. PropertiesExact(m)
    BY <1>c, <1>d, Zenon DEF PropertiesExact, HasUniqueProperty
<1> QED
    BY <1>1, <1>a, <1>e, Zenon

\* RemoveGM fails an assertion of DeleteUniqueProperty for every gamemaster whose
\* operator key has been revoked (ResetOperatorFields leaves a null key).
THEOREM RemoveRevokedAborts ==
    ASSUME NEW l, IsList(l), Ok(l), PropertiesExact(l), NEW h \in DOMAIN l.gmMap,
           l.gmMap[h].collateral # Null, l.gmMap[h].state.owner # Null,
           l.gmMap[h].state.addr = Null, l.gmMap[h].state.operator = Null
    PROVE  RemoveGM(l, h).err = "abort"
<1> DEFINE g == l.gmMap[h]
           st == g.state
           l1 == DeleteUniqueProperty(l, h, Collateral(g))
           l3 == DeleteUniqueProperty(l1, h, Owner(st))
           l4 == DeleteUniqueProperty(l3, h, Operator(st))
<1>1. RemoveGM(l, h) = [l4 EXCEPT !.gmMap = Drop(@, h)]
    BY Zenon DEF RemoveGM, HasGM
<1>2. Collateral(g) \in PropertiesOf(g) /\ Owner(st) \in PropertiesOf(g)
    BY Zenon DEF PropertiesOf, Collateral, Owner
<1>3. PropertiesOf(g) \subseteq DOMAIN l.props
      /\ \A p \in PropertiesOf(g) : l.props[p] = [gm |-> h, n |-> 1]
    BY Zenon DEF PropertiesExact, HasUniqueProperty
<1>4. /\ Collateral(g) # Owner(st)
      /\ Collateral(g)[2] # Null /\ Owner(st)[2] # Null /\ Operator(st)[2] = Null
    BY Kinds, Zenon DEF Collateral, Owner, Operator
<1> HIDE DEF g, st
<1>5. Ok(l1) /\ Takes(l, l1, Collateral(g))
    BY <1>2, <1>3, <1>4, DeleteTakes, Zenon DEF HasUniqueProperty
<1> HIDE DEF l1
<1>6. Ok(l3) /\ Takes(l1, l3, Owner(st))
    <2>1. HasUniqueProperty(l1, Owner(st)) /\ l1.props[Owner(st)] = [gm |-> h, n |-> 1]
        BY <1>2, <1>3, <1>4, <1>5, Zenon DEF Takes, HasUniqueProperty
    <2>2. IsList(l1)
        BY <1>5, Zenon DEF Takes
    <2> QED
        BY <1>4, <1>5, <2>1, <2>2, DeleteTakes, Zenon
<1> HIDE DEF l3
<1>7. l4 = [l3 EXCEPT !.err = "abort"]
    BY <1>4, <1>6, Zenon DEF DeleteUniqueProperty, Fail
<1>8. l4.err = "abort" /\ IsList(l4)
    BY <1>6, <1>7, Zenon DEF Takes, IsList
<1> QED
    BY <1>1, <1>8, Zenon DEF IsList

\* AddGM (a registration, a diff, or reading a list from disk): if it succeeds, the
\* map has the properties of the new gamemaster and is still exact.
THEOREM AddGMExact ==
    ASSUME NEW l, IsList(l), PropertiesExact(l), NEW g, NEW bump, Ok(AddGM(l, g, bump))
    PROVE  /\ IsList(AddGM(l, g, bump))
           /\ PropertiesExact(AddGM(l, g, bump))
           /\ AddGM(l, g, bump).gmMap = Put(l.gmMap, g.hash, g)
<1> DEFINE h == g.hash
           st == g.state
           l0 == [l EXCEPT !.gmMap = Put(@, h, g)]
           l1 == AddUniqueProperty(l0, h, Collateral(g))
           l2 == IF st.addr = Null THEN l1 ELSE AddUniqueProperty(l1, h, Addr(st))
           l3 == AddUniqueProperty(l2, h, Owner(st))
           l4 == AddUniqueProperty(l3, h, Operator(st))
           m == IF bump /\ g.id >= l.total THEN [l4 EXCEPT !.total = g.id + 1] ELSE l4
<1>1. Ok(l) /\ ~HasGM(l, h)
    BY Zenon DEF AddGM, Ok, Fail, IsList
<1>2. AddGM(l, g, bump) = m
    BY <1>1, Zenon DEF AddGM, Ok, Fail, IsList
<1>3. IsList(l0) /\ l0.props = l.props /\ l0.gmMap = Put(l.gmMap, h, g)
    BY DEF IsList
<1>4. \A p \in DOMAIN l.props : l.props[p].gm # h
    <2> SUFFICES ASSUME NEW p \in DOMAIN l.props PROVE l.props[p].gm # h
        BY Zenon
    <2>1. PICK k \in DOMAIN l.gmMap :
            p \in PropertiesOf(l.gmMap[k]) /\ l.props[p] = [gm |-> k, n |-> 1]
        BY Exact, Zenon
    <2> QED
        BY <1>1, <2>1 DEF HasGM
<1>5. /\ Collateral(g) # Addr(st) /\ Collateral(g) # Owner(st) /\ Collateral(g) # Operator(st)
      /\ Addr(st) # Owner(st) /\ Addr(st) # Operator(st) /\ Owner(st) # Operator(st)
      /\ st.addr = Null <=> Addr(st)[2] = Null
    BY Kinds, Zenon DEF Collateral, Owner, Operator, Addr
<1>ok. Ok(l4) /\ Ok(l3) /\ Ok(l2) /\ Ok(l1)
    <2>1. Ok(l4)
        <3> HIDE DEF l4
        <3> QED
            BY <1>2 DEF Ok
    <2>2. ASSUME NEW x, NEW p, Ok(AddUniqueProperty(x, h, p)) PROVE Ok(x)
        BY <2>2, Zenon DEF AddUniqueProperty
    <2> HIDE DEF l1, l2, l3
    <2>3. Ok(l3)
        BY <2>1, <2>2, Zenon
    <2>4. Ok(l2)
        BY <2>2, <2>3, Zenon DEF l3
    <2>5. Ok(l1)
        BY <2>2, <2>4, Zenon DEF l2
    <2> QED
        BY <2>1, <2>3, <2>4, <2>5, Zenon
<1> DEFINE S1 == {Collateral(g)}
           S2 == S1 \cup {p \in {Addr(st)} : p[2] # Null}
           S3 == S2 \cup {Owner(st)}
           S4 == S3 \cup {Operator(st)}
           Given(x, S) ==
              /\ IsList(x) /\ x.gmMap = l0.gmMap
              /\ DOMAIN x.props = DOMAIN l.props \cup S
              /\ S \cap DOMAIN l.props = {}
              /\ \A p \in S : x.props[p] = [gm |-> h, n |-> 1]
              /\ \A p \in DOMAIN l.props : x.props[p] = l.props[p]
<1>6. ASSUME NEW x, NEW S, Given(x, S), NEW p, p \notin S, Ok(AddUniqueProperty(x, h, p))
      PROVE  Given(AddUniqueProperty(x, h, p), S \cup {p}) /\ p[2] # Null
    <2>1. HasUniqueProperty(x, p) => x.props[p].gm # h
        BY <1>4, <1>6, Zenon DEF HasUniqueProperty
    <2>2. p[2] # Null /\ ~HasUniqueProperty(x, p) /\ Gives(x, AddUniqueProperty(x, h, p), h, p)
        BY <1>6, <2>1, AddGives, Zenon
    <2> QED
        BY <1>6, <2>2, Zenon DEF Gives, HasUniqueProperty
<1>7. Given(l0, {})
    BY <1>3, Zenon
<1> HIDE DEF Given, h, st, l0
<1>8. Given(l1, S1) /\ Collateral(g)[2] # Null
    BY <1>6, <1>7, <1>ok
<1>9. Given(l2, S2)
    <2>1. CASE st.addr = Null
        BY <1>5, <1>8, <2>1, Zenon
    <2>2. CASE st.addr # Null
        <3> HIDE DEF l1
        <3>1. /\ S2 = S1 \cup {Addr(st)} /\ Addr(st) \notin S1
              /\ l2 = AddUniqueProperty(l1, h, Addr(st))
            BY <1>5, <2>2, Zenon
        <3> QED
            BY <1>6, <1>8, <1>ok, <3>1
    <2> QED
        BY <2>1, <2>2, Zenon
<1> HIDE DEF l1, l2
<1>a. Given(l3, S3) /\ Owner(st)[2] # Null
    <2>1. Owner(st) \notin S2
        BY <1>5, Zenon
    <2> QED
        BY <1>6, <1>9, <1>ok, <2>1, Zenon
<1> HIDE DEF l3
<1>b. Given(l4, S4) /\ Operator(st)[2] # Null
    <2>1. Operator(st) \notin S3
        BY <1>5, Zenon
    <2> QED
        BY <1>6, <1>a, <1>ok, <2>1, Zenon
<1> HIDE DEF l4
<1>c. S4 = PropertiesOf(g)
    BY <1>8, <1>a, <1>b, Zenon DEF PropertiesOf, st
<1>d. IsList(m) /\ m.props = l4.props /\ m.gmMap = l4.gmMap
    BY <1>b, Zenon DEF Given, IsList
<1> HIDE DEF m, S4
<1>e. ASSUME NEW k \in DOMAIN m.gmMap, NEW p \in PropertiesOf(m.gmMap[k])
      PROVE  p \in DOMAIN m.props /\ m.props[p] = [gm |-> k, n |-> 1]
    <2>1. CASE k = h
        BY <1>3, <1>b, <1>c, <1>d, <2>1 DEF Given, Put
    <2>2. CASE k # h
        <3>1. k \in DOMAIN l.gmMap /\ p \in PropertiesOf(l.gmMap[k])
            BY <1>3, <1>b, <1>d, <2>2 DEF Given, Put
        <3> QED
            BY <1>b, <1>d, <3>1, Zenon DEF Given, PropertiesExact, HasUniqueProperty
    <2> QED
        BY <2>1, <2>2, Zenon
<1>f. ASSUME NEW p \in DOMAIN m.props
      PROVE  \E k \in DOMAIN m.gmMap : p \in PropertiesOf(m.gmMap[k])
    <2>1. CASE p \in S4
        BY <1>3, <1>b, <1>c, <1>d, <2>1 DEF Given, Put
    <2>2. CASE p \in DOMAIN l.props
        <3>1. PICK k \in DOMAIN l.gmMap : p \in PropertiesOf(l.gmMap[k])
            BY <2>2, Zenon DEF PropertiesExact
        <3>2. k # h
            BY <1>1, <3>1, Zenon DEF HasGM
        <3> QED
            BY <1>3, <1>b, <1>d, <3>1, <3>2 DEF Given, Put
    <2> QED
        BY <1>b, <1>d, <2>1, <2>2, Zenon DEF Given
<1>g. PropertiesExact(m)
    BY <1>e, <1>f, Zenon DEF PropertiesExact, HasUniqueProperty
<1> QED
    BY <1>2, <1>3, <1>b, <1>d, <1>g, Zenon DEF Given, h

\* GetGMPayee never names two gamemasters for one block: CompareByLastPaid decides
\* between any two, with the hash where the heights are equal.
THEOREM PayeeIsUnique ==
    ASSUME NEW l, DOMAIN l.gmMap \subseteq Nat,
           \A h \in DOMAIN l.gmMap : LastPaidHeight(l.gmMap[h].state) \in Int
    PROVE  \A h, k \in GetGMPayee(l) : h = k
<1> SUFFICES ASSUME NEW h \in GetGMPayee(l), NEW k \in GetGMPayee(l), h # k
             PROVE  FALSE
    BY Zenon
<1>1. h \in DOMAIN l.gmMap /\ k \in DOMAIN l.gmMap
    BY Zenon DEF GetGMPayee, ValidGMs
<1>2. CompareByLastPaid(l, h, k) /\ CompareByLastPaid(l, k, h)
    BY Zenon DEF GetGMPayee
<1>3. /\ LastPaidHeight(l.gmMap[h].state) \in Int /\ LastPaidHeight(l.gmMap[k].state) \in Int
      /\ h \in Nat /\ k \in Nat
    BY <1>1, Zenon
<1> QED
    BY <1>2, <1>3 DEF CompareByLastPaid
-----------------------------------------------------------------------------
\* Two lists that differ in their properties and in how building them ended.
SameMap(l, m) ==
    IsList(m) /\ m.gmMap = l.gmMap /\ m.height = l.height

\* AddUniqueProperty, DeleteUniqueProperty and UpdateUniqueProperty leave the
\* gamemasters and the height of the list alone.
LEMMA PropertyKeepsMap ==
    ASSUME NEW l, IsList(l), NEW h, NEW p, NEW q
    PROVE  /\ SameMap(l, AddUniqueProperty(l, h, p))
           /\ SameMap(l, DeleteUniqueProperty(l, h, p))
           /\ SameMap(l, UpdateUniqueProperty(l, h, p, q))
<1>1. \A m : SameMap(l, m) => \A x : SameMap(l, AddUniqueProperty(m, h, x))
    BY DEF AddUniqueProperty, SameMap, IsList, Fail
<1>2. \A x : SameMap(l, DeleteUniqueProperty(l, h, x))
    BY Zenon DEF DeleteUniqueProperty, SameMap, IsList, Fail
<1>3. SameMap(l, l)
    BY Zenon DEF SameMap
<1> QED
    BY <1>1, <1>2, <1>3, Zenon DEF UpdateUniqueProperty

\* CDeterministicGMList::UpdateGM replaces the state of a gamemaster that is
\* listed, and nothing else of the gamemasters.
LEMMA UpdateGMMap ==
    ASSUME NEW l, IsList(l), NEW h, NEW st, Ok(UpdateGM(l, h, st))
    PROVE  /\ Ok(l) /\ h \in DOMAIN l.gmMap
           /\ UpdateGM(l, h, st).height = l.height
           /\ UpdateGM(l, h, st).gmMap = Put(l.gmMap, h, [l.gmMap[h] EXCEPT !.state = st])
<1> DEFINE old == l.gmMap[h].state
           l0 == [l EXCEPT !.gmMap = Put(@, h, [@[h] EXCEPT !.state = st])]
           l1 == UpdateUniqueProperty(l0, h, Addr(old), Addr(st))
           l2 == UpdateUniqueProperty(l1, h, Owner(old), Owner(st))
           l3 == UpdateUniqueProperty(l2, h, Operator(old), Operator(st))
<1>1. Ok(l) /\ HasGM(l, h)
    BY Zenon DEF UpdateGM, Ok, Fail, IsList
<1>2. UpdateGM(l, h, st) = l3
    BY <1>1, Zenon DEF UpdateGM, Ok, Fail, IsList
<1>3. /\ IsList(l0) /\ l0.height = l.height
      /\ l0.gmMap = Put(l.gmMap, h, [l.gmMap[h] EXCEPT !.state = st])
    BY DEF IsList
<1> HIDE DEF l0
<1>4. SameMap(l0, l1)
    BY <1>3, PropertyKeepsMap, Zenon
<1> HIDE DEF l1
<1>5. SameMap(l1, l2)
    BY <1>4, PropertyKeepsMap DEF SameMap
<1> HIDE DEF l2
<1>6. SameMap(l2, l3)
    BY <1>5, PropertyKeepsMap DEF SameMap
<1> HIDE DEF l3
<1> QED
    BY <1>1, <1>2, <1>3, <1>4, <1>5, <1>6, Zenon DEF SameMap, HasGM

\* CDeterministicGMList::RemoveGM, if it succeeds, takes one gamemaster out, and
\* it succeeds only for one that has a collateral, an owner and an operator key.
LEMMA RemoveGMMap ==
    ASSUME NEW l, IsList(l), NEW h, Ok(RemoveGM(l, h))
    PROVE  /\ Ok(l) /\ h \in DOMAIN l.gmMap
           /\ RemoveGM(l, h).height = l.height
           /\ RemoveGM(l, h).gmMap = Drop(l.gmMap, h)
           /\ l.gmMap[h].collateral # Null
           /\ l.gmMap[h].state.owner # Null /\ l.gmMap[h].state.operator # Null
<1> DEFINE g == l.gmMap[h]
           st == g.state
           l1 == DeleteUniqueProperty(l, h, Collateral(g))
           l2 == IF st.addr = Null THEN l1 ELSE DeleteUniqueProperty(l1, h, Addr(st))
           l3 == DeleteUniqueProperty(l2, h, Owner(st))
           l4 == DeleteUniqueProperty(l3, h, Operator(st))
           m == [l4 EXCEPT !.gmMap = Drop(@, h)]
<1>1. Ok(l) /\ HasGM(l, h)
    BY Zenon DEF RemoveGM, Ok, Fail, IsList
<1>2. RemoveGM(l, h) = m
    BY <1>1, Zenon DEF RemoveGM
<1>3. ASSUME NEW x, IsList(x), NEW p, Ok(DeleteUniqueProperty(x, h, p))
      PROVE  Ok(x) /\ p[2] # Null
    BY <1>3, Zenon DEF DeleteUniqueProperty, Ok, Fail, IsList
<1>4. SameMap(l, l1)
    BY PropertyKeepsMap, Zenon
<1> HIDE DEF l1
<1>5. SameMap(l1, l2)
    BY <1>4, PropertyKeepsMap DEF SameMap
<1> HIDE DEF l2
<1>6. SameMap(l2, l3)
    BY <1>5, PropertyKeepsMap DEF SameMap
<1> HIDE DEF l3
<1>7. SameMap(l3, l4)
    BY <1>6, PropertyKeepsMap DEF SameMap
<1>8. IsList(m) /\ m.height = l.height /\ m.gmMap = Drop(l.gmMap, h)
    <2> HIDE DEF l4
    <2> QED
        BY <1>4, <1>5, <1>6, <1>7 DEF SameMap, IsList
<1>9. Ok(l4)
    <2> HIDE DEF l4
    <2> QED
        BY <1>2, <1>7, Zenon DEF Ok, SameMap, IsList
<1>a. Ok(l3) /\ Operator(st)[2] # Null
    BY <1>3, <1>6, <1>9, Zenon DEF SameMap
<1>b. Ok(l2) /\ Owner(st)[2] # Null
    BY <1>3, <1>5, <1>a, Zenon DEF SameMap, l3
<1>c. Ok(l1)
    BY <1>3, <1>4, <1>b, Zenon DEF SameMap, l2
<1>d. Collateral(g)[2] # Null
    BY <1>3, <1>c, Zenon DEF l1
<1> QED
    BY <1>1, <1>2, <1>8, <1>a, <1>b, <1>d, Zenon DEF Collateral, Owner, Operator, HasGM

\* CDeterministicGMList::AddGM succeeds only for a hash that is not listed and
\* an operator key that is not null, and keeps the height.
LEMMA AddGMMap ==
    ASSUME NEW l, IsList(l), NEW g, NEW bump, Ok(AddGM(l, g, bump))
    PROVE  /\ Ok(l) /\ g.hash \notin DOMAIN l.gmMap
           /\ AddGM(l, g, bump).height = l.height
           /\ g.state.operator # Null
<1> DEFINE h == g.hash
           st == g.state
           l0 == [l EXCEPT !.gmMap = Put(@, h, g)]
           l1 == AddUniqueProperty(l0, h, Collateral(g))
           l2 == IF st.addr = Null THEN l1 ELSE AddUniqueProperty(l1, h, Addr(st))
           l3 == AddUniqueProperty(l2, h, Owner(st))
           l4 == AddUniqueProperty(l3, h, Operator(st))
           m == IF bump /\ g.id >= l.total THEN [l4 EXCEPT !.total = g.id + 1] ELSE l4
<1>1. Ok(l) /\ ~HasGM(l, h)
    BY Zenon DEF AddGM, Ok, Fail, IsList
<1>2. AddGM(l, g, bump) = m
    BY <1>1, Zenon DEF AddGM, Ok, Fail, IsList
<1>3. IsList(l0) /\ l0.height = l.height
    BY DEF IsList
<1> HIDE DEF l0
<1>4. SameMap(l0, l1)
    BY <1>3, PropertyKeepsMap, Zenon
<1> HIDE DEF l1
<1>5. SameMap(l1, l2)
    BY <1>4, PropertyKeepsMap DEF SameMap
<1> HIDE DEF l2
<1>6. SameMap(l2, l3)
    BY <1>5, PropertyKeepsMap DEF SameMap
<1> HIDE DEF l3
<1>7. SameMap(l3, l4)
    BY <1>6, PropertyKeepsMap DEF SameMap
<1>8. m.height = l.height /\ (Ok(m) => Ok(l4))
    <2> HIDE DEF l4
    <2> QED
        BY <1>3, <1>4, <1>5, <1>6, <1>7, Zenon DEF SameMap, IsList, Ok
<1>9. Operator(st)[2] # Null
    BY <1>2, <1>6, <1>8, Zenon DEF AddUniqueProperty, Ok, Fail, SameMap, IsList
<1> QED
    BY <1>1, <1>2, <1>8, <1>9, Zenon DEF Operator, HasGM
-----------------------------------------------------------------------------
StateFields ==
    {"registeredHeight", "lastPaidHeight", "penalty", "revivedHeight", "banHeight",
     "confirmed", "owner", "operator", "addr"}
HasStateFields(st) == st = [f \in StateFields |-> st[f]]

\* A gamemaster's state in a list of height height.  Who is not banned can be
\* reached: there is an address and an operator key.
IsState(st, height) ==
    /\ HasStateFields(st)
    /\ st.registeredHeight \in 0 .. height /\ st.lastPaidHeight \in 0 .. height
    /\ st.penalty \in Nat /\ st.revivedHeight \in Never .. height
    /\ st.banHeight = Never => st.addr # Null /\ st.operator # Null

Sound(l) ==
    /\ IsList(l) /\ PropertiesExact(l) /\ l.height \in Int
    /\ IsFiniteSet(DOMAIN l.gmMap) /\ DOMAIN l.gmMap \subseteq Nat
    /\ \A h \in DOMAIN l.gmMap : IsGM(l.gmMap[h]) /\ IsState(l.gmMap[h].state, l.height)

\* UpdateGM keeps a list sound if the new state is one of the list's height.
LEMMA SoundUpdate ==
    ASSUME NEW l, Sound(l), NEW h, NEW st, Ok(UpdateGM(l, h, st)), IsState(st, l.height)
    PROVE  /\ Sound(UpdateGM(l, h, st)) /\ Ok(l) /\ h \in DOMAIN l.gmMap
           /\ DOMAIN UpdateGM(l, h, st).gmMap = DOMAIN l.gmMap
           /\ UpdateGM(l, h, st).gmMap[h].state = st
           /\ \A k \in DOMAIN l.gmMap \ {h} : UpdateGM(l, h, st).gmMap[k] = l.gmMap[k]
           /\ UpdateGM(l, h, st).height = l.height
<1> DEFINE m == UpdateGM(l, h, st)
<1>1. IsList(l) /\ PropertiesExact(l)
    BY Zenon DEF Sound
<1>2. /\ Ok(l) /\ h \in DOMAIN l.gmMap /\ m.height = l.height
      /\ m.gmMap = Put(l.gmMap, h, [l.gmMap[h] EXCEPT !.state = st])
    BY <1>1, UpdateGMMap
<1>3. IsGM(l.gmMap[h])
    BY <1>2, Zenon DEF Sound
<1>4. IsList(m) /\ PropertiesExact(m)
    BY <1>1, <1>3, UpdateGMExact, Zenon
<1> HIDE DEF m
<1>5. /\ DOMAIN m.gmMap = DOMAIN l.gmMap
      /\ m.gmMap[h] = [l.gmMap[h] EXCEPT !.state = st]
      /\ \A k \in DOMAIN l.gmMap \ {h} : m.gmMap[k] = l.gmMap[k]
    BY <1>2, Zenon DEF Put
<1>6. m.gmMap[h].state = st /\ IsGM(m.gmMap[h])
    BY <1>3, <1>5, Zenon DEF IsGM
<1>7. Sound(m)
    BY <1>2, <1>4, <1>5, <1>6, Zenon DEF Sound
<1> QED
    BY <1>2, <1>5, <1>6, <1>7, Zenon DEF m

\* In particular, UpdateGM keeps the registrations and sets the state.
LEMMA UpdatedState ==
    ASSUME NEW l, Sound(l), NEW h, NEW st, IsState(st, l.height),
           NEW u, u = UpdateGM(l, h, st), Ok(u)
    PROVE  DOMAIN u.gmMap = DOMAIN l.gmMap /\ u.gmMap[h].state = st
<1>1. Ok(UpdateGM(l, h, st))
    BY Zenon
<1>2. /\ DOMAIN UpdateGM(l, h, st).gmMap = DOMAIN l.gmMap
      /\ UpdateGM(l, h, st).gmMap[h].state = st
    BY <1>1, SoundUpdate
<1> QED
    BY <1>2, Zenon

\* RemoveGM keeps a list sound and the other gamemasters as they are.
LEMMA SoundRemove ==
    ASSUME NEW l, Sound(l), NEW h, Ok(RemoveGM(l, h))
    PROVE  /\ Sound(RemoveGM(l, h)) /\ Ok(l) /\ h \in DOMAIN l.gmMap
           /\ DOMAIN RemoveGM(l, h).gmMap = DOMAIN l.gmMap \ {h}
           /\ \A k \in DOMAIN l.gmMap \ {h} : RemoveGM(l, h).gmMap[k] = l.gmMap[k]
           /\ RemoveGM(l, h).height = l.height
<1> DEFINE m == RemoveGM(l, h)
<1>1. IsList(l) /\ PropertiesExact(l)
    BY Zenon DEF Sound
<1>2. /\ Ok(l) /\ h \in DOMAIN l.gmMap /\ m.height = l.height
      /\ m.gmMap = Drop(l.gmMap, h)
      /\ l.gmMap[h].collateral # Null
      /\ l.gmMap[h].state.owner # Null /\ l.gmMap[h].state.operator # Null
    BY <1>1, RemoveGMMap, Zenon
<1>3. IsList(m) /\ PropertiesExact(m)
    BY <1>1, <1>2, RemoveGMExact, Zenon
<1> HIDE DEF m
<1>4. /\ DOMAIN m.gmMap = DOMAIN l.gmMap \ {h}
      /\ \A k \in DOMAIN l.gmMap \ {h} : m.gmMap[k] = l.gmMap[k]
    BY <1>2, Zenon DEF Drop
<1>5. IsFiniteSet(DOMAIN m.gmMap)
    BY <1>4, FS_RemoveElement, Zenon DEF Sound
<1>6. Sound(m)
    BY <1>2, <1>3, <1>4, <1>5, Zenon DEF Sound
<1> QED
    BY <1>2, <1>4, <1>6, Zenon DEF m

\* AddGM keeps a list sound if the new gamemaster's state is one of its height.
LEMMA SoundAdd ==
    ASSUME NEW l, Sound(l), NEW g, NEW bump, Ok(AddGM(l, g, bump)),
           IsGM(g), g.hash \in Nat,
           g.state.operator # Null => IsState(g.state, l.height)
    PROVE  /\ Sound(AddGM(l, g, bump)) /\ Ok(l)
           /\ DOMAIN AddGM(l, g, bump).gmMap = DOMAIN l.gmMap \cup {g.hash}
           /\ g.hash \notin DOMAIN l.gmMap
           /\ \A k \in DOMAIN l.gmMap : AddGM(l, g, bump).gmMap[k] = l.gmMap[k]
           /\ AddGM(l, g, bump).height = l.height
<1> DEFINE m == AddGM(l, g, bump)
<1>1. IsList(l) /\ PropertiesExact(l)
    BY Zenon DEF Sound
<1>2. /\ Ok(l) /\ g.hash \notin DOMAIN l.gmMap /\ m.height = l.height
      /\ g.state.operator # Null
    BY <1>1, AddGMMap, Zenon
<1>3. IsList(m) /\ PropertiesExact(m) /\ m.gmMap = Put(l.gmMap, g.hash, g)
    BY <1>1, AddGMExact, Zenon
<1> HIDE DEF m
<1>4. /\ DOMAIN m.gmMap = DOMAIN l.gmMap \cup {g.hash}
      /\ m.gmMap[g.hash] = g
      /\ \A k \in DOMAIN l.gmMap : m.gmMap[k] = l.gmMap[k]
    BY <1>2, <1>3, Zenon DEF Put
<1>5. IsFiniteSet(DOMAIN m.gmMap)
    BY <1>4, FS_AddElement DEF Sound
<1>6. Sound(m)
    BY <1>2, <1>3, <1>4, <1>5, Zenon DEF Sound
<1> QED
    BY <1>2, <1>4, <1>6, Zenon DEF m

\* std::max and std::min of two numbers.
LEMMA MaxMin ==
    ASSUME NEW a \in Int, NEW b \in Int
    PROVE  /\ Max({a, b}) = IF a >= b THEN a ELSE b
           /\ Min({a, b}) = IF a <= b THEN a ELSE b
<1>1. \E x \in {a, b} : \A y \in {a, b} : x >= y
    OBVIOUS
<1>2. Max({a, b}) \in {a, b} /\ \A y \in {a, b} : Max({a, b}) >= y
    BY <1>1, Zenon DEF Max
<1>3. \E x \in {a, b} : \A y \in {a, b} : x =< y
    OBVIOUS
<1>4. Min({a, b}) \in {a, b} /\ \A y \in {a, b} : Min({a, b}) =< y
    BY <1>3, Zenon DEF Min
<1> QED
    BY <1>2, <1>4

\* CalcMaxPoSePenalty is at least 100, and 100 for up to 100 gamemasters;
\* CalcPenalty(66) is then at least 66.
LEMMA MaxPenalty ==
    ASSUME NEW l, Sound(l)
    PROVE  /\ CalcMaxPoSePenalty(l) \in Nat /\ CalcMaxPoSePenalty(l) >= 100
           /\ Cardinality(DOMAIN l.gmMap) <= 100 => CalcMaxPoSePenalty(l) = 100
           /\ CalcPenalty(l, 66) \in Nat /\ CalcPenalty(l, 66) >= 66
<1>1. Cardinality(DOMAIN l.gmMap) \in Nat
    BY FS_CardinalityType, Zenon DEF Sound
<1>2. /\ CalcMaxPoSePenalty(l) \in Nat /\ CalcMaxPoSePenalty(l) >= 100
      /\ Cardinality(DOMAIN l.gmMap) <= 100 => CalcMaxPoSePenalty(l) = 100
    BY <1>1, MaxMin DEF CalcMaxPoSePenalty
<1>3. \A n \in Nat : n >= 100 => (n * 66) \div 100 \in Nat /\ (n * 66) \div 100 >= 66
    OBVIOUS
<1> QED
    BY <1>2, <1>3, Zenon DEF CalcPenalty

\* What one operation on list l may do to the state o of a gamemaster: the
\* registration and the last payment stay, a ban is lifted and the penalty goes
\* down only with a revival, and a penalty goes up only below the maximum.
Becomes(l, o, st) ==
    /\ IsState(st, l.height)
    /\ st.registeredHeight = o.registeredHeight /\ st.lastPaidHeight = o.lastPaidHeight
    /\ \/ st.revivedHeight = l.height
       \/ /\ st.revivedHeight = o.revivedHeight
          /\ st.banHeight = Never =>
                /\ o.banHeight = Never /\ st.penalty >= o.penalty
                /\ st.penalty = o.penalty \/ st.penalty < CalcMaxPoSePenalty(l)

\* An operation that changes nothing of a gamemaster.
LEMMA BecomesItself ==
    ASSUME NEW l, NEW st, IsState(st, l.height)
    PROVE  Becomes(l, st, st)
BY DEF Becomes, IsState

\* ProcessProReg: a new gamemaster that can be reached is not banned.
LEMMA NewGMState ==
    ASSUME NEW l, l.height \in Nat, NEW tx, NewGM(l, tx).state.operator # Null
    PROVE  IsState(NewGM(l, tx).state, l.height)
BY DEF NewGM, IsState, Never, HasStateFields, StateFields

\* What a block has done to the state o of a gamemaster h of the old list, if of
\* these gamemasters the ones in aged have had their penalty decreased, the ones in
\* hit have been punished and the ones in paid have been paid.
Follows(c, h, aged, hit, paid, o, st) ==
    /\ st.registeredHeight = o.registeredHeight
    /\ st.lastPaidHeight = IF h \in paid THEN c.height ELSE o.lastPaidHeight
    /\ \/ st.revivedHeight = c.height
       \/ /\ st.revivedHeight = o.revivedHeight
          /\ st.banHeight = Never =>
                /\ o.banHeight = Never
                /\ st.penalty >= o.penalty - (IF h \in aged THEN 1 ELSE 0)
                                           + (IF h \in hit THEN 66 ELSE 0)
                /\ h \in hit /\ Cardinality(DOMAIN c.old.gmMap \cup c.regs) <= 100
                        => st.penalty < 100

\* A gamemaster that no operation has touched.
LEMMA FollowsItself ==
    ASSUME NEW c, NEW h, NEW o, o.penalty \in Nat
    PROVE  Follows(c, h, {}, {}, {}, o, o)
BY DEF Follows

\* DecreasePoSePenalties: one whose penalty was not decreased had none.
LEMMA FollowsMore ==
    ASSUME NEW c, NEW h, NEW S, NEW T, h \in T, NEW o, NEW st,
           o.penalty \in Nat, st.penalty \in Nat, Follows(c, h, S, {}, {}, o, st)
    PROVE  Follows(c, h, T, {}, {}, o, st)
BY DEF Follows

\* PoSeDecrease: one whose penalty was decreased just now.
LEMMA FollowsDecreased ==
    ASSUME NEW c, NEW h, NEW S, h \in S, NEW o, NEW st, NEW new,
           o.penalty \in Nat, st.penalty \in Nat, new.penalty = st.penalty - 1,
           new.banHeight = st.banHeight, new.registeredHeight = st.registeredHeight,
           new.lastPaidHeight = st.lastPaidHeight, new.revivedHeight = st.revivedHeight,
           Follows(c, h, S \ {h}, {}, {}, o, st)
    PROVE  Follows(c, h, S, {}, {}, o, new)
BY DEF Follows

\* The first block of a DKG interval can have no commitment.
IsFirst(c) == c.height % DkgInterval = 0

\* The list m that building the list after c.old has come to.
Since(c, aged, hit, paid, m) ==
    /\ IsFirst(c) => hit = {}
    /\ \A h \in DOMAIN m.gmMap :
        IF h \in DOMAIN c.old.gmMap
        THEN Follows(c, h, aged, hit, paid, c.old.gmMap[h].state, m.gmMap[h].state)
        ELSE h \in c.regs

\* A block: the list c.old it is built on, its height, its transactions and the
\* hashes of the registrations among them, and the list of its quorum.
IsBlock(c) ==
    /\ Sound(c.old) /\ c.height \in Nat \ {0} /\ c.old.height < c.height
    /\ c.txs \in Seq(Range(c.txs))
    /\ \A tx \in Range(c.txs) :
        /\ IsFiniteSet(tx.spends)
        /\ tx.type = "PROREG" => tx.hash \in Nat /\ tx.hash \in c.regs
        /\ tx.type = "PROUPSERV" => tx.addr # Null
    /\ IsFiniteSet(c.regs) /\ c.regs \cap DOMAIN c.old.gmMap = {}

Built(c, aged, hit, paid, m) ==
    Ok(m) => Sound(m) /\ m.height = c.height /\ Since(c, aged, hit, paid, m)

\* No more gamemasters are listed while a block is processed than were listed
\* before and are registered by it: the maximal penalty is 100 for up to 100.
LEMMA SmallList ==
    ASSUME NEW c, IsBlock(c), NEW aged, NEW hit, NEW paid, NEW m, Since(c, aged, hit, paid, m),
           Sound(m), Cardinality(DOMAIN c.old.gmMap \cup c.regs) <= 100
    PROVE  CalcMaxPoSePenalty(m) = 100
<1>1. DOMAIN m.gmMap \subseteq DOMAIN c.old.gmMap \cup c.regs
    BY Zenon DEF Since
<1>2. IsFiniteSet(DOMAIN c.old.gmMap \cup c.regs)
    BY FS_Union, Zenon DEF IsBlock, Sound
<1>3. /\ Cardinality(DOMAIN m.gmMap) <= Cardinality(DOMAIN c.old.gmMap \cup c.regs)
      /\ Cardinality(DOMAIN m.gmMap) \in Nat
      /\ Cardinality(DOMAIN c.old.gmMap \cup c.regs) \in Nat
    BY <1>1, <1>2, FS_Subset, FS_CardinalityType, Zenon
<1>4. Cardinality(DOMAIN m.gmMap) <= 100
    BY <1>3
<1> QED
    BY <1>4, MaxPenalty, Zenon

\* UpdateGM within BuildNewListFromBlock, with a new state that Becomes allows.
LEMMA BuiltUpdate ==
    ASSUME NEW c, IsBlock(c), NEW aged, NEW hit, NEW paid, NEW m,
           Built(c, aged, hit, paid, m), NEW h, NEW st,
           Ok(m) /\ h \in DOMAIN m.gmMap => Becomes(m, m.gmMap[h].state, st)
    PROVE  Built(c, aged, hit, paid, UpdateGM(m, h, st))
<1> SUFFICES ASSUME Ok(UpdateGM(m, h, st))
             PROVE  /\ Sound(UpdateGM(m, h, st)) /\ UpdateGM(m, h, st).height = c.height
                    /\ Since(c, aged, hit, paid, UpdateGM(m, h, st))
    BY Zenon DEF Built
<1>1. Ok(m)
    BY Zenon DEF UpdateGM
<1>2. Sound(m) /\ m.height = c.height /\ Since(c, aged, hit, paid, m)
    BY <1>1, Zenon DEF Built
<1> DEFINE u == UpdateGM(m, h, st)
           old == m.gmMap[h].state
<1>3. h \in DOMAIN m.gmMap
    BY <1>2, UpdateGMMap, Zenon DEF Sound
<1>4. Becomes(m, old, st)
    BY <1>1, <1>3, Zenon
<1>5. /\ Sound(u) /\ DOMAIN u.gmMap = DOMAIN m.gmMap
      /\ u.gmMap[h].state = st /\ u.height = m.height
      /\ \A k \in DOMAIN m.gmMap \ {h} : u.gmMap[k] = m.gmMap[k]
    BY <1>2, <1>4, SoundUpdate DEF Becomes
<1> HIDE DEF u
<1>6. ASSUME h \in DOMAIN c.old.gmMap
      PROVE  Follows(c, h, aged, hit, paid, c.old.gmMap[h].state, st)
    <2> DEFINE o == c.old.gmMap[h].state
               low == o.penalty - (IF h \in aged THEN 1 ELSE 0)
                                + (IF h \in hit THEN 66 ELSE 0)
               max == CalcMaxPoSePenalty(m)
    <2> SUFFICES Follows(c, h, aged, hit, paid, o, st)
        BY Zenon
    <2>1. Follows(c, h, aged, hit, paid, o, old)
        BY <1>2, <1>3, <1>6, Zenon DEF Since
    <2>2. /\ st.penalty \in Nat /\ old.penalty \in Nat /\ low \in Int
          /\ max \in Nat
        <3>1. IsState(st, m.height) /\ IsState(old, m.height) /\ IsState(o, c.old.height)
            BY <1>2, <1>3, <1>4, <1>6, Zenon DEF Becomes, Sound, IsBlock
        <3>2. st.penalty \in Nat /\ old.penalty \in Nat /\ o.penalty \in Nat
            BY <3>1, Zenon DEF IsState
        <3> QED
            BY <1>2, <3>2, MaxPenalty
    <2>3. Cardinality(DOMAIN c.old.gmMap \cup c.regs) <= 100 => max = 100
        BY <1>2, SmallList
    <2> HIDE DEF old, o, max
    <2>4. CASE st.revivedHeight = m.height
        BY <1>2, <1>4, <2>1, <2>4, Zenon DEF Follows, Becomes
    <2>5. CASE st.revivedHeight # m.height
        <3>1. ASSUME old.revivedHeight = c.height
              PROVE  FALSE
            BY <1>2, <1>4, <2>5, <3>1, Zenon DEF Becomes
        <3>2. /\ st.revivedHeight = old.revivedHeight
              /\ st.banHeight = Never =>
                    /\ old.banHeight = Never /\ st.penalty >= old.penalty
                    /\ st.penalty = old.penalty \/ st.penalty < max
            BY <1>4, <2>5, Zenon DEF Becomes, max
        <3>a. /\ old.revivedHeight = o.revivedHeight
              /\ old.banHeight = Never =>
                    /\ o.banHeight = Never /\ old.penalty >= low
                    /\ h \in hit /\ Cardinality(DOMAIN c.old.gmMap \cup c.regs) <= 100
                            => old.penalty < 100
            BY <2>1, <3>1, Zenon DEF Follows
        <3> HIDE DEF low
        <3>3. st.banHeight = Never =>
                    /\ o.banHeight = Never /\ st.penalty >= low
                    /\ h \in hit /\ Cardinality(DOMAIN c.old.gmMap \cup c.regs) <= 100
                            => st.penalty < 100
            BY <2>2, <2>3, <3>2, <3>a
        <3> QED
            BY <1>4, <2>1, <3>2, <3>3, <3>a, Zenon DEF Follows, Becomes, low
    <2> QED
        BY <2>4, <2>5, Zenon
<1>7. Since(c, aged, hit, paid, u)
    BY <1>2, <1>3, <1>5, <1>6, Zenon DEF Since
<1> QED
    BY <1>2, <1>5, <1>7, Zenon DEF u

\* RemoveGM within BuildNewListFromBlock: a spent or a replaced collateral.
LEMMA BuiltRemove ==
    ASSUME NEW c, NEW aged, NEW hit, NEW paid, NEW m, Built(c, aged, hit, paid, m), NEW h
    PROVE  Built(c, aged, hit, paid, RemoveGM(m, h))
<1> SUFFICES ASSUME Ok(RemoveGM(m, h))
             PROVE  /\ Sound(RemoveGM(m, h)) /\ RemoveGM(m, h).height = c.height
                    /\ Since(c, aged, hit, paid, RemoveGM(m, h))
    BY Zenon DEF Built
<1>1. Ok(m)
    BY Zenon DEF RemoveGM
<1>2. Sound(m) /\ m.height = c.height /\ Since(c, aged, hit, paid, m)
    BY <1>1, Zenon DEF Built
<1> DEFINE u == RemoveGM(m, h)
<1>3. /\ Sound(u) /\ DOMAIN u.gmMap = DOMAIN m.gmMap \ {h} /\ u.height = m.height
      /\ \A k \in DOMAIN m.gmMap \ {h} : u.gmMap[k] = m.gmMap[k]
    BY <1>1, <1>2, SoundRemove, Zenon
<1> HIDE DEF u
<1>4. Since(c, aged, hit, paid, u)
    BY <1>2, <1>3, Zenon DEF Since
<1> QED
    BY <1>2, <1>3, <1>4, Zenon DEF u
-----------------------------------------------------------------------------
\* PoSePunish by 66 % of the maximum adds at least 66 to the penalty, or bans.
LEMMA PunishedState ==
    ASSUME NEW m, Sound(m), Ok(m), m.height \in Nat, NEW h \in DOMAIN m.gmMap
    PROVE  \E new : /\ PoSePunish(m, h, CalcPenalty(m, 66)) = UpdateGM(m, h, new)
                    /\ Becomes(m, m.gmMap[h].state, new)
                    /\ new.banHeight = Never =>
                            /\ new.penalty >= m.gmMap[h].state.penalty + 66
                            /\ new.penalty < CalcMaxPoSePenalty(m)
<1> DEFINE st == m.gmMap[h].state
           max == CalcMaxPoSePenalty(m)
           sum == Min({max, st.penalty + CalcPenalty(m, 66)})
           bans == sum >= max /\ st.banHeight = Never
           new == [st EXCEPT !.penalty = sum, !.banHeight = IF bans THEN m.height ELSE @]
<1>1. PoSePunish(m, h, CalcPenalty(m, 66)) = UpdateGM(m, h, new)
    BY Zenon DEF PoSePunish
<1>2. IsState(st, m.height) /\ m.height # Never
    BY DEF Sound, Never
<1>3. max \in Nat /\ CalcPenalty(m, 66) \in Nat /\ CalcPenalty(m, 66) >= 66 /\ st.penalty \in Nat
    BY <1>2, MaxPenalty, Zenon DEF IsState
<1>4. sum \in Nat /\ (sum < max => sum >= st.penalty + 66)
    <2> DEFINE b == st.penalty + CalcPenalty(m, 66)
    <2>1. b \in Nat /\ b >= st.penalty + 66
        BY <1>3
    <2> HIDE DEF max, b
    <2>2. Min({max, b}) = IF max <= b THEN max ELSE b
        <3>1. max \in Int /\ b \in Int
            BY <1>3, <2>1
        <3> QED
            BY <3>1, MaxMin, Zenon
    <2>3. Min({max, b}) \in Nat /\ (Min({max, b}) < max => Min({max, b}) >= st.penalty + 66)
        BY <1>3, <2>1, <2>2
    <2> QED
        BY <2>3, Zenon DEF b
<1> HIDE DEF sum, max
<1>5. /\ HasStateFields(new) /\ new.penalty = sum
      /\ new.banHeight = IF bans THEN m.height ELSE st.banHeight
      /\ new.registeredHeight = st.registeredHeight
      /\ new.lastPaidHeight = st.lastPaidHeight
      /\ new.revivedHeight = st.revivedHeight
      /\ new.operator = st.operator /\ new.addr = st.addr
    <2>1. HasStateFields(st)
        BY <1>2, Zenon DEF IsState
    <2>2. HasStateFields(new)
        BY <2>1, Zenon DEF HasStateFields
    <2> QED
        BY <2>1, <2>2, Zenon DEF HasStateFields, StateFields
<1> SUFFICES Becomes(m, st, new) /\ (new.banHeight = Never =>
                    new.penalty >= st.penalty + 66 /\ new.penalty < max)
    BY <1>1, Zenon DEF max
<1> HIDE DEF st, new
<1>6. IsState(new, m.height)
    BY <1>2, <1>4, <1>5, Zenon DEF IsState
<1>7. new.banHeight = Never =>
        st.banHeight = Never /\ new.penalty >= st.penalty + 66 /\ new.penalty < max
    BY <1>2, <1>3, <1>4, <1>5
<1>8. new.banHeight = Never => new.penalty >= st.penalty
    BY <1>3, <1>4, <1>5, <1>7
<1> QED
    BY <1>5, <1>6, <1>7, <1>8, Zenon DEF Becomes, max

\* A ProUpServTx sets the address, and revives who is banned and has a key.
LEMMA BuiltProUpServ ==
    ASSUME NEW c, IsBlock(c), NEW aged, NEW hit, NEW paid, NEW m, Ok(m),
           Built(c, aged, hit, paid, m), NEW tx,
           tx.addr # Null, c.height \in Nat
    PROVE  Built(c, aged, hit, paid, ProcessProUpServ(m, tx))
<1> DEFINE h == tx.hash
           st == m.gmMap[h].state
           moved == [st EXCEPT !.addr = tx.addr]
           revived == [moved EXCEPT !.penalty = 0, !.banHeight = Never, !.revivedHeight = m.height]
<1>0. Sound(m) /\ m.height = c.height
    BY Zenon DEF Built
<1>1. CASE HeldByOther(m, <<"addr", tx.addr>>, h) \/ ~HasGM(m, h)
    BY <1>0, <1>1, Zenon DEF ProcessProUpServ, Built, Ok, Fail, Sound, IsList
<1>2. CASE ~(HeldByOther(m, <<"addr", tx.addr>>, h) \/ ~HasGM(m, h))
    <2>1. ProcessProUpServ(m, tx) = IF st.banHeight # Never /\ st.operator # Null
                                    THEN UpdateGM(m, h, revived) ELSE UpdateGM(m, h, moved)
        BY <1>2, Zenon DEF ProcessProUpServ
    <2>2. IsState(st, m.height)
        BY <1>0, <1>2, Zenon DEF Sound, HasGM
    <2>3. /\ HasStateFields(moved) /\ moved.penalty = st.penalty
          /\ moved.banHeight = st.banHeight /\ moved.registeredHeight = st.registeredHeight
          /\ moved.lastPaidHeight = st.lastPaidHeight
          /\ moved.revivedHeight = st.revivedHeight
          /\ moved.operator = st.operator /\ moved.addr = tx.addr
        <3>1. HasStateFields(st)
            BY <2>2, Zenon DEF IsState
        <3>2. HasStateFields(moved)
            BY <3>1, Zenon DEF HasStateFields
        <3> QED
            BY <3>1, <3>2, Zenon DEF HasStateFields, StateFields
    <2> HIDE DEF st, moved
    <2>4. /\ HasStateFields(revived) /\ revived.penalty = 0
          /\ revived.banHeight = Never /\ revived.registeredHeight = moved.registeredHeight
          /\ revived.lastPaidHeight = moved.lastPaidHeight
          /\ revived.revivedHeight = m.height
          /\ revived.operator = moved.operator /\ revived.addr = moved.addr
        <3>1. HasStateFields(revived)
            BY <2>3, Zenon DEF HasStateFields
        <3> QED
            BY <2>3, <3>1, Zenon DEF HasStateFields, StateFields
    <2> HIDE DEF revived
    <2>5. Becomes(m, st, moved)
        BY <2>2, <2>3 DEF IsState, Becomes
    <2>6. st.operator # Null
            => Becomes(m, st, revived)
        BY <1>0, <2>2, <2>3, <2>4 DEF IsState, Becomes, Never
    <2> QED
        BY <2>1, <2>5, <2>6, BuiltUpdate, Zenon DEF st
<1> QED
    BY <1>1, <1>2, Zenon

\* ResetOperatorFields and BanIfNotBanned, which a revocation and a new operator
\* key call: the gamemaster is banned, its penalty and its payments stay.
LEMMA ResetState ==
    ASSUME NEW l, l.height \in Nat, NEW st, IsState(st, l.height), NEW key
    PROVE  LET new == [ResetOperator(l, st) EXCEPT !.operator = key]
           IN  Becomes(l, st, new)
<1> DEFINE reset == ResetOperator(l, st)
           new == [reset EXCEPT !.operator = key]
<1>0. HasStateFields(st)
    BY Zenon DEF IsState
<1>1. /\ HasStateFields(reset) /\ reset.penalty = st.penalty
      /\ reset.banHeight = IF st.banHeight = Never THEN l.height ELSE st.banHeight
      /\ reset.registeredHeight = st.registeredHeight
      /\ reset.lastPaidHeight = st.lastPaidHeight
      /\ reset.revivedHeight = st.revivedHeight
      /\ reset.operator = Null
    <2>1. HasStateFields(reset)
        BY <1>0, Zenon DEF HasStateFields, ResetOperator
    <2> QED
        BY <1>0, <2>1, Zenon DEF HasStateFields, StateFields, ResetOperator
<1> HIDE DEF reset
<1>2. /\ HasStateFields(new) /\ new.penalty = reset.penalty
      /\ new.banHeight = reset.banHeight /\ new.registeredHeight = reset.registeredHeight
      /\ new.lastPaidHeight = reset.lastPaidHeight
      /\ new.revivedHeight = reset.revivedHeight
    <2>1. HasStateFields(new)
        BY <1>1, Zenon DEF HasStateFields
    <2> QED
        BY <1>1, <2>1, Zenon DEF HasStateFields, StateFields
<1> HIDE DEF new
<1>3. Becomes(l, st, new)
    BY <1>1, <1>2 DEF IsState, Becomes, Never
<1> QED
    BY <1>3, Zenon DEF new, reset

\* A ProUpRegTx with a new operator key bans until the next service update.
LEMMA BuiltProUpReg ==
    ASSUME NEW c, IsBlock(c), NEW aged, NEW hit, NEW paid, NEW m, Ok(m),
           Built(c, aged, hit, paid, m), NEW tx,
           c.height \in Nat
    PROVE  Built(c, aged, hit, paid, ProcessProUpReg(m, tx))
<1> DEFINE h == tx.hash
           st == m.gmMap[h].state
           new == [ResetOperator(m, st) EXCEPT !.operator = tx.operator]
<1>0. Sound(m) /\ m.height = c.height
    BY Zenon DEF Built
<1>1. CASE ~HasGM(m, h) \/ HeldByOther(m, <<"operator", tx.operator>>, h)
    BY <1>0, <1>1, Zenon DEF ProcessProUpReg, Built, Ok, Fail, Sound, IsList
<1>2. CASE ~(~HasGM(m, h) \/ HeldByOther(m, <<"operator", tx.operator>>, h))
    <2>1. IsState(st, m.height)
        BY <1>0, <1>2, Zenon DEF Sound, HasGM
    <2>2. CASE st.operator = tx.operator
        <3>1. [st EXCEPT !.operator = tx.operator] = st
            BY <2>1, <2>2, Zenon DEF IsState, HasStateFields, StateFields
        <3>2. ProcessProUpReg(m, tx) = UpdateGM(m, h, st)
            BY <1>2, <2>2, <3>1, Zenon DEF ProcessProUpReg
        <3>3. Becomes(m, st, st)
            BY <2>1, BecomesItself, Zenon
        <3> QED
            BY <2>1, <3>2, <3>3, BuiltUpdate, Zenon
    <2>3. CASE st.operator # tx.operator
        <3>1. ProcessProUpReg(m, tx) = UpdateGM(m, h, new)
            BY <1>2, <2>3, Zenon DEF ProcessProUpReg
        <3>2. Becomes(m, st, new)
            BY <1>0, <2>1, ResetState, Zenon
        <3> QED
            BY <3>1, <3>2, BuiltUpdate, Zenon
    <2> QED
        BY <2>2, <2>3, Zenon
<1> QED
    BY <1>1, <1>2, Zenon

\* A ProUpRevTx bans and clears the operator key.
LEMMA BuiltProUpRev ==
    ASSUME NEW c, IsBlock(c), NEW aged, NEW hit, NEW paid, NEW m, Ok(m),
           Built(c, aged, hit, paid, m), NEW tx,
           c.height \in Nat
    PROVE  Built(c, aged, hit, paid, ProcessProUpRev(m, tx))
<1> DEFINE h == tx.hash
           st == m.gmMap[h].state
<1>0. Sound(m) /\ m.height = c.height
    BY Zenon DEF Built
<1>1. CASE ~HasGM(m, h)
    BY <1>0, <1>1, Zenon DEF ProcessProUpRev, Built, Ok, Fail, Sound, IsList
<1>2. CASE HasGM(m, h)
    <2>1. IsState(st, m.height)
        BY <1>0, <1>2, Zenon DEF Sound, HasGM
    <2>2. [ResetOperator(m, st) EXCEPT !.operator = Null] = ResetOperator(m, st)
        BY <2>1, Zenon DEF IsState, ResetOperator, HasStateFields, StateFields
    <2>3. Becomes(m, st, ResetOperator(m, st))
        <3> DEFINE new == [ResetOperator(m, st) EXCEPT !.operator = Null]
        <3>1. Becomes(m, st, new)
            BY <1>0, <2>1, ResetState, Zenon
        <3> HIDE DEF st
        <3> QED
            BY <2>2, <3>1, Zenon
    <2>4. ProcessProUpRev(m, tx) = UpdateGM(m, h, ResetOperator(m, st))
        BY <1>2, Zenon DEF ProcessProUpRev
    <2> QED
        BY <2>3, <2>4, BuiltUpdate, Zenon
<1> QED
    BY <1>1, <1>2, Zenon

\* A ProRegTx adds a gamemaster; one whose collateral it takes over is replaced.
LEMMA BuiltProReg ==
    ASSUME NEW c, IsBlock(c), NEW aged, NEW hit, NEW paid, NEW m, Ok(m),
           Built(c, aged, hit, paid, m), NEW tx,
           tx.hash \in Nat, tx.hash \in c.regs, c.regs \cap DOMAIN c.old.gmMap = {},
           c.height \in Nat
    PROVE  Built(c, aged, hit, paid, ProcessProReg(m, tx))
<1> DEFINE p == <<"collateral", tx.collateral>>
           kept == IF HasUniqueProperty(m, p) THEN RemoveGM(m, m.props[p].gm) ELSE m
           g == NewGM(m, tx)
           u == AddGM(kept, g, TRUE)
<1>0. Sound(m) /\ m.height = c.height
    BY Zenon DEF Built
<1>1. Built(c, aged, hit, paid, kept)
    BY BuiltRemove, Zenon
<1>2. ProcessProReg(m, tx) = u \/ (Ok(kept) /\ ProcessProReg(m, tx) = Fail(kept, "reject"))
    BY Zenon DEF ProcessProReg
<1> HIDE DEF kept
<1>3. CASE Ok(kept) /\ ProcessProReg(m, tx) = Fail(kept, "reject")
    BY <1>1, <1>3, Zenon DEF Built, Ok, Fail, Sound, IsList
<1>4. CASE ProcessProReg(m, tx) = u
    <2> SUFFICES ASSUME Ok(u)
                 PROVE  Sound(u) /\ u.height = c.height /\ Since(c, aged, hit, paid, u)
        BY <1>4, Zenon DEF Built
    <2>1. Ok(kept)
        BY Zenon DEF AddGM
    <2>2. Sound(kept) /\ kept.height = c.height /\ Since(c, aged, hit, paid, kept)
        BY <1>1, <2>1, Zenon DEF Built
    <2>3. IsGM(g) /\ g.hash = tx.hash
        BY Zenon DEF NewGM, IsGM
    <2>4. g.state.operator # Null => IsState(g.state, kept.height)
        <3>1. m.height \in Nat /\ kept.height = m.height
            BY <1>0, <2>2, Zenon
        <3> QED
            BY <3>1, NewGMState, Zenon
    <2>5. /\ Sound(u) /\ DOMAIN u.gmMap = DOMAIN kept.gmMap \cup {tx.hash}
          /\ tx.hash \notin DOMAIN kept.gmMap /\ u.height = kept.height
          /\ \A k \in DOMAIN kept.gmMap : u.gmMap[k] = kept.gmMap[k]
        <3> HIDE DEF g
        <3>1. g.hash \in Nat
            BY <2>3, Zenon
        <3> DEFINE Adds(x) == /\ Sound(x) /\ DOMAIN x.gmMap = DOMAIN kept.gmMap \cup {g.hash}
                              /\ g.hash \notin DOMAIN kept.gmMap /\ x.height = kept.height
                              /\ \A k \in DOMAIN kept.gmMap : x.gmMap[k] = kept.gmMap[k]
        <3>2. \A bump : Ok(AddGM(kept, g, bump)) => Adds(AddGM(kept, g, bump))
            BY <2>2, <2>3, <2>4, <3>1, SoundAdd
        <3> HIDE DEF Adds
        <3>3. Adds(u)
            BY <3>2, Zenon
        <3> HIDE DEF u
        <3> QED
            BY <2>3, <3>3, Zenon DEF Adds
    <2> HIDE DEF u
    <2>6. Since(c, aged, hit, paid, u)
        BY <2>2, <2>5, Zenon DEF Since
    <2> QED
        BY <2>2, <2>5, <2>6, Zenon
<1> QED
    BY <1>2, <1>3, <1>4, Zenon
-----------------------------------------------------------------------------
AnyOf(s) == CHOOSE x \in s : TRUE

\* CHOOSE takes an element of every set that a loop has yet to go through.
LEMMA AnyOfChooses == \A S : \A s \in SUBSET S : s # {} => AnyOf(s) \in s
BY Zenon DEF AnyOf

\* A set of numbers that is not empty has a least element: the first block of
\* which something is not so.
LEMMA LeastElement == \A T \in SUBSET Nat : T # {} => \E n \in T : \A k \in T : n <= k
<1> SUFFICES ASSUME NEW T \in SUBSET Nat, T # {}
             PROVE  \E n \in T : \A k \in T : n <= k
    BY Zenon
<1>1. \E n \in T : \A k \in T : ~(<<k, n>> \in OpToRel(<, Nat))
    BY WFMin, NatLessThanWellFounded, Zenon
<1>2. \A k, n \in T : k < n => <<k, n>> \in OpToRel(<, Nat)
    BY Zenon DEF OpToRel
<1>3. PICK n \in T : \A k \in T : ~(k < n)
    BY <1>1, <1>2, Zenon
<1> QED
    BY <1>3

\* The size of the sets a loop over S has yet to go through.
Sizes(S) == [s \in SUBSET S |-> Cardinality(s)]

\* A loop over a finite set ends: every turn leaves fewer elements.
LEMMA SizesDecrease ==
    ASSUME NEW S, IsFiniteSet(S)
    PROVE  /\ \A s \in SUBSET S : Sizes(S)[s] \in Nat /\ Sizes(S)[s] <= Sizes(S)[S]
           /\ \A s \in SUBSET S : \A x \in s : Sizes(S)[s \ {x}] < Sizes(S)[s]
<1>1. ASSUME NEW s \in SUBSET S
      PROVE  /\ IsFiniteSet(s) /\ Sizes(S)[s] = Cardinality(s) /\ Cardinality(s) \in Nat
             /\ Cardinality(s) <= Cardinality(S)
    BY FS_Subset, FS_CardinalityType, Zenon DEF Sizes
<1>2. ASSUME NEW s \in SUBSET S, NEW x \in s
      PROVE  Cardinality(s \ {x}) < Cardinality(s)
    <2>1. Cardinality(s \ {x}) = Cardinality(s) - 1
        BY <1>1, FS_RemoveElement, Zenon
    <2> QED
        BY <1>1, <2>1
<1>3. Sizes(S)[S] = Cardinality(S)
    BY Zenon DEF Sizes
<1> QED
    BY <1>1, <1>2, <1>3, Zenon

\* The last index of the elements that a loop over a vector has gone through.
LEMMA MaxChooses ==
    ASSUME NEW n \in Nat, NEW s \in SUBSET (1 .. n), s # {}
    PROVE  Max(s) \in s /\ \A x \in s : Max(s) >= x
<1> DEFINE T == {k \in Nat : n - k \in s}
<1>1. T \in SUBSET Nat /\ T # {}
    <2>1. PICK x \in s : TRUE
        BY Zenon
    <2>2. n - x \in T
        BY <2>1
    <2> QED
        BY <2>2, Zenon
<1>2. PICK k \in T : \A j \in T : k <= j
    BY <1>1, LeastElement, Zenon
<1>3. n - k \in s /\ \A x \in s : n - k >= x
    <2>1. ASSUME NEW x \in s PROVE n - k >= x
        <3>1. n - x \in T
            OBVIOUS
        <3>2. k <= n - x /\ k \in Nat
            BY <1>2, <3>1, Zenon
        <3> QED
            BY <3>2
    <2> QED
        BY <1>2, <2>1, Zenon
<1> HIDE DEF T
<1>4. \E y \in s : \A x \in s : y >= x
    BY <1>3, Zenon
<1> QED
    BY <1>4, Zenon DEF Max

-----------------------------------------------------------------------------
\* Of the members of the quorum that a commitment finds invalid, the ones of s are
\* punished; the ones of c.hit were before.
PunishStep(c, h, m) == PoSePunish(m, h, CalcPenalty(m, 66))
PunishInv(c, s, m) ==
    /\ ~IsFirst(c.block)
    /\ Built(c.block, DOMAIN c.block.old.gmMap, c.hit \cup s, {}, m)
    /\ Ok(m) => DOMAIN m.gmMap = DOMAIN c.list.gmMap

Punish == INSTANCE FoldInduction WITH Step <- PunishStep, Choose <- AnyOf, Inv <- PunishInv

\* One turn of the loop of HandleQuorumCommitment: the member is punished, by at
\* least 66 unless that bans it.
LEMMA PunishOne ==
    ASSUME NEW c, IsBlock(c.block), NEW s, NEW h \in s, h \in DOMAIN c.list.gmMap,
           NEW m, PunishInv(c, s \ {h}, m)
    PROVE  PunishInv(c, s, PunishStep(c, h, m))
<1> DEFINE b == c.block
           aged == DOMAIN b.old.gmMap
           before == c.hit \cup (s \ {h})
           hit == c.hit \cup s
           u == PunishStep(c, h, m)
<1>1. CASE ~Ok(m)
    BY <1>1, Zenon DEF PunishInv, Built, PunishStep, PoSePunish
<1>2. CASE Ok(m)
    <2>1. /\ Sound(m) /\ m.height = b.height /\ Since(b, aged, before, {}, m)
          /\ Built(b, aged, before, {}, m)
          /\ DOMAIN m.gmMap = DOMAIN c.list.gmMap /\ m.height \in Nat /\ ~IsFirst(b)
        BY <1>2, Zenon DEF PunishInv, Built, IsBlock
    <2> DEFINE st == m.gmMap[h].state
               o == b.old.gmMap[h].state
               max == CalcMaxPoSePenalty(m)
    <2>2. PICK new : /\ u = UpdateGM(m, h, new) /\ Becomes(m, st, new)
                     /\ new.banHeight = Never => /\ new.penalty >= st.penalty + 66
                                                 /\ new.penalty < max
        BY <1>2, <2>1, PunishedState, Zenon DEF PunishStep
    <2>3. Built(b, aged, before, {}, u)
        BY <2>1, <2>2, BuiltUpdate
    <2> SUFFICES ASSUME Ok(u)
                 PROVE  /\ Sound(u) /\ u.height = b.height /\ Since(b, aged, hit, {}, u)
                        /\ DOMAIN u.gmMap = DOMAIN c.list.gmMap
        BY Zenon DEF PunishInv, Built
    <2>4. Sound(u) /\ u.height = b.height /\ Since(b, aged, before, {}, u)
        BY <2>3, Zenon DEF Built
    <2> HIDE DEF u, before, hit
    <2>5. DOMAIN u.gmMap = DOMAIN m.gmMap /\ u.gmMap[h].state = new
        <3>1. IsState(new, m.height) /\ Ok(UpdateGM(m, h, new))
            BY <2>2, Zenon DEF Becomes
        <3>2. Sound(m) /\ u = UpdateGM(m, h, new)
            BY <2>1, <2>2, Zenon
        <3>3. PICK l : l = m
            BY Zenon
        <3>4. Sound(l) /\ IsState(new, l.height) /\ u = UpdateGM(l, h, new) /\ Ok(u)
            BY <3>1, <3>2, <3>3, Zenon
        <3> QED
            BY <3>3, <3>4, UpdatedState
    <2>6. ASSUME h \in DOMAIN b.old.gmMap
          PROVE  Follows(b, h, aged, hit, {}, o, new)
        <3>1. Follows(b, h, aged, before, {}, o, new) /\ Follows(b, h, aged, before, {}, o, st)
            BY <2>1, <2>4, <2>5, <2>6, Zenon DEF Since
        <3>2. new.penalty \in Nat /\ st.penalty \in Nat /\ o.penalty \in Nat /\ max \in Nat
            <4>1. IsState(new, m.height) /\ IsState(st, m.height) /\ IsState(o, b.old.height)
                BY <2>1, <2>2, <2>6, Zenon DEF Becomes, Sound, IsBlock
            <4> QED
                BY <2>1, <4>1, MaxPenalty, Zenon DEF IsState
        <3>3. Cardinality(DOMAIN b.old.gmMap \cup b.regs) <= 100 => max = 100
            BY <2>1, SmallList
        <3> HIDE DEF st, o, max, aged
        <3>4. CASE new.revivedHeight = b.height
            BY <3>1, <3>4, Zenon DEF Follows
        <3>5. CASE new.revivedHeight # b.height
            <4>1. new.revivedHeight = o.revivedHeight /\ st.revivedHeight # b.height
                BY <2>1, <2>2, <3>1, <3>5, Zenon DEF Follows, Becomes
            <4>2. new.banHeight = Never => st.banHeight = Never /\ o.banHeight = Never
                BY <2>1, <2>2, <3>1, <3>5, Zenon DEF Follows, Becomes
            <4>3. st.banHeight = Never
                    => st.penalty >= o.penalty - (IF h \in aged THEN 1 ELSE 0)
                                               + (IF h \in before THEN 66 ELSE 0)
                BY <3>1, <4>1, Zenon DEF Follows
            <4>4. new.banHeight = Never
                    => /\ new.penalty >= o.penalty - (IF h \in aged THEN 1 ELSE 0) + 66
                       /\ Cardinality(DOMAIN b.old.gmMap \cup b.regs) <= 100 => new.penalty < 100
                BY <2>2, <3>2, <3>3, <4>2, <4>3 DEF max
            <4>5. h \in hit
                BY Zenon DEF hit
            <4> QED
                BY <3>1, <4>1, <4>2, <4>4, <4>5, Zenon DEF Follows
        <3> QED
            BY <3>4, <3>5, Zenon
    <2>7. ASSUME NEW k \in DOMAIN u.gmMap, k \in DOMAIN b.old.gmMap, k # h
          PROVE  Follows(b, k, aged, hit, {}, b.old.gmMap[k].state, u.gmMap[k].state)
        <3>1. Follows(b, k, aged, before, {}, b.old.gmMap[k].state, u.gmMap[k].state)
            BY <2>4, <2>7, Zenon DEF Since
        <3>2. k \in hit <=> k \in before
            BY <2>7, Zenon DEF hit, before
        <3> QED
            BY <3>1, <3>2, Zenon DEF Follows
    <2>8. Since(b, aged, hit, {}, u)
        BY <2>1, <2>4, <2>5, <2>6, <2>7, Zenon DEF Since
    <2> QED
        BY <2>1, <2>4, <2>5, <2>8, Zenon
<1> QED
    BY <1>1, <1>2, Zenon

\* The gamemasters that commitment tx punishes in block c.
Found(c, tx) ==
    IF IsFirst(c) THEN tx.invalid ELSE CalculateQuorum(c.quorum) \cap tx.invalid

\* HandleQuorumCommitment punishes the members of the quorum that the commitment
\* finds invalid, and only those.
LEMMA BuiltCommitment ==
    ASSUME NEW c, IsBlock(c), NEW hit, NEW m, Ok(m),
           Built(c, DOMAIN c.old.gmMap, hit, {}, m), NEW tx
    PROVE  Built(c, DOMAIN c.old.gmMap, hit \cup Found(c, tx), {},
                 HandleQuorumCommitment(m, tx, c.quorum))
<1>0. Sound(m) /\ m.height = c.height
    BY Zenon DEF Built
<1>1. CASE m.height % DkgInterval = 0
    BY <1>0, <1>1, Zenon DEF HandleQuorumCommitment, Built, Ok, Fail, Sound, IsList
<1>2. CASE m.height % DkgInterval # 0
    <2> DEFINE found == CalculateQuorum(c.quorum) \cap tx.invalid
               S == found \cap DOMAIN m.gmMap
               d == [block |-> c, hit |-> hit, list |-> m]
               u == Punish!Fold(d, m, S)
    <2>1. HandleQuorumCommitment(m, tx, c.quorum) = u
        BY <1>2, Zenon DEF HandleQuorumCommitment, Punish!Fold, FoldSet, MapThenFoldSet,
                           PunishStep, AnyOf
    <2>2. IsFiniteSet(S)
        <3>1. IsFiniteSet(DOMAIN m.gmMap) /\ S \in SUBSET DOMAIN m.gmMap
            BY <1>0, Zenon DEF Sound
        <3> QED
            BY <3>1, FS_Subset, Zenon
    <2>3. S \subseteq DOMAIN m.gmMap /\ (hit \cup found) \cap DOMAIN m.gmMap \subseteq hit \cup S
        BY Zenon
    <2>4. d.block = c /\ d.hit = hit /\ d.list = m
        BY Zenon
    <2>5. S \subseteq found
        BY Zenon
    <2> HIDE DEF S, d
    <2>6. \A s \in SUBSET S : s # {} => AnyOf(s) \in s
        BY AnyOfChooses, Zenon
    <2>7. Punish!Ends(S, Sizes(S)) /\ Punish!LeastNumber
        BY <2>2, <2>6, SizesDecrease, LeastElement, Zenon DEF Punish!Ends, Punish!LeastNumber
    <2>8. PunishInv(d, {}, m)
        BY <1>0, <1>2, <2>4, Zenon DEF PunishInv, IsFirst
    <2>9. \A s \in SUBSET S : \A x :
            s # {} /\ PunishInv(d, s \ {AnyOf(s)}, x) => PunishInv(d, s, PunishStep(d, AnyOf(s), x))
        BY <2>3, <2>4, <2>6, PunishOne, Zenon
    <2>a. PunishInv(d, S, u)
        BY <2>7, <2>8, <2>9, Punish!FoldInduct, Zenon
    <2> HIDE DEF u, found
    <2>b. ASSUME Ok(u) PROVE Since(c, DOMAIN c.old.gmMap, hit \cup found, {}, u)
        <3>1. Since(c, DOMAIN c.old.gmMap, hit \cup S, {}, u) /\ DOMAIN u.gmMap = DOMAIN m.gmMap
            BY <2>4, <2>a, <2>b, Zenon DEF PunishInv, Built
        <3>2. \A k \in DOMAIN u.gmMap : k \in hit \cup S <=> k \in hit \cup found
            BY <2>3, <2>5, <3>1, Zenon
        <3>3. ~IsFirst(c)
            BY <1>0, <1>2, Zenon DEF IsFirst
        <3> QED
            BY <3>1, <3>2, <3>3, Zenon DEF Since, Follows
    <2>c. Built(c, DOMAIN c.old.gmMap, hit \cup found, {}, u)
        BY <2>4, <2>a, <2>b, Zenon DEF PunishInv, Built
    <2>d. Found(c, tx) = found
        BY <1>0, <1>2, Zenon DEF Found, IsFirst, found
    <2> QED
        BY <2>1, <2>c, <2>d, Zenon
<1> QED
    BY <1>1, <1>2, Zenon
-----------------------------------------------------------------------------
\* The gamemasters that the commitments among the transactions s punish.
HitBy(c, s) ==
    UNION {Found(c, c.txs[i]) : i \in {i \in s : c.txs[i].type = "LLMQCOMM"}}

TxStep(c, i, m) == ProcessTx(m, c.txs[i], c.quorum)
TxInv(c, s, m) == Built(c, DOMAIN c.old.gmMap, HitBy(c, s), {}, m)

Tx == INSTANCE FoldInduction WITH Step <- TxStep, Choose <- Max, Inv <- TxInv

\* One turn of the loop of BuildNewListFromBlock over the special transactions.
LEMMA BuiltTx ==
    ASSUME NEW c, IsBlock(c), NEW s, NEW i \in s, i \in DOMAIN c.txs,
           NEW m, TxInv(c, s \ {i}, m)
    PROVE  TxInv(c, s, TxStep(c, i, m))
<1> DEFINE tx == c.txs[i]
           aged == DOMAIN c.old.gmMap
           before == HitBy(c, s \ {i})
<1>0. /\ c.height \in Nat /\ c.regs \cap DOMAIN c.old.gmMap = {}
      /\ tx.type = "PROREG" => tx.hash \in Nat /\ tx.hash \in c.regs
      /\ tx.type = "PROUPSERV" => tx.addr # Null
    <2>1. tx \in Range(c.txs)
        BY Zenon DEF Range
    <2> QED
        BY <2>1, Zenon DEF IsBlock
<1>h. HitBy(c, s) = IF tx.type = "LLMQCOMM"
                    THEN before \cup Found(c, tx) ELSE before
    BY Zenon DEF HitBy
<1>m. Built(c, aged, before, {}, m)
    BY Zenon DEF TxInv
<1> SUFFICES Built(c, aged, HitBy(c, s), {}, ProcessTx(m, tx, c.quorum))
    BY Zenon DEF TxInv, TxStep
<1> HIDE DEF tx, before
<1>1. CASE ~Ok(m)
    BY <1>1, Zenon DEF ProcessTx, Built
<1>2. CASE Ok(m) /\ tx.type = "PROREG"
    <2>1. ProcessTx(m, tx, c.quorum) = ProcessProReg(m, tx)
        BY <1>2, Zenon DEF ProcessTx
    <2> QED
        BY <1>0, <1>2, <1>h, <1>m, <2>1, BuiltProReg, Zenon
<1>3. CASE Ok(m) /\ tx.type = "PROUPSERV"
    <2>1. ProcessTx(m, tx, c.quorum) = ProcessProUpServ(m, tx)
        BY <1>3, Zenon DEF ProcessTx
    <2> QED
        BY <1>0, <1>3, <1>h, <1>m, <2>1, BuiltProUpServ, Zenon
<1>4. CASE Ok(m) /\ tx.type = "PROUPREG"
    <2>1. ProcessTx(m, tx, c.quorum) = ProcessProUpReg(m, tx)
        BY <1>4, Zenon DEF ProcessTx
    <2> QED
        BY <1>0, <1>4, <1>h, <1>m, <2>1, BuiltProUpReg, Zenon
<1>5. CASE Ok(m) /\ tx.type = "PROUPREV"
    <2>1. ProcessTx(m, tx, c.quorum) = ProcessProUpRev(m, tx)
        BY <1>5, Zenon DEF ProcessTx
    <2> QED
        BY <1>0, <1>5, <1>h, <1>m, <2>1, BuiltProUpRev, Zenon
<1>6. CASE Ok(m) /\ tx.type = "LLMQCOMM"
    <2>1. ProcessTx(m, tx, c.quorum) = HandleQuorumCommitment(m, tx, c.quorum)
        BY <1>6, Zenon DEF ProcessTx
    <2> QED
        BY <1>6, <1>h, <1>m, <2>1, BuiltCommitment, Zenon
<1>7. CASE /\ Ok(m)
           /\ tx.type \notin {"PROREG", "PROUPSERV", "PROUPREG", "PROUPREV", "LLMQCOMM"}
    BY <1>7, <1>h, <1>m, Zenon DEF ProcessTx
<1> QED
    BY <1>1, <1>2, <1>3, <1>4, <1>5, <1>6, <1>7, Zenon

\* The loop of BuildNewListFromBlock over the special transactions.
LEMMA BuiltTxs ==
    ASSUME NEW c, IsBlock(c), NEW m, Built(c, DOMAIN c.old.gmMap, {}, {}, m)
    PROVE  Built(c, DOMAIN c.old.gmMap, HitBy(c, DOMAIN c.txs), {},
                 FoldInOrder(LAMBDA x, tx : ProcessTx(x, tx, c.quorum), m, c.txs))
<1> DEFINE S == DOMAIN c.txs
<1>1. PICK n \in Nat : S = 1 .. n
    <2>1. c.txs \in Seq(Range(c.txs))
        BY Zenon DEF IsBlock
    <2> QED
        BY <2>1
<1>2. FoldInOrder(LAMBDA x, tx : ProcessTx(x, tx, c.quorum), m, c.txs) = Tx!Fold(c, m, S)
    BY Zenon DEF FoldInOrder, MapThenFoldSet, Tx!Fold, TxStep
<1>3. IsFiniteSet(S)
    BY <1>1, FS_Interval
<1>4. \A s \in SUBSET S : s # {} => Max(s) \in s
    BY <1>1, MaxChooses, Zenon
<1>5. Tx!Ends(S, Sizes(S)) /\ Tx!LeastNumber
    BY <1>3, <1>4, SizesDecrease, LeastElement, Zenon DEF Tx!Ends, Tx!LeastNumber
<1>6. TxInv(c, {}, m)
    <2>1. HitBy(c, {}) = {}
        BY Zenon DEF HitBy
    <2> QED
        BY <2>1, Zenon DEF TxInv
<1>7. \A s \in SUBSET S : \A x :
        s # {} /\ TxInv(c, s \ {Max(s)}, x) => TxInv(c, s, TxStep(c, Max(s), x))
    BY <1>4, BuiltTx, Zenon
<1> HIDE DEF S
<1>8. TxInv(c, S, Tx!Fold(c, m, S))
    BY <1>5, <1>6, <1>7, Tx!FoldInduct, Zenon
<1> QED
    BY <1>2, <1>8, Zenon DEF TxInv, S
-----------------------------------------------------------------------------
ConfirmStep(c, h, m) == UpdateGM(m, h, [m.gmMap[h].state EXCEPT !.confirmed = TRUE])
ConfirmInv(c, s, m) ==
    Built(c, {}, {}, {}, m) /\ Ok(m) /\ DOMAIN m.gmMap = DOMAIN c.old.gmMap

Confirming == INSTANCE FoldInduction
                WITH Step <- ConfirmStep, Choose <- AnyOf, Inv <- ConfirmInv

\* An update that keeps address, owner and operator key does not fail: the map
\* of unique properties is not looked at.
LEMMA UpdateSucceeds ==
    ASSUME NEW l, Sound(l), Ok(l), NEW h \in DOMAIN l.gmMap, NEW st,
           Addr(st) = Addr(l.gmMap[h].state), Owner(st) = Owner(l.gmMap[h].state),
           Operator(st) = Operator(l.gmMap[h].state)
    PROVE  Ok(UpdateGM(l, h, st))
<1> DEFINE old == l.gmMap[h].state
           l0 == [l EXCEPT !.gmMap = Put(@, h, [@[h] EXCEPT !.state = st])]
<1>1. ~HeldByOther(l, Addr(old), h)
    <2> SUFFICES ASSUME HasUniqueProperty(l, Addr(old))
                 PROVE  l.props[Addr(old)].gm = h
        BY Zenon DEF HeldByOther
    <2>1. PICK k \in DOMAIN l.gmMap : Addr(old) \in PropertiesOf(l.gmMap[k])
        BY Zenon DEF Sound, PropertiesExact, HasUniqueProperty
    <2>2. Addr(old)[2] # Null
        BY <2>1, Zenon DEF PropertiesOf
    <2>3. Addr(old) \in PropertiesOf(l.gmMap[h])
        BY <2>2, Zenon DEF PropertiesOf
    <2>4. l.props[Addr(old)] = [gm |-> h, n |-> 1]
        BY <2>3, Zenon DEF Sound, PropertiesExact
    <2> QED
        BY <2>4
<1>2. UpdateGM(l, h, st) = l0
    BY <1>1, Zenon DEF UpdateGM, UpdateUniqueProperty, HasGM
<1>3. Ok(l0)
    BY Zenon DEF Ok, Sound, IsList
<1> QED
    BY <1>2, <1>3, Zenon

\* The confirmations at the start of BuildNewListFromBlock do not fail.
LEMMA BuiltConfirm ==
    ASSUME NEW c, IsBlock(c), NEW m, Built(c, {}, {}, {}, m), Ok(m),
           DOMAIN m.gmMap = DOMAIN c.old.gmMap
    PROVE  Built(c, {}, {}, {}, Confirm(m, c.old)) /\ Ok(Confirm(m, c.old))
<1> DEFINE S == {h \in DOMAIN c.old.gmMap :
                    /\ ~c.old.gmMap[h].state.confirmed
                    /\ m.height - 1 - c.old.gmMap[h].state.registeredHeight >= MinConf}
<1>1. Confirm(m, c.old) = Confirming!Fold(c, m, S)
    BY Zenon DEF Confirm, Confirming!Fold, FoldSet, MapThenFoldSet, ConfirmStep, AnyOf
<1>2. IsFiniteSet(S)
    BY FS_Subset, Zenon DEF IsBlock, Sound
<1>d. S \subseteq DOMAIN c.old.gmMap
    BY Zenon
<1> HIDE DEF S
<1>3. \A s \in SUBSET S : s # {} => AnyOf(s) \in s
    BY AnyOfChooses, Zenon
<1>e. Confirming!Ends(S, Sizes(S)) /\ Confirming!LeastNumber
    BY <1>2, <1>3, SizesDecrease, LeastElement, Zenon DEF Confirming!Ends, Confirming!LeastNumber
<1>4. ConfirmInv(c, {}, m)
    BY Zenon DEF ConfirmInv
<1>5. ASSUME NEW h \in DOMAIN c.old.gmMap, NEW x, Built(c, {}, {}, {}, x), Ok(x),
             DOMAIN x.gmMap = DOMAIN c.old.gmMap
      PROVE  /\ Built(c, {}, {}, {}, ConfirmStep(c, h, x)) /\ Ok(ConfirmStep(c, h, x))
             /\ DOMAIN ConfirmStep(c, h, x).gmMap = DOMAIN c.old.gmMap
    <2> DEFINE st == x.gmMap[h].state
               new == [st EXCEPT !.confirmed = TRUE]
    <2>1. Sound(x) /\ IsState(st, x.height)
        BY <1>5, Zenon DEF Built, Sound
    <2>2. HasStateFields(new)
        BY <2>1, Zenon DEF HasStateFields, IsState
    <2>3. /\ new.penalty = st.penalty /\ new.banHeight = st.banHeight
          /\ new.registeredHeight = st.registeredHeight
          /\ new.lastPaidHeight = st.lastPaidHeight
          /\ new.revivedHeight = st.revivedHeight
          /\ new.owner = st.owner /\ new.operator = st.operator /\ new.addr = st.addr
        BY <2>1, Zenon DEF HasStateFields, StateFields, IsState
    <2>4. Becomes(x, st, new)
        <3> HIDE DEF st, new
        <3> QED
            BY <2>1, <2>2, <2>3 DEF IsState, Becomes
    <2>5. Ok(UpdateGM(x, h, new))
        <3>1. Addr(new) = Addr(st) /\ Owner(new) = Owner(st) /\ Operator(new) = Operator(st)
            BY <2>3, Zenon DEF Addr, Owner, Operator
        <3> QED
            BY <1>5, <2>1, <3>1, UpdateSucceeds, Zenon
    <2>6. DOMAIN UpdateGM(x, h, new).gmMap = DOMAIN c.old.gmMap
        <3>1. IsState(new, x.height)
            BY <2>4, Zenon DEF Becomes
        <3> QED
            BY <1>5, <2>1, <2>5, <3>1, SoundUpdate
    <2>7. Built(c, {}, {}, {}, UpdateGM(x, h, new))
        BY <1>5, <2>4, BuiltUpdate, Zenon
    <2> QED
        BY <2>5, <2>6, <2>7, Zenon DEF ConfirmStep
<1>6. \A s \in SUBSET S : \A x :
        s # {} /\ ConfirmInv(c, s \ {AnyOf(s)}, x) => ConfirmInv(c, s, ConfirmStep(c, AnyOf(s), x))
    BY <1>3, <1>5, <1>d, Zenon DEF ConfirmInv
<1>7. ConfirmInv(c, S, Confirming!Fold(c, m, S))
    BY <1>4, <1>6, <1>e, Confirming!FoldInduct, Zenon
<1> QED
    BY <1>1, <1>7, Zenon DEF ConfirmInv
-----------------------------------------------------------------------------
\* Penalties go down, from the list c.list on; s are the gamemasters done.
DecreaseStep(c, h, m) == UpdateGM(m, h, [m.gmMap[h].state EXCEPT !.penalty = @ - 1])
DecreaseInv(c, s, m) ==
    /\ Built(c.block, s, {}, {}, m)
    /\ Ok(m) => /\ DOMAIN m.gmMap = DOMAIN c.list.gmMap
                /\ \A h \in DOMAIN m.gmMap \ s : m.gmMap[h] = c.list.gmMap[h]

Decreasing == INSTANCE FoldInduction
                WITH Step <- DecreaseStep, Choose <- AnyOf, Inv <- DecreaseInv

\* PoSeDecrease takes one from one penalty.
LEMMA DecreaseOne ==
    ASSUME NEW c, IsBlock(c.block), NEW s, NEW h \in s, NEW m, DecreaseInv(c, s \ {h}, m),
           h \in DOMAIN c.list.gmMap, c.list.gmMap[h].state.penalty > 0,
           c.list.gmMap[h].state.banHeight = Never
    PROVE  DecreaseInv(c, s, DecreaseStep(c, h, m))
<1> DEFINE b == c.block
           st == m.gmMap[h].state
           new == [st EXCEPT !.penalty = @ - 1]
           u == UpdateGM(m, h, new)
<1>1. u = DecreaseStep(c, h, m)
    BY Zenon DEF DecreaseStep
<1> SUFFICES ASSUME Ok(u)
             PROVE  /\ Sound(u) /\ u.height = b.height /\ Since(b, s, {}, {}, u)
                    /\ DOMAIN u.gmMap = DOMAIN c.list.gmMap
                    /\ \A k \in DOMAIN u.gmMap \ s : u.gmMap[k] = c.list.gmMap[k]
    BY <1>1, Zenon DEF DecreaseInv, Built
<1>2. Ok(m)
    BY Zenon DEF UpdateGM
<1>3. /\ Sound(b.old) /\ Sound(m) /\ m.height = b.height /\ Since(b, s \ {h}, {}, {}, m)
      /\ DOMAIN m.gmMap = DOMAIN c.list.gmMap
      /\ \A k \in DOMAIN m.gmMap \ (s \ {h}) : m.gmMap[k] = c.list.gmMap[k]
    BY <1>2, Zenon DEF DecreaseInv, Built, IsBlock
<1>4. st = c.list.gmMap[h].state /\ IsState(st, m.height) /\ h \in DOMAIN m.gmMap
    BY <1>3, Zenon DEF Sound
<1>5. HasStateFields(new)
    BY <1>4, Zenon DEF HasStateFields, IsState
<1>6. /\ new.penalty = st.penalty - 1 /\ new.banHeight = st.banHeight
      /\ new.registeredHeight = st.registeredHeight
      /\ new.lastPaidHeight = st.lastPaidHeight
      /\ new.revivedHeight = st.revivedHeight
      /\ new.operator = st.operator /\ new.addr = st.addr
    BY <1>4, Zenon DEF HasStateFields, StateFields, IsState
<1>7. st.penalty > 0 /\ st.banHeight = Never
    BY <1>4, Zenon
<1> HIDE DEF st, new
<1>p. st.penalty \in Nat /\ new.penalty \in Nat
    <2>1. st.penalty \in Nat
        BY <1>4, Zenon DEF IsState
    <2> QED
        BY <1>6, <1>7, <2>1
<1>8. IsState(new, m.height)
    BY <1>4, <1>5, <1>6, <1>7, <1>p, Zenon DEF IsState
<1>9. /\ Sound(u) /\ DOMAIN u.gmMap = DOMAIN m.gmMap
      /\ u.gmMap[h].state = new /\ u.height = m.height
      /\ \A k \in DOMAIN m.gmMap \ {h} : u.gmMap[k] = m.gmMap[k]
    <2>1. Sound(m) /\ Ok(UpdateGM(m, h, new))
        BY <1>3, Zenon
    <2> HIDE DEF u
    <2>2. u = UpdateGM(m, h, new)
        BY Zenon DEF u
    <2>3. /\ Sound(UpdateGM(m, h, new)) /\ DOMAIN UpdateGM(m, h, new).gmMap = DOMAIN m.gmMap
          /\ UpdateGM(m, h, new).gmMap[h].state = new /\ UpdateGM(m, h, new).height = m.height
          /\ \A k \in DOMAIN m.gmMap \ {h} : UpdateGM(m, h, new).gmMap[k] = m.gmMap[k]
        BY <1>8, <2>1, SoundUpdate
    <2> QED
        BY <2>2, <2>3, Zenon
<1> HIDE DEF u
<1>a. ASSUME NEW k \in DOMAIN u.gmMap, k \in DOMAIN b.old.gmMap
      PROVE  Follows(b, k, s, {}, {}, b.old.gmMap[k].state, u.gmMap[k].state)
    <2>1. Follows(b, k, s \ {h}, {}, {}, b.old.gmMap[k].state, m.gmMap[k].state)
        BY <1>3, <1>9, <1>a, Zenon DEF Since
    <2>2. CASE k # h
        BY <1>9, <2>1, <2>2, Zenon DEF Follows
    <2>3. CASE k = h
        <3>1. st.penalty \in Nat /\ b.old.gmMap[k].state.penalty \in Nat
            BY <1>3, <1>4, <1>a, Zenon DEF IsState, Sound
        <3>2. u.gmMap[k].state = new /\ m.gmMap[k].state = st
            BY <1>9, <2>3, Zenon DEF st
        <3>3. Follows(b, h, s \ {h}, {}, {}, b.old.gmMap[h].state, st)
            BY <2>1, <2>3, <3>2, Zenon
        <3>4. Follows(b, h, s, {}, {}, b.old.gmMap[h].state, new)
            BY <1>6, <2>3, <3>1, <3>3, FollowsDecreased, Zenon
        <3> QED
            BY <2>3, <3>2, <3>4, Zenon
    <2> QED
        BY <2>2, <2>3, Zenon
<1>b. Since(b, s, {}, {}, u)
    BY <1>3, <1>9, <1>a, Zenon DEF Since
<1> QED
    BY <1>3, <1>9, <1>b, Zenon

\* DecreasePoSePenalties takes at most one from every penalty.
LEMMA BuiltDecrease ==
    ASSUME NEW c, IsBlock(c), NEW m, Ok(m), Built(c, {}, {}, {}, m)
    PROVE  Built(c, DOMAIN c.old.gmMap, {}, {}, DecreasePoSePenalties(m))
<1> DEFINE S == {h \in ValidGMs(m) : m.gmMap[h].state.penalty > 0}
           d == [block |-> c, list |-> m]
           u == Decreasing!Fold(d, m, S)
<1>1. DecreasePoSePenalties(m) = u
    BY Zenon DEF DecreasePoSePenalties, Decreasing!Fold, FoldSet, MapThenFoldSet,
                 DecreaseStep, AnyOf
<1>2. d.block = c /\ d.list = m
    BY Zenon
<1>3. \A h \in S : /\ h \in DOMAIN m.gmMap /\ m.gmMap[h].state.penalty > 0
                   /\ m.gmMap[h].state.banHeight = Never
    BY Zenon DEF ValidGMs, IsPoSeBanned
<1>4. IsFiniteSet(S)
    <2>1. IsFiniteSet(DOMAIN m.gmMap)
        BY Zenon DEF Built, Sound
    <2> QED
        BY <2>1, FS_Subset, Zenon DEF ValidGMs
<1> HIDE DEF S, d
<1>5. \A s \in SUBSET S : s # {} => AnyOf(s) \in s
    BY AnyOfChooses, Zenon
<1>e. Decreasing!Ends(S, Sizes(S)) /\ Decreasing!LeastNumber
    BY <1>4, <1>5, SizesDecrease, LeastElement, Zenon DEF Decreasing!Ends, Decreasing!LeastNumber
<1>6. DecreaseInv(d, {}, m)
    BY <1>2, Zenon DEF DecreaseInv
<1>7. \A s \in SUBSET S : \A x :
        s # {} /\ DecreaseInv(d, s \ {AnyOf(s)}, x) =>
            DecreaseInv(d, s, DecreaseStep(d, AnyOf(s), x))
    BY <1>2, <1>3, <1>5, DecreaseOne, Zenon
<1>8. DecreaseInv(d, S, u)
    BY <1>6, <1>7, <1>e, Decreasing!FoldInduct, Zenon
<1>9. Built(c, S, {}, {}, u)
    BY <1>2, <1>8, Zenon DEF DecreaseInv
<1> HIDE DEF u
<1>a. ASSUME Ok(u) PROVE Since(c, DOMAIN c.old.gmMap, {}, {}, u)
    <2> SUFFICES ASSUME NEW k \in DOMAIN u.gmMap, k \in DOMAIN c.old.gmMap
                 PROVE  Follows(c, k, DOMAIN c.old.gmMap, {}, {}, c.old.gmMap[k].state,
                                u.gmMap[k].state)
        BY <1>9, <1>a, Zenon DEF Since, Built
    <2>1. Follows(c, k, S, {}, {}, c.old.gmMap[k].state, u.gmMap[k].state)
        BY <1>9, <1>a, Zenon DEF Since, Built
    <2>2. c.old.gmMap[k].state.penalty \in Nat /\ u.gmMap[k].state.penalty \in Nat
        BY <1>9, <1>a, Zenon DEF Built, Sound, IsState, IsBlock
    <2> QED
        BY <2>1, <2>2, FollowsMore, Zenon
<1> QED
    BY <1>1, <1>9, <1>a, Zenon DEF Built
-----------------------------------------------------------------------------
\* The collateral c is spent: its gamemaster goes.
SpendStep(d, c, m) ==
    IF Ok(m) /\ HasUniqueProperty(m, <<"collateral", c>>)
    THEN RemoveGM(m, m.props[<<"collateral", c>>].gm) ELSE m
SpendInv(d, s, m) == Built(d.block, DOMAIN d.block.old.gmMap, d.hit, {}, m)

Spending == INSTANCE FoldInduction
                WITH Step <- SpendStep, Choose <- AnyOf, Inv <- SpendInv

\* A finite set has a finite image.
LEMMA FiniteImage ==
    ASSUME NEW S, IsFiniteSet(S), NEW f
    PROVE  IsFiniteSet({f[x] : x \in S})
<1> DEFINE g == [x \in S |-> f[x]]
           T == {f[x] : x \in S}
<1>1. g \in [S -> T]
    BY Zenon
<1>2. \A y \in T : \E x \in S : g[x] = y
    BY Zenon
<1>3. g \in Surjection(S, T)
    BY <1>1, <1>2, Zenon DEF Surjection
<1> QED
    BY <1>3, FS_Surjection, Zenon

\* The transactions of a block spend finitely many collaterals.
LEMMA FiniteSpends ==
    ASSUME NEW b, IsBlock(b)
    PROVE  IsFiniteSet(UNION {tx.spends : tx \in Range(b.txs)})
<1>1. b.txs \in Seq(Range(b.txs)) /\ \A tx \in Range(b.txs) : IsFiniteSet(tx.spends)
    BY Zenon DEF IsBlock
<1>2. IsFiniteSet(DOMAIN b.txs)
    <2>1. PICK n \in Nat : DOMAIN b.txs = 1 .. n
        BY <1>1
    <2> QED
        BY <2>1, FS_Interval
<1>3. IsFiniteSet({b.txs[i].spends : i \in DOMAIN b.txs})
    <2> DEFINE f == [i \in DOMAIN b.txs |-> b.txs[i].spends]
    <2>1. IsFiniteSet({f[i] : i \in DOMAIN b.txs})
        BY <1>2, FiniteImage, Zenon
    <2>2. {f[i] : i \in DOMAIN b.txs} = {b.txs[i].spends : i \in DOMAIN b.txs}
        BY Zenon
    <2> QED
        BY <2>1, <2>2, Zenon
<1>4. {tx.spends : tx \in Range(b.txs)} = {b.txs[i].spends : i \in DOMAIN b.txs}
    BY Zenon DEF Range
<1>5. \A T \in {b.txs[i].spends : i \in DOMAIN b.txs} : IsFiniteSet(T)
    BY <1>1, Zenon DEF Range
<1> QED
    BY <1>3, <1>4, <1>5, FS_UNION, Zenon

\* The loop of BuildNewListFromBlock over the inputs: a gamemaster goes with its
\* collateral.
LEMMA BuiltSpent ==
    ASSUME NEW b, IsBlock(b), NEW hit, NEW m, Built(b, DOMAIN b.old.gmMap, hit, {}, m)
    PROVE  Built(b, DOMAIN b.old.gmMap, hit, {}, RemoveSpent(m, b.txs))
<1> DEFINE S == UNION {tx.spends : tx \in Range(b.txs)}
           d == [block |-> b, hit |-> hit]
<1>1. RemoveSpent(m, b.txs) = Spending!Fold(d, m, S)
    BY Zenon DEF RemoveSpent, Spending!Fold, FoldSet, MapThenFoldSet, SpendStep, AnyOf
<1>2. IsFiniteSet(S)
    BY FiniteSpends, Zenon
<1>d. d.block = b /\ d.hit = hit
    BY Zenon
<1> HIDE DEF S, d
<1>3. \A s \in SUBSET S : s # {} => AnyOf(s) \in s
    BY AnyOfChooses, Zenon
<1>4. Spending!Ends(S, Sizes(S)) /\ Spending!LeastNumber
    BY <1>2, <1>3, SizesDecrease, LeastElement, Zenon DEF Spending!Ends, Spending!LeastNumber
<1>5. SpendInv(d, {}, m)
    BY <1>d, Zenon DEF SpendInv
<1>6. \A s \in SUBSET S : \A x :
        s # {} /\ SpendInv(d, s \ {AnyOf(s)}, x) => SpendInv(d, s, SpendStep(d, AnyOf(s), x))
    BY BuiltRemove, Zenon DEF SpendInv, SpendStep
<1>7. SpendInv(d, S, Spending!Fold(d, m, S))
    BY <1>4, <1>5, <1>6, Spending!FoldInduct, Zenon
<1> QED
    BY <1>1, <1>7, <1>d, Zenon DEF SpendInv
-----------------------------------------------------------------------------
\* Of the payees of the old list, the ones of s are marked.
PayStep(c, h, m) == UpdateGM(m, h, [m.gmMap[h].state EXCEPT !.lastPaidHeight = m.height])
PayInv(c, s, m) ==
    /\ Built(c.block, DOMAIN c.block.old.gmMap, c.hit, s, m)
    /\ Ok(m) => DOMAIN m.gmMap = DOMAIN c.list.gmMap

Paying == INSTANCE FoldInduction WITH Step <- PayStep, Choose <- AnyOf, Inv <- PayInv

\* Marking the payee sets its last payment to the height of the block.
LEMMA PayOne ==
    ASSUME NEW c, IsBlock(c.block), NEW s, NEW h \in s, NEW m, PayInv(c, s \ {h}, m)
    PROVE  PayInv(c, s, PayStep(c, h, m))
<1> DEFINE b == c.block
           aged == DOMAIN b.old.gmMap
           st == m.gmMap[h].state
           new == [st EXCEPT !.lastPaidHeight = m.height]
           u == UpdateGM(m, h, new)
<1>1. u = PayStep(c, h, m)
    BY Zenon DEF PayStep
<1> SUFFICES ASSUME Ok(u)
             PROVE  /\ Sound(u) /\ u.height = b.height /\ Since(b, aged, c.hit, s, u)
                    /\ DOMAIN u.gmMap = DOMAIN c.list.gmMap
    BY <1>1, Zenon DEF PayInv, Built
<1>2. Ok(m)
    BY Zenon DEF UpdateGM
<1>3. /\ Sound(b.old) /\ Sound(m) /\ m.height = b.height /\ Since(b, aged, c.hit, s \ {h}, m)
      /\ DOMAIN m.gmMap = DOMAIN c.list.gmMap /\ b.height \in Nat
    BY <1>2, Zenon DEF PayInv, Built, IsBlock
<1>4. h \in DOMAIN m.gmMap
    BY <1>3, UpdateGMMap, Zenon DEF Sound
<1>5. IsState(st, m.height)
    BY <1>3, <1>4, Zenon DEF Sound
<1>6. HasStateFields(new)
    BY <1>5, Zenon DEF HasStateFields, IsState
<1>7. /\ new.penalty = st.penalty /\ new.banHeight = st.banHeight
      /\ new.registeredHeight = st.registeredHeight
      /\ new.lastPaidHeight = m.height
      /\ new.revivedHeight = st.revivedHeight
      /\ new.operator = st.operator /\ new.addr = st.addr
    BY <1>5, Zenon DEF HasStateFields, StateFields, IsState
<1> HIDE DEF st, new
<1>8. IsState(new, m.height)
    BY <1>3, <1>5, <1>6, <1>7 DEF IsState
<1>9. /\ Sound(u) /\ DOMAIN u.gmMap = DOMAIN m.gmMap
      /\ u.gmMap[h].state = new /\ u.height = m.height
      /\ \A k \in DOMAIN m.gmMap \ {h} : u.gmMap[k] = m.gmMap[k]
    BY <1>3, <1>8, SoundUpdate
<1> HIDE DEF u
<1>a. ASSUME NEW k \in DOMAIN u.gmMap, k \in DOMAIN b.old.gmMap
      PROVE  Follows(b, k, aged, c.hit, s, b.old.gmMap[k].state, u.gmMap[k].state)
    <2>1. Follows(b, k, aged, c.hit, s \ {h}, b.old.gmMap[k].state, m.gmMap[k].state)
        BY <1>3, <1>9, <1>a, Zenon DEF Since
    <2>2. CASE k # h
        BY <1>9, <2>1, <2>2, Zenon DEF Follows
    <2>3. CASE k = h
        <3>1. u.gmMap[k].state = new /\ m.gmMap[k].state = st
            BY <1>9, <2>3, Zenon DEF st
        <3> QED
            BY <1>3, <1>7, <2>1, <2>3, <3>1, Zenon DEF Follows
    <2> QED
        BY <2>2, <2>3, Zenon
<1>b. Since(b, aged, c.hit, s, u)
    BY <1>3, <1>9, <1>a, Zenon DEF Since
<1> QED
    BY <1>3, <1>9, <1>b, Zenon

\* The payee of the old list, if it is still there, is marked as paid.
LEMMA BuiltPaid ==
    ASSUME NEW c, IsBlock(c), NEW hit, NEW m, Built(c, DOMAIN c.old.gmMap, hit, {}, m)
    PROVE  Built(c, DOMAIN c.old.gmMap, hit, GetGMPayee(c.old), MarkPaid(m, c.old))
<1> DEFINE S == IF Ok(m) THEN GetGMPayee(c.old) \cap DOMAIN m.gmMap ELSE {}
           d == [block |-> c, hit |-> hit, list |-> m]
           u == Paying!Fold(d, m, S)
<1>1. MarkPaid(m, c.old) = u
    BY Zenon DEF MarkPaid, Paying!Fold, FoldSet, MapThenFoldSet, PayStep, AnyOf
<1>2. d.block = c /\ d.hit = hit /\ d.list = m
    BY Zenon
<1>3. IsFiniteSet(S)
    <2>1. IsFiniteSet(DOMAIN c.old.gmMap)
        BY Zenon DEF IsBlock, Sound
    <2>2. S \subseteq DOMAIN c.old.gmMap
        BY Zenon DEF GetGMPayee, ValidGMs
    <2> QED
        BY <2>1, <2>2, FS_Subset, Zenon
<1>4. Ok(m) => GetGMPayee(c.old) \cap DOMAIN m.gmMap \subseteq S
    BY Zenon
<1> HIDE DEF S, d
<1>5. \A s \in SUBSET S : s # {} => AnyOf(s) \in s
    BY AnyOfChooses, Zenon
<1>6. Paying!Ends(S, Sizes(S)) /\ Paying!LeastNumber
    BY <1>3, <1>5, SizesDecrease, LeastElement, Zenon DEF Paying!Ends, Paying!LeastNumber
<1>7. PayInv(d, {}, m)
    BY <1>2, Zenon DEF PayInv
<1>8. \A s \in SUBSET S : \A x :
        s # {} /\ PayInv(d, s \ {AnyOf(s)}, x) => PayInv(d, s, PayStep(d, AnyOf(s), x))
    BY <1>2, <1>5, PayOne, Zenon
<1>9. PayInv(d, S, u)
    BY <1>6, <1>7, <1>8, Paying!FoldInduct, Zenon
<1>a. Built(c, DOMAIN c.old.gmMap, hit, S, u) /\ (Ok(u) => DOMAIN u.gmMap = DOMAIN m.gmMap)
    BY <1>2, <1>9, Zenon DEF PayInv
<1>b. Ok(u) => Ok(m)
    <2>1. CASE Ok(m)
        BY <2>1, Zenon
    <2>2. CASE ~Ok(m)
        BY <1>1, <2>2, Zenon DEF MarkPaid, FoldSet, MapThenFoldSet
    <2> QED
        BY <2>1, <2>2, Zenon
<1> HIDE DEF u
<1>c. ASSUME Ok(u) PROVE Since(c, DOMAIN c.old.gmMap, hit, GetGMPayee(c.old), u)
    <2>1. Since(c, DOMAIN c.old.gmMap, hit, S, u) /\ DOMAIN u.gmMap = DOMAIN m.gmMap
        BY <1>a, <1>c, Zenon DEF Built
    <2>2. \A k \in DOMAIN u.gmMap : k \in S <=> k \in GetGMPayee(c.old)
        BY <1>4, <1>b, <1>c, <2>1, Zenon DEF S
    <2> QED
        BY <2>1, <2>2, Zenon DEF Since, Follows
<1> QED
    BY <1>1, <1>a, <1>c, Zenon DEF Built
-----------------------------------------------------------------------------
\* No height in the state of a gamemaster is too high for a higher list.
LEMMA StateLater ==
    ASSUME NEW st, NEW low \in Int, NEW high \in Int, low < high, IsState(st, low)
    PROVE  IsState(st, high)
BY DEF IsState, Never

\* BuildNewListFromBlock starts from the old list, at the new height.
LEMMA BuiltStart ==
    ASSUME NEW c, IsBlock(c)
    PROVE  LET start == [c.old EXCEPT !.height = c.height]
           IN  /\ Built(c, {}, {}, {}, start) /\ (Ok(start) <=> Ok(c.old))
               /\ DOMAIN start.gmMap = DOMAIN c.old.gmMap
<1> DEFINE old == c.old
           start == [old EXCEPT !.height = c.height]
<1>1. Sound(old) /\ c.height \in Nat /\ old.height \in Int /\ old.height < c.height
    BY Zenon DEF IsBlock, Sound
<1>2. /\ IsList(start) /\ start.height = c.height /\ start.gmMap = old.gmMap
      /\ start.props = old.props /\ start.err = old.err
    BY <1>1 DEF Sound, IsList
<1> HIDE DEF start
<1>3. PropertiesExact(start)
    BY <1>1, <1>2, Zenon DEF Sound, PropertiesExact, HasUniqueProperty
<1>4. ASSUME NEW h \in DOMAIN old.gmMap
      PROVE  /\ IsState(old.gmMap[h].state, c.height)
             /\ Follows(c, h, {}, {}, {}, old.gmMap[h].state, old.gmMap[h].state)
    <2>1. IsState(old.gmMap[h].state, old.height)
        BY <1>1, Zenon DEF Sound
    <2>2. IsState(old.gmMap[h].state, c.height)
        BY <1>1, <2>1, StateLater
    <2>3. old.gmMap[h].state.penalty \in Nat
        BY <2>1, Zenon DEF IsState
    <2> QED
        BY <2>2, <2>3, FollowsItself, Zenon
<1>5. Sound(start)
    <2>1. \A h \in DOMAIN old.gmMap : IsState(old.gmMap[h].state, start.height)
        BY <1>2, <1>4, Zenon
    <2> QED
        BY <1>1, <1>2, <1>3, <2>1 DEF Sound
<1>6. Since(c, {}, {}, {}, start)
    BY <1>2, <1>4, Zenon DEF Since, Follows
<1>7. Built(c, {}, {}, {}, start)
    BY <1>1, <1>2, <1>5, <1>6, Zenon DEF Built
<1> QED
    BY <1>2, <1>7, Zenon DEF Ok, start

\* What BuildNewListFromBlock makes of a sound list is sound, and every gamemaster
\* it keeps is as the old list had it but for the penalty of one block, the
\* punishments of its commitments, its payment and its own updates.
LEMMA BlockBuilds ==
    ASSUME NEW c, IsBlock(c), Ok(c.old)
    PROVE  Built(c, DOMAIN c.old.gmMap, HitBy(c, DOMAIN c.txs), GetGMPayee(c.old),
                 BuildNewListFromBlock(c.old, c.height, c.txs, c.quorum))
<1> DEFINE start == [c.old EXCEPT !.height = c.height]
           confirmed == Confirm(start, c.old)
           aged == DecreasePoSePenalties(confirmed)
           processed == FoldInOrder(LAMBDA m, tx : ProcessTx(m, tx, c.quorum), aged, c.txs)
           kept == RemoveSpent(processed, c.txs)
<1>1. Built(c, {}, {}, {}, start) /\ Ok(start) /\ DOMAIN start.gmMap = DOMAIN c.old.gmMap
    BY BuiltStart, Zenon
<1> HIDE DEF start
<1>2. Built(c, {}, {}, {}, confirmed) /\ Ok(confirmed)
    BY <1>1, BuiltConfirm, Zenon
<1> HIDE DEF confirmed
<1>3. Built(c, DOMAIN c.old.gmMap, {}, {}, aged)
    BY <1>2, BuiltDecrease, Zenon
<1> HIDE DEF aged
<1>4. Built(c, DOMAIN c.old.gmMap, HitBy(c, DOMAIN c.txs), {}, processed)
    BY <1>3, BuiltTxs, Zenon
<1> HIDE DEF processed
<1>5. Built(c, DOMAIN c.old.gmMap, HitBy(c, DOMAIN c.txs), {}, kept)
    BY <1>4, BuiltSpent, Zenon
<1> HIDE DEF kept
<1>6. Built(c, DOMAIN c.old.gmMap, HitBy(c, DOMAIN c.txs), GetGMPayee(c.old), MarkPaid(kept, c.old))
    BY <1>5, BuiltPaid, Zenon
<1>7. BuildNewListFromBlock(c.old, c.height, c.txs, c.quorum) = MarkPaid(kept, c.old)
    BY Zenon DEF BuildNewListFromBlock, kept, processed, aged, confirmed, start
<1> QED
    BY <1>6, <1>7, Zenon
=============================================================================
