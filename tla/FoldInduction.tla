--------------------------- MODULE FoldInduction ---------------------------
(***************************************************************************)
(* What a fold over a finite set computes, by induction: the folds of the  *)
(* community modules, with Choose(s) the element of s that is taken last   *)
(* and Step(c, x, m) what becomes of the accumulator m at element x, in a  *)
(* context c.  The module is instantiated once for each loop of the code.  *)
(***************************************************************************)
EXTENDS Integers, TLAPS

CONSTANTS Step(_, _, _), Choose(_), Inv(_, _, _)

\* What MapThenFoldSet, and with it FoldSet and FoldInOrder, unfold to.
Fold(c, base, S) ==
    LET iter[s \in SUBSET S] ==
            IF s = {} THEN base ELSE LET x == Choose(s) IN Step(c, x, iter[s \ {x}])
    IN  iter[S]

\* f is the fold of the sets of D.
IsFoldOn(f, c, base, D) ==
    f = [s \in D |-> IF s = {} THEN base ELSE Step(c, Choose(s), f[s \ {Choose(s)}])]

\* The fold ends: size goes down with every element that is taken out of s.
Ends(S, size) ==
    /\ \A s \in SUBSET S : size[s] \in Nat /\ size[s] <= size[S]
    /\ \A s \in SUBSET S : s # {} => Choose(s) \in s /\ size[s \ {Choose(s)}] < size[s]

LeastNumber ==
    \A T \in SUBSET Nat : T # {} => \E n \in T : \A k \in T : n <= k

Small(S, size, n) == {s \in SUBSET S : size[s] < n}

\* What a loop computes is known for the sets of fewer than n + 1 elements to go
\* through if it is for those of fewer than n: one more turn of the loop body.
LEMMA FoldExtends ==
    ASSUME NEW S, NEW size, Ends(S, size), NEW c, NEW base, NEW n \in Nat,
           NEW f, IsFoldOn(f, c, base, Small(S, size, n))
    PROVE  \E g : IsFoldOn(g, c, base, Small(S, size, n + 1))
<1> DEFINE g == [s \in Small(S, size, n + 1) |->
                    IF s = {} THEN base ELSE Step(c, Choose(s), f[s \ {Choose(s)}])]
<1>1. \A s \in Small(S, size, n + 1) : s # {} => s \ {Choose(s)} \in Small(S, size, n)
    <2> SUFFICES ASSUME NEW s \in Small(S, size, n + 1), s # {}
                 PROVE  s \ {Choose(s)} \in Small(S, size, n)
        OBVIOUS
    <2>1. s \in SUBSET S /\ size[s] < n + 1 /\ size[s] \in Nat
        BY DEF Small, Ends
    <2>2. s \ {Choose(s)} \in SUBSET S
        BY <2>1
    <2>3. size[s \ {Choose(s)}] < size[s] /\ size[s \ {Choose(s)}] \in Nat
        BY <2>1, <2>2, Zenon DEF Ends
    <2> QED
        BY <2>1, <2>2, <2>3 DEF Small
<1>2. \A s \in Small(S, size, n) : s \in Small(S, size, n + 1)
    <2> SUFFICES ASSUME NEW s \in Small(S, size, n)
                 PROVE  size[s] < n + 1
        BY DEF Small
    <2>1. size[s] < n /\ size[s] \in Nat
        BY DEF Small, Ends
    <2> QED
        BY <2>1
<1>3. \A s \in Small(S, size, n) : g[s] = f[s]
    BY <1>2, Zenon DEF IsFoldOn
<1>4. \A s \in Small(S, size, n + 1) : s # {} => g[s \ {Choose(s)}] = f[s \ {Choose(s)}]
    BY <1>1, <1>3, Zenon
<1>5. IsFoldOn(g, c, base, Small(S, size, n + 1))
    BY <1>4, Zenon DEF IsFoldOn
<1> QED
    BY <1>5

\* The recursive function a fold is made of exists: the loop comes to an end for
\* every set it may start with.
LEMMA FoldExists ==
    ASSUME NEW S, NEW size, Ends(S, size), LeastNumber, NEW c, NEW base
    PROVE  \E f : IsFoldOn(f, c, base, SUBSET S)
<1> DEFINE T == {n \in Nat : ~\E f : IsFoldOn(f, c, base, Small(S, size, n))}
<1>1. ASSUME T # {} PROVE FALSE
    <2>1. PICK n \in T : \A k \in T : n <= k
        BY <1>1, Zenon DEF LeastNumber
    <2>2. n \in Nat /\ ~\E f : IsFoldOn(f, c, base, Small(S, size, n))
        OBVIOUS
    <2>3. Small(S, size, 0) = {}
        BY DEF Small, Ends
    <2>4. n # 0
        <3> SUFFICES \E f : IsFoldOn(f, c, base, {})
            BY <2>2, <2>3
        <3> WITNESS [s \in {} |-> base]
        <3> QED
            BY DEF IsFoldOn
    <2>5. n - 1 \in Nat /\ n - 1 \notin T
        BY <2>1, <2>2, <2>4
    <2>6. PICK f : IsFoldOn(f, c, base, Small(S, size, n - 1))
        BY <2>5
    <2>7. \E g : IsFoldOn(g, c, base, Small(S, size, (n - 1) + 1))
        BY <2>5, <2>6, FoldExtends
    <2> QED
        BY <2>2, <2>7
<1>2. size[S] + 1 \in Nat /\ Small(S, size, size[S] + 1) = SUBSET S
    BY DEF Small, Ends
<1>3. size[S] + 1 \notin T
    BY <1>1
<1>4. \E f : IsFoldOn(f, c, base, Small(S, size, size[S] + 1))
    BY <1>2, <1>3
<1> QED
    BY <1>2, <1>4

\* The fold is what its last turn makes of the fold of the other elements, so the
\* loop has the value its body says.
LEMMA FoldUnfolds ==
    ASSUME NEW S, NEW size, Ends(S, size), LeastNumber, NEW c, NEW base
    PROVE  \E f : IsFoldOn(f, c, base, SUBSET S) /\ Fold(c, base, S) = f[S]
<1> DEFINE iter == CHOOSE f : f = [s \in SUBSET S |->
                        IF s = {} THEN base ELSE Step(c, Choose(s), f[s \ {Choose(s)}])]
<1>1. \E f : f = [s \in SUBSET S |->
                        IF s = {} THEN base ELSE Step(c, Choose(s), f[s \ {Choose(s)}])]
    <2>1. PICK f : IsFoldOn(f, c, base, SUBSET S)
        BY FoldExists, Zenon
    <2> QED
        BY <2>1, Zenon DEF IsFoldOn
<1>2. iter = [s \in SUBSET S |->
                        IF s = {} THEN base ELSE Step(c, Choose(s), iter[s \ {Choose(s)}])]
    BY <1>1, Zenon
<1>3. Fold(c, base, S) = iter[S]
    BY DEF Fold
<1>4. IsFoldOn(iter, c, base, SUBSET S)
    BY <1>2, Zenon DEF IsFoldOn
<1> QED
    BY <1>3, <1>4, Zenon

\* A loop invariant holds at the end of the loop: Inv holds of the accumulator and
\* the elements that were gone through if it does before the loop and every turn
\* keeps it.  This is the rule for the range-for loops of the list builder and of
\* the list cache.
THEOREM FoldInduct ==
    ASSUME NEW S, NEW size, Ends(S, size), LeastNumber, NEW c, NEW base,
           Inv(c, {}, base),
           \A s \in SUBSET S : \A m :
                s # {} /\ Inv(c, s \ {Choose(s)}, m) => Inv(c, s, Step(c, Choose(s), m))
    PROVE  Inv(c, S, Fold(c, base, S))
<1>1. PICK f : IsFoldOn(f, c, base, SUBSET S) /\ Fold(c, base, S) = f[S]
    BY FoldUnfolds, Zenon
<1>2. \A s \in SUBSET S :
        f[s] = IF s = {} THEN base ELSE Step(c, Choose(s), f[s \ {Choose(s)}])
    BY <1>1, Zenon DEF IsFoldOn
<1> DEFINE Bad == {s \in SUBSET S : ~Inv(c, s, f[s])}
           T == {n \in Nat : \E s \in Bad : size[s] = n}
<1>3. ASSUME Bad # {} PROVE FALSE
    <2>1. \A s \in Bad : size[s] \in Nat
        BY DEF Ends
    <2>2. T # {} /\ T \in SUBSET Nat
        BY <1>3, <2>1
    <2>3. PICK n \in T : \A k \in T : n <= k
        BY <2>2, Zenon DEF LeastNumber
    <2>4. PICK s \in Bad : size[s] = n
        BY <2>3
    <2>5. s \in SUBSET S /\ ~Inv(c, s, f[s])
        BY <2>4
    <2>6. s # {}
        BY <1>2, <2>5, Zenon
    <2>7. /\ s \ {Choose(s)} \in SUBSET S
          /\ size[s \ {Choose(s)}] \in Nat /\ size[s \ {Choose(s)}] < n /\ n \in Nat
        BY <2>4, <2>5, <2>6 DEF Ends
    <2>8. s \ {Choose(s)} \in Bad
        <3> SUFFICES ASSUME Inv(c, s \ {Choose(s)}, f[s \ {Choose(s)}])
                     PROVE  FALSE
            BY <2>7
        <3>1. Inv(c, s, Step(c, Choose(s), f[s \ {Choose(s)}]))
            BY <2>5, <2>6
        <3> QED
            BY <1>2, <2>5, <2>6, <3>1, SMTT(20)
    <2>9. size[s \ {Choose(s)}] \in T
        BY <2>7, <2>8, Zenon
    <2> HIDE DEF T
    <2>a. n <= size[s \ {Choose(s)}]
        BY <2>3, <2>9
    <2> QED
        BY <2>7, <2>a
<1>4. S \in SUBSET S /\ S \notin Bad
    BY <1>3
<1>5. Inv(c, S, f[S])
    BY <1>4
<1> QED
    BY <1>1, <1>5
=============================================================================
