----------------------------- MODULE FoldProofs -----------------------------
(***************************************************************************)
(* Induction over a fold: what holds of the base and is kept by the step   *)
(* holds of what FoldLeft returns, and of what a recursion over the        *)
(* elements of a sequence does.  A module that wants it for a step of its  *)
(* own instantiates this one with the step and with what it keeps; a       *)
(* parameter of the two, that the steps leave alone, is ctx.               *)
(***************************************************************************)
EXTENDS Integers, Sequences, SequencesExt, WellFoundedInduction, TLAPS

CONSTANTS
    Op(_, _, _),   \* the step: ctx, what has been folded, an element
    Keeps(_, _, _) \* what holds all along: ctx, how many elements, what they make

LEMMA Least ==
  ASSUME NEW T \in SUBSET Nat, T # {}
  PROVE  \E m \in T : \A k \in T : m <= k
<1>1. PICK m \in T : \A k \in T : ~ (<<k, m>> \in OpToRel(<, Nat))
  BY WFMin, NatLessThanWellFounded
<1>2. \A k \in T : ~(k < m)
  BY <1>1 DEF OpToRel
<1>  QED BY <1>2

LEMMA Greatest ==
  ASSUME NEW n \in Nat, NEW S \in SUBSET (1..n), S # {}
  PROVE  \E m \in S : \A x \in S : x <= m
<1> DEFINE T == {k \in Nat : \A x \in S : x <= k}
<1>1. n \in T
  OBVIOUS
<1>2. PICK m \in T : \A k \in T : m <= k
  <2>1. T \subseteq Nat
    BY DEF T
  <2> HIDE DEF T
  <2>  QED BY <1>1, <2>1, Least
<1>3. m \in S
  <2> SUFFICES ASSUME m \notin S PROVE FALSE
    OBVIOUS
  <2>1. PICK x \in S : TRUE
    OBVIOUS
  <2>2. m - 1 \in Nat /\ \A y \in S : y <= m - 1
    BY <2>1
  <2>  QED BY <1>2, <2>2
<1>  QED BY <1>3

LEMMA MaxIsGreatest ==
  ASSUME NEW n \in Nat, NEW S \in SUBSET (1..n), S # {}
  PROVE  Max(S) \in S /\ \A x \in S : x <= Max(S)
<1>1. PICK m \in S : \A x \in S : x <= m
  BY Greatest
<1>2. \E y \in S : \A x \in S : y >= x
  BY <1>1
<1>  QED BY <1>2 DEF Max

Iterates(iter, ctx, base, seq, S) ==
  iter = [s \in SUBSET S |-> IF s = {} THEN base
                             ELSE LET x == Max(s) IN Op(ctx, iter[s \ {x}], seq[x])]

LEMMA IterExists ==
  ASSUME NEW ctx, NEW base, NEW seq
  PROVE  \A n \in Nat : \E iter : Iterates(iter, ctx, base, seq, 1..n)
<1> DEFINE T == {n \in Nat : ~ \E iter : Iterates(iter, ctx, base, seq, 1..n)}
<1> SUFFICES ASSUME T # {} PROVE FALSE
  OBVIOUS
<1>1. PICK n \in T : \A k \in T : n <= k
  <2>1. T \subseteq Nat OBVIOUS
  <2> HIDE DEF T
  <2> QED BY <2>1, Least
<1>2. n # 0
  <2> SUFFICES ASSUME n = 0 PROVE FALSE OBVIOUS
  <2> DEFINE f == [s \in SUBSET (1..0) |-> base]
  <2>1. \A s \in SUBSET (1..0) : s = {}
    OBVIOUS
  <2>2. f = [s \in SUBSET (1..0) |-> IF s = {} THEN base
                             ELSE LET x == Max(s) IN Op(ctx, f[s \ {x}], seq[x])]
    BY <2>1
  <2>3. Iterates(f, ctx, base, seq, 1..0)
    BY <2>2 DEF Iterates
  <2>  QED BY <2>3
<1>3. n - 1 \in Nat /\ n - 1 \notin T
  BY <1>1, <1>2
<1>4. PICK g : Iterates(g, ctx, base, seq, 1..(n - 1))
  BY <1>3
<1> DEFINE Body(h, s) == IF s = {} THEN base ELSE LET x == Max(s) IN Op(ctx, h[s \ {x}], seq[x])
           f == [s \in SUBSET (1..n) |-> Body(g, s)]
<1>5. \A s \in SUBSET (1..(n - 1)) : g[s] = Body(g, s)
  <2>1. g = [s \in SUBSET (1..(n - 1)) |-> Body(g, s)]
    BY <1>4 DEF Iterates
  <2> HIDE DEF Body
  <2>  QED BY <2>1
<1>6. \A s \in SUBSET (1..n) : s # {} => s \ {Max(s)} \in SUBSET (1..(n - 1))
  <2> SUFFICES ASSUME NEW s \in SUBSET (1..n), s # {}, NEW x \in s \ {Max(s)}
               PROVE  x \in 1..(n - 1)
    OBVIOUS
  <2>1. n \in Nat
    OBVIOUS
  <2>2. Max(s) \in s /\ \A y \in s : y <= Max(s)
    BY <2>1, MaxIsGreatest
  <2>3. Max(s) \in 1..n /\ x \in 1..n /\ x <= Max(s) /\ x # Max(s)
    BY <2>2
  <2> HIDE DEF T, Body, f
  <2>  QED BY <2>1, <2>3
<1>7. \A s \in SUBSET (1..(n - 1)) : f[s] = g[s]
  <2>1. SUBSET (1..(n - 1)) \subseteq SUBSET (1..n)
    BY <1>3
  <2> HIDE DEF Body
  <2>  QED BY <1>5, <2>1
<1>8. \A s \in SUBSET (1..n) : s # {} => f[s \ {Max(s)}] = g[s \ {Max(s)}]
  BY <1>6, <1>7
<1>9. \A s \in SUBSET (1..n) : f[s] = Body(f, s)
  BY <1>8
<1>10. f = [s \in SUBSET (1..n) |-> Body(f, s)]
  BY <1>9
<1>11. Iterates(f, ctx, base, seq, 1..n)
  BY <1>10 DEF Iterates
<1>  QED BY <1>11

LEMMA IterStep ==
  ASSUME NEW ctx, NEW base, NEW seq, NEW n \in Nat, NEW f, Iterates(f, ctx, base, seq, 1..n)
  PROVE  \A i \in 1..n : f[1..i] = Op(ctx, f[1..(i - 1)], seq[i])
<1> TAKE i \in 1..n
<1>1. 1..i # {} /\ 1..i \in SUBSET (1..n)
  OBVIOUS
<1>2. Max(1..i) = i
  <2>1. i \in Nat /\ i \in 1..i
    OBVIOUS
  <2>2. Max(1..i) \in 1..i /\ \A x \in 1..i : x <= Max(1..i)
    BY <1>1, <2>1, MaxIsGreatest
  <2>  QED BY <2>1, <2>2
<1>3. (1..i) \ {i} = 1..(i - 1)
  OBVIOUS
<1>4. f[1..i] = Op(ctx, f[(1..i) \ {Max(1..i)}], seq[Max(1..i)])
  BY <1>1 DEF Iterates
<1>  QED BY <1>2, <1>3, <1>4

\* FoldLeft(LAMBDA a, x : Op(ctx, a, x), base, seq), with its definitions expanded.
Fold(ctx, base, seq) ==
  LET iter == CHOOSE iter : Iterates(iter, ctx, base, seq, DOMAIN seq)
  IN  iter[DOMAIN seq]

\* What the base has and the step keeps, each value of a sequence of steps has.
LEMMA StepsKeep ==
  ASSUME NEW ctx, NEW base, NEW seq, NEW n \in Nat, NEW g,
         g[0] = base, \A i \in 1..n : g[i] = Op(ctx, g[i - 1], seq[i]),
         Keeps(ctx, 0, base),
         ASSUME NEW a, NEW i \in 1..n, Keeps(ctx, i - 1, a)
         PROVE  Keeps(ctx, i, Op(ctx, a, seq[i]))
  PROVE  Keeps(ctx, n, g[n])
<1> DEFINE T == {i \in 0..n : ~Keeps(ctx, i, g[i])}
<1>1. T = {}
  <2> SUFFICES ASSUME T # {} PROVE FALSE
    OBVIOUS
  <2>1. PICK m \in T : \A k \in T : m <= k
    <3>1. T \subseteq Nat
      OBVIOUS
    <3> HIDE DEF T
    <3>  QED BY <3>1, Least
  <2>2. m # 0
    BY <2>1
  <2>3. m \in 1..n /\ m - 1 \in 0..n /\ ~(m <= m - 1)
    BY <2>2
  <2>4. Keeps(ctx, m - 1, g[m - 1])
    BY <2>1, <2>3
  <2>5. Keeps(ctx, m, Op(ctx, g[m - 1], seq[m]))
    BY <2>3, <2>4
  <2>6. Keeps(ctx, m, g[m])
    BY <2>3, <2>5
  <2>  QED BY <2>6
<1>  QED BY <1>1

\* The fold of a sequence keeps what its base has and its step keeps.
THEOREM FoldKeeps ==
  ASSUME NEW ctx, NEW base, NEW seq, NEW n \in Nat, DOMAIN seq = 1..n,
         Keeps(ctx, 0, base),
         ASSUME NEW a, NEW i \in 1..n, Keeps(ctx, i - 1, a)
         PROVE  Keeps(ctx, i, Op(ctx, a, seq[i]))
  PROVE  Keeps(ctx, n, Fold(ctx, base, seq))
<1> DEFINE f == CHOOSE iter : Iterates(iter, ctx, base, seq, 1..n)
           g == [i \in 0..n |-> f[1..i]]
<1>1. Iterates(f, ctx, base, seq, 1..n)
  BY IterExists
<1>2. Fold(ctx, base, seq) = f[1..n]
  BY DEF Fold
<1> HIDE DEF f
<1>3. g[0] = base
  <2>1. f[{}] = base
    BY <1>1 DEF Iterates
  <2>  QED BY <2>1
<1>4. ASSUME NEW i \in 1..n PROVE g[i] = Op(ctx, g[i - 1], seq[i])
  <2>1. f[1..i] = Op(ctx, f[1..(i - 1)], seq[i])
    BY <1>1, IterStep
  <2>2. i \in 0..n /\ i - 1 \in 0..n
    OBVIOUS
  <2>  QED BY <2>1, <2>2
<1>5. g[n] = f[1..n]
  OBVIOUS
<1> HIDE DEF g
<1>6. Keeps(ctx, n, g[n])
  BY <1>3, <1>4, StepsKeep
<1>  QED BY <1>2, <1>5, <1>6
-----------------------------------------------------------------------------
(* The same of a recursion over the first so many elements.                *)

Recurs(h, ctx, base, seq, n) ==
  h = [i \in 0..n |-> IF i = 0 THEN base ELSE Op(ctx, h[i - 1], seq[i])]

LEMMA RecursionExists ==
  ASSUME NEW ctx, NEW base, NEW seq
  PROVE  \A n \in Nat : \E h : Recurs(h, ctx, base, seq, n)
<1> DEFINE T == {n \in Nat : ~ \E h : Recurs(h, ctx, base, seq, n)}
<1> SUFFICES ASSUME T # {} PROVE FALSE
  OBVIOUS
<1>1. PICK n \in T : \A k \in T : n <= k
  <2>1. T \subseteq Nat OBVIOUS
  <2> HIDE DEF T
  <2> QED BY <2>1, Least
<1>2. n # 0
  <2> SUFFICES ASSUME n = 0 PROVE FALSE OBVIOUS
  <2> DEFINE f == [i \in 0..0 |-> base]
  <2>1. f = [i \in 0..0 |-> IF i = 0 THEN base ELSE Op(ctx, f[i - 1], seq[i])]
    OBVIOUS
  <2>2. Recurs(f, ctx, base, seq, 0)
    BY <2>1 DEF Recurs
  <2>  QED BY <2>2
<1>3. n - 1 \in Nat /\ n - 1 \notin T
  BY <1>1, <1>2
<1>4. PICK g : Recurs(g, ctx, base, seq, n - 1)
  BY <1>3
<1> DEFINE Body(h, i) == IF i = 0 THEN base ELSE Op(ctx, h[i - 1], seq[i])
           f == [i \in 0..n |-> Body(g, i)]
<1>5. \A i \in 0..(n - 1) : g[i] = Body(g, i)
  <2>1. g = [i \in 0..(n - 1) |-> Body(g, i)]
    BY <1>4 DEF Recurs
  <2> HIDE DEF Body
  <2>  QED BY <2>1
<1>6. 0..(n - 1) \subseteq 0..n /\ \A i \in 0..n : i # 0 => i - 1 \in 0..(n - 1)
  BY <1>3
<1>7. \A i \in 0..(n - 1) : f[i] = g[i]
  <2> HIDE DEF Body
  <2>  QED BY <1>5, <1>6
<1>8. \A i \in 0..n : f[i] = Body(f, i)
  <2>1. \A i \in 0..n : i # 0 => f[i - 1] = g[i - 1]
    BY <1>6, <1>7
  <2>2. \A i \in 0..n : f[i] = Body(g, i)
    OBVIOUS
  <2> HIDE DEF f
  <2>  QED BY <2>1, <2>2
<1>9. f = [i \in 0..n |-> Body(f, i)]
  BY <1>8
<1>10. Recurs(f, ctx, base, seq, n)
  BY <1>9 DEF Recurs
<1>  QED BY <1>10

Recursion(ctx, base, seq) ==
  LET h == CHOOSE h : Recurs(h, ctx, base, seq, Len(seq))
  IN  h[Len(seq)]

\* A recursion keeps what its base has and its step keeps.
THEOREM RecursionKeeps ==
  ASSUME NEW ctx, NEW base, NEW seq, Len(seq) \in Nat,
         Keeps(ctx, 0, base),
         ASSUME NEW a, NEW i \in 1..Len(seq), Keeps(ctx, i - 1, a)
         PROVE  Keeps(ctx, i, Op(ctx, a, seq[i]))
  PROVE  Keeps(ctx, Len(seq), Recursion(ctx, base, seq))
<1> DEFINE n == Len(seq)
           g == CHOOSE h : Recurs(h, ctx, base, seq, n)
<1>1. Recurs(g, ctx, base, seq, n)
  BY RecursionExists
<1>2. Recursion(ctx, base, seq) = g[n]
  BY DEF Recursion
<1> HIDE DEF g
<1>3. g[0] = base /\ \A i \in 1..n : g[i] = Op(ctx, g[i - 1], seq[i])
  BY <1>1 DEF Recurs
<1>4. Keeps(ctx, n, g[n])
  BY <1>3, StepsKeep
<1>  QED BY <1>2, <1>4
=============================================================================
