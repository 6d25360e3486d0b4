----------------------------- MODULE FoldProofs -----------------------------
(***************************************************************************)
(* Induction over data, and what FoldLeft computes.  The modules that      *)
(* prove about a fold instantiate this one with its operator: a theorem    *)
(* about any op is out of reach of the provers, one about a constant op of *)
(* an instantiated module is not.  Induction is over the elements of a     *)
(* set, from the theorem that < is well founded on Nat.                    *)
(***************************************************************************)
EXTENDS Integers, WellFoundedInduction, SequencesExt, TLAPS

CONSTANT op(_, _)

(* A set of natural numbers has a least element. *)
LEMMA LeastNat ==
  ASSUME NEW T \in SUBSET Nat, T # {}
  PROVE  \E x \in T : \A y \in T : x <= y
<1> DEFINE R == OpToRel(<, Nat)
<1>1. R = {ss \in Nat \X Nat : ss[1] < ss[2]}
  BY DEF OpToRel
<1>2. IsWellFoundedOn(R, Nat)
  BY NatLessThanWellFounded
<1> HIDE DEF R
<1>3. PICK x \in T : \A y \in T : ~ (<<y, x>> \in R)
  BY <1>2, WFMin
<1>4. ASSUME NEW y \in T
      PROVE  x <= y
  <2>1. ~ (<<y, x>> \in R) /\ <<y, x>> \in Nat \X Nat
    BY <1>3
  <2>2. ~ (<<y, x>>[1] < <<y, x>>[2])
    BY <1>1, <2>1
  <2> QED BY <2>2
<1> QED BY <1>4

(* Induction over an interval. *)
LEMMA Induct ==
  ASSUME NEW n \in Nat, NEW T, 0 \in T, \A k \in 0 .. (n - 1) : k \in T => k + 1 \in T
  PROVE  \A k \in 0 .. n : k \in T
<1> DEFINE U == {k \in 0 .. n : k \notin T}
<1> SUFFICES ASSUME U # {} PROVE FALSE
  OBVIOUS
<1>1. U \in SUBSET Nat
  OBVIOUS
<1>2. PICK x \in U : \A y \in U : x <= y
  BY <1>1, LeastNat
<1>3. x \in 0 .. n /\ x # 0 /\ x - 1 \in 0 .. (n - 1) /\ x - 1 \notin U
  BY <1>2
<1> QED BY <1>3

(* The greatest number of a set, the element a fold takes first. *)
LEMMA MaxFacts ==
  ASSUME NEW n \in Nat, NEW s \in SUBSET (1 .. n), s # {}
  PROVE  Max(s) \in s /\ \A x \in s : x <= Max(s)
<1> DEFINE T == {n - x : x \in s}
<1>1. T \in SUBSET Nat
  OBVIOUS
<1>0. T # {}
  OBVIOUS
<1>2. PICK t \in T : \A y \in T : t <= y
  BY <1>0, <1>1, LeastNat
<1>3. PICK x \in s : t = n - x
  BY <1>2
<1>4. ASSUME NEW y \in s PROVE x >= y
  <2>1. n - x <= n - y
    BY <1>2, <1>3
  <2> QED BY <2>1
<1>5. \E z \in s : \A y \in s : z >= y
  BY <1>4
<1>6. Max(s) \in s /\ \A y \in s : Max(s) >= y
  BY <1>5 DEF Max
<1>7. \A y \in s : y \in Int
  OBVIOUS
<1> QED BY <1>6, <1>7

(* g is the recursive function that FoldLeft chooses. *)
Folds(g, base, seq, S) ==
  g = [s \in SUBSET S |-> IF s = {} THEN base ELSE op(g[s \ {Max(s)}], seq[Max(s)])]

(* There is one: it is built from the ones on shorter intervals. *)
LEMMA FoldExists ==
  ASSUME NEW base, NEW seq, NEW n \in Nat
  PROVE  \E g : Folds(g, base, seq, 1 .. n)
<1> DEFINE T == {k \in 0 .. n : \E g : Folds(g, base, seq, 1 .. k)}
<1>1. 0 \in T
  <2>1. Folds([s \in SUBSET (1 .. 0) |-> base], base, seq, 1 .. 0)
    BY DEF Folds
  <2> QED BY <2>1
<1>2. ASSUME NEW k \in 0 .. (n - 1), k \in T
      PROVE  k + 1 \in T
  <2>1. PICK g : Folds(g, base, seq, 1 .. k)
    BY <1>2
  <2> DEFINE h == [s \in SUBSET (1 .. (k + 1)) |->
                     IF k + 1 \in s THEN op(g[s \ {k + 1}], seq[k + 1]) ELSE g[s]]
  <2>2. ASSUME NEW s \in SUBSET (1 .. (k + 1))
        PROVE  h[s] = IF s = {} THEN base ELSE op(h[s \ {Max(s)}], seq[Max(s)])
    <3>1. s # {} => Max(s) \in s /\ \A x \in s : x <= Max(s)
      BY MaxFacts
    <3>2. CASE k + 1 \in s
      <4>1. Max(s) = k + 1
        <5>1. Max(s) \in 1 .. (k + 1) /\ k + 1 <= Max(s)
          BY <3>1, <3>2
        <5> QED BY <5>1
      <4>2. s \ {k + 1} \in SUBSET (1 .. k) /\ k + 1 \notin s \ {k + 1}
        OBVIOUS
      <4>3. h[s \ {k + 1}] = g[s \ {k + 1}]
        BY <4>2
      <4>4. h[s] = op(g[s \ {k + 1}], seq[k + 1])
        BY <3>2
      <4> QED BY <3>2, <4>1, <4>3, <4>4
    <3>3. CASE k + 1 \notin s
      <4>1. /\ s \in SUBSET (1 .. k)
            /\ s \ {Max(s)} \in SUBSET (1 .. (k + 1))
            /\ k + 1 \notin s \ {Max(s)}
        <5>1. \A x \in s : x \in 1 .. k
          BY <3>3
        <5> QED BY <3>3, <5>1
      <4>2. h[s] = g[s] /\ h[s \ {Max(s)}] = g[s \ {Max(s)}]
        BY <3>3, <4>1
      <4>3. g[s] = IF s = {} THEN base ELSE op(g[s \ {Max(s)}], seq[Max(s)])
        BY <2>1, <4>1 DEF Folds
      <4> QED BY <4>2, <4>3
    <3> QED BY <3>2, <3>3
  <2>3. Folds(h, base, seq, 1 .. (k + 1))
    BY <2>2 DEF Folds
  <2>4. \E f : Folds(f, base, seq, 1 .. (k + 1))
    BY <2>3
  <2> QED BY <2>4
<1> HIDE DEF T
<1>3. \A k \in 0 .. n : k \in T
  BY <1>1, <1>2, Induct
<1>4. n \in T
  BY <1>3
<1> QED BY <1>4 DEF T

Folded(base, seq) == FoldLeft(op, base, seq)

(* The successive values of the fold over the first n elements of seq. *)
IsRun(a, base, seq, n) ==
  /\ a[0] = base
  /\ \A k \in 1 .. n : a[k] = op(a[k - 1], seq[k])

(* FoldLeft takes the elements of a sequence one after the other. *)
THEOREM FoldRun ==
  \A base, seq : \A n \in Nat : DOMAIN seq = 1 .. n =>
    \E a : IsRun(a, base, seq, n) /\ Folded(base, seq) = a[n]
<1> SUFFICES ASSUME NEW base, NEW seq, NEW n \in Nat, DOMAIN seq = 1 .. n
             PROVE  \E a : IsRun(a, base, seq, n) /\ Folded(base, seq) = a[n]
  OBVIOUS
<1> DEFINE f == CHOOSE g : Folds(g, base, seq, 1 .. n)
<1>1. Folds(f, base, seq, 1 .. n)
  BY FoldExists
<1>2. Folded(base, seq) = f[1 .. n]
  BY DEF Folded, FoldLeft, MapThenFoldSet, Folds
<1> HIDE DEF f
<1> DEFINE a == [k \in 0 .. n |-> f[1 .. k]]
<1>3. a[0] = base
  BY <1>1 DEF Folds
<1>4. ASSUME NEW k \in 1 .. n
      PROVE  a[k] = op(a[k - 1], seq[k])
  <2>1. 1 .. k \in SUBSET (1 .. n) /\ k \in 1 .. k /\ 1 .. k # {} /\ k \in Nat
    <3>1. k \in 1 .. k
      OBVIOUS
    <3>2. \A x \in 1 .. k : x \in 1 .. n
      OBVIOUS
    <3> QED BY <3>1, <3>2
  <2>2. Max(1 .. k) = k
    <3>1. Max(1 .. k) \in 1 .. k /\ k <= Max(1 .. k)
      BY <2>1, MaxFacts
    <3> QED BY <3>1
  <2>3. (1 .. k) \ {k} = 1 .. (k - 1)
    OBVIOUS
  <2>4. f[1 .. k] = op(f[(1 .. k) \ {Max(1 .. k)}], seq[Max(1 .. k)])
    BY <1>1, <2>1 DEF Folds
  <2>5. f[1 .. k] = op(f[1 .. (k - 1)], seq[k])
    BY <2>2, <2>3, <2>4
  <2> QED BY <2>5
<1>5. a[n] = f[1 .. n]
  OBVIOUS
<1>6. IsRun(a, base, seq, n)
  BY <1>3, <1>4 DEF IsRun
<1> QED BY <1>2, <1>5, <1>6

-----------------------------------------------------------------------------
(* g is the recursive function of the n first iterations of op, with a     *)
(* parameter par that stays the same.                                      *)
Iterates(g, base, par, n) ==
  g = [k \in 0 .. n |-> IF k = 0 THEN base ELSE op(g[k - 1], par)]

(* There is one. *)
LEMMA IterExists ==
  ASSUME NEW base, NEW par, NEW n \in Nat
  PROVE  \E g : Iterates(g, base, par, n)
<1> DEFINE T == {k \in 0 .. n : \E g : Iterates(g, base, par, k)}
<1>1. 0 \in T
  <2>1. Iterates([k \in 0 .. 0 |-> base], base, par, 0)
    BY DEF Iterates
  <2> QED BY <2>1
<1>2. ASSUME NEW k \in 0 .. (n - 1), k \in T
      PROVE  k + 1 \in T
  <2>1. PICK g : Iterates(g, base, par, k)
    BY <1>2
  <2> DEFINE h == [d \in 0 .. (k + 1) |-> IF d = 0 THEN base ELSE op(g[d - 1], par)]
  <2>2. ASSUME NEW d \in 1 .. (k + 1)
        PROVE  h[d - 1] = g[d - 1]
    <3>1. d - 1 \in 0 .. k /\ d - 1 \in 0 .. (k + 1)
      OBVIOUS
    <3> QED BY <2>1, <3>1 DEF Iterates
  <2>3. ASSUME NEW d \in 0 .. (k + 1)
        PROVE  h[d] = IF d = 0 THEN base ELSE op(h[d - 1], par)
    <3>1. CASE d = 0
      BY <3>1
    <3>2. CASE d # 0
      <4>1. d \in 1 .. (k + 1)
        BY <3>2
      <4>2. h[d] = op(g[d - 1], par)
        BY <3>2
      <4> QED BY <2>2, <3>2, <4>1, <4>2
    <3> QED BY <3>1, <3>2
  <2>4. h = [d \in 0 .. (k + 1) |-> h[d]]
    OBVIOUS
  <2> HIDE DEF h
  <2>5. Iterates(h, base, par, k + 1)
    BY <2>3, <2>4 DEF Iterates
  <2> QED BY <2>5
<1> HIDE DEF T
<1>3. \A k \in 0 .. n : k \in T
  BY <1>1, <1>2, Induct
<1>4. n \in T
  BY <1>3
<1> QED BY <1>4 DEF T

(* The values of such a function, which a proof expands where it needs one. *)
Steps(g, base, par, n) ==
  g[0] = base /\ \A k \in 1 .. n : g[k] = op(g[k - 1], par)

LEMMA IterSteps ==
  ASSUME NEW base, NEW par, NEW n \in Nat, NEW g, Iterates(g, base, par, n)
  PROVE  Steps(g, base, par, n)
<1>1. \A k \in 0 .. n : g[k] = IF k = 0 THEN base ELSE op(g[k - 1], par)
  BY DEF Iterates
<1>2. 0 \in 0 .. n /\ \A k \in 1 .. n : k \in 0 .. n /\ k # 0
  OBVIOUS
<1> QED BY <1>1, <1>2 DEF Steps
=============================================================================
