---------------------------- MODULE DeriveProofs ----------------------------
(***************************************************************************)
(* What conflict analysis (Deriver.Derive) returns: a clause implied by    *)
(* the added clauses, whose literals are false, the first at the level of  *)
(* the conflict and the others below it, at most at the target level.      *)
(***************************************************************************)
EXTENDS Solver, TrailProofs, FiniteSetTheorems

MarkFold    == INSTANCE FoldProofs WITH op <- Mark
ResolveFold == INSTANCE FoldProofs WITH op <- Resolve
KeepFold    == INSTANCE FoldProofs WITH op <- KeepLit

(* A decision is the first literal of its level, which is not level 0. *)
DecisionsFirst ==
  \A i \in 1 .. Len(D) : reasons[Var(D[i])] = CNull =>
    /\ levels[Var(D[i])] >= 1
    /\ \A j \in 1 .. (i - 1) : levels[Var(D[j])] < levels[Var(D[i])]

Model(A) == A \in SUBSET VarSet /\ ModelOf(A, formula)

(* Every clause of the database follows from the added clauses. *)
Sound ==
  \A c \in Clauses : \A A : Model(A) =>
    \E k \in 1 .. Len(cls[c]) : HoldsIn(cls[c][k], A)

(* In a set of variables a literal holds or its negation does. *)
LEMMA HoldsFacts ==
  ASSUME NEW m \in LitSet, NEW A
  PROVE  HoldsIn(Not(m), A) <=> ~ HoldsIn(m, A)
<1>1. Var(Not(m)) = Var(m)
  BY LitFacts
<1>2. m \in Nat /\ (m % 2 = 0 <=> Not(m) % 2 # 0)
  BY NVarsAssumption DEF LitSet, Not
<1> QED BY <1>1, <1>2, Zenon DEF HoldsIn

(* A false literal has its negation on the trail, at a level that is open. *)
LEMMA FalseFacts ==
  ASSUME TrailCore, NEW m \in LitSet, IsFalse(m)
  PROVE  /\ \E i \in 1 .. Len(D) : D[i] = Not(m) /\ Var(D[i]) = Var(m)
         /\ levels[Var(m)] \in 0 .. Level
<1>1. Not(m) \in LitSet /\ Var(Not(m)) = Var(m)
  BY LitFacts
<1>2. IsTrue(Not(m))
  BY DEF TrailCore, TrailConsistent
<1>3. PICK i \in 1 .. Len(D) : D[i] = Not(m)
  BY <1>1, <1>2 DEF TrailCore, TrailConsistent
<1>4. levels[Var(D[i])] \in 0 .. Level
  BY DEF TrailCore, LevelsOK
<1> QED BY <1>1, <1>3, <1>4

(* What the trail invariant says of the literal at one place. *)
LEMMA TrailFacts ==
  ASSUME TrailCore, NEW i \in 1 .. Len(D)
  PROVE  /\ Len(D) \in Nat /\ Level \in Nat
         /\ D[i] \in LitSet /\ IsTrue(D[i]) /\ Not(D[i]) \in LitSet /\ IsFalse(Not(D[i]))
         /\ Var(D[i]) \in VarSet /\ Var(Not(D[i])) = Var(D[i])
         /\ levels[Var(D[i])] \in 0 .. Level
         /\ \A j \in 1 .. (i - 1) : Var(D[j]) # Var(D[i]) /\ levels[Var(D[j])] <= levels[Var(D[i])]
<1>1. Len(D) \in Nat /\ Level \in Nat /\ D[i] \in LitSet
  BY DEF TrailCore, TypeOK
<1>2. IsTrue(D[i])
  BY <1>1 DEF TrailCore, TrailConsistent
<1>3. Not(D[i]) \in LitSet /\ Not(Not(D[i])) = D[i] /\ Var(D[i]) \in VarSet /\ Var(Not(D[i])) = Var(D[i])
  BY <1>1, LitFacts
<1>4. IsFalse(Not(D[i]))
  BY <1>2, <1>3 DEF TrailCore, TrailConsistent
<1>5. levels[Var(D[i])] \in 0 .. Level
  BY DEF TrailCore, LevelsOK
<1>6. \A j \in 1 .. (i - 1) : Var(D[j]) # Var(D[i]) /\ levels[Var(D[j])] <= levels[Var(D[i])]
  BY <1>1 DEF TrailCore, TrailConsistent
<1> QED BY <1>1, <1>2, <1>3, <1>4, <1>5, <1>6

(* The reason of a trail literal. *)
LEMMA ReasonFacts ==
  ASSUME TrailCore, NEW i \in 1 .. Len(D), NEW c, c = reasons[Var(D[i])], c # CNull
  PROVE  /\ c \in Clauses /\ cls[c] \in Seq(LitSet) /\ Len(cls[c]) \in Nat /\ Len(cls[c]) >= 1
         /\ cls[c] # <<>> /\ cls[c][1] = D[i]
         /\ \A k \in 2 .. Len(cls[c]) :
              /\ cls[c][k] \in LitSet /\ IsFalse(cls[c][k])
              /\ \E j \in 1 .. (i - 1) : D[j] = Not(cls[c][k])
<1>1. /\ c \in Clauses /\ cls[c] # <<>> /\ cls[c][1] = D[i]
      /\ \A k \in 2 .. Len(cls[c]) : \E j \in 1 .. (i - 1) : D[j] = Not(cls[c][k])
  BY DEF TrailCore, ReasonFirst
<1>2. cls \in Seq(Seq(LitSet)) /\ Len(D) \in Nat
  BY DEF TrailCore, TypeOK
<1>3. cls[c] \in Seq(LitSet) /\ Len(cls[c]) \in Nat
  BY <1>1, <1>2 DEF Clauses
<1>4. Len(cls[c]) >= 1
  BY <1>1, <1>3, EmptySeq
<1>5. ASSUME NEW k \in 2 .. Len(cls[c])
      PROVE  cls[c][k] \in LitSet /\ IsFalse(cls[c][k])
  <2>1. cls[c][k] \in LitSet
    BY <1>3
  <2>2. PICK j \in 1 .. (i - 1) : D[j] = Not(cls[c][k])
    BY <1>1
  <2>3. j \in 1 .. Len(D)
    BY <1>2
  <2>4. IsFalse(Not(D[j]))
    BY <2>3, TrailFacts
  <2> QED BY <2>1, <2>2, <2>4, LitFacts
<1> QED BY <1>1, <1>3, <1>4, <1>5

(* A trail literal of level l or lower holds in every model of the added   *)
(* clauses in which the decisions up to level l hold.                      *)
LEMMA TrailImplied ==
  ASSUME TrailCore, Sound, NEW A, Model(A), NEW l \in Int,
         \A i \in 1 .. Len(D) :
           reasons[Var(D[i])] = CNull /\ levels[Var(D[i])] <= l => HoldsIn(D[i], A)
  PROVE  \A i \in 1 .. Len(D) : levels[Var(D[i])] <= l => HoldsIn(D[i], A)
<1> DEFINE T == {i \in 1 .. Len(D) : levels[Var(D[i])] <= l /\ ~ HoldsIn(D[i], A)}
<1> SUFFICES ASSUME T # {} PROVE FALSE
  OBVIOUS
<1>1. T \in SUBSET Nat
  OBVIOUS
<1>2. PICK i \in T : \A j \in T : i <= j
  BY <1>1, MarkFold!LeastNat
<1>3. i \in 1 .. Len(D) /\ levels[Var(D[i])] <= l /\ ~ HoldsIn(D[i], A)
  BY <1>2
<1>4. reasons[Var(D[i])] # CNull
  BY <1>3
<1>5. PICK c \in Clauses : c = reasons[Var(D[i])]
  BY <1>3, <1>4, ReasonFacts
<1>6. /\ Len(cls[c]) \in Nat /\ cls[c][1] = D[i]
      /\ \A k \in 2 .. Len(cls[c]) :
           cls[c][k] \in LitSet /\ \E j \in 1 .. (i - 1) : D[j] = Not(cls[c][k])
  BY <1>3, <1>4, <1>5, ReasonFacts
<1>7. PICK k \in 1 .. Len(cls[c]) : HoldsIn(cls[c][k], A)
  BY DEF Sound
<1>8. k \in 2 .. Len(cls[c])
  BY <1>3, <1>6, <1>7
<1>9. PICK j \in 1 .. (i - 1) : D[j] = Not(cls[c][k])
  BY <1>6, <1>8
<1>10. j \in 1 .. Len(D) /\ Len(D) \in Nat /\ levels[Var(D[j])] \in Int /\ levels[Var(D[j])] <= levels[Var(D[i])]
  <2>1. Len(D) \in Nat
    BY <1>3, TrailFacts
  <2>2. j \in 1 .. Len(D)
    BY <1>3, <2>1
  <2>3. levels[Var(D[j])] \in Int
    BY <2>2, TrailFacts
  <2> QED BY <1>3, <2>1, <2>2, <2>3, TrailFacts
<1>11. levels[Var(D[i])] \in Int
  BY <1>3, TrailFacts
<1>12. levels[Var(D[j])] <= l
  BY <1>3, <1>10, <1>11
<1>13. ~ HoldsIn(D[j], A)
  BY <1>6, <1>7, <1>8, <1>9, HoldsFacts
<1>14. j \in T /\ i \in Nat
  BY <1>3, <1>10, <1>12, <1>13
<1> QED BY <1>2, <1>14

(* What is false at level 0 is false in every model of the added clauses. *)
LEMMA FalseAtZero ==
  ASSUME TrailCore, Sound, DecisionsFirst, NEW A, Model(A),
         NEW m \in LitSet, IsFalse(m), levels[Var(m)] = 0
  PROVE  ~ HoldsIn(m, A)
<1>1. PICK i \in 1 .. Len(D) : D[i] = Not(m) /\ Var(D[i]) = Var(m)
  BY FalseFacts
<1>2. ASSUME NEW j \in 1 .. Len(D), reasons[Var(D[j])] = CNull, levels[Var(D[j])] <= 0
      PROVE  HoldsIn(D[j], A)
  <2>1. levels[Var(D[j])] >= 1 /\ levels[Var(D[j])] \in Int
    BY <1>2, TrailFacts DEF DecisionsFirst
  <2> QED BY <1>2, <2>1
<1>3. \A k \in 1 .. Len(D) : levels[Var(D[k])] <= 0 => HoldsIn(D[k], A)
  <2> DEFINE l == 0
  <2>1. \A j \in 1 .. Len(D) :
          reasons[Var(D[j])] = CNull /\ levels[Var(D[j])] <= l => HoldsIn(D[j], A)
    BY <1>2
  <2>2. l \in Int
    OBVIOUS
  <2> HIDE DEF l
  <2>3. \A k \in 1 .. Len(D) : levels[Var(D[k])] <= l => HoldsIn(D[k], A)
    BY <2>1, <2>2, TrailImplied
  <2> QED BY <2>3 DEF l
<1>4. HoldsIn(Not(m), A)
  BY <1>1, <1>3
<1> QED BY <1>4, HoldsFacts

-----------------------------------------------------------------------------
(***************************************************************************)
(* Marking the literals of a clause.                                       *)
(***************************************************************************)
AccType ==
  [seen : SUBSET VarSet, count : Nat, cLits : Seq(LitIndex), lvls : SUBSET Nat,
   target : Nat, done : BOOLEAN]

(* The literals collected so far, from the second on, are false literals   *)
(* of different variables at levels below the conflict, and target is a    *)
(* bound of their levels; what is marked and is not of level 0 or of the   *)
(* level of the conflict is among them.                                    *)
AccOK(acc) ==
  /\ Len(acc.cLits) >= 1
  /\ \A k \in 2 .. Len(acc.cLits) :
       LET m == acc.cLits[k]
       IN  /\ m \in LitSet /\ IsFalse(m) /\ Var(m) \in acc.seen
           /\ levels[Var(m)] \in 1 .. acc.target
  /\ \A j, k \in 2 .. Len(acc.cLits) : Var(acc.cLits[j]) = Var(acc.cLits[k]) => j = k
  /\ \A v \in acc.seen :
       levels[v] \in {0, Level} \/ \E k \in 2 .. Len(acc.cLits) : Var(acc.cLits[k]) = v
  /\ acc.target < Level
  /\ acc.lvls \subseteq lvls \cup 1 .. Level

(* acc goes on to b: what was collected stays. *)
Extends(acc, b) ==
  /\ b.done = acc.done /\ acc.seen \subseteq b.seen
  /\ Len(acc.cLits) <= Len(b.cLits)
  /\ \A k \in 1 .. Len(acc.cLits) : b.cLits[k] = acc.cLits[k]

(* One literal is marked. *)
LEMMA MarkStep ==
  ASSUME NEW acc \in AccType, AccOK(acc), NEW m \in LitSet, IsFalse(m),
         levels[Var(m)] \in 0 .. Level, Level \in Nat, Level > 0,
         NEW b, b = Mark(acc, m)
  PROVE  /\ b \in AccType /\ AccOK(b) /\ Extends(acc, b)
         /\ b.seen = acc.seen \cup {Var(m)}
         /\ b.count = IF Var(m) \notin acc.seen /\ levels[Var(m)] = Level
                      THEN acc.count + 1 ELSE acc.count
<1> DEFINE v == Var(m)
           l == levels[Var(m)]
<1>1. v \in VarSet /\ m \in LitIndex
  BY LitFacts, IndexFacts
<1>2. /\ acc.seen \in SUBSET VarSet /\ acc.count \in Nat /\ acc.cLits \in Seq(LitIndex)
      /\ acc.lvls \in SUBSET Nat /\ acc.target \in Nat /\ acc.done \in BOOLEAN
  BY DEF AccType
<1>3. CASE v \in acc.seen
  <2>1. b = acc
    BY <1>3 DEF Mark
  <2> QED BY <1>3, <2>1, <1>2 DEF Extends
<1>4. CASE v \notin acc.seen /\ l = 0
  <2>1. b = [acc EXCEPT !.seen = @ \cup {v}]
    BY <1>4 DEF Mark
  <2>2. /\ b \in AccType /\ b.seen = acc.seen \cup {v} /\ b.count = acc.count /\ b.cLits = acc.cLits
        /\ b.lvls = acc.lvls /\ b.target = acc.target /\ b.done = acc.done
    BY <1>1, <2>1 DEF AccType
  <2>3. AccOK(b)
    BY <1>4, <2>2 DEF AccOK
  <2>4. Extends(acc, b)
    BY <2>2, <1>2 DEF Extends
  <2> QED BY <1>4, <2>2, <2>3, <2>4
<1>5. CASE v \notin acc.seen /\ l = Level
  <2>1. b = [acc EXCEPT !.seen = @ \cup {v}, !.count = @ + 1]
    BY <1>5 DEF Mark
  <2>20. /\ b.seen = acc.seen \cup {v} /\ b.count = acc.count + 1 /\ b.cLits = acc.cLits
         /\ b.lvls = acc.lvls /\ b.target = acc.target /\ b.done = acc.done
    BY <2>1 DEF AccType
  <2>21. b = [seen |-> b.seen, count |-> b.count, cLits |-> b.cLits, lvls |-> b.lvls,
              target |-> b.target, done |-> b.done]
    BY <2>1 DEF AccType
  <2>22. b.seen \in SUBSET VarSet /\ b.count \in Nat
    BY <1>1, <1>2, <2>20
  <2>2. /\ b \in AccType /\ b.seen = acc.seen \cup {v} /\ b.count = acc.count + 1 /\ b.cLits = acc.cLits
        /\ b.lvls = acc.lvls /\ b.target = acc.target /\ b.done = acc.done
    BY <1>2, <2>20, <2>21, <2>22 DEF AccType
  <2>3. AccOK(b)
    BY <1>5, <2>2 DEF AccOK
  <2>4. Extends(acc, b)
    BY <2>2, <1>2 DEF Extends
  <2> QED BY <1>5, <2>2, <2>3, <2>4
<1>6. CASE v \notin acc.seen /\ l # 0 /\ l # Level
  <2> DEFINE n == Len(acc.cLits)
  <2>1. b = [acc EXCEPT !.seen = @ \cup {v}, !.cLits = Append(@, m), !.lvls = @ \cup {l},
                        !.target = IF @ < l THEN l ELSE @]
    BY <1>6 DEF Mark
  <2>2. l \in 1 .. (Level - 1)
    BY <1>6
  <2>30. /\ b.seen = acc.seen \cup {v} /\ b.count = acc.count
         /\ b.cLits = Append(acc.cLits, m) /\ b.lvls = acc.lvls \cup {l} /\ b.done = acc.done
         /\ b.target = IF acc.target < l THEN l ELSE acc.target
    BY <2>1 DEF AccType
  <2>31. b = [seen |-> b.seen, count |-> b.count, cLits |-> b.cLits, lvls |-> b.lvls,
              target |-> b.target, done |-> b.done]
    BY <2>1 DEF AccType
  <2>32. /\ b.seen \in SUBSET VarSet /\ b.cLits \in Seq(LitIndex) /\ b.lvls \in SUBSET Nat
         /\ b.target \in Nat
    BY <1>1, <1>2, <2>2, <2>30
  <2>3. /\ b \in AccType /\ b.seen = acc.seen \cup {v} /\ b.count = acc.count
        /\ b.cLits = Append(acc.cLits, m) /\ b.lvls = acc.lvls \cup {l} /\ b.done = acc.done
        /\ b.target = IF acc.target < l THEN l ELSE acc.target
    BY <1>2, <2>30, <2>31, <2>32 DEF AccType
  <2>4. /\ n \in Nat /\ Len(b.cLits) = n + 1 /\ b.cLits[n + 1] = m
        /\ \A k \in 1 .. n : b.cLits[k] = acc.cLits[k]
    BY <1>1, <1>2, <2>3
  <2>5. b.target \in Nat /\ acc.target <= b.target /\ l <= b.target /\ b.target < Level
    BY <1>2, <2>2, <2>3 DEF AccOK
  <2>6. ASSUME NEW k \in 2 .. Len(b.cLits)
        PROVE  /\ b.cLits[k] \in LitSet /\ IsFalse(b.cLits[k]) /\ Var(b.cLits[k]) \in b.seen
               /\ levels[Var(b.cLits[k])] \in 1 .. b.target
    <3>1. CASE k = n + 1
      BY <3>1, <2>2, <2>3, <2>4, <2>5
    <3>2. CASE k \in 2 .. n
      <4>1. levels[Var(acc.cLits[k])] \in 1 .. acc.target
        BY <3>2 DEF AccOK
      <4> QED BY <3>2, <4>1, <1>2, <2>3, <2>4, <2>5 DEF AccOK
    <3> QED BY <2>4, <3>1, <3>2
  <2>7. ASSUME NEW j \in 2 .. Len(b.cLits), NEW k \in 2 .. Len(b.cLits),
               Var(b.cLits[j]) = Var(b.cLits[k])
        PROVE  j = k
    <3>1. \A i \in 2 .. n : Var(acc.cLits[i]) # v
      BY <1>6 DEF AccOK
    <3>2. (j = n + 1 \/ j \in 2 .. n) /\ (k = n + 1 \/ k \in 2 .. n)
      BY <2>4
    <3> QED BY <2>4, <2>7, <3>1, <3>2 DEF AccOK
  <2>8. ASSUME NEW u \in b.seen
        PROVE  levels[u] \in {0, Level} \/ \E k \in 2 .. Len(b.cLits) : Var(b.cLits[k]) = u
    <3>1. CASE u = v
      <4>1. n + 1 \in 2 .. Len(b.cLits)
        BY <2>4 DEF AccOK
      <4> QED BY <3>1, <4>1, <2>4
    <3>2. CASE u \in acc.seen
      BY <3>2, <2>4 DEF AccOK
    <3> QED BY <2>3, <3>1, <3>2
  <2>9. Len(b.cLits) >= 1 /\ b.lvls \subseteq lvls \cup 1 .. Level
    BY <2>2, <2>3, <2>4 DEF AccOK
  <2>10. AccOK(b)
    BY <2>5, <2>6, <2>7, <2>8, <2>9 DEF AccOK
  <2>11. Extends(acc, b)
    BY <2>3, <2>4 DEF Extends
  <2> QED BY <1>6, <2>3, <2>10, <2>11
<1> QED BY <1>3, <1>4, <1>5, <1>6

(* Extending is transitive. *)
LEMMA ExtendsTwice ==
  ASSUME NEW a \in AccType, NEW b \in AccType, NEW c \in AccType, Extends(a, b), Extends(b, c)
  PROVE  Extends(a, c)
<1>1. Len(a.cLits) \in Nat /\ Len(b.cLits) \in Nat /\ Len(c.cLits) \in Nat
  BY DEF AccType
<1> QED BY <1>1 DEF Extends

(* The places up to i of marked literals of the level of the conflict. *)
Open(acc, i) ==
  {j \in 1 .. i : Var(D[j]) \in acc.seen /\ levels[Var(D[j])] = Level}

(* The count of Mark is the number of these. *)
CountIs(acc, i) == acc.count = Cardinality(Open(acc, i))

(* Places are finitely many. *)
LEMMA OpenFinite ==
  ASSUME NEW acc, NEW i \in Nat
  PROVE  IsFiniteSet(Open(acc, i)) /\ Cardinality(Open(acc, i)) \in Nat
<1>1. IsFiniteSet(1 .. i)
  BY FS_Interval
<1>2. Open(acc, i) \in SUBSET (1 .. i)
  BY DEF Open
<1> QED BY <1>1, <1>2, FS_Subset, FS_CardinalityType

(* Marking a literal that is falsified up to place i keeps the count. *)
LEMMA MarkCounts ==
  ASSUME TrailCore, NEW acc \in AccType, AccOK(acc), NEW i \in 0 .. Len(D), CountIs(acc, i),
         NEW m \in LitSet, NEW j \in 1 .. i, D[j] = Not(m), Level > 0,
         NEW b, b = Mark(acc, m)
  PROVE  CountIs(b, i)
<1>1. Len(D) \in Nat /\ Level \in Nat /\ i \in Nat
  BY DEF TrailCore, TypeOK
<1>2. j \in 1 .. Len(D)
  BY <1>1
<1>3. IsFalse(m) /\ Var(D[j]) = Var(m) /\ levels[Var(m)] \in 0 .. Level
  <2>1. Not(Not(m)) = m /\ Var(Not(m)) = Var(m)
    BY LitFacts
  <2> QED BY <1>2, <2>1, TrailFacts
<1>4. /\ b.seen = acc.seen \cup {Var(m)}
      /\ b.count = IF Var(m) \notin acc.seen /\ levels[Var(m)] = Level
                    THEN acc.count + 1 ELSE acc.count
  BY <1>1, <1>3, MarkStep
<1>5. \A k \in 1 .. i : Var(D[k]) = Var(m) => k = j
  <2>1. SUFFICES ASSUME NEW k \in 1 .. i, Var(D[k]) = Var(m), k # j PROVE FALSE
    OBVIOUS
  <2>2. k \in 1 .. Len(D) /\ (k \in 1 .. (j - 1) \/ j \in 1 .. (k - 1))
    BY <1>1, <2>1
  <2> QED BY <1>2, <1>3, <2>1, <2>2, TrailFacts
<1>6. IsFiniteSet(Open(acc, i)) /\ Cardinality(Open(acc, i)) \in Nat
  BY <1>1, OpenFinite
<1>7. CASE Var(m) \notin acc.seen /\ levels[Var(m)] = Level
  <2>1. Open(b, i) = Open(acc, i) \cup {j} /\ j \notin Open(acc, i)
    BY <1>3, <1>4, <1>5, <1>7 DEF Open
  <2>2. Cardinality(Open(b, i)) = Cardinality(Open(acc, i)) + 1
    BY <1>6, <2>1, FS_AddElement
  <2> QED BY <1>4, <1>7, <2>2 DEF CountIs
<1>8. CASE ~ (Var(m) \notin acc.seen /\ levels[Var(m)] = Level)
  <2>1. Open(b, i) = Open(acc, i)
    BY <1>3, <1>4, <1>5, <1>8 DEF Open
  <2> QED BY <1>4, <1>8, <2>1 DEF CountIs
<1> QED BY <1>7, <1>8

(* The literals of ms are falsified up to place i. *)
FalseUpTo(ms, i) ==
  /\ ms \in Seq(LitSet)
  /\ \A k \in 1 .. Len(ms) : \E j \in 1 .. i : D[j] = Not(ms[k])

(* A whole sequence of literals is marked. *)
LEMMA MarkAll ==
  ASSUME TrailCore, Level > 0, NEW acc \in AccType, AccOK(acc), NEW i \in 0 .. Len(D),
         CountIs(acc, i), NEW ms, FalseUpTo(ms, i), NEW b, b = FoldLeft(Mark, acc, ms)
  PROVE  /\ b \in AccType /\ AccOK(b) /\ Extends(acc, b) /\ CountIs(b, i)
         /\ \A k \in 1 .. Len(ms) : Var(ms[k]) \in b.seen
<1>1. /\ Len(D) \in Nat /\ Level \in Nat /\ i \in Nat
      /\ DOMAIN ms = 1 .. Len(ms) /\ Len(ms) \in Nat
  BY DEF TrailCore, TypeOK, FalseUpTo
<1>2. FoldLeft(Mark, acc, ms) = MarkFold!Folded(acc, ms)
  BY DEF MarkFold!Folded, FoldLeft, MapThenFoldSet, Max,
         MarkFold!FoldLeft, MarkFold!MapThenFoldSet, MarkFold!Max
<1>3. PICK a : MarkFold!IsRun(a, acc, ms, Len(ms)) /\ MarkFold!Folded(acc, ms) = a[Len(ms)]
  BY <1>1, MarkFold!FoldRun
<1>4. a[0] = acc /\ \A k \in 1 .. Len(ms) : a[k] = Mark(a[k - 1], ms[k])
  BY <1>3 DEF MarkFold!IsRun
<1> DEFINE Good(k) ==
             /\ a[k] \in AccType /\ AccOK(a[k]) /\ Extends(acc, a[k]) /\ CountIs(a[k], i)
             /\ \A n \in 1 .. k : Var(ms[n]) \in a[k].seen
           T == {k \in 0 .. Len(ms) : Good(k)}
<1>5. Good(0)
  BY <1>4 DEF Extends
<1>6. ASSUME NEW k \in 0 .. (Len(ms) - 1), Good(k)
      PROVE  Good(k + 1)
  <2>1. k + 1 \in 1 .. Len(ms) /\ ms[k + 1] \in LitSet
    BY <1>1 DEF FalseUpTo
  <2>2. PICK j \in 1 .. i : D[j] = Not(ms[k + 1])
    BY <2>1 DEF FalseUpTo
  <2>3. j \in 1 .. Len(D)
    BY <1>1
  <2>4. IsFalse(ms[k + 1]) /\ levels[Var(ms[k + 1])] \in 0 .. Level
    <3>1. Not(Not(ms[k + 1])) = ms[k + 1] /\ Var(Not(ms[k + 1])) = Var(ms[k + 1])
      BY <2>1, LitFacts
    <3> QED BY <2>2, <2>3, <3>1, TrailFacts
  <2>5. a[k + 1] = Mark(a[k], ms[k + 1])
    <3>1. (k + 1) - 1 = k
      BY <1>1
    <3> QED BY <1>4, <2>1, <3>1
  <2>6. /\ a[k + 1] \in AccType /\ AccOK(a[k + 1]) /\ Extends(a[k], a[k + 1])
        /\ a[k + 1].seen = a[k].seen \cup {Var(ms[k + 1])}
    BY <1>1, <1>6, <2>1, <2>4, <2>5, MarkStep
  <2>7. CountIs(a[k + 1], i)
    BY <1>6, <2>1, <2>2, <2>5, MarkCounts
  <2>8. Extends(acc, a[k + 1])
    BY <1>6, <2>6, ExtendsTwice
  <2>9. \A n \in 1 .. (k + 1) : n = k + 1 \/ n \in 1 .. k
    BY <1>1
  <2> QED BY <1>6, <2>6, <2>7, <2>8, <2>9
<1> HIDE DEF Good
<1>7. 0 \in T /\ \A k \in 0 .. (Len(ms) - 1) : k \in T => k + 1 \in T
  BY <1>1, <1>5, <1>6
<1> HIDE DEF T
<1>8. \A k \in 0 .. Len(ms) : k \in T
  BY <1>1, <1>7, MarkFold!Induct
<1>9. Good(Len(ms))
  <2>1. Len(ms) \in T
    BY <1>1, <1>8
  <2> QED BY <2>1 DEF T
<1> QED BY <1>2, <1>3, <1>9 DEF Good

-----------------------------------------------------------------------------
(***************************************************************************)
(* The walk back over the trail.                                           *)
(***************************************************************************)

(* A holds of a collected literal, or not of a marked one still open. *)
Blames(A, acc, i) ==
  \/ \E k \in 2 .. Len(acc.cLits) : HoldsIn(acc.cLits[k], A)
  \/ \E j \in Open(acc, i) : ~ HoldsIn(D[j], A)

(* A model that makes a marked false literal true is blamed. *)
LEMMA MarkedBlamed ==
  ASSUME TrailCore, Sound, DecisionsFirst, NEW A, Model(A), NEW acc \in AccType, AccOK(acc),
         NEW i \in 0 .. Len(D), NEW m \in LitSet, NEW j \in 1 .. i, D[j] = Not(m),
         Var(m) \in acc.seen, HoldsIn(m, A)
  PROVE  Blames(A, acc, i)
<1>1. Len(D) \in Nat /\ Level \in Nat /\ j \in 1 .. Len(D)
  BY DEF TrailCore, TypeOK
<1>2. IsFalse(m) /\ Var(D[j]) = Var(m) /\ ~ HoldsIn(D[j], A)
  <2>1. Not(Not(m)) = m /\ Var(Not(m)) = Var(m)
    BY LitFacts
  <2> QED BY <1>1, <2>1, TrailFacts, HoldsFacts
<1>3. levels[Var(m)] # 0
  BY <1>2, FalseAtZero
<1>4. CASE levels[Var(m)] = Level
  BY <1>2, <1>4 DEF Blames, Open
<1>5. CASE levels[Var(m)] # Level
  <2>1. PICK k \in 2 .. Len(acc.cLits) : Var(acc.cLits[k]) = Var(m)
    BY <1>3, <1>5 DEF AccOK
  <2>2. acc.cLits[k] \in LitSet /\ IsFalse(acc.cLits[k])
    BY DEF AccOK
  <2>3. acc.cLits[k] = m
    <3>1. acc.cLits[k] = m \/ acc.cLits[k] = Not(m)
      BY <2>1, <2>2, SameVar, LitFacts
    <3>2. ~ IsFalse(Not(m))
      <4>1. IsTrue(Not(m))
        BY <1>2, LitFacts DEF TrailCore, TrailConsistent
      <4> QED BY <4>1 DEF IsTrue, IsFalse
    <3> QED BY <2>2, <3>1, <3>2
  <2> QED BY <2>3 DEF Blames
<1> QED BY <1>4, <1>5

(* The state of the walk when the places from i + 1 on are done. *)
WalkOK(acc, i) ==
  /\ acc \in AccType /\ AccOK(acc)
  /\ ~ acc.done =>
       /\ CountIs(acc, i) /\ acc.count >= 1
       /\ \A A : Model(A) => Blames(A, acc, i)
  /\ acc.done =>
       /\ acc.cLits[1] \in LitSet /\ IsFalse(acc.cLits[1]) /\ levels[Var(acc.cLits[1])] = Level
       /\ \A A : Model(A) => \E k \in 1 .. Len(acc.cLits) : HoldsIn(acc.cLits[k], A)

(* One literal of the trail. *)
LEMMA ResolveStep ==
  ASSUME TrailCore, Sound, DecisionsFirst, Level > 0, NEW i \in 1 .. Len(D),
         NEW acc, WalkOK(acc, i), NEW b, b = Resolve(acc, D[i])
  PROVE  WalkOK(b, i - 1)
<1>1. /\ Len(D) \in Nat /\ Level \in Nat /\ i \in Nat /\ i - 1 \in 0 .. Len(D) /\ i - 1 \in Nat
      /\ i \in 0 .. Len(D)
  BY DEF TrailCore, TypeOK
<1>2. acc \in AccType /\ AccOK(acc)
  BY DEF WalkOK
<1>3. /\ acc.seen \in SUBSET VarSet /\ acc.count \in Nat /\ acc.cLits \in Seq(LitIndex)
      /\ acc.lvls \in SUBSET Nat /\ acc.target \in Nat /\ acc.done \in BOOLEAN
      /\ Len(acc.cLits) \in Nat /\ Len(acc.cLits) >= 1
  BY <1>2 DEF AccType, AccOK
<1>4. /\ D[i] \in LitSet /\ Not(D[i]) \in LitSet /\ IsFalse(Not(D[i]))
      /\ Var(Not(D[i])) = Var(D[i]) /\ levels[Var(D[i])] \in 0 .. Level
  BY TrailFacts
<1>5. CASE acc.done
  <2>1. b = acc
    BY <1>5 DEF Resolve
  <2> QED BY <1>5, <2>1 DEF WalkOK
<1>6. CASE ~ acc.done /\ Var(D[i]) \notin acc.seen
  <2>1. b = acc
    BY <1>6 DEF Resolve
  <2>2. Open(acc, i) = Open(acc, i - 1)
    <3>1. \A j \in 1 .. i : j = i \/ j \in 1 .. (i - 1)
      BY <1>1
    <3>2. \A j \in 1 .. (i - 1) : j \in 1 .. i
      BY <1>1
    <3> QED BY <1>6, <3>1, <3>2 DEF Open
  <2> QED BY <1>6, <2>1, <2>2 DEF WalkOK, CountIs, Blames
<1>7. CASE ~ acc.done /\ Var(D[i]) \in acc.seen
  <2>1. /\ CountIs(acc, i) /\ acc.count >= 1
        /\ \A A : Model(A) => Blames(A, acc, i)
    BY <1>7 DEF WalkOK
  <2>2. IsFiniteSet(Open(acc, i)) /\ Cardinality(Open(acc, i)) = acc.count
    BY <1>1, <2>1, OpenFinite DEF CountIs
  <2>3. Open(acc, i) # {}
    BY <1>3, <2>1, <2>2, FS_EmptySet
  <2>4. levels[Var(D[i])] = Level
    <3>1. PICK j \in Open(acc, i) : TRUE
      BY <2>3
    <3>2. j \in 1 .. i /\ levels[Var(D[j])] = Level
      BY <3>1 DEF Open
    <3>3. CASE j = i
      BY <3>2, <3>3
    <3>4. CASE j \in 1 .. (i - 1)
      <4>1. levels[Var(D[j])] <= levels[Var(D[i])]
        BY <3>4, TrailFacts
      <4> QED BY <1>1, <1>4, <3>2, <4>1
    <3> QED BY <1>1, <3>2, <3>3, <3>4
  <2>5. i \in Open(acc, i)
    BY <1>1, <1>7, <2>4 DEF Open
  <2>6. CASE acc.count = 1
    <3>1. Open(acc, i) = {i}
      <4>1. \E x : Open(acc, i) = {x}
        BY <2>2, <2>6, FS_Singleton
      <4> QED BY <2>5, <4>1
    <3>2. b = [acc EXCEPT !.done = TRUE, !.cLits[1] = Not(D[i])]
      BY <1>7, <2>6 DEF Resolve
    <3>3. /\ b.seen = acc.seen /\ b.count = acc.count /\ b.lvls = acc.lvls /\ b.target = acc.target
          /\ b.done = TRUE /\ b.cLits = [acc.cLits EXCEPT ![1] = Not(D[i])]
          /\ b = [seen |-> b.seen, count |-> b.count, cLits |-> b.cLits, lvls |-> b.lvls,
                  target |-> b.target, done |-> b.done]
      BY <1>2, <3>2 DEF AccType
    <3>4. Not(D[i]) \in LitIndex
      BY <1>4, IndexFacts
    <3>5. /\ b.cLits \in Seq(LitIndex) /\ Len(b.cLits) = Len(acc.cLits) /\ b.cLits[1] = Not(D[i])
          /\ \A k \in 2 .. Len(acc.cLits) : b.cLits[k] = acc.cLits[k]
      BY <1>3, <3>3, <3>4
    <3>6. b \in AccType
      BY <1>3, <3>3, <3>5 DEF AccType
    <3>7. AccOK(b)
      BY <1>2, <3>3, <3>5 DEF AccOK
    <3>8. ASSUME NEW A, Model(A)
          PROVE  \E k \in 1 .. Len(b.cLits) : HoldsIn(b.cLits[k], A)
      <4>1. Blames(A, acc, i)
        BY <2>1, <3>8
      <4>2. CASE \E k \in 2 .. Len(acc.cLits) : HoldsIn(acc.cLits[k], A)
        BY <1>3, <3>5, <4>2
      <4>3. CASE \E j \in Open(acc, i) : ~ HoldsIn(D[j], A)
        <5>1. ~ HoldsIn(D[i], A)
          BY <3>1, <4>3
        <5>2. HoldsIn(b.cLits[1], A)
          BY <1>4, <3>5, <5>1, HoldsFacts
        <5>3. 1 \in 1 .. Len(b.cLits)
          BY <1>3, <3>5
        <5> QED BY <5>2, <5>3
      <4> QED BY <4>1, <4>2, <4>3 DEF Blames
    <3> QED BY <1>4, <2>4, <3>3, <3>5, <3>6, <3>7, <3>8 DEF WalkOK
  <2>7. CASE acc.count # 1
    <3> DEFINE c  == reasons[Var(D[i])]
               ms == Tail(cls[c])
               a  == [acc EXCEPT !.count = @ - 1]
    <3>1. PICK j \in Open(acc, i) : j # i
      <4>1. Open(acc, i) # {i}
        <5>1. Cardinality({i}) = 1
          BY FS_Singleton
        <5> QED BY <2>2, <2>7, <5>1
      <4> QED BY <2>5, <4>1
    <3>2. j \in 1 .. (i - 1) /\ levels[Var(D[j])] = Level
      BY <1>1, <3>1 DEF Open
    <3>3. c # CNull
      BY <1>1, <1>4, <2>4, <3>2 DEF DecisionsFirst
    <3>4. /\ c \in Clauses /\ cls[c] \in Seq(LitSet) /\ Len(cls[c]) \in Nat /\ cls[c] # <<>>
          /\ cls[c][1] = D[i] /\ Len(cls[c]) >= 1
          /\ \A k \in 2 .. Len(cls[c]) :
               cls[c][k] \in LitSet /\ \E n \in 1 .. (i - 1) : D[n] = Not(cls[c][k])
      BY <3>3, ReasonFacts
    <3>5. /\ ms \in Seq(LitSet) /\ Len(ms) = Len(cls[c]) - 1
          /\ \A k \in 1 .. Len(ms) : ms[k] = cls[c][k + 1]
      BY <3>4
    <3>6. FalseUpTo(ms, i - 1)
      <4>1. ASSUME NEW k \in 1 .. Len(ms)
            PROVE  \E n \in 1 .. (i - 1) : D[n] = Not(ms[k])
        <5>1. k + 1 \in 2 .. Len(cls[c])
          BY <3>4, <3>5
        <5> QED BY <3>4, <3>5, <5>1
      <4> QED BY <3>5, <4>1 DEF FalseUpTo
    <3>7. /\ a.seen = acc.seen /\ a.count = acc.count - 1 /\ a.cLits = acc.cLits
          /\ a.lvls = acc.lvls /\ a.target = acc.target /\ a.done = acc.done
          /\ a = [seen |-> a.seen, count |-> a.count, cLits |-> a.cLits, lvls |-> a.lvls,
                  target |-> a.target, done |-> a.done]
      BY <1>2 DEF AccType
    <3>8. a \in AccType
      <4>1. a.count \in Nat
        BY <1>3, <2>1, <3>7
      <4> QED BY <1>3, <3>7, <4>1 DEF AccType
    <3>9. AccOK(a)
      BY <1>2, <3>7 DEF AccOK
    <3>10. CountIs(a, i - 1)
      <4>1. Open(a, i - 1) = Open(acc, i) \ {i}
        <5>1. \A n \in 1 .. i : n = i \/ n \in 1 .. (i - 1)
          BY <1>1
        <5>2. \A n \in 1 .. (i - 1) : n \in 1 .. i /\ n # i
          BY <1>1
        <5> QED BY <3>7, <5>1, <5>2 DEF Open
      <4>2. Cardinality(Open(acc, i) \ {i}) = Cardinality(Open(acc, i)) - 1
        BY <2>2, <2>5, FS_RemoveElement
      <4> QED BY <2>2, <3>7, <4>1, <4>2 DEF CountIs
    <3>11. b = FoldLeft(Mark, a, ms)
      BY <1>7, <2>7 DEF Resolve
    <3> HIDE DEF a, ms, c
    <3>12. /\ b \in AccType /\ AccOK(b) /\ Extends(a, b) /\ CountIs(b, i - 1)
           /\ \A k \in 1 .. Len(ms) : Var(ms[k]) \in b.seen
      BY <1>1, <3>6, <3>8, <3>9, <3>10, <3>11, MarkAll
    <3>13. ~ b.done /\ acc.seen \subseteq b.seen /\ Len(acc.cLits) <= Len(b.cLits)
      BY <1>7, <3>7, <3>12 DEF Extends
    <3>14. b.count >= 1
      <4>1. j \in Open(b, i - 1)
        BY <3>1, <3>2, <3>13 DEF Open
      <4>2. IsFiniteSet(Open(b, i - 1)) /\ Cardinality(Open(b, i - 1)) \in Nat
        BY <1>1, OpenFinite
      <4>3. Cardinality(Open(b, i - 1)) # 0
        BY <4>1, <4>2, FS_EmptySet
      <4> QED BY <3>12, <4>2, <4>3 DEF CountIs
    <3>15. ASSUME NEW A, Model(A)
           PROVE  Blames(A, b, i - 1)
      <4>1. Blames(A, acc, i)
        BY <2>1, <3>15
      <4>2. CASE \E k \in 2 .. Len(acc.cLits) : HoldsIn(acc.cLits[k], A)
        <5>1. PICK k \in 2 .. Len(acc.cLits) : HoldsIn(acc.cLits[k], A)
          BY <4>2
        <5>2. Len(b.cLits) \in Nat
          BY <3>12 DEF AccType
        <5>3. k \in 2 .. Len(b.cLits) /\ b.cLits[k] = acc.cLits[k]
          BY <1>3, <3>7, <3>12, <3>13, <5>2 DEF Extends
        <5> QED BY <5>1, <5>3 DEF Blames
      <4>3. CASE \E n \in Open(acc, i) : n # i /\ ~ HoldsIn(D[n], A)
        <5>1. PICK n \in Open(acc, i) : n # i /\ ~ HoldsIn(D[n], A)
          BY <4>3
        <5>2. n \in 1 .. (i - 1)
          BY <1>1, <5>1 DEF Open
        <5>3. n \in Open(b, i - 1)
          BY <3>13, <5>2 DEF Open
        <5> QED BY <5>1, <5>3 DEF Blames
      <4>4. CASE ~ HoldsIn(D[i], A)
        <5>1. PICK k \in 1 .. Len(cls[c]) : HoldsIn(cls[c][k], A)
          BY <3>4, <3>15 DEF Sound
        <5>2. k \in 2 .. Len(cls[c])
          BY <3>4, <4>4, <5>1
        <5>3. k - 1 \in 1 .. Len(ms) /\ ms[k - 1] = cls[c][k]
          BY <3>4, <3>5, <5>2
        <5>4. PICK n \in 1 .. (i - 1) : D[n] = Not(cls[c][k])
          BY <3>4, <5>2
        <5>5. Var(cls[c][k]) \in b.seen /\ cls[c][k] \in LitSet
          BY <3>4, <3>12, <5>2, <5>3
        <5> QED BY <1>1, <3>12, <3>15, <5>1, <5>4, <5>5, MarkedBlamed
      <4> QED BY <4>1, <4>2, <4>3, <4>4 DEF Blames
    <3> QED BY <3>12, <3>13, <3>14, <3>15 DEF WalkOK
  <2> QED BY <2>6, <2>7
<1> QED BY <1>3, <1>5, <1>6, <1>7

(* Clause x is a conflict of the current level. *)
IsConflict(x) ==
  /\ Level > 0 /\ x \in Clauses /\ Falsified(x)
  /\ \E k \in 1 .. Len(cls[x]) : levels[Var(cls[x][k])] = Level

UipStart ==
  [seen |-> {}, count |-> 0, cLits |-> <<LitNull>>, lvls |-> lvls, target |-> 0, done |-> FALSE]

(* The walk starts with the literals of the conflict. *)
LEMMA WalkStart ==
  ASSUME TrailCore, Sound, DecisionsFirst, NEW x, IsConflict(x), lvls \subseteq Nat,
         NEW b, b = FoldLeft(Mark, UipStart, cls[x])
  PROVE  WalkOK(b, Len(D))
<1>1. /\ Len(D) \in Nat /\ Level \in Nat /\ Level > 0 /\ Len(D) \in 0 .. Len(D)
      /\ cls \in Seq(Seq(LitSet)) /\ x \in Clauses
  BY DEF TrailCore, TypeOK, IsConflict
<1>2. cls[x] \in Seq(LitSet) /\ Len(cls[x]) \in Nat
  BY <1>1 DEF Clauses
<1> DEFINE a == UipStart
<1>3. /\ a.seen = {} /\ a.count = 0 /\ a.cLits = <<LitNull>> /\ a.lvls = lvls
      /\ a.target = 0 /\ a.done = FALSE
      /\ a = [seen |-> a.seen, count |-> a.count, cLits |-> a.cLits, lvls |-> a.lvls,
              target |-> a.target, done |-> a.done]
  BY DEF UipStart
<1>4. a \in AccType
  <2>1. LitNull \in LitIndex
    BY NVarsAssumption DEF LitNull, LitIndex
  <2>2. a.cLits \in Seq(LitIndex)
    BY <1>3, <2>1
  <2>4. a.lvls \in SUBSET Nat
    BY <1>3, Zenon
  <2>3. a.seen \in SUBSET VarSet /\ a.count \in Nat /\ a.target \in Nat
    <3>1. 0 \in Nat
      OBVIOUS
    <3> QED BY <1>3, <3>1, Zenon
  <2>5. a.done \in BOOLEAN
    BY <1>3, Zenon
  <2> QED BY <1>3, <2>2, <2>3, <2>4, <2>5 DEF AccType
<1>5. AccOK(a)
  <2>1. Len(a.cLits) = 1 /\ \A k \in 2 .. Len(a.cLits) : FALSE
    BY <1>3
  <2> QED BY <1>1, <1>3, <2>1 DEF AccOK
<1>6. CountIs(a, Len(D))
  <2>1. Open(a, Len(D)) = {}
    BY <1>3 DEF Open
  <2> QED BY <1>3, <2>1, FS_EmptySet DEF CountIs
<1>7. ASSUME NEW k \in 1 .. Len(cls[x])
      PROVE  cls[x][k] \in LitSet /\ \E j \in 1 .. Len(D) : D[j] = Not(cls[x][k])
  <2>1. cls[x][k] \in LitSet /\ IsFalse(cls[x][k])
    BY <1>2 DEF IsConflict, Falsified
  <2> QED BY <2>1, FalseFacts
<1>8. FalseUpTo(cls[x], Len(D))
  BY <1>2, <1>7 DEF FalseUpTo
<1>9. b = FoldLeft(Mark, a, cls[x])
  OBVIOUS
<1> HIDE DEF a
<1>10. /\ b \in AccType /\ AccOK(b) /\ Extends(a, b) /\ CountIs(b, Len(D))
       /\ \A k \in 1 .. Len(cls[x]) : Var(cls[x][k]) \in b.seen
  BY <1>1, <1>4, <1>5, <1>6, <1>8, <1>9, MarkAll
<1>11. b.count >= 1
  <2>1. PICK k \in 1 .. Len(cls[x]) : levels[Var(cls[x][k])] = Level
    BY DEF IsConflict
  <2>2. PICK j \in 1 .. Len(D) : D[j] = Not(cls[x][k])
    BY <1>7
  <2>3. Var(D[j]) = Var(cls[x][k])
    BY <1>7, <2>2, LitFacts
  <2>4. j \in Open(b, Len(D))
    BY <1>10, <2>1, <2>3 DEF Open
  <2>5. IsFiniteSet(Open(b, Len(D))) /\ Cardinality(Open(b, Len(D))) \in Nat
    BY <1>1, OpenFinite
  <2>6. Cardinality(Open(b, Len(D))) # 0
    BY <2>4, <2>5, FS_EmptySet
  <2> QED BY <1>10, <2>5, <2>6 DEF CountIs
<1>12. ASSUME NEW A, Model(A)
       PROVE  Blames(A, b, Len(D))
  <2>1. PICK k \in 1 .. Len(cls[x]) : HoldsIn(cls[x][k], A)
    BY <1>1, <1>12 DEF Sound
  <2>2. PICK j \in 1 .. Len(D) : D[j] = Not(cls[x][k])
    BY <1>7
  <2> QED BY <1>1, <1>7, <1>10, <1>12, <2>1, <2>2, MarkedBlamed
<1>13. ~ b.done
  BY <1>3, <1>10 DEF Extends
<1> QED BY <1>10, <1>11, <1>12, <1>13 DEF WalkOK

(* The walk ends at the first unique implication point. *)
LEMMA WalkEnd ==
  ASSUME TrailCore, Sound, DecisionsFirst, NEW x, IsConflict(x), lvls \subseteq Nat,
         NEW u, u = FirstUip(x)
  PROVE  WalkOK(u, 0) /\ u.done
<1> DEFINE N  == Len(D)
           s  == FoldLeft(Mark, UipStart, cls[x])
           rv == Reverse(D)
<1>1. N \in Nat /\ Level \in Nat /\ Level > 0 /\ D \in Seq(LitSet)
  BY DEF TrailCore, TypeOK, IsConflict
<1>2. WalkOK(s, N)
  BY WalkStart
<1>3. DOMAIN rv = 1 .. N /\ \A t \in 1 .. N : rv[t] = D[N - t + 1]
  BY <1>1 DEF Reverse
<1>4. u = FoldLeft(Resolve, s, rv)
  BY DEF FirstUip, UipStart
<1>5. FoldLeft(Resolve, s, rv) = ResolveFold!Folded(s, rv)
  BY DEF ResolveFold!Folded, FoldLeft, MapThenFoldSet, Max,
         ResolveFold!FoldLeft, ResolveFold!MapThenFoldSet, ResolveFold!Max
<1> HIDE DEF s, rv, N
<1>6. PICK a : ResolveFold!IsRun(a, s, rv, N) /\ ResolveFold!Folded(s, rv) = a[N]
  BY <1>1, <1>3, ResolveFold!FoldRun
<1>7. a[0] = s /\ \A k \in 1 .. N : a[k] = Resolve(a[k - 1], rv[k])
  BY <1>6 DEF ResolveFold!IsRun
<1> DEFINE Good(k) == WalkOK(a[k], N - k)
           T == {k \in 0 .. N : Good(k)}
<1>8. Good(0)
  <2>1. N - 0 = N
    BY <1>1
  <2> QED BY <1>2, <1>7, <2>1
<1>9. ASSUME NEW k \in 0 .. (N - 1), Good(k)
      PROVE  Good(k + 1)
  <2> DEFINE i == N - k
  <2>1. k + 1 \in 1 .. N /\ (k + 1) - 1 = k /\ i \in 1 .. Len(D) /\ N - (k + 1) + 1 = i
        /\ N - (k + 1) = i - 1
    BY <1>1 DEF N
  <2>2. a[k + 1] = Resolve(a[k], D[i])
    BY <1>3, <1>7, <2>1
  <2>3. WalkOK(a[k], i)
    BY <1>9
  <2> HIDE DEF i
  <2>4. WalkOK(a[k + 1], i - 1)
    BY <1>1, <2>1, <2>2, <2>3, ResolveStep
  <2> QED BY <2>1, <2>4
<1> HIDE DEF Good
<1>10. 0 \in T /\ \A k \in 0 .. (N - 1) : k \in T => k + 1 \in T
  BY <1>1, <1>8, <1>9
<1> HIDE DEF T
<1>11. \A k \in 0 .. N : k \in T
  BY <1>1, <1>10, ResolveFold!Induct
<1>12. WalkOK(u, 0)
  <2>1. N \in T /\ N - N = 0
    BY <1>1, <1>11
  <2>2. WalkOK(a[N], N - N)
    BY <2>1 DEF T, Good
  <2> QED BY <1>4, <1>5, <1>6, <2>1, <2>2
<1>13. u.done
  <2>1. SUFFICES ASSUME ~ u.done PROVE FALSE
    OBVIOUS
  <2>2. CountIs(u, 0) /\ u.count >= 1
    BY <1>12, <2>1 DEF WalkOK
  <2>3. Open(u, 0) = {}
    BY DEF Open
  <2> QED BY <2>2, <2>3, FS_EmptySet DEF CountIs
<1> QED BY <1>12, <1>13

-----------------------------------------------------------------------------
(***************************************************************************)
(* Minimizing the clause.                                                  *)
(***************************************************************************)

(* Redundant iterates Follows. *)
FollowsIn(R, uip) == Follows(uip, R)

Follow == INSTANCE FoldProofs WITH op <- FollowsIn

(* Redundant is a set of literals which follow from the clause and one     *)
(* another.                                                                *)
LEMMA RedundantFacts ==
  ASSUME NEW uip
  PROVE  \E R \in SUBSET LitSet :
           /\ Redundant(uip) \subseteq R
           /\ \A m \in R :
                /\ reasons[Var(m)] # CNull
                /\ \A r \in ToSet(Tail(cls[reasons[Var(m)]])) :
                     r \in R \/ \E k \in 2 .. Len(uip.cLits) : Var(uip.cLits[k]) = Var(r)
<1>1. NVars \in Nat
  BY NVarsAssumption
<1> DEFINE g == CHOOSE f : Follow!Iterates(f, {}, uip, NVars)
<1>2. Follow!Iterates(g, {}, uip, NVars)
  BY <1>1, Follow!IterExists
<1>3. Redundant(uip) = g[NVars]
  BY DEF Redundant, Follow!Iterates, FollowsIn
<1> HIDE DEF g
<1> DEFINE R == UNION {g[d] : d \in 0 .. NVars}
<1>4. Follow!Steps(g, {}, uip, NVars)
  BY <1>1, <1>2, Follow!IterSteps
<1>5. ASSUME NEW m \in R
      PROVE  /\ m \in LitSet /\ reasons[Var(m)] # CNull
             /\ \A r \in ToSet(Tail(cls[reasons[Var(m)]])) :
                  r \in R \/ \E k \in 2 .. Len(uip.cLits) : Var(uip.cLits[k]) = Var(r)
  <2>1. PICK d \in 0 .. NVars : m \in g[d]
    OBVIOUS
  <2>2. d \in 1 .. NVars /\ d - 1 \in 0 .. NVars
    <3>1. g[0] = {}
      BY <1>4 DEF Follow!Steps
    <3> QED BY <1>1, <2>1, <3>1
  <2>3. m \in Follows(uip, g[d - 1])
    <3>1. g[d] = FollowsIn(g[d - 1], uip)
      BY <1>4, <2>2 DEF Follow!Steps
    <3> QED BY <2>1, <3>1 DEF FollowsIn
  <2>4. \A r \in g[d - 1] : r \in R
    BY <2>2
  <2> HIDE DEF R
  <2> QED BY <2>3, <2>4, Zenon DEF Follows
<1>6. Redundant(uip) \subseteq R
  BY <1>1, <1>3
<1>7. R \in SUBSET LitSet
  BY <1>5
<1> HIDE DEF R
<1> QED BY <1>5, <1>6, <1>7

(* A model in which the literals that are kept are false makes the ones    *)
(* that are dropped false too.                                             *)
LEMMA DroppedFalse ==
  ASSUME TrailCore, Sound, NEW u \in AccType, AccOK(u), NEW A, Model(A),
         \A k \in 2 .. Len(u.cLits) :
           u.cLits[k] \notin Redundant(u) => ~ HoldsIn(u.cLits[k], A)
  PROVE  \A k \in 2 .. Len(u.cLits) : ~ HoldsIn(u.cLits[k], A)
<1>1. PICK R \in SUBSET LitSet :
        /\ Redundant(u) \subseteq R
        /\ \A m \in R :
             /\ reasons[Var(m)] # CNull
             /\ \A r \in ToSet(Tail(cls[reasons[Var(m)]])) :
                  r \in R \/ \E k \in 2 .. Len(u.cLits) : Var(u.cLits[k]) = Var(r)
  BY RedundantFacts
<1> DEFINE InClause(m) == \E k \in 2 .. Len(u.cLits) : u.cLits[k] = m
           T == {i \in 1 .. Len(D) : HoldsIn(Not(D[i]), A) /\ (Not(D[i]) \in R \/ InClause(Not(D[i])))}
<1>2. ASSUME NEW k \in 2 .. Len(u.cLits)
      PROVE  /\ u.cLits[k] \in LitSet /\ IsFalse(u.cLits[k])
             /\ \E i \in 1 .. Len(D) : D[i] = Not(u.cLits[k])
  <2>1. u.cLits[k] \in LitSet /\ IsFalse(u.cLits[k])
    BY DEF AccOK
  <2> QED BY <2>1, FalseFacts
<1>3. T = {}
  <2> SUFFICES ASSUME T # {} PROVE FALSE
    OBVIOUS
  <2>1. T \in SUBSET Nat
    OBVIOUS
  <2>2. PICK i \in T : \A j \in T : i <= j
    BY <2>1, MarkFold!LeastNat
  <2> DEFINE m == Not(D[i])
             c == reasons[Var(m)]
  <2>3. i \in 1 .. Len(D) /\ HoldsIn(m, A) /\ (m \in R \/ InClause(m))
    BY <2>2
  <2>4. /\ Len(D) \in Nat /\ i \in Nat /\ D[i] \in LitSet /\ m \in LitSet
        /\ Var(m) = Var(D[i]) /\ ~ HoldsIn(D[i], A)
    <3>1. Len(D) \in Nat /\ i \in Nat /\ D[i] \in LitSet
      BY <2>3, TrailFacts
    <3> QED BY <2>3, <3>1, LitFacts, HoldsFacts
  <2>5. m \in R
    BY <1>1, <2>3
  <2>6. c = reasons[Var(D[i])] /\ c # CNull
    BY <1>1, <2>4, <2>5
  <2>7. /\ c \in Clauses /\ cls[c] \in Seq(LitSet) /\ Len(cls[c]) \in Nat /\ Len(cls[c]) >= 1
        /\ cls[c] # <<>> /\ cls[c][1] = D[i]
        /\ \A k \in 2 .. Len(cls[c]) :
             /\ cls[c][k] \in LitSet /\ IsFalse(cls[c][k])
             /\ \E j \in 1 .. (i - 1) : D[j] = Not(cls[c][k])
    BY <2>3, <2>6, ReasonFacts
  <2>8. PICK k \in 1 .. Len(cls[c]) : HoldsIn(cls[c][k], A)
    BY <2>7 DEF Sound
  <2>9. k \in 2 .. Len(cls[c])
    BY <2>4, <2>7, <2>8
  <2> DEFINE r == cls[c][k]
  <2>10. PICK j \in 1 .. (i - 1) : D[j] = Not(r)
    BY <2>7, <2>9
  <2>11. r \in LitSet /\ IsFalse(r) /\ Not(D[j]) = r /\ j \in 1 .. Len(D) /\ j < i
    <3>1. r \in LitSet /\ IsFalse(r)
      BY <2>7, <2>9
    <3>2. Not(D[j]) = r
      BY <2>10, <3>1, LitFacts
    <3>3. j \in 1 .. Len(D) /\ j < i
      BY <2>3, <2>4
    <3> QED BY <3>1, <3>2, <3>3
  <2>12. r \in ToSet(Tail(cls[c]))
    <3> DEFINE ms == cls[c]
    <3>1. ms \in Seq(LitSet) /\ Len(ms) \in Nat /\ Len(ms) >= 1 /\ k \in 2 .. Len(ms) /\ r = ms[k]
      BY <2>7, <2>9
    <3> HIDE DEF ms, r
    <3>2. Len(Tail(ms)) = Len(ms) - 1 /\ k - 1 \in 1 .. (Len(ms) - 1)
      BY <3>1
    <3>3. Tail(ms)[k - 1] = r
      BY <3>1, <3>2
    <3>4. r \in ToSet(Tail(ms))
      BY <3>2, <3>3 DEF ToSet
    <3> QED BY <3>4 DEF ms
  <2> HIDE DEF r
  <2>13. r \in R \/ InClause(r)
    <3>1. r \in R \/ \E n \in 2 .. Len(u.cLits) : Var(u.cLits[n]) = Var(r)
      BY <1>1, <2>5, <2>12
    <3>2. ASSUME NEW n \in 2 .. Len(u.cLits), Var(u.cLits[n]) = Var(r)
          PROVE  u.cLits[n] = r
      <4>1. u.cLits[n] \in LitSet /\ IsFalse(u.cLits[n])
        BY <1>2
      <4>2. u.cLits[n] = r \/ u.cLits[n] = Not(r)
        BY <2>11, <3>2, <4>1, SameVar
      <4>3. IsTrue(Not(r))
        BY <2>11 DEF TrailCore, TrailConsistent
      <4> QED BY <4>1, <4>2, <4>3 DEF IsTrue, IsFalse
    <3> QED BY <3>1, <3>2
  <2>14. HoldsIn(r, A)
    BY <2>8 DEF r
  <2>15. j \in T
    BY <2>11, <2>13, <2>14
  <2> QED BY <2>2, <2>4, <2>11, <2>15
<1>4. ASSUME NEW k \in 2 .. Len(u.cLits), HoldsIn(u.cLits[k], A)
      PROVE  FALSE
  <2>1. PICK i \in 1 .. Len(D) : D[i] = Not(u.cLits[k])
    BY <1>2
  <2>2. Not(D[i]) = u.cLits[k]
    BY <1>2, <2>1, LitFacts
  <2>3. i \in T
    BY <1>4, <2>2
  <2> QED BY <1>3, <2>3
<1> QED BY <1>4

-----------------------------------------------------------------------------
(***************************************************************************)
(* What Derive returns.                                                    *)
(***************************************************************************)
DerivedOK(d) ==
  /\ d.cLits \in Seq(LitSet) /\ Asserting(d.cLits)
  /\ d.target \in Nat /\ d.target < Level
  /\ \A k \in 2 .. Len(d.cLits) : levels[Var(d.cLits[k])] <= d.target
  /\ \A A : Model(A) => \E k \in 1 .. Len(d.cLits) : HoldsIn(d.cLits[k], A)
  /\ d.lvls \subseteq lvls \cup 1 .. Level

(* The literals kept from ms after the first: without repetition, and all  *)
(* that are not in R.                                                      *)
KeptOK(acc, R, ms, n) ==
  /\ acc.rdnt = R /\ acc.cLits \in Seq(LitSet) /\ Len(acc.cLits) >= 1
  /\ acc = [rdnt |-> acc.rdnt, cLits |-> acc.cLits]
  /\ \A p \in 2 .. Len(acc.cLits) : \E q \in 1 .. n : acc.cLits[p] = ms[q]
  /\ \A p, q \in 2 .. Len(acc.cLits) : Var(acc.cLits[p]) = Var(acc.cLits[q]) => p = q
  /\ \A q \in 1 .. n : ms[q] \in R \/ \E p \in 2 .. Len(acc.cLits) : acc.cLits[p] = ms[q]

(* One literal is kept or dropped. *)
LEMMA KeepStep ==
  ASSUME NEW R, NEW ms \in Seq(LitSet), \A p, q \in 1 .. Len(ms) : Var(ms[p]) = Var(ms[q]) => p = q,
         NEW n \in 0 .. (Len(ms) - 1), NEW acc, KeptOK(acc, R, ms, n),
         NEW b, b = KeepLit(acc, ms[n + 1])
  PROVE  KeptOK(b, R, ms, n + 1) /\ b.cLits[1] = acc.cLits[1]
<1> DEFINE m == ms[n + 1]
           l == Len(acc.cLits)
<1>1. /\ Len(ms) \in Nat /\ n \in Nat /\ n + 1 \in 1 .. Len(ms) /\ m \in LitSet
      /\ acc.rdnt = R /\ acc.cLits \in Seq(LitSet) /\ l \in Nat /\ l >= 1
      /\ acc = [rdnt |-> acc.rdnt, cLits |-> acc.cLits]
      /\ \A q \in 1 .. (n + 1) : q = n + 1 \/ q \in 1 .. n
      /\ \A q \in 1 .. n : q \in 1 .. (n + 1) /\ q \in 1 .. Len(ms) /\ q # n + 1
  BY DEF KeptOK
<1>2. CASE m \in R
  <2>1. b = acc
    BY <1>1, <1>2 DEF KeepLit
  <2> QED BY <1>1, <1>2, <2>1 DEF KeptOK
<1>3. CASE m \notin R
  <2>1. b = [acc EXCEPT !.cLits = Append(@, m)]
    BY <1>1, <1>3 DEF KeepLit
  <2>2. b.rdnt = R /\ b.cLits = Append(acc.cLits, m) /\ b = [rdnt |-> b.rdnt, cLits |-> b.cLits]
    BY <1>1, <2>1
  <2> HIDE DEF m
  <2>3. /\ b.cLits \in Seq(LitSet) /\ Len(b.cLits) = l + 1 /\ b.cLits[l + 1] = m
        /\ \A p \in 1 .. l : b.cLits[p] = acc.cLits[p]
    BY <1>1, <2>2
  <2> HIDE DEF l
  <2>4. (\A p \in 2 .. (l + 1) : p = l + 1 \/ p \in 2 .. l) /\ (\A p \in 2 .. l : p \in 1 .. l /\ p \in 2 .. (l + 1))
        /\ l + 1 \in 2 .. (l + 1) /\ l + 1 >= 1
    BY <1>1
  <2>5. ASSUME NEW p \in 2 .. l
        PROVE  /\ b.cLits[p] = acc.cLits[p] /\ Var(b.cLits[p]) # Var(m)
               /\ \E q \in 1 .. (n + 1) : b.cLits[p] = ms[q]
    <3>1. PICK q \in 1 .. n : acc.cLits[p] = ms[q]
      BY DEF KeptOK, l
    <3>2. b.cLits[p] = ms[q]
      BY <2>3, <2>4, <3>1
    <3> QED BY <1>1, <2>3, <2>4, <3>1, <3>2 DEF m
  <2>6. \A p \in 2 .. Len(b.cLits) : \E q \in 1 .. (n + 1) : b.cLits[p] = ms[q]
    <3>1. n + 1 \in 1 .. (n + 1)
      BY <1>1
    <3> QED BY <2>3, <2>4, <2>5, <3>1 DEF m
  <2>7. \A p, q \in 2 .. Len(b.cLits) : Var(b.cLits[p]) = Var(b.cLits[q]) => p = q
    <3>1. \A p, q \in 2 .. l : Var(b.cLits[p]) = Var(b.cLits[q]) => p = q
      BY <2>5 DEF KeptOK, l
    <3> QED BY <2>3, <2>4, <2>5, <3>1
  <2>8. \A q \in 1 .. (n + 1) : ms[q] \in R \/ \E p \in 2 .. Len(b.cLits) : b.cLits[p] = ms[q]
    <3>1. \A q \in 1 .. n : ms[q] \in R \/ \E p \in 2 .. l : b.cLits[p] = ms[q]
      BY <2>5 DEF KeptOK, l
    <3> QED BY <1>1, <2>3, <2>4, <3>1 DEF m
  <2>9. b.cLits[1] = acc.cLits[1] /\ Len(b.cLits) >= 1
    <3>1. 1 \in 1 .. l
      BY <1>1
    <3> QED BY <2>3, <2>4, <3>1
  <2> QED BY <2>2, <2>3, <2>6, <2>7, <2>8, <2>9 DEF KeptOK
<1> QED BY <1>2, <1>3

(* The literals of ms that are not in R are kept. *)
LEMMA KeepAll ==
  ASSUME NEW R, NEW ms \in Seq(LitSet), \A p, q \in 1 .. Len(ms) : Var(ms[p]) = Var(ms[q]) => p = q,
         NEW m \in LitSet, NEW b, b = FoldLeft(KeepLit, [rdnt |-> R, cLits |-> <<m>>], ms)
  PROVE  KeptOK(b, R, ms, Len(ms)) /\ b.cLits[1] = m
<1> DEFINE s == [rdnt |-> R, cLits |-> <<m>>]
           N == Len(ms)
<1>1. N \in Nat /\ DOMAIN ms = 1 .. N
  OBVIOUS
<1>2. FoldLeft(KeepLit, s, ms) = KeepFold!Folded(s, ms)
  BY DEF KeepFold!Folded, FoldLeft, MapThenFoldSet, Max,
         KeepFold!FoldLeft, KeepFold!MapThenFoldSet, KeepFold!Max
<1>3. s.rdnt = R /\ s.cLits = <<m>> /\ s = [rdnt |-> s.rdnt, cLits |-> s.cLits]
  OBVIOUS
<1>4. b = FoldLeft(KeepLit, s, ms)
  OBVIOUS
<1> HIDE DEF s, N
<1>5. PICK a : KeepFold!IsRun(a, s, ms, N) /\ KeepFold!Folded(s, ms) = a[N]
  BY <1>1, KeepFold!FoldRun
<1>6. a[0] = s /\ \A k \in 1 .. N : a[k] = KeepLit(a[k - 1], ms[k])
  BY <1>5 DEF KeepFold!IsRun
<1> DEFINE Good(k) == KeptOK(a[k], R, ms, k) /\ a[k].cLits[1] = m
           T == {k \in 0 .. N : Good(k)}
<1>7. Good(0)
  <2>1. <<m>> \in Seq(LitSet) /\ Len(<<m>>) = 1 /\ <<m>>[1] = m
    OBVIOUS
  <2>2. (\A p \in 2 .. 1 : FALSE) /\ (\A q \in 1 .. 0 : FALSE)
    OBVIOUS
  <2>3. a[0].rdnt = R /\ a[0].cLits = <<m>> /\ a[0] = [rdnt |-> a[0].rdnt, cLits |-> a[0].cLits]
    BY <1>3, <1>6
  <2>4. a[0].cLits \in Seq(LitSet) /\ Len(a[0].cLits) = 1 /\ a[0].cLits[1] = m
    BY <2>1, <2>3, Zenon
  <2> QED BY <2>2, <2>3, <2>4 DEF KeptOK
<1>8. ASSUME NEW k \in 0 .. (N - 1), Good(k)
      PROVE  Good(k + 1)
  <2>1. k + 1 \in 1 .. N /\ (k + 1) - 1 = k /\ k \in 0 .. (Len(ms) - 1)
    BY <1>1 DEF N
  <2>2. a[k + 1] = KeepLit(a[k], ms[k + 1])
    BY <1>6, <2>1
  <2>3. KeptOK(a[k + 1], R, ms, k + 1) /\ a[k + 1].cLits[1] = a[k].cLits[1]
    BY <1>8, <2>1, <2>2, KeepStep
  <2> QED BY <1>8, <2>3
<1> HIDE DEF Good
<1>9. 0 \in T /\ \A k \in 0 .. (N - 1) : k \in T => k + 1 \in T
  BY <1>1, <1>7, <1>8
<1> HIDE DEF T
<1>10. \A k \in 0 .. N : k \in T
  BY <1>1, <1>9, KeepFold!Induct
<1>11. Good(N)
  <2>1. N \in T
    BY <1>1, <1>10
  <2> QED BY <2>1 DEF T
<1> QED BY <1>2, <1>4, <1>5, <1>11 DEF Good, N

(* On a conflict above level 0 Derive returns a clause which follows from  *)
(* the added clauses alone, and all of whose literals are false, the first *)
(* at the level of the conflict and the others at most at the target       *)
(* level, which is below it.                                               *)
THEOREM DerivedClause ==
  ASSUME TrailCore, Sound, DecisionsFirst, NEW x, IsConflict(x), lvls \subseteq Nat
  PROVE  DerivedOK(Derive(x))
<1> DEFINE u  == FirstUip(x)
           R  == Redundant(u)
           ms == Tail(u.cLits)
           b  == FoldLeft(KeepLit, [rdnt |-> R, cLits |-> <<u.cLits[1]>>], ms)
           d  == Derive(x)
<1>1. /\ u \in AccType /\ AccOK(u)
      /\ u.cLits[1] \in LitSet /\ IsFalse(u.cLits[1]) /\ levels[Var(u.cLits[1])] = Level
      /\ \A A : Model(A) => \E k \in 1 .. Len(u.cLits) : HoldsIn(u.cLits[k], A)
  BY WalkEnd DEF WalkOK
<1>2. /\ d.cLits = b.cLits /\ d.target = u.target
      /\ d.lvls = u.lvls \ {levels[Var(m)] : m \in ToSet(b.cLits)}
  BY DEF Derive
<1> HIDE DEF u, d
<1>3. /\ u.cLits \in Seq(LitIndex) /\ u.target \in Nat /\ u.lvls \in SUBSET Nat /\ u.target < Level
      /\ Len(u.cLits) \in Nat /\ Len(u.cLits) >= 1 /\ u.cLits # <<>> /\ Level \in Nat
  BY <1>1 DEF AccType, AccOK, TrailCore, TypeOK
<1>4. /\ ms \in Seq(LitIndex) /\ Len(ms) = Len(u.cLits) - 1
      /\ \A k \in 1 .. Len(ms) : ms[k] = u.cLits[k + 1] /\ k + 1 \in 2 .. Len(u.cLits)
      /\ \A k \in 2 .. Len(u.cLits) : k - 1 \in 1 .. Len(ms) /\ ms[k - 1] = u.cLits[k]
  <2>1. ms \in Seq(LitIndex) /\ Len(ms) = Len(u.cLits) - 1
        /\ \A k \in 1 .. (Len(u.cLits) - 1) : ms[k] = u.cLits[k + 1]
    BY <1>3
  <2> HIDE DEF ms
  <2> QED BY <1>3, <2>1
<1> HIDE DEF ms
<1>5. ASSUME NEW k \in 1 .. Len(ms)
      PROVE  ms[k] \in LitSet /\ IsFalse(ms[k]) /\ levels[Var(ms[k])] \in 1 .. u.target
  BY <1>1, <1>4 DEF AccOK
<1>6. ms \in Seq(LitSet)
  <2>1. ms \in [1 .. Len(ms) -> LitSet] /\ Len(ms) \in Nat
    BY <1>3, <1>4, <1>5
  <2> QED BY <2>1
<1>7. \A p, q \in 1 .. Len(ms) : Var(ms[p]) = Var(ms[q]) => p = q
  <2>1. ASSUME NEW p \in 1 .. Len(ms), NEW q \in 1 .. Len(ms), Var(ms[p]) = Var(ms[q])
        PROVE  p + 1 = q + 1
    BY <1>1, <1>4, <2>1 DEF AccOK
  <2> QED BY <2>1
<1> HIDE DEF b, R
<1>8. KeptOK(b, R, ms, Len(ms)) /\ b.cLits[1] = u.cLits[1]
  <2>1. b = FoldLeft(KeepLit, [rdnt |-> R, cLits |-> <<u.cLits[1]>>], ms)
    BY DEF b
  <2> QED BY <1>1, <1>6, <1>7, <2>1, KeepAll
<1>9. b.cLits \in Seq(LitSet) /\ Len(b.cLits) \in Nat /\ Len(b.cLits) >= 1 /\ b.cLits # <<>>
  BY <1>8 DEF KeptOK
<1>10. ASSUME NEW p \in 2 .. Len(b.cLits)
       PROVE  IsFalse(b.cLits[p]) /\ levels[Var(b.cLits[p])] \in 1 .. u.target
  <2>1. PICK q \in 1 .. Len(ms) : b.cLits[p] = ms[q]
    BY <1>8 DEF KeptOK
  <2> QED BY <1>5, <2>1
<1>11. /\ \A p \in 1 .. Len(b.cLits) : p = 1 \/ p \in 2 .. Len(b.cLits)
       /\ 1 \in 1 .. Len(b.cLits)
  BY <1>9
<1>12. \A p \in 2 .. Len(b.cLits) :
         /\ levels[Var(b.cLits[p])] <= u.target /\ levels[Var(b.cLits[p])] < Level
         /\ Var(b.cLits[p]) # Var(b.cLits[1])
  BY <1>1, <1>3, <1>8, <1>10
<1>13. Asserting(b.cLits)
  <2>1. DistinctVars(b.cLits)
    <3>1. \A p, q \in 2 .. Len(b.cLits) : Var(b.cLits[p]) = Var(b.cLits[q]) => p = q
      BY <1>8 DEF KeptOK
    <3> QED BY <1>11, <1>12, <3>1 DEF DistinctVars
  <2>2. \A p \in 1 .. Len(b.cLits) : IsFalse(b.cLits[p])
    BY <1>1, <1>8, <1>10, <1>11
  <2> QED BY <1>1, <1>8, <1>9, <1>12, <2>1, <2>2 DEF Asserting
<1>14. ASSUME NEW A, Model(A)
       PROVE  \E k \in 1 .. Len(b.cLits) : HoldsIn(b.cLits[k], A)
  <2> SUFFICES ASSUME \A k \in 1 .. Len(b.cLits) : ~ HoldsIn(b.cLits[k], A)
               PROVE  FALSE
    OBVIOUS
  <2>1. ASSUME NEW k \in 2 .. Len(u.cLits), u.cLits[k] \notin R
        PROVE  ~ HoldsIn(u.cLits[k], A)
    <3>1. k - 1 \in 1 .. Len(ms) /\ ms[k - 1] = u.cLits[k]
      BY <1>4
    <3>2. PICK p \in 2 .. Len(b.cLits) : b.cLits[p] = u.cLits[k]
      BY <1>8, <2>1, <3>1 DEF KeptOK
    <3>3. p \in 1 .. Len(b.cLits)
      BY <1>9
    <3> QED BY <3>2, <3>3
  <2>2. \A k \in 2 .. Len(u.cLits) : ~ HoldsIn(u.cLits[k], A)
    <3>1. \A k \in 2 .. Len(u.cLits) :
            u.cLits[k] \notin Redundant(u) => ~ HoldsIn(u.cLits[k], A)
      BY <2>1 DEF R
    <3> QED BY <1>1, <1>14, <3>1, DroppedFalse
  <2>3. ~ HoldsIn(u.cLits[1], A)
    BY <1>8, <1>11
  <2>4. PICK k \in 1 .. Len(u.cLits) : HoldsIn(u.cLits[k], A)
    BY <1>1, <1>14
  <2>5. k = 1 \/ k \in 2 .. Len(u.cLits)
    BY <1>3
  <2> QED BY <2>2, <2>3, <2>4, <2>5
<1>15. d.lvls \subseteq lvls \cup 1 .. Level
  BY <1>1, <1>2 DEF AccOK
<1>16. DerivedOK(d)
  BY <1>2, <1>3, <1>9, <1>12, <1>13, <1>14, <1>15 DEF DerivedOK
<1> QED BY <1>16 DEF d
=============================================================================
