----------------------------- MODULE TrailProofs -----------------------------
(***************************************************************************)
(* Proofs about module Trail.                                              *)
(***************************************************************************)
EXTENDS Trail, SequenceTheorems, TLAPS

(* A literal, its negation and their variable. *)
LEMMA LitFacts ==
  ASSUME NEW m \in LitSet
  PROVE  /\ Not(m) \in LitSet /\ Not(m) # m /\ Not(Not(m)) = m
         /\ Var(m) \in VarSet /\ Var(Not(m)) = Var(m)
BY NVarsAssumption DEF LitSet, VarSet, Not, Var

(* Two literals of a variable are equal or negations of each other. *)
LEMMA SameVar ==
  ASSUME NEW m \in LitSet, NEW n \in LitSet, Var(m) = Var(n)
  PROVE  m = n \/ n = Not(m)
BY NVarsAssumption DEF LitSet, Not, Var

(* The literals and variables that are indices of the arrays. *)
LEMMA IndexFacts ==
  /\ LitSet \subseteq LitIndex /\ VarSet \subseteq VarIndex
  /\ \A v \in VarSet : Pos(v) \in LitSet /\ Var(Pos(v)) = v
BY NVarsAssumption DEF LitSet, VarSet, LitIndex, VarIndex, Pos, Var

(* Removing an element of a sequence shifts the ones behind it. *)
LEMMA RemoveAtFacts ==
  ASSUME NEW S, NEW s \in Seq(S), NEW i \in 1 .. Len(s)
  PROVE  /\ RemoveAt(s, i) \in Seq(S)
         /\ Len(RemoveAt(s, i)) = Len(s) - 1
         /\ \A k \in 1 .. (Len(s) - 1) :
              RemoveAt(s, i)[k] = IF k < i THEN s[k] ELSE s[k + 1]
<1>1. /\ SubSeq(s, 1, i - 1) \in Seq(S) /\ Len(SubSeq(s, 1, i - 1)) = i - 1
      /\ \A k \in 1 .. (i - 1) : SubSeq(s, 1, i - 1)[k] = s[k]
  OBVIOUS
<1>2. /\ SubSeq(s, i + 1, Len(s)) \in Seq(S)
      /\ Len(SubSeq(s, i + 1, Len(s))) = Len(s) - i
      /\ \A k \in 1 .. (Len(s) - i) : SubSeq(s, i + 1, Len(s))[k] = s[i + k]
  OBVIOUS
<1>3. SUFFICES ASSUME NEW a \in Seq(S), Len(a) = i - 1,
                      \A k \in 1 .. (i - 1) : a[k] = s[k],
                      NEW b \in Seq(S), Len(b) = Len(s) - i,
                      \A k \in 1 .. (Len(s) - i) : b[k] = s[i + k]
               PROVE  /\ a \o b \in Seq(S)
                      /\ Len(a \o b) = Len(s) - 1
                      /\ \A k \in 1 .. (Len(s) - 1) :
                           (a \o b)[k] = IF k < i THEN s[k] ELSE s[k + 1]
  BY <1>1, <1>2, Zenon DEF RemoveAt
<1>4. a \o b \in Seq(S) /\ Len(a \o b) = Len(a) + Len(b)
  OBVIOUS
<1>5. Len(a \o b) = Len(s) - 1
  BY <1>3, <1>4
<1>6. ASSUME NEW k \in 1 .. (Len(s) - 1), k < i
      PROVE  (a \o b)[k] = s[k]
  BY <1>6, <1>3
<1>7. ASSUME NEW k \in 1 .. (Len(s) - 1), k >= i
      PROVE  (a \o b)[k] = s[k + 1]
  <2>1. PICK j \in 1 .. Len(b) : j = k - (i - 1)
    BY <1>7, <1>3
  <2>2. (a \o b)[Len(a) + j] = b[j] /\ Len(a) + j = k /\ i + j = k + 1
    BY <1>7, <2>1, <1>3
  <2> QED BY <2>1, <2>2, <1>3
<1>8. \A k \in 1 .. (Len(s) - 1) : k < i \/ k >= i
  OBVIOUS
<1> QED BY <1>4, <1>5, <1>6, <1>7, <1>8

(* Dropping the last element of a sequence. *)
LEMMA FrontFacts ==
  ASSUME NEW S, NEW s \in Seq(S), s # <<>>
  PROVE  /\ Len(s) \in Nat /\ Len(s) >= 1
         /\ Last(s) = s[Len(s)] /\ Last(s) \in S
         /\ Front(s) \in Seq(S)
         /\ Len(Front(s)) = Len(s) - 1
         /\ \A k \in 1 .. (Len(s) - 1) : Front(s)[k] = s[k]
<1>1. PICK n \in Nat : n = Len(s) /\ n >= 1
  BY EmptySeq
<1>2. Last(s) = s[Len(s)] /\ Last(s) \in S
  BY <1>1 DEF Last
<1>3. SubSeq(s, 1, n - 1) \in Seq(S)
  BY <1>1
<1>4. Len(SubSeq(s, 1, n - 1)) = n - 1
  BY <1>1
<1>5. \A k \in 1 .. (n - 1) : SubSeq(s, 1, n - 1)[k] = s[k]
  BY <1>1
<1> QED BY <1>1, <1>2, <1>3, <1>4, <1>5, Zenon DEF Front

(* Appending an element to a sequence. *)
LEMMA AppendFacts ==
  ASSUME NEW S, NEW s \in Seq(S), NEW e \in S
  PROVE  /\ Append(s, e) \in Seq(S)
         /\ Len(Append(s, e)) = Len(s) + 1
         /\ Append(s, e)[Len(s) + 1] = e
         /\ \A k \in 1 .. Len(s) : Append(s, e)[k] = s[k]
OBVIOUS

-----------------------------------------------------------------------------
(* What Assign(m, c) does, array by array. *)
AssignEffect(m, c) ==
  /\ D' \in Seq(LitSet) /\ Len(D') = Len(D) + 1 /\ D'[Len(D) + 1] = m
  /\ \A k \in 1 .. Len(D) : D'[k] = D[k]
  /\ Level' \in Nat /\ Level' = IF c = CNull THEN Level + 1 ELSE Level
  /\ vals' \in [LitIndex -> {-1, 0, 1}]
  /\ \A n \in LitSet :
       vals'[n] = IF n = m THEN 1 ELSE IF n = Not(m) THEN -1 ELSE vals[n]
  /\ levels' \in [VarIndex -> Nat \cup {-1}]
  /\ \A v \in VarSet : levels'[v] = IF v = Var(m) THEN Level' ELSE levels[v]
  /\ reasons' \in [VarIndex -> Nat]
  /\ \A v \in VarSet : reasons'[v] = IF v = Var(m) THEN c ELSE reasons[v]

(* Assign does what AssignEffect says. *)
LEMMA AssignFacts ==
  ASSUME TypeOK, NEW m \in LitSet, NEW c \in Nat, Assign(m, c)
  PROVE  AssignEffect(m, c)
<1>1. D \in Seq(LitSet) /\ D' = Append(D, m)
  BY DEF TypeOK, Assign
<1>2. /\ D' \in Seq(LitSet) /\ Len(D') = Len(D) + 1 /\ D'[Len(D) + 1] = m
      /\ \A k \in 1 .. Len(D) : D'[k] = D[k]
  BY <1>1, AppendFacts
<1>3. Level' \in Nat /\ Level' = IF c = CNull THEN Level + 1 ELSE Level
  BY DEF TypeOK, Assign
<1>4. m \in LitIndex /\ Not(m) \in LitIndex /\ Not(m) # m /\ Var(m) \in VarIndex
  BY LitFacts, IndexFacts
<1>5. /\ vals' \in [LitIndex -> {-1, 0, 1}]
      /\ \A n \in LitSet :
           vals'[n] = IF n = m THEN 1 ELSE IF n = Not(m) THEN -1 ELSE vals[n]
  BY <1>4, IndexFacts DEF TypeOK, Assign
<1>6. /\ levels' \in [VarIndex -> Nat \cup {-1}]
      /\ \A v \in VarSet : levels'[v] = IF v = Var(m) THEN Level' ELSE levels[v]
  BY <1>3, <1>4, IndexFacts DEF TypeOK, Assign
<1>7. /\ reasons' \in [VarIndex -> Nat]
      /\ \A v \in VarSet : reasons'[v] = IF v = Var(m) THEN c ELSE reasons[v]
  BY <1>4, IndexFacts DEF TypeOK, Assign
<1> QED BY <1>2, <1>3, <1>5, <1>6, <1>7 DEF AssignEffect

(* A literal without value and its negation are not on the trail. *)
LEMMA FreeFacts ==
  ASSUME TypeOK, TrailConsistent, NEW m \in LitSet, IsFree(m)
  PROVE  /\ IsFree(Not(m))
         /\ \A n \in LitSet : ~ IsFree(n) => Var(n) # Var(m)
         /\ \A i \in 1 .. Len(D) : D[i] \in LitSet /\ Var(D[i]) # Var(m) /\ IsTrue(D[i])
<1>1. Not(m) \in LitSet /\ Not(Not(m)) = m
  BY LitFacts
<1>2. vals[m] \in {-1, 0, 1} /\ vals[Not(m)] \in {-1, 0, 1}
  BY <1>1, IndexFacts DEF TypeOK
<1>3. IsFree(Not(m))
  BY <1>1, <1>2 DEF TrailConsistent, IsFree, IsTrue, IsFalse
<1>4. ASSUME NEW n \in LitSet, Var(n) = Var(m) PROVE IsFree(n)
  BY <1>3, <1>4, SameVar DEF IsFree
<1>5. \A i \in 1 .. Len(D) : D[i] \in LitSet /\ IsTrue(D[i])
  BY DEF TypeOK, TrailConsistent
<1>6. \A i \in 1 .. Len(D) : ~ IsFree(D[i])
  BY <1>5 DEF IsTrue, IsFree
<1> QED BY <1>3, <1>4, <1>5, <1>6

(* Assigning a literal without value keeps the trail consistent. *)
LEMMA AssignConsistent ==
  ASSUME TypeOK, TrailConsistent, LevelsOK, mode # "back",
         NEW m \in LitSet, IsFree(m), NEW c \in Nat, Assign(m, c)
  PROVE  TrailConsistent'
<1>1. AssignEffect(m, c)
  BY AssignFacts
<1>2. /\ IsFree(Not(m))
      /\ \A n \in LitSet : ~ IsFree(n) => Var(n) # Var(m)
      /\ \A i \in 1 .. Len(D) : D[i] \in LitSet /\ Var(D[i]) # Var(m) /\ IsTrue(D[i])
  BY FreeFacts
<1>3. Len(D) \in Nat /\ Len(D') = Len(D) + 1
  BY <1>1 DEF TypeOK, AssignEffect
<1>4. ASSUME NEW n \in LitSet
      PROVE  IsTrue(n)' <=> \E i \in 1 .. Len(D') : D'[i] = n
  <2>1. CASE n = m
    BY <2>1, <1>1, <1>3 DEF AssignEffect, IsTrue
  <2>2. CASE n = Not(m)
    <3>1. ~ IsTrue(n)' /\ m # Not(m) /\ Var(Not(m)) = Var(m)
      BY <2>2, <1>1, LitFacts DEF AssignEffect, IsTrue
    <3> QED BY <2>2, <3>1, <1>1, <1>2, <1>3 DEF AssignEffect
  <2>3. CASE n # m /\ n # Not(m)
    <3>1. IsTrue(n)' <=> IsTrue(n)
      BY <2>3, <1>1 DEF AssignEffect, IsTrue
    <3>2. (\E i \in 1 .. Len(D) : D[i] = n) <=> \E i \in 1 .. Len(D') : D'[i] = n
      BY SMTT(40), <2>3, <1>1, <1>3 DEF AssignEffect
    <3> QED BY <3>1, <3>2 DEF TrailConsistent
  <2> QED BY <2>1, <2>2, <2>3
<1>5. ASSUME NEW n \in LitSet PROVE IsFalse(n)' <=> IsTrue(Not(n))'
  <2>1. Not(n) \in LitSet /\ Not(Not(n)) = n /\ n # Not(n) /\ Not(Not(m)) = m /\ m # Not(m)
    BY LitFacts
  <2> QED BY <2>1, <1>1 DEF AssignEffect, IsTrue, IsFalse, TrailConsistent
<1>6. ASSUME NEW i \in 1 .. Len(D'), NEW j \in 1 .. Len(D'), i < j
      PROVE  Var(D'[i]) # Var(D'[j]) /\ levels'[Var(D'[i])] <= levels'[Var(D'[j])]
  <2>1. i \in 1 .. Len(D) /\ D'[i] = D[i] /\ D[i] \in LitSet /\ Var(D[i]) # Var(m)
    BY <1>6, <1>1, <1>2, <1>3 DEF AssignEffect
  <2>2. Var(D[i]) \in VarSet /\ Var(m) \in VarSet
    BY <2>1, LitFacts
  <2>3. levels'[Var(D'[i])] = levels[Var(D[i])]
    BY <2>1, <2>2, <1>1 DEF AssignEffect
  <2>4. CASE j = Len(D) + 1
    <3>1. D'[j] = m /\ levels'[Var(D'[j])] = Level'
      BY <2>2, <2>4, <1>1 DEF AssignEffect
    <3>2. levels[Var(D[i])] \in 0 .. Level /\ Level \in Nat
      BY <2>1 DEF LevelsOK, TypeOK
    <3>3. Level <= Level' /\ Level' \in Nat
      BY <3>2, <1>1 DEF AssignEffect
    <3> QED BY <2>1, <2>3, <3>1, <3>2, <3>3
  <2>5. CASE j \in 1 .. Len(D)
    <3>1. D'[j] = D[j] /\ D[j] \in LitSet /\ Var(D[j]) # Var(m) /\ Var(D[j]) \in VarSet
      BY <2>5, <1>1, <1>2, LitFacts DEF AssignEffect
    <3>2. levels'[Var(D'[j])] = levels[Var(D[j])]
      BY <3>1, <1>1 DEF AssignEffect
    <3> QED BY <1>6, <2>1, <2>3, <2>5, <3>1, <3>2 DEF TrailConsistent
  <2> QED BY <2>4, <2>5, <1>3
<1> QED BY <1>4, <1>5, <1>6 DEF TrailConsistent

(* ... and its levels in order: a literal with a reason joins the current  *)
(* level, one without opens a level when everything is propagated.         *)
LEMMA AssignLevels ==
  ASSUME TypeOK, TrailConsistent, ModeOK, LevelsOK, mode # "back",
         NEW m \in LitSet, IsFree(m), NEW c \in Nat, Assign(m, c),
         c = CNull => head = Len(D) /\ mode = "idle",
         mode = "visit" => IsFalse(pm),
         UNCHANGED <<head, mode, pm, trg>>
  PROVE  LevelsOK'
<1>1. AssignEffect(m, c)
  BY AssignFacts
<1>2. /\ \A n \in LitSet : ~ IsFree(n) => Var(n) # Var(m)
      /\ \A i \in 1 .. Len(D) : D[i] \in LitSet /\ Var(D[i]) # Var(m) /\ IsTrue(D[i])
  BY FreeFacts
<1>3. Len(D) \in Nat /\ Len(D') = Len(D) + 1 /\ Level \in Nat /\ Level' \in Nat
      /\ (Level' = Level \/ Level' = Level + 1) /\ head \in Nat /\ head <= Len(D)
  BY <1>1 DEF TypeOK, ModeOK, AssignEffect
<1>4. \A i \in 1 .. Len(D) : D'[i] = D[i] /\ levels'[Var(D'[i])] = levels[Var(D[i])]
  BY <1>1, <1>2, LitFacts DEF AssignEffect
<1>5. D'[Len(D')] = m /\ levels'[Var(m)] = Level'
  BY <1>1, <1>3, LitFacts DEF AssignEffect
<1>6. \A i \in 1 .. Len(D') : levels'[Var(D'[i])] \in 0 .. Level'
  <2>1. ASSUME NEW i \in 1 .. Len(D) PROVE levels'[Var(D'[i])] \in 0 .. Level'
    BY <1>3, <1>4 DEF LevelsOK
  <2> QED BY <2>1, <1>3, <1>5
<1>7. ASSUME NEW k \in 1 .. TopLevel'
      PROVE  \E i \in 1 .. Len(D') : levels'[Var(D'[i])] = k
  <2>1. TopLevel' = Level' /\ TopLevel = Level
    BY DEF TopLevel
  <2>2. CASE k = Level'
    BY <2>2, <1>3, <1>5
  <2>3. CASE k # Level'
    <3>1. k \in 1 .. TopLevel
      BY <2>1, <2>3, <1>3
    <3>2. PICK i \in 1 .. Len(D) : levels[Var(D[i])] = k
      BY <3>1 DEF LevelsOK
    <3> QED BY <3>2, <1>3, <1>4
  <2> QED BY <2>2, <2>3
<1>8. ASSUME NEW i \in (head' + 1) .. Len(D')
      PROVE  levels'[Var(D'[i])] = Level'
  <2>1. CASE i = Len(D')
    BY <2>1, <1>5
  <2>2. CASE i # Len(D')
    <3>1. i \in 1 .. Len(D) /\ i \in (head + 1) .. Len(D) /\ c # CNull
      BY <2>2, <1>3
    <3>2. Level' = Level
      BY <3>1, <1>1 DEF AssignEffect
    <3> QED BY <3>1, <3>2, <1>4 DEF LevelsOK
  <2> QED BY <2>1, <2>2
<1>9. ASSUME mode' = "visit" PROVE levels'[Var(pm')] = Level'
  <2>1. c # CNull /\ pm \in LitSet /\ ~ IsFree(pm)
    BY <1>9 DEF ModeOK, IsFalse, IsFree
  <2>2. Var(pm) \in VarSet /\ Var(pm) # Var(m)
    BY <2>1, <1>2, LitFacts
  <2> QED BY <1>9, <2>1, <2>2, <1>1 DEF AssignEffect, LevelsOK
<1> QED BY <1>6, <1>7, <1>8, <1>9 DEF LevelsOK

(* ... and reasons in their place, if c is in order as the reason of m and *)
(* the reasons on the trail are not touched.                               *)
LEMMA AssignReasons ==
  ASSUME TypeOK, TrailConsistent, ReasonFirst,
         NEW m \in LitSet, IsFree(m), NEW c \in Nat, Assign(m, c),
         Len(cls') \in Nat /\ Len(cls') >= Len(cls),
         \A i \in 1 .. Len(D) : reasons[Var(D[i])] # CNull =>
           cls'[reasons[Var(D[i])]] = cls[reasons[Var(D[i])]],
         c # CNull => /\ c \in Clauses' /\ cls'[c] # <<>> /\ cls'[c][1] = m
                      /\ \A k \in 2 .. Len(cls'[c]) :
                           cls'[c][k] \in LitSet /\ IsFalse(cls'[c][k])
  PROVE  ReasonFirst'
<1>1. AssignEffect(m, c)
  BY AssignFacts
<1>2. /\ \A n \in LitSet : ~ IsFree(n) => Var(n) # Var(m)
      /\ \A i \in 1 .. Len(D) : D[i] \in LitSet /\ Var(D[i]) # Var(m) /\ IsTrue(D[i])
  BY FreeFacts
<1>3. Len(D) \in Nat /\ Len(D') = Len(D) + 1
  BY <1>1 DEF TypeOK, AssignEffect
<1>4. \A i \in 1 .. Len(D) : D'[i] = D[i] /\ reasons'[Var(D'[i])] = reasons[Var(D[i])]
  BY <1>1, <1>2, LitFacts DEF AssignEffect
<1>5. SUFFICES ASSUME NEW i \in 1 .. Len(D'), reasons'[Var(D'[i])] # CNull
               PROVE  LET r == reasons'[Var(D'[i])]
                      IN  /\ r \in Clauses' /\ cls'[r] # <<>> /\ cls'[r][1] = D'[i]
                          /\ \A k \in 2 .. Len(cls'[r]) :
                               \E j \in 1 .. (i - 1) : D'[j] = Not(cls'[r][k])
  BY DEF ReasonFirst
<1>6. CASE i \in 1 .. Len(D)
  <2>1. PICK r : r = reasons[Var(D[i])]
    OBVIOUS
  <2>2. r # CNull /\ reasons'[Var(D'[i])] = r /\ D'[i] = D[i] /\ cls'[r] = cls[r]
    BY <1>4, <1>5, <1>6, <2>1
  <2>3. /\ r \in Clauses /\ cls[r] # <<>> /\ cls[r][1] = D[i]
        /\ \A k \in 2 .. Len(cls[r]) : \E j \in 1 .. (i - 1) : D[j] = Not(cls[r][k])
    BY <1>6, <2>1, <2>2 DEF ReasonFirst
  <2>4. r \in Clauses'
    BY <2>3 DEF Clauses, TypeOK
  <2>5. ASSUME NEW k \in 2 .. Len(cls[r])
        PROVE  \E j \in 1 .. (i - 1) : D'[j] = Not(cls[r][k])
    <3>1. PICK j \in 1 .. (i - 1) : D[j] = Not(cls[r][k])
      BY <2>3
    <3>2. j \in 1 .. Len(D)
      BY <1>3, <1>6
    <3> QED BY <3>1, <3>2, <1>4
  <2> QED BY <2>2, <2>3, <2>4, <2>5
<1>7. CASE i = Len(D) + 1
  <2>1. D'[i] = m /\ reasons'[Var(D'[i])] = c /\ c # CNull
    BY <1>1, <1>5, <1>7, LitFacts DEF AssignEffect
  <2>2. ASSUME NEW k \in 2 .. Len(cls'[c])
        PROVE  \E j \in 1 .. (i - 1) : D'[j] = Not(cls'[c][k])
    <3>1. cls'[c][k] \in LitSet /\ IsFalse(cls'[c][k])
      BY <2>1
    <3>2. IsTrue(Not(cls'[c][k])) /\ Not(cls'[c][k]) \in LitSet
      BY <3>1, LitFacts DEF TrailConsistent
    <3>3. PICK j \in 1 .. Len(D) : D[j] = Not(cls'[c][k])
      BY <3>2 DEF TrailConsistent
    <3> QED BY <3>3, <1>3, <1>4, <1>7
  <2> QED BY <2>1, <2>2
<1> QED BY <1>3, <1>6, <1>7

(* ... and added units true and the unassigned variables in the heap. *)
LEMMA AssignUnitsHeap ==
  ASSUME TypeOK, TrailConsistent, UnitsHold, FreeVarsInHeap,
         NEW m \in LitSet, IsFree(m), NEW c \in Nat, Assign(m, c)
  PROVE  /\ \A d \in added : Len(cls[d]) = 1 =>
              vals'[cls[d][1]] = 1 /\ levels'[Var(cls[d][1])] = 0
         /\ \A v \in VarSet : IsFree(Pos(v))' => v \in heap /\ v # Var(m)
<1>1. AssignEffect(m, c)
  BY AssignFacts
<1>2. /\ IsFree(Not(m))
      /\ \A n \in LitSet : ~ IsFree(n) => Var(n) # Var(m)
  BY FreeFacts
<1>3. ASSUME NEW d \in added, Len(cls[d]) = 1
      PROVE  vals'[cls[d][1]] = 1 /\ levels'[Var(cls[d][1])] = 0
  <2>1. /\ IsTrue(cls[d][1]) /\ levels[Var(cls[d][1])] = 0
        /\ cls[d][1] \in LitSet
    BY <1>3 DEF UnitsHold, TypeOK, Clauses
  <2>2. SUFFICES ASSUME NEW n \in LitSet, n = cls[d][1]
                 PROVE  vals'[n] = 1 /\ levels'[Var(n)] = 0
    BY <2>1
  <2>3. vals[n] = 1 /\ levels[Var(n)] = 0 /\ Var(n) # Var(m) /\ Var(n) \in VarSet
    BY <2>1, <2>2, <1>2, LitFacts DEF IsTrue, IsFree
  <2>4. n # m /\ n # Not(m)
    BY <2>3, LitFacts
  <2> QED BY <2>3, <2>4, <1>1 DEF AssignEffect
<1>4. ASSUME NEW v \in VarSet, IsFree(Pos(v))'
      PROVE  v \in heap /\ v # Var(m)
  <2>1. Pos(v) \in LitSet /\ Var(Pos(v)) = v
    BY IndexFacts
  <2>2. vals'[Pos(v)] = 0
    BY <1>4 DEF IsFree, Pos
  <2>3. Pos(v) # m /\ Pos(v) # Not(m) /\ vals[Pos(v)] = 0
    BY <2>1, <2>2, <1>1 DEF AssignEffect
  <2>4. v # Var(m)
    BY <2>1, <2>3, SameVar
  <2> QED BY <2>3, <2>4 DEF FreeVarsInHeap, IsFree
<1> QED BY <1>3, <1>4

-----------------------------------------------------------------------------
(* A clause keeps its literals, whatever their order. *)
SameLits(c) ==
  /\ Len(cls'[c]) = Len(cls[c])
  /\ \A k \in 1 .. Len(cls[c]) : \E j \in 1 .. Len(cls[c]) : cls'[c][j] = cls[c][k]

(* Assigned variables keep their value and level. *)
KeepsAssigned ==
  \A n \in LitSet : ~ IsFree(n) => vals'[n] = vals[n] /\ levels'[Var(n)] = levels[Var(n)]

(* Assign leaves the variables that have a value alone. *)
LEMMA AssignKeeps ==
  ASSUME TypeOK, TrailConsistent, NEW m \in LitSet, IsFree(m), NEW c \in Nat, Assign(m, c)
  PROVE  KeepsAssigned
<1>1. AssignEffect(m, c) /\ \A n \in LitSet : ~ IsFree(n) => Var(n) # Var(m)
  BY AssignFacts, FreeFacts
<1>2. ASSUME NEW n \in LitSet, ~ IsFree(n)
      PROVE  vals'[n] = vals[n] /\ levels'[Var(n)] = levels[Var(n)]
  <2>1. Var(n) # Var(m) /\ Var(n) \in VarSet /\ n # m /\ n # Not(m)
    BY <1>1, <1>2, LitFacts
  <2> QED BY <2>1, <1>1 DEF AssignEffect
<1> QED BY <1>2 DEF KeepsAssigned

(* When assigned variables and the literals of c stay, a watched literal m *)
(* of c which does its duty still does after a step, if m becomes false    *)
(* only unseen, and is seen only with a true literal in c.                 *)
LEMMA CoveredKept ==
  ASSUME TypeOK, NEW c \in Clauses, NEW m \in LitSet,
         KeepsAssigned, SameLits(c), Covered(c, m),
         IsFree(m) /\ vals'[m] = -1 => Unseen(m, c)',
         IsFalse(m) /\ Unseen(m, c) => Unseen(m, c)' \/ TrueBelow(c, m)'
  PROVE  vals'[m] = -1 => Unseen(m, c)' \/ TrueBelow(c, m)'
<1>1. SUFFICES ASSUME vals'[m] = -1 PROVE Unseen(m, c)' \/ TrueBelow(c, m)'
  OBVIOUS
<1>2. CASE IsFree(m)
  BY <1>1, <1>2
<1>3. CASE ~ IsFree(m)
  <2>1. IsFalse(m) /\ levels'[Var(m)] = levels[Var(m)]
    BY <1>1, <1>3 DEF KeepsAssigned, IsFalse
  <2>2. CASE TrueBelow(c, m)
    <3>1. PICK k \in 1 .. Len(cls[c]) :
             IsTrue(cls[c][k]) /\ levels[Var(cls[c][k])] <= levels[Var(m)]
      BY <2>2 DEF TrueBelow
    <3>2. PICK n : n = cls[c][k]
      OBVIOUS
    <3>3. n \in LitSet
      BY <3>2 DEF TypeOK, Clauses
    <3>4. PICK j \in 1 .. Len(cls[c]) : cls'[c][j] = n
      BY <3>2 DEF SameLits
    <3>5. vals'[n] = 1 /\ levels'[Var(n)] = levels[Var(n)]
      BY <3>1, <3>2, <3>3 DEF KeepsAssigned, IsTrue, IsFree
    <3>6. j \in 1 .. Len(cls'[c])
      BY <3>4 DEF SameLits
    <3> QED BY <3>1, <3>2, <3>4, <3>5, <3>6, <2>1 DEF TrueBelow, IsTrue
  <2>3. CASE Unseen(m, c)
    BY <2>1, <2>3
  <2> QED BY <2>1, <2>2, <2>3 DEF Covered
<1> QED BY <1>2, <1>3

(* The watches match the clauses as long as neither changes. *)
LEMMA WatchesMatchFrame ==
  ASSUME WatchesMatch, UNCHANGED <<watches, cls>>
  PROVE  WatchesMatch'
<1>1. (\A m \in LitSet : \A i \in 1 .. Len(watches[m]) : WatchOK(m, watches[m][i]))'
  <2>1. ASSUME NEW m \in LitSet, NEW i \in 1 .. Len(watches[m])
        PROVE  WatchOK(m, watches[m][i])'
    <3>1. WatchOK(m, watches[m][i])
      BY DEF WatchesMatch
    <3> QED BY <3>1 DEF WatchOK, Clauses, Watched
  <2> QED BY <2>1
<1>2. \A m \in LitSet : WatchesOnce(m)'
  BY DEF WatchesMatch, WatchesOnce
<1>3. \A c \in Clauses' : Len(cls'[c]) >= 2 => \A m \in Watched(c)' : Watches(m, c)'
  BY DEF WatchesMatch, Watches, Watched, Clauses
<1> QED BY <1>1, <1>2, <1>3 DEF WatchesMatch

(* Outside the loops and without conflict, a literal may be assigned if it *)
(* opens a level when everything is propagated, or is implied.             *)
LEMMA IdleAssign ==
  ASSUME TrailInv, mode = "idle", px = CNull,
         NEW m \in LitSet, IsFree(m), NEW c \in Nat, Assign(m, c),
         c = CNull => head = Len(D),
         c # CNull => /\ c \in Clauses /\ cls[c] # <<>> /\ cls[c][1] = m
                      /\ \A k \in 2 .. Len(cls[c]) : IsFalse(cls[c][k]),
         heap' \subseteq heap,
         \A v \in heap \ heap' : v = Var(m) \/ ~ IsFree(Pos(v)),
         UNCHANGED <<head, clauseVars, loopVars>>
  PROVE  TrailInv'
<1> USE DEF TrailInv, TrailCore
<1>1. AssignEffect(m, c) /\ KeepsAssigned
  BY AssignFacts, AssignKeeps
<1>2. UNCHANGED <<head, watches, cls, added, bot, mode, pm, pi, px, trg>>
  BY DEF clauseVars, loopVars
<1>3. TypeOK'
  BY <1>1, <1>2 DEF TypeOK, AssignEffect, Clauses
<1>4. ModeOK' /\ ConflictLast'
  BY <1>1, <1>2 DEF TypeOK, ModeOK, ConflictLast, AssignEffect
<1>5. LevelsOK'
  BY <1>2, AssignLevels
<1>6. ClausesOK'
  BY <1>2 DEF ClausesOK, Clauses
<1>7. TrailConsistent'
  BY AssignConsistent
<1>8. ReasonFirst'
  <2>1. Len(cls') \in Nat /\ Len(cls') >= Len(cls)
    BY <1>2 DEF TypeOK
  <2>2. c # CNull => /\ c \in Clauses' /\ cls'[c] # <<>> /\ cls'[c][1] = m
                     /\ \A k \in 2 .. Len(cls'[c]) :
                          cls'[c][k] \in LitSet /\ IsFalse(cls'[c][k])
    BY SMTT(40), <1>2 DEF TypeOK, Clauses
  <2> QED BY <1>2, <2>1, <2>2, AssignReasons
<1>9. UnitsHold'
  BY <1>2, AssignUnitsHeap DEF UnitsHold, IsTrue
<1>10. WatchesMatch'
  BY <1>2, WatchesMatchFrame
<1>11. WatchesCover'
  <2>1. ASSUME NEW d \in Clauses, NEW n \in LitSet, Covered(d, n)
        PROVE  Covered(d, n)'
    <3>1. SameLits(d)
      BY <1>2 DEF SameLits
    <3>2. ASSUME IsFree(n), vals'[n] = -1 PROVE Unseen(n, d)'
      <4>1. m = Not(n)
        BY <3>2, <1>1, LitFacts DEF AssignEffect, IsFree
      <4>2. Len(D') \in (head' + 1) .. Len(D') /\ D'[Len(D')] = Not(n)
        BY <4>1, <1>1, <1>2 DEF AssignEffect, TypeOK, ModeOK
      <4> QED BY <4>2, <1>2 DEF Unseen
    <3>3. ASSUME IsFalse(n), Unseen(n, d) PROVE Unseen(n, d)'
      <4>1. PICK i \in (head + 1) .. Len(D) : D[i] = Not(n)
        BY <3>3 DEF Unseen
      <4>2. i \in (head' + 1) .. Len(D') /\ D'[i] = Not(n)
        BY <4>1, <1>1, <1>2 DEF AssignEffect, TypeOK
      <4> QED BY <4>2, <1>2 DEF Unseen
    <3>4. vals'[n] = -1 => Unseen(n, d)' \/ TrueBelow(d, n)'
      BY <2>1, <3>1, <3>2, <3>3, <1>1, CoveredKept
    <3> QED BY <3>4 DEF Covered, IsFalse
  <2>2. \A d \in Clauses : Len(cls[d]) >= 2 => cls[d][1] \in LitSet /\ cls[d][2] \in LitSet
    BY DEF TypeOK, Clauses
  <2>3. Clauses' = Clauses /\ cls' = cls /\ added' = added /\ added \subseteq Clauses
    BY <1>2 DEF Clauses, TypeOK
  <2> QED BY <2>1, <2>2, <2>3 DEF WatchesCover
<1>12. ConflictFalsified'
  BY <1>2 DEF ConflictFalsified
<1>13. FreeVarsInHeap'
  <2>1. ASSUME NEW v \in VarSet, IsFree(Pos(v))' PROVE v \in heap'
    <3>1. v \in heap /\ v # Var(m)
      BY <2>1, AssignUnitsHeap
    <3>2. Pos(v) \in LitSet /\ vals'[Pos(v)] = 0
      BY <2>1, IndexFacts DEF IsFree, Pos
    <3>3. IsFree(Pos(v))
      BY <3>2, <1>1 DEF KeepsAssigned, IsFree
    <3> QED BY <3>1, <3>3
  <2> QED BY <2>1 DEF FreeVarsInHeap
<1> QED BY <1>3, <1>4, <1>5, <1>6, <1>7, <1>8, <1>9, <1>10, <1>11, <1>12, <1>13

-----------------------------------------------------------------------------
(* A true literal is of an open level. *)
LEMMA TrueLevel ==
  ASSUME TypeOK, TrailConsistent, LevelsOK, NEW n \in LitSet, IsTrue(n)
  PROVE  levels[Var(n)] \in 0 .. Level
BY DEF TrailConsistent, LevelsOK

(* What Prop keeps.  The watches go on doing their duty if there was no    *)
(* conflict when it began.                                                 *)
CoreKept == TrailCore' /\ ConflictLast' /\ (WatchesCover /\ px = CNull => WatchesCover')

(* What is known of the watch which Prop looks at. *)
LEMMA VisitFacts ==
  ASSUME TrailCore, Visiting
  PROVE  /\ mode = "visit" /\ px = CNull
         /\ pm \in LitSet /\ IsFalse(pm) /\ levels[Var(pm)] = Level
         /\ head \in Nat /\ Len(D) \in Nat /\ head <= Len(D)
         /\ pi \in 1 .. Len(watches[pm]) /\ watches[pm] \in Seq(Watch)
         /\ TheWatch \in Watch /\ TheWatch = watches[pm][pi]
         /\ WatchOK(pm, TheWatch) /\ WatchesOnce(pm)
         /\ TheWatch.c \in Clauses /\ cls[TheWatch.c] \in Seq(LitSet)
         /\ Len(cls[TheWatch.c]) >= 2
         /\ pm = cls[TheWatch.c][1] \/ pm = cls[TheWatch.c][2]
<1> USE DEF TrailCore
<1>1. mode = "visit" /\ px = CNull /\ pm \in LitSet /\ levels[Var(pm)] = Level
  BY DEF Visiting, ModeOK, LevelsOK
<1>2. /\ head \in Nat /\ Len(D) \in Nat /\ head <= Len(D)
      /\ head \in 1 .. Len(D) /\ D[head] = Not(pm)
  BY <1>1 DEF ModeOK, TypeOK
<1>3. IsFalse(pm)
  BY <1>1, <1>2, LitFacts DEF TrailConsistent
<1>4. pi \in 1 .. Len(watches[pm]) /\ watches[pm] \in Seq(Watch)
  BY <1>1, IndexFacts DEF TypeOK, Visiting, ModeOK
<1>5. TheWatch \in Watch /\ TheWatch = watches[pm][pi]
  BY <1>4 DEF TheWatch
<1>6. WatchOK(pm, TheWatch) /\ WatchesOnce(pm)
  BY <1>1, <1>4, <1>5 DEF WatchesMatch
<1>7. /\ TheWatch.c \in Clauses /\ Len(cls[TheWatch.c]) >= 2
      /\ pm = cls[TheWatch.c][1] \/ pm = cls[TheWatch.c][2]
  BY <1>6 DEF WatchOK, Watched
<1>8. cls[TheWatch.c] \in Seq(LitSet)
  BY <1>7 DEF Clauses, TypeOK
<1> QED BY <1>1, <1>2, <1>3, <1>4, <1>5, <1>6, <1>7, <1>8

(* The watch may be kept if the clause is true by then. *)
LEMMA VisitCover ==
  ASSUME TrailCore, Visiting, KeepsAssigned,
         NEW d \in Clauses, NEW n \in LitSet, SameLits(d), Covered(d, n),
         NEW q, q = TheWatch.c, NEW p, p = pm, TrueBelow(q, p)', pi' = pi + 1,
         UNCHANGED <<head, watches, mode, pm, px>>,
         Len(D') \in Nat, Len(D') >= Len(D), \A i \in 1 .. Len(D) : D'[i] = D[i],
         IsFree(n) /\ vals'[n] = -1 => \E i \in (head + 1) .. Len(D') : D'[i] = Not(n)
  PROVE  Covered(d, n)'
<1> USE DEF TrailCore
<1>1. /\ mode = "visit" /\ px = CNull /\ WatchesOnce(pm)
      /\ head \in Nat /\ Len(D) \in Nat /\ pi \in 1 .. Len(watches[pm])
      /\ Len(watches[pm]) \in Nat /\ TheWatch = watches[pm][pi]
  BY VisitFacts
<1>2. ASSUME IsFree(n), vals'[n] = -1 PROVE Unseen(n, d)'
  BY <1>1, <1>2 DEF Unseen
<1>3. ASSUME IsFalse(n), Unseen(n, d) PROVE Unseen(n, d)' \/ TrueBelow(d, n)'
  <2>1. CASE \E i \in (head + 1) .. Len(D) : D[i] = Not(n)
    <3>1. PICK i \in (head + 1) .. Len(D) : D[i] = Not(n)
      BY <2>1
    <3>2. i \in (head' + 1) .. Len(D') /\ D'[i] = Not(n)
      BY <3>1, <1>1
    <3> QED BY <3>2, <1>1 DEF Unseen
  <2>2. CASE pm = n /\ \E i \in pi .. Len(watches[n]) : watches[n][i].c = d
    <3>1. PICK i \in pi .. Len(watches[n]) : watches[n][i].c = d
      BY <2>2
    <3>2. CASE i = pi
      <4>1. d = q /\ n = p
        BY <2>2, <3>1, <3>2, <1>1
      <4> QED BY <4>1
    <3>3. CASE i # pi
      <4>1. i \in pi' .. Len(watches'[n])
        BY <2>2, <3>1, <3>3, <1>1
      <4> QED BY <2>2, <3>1, <4>1, <1>1 DEF Unseen
    <3> QED BY <3>2, <3>3
  <2> QED BY <1>1, <1>3, <2>1, <2>2 DEF Unseen
<1>4. vals'[n] = -1 => Unseen(n, d)' \/ TrueBelow(d, n)'
  BY <1>2, <1>3, CoveredKept
<1> QED BY <1>4 DEF Covered, IsFalse

(* A step which leaves the assignment and the clauses alone, and with them *)
(* most of the invariant.                                                  *)
LEMMA AssignmentFrame ==
  ASSUME TrailCore, UNCHANGED <<assignVars, cls, added, heap>>
  PROVE  /\ ClausesOK' /\ TrailConsistent' /\ ReasonFirst' /\ UnitsHold' /\ FreeVarsInHeap'
         /\ KeepsAssigned /\ \A c \in Clauses : SameLits(c)
<1> USE DEF TrailCore, assignVars
<1>1. ClausesOK'
  BY DEF ClausesOK, Clauses
<1>2. TrailConsistent'
  BY DEF TrailConsistent, IsTrue, IsFalse
<1>3. ReasonFirst'
  BY DEF ReasonFirst, Clauses
<1>4. UnitsHold'
  BY DEF UnitsHold, IsTrue
<1>5. FreeVarsInHeap'
  BY DEF FreeVarsInHeap, IsFree
<1>6. KeepsAssigned /\ \A c \in Clauses : SameLits(c)
  BY DEF KeepsAssigned, SameLits
<1> QED BY <1>1, <1>2, <1>3, <1>4, <1>5, <1>6

(* VisitBlocked and VisitSatisfied: the clause has a true literal. *)
LEMMA VisitTrue ==
  ASSUME TrailCore, Visiting, KeepWatch,
         \E k \in 1 .. Len(cls[TheWatch.c]) : IsTrue(cls[TheWatch.c][k]),
         UNCHANGED <<assignVars, cls, added, bot, heap, trg>>
  PROVE  CoreKept
<1> USE DEF TrailCore
<1>1. /\ mode = "visit" /\ px = CNull /\ pm \in LitSet
      /\ levels[Var(pm)] = Level /\ TheWatch.c \in Clauses
      /\ cls[TheWatch.c] \in Seq(LitSet) /\ pi \in 1 .. Len(watches[pm])
  BY VisitFacts
<1>2. /\ UNCHANGED <<D, Level, vals, levels, reasons, head, watches, mode, pm, px>>
      /\ UNCHANGED <<cls, added, bot, heap, trg>>
      /\ pi \in Nat /\ pi' = pi + 1
  BY DEF KeepWatch, assignVars, TypeOK
<1>3. TypeOK'
  <2>1. pi' \in Nat
    BY <1>2
  <2> QED BY <2>1, <1>2 DEF TypeOK, Clauses
<1>4. ModeOK' /\ LevelsOK'
  BY SMTT(40), <1>1, <1>2 DEF ModeOK, LevelsOK, TopLevel, TypeOK
<1>5. /\ ClausesOK' /\ TrailConsistent' /\ ReasonFirst' /\ UnitsHold' /\ FreeVarsInHeap'
      /\ KeepsAssigned /\ \A c \in Clauses : SameLits(c)
  BY AssignmentFrame
<1>6. WatchesMatch'
  BY <1>2, WatchesMatchFrame
<1>7. ASSUME WatchesCover PROVE WatchesCover'
  <2>1. PICK q, p : q = TheWatch.c /\ p = pm
    OBVIOUS
  <2>2. PICK k \in 1 .. Len(cls[q]) : IsTrue(cls[q][k])
    BY <2>1
  <2>3. levels[Var(cls[q][k])] <= levels[Var(p)]
    BY SMTT(40), <2>1, <2>2, <1>1, TrueLevel DEF TypeOK
  <2>4. TrueBelow(q, p)'
    BY <2>2, <2>3, <1>2 DEF TrueBelow, IsTrue
  <2>5. Len(D') \in Nat /\ Len(D') >= Len(D) /\ \A i \in 1 .. Len(D) : D'[i] = D[i]
    BY <1>2 DEF TypeOK
  <2>6. ASSUME NEW d \in Clauses, NEW n \in LitSet, Covered(d, n)
        PROVE  Covered(d, n)'
    <3>1. ~ (IsFree(n) /\ vals'[n] = -1)
      BY <1>2 DEF IsFree
    <3> QED BY <2>1, <2>4, <2>5, <2>6, <3>1, <1>2, <1>5, VisitCover
  <2>7. \A d \in Clauses : Len(cls[d]) >= 2 => cls[d][1] \in LitSet /\ cls[d][2] \in LitSet
    BY SMTT(40) DEF TypeOK, Clauses
  <2>8. Clauses' = Clauses /\ cls' = cls /\ added' = added /\ added \subseteq Clauses
    BY DEF Clauses, TypeOK
  <2> QED BY <1>7, <2>6, <2>7, <2>8 DEF WatchesCover
<1>8. ConflictFalsified'
  BY <1>1, <1>2 DEF ConflictFalsified
<1>9. ConflictLast'
  BY <1>1, <1>2 DEF ConflictLast
<1> QED BY <1>3, <1>4, <1>5, <1>6, <1>7, <1>8, <1>9 DEF CoreKept

-----------------------------------------------------------------------------
(* Exchanging the i-th and the j-th literal of clause q; with i = j the    *)
(* clauses do not change.                                                  *)
SwapEffect(q, i, j) ==
  /\ cls' \in Seq(Seq(LitSet)) /\ Len(cls') = Len(cls)
  /\ \A c \in Clauses : c # q => cls'[c] = cls[c]
  /\ Len(cls'[q]) = Len(cls[q])
  /\ cls'[q][i] = cls[q][j] /\ cls'[q][j] = cls[q][i]
  /\ \A k \in 1 .. Len(cls[q]) : k # i /\ k # j => cls'[q][k] = cls[q][k]

(* Prop's exchange of two literals of a clause is a swap ... *)
LEMMA SwapFacts ==
  ASSUME TypeOK, NEW q \in Clauses, NEW i \in 1 .. Len(cls[q]), NEW j \in 1 .. Len(cls[q]),
         i # j, cls' = [cls EXCEPT ![q][i] = cls[q][j], ![q][j] = cls[q][i]]
  PROVE  SwapEffect(q, i, j)
<1>1. cls \in Seq(Seq(LitSet)) /\ q \in 1 .. Len(cls) /\ cls[q] \in Seq(LitSet)
  BY DEF TypeOK, Clauses
<1>2. cls[q][i] \in LitSet /\ cls[q][j] \in LitSet
  BY <1>1
<1>3. PICK r : r = [cls[q] EXCEPT ![i] = cls[q][j], ![j] = cls[q][i]]
  OBVIOUS
<1>4. /\ r \in Seq(LitSet) /\ Len(r) = Len(cls[q])
      /\ r[i] = cls[q][j] /\ r[j] = cls[q][i]
      /\ \A k \in 1 .. Len(cls[q]) : k # i /\ k # j => r[k] = cls[q][k]
  BY <1>1, <1>2, <1>3
<1>5. cls' = [cls EXCEPT ![q] = r]
  BY <1>1, <1>3
<1>6. /\ cls' \in Seq(Seq(LitSet)) /\ Len(cls') = Len(cls) /\ cls'[q] = r
      /\ \A c \in 1 .. Len(cls) : c # q => cls'[c] = cls[c]
  BY <1>1, <1>4, <1>5
<1> QED BY <1>4, <1>6 DEF SwapEffect, Clauses

(* ... and so is leaving the clause as it is. *)
LEMMA NoSwapFacts ==
  ASSUME TypeOK, NEW q \in Clauses, NEW i \in 1 .. Len(cls[q]), UNCHANGED cls
  PROVE  SwapEffect(q, i, i)
BY DEF SwapEffect, TypeOK

(* An exchange keeps the clauses the same as sets, without a variable      *)
(* twice, and leaves units and, if q is not the reason of its first        *)
(* literal, reasons alone.                                                 *)
LEMMA SwapKeeps ==
  ASSUME TrailCore, NEW q \in Clauses, NEW i \in 1 .. Len(cls[q]), NEW j \in 1 .. Len(cls[q]),
         SwapEffect(q, i, j), Len(cls[q]) >= 2
  PROVE  /\ Clauses' = Clauses /\ ClausesOK' /\ \A c \in Clauses : SameLits(c)
         /\ \A c \in Clauses : Len(cls[c]) = 1 => cls'[c] = cls[c]
         /\ ~ IsTrue(cls[q][1]) =>
              \A k \in 1 .. Len(D) : reasons[Var(D[k])] # CNull =>
                cls'[reasons[Var(D[k])]] = cls[reasons[Var(D[k])]]
<1> USE DEF TrailCore
<1>1. Clauses' = Clauses
  BY DEF SwapEffect, Clauses
<1>2. \A c \in Clauses : SameLits(c)
  BY DEF SwapEffect, SameLits
<1>3. ClausesOK'
  <2>1. ASSUME NEW c \in Clauses, NEW k \in 1 .. Len(cls[c]), NEW l \in 1 .. Len(cls[c]),
               Var(cls'[c][k]) = Var(cls'[c][l])
        PROVE  k = l
    <3>1. CASE c # q
      BY <2>1, <3>1 DEF SwapEffect, ClausesOK, DistinctVars
    <3>2. CASE c = q
      <4>1. PICK kk \in 1 .. Len(cls[q]) :
              /\ cls'[q][k] = cls[q][kk]
              /\ kk = IF k = i THEN j ELSE IF k = j THEN i ELSE k
        BY <3>2 DEF SwapEffect
      <4>2. PICK ll \in 1 .. Len(cls[q]) :
              /\ cls'[q][l] = cls[q][ll]
              /\ ll = IF l = i THEN j ELSE IF l = j THEN i ELSE l
        BY <3>2 DEF SwapEffect
      <4>3. kk = ll
        BY <2>1, <3>2, <4>1, <4>2 DEF ClausesOK, DistinctVars
      <4> QED BY <4>1, <4>2, <4>3
    <3> QED BY <3>1, <3>2
  <2>2. \A c \in Clauses : Len(cls'[c]) = Len(cls[c])
    BY DEF SwapEffect
  <2> QED BY <1>1, <2>1, <2>2 DEF ClausesOK, DistinctVars
<1>4. ASSUME NEW c \in Clauses, Len(cls[c]) = 1 PROVE cls'[c] = cls[c]
  <2>1. c # q
    <3>1. ~ (1 >= 2)
      OBVIOUS
    <3> QED BY Zenon, <1>4, <3>1
  <2> QED BY <2>1 DEF SwapEffect
<1>5. ASSUME ~ IsTrue(cls[q][1]),
             NEW k \in 1 .. Len(D), reasons[Var(D[k])] # CNull
      PROVE  cls'[reasons[Var(D[k])]] = cls[reasons[Var(D[k])]]
  <2>1. /\ reasons[Var(D[k])] \in Clauses /\ cls[reasons[Var(D[k])]][1] = D[k]
        /\ IsTrue(D[k])
    BY SMTT(40), <1>5 DEF ReasonFirst, TrailConsistent, TypeOK
  <2>2. reasons[Var(D[k])] # q
    BY <1>5, <2>1
  <2> QED BY <2>1, <2>2 DEF SwapEffect
<1> QED BY <1>1, <1>2, <1>3, <1>4, <1>5

(* Exchanging the two watched literals leaves the watch lists right. *)
LEMMA SwapWatches ==
  ASSUME TrailCore, NEW q \in Clauses, Len(cls[q]) >= 2, NEW j \in {1, 2},
         SwapEffect(q, 1, j), UNCHANGED watches
  PROVE  WatchesMatch' /\ \A c \in Clauses : Watched(c)' = Watched(c)
<1> USE DEF TrailCore
<1>1. Len(cls[q]) \in Nat /\ 1 \in 1 .. Len(cls[q]) /\ j \in 1 .. Len(cls[q])
  BY DEF TypeOK, Clauses
<1>2. Clauses' = Clauses /\ \A c \in Clauses : SameLits(c)
  BY <1>1, SwapKeeps
<1>3. ASSUME NEW c \in Clauses PROVE Watched(c)' = Watched(c)
  <2>1. CASE c # q
    BY <2>1 DEF SwapEffect, Watched
  <2>2. CASE c = q /\ j = 1
    BY <1>1, <2>2 DEF SwapEffect, Watched
  <2>3. CASE c = q /\ j = 2
    BY <1>1, <2>3 DEF SwapEffect, Watched
  <2> QED BY <2>1, <2>2, <2>3
<1>4. ASSUME NEW m \in LitSet, NEW i \in 1 .. Len(watches[m])
      PROVE  WatchOK(m, watches[m][i])'
  <2>1. PICK w \in Watch : w = watches[m][i]
    BY IndexFacts DEF TypeOK
  <2>2. WatchOK(m, w)
    BY <2>1 DEF WatchesMatch
  <2>3. /\ w.c \in Clauses /\ Len(cls[w.c]) >= 2 /\ m \in Watched(w.c) /\ w.o # m
        /\ \E k \in 1 .. Len(cls[w.c]) : cls[w.c][k] = w.o
    BY <2>2 DEF WatchOK
  <2>4. w.c \in Clauses' /\ Len(cls'[w.c]) = Len(cls[w.c]) /\ m \in Watched(w.c)'
    BY <2>3, <1>2, <1>3 DEF SameLits
  <2>5. \E k \in 1 .. Len(cls'[w.c]) : cls'[w.c][k] = w.o
    <3>1. PICK k \in 1 .. Len(cls[w.c]) : cls[w.c][k] = w.o
      BY <2>3
    <3>2. PICK l \in 1 .. Len(cls[w.c]) : cls'[w.c][l] = cls[w.c][k]
      BY <2>3, <1>2 DEF SameLits
    <3> QED BY <2>4, <3>1, <3>2
  <2>6. WatchOK(m, w)'
    BY <2>2, <2>3, <2>4, <2>5 DEF WatchOK
  <2> QED BY <2>1, <2>6
<1>5. \A m \in LitSet : WatchesOnce(m)'
  BY DEF WatchesMatch, WatchesOnce
<1>6. \A c \in Clauses' : Len(cls'[c]) >= 2 => \A m \in Watched(c)' : Watches(m, c)'
  BY SMTT(40), <1>2, <1>3 DEF WatchesMatch, Watches, SameLits
<1>7. (\A m \in LitSet : \A i \in 1 .. Len(watches[m]) : WatchOK(m, watches[m][i]))'
  BY <1>4
<1> QED BY <1>3, <1>5, <1>6, <1>7 DEF WatchesMatch

(* The literals of a set of clauses. *)
LEMMA ClauseLits ==
  ASSUME NEW s \in Seq(Seq(LitSet)), NEW c \in 1 .. Len(s)
  PROVE  /\ s[c] \in Seq(LitSet) /\ Len(s[c]) \in Nat
         /\ \A k \in 1 .. Len(s[c]) : s[c][k] \in LitSet
         /\ Len(s[c]) >= 1 => s[c] # <<>>
         /\ Len(s[c]) >= 2 => s[c][1] \in LitSet /\ s[c][2] \in LitSet
OBVIOUS

(* If watched literals go on doing their duty, it does not matter which of *)
(* the two is first.                                                       *)
LEMMA SwapCover ==
  ASSUME TrailCore, WatchesCover, NEW q \in Clauses, NEW j \in {1, 2}, SwapEffect(q, 1, j),
         \A c \in Clauses : Watched(c)' = Watched(c),
         \A d \in Clauses, m \in LitSet : Covered(d, m) => Covered(d, m)',
         UNCHANGED added
  PROVE  WatchesCover'
<1> USE DEF TrailCore
<1>1. /\ cls \in Seq(Seq(LitSet)) /\ cls' \in Seq(Seq(LitSet)) /\ Clauses' = Clauses
      /\ \A c \in Clauses : Len(cls'[c]) = Len(cls[c])
  BY DEF SwapEffect, TypeOK, Clauses
<1>2. ASSUME NEW d \in Clauses, Len(cls'[d]) >= 2
      PROVE  /\ (Covered(d, cls[d][1]) \/ Covered(d, cls[d][2]))'
             /\ d \in added' => (Covered(d, cls[d][1]) /\ Covered(d, cls[d][2]))'
  <2>1. PICK x, y : x = cls'[d][1] /\ y = cls'[d][2]
    OBVIOUS
  <2>2. Len(cls[d]) >= 2 /\ x \in LitSet /\ y \in LitSet
    <3>1. d \in 1 .. Len(cls')
      BY <1>1 DEF Clauses
    <3> QED BY <1>1, <1>2, <2>1, <3>1, ClauseLits
  <2>3. {x, y} = {cls[d][1], cls[d][2]}
    BY <2>1 DEF Watched
  <2>4. /\ Covered(d, x) \/ Covered(d, y)
        /\ d \in added => Covered(d, x) /\ Covered(d, y)
    BY ZenonT(40), <2>2, <2>3 DEF WatchesCover
  <2>5. /\ Covered(d, x)' \/ Covered(d, y)'
        /\ d \in added' => Covered(d, x)' /\ Covered(d, y)'
    BY <2>2, <2>4
  <2> QED BY <2>1, <2>5
<1> QED BY <1>1, <1>2 DEF WatchesCover

(* VisitBinary and VisitLast: the clause implies n, its first literal by   *)
(* then.                                                                   *)
LEMMA VisitImplied ==
  ASSUME TrailCore, Visiting, KeepWatch,
         NEW q, q = TheWatch.c, NEW j \in {1, 2}, SwapEffect(q, 1, j),
         ~ IsTrue(cls[q][1]), NEW n \in LitSet, IsFree(n), cls'[q][1] = n,
         \A k \in 2 .. Len(cls'[q]) : IsFalse(cls'[q][k]),
         Assign(n, q), UNCHANGED <<added, bot, heap, trg>>
  PROVE  CoreKept
<1> USE DEF TrailCore
<1>1. /\ mode = "visit" /\ px = CNull /\ pm \in LitSet /\ IsFalse(pm)
      /\ levels[Var(pm)] = Level /\ q \in Clauses /\ Len(cls[q]) >= 2
      /\ head \in Nat /\ Len(D) \in Nat /\ head <= Len(D)
  BY VisitFacts
<1>2. /\ UNCHANGED <<head, watches, mode, pm, px, added, bot, heap, trg>>
      /\ pi \in Nat /\ pi' = pi + 1
  BY DEF KeepWatch, TypeOK
<1>3. q \in Nat /\ q # CNull /\ Len(cls[q]) \in Nat /\ 1 \in 1 .. Len(cls[q]) /\ j \in 1 .. Len(cls[q])
  BY <1>1 DEF Clauses, CNull, TypeOK
<1>4. AssignEffect(n, q) /\ KeepsAssigned
  BY <1>3, AssignFacts, AssignKeeps
<1>5. /\ Clauses' = Clauses /\ ClausesOK' /\ \A c \in Clauses : SameLits(c)
      /\ \A c \in Clauses : Len(cls[c]) = 1 => cls'[c] = cls[c]
      /\ \A k \in 1 .. Len(D) : reasons[Var(D[k])] # CNull =>
           cls'[reasons[Var(D[k])]] = cls[reasons[Var(D[k])]]
  BY <1>1, <1>3, SwapKeeps
<1>6. WatchesMatch' /\ \A c \in Clauses : Watched(c)' = Watched(c)
  BY <1>1, <1>2, SwapWatches
<1>7. TypeOK'
  <2>1. pi' \in Nat /\ cls' \in Seq(Seq(LitSet)) /\ added' \subseteq Clauses'
    BY <1>2, <1>5 DEF SwapEffect, TypeOK
  <2> QED BY <2>1, <1>2, <1>4, <1>5 DEF TypeOK, AssignEffect
<1>8. ModeOK'
  BY <1>1, <1>2, <1>4 DEF ModeOK, AssignEffect
<1>9. LevelsOK'
  BY <1>1, <1>2, <1>3, AssignLevels
<1>10. TrailConsistent'
  BY <1>1, <1>3, AssignConsistent
<1>11. ReasonFirst'
  <2>1. Len(cls') \in Nat /\ Len(cls') >= Len(cls)
    BY DEF SwapEffect, TypeOK
  <2>2. cls' \in Seq(Seq(LitSet)) /\ q \in 1 .. Len(cls') /\ Len(cls'[q]) >= 2
    BY <1>1 DEF SwapEffect, Clauses
  <2>3. /\ q \in Clauses' /\ cls'[q] # <<>>
        /\ \A k \in 2 .. Len(cls'[q]) : cls'[q][k] \in LitSet /\ IsFalse(cls'[q][k])
    BY SMTT(40), <2>2, ClauseLits, <1>1, <1>5
  <2> QED BY <2>1, <2>3, <1>3, <1>5, AssignReasons
<1>12. UnitsHold'
  <2>1. ASSUME NEW d \in added', Len(cls'[d]) = 1
        PROVE  vals'[cls'[d][1]] = 1 /\ levels'[Var(cls'[d][1])] = 0
    <3>1. d \in added /\ d \in Clauses
      BY <2>1, <1>2 DEF TypeOK
    <3>2. Len(cls[d]) = 1 /\ cls'[d] = cls[d]
      BY <2>1, <3>1, <1>5 DEF SameLits
    <3> QED BY <3>1, <3>2, <1>3, AssignUnitsHeap
  <2> QED BY <2>1 DEF UnitsHold, IsTrue
<1>13. FreeVarsInHeap'
  BY <1>2, <1>3, AssignUnitsHeap DEF FreeVarsInHeap
<1>14. ConflictFalsified'
  BY <1>1, <1>2 DEF ConflictFalsified
<1>15. ASSUME WatchesCover PROVE WatchesCover'
  <2>1. PICK p : p = pm
    OBVIOUS
  <2>2. TrueBelow(q, p)'
    <3>1. levels'[Var(n)] = Level /\ levels'[Var(p)] = Level /\ Level \in Nat
      BY <2>1, <1>1, <1>3, <1>4, LitFacts DEF AssignEffect, KeepsAssigned, IsFalse, IsFree, TypeOK
    <3>2. 1 \in 1 .. Len(cls'[q]) /\ vals'[cls'[q][1]] = 1
      BY <1>1, <1>3, <1>4, <1>5 DEF SameLits, AssignEffect
    <3> QED BY <3>1, <3>2 DEF TrueBelow, IsTrue
  <2>3. Len(D') \in Nat /\ Len(D') >= Len(D) /\ \A i \in 1 .. Len(D) : D'[i] = D[i]
    BY SMTT(40), <1>4 DEF AssignEffect, TypeOK
  <2>4. ASSUME NEW d \in Clauses, NEW m \in LitSet, Covered(d, m)
        PROVE  Covered(d, m)'
    <3>1. ASSUME IsFree(m), vals'[m] = -1
          PROVE  \E i \in (head + 1) .. Len(D') : D'[i] = Not(m)
      <4>0. m = Not(n)
        BY <3>1, <1>4 DEF AssignEffect, IsFree
      <4>1. n = Not(m)
        BY <4>0, LitFacts
      <4>2. Len(D) + 1 \in (head + 1) .. Len(D') /\ D'[Len(D) + 1] = n
        BY <1>1, <1>4 DEF AssignEffect
      <4> QED BY <4>1, <4>2
    <3> QED BY <2>1, <2>2, <2>3, <2>4, <3>1, <1>2, <1>4, <1>5, VisitCover
  <2> QED BY <2>4, <1>1, <1>2, <1>6, <1>15, SwapCover
<1>16. ConflictLast'
  BY <1>1, <1>2 DEF ConflictLast
<1> QED BY <1>5, <1>6, <1>7, <1>8, <1>9, <1>10, <1>11, <1>12, <1>13, <1>14, <1>15, <1>16
        DEF CoreKept

(* VisitBinary and VisitLast: the clause is a conflict.  Every literal not *)
(* propagated is of the conflict's level.                                  *)
LEMMA VisitFalse ==
  ASSUME TrailCore, Visiting, NEW q, q = TheWatch.c, ReturnConflict(q),
         NEW j \in {1, 2}, SwapEffect(q, 1, j), ~ IsTrue(cls[q][1]),
         \A k \in 1 .. Len(cls'[q]) : IsFalse(cls'[q][k]),
         UNCHANGED <<added, bot, heap, trg>>
  PROVE  CoreKept
<1> USE DEF TrailCore
<1>1. /\ mode = "visit" /\ px = CNull /\ pm \in LitSet /\ IsFalse(pm)
      /\ levels[Var(pm)] = Level /\ q \in Clauses /\ Len(cls[q]) >= 2
      /\ head \in Nat /\ Len(D) \in Nat /\ head <= Len(D)
      /\ pm = cls[q][1] \/ pm = cls[q][2]
  BY VisitFacts
<1>2. /\ UNCHANGED <<D, Level, vals, levels, reasons, watches, added, bot, heap, trg>>
      /\ px' = q /\ head' = Len(D) /\ mode' = "idle" /\ pm' = LitNull /\ pi' = 0
  BY DEF ReturnConflict, assignVars
<1>3. Len(cls[q]) \in Nat /\ 1 \in 1 .. Len(cls[q]) /\ 2 \in 1 .. Len(cls[q]) /\ j \in 1 .. Len(cls[q])
  BY SMTT(40), <1>1 DEF Clauses, TypeOK
<1>4. /\ Clauses' = Clauses /\ ClausesOK' /\ \A c \in Clauses : SameLits(c)
      /\ \A c \in Clauses : Len(cls[c]) = 1 => cls'[c] = cls[c]
      /\ \A k \in 1 .. Len(D) : reasons[Var(D[k])] # CNull =>
           cls'[reasons[Var(D[k])]] = cls[reasons[Var(D[k])]]
  BY <1>1, <1>3, SwapKeeps
<1>5. WatchesMatch' /\ \A c \in Clauses : Watched(c)' = Watched(c)
  BY <1>1, <1>2, SwapWatches
<1>6. TypeOK'
  <2>1. cls' \in Seq(Seq(LitSet)) /\ added' \subseteq Clauses' /\ px' \in Clauses' /\ head' \in Nat
    BY <1>1, <1>2, <1>4 DEF SwapEffect, TypeOK
  <2> QED BY <2>1, <1>2, <1>4 DEF TypeOK
<1>7. ModeOK' /\ LevelsOK' /\ TrailConsistent' /\ FreeVarsInHeap'
  <2>1. ModeOK'
    BY <1>1, <1>2 DEF ModeOK
  <2>2. LevelsOK'
    <3>1. TopLevel' = TopLevel
      BY <1>1, <1>2 DEF TopLevel
    <3> QED BY SMTT(40), <1>1, <1>2, <3>1 DEF LevelsOK
  <2>3. TrailConsistent' /\ FreeVarsInHeap'
    BY <1>2 DEF TrailConsistent, FreeVarsInHeap, IsTrue, IsFalse, IsFree
  <2> QED BY <2>1, <2>2, <2>3
<1>8. ReasonFirst'
  <2>1. SUFFICES ASSUME NEW i \in 1 .. Len(D), reasons[Var(D[i])] # CNull
                 PROVE  LET r == reasons[Var(D[i])]
                        IN  /\ r \in Clauses' /\ cls'[r] # <<>> /\ cls'[r][1] = D[i]
                            /\ \A k \in 2 .. Len(cls'[r]) :
                                 \E l \in 1 .. (i - 1) : D[l] = Not(cls'[r][k])
    BY <1>2 DEF ReasonFirst
  <2>2. cls'[reasons[Var(D[i])]] = cls[reasons[Var(D[i])]]
    BY <2>1, <1>4
  <2> QED BY <2>1, <2>2, <1>4 DEF ReasonFirst
<1>9. UnitsHold'
  <2>1. ASSUME NEW d \in added', Len(cls'[d]) = 1
        PROVE  vals'[cls'[d][1]] = 1 /\ levels'[Var(cls'[d][1])] = 0
    <3>1. d \in added /\ d \in Clauses
      BY <2>1, <1>2 DEF TypeOK
    <3>2. Len(cls[d]) = 1 /\ cls'[d] = cls[d]
      BY <2>1, <3>1, <1>4 DEF SameLits
    <3> QED BY <3>1, <3>2, <1>2 DEF UnitsHold, IsTrue
  <2> QED BY <2>1 DEF UnitsHold, IsTrue
<1>10. ConflictFalsified'
  <2>1. \A k \in 1 .. Len(cls'[q]) : vals'[cls'[q][k]] = -1
    BY <1>2 DEF IsFalse
  <2>2. \E k \in 1 .. Len(cls'[q]) : cls'[q][k] = pm
    <3>1. PICK k \in 1 .. Len(cls[q]) : cls[q][k] = pm
      BY <1>1, <1>3
    <3>2. PICK l \in 1 .. Len(cls[q]) : cls'[q][l] = cls[q][k]
      BY <1>1, <1>4 DEF SameLits
    <3> QED BY <3>1, <3>2, <1>1, <1>4 DEF SameLits
  <2>3. \E k \in 1 .. Len(cls'[q]) : levels'[Var(cls'[q][k])] = Level'
    BY <2>2, <1>1, <1>2
  <2> QED BY <2>1, <2>3, <1>2 DEF ConflictFalsified, Falsified, IsFalse
<1>11. ASSUME WatchesCover PROVE WatchesCover'
  <2>1. KeepsAssigned
    BY <1>2 DEF KeepsAssigned
  <2>2. ASSUME NEW d \in Clauses, NEW m \in LitSet, Covered(d, m)
        PROVE  Covered(d, m)'
    <3>1. ~ (IsFree(m) /\ vals'[m] = -1)
      BY <1>2 DEF IsFree
    <3>2. ASSUME IsFalse(m), Unseen(m, d) PROVE Unseen(m, d)'
      <4>1. CASE \E i \in (head + 1) .. Len(D) : D[i] = Not(m)
        <5>1. PICK i \in (head + 1) .. Len(D) : D[i] = Not(m)
          BY <4>1
        <5>2. levels[Var(m)] = Level
          BY <5>1, <1>1, LitFacts DEF LevelsOK
        <5> QED BY <5>2, <1>1, <1>2 DEF Unseen, Clauses, CNull
      <4>2. CASE pm = m
        BY <4>2, <1>1, <1>2 DEF Unseen, Clauses, CNull
      <4> QED BY <3>2, <4>1, <4>2, <1>1 DEF Unseen
    <3>3. vals'[m] = -1 => Unseen(m, d)' \/ TrueBelow(d, m)'
      BY <2>1, <2>2, <3>1, <3>2, <1>4, CoveredKept
    <3> QED BY <3>3 DEF Covered, IsFalse
  <2> QED BY <2>2, <1>1, <1>2, <1>5, <1>11, SwapCover
<1>12. ConflictLast'
  BY <1>2 DEF ConflictLast
<1> QED BY <1>4, <1>5, <1>6, <1>7, <1>8, <1>9, <1>10, <1>11, <1>12 DEF CoreKept

-----------------------------------------------------------------------------
(* What VisitRewatch does: pm, the k-th literal of clause q, changes       *)
(* places with n, the p-th, and the watch moves from the list of pm to     *)
(* that of n.                                                              *)
Rewatched(q, k, p, n) ==
  /\ q \in Clauses /\ q = watches[pm][pi].c /\ Len(cls[q]) \in Nat
  /\ k \in {1, 2} /\ cls[q][k] = pm /\ p \in 3 .. Len(cls[q])
  /\ n \in LitSet /\ n = cls[q][p] /\ ~ IsFalse(n) /\ ~ IsTrue(cls[q][1])
  /\ n # cls[q][1] /\ n # cls[q][2] /\ n # pm /\ cls[q][1] # cls[q][2]
  /\ SwapEffect(q, k, p)
  /\ watches' \in [LitIndex -> Seq(Watch)]
  /\ watches'[pm] = RemoveAt(watches[pm], pi)
  /\ watches'[n] = Append(watches[n], MakeWatch(q, pm, FALSE))
  /\ \A m \in LitSet : m # pm /\ m # n => watches'[m] = watches[m]

(* A step that finds a new watch does what Rewatched says. *)
LEMMA RewatchFacts ==
  ASSUME TrailCore, VisitRewatch
  PROVE  \E q, k, p, n : Rewatched(q, k, p, n)
<1> USE DEF TrailCore
<1>1. Visiting /\ ~ IsTrue(OtherWatched(TheWatch.c))
  BY DEF VisitRewatch, VisitingLong
<1>2. /\ pm \in LitSet /\ IsFalse(pm) /\ pi \in 1 .. Len(watches[pm])
      /\ watches[pm] \in Seq(Watch) /\ TheWatch = watches[pm][pi]
      /\ TheWatch.c \in Clauses /\ Len(cls[TheWatch.c]) >= 2
      /\ cls[TheWatch.c] \in Seq(LitSet)
      /\ pm = cls[TheWatch.c][1] \/ pm = cls[TheWatch.c][2]
  BY <1>1, VisitFacts
<1>3. PICK q : q = TheWatch.c
  OBVIOUS
<1>4. PICK k \in {1, 2} : k = IF cls[q][1] = pm THEN 1 ELSE 2
  OBVIOUS
<1>5. PICK p \in 3 .. Len(cls[q]) :
        /\ FirstNonFalse(q, p)
        /\ cls' = [cls EXCEPT ![q][k] = cls[q][p], ![q][p] = pm]
        /\ watches' = [watches EXCEPT ![pm] = RemoveAt(@, pi),
                                      ![cls[q][p]] = Append(@, MakeWatch(q, pm, FALSE))]
  BY <1>3, <1>4, Zenon DEF VisitRewatch
<1>6. PICK n : n = cls[q][p]
  OBVIOUS
<1>7. /\ q \in Clauses /\ q = watches[pm][pi].c /\ Len(cls[q]) \in Nat /\ q \in Nat
      /\ cls[q][k] = pm /\ n \in LitSet /\ ~ IsFalse(n)
      /\ 1 \in 1 .. Len(cls[q]) /\ 2 \in 1 .. Len(cls[q]) /\ p \in 1 .. Len(cls[q])
      /\ p # 1 /\ p # 2
  <2>1. /\ q \in Clauses /\ q = watches[pm][pi].c /\ q \in Nat /\ cls[q] \in Seq(LitSet)
        /\ Len(cls[q]) \in Nat /\ Len(cls[q]) >= 2
    BY SMTT(40), <1>2, <1>3 DEF Clauses, TypeOK
  <2>2. cls[q][k] = pm
    BY <1>2, <1>3, <1>4
  <2>3. ~ IsFalse(cls[q][p])
    BY <1>5 DEF FirstNonFalse
  <2>4. /\ 1 \in 1 .. Len(cls[q]) /\ 2 \in 1 .. Len(cls[q]) /\ p \in 1 .. Len(cls[q])
        /\ p # 1 /\ p # 2
    BY <2>1
  <2>5. n \in LitSet
    BY <1>6, <2>1, <2>4
  <2> QED BY <1>6, <2>1, <2>2, <2>3, <2>4, <2>5
<1>8. n # cls[q][1] /\ n # cls[q][2] /\ n # pm /\ cls[q][1] # cls[q][2]
  BY SMTT(40), <1>4, <1>6, <1>7 DEF ClausesOK, DistinctVars
<1>9. ~ IsTrue(cls[q][1])
  BY <1>1, <1>2, <1>3 DEF OtherWatched, IsTrue, IsFalse
<1>10. SwapEffect(q, k, p)
  <2>1. cls' = [cls EXCEPT ![q][k] = cls[q][p], ![q][p] = cls[q][k]]
    BY <1>5, <1>7
  <2>2. k \in 1 .. Len(cls[q]) /\ k # p
    BY <1>7
  <2> QED BY <2>1, <2>2, <1>7, SwapFacts
<1>11. PICK w \in Watch : w = MakeWatch(q, pm, FALSE)
  BY <1>2, <1>7 DEF MakeWatch, Watch
<1>12. watches' = [watches EXCEPT ![pm] = RemoveAt(@, pi), ![n] = Append(@, w)]
  BY <1>5, <1>6, <1>11
<1>13. /\ pm \in LitIndex /\ n \in LitIndex /\ watches \in [LitIndex -> Seq(Watch)]
       /\ RemoveAt(watches[pm], pi) \in Seq(Watch) /\ Append(watches[n], w) \in Seq(Watch)
  BY <1>2, <1>7, IndexFacts, RemoveAtFacts DEF TypeOK
<1>14. /\ watches' \in [LitIndex -> Seq(Watch)]
       /\ watches'[pm] = RemoveAt(watches[pm], pi)
       /\ watches'[n] = Append(watches[n], w)
       /\ \A m \in LitIndex : m # pm /\ m # n => watches'[m] = watches[m]
  BY <1>8, <1>12, <1>13
<1>15. Rewatched(q, k, p, n)
  BY Zenon, <1>5, <1>6, <1>7, <1>8, <1>9, <1>10, <1>11, <1>14, IndexFacts DEF Rewatched
<1> QED BY <1>15

(* After it the watch lists are right ... *)
LEMMA RewatchMatch ==
  ASSUME TrailCore, Visiting, NEW q, NEW k, NEW p, NEW n, Rewatched(q, k, p, n)
  PROVE  WatchesMatch'
<1> USE DEF TrailCore
<1>1. /\ pm \in LitSet /\ pi \in 1 .. Len(watches[pm]) /\ watches[pm] \in Seq(Watch)
      /\ Len(watches[pm]) \in Nat /\ WatchesOnce(pm)
  BY SMTT(40), VisitFacts
<1>2. /\ q \in Clauses /\ q = watches[pm][pi].c /\ Len(cls[q]) \in Nat
      /\ k \in {1, 2} /\ cls[q][k] = pm /\ p \in 3 .. Len(cls[q])
      /\ n \in LitSet /\ n = cls[q][p] /\ n # cls[q][1] /\ n # cls[q][2] /\ n # pm
      /\ cls[q][1] # cls[q][2]
  BY Zenon DEF Rewatched
<1>3. /\ k \in 1 .. Len(cls[q]) /\ p \in 1 .. Len(cls[q]) /\ k # p /\ Len(cls[q]) >= 2
      /\ Len(cls[q]) # 2 /\ p # 1 /\ p # 2 /\ 1 \in 1 .. Len(cls[q]) /\ 2 \in 1 .. Len(cls[q])
  BY SMTT(40), <1>2
<1>4. /\ Clauses' = Clauses /\ \A c \in Clauses : SameLits(c)
      /\ \A c \in Clauses : c # q => cls'[c] = cls[c]
  BY ZenonT(40), <1>2, <1>3, SwapKeeps DEF Rewatched, SwapEffect
<1>5. /\ cls'[q][k] = n /\ cls'[q][p] = pm
      /\ \A l \in {1, 2} : l # k => cls'[q][l] = cls[q][l]
  BY Zenon, <1>2, <1>3 DEF Rewatched, SwapEffect
<1>6. /\ Len(watches'[pm]) = Len(watches[pm]) - 1
      /\ \A i \in 1 .. (Len(watches[pm]) - 1) :
           watches'[pm][i] = IF i < pi THEN watches[pm][i] ELSE watches[pm][i + 1]
  <2>1. watches'[pm] = RemoveAt(watches[pm], pi)
    BY Zenon DEF Rewatched
  <2> QED BY Zenon, <2>1, <1>1, RemoveAtFacts
<1>7. PICK w \in Watch : w = MakeWatch(q, pm, FALSE) /\ w.c = q /\ w.o = pm /\ w.bin = FALSE
  <2>1. PICK w : w = [c |-> q, o |-> pm, bin |-> FALSE]
    OBVIOUS
  <2>2. w \in Watch /\ w.c = q /\ w.o = pm /\ w.bin = FALSE
    BY SMTT(40), <1>1, <1>2, <2>1 DEF Watch, Clauses, TypeOK
  <2> QED BY <2>1, <2>2 DEF MakeWatch
<1>8. /\ watches[n] \in Seq(Watch) /\ Len(watches[n]) \in Nat
      /\ Len(watches'[n]) = Len(watches[n]) + 1
      /\ watches'[n][Len(watches[n]) + 1] = w
      /\ \A i \in 1 .. Len(watches[n]) : watches'[n][i] = watches[n][i]
  <2>1. watches[n] \in Seq(Watch) /\ watches'[n] = Append(watches[n], w)
    BY ZenonT(40), <1>2, <1>7, IndexFacts DEF TypeOK, Rewatched
  <2> QED BY <2>1, AppendFacts
<1>9. ASSUME NEW i \in 1 .. Len(watches[n]) PROVE watches[n][i].c # q
  <2>1. PICK x \in Watch : x = watches[n][i]
    BY SMTT(40), <1>8
  <2>2. WatchOK(n, x)
    BY <1>2, <2>1 DEF WatchesMatch
  <2>3. n \in Watched(x.c)
    BY <2>2 DEF WatchOK
  <2> QED BY Zenon, <1>2, <2>1, <2>3 DEF Watched
<1>10. \A i \in 1 .. (Len(watches[pm]) - 1) :
         \E l \in 1 .. Len(watches[pm]) :
           /\ l # pi /\ watches'[pm][i] = watches[pm][l] /\ l = IF i < pi THEN i ELSE i + 1
  BY SMTT(40), <1>1, <1>6
<1>11. \A m \in LitSet : m # pm /\ m # n => watches'[m] = watches[m]
  BY Zenon DEF Rewatched
\* a watch of a clause that did not change, or of q in another list
<1>12. ASSUME NEW m \in LitSet, NEW l \in 1 .. Len(watches[m]),
              m # pm \/ watches[m][l].c # q
       PROVE  WatchOK(m, watches[m][l]) /\ \A x : x = watches[m][l] => WatchOK(m, x)'
  <2>1. PICK x \in Watch : x = watches[m][l]
    BY IndexFacts DEF TypeOK
  <2>2. WatchOK(m, x)
    BY <2>1 DEF WatchesMatch
  <2>3. /\ x.c \in Clauses /\ Len(cls[x.c]) >= 2 /\ m \in Watched(x.c) /\ x.o # m
        /\ \E i \in 1 .. Len(cls[x.c]) : cls[x.c][i] = x.o
    BY <2>2 DEF WatchOK
  <2>4. x.c \in Clauses' /\ Len(cls'[x.c]) = Len(cls[x.c])
    BY <2>3, <1>4 DEF SameLits
  <2>5. \E i \in 1 .. Len(cls'[x.c]) : cls'[x.c][i] = x.o
    <3>1. PICK i \in 1 .. Len(cls[x.c]) : cls[x.c][i] = x.o
      BY <2>3
    <3>2. PICK j \in 1 .. Len(cls[x.c]) : cls'[x.c][j] = cls[x.c][i]
      BY <2>3, <1>4 DEF SameLits
    <3> QED BY <2>4, <3>1, <3>2
  <2>6. m \in Watched(x.c)'
    <3>1. CASE x.c # q
      BY <2>3, <3>1, <1>4 DEF Watched
    <3>2. CASE x.c = q
      <4>1. PICK j \in {1, 2} : m = cls[q][j]
        BY Zenon, <2>3, <3>2 DEF Watched
      <4>2. j # k
        BY <1>2, <1>12, <2>1, <3>2, <4>1
      <4> QED BY <3>2, <4>1, <4>2, <1>5 DEF Watched
    <3> QED BY <3>1, <3>2
  <2>7. WatchOK(m, x)'
    BY <2>2, <2>3, <2>4, <2>5, <2>6 DEF WatchOK
  <2> QED BY <2>1, <2>2, <2>7
<1>13. ASSUME NEW m \in LitSet, NEW i \in 1 .. Len(watches'[m])
       PROVE  \A x : x = watches'[m][i] => WatchOK(m, x)'
  <2>1. CASE m = pm
    <3>1. PICK l \in 1 .. Len(watches[pm]) : l # pi /\ watches'[pm][i] = watches[pm][l]
      BY <2>1, <1>6, <1>10
    <3>2. watches[pm][l].c # q
      BY <3>1, <1>1, <1>2 DEF WatchesOnce
    <3> QED BY <2>1, <3>1, <3>2, <1>12
  <2>2. CASE m = n /\ i \in 1 .. Len(watches[n])
    BY Zenon, <2>2, <1>8, <1>9, <1>12
  <2>3. CASE m = n /\ i = Len(watches[n]) + 1
    <3>1. /\ q \in Clauses' /\ Len(cls'[q]) = Len(cls[q]) /\ n \in Watched(q)'
          /\ p \in 1 .. Len(cls'[q]) /\ cls'[q][p] = pm
      BY Zenon, <1>2, <1>3, <1>4, <1>5 DEF SameLits, Watched
    <3>2. WatchOK(n, w)'
      BY Zenon, <3>1, <1>2, <1>3, <1>7 DEF WatchOK
    <3> QED BY <2>3, <3>2, <1>8
  <2>4. CASE m # pm /\ m # n
    BY <2>4, <1>11, <1>12
  <2> QED BY <2>1, <2>2, <2>3, <2>4, <1>8
<1>14. ASSUME NEW m \in LitSet, NEW i \in 1 .. Len(watches'[m]), NEW j \in 1 .. Len(watches'[m]),
              watches'[m][i].c = watches'[m][j].c
       PROVE  i = j
  <2>1. WatchesOnce(m)
    BY DEF WatchesMatch
  <2>2. CASE m = pm
    <3>1. PICK ii \in 1 .. Len(watches[pm]) :
            watches'[pm][i] = watches[pm][ii] /\ ii = IF i < pi THEN i ELSE i + 1
      BY <2>2, <1>6, <1>10
    <3>2. PICK jj \in 1 .. Len(watches[pm]) :
            watches'[pm][j] = watches[pm][jj] /\ jj = IF j < pi THEN j ELSE j + 1
      BY <2>2, <1>6, <1>10
    <3>3. ii = jj
      BY <1>14, <2>1, <2>2, <3>1, <3>2 DEF WatchesOnce
    <3> QED BY <2>2, <3>1, <3>2, <3>3, <1>1, <1>6
  <2>3. CASE m = n
    <3>1. CASE i \in 1 .. Len(watches[n]) /\ j \in 1 .. Len(watches[n])
      BY <1>14, <2>1, <2>3, <3>1, <1>8 DEF WatchesOnce
    <3>2. CASE i = Len(watches[n]) + 1 /\ j \in 1 .. Len(watches[n])
      BY <1>14, <2>3, <3>2, <1>7, <1>8, <1>9
    <3>3. CASE j = Len(watches[n]) + 1 /\ i \in 1 .. Len(watches[n])
      BY <1>14, <2>3, <3>3, <1>7, <1>8, <1>9
    <3> QED BY <2>3, <3>1, <3>2, <3>3, <1>8
  <2>4. CASE m # pm /\ m # n
    BY <1>14, <2>1, <2>4, <1>11 DEF WatchesOnce
  <2> QED BY <2>2, <2>3, <2>4
<1>15. ASSUME NEW c \in Clauses', Len(cls'[c]) >= 2, NEW m \in Watched(c)'
       PROVE  \E i \in 1 .. Len(watches'[m]) : watches'[m][i].c = c
  <2>1. c \in Clauses /\ Len(cls[c]) >= 2
    BY <1>4, <1>15 DEF SameLits
  <2>2. CASE c = q /\ m = n
    <3>1. Len(watches[n]) + 1 \in 1 .. Len(watches'[n])
      BY <1>8
    <3>2. watches'[n][Len(watches[n]) + 1].c = q
      BY <1>7, <1>8
    <3> QED BY <2>2, <3>1, <3>2
  <2>3. CASE c = q /\ m # n
    <3>1. PICK j \in {1, 2} : j # k /\ m = cls[q][j]
      BY Zenon, <1>5, <1>15, <2>3 DEF Watched
    <3>2. m # pm /\ m \in Watched(q) /\ m \in LitSet
      <4>1. \A l \in 1 .. Len(cls[q]) : cls[q][l] \in LitSet
        BY <1>2, ClauseLits DEF TypeOK, Clauses
      <4> QED BY <3>1, <4>1, <1>2, <1>3 DEF Watched
    <3> QED BY <2>1, <2>3, <3>2, <1>11 DEF WatchesMatch, Watches
  <2>4. CASE c # q
    <3>1. m \in Watched(c) /\ m \in LitSet
      BY <1>4, <1>15, <2>1, <2>4 DEF Watched, TypeOK, Clauses
    <3>2. PICK i \in 1 .. Len(watches[m]) : watches[m][i].c = c
      BY <2>1, <3>1 DEF WatchesMatch, Watches
    <3>3. CASE m = pm
      <4>1. i # pi
        BY <1>2, <2>4, <3>2, <3>3
      <4>2. PICK j : j = IF i < pi THEN i ELSE i - 1
        OBVIOUS
      <4>3. j \in 1 .. (Len(watches[pm]) - 1) /\ (IF j < pi THEN j ELSE j + 1) = i
        BY <1>1, <3>2, <3>3, <4>1, <4>2
      <4> QED BY <3>2, <3>3, <4>3, <1>6
    <3>4. CASE m = n
      BY SMTT(40), <3>2, <3>4, <1>8
    <3>5. CASE m # pm /\ m # n
      BY <3>1, <3>2, <3>5, <1>11
    <3> QED BY <3>3, <3>4, <3>5
  <2> QED BY <2>2, <2>3, <2>4
<1>16. (\A m \in LitSet : \A i \in 1 .. Len(watches[m]) : WatchOK(m, watches[m][i]))'
  BY <1>13
<1>17. (\A m \in LitSet : WatchesOnce(m))'
  BY <1>14 DEF WatchesOnce
<1>18. (\A c \in Clauses : Len(cls[c]) >= 2 => \A m \in Watched(c) : Watches(m, c))'
  BY <1>15 DEF Watches
<1> QED BY <1>16, <1>17, <1>18 DEF WatchesMatch

(* ... and the rest of the invariant holds too: n is not false, and every  *)
(* other clause keeps its place in the rest of the list of pm.             *)
LEMMA RewatchInv ==
  ASSUME TrailCore, VisitRewatch
  PROVE  CoreKept
<1> USE DEF TrailCore
<1>1. Visiting /\ UNCHANGED <<D, Level, vals, levels, reasons, head, added, bot, heap,
                              mode, pm, pi, px, trg>>
  BY DEF VisitRewatch, VisitingLong, assignVars, loopVars
<1>2. PICK q, k, p, n : Rewatched(q, k, p, n)
  BY RewatchFacts
<1>3. /\ q \in Clauses /\ q = watches[pm][pi].c /\ Len(cls[q]) \in Nat
      /\ k \in {1, 2} /\ cls[q][k] = pm /\ p \in 3 .. Len(cls[q])
      /\ n \in LitSet /\ n = cls[q][p] /\ ~ IsFalse(n) /\ ~ IsTrue(cls[q][1])
      /\ n # pm /\ SwapEffect(q, k, p) /\ watches' \in [LitIndex -> Seq(Watch)]
  BY Zenon, <1>2 DEF Rewatched
<1>4. /\ k \in 1 .. Len(cls[q]) /\ p \in 1 .. Len(cls[q]) /\ Len(cls[q]) >= 2
      /\ p # 1 /\ p # 2 /\ 1 \in 1 .. Len(cls[q]) /\ 2 \in 1 .. Len(cls[q])
  BY SMTT(40), <1>3
<1>13. /\ cls[q][1] # cls[q][2] /\ cls'[q][k] = n
       /\ \A l \in {1, 2} : l # k => cls'[q][l] = cls[q][l]
  <2>1. cls[q][1] # cls[q][2]
    BY Zenon, <1>2 DEF Rewatched
  <2> QED BY Zenon, <2>1, <1>3, <1>4 DEF SwapEffect
<1>5. /\ Clauses' = Clauses /\ ClausesOK' /\ \A c \in Clauses : SameLits(c)
      /\ \A c \in Clauses : Len(cls[c]) = 1 => cls'[c] = cls[c]
      /\ \A i \in 1 .. Len(D) : reasons[Var(D[i])] # CNull =>
           cls'[reasons[Var(D[i])]] = cls[reasons[Var(D[i])]]
  BY <1>3, <1>4, SwapKeeps
<1>6. /\ mode = "visit" /\ px = CNull /\ pm \in LitSet
      /\ pi \in 1 .. Len(watches[pm]) /\ watches[pm] \in Seq(Watch)
      /\ Len(watches[pm]) \in Nat /\ WatchesOnce(pm)
  BY <1>1, VisitFacts
<1>7. WatchesMatch'
  BY <1>1, <1>2, RewatchMatch
<1>8. TypeOK'
  BY <1>1, <1>3, <1>5 DEF TypeOK, SwapEffect
<1>9. ModeOK' /\ LevelsOK' /\ TrailConsistent' /\ FreeVarsInHeap' /\ ConflictFalsified'
  <2>1. TopLevel' = TopLevel
    BY <1>1 DEF TopLevel
  <2>2. ModeOK' /\ LevelsOK'
    BY <1>1, <2>1 DEF ModeOK, LevelsOK
  <2>3. TrailConsistent' /\ FreeVarsInHeap'
    BY <1>1 DEF TrailConsistent, FreeVarsInHeap, IsTrue, IsFalse, IsFree
  <2> QED BY <1>1, <1>6, <2>2, <2>3 DEF ConflictFalsified
<1>10. ReasonFirst'
  <2>1. SUFFICES ASSUME NEW i \in 1 .. Len(D), reasons[Var(D[i])] # CNull
                 PROVE  LET r == reasons[Var(D[i])]
                        IN  /\ r \in Clauses' /\ cls'[r] # <<>> /\ cls'[r][1] = D[i]
                            /\ \A l \in 2 .. Len(cls'[r]) :
                                 \E j \in 1 .. (i - 1) : D[j] = Not(cls'[r][l])
    BY ZenonT(40), <1>1 DEF ReasonFirst
  <2>2. cls'[reasons[Var(D[i])]] = cls[reasons[Var(D[i])]]
    BY <2>1, <1>5
  <2> QED BY <2>1, <2>2, <1>5 DEF ReasonFirst
<1>11. UnitsHold'
  <2>1. ASSUME NEW d \in added', Len(cls'[d]) = 1
        PROVE  vals'[cls'[d][1]] = 1 /\ levels'[Var(cls'[d][1])] = 0
    <3>1. d \in added /\ d \in Clauses
      BY <2>1, <1>1 DEF TypeOK
    <3>2. Len(cls[d]) = 1 /\ cls'[d] = cls[d]
      BY <2>1, <3>1, <1>5 DEF SameLits
    <3> QED BY <3>1, <3>2, <1>1 DEF UnitsHold, IsTrue
  <2> QED BY <2>1 DEF UnitsHold, IsTrue
<1>12. ASSUME WatchesCover PROVE WatchesCover'
  <2>1. ASSUME NEW d \in Clauses, NEW m \in LitSet, Covered(d, m), ~ (d = q /\ m = pm)
        PROVE  Covered(d, m)'
    <3>1. KeepsAssigned /\ ~ (IsFree(m) /\ vals'[m] = -1)
      BY <1>1 DEF KeepsAssigned, IsFree
    <3>2. ASSUME IsFalse(m), Unseen(m, d) PROVE Unseen(m, d)'
      <4>1. CASE \E i \in (head + 1) .. Len(D) : D[i] = Not(m)
        BY <4>1, <1>1, <1>6 DEF Unseen
      <4>2. CASE pm = m /\ \E i \in pi .. Len(watches[m]) : watches[m][i].c = d
        <5>1. PICK i \in pi .. Len(watches[pm]) : watches[pm][i].c = d
          BY <4>2
        <5>2. i # pi /\ i - 1 \in pi .. (Len(watches[pm]) - 1)
              /\ i - 1 \in 1 .. (Len(watches[pm]) - 1) /\ ~ (i - 1 < pi) /\ (i - 1) + 1 = i
          BY SMTT(40), <2>1, <4>2, <5>1, <1>3, <1>6
        <5>3. watches'[pm] = RemoveAt(watches[pm], pi)
          BY Zenon, <1>2 DEF Rewatched
        <5>4. /\ Len(watches'[pm]) = Len(watches[pm]) - 1
              /\ \A l \in 1 .. (Len(watches[pm]) - 1) :
                   watches'[pm][l] = IF l < pi THEN watches[pm][l] ELSE watches[pm][l + 1]
          BY <5>3, <1>6, RemoveAtFacts
        <5>5. watches'[pm][i - 1].c = d
          BY <5>1, <5>2, <5>4
        <5> QED BY <4>2, <5>2, <5>4, <5>5, <1>1, <1>6 DEF Unseen
      <4> QED BY <3>2, <4>1, <4>2, <1>6 DEF Unseen
    <3>3. vals'[m] = -1 => Unseen(m, d)' \/ TrueBelow(d, m)'
      BY <2>1, <3>1, <3>2, <1>5, CoveredKept
    <3> QED BY <3>3 DEF Covered, IsFalse
  <2>2. ASSUME NEW d \in Clauses PROVE Covered(d, n)'
    BY <1>1, <1>3 DEF Covered, IsFalse
  <2>3. ASSUME NEW d \in Clauses, Len(cls'[d]) >= 2
        PROVE  /\ (Covered(d, cls[d][1]) \/ Covered(d, cls[d][2]))'
               /\ d \in added' => (Covered(d, cls[d][1]) /\ Covered(d, cls[d][2]))'
    <3>1. PICK x, y : x = cls'[d][1] /\ y = cls'[d][2]
      OBVIOUS
    <3>2. Len(cls[d]) >= 2 /\ x \in LitSet /\ y \in LitSet
      <4>1. d \in 1 .. Len(cls') /\ cls' \in Seq(Seq(LitSet))
        BY <1>3, <1>5 DEF Clauses, SwapEffect
      <4> QED BY Zenon, <2>3, <3>1, <4>1, <1>5, ClauseLits DEF SameLits
    <3>3. CASE d # q
      <4>1. x = cls[d][1] /\ y = cls[d][2]
        BY <3>1, <3>3, <1>3 DEF SwapEffect
      <4>2. /\ Covered(d, x) \/ Covered(d, y)
            /\ d \in added => Covered(d, x) /\ Covered(d, y)
        BY <1>12, <3>2, <4>1 DEF WatchesCover
      <4>3. /\ Covered(d, x)' \/ Covered(d, y)'
            /\ d \in added' => Covered(d, x)' /\ Covered(d, y)'
        BY <2>1, <3>2, <3>3, <4>2, <1>1
      <4> QED BY <3>1, <4>3
    <3>4. CASE d = q /\ k = 1
      <4>1. x = n /\ y = cls[q][2] /\ y # pm
        BY <3>1, <3>4, <1>3, <1>13
      <4>2. d \in added => Covered(d, y)
        BY <1>12, <3>2, <3>4, <4>1 DEF WatchesCover
      <4>3. d \in added' => Covered(d, y)'
        BY <2>1, <3>2, <4>1, <4>2, <1>1
      <4> QED BY <3>1, <4>1, <4>3, <2>2
    <3>5. CASE d = q /\ k = 2
      <4>1. x = cls[q][1] /\ y = n /\ x # pm
        BY <3>1, <3>5, <1>3, <1>13
      <4>2. d \in added => Covered(d, x)
        BY <1>12, <3>2, <3>5, <4>1 DEF WatchesCover
      <4>3. d \in added' => Covered(d, x)'
        BY <2>1, <3>2, <4>1, <4>2, <1>1
      <4> QED BY <3>1, <4>1, <4>3, <2>2
    <3> QED BY <3>3, <3>4, <3>5, <1>3
  <2> QED BY <2>3, <1>5 DEF WatchesCover
<1>14. ConflictLast'
  BY <1>1, <1>6 DEF ConflictLast
<1> QED BY <1>5, <1>7, <1>8, <1>9, <1>10, <1>11, <1>12, <1>14 DEF CoreKept

(* One step of the visit of a watch list. *)
LEMMA VisitInv ==
  ASSUME TrailCore,
         VisitBlocked \/ VisitBinary \/ VisitSatisfied \/ VisitRewatch \/ VisitLast
  PROVE  CoreKept
<1> USE DEF TrailCore
<1>1. Visiting
  BY DEF VisitBlocked, VisitBinary, VisitSatisfied, VisitRewatch, VisitLast, VisitingLong
<1>2. PICK q : q = TheWatch.c
  OBVIOUS
<1>3. /\ pm \in LitSet /\ IsFalse(pm) /\ q \in Clauses /\ q \in Nat /\ cls[q] \in Seq(LitSet)
      /\ Len(cls[q]) \in Nat /\ Len(cls[q]) >= 2 /\ (pm = cls[q][1] \/ pm = cls[q][2])
      /\ WatchOK(pm, TheWatch) /\ TheWatch \in Watch
      /\ 1 \in 1 .. Len(cls[q]) /\ 2 \in 1 .. Len(cls[q])
  BY SMTT(40), <1>1, <1>2, VisitFacts DEF Clauses, TypeOK
<1>4. /\ cls[q][1] \in LitSet /\ cls[q][2] \in LitSet /\ cls[q][1] # cls[q][2]
      /\ TheWatch.o # pm /\ \E k \in 1 .. Len(cls[q]) : cls[q][k] = TheWatch.o
      /\ TheWatch.bin <=> Len(cls[q]) = 2
  <2>1. cls[q][1] # cls[q][2]
    BY <1>3 DEF ClausesOK, DistinctVars
  <2>2. TheWatch.o # pm /\ \E k \in 1 .. Len(cls[q]) : cls[q][k] = TheWatch.o
    BY <1>2, <1>3 DEF WatchOK
  <2>3. TheWatch.bin <=> Len(cls[q]) = 2
    BY <1>2, <1>3 DEF WatchOK
  <2> QED BY <2>1, <2>2, <2>3, <1>3
<1>5. PICK n : n = OtherWatched(q)
  OBVIOUS
<1>6. /\ n \in LitSet /\ n # pm /\ {n, pm} = {cls[q][1], cls[q][2]}
      /\ n = IF cls[q][1] = pm THEN cls[q][2] ELSE cls[q][1]
  BY <1>3, <1>4, <1>5 DEF OtherWatched
\* the clause with the other watched literal in front
<1>7. ASSUME cls' = IF cls[q][1] = pm THEN [cls EXCEPT ![q][1] = n, ![q][2] = pm] ELSE cls
      PROVE  /\ \E j \in {1, 2} : SwapEffect(q, 1, j)
             /\ cls'[q][1] = n /\ cls'[q][2] = pm /\ Len(cls'[q]) = Len(cls[q])
             /\ \A k \in 3 .. Len(cls[q]) : cls'[q][k] = cls[q][k]
  <2>1. CASE cls[q][1] = pm
    <3>1. PICK i \in 1 .. Len(cls[q]), j \in 1 .. Len(cls[q]) : i = 1 /\ j = 2 /\ i # j
      BY <1>3
    <3>2. SwapEffect(q, i, j)
      <4>1. cls' = [cls EXCEPT ![q][i] = cls[q][j], ![q][j] = cls[q][i]]
        BY <1>6, <1>7, <2>1, <3>1
      <4> QED BY <3>1, <4>1, <1>3, SwapFacts
    <3>3. SwapEffect(q, 1, 2)
      BY <3>1, <3>2
    <3>4. /\ cls'[q][1] = n /\ cls'[q][2] = pm /\ Len(cls'[q]) = Len(cls[q])
          /\ \A k \in 3 .. Len(cls[q]) : cls'[q][k] = cls[q][k]
      BY <2>1, <3>3, <1>3, <1>6 DEF SwapEffect
    <3> QED BY <3>3, <3>4
  <2>2. CASE cls[q][1] # pm
    BY <1>3, <1>6, <1>7, <2>2, NoSwapFacts
  <2> QED BY <2>1, <2>2
<1>8. ASSUME ~ IsTrue(n) PROVE ~ IsTrue(cls[q][1])
  BY <1>3, <1>6, <1>8 DEF IsTrue, IsFalse
<1>9. CASE VisitBlocked
  <2>1. \E k \in 1 .. Len(cls[q]) : IsTrue(cls[q][k])
    BY <1>4, <1>9 DEF VisitBlocked
  <2> QED BY <1>1, <1>2, <1>9, <2>1, VisitTrue DEF VisitBlocked
<1>10. CASE VisitSatisfied
  <2>1. \E k \in 1 .. Len(cls[q]) : IsTrue(cls[q][k])
    BY <1>2, <1>3, <1>5, <1>6, <1>10 DEF VisitSatisfied
  <2> QED BY <1>1, <1>2, <1>10, <2>1, VisitTrue DEF VisitSatisfied
<1>11. CASE VisitBinary
  <2>1. Len(cls[q]) = 2
    BY <1>4, <1>11 DEF VisitBinary
  <2>2. TheWatch.o = n
    BY <1>3, <1>4, <1>6, <2>1
  <2>3. /\ ~ IsTrue(n) /\ UNCHANGED <<added, bot, heap, trg>>
        /\ cls' = IF cls[q][1] = pm THEN [cls EXCEPT ![q][1] = n, ![q][2] = pm] ELSE cls
        /\ \/ IsFree(n)  /\ Assign(n, q) /\ KeepWatch
           \/ IsFalse(n) /\ ReturnConflict(q)
    BY <1>2, <1>11, <2>2 DEF VisitBinary
  <2>4. PICK j \in {1, 2} : SwapEffect(q, 1, j)
    BY <1>7, <2>3
  <2>5. cls'[q][1] = n /\ cls'[q][2] = pm /\ Len(cls'[q]) = 2
    BY Zenon, <1>7, <2>1, <2>3
  <2>6. CASE IsFree(n) /\ Assign(n, q) /\ KeepWatch
    <3>1. \A k \in 2 .. Len(cls'[q]) : IsFalse(cls'[q][k])
      BY <1>3, <2>5
    <3> QED BY Zenon, <1>1, <1>2, <1>3, <1>6, <1>8, <2>3, <2>4, <2>5, <2>6, <3>1, VisitImplied
  <2>7. CASE IsFalse(n) /\ ReturnConflict(q)
    <3>1. \A k \in 1 .. Len(cls'[q]) : IsFalse(cls'[q][k])
      BY <1>3, <2>5, <2>7
    <3> QED BY <1>1, <1>2, <1>8, <2>3, <2>4, <2>7, <3>1, VisitFalse
  <2> QED BY <2>3, <2>6, <2>7
<1>12. CASE VisitLast
  <2>1. /\ ~ IsTrue(n) /\ UNCHANGED <<added, bot, heap, trg>>
        /\ \A k \in 3 .. Len(cls[q]) : IsFalse(cls[q][k])
        /\ \/ /\ IsFree(n) /\ Assign(n, q) /\ KeepWatch
              /\ cls' = IF cls[q][1] = pm THEN [cls EXCEPT ![q][1] = n, ![q][2] = pm] ELSE cls
           \/ IsFalse(n) /\ ReturnConflict(q) /\ UNCHANGED cls
    BY Zenon, <1>2, <1>5, <1>12 DEF VisitLast
  <2>2. CASE /\ IsFree(n) /\ Assign(n, q) /\ KeepWatch
             /\ cls' = IF cls[q][1] = pm THEN [cls EXCEPT ![q][1] = n, ![q][2] = pm] ELSE cls
    <3>1. PICK j \in {1, 2} : SwapEffect(q, 1, j)
      BY <1>7, <2>2
    <3>2. /\ cls'[q][1] = n /\ cls'[q][2] = pm /\ Len(cls'[q]) = Len(cls[q])
          /\ \A k \in 3 .. Len(cls[q]) : cls'[q][k] = cls[q][k]
      BY <1>7, <2>2
    <3>3. \A k \in 2 .. Len(cls'[q]) : IsFalse(cls'[q][k])
      BY <1>3, <2>1, <3>2
    <3> QED BY ZenonT(40), <1>1, <1>2, <1>3, <1>6, <1>8, <2>1, <2>2, <3>1, <3>2, <3>3, VisitImplied
  <2>3. CASE IsFalse(n) /\ ReturnConflict(q) /\ UNCHANGED cls
    <3>1. SwapEffect(q, 1, 1)
      BY <1>3, <2>3, NoSwapFacts
    <3>2. \A k \in 1 .. Len(cls'[q]) : IsFalse(cls'[q][k])
      <4>1. IsFalse(cls[q][1]) /\ IsFalse(cls[q][2])
        BY <1>3, <1>6, <2>3
      <4> QED BY <1>3, <2>1, <2>3, <4>1
    <3> QED BY <1>1, <1>2, <1>8, <2>1, <2>3, <3>1, <3>2, VisitFalse
  <2> QED BY <2>1, <2>2, <2>3
<1>13. CASE VisitRewatch
  BY <1>13, RewatchInv
<1> QED BY Zenon, <1>9, <1>10, <1>11, <1>12, <1>13

-----------------------------------------------------------------------------
(* The outer loop of Prop.  Taking a literal off the queue makes its       *)
(* watches the ones still to be visited.                                   *)
LEMMA PropLoopInv ==
  ASSUME TrailCore, StartProp \/ PropTake \/ PropReturn \/ PropNext
  PROVE  CoreKept
<1> USE DEF TrailCore
<1>1. /\ UNCHANGED <<D, Level, vals, levels, reasons, watches, cls, added, bot, heap, trg>>
      /\ UNCHANGED <<assignVars, cls, added, heap>>
  BY DEF StartProp, PropTake, PropReturn, PropNext, assignVars, clauseVars
<1>2. /\ ClausesOK' /\ TrailConsistent' /\ ReasonFirst' /\ UnitsHold' /\ FreeVarsInHeap'
      /\ KeepsAssigned /\ \A c \in Clauses : SameLits(c)
  BY <1>1, AssignmentFrame
<1>3. WatchesMatch'
  BY <1>1, WatchesMatchFrame
<1>4. /\ mode \in {"idle", "prop", "visit"} /\ mode' \in {"idle", "prop", "visit"}
      /\ px' = CNull /\ (px = CNull \/ StartProp)
  BY DEF StartProp, PropTake, PropReturn, PropNext, ModeOK
<1>5. head \in Nat /\ Len(D) \in Nat /\ head <= Len(D) /\ Level \in Nat
  BY <1>4 DEF ModeOK, TypeOK
<1>6. CASE PropTake
  <2>1. /\ mode = "prop" /\ px = CNull /\ head + 1 \in 1 .. Len(D) /\ pm' = Not(D[head + 1])
        /\ head' = head + 1 /\ pi' = 1 /\ mode' = "visit"
    BY <1>5, <1>6 DEF PropTake, ModeOK
  <2>2. /\ D[head + 1] \in LitSet /\ pm' \in LitSet /\ Not(pm') = D[head + 1]
        /\ Var(pm') = Var(D[head + 1])
    BY <2>1, LitFacts DEF TypeOK
  <2>3. levels[Var(D[head + 1])] = Level
    BY <1>5, <2>1 DEF LevelsOK
  <2>4. TypeOK'
    BY <1>1, <1>4, <1>5, <2>1, <2>2 DEF TypeOK, Clauses
  <2>5. ModeOK'
    BY <1>1, <1>4, <1>5, <2>1, <2>2 DEF ModeOK
  <2>6. LevelsOK'
    BY <1>1, <1>5, <2>1, <2>2, <2>3 DEF LevelsOK, TopLevel
  <2>7. ASSUME NEW d \in Clauses, NEW m \in LitSet, Covered(d, m), m \in Watched(d),
               Len(cls[d]) >= 2
        PROVE  Covered(d, m)'
    <3>1. ~ (IsFree(m) /\ vals'[m] = -1)
      BY <1>1 DEF IsFree
    <3>2. ASSUME Unseen(m, d) PROVE Unseen(m, d)'
      <4>1. PICK i \in (head + 1) .. Len(D) : D[i] = Not(m)
        BY <1>4, <2>1, <3>2 DEF Unseen
      <4>2. CASE i = head + 1
        <5>1. pm' = m
          BY <2>1, <4>1, <4>2, LitFacts
        <5>2. \E l \in 1 .. Len(watches[m]) : watches[m][l].c = d
          BY <2>7 DEF WatchesMatch, Watches
        <5> QED BY <1>1, <2>1, <5>1, <5>2 DEF Unseen
      <4>3. CASE i # head + 1
        <5>1. i \in (head' + 1) .. Len(D')
          BY <1>1, <1>5, <2>1, <4>1, <4>3
        <5> QED BY <1>1, <2>1, <4>1, <5>1 DEF Unseen
      <4> QED BY <4>2, <4>3
    <3>3. vals'[m] = -1 => Unseen(m, d)' \/ TrueBelow(d, m)'
      BY <1>2, <2>7, <3>1, <3>2, CoveredKept
    <3> QED BY <3>3 DEF Covered, IsFalse
  <2>8. ASSUME WatchesCover PROVE WatchesCover'
    <3>1. \A d \in Clauses : Len(cls[d]) >= 2 =>
            /\ cls[d][1] \in LitSet /\ cls[d][2] \in LitSet
            /\ cls[d][1] \in Watched(d) /\ cls[d][2] \in Watched(d)
      BY DEF TypeOK, Clauses, Watched
    <3>2. Clauses' = Clauses /\ cls' = cls /\ added' = added /\ added \subseteq Clauses
      BY <1>1 DEF Clauses, TypeOK
    <3> QED BY <2>7, <2>8, <3>1, <3>2 DEF WatchesCover
  <2>9. ConflictFalsified' /\ ConflictLast'
    BY <1>4 DEF ConflictFalsified, ConflictLast
  <2> QED BY <1>2, <1>3, <2>4, <2>5, <2>6, <2>8, <2>9 DEF CoreKept
<1>7. CASE StartProp \/ PropReturn \/ PropNext
  <2>1. /\ head' = head /\ mode' # "visit" /\ pm' \in LitSet \cup {LitNull} /\ pi' \in Nat
        /\ mode' = "idle" => mode = "prop"
    BY <1>7 DEF StartProp, PropReturn, PropNext, TypeOK
  <2>2. TypeOK'
    BY <1>1, <1>4, <2>1 DEF TypeOK, Clauses
  <2>3. ModeOK' /\ LevelsOK' /\ ConflictFalsified' /\ ConflictLast'
    BY <1>1, <1>4, <1>5, <2>1 DEF ModeOK, LevelsOK, TopLevel, ConflictFalsified, ConflictLast
  <2>4. ASSUME px = CNull, NEW d \in Clauses, NEW m \in LitSet, Covered(d, m)
        PROVE  Covered(d, m)'
    <3>1. ~ (IsFree(m) /\ vals'[m] = -1)
      BY <1>1 DEF IsFree
    <3>2. ASSUME Unseen(m, d) PROVE Unseen(m, d)'
      <4>1. mode = "visit" => pi > Len(watches[pm]) /\ pi \in Nat /\ Len(watches[pm]) \in Nat
        BY <1>7, IndexFacts DEF StartProp, PropReturn, PropNext, TypeOK, ModeOK
      <4>2. \E i \in (head + 1) .. Len(D) : D[i] = Not(m)
        BY <1>4, <2>4, <3>2, <4>1 DEF Unseen
      <4> QED BY <1>1, <1>4, <2>1, <4>2 DEF Unseen
    <3>3. vals'[m] = -1 => Unseen(m, d)' \/ TrueBelow(d, m)'
      BY <1>2, <2>4, <3>1, <3>2, CoveredKept
    <3> QED BY <3>3 DEF Covered, IsFalse
  <2>5. ASSUME WatchesCover, px = CNull PROVE WatchesCover'
    <3>1. \A d \in Clauses : Len(cls[d]) >= 2 => cls[d][1] \in LitSet /\ cls[d][2] \in LitSet
      BY DEF TypeOK, Clauses
    <3>2. Clauses' = Clauses /\ cls' = cls /\ added' = added /\ added \subseteq Clauses
      BY <1>1 DEF Clauses, TypeOK
    <3> QED BY <2>4, <2>5, <3>1, <3>2 DEF WatchesCover
  <2> QED BY <1>2, <1>3, <2>2, <2>3, <2>5 DEF CoreKept
<1> QED BY <1>6, <1>7

(* A step of Prop, or the call of it. *)
LEMMA PropCore ==
  ASSUME TrailCore, StartProp \/ PropStep
  PROVE  CoreKept
BY PropLoopInv, VisitInv DEF PropStep

(* Without a conflict it keeps the whole invariant. *)
LEMMA PropInv ==
  ASSUME TrailInv, ClientProp \/ PropStep
  PROVE  TrailInv'
<1>1. px = CNull
  BY DEF TrailInv, TrailCore, ModeOK, ClientProp, PropStep, PropTake, PropReturn, PropNext,
         VisitBlocked, VisitBinary, VisitSatisfied, VisitRewatch, VisitLast, VisitingLong, Visiting
<1>2. CoreKept
  BY PropCore DEF TrailInv, ClientProp
<1> QED BY <1>1, <1>2 DEF CoreKept, TrailInv

-----------------------------------------------------------------------------
(* Back begins: what is unseen is of the last level, which will be undone. *)
LEMMA BackStartInv ==
  ASSUME TrailInv, NEW l \in 0 .. Level, ClientBack(l)
  PROVE  TrailInv'
<1> USE DEF TrailInv, TrailCore
<1>1. /\ UNCHANGED <<D, head, Level, vals, levels, reasons, watches, cls, added, bot, heap>>
      /\ UNCHANGED <<assignVars, cls, added, heap>> /\ UNCHANGED <<pm, pi, px>>
      /\ mode = "idle" /\ Level \in Nat /\ l \in Nat /\ Len(D) \in Nat
  BY DEF ClientBack, StartBack, assignVars, clauseVars, TypeOK
<1>2. /\ ClausesOK' /\ TrailConsistent' /\ ReasonFirst' /\ UnitsHold' /\ FreeVarsInHeap'
      /\ KeepsAssigned /\ \A c \in Clauses : SameLits(c)
  BY <1>1, AssignmentFrame
<1>3. WatchesMatch'
  BY <1>1, WatchesMatchFrame
<1>4. TypeOK'
  BY <1>1 DEF TypeOK, Clauses, ClientBack, StartBack
<1>5. \/ UNCHANGED <<mode, trg>>
      \/ mode' = "back" /\ trg' = l /\ l < Level
  BY <1>1 DEF ClientBack, StartBack
<1>6. ModeOK' /\ ConflictLast'
  BY <1>1, <1>5 DEF ModeOK, ConflictLast
<1>7. LevelsOK'
  BY <1>1, <1>5 DEF LevelsOK, TopLevel
<1>8. ConflictFalsified'
  BY <1>1, <1>5 DEF ConflictFalsified, Falsified, IsFalse
<1>9. ASSUME NEW d \in Clauses, NEW m \in LitSet, Covered(d, m)
      PROVE  Covered(d, m)'
  <2>1. ~ (IsFree(m) /\ vals'[m] = -1)
    BY <1>1 DEF IsFree
  <2>2. ASSUME IsFalse(m), Unseen(m, d) PROVE Unseen(m, d)'
    <3>1. CASE UNCHANGED <<mode, trg>>
      BY <1>1, <2>2, <3>1 DEF Unseen
    <3>2. CASE mode' = "back" /\ trg' = l /\ l < Level
      <4>1. levels[Var(m)] = Level
        <5>1. CASE levels[Var(m)] = Level
          BY <5>1
        <5>2. CASE \E i \in (head + 1) .. Len(D) : D[i] = Not(m)
          <6>1. PICK i \in (head + 1) .. Len(D) : D[i] = Not(m)
            BY <5>2
          <6> QED BY <6>1, <1>1, LitFacts DEF LevelsOK
        <5> QED BY <1>1, <2>2, <5>1, <5>2 DEF Unseen
      <4> QED BY <1>1, <3>2, <4>1 DEF Unseen
    <3> QED BY <1>5, <3>1, <3>2
  <2>3. vals'[m] = -1 => Unseen(m, d)' \/ TrueBelow(d, m)'
    BY <1>2, <1>9, <2>1, <2>2, CoveredKept
  <2> QED BY <2>3 DEF Covered, IsFalse
<1>10. WatchesCover'
  <2>1. \A d \in Clauses : Len(cls[d]) >= 2 => cls[d][1] \in LitSet /\ cls[d][2] \in LitSet
    BY DEF TypeOK, Clauses
  <2>2. Clauses' = Clauses /\ cls' = cls /\ added' = added /\ added \subseteq Clauses
    BY <1>1 DEF Clauses, TypeOK
  <2> QED BY <1>9, <2>1, <2>2 DEF WatchesCover
<1> QED BY <1>2, <1>3, <1>4, <1>6, <1>7, <1>8, <1>10

(* Back pops a literal of a level above its target.  A clause that was     *)
(* true only by it has false watches of that level or above.               *)
LEMMA BackPopInv ==
  ASSUME TrailInv, BackPop
  PROVE  TrailInv'
<1> USE DEF TrailInv, TrailCore
<1>1. /\ UNCHANGED <<Level, head, watches, cls, added, bot, mode, pm, pi, px, trg>>
      /\ mode = "back" /\ D # <<>> /\ Level \in Nat /\ trg \in Nat /\ trg < Level
  BY DEF BackPop, AtTarget, clauseVars, loopVars, ModeOK, TypeOK
<1>2. PICK m \in LitSet : m = Last(D)
  BY <1>1, FrontFacts DEF TypeOK
<1>3. /\ Len(D) \in Nat /\ Len(D) >= 1 /\ D[Len(D)] = m
      /\ D' \in Seq(LitSet) /\ Len(D') = Len(D) - 1
      /\ \A k \in 1 .. (Len(D) - 1) : D'[k] = D[k]
  <2>1. D \in Seq(LitSet) /\ D' = Front(D)
    BY DEF TypeOK, BackPop
  <2> QED BY <1>1, <1>2, <2>1, FrontFacts
<1>4. /\ m \in LitIndex /\ Not(m) \in LitSet /\ Not(m) \in LitIndex /\ m # Not(m)
      /\ Not(Not(m)) = m /\ Var(m) \in VarSet /\ Var(m) \in VarIndex /\ Var(Not(m)) = Var(m)
  BY LitFacts, IndexFacts
<1>5. /\ vals' \in [LitIndex -> {-1, 0, 1}]
      /\ \A n \in LitSet : vals'[n] = IF n = m \/ n = Not(m) THEN 0 ELSE vals[n]
  BY <1>2, <1>4, IndexFacts DEF BackPop, TypeOK
<1>6. /\ levels' \in [VarIndex -> Nat \cup {-1}] /\ reasons' \in [VarIndex -> Nat]
      /\ \A v \in VarSet : v # Var(m) => levels'[v] = levels[v] /\ reasons'[v] = reasons[v]
  BY <1>2, <1>4, IndexFacts DEF BackPop, TypeOK, CNull
<1>7. heap' = heap \cup {Var(m)}
  BY <1>2 DEF BackPop
<1>8. \A i \in 1 .. Len(D) : D[i] \in LitSet /\ Var(D[i]) \in VarSet
  BY LitFacts DEF TypeOK
<1>9. ASSUME NEW i \in 1 .. (Len(D) - 1)
      PROVE  /\ Var(D[i]) # Var(m) /\ D'[i] = D[i] /\ levels[Var(D[i])] <= levels[Var(m)]
             /\ levels'[Var(D[i])] = levels[Var(D[i])] /\ reasons'[Var(D[i])] = reasons[Var(D[i])]
  <2>1. i \in 1 .. Len(D) /\ Len(D) \in 1 .. Len(D) /\ i < Len(D)
    BY <1>3
  <2>2. Var(D[i]) # Var(m) /\ levels[Var(D[i])] <= levels[Var(m)]
    BY <1>3, <2>1 DEF TrailConsistent
  <2> QED BY <1>3, <1>6, <1>8, <2>1, <2>2
<1>10. levels[Var(m)] > trg /\ levels[Var(m)] \in Nat
  <2>1. levels[Var(m)] # trg /\ levels[Var(m)] \in 0 .. Level
    BY <1>1, <1>2, <1>3 DEF BackPop, AtTarget, LevelsOK
  <2>2. CASE trg = 0
    BY <1>1, <2>1, <2>2
  <2>3. CASE trg > 0
    <3>1. PICK i \in 1 .. Len(D) : levels[Var(D[i])] = trg
      BY <1>1, <2>3 DEF LevelsOK, TopLevel
    <3>2. i \in 1 .. (Len(D) - 1)
      BY <1>3, <2>1, <3>1
    <3> QED BY <1>1, <1>9, <2>1, <3>1, <3>2
  <2> QED BY <1>1, <2>2, <2>3
<1>11. IsTrue(m) /\ IsFalse(Not(m))
  <2>1. Len(D) \in 1 .. Len(D)
    BY <1>3
  <2> QED BY <1>3, <1>4, <2>1 DEF TrailConsistent
<1>12. TypeOK'
  BY <1>1, <1>3, <1>4, <1>5, <1>6, <1>7 DEF TypeOK, Clauses
<1>13. ModeOK' /\ ConflictFalsified' /\ ConflictLast'
  BY <1>1 DEF ModeOK, ConflictFalsified, ConflictLast
<1>14. LevelsOK'
  <2>1. \A i \in 1 .. Len(D') : levels'[Var(D'[i])] \in 0 .. Level'
    BY SMTT(40), <1>1, <1>3, <1>9 DEF LevelsOK
  <2>2. ASSUME NEW k \in 1 .. TopLevel'
        PROVE  \E i \in 1 .. Len(D') : levels'[Var(D'[i])] = k
    <3>1. k \in 1 .. trg /\ k \in 1 .. TopLevel
      BY <1>1 DEF TopLevel
    <3>2. PICK i \in 1 .. Len(D) : levels[Var(D[i])] = k
      BY <3>1 DEF LevelsOK
    <3>3. i \in 1 .. (Len(D) - 1)
      BY <1>1, <1>3, <1>10, <3>1, <3>2
    <3> QED BY <1>3, <1>9, <3>2, <3>3
  <2> QED BY <1>1, <2>1, <2>2 DEF LevelsOK
<1>15. ClausesOK' /\ WatchesMatch'
  BY <1>1, WatchesMatchFrame DEF ClausesOK, Clauses
<1>16. TrailConsistent'
  <2>1. ASSUME NEW n \in LitSet
        PROVE  IsTrue(n)' <=> \E i \in 1 .. Len(D') : D'[i] = n
    <3>1. CASE n = m \/ n = Not(m)
      <4>1. ~ IsTrue(n)'
        BY <1>5, <3>1 DEF IsTrue
      <4>2. \A i \in 1 .. Len(D') : D'[i] # n
        BY <1>3, <1>4, <1>9, <3>1
      <4> QED BY <4>1, <4>2
    <3>2. CASE n # m /\ n # Not(m)
      <4>1. IsTrue(n)' <=> IsTrue(n)
        BY <1>5, <3>2 DEF IsTrue
      <4>2. (\E i \in 1 .. Len(D) : D[i] = n) <=> \E i \in 1 .. (Len(D) - 1) : D[i] = n
        BY <1>3, <3>2
      <4>3. (\E i \in 1 .. (Len(D) - 1) : D[i] = n) <=> \E i \in 1 .. Len(D') : D'[i] = n
        BY <1>3
      <4> QED BY <4>1, <4>2, <4>3 DEF TrailConsistent
    <3> QED BY <3>1, <3>2
  <2>2. ASSUME NEW n \in LitSet PROVE IsFalse(n)' <=> IsTrue(Not(n))'
    <3>1. Not(n) \in LitSet /\ Not(Not(n)) = n
      BY LitFacts
    <3> QED BY <1>4, <1>5, <3>1 DEF IsTrue, IsFalse, TrailConsistent
  <2>3. ASSUME NEW i \in 1 .. Len(D'), NEW j \in 1 .. Len(D'), i < j
        PROVE  Var(D'[i]) # Var(D'[j]) /\ levels'[Var(D'[i])] <= levels'[Var(D'[j])]
    <3>1. i \in 1 .. (Len(D) - 1) /\ j \in 1 .. (Len(D) - 1) /\ i \in 1 .. Len(D) /\ j \in 1 .. Len(D)
      BY <1>3
    <3> QED BY <1>9, <2>3, <3>1 DEF TrailConsistent
  <2> QED BY <2>1, <2>2, <2>3 DEF TrailConsistent
<1>17. ReasonFirst'
  <2>1. SUFFICES ASSUME NEW i \in 1 .. Len(D'), reasons'[Var(D'[i])] # CNull
                 PROVE  LET r == reasons'[Var(D'[i])]
                        IN  /\ r \in Clauses /\ cls[r] # <<>> /\ cls[r][1] = D'[i]
                            /\ \A k \in 2 .. Len(cls[r]) :
                                 \E j \in 1 .. (i - 1) : D'[j] = Not(cls[r][k])
    BY <1>1 DEF ReasonFirst, Clauses
  <2>2. i \in 1 .. (Len(D) - 1) /\ i \in 1 .. Len(D)
    BY <1>3
  <2>3. PICK r : r = reasons[Var(D[i])] /\ r = reasons'[Var(D'[i])] /\ r # CNull /\ D'[i] = D[i]
    BY <1>9, <2>1, <2>2
  <2>4. /\ r \in Clauses /\ cls[r] # <<>> /\ cls[r][1] = D[i]
        /\ \A k \in 2 .. Len(cls[r]) : \E j \in 1 .. (i - 1) : D[j] = Not(cls[r][k])
    BY ZenonT(40), <2>2, <2>3 DEF ReasonFirst
  <2>5. \A j \in 1 .. (i - 1) : D'[j] = D[j]
    BY <1>3, <2>2
  <2> QED BY <2>3, <2>4, <2>5
<1>18. UnitsHold'
  <2>1. ASSUME NEW d \in added, Len(cls[d]) = 1
        PROVE  vals'[cls[d][1]] = 1 /\ levels'[Var(cls[d][1])] = 0
    <3>1. PICK n \in LitSet : n = cls[d][1]
      BY <2>1 DEF TypeOK, Clauses
    <3>2. vals[n] = 1 /\ levels[Var(n)] = 0
      BY <2>1, <3>1 DEF UnitsHold, IsTrue
    <3>3. Var(n) # Var(m) /\ Var(n) \in VarSet
      BY <1>1, <1>10, <3>2, LitFacts
    <3>4. n # m /\ n # Not(m)
      BY <1>4, <3>3
    <3> QED BY <1>5, <1>6, <3>1, <3>2, <3>3, <3>4
  <2> QED BY <1>1, <2>1 DEF UnitsHold, IsTrue
<1>19. FreeVarsInHeap'
  <2>1. ASSUME NEW v \in VarSet, vals'[Pos(v)] = 0 PROVE v \in heap'
    <3>1. Pos(v) \in LitSet /\ Var(Pos(v)) = v
      BY IndexFacts
    <3>2. CASE Pos(v) = m \/ Pos(v) = Not(m)
      BY <1>4, <1>7, <3>1, <3>2
    <3>3. CASE Pos(v) # m /\ Pos(v) # Not(m)
      BY <1>5, <1>7, <2>1, <3>1, <3>3 DEF FreeVarsInHeap, IsFree
    <3> QED BY <3>2, <3>3
  <2> QED BY <2>1 DEF FreeVarsInHeap, IsFree, Pos
<1>20. ASSUME NEW d \in Clauses, NEW n \in LitSet, Covered(d, n), vals'[n] = -1
       PROVE  Unseen(n, d)' \/ TrueBelow(d, n)'
  <2>1. n # m /\ n # Not(m) /\ IsFalse(n)
    BY <1>5, <1>20 DEF IsFalse
  <2>2. Var(n) # Var(m) /\ Var(n) \in VarSet
    BY <2>1, SameVar, LitFacts
  <2>3. levels'[Var(n)] = levels[Var(n)]
    BY <1>6, <2>2
  <2>4. ASSUME levels[Var(n)] > trg PROVE Unseen(n, d)'
    BY <1>1, <2>3, <2>4 DEF Unseen
  <2>5. CASE Unseen(n, d)
    BY <1>1, <2>4, <2>5 DEF Unseen
  <2>6. CASE TrueBelow(d, n)
    <3>1. PICK k \in 1 .. Len(cls[d]) :
            IsTrue(cls[d][k]) /\ levels[Var(cls[d][k])] <= levels[Var(n)]
      BY <2>6 DEF TrueBelow
    <3>2. PICK y \in LitSet : y = cls[d][k]
      BY DEF TypeOK, Clauses
    <3>3. vals[y] = 1 /\ levels[Var(y)] <= levels[Var(n)] /\ y # Not(m)
      BY <1>11, <3>1, <3>2 DEF IsTrue, IsFalse
    <3>4. CASE y = m
      <4>1. levels[Var(n)] \in Nat \cup {-1}
        BY <2>2, IndexFacts DEF TypeOK
      <4> QED BY <1>1, <1>10, <2>4, <3>3, <3>4, <4>1
    <3>5. CASE y # m
      <4>1. Var(y) # Var(m) /\ Var(y) \in VarSet
        BY <3>3, <3>5, SameVar, LitFacts
      <4>2. vals'[y] = 1 /\ levels'[Var(y)] <= levels'[Var(n)]
        BY <1>5, <1>6, <2>3, <3>3, <3>5, <4>1
      <4> QED BY <1>1, <3>2, <4>2 DEF TrueBelow, IsTrue
    <3> QED BY <3>4, <3>5
  <2> QED BY <1>20, <2>1, <2>5, <2>6 DEF Covered
<1>21. WatchesCover'
  <2>1. ASSUME NEW d \in Clauses, NEW n \in LitSet, Covered(d, n) PROVE Covered(d, n)'
    BY <1>20, <2>1 DEF Covered, IsFalse
  <2>2. \A d \in Clauses : Len(cls[d]) >= 2 => cls[d][1] \in LitSet /\ cls[d][2] \in LitSet
    BY DEF TypeOK, Clauses
  <2>3. Clauses' = Clauses /\ cls' = cls /\ added' = added /\ added \subseteq Clauses
    BY <1>1 DEF Clauses, TypeOK
  <2> QED BY <2>1, <2>2, <2>3 DEF WatchesCover
<1> QED BY <1>12, <1>13, <1>14, <1>15, <1>16, <1>17, <1>18, <1>19, <1>21


(* Back ends: no literal above the target level is left, and everything on *)
(* the trail is propagated.                                                *)
LEMMA BackStopInv ==
  ASSUME TrailInv, BackStop
  PROVE  TrailInv'
<1> USE DEF TrailInv, TrailCore
<1>1. /\ UNCHANGED <<D, vals, levels, reasons, watches, cls, added, bot, heap, pm, pi>>
      /\ mode = "back" /\ mode' = "idle" /\ px' = CNull /\ trg' = 0
      /\ head' = Len(D) /\ Len(D) \in Nat /\ Level' = IF D = <<>> THEN 0 ELSE trg
      /\ trg \in Nat /\ Level \in Nat /\ trg < Level
  BY DEF BackStop, clauseVars, ModeOK, TypeOK
<1>2. ASSUME NEW i \in 1 .. Len(D) PROVE levels[Var(D[i])] \in 0 .. trg /\ D # <<>>
  <2>1. D # <<>> /\ Len(D) \in 1 .. Len(D) /\ Last(D) = D[Len(D)]
    BY <1>1 DEF Last
  <2>2. levels[Var(D[Len(D)])] = trg
    BY <2>1 DEF BackStop, AtTarget
  <2>3. levels[Var(D[i])] <= levels[Var(D[Len(D)])]
    BY <1>1, <2>1, <2>2 DEF TrailConsistent, LevelsOK
  <2> QED BY <1>1, <2>1, <2>2, <2>3 DEF LevelsOK
<1>3. /\ ClausesOK' /\ TrailConsistent' /\ ReasonFirst' /\ UnitsHold' /\ FreeVarsInHeap'
  BY <1>1 DEF ClausesOK, Clauses, TrailConsistent, IsTrue, IsFalse, ReasonFirst, UnitsHold,
              FreeVarsInHeap, IsFree
<1>4. WatchesMatch'
  BY <1>1, WatchesMatchFrame
<1>5. TypeOK'
  BY <1>1 DEF TypeOK, Clauses
<1>6. ModeOK' /\ ConflictFalsified' /\ ConflictLast'
  BY <1>1 DEF ModeOK, ConflictFalsified, ConflictLast
<1>7. LevelsOK'
  <2>1. \A i \in 1 .. Len(D') : levels'[Var(D'[i])] \in 0 .. Level'
    BY <1>1, <1>2
  <2>2. ASSUME NEW k \in 1 .. TopLevel'
        PROVE  \E i \in 1 .. Len(D') : levels'[Var(D'[i])] = k
    <3>1. k \in 1 .. TopLevel
      BY <1>1 DEF TopLevel
    <3> QED BY <1>1, <3>1 DEF LevelsOK
  <2> QED BY <1>1, <2>1, <2>2 DEF LevelsOK
<1>8. ASSUME NEW d \in Clauses, NEW n \in LitSet, Covered(d, n)
      PROVE  Covered(d, n)'
  <2>1. SUFFICES ASSUME vals[n] = -1 PROVE TrueBelow(d, n)'
    BY <1>1 DEF Covered, IsFalse
  <2>2. PICK i \in 1 .. Len(D) : D[i] = Not(n)
    BY <2>1, LitFacts DEF TrailConsistent, IsFalse
  <2>3. levels[Var(n)] \in 0 .. trg
    BY <1>2, <2>2, LitFacts
  <2>4. TrueBelow(d, n)
    BY <1>1, <1>8, <2>1, <2>3 DEF Covered, Unseen, IsFalse
  <2> QED BY <1>1, <2>4 DEF TrueBelow, IsTrue
<1>9. WatchesCover'
  <2>1. \A d \in Clauses : Len(cls[d]) >= 2 => cls[d][1] \in LitSet /\ cls[d][2] \in LitSet
    BY DEF TypeOK, Clauses
  <2>2. Clauses' = Clauses /\ cls' = cls /\ added' = added /\ added \subseteq Clauses
    BY <1>1 DEF Clauses, TypeOK
  <2> QED BY <1>8, <2>1, <2>2 DEF WatchesCover
<1> QED BY <1>3, <1>4, <1>5, <1>6, <1>7, <1>9

-----------------------------------------------------------------------------
(* A step which only touches the heap, or nothing. *)
LEMMA HeapInv ==
  ASSUME TrailInv, UNCHANGED <<D, head, Level, vals, levels, reasons, watches, cls, added,
                               bot, mode, pm, pi, px, trg>>,
         heap' \subseteq heap, \A v \in heap \ heap' : ~ IsFree(Pos(v))
  PROVE  TrailInv'
<1> USE DEF TrailInv, TrailCore
<1>1. /\ ClausesOK' /\ TrailConsistent' /\ ReasonFirst' /\ UnitsHold'
  BY DEF ClausesOK, Clauses, TrailConsistent, IsTrue, IsFalse, ReasonFirst, UnitsHold
<1>2. WatchesMatch'
  BY WatchesMatchFrame
<1>3. TypeOK' /\ ModeOK' /\ ConflictLast'
  BY DEF TypeOK, Clauses, ModeOK, ConflictLast
<1>4. LevelsOK'
  BY DEF LevelsOK, TopLevel
<1>5. ConflictFalsified'
  BY DEF ConflictFalsified, Falsified, IsFalse
<1>6. FreeVarsInHeap'
  BY DEF FreeVarsInHeap, IsFree, Pos
<1>7. \A d \in Clauses, n \in LitSet : Covered(d, n)' <=> Covered(d, n)
  BY DEF Covered, Unseen, TrueBelow, IsTrue, IsFalse
<1>8. WatchesCover'
  <2>1. \A d \in Clauses : Len(cls[d]) >= 2 => cls[d][1] \in LitSet /\ cls[d][2] \in LitSet
    BY DEF TypeOK, Clauses
  <2>2. Clauses' = Clauses /\ cls' = cls /\ added' = added /\ added \subseteq Clauses
    BY DEF Clauses, TypeOK
  <2> QED BY <1>7, <2>1, <2>2 DEF WatchesCover
<1> QED BY <1>1, <1>2, <1>3, <1>4, <1>5, <1>6, <1>8

(* The steps which assign an assumption, a guess or an asserted literal. *)
LEMMA ClientAssignInv ==
  ASSUME TrailInv,
         \/ \E c \in Clauses : ClientAssert(c)
         \/ \E m \in LitSet : \/ ClientAssume(m)
                              \/ \E popped \in SUBSET heap : ClientGuess(m, popped)
  PROVE  TrailInv'
<1>1. CASE \E c \in Clauses : ClientAssert(c)
  <2>1. PICK c \in Clauses : ClientAssert(c)
    BY <1>1
  <2>2. PICK m \in LitSet : m = cls[c][1]
    BY <2>1, ClauseLits DEF ClientAssert, TrailInv, TrailCore, TypeOK, Clauses
  <2>3. c \in Nat /\ c # CNull
    BY DEF Clauses, CNull
  <2>4. /\ mode = "idle" /\ px = CNull /\ IsFree(m) /\ Assign(m, c) /\ cls[c] # <<>>
        /\ \A k \in 2 .. Len(cls[c]) : IsFalse(cls[c][k])
        /\ UNCHANGED <<head, clauseVars, heap, loopVars>>
    BY <2>1, <2>2 DEF ClientAssert
  <2> QED BY <2>2, <2>3, <2>4, IdleAssign
<1>2. ASSUME NEW m \in LitSet, ClientAssume(m) PROVE TrailInv'
  <2>1. /\ mode = "idle" /\ px = CNull /\ IsFree(m) /\ Assign(m, CNull) /\ head = Len(D)
        /\ UNCHANGED <<head, clauseVars, heap, loopVars>> /\ CNull \in Nat
    BY <1>2 DEF ClientAssume, CNull
  <2> QED BY <2>1, IdleAssign
<1>3. ASSUME NEW m \in LitSet, NEW popped \in SUBSET heap, ClientGuess(m, popped)
      PROVE  TrailInv'
  <2>1. /\ mode = "idle" /\ px = CNull /\ IsFree(m) /\ Assign(m, CNull) /\ head = Len(D)
        /\ UNCHANGED <<head, clauseVars, loopVars>> /\ CNull \in Nat
        /\ heap' \subseteq heap
        /\ \A v \in heap \ heap' : v = Var(m) \/ ~ IsFree(Pos(v))
    BY <1>3 DEF ClientGuess, CNull
  <2> QED BY <2>1, IdleAssign
<1> QED BY <1>1, <1>2, <1>3


-----------------------------------------------------------------------------
(* What Link does to the clauses, and to the list of a literal. *)
Grown(ms) ==
  /\ cls' \in Seq(Seq(LitSet)) /\ Len(cls') = Len(cls) + 1 /\ cls'[Len(cls) + 1] = ms
  /\ \A d \in Clauses : cls'[d] = cls[d]
  /\ Clauses' = Clauses \cup {Len(cls) + 1} /\ Len(cls) + 1 \notin Clauses

ListKept(m) == watches'[m] = watches[m]

ListGrown(m, o, ms) ==
  /\ Len(watches'[m]) = Len(watches[m]) + 1
  /\ watches'[m][Len(watches[m]) + 1].c = Len(cls) + 1
  /\ watches'[m][Len(watches[m]) + 1].o = o
  /\ watches'[m][Len(watches[m]) + 1].bin <=> Len(ms) = 2
  /\ \A i \in 1 .. Len(watches[m]) : watches'[m][i] = watches[m][i]

(* Link stores the clause and extends the lists of its first two literals. *)
LEMMA LinkFacts ==
  ASSUME TypeOK, NEW ms \in Seq(LitSet), DistinctVars(ms), Link(ms)
  PROVE  /\ Grown(ms)
         /\ watches' \in [LitIndex -> Seq(Watch)]
         /\ Len(ms) < 2 => \A m \in LitSet : ListKept(m)
         /\ Len(ms) >= 2 =>
              /\ ms[1] \in LitSet /\ ms[2] \in LitSet /\ ms[1] # ms[2]
              /\ ListGrown(ms[1], ms[2], ms) /\ ListGrown(ms[2], ms[1], ms)
              /\ \A m \in LitSet : m # ms[1] /\ m # ms[2] => ListKept(m)
<1>1. Grown(ms)
  <2>1. cls \in Seq(Seq(LitSet)) /\ cls' = Append(cls, ms) /\ Len(cls) \in Nat
    BY DEF TypeOK, Link
  <2> QED BY <2>1, AppendFacts DEF Grown, Clauses
<1>2. CASE Len(ms) < 2
  BY <1>1, <1>2 DEF Link, TypeOK, ListKept
<1>3. CASE ~ (Len(ms) < 2)
  <2>1. PICK a \in LitSet, b \in LitSet : a = ms[1] /\ b = ms[2] /\ a # b
    <3>1. 1 \in 1 .. Len(ms) /\ 2 \in 1 .. Len(ms)
      BY <1>3
    <3>2. ms[1] \in LitSet /\ ms[2] \in LitSet
      BY <3>1
    <3>3. ms[1] # ms[2]
      BY <3>1 DEF DistinctVars
    <3> QED BY <3>2, <3>3
  <2>2. PICK wa \in Watch, wb \in Watch :
           /\ wa = MakeWatch(Len(cls) + 1, b, Len(ms) = 2)
           /\ wb = MakeWatch(Len(cls) + 1, a, Len(ms) = 2)
    <3>1. Len(cls) + 1 \in Nat /\ (Len(ms) = 2) \in BOOLEAN
      BY DEF TypeOK
    <3> QED BY <3>1 DEF Watch, MakeWatch
  <2>3. /\ wa.c = Len(cls) + 1 /\ wa.o = b /\ (wa.bin <=> Len(ms) = 2)
         /\ wb.c = Len(cls) + 1 /\ wb.o = a /\ (wb.bin <=> Len(ms) = 2)
    BY <2>2 DEF MakeWatch
  <2>4. a \in LitIndex /\ b \in LitIndex /\ watches \in [LitIndex -> Seq(Watch)]
    BY IndexFacts DEF TypeOK
  <2>5. watches' = [watches EXCEPT ![a] = Append(@, wa), ![b] = Append(@, wb)]
    BY <1>3, <2>1, <2>2 DEF Link
  <2>6. watches[a] \in Seq(Watch) /\ watches[b] \in Seq(Watch)
    BY <2>4
  <2>7. Append(watches[a], wa) \in Seq(Watch) /\ Append(watches[b], wb) \in Seq(Watch)
    BY <2>6, AppendFacts
  <2>8. /\ watches'[a] = Append(watches[a], wa) /\ watches'[b] = Append(watches[b], wb)
        /\ \A m \in LitSet : m # a /\ m # b => watches'[m] = watches[m]
        /\ watches' \in [LitIndex -> Seq(Watch)]
    BY <2>1, <2>4, <2>5, <2>7, IndexFacts
  <2>9. ListGrown(a, b, ms) /\ ListGrown(b, a, ms)
    <3>1. /\ Len(watches'[a]) = Len(watches[a]) + 1 /\ watches'[a][Len(watches[a]) + 1] = wa
          /\ \A i \in 1 .. Len(watches[a]) : watches'[a][i] = watches[a][i]
      BY <2>6, <2>8, AppendFacts
    <3>2. /\ Len(watches'[b]) = Len(watches[b]) + 1 /\ watches'[b][Len(watches[b]) + 1] = wb
          /\ \A i \in 1 .. Len(watches[b]) : watches'[b][i] = watches[b][i]
      BY <2>6, <2>8, AppendFacts
    <3> QED BY <2>3, <3>1, <3>2, Zenon DEF ListGrown
  <2> QED BY <1>1, <1>3, <2>1, <2>8, <2>9 DEF ListKept
<1> QED BY <1>2, <1>3

(* The new clause is in no list before, so the watches match afterwards. *)
LEMMA LinkMatch ==
  ASSUME TypeOK, WatchesMatch, NEW ms \in Seq(LitSet), DistinctVars(ms), Link(ms)
  PROVE  WatchesMatch'
<1>1. /\ Grown(ms) /\ watches' \in [LitIndex -> Seq(Watch)] /\ Len(cls) \in Nat
      /\ Len(ms) \in Nat
  BY LinkFacts DEF TypeOK
<1> DEFINE c == Len(cls) + 1
<1>2. ASSUME NEW m \in LitSet, NEW i \in 1 .. Len(watches[m])
      PROVE  /\ WatchOK(m, watches[m][i]) /\ watches[m][i].c \in Clauses
             /\ watches[m][i].c # c
  <2>1. PICK w : w = watches[m][i]
    OBVIOUS
  <2>2. WatchOK(m, w)
    BY <2>1 DEF WatchesMatch
  <2>3. w.c \in Clauses /\ w.c # c
    BY <1>1, <2>2 DEF WatchOK, Grown
  <2> QED BY <2>1, <2>2, <2>3
<1>3. ASSUME NEW m \in LitSet
      PROVE  \/ ListKept(m)
             \/ \E o \in LitSet : /\ ListGrown(m, o, ms) /\ Len(ms) >= 2 /\ o # m
                                  /\ {m, o} = {ms[1], ms[2]}
  BY <1>1, LinkFacts
<1>4. ASSUME NEW m \in LitSet, NEW w, WatchOK(m, w)
      PROVE  WatchOK(m, w)'
  <2>1. w.c \in Clauses /\ cls'[w.c] = cls[w.c] /\ w.c \in Clauses'
    BY <1>1, <1>4 DEF WatchOK, Grown
  <2> QED BY <1>4, <2>1 DEF WatchOK, Watched
<1>5. ASSUME NEW m \in LitSet, NEW o \in LitSet, Len(ms) >= 2, o # m,
             {m, o} = {ms[1], ms[2]}, NEW w \in Watch, w.c = c, w.o = o, w.bin <=> Len(ms) = 2
      PROVE  WatchOK(m, w)'
  <2>1. c \in Clauses' /\ cls'[c] = ms
    BY <1>1 DEF Grown
  <2>2. \E k \in 1 .. Len(ms) : ms[k] = o
    <3>1. 1 \in 1 .. Len(ms) /\ 2 \in 1 .. Len(ms)
      BY <1>1, <1>5
    <3> QED BY <1>5, <3>1
  <2> QED BY <1>5, <2>1, <2>2 DEF WatchOK, Watched
<1>6. (\A m \in LitSet : \A i \in 1 .. Len(watches[m]) : WatchOK(m, watches[m][i]))'
  <2>1. SUFFICES ASSUME NEW m \in LitSet, NEW i \in 1 .. Len(watches'[m])
                 PROVE  (WatchOK(m, watches[m][i]))'
    OBVIOUS
  <2>2. Len(watches[m]) \in Nat
    BY IndexFacts DEF TypeOK
  <2>3. CASE ListKept(m)
    BY <1>2, <1>4, <2>3 DEF ListKept
  <2>4. CASE ~ ListKept(m)
    <3>1. PICK o \in LitSet : /\ ListGrown(m, o, ms) /\ Len(ms) >= 2 /\ o # m
                              /\ {m, o} = {ms[1], ms[2]}
      BY <1>3, <2>4
    <3>2. CASE i \in 1 .. Len(watches[m])
      BY <1>2, <1>4, <3>1, <3>2 DEF ListGrown
    <3>3. CASE i = Len(watches[m]) + 1
      <4>1. PICK w \in Watch : w = watches'[m][i]
        BY <1>1, IndexFacts
      <4>2. w.c = c /\ w.o = o /\ (w.bin <=> Len(ms) = 2)
        BY <3>1, <3>3, <4>1 DEF ListGrown
      <4>3. WatchOK(m, w)'
        BY <1>5, <3>1, <4>2
      <4> QED BY <4>1, <4>3
    <3> QED BY <2>2, <3>1, <3>2, <3>3 DEF ListGrown
  <2> QED BY <2>3, <2>4
<1>7. ASSUME NEW m \in LitSet PROVE WatchesOnce(m)'
  <2>1. WatchesOnce(m)
    BY DEF WatchesMatch
  <2>2. CASE ListKept(m)
    BY <2>1, <2>2 DEF WatchesOnce, ListKept
  <2>3. CASE ~ ListKept(m)
    <3>1. PICK o \in LitSet : ListGrown(m, o, ms)
      BY <1>3, <2>3
    <3>2. Len(watches[m]) \in Nat
      BY IndexFacts DEF TypeOK
    <3>3. watches'[m][Len(watches[m]) + 1].c = c
      BY <3>1 DEF ListGrown
    <3>4. \A i \in 1 .. Len(watches[m]) :
            watches'[m][i] = watches[m][i] /\ watches'[m][i].c # c
      BY <1>2, <3>1 DEF ListGrown
    <3>5. \A i \in 1 .. Len(watches'[m]) : i \in 1 .. Len(watches[m]) \/ i = Len(watches[m]) + 1
      BY <3>1, <3>2 DEF ListGrown
    <3> QED BY <2>1, <3>3, <3>4, <3>5 DEF WatchesOnce
  <2> QED BY <2>2, <2>3
<1>8. ASSUME NEW d \in Clauses', Len(cls'[d]) >= 2, NEW m, m \in {cls'[d][1], cls'[d][2]}
      PROVE  \E i \in 1 .. Len(watches'[m]) : watches'[m][i].c = d
  <2>1. CASE d = c
    <3>1. m \in {ms[1], ms[2]} /\ Len(ms) >= 2
      BY <1>1, <1>8, <2>1 DEF Grown
    <3>2. PICK o : ListGrown(m, o, ms) /\ m \in LitSet
      BY <3>1, LinkFacts
    <3>3. Len(watches[m]) + 1 \in 1 .. Len(watches'[m])
      BY <3>2, IndexFacts DEF ListGrown, TypeOK
    <3> QED BY <2>1, <3>2, <3>3 DEF ListGrown
  <2>2. CASE d # c
    <3>1. d \in Clauses /\ cls'[d] = cls[d]
      BY <1>1, <2>2 DEF Grown
    <3>2. m \in LitSet
      BY <1>8, <3>1, ClauseLits DEF TypeOK, Clauses
    <3>3. PICK i \in 1 .. Len(watches[m]) : watches[m][i].c = d
      <4>1. Len(cls[d]) >= 2 /\ m \in Watched(d)
        BY <1>8, <3>1 DEF Watched
      <4>2. Watches(m, d)
        BY <3>1, <4>1 DEF WatchesMatch
      <4> QED BY <4>2 DEF Watches
    <3>4. Len(watches[m]) \in Nat
      BY <3>2, IndexFacts DEF TypeOK
    <3>5. i \in 1 .. Len(watches'[m]) /\ watches'[m][i] = watches[m][i]
      BY <1>3, <3>2, <3>3, <3>4 DEF ListKept, ListGrown
    <3> QED BY <3>3, <3>5
  <2> QED BY <2>1, <2>2
<1> QED BY <1>6, <1>7, <1>8 DEF WatchesMatch, Watched, Watches


(* What a new clause leaves alone. *)
LEMMA GrownKeeps ==
  ASSUME TrailCore, NEW ms \in Seq(LitSet), DistinctVars(ms), Grown(ms)
  PROVE  /\ ClausesOK'
         /\ \A c \in Clauses : SameLits(c)
         /\ \A i \in 1 .. Len(D) : reasons[Var(D[i])] # CNull =>
              cls'[reasons[Var(D[i])]] = cls[reasons[Var(D[i])]]
<1>1. ClausesOK'
  BY DEF TrailCore, ClausesOK, Grown
<1>2. \A c \in Clauses : SameLits(c)
  BY DEF SameLits, Grown
<1>3. \A i \in 1 .. Len(D) : reasons[Var(D[i])] # CNull =>
        cls'[reasons[Var(D[i])]] = cls[reasons[Var(D[i])]]
  BY DEF TrailCore, ReasonFirst, Grown
<1> QED BY <1>1, <1>2, <1>3

(* The watches cover the clauses after a new one, if they still cover the  *)
(* old ones and cover the new one as it needs.                             *)
LEMMA GrownCover ==
  ASSUME TrailCore, WatchesCover, NEW ms \in Seq(LitSet), Grown(ms), NEW c, c = Len(cls) + 1,
         \A d \in Clauses, n \in LitSet : Covered(d, n) => Covered(d, n)',
         added' \subseteq added \cup {c},
         Len(ms) >= 2 => Covered(c, ms[1])',
         Len(ms) >= 2 /\ c \in added' => Covered(c, ms[2])'
  PROVE  WatchesCover'
<1> SUFFICES ASSUME NEW d \in Clauses', Len(cls'[d]) >= 2
             PROVE  /\ Covered(d, cls[d][1])' \/ Covered(d, cls[d][2])'
                    /\ d \in added' => Covered(d, cls[d][1])' /\ Covered(d, cls[d][2])'
  BY DEF WatchesCover
<1>1. PICK x, y : x = cls'[d][1] /\ y = cls'[d][2]
  OBVIOUS
<1>2. SUFFICES /\ Covered(d, x)' \/ Covered(d, y)'
               /\ d \in added' => Covered(d, x)' /\ Covered(d, y)'
  BY <1>1
<1>3. CASE d = c
  BY <1>1, <1>3 DEF Grown
<1>4. CASE d # c
  <2>1. d \in Clauses /\ cls'[d] = cls[d]
    BY <1>4 DEF Grown
  <2>2. x \in LitSet /\ y \in LitSet
    BY <1>1, <2>1, ClauseLits DEF TrailCore, TypeOK, Clauses
  <2>3. d \in added' => d \in added
    BY <1>4
  <2>4. /\ Covered(d, x) \/ Covered(d, y)
        /\ d \in added => Covered(d, x) /\ Covered(d, y)
    BY <1>1, <2>1 DEF WatchesCover
  <2> QED BY <2>1, <2>2, <2>3, <2>4
<1> QED BY <1>3, <1>4

(* A learned clause: its first literal is of the conflict's level, which   *)
(* is about to be undone.                                                  *)
LEMMA LearnInv ==
  ASSUME TrailInv, NEW ms \in Seq(LitSet), mode = "idle", px # CNull, Asserting(ms), Learn(ms)
  PROVE  TrailInv'
<1> USE DEF TrailInv, TrailCore
<1>1. /\ ms \in Seq(LitSet) /\ DistinctVars(ms) /\ Link(ms) /\ Len(ms) \in Nat
      /\ mode = "idle" /\ px # CNull /\ levels[Var(ms[1])] = Level
      /\ UNCHANGED <<D, head, Level, vals, levels, reasons, added, bot, heap,
                     mode, pm, pi, px, trg>>
  BY DEF Learn, Asserting, assignVars, loopVars
<1>2. /\ Grown(ms) /\ watches' \in [LitIndex -> Seq(Watch)] /\ WatchesMatch'
      /\ Len(cls) \in Nat
  BY <1>1, LinkFacts, LinkMatch DEF TypeOK
<1>3. /\ ClausesOK' /\ \A c \in Clauses : SameLits(c)
      /\ \A i \in 1 .. Len(D) : reasons[Var(D[i])] # CNull =>
           cls'[reasons[Var(D[i])]] = cls[reasons[Var(D[i])]]
  BY <1>1, <1>2, GrownKeeps
<1>4. TypeOK'
  BY <1>1, <1>2 DEF TypeOK, Grown
<1>5. ModeOK' /\ ConflictLast' /\ TrailConsistent' /\ FreeVarsInHeap'
  BY <1>1 DEF ModeOK, ConflictLast, TrailConsistent, FreeVarsInHeap, IsTrue, IsFalse, IsFree
<1>6. LevelsOK'
  BY <1>1 DEF LevelsOK, TopLevel
<1>7. ReasonFirst'
  <2>1. SUFFICES ASSUME NEW i \in 1 .. Len(D), reasons[Var(D[i])] # CNull
                 PROVE  LET r == reasons[Var(D[i])]
                        IN  /\ r \in Clauses' /\ cls'[r] # <<>> /\ cls'[r][1] = D[i]
                            /\ \A k \in 2 .. Len(cls'[r]) :
                                 \E j \in 1 .. (i - 1) : D[j] = Not(cls'[r][k])
    BY ZenonT(40), <1>1 DEF ReasonFirst
  <2>2. PICK r : r = reasons[Var(D[i])] /\ r # CNull /\ cls'[r] = cls[r]
    BY <1>3, <2>1
  <2>3. /\ r \in Clauses /\ cls[r] # <<>> /\ cls[r][1] = D[i]
        /\ \A k \in 2 .. Len(cls[r]) : \E j \in 1 .. (i - 1) : D[j] = Not(cls[r][k])
    BY <2>1, <2>2 DEF ReasonFirst
  <2>4. r \in Clauses'
    BY <1>2, <2>3 DEF Grown
  <2> QED BY <2>2, <2>3, <2>4
<1>8. UnitsHold'
  BY <1>1, <1>2 DEF UnitsHold, TypeOK, Grown, IsTrue
<1>9. ConflictFalsified'
  <2>1. px \in Clauses /\ cls'[px] = cls[px]
    BY <1>1, <1>2 DEF TypeOK, Grown
  <2> QED BY <1>1, <2>1 DEF ConflictFalsified, Falsified, IsFalse
<1>10. WatchesCover'
  <2>1. KeepsAssigned
    BY <1>1 DEF KeepsAssigned
  <2>2. ASSUME NEW d \in Clauses, NEW n \in LitSet, Covered(d, n)
        PROVE  Covered(d, n)'
    <3>1. ~ (IsFree(n) /\ vals'[n] = -1)
      BY <1>1 DEF IsFree
    <3>2. Unseen(n, d) => Unseen(n, d)'
      BY <1>1 DEF Unseen
    <3>3. vals'[n] = -1 => Unseen(n, d)' \/ TrueBelow(d, n)'
      BY <1>3, <2>1, <2>2, <3>1, <3>2, CoveredKept
    <3> QED BY <3>3 DEF Covered, IsFalse
  <2>3. PICK c : c = Len(cls) + 1
    OBVIOUS
  <2>4. Covered(c, ms[1])'
    BY <1>1 DEF Covered, Unseen
  <2>5. added' \subseteq added \cup {c} /\ c \notin added'
    BY <1>1, <1>2, <2>3 DEF TypeOK, Grown
  <2> QED BY <1>1, <1>2, <2>2, <2>3, <2>4, <2>5, GrownCover
<1> QED BY <1>2, <1>3, <1>4, <1>5, <1>6, <1>7, <1>8, <1>9, <1>10


(* An added clause has only literals without value.  A unit is assigned    *)
(* with itself as reason.                                                  *)
LEMMA AddCore ==
  ASSUME TrailCore, NEW ms \in Seq(LitSet), mode = "idle", Level = 0,
         DistinctVars(ms), \A i \in 1 .. Len(ms) : IsFree(ms[i]), AddClause(ms)
  PROVE  TrailCore' /\ (WatchesCover /\ px = CNull => WatchesCover')
<1> USE DEF TrailCore
<1>1. PICK c \in Nat : c = Len(cls) + 1 /\ c # CNull
  BY DEF TypeOK, CNull
<1>2. /\ ms \in Seq(LitSet) /\ DistinctVars(ms) /\ Link(ms) /\ Len(ms) \in Nat
      /\ mode = "idle" /\ Level = 0
      /\ added' = added \cup {c} /\ bot' \in {bot, c}
      /\ UNCHANGED <<head, heap, mode, pm, pi, px, trg>>
      /\ \A i \in 1 .. Len(ms) : ms[i] \in LitSet /\ vals[ms[i]] = 0
  BY <1>1 DEF AddClause, assignVars, loopVars, IsFree
<1>3. /\ Grown(ms) /\ watches' \in [LitIndex -> Seq(Watch)] /\ WatchesMatch'
      /\ cls'[c] = ms /\ Clauses' = Clauses \cup {c}
  BY <1>1, <1>2, LinkFacts, LinkMatch DEF Grown
<1>4. /\ ClausesOK' /\ \A d \in Clauses : SameLits(d)
      /\ \A i \in 1 .. Len(D) : reasons[Var(D[i])] # CNull =>
           cls'[reasons[Var(D[i])]] = cls[reasons[Var(D[i])]]
  BY <1>2, <1>3, GrownKeeps
<1>5. ASSUME px # CNull
      PROVE  /\ px \in Clauses /\ Falsified(px) /\ cls'[px] = cls[px]
             /\ \E k \in 1 .. Len(cls[px]) : levels[Var(cls[px][k])] = 0
  BY <1>2, <1>3, <1>5 DEF ConflictFalsified, TypeOK, Grown
<1>6. CASE Len(ms) = 1
  <2>1. PICK m \in LitSet : m = ms[1] /\ IsFree(m)
    BY <1>2, <1>6 DEF IsFree
  <2>2. Assign(m, c)
    BY <1>1, <1>6, <2>1 DEF AddClause
  <2>3. AssignEffect(m, c) /\ KeepsAssigned
    BY <2>1, <2>2, AssignFacts, AssignKeeps
  <2>4. Level' = 0 /\ Level' = Level
    BY <1>1, <1>2, <2>3 DEF AssignEffect
  <2>5. TypeOK'
    BY <1>1, <1>2, <1>3, <2>3 DEF TypeOK, AssignEffect, Grown
  <2>6. ModeOK'
    BY <1>2, <2>3 DEF TypeOK, ModeOK, AssignEffect
  <2>7. LevelsOK' /\ TrailConsistent'
    <3>1. TrailConsistent'
      BY <1>2, <2>1, <2>2, AssignConsistent
    <3>2. LevelsOK'
      BY <1>1, <1>2, <2>1, <2>2, AssignLevels
    <3> QED BY <3>1, <3>2
  <2>8. ReasonFirst'
    <3>1. Len(cls') \in Nat /\ Len(cls') >= Len(cls)
      BY <1>1, <1>3 DEF TypeOK, Grown
    <3>2. /\ c \in Clauses' /\ cls'[c] # <<>> /\ cls'[c][1] = m
          /\ \A k \in 2 .. Len(cls'[c]) : cls'[c][k] \in LitSet /\ IsFalse(cls'[c][k])
      <4>1. ms # <<>> /\ \A k \in 2 .. Len(ms) : FALSE
        <5>1. ms # <<>>
          <6>1. Len(<<>>) = 0 /\ 0 # 1
            OBVIOUS
          <6> QED BY Zenon, <1>6, <6>1
        <5> QED BY <1>6, <5>1
      <4> QED BY <1>3, <2>1, <4>1
    <3> QED BY <1>4, <2>1, <2>2, <3>1, <3>2, AssignReasons
  <2>9. UnitsHold'
    <3>1. ASSUME NEW d \in added', Len(cls'[d]) = 1
          PROVE  vals'[cls'[d][1]] = 1 /\ levels'[Var(cls'[d][1])] = 0
      <4>1. CASE d = c
        <5>1. vals'[m] = 1 /\ levels'[Var(m)] = 0
          BY <2>3, <2>4, LitFacts DEF AssignEffect
        <5> QED BY <1>3, <2>1, <4>1, <5>1
      <4>2. CASE d # c
        <5>1. d \in added /\ cls'[d] = cls[d]
          BY <1>2, <1>3, <3>1, <4>2 DEF TypeOK, Grown
        <5> QED BY <2>1, <2>2, <3>1, <5>1, AssignUnitsHeap
      <4> QED BY <4>1, <4>2
    <3> QED BY <3>1 DEF UnitsHold, IsTrue
  <2>10. FreeVarsInHeap'
    <3>1. \A v \in VarSet : IsFree(Pos(v))' => v \in heap /\ v # Var(m)
      BY <2>1, <2>2, AssignUnitsHeap
    <3> QED BY <1>2, <3>1 DEF FreeVarsInHeap
  <2>13. ConflictFalsified'
    <3>1. ASSUME px # CNull
          PROVE  /\ \A k \in 1 .. Len(cls[px]) : vals'[cls[px][k]] = -1
                 /\ \E k \in 1 .. Len(cls[px]) : levels'[Var(cls[px][k])] = 0
      <4>1. px \in 1 .. Len(cls) /\ cls \in Seq(Seq(LitSet))
        BY <1>5, <3>1 DEF Clauses, TypeOK
      <4>2. \A k \in 1 .. Len(cls[px]) : cls[px][k] \in LitSet /\ vals[cls[px][k]] = -1
        BY <1>5, <3>1, <4>1, ClauseLits DEF Falsified, IsFalse
      <4>3. \A n \in LitSet : vals[n] = -1 =>
              vals'[n] = -1 /\ levels'[Var(n)] = levels[Var(n)]
        BY <2>3 DEF KeepsAssigned, IsFree
      <4> QED BY <1>5, <3>1, <4>2, <4>3
    <3> QED BY <1>2, <1>5, <2>4, <3>1 DEF ConflictFalsified, Falsified, IsFalse
  <2>11. ASSUME px = CNull, NEW d \in Clauses, NEW n \in LitSet, Covered(d, n)
         PROVE  Covered(d, n)'
    <3>1. ASSUME IsFree(n), vals'[n] = -1 PROVE Unseen(n, d)'
      <4>1. m = Not(n)
        <5>1. vals[n] = 0 /\ vals'[n] = IF n = m THEN 1 ELSE IF n = Not(m) THEN -1 ELSE vals[n]
          BY <3>1, <2>3 DEF AssignEffect, IsFree
        <5>2. n = Not(m)
          BY <3>1, <5>1
        <5> QED BY <5>2, LitFacts
      <4>2. Len(D') \in (head' + 1) .. Len(D') /\ D'[Len(D')] = Not(n)
        BY <4>1, <1>2, <2>3 DEF AssignEffect, TypeOK, ModeOK
      <4> QED BY <1>2, <4>2 DEF Unseen
    <3>2. ASSUME Unseen(n, d) PROVE Unseen(n, d)'
      <4>1. PICK i \in (head + 1) .. Len(D) : D[i] = Not(n)
        BY <1>2, <2>11, <3>2 DEF Unseen
      <4>2. i \in (head' + 1) .. Len(D') /\ D'[i] = Not(n)
        BY <4>1, <1>2, <2>3 DEF AssignEffect, TypeOK
      <4> QED BY <1>2, <4>2 DEF Unseen
    <3>3. vals'[n] = -1 => Unseen(n, d)' \/ TrueBelow(d, n)'
      BY <1>4, <2>3, <2>11, <3>1, <3>2, CoveredKept
    <3> QED BY <3>3 DEF Covered, IsFalse
  <2>12. ASSUME WatchesCover, px = CNull PROVE WatchesCover'
    <3>1. \A d \in Clauses, n \in LitSet : Covered(d, n) => Covered(d, n)'
      BY <2>11, <2>12
    <3>2. added' \subseteq added \cup {c} /\ ~ (Len(ms) >= 2)
      BY <1>2, <1>6
    <3> QED BY <1>1, <1>2, <1>3, <2>12, <3>1, <3>2, GrownCover, Zenon
  <2> QED BY <1>3, <1>4, <2>5, <2>6, <2>7, <2>8, <2>9, <2>10, <2>12, <2>13
<1>7. CASE Len(ms) # 1
  <2>1. UNCHANGED <<D, Level, vals, levels, reasons>>
    BY <1>7 DEF AddClause, assignVars
  <2>2. TypeOK'
    BY <1>1, <1>2, <1>3, <2>1 DEF TypeOK, Grown
  <2>3. ModeOK' /\ TrailConsistent' /\ FreeVarsInHeap'
    BY <1>2, <2>1 DEF ModeOK, TrailConsistent, FreeVarsInHeap, IsTrue, IsFalse, IsFree
  <2>4. LevelsOK'
    BY <1>2, <2>1 DEF LevelsOK, TopLevel
  <2>5. ReasonFirst'
    <3>1. SUFFICES ASSUME NEW i \in 1 .. Len(D), reasons[Var(D[i])] # CNull
                   PROVE  LET r == reasons[Var(D[i])]
                          IN  /\ r \in Clauses' /\ cls'[r] # <<>> /\ cls'[r][1] = D[i]
                              /\ \A k \in 2 .. Len(cls'[r]) :
                                   \E j \in 1 .. (i - 1) : D[j] = Not(cls'[r][k])
      BY <2>1 DEF ReasonFirst
    <3>2. PICK r : r = reasons[Var(D[i])] /\ r # CNull /\ cls'[r] = cls[r]
      BY <1>4, <3>1
    <3>3. /\ r \in Clauses /\ cls[r] # <<>> /\ cls[r][1] = D[i]
          /\ \A k \in 2 .. Len(cls[r]) : \E j \in 1 .. (i - 1) : D[j] = Not(cls[r][k])
      BY <3>1, <3>2 DEF ReasonFirst
    <3> QED BY <1>3, <3>2, <3>3
  <2>6. UnitsHold'
    <3>1. ASSUME NEW d \in added', Len(cls'[d]) = 1 PROVE d \in added /\ cls'[d] = cls[d]
      BY <1>2, <1>3, <1>7, <3>1 DEF TypeOK, Grown
    <3> QED BY <2>1, <3>1 DEF UnitsHold, IsTrue
  <2>7. KeepsAssigned
    BY <2>1 DEF KeepsAssigned
  <2>11. ConflictFalsified'
    BY <1>2, <1>5, <2>1 DEF ConflictFalsified, Falsified, IsFalse
  <2>8. ASSUME NEW d \in Clauses, NEW n \in LitSet, Covered(d, n)
        PROVE  Covered(d, n)'
    <3>1. ~ (IsFree(n) /\ vals'[n] = -1)
      BY <2>1 DEF IsFree
    <3>2. Unseen(n, d) => Unseen(n, d)'
      BY <1>2, <2>1 DEF Unseen
    <3>3. vals'[n] = -1 => Unseen(n, d)' \/ TrueBelow(d, n)'
      BY <1>4, <2>7, <2>8, <3>1, <3>2, CoveredKept
    <3> QED BY <3>3 DEF Covered, IsFalse
  <2>9. Len(ms) >= 2 => Covered(c, ms[1])' /\ Covered(c, ms[2])'
    BY <1>2, <2>1 DEF Covered, IsFalse
  <2>10. ASSUME WatchesCover PROVE WatchesCover'
    BY <1>1, <1>2, <1>3, <2>8, <2>9, <2>10, GrownCover
  <2> QED BY <1>3, <1>4, <2>2, <2>3, <2>4, <2>5, <2>6, <2>10, <2>11
<1> QED BY <1>6, <1>7

(* Without a conflict it keeps the whole invariant. *)
LEMMA AddInv ==
  ASSUME TrailInv, NEW ms \in Seq(LitSet), mode = "idle", px = CNull, Level = 0,
         DistinctVars(ms), \A i \in 1 .. Len(ms) : IsFree(ms[i]), AddClause(ms)
  PROVE  TrailInv'
<1>1. TrailCore' /\ WatchesCover'
  BY AddCore DEF TrailInv
<1>2. px' = CNull
  BY DEF AddClause, loopVars
<1> QED BY <1>1, <1>2 DEF TrailInv, ConflictLast


-----------------------------------------------------------------------------
(* Every step preserves the invariant. *)
LEMMA InitInv == TrailInit => TrailInv
<1> SUFFICES ASSUME TrailInit PROVE TrailInv
  OBVIOUS
<1>1. /\ D = <<>> /\ cls = <<>> /\ Len(D) = 0 /\ Len(cls) = 0 /\ Clauses = {} /\ added = {}
      /\ head = 0 /\ Level = 0 /\ mode = "idle" /\ px = CNull /\ heap = VarSet /\ trg = 0
      /\ \A m \in LitSet : vals[m] = 0 /\ watches[m] = <<>> /\ Len(watches[m]) = 0
  BY IndexFacts DEF TrailInit, Clauses
<1>2. TypeOK
  BY <1>1 DEF TrailInit, TypeOK, CNull
<1>3. ModeOK /\ ConflictLast /\ LevelsOK /\ ClausesOK
  BY <1>1 DEF ModeOK, ConflictLast, LevelsOK, ClausesOK, TopLevel
<1>4. TrailConsistent /\ ReasonFirst /\ UnitsHold
  <2>1. \A m \in LitSet : ~ IsTrue(m) /\ ~ IsFalse(m) /\ ~ IsTrue(Not(m))
    BY <1>1, LitFacts DEF IsTrue, IsFalse
  <2> QED BY <1>1, <2>1 DEF TrailConsistent, ReasonFirst, UnitsHold
<1>5. WatchesMatch /\ WatchesCover
  BY <1>1 DEF WatchesMatch, WatchesCover, WatchesOnce
<1>6. ConflictFalsified /\ FreeVarsInHeap
  BY <1>1 DEF ConflictFalsified, FreeVarsInHeap
<1> QED BY <1>2, <1>3, <1>4, <1>5, <1>6 DEF TrailInv, TrailCore

(* A step which leaves the trail alone preserves the core. *)
LEMMA CoreFrame ==
  ASSUME TrailCore, UNCHANGED trailVars
  PROVE  TrailCore'
<1> USE DEF TrailCore
<1>1. /\ UNCHANGED <<D, head, Level, vals, levels, reasons, watches, cls, added, bot, heap,
                     mode, pm, pi, px, trg>>
      /\ UNCHANGED <<assignVars, cls, added, heap>> /\ UNCHANGED <<watches, cls>>
  BY DEF trailVars, assignVars
<1>2. ClausesOK' /\ TrailConsistent' /\ ReasonFirst' /\ UnitsHold' /\ FreeVarsInHeap'
  BY <1>1, AssignmentFrame
<1>3. WatchesMatch'
  BY <1>1, WatchesMatchFrame
<1>4. TypeOK' /\ ModeOK'
  BY <1>1 DEF TypeOK, ModeOK, Clauses
<1>5. LevelsOK' /\ ConflictFalsified'
  BY <1>1 DEF LevelsOK, TopLevel, ConflictFalsified, Falsified, IsFalse
<1> QED BY <1>2, <1>3, <1>4, <1>5

(* Every step of the trail preserves the invariant. *)
LEMMA NextInv ==
  ASSUME TrailInv, [TrailNext]_trailVars
  PROVE  TrailInv'
<1>1. CASE Client
  <2>1. ASSUME NEW ms \in ClauseSpace, ClientAdd(ms) PROVE TrailInv'
    BY <2>1, AddInv, ClauseSpaceAssumption DEF ClientAdd
  <2>2. ASSUME NEW ms \in ClauseSpace, ClientLearn(ms) PROVE TrailInv'
    BY <2>2, LearnInv, ClauseSpaceAssumption DEF ClientLearn
  <2>3. CASE \/ \E c \in Clauses : ClientAssert(c)
             \/ \E m \in LitSet : \/ ClientAssume(m)
                                  \/ \E popped \in SUBSET heap : ClientGuess(m, popped)
    BY <2>3, ClientAssignInv
  <2>4. CASE ClientGuessNone
    BY <2>4, HeapInv DEF ClientGuessNone, assignVars, clauseVars, loopVars
  <2>5. CASE ClientProp
    BY <2>5, PropInv
  <2>6. ASSUME NEW l \in 0 .. Level, ClientBack(l) PROVE TrailInv'
    BY <2>6, BackStartInv
  <2> QED BY <1>1, <2>1, <2>2, <2>3, <2>4, <2>5, <2>6 DEF Client
<1>2. CASE PropStep
  BY <1>2, PropInv
<1>3. CASE BackStep
  BY <1>3, BackPopInv, BackStopInv DEF BackStep
<1>4. CASE UNCHANGED trailVars
  BY <1>4, HeapInv DEF trailVars
<1> QED BY <1>1, <1>2, <1>3, <1>4 DEF TrailNext

(* The invariant of Trail.Assign, Back and Prop, the clause database and   *)
(* the guess heap holds in every reachable state, whatever the clauses and *)
(* the order in which xo.S calls them.                                     *)
THEOREM TrailInvariant == TrailSpec => []TrailInv
<1>1. TrailInit => TrailInv
  BY InitInv
<1>2. TrailInv /\ [TrailNext]_trailVars => TrailInv'
  BY NextInv
<1> QED BY <1>1, <1>2, PTL DEF TrailSpec


-----------------------------------------------------------------------------
(* What the invariant says of the code.                                    *)

(* Types: every array of xo.Vars and Cdb keeps its type through any        *)
(* sequence of Add, Learn, Assign, Prop and Back.                          *)
THEOREM TypeCorrect == TrailSpec => []TypeOK
BY TrailInvariant, PTL DEF TrailInv, TrailCore

(* Vars.Vals and the trail agree, no variable is assigned twice and levels *)
(* do not decrease along the trail (Trail.Assign and Trail.Back).          *)
THEOREM Consistent == TrailSpec => []TrailConsistent
BY TrailInvariant, PTL DEF TrailInv, TrailCore

(* The reason of an implied literal always has it first, with its other    *)
(* literals false and earlier on the trail, although Prop permutes clauses *)
(* all the time: what Derive, Why and Reasons rest on.                     *)
THEOREM ReasonsFirst == TrailSpec => []ReasonFirst
BY TrailInvariant, PTL DEF TrailInv, TrailCore

(* The watch lists match the first two literals of every clause, the       *)
(* checks of Cdb.CheckWatches, in the middle of Prop too.                  *)
THEOREM WatchListsMatch == TrailSpec => []WatchesMatch
BY TrailInvariant, PTL DEF TrailInv, TrailCore

(* An added unit clause is true at level 0 forever (S.Add, Trail.Back). *)
THEOREM UnitsTrue == TrailSpec => []UnitsHold
BY TrailInvariant, PTL DEF TrailInv, TrailCore

(* A conflict that Prop returns is falsified and has a literal of the      *)
(* current level, so Deriver.Derive's count starts above zero.             *)
THEOREM ConflictsFalsified == TrailSpec => []ConflictFalsified
BY TrailInvariant, PTL DEF TrailInv, TrailCore

(* Every unassigned variable is in the guess heap, so Guess.Guess returns  *)
(* LitNull only if all variables have a value.                             *)
THEOREM HeapComplete == TrailSpec => []FreeVarsInHeap
BY TrailInvariant, PTL DEF TrailInv, TrailCore

(* A watched literal which does its duty after Prop has returned CNull and *)
(* is false has a true literal in its clause.                              *)
LEMMA PropagatedCover ==
  ASSUME TrailInv, Propagated, NEW c \in Clauses, NEW m \in LitSet,
         Covered(c, m), IsFalse(m)
  PROVE  \E k \in 1 .. Len(cls[c]) : IsTrue(cls[c][k])
<1>1. mode = "idle" /\ px = CNull /\ \A i \in (head + 1) .. Len(D) : FALSE
  BY DEF Propagated, TrailInv, TrailCore, TypeOK
<1>2. ~ Unseen(m, c)
  BY <1>1 DEF Unseen
<1> QED BY <1>2 DEF Covered, TrueBelow

(* A falsified clause would have a watched literal that nothing covers. *)
LEMMA NoneFalsified == TrailInv => NoFalsifiedClause
<1> SUFFICES ASSUME TrailInv, Propagated, NEW c \in Clauses, Len(cls[c]) >= 2, Falsified(c)
             PROVE  FALSE
  BY DEF NoFalsifiedClause
<1>1. /\ cls[c][1] \in LitSet /\ cls[c][2] \in LitSet
      /\ 1 \in 1 .. Len(cls[c]) /\ 2 \in 1 .. Len(cls[c])
  BY ClauseLits DEF TrailInv, TrailCore, TypeOK, Clauses
<1>2. Covered(c, cls[c][1]) \/ Covered(c, cls[c][2])
  BY DEF TrailInv, TrailCore, WatchesCover
<1>3. IsFalse(cls[c][1]) /\ IsFalse(cls[c][2])
  BY <1>1 DEF Falsified
<1>4. PICK k \in 1 .. Len(cls[c]) : IsTrue(cls[c][k])
  BY <1>1, <1>2, <1>3, PropagatedCover
<1> QED BY <1>4 DEF Falsified, IsTrue, IsFalse

(* When Prop has returned CNull no clause is falsified, learned clauses    *)
(* included although Cdb.Learn does not watch a literal of the highest     *)
(* level: a full assignment is a model, the soundness of a result of 1.    *)
THEOREM PropFindsConflicts == TrailSpec => []NoFalsifiedClause
BY TrailInvariant, NoneFalsified, PTL

(* A unit added clause would have one too: both its watches are covered. *)
LEMMA NoneUnit == TrailInv => BcpComplete
<1> SUFFICES ASSUME TrailInv, Propagated, NEW c \in added, NEW k \in 1 .. Len(cls[c]),
                    UnitAt(c, k)
             PROVE  FALSE
  BY DEF BcpComplete
<1>1. c \in Clauses /\ Len(cls[c]) \in Nat /\ Len(cls[c]) >= 1
  BY ClauseLits DEF TrailInv, TrailCore, TypeOK, Clauses
<1>2. CASE Len(cls[c]) = 1
  BY <1>2 DEF TrailInv, TrailCore, UnitsHold, UnitAt, IsTrue, IsFree
<1>3. CASE Len(cls[c]) >= 2
  <2>1. PICK j \in {1, 2} : j # k /\ j \in 1 .. Len(cls[c])
    <3>1. 1 \in 1 .. Len(cls[c]) /\ 2 \in 1 .. Len(cls[c])
      BY <1>1, <1>3
    <3>2. CASE k = 1
      BY <3>1, <3>2
    <3>3. CASE k # 1
      BY <3>1, <3>3
    <3> QED BY <3>2, <3>3
  <2>2. cls[c][j] \in LitSet /\ IsFalse(cls[c][j])
    BY <1>1, <2>1, ClauseLits DEF UnitAt, TrailInv, TrailCore, TypeOK, Clauses
  <2>3. Covered(c, cls[c][j])
    BY <1>1, <1>3, <2>1 DEF TrailInv, TrailCore, WatchesCover
  <2>4. PICK i \in 1 .. Len(cls[c]) : IsTrue(cls[c][i])
    BY <1>1, <2>2, <2>3, PropagatedCover
  <2> QED BY <2>4 DEF UnitAt, IsTrue, IsFalse, IsFree
<1>4. \A l \in Nat : l >= 1 => l = 1 \/ l >= 2
  OBVIOUS
<1> QED BY <1>1, <1>2, <1>3, <1>4, Zenon

(* When Prop has returned CNull no clause from Add is unit: propagation    *)
(* misses no consequence of the formula itself.                            *)
THEOREM PropIsComplete == TrailSpec => []BcpComplete
BY TrailInvariant, NoneUnit, PTL

-----------------------------------------------------------------------------
(* Back unassigns literals above its target level only. *)
LEMMA PopLevel ==
  ASSUME TrailInv, BackPop
  PROVE  Last(D) \in LitSet /\ levels[Var(Last(D))] > trg /\ trg \in Nat
<1> USE DEF TrailInv, TrailCore
<1>1. mode = "back" /\ D # <<>> /\ Level \in Nat /\ trg \in Nat /\ trg < Level
  BY DEF BackPop, AtTarget, ModeOK, TypeOK
<1>2. PICK m \in LitSet : m = Last(D) /\ m = D[Len(D)] /\ Len(D) \in 1 .. Len(D)
  BY <1>1, FrontFacts DEF TypeOK
<1>3. levels[Var(m)] # trg /\ levels[Var(m)] \in 0 .. Level
  BY <1>1, <1>2 DEF BackPop, AtTarget, LevelsOK
<1>4. CASE trg = 0
  BY <1>1, <1>2, <1>3, <1>4
<1>5. CASE trg > 0
  <2>1. PICK i \in 1 .. Len(D) : levels[Var(D[i])] = trg
    BY <1>1, <1>5 DEF LevelsOK, TopLevel
  <2>2. i < Len(D)
    BY <1>2, <1>3, <2>1
  <2>3. levels[Var(D[i])] <= levels[Var(m)]
    BY <1>2, <2>2 DEF TrailConsistent
  <2> QED BY <1>1, <1>2, <1>3, <2>1, <2>3
<1> QED BY <1>1, <1>4, <1>5

Kept0 == \A m \in LitSet : IsTrue(m) /\ levels[Var(m)] = 0 => IsTrue(m)'

(* Assign keeps what is true at level 0 ... *)
LEMMA AssignKept0 ==
  ASSUME TrailInv, NEW m \in LitSet, IsFree(m), NEW c \in Nat, Assign(m, c)
  PROVE  Kept0
<1>1. KeepsAssigned
  BY Zenon, AssignKeeps DEF TrailInv, TrailCore
<1> QED BY <1>1 DEF Kept0, KeepsAssigned, IsTrue, IsFree

(* ... and so does every step. *)
LEMMA StepKept0 ==
  ASSUME TrailInv, [TrailNext]_trailVars
  PROVE  Kept0
<1>1. CASE UNCHANGED vals
  BY <1>1 DEF Kept0, IsTrue
<1>2. CASE BackPop
  <2>1. PICK m \in LitSet : m = Last(D) /\ levels[Var(m)] # 0
    BY <1>2, PopLevel
  <2>2. /\ Not(m) \in LitSet /\ Var(Not(m)) = Var(m)
    BY LitFacts
  <2>3. \A n \in LitSet : n # m /\ n # Not(m) => vals'[n] = vals[n]
    BY <1>2, <2>1, IndexFacts DEF BackPop, TrailInv, TrailCore, TypeOK
  <2> QED BY <2>1, <2>2, <2>3 DEF Kept0, IsTrue
<1>3. CASE VisitBinary \/ VisitLast
  <2>1. PICK q \in Nat, n \in LitSet : UNCHANGED vals \/ (IsFree(n) /\ Assign(n, q))
    <3>1. Visiting
      BY <1>3 DEF VisitBinary, VisitLast, VisitingLong
    <3>2. PICK q \in Clauses : q = TheWatch.c /\ q \in Nat
      BY <3>1, VisitFacts DEF TrailInv, Clauses
    <3>3. TheWatch.o \in LitSet /\ OtherWatched(q) \in LitSet
      <4>1. TheWatch \in Watch
        BY <3>1, VisitFacts DEF TrailInv
      <4>2. cls[q][1] \in LitSet /\ cls[q][2] \in LitSet
        BY <3>1, <3>2, VisitFacts, ClauseLits DEF TrailInv, TrailCore, TypeOK, Clauses
      <4> QED BY <4>1, <4>2 DEF Watch, OtherWatched
    <3>4. CASE VisitBinary
      BY <3>2, <3>3, <3>4 DEF VisitBinary, ReturnConflict, assignVars
    <3>5. CASE VisitLast
      BY <3>2, <3>3, <3>5 DEF VisitLast, ReturnConflict, assignVars
    <3> QED BY <1>3, <3>4, <3>5
  <2> QED BY <1>1, <2>1, AssignKept0
<1>4. CASE \E c \in Clauses : ClientAssert(c)
  <2>1. PICK c \in Clauses : ClientAssert(c)
    BY <1>4
  <2>2. c \in Nat /\ cls[c][1] \in LitSet
    BY <2>1, ClauseLits DEF ClientAssert, TrailInv, TrailCore, TypeOK, Clauses
  <2> QED BY <2>1, <2>2, AssignKept0 DEF ClientAssert
<1>5. CASE \E m \in LitSet : \/ ClientAssume(m)
                             \/ \E popped \in SUBSET heap : ClientGuess(m, popped)
  <2>1. PICK m \in LitSet : IsFree(m) /\ Assign(m, CNull)
    BY <1>5 DEF ClientAssume, ClientGuess
  <2> QED BY <2>1, AssignKept0 DEF CNull
<1>6. CASE \E ms \in ClauseSpace : ClientAdd(ms)
  <2>1. PICK ms \in ClauseSpace : ClientAdd(ms)
    BY <1>6
  <2>2. CASE Len(ms) = 1
    <3>1. PICK m \in LitSet : m = ms[1]
      <4>1. ms \in Seq(LitSet) /\ 1 \in 1 .. Len(ms)
        BY <2>2, ClauseSpaceAssumption
      <4> QED BY <4>1
    <3>2. IsFree(m)
      BY <2>1, <2>2, <3>1 DEF ClientAdd, IsFree
    <3>3. Assign(m, Len(cls) + 1)
      BY <2>1, <2>2, <3>1 DEF ClientAdd, AddClause
    <3>4. Len(cls) + 1 \in Nat
      BY DEF TrailInv, TrailCore, TypeOK
    <3> QED BY <3>2, <3>3, <3>4, AssignKept0
  <2>3. CASE Len(ms) # 1
    BY <1>1, <2>1, <2>3 DEF ClientAdd, AddClause, assignVars
  <2> QED BY <2>2, <2>3
<1> QED BY <1>1, <1>2, <1>3, <1>4, <1>5, <1>6
        DEF TrailNext, Client, PropStep, BackStep, trailVars, assignVars, ClientLearn, Learn,
            ClientGuessNone, ClientProp, StartProp, ClientBack, StartBack, BackStop,
            PropTake, PropReturn, PropNext, VisitBlocked, VisitSatisfied, VisitRewatch

(* No step of Prop, Back or a client takes back an assignment of level 0:  *)
(* what S.Add and cleanupSolve assign there stays for all later calls.     *)
THEOREM Level0Stays == TrailSpec => Level0Permanent
<1>1. TrailInv /\ [TrailNext]_trailVars => [Kept0]_trailVars
  BY StepKept0
<1> QED BY <1>1, TrailInvariant, PTL DEF TrailSpec, Level0Permanent, Kept0
=============================================================================
