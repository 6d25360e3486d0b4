----------------------------- MODULE StoreProofs ------------------------------
(***************************************************************************)
(* Proofs about module Cgc.                                                *)
(*                                                                         *)
(* For the trail a removed clause is as good as an empty one: nothing      *)
(* watches it and it is no reason.  Tr is the trail with the removed       *)
(* clauses shown as empty; each step of Cgc which is one of the trail is   *)
(* one of Tr, and so the theorems about Trail serve here.                  *)
(***************************************************************************)
EXTENDS Cgc, FiniteSetTheorems, SequenceTheorems, TLAPS

Gone == ToSet(rmq)

Shown == [c \in Clauses |-> IF c \in Gone THEN <<>> ELSE cls[c]]

Tr == INSTANCE TrailProofs WITH cls <- Shown, ClauseSpace <- Seq(LitSet)

-----------------------------------------------------------------------------
(***************************************************************************)
(* Ranks and filtered sequences.                                           *)
(***************************************************************************)
LEMMA RankStep ==
  ASSUME NEW n \in Nat, NEW I \in SUBSET (1 .. n), NEW i \in I, NEW j \in I, i < j
  PROVE  Rank(I, i) \in Nat /\ Rank(I, j) \in Nat /\ Rank(I, i) < Rank(I, j)
<1> DEFINE A == {k \in I : k <= i}
<1> DEFINE B == {k \in I : k <= j}
<1>1. IsFiniteSet(1 .. n)
  BY FS_Interval
<1>2. B \in SUBSET (1 .. n) /\ A \in SUBSET B
  <2>1. \A k \in I : k \in Int
    OBVIOUS
  <2>2. \A k \in I : k <= i => k <= j
    BY <2>1
  <2> QED BY <2>2
<1>3. j \in B /\ j \notin A
  <2>1. i \in 1 .. n /\ j \in 1 .. n
    OBVIOUS
  <2>2. j <= j /\ ~ (j <= i)
    BY <2>1
  <2> QED BY <2>2
<1> HIDE DEF A, B
<1>4. IsFiniteSet(B)
  BY <1>1, <1>2, FS_Subset
<1>5. IsFiniteSet(A) /\ Cardinality(A) <= Cardinality(B) /\ (Cardinality(B) = Cardinality(A) => B = A)
  BY <1>2, <1>4, FS_Subset
<1>6. Cardinality(A) \in Nat /\ Cardinality(B) \in Nat /\ Cardinality(A) < Cardinality(B)
  <2>1. Cardinality(A) \in Nat /\ Cardinality(B) \in Nat
    BY <1>4, <1>5, FS_CardinalityType
  <2> QED BY <1>3, <1>5, <2>1
<1> QED BY <1>6 DEF Rank, A, B

(* The ranks are the numbers from 1, one for each element, in order. *)
RanksOf(I) ==
  /\ Cardinality(I) \in Nat
  /\ \A i \in I : Rank(I, i) \in 1 .. Cardinality(I)
  /\ \A i, j \in I : Rank(I, i) = Rank(I, j) => i = j
  /\ \A i, j \in I : i < j => Rank(I, i) < Rank(I, j)
  /\ \A k \in 1 .. Cardinality(I) : \E i \in I : Rank(I, i) = k

LEMMA RankFacts ==
  ASSUME NEW n \in Nat, NEW I \in SUBSET (1 .. n)
  PROVE  RanksOf(I) /\ Cardinality(I) <= n
<1>1. IsFiniteSet(1 .. n) /\ Cardinality(1 .. n) = n
  BY FS_Interval
<1>2. IsFiniteSet(I) /\ Cardinality(I) <= n
  BY <1>1, FS_Subset
<1>3. Cardinality(I) \in Nat
  BY <1>2, FS_CardinalityType
<1>4. \A i, j \in I : i < j => Rank(I, i) < Rank(I, j)
  BY RankStep
<1>5. ASSUME NEW i \in I
      PROVE  Rank(I, i) \in 1 .. Cardinality(I)
  <2> DEFINE A == {k \in I : k <= i}
  <2>1. A \in SUBSET I /\ i \in A
    OBVIOUS
  <2> HIDE DEF A
  <2>2. IsFiniteSet(A) /\ Cardinality(A) <= Cardinality(I)
    BY <1>2, <2>1, FS_Subset
  <2>3. Cardinality(A) \in Nat /\ Cardinality(A) # 0
    BY <2>1, <2>2, FS_CardinalityType, FS_EmptySet
  <2>4. Rank(I, i) = Cardinality(A)
    BY DEF Rank, A
  <2> QED BY <1>3, <2>2, <2>3, <2>4
<1>6. ASSUME NEW i \in I, NEW j \in I, Rank(I, i) = Rank(I, j)
      PROVE  i = j
  <2>1. Rank(I, i) \in Nat
    BY <1>3, <1>5
  <2>2. ~ (i < j) /\ ~ (j < i)
    BY <1>4, <1>6, <2>1
  <2> QED BY <2>2
<1>7. ASSUME NEW k \in 1 .. Cardinality(I)
      PROVE  \E i \in I : Rank(I, i) = k
  <2> SUFFICES ASSUME \A i \in I : Rank(I, i) # k PROVE FALSE
    OBVIOUS
  <2> DEFINE S == (1 .. Cardinality(I)) \ {k}
  <2> DEFINE f == [i \in I |-> Rank(I, i)]
  <2>1. IsFiniteSet(1 .. Cardinality(I)) /\ Cardinality(1 .. Cardinality(I)) = Cardinality(I)
    BY <1>3, FS_Interval
  <2>2. IsFiniteSet(S) /\ Cardinality(S) = Cardinality(I) - 1
    BY <2>1, FS_RemoveElement
  <2>3. f \in [I -> S]
    BY <1>5
  <2>4. Cardinality(S) < Cardinality(I)
    BY <1>3, <2>2
  <2>6. \A i \in I : f[i] = Rank(I, i)
    OBVIOUS
  <2> HIDE DEF S, f
  <2>5. PICK x \in I, y \in I : x # y /\ f[x] = f[y]
    BY <1>2, <2>2, <2>3, <2>4, FS_PigeonHole
  <2> QED BY <1>6, <2>5, <2>6
<1> QED BY <1>2, <1>3, <1>4, <1>5, <1>6, <1>7 DEF RanksOf

(* A filtered sequence has the elements of the places kept, in their order. *)
LEMMA SubFacts ==
  ASSUME NEW S, NEW s \in Seq(S), NEW I \in SUBSET (1 .. Len(s))
  PROVE  /\ RanksOf(I)
         /\ Sub(s, I) \in Seq(S) /\ Len(Sub(s, I)) = Cardinality(I)
         /\ \A i \in I : Sub(s, I)[Rank(I, i)] = s[i]
<1>1. Len(s) \in Nat
  OBVIOUS
<1>2. RanksOf(I)
  BY <1>1, RankFacts
<1> DEFINE n == Cardinality(I)
<1> DEFINE e(k) == CHOOSE i \in I : Rank(I, i) = k
<1>3. n \in Nat
  BY <1>2 DEF RanksOf
<1>4. ASSUME NEW k \in 1 .. n
      PROVE  e(k) \in I /\ Rank(I, e(k)) = k
  BY <1>2 DEF RanksOf
<1>5. \A k \in 1 .. n : s[e(k)] \in S
  <2> TAKE k \in 1 .. n
  <2>1. e(k) \in 1 .. Len(s)
    BY <1>4
  <2> HIDE DEF e
  <2> QED BY <2>1
<1>6. \A i \in I : Rank(I, i) \in 1 .. n /\ e(Rank(I, i)) = i
  <2> TAKE i \in I
  <2>1. Rank(I, i) \in 1 .. n
    BY <1>2 DEF RanksOf
  <2>2. e(Rank(I, i)) \in I /\ Rank(I, e(Rank(I, i))) = Rank(I, i)
    BY <1>4, <2>1
  <2> HIDE DEF e
  <2> QED BY <1>2, <2>1, <2>2 DEF RanksOf
<1>7. Sub(s, I) = [k \in 1 .. n |-> s[e(k)]]
  BY DEF Sub
<1> HIDE DEF n, e
<1>8. Sub(s, I) \in Seq(S) /\ Len(Sub(s, I)) = n
  BY <1>3, <1>5, <1>7
<1> QED BY <1>2, <1>6, <1>7, <1>8 DEF n

(* If all places are kept nothing changes. *)
LEMMA SubAll ==
  ASSUME NEW S, NEW s \in Seq(S)
  PROVE  Sub(s, 1 .. Len(s)) = s
<1> DEFINE I == 1 .. Len(s)
<1>1. Len(s) \in Nat /\ I \in SUBSET (1 .. Len(s))
  OBVIOUS
<1>2. Cardinality(I) = Len(s)
  <2>1. Cardinality(1 .. Len(s)) = IF 1 > Len(s) THEN 0 ELSE Len(s) - 1 + 1
    BY <1>1, FS_Interval
  <2> QED BY <1>1, <2>1
<1>3. ASSUME NEW i \in I
      PROVE  Rank(I, i) = i
  <2>1. {j \in I : j <= i} = 1 .. i /\ i \in Nat /\ i >= 1
    BY <1>1, <1>3
  <2>2. Cardinality(1 .. i) = i
    BY <2>1, FS_Interval
  <2> QED BY <2>1, <2>2 DEF Rank
<1>4. /\ Sub(s, I) \in Seq(S) /\ Len(Sub(s, I)) = Cardinality(I)
      /\ \A i \in I : Sub(s, I)[Rank(I, i)] = s[i]
  BY <1>1, SubFacts
<1>5. \A i \in 1 .. Len(s) : Sub(s, I)[i] = s[i]
  BY <1>3, <1>4
<1> QED BY <1>2, <1>4, <1>5

-----------------------------------------------------------------------------
(***************************************************************************)
(* Tr is the trail.                                                        *)
(***************************************************************************)

(* The operators of the two, but for those about clauses, are the same. *)
LEMMA SameOps ==
  /\ Tr!LitSet = LitSet /\ Tr!VarSet = VarSet /\ Tr!LitIndex = LitIndex
  /\ Tr!VarIndex = VarIndex /\ Tr!LitNull = LitNull /\ Tr!CNull = CNull
  /\ \A m : Tr!Var(m) = Var(m) /\ Tr!Not(m) = Not(m) /\ Tr!Pos(m) = Pos(m)
  /\ \A m : /\ Tr!IsFree(m) <=> IsFree(m)
            /\ Tr!IsTrue(m) <=> IsTrue(m)
            /\ Tr!IsFalse(m) <=> IsFalse(m)
  /\ \A ms : Tr!DistinctVars(ms) <=> DistinctVars(ms)
BY DEF Tr!LitSet, LitSet, Tr!VarSet, VarSet, Tr!LitIndex, LitIndex, Tr!VarIndex, VarIndex,
       Tr!LitNull, LitNull, Tr!CNull, CNull, Tr!Var, Var, Tr!Not, Not, Tr!Pos, Pos,
       Tr!IsFree, IsFree, Tr!IsTrue, IsTrue, Tr!IsFalse, IsFalse, Tr!DistinctVars, DistinctVars

LEMMA SameState ==
  /\ Tr!Propagated <=> Propagated
  /\ Tr!AtTarget <=> AtTarget
  /\ Tr!Visiting <=> Visiting
  /\ Tr!TheWatch = TheWatch
<1>1. Tr!Propagated <=> Propagated
  BY SameOps DEF Tr!Propagated, Propagated
<1>2. Tr!AtTarget <=> AtTarget
  BY SameOps, Zenon DEF Tr!AtTarget, AtTarget, Tr!Last, Last
<1>3. (Tr!Visiting <=> Visiting) /\ Tr!TheWatch = TheWatch
  BY DEF Tr!Visiting, Visiting, Tr!TheWatch, TheWatch
<1> QED BY <1>1, <1>2, <1>3

(* The assumptions of TrailProofs hold of Tr. *)
LEMMA TrAssumptions ==
  /\ \A ms \in Seq(LitSet) : ms \in Seq(Tr!LitSet)
  /\ NVars \in Nat \ {0} /\ MaxClauses \in Nat
BY SameOps, NVarsAssumption, MaxClausesAssumption

LEMMA TrStep ==
  ASSUME Tr!TrailInv, Tr!TrailNext \/ UNCHANGED Tr!trailVars
  PROVE  Tr!TrailInv' /\ Tr!Kept0
BY TrAssumptions, Tr!NextInv, Tr!StepKept0

(* Nothing is seen of a step that leaves clauses and queue alone. *)
LEMMA ShownSame ==
  ASSUME UNCHANGED <<cls, rmq>>
  PROVE  Shown' = Shown
BY DEF Shown, Clauses, Gone

LEMMA QuietSteps ==
  ASSUME UNCHANGED rmq,
         \/ PropTake \/ PropReturn \/ PropNext \/ VisitBlocked
         \/ BackStep \/ ClientProp \/ \E l \in 0 .. Level : ClientBack(l)
  PROVE  Tr!TrailNext
<1>1. Shown' = Shown
  BY ShownSame DEF PropTake, PropReturn, PropNext, VisitBlocked, BackStep, BackPop, BackStop,
     ClientProp, StartProp, ClientBack, StartBack, clauseVars
<1>2. PropTake => Tr!PropTake
  BY <1>1, SameOps DEF PropTake, Tr!PropTake, assignVars, Tr!assignVars, clauseVars, Tr!clauseVars
<1>3. PropReturn => Tr!PropReturn
  BY <1>1 DEF PropReturn, Tr!PropReturn, assignVars, Tr!assignVars, clauseVars, Tr!clauseVars
<1>4. PropNext => Tr!PropNext
  BY <1>1, SameOps DEF PropNext, Tr!PropNext, assignVars, Tr!assignVars, clauseVars, Tr!clauseVars
<1>5. VisitBlocked => Tr!VisitBlocked
  BY <1>1, SameOps, SameState DEF VisitBlocked, Tr!VisitBlocked, KeepWatch, Tr!KeepWatch,
     assignVars, Tr!assignVars
<1>6. BackPop => Tr!BackPop
  <2>1. /\ Tr!Not(Last(D)) = Not(Last(D)) /\ Tr!Var(Last(D)) = Var(Last(D)) /\ Tr!CNull = CNull
        /\ Tr!Last(D) = Last(D) /\ Tr!Front(D) = Front(D)
    BY SameOps DEF Tr!Last, Last, Tr!Front, Front
  <2> QED BY <1>1, <2>1, SameState DEF BackPop, Tr!BackPop, clauseVars, Tr!clauseVars, loopVars,
      Tr!loopVars
<1>7. BackStop => Tr!BackStop
  BY <1>1, SameOps, SameState DEF BackStop, Tr!BackStop, clauseVars, Tr!clauseVars
<1>8. ClientProp => Tr!ClientProp
  BY <1>1, SameOps DEF ClientProp, Tr!ClientProp, StartProp, Tr!StartProp, assignVars,
     Tr!assignVars, clauseVars, Tr!clauseVars
<1>9. \A l : ClientBack(l) => Tr!ClientBack(l)
  BY <1>1 DEF ClientBack, Tr!ClientBack, StartBack, Tr!StartBack, assignVars,
     Tr!assignVars, clauseVars, Tr!clauseVars
<1> QED BY <1>2, <1>3, <1>4, <1>5, <1>6, <1>7, <1>8, <1>9
    DEF Tr!TrailNext, Tr!PropStep, Tr!BackStep, BackStep, Tr!Client

LEMMA DecideSteps ==
  ASSUME UNCHANGED rmq, NEW m \in LitSet, Decide(m)
  PROVE  Tr!TrailNext
<1>1. Shown' = Shown
  BY ShownSame DEF Decide, ClientAssume, ClientGuess, clauseVars
<1>2. \A c : Assign(m, c) => Tr!Assign(m, c)
  BY SameOps DEF Assign, Tr!Assign
<1>3. ClientAssume(m) => Tr!ClientAssume(m)
  BY <1>1, <1>2, SameOps DEF ClientAssume, Tr!ClientAssume, clauseVars, Tr!clauseVars,
     loopVars, Tr!loopVars
<1>4. ASSUME NEW popped \in SUBSET heap, ClientGuess(m, popped)
      PROVE  Tr!ClientGuess(m, popped)
  BY <1>1, <1>2, <1>4, SameOps DEF ClientGuess, Tr!ClientGuess, clauseVars, Tr!clauseVars,
     loopVars, Tr!loopVars
<1> QED BY <1>3, <1>4, SameOps DEF Decide, Tr!TrailNext, Tr!Client

ClausesTyped == cls \in Seq(Seq(LitSet)) /\ rmq \in Seq(Clauses)

LEMMA ShownFacts ==
  ASSUME ClausesTyped
  PROVE  /\ Shown \in Seq(Seq(LitSet)) /\ Len(Shown) = Len(cls) /\ Tr!Clauses = Clauses
         /\ Gone \subseteq Clauses /\ Live \subseteq Clauses
         /\ \A c \in Live : Shown[c] = cls[c] /\ c \notin Gone
         /\ \A c \in Clauses \ Live : Shown[c] = <<>> /\ c \in Gone
<1>1. Len(cls) \in Nat /\ Clauses = 1 .. Len(cls) /\ \A c \in Clauses : cls[c] \in Seq(LitSet)
  BY DEF ClausesTyped, Clauses
<1>2. <<>> \in Seq(LitSet)
  OBVIOUS
<1>3. Shown \in Seq(Seq(LitSet)) /\ Len(Shown) = Len(cls)
  BY <1>1, <1>2 DEF Shown
<1>4. Gone \subseteq Clauses
  BY DEF ClausesTyped, Gone, ToSet
<1>5. \A c \in Clauses : Shown[c] = IF c \in Gone THEN <<>> ELSE cls[c]
  BY DEF Shown
<1>6. Live = Clauses \ Gone
  BY DEF Live, Gone
<1> QED BY <1>1, <1>3, <1>4, <1>5, <1>6 DEF Tr!Clauses

(* The invariant of Tr, spelt out where it is needed. *)
LEMMA TrFacts ==
  ASSUME Tr!TrailInv
  PROVE  /\ Tr!TypeOK /\ Tr!ModeOK /\ Tr!LevelsOK /\ Tr!ClausesOK
         /\ Tr!TrailConsistent /\ Tr!ReasonFirst /\ Tr!UnitsHold
         /\ Tr!WatchesMatch /\ Tr!ConflictFalsified /\ Tr!FreeVarsInHeap
         /\ Tr!ConflictLast /\ Tr!WatchesCover
BY DEF Tr!TrailInv, Tr!TrailCore

(* What is watched is not removed. *)
LEMMA WatchLive ==
  ASSUME Tr!TrailInv, ClausesTyped, NEW m \in LitSet, NEW i \in 1 .. Len(watches[m])
  PROVE  /\ watches[m][i].c \in Live
         /\ Len(Shown[watches[m][i].c]) >= 2
         /\ m \in {Shown[watches[m][i].c][1], Shown[watches[m][i].c][2]}
<1> DEFINE c == watches[m][i].c
<1>1. c \in Tr!Clauses /\ Len(Shown[c]) >= 2 /\ m \in {Shown[c][1], Shown[c][2]}
  BY TrFacts, SameOps DEF Tr!WatchesMatch, Tr!WatchOK, Tr!Watched
<1>2. Len(<<>>) = 0
  OBVIOUS
<1> HIDE DEF c
<1>3. c \in Live
  BY <1>1, <1>2, ShownFacts
<1> QED BY <1>1, <1>3 DEF c

LEMMA VisitedLive ==
  ASSUME Tr!TrailInv, ClausesTyped, Visiting
  PROVE  /\ pm \in LitSet /\ pi \in 1 .. Len(watches[pm])
         /\ TheWatch.c \in Live /\ Shown[TheWatch.c] = cls[TheWatch.c]
         /\ Len(cls[TheWatch.c]) >= 2 /\ pm \in {cls[TheWatch.c][1], cls[TheWatch.c][2]}
<1>1. pm \in LitSet /\ pi \in 1 .. Len(watches[pm])
  <2>1. pm \in LitSet /\ pi >= 1 /\ pi \in Nat /\ watches \in [LitIndex -> Seq(Tr!Watch)]
    BY TrFacts, SameOps DEF Tr!ModeOK, Tr!TypeOK, Visiting
  <2>2. watches[pm] \in Seq(Tr!Watch)
    BY <2>1, NVarsAssumption DEF LitSet, LitIndex
  <2>3. Len(watches[pm]) \in Nat
    BY <2>2
  <2> QED BY <2>1, <2>3 DEF Visiting
<1> QED BY <1>1, WatchLive, ShownFacts DEF TheWatch

(* Changing a live clause changes what is shown of it. *)
LEMMA ShownExcept ==
  ASSUME ClausesTyped, NEW q \in Live, NEW ms, UNCHANGED rmq, cls' = [cls EXCEPT ![q] = ms]
  PROVE  Shown' = [Shown EXCEPT ![q] = ms] /\ Clauses' = Clauses
<1>1. Clauses' = Clauses /\ Gone' = Gone /\ q \in Clauses /\ q \notin Gone
  BY DEF ClausesTyped, Clauses, Gone, Live
<1>2. \A c \in Clauses : cls'[c] = IF c = q THEN ms ELSE cls[c]
  BY <1>1 DEF ClausesTyped, Clauses
<1>3. Shown' = [c \in Clauses |-> IF c \in Gone THEN <<>> ELSE cls'[c]]
  BY <1>1 DEF Shown
<1>4. [Shown EXCEPT ![q] = ms] = [c \in Clauses |-> IF c = q THEN ms ELSE Shown[c]]
  BY <1>1 DEF Shown
<1>5. \A c \in Clauses : (IF c = q THEN ms ELSE Shown[c]) = IF c \in Gone THEN <<>> ELSE cls'[c]
  BY <1>1, <1>2 DEF Shown
<1> QED BY <1>1, <1>3, <1>4, <1>5

(* Two literals of a live clause are set. *)
Changed(f, q, i, m, j, n) == [f EXCEPT ![q][i] = m, ![q][j] = n]

LEMMA ShownSwap ==
  ASSUME ClausesTyped, NEW q \in Live, NEW i \in 1 .. Len(cls[q]), NEW j \in 1 .. Len(cls[q]),
         NEW m, NEW n, UNCHANGED rmq, cls' = Changed(cls, q, i, m, j, n)
  PROVE  Shown' = Changed(Shown, q, i, m, j, n) /\ Clauses' = Clauses
<1> DEFINE ms == [[cls[q] EXCEPT ![i] = m] EXCEPT ![j] = n]
<1>1. q \in Clauses /\ Shown[q] = cls[q] /\ Clauses = DOMAIN Shown /\ Clauses = DOMAIN cls
  <2>1. q \in Clauses /\ Shown[q] = cls[q]
    BY ShownFacts
  <2>2. Clauses = DOMAIN Shown /\ Clauses = DOMAIN cls
    BY DEF Shown, ClausesTyped, Clauses
  <2> QED BY <2>1, <2>2
<1>2. cls' = [cls EXCEPT ![q] = ms]
  BY <1>1 DEF Changed
<1>3. Changed(Shown, q, i, m, j, n) = [Shown EXCEPT ![q] = ms]
  BY <1>1 DEF Changed
<1> HIDE DEF ms
<1> QED BY <1>2, <1>3, ShownExcept

LEMMA SatisfiedStep ==
  ASSUME Tr!TrailInv, ClausesTyped, UNCHANGED rmq, VisitSatisfied
  PROVE  Tr!TrailNext
<1>1. Shown' = Shown
  BY ShownSame DEF VisitSatisfied
<1>2. Tr!OtherWatched(TheWatch.c) = OtherWatched(TheWatch.c)
  BY VisitedLive DEF VisitSatisfied, VisitingLong, Tr!OtherWatched, OtherWatched
<1>3. Tr!VisitSatisfied
  BY <1>1, <1>2, SameOps, SameState DEF VisitSatisfied, Tr!VisitSatisfied, VisitingLong,
     Tr!VisitingLong, KeepWatch, Tr!KeepWatch, assignVars, Tr!assignVars
<1> QED BY <1>3 DEF Tr!TrailNext, Tr!PropStep

(* What an implied literal and a conflict do to the rest. *)
LEMMA SameOutcome ==
  /\ \A m, c : Assign(m, c) <=> Tr!Assign(m, c)
  /\ KeepWatch <=> Tr!KeepWatch
  /\ \A q : ReturnConflict(q) <=> Tr!ReturnConflict(q)
BY SameOps DEF Assign, Tr!Assign, KeepWatch, Tr!KeepWatch, ReturnConflict, Tr!ReturnConflict,
   assignVars, Tr!assignVars

LEMMA BinaryStep ==
  ASSUME Tr!TrailInv, ClausesTyped, UNCHANGED rmq, VisitBinary
  PROVE  Tr!TrailNext /\ Clauses' = Clauses
<1> DEFINE q == TheWatch.c
<1> DEFINE o == TheWatch.o
<1>1. q \in Live /\ Shown[q] = cls[q] /\ 1 \in 1 .. Len(cls[q]) /\ 2 \in 1 .. Len(cls[q])
  <2>1. q \in Live /\ Shown[q] = cls[q] /\ Len(cls[q]) >= 2 /\ cls[q] \in Seq(LitSet)
    BY VisitedLive DEF VisitBinary, ClausesTyped, Live, Clauses
  <2> QED BY <2>1
<1>2. cls' = IF cls[q][1] = pm THEN Changed(cls, q, 1, o, 2, pm) ELSE cls
  BY DEF VisitBinary, Changed
<1> HIDE DEF q, o
<1>3. /\ Shown' = IF Shown[q][1] = pm THEN Changed(Shown, q, 1, o, 2, pm) ELSE Shown
      /\ Clauses' = Clauses
  <2>1. CASE cls[q][1] = pm
    BY <1>1, <1>2, <2>1, ShownSwap
  <2>2. CASE cls[q][1] # pm
    BY <1>1, <1>2, <2>2, ShownSame DEF Clauses
  <2> QED BY <2>1, <2>2
<1>4. /\ Visiting /\ TheWatch.bin /\ ~ IsTrue(o)
      /\ \/ IsFree(o) /\ Assign(o, q) /\ KeepWatch
         \/ IsFalse(o) /\ ReturnConflict(q)
      /\ UNCHANGED <<added, bot, heap, trg>>
  BY DEF VisitBinary, q, o
<1>5. Tr!VisitBinary
  BY <1>3, <1>4, SameOps, SameState, SameOutcome DEF Tr!VisitBinary, q, o, Changed
<1> QED BY <1>3, <1>5 DEF Tr!TrailNext, Tr!PropStep

LEMMA RewatchStep ==
  ASSUME Tr!TrailInv, ClausesTyped, UNCHANGED rmq, VisitRewatch
  PROVE  Tr!TrailNext /\ Clauses' = Clauses
<1> DEFINE q == TheWatch.c
<1> DEFINE k == IF cls[q][1] = pm THEN 1 ELSE 2
<1>1. /\ q \in Live /\ Shown[q] = cls[q] /\ 1 \in 1 .. Len(cls[q]) /\ 2 \in 1 .. Len(cls[q])
      /\ Len(cls[q]) \in Nat
  <2>1. q \in Live /\ Shown[q] = cls[q] /\ Len(cls[q]) >= 2 /\ cls[q] \in Seq(LitSet)
    BY VisitedLive DEF VisitRewatch, VisitingLong, ClausesTyped, Live, Clauses
  <2> QED BY <2>1
<1>2. PICK p \in 3 .. Len(cls[q]) :
        /\ FirstNonFalse(q, p)
        /\ cls' = Changed(cls, q, k, cls[q][p], p, pm)
        /\ watches' = [watches EXCEPT
                         ![pm] = RemoveAt(@, pi),
                         ![cls[q][p]] = Append(@, MakeWatch(q, pm, FALSE))]
  BY DEF VisitRewatch, Changed
<1>3. /\ VisitingLong /\ ~ IsTrue(OtherWatched(q))
      /\ UNCHANGED <<assignVars, head, added, bot, heap, loopVars>>
  BY DEF VisitRewatch
<1>4. k \in 1 .. Len(cls[q]) /\ p \in 1 .. Len(cls[q])
  BY <1>1
<1>5. k = IF Shown[q][1] = pm THEN 1 ELSE 2
  BY <1>1
<1>6. q = Tr!TheWatch.c /\ Tr!VisitingLong /\ Tr!OtherWatched(q) = OtherWatched(q)
  BY <1>1, <1>3, SameOps, SameState DEF Tr!VisitingLong, VisitingLong, Tr!OtherWatched, OtherWatched
<1> HIDE DEF q, k
<1>7. Shown' = Changed(Shown, q, k, Shown[q][p], p, pm) /\ Clauses' = Clauses
  BY <1>1, <1>2, <1>4, ShownSwap
<1>8. Tr!FirstNonFalse(q, p)
  BY <1>1, <1>2, SameOps DEF FirstNonFalse, Tr!FirstNonFalse
<1>9. watches' = [watches EXCEPT
                    ![pm] = Tr!RemoveAt(@, pi),
                    ![Shown[q][p]] = Append(@, Tr!MakeWatch(q, pm, FALSE))]
  BY <1>1, <1>2 DEF MakeWatch, Tr!MakeWatch, RemoveAt, Tr!RemoveAt
<1>10. UNCHANGED <<Tr!assignVars, head, added, bot, heap, Tr!loopVars>>
  BY <1>3 DEF assignVars, Tr!assignVars, loopVars, Tr!loopVars
<1>11. p \in 3 .. Len(Shown[q]) /\ ~ Tr!IsTrue(Tr!OtherWatched(q))
  BY <1>1, <1>3, <1>6, SameOps
<1>12. Tr!VisitRewatch
  BY <1>5, <1>6, <1>7, <1>8, <1>9, <1>10, <1>11 DEF Tr!VisitRewatch, Changed
<1> QED BY <1>7, <1>12 DEF Tr!TrailNext, Tr!PropStep

LEMMA LastStep ==
  ASSUME Tr!TrailInv, ClausesTyped, UNCHANGED rmq, VisitLast
  PROVE  Tr!TrailNext /\ Clauses' = Clauses
<1> DEFINE q == TheWatch.c
<1> DEFINE n == OtherWatched(q)
<1>1. /\ q \in Live /\ Shown[q] = cls[q] /\ 1 \in 1 .. Len(cls[q]) /\ 2 \in 1 .. Len(cls[q])
  <2>1. q \in Live /\ Shown[q] = cls[q] /\ Len(cls[q]) >= 2 /\ cls[q] \in Seq(LitSet)
    BY VisitedLive DEF VisitLast, VisitingLong, ClausesTyped, Live, Clauses
  <2> QED BY <2>1
<1>2. /\ VisitingLong /\ ~ IsTrue(n) /\ \A p \in 3 .. Len(cls[q]) : IsFalse(cls[q][p])
      /\ \/ /\ IsFree(n)
            /\ cls' = IF cls[q][1] = pm THEN Changed(cls, q, 1, n, 2, pm) ELSE cls
            /\ Assign(n, q) /\ KeepWatch
         \/ IsFalse(n) /\ ReturnConflict(q) /\ UNCHANGED cls
      /\ UNCHANGED <<added, bot, heap, trg>>
  BY DEF VisitLast, Changed
<1>3. q = Tr!TheWatch.c /\ Tr!VisitingLong /\ Tr!OtherWatched(q) = n
  BY <1>1, <1>2, SameOps, SameState DEF Tr!VisitingLong, VisitingLong, Tr!OtherWatched, OtherWatched
<1> HIDE DEF q, n
<1>4. UNCHANGED cls => Shown' = Shown /\ Clauses' = Clauses
  BY ShownSame DEF Clauses
<1>5. cls' = (IF cls[q][1] = pm THEN Changed(cls, q, 1, n, 2, pm) ELSE cls)
      => /\ Shown' = IF Shown[q][1] = pm THEN Changed(Shown, q, 1, n, 2, pm) ELSE Shown
         /\ Clauses' = Clauses
  <2>1. CASE cls[q][1] = pm
    BY <1>1, <2>1, ShownSwap
  <2>2. CASE cls[q][1] # pm
    BY <1>1, <1>4, <2>2
  <2> QED BY <2>1, <2>2
<1>6. Tr!VisitLast
  BY <1>1, <1>2, <1>3, <1>4, <1>5, SameOps, SameOutcome DEF Tr!VisitLast, Changed
<1> QED BY <1>2, <1>4, <1>5, <1>6 DEF Tr!TrailNext, Tr!PropStep

LEMMA AssertStep ==
  ASSUME ClausesTyped, UNCHANGED rmq, NEW c \in Live, ClientAssert(c)
  PROVE  Tr!TrailNext /\ Clauses' = Clauses
<1>1. Shown' = Shown /\ Clauses' = Clauses
  BY ShownSame DEF ClientAssert, clauseVars, Clauses
<1>2. c \in Tr!Clauses /\ Shown[c] = cls[c]
  BY ShownFacts
<1>3. Tr!ClientAssert(c)
  BY <1>1, <1>2, SameOps, SameOutcome DEF ClientAssert, Tr!ClientAssert, clauseVars, Tr!clauseVars,
     loopVars, Tr!loopVars
<1> QED BY <1>1, <1>2, <1>3 DEF Tr!TrailNext, Tr!Client

(* A clause is stored behind the others. *)
LEMMA ShownAppend ==
  ASSUME ClausesTyped, NEW ms \in Seq(LitSet), UNCHANGED rmq, cls' = Append(cls, ms)
  PROVE  /\ Shown' = Append(Shown, ms)
         /\ Clauses' = Clauses \cup {Len(cls) + 1} /\ Len(cls) + 1 \notin Clauses
         /\ ClausesTyped' /\ Live' = Live \cup {Len(cls) + 1} /\ \A c \in Live : cls'[c] = cls[c]
         /\ cls'[Len(cls) + 1] = ms
<1> DEFINE n == Len(cls)
<1>1. n \in Nat /\ Clauses = 1 .. n /\ Clauses' = 1 .. (n + 1) /\ cls' \in Seq(Seq(LitSet))
  BY DEF ClausesTyped, Clauses
<1>2. cls'[n + 1] = ms /\ \A c \in 1 .. n : cls'[c] = cls[c]
  BY DEF ClausesTyped
<1>3. Gone' = Gone /\ Gone \subseteq 1 .. n
  BY <1>1, ShownFacts DEF Gone
<1>4. Len(Shown) = n /\ Shown \in Seq(Seq(LitSet))
  BY ShownFacts
<1>5. /\ Append(Shown, ms) \in Seq(Seq(LitSet)) /\ Len(Append(Shown, ms)) = n + 1
      /\ Append(Shown, ms)[n + 1] = ms /\ \A c \in 1 .. n : Append(Shown, ms)[c] = Shown[c]
  BY <1>4
<1> HIDE DEF n
<1>6. Shown' = [c \in 1 .. (n + 1) |-> IF c \in Gone THEN <<>> ELSE cls'[c]]
  BY <1>1, <1>3 DEF Shown
<1>7. \A c \in 1 .. n : Shown[c] = IF c \in Gone THEN <<>> ELSE cls[c]
  BY <1>1 DEF Shown
<1>8. \A c \in 1 .. (n + 1) : Append(Shown, ms)[c] = Shown'[c]
  <2> TAKE c \in 1 .. (n + 1)
  <2>1. CASE c = n + 1
    <3>1. n + 1 \notin Gone /\ n + 1 \in 1 .. (n + 1)
      BY <1>1, <1>3
    <3> QED BY <1>2, <1>5, <1>6, <2>1, <3>1
  <2>2. CASE c # n + 1
    <3>1. c \in 1 .. n
      BY <1>1, <2>2
    <3> QED BY <1>2, <1>5, <1>6, <1>7, <3>1
  <2> QED BY <2>1, <2>2
<1>9. Shown' = Append(Shown, ms)
  <2>1. \A s \in Seq(Seq(LitSet)) : s = [c \in 1 .. Len(s) |-> s[c]]
    OBVIOUS
  <2>2. Append(Shown, ms) = [c \in 1 .. (n + 1) |-> Append(Shown, ms)[c]]
    BY <1>5, <2>1
  <2>3. Shown' = [c \in 1 .. (n + 1) |-> Shown'[c]]
    BY <1>6
  <2> QED BY <1>8, <2>2, <2>3
<1>10. Clauses' = Clauses \cup {n + 1} /\ n + 1 \notin Clauses
  BY <1>1
<1>11. rmq' \in Seq(Clauses')
  <2>1. rmq \in Seq(Clauses) /\ Clauses \subseteq Clauses'
    BY <1>10 DEF ClausesTyped
  <2> QED BY <2>1
<1>12. Live' = Live \cup {n + 1} /\ Live \subseteq Clauses
  BY <1>1, <1>3, <1>10 DEF Live, Gone
<1> QED BY <1>1, <1>2, <1>9, <1>10, <1>11, <1>12 DEF ClausesTyped, n

LEMMA SameLink ==
  ASSUME ClausesTyped, NEW ms \in Seq(LitSet), UNCHANGED rmq, Link(ms)
  PROVE  Tr!Link(ms) /\ Len(Shown) = Len(cls)
<1>1. Shown' = Append(Shown, ms) /\ Len(Shown) = Len(cls)
  BY ShownAppend, ShownFacts DEF Link
<1> QED BY <1>1 DEF Link, Tr!Link, MakeWatch, Tr!MakeWatch

LEMMA AddStep ==
  ASSUME ClausesTyped, NEW ms \in Seq(LitSet), UNCHANGED rmq, MayStore, ClientAdd(ms)
  PROVE  Tr!TrailNext
<1>1. Tr!Link(ms) /\ Len(Shown) = Len(cls)
  BY SameLink DEF ClientAdd, AddClause
<1>2. Tr!AddClause(ms)
  BY <1>1, SameOutcome DEF ClientAdd, AddClause, Tr!AddClause, assignVars, Tr!assignVars,
     loopVars, Tr!loopVars
<1>3. Tr!ClientAdd(ms)
  BY <1>2, SameOps DEF ClientAdd, Tr!ClientAdd
<1>4. Tr!MayStore
  BY <1>1 DEF MayStore, Tr!MayStore
<1> QED BY <1>3, <1>4 DEF Tr!TrailNext, Tr!Client

LEMMA LearnStep ==
  ASSUME ClausesTyped, NEW ms \in Seq(LitSet), UNCHANGED rmq, MayStore, ClientLearn(ms)
  PROVE  Tr!TrailNext
<1>1. Tr!Link(ms) /\ Len(Shown) = Len(cls)
  BY SameLink DEF ClientLearn, Learn
<1>2. Tr!Learn(ms)
  BY <1>1 DEF ClientLearn, Learn, Tr!Learn, assignVars, Tr!assignVars, loopVars, Tr!loopVars
<1>3. Tr!ClientLearn(ms)
  BY <1>2, SameOps DEF ClientLearn, Tr!ClientLearn, Asserting, Tr!Asserting
<1>4. Tr!MayStore
  BY <1>1 DEF MayStore, Tr!MayStore
<1> QED BY <1>3, <1>4 DEF Tr!TrailNext, Tr!Client

-----------------------------------------------------------------------------
(***************************************************************************)
(* Removing clauses, and moving the others.                                *)
(***************************************************************************)

(* The places of the watches in m's list whose clauses are in K, ...       *)
Places(m, K) == {j \in 1 .. Len(watches[m]) : watches[m][j].c \in K}

(* ... which are all that is left, with the clauses renamed.               *)
ListRenamed(m, f, K) ==
  LET I == Places(m, K)
  IN  /\ RanksOf(I) /\ Len(watches'[m]) = Cardinality(I)
      /\ \A j \in I :
           watches'[m][Rank(I, j)] =
             [c |-> f[watches[m][j].c], o |-> watches[m][j].o, bin |-> watches[m][j].bin]

(* The clauses K are kept and c becomes f[c]; the others are removed.      *)
Renames(f, K) ==
  /\ mode = "idle" /\ px = CNull
  /\ UNCHANGED <<D, head, Level, vals, levels, bot, heap, loopVars>>
  /\ K \subseteq Live /\ f \in [K -> Clauses']
  /\ \A c, d \in K : f[c] = f[d] => c = d
  /\ \A c \in K : Shown'[f[c]] = Shown[c] /\ (f[c] \in added' <=> c \in added)
  /\ \A d \in Clauses' : (\E c \in K : d = f[c]) \/ Shown'[d] = <<>>
  /\ added' \subseteq Clauses' /\ ClausesTyped'
  /\ \A v \in VarIndex : reasons[v] # CNull => reasons[v] \in K
  /\ reasons' = [v \in VarIndex |-> IF reasons[v] = CNull THEN CNull ELSE f[reasons[v]]]
  /\ watches' \in [LitIndex -> Seq(Tr!Watch)]
  /\ \A m \in LitSet : ListRenamed(m, f, K)

(* What a renamed list has, place by place. *)
LEMMA ListFacts ==
  ASSUME NEW m, NEW f, NEW K, ListRenamed(m, f, K), NEW i \in 1 .. Len(watches'[m])
  PROVE  \E j \in Places(m, K) :
           /\ i = Rank(Places(m, K), j)
           /\ watches'[m][i].c = f[watches[m][j].c] /\ watches'[m][i].o = watches[m][j].o
           /\ watches'[m][i].bin = watches[m][j].bin
<1> DEFINE I == Places(m, K)
<1>1. RanksOf(I) /\ i \in 1 .. Cardinality(I)
  BY DEF ListRenamed
<1>2. PICK j \in I : Rank(I, j) = i
  BY <1>1 DEF RanksOf
<1>3. watches'[m][i] =
        [c |-> f[watches[m][j].c], o |-> watches[m][j].o, bin |-> watches[m][j].bin]
  BY <1>2 DEF ListRenamed
<1> QED BY <1>2, <1>3

LEMMA RenamedMatch ==
  ASSUME Tr!TrailInv, ClausesTyped, NEW f, NEW K, Renames(f, K)
  PROVE  Tr!WatchesMatch'
<1>1. /\ Tr!Clauses' = Clauses' /\ Tr!Clauses = Clauses /\ K \subseteq Clauses
      /\ \A c \in K : f[c] \in Clauses'
  <2>1. Tr!Clauses = Clauses /\ Live \subseteq Clauses
    BY ShownFacts
  <2>2. Tr!Clauses' = Clauses'
    BY DEF Renames, ClausesTyped, Tr!Clauses, Shown, Clauses
  <2> QED BY <2>1, <2>2 DEF Renames
<1>2. ASSUME NEW m \in LitSet, NEW i \in 1 .. Len(watches'[m])
      PROVE  Tr!WatchOK(m, watches[m][i])'
  <2>1. PICK j \in Places(m, K) :
           /\ watches'[m][i].c = f[watches[m][j].c] /\ watches'[m][i].o = watches[m][j].o
           /\ watches'[m][i].bin = watches[m][j].bin
    <3>1. ListRenamed(m, f, K)
      BY <1>2 DEF Renames
    <3> QED BY <1>2, <3>1, ListFacts
  <2> DEFINE w == watches[m][j]
  <2>2. Tr!WatchOK(m, w) /\ w.c \in K
    BY <1>2, <2>1, TrFacts, SameOps DEF Tr!WatchesMatch, Places
  <2>3. Shown'[f[w.c]] = Shown[w.c] /\ f[w.c] \in Clauses'
    BY <1>1, <2>2 DEF Renames
  <2> HIDE DEF w
  <2>4. /\ watches'[m][i].c = f[w.c] /\ watches'[m][i].o = w.o /\ watches'[m][i].bin = w.bin
    BY <2>1 DEF w
  <2> QED BY <1>1, <2>2, <2>3, <2>4 DEF Tr!WatchOK, Tr!Watched
<1>3. ASSUME NEW m \in LitSet, NEW i \in 1 .. Len(watches'[m]), NEW k \in 1 .. Len(watches'[m]),
             watches'[m][i].c = watches'[m][k].c
      PROVE  i = k
  <2> DEFINE I == Places(m, K)
  <2>1. ListRenamed(m, f, K)
    BY <1>3 DEF Renames
  <2>2. PICK j \in I : Rank(I, j) = i /\ watches'[m][i].c = f[watches[m][j].c]
    BY <2>1, ListFacts
  <2>3. PICK l \in I : Rank(I, l) = k /\ watches'[m][k].c = f[watches[m][l].c]
    BY <2>1, ListFacts
  <2>4. /\ watches[m][j].c \in K /\ watches[m][l].c \in K
        /\ j \in 1 .. Len(watches[m]) /\ l \in 1 .. Len(watches[m])
    BY DEF Places
  <2>5. watches[m][j].c = watches[m][l].c
    BY <1>3, <2>2, <2>3, <2>4 DEF Renames
  <2>6. j = l
    BY <1>3, <2>4, <2>5, TrFacts, SameOps DEF Tr!WatchesMatch, Tr!WatchesOnce
  <2> QED BY <2>2, <2>3, <2>6
<1>4. ASSUME NEW d \in Clauses', Len(Shown'[d]) >= 2, NEW m \in Tr!Watched(d)'
      PROVE  Tr!Watches(m, d)'
  <2>1. PICK c \in K : d = f[c]
    <3>1. Len(<<>>) = 0
      OBVIOUS
    <3> QED BY <1>4, <3>1 DEF Renames
  <2>2. Shown'[d] = Shown[c] /\ c \in Tr!Clauses
    BY <1>1, <2>1 DEF Renames
  <2>3. m \in Tr!Watched(c) /\ Len(Shown[c]) >= 2
    BY <1>4, <2>2 DEF Tr!Watched
  <2>4. PICK j \in 1 .. Len(watches[m]) : watches[m][j].c = c
    BY <2>2, <2>3, TrFacts DEF Tr!WatchesMatch, Tr!Watches
  <2>5. m \in LitSet
    <3>1. Shown[c] \in Seq(LitSet)
      BY <2>2, ShownFacts DEF Tr!Clauses
    <3>2. 1 \in 1 .. Len(Shown[c]) /\ 2 \in 1 .. Len(Shown[c])
      BY <2>3, <3>1
    <3> QED BY <2>3, <3>1, <3>2 DEF Tr!Watched
  <2> DEFINE I == Places(m, K)
  <2>6. j \in I /\ ListRenamed(m, f, K)
    BY <2>4, <2>5 DEF Places, Renames
  <2>7. Rank(I, j) \in 1 .. Len(watches'[m]) /\ watches'[m][Rank(I, j)].c = f[c]
    <3>1. /\ watches'[m][Rank(I, j)] =
               [c |-> f[watches[m][j].c], o |-> watches[m][j].o, bin |-> watches[m][j].bin]
          /\ Len(watches'[m]) = Cardinality(I) /\ RanksOf(I)
      BY <2>6 DEF ListRenamed
    <3> HIDE DEF I
    <3>2. Rank(I, j) \in 1 .. Cardinality(I)
      BY <2>6, <3>1 DEF RanksOf
    <3> QED BY <2>4, <3>1, <3>2
  <2> QED BY <2>1, <2>7 DEF Tr!Watches
<1> QED BY <1>1, <1>2, <1>3, <1>4, SameOps DEF Tr!WatchesMatch, Tr!WatchesOnce

LEMMA RenamedCover ==
  ASSUME Tr!TrailInv, ClausesTyped, NEW f, NEW K, Renames(f, K)
  PROVE  Tr!WatchesCover'
<1>1. /\ mode = "idle" /\ mode' = "idle" /\ px = 0 /\ px' = 0
      /\ UNCHANGED <<D, head, Level, vals, levels>>
  BY DEF Renames, loopVars, CNull
<1>2. ASSUME NEW d \in Clauses', NEW c \in K, Shown'[d] = Shown[c], NEW m, Tr!Covered(c, m)
      PROVE  Tr!Covered(d, m)'
  <2>1. CASE ~ Tr!IsFalse(m)
    BY <1>1, <2>1 DEF Tr!Covered, Tr!IsFalse
  <2>2. CASE Tr!Unseen(m, c)
    <3>1. \E i \in (head + 1) .. Len(D) : D[i] = Tr!Not(m)
      BY <1>1, <2>2 DEF Tr!Unseen, Tr!CNull
    <3> QED BY <1>1, <3>1 DEF Tr!Covered, Tr!Unseen
  <2>3. CASE Tr!TrueBelow(c, m)
    <3>1. Tr!TrueBelow(d, m)'
      BY <1>1, <1>2, <2>3 DEF Tr!TrueBelow, Tr!IsTrue
    <3> QED BY <3>1 DEF Tr!Covered
  <2> QED BY <1>2, <2>1, <2>2, <2>3 DEF Tr!Covered
<1>3. ASSUME NEW d \in Clauses', Len(Shown'[d]) >= 2
      PROVE  /\ Tr!Covered(d, Shown[d][1])' \/ Tr!Covered(d, Shown[d][2])'
             /\ d \in added' => Tr!Covered(d, Shown[d][1])' /\ Tr!Covered(d, Shown[d][2])'
  <2>1. PICK c \in K : d = f[c]
    <3>1. Len(<<>>) = 0
      OBVIOUS
    <3> QED BY <1>3, <3>1 DEF Renames
  <2>2. Shown'[d] = Shown[c] /\ (d \in added' <=> c \in added) /\ c \in Tr!Clauses
    <3>1. K \subseteq Live /\ Live \subseteq Clauses /\ Tr!Clauses = Clauses
      BY ShownFacts DEF Renames
    <3> QED BY <2>1, <3>1 DEF Renames
  <2>3. /\ Tr!Covered(c, Shown[c][1]) \/ Tr!Covered(c, Shown[c][2])
        /\ c \in added => Tr!Covered(c, Shown[c][1]) /\ Tr!Covered(c, Shown[c][2])
    BY <1>3, <2>2, TrFacts DEF Tr!WatchesCover
  <2>4. \A m : Tr!Covered(c, m) => Tr!Covered(d, m)'
    BY <1>2, <1>3, <2>1, <2>2
  <2> QED BY <2>2, <2>3, <2>4
<1>4. Tr!Clauses' = Clauses'
  BY DEF Renames, ClausesTyped, Tr!Clauses, Shown, Clauses
<1> QED BY <1>3, <1>4 DEF Tr!WatchesCover

LEMMA RenamedInv ==
  ASSUME Tr!TrailInv, ClausesTyped, NEW f, NEW K, Renames(f, K)
  PROVE  Tr!TrailInv'
<1>1. /\ mode = "idle" /\ mode' = "idle" /\ px = 0 /\ px' = 0
      /\ UNCHANGED <<D, head, Level, vals, levels, bot, heap, pm, pi, trg>>
  BY DEF Renames, loopVars, CNull
<1>2. Tr!Clauses' = Clauses' /\ Shown' \in Seq(Seq(LitSet))
  <2>1. cls' \in Seq(Seq(LitSet)) /\ <<>> \in Seq(LitSet)
    BY DEF Renames, ClausesTyped
  <2>2. Len(cls') \in Nat /\ \A c \in Clauses' : cls'[c] \in Seq(LitSet)
    BY <2>1 DEF Clauses
  <2>3. Shown' = [c \in 1 .. Len(cls') |-> IF c \in Gone' THEN <<>> ELSE cls'[c]]
    BY DEF Shown, Clauses
  <2>4. \A c \in 1 .. Len(cls') : Shown'[c] \in Seq(LitSet)
    BY <2>1, <2>2, <2>3 DEF Clauses
  <2> QED BY <2>2, <2>3, <2>4 DEF Tr!Clauses, Clauses
<1>3. /\ K \subseteq Clauses /\ \A c \in K : Shown'[f[c]] = Shown[c] /\ f[c] \in Clauses'
      /\ Tr!Clauses = Clauses
  <2>1. K \subseteq Live /\ Live \subseteq Clauses /\ Tr!Clauses = Clauses
    BY ShownFacts DEF Renames
  <2> QED BY <2>1 DEF Renames
<1>4. Tr!TypeOK'
  <2>1. reasons' \in [VarIndex -> Nat]
    <3>1. \A c \in K : f[c] \in Nat
      BY <1>3 DEF Clauses
    <3>2. reasons \in [VarIndex -> Nat]
      BY TrFacts, SameOps DEF Tr!TypeOK
    <3> QED BY <3>1, <3>2 DEF Renames, CNull
  <2>2. watches' \in [LitIndex -> Seq(Tr!Watch)] /\ added' \subseteq Clauses' /\ Tr!Watch' = Tr!Watch
    BY DEF Renames, Tr!Watch, Tr!LitSet
  <2>3. Tr!TypeOK
    BY TrFacts
  <2> QED BY <1>1, <1>2, <2>1, <2>2, <2>3, SameOps DEF Tr!TypeOK, Tr!CNull
<1>5. Tr!ModeOK' /\ Tr!LevelsOK' /\ Tr!TrailConsistent' /\ Tr!FreeVarsInHeap'
  <2>1. Tr!ModeOK /\ Tr!LevelsOK /\ Tr!TrailConsistent /\ Tr!FreeVarsInHeap
    BY TrFacts
  <2>2. Tr!ModeOK'
    BY <1>1, <2>1 DEF Tr!ModeOK
  <2>3. Tr!LevelsOK'
    BY <1>1, <2>1 DEF Tr!LevelsOK, Tr!TopLevel
  <2>4. Tr!TrailConsistent'
    BY <1>1, <2>1 DEF Tr!TrailConsistent, Tr!IsTrue, Tr!IsFalse
  <2>5. Tr!FreeVarsInHeap'
    BY <1>1, <2>1 DEF Tr!FreeVarsInHeap, Tr!IsFree
  <2> QED BY <2>2, <2>3, <2>4, <2>5
<1>6. Tr!ClausesOK'
  <2>1. ASSUME NEW d \in Clauses'
        PROVE  Tr!DistinctVars(Shown[d])'
    <3>1. CASE Shown'[d] = <<>>
      BY <3>1 DEF Tr!DistinctVars
    <3>2. CASE \E c \in K : d = f[c]
      BY <1>3, <3>2, TrFacts DEF Tr!ClausesOK, Tr!DistinctVars
    <3> QED BY <2>1, <3>1, <3>2 DEF Renames
  <2> QED BY <1>2, <2>1 DEF Tr!ClausesOK
<1>7. Tr!ReasonFirst'
  <2>1. ASSUME NEW i \in 1 .. Len(D), reasons'[Var(D[i])] # 0
        PROVE  LET c == reasons'[Var(D[i])]
               IN  /\ c \in Clauses' /\ Shown'[c] # <<>> /\ Shown'[c][1] = D[i]
                   /\ \A k \in 2 .. Len(Shown'[c]) :
                        \E j \in 1 .. (i - 1) : D[j] = Tr!Not(Shown'[c][k])
    <3> DEFINE v == Var(D[i])
    <3>1. v \in VarIndex
      <4>1. D[i] \in LitSet
        BY <2>1, TrFacts, SameOps DEF Tr!TypeOK
      <4> QED BY <4>1, NVarsAssumption DEF LitSet, VarIndex, Var
    <3>2. reasons[v] # 0 /\ reasons[v] \in K /\ reasons'[v] = f[reasons[v]]
      BY <2>1, <3>1 DEF Renames, CNull
    <3> DEFINE b == reasons[v]
    <3>3. /\ Shown[b] # <<>> /\ Shown[b][1] = D[i]
          /\ \A k \in 2 .. Len(Shown[b]) : \E j \in 1 .. (i - 1) : D[j] = Tr!Not(Shown[b][k])
      BY <2>1, <3>2, TrFacts, SameOps DEF Tr!ReasonFirst, Tr!CNull
    <3>4. Shown'[f[b]] = Shown[b] /\ f[b] \in Clauses'
      BY <1>3, <3>2
    <3> HIDE DEF b
    <3> QED BY <3>2, <3>3, <3>4 DEF b
  <2> QED BY <1>1, <1>2, <2>1, SameOps DEF Tr!ReasonFirst, Tr!CNull
<1>8. Tr!UnitsHold'
  <2>1. ASSUME NEW d \in added', Len(Shown'[d]) = 1
        PROVE  (Tr!IsTrue(Shown[d][1]) /\ levels[Var(Shown[d][1])] = 0)'
    <3>1. d \in Clauses'
      BY DEF Renames
    <3>2. PICK c \in K : d = f[c]
      <4>1. Len(<<>>) # 1
        OBVIOUS
      <4>2. Shown'[d] # <<>>
        BY <2>1, <4>1
      <4>3. (\E c \in K : d = f[c]) \/ Shown'[d] = <<>>
        BY <3>1 DEF Renames
      <4> QED BY <4>2, <4>3
    <3>3. c \in added /\ Shown'[d] = Shown[c]
      BY <2>1, <3>2 DEF Renames
    <3>4. Tr!IsTrue(Shown[c][1]) /\ levels[Var(Shown[c][1])] = 0
      BY <2>1, <3>3, TrFacts, SameOps DEF Tr!UnitsHold
    <3> QED BY <1>1, <3>3, <3>4 DEF Tr!IsTrue
  <2> QED BY <2>1, SameOps DEF Tr!UnitsHold
<1>9. Tr!ConflictFalsified' /\ Tr!ConflictLast'
  BY <1>1 DEF Tr!ConflictFalsified, Tr!ConflictLast, Tr!CNull
<1> QED BY <1>4, <1>5, <1>6, <1>7, <1>8, <1>9, RenamedMatch, RenamedCover
    DEF Tr!TrailInv, Tr!TrailCore

-----------------------------------------------------------------------------
(***************************************************************************)
(* The literals of the clauses.                                            *)
(***************************************************************************)

(* No clause gains or loses a literal. *)
LitsKept ==
  /\ Clauses' = Clauses /\ cls' \in Seq(Seq(LitSet))
  /\ \A c \in Clauses : ToSet(cls'[c]) = ToSet(cls[c])

LEMMA SwappedSet ==
  ASSUME NEW S, NEW s \in Seq(S), NEW i \in 1 .. Len(s), NEW j \in 1 .. Len(s),
         NEW t, t = [[s EXCEPT ![i] = s[j]] EXCEPT ![j] = s[i]]
  PROVE  t \in Seq(S) /\ ToSet(t) = ToSet(s)
<1>1. t \in Seq(S) /\ Len(t) = Len(s) /\ DOMAIN t = 1 .. Len(s) /\ DOMAIN s = 1 .. Len(s)
  OBVIOUS
<1>2. \A k \in 1 .. Len(s) : t[k] = IF k = j THEN s[i] ELSE IF k = i THEN s[j] ELSE s[k]
  OBVIOUS
<1>3. \A x : x \in ToSet(t) <=> \E k \in 1 .. Len(s) : t[k] = x
  BY <1>1 DEF ToSet
<1>4. \A x : x \in ToSet(s) <=> \E k \in 1 .. Len(s) : s[k] = x
  BY <1>1 DEF ToSet
<1>5. \A k \in 1 .. Len(s) : t[k] \in ToSet(s)
  BY <1>2, <1>4
<1>6. \A k \in 1 .. Len(s) : s[k] \in ToSet(t)
  <2> TAKE k \in 1 .. Len(s)
  <2>1. t[j] = s[i] /\ (i # j => t[i] = s[j]) /\ (k # i /\ k # j => t[k] = s[k])
    BY <1>2
  <2> QED BY <1>3, <2>1
<1>7. \A x : x \in ToSet(t) <=> x \in ToSet(s)
  BY <1>3, <1>4, <1>5, <1>6
<1> QED BY <1>1, <1>7

LEMMA SwapKeeps ==
  ASSUME ClausesTyped, NEW q \in Clauses, NEW i \in 1 .. Len(cls[q]), NEW j \in 1 .. Len(cls[q]),
         cls' = Changed(cls, q, i, cls[q][j], j, cls[q][i])
  PROVE  LitsKept
<1> DEFINE t == [[cls[q] EXCEPT ![i] = cls[q][j]] EXCEPT ![j] = cls[q][i]]
<1>1. cls \in Seq(Seq(LitSet)) /\ DOMAIN cls = Clauses /\ cls[q] \in Seq(LitSet)
  BY DEF ClausesTyped, Clauses
<1>2. t \in Seq(LitSet) /\ ToSet(t) = ToSet(cls[q])
  BY <1>1, SwappedSet
<1>3. cls' = [cls EXCEPT ![q] = t]
  BY <1>1 DEF Changed
<1> HIDE DEF t
<1>4. cls' \in Seq(Seq(LitSet)) /\ Len(cls') = Len(cls)
  BY <1>1, <1>2, <1>3
<1>5. \A c \in Clauses : cls'[c] = IF c = q THEN t ELSE cls[c]
  BY <1>1, <1>3
<1> QED BY <1>2, <1>4, <1>5 DEF LitsKept, Clauses

LEMMA SameKeeps ==
  ASSUME ClausesTyped, UNCHANGED cls
  PROVE  LitsKept
BY DEF ClausesTyped, LitsKept, Clauses

(* The blocking literal of a binary clause is its other literal. *)
LEMMA BinaryKeeps ==
  ASSUME Tr!TrailInv, ClausesTyped, VisitBinary
  PROVE  LitsKept
<1> DEFINE q == TheWatch.c
<1> DEFINE o == TheWatch.o
<1>1. /\ q \in Live /\ q \in Clauses /\ cls[q] \in Seq(LitSet) /\ Len(cls[q]) >= 2
      /\ pm \in LitSet /\ pi \in 1 .. Len(watches[pm]) /\ Shown[q] = cls[q]
  BY VisitedLive, ShownFacts DEF VisitBinary, ClausesTyped, Live, Clauses
<1>2. Tr!WatchOK(pm, TheWatch)
  BY <1>1, TrFacts, SameOps DEF Tr!WatchesMatch, TheWatch
<1>3. Len(cls[q]) = 2 /\ o # pm /\ \E k \in 1 .. Len(cls[q]) : cls[q][k] = o
  BY <1>1, <1>2 DEF Tr!WatchOK, VisitBinary
<1>4. cls' = IF cls[q][1] = pm THEN Changed(cls, q, 1, o, 2, pm) ELSE cls
  BY DEF VisitBinary, Changed
<1> HIDE DEF q, o
<1>5. CASE cls[q][1] = pm
  <2>1. o = cls[q][2] /\ 1 \in 1 .. Len(cls[q]) /\ 2 \in 1 .. Len(cls[q])
    <3>1. PICK k \in 1 .. Len(cls[q]) : cls[q][k] = o
      BY <1>3
    <3>2. k = 2
      BY <1>3, <1>5, <3>1
    <3> QED BY <1>3, <3>1, <3>2
  <2>2. cls' = Changed(cls, q, 1, cls[q][2], 2, cls[q][1])
    BY <1>4, <1>5, <2>1
  <2> QED BY <1>1, <2>1, <2>2, SwapKeeps
<1>6. CASE cls[q][1] # pm
  BY <1>4, <1>6, SameKeeps
<1> QED BY <1>5, <1>6

LEMMA RewatchKeeps ==
  ASSUME Tr!TrailInv, ClausesTyped, VisitRewatch
  PROVE  LitsKept
<1> DEFINE q == TheWatch.c
<1> DEFINE k == IF cls[q][1] = pm THEN 1 ELSE 2
<1>1. /\ q \in Clauses /\ cls[q] \in Seq(LitSet) /\ Len(cls[q]) >= 2 /\ Len(cls[q]) \in Nat
      /\ pm \in {cls[q][1], cls[q][2]}
  BY VisitedLive, ShownFacts DEF VisitRewatch, VisitingLong, ClausesTyped, Live, Clauses
<1>2. PICK p \in 3 .. Len(cls[q]) : cls' = Changed(cls, q, k, cls[q][p], p, pm)
  BY DEF VisitRewatch, Changed
<1>3. k \in 1 .. Len(cls[q]) /\ p \in 1 .. Len(cls[q]) /\ cls[q][k] = pm
  BY <1>1
<1> HIDE DEF q, k
<1> QED BY <1>1, <1>2, <1>3, SwapKeeps

LEMMA LastKeeps ==
  ASSUME Tr!TrailInv, ClausesTyped, VisitLast
  PROVE  LitsKept
<1> DEFINE q == TheWatch.c
<1>1. /\ q \in Clauses /\ cls[q] \in Seq(LitSet) /\ Len(cls[q]) >= 2 /\ Len(cls[q]) \in Nat
      /\ pm \in {cls[q][1], cls[q][2]}
  BY VisitedLive, ShownFacts DEF VisitLast, VisitingLong, ClausesTyped, Live, Clauses
<1>2. cls' = cls \/ (cls[q][1] = pm /\ cls' = Changed(cls, q, 1, OtherWatched(q), 2, pm))
  BY DEF VisitLast, Changed
<1> HIDE DEF q
<1>3. CASE cls[q][1] = pm /\ cls' = Changed(cls, q, 1, OtherWatched(q), 2, pm)
  <2>1. OtherWatched(q) = cls[q][2] /\ 1 \in 1 .. Len(cls[q]) /\ 2 \in 1 .. Len(cls[q])
    BY <1>1, <1>3 DEF OtherWatched
  <2> QED BY <1>1, <1>3, <2>1, SwapKeeps
<1> QED BY <1>2, <1>3, SameKeeps

(* A step of the search or a decision is one of Tr's, and keeps the        *)
(* literals of the clauses.                                                *)
Moves == SearchStep \/ \E m \in LitSet : Decide(m)

LEMMA MovesKeep ==
  ASSUME Tr!TrailInv, ClausesTyped, Moves, UNCHANGED rmq
  PROVE  Tr!TrailNext /\ LitsKept
<1>1. CASE \/ PropTake \/ PropReturn \/ PropNext \/ VisitBlocked
           \/ BackStep \/ ClientProp \/ \E l \in 0 .. Level : ClientBack(l)
  <2>1. UNCHANGED cls
    BY <1>1 DEF PropTake, PropReturn, PropNext, VisitBlocked, BackStep, BackPop, BackStop,
       ClientProp, StartProp, ClientBack, StartBack, clauseVars
  <2> QED BY <1>1, <2>1, QuietSteps, SameKeeps
<1>2. CASE VisitSatisfied
  BY <1>2, SatisfiedStep, SameKeeps DEF VisitSatisfied
<1>3. CASE VisitBinary
  BY <1>3, BinaryStep, BinaryKeeps
<1>4. CASE VisitRewatch
  BY <1>4, RewatchStep, RewatchKeeps
<1>5. CASE VisitLast
  BY <1>5, LastStep, LastKeeps
<1>6. ASSUME NEW c \in Live, ClientAssert(c)
      PROVE  Tr!TrailNext /\ LitsKept
  BY <1>6, AssertStep, SameKeeps DEF ClientAssert, clauseVars
<1>7. ASSUME NEW m \in LitSet, Decide(m)
      PROVE  Tr!TrailNext /\ LitsKept
  BY <1>7, DecideSteps, SameKeeps DEF Decide, ClientAssume, ClientGuess, clauseVars
<1> QED BY <1>1, <1>2, <1>3, <1>4, <1>5, <1>6, <1>7 DEF Moves, SearchStep, PropStep

-----------------------------------------------------------------------------
(***************************************************************************)
(* The inductive invariant of the store.                                   *)
(***************************************************************************)
Distinct(s) == \A i, j \in 1 .. Len(s) : s[i] = s[j] => i = j

StoreTypes == ClausesTyped /\ learnts \subseteq Clauses /\ act \in BOOLEAN

(* A live clause is added or learned.  Without activation literals the     *)
(* collector alone removes clauses, each once.                             *)
QueueOK ==
  /\ added \cap learnts = {} /\ Live \subseteq added \cup learnts
  /\ ~ act => isActive = {} /\ Distinct(rmq) /\ learnts \cap Gone = {}

(* Only assigned variables have a reason, and only decisions have none.    *)
ReasonsOK ==
  /\ \A v \in VarIndex : reasons[v] # CNull => \E i \in 1 .. Len(D) : Var(D[i]) = v
  /\ \A i \in 1 .. Len(D) : reasons[Var(D[i])] = CNull => levels[Var(D[i])] > 0

ActiveOK ==
  /\ isActive \subseteq made /\ made \subseteq ActVars
  /\ occs \in [VarSet -> Seq(Clauses)]
  /\ \A v \in VarSet \ isActive : occs[v] = <<>>

FreeOK ==
  /\ free \in Seq(LitSet) /\ Distinct(free)
  /\ \A i \in 1 .. Len(free) : free[i] = Pos(Var(free[i])) /\ Var(free[i]) \in made \ isActive

(* Activation literals occur negatively, while they are active, and the    *)
(* occurrences name exactly the live clauses they are in.                  *)
LitsOK ==
  \A c \in Live : \A m \in ToSet(cls[c]) :
    Var(m) \in ActVars => /\ m = Not(Pos(Var(m))) /\ Var(m) \in isActive
                          /\ c \in ToSet(occs[Var(m)])

OccsOK ==
  \A v \in isActive : \A c \in ToSet(occs[v]) \cap Live : \E m \in ToSet(cls[c]) : Var(m) = v

StoreInv ==
  /\ Tr!TrailInv /\ StoreTypes /\ QueueOK /\ ReasonsOK
  /\ ActiveOK /\ FreeOK /\ LitsOK /\ OccsOK

(* The types of the trail, in the terms of Cgc. *)
LEMMA TrailTypes ==
  ASSUME Tr!TrailInv
  PROVE  /\ D \in Seq(LitSet) /\ Level \in Nat
         /\ reasons \in [VarIndex -> Nat] /\ levels \in [VarIndex -> Nat \cup {-1}]
         /\ watches \in [LitIndex -> Seq(Tr!Watch)] /\ added \subseteq Tr!Clauses
         /\ \A m \in LitSet : Var(m) \in VarSet /\ Var(m) \in VarIndex /\ m \in LitIndex
         /\ \A i \in 1 .. Len(D) : D[i] \in LitSet /\ Var(D[i]) \in VarIndex
         /\ \A v \in VarSet : v \in VarIndex /\ Pos(v) \in LitSet /\ Var(Pos(v)) = v
<1>1. /\ D \in Seq(LitSet) /\ Level \in Nat
      /\ reasons \in [VarIndex -> Nat] /\ levels \in [VarIndex -> Nat \cup {-1}]
      /\ watches \in [LitIndex -> Seq(Tr!Watch)] /\ added \subseteq Tr!Clauses
  BY TrFacts, SameOps DEF Tr!TypeOK
<1>2. \A m \in LitSet : Var(m) \in VarSet /\ Var(m) \in VarIndex /\ m \in LitIndex
  BY NVarsAssumption DEF LitSet, LitIndex, VarSet, VarIndex, Var
<1>3. \A i \in 1 .. Len(D) : D[i] \in LitSet
  BY <1>1
<1>4. \A v \in VarSet : v \in VarIndex /\ Pos(v) \in LitSet /\ Var(Pos(v)) = v
  BY NVarsAssumption DEF LitSet, VarSet, VarIndex, Var, Pos
<1> QED BY <1>1, <1>2, <1>3, <1>4

LEMMA AssignReasons ==
  ASSUME Tr!TrailInv, ReasonsOK, NEW m \in LitSet, NEW c \in Nat, Assign(m, c)
  PROVE  ReasonsOK'
<1>1. D \in Seq(LitSet) /\ Level \in Nat /\ Len(D) \in Nat /\ Var(m) \in VarIndex
      /\ \A i \in 1 .. Len(D) : Var(D[i]) \in VarIndex
  BY TrailTypes
<1>2. /\ Len(D') = Len(D) + 1 /\ D'[Len(D) + 1] = m /\ \A i \in 1 .. Len(D) : D'[i] = D[i]
      /\ Level' = IF c = CNull THEN Level + 1 ELSE Level
  BY <1>1 DEF Assign
<1>3. \A v \in VarIndex : /\ levels'[v] = IF v = Var(m) THEN Level' ELSE levels[v]
                          /\ reasons'[v] = IF v = Var(m) THEN c ELSE reasons[v]
  BY TrailTypes DEF Assign
<1>4. ASSUME NEW v \in VarIndex, reasons'[v] # CNull
      PROVE  \E i \in 1 .. Len(D') : Var(D'[i]) = v
  <2>1. CASE v = Var(m)
    BY <1>1, <1>2, <2>1
  <2>2. CASE v # Var(m)
    <3>1. PICK i \in 1 .. Len(D) : Var(D[i]) = v
      BY <1>3, <1>4, <2>2 DEF ReasonsOK
    <3> QED BY <1>1, <1>2, <3>1
  <2> QED BY <2>1, <2>2
<1>5. ASSUME NEW i \in 1 .. Len(D'), reasons'[Var(D'[i])] = CNull
      PROVE  levels'[Var(D'[i])] > 0
  <2>1. CASE Var(D'[i]) = Var(m)
    BY <1>1, <1>2, <1>3, <1>5, <2>1
  <2>2. CASE Var(D'[i]) # Var(m)
    <3>1. i \in 1 .. Len(D) /\ D'[i] = D[i]
      BY <1>1, <1>2, <2>2
    <3>2. Var(D[i]) \in VarIndex /\ Var(D[i]) # Var(m)
      BY <1>1, <2>2, <3>1
    <3> QED BY <1>3, <1>5, <3>1, <3>2 DEF ReasonsOK
  <2> QED BY <2>1, <2>2
<1> QED BY <1>4, <1>5 DEF ReasonsOK

LEMMA PopReasons ==
  ASSUME Tr!TrailInv, ReasonsOK, BackPop
  PROVE  ReasonsOK'
<1> DEFINE n == Len(D)
<1> DEFINE u == Var(D[n])
<1>1. D \in Seq(LitSet) /\ n \in Nat /\ \A i \in 1 .. n : Var(D[i]) \in VarIndex
  BY TrailTypes
<1>2. D # <<>>
  BY DEF BackPop, AtTarget
<1>3. n >= 1 /\ Last(D) = D[n]
  BY <1>1, <1>2 DEF Last
<1>4. Len(D') = n - 1 /\ \A i \in 1 .. (n - 1) : D'[i] = D[i]
  <2>1. D' = SubSeq(D, 1, n - 1)
    BY DEF BackPop, Front
  <2>2. \A k \in 0 .. Len(D) :
          Len(SubSeq(D, 1, k)) = k /\ \A i \in 1 .. k : SubSeq(D, 1, k)[i] = D[i]
    BY <1>1
  <2>3. n - 1 \in 0 .. Len(D)
    BY <1>1, <1>3
  <2> HIDE DEF n
  <2> QED BY <2>1, <2>2, <2>3
<1>5. u \in VarIndex /\ \A v \in VarIndex : /\ reasons'[v] = IF v = u THEN CNull ELSE reasons[v]
                                            /\ levels'[v] = IF v = u THEN -1 ELSE levels[v]
  BY <1>1, <1>3, TrailTypes DEF BackPop
<1>6. \A i \in 1 .. (n - 1) : Var(D[i]) # u
  <2> TAKE i \in 1 .. (n - 1)
  <2>1. i \in 1 .. Len(D) /\ n \in 1 .. Len(D) /\ i < n
    BY <1>1, <1>3
  <2> HIDE DEF n
  <2> QED BY <2>1, TrFacts, SameOps DEF Tr!TrailConsistent
<1> HIDE DEF u
<1>7. ASSUME NEW v \in VarIndex, reasons'[v] # CNull
      PROVE  \E i \in 1 .. Len(D') : Var(D'[i]) = v
  <2>1. v # u /\ reasons[v] # CNull
    BY <1>5, <1>7
  <2>2. PICK i \in 1 .. n : Var(D[i]) = v
    BY <2>1 DEF ReasonsOK
  <2>3. i \in 1 .. (n - 1)
    BY <1>1, <1>3, <2>1, <2>2 DEF u
  <2> QED BY <1>4, <2>2, <2>3
<1>8. ASSUME NEW i \in 1 .. Len(D'), reasons'[Var(D'[i])] = CNull
      PROVE  levels'[Var(D'[i])] > 0
  <2>1. i \in 1 .. (n - 1) /\ i \in 1 .. n /\ D'[i] = D[i] /\ Var(D[i]) # u
    BY <1>1, <1>4, <1>6
  <2>2. reasons[Var(D[i])] = CNull /\ levels'[Var(D[i])] = levels[Var(D[i])]
    BY <1>1, <1>5, <1>8, <2>1
  <2>3. levels[Var(D[i])] > 0
    BY <2>1, <2>2 DEF ReasonsOK
  <2> QED BY <2>1, <2>2, <2>3
<1> QED BY <1>7, <1>8 DEF ReasonsOK

LEMMA SameReasons ==
  ASSUME ReasonsOK, UNCHANGED <<D, reasons, levels>>
  PROVE  ReasonsOK'
BY DEF ReasonsOK

LEMMA MovesReasons ==
  ASSUME Tr!TrailInv, ClausesTyped, ReasonsOK, Moves
  PROVE  ReasonsOK'
<1>1. CASE \/ PropTake \/ PropReturn \/ PropNext \/ VisitBlocked \/ VisitSatisfied \/ VisitRewatch
           \/ BackStop \/ ClientProp \/ \E l \in 0 .. Level : ClientBack(l)
  <2>1. UNCHANGED <<D, reasons, levels>>
    BY <1>1 DEF PropTake, PropReturn, PropNext, VisitBlocked, VisitSatisfied, VisitRewatch,
       BackStop, ClientProp, StartProp, ClientBack, StartBack, assignVars
  <2> QED BY <2>1, SameReasons
<1>2. CASE BackPop
  BY <1>2, PopReasons
<1>3. CASE VisitBinary \/ VisitLast
  <2> DEFINE q == TheWatch.c
  <2>1. /\ Visiting /\ q \in Live /\ q \in Clauses /\ cls[q] \in Seq(LitSet) /\ Len(cls[q]) >= 2
        /\ pm \in LitSet /\ pi \in 1 .. Len(watches[pm])
    BY <1>3, VisitedLive, ShownFacts DEF VisitBinary, VisitLast, VisitingLong, ClausesTyped,
       Live, Clauses
  <2>2. q \in Nat
    BY <2>1 DEF Clauses
  <2>3. OtherWatched(q) \in LitSet
    BY <2>1 DEF OtherWatched
  <2>4. TheWatch.o \in LitSet
    <3>1. pm \in LitIndex /\ watches \in [LitIndex -> Seq(Tr!Watch)]
      BY <2>1, TrailTypes
    <3>2. TheWatch \in Tr!Watch
      BY <2>1, <3>1 DEF TheWatch
    <3> QED BY <3>2, SameOps DEF Tr!Watch
  <2>5. \/ Assign(TheWatch.o, q) \/ Assign(OtherWatched(q), q)
        \/ UNCHANGED assignVars
    BY <1>3 DEF VisitBinary, VisitLast, ReturnConflict
  <2> HIDE DEF q
  <2> QED BY <2>2, <2>3, <2>4, <2>5, AssignReasons, SameReasons DEF assignVars
<1>4. ASSUME NEW c \in Live, ClientAssert(c)
      PROVE  ReasonsOK'
  <2>1. c \in Nat /\ cls[c] \in Seq(LitSet) /\ cls[c] # <<>>
    BY <1>4, ShownFacts DEF ClientAssert, ClausesTyped, Clauses
  <2>2. cls[c][1] \in LitSet
    BY <2>1
  <2> QED BY <1>4, <2>1, <2>2, AssignReasons DEF ClientAssert
<1>5. ASSUME NEW m \in LitSet, Decide(m)
      PROVE  ReasonsOK'
  <2>1. Assign(m, CNull) /\ CNull \in Nat
    BY <1>5 DEF Decide, ClientAssume, ClientGuess, CNull
  <2> QED BY <2>1, AssignReasons
<1> QED BY <1>1, <1>2, <1>3, <1>4, <1>5 DEF Moves, SearchStep, PropStep, BackStep

LEMMA RestKept ==
  ASSUME StoreInv, LitsKept, UNCHANGED <<added, learnts, rmq, isActive, occs, free, made, act>>
  PROVE  /\ StoreTypes' /\ QueueOK' /\ ActiveOK' /\ FreeOK' /\ LitsOK' /\ OccsOK'
         /\ LiveAdded' = LiveAdded
<1>1. /\ Clauses' = Clauses /\ cls' \in Seq(Seq(LitSet)) /\ Gone' = Gone /\ Live' = Live
      /\ \A c \in Live : c \in Clauses /\ ToSet(cls'[c]) = ToSet(cls[c])
  BY DEF LitsKept, Gone, Live
<1>2. StoreTypes' /\ QueueOK' /\ ActiveOK' /\ FreeOK'
  BY <1>1 DEF StoreInv, StoreTypes, ClausesTyped, QueueOK, ActiveOK, FreeOK, Distinct
<1>3. LitsOK'
  BY <1>1 DEF StoreInv, LitsOK
<1>4. OccsOK'
  BY <1>1 DEF StoreInv, OccsOK
<1>5. LiveAdded' = LiveAdded
  BY <1>1 DEF LiveAdded
<1> QED BY <1>2, <1>3, <1>4, <1>5

LEMMA MovesInv ==
  ASSUME StoreInv, Moves, UNCHANGED <<gcVars, actVars>>
  PROVE  StoreInv' /\ LiveAdded' = LiveAdded
<1>1. Tr!TrailInv /\ ClausesTyped /\ ReasonsOK
  BY DEF StoreInv, StoreTypes
<1>2. UNCHANGED <<learnts, rmq, isActive, occs, free, made, act>>
  BY DEF gcVars, actVars
<1>3. UNCHANGED added
  BY DEF Moves, SearchStep, PropStep, BackStep, PropTake, PropReturn, PropNext, VisitBlocked,
     VisitBinary, VisitSatisfied, VisitRewatch, VisitLast, BackPop, BackStop, ClientProp, StartProp,
     ClientBack, StartBack, ClientAssert, Decide, ClientAssume, ClientGuess, clauseVars
<1>4. Tr!TrailInv' /\ LitsKept
  BY <1>1, <1>2, MovesKeep, TrStep
<1>5. ReasonsOK'
  BY <1>1, MovesReasons
<1> QED BY <1>2, <1>3, <1>4, <1>5, RestKept DEF StoreInv

LEMMA StutterInv ==
  ASSUME StoreInv, UNCHANGED cgcVars
  PROVE  StoreInv' /\ LiveAdded' = LiveAdded
<1>1. /\ UNCHANGED <<added, learnts, rmq, isActive, occs, free, made, act, cls, D, reasons, levels>>
      /\ UNCHANGED trailVars
  BY DEF cgcVars, gcVars, actVars, trailVars
<1>2. Shown' = Shown /\ LitsKept
  BY <1>1, ShownSame, SameKeeps DEF StoreInv, StoreTypes
<1>3. UNCHANGED Tr!trailVars
  BY <1>1, <1>2 DEF trailVars, Tr!trailVars
<1>4. Tr!TrailInv'
  BY <1>3, TrStep DEF StoreInv
<1>5. ReasonsOK'
  BY <1>1, SameReasons DEF StoreInv
<1> QED BY <1>1, <1>2, <1>4, <1>5, RestKept DEF StoreInv

-----------------------------------------------------------------------------
(***************************************************************************)
(* Clauses are stored.                                                     *)
(***************************************************************************)

(* Stored clause c = ms is added, or learned, and occurs where occs says.  *)
Stores(ms) ==
  LET c == Len(cls) + 1
  IN  /\ cls' = Append(cls, ms) /\ UNCHANGED rmq
      /\ \/ added' = added \cup {c} /\ UNCHANGED learnts
         \/ learnts' = learnts \cup {c} /\ UNCHANGED added
      /\ isActive \subseteq isActive'
      /\ \A k \in 1 .. Len(ms) : Var(ms[k]) \in ActVars =>
           ms[k] = Not(Pos(Var(ms[k]))) /\ Var(ms[k]) \in isActive'
      /\ occs' = Occurring(ms, c, isActive')

LEMMA StoresRest ==
  ASSUME StoreInv, NEW ms \in Seq(LitSet), Stores(ms), ~ act' => isActive' = {} /\ ~ act,
         act' \in BOOLEAN, isActive' \subseteq made', made' \subseteq ActVars
  PROVE  StoreTypes' /\ QueueOK' /\ ActiveOK' /\ LitsOK' /\ OccsOK'
<1> DEFINE n == Len(cls) + 1
<1>1. /\ Clauses' = Clauses \cup {n} /\ n \notin Clauses /\ Live' = Live \cup {n}
      /\ ClausesTyped' /\ cls'[n] = ms
      /\ \A c \in Live : cls'[c] = cls[c] /\ c \in Clauses
      /\ Gone' = Gone /\ Gone \subseteq Clauses
  BY ShownAppend, ShownFacts DEF StoreInv, StoreTypes, Stores, Gone
<1>2. /\ \/ added' = added \cup {n} /\ learnts' = learnts
         \/ learnts' = learnts \cup {n} /\ added' = added
      /\ rmq' = rmq /\ isActive \subseteq isActive'
      /\ occs' = Occurring(ms, n, isActive')
  BY DEF Stores
<1>3. \A m \in ToSet(ms) : Var(m) \in ActVars => m = Not(Pos(Var(m))) /\ Var(m) \in isActive'
  BY DEF Stores, ToSet
<1>4. \A v \in VarSet :
        occs'[v] = IF v \in isActive' /\ \E m \in ToSet(ms) : Var(m) = v
                   THEN Append(occs[v], n) ELSE occs[v]
  <2>1. \A v : (\E k \in DOMAIN ms : Var(ms[k]) = v) <=> \E m \in ToSet(ms) : Var(m) = v
    BY DEF ToSet
  <2> QED BY <1>2, <2>1 DEF Occurring
<1>5. added \subseteq Clauses /\ learnts \subseteq Clauses
  BY TrailTypes, ShownFacts DEF StoreInv, StoreTypes
<1>6. occs \in [VarSet -> Seq(Clauses)] /\ \A v \in VarSet : occs[v] \in Seq(Clauses)
  BY DEF StoreInv, ActiveOK
<1>7. \A v \in VarSet : /\ occs'[v] \in Seq(Clauses')
                        /\ ToSet(occs[v]) \subseteq Clauses
                        /\ ToSet(occs[v]) \subseteq ToSet(occs'[v])
                        /\ ToSet(occs'[v]) \subseteq ToSet(occs[v]) \cup {n}
                        /\ n \in ToSet(occs'[v]) <=> v \in isActive' /\ \E m \in ToSet(ms) : Var(m) = v
  <2> TAKE v \in VarSet
  <2> DEFINE o == occs[v]
  <2>1. o \in Seq(Clauses) /\ Clauses \subseteq Clauses' /\ n \in Clauses'
    BY <1>1, <1>6
  <2>2. ToSet(o) \subseteq Clauses
    BY <2>1 DEF ToSet
  <2>3. o \in Seq(Clauses') /\ Append(o, n) \in Seq(Clauses')
    BY <2>1
  <2>4. ToSet(Append(o, n)) = ToSet(o) \cup {n}
    <3>1. /\ Len(Append(o, n)) = Len(o) + 1 /\ Append(o, n)[Len(o) + 1] = n
          /\ \A k \in 1 .. Len(o) : Append(o, n)[k] = o[k]
          /\ DOMAIN Append(o, n) = 1 .. (Len(o) + 1) /\ DOMAIN o = 1 .. Len(o) /\ Len(o) \in Nat
      BY <2>1
    <3>2. \A x : x \in ToSet(Append(o, n)) <=> \E k \in 1 .. (Len(o) + 1) : Append(o, n)[k] = x
      BY <3>1 DEF ToSet
    <3>3. \A x : x \in ToSet(o) <=> \E k \in 1 .. Len(o) : o[k] = x
      BY <3>1 DEF ToSet
    <3>4. \A k \in 1 .. (Len(o) + 1) : k \in 1 .. Len(o) \/ k = Len(o) + 1
      BY <3>1
    <3>5. Len(o) + 1 \in 1 .. (Len(o) + 1) /\ 1 .. Len(o) \subseteq 1 .. (Len(o) + 1)
      BY <3>1
    <3> HIDE DEF o, n
    <3> QED BY <3>1, <3>2, <3>3, <3>4, <3>5
  <2>5. n \notin ToSet(o)
    BY <1>1, <2>2
  <2>6. occs'[v] = IF v \in isActive' /\ \E m \in ToSet(ms) : Var(m) = v THEN Append(o, n) ELSE o
    BY <1>4
  <2> HIDE DEF o, n
  <2>7. CASE v \in isActive' /\ \E m \in ToSet(ms) : Var(m) = v
    BY <2>2, <2>3, <2>4, <2>6, <2>7 DEF o
  <2>8. CASE ~ (v \in isActive' /\ \E m \in ToSet(ms) : Var(m) = v)
    BY <2>2, <2>3, <2>5, <2>6, <2>8 DEF o
  <2> QED BY <2>7, <2>8
<1> HIDE DEF n
<1>8. StoreTypes'
  BY <1>1, <1>2, <1>5 DEF StoreTypes
<1>9. QueueOK'
  <2>1. QueueOK
    BY DEF StoreInv
  <2> QED BY <1>1, <1>2, <1>5, <2>1 DEF QueueOK
<1>10. ActiveOK'
  <2>1. occs' \in [VarSet -> Seq(Clauses')]
    <3>1. occs' = [v \in VarSet |-> occs'[v]]
      BY <1>2 DEF Occurring
    <3> QED BY <1>7, <3>1
  <2>2. \A v \in VarSet \ isActive' : occs'[v] = <<>>
    BY <1>2, <1>4 DEF StoreInv, ActiveOK
  <2> QED BY <2>1, <2>2 DEF ActiveOK
<1>11. LitsOK'
  <2>1. ASSUME NEW c \in Live', NEW m \in ToSet(cls'[c]), Var(m) \in ActVars
        PROVE  m = Not(Pos(Var(m))) /\ Var(m) \in isActive' /\ c \in ToSet(occs'[Var(m)])
    <3>1. Var(m) \in VarSet
      BY <2>1, ActVarsAssumption
    <3>2. CASE c = n
      BY <1>1, <1>3, <1>7, <2>1, <3>1, <3>2
    <3>3. CASE c \in Live
      BY <1>1, <1>2, <1>7, <2>1, <3>1, <3>3 DEF StoreInv, LitsOK
    <3> QED BY <1>1, <2>1, <3>2, <3>3
  <2> QED BY <2>1 DEF LitsOK
<1>12. OccsOK'
  <2>1. ASSUME NEW v \in isActive', NEW c \in ToSet(occs'[v]) \cap Live'
        PROVE  \E m \in ToSet(cls'[c]) : Var(m) = v
    <3>1. v \in VarSet
      BY <2>1, ActVarsAssumption
    <3>2. CASE c = n
      BY <1>1, <1>7, <2>1, <3>1, <3>2
    <3>3. CASE c # n
      <4>1. c \in Live /\ c \in ToSet(occs[v])
        BY <1>1, <1>7, <2>1, <3>1, <3>3
      <4>2. v \in isActive
        <5>1. ToSet(<<>>) = {}
          BY DEF ToSet
        <5> QED BY <3>1, <4>1, <5>1 DEF StoreInv, ActiveOK
      <4> QED BY <1>1, <4>1, <4>2 DEF StoreInv, OccsOK
    <3> QED BY <3>2, <3>3
  <2> QED BY <2>1 DEF OccsOK
<1> QED BY <1>8, <1>9, <1>10, <1>11, <1>12

LEMMA StoresAdded ==
  ASSUME StoreInv, NEW ms \in Seq(LitSet), Stores(ms)
  PROVE  LiveAdded \subseteq LiveAdded'
<1>1. Live \subseteq Live' /\ \A c \in Live : cls'[c] = cls[c]
  BY ShownAppend DEF StoreInv, StoreTypes, Stores
<1>2. added \subseteq added'
  BY DEF Stores
<1> QED BY <1>1, <1>2 DEF LiveAdded

LEMMA AddReasons ==
  ASSUME StoreInv, NEW ms \in Seq(LitSet), AddClause(ms)
  PROVE  ReasonsOK'
<1>1. Len(cls) + 1 \in Nat
  BY DEF StoreInv, StoreTypes, ClausesTyped
<1>2. CASE Len(ms) = 1
  <2>1. ms[1] \in LitSet
    BY <1>2
  <2> QED BY <1>1, <1>2, <2>1, AssignReasons DEF AddClause, StoreInv
<1>3. CASE Len(ms) # 1
  BY <1>3, SameReasons DEF AddClause, StoreInv, assignVars
<1> QED BY <1>2, <1>3

(* Without activation literals nothing occurs. *)
LEMMA PureOccurs ==
  ASSUME StoreInv, NEW ms, NEW c, \A k \in 1 .. Len(ms) : Var(ms[k]) \notin ActVars,
         DOMAIN ms = 1 .. Len(ms)
  PROVE  Occurring(ms, c, isActive) = occs
<1>1. \A v \in VarSet : ~ (v \in isActive /\ \E k \in DOMAIN ms : Var(ms[k]) = v)
  BY DEF StoreInv, ActiveOK
<1>2. Occurring(ms, c, isActive) = [v \in VarSet |-> occs[v]]
  BY <1>1 DEF Occurring
<1> QED BY <1>2 DEF StoreInv, ActiveOK

LEMMA AddInv ==
  ASSUME StoreInv, NEW ms \in AddSpace, Add(ms), UNCHANGED <<gcVars, actVars>>
  PROVE  StoreInv' /\ LiveAdded \subseteq LiveAdded'
<1>1. ms \in Seq(LitSet) /\ \A k \in 1 .. Len(ms) : Var(ms[k]) \notin ActVars
  BY AddSpaceAssumption
<1>2. /\ UNCHANGED <<learnts, rmq, isActive, occs, free, made, act>>
      /\ cls' = Append(cls, ms) /\ added' = added \cup {Len(cls) + 1}
      /\ AddClause(ms) /\ ClientAdd(ms) /\ MayStore
  BY DEF gcVars, actVars, Add, ClientAdd, AddClause, Link
<1>3. occs' = Occurring(ms, Len(cls) + 1, isActive')
  BY <1>1, <1>2, PureOccurs
<1>4. Stores(ms)
  BY <1>1, <1>2, <1>3 DEF Stores
<1>5. StoreTypes' /\ QueueOK' /\ ActiveOK' /\ LitsOK' /\ OccsOK'
  <2>1. /\ act' \in BOOLEAN /\ isActive' \subseteq made' /\ made' \subseteq ActVars
        /\ ~ act' => isActive' = {} /\ ~ act
    BY <1>2 DEF StoreInv, StoreTypes, QueueOK, ActiveOK
  <2> QED BY <1>1, <1>4, <2>1, StoresRest
<1>6. Tr!TrailInv' /\ ReasonsOK'
  BY <1>1, <1>2, AddStep, TrStep, AddReasons DEF StoreInv, StoreTypes
<1>7. FreeOK'
  BY <1>2 DEF StoreInv, FreeOK, Distinct
<1> QED BY <1>1, <1>4, <1>5, <1>6, <1>7, StoresAdded DEF StoreInv

LEMMA LearnInv ==
  ASSUME StoreInv, NEW ms \in ClauseSpace, LearnClause(ms)
  PROVE  StoreInv' /\ LiveAdded \subseteq LiveAdded'
<1>1. ms \in Seq(LitSet) /\ DOMAIN ms = 1 .. Len(ms)
  BY ClauseSpaceAssumption
<1>2. /\ UNCHANGED <<rmq, isActive, free, made, act, added, D, reasons, levels>>
      /\ cls' = Append(cls, ms) /\ learnts' = learnts \cup {Len(cls) + 1}
      /\ ClientLearn(ms) /\ MayStore /\ Implied(ms)
      /\ occs' = Occurring(ms, Len(cls) + 1, isActive')
  BY DEF LearnClause, ClientLearn, Learn, Link, assignVars
<1>3. \A k \in 1 .. Len(ms) : Var(ms[k]) \in ActVars =>
           ms[k] = Not(Pos(Var(ms[k]))) /\ Var(ms[k]) \in isActive'
  <2> TAKE k \in 1 .. Len(ms)
  <2>1. ms[k] \in ToSet(ms)
    BY <1>1 DEF ToSet
  <2>2. PICK c \in Live : ms[k] \in ToSet(cls[c])
    BY <1>2, <2>1 DEF Implied
  <2> QED BY <1>2, <2>2 DEF StoreInv, LitsOK
<1>4. Stores(ms)
  BY <1>1, <1>2, <1>3 DEF Stores
<1>5. StoreTypes' /\ QueueOK' /\ ActiveOK' /\ LitsOK' /\ OccsOK'
  <2>1. /\ act' \in BOOLEAN /\ isActive' \subseteq made' /\ made' \subseteq ActVars
        /\ ~ act' => isActive' = {} /\ ~ act
    BY <1>2 DEF StoreInv, StoreTypes, QueueOK, ActiveOK
  <2> QED BY <1>1, <1>4, <2>1, StoresRest
<1>6. Tr!TrailInv'
  BY <1>1, <1>2, LearnStep, TrStep DEF StoreInv, StoreTypes
<1>7. ReasonsOK'
  BY <1>2, SameReasons DEF StoreInv
<1>8. FreeOK'
  BY <1>2 DEF StoreInv, FreeOK, Distinct
<1> QED BY <1>1, <1>4, <1>5, <1>6, <1>7, <1>8, StoresAdded DEF StoreInv

(* The literal not m of an activation literal m. *)
LEMMA NegatedLit ==
  ASSUME NEW v \in VarSet
  PROVE  Not(Pos(v)) \in LitSet /\ Var(Not(Pos(v))) = v /\ Not(Pos(v)) # Pos(v)
BY NVarsAssumption DEF VarSet, LitSet, Var, Not, Pos

(* What Cdb.Add keeps of an activated clause is a clause for the trail. *)
LEMMA KeptClause ==
  ASSUME NEW ms \in AddSpace, NEW v \in ActVars,
         NEW kept, kept = Unassigned(Append(ms, Not(Pos(v))))
  PROVE  /\ kept \in Seq(LitSet) /\ DistinctVars(kept)
         /\ \A k \in 1 .. Len(kept) :
              /\ IsFree(kept[k])
              /\ Var(kept[k]) \in ActVars => kept[k] = Not(Pos(v)) /\ Var(kept[k]) = v
<1> DEFINE all == Append(ms, Not(Pos(v)))
<1> DEFINE n == Len(ms)
<1> DEFINE I == {k \in DOMAIN all : IsFree(all[k])}
<1>1. /\ ms \in Seq(LitSet) /\ n \in Nat
      /\ \A i, j \in 1 .. n : Var(ms[i]) = Var(ms[j]) => i = j
      /\ \A k \in 1 .. n : Var(ms[k]) \notin ActVars
  BY AddSpaceAssumption DEF DistinctVars
<1>2. Not(Pos(v)) \in LitSet /\ Var(Not(Pos(v))) = v
  BY NegatedLit, ActVarsAssumption
<1>3. /\ all \in Seq(LitSet) /\ Len(all) = n + 1 /\ all[n + 1] = Not(Pos(v))
      /\ \A k \in 1 .. n : all[k] = ms[k]
      /\ DOMAIN all = 1 .. Len(all)
  BY <1>1, <1>2
<1>4. \A k \in 1 .. Len(all) : k \in 1 .. n \/ k = n + 1
  BY <1>1, <1>3
<1>5. I \in SUBSET (1 .. Len(all)) /\ \A i \in I : IsFree(all[i])
  BY <1>3
<1>6. kept = Sub(all, I)
  BY DEF Unassigned
<1> HIDE DEF n, I, all
<1>7. /\ RanksOf(I) /\ kept \in Seq(LitSet) /\ Len(kept) = Cardinality(I)
      /\ \A i \in I : kept[Rank(I, i)] = all[i]
  BY <1>3, <1>5, <1>6, SubFacts
<1>8. ASSUME NEW k \in 1 .. Len(kept)
      PROVE  \E i \in I : Rank(I, i) = k /\ kept[k] = all[i]
  <2>1. PICK i \in I : Rank(I, i) = k
    BY <1>7 DEF RanksOf
  <2> QED BY <1>7, <2>1
<1>9. \A i, j \in 1 .. Len(all) : Var(all[i]) = Var(all[j]) => i = j
  <2> TAKE i, j \in 1 .. Len(all)
  <2> HAVE Var(all[i]) = Var(all[j])
  <2>1. CASE i \in 1 .. n /\ j \in 1 .. n
    BY <1>1, <1>3, <2>1
  <2>2. CASE i \in 1 .. n /\ j = n + 1
    BY <1>1, <1>2, <1>3, <2>2
  <2>3. CASE i = n + 1 /\ j \in 1 .. n
    BY <1>1, <1>2, <1>3, <2>3
  <2> QED BY <1>4, <2>1, <2>2, <2>3
<1>10. DistinctVars(kept)
  <2>1. ASSUME NEW k \in 1 .. Len(kept), NEW l \in 1 .. Len(kept), Var(kept[k]) = Var(kept[l])
        PROVE  k = l
    <3>1. PICK i \in I : Rank(I, i) = k /\ kept[k] = all[i]
      BY <1>8
    <3>2. PICK j \in I : Rank(I, j) = l /\ kept[l] = all[j]
      BY <1>8
    <3>3. i \in 1 .. Len(all) /\ j \in 1 .. Len(all)
      BY <1>5
    <3>4. i = j
      BY <1>9, <2>1, <3>1, <3>2, <3>3
    <3> QED BY <3>1, <3>2, <3>4
  <2> QED BY <2>1 DEF DistinctVars
<1>11. ASSUME NEW k \in 1 .. Len(kept)
       PROVE  /\ IsFree(kept[k])
              /\ Var(kept[k]) \in ActVars => kept[k] = Not(Pos(v)) /\ Var(kept[k]) = v
  <2>1. PICK i \in I : kept[k] = all[i]
    BY <1>8
  <2>2. i \in 1 .. Len(all) /\ IsFree(all[i])
    BY <1>5
  <2>3. CASE i \in 1 .. n
    BY <1>1, <1>3, <2>1, <2>2, <2>3
  <2>4. CASE i = n + 1
    BY <1>2, <1>3, <2>1, <2>2, <2>4
  <2> QED BY <1>4, <2>2, <2>3, <2>4
<1> QED BY <1>7, <1>10, <1>11

LEMMA ActivateWithInv ==
  ASSUME StoreInv, NEW v \in ActVars, NEW ms \in AddSpace,
         Activatable(ms), ActivateWith(Pos(v), ms),
         act' = TRUE, made \cup {v} \subseteq made', made' \subseteq ActVars, FreeOK'
  PROVE  StoreInv' /\ LiveAdded \subseteq LiveAdded'
<1> DEFINE kept == Unassigned(Append(ms, Not(Pos(v))))
<1>1. v \in VarSet /\ Var(Pos(v)) = v
  BY ActVarsAssumption, TrailTypes DEF StoreInv
<1>2. /\ kept \in Seq(LitSet) /\ DistinctVars(kept)
      /\ \A k \in 1 .. Len(kept) :
           /\ IsFree(kept[k])
           /\ Var(kept[k]) \in ActVars => kept[k] = Not(Pos(v)) /\ Var(kept[k]) = v
  <2>1. kept = Unassigned(Append(ms, Not(Pos(v))))
    OBVIOUS
  <2> HIDE DEF kept
  <2> QED BY <2>1, KeptClause
<1>3. /\ isActive' = isActive \cup {v} /\ UNCHANGED <<learnts, rmq>>
      /\ \/ UNCHANGED <<trailVars, occs>>
         \/ AddClause(kept) /\ occs' = Occurring(kept, Len(cls) + 1, isActive')
  BY <1>1 DEF ActivateWith, gcVars
<1> HIDE DEF kept
<1>4. isActive \subseteq made /\ made \subseteq ActVars
  BY DEF StoreInv, ActiveOK
<1>5. CASE UNCHANGED <<trailVars, occs>>
  <2>1. UNCHANGED <<added, cls, D, reasons, levels>> /\ Shown' = Shown
    BY <1>3, <1>5, ShownSame DEF trailVars
  <2>2. UNCHANGED Tr!trailVars
    BY <1>5, <2>1 DEF trailVars, Tr!trailVars
  <2>3. Tr!TrailInv' /\ ReasonsOK'
    BY <2>1, <2>2, TrStep, SameReasons DEF StoreInv
  <2>4. Clauses' = Clauses /\ Live' = Live /\ Gone' = Gone /\ LiveAdded' = LiveAdded
    BY <1>3, <2>1 DEF Clauses, Live, Gone, LiveAdded
  <2>5. StoreTypes' /\ QueueOK'
    BY <1>3, <2>1, <2>4 DEF StoreInv, StoreTypes, ClausesTyped, QueueOK
  <2>6. ActiveOK'
    BY <1>3, <1>4, <1>5, <2>4 DEF StoreInv, ActiveOK
  <2>7. LitsOK'
    BY <1>3, <1>5, <2>1, <2>4 DEF StoreInv, LitsOK
  <2>8. OccsOK'
    <3>1. v \notin isActive => occs[v] = <<>> /\ ToSet(occs[v]) = {}
      BY <1>1 DEF StoreInv, ActiveOK, ToSet
    <3> QED BY <1>3, <1>5, <2>1, <2>4, <3>1 DEF StoreInv, OccsOK
  <2> QED BY <2>3, <2>4, <2>5, <2>6, <2>7, <2>8 DEF StoreInv
<1>6. CASE AddClause(kept) /\ occs' = Occurring(kept, Len(cls) + 1, isActive')
  <2>1. cls' = Append(cls, kept) /\ added' = added \cup {Len(cls) + 1}
    BY <1>6 DEF AddClause, Link
  <2>2. Stores(kept)
    BY <1>2, <1>3, <1>6, <2>1 DEF Stores
  <2>3. StoreTypes' /\ QueueOK' /\ ActiveOK' /\ LitsOK' /\ OccsOK'
    <3>1. isActive' \subseteq made' /\ (~ act' => isActive' = {} /\ ~ act) /\ act' \in BOOLEAN
      BY <1>3, <1>4
    <3> QED BY <1>2, <2>2, <3>1, StoresRest
  <2>4. ClientAdd(kept) /\ MayStore
    BY <1>2, <1>6 DEF ClientAdd, Activatable, AtLevel0
  <2>5. Tr!TrailInv' /\ ReasonsOK'
    BY <1>2, <1>3, <1>6, <2>4, AddStep, TrStep, AddReasons DEF StoreInv, StoreTypes
  <2> QED BY <1>2, <2>2, <2>3, <2>5, StoresAdded DEF StoreInv
<1> QED BY <1>3, <1>5, <1>6

LEMMA ActivateInv ==
  ASSUME StoreInv, NEW ms \in AddSpace, Activate(ms)
  PROVE  StoreInv' /\ LiveAdded \subseteq LiveAdded' /\ isActive \subseteq isActive'
<1>1. PICK m \in LitSet :
        /\ NextLit(m) /\ made' = made \cup {Var(m)}
        /\ free' = IF free = <<>> THEN free ELSE Front(free)
        /\ ActivateWith(m, ms)
  BY DEF Activate
<1>2. Activatable(ms) /\ act' = TRUE /\ FreeOK /\ ActiveOK
  BY DEF Activate, StoreInv
<1> DEFINE v == Var(m)
<1>3. /\ m = Pos(v) /\ v \in ActVars
      /\ \A i \in 1 .. Len(free') : free'[i] = Pos(Var(free'[i])) /\ Var(free'[i]) \in made \ isActive
                                    /\ Var(free'[i]) # v
      /\ free' \in Seq(LitSet) /\ Distinct(free')
  <2>1. CASE free # <<>>
    <3> DEFINE n == Len(free)
    <3>1. free \in Seq(LitSet) /\ n \in Nat /\ n >= 1 /\ n \in 1 .. n
      BY <1>2, <2>1 DEF FreeOK
    <3>2. m = free[n] /\ free' = SubSeq(free, 1, n - 1)
      BY <1>1, <2>1 DEF NextLit, Last, Front
    <3>3. n - 1 \in 0 .. n
      BY <3>1
    <3>4. \A k \in 0 .. Len(free) :
            /\ SubSeq(free, 1, k) \in Seq(LitSet) /\ Len(SubSeq(free, 1, k)) = k
            /\ \A i \in 1 .. k : SubSeq(free, 1, k)[i] = free[i]
      BY <3>1
    <3>5. /\ free' \in Seq(LitSet) /\ Len(free') = n - 1
          /\ \A i \in 1 .. (n - 1) : free'[i] = free[i] /\ i \in 1 .. n /\ i # n
      <4>1. free' \in Seq(LitSet) /\ Len(free') = n - 1 /\ \A i \in 1 .. (n - 1) : free'[i] = free[i]
        BY <3>2, <3>3, <3>4
      <4> QED BY <3>1, <4>1
    <3>6. /\ \A i, j \in 1 .. n : free[i] = free[j] => i = j
          /\ \A i \in 1 .. n : free[i] = Pos(Var(free[i])) /\ Var(free[i]) \in made \ isActive
      BY <1>2 DEF FreeOK, Distinct
    <3> HIDE DEF n
    <3>7. m = Pos(v) /\ v \in ActVars
      BY <1>2, <3>1, <3>2, <3>6 DEF ActiveOK
    <3>8. ASSUME NEW i \in 1 .. (n - 1)
          PROVE  /\ free'[i] = Pos(Var(free'[i])) /\ Var(free'[i]) \in made \ isActive
                 /\ Var(free'[i]) # v
      <4>1. free'[i] = free[i] /\ i \in 1 .. n /\ i # n
        BY <3>5, <3>8
      <4>2. free[i] # free[n]
        BY <3>1, <3>6, <4>1
      <4> QED BY <3>1, <3>2, <3>6, <4>1, <4>2
    <3>9. Distinct(free')
      BY <3>5, <3>6 DEF Distinct
    <3> QED BY <3>5, <3>7, <3>8, <3>9
  <2>2. CASE free = <<>>
    <3>1. free' = <<>> /\ <<>> \in Seq(LitSet) /\ Len(free') = 0
      BY <1>1, <2>2
    <3>2. PICK u \in ActVars \ made : m = Pos(u)
      BY <1>1, <2>2 DEF NextLit
    <3>3. m = Pos(v) /\ v \in ActVars
      BY <3>2, ActVarsAssumption, TrailTypes DEF StoreInv
    <3> QED BY <3>1, <3>3 DEF Distinct
  <2> QED BY <2>1, <2>2
<1>4. isActive' = isActive \cup {v}
  BY <1>1 DEF ActivateWith
<1>5. made' = made \cup {v} /\ made' \subseteq ActVars
  BY <1>1, <1>2, <1>3 DEF ActiveOK
<1>6. ActivateWith(Pos(v), ms)
  BY <1>1, <1>3
<1> HIDE DEF v
<1>7. FreeOK'
  BY <1>3, <1>4, <1>5 DEF FreeOK, Distinct
<1> QED BY <1>2, <1>3, <1>4, <1>5, <1>6, <1>7, ActivateWithInv

LEMMA ActivateMoreInv ==
  ASSUME StoreInv, NEW ms \in AddSpace, NEW v \in isActive, ActivateMore(Pos(v), ms)
  PROVE  StoreInv' /\ LiveAdded \subseteq LiveAdded' /\ isActive \subseteq isActive'
<1>1. v \in ActVars /\ v \in made /\ made \subseteq ActVars /\ act = TRUE
  BY DEF StoreInv, ActiveOK, QueueOK, StoreTypes
<1>2. /\ Activatable(ms) /\ ActivateWith(Pos(v), ms)
      /\ UNCHANGED <<free, made, act>>
  BY DEF ActivateMore
<1>3. isActive' = isActive \cup {v}
  BY <1>1, <1>2, ActVarsAssumption, TrailTypes DEF ActivateWith, StoreInv
<1>4. FreeOK'
  <2>1. isActive' = isActive
    BY <1>3
  <2> QED BY <1>2, <2>1 DEF StoreInv, FreeOK, Distinct
<1> QED BY <1>1, <1>2, <1>3, <1>4, ActivateWithInv

-----------------------------------------------------------------------------
(***************************************************************************)
(* The clauses are moved: CompactCDat.                                     *)
(***************************************************************************)
LEMMA SetSeq ==
  ASSUME NEW n \in Nat, NEW S \in SUBSET (1 .. n)
  PROVE  SetToSeq(S) \in Seq(S) /\ ToSet(SetToSeq(S)) = S /\ Distinct(SetToSeq(S))
<1> DEFINE N == Cardinality(S)
<1> DEFINE s == SetToSeq(S)
<1>1. IsFiniteSet(1 .. n)
  BY FS_Interval
<1>2. IsFiniteSet(S)
  BY <1>1, FS_Subset
<1>3. N \in Nat /\ Bijection(1 .. N, S) # {}
  BY <1>2, FS_CardinalityType DEF ExistsBijection
<1>4. PICK b \in [1 .. N -> S] : IsInjective(b)
  BY <1>3 DEF Bijection, Injection, IsInjective
<1>5. s \in [1 .. N -> S] /\ IsInjective(s)
  BY <1>4 DEF SetToSeq
<1>6. IsFiniteSet(1 .. N) /\ Cardinality(1 .. N) = N
  BY <1>3, FS_Interval
<1> HIDE DEF s, N
<1>7. s \in Surjection(1 .. N, S)
  <2>1. s \in Injection(1 .. N, S)
    BY <1>5 DEF Injection, IsInjective
  <2> QED BY <1>2, <1>6, <2>1, FS_Injection DEF N
<1>8. s \in Seq(S) /\ Len(s) = N /\ DOMAIN s = 1 .. N
  BY <1>3, <1>5
<1>9. ToSet(s) = S
  BY <1>5, <1>7, <1>8 DEF Surjection, ToSet
<1>10. Distinct(s)
  BY <1>5, <1>8 DEF Distinct, IsInjective
<1> QED BY <1>8, <1>9, <1>10 DEF s

LEMMA ConcatSet ==
  ASSUME NEW S, NEW s \in Seq(S), NEW t \in Seq(S)
  PROVE  s \o t \in Seq(S) /\ ToSet(s \o t) = ToSet(s) \cup ToSet(t)
<1> DEFINE u == s \o t
<1>1. /\ u \in Seq(S) /\ Len(u) = Len(s) + Len(t)
      /\ \A i \in 1 .. Len(s) + Len(t) : u[i] = IF i <= Len(s) THEN s[i] ELSE t[i - Len(s)]
  BY ConcatProperties
<1>2. /\ Len(s) \in Nat /\ Len(t) \in Nat /\ DOMAIN s = 1 .. Len(s) /\ DOMAIN t = 1 .. Len(t)
      /\ DOMAIN u = 1 .. (Len(s) + Len(t))
  BY <1>1
<1> HIDE DEF u
<1>3. \A x : x \in ToSet(u) <=> \E i \in 1 .. (Len(s) + Len(t)) : u[i] = x
  BY <1>2 DEF ToSet
<1>4. \A x : x \in ToSet(s) <=> \E i \in 1 .. Len(s) : s[i] = x
  BY <1>2 DEF ToSet
<1>5. \A x : x \in ToSet(t) <=> \E i \in 1 .. Len(t) : t[i] = x
  BY <1>2 DEF ToSet
<1>6. \A i \in 1 .. (Len(s) + Len(t)) : u[i] \in ToSet(s) \cup ToSet(t)
  <2> TAKE i \in 1 .. (Len(s) + Len(t))
  <2>1. CASE i <= Len(s)
    <3>1. i \in 1 .. Len(s)
      BY <1>2, <2>1
    <3> QED BY <1>1, <1>4, <2>1, <3>1
  <2>2. CASE ~ (i <= Len(s))
    <3>1. i - Len(s) \in 1 .. Len(t)
      BY <1>2, <2>2
    <3> QED BY <1>1, <1>5, <2>2, <3>1
  <2> QED BY <2>1, <2>2
<1>7. \A i \in 1 .. Len(s) : s[i] \in ToSet(u)
  <2> TAKE i \in 1 .. Len(s)
  <2>1. i \in 1 .. (Len(s) + Len(t)) /\ i <= Len(s)
    BY <1>2
  <2> QED BY <1>1, <1>3, <2>1
<1>8. \A i \in 1 .. Len(t) : t[i] \in ToSet(u)
  <2> TAKE i \in 1 .. Len(t)
  <2>1. i + Len(s) \in 1 .. (Len(s) + Len(t)) /\ ~ (i + Len(s) <= Len(s)) /\ i + Len(s) - Len(s) = i
    BY <1>2
  <2>2. u[i + Len(s)] = t[i]
    BY <1>1, <2>1
  <2> QED BY <1>3, <2>1, <2>2
<1> QED BY <1>1, <1>3, <1>4, <1>5, <1>6, <1>7, <1>8 DEF u

(* Without duplicates, or with the queue made unique, all of it is freed.  *)
LEMMA FreedAll ==
  ASSUME NEW S, NEW q \in Seq(S), ~ act => Distinct(q)
  PROVE  Freed(q) = ToSet(q)
<1>1. DOMAIN q = 1 .. Len(q)
  OBVIOUS
<1>2. ASSUME Distinct(q), NEW d \in ToSet(q)
      PROVE  \E k \in DOMAIN q : \A i \in DOMAIN q : q[i] = d <=> i = k
  <2>1. PICK k \in DOMAIN q : q[k] = d
    BY <1>2 DEF ToSet
  <2> QED BY <1>1, <1>2, <2>1 DEF Distinct
<1>3. Distinct(q) => Met(q) = ToSet(q)
  BY <1>2 DEF Met
<1> QED BY <1>3 DEF Freed

LEMMA RankNat ==
  ASSUME NEW n \in Nat, NEW I \in SUBSET (1 .. n), NEW i
  PROVE  Rank(I, i) \in Nat
<1> DEFINE A == {j \in I : j <= i}
<1>1. IsFiniteSet(1 .. n) /\ A \in SUBSET (1 .. n)
  <2>1. IsFiniteSet(1 .. n)
    BY FS_Interval
  <2>2. A \in SUBSET (1 .. n)
    OBVIOUS
  <2> QED BY <2>1, <2>2
<1> HIDE DEF A
<1>2. IsFiniteSet(A)
  BY <1>1, FS_Subset
<1>3. Cardinality(A) \in Nat
  BY <1>2, FS_CardinalityType
<1> QED BY <1>3 DEF Rank, A

(* Slices without removed clauses keep their places. *)
LEMMA SliceAll ==
  ASSUME NEW s \in Seq(Nat), NEW R, \A i \in 1 .. Len(s) : s[i] \notin R
  PROVE  RelocateSlice(s, R)
           = [i \in 1 .. Len(s) |-> IF s[i] = CNull THEN CNull ELSE Moved(s[i], R)]
<1>1. {i \in DOMAIN s : s[i] \notin R} = 1 .. Len(s) /\ DOMAIN s = 1 .. Len(s)
  OBVIOUS
<1>2. Sub(s, {i \in DOMAIN s : s[i] \notin R}) = s
  BY <1>1, SubAll
<1> QED BY <1>1, <1>2 DEF RelocateSlice

(* A slice of clauses keeps those which are not removed. *)
LEMMA SliceKept ==
  ASSUME ClausesTyped, NEW R, NEW s \in Seq(Clauses)
  PROVE  LET K == Clauses \ R
             t == RelocateSlice(s, R)
         IN  /\ t \in Seq(1 .. Cardinality(K))
             /\ s = <<>> => t = <<>>
             /\ \A c \in K : Rank(K, c) \in ToSet(t) <=> c \in ToSet(s)
<1> DEFINE K == Clauses \ R
<1> DEFINE t == RelocateSlice(s, R)
<1> DEFINE I == {i \in DOMAIN s : s[i] \notin R}
<1> DEFINE u == Sub(s, I)
<1>1. /\ I \in SUBSET (1 .. Len(s)) /\ \A i \in I : s[i] \in K
      /\ \A i \in 1 .. Len(s) : s[i] \in K => i \in I
      /\ DOMAIN s = 1 .. Len(s) /\ Len(s) \in Nat
  OBVIOUS
<1>2. Len(cls) \in Nat /\ K \in SUBSET (1 .. Len(cls)) /\ Clauses = 1 .. Len(cls)
  BY DEF ClausesTyped, Clauses
<1>3. RanksOf(K)
  BY <1>2, RankFacts
<1>4. t = [i \in DOMAIN u |-> IF u[i] = CNull THEN CNull ELSE Rank(K, u[i])]
  BY DEF RelocateSlice, Moved
<1> HIDE DEF I
<1>5. /\ RanksOf(I) /\ u \in Seq(Clauses) /\ Len(u) = Cardinality(I)
      /\ \A i \in I : u[Rank(I, i)] = s[i]
  BY <1>1, SubFacts
<1> HIDE DEF u, K, t
<1>6. ASSUME NEW k \in 1 .. Len(u)
      PROVE  \E i \in I : Rank(I, i) = k /\ u[k] = s[i]
  <2>1. PICK i \in I : Rank(I, i) = k
    BY <1>5 DEF RanksOf
  <2> QED BY <1>5, <2>1
<1>7. \A k \in 1 .. Len(u) : u[k] \in K /\ u[k] # CNull
  <2> TAKE k \in 1 .. Len(u)
  <2>1. u[k] \in K
    BY <1>1, <1>6
  <2> QED BY <1>2, <2>1 DEF CNull
<1>8. /\ t = [k \in 1 .. Len(u) |-> Rank(K, u[k])]
      /\ \A k \in 1 .. Len(u) : t[k] = Rank(K, u[k]) /\ t[k] \in 1 .. Cardinality(K)
  <2>1. DOMAIN u = 1 .. Len(u)
    BY <1>5
  <2>2. t = [k \in 1 .. Len(u) |-> Rank(K, u[k])]
    BY <1>4, <1>7, <2>1
  <2> QED BY <1>3, <1>7, <2>2 DEF RanksOf
<1>9. t \in Seq(1 .. Cardinality(K)) /\ Len(t) = Len(u) /\ DOMAIN t = 1 .. Len(u)
  <2>1. Len(u) \in Nat
    BY <1>5
  <2> QED BY <1>8, <2>1
<1>10. s = <<>> => t = <<>>
  <2> HAVE s = <<>>
  <2>1. Len(u) \in Nat
    BY <1>5
  <2>2. ~ \E k \in 1 .. Len(u) : TRUE
    <3>1. I = {}
      BY <1>1
    <3> QED BY <1>6, <3>1
  <2>3. Len(u) = 0
    BY <2>1, <2>2
  <2> QED BY <1>9, <2>3
<1>11. ASSUME NEW c \in K
       PROVE  Rank(K, c) \in ToSet(t) <=> c \in ToSet(s)
  <2>1. ASSUME Rank(K, c) \in ToSet(t)
        PROVE  c \in ToSet(s)
    <3>1. PICK k \in 1 .. Len(u) : t[k] = Rank(K, c)
      BY <1>9, <2>1 DEF ToSet
    <3>2. u[k] = c
      BY <1>3, <1>7, <1>8, <3>1 DEF RanksOf
    <3>3. PICK i \in I : u[k] = s[i]
      BY <1>6
    <3> QED BY <1>1, <3>2, <3>3 DEF ToSet
  <2>2. ASSUME c \in ToSet(s)
        PROVE  Rank(K, c) \in ToSet(t)
    <3>1. PICK i \in 1 .. Len(s) : s[i] = c
      BY <1>1, <2>2 DEF ToSet
    <3>2. i \in I
      BY <1>1, <3>1
    <3>3. Rank(I, i) \in 1 .. Len(u) /\ u[Rank(I, i)] = c
      BY <1>5, <3>1, <3>2 DEF RanksOf
    <3>4. t[Rank(I, i)] = Rank(K, c) /\ Rank(I, i) \in DOMAIN t
      BY <1>8, <1>9, <3>3
    <3> QED BY <3>4 DEF ToSet
  <2> QED BY <2>1, <2>2
<1> QED BY <1>9, <1>10, <1>11 DEF K, t

LEMMA MovedClauses ==
  ASSUME ClausesTyped, NEW R, cls' = Sub(cls, Clauses \ R), rmq' = <<>>
  PROVE  LET K == Clauses \ R
         IN  /\ ClausesTyped' /\ Gone' = {} /\ Live' = Clauses' /\ Shown' = cls'
             /\ Clauses' = 1 .. Cardinality(K)
             /\ \A c \in K : Moved(c, R) \in Clauses' /\ cls'[Moved(c, R)] = cls[c]
             /\ \A c, d \in K : Moved(c, R) = Moved(d, R) => c = d
             /\ \A d \in Clauses' : \E c \in K : d = Moved(c, R)
<1> DEFINE K == Clauses \ R
<1>1. K \in SUBSET (1 .. Len(cls)) /\ cls \in Seq(Seq(LitSet))
  BY DEF ClausesTyped, Clauses
<1>2. \A c : Moved(c, R) = Rank(K, c)
  BY DEF Moved
<1>3. cls' = Sub(cls, K)
  OBVIOUS
<1> HIDE DEF K
<1>4. /\ RanksOf(K) /\ cls' \in Seq(Seq(LitSet)) /\ Len(cls') = Cardinality(K)
      /\ \A c \in K : cls'[Rank(K, c)] = cls[c]
  BY <1>1, <1>3, SubFacts
<1>5. Clauses' = 1 .. Cardinality(K)
  BY <1>4 DEF Clauses
<1>6. Gone' = {} /\ rmq' \in Seq(Clauses')
  <2>1. ToSet(<<>>) = {} /\ <<>> \in Seq(Clauses')
    BY DEF ToSet
  <2> QED BY <2>1 DEF Gone
<1>7. Live' = Clauses'
  BY <1>6 DEF Live, Gone
<1>8. Shown' = cls'
  <2>1. Shown' = [c \in 1 .. Len(cls') |-> cls'[c]]
    BY <1>6 DEF Shown, Clauses
  <2>2. \A s \in Seq(Seq(LitSet)) : s = [c \in 1 .. Len(s) |-> s[c]]
    OBVIOUS
  <2> QED BY <1>4, <2>1, <2>2
<1>9. \A c \in K : Rank(K, c) \in Clauses' /\ cls'[Rank(K, c)] = cls[c]
  BY <1>4, <1>5 DEF RanksOf
<1>10. \A c, d \in K : Rank(K, c) = Rank(K, d) => c = d
  BY <1>4 DEF RanksOf
<1>11. ASSUME NEW d \in Clauses'
       PROVE  \E c \in K : d = Rank(K, c)
  BY <1>4, <1>5 DEF RanksOf
<1>12. ClausesTyped'
  BY <1>4, <1>6 DEF ClausesTyped
<1>13. /\ \A c \in K : Moved(c, R) \in Clauses' /\ cls'[Moved(c, R)] = cls[c]
       /\ \A c, d \in K : Moved(c, R) = Moved(d, R) => c = d
       /\ \A d \in Clauses' : \E c \in K : d = Moved(c, R)
  <2>1. \A c \in K : Moved(c, R) \in Clauses' /\ cls'[Moved(c, R)] = cls[c]
    BY <1>2, <1>9, Zenon
  <2>2. \A c, d \in K : Moved(c, R) = Moved(d, R) => c = d
    BY <1>2, <1>10, Zenon
  <2>3. \A d \in Clauses' : \E c \in K : d = Moved(c, R)
    BY <1>2, <1>11, Zenon
  <2> QED BY <2>1, <2>2, <2>3
<1> QED BY <1>5, <1>6, <1>7, <1>8, <1>12, <1>13 DEF K

LEMMA MovedReasons ==
  ASSUME Tr!TrailInv, NEW R \in SUBSET Clauses,
         \A v \in VarIndex : reasons[v] # CNull => reasons[v] \notin R,
         reasons' = RelocateReasons(R)
  PROVE  reasons' = [v \in VarIndex |-> IF reasons[v] = CNull THEN CNull ELSE Moved(reasons[v], R)]
<1> DEFINE s == [i \in 1 .. (NVars + 1) |-> reasons[i - 1]]
<1>1. NVars \in Nat /\ VarIndex = 0 .. NVars /\ reasons \in [VarIndex -> Nat]
  BY NVarsAssumption, TrailTypes DEF VarIndex
<1>2. \A i \in 1 .. (NVars + 1) : i - 1 \in VarIndex
  BY <1>1
<1>3. s \in Seq(Nat) /\ Len(s) = NVars + 1 /\ \A v \in VarIndex : v + 1 \in 1 .. (NVars + 1) /\ s[v + 1] = reasons[v]
  BY <1>1, <1>2
<1>4. CNull \notin R
  BY DEF Clauses, CNull
<1>5. \A i \in 1 .. (NVars + 1) : s[i] = reasons[i - 1] /\ s[i] \notin R
  BY <1>2, <1>4
<1>6. reasons' = LET t == RelocateSlice(s, R)
                 IN  [v \in VarIndex |-> IF v < Len(t) THEN t[v + 1] ELSE CNull]
  BY DEF RelocateReasons
<1> HIDE DEF s
<1>7. RelocateSlice(s, R) =
        [i \in 1 .. (NVars + 1) |-> IF s[i] = CNull THEN CNull ELSE Moved(s[i], R)]
  <2>1. \A i \in 1 .. Len(s) : s[i] \notin R
    BY <1>3, <1>5
  <2> QED BY <1>3, <2>1, SliceAll
<1> DEFINE t == [i \in 1 .. (NVars + 1) |-> IF s[i] = CNull THEN CNull ELSE Moved(s[i], R)]
<1>8. Len(t) = NVars + 1
  <2>1. t \in Seq({t[i] : i \in 1 .. (NVars + 1)}) /\ DOMAIN t = 1 .. (NVars + 1)
    BY <1>1
  <2> QED BY <1>1, <2>1
<1>9. \A v \in VarIndex : v < Len(t) /\ t[v + 1] = IF reasons[v] = CNull THEN CNull ELSE Moved(reasons[v], R)
  <2> TAKE v \in VarIndex
  <2>1. v < NVars + 1 /\ v + 1 \in 1 .. (NVars + 1) /\ s[v + 1] = reasons[v]
    BY <1>1, <1>3
  <2> QED BY <1>8, <2>1
<1>10. t = RelocateSlice(s, R)
  BY <1>7
<1> HIDE DEF t
<1> QED BY <1>6, <1>9, <1>10

LEMMA MovedWatches ==
  ASSUME Tr!TrailInv, ClausesTyped, NEW R, Gone \subseteq R,
         watches' = RelocateWatches(R),
         NEW f, f = [c \in Clauses \ R |-> Moved(c, R)]
  PROVE  /\ watches' \in [LitIndex -> Seq(Tr!Watch)]
         /\ \A m \in LitSet : ListRenamed(m, f, Clauses \ R)
<1> DEFINE K == Clauses \ R
<1>1. K \in SUBSET (1 .. Len(cls)) /\ Len(cls) \in Nat /\ K \subseteq Clauses
  BY DEF ClausesTyped, Clauses
<1>2. \A c : Moved(c, R) \in Nat
  <2>1. \A c : Rank(K, c) \in Nat
    BY <1>1, RankNat
  <2> QED BY <2>1 DEF Moved
<1>3. watches \in [LitIndex -> Seq(Tr!Watch)] /\ LitSet \subseteq LitIndex
  BY TrailTypes DEF LitSet, LitIndex
<1>4. ASSUME NEW m \in LitIndex
      PROVE  LET I == {i \in 1 .. Len(watches[m]) : watches[m][i].c \notin R}
             IN  /\ RanksOf(I) /\ watches'[m] \in Seq(Tr!Watch) /\ Len(watches'[m]) = Cardinality(I)
                 /\ \A j \in I : watches'[m][Rank(I, j)] =
                      [c |-> Moved(watches[m][j].c, R), o |-> watches[m][j].o,
                      bin |-> watches[m][j].bin]
  <2> DEFINE w == watches[m]
  <2> DEFINE I == {i \in 1 .. Len(w) : w[i].c \notin R}
  <2> DEFINE u == Sub(w, I)
  <2>1. w \in Seq(Tr!Watch) /\ DOMAIN w = 1 .. Len(w) /\ I \in SUBSET (1 .. Len(w))
    BY <1>3
  <2>2. Without(m, R) = u
    BY <2>1 DEF Without
  <2>3. watches'[m] = [i \in DOMAIN u |-> [u[i] EXCEPT !.c = Moved(@, R)]]
    BY <2>2 DEF RelocateWatches
  <2> HIDE DEF I, w
  <2>4. /\ RanksOf(I) /\ u \in Seq(Tr!Watch) /\ Len(u) = Cardinality(I)
        /\ \A i \in I : u[Rank(I, i)] = w[i]
    BY <2>1, SubFacts
  <2>5. \A x \in Tr!Watch :
          /\ [x EXCEPT !.c = Moved(@, R)] = [c |-> Moved(x.c, R), o |-> x.o, bin |-> x.bin]
          /\ [x EXCEPT !.c = Moved(@, R)] \in Tr!Watch
    BY <1>2 DEF Tr!Watch
  <2> HIDE DEF u
  <2>6. /\ Len(u) \in Nat /\ DOMAIN u = 1 .. Len(u) /\ \A i \in 1 .. Len(u) : u[i] \in Tr!Watch
    BY <2>4
  <2>7. watches'[m] \in Seq(Tr!Watch) /\ Len(watches'[m]) = Len(u)
    <3> DEFINE g == [i \in 1 .. Len(u) |-> [u[i] EXCEPT !.c = Moved(@, R)]]
    <3>1. watches'[m] = g
      BY <2>3, <2>6
    <3>2. \A i \in 1 .. Len(u) : g[i] \in Tr!Watch
      BY <2>5, <2>6
    <3>3. DOMAIN g = 1 .. Len(u) /\ g = [i \in 1 .. Len(u) |-> g[i]]
      OBVIOUS
    <3> HIDE DEF g
    <3>4. g \in Seq(Tr!Watch) /\ Len(g) = Len(u)
      BY <2>6, <3>2, <3>3
    <3> QED BY <3>1, <3>4
  <2>8. \A i \in 1 .. Len(u) : watches'[m][i] = [c |-> Moved(u[i].c, R), o |-> u[i].o, bin |-> u[i].bin]
    BY <2>3, <2>5, <2>6
  <2>9. \A j \in I : watches'[m][Rank(I, j)] = [c |-> Moved(w[j].c, R), o |-> w[j].o, bin |-> w[j].bin]
    BY <2>4, <2>8 DEF RanksOf
  <2> QED BY <2>4, <2>7, <2>9 DEF I, w
<1>5. watches' \in [LitIndex -> Seq(Tr!Watch)]
  <2>1. watches' = [m \in LitIndex |-> watches'[m]]
    BY DEF RelocateWatches
  <2> QED BY <1>4, <2>1
<1>6. ASSUME NEW m \in LitSet
      PROVE  ListRenamed(m, f, K)
  <2> DEFINE I == {i \in 1 .. Len(watches[m]) : watches[m][i].c \notin R}
  <2>1. Places(m, K) = I
    BY WatchLive, ShownFacts DEF Places
  <2>2. \A j \in I : f[watches[m][j].c] = Moved(watches[m][j].c, R)
    BY <2>1 DEF Places
  <2>3. m \in LitIndex
    BY <1>3
  <2>4. /\ RanksOf(I) /\ Len(watches'[m]) = Cardinality(I)
        /\ \A j \in I : watches'[m][Rank(I, j)] =
                 [c |-> Moved(watches[m][j].c, R), o |-> watches[m][j].o, bin |-> watches[m][j].bin]
    BY <1>4, <2>3
  <2> HIDE DEF I, K
  <2> QED BY <2>1, <2>2, <2>4 DEF ListRenamed
<1> QED BY <1>5, <1>6

-----------------------------------------------------------------------------
(***************************************************************************)
(* What a collection does to the rest of the state.                        *)
(***************************************************************************)

(* A reason is a live clause with its variable first, and all of its       *)
(* literals have values.                                                   *)
LEMMA ReasonFacts ==
  ASSUME StoreInv, NEW v \in VarIndex, reasons[v] # CNull
  PROVE  /\ reasons[v] \in Live /\ cls[reasons[v]] # <<>> /\ Var(cls[reasons[v]][1]) = v
         /\ \A m \in ToSet(cls[reasons[v]]) : ~ IsFree(m)
<1> DEFINE c == reasons[v]
<1>1. Tr!TrailInv /\ ClausesTyped /\ ReasonsOK
  BY DEF StoreInv, StoreTypes
<1>2. PICK i \in 1 .. Len(D) : Var(D[i]) = v
  BY <1>1 DEF ReasonsOK
<1>3. /\ c \in Tr!Clauses /\ Shown[c] # <<>> /\ Shown[c][1] = D[i]
      /\ \A k \in 2 .. Len(Shown[c]) : \E j \in 1 .. (i - 1) : D[j] = Not(Shown[c][k])
  BY <1>1, <1>2, TrFacts, SameOps DEF Tr!ReasonFirst
<1> HIDE DEF c
<1>4. c \in Live /\ Shown[c] = cls[c] /\ c \in Clauses
  BY <1>1, <1>3, ShownFacts
<1>5. cls[c] \in Seq(LitSet) /\ DOMAIN cls[c] = 1 .. Len(cls[c]) /\ D \in Seq(LitSet) /\ Len(D) \in Nat
  <2>1. cls[c] \in Seq(LitSet)
    BY <1>1, <1>4 DEF ClausesTyped, Clauses
  <2> QED BY <1>1, <2>1, TrailTypes
<1>6. /\ \A m \in LitSet : (\E j \in 1 .. Len(D) : D[j] = m) => vals[m] = 1
      /\ \A m \in LitSet : vals[Not(m)] = 1 => vals[m] = -1
  BY <1>1, TrFacts, SameOps DEF Tr!TrailConsistent, Tr!IsTrue, Tr!IsFalse
<1>7. ASSUME NEW m \in ToSet(cls[c])
      PROVE  ~ IsFree(m)
  <2>1. PICK k \in 1 .. Len(cls[c]) : cls[c][k] = m
    BY <1>5 DEF ToSet
  <2>2. m \in LitSet
    BY <1>5, <2>1
  <2>3. CASE k = 1
    BY <1>2, <1>3, <1>4, <1>6, <2>1, <2>2, <2>3 DEF IsFree
  <2>4. CASE k # 1
    <3>1. k \in 2 .. Len(Shown[c])
      BY <1>4, <1>5, <2>4
    <3>2. PICK j \in 1 .. (i - 1) : D[j] = Not(m)
      BY <1>3, <1>4, <2>1, <3>1
    <3>3. j \in 1 .. Len(D)
      BY <1>2, <1>5
    <3>4. Not(m) \in LitSet
      BY <1>5, <3>2, <3>3
    <3>5. vals[Not(m)] = 1
      BY <1>6, <3>2, <3>3, <3>4
    <3> QED BY <1>6, <2>2, <3>5 DEF IsFree
  <2> QED BY <2>3, <2>4
<1> QED BY <1>2, <1>3, <1>4, <1>7 DEF c

(* The clauses K are kept, clause c as f[c], and L and O become the        *)
(* learned clauses and the occurrences.                                    *)
Collects(f, K, L, O) ==
  /\ Renames(f, K)
  /\ \A c \in K : cls'[f[c]] = cls[c]
  /\ Live' = {f[c] : c \in K}
  /\ learnts' \subseteq Clauses' /\ \A c \in K : f[c] \in learnts' <=> c \in L
  /\ added' \cap learnts' = {}
  /\ occs' \in [VarSet -> Seq(Clauses')]
  /\ \A v \in VarSet : /\ O[v] = <<>> => occs'[v] = <<>>
                       /\ \A c \in K : f[c] \in ToSet(occs'[v]) <=> c \in ToSet(O[v])
  /\ ~ act => Distinct(rmq') /\ learnts' \cap Gone' = {}

(* What is removed, the learned clauses and the occurrences that are left. *)
Collecting(R, L, O) ==
  /\ mode = "idle" /\ px = CNull
  /\ Gone \subseteq R /\ R \subseteq Clauses
  /\ \A v \in VarIndex : reasons[v] # CNull => reasons[v] \notin R
  /\ L \subseteq learnts
  /\ O \in [VarSet -> Seq(Clauses)]
  /\ ~ act => L \cap R = {} /\ \A v \in VarSet : O[v] = <<>>

LEMMA CompactCollects ==
  ASSUME StoreInv, NEW q \in Seq(Clauses), NEW L, NEW O, Collecting(ToSet(q), L, O),
         ~ act => Distinct(q), CompactCDat(q, L, O)
  PROVE  Collects([c \in Clauses \ ToSet(q) |-> Moved(c, ToSet(q))], Clauses \ ToSet(q), L, O)
<1> DEFINE R == ToSet(q)
<1> DEFINE K == Clauses \ R
<1> DEFINE f == [c \in K |-> Moved(c, R)]
<1>1. Tr!TrailInv /\ ClausesTyped /\ learnts \subseteq Clauses /\ added \cap learnts = {} /\ added \subseteq Clauses
  BY TrailTypes, ShownFacts DEF StoreInv, StoreTypes, QueueOK
<1>2. /\ mode = "idle" /\ px = CNull /\ Gone \subseteq R /\ R \subseteq Clauses
      /\ \A v \in VarIndex : reasons[v] # CNull => reasons[v] \notin R
      /\ L \subseteq learnts /\ O \in [VarSet -> Seq(Clauses)]
      /\ ~ act => L \cap R = {} /\ \A v \in VarSet : O[v] = <<>>
  BY DEF Collecting
<1>3. Freed(q) = R
  BY FreedAll
<1> HIDE DEF R
<1>4. /\ cls' = Sub(cls, Clauses \ R) /\ rmq' = <<>>
      /\ learnts' = Relocate(L, R) /\ added' = Relocate(added, R)
      /\ reasons' = RelocateReasons(R) /\ watches' = RelocateWatches(R)
      /\ occs' = IF act THEN [v \in VarSet |-> RelocateSlice(O[v], R)] ELSE O
      /\ UNCHANGED <<D, head, Level, vals, levels, bot, heap, loopVars>>
  BY <1>3 DEF CompactCDat
<1>5. /\ ClausesTyped' /\ Gone' = {} /\ Live' = Clauses' /\ Shown' = cls'
      /\ Clauses' = 1 .. Cardinality(K)
      /\ \A c \in K : Moved(c, R) \in Clauses' /\ cls'[Moved(c, R)] = cls[c]
      /\ \A c, d \in K : Moved(c, R) = Moved(d, R) => c = d
      /\ \A d \in Clauses' : \E c \in K : d = Moved(c, R)
  BY <1>1, <1>4, MovedClauses
<1>6. /\ f \in [K -> Clauses'] /\ \A c \in K : f[c] = Moved(c, R) /\ cls'[f[c]] = cls[c] /\ f[c] \in Clauses'
      /\ \A c, d \in K : f[c] = f[d] => c = d
      /\ \A d \in Clauses' : \E c \in K : d = f[c]
  BY <1>5
<1>7. K \subseteq Live /\ \A c \in K : Shown[c] = cls[c]
  <2>1. Live = Clauses \ Gone
    BY DEF Live, Gone
  <2>2. K \subseteq Live
    BY <1>2, <2>1
  <2> QED BY <1>1, <2>2, ShownFacts
<1>8. /\ learnts' = {Moved(c, R) : c \in L \ R} /\ added' = {Moved(c, R) : c \in added \ R}
      /\ L \ R \subseteq K /\ added \ R \subseteq K
  BY <1>1, <1>2, <1>4 DEF Relocate
<1>9. /\ learnts' \subseteq Clauses' /\ added' \subseteq Clauses'
      /\ \A c \in K : (f[c] \in learnts' <=> c \in L) /\ (f[c] \in added' <=> c \in added)
      /\ added' \cap learnts' = {}
  <2>1. learnts' = {f[c] : c \in L \ R} /\ added' = {f[c] : c \in added \ R}
    <3>1. \A c \in K : f[c] = Moved(c, R)
      BY <1>6
    <3> HIDE DEF f, K
    <3>2. (\A c \in L \ R : f[c] = Moved(c, R)) /\ \A c \in added \ R : f[c] = Moved(c, R)
      BY <1>8, <3>1
    <3> QED BY <1>8, <3>2
  <2>2. \A c \in K : c \notin R
    OBVIOUS
  <2> HIDE DEF K, f
  <2>3. \A c \in K : (f[c] \in learnts' <=> c \in L) /\ (f[c] \in added' <=> c \in added)
    BY <1>6, <1>8, <2>1, <2>2
  <2>4. learnts' \subseteq Clauses' /\ added' \subseteq Clauses'
    BY <1>6, <1>8, <2>1
  <2>5. added' \cap learnts' = {}
    BY <1>1, <1>2, <1>6, <1>8, <2>1
  <2> QED BY <2>3, <2>4, <2>5
<1>10. reasons' = [v \in VarIndex |-> IF reasons[v] = CNull THEN CNull ELSE f[reasons[v]]]
  <2>1. reasons' = [v \in VarIndex |-> IF reasons[v] = CNull THEN CNull ELSE Moved(reasons[v], R)]
    BY <1>1, <1>2, <1>4, MovedReasons
  <2>2. \A v \in VarIndex : reasons[v] # CNull => reasons[v] \in K
    BY <1>2, <1>7, ReasonFacts, ShownFacts, <1>1
  <2>3. \A v \in VarIndex : (IF reasons[v] = CNull THEN CNull ELSE Moved(reasons[v], R))
                             = (IF reasons[v] = CNull THEN CNull ELSE f[reasons[v]])
    BY <1>6, <2>2
  <2> HIDE DEF f, K
  <2> QED BY <2>1, <2>3
<1>11. /\ watches' \in [LitIndex -> Seq(Tr!Watch)]
       /\ \A m \in LitSet : ListRenamed(m, f, K)
  BY <1>1, <1>2, <1>4, MovedWatches
<1>12. /\ occs' \in [VarSet -> Seq(Clauses')]
       /\ \A v \in VarSet : /\ O[v] = <<>> => occs'[v] = <<>>
                            /\ \A c \in K : f[c] \in ToSet(occs'[v]) <=> c \in ToSet(O[v])
  <2>1. CASE act
    <3>1. ASSUME NEW v \in VarSet
          PROVE  /\ RelocateSlice(O[v], R) \in Seq(Clauses')
                 /\ O[v] = <<>> => RelocateSlice(O[v], R) = <<>>
                 /\ \A c \in K : f[c] \in ToSet(RelocateSlice(O[v], R)) <=> c \in ToSet(O[v])
      <4>1. O[v] \in Seq(Clauses)
        BY <1>2
      <4>2. /\ RelocateSlice(O[v], R) \in Seq(1 .. Cardinality(K))
            /\ O[v] = <<>> => RelocateSlice(O[v], R) = <<>>
            /\ \A c \in K : Rank(K, c) \in ToSet(RelocateSlice(O[v], R)) <=> c \in ToSet(O[v])
        BY <1>1, <4>1, SliceKept
      <4>3. \A c \in K : f[c] = Rank(K, c)
        BY DEF Moved
      <4> HIDE DEF K, f
      <4> QED BY <1>5, <4>2, <4>3
    <3>2. occs' = [v \in VarSet |-> RelocateSlice(O[v], R)]
      BY <1>4, <2>1
    <3> HIDE DEF K, f
    <3> QED BY <3>1, <3>2
  <2>2. CASE ~ act
    <3>1. occs' = O /\ \A v \in VarSet : O[v] = <<>>
      BY <1>2, <1>4, <2>2
    <3>2. <<>> \in Seq(Clauses') /\ ToSet(<<>>) = {}
      BY DEF ToSet
    <3>3. O = [v \in VarSet |-> O[v]]
      BY <1>2
    <3> QED BY <3>1, <3>2, <3>3
  <2> QED BY <2>1, <2>2
<1>13. Distinct(rmq') /\ learnts' \cap Gone' = {}
  BY <1>4, <1>5 DEF Distinct
<1>14. \A v \in VarIndex : reasons[v] # CNull => reasons[v] \in K
  BY <1>1, <1>2, <1>7, ReasonFacts, ShownFacts
<1>15. Live' = {f[c] : c \in K}
  <2> HIDE DEF f, K
  <2>1. \A d : d \in Clauses' <=> \E c \in K : d = f[c]
    BY <1>6
  <2> QED BY <1>5, <2>1
<1> HIDE DEF f, K
<1>16. Renames(f, K)
  BY <1>2, <1>4, <1>5, <1>6, <1>7, <1>9, <1>10, <1>11, <1>14 DEF Renames
<1>17. Collects(f, K, L, O)
  BY <1>6, <1>9, <1>12, <1>13, <1>15, <1>16 DEF Collects
<1> QED BY <1>17 DEF f, K, R

(* Unlink leaves in each list what is kept, whether it filters it or not.  *)
LEMMA UnlinkLists ==
  ASSUME Tr!TrailInv, ClausesTyped, NEW rms \in Seq(Clauses), Unlink(rms),
         NEW K, K = Live \ ToSet(rms), NEW f, f = [c \in K |-> c]
  PROVE  /\ watches' \in [LitIndex -> Seq(Tr!Watch)]
         /\ \A m \in LitSet : ListRenamed(m, f, K)
<1> DEFINE R == ToSet(rms)
<1> DEFINE Cleaned(m) == \E c \in R : \E k \in {1, 2} \cap DOMAIN cls[c] : cls[c][k] = m
<1>1. watches \in [LitIndex -> Seq(Tr!Watch)] /\ LitSet \subseteq LitIndex
  BY TrailTypes DEF LitSet, LitIndex
<1>2. watches' = [m \in LitIndex |-> IF Cleaned(m) THEN Without(m, R) ELSE watches[m]]
  BY DEF Unlink
<1>3. K = Live \ R
  OBVIOUS
<1> HIDE DEF R, Cleaned
<1>4. ASSUME NEW m \in LitIndex
      PROVE  Without(m, R) \in Seq(Tr!Watch)
  <2>1. watches[m] \in Seq(Tr!Watch)
    BY <1>1
  <2>2. {i \in DOMAIN watches[m] : watches[m][i].c \notin R} \in SUBSET (1 .. Len(watches[m]))
    BY <2>1
  <2> DEFINE I == {i \in DOMAIN watches[m] : watches[m][i].c \notin R}
  <2>3. Without(m, R) = Sub(watches[m], I)
    BY DEF Without
  <2> HIDE DEF I
  <2> QED BY <2>1, <2>2, <2>3, SubFacts DEF I
<1>5. watches' \in [LitIndex -> Seq(Tr!Watch)]
  BY <1>1, <1>2, <1>4
<1>6. ASSUME NEW m \in LitSet
      PROVE  ListRenamed(m, f, K)
  <2> DEFINE w == watches[m]
  <2> DEFINE I == Places(m, K)
  <2>1. m \in LitIndex /\ w \in Seq(Tr!Watch) /\ DOMAIN w = 1 .. Len(w)
    BY <1>1
  <2>2. \A i \in 1 .. Len(w) : /\ w[i].c \in Live /\ Len(Shown[w[i].c]) >= 2
                               /\ m \in {Shown[w[i].c][1], Shown[w[i].c][2]}
    BY <1>6, WatchLive
  <2>3. I = {i \in 1 .. Len(w) : w[i].c \notin R} /\ I \in SUBSET (1 .. Len(w))
    BY <1>3, <2>2 DEF Places
  <2>4. watches'[m] = Sub(w, I)
    <3>1. CASE Cleaned(m)
      <4>1. watches'[m] = Without(m, R)
        BY <1>2, <2>1, <3>1
      <4>2. Without(m, R) = Sub(w, {i \in 1 .. Len(w) : w[i].c \notin R})
        BY <2>1 DEF Without
      <4> QED BY <2>3, <4>1, <4>2
    <3>2. CASE ~ Cleaned(m)
      <4>1. \A i \in 1 .. Len(w) : w[i].c \notin R
        <5> SUFFICES ASSUME NEW i \in 1 .. Len(w), w[i].c \in R
                     PROVE  FALSE
          OBVIOUS
        <5> DEFINE c == w[i].c
        <5>1. c \in Live /\ Len(Shown[c]) >= 2 /\ m \in {Shown[c][1], Shown[c][2]} /\ c \in R
          BY <2>2
        <5> HIDE DEF c
        <5>2. Shown[c] = cls[c] /\ cls[c] \in Seq(LitSet)
          BY <5>1, ShownFacts DEF ClausesTyped, Clauses
        <5>3. 1 \in {1, 2} \cap DOMAIN cls[c] /\ 2 \in {1, 2} \cap DOMAIN cls[c]
          BY <5>1, <5>2
        <5>4. \E k \in {1, 2} \cap DOMAIN cls[c] : cls[c][k] = m
          BY <5>1, <5>2, <5>3
        <5> QED BY <3>2, <5>1, <5>4 DEF Cleaned
      <4>2. I = 1 .. Len(w)
        BY <2>3, <4>1
      <4>3. watches'[m] = w
        BY <1>2, <2>1, <3>2
      <4> HIDE DEF I, w
      <4> QED BY <2>1, <4>2, <4>3, SubAll
    <3> QED BY <3>1, <3>2
  <2> HIDE DEF I, w
  <2>5. RanksOf(I) /\ Len(Sub(w, I)) = Cardinality(I) /\ \A j \in I : Sub(w, I)[Rank(I, j)] = w[j]
    BY <2>1, <2>3, SubFacts
  <2>6. \A j \in I : w[j] = [c |-> f[w[j].c], o |-> w[j].o, bin |-> w[j].bin]
    <3> TAKE j \in I
    <3>1. w[j] \in Tr!Watch /\ w[j].c \in K
      BY <2>1, <2>3 DEF I, w, Places
    <3>2. f[w[j].c] = w[j].c
      BY <3>1
    <3> QED BY <3>1, <3>2 DEF Tr!Watch
  <2> QED BY <2>4, <2>5, <2>6 DEF ListRenamed, I, w
<1> QED BY <1>5, <1>6

LEMMA UnlinkCollects ==
  ASSUME StoreInv, NEW rms \in Seq(Clauses), NEW L, NEW O, Collecting(Gone \cup ToSet(rms), L, O),
         ~ act => Distinct(rmq \o rms),
         Unlink(rms), rmq' = rmq \o rms, learnts' = L, occs' = O,
         UNCHANGED <<assignVars, head, cls, added, bot, heap, loopVars>>
  PROVE  Collects([c \in Live \ ToSet(rms) |-> c], Live \ ToSet(rms), L, O)
<1> DEFINE R == ToSet(rms)
<1> DEFINE K == Live \ R
<1> DEFINE f == [c \in K |-> c]
<1>1. /\ Tr!TrailInv /\ ClausesTyped /\ learnts \subseteq Clauses /\ added \cap learnts = {}
      /\ added \subseteq Clauses /\ reasons \in [VarIndex -> Nat]
  BY TrailTypes, ShownFacts DEF StoreInv, StoreTypes, QueueOK
<1>2. /\ mode = "idle" /\ px = CNull /\ Gone \cup R \subseteq Clauses
      /\ \A v \in VarIndex : reasons[v] # CNull => reasons[v] \notin Gone \cup R
      /\ L \subseteq learnts /\ O \in [VarSet -> Seq(Clauses)]
      /\ ~ act => L \cap (Gone \cup R) = {}
  BY DEF Collecting
<1>3. Clauses' = Clauses /\ cls' = cls /\ added' = added /\ reasons' = reasons
  BY DEF Clauses, assignVars
<1>4. rmq' \in Seq(Clauses) /\ Gone' = Gone \cup R
  BY <1>1, ConcatSet DEF ClausesTyped, Gone
<1>5. ClausesTyped'
  BY <1>1, <1>3, <1>4 DEF ClausesTyped
<1>6. Live = Clauses \ Gone /\ Live' = K
  BY <1>3, <1>4 DEF Live, Gone
<1>7. /\ \A c \in Clauses : Shown[c] = IF c \in Gone THEN <<>> ELSE cls[c]
      /\ \A c \in Clauses : Shown'[c] = IF c \in Gone \cup R THEN <<>> ELSE cls[c]
  <2>1. Shown' = [c \in Clauses |-> IF c \in Gone \cup R THEN <<>> ELSE cls[c]]
    BY <1>3, <1>4 DEF Shown
  <2> HIDE DEF R
  <2> QED BY <2>1 DEF Shown
<1>8. watches' \in [LitIndex -> Seq(Tr!Watch)] /\ \A m \in LitSet : ListRenamed(m, f, K)
  BY <1>1, UnlinkLists
<1>9. \A v \in VarIndex : reasons[v] # CNull => reasons[v] \in K
  BY <1>2, ReasonFacts
<1> HIDE DEF R
<1>10. /\ f \in [K -> Clauses] /\ \A c \in K : f[c] = c
       /\ K \subseteq Live /\ K \subseteq Clauses
       /\ \A c \in K : Shown'[c] = Shown[c]
       /\ \A d \in Clauses : d \in K \/ Shown'[d] = <<>>
  BY <1>6, <1>7
<1> HIDE DEF K, f
<1>11. reasons' = [v \in VarIndex |-> IF reasons[v] = CNull THEN CNull ELSE f[reasons[v]]]
  <2>1. \A v \in VarIndex : reasons[v] = IF reasons[v] = CNull THEN CNull ELSE f[reasons[v]]
    BY <1>9, <1>10
  <2>2. reasons = [v \in VarIndex |-> reasons[v]]
    BY <1>1
  <2> QED BY <1>3, <2>1, <2>2
<1>12. Renames(f, K)
  <2>1. UNCHANGED <<D, head, Level, vals, levels, bot, heap, loopVars>>
    BY DEF assignVars
  <2> QED BY <1>1, <1>2, <1>3, <1>5, <1>8, <1>9, <1>10, <1>11, <2>1 DEF Renames
<1>13. Collects(f, K, L, O)
  <2>1. \A c \in K : cls'[f[c]] = cls[c]
    BY <1>3, <1>10
  <2>2. Live' = {f[c] : c \in K}
    BY <1>6, <1>10
  <2>3. /\ learnts' \subseteq Clauses' /\ \A c \in K : f[c] \in learnts' <=> c \in L
        /\ added' \cap learnts' = {}
    BY <1>1, <1>2, <1>3, <1>10
  <2>4. /\ occs' \in [VarSet -> Seq(Clauses')]
        /\ \A v \in VarSet : /\ O[v] = <<>> => occs'[v] = <<>>
                             /\ \A c \in K : f[c] \in ToSet(occs'[v]) <=> c \in ToSet(O[v])
    BY <1>2, <1>3, <1>10
  <2>5. ~ act => Distinct(rmq') /\ learnts' \cap Gone' = {}
    BY <1>2, <1>4
  <2> QED BY <1>12, <2>1, <2>2, <2>3, <2>4, <2>5 DEF Collects
<1> QED BY <1>13 DEF f, K, R

LEMMA EnqueueCollects ==
  ASSUME StoreInv, NEW rms \in Seq(Clauses), NEW L, NEW O, Collecting(Gone \cup ToSet(rms), L, O),
         ~ act => Distinct(rmq \o rms), Enqueue(rms, L, O)
  PROVE  \E f : Collects(f, Live \ ToSet(rms), L, O)
<1>1. rmq \in Seq(Clauses)
  BY DEF StoreInv, StoreTypes, ClausesTyped
<1>2. rmq \o rms \in Seq(Clauses) /\ ToSet(rmq \o rms) = Gone \cup ToSet(rms)
  BY <1>1, ConcatSet DEF Gone
<1>3. CASE CompactCDat(rmq \o rms, L, O)
  <2> DEFINE q == rmq \o rms
  <2>1. Clauses \ ToSet(q) = Live \ ToSet(rms)
    BY <1>2 DEF Live, Gone
  <2>2. Collecting(ToSet(q), L, O) /\ CompactCDat(q, L, O) /\ (~ act => Distinct(q)) /\ q \in Seq(Clauses)
    BY <1>2, <1>3
  <2> HIDE DEF q
  <2>3. Collects([c \in Clauses \ ToSet(q) |-> Moved(c, ToSet(q))], Clauses \ ToSet(q), L, O)
    BY <2>2, CompactCollects
  <2> QED BY <2>1, <2>3
<1>4. CASE ~ CompactCDat(rmq \o rms, L, O)
  <2>1. /\ Unlink(rms) /\ rmq' = rmq \o rms /\ learnts' = L /\ occs' = O
        /\ UNCHANGED <<assignVars, head, cls, added, bot, heap, loopVars>>
    BY <1>4 DEF Enqueue
  <2> QED BY <2>1, UnlinkCollects
<1> QED BY <1>3, <1>4

(* What is kept of the activation literals A that stay active.             *)
LEMMA CollectsInv ==
  ASSUME StoreInv, NEW f, NEW K, NEW L, NEW O, Collects(f, K, L, O),
         learnts \cap K \subseteq L,
         isActive' \subseteq isActive, UNCHANGED <<made, act>>,
         \A v \in VarSet : O[v] = IF v \in isActive' THEN occs[v] ELSE <<>>,
         \A c \in K : \A m \in ToSet(cls[c]) : Var(m) \in ActVars => Var(m) \in isActive',
         FreeOK'
  PROVE  /\ StoreInv'
         /\ \A c \in added \cap K : ToSet(cls[c]) \in LiveAdded'
<1>1. /\ Renames(f, K)
      /\ \A c \in K : cls'[f[c]] = cls[c]
      /\ Live' = {f[c] : c \in K}
      /\ learnts' \subseteq Clauses' /\ \A c \in K : f[c] \in learnts' <=> c \in L
      /\ added' \cap learnts' = {}
      /\ occs' \in [VarSet -> Seq(Clauses')]
      /\ \A v \in VarSet : /\ O[v] = <<>> => occs'[v] = <<>>
                           /\ \A c \in K : f[c] \in ToSet(occs'[v]) <=> c \in ToSet(O[v])
      /\ ~ act => Distinct(rmq') /\ learnts' \cap Gone' = {}
  BY DEF Collects
<1>2. /\ K \subseteq Live /\ f \in [K -> Clauses'] /\ ClausesTyped'
      /\ \A c \in K : f[c] \in added' <=> c \in added
      /\ \A v \in VarIndex : reasons[v] # CNull => reasons[v] \in K
      /\ reasons' = [v \in VarIndex |-> IF reasons[v] = CNull THEN CNull ELSE f[reasons[v]]]
      /\ UNCHANGED <<D, levels>>
  BY <1>1 DEF Renames
<1>3. /\ Tr!TrailInv /\ ClausesTyped /\ act \in BOOLEAN
      /\ Live \subseteq added \cup learnts /\ (~ act => isActive = {})
      /\ isActive \subseteq made /\ made \subseteq ActVars
  BY DEF StoreInv, StoreTypes, QueueOK, ActiveOK
<1>4. Tr!TrailInv'
  BY <1>1, <1>3, RenamedInv
<1>5. StoreTypes'
  BY <1>1, <1>2, <1>3 DEF StoreTypes
<1>6. QueueOK'
  <2>1. Live' \subseteq added' \cup learnts'
    BY <1>1, <1>2, <1>3
  <2>2. ~ act' => isActive' = {}
    BY <1>3
  <2> QED BY <1>1, <2>1, <2>2 DEF QueueOK
<1>7. ReasonsOK'
  <2>1. \A v \in VarIndex : reasons'[v] = CNull <=> reasons[v] = CNull
    <3>1. \A c \in K : f[c] # CNull
      BY <1>2 DEF Clauses, CNull
    <3> QED BY <1>2, <3>1
  <2>2. \A i \in 1 .. Len(D) : Var(D[i]) \in VarIndex
    BY <1>3, TrailTypes
  <2> QED BY <1>2, <1>3, <2>1, <2>2 DEF StoreInv, ReasonsOK, CNull
<1>8. ActiveOK'
  <2>1. \A v \in VarSet \ isActive' : occs'[v] = <<>>
    BY <1>1
  <2> QED BY <1>1, <1>3, <2>1 DEF ActiveOK
<1>9. LitsOK'
  <2>1. ASSUME NEW d \in Live', NEW m \in ToSet(cls'[d]), Var(m) \in ActVars
        PROVE  m = Not(Pos(Var(m))) /\ Var(m) \in isActive' /\ d \in ToSet(occs'[Var(m)])
    <3>1. PICK c \in K : d = f[c]
      BY <1>1, <2>1
    <3>2. c \in Live /\ m \in ToSet(cls[c]) /\ Var(m) \in VarSet
      BY <1>1, <1>2, <2>1, <3>1, ActVarsAssumption
    <3>3. m = Not(Pos(Var(m))) /\ Var(m) \in isActive' /\ c \in ToSet(occs[Var(m)])
      BY <2>1, <3>1, <3>2 DEF StoreInv, LitsOK
    <3>4. O[Var(m)] = occs[Var(m)]
      BY <3>2, <3>3
    <3> QED BY <1>1, <3>1, <3>2, <3>3, <3>4
  <2> QED BY <2>1 DEF LitsOK
<1>10. OccsOK'
  <2>1. ASSUME NEW v \in isActive', NEW d \in ToSet(occs'[v]) \cap Live'
        PROVE  \E m \in ToSet(cls'[d]) : Var(m) = v
    <3>1. PICK c \in K : d = f[c]
      BY <1>1, <2>1
    <3>2. v \in VarSet /\ v \in isActive /\ c \in Live
      BY <1>2, <1>3, <2>1, ActVarsAssumption
    <3>3. c \in ToSet(occs[v])
      BY <1>1, <2>1, <3>1, <3>2
    <3> QED BY <1>1, <3>1, <3>2, <3>3 DEF StoreInv, OccsOK
  <2> QED BY <2>1 DEF OccsOK
<1>11. \A c \in added \cap K : ToSet(cls[c]) \in LiveAdded'
  <2> TAKE c \in added \cap K
  <2>1. f[c] \in added' \cap Live' /\ cls'[f[c]] = cls[c]
    BY <1>1, <1>2
  <2> QED BY <2>1 DEF LiveAdded
<1> QED BY <1>4, <1>5, <1>6, <1>7, <1>8, <1>9, <1>10, <1>11 DEF StoreInv

-----------------------------------------------------------------------------
(***************************************************************************)
(* The three operations that remove clauses.                               *)
(***************************************************************************)
LEMMA ConcatDistinct ==
  ASSUME NEW S, NEW s \in Seq(S), NEW t \in Seq(S), Distinct(s), Distinct(t),
         ToSet(s) \cap ToSet(t) = {}
  PROVE  Distinct(s \o t)
<1> DEFINE u == s \o t
<1>1. /\ Len(u) = Len(s) + Len(t) /\ Len(s) \in Nat /\ Len(t) \in Nat
      /\ \A i \in 1 .. Len(s) + Len(t) : u[i] = IF i <= Len(s) THEN s[i] ELSE t[i - Len(s)]
  BY ConcatProperties
<1>2. \A i \in 1 .. Len(s), j \in 1 .. Len(t) : s[i] # t[j]
  <2> TAKE i \in 1 .. Len(s), j \in 1 .. Len(t)
  <2>1. s[i] \in ToSet(s) /\ t[j] \in ToSet(t)
    BY DEF ToSet
  <2> QED BY <2>1
<1> HIDE DEF u
<1>3. ASSUME NEW i \in 1 .. Len(u), NEW j \in 1 .. Len(u), u[i] = u[j]
      PROVE  i = j
  <2>1. i \in 1 .. (Len(s) + Len(t)) /\ j \in 1 .. (Len(s) + Len(t))
    BY <1>1
  <2>2. CASE i <= Len(s) /\ j <= Len(s)
    <3>1. i \in 1 .. Len(s) /\ j \in 1 .. Len(s) /\ u[i] = s[i] /\ u[j] = s[j]
      BY <1>1, <2>1, <2>2
    <3> QED BY <1>3, <3>1 DEF Distinct
  <2>3. CASE i <= Len(s) /\ ~ (j <= Len(s))
    <3>1. i \in 1 .. Len(s) /\ j - Len(s) \in 1 .. Len(t) /\ u[i] = s[i] /\ u[j] = t[j - Len(s)]
      BY <1>1, <2>1, <2>3
    <3> QED BY <1>2, <1>3, <3>1
  <2>4. CASE ~ (i <= Len(s)) /\ j <= Len(s)
    <3>1. j \in 1 .. Len(s) /\ i - Len(s) \in 1 .. Len(t) /\ u[j] = s[j] /\ u[i] = t[i - Len(s)]
      BY <1>1, <2>1, <2>4
    <3> QED BY <1>2, <1>3, <3>1
  <2>5. CASE ~ (i <= Len(s)) /\ ~ (j <= Len(s))
    <3>1. /\ j - Len(s) \in 1 .. Len(t) /\ i - Len(s) \in 1 .. Len(t)
          /\ u[j] = t[j - Len(s)] /\ u[i] = t[i - Len(s)]
      BY <1>1, <2>1, <2>5
    <3>2. i - Len(s) = j - Len(s)
      BY <1>3, <3>1 DEF Distinct
    <3> QED BY <1>1, <2>1, <3>2
  <2> QED BY <2>2, <2>3, <2>4, <2>5
<1> QED BY <1>3 DEF Distinct, u

LEMMA MaybeCompactInv ==
  ASSUME StoreInv, MaybeCompact
  PROVE  StoreInv' /\ LiveAdded \subseteq LiveAdded'
<1>1. PICK rms \in Victims : Enqueue(SetToSeq(rms), learnts \ rms, occs)
  BY DEF MaybeCompact
<1>2. mode = "idle" /\ px = CNull /\ UNCHANGED <<isActive, free, made, act>>
  BY DEF MaybeCompact, Propagated
<1>3. /\ rms \subseteq learnts /\ \A c \in rms : ~ InUse(c)
  BY DEF Victims, Removable
<1>4. /\ ClausesTyped /\ learnts \subseteq Clauses /\ added \cap learnts = {}
      /\ ~ act => isActive = {} /\ Distinct(rmq) /\ learnts \cap Gone = {}
      /\ occs \in [VarSet -> Seq(Clauses)] /\ \A v \in VarSet \ isActive : occs[v] = <<>>
      /\ isActive \subseteq ActVars
  BY DEF StoreInv, StoreTypes, QueueOK, ActiveOK
<1> DEFINE s == SetToSeq(rms)
<1>5. s \in Seq(Clauses) /\ ToSet(s) = rms /\ Distinct(s)
  <2>1. Len(cls) \in Nat /\ rms \in SUBSET (1 .. Len(cls)) /\ rms \subseteq Clauses
    BY <1>3, <1>4 DEF ClausesTyped, Clauses
  <2>2. s \in Seq(rms) /\ ToSet(s) = rms /\ Distinct(s)
    BY <2>1, SetSeq
  <2> HIDE DEF s
  <2>3. s \in Seq(Clauses)
    <3>1. \A i \in 1 .. Len(s) : s[i] \in rms
      BY <2>2
    <3>2. s \in Seq(rms) /\ Len(s) \in Nat /\ s = [i \in 1 .. Len(s) |-> s[i]]
      BY <2>2
    <3>3. \A i \in 1 .. Len(s) : s[i] \in Clauses
      BY <2>1, <3>1
    <3> QED BY <3>2, <3>3
  <2> QED BY <2>2, <2>3
<1> HIDE DEF s
<1>6. Collecting(Gone \cup rms, learnts \ rms, occs)
  <2>1. Gone \cup rms \subseteq Clauses
    BY <1>3, <1>4, ShownFacts
  <2>2. \A v \in VarIndex : reasons[v] # CNull => reasons[v] \notin Gone \cup rms
    <3> TAKE v \in VarIndex
    <3> HAVE reasons[v] # CNull
    <3>1. reasons[v] \in Live /\ cls[reasons[v]] # <<>> /\ Var(cls[reasons[v]][1]) = v
      BY ReasonFacts
    <3>2. InUse(reasons[v])
      BY <3>1 DEF InUse
    <3> QED BY <1>3, <3>1, <3>2 DEF Live, Gone
  <2>3. ~ act => (learnts \ rms) \cap (Gone \cup rms) = {} /\ \A v \in VarSet : occs[v] = <<>>
    BY <1>4
  <2> QED BY <1>2, <1>4, <2>1, <2>2, <2>3 DEF Collecting
<1>7. ~ act => Distinct(rmq \o s)
  <2> HAVE ~ act
  <2>1. rmq \in Seq(Clauses) /\ ToSet(rmq) \cap ToSet(s) = {}
    BY <1>3, <1>4, <1>5 DEF ClausesTyped, Gone
  <2> QED BY <1>4, <1>5, <2>1, ConcatDistinct
<1>8. Enqueue(s, learnts \ rms, occs)
  BY <1>1 DEF s
<1>9. PICK f : Collects(f, Live \ rms, learnts \ rms, occs)
  BY <1>5, <1>6, <1>7, <1>8, EnqueueCollects
<1> DEFINE K == Live \ rms
<1>10. \A v \in VarSet : occs[v] = IF v \in isActive' THEN occs[v] ELSE <<>>
  BY <1>2, <1>4
<1>11. \A c \in K : \A m \in ToSet(cls[c]) : Var(m) \in ActVars => Var(m) \in isActive'
  BY <1>2 DEF StoreInv, LitsOK
<1>12. FreeOK'
  BY <1>2 DEF StoreInv, FreeOK, Distinct
<1>13. learnts \cap K \subseteq learnts \ rms /\ added \cap Live \subseteq added \cap K
  BY <1>3, <1>4
<1>14. /\ isActive' \subseteq isActive /\ UNCHANGED <<made, act>>
       /\ Collects(f, K, learnts \ rms, occs)
  BY <1>2, <1>9
<1> HIDE DEF K
<1>15. StoreInv' /\ \A c \in added \cap K : ToSet(cls[c]) \in LiveAdded'
  BY <1>10, <1>11, <1>12, <1>13, <1>14, CollectsInv
<1> QED BY <1>13, <1>15 DEF LiveAdded

LEMMA CheckModelInv ==
  ASSUME StoreInv, CheckModel
  PROVE  StoreInv' /\ LiveAdded \subseteq LiveAdded'
<1>1. /\ mode = "idle" /\ px = CNull /\ UNCHANGED <<isActive, free, made, act>> /\ act
      /\ CompactCDat(rmq, learnts, occs)
  BY DEF CheckModel, Propagated
<1>2. /\ ClausesTyped /\ occs \in [VarSet -> Seq(Clauses)]
      /\ \A v \in VarSet \ isActive : occs[v] = <<>>
  BY DEF StoreInv, StoreTypes, ActiveOK
<1>3. rmq \in Seq(Clauses) /\ ToSet(rmq) = Gone /\ Clauses \ ToSet(rmq) = Live
  BY <1>2 DEF ClausesTyped, Gone, Live
<1>4. Collecting(Gone, learnts, occs)
  <2>1. \A v \in VarIndex : reasons[v] # CNull => reasons[v] \notin Gone
    BY ReasonFacts DEF Live, Gone
  <2> QED BY <1>1, <1>2, <2>1, ShownFacts DEF Collecting
<1>5. Collecting(ToSet(rmq), learnts, occs)
  BY <1>3, <1>4
<1> DEFINE f == [c \in Clauses \ ToSet(rmq) |-> Moved(c, ToSet(rmq))]
<1>6. Collects(f, Clauses \ ToSet(rmq), learnts, occs)
  BY <1>1, <1>3, <1>5, CompactCollects
<1>7. Collects(f, Live, learnts, occs)
  BY <1>3, <1>6
<1> HIDE DEF f
<1>8. \A v \in VarSet : occs[v] = IF v \in isActive' THEN occs[v] ELSE <<>>
  BY <1>1, <1>2
<1>9. \A c \in Live : \A m \in ToSet(cls[c]) : Var(m) \in ActVars => Var(m) \in isActive'
  BY <1>1 DEF StoreInv, LitsOK
<1>10. FreeOK'
  BY <1>1 DEF StoreInv, FreeOK, Distinct
<1>11. isActive' \subseteq isActive /\ UNCHANGED <<made, act>> /\ learnts \cap Live \subseteq learnts
  BY <1>1
<1>12. StoreInv' /\ \A c \in added \cap Live : ToSet(cls[c]) \in LiveAdded'
  BY <1>7, <1>8, <1>9, <1>10, <1>11, CollectsInv
<1> QED BY <1>12 DEF LiveAdded

LEMMA DeactivateInv ==
  ASSUME StoreInv, "assigned" \in Discipline, NEW v \in isActive, Deactivate(Pos(v))
  PROVE  /\ StoreInv'
         /\ \A ms \in LiveAdded : ms \in LiveAdded' \/ (Not(Pos(v)) \in ms /\ v \in isActive \ isActive')
<1>1. /\ Tr!TrailInv /\ ClausesTyped /\ added \cap learnts = {} /\ act = TRUE
      /\ isActive \subseteq made /\ made \subseteq ActVars /\ occs \in [VarSet -> Seq(Clauses)]
      /\ \A u \in VarSet \ isActive : occs[u] = <<>>
  BY DEF StoreInv, StoreTypes, QueueOK, ActiveOK
<1>2. v \in VarSet /\ v \in ActVars /\ Pos(v) \in LitSet /\ Var(Pos(v)) = v
  BY <1>1, ActVarsAssumption, TrailTypes
<1> DEFINE s == occs[v]
<1> DEFINE O == [occs EXCEPT ![v] = <<>>]
<1>3. /\ mode = "idle" /\ px = CNull /\ IsFree(Pos(v))
      /\ Enqueue(s, learnts, O)
      /\ free' = Append(free, Pos(v)) /\ isActive' = isActive \ {v} /\ UNCHANGED <<made, act>>
  BY <1>2 DEF Deactivate, AtLevel0
<1>4. s \in Seq(Clauses) /\ O \in [VarSet -> Seq(Clauses)]
      /\ \A u \in VarSet : O[u] = IF u = v THEN <<>> ELSE occs[u]
  <2>1. <<>> \in Seq(Clauses)
    OBVIOUS
  <2> QED BY <1>1, <1>2, <2>1
<1> HIDE DEF O
(* The clauses removed are those with not m. *)
<1>5. ASSUME NEW c \in Live, c \in ToSet(s)
      PROVE  Not(Pos(v)) \in ToSet(cls[c])
  <2>1. PICK m \in ToSet(cls[c]) : Var(m) = v
    BY <1>5 DEF StoreInv, OccsOK
  <2> QED BY <1>2, <2>1 DEF StoreInv, LitsOK
<1>6. ASSUME NEW c \in Live, c \notin ToSet(s), NEW m \in ToSet(cls[c]), Var(m) \in ActVars
      PROVE  Var(m) \in isActive'
  BY <1>3, <1>6 DEF StoreInv, LitsOK
<1>7. IsFree(Not(Pos(v)))
  <2>1. vals \in [LitIndex -> {-1, 0, 1}]
    BY <1>1, TrFacts, SameOps DEF Tr!TypeOK
  <2>2. Not(Pos(v)) \in LitSet /\ Not(Not(Pos(v))) = Pos(v) /\ Not(Pos(v)) \in LitIndex
    BY <1>2, NVarsAssumption DEF VarSet, LitSet, LitIndex, Not, Pos
  <2>3. \A m \in LitSet : vals[m] = -1 <=> vals[Not(m)] = 1
    BY <1>1, TrFacts, SameOps DEF Tr!TrailConsistent, Tr!IsTrue, Tr!IsFalse
  <2>4. vals[Pos(v)] = 0
    BY <1>3 DEF IsFree
  <2>5. vals[Not(Pos(v))] \in {-1, 0, 1} /\ vals[Not(Pos(v))] # 1 /\ vals[Not(Pos(v))] # -1
    BY <1>2, <2>1, <2>2, <2>3, <2>4
  <2> QED BY <2>5 DEF IsFree
<1> HIDE DEF s
<1>8. Collecting(Gone \cup ToSet(s), learnts, O)
  <2>1. Gone \cup ToSet(s) \subseteq Clauses
    BY <1>1, <1>4, ShownFacts DEF ToSet
  <2>2. ASSUME NEW u \in VarIndex, reasons[u] # CNull
        PROVE  reasons[u] \notin Gone \cup ToSet(s)
    <3>1. reasons[u] \in Live /\ \A m \in ToSet(cls[reasons[u]]) : ~ IsFree(m)
      BY <2>2, ReasonFacts
    <3> QED BY <1>5, <1>7, <3>1 DEF Live, Gone
  <2> QED BY <1>1, <1>3, <1>4, <2>1, <2>2 DEF Collecting
<1>9. PICK f : Collects(f, Live \ ToSet(s), learnts, O)
  <2>1. ~ act => Distinct(rmq \o s)
    BY <1>1
  <2>2. \E f : Collects(f, Live \ ToSet(s), learnts, O)
    BY <1>3, <1>4, <1>8, <2>1, EnqueueCollects
  <2> QED BY <2>2
<1> DEFINE K == Live \ ToSet(s)
<1>10. \A u \in VarSet : O[u] = IF u \in isActive' THEN occs[u] ELSE <<>>
  BY <1>1, <1>3, <1>4
<1>11. \A c \in K : \A m \in ToSet(cls[c]) : Var(m) \in ActVars => Var(m) \in isActive'
  BY <1>6
<1>12. FreeOK'
  <2> DEFINE n == Len(free)
  <2>1. /\ free \in Seq(LitSet) /\ n \in Nat
        /\ \A i, j \in 1 .. n : free[i] = free[j] => i = j
        /\ \A i \in 1 .. n : free[i] = Pos(Var(free[i])) /\ Var(free[i]) \in made \ isActive
    BY DEF StoreInv, FreeOK, Distinct
  <2>2. /\ free' \in Seq(LitSet) /\ Len(free') = n + 1 /\ free'[n + 1] = Pos(v)
        /\ \A i \in 1 .. n : free'[i] = free[i]
    BY <1>2, <1>3, <2>1
  <2>3. \A i \in 1 .. n : free[i] # Pos(v)
    BY <1>2, <2>1
  <2> HIDE DEF n
  <2>4. \A i \in 1 .. (n + 1) : i \in 1 .. n \/ i = n + 1
    BY <2>1
  <2>5. ASSUME NEW i \in 1 .. (n + 1)
        PROVE  free'[i] = Pos(Var(free'[i])) /\ Var(free'[i]) \in made' \ isActive'
    <3>1. CASE i \in 1 .. n
      BY <1>3, <2>1, <2>2, <3>1
    <3>2. CASE i = n + 1
      BY <1>1, <1>2, <1>3, <2>2, <3>2
    <3> QED BY <2>4, <3>1, <3>2
  <2>6. \A i, j \in 1 .. (n + 1) : free'[i] = free'[j] => i = j
    BY <2>1, <2>2, <2>3, <2>4
  <2> QED BY <2>2, <2>5, <2>6 DEF FreeOK, Distinct
<1>13. /\ isActive' \subseteq isActive /\ UNCHANGED <<made, act>> /\ learnts \cap K \subseteq learnts
       /\ Collects(f, K, learnts, O)
  BY <1>3, <1>9
<1>14. \A c \in Live \ K : Not(Pos(v)) \in ToSet(cls[c])
  BY <1>5
<1>15. K \subseteq Live
  OBVIOUS
<1> HIDE DEF K
<1>16. StoreInv' /\ \A c \in added \cap K : ToSet(cls[c]) \in LiveAdded'
  BY <1>10, <1>11, <1>12, <1>13, CollectsInv
<1>17. v \in isActive \ isActive'
  BY <1>3
<1> QED BY <1>14, <1>15, <1>16, <1>17 DEF LiveAdded

-----------------------------------------------------------------------------
(***************************************************************************)
(* The theorems.                                                           *)
(***************************************************************************)
LEMMA StoreInit == CgcInit => StoreInv
<1> SUFFICES ASSUME CgcInit PROVE StoreInv
  OBVIOUS
<1>1. /\ TrailInit /\ learnts = {} /\ rmq = <<>> /\ isActive = {} /\ made = {} /\ act = FALSE
      /\ occs = [v \in VarSet |-> <<>>] /\ free = <<>>
  BY DEF CgcInit
<1>2. D = <<>> /\ cls = <<>> /\ added = {} /\ reasons = [v \in VarIndex |-> CNull]
  BY <1>1 DEF TrailInit
<1>3. Clauses = {} /\ Gone = {} /\ Live = {}
  <2>1. Clauses = {}
    BY <1>2 DEF Clauses
  <2>2. Gone = {}
    BY <1>1 DEF Gone, ToSet
  <2>3. Live \subseteq Clauses
    BY DEF Live
  <2> QED BY <2>1, <2>2, <2>3
<1>4. Shown = <<>>
  <2>1. Shown = [c \in {} |-> IF c \in Gone THEN <<>> ELSE cls[c]]
    BY <1>3 DEF Shown
  <2>2. Shown = [c \in 1 .. 0 |-> IF c \in Gone THEN <<>> ELSE cls[c]]
    <3>1. 1 .. 0 = {}
      OBVIOUS
    <3> QED BY <2>1, <3>1
  <2> HIDE DEF Gone
  <2> QED BY <2>2
<1>5. Tr!TrailInv
  <2>1. Tr!TrailInit
    BY <1>1, <1>4, SameOps DEF TrailInit, Tr!TrailInit
  <2> QED BY <2>1, TrAssumptions, Tr!InitInv
<1>6. StoreTypes
  <2>1. <<>> \in Seq(Seq(LitSet)) /\ <<>> \in Seq(Clauses)
    OBVIOUS
  <2> QED BY <1>1, <1>2, <1>3, <2>1 DEF StoreTypes, ClausesTyped
<1>7. QueueOK
  BY <1>1, <1>2, <1>3 DEF QueueOK, Distinct
<1>8. ReasonsOK
  BY <1>2 DEF ReasonsOK
<1>9. ActiveOK
  <2>1. <<>> \in Seq(Clauses)
    OBVIOUS
  <2> QED BY <1>1, <2>1 DEF ActiveOK
<1>10. FreeOK
  <2>1. <<>> \in Seq(LitSet) /\ Len(<<>>) = 0
    OBVIOUS
  <2> QED BY <1>1, <2>1 DEF FreeOK, Distinct
<1>11. LitsOK /\ OccsOK
  BY <1>1, <1>3 DEF LitsOK, OccsOK
<1> QED BY <1>5, <1>6, <1>7, <1>8, <1>9, <1>10, <1>11 DEF StoreInv

(* What each step keeps of the problem. *)
ProblemKept ==
  \A ms \in LiveAdded :
    \/ ms \in LiveAdded'
    \/ \E v \in isActive \ isActive' : Not(Pos(v)) \in ms

LEMMA StoreNext ==
  ASSUME "assigned" \in Discipline, StoreInv, [CgcNext]_cgcVars
  PROVE  StoreInv' /\ ProblemKept
<1>1. CASE UNCHANGED cgcVars
  BY <1>1, StutterInv DEF ProblemKept
<1>2. CASE Trailing /\ UNCHANGED <<gcVars, actVars>>
  <2>1. CASE Moves
    BY <1>2, <2>1, MovesInv DEF ProblemKept
  <2>2. ASSUME NEW ms \in AddSpace, Add(ms)
        PROVE  StoreInv' /\ ProblemKept
    BY <1>2, <2>2, AddInv DEF ProblemKept
  <2> QED BY <1>2, <2>1, <2>2 DEF Trailing, Moves
<1>3. ASSUME NEW ms \in ClauseSpace, LearnClause(ms)
      PROVE  StoreInv' /\ ProblemKept
  BY <1>3, LearnInv DEF ProblemKept
<1>4. CASE Activation
  <2>1. ASSUME NEW ms \in AddSpace, Activate(ms)
        PROVE  StoreInv' /\ ProblemKept
    BY <2>1, ActivateInv DEF ProblemKept
  <2>2. ASSUME NEW ms \in AddSpace, NEW v \in isActive, ActivateMore(Pos(v), ms)
        PROVE  StoreInv' /\ ProblemKept
    BY <2>2, ActivateMoreInv DEF ProblemKept
  <2> QED BY <1>4, <2>1, <2>2 DEF Activation
<1>5. CASE MaybeCompact
  BY <1>5, MaybeCompactInv DEF ProblemKept
<1>6. CASE CheckModel
  BY <1>6, CheckModelInv DEF ProblemKept
<1>7. ASSUME NEW v \in isActive, Deactivate(Pos(v))
      PROVE  StoreInv' /\ ProblemKept
  BY <1>7, DeactivateInv DEF ProblemKept
<1> QED BY <1>1, <1>2, <1>3, <1>4, <1>5, <1>6, <1>7 DEF CgcNext

LEMMA InvReasons == StoreInv => ReasonsLive
<1> SUFFICES ASSUME StoreInv PROVE ReasonsLive
  OBVIOUS
<1>1. Tr!TrailInv /\ ClausesTyped /\ ReasonsOK
  BY DEF StoreInv, StoreTypes
<1>2. DOMAIN D = 1 .. Len(D) /\ \A i \in 1 .. Len(D) : Var(D[i]) \in VarIndex
  BY <1>1, TrailTypes
<1>3. ASSUME NEW i \in 1 .. Len(D), reasons[Var(D[i])] # CNull
      PROVE  LET c == reasons[Var(D[i])]
             IN  /\ c \in Live /\ c \in Clauses /\ cls[c] # <<>> /\ cls[c][1] = D[i]
                 /\ \A k \in 2 .. Len(cls[c]) : \E j \in 1 .. (i - 1) : D[j] = Not(cls[c][k])
  <2> DEFINE c == reasons[Var(D[i])]
  <2>1. /\ Shown[c] # <<>> /\ Shown[c][1] = D[i]
        /\ \A k \in 2 .. Len(Shown[c]) : \E j \in 1 .. (i - 1) : D[j] = Not(Shown[c][k])
    BY <1>1, <1>3, TrFacts, SameOps DEF Tr!ReasonFirst
  <2>2. c \in Live
    BY <1>2, <1>3, ReasonFacts
  <2> HIDE DEF c
  <2>3. c \in Clauses /\ Shown[c] = cls[c]
    BY <1>1, <2>2, ShownFacts
  <2> QED BY <2>1, <2>2, <2>3 DEF c
<1>4. ReasonFirst
  BY <1>3 DEF ReasonFirst
<1> QED BY <1>1, <1>2, <1>3, <1>4 DEF ReasonsLive, ReasonsOK

LEMMA InvWatched == StoreInv => LiveWatched
<1> SUFFICES ASSUME StoreInv PROVE LiveWatched
  OBVIOUS
<1>1. Tr!TrailInv /\ ClausesTyped /\ Live \subseteq added \cup learnts
  BY DEF StoreInv, StoreTypes, QueueOK
<1>2. ASSUME NEW m \in LitSet
      PROVE  /\ WatchesOnce(m) /\ DOMAIN watches[m] = 1 .. Len(watches[m])
             /\ \A i \in 1 .. Len(watches[m]) :
                  WatchOK(m, watches[m][i]) /\ watches[m][i].c \in Live
  <2>1. watches[m] \in Seq(Tr!Watch)
    BY <1>1, TrailTypes
  <2>2. WatchesOnce(m)
    BY <1>1, TrFacts, SameOps DEF Tr!WatchesMatch, Tr!WatchesOnce, WatchesOnce
  <2>3. ASSUME NEW i \in 1 .. Len(watches[m])
        PROVE  WatchOK(m, watches[m][i]) /\ watches[m][i].c \in Live
    <3> DEFINE w == watches[m][i]
    <3>1. Tr!WatchOK(m, w)
      BY <1>1, TrFacts, SameOps DEF Tr!WatchesMatch
    <3>2. w.c \in Live
      BY <1>1, WatchLive
    <3> HIDE DEF w
    <3>3. w.c \in Clauses /\ Shown[w.c] = cls[w.c]
      BY <1>1, <3>2, ShownFacts
    <3>4. WatchOK(m, w)
      BY <3>1, <3>3 DEF Tr!WatchOK, WatchOK, Tr!Watched, Watched
    <3> QED BY <3>2, <3>4 DEF w
  <2> QED BY <2>1, <2>2, <2>3
<1>3. ASSUME NEW c \in Live, Len(cls[c]) >= 2, NEW m \in Watched(c)
      PROVE  Watches(m, c)
  <2>1. Shown[c] = cls[c] /\ c \in Tr!Clauses
    BY <1>1, ShownFacts
  <2>2. m \in Tr!Watched(c)
    BY <1>3, <2>1 DEF Tr!Watched, Watched
  <2>3. Tr!Watches(m, c)
    BY <1>1, <1>3, <2>1, <2>2, TrFacts DEF Tr!WatchesMatch
  <2> QED BY <2>3 DEF Tr!Watches, Watches
<1> QED BY <1>1, <1>2, <1>3 DEF LiveWatched

LEMMA InvClean == StoreInv => FreeLitsClean
<1> SUFFICES ASSUME StoreInv PROVE FreeLitsClean
  OBVIOUS
<1>1. /\ Tr!TrailInv /\ ClausesTyped /\ ReasonsOK /\ LitsOK
      /\ isActive \subseteq made /\ made \subseteq ActVars
      /\ \A v \in VarSet \ isActive : occs[v] = <<>>
  BY DEF StoreInv, StoreTypes, ActiveOK
<1>2. /\ free \in Seq(LitSet) /\ DOMAIN free = 1 .. Len(free)
      /\ \A i, j \in 1 .. Len(free) : free[i] = free[j] => i = j
      /\ \A i \in 1 .. Len(free) : free[i] = Pos(Var(free[i])) /\ Var(free[i]) \in made \ isActive
  BY DEF StoreInv, FreeOK, Distinct
<1>3. \A c \in Live : \A k \in DOMAIN cls[c] : cls[c][k] \in ToSet(cls[c])
  BY DEF ToSet
<1>4. ASSUME NEW i \in 1 .. Len(free)
      PROVE  LET v == Var(free[i])
             IN  /\ v \notin isActive /\ occs[v] = <<>>
                 /\ \A c \in Live : \A k \in DOMAIN cls[c] : Var(cls[c][k]) # v
                 /\ ~ IsFree(free[i]) => levels[v] # 0
  <2> DEFINE v == Var(free[i])
  <2>1. v \in ActVars /\ v \in VarSet /\ v \notin isActive /\ free[i] = Pos(v)
    BY <1>1, <1>2, ActVarsAssumption
  <2> HIDE DEF v
  <2>2. \A c \in Live : \A m \in ToSet(cls[c]) : Var(m) # v
    BY <1>1, <2>1 DEF LitsOK
  <2>3. ASSUME ~ IsFree(free[i])
        PROVE  levels[v] # 0
    <3>1. v \in VarIndex /\ Pos(v) \in LitSet /\ Pos(v) \in LitIndex /\ Var(Pos(v)) = v
      BY <1>1, <2>1, TrailTypes
    <3>2. vals[Pos(v)] \in {-1, 1}
      <4>1. vals \in [LitIndex -> {-1, 0, 1}]
        BY <1>1, TrFacts, SameOps DEF Tr!TypeOK
      <4>2. vals[Pos(v)] # 0
        BY <2>1, <2>3 DEF IsFree
      <4> QED BY <3>1, <4>1, <4>2
    <3>3. /\ \A m \in LitSet : vals[m] = 1 <=> \E j \in 1 .. Len(D) : D[j] = m
          /\ \A m \in LitSet : vals[m] = -1 <=> vals[Not(m)] = 1
      BY <1>1, TrFacts, SameOps DEF Tr!TrailConsistent, Tr!IsTrue, Tr!IsFalse
    <3>4. \E j \in 1 .. Len(D) : Var(D[j]) = v
      BY <2>1, <3>1, <3>2, <3>3, NegatedLit
    <3>5. reasons[v] = CNull
      <4> SUFFICES ASSUME reasons[v] # CNull PROVE FALSE
        OBVIOUS
      <4> DEFINE c == reasons[v]
      <4>1. c \in Live /\ cls[c] # <<>> /\ Var(cls[c][1]) = v
        BY <3>1, ReasonFacts
      <4> HIDE DEF c
      <4>2. cls[c] \in Seq(LitSet)
        BY <1>1, <4>1, ShownFacts DEF ClausesTyped, Clauses
      <4>3. 1 \in DOMAIN cls[c]
        BY <4>1, <4>2
      <4> QED BY <1>3, <2>2, <4>1, <4>3
    <3>6. levels[v] > 0
      BY <1>1, <3>4, <3>5 DEF ReasonsOK
    <3> QED BY <3>6
  <2> QED BY <1>1, <1>3, <2>1, <2>2, <2>3 DEF v
<1>5. ASSUME NEW v \in isActive, NEW c \in Live, \E k \in DOMAIN cls[c] : Var(cls[c][k]) = v
      PROVE  c \in ToSet(occs[v])
  BY <1>1, <1>3, <1>5 DEF LitsOK
<1> QED BY <1>2, <1>4, <1>5 DEF FreeLitsClean

(* The invariant of the store, under the client's care for assigned        *)
(* activation literals: the trail's invariant on the clauses that are not  *)
(* removed, and what learnts, rmq, Occs and Free say of each other.        *)
THEOREM StoreInvariant ==
  ASSUME "assigned" \in Discipline
  PROVE  CgcSpec => []StoreInv
<1>1. CgcInit => StoreInv
  BY StoreInit
<1>2. StoreInv /\ [CgcNext]_cgcVars => StoreInv'
  BY StoreNext
<1> QED BY <1>1, <1>2, PTL DEF CgcSpec

(* Cgc.CompactCDat relocates every reason: none is removed or lost, and    *)
(* each still has its literal first, whatever was collected or moved.      *)
THEOREM ReasonsStayLive ==
  ASSUME "assigned" \in Discipline
  PROVE  CgcSpec => []ReasonsLive
BY StoreInvariant, InvReasons, PTL

(* Cdb.Unlink and Cgc.relocateWatches leave exactly the watches of the     *)
(* clauses that are not removed.                                           *)
THEOREM LiveStayWatched ==
  ASSUME "assigned" \in Discipline
  PROVE  CgcSpec => []LiveWatched
BY StoreInvariant, InvWatched, PTL

(* Active.Deactivate leaves nothing of a literal behind, so that           *)
(* Active.Lit may hand it out again.                                       *)
THEOREM FreeLitsAreClean ==
  ASSUME "assigned" \in Discipline
  PROVE  CgcSpec => []FreeLitsClean
BY StoreInvariant, InvClean, PTL

(* No step but Active.Deactivate takes a clause out of the problem, and    *)
(* that one only a clause of the literal.                                  *)
THEOREM CollectionKeepsProblem ==
  ASSUME "assigned" \in Discipline
  PROVE  CgcSpec => GcKeepsProblem
<1>1. StoreInv /\ [CgcNext]_cgcVars => [ProblemKept]_cgcVars
  BY StoreNext
<1>2. CgcSpec => []StoreInv
  BY StoreInvariant
<1>3. CgcSpec => [][ProblemKept]_cgcVars
  BY <1>1, <1>2, PTL DEF CgcSpec
<1> QED BY <1>3 DEF GcKeepsProblem, ProblemKept
=============================================================================
