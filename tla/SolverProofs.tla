---------------------------- MODULE SolverProofs ----------------------------
(***************************************************************************)
(* Proofs about the incremental solver: its answers -1 are right, what it  *)
(* learns follows from the added clauses, and its trail keeps the          *)
(* invariant of module Trail, for any clauses, assumptions and scopes.     *)
(***************************************************************************)
EXTENDS DeriveProofs

AddFold == INSTANCE FoldProofs WITH op <- AddLit

-----------------------------------------------------------------------------
(***************************************************************************)
(* What a step of Prop or Back may do.                                     *)
(***************************************************************************)

(* The trail keeps its literals, loses the last ones, or gets an implied   *)
(* one.                                                                    *)
TrailMoves ==
  \A i \in 1 .. Len(D') :
    \/ /\ i \in 1 .. Len(D) /\ D'[i] = D[i]
       /\ levels'[Var(D'[i])] = levels[Var(D[i])] /\ reasons'[Var(D'[i])] = reasons[Var(D[i])]
    \/ i = Len(D) + 1 /\ reasons'[Var(D'[i])] # CNull

(* The clauses are those of before with their literals in another order.   *)
SameClauses == Clauses' = Clauses /\ \A c \in Clauses : SameLits(c)

(* A literal without value is assigned with a reason. *)
LEMMA ImpliedMoves ==
  ASSUME TrailCore, NEW m \in LitSet, IsFree(m), NEW c \in Nat, c # CNull, Assign(m, c)
  PROVE  TrailMoves /\ Level' = Level /\ KeepsAssigned
<1>1. AssignEffect(m, c) /\ KeepsAssigned
  BY AssignFacts, AssignKeeps DEF TrailCore
<1>2. Len(D) \in Nat /\ Var(m) \in VarSet
  BY LitFacts DEF TrailCore, TypeOK
<1>3. ASSUME NEW i \in 1 .. Len(D)
      PROVE  /\ D'[i] = D[i] /\ levels'[Var(D[i])] = levels[Var(D[i])]
             /\ reasons'[Var(D[i])] = reasons[Var(D[i])]
  <2>1. D[i] \in LitSet /\ Var(D[i]) # Var(m)
    BY FreeFacts DEF TrailCore
  <2>2. Var(D[i]) \in VarSet
    BY <2>1, LitFacts
  <2> QED BY <1>1, <2>1, <2>2 DEF AssignEffect
<1>4. reasons'[Var(D'[Len(D) + 1])] # CNull
  BY <1>1, <1>2 DEF AssignEffect
<1>5. \A i \in 1 .. Len(D') : i \in 1 .. Len(D) \/ i = Len(D) + 1
  BY <1>1, <1>2 DEF AssignEffect
<1>6. Level' = Level
  BY <1>1 DEF AssignEffect
<1> QED BY <1>1, <1>3, <1>4, <1>5, <1>6 DEF TrailMoves

(* The clause Prop looks at, and what it does to it. *)
LEMMA OtherFacts ==
  ASSUME TrailCore, Visiting, NEW q, q = TheWatch.c, NEW n, n = OtherWatched(q)
  PROVE  /\ q \in Clauses /\ q \in Nat /\ q # CNull /\ n \in LitSet
         /\ TheWatch.bin => TheWatch.o = n
         /\ UNCHANGED cls => SameClauses
         /\ cls' = [cls EXCEPT ![q][1] = n, ![q][2] = pm] /\ cls[q][1] = pm => SameClauses
<1> USE DEF TrailCore
<1>1. /\ pm \in LitSet /\ IsFalse(pm) /\ q \in Clauses /\ cls[q] \in Seq(LitSet)
      /\ Len(cls[q]) >= 2 /\ (pm = cls[q][1] \/ pm = cls[q][2])
      /\ WatchOK(pm, TheWatch) /\ TheWatch \in Watch
  BY VisitFacts
<1>2. /\ q \in Nat /\ q # CNull /\ Len(cls[q]) \in Nat
      /\ 1 \in 1 .. Len(cls[q]) /\ 2 \in 1 .. Len(cls[q])
  BY <1>1 DEF Clauses, CNull, TypeOK
<1>3. /\ cls[q][1] \in LitSet /\ cls[q][2] \in LitSet /\ cls[q][1] # cls[q][2]
  BY <1>1, <1>2 DEF ClausesOK, DistinctVars
<1>4. /\ n \in LitSet /\ n # pm /\ {n, pm} = {cls[q][1], cls[q][2]}
      /\ n = IF cls[q][1] = pm THEN cls[q][2] ELSE cls[q][1]
  BY <1>1, <1>3 DEF OtherWatched
<1>5. ASSUME TheWatch.bin PROVE TheWatch.o = n
  <2>1. /\ Len(cls[q]) = 2 /\ TheWatch.o # pm
        /\ \E k \in 1 .. Len(cls[q]) : cls[q][k] = TheWatch.o
    BY <1>1, <1>5 DEF WatchOK
  <2> QED BY <1>4, <2>1
<1>6. ASSUME UNCHANGED cls PROVE SameClauses
  <2>1. SwapEffect(q, 1, 1)
    BY <1>1, <1>2, <1>6, NoSwapFacts
  <2> QED BY <1>1, <1>2, <2>1, SwapKeeps DEF SameClauses
<1>7. ASSUME cls' = [cls EXCEPT ![q][1] = n, ![q][2] = pm], cls[q][1] = pm
      PROVE  SameClauses
  <2>1. PICK i \in 1 .. Len(cls[q]), j \in 1 .. Len(cls[q]) : i = 1 /\ j = 2 /\ i # j
    BY <1>2
  <2>2. cls' = [cls EXCEPT ![q][i] = cls[q][j], ![q][j] = cls[q][i]]
    BY <1>4, <1>7, <2>1
  <2>3. SwapEffect(q, i, j)
    BY <1>1, <2>1, <2>2, SwapFacts
  <2> QED BY <1>1, <2>1, <2>3, SwapKeeps DEF SameClauses
<1> QED BY <1>1, <1>2, <1>4, <1>5, <1>6, <1>7

(* What a step of Prop leaves alone. *)
PropEffect ==
  /\ mode \in {"prop", "visit"} /\ mode' \in {"prop", "visit", "idle"}
  /\ SameClauses /\ TrailMoves /\ KeepsAssigned
  /\ Level' = Level /\ trg' = trg /\ added' = added /\ bot' = bot
  /\ mode' = "idle" /\ px' = CNull => head' = Len(D')

(* One iteration of the inner loop of Prop has this effect. *)
LEMMA VisitEffect ==
  ASSUME TrailCore,
         VisitBlocked \/ VisitBinary \/ VisitSatisfied \/ VisitRewatch \/ VisitLast
  PROVE  PropEffect
<1>1. Visiting /\ added' = added /\ bot' = bot /\ trg' = trg
  BY DEF VisitBlocked, VisitBinary, VisitSatisfied, VisitRewatch, VisitLast, VisitingLong, loopVars
<1>2. mode = "visit"
  BY <1>1 DEF Visiting
<1>3. PICK q : q = TheWatch.c
  OBVIOUS
<1>4. PICK n : n = OtherWatched(q)
  OBVIOUS
<1>5. /\ q \in Clauses /\ q \in Nat /\ q # CNull /\ n \in LitSet
      /\ TheWatch.bin => TheWatch.o = n
      /\ UNCHANGED cls => SameClauses
      /\ cls' = [cls EXCEPT ![q][1] = n, ![q][2] = pm] /\ cls[q][1] = pm => SameClauses
  BY <1>1, <1>3, <1>4, OtherFacts
<1>6. ASSUME UNCHANGED <<D, Level, vals, levels, reasons>>
      PROVE  TrailMoves /\ Level' = Level /\ KeepsAssigned
  BY <1>6 DEF TrailMoves, KeepsAssigned
<1>7. ASSUME IsFree(n), Assign(n, q)
      PROVE  TrailMoves /\ Level' = Level /\ KeepsAssigned
  BY <1>5, <1>7, ImpliedMoves
<1>8. CASE VisitBlocked \/ VisitSatisfied
  <2>1. mode' = mode /\ UNCHANGED <<D, Level, vals, levels, reasons, cls>>
    BY <1>8 DEF VisitBlocked, VisitSatisfied, KeepWatch, assignVars
  <2> QED BY <1>1, <1>2, <1>5, <1>6, <2>1 DEF PropEffect
<1>9. CASE VisitRewatch
  <2>1. mode' = mode /\ UNCHANGED <<D, Level, vals, levels, reasons>>
    BY <1>9 DEF VisitRewatch, assignVars, loopVars
  <2>2. PICK r, k, p, o : Rewatched(r, k, p, o)
    BY <1>9, RewatchFacts, SMTT(40)
  <2>3. /\ r \in Clauses /\ SwapEffect(r, k, p) /\ Len(cls[r]) \in Nat
        /\ k \in {1, 2} /\ p \in 3 .. Len(cls[r])
    BY <2>2 DEF Rewatched
  <2>4. k \in 1 .. Len(cls[r]) /\ p \in 1 .. Len(cls[r]) /\ Len(cls[r]) >= 2
    BY <2>3
  <2>5. SameClauses
    BY <2>3, <2>4, SwapKeeps DEF SameClauses
  <2> QED BY <1>1, <1>2, <1>6, <2>1, <2>5, SMTT(40) DEF PropEffect
<1>10. CASE VisitBinary \/ VisitLast
  <2>1. /\ UNCHANGED cls \/ (cls' = [cls EXCEPT ![q][1] = n, ![q][2] = pm] /\ cls[q][1] = pm)
        /\ \/ IsFree(n) /\ Assign(n, q) /\ mode' = mode
           \/ px' = q /\ UNCHANGED <<D, Level, vals, levels, reasons>> /\ mode' = "idle"
    <3>1. CASE VisitBinary
      BY <1>3, <1>5, <3>1, Zenon DEF VisitBinary, KeepWatch, ReturnConflict, assignVars
    <3>2. CASE VisitLast
      BY <1>3, <1>4, <3>2, Zenon DEF VisitLast, KeepWatch, ReturnConflict, assignVars
    <3> QED BY <1>10, <3>1, <3>2
  <2>2. SameClauses
    BY <1>5, <2>1
  <2>3. TrailMoves /\ Level' = Level /\ KeepsAssigned
    BY <1>6, <1>7, <2>1
  <2> QED BY <1>1, <1>2, <1>5, <2>1, <2>2, <2>3 DEF PropEffect
<1> QED BY <1>8, <1>9, <1>10, SMTT(40)

(* A step of Prop keeps the core of the invariant and has this effect. *)
LEMMA PropStepEffect ==
  ASSUME TrailCore, PropStep
  PROVE  TrailCore' /\ PropEffect
<1>1. CASE PropTake \/ PropReturn \/ PropNext
  <2>1. TrailCore'
    BY <1>1, PropLoopInv DEF CoreKept
  <2>2. /\ UNCHANGED <<D, Level, vals, levels, reasons, cls, added, bot, trg>>
        /\ mode \in {"prop", "visit"} /\ mode' \in {"prop", "visit", "idle"}
        /\ mode' = "idle" => head' = Len(D')
    BY <1>1 DEF PropTake, PropReturn, PropNext, assignVars, clauseVars
  <2>3. SameClauses /\ TrailMoves /\ KeepsAssigned
    BY <2>2 DEF SameClauses, SameLits, Clauses, TrailMoves, KeepsAssigned
  <2> QED BY <2>1, <2>2, <2>3 DEF PropEffect
<1>2. CASE VisitBlocked \/ VisitBinary \/ VisitSatisfied \/ VisitRewatch \/ VisitLast
  BY <1>2, VisitInv, VisitEffect DEF CoreKept
<1> QED BY <1>1, <1>2 DEF PropStep

(* A step of Back takes values back above the target level, and ends at    *)
(* the target level.                                                       *)
BackEffect ==
  /\ mode = "back" /\ mode' \in {"back", "idle"}
  /\ cls' = cls /\ added' = added /\ bot' = bot
  /\ TrailMoves
  /\ \A m \in LitSet : ~ IsFree(m) /\ levels[Var(m)] <= trg =>
       vals'[m] = vals[m] /\ levels'[Var(m)] = levels[Var(m)]
  /\ \A m \in LitSet :
       \/ vals'[m] = vals[m] /\ levels'[Var(m)] = levels[Var(m)]
       \/ vals'[m] = 0 /\ levels'[Var(m)] = -1
  /\ mode' = "back" => Level' = Level /\ trg' = trg
  /\ mode' = "idle" => Level' = trg /\ px' = CNull /\ head' = Len(D')

(* One iteration of Back has this effect. *)
LEMMA BackStepEffect ==
  ASSUME TrailInv, BackStep
  PROVE  TrailInv' /\ BackEffect
<1>1. CASE BackPop
  <2>1. TrailInv'
    BY <1>1, BackPopInv
  <2>2. /\ UNCHANGED <<Level, head, cls, added, bot, mode, px, trg>> /\ mode = "back"
        /\ D # <<>> /\ D \in Seq(LitSet)
    BY <1>1 DEF BackPop, AtTarget, clauseVars, loopVars, TrailInv, TrailCore, TypeOK
  <2>3. PICK m \in LitSet : m = Last(D) /\ levels[Var(m)] > trg /\ trg \in Nat
    BY <1>1, PopLevel
  <2>4. /\ Len(D) \in Nat /\ Len(D) >= 1 /\ D[Len(D)] = m /\ Len(D') = Len(D) - 1
        /\ \A k \in 1 .. (Len(D) - 1) : D'[k] = D[k]
    BY <1>1, <2>2, <2>3, FrontFacts DEF BackPop
  <2>5. /\ m \in LitIndex /\ Not(m) \in LitSet /\ Not(m) \in LitIndex /\ m # Not(m)
        /\ Not(Not(m)) = m /\ Var(m) \in VarSet /\ Var(m) \in VarIndex /\ Var(Not(m)) = Var(m)
    BY LitFacts, IndexFacts
  <2>6. /\ \A n \in LitSet : vals'[n] = IF n = m \/ n = Not(m) THEN 0 ELSE vals[n]
        /\ \A v \in VarSet : v # Var(m) => levels'[v] = levels[v] /\ reasons'[v] = reasons[v]
        /\ levels'[Var(m)] = -1
    BY <1>1, <2>3, <2>5, IndexFacts DEF BackPop, TrailInv, TrailCore, TypeOK
  <2>7. ASSUME NEW i \in 1 .. Len(D')
        PROVE  /\ i \in 1 .. Len(D) /\ D'[i] = D[i]
               /\ levels'[Var(D'[i])] = levels[Var(D[i])]
               /\ reasons'[Var(D'[i])] = reasons[Var(D[i])]
    <3>1. i \in 1 .. (Len(D) - 1) /\ Len(D) \in 1 .. Len(D)
      BY <2>4
    <3>2. D[i] \in LitSet /\ Var(D[i]) \in VarSet /\ Var(D[i]) # Var(m)
      BY <2>4, <3>1, TrailFacts DEF TrailInv
    <3> QED BY <2>4, <2>6, <3>1, <3>2
  <2>8. ASSUME NEW n \in LitSet
        PROVE  \/ Var(n) # Var(m) /\ vals'[n] = vals[n] /\ levels'[Var(n)] = levels[Var(n)]
               \/ Var(n) = Var(m) /\ vals'[n] = 0 /\ levels'[Var(n)] = -1
    <3>1. CASE Var(n) = Var(m)
      <4>1. n = m \/ n = Not(m)
        BY <3>1, SameVar
      <4> QED BY <2>6, <3>1, <4>1
    <3>2. CASE Var(n) # Var(m)
      <4>1. n # m /\ n # Not(m) /\ Var(n) \in VarSet
        BY <2>5, <3>2, LitFacts
      <4> QED BY <2>6, <3>2, <4>1
    <3> QED BY <3>1, <3>2
  <2>9. \A n \in LitSet : levels[Var(n)] <= trg => Var(n) # Var(m)
    <3>1. levels[Var(m)] \in Int
      BY <2>5 DEF TrailInv, TrailCore, TypeOK
    <3> QED BY <2>3, <3>1
  <2> QED BY <2>1, <2>2, <2>7, <2>8, <2>9 DEF BackEffect, TrailMoves
<1>2. CASE BackStop
  <2>1. TrailInv'
    BY <1>2, BackStopInv
  <2>2. /\ UNCHANGED <<D, vals, levels, reasons, cls, added, bot>>
        /\ mode = "back" /\ mode' = "idle" /\ px' = CNull
        /\ head' = Len(D) /\ Level' = IF D = <<>> THEN 0 ELSE trg
        /\ trg \in Nat
    BY <1>2 DEF BackStop, clauseVars, TrailInv, TrailCore, TypeOK
  <2>3. ASSUME D = <<>> PROVE trg = 0
    <3>1. \A k \in 1 .. trg : \E i \in 1 .. Len(D) : levels[Var(D[i])] = k
      BY <2>2 DEF TrailInv, TrailCore, LevelsOK, TopLevel
    <3>2. Len(D) = 0
      BY <2>3
    <3>3. trg \notin 1 .. trg
      BY <3>1, <3>2
    <3> QED BY <2>2, <3>3
  <2>4. Level' = trg
    BY <2>2, <2>3
  <2> QED BY <2>1, <2>2, <2>4 DEF BackEffect, TrailMoves
<1> QED BY <1>1, <1>2 DEF BackStep

-----------------------------------------------------------------------------
(***************************************************************************)
(* What is known of the trail while no added clause is empty, and the      *)
(* operations of the solver on it.                                         *)
(***************************************************************************)
TrailSound ==
  /\ bot = CNull /\ TrailInv /\ Sound /\ DecisionsFirst
  /\ \A c \in added : cls[c] # <<>>

(* The decisions of the levels up to l are in S, and so they are after a   *)
(* step.                                                                   *)
DecWithin(l, S) ==
  \A i \in 1 .. Len(D) :
    reasons[Var(D[i])] = CNull /\ levels[Var(D[i])] <= l => D[i] \in S

DecNext(l, S) ==
  \A i \in 1 .. Len(D') :
    reasons'[Var(D'[i])] = CNull /\ levels'[Var(D'[i])] <= l => D'[i] \in S

(* No step of Prop or Back, and no implied literal, makes a decision. *)
LEMMA MovesDecisions ==
  ASSUME TypeOK, TrailMoves
  PROVE  /\ DecisionsFirst => DecisionsFirst'
         /\ \A l, S : DecWithin(l, S) => DecNext(l, S)
<1>1. Len(D) \in Nat
  BY DEF TypeOK
<1>2. ASSUME DecisionsFirst, NEW i \in 1 .. Len(D'), reasons'[Var(D'[i])] = CNull
      PROVE  /\ levels'[Var(D'[i])] >= 1
             /\ \A j \in 1 .. (i - 1) : levels'[Var(D'[j])] < levels'[Var(D'[i])]
  <2>1. i \in 1 .. Len(D) /\ levels'[Var(D'[i])] = levels[Var(D[i])] /\ reasons[Var(D[i])] = CNull
    BY <1>2 DEF TrailMoves
  <2>2. ASSUME NEW j \in 1 .. (i - 1)
        PROVE  levels'[Var(D'[j])] = levels[Var(D[j])]
    <3>1. j \in 1 .. Len(D') /\ j # Len(D) + 1
      BY <1>1, <2>1
    <3> QED BY <3>1 DEF TrailMoves
  <2> QED BY <1>2, <2>1, <2>2 DEF DecisionsFirst
<1>3. ASSUME NEW l, NEW S, DecWithin(l, S) PROVE DecNext(l, S)
  BY <1>3 DEF DecWithin, DecNext, TrailMoves
<1> QED BY <1>2, <1>3 DEF DecisionsFirst

(* Clauses stay implied when their literals are permuted and when clauses  *)
(* are added to the formula.                                               *)
LEMMA SoundKept ==
  ASSUME Sound, SameClauses, formula \subseteq formula'
  PROVE  Sound'
<1> SUFFICES ASSUME NEW c \in Clauses', NEW A, Model(A)'
             PROVE  \E k \in 1 .. Len(cls'[c]) : HoldsIn(cls'[c][k], A)
  BY DEF Sound
<1>1. Model(A) /\ c \in Clauses /\ SameLits(c)
  BY DEF Model, ModelOf, SameClauses
<1>2. PICK k \in 1 .. Len(cls[c]) : HoldsIn(cls[c][k], A)
  BY <1>1 DEF Sound
<1>3. PICK j \in 1 .. Len(cls[c]) : cls'[c][j] = cls[c][k]
  BY <1>1 DEF SameLits
<1> QED BY <1>1, <1>2, <1>3 DEF SameLits

(* A new clause which every model satisfies keeps the clauses implied. *)
LEMMA SoundGrown ==
  ASSUME TypeOK, Sound, NEW ms, Grown(ms), formula \subseteq formula',
         \A A : Model(A)' => \E k \in 1 .. Len(ms) : HoldsIn(ms[k], A)
  PROVE  Sound'
<1> SUFFICES ASSUME NEW c \in Clauses', NEW A, Model(A)'
             PROVE  \E k \in 1 .. Len(cls'[c]) : HoldsIn(cls'[c][k], A)
  BY DEF Sound
<1>1. Model(A)
  BY DEF Model, ModelOf
<1>2. CASE c \in Clauses
  BY <1>1, <1>2 DEF Sound, Grown
<1>3. CASE c = Len(cls) + 1
  BY <1>3 DEF Grown
<1> QED BY <1>2, <1>3 DEF Grown

(* A step which leaves the trail alone. *)
LEMMA TrailFrame ==
  ASSUME TrailSound, UNCHANGED trailVars, formula \subseteq formula'
  PROVE  /\ TrailSound'
         /\ \A l, S : DecWithin(l, S) => DecNext(l, S)
<1>1. TrailInv'
  BY NextInv DEF TrailSound
<1>2. SameClauses /\ TrailMoves /\ bot' = bot /\ added' = added /\ cls' = cls
  BY DEF trailVars, SameClauses, SameLits, Clauses, TrailMoves
<1>3. Sound'
  BY <1>2, SoundKept DEF TrailSound
<1>4. DecisionsFirst' /\ \A l, S : DecWithin(l, S) => DecNext(l, S)
  BY <1>2, MovesDecisions DEF TrailSound, TrailInv, TrailCore
<1> QED BY <1>1, <1>2, <1>3, <1>4 DEF TrailSound

(* Prop is called. *)
LEMMA PropStarts ==
  ASSUME TrailSound, px = CNull, StartProp, formula' = formula
  PROVE  /\ TrailSound'
         /\ UNCHANGED <<D, Level, vals, levels, reasons, cls, trg>>
         /\ mode = "idle" /\ mode' = "prop" /\ px' = CNull
         /\ \A l, S : DecWithin(l, S) => DecNext(l, S)
<1>1. TrailInv'
  BY PropInv DEF TrailSound, ClientProp
<1>2. /\ UNCHANGED <<D, Level, vals, levels, reasons, cls, trg, bot, added>>
      /\ mode = "idle" /\ mode' = "prop" /\ px' = CNull
  BY DEF StartProp, assignVars, clauseVars
<1>3. SameClauses /\ TrailMoves
  BY <1>2 DEF SameClauses, SameLits, Clauses, TrailMoves
<1>4. Sound'
  BY <1>3, SoundKept DEF TrailSound
<1>5. DecisionsFirst' /\ \A l, S : DecWithin(l, S) => DecNext(l, S)
  BY <1>3, MovesDecisions DEF TrailSound, TrailInv, TrailCore
<1> QED BY <1>1, <1>2, <1>4, <1>5 DEF TrailSound

(* Back is called. *)
LEMMA BackStarts ==
  ASSUME TrailSound, NEW l \in Nat, StartBack(l), formula \subseteq formula'
  PROVE  /\ TrailSound'
         /\ UNCHANGED <<D, Level, head, vals, levels, reasons, cls, px>>
         /\ mode = "idle"
         /\ Level <= l => mode' = "idle" /\ trg' = trg
         /\ Level > l => mode' = "back" /\ trg' = l
         /\ \A k, S : DecWithin(k, S) => DecNext(k, S)
<1>1. Level \in Nat
  BY DEF TrailSound, TrailInv, TrailCore, TypeOK
<1>2. /\ UNCHANGED <<D, Level, head, vals, levels, reasons, cls, px, bot, added>>
      /\ mode = "idle"
      /\ Level <= l => mode' = "idle" /\ trg' = trg
      /\ Level > l => mode' = "back" /\ trg' = l
  BY <1>1 DEF StartBack, assignVars, clauseVars
<1>3. TrailInv'
  <2>1. CASE Level <= l
    <3>1. UNCHANGED trailVars
      BY <2>1 DEF StartBack, assignVars, clauseVars, trailVars
    <3> QED BY <3>1, NextInv DEF TrailSound
  <2>2. CASE Level > l
    <3>1. l \in 0 .. Level
      BY <1>1, <2>2
    <3> QED BY <3>1, BackStartInv DEF TrailSound, ClientBack
  <2> QED BY <1>1, <2>1, <2>2
<1>4. SameClauses /\ TrailMoves
  BY <1>2 DEF SameClauses, SameLits, Clauses, TrailMoves
<1>5. Sound'
  BY <1>4, SoundKept DEF TrailSound
<1>6. DecisionsFirst' /\ \A k, S : DecWithin(k, S) => DecNext(k, S)
  BY <1>4, MovesDecisions DEF TrailSound, TrailInv, TrailCore
<1> QED BY <1>2, <1>3, <1>5, <1>6 DEF TrailSound

(* The loops of Prop and Back. *)
LEMMA LoopSteps ==
  ASSUME TrailSound, PropStep \/ BackStep, formula' = formula
  PROVE  /\ TrailSound'
         /\ (PropStep /\ PropEffect) \/ (BackStep /\ BackEffect)
         /\ \A l, S : DecWithin(l, S) => DecNext(l, S)
<1>1. /\ TrailInv' /\ SameClauses /\ TrailMoves /\ bot' = bot /\ added' = added
      /\ (PropStep /\ PropEffect) \/ (BackStep /\ BackEffect)
  <2>1. CASE PropStep
    <3>1. TrailInv' /\ PropEffect
      BY <2>1, PropInv, PropStepEffect DEF TrailSound, TrailInv
    <3>2. SameClauses /\ TrailMoves /\ bot' = bot /\ added' = added
      BY <3>1 DEF PropEffect
    <3> QED BY <2>1, <3>1, <3>2
  <2>2. CASE BackStep
    <3>1. TrailInv' /\ BackEffect
      BY <2>2, BackStepEffect DEF TrailSound
    <3>2. SameClauses
      BY <3>1 DEF BackEffect, SameClauses, SameLits, Clauses
    <3> QED BY <2>2, <3>1, <3>2 DEF BackEffect
  <2> QED BY <2>1, <2>2
<1>2. Sound'
  BY <1>1, SoundKept DEF TrailSound
<1>3. DecisionsFirst' /\ \A l, S : DecWithin(l, S) => DecNext(l, S)
  BY <1>1, MovesDecisions DEF TrailSound, TrailInv, TrailCore
<1>4. \A c \in added' : cls'[c] # <<>>
  <2> SUFFICES ASSUME NEW c \in added PROVE cls'[c] # <<>>
    BY <1>1
  <2>1. c \in Clauses /\ cls \in Seq(Seq(LitSet)) /\ cls[c] # <<>>
    BY DEF TrailSound, TrailInv, TrailCore, TypeOK
  <2>2. Len(cls[c]) # 0
    BY <2>1, ClauseLits, EmptySeq DEF Clauses
  <2>3. Len(cls'[c]) # 0
    BY <1>1, <2>1, <2>2 DEF SameClauses, SameLits
  <2> QED BY <2>3
<1> QED BY <1>1, <1>2, <1>3, <1>4 DEF TrailSound

(* What LearnFrom returns in drvd: a falsified clause whose first literal  *)
(* is of the current level and whose others are at most at TargetLevel.    *)
DerivedFrom ==
  LET ms == cls'[drvd'.P]
  IN  /\ drvd'.P \in Clauses' /\ ms # <<>> /\ ms[1] = drvd'.Unit
      /\ drvd'.TargetLevel \in Nat /\ drvd'.TargetLevel < Level
      /\ IsFalse(ms[1]) /\ levels[Var(ms[1])] = Level
      /\ \A k \in 2 .. Len(ms) : IsFalse(ms[k]) /\ levels[Var(ms[k])] <= drvd'.TargetLevel

(* A clause is learned from a conflict above level 0. *)
LEMMA LearnStep ==
  ASSUME TrailSound, mode = "idle", px # CNull, NEW x, IsConflict(x), lvls \subseteq Nat,
         LearnFrom(x), formula' = formula
  PROVE  /\ TrailSound' /\ DerivedFrom /\ lvls' \subseteq Nat
         /\ UNCHANGED <<D, Level, head, vals, levels, reasons, mode, px, trg>>
         /\ \A c \in Clauses : c \in Clauses' /\ cls'[c] = cls[c]
         /\ \A l, S : DecWithin(l, S) => DecNext(l, S)
<1> DEFINE d == Derive(x)
           ms == d.cLits
<1>1. DerivedOK(d)
  BY DerivedClause DEF TrailSound, TrailInv
<1>2. Learn(ms) /\ lvls' = d.lvls
      /\ drvd' = [P |-> Len(cls) + 1, Unit |-> ms[1], TargetLevel |-> d.target]
  BY DEF LearnFrom
<1> HIDE DEF d
<1>3. /\ ms \in Seq(LitSet) /\ Asserting(ms) /\ d.target \in Nat /\ d.target < Level
      /\ \A k \in 2 .. Len(ms) : levels[Var(ms[k])] <= d.target
      /\ \A A : Model(A) => \E k \in 1 .. Len(ms) : HoldsIn(ms[k], A)
      /\ lvls' \subseteq lvls \cup 1 .. Level
  BY <1>1, <1>2, Zenon DEF DerivedOK
<1> HIDE DEF ms
<1>4. /\ ms # <<>> /\ DistinctVars(ms) /\ Len(ms) \in Nat /\ Len(ms) >= 1
      /\ \A i \in 1 .. Len(ms) : IsFalse(ms[i])
      /\ levels[Var(ms[1])] = Level
  BY <1>3 DEF Asserting
<1>5. Grown(ms)
  BY <1>2, <1>3, <1>4, LinkFacts DEF Learn, TrailSound, TrailInv, TrailCore
<1>6. /\ UNCHANGED <<D, Level, head, vals, levels, reasons, mode, px, trg, added, bot>>
  BY <1>2 DEF Learn, assignVars, loopVars
<1>7. TrailInv'
  BY <1>2, <1>3, LearnInv DEF TrailSound
<1>8. Sound'
  <2>1. \A A : Model(A)' => Model(A)
    BY DEF Model
  <2> QED BY <1>3, <1>5, <2>1, SoundGrown DEF TrailSound, TrailInv, TrailCore
<1>9. TrailMoves
  BY <1>6 DEF TrailMoves
<1>10. DecisionsFirst' /\ \A l, S : DecWithin(l, S) => DecNext(l, S)
  BY <1>9, MovesDecisions DEF TrailSound, TrailInv, TrailCore
<1>11. \A c \in Clauses : c \in Clauses' /\ cls'[c] = cls[c]
  BY <1>5 DEF Grown
<1>12. \A c \in added' : cls'[c] # <<>>
  BY <1>6, <1>11 DEF TrailSound, TrailInv, TrailCore, TypeOK
<1>13. DerivedFrom
  <2>1. drvd'.P = Len(cls) + 1 /\ drvd'.Unit = ms[1] /\ drvd'.TargetLevel = d.target
    BY <1>2
  <2>2. cls'[drvd'.P] = ms /\ drvd'.P \in Clauses'
    BY <1>5, <2>1 DEF Grown
  <2>3. \A k \in 2 .. Len(ms) : k \in 1 .. Len(ms)
    BY <1>4
  <2>4. 1 \in 1 .. Len(ms)
    BY <1>4
  <2> QED BY <1>3, <1>4, <2>1, <2>2, <2>3, <2>4 DEF DerivedFrom
<1>14. lvls' \subseteq Nat
  <2>1. Level \in Nat
    BY DEF TrailSound, TrailInv, TrailCore, TypeOK
  <2> QED BY <1>3, <2>1
<1> QED BY <1>6, <1>7, <1>8, <1>10, <1>11, <1>12, <1>13, <1>14 DEF TrailSound

(* A free literal is assigned with a clause as its reason. *)
LEMMA AssertStep ==
  ASSUME TrailSound, mode = "idle", px = CNull, NEW m, NEW c \in Clauses,
         cls[c] # <<>>, cls[c][1] = m, IsFree(m),
         \A k \in 2 .. Len(cls[c]) : IsFalse(cls[c][k]),
         Assign(m, c), UNCHANGED <<head, clauseVars, heap, loopVars>>, formula' = formula
  PROVE  /\ TrailSound'
         /\ UNCHANGED <<Level, cls, added, mode, px, trg>>
         /\ \A l, S : DecWithin(l, S) => DecNext(l, S)
<1>1. m \in LitSet /\ c \in Nat /\ c # CNull
  <2>1. cls \in Seq(Seq(LitSet))
    BY DEF TrailSound, TrailInv, TrailCore, TypeOK
  <2>2. cls[c] \in Seq(LitSet) /\ Len(cls[c]) \in Nat
    BY <2>1, ClauseLits DEF Clauses
  <2>3. 1 \in 1 .. Len(cls[c])
    BY <2>2, EmptySeq
  <2> QED BY <2>1, <2>2, <2>3 DEF Clauses, CNull
<1>2. TrailMoves /\ Level' = Level
  BY <1>1, ImpliedMoves DEF TrailSound, TrailInv
<1>3. UNCHANGED <<cls, added, bot, mode, px, trg>>
  BY DEF clauseVars, loopVars
<1>4. TrailInv'
  BY <1>1, IdleAssign DEF TrailSound
<1>5. SameClauses
  BY <1>3 DEF SameClauses, SameLits, Clauses
<1>6. Sound'
  BY <1>5, SoundKept DEF TrailSound
<1>7. DecisionsFirst' /\ \A l, S : DecWithin(l, S) => DecNext(l, S)
  BY <1>2, MovesDecisions DEF TrailSound, TrailInv, TrailCore
<1> QED BY <1>2, <1>3, <1>4, <1>6, <1>7 DEF TrailSound

(* A free literal is assigned without reason: it opens the next level. *)
LEMMA DecideStep ==
  ASSUME TrailSound, mode = "idle", px = CNull, head = Len(D),
         NEW m \in LitSet, IsFree(m), Assign(m, CNull),
         heap' \subseteq heap, \A v \in heap \ heap' : v = Var(m) \/ ~ IsFree(Pos(v)),
         UNCHANGED <<head, clauseVars, loopVars>>, formula' = formula
  PROVE  /\ TrailSound'
         /\ Level' = Level + 1 /\ UNCHANGED <<cls, added, mode, px, trg>>
         /\ \A l \in 0 .. Level : \A S : DecWithin(l, S) => DecNext(l, S)
         /\ \A S : DecWithin(Level, S) /\ m \in S => DecNext(Level', S)
<1>1. CNull \in Nat /\ Len(D) \in Nat /\ Level \in Nat /\ TypeOK /\ TrailConsistent
  BY DEF CNull, TrailSound, TrailInv, TrailCore, TypeOK
<1>2. AssignEffect(m, CNull)
  BY <1>1, AssignFacts
<1>3. /\ Len(D') = Len(D) + 1 /\ D'[Len(D) + 1] = m /\ Level' = Level + 1
      /\ levels'[Var(m)] = Level + 1 /\ Var(m) \in VarSet
  BY <1>2, LitFacts DEF AssignEffect
<1>4. ASSUME NEW i \in 1 .. Len(D)
      PROVE  /\ D'[i] = D[i] /\ levels'[Var(D'[i])] = levels[Var(D[i])]
             /\ reasons'[Var(D'[i])] = reasons[Var(D[i])]
             /\ levels[Var(D[i])] \in 0 .. Level
  <2>1. D[i] \in LitSet /\ Var(D[i]) # Var(m) /\ Var(D[i]) \in VarSet
    BY <1>1, FreeFacts, LitFacts
  <2>2. levels[Var(D[i])] \in 0 .. Level
    BY DEF TrailSound, TrailInv, TrailCore, LevelsOK
  <2> QED BY <1>2, <2>1, <2>2 DEF AssignEffect
<1>5. \A i \in 1 .. Len(D') : i \in 1 .. Len(D) \/ i = Len(D) + 1
  BY <1>1, <1>3
<1>6. UNCHANGED <<cls, added, bot, mode, px, trg>>
  BY DEF clauseVars, loopVars
<1>7. TrailInv'
  BY <1>1, IdleAssign DEF TrailSound
<1>8. Sound'
  <2>1. SameClauses
    BY <1>6 DEF SameClauses, SameLits, Clauses
  <2> QED BY <2>1, SoundKept DEF TrailSound
<1>9. DecisionsFirst'
  <2> SUFFICES ASSUME NEW i \in 1 .. Len(D'), reasons'[Var(D'[i])] = CNull
               PROVE  /\ levels'[Var(D'[i])] >= 1
                      /\ \A j \in 1 .. (i - 1) : levels'[Var(D'[j])] < levels'[Var(D'[i])]
    BY DEF DecisionsFirst
  <2>1. CASE i \in 1 .. Len(D)
    <3>1. \A j \in 1 .. (i - 1) : j \in 1 .. Len(D)
      BY <1>1, <2>1
    <3>2. /\ levels[Var(D[i])] >= 1
          /\ \A j \in 1 .. (i - 1) : levels[Var(D[j])] < levels[Var(D[i])]
      BY <1>4, <2>1 DEF TrailSound, DecisionsFirst
    <3> QED BY <1>4, <2>1, <3>1, <3>2
  <2>2. CASE i = Len(D) + 1
    <3>1. \A j \in 1 .. (i - 1) : j \in 1 .. Len(D)
      BY <1>1, <2>2
    <3>2. \A j \in 1 .. (i - 1) : levels'[Var(D'[j])] < Level + 1
      BY <1>1, <1>4, <3>1
    <3> QED BY <1>1, <1>3, <2>2, <3>2
  <2> QED BY <1>5, <2>1, <2>2
<1>10. ASSUME NEW l \in 0 .. Level, NEW S, DecWithin(l, S)
       PROVE  DecNext(l, S)
  <2>1. ~ (levels'[Var(D'[Len(D) + 1])] <= l)
    BY <1>1, <1>3
  <2> QED BY <1>4, <1>5, <1>10, <2>1 DEF DecWithin, DecNext
<1>11. ASSUME NEW S, DecWithin(Level, S), m \in S
       PROVE  DecNext(Level', S)
  <2>1. \A i \in 1 .. Len(D) : levels[Var(D[i])] <= Level
    BY <1>1, <1>4
  <2> QED BY <1>3, <1>4, <1>5, <1>11, <2>1 DEF DecWithin, DecNext
<1>12. \A c \in added' : cls'[c] # <<>>
  BY <1>6 DEF TrailSound
<1> QED BY <1>3, <1>6, <1>7, <1>8, <1>9, <1>10, <1>11, <1>12 DEF TrailSound

(* What Cdb.Add has kept of the first n literals of ms: those which are    *)
(* not false, each once.                                                   *)
AddedOK(ks, ms, n) ==
  /\ ks \in Seq(LitSet)
  /\ \A k \in 1 .. Len(ks) : ~ IsFalse(ks[k]) /\ \E i \in 1 .. n : ks[k] = ms[i]
  /\ \A i \in 1 .. n : IsFalse(ms[i]) \/ \E k \in 1 .. Len(ks) : ks[k] = ms[i]
  /\ \A j, k \in 1 .. Len(ks) : ks[j] = ks[k] => j = k

(* One literal is kept or dropped. *)
LEMMA AddLitStep ==
  ASSUME NEW ms \in Seq(LitSet), NEW n \in 0 .. (Len(ms) - 1), NEW ks, AddedOK(ks, ms, n),
         NEW b, b = AddLit(ks, ms[n + 1])
  PROVE  AddedOK(b, ms, n + 1)
<1> DEFINE m == ms[n + 1]
           l == Len(ks)
<1>1. /\ Len(ms) \in Nat /\ n \in Nat /\ n + 1 \in 1 .. Len(ms) /\ m \in LitSet
      /\ ks \in Seq(LitSet) /\ l \in Nat
      /\ n + 1 \in 1 .. (n + 1)
      /\ \A i \in 1 .. (n + 1) : i = n + 1 \/ i \in 1 .. n
      /\ \A i \in 1 .. n : i \in 1 .. (n + 1)
  BY DEF AddedOK
<1>2. (\E k \in 1 .. l : ks[k] = m) <=> m \in ToSet(ks)
  BY <1>1 DEF ToSet
<1>3. CASE IsFalse(m) \/ m \in ToSet(ks)
  <2>1. b = ks
    BY <1>3 DEF AddLit
  <2> HIDE DEF m
  <2>2. IsFalse(m) \/ \E k \in 1 .. Len(ks) : ks[k] = m
    BY <1>2, <1>3
  <2> QED BY <1>1, <2>1, <2>2 DEF AddedOK, m
<1>4. CASE ~ IsFalse(m) /\ m \notin ToSet(ks)
  <2>1. b = Append(ks, m)
    BY <1>4 DEF AddLit
  <2> HIDE DEF m
  <2>2. /\ b \in Seq(LitSet) /\ Len(b) = l + 1 /\ b[l + 1] = m
        /\ \A k \in 1 .. l : b[k] = ks[k]
    BY <1>1, <2>1
  <2> HIDE DEF l
  <2>3. /\ \A k \in 1 .. (l + 1) : k = l + 1 \/ k \in 1 .. l
        /\ \A k \in 1 .. l : k \in 1 .. (l + 1)
        /\ l + 1 \in 1 .. (l + 1)
    BY <1>1
  <2>4. \A k \in 1 .. l : b[k] # m
    BY <1>2, <1>4, <2>2 DEF l
  <2>5. ASSUME NEW k \in 1 .. l
        PROVE  ~ IsFalse(b[k]) /\ \E i \in 1 .. (n + 1) : b[k] = ms[i]
    <3>1. ~ IsFalse(ks[k]) /\ \E i \in 1 .. n : ks[k] = ms[i]
      BY DEF AddedOK, l
    <3>2. b[k] = ks[k]
      BY <2>2
    <3> QED BY <1>1, <3>1, <3>2
  <2>6. \A k \in 1 .. Len(b) : ~ IsFalse(b[k]) /\ \E i \in 1 .. (n + 1) : b[k] = ms[i]
    BY <1>1, <1>4, <2>2, <2>3, <2>5 DEF m
  <2>7. ASSUME NEW i \in 1 .. n
        PROVE  IsFalse(ms[i]) \/ \E k \in 1 .. l : b[k] = ms[i]
    <3>1. IsFalse(ms[i]) \/ \E k \in 1 .. l : ks[k] = ms[i]
      BY DEF AddedOK, l
    <3> QED BY <2>2, <3>1
  <2>8. \A i \in 1 .. (n + 1) : IsFalse(ms[i]) \/ \E k \in 1 .. Len(b) : b[k] = ms[i]
    BY <1>1, <2>2, <2>3, <2>7 DEF m
  <2>9. \A j, k \in 1 .. l : b[j] = b[k] => j = k
    BY <2>2 DEF AddedOK, l
  <2>10. \A j, k \in 1 .. Len(b) : b[j] = b[k] => j = k
    BY <2>2, <2>3, <2>4, <2>9
  <2> QED BY <2>2, <2>6, <2>8, <2>10 DEF AddedOK
<1> QED BY <1>3, <1>4

(* Cdb.Add keeps the literals of ms which are not false, each once. *)
LEMMA AddLits ==
  ASSUME NEW ms \in Seq(LitSet)
  PROVE  AddedOK(Simplified(ms), ms, Len(ms))
<1> DEFINE N == Len(ms)
           s == <<>>
           b == Simplified(ms)
<1>1. N \in Nat /\ DOMAIN ms = 1 .. N
  OBVIOUS
<1>2. b = FoldLeft(AddLit, s, ms)
  BY DEF Simplified
<1>3. FoldLeft(AddLit, s, ms) = AddFold!Folded(s, ms)
  BY DEF AddFold!Folded, FoldLeft, MapThenFoldSet, Max,
         AddFold!FoldLeft, AddFold!MapThenFoldSet, AddFold!Max
<1>4. AddedOK(s, ms, 0)
  BY DEF AddedOK
<1> HIDE DEF s, N, b
<1>5. PICK a : AddFold!IsRun(a, s, ms, N) /\ AddFold!Folded(s, ms) = a[N]
  BY <1>1, AddFold!FoldRun
<1>6. a[0] = s /\ \A k \in 1 .. N : a[k] = AddLit(a[k - 1], ms[k])
  BY <1>5 DEF AddFold!IsRun
<1> DEFINE T == {k \in 0 .. N : AddedOK(a[k], ms, k)}
<1>7. ASSUME NEW k \in 0 .. (N - 1), AddedOK(a[k], ms, k)
      PROVE  AddedOK(a[k + 1], ms, k + 1)
  <2>1. k + 1 \in 1 .. N /\ (k + 1) - 1 = k /\ k \in 0 .. (Len(ms) - 1)
    BY <1>1 DEF N
  <2>2. a[k + 1] = AddLit(a[k], ms[k + 1])
    BY <1>6, <2>1
  <2> QED BY <1>7, <2>1, <2>2, AddLitStep
<1>8. 0 \in T /\ \A k \in 0 .. (N - 1) : k \in T => k + 1 \in T
  <2>1. 0 \in 0 .. N /\ \A k \in 0 .. (N - 1) : k + 1 \in 0 .. N
    BY <1>1
  <2>2. AddedOK(a[0], ms, 0)
    BY <1>4, <1>6
  <2> QED BY <1>7, <2>1, <2>2
<1> HIDE DEF T
<1>9. \A k \in 0 .. N : k \in T
  BY <1>1, <1>8, AddFold!Induct
<1>10. AddedOK(a[N], ms, N)
  <2>1. N \in T
    BY <1>1, <1>9
  <2> QED BY <2>1 DEF T
<1> QED BY <1>2, <1>3, <1>5, <1>10 DEF N, b

(* The literals kept are free and of distinct variables, unless the clause *)
(* was trivially true.                                                     *)
LEMMA SimplifiedFacts ==
  ASSUME TrailCore, NEW ms \in Seq(LitSet), ~ TriviallyTrue(ms), NEW ks, ks = Simplified(ms)
  PROVE  /\ ks \in Seq(LitSet) /\ DistinctVars(ks)
         /\ \A k \in 1 .. Len(ks) : IsFree(ks[k])
         /\ \A i \in 1 .. Len(ms) : IsFalse(ms[i]) \/ \E k \in 1 .. Len(ks) : ks[k] = ms[i]
<1>1. AddedOK(ks, ms, Len(ms))
  BY AddLits
<1>2. ks \in Seq(LitSet) /\ \A k \in 1 .. Len(ks) : ks[k] \in LitSet
  BY <1>1 DEF AddedOK
<1>3. ASSUME NEW k \in 1 .. Len(ks)
      PROVE  IsFree(ks[k]) /\ Not(ks[k]) \notin ToSet(ms)
  <2>1. PICK i \in 1 .. Len(ms) : ks[k] = ms[i]
    BY <1>1 DEF AddedOK
  <2>2. ~ IsTrue(ks[k]) /\ Not(ks[k]) \notin ToSet(ms)
    BY <2>1 DEF TriviallyTrue
  <2>3. ~ IsFalse(ks[k])
    BY <1>1 DEF AddedOK
  <2>4. vals[ks[k]] \in {-1, 0, 1}
    BY <1>2, IndexFacts DEF TrailCore, TypeOK
  <2> QED BY <2>2, <2>3, <2>4 DEF IsTrue, IsFalse, IsFree
<1>4. DistinctVars(ks)
  <2> SUFFICES ASSUME NEW j \in 1 .. Len(ks), NEW k \in 1 .. Len(ks), Var(ks[j]) = Var(ks[k])
               PROVE  j = k
    BY DEF DistinctVars
  <2>1. ks[j] = ks[k] \/ ks[j] = Not(ks[k])
    BY <1>2, SameVar
  <2>2. ks[j] \in ToSet(ms)
    BY <1>1 DEF AddedOK, ToSet
  <2>3. ks[j] = ks[k]
    BY <1>3, <2>1, <2>2
  <2> QED BY <1>1, <2>3 DEF AddedOK
<1> QED BY <1>1, <1>2, <1>3, <1>4 DEF AddedOK

(* A clause is stored at level 0. *)
LEMMA AddMoves ==
  ASSUME TrailCore, DecisionsFirst, mode = "idle", Level = 0,
         NEW ms \in Seq(LitSet), ~ TriviallyTrue(ms),
         NEW ks, ks = Simplified(ms), AddClause(ks)
  PROVE  /\ ks \in Seq(LitSet) /\ DistinctVars(ks) /\ \A k \in 1 .. Len(ks) : IsFree(ks[k])
         /\ \A i \in 1 .. Len(ms) : IsFalse(ms[i]) \/ \E k \in 1 .. Len(ks) : ks[k] = ms[i]
         /\ Grown(ks) /\ TrailCore' /\ TrailMoves /\ DecisionsFirst'
         /\ added' = added \cup {Len(cls) + 1}
         /\ bot' = IF ks = <<>> THEN Len(cls) + 1 ELSE bot
         /\ UNCHANGED <<Level, head, mode, px, trg>>
<1> DEFINE c == Len(cls) + 1
<1>1. /\ ks \in Seq(LitSet) /\ DistinctVars(ks) /\ \A k \in 1 .. Len(ks) : IsFree(ks[k])
      /\ \A i \in 1 .. Len(ms) : IsFalse(ms[i]) \/ \E k \in 1 .. Len(ks) : ks[k] = ms[i]
  BY SimplifiedFacts
<1>2. /\ TypeOK /\ cls \in Seq(Seq(LitSet)) /\ Len(cls) \in Nat /\ c \in Nat /\ c # CNull
  BY DEF TrailCore, TypeOK, CNull
<1>3. /\ Link(ks) /\ added' = added \cup {c} /\ bot' = IF ks = <<>> THEN c ELSE bot
      /\ IF Len(ks) = 1 THEN Assign(ks[1], c) ELSE UNCHANGED assignVars
      /\ UNCHANGED <<head, mode, px, trg>>
  BY DEF AddClause, loopVars
<1> HIDE DEF c
<1>4. Grown(ks)
  BY <1>1, <1>2, <1>3, LinkFacts
<1>5. TrailCore'
  BY <1>1, AddCore
<1>6. TrailMoves /\ Level' = Level
  <2>1. CASE Len(ks) = 1
    <3>1. 1 \in 1 .. Len(ks)
      BY <2>1
    <3>2. ks[1] \in LitSet /\ IsFree(ks[1])
      BY <1>1, <3>1
    <3>3. Assign(ks[1], c)
      BY <1>3, <2>1, Zenon
    <3> QED BY <1>2, <3>2, <3>3, ImpliedMoves
  <2>2. CASE Len(ks) # 1
    BY <1>3, <2>2 DEF assignVars, TrailMoves
  <2> QED BY <2>1, <2>2
<1>7. DecisionsFirst'
  BY <1>2, <1>6, MovesDecisions
<1> QED BY <1>1, <1>3, <1>4, <1>5, <1>6, <1>7 DEF c

(* An empty clause is stored: the trail stays at level 0, and all its      *)
(* literals are implied.                                                   *)
TrailEmpty ==
  /\ bot \in Clauses /\ cls[bot] = <<>>
  /\ TrailCore /\ DecisionsFirst /\ Level = 0 /\ mode # "back"

(* A clause of the formula is stored: without its false literals it still  *)
(* follows, and if none is left the formula is unsatisfiable.              *)
LEMMA AddStep ==
  ASSUME TrailSound, mode = "idle", px = CNull, Level = 0,
         NEW ms \in Seq(LitSet), ToSet(ms) \in formula, ~ TriviallyTrue(ms),
         AddClause(Simplified(ms)), formula' = formula
  PROVE  \/ /\ TrailSound' /\ UNCHANGED <<Level, mode, px, trg>>
            /\ \A l, S : DecWithin(l, S) => DecNext(l, S)
         \/ TrailEmpty' /\ ~ Satisfiable(formula)
<1> DEFINE ks == Simplified(ms)
           c  == Len(cls) + 1
<1>1. /\ TypeOK /\ cls \in Seq(Seq(LitSet)) /\ Len(cls) \in Nat /\ c \in Nat /\ c # CNull
  BY DEF TrailSound, TrailInv, TrailCore, TypeOK, CNull
<1>2. AddClause(ks)
  OBVIOUS
<1>3. /\ ks \in Seq(LitSet) /\ DistinctVars(ks) /\ \A k \in 1 .. Len(ks) : IsFree(ks[k])
      /\ \A i \in 1 .. Len(ms) : IsFalse(ms[i]) \/ \E k \in 1 .. Len(ks) : ks[k] = ms[i]
      /\ Grown(ks) /\ TrailCore' /\ TrailMoves /\ DecisionsFirst'
      /\ added' = added \cup {c}
      /\ bot' = IF ks = <<>> THEN c ELSE bot
      /\ UNCHANGED <<Level, head, mode, px, trg>>
  BY AddMoves DEF TrailSound, TrailInv
<1> HIDE DEF ks, c
<1>4. ASSUME NEW A, Model(A)
      PROVE  \E k \in 1 .. Len(ks) : HoldsIn(ks[k], A)
  <2>1. PICK m \in ToSet(ms) : HoldsIn(m, A)
    BY <1>4 DEF Model, ModelOf
  <2>2. PICK i \in 1 .. Len(ms) : m = ms[i]
    BY <2>1 DEF ToSet
  <2>3. m \in LitSet
    BY <2>2
  <2>4. ASSUME IsFalse(m) PROVE FALSE
    <3>1. levels[Var(m)] = 0
      <4>1. levels[Var(m)] \in 0 .. Level
        BY <2>3, <2>4, FalseFacts DEF TrailSound, TrailInv
      <4> QED BY <4>1
    <3> QED BY <1>4, <2>1, <2>3, <2>4, <3>1, FalseAtZero DEF TrailSound, TrailInv
  <2> QED BY <1>3, <2>1, <2>2, <2>4
<1>5. CASE ks = <<>>
  <2>1. \A A : ~ Model(A)
    <3>1. Len(ks) = 0
      BY <1>5
    <3>2. \A k \in 1 .. Len(ks) : FALSE
      BY <3>1
    <3> QED BY <1>4, <3>2
  <2>2. ~ Satisfiable(formula)
    BY <2>1 DEF Satisfiable, Model
  <2>3. bot' \in Clauses' /\ cls'[bot'] = <<>>
    BY <1>3, <1>5 DEF Grown, c
  <2>4. Level' = 0 /\ mode' # "back"
    BY <1>3
  <2> QED BY <1>3, <2>2, <2>3, <2>4 DEF TrailEmpty
<1>6. CASE ks # <<>>
  <2>1. TrailInv'
    BY <1>2, <1>3, AddInv DEF TrailSound
  <2>2. Sound'
    <3>1. \A A : Model(A)' => Model(A)
      BY DEF Model
    <3> QED BY <1>1, <1>3, <1>4, <3>1, SoundGrown DEF TrailSound
  <2>3. \A l, S : DecWithin(l, S) => DecNext(l, S)
    BY <1>1, <1>3, MovesDecisions
  <2>4. bot' = CNull /\ \A d \in added' : cls'[d] # <<>>
    <3>1. added \subseteq Clauses
      BY <1>1 DEF TypeOK
    <3>2. \A d \in added : cls'[d] # <<>>
      BY <1>3, <3>1 DEF Grown, TrailSound
    <3>3. cls'[c] # <<>>
      BY <1>3, <1>6 DEF Grown, c
    <3> QED BY <1>3, <1>6, <3>2, <3>3 DEF TrailSound
  <2> QED BY <1>3, <2>1, <2>2, <2>3, <2>4 DEF TrailSound
<1> QED BY <1>5, <1>6

(* With an empty clause the trail stays as it is, or Prop goes on, or      *)
(* another clause is stored.                                               *)
LEMMA EmptySteps ==
  ASSUME TrailEmpty,
         \/ UNCHANGED trailVars \/ StartBack(0)
         \/ StartProp \/ PropStep \/ BackStep
         \/ mode = "idle" /\ \E ms \in Seq(LitSet) :
                                ~ TriviallyTrue(ms) /\ AddClause(Simplified(ms))
  PROVE  TrailEmpty'
<1>1. TypeOK /\ bot \in Clauses /\ TrailCore /\ DecisionsFirst /\ Level = 0 /\ mode # "back"
  BY DEF TrailEmpty, TrailCore
<1>2. ASSUME TrailCore', TrailMoves, SameClauses, bot' = bot, Level' = 0, mode' # "back"
      PROVE  TrailEmpty'
  <2>1. bot \in Clauses' /\ Len(cls'[bot]) = Len(cls[bot]) /\ cls' \in Seq(Seq(LitSet))
    BY <1>1, <1>2 DEF SameClauses, SameLits, TrailCore, TypeOK
  <2>2. cls'[bot] \in Seq(LitSet)
    BY <2>1 DEF Clauses
  <2>3. Len(cls'[bot]) = 0
    BY <2>1 DEF TrailEmpty
  <2>4. cls'[bot] = <<>>
    BY <2>2, <2>3, EmptySeq
  <2>5. DecisionsFirst'
    BY <1>1, <1>2, MovesDecisions
  <2> QED BY <1>2, <2>1, <2>4, <2>5 DEF TrailEmpty
<1>3. CASE UNCHANGED trailVars \/ StartBack(0)
  <2>1. UNCHANGED trailVars
    BY <1>1, <1>3 DEF StartBack, trailVars, assignVars, clauseVars
  <2>2. TrailCore'
    BY <1>1, <2>1, CoreFrame
  <2>3. TrailMoves /\ SameClauses /\ bot' = bot /\ Level' = 0 /\ mode' # "back"
    BY <1>1, <2>1 DEF trailVars, TrailMoves, SameClauses, SameLits, Clauses
  <2> QED BY <1>2, <2>2, <2>3
<1>4. CASE StartProp
  <2>1. TrailCore'
    BY <1>1, <1>4, PropCore DEF CoreKept
  <2>2. TrailMoves /\ SameClauses /\ bot' = bot /\ Level' = 0 /\ mode' # "back"
    BY <1>1, <1>4 DEF StartProp, assignVars, clauseVars, TrailMoves, SameClauses, SameLits, Clauses
  <2> QED BY <1>2, <2>1, <2>2
<1>5. CASE PropStep
  <2>1. TrailCore' /\ PropEffect
    BY <1>1, <1>5, PropStepEffect
  <2> QED BY <1>1, <1>2, <2>1 DEF PropEffect
<1>6. CASE mode = "idle" /\ \E ms \in Seq(LitSet) :
                               ~ TriviallyTrue(ms) /\ AddClause(Simplified(ms))
  <2>1. PICK ms \in Seq(LitSet) : ~ TriviallyTrue(ms) /\ AddClause(Simplified(ms))
    BY <1>6
  <2>2. PICK ks : ks = Simplified(ms)
    OBVIOUS
  <2>3. /\ Grown(ks) /\ TrailCore' /\ DecisionsFirst' /\ Level' = Level /\ mode' = mode
        /\ bot' = IF ks = <<>> THEN Len(cls) + 1 ELSE bot
    BY <1>1, <1>6, <2>1, <2>2, AddMoves
  <2>4. bot' \in Clauses' /\ cls'[bot'] = <<>>
    BY <1>1, <2>3 DEF Grown, TrailEmpty
  <2> QED BY <1>1, <2>3, <2>4 DEF TrailEmpty
<1>7. ~ BackStep
  BY <1>1 DEF BackStep, BackPop, BackStop
<1> QED BY <1>3, <1>4, <1>5, <1>6, <1>7

(* A variable of the heap is guessed. *)
LEMMA GuessStep ==
  ASSUME TrailSound, mode = "idle", px = CNull, head = Len(D),
         NEW v \in heap, NEW popped \in SUBSET {u \in heap : ~ IsFree(Pos(u))},
         IsFree(Pos(v)), heap' = heap \ (popped \cup {v}),
         NEW m \in {Pos(v), Not(Pos(v))}, Assign(m, CNull),
         UNCHANGED <<head, clauseVars, loopVars>>, formula' = formula
  PROVE  /\ TrailSound'
         /\ Level' = Level + 1 /\ UNCHANGED <<cls, added, mode, px, trg>>
         /\ \A l \in 0 .. Level : \A S : DecWithin(l, S) => DecNext(l, S)
<1>1. v \in VarSet /\ Pos(v) \in LitSet /\ Var(Pos(v)) = v
  BY IndexFacts DEF TrailSound, TrailInv, TrailCore, TypeOK
<1>2. m \in LitSet /\ IsFree(m) /\ Var(m) = v
  BY <1>1, FreeFacts, LitFacts DEF TrailSound, TrailInv, TrailCore
<1>3. heap' \subseteq heap /\ \A u \in heap \ heap' : u = Var(m) \/ ~ IsFree(Pos(u))
  BY <1>2
<1> QED BY <1>2, <1>3, DecideStep

(* The heap is emptied when no variable in it is free. *)
LEMMA NoGuessStep ==
  ASSUME TrailSound, ~ HeapHasFree, heap' = {},
         UNCHANGED <<assignVars, head, clauseVars, loopVars>>, formula' = formula
  PROVE  /\ TrailSound'
         /\ UNCHANGED <<Level, cls, added, mode, px, trg>>
         /\ \A l, S : DecWithin(l, S) => DecNext(l, S)
<1>1. UNCHANGED <<D, head, Level, vals, levels, reasons, watches, cls, added,
                  bot, mode, pm, pi, px, trg>>
  BY DEF assignVars, clauseVars, loopVars
<1>2. heap' \subseteq heap /\ \A v \in heap \ heap' : ~ IsFree(Pos(v))
  BY DEF HeapHasFree
<1>3. TrailInv'
  BY <1>1, <1>2, HeapInv DEF TrailSound
<1>4. SameClauses /\ TrailMoves
  BY <1>1 DEF SameClauses, SameLits, Clauses, TrailMoves
<1>5. Sound'
  BY <1>4, SoundKept DEF TrailSound
<1>6. DecisionsFirst' /\ \A l, S : DecWithin(l, S) => DecNext(l, S)
  BY <1>4, MovesDecisions DEF TrailSound, TrailInv, TrailCore
<1> QED BY <1>1, <1>3, <1>5, <1>6 DEF TrailSound

-----------------------------------------------------------------------------
(***************************************************************************)
(* What a propagated trail says of the clauses.                            *)
(***************************************************************************)

(* A model of the clauses is one of fewer clauses. *)
LEMMA FewerClauses ==
  ASSUME NEW F, NEW G, F \subseteq G, Satisfiable(G)
  PROVE  Satisfiable(F)
BY DEF Satisfiable, ModelOf

(* A model of the formula and of S makes S true ... *)
LEMMA UnitsHoldIn ==
  ASSUME NEW A \in SUBSET VarSet, NEW S, ModelOf(A, formula \cup Units(S))
  PROVE  Model(A) /\ \A m \in S : HoldsIn(m, A)
<1>1. Model(A)
  BY DEF Model, ModelOf
<1>2. ASSUME NEW m \in S PROVE HoldsIn(m, A)
  <2>1. {m} \in formula \cup Units(S)
    BY DEF Units
  <2>2. PICK n \in {m} : HoldsIn(n, A)
    BY <2>1 DEF ModelOf
  <2> QED BY <2>2
<1> QED BY <1>1, <1>2

(* ... and the whole trail if the decisions are in S. *)
LEMMA DecidedHold ==
  ASSUME TrailSound, NEW A \in SUBSET VarSet, NEW S, ModelOf(A, formula \cup Units(S)),
         DecWithin(Level, S)
  PROVE  \A i \in 1 .. Len(D) : HoldsIn(D[i], A)
<1>1. Model(A) /\ \A m \in S : HoldsIn(m, A)
  BY UnitsHoldIn
<1>2. Level \in Int /\ TrailInv /\ Sound
  BY DEF TrailSound, TrailInv, TrailCore, TypeOK
<1> DEFINE l == Level
<1>3. /\ l \in Int
      /\ \A i \in 1 .. Len(D) :
           reasons[Var(D[i])] = CNull /\ levels[Var(D[i])] <= l => HoldsIn(D[i], A)
  BY <1>1, <1>2 DEF DecWithin
<1> HIDE DEF l
<1>4. \A i \in 1 .. Len(D) : levels[Var(D[i])] <= l => HoldsIn(D[i], A)
  BY <1>1, <1>2, <1>3, TrailImplied DEF TrailInv
<1> QED BY <1>2, <1>4, TrailFacts DEF l, TrailInv

(* A falsified clause, where the decisions are in S, refutes the formula   *)
(* together with S.                                                        *)
LEMMA ConflictRefutes ==
  ASSUME TrailSound, NEW x \in Clauses, Falsified(x), NEW S, DecWithin(Level, S)
  PROVE  ~ Satisfiable(formula \cup Units(S))
<1> SUFFICES ASSUME NEW A \in SUBSET VarSet, ModelOf(A, formula \cup Units(S))
             PROVE  FALSE
  BY DEF Satisfiable
<1>1. Model(A)
  BY UnitsHoldIn
<1>2. cls \in Seq(Seq(LitSet)) /\ TrailInv /\ Sound
  BY DEF TrailSound, TrailInv, TrailCore, TypeOK
<1>3. PICK k \in 1 .. Len(cls[x]) : HoldsIn(cls[x][k], A)
  BY <1>1, <1>2 DEF Sound
<1>4. PICK m \in LitSet : m = cls[x][k]
  BY <1>2, ClauseLits DEF Clauses
<1>5. IsFalse(m)
  BY <1>4 DEF Falsified
<1>6. PICK i \in 1 .. Len(D) : D[i] = Not(m)
  BY <1>2, <1>5, FalseFacts DEF TrailInv
<1>7. HoldsIn(Not(m), A)
  BY <1>6, DecidedHold
<1> QED BY <1>3, <1>4, <1>7, HoldsFacts

(* A false literal of S, where the decisions of its level are in S,        *)
(* refutes the formula together with S.                                    *)
LEMMA FalseRefutes ==
  ASSUME TrailSound, NEW S, DecWithin(Level, S), NEW m \in S, m \in LitSet, IsFalse(m)
  PROVE  ~ Satisfiable(formula \cup Units(S))
<1> SUFFICES ASSUME NEW A \in SUBSET VarSet, ModelOf(A, formula \cup Units(S))
             PROVE  FALSE
  BY DEF Satisfiable
<1>1. PICK i \in 1 .. Len(D) : D[i] = Not(m)
  BY FalseFacts DEF TrailSound, TrailInv
<1>2. HoldsIn(Not(m), A)
  BY <1>1, DecidedHold
<1>3. HoldsIn(m, A)
  BY UnitsHoldIn
<1> QED BY <1>2, <1>3, HoldsFacts

(* A conflict at level 0 refutes the formula alone. *)
LEMMA ConflictAtZero ==
  ASSUME TrailSound, NEW x \in Clauses, Falsified(x), Level = 0
  PROVE  ~ Satisfiable(formula)
<1>1. DecWithin(Level, {})
  BY TrailFacts DEF TrailSound, DecisionsFirst, DecWithin, TrailInv
<1>2. formula \cup Units({}) = formula
  BY DEF Units
<1>3. ~ Satisfiable(formula \cup Units({}))
  BY <1>1, ConflictRefutes
<1> QED BY <1>2, <1>3

(* When all is propagated and no candidate for a guess is left, CheckModel *)
(* finds a true literal in every added clause.                             *)
LEMMA ModelChecks ==
  ASSUME TrailSound, Propagated, ~ HeapHasFree
  PROVE  CheckModel
<1> SUFFICES ASSUME NEW c \in added
             PROVE  \E k \in 1 .. Len(cls[c]) : IsTrue(cls[c][k])
  BY DEF CheckModel
<1>1. /\ TypeOK /\ UnitsHold /\ FreeVarsInHeap /\ TrailConsistent /\ NoFalsifiedClause
      /\ cls[c] # <<>>
  BY NoneFalsified DEF TrailSound, TrailInv, TrailCore
<1>2. c \in Clauses /\ cls \in Seq(Seq(LitSet))
  BY <1>1 DEF TypeOK
<1>3. /\ cls[c] \in Seq(LitSet) /\ Len(cls[c]) \in Nat
      /\ \A k \in 1 .. Len(cls[c]) : cls[c][k] \in LitSet
  BY <1>2, ClauseLits DEF Clauses
<1>4. Len(cls[c]) # 0
  BY <1>1, <1>3, EmptySeq
<1>5. CASE Len(cls[c]) = 1
  <2>1. 1 \in 1 .. Len(cls[c])
    BY <1>5
  <2> QED BY <1>1, <1>5, <2>1 DEF UnitsHold
<1>6. CASE Len(cls[c]) >= 2
  <2>1. ~ Falsified(c)
    BY <1>1, <1>2, <1>6 DEF NoFalsifiedClause
  <2>2. PICK k \in 1 .. Len(cls[c]) : ~ IsFalse(cls[c][k])
    BY <2>1 DEF Falsified
  <2>3. PICK m \in LitSet : m = cls[c][k]
    BY <1>3
  <2>4. ~ IsFree(m)
    <3>1. Var(m) \in VarSet /\ Pos(Var(m)) \in LitSet /\ Var(Pos(Var(m))) = Var(m)
      BY LitFacts, IndexFacts
    <3>2. ~ IsFree(Pos(Var(m)))
      BY <1>1, <3>1 DEF FreeVarsInHeap, HeapHasFree
    <3> QED BY <1>1, <3>1, <3>2, FreeFacts
  <2>5. vals[m] \in {-1, 0, 1}
    BY <1>1, <2>3, IndexFacts DEF TypeOK
  <2> QED BY <2>2, <2>3, <2>4, <2>5 DEF IsFree, IsFalse, IsTrue
<1>7. Len(cls[c]) = 1 \/ Len(cls[c]) >= 2
  <2>1. \A n \in Nat : n # 0 => n = 1 \/ n >= 2
    OBVIOUS
  <2> QED BY <1>3, <1>4, <2>1, Zenon
<1> QED BY <1>5, <1>6, <1>7

-----------------------------------------------------------------------------
(***************************************************************************)
(* The inductive invariant.  Live says what is known at each step of a     *)
(* call while no added clause is empty: where loops may run, that a        *)
(* conflict is left only where the next step learns from it or undoes its  *)
(* level, that the decisions of the levels of a scope are its assumptions, *)
(* and what has become of the clause last learned.  With an empty clause   *)
(* every call ends without searching, on a trail of level 0: Dead.         *)
(***************************************************************************)

(* The assumptions of the first n test scopes. *)
ScopeLits(n) == UNION {ToSet(scopes[i]) : i \in 1 .. n}

Cleaning  == {"cleanup", "cleanupBack", "cleanupAssert", "cleanupProp", "cleanupAgain"}
Assuming  == {"assuming", "assumeProp", "tested"}
Searching == {"search", "propagated", "backjump", "assert", "guess"}

(* The steps of a call at which the loops of Prop and Back may run. *)
Propping == {"cleanupAgain", "assuming", "untested", "propagated"}
Backing  == {"ready", "add", "cleanupAssert", "scope", "assume", "lates", "assert", "guess"}

StateTypes ==
  /\ pc \in {"ready", "add", "scope", "assume", "lates", "untested"}
            \cup Cleaning \cup Assuming \cup Searching
  /\ arg \in Seq(LitSet) /\ assumes \in Seq(LitSet)
  /\ testLevels \in Seq(Nat) /\ endTestLevel \in Nat /\ assumptLevel \in Nat
  /\ scopes \in Seq(Seq(LitSet)) /\ lvls \subseteq Nat
  /\ pc = "add" => ToSet(arg) \in formula

(* Which call is running, and which loop. *)
CallOK ==
  /\ pc # "ready" => res = "none"
  /\ pc \in Cleaning => op \in {"solve", "test", "untest"}
  /\ pc \in {"scope", "tested"} => op = "test"
  /\ pc \in {"assume", "assuming", "assumeProp"} => op \in {"solve", "test"}
  /\ pc \in {"lates", "untested"} => op = "untest"
  /\ pc \in Searching => op = "solve"
  /\ pc = "add" => op = "add" /\ testLevels = <<>>
  /\ op = "test" /\ pc \in {"assume"} \cup Assuming => testLevels # <<>>
  /\ mode \in {"prop", "visit"} => pc \in Propping
  /\ mode = "back" => pc \in Backing

(* The level to which Back goes at a step. *)
BackTarget ==
  CASE pc = "add" -> 0
    [] pc = "cleanupAssert" -> HigherOf(drvd.TargetLevel, endTestLevel)
    [] pc = "assert" -> HigherOf(drvd.TargetLevel, assumptLevel)
    [] pc = "guess" -> assumptLevel
    [] OTHER -> endTestLevel

(* The levels of the scopes and of the assumptions. *)
LevelPlace ==
  /\ mode = "back" => trg = BackTarget
  /\ endTestLevel <= TopLevel
  /\ pc = "add" => TopLevel = 0
  /\ pc \in {"scope", "assume", "lates", "untested"} => TopLevel = endTestLevel
  /\ pc \in Assuming => Level = assumptLevel
  /\ pc \in Assuming \cup Searching => endTestLevel <= assumptLevel /\ assumptLevel <= TopLevel

(* The call is a Test which has not opened its scope. *)
ScopeClosed == op = "test" /\ (pc \in Cleaning \cup {"scope"} \/ res = "panic")

(* Scopes nest, and the decisions of their levels are their assumptions. *)
ScopesOK ==
  /\ Len(scopes) = Len(testLevels) + (IF ScopeClosed THEN 1 ELSE 0)
  /\ testLevels = <<>> => endTestLevel = 0
  /\ testLevels # <<>> => testLevels[1] = 0
  /\ \A k \in 1 .. Len(testLevels) : testLevels[k] <= endTestLevel
  /\ \A j, k \in 1 .. Len(testLevels) : j <= k => testLevels[j] <= testLevels[k]
  /\ \A k \in 1 .. Len(testLevels) : DecWithin(testLevels[k], ScopeLits(k - 1))
  /\ DecWithin(endTestLevel, ScopeLits(Len(testLevels)))

(* What a running call was asked. *)
AskedOK ==
  /\ pc \notin {"ready", "add"} =>
       /\ ScopeLits(Len(scopes)) \subseteq asked
       /\ op = "test" => asked = ScopeLits(Len(scopes))
       /\ op \in {"solve", "test"} => ToSet(assumes) \subseteq asked
  /\ pc \in Assuming \cup Searching => DecWithin(assumptLevel, asked)

(* A conflict: a falsified clause with a literal of the current level. *)
HasConflict(x) ==
  /\ x \in Clauses /\ Falsified(x)
  /\ \E k \in 1 .. Len(cls[x]) : levels[Var(cls[x][k])] = Level

(* Where a conflict may be left, and the one the next call learns from. *)
ConflictPlace ==
  /\ mode = "idle" /\ pc \in {"add", "cleanupProp", "scope", "assume", "assumeProp", "tested",
                              "lates", "search", "assert", "guess"} => px = CNull
  /\ mode = "idle" /\ px = CNull /\ pc \in {"assuming", "tested", "propagated", "guess"} =>
       head = Len(D)
  /\ pc \in {"add", "scope", "assume", "lates", "untested"} \cup Assuming \cup Searching =>
       sx = CNull
  /\ pc \in {"ready", "cleanup"} /\ mode = "idle" => (px = CNull <=> sx = CNull)
  /\ pc \in {"ready", "cleanup"} /\ sx # CNull => mode = "idle" /\ HasConflict(sx)
  /\ pc = "ready" /\ sx # CNull => unresolved # "none" \/ res = "panic"
  /\ pc \in Cleaning /\ (pc = "cleanup" => sx # CNull) => Satisfiable(formula)

(* The derived clause: all its literals but the first are false, at most   *)
(* at the target level.                                                    *)
UnitFirst ==
  LET ms == cls[drvd.P]
  IN  /\ drvd.P \in Clauses /\ ms # <<>> /\ ms[1] = drvd.Unit
      /\ drvd.TargetLevel \in Nat
      /\ \A k \in 2 .. Len(ms) : IsFalse(ms[k]) /\ levels[Var(ms[k])] <= drvd.TargetLevel

(* The first literal is false at the level of the conflict, and free when  *)
(* that level is undone; if it is a level of a test scope it stays false.  *)
DerivedPlace ==
  /\ pc \in {"backjump", "assert", "cleanupBack", "cleanupAssert"} => UnitFirst
  /\ pc \in {"backjump", "cleanupBack"} =>
       /\ mode = "idle" /\ px # CNull
       /\ IsFalse(drvd.Unit) /\ levels[Var(drvd.Unit)] = Level /\ drvd.TargetLevel < Level
  /\ pc = "backjump" => assumptLevel < Level
  /\ pc \in {"assert", "cleanupAssert"} /\ mode = "back" =>
       \/ IsFree(drvd.Unit) /\ levels[Var(drvd.Unit)] = -1
       \/ IsFalse(drvd.Unit) /\ levels[Var(drvd.Unit)] > trg
  /\ pc \in {"assert", "cleanupAssert"} /\ mode = "idle" =>
       \/ px = CNull /\ IsFree(drvd.Unit) /\ levels[Var(drvd.Unit)] = -1
       \/ /\ pc = "cleanupAssert" /\ px # CNull
          /\ drvd.TargetLevel < endTestLevel /\ Level = endTestLevel
          /\ IsFalse(drvd.Unit) /\ levels[Var(drvd.Unit)] = Level

Live ==
  /\ TrailSound
  /\ StateTypes /\ CallOK /\ LevelPlace /\ ScopesOK /\ AskedOK /\ ConflictPlace /\ DerivedPlace

(* With an empty clause nothing is decided any more: every call ends       *)
(* before it searches.                                                     *)
Dead ==
  /\ TrailEmpty /\ ~ Satisfiable(formula)
  /\ pc \in {"ready", "add", "cleanup", "scope", "assume", "lates", "untested"}
  /\ arg \in Seq(LitSet) /\ endTestLevel = 0 /\ testLevels \in Seq({0})

IInv == (Live \/ Dead) /\ UnsatIsUnsat /\ PanicIsUnsat /\ NoFatal

-----------------------------------------------------------------------------
(***************************************************************************)
(* Every step keeps the invariant.                                         *)
(***************************************************************************)

(* The scopes are kept by a step which leaves them alone and makes no      *)
(* decision at their levels. *)
LEMMA ScopesKept ==
  ASSUME ScopesOK, testLevels \in Seq(Nat), endTestLevel \in Nat,
         UNCHANGED <<scopes, testLevels, endTestLevel>>, ScopeClosed' <=> ScopeClosed,
         \A l \in 0 .. endTestLevel : \A S : DecWithin(l, S) => DecNext(l, S)
  PROVE  ScopesOK'
<1>1. \A k \in 1 .. Len(testLevels) : testLevels[k] \in 0 .. endTestLevel
  BY DEF ScopesOK
<1>2. endTestLevel \in 0 .. endTestLevel
  OBVIOUS
<1>3. \A k \in 1 .. Len(testLevels) : DecWithin(testLevels[k], ScopeLits(k - 1))'
  <2>1. \A k \in 1 .. Len(testLevels) : DecNext(testLevels[k], ScopeLits(k - 1))
    BY <1>1 DEF ScopesOK
  <2> QED BY <2>1 DEF DecWithin, DecNext, ScopeLits
<1>4. DecWithin(endTestLevel, ScopeLits(Len(testLevels)))'
  <2>1. DecNext(endTestLevel, ScopeLits(Len(testLevels)))
    BY <1>2 DEF ScopesOK
  <2> QED BY <2>1 DEF DecWithin, DecNext, ScopeLits
<1> QED BY <1>3, <1>4 DEF ScopesOK

(* What was asked is kept by a step which leaves it alone. *)
LEMMA AskedKept ==
  ASSUME AskedOK, UNCHANGED <<scopes, asked, op>>, ToSet(assumes') \subseteq ToSet(assumes),
         pc \notin {"ready", "add"},
         pc' \in Assuming \cup Searching => DecNext(assumptLevel', asked)
  PROVE  AskedOK'
<1>1. DecNext(assumptLevel', asked) => DecWithin(assumptLevel, asked)'
  BY DEF DecWithin, DecNext
<1> QED BY <1>1 DEF AskedOK, ScopeLits

(* What remains of a sequence has no other elements. *)
LEMMA TailFacts ==
  ASSUME NEW S, NEW s \in Seq(S), s # <<>>
  PROVE  /\ s[1] \in S /\ s[1] \in ToSet(s)
         /\ Tail(s) \in Seq(S) /\ ToSet(Tail(s)) \subseteq ToSet(s)
<1>1. Len(s) \in Nat /\ Len(s) # 0
  BY EmptySeq
<1>2. 1 \in 1 .. Len(s)
  BY <1>1
<1>3. /\ Tail(s) \in Seq(S) /\ Len(Tail(s)) = Len(s) - 1
      /\ \A k \in 1 .. (Len(s) - 1) : Tail(s)[k] = s[k + 1]
  OBVIOUS
<1>4. \A k \in 1 .. (Len(s) - 1) : k + 1 \in 1 .. Len(s)
  BY <1>1
<1> QED BY <1>2, <1>3, <1>4 DEF ToSet

(* Levels are numbers. *)
LEMMA LevelTypes ==
  ASSUME Live
  PROVE  /\ Level \in Nat /\ trg \in Nat /\ Len(D) \in Nat /\ endTestLevel \in Nat
         /\ assumptLevel \in Nat /\ testLevels \in Seq(Nat) /\ Len(testLevels) \in Nat
         /\ scopes \in Seq(Seq(LitSet)) /\ Len(scopes) \in Nat
         /\ TypeOK /\ TrailSound /\ ScopesOK /\ AskedOK
BY DEF Live, StateTypes, TrailSound, TrailInv, TrailCore, TypeOK

(* Prop is called. *)
LEMMA PropCallsLive ==
  ASSUME Live, CleanupProp \/ AssumeProp \/ SearchProp \/ UntestLates
  PROVE  Live'
<1>1. /\ mode = "idle" /\ StartProp
      /\ \/ pc = "cleanupProp" /\ pc' = "cleanupAgain"
         \/ pc = "assumeProp" /\ pc' = "assuming"
         \/ pc = "search" /\ pc' = "propagated"
         \/ pc = "lates" /\ pc' = "untested"
      /\ UNCHANGED <<op, arg, sx, testLevels, endTestLevel, assumes, assumptLevel, drvd, lvls,
                     res, unresolved, formula, scopes, asked>>
  BY DEF CleanupProp, AssumeProp, SearchProp, UntestLates, At, apiVars, histVars
<1>2. px = CNull
  BY <1>1 DEF Live, ConflictPlace
<1>3. /\ TrailSound' /\ UNCHANGED <<D, Level, vals, levels, reasons, cls, trg>>
      /\ mode' = "prop" /\ px' = CNull
      /\ \A l, S : DecWithin(l, S) => DecNext(l, S)
  BY <1>1, <1>2, PropStarts DEF Live
<1>4. StateTypes' /\ CallOK'
  BY <1>1, <1>3 DEF Live, StateTypes, CallOK, Cleaning, Assuming, Searching, Propping, Backing
<1>5. LevelPlace'
  BY <1>1, <1>3 DEF Live, LevelPlace, TopLevel, BackTarget, Assuming, Searching
<1>6. ConflictPlace' /\ DerivedPlace'
  BY <1>1, <1>3 DEF Live, ConflictPlace, DerivedPlace, Cleaning, Assuming, Searching
<1>7. ScopesOK'
  <2>1. ScopeClosed' <=> ScopeClosed
    BY <1>1 DEF ScopeClosed, Cleaning
  <2> QED BY <1>1, <1>3, <2>1, ScopesKept, LevelTypes
<1>8. AskedOK'
  <2>1. pc' \in Assuming \cup Searching => pc \in Assuming \cup Searching
    BY <1>1 DEF Assuming, Searching
  <2>2. pc' \in Assuming \cup Searching => DecNext(assumptLevel', asked)
    BY <1>1, <1>3, <2>1, LevelTypes DEF AskedOK
  <2> QED BY <1>1, <2>2, AskedKept, LevelTypes
<1> QED BY <1>3, <1>4, <1>5, <1>6, <1>7, <1>8 DEF Live

(* makeAssumptions begins: the level of the scopes is that of the first    *)
(* assumption.                                                             *)
LEMMA AssumeStartLive ==
  ASSUME Live, AssumeStart
  PROVE  Live'
<1>1. /\ mode = "idle" /\ StartProp /\ pc = "assume" /\ pc' = "assuming" /\ assumptLevel' = Level
      /\ UNCHANGED <<op, arg, sx, testLevels, endTestLevel, assumes, drvd, lvls,
                     res, unresolved, formula, scopes, asked>>
  BY DEF AssumeStart, At, apiVars, histVars
<1>2. px = CNull /\ Level = endTestLevel /\ op \in {"solve", "test"} /\ res = "none"
  BY <1>1 DEF Live, ConflictPlace, LevelPlace, TopLevel, CallOK
<1>3. /\ TrailSound' /\ UNCHANGED <<D, Level, vals, levels, reasons, cls, trg>>
      /\ mode' = "prop" /\ px' = CNull
      /\ \A l, S : DecWithin(l, S) => DecNext(l, S)
  BY <1>1, <1>2, PropStarts DEF Live
<1>4. StateTypes' /\ CallOK'
  BY <1>1, <1>3, LevelTypes
     DEF Live, StateTypes, CallOK, Cleaning, Assuming, Searching, Propping, Backing
<1>5. LevelPlace'
  BY <1>1, <1>2, <1>3, LevelTypes DEF LevelPlace, TopLevel, BackTarget, Assuming, Searching
<1>6. ConflictPlace' /\ DerivedPlace'
  BY <1>1, <1>3 DEF Live, ConflictPlace, DerivedPlace, Cleaning, Assuming, Searching
<1>7. ScopesOK'
  <2>1. ScopeClosed' <=> ScopeClosed
    BY <1>1 DEF ScopeClosed, Cleaning
  <2> QED BY <1>1, <1>3, <2>1, ScopesKept, LevelTypes
<1>8. AskedOK'
  <2>1. Len(scopes) = Len(testLevels)
    BY <1>1, <1>2, LevelTypes DEF ScopesOK, ScopeClosed, Cleaning
  <2>2. DecWithin(endTestLevel, asked)
    <3>1. DecWithin(endTestLevel, ScopeLits(Len(testLevels)))
      BY LevelTypes DEF ScopesOK
    <3>2. ScopeLits(Len(testLevels)) \subseteq asked
      BY <1>1, <2>1, LevelTypes DEF AskedOK
    <3> QED BY <3>1, <3>2 DEF DecWithin
  <2>3. DecNext(assumptLevel', asked)
    BY <1>1, <1>2, <1>3, <2>2
  <2> QED BY <1>1, <2>3, AskedKept, LevelTypes
<1> QED BY <1>3, <1>4, <1>5, <1>6, <1>7, <1>8 DEF Live

(* cleanupSolve is done: the levels above those of the scopes are undone. *)
LEMMA CleanupDoneLive ==
  ASSUME Live, CleanupDone
  PROVE  Live'
<1>1. /\ pc = "cleanup" /\ mode = "idle" /\ sx = CNull /\ StartBack(endTestLevel)
      /\ pc' = CASE op = "solve" -> "assume" [] op = "test" -> "scope" [] OTHER -> "lates"
      /\ UNCHANGED <<op, arg, sx, testLevels, endTestLevel, assumes, assumptLevel, drvd, lvls,
                     res, unresolved, formula, scopes, asked>>
  BY DEF CleanupDone, At, apiVars, histVars
<1>2. /\ px = CNull
      /\ \/ op = "solve" /\ pc' = "assume"
         \/ op = "test" /\ pc' = "scope"
         \/ op = "untest" /\ pc' = "lates"
  <2>1. px = CNull /\ op \in {"solve", "test", "untest"}
    BY <1>1 DEF Live, ConflictPlace, CallOK, Cleaning
  <2> QED BY <1>1, <2>1
<1>3. /\ TrailSound' /\ UNCHANGED <<D, Level, head, vals, levels, reasons, cls, px>>
      /\ Level <= endTestLevel => mode' = "idle" /\ trg' = trg
      /\ Level > endTestLevel => mode' = "back" /\ trg' = endTestLevel
      /\ \A l, S : DecWithin(l, S) => DecNext(l, S)
  BY <1>1, <1>2, BackStarts, LevelTypes
<1>4. StateTypes' /\ CallOK'
  BY <1>1, <1>2, <1>3, LevelTypes
     DEF Live, StateTypes, CallOK, Cleaning, Assuming, Searching, Propping, Backing
<1>5. LevelPlace'
  BY <1>1, <1>2, <1>3, LevelTypes
     DEF Live, LevelPlace, TopLevel, BackTarget, Assuming, Searching
<1>6. ConflictPlace' /\ DerivedPlace'
  BY <1>1, <1>2, <1>3 DEF Live, ConflictPlace, DerivedPlace, Cleaning, Assuming, Searching
<1>7. ScopesOK'
  <2>1. ScopeClosed' <=> ScopeClosed
    BY <1>1, <1>2 DEF ScopeClosed, Cleaning
  <2> QED BY <1>1, <1>3, <2>1, ScopesKept, LevelTypes
<1>8. AskedOK'
  BY <1>1, <1>2, AskedKept, LevelTypes DEF Assuming, Searching
<1> QED BY <1>3, <1>4, <1>5, <1>6, <1>7, <1>8 DEF Live

(* The levels of a conflict are undone, down to the target of the derived  *)
(* clause but not below the scopes.                                        *)
LEMMA CleanupBackLive ==
  ASSUME Live, CleanupBack
  PROVE  Live'
<1> DEFINE l == HigherOf(drvd.TargetLevel, endTestLevel)
<1>1. /\ pc = "cleanupBack" /\ mode = "idle" /\ StartBack(l) /\ pc' = "cleanupAssert"
      /\ UNCHANGED <<op, arg, sx, testLevels, endTestLevel, assumes, assumptLevel, drvd, lvls,
                     res, unresolved, formula, scopes, asked>>
  BY DEF CleanupBack, At, apiVars, histVars
<1>2. /\ drvd.TargetLevel \in Nat /\ l \in Nat /\ l >= endTestLevel
      /\ l = drvd.TargetLevel \/ (l = endTestLevel /\ drvd.TargetLevel < endTestLevel)
      /\ drvd.TargetLevel < Level /\ endTestLevel <= Level
  <2>1. drvd.TargetLevel \in Nat /\ drvd.TargetLevel < Level /\ endTestLevel <= Level
    BY <1>1 DEF Live, DerivedPlace, UnitFirst, LevelPlace, TopLevel
  <2> QED BY <2>1, LevelTypes DEF HigherOf
<1> HIDE DEF l
<1>3. /\ TrailSound' /\ UNCHANGED <<D, Level, head, vals, levels, reasons, cls, px>>
      /\ Level <= l => mode' = "idle" /\ trg' = trg
      /\ Level > l => mode' = "back" /\ trg' = l
      /\ \A k, S : DecWithin(k, S) => DecNext(k, S)
  BY <1>1, <1>2, BackStarts, LevelTypes
<1>4. StateTypes' /\ CallOK'
  BY <1>1, <1>2, <1>3, LevelTypes
     DEF Live, StateTypes, CallOK, Cleaning, Assuming, Searching, Propping, Backing
<1>5. LevelPlace'
  <2>1. BackTarget' = l
    BY <1>1 DEF BackTarget, l
  <2> QED BY <1>1, <1>2, <1>3, <2>1, LevelTypes DEF LevelPlace, TopLevel, Assuming, Searching
<1>6. ConflictPlace'
  BY <1>1, <1>3 DEF Live, ConflictPlace, Cleaning, Assuming, Searching
<1>7. DerivedPlace'
  <2>1. UnitFirst'
    <3>1. UnitFirst
      BY <1>1 DEF Live, DerivedPlace
    <3> QED BY <1>1, <1>3, <3>1 DEF UnitFirst, Clauses, IsFalse
  <2>2. px # CNull /\ IsFalse(drvd.Unit) /\ levels[Var(drvd.Unit)] = Level
    BY <1>1 DEF Live, DerivedPlace
  <2> QED BY <1>1, <1>2, <1>3, <2>1, <2>2, LevelTypes DEF DerivedPlace, IsFalse, IsFree
<1>8. ScopesOK'
  <2>1. ScopeClosed' <=> ScopeClosed
    BY <1>1 DEF ScopeClosed, Cleaning
  <2> QED BY <1>1, <1>3, <2>1, ScopesKept, LevelTypes
<1>9. AskedOK'
  BY <1>1, AskedKept, LevelTypes DEF Assuming, Searching
<1> QED BY <1>3, <1>4, <1>5, <1>6, <1>7, <1>8, <1>9 DEF Live

(* The same in the search of Solve, which keeps the assumptions. *)
LEMMA BackjumpLive ==
  ASSUME Live, Backjump
  PROVE  Live'
<1> DEFINE l == HigherOf(drvd.TargetLevel, assumptLevel)
<1>1. /\ pc = "backjump" /\ mode = "idle" /\ StartBack(l) /\ pc' = "assert"
      /\ UNCHANGED <<op, arg, sx, testLevels, endTestLevel, assumes, assumptLevel, drvd, lvls,
                     res, unresolved, formula, scopes, asked>>
  BY DEF Backjump, At, apiVars, histVars
<1>2. l \in Nat /\ l >= assumptLevel /\ l >= drvd.TargetLevel /\ l < Level
      /\ drvd.TargetLevel \in Nat
  <2>1. drvd.TargetLevel \in Nat /\ drvd.TargetLevel < Level /\ assumptLevel < Level
    BY <1>1 DEF Live, DerivedPlace, UnitFirst
  <2> QED BY <2>1, LevelTypes DEF HigherOf
<1> HIDE DEF l
<1>3. /\ TrailSound' /\ UNCHANGED <<D, Level, head, vals, levels, reasons, cls, px>>
      /\ Level > l => mode' = "back" /\ trg' = l
      /\ \A k, S : DecWithin(k, S) => DecNext(k, S)
  BY <1>1, <1>2, BackStarts, LevelTypes
<1>4. mode' = "back" /\ trg' = l
  BY <1>2, <1>3, LevelTypes
<1>5. StateTypes' /\ CallOK'
  BY <1>1, <1>3, <1>4, LevelTypes
     DEF Live, StateTypes, CallOK, Cleaning, Assuming, Searching, Propping, Backing
<1>6. LevelPlace'
  <2>1. BackTarget' = l
    BY <1>1 DEF BackTarget, l
  <2> QED BY <1>1, <1>2, <1>3, <1>4, <2>1, LevelTypes
          DEF Live, LevelPlace, TopLevel, Assuming, Searching
<1>7. ConflictPlace'
  BY <1>1, <1>3, <1>4 DEF Live, ConflictPlace, Cleaning, Assuming, Searching
<1>8. DerivedPlace'
  <2>1. UnitFirst'
    <3>1. UnitFirst
      BY <1>1 DEF Live, DerivedPlace
    <3> QED BY <1>1, <1>3, <3>1 DEF UnitFirst, Clauses, IsFalse
  <2>2. IsFalse(drvd.Unit) /\ levels[Var(drvd.Unit)] = Level
    BY <1>1 DEF Live, DerivedPlace
  <2> QED BY <1>1, <1>2, <1>3, <1>4, <2>1, <2>2, LevelTypes DEF DerivedPlace, IsFalse, IsFree
<1>9. ScopesOK'
  <2>1. ScopeClosed' <=> ScopeClosed
    BY <1>1 DEF ScopeClosed, Cleaning
  <2> QED BY <1>1, <1>3, <2>1, ScopesKept, LevelTypes
<1>10. AskedOK'
  <2>1. DecNext(assumptLevel', asked)
    BY <1>1, <1>3, LevelTypes DEF AskedOK, Searching
  <2> QED BY <1>1, <2>1, AskedKept, LevelTypes
<1> QED BY <1>3, <1>5, <1>6, <1>7, <1>8, <1>9, <1>10 DEF Live

(* Derive is called with a conflict above level 0. *)
LEMMA DeriveConflict ==
  ASSUME Live, CleanupDerive \/ SearchDerive
  PROVE  LET x == IF pc = "cleanup" THEN sx ELSE px
         IN  IsConflict(x) /\ LearnFrom(x) /\ px # CNull /\ mode = "idle"
<1>1. PICK x : /\ mode = "idle" /\ LearnFrom(x) /\ x = IF pc = "cleanup" THEN sx ELSE px
               /\ \/ pc = "cleanup" /\ x = sx /\ sx # CNull
                  \/ pc = "propagated" /\ x = px /\ px # CNull /\ Level > assumptLevel
  BY DEF CleanupDerive, SearchDerive, At
<1>2. px # CNull /\ IsConflict(x)
  <2>1. CASE pc = "cleanup"
    <3>1. px # CNull /\ HasConflict(sx) /\ Satisfiable(formula) /\ x = sx
      BY <1>1, <2>1 DEF Live, ConflictPlace, Cleaning
    <3>2. Level # 0
      BY <3>1, ConflictAtZero, LevelTypes DEF HasConflict
    <3> QED BY <3>1, <3>2, LevelTypes DEF HasConflict, IsConflict
  <2>2. CASE pc = "propagated"
    <3>1. px \in Clauses /\ Falsified(px) /\ \E k \in 1 .. Len(cls[px]) : levels[Var(cls[px][k])] = Level
      BY <1>1, <2>2, LevelTypes
         DEF TypeOK, TrailSound, TrailInv, TrailCore, ConflictFalsified
    <3>2. Level > 0
      BY <1>1, <2>2, LevelTypes
    <3> QED BY <1>1, <2>2, <3>1, <3>2 DEF IsConflict
  <2> QED BY <1>1, <2>1, <2>2
<1> QED BY <1>1, <1>2

(* A clause is learned from the conflict. *)
LEMMA DeriveLive ==
  ASSUME Live, CleanupDerive \/ SearchDerive
  PROVE  Live'
<1>1. PICK x : /\ mode = "idle" /\ LearnFrom(x)
               /\ \/ pc = "cleanup" /\ pc' = "cleanupBack" /\ x = sx /\ sx # CNull
                  \/ pc = "propagated" /\ pc' = "backjump" /\ x = px /\ px # CNull /\ Level > assumptLevel
               /\ UNCHANGED <<op, arg, sx, testLevels, endTestLevel, assumes, assumptLevel,
                              res, unresolved, formula, scopes, asked>>
  BY DEF CleanupDerive, SearchDerive, At, apiVars, histVars
<1>2. px # CNull /\ IsConflict(x)
  BY <1>1, DeriveConflict
<1>3. lvls \subseteq Nat
  BY DEF Live, StateTypes
<1>4. /\ TrailSound' /\ DerivedFrom /\ lvls' \subseteq Nat
      /\ UNCHANGED <<D, Level, head, vals, levels, reasons, mode, px, trg>>
      /\ \A c \in Clauses : c \in Clauses' /\ cls'[c] = cls[c]
      /\ \A l, S : DecWithin(l, S) => DecNext(l, S)
  BY <1>1, <1>2, <1>3, LearnStep, LevelTypes
<1>5. StateTypes'
  BY <1>1, <1>4 DEF Live, StateTypes, Cleaning, Searching
<1>6. CallOK'
  BY <1>1, <1>4 DEF Live, CallOK, Cleaning, Assuming, Searching, Propping, Backing
<1>7. LevelPlace'
  BY <1>1, <1>4 DEF Live, LevelPlace, TopLevel, Assuming, Searching
<1>8. ConflictPlace'
  BY <1>1, <1>4 DEF Live, ConflictPlace, Cleaning, Assuming, Searching
<1>9. DerivedPlace'
  <2>1. UnitFirst'
    BY <1>4, Zenon DEF UnitFirst, DerivedFrom, IsFalse
  <2>2. IsFalse(drvd.Unit)' /\ levels'[Var(drvd'.Unit)] = Level' /\ drvd'.TargetLevel < Level'
    BY <1>4, Zenon DEF DerivedFrom, IsFalse
  <2> QED BY <1>1, <1>2, <1>4, <2>1, <2>2 DEF DerivedPlace
<1>10. ScopesOK'
  <2>1. ScopeClosed' <=> ScopeClosed
    BY <1>1 DEF ScopeClosed, Cleaning
  <2> QED BY <1>1, <1>4, <2>1, ScopesKept, LevelTypes
<1>11. AskedOK'
  <2>1. pc' = "backjump" => DecNext(assumptLevel', asked)
    BY <1>1, <1>4, LevelTypes DEF AskedOK, Searching
  <2> QED BY <1>1, <2>1, AskedKept, LevelTypes DEF Assuming, Searching
<1> QED BY <1>4, <1>5, <1>6, <1>7, <1>8, <1>9, <1>10, <1>11 DEF Live

(* The derived clause asserts its unit. *)
LEMMA AssertLive ==
  ASSUME Live, CleanupAssert \/ SearchAssert
  PROVE  Live'
<1>1. /\ mode = "idle" /\ AssertDerived
      /\ \/ pc = "cleanupAssert" /\ pc' = "cleanupProp" /\ ~ CleanupStuck
         \/ pc = "assert" /\ pc' = "search"
      /\ UNCHANGED <<op, arg, sx, testLevels, endTestLevel, assumes, assumptLevel, drvd, lvls,
                     res, unresolved, formula, scopes, asked>>
  BY DEF CleanupAssert, SearchAssert, At, apiVars, histVars
<1>2. UnitFirst /\ px = CNull /\ IsFree(drvd.Unit)
  <2>1. UnitFirst
    BY <1>1 DEF Live, DerivedPlace
  <2>2. ~ (/\ pc = "cleanupAssert" /\ drvd.TargetLevel < endTestLevel
           /\ levels[Var(drvd.Unit)] = Level)
    BY <1>1, LevelTypes DEF CleanupStuck
  <2> QED BY <1>1, <2>1, <2>2 DEF Live, DerivedPlace
<1> DEFINE c == drvd.P
           m == drvd.Unit
<1>3. /\ c \in Clauses /\ cls[c] # <<>> /\ cls[c][1] = m /\ IsFree(m)
      /\ \A k \in 2 .. Len(cls[c]) : IsFalse(cls[c][k])
  BY <1>2 DEF UnitFirst
<1>4. Assign(m, c) /\ UNCHANGED <<head, clauseVars, heap, loopVars>>
  BY <1>1 DEF AssertDerived
<1> HIDE DEF c, m
<1>5. /\ TrailSound' /\ UNCHANGED <<Level, cls, added, mode, px, trg>>
      /\ \A l, S : DecWithin(l, S) => DecNext(l, S)
  BY <1>1, <1>2, <1>3, <1>4, AssertStep, LevelTypes
<1>6. StateTypes' /\ CallOK'
  BY <1>1, <1>5 DEF Live, StateTypes, CallOK, Cleaning, Assuming, Searching, Propping, Backing
<1>7. LevelPlace'
  BY <1>1, <1>5 DEF Live, LevelPlace, TopLevel, Assuming, Searching
<1>8. ConflictPlace' /\ DerivedPlace'
  BY <1>1, <1>2, <1>5 DEF Live, ConflictPlace, DerivedPlace, Cleaning, Assuming, Searching
<1>9. ScopesOK'
  <2>1. ScopeClosed' <=> ScopeClosed
    BY <1>1 DEF ScopeClosed, Cleaning
  <2> QED BY <1>1, <1>5, <2>1, ScopesKept, LevelTypes
<1>10. AskedOK'
  <2>1. pc' = "search" => DecNext(assumptLevel', asked)
    BY <1>1, <1>5, LevelTypes DEF AskedOK, Searching
  <2> QED BY <1>1, <2>1, AskedKept, LevelTypes DEF Assuming, Searching
<1> QED BY <1>5, <1>6, <1>7, <1>8, <1>9, <1>10 DEF Live

(* What Prop returned is the conflict to learn from next. *)
LEMMA PropConflict ==
  ASSUME TrailInv, mode = "idle", px # CNull
  PROVE  HasConflict(px)
BY DEF HasConflict, TrailInv, TrailCore, TypeOK, ConflictFalsified

(* Steps which leave the trail alone. *)
LEMMA QuietStepsLive ==
  ASSUME Live, CleanupAgain \/ AssumeTrue \/ Assumed
  PROVE  Live'
<1>1. /\ mode = "idle" /\ UNCHANGED trailVars
      /\ \/ pc = "cleanupAgain" /\ pc' = "cleanup" /\ sx' = px /\ assumes' = assumes
         \/ /\ pc = "assuming" /\ pc' = "assuming" /\ px = CNull /\ sx' = sx
            /\ assumes # <<>> /\ assumes' = Tail(assumes)
         \/ /\ pc = "assuming" /\ px = CNull /\ sx' = sx /\ assumes' = assumes
            /\ pc' = IF op = "solve" THEN "search" ELSE "tested"
      /\ UNCHANGED <<op, arg, testLevels, endTestLevel, assumptLevel, drvd, lvls,
                     res, unresolved, formula, scopes, asked>>
  BY DEF CleanupAgain, AssumeTrue, Assumed, At, apiVars, histVars
<1>2. pc = "assuming" => op \in {"solve", "test"}
  BY DEF Live, CallOK
<1>3. /\ TrailSound' /\ UNCHANGED <<D, Level, head, vals, levels, reasons, cls, trg, mode, px>>
      /\ \A l, S : DecWithin(l, S) => DecNext(l, S)
  BY <1>1, TrailFrame, LevelTypes DEF trailVars
<1>4. assumes' \in Seq(LitSet) /\ ToSet(assumes') \subseteq ToSet(assumes)
  <2>1. assumes \in Seq(LitSet)
    BY DEF Live, StateTypes
  <2> QED BY <1>1, <2>1, TailFacts
<1>5. StateTypes' /\ CallOK'
  BY <1>1, <1>2, <1>3, <1>4
     DEF Live, StateTypes, CallOK, Cleaning, Assuming, Searching, Propping, Backing
<1>6. LevelPlace'
  BY <1>1, <1>2, <1>3, LevelTypes DEF Live, LevelPlace, TopLevel, Assuming, Searching
<1>7. ConflictPlace'
  <2>1. px # CNull => HasConflict(px)
    BY <1>1, PropConflict, LevelTypes DEF TrailSound
  <2>2. px # CNull => HasConflict(px)'
    BY <1>3, <2>1 DEF HasConflict, Falsified, Clauses, IsFalse
  <2>3. CASE pc' = "cleanup"
    BY <1>1, <1>3, <2>2, <2>3 DEF Live, ConflictPlace, Cleaning, Assuming, Searching
  <2>4. CASE pc' # "cleanup"
    BY <1>1, <1>2, <1>3, <2>4 DEF Live, ConflictPlace, Cleaning, Assuming, Searching
  <2> QED BY <2>3, <2>4
<1>8. DerivedPlace'
  BY <1>1, <1>2 DEF DerivedPlace
<1>9. ScopesOK'
  <2>1. ScopeClosed' <=> ScopeClosed
    BY <1>1, <1>2 DEF ScopeClosed, Cleaning
  <2> QED BY <1>1, <1>3, <2>1, ScopesKept, LevelTypes
<1>10. AskedOK'
  <2>1. pc = "assuming" => DecNext(assumptLevel', asked)
    BY <1>1, <1>3, LevelTypes DEF AskedOK, Assuming
  <2> QED BY <1>1, <1>4, <2>1, AskedKept, LevelTypes DEF Assuming, Searching
<1> QED BY <1>3, <1>5, <1>6, <1>7, <1>8, <1>9, <1>10 DEF Live

(* More assumptions hold the decisions of more scopes. *)
LEMMA ScopeLitsGrow ==
  ASSUME NEW n \in Nat, NEW k \in 0 .. n
  PROVE  /\ ScopeLits(k) \subseteq ScopeLits(n)
         /\ \A l : DecWithin(l, ScopeLits(k)) => DecWithin(l, ScopeLits(n))
<1>1. \A i \in 1 .. k : i \in 1 .. n
  OBVIOUS
<1>2. ScopeLits(k) \subseteq ScopeLits(n)
  BY <1>1 DEF ScopeLits
<1> QED BY <1>2 DEF DecWithin

(* Test opens its scope. *)
LEMMA OpenScopeLive ==
  ASSUME Live, OpenScope
  PROVE  Live'
<1>1. /\ mode = "idle" /\ UNCHANGED trailVars
      /\ pc = "scope" /\ pc' = "assume" /\ testLevels' = Append(testLevels, Level)
      /\ UNCHANGED <<op, arg, sx, endTestLevel, assumptLevel, assumes, drvd, lvls,
                     res, unresolved, formula, scopes, asked>>
  BY DEF OpenScope, At, histVars
<1>2. op = "test" /\ res = "none" /\ Level = endTestLevel
  BY <1>1 DEF Live, CallOK, LevelPlace, TopLevel
<1>3. /\ TrailSound' /\ UNCHANGED <<D, Level, head, vals, levels, reasons, cls, trg, mode, px>>
      /\ \A l, S : DecWithin(l, S) => DecNext(l, S)
  BY <1>1, TrailFrame, LevelTypes DEF trailVars
<1> DEFINE n == Len(testLevels)
<1>4. /\ n \in Nat /\ testLevels' \in Seq(Nat) /\ Len(testLevels') = n + 1 /\ testLevels' # <<>>
      /\ testLevels'[n + 1] = endTestLevel
      /\ \A k \in 1 .. n : testLevels'[k] = testLevels[k]
  BY <1>1, <1>2, LevelTypes, SMTT(40)
<1> HIDE DEF n
<1>5. StateTypes' /\ CallOK'
  BY <1>1, <1>2, <1>3, <1>4
     DEF Live, StateTypes, CallOK, Cleaning, Assuming, Searching, Propping, Backing
<1>6. LevelPlace'
  BY <1>1, <1>3 DEF Live, LevelPlace, TopLevel, BackTarget, Assuming, Searching
<1>7. ConflictPlace' /\ DerivedPlace'
  BY <1>1, <1>3 DEF Live, ConflictPlace, DerivedPlace, Cleaning, Assuming, Searching
<1>8. Len(scopes) = n + 1 /\ ~ ScopeClosed'
  BY <1>1, <1>2, LevelTypes DEF ScopesOK, ScopeClosed, Cleaning, n
<1>9. \A k \in 1 .. (n + 1) : k = n + 1 \/ k \in 1 .. n
  BY <1>4
<1>10. ScopesOK'
  <2>1. \A k \in 1 .. n : /\ testLevels[k] <= endTestLevel
                          /\ DecNext(testLevels[k], ScopeLits(k - 1))
    BY <1>3, LevelTypes DEF ScopesOK, n
  <2>2. DecWithin(endTestLevel, ScopeLits(n)) /\ DecNext(endTestLevel, ScopeLits(n))
    BY <1>3, LevelTypes DEF ScopesOK, n
  <2>3. DecNext(endTestLevel, ScopeLits(n + 1))
    <3>1. n + 1 \in Nat /\ n \in 0 .. (n + 1)
      BY <1>4
    <3> QED BY <1>3, <2>2, <3>1, ScopeLitsGrow
  <2>4. \A k \in 1 .. (n + 1) : testLevels'[k] <= endTestLevel
    <3>1. \A k \in 1 .. n : testLevels'[k] <= endTestLevel
      BY <1>4, <2>1
    <3>2. testLevels'[n + 1] <= endTestLevel
      BY <1>4, LevelTypes
    <3> QED BY <1>9, <3>1, <3>2
  <2>5. \A j, k \in 1 .. (n + 1) : j <= k => testLevels'[j] <= testLevels'[k]
    <3>1. \A j, k \in 1 .. n : j <= k => testLevels[j] <= testLevels[k]
      BY LevelTypes DEF ScopesOK, n
    <3>2. \A k \in 1 .. n : ~ (n + 1 <= k)
      BY <1>4
    <3> QED BY <1>4, <1>9, <2>4, <3>1, <3>2, LevelTypes
  <2>6. testLevels'[1] = 0
    <3>1. CASE testLevels = <<>>
      BY <1>4, <3>1, LevelTypes DEF ScopesOK, n
    <3>2. CASE testLevels # <<>>
      <4>1. n # 0 /\ testLevels[1] = 0
        BY <3>2, EmptySeq, LevelTypes DEF ScopesOK, n
      <4>2. 1 \in 1 .. n
        BY <1>4, <4>1
      <4> QED BY <1>4, <4>1, <4>2
    <3> QED BY <3>1, <3>2
  <2>7. \A k \in 1 .. (n + 1) : DecNext(testLevels'[k], ScopeLits(k - 1))
    <3>1. (n + 1) - 1 = n
      BY <1>4
    <3>2. ASSUME NEW k \in 1 .. n PROVE DecNext(testLevels'[k], ScopeLits(k - 1))
      <4>1. testLevels'[k] = testLevels[k]
        BY <1>4
      <4> QED BY <2>1, <4>1
    <3>3. DecNext(testLevels'[n + 1], ScopeLits((n + 1) - 1))
      BY <1>4, <2>2, <3>1
    <3> QED BY <1>9, <3>2, <3>3
  <2>8. \A k \in 1 .. Len(testLevels') : DecWithin(testLevels[k], ScopeLits(k - 1))'
    BY <1>1, <1>4, <2>7, SMTT(40) DEF DecWithin, DecNext, ScopeLits
  <2>9. DecWithin(endTestLevel, ScopeLits(Len(testLevels)))'
    BY <1>1, <1>4, <2>3 DEF DecWithin, DecNext, ScopeLits
  <2>10. Len(scopes') = Len(testLevels') + (IF ScopeClosed' THEN 1 ELSE 0)
    BY <1>1, <1>4, <1>8
  <2> QED BY <1>1, <1>4, <2>4, <2>5, <2>6, <2>8, <2>9, <2>10 DEF ScopesOK
<1>11. AskedOK'
  BY <1>1, AskedKept, LevelTypes DEF Assuming, Searching
<1> QED BY <1>3, <1>5, <1>6, <1>7, <1>10, <1>11 DEF Live

(* A call returns and leaves the trail as it is. *)
LEMMA ReturnsLive ==
  ASSUME Live,
         CleanupFail \/ AssumeConflict \/ AssumeFalse \/ Untested \/ SearchUnsat \/ SearchDeadline
  PROVE  Live'
<1>1. /\ mode = "idle" /\ UNCHANGED trailVars /\ pc' = "ready"
      /\ \/ pc = "cleanupAssert" /\ CleanupStuck /\ sx' = drvd.P
         \/ pc = "assuming" /\ px # CNull /\ sx' = px
         \/ pc = "assuming" /\ px = CNull /\ sx' = sx
         \/ pc = "untested" /\ sx' = px
         \/ pc = "propagated" /\ px # CNull /\ sx' = px
         \/ pc = "propagated" /\ px = CNull /\ sx' = sx
      /\ IF pc = "cleanupAssert" THEN Return(IF op = "test" THEN "panic" ELSE "unsat")
         ELSE IF px # CNull THEN Return("unsat") ELSE Return("unsat") \/ Return("unknown")
      /\ assumes' = <<>> \/ assumes' = assumes
      /\ assumptLevel' = 0 \/ assumptLevel' = assumptLevel
      /\ UNCHANGED <<op, arg, testLevels, endTestLevel, lvls, formula, scopes, asked>>
  BY DEF CleanupFail, AssumeConflict, AssumeFalse, Untested, SearchUnsat, SearchDeadline, At,
         AssumeFail, SolveReturn, Return, apiVars, histVars
<1>2. /\ res' \in {"unsat", "panic", "unknown"}
      /\ res' = "panic" <=> pc = "cleanupAssert" /\ op = "test"
      /\ px # CNull \/ pc = "cleanupAssert" => unresolved' # "none" \/ res' = "panic"
  BY <1>1 DEF Return
<1>3. /\ TrailSound' /\ UNCHANGED <<D, Level, head, vals, levels, reasons, cls, trg, mode, px>>
      /\ \A l, S : DecWithin(l, S) => DecNext(l, S)
  BY <1>1, TrailFrame, LevelTypes DEF trailVars
<1>4. \/ px = CNull /\ sx' = CNull
      \/ /\ px # CNull /\ sx' # CNull /\ HasConflict(sx')
         /\ unresolved' # "none" \/ res' = "panic"
  <2>1. CASE pc = "cleanupAssert"
    <3>1. sx' = drvd.P /\ px # CNull /\ UnitFirst /\ IsFalse(drvd.Unit) /\ levels[Var(drvd.Unit)] = Level
      BY <1>1, <2>1 DEF Live, DerivedPlace, CleanupStuck
    <3> DEFINE c == drvd.P
               N == Len(cls[c])
    <3>2. c \in Clauses /\ cls[c] # <<>> /\ cls \in Seq(Seq(LitSet))
      BY <3>1, LevelTypes DEF UnitFirst, TypeOK
    <3>3. N \in Nat /\ N # 0
      BY <3>2, ClauseLits, EmptySeq DEF Clauses
    <3>4. \A k \in 2 .. N : IsFalse(cls[c][k])
      BY <3>1 DEF UnitFirst
    <3>5. IsFalse(cls[c][1]) /\ levels[Var(cls[c][1])] = Level
      BY <3>1 DEF UnitFirst
    <3>6. 1 \in 1 .. N /\ \A k \in 1 .. N : k = 1 \/ k \in 2 .. N
      BY <3>3
    <3>7. HasConflict(c) /\ c # CNull
      BY <3>2, <3>4, <3>5, <3>6 DEF HasConflict, Falsified, Clauses, CNull
    <3> QED BY <1>2, <2>1, <3>1, <3>7
  <2>2. CASE pc # "cleanupAssert"
    <3>1. px # CNull => HasConflict(px)
      BY <1>1, PropConflict, LevelTypes DEF TrailSound
    <3>2. sx = CNull
      BY <1>1, <2>2 DEF Live, ConflictPlace, Assuming, Searching
    <3> QED BY <1>1, <1>2, <2>2, <3>1, <3>2
  <2> QED BY <2>1, <2>2
<1>5. StateTypes'
  <2>1. assumes' \in Seq(LitSet) /\ assumptLevel' \in Nat
    <3>1. /\ assumes \in Seq(LitSet) /\ <<>> \in Seq(LitSet)
          /\ assumptLevel \in Nat /\ 0 \in Nat
      BY DEF Live, StateTypes
    <3>2. /\ assumes' = <<>> \/ assumes' = assumes
          /\ assumptLevel' = 0 \/ assumptLevel' = assumptLevel
      BY <1>1, Zenon
    <3> QED BY <3>1, <3>2, Zenon
  <2> QED BY <1>1, <2>1 DEF Live, StateTypes
<1>6. CallOK'
  BY <1>1, <1>3 DEF CallOK, Cleaning, Assuming, Searching, Propping, Backing
<1>7. LevelPlace'
  BY <1>1, <1>3 DEF Live, LevelPlace, TopLevel, Assuming, Searching
<1>8. ConflictPlace'
  <2>1. HasConflict(sx') => HasConflict(sx)'
    BY <1>3 DEF HasConflict, Falsified, Clauses, IsFalse
  <2> QED BY <1>1, <1>3, <1>4, <2>1 DEF ConflictPlace, Cleaning, Assuming, Searching
<1>9. DerivedPlace'
  BY <1>1 DEF DerivedPlace
<1>10. ScopesOK'
  <2>1. ScopeClosed' <=> ScopeClosed
    <3>1. res = "none"
      BY <1>1 DEF Live, CallOK
    <3> QED BY <1>1, <1>2, <3>1 DEF ScopeClosed, Cleaning
  <2> QED BY <1>1, <1>3, <2>1, ScopesKept, LevelTypes
<1>11. AskedOK'
  BY <1>1 DEF AskedOK, Assuming, Searching
<1> QED BY <1>3, <1>5, <1>6, <1>7, <1>8, <1>9, <1>10, <1>11 DEF Live

(* An assumption without value opens a level. *)
LEMMA AssumeNextLive ==
  ASSUME Live, AssumeNext
  PROVE  Live'
<1> DEFINE m == assumes[1]
<1>1. /\ mode = "idle" /\ pc = "assuming" /\ pc' = "assumeProp" /\ px = CNull
      /\ assumes # <<>> /\ IsFree(m) /\ Assign(m, CNull) /\ assumes' = Tail(assumes)
      /\ assumptLevel' = assumptLevel + 1
      /\ UNCHANGED <<head, clauseVars, heap, loopVars>>
      /\ UNCHANGED <<op, arg, sx, testLevels, endTestLevel, drvd, lvls,
                     res, unresolved, formula, scopes, asked>>
  BY DEF AssumeNext, At, apiVars, histVars
<1> HIDE DEF m
<1>2. /\ head = Len(D) /\ Level = assumptLevel /\ endTestLevel <= Level
      /\ op \in {"solve", "test"} /\ assumes \in Seq(LitSet)
  BY <1>1 DEF Live, ConflictPlace, LevelPlace, CallOK, StateTypes, Assuming
<1>3. m \in LitSet /\ m \in ToSet(assumes)
  BY <1>1, <1>2, TailFacts DEF m
<1>4. heap' \subseteq heap /\ \A v \in heap \ heap' : v = Var(m) \/ ~ IsFree(Pos(v))
  BY <1>1
<1>5. /\ TrailSound' /\ Level' = Level + 1 /\ UNCHANGED <<cls, added, mode, px, trg>>
      /\ \A l \in 0 .. Level : \A S : DecWithin(l, S) => DecNext(l, S)
      /\ \A S : DecWithin(Level, S) /\ m \in S => DecNext(Level', S)
  BY <1>1, <1>2, <1>3, <1>4, DecideStep, LevelTypes
<1>6. assumes' \in Seq(LitSet) /\ ToSet(assumes') \subseteq ToSet(assumes)
  BY <1>1, <1>2, TailFacts
<1>7. StateTypes' /\ CallOK'
  BY <1>1, <1>5, <1>6, LevelTypes
     DEF Live, StateTypes, CallOK, Cleaning, Assuming, Searching, Propping, Backing
<1>8. LevelPlace'
  BY <1>1, <1>2, <1>5, LevelTypes DEF Live, LevelPlace, TopLevel, Assuming, Searching
<1>9. ConflictPlace' /\ DerivedPlace'
  BY <1>1, <1>5 DEF Live, ConflictPlace, DerivedPlace, Cleaning, Assuming, Searching
<1>10. ScopesOK'
  <2>1. ScopeClosed' <=> ScopeClosed
    BY <1>1 DEF ScopeClosed, Cleaning
  <2>2. \A l \in 0 .. endTestLevel : l \in 0 .. Level
    BY <1>2, LevelTypes
  <2> QED BY <1>1, <1>5, <2>1, <2>2, ScopesKept, LevelTypes
<1>11. AskedOK'
  <2>1. DecWithin(Level, asked) /\ m \in asked
    BY <1>1, <1>2, <1>3, LevelTypes DEF AskedOK, Assuming
  <2>2. assumptLevel' = Level'
    BY <1>1, <1>2, <1>5
  <2>3. DecNext(assumptLevel', asked)
    BY <1>5, <2>1, <2>2
  <2> QED BY <1>1, <1>6, <2>3, AskedKept, LevelTypes
<1> QED BY <1>5, <1>7, <1>8, <1>9, <1>10, <1>11 DEF Live

(* A variable is guessed. *)
LEMMA SearchGuessLive ==
  ASSUME Live, SearchGuess
  PROVE  Live'
<1>1. PICK v \in heap, popped \in SUBSET {u \in heap : ~ IsFree(Pos(u))} :
        /\ IsFree(Pos(v)) /\ heap' = heap \ (popped \cup {v})
        /\ \E m \in {Pos(v), Not(Pos(v))} : Assign(m, CNull)
  BY DEF SearchGuess
<1>2. PICK m \in {Pos(v), Not(Pos(v))} : Assign(m, CNull)
  BY <1>1
<1>3. /\ mode = "idle" /\ pc \in {"propagated", "guess"} /\ pc' = "search"
      /\ pc = "propagated" => px = CNull
      /\ UNCHANGED <<head, clauseVars, loopVars>>
      /\ UNCHANGED <<op, arg, sx, testLevels, endTestLevel, assumes, assumptLevel, drvd, lvls,
                     res, unresolved, formula, scopes, asked>>
  BY DEF SearchGuess, Guessing, At, apiVars, histVars
<1>4. /\ px = CNull /\ head = Len(D) /\ endTestLevel <= assumptLevel /\ assumptLevel <= Level
      /\ op = "solve"
  BY <1>3 DEF Live, ConflictPlace, LevelPlace, TopLevel, CallOK, Searching
<1>5. /\ TrailSound' /\ Level' = Level + 1 /\ UNCHANGED <<cls, added, mode, px, trg>>
      /\ \A l \in 0 .. Level : \A S : DecWithin(l, S) => DecNext(l, S)
  BY <1>1, <1>2, <1>3, <1>4, GuessStep, LevelTypes
<1>6. StateTypes' /\ CallOK'
  BY <1>3, <1>4, <1>5
     DEF Live, StateTypes, CallOK, Cleaning, Assuming, Searching, Propping, Backing
<1>7. LevelPlace'
  BY <1>3, <1>4, <1>5, LevelTypes DEF Live, LevelPlace, TopLevel, Assuming, Searching
<1>8. ConflictPlace' /\ DerivedPlace'
  BY <1>3, <1>4, <1>5 DEF Live, ConflictPlace, DerivedPlace, Cleaning, Assuming, Searching
<1>9. ScopesOK'
  <2>1. ScopeClosed' <=> ScopeClosed
    BY <1>3, <1>4 DEF ScopeClosed, Cleaning
  <2>2. \A l \in 0 .. endTestLevel : l \in 0 .. Level
    BY <1>4, LevelTypes
  <2> QED BY <1>3, <1>5, <2>1, <2>2, ScopesKept, LevelTypes
<1>10. AskedOK'
  <2>1. DecWithin(assumptLevel, asked) /\ assumptLevel \in 0 .. Level
    BY <1>3, <1>4, LevelTypes DEF AskedOK, Searching
  <2>2. DecNext(assumptLevel', asked)
    BY <1>3, <1>5, <2>1
  <2> QED BY <1>3, <2>2, AskedKept, LevelTypes
<1> QED BY <1>5, <1>6, <1>7, <1>8, <1>9, <1>10 DEF Live

(* Nothing is left to guess: Solve answers 1, CheckModel agreeing. *)
LEMMA SearchModelLive ==
  ASSUME Live, SearchModel
  PROVE  Live' /\ res' = "sat"
<1>1. /\ mode = "idle" /\ pc \in {"propagated", "guess"} /\ pc' = "ready"
      /\ pc = "propagated" => px = CNull
      /\ ~ HeapHasFree /\ heap' = {} /\ UNCHANGED <<assignVars, head, clauseVars, loopVars>>
      /\ res' = (IF CheckModel THEN "sat" ELSE "fatal")
      /\ assumes' = <<>> /\ assumptLevel' = 0
      /\ UNCHANGED <<op, arg, sx, testLevels, endTestLevel, lvls, formula, scopes, asked>>
  BY DEF SearchModel, Guessing, At, SolveReturn, Return, apiVars, histVars
<1>2. px = CNull /\ head = Len(D) /\ sx = CNull /\ op = "solve" /\ res = "none"
  BY <1>1 DEF Live, ConflictPlace, CallOK, Searching
<1>3. res' = "sat"
  <2>1. CheckModel
    BY <1>1, <1>2, ModelChecks, LevelTypes DEF Propagated
  <2> QED BY <1>1, <2>1
<1>4. /\ TrailSound' /\ UNCHANGED <<Level, cls, added, mode, px, trg>>
      /\ \A l, S : DecWithin(l, S) => DecNext(l, S)
  BY <1>1, NoGuessStep, LevelTypes
<1>5. StateTypes' /\ CallOK'
  BY <1>1, <1>4, LevelTypes
     DEF Live, StateTypes, CallOK, Cleaning, Assuming, Searching, Propping, Backing
<1>6. LevelPlace'
  BY <1>1, <1>4, LevelTypes DEF Live, LevelPlace, TopLevel, Assuming, Searching
<1>7. ConflictPlace' /\ DerivedPlace' /\ AskedOK'
  BY <1>1, <1>2, <1>4 DEF ConflictPlace, DerivedPlace, AskedOK, Cleaning, Assuming, Searching
<1>8. ScopesOK'
  <2>1. ScopeClosed' <=> ScopeClosed
    BY <1>1, <1>2 DEF ScopeClosed, Cleaning
  <2> QED BY <1>1, <1>4, <2>1, ScopesKept, LevelTypes
<1> QED BY <1>3, <1>4, <1>5, <1>6, <1>7, <1>8 DEF Live

(* Test completes: its scope reaches up to the current level. *)
LEMMA TestedLive ==
  ASSUME Live, Tested
  PROVE  Live' /\ res' \in {"sat", "unknown"}
<1>1. /\ mode = "idle" /\ pc = "tested" /\ pc' = "ready" /\ UNCHANGED trailVars
      /\ res' = (IF HeapHasFree THEN "unknown" ELSE IF CheckModel THEN "sat" ELSE "fatal")
      /\ endTestLevel' = Level
      /\ UNCHANGED <<op, arg, sx, testLevels, assumes, assumptLevel, lvls, formula, scopes, asked>>
  BY DEF Tested, At, Return, histVars
<1>2. /\ px = CNull /\ head = Len(D) /\ sx = CNull /\ op = "test" /\ res = "none"
      /\ testLevels # <<>> /\ Level = assumptLevel /\ endTestLevel <= Level
  BY <1>1 DEF Live, ConflictPlace, CallOK, LevelPlace, Assuming
<1>3. res' \in {"sat", "unknown"}
  <2>1. ~ HeapHasFree => CheckModel
    BY <1>1, <1>2, ModelChecks, LevelTypes DEF Propagated
  <2> QED BY <1>1, <2>1
<1>4. /\ TrailSound' /\ UNCHANGED <<D, Level, head, vals, levels, reasons, cls, trg, mode, px>>
      /\ \A l, S : DecWithin(l, S) => DecNext(l, S)
  BY <1>1, TrailFrame, LevelTypes DEF trailVars
<1>5. StateTypes' /\ CallOK'
  BY <1>1, <1>4, LevelTypes
     DEF Live, StateTypes, CallOK, Cleaning, Assuming, Searching, Propping, Backing
<1>6. LevelPlace'
  BY <1>1, <1>4, LevelTypes DEF LevelPlace, TopLevel, Assuming, Searching
<1>7. ConflictPlace' /\ DerivedPlace' /\ AskedOK'
  BY <1>1, <1>2, <1>4 DEF ConflictPlace, DerivedPlace, AskedOK, Cleaning, Assuming, Searching
<1>8. ScopesOK'
  <2>1. ~ ScopeClosed /\ ~ ScopeClosed'
    BY <1>1, <1>2, <1>3 DEF ScopeClosed, Cleaning
  <2>2. Len(scopes) = Len(testLevels)
    BY <2>1, LevelTypes DEF ScopesOK
  <2>3. DecNext(Level, ScopeLits(Len(testLevels)))
    <3>1. DecWithin(assumptLevel, asked) /\ asked = ScopeLits(Len(scopes))
      BY <1>1, <1>2, LevelTypes DEF AskedOK, Assuming
    <3> QED BY <1>2, <1>4, <2>2, <3>1
  <2>4. DecWithin(endTestLevel, ScopeLits(Len(testLevels)))'
    BY <1>1, <2>3 DEF DecWithin, DecNext, ScopeLits
  <2>5. \A k \in 1 .. Len(testLevels) : DecNext(testLevels[k], ScopeLits(k - 1))
    BY <1>4, LevelTypes DEF ScopesOK
  <2>6. \A k \in 1 .. Len(testLevels') : DecWithin(testLevels[k], ScopeLits(k - 1))'
    BY <1>1, <2>5 DEF DecWithin, DecNext, ScopeLits
  <2>7. \A k \in 1 .. Len(testLevels') : testLevels'[k] <= endTestLevel'
    <3>1. \A k \in 1 .. Len(testLevels) : testLevels[k] <= endTestLevel
      BY LevelTypes DEF ScopesOK
    <3>2. \A k \in 1 .. Len(testLevels) : testLevels[k] \in Nat
      BY LevelTypes
    <3>3. testLevels' = testLevels /\ endTestLevel' = Level /\ endTestLevel <= Level
      BY <1>1, <1>2
    <3>4. \A n \in Nat : n <= endTestLevel => n <= Level
      BY <3>3, LevelTypes
    <3> QED BY <3>1, <3>2, <3>3, <3>4
  <2> QED BY <1>1, <1>2, <2>1, <2>2, <2>4, <2>6, <2>7, LevelTypes DEF ScopesOK
<1> QED BY <1>3, <1>4, <1>5, <1>6, <1>7, <1>8 DEF Live

(* A restart undoes the levels above the assumptions, a stop those above   *)
(* the scopes.                                                             *)
LEMMA SearchBackLive ==
  ASSUME Live, SearchRestart \/ SearchStopped
  PROVE  Live' /\ (SearchStopped => res' = "unknown")
<1>1. PICK l : /\ mode = "idle" /\ pc = "propagated" /\ px = CNull /\ StartBack(l)
               /\ \/ /\ pc' = "guess" /\ l = assumptLevel
                     /\ UNCHANGED <<assumes, assumptLevel, drvd, res, unresolved>>
                  \/ /\ pc' = "ready" /\ l = endTestLevel /\ res' = "unknown"
                     /\ assumes' = <<>> /\ assumptLevel' = 0
               /\ UNCHANGED <<op, arg, sx, testLevels, endTestLevel, lvls, formula, scopes, asked>>
  BY DEF SearchRestart, SearchStopped, At, SolveReturn, Return, apiVars, histVars
<1>2. /\ head = Len(D) /\ endTestLevel <= assumptLevel /\ assumptLevel <= Level
      /\ sx = CNull /\ op = "solve" /\ res = "none" /\ l \in Nat
  BY <1>1, LevelTypes DEF Live, ConflictPlace, LevelPlace, TopLevel, CallOK, Searching
<1>3. /\ TrailSound' /\ UNCHANGED <<D, Level, head, vals, levels, reasons, cls, px>>
      /\ Level <= l => mode' = "idle" /\ trg' = trg
      /\ Level > l => mode' = "back" /\ trg' = l
      /\ \A k, S : DecWithin(k, S) => DecNext(k, S)
  <2>1. mode = "idle" /\ px = CNull /\ StartBack(l) /\ formula' = formula
    BY <1>1
  <2>2. l \in Nat /\ formula \subseteq formula' /\ TrailSound
    BY <1>2, <2>1, LevelTypes
  <2> QED BY <2>1, <2>2, BackStarts
<1>4. StateTypes' /\ CallOK'
  <2>1. assumes' \in Seq(LitSet) /\ assumptLevel' \in Nat
    <3>1. assumes \in Seq(LitSet) /\ <<>> \in Seq(LitSet) /\ assumptLevel \in Nat
      BY DEF Live, StateTypes
    <3>2. /\ assumes' = <<>> \/ assumes' = assumes
          /\ assumptLevel' = 0 \/ assumptLevel' = assumptLevel
      BY <1>1, Zenon
    <3>3. 0 \in Nat
      OBVIOUS
    <3> QED BY <3>1, <3>2, <3>3, Zenon
  <2>2. pc' \in {"guess", "ready"} /\ (pc' = "guess" => res' = res)
    BY <1>1
  <2>3. StateTypes'
    BY <1>1, <2>1, <2>2 DEF Live, StateTypes, Searching
  <2>4. mode' \in {"idle", "back"} /\ op' = "solve"
    BY <1>1, <1>2, <1>3, LevelTypes
  <2>5. CallOK'
    BY <1>2, <2>2, <2>4 DEF CallOK, Cleaning, Assuming, Searching, Propping, Backing
  <2> QED BY <2>3, <2>5
<1>5. LevelPlace'
  BY <1>1, <1>2, <1>3, LevelTypes
     DEF Live, LevelPlace, TopLevel, BackTarget, Assuming, Searching
<1>6. ConflictPlace' /\ DerivedPlace'
  BY <1>1, <1>2, <1>3 DEF Live, ConflictPlace, DerivedPlace, Cleaning, Assuming, Searching
<1>7. ScopesOK'
  <2>1. ScopeClosed' <=> ScopeClosed
    BY <1>1, <1>2 DEF ScopeClosed, Cleaning
  <2> QED BY <1>1, <1>3, <2>1, ScopesKept, LevelTypes
<1>8. AskedOK'
  <2>1. CASE pc' = "ready"
    BY <2>1 DEF AskedOK, Assuming, Searching
  <2>2. CASE pc' = "guess"
    <3>1. assumptLevel' = assumptLevel /\ assumes' = assumes
      BY <1>1, <2>2
    <3>2. DecNext(assumptLevel', asked)
      BY <1>1, <1>3, <3>1, LevelTypes DEF AskedOK, Searching
    <3> QED BY <1>1, <3>1, <3>2, AskedKept, LevelTypes
  <2> QED BY <1>1, <2>1, <2>2
<1>9. SearchStopped => res' = "unknown"
  BY DEF SearchStopped, SolveReturn, Return
<1> QED BY <1>3, <1>4, <1>5, <1>6, <1>7, <1>8, <1>9 DEF Live

(* A call finds the conflict of the last unsat result, or none.  With the  *)
(* discipline "final" no conflict is left at level 0.                      *)
LEMMA CallFacts ==
  ASSUME Live, MayCall, ~ Stopped, "final" \in Discipline
  PROVE  /\ pc = "ready" /\ mode = "idle" /\ bot = CNull /\ ~ ScopeClosed
         /\ Len(scopes) = Len(testLevels)
         /\ px = CNull <=> sx = CNull
         /\ sx # CNull => HasConflict(sx) /\ Satisfiable(formula) /\ Level # 0
<1>1. pc = "ready" /\ mode = "idle" /\ bot = CNull /\ res # "panic"
  BY DEF MayCall, At, Stopped, Live, TrailSound
<1>2. ~ ScopeClosed
  BY <1>1 DEF ScopeClosed, Cleaning
<1>3. Len(scopes) = Len(testLevels)
  BY <1>2, LevelTypes DEF ScopesOK
<1>4. /\ px = CNull <=> sx = CNull
      /\ sx # CNull => HasConflict(sx) /\ unresolved # "none"
  BY <1>1 DEF Live, ConflictPlace
<1>5. sx # CNull => Satisfiable(formula)
  BY <1>1, <1>4 DEF MayCall
<1>6. sx # CNull => Level # 0
  BY <1>4, <1>5, ConflictAtZero, LevelTypes DEF HasConflict
<1> QED BY <1>1, <1>2, <1>3, <1>4, <1>5, <1>6

(* Add goes back to level 0. *)
LEMMA AddLive ==
  ASSUME Live, ~ Stopped, "final" \in Discipline, NEW ms \in AddSpace, Add(ms)
  PROVE  Live' /\ res' = "none"
<1>1. /\ MayCall /\ StartBack(0) /\ testLevels = <<>>
      /\ pc' = "add" /\ op' = "add" /\ res' = "none" /\ arg' = ms /\ sx' = CNull
      /\ formula' = formula \cup {ToSet(ms)}
      /\ UNCHANGED <<testLevels, endTestLevel, assumes, assumptLevel, drvd, lvls, scopes, asked>>
  BY DEF Add, Begin, apiVars
<1>2. /\ mode = "idle" /\ ~ ScopeClosed /\ pc = "ready" /\ endTestLevel = 0
      /\ px # CNull => Level # 0
  BY <1>1, CallFacts, LevelTypes DEF ScopesOK
<1>3. formula \subseteq formula' /\ 0 \in Nat
  BY <1>1
<1>4. /\ TrailSound' /\ UNCHANGED <<D, Level, head, vals, levels, reasons, cls, px>>
      /\ Level <= 0 => mode' = "idle" /\ trg' = trg
      /\ Level > 0 => mode' = "back" /\ trg' = 0
      /\ \A k, S : DecWithin(k, S) => DecNext(k, S)
  BY <1>1, <1>3, BackStarts, LevelTypes
<1>5. StateTypes' /\ CallOK'
  <2>1. ms \in Seq(LitSet) /\ ToSet(ms) \in formula'
    BY <1>1, AddSpaceAssumption
  <2>2. mode' \in {"idle", "back"}
    BY <1>4, LevelTypes
  <2> QED BY <1>1, <2>1, <2>2
          DEF Live, StateTypes, CallOK, Cleaning, Assuming, Searching, Propping, Backing
<1>6. LevelPlace'
  BY <1>1, <1>2, <1>4, LevelTypes DEF LevelPlace, TopLevel, BackTarget, Assuming, Searching
<1>7. ConflictPlace' /\ DerivedPlace'
  <2>1. mode' = "idle" => px' = CNull
    BY <1>2, <1>4, LevelTypes
  <2> QED BY <1>1, <2>1 DEF ConflictPlace, DerivedPlace, Cleaning, Assuming, Searching
<1>8. ScopesOK'
  <2>1. ScopeClosed' <=> ScopeClosed
    BY <1>1, <1>2 DEF ScopeClosed, Cleaning
  <2> QED BY <1>1, <1>4, <2>1, ScopesKept, LevelTypes
<1>9. AskedOK'
  BY <1>1 DEF AskedOK, Assuming, Searching
<1> QED BY <1>1, <1>4, <1>5, <1>6, <1>7, <1>8, <1>9 DEF Live

(* Assume. *)
LEMMA AssumeLive ==
  ASSUME Live, ~ Stopped, "final" \in Discipline, NEW m \in AssumeSpace, Assume(m)
  PROVE  Live'
<1>1. /\ MayCall /\ UNCHANGED trailVars /\ assumes' = Append(assumes, m)
      /\ UNCHANGED <<pc, op, arg, sx, testLevels, endTestLevel, assumptLevel, drvd, lvls,
                     res, unresolved, formula, scopes, asked>>
  BY DEF Assume, histVars
<1>2. /\ mode = "idle" /\ ~ ScopeClosed /\ pc = "ready"
      /\ px = CNull <=> sx = CNull
      /\ sx # CNull => HasConflict(sx)
  BY <1>1, CallFacts
<1>3. /\ TrailSound' /\ UNCHANGED <<D, Level, head, vals, levels, reasons, cls, trg, mode, px>>
      /\ \A l, S : DecWithin(l, S) => DecNext(l, S)
  BY <1>1, TrailFrame, LevelTypes DEF trailVars
<1>4. StateTypes' /\ CallOK'
  <2>1. assumes \in Seq(LitSet) /\ m \in LitSet
    BY AssumeSpaceAssumption DEF Live, StateTypes
  <2>2. assumes' \in Seq(LitSet)
    BY <1>1, <2>1
  <2> QED BY <1>1, <1>2, <1>3, <2>2
          DEF Live, StateTypes, CallOK, Cleaning, Assuming, Searching, Propping, Backing
<1>5. LevelPlace'
  BY <1>1, <1>2, <1>3 DEF Live, LevelPlace, TopLevel, Assuming, Searching
<1>6. ConflictPlace' /\ DerivedPlace'
  <2>1. sx' # CNull => HasConflict(sx)'
    BY <1>1, <1>2, <1>3 DEF HasConflict, Falsified, Clauses, IsFalse
  <2>2. sx # CNull => unresolved # "none" \/ res = "panic"
    BY <1>2 DEF Live, ConflictPlace
  <2> QED BY <1>1, <1>2, <1>3, <2>1, <2>2
          DEF ConflictPlace, DerivedPlace, Cleaning, Assuming, Searching
<1>7. ScopesOK'
  <2>1. ScopeClosed' <=> ScopeClosed
    BY <1>1 DEF ScopeClosed
  <2> QED BY <1>1, <1>3, <2>1, ScopesKept, LevelTypes
<1>8. AskedOK'
  BY <1>1, <1>2 DEF AskedOK, Assuming, Searching
<1> QED BY <1>3, <1>4, <1>5, <1>6, <1>7, <1>8 DEF Live

(* What cleanupSolve starts with, in Solve, Test and Untest: the trail and *)
(* the conflict of the last call.                                          *)
LEMMA CleanupStarts ==
  ASSUME Live, ~ Stopped, "final" \in Discipline, MayCall, UNCHANGED <<trailVars, formula, sx>>,
         pc' = "cleanup", op' \in {"solve", "test", "untest"}, res' = "none",
         endTestLevel' \in Nat, endTestLevel' <= endTestLevel
  PROVE  /\ TrailSound' /\ CallOK' /\ LevelPlace' /\ ConflictPlace' /\ DerivedPlace'
         /\ \A l, S : DecWithin(l, S) => DecNext(l, S)
<1>1. /\ mode = "idle" /\ pc = "ready"
      /\ px = CNull <=> sx = CNull
      /\ sx # CNull => HasConflict(sx) /\ Satisfiable(formula)
  BY CallFacts
<1>2. /\ TrailSound' /\ UNCHANGED <<D, Level, head, vals, levels, reasons, cls, trg, mode, px>>
      /\ \A l, S : DecWithin(l, S) => DecNext(l, S)
  BY TrailFrame, LevelTypes DEF trailVars
<1>3. CallOK'
  BY <1>1, <1>2 DEF CallOK, Cleaning, Assuming, Searching, Propping, Backing
<1>4. LevelPlace'
  BY <1>1, <1>2, LevelTypes DEF Live, LevelPlace, TopLevel, Assuming, Searching
<1>5. ConflictPlace'
  <2>1. sx' # CNull => HasConflict(sx)' /\ Satisfiable(formula')
    BY <1>1, <1>2 DEF HasConflict, Falsified, Clauses, IsFalse
  <2> QED BY <1>1, <1>2, <2>1 DEF ConflictPlace, Cleaning, Assuming, Searching
<1>6. DerivedPlace'
  BY DEF DerivedPlace
<1> QED BY <1>2, <1>3, <1>4, <1>5, <1>6

(* Solve is asked for the tested and the untested assumptions. *)
LEMMA SolveLive ==
  ASSUME Live, ~ Stopped, "final" \in Discipline, Solve
  PROVE  Live' /\ res' = "none"
<1>1. /\ MayCall /\ UNCHANGED <<trailVars, formula, sx>> /\ pc' = "cleanup" /\ op' = "solve"
      /\ res' = "none" /\ asked' = Elements(scopes) \cup ToSet(assumes)
      /\ UNCHANGED <<arg, testLevels, endTestLevel, assumes, assumptLevel, drvd, lvls, scopes>>
  BY DEF Solve, Begin, apiVars
<1>2. pc = "ready" /\ ~ ScopeClosed
  BY <1>1, CallFacts
<1>3. /\ TrailSound' /\ CallOK' /\ LevelPlace' /\ ConflictPlace' /\ DerivedPlace'
      /\ \A l, S : DecWithin(l, S) => DecNext(l, S)
  BY <1>1, CleanupStarts, LevelTypes
<1>4. StateTypes'
  BY <1>1 DEF Live, StateTypes, Cleaning
<1>5. ScopesOK'
  <2>1. ScopeClosed' <=> ScopeClosed
    BY <1>1, <1>2 DEF ScopeClosed
  <2> QED BY <1>1, <1>3, <2>1, ScopesKept, LevelTypes
<1>6. AskedOK'
  BY <1>1 DEF AskedOK, ScopeLits, Elements, Assuming, Searching
<1> QED BY <1>1, <1>3, <1>4, <1>5, <1>6 DEF Live

(* Test is asked for the assumptions of all scopes, its own included. *)
LEMMA TestLive ==
  ASSUME Live, ~ Stopped, "final" \in Discipline, Test
  PROVE  Live' /\ res' = "none"
<1>1. /\ MayCall /\ UNCHANGED <<trailVars, formula, sx>> /\ pc' = "cleanup" /\ op' = "test"
      /\ res' = "none" /\ scopes' = Append(scopes, assumes) /\ asked' = Elements(scopes)'
      /\ UNCHANGED <<arg, testLevels, endTestLevel, assumes, assumptLevel, drvd, lvls>>
  BY DEF Test, Begin, apiVars
<1>2. pc = "ready" /\ Len(scopes) = Len(testLevels)
  BY <1>1, CallFacts
<1>3. /\ TrailSound' /\ CallOK' /\ LevelPlace' /\ ConflictPlace' /\ DerivedPlace'
      /\ \A l, S : DecWithin(l, S) => DecNext(l, S)
  BY <1>1, CleanupStarts, LevelTypes
<1> DEFINE n == Len(scopes)
<1>4. /\ n \in Nat /\ scopes' \in Seq(Seq(LitSet)) /\ Len(scopes') = n + 1
      /\ scopes'[n + 1] = assumes /\ \A k \in 1 .. n : scopes'[k] = scopes[k]
  <2>1. assumes \in Seq(LitSet)
    BY DEF Live, StateTypes
  <2> QED BY <1>1, <2>1, LevelTypes
<1> HIDE DEF n
<1>5. StateTypes'
  BY <1>1, <1>4 DEF Live, StateTypes, Cleaning
<1>6. \A k \in 0 .. n : ScopeLits(k)' = ScopeLits(k)
  <2> SUFFICES ASSUME NEW k \in 0 .. n PROVE ScopeLits(k)' = ScopeLits(k)
    OBVIOUS
  <2>1. \A i \in 1 .. k : scopes'[i] = scopes[i]
    BY <1>4
  <2> QED BY <2>1 DEF ScopeLits
<1>7. ScopesOK'
  <2>1. Len(scopes') = Len(testLevels') + (IF ScopeClosed' THEN 1 ELSE 0)
    <3>1. ScopeClosed'
      BY <1>1 DEF ScopeClosed, Cleaning
    <3> QED BY <1>1, <1>2, <1>4, <3>1, LevelTypes DEF n
  <2>2. \A k \in 1 .. Len(testLevels') : DecWithin(testLevels[k], ScopeLits(k - 1))'
    <3> SUFFICES ASSUME NEW k \in 1 .. Len(testLevels)
                 PROVE  DecWithin(testLevels[k], ScopeLits(k - 1))'
      BY <1>1
    <3>1. k - 1 \in 0 .. n
      BY <1>2, <1>4 DEF n
    <3>2. DecNext(testLevels[k], ScopeLits(k - 1))
      BY <1>3, LevelTypes DEF ScopesOK
    <3>3. ScopeLits(k - 1)' = ScopeLits(k - 1)
      BY <1>6, <3>1
    <3> QED BY <1>1, <3>2, <3>3 DEF DecWithin, DecNext
  <2>3. DecWithin(endTestLevel, ScopeLits(Len(testLevels)))'
    <3>1. PICK k \in 0 .. n : k = Len(testLevels)
      BY <1>2, <1>4 DEF n
    <3>2. DecNext(endTestLevel, ScopeLits(k))
      BY <1>3, <3>1, LevelTypes DEF ScopesOK
    <3>3. ScopeLits(k)' = ScopeLits(k) /\ k = Len(testLevels')
      BY <1>1, <1>6, <3>1
    <3>4. DecWithin(endTestLevel, ScopeLits(k))'
      BY <1>1, <3>2, <3>3 DEF DecWithin, DecNext
    <3> QED BY <3>3, <3>4 DEF DecWithin, ScopeLits
  <2> QED BY <1>1, <2>1, <2>2, <2>3, LevelTypes DEF ScopesOK
<1>8. AskedOK'
  <2>1. ToSet(assumes') \subseteq asked'
    <3>1. n + 1 \in 1 .. Len(scopes')
      BY <1>4
    <3>2. ToSet(scopes'[n + 1]) \subseteq asked'
      BY <1>1, <3>1 DEF Elements
    <3> QED BY <1>1, <1>4, <3>2
  <2>2. asked' = ScopeLits(Len(scopes))'
    BY <1>1 DEF ScopeLits, Elements
  <2> QED BY <1>1, <2>1, <2>2 DEF AskedOK, Assuming, Searching
<1> QED BY <1>1, <1>3, <1>5, <1>7, <1>8 DEF Live

(* Untest drops the last scope. *)
LEMMA UntestLive ==
  ASSUME Live, ~ Stopped, "final" \in Discipline, Untest
  PROVE  Live' /\ res' = "none"
<1>1. /\ MayCall /\ UNCHANGED <<trailVars, formula, sx>> /\ pc' = "cleanup" /\ op' = "untest"
      /\ res' = "none" /\ testLevels # <<>>
      /\ testLevels' = Front(testLevels) /\ endTestLevel' = Last(testLevels)
      /\ scopes' = Front(scopes) /\ asked' = Elements(scopes)'
      /\ UNCHANGED <<arg, assumes, assumptLevel, drvd, lvls>>
  BY DEF Untest, Begin
<1>2. pc = "ready" /\ Len(scopes) = Len(testLevels)
  BY <1>1, CallFacts
<1> DEFINE n == Len(testLevels)
<1>3. /\ n \in Nat /\ n >= 1 /\ endTestLevel' = testLevels[n] /\ endTestLevel' \in Nat
      /\ testLevels' \in Seq(Nat) /\ Len(testLevels') = n - 1
      /\ \A k \in 1 .. (n - 1) : testLevels'[k] = testLevels[k]
  BY <1>1, FrontFacts, LevelTypes
<1>4. /\ scopes' \in Seq(Seq(LitSet)) /\ Len(scopes') = n - 1
      /\ \A k \in 1 .. (n - 1) : scopes'[k] = scopes[k]
  <2>1. Len(scopes) = n /\ scopes # <<>>
    BY <1>2, <1>3, EmptySeq, LevelTypes
  <2> QED BY <1>1, <2>1, FrontFacts, LevelTypes
<1> HIDE DEF n
<1>5. /\ \A k \in 1 .. n : testLevels[k] <= endTestLevel
      /\ \A j, k \in 1 .. n : j <= k => testLevels[j] <= testLevels[k]
      /\ testLevels[1] = 0
      /\ \A k \in 1 .. n : DecWithin(testLevels[k], ScopeLits(k - 1))
  BY <1>1, LevelTypes DEF ScopesOK, n
<1>6. endTestLevel' <= endTestLevel
  BY <1>3, <1>5
<1>7. /\ TrailSound' /\ CallOK' /\ LevelPlace' /\ ConflictPlace' /\ DerivedPlace'
      /\ \A l, S : DecWithin(l, S) => DecNext(l, S)
  BY <1>1, <1>3, <1>6, CleanupStarts
<1>8. StateTypes'
  BY <1>1, <1>3, <1>4 DEF Live, StateTypes, Cleaning
<1>9. \A k \in 0 .. (n - 1) : ScopeLits(k)' = ScopeLits(k)
  <2> SUFFICES ASSUME NEW k \in 0 .. (n - 1) PROVE ScopeLits(k)' = ScopeLits(k)
    OBVIOUS
  <2>1. \A i \in 1 .. k : scopes'[i] = scopes[i]
    BY <1>3, <1>4
  <2> QED BY <2>1 DEF ScopeLits
<1>10. \A k \in 1 .. n : DecWithin(testLevels[k], ScopeLits(k - 1))'
               <=> DecNext(testLevels'[k], ScopeLits(k - 1))
  <2> SUFFICES ASSUME NEW k \in 1 .. n
               PROVE  DecWithin(testLevels[k], ScopeLits(k - 1))'
                        <=> DecNext(testLevels'[k], ScopeLits(k - 1))
    OBVIOUS
  <2>1. k - 1 \in 0 .. (n - 1)
    BY <1>3
  <2>2. ScopeLits(k - 1)' = ScopeLits(k - 1)
    BY <1>9, <2>1
  <2> QED BY <2>2 DEF DecWithin, DecNext
<1>11. \A k \in 1 .. (n - 1) : k \in 1 .. n
  BY <1>3
<1>12. ScopesOK'
  <2>1. Len(scopes') = Len(testLevels') + (IF ScopeClosed' THEN 1 ELSE 0)
    <3>1. ~ ScopeClosed'
      BY <1>1 DEF ScopeClosed, Cleaning
    <3> QED BY <1>3, <1>4, <3>1
  <2>2. testLevels' = <<>> => endTestLevel' = 0
    <3> SUFFICES ASSUME testLevels' = <<>> PROVE endTestLevel' = 0
      OBVIOUS
    <3>1. n = 1
      BY <1>3
    <3> QED BY <1>3, <1>5, <3>1
  <2>3. testLevels' # <<>> => testLevels'[1] = 0
    <3> SUFFICES ASSUME testLevels' # <<>> PROVE testLevels'[1] = 0
      OBVIOUS
    <3>1. n - 1 # 0
      BY <1>3, EmptySeq
    <3>2. 1 \in 1 .. (n - 1)
      BY <1>3, <3>1
    <3> QED BY <1>3, <1>5, <3>2
  <2>4. \A k \in 1 .. (n - 1) : testLevels'[k] <= endTestLevel'
    <3>1. n \in 1 .. n /\ \A k \in 1 .. (n - 1) : k <= n
      BY <1>3
    <3> QED BY <1>3, <1>5, <1>11, <3>1
  <2>5. \A j, k \in 1 .. (n - 1) : j <= k => testLevels'[j] <= testLevels'[k]
    BY <1>3, <1>5, <1>11
  <2>6. \A k \in 1 .. (n - 1) : DecWithin(testLevels[k], ScopeLits(k - 1))'
    <3> SUFFICES ASSUME NEW k \in 1 .. (n - 1)
                 PROVE  DecWithin(testLevels[k], ScopeLits(k - 1))'
      OBVIOUS
    <3>1. DecNext(testLevels[k], ScopeLits(k - 1))
      BY <1>5, <1>7, <1>11
    <3>2. testLevels'[k] = testLevels[k]
      BY <1>3
    <3> QED BY <1>10, <1>11, <3>1, <3>2
  <2>7. DecWithin(endTestLevel, ScopeLits(Len(testLevels)))'
    <3>1. PICK k \in 0 .. (n - 1) : k = Len(testLevels') /\ k = n - 1 /\ n \in 1 .. n
      BY <1>3
    <3>2. DecNext(endTestLevel', ScopeLits(k))
      BY <1>3, <1>5, <1>7, <3>1
    <3>3. ScopeLits(k)' = ScopeLits(k)
      BY <1>9
    <3>4. DecWithin(endTestLevel, ScopeLits(k))'
      BY <3>2, <3>3 DEF DecWithin, DecNext
    <3> QED BY <3>1, <3>4 DEF DecWithin, ScopeLits
  <2> QED BY <1>3, <2>1, <2>2, <2>3, <2>4, <2>5, <2>6, <2>7 DEF ScopesOK
<1>13. AskedOK'
  <2>1. asked' = ScopeLits(Len(scopes))'
    BY <1>1 DEF ScopeLits, Elements
  <2> QED BY <1>1, <2>1 DEF AskedOK, Assuming, Searching
<1> QED BY <1>1, <1>7, <1>8, <1>12, <1>13 DEF Live

-----------------------------------------------------------------------------
(***************************************************************************)
(* The steps of the loops, and the clause which Add stores.                *)
(***************************************************************************)

(* A step of Prop or Back. *)
LEMMA TrailStepLive ==
  ASSUME Live, TrailStep
  PROVE  Live'
<1>1. /\ PropStep \/ BackStep
      /\ UNCHANGED <<pc, op, arg, sx, testLevels, endTestLevel, assumes, assumptLevel, drvd,
                     lvls, res, unresolved, formula, scopes, asked>>
  BY DEF TrailStep, solverVars
<1>2. /\ TrailSound'
      /\ (PropStep /\ PropEffect) \/ (BackStep /\ BackEffect)
      /\ \A l, S : DecWithin(l, S) => DecNext(l, S)
  BY <1>1, LoopSteps, LevelTypes
<1>3. ScopesOK' /\ AskedOK'
  <2>1. ScopeClosed' <=> ScopeClosed
    BY <1>1 DEF ScopeClosed
  <2>2. ScopesOK'
    BY <1>1, <1>2, <2>1, ScopesKept, LevelTypes
  <2>3. pc \in Assuming \cup Searching => DecNext(assumptLevel, asked)
    BY <1>2, LevelTypes DEF AskedOK
  <2>4. DecNext(assumptLevel, asked) => DecWithin(assumptLevel, asked)'
    BY <1>1 DEF DecWithin, DecNext
  <2>5. ScopeLits(Len(scopes))' = ScopeLits(Len(scopes))
    BY <1>1 DEF ScopeLits
  <2>6. AskedOK'
    BY <1>1, <2>3, <2>4, <2>5, LevelTypes DEF AskedOK
  <2> QED BY <2>2, <2>6
<1>4. StateTypes'
  BY <1>1 DEF Live, StateTypes
<1>5. CASE PropEffect
  <2>1. /\ mode \in {"prop", "visit"} /\ mode' \in {"prop", "visit", "idle"}
        /\ Level' = Level /\ trg' = trg
        /\ mode' = "idle" /\ px' = CNull => head' = Len(D')
    BY <1>5 DEF PropEffect
  <2>2. pc \in Propping
    BY <2>1 DEF Live, CallOK
  <2>3. CallOK'
    BY <1>1, <2>1, <2>2 DEF Live, CallOK
  <2>4. LevelPlace'
    BY <1>1, <2>1, <2>2 DEF Live, LevelPlace, TopLevel, Propping, Assuming, Searching
  <2>5. ConflictPlace' /\ DerivedPlace'
    BY <1>1, <2>1, <2>2
       DEF Live, ConflictPlace, DerivedPlace, Propping, Cleaning, Assuming, Searching
  <2> QED BY <1>2, <1>3, <1>4, <2>3, <2>4, <2>5 DEF Live
<1>6. CASE BackEffect
  <2>1. /\ mode = "back" /\ mode' \in {"back", "idle"} /\ cls' = cls
        /\ mode' = "back" => Level' = Level /\ trg' = trg
        /\ mode' = "idle" => Level' = trg /\ px' = CNull /\ head' = Len(D')
    BY <1>6 DEF BackEffect
  <2>2. pc \in Backing /\ trg = BackTarget
    BY <2>1 DEF Live, CallOK, LevelPlace
  <2>3. CallOK'
    BY <1>1, <2>1, <2>2 DEF Live, CallOK
  <2>4. LevelPlace'
    <3>1. BackTarget' = BackTarget
      BY <1>1 DEF BackTarget
    <3>2. TopLevel' = TopLevel
      BY <2>1 DEF TopLevel
    <3>3. pc \notin Assuming
      BY <2>2 DEF Backing, Assuming
    <3> QED BY <1>1, <2>1, <2>2, <3>1, <3>2, <3>3 DEF Live, LevelPlace, Assuming, Searching
  <2>5. ConflictPlace'
    <3>1. sx = CNull \/ pc \notin {"ready", "cleanup"}
      BY <2>1 DEF Live, ConflictPlace
    <3> QED BY <1>1, <2>1, <2>2, <3>1
            DEF Live, ConflictPlace, Backing, Cleaning, Assuming, Searching
  <2>6. DerivedPlace'
    <3>1. CASE pc \notin {"assert", "cleanupAssert"}
      BY <1>1, <2>2, <3>1 DEF DerivedPlace, Backing
    <3>2. CASE pc \in {"assert", "cleanupAssert"}
      <4> DEFINE u == drvd.Unit
                 c == drvd.P
      <4>1. /\ UnitFirst
            /\ \/ IsFree(u) /\ levels[Var(u)] = -1
               \/ IsFalse(u) /\ levels[Var(u)] > trg
        BY <2>1, <3>2 DEF Live, DerivedPlace
      <4>2. /\ c \in Clauses /\ cls[c] # <<>> /\ cls[c][1] = u /\ drvd.TargetLevel \in Nat
            /\ \A k \in 2 .. Len(cls[c]) : IsFalse(cls[c][k]) /\ levels[Var(cls[c][k])] <= drvd.TargetLevel
        BY <4>1 DEF UnitFirst
      <4>3. /\ Len(cls[c]) \in Nat /\ Len(cls[c]) # 0
            /\ \A k \in 1 .. Len(cls[c]) : cls[c][k] \in LitSet
        BY <4>2, ClauseLits, EmptySeq, LevelTypes DEF TypeOK, Clauses
      <4>4. 1 \in 1 .. Len(cls[c]) /\ \A k \in 2 .. Len(cls[c]) : k \in 1 .. Len(cls[c])
        BY <4>3
      <4>5. u \in LitSet /\ Var(u) \in VarSet
        BY <4>2, <4>3, <4>4, LitFacts
      <4> HIDE DEF u, c
      <4>6. drvd.TargetLevel <= trg
        BY <2>2, <3>2, <4>2, LevelTypes DEF BackTarget, HigherOf
      <4>7. \A m \in LitSet : IsFalse(m) /\ levels[Var(m)] <= trg =>
              vals'[m] = vals[m] /\ levels'[Var(m)] = levels[Var(m)]
        BY <1>6 DEF BackEffect, IsFalse, IsFree
      <4>8. UnitFirst'
        <5>1. \A k \in 2 .. Len(cls[c]) :
                 IsFalse(cls[c][k])' /\ levels'[Var(cls[c][k])] <= drvd.TargetLevel
          <6> SUFFICES ASSUME NEW k \in 2 .. Len(cls[c])
                       PROVE  IsFalse(cls[c][k])' /\ levels'[Var(cls[c][k])] <= drvd.TargetLevel
            OBVIOUS
          <6>1. PICK m \in LitSet : m = cls[c][k]
            BY <4>3, <4>4
          <6>2. IsFalse(m) /\ levels[Var(m)] <= drvd.TargetLevel
            BY <4>2, <6>1
          <6>3. levels[Var(m)] <= trg
            <7>1. levels[Var(m)] \in Int
              BY LitFacts, IndexFacts, LevelTypes DEF TypeOK
            <7> QED BY <4>2, <4>6, <6>2, <7>1, LevelTypes
          <6>4. vals'[m] = vals[m] /\ levels'[Var(m)] = levels[Var(m)]
            BY <4>7, <6>2, <6>3
          <6>5. cls'[c'][k] = m /\ cls' = cls /\ c' = c
            BY <1>1, <2>1, <6>1 DEF c
          <6> QED BY <6>1, <6>2, <6>4, <6>5 DEF IsFalse
        <5> QED BY <1>1, <2>1, <4>2, <5>1 DEF UnitFirst, Clauses, IsFalse, u, c
      <4>9. \/ vals'[u] = vals[u] /\ levels'[Var(u)] = levels[Var(u)]
            \/ vals'[u] = 0 /\ levels'[Var(u)] = -1
        BY <1>6, <4>5 DEF BackEffect
      <4>10. \/ vals'[u] = 0 /\ levels'[Var(u)] = -1
             \/ IsFalse(u) /\ vals'[u] = vals[u] /\ levels'[Var(u)] > trg
        BY <4>1, <4>9 DEF IsFree
      <4>11. drvd'.Unit = u
        BY <1>1 DEF u
      <4>12. mode' = "idle" => vals'[u] = 0 /\ levels'[Var(u)] = -1
        <5> SUFFICES ASSUME mode' = "idle", IsFalse(u), vals'[u] = vals[u], levels'[Var(u)] > trg
                     PROVE  FALSE
          BY <4>10
        <5>1. Level' = trg /\ TrailConsistent' /\ LevelsOK'
          BY <1>2, <2>1 DEF TrailSound, TrailInv, TrailCore
        <5>2. Not(u) \in LitSet /\ Var(Not(u)) = Var(u)
          BY <4>5, LitFacts
        <5>3. vals'[Not(u)] = 1
          BY <4>5, <5>1 DEF TrailConsistent, IsFalse, IsTrue
        <5>4. PICK i \in 1 .. Len(D') : D'[i] = Not(u)
          BY <5>1, <5>2, <5>3 DEF TrailConsistent, IsTrue
        <5>5. levels'[Var(u)] \in 0 .. trg
          BY <5>1, <5>2, <5>4 DEF LevelsOK
        <5> QED BY <5>5, LevelTypes
      <4>13. CASE mode' = "idle"
        BY <1>1, <2>1, <3>2, <4>8, <4>11, <4>12, <4>13 DEF DerivedPlace, IsFree
      <4>14. CASE mode' = "back"
        BY <1>1, <2>1, <3>2, <4>8, <4>10, <4>11, <4>14 DEF DerivedPlace, IsFree, IsFalse
      <4> QED BY <2>1, <4>13, <4>14
    <3> QED BY <3>1, <3>2
  <2> QED BY <1>2, <1>3, <1>4, <2>3, <2>4, <2>5, <2>6 DEF Live
<1> QED BY <1>2, <1>5, <1>6

(* Add stores its clause, which may turn out empty. *)
LEMMA AddStoreLive ==
  ASSUME Live, AddStore
  PROVE  (Live' \/ Dead') /\ res' = "none"
<1>1. /\ pc = "add" /\ mode = "idle" /\ pc' = "ready" /\ arg' = <<>>
      /\ IF TriviallyTrue(arg) THEN UNCHANGED trailVars ELSE AddClause(Simplified(arg))
      /\ UNCHANGED <<op, sx, testLevels, endTestLevel, assumes, assumptLevel, drvd, lvls,
                     res, unresolved, formula, scopes, asked>>
  BY DEF AddStore, At, apiVars, histVars
<1>2. /\ px = CNull /\ sx = CNull /\ Level = 0 /\ res = "none" /\ op = "add" /\ testLevels = <<>>
      /\ arg \in Seq(LitSet) /\ ToSet(arg) \in formula /\ ~ ScopeClosed /\ endTestLevel = 0
  <2>1. /\ px = CNull /\ sx = CNull /\ Level = 0 /\ res = "none" /\ op = "add" /\ testLevels = <<>>
        /\ arg \in Seq(LitSet) /\ ToSet(arg) \in formula
    BY <1>1 DEF Live, ConflictPlace, LevelPlace, TopLevel, CallOK, StateTypes
  <2> QED BY <2>1, LevelTypes DEF ScopeClosed, ScopesOK
<1>3. \/ /\ TrailSound' /\ UNCHANGED <<Level, mode, px, trg>>
         /\ \A l, S : DecWithin(l, S) => DecNext(l, S)
      \/ TrailEmpty' /\ ~ Satisfiable(formula)
  <2>1. CASE TriviallyTrue(arg)
    <3>1. UNCHANGED trailVars /\ formula \subseteq formula'
      BY <1>1, <2>1
    <3> QED BY <3>1, TrailFrame, LevelTypes DEF trailVars
  <2>2. CASE ~ TriviallyTrue(arg)
    <3>1. AddClause(Simplified(arg)) /\ formula' = formula
      BY <1>1, <2>2
    <3> QED BY <1>1, <1>2, <2>2, <3>1, AddStep, LevelTypes
  <2> QED BY <2>1, <2>2
<1>4. CASE /\ TrailSound' /\ UNCHANGED <<Level, mode, px, trg>>
           /\ \A l, S : DecWithin(l, S) => DecNext(l, S)
  <2>1. StateTypes' /\ CallOK'
    <3>1. <<>> \in Seq(LitSet)
      OBVIOUS
    <3> QED BY <1>1, <1>2, <1>4, <3>1
            DEF Live, StateTypes, CallOK, Cleaning, Assuming, Searching, Propping, Backing
  <2>2. LevelPlace'
    BY <1>1, <1>2, <1>4 DEF LevelPlace, TopLevel, Assuming, Searching
  <2>3. ConflictPlace' /\ DerivedPlace' /\ AskedOK'
    BY <1>1, <1>2, <1>4 DEF ConflictPlace, DerivedPlace, AskedOK, Cleaning, Assuming, Searching
  <2>4. ScopesOK'
    <3>1. ScopeClosed' <=> ScopeClosed
      BY <1>1, <1>2 DEF ScopeClosed, Cleaning
    <3> QED BY <1>1, <1>4, <3>1, ScopesKept, LevelTypes
  <2>5. Live'
    BY <1>4, <2>1, <2>2, <2>3, <2>4 DEF Live
  <2> QED BY <1>1, <1>2, <2>5
<1>5. CASE TrailEmpty' /\ ~ Satisfiable(formula)
  <2>1. testLevels' \in Seq({0}) /\ endTestLevel' = 0 /\ arg' \in Seq(LitSet)
    BY <1>1, <1>2
  <2>2. Dead'
    BY <1>1, <1>5, <2>1 DEF Dead
  <2> QED BY <1>1, <1>2, <2>2
<1> QED BY <1>3, <1>4, <1>5

-----------------------------------------------------------------------------
(***************************************************************************)
(* Once an added clause is empty, every call ends without searching.       *)
(***************************************************************************)

(* What a call keeps of it. *)
LEMMA DeadCalls ==
  ASSUME Dead, Call
  PROVE  Dead' /\ res' \in {res, "none"}
<1>1. CASE \E ms \in AddSpace : Add(ms)
  <2>1. PICK ms \in AddSpace : Add(ms)
    BY <1>1
  <2>2. /\ StartBack(0) /\ pc' = "add" /\ res' = "none" /\ formula \subseteq formula'
        /\ arg' = ms /\ UNCHANGED <<testLevels, endTestLevel>>
    BY <2>1 DEF Add, Begin, apiVars
  <2>3. TrailEmpty'
    BY <2>2, EmptySteps DEF Dead
  <2>4. ~ Satisfiable(formula')
    BY <2>2, FewerClauses DEF Dead
  <2> QED BY <2>2, <2>3, <2>4, AddSpaceAssumption DEF Dead
<1>2. CASE (\E m \in AssumeSpace : Assume(m)) \/ Solve \/ Test
  <2>1. /\ UNCHANGED <<trailVars, formula, arg, testLevels, endTestLevel>>
        /\ pc' \in {"ready", "cleanup"} /\ res' \in {res, "none"}
    <3>1. pc = "ready" => pc' \in {"ready", "cleanup"}
      BY <1>2 DEF Assume, Solve, Test
    <3>2. pc = "ready"
      BY <1>2 DEF Assume, Solve, Test, Begin, MayCall, At
    <3> QED BY <1>2, <3>1, <3>2 DEF Assume, Solve, Test, Begin, apiVars, histVars
  <2>2. TrailEmpty'
    BY <2>1, EmptySteps DEF Dead
  <2> QED BY <2>1, <2>2 DEF Dead
<1>3. CASE Untest
  <2>1. /\ UNCHANGED <<trailVars, formula, arg>> /\ pc' = "cleanup" /\ res' = "none"
        /\ testLevels # <<>> /\ testLevels' = Front(testLevels)
        /\ endTestLevel' = Last(testLevels)
    BY <1>3 DEF Untest, Begin
  <2>2. testLevels' \in Seq({0}) /\ endTestLevel' = 0
    BY <2>1, FrontFacts DEF Dead
  <2>3. TrailEmpty'
    BY <2>1, EmptySteps DEF Dead
  <2> QED BY <2>1, <2>2, <2>3 DEF Dead
<1> QED BY <1>1, <1>2, <1>3 DEF Call

(* What the steps of a call keep of it. *)
LEMMA DeadSteps ==
  ASSUME Dead, SolverStep
  PROVE  Dead' /\ res' \in {res, "unsat", "unknown"}
<1>1. /\ TrailEmpty /\ bot # CNull /\ endTestLevel = 0 /\ testLevels \in Seq({0})
      /\ pc \in {"ready", "add", "cleanup", "scope", "assume", "lates", "untested"}
      /\ ~ Satisfiable(formula) /\ Level = 0 /\ arg \in Seq(LitSet)
  BY DEF Dead, TrailEmpty, Clauses, CNull
<1>2. AddStore \/ CleanupBot \/ CleanupDone \/ OpenScope \/ AssumeBot \/ UntestLates \/ Untested
  BY <1>1
     DEF SolverStep, At, CleanupDerive, CleanupBack, CleanupAssert, CleanupProp, CleanupAgain,
         CleanupFail, AssumeStart, AssumeConflict, AssumeNext, AssumeProp, AssumeTrue,
         AssumeFalse, Assumed, Tested, SearchProp, SearchUnsat, SearchDerive, Backjump,
         SearchAssert, SearchDeadline, SearchStopped, SearchRestart, SearchGuess, SearchModel,
         Guessing
<1>3. CASE AddStore
  <2>1. /\ \/ UNCHANGED trailVars
           \/ mode = "idle" /\ \E ms \in Seq(LitSet) :
                                 ~ TriviallyTrue(ms) /\ AddClause(Simplified(ms))
        /\ pc' = "ready" /\ arg' = <<>> /\ UNCHANGED <<formula, testLevels, endTestLevel, res>>
    BY <1>1, <1>3 DEF AddStore, At, apiVars, histVars
  <2>2. TrailEmpty' /\ arg' \in Seq(LitSet)
    BY <1>1, <2>1, EmptySteps
  <2> QED BY <1>1, <2>1, <2>2 DEF Dead
<1>4. CASE CleanupDone
  <2>1. /\ StartBack(0) /\ pc' \in {"assume", "scope", "lates"}
        /\ UNCHANGED <<formula, arg, testLevels, endTestLevel, res>>
    BY <1>1, <1>4 DEF CleanupDone, apiVars, histVars
  <2>2. TrailEmpty'
    BY <1>1, <2>1, EmptySteps
  <2> QED BY <1>1, <2>1, <2>2 DEF Dead
<1>5. CASE OpenScope
  <2>1. /\ UNCHANGED trailVars /\ pc' = "assume"
        /\ testLevels' = Append(testLevels, Level)
        /\ UNCHANGED <<formula, arg, endTestLevel, res>>
    BY <1>5 DEF OpenScope, At, histVars
  <2>2. testLevels' \in Seq({0})
    BY <1>1, <2>1
  <2>3. TrailEmpty'
    BY <1>1, <2>1, EmptySteps
  <2> QED BY <1>1, <2>1, <2>2, <2>3 DEF Dead
<1>6. CASE CleanupBot \/ AssumeBot \/ UntestLates \/ Untested
  <2>1. /\ UNCHANGED trailVars \/ StartProp
        /\ pc' \in {"cleanup", "ready", "untested"}
        /\ UNCHANGED <<formula, arg, testLevels, endTestLevel>>
        /\ res' \in {res, "unsat", "unknown"}
    <3>1. CASE CleanupBot
      BY <3>1 DEF CleanupBot, At, apiVars, histVars
    <3>2. CASE AssumeBot
      BY <3>2 DEF AssumeBot, AssumeFail, Return, histVars
    <3>3. CASE UntestLates
      BY <3>3 DEF UntestLates, apiVars, histVars
    <3>4. CASE Untested
      BY <3>4 DEF Untested, Return, apiVars, histVars
    <3> QED BY <1>6, <3>1, <3>2, <3>3, <3>4
  <2>2. TrailEmpty'
    BY <1>1, <2>1, EmptySteps
  <2> QED BY <1>1, <2>1, <2>2 DEF Dead
<1> QED BY <1>2, <1>3, <1>4, <1>5, <1>6

(* What a step of Prop keeps of it. *)
LEMMA DeadTrailStep ==
  ASSUME Dead, TrailStep
  PROVE  Dead' /\ res' = res
<1>1. UNCHANGED <<pc, formula, arg, testLevels, endTestLevel, res>>
  BY DEF TrailStep, solverVars
<1>2. TrailEmpty'
  BY EmptySteps DEF Dead, TrailStep
<1> QED BY <1>1, <1>2 DEF Dead

-----------------------------------------------------------------------------
(***************************************************************************)
(* The answers.                                                            *)
(***************************************************************************)

(* Nothing is claimed of a call which runs, or did not end with -1. *)
LEMMA QuietResult ==
  ASSUME res' \in {"none", "sat", "unknown"}
  PROVE  UnsatIsUnsat' /\ PanicIsUnsat' /\ NoFatal'
BY DEF UnsatIsUnsat, PanicIsUnsat, NoFatal

(* What refutes fewer assumptions refutes more. *)
LEMMA MoreUnits ==
  ASSUME NEW F, NEW S, NEW T, S \subseteq T, ~ Satisfiable(F \cup Units(S))
  PROVE  ~ Satisfiable(F \cup Units(T))
<1>1. F \cup Units(S) \subseteq F \cup Units(T)
  BY DEF Units
<1> QED BY <1>1, FewerClauses

(* What refutes the clauses together with S: a clause that is falsified,   *)
(* or a literal of S that is false, where the decisions are in S.          *)
Refuted(x, m, S) ==
  /\ DecWithin(Level, S)
  /\ \/ m \in S /\ m \in LitSet /\ IsFalse(m)
     \/ m = LitNull /\ x \in Clauses /\ Falsified(x)

(* Whatever refutes the clauses together with S leaves them no model. *)
LEMMA RefutedUnsat ==
  ASSUME TrailSound, NEW x, NEW m, NEW S, Refuted(x, m, S)
  PROVE  ~ Satisfiable(formula \cup Units(S))
BY ConflictRefutes, FalseRefutes DEF Refuted

(* The assumptions which an answer -1, or a panic of Test, refutes. *)
Blamed == IF pc = "cleanupAssert" THEN ScopeLits(Len(testLevels)) ELSE asked

(* The calls which end with -1, or with a panic of Test. *)
LEMMA UnsatEnds ==
  ASSUME Live, CleanupFail \/ AssumeConflict \/ AssumeFalse \/ SearchUnsat
               \/ (Untested /\ px # CNull)
  PROVE  /\ mode = "idle" /\ UNCHANGED <<trailVars, formula, scopes, asked, op>>
         /\ pc # "ready" /\ pc' = "ready"
         /\ res' = IF pc = "cleanupAssert" /\ op = "test" THEN "panic" ELSE "unsat"
         /\ IF AssumeFalse THEN Refuted(sx', sxLit', Blamed) /\ sx' = CNull
                           ELSE Refuted(sx', LitNull, Blamed) /\ sxLit' = sxLit
<1>1. /\ mode = "idle" /\ UNCHANGED <<trailVars, formula, scopes, asked, op>>
      /\ \/ pc = "cleanupAssert" /\ CleanupStuck /\ sx' = drvd.P /\ sxLit' = sxLit
         \/ pc = "assuming" /\ px # CNull /\ sx' = px /\ sxLit' = sxLit
         \/ pc = "assuming" /\ px = CNull /\ sx' = sx
            /\ assumes # <<>> /\ IsFalse(assumes[1]) /\ sxLit' = assumes[1]
         \/ pc = "propagated" /\ px # CNull /\ Level <= assumptLevel /\ sx' = px /\ sxLit' = sxLit
         \/ pc = "untested" /\ px # CNull /\ sx' = px /\ sxLit' = sxLit
      /\ AssumeFalse => px = CNull /\ pc = "assuming"
      /\ ~ AssumeFalse => px # CNull \/ pc = "cleanupAssert"
      /\ pc' = "ready"
      /\ res' = IF pc = "cleanupAssert" /\ op = "test" THEN "panic" ELSE "unsat"
  BY DEF CleanupFail, AssumeConflict, AssumeFalse, Untested, SearchUnsat, At, AssumeFail,
         SolveReturn, Return, apiVars, histVars
<1>2. ScopeLits(Len(scopes)) \subseteq asked
  BY <1>1, LevelTypes DEF AskedOK
<1>3. px # CNull => px \in Clauses /\ Falsified(px)
  BY <1>1, PropConflict, LevelTypes DEF TrailSound, HasConflict
<1>4. CASE pc = "cleanupAssert"
  <2> DEFINE c == drvd.P
             n == Len(testLevels)
  <2>1. /\ UnitFirst /\ IsFalse(drvd.Unit) /\ Level = endTestLevel
    BY <1>1, <1>4 DEF Live, DerivedPlace, CleanupStuck
  <2>2. /\ c \in Clauses /\ cls[c] # <<>> /\ IsFalse(cls[c][1])
        /\ \A k \in 2 .. Len(cls[c]) : IsFalse(cls[c][k])
    BY <2>1 DEF UnitFirst
  <2>3. Len(cls[c]) \in Nat
    BY <2>2, ClauseLits, LevelTypes DEF TypeOK, Clauses
  <2>4. Falsified(c)
    <3>1. \A k \in 1 .. Len(cls[c]) : k = 1 \/ k \in 2 .. Len(cls[c])
      BY <2>3
    <3> QED BY <2>2, <3>1 DEF Falsified
  <2>5. DecWithin(Level, ScopeLits(n))
    BY <2>1, LevelTypes DEF ScopesOK
  <2> HIDE DEF c, n
  <2>6. Refuted(c, LitNull, ScopeLits(n))
    BY <2>2, <2>4, <2>5 DEF Refuted
  <2>7. ~ AssumeFalse /\ sx' = c /\ sxLit' = sxLit /\ Blamed = ScopeLits(n)
    BY <1>1, <1>4 DEF c, n, Blamed
  <2> QED BY <1>1, <1>4, <2>6, <2>7
<1>5. CASE pc # "cleanupAssert"
  <2>1. DecWithin(Level, asked)
    <3>1. CASE pc = "assuming"
      <4>1. Level = assumptLevel
        BY <3>1 DEF Live, LevelPlace, Assuming
      <4> QED BY <3>1, <4>1, LevelTypes DEF AskedOK, Assuming
    <3>2. CASE pc = "propagated"
      <4>1. Level = assumptLevel
        <5>1. assumptLevel <= Level
          BY <1>1, <3>2 DEF Live, LevelPlace, TopLevel, Searching
        <5> QED BY <1>1, <3>2, <5>1, LevelTypes
      <4> QED BY <3>2, <4>1, LevelTypes DEF AskedOK, Searching
    <3>3. CASE pc = "untested"
      <4>1. Level = endTestLevel /\ op = "untest"
        BY <1>1, <3>3 DEF Live, LevelPlace, TopLevel, CallOK
      <4>2. Len(scopes) = Len(testLevels)
        BY <4>1, LevelTypes DEF ScopesOK, ScopeClosed
      <4>3. DecWithin(Level, ScopeLits(Len(scopes)))
        BY <4>1, <4>2, LevelTypes DEF ScopesOK
      <4> QED BY <1>2, <4>3 DEF DecWithin
    <3> QED BY <1>1, <1>5, <3>1, <3>2, <3>3
  <2>2. CASE ~ AssumeFalse
    <3>1. px # CNull /\ sx' = px /\ sxLit' = sxLit /\ Blamed = asked /\ pc # "ready"
      BY <1>1, <1>5, <2>2 DEF Blamed
    <3>2. Refuted(px, LitNull, asked)
      BY <1>3, <2>1, <3>1 DEF Refuted
    <3> QED BY <1>1, <1>5, <2>2, <3>1, <3>2
  <2>3. CASE AssumeFalse
    <3>1. /\ pc = "assuming" /\ assumes # <<>> /\ IsFalse(assumes[1])
          /\ sxLit' = assumes[1] /\ sx' = sx /\ Blamed = asked
      BY <1>1, <1>5, <2>3 DEF Blamed
    <3>2. assumes \in Seq(LitSet) /\ ToSet(assumes) \subseteq asked /\ sx = CNull
      BY <3>1 DEF Live, StateTypes, CallOK, AskedOK, ConflictPlace, Assuming
    <3>3. assumes[1] \in LitSet /\ assumes[1] \in asked
      BY <3>1, <3>2, TailFacts
    <3>4. Refuted(sx', sxLit', asked)
      BY <2>1, <3>1, <3>3 DEF Refuted
    <3> QED BY <1>1, <1>5, <2>3, <3>1, <3>2, <3>4
  <2> QED BY <2>2, <2>3
<1> QED BY <1>4, <1>5

(* They are right. *)
LEMMA UnsatAnswers ==
  ASSUME Live, CleanupFail \/ AssumeConflict \/ AssumeFalse \/ SearchUnsat
               \/ (Untested /\ px # CNull)
  PROVE  UnsatIsUnsat' /\ PanicIsUnsat' /\ NoFatal'
<1> DEFINE n == Len(testLevels)
<1>1. /\ mode = "idle" /\ UNCHANGED <<formula, scopes, asked, op>> /\ pc # "ready"
      /\ res' = IF pc = "cleanupAssert" /\ op = "test" THEN "panic" ELSE "unsat"
      /\ \E x, m : Refuted(x, m, Blamed)
  BY UnsatEnds
<1>2. ~ Satisfiable(formula \cup Units(Blamed))
  BY <1>1, RefutedUnsat, LevelTypes
<1>3. /\ ScopeLits(Len(scopes)) \subseteq asked \/ pc = "add"
      /\ Blamed = IF pc = "cleanupAssert" THEN ScopeLits(n) ELSE asked
      /\ n \in Nat /\ Len(scopes) = n + (IF ScopeClosed THEN 1 ELSE 0)
  BY <1>1, LevelTypes DEF AskedOK, ScopesOK, Blamed
<1> HIDE DEF n
<1>4. CASE pc = "cleanupAssert" /\ op = "test"
  <2>1. Len(scopes) = n + 1 /\ scopes # <<>>
    <3>1. ScopeClosed
      BY <1>4 DEF ScopeClosed, Cleaning
    <3>2. Len(scopes) = n + 1
      BY <1>3, <3>1
    <3> QED BY <1>3, <3>2, EmptySeq, LevelTypes
  <2>2. Len(Front(scopes)) = n /\ \A k \in 1 .. n : Front(scopes)[k] = scopes[k]
    <3>1. /\ Len(Front(scopes)) = Len(scopes) - 1
          /\ \A k \in 1 .. (Len(scopes) - 1) : Front(scopes)[k] = scopes[k]
      BY <2>1, FrontFacts, LevelTypes
    <3>2. Len(scopes) - 1 = n
      BY <1>3, <2>1
    <3> QED BY <3>1, <3>2
  <2>3. Elements(Front(scopes)) = ScopeLits(n)
    BY <2>2 DEF Elements, ScopeLits
  <2>4. res' = "panic" /\ Elements(Front(scopes))' = ScopeLits(n)
    BY <1>1, <1>4, <2>3 DEF Elements
  <2> QED BY <1>1, <1>2, <1>3, <1>4, <2>4 DEF UnsatIsUnsat, PanicIsUnsat, NoFatal
<1>5. CASE ~ (pc = "cleanupAssert" /\ op = "test")
  <2>1. ~ Satisfiable(formula \cup Units(asked))
    <3>1. CASE pc # "cleanupAssert"
      BY <1>2, <1>3, <3>1
    <3>2. CASE pc = "cleanupAssert"
      <4>1. Len(scopes) = n
        BY <1>3, <1>5, <3>2, LevelTypes DEF ScopesOK, ScopeClosed
      <4>2. ScopeLits(n) \subseteq asked
        BY <1>3, <3>2, <4>1
      <4> QED BY <1>2, <1>3, <3>2, <4>2, MoreUnits
    <3> QED BY <3>1, <3>2
  <2> QED BY <1>1, <1>5, <2>1 DEF UnsatIsUnsat, PanicIsUnsat, NoFatal
<1> QED BY <1>4, <1>5

-----------------------------------------------------------------------------
(***************************************************************************)
(* The invariant, for clients which take the precaution "final".           *)
(***************************************************************************)

(* It holds at the start. *)
LEMMA IInvInit ==
  ASSUME Init
  PROVE  IInv
<1>1. /\ TrailInit /\ pc = "ready" /\ op = "none" /\ arg = <<>> /\ sx = CNull
      /\ testLevels = <<>> /\ endTestLevel = 0 /\ assumptLevel = 0 /\ assumes = <<>>
      /\ lvls = {} /\ res = "none" /\ formula = {} /\ scopes = <<>>
  BY DEF Init
<1>2. /\ D = <<>> /\ Level = 0 /\ cls = <<>> /\ added = {} /\ bot = CNull
      /\ mode = "idle" /\ px = CNull
  BY <1>1 DEF TrailInit
<1>3. Len(D) = 0 /\ Len(cls) = 0 /\ Len(testLevels) = 0 /\ Len(scopes) = 0
  BY <1>1, <1>2
<1>4. TrailSound
  <2>1. TrailInv
    BY <1>1, InitInv
  <2>2. Sound /\ DecisionsFirst
    BY <1>3 DEF Sound, DecisionsFirst, Clauses
  <2> QED BY <1>2, <2>1, <2>2 DEF TrailSound
<1>5. StateTypes
  <2>1. <<>> \in Seq(LitSet) /\ <<>> \in Seq(Nat) /\ <<>> \in Seq(Seq(LitSet))
    OBVIOUS
  <2> QED BY <1>1, <2>1 DEF StateTypes
<1>6. CallOK /\ LevelPlace /\ ConflictPlace /\ DerivedPlace /\ AskedOK
  BY <1>1, <1>2 DEF CallOK, LevelPlace, ConflictPlace, DerivedPlace, AskedOK, TopLevel,
                    Cleaning, Assuming, Searching
<1>7. ScopesOK
  <2>1. ~ ScopeClosed
    BY <1>1 DEF ScopeClosed, Cleaning
  <2>2. DecWithin(endTestLevel, ScopeLits(Len(testLevels)))
    BY <1>3 DEF DecWithin
  <2> QED BY <1>1, <1>3, <2>1, <2>2 DEF ScopesOK
<1>8. UnsatIsUnsat /\ PanicIsUnsat /\ NoFatal
  BY <1>1 DEF UnsatIsUnsat, PanicIsUnsat, NoFatal
<1> QED BY <1>4, <1>5, <1>6, <1>7, <1>8 DEF IInv, Live

(* A call keeps it. *)
LEMMA LiveCall ==
  ASSUME IInv, Live, Call, "final" \in Discipline
  PROVE  IInv'
<1>1. ~ Stopped
  BY DEF Call
<1>2. CASE \E m \in AssumeSpace : Assume(m)
  <2>1. Live'
    BY <1>1, <1>2, AssumeLive
  <2>2. UNCHANGED <<pc, op, res, formula, scopes, asked>>
    BY <1>2 DEF Assume, histVars
  <2>3. UnsatIsUnsat' /\ PanicIsUnsat' /\ NoFatal'
    BY <2>2 DEF IInv, UnsatIsUnsat, PanicIsUnsat, NoFatal, Returned, Elements
  <2> QED BY <2>1, <2>3 DEF IInv
<1>3. CASE (\E ms \in AddSpace : Add(ms)) \/ Solve \/ Test \/ Untest
  <2>1. Live' /\ res' = "none"
    BY <1>1, <1>3, AddLive, SolveLive, TestLive, UntestLive
  <2> QED BY <2>1, QuietResult DEF IInv
<1> QED BY <1>2, <1>3 DEF Call

(* A step of a call keeps it. *)
LEMMA LiveStep ==
  ASSUME IInv, Live, SolverStep
  PROVE  IInv'
<1>1. CASE AddStore
  BY <1>1, AddStoreLive, QuietResult DEF IInv
<1>2. CASE CleanupDerive \/ CleanupBack \/ CleanupAssert \/ CleanupProp \/ CleanupAgain
           \/ CleanupDone \/ OpenScope \/ AssumeStart \/ AssumeNext \/ AssumeProp \/ AssumeTrue
           \/ Assumed \/ UntestLates \/ SearchProp \/ SearchDerive \/ Backjump \/ SearchAssert
           \/ SearchGuess
  <2>1. Live'
    BY <1>2, DeriveLive, CleanupBackLive, AssertLive, PropCallsLive, QuietStepsLive,
       CleanupDoneLive, OpenScopeLive, AssumeStartLive, AssumeNextLive, BackjumpLive,
       SearchGuessLive
  <2>2. res' = "none"
    <3>1. res' = res
      BY <1>2 DEF CleanupDerive, CleanupBack, CleanupAssert, CleanupProp, CleanupAgain,
                  CleanupDone, OpenScope, AssumeStart, AssumeNext, AssumeProp, AssumeTrue,
                  Assumed, UntestLates, SearchProp, SearchDerive, Backjump, SearchAssert,
                  SearchGuess
    <3>2. pc # "ready"
      BY <1>2 DEF CleanupDerive, CleanupBack, CleanupAssert, CleanupProp, CleanupAgain,
                  CleanupDone, OpenScope, AssumeStart, AssumeNext, AssumeProp, AssumeTrue,
                  Assumed, UntestLates, SearchProp, SearchDerive, Backjump, SearchAssert,
                  SearchGuess, Guessing, At
    <3> QED BY <3>1, <3>2 DEF Live, CallOK
  <2> QED BY <2>1, <2>2, QuietResult DEF IInv
<1>3. CASE CleanupFail \/ AssumeConflict \/ AssumeFalse \/ SearchUnsat
           \/ (Untested /\ px # CNull)
  BY <1>3, ReturnsLive, UnsatAnswers DEF IInv
<1>4. CASE SearchDeadline \/ (Untested /\ px = CNull)
  <2>1. Live'
    BY <1>4, ReturnsLive
  <2>2. res' = "unknown"
    BY <1>4 DEF SearchDeadline, SolveReturn, Untested, Return
  <2> QED BY <2>1, <2>2, QuietResult DEF IInv
<1>5. CASE SearchModel \/ Tested \/ SearchStopped \/ SearchRestart
  <2>1. Live'
    BY <1>5, SearchModelLive, TestedLive, SearchBackLive
  <2>2. res' \in {"none", "sat", "unknown"}
    <3>1. CASE SearchRestart
      <4>1. res' = res /\ pc = "propagated"
        BY <3>1 DEF SearchRestart, At
      <4> QED BY <4>1 DEF Live, CallOK
    <3>2. CASE SearchModel \/ Tested \/ SearchStopped
      BY <3>2, SearchModelLive, TestedLive, SearchBackLive
    <3> QED BY <1>5, <3>1, <3>2
  <2> QED BY <2>1, <2>2, QuietResult DEF IInv
<1>6. ~ CleanupBot /\ ~ AssumeBot
  BY DEF CleanupBot, AssumeBot, Live, TrailSound
<1> QED BY <1>1, <1>2, <1>3, <1>4, <1>5, <1>6 DEF SolverStep

(* Without change nothing is lost. *)
LEMMA IInvStutter ==
  ASSUME IInv, UNCHANGED vars
  PROVE  IInv'
<1>1. UNCHANGED trailVars /\ UNCHANGED solverVars
  BY DEF vars
<1>2. Live => Live'
  <2> SUFFICES ASSUME Live PROVE Live'
    OBVIOUS
  <2>1. TrailSound'
    BY <1>1, TrailFrame, LevelTypes DEF solverVars
  <2>2. StateTypes' /\ CallOK'
    BY <1>1 DEF Live, trailVars, loopVars, solverVars, apiVars, histVars, StateTypes, CallOK
  <2>3. LevelPlace'
    BY <1>1 DEF Live, trailVars, assignVars, loopVars, solverVars, LevelPlace, BackTarget, TopLevel
  <2>4. ScopesOK'
    BY <1>1 DEF Live, trailVars, assignVars, solverVars, ScopesOK, ScopeClosed, DecWithin, ScopeLits
  <2>5. AskedOK'
    BY <1>1 DEF Live, trailVars, assignVars, solverVars, AskedOK, DecWithin, ScopeLits
  <2>6. ConflictPlace' /\ DerivedPlace'
    BY <1>1 DEF Live, trailVars, assignVars, clauseVars, loopVars, solverVars, ConflictPlace,
                DerivedPlace, HasConflict, Falsified, Clauses, IsFalse, IsFree, UnitFirst
  <2> QED BY <2>1, <2>2, <2>3, <2>4, <2>5, <2>6 DEF Live
<1>3. Dead => Dead'
  BY <1>1, EmptySteps DEF Dead, solverVars
<1>4. UnsatIsUnsat' /\ PanicIsUnsat' /\ NoFatal'
  BY <1>1 DEF IInv, solverVars, UnsatIsUnsat, PanicIsUnsat, NoFatal, Returned, Elements
<1> QED BY <1>2, <1>3, <1>4 DEF IInv

(* Every step keeps the invariant. *)
LEMMA IInvNext ==
  ASSUME IInv, [Next]_vars, "final" \in Discipline
  PROVE  IInv'
<1>1. CASE Live /\ Call
  BY <1>1, LiveCall
<1>2. CASE Live /\ SolverStep
  BY <1>2, LiveStep
<1>3. CASE Live /\ TrailStep
  <2>1. Live'
    BY <1>3, TrailStepLive
  <2>2. UNCHANGED <<pc, op, res, formula, scopes, asked>>
    BY <1>3 DEF TrailStep, solverVars
  <2>3. UnsatIsUnsat' /\ PanicIsUnsat' /\ NoFatal'
    BY <2>2 DEF IInv, UnsatIsUnsat, PanicIsUnsat, NoFatal, Returned, Elements
  <2> QED BY <2>1, <2>3 DEF IInv
<1>4. CASE Dead /\ Next
  <2>1. Dead' /\ res' \in {res, "none", "unsat", "unknown"}
    BY <1>4, DeadCalls, DeadSteps, DeadTrailStep DEF Next
  <2>2. NoFatal'
    BY <2>1 DEF IInv, NoFatal
  <2>3. ~ Satisfiable(formula')
    BY <2>1 DEF Dead
  <2>4. \A S : ~ Satisfiable(formula' \cup Units(S))
    BY <2>3, FewerClauses
  <2>5. UnsatIsUnsat' /\ PanicIsUnsat'
    BY <2>4 DEF UnsatIsUnsat, PanicIsUnsat, Satisfiable, Units, ModelOf
  <2> QED BY <2>1, <2>2, <2>5 DEF IInv
<1>5. CASE UNCHANGED vars
  BY <1>5, IInvStutter
<1> QED BY <1>1, <1>2, <1>3, <1>4, <1>5 DEF IInv, Next

-----------------------------------------------------------------------------
(***************************************************************************)
(* The types of the variables of the solver, on top of the invariant.      *)
(***************************************************************************)

(* Every open level has a variable of its own. *)
LEMMA LevelBound ==
  ASSUME TrailCore, mode = "idle"
  PROVE  Level \in Nat /\ Level <= NVars
<1> DEFINE n == Level
           Of(k, v) == v \in VarSet /\ levels[v] = k
           f == [k \in 1 .. n |-> CHOOSE v : Of(k, v)]
<1>1. n \in Nat /\ NVars \in Nat
  BY NVarsAssumption DEF TrailCore, TypeOK
<1>2. ASSUME NEW k \in 1 .. n
      PROVE  f[k] \in VarSet /\ levels[f[k]] = k
  <2>1. k \in 1 .. TopLevel
    BY DEF TopLevel
  <2>2. PICK i \in 1 .. Len(D) : levels[Var(D[i])] = k
    BY <2>1 DEF TrailCore, LevelsOK
  <2>3. Of(k, Var(D[i]))
    BY <2>2, TrailFacts
  <2>4. f[k] = CHOOSE v : Of(k, v)
    OBVIOUS
  <2> HIDE DEF f
  <2>5. Of(k, f[k])
    BY <2>3, <2>4, Zenon
  <2> QED BY <2>5
<1>3. f \in [1 .. n -> VarSet]
  BY <1>2
<1> HIDE DEF f, n
<1>4. /\ IsFiniteSet(1 .. n) /\ Cardinality(1 .. n) = n
      /\ IsFiniteSet(VarSet) /\ Cardinality(VarSet) = NVars
  <2>1. \A k \in Nat : IsFiniteSet(1 .. k) /\ Cardinality(1 .. k) = IF 1 > k THEN 0 ELSE k - 1 + 1
    BY FS_Interval
  <2>2. \A k \in Nat : IsFiniteSet(1 .. k) /\ Cardinality(1 .. k) = k
    BY <2>1
  <2> QED BY <1>1, <2>2 DEF VarSet
<1>5. n <= NVars
  <2> SUFFICES ASSUME NVars < n PROVE FALSE
    BY <1>1
  <2>1. Cardinality(VarSet) < Cardinality(1 .. n)
    BY <1>4
  <2>2. PICK i \in 1 .. n, j \in 1 .. n : i # j /\ f[i] = f[j]
    BY <1>3, <1>4, <2>1, FS_PigeonHole
  <2> QED BY <1>2, <2>2
<1> QED BY <1>1, <1>5 DEF n

(* Clauses are never forgotten. *)
LEMMA ClausesGrow ==
  ASSUME TrailCore, [Next]_vars
  PROVE  Clauses \subseteq Clauses'
<1>1. ASSUME NEW ms, Link(ms) PROVE Clauses \subseteq Clauses'
  <2>1. Len(cls') = Len(cls) + 1 /\ Len(cls) \in Nat
    BY <1>1 DEF Link, TrailCore, TypeOK
  <2> QED BY <2>1 DEF Clauses
<1>2. (\E ms : Link(ms)) => Clauses \subseteq Clauses'
  BY <1>1
<1>3. UNCHANGED cls => Clauses \subseteq Clauses'
  BY DEF Clauses
<1>4. CASE Call
  <2>1. UNCHANGED cls
    BY <1>4 DEF Call, Add, Assume, Solve, Test, Untest, StartBack, trailVars, clauseVars
  <2> QED BY <1>3, <2>1
<1>5. CASE TrailStep
  <2>1. CASE PropStep
    BY <2>1, PropStepEffect DEF PropEffect, SameClauses
  <2>2. CASE BackStep
    BY <1>3, <2>2 DEF BackStep, BackPop, BackStop, clauseVars
  <2> QED BY <1>5, <2>1, <2>2 DEF TrailStep
<1>6. CASE AddStore \/ CleanupDerive \/ SearchDerive
  <2>1. UNCHANGED trailVars \/ \E ms : Link(ms)
    BY <1>6 DEF AddStore, CleanupDerive, SearchDerive, LearnFrom, Learn, AddClause
  <2> QED BY <1>2, <1>3, <2>1 DEF trailVars, clauseVars
<1>7. CASE CleanupBack \/ CleanupDone \/ Backjump \/ SearchStopped \/ SearchRestart
           \/ CleanupProp \/ AssumeStart \/ AssumeProp \/ UntestLates \/ SearchProp
           \/ CleanupAssert \/ SearchAssert \/ AssumeNext \/ SearchGuess
  <2>1. UNCHANGED cls
    BY <1>7 DEF CleanupBack, CleanupDone, Backjump, SearchStopped, SearchRestart, CleanupProp,
                AssumeStart, AssumeProp, UntestLates, SearchProp, CleanupAssert, SearchAssert,
                AssumeNext, SearchGuess, StartBack, StartProp, AssertDerived, clauseVars
  <2> QED BY <1>3, <2>1
<1>8. CASE CleanupBot \/ CleanupAgain \/ CleanupFail \/ OpenScope \/ AssumeBot
           \/ AssumeConflict \/ AssumeTrue \/ AssumeFalse \/ Assumed \/ Tested \/ Untested
           \/ SearchUnsat \/ SearchDeadline \/ SearchModel \/ UNCHANGED vars
  <2>1. UNCHANGED cls
    BY <1>8 DEF CleanupBot, CleanupAgain, CleanupFail, OpenScope, AssumeBot, AssumeConflict,
                AssumeTrue, AssumeFalse, Assumed, Tested, Untested, SearchUnsat,
                SearchDeadline, SearchModel, AssumeFail, trailVars, clauseVars, vars
  <2> QED BY <1>3, <2>1
<1> QED BY <1>4, <1>5, <1>6, <1>7, <1>8 DEF Next, SolverStep

(* The conjuncts of SolverTypeOK which do not follow from IInv ... *)
OwnTypes ==
  /\ sx \in {CNull} \cup Clauses /\ sxLit \in LitSet \cup {LitNull}
  /\ assumptLevel \in Nat /\ assumes \in Seq(AssumeSpace) /\ lvls \subseteq 1 .. NVars
  /\ drvd \in [P : Nat, Unit : LitSet \cup {LitNull}, TargetLevel : Nat]
  /\ res \in {"none", "sat", "unsat", "unknown", "fatal", "panic"}
  /\ restarts \in 0 .. MaxRestarts /\ calls \in 0 .. MaxCalls

(* ... and the others. *)
LEMMA OtherTypes ==
  ASSUME IInv
  PROVE  TrailCore /\ TypeOK /\ testLevels \in Seq(Nat) /\ endTestLevel \in Nat
<1>1. CASE Live
  BY <1>1, LevelTypes DEF TrailSound, TrailInv
<1>2. CASE Dead
  <2>1. testLevels \in Seq(Nat)
    <3>1. testLevels \in Seq({0})
      BY <1>2 DEF Dead
    <3> QED BY <3>1
  <2> QED BY <1>2, <2>1 DEF Dead, TrailEmpty, TrailCore
<1> QED BY <1>1, <1>2 DEF IInv

(* A step sets these variables so: *)
Settings ==
  /\ \/ sx' \in {sx, CNull, px}
     \/ (sx' = bot /\ pc = "assume")
     \/ (sx' = drvd.P /\ pc = "cleanupAssert")
  /\ sxLit' \in {sxLit, LitNull} \/ (assumes # <<>> /\ sxLit' = assumes[1])
  /\ assumptLevel' \in {assumptLevel, 0, Level, assumptLevel + 1}
  /\ \/ assumes' \in {assumes, <<>>}
     \/ assumes # <<>> /\ assumes' = Tail(assumes)
     \/ \E m \in AssumeSpace : assumes' = Append(assumes, m)
  /\ drvd' \in {drvd, NoDerived} /\ lvls' = lvls
  /\ res' \in {res, "none", "sat", "unsat", "unknown", "fatal", "panic"}
  /\ restarts' \in {restarts, 0} \/ (restarts' = restarts + 1 /\ restarts < MaxRestarts)
  /\ calls' = calls \/ (calls' = calls + 1 /\ calls < MaxCalls)

(* Every step but the two which call Derive. *)
LEMMA StepSettings ==
  ASSUME [Next]_vars, ~ CleanupDerive, ~ SearchDerive
  PROVE  Settings
<1>1. CASE \E ms \in AddSpace : Add(ms)
  BY <1>1 DEF Settings, Add, Begin, apiVars
<1>2. CASE (\E m \in AssumeSpace : Assume(m)) \/ Solve \/ Test \/ Untest
  BY <1>2 DEF Settings, Assume, Solve, Test, Untest, Begin, Counted, apiVars, histVars
<1>3. CASE TrailStep \/ UNCHANGED vars
  BY <1>3 DEF Settings, TrailStep, vars, solverVars
<1>4. CASE AddStore \/ CleanupBot \/ CleanupBack \/ CleanupAssert \/ CleanupProp
           \/ CleanupAgain \/ CleanupDone
  BY <1>4 DEF Settings, AddStore, CleanupBot, CleanupBack, CleanupAssert, CleanupProp,
              CleanupAgain, CleanupDone, apiVars, histVars
<1>5. CASE CleanupFail
  BY <1>5 DEF Settings, CleanupFail, At, Return, histVars
<1>6. CASE AssumeBot
  BY <1>6 DEF Settings, AssumeBot, AssumeFail, At, Return, histVars
<1>7. CASE AssumeConflict \/ AssumeFalse
  BY <1>7 DEF Settings, AssumeConflict, AssumeFalse, AssumeFail, Return, histVars
<1>8. CASE OpenScope \/ AssumeStart \/ AssumeNext \/ AssumeProp \/ AssumeTrue \/ Assumed
           \/ UntestLates
  BY <1>8 DEF Settings, OpenScope, AssumeStart, AssumeNext, AssumeProp, AssumeTrue, Assumed,
              UntestLates, apiVars, histVars
<1>9. CASE Tested \/ Untested
  BY <1>9 DEF Settings, Tested, Untested, Return, apiVars, histVars
<1>10. CASE SearchProp \/ Backjump \/ SearchAssert \/ SearchRestart \/ SearchGuess
  BY <1>10 DEF Settings, SearchProp, Backjump, SearchAssert, SearchRestart, SearchGuess,
               apiVars, histVars
<1>11. CASE SearchUnsat \/ SearchDeadline \/ SearchStopped \/ SearchModel
  BY <1>11 DEF Settings, SearchUnsat, SearchDeadline, SearchStopped, SearchModel, SolveReturn,
               Return, histVars
<1> QED BY <1>1, <1>2, <1>3, <1>4, <1>5, <1>6, <1>7, <1>8, <1>9, <1>10, <1>11
        DEF Next, Call, SolverStep

(* Derive leaves a clause, its first literal and marks of open levels. *)
LEMMA DeriveTypes ==
  ASSUME Live, OwnTypes, CleanupDerive \/ SearchDerive
  PROVE  /\ drvd' \in [P : Nat, Unit : LitSet \cup {LitNull}, TargetLevel : Nat]
         /\ lvls' \subseteq 1 .. NVars
<1>1. PICK x : IsConflict(x) /\ LearnFrom(x) /\ mode = "idle"
  BY DeriveConflict
<1> DEFINE d == Derive(x)
<1>2. /\ lvls' = d.lvls
      /\ drvd' = [P |-> Len(cls) + 1, Unit |-> d.cLits[1], TargetLevel |-> d.target]
  BY <1>1 DEF LearnFrom
<1>3. DerivedOK(d)
  BY <1>1, DerivedClause, LevelTypes DEF TrailSound, TrailInv, Live, StateTypes
<1> HIDE DEF d
<1>4. /\ d.cLits \in Seq(LitSet) /\ d.cLits # <<>> /\ d.target \in Nat
      /\ lvls' \subseteq lvls \cup 1 .. Level
  BY <1>2, <1>3, Zenon DEF DerivedOK, Asserting
<1>5. Level \in Nat /\ NVars \in Nat /\ Level <= NVars
  BY <1>1, LevelBound, NVarsAssumption, LevelTypes DEF TrailSound, TrailInv
<1>6. lvls' \subseteq 1 .. NVars
  BY <1>4, <1>5 DEF OwnTypes
<1>7. d.cLits[1] \in LitSet /\ Len(cls) + 1 \in Nat
  BY <1>4, TailFacts, LevelTypes DEF TypeOK
<1> QED BY <1>2, <1>4, <1>6, <1>7

(* Every step keeps the types. *)
LEMMA TypesNext ==
  ASSUME IInv, IInv', OwnTypes, [Next]_vars
  PROVE  OwnTypes'
<1>1. Clauses \subseteq Clauses' /\ TypeOK /\ Level \in Nat /\ px \in {CNull} \cup Clauses
  BY OtherTypes, ClausesGrow DEF TypeOK
<1>2. CASE CleanupDerive \/ SearchDerive
  <2>1. Live
    BY <1>2 DEF IInv, Dead, TrailEmpty, Clauses, CNull, CleanupDerive, SearchDerive, At
  <2>2. UNCHANGED <<sx, sxLit, assumptLevel, assumes, res, restarts, calls>>
    BY <1>2 DEF CleanupDerive, SearchDerive, apiVars, histVars
  <2>3. sx' \in {CNull} \cup Clauses'
    BY <1>1, <2>2 DEF OwnTypes
  <2> QED BY <1>2, <2>1, <2>2, <2>3, DeriveTypes DEF OwnTypes
<1>3. CASE ~ CleanupDerive /\ ~ SearchDerive
  <2>1. Settings
    BY <1>3, StepSettings
  <2>2. sx' \in {CNull} \cup Clauses'
    <3>1. CASE sx' \in {sx, CNull, px}
      BY <1>1, <3>1 DEF OwnTypes
    <3>2. CASE sx' = bot /\ pc = "assume"
      <4>1. CASE Live
        BY <3>2, <4>1 DEF Live, TrailSound
      <4>2. CASE Dead
        BY <1>1, <3>2, <4>2 DEF Dead, TrailEmpty
      <4> QED BY <4>1, <4>2 DEF IInv
    <3>3. CASE sx' = drvd.P /\ pc = "cleanupAssert"
      <4>1. Live
        BY <3>3 DEF IInv, Dead
      <4>2. drvd.P \in Clauses
        BY <3>3, <4>1 DEF Live, DerivedPlace, UnitFirst
      <4> QED BY <1>1, <3>3, <4>2
    <3> QED BY <2>1, <3>1, <3>2, <3>3 DEF Settings
  <2>3. sxLit' \in LitSet \cup {LitNull} /\ assumes' \in Seq(AssumeSpace)
    <3>1. assumes # <<>> => assumes[1] \in AssumeSpace /\ Tail(assumes) \in Seq(AssumeSpace)
      BY TailFacts DEF OwnTypes
    <3>2. \A m \in AssumeSpace : Append(assumes, m) \in Seq(AssumeSpace)
      BY DEF OwnTypes
    <3>3. assumes' \in Seq(AssumeSpace)
      <4>1. <<>> \in Seq(AssumeSpace) /\ assumes \in Seq(AssumeSpace)
        BY DEF OwnTypes
      <4>2. \/ assumes' \in {assumes, <<>>}
            \/ assumes # <<>> /\ assumes' = Tail(assumes)
            \/ \E m \in AssumeSpace : assumes' = Append(assumes, m)
        BY <2>1, Zenon DEF Settings
      <4> QED BY <3>1, <3>2, <4>1, <4>2
    <3>4. sxLit' \in LitSet \cup {LitNull}
      BY <2>1, <3>1, AssumeSpaceAssumption DEF OwnTypes, Settings
    <3> QED BY <3>3, <3>4
  <2>4. /\ assumptLevel' \in Nat /\ restarts' \in 0 .. MaxRestarts /\ calls' \in 0 .. MaxCalls
    BY <1>1, <2>1, BoundsAssumption DEF OwnTypes, Settings
  <2>5. /\ drvd' \in [P : Nat, Unit : LitSet \cup {LitNull}, TargetLevel : Nat]
        /\ lvls' \subseteq 1 .. NVars
        /\ res' \in {"none", "sat", "unsat", "unknown", "fatal", "panic"}
    <3>1. NoDerived \in [P : Nat, Unit : LitSet \cup {LitNull}, TargetLevel : Nat]
      BY DEF NoDerived, CNull
    <3> QED BY <2>1, <3>1 DEF OwnTypes, Settings
  <2> QED BY <2>2, <2>3, <2>4, <2>5 DEF OwnTypes
<1> QED BY <1>2, <1>3

(* They hold at the start. *)
LEMMA TypesInit ==
  ASSUME Init
  PROVE  OwnTypes
<1>1. MaxRestarts \in Nat /\ MaxCalls \in Nat
  BY BoundsAssumption
<1>2. NoDerived \in [P : Nat, Unit : LitSet \cup {LitNull}, TargetLevel : Nat]
  BY DEF NoDerived, CNull
<1> QED BY <1>1, <1>2 DEF Init, OwnTypes

-----------------------------------------------------------------------------
(***************************************************************************)
(* The theorems.                                                           *)
(***************************************************************************)

(* What the solver relies on between its steps. *)
THEOREM SolverInvariant == "final" \in Discipline => (Spec => []IInv)
<1> SUFFICES ASSUME "final" \in Discipline PROVE Spec => []IInv
  OBVIOUS
<1>1. Init => IInv
  BY IInvInit
<1>2. IInv /\ [Next]_vars => IInv'
  BY IInvNext
<1> QED BY <1>1, <1>2, PTL DEF Spec

(* An answer -1 of Solve, Test or Untest is right: the clauses added are   *)
(* unsatisfiable together with the assumptions in force. *)
THEOREM UnsatAnswersRight == "final" \in Discipline => (Spec => []UnsatIsUnsat)
BY SolverInvariant, PTL DEF IInv

(* Test panics with "test after unresolved unsat" only when the clauses    *)
(* are unsatisfiable under the assumptions already tested. *)
THEOREM PanicsRight == "final" \in Discipline => (Spec => []PanicIsUnsat)
BY SolverInvariant, PTL DEF IInv

(* CheckModel never finds an added clause without a true literal: the      *)
(* panic "internal error in solve: sat model" is never reached. *)
THEOREM ModelsCheck == "final" \in Discipline => (Spec => []NoFatal)
BY SolverInvariant, PTL DEF IInv

(* A clause which Derive learned follows from the added clauses alone. *)
LEMMA LearnedFollow ==
  ASSUME IInv
  PROVE  LearnedImplied
<1> SUFFICES ASSUME pc \in {"backjump", "cleanupBack"}, NEW A \in SUBSET VarSet,
                    ModelOf(A, formula \cup Units({Not(m) : m \in ToSet(cls[drvd.P])}))
             PROVE  FALSE
  BY DEF LearnedImplied, Satisfiable
<1> DEFINE c == drvd.P
<1>1. Live /\ c \in Clauses
  BY DEF IInv, Dead, Live, DerivedPlace, UnitFirst
<1>2. Model(A) /\ \A m \in {Not(n) : n \in ToSet(cls[c])} : HoldsIn(m, A)
  BY UnitsHoldIn
<1>3. PICK k \in 1 .. Len(cls[c]) : HoldsIn(cls[c][k], A)
  BY <1>1, <1>2 DEF Live, TrailSound, Sound
<1>4. PICK m \in LitSet : m = cls[c][k]
  BY <1>1, ClauseLits, LevelTypes DEF TypeOK, Clauses
<1>5. HoldsIn(Not(m), A)
  BY <1>2, <1>4 DEF ToSet
<1> QED BY <1>3, <1>4, <1>5, HoldsFacts

(* Learning is sound, whatever assumptions and scopes a clause is learned  *)
(* under: it may be kept for every later call. *)
THEOREM LearnedClausesFollow == "final" \in Discipline => (Spec => []LearnedImplied)
BY SolverInvariant, LearnedFollow, PTL

(* After backjumping the unit of the derived clause has no value and the   *)
(* other literals are false: Assign is never called on a literal with a    *)
(* value. *)
LEMMA UnitAsserts ==
  ASSUME IInv
  PROVE  UnitIsAsserted
<1> SUFFICES ASSUME pc = "assert" \/ (pc = "cleanupAssert" /\ ~ CleanupStuck), mode = "idle"
             PROVE  /\ IsFree(drvd.Unit) /\ cls[drvd.P][1] = drvd.Unit
                    /\ \A k \in 2 .. Len(cls[drvd.P]) : IsFalse(cls[drvd.P][k])
  BY DEF UnitIsAsserted
<1>1. Live
  BY DEF IInv, Dead
<1>2. UnitFirst
  BY <1>1 DEF Live, DerivedPlace
<1>3. ~ (/\ pc = "cleanupAssert" /\ drvd.TargetLevel < endTestLevel
         /\ levels[Var(drvd.Unit)] = Level)
  BY <1>1, LevelTypes DEF CleanupStuck
<1>4. IsFree(drvd.Unit)
  BY <1>1, <1>3 DEF Live, DerivedPlace
<1> QED BY <1>2, <1>4 DEF UnitFirst

(* The derived clause asserts its unit, in the search of Solve and in      *)
(* cleanupSolve. *)
THEOREM UnitsAssert == "final" \in Discipline => (Spec => []UnitIsAsserted)
BY SolverInvariant, UnitAsserts, PTL

(* Untest never has levels left for backWithLates to undo. *)
LEMMA NoLates ==
  ASSUME IInv
  PROVE  LatesUnused
<1>1. ASSUME Live, At("lates") PROVE Level <= endTestLevel
  BY <1>1, LevelTypes DEF At, Live, LevelPlace, TopLevel
<1>2. ASSUME Dead, At("lates") PROVE Level <= endTestLevel
  BY <1>2 DEF At, Dead, TrailEmpty
<1> QED BY <1>1, <1>2 DEF IInv, LatesUnused

(* Trail.backWithLates, which would have to reorder late implications,     *)
(* always returns at once. *)
THEOREM LatesNeverUsed == "final" \in Discipline => (Spec => []LatesUnused)
BY SolverInvariant, NoLates, PTL

(* Between calls the levels of the scopes are in order. *)
LEMMA ScopesInOrder ==
  ASSUME IInv
  PROVE  ScopesNest
<1> SUFFICES ASSUME At("ready"), ~ Stopped, testLevels # <<>>
             PROVE  /\ \A i, j \in 1 .. Len(testLevels) : i <= j => testLevels[i] <= testLevels[j]
                    /\ Last(testLevels) <= endTestLevel /\ endTestLevel <= Level
  BY DEF ScopesNest
<1>1. CASE Live
  <2>1. /\ Len(testLevels) \in 1 .. Len(testLevels)
        /\ Last(testLevels) = testLevels[Len(testLevels)]
    <3>1. testLevels \in Seq(Nat) /\ testLevels # <<>>
      BY <1>1, LevelTypes
    <3>2. /\ Len(testLevels) \in Nat /\ Len(testLevels) >= 1
          /\ Last(testLevels) = testLevels[Len(testLevels)]
      BY <3>1, FrontFacts
    <3> QED BY <3>2
  <2>2. endTestLevel <= Level
    BY <1>1 DEF At, Live, LevelPlace, TopLevel
  <2> QED BY <1>1, <2>1, <2>2 DEF Live, ScopesOK
<1>2. CASE Dead
  <2>1. /\ testLevels \in Seq({0}) /\ endTestLevel = 0 /\ Level = 0
    BY <1>2 DEF Dead, TrailEmpty
  <2>2. Last(testLevels) \in {0}
    BY <2>1, FrontFacts
  <2>3. \A i \in 1 .. Len(testLevels) : testLevels[i] = 0
    BY <2>1
  <2> QED BY <2>1, <2>2, <2>3
<1> QED BY <1>1, <1>2 DEF IInv

(* Test scopes nest: Untest goes back to where the matching Test began. *)
THEOREM ScopesStayNested == "final" \in Discipline => (Spec => []ScopesNest)
BY SolverInvariant, ScopesInOrder, PTL

(* What the solver relies on between its steps holds as long as the client *)
(* makes no further call once it knows that the formula itself is          *)
(* unsatisfiable: its types, a clause that asserts, scopes that nest,      *)
(* nothing for backWithLates, and models that pass CheckModel. *)
THEOREM SolverInvAlways == "final" \in Discipline => (Spec => []SolverInv)
<1> SUFFICES ASSUME "final" \in Discipline PROVE Spec => []SolverInv
  OBVIOUS
<1>1. Init => IInv /\ OwnTypes
  BY IInvInit, TypesInit
<1>2. (IInv /\ OwnTypes) /\ [Next]_vars => (IInv /\ OwnTypes)'
  BY IInvNext, TypesNext
<1>3. IInv /\ OwnTypes => SolverInv
  <2> SUFFICES ASSUME IInv, OwnTypes PROVE SolverInv
    OBVIOUS
  <2>1. SolverTypeOK
    BY OtherTypes DEF OwnTypes, SolverTypeOK
  <2>2. NoFatal
    BY DEF IInv
  <2> QED BY <2>1, <2>2, UnitAsserts, ScopesInOrder, NoLates DEF SolverInv
<1> QED BY <1>1, <1>2, <1>3, PTL DEF Spec

(* The core of the invariant of the trail holds inside the solver always,  *)
(* and all of it while no added clause is empty: learning, backjumping,    *)
(* assuming and adding never break it. *)
THEOREM TrailInvInSolver ==
  "final" \in Discipline => (Spec => [](TrailCore /\ (bot = CNull => TrailInv)))
<1>1. IInv => TrailCore
  BY OtherTypes
<1>2. IInv => (bot = CNull => TrailInv)
  BY DEF IInv, Live, Dead, TrailSound, TrailEmpty, Clauses, CNull
<1> QED BY <1>1, <1>2, SolverInvariant, PTL

-----------------------------------------------------------------------------
(***************************************************************************)
(* The solver keeps to the contract of the trail.                          *)
(***************************************************************************)
WithinContract == UNCHANGED trailVars \/ ContractClient \/ PropStep \/ BackStep

(* A call of Back undoes levels or does nothing. *)
LEMMA BackContract ==
  ASSUME NEW l, StartBack(l)
  PROVE  WithinContract
<1>1. CASE Level <= l
  BY <1>1 DEF StartBack, WithinContract, trailVars, assignVars, clauseVars
<1>2. CASE ~ (Level <= l)
  BY <1>2 DEF StartBack, ClientBack, WithinContract, ContractClient
<1> QED BY <1>1, <1>2

(* A clause given to Add is stored at level 0, free of conflicts, without  *)
(* its false literals.                                                     *)
LEMMA AddContract ==
  ASSUME Live, AddStore
  PROVE  WithinContract
<1>1. /\ pc = "add" /\ mode = "idle" /\ px = CNull /\ Level = 0 /\ arg \in Seq(LitSet)
      /\ IF TriviallyTrue(arg) THEN UNCHANGED trailVars ELSE AddClause(Simplified(arg))
  BY DEF AddStore, At, Live, StateTypes, LevelPlace, TopLevel, ConflictPlace
<1>2. CASE TriviallyTrue(arg)
  BY <1>1, <1>2 DEF WithinContract
<1>3. CASE ~ TriviallyTrue(arg)
  <2>1. PICK ks : ks = Simplified(arg)
    OBVIOUS
  <2>2. AddClause(ks)
    BY <1>1, <1>3, <2>1
  <2>3. TrailCore /\ DecisionsFirst
    BY DEF Live, TrailSound, TrailInv
  <2>4. /\ ks \in Seq(LitSet) /\ DistinctVars(ks) /\ \A k \in 1 .. Len(ks) : IsFree(ks[k])
        /\ Grown(ks)
    BY <1>1, <1>3, <2>1, <2>2, <2>3, AddMoves
  <2>5. ClientAdd(ks)
    BY <1>1, <2>2, <2>4 DEF ClientAdd
  <2>6. Len(cls') > Len(cls) /\ Last(cls') = ks
    BY <2>4, LevelTypes DEF Grown, Last, TypeOK
  <2> QED BY <2>4, <2>5, <2>6 DEF WithinContract, ContractClient
<1> QED BY <1>2, <1>3

(* A learned clause is false, with one literal of the conflict's level. *)
LEMMA DeriveContract ==
  ASSUME Live, CleanupDerive \/ SearchDerive
  PROVE  WithinContract
<1>1. PICK x : IsConflict(x) /\ LearnFrom(x) /\ px # CNull /\ mode = "idle"
  BY DeriveConflict
<1>2. Level > 0 /\ lvls \subseteq Nat
  BY <1>1, LevelTypes DEF IsConflict, Live, StateTypes
<1>3. PICK d : d = Derive(x)
  OBVIOUS
<1>4. DerivedOK(d)
  BY <1>1, <1>2, <1>3, DerivedClause DEF Live, TrailSound, TrailInv
<1>5. PICK ms : ms = d.cLits
  OBVIOUS
<1>6. Learn(ms)
  BY <1>1, <1>3, <1>5 DEF LearnFrom
<1>7. ms \in Seq(LitSet) /\ Asserting(ms)
  BY <1>4, <1>5 DEF DerivedOK
<1>8. Grown(ms)
  BY <1>6, <1>7, LinkFacts, LevelTypes DEF Asserting, Learn
<1>9. Len(cls') > Len(cls) /\ Last(cls') = ms
  BY <1>8, LevelTypes DEF Grown, Last, TypeOK
<1>10. ClientLearn(ms)
  BY <1>1, <1>2, <1>6, <1>7 DEF ClientLearn
<1> QED BY <1>7, <1>9, <1>10 DEF WithinContract, ContractClient

(* What Assign adds to the trail. *)
LEMMA AssignLast ==
  ASSUME TypeOK, NEW m \in LitSet, NEW c \in Nat, Assign(m, c)
  PROVE  Len(D') > Len(D) /\ Last(D') = m /\ reasons'[Var(m)] = c
<1>1. AssignEffect(m, c)
  BY AssignFacts
<1> QED BY <1>1, LitFacts DEF AssignEffect, Last, TypeOK

(* The unit of a derived clause is free when it is asserted. *)
LEMMA AssertContract ==
  ASSUME Live, CleanupAssert \/ SearchAssert
  PROVE  WithinContract
<1>1. /\ mode = "idle" /\ AssertDerived
      /\ pc = "assert" \/ (pc = "cleanupAssert" /\ ~ CleanupStuck)
  BY DEF CleanupAssert, SearchAssert, At
<1>2. UnitFirst /\ px = CNull /\ IsFree(drvd.Unit)
  <2>1. UnitFirst
    BY <1>1 DEF Live, DerivedPlace
  <2>2. ~ (/\ pc = "cleanupAssert" /\ drvd.TargetLevel < endTestLevel
           /\ levels[Var(drvd.Unit)] = Level)
    BY <1>1, LevelTypes DEF CleanupStuck
  <2> QED BY <1>1, <2>1, <2>2 DEF Live, DerivedPlace
<1>3. PICK c, m : c = drvd.P /\ m = drvd.Unit
  OBVIOUS
<1>4. /\ c \in Clauses /\ cls[c] # <<>> /\ cls[c][1] = m /\ IsFree(m)
      /\ \A k \in 2 .. Len(cls[c]) : IsFalse(cls[c][k])
  BY <1>2, <1>3 DEF UnitFirst
<1>5. Assign(m, c) /\ UNCHANGED <<head, clauseVars, heap, loopVars>>
  BY <1>1, <1>3 DEF AssertDerived
<1>6. m \in LitSet /\ c \in Nat
  <2>1. c \in Nat
    BY <1>4 DEF Clauses
  <2>2. cls \in Seq(Seq(LitSet)) /\ c \in 1 .. Len(cls)
    BY <1>4, LevelTypes DEF TypeOK, Clauses
  <2>3. cls[c] \in Seq(LitSet) /\ \A k \in 1 .. Len(cls[c]) : cls[c][k] \in LitSet
    BY <2>2, ClauseLits
  <2>4. Len(cls[c]) \in Nat /\ Len(cls[c]) # 0
    BY <1>4, <2>3
  <2>5. 1 \in 1 .. Len(cls[c])
    BY <2>4
  <2> QED BY <1>4, <2>1, <2>3, <2>5
<1>7. Len(D') > Len(D) /\ Last(D') = m /\ reasons'[Var(m)] = c
  BY <1>5, <1>6, AssignLast, LevelTypes
<1>8. ClientAssert(c)
  BY <1>1, <1>2, <1>4, <1>5 DEF ClientAssert
<1> QED BY <1>4, <1>7, <1>8 DEF WithinContract, ContractClient

(* An assumption or a guess opens a level on a propagated trail. *)
LEMMA DecideContract ==
  ASSUME Live, AssumeNext \/ SearchGuess
  PROVE  WithinContract
<1>1. mode = "idle" /\ px = CNull /\ head = Len(D)
  BY DEF AssumeNext, SearchGuess, Guessing, At, Live, ConflictPlace
<1>2. CNull \in Nat
  BY DEF CNull
<1>3. CASE AssumeNext
  <2>1. PICK m : m = assumes[1]
    OBVIOUS
  <2>2. m \in LitSet /\ IsFree(m) /\ Assign(m, CNull)
    BY <1>3, <2>1, TailFacts DEF AssumeNext, Live, StateTypes
  <2>3. Len(D') > Len(D) /\ Last(D') = m /\ reasons'[Var(m)] = CNull
    BY <1>2, <2>2, AssignLast, LevelTypes
  <2>4. ClientAssume(m)
    BY <1>1, <1>3, <2>2 DEF ClientAssume, AssumeNext
  <2> QED BY <2>2, <2>3, <2>4 DEF WithinContract, ContractClient
<1>4. CASE SearchGuess
  <2>1. PICK v \in heap, popped \in SUBSET {u \in heap : ~ IsFree(Pos(u))} :
          /\ IsFree(Pos(v)) /\ heap' = heap \ (popped \cup {v})
          /\ \E m \in {Pos(v), Not(Pos(v))} : Assign(m, CNull)
    BY <1>4 DEF SearchGuess
  <2>2. PICK m \in {Pos(v), Not(Pos(v))} : Assign(m, CNull)
    BY <2>1
  <2>3. v \in VarSet /\ Pos(v) \in LitSet /\ Var(Pos(v)) = v
    BY IndexFacts, LevelTypes DEF TypeOK
  <2>4. m \in LitSet /\ IsFree(m) /\ Var(m) = v
    BY <2>1, <2>2, <2>3, FreeFacts, LitFacts DEF Live, TrailSound, TrailInv, TrailCore
  <2>5. Len(D') > Len(D) /\ Last(D') = m /\ reasons'[Var(m)] = CNull
    BY <1>2, <2>2, <2>4, AssignLast, LevelTypes
  <2>6. PICK gone : gone = heap \ (heap' \cup {Var(m)})
    OBVIOUS
  <2>7. /\ heap' = heap \ (gone \cup {Var(m)})
        /\ \A u \in gone : u \in heap /\ ~ IsFree(Pos(u))
    BY <2>1, <2>4, <2>6
  <2>8. ClientGuess(m, gone)
    BY <1>1, <1>4, <2>2, <2>4, <2>7 DEF ClientGuess, SearchGuess
  <2> QED BY <2>4, <2>5, <2>6, <2>8 DEF WithinContract, ContractClient
<1> QED BY <1>3, <1>4

(* Prop is called without a conflict, and the heap is emptied for a model. *)
LEMMA OtherContract ==
  ASSUME Live, \/ CleanupProp \/ AssumeProp \/ SearchProp \/ UntestLates \/ AssumeStart
               \/ SearchModel
  PROVE  WithinContract
<1>1. CASE CleanupProp \/ AssumeProp \/ SearchProp \/ UntestLates \/ AssumeStart
  <2>1. StartProp /\ px = CNull
    BY <1>1 DEF CleanupProp, AssumeProp, SearchProp, UntestLates, AssumeStart, At, Live,
                ConflictPlace
  <2> QED BY <2>1 DEF ClientProp, WithinContract, ContractClient
<1>2. CASE SearchModel
  <2>1. mode = "idle" /\ px = CNull /\ head = Len(D)
    BY <1>2 DEF SearchModel, Guessing, At, Live, ConflictPlace
  <2>2. ClientGuessNone
    BY <1>2, <2>1 DEF ClientGuessNone, SearchModel, HeapHasFree
  <2> QED BY <2>2 DEF WithinContract, ContractClient
<1> QED BY <1>1, <1>2

(* The other steps leave the trail alone or only call Back. *)
LEMMA QuietContract ==
  ASSUME \/ Call
         \/ CleanupBot \/ CleanupBack \/ CleanupAgain \/ CleanupFail \/ CleanupDone
         \/ OpenScope \/ AssumeBot \/ AssumeConflict \/ AssumeTrue \/ AssumeFalse \/ Assumed
         \/ Tested \/ Untested \/ SearchUnsat \/ Backjump \/ SearchDeadline
         \/ SearchStopped \/ SearchRestart
         \/ UNCHANGED vars
  PROVE  WithinContract
<1>1. UNCHANGED trailVars \/ \E l : StartBack(l)
  <2>1. CASE Call
    BY <2>1 DEF Call, Add, Assume, Solve, Test, Untest
  <2>2. CASE CleanupBack \/ CleanupDone \/ Backjump \/ SearchStopped \/ SearchRestart
    BY <2>2 DEF CleanupBack, CleanupDone, Backjump, SearchStopped, SearchRestart
  <2>3. CASE \/ CleanupBot \/ CleanupAgain \/ CleanupFail \/ OpenScope \/ AssumeBot
             \/ AssumeConflict \/ AssumeTrue \/ AssumeFalse \/ Assumed \/ Tested \/ Untested
             \/ SearchUnsat \/ SearchDeadline
    BY <2>3 DEF CleanupBot, CleanupAgain, CleanupFail, OpenScope, AssumeBot, AssumeConflict,
                AssumeFail, AssumeTrue, AssumeFalse, Assumed, Tested, Untested, SearchUnsat,
                SearchDeadline
  <2>4. CASE UNCHANGED vars
    BY <2>4 DEF vars
  <2> QED BY <2>1, <2>2, <2>3, <2>4
<1> QED BY <1>1, BackContract DEF WithinContract

(* Every step keeps to the contract while no clause is empty. *)
LEMMA ContractNext ==
  ASSUME IInv, [Next]_vars, bot = CNull
  PROVE  WithinContract
<1>1. Live
  BY DEF IInv, Dead, TrailEmpty, Clauses, CNull
<1>2. CASE Call \/ UNCHANGED vars
  BY <1>2, QuietContract
<1>3. CASE TrailStep
  BY <1>3 DEF TrailStep, WithinContract
<1>4. CASE SolverStep
  BY <1>1, <1>4, AddContract, DeriveContract, AssertContract, DecideContract, OtherContract,
     QuietContract DEF SolverStep
<1> QED BY <1>2, <1>3, <1>4 DEF Next

(* The solver uses the trail as TrailSpec says: it adds free clauses at    *)
(* level 0, learns asserting ones from a conflict, backjumps before it     *)
(* asserts their unit, and decides only when everything is propagated.     *)
THEOREM ContractKept == "final" \in Discipline => (Spec => TrailContract)
<1> SUFFICES ASSUME "final" \in Discipline PROVE Spec => TrailContract
  OBVIOUS
<1>1. Init => TrailInit
  BY DEF Init
<1>2. IInv /\ [Next]_vars =>
        [bot # CNull \/ ContractClient \/ PropStep \/ BackStep]_trailVars
  BY ContractNext DEF WithinContract
<1> QED BY <1>1, <1>2, SolverInvariant, PTL DEF Spec, TrailContract
=============================================================================
