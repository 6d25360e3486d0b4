----------------------------- MODULE ModelProofs ----------------------------
(***************************************************************************)
(* Proofs about what the incremental solver says besides -1.  After an     *)
(* answer 1 the values are a model of everything that was added, as it was *)
(* given to Add, and of all assumptions, tested or not; after an answer -1 *)
(* Why names assumptions which are enough for it.                          *)
(***************************************************************************)
EXTENDS SolverProofs

(***************************************************************************)
(* The inductive invariant, on top of the one of SolverProofs: which       *)
(* literals stand for a clause given to Add, and at which level the        *)
(* assumptions of the scopes and of the running call are true.             *)
(***************************************************************************)
TrueUpTo(m, l) == m \in LitSet /\ IsTrue(m) /\ levels[Var(m)] <= l

(* What became of a clause given to Add: an added clause with some of its  *)
(* literals is stored, or it was true already, and for ever.               *)
Stored(c) ==
  \/ \E q \in added : \A k \in 1 .. Len(cls[q]) : cls[q][k] \in c
  \/ \E m \in c : TrueUpTo(m, 0)
  \/ \E m \in c : Not(m) \in c

FormulaStored ==
  \A c \in formula : c \subseteq LitSet /\ (Stored(c) \/ (pc = "add" /\ c = ToSet(arg)))

(* The innermost scope is opened, but its Test did not succeed, or not     *)
(* yet.                                                                    *)
ScopeOpen ==
  op = "test" /\ (pc \in {"assume"} \cup Assuming \/ (pc = "ready" /\ res = "unsat"))

(* The assumptions of the scopes are true since the level at which the     *)
(* next scope begins.                                                      *)
ScopesTrue ==
  /\ \A k \in 1 .. Len(testLevels) : \A m \in ScopeLits(k - 1) : TrueUpTo(m, testLevels[k])
  /\ ScopeOpen \/ \A m \in ScopeLits(Len(testLevels)) : TrueUpTo(m, endTestLevel)

(* What the running call was asked still waits, or is true. *)
AskedAt(l) == \A m \in asked : m \in ToSet(assumes) \/ TrueUpTo(m, l)

AskedTrue ==
  /\ op \in {"solve", "test"} /\ pc \in Cleaning \cup {"scope", "assume"} => AskedAt(endTestLevel)
  /\ pc \in Assuming \cup Searching => AskedAt(assumptLevel)
  /\ pc \in Searching \cup {"tested"} => assumes = <<>>

(* A Test that failed is unresolved, and after an answer 1 no Back runs.   *)
Answered ==
  pc = "ready" =>
    /\ op = "test" /\ res = "unsat" => unresolved = "test"
    /\ res = "sat" => mode = "idle"

LiveModel == Live /\ FormulaStored /\ ScopesTrue /\ AskedTrue /\ Answered

(* With an empty clause every Test fails, so one scope at most is open. *)
DeadModel ==
  /\ Dead /\ res # "sat"
  /\ \/ op # "test" /\ pc # "scope" /\ scopes = <<>> /\ testLevels = <<>>
     \/ /\ op = "test" /\ pc \in {"cleanup", "scope", "assume", "ready"}
        /\ \E a : scopes = <<a>>
        /\ IF pc \in {"cleanup", "scope"} THEN testLevels = <<>> ELSE \E b : testLevels = <<b>>
        /\ pc = "ready" => res = "unsat" /\ unresolved = "test"

ModelInv == IInv /\ (LiveModel \/ DeadModel) /\ SatIsModel

-----------------------------------------------------------------------------
(***************************************************************************)
(* What every step keeps: the literals of the added clauses, and the       *)
(* values of the levels that are not being undone.                         *)
(***************************************************************************)

(* A clause gets no new literal. *)
OldLits(c) == \A k \in 1 .. Len(cls'[c]) : \E j \in 1 .. Len(cls[c]) : cls'[c][k] = cls[c][j]

ValuesKept ==
  \A m \in LitSet : IsTrue(m) /\ levels[Var(m)] <= TopLevel =>
    vals'[m] = 1 /\ levels'[Var(m)] = levels[Var(m)]

Kept ==
  /\ added \subseteq added' /\ \A q \in added : OldLits(q)
  /\ ValuesKept

(* An exchange of two literals of a clause. *)
LEMMA SwapOld ==
  ASSUME NEW q \in Clauses, NEW i \in 1 .. Len(cls[q]), NEW j \in 1 .. Len(cls[q]),
         SwapEffect(q, i, j)
  PROVE  \A c \in Clauses : OldLits(c)
<1>1. ASSUME NEW c \in Clauses, c # q PROVE OldLits(c)
  BY <1>1 DEF SwapEffect, OldLits
<1>2. OldLits(q)
  <2>1. ASSUME NEW k \in 1 .. Len(cls'[q])
        PROVE  \E n \in 1 .. Len(cls[q]) : cls'[q][k] = cls[q][n]
    <3>1. k \in 1 .. Len(cls[q])
      BY DEF SwapEffect
    <3> QED BY <3>1 DEF SwapEffect
  <2> QED BY <2>1 DEF OldLits
<1> QED BY <1>1, <1>2

(* Prop exchanges literals. *)
LEMMA VisitOld ==
  ASSUME TrailInv, PropStep
  PROVE  \A c \in Clauses : OldLits(c)
<1>1. CASE UNCHANGED cls
  BY <1>1 DEF OldLits
<1>2. CASE VisitRewatch
  <2>1. PICK r, k, p, o : Rewatched(r, k, p, o)
    BY <1>2, RewatchFacts, SMTT(40) DEF TrailInv
  <2>2. /\ r \in Clauses /\ SwapEffect(r, k, p) /\ Len(cls[r]) \in Nat
        /\ k \in {1, 2} /\ p \in 3 .. Len(cls[r])
    BY <2>1 DEF Rewatched
  <2>3. k \in 1 .. Len(cls[r]) /\ p \in 1 .. Len(cls[r])
    BY <2>2
  <2> QED BY <2>2, <2>3, SwapOld
<1>3. CASE (VisitBinary \/ VisitLast) /\ ~ UNCHANGED cls
  <2>1. PICK q : q = TheWatch.c
    OBVIOUS
  <2>2. PICK n : n = OtherWatched(q)
    OBVIOUS
  <2>3. Visiting
    BY <1>3 DEF VisitBinary, VisitLast, VisitingLong
  <2>4. /\ q \in Clauses /\ Len(cls[q]) \in Nat /\ Len(cls[q]) >= 2
        /\ pm = cls[q][1] \/ pm = cls[q][2]
    BY <2>1, <2>3, VisitFacts DEF TrailInv
  <2>5. TheWatch.bin => TheWatch.o = n
    BY <2>1, <2>2, <2>3, OtherFacts DEF TrailInv
  <2>6. cls[q][1] = pm /\ cls' = [cls EXCEPT ![q][1] = n, ![q][2] = pm]
    <3>1. CASE VisitBinary
      BY <1>3, <2>1, <2>5, <3>1, Zenon DEF VisitBinary
    <3>2. CASE VisitLast
      BY <1>3, <2>1, <2>2, <3>2, Zenon DEF VisitLast
    <3> QED BY <1>3, <3>1, <3>2
  <2>7. n = cls[q][2]
    BY <2>2, <2>6 DEF OtherWatched
  <2>8. PICK i \in 1 .. Len(cls[q]), j \in 1 .. Len(cls[q]) : i = 1 /\ j = 2 /\ i # j
    BY <2>4
  <2>9. cls' = [cls EXCEPT ![q][i] = cls[q][j], ![q][j] = cls[q][i]]
    BY <2>6, <2>7, <2>8
  <2>10. SwapEffect(q, i, j)
    BY <2>4, <2>8, <2>9, SwapFacts DEF TrailInv, TrailCore
  <2> QED BY <2>4, <2>8, <2>10, SwapOld
<1>4. CASE PropTake \/ PropReturn \/ PropNext \/ VisitBlocked \/ VisitSatisfied
  <2>1. UNCHANGED cls
    BY <1>4 DEF PropTake, PropReturn, PropNext, VisitBlocked, VisitSatisfied, clauseVars
  <2> QED BY <1>1, <2>1
<1> QED BY <1>1, <1>2, <1>3, <1>4 DEF PropStep

(* A step which assigns nothing and stores nothing. *)
LEMMA QuietKept ==
  ASSUME UNCHANGED <<vals, levels, cls, added>>
  PROVE  Kept
BY DEF Kept, OldLits, ValuesKept, IsTrue

(* An assignment of a free literal. *)
LEMMA AssignKept ==
  ASSUME TrailInv, NEW m \in LitSet, IsFree(m), NEW c \in Nat, Assign(m, c)
  PROVE  ValuesKept
<1>1. KeepsAssigned
  BY AssignKeeps DEF TrailInv, TrailCore
<1> QED BY <1>1 DEF ValuesKept, KeepsAssigned, IsTrue, IsFree

(* A clause is stored behind the others. *)
LEMMA StoreKept ==
  ASSUME TypeOK, NEW ms, Link(ms), added' \in {added, added \cup {Len(cls) + 1}}
  PROVE  added \subseteq added' /\ \A q \in added : cls'[q] = cls[q] /\ OldLits(q)
<1>1. cls \in Seq(Seq(LitSet)) /\ cls' = Append(cls, ms) /\ added \subseteq 1 .. Len(cls)
  BY DEF TypeOK, Link, Clauses
<1>2. \A q \in added : cls'[q] = cls[q]
  BY <1>1
<1> QED BY <1>2 DEF OldLits

(* The steps of the loops. *)
LEMMA LoopKept ==
  ASSUME Live, TrailStep
  PROVE  Kept
<1>1. CASE PropStep
  <2>1. PropEffect /\ added \subseteq Clauses
    BY <1>1, PropStepEffect, LevelTypes DEF TrailSound, TrailInv, TypeOK
  <2>2. \A c \in Clauses : OldLits(c)
    BY <1>1, VisitOld, LevelTypes DEF TrailSound
  <2>3. ValuesKept
    BY <2>1 DEF PropEffect, ValuesKept, KeepsAssigned, IsTrue, IsFree
  <2> QED BY <2>1, <2>2, <2>3 DEF Kept, PropEffect
<1>2. CASE BackStep
  <2>1. BackEffect
    BY <1>2, BackStepEffect, LevelTypes DEF TrailSound
  <2>2. ValuesKept
    BY <2>1 DEF BackEffect, ValuesKept, TopLevel, IsTrue, IsFree
  <2> QED BY <2>1, <2>2 DEF Kept, BackEffect, OldLits
<1> QED BY <1>1, <1>2 DEF TrailStep

(* Every step of a call keeps them, and only AddStore makes a clause       *)
(* empty.                                                                  *)
LEMMA StepKept ==
  ASSUME IInv, Live, SolverStep, ~ AddStore
  PROVE  Kept /\ bot' = CNull
<1>1. bot = CNull /\ TrailInv /\ TypeOK
  BY DEF Live, TrailSound, TrailInv, TrailCore
<1>2. CASE CleanupDerive \/ SearchDerive
  <2>1. PICK ms : Learn(ms)
    BY <1>2 DEF CleanupDerive, SearchDerive, LearnFrom
  <2>2. Link(ms) /\ UNCHANGED <<vals, levels, added, bot>>
    BY <2>1 DEF Learn, assignVars
  <2>3. added \subseteq added' /\ \A q \in added : OldLits(q)
    BY <1>1, <2>2, StoreKept
  <2>4. ValuesKept
    BY <2>2 DEF ValuesKept, IsTrue
  <2> QED BY <1>1, <2>2, <2>3, <2>4 DEF Kept
<1>3. CASE CleanupAssert \/ SearchAssert
  <2>1. /\ AssertDerived /\ mode = "idle"
        /\ (pc = "cleanupAssert" /\ ~ CleanupStuck) \/ pc = "assert"
    BY <1>3 DEF CleanupAssert, SearchAssert, At
  <2>2. IsFree(drvd.Unit)
    BY <2>1, UnitAsserts DEF UnitIsAsserted
  <2>3. drvd.P \in Clauses /\ cls[drvd.P] # <<>> /\ cls[drvd.P][1] = drvd.Unit
    BY <2>1 DEF Live, DerivedPlace, UnitFirst
  <2>4. drvd.Unit \in LitSet /\ drvd.P \in Nat
    BY <1>1, <2>3 DEF TypeOK, Clauses
  <2>5. ValuesKept
    BY <1>1, <2>1, <2>2, <2>4, AssignKept DEF AssertDerived
  <2>6. UNCHANGED <<cls, added, bot>>
    BY <2>1 DEF AssertDerived, clauseVars
  <2> QED BY <1>1, <2>5, <2>6 DEF Kept, OldLits
<1>4. CASE AssumeNext
  <2>1. /\ assumes # <<>> /\ IsFree(assumes[1]) /\ Assign(assumes[1], CNull)
        /\ UNCHANGED <<cls, added, bot>>
    BY <1>4 DEF AssumeNext, clauseVars
  <2>2. assumes[1] \in LitSet
    BY <2>1, TailFacts DEF Live, StateTypes
  <2>3. ValuesKept
    BY <1>1, <2>1, <2>2, AssignKept DEF CNull
  <2> QED BY <1>1, <2>1, <2>3 DEF Kept, OldLits
<1>5. CASE SearchGuess
  <2>1. UNCHANGED <<cls, added, bot>>
    BY <1>5 DEF SearchGuess, clauseVars
  <2>2. PICK v \in heap : IsFree(Pos(v)) /\ \E m \in {Pos(v), Not(Pos(v))} : Assign(m, CNull)
    BY <1>5 DEF SearchGuess
  <2>3. Pos(v) \in LitSet
    BY <1>1, IndexFacts DEF TypeOK
  <2>4. PICK m \in LitSet : IsFree(m) /\ Assign(m, CNull)
    BY <1>1, <2>2, <2>3, FreeFacts, LitFacts DEF TrailInv, TrailCore
  <2>5. ValuesKept
    BY <1>1, <2>4, AssignKept DEF CNull
  <2> QED BY <1>1, <2>1, <2>5 DEF Kept, OldLits
<1>6. CASE CleanupBack \/ CleanupDone \/ Backjump \/ SearchStopped \/ SearchRestart
           \/ CleanupProp \/ AssumeStart \/ AssumeProp \/ UntestLates \/ SearchProp
  <2>1. UNCHANGED <<vals, levels, cls, added, bot>>
    BY <1>6 DEF CleanupBack, CleanupDone, Backjump, SearchStopped, SearchRestart, CleanupProp,
                AssumeStart, AssumeProp, UntestLates, SearchProp, StartBack, StartProp,
                assignVars, clauseVars
  <2> QED BY <1>1, <2>1, QuietKept
<1>7. CASE CleanupBot \/ CleanupAgain \/ CleanupFail \/ OpenScope \/ AssumeBot
           \/ AssumeConflict \/ AssumeTrue \/ AssumeFalse \/ Assumed \/ Tested \/ Untested
           \/ SearchUnsat \/ SearchDeadline \/ SearchModel
  <2>1. UNCHANGED <<vals, levels, cls, added, bot>>
    BY <1>7 DEF CleanupBot, CleanupAgain, CleanupFail, OpenScope, AssumeBot, AssumeConflict,
                AssumeTrue, AssumeFalse, Assumed, Tested, Untested, SearchUnsat,
                SearchDeadline, SearchModel, AssumeFail, trailVars, assignVars, clauseVars
  <2> QED BY <1>1, <2>1, QuietKept
<1> QED BY <1>2, <1>3, <1>4, <1>5, <1>6, <1>7 DEF SolverStep

-----------------------------------------------------------------------------
(***************************************************************************)
(* The clauses, the scopes and the assumptions while steps keep values.    *)
(***************************************************************************)
TrueNext(m, l) == m \in LitSet /\ vals'[m] = 1 /\ levels'[Var(m)] <= l

(* What is true up to a level that is not undone stays so. *)
LEMMA TrueKept ==
  ASSUME Live, ValuesKept, NEW l \in Nat, l <= TopLevel, NEW m, TrueUpTo(m, l)
  PROVE  TrueNext(m, l)
<1>1. m \in LitSet /\ IsTrue(m) /\ levels[Var(m)] <= l
  BY DEF TrueUpTo
<1>2. levels[Var(m)] \in Int /\ TopLevel \in Int
  <2>1. Var(m) \in VarIndex
    BY <1>1, LitFacts, IndexFacts
  <2>2. levels[Var(m)] \in Int
    BY <2>1, LevelTypes DEF TypeOK
  <2> QED BY <2>2, LevelTypes DEF TopLevel
<1>3. levels[Var(m)] <= TopLevel
  BY <1>1, <1>2
<1> QED BY <1>1, <1>3 DEF ValuesKept, TrueNext

(* The levels of the scopes are not undone. *)
LEMMA LevelsBelow ==
  ASSUME Live
  PROVE  /\ 0 \in Nat /\ 0 <= TopLevel
         /\ endTestLevel \in Nat /\ endTestLevel <= TopLevel
         /\ \A k \in 1 .. Len(testLevels) :
              testLevels[k] \in Nat /\ testLevels[k] <= TopLevel /\ testLevels[k] <= endTestLevel
         /\ pc \in Assuming \cup Searching =>
              assumptLevel \in Nat /\ assumptLevel <= TopLevel /\ endTestLevel <= assumptLevel
<1>1. TopLevel \in Nat
  BY LevelTypes DEF TopLevel
<1>2. endTestLevel \in Nat /\ endTestLevel <= TopLevel
  BY LevelTypes DEF Live, LevelPlace
<1>3. ASSUME NEW k \in 1 .. Len(testLevels)
      PROVE  testLevels[k] \in Nat /\ testLevels[k] <= TopLevel /\ testLevels[k] <= endTestLevel
  <2>1. testLevels \in Seq(Nat) /\ ScopesOK
    BY LevelTypes
  <2>2. testLevels[k] \in Nat /\ testLevels[k] <= endTestLevel
    BY <2>1 DEF ScopesOK
  <2> QED BY <1>1, <1>2, <2>2
<1>4. pc \in Assuming \cup Searching =>
        assumptLevel \in Nat /\ assumptLevel <= TopLevel /\ endTestLevel <= assumptLevel
  BY LevelTypes DEF Live, LevelPlace
<1> QED BY <1>1, <1>2, <1>3, <1>4

(* The clauses given to Add. *)
LEMMA StoredKept ==
  ASSUME Live, Kept, NEW c, Stored(c)
  PROVE  Stored(c)'
<1>1. CASE \E q \in added : \A k \in 1 .. Len(cls[q]) : cls[q][k] \in c
  <2>1. PICK q \in added : \A k \in 1 .. Len(cls[q]) : cls[q][k] \in c
    BY <1>1
  <2>2. q \in added' /\ OldLits(q)
    BY DEF Kept
  <2>3. \A k \in 1 .. Len(cls'[q]) : cls'[q][k] \in c
    BY <2>1, <2>2 DEF OldLits
  <2> QED BY <2>2, <2>3 DEF Stored
<1>2. CASE \E m \in c : TrueUpTo(m, 0)
  <2>1. PICK m \in c : TrueUpTo(m, 0)
    BY <1>2
  <2>2. TrueNext(m, 0)
    BY <2>1, TrueKept, LevelsBelow DEF Kept
  <2>3. TrueUpTo(m, 0)'
    BY <2>2 DEF TrueUpTo, TrueNext, IsTrue
  <2> QED BY <2>3 DEF Stored
<1>3. CASE \E m \in c : Not(m) \in c
  BY <1>3 DEF Stored
<1> QED BY <1>1, <1>2, <1>3 DEF Stored

(* No step but Add and AddStore changes what stands for them. *)
LEMMA FormulaKept ==
  ASSUME Live, FormulaStored, Kept, formula' = formula, pc = "add" => pc' = "add" /\ arg' = arg
  PROVE  FormulaStored'
<1>1. \A c \in formula : c \subseteq LitSet /\ (Stored(c)' \/ (pc' = "add" /\ c = ToSet(arg')))
  BY StoredKept DEF FormulaStored
<1> QED BY <1>1 DEF FormulaStored

(* The assumptions of the scopes. *)
LEMMA ScopeLitsKept ==
  ASSUME Live, ScopesTrue, ValuesKept
  PROVE  /\ \A k \in 1 .. Len(testLevels) : \A m \in ScopeLits(k - 1) : TrueNext(m, testLevels[k])
         /\ ScopeOpen \/ \A m \in ScopeLits(Len(testLevels)) : TrueNext(m, endTestLevel)
<1>1. ASSUME NEW k \in 1 .. Len(testLevels), NEW m \in ScopeLits(k - 1)
      PROVE  TrueNext(m, testLevels[k])
  <2>1. TrueUpTo(m, testLevels[k])
    BY DEF ScopesTrue
  <2>2. testLevels[k] \in Nat /\ testLevels[k] <= TopLevel
    BY LevelsBelow
  <2> QED BY <2>1, <2>2, TrueKept
<1>2. ASSUME ~ ScopeOpen, NEW m \in ScopeLits(Len(testLevels))
      PROVE  TrueNext(m, endTestLevel)
  <2>1. TrueUpTo(m, endTestLevel)
    BY <1>2 DEF ScopesTrue
  <2> QED BY <2>1, LevelsBelow, TrueKept
<1> QED BY <1>1, <1>2

(* A step which leaves the scopes alone. *)
LEMMA ScopesTrueKept ==
  ASSUME Live, ScopesTrue, ValuesKept, UNCHANGED <<scopes, testLevels, endTestLevel>>,
         ScopeOpen => ScopeOpen'
  PROVE  ScopesTrue'
<1>1. \A k : ScopeLits(k)' = ScopeLits(k)
  BY DEF ScopeLits
<1>2. ScopeLits(Len(testLevels))' = ScopeLits(Len(testLevels))
  BY DEF ScopeLits
<1>3. \A k \in 1 .. Len(testLevels') : \A m \in ScopeLits(k - 1)' : TrueUpTo(m, testLevels[k])'
  BY <1>1, ScopeLitsKept DEF TrueUpTo, TrueNext, IsTrue
<1>4. ScopeOpen' \/ \A m \in ScopeLits(Len(testLevels))' : TrueUpTo(m, endTestLevel)'
  BY <1>2, ScopeLitsKept DEF TrueUpTo, TrueNext, IsTrue
<1> QED BY <1>3, <1>4 DEF ScopesTrue

(* The assumptions of the running call. *)
AskedNext(l) == \A m \in asked : m \in ToSet(assumes) \/ TrueNext(m, l)

(* They stay true. *)
LEMMA AskedKeeps ==
  ASSUME Live, ValuesKept, NEW l \in Nat, l <= TopLevel, AskedAt(l)
  PROVE  AskedNext(l)
BY TrueKept DEF AskedAt, AskedNext

(* A step within a call after which the same is to hold at the same level, *)
(* or which begins the assumptions at the level of the scopes.             *)
LEMMA AskedTrueKept ==
  ASSUME Live, AskedTrue, ValuesKept, UNCHANGED <<op, asked, assumes, endTestLevel>>,
         \/ /\ pc \in Cleaning \cup {"scope", "assume"}
            /\ pc' \in Cleaning \cup {"scope", "assume", "lates"}
         \/ pc = "assume" /\ pc' = "assuming" /\ assumptLevel' = endTestLevel
         \/ /\ pc \in Assuming \cup Searching /\ pc' \in Assuming \cup Searching
            /\ assumptLevel' = assumptLevel
            /\ pc' \in Searching \cup {"tested"} => assumes = <<>>
  PROVE  AskedTrue'
<1> USE DEF Cleaning, Assuming, Searching
<1>1. CASE pc \in Cleaning \cup {"scope", "assume"}
  <2>1. CASE op \in {"solve", "test"}
    <3>1. AskedAt(endTestLevel)
      BY <1>1, <2>1 DEF AskedTrue
    <3>2. AskedNext(endTestLevel)
      BY <3>1, AskedKeeps, LevelsBelow
    <3>3. AskedAt(endTestLevel)'
      BY <3>2 DEF AskedNext, AskedAt, TrueNext, TrueUpTo, IsTrue
    <3>4. assumptLevel' = endTestLevel => AskedAt(assumptLevel)'
      BY <3>2 DEF AskedNext, AskedAt, TrueNext, TrueUpTo, IsTrue
    <3> QED BY <1>1, <3>3, <3>4 DEF AskedTrue
  <2>2. CASE op \notin {"solve", "test"}
    <3>1. pc # "assume"
      BY <2>2 DEF Live, CallOK
    <3> QED BY <1>1, <2>2, <3>1 DEF AskedTrue
  <2> QED BY <2>1, <2>2
<1>2. CASE /\ pc \in Assuming \cup Searching /\ pc' \in Assuming \cup Searching
           /\ assumptLevel' = assumptLevel
           /\ pc' \in Searching \cup {"tested"} => assumes = <<>>
  <2>1. AskedAt(assumptLevel)
    BY <1>2 DEF AskedTrue
  <2>2. AskedNext(assumptLevel)
    BY <1>2, <2>1, AskedKeeps, LevelsBelow
  <2>3. AskedAt(assumptLevel)'
    BY <1>2, <2>2 DEF AskedNext, AskedAt, TrueNext, TrueUpTo, IsTrue
  <2> QED BY <1>2, <2>3 DEF AskedTrue
<1> QED BY <1>1, <1>2

(* Without a free variable, and with a model of the added clauses, what    *)
(* was given to Add is true.                                               *)
LEMMA ModelFound ==
  ASSUME Live, FormulaStored, pc # "add", ~ HeapHasFree, CheckModel
  PROVE  /\ \A v \in VarSet : ~ IsFree(Pos(v))
         /\ \A c \in formula : \E m \in c : IsTrue(m)
<1>1. \A v \in VarSet : ~ IsFree(Pos(v))
  BY DEF HeapHasFree, Live, TrailSound, TrailInv, TrailCore, FreeVarsInHeap
<1>2. ASSUME NEW c \in formula PROVE \E m \in c : IsTrue(m)
  <2>1. c \subseteq LitSet /\ Stored(c)
    BY DEF FormulaStored
  <2>2. CASE \E q \in added : \A k \in 1 .. Len(cls[q]) : cls[q][k] \in c
    <3>1. PICK q \in added : \A k \in 1 .. Len(cls[q]) : cls[q][k] \in c
      BY <2>2
    <3>2. PICK k \in 1 .. Len(cls[q]) : IsTrue(cls[q][k])
      BY DEF CheckModel
    <3> QED BY <3>1, <3>2
  <2>3. CASE \E m \in c : TrueUpTo(m, 0)
    BY <2>3 DEF TrueUpTo
  <2>4. CASE \E m \in c : Not(m) \in c
    <3>1. PICK m \in c : Not(m) \in c
      BY <2>4
    <3>2. m \in LitSet /\ Var(m) \in VarSet /\ Not(m) \in LitSet
      BY <2>1, LitFacts
    <3>3. ~ IsFree(m)
      <4>1. Pos(Var(m)) \in LitSet /\ Var(Pos(Var(m))) = Var(m)
        BY <3>2, IndexFacts
      <4>2. Pos(Var(m)) = m \/ Pos(Var(m)) = Not(m)
        BY <3>2, <4>1, SameVar
      <4>3. IsFree(m) => IsFree(Pos(Var(m)))
        BY <3>2, <4>2, FreeFacts DEF Live, TrailSound, TrailInv, TrailCore
      <4> QED BY <1>1, <3>2, <4>3
    <3>4. vals[m] \in {-1, 0, 1}
      BY <3>2, IndexFacts, LevelTypes DEF TypeOK
    <3>5. IsTrue(m) \/ IsTrue(Not(m))
      BY <3>2, <3>3, <3>4
         DEF IsTrue, IsFree, IsFalse, Live, TrailSound, TrailInv, TrailCore, TrailConsistent
    <3> QED BY <3>1, <3>5
  <2> QED BY <2>1, <2>2, <2>3, <2>4 DEF Stored
<1> QED BY <1>1, <1>2

-----------------------------------------------------------------------------
(***************************************************************************)
(* Every step of a solver without an empty clause keeps the invariant.     *)
(***************************************************************************)

(* Nothing is asked of a call that has returned or is no search. *)
LEMMA NothingAsked ==
  ASSUME pc' \in {"ready", "add", "lates", "untested"}
  PROVE  AskedTrue'
BY DEF AskedTrue, Cleaning, Assuming, Searching

(* Within a call an answer is not given. *)
LEMMA NoAnswer ==
  ASSUME pc' # "ready"
  PROVE  Answered' /\ SatIsModel'
BY DEF Answered, SatIsModel, Returned

(* A step within a call that leaves scopes and assumptions alone. *)
LEMMA GoesOn ==
  ASSUME LiveModel, Live', Kept,
         CleanupDerive \/ CleanupBack \/ CleanupAssert \/ CleanupProp \/ CleanupAgain
         \/ CleanupDone \/ AssumeStart \/ AssumeProp \/ Assumed \/ UntestLates \/ SearchProp
         \/ SearchDerive \/ Backjump \/ SearchAssert \/ SearchRestart \/ SearchGuess
  PROVE  LiveModel' /\ SatIsModel'
<1>1. /\ UNCHANGED <<op, arg, asked, assumes, endTestLevel, scopes, testLevels, formula>>
      /\ \/ /\ pc \in Cleaning /\ pc' \in Cleaning \cup {"scope", "assume", "lates"}
         \/ pc = "assume" /\ pc' = "assuming" /\ assumptLevel' = Level /\ mode = "idle"
         \/ /\ pc = "assuming" /\ pc' = (IF op = "solve" THEN "search" ELSE "tested")
            /\ assumes = <<>> /\ assumptLevel' = assumptLevel
         \/ pc = "assumeProp" /\ pc' = "assuming" /\ assumptLevel' = assumptLevel
         \/ pc = "lates" /\ pc' = "untested"
         \/ pc \in Searching /\ pc' \in Searching /\ assumptLevel' = assumptLevel
  <2>1. CASE CleanupDerive \/ CleanupBack \/ CleanupAssert \/ CleanupProp \/ CleanupAgain
             \/ CleanupDone
    BY <2>1 DEF CleanupDerive, CleanupBack, CleanupAssert, CleanupProp, CleanupAgain,
                CleanupDone, At, apiVars, histVars, Cleaning
  <2>2. CASE AssumeStart \/ AssumeProp \/ Assumed \/ UntestLates
    BY <2>2 DEF AssumeStart, AssumeProp, Assumed, UntestLates, At, apiVars, histVars
  <2>3. CASE SearchProp \/ SearchDerive \/ Backjump \/ SearchAssert \/ SearchRestart
             \/ SearchGuess
    BY <2>3 DEF SearchProp, SearchDerive, Backjump, SearchAssert, SearchRestart, SearchGuess,
                Guessing, At, apiVars, histVars, Searching
  <2> QED BY <2>1, <2>2, <2>3
<1>2. Live /\ FormulaStored /\ ScopesTrue /\ AskedTrue /\ ValuesKept
  BY DEF LiveModel, Kept
<1>3. pc' \notin {"ready", "add"} /\ pc # "add"
  BY <1>1 DEF Cleaning, Searching
<1>4. ScopeOpen => ScopeOpen'
  <2>1. pc \in Searching => op = "solve"
    BY <1>2 DEF Live, CallOK
  <2> QED BY <1>1, <2>1 DEF ScopeOpen, Cleaning, Assuming, Searching
<1>5. pc = "assume" /\ mode = "idle" => Level = endTestLevel
  BY <1>2 DEF Live, LevelPlace, TopLevel
<1>6. AskedTrue'
  <2>1. CASE pc = "lates"
    BY <1>1, <2>1, NothingAsked DEF Cleaning, Searching
  <2>2. CASE pc # "lates"
    <3>1. pc \in Searching => assumes = <<>>
      BY <1>2 DEF AskedTrue
    <3>2. \/ /\ pc \in Cleaning \cup {"scope", "assume"}
             /\ pc' \in Cleaning \cup {"scope", "assume", "lates"}
          \/ pc = "assume" /\ pc' = "assuming" /\ assumptLevel' = endTestLevel
          \/ /\ pc \in Assuming \cup Searching /\ pc' \in Assuming \cup Searching
             /\ assumptLevel' = assumptLevel
             /\ pc' \in Searching \cup {"tested"} => assumes = <<>>
      BY <1>1, <1>5, <2>2, <3>1 DEF Assuming, Searching
    <3> QED BY <1>1, <1>2, <3>2, AskedTrueKept
  <2> QED BY <2>1, <2>2
<1>7. FormulaStored' /\ ScopesTrue'
  BY <1>1, <1>2, <1>3, <1>4, FormulaKept, ScopesTrueKept
<1> QED BY <1>3, <1>6, <1>7, NoAnswer DEF LiveModel

(* The calls do not see a step of the loops, or none. *)
LEMMA SolverSame ==
  ASSUME LiveModel, SatIsModel, Live', Kept, UNCHANGED solverVars,
         UNCHANGED trailVars \/ mode # "idle"
  PROVE  LiveModel' /\ SatIsModel'
<1>1. /\ UNCHANGED <<pc, op, arg, res, unresolved, asked, assumes, assumptLevel, endTestLevel,
                     scopes, testLevels, formula>>
  BY DEF solverVars
<1>2. Live /\ FormulaStored /\ ScopesTrue /\ AskedTrue /\ Answered /\ ValuesKept
  BY DEF LiveModel, Kept
<1>3. FormulaStored' /\ ScopesTrue'
  <2>1. ScopeOpen => ScopeOpen'
    BY <1>1 DEF ScopeOpen
  <2> QED BY <1>1, <1>2, <2>1, FormulaKept, ScopesTrueKept
<1>4. AskedTrue'
  <2>1. CASE pc \in Cleaning \cup {"scope", "assume"}
    BY <1>1, <1>2, <2>1, AskedTrueKept
  <2>2. CASE pc \in Assuming \cup Searching
    <3>1. pc \in Searching \cup {"tested"} => assumes = <<>>
      BY <1>2 DEF AskedTrue
    <3> QED BY <1>1, <1>2, <2>2, <3>1, AskedTrueKept
  <2>3. CASE pc \in {"ready", "add", "lates", "untested"}
    BY <1>1, <2>3, NothingAsked
  <2> QED BY <1>2, <2>1, <2>2, <2>3 DEF Live, StateTypes
<1>5. Answered' /\ SatIsModel'
  <2>1. CASE UNCHANGED trailVars
    BY <1>1, <1>2, <2>1
       DEF trailVars, Answered, SatIsModel, Returned, IsFree, IsTrue
  <2>2. CASE mode # "idle"
    <3>1. ~ (pc = "ready" /\ res = "sat")
      BY <1>2, <2>2 DEF Answered
    <3> QED BY <1>1, <1>2, <3>1 DEF Answered, SatIsModel, Returned
  <2> QED BY <2>1, <2>2
<1> QED BY <1>3, <1>4, <1>5 DEF LiveModel

(* An element of a sequence is its first or one of the others. *)
LEMMA HeadOrTail ==
  ASSUME NEW S, NEW s \in Seq(S), s # <<>>, NEW m \in ToSet(s)
  PROVE  m = s[1] \/ m \in ToSet(Tail(s))
<1>1. PICK k \in 1 .. Len(s) : m = s[k]
  BY DEF ToSet
<1>2. CASE k # 1
  <2>1. PICK t : t = Tail(s)
    OBVIOUS
  <2>2. t \in Seq(S) /\ t[k - 1] = s[k] /\ k - 1 \in 1 .. Len(t)
    BY <1>2, <2>1
  <2>3. DOMAIN t = 1 .. Len(t)
    BY <2>2
  <2>4. m \in ToSet(t)
    BY <1>1, <2>2, <2>3 DEF ToSet
  <2> QED BY <2>1, <2>4
<1> QED BY <1>1, <1>2

(* What is true is true at the current level. *)
LEMMA TrueAtLevel ==
  ASSUME TrailInv, NEW m \in LitSet, IsTrue(m)
  PROVE  TrueUpTo(m, Level)
<1>1. PICK i \in 1 .. Len(D) : D[i] = m
  BY DEF TrailInv, TrailCore, TrailConsistent
<1>2. levels[Var(m)] \in 0 .. Level /\ Level \in Nat
  BY <1>1 DEF TrailInv, TrailCore, LevelsOK, TypeOK
<1>3. levels[Var(m)] <= Level
  BY <1>2
<1> QED BY <1>3 DEF TrueUpTo

(* An assumption is decided, or is true already. *)
LEMMA AssumedOne ==
  ASSUME LiveModel, Live', Kept, AssumeNext \/ AssumeTrue
  PROVE  LiveModel' /\ SatIsModel'
<1>1. /\ pc = "assuming" /\ pc' \in {"assuming", "assumeProp"} /\ mode = "idle"
      /\ assumes # <<>> /\ assumes' = Tail(assumes)
      /\ UNCHANGED <<op, arg, asked, endTestLevel, scopes, testLevels, formula>>
      /\ \/ /\ IsFree(assumes[1]) /\ Assign(assumes[1], CNull)
            /\ assumptLevel' = assumptLevel + 1
         \/ /\ IsTrue(assumes[1]) /\ assumptLevel' = assumptLevel
            /\ UNCHANGED <<vals, levels>>
  BY DEF AssumeNext, AssumeTrue, At, histVars, trailVars
<1>2. Live /\ FormulaStored /\ ScopesTrue /\ AskedTrue /\ ValuesKept
  BY DEF LiveModel, Kept
<1>3. FormulaStored' /\ ScopesTrue'
  <2>1. ScopeOpen => ScopeOpen'
    BY <1>1 DEF ScopeOpen, Assuming
  <2> QED BY <1>1, <1>2, <2>1, FormulaKept, ScopesTrueKept
<1>4. /\ Level = assumptLevel /\ Level \in Nat /\ assumptLevel <= TopLevel
      /\ assumes \in Seq(LitSet) /\ assumes[1] \in LitSet
      /\ TrailInv /\ TypeOK
  <2>1. Level = assumptLevel /\ TopLevel = Level
    BY <1>1, <1>2 DEF Live, LevelPlace, TopLevel, Assuming
  <2>2. assumes \in Seq(LitSet)
    BY <1>2 DEF Live, StateTypes
  <2>3. assumes[1] \in LitSet
    BY <1>1, <2>2, TailFacts
  <2> QED BY <1>2, <2>1, <2>2, <2>3, LevelTypes DEF TrailSound
<1>5. assumptLevel' \in Nat /\ assumptLevel <= assumptLevel'
  BY <1>1, <1>4
<1>6. TrueNext(assumes[1], assumptLevel')
  <2>1. CASE IsFree(assumes[1]) /\ Assign(assumes[1], CNull) /\ assumptLevel' = assumptLevel + 1
    <3>1. PICK m \in LitSet : m = assumes[1]
      BY <1>4
    <3>2. AssignEffect(m, CNull)
      BY <1>4, <2>1, <3>1, AssignFacts DEF CNull
    <3>3. vals'[m] = 1 /\ levels'[Var(m)] = Level + 1
      BY <3>2, LitFacts DEF AssignEffect
    <3> QED BY <1>4, <2>1, <3>1, <3>3 DEF TrueNext
  <2>2. CASE /\ IsTrue(assumes[1]) /\ assumptLevel' = assumptLevel
             /\ UNCHANGED <<vals, levels>>
    <3>1. TrueUpTo(assumes[1], Level)
      BY <1>4, <2>2, TrueAtLevel
    <3> QED BY <1>4, <2>2, <3>1 DEF TrueUpTo, TrueNext, IsTrue
  <2> QED BY <1>1, <2>1, <2>2
<1>7. ASSUME NEW m \in asked PROVE m \in ToSet(assumes') \/ TrueNext(m, assumptLevel')
  <2>1. AskedNext(assumptLevel)
    <3>1. AskedAt(assumptLevel)
      BY <1>1, <1>2 DEF AskedTrue, Assuming
    <3> QED BY <1>2, <1>4, <3>1, AskedKeeps
  <2>2. CASE m \in ToSet(assumes)
    BY <1>1, <1>4, <1>6, <2>2, HeadOrTail
  <2>3. CASE TrueNext(m, assumptLevel)
    <3>1. Var(m) \in VarIndex
      BY <2>3, LitFacts, IndexFacts DEF TrueNext
    <3>2. levels'[Var(m)] \in Int
      BY <3>1 DEF Live, TrailSound, TrailInv, TrailCore, TypeOK
    <3> QED BY <1>4, <1>5, <2>3, <3>2 DEF TrueNext
  <2> QED BY <2>1, <2>2, <2>3 DEF AskedNext
<1>8. AskedTrue'
  <2>1. AskedAt(assumptLevel)'
    BY <1>1, <1>7 DEF AskedAt, TrueUpTo, TrueNext, IsTrue
  <2> QED BY <1>1, <2>1 DEF AskedTrue, Cleaning, Assuming, Searching
<1> QED BY <1>1, <1>3, <1>8, NoAnswer DEF LiveModel

(* A scope is opened at the level of the scopes around it. *)
LEMMA ScopeOpened ==
  ASSUME LiveModel, Live', Kept, OpenScope
  PROVE  LiveModel' /\ SatIsModel'
<1>1. /\ pc = "scope" /\ pc' = "assume" /\ mode = "idle" /\ op = "test"
      /\ testLevels' = Append(testLevels, Level)
      /\ UNCHANGED <<op, arg, asked, assumes, endTestLevel, scopes, formula>>
  BY DEF OpenScope, At, histVars, LiveModel, Live, CallOK
<1>2. /\ Live /\ FormulaStored /\ ScopesTrue /\ AskedTrue /\ ValuesKept
      /\ Level = endTestLevel /\ testLevels \in Seq(Nat) /\ Level \in Nat /\ ~ ScopeOpen
  <2>1. Level = endTestLevel
    BY <1>1 DEF LiveModel, Live, LevelPlace, TopLevel
  <2>2. ~ ScopeOpen
    BY <1>1 DEF ScopeOpen, Assuming
  <2> QED BY <2>1, <2>2, LevelTypes DEF LiveModel, Kept
<1>3. FormulaStored' /\ AskedTrue'
  BY <1>1, <1>2, FormulaKept, AskedTrueKept
<1>4. ScopesTrue'
  <2>1. ScopeOpen'
    BY <1>1 DEF ScopeOpen
  <2>2. /\ Len(testLevels') = Len(testLevels) + 1 /\ Len(testLevels) \in Nat
        /\ testLevels'[Len(testLevels) + 1] = Level
        /\ \A k \in 1 .. Len(testLevels) : testLevels'[k] = testLevels[k]
    BY <1>1, <1>2
  <2>3. \A k : ScopeLits(k)' = ScopeLits(k)
    BY <1>1 DEF ScopeLits
  <2>4. ASSUME NEW k \in 1 .. Len(testLevels')
        PROVE  \A m \in ScopeLits(k - 1) : TrueNext(m, testLevels'[k])
    <3>1. CASE k \in 1 .. Len(testLevels)
      BY <1>2, <2>2, <3>1, ScopeLitsKept
    <3>2. CASE k = Len(testLevels) + 1
      <4>1. k - 1 = Len(testLevels) /\ testLevels'[k] = endTestLevel
        BY <1>2, <2>2, <3>2
      <4> QED BY <1>2, <4>1, ScopeLitsKept
    <3> QED BY <2>2, <3>1, <3>2
  <2>5. \A k \in 1 .. Len(testLevels') : \A m \in ScopeLits(k - 1)' : TrueUpTo(m, testLevels[k])'
    BY <2>3, <2>4 DEF TrueNext, TrueUpTo, IsTrue
  <2> QED BY <2>1, <2>5 DEF ScopesTrue
<1> QED BY <1>1, <1>3, <1>4, NoAnswer DEF LiveModel

(* A call returns without a model. *)
LEMMA ReturnsNoModel ==
  ASSUME LiveModel, Live', Kept,
         CleanupFail \/ AssumeConflict \/ AssumeFalse \/ Untested \/ SearchUnsat
         \/ SearchDeadline \/ SearchStopped
  PROVE  LiveModel' /\ SatIsModel'
<1>1. /\ pc \in Cleaning \cup {"assuming", "untested", "propagated"} /\ pc' = "ready"
      /\ op' = op /\ res' \in {"unsat", "panic", "unknown"}
      /\ op = "test" /\ res' = "unsat" => unresolved' = "test"
      /\ pc = "assuming" => res' = "unsat"
      /\ UNCHANGED <<endTestLevel, scopes, testLevels, formula>>
  BY DEF CleanupFail, AssumeConflict, AssumeFalse, Untested, SearchUnsat, SearchDeadline,
         SearchStopped, SolveReturn, AssumeFail, Return, At, apiVars, histVars, Cleaning
<1>2. Live /\ FormulaStored /\ ScopesTrue /\ ValuesKept
  BY DEF LiveModel, Kept
<1>3. FormulaStored'
  BY <1>1, <1>2, FormulaKept DEF LiveModel, Cleaning
<1>4. ScopesTrue'
  <2>1. ScopeOpen => ScopeOpen'
    BY <1>1 DEF ScopeOpen, Cleaning, Assuming
  <2> QED BY <1>1, <1>2, <2>1, ScopesTrueKept
<1>5. AskedTrue'
  BY <1>1, NothingAsked
<1>6. Answered' /\ SatIsModel'
  BY <1>1 DEF Answered, SatIsModel, Returned
<1> QED BY <1>3, <1>4, <1>5, <1>6 DEF LiveModel

(* A successful Test ends its scope at the level of its assumptions. *)
LEMMA TestReturns ==
  ASSUME LiveModel, Live', Kept, Tested
  PROVE  LiveModel' /\ SatIsModel'
<1>1. /\ pc = "tested" /\ pc' = "ready" /\ mode = "idle" /\ op = "test" /\ op' = op
      /\ UNCHANGED trailVars
      /\ res' = (IF HeapHasFree THEN "unknown" ELSE IF CheckModel THEN "sat" ELSE "fatal")
      /\ endTestLevel' = Level
      /\ UNCHANGED <<arg, testLevels, formula, scopes, asked>>
  BY DEF Tested, At, Return, histVars, LiveModel, Live, CallOK
<1>2. /\ Live /\ FormulaStored /\ ScopesTrue /\ ValuesKept
      /\ Level = assumptLevel /\ assumes = <<>> /\ AskedAt(assumptLevel)
  BY <1>1 DEF LiveModel, Kept, Live, LevelPlace, TopLevel, AskedTrue, Assuming
<1>3. \A m \in asked : TrueUpTo(m, Level)
  <2>1. ToSet(<<>>) = {}
    BY DEF ToSet
  <2> QED BY <1>2, <2>1 DEF AskedAt
<1>4. FormulaStored'
  BY <1>1, <1>2, FormulaKept DEF LiveModel
<1>5. ScopesTrue'
  <2>1. ~ ScopeClosed /\ ScopeLits(Len(scopes)) = asked
    <3>1. ~ ScopeClosed
      BY <1>1, <1>2 DEF ScopeClosed, Cleaning, Live, CallOK
    <3> QED BY <1>1, <1>2, <3>1, LevelTypes DEF AskedOK
  <2>2. Len(scopes) = Len(testLevels)
    BY <1>2, <2>1, LevelTypes DEF ScopesOK
  <2>3. \A k : ScopeLits(k)' = ScopeLits(k)
    BY <1>1 DEF ScopeLits
  <2>4. ScopeLits(Len(testLevels))' = asked
    <3>1. ScopeLits(Len(scopes))' = ScopeLits(Len(scopes))
      BY <1>1 DEF ScopeLits
    <3>2. ScopeLits(Len(testLevels))' = ScopeLits(Len(scopes))'
      BY <1>1, <2>2
    <3> QED BY <2>1, <3>1, <3>2
  <2>5. \A m \in asked : TrueUpTo(m, endTestLevel)'
    BY <1>1, <1>3 DEF TrueUpTo, IsTrue, trailVars
  <2>6. \A k \in 1 .. Len(testLevels') : \A m \in ScopeLits(k - 1)' : TrueUpTo(m, testLevels[k])'
    BY <1>1, <1>2, <2>3, ScopeLitsKept DEF TrueUpTo, TrueNext, IsTrue
  <2> QED BY <2>4, <2>5, <2>6 DEF ScopesTrue
<1>6. AskedTrue'
  BY <1>1, NothingAsked
<1>7. Answered' /\ SatIsModel'
  <2>1. Answered'
    BY <1>1 DEF Answered, trailVars, loopVars
  <2>2. res' = "sat" => /\ \A v \in VarSet : ~ IsFree(Pos(v))
                        /\ \A c \in formula : \E m \in c : IsTrue(m)
    BY <1>1, <1>2, ModelFound
  <2>3. \A m \in asked : IsTrue(m)
    BY <1>3 DEF TrueUpTo
  <2> QED BY <1>1, <2>1, <2>2, <2>3 DEF SatIsModel, IsFree, IsTrue, trailVars
<1> QED BY <1>4, <1>5, <1>6, <1>7 DEF LiveModel

(* A search ends with a model. *)
LEMMA SearchReturns ==
  ASSUME LiveModel, Live', Kept, SearchModel
  PROVE  LiveModel' /\ SatIsModel'
<1>1. /\ pc \in {"propagated", "guess"} /\ pc' = "ready" /\ mode = "idle" /\ mode' = mode
      /\ op = "solve" /\ op' = op /\ ~ HeapHasFree
      /\ UNCHANGED <<vals, levels>>
      /\ res' = (IF CheckModel THEN "sat" ELSE "fatal")
      /\ UNCHANGED <<arg, testLevels, endTestLevel, formula, scopes, asked>>
  BY DEF SearchModel, SolveReturn, Guessing, At, Return, histVars, assignVars, loopVars,
         LiveModel, Live, CallOK, Searching
<1>2. /\ Live /\ FormulaStored /\ ScopesTrue /\ ValuesKept
      /\ assumes = <<>> /\ AskedAt(assumptLevel)
  BY <1>1 DEF LiveModel, Kept, AskedTrue, Searching
<1>3. \A m \in asked : IsTrue(m)
  <2>1. ToSet(<<>>) = {}
    BY DEF ToSet
  <2> QED BY <1>2, <2>1 DEF AskedAt, TrueUpTo
<1>4. FormulaStored' /\ ScopesTrue'
  <2>1. ~ ScopeOpen
    BY <1>1 DEF ScopeOpen
  <2> QED BY <1>1, <1>2, <2>1, FormulaKept, ScopesTrueKept DEF LiveModel
<1>5. AskedTrue'
  BY <1>1, NothingAsked
<1>6. Answered' /\ SatIsModel'
  <2>1. res' = "sat" => /\ \A v \in VarSet : ~ IsFree(Pos(v))
                        /\ \A c \in formula : \E m \in c : IsTrue(m)
    BY <1>1, <1>2, ModelFound
  <2> QED BY <1>1, <1>3, <2>1 DEF Answered, SatIsModel, IsFree, IsTrue
<1> QED BY <1>4, <1>5, <1>6 DEF LiveModel

(* A clause is stored, or was true already.  With the empty clause no      *)
(* scope is open.                                                          *)
LEMMA ClauseStored ==
  ASSUME LiveModel, AddStore
  PROVE  Live' \/ Dead' => (LiveModel \/ DeadModel)' /\ SatIsModel'
<1>1. /\ pc = "add" /\ mode = "idle" /\ pc' = "ready"
      /\ IF TriviallyTrue(arg) THEN UNCHANGED trailVars ELSE AddClause(Simplified(arg))
      /\ UNCHANGED <<op, testLevels, endTestLevel, res, formula, scopes>>
  BY DEF AddStore, At, apiVars, histVars
<1>2. /\ Live /\ FormulaStored /\ TypeOK /\ TrailInv
      /\ Level = 0 /\ res = "none" /\ op = "add" /\ testLevels = <<>> /\ scopes = <<>>
      /\ arg \in Seq(LitSet)
  <2>1. /\ Level = 0 /\ res = "none" /\ op = "add" /\ testLevels = <<>> /\ arg \in Seq(LitSet)
    BY <1>1 DEF LiveModel, Live, LevelPlace, TopLevel, CallOK, StateTypes
  <2>2. ~ ScopeClosed
    BY <2>1 DEF ScopeClosed
  <2>3. scopes = <<>>
    <3>1. scopes \in Seq(Seq(LitSet)) /\ Len(scopes) = 0
      BY <2>1, <2>2, LevelTypes DEF LiveModel, ScopesOK
    <3> QED BY <3>1
  <2> QED BY <2>1, <2>3, LevelTypes DEF LiveModel, TrailSound, TrailInv
<1>3. Kept
  <2>1. CASE TriviallyTrue(arg)
    BY <1>1, <2>1, QuietKept DEF trailVars
  <2>2. CASE ~ TriviallyTrue(arg)
    <3>1. PICK ks : ks = Simplified(arg)
      OBVIOUS
    <3>2. AddClause(ks)
      BY <1>1, <2>2, <3>1
    <3>3. ks \in Seq(LitSet) /\ \A k \in 1 .. Len(ks) : IsFree(ks[k])
      BY <1>2, <2>2, <3>1, SimplifiedFacts DEF TrailInv
    <3>4. added \subseteq added' /\ \A q \in added : OldLits(q)
      <4>1. Link(ks) /\ added' = added \cup {Len(cls) + 1}
        BY <3>2 DEF AddClause
      <4> QED BY <1>2, <4>1, StoreKept
    <3>5. CASE Len(ks) = 1
      <4>1. Assign(ks[1], Len(cls) + 1)
        BY <3>2, <3>5 DEF AddClause
      <4>2. ks[1] \in LitSet /\ IsFree(ks[1]) /\ Len(cls) + 1 \in Nat
        <5>1. 1 \in 1 .. Len(ks)
          BY <3>5
        <5>2. cls \in Seq(Seq(LitSet))
          BY <1>2 DEF TypeOK
        <5> QED BY <3>3, <5>1, <5>2
      <4>3. ValuesKept
        BY <1>2, <4>1, <4>2, AssignKept
      <4> QED BY <3>4, <4>3 DEF Kept
    <3>6. CASE Len(ks) # 1
      <4>1. UNCHANGED <<vals, levels>>
        BY <3>2, <3>6 DEF AddClause, assignVars
      <4> QED BY <3>4, <4>1 DEF Kept, ValuesKept, IsTrue
    <3> QED BY <3>5, <3>6
  <2> QED BY <2>1, <2>2
<1>4. PICK new : new = ToSet(arg)
  OBVIOUS
<1>5. Stored(new)'
  <2>1. CASE TriviallyTrue(arg)
    <3>1. PICK i \in 1 .. Len(arg) : IsTrue(arg[i]) \/ Not(arg[i]) \in ToSet(arg)
      BY <2>1 DEF TriviallyTrue
    <3>2. arg[i] \in ToSet(arg) /\ arg[i] \in LitSet
      BY <1>2 DEF ToSet
    <3>3. UNCHANGED <<vals, levels>>
      BY <1>1, <2>1 DEF trailVars, assignVars
    <3>4. PICK m \in LitSet : m = arg[i] /\ m \in new
      BY <1>4, <3>2
    <3>5. CASE IsTrue(m)
      <4>1. TrueUpTo(m, 0)
        BY <1>2, <3>5, TrueAtLevel
      <4>2. TrueUpTo(m, 0)'
        BY <3>3, <4>1 DEF TrueUpTo, IsTrue
      <4> QED BY <3>4, <4>2 DEF Stored
    <3>6. CASE Not(m) \in new
      BY <3>4, <3>6 DEF Stored
    <3> QED BY <1>4, <3>1, <3>4, <3>5, <3>6
  <2>2. CASE ~ TriviallyTrue(arg)
    <3>1. PICK ks : ks = Simplified(arg)
      OBVIOUS
    <3>2. PICK q : q = Len(cls) + 1
      OBVIOUS
    <3>3. ks \in Seq(LitSet)
      BY <1>2, <2>2, <3>1, SimplifiedFacts DEF TrailInv
    <3>4. q \in added' /\ cls'[q] = ks
      <4>1. cls' = Append(cls, ks) /\ q \in added'
        BY <1>1, <2>2, <3>1, <3>2 DEF AddClause, Link
      <4>2. cls \in Seq(Seq(LitSet))
        BY <1>2 DEF TypeOK
      <4> QED BY <3>2, <3>3, <4>1, <4>2
    <3>5. \A k \in 1 .. Len(ks) : ks[k] \in new
      <4>1. AddedOK(ks, arg, Len(arg))
        BY <1>2, <3>1, AddLits
      <4> QED BY <1>2, <1>4, <4>1 DEF AddedOK, ToSet
    <3>6. \A k \in 1 .. Len(cls'[q]) : cls'[q][k] \in new
      BY <3>4, <3>5
    <3> QED BY <3>4, <3>6 DEF Stored
  <2> QED BY <2>1, <2>2
<1>6. FormulaStored'
  <2>1. \A c \in formula : c \subseteq LitSet /\ Stored(c)'
    BY <1>2, <1>3, <1>4, <1>5, StoredKept DEF FormulaStored
  <2> QED BY <1>1, <2>1 DEF FormulaStored
<1>7. ScopesTrue' /\ AskedTrue'
  <2>1. Len(testLevels') = 0
    BY <1>1, <1>2
  <2>2. \A k \in 1 .. Len(testLevels') : FALSE
    BY <2>1
  <2>3. \A m \in ScopeLits(Len(testLevels))' : FALSE
    BY <2>1 DEF ScopeLits
  <2> QED BY <1>1, <2>2, <2>3, NothingAsked DEF ScopesTrue
<1>8. Answered' /\ SatIsModel'
  BY <1>1, <1>2 DEF Answered, SatIsModel, Returned
<1>9. Live' => LiveModel'
  BY <1>6, <1>7, <1>8 DEF LiveModel
<1>10. Dead' => DeadModel'
  BY <1>1, <1>2 DEF DeadModel
<1> QED BY <1>8, <1>9, <1>10

-----------------------------------------------------------------------------
(***************************************************************************)
(* Calls.                                                                  *)
(***************************************************************************)

(* Between calls what is known of the scopes names them all. *)
LEMMA AllScopes ==
  ASSUME Live, ScopesTrue, pc = "ready", ~ ScopeOpen \/ scopes = <<>>, ~ Stopped
  PROVE  /\ Len(scopes) = Len(testLevels)
         /\ Elements(scopes) = ScopeLits(Len(testLevels))
         /\ \A m \in Elements(scopes) : TrueUpTo(m, endTestLevel)
<1>1. Len(scopes) = Len(testLevels)
  <2>1. ~ ScopeClosed
    BY DEF ScopeClosed, Cleaning, Stopped
  <2> QED BY <2>1, LevelTypes DEF ScopesOK
<1>2. Elements(scopes) = ScopeLits(Len(testLevels))
  BY <1>1 DEF Elements, ScopeLits
<1>3. CASE ~ ScopeOpen
  BY <1>1, <1>2, <1>3 DEF ScopesTrue
<1>4. CASE scopes = <<>>
  <2>1. \A i \in 1 .. Len(scopes) : FALSE
    BY <1>4
  <2>2. \A m \in Elements(scopes) : FALSE
    BY <2>1 DEF Elements
  <2> QED BY <1>1, <1>2, <2>2
<1> QED BY <1>3, <1>4

(* Add begins: its clause waits. *)
LEMMA AddModel ==
  ASSUME LiveModel, Live', NEW ms \in AddSpace, Add(ms)
  PROVE  LiveModel' /\ SatIsModel'
<1>1. /\ pc = "ready" /\ pc' = "add" /\ arg' = ms /\ testLevels' = <<>>
      /\ formula' = formula \cup {ToSet(ms)}
      /\ UNCHANGED <<vals, levels, cls, added>>
  BY DEF Add, Begin, MayCall, At, StartBack, assignVars, clauseVars, apiVars
<1>2. Live /\ FormulaStored /\ Kept
  BY <1>1, QuietKept DEF LiveModel
<1>3. FormulaStored'
  <2>1. ToSet(ms) \subseteq LitSet
    BY AddSpaceAssumption DEF ToSet
  <2>2. \A c \in formula : c \subseteq LitSet /\ Stored(c)'
    BY <1>1, <1>2, StoredKept DEF FormulaStored
  <2>3. \A c \in formula' : c \in formula \/ c = ToSet(arg')
    BY <1>1
  <2>4. \A c \in formula' : c \subseteq LitSet /\ (Stored(c)' \/ (pc' = "add" /\ c = ToSet(arg')))
    BY <1>1, <2>1, <2>2, <2>3
  <2> QED BY <2>4 DEF FormulaStored
<1>4. ScopesTrue'
  <2>1. Len(testLevels') = 0
    BY <1>1
  <2>2. \A k \in 1 .. Len(testLevels') : FALSE
    BY <2>1
  <2>3. \A m \in ScopeLits(Len(testLevels))' : FALSE
    BY <2>1 DEF ScopeLits
  <2> QED BY <2>2, <2>3 DEF ScopesTrue
<1> QED BY <1>1, <1>3, <1>4, NothingAsked, NoAnswer DEF LiveModel

(* Assume changes nothing that was answered. *)
LEMMA AssumeModel ==
  ASSUME LiveModel, SatIsModel, Live', NEW m \in AssumeSpace, Assume(m)
  PROVE  LiveModel' /\ SatIsModel'
<1>1. /\ pc = "ready" /\ UNCHANGED trailVars
      /\ UNCHANGED <<pc, op, res, unresolved, testLevels, endTestLevel, formula, scopes, asked>>
  BY DEF Assume, MayCall, At, histVars
<1>2. UNCHANGED <<vals, levels, cls, added, mode>>
  BY <1>1 DEF trailVars, assignVars, clauseVars, loopVars
<1>3. Live /\ FormulaStored /\ ScopesTrue /\ Answered /\ Kept /\ ValuesKept
  BY <1>2, QuietKept DEF LiveModel, Kept
<1>4. FormulaStored' /\ ScopesTrue'
  <2>1. ScopeOpen => ScopeOpen'
    BY <1>1 DEF ScopeOpen
  <2> QED BY <1>1, <1>3, <2>1, FormulaKept, ScopesTrueKept
<1>5. Answered' /\ SatIsModel'
  BY <1>1, <1>2, <1>3 DEF Answered, SatIsModel, Returned, IsFree, IsTrue
<1> QED BY <1>1, <1>4, <1>5, NothingAsked DEF LiveModel

(* Solve is asked for what is true and for the untested assumptions. *)
LEMMA SolveModel ==
  ASSUME LiveModel, Live', ~ Stopped, "solve" \in Discipline, Solve
  PROVE  LiveModel' /\ SatIsModel'
<1>1. /\ pc = "ready" /\ pc' = "cleanup" /\ op' = "solve" /\ unresolved # "test"
      /\ UNCHANGED trailVars /\ asked' = Elements(scopes) \cup ToSet(assumes)
      /\ UNCHANGED <<testLevels, endTestLevel, assumes, formula, scopes>>
  BY DEF Solve, Begin, MayCall, At, apiVars
<1>2. UNCHANGED <<vals, levels, cls, added>>
  BY <1>1 DEF trailVars, assignVars, clauseVars
<1>3. Live /\ FormulaStored /\ ScopesTrue /\ Answered /\ Kept /\ ValuesKept
  BY <1>2, QuietKept DEF LiveModel, Kept
<1>4. ~ ScopeOpen
  BY <1>1, <1>3 DEF ScopeOpen, Answered, Assuming
<1>5. FormulaStored' /\ ScopesTrue'
  BY <1>1, <1>3, <1>4, FormulaKept, ScopesTrueKept
<1>6. AskedTrue'
  <2>1. \A m \in asked' : m \in ToSet(assumes) \/ TrueUpTo(m, endTestLevel)
    BY <1>1, <1>3, <1>4, AllScopes
  <2>2. AskedAt(endTestLevel)'
    BY <1>1, <1>2, <2>1 DEF AskedAt, TrueUpTo, IsTrue
  <2> QED BY <1>1, <2>2 DEF AskedTrue, Cleaning, Assuming, Searching
<1> QED BY <1>1, <1>5, <1>6, NoAnswer DEF LiveModel

(* Test is asked for what is true and for the assumptions of its scope. *)
LEMMA TestModel ==
  ASSUME LiveModel, Live', ~ Stopped, "untest" \in Discipline, Test
  PROVE  LiveModel' /\ SatIsModel'
<1>1. /\ pc = "ready" /\ pc' = "cleanup" /\ op' = "test"
      /\ unresolved = "none" \/ scopes = <<>>
      /\ UNCHANGED trailVars
      /\ scopes' = Append(scopes, assumes) /\ asked' = Elements(scopes)'
      /\ UNCHANGED <<testLevels, endTestLevel, assumes, formula>>
  BY DEF Test, Begin, MayCall, At, apiVars
<1>2. UNCHANGED <<vals, levels, cls, added>>
  BY <1>1 DEF trailVars, assignVars, clauseVars
<1>3. Live /\ FormulaStored /\ ScopesTrue /\ Answered /\ Kept /\ ValuesKept
  BY <1>2, QuietKept DEF LiveModel, Kept
<1>4. ~ ScopeOpen \/ scopes = <<>>
  BY <1>1, <1>3 DEF ScopeOpen, Answered, Assuming
<1>5. FormulaStored'
  BY <1>1, <1>3, FormulaKept
<1> DEFINE n == Len(scopes)
<1>6. /\ n = Len(testLevels) /\ Elements(scopes) = ScopeLits(n)
      /\ \A m \in Elements(scopes) : TrueUpTo(m, endTestLevel)
  BY <1>1, <1>3, <1>4, AllScopes
<1>7. /\ n \in Nat /\ Len(scopes') = n + 1 /\ scopes'[n + 1] = assumes
      /\ \A k \in 1 .. n : scopes'[k] = scopes[k]
  <2>1. assumes \in Seq(LitSet)
    BY <1>3 DEF Live, StateTypes
  <2> QED BY <1>1, <1>3, <2>1, LevelTypes
<1> HIDE DEF n
<1>8. \A k \in 0 .. n : ScopeLits(k)' = ScopeLits(k)
  <2> SUFFICES ASSUME NEW k \in 0 .. n PROVE ScopeLits(k)' = ScopeLits(k)
    OBVIOUS
  <2>1. \A i \in 1 .. k : scopes'[i] = scopes[i]
    BY <1>7
  <2> QED BY <2>1 DEF ScopeLits
<1>9. ScopesTrue'
  <2>1. \A k \in 1 .. Len(testLevels) : \A m \in ScopeLits(k - 1)' : TrueUpTo(m, testLevels[k])'
    <3> SUFFICES ASSUME NEW k \in 1 .. Len(testLevels)
                 PROVE  \A m \in ScopeLits(k - 1)' : TrueUpTo(m, testLevels[k])'
      OBVIOUS
    <3>1. k - 1 \in 0 .. n
      BY <1>6, <1>7
    <3>2. ScopeLits(k - 1)' = ScopeLits(k - 1)
      BY <1>8, <3>1
    <3>3. \A m \in ScopeLits(k - 1) : TrueUpTo(m, testLevels[k])
      BY <1>3 DEF ScopesTrue
    <3> QED BY <1>1, <1>2, <3>2, <3>3 DEF TrueUpTo, IsTrue
  <2>2. \A m \in ScopeLits(Len(testLevels))' : TrueUpTo(m, endTestLevel)'
    <3>1. PICK k \in 0 .. n : k = Len(testLevels) /\ k = n
      BY <1>6, <1>7
    <3>2. ScopeLits(k)' = ScopeLits(k) /\ k = Len(testLevels')
      BY <1>1, <1>8, <3>1
    <3>3. ScopeLits(Len(testLevels))' = ScopeLits(k)'
      BY <3>2
    <3>4. \A m \in ScopeLits(k) : TrueUpTo(m, endTestLevel)
      BY <1>6, <3>1
    <3> QED BY <1>1, <1>2, <3>2, <3>3, <3>4 DEF TrueUpTo, IsTrue
  <2> QED BY <1>1, <2>1, <2>2 DEF ScopesTrue
<1>10. AskedTrue'
  <2>1. \A m \in asked' : m \in ToSet(assumes) \/ TrueUpTo(m, endTestLevel)
    <3> SUFFICES ASSUME NEW m \in asked'
                 PROVE  m \in ToSet(assumes) \/ TrueUpTo(m, endTestLevel)
      OBVIOUS
    <3>1. PICK i \in 1 .. Len(scopes') : m \in ToSet(scopes'[i])
      BY <1>1 DEF Elements
    <3>2. CASE i = n + 1
      BY <1>7, <3>1, <3>2
    <3>3. CASE i \in 1 .. n
      <4>1. m \in Elements(scopes)
        BY <1>7, <3>1, <3>3 DEF Elements, n
      <4> QED BY <1>6, <4>1
    <3> QED BY <1>7, <3>2, <3>3
  <2>2. AskedAt(endTestLevel)'
    BY <1>1, <1>2, <2>1 DEF AskedAt, TrueUpTo, IsTrue
  <2> QED BY <1>1, <2>2 DEF AskedTrue, Cleaning, Assuming, Searching
<1> QED BY <1>1, <1>5, <1>9, <1>10, NoAnswer DEF LiveModel

(* Untest goes back to where the assumptions of the other scopes were true *)
(* already.                                                                *)
LEMMA UntestModel ==
  ASSUME LiveModel, Live', ~ Stopped, Untest
  PROVE  LiveModel' /\ SatIsModel'
<1>1. /\ pc = "ready" /\ pc' = "cleanup" /\ op' = "untest" /\ testLevels # <<>>
      /\ UNCHANGED trailVars
      /\ testLevels' = Front(testLevels) /\ endTestLevel' = Last(testLevels)
      /\ scopes' = Front(scopes) /\ formula' = formula
  BY DEF Untest, Begin, MayCall, At
<1>2. UNCHANGED <<vals, levels, cls, added>>
  BY <1>1 DEF trailVars, assignVars, clauseVars
<1>3. Live /\ FormulaStored /\ ScopesTrue /\ Kept
  BY <1>2, QuietKept DEF LiveModel
<1>4. FormulaStored'
  BY <1>1, <1>3, FormulaKept
<1> DEFINE n == Len(testLevels)
<1>5. Len(scopes) = n
  <2>1. ~ ScopeClosed
    BY <1>1 DEF ScopeClosed, Cleaning, Stopped
  <2> QED BY <1>3, <2>1, LevelTypes DEF ScopesOK
<1>6. /\ n \in Nat /\ n >= 1 /\ endTestLevel' = testLevels[n]
      /\ Len(testLevels') = n - 1
      /\ \A k \in 1 .. (n - 1) : testLevels'[k] = testLevels[k]
  BY <1>1, <1>3, FrontFacts, LevelTypes
<1>7. Len(scopes') = n - 1 /\ \A k \in 1 .. (n - 1) : scopes'[k] = scopes[k]
  <2>1. scopes # <<>> /\ scopes \in Seq(Seq(LitSet))
    BY <1>3, <1>5, <1>6, EmptySeq, LevelTypes
  <2> QED BY <1>1, <1>5, <2>1, FrontFacts
<1>8. \A k \in 1 .. n : \A m \in ScopeLits(k - 1) : TrueUpTo(m, testLevels[k])
  BY <1>3 DEF ScopesTrue
<1> HIDE DEF n
<1>9. \A k \in 0 .. (n - 1) : ScopeLits(k)' = ScopeLits(k)
  <2> SUFFICES ASSUME NEW k \in 0 .. (n - 1) PROVE ScopeLits(k)' = ScopeLits(k)
    OBVIOUS
  <2>1. \A i \in 1 .. k : scopes'[i] = scopes[i]
    BY <1>6, <1>7
  <2> QED BY <2>1 DEF ScopeLits
<1>10. ScopesTrue'
  <2>1. \A k \in 1 .. (n - 1) : \A m \in ScopeLits(k - 1)' : TrueUpTo(m, testLevels[k])'
    <3> SUFFICES ASSUME NEW k \in 1 .. (n - 1)
                 PROVE  \A m \in ScopeLits(k - 1)' : TrueUpTo(m, testLevels[k])'
      OBVIOUS
    <3>1. k - 1 \in 0 .. (n - 1) /\ k \in 1 .. n
      BY <1>6
    <3>2. ScopeLits(k - 1)' = ScopeLits(k - 1) /\ testLevels'[k] = testLevels[k]
      BY <1>6, <1>9, <3>1
    <3>3. \A m \in ScopeLits(k - 1) : TrueUpTo(m, testLevels[k])
      BY <1>8, <3>1
    <3> QED BY <1>2, <3>2, <3>3 DEF TrueUpTo, IsTrue
  <2>2. \A m \in ScopeLits(Len(testLevels))' : TrueUpTo(m, endTestLevel)'
    <3>1. PICK k \in 0 .. (n - 1) : k = Len(testLevels') /\ k = n - 1 /\ n \in 1 .. n
      BY <1>6
    <3>2. ScopeLits(k)' = ScopeLits(k)
      BY <1>9
    <3>3. ScopeLits(Len(testLevels))' = ScopeLits(k)'
      BY <3>1
    <3>4. \A m \in ScopeLits(k) : TrueUpTo(m, testLevels[n])
      BY <1>8, <3>1
    <3> QED BY <1>2, <1>6, <3>2, <3>3, <3>4 DEF TrueUpTo, IsTrue
  <2> QED BY <1>6, <2>1, <2>2 DEF ScopesTrue
<1>11. AskedTrue'
  BY <1>1 DEF AskedTrue, Assuming, Searching
<1> QED BY <1>1, <1>4, <1>10, <1>11, NoAnswer DEF LiveModel

-----------------------------------------------------------------------------
(***************************************************************************)
(* The invariant, for clients which take all precautions.                  *)
(***************************************************************************)

(* A step of a solver without an empty clause. *)
LEMMA LiveModelNext ==
  ASSUME IInv, LiveModel, SatIsModel, [Next]_vars, {"final", "untest", "solve"} \subseteq Discipline
  PROVE  ModelInv'
<1>1. IInv' /\ Live /\ bot = CNull
  BY IInvNext DEF LiveModel, Live, TrailSound
<1>2. bot' = CNull => Live'
  BY <1>1 DEF IInv, Dead, TrailEmpty, Clauses, CNull
<1>3. CASE Call
  <2>1. ~ Stopped /\ bot' = CNull
    <3>1. bot' = bot
      BY <1>3 DEF Call, Add, Assume, Solve, Test, Untest, StartBack, trailVars, clauseVars
    <3> QED BY <1>1, <1>3, <3>1 DEF Call
  <2>2. LiveModel' /\ SatIsModel'
    BY <1>2, <1>3, <2>1, AddModel, AssumeModel, SolveModel, TestModel, UntestModel DEF Call
  <2> QED BY <1>1, <2>2 DEF ModelInv
<1>4. CASE AddStore
  <2>1. Live' \/ Dead'
    BY <1>1 DEF IInv
  <2> QED BY <1>1, <1>4, <2>1, ClauseStored DEF ModelInv
<1>5. CASE SolverStep /\ ~ AddStore
  <2>1. Kept /\ Live'
    BY <1>1, <1>2, <1>5, StepKept
  <2>2. ~ CleanupBot /\ ~ AssumeBot
    BY <1>1 DEF CleanupBot, AssumeBot
  <2>3. LiveModel' /\ SatIsModel'
    BY <1>5, <2>1, <2>2, GoesOn, AssumedOne, ScopeOpened, ReturnsNoModel, TestReturns,
       SearchReturns DEF SolverStep
  <2> QED BY <1>1, <2>3 DEF ModelInv
<1>6. CASE TrailStep
  <2>1. Kept /\ Live' /\ UNCHANGED solverVars
    BY <1>1, <1>6, LoopKept, TrailStepLive DEF TrailStep
  <2>2. mode # "idle"
    BY <1>6 DEF TrailStep, PropStep, BackStep, PropTake, PropReturn, PropNext, VisitBlocked,
                VisitBinary, VisitSatisfied, VisitRewatch, VisitLast, VisitingLong, Visiting,
                BackPop, BackStop
  <2> QED BY <1>1, <2>1, <2>2, SolverSame DEF ModelInv
<1>7. CASE UNCHANGED vars
  <2>1. UNCHANGED trailVars /\ UNCHANGED solverVars
    BY <1>7 DEF vars
  <2>2. UNCHANGED <<vals, levels, cls, added, bot>>
    BY <2>1 DEF trailVars, assignVars, clauseVars
  <2>3. Kept /\ Live'
    BY <1>1, <1>2, <2>2, QuietKept
  <2> QED BY <1>1, <2>1, <2>3, SolverSame DEF ModelInv
<1> QED BY <1>3, <1>4, <1>5, <1>6, <1>7 DEF Next

(* No answer 1 is given with an empty clause, and a call is made only when *)
(* the last Test is resolved. *)
LEMMA DeadModelCall ==
  ASSUME DeadModel, Dead', res' # "sat", Call, {"final", "untest", "solve"} \subseteq Discipline
  PROVE  DeadModel'
<1>1. CASE \E ms \in AddSpace : Add(ms)
  <2>1. /\ pc = "ready" /\ testLevels = <<>> /\ pc' = "add" /\ op' = "add"
        /\ UNCHANGED <<testLevels, scopes>>
    BY <1>1 DEF Add, Begin, MayCall, At, apiVars
  <2>2. scopes = <<>>
    BY <2>1 DEF DeadModel
  <2> QED BY <2>1, <2>2 DEF DeadModel
<1>2. CASE \E m \in AssumeSpace : Assume(m)
  <2>1. UNCHANGED <<pc, op, res, unresolved, testLevels, scopes>>
    BY <1>2 DEF Assume, histVars
  <2> QED BY <2>1 DEF DeadModel
<1>3. CASE Solve
  <2>1. /\ pc = "ready" /\ unresolved # "test" /\ pc' = "cleanup" /\ op' = "solve"
        /\ UNCHANGED <<testLevels, scopes>>
    BY <1>3 DEF Solve, Begin, MayCall, At, apiVars
  <2> QED BY <2>1 DEF DeadModel
<1>4. CASE Test
  <2>1. /\ pc = "ready" /\ (unresolved = "none" \/ scopes = <<>>)
        /\ pc' = "cleanup" /\ op' = "test"
        /\ testLevels' = testLevels /\ scopes' = Append(scopes, assumes)
    BY <1>4 DEF Test, Begin, MayCall, At, apiVars
  <2>2. scopes = <<>> /\ testLevels = <<>>
    BY <2>1 DEF DeadModel
  <2>3. scopes' = <<assumes>>
    BY <2>1, <2>2
  <2> QED BY <2>1, <2>2, <2>3 DEF DeadModel
<1>5. CASE Untest
  <2>1. /\ pc = "ready" /\ testLevels # <<>> /\ pc' = "cleanup" /\ op' = "untest"
        /\ testLevels' = Front(testLevels) /\ scopes' = Front(scopes)
    BY <1>5 DEF Untest, Begin, MayCall, At
  <2>2. PICK a, b : scopes = <<a>> /\ testLevels = <<b>>
    BY <2>1 DEF DeadModel
  <2>3. \A s : Front(<<s>>) = <<>>
    BY DEF Front
  <2> QED BY <2>1, <2>2, <2>3 DEF DeadModel
<1> QED BY <1>1, <1>2, <1>3, <1>4, <1>5 DEF Call

(* A step of a call. *)
LEMMA DeadModelStep ==
  ASSUME DeadModel, Dead', res' # "sat", SolverStep
  PROVE  DeadModel'
<1>1. bot # CNull /\ pc \in {"ready", "add", "cleanup", "scope", "assume", "lates", "untested"}
  BY DEF DeadModel, Dead, TrailEmpty, Clauses, CNull
<1>2. AddStore \/ CleanupBot \/ CleanupDone \/ OpenScope \/ AssumeBot \/ UntestLates \/ Untested
  BY <1>1
     DEF SolverStep, At, CleanupDerive, CleanupBack, CleanupAssert, CleanupProp, CleanupAgain,
         CleanupFail, AssumeStart, AssumeConflict, AssumeNext, AssumeProp, AssumeTrue,
         AssumeFalse, Assumed, Tested, SearchProp, SearchUnsat, SearchDerive, Backjump,
         SearchAssert, SearchDeadline, SearchStopped, SearchRestart, SearchGuess, SearchModel,
         Guessing
<1>3. /\ op' = op /\ scopes' = scopes
      /\ ~ OpenScope => testLevels' = testLevels
  BY <1>2 DEF AddStore, CleanupBot, CleanupDone, OpenScope, AssumeBot, UntestLates, Untested,
              AssumeFail, Return, apiVars, histVars
<1>4. CASE AddStore \/ UntestLates \/ Untested
  <2>1. pc \in {"add", "lates", "untested"} /\ pc' \in {"ready", "untested"} /\ ~ OpenScope
    BY <1>4 DEF AddStore, UntestLates, Untested, OpenScope, Return, At
  <2> QED BY <1>3, <2>1 DEF DeadModel
<1>5. CASE CleanupBot \/ CleanupDone
  <2>1. /\ pc = "cleanup" /\ ~ OpenScope
        /\ pc' \in {pc, IF op = "test" THEN "scope" ELSE IF op = "solve" THEN "assume" ELSE "lates"}
    BY <1>5 DEF CleanupBot, CleanupDone, OpenScope, At
  <2> QED BY <1>3, <2>1 DEF DeadModel
<1>6. CASE OpenScope
  <2>1. pc = "scope" /\ pc' = "assume" /\ testLevels' = Append(testLevels, Level)
    BY <1>6 DEF OpenScope, At
  <2>2. op = "test" /\ testLevels = <<>> /\ \E a : scopes = <<a>>
    BY <2>1 DEF DeadModel
  <2>3. testLevels' = <<Level>>
    BY <2>1, <2>2
  <2> QED BY <1>3, <2>1, <2>2, <2>3 DEF DeadModel
<1>7. CASE AssumeBot
  <2>1. /\ pc = "assume" /\ pc' = "ready" /\ res' = "unsat" /\ ~ OpenScope
        /\ op = "test" => unresolved' = "test"
    BY <1>7 DEF AssumeBot, AssumeFail, Return, OpenScope, At
  <2> QED BY <1>3, <2>1 DEF DeadModel
<1> QED BY <1>2, <1>4, <1>5, <1>6, <1>7

(* A step of a solver with an empty clause. *)
LEMMA DeadModelNext ==
  ASSUME IInv, DeadModel, [Next]_vars, {"final", "untest", "solve"} \subseteq Discipline
  PROVE  ModelInv'
<1>1. IInv' /\ Dead /\ res # "sat"
  BY IInvNext DEF DeadModel
<1>2. CASE Next
  <2>1. Dead' /\ res' \in {res, "none", "unsat", "unknown"}
    BY <1>1, <1>2, DeadCalls, DeadSteps, DeadTrailStep DEF Next
  <2>2. res' # "sat"
    BY <1>1, <2>1
  <2>3. CASE TrailStep
    <3>1. UNCHANGED <<pc, op, res, unresolved, testLevels, scopes>>
      BY <2>3 DEF TrailStep, solverVars
    <3>2. DeadModel'
      BY <2>1, <3>1 DEF DeadModel
    <3> QED BY <1>1, <2>2, <3>2 DEF ModelInv, SatIsModel
  <2>4. CASE Call \/ SolverStep
    <3>1. DeadModel'
      BY <2>1, <2>2, <2>4, DeadModelCall, DeadModelStep
    <3> QED BY <1>1, <2>2, <3>1 DEF ModelInv, SatIsModel
  <2> QED BY <1>2, <2>3, <2>4 DEF Next
<1>3. CASE UNCHANGED vars
  <2>1. UNCHANGED <<pc, op, res, unresolved, testLevels, scopes>> /\ bot' = bot
    BY <1>3 DEF vars, solverVars, trailVars, clauseVars
  <2>2. Dead'
    BY <1>1, <2>1 DEF IInv, Dead, Live, TrailSound, TrailEmpty, Clauses, CNull
  <2>3. DeadModel'
    BY <2>1, <2>2 DEF DeadModel
  <2> QED BY <1>1, <2>1, <2>3 DEF ModelInv, SatIsModel
<1> QED BY <1>2, <1>3

(* It holds at the start. *)
LEMMA ModelInit ==
  ASSUME Init
  PROVE  ModelInv
<1>1. IInv
  BY IInvInit
<1>2. /\ pc = "ready" /\ op = "none" /\ testLevels = <<>> /\ res = "none" /\ formula = {}
      /\ bot = CNull
  BY DEF Init, TrailInit
<1>3. Live
  BY <1>1, <1>2 DEF IInv, Dead, TrailEmpty, Clauses, CNull
<1>4. FormulaStored /\ AskedTrue /\ Answered /\ SatIsModel
  BY <1>2 DEF FormulaStored, AskedTrue, Answered, SatIsModel, Returned, Cleaning, Assuming,
              Searching
<1>5. ScopesTrue
  <2>1. Len(testLevels) = 0
    BY <1>2
  <2>2. \A k \in 1 .. Len(testLevels) : FALSE
    BY <2>1
  <2>3. \A m \in ScopeLits(Len(testLevels)) : FALSE
    BY <2>1 DEF ScopeLits
  <2> QED BY <2>2, <2>3 DEF ScopesTrue
<1> QED BY <1>1, <1>3, <1>4, <1>5 DEF ModelInv, LiveModel

(* What stands for the clauses and the assumptions between the steps of a  *)
(* solver whose client untests after a Test that failed. *)
THEOREM ModelInvariant ==
  {"final", "untest", "solve"} \subseteq Discipline => (Spec => []ModelInv)
<1> SUFFICES ASSUME {"final", "untest", "solve"} \subseteq Discipline PROVE Spec => []ModelInv
  OBVIOUS
<1>1. Init => ModelInv
  BY ModelInit
<1>2. ModelInv /\ [Next]_vars => ModelInv'
  BY LiveModelNext, DeadModelNext DEF ModelInv
<1> QED BY <1>1, <1>2, PTL DEF Spec

(* An answer 1 of Solve or Test is right: Value is a model of all clauses  *)
(* as they were given to Add, and of all assumptions, tested or not. *)
THEOREM SatAnswersRight ==
  {"final", "untest", "solve"} \subseteq Discipline => (Spec => []SatIsModel)
BY ModelInvariant, PTL DEF ModelInv

(* Between calls the assumptions of the open scopes are true, unless the   *)
(* last call failed. *)
LEMMA ScopesHold ==
  ASSUME ModelInv
  PROVE  TestedHold
<1> SUFFICES ASSUME pc = "ready", res \in {"sat", "unknown"}, NEW m \in Elements(scopes)
             PROVE  IsTrue(m)
  BY DEF TestedHold, Returned
<1>1. CASE LiveModel
  <2>1. Live /\ ScopesTrue /\ ~ ScopeOpen /\ ~ Stopped
    BY <1>1 DEF LiveModel, ScopeOpen, Assuming, Stopped
  <2>2. TrueUpTo(m, endTestLevel)
    BY <2>1, AllScopes
  <2> QED BY <2>2 DEF TrueUpTo
<1>2. CASE DeadModel
  <2>1. scopes = <<>>
    BY <1>2 DEF DeadModel
  <2>2. \A i \in 1 .. Len(scopes) : FALSE
    BY <2>1
  <2> QED BY <2>2 DEF Elements
<1> QED BY <1>1, <1>2 DEF ModelInv

(* What Test established holds until Untest, whatever Solve does in        *)
(* between. *)
THEOREM TestedStay ==
  {"final", "untest", "solve"} \subseteq Discipline => (Spec => []TestedHold)
BY ModelInvariant, ScopesHold, PTL

-----------------------------------------------------------------------------
(***************************************************************************)
(* Why: what S.final reaches from a conflict, or from a failed assumption. *)
(***************************************************************************)

(* A trail has at most one literal of each variable. *)
LEMMA TrailBound ==
  ASSUME TrailCore
  PROVE  Len(D) \in Nat /\ Len(D) <= NVars
<1> DEFINE n == Len(D)
           f == [i \in 1 .. n |-> Var(D[i])]
<1>1. n \in Nat /\ NVars \in Nat
  BY NVarsAssumption DEF TrailCore, TypeOK
<1>2. f \in [1 .. n -> VarSet]
  BY TrailFacts
<1>3. ASSUME NEW i \in 1 .. n, NEW j \in 1 .. n, i < j
      PROVE  f[i] # f[j]
  <2>1. i \in 1 .. (j - 1)
    BY <1>1, <1>3
  <2> QED BY <2>1, TrailFacts
<1> HIDE DEF f, n
<1>4. /\ IsFiniteSet(1 .. n) /\ Cardinality(1 .. n) = n
      /\ IsFiniteSet(VarSet) /\ Cardinality(VarSet) = NVars
  <2>1. \A k \in Nat : IsFiniteSet(1 .. k) /\ Cardinality(1 .. k) = IF 1 > k THEN 0 ELSE k - 1 + 1
    BY FS_Interval
  <2>2. \A k \in Nat : IsFiniteSet(1 .. k) /\ Cardinality(1 .. k) = k
    BY <2>1
  <2> QED BY <1>1, <2>2 DEF VarSet
<1>5. n <= NVars
  <2> SUFFICES ASSUME NVars < n PROVE FALSE
    BY <1>1
  <2>1. Cardinality(VarSet) < Cardinality(1 .. n)
    BY <1>4
  <2>2. PICK i \in 1 .. n, j \in 1 .. n : i # j /\ f[i] = f[j]
    BY <1>2, <1>4, <2>1, FS_PigeonHole
  <2> QED BY <1>1, <1>3, <2>2
<1> QED BY <1>1, <1>5 DEF n

(* No literal is twice on the trail. *)
LEMMA SamePlace ==
  ASSUME TrailCore, NEW i \in 1 .. Len(D), NEW j \in 1 .. Len(D), D[i] = D[j]
  PROVE  i = j
<1>1. Len(D) \in Nat
  BY TrailFacts
<1>2. i < j => i \in 1 .. (j - 1)
  BY <1>1
<1>3. j < i => j \in 1 .. (i - 1)
  BY <1>1
<1>4. ~ (i < j) /\ ~ (j < i)
  BY <1>2, <1>3, TrailFacts
<1> QED BY <1>1, <1>4

(* The literals of the reason of m other than its own. *)
Others(m) == ToSet(Tail(cls[reasons[Var(m)]]))

(* One step of finalRec. *)
Grow(R, rs) ==
  R \cup UNION {ToSet(Tail(cls[rs[Var(m)]])) : m \in {k \in R : rs[Var(k)] # CNull}}

FinalIter == INSTANCE FoldProofs WITH op <- Grow

(* The literals are false. *)
AllFalse(R) == R \subseteq LitSet /\ \A m \in R : IsFalse(m)

(* The reason of a false literal, wherever its negation is on the trail. *)
LEMMA OthersFacts ==
  ASSUME TrailCore, NEW m \in LitSet, IsFalse(m), reasons[Var(m)] # CNull
  PROVE  /\ AllFalse(Others(m))
         /\ \A i \in 1 .. Len(D) : D[i] = Not(m) =>
              \A r \in Others(m) : \E j \in 1 .. (i - 1) : D[j] = Not(r)
         /\ LET c == reasons[Var(m)]
            IN  /\ c \in Clauses /\ Len(cls[c]) \in Nat /\ Len(cls[c]) >= 1
                /\ cls[c][1] = Not(m) /\ \A k \in 2 .. Len(cls[c]) : cls[c][k] \in Others(m)
<1> DEFINE c == reasons[Var(m)]
           ms == cls[c]
<1>1. PICK i \in 1 .. Len(D) : D[i] = Not(m) /\ Var(D[i]) = Var(m)
  BY FalseFacts
<1>2. /\ c \in Clauses /\ ms \in Seq(LitSet) /\ Len(ms) \in Nat /\ Len(ms) >= 1
      /\ ms # <<>> /\ ms[1] = D[i]
      /\ \A k \in 2 .. Len(ms) : /\ ms[k] \in LitSet /\ IsFalse(ms[k])
                                 /\ \E j \in 1 .. (i - 1) : D[j] = Not(ms[k])
  BY <1>1, ReasonFacts
<1>3. Others(m) = ToSet(Tail(ms))
  BY DEF Others
<1> HIDE DEF ms, c
<1>4. Len(Tail(ms)) = Len(ms) - 1 /\ \A k \in 1 .. (Len(ms) - 1) : Tail(ms)[k] = ms[k + 1]
  BY <1>2
<1>5. \A r \in Others(m) : \E k \in 2 .. Len(ms) : r = ms[k]
  <2> SUFFICES ASSUME NEW r \in Others(m) PROVE \E k \in 2 .. Len(ms) : r = ms[k]
    OBVIOUS
  <2>1. PICK k \in 1 .. (Len(ms) - 1) : r = Tail(ms)[k]
    BY <1>3, <1>4 DEF ToSet
  <2>2. k + 1 \in 2 .. Len(ms) /\ r = ms[k + 1]
    BY <1>2, <1>4, <2>1
  <2> QED BY <2>2
<1>6. ASSUME NEW k \in 2 .. Len(ms) PROVE ms[k] \in Others(m)
  <2>1. k - 1 \in 1 .. (Len(ms) - 1) /\ (k - 1) + 1 = k
    BY <1>2
  <2>2. Tail(ms)[k - 1] = ms[k]
    BY <1>4, <2>1
  <2> QED BY <1>3, <1>4, <2>1, <2>2 DEF ToSet
<1>7. AllFalse(Others(m))
  BY <1>2, <1>5 DEF AllFalse
<1>8. ASSUME NEW h \in 1 .. Len(D), D[h] = Not(m), NEW r \in Others(m)
      PROVE  \E j \in 1 .. (h - 1) : D[j] = Not(r)
  <2>1. h = i
    BY <1>1, <1>8, SamePlace
  <2> QED BY <1>2, <1>5, <2>1
<1> QED BY <1>1, <1>2, <1>6, <1>7, <1>8 DEF c, ms

(* The literals whose reasons were followed too. *)
Closed(R) == \A m \in R : reasons[Var(m)] # CNull => Others(m) \subseteq R

(* One step reaches false literals only, with the others of their reasons. *)
LEMMA GrowFacts ==
  ASSUME TrailCore, NEW R, AllFalse(R)
  PROVE  /\ AllFalse(Grow(R, reasons)) /\ R \subseteq Grow(R, reasons)
         /\ \A m \in R : reasons[Var(m)] # CNull => Others(m) \subseteq Grow(R, reasons)
         /\ \A n \in Grow(R, reasons) :
              n \in R \/ \E m \in R : reasons[Var(m)] # CNull /\ n \in Others(m)
<1> DEFINE G == Grow(R, reasons)
<1>1. G = R \cup UNION {Others(m) : m \in {k \in R : reasons[Var(k)] # CNull}}
  BY DEF Grow, Others
<1> HIDE DEF G
<1>2. \A n \in G : n \in R \/ \E m \in R : reasons[Var(m)] # CNull /\ n \in Others(m)
  BY <1>1
<1>3. R \subseteq G /\ \A m \in R : reasons[Var(m)] # CNull => Others(m) \subseteq G
  BY <1>1
<1>4. ASSUME NEW n \in G PROVE n \in LitSet /\ IsFalse(n)
  <2>1. CASE n \in R
    BY <2>1 DEF AllFalse
  <2>2. CASE \E m \in R : reasons[Var(m)] # CNull /\ n \in Others(m)
    <3>1. PICK m \in R : reasons[Var(m)] # CNull /\ n \in Others(m)
      BY <2>2
    <3>2. m \in LitSet /\ IsFalse(m)
      BY DEF AllFalse
    <3>3. AllFalse(Others(m))
      BY <3>1, <3>2, OthersFacts
    <3> QED BY <3>1, <3>3 DEF AllFalse
  <2> QED BY <1>2, <2>1, <2>2
<1> QED BY <1>2, <1>3, <1>4 DEF G, AllFalse

(* Final follows every reason: the literals reached after as many steps as *)
(* there are variables are closed.  The others of a reason lie before its  *)
(* literal on the trail, so that after n steps the literals that are not   *)
(* followed yet have left the last n places. *)
LEMMA ReachedFacts ==
  ASSUME TrailCore, NEW roots, AllFalse(roots)
  PROVE  AllFalse(Reached(roots)) /\ roots \subseteq Reached(roots) /\ Closed(Reached(roots))
<1>1. NVars \in Nat /\ Len(D) \in Nat /\ Len(D) <= NVars
  BY NVarsAssumption, TrailBound
<1> DEFINE g == CHOOSE f : FinalIter!Iterates(f, roots, reasons, NVars)
<1>2. FinalIter!Iterates(g, roots, reasons, NVars)
  BY <1>1, FinalIter!IterExists
<1>3. Reached(roots) = g[NVars]
  BY DEF Reached, FinalIter!Iterates, Grow
<1> HIDE DEF g
<1>4. FinalIter!Steps(g, roots, reasons, NVars)
  BY <1>1, <1>2, FinalIter!IterSteps
<1> DEFINE Behind(n) ==
             \A m \in g[n], i \in 1 .. Len(D) :
               /\ D[i] = Not(m) /\ reasons[Var(m)] # CNull
               /\ ~ (Others(m) \subseteq g[n])
               => i <= Len(D) - n
           T == {n \in 0 .. NVars : AllFalse(g[n]) /\ roots \subseteq g[n] /\ Behind(n)}
<1>5. 0 \in T
  <2>1. g[0] = roots
    BY <1>4 DEF FinalIter!Steps
  <2> QED BY <1>1, <2>1
<1>6. ASSUME NEW n \in 0 .. (NVars - 1), n \in T
      PROVE  n + 1 \in T
  <2>1. AllFalse(g[n]) /\ roots \subseteq g[n] /\ Behind(n)
    BY <1>6
  <2>2. n + 1 \in 1 .. NVars /\ n + 1 \in 0 .. NVars /\ g[n + 1] = Grow(g[n], reasons)
    <3>1. n + 1 \in 1 .. NVars /\ n + 1 \in 0 .. NVars /\ (n + 1) - 1 = n
      BY <1>1
    <3>2. g[n + 1] = Grow(g[(n + 1) - 1], reasons)
      BY <1>4, <3>1 DEF FinalIter!Steps
    <3> QED BY <3>1, <3>2
  <2>3. /\ AllFalse(g[n + 1]) /\ g[n] \subseteq g[n + 1]
        /\ \A m \in g[n] : reasons[Var(m)] # CNull => Others(m) \subseteq g[n + 1]
        /\ \A k \in g[n + 1] :
             k \in g[n] \/ \E m \in g[n] : reasons[Var(m)] # CNull /\ k \in Others(m)
    BY <2>1, <2>2, GrowFacts
  <2>4. ASSUME NEW m \in g[n + 1], NEW i \in 1 .. Len(D), D[i] = Not(m),
               reasons[Var(m)] # CNull, ~ (Others(m) \subseteq g[n + 1])
        PROVE  i <= Len(D) - (n + 1)
    <3>1. m \notin g[n]
      BY <2>3, <2>4
    <3>2. PICK k \in g[n] : reasons[Var(k)] # CNull /\ m \in Others(k)
      BY <2>3, <3>1
    <3>3. k \in LitSet /\ IsFalse(k)
      BY <2>1 DEF AllFalse
    <3>4. PICK h \in 1 .. Len(D) : D[h] = Not(k)
      BY <3>3, FalseFacts
    <3>5. h <= Len(D) - n
      BY <2>1, <3>1, <3>2, <3>4
    <3>6. PICK j \in 1 .. (h - 1) : D[j] = Not(m)
      BY <3>2, <3>3, <3>4, OthersFacts
    <3>7. j \in 1 .. Len(D) /\ j < h
      BY <1>1
    <3>8. i = j
      BY <2>4, <3>6, <3>7, SamePlace
    <3> QED BY <1>1, <3>5, <3>7, <3>8
  <2> QED BY <2>1, <2>2, <2>3, <2>4
<1>7. NVars \in T
  <2> HIDE DEF T
  <2>1. \A k \in 0 .. NVars : k \in T
    BY <1>1, <1>5, <1>6, FinalIter!Induct
  <2> QED BY <1>1, <2>1
<1>8. AllFalse(g[NVars]) /\ roots \subseteq g[NVars] /\ Behind(NVars)
  BY <1>7
<1>9. Closed(g[NVars])
  <2> SUFFICES ASSUME NEW m \in g[NVars], reasons[Var(m)] # CNull,
                      ~ (Others(m) \subseteq g[NVars])
               PROVE  FALSE
    BY DEF Closed
  <2>1. m \in LitSet /\ IsFalse(m)
    BY <1>8 DEF AllFalse
  <2>2. PICK i \in 1 .. Len(D) : D[i] = Not(m)
    BY <2>1, FalseFacts
  <2>3. i <= Len(D) - NVars
    BY <1>8, <2>2
  <2> QED BY <1>1, <2>2, <2>3
<1> QED BY <1>3, <1>8, <1>9

(* A model of the added clauses in which Final of a set of false literals  *)
(* holds makes all literals reached from it false.                         *)
LEMMA FinalImplies ==
  ASSUME TrailCore, Sound, NEW roots, AllFalse(roots), NEW A, Model(A),
         \A m \in Final(roots) : HoldsIn(m, A)
  PROVE  \A m \in roots : ~ HoldsIn(m, A)
<1> DEFINE R == Reached(roots)
           T == {i \in 1 .. Len(D) : Not(D[i]) \in R /\ HoldsIn(Not(D[i]), A)}
<1>1. AllFalse(R) /\ roots \subseteq R /\ Closed(R)
  BY ReachedFacts
<1>2. \A m \in R : reasons[Var(m)] = CNull => HoldsIn(Not(m), A)
  BY DEF Final
<1> HIDE DEF R
<1>3. ASSUME NEW m \in R
      PROVE  /\ m \in LitSet /\ IsFalse(m) /\ Not(Not(m)) = m /\ Not(m) \in LitSet
             /\ \E i \in 1 .. Len(D) : D[i] = Not(m)
  <2>1. m \in LitSet /\ IsFalse(m)
    BY <1>1 DEF AllFalse
  <2> QED BY <2>1, LitFacts, FalseFacts
<1>4. T = {}
  <2> SUFFICES ASSUME T # {} PROVE FALSE
    OBVIOUS
  <2>1. T \in SUBSET Nat
    OBVIOUS
  <2>2. PICK i \in T : \A j \in T : i <= j
    BY <2>1, FinalIter!LeastNat
  <2>3. i \in 1 .. Len(D) /\ i \in Nat
    BY <2>1, <2>2
  <2>4. PICK m \in R : m = Not(D[i]) /\ HoldsIn(m, A)
    BY <2>2
  <2>5. D[i] = Not(m) /\ ~ HoldsIn(D[i], A)
    <3>1. D[i] \in LitSet
      BY <2>3, TrailFacts
    <3>2. D[i] = Not(m)
      BY <2>4, <3>1, LitFacts
    <3> QED BY <1>3, <2>4, <3>2, HoldsFacts
  <2>6. reasons[Var(m)] # CNull
    BY <1>2, <1>3, <2>4, HoldsFacts
  <2>7. PICK c \in Clauses : /\ Len(cls[c]) \in Nat /\ Len(cls[c]) >= 1 /\ cls[c][1] = Not(m)
                             /\ \A k \in 2 .. Len(cls[c]) : cls[c][k] \in Others(m)
    BY <1>3, <2>6, OthersFacts
  <2>8. PICK k \in 1 .. Len(cls[c]) : HoldsIn(cls[c][k], A)
    BY DEF Sound
  <2>9. k \in 2 .. Len(cls[c])
    BY <2>5, <2>7, <2>8
  <2>10. PICK r \in Others(m) : HoldsIn(r, A)
    BY <2>7, <2>8, <2>9
  <2>11. r \in R
    BY <1>1, <2>6 DEF Closed
  <2>12. PICK j \in 1 .. (i - 1) : D[j] = Not(r)
    BY <1>3, <2>3, <2>5, <2>6, OthersFacts
  <2>13. j \in 1 .. Len(D) /\ j < i
    <3>1. Len(D) \in Nat
      BY <2>3, TrailFacts
    <3> QED BY <2>3, <3>1
  <2>14. Not(D[j]) = r
    BY <1>3, <2>11, <2>12
  <2>15. j \in T
    BY <2>10, <2>11, <2>13, <2>14
  <2> QED BY <2>2, <2>3, <2>13, <2>15
<1>5. ASSUME NEW m \in roots, HoldsIn(m, A) PROVE FALSE
  <2>1. m \in R
    BY <1>1
  <2>2. PICK i \in 1 .. Len(D) : D[i] = Not(m)
    BY <1>3, <2>1
  <2>3. Not(D[i]) = m
    BY <1>3, <2>1, <2>2
  <2>4. i \in T
    BY <1>5, <2>1, <2>3
  <2> QED BY <1>4, <2>4
<1> QED BY <1>5

(* Final names decisions of the trail. *)
LEMMA FinalDecided ==
  ASSUME TrailCore, NEW roots, AllFalse(roots), NEW S, DecWithin(Level, S)
  PROVE  Final(roots) \subseteq S
<1> SUFFICES ASSUME NEW n \in Final(roots) PROVE n \in S
  OBVIOUS
<1>1. PICK m \in Reached(roots) : n = Not(m) /\ reasons[Var(m)] = CNull
  BY DEF Final
<1>2. m \in LitSet /\ IsFalse(m)
  BY ReachedFacts DEF AllFalse
<1>3. PICK i \in 1 .. Len(D) : D[i] = Not(m) /\ Var(D[i]) = Var(m)
  BY <1>2, FalseFacts
<1>4. levels[Var(D[i])] \in 0 .. Level
  BY TrailFacts
<1>5. levels[Var(D[i])] <= Level
  BY <1>4 DEF TrailCore, TypeOK
<1> QED BY <1>1, <1>3, <1>5 DEF DecWithin

(* Whatever refutes the clauses together with S, Why names literals of S   *)
(* which are enough.                                                       *)
LEMMA WhyEnough ==
  ASSUME TrailCore, Sound, NEW S, Refuted(sx, sxLit, S)
  PROVE  Why \subseteq S /\ ~ Satisfiable(formula \cup Units(Why))
<1>1. DecWithin(Level, S) /\ cls \in Seq(Seq(LitSet)) /\ LitNull \notin LitSet
  BY DEF Refuted, TrailCore, TypeOK, LitNull, LitSet
<1>2. CASE sxLit \in S /\ sxLit \in LitSet /\ IsFalse(sxLit)
  <2> DEFINE R == {sxLit}
  <2>1. AllFalse(R) /\ Why = R \cup Final(R)
    BY <1>1, <1>2 DEF AllFalse, Why
  <2>2. Why \subseteq S
    BY <1>1, <1>2, <2>1, FinalDecided
  <2>3. ASSUME NEW A \in SUBSET VarSet, ModelOf(A, formula \cup Units(Why)) PROVE FALSE
    <3>1. Model(A) /\ \A m \in Why : HoldsIn(m, A)
      BY <2>3, UnitsHoldIn
    <3>2. HoldsIn(sxLit, A) /\ \A m \in Final(R) : HoldsIn(m, A)
      BY <2>1, <3>1
    <3>3. \A m \in R : ~ HoldsIn(m, A)
      BY <2>1, <3>1, <3>2, FinalImplies
    <3> QED BY <3>2, <3>3
  <2> QED BY <2>2, <2>3 DEF Satisfiable
<1>3. CASE sxLit = LitNull /\ sx \in Clauses /\ Falsified(sx)
  <2> DEFINE R == ToSet(cls[sx])
  <2>1. cls[sx] \in Seq(LitSet) /\ \A m \in R : \E k \in 1 .. Len(cls[sx]) : m = cls[sx][k]
    BY <1>1, <1>3 DEF ToSet, Clauses
  <2>2. Why = Final(R)
    BY <1>3 DEF Why, Clauses, CNull
  <2>3. AllFalse(R)
    BY <1>3, <2>1 DEF AllFalse, Falsified
  <2>4. Why \subseteq S
    BY <1>1, <2>2, <2>3, FinalDecided
  <2>5. ASSUME NEW A \in SUBSET VarSet, ModelOf(A, formula \cup Units(Why)) PROVE FALSE
    <3>1. Model(A) /\ \A m \in Final(R) : HoldsIn(m, A)
      BY <2>2, <2>5, UnitsHoldIn
    <3>2. \A m \in R : ~ HoldsIn(m, A)
      BY <2>3, <3>1, FinalImplies
    <3>3. PICK k \in 1 .. Len(cls[sx]) : HoldsIn(cls[sx][k], A)
      BY <1>3, <3>1 DEF Sound
    <3>4. cls[sx][k] \in R
      BY <2>1 DEF ToSet
    <3> QED BY <3>2, <3>3, <3>4
  <2> QED BY <2>4, <2>5 DEF Satisfiable
<1> QED BY <1>2, <1>3 DEF Refuted

(***************************************************************************)
(* The invariant for Why: the failed assumption is forgotten when a call   *)
(* goes on, and after an answer -1 the trail still refutes the assumptions *)
(* with the conflict, or with the failed assumption.                       *)
(***************************************************************************)
WhyKnown == Returned /\ res = "unsat" => mode = "idle" /\ Refuted(sx, sxLit, asked)

WhyInv ==
  /\ pc \notin {"ready", "cleanup"} \/ sx # CNull => sxLit = LitNull
  /\ pc # "ready" => res = "none"
  /\ WhyKnown

(* What Refuted says is of the trail only. *)
LEMMA RefutedFrame ==
  ASSUME NEW x, NEW m, NEW S, UNCHANGED trailVars
  PROVE  Refuted(x, m, S) => Refuted(x, m, S)'
BY DEF Refuted, DecWithin, Falsified, IsFalse, Clauses, trailVars, assignVars, clauseVars

(* It claims nothing of a running call, or of another answer. *)
LEMMA WhyQuiet ==
  ASSUME pc' \notin {"ready", "cleanup"} \/ sx' # CNull => sxLit' = LitNull,
         pc' # "ready" => res' = "none",
         res' # "unsat"
  PROVE  WhyInv'
BY DEF WhyInv, WhyKnown

(* A call, or a step of Prop or Back. *)
LEMMA WhyCall ==
  ASSUME WhyInv, Call \/ TrailStep \/ UNCHANGED vars
  PROVE  WhyInv'
<1>1. CASE \E ms \in AddSpace : Add(ms)
  <2>1. sxLit' = LitNull /\ res' = "none"
    BY <1>1 DEF Add, Begin
  <2> QED BY <2>1, WhyQuiet
<1>2. CASE Solve \/ Test \/ Untest
  <2>1. /\ pc = "ready" /\ pc' = "cleanup" /\ res' = "none" /\ UNCHANGED <<sx, sxLit>>
    BY <1>2 DEF Solve, Test, Untest, Begin, MayCall, At
  <2> QED BY <2>1, WhyQuiet DEF WhyInv
<1>3. CASE (\E m \in AssumeSpace : Assume(m)) \/ UNCHANGED vars
  <2>1. UNCHANGED trailVars /\ UNCHANGED <<pc, op, sx, sxLit, res, asked>>
    BY <1>3 DEF Assume, histVars, vars, solverVars
  <2>2. UNCHANGED mode
    BY <2>1 DEF trailVars, loopVars
  <2>3. WhyKnown'
    BY <2>1, <2>2, RefutedFrame DEF WhyInv, WhyKnown, Returned
  <2> QED BY <2>1, <2>3 DEF WhyInv
<1>4. CASE TrailStep
  <2>1. UNCHANGED <<pc, op, sx, sxLit, res, asked>>
    BY <1>4 DEF TrailStep, solverVars
  <2>2. mode # "idle"
    BY <1>4 DEF TrailStep, PropStep, BackStep, BackPop, BackStop, PropTake, PropReturn, PropNext, VisitBinary,
                VisitLast, VisitRewatch, VisitBlocked, VisitSatisfied, VisitingLong, Visiting
  <2>3. WhyKnown'
    BY <2>1, <2>2 DEF WhyInv, WhyKnown, Returned
  <2> QED BY <2>1, <2>3 DEF WhyInv
<1> QED BY <1>1, <1>2, <1>3, <1>4 DEF Call

(* A step of a call. *)
LEMMA WhyStep ==
  ASSUME IInv, WhyInv, SolverStep
  PROVE  WhyInv'
<1>1. CASE AddStore
  <2>1. /\ pc = "add" /\ pc' = "ready" /\ UNCHANGED <<sx, sxLit, res>>
    BY <1>1 DEF AddStore, At
  <2> QED BY <2>1, WhyQuiet DEF WhyInv
<1>2. CASE CleanupBot \/ CleanupDerive \/ CleanupBack \/ CleanupAssert \/ CleanupProp
           \/ CleanupAgain \/ CleanupDone
  <2>1. /\ pc \in Cleaning /\ pc' # "ready" /\ res' = res
        /\ \/ pc = "cleanup" /\ pc' = "cleanup" /\ sx' = CNull
           \/ sx # CNull /\ sxLit' = sxLit
           \/ pc # "cleanup" /\ sxLit' = sxLit
           \/ sxLit' = LitNull
    BY <1>2 DEF CleanupBot, CleanupDerive, CleanupBack, CleanupAssert, CleanupProp,
                CleanupAgain, CleanupDone, At, Cleaning
  <2>2. pc # "ready"
    BY <2>1 DEF Cleaning
  <2>3. pc' \notin {"ready", "cleanup"} \/ sx' # CNull => sxLit' = LitNull
    BY <2>1, <2>2 DEF WhyInv
  <2> QED BY <2>1, <2>2, <2>3, WhyQuiet DEF WhyInv
<1>3. CASE OpenScope \/ AssumeStart \/ AssumeNext \/ AssumeProp \/ AssumeTrue \/ Assumed
           \/ UntestLates \/ SearchProp \/ SearchDerive \/ Backjump \/ SearchAssert
           \/ SearchRestart \/ SearchGuess
  <2>1. pc \notin {"ready", "cleanup"} /\ pc' # "ready" /\ UNCHANGED <<sxLit, res>>
    BY <1>3 DEF OpenScope, AssumeStart, AssumeNext, AssumeProp, AssumeTrue, Assumed,
                UntestLates, SearchProp, SearchDerive, Backjump, SearchAssert, SearchRestart,
                SearchGuess, Guessing, At
  <2> QED BY <2>1, WhyQuiet DEF WhyInv
<1>4. CASE Tested \/ SearchDeadline \/ SearchStopped \/ SearchModel \/ (Untested /\ px = CNull)
  <2>1. /\ pc \notin {"ready", "cleanup"} /\ pc' = "ready" /\ sxLit' \in {sxLit, LitNull}
        /\ res' # "unsat"
    BY <1>4 DEF Tested, SearchDeadline, SearchStopped, SearchModel, Guessing, Untested, At,
                SolveReturn, Return
  <2> QED BY <2>1, WhyQuiet DEF WhyInv
<1>5. CASE Live /\ (CleanupFail \/ AssumeConflict \/ AssumeFalse \/ SearchUnsat
                    \/ (Untested /\ px # CNull))
  <2>1. /\ mode = "idle" /\ UNCHANGED <<trailVars, asked, op>> /\ pc # "ready" /\ pc' = "ready"
        /\ res' = IF pc = "cleanupAssert" /\ op = "test" THEN "panic" ELSE "unsat"
        /\ IF AssumeFalse THEN Refuted(sx', sxLit', Blamed) /\ sx' = CNull
                          ELSE Refuted(sx', LitNull, Blamed) /\ sxLit' = sxLit
    BY <1>5, UnsatEnds
  <2>2. pc # "cleanup"
    BY <1>5 DEF CleanupFail, AssumeConflict, AssumeFalse, SearchUnsat, Untested, At
  <2>3. sx' # CNull => sxLit' = LitNull
    BY <2>1, <2>2 DEF WhyInv
  <2>4. Refuted(sx', sxLit', Blamed)
    BY <2>1, <2>2 DEF WhyInv
  <2>5. ASSUME res' = "unsat" PROVE Refuted(sx', sxLit', asked)
    <3>1. CASE pc # "cleanupAssert"
      BY <2>4, <3>1 DEF Blamed
    <3>2. CASE pc = "cleanupAssert"
      <4>1. op # "test" /\ ~ AssumeFalse
        BY <2>1, <2>5, <3>2 DEF AssumeFalse, At
      <4>2. Len(scopes) = Len(testLevels) /\ ScopeLits(Len(scopes)) \subseteq asked
        BY <1>5, <3>2, <4>1, LevelTypes DEF ScopesOK, ScopeClosed, AskedOK
      <4>3. DecWithin(Level, asked)
        BY <2>4, <3>2, <4>2 DEF Refuted, DecWithin, Blamed
      <4>4. sxLit' = LitNull /\ LitNull \notin LitSet
        BY <2>1, <2>2, <4>1 DEF WhyInv, LitNull, LitSet
      <4> QED BY <2>4, <4>3, <4>4 DEF Refuted
    <3> QED BY <3>1, <3>2
  <2>6. ASSUME res' = "unsat" PROVE Refuted(sx, sxLit, asked)'
    <3>1. \A x, m, S : Refuted(x, m, S) => Refuted(x, m, S)'
      BY <2>1, RefutedFrame
    <3> QED BY <2>1, <2>5, <2>6 DEF Refuted, DecWithin, Falsified, IsFalse, Clauses, trailVars, assignVars, clauseVars
  <2>7. mode' = "idle"
    BY <2>1 DEF trailVars, loopVars
  <2> QED BY <2>1, <2>3, <2>6, <2>7 DEF WhyInv, WhyKnown
<1>6. CASE Dead /\ (AssumeBot \/ (Untested /\ px # CNull))
  <2>1. /\ mode = "idle" /\ UNCHANGED trailVars /\ pc \in {"assume", "untested"} /\ pc' = "ready"
        /\ sxLit' = sxLit
        /\ sx' = bot \/ (sx' = px /\ px # CNull)
    BY <1>6 DEF AssumeBot, AssumeFail, Untested, Return, At
  <2>2. bot \in Clauses /\ cls[bot] = <<>> /\ TrailCore /\ DecisionsFirst /\ Level = 0
    BY <1>6 DEF Dead, TrailEmpty
  <2>3. sx' \in Clauses /\ Falsified(sx')
    <3>1. Falsified(bot)
      BY <2>2 DEF Falsified
    <3>2. px # CNull => px \in Clauses /\ Falsified(px)
      BY <2>1, <2>2 DEF TrailCore, TypeOK, ConflictFalsified
    <3> QED BY <2>1, <2>2, <3>1, <3>2
  <2>4. \A S : DecWithin(Level, S)
    BY <2>2, TrailFacts DEF DecisionsFirst, DecWithin
  <2>5. sxLit = LitNull
    BY <2>1 DEF WhyInv
  <2>6. Refuted(sx, sxLit, asked)'
    BY <2>1, <2>3, <2>4, <2>5 DEF Refuted, DecWithin, Falsified, IsFalse, Clauses, trailVars, assignVars, clauseVars
  <2>7. mode' = "idle"
    BY <2>1 DEF trailVars, loopVars
  <2> QED BY <2>1, <2>5, <2>6, <2>7 DEF WhyInv, WhyKnown
<1>7. Live => ~ AssumeBot
  BY DEF AssumeBot, Live, TrailSound
<1>8. Dead => ~ CleanupFail /\ ~ AssumeConflict /\ ~ AssumeFalse /\ ~ SearchUnsat
  BY DEF Dead, CleanupFail, AssumeConflict, AssumeFalse, SearchUnsat, At
<1> QED BY <1>1, <1>2, <1>3, <1>4, <1>5, <1>6, <1>7, <1>8 DEF SolverStep, IInv

(* After an answer -1, Why names assumptions of the call which are enough  *)
(* for the clauses to be unsatisfiable. *)
LEMMA WhyFollows ==
  ASSUME IInv, WhyInv
  PROVE  WhyIsCore
<1> SUFFICES ASSUME Returned, res = "unsat"
             PROVE  Why \subseteq asked /\ ~ Satisfiable(formula \cup Units(Why))
  BY DEF WhyIsCore
<1>1. Refuted(sx, sxLit, asked)
  BY DEF WhyInv, WhyKnown
<1>2. CASE Live
  BY <1>1, <1>2, WhyEnough, LevelTypes DEF TrailSound, TrailInv
<1>3. CASE Dead
  <2>1. TrailCore /\ ~ Satisfiable(formula)
    BY <1>3 DEF Dead, TrailEmpty
  <2>2. Sound
    <3> SUFFICES ASSUME NEW A, Model(A) PROVE FALSE
      BY DEF Sound
    <3> QED BY <2>1 DEF Model, Satisfiable
  <2> QED BY <1>1, <2>1, <2>2, WhyEnough
<1> QED BY <1>2, <1>3 DEF IInv

(* After an answer -1 of Solve, Test or Untest, Why (S.final and the       *)
(* failed assumption) names assumptions of the call, tested or not, with   *)
(* which the added clauses have no model.                                  *)
THEOREM WhyRight == "final" \in Discipline => (Spec => []WhyIsCore)
<1> SUFFICES ASSUME "final" \in Discipline PROVE Spec => []WhyIsCore
  OBVIOUS
<1>1. Init => IInv /\ WhyInv
  BY IInvInit DEF Init, WhyInv, WhyKnown
<1>2. IInv /\ WhyInv /\ [Next]_vars => IInv' /\ WhyInv'
  BY IInvNext, WhyCall, WhyStep DEF Next
<1>3. IInv /\ WhyInv => WhyIsCore
  BY WhyFollows
<1> QED BY <1>1, <1>2, <1>3, PTL DEF Spec
=============================================================================
