------------------------------- MODULE Solver -------------------------------
(***************************************************************************)
(* The incremental CDCL solver xo.S over the trail of module Trail: Add,   *)
(* Assume, Solve, Test, Untest and Why, with conflict analysis             *)
(* (xo.Deriver).  A call is a sequence of steps named by pc; a step waits  *)
(* until the loop of Trail it started has ended (mode = "idle").           *)
(*                                                                         *)
(* Nondeterministic: the variable and sign of a guess (the heap order and  *)
(* the phase cache are not modelled), when a restart is due, and when the  *)
(* deadline or the control goroutine ends a Solve.                         *)
(***************************************************************************)
EXTENDS Trail

CONSTANTS
  AddSpace,     \* the clauses the client may add, as given to Add
  AssumeSpace,  \* the literals the client may assume
  MaxCalls,     \* bound on the calls of Solve, Test and Untest
  MaxAssumes,   \* bound on the assumptions waiting for a Solve or Test
  MaxScopes,    \* bound on nested test scopes
  MaxRestarts,  \* bound on restarts in one Solve
  MayEnd,       \* whether a Solve may be cancelled or reach its deadline
  Discipline    \* the precautions of the client, see below

ASSUME AddSpaceAssumption == \A ms \in AddSpace : ms \in Seq(LitSet)
ASSUME AssumeSpaceAssumption == AssumeSpace \subseteq LitSet
ASSUME BoundsAssumption == {MaxCalls, MaxRestarts} \subseteq Nat
ASSUME DisciplineAssumption == Discipline \subseteq {"final", "untest", "solve"}

VARIABLES
  pc,           \* what the running call does next
  op,           \* the running call
  arg,          \* the literals passed to Add
  sx,           \* s.x, the conflict of the last unsat result
  sxLit,        \* s.xLit, the failed assumption of the last unsat result
  testLevels,   \* s.testLevels
  endTestLevel, \* s.endTestLevel
  assumptLevel, \* s.assumptLevel
  assumes,      \* s.assumes
  drvd,         \* the last Derived: P, Unit and TargetLevel
  lvls,         \* Deriver.Lvls, as the set of marked levels
  restarts,     \* restarts in this Solve
  res,          \* result of the last call, "none" while one is running
  unresolved,   \* history: the call whose unsat result is still in force
  calls,        \* calls so far
  formula,      \* history: the clauses added, as sets
  scopes,       \* history: the assumptions of each test scope
  asked         \* history: the assumptions of the last call

apiVars  == <<testLevels, endTestLevel, assumes>>
histVars == <<calls, formula, scopes, asked>>
solverVars == <<pc, op, arg, sx, sxLit, testLevels, endTestLevel, assumptLevel,
                assumes, drvd, lvls, restarts, res, unresolved, calls, formula, scopes, asked>>
vars == <<trailVars, solverVars>>

NoDerived == [P |-> CNull, Unit |-> LitNull, TargetLevel |-> 0]

Init ==
  /\ TrailInit
  /\ pc = "ready" /\ op = "none" /\ arg = <<>>
  /\ sx = CNull /\ sxLit = LitNull
  /\ testLevels = <<>> /\ endTestLevel = 0 /\ assumptLevel = 0 /\ assumes = <<>>
  /\ drvd = NoDerived /\ lvls = {} /\ restarts = 0
  /\ res = "none" /\ unresolved = "none" /\ calls = 0
  /\ formula = {} /\ scopes = <<>> /\ asked = {}

(* A set of clauses is satisfied by the set A of the variables which are   *)
(* true: the reference the solver's answers are compared with.             *)
HoldsIn(m, A) == (Var(m) \in A) <=> (m % 2 = 0)

ModelOf(A, F) == \A c \in F : \E m \in c : HoldsIn(m, A)

Satisfiable(F) == \E A \in SUBSET VarSet : ModelOf(A, F)

Units(ms) == {{m} : m \in ms}

-----------------------------------------------------------------------------
(***************************************************************************)
(* Deriver.Derive: walk back over the trail from a conflict to the first   *)
(* unique implication point.                                               *)
(***************************************************************************)

(* Mutant: the literals of assumption levels are dropped like those of     *)
(* level 0.                                                                *)
MarkNoAssumed(acc, m) ==
  LET v == Var(m)
      l == levels[v]
  IN  IF v \in acc.seen THEN acc
      ELSE IF l = Level THEN [acc EXCEPT !.seen = @ \cup {v}, !.count = @ + 1]
      ELSE IF l <= assumptLevel THEN [acc EXCEPT !.seen = @ \cup {v}]
      ELSE [acc EXCEPT !.seen = @ \cup {v},
                       !.cLits = Append(@, m),
                       !.lvls = @ \cup {l},
                       !.target = IF @ < l THEN l ELSE @]

(* Count and mark the literals of a conflict or of a reason. *)
Mark(acc, m) ==
  LET v == Var(m)
      l == levels[v]
  IN  IF v \in acc.seen THEN acc
      ELSE IF l = 0 THEN [acc EXCEPT !.seen = @ \cup {v}]
      ELSE IF l = Level THEN [acc EXCEPT !.seen = @ \cup {v}, !.count = @ + 1]
      ELSE [acc EXCEPT !.seen = @ \cup {v},
                       !.cLits = Append(@, m),
                       !.lvls = @ \cup {l},
                       !.target = IF @ < l THEN l ELSE @]

(* One trail literal, from the last: the unique implication point if it is *)
(* the only marked one left, else its reason is marked too.                *)
Resolve(acc, m) ==
  IF acc.done \/ Var(m) \notin acc.seen THEN acc
  ELSE IF acc.count = 1
       THEN [acc EXCEPT !.done = TRUE, !.cLits[1] = Not(m)]
       ELSE FoldLeft(Mark, [acc EXCEPT !.count = @ - 1],
                     Tail(cls[reasons[Var(m)]]))

FirstUip(x) ==
  LET start == [seen |-> {}, count |-> 0, cLits |-> <<LitNull>>,
                lvls |-> lvls, target |-> 0, done |-> FALSE]
  IN  FoldLeft(Resolve, FoldLeft(Mark, start, cls[x]), Reverse(D))

(* Literals whose reason has no other literals than those of the clause    *)
(* and of R, and whose level is marked.                                    *)
Follows(uip, R) ==
  LET inClause(n) == \E k \in 2 .. Len(uip.cLits) : Var(uip.cLits[k]) = Var(n)
  IN  {m \in LitSet :
         /\ levels[Var(m)] \in uip.lvls
         /\ reasons[Var(m)] # CNull
         /\ \A r \in ToSet(Tail(cls[reasons[Var(m)]])) : inClause(r) \/ r \in R}

(* Deriver.isRdnt: the literals implied false by others of the clause,     *)
(* through reasons whose literals all lie in marked levels.  The trail     *)
(* position bounds the depth of the search.                                *)
Redundant(uip) ==
  LET rdnt[depth \in 0 .. NVars] ==
        IF depth = 0 THEN {} ELSE Follows(uip, rdnt[depth - 1])
  IN  rdnt[NVars]

KeepLit(acc, m) ==
  IF m \in acc.rdnt THEN acc ELSE [acc EXCEPT !.cLits = Append(@, m)]

(* Derive: the learned clause without its redundant literals, the target   *)
(* level computed before minimizing, and the level marks left behind.      *)
Derive(x) ==
  LET uip == FirstUip(x)
      start == [rdnt |-> Redundant(uip), cLits |-> <<uip.cLits[1]>>]
      cLits == FoldLeft(KeepLit, start, Tail(uip.cLits)).cLits
  IN  [cLits |-> cLits,
       target |-> uip.target,
       lvls |-> uip.lvls \ {levels[Var(m)] : m \in ToSet(cLits)}]

LearnFrom(x) ==
  \E d \in {Derive(x)} :
    /\ Learn(d.cLits)
    /\ lvls' = d.lvls
    /\ drvd' = [P |-> Len(cls) + 1, Unit |-> d.cLits[1], TargetLevel |-> d.target]

AssertDerived ==
  /\ Assign(drvd.Unit, drvd.P)
  /\ UNCHANGED <<head, clauseVars, heap, loopVars>>

HigherOf(k, l) == IF k < l THEN l ELSE k

-----------------------------------------------------------------------------
(***************************************************************************)
(* Calls.  The precautions a client may take:                              *)
(*   "final"   no call after an unsat result if the clauses alone are      *)
(*             unsatisfiable, unless one of them became empty;             *)
(*   "untest"  in a test scope, no Test after an unsat result until Untest *)
(*             returns 0, as the documentation of Test asks;               *)
(*   "solve"   no Solve after a Test that returned -1, until Untest.       *)
(***************************************************************************)
At(l) == pc = l /\ mode = "idle"

MayCall ==
  /\ At("ready")
  /\ "final" \in Discipline /\ unresolved # "none" =>
       bot # CNull \/ Satisfiable(formula)

Begin(o) ==
  /\ MayCall
  /\ op' = o /\ res' = "none"
  /\ unresolved' = IF o = "add" THEN "none" ELSE unresolved

Counted == calls < MaxCalls /\ calls' = calls + 1

Return(r) ==
  /\ pc' = "ready" /\ res' = r
  /\ op' = op /\ drvd' = NoDerived
  /\ unresolved' = CASE r = "unsat" -> (IF op = "test" THEN "test" ELSE "solve")
                      [] OTHER -> "none"

Elements(seqs) == UNION {ToSet(seqs[i]) : i \in 1 .. Len(seqs)}

(* Cdb.Add drops false literals and repetitions, and the whole clause if a *)
(* literal is true or occurs with its negation.                            *)
TriviallyTrue(ms) ==
  \E i \in 1 .. Len(ms) : IsTrue(ms[i]) \/ Not(ms[i]) \in ToSet(ms)

AddLit(ks, m) == IF IsFalse(m) \/ m \in ToSet(ks) THEN ks ELSE Append(ks, m)

Simplified(ms) == FoldLeft(AddLit, <<>>, ms)

(* S.Add of a whole clause: ensure0, which panics in a test scope ... *)
Add(ms) ==
  /\ Begin("add") /\ testLevels = <<>>
  /\ arg' = ms /\ sx' = CNull /\ sxLit' = LitNull
  /\ StartBack(0)
  /\ pc' = "add"
  /\ formula' = formula \cup {ToSet(ms)}
  /\ UNCHANGED <<apiVars, assumptLevel, drvd, lvls, restarts, calls, scopes, asked>>

(* ... then Cdb.Add and, for a unit, Trail.Assign. *)
AddStore ==
  /\ At("add")
  /\ IF TriviallyTrue(arg) THEN UNCHANGED trailVars ELSE AddClause(Simplified(arg))
  /\ pc' = "ready" /\ arg' = <<>>
  /\ UNCHANGED <<op, sx, sxLit, apiVars, assumptLevel, drvd, lvls, restarts, res, unresolved, histVars>>

Assume(m) ==
  /\ MayCall /\ Len(assumes) < MaxAssumes
  /\ assumes' = Append(assumes, m)
  /\ UNCHANGED <<trailVars, pc, op, arg, sx, sxLit, testLevels, endTestLevel,
                 assumptLevel, drvd, lvls, restarts, res, unresolved, histVars>>

Solve ==
  /\ Begin("solve") /\ Counted
  /\ "solve" \in Discipline => unresolved # "test"
  /\ pc' = "cleanup" /\ restarts' = 0
  /\ asked' = Elements(scopes) \cup ToSet(assumes)
  /\ UNCHANGED <<trailVars, arg, sx, sxLit, apiVars, assumptLevel, drvd, lvls, formula, scopes>>

Test ==
  /\ Begin("test") /\ Counted /\ Len(scopes) < MaxScopes
  /\ "untest" \in Discipline => unresolved = "none" \/ scopes = <<>>
  /\ pc' = "cleanup"
  /\ scopes' = Append(scopes, assumes)
  /\ asked' = Elements(scopes)'
  /\ UNCHANGED <<trailVars, arg, sx, sxLit, apiVars, assumptLevel, drvd, lvls, restarts, formula>>

Untest ==
  /\ Begin("untest") /\ Counted /\ testLevels # <<>>
  /\ pc' = "cleanup"
  /\ testLevels' = Front(testLevels)
  /\ endTestLevel' = Last(testLevels)
  /\ scopes' = Front(scopes)
  /\ asked' = Elements(scopes)'
  /\ UNCHANGED <<trailVars, arg, sx, sxLit, assumes, assumptLevel, drvd, lvls, restarts, formula>>

-----------------------------------------------------------------------------
(***************************************************************************)
(* S.cleanupSolve: learn from the conflict of the last call until the      *)
(* trail is consistent, and go back to the tested assumptions.             *)
(***************************************************************************)
CleanupBot ==
  /\ At("cleanup") /\ sx # CNull /\ bot # CNull
  /\ sx' = CNull
  /\ UNCHANGED <<trailVars, pc, op, arg, sxLit, apiVars, assumptLevel, drvd, lvls,
                 restarts, res, unresolved, histVars>>

CleanupDerive ==
  /\ At("cleanup") /\ sx # CNull /\ bot = CNull
  /\ LearnFrom(sx)
  /\ pc' = "cleanupBack"
  /\ UNCHANGED <<op, arg, sx, sxLit, apiVars, assumptLevel, restarts, res, unresolved, histVars>>

CleanupBack ==
  /\ At("cleanupBack")
  /\ StartBack(HigherOf(drvd.TargetLevel, endTestLevel))
  /\ pc' = "cleanupAssert"
  /\ UNCHANGED <<op, arg, sx, sxLit, apiVars, assumptLevel, drvd, lvls, restarts, res, unresolved, histVars>>

(* Mutant: whether the unit has a value is not looked at. *)
StuckAlways == drvd.TargetLevel < endTestLevel

(* The unit contradicts a tested assumption. *)
CleanupStuck == drvd.TargetLevel < endTestLevel /\ levels[Var(drvd.Unit)] # -1

CleanupAssert ==
  /\ At("cleanupAssert") /\ ~ CleanupStuck
  /\ AssertDerived
  /\ pc' = "cleanupProp"
  /\ UNCHANGED <<op, arg, sx, sxLit, apiVars, assumptLevel, drvd, lvls, restarts, res, unresolved, histVars>>

CleanupProp ==
  /\ At("cleanupProp")
  /\ StartProp
  /\ pc' = "cleanupAgain"
  /\ UNCHANGED <<op, arg, sx, sxLit, apiVars, assumptLevel, drvd, lvls, restarts, res, unresolved, histVars>>

CleanupAgain ==
  /\ At("cleanupAgain")
  /\ sx' = px
  /\ pc' = "cleanup"
  /\ UNCHANGED <<trailVars, op, arg, sxLit, apiVars, assumptLevel, drvd, lvls, restarts,
                 res, unresolved, histVars>>

(* cleanupSolve returns the clause: Solve and Untest return -1 with it,    *)
(* Test panics.                                                            *)
CleanupFail ==
  /\ At("cleanupAssert") /\ CleanupStuck
  /\ sx' = drvd.P
  /\ Return(IF op = "test" THEN "panic" ELSE "unsat")
  /\ IF op = "solve" THEN assumes' = <<>> /\ assumptLevel' = 0
                     ELSE UNCHANGED <<assumes, assumptLevel>>
  /\ UNCHANGED <<trailVars, arg, sxLit, testLevels, endTestLevel, lvls, restarts, histVars>>

(* Mutant: everything is undone, tested assumptions too. *)
DoneBackAll ==
  /\ At("cleanup") /\ sx = CNull
  /\ StartBack(0)
  /\ sxLit' = LitNull
  /\ pc' = CASE op = "solve" -> "assume" [] op = "test" -> "scope" [] OTHER -> "lates"
  /\ UNCHANGED <<op, arg, sx, apiVars, assumptLevel, drvd, lvls, restarts, res, unresolved, histVars>>

CleanupDone ==
  /\ At("cleanup") /\ sx = CNull
  /\ StartBack(endTestLevel)
  /\ sxLit' = LitNull
  /\ pc' = CASE op = "solve" -> "assume" [] op = "test" -> "scope" [] OTHER -> "lates"
  /\ UNCHANGED <<op, arg, sx, apiVars, assumptLevel, drvd, lvls, restarts, res, unresolved, histVars>>

-----------------------------------------------------------------------------
(***************************************************************************)
(* S.makeAssumptions, for Solve and Test.                                  *)
(***************************************************************************)
OpenScope ==
  /\ At("scope")
  /\ testLevels' = Append(testLevels, Level)
  /\ pc' = "assume"
  /\ UNCHANGED <<trailVars, op, arg, sx, sxLit, endTestLevel, assumptLevel, assumes, drvd,
                 lvls, restarts, res, unresolved, histVars>>

(* All assumptions are dropped, and Solve forgets their level. *)
AssumeFail(al) ==
  /\ Return("unsat")
  /\ assumes' = <<>>
  /\ assumptLevel' = IF op = "solve" THEN 0 ELSE al
  /\ UNCHANGED <<trailVars, arg, testLevels, endTestLevel, lvls, restarts, histVars>>

AssumeBot ==
  /\ At("assume") /\ bot # CNull
  /\ sx' = bot /\ AssumeFail(Level)
  /\ UNCHANGED sxLit

AssumeStart ==
  /\ At("assume") /\ bot = CNull
  /\ assumptLevel' = Level
  /\ StartProp
  /\ pc' = "assuming"
  /\ UNCHANGED <<op, arg, sx, sxLit, apiVars, drvd, lvls, restarts, res, unresolved, histVars>>

AssumeConflict ==
  /\ At("assuming") /\ px # CNull
  /\ sx' = px /\ AssumeFail(assumptLevel)
  /\ UNCHANGED sxLit

AssumeNext ==
  /\ At("assuming") /\ px = CNull /\ assumes # <<>> /\ IsFree(assumes[1])
  /\ assumptLevel' = assumptLevel + 1
  /\ Assign(assumes[1], CNull)
  /\ assumes' = Tail(assumes)
  /\ pc' = "assumeProp"
  /\ UNCHANGED <<head, clauseVars, heap, loopVars, op, arg, sx, sxLit, testLevels,
                 endTestLevel, drvd, lvls, restarts, res, unresolved, histVars>>

AssumeProp ==
  /\ At("assumeProp")
  /\ StartProp
  /\ pc' = "assuming"
  /\ UNCHANGED <<op, arg, sx, sxLit, apiVars, assumptLevel, drvd, lvls, restarts, res, unresolved, histVars>>

(* Mutant: a false assumption is passed over like a true one. *)
AssumeAny ==
  /\ At("assuming") /\ px = CNull /\ assumes # <<>> /\ ~ IsFree(assumes[1])
  /\ assumes' = Tail(assumes)
  /\ UNCHANGED <<trailVars, pc, op, arg, sx, sxLit, testLevels, endTestLevel, assumptLevel,
                 drvd, lvls, restarts, res, unresolved, histVars>>

AssumeTrue ==
  /\ At("assuming") /\ px = CNull /\ assumes # <<>> /\ IsTrue(assumes[1])
  /\ assumes' = Tail(assumes)
  /\ UNCHANGED <<trailVars, pc, op, arg, sx, sxLit, testLevels, endTestLevel, assumptLevel,
                 drvd, lvls, restarts, res, unresolved, histVars>>

AssumeFalse ==
  /\ At("assuming") /\ px = CNull /\ assumes # <<>> /\ IsFalse(assumes[1])
  /\ sxLit' = assumes[1] /\ AssumeFail(assumptLevel)
  /\ UNCHANGED sx

Assumed ==
  /\ At("assuming") /\ px = CNull /\ assumes = <<>>
  /\ pc' = IF op = "solve" THEN "search" ELSE "tested"
  /\ UNCHANGED <<trailVars, op, arg, sx, sxLit, apiVars, assumptLevel, drvd, lvls, restarts,
                 res, unresolved, histVars>>

-----------------------------------------------------------------------------
(* Cdb.CheckModel *)
CheckModel == \A c \in added : \E k \in 1 .. Len(cls[c]) : IsTrue(cls[c][k])

(* Guess.has *)
HeapHasFree == \E v \in heap : IsFree(Pos(v))

(* The end of S.Test: without a free variable in the heap it is a model. *)
Tested ==
  /\ At("tested")
  /\ endTestLevel' = Level
  /\ Return(IF HeapHasFree THEN "unknown" ELSE IF CheckModel THEN "sat" ELSE "fatal")
  /\ UNCHANGED <<trailVars, arg, sx, sxLit, testLevels, assumptLevel, assumes, lvls,
                 restarts, histVars>>

(* S.Untest calls Trail.backWithLates, which returns at once if the level  *)
(* is not above the target (LatesUnused below), and then Prop.             *)
UntestLates ==
  /\ At("lates") /\ Level <= endTestLevel
  /\ StartProp
  /\ pc' = "untested"
  /\ UNCHANGED <<op, arg, sx, sxLit, apiVars, assumptLevel, drvd, lvls, restarts, res, unresolved, histVars>>

Untested ==
  /\ At("untested")
  /\ sx' = px
  /\ sxLit' = IF px = CNull THEN LitNull ELSE sxLit
  /\ Return(IF px = CNull THEN "unknown" ELSE "unsat")
  /\ UNCHANGED <<trailVars, arg, apiVars, assumptLevel, lvls, restarts, histVars>>

-----------------------------------------------------------------------------
(***************************************************************************)
(* The loop of S.Solve.                                                    *)
(***************************************************************************)
SearchProp ==
  /\ At("search")
  /\ StartProp
  /\ pc' = "propagated"
  /\ UNCHANGED <<op, arg, sx, sxLit, apiVars, assumptLevel, drvd, lvls, restarts, res, unresolved, histVars>>

(* The deferred function of Solve. *)
SolveReturn(r) ==
  /\ Return(r)
  /\ assumes' = <<>> /\ assumptLevel' = 0
  /\ UNCHANGED <<arg, testLevels, endTestLevel, lvls, restarts, histVars>>

(* Mutant: a conflict at the first guess counts as final. *)
UnsatEarly ==
  /\ At("propagated") /\ px # CNull /\ Level <= assumptLevel + 1
  /\ sx' = px
  /\ SolveReturn("unsat")
  /\ UNCHANGED <<trailVars, sxLit>>

SearchUnsat ==
  /\ At("propagated") /\ px # CNull /\ Level <= assumptLevel
  /\ sx' = px
  /\ SolveReturn("unsat")
  /\ UNCHANGED <<trailVars, sxLit>>

SearchDerive ==
  /\ At("propagated") /\ px # CNull /\ Level > assumptLevel
  /\ LearnFrom(px)
  /\ pc' = "backjump"
  /\ UNCHANGED <<op, arg, sx, sxLit, apiVars, assumptLevel, restarts, res, unresolved, histVars>>

(* Mutant: one level of the conflict is left. *)
BackjumpShort ==
  /\ At("backjump")
  /\ StartBack(HigherOf(drvd.TargetLevel, assumptLevel) + 1)
  /\ pc' = "assert"
  /\ UNCHANGED <<op, arg, sx, sxLit, apiVars, assumptLevel, drvd, lvls, restarts, res, unresolved, histVars>>

Backjump ==
  /\ At("backjump")
  /\ StartBack(HigherOf(drvd.TargetLevel, assumptLevel))
  /\ pc' = "assert"
  /\ UNCHANGED <<op, arg, sx, sxLit, apiVars, assumptLevel, drvd, lvls, restarts, res, unresolved, histVars>>

SearchAssert ==
  /\ At("assert")
  /\ AssertDerived
  /\ pc' = "search"
  /\ UNCHANGED <<op, arg, sx, sxLit, apiVars, assumptLevel, drvd, lvls, restarts, res, unresolved, histVars>>

(* The propagation ticker: the deadline has passed ... *)
SearchDeadline ==
  /\ At("propagated") /\ px = CNull /\ MayEnd
  /\ SolveReturn("unknown")
  /\ UNCHANGED <<trailVars, sx, sxLit>>

(* ... or the control goroutine asked to stop. *)
SearchStopped ==
  /\ At("propagated") /\ px = CNull /\ MayEnd
  /\ StartBack(endTestLevel)
  /\ SolveReturn("unknown")
  /\ UNCHANGED <<sx, sxLit>>

SearchRestart ==
  /\ At("propagated") /\ px = CNull /\ restarts < MaxRestarts
  /\ restarts' = restarts + 1
  /\ StartBack(assumptLevel)
  /\ pc' = "guess"
  /\ UNCHANGED <<op, arg, sx, sxLit, apiVars, assumptLevel, drvd, lvls, res, unresolved, histVars>>

Guessing == (At("propagated") /\ px = CNull) \/ At("guess")

(* Guess.Guess pops the heap until a variable is free: popped holds the    *)
(* assigned ones that the order of the heap puts before it.                *)
SearchGuess ==
  /\ Guessing
  /\ \E v \in heap, popped \in SUBSET {u \in heap : ~ IsFree(Pos(u))} :
       /\ IsFree(Pos(v))
       /\ heap' = heap \ (popped \cup {v})
       /\ \E m \in {Pos(v), Not(Pos(v))} : Assign(m, CNull)
  /\ pc' = "search"
  /\ UNCHANGED <<head, clauseVars, loopVars, op, arg, sx, sxLit, apiVars, assumptLevel,
                 drvd, lvls, restarts, res, unresolved, histVars>>

(* Mutant: only an empty heap ends the search. *)
ModelIfEmpty ==
  /\ Guessing /\ heap = {}
  /\ SolveReturn(IF CheckModel THEN "sat" ELSE "fatal")
  /\ UNCHANGED <<trailVars, sx, sxLit>>

SearchModel ==
  /\ Guessing /\ ~ HeapHasFree
  /\ heap' = {}
  /\ SolveReturn(IF CheckModel THEN "sat" ELSE "fatal")
  /\ UNCHANGED <<assignVars, head, clauseVars, loopVars, sx, sxLit>>

-----------------------------------------------------------------------------
Stopped == res \in {"fatal", "panic"}

Call ==
  /\ ~ Stopped
  /\ \/ \E ms \in AddSpace : Add(ms)
     \/ \E m \in AssumeSpace : Assume(m)
     \/ Solve \/ Test \/ Untest

TrailStep == (PropStep \/ BackStep) /\ UNCHANGED solverVars

SolverStep ==
  \/ AddStore
  \/ CleanupBot \/ CleanupDerive \/ CleanupBack \/ CleanupAssert \/ CleanupProp
  \/ CleanupAgain \/ CleanupFail \/ CleanupDone
  \/ OpenScope \/ AssumeBot \/ AssumeStart \/ AssumeConflict \/ AssumeNext \/ AssumeProp
  \/ AssumeTrue \/ AssumeFalse \/ Assumed \/ Tested \/ UntestLates \/ Untested
  \/ SearchProp \/ SearchUnsat \/ SearchDerive \/ Backjump \/ SearchAssert
  \/ SearchDeadline \/ SearchStopped \/ SearchRestart \/ SearchGuess \/ SearchModel

Next == Call \/ TrailStep \/ SolverStep

(* A call, once made, runs: it is sequential code which never waits. *)
Spec == Init /\ [][Next]_vars /\ WF_vars(TrailStep) /\ WF_vars(SolverStep)

-----------------------------------------------------------------------------
(***************************************************************************)
(* Properties.                                                             *)
(***************************************************************************)
Returned == pc = "ready" /\ op \in {"solve", "test", "untest"}

(* The type invariant of the solver. *)
SolverTypeOK ==
  /\ TypeOK
  /\ sx \in {CNull} \cup Clauses /\ sxLit \in LitSet \cup {LitNull}
  /\ testLevels \in Seq(Nat) /\ endTestLevel \in Nat /\ assumptLevel \in Nat
  /\ assumes \in Seq(AssumeSpace) /\ lvls \subseteq 1 .. NVars
  /\ drvd \in [P : Nat, Unit : LitSet \cup {LitNull}, TargetLevel : Nat]
  /\ res \in {"none", "sat", "unsat", "unknown", "fatal", "panic"}
  /\ restarts \in 0 .. MaxRestarts /\ calls \in 0 .. MaxCalls

(* When Solve or Test answers 1, Value gives a model: every variable has a *)
(* value, every added clause (as given to Add, before simplification) and  *)
(* every assumption, tested or not, is true.                               *)
SatIsModel ==
  Returned /\ res = "sat" =>
    /\ \A v \in VarSet : ~ IsFree(Pos(v))
    /\ \A c \in formula : \E m \in c : IsTrue(m)
    /\ \A m \in asked : IsTrue(m)

(* When Solve, Test or Untest answers -1, the added clauses are            *)
(* unsatisfiable together with the assumptions in force.                   *)
UnsatIsUnsat ==
  Returned /\ res = "unsat" => ~ Satisfiable(formula \cup Units(asked))

(* A learned clause is a consequence of the added clauses alone, whatever  *)
(* assumptions and scopes it was learned under.                            *)
LearnedImplied ==
  pc \in {"backjump", "cleanupBack"} =>
    ~ Satisfiable(formula \cup Units({Not(m) : m \in ToSet(cls[drvd.P])}))

(* The Derived clause asserts: its unit has no value after backjumping and *)
(* its other literals are false.                                           *)
UnitIsAsserted ==
  (pc = "assert" \/ (pc = "cleanupAssert" /\ ~ CleanupStuck)) /\ mode = "idle" =>
    /\ IsFree(drvd.Unit) /\ cls[drvd.P][1] = drvd.Unit
    /\ \A k \in 2 .. Len(cls[drvd.P]) : IsFalse(cls[drvd.P][k])

(* Mutant: reasons are not followed. *)
ReachedDirect(roots) == roots

(* S.finalRec: the literals reached from roots through reasons. *)
Reached(roots) ==
  LET others(m) == ToSet(Tail(cls[reasons[Var(m)]]))
      reach[n \in 0 .. NVars] ==
        IF n = 0 THEN roots
        ELSE reach[n - 1] \cup
             UNION {others(m) : m \in {k \in reach[n - 1] : reasons[Var(k)] # CNull}}
  IN  reach[NVars]

(* S.final: the negations of the reached literals without reason. *)
Final(ms) == {Not(m) : m \in {k \in Reached(ms) : reasons[Var(k)] = CNull}}

(* S.Why: the assumptions from which the conflict follows through reasons. *)
Why ==
  IF sxLit # LitNull THEN {sxLit} \cup Final({sxLit})
  ELSE IF sx # CNull THEN Final(ToSet(cls[sx]))
  ELSE {}

(* After an answer -1, Why names assumptions of the call, and these are    *)
(* enough for the clauses to be unsatisfiable.                             *)
WhyIsCore ==
  Returned /\ res = "unsat" =>
    Why \subseteq asked /\ ~ Satisfiable(formula \cup Units(Why))

(* "internal error in solve: sat model": CheckModel never fails. *)
NoFatal == res # "fatal"

(* Test panics ("test after unresolved unsat") only when the clauses are   *)
(* unsatisfiable under the assumptions already tested.                     *)
PanicIsUnsat ==
  res = "panic" => ~ Satisfiable(formula \cup Units(Elements(Front(scopes))))

(* backWithLates always finds the level already undone by cleanupSolve. *)
LatesUnused == At("lates") => Level <= endTestLevel

(* Test scopes nest: their levels do not decrease and none is above the    *)
(* level of the innermost completed Test, below which only Untest goes.    *)
ScopesNest ==
  At("ready") /\ ~ Stopped /\ testLevels # <<>> =>
    /\ \A i, j \in 1 .. Len(testLevels) : i <= j => testLevels[i] <= testLevels[j]
    /\ Last(testLevels) <= endTestLevel /\ endTestLevel <= Level

(* The tested assumptions hold as long as their scope is open and the last *)
(* call did not fail.                                                      *)
TestedHold ==
  Returned /\ res \in {"sat", "unknown"} /\ mode = "idle" =>
    \A m \in Elements(scopes) : IsTrue(m)

(* What the solver relies on between its steps: its state is well formed,  *)
(* a derived clause asserts, test scopes nest, nothing is left for         *)
(* backWithLates, and what it takes for a model is one.                    *)
SolverInv == SolverTypeOK /\ UnitIsAsserted /\ ScopesNest /\ LatesUnused /\ NoFatal

(* A step of TrailNext's Client with the arguments read off the step, so   *)
(* that any clause over LitSet may be added or learned.                    *)
ContractClient ==
  \/ /\ Len(cls') > Len(cls)
     /\ Last(cls') \in Seq(LitSet)
     /\ ClientAdd(Last(cls')) \/ ClientLearn(Last(cls'))
  \/ /\ Len(D') > Len(D)
     /\ LET m == Last(D')
            c == reasons'[Var(m)]
        IN  \/ m \in LitSet /\ c = CNull /\ ClientAssume(m)
            \/ m \in LitSet /\ c = CNull /\ ClientGuess(m, heap \ (heap' \cup {Var(m)}))
            \/ c \in Clauses /\ ClientAssert(c)
  \/ ClientGuessNone \/ ClientProp
  \/ mode' = "back" /\ ClientBack(trg')

(* The solver drives the trail as TrailSpec says, until a clause becomes   *)
(* empty.  Then propagation may leave a conflict of level 0 after Untest,  *)
(* with which a clause is added; every later Solve and Test answers -1 all *)
(* the same.                                                               *)
TrailContract ==
  TrailInit /\ [][bot # CNull \/ ContractClient \/ PropStep \/ BackStep]_trailVars

(* Every call returns. *)
CallsReturn == pc # "ready" ~> pc = "ready"
=============================================================================
